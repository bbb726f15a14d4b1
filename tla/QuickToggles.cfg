SPECIFICATION Spec
CONSTANTS
    Kinds = {"net", "wifi"}
    MaxPolls = 2
    MaxDepth = 3
    MaxPending = 1
INVARIANTS TypeOK ToggleWatched RowsTruthful
