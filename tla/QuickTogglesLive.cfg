SPECIFICATION Spec
CONSTANTS
    Kinds = {"net"}
    MaxPolls = 2
    MaxDepth = 3
    MaxPending = 2
PROPERTIES NetRequests PollingStops
