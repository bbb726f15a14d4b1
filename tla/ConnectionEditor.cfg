SPECIFICATION Spec
CONSTANTS
    Paths = {"p1", "p2", "p3"}
    KindOf <- MCKindOf
    Rounds = 1
    MaxFrames = 2
    MaxClicks = 3
INVARIANTS TypeOK OwnChangesShown
PROPERTIES HandlersEnd
CHECK_DEADLOCK FALSE
