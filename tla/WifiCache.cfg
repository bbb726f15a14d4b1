SPECIFICATION Spec
CONSTANTS
    Ssids = {1, 2, 3}
    Aps <- MCAps
    Profiles <- MCProfiles
    MaxStrength = 1
    MaxShown = 2
    PruneAfter = 2
    MaxAbsent = 2
INVARIANTS TypeOK ListedOnce ReachableAfterRefresh
PROPERTIES PrunedOnlyIfMissed ShownStaysShown
