SPECIFICATION FairSpec
CONSTANTS
    Snapshots <- MCSnapshots
    NoName = NoName
    MaxQueue = 2
    MaxClicks = 2
    MaxRefreshes = 1
    MaxShows = 1
INVARIANTS TypeOK RowsMatchLists OnlyAChangeMisleads
PROPERTIES SubmenuHoldsMenu MenuCatchesUp
CHECK_DEADLOCK FALSE
