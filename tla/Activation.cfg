SPECIFICATION FairSpec
CONSTANTS
    WifiDevices = {1, 2}
    ApCapable = {2}
    Eth = Eth
    NoDevice = NoDevice
    Ssids = {"A", "B"}
    NoSsid = NoSsid
    Profiles <- BothKinds
    NoProfile = NoProfile
    MaxCalls = 2
    MaxChanges = 1
INVARIANTS TypeOK PrimaryIsBest
PROPERTIES OthersSurvive LastAskedWins DisconnectReaches
CHECK_DEADLOCK FALSE
