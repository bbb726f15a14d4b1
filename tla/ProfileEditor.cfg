SPECIFICATION Spec
CONSTANTS
    Kinds = {"wifi", "wired", "l2tp", "wireguard"}
    Sealed = FALSE
    OnOffer = {"None", "WpaPsk", "WpaEnterprise", "WepKey"}
    SecForms <- MCForms
    Mtus = {0, 67}
    IpForms <- MCIpForms
    VpnForms <- MCVpnForms
    Foreign <- MCForeign
    MaxWaits = 2
    MaxSaves = 2
INVARIANTS TypeOK StoredCoherent ListKnows
PROPERTIES KeptOrReplaced SavedIsShown WaitsEnd
