SPECIFICATION Spec
CONSTANTS
    Kinds = {"wifi"}
    Sealed = FALSE
    OnOffer = {"None", "WpaPsk", "WpaEnterprise", "WepKey"}
    SecForms <- MCForms
    Mtus = {0, 67}
    IpForms <- MCIpForms
    VpnForms <- MCVpnForms
    Foreign <- MCForeign
    MaxWaits = 1
    MaxSaves = 2
PROPERTY BlankKeeps
