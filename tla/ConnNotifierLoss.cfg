SPECIFICATION NotifierSpec
CONSTANTS
    Conns = {eth, wifi, veth}
    Virtual = {veth}
    None = None
INVARIANT
    LossTold
