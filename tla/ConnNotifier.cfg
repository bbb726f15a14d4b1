SPECIFICATION NotifierSpec
CONSTANTS
    Conns = {eth, wifi, veth}
    Virtual = {veth}
    None = None
INVARIANTS NotifierTypeOK ToldWhatItHas
PROPERTIES LossIsReal AnimationEnds
