----------------------------- MODULE MCActivation -----------------------------
EXTENDS Activation

P(kind, ssid) == [kind |-> kind, ssid |-> ssid, n |-> 1]
BothKinds == {P("wifi", "A"), P("wifi", "B"), P("wired", NoSsid), P("vpn", NoSsid)}
===============================================================================
