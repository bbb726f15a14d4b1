------------------------- MODULE MCConnectionEditor -------------------------
(* An instance of ConnectionEditor.                                         *)
EXTENDS ConnectionEditor

MCKindOf == [p1 |-> "wifi", p2 |-> "vpn", p3 |-> "loopback"]
=============================================================================
