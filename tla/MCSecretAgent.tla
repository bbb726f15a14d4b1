---------------------------- MODULE MCSecretAgent ----------------------------
(* An instance of SecretAgent: requests of every kind.                      *)
EXTENDS SecretAgent

Req(setting, mgmt, identity, hints) ==
    [setting |-> setting, present |-> TRUE, mgmt |-> mgmt, identity |-> identity, hints |-> hints]

MCRequests ==
    <<Req("802-11-wireless-security", "wpa-psk", "", <<"psk">>),
      Req("802-1x", "", "", <<"private-key-password", "identity">>),
      Req("vpn", "", "", <<"x-vpn-message", "pin">>),
      Req("802-11-wireless-security", "none", "", <<"wep-key1">>),
      [Req("pppoe", "", "", <<>>) EXCEPT !.present = FALSE],
      Req("gsm", "", "", <<"pin">>)>>
=============================================================================
