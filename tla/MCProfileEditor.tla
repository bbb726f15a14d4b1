--------------------------- MODULE MCProfileEditor ---------------------------
(* Instances of ProfileEditor.                                              *)
EXTENDS ProfileEditor

AutomaticForm ==
    [manual |-> FALSE, address |-> "", netmask |-> "", gateway |-> "", dns |-> ""]
ManualForm ==
    [manual |-> TRUE, address |-> "ip2", netmask |-> "255.255.0.0", gateway |-> "gw", dns |-> ""]
Manual == [method |-> "manual", gateway |-> "gw", dns |-> "dns",
           addresses |-> <<[ip |-> "ip1", prefix |-> 24]>>]

With(type, identity, secret) == [Template EXCEPT !.sec = Applied(Open, type, identity, secret)]

WifiForeign == {With("WpaPsk", "", "long"), With("WpaEnterprise", "user", "short"),
              With("WepKey", "", "key13")}
MCForms == {<<"", "">>, <<"user", "long">>, <<"", "short">>}

\* For the MAC and the IPv4 fields: a profile with an address of its own, one that
\* shares its link and shows another MAC.
WiredForeign ==
    {[Template EXCEPT !.ip = Manual],
     [Template EXCEPT !.ip.method = "shared", !.cloned = "mac"]}
WiredForms ==
    {AutomaticForm, [ManualForm EXCEPT !.address = "bad"],
     [ManualForm EXCEPT !.netmask = "bad", !.gateway = ""],
     [ManualForm EXCEPT !.address = ""]} \cup {IpLoad(p.ip) : p \in WiredForeign}

\* For the fields of a VPN: the profiles have the server and the user under
\* either key.
WithVpn(server, user) ==
    [Template EXCEPT !.vpn.data[server] = "s1", !.vpn.data["ipsec-enabled"] = "yes",
                     !.vpn.data[user] = "u1",
                     !.vpn.secrets["password"] = "p1", !.vpn.secrets["ipsec-psk"] = "p1"]
L2tpForeign == {WithVpn("remote", "username"), WithVpn("gateway", "user")}
L2tpForm == [NoVpnForm EXCEPT !.server = "s2", !.ipsec = TRUE, !.user = "u2"]
L2tpForms ==
    {[L2tpForm EXCEPT !.password = p, !.psk = k] : p \in {"", "p2"}, k \in {"", "p2"}}
      \cup {NoVpnForm}

\* WireGuard.
Peer == [publicKey |-> "pub1", endpoint |-> "e1", ranges |-> "r", keepalive |-> 25]
PeerForeign == {[Template EXCEPT !.vpn.privateKey = "k1", !.vpn.peer = Peer]}
PeerForm == [NoVpnForm EXCEPT !.publicKey = "pub2", !.endpoint = "e2", !.ranges = "r"]
PeerForms ==
    {PeerForm, [PeerForm EXCEPT !.privateKey = "k2"], [PeerForm EXCEPT !.endpoint = "bad"],
     [PeerForm EXCEPT !.publicKey = "bad"], [PeerForm EXCEPT !.privateKey = "k2", !.keepalive = 65536],
     [PeerForm EXCEPT !.privateKey = "k2", !.ranges = ";"]}

\* All of them.
MCForeign ==
    [wifi |-> WifiForeign, wired |-> WiredForeign, l2tp |-> L2tpForeign, wireguard |-> PeerForeign]
MCIpForms ==
    [wifi |-> {AutomaticForm}, wired |-> WiredForms, l2tp |-> {}, wireguard |-> {}]
MCVpnForms ==
    [wifi |-> {}, wired |-> {}, l2tp |-> L2tpForms, wireguard |-> PeerForms]
=============================================================================
