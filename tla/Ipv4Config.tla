------------------------------ MODULE Ipv4Config ------------------------------
(***************************************************************************)
(* ipv4config.cpp: the IPv4 setting of a profile, loaded into the fields   *)
(* of the editors and written back.  Addresses, gateways and lists of DNS  *)
(* servers are values of small sets; "" is an empty field.                 *)
(***************************************************************************)
EXTENDS Naturals, Sequences

Addresses == {"ip1", "ip2"}
DefaultPrefix == 24        \* nm_utils_ip4_get_default_prefix
Prefixes == {16, DefaultPrefix}

\* A netmask field; "bad" is none, or 0.0.0.0.
Netmasks == {"", "bad", "255.255.0.0", "255.255.255.0"}
NetmaskValid(netmask) == netmask \notin {"", "bad"}
PrefixOf(netmask) == IF netmask = "255.255.0.0" THEN 16 ELSE DefaultPrefix
NetmaskOf(prefix) == IF prefix = 16 THEN "255.255.0.0" ELSE "255.255.255.0"

Servers == {"", "dns"}

IpSetting ==
    [method : {"auto", "manual", "shared"},
     addresses : Seq([ip : Addresses, prefix : Prefixes]),
     gateway : {"", "gw"}, dns : Servers]

Automatic == [method |-> "auto", addresses |-> <<>>, gateway |-> "", dns |-> ""]

IpForm ==
    [manual : BOOLEAN, address : Addresses \cup {"", "bad"}, netmask : Netmasks,
     gateway : {"", "gw"}, dns : Servers]

\* ipv4EditorLoad: of several addresses the first.
IpLoad(s) ==
    LET manual == s.method = "manual"
        shown == manual /\ s.addresses # <<>>
    IN [manual |-> manual,
        address |-> IF shown THEN s.addresses[1].ip ELSE "",
        netmask |-> IF shown THEN NetmaskOf(s.addresses[1].prefix) ELSE "",
        gateway |-> s.gateway, dns |-> s.dns]

\* The prefix is read before the address is: a netmask that is none is only
\* refused if the address is none either.
IpRefusedEarly(f) ==
    f.manual /\ (f.address = "" \/ (~NetmaskValid(f.netmask) /\ f.address = "bad"))

\* Mutant: keeps the addresses of the manual configuration.
IpAutomatic_Keeps(s) == [s EXCEPT !.method = "auto", !.gateway = "", !.dns = ""]

IpAutomatic(s) == Automatic

\* Mutant: the addresses are not cleared first.
Addressed_Appends(s, address) == Append(s.addresses, address)

Addressed(s, address) == <<address>>

\* ipv4EditorApply: whether it succeeds, and the setting it leaves.
IpApply(s, f) ==
    CASE ~f.manual -> [ok |-> TRUE, ip |-> IpAutomatic(s)]
      [] IpRefusedEarly(f) -> [ok |-> FALSE, ip |-> s]
      [] f.manual /\ ~IpRefusedEarly(f) /\ f.address = "bad" ->
            [ok |-> FALSE, ip |-> [s EXCEPT !.method = "manual", !.addresses = <<>>]]
      [] OTHER ->
            LET prefix == IF NetmaskValid(f.netmask) THEN PrefixOf(f.netmask)
                                                     ELSE DefaultPrefix
            IN [ok |-> TRUE,
                ip |-> [method |-> "manual",
                        addresses |-> Addressed(s, [ip |-> f.address, prefix |-> prefix]),
                        gateway |-> f.gateway, dns |-> f.dns]]

\* A manual setting has an address, an automatic one nothing of a manual one.
IpCoherent(s) ==
    /\ s.method = "manual" => s.addresses # <<>>
    /\ s.method = "auto" => s.addresses = <<>> /\ s.gateway = ""
=============================================================================
