----------------------------- MODULE VpnSettings -----------------------------
(***************************************************************************)
(* The settings of a VPN profile as vpnconnectioneditordialog.cpp loads    *)
(* and saves them: data and secrets of a plugin's profile by key, or the   *)
(* private key and the first peer of a WireGuard profile.  "" is an absent *)
(* value or an empty field.                                                *)
(***************************************************************************)
EXTENDS Naturals, Sequences

PluginKinds == {"openvpn", "vpnc", "openconnect", "l2tp", "pptp", "generic"}

\* serverKeys, userKeys and passwordKeys: the code has more for the server and the
\* password.  libnm lists the secrets of a profile in the order of their keys.
ServerKeys == <<"remote", "gateway">>
UserKeys == <<"username", "user">>
PasswordKeys == <<"ipsec-psk", "passwd", "password">>

DataKeys == {"remote", "gateway", "username", "user", "ipsec-enabled", "group", "cert"}
SecretKeys == {"password", "passwd", "ipsec-psk"}

NoSecrets == [k \in SecretKeys |-> ""]
NoPeer == [publicKey |-> "", endpoint |-> "", ranges |-> "", keepalive |-> 0]

NoVpn == [data |-> [k \in DataKeys |-> ""], user |-> "", secrets |-> NoSecrets,
          privateKey |-> "", peer |-> NoPeer]

NoVpnForm == [server |-> "", user |-> "", password |-> "", extra |-> "",
              ipsec |-> FALSE, psk |-> "",
              privateKey |-> "", publicKey |-> "", endpoint |-> "", ranges |-> "",
              keepalive |-> 0]

DataValues == {"", "yes", "no", "s1", "s2", "u1", "u2", "x"}
Passwords == {"", "p1", "p2"}
PrivateKeys == {"", "k1", "k2"}
PublicKeys == {"", "pub1", "pub2"}
Endpoints == {"", "e1", "e2"}
AllowedIps == {"", "r"}
Keepalives == 0..65535

Peers == [publicKey : PublicKeys, endpoint : Endpoints, ranges : AllowedIps,
          keepalive : Keepalives]

Vpn == [data : [DataKeys -> DataValues], user : DataValues, secrets : [SecretKeys -> Passwords],
        privateKey : PrivateKeys, peer : Peers]

\* What the fields of a peer may hold: more than is taken.
KeyTexts == PublicKeys \cup {"bad"}
EndpointTexts == Endpoints \cup {"bad"}
IpsTexts == AllowedIps \cup {";"}
KeepaliveTexts == Keepalives \cup {65536}

VpnForm == [server : DataValues, user : DataValues, password : Passwords, extra : DataValues,
            ipsec : BOOLEAN, psk : Passwords, privateKey : PrivateKeys,
            publicKey : KeyTexts, endpoint : EndpointTexts, ranges : IpsTexts,
            keepalive : KeepaliveTexts]

\* The keys a dialog writes under, "" for none.
OrNone(keys) == keys \cup {""}
Keys == [server : OrNone(DataKeys), password : OrNone(SecretKeys)]

\* findVpnDataKey, findVpnSecretKey: the first of the keys that has a value, or "".
FirstSet(values, keys) ==
    LET set == {i \in DOMAIN keys : values[keys[i]] # ""}
    IN IF set = {} THEN "" ELSE keys[CHOOSE i \in set : \A j \in set : i <= j]

\* findVpnDataValue.
DataValue(v, keys) ==
    LET key == FirstSet(v.data, keys) IN IF key = "" THEN "" ELSE v.data[key]

\* The key for the server of a profile that has none.
DefaultServerKey(kind) ==
    IF kind \in {"l2tp", "pptp", "openconnect", "vpnc"} THEN "gateway" ELSE "remote"

\* Mutant: the keys that the profile already uses are not looked at.
KeysOf_Defaults(kind, v) ==
    IF kind \notin PluginKinds THEN [server |-> "", password |-> ""]
    ELSE [server |-> DefaultServerKey(kind), password |-> PasswordKeys[1]]

\* m_serverKey and m_passwordKey, chosen when the profile is loaded.
KeysOf(kind, v) ==
    LET server == FirstSet(v.data, ServerKeys)
        password == FirstSet(v.secrets, PasswordKeys)
    IN IF kind \notin PluginKinds THEN [server |-> "", password |-> ""]
       ELSE [server |-> IF server = "" THEN DefaultServerKey(kind) ELSE server,
             password |-> IF password = "" THEN "password" ELSE password]

ExtraKey(kind) == IF kind = "vpnc" THEN "group" ELSE "cert"
HasExtra(kind) == kind \in {"vpnc", "openvpn"}

\* loadFromConnectionObject: secrets are never shown, of several peers the first.
VpnLoad(kind, v) ==
    IF kind \in PluginKinds
    THEN [NoVpnForm EXCEPT
             !.server = DataValue(v, ServerKeys),
             !.user = IF v.user = "" THEN DataValue(v, UserKeys) ELSE v.user,
             !.extra = IF HasExtra(kind) THEN v.data[ExtraKey(kind)] ELSE "",
             !.ipsec = kind = "l2tp" /\ v.data["ipsec-enabled"] # "no"]
    ELSE [NoVpnForm EXCEPT
             !.publicKey = v.peer.publicKey, !.endpoint = v.peer.endpoint,
             !.ranges = v.peer.ranges, !.keepalive = v.peer.keepalive]

Secretly(old, typed) == IF typed = "" THEN old ELSE typed

\* saveProfile, a plugin's profile: [ok, vpn].
PluginSave(kind, keys, new, v, f) ==
    IF f.server = "" \/ (new /\ f.password = "")
    THEN [ok |-> FALSE, vpn |-> v]
    ELSE LET served == [v.data EXCEPT ![keys.server] = f.server]
             extra == IF HasExtra(kind) THEN [served EXCEPT ![ExtraKey(kind)] = f.extra] ELSE served
             data == IF kind = "l2tp"
                     THEN [extra EXCEPT !["ipsec-enabled"] = IF f.ipsec THEN "yes" ELSE "no"]
                     ELSE extra
             shared == IF kind = "l2tp" /\ f.ipsec
                       THEN [v.secrets EXCEPT !["ipsec-psk"] = Secretly(@, f.psk)] ELSE v.secrets
             secrets == [shared EXCEPT ![keys.password] = Secretly(@, f.password)]
         IN [ok |-> TRUE,
             vpn |-> [v EXCEPT !.data = data, !.user = f.user, !.secrets = secrets]]

\* Mutant: a peer that is already there is left as it is.
PeerSet_IfNone(old, new) == IF old = NoPeer THEN new ELSE old

PeerSet(old, new) == new

\* applyAllowedIps splits at ";" and skips what is blank.
Ranges(text) == IF text = ";" THEN "" ELSE text

KeyValid(key) == key # "bad"
EndpointValid(endpoint) == endpoint # "bad"

\* Mutant: one more than 16 bits hold.
KeepaliveValid_OffByOne(keepalive) == keepalive <= 65536

KeepaliveValid(keepalive) == keepalive <= 65535

WireGuardRefused(new, f) ==
    \/ f.publicKey = "" \/ f.endpoint = "" \/ f.ranges = ""
    \/ new /\ f.privateKey = ""
    \/ ~KeepaliveValid(f.keepalive)

\* saveProfile, a WireGuard profile: the peer of the setting itself is changed
\* step by step, unless libnm has sealed it, when it cannot be changed at all.
WireGuardSave(sealed, new, v, f) ==
    LET hasPeer == v.peer # NoPeer
        keyed == [v EXCEPT !.privateKey = Secretly(@, f.privateKey)]
        public == [v.peer EXCEPT !.publicKey = f.publicKey]
        whole == [publicKey |-> f.publicKey, endpoint |-> f.endpoint,
                  ranges |-> Ranges(f.ranges), keepalive |-> f.keepalive]
    IN CASE WireGuardRefused(new, f) -> [ok |-> FALSE, vpn |-> v]
         [] ~WireGuardRefused(new, f) /\ (~KeyValid(f.publicKey) \/ (hasPeer /\ sealed)) ->
                [ok |-> FALSE, vpn |-> keyed]
         [] ~WireGuardRefused(new, f) /\ KeyValid(f.publicKey) /\ ~(hasPeer /\ sealed)
              /\ ~EndpointValid(f.endpoint) ->
                [ok |-> FALSE, vpn |-> IF hasPeer THEN [keyed EXCEPT !.peer = public] ELSE keyed]
         [] OTHER -> [ok |-> TRUE, vpn |-> [keyed EXCEPT !.peer = PeerSet(@, whole)]]

VpnSave(kind, sealed, keys, new, v, f) ==
    IF kind \in PluginKinds THEN PluginSave(kind, keys, new, v, f)
                            ELSE WireGuardSave(sealed, new, v, f)

\* libnm: what NetworkManager sends of a profile has no secrets.
VpnWithoutSecrets(v) == [v EXCEPT !.secrets = NoSecrets, !.privateKey = ""]

\* NetworkManager: an update without any secret keeps the old ones.
VpnUpdated(old, new) ==
    IF new.secrets = NoSecrets /\ new.privateKey = ""
    THEN [new EXCEPT !.secrets = old.secrets, !.privateKey = old.privateKey]
    ELSE new
=============================================================================
