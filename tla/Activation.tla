------------------------------ MODULE Activation ------------------------------
(***************************************************************************)
(* What clicks on connections ask of NetworkManager: activateWifiMenuItem, *)
(* NmData::activateItem, deactivateItem, deactivateWifi,                   *)
(* connectHiddenWifi, createWifiHotspot, and the NmClient operations under *)
(* them.                                                                   *)
(*                                                                         *)
(* A request is a D-Bus call nobody waits for: it stays on the bus until   *)
(* NetworkManager takes it, in the order of the calls.  A connect handler  *)
(* pumps the GLib context, drops what the Wi-Fi device has, pumps again,   *)
(* and only then looks for what to connect with.  Anything may change in a *)
(* pump, and a secret request opens a dialog in it, in whose event loop    *)
(* other clicks are acted upon: handlers nest.                             *)
(*                                                                         *)
(* A Wi-Fi device is a number: the order in which libnm lists them.        *)
(* A profile is [kind, ssid, n]; the Ethernet device is Eth.               *)
(***************************************************************************)
EXTENDS Naturals, Sequences, FiniteSets

CONSTANTS
    WifiDevices, \* numbers from 1 up
    ApCapable,   \* those with NM_WIFI_DEVICE_CAP_AP
    Eth, NoDevice,
    Ssids, NoSsid,
    Profiles,    \* the profiles there may be
    NoProfile,
    MaxCalls,    \* handlers run
    MaxChanges   \* changes of the air, of the devices and of the profiles

ASSUME DevicesAssumption ==
    /\ WifiDevices \subseteq Nat \ {0} /\ IsFiniteSet(WifiDevices)
    /\ ApCapable \subseteq WifiDevices
    /\ {Eth, NoDevice} \cap WifiDevices = {} /\ Eth # NoDevice

ASSUME ProfilesAssumption == IsFiniteSet(Ssids) /\ NoProfile \notin Profiles

VARIABLES
    present,  \* the Wi-Fi devices there are
    air,      \* air[d]: the networks device d has an access point of
    saved,    \* the profiles NetworkManager has
    radio,    \* wirelessEnabled
    acs,      \* the active connections
    bus,      \* requests NetworkManager has not taken
    stack,    \* the connect handlers that pump, the innermost first
    asked,    \* history: the connect handler that ended last, or NoCall
    wish,     \* history: ids of connections DisconnectWifi is to end
    calls, changes

world == <<present, air, saved, radio>>
vars == <<world, acs, bus, stack, asked, wish, calls, changes>>

NoCall == [kind |-> "none"]
Crashed == [kind |-> "crashed"]

WifiProfiles == {p \in Profiles : p.kind = "wifi"}
IsWifi(ac) == IF ac.dev = NoDevice THEN ac.profile.kind = "wifi" ELSE ac.dev \in WifiDevices
Live(ac) == ac.state \in {"activating", "activated"}
DeviceActivated(d) == \E ac \in acs : ac.on = d /\ ac.state = "activated"

(***************************************************************************)
(* Which device                                                            *)
(***************************************************************************)
\* The k-th of a set of numbers.
Nth(set, k) == CHOOSE n \in set : Cardinality({m \in set : m <= n}) = k

\* Mutant: an activated device always takes over, however few networks it sees.
Preferred_AnyActivated(best, d) ==
    IF best = NoDevice \/ DeviceActivated(d)
       \/ (~DeviceActivated(best) /\ Cardinality(air[d]) > Cardinality(air[best]))
    THEN d ELSE best

Preferred(best, d) ==
    IF \/ best = NoDevice
       \/ DeviceActivated(d) /\ ~DeviceActivated(best)
       \/ /\ DeviceActivated(d) <=> DeviceActivated(best)
          /\ Cardinality(air[d]) > Cardinality(air[best])
    THEN d ELSE best

\* pickPrimaryWifiDevice: one pass over libnm's list.
Primary ==
    LET best[k \in 0..Cardinality(present)] ==
            IF k = 0 THEN NoDevice ELSE Preferred(best[k - 1], Nth(present, k))
    IN best[Cardinality(present)]

\* pickApCapableWifiDevice.
Hotspot ==
    IF Primary \in ApCapable THEN Primary
    ELSE IF present \cap ApCapable = {} THEN NoDevice
    ELSE Nth(present \cap ApCapable, 1)

(***************************************************************************)
(* What is asked of NetworkManager                                         *)
(***************************************************************************)
Stop(id, by) == [op |-> "deactivate", id |-> id, by |-> by]
Start(p, d) == [op |-> "activate", profile |-> p, dev |-> d]
Add(p, d) == [op |-> "add", profile |-> p, dev |-> d]
Leave(d) == [op |-> "disconnect", dev |-> d]
StopAll(those, by) ==
    LET ids == {ac.id : ac \in those}
    IN [k \in 1..Cardinality(ids) |-> Stop(Nth(ids, k), by)]

\* Mutant: a connection without a device is not asked for its type.
OnDevice_Untyped(d) == {ac \in acs : Live(ac) /\ ac.dev \in {d, NoDevice}}

\* NmClient::deactivateWifiOnDevice: a connection whose device is not known yet
\* may be on any.
OnDevice(d) == {ac \in acs : Live(ac) /\ IsWifi(ac) /\ ac.dev \in {d, NoDevice}}

\* Mutant: the loop ends at the first one.
AllWifi_First ==
    LET those == {ac \in acs : Live(ac) /\ IsWifi(ac)}
    IN {ac \in those : \A e \in those : ac.id <= e.id}

AllWifi == {ac \in acs : Live(ac) /\ IsWifi(ac)}

Stops == {bus[i].id : i \in {j \in DOMAIN bus : bus[j].op = "deactivate"}}

(***************************************************************************)
(* The handlers                                                            *)
(***************************************************************************)
Running == \A i \in DOMAIN stack : stack[i] # Crashed

\* A click is acted upon in the main event loop, or in that of a dialog that
\* a pump of the innermost handler has opened.
Called == Running /\ calls < MaxCalls /\ calls' = calls + 1

\* The connect handler on top ends.
Ended(requests, ok, p) ==
    LET top == Head(stack) IN
    /\ bus' = bus \o requests
    /\ asked' = [kind |-> top.kind, ok |-> ok, started |-> p, dev |-> top.dev, at |-> changes]
    /\ stack' = Tail(stack)
    /\ UNCHANGED <<world, acs, wish, calls, changes>>

\* From the click to the first pump.
Begin(kind, detail) ==
    /\ Called
    /\ stack' = <<[kind |-> kind, at |-> "begun", dev |-> NoDevice, detail |-> detail]>> \o stack
    /\ asked' = NoCall
    /\ UNCHANGED <<world, acs, bus, wish, changes>>

\* A row of the menu: the network and the profile of the refresh that made it.
ConnectWifi ==
    \E s \in Ssids : \E p \in {q \in WifiProfiles : q.ssid = s} \cup {NoProfile} :
        Begin("menu", [ssid |-> s, profile |-> p])

\* HiddenWifiDialog::onAccept, CreateWifiDialog::onAccept: the dialogs look for
\* empty fields; wifiSecurityApply, later (DialogGo), for what may be in them.
ConnectHidden ==
    /\ radio
    /\ \E p \in WifiProfiles \ saved : Begin("hidden", [profile |-> p])

CreateHotspot ==
    /\ radio
    /\ \E p \in WifiProfiles \ saved : Begin("hotspot", [profile |-> p])

Innermost(at) == stack # <<>> /\ Running /\ Head(stack).at = at

\* From the first pump to the next, in activateWifiMenuItem, connectHiddenWifi
\* and createWifiHotspot: the device, and what it has is dropped.
Drop ==
    /\ Innermost("begun")
    /\ LET top == Head(stack)
           device == IF top.kind = "hotspot" THEN Hotspot ELSE Primary
       IN IF device = NoDevice \/ (top.kind = "menu" /\ ~radio)
          THEN Ended(<<>>, FALSE, NoProfile)
          ELSE /\ bus' = bus \o StopAll(OnDevice(device), "wifi")
               /\ stack' = <<[top EXCEPT !.at = "dropped", !.dev = device]>> \o Tail(stack)
               /\ UNCHANGED <<world, acs, asked, wish, calls, changes>>

\* The profile of the row, or one the device offers for the network, or one
\* that fits the access point.
Found(detail) ==
    LET fitting == {p \in saved : p.kind = "wifi" /\ p.ssid = detail.ssid}
    IN IF detail.profile \in saved THEN {detail.profile}
       ELSE IF fitting = {} THEN {NoProfile} ELSE fitting

\* Mutant: the device is released after the new association is asked for.
ConnectGo_DropsLast ==
    /\ Innermost("dropped") /\ Head(stack).kind = "menu"
    /\ LET top == Head(stack) IN \E p \in Found(top.detail) :
        IF p # NoProfile
        THEN Ended(<<Start(p, top.dev), Leave(top.dev)>>, TRUE, p)
        ELSE \E n \in {q \in WifiProfiles \ saved : q.ssid = top.detail.ssid} :
             IF top.dev \in present /\ top.detail.ssid \in air[top.dev]
             THEN Ended(<<Add(n, top.dev), Leave(top.dev)>>, TRUE, n)
             ELSE Ended(<<>>, FALSE, NoProfile)

\* The rest of activateWifiMenuItem: the saved profile, or a new one for an
\* access point in range, or neither.
ConnectGo ==
    /\ Innermost("dropped") /\ Head(stack).kind = "menu"
    /\ LET top == Head(stack) IN \E p \in Found(top.detail) :
        IF p # NoProfile
        THEN Ended(<<Start(p, top.dev)>>, TRUE, p)
        ELSE \E n \in {q \in WifiProfiles \ saved : q.ssid = top.detail.ssid} :
             IF top.dev \in present /\ top.detail.ssid \in air[top.dev]
             THEN Ended(<<Add(n, top.dev)>>, TRUE, n)
             ELSE Ended(<<>>, FALSE, NoProfile)

\* Mutant: what wifiSecurityApply says is not looked at.
DialogGo_Silent ==
    /\ Innermost("dropped") /\ Head(stack).kind # "menu"
    /\ LET top == Head(stack) IN \E sound \in BOOLEAN :
       IF sound
       THEN Ended(<<Add(top.detail.profile, top.dev)>>, TRUE, top.detail.profile)
       ELSE Ended(<<>>, TRUE, NoProfile)

\* The rest of connectHiddenWifi and createWifiHotspot.
DialogGo ==
    /\ Innermost("dropped") /\ Head(stack).kind # "menu"
    /\ LET top == Head(stack) IN \E sound \in BOOLEAN :
       IF sound
       THEN Ended(<<Add(top.detail.profile, top.dev)>>, TRUE, top.detail.profile)
       ELSE Ended(<<>>, FALSE, NoProfile)

\* The device picked before a pump is used after it: libnm may have let go of
\* an adapter that is gone.
UseAfterUnplug ==
    /\ Innermost("dropped") /\ Head(stack).dev \notin present
    /\ stack' = <<Crashed>>
    /\ UNCHANGED <<world, acs, bus, asked, wish, calls, changes>>

\* NmData::deactivateItem: a connection of the item's profile, or else its
\* device, which for an item without one is the primary Wi-Fi device.  Item and
\* primary device are those of the last refresh, and d stands for either.
Deactivations(p, d) ==
    LET those == {ac \in acs : ac.profile = p}
    IN IF those # {} THEN {<<Stop(ac.id, "row")>> : ac \in those}
       ELSE {IF d \in present THEN <<Leave(d)>> ELSE <<>>}

\* TrayController::onDisconnectWifi, NmData::deactivateWifi: every Wi-Fi
\* connection, or the item that the last refresh took for one (a VPN may show the
\* device), or the device it took for the primary one.
DisconnectWifi ==
    /\ Called
    /\ \/ AllWifi # {} /\ bus' = bus \o StopAll(AllWifi, "wifi")
       \/ /\ AllWifi = {}
          /\ \E p \in {q \in Profiles : q.kind # "wired"} \cup {NoProfile}, d \in WifiDevices \cup {NoDevice} :
             \E requests \in Deactivations(p, d) : bus' = bus \o requests
    /\ wish' = {ac.id : ac \in {c \in acs : Live(c) /\ IsWifi(c)}}
    /\ asked' = NoCall
    /\ UNCHANGED <<world, acs, stack, changes>>

\* A row that the last refresh saw up, whatever has become of its profile.
DeactivateRow(kind) ==
    \E p \in {q \in Profiles : q.kind = kind}, d \in WifiDevices \cup {NoDevice} :
        \E requests \in Deactivations(p, d) : bus' = bus \o requests

\* A wired row it saw down: the wired connections that are coming up are
\* aborted and the profile is activated.
ActivateWired ==
    \E p \in {q \in saved : q.kind = "wired"} :
        LET rising == {ac \in acs : ac.dev = Eth /\ ac.state = "activating"}
        IN bus' = bus \o Append(StopAll(rising, "wired"), Start(p, Eth))

\* onPopupItemActivated with a wired profile or a VPN.  A VPN that was seen down
\* is activated with the device path "/", which is no device's, and a profile
\* that is gone is not found: nothing is asked for.
ClickProfile ==
    /\ Called
    /\ DeactivateRow("wired") \/ ActivateWired \/ DeactivateRow("vpn") \/ UNCHANGED bus
    /\ asked' = NoCall
    /\ UNCHANGED <<world, acs, stack, wish, changes>>

(***************************************************************************)
(* NetworkManager (external)                                               *)
(***************************************************************************)
FreshId == CHOOSE i \in 1..(Cardinality(acs) + Len(bus) + Cardinality(wish) + 2) :
              i \notin {ac.id : ac \in acs} \cup Stops \cup wish

\* Those connections end, and a VPN with the one it runs over.
Without(those) ==
    {ac \in acs \ those : ac.dev = NoDevice \/ \A e \in those : e.on # ac.dev}

\* A new connection takes its device over.  A Wi-Fi one may say so late.
Rising(p, d) ==
    IF (d \in WifiDevices /\ (d \notin present \/ ~radio)) THEN UNCHANGED acs
    ELSE \E shown \in IF d \in WifiDevices THEN {d, NoDevice} ELSE {d} :
         acs' = Without({ac \in acs : ac.on = d})
                \cup {[id |-> FreshId, profile |-> p, dev |-> shown, on |-> d,
                       state |-> "activating"]}

Take ==
    /\ bus # <<>>
    /\ bus' = Tail(bus)
    /\ LET r == Head(bus) IN
       CASE r.op = "deactivate" -> acs' = Without({ac \in acs : ac.id = r.id}) /\ UNCHANGED saved
         [] r.op = "disconnect" -> acs' = Without({ac \in acs : ac.on = r.dev}) /\ UNCHANGED saved
         [] r.op = "activate" -> IF r.profile \in saved
                                 THEN Rising(r.profile, r.dev) /\ UNCHANGED saved
                                 ELSE UNCHANGED <<acs, saved>>
         [] r.op = "add" -> Rising(r.profile, r.dev) /\ saved' = saved \cup {r.profile}
    /\ UNCHANGED <<present, air, radio, stack, asked, wish, calls, changes>>

\* A connection shows its device, and comes up.
Progress ==
    /\ \E ac \in acs :
        /\ ac.state = "activating"
        /\ acs' = (acs \ {ac}) \cup
             {IF ac.on \notin {ac.dev, NoDevice} THEN [ac EXCEPT !.dev = ac.on]
              ELSE [ac EXCEPT !.state = "activated"]}
    /\ UNCHANGED <<world, bus, stack, asked, wish, calls, changes>>

Change == changes < MaxChanges /\ changes' = changes + 1
Same == UNCHANGED <<bus, stack, asked, wish, calls>>

ConnectionFails ==
    /\ Change
    /\ \E ac \in acs : acs' = Without({ac})
    /\ UNCHANGED world /\ Same

AirChanges ==
    /\ Change
    /\ \E d \in present : \E s \in SUBSET Ssids : air' = [air EXCEPT ![d] = s]
    /\ UNCHANGED <<present, saved, radio, acs>> /\ Same

RadioSwitched ==
    /\ Change
    /\ radio' = ~radio
    /\ acs' = Without({ac \in acs : ~radio' /\ ac.on \in WifiDevices})
    /\ air' = [d \in WifiDevices |-> {}]
    /\ UNCHANGED <<present, saved>> /\ Same

Unplugged ==
    /\ Change
    /\ \E d \in present :
        /\ present' = present \ {d}
        /\ acs' = Without({ac \in acs : ac.on = d})
        /\ air' = [air EXCEPT ![d] = {}]
    /\ UNCHANGED <<saved, radio>> /\ Same

ProfileDeleted ==
    /\ Change
    /\ \E p \in saved :
        /\ saved' = saved \ {p}
        /\ acs' = Without({ac \in acs : ac.profile = p})
    /\ UNCHANGED <<present, air, radio>> /\ Same

\* A VPN takes no device over.  It may show the one it runs over.
VpnComesUp ==
    /\ Change
    /\ \E p \in {q \in saved : q.kind = "vpn"} :
        /\ \A ac \in acs : ac.profile # p
        /\ \E under \in {ac.on : ac \in {c \in acs : c.state = "activated"}} \cup {NoDevice} :
             acs' = acs \cup {[id |-> FreshId, profile |-> p, dev |-> under,
                              on |-> NoDevice, state |-> "activating"]}
    /\ UNCHANGED world /\ Same

Handlers ==
    \/ ConnectWifi \/ ConnectHidden \/ CreateHotspot \/ Drop \/ ConnectGo \/ DialogGo
    \/ UseAfterUnplug \/ DisconnectWifi \/ ClickProfile

NetworkManager ==
    \/ Take \/ Progress \/ ConnectionFails \/ AirChanges \/ RadioSwitched
    \/ Unplugged \/ ProfileDeleted \/ VpnComesUp

\* The tray starts beside a NetworkManager that may have connected already.
Init ==
    /\ present \in SUBSET WifiDevices
    /\ air = [d \in WifiDevices |-> IF d \in present THEN Ssids ELSE {}]
    /\ saved \in SUBSET Profiles
    /\ radio = TRUE
    /\ \E up \in [present -> (saved \cap WifiProfiles) \cup {NoProfile}] :
          LET on == {d \in present : up[d] # NoProfile} IN
          /\ \A d, e \in on : up[d] = up[e] => d = e
          /\ acs = {[id |-> d, profile |-> up[d], dev |-> d, on |-> d,
                     state |-> "activated"] : d \in on}
    /\ bus = <<>>
    /\ stack = <<>> /\ asked = NoCall /\ wish = {}
    /\ calls = 0 /\ changes = 0

Next == Handlers \/ NetworkManager

\* A pump returns, dialogs that it opened are closed, and NetworkManager takes
\* what it is asked.
Fairness == WF_vars(Drop \/ ConnectGo \/ DialogGo \/ UseAfterUnplug) /\ WF_vars(Take) /\ WF_vars(Progress)

Spec == Init /\ [][Next]_vars
FairSpec == Spec /\ Fairness

(***************************************************************************)
(* Properties                                                              *)
(***************************************************************************)
\* Type invariant.  NetworkManager holds one connection of a device at a time.
TypeOK ==
    /\ present \subseteq WifiDevices
    /\ \A d \in WifiDevices : air[d] \subseteq Ssids
    /\ \A ac, bc \in acs : ac.id = bc.id \/ (ac.on = bc.on /\ ac.on # NoDevice) => ac = bc
    /\ \A i \in DOMAIN stack : stack[i] = Crashed
         \/ /\ stack[i].kind \in {"menu", "hidden", "hotspot"}
            /\ IF stack[i].at = "begun" THEN stack[i].dev = NoDevice ELSE stack[i].dev \in WifiDevices
    /\ asked # NoCall => (asked.ok <=> asked.started # NoProfile)
    /\ Stops \subseteq Nat

\* pickPrimaryWifiDevice, which keeps the best device of one pass over libnm's
\* list, finds the one a definition over all of them names: connected before
\* not connected, then the most access points, then the first listed.
Better(d, e) ==
    \/ DeviceActivated(d) /\ ~DeviceActivated(e)
    \/ /\ DeviceActivated(d) <=> DeviceActivated(e)
       /\ \/ Cardinality(air[d]) > Cardinality(air[e])
          \/ Cardinality(air[d]) = Cardinality(air[e]) /\ d < e

PrimaryIsBest ==
    IF present = {} THEN Primary = NoDevice
    ELSE Primary \in present /\ \A d \in present \ {Primary} : Better(Primary, d)

\* A Wi-Fi click, whatever happens while its requests are on the bus, takes
\* down no wired connection, and of the VPNs only those that run over Wi-Fi.
OverWifi(ac) ==
    \/ ac.profile.kind = "wifi"
    \/ ac.profile.kind = "vpn" /\ ac.dev \in WifiDevices

OthersSurvive ==
    [][/\ Take /\ Head(bus).op = "deactivate" /\ Head(bus).by = "wifi"
       => \A c \in acs \ acs' : OverWifi(c)]_vars

Undisturbed == asked # NoCall /\ changes = asked.at /\ radio /\ asked.dev \in present

\* Of several networks that were clicked, the one asked for last comes up,
\* though what was asked before it is still on the bus, unless the world changes
\* or the user acts again.  That is the network clicked last, or, when the last
\* click came in a pump of another handler, the outer one's.
LastAskedWins ==
    (stack = <<>> /\ asked.kind = "menu" /\ asked.ok /\ Undisturbed)
    ~> \/ asked = NoCall \/ stack # <<>> \/ ~Undisturbed
       \/ \E ac \in acs : ac.profile = asked.started /\ ac.state = "activated"

\* "Disconnect" reaches every Wi-Fi connection there was when it was clicked,
\* those that were still coming up on a device not yet known too.
DisconnectReaches == (wish # {}) ~> (wish \cap {ac.id : ac \in acs} = {})
===============================================================================
