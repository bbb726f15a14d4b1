---------------------------- MODULE ConnNotifier ----------------------------
(***************************************************************************)
(* From libnm's view of the active connections to what the user is shown:  *)
(* the primary connection NmData derives at every refresh, the tray icon   *)
(* and its connecting animation, and the messages of NmNotifier.           *)
(*                                                                         *)
(* libnm's view changes one D-Bus property at a time; some changes raise a *)
(* signal NmClient is connected to, some do not.  A refresh reads the view *)
(* as it is then, and does not pump: it is one step here.                  *)
(***************************************************************************)
EXTENDS FiniteSets

CONSTANTS
    Conns,     \* connection profiles, each bound to a device of its own
    Virtual,   \* those on devices isRelevantDevice rejects (veth, docker0)
    None

ASSUME NotifierAssumption == Virtual \subseteq Conns /\ None \notin Conns

VARIABLES
    dev,      \* dev[c]: state of the device of c
    ac,       \* ac[c]: state of its active connection, "none" if not listed
    primary,  \* nm_client_get_primary_connection
    nmState,  \* nm_client_get_state
    signal,   \* a signal NmClient listens to has not been handled
    unseen,   \* the view has changed since the last refresh
    name,     \* NmData::m_primaryConnectionName
    seeded, hadConnection, lastName,  \* NmNotifier
    animTimer,  \* TrayController::m_connectAnimTimer.isActive()
    animating,  \* NmTray::m_connectAnimActive
    told      \* history: the connection the last message announced, None after
              \* "Connection lost"

view == <<dev, ac, primary, nmState>>
notifier == <<seeded, hadConnection, lastName, told>>
tray == <<animTimer, animating>>
notifierVars == <<view, signal, unseen, name, notifier, tray>>

NotifierTypeOK ==
    /\ dev \in [Conns -> {"unmanaged", "idle", "connecting", "activated", "deactivating"}]
    /\ ac \in [Conns -> {"none", "activating", "activated", "deactivating"}]
    /\ primary \in Conns \cup {None}
    /\ nmState \in {"disconnected", "connecting", "connected", "disconnecting"}
    /\ signal \in BOOLEAN /\ unseen \in BOOLEAN
    /\ name \in Conns \cup {None}
    /\ seeded \in BOOLEAN /\ hadConnection \in BOOLEAN
    /\ lastName \in Conns \cup {None}
    /\ animTimer \in BOOLEAN /\ animating = animTimer
    /\ told \in Conns \cup {None}

-----------------------------------------------------------------------------
(* NmData.                                                                 *)

Relevant(c) == c \notin Virtual /\ dev[c] # "unmanaged"

Activating == {c \in Conns : ac[c] = "activating" /\ Relevant(c)}

\* resolvePrimaryActiveConnection: an activating connection comes first, then
\* NetworkManager's primary, then whichever is listed first.
PrimaryCandidates ==
    IF Activating # {} THEN Activating
    ELSE IF primary # None THEN {primary}
    ELSE {c \in Conns : ac[c] # "none" /\ Relevant(c)}

\* updatePrimaryConnection keeps the name of an activated candidate only.
PrimaryNames ==
    LET Name(c) == IF ac[c] = "activated" THEN c ELSE None
    IN IF PrimaryCandidates = {} THEN {None} ELSE {Name(c) : c \in PrimaryCandidates}

IsTrayConnecting ==
    \/ nmState = "connecting"
    \/ Activating # {}
    \/ \E c \in Conns : Relevant(c) /\ dev[c] = "connecting"

\* Mutant: whenever there is no primary connection and nothing connects.
ShouldNotifyConnectionLost_AnyState == ~IsTrayConnecting

ShouldNotifyConnectionLost ==
    /\ ~IsTrayConnecting
    /\ \A c \in Conns : Relevant(c) => dev[c] # "deactivating"
    /\ nmState = "disconnected"

-----------------------------------------------------------------------------
(* The tray and the notifier.                                              *)

\* Mutant: the timer is stopped and the tray not told.
UpdateTrayState_TimerOnly ==
    /\ animTimer' = IsTrayConnecting
    /\ animating' = (animating \/ IsTrayConnecting)

UpdateTrayState ==
    /\ animTimer' = IsTrayConnecting
    /\ animating' = IF IsTrayConnecting THEN animating \/ ~animTimer ELSE FALSE

\* Mutant: a change from one connection to another is not announced.
UpdateFromData_NoChange(n) ==
    /\ seeded' = TRUE
    /\ hadConnection' = (n # None)
    /\ lastName' = IF n # None \/ ~seeded THEN n ELSE lastName
    /\ told' = IF ~seeded THEN n
               ELSE IF n # None /\ ~hadConnection THEN n
               ELSE IF n = None /\ hadConnection /\ ShouldNotifyConnectionLost THEN None
               ELSE told

\* The first call only records the connection there is at the start.
UpdateFromData(n) ==
    /\ seeded' = TRUE
    /\ hadConnection' = (n # None)
    /\ lastName' = IF n # None \/ ~seeded THEN n ELSE lastName
    /\ told' = IF ~seeded THEN n
               ELSE IF n # None /\ (hadConnection => n # lastName) THEN n
               ELSE IF n = None /\ hadConnection /\ ShouldNotifyConnectionLost THEN None
               ELSE told

Refresh ==
    /\ signal' = FALSE /\ unseen' = FALSE
    /\ \E n \in PrimaryNames : name' = n /\ UpdateFromData(n)
    /\ UpdateTrayState
    /\ UNCHANGED view

\* Mutant: the tick draws the next frame without looking.
ConnectAnimTick_Blind ==
    /\ animTimer
    /\ UNCHANGED <<view, signal, unseen, name, notifier, tray>>

\* The 120 ms timer of the animation looks for itself whether it is over.
ConnectAnimTick ==
    /\ animTimer
    /\ IF IsTrayConnecting THEN UNCHANGED tray ELSE UpdateTrayState
    /\ UNCHANGED <<view, signal, unseen, name, notifier>>

-----------------------------------------------------------------------------
(* NetworkManager, as libnm shows it: a device moves first, its active      *)
(* connection and the global state follow, the primary connection whenever. *)

Seen(sig) ==
    /\ unseen' = TRUE
    /\ signal' = (signal \/ sig)
    /\ UNCHANGED <<name, notifier, tray>>

AcOf == [unmanaged |-> "none", idle |-> "none", connecting |-> "activating",
         activated |-> "activated", deactivating |-> "deactivating"]

\* The list of active connections is watched, the state of its members is not.
ActiveConnectionFollows(c) ==
    /\ ac[c] # AcOf[dev[c]]
    /\ ac' = [ac EXCEPT ![c] = AcOf[dev[c]]]
    /\ primary' = IF primary = c /\ ac'[c] = "none" THEN None ELSE primary
    /\ UNCHANGED <<dev, nmState>>
    /\ Seen("none" \in {ac[c], ac'[c]})

Activated == {c \in Conns : ac[c] = "activated"}

\* The connection with the default route, if any; a change has no signal.
PrimaryFollows ==
    /\ primary' \in (Activated \cup {None}) \ {primary}
    /\ UNCHANGED <<dev, ac, nmState>>
    /\ Seen(FALSE)

StateOf ==
    IF \E c \in Conns : ac[c] = "activated" THEN "connected"
    ELSE IF \E c \in Conns : ac[c] = "activating" THEN "connecting"
    ELSE IF \E c \in Conns : ac[c] = "deactivating" THEN "disconnecting"
    ELSE "disconnected"

GlobalStateFollows ==
    /\ nmState # StateOf /\ nmState' = StateOf
    /\ UNCHANGED <<dev, ac, primary>>
    /\ Seen(TRUE)

\* NetworkManager reports one move to the end before it makes the next.
DeviceMoves(c, from, to) ==
    /\ \A d \in Conns : ac[d] = AcOf[dev[d]]
    /\ nmState = StateOf
    /\ dev[c] \in from /\ dev' = [dev EXCEPT ![c] = to]
    /\ UNCHANGED <<ac, primary, nmState>>
    /\ Seen(TRUE)

DeviceChanges(c) ==
    \/ DeviceMoves(c, {"idle"}, "connecting")
    \/ DeviceMoves(c, {"connecting"}, "activated")
    \/ DeviceMoves(c, {"connecting", "activated"}, "deactivating")
    \/ DeviceMoves(c, {"unmanaged", "connecting", "deactivating"}, "idle")
    \/ DeviceMoves(c, {"idle"}, "unmanaged")

\* NmClient's callback runs onClientChanged, which refreshes.
ClientChanged == signal /\ Refresh

\* Menus and scan polls refresh too, without a signal.
OtherRefresh == Refresh

NotifierInit ==
    /\ dev = [c \in Conns |-> "idle"] /\ ac = [c \in Conns |-> "none"]
    /\ primary = None /\ nmState = "disconnected"
    /\ signal = FALSE /\ unseen = FALSE
    /\ name = None /\ seeded = FALSE /\ hadConnection = FALSE /\ lastName = None
    /\ animTimer = FALSE /\ animating = FALSE /\ told = None

ViewChanges ==
    \/ \E c \in Conns : DeviceChanges(c) \/ ActiveConnectionFollows(c)
    \/ PrimaryFollows \/ GlobalStateFollows

NotifierNext == ViewChanges \/ ClientChanged \/ OtherRefresh \/ ConnectAnimTick

\* libnm's signals are drained every 30 ms and the animation timer fires.
NotifierFairness == WF_notifierVars(ClientChanged) /\ WF_notifierVars(ConnectAnimTick)

NotifierSpec == NotifierInit /\ [][NotifierNext]_notifierVars /\ NotifierFairness

-----------------------------------------------------------------------------
(* Properties.                                                             *)

\* While the applet believes in a connection, the last message was about it,
\* so that a later "Connection lost" names the one announced last.
ToldWhatItHas == hadConnection => name = lastName /\ told = lastName

\* "Connection lost" is never said of a connection that is still up.
LossIsReal ==
    [][told # None /\ told' = None => ac[told] # "activated"]_notifierVars

\* Once nothing connects any more the animation ends, signal or no signal.
AnimationEnds == <>[]~IsTrayConnecting => <>[](~animTimer /\ ~animating)

\* No connection on a real device, and libnm has told everything.
RealIdle ==
    /\ ~unseen /\ nmState = StateOf
    /\ \A c \in Conns \ Virtual : dev[c] \in {"idle", "unmanaged"} /\ ac[c] = "none"

\* README: notifications tell that a connection is established, lost, changed.
LossTold ==
    (RealIdle /\ seeded /\ nmState = "disconnected") => told = None
=============================================================================
