------------------------------ MODULE WifiScan ------------------------------
(***************************************************************************)
(* The Wi-Fi scan session of nm-tray-tde: NmData keeps the session (is a   *)
(* scan wanted, since when, did the user ask for it), TrayController keeps *)
(* the 200 ms poll timer that watches it.                                  *)
(*                                                                         *)
(* The program has one thread, but its handlers overlap: each of them      *)
(* drains the GLib main context (NmEventPump::pump) in the middle of its   *)
(* work, a drained D-Bus message may be a secret request, and the agent    *)
(* answers it with a modal dialog, which runs a TQt event loop of its own. *)
(* In that nested loop timers fire and popup rows are clicked, and new     *)
(* handlers run to their end before the interrupted one goes on.  "pc" is  *)
(* where the innermost loop or handler stands: "loop" in an event loop,    *)
(* any other value inside the pump of a handler.  "stack" holds the places *)
(* that were interrupted by a dialog, the most recent one first.           *)
(***************************************************************************)
EXTENDS Naturals, Sequences

CONSTANTS
    MaxPolls,     \* polls after which a session is given up (80)
    RetryEvery,   \* RequestScan is repeated at every such poll (10)
    MaxWait,      \* polls after which kWifiScanMaxWaitMs has surely passed:
                  \* 15000 ms is over at the 76th poll of 200 ms
    MaxDialogs    \* bound: modal dialogs open at the same time

ASSUME ScanAssumption ==
    /\ MaxPolls \in Nat \ {0}
    /\ RetryEvery \in Nat \ {0}
    /\ MaxWait \in Nat \ {0}
    /\ MaxWait < MaxPolls
    /\ MaxDialogs \in Nat

VARIABLES
    sessionActive,  \* NmData::m_wifiScanActive
    userRequested,  \* NmData::m_wifiScanUserRequested
    waited,         \* poll intervals since m_wifiScanStartedMs, rounded up
    reported,       \* LastScan of the primary device >= m_wifiScanStartedMs
    requests,       \* RequestScan calls since m_wifiScanStartedMs
    timerOn,        \* m_wifiScanPollTimer.isActive()
    pollCount,      \* m_wifiScanPollCount
    networking, wireless,  \* the two switches, as libnm last reported them
    wifiDev,        \* pickPrimaryWifiDevice() finds a device
    sparse,         \* at most one cached network and one access point
    pc, stack

session == <<sessionActive, userRequested, waited, reported, requests>>
timer == <<timerOn, pollCount>>
nm == <<networking, wireless, wifiDev, sparse>>
control == <<pc, stack>>
vars == <<session, timer, nm, control>>

\* The pumps of the handlers that touch the session.
PumpPoint == {"init", "menuOpen", "bgRequest", "userRequest", "poll", "retry",
              "finish", "hidden", "activate"}

FlagsOK ==
    /\ sessionActive \in BOOLEAN /\ userRequested \in BOOLEAN
    /\ reported \in BOOLEAN /\ timerOn \in BOOLEAN
    /\ networking \in BOOLEAN /\ wireless \in BOOLEAN
    /\ wifiDev \in BOOLEAN /\ sparse \in BOOLEAN

CountersOK == waited \in 0..MaxWait /\ requests \in Nat /\ pollCount \in Nat

ControlOK ==
    /\ pc \in PumpPoint \cup {"loop"}
    /\ stack \in Seq(PumpPoint \cup {"loop"})

\* An ended session has been reset.
ResetOK == userRequested => sessionActive

TypeOK == FlagsOK /\ ResetOK /\ CountersOK /\ ControlOK

-----------------------------------------------------------------------------
(* NmData: the session.                                                    *)

\* A new time stamp, followed by n calls of RequestScan.
StartSession(user, n) ==
    /\ sessionActive' = TRUE
    /\ userRequested' = (user \/ (sessionActive /\ userRequested))
    /\ waited' = 0 /\ reported' = FALSE
    /\ requests' = n

\* Mutant: the mark that the user asked survives the session.
FinishSession_KeepsUserMark ==
    /\ sessionActive' = FALSE /\ UNCHANGED userRequested
    /\ waited' = 0 /\ reported' = FALSE /\ requests' = 0

FinishSession ==
    /\ sessionActive' = FALSE /\ userRequested' = FALSE
    /\ waited' = 0 /\ reported' = FALSE /\ requests' = 0

FinishSessionIfActive ==
    IF sessionActive THEN FinishSession ELSE UNCHANGED session

AwaitingLastScan == sessionActive /\ wifiDev /\ ~reported

SessionComplete ==
    \/ ~sessionActive
    \/ ~wireless
    \/ ~wifiDev
    \/ reported
    \/ waited >= MaxWait

\* The list is (nearly) empty: the only case in which a scan starts unasked.
WantsBackgroundScan == wireless /\ wifiDev /\ sparse

-----------------------------------------------------------------------------
(* TrayController: the poll timer.                                         *)

StartScanPollingIfNeeded ==
    IF sessionActive /\ ~timerOn
    THEN timerOn' = TRUE /\ pollCount' = 0
    ELSE UNCHANGED timer

RestartPolling == timerOn' = TRUE /\ pollCount' = 0

-----------------------------------------------------------------------------
(* Control: Enter starts a handler from an event loop, Goto moves it on.   *)

Goto(at) == pc' = at /\ UNCHANGED stack

Enter(at) == pc = "loop" /\ Goto(at)

Leave == Goto("loop")

Init ==
    /\ sessionActive = FALSE /\ userRequested = FALSE
    /\ waited = 0 /\ reported = FALSE /\ requests = 0
    /\ timerOn = FALSE /\ pollCount = 0
    /\ networking \in BOOLEAN /\ wireless \in BOOLEAN
    /\ wifiDev \in BOOLEAN /\ sparse \in BOOLEAN
    /\ pc = "init" /\ stack = <<>>

\* TrayController::init after its pump: a background scan if the list is
\* empty.  The dialogs of that pump may already have let a poll run.
StartupScan ==
    /\ pc = "init"
    /\ IF ~timerOn /\ ~sessionActive /\ WantsBackgroundScan
       THEN /\ StartSession(FALSE, 1)
            /\ Goto("bgRequest")
            /\ UNCHANGED <<timer, nm>>
       ELSE /\ StartScanPollingIfNeeded
            /\ Leave
            /\ UNCHANGED <<session, nm>>

\* "Wifi - request scan".  While a scan of the user's runs the row is greyed
\* out; until the first poll a second click may still be queued.
RequestWifiScan ==
    /\ (sessionActive /\ userRequested) => waited = 0
    /\ networking /\ wireless
    /\ IF wifiDev
       THEN /\ StartSession(TRUE, 1)
            /\ Enter("userRequest")
            /\ UNCHANGED <<timer, nm>>
       ELSE /\ StartSession(TRUE, 0)
            /\ RestartPolling
            /\ Enter("loop")
            /\ UNCHANGED nm

RequestWifiScanDone ==
    /\ pc = "userRequest"
    /\ RestartPolling
    /\ Leave
    /\ UNCHANGED <<session, nm>>

\* Left click on the tray icon.  Inside a dialog's loop this stands for what is
\* still served there: queued clicks, an open popup, and the connection editor's
\* processEvents loops, which block nothing.
ShowMainMenu ==
    /\ Enter("menuOpen")
    /\ UNCHANGED <<session, timer, nm>>

ScanOnMenuOpen ==
    /\ pc = "menuOpen"
    /\ IF WantsBackgroundScan
       THEN /\ StartSession(FALSE, 1)
            /\ Goto("bgRequest")
            /\ UNCHANGED <<timer, nm>>
       ELSE /\ StartScanPollingIfNeeded
            /\ Leave
            /\ UNCHANGED <<session, nm>>

\* Mutant: the menu starts a scan and leaves it to the next menu to poll it.
BackgroundRequestDone_NoPolling ==
    /\ pc = "bgRequest"
    /\ Leave
    /\ UNCHANGED <<session, timer, nm>>

BackgroundRequestDone ==
    /\ pc = "bgRequest"
    /\ StartScanPollingIfNeeded
    /\ Leave
    /\ UNCHANGED <<session, nm>>

\* Right click on the tray icon.
ShowQuickMenu ==
    /\ Enter("loop")
    /\ StartScanPollingIfNeeded
    /\ UNCHANGED <<session, nm>>

\* A click on a Wi-Fi row ends the session before it activates anything.
ConnectWifi ==
    /\ Enter("activate")
    /\ FinishSessionIfActive
    /\ UNCHANGED <<timer, nm>>

\* The hidden-network and the hotspot dialog pump once, then need a device (the
\* hotspot one that can be an access point).
ConnectHiddenWifi ==
    /\ wireless
    /\ Enter("hidden")
    /\ UNCHANGED <<session, timer, nm>>

HiddenWifiPumped ==
    /\ pc = "hidden"
    /\ \/ wifiDev /\ FinishSessionIfActive /\ Goto("activate")
       \/ UNCHANGED session /\ Leave
    /\ UNCHANGED <<timer, nm>>

ActivationDone ==
    /\ pc = "activate"
    /\ Leave
    /\ UNCHANGED <<session, timer, nm>>

\* The poll timer fires; at least one interval has passed since the last poll.
WifiScanPoll ==
    /\ timerOn
    /\ Enter("poll")
    /\ waited' = IF sessionActive /\ waited < MaxWait THEN waited + 1 ELSE waited
    /\ UNCHANGED <<sessionActive, userRequested, reported, requests, timer, nm>>

\* The end of onWifiScanPoll, with the poll counter at n.
PollVerdict(n) ==
    /\ pollCount' = n
    /\ \/ /\ sessionActive /\ ~SessionComplete /\ n < MaxPolls
          /\ UNCHANGED timerOn
          /\ Leave
       \/ /\ ~sessionActive
          /\ timerOn' = FALSE
          /\ Leave
       \/ /\ sessionActive /\ (SessionComplete \/ n >= MaxPolls)
          /\ timerOn' = FALSE
          /\ Goto("finish")

\* Mutant: the request is repeated at every poll.
RetryDue_EveryPoll(n) == AwaitingLastScan

RetryDue(n) == AwaitingLastScan /\ (n = 1 \/ n % RetryEvery = 0)

PollPumped ==
    /\ pc = "poll"
    /\ IF RetryDue(pollCount + 1) /\ wireless
       THEN /\ pollCount' = pollCount + 1
            /\ requests' = requests + 1
            /\ Goto("retry")
            /\ UNCHANGED <<sessionActive, userRequested, waited, reported, timerOn>>
       ELSE PollVerdict(pollCount + 1) /\ UNCHANGED session
    /\ UNCHANGED nm

RetryPumped ==
    /\ pc = "retry"
    /\ PollVerdict(pollCount)
    /\ UNCHANGED <<session, nm>>

\* Mutant: the poll that gives up stops its timer and leaves the session open.
FinishPumped_StaysOpen ==
    /\ pc = "finish"
    /\ Leave
    /\ UNCHANGED <<session, timer, nm>>

FinishPumped ==
    /\ pc = "finish"
    /\ FinishSession
    /\ Leave
    /\ UNCHANGED <<timer, nm>>

-----------------------------------------------------------------------------
(* What the main context delivers: inside any pump, and in an event loop   *)
(* through the 30 ms timer of NmEventPump.                                 *)

ScanReported ==
    /\ sessionActive /\ wifiDev /\ ~reported
    /\ reported' = TRUE
    /\ UNCHANGED <<sessionActive, userRequested, waited, requests, timer, nm, control>>

NmChanges ==
    /\ \E b \in BOOLEAN :
          \/ networking' = b /\ UNCHANGED <<wireless, wifiDev, sparse>>
          \/ wireless' = b /\ UNCHANGED <<networking, wifiDev, sparse>>
          \/ sparse' = b /\ UNCHANGED <<networking, wireless, wifiDev>>
    /\ UNCHANGED <<session, timer, control>>

\* Another primary device has its own LastScan, or there is none.
WifiDeviceChanges ==
    /\ wifiDev' \in BOOLEAN
    /\ reported' \in IF sessionActive /\ wifiDev' THEN BOOLEAN ELSE {FALSE}
    /\ UNCHANGED <<sessionActive, userRequested, waited, requests>>
    /\ UNCHANGED <<networking, wireless, sparse, timer, control>>

\* A slow handler or a busy machine: time passes without a poll.
Elapse ==
    /\ sessionActive /\ waited < MaxWait
    /\ waited' = waited + 1
    /\ UNCHANGED <<sessionActive, userRequested, reported, requests, timer, nm, control>>

\* A secret request arrives, the user opens one of the modal dialogs, or the
\* connection editor waits for NetworkManager in a loop of its own.
OpenDialog ==
    /\ Len(stack) < MaxDialogs
    /\ stack' = <<pc>> \o stack
    /\ pc' = "loop"
    /\ UNCHANGED <<session, timer, nm>>

CloseDialog ==
    /\ pc = "loop" /\ stack # <<>>
    /\ pc' = Head(stack)
    /\ stack' = Tail(stack)
    /\ UNCHANGED <<session, timer, nm>>

Environment == ScanReported \/ NmChanges \/ WifiDeviceChanges \/ Elapse

\* The handlers between their pump and their end.
Continue ==
    \/ StartupScan \/ ScanOnMenuOpen \/ BackgroundRequestDone
    \/ RequestWifiScanDone \/ HiddenWifiPumped \/ ActivationDone
    \/ PollPumped \/ RetryPumped \/ FinishPumped

UserActs ==
    ShowMainMenu \/ ShowQuickMenu \/ RequestWifiScan \/ ConnectWifi \/ ConnectHiddenWifi

Next ==
    UserActs \/ WifiScanPoll \/ Continue \/ Environment \/ OpenDialog \/ CloseDialog

\* A pump drains finitely many messages, so the handler of each loop level
\* gets on even if dialogs interrupt it; the user answers every dialog; the
\* event loop serves timers in every round.  Nobody owes us a click or a report.
Fairness ==
    /\ \A depth \in 0..MaxDialogs :
          /\ SF_vars(Len(stack) = depth /\ Continue)
          /\ SF_vars(Len(stack) = depth /\ CloseDialog)
    /\ SF_vars(WifiScanPoll)

Spec == Init /\ [][Next]_vars /\ Fairness

-----------------------------------------------------------------------------
(* Properties.                                                             *)

\* Whenever control is back in the main event loop, an active session has its
\* poll timer running: nothing else would ever end it, and until it ends the
\* cache is not pruned and the scan row reads "Scanning wifi networks..."
\* (onWifiScanPoll stops the timer before it pumps and ends the session).
SessionWatched == (pc = "loop" /\ stack = <<>> /\ sessionActive) => timerOn

\* Between two time stamps RequestScan is sent a bounded number of times: the
\* request, the retry of the first poll, and one retry every RetryEvery polls of
\* those that fit into the session.  Each dialog may add two, however many menus
\* are opened in it: it can interrupt a handler that restarts the poll count when
\* it gets on, and then the one that ends the session, under which an opened menu
\* restarts the poll count as well.
RequestsBounded ==
    requests <= 2 + 2 * MaxDialogs + (MaxWait + 1 + 2 * MaxDialogs) \div RetryEvery

\* The steps that stamp a new request.
Stamps == RequestWifiScan \/ ((StartupScan \/ ScanOnMenuOpen) /\ pc' = "bgRequest")

\* Once no new request is stamped, the session ends and the poll timer stops,
\* also when a connect ended the session under the running timer.
Settles == <>[][~Stamps]_vars => <>[](~sessionActive /\ ~timerOn)
=============================================================================
