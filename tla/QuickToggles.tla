---------------------------- MODULE QuickToggles ----------------------------
(***************************************************************************)
(* The switches of the right-click popup: "Networking", "Wi-Fi" and        *)
(* "Wired".  A click asks NetworkManager to throw the switch and starts a  *)
(* 200 ms poll timer; the toggle is over when libnm reports the wanted     *)
(* value, noticed by the poll or by onClientChanged, or when the poll      *)
(* gives up.                                                               *)
(*                                                                         *)
(* Every handler here drains the GLib main context in the middle of its    *)
(* work, a libnm signal drained there runs onClientChanged to its end,     *)
(* pumps of its own included, and a secret request drained there runs the  *)
(* event loop of a modal dialog.  "stack" is the C++ call stack: the       *)
(* running loop or the handler that pumps first, then those it interrupted.*)
(***************************************************************************)
EXTENDS Naturals, Sequences, FiniteSets

CONSTANTS
    Kinds,       \* the switches the popup shows
    MaxPolls,    \* polls after which a toggle is given up (50)
    MaxDepth,    \* bound: handlers and dialogs on the stack
    MaxPending   \* bound: clicks not yet acted upon

ASSUME ToggleAssumption ==
    /\ "net" \in Kinds /\ Kinds \subseteq {"net", "wifi", "wired"}
    /\ MaxPolls \in Nat \ {0}
    /\ MaxDepth \in Nat \ {0}
    /\ MaxPending \in Nat \ {0}

VARIABLES
    on,        \* on[k]: the switch, as libnm last reported it
    toggling, target, timerOn, polls,  \* TrayController::m_<k>Toggle...
    quickOpen, \* m_quickPopup->isOpen()
    box,       \* box[k]: the row is checked (meaningless in a closed popup)
    rowOn,     \* rowOn[k]: the row can be clicked
    pending,   \* m_pendingActions
    stack,
    drifted    \* history: switches that moved outside a toggle since the popup
               \* last looked at them

toggle == <<toggling, target, timerOn, polls>>
popup == <<quickOpen, box, rowOn, drifted>>
vars == <<on, toggle, popup, pending, stack>>

\* A frame of the stack.  "toCheck": what onClientChanged has still to check
\* when the pump of this frame is over.
Frame(at, k, toCheck) == [at |-> at, kind |-> k, toCheck |-> toCheck]
Loop == Frame("loop", "net", {})
Frames == [at : {"loop", "click", "request", "poll", "changed", "finish"},
           kind : Kinds, toCheck : SUBSET Kinds]

SwitchesOK ==
    /\ on \in [Kinds -> BOOLEAN]
    /\ toggling \in [Kinds -> BOOLEAN] /\ target \in [Kinds -> BOOLEAN]
    /\ timerOn \in [Kinds -> BOOLEAN]

PollsOK == polls \in [Kinds -> 0..(MaxPolls - 1)]

PopupOK ==
    /\ quickOpen \in BOOLEAN /\ drifted \subseteq Kinds
    /\ box \in [Kinds -> BOOLEAN] /\ rowOn \in [Kinds -> BOOLEAN]

PendingOK == pending \in Seq(Kinds) /\ Len(pending) <= MaxPending

\* At the bottom is the main event loop.
StackOK ==
    /\ stack \in Seq(Frames) /\ stack # <<>>
    /\ stack[Len(stack)] = Loop

TypeOK == SwitchesOK /\ PollsOK /\ PopupOK /\ PendingOK /\ StackOK

-----------------------------------------------------------------------------
Top == stack[1]
Call(frame) == Len(stack) <= MaxDepth /\ stack' = <<frame>> \o stack
Return == stack' = Tail(stack)
GoOn(frame) == stack' = <<frame>> \o Tail(stack)

\* Mutant: a running toggle of the switch itself does not block it.
Blocked_NotBySelf(k) == k # "net" /\ toggling["net"]

\* A toggle of the networking switch also blocks the two others.
Blocked(k) == toggling[k] \/ toggling["net"]

\* What the controller tells the user interface: the goal while it toggles.
EnabledForUi(k) == IF toggling[k] THEN target[k] ELSE on[k]

\* fillQuick: without networking the other rows are unchecked and greyed out.
DrawRows ==
    /\ box' = [k \in Kinds |->
                 EnabledForUi(k) /\ (k # "net" => EnabledForUi("net"))]
    /\ rowOn' \in {r \in [Kinds -> BOOLEAN] :
                      \A k \in Kinds :
                         IF k = "wifi" THEN r[k] => EnabledForUi("net")
                         ELSE r[k] = (k = "net" \/ EnabledForUi("net"))}
    /\ drifted' = {}

\* Mutant: the Wi-Fi row is forgotten as the wired one is.
RefreshRows_NetOnly ==
    IF quickOpen
    THEN /\ box' = [k \in Kinds |-> IF k = "net" THEN EnabledForUi(k) ELSE box[k]]
         /\ rowOn' \in {r \in [Kinds -> BOOLEAN] :
                           \A k \in Kinds \ {"wifi"} : r[k] = rowOn[k]}
         /\ drifted' = drifted \cap {"wired"}
    ELSE UNCHANGED <<box, rowOn, drifted>>

\* refreshQuickToggles knows no wired row, and greys the Wi-Fi row out only
\* for the hardware switch.
RefreshRows ==
    IF quickOpen
    THEN /\ box' = [k \in Kinds |-> IF k = "wired" THEN box[k] ELSE EnabledForUi(k)]
         /\ rowOn' \in {r \in [Kinds -> BOOLEAN] :
                           \A k \in Kinds \ {"wifi"} : r[k] = rowOn[k]}
         /\ drifted' = drifted \cap {"wired"}
    ELSE UNCHANGED <<box, rowOn, drifted>>

-----------------------------------------------------------------------------
Init ==
    /\ on \in [Kinds -> BOOLEAN]
    /\ toggling = [k \in Kinds |-> FALSE] /\ target = [k \in Kinds |-> FALSE]
    /\ timerOn = [k \in Kinds |-> FALSE] /\ polls = [k \in Kinds |-> 0]
    /\ quickOpen = FALSE
    /\ box = [k \in Kinds |-> FALSE] /\ rowOn = [k \in Kinds |-> FALSE]
    /\ pending = <<>> /\ stack = <<Loop>> /\ drifted = {}

\* Right click on the tray icon.
ShowQuickMenu ==
    /\ Top = Loop /\ ~quickOpen
    /\ quickOpen' = TRUE
    /\ DrawRows
    /\ UNCHANGED <<on, toggle, pending, stack>>

\* A second click on the icon, a click outside, or the pointer stays away.
HideQuickMenu ==
    /\ Top = Loop /\ quickOpen
    /\ quickOpen' = FALSE
    /\ UNCHANGED <<on, toggle, box, rowOn, drifted, pending, stack>>

\* A click on a row is queued, then the popup pumps.
Click(k) ==
    /\ Top = Loop /\ quickOpen /\ rowOn[k] /\ ~Blocked(k)
    /\ Len(pending) < MaxPending
    /\ pending' = Append(pending, k)
    /\ Call(Frame("click", k, {}))
    /\ UNCHANGED <<on, toggle, popup>>

ClickPumped ==
    /\ Top.at = "click"
    /\ IF Top.kind = "wired" THEN RefreshRows ELSE UNCHANGED <<box, rowOn, drifted>>
    /\ Return
    /\ UNCHANGED <<on, toggle, quickOpen, pending>>

\* Mutant: the count is reset and the timer is not started.
StartPolling_CountOnly(k) ==
    /\ polls' = [polls EXCEPT ![k] = 0]
    /\ UNCHANGED timerOn

StartPolling(k) ==
    /\ polls' = [polls EXCEPT ![k] = 0]
    /\ timerOn' = [timerOn EXCEPT ![k] = TRUE]

\* onToggle<k> of the oldest queued click.  The request for networking is a
\* synchronous call that may be refused, and then pumps nothing.
ExecutePending ==
    /\ Top = Loop /\ pending # <<>>
    /\ pending' = Tail(pending)
    /\ LET k == Head(pending)
           enable == IF quickOpen THEN ~box[k] ELSE ~on[k]
       IN IF Blocked(k)
          THEN UNCHANGED <<toggle, box, stack>>
          ELSE /\ toggling' = [toggling EXCEPT ![k] = TRUE]
               /\ target' = [target EXCEPT ![k] = enable]
               /\ box' = IF quickOpen THEN [box EXCEPT ![k] = enable] ELSE box
               /\ \/ Call(Frame("request", k, {})) /\ UNCHANGED <<timerOn, polls>>
                  \/ k = "net" /\ StartPolling(k) /\ UNCHANGED stack
    /\ UNCHANGED <<on, quickOpen, rowOn, drifted>>

RequestPumped ==
    /\ Top.at = "request"
    /\ StartPolling(Top.kind)
    /\ Return
    /\ UNCHANGED <<on, toggling, target, popup, pending>>

Poll(k) ==
    /\ Top = Loop /\ timerOn[k]
    /\ Call(Frame("poll", k, {}))
    /\ UNCHANGED <<on, toggle, popup, pending>>

\* Mutant: the poll timer runs on.
Finish_KeepsTimer(k, toCheck) ==
    /\ toggling' = [toggling EXCEPT ![k] = FALSE]
    /\ polls' = [polls EXCEPT ![k] = 0]
    /\ GoOn(Frame("finish", k, toCheck))
    /\ UNCHANGED <<target, timerOn>>

\* finish<k>Toggle up to its pump; "toCheck" is left to the caller.
Finish(k, toCheck) ==
    /\ timerOn' = [timerOn EXCEPT ![k] = FALSE]
    /\ toggling' = [toggling EXCEPT ![k] = FALSE]
    /\ polls' = [polls EXCEPT ![k] = 0]
    /\ GoOn(Frame("finish", k, toCheck))
    /\ UNCHANGED target

\* Mutant: gives up one poll late.
PollPumped_OneLate ==
    /\ Top.at = "poll"
    /\ LET k == Top.kind
       IN IF on[k] = target[k] \/ polls[k] + 1 > MaxPolls
          THEN Finish(k, {})
          ELSE /\ polls' = [polls EXCEPT ![k] = @ + 1]
               /\ Return
               /\ UNCHANGED <<toggling, target, timerOn>>
    /\ UNCHANGED <<on, popup, pending>>

PollPumped ==
    /\ Top.at = "poll"
    /\ LET k == Top.kind
       IN IF on[k] = target[k] \/ polls[k] + 1 >= MaxPolls
          THEN Finish(k, {})
          ELSE /\ polls' = [polls EXCEPT ![k] = @ + 1]
               /\ Return
               /\ UNCHANGED <<toggling, target, timerOn>>
    /\ UNCHANGED <<on, popup, pending>>

\* onClientChanged checks Wi-Fi, then wired, then networking.
After == [wifi |-> {"wired", "net"}, wired |-> {"net"}, net |-> {}]
Reached(k) == toggling[k] /\ on[k] = target[k]

CheckSwitches(toCheck) ==
    \/ /\ \A k \in toCheck : ~Reached(k)
       /\ Return
       /\ UNCHANGED toggle
    \/ \E k \in toCheck :
          /\ Reached(k)
          /\ \A j \in toCheck \ {k} : Reached(j) => j \in After[k]
          /\ Finish(k, toCheck \cap After[k])

ClientChanged ==
    /\ Call(Frame("changed", "net", Kinds))
    /\ UNCHANGED <<on, toggle, popup, pending>>

ChangedPumped ==
    /\ Top.at = "changed"
    /\ CheckSwitches(Top.toCheck)
    /\ UNCHANGED <<on, popup, pending>>

FinishPumped ==
    /\ Top.at = "finish"
    /\ RefreshRows
    /\ CheckSwitches(Top.toCheck)
    /\ UNCHANGED <<on, quickOpen, pending>>

\* NetworkManager throws a switch, asked or unasked.
SwitchMoves(k) ==
    /\ on' = [on EXCEPT ![k] = ~@]
    /\ drifted' = IF toggling[k] THEN drifted ELSE drifted \cup {k}
    /\ UNCHANGED <<toggle, quickOpen, box, rowOn, pending, stack>>

OpenDialog ==
    /\ Call(Loop)
    /\ UNCHANGED <<on, toggle, popup, pending>>

CloseDialog ==
    /\ Top = Loop /\ Len(stack) > 1
    /\ Return
    /\ UNCHANGED <<on, toggle, popup, pending>>

Continue == ClickPumped \/ RequestPumped \/ PollPumped \/ ChangedPumped \/ FinishPumped

UserActs == ShowQuickMenu \/ HideQuickMenu \/ \E k \in Kinds : Click(k)

Next ==
    \/ UserActs \/ ExecutePending \/ Continue
    \/ \E k \in Kinds : Poll(k) \/ SwitchMoves(k)
    \/ ClientChanged \/ OpenDialog \/ CloseDialog

\* As in WifiScan: every handler gets on in spite of what interrupts it, the
\* user answers every dialog, the event loop serves its timers.
Fairness ==
    /\ \A depth \in 1..(MaxDepth + 1) :
          /\ SF_vars(Len(stack) = depth /\ Continue)
          /\ SF_vars(Len(stack) = depth /\ CloseDialog)
    /\ SF_vars(ExecutePending)
    /\ \A k \in Kinds : SF_vars(Poll(k))

Spec == Init /\ [][Next]_vars /\ Fairness

-----------------------------------------------------------------------------
(* Properties.                                                             *)

\* In the main event loop a toggle that is not over is being polled: in no
\* order of nested handlers is a switch left "toggling", which would block its
\* row for good and make the interface show the goal instead of the switch.
ToggleWatched ==
    (Len(stack) = 1 /\ Top = Loop) => \A k \in Kinds : toggling[k] => timerOn[k]

\* Back in the main event loop, a networking or Wi-Fi row that can be clicked
\* shows the switch, unless the switch has moved outside a toggle meanwhile;
\* the next click asks for the opposite of the row.
RowsTruthful ==
    (Len(stack) = 1 /\ Top = Loop /\ quickOpen) =>
        \A k \in Kinds \ ({"wired"} \cup drifted) :
            rowOn[k] /\ ~toggling[k] => box[k] = on[k]

\* A switch implements SwitchRequest: no click, nested handler or late poll
\* starts a second request or turns the goal of a running one, and every
\* request ends, whatever NetworkManager does.
NetRequest == INSTANCE SwitchRequest WITH busy <- toggling["net"], goal <- target["net"]
NetRequests == NetRequest!Spec

\* Once nobody clicks any more, the poll timers fall silent, also the one
\* that a request starts after a nested handler has ended its toggle.
PollingStops ==
    <>[][~ExecutePending]_vars => <>[](\A k \in Kinds : ~timerOn[k])
=============================================================================
