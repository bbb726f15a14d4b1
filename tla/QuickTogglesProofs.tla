------------------------- MODULE QuickTogglesProofs -------------------------
(***************************************************************************)
(* For any set of switches, poll limit and depth of nesting: the types, and *)
(* the facts that keep a switch from being stuck or mistaken.  A toggle     *)
(* that runs is polled or about to be, the rows tell the truth, and a       *)
(* switch is asked for one thing at a time.                                 *)
(***************************************************************************)
EXTENDS QuickToggles, TLAPS

\* The handler of k's request is on the stack: it has set the flag, its timer
\* is still to be started.
Requesting(k) == \E i \in 1..Len(stack) : stack[i].at = "request" /\ stack[i].kind = k

\* ToggleWatched says nothing of the states in which a handler is running, so
\* it is not inductive; Watched covers them.
Watched == \A k \in Kinds : toggling[k] => timerOn[k] \/ Requesting(k)

-----------------------------------------------------------------------------
(* Types, one lemma per group of variables.                                *)

\* Every step leaves Boolean functions of the switches.
LEMMA SwitchesStep == SwitchesOK /\ PopupOK /\ PendingOK /\ StackOK /\ [Next]_vars => SwitchesOK'
<1> SUFFICES ASSUME SwitchesOK, PopupOK, PendingOK, StackOK, [Next]_vars
             PROVE SwitchesOK'
  OBVIOUS
<1> USE ToggleAssumption DEF ToggleAssumption, SwitchesOK
<1>1. CASE UserActs
  BY <1>1 DEF UserActs, ShowQuickMenu, HideQuickMenu, Click, toggle
<1>2. CASE ExecutePending
  <2> DEFINE k == Head(pending)
             enable == IF quickOpen THEN ~box[k] ELSE ~on[k]
  <2>1. k \in Kinds
    BY <1>2 DEF ExecutePending, PendingOK
  <2>2. enable \in BOOLEAN
    BY <2>1 DEF PopupOK
  <2>3. CASE Blocked(k)
    BY <1>2, <2>3 DEF ExecutePending, toggle
  <2>4. CASE ~Blocked(k)
    BY <1>2, <2>1, <2>2, <2>4 DEF ExecutePending, StartPolling
  <2> QED BY <2>3, <2>4
<1>3. CASE Continue
  BY <1>3 DEF Continue, ClickPumped, RequestPumped, PollPumped, ChangedPumped,
     FinishPumped, StartPolling, Finish, CheckSwitches, toggle
<1>4. CASE \E k \in Kinds : Poll(k) \/ SwitchMoves(k)
  BY <1>4 DEF Poll, SwitchMoves, toggle
<1>5. CASE ClientChanged \/ OpenDialog \/ CloseDialog
  BY <1>5 DEF ClientChanged, OpenDialog, CloseDialog, toggle
<1>6. CASE UNCHANGED vars
  BY <1>6 DEF vars, toggle
<1> QED BY <1>1, <1>2, <1>3, <1>4, <1>5, <1>6 DEF Next

\* No poll counter reaches the limit: the poll that would, ends the toggle.
LEMMA PollsStep == PollsOK /\ [Next]_vars => PollsOK'
<1> SUFFICES ASSUME PollsOK, [Next]_vars
             PROVE PollsOK'
  OBVIOUS
<1> USE ToggleAssumption DEF ToggleAssumption, PollsOK
<1>0. ASSUME NEW k, polls' = [polls EXCEPT ![k] = 0] PROVE PollsOK'
  <2>1. 0 \in 0..(MaxPolls - 1)
    OBVIOUS
  <2> QED BY <1>0, <2>1
<1>1. CASE UserActs
  BY <1>1 DEF UserActs, ShowQuickMenu, HideQuickMenu, Click, toggle
<1>2. CASE ExecutePending
  BY <1>2 DEF ExecutePending, StartPolling, toggle
<1>3. CASE ClickPumped
  BY <1>3 DEF ClickPumped, toggle
<1>4. CASE RequestPumped
  BY <1>0, <1>4 DEF RequestPumped, StartPolling
<1>5. CASE PollPumped
  BY <1>5 DEF PollPumped, Finish
<1>6. CASE ChangedPumped \/ FinishPumped
  <2>1. CheckSwitches(Top.toCheck)
    BY <1>6 DEF ChangedPumped, FinishPumped
  <2>2. polls' = polls \/ \E k : polls' = [polls EXCEPT ![k] = 0]
    BY <2>1, Zenon DEF CheckSwitches, Finish, toggle
  <2> QED BY <1>0, <2>2
<1>7. CASE \E k \in Kinds : Poll(k) \/ SwitchMoves(k)
  BY <1>7 DEF Poll, SwitchMoves, toggle
<1>8. CASE ClientChanged \/ OpenDialog \/ CloseDialog
  BY <1>8 DEF ClientChanged, OpenDialog, CloseDialog, toggle
<1>9. CASE UNCHANGED vars
  BY <1>9 DEF vars, toggle
<1> QED BY <1>1, <1>2, <1>3, <1>4, <1>5, <1>6, <1>7, <1>8, <1>9 DEF Next, Continue

\* The popup keeps a Boolean for each row.
LEMMA PopupStep == SwitchesOK /\ PopupOK /\ PendingOK /\ [Next]_vars => PopupOK'
<1> SUFFICES ASSUME SwitchesOK, PopupOK, PendingOK, [Next]_vars
             PROVE PopupOK'
  OBVIOUS
<1> USE ToggleAssumption DEF ToggleAssumption, PopupOK
<1>0. \A k \in Kinds : EnabledForUi(k) \in BOOLEAN
  BY DEF SwitchesOK, EnabledForUi
<1>1. CASE ShowQuickMenu
  <2>1. box' \in [Kinds -> BOOLEAN]
    BY <1>0, <1>1 DEF ShowQuickMenu, DrawRows
  <2>2. rowOn' \in [Kinds -> BOOLEAN] /\ drifted' \subseteq Kinds /\ quickOpen' \in BOOLEAN
    BY <1>1 DEF ShowQuickMenu, DrawRows
  <2> QED BY <2>1, <2>2
<1>2. CASE HideQuickMenu
  BY <1>2 DEF HideQuickMenu
<1>3. CASE \E k \in Kinds : Click(k)
  BY <1>3 DEF Click, popup
<1>4. CASE ExecutePending
  BY <1>4 DEF ExecutePending, PendingOK
<1>5. RefreshRows /\ UNCHANGED quickOpen => PopupOK'
  <2> SUFFICES ASSUME RefreshRows, UNCHANGED quickOpen PROVE PopupOK'
    OBVIOUS
  <2>1. CASE quickOpen
    <3>1. box' \in [Kinds -> BOOLEAN]
      BY <1>0, <2>1 DEF RefreshRows
    <3>2. rowOn' \in [Kinds -> BOOLEAN] /\ drifted' \subseteq Kinds
      BY <2>1 DEF RefreshRows
    <3> QED BY <3>1, <3>2
  <2>2. CASE ~quickOpen
    BY <2>2 DEF RefreshRows
  <2> QED BY <2>1, <2>2
<1>6. CASE ClickPumped
  BY <1>5, <1>6 DEF ClickPumped
<1>7. CASE FinishPumped
  BY <1>5, <1>7 DEF FinishPumped
<1>8. CASE RequestPumped \/ PollPumped \/ ChangedPumped
  BY <1>8 DEF RequestPumped, PollPumped, ChangedPumped, popup
<1>9. CASE \E k \in Kinds : Poll(k) \/ SwitchMoves(k)
  BY <1>9 DEF Poll, SwitchMoves, popup
<1>10. CASE ClientChanged \/ OpenDialog \/ CloseDialog
  BY <1>10 DEF ClientChanged, OpenDialog, CloseDialog, popup
<1>11. CASE UNCHANGED vars
  BY <1>11 DEF vars, popup
<1> QED BY <1>1, <1>2, <1>3, <1>4, <1>6, <1>7, <1>8, <1>9, <1>10, <1>11
        DEF Next, UserActs, Continue

\* The queue of clicks holds switches and stays within its bound.
LEMMA PendingStep == PendingOK /\ [Next]_vars => PendingOK'
<1> SUFFICES ASSUME PendingOK, [Next]_vars
             PROVE PendingOK'
  OBVIOUS
<1> USE ToggleAssumption DEF ToggleAssumption, PendingOK
<1>1. CASE ShowQuickMenu \/ HideQuickMenu
  BY <1>1 DEF ShowQuickMenu, HideQuickMenu
<1>2. CASE \E k \in Kinds : Click(k)
  BY <1>2 DEF Click
<1>3. CASE ExecutePending
  BY <1>3 DEF ExecutePending
<1>4. CASE Continue
  BY <1>4 DEF Continue, ClickPumped, RequestPumped, PollPumped, ChangedPumped,
     FinishPumped
<1>5. CASE \E k \in Kinds : Poll(k) \/ SwitchMoves(k)
  BY <1>5 DEF Poll, SwitchMoves
<1>6. CASE ClientChanged \/ OpenDialog \/ CloseDialog
  BY <1>6 DEF ClientChanged, OpenDialog, CloseDialog
<1>7. CASE UNCHANGED vars
  BY <1>7 DEF vars
<1> QED BY <1>1, <1>2, <1>3, <1>4, <1>5, <1>6, <1>7 DEF Next, UserActs

\* The stack is never empty and holds well-formed frames.
LEMMA StackStep == PendingOK /\ StackOK /\ [Next]_vars => StackOK'
<1> SUFFICES ASSUME PendingOK, StackOK, [Next]_vars
             PROVE StackOK'
  OBVIOUS
<1> USE ToggleAssumption DEF ToggleAssumption, StackOK
<1>1. ASSUME NEW at \in {"loop", "click", "request", "poll", "changed", "finish"},
             NEW k \in Kinds, NEW S \in SUBSET Kinds
      PROVE  Frame(at, k, S) \in Frames
  BY DEF Frame, Frames
<1>2. Top \in Frames /\ Len(stack) \in Nat \ {0}
  BY DEF Top
<1>3. Loop \in Frames
  BY <1>1 DEF Loop
<1>4. ASSUME NEW f \in Frames, Call(f) PROVE StackOK'
  <2>1. stack' = <<f>> \o stack
    BY <1>4 DEF Call
  <2>2. stack' \in Seq(Frames) /\ Len(stack') = Len(stack) + 1
    BY <2>1
  <2>3. stack'[Len(stack')] = stack[Len(stack)]
    BY <1>2, <2>1, <2>2
  <2> QED BY <1>2, <2>2, <2>3
<1>5. ASSUME NEW f \in Frames, GoOn(f), Top # Loop PROVE StackOK'
  <2>1. stack' = <<f>> \o Tail(stack)
    BY <1>5 DEF GoOn
  <2>2. Len(stack) > 1
    BY <1>2, <1>5 DEF Top
  <2>3. stack' \in Seq(Frames) /\ Len(stack') = Len(stack)
    BY <1>2, <2>1
  <2>4. stack'[Len(stack')] = stack[Len(stack)]
    BY <1>2, <2>1, <2>2, <2>3
  <2> QED BY <1>2, <2>3, <2>4
<1>6. ASSUME Return, Top # Loop \/ Len(stack) > 1 PROVE StackOK'
  <2>1. Len(stack) > 1
    BY <1>2, <1>6 DEF Top
  <2>2. stack' \in Seq(Frames) /\ Len(stack') = Len(stack) - 1
    BY <1>2, <1>6, <2>1 DEF Return
  <2>3. stack'[Len(stack')] = stack[Len(stack)]
    BY <1>2, <1>6, <2>1, <2>2 DEF Return
  <2> QED BY <1>2, <2>1, <2>2, <2>3
<1>7. Top.kind \in Kinds /\ Top.toCheck \subseteq Kinds
  BY <1>2 DEF Frames
<1>8. ASSUME NEW S \in SUBSET Kinds, CheckSwitches(S), Top # Loop PROVE StackOK'
  <2>1. CASE Return
    BY <1>6, <1>8, <2>1
  <2>2. ASSUME NEW k \in S, Finish(k, S \cap After[k]) PROVE StackOK'
    BY <1>1, <1>5, <1>8, <2>2 DEF Finish
  <2> QED BY <1>8, <2>1, <2>2 DEF CheckSwitches
<1>9. ASSUME Top.at # "loop" PROVE Top # Loop
  BY <1>9 DEF Loop, Frame
<1>10. CASE ShowQuickMenu \/ HideQuickMenu
  BY <1>10 DEF ShowQuickMenu, HideQuickMenu
<1>11. CASE \E k \in Kinds : Click(k) \/ Poll(k)
  BY <1>1, <1>4, <1>11 DEF Click, Poll
<1>12. CASE \E k \in Kinds : SwitchMoves(k)
  BY <1>12 DEF SwitchMoves
<1>13. CASE ExecutePending
  <2>1. Head(pending) \in Kinds
    BY <1>13 DEF ExecutePending, PendingOK
  <2> QED BY <1>1, <1>4, <1>13, <2>1 DEF ExecutePending
<1>14. CASE ClickPumped \/ RequestPumped
  BY <1>6, <1>9, <1>14 DEF ClickPumped, RequestPumped
<1>15. CASE PollPumped
  <2>1. CASE Return
    BY <1>6, <1>9, <1>15, <2>1 DEF PollPumped
  <2>2. CASE Finish(Top.kind, {})
    BY <1>1, <1>5, <1>7, <1>9, <1>15, <2>2 DEF PollPumped, Finish
  <2> QED BY <1>15, <2>1, <2>2 DEF PollPumped
<1>16. CASE ChangedPumped \/ FinishPumped
  BY <1>7, <1>8, <1>9, <1>16 DEF ChangedPumped, FinishPumped
<1>17. CASE ClientChanged
  BY <1>1, <1>4, <1>17 DEF ClientChanged
<1>18. CASE OpenDialog
  BY <1>3, <1>4, <1>18 DEF OpenDialog
<1>19. CASE CloseDialog
  BY <1>6, <1>19 DEF CloseDialog
<1>20. CASE UNCHANGED vars
  BY <1>20 DEF vars
<1> QED BY <1>10, <1>11, <1>12, <1>13, <1>14, <1>15, <1>16, <1>17, <1>18, <1>19,
           <1>20 DEF Next, UserActs, Continue

\* Every variable keeps its type, and the main event loop stays at the bottom
\* of the stack.
THEOREM TypeCorrect == Spec => []TypeOK
<1>1. Init => TypeOK
  <2> SUFFICES ASSUME Init PROVE TypeOK
    OBVIOUS
  <2> USE ToggleAssumption DEF ToggleAssumption, Init
  <2>1. SwitchesOK /\ PollsOK
    BY DEF SwitchesOK, PollsOK
  <2>2. PopupOK
    BY DEF PopupOK
  <2>5. PendingOK
    <3>1. pending = <<>> /\ MaxPending >= 0
      OBVIOUS
    <3> QED BY <3>1 DEF PendingOK
  <2>3. Loop \in Frames
    BY DEF Loop, Frame, Frames
  <2>4. StackOK
    BY <2>3 DEF StackOK
  <2> QED BY <2>1, <2>2, <2>4, <2>5 DEF TypeOK
<1>2. TypeOK /\ [Next]_vars => TypeOK'
  BY SwitchesStep, PollsStep, PopupStep, PendingStep, StackStep DEF TypeOK
<1> QED BY <1>1, <1>2, PTL DEF Spec

-----------------------------------------------------------------------------
(* The watch invariant.                                                    *)

\* A handler that is called, or that replaces or leaves the running one,
\* leaves the other requests on the stack.
LEMMA RequestStays ==
  ASSUME StackOK, NEW k, Requesting(k),
         \/ \E f : Call(f)
         \/ Top # Loop /\ (Top.at = "request" => Top.kind # k) /\ (Return \/ \E f : GoOn(f))
         \/ Top = Loop /\ Len(stack) > 1 /\ Return
         \/ UNCHANGED stack
  PROVE  Requesting(k)'
<1> USE DEF StackOK, Requesting, Top
<1>1. PICK i \in 1..Len(stack) : stack[i].at = "request" /\ stack[i].kind = k
  OBVIOUS
<1>2. CASE \E f : Call(f)
  <2>1. stack'[i + 1] = stack[i] /\ i + 1 \in 1..Len(stack')
    BY <1>2 DEF Call
  <2> QED BY <1>1, <2>1
<1>3. ASSUME Top # Loop, Top.at = "request" => Top.kind # k PROVE i # 1
  BY <1>1, <1>3
<1>4. ASSUME Return, i # 1 PROVE Requesting(k)'
  <2>1. stack'[i - 1] = stack[i] /\ i - 1 \in 1..Len(stack')
    BY <1>4 DEF Return
  <2> QED BY <1>1, <2>1
<1>5. ASSUME NEW f, GoOn(f), i # 1 PROVE Requesting(k)'
  <2>1. stack'[i] = stack[i] /\ i \in 1..Len(stack')
    BY <1>5 DEF GoOn
  <2> QED BY <1>1, <2>1
<1>6. CASE Top = Loop /\ Len(stack) > 1 /\ Return
  <2>1. i # 1
    BY <1>1, <1>6 DEF Loop, Frame
  <2> QED BY <1>4, <1>6, <2>1
<1>7. CASE UNCHANGED stack
  BY <1>7
<1> QED BY <1>2, <1>3, <1>4, <1>5, <1>6, <1>7

\* A step that sets the flag calls the request or starts the timer; one that
\* takes the request from the stack starts the timer; one that stops the timer
\* clears the flag.
LEMMA WatchedStep == TypeOK /\ Watched /\ [Next]_vars => Watched'
<1> SUFFICES ASSUME SwitchesOK, PendingOK, StackOK, Watched, [Next]_vars,
                    NEW k \in Kinds, toggling'[k]
             PROVE  timerOn'[k] \/ Requesting(k)'
  BY DEF TypeOK, Watched
<1>1. toggling[k] => timerOn[k] \/ Requesting(k)
  BY DEF Watched
<1>2. ASSUME Top.at # "loop" PROVE Top # Loop
  BY <1>2 DEF Loop, Frame
<1>3. ASSUME UNCHANGED <<toggling, timerOn>>,
             \/ \E f : Call(f)
             \/ Top.at \notin {"loop", "request"} /\ (Return \/ \E f : GoOn(f))
             \/ Top = Loop /\ Len(stack) > 1 /\ Return
             \/ UNCHANGED stack
      PROVE  timerOn'[k] \/ Requesting(k)'
  BY <1>1, <1>2, <1>3, RequestStays
<1>4. CASE ShowQuickMenu \/ HideQuickMenu
  BY <1>3, <1>4 DEF ShowQuickMenu, HideQuickMenu, toggle
<1>5. CASE \E j \in Kinds : Click(j) \/ Poll(j)
  BY <1>3, <1>5 DEF Click, Poll, toggle
<1>6. CASE \E j \in Kinds : SwitchMoves(j)
  BY <1>3, <1>6 DEF SwitchMoves, toggle
<1>7. CASE ExecutePending
  <2> DEFINE j == Head(pending)
  <2>1. CASE Blocked(j)
    BY <1>3, <1>7, <2>1 DEF ExecutePending, toggle
  <2>2. CASE ~Blocked(j)
    <3>1. toggling' = [toggling EXCEPT ![j] = TRUE]
      BY <1>7, <2>2 DEF ExecutePending
    <3>2. k # j => toggling[k]
      BY <3>1 DEF SwitchesOK
    <3>3. CASE Call(Frame("request", j, {})) /\ UNCHANGED timerOn
      <4>1. CASE k = j
        <5>1. stack'[1] = Frame("request", k, {}) /\ 1 \in 1..Len(stack')
          BY <3>3, <4>1 DEF Call, StackOK
        <5> QED BY <5>1 DEF Requesting, Frame
      <4>2. CASE k # j
        BY <1>1, <3>2, <3>3, <4>2, RequestStays
      <4> QED BY <4>1, <4>2
    <3>4. CASE StartPolling(j) /\ UNCHANGED stack
      BY <1>1, <3>2, <3>4, RequestStays DEF StartPolling, SwitchesOK
    <3> QED BY <1>7, <2>2, <3>3, <3>4 DEF ExecutePending
  <2> QED BY <2>1, <2>2
<1>8. CASE ClickPumped
  BY <1>3, <1>8 DEF ClickPumped, toggle
<1>9. CASE RequestPumped
  <2>1. CASE k = Top.kind
    BY <1>9, <2>1 DEF RequestPumped, StartPolling, SwitchesOK
  <2>2. CASE k # Top.kind
    <3>1. timerOn'[k] = timerOn[k] /\ toggling[k]
      BY <1>9, <2>2 DEF RequestPumped, StartPolling, SwitchesOK
    <3>2. Top # Loop /\ Return
      BY <1>2, <1>9 DEF RequestPumped
    <3> QED BY <1>1, <2>2, <3>1, <3>2, RequestStays
  <2> QED BY <2>1, <2>2
<1>0. ASSUME NEW j, NEW S, Finish(j, S), Top.at \notin {"loop", "request"}
       PROVE  timerOn'[k] \/ Requesting(k)'
  <2>1. k # j /\ toggling[k] /\ timerOn'[k] = timerOn[k]
    BY <1>0 DEF Finish, SwitchesOK
  <2>2. Top # Loop /\ \E f : GoOn(f)
    BY <1>2, <1>0 DEF Finish
  <2> QED BY <1>1, <1>0, <2>1, <2>2, RequestStays
<1>10. CASE PollPumped
  <2>1. CASE Finish(Top.kind, {})
    BY <1>10, <1>0, <2>1 DEF PollPumped
  <2>2. CASE Return /\ UNCHANGED <<toggling, timerOn>>
    BY <1>3, <1>10, <2>2 DEF PollPumped
  <2> QED BY <1>10, <2>1, <2>2 DEF PollPumped
<1>11. CASE ChangedPumped \/ FinishPumped
  <2>1. CheckSwitches(Top.toCheck) /\ Top.at \notin {"loop", "request"}
    BY <1>11 DEF ChangedPumped, FinishPumped
  <2>2. CASE Return /\ UNCHANGED toggle
    BY <1>3, <2>1, <2>2 DEF toggle
  <2>3. CASE \E j, S : Finish(j, S)
    BY <1>0, <2>1, <2>3
  <2> QED BY <2>1, <2>2, <2>3 DEF CheckSwitches
<1>12. CASE ClientChanged \/ OpenDialog
  BY <1>3, <1>12 DEF ClientChanged, OpenDialog, toggle
<1>13. CASE CloseDialog
  BY <1>3, <1>13 DEF CloseDialog, toggle
<1>14. CASE UNCHANGED vars
  BY <1>3, <1>14 DEF vars, toggle
<1> QED BY <1>4, <1>5, <1>6, <1>7, <1>8, <1>9, <1>10, <1>11, <1>12, <1>13, <1>14
        DEF Next, UserActs, Continue

\* In the main event loop every running toggle has its poll timer: no order of
\* clicks, nested signals and dialogs leaves a switch "toggling" for good.
THEOREM ToggleIsWatched == Spec => []ToggleWatched
<1>1. Init => Watched
  BY DEF Init, Watched
<1>2. StackOK /\ Watched => ToggleWatched
  BY DEF StackOK, Watched, Requesting, ToggleWatched, Top, Loop, Frame
<1> QED BY <1>1, <1>2, TypeCorrect, WatchedStep, PTL DEF Spec, TypeOK

-----------------------------------------------------------------------------
(* The rows.                                                               *)

\* A toggle has just ended and its handler will refresh the rows.
Finishing == \E i \in 1..Len(stack) : stack[i].at = "finish"

\* RowsTruthful speaks of the main event loop.  In any state a row that can be
\* clicked shows the goal of its toggle, or the switch, or is about to be
\* refreshed.
RowTrue(k) ==
    quickOpen /\ k \notin drifted /\ rowOn[k] =>
        IF toggling[k] THEN box[k] = target[k] ELSE box[k] = on[k] \/ Finishing

RowsTrue == \A k \in Kinds \ {"wired"} : RowTrue(k)

\* Only the handler itself takes its frame from the stack.
LEMMA FinishingStays ==
  ASSUME StackOK, Finishing,
         \/ \E f : Call(f)
         \/ Top.at # "finish" /\ Return
         \/ UNCHANGED stack
  PROVE  Finishing'
<1> USE DEF StackOK, Finishing, Top
<1>1. PICK i \in 1..Len(stack) : stack[i].at = "finish"
  OBVIOUS
<1>2. CASE \E f : Call(f)
  <2>1. stack'[i + 1] = stack[i] /\ i + 1 \in 1..Len(stack')
    BY <1>2 DEF Call
  <2> QED BY <1>1, <2>1
<1>3. CASE Top.at # "finish" /\ Return
  <2>1. i # 1
    BY <1>1, <1>3
  <2>2. stack'[i - 1] = stack[i] /\ i - 1 \in 1..Len(stack')
    BY <1>3, <2>1 DEF Return
  <2> QED BY <1>1, <2>2
<1> QED BY <1>1, <1>2, <1>3

\* The end of a toggle leaves the frame that refreshes the rows.
LEMMA FinishCalls ==
  ASSUME StackOK, NEW j, NEW S, Finish(j, S)
  PROVE  Finishing'
<1>1. stack' = <<Frame("finish", j, S)>> \o Tail(stack)
  BY DEF Finish, GoOn
<1>2. stack'[1] = Frame("finish", j, S) /\ 1 \in 1..Len(stack')
  BY <1>1 DEF StackOK
<1> QED BY <1>2 DEF Finishing, Frame

\* A refresh makes the rows true on the spot.
LEMMA RowsStep == TypeOK /\ RowsTrue /\ [Next]_vars => RowsTrue'
<1> SUFFICES ASSUME SwitchesOK, PopupOK, PendingOK, StackOK, RowsTrue, [Next]_vars,
                    NEW k \in Kinds \ {"wired"}
             PROVE  RowTrue(k)'
  BY DEF TypeOK, RowsTrue
<1> USE ToggleAssumption DEF ToggleAssumption
<1>1. RowTrue(k)
  BY DEF RowsTrue
<1>2. ASSUME UNCHANGED <<on, toggling, target, popup>>, Finishing => Finishing'
      PROVE  RowTrue(k)'
  BY <1>1, <1>2 DEF RowTrue, popup
<1>3. ASSUME UNCHANGED <<on, toggling, target, popup>>,
             \/ \E f : Call(f)
             \/ Top.at # "finish" /\ Return
             \/ UNCHANGED stack
      PROVE  RowTrue(k)'
  BY <1>2, <1>3, FinishingStays
<1>4. ASSUME Finishing', UNCHANGED <<on, target, popup>>,
             toggling'[k] => toggling[k]
      PROVE  RowTrue(k)'
  BY <1>1, <1>4 DEF RowTrue, popup
<1>5. ASSUME NEW j, NEW S, Finish(j, S) PROVE Finishing' /\ UNCHANGED target /\ (toggling'[k] => toggling[k])
  BY <1>5, FinishCalls DEF Finish, SwitchesOK
<1>6. ASSUME RefreshRows, UNCHANGED <<on, quickOpen, target>>,
             \/ UNCHANGED toggling
             \/ Finishing' /\ (toggling'[k] => toggling[k])
      PROVE  RowTrue(k)'
  <2>1. CASE quickOpen
    <3>1. box'[k] = EnabledForUi(k)
      BY <1>6, <2>1 DEF RefreshRows
    <3> QED BY <1>6, <2>1, <3>1 DEF RowTrue, EnabledForUi
  <2>2. CASE ~quickOpen
    BY <1>6, <2>2 DEF RowTrue
  <2> QED BY <2>1, <2>2
<1>7. CASE ShowQuickMenu
  <2>1. box'[k] = (EnabledForUi(k) /\ (k # "net" => EnabledForUi("net")))
    BY <1>7 DEF ShowQuickMenu, DrawRows
  <2>2. rowOn'[k] => k = "net" \/ EnabledForUi("net")
    BY <1>7 DEF ShowQuickMenu, DrawRows
  <2>3. EnabledForUi(k) \in BOOLEAN
    BY DEF EnabledForUi, SwitchesOK
  <2>4. rowOn'[k] => box'[k] = EnabledForUi(k)
    BY <2>1, <2>2, <2>3
  <2> QED BY <1>7, <2>4 DEF ShowQuickMenu, RowTrue, EnabledForUi, toggle
<1>8. CASE HideQuickMenu
  BY <1>8 DEF HideQuickMenu, RowTrue
<1>9. CASE \E j \in Kinds : Click(j) \/ Poll(j)
  BY <1>3, <1>9 DEF Click, Poll, toggle
<1>10. CASE \E j \in Kinds : SwitchMoves(j)
  <2>1. PICK j \in Kinds : SwitchMoves(j)
    BY <1>10
  <2>2. j # k => on'[k] = on[k]
    BY <2>1 DEF SwitchMoves, SwitchesOK
  <2>3. Finishing => Finishing'
    BY <2>1 DEF SwitchMoves, Finishing
  <2> QED BY <1>1, <2>1, <2>2, <2>3 DEF SwitchMoves, RowTrue, toggle
<1>11. CASE ExecutePending
  <2> DEFINE j == Head(pending)
             enable == IF quickOpen THEN ~box[j] ELSE ~on[j]
  <2>0. j \in Kinds
    BY <1>11 DEF ExecutePending, PendingOK
  <2>1. CASE Blocked(j)
    BY <1>3, <1>11, <2>1 DEF ExecutePending, toggle, popup
  <2>2. CASE ~Blocked(j)
    <3>1. /\ toggling' = [toggling EXCEPT ![j] = TRUE]
          /\ target' = [target EXCEPT ![j] = enable]
          /\ box' = IF quickOpen THEN [box EXCEPT ![j] = enable] ELSE box
          /\ UNCHANGED <<on, quickOpen, rowOn, drifted>>
      BY <1>11, <2>2 DEF ExecutePending
    <3>2. Finishing => Finishing'
      <4>1. (\E f : Call(f)) \/ UNCHANGED stack
        BY <1>11, <2>2 DEF ExecutePending
      <4> QED BY <4>1, FinishingStays
    <3>3. CASE k = j
      BY <2>0, <3>1, <3>3 DEF RowTrue, SwitchesOK, PopupOK
    <3>4. CASE k # j
      <4>1. /\ toggling'[k] = toggling[k] /\ target'[k] = target[k]
            /\ box'[k] = box[k]
        BY <3>1, <3>4 DEF SwitchesOK, PopupOK
      <4> QED BY <1>1, <3>1, <3>2, <4>1 DEF RowTrue
    <3> QED BY <3>3, <3>4
  <2> QED BY <2>1, <2>2
<1>12. CASE ClickPumped
  <2>1. CASE RefreshRows
    BY <1>6, <1>12, <2>1 DEF ClickPumped, toggle
  <2>2. CASE UNCHANGED <<box, rowOn, drifted>>
    BY <1>3, <1>12, <2>2 DEF ClickPumped, toggle, popup
  <2> QED BY <1>12, <2>1, <2>2 DEF ClickPumped
<1>13. CASE RequestPumped
  BY <1>3, <1>13 DEF RequestPumped
<1>14. CASE PollPumped
  <2>1. CASE Finish(Top.kind, {})
    BY <1>4, <1>5, <1>14, <2>1 DEF PollPumped
  <2>2. CASE Return /\ UNCHANGED <<toggling, target>>
    BY <1>3, <1>14, <2>2 DEF PollPumped
  <2> QED BY <1>14, <2>1, <2>2 DEF PollPumped
<1>15. CheckSwitches(Top.toCheck) =>
          \/ Return /\ UNCHANGED <<toggling, target>>
          \/ Finishing' /\ UNCHANGED target /\ (toggling'[k] => toggling[k])
  <2>1. CheckSwitches(Top.toCheck) =>
          (Return /\ UNCHANGED toggle) \/ \E j, S : Finish(j, S)
    BY Zenon DEF CheckSwitches
  <2> QED BY <1>5, <2>1 DEF toggle
<1>16. CASE ChangedPumped
  BY <1>3, <1>4, <1>15, <1>16 DEF ChangedPumped
<1>17. CASE FinishPumped
  BY <1>6, <1>15, <1>17 DEF FinishPumped
<1>18. CASE ClientChanged \/ OpenDialog
  BY <1>3, <1>18 DEF ClientChanged, OpenDialog, toggle
<1>19. CASE CloseDialog
  BY <1>3, <1>19 DEF CloseDialog, toggle, Loop, Frame
<1>20. CASE UNCHANGED vars
  BY <1>3, <1>20 DEF vars, toggle
<1> QED BY <1>7, <1>8, <1>9, <1>10, <1>11, <1>12, <1>13, <1>14, <1>16, <1>17, <1>18,
           <1>19, <1>20 DEF Next, UserActs, Continue

\* Back in the main event loop a networking or Wi-Fi row that can be clicked shows
\* its switch (unless it moved outside a toggle), however the handlers have nested:
\* every toggle that ends refreshes the rows after its last pump.
THEOREM RowsAreTruthful == Spec => []RowsTruthful
<1>1. Init => RowsTrue
  BY DEF Init, RowsTrue, RowTrue
<1>2. StackOK /\ RowsTrue => RowsTruthful
  <2> SUFFICES ASSUME StackOK, RowsTrue, Len(stack) = 1, Top = Loop, quickOpen,
                      NEW k \in Kinds \ ({"wired"} \cup drifted), rowOn[k], ~toggling[k]
               PROVE  box[k] = on[k]
    BY DEF RowsTruthful
  <2>1. ~Finishing
    BY DEF Finishing, Top, Loop, Frame
  <2> QED BY <2>1 DEF RowsTrue, RowTrue
<1> QED BY <1>1, <1>2, TypeCorrect, RowsStep, PTL DEF Spec, TypeOK

-----------------------------------------------------------------------------
(* One request at a time.                                                  *)

\* Each switch takes steps of SwitchRequest only: a running request is neither
\* repeated nor turned round, whichever handlers overlap.
THEOREM OneRequestAtATime ==
  ASSUME NEW k \in Kinds
  PROVE  Spec => [][ \/ ~toggling[k] /\ toggling[k]'
                     \/ toggling[k] /\ ~toggling[k]' /\ UNCHANGED target[k]
                   ]_<<toggling[k], target[k]>>
<1>1. TypeOK /\ [Next]_vars =>
        \/ ~toggling[k] /\ toggling[k]'
        \/ toggling[k] /\ ~toggling[k]' /\ UNCHANGED target[k]
        \/ UNCHANGED <<toggling[k], target[k]>>
  <2> SUFFICES ASSUME SwitchesOK, PendingOK, [Next]_vars
               PROVE  \/ ~toggling[k] /\ toggling'[k]
                      \/ toggling[k] /\ ~toggling'[k] /\ target'[k] = target[k]
                      \/ toggling'[k] = toggling[k] /\ target'[k] = target[k]
    BY DEF TypeOK
  <2>1. CASE UNCHANGED <<toggling, target>>
    BY <2>1
  <2>2. CASE ExecutePending
    <3> DEFINE j == Head(pending)
    <3>1. CASE Blocked(j)
      BY <2>1, <2>2, <3>1 DEF ExecutePending, toggle
    <3>2. CASE ~Blocked(j)
      <4>1. ~toggling[j] /\ toggling' = [toggling EXCEPT ![j] = TRUE]
        BY <2>2, <3>2 DEF ExecutePending, Blocked
      <4>2. \E enable : target' = [target EXCEPT ![j] = enable]
        BY <2>2, <3>2, Zenon DEF ExecutePending
      <4> QED BY <4>1, <4>2 DEF SwitchesOK
    <3> QED BY <3>1, <3>2
  <2>3. ASSUME NEW j, NEW S, Finish(j, S)
        PROVE  \/ toggling[k] /\ ~toggling'[k] /\ target'[k] = target[k]
               \/ toggling'[k] = toggling[k] /\ target'[k] = target[k]
    BY <2>3 DEF Finish, SwitchesOK
  <2>4. CASE PollPumped
    <3>1. Finish(Top.kind, {}) \/ UNCHANGED <<toggling, target>>
      BY <2>4 DEF PollPumped
    <3> QED BY <2>3, <3>1
  <2>5. CASE ChangedPumped \/ FinishPumped
    <3>1. CheckSwitches(Top.toCheck)
      BY <2>5 DEF ChangedPumped, FinishPumped
    <3>2. UNCHANGED toggle \/ \E j, S : Finish(j, S)
      BY <3>1, Zenon DEF CheckSwitches
    <3> QED BY <2>1, <2>3, <3>2 DEF toggle
  <2>6. CASE UserActs \/ ClickPumped \/ RequestPumped
    BY <2>1, <2>6 DEF UserActs, ShowQuickMenu, HideQuickMenu, Click, ClickPumped,
       RequestPumped, toggle
  <2>7. CASE \/ \E j \in Kinds : Poll(j) \/ SwitchMoves(j)
             \/ ClientChanged \/ OpenDialog \/ CloseDialog
    BY <2>1, <2>7 DEF Poll, SwitchMoves, ClientChanged, OpenDialog, CloseDialog, toggle
  <2>8. CASE UNCHANGED vars
    BY <2>1, <2>8 DEF vars, toggle
  <2> QED BY <2>2, <2>4, <2>5, <2>6, <2>7, <2>8 DEF Next, Continue
<1> QED BY <1>1, TypeCorrect, PTL DEF Spec
=============================================================================
