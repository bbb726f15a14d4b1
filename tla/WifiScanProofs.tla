--------------------------- MODULE WifiScanProofs ---------------------------
(***************************************************************************)
(* Type correctness of the scan session; the watch invariant: in the main  *)
(* event loop an active session always has its poll timer running; and the *)
(* bound on RequestScan calls.  They hold for every poll limit and retry   *)
(* period and for any depth of nested dialogs.                             *)
(***************************************************************************)
EXTENDS WifiScan, Integers, TLAPS

\* Handlers that will start the poll timer, or end the session, when they get
\* on: while one of them is interrupted the session needs no timer.
Owing == {"bgRequest", "userRequest", "finish"}

\* SessionWatched says nothing of the states in which a handler is running,
\* so it is not inductive.  Watched covers them.
Watched ==
    sessionActive =>
        \/ timerOn
        \/ pc \in Owing
        \/ \E i \in 1..Len(stack) : stack[i] \in Owing

-----------------------------------------------------------------------------
(* One lemma per group of variables: the flags, the counters, the control. *)

\* No step gives a switch, a session flag or the timer a value that is not Boolean.
LEMMA FlagsStep == FlagsOK /\ [Next]_vars => FlagsOK'
  BY DEF FlagsOK, Next, UserActs, Continue, Environment, StartupScan,
         ScanOnMenuOpen, BackgroundRequestDone, RequestWifiScanDone,
         HiddenWifiPumped, ActivationDone, PollPumped, RetryPumped,
         FinishPumped, ShowMainMenu, ShowQuickMenu, RequestWifiScan,
         ConnectWifi, ConnectHiddenWifi, WifiScanPoll, ScanReported, NmChanges,
         WifiDeviceChanges, Elapse, OpenDialog, CloseDialog, PollVerdict,
         StartSession, FinishSession, FinishSessionIfActive,
         StartScanPollingIfNeeded, RestartPolling,
         vars, session, timer, nm, control

\* Every step that ends the session clears the mark that the user asked for it.
LEMMA ResetStep == ResetOK /\ [Next]_vars => ResetOK'
  BY DEF ResetOK, Next, UserActs, Continue, Environment, StartupScan,
         ScanOnMenuOpen, BackgroundRequestDone, RequestWifiScanDone,
         HiddenWifiPumped, ActivationDone, PollPumped, RetryPumped,
         FinishPumped, ShowMainMenu, ShowQuickMenu, RequestWifiScan,
         ConnectWifi, ConnectHiddenWifi, WifiScanPoll, ScanReported, NmChanges,
         WifiDeviceChanges, Elapse, OpenDialog, CloseDialog, PollVerdict,
         StartSession, FinishSession, FinishSessionIfActive,
         StartScanPollingIfNeeded, RestartPolling,
         vars, session, timer, nm, control

\* The age of the session never exceeds MaxWait; the other counters stay natural.
LEMMA CountersStep == CountersOK /\ [Next]_vars => CountersOK'
<1> SUFFICES ASSUME CountersOK, [Next]_vars PROVE CountersOK'
  OBVIOUS
<1> USE ScanAssumption DEF ScanAssumption, CountersOK
<1>1. CASE ShowMainMenu
  BY <1>1 DEF ShowMainMenu, session, timer, nm
<1>2. CASE ShowQuickMenu
  BY <1>2 DEF ShowQuickMenu, StartScanPollingIfNeeded, session, timer, nm
<1>3. CASE RequestWifiScan
  <2>1. CASE wifiDev
    BY <1>3, <2>1 DEF RequestWifiScan, StartSession, timer, nm
  <2>2. CASE ~wifiDev
    BY <1>3, <2>2 DEF RequestWifiScan, StartSession, RestartPolling, nm
  <2> QED BY <2>1, <2>2
<1>4. CASE ConnectWifi
  BY <1>4 DEF ConnectWifi, FinishSessionIfActive, FinishSession, session,
     timer, nm
<1>5. CASE ConnectHiddenWifi
  BY <1>5 DEF ConnectHiddenWifi, session, timer, nm
<1>6. CASE WifiScanPoll
  BY <1>6 DEF WifiScanPoll, timer, nm
<1>7. CASE StartupScan
  BY <1>7 DEF StartupScan, StartSession, StartScanPollingIfNeeded, session,
     timer, nm
<1>8. CASE ScanOnMenuOpen
  BY <1>8 DEF ScanOnMenuOpen, StartSession, StartScanPollingIfNeeded,
     session, timer, nm
<1>9. CASE BackgroundRequestDone
  BY <1>9 DEF BackgroundRequestDone, StartScanPollingIfNeeded, session,
     timer, nm
<1>10. CASE RequestWifiScanDone
  BY <1>10 DEF RequestWifiScanDone, RestartPolling, session, nm
<1>11. CASE HiddenWifiPumped
  BY <1>11 DEF HiddenWifiPumped, FinishSessionIfActive, FinishSession,
     session, timer, nm
<1>12. CASE ActivationDone
  BY <1>12 DEF ActivationDone, session, timer, nm
<1>13. CASE PollPumped
  BY <1>13 DEF PollPumped, PollVerdict, session, nm
<1>14. CASE RetryPumped
  BY <1>14 DEF RetryPumped, PollVerdict, session, nm
<1>15. CASE FinishPumped
  BY <1>15 DEF FinishPumped, FinishSession, timer, nm
<1>16. CASE Environment
  <2>1. CASE WifiDeviceChanges
    BY <1>16, <2>1 DEF WifiDeviceChanges, timer
  <2>2. CASE ScanReported \/ NmChanges \/ Elapse
    BY <1>16, <2>2 DEF ScanReported, NmChanges, Elapse, session, timer
  <2> QED BY <1>16, <2>1, <2>2 DEF Environment
<1>17. CASE OpenDialog
  BY <1>17 DEF OpenDialog, session, timer, nm
<1>18. CASE CloseDialog
  BY <1>18 DEF CloseDialog, session, timer, nm
<1>19. CASE UNCHANGED vars
  BY <1>19 DEF vars, session, timer, nm, control
<1> QED BY <1>1, <1>2, <1>3, <1>4, <1>5, <1>6, <1>7, <1>8, <1>9, <1>10,
       <1>11, <1>12, <1>13, <1>14, <1>15, <1>16, <1>17, <1>18, <1>19 DEF
       Next, UserActs, Continue

\* Every place a handler can stand or be interrupted at is a pump or a loop.
LEMMA ControlStep == ControlOK /\ [Next]_vars => ControlOK'
<1> SUFFICES ASSUME ControlOK, [Next]_vars PROVE ControlOK'
  OBVIOUS
<1> USE DEF ControlOK, PumpPoint, Enter, Goto, Leave
<1>1. CASE ShowMainMenu
  BY <1>1 DEF ShowMainMenu
<1>2. CASE ShowQuickMenu
  BY <1>2 DEF ShowQuickMenu
<1>3. CASE RequestWifiScan
  BY <1>3 DEF RequestWifiScan
<1>4. CASE ConnectWifi
  BY <1>4 DEF ConnectWifi
<1>5. CASE ConnectHiddenWifi
  BY <1>5 DEF ConnectHiddenWifi
<1>6. CASE WifiScanPoll
  BY <1>6 DEF WifiScanPoll
<1>7. CASE StartupScan
  BY <1>7 DEF StartupScan
<1>8. CASE ScanOnMenuOpen
  BY <1>8 DEF ScanOnMenuOpen
<1>9. CASE BackgroundRequestDone
  BY <1>9 DEF BackgroundRequestDone
<1>10. CASE RequestWifiScanDone
  BY <1>10 DEF RequestWifiScanDone
<1>11. CASE HiddenWifiPumped
  BY <1>11 DEF HiddenWifiPumped
<1>12. CASE ActivationDone
  BY <1>12 DEF ActivationDone
<1>13. CASE PollPumped
  BY <1>13 DEF PollPumped, PollVerdict
<1>14. CASE RetryPumped
  BY <1>14 DEF RetryPumped, PollVerdict
<1>15. CASE FinishPumped
  BY <1>15 DEF FinishPumped
<1>16. CASE Environment
  BY <1>16 DEF Environment, ScanReported, NmChanges, WifiDeviceChanges,
     Elapse, control
<1>17. CASE OpenDialog
  BY <1>17 DEF OpenDialog
<1>18. CASE CloseDialog
  BY <1>18 DEF CloseDialog
<1>19. CASE UNCHANGED vars
  BY <1>19 DEF vars, session, timer, nm, control
<1> QED BY <1>1, <1>2, <1>3, <1>4, <1>5, <1>6, <1>7, <1>8, <1>9, <1>10,
       <1>11, <1>12, <1>13, <1>14, <1>15, <1>16, <1>17, <1>18, <1>19 DEF
       Next, UserActs, Continue

\* Every variable keeps its type.
THEOREM TypeCorrect == Spec => []TypeOK
<1>1. Init => FlagsOK
  BY DEF Init, FlagsOK
<1>2. Init => CountersOK
  BY ScanAssumption DEF ScanAssumption, Init, CountersOK
<1>3. Init => ControlOK
  BY DEF Init, ControlOK, PumpPoint
<1>4. Init => TypeOK
  BY <1>1, <1>2, <1>3 DEF TypeOK, ResetOK, Init
<1>5. TypeOK /\ [Next]_vars => TypeOK'
  BY FlagsStep, ResetStep, CountersStep, ControlStep DEF TypeOK
<1> QED BY <1>4, <1>5, PTL DEF Spec

-----------------------------------------------------------------------------
(* The watch invariant.                                                    *)

\* A step that stops the timer ends the session or leaves a handler that will;
\* a step that starts a session leaves a handler that starts the timer.
LEMMA WatchedStep == TypeOK /\ Watched /\ [Next]_vars => Watched'
<1> SUFFICES ASSUME FlagsOK, ControlOK, Watched, [Next]_vars PROVE Watched'
  BY DEF TypeOK
<1> USE DEF FlagsOK, ControlOK, PumpPoint, Watched, Owing, Enter, Goto, Leave
<1>1. CASE ShowMainMenu
  BY <1>1 DEF ShowMainMenu, session, timer, nm
<1>2. CASE ShowQuickMenu
  BY <1>2 DEF ShowQuickMenu, StartScanPollingIfNeeded, session, timer, nm
<1>3. CASE RequestWifiScan
  BY <1>3 DEF RequestWifiScan, StartSession, RestartPolling, timer, nm
<1>4. CASE ConnectWifi
  BY <1>4 DEF ConnectWifi, FinishSessionIfActive, FinishSession, session,
     timer, nm
<1>5. CASE ConnectHiddenWifi
  BY <1>5 DEF ConnectHiddenWifi, session, timer, nm
<1>6. CASE WifiScanPoll
  BY <1>6 DEF WifiScanPoll, timer, nm
<1>7. CASE StartupScan
  BY <1>7 DEF StartupScan, StartSession, StartScanPollingIfNeeded, session,
     timer, nm
<1>8. CASE ScanOnMenuOpen
  BY <1>8 DEF ScanOnMenuOpen, StartSession, StartScanPollingIfNeeded,
     session, timer, nm
<1>9. CASE BackgroundRequestDone
  BY <1>9 DEF BackgroundRequestDone, StartScanPollingIfNeeded, session,
     timer, nm
<1>10. CASE RequestWifiScanDone
  BY <1>10 DEF RequestWifiScanDone, RestartPolling, session, nm
<1>11. CASE HiddenWifiPumped
  <2>1. CASE FinishSession
    BY <1>11, <2>1 DEF HiddenWifiPumped, FinishSessionIfActive, FinishSession,
       session, timer
  <2>2. CASE ~FinishSession
    BY <1>11, <2>2 DEF HiddenWifiPumped, FinishSessionIfActive, session, timer
  <2> QED BY <2>1, <2>2
<1>12. CASE ActivationDone
  BY <1>12 DEF ActivationDone, session, timer, nm
<1>13. CASE PollPumped
  BY <1>13 DEF PollPumped, PollVerdict, session, nm
<1>14. CASE RetryPumped
  BY <1>14 DEF RetryPumped, PollVerdict, session, nm
<1>15. CASE FinishPumped
  BY <1>15 DEF FinishPumped, FinishSession, timer, nm
<1>16. CASE Environment
  BY <1>16 DEF Environment, ScanReported, NmChanges, WifiDeviceChanges,
     Elapse, session, timer, nm, control
<1>17. CASE OpenDialog
  BY <1>17 DEF OpenDialog, session, timer, nm
<1>18. CASE CloseDialog
  BY <1>18 DEF CloseDialog, session, timer, nm
<1>19. CASE UNCHANGED vars
  BY <1>19 DEF vars, session, timer, nm, control
<1> QED BY <1>1, <1>2, <1>3, <1>4, <1>5, <1>6, <1>7, <1>8, <1>9, <1>10,
       <1>11, <1>12, <1>13, <1>14, <1>15, <1>16, <1>17, <1>18, <1>19 DEF
       Next, UserActs, Continue

\* In the main event loop an active scan session has its poll timer running:
\* no handler of TrayController leaves a session behind that nobody ends.
THEOREM SessionIsWatched == Spec => []SessionWatched
<1>1. Init => Watched
  BY DEF Init, Watched
<1>2. ControlOK /\ Watched => SessionWatched
  BY DEF ControlOK, Watched, SessionWatched, Owing
<1> QED BY <1>1, <1>2, TypeCorrect, WatchedStep, PTL DEF Spec, TypeOK

-----------------------------------------------------------------------------
(* How often RequestScan is sent.                                          *)
(*                                                                         *)
(* RetryEvery * requests is paid out of a budget: a poll costs 1, a retry  *)
(* costs RetryEvery, and every handler that is interrupted owes what it    *)
(* will cost when it gets on.  The one that ends the session owes less     *)
(* than nothing: with it goes what it has not used.                        *)

Unit == RetryEvery + 1

\* What a handler at p will cost; w is the age of the session.
Weight(p, w) ==
  CASE p = "poll" -> IF w < MaxWait THEN 1 ELSE 0
    [] p = "retry" -> IF w < MaxWait THEN 0 ELSE -1
    [] p = "userRequest" -> RetryEvery
    [] p = "finish" -> -Unit
    [] OTHER -> 0

\* What the count of polls will cost: the polls since the last retry, or the retry of
\* the first poll.
CountCosts(on, c) == IF on /\ c # 0 THEN c % RetryEvery ELSE RetryEvery

\* The handler that runs.  One that restarts the count, and that no dialog can interrupt
\* any more, costs no more than a count that starts.
Here ==
  IF pc = "userRequest" /\ Len(stack) = MaxDialogs
  THEN RetryEvery - CountCosts(timerOn, pollCount)
  ELSE Weight(pc, waited)

\* b[k] is what the k handlers at the bottom of the stack s cost together.
Owes(b, s, w) ==
  /\ b \in [Nat -> Int]
  /\ b[0] = 0
  /\ \A k \in 1..Len(s) : b[k] >= b[k - 1] + Weight(s[Len(s) + 1 - k], w)
  /\ \A k \in 0..Len(s) : b[k] >= -(k * Unit)

Budget == 2 * RetryEvery + MaxWait + MaxDialogs * Unit

\* What the session has cost and will cost, but for the handlers on the stack.
Value ==
  RetryEvery * requests + CountCosts(timerOn, pollCount) + (MaxWait - waited) + Here

Paid(b) == sessionActive => Value + b[Len(stack)] <= Budget

Accounted == \E b : Owes(b, stack, waited) /\ Paid(b)

\* A poll that is interrupted finds its timer running, or no session, when it gets on.
Resumes ==
  sessionActive /\ ~timerOn =>
    \/ pc \in Owing
    \/ /\ pc \notin {"poll", "retry"}
       /\ \E i \in 1..Len(stack) :
             stack[i] \in Owing /\ \A j \in 1..(i - 1) : stack[j] \notin {"poll", "retry"}

\* What no retry can exceed, whatever the handlers on the stack have given back: at most
\* Unit for each.
Within == RetryEvery * requests <= 2 * RetryEvery + MaxWait + 1 + 2 * (MaxDialogs * Unit)

\* Dialogs are bounded.
Limited == Len(stack) <= MaxDialogs

\* One more poll, modulo the retry period.
LEMMA CountMod ==
  ASSUME NEW c \in Nat, NEW r \in Nat \ {0}
  PROVE  /\ c % r \in 0..(r - 1)
         /\ (c + 1) % r = IF c % r = r - 1 THEN 0 ELSE (c % r) + 1
<1> DEFINE q == c \div r
           m == c % r
           p == (c + 1) \div r
           n == (c + 1) % r
<1>1. q \in Nat /\ m \in 0..(r - 1) /\ c = r * q + m
  OBVIOUS
<1>2. p \in Nat /\ n \in 0..(r - 1) /\ c + 1 = r * p + n
  OBVIOUS
<1> HIDE DEF q, m, p, n
<1>3. CASE p = q
  BY <1>1, <1>2, <1>3
<1>4. CASE p = q + 1
  <2>1. r * p = r * q + r
    BY <1>1, <1>4
  <2> QED BY <1>1, <1>2, <2>1
<1>5. CASE p < q
  <2>1. PICK d \in Nat : q = p + 1 + d
    <3>1. q - p - 1 \in Nat /\ q = p + 1 + (q - p - 1)
      BY <1>1, <1>2, <1>5
    <3> QED BY <3>1
  <2>2. r * q = r * p + r + r * d /\ r * d \in Nat /\ r * p \in Nat
    BY <1>2, <2>1
  <2> QED BY <1>1, <1>2, <2>2
<1>6. CASE p > q + 1
  <2>1. PICK d \in Nat : p = q + 2 + d
    <3>1. p - q - 2 \in Nat /\ p = q + 2 + (p - q - 2)
      BY <1>1, <1>2, <1>6
    <3> QED BY <3>1
  <2>2. r * p = r * q + r + r + r * d /\ r * d \in Nat /\ r * q \in Nat
    BY <1>1, <2>1
  <2> QED BY <1>1, <1>2, <2>2
<1>7. c % r = m /\ (c + 1) % r = n
  BY DEF m, n
<1> QED BY <1>1, <1>2, <1>3, <1>4, <1>5, <1>6, <1>7

\* What a restarted count costs, and one poll more.
LEMMA CountPays ==
  ASSUME NEW on \in BOOLEAN, NEW c \in Nat
  PROVE  /\ CountCosts(on, c) \in 0..RetryEvery
         /\ CountCosts(on, 0) = RetryEvery
         /\ CountCosts(FALSE, c) = RetryEvery
         /\ CountCosts(on, c + 1) <= CountCosts(on, c) + 1
         /\ on /\ (c + 1 = 1 \/ (c + 1) % RetryEvery = 0) =>
              CountCosts(on, c + 1) + RetryEvery <= CountCosts(on, c) + 1
<1>1. RetryEvery \in Nat \ {0}
  BY ScanAssumption DEF ScanAssumption
<1>2. /\ c % RetryEvery \in 0..(RetryEvery - 1)
      /\ (c + 1) % RetryEvery = IF c % RetryEvery = RetryEvery - 1 THEN 0 ELSE (c % RetryEvery) + 1
  BY <1>1, CountMod
<1>3. 0 % RetryEvery = 0
  BY <1>1
<1>4. c + 1 # 0 /\ (c = 0 <=> c + 1 = 1)
  OBVIOUS
<1>5. CASE ~on
  BY <1>1, <1>5 DEF CountCosts
<1>6. CASE on /\ c = 0
  BY <1>1, <1>2, <1>3, <1>4, <1>6 DEF CountCosts
<1>7. CASE on /\ c # 0
  BY <1>1, <1>2, <1>4, <1>7 DEF CountCosts
<1> QED BY <1>1, <1>5, <1>6, <1>7 DEF CountCosts

\* No handler gives back more than Unit or costs more than RetryEvery, at any age; none
\* gets dearer with age.
LEMMA WeightBounds ==
  ASSUME NEW p, NEW w \in Nat
  PROVE  /\ Weight(p, w) \in Int
         /\ -Unit <= Weight(p, w) /\ Weight(p, w) <= RetryEvery
         /\ \A v \in Nat : w <= v => Weight(p, v) <= Weight(p, w)
<1>1. RetryEvery \in Nat \ {0} /\ MaxWait \in Nat
  BY ScanAssumption DEF ScanAssumption
<1>2. CASE p \in {"poll", "retry"}
  BY <1>1, <1>2 DEF Weight, Unit
<1>3. CASE p \notin {"poll", "retry"}
  BY <1>1, <1>3 DEF Weight, Unit
<1> QED BY <1>2, <1>3

\* Whatever is on the stack, it costs no more than RetryEvery each.
LEMMA OwesAtMost ==
  ASSUME NEW S, NEW s \in Seq(S), NEW w \in Nat
  PROVE  \E b : Owes(b, s, w) /\ b[Len(s)] = Len(s) * RetryEvery
<1> DEFINE b == [k \in Nat |-> k * RetryEvery]
<1>1. RetryEvery \in Nat \ {0} /\ Len(s) \in Nat
  BY ScanAssumption DEF ScanAssumption
<1>2. b \in [Nat -> Int] /\ b[0] = 0 /\ b[Len(s)] = Len(s) * RetryEvery
  BY <1>1
<1>3. ASSUME NEW k \in 1..Len(s) PROVE b[k] >= b[k - 1] + Weight(s[Len(s) + 1 - k], w)
  <2>1. k \in Nat /\ k - 1 \in Nat
    BY <1>1
  <2>2. b[k] = b[k - 1] + RetryEvery
    <3>1. k * RetryEvery = (k - 1) * RetryEvery + RetryEvery
      BY <1>1, <2>1
    <3> QED BY <2>1, <3>1
  <2>3. b[k - 1] \in Int
    BY <1>2, <2>1
  <2> HIDE DEF b
  <2> QED BY <1>1, <2>2, <2>3, WeightBounds
<1>4. ASSUME NEW k \in 0..Len(s) PROVE b[k] >= -(k * Unit)
  <2>1. k \in Nat /\ Unit \in Nat
    BY <1>1 DEF Unit
  <2>2. k * RetryEvery \in Nat /\ k * Unit \in Nat
    BY <1>1, <2>1
  <2>3. b[k] = k * RetryEvery
    BY <2>1
  <2> HIDE DEF b
  <2> QED BY <2>2, <2>3
<1> HIDE DEF b
<1> QED BY <1>2, <1>3, <1>4 DEF Owes

\* Nothing gets dearer as the session ages.
LEMMA OwesLess ==
  ASSUME NEW S, NEW s \in Seq(S), NEW w \in Nat, NEW v \in Nat, w <= v, NEW b, Owes(b, s, w)
  PROVE  Owes(b, s, v)
<1> SUFFICES ASSUME NEW k \in 1..Len(s) PROVE b[k] >= b[k - 1] + Weight(s[Len(s) + 1 - k], v)
  BY DEF Owes
<1> DEFINE p == s[Len(s) + 1 - k]
<1>1. b[k] >= b[k - 1] + Weight(p, w)
  BY DEF Owes
<1>2. k \in Nat /\ k - 1 \in Nat
  OBVIOUS
<1>3. b[k] \in Int /\ b[k - 1] \in Int
  BY <1>2 DEF Owes
<1> HIDE DEF p
<1>4. Weight(p, v) <= Weight(p, w) /\ Weight(p, v) \in Int /\ Weight(p, w) \in Int
  BY WeightBounds
<1>5. b[k] >= b[k - 1] + Weight(p, v)
  BY <1>1, <1>3, <1>4
<1> QED BY <1>5 DEF p

\* A dialog puts the handler on the stack, with what it costs.
LEMMA OwesPushed ==
  ASSUME NEW S, NEW s \in Seq(S), NEW p \in S, NEW w \in Nat, NEW b, Owes(b, s, w)
  PROVE  \E d : /\ Owes(d, <<p>> \o s, w)
                /\ d[Len(<<p>> \o s)] = b[Len(s)] + Weight(p, w)
<1> DEFINE n == Len(s)
           t == <<p>> \o s
           d == [b EXCEPT ![n + 1] = b[n] + Weight(p, w)]
<1>1. n \in Nat /\ Len(t) = n + 1 /\ t[1] = p /\ \A i \in 1..n : t[i + 1] = s[i]
  OBVIOUS
<1>2. b \in [Nat -> Int] /\ b[0] = 0 /\ b[n] \in Int
  BY <1>1 DEF Owes
<1>3. Weight(p, w) \in Int /\ -Unit <= Weight(p, w)
  BY WeightBounds
<1>4. d \in [Nat -> Int] /\ d[n + 1] = b[n] + Weight(p, w) /\ \A k \in 0..n : d[k] = b[k]
  BY <1>1, <1>2, <1>3
<1> HIDE DEF d, t
<1>5. ASSUME NEW k \in 1..(n + 1) PROVE d[k] >= d[k - 1] + Weight(t[n + 1 + 1 - k], w)
  <2>1. CASE k = n + 1
    <3>1. n + 1 + 1 - k = 1 /\ k - 1 = n /\ n \in 0..n
      BY <1>1, <2>1
    <3>2. d[k] = b[n] + Weight(p, w) /\ d[k - 1] = b[n]
      BY <1>4, <2>1, <3>1
    <3> QED BY <1>1, <1>2, <1>3, <3>1, <3>2
  <2>2. CASE k # n + 1
    <3>1. k \in 1..n /\ k \in 0..n /\ k - 1 \in 0..n /\ n + 1 - k \in 1..n
      BY <1>1, <2>2
    <3>2. n + 1 + 1 - k = (n + 1 - k) + 1
      BY <1>1, <3>1
    <3>3. t[n + 1 + 1 - k] = s[n + 1 - k]
      BY <1>1, <3>1, <3>2
    <3>4. b[k] >= b[k - 1] + Weight(s[n + 1 - k], w)
      BY <3>1 DEF Owes
    <3> QED BY <1>4, <3>1, <3>3, <3>4
  <2> QED BY <2>1, <2>2
<1>6. ASSUME NEW k \in 0..(n + 1) PROVE d[k] >= -(k * Unit)
  <2>1. CASE k = n + 1
    <3>1. b[n] >= -(n * Unit)
      BY <1>1 DEF Owes
    <3>2. Unit \in Nat
      BY ScanAssumption DEF ScanAssumption, Unit
    <3>3. (n + 1) * Unit = n * Unit + Unit /\ n * Unit \in Nat
      BY <1>1, <3>2
    <3> QED BY <1>2, <1>3, <1>4, <2>1, <3>1, <3>2, <3>3
  <2>2. CASE k # n + 1
    <3>1. k \in 0..n
      BY <1>1, <2>2
    <3>2. b[k] >= -(k * Unit)
      BY <3>1 DEF Owes
    <3> QED BY <1>4, <3>1, <3>2
  <2> QED BY <2>1, <2>2
<1>7. d[0] = 0
  <2>1. 0 \in 0..n
    BY <1>1
  <2> QED BY <1>2, <1>4, <2>1
<1>8. Owes(d, t, w)
  BY <1>1, <1>4, <1>5, <1>6, <1>7 DEF Owes
<1> QED BY <1>1, <1>4, <1>8 DEF t

\* The handler on top of the stack gets on.
LEMMA OwesPopped ==
  ASSUME NEW S, NEW s \in Seq(S), s # <<>>, NEW w \in Nat, NEW b, Owes(b, s, w)
  PROVE  /\ Owes(b, Tail(s), w)
         /\ Len(Tail(s)) = Len(s) - 1
         /\ b[Len(s)] >= b[Len(Tail(s))] + Weight(Head(s), w)
<1> DEFINE n == Len(s) - 1
           t == Tail(s)
<1>1. n \in Nat /\ Len(s) = n + 1 /\ Len(t) = n /\ \A i \in 1..n : t[i] = s[i + 1]
  OBVIOUS
<1>2. Head(s) = s[1]
  OBVIOUS
<1> HIDE DEF n, t
<1>3. ASSUME NEW k \in 1..n PROVE b[k] >= b[k - 1] + Weight(t[n + 1 - k], w)
  <2>1. k \in 1..(n + 1) /\ n + 1 - k \in 1..n /\ n + 1 + 1 - k = (n + 1 - k) + 1
    BY <1>1
  <2>2. b[k] >= b[k - 1] + Weight(s[n + 1 + 1 - k], w)
    BY <1>1, <2>1 DEF Owes
  <2>3. s[n + 1 + 1 - k] = t[n + 1 - k]
    BY <1>1, <2>1
  <2> QED BY <2>2, <2>3
<1>4. \A k \in 0..n : b[k] >= -(k * Unit)
  <2>1. \A k \in 0..n : k \in 0..(n + 1)
    BY <1>1
  <2> QED BY <1>1, <2>1 DEF Owes
<1>5. b[n + 1] >= b[n] + Weight(s[1], w)
  <2>1. n + 1 \in 1..(n + 1) /\ n + 1 + 1 - (n + 1) = 1 /\ n + 1 - 1 = n
    BY <1>1
  <2>2. b[n + 1] >= b[n + 1 - 1] + Weight(s[n + 1 + 1 - (n + 1)], w)
    BY <1>1, <2>1 DEF Owes
  <2> QED BY <2>1, <2>2
<1>6. Owes(b, t, w)
  BY <1>1, <1>3, <1>4 DEF Owes
<1> QED BY <1>1, <1>2, <1>5, <1>6 DEF t, n

Typed == FlagsOK /\ CountersOK /\ ControlOK /\ Limited

\* The terms of the account are numbers.
LEMMA ValueTyped ==
  ASSUME Typed
  PROVE  /\ CountCosts(timerOn, pollCount) \in 0..RetryEvery
         /\ Here \in Int /\ Value \in Int
<1>1. RetryEvery \in Nat \ {0} /\ MaxWait \in Nat
  BY ScanAssumption DEF ScanAssumption
<1>2. waited \in Nat /\ waited \in 0..MaxWait /\ requests \in Nat
  BY <1>1 DEF Typed, CountersOK
<1>3. CountCosts(timerOn, pollCount) \in 0..RetryEvery
  BY CountPays DEF Typed, FlagsOK, CountersOK
<1>4. Here \in Int
  BY <1>1, <1>2, <1>3, WeightBounds DEF Here
<1>5. RetryEvery * requests \in Nat
  BY <1>1, <1>2
<1> HIDE DEF Here
<1> QED BY <1>1, <1>2, <1>3, <1>4, <1>5 DEF Value

\* The same of the value, to be primed.
LEMMA ValueIsInt == Typed => Value \in Int
BY ValueTyped

\* A step that leaves the stack and costs no more than has been accounted for.
LEMMA AccountKept ==
  ASSUME Typed, Typed', Accounted, UNCHANGED stack, waited <= waited',
         sessionActive' => sessionActive /\ Value' <= Value
  PROVE  Accounted'
<1>1. PICK b : Owes(b, stack, waited) /\ Paid(b)
  BY DEF Accounted
<1>2. waited \in Nat /\ waited' \in Nat /\ stack \in Seq(PumpPoint \cup {"loop"})
  BY ScanAssumption DEF Typed, CountersOK, ControlOK, ScanAssumption
<1>3. Owes(b, stack', waited')
  BY <1>1, <1>2, OwesLess
<1>4. Paid(b)'
  <2>1. Value \in Int /\ Value' \in Int
    <3>1. Value \in Int
      BY ValueTyped
    <3>2. (Value \in Int)'
      BY ValueIsInt, PTL
    <3> QED BY <3>1, <3>2
  <2>2. b[Len(stack)] \in Int /\ Budget \in Int
    <3>1. Len(stack) \in Nat
      BY <1>2
    <3>2. Budget \in Int
      <4>1. RetryEvery \in Nat /\ MaxWait \in Nat /\ MaxDialogs \in Nat
        BY ScanAssumption DEF ScanAssumption
      <4> QED BY <4>1 DEF Budget, Unit
    <3> QED BY <1>1, <3>1, <3>2 DEF Owes
  <2> HIDE DEF Value
  <2> QED BY <1>1, <2>1, <2>2 DEF Paid
<1> QED BY <1>3, <1>4 DEF Accounted

\* A session that has just been stamped is within its budget: what the stack costs leaves
\* room for the request and for the first retry.
LEMMA AccountStarts ==
  ASSUME Typed, Typed', UNCHANGED stack, waited' = 0, requests' \in {0, 1},
         pc' \in {"loop", "bgRequest", "userRequest"}
  PROVE  Accounted' /\ Within'
<1> DEFINE r == RetryEvery
           n == Len(stack)
           cost == CountCosts(timerOn', pollCount')
<1>1. r \in Nat \ {0} /\ MaxWait \in Nat /\ MaxDialogs \in Nat
  BY ScanAssumption DEF ScanAssumption
<1>2. stack \in Seq(PumpPoint \cup {"loop"}) /\ n \in Nat /\ n <= MaxDialogs
  BY DEF Typed, ControlOK, Limited
<1>3. PICK b : Owes(b, stack', waited') /\ b[Len(stack')] = n * r
  <2>1. stack' = stack /\ waited' \in Nat
    OBVIOUS
  <2> QED BY <1>2, <2>1, OwesAtMost
<1>4. cost \in 0..r
  BY CountPays DEF Typed, FlagsOK, CountersOK
<1>5. n * r \in Nat /\ MaxDialogs * r \in Nat /\ n * r <= MaxDialogs * r
  <2>1. MaxDialogs - n \in Nat
    BY <1>1, <1>2
  <2>2. (MaxDialogs - n) * r \in Nat /\ n * r \in Nat /\ MaxDialogs * r \in Nat
    BY <1>1, <1>2, <2>1
  <2>3. MaxDialogs * r = n * r + (MaxDialogs - n) * r
    BY <1>1, <1>2
  <2> HIDE DEF n, r
  <2> QED BY <2>2, <2>3
<1>6. MaxDialogs * Unit = MaxDialogs * r + MaxDialogs
  BY <1>1 DEF Unit
<1>7. Budget = 2 * r + MaxWait + MaxDialogs * r + MaxDialogs
  <2>1. MaxDialogs * r \in Nat
    BY <1>5
  <2> HIDE DEF r
  <2> QED BY <1>1, <1>6, <2>1 DEF Budget, r
<1>8. r * requests' \in Nat /\ r * requests' <= r
  <2>1. r * 0 = 0 /\ r * 1 = r
    BY <1>1
  <2>2. CASE requests' = 0
    BY <1>1, <2>1, <2>2
  <2>3. CASE requests' = 1
    BY <1>1, <2>1, <2>3
  <2> QED BY <2>2, <2>3
<1>9. cost + Here' + n * r <= r + MaxDialogs * r
  <2>1. CASE pc' # "userRequest"
    <3>1. Here' = 0
      BY <2>1 DEF Here, Weight
    <3> HIDE DEF Here, cost, n, r
    <3> QED BY <1>1, <1>4, <1>5, <3>1
  <2>2. CASE pc' = "userRequest" /\ n = MaxDialogs
    <3>1. Here' = r - cost
      BY <2>2 DEF Here
    <3> HIDE DEF Here, cost, n, r
    <3> QED BY <1>1, <1>4, <1>5, <3>1
  <2>3. CASE pc' = "userRequest" /\ n # MaxDialogs
    <3>1. Here' = r
      BY <2>3 DEF Here, Weight
    <3>2. (n + 1) * r <= MaxDialogs * r /\ (n + 1) * r = n * r + r
      <4>1. MaxDialogs - (n + 1) \in Nat /\ n + 1 \in Nat
        BY <1>1, <1>2, <2>3
      <4>2. (MaxDialogs - (n + 1)) * r \in Nat /\ (n + 1) * r \in Nat
        BY <1>1, <4>1
      <4>3. MaxDialogs * r = (n + 1) * r + (MaxDialogs - (n + 1)) * r
        BY <1>1, <4>1
      <4>4. (n + 1) * r = n * r + r
        BY <1>1, <1>2
      <4> HIDE DEF n, r
      <4> QED BY <1>5, <4>2, <4>3, <4>4
    <3> HIDE DEF Here, cost, n, r
    <3> QED BY <1>1, <1>4, <1>5, <3>1, <3>2
  <2> QED BY <2>1, <2>2, <2>3
<1>10. Here' \in Int
  BY <1>1, <1>4, WeightBounds DEF Here
<1>11. Value' + b[Len(stack')] <= Budget
  <2>1. Value' = r * requests' + cost + MaxWait + Here'
    <3>1. MaxWait - 0 = MaxWait
      BY <1>1
    <3> HIDE DEF Here
    <3> QED BY <3>1 DEF Value
  <2>2. b[Len(stack')] = n * r
    BY <1>3
  <2> DEFINE x == r * requests'
             y == n * r
             z == MaxDialogs * r
             here == Here'
  <2>4. r \in Nat /\ cost \in Nat
    BY <1>1, <1>4
  <2> HIDE DEF r, cost, n, Here
  <2>3. /\ x \in Nat /\ x <= r /\ y \in Nat /\ z \in Nat /\ here \in Int
        /\ Value' = x + cost + MaxWait + here /\ b[Len(stack')] = y
        /\ Budget = 2 * r + MaxWait + z + MaxDialogs
        /\ cost + here + y <= r + z
    BY <1>5, <1>7, <1>8, <1>9, <1>10, <2>1, <2>2
  <2> HIDE DEF x, y, z, here
  <2> QED BY <1>1, <2>4, <2>3
<1>12. Accounted'
  <2>1. Paid(b)'
    BY <1>11 DEF Paid
  <2> QED BY <1>3, <2>1 DEF Accounted
<1>13. Within'
  <2>1. MaxDialogs * Unit \in Nat
    BY <1>1 DEF Unit
  <2> HIDE DEF r
  <2> QED BY <1>1, <1>8, <2>1 DEF Within, r
<1> QED BY <1>12, <1>13

\* No session, no account.
LEMMA AccountEnds ==
  ASSUME Typed', ~sessionActive', requests' = 0
  PROVE  Accounted' /\ Within'
<1>1. RetryEvery \in Nat \ {0} /\ MaxWait \in Nat /\ MaxDialogs \in Nat
  BY ScanAssumption DEF ScanAssumption
<1>2. stack' \in Seq(PumpPoint \cup {"loop"}) /\ waited' \in Nat
  BY <1>1 DEF Typed, ControlOK, CountersOK
<1>3. \E b : Owes(b, stack', waited')
  BY <1>2, OwesAtMost
<1>4. Accounted'
  BY <1>3 DEF Accounted, Paid
<1>5. RetryEvery * 0 = 0 /\ MaxDialogs * Unit \in Nat
  BY <1>1 DEF Unit
<1>6. Within'
  BY <1>1, <1>5 DEF Within
<1> QED BY <1>4, <1>6

\* A dialog over a handler that no longer fits the budget would not fit either.
LEMMA AccountOpens ==
  ASSUME Typed, Accounted, OpenDialog
  PROVE  Accounted'
<1>1. PICK b : Owes(b, stack, waited) /\ Paid(b)
  BY DEF Accounted
<1>2. /\ stack \in Seq(PumpPoint \cup {"loop"}) /\ pc \in PumpPoint \cup {"loop"}
      /\ waited \in Nat
  BY ScanAssumption DEF Typed, ControlOK, CountersOK, ScanAssumption
<1>3. /\ stack' = <<pc>> \o stack /\ pc' = "loop" /\ Len(stack) < MaxDialogs
      /\ UNCHANGED <<sessionActive, requests, waited, timerOn, pollCount>>
  BY DEF OpenDialog, session, timer
<1>4. PICK d : /\ Owes(d, stack', waited)
               /\ d[Len(stack')] = b[Len(stack)] + Weight(pc, waited)
  <2>1. \E d : /\ Owes(d, <<pc>> \o stack, waited)
               /\ d[Len(<<pc>> \o stack)] = b[Len(stack)] + Weight(pc, waited)
    BY <1>1, <1>2, OwesPushed
  <2> QED BY <1>3, <2>1
<1>5. Here = Weight(pc, waited) /\ Here' = 0
  <2>1. Len(stack) # MaxDialogs
    <3>1. Len(stack) \in Nat
      BY <1>2
    <3> QED BY <1>3, <3>1
  <2> QED BY <1>3, <2>1 DEF Here, Weight
<1>6. Value' = Value - Weight(pc, waited)
  <2> DEFINE v == RetryEvery * requests + CountCosts(timerOn, pollCount) + (MaxWait - waited)
  <2>1. Value = v + Weight(pc, waited) /\ Value' = v + 0
    <3> HIDE DEF Here
    <3> QED BY <1>3, <1>5 DEF Value
  <2>2. v \in Int
    <3>1. RetryEvery * requests \in Nat /\ MaxWait - waited \in Int
      BY <1>2, ScanAssumption DEF ScanAssumption, Typed, CountersOK
    <3>2. CountCosts(timerOn, pollCount) \in Int
      BY ValueTyped, ScanAssumption DEF ScanAssumption
    <3> QED BY <3>1, <3>2
  <2>3. Weight(pc, waited) \in Int
    BY <1>2, WeightBounds
  <2> HIDE DEF v
  <2> QED BY <2>1, <2>2, <2>3
<1>7. Paid(d)'
  <2>1. Value \in Int /\ Weight(pc, waited) \in Int
    BY <1>2, ValueTyped, WeightBounds
  <2>2. b[Len(stack)] \in Int
    <3>1. Len(stack) \in Nat
      BY <1>2
    <3> QED BY <1>1, <3>1 DEF Owes
  <2>3. Budget \in Int
    BY ScanAssumption DEF ScanAssumption, Budget, Unit
  <2> HIDE DEF Value
  <2> QED BY <1>1, <1>3, <1>4, <1>6, <2>1, <2>2, <2>3 DEF Paid
<1> QED BY <1>3, <1>4, <1>7 DEF Accounted

\* A handler that gets on costs what it owed.
LEMMA AccountCloses ==
  ASSUME Typed, Accounted, CloseDialog
  PROVE  Accounted'
<1>1. PICK b : Owes(b, stack, waited) /\ Paid(b)
  BY DEF Accounted
<1>2. stack \in Seq(PumpPoint \cup {"loop"}) /\ waited \in Nat /\ Len(stack) <= MaxDialogs
  BY ScanAssumption DEF Typed, ControlOK, CountersOK, Limited, ScanAssumption
<1>3. /\ stack # <<>> /\ stack' = Tail(stack) /\ pc' = Head(stack) /\ pc = "loop"
      /\ UNCHANGED <<sessionActive, requests, waited, timerOn, pollCount>>
  BY DEF CloseDialog, session, timer
<1> DEFINE w == Weight(Head(stack), waited)
<1>4. /\ Owes(b, stack', waited)
      /\ Len(stack') = Len(stack) - 1
      /\ b[Len(stack)] >= b[Len(stack')] + w
  BY <1>1, <1>2, <1>3, OwesPopped
<1>5. Here = 0 /\ Here' = w
  <2>1. Len(stack') # MaxDialogs
    <3>1. Len(stack) \in Nat /\ MaxDialogs \in Nat
      BY <1>2, ScanAssumption DEF ScanAssumption
    <3> QED BY <1>2, <1>4, <3>1
  <2> QED BY <1>3, <2>1 DEF Here, Weight
<1>6. w \in Int
  BY <1>2, WeightBounds
<1> HIDE DEF w
<1>7. Value' = Value + w /\ Value \in Int
  <2> DEFINE v == RetryEvery * requests + CountCosts(timerOn, pollCount) + (MaxWait - waited)
  <2>1. Value = v + 0 /\ Value' = v + w
    <3> HIDE DEF Here
    <3> QED BY <1>3, <1>5 DEF Value
  <2>2. v \in Int
    <3>1. RetryEvery * requests \in Nat /\ MaxWait - waited \in Int
      BY <1>2, ScanAssumption DEF ScanAssumption, Typed, CountersOK
    <3>2. CountCosts(timerOn, pollCount) \in Int
      BY ValueTyped, ScanAssumption DEF ScanAssumption
    <3> QED BY <3>1, <3>2
  <2> HIDE DEF v
  <2> QED BY <1>6, <2>1, <2>2
<1>8. Paid(b)'
  <2>1. b[Len(stack)] \in Int /\ b[Len(stack')] \in Int
    <3>1. Len(stack) \in Nat /\ Len(stack') \in Nat
      BY <1>2, <1>3
    <3> QED BY <1>1, <3>1 DEF Owes
  <2>2. Budget \in Int
    BY ScanAssumption DEF ScanAssumption, Budget, Unit
  <2> HIDE DEF Value
  <2> QED BY <1>1, <1>3, <1>4, <1>6, <1>7, <2>1, <2>2 DEF Paid
<1> QED BY <1>3, <1>4, <1>8 DEF Accounted

\* A step that sends nothing and takes no time, and whose handler and count cost no more.
LEMMA AccountMoves ==
  ASSUME Typed, Typed', Accounted, Within, UNCHANGED <<stack, waited, requests>>,
         sessionActive' => /\ sessionActive
                           /\ CountCosts(timerOn', pollCount') + Here'
                                <= CountCosts(timerOn, pollCount) + Here
  PROVE  Accounted' /\ Within'
<1> DEFINE x == RetryEvery * requests
           m == MaxWait - waited
           cost == CountCosts(timerOn, pollCount)
           costs == CountCosts(timerOn', pollCount')
           here == Here
           hence == Here'
<1>1. x \in Int /\ m \in Int
  BY ScanAssumption DEF ScanAssumption, Typed, CountersOK
<1>2. cost \in Int /\ here \in Int
  BY ValueTyped, ScanAssumption DEF ScanAssumption
<1>3. costs \in Int
  <2>1. timerOn' \in BOOLEAN /\ pollCount' \in Nat
    BY DEF Typed, FlagsOK, CountersOK
  <2>2. costs \in 0..RetryEvery
    BY <2>1, CountPays
  <2> HIDE DEF costs
  <2> QED BY <2>2, ScanAssumption DEF ScanAssumption
<1>4. hence \in Int
  <2>1. waited' \in Nat
    BY ScanAssumption DEF ScanAssumption, Typed, CountersOK
  <2> QED BY <1>3, <2>1, WeightBounds, ScanAssumption DEF ScanAssumption, Here
<1>5. Value = x + cost + m + here /\ Value' = x + costs + m + hence
  <2> HIDE DEF here, hence
  <2>1. here = Here /\ hence = Here'
    BY DEF here, hence
  <2> HIDE DEF Here
  <2> QED BY <2>1 DEF Value
<1> HIDE DEF x, m
<1>6. sessionActive' => sessionActive /\ Value' <= Value
  <2>1. sessionActive' => sessionActive /\ costs + hence <= cost + here
    OBVIOUS
  <2> HIDE DEF cost, costs, here, hence
  <2> QED BY <1>1, <1>2, <1>3, <1>4, <1>5, <2>1
<1>7. waited <= waited'
  BY ScanAssumption DEF ScanAssumption, Typed, CountersOK
<1>8. Accounted'
  BY <1>6, <1>7, AccountKept
<1> QED BY <1>8 DEF Within

\* A handler that starts the poll timer, if the session has none.
LEMMA AccountPolls ==
  ASSUME Typed, Typed', Accounted, Within, UNCHANGED <<stack, session>>,
         StartScanPollingIfNeeded, pc # "userRequest", Weight(pc, waited) = 0, pc' = "loop"
  PROVE  Accounted' /\ Within'
<1>1. UNCHANGED <<stack, waited, requests, sessionActive>>
  BY DEF session
<1>2. Here = 0 /\ Here' = 0
  BY DEF Here, Weight
<1>3. sessionActive => CountCosts(timerOn', pollCount') <= CountCosts(timerOn, pollCount)
  <2>1. CountCosts(timerOn, pollCount) \in Int /\ RetryEvery \in Int
    BY ValueTyped, ScanAssumption DEF ScanAssumption
  <2>2. CASE sessionActive /\ ~timerOn
    <3>1. timerOn' = TRUE /\ pollCount' = 0 /\ timerOn = FALSE
      BY <2>2 DEF StartScanPollingIfNeeded, Typed, FlagsOK
    <3>2. CountCosts(timerOn', pollCount') = RetryEvery
      BY <3>1 DEF CountCosts
    <3>3. CountCosts(timerOn, pollCount) = RetryEvery
      BY <3>1 DEF CountCosts
    <3> QED BY <2>1, <3>2, <3>3
  <2>3. CASE ~(sessionActive /\ ~timerOn)
    <3>1. UNCHANGED <<timerOn, pollCount>>
      BY <2>3 DEF StartScanPollingIfNeeded, timer
    <3> QED BY <2>1, <3>1
  <2> QED BY <2>2, <2>3
<1>4. CountCosts(timerOn, pollCount) \in Int /\ CountCosts(timerOn', pollCount') \in Int
  <2>1. CountCosts(timerOn', pollCount') \in 0..RetryEvery
    BY CountPays DEF Typed, FlagsOK, CountersOK
  <2> QED BY <2>1, ValueTyped, ScanAssumption DEF ScanAssumption
<1> HIDE DEF Here
<1>5. sessionActive' => /\ sessionActive
                        /\ CountCosts(timerOn', pollCount') + Here'
                             <= CountCosts(timerOn, pollCount) + Here
  BY <1>1, <1>2, <1>3, <1>4
<1> QED BY <1>1, <1>5, AccountMoves

\* The verdict of a poll that has cost what it costs: the timer stops under a handler that
\* ends the session, or the session goes on.
LEMMA AccountVerdict ==
  ASSUME Typed, Typed', Accounted, Within, UNCHANGED <<stack, session>>, pc \in {"poll", "retry"},
         NEW n \in Nat, PollVerdict(n),
         sessionActive /\ ~SessionComplete =>
           CountCosts(timerOn, n) <= CountCosts(timerOn, pollCount) + (IF pc = "poll" THEN 1 ELSE 0)
  PROVE  Accounted' /\ Within'
<1> DEFINE cost == CountCosts(timerOn, pollCount)
<1>1. UNCHANGED <<stack, waited, requests, sessionActive>> /\ pollCount' = n
  BY DEF session, PollVerdict
<1>2. cost \in 0..RetryEvery /\ RetryEvery \in Nat \ {0} /\ MaxWait \in Nat
  BY ValueTyped, ScanAssumption DEF ScanAssumption
<1>3. Here = Weight(pc, waited)
  BY DEF Here
<1>4. Weight(pc, waited) >= -1
  BY DEF Weight
<1>5. CASE ~sessionActive
  BY <1>1, <1>5, AccountMoves
<1>6. CASE sessionActive /\ timerOn' = FALSE /\ pc' = "finish"
  <2>1. CountCosts(timerOn', pollCount') = RetryEvery
    BY <1>6 DEF CountCosts
  <2>2. Here' = -Unit
    BY <1>6 DEF Here, Weight
  <2>3. CountCosts(timerOn', pollCount') + Here' <= cost + Here
    <3>1. Here \in Int
      BY ValueTyped
    <3>2. Here >= -1
      BY <1>3, <1>4
    <3> HIDE DEF Here, cost
    <3> QED BY <1>2, <2>1, <2>2, <3>1, <3>2 DEF Unit
  <2> QED BY <1>1, <1>6, <2>3, AccountMoves
<1>7. CASE sessionActive /\ ~SessionComplete /\ UNCHANGED timerOn /\ pc' = "loop"
  <2>1. waited < MaxWait
    BY <1>2, <1>7 DEF SessionComplete, Typed, CountersOK
  <2>2. Here = IF pc = "poll" THEN 1 ELSE 0
    BY <1>3, <2>1 DEF Weight
  <2>3. Here' = 0
    BY <1>7 DEF Here, Weight
  <2>4. CountCosts(timerOn', pollCount') <= cost + (IF pc = "poll" THEN 1 ELSE 0)
    BY <1>1, <1>7
  <2>5. CountCosts(timerOn', pollCount') \in 0..RetryEvery
    BY CountPays DEF Typed, FlagsOK, CountersOK
  <2>6. CountCosts(timerOn', pollCount') + Here' <= cost + Here
    <3> HIDE DEF Here, cost
    <3> QED BY <1>2, <2>2, <2>3, <2>4, <2>5
  <2> QED BY <1>1, <1>7, <2>6, AccountMoves
<1>8. \/ ~sessionActive
      \/ sessionActive /\ timerOn' = FALSE /\ pc' = "finish"
      \/ sessionActive /\ ~SessionComplete /\ UNCHANGED timerOn /\ pc' = "loop"
  BY DEF PollVerdict, Goto, Leave
<1> QED BY <1>5, <1>6, <1>7, <1>8

\* A retry is paid for by the count of polls, and the budget bounds it whatever handlers
\* have given back.
LEMMA AccountRetry ==
  ASSUME Typed, Typed', Accounted, UNCHANGED <<stack, sessionActive, waited, timerOn>>,
         pc = "poll", pc' = "retry", sessionActive, timerOn,
         pollCount' = pollCount + 1, requests' = requests + 1, RetryDue(pollCount + 1)
  PROVE  Accounted' /\ Within'
<1> DEFINE r == RetryEvery
           x == r * requests
           m == MaxWait - waited
           cost == CountCosts(timerOn, pollCount)
           costs == CountCosts(timerOn, pollCount + 1)
           d == MaxDialogs * Unit
<1>1. r \in Nat \ {0} /\ MaxWait \in Nat /\ MaxDialogs \in Nat /\ Unit \in Nat
  BY ScanAssumption DEF ScanAssumption, Unit
<1>2. x \in Nat /\ m \in Nat /\ r * requests' = x + r /\ d \in Nat
  <2>1. requests \in Nat /\ waited \in 0..MaxWait
    BY DEF Typed, CountersOK
  <2>2. r * (requests + 1) = r * requests + r
    BY <1>1, <2>1
  <2> QED BY <1>1, <2>1, <2>2
<1>3. cost \in 0..r /\ costs \in 0..r /\ costs + r <= cost + 1
  <2>1. timerOn \in BOOLEAN /\ pollCount \in Nat /\ pollCount + 1 \in Nat
    BY DEF Typed, FlagsOK, CountersOK
  <2>2. pollCount + 1 = 1 \/ (pollCount + 1) % RetryEvery = 0
    BY DEF RetryDue
  <2> QED BY <2>1, <2>2, CountPays
<1>4. /\ Here = IF waited < MaxWait THEN 1 ELSE 0
      /\ Here' = IF waited < MaxWait THEN 0 ELSE -1
  BY DEF Here, Weight
<1>5. Value = x + cost + m + Here /\ Value' = x + r + costs + m + Here'
  <2> HIDE DEF Here
  <2> QED BY <1>2 DEF Value
<1>6. Value' <= Value
  <2> HIDE DEF r, x, m, cost, costs, Here
  <2> QED BY <1>1, <1>2, <1>3, <1>4, <1>5
<1>7. Accounted'
  <2>1. waited <= waited'
    BY <1>1 DEF Typed, CountersOK
  <2> QED BY <1>6, <2>1, AccountKept
<1>8. PICK b : Owes(b, stack, waited) /\ Value + b[Len(stack)] <= Budget
  BY DEF Accounted, Paid
<1>9. b[Len(stack)] \in Int /\ b[Len(stack)] >= -d
  <2>1. Len(stack) \in Nat /\ Len(stack) <= MaxDialogs
    BY DEF Typed, ControlOK, Limited
  <2>2. b[Len(stack)] \in Int /\ b[Len(stack)] >= -(Len(stack) * Unit)
    BY <1>8, <2>1 DEF Owes
  <2>3. Len(stack) * Unit <= d /\ Len(stack) * Unit \in Nat
    <3>1. MaxDialogs - Len(stack) \in Nat
      BY <1>1, <2>1
    <3>2. (MaxDialogs - Len(stack)) * Unit \in Nat /\ Len(stack) * Unit \in Nat
      BY <1>1, <2>1, <3>1
    <3>3. MaxDialogs * Unit = Len(stack) * Unit + (MaxDialogs - Len(stack)) * Unit
      BY <1>1, <2>1
    <3> QED BY <3>2, <3>3
  <2> HIDE DEF d
  <2> QED BY <1>2, <2>2, <2>3
<1>10. Budget = 2 * r + MaxWait + d
  BY DEF Budget
<1>11. x + r <= 2 * r + MaxWait + 1 + 2 * d
  <2>1. Here \in Int /\ Here >= 0
    BY <1>4
  <2> DEFINE top == b[Len(stack)]
  <2>2. top \in Int /\ top >= -d /\ Value + top <= Budget
    BY <1>8, <1>9
  <2> HIDE DEF r, x, m, cost, costs, Here, d, top, Value
  <2> QED BY <1>1, <1>2, <1>3, <1>5, <1>10, <2>1, <2>2
<1>12. Within'
  <2> HIDE DEF x
  <2> QED BY <1>2, <1>11 DEF Within
<1> QED BY <1>7, <1>12

\* A handler that costs nothing, before and after.
LEMMA AccountIdles ==
  ASSUME Typed, Typed', Accounted, Within, Here' = Here,
         UNCHANGED <<stack, waited, requests, sessionActive, timerOn, pollCount>>
  PROVE  Accounted' /\ Within'
<1>1. CountCosts(timerOn, pollCount) \in Int /\ Here \in Int
  BY ValueTyped, ScanAssumption DEF ScanAssumption
<1> HIDE DEF Here
<1>2. CountCosts(timerOn', pollCount') + Here' <= CountCosts(timerOn, pollCount) + Here
  BY <1>1
<1> QED BY <1>2, AccountMoves

-----------------------------------------------------------------------------
(* The account, step by step.                                              *)

\* A dialog opens only if fewer than MaxDialogs are open.
LEMMA LimitedStep == ControlOK /\ Limited /\ [Next]_vars => Limited'
<1> SUFFICES ASSUME ControlOK, Limited, [Next]_vars PROVE Limited'
  OBVIOUS
<1>1. Len(stack) \in Nat /\ MaxDialogs \in Nat
  BY ScanAssumption DEF ScanAssumption, ControlOK
<1>2. CASE UNCHANGED stack
  BY <1>2 DEF Limited
<1>3. CASE OpenDialog
  <2>1. Len(stack') = Len(stack) + 1 /\ Len(stack) < MaxDialogs
    BY <1>3 DEF OpenDialog, ControlOK
  <2> QED BY <1>1, <2>1 DEF Limited
<1>4. CASE CloseDialog
  <2>1. Len(stack') = Len(stack) - 1
    BY <1>4 DEF CloseDialog, ControlOK
  <2> QED BY <1>1, <2>1 DEF Limited
<1>5. UNCHANGED stack \/ OpenDialog \/ CloseDialog
  BY DEF Next, UserActs, Continue, Environment, StartupScan, ScanOnMenuOpen,
         BackgroundRequestDone, RequestWifiScanDone, HiddenWifiPumped, ActivationDone,
         PollPumped, RetryPumped, FinishPumped, ShowMainMenu, ShowQuickMenu,
         RequestWifiScan, ConnectWifi, ConnectHiddenWifi, WifiScanPoll, ScanReported,
         NmChanges, WifiDeviceChanges, Elapse, PollVerdict, Enter, Goto, Leave, vars, control
<1> QED BY <1>2, <1>3, <1>4, <1>5

\* A poll starts only under its timer, and only handlers that owe a start or an end stop it:
\* what a poll finds when it gets on is its timer, or no session.
LEMMA ResumesStep == FlagsOK /\ ControlOK /\ Resumes /\ [Next]_vars => Resumes'
<1> SUFFICES ASSUME FlagsOK, ControlOK, Resumes, [Next]_vars PROVE Resumes'
  OBVIOUS
<1> USE DEF FlagsOK, ControlOK, PumpPoint, Resumes, Owing, Enter, Goto, Leave
<1>1. CASE ShowMainMenu
  BY <1>1 DEF ShowMainMenu, session, timer, nm
<1>2. CASE ShowQuickMenu
  BY <1>2 DEF ShowQuickMenu, StartScanPollingIfNeeded, session, timer, nm
<1>3. CASE RequestWifiScan
  BY <1>3 DEF RequestWifiScan, StartSession, RestartPolling, timer, nm
<1>4. CASE ConnectWifi
  BY <1>4 DEF ConnectWifi, FinishSessionIfActive, FinishSession, session,
     timer, nm
<1>5. CASE ConnectHiddenWifi
  BY <1>5 DEF ConnectHiddenWifi, session, timer, nm
<1>6. CASE WifiScanPoll
  BY <1>6 DEF WifiScanPoll, timer, nm
<1>7. CASE StartupScan
  BY <1>7 DEF StartupScan, StartSession, StartScanPollingIfNeeded, session,
     timer, nm
<1>8. CASE ScanOnMenuOpen
  BY <1>8 DEF ScanOnMenuOpen, StartSession, StartScanPollingIfNeeded,
     session, timer, nm
<1>9. CASE BackgroundRequestDone
  BY <1>9 DEF BackgroundRequestDone, StartScanPollingIfNeeded, session,
     timer, nm
<1>10. CASE RequestWifiScanDone
  BY <1>10 DEF RequestWifiScanDone, RestartPolling, session, nm
<1>11. CASE HiddenWifiPumped
  <2>1. CASE FinishSession
    BY <1>11, <2>1 DEF HiddenWifiPumped, FinishSessionIfActive, FinishSession,
       session, timer
  <2>2. CASE ~FinishSession
    BY <1>11, <2>2 DEF HiddenWifiPumped, FinishSessionIfActive, session, timer
  <2> QED BY <2>1, <2>2
<1>12. CASE ActivationDone
  BY <1>12 DEF ActivationDone, session, timer, nm
<1>13. CASE PollPumped
  BY <1>13 DEF PollPumped, PollVerdict, session, nm
<1>14. CASE RetryPumped
  BY <1>14 DEF RetryPumped, PollVerdict, session, nm
<1>15. CASE FinishPumped
  BY <1>15 DEF FinishPumped, FinishSession, timer, nm
<1>16. CASE Environment
  BY <1>16 DEF Environment, ScanReported, NmChanges, WifiDeviceChanges,
     Elapse, session, timer, nm, control
<1>17. CASE OpenDialog
  <2> SUFFICES ASSUME sessionActive, ~timerOn PROVE Resumes'
    BY <1>17 DEF OpenDialog, session, timer
  <2>1. /\ pc' = "loop" /\ Len(stack') = Len(stack) + 1 /\ Len(stack) \in Nat
        /\ stack'[1] = pc /\ \A k \in 1..Len(stack) : stack'[k + 1] = stack[k]
    BY <1>17 DEF OpenDialog
  <2>2. CASE pc \in Owing
    <3>1. 1 \in 1..Len(stack') /\ \A j \in 1..(1 - 1) : FALSE
      BY <2>1
    <3> QED BY <2>1, <2>2, <3>1
  <2>3. CASE pc \notin Owing
    <3>1. PICK i \in 1..Len(stack) :
            stack[i] \in Owing /\ \A j \in 1..(i - 1) : stack[j] \notin {"poll", "retry"}
      BY <2>3
    <3>2. pc \notin {"poll", "retry"}
      BY <2>3
    <3>3. i + 1 \in 1..Len(stack') /\ stack'[i + 1] \in Owing
      BY <2>1, <3>1
    <3>4. ASSUME NEW j \in 1..(i + 1 - 1) PROVE stack'[j] \notin {"poll", "retry"}
      <4>1. CASE j = 1
        BY <2>1, <3>2, <4>1
      <4>2. CASE j # 1
        <5>1. j - 1 \in 1..(i - 1) /\ j - 1 \in 1..Len(stack) /\ j = (j - 1) + 1
          BY <3>1, <4>2
        <5> QED BY <2>1, <3>1, <5>1
      <4> QED BY <4>1, <4>2
    <3> QED BY <2>1, <3>3, <3>4
  <2> QED BY <2>2, <2>3
<1>18. CASE CloseDialog
  BY <1>18 DEF CloseDialog, session, timer, nm
<1>19. CASE UNCHANGED vars
  BY <1>19 DEF vars, session, timer, nm, control
<1> QED BY <1>1, <1>2, <1>3, <1>4, <1>5, <1>6, <1>7, <1>8, <1>9, <1>10,
       <1>11, <1>12, <1>13, <1>14, <1>15, <1>16, <1>17, <1>18, <1>19 DEF
       Next, UserActs, Continue

\* What the user does keeps the account.
LEMMA AccountActs ==
  ASSUME Typed, Typed', Accounted, Within, UserActs
  PROVE  Accounted' /\ Within'
<1> USE DEF Enter, Goto, Leave
<1>1. CASE ShowMainMenu
  <2>1. /\ UNCHANGED <<stack, waited, requests, sessionActive, timerOn, pollCount>>
        /\ Here = 0 /\ Here' = 0
    BY <1>1 DEF ShowMainMenu, session, timer, Here, Weight
  <2> HIDE DEF Here
  <2> QED BY <2>1, AccountIdles
<1>2. CASE ShowQuickMenu
  <2>1. /\ UNCHANGED <<stack, session>> /\ StartScanPollingIfNeeded
        /\ pc = "loop" /\ pc' = "loop"
    BY <1>2 DEF ShowQuickMenu
  <2>2. Weight(pc, waited) = 0
    BY <2>1 DEF Weight
  <2> QED BY <2>1, <2>2, AccountPolls
<1>3. CASE RequestWifiScan
  <2>1. UNCHANGED stack /\ waited' = 0 /\ requests' \in {0, 1} /\ pc' \in {"loop", "userRequest"}
    BY <1>3 DEF RequestWifiScan, StartSession
  <2> QED BY <2>1, AccountStarts
<1>4. CASE ConnectWifi
  <2>1. CASE sessionActive
    <3>1. ~sessionActive' /\ requests' = 0
      BY <1>4, <2>1 DEF ConnectWifi, FinishSessionIfActive, FinishSession
    <3> QED BY <3>1, AccountEnds
  <2>2. CASE ~sessionActive
    <3>1. UNCHANGED <<stack, waited, requests>> /\ ~sessionActive'
      BY <1>4, <2>2 DEF ConnectWifi, FinishSessionIfActive, session
    <3> QED BY <3>1, AccountMoves
  <2> QED BY <2>1, <2>2
<1>5. CASE ConnectHiddenWifi
  <2>1. /\ UNCHANGED <<stack, waited, requests, sessionActive, timerOn, pollCount>>
        /\ Here = 0 /\ Here' = 0
    BY <1>5 DEF ConnectHiddenWifi, session, timer, Here, Weight
  <2> HIDE DEF Here
  <2> QED BY <2>1, AccountIdles
<1> QED BY <1>1, <1>2, <1>3, <1>4, <1>5 DEF UserActs

\* A poll that starts costs what the interval that has passed was worth.
LEMMA AccountPollStarts ==
  ASSUME Typed, Typed', Accounted, Within, WifiScanPoll
  PROVE  Accounted' /\ Within'
<1>1. /\ UNCHANGED <<stack, sessionActive, requests, timerOn, pollCount>>
      /\ pc = "loop" /\ pc' = "poll"
      /\ waited' = IF sessionActive /\ waited < MaxWait THEN waited + 1 ELSE waited
  BY DEF WifiScanPoll, Enter, Goto, timer
<1>2. MaxWait \in Nat /\ waited \in 0..MaxWait
  BY ScanAssumption DEF ScanAssumption, Typed, CountersOK
<1>3. waited <= waited'
  BY <1>1, <1>2
<1>4. sessionActive => Value' <= Value
  <2> DEFINE x == RetryEvery * requests
             cost == CountCosts(timerOn, pollCount)
  <2>1. Here = 0 /\ Here' = IF waited' < MaxWait THEN 1 ELSE 0
    BY <1>1 DEF Here, Weight
  <2>2. x \in Int /\ cost \in Int
    <3>1. requests \in Nat /\ RetryEvery \in Nat
      BY ScanAssumption DEF ScanAssumption, Typed, CountersOK
    <3>2. cost \in 0..RetryEvery
      BY ValueTyped
    <3> HIDE DEF cost
    <3> QED BY <3>1, <3>2
  <2>3. Value = x + cost + (MaxWait - waited) + Here
    <3> HIDE DEF Here
    <3> QED BY DEF Value
  <2>4. Value' = x + cost + (MaxWait - waited') + Here'
    <3> HIDE DEF Here
    <3> QED BY <1>1 DEF Value
  <2> HIDE DEF x, cost, Here, Value
  <2> QED BY <1>1, <1>2, <2>1, <2>2, <2>3, <2>4
<1>5. Accounted'
  <2>1. sessionActive' => sessionActive /\ Value' <= Value
    BY <1>1, <1>4
  <2> QED BY <1>1, <1>3, <2>1, AccountKept
<1> QED BY <1>1, <1>5 DEF Within

\* The handlers that get on keep the account.
LEMMA AccountContinues ==
  ASSUME Typed, Typed', Resumes, Accounted, Within, Continue
  PROVE  Accounted' /\ Within'
<1> USE DEF Enter, Goto, Leave
<1>1. CASE StartupScan \/ ScanOnMenuOpen
  <2>1. CASE /\ UNCHANGED stack /\ waited' = 0 /\ requests' = 1 /\ pc' = "bgRequest"
    BY <2>1, AccountStarts
  <2>2. CASE /\ UNCHANGED <<stack, session>> /\ StartScanPollingIfNeeded
             /\ pc \in {"init", "menuOpen"} /\ pc' = "loop"
    <3>1. Weight(pc, waited) = 0 /\ pc # "userRequest"
      BY <2>2 DEF Weight
    <3> QED BY <2>2, <3>1, AccountPolls
  <2> QED BY <1>1, <2>1, <2>2 DEF StartupScan, ScanOnMenuOpen, StartSession
<1>2. CASE BackgroundRequestDone
  <2>1. /\ UNCHANGED <<stack, session>> /\ StartScanPollingIfNeeded
        /\ pc = "bgRequest" /\ pc' = "loop"
    BY <1>2 DEF BackgroundRequestDone
  <2>2. Weight(pc, waited) = 0
    BY <2>1 DEF Weight
  <2> QED BY <2>1, <2>2, AccountPolls
<1>3. CASE RequestWifiScanDone
  <2>1. /\ UNCHANGED <<stack, waited, requests, sessionActive>>
        /\ pc = "userRequest" /\ pc' = "loop" /\ timerOn' = TRUE /\ pollCount' = 0
    BY <1>3 DEF RequestWifiScanDone, RestartPolling, session
  <2>2. RetryEvery \in Nat /\ CountCosts(timerOn, pollCount) \in 0..RetryEvery
    BY ValueTyped, ScanAssumption DEF ScanAssumption
  <2>3. CountCosts(timerOn', pollCount') = RetryEvery /\ Here' = 0
    BY <2>1 DEF CountCosts, Here, Weight
  <2>4. \/ Here = RetryEvery
        \/ Here = RetryEvery - CountCosts(timerOn, pollCount)
    BY <2>1 DEF Here, Weight
  <2>5. CountCosts(timerOn', pollCount') + Here' <= CountCosts(timerOn, pollCount) + Here
    <3> DEFINE cost == CountCosts(timerOn, pollCount)
    <3> HIDE DEF Here, cost
    <3>1. RetryEvery + 0 <= cost + Here
      <4>1. RetryEvery \in Nat /\ cost \in 0..RetryEvery
        BY <2>2 DEF cost
      <4>2. Here = RetryEvery \/ Here = RetryEvery - cost
        BY <2>4 DEF cost
      <4> QED BY <4>1, <4>2
    <3> QED BY <2>3, <3>1 DEF cost
  <2> QED BY <2>1, <2>5, AccountMoves
<1>4. CASE HiddenWifiPumped
  <2>1. CASE FinishSession
    BY <2>1, AccountEnds DEF FinishSession
  <2>2. CASE ~FinishSession
    <3>1. /\ UNCHANGED <<stack, waited, requests, sessionActive, timerOn, pollCount>>
          /\ pc = "hidden" /\ pc' \in {"activate", "loop"}
      BY <1>4, <2>2 DEF HiddenWifiPumped, FinishSessionIfActive, session, timer
    <3>2. Here = 0 /\ Here' = 0
      BY <3>1 DEF Here, Weight
    <3> HIDE DEF Here
    <3> QED BY <3>1, <3>2, AccountIdles
  <2> QED BY <2>1, <2>2
<1>5. CASE ActivationDone
  <2>1. /\ UNCHANGED <<stack, waited, requests, sessionActive, timerOn, pollCount>>
        /\ Here = 0 /\ Here' = 0
    BY <1>5 DEF ActivationDone, session, timer, Here, Weight
  <2> HIDE DEF Here
  <2> QED BY <2>1, AccountIdles
<1>6. CASE PollPumped
  <2>1. timerOn \in BOOLEAN /\ pollCount \in Nat /\ pollCount + 1 \in Nat /\ pc = "poll"
    BY <1>6 DEF Typed, FlagsOK, CountersOK, PollPumped
  <2>2. CASE RetryDue(pollCount + 1) /\ wireless
    <3>1. sessionActive
      BY <2>2 DEF RetryDue, AwaitingLastScan
    <3>2. timerOn
      BY <2>1, <3>1 DEF Resumes, Owing
    <3>3. /\ UNCHANGED <<stack, sessionActive, waited, timerOn>> /\ pc' = "retry"
          /\ pollCount' = pollCount + 1 /\ requests' = requests + 1
      BY <1>6, <2>2 DEF PollPumped
    <3> QED BY <2>1, <2>2, <3>1, <3>2, <3>3, AccountRetry
  <2>3. CASE ~(RetryDue(pollCount + 1) /\ wireless)
    <3>1. PollVerdict(pollCount + 1) /\ UNCHANGED session
      BY <1>6, <2>3 DEF PollPumped
    <3>2. UNCHANGED stack
      BY <3>1 DEF PollVerdict
    <3>3. CountCosts(timerOn, pollCount + 1) <= CountCosts(timerOn, pollCount) + 1
      BY <2>1, CountPays
    <3> QED BY <2>1, <3>1, <3>2, <3>3, AccountVerdict
  <2> QED BY <2>2, <2>3
<1>7. CASE RetryPumped
  <2>1. PollVerdict(pollCount) /\ UNCHANGED <<stack, session>> /\ pc = "retry"
    BY <1>7 DEF RetryPumped, PollVerdict
  <2>2. pollCount \in Nat
    BY DEF Typed, CountersOK
  <2>3. CountCosts(timerOn, pollCount) <= CountCosts(timerOn, pollCount) + 0
    <3>1. CountCosts(timerOn, pollCount) \in Int
      BY ValueTyped, ScanAssumption DEF ScanAssumption
    <3> QED BY <3>1
  <2> QED BY <2>1, <2>2, <2>3, AccountVerdict
<1>8. CASE FinishPumped
  BY <1>8, AccountEnds DEF FinishPumped, FinishSession
<1> QED BY <1>1, <1>2, <1>3, <1>4, <1>5, <1>6, <1>7, <1>8 DEF Continue

\* What the main context delivers costs nothing; time that passes makes nothing dearer.
LEMMA AccountDelivers ==
  ASSUME Typed, Typed', Accounted, Within, Environment
  PROVE  Accounted' /\ Within'
<1>1. CASE ScanReported \/ NmChanges \/ WifiDeviceChanges
  <2>1. UNCHANGED <<stack, pc, waited, requests, sessionActive, timerOn, pollCount>>
    BY <1>1 DEF ScanReported, NmChanges, WifiDeviceChanges, session, timer, control
  <2>2. Here' = Here
    BY <2>1 DEF Here
  <2> HIDE DEF Here
  <2> QED BY <2>1, <2>2, AccountIdles
<1>2. CASE Elapse
  <2>1. /\ UNCHANGED <<stack, pc, requests, sessionActive, timerOn, pollCount>>
        /\ waited' = waited + 1
    BY <1>2 DEF Elapse, timer, control
  <2>2. waited \in Nat /\ waited + 1 \in Nat /\ MaxWait \in Nat
    BY ScanAssumption DEF ScanAssumption, Typed, CountersOK
  <2>3. Here \in Int /\ Here' \in Int /\ Here' <= Here
    <3>1. Here \in Int
      BY ValueTyped
    <3>2. CASE pc = "userRequest" /\ Len(stack) = MaxDialogs
      <4>1. Here' = Here
        BY <2>1, <3>2 DEF Here
      <4> HIDE DEF Here
      <4> QED BY <3>1, <4>1
    <3>3. CASE ~(pc = "userRequest" /\ Len(stack) = MaxDialogs)
      <4>1. Here = Weight(pc, waited) /\ Here' = Weight(pc, waited + 1)
        BY <2>1, <3>3 DEF Here
      <4>2. /\ Weight(pc, waited + 1) <= Weight(pc, waited)
            /\ Weight(pc, waited) \in Int /\ Weight(pc, waited + 1) \in Int
        BY <2>2, WeightBounds
      <4> HIDE DEF Here
      <4> QED BY <4>1, <4>2
    <3> QED BY <3>2, <3>3
  <2>4. Value' <= Value
    <3> DEFINE x == RetryEvery * requests
               cost == CountCosts(timerOn, pollCount)
    <3>1. x \in Int /\ cost \in Int
      <4>1. requests \in Nat /\ RetryEvery \in Nat
        BY ScanAssumption DEF ScanAssumption, Typed, CountersOK
      <4>2. cost \in 0..RetryEvery
        BY ValueTyped
      <4> HIDE DEF cost
      <4> QED BY <4>1, <4>2
    <3>2. Value = x + cost + (MaxWait - waited) + Here
      <4> HIDE DEF Here
      <4> QED BY DEF Value
    <3>3. Value' = x + cost + (MaxWait - (waited + 1)) + Here'
      <4> HIDE DEF Here
      <4> QED BY <2>1 DEF Value
    <3> DEFINE v == x + cost + (MaxWait - waited)
    <3> HIDE DEF x, cost, Here, Value
    <3>4. v \in Int /\ Value = v + Here /\ Value' = v - 1 + Here'
      BY <2>2, <2>3, <3>1, <3>2, <3>3
    <3> HIDE DEF v
    <3> DEFINE here == Here
               hence == Here'
               old == Value
               new == Value'
    <3>5. /\ v \in Int /\ here \in Int /\ hence \in Int /\ hence <= here
          /\ old = v + here /\ new = v - 1 + hence
      BY <2>3, <3>4
    <3>6. new <= old
      <4> HIDE DEF here, hence, old, new
      <4> QED BY <3>5
    <3> QED BY <3>6
  <2>5. waited <= waited'
    BY <2>1, <2>2
  <2>6. sessionActive' => sessionActive /\ Value' <= Value
    BY <2>1, <2>4
  <2>7. Accounted'
    BY <2>1, <2>5, <2>6, AccountKept
  <2> QED BY <2>1, <2>7 DEF Within
<1> QED BY <1>1, <1>2 DEF Environment

\* Every step keeps the account.
LEMMA AccountStep ==
  ASSUME Typed, Typed', Resumes, Accounted, Within, [Next]_vars
  PROVE  Accounted' /\ Within'
<1>1. CASE OpenDialog
  <2>1. requests' = requests
    BY <1>1 DEF OpenDialog, session
  <2> QED BY <1>1, <2>1, AccountOpens DEF Within
<1>2. CASE CloseDialog
  <2>1. requests' = requests
    BY <1>2 DEF CloseDialog, session
  <2> QED BY <1>2, <2>1, AccountCloses DEF Within
<1>3. CASE UNCHANGED vars
  <2>1. UNCHANGED <<stack, pc, waited, requests, sessionActive, timerOn, pollCount>>
    BY <1>3 DEF vars, session, timer, nm, control
  <2>2. Here' = Here
    BY <2>1 DEF Here
  <2> HIDE DEF Here
  <2> QED BY <2>1, <2>2, AccountIdles
<1> QED BY <1>1, <1>2, <1>3, AccountActs, AccountPollStarts, AccountContinues,
           AccountDelivers DEF Next

\* The budget in requests.
LEMMA WithinBounds == Typed /\ Within => RequestsBounded
<1> SUFFICES ASSUME Typed, Within PROVE RequestsBounded
  OBVIOUS
<1> DEFINE r == RetryEvery
           t == MaxWait + 1 + 2 * MaxDialogs
           q == t \div r
           m == t % r
           k == requests - (2 + 2 * MaxDialogs)
<1>1. r \in Nat \ {0} /\ MaxWait \in Nat /\ MaxDialogs \in Nat /\ requests \in Nat
  BY ScanAssumption DEF ScanAssumption, Typed, CountersOK
<1>2. t \in Nat /\ k \in Int
  BY <1>1
<1>3. q \in Nat /\ m \in 0..(r - 1) /\ t = r * q + m
  <2> HIDE DEF t
  <2> QED BY <1>1, <1>2
<1>4. r * k <= t
  <2> DEFINE x == r * requests
             d == MaxDialogs * r
  <2>1. x \in Int /\ d \in Int
    BY <1>1
  <2>2. MaxDialogs * Unit = d + MaxDialogs
    BY <1>1 DEF Unit
  <2>3. x <= 2 * r + MaxWait + 1 + 2 * (MaxDialogs * Unit)
    BY DEF Within
  <2>4. r * k = x - (2 * r + 2 * d)
    BY <1>1
  <2> HIDE DEF x, d, r, k
  <2> QED BY <1>1, <2>1, <2>2, <2>3, <2>4
<1>5. k <= q
  <2> HIDE DEF r, t, q, m, k
  <2> SUFFICES ASSUME k > q PROVE FALSE
    BY <1>2, <1>3
  <2>1. k - q - 1 \in Nat
    BY <1>2, <1>3
  <2>2. r * (k - q - 1) \in Nat
    BY <1>1, <2>1
  <2>3. r * k = r * (k - q - 1) + r * q + r /\ r * q \in Nat
    BY <1>1, <1>2, <1>3
  <2> QED BY <1>1, <1>3, <1>4, <2>2, <2>3
<1> HIDE DEF q
<1>6. requests <= 2 + 2 * MaxDialogs + q
  BY <1>1, <1>3, <1>5
<1> QED BY <1>6 DEF RequestsBounded, q

\* Between two time stamps NetworkManager gets a bounded number of RequestScan calls, in
\* whatever order polls, menus and dialogs interrupt each other.
THEOREM RequestsAreFew == Spec => []RequestsBounded
<1> DEFINE Inv == Typed /\ Resumes /\ Accounted /\ Within
<1>1. Init => Typed
  <2> SUFFICES ASSUME Init PROVE Typed
    OBVIOUS
  <2>1. FlagsOK /\ CountersOK
    <3>1. FlagsOK
      BY DEF Init, FlagsOK
    <3>2. CountersOK
      BY ScanAssumption DEF ScanAssumption, Init, CountersOK
    <3> QED BY <3>1, <3>2
  <2>2. ControlOK
    BY DEF Init, ControlOK, PumpPoint
  <2>3. Limited
    <3>1. stack = <<>> /\ Len(<<>>) = 0 /\ MaxDialogs \in Nat
      BY ScanAssumption DEF ScanAssumption, Init
    <3> QED BY <3>1 DEF Limited
  <2> QED BY <2>1, <2>2, <2>3 DEF Typed
<1>2. Init => Resumes
  BY DEF Init, Resumes
<1>3. Init => Accounted /\ Within
  <2> SUFFICES ASSUME Init PROVE Accounted /\ Within
    OBVIOUS
  <2>1. stack \in Seq(PumpPoint \cup {"loop"}) /\ waited \in Nat /\ ~sessionActive /\ requests = 0
    BY DEF Init
  <2>2. \E b : Owes(b, stack, waited)
    BY <2>1, OwesAtMost
  <2>3. RetryEvery * 0 = 0 /\ MaxDialogs * Unit \in Nat /\ RetryEvery \in Nat /\ MaxWait \in Nat
    BY ScanAssumption DEF ScanAssumption, Unit
  <2> QED BY <2>1, <2>2, <2>3 DEF Accounted, Paid, Within
<1>4. Typed /\ [Next]_vars => Typed'
  BY FlagsStep, CountersStep, ControlStep, LimitedStep DEF Typed
<1>5. Inv /\ [Next]_vars => Inv'
  <2> SUFFICES ASSUME Typed, Resumes, Accounted, Within, [Next]_vars PROVE Inv'
    OBVIOUS
  <2>1. Typed'
    BY <1>4
  <2>2. Resumes'
    BY ResumesStep DEF Typed
  <2>3. Accounted' /\ Within'
    BY <2>1, AccountStep
  <2> QED BY <2>1, <2>2, <2>3
<1>6. Inv => RequestsBounded
  BY WithinBounds
<1> QED BY <1>1, <1>2, <1>3, <1>5, <1>6, PTL DEF Spec
=============================================================================
