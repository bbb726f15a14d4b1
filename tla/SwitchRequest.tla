---------------------------- MODULE SwitchRequest ----------------------------
(***************************************************************************)
(* What a toggle of the quick popup promises: one request at a time, whose *)
(* goal does not change while it runs, and every request comes to an end.  *)
(* QuickToggles implements it, once for each switch.                       *)
(***************************************************************************)
VARIABLES
    busy,   \* a request runs
    goal    \* what the last request asked for

Init == busy = FALSE /\ goal = FALSE

Ask == ~busy /\ busy' = TRUE /\ goal' \in BOOLEAN

\* Reached, or given up.
End == busy /\ busy' = FALSE /\ UNCHANGED goal

Next == Ask \/ End

Spec == Init /\ [][Next]_<<busy, goal>> /\ WF_<<busy, goal>>(End)
=============================================================================
