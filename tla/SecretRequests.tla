---------------------------- MODULE SecretRequests ----------------------------
(***************************************************************************)
(* What NetworkManager may expect of an agent: each request it sends is    *)
(* answered once, with a secret or a refusal, and each is answered at      *)
(* last.                                                                   *)
(***************************************************************************)
CONSTANTS
    Ids,
    Answers,
    Unanswered   \* no member of Answers

VARIABLES asked, answered

vars == <<asked, answered>>

Init == asked = {} /\ answered = [r \in Ids |-> Unanswered]

Ask(r) == r \notin asked /\ asked' = asked \cup {r} /\ UNCHANGED answered

Answer(r) ==
    /\ r \in asked /\ answered[r] = Unanswered
    /\ \E a \in Answers : answered' = [answered EXCEPT ![r] = a]
    /\ UNCHANGED asked

Next == \E r \in Ids : Ask(r) \/ Answer(r)

Spec == Init /\ [][Next]_vars /\ \A r \in Ids : WF_vars(Answer(r))
=============================================================================
