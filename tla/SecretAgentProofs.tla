-------------------------- MODULE SecretAgentProofs --------------------------
(***************************************************************************)
(* For any number of requests of any kind: the handlers, whose dialogs nest *)
(* in each other's event loops, answer as SecretRequests says, each request *)
(* once, and what is sent is what was typed in the request's own dialog.    *)
(***************************************************************************)
EXTENDS SecretAgent, FiniteSetTheorems, SequenceTheorems, WellFoundedInduction, TLAPS

\* Requests are sent and received in their order.
InOrder ==
    \E n, m \in 0..Cardinality(Ids) : m <= n /\ sent = 1..n /\ received = 1..m

\* An open dialog's request is unanswered, and so is one not yet received: the
\* dialog that closes next answers what nobody has answered.
Unanswered ==
    /\ dialogs \in Seq(received)
    /\ \A i \in 1..Len(dialogs) : answer[dialogs[i]] = NoAnswer
    /\ \A i, j \in 1..Len(dialogs) : dialogs[i] = dialogs[j] => i = j
    /\ \A r \in Ids \ received : answer[r] = NoAnswer

Types ==
    /\ answer \in [Ids -> Answers \cup {NoAnswer}]
    /\ typed \in [Ids -> TypedSecrets]
    /\ cancelled \subseteq sent

IInv == Types /\ InOrder /\ Unanswered /\ OwnSecret

-----------------------------------------------------------------------------
\* The requests are numbered from 1 to their number.
LEMMA NumberOfIds == Cardinality(Ids) \in Nat /\ Ids = 1..Cardinality(Ids)
BY SecretAgentAssumption, FS_CardinalityType DEF SecretAgentAssumption

\* The number of the first requests.
LEMMA NumberOf == \A n \in Nat : Cardinality(1..n) = n
<1> TAKE n \in Nat
<1>1. Cardinality(1..n) = IF 1 > n THEN 0 ELSE n - 1 + 1
  BY FS_Interval
<1> QED BY <1>1

\* A request is refused at once for a reason there is, or gets a dialog.
LEMMA RefusedType ==
  ASSUME NEW r \in Ids
  PROVE  RefusedAtOnce(RequestOf[r]) \in
            {NoAnswer, Refused("invalid"), Refused("unsupported"), Refused("canceled")}
<1>1. RequestOf[r].present \in BOOLEAN
  BY SecretAgentAssumption DEF SecretAgentAssumption
<1>2. CASE ~RequestOf[r].present
  BY <1>2 DEF RefusedAtOnce
<1>3. CASE RequestOf[r].present /\ RequestOf[r].setting = "gsm"
  BY <1>3 DEF RefusedAtOnce
<1>4. CASE /\ RequestOf[r].present /\ RequestOf[r].setting = "802-11-wireless-security"
           /\ RequestOf[r].mgmt \in {"wpa-eap", "ieee8021x"}
  BY <1>4 DEF RefusedAtOnce
<1>5. CASE /\ RequestOf[r].present /\ RequestOf[r].setting # "gsm"
           /\ ~(RequestOf[r].setting = "802-11-wireless-security"
                /\ RequestOf[r].mgmt \in {"wpa-eap", "ieee8021x"})
  BY <1>5 DEF RefusedAtOnce
<1> QED BY <1>1, <1>2, <1>3, <1>4, <1>5

\* What the next request is, and what receiving it does.
LEMMA Receives ==
  ASSUME Types, InOrder, Unanswered, GetSecrets
  PROVE  \E r \in Ids \ received :
            /\ r \in sent /\ received' = received \cup {r} /\ answer[r] = NoAnswer
            /\ answer' = [answer EXCEPT ![r] = RefusedAtOnce(RequestOf[r])]
            /\ dialogs' = IF RefusedAtOnce(RequestOf[r]) = NoAnswer
                          THEN Append(dialogs, r) ELSE dialogs
            /\ InOrder'
            /\ UNCHANGED <<sent, cancelled, typed>>
<1>1. PICK n, m \in 0..Cardinality(Ids) : m <= n /\ sent = 1..n /\ received = 1..m
  BY DEF InOrder
<1>2. Cardinality(received) = m /\ n \in Nat /\ m \in Nat
  BY <1>1, NumberOf, NumberOfIds
<1>3. m < n
  BY <1>1, <1>2 DEF GetSecrets
<1>4. m + 1 \in Ids /\ m + 1 \notin received /\ m + 1 \in sent
  BY <1>1, <1>2, <1>3, NumberOfIds
<1>5. received' = received \cup {m + 1} /\ UNCHANGED <<sent, cancelled, typed>>
  BY <1>2 DEF GetSecrets
<1>6. received' = 1..(m + 1) /\ sent' = 1..n
  BY <1>1, <1>2, <1>5
<1>7. InOrder'
  <2>1. m + 1 \in 0..Cardinality(Ids) /\ m + 1 <= n
    BY <1>1, <1>2, <1>3, NumberOfIds
  <2> QED BY <1>1, <1>6, <2>1 DEF InOrder
<1>8. /\ answer' = [answer EXCEPT ![m + 1] = RefusedAtOnce(RequestOf[m + 1])]
      /\ dialogs' = IF RefusedAtOnce(RequestOf[m + 1]) = NoAnswer
                    THEN Append(dialogs, m + 1) ELSE dialogs
  BY <1>2 DEF GetSecrets
<1>9. answer[m + 1] = NoAnswer
  BY <1>4 DEF Unanswered
<1> QED BY <1>4, <1>5, <1>7, <1>8, <1>9

\* A dialog's outcome is an answer.
LEMMA BuiltIsAnswer ==
  ASSUME NEW r \in Ids, NEW identity \in TypedIdentities, NEW secret \in TypedSecrets \ {""}
  PROVE  Built(RequestOf[r], identity, secret) \in Answers
<1> DEFINE D == Ids \X TypedIdentities \X (TypedSecrets \ {""})
           d == <<r, identity, secret>>
           B(e) == Built(RequestOf[e[1]], e[2], e[3])
<1>1. d \in D
  OBVIOUS
<1>2. B(d) = Built(RequestOf[r], identity, secret)
  OBVIOUS
<1>3. B(d) \in {B(e) : e \in D}
  <2> HIDE DEF d, D, B
  <2> QED BY <1>1
<1> QED BY <1>2, <1>3 DEF Answers

LEMMA RefusalIsAnswer ==
  {Refused("invalid"), Refused("unsupported"), Refused("canceled")} \subseteq Answers
<1> SUFFICES \A A, B : A \subseteq (A \cup B)
  BY DEF Answers
<1> QED OBVIOUS

\* What closing the innermost dialog does.
LEMMA Closes ==
  ASSUME Types, InOrder, Unanswered, Closed
  PROVE  \E r \in received, secret \in TypedSecrets, a \in Answers :
            /\ dialogs # <<>> /\ r = dialogs[Len(dialogs)] /\ answer[r] = NoAnswer
            /\ r \in sent /\ r \in Ids
            /\ typed' = [typed EXCEPT ![r] = secret]
            /\ answer' = [answer EXCEPT ![r] = a]
            /\ a.is = "secret" => a.secret = secret /\ a.setting = RequestOf[r].setting
            /\ a.is = "secret" => a.key = AnsweredKey(RequestOf[r])
            /\ dialogs' = SubSeq(dialogs, 1, Len(dialogs) - 1)
            /\ UNCHANGED <<sent, received, cancelled>>
<1>1. PICK identity \in TypedIdentities, secret \in TypedSecrets, accepted \in BOOLEAN :
         Close(identity, secret, accepted)
  BY DEF Closed
<1> DEFINE r == dialogs[Len(dialogs)]
           a == IF accepted /\ Given(secret) THEN Built(RequestOf[r], identity, secret)
                                             ELSE Refused("canceled")
<1>2. dialogs # <<>> /\ Len(dialogs) \in 1..Len(dialogs)
  BY <1>1 DEF Close, Unanswered
<1>3. r \in received /\ answer[r] = NoAnswer
  BY <1>2, ElementOfSeq DEF Unanswered
<1>4. r \in sent /\ r \in Ids
  <2>1. PICK n, m \in 0..Cardinality(Ids) : m <= n /\ sent = 1..n /\ received = 1..m
    BY DEF InOrder
  <2> QED BY <1>3, <2>1, NumberOfIds
<1>5. a \in Answers
  <2>1. CASE accepted /\ Given(secret)
    <3>1. secret \in TypedSecrets \ {""}
      BY <2>1 DEF Given
    <3>2. Built(RequestOf[r], identity, secret) \in Answers
      BY <1>4, <3>1, BuiltIsAnswer
    <3>3. a = Built(RequestOf[r], identity, secret)
      BY <2>1
    <3> HIDE DEF a, r
    <3> QED BY <3>2, <3>3
  <2>2. CASE ~(accepted /\ Given(secret))
    <3>1. a = Refused("canceled")
      BY <2>2
    <3> HIDE DEF a
    <3> QED BY <3>1, RefusalIsAnswer
  <2> QED BY <2>1, <2>2
<1>6. a.is = "secret" => a.secret = secret /\ a.setting = RequestOf[r].setting
  BY DEF Built, Secret, Refused
<1>7. a.is = "secret" => a.key = AnsweredKey(RequestOf[r])
  BY DEF Built, Secret, Refused
<1>8. /\ typed' = [typed EXCEPT ![r] = secret]
      /\ answer' = [answer EXCEPT ![r] = a]
      /\ dialogs' = SubSeq(dialogs, 1, Len(dialogs) - 1)
      /\ UNCHANGED <<sent, received, cancelled>>
  BY <1>1 DEF Close, Answering
<1> QED BY <1>2, <1>3, <1>4, <1>5, <1>6, <1>7, <1>8

-----------------------------------------------------------------------------
\* Each action keeps the invariant.

LEMMA InitEstablishes == Init => IInv
<1> SUFFICES ASSUME Init PROVE IInv
  OBVIOUS
<1>1. Types
  BY SecretAgentAssumption DEF Init, Types, SecretAgentAssumption
<1>2. InOrder
  <2>1. sent = 1..0 /\ received = 1..0
    <3>1. 1..0 = {}
      OBVIOUS
    <3> QED BY <3>1 DEF Init
  <2>2. 0 \in 0..Cardinality(Ids) /\ 0 <= 0
    BY NumberOfIds
  <2>3. \E n, m \in 0..Cardinality(Ids) : m <= n /\ 1..0 = 1..n /\ 1..0 = 1..m
    BY <2>2
  <2> QED BY <2>1, <2>3 DEF InOrder
<1>3. Unanswered
  <2>1. dialogs = <<>> /\ dialogs \in Seq(received) /\ Len(dialogs) = 0
    BY EmptySeq DEF Init
  <2>2. 1..0 = {}
    OBVIOUS
  <2>3. \A r \in Ids : answer[r] = NoAnswer
    BY DEF Init
  <2> QED BY <2>1, <2>2, <2>3 DEF Unanswered
<1>4. OwnSecret
  BY DEF Init, OwnSecret, NoAnswer
<1> QED BY <1>1, <1>2, <1>3, <1>4 DEF IInv

LEMMA SendKeeps ==
  ASSUME IInv, Send
  PROVE  /\ IInv'
         /\ \E r \in Ids \ sent : sent' = sent \cup {r} /\ UNCHANGED answer
<1>1. PICK n, m \in 0..Cardinality(Ids) : m <= n /\ sent = 1..n /\ received = 1..m
  BY DEF IInv, InOrder
<1>2. Cardinality(sent) = n /\ n \in Nat /\ m \in Nat
  BY <1>1, NumberOf, NumberOfIds
<1>3. n + 1 \in Ids /\ n + 1 \notin sent /\ n + 1 <= Cardinality(Ids)
  BY <1>1, <1>2, NumberOfIds DEF Send
<1>4. /\ sent' = sent \cup {n + 1}
      /\ UNCHANGED <<received, dialogs, answer, cancelled, typed>>
  BY <1>2 DEF Send
<1>5. InOrder'
  <2>1. sent' = 1..(n + 1) /\ received' = 1..m
    BY <1>1, <1>2, <1>4
  <2>2. n + 1 \in 0..Cardinality(Ids) /\ m <= n + 1
    BY <1>1, <1>2, <1>3, NumberOfIds
  <2> QED BY <2>1, <2>2 DEF InOrder
<1>6. Types' /\ Unanswered' /\ OwnSecret'
  BY <1>4 DEF IInv, Types, Unanswered, OwnSecret
<1> QED BY <1>3, <1>4, <1>5, <1>6 DEF IInv

LEMMA GetSecretsKeeps ==
  ASSUME IInv, GetSecrets
  PROVE  /\ IInv'
         /\ \/ UNCHANGED <<sent, answer>>
            \/ \E r \in sent : \E a \in Answers :
                  /\ r \in Ids /\ answer[r] = NoAnswer
                  /\ answer' = [answer EXCEPT ![r] = a] /\ UNCHANGED sent
<1>1. PICK r \in Ids \ received :
         /\ r \in sent /\ received' = received \cup {r} /\ answer[r] = NoAnswer
         /\ answer' = [answer EXCEPT ![r] = RefusedAtOnce(RequestOf[r])]
         /\ dialogs' = IF RefusedAtOnce(RequestOf[r]) = NoAnswer
                       THEN Append(dialogs, r) ELSE dialogs
         /\ InOrder'
         /\ UNCHANGED <<sent, cancelled, typed>>
  BY Receives DEF IInv
<1> DEFINE a == RefusedAtOnce(RequestOf[r])
<1>2. a = NoAnswer \/ a \in {Refused("invalid"), Refused("unsupported"), Refused("canceled")}
  BY RefusedType
<1>3. a = NoAnswer \/ a \in Answers
  BY <1>2, RefusalIsAnswer
<1>4. a.is # "secret"
  BY <1>2 DEF NoAnswer, Refused
<1>5. answer' = [answer EXCEPT ![r] = a]
  BY <1>1
<1>6. dialogs' = IF a = NoAnswer THEN Append(dialogs, r) ELSE dialogs
  BY <1>1
<1>7. answer \in [Ids -> Answers \cup {NoAnswer}] /\ r \in Ids \ received
  BY <1>1 DEF IInv, Types
<1> HIDE DEF a
<1>8. Types'
  BY <1>1, <1>3, <1>5, <1>7 DEF IInv, Types
<1>9. OwnSecret'
  BY <1>1, <1>4, <1>5, <1>7 DEF IInv, OwnSecret
<1>10. \A q \in Ids : q # r => answer'[q] = answer[q]
  BY <1>5, <1>7
<1>11. answer'[r] = a
  BY <1>5, <1>7
<1>12. dialogs \in Seq(received) /\ dialogs \in Seq(received')
  BY <1>1 DEF IInv, Unanswered
<1>13. \A i \in 1..Len(dialogs) : dialogs[i] \in received
  BY <1>12, ElementOfSeq
<1>14. Len(dialogs) \in Nat
  BY <1>12, LenProperties
<1>15. received \subseteq Ids
  BY NumberOfIds DEF IInv, InOrder
<1>16. \A i \in 1..Len(dialogs) : answer'[dialogs[i]] = NoAnswer /\ dialogs[i] # r
  BY <1>7, <1>10, <1>13, <1>15 DEF IInv, Unanswered
<1>17. Unanswered'
  <2>1. \A q \in Ids \ received' : answer'[q] = NoAnswer
    BY <1>1, <1>10 DEF IInv, Unanswered
  <2>2. CASE a = NoAnswer
    <3>1. dialogs' = Append(dialogs, r)
      BY <1>6, <2>2
    <3>2. /\ dialogs' \in Seq(received') /\ Len(dialogs') = Len(dialogs) + 1
          /\ \A i \in 1..Len(dialogs) : dialogs'[i] = dialogs[i]
          /\ dialogs'[Len(dialogs) + 1] = r
      BY <1>1, <1>12, <3>1, AppendProperties
    <3>3. \A i \in 1..Len(dialogs') : answer'[dialogs'[i]] = NoAnswer
      BY <1>11, <1>14, <1>16, <2>2, <3>2
    <3>4. \A i, j \in 1..Len(dialogs') : dialogs'[i] = dialogs'[j] => i = j
      BY <1>14, <1>16, <3>2 DEF IInv, Unanswered
    <3> QED BY <2>1, <3>2, <3>3, <3>4 DEF Unanswered
  <2>3. CASE a # NoAnswer
    <3>1. dialogs' = dialogs
      BY <1>6, <2>3
    <3> QED BY <1>12, <1>16, <2>1, <3>1 DEF IInv, Unanswered
  <2> QED BY <2>2, <2>3
<1>18. a = NoAnswer => answer' = answer
  BY <1>1, <1>5, <1>7
<1> QED BY <1>1, <1>3, <1>5, <1>8, <1>9, <1>17, <1>18 DEF IInv

\* The dialogs that stay when the innermost closes.
LEMMA Shortened ==
  ASSUME NEW S, NEW d \in Seq(S), Len(d) # 0
  PROVE  /\ SubSeq(d, 1, Len(d) - 1) \in Seq(S) /\ Len(SubSeq(d, 1, Len(d) - 1)) = Len(d) - 1
         /\ \A i \in 1..(Len(d) - 1) : SubSeq(d, 1, Len(d) - 1)[i] = d[i]
<1> DEFINE e == SubSeq(d, 1, Len(d) - 1)
<1>1. Len(d) \in Nat /\ Len(d) - 1 \in Int /\ 1 \in Int
  BY LenProperties
<1>2. \A i \in 1..(Len(d) - 1) : d[i] \in S
  BY <1>1, ElementOfSeq
<1>3. /\ e \in Seq(S)
      /\ Len(e) = IF 1 <= Len(d) - 1 THEN Len(d) - 1 - 1 + 1 ELSE 0
      /\ \A i \in 1..(Len(d) - 1 - 1 + 1) : e[i] = d[1 + i - 1]
  BY <1>1, <1>2, SubSeqProperties
<1> HIDE DEF e
<1>4. Len(e) = Len(d) - 1
  <2>1. \A k \in Nat : k # 0 => (IF 1 <= k - 1 THEN k - 1 - 1 + 1 ELSE 0) = k - 1
    OBVIOUS
  <2> QED BY <1>1, <1>3, <2>1
<1>5. \A i \in 1..(Len(d) - 1) : e[i] = d[i]
  BY <1>1, <1>3
<1> QED BY <1>3, <1>4, <1>5 DEF e

LEMMA ClosedKeeps ==
  ASSUME IInv, Closed
  PROVE  /\ IInv'
         /\ \E r \in sent : \E a \in Answers :
               /\ r \in Ids /\ answer[r] = NoAnswer
               /\ answer' = [answer EXCEPT ![r] = a] /\ UNCHANGED sent
<1>1. PICK r \in received, secret \in TypedSecrets, a \in Answers :
         /\ dialogs # <<>> /\ r = dialogs[Len(dialogs)] /\ answer[r] = NoAnswer
         /\ r \in sent /\ r \in Ids
         /\ typed' = [typed EXCEPT ![r] = secret]
         /\ answer' = [answer EXCEPT ![r] = a]
         /\ a.is = "secret" => a.secret = secret /\ a.setting = RequestOf[r].setting
         /\ dialogs' = SubSeq(dialogs, 1, Len(dialogs) - 1)
         /\ UNCHANGED <<sent, received, cancelled>>
  BY Closes DEF IInv
<1>2. answer \in [Ids -> Answers \cup {NoAnswer}] /\ typed \in [Ids -> TypedSecrets]
  BY DEF IInv, Types
<1>3. Types'
  <2>1. answer' \in [Ids -> Answers \cup {NoAnswer}] /\ typed' \in [Ids -> TypedSecrets]
    BY <1>1, <1>2
  <2>2. cancelled' \subseteq sent'
    BY <1>1 DEF IInv, Types
  <2> QED BY <2>1, <2>2 DEF Types
<1>4. InOrder'
  BY <1>1 DEF IInv, InOrder
<1>5. /\ \A q \in Ids : q # r => answer'[q] = answer[q] /\ typed'[q] = typed[q]
      /\ answer'[r] = a /\ typed'[r] = secret
  BY <1>1, <1>2
<1>6. OwnSecret'
  BY <1>1, <1>5 DEF IInv, OwnSecret
<1>7. dialogs \in Seq(received) /\ Len(dialogs) \in Nat
  BY LenProperties DEF IInv, Unanswered
<1>8. Len(dialogs) # 0
  BY <1>1, <1>7, EmptySeq
<1>9. \A i \in 1..Len(dialogs) : dialogs[i] \in received
  BY <1>7, ElementOfSeq
<1>10. received \subseteq Ids
  BY NumberOfIds DEF IInv, InOrder
<1>11. /\ dialogs' \in Seq(received) /\ Len(dialogs') = Len(dialogs) - 1
       /\ \A i \in 1..(Len(dialogs) - 1) : dialogs'[i] = dialogs[i]
  BY <1>1, <1>7, <1>8, Shortened
<1>12. \A i \in 1..Len(dialogs') : dialogs'[i] = dialogs[i] /\ dialogs[i] # r /\ i \in 1..Len(dialogs)
  BY <1>1, <1>7, <1>8, <1>11 DEF IInv, Unanswered
<1>13. Unanswered'
  <2>1. \A i \in 1..Len(dialogs') : answer'[dialogs'[i]] = NoAnswer
    BY <1>5, <1>9, <1>10, <1>12 DEF IInv, Unanswered
  <2>2. \A i, j \in 1..Len(dialogs') : dialogs'[i] = dialogs'[j] => i = j
    BY <1>12 DEF IInv, Unanswered
  <2>3. \A q \in Ids \ received' : answer'[q] = NoAnswer
    BY <1>1, <1>5 DEF IInv, Unanswered
  <2> QED BY <1>1, <1>11, <2>1, <2>2, <2>3 DEF Unanswered
<1> QED BY <1>1, <1>3, <1>4, <1>6, <1>13 DEF IInv

\* A request that NetworkManager has given up is one that nobody looks at.
LEMMA OtherStepsKeep ==
  ASSUME IInv, Cancel \/ UNCHANGED vars
  PROVE  IInv' /\ UNCHANGED <<sent, answer>>
BY DEF IInv, Types, InOrder, Unanswered, OwnSecret, Cancel, vars

LEMMA Inductive == IInv /\ [Next]_vars => IInv'
BY SendKeeps, GetSecretsKeeps, ClosedKeeps, OtherStepsKeep DEF Next

-----------------------------------------------------------------------------
(* The key of an answer.                                                    *)

\* Requests for a mobile broadband PIN get no dialog, and an answer has the key its
\* handler has picked.
Handled ==
    /\ \A i \in 1..Len(dialogs) : RequestOf[dialogs[i]].setting # "gsm"
    /\ \A r \in Ids : answer[r].is = "secret" =>
          answer[r].key = AnsweredKey(RequestOf[r]) /\ RequestOf[r].setting # "gsm"

\* A non-empty set of numbers has a least one: what stands for induction here.
LEMMA NatMin ==
  ASSUME NEW T \in SUBSET Nat, T # {}
  PROVE  \E x \in T : \A y \in T : x <= y
<1> DEFINE R == {ss \in Nat \X Nat : ss[1] < ss[2]}
<1>1. IsWellFoundedOn(R, Nat)
  BY NatLessThanWellFounded DEF OpToRel
<1>2. \A x, y \in Nat : y < x => <<y, x>> \in R
  OBVIOUS
<1> HIDE DEF R
<1>3. PICK x \in T : \A y \in T : ~(<<y, x>> \in R)
  BY <1>1, WFMin
<1>4. \A y \in T : x <= y
  <2> SUFFICES ASSUME NEW y \in T PROVE x <= y
    OBVIOUS
  <2>1. x \in Nat /\ y \in Nat /\ ~(y < x)
    BY <1>2, <1>3
  <2> QED BY <2>1
<1> QED BY <1>4

\* The hints of a request are what NetworkManager may name for its setting.
LEMMA HintsOf ==
  ASSUME NEW r \in Ids
  PROVE  /\ RequestOf[r].setting \in Settings
         /\ \E n \in Nat : DOMAIN RequestOf[r].hints = 1..n
         /\ \A i \in DOMAIN RequestOf[r].hints :
               RequestOf[r].hints[i] \in MayName(RequestOf[r]) \cup {"x-vpn-message"}
<1>1. /\ RequestOf[r].setting \in Settings /\ RequestOf[r].hints \in Seq(Hints)
  BY SecretAgentAssumption
<1>2. Len(RequestOf[r].hints) \in Nat /\ DOMAIN RequestOf[r].hints = 1..Len(RequestOf[r].hints)
  BY <1>1, LenProperties
<1> QED BY <1>1, <1>2, HintsAssumption

\* The first hint that is no message, if there is one.
LEMMA FirstOfHints ==
  ASSUME NEW r \in Ids, NEW default, KeyHints(RequestOf[r].hints) # {}
  PROVE  \E i \in KeyHints(RequestOf[r].hints) :
            /\ \A j \in KeyHints(RequestOf[r].hints) : i <= j
            /\ FirstHint(RequestOf[r], default) = RequestOf[r].hints[i]
<1> DEFINE keys == KeyHints(RequestOf[r].hints)
           i == CHOOSE i \in keys : \A j \in keys : i <= j
<1>1. keys \in SUBSET Nat
  BY HintsOf DEF KeyHints
<1>2. \E k \in keys : \A j \in keys : k <= j
  <2> HIDE DEF keys
  <2> QED BY <1>1, NatMin DEF keys
<1>3. i \in keys /\ \A j \in keys : i <= j
  <2> HIDE DEF keys
  <2> QED BY <1>2
<1>4. FirstHint(RequestOf[r], default) = RequestOf[r].hints[i]
  BY DEF FirstHint
<1> HIDE DEF i
<1> QED BY <1>3, <1>4

\* The hint a handler takes is the first that names a key, unless it is the identity.
LEMMA FirstNamed ==
  ASSUME NEW r \in Ids, NEW default, FirstHint(RequestOf[r], default) # "identity",
         FirstHint(RequestOf[r], default) # default \/ KeyHints(RequestOf[r].hints) # {}
  PROVE  LET hints == RequestOf[r].hints
             named == {hints[i] : i \in DOMAIN hints} \ {"x-vpn-message", "identity"}
         IN  /\ named # {}
             /\ (CHOOSE h \in named : \E i \in DOMAIN hints :
                    hints[i] = h /\ \A j \in 1..(i - 1) : hints[j] \notin named)
                = FirstHint(RequestOf[r], default)
             /\ FirstHint(RequestOf[r], default) \in MayName(RequestOf[r])
<1> DEFINE hints == RequestOf[r].hints
           named == {hints[i] : i \in DOMAIN hints} \ {"x-vpn-message", "identity"}
           first == FirstHint(RequestOf[r], default)
           Leads(h) == \E i \in DOMAIN hints : hints[i] = h /\ \A j \in 1..(i - 1) : hints[j] \notin named
<1>1. KeyHints(hints) # {}
  BY DEF FirstHint
<1>2. PICK i \in KeyHints(hints) : (\A j \in KeyHints(hints) : i <= j) /\ first = hints[i]
  BY <1>1, FirstOfHints
<1>3. PICK n \in Nat : DOMAIN hints = 1..n
  BY HintsOf
<1>4. i \in DOMAIN hints /\ hints[i] # "x-vpn-message" /\ hints[i] # "identity" /\ hints[i] \in named
  BY <1>2 DEF KeyHints
<1>5. \A j \in DOMAIN hints : j < i => hints[j] = "x-vpn-message"
  BY <1>2, <1>3 DEF KeyHints
<1>6. first \in named /\ Leads(first)
  <2>1. \A j \in 1..(i - 1) : j \in DOMAIN hints /\ j < i
    BY <1>3, <1>4
  <2>2. \A j \in 1..(i - 1) : hints[j] \notin named
    BY <1>5, <2>1
  <2> QED BY <1>2, <1>4, <2>2
<1>7. ASSUME NEW h \in named, Leads(h) PROVE h = first
  <2>1. PICK k \in DOMAIN hints : hints[k] = h /\ \A j \in 1..(k - 1) : hints[j] \notin named
    BY <1>7
  <2>2. k \in KeyHints(hints)
    BY <2>1 DEF KeyHints
  <2>3. i <= k
    BY <1>2, <2>2
  <2>4. ~(i < k)
    <3> SUFFICES ASSUME i < k PROVE FALSE
      OBVIOUS
    <3>1. i \in 1..(k - 1)
      BY <1>3, <1>4
    <3> QED BY <1>4, <2>1, <3>1
  <2>5. i = k
    BY <1>3, <1>4, <2>3, <2>4
  <2> QED BY <1>2, <2>1, <2>5
<1>8. first \in MayName(RequestOf[r])
  BY <1>2, <1>4, HintsOf
<1> HIDE DEF named, first, Leads
<1>9. (CHOOSE h \in named : Leads(h)) = first
  BY <1>6, <1>7
<1> QED BY <1>6, <1>8, <1>9 DEF named, first, Leads

\* Without a hint that names a key, the default is taken.
LEMMA NothingNamed ==
  ASSUME NEW r \in Ids, KeyHints(RequestOf[r].hints) = {}
  PROVE  /\ \A default : FirstHint(RequestOf[r], default) = default
         /\ {RequestOf[r].hints[i] : i \in DOMAIN RequestOf[r].hints}
               \ {"x-vpn-message", "identity"} = {}
BY DEF FirstHint, KeyHints

\* The key a handler picks is the one that the setting lacks.
LEMMA PickedIsWanted ==
  ASSUME NEW r \in Ids, RequestOf[r].setting # "gsm"
  PROVE  IdentityFirst(RequestOf[r]) \/ AnsweredKey(RequestOf[r]) = Wanted(RequestOf[r])
<1> DEFINE q == RequestOf[r]
           named == {q.hints[i] : i \in DOMAIN q.hints} \ {"x-vpn-message", "identity"}
<1>1. SUFFICES ASSUME ~IdentityFirst(q) PROVE AnsweredKey(q) = Wanted(q)
  OBVIOUS
<1>2. q.setting \in {"802-11-wireless-security", "802-1x", "vpn", "pppoe"}
  BY HintsOf DEF Settings
<1>3. CASE KeyHints(q.hints) = {}
  <2>1. Wanted(q) = IF q.setting # "802-11-wireless-security" THEN "password"
                    ELSE IF SharedKey(q.mgmt) THEN "psk" ELSE "wep-key0"
    BY <1>3, NothingNamed DEF Wanted
  <2>2. /\ FirstHint(q, "password") = "password" /\ FirstHint(q, "wep-key0") = "wep-key0"
    BY <1>3, NothingNamed
  <2> HIDE DEF q
  <2> QED BY <1>2, <2>1, <2>2 DEF AnsweredKey, AskedKey, KeysOf8021x
<1>4. CASE KeyHints(q.hints) # {}
  <2> DEFINE first == FirstHint(q, "password")
  <2>1. \A d : FirstHint(q, d) = first
    BY <1>4 DEF FirstHint
  <2>2. first # "identity"
    BY <1>1 DEF IdentityFirst
  <2>3. Wanted(q) = first /\ first \in MayName(q)
    BY <1>4, <2>2, FirstNamed DEF Wanted
  <2> HIDE DEF q, first
  <2>4. AskedKey(q) = IF q.setting = "802-11-wireless-security" /\ SharedKey(q.mgmt)
                      THEN "psk" ELSE first
    BY <2>1 DEF AskedKey
  <2>5. CASE q.setting = "802-11-wireless-security"
    <3>1. first \in IF SharedKey(q.mgmt) THEN {"psk"} ELSE {"wep-key0", "wep-key1"}
      BY <2>3, <2>5 DEF MayName
    <3> QED BY <2>3, <2>4, <2>5, <3>1 DEF AnsweredKey
  <2>6. CASE q.setting = "802-1x"
    <3>1. first \in KeysOf8021x
      BY <2>2, <2>3, <2>6 DEF MayName
    <3> QED BY <2>3, <2>4, <2>6, <3>1 DEF AnsweredKey
  <2>7. CASE q.setting = "pppoe"
    <3>1. first = "password"
      BY <2>3, <2>7 DEF MayName
    <3> QED BY <2>3, <2>4, <2>7, <3>1 DEF AnsweredKey
  <2>8. CASE q.setting = "vpn"
    BY <2>3, <2>4, <2>8 DEF AnsweredKey
  <2>9. q.setting \in {"802-11-wireless-security", "802-1x", "vpn", "pppoe"}
    BY <1>2
  <2> QED BY <2>5, <2>6, <2>7, <2>8, <2>9
<1> QED BY <1>3, <1>4

LEMMA HandledKept ==
  ASSUME IInv, Handled, [Next]_vars
  PROVE  Handled'
<1>0. answer \in [Ids -> Answers \cup {NoAnswer}]
  BY DEF IInv, Types
<1>1. CASE Send
  BY <1>1 DEF Handled, Send
<1>2. CASE GetSecrets
  <2>1. PICK r \in Ids \ received :
           /\ answer' = [answer EXCEPT ![r] = RefusedAtOnce(RequestOf[r])]
           /\ dialogs' = IF RefusedAtOnce(RequestOf[r]) = NoAnswer
                         THEN Append(dialogs, r) ELSE dialogs
    BY <1>2, Receives DEF IInv
  <2> DEFINE a == RefusedAtOnce(RequestOf[r])
  <2>2. a.is # "secret"
    BY RefusedType DEF NoAnswer, Refused
  <2>3. a = NoAnswer => RequestOf[r].setting # "gsm"
    <3> SUFFICES ASSUME RequestOf[r].setting = "gsm" PROVE a # NoAnswer
      OBVIOUS
    <3>1. a = Refused("invalid") \/ a = Refused("unsupported")
      BY DEF RefusedAtOnce
    <3> HIDE DEF a
    <3> QED BY <3>1 DEF Refused, NoAnswer
  <2>4. /\ answer' = [answer EXCEPT ![r] = a]
        /\ dialogs' = IF a = NoAnswer THEN Append(dialogs, r) ELSE dialogs
    BY <2>1
  <2> HIDE DEF a
  <2>5. \A q \in Ids : answer'[q].is = "secret" =>
           answer'[q].key = AnsweredKey(RequestOf[q]) /\ RequestOf[q].setting # "gsm"
    BY <1>0, <2>2, <2>4 DEF Handled
  <2>6. \A i \in 1..Len(dialogs') : RequestOf[dialogs'[i]].setting # "gsm"
    <3>1. CASE a = NoAnswer
      <4>1. r \in Ids /\ dialogs \in Seq(received \cup {r}) /\ Len(dialogs) \in Nat
        <5>1. dialogs \in Seq(received)
          BY DEF IInv, Unanswered
        <5> QED BY <5>1, SeqMonotonic, LenProperties
      <4>2. /\ Len(dialogs') = Len(dialogs) + 1 /\ dialogs'[Len(dialogs) + 1] = r
            /\ \A i \in 1..Len(dialogs) : dialogs'[i] = dialogs[i]
        BY <2>4, <3>1, <4>1, AppendProperties
      <4> QED BY <2>3, <3>1, <4>1, <4>2 DEF Handled
    <3>2. CASE a # NoAnswer
      BY <2>4, <3>2 DEF Handled
    <3> QED BY <3>1, <3>2
  <2> QED BY <2>5, <2>6 DEF Handled
<1>3. CASE Closed
  <2>1. PICK r \in received, a \in Answers :
           /\ dialogs # <<>> /\ r = dialogs[Len(dialogs)] /\ r \in Ids
           /\ answer' = [answer EXCEPT ![r] = a]
           /\ a.is = "secret" => a.key = AnsweredKey(RequestOf[r])
           /\ dialogs' = SubSeq(dialogs, 1, Len(dialogs) - 1)
    BY <1>3, Closes DEF IInv
  <2>2. dialogs \in Seq(received)
    BY DEF IInv, Unanswered
  <2>3. Len(dialogs) \in Nat /\ Len(dialogs) # 0
    BY <2>1, <2>2, EmptySeq, LenProperties
  <2>4. RequestOf[r].setting # "gsm"
    BY <2>1, <2>3 DEF Handled
  <2>5. \A q \in Ids : answer'[q].is = "secret" =>
           answer'[q].key = AnsweredKey(RequestOf[q]) /\ RequestOf[q].setting # "gsm"
    BY <1>0, <2>1, <2>4 DEF Handled
  <2>6. \A i \in 1..Len(dialogs') : i \in 1..Len(dialogs) /\ dialogs'[i] = dialogs[i]
    BY <2>1, <2>2, <2>3, Shortened
  <2> QED BY <2>5, <2>6 DEF Handled
<1>4. CASE Cancel \/ UNCHANGED vars
  BY <1>4 DEF Handled, Cancel, vars
<1> QED BY <1>1, <1>2, <1>3, <1>4 DEF Next

-----------------------------------------------------------------------------
\* Types, of any number of requests: an answer that is sent is one NetworkManager
\* knows, and dialogs are open for received requests only.
THEOREM TypeCorrect == Spec => []TypeOK
<1>1. IInv => TypeOK
  <2> SUFFICES ASSUME IInv PROVE TypeOK
    OBVIOUS
  <2>1. PICK n, m \in 0..Cardinality(Ids) : m <= n /\ sent = 1..n /\ received = 1..m
    BY DEF IInv, InOrder
  <2>2. sent \subseteq Ids /\ received \subseteq sent
    BY <2>1, NumberOfIds
  <2> QED BY <2>2 DEF IInv, Types, Unanswered, TypeOK
<1> QED BY InitEstablishes, Inductive, <1>1, PTL DEF Spec

\* The secret sent for a request is the one typed in that request's own dialog,
\* for its own setting, whatever number of requests nest and in whatever order
\* their dialogs are opened (nm/secrets_prompt.cpp's loops, nmsecretagent.c).
THEOREM SentIsTyped == Spec => []OwnSecret
<1>1. IInv => OwnSecret
  BY DEF IInv
<1> QED BY InitEstablishes, Inductive, <1>1, PTL DEF Spec

\* It goes under the key that the setting lacks, too, as long as NetworkManager names
\* what the setting has: for any hints, whatever the order in which they come, but for
\* the identity before a key (nmsecretagent.c, first_secret_hint and the handlers).
THEOREM AnsweredRight == Spec => []AnswerIsItsOwn
<1>1. Init => Handled
  <2> SUFFICES ASSUME Init PROVE Handled
    OBVIOUS
  <2>1. dialogs = <<>> /\ answer = [r \in Ids |-> NoAnswer]
    BY DEF Init
  <2>2. 1..Len(<<>>) = {}
    OBVIOUS
  <2> QED BY <2>1, <2>2 DEF Handled, NoAnswer
<1>2. IInv /\ Handled /\ [Next]_vars => Handled'
  BY HandledKept
<1>3. IInv /\ Handled => AnswerIsItsOwn
  BY PickedIsWanted DEF IInv, Handled, AnswerIsItsOwn, UnderWantedKey
<1> QED BY InitEstablishes, Inductive, <1>1, <1>2, <1>3, PTL DEF Spec

\* The handlers implement the agent NetworkManager expects, but for liveness: a
\* request is answered only after it was sent, once, with an answer that is one.
THEOREM AnswersOnce == Spec => Agent!Init /\ [][Agent!Next]_(Agent!vars)
<1>1. Init => Agent!Init
  BY DEF Init, Agent!Init
<1>2. IInv /\ [Next]_vars => [Agent!Next]_(Agent!vars)
  <2> SUFFICES ASSUME IInv, [Next]_vars PROVE [Agent!Next]_(Agent!vars)
    OBVIOUS
  <2>1. CASE Send
    <3>1. PICK r \in Ids \ sent : sent' = sent \cup {r} /\ UNCHANGED answer
      BY <2>1, SendKeeps
    <3>2. Agent!Ask(r)
      BY <3>1 DEF Agent!Ask
    <3> QED BY <3>2 DEF Agent!Next
  <2>2. ASSUME NEW r \in sent, NEW a \in Answers, r \in Ids, answer[r] = NoAnswer,
               answer' = [answer EXCEPT ![r] = a], UNCHANGED sent
        PROVE  Agent!Next
    <3>1. Agent!Answer(r)
      BY <2>2 DEF Agent!Answer
    <3> QED BY <2>2, <3>1 DEF Agent!Next
  <2>3. CASE GetSecrets
    BY <2>2, <2>3, GetSecretsKeeps DEF Agent!vars
  <2>4. CASE Closed
    BY <2>2, <2>4, ClosedKeeps
  <2>5. CASE Cancel \/ UNCHANGED vars
    BY <2>5, OtherStepsKeep DEF Agent!vars
  <2> QED BY <2>1, <2>3, <2>4, <2>5 DEF Next
<1> QED BY InitEstablishes, Inductive, <1>1, <1>2, PTL DEF Spec
=============================================================================
