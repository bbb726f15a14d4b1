---------------------------- MODULE MainMenuProofs ----------------------------
(***************************************************************************)
(* For lists of any length, and any number of refreshes, clicks and        *)
(* showings: the ids of the rows mean what the rows name, a click goes     *)
(* wrong only over lists that have changed, and what the user points at    *)
(* stays under an open submenu.                                            *)
(***************************************************************************)
EXTENDS MainMenu, TLAPS, FiniteSetTheorems, SequenceTheorems, WellFoundedInduction

(***************************************************************************)
(* The rows on the screen under an open submenu                            *)
(***************************************************************************)

\* A submenu is open over an open menu only: a menu that is shown afresh, or built
\* again, has none yet.
SubmenuOverMenu == SubmenuOpen => Open

LEMMA InitEstablishes == Init => SubmenuOverMenu
BY DEF Init, SubmenuOverMenu, SubmenuOpen

\* What each action does to the rows of the menu and of the submenu.
LEMMA RowsStep ==
  ASSUME SubmenuOverMenu, [Next]_vars
  PROVE  \/ UNCHANGED <<rows, subRows>>
         \/ subRows' = NoRows /\ rows' = rows
         \/ subRows' = NoRows /\ rows' = NoRows
         \/ ~SubmenuOpen /\ subRows' = NoRows
         \/ ~SubmenuOpen /\ Open /\ rows' = rows
<1>1. CASE Refresh
  BY <1>1 DEF Refresh, popup
<1>2. CASE UpdateTimeout
  <2>1. CASE ~Open \/ SubmenuOpen
    BY <1>2, <2>1 DEF UpdateTimeout, popup
  <2>2. CASE Open /\ ~SubmenuOpen /\ Fingerprint(data) # drawn
    <3>1. Shown(data)
      BY <1>2, <2>2 DEF UpdateTimeout
    <3> QED BY <2>2, <3>1 DEF Shown
  <2>3. CASE Open /\ ~SubmenuOpen /\ Fingerprint(data) = drawn
    <3>1. UNCHANGED subRows
      BY <1>2, <2>3 DEF UpdateTimeout
    <3> QED BY <2>3, <3>1 DEF SubmenuOpen
  <2> QED BY <2>1, <2>2, <2>3
<1>3. CASE ShowMainMenu
  <2>1. ~Open
    BY <1>3 DEF ShowMainMenu
  <2>2. subRows' = NoRows
    BY <1>3 DEF ShowMainMenu, Shown
  <2> QED BY <2>1, <2>2 DEF SubmenuOverMenu
<1>4. CASE HideMenu
  BY <1>4 DEF HideMenu, Hidden
<1>5. CASE OpenSubmenu
  <2>1. \E i \in DOMAIN rows : rows[i].kind = "saved networks"
    BY <1>5 DEF OpenSubmenu
  <2>2. Open
    <3>1. 1..0 = {}
      OBVIOUS
    <3>2. DOMAIN <<>> = 1..0
      OBVIOUS
    <3> QED BY <2>1, <3>1, <3>2 DEF Open, NoRows
  <2> QED BY <1>5, <2>2 DEF OpenSubmenu
<1>6. CASE CloseSubmenu
  BY <1>6 DEF CloseSubmenu
<1>7. CASE Click
  <2>1. PICK sub \in BOOLEAN : \E r \in Range(IF sub THEN subRows ELSE rows) :
           IF KeepsOpen(r.id)
           THEN /\ subRows' = NoRows
                /\ drawnFrom' = [drawnFrom EXCEPT !.sub = NoName]
                /\ UNCHANGED <<rows, drawn>>
           ELSE Hidden
    BY <1>7 DEF Click
  <2> QED BY <2>1 DEF Hidden
<1>8. CASE Execute
  BY <1>8 DEF Execute, popup
<1>9. CASE UNCHANGED vars
  BY <1>9 DEF vars, popup
<1> QED BY <1>1, <1>2, <1>3, <1>4, <1>5, <1>6, <1>7, <1>8, <1>9 DEF Next

LEMMA Inductive == SubmenuOverMenu /\ [Next]_vars => SubmenuOverMenu'
<1> SUFFICES ASSUME SubmenuOverMenu, [Next]_vars PROVE SubmenuOverMenu'
  OBVIOUS
<1> QED BY RowsStep DEF SubmenuOverMenu, SubmenuOpen, Open

(***************************************************************************)
(* Sequences of rows, and how many of a kind they have                     *)
(***************************************************************************)

\* A sequence, whatever its elements are.
IsSeq(q) == q \in Seq(Range(q))

\* The rows of some kinds, and how many there are.
Of(q, ks) == {i \in DOMAIN q : q[i].kind \in ks}
Count(q, ks) == Cardinality(Of(q, ks))

LEMMA SeqFacts ==
  ASSUME NEW q, IsSeq(q)
  PROVE  Len(q) \in Nat /\ DOMAIN q = 1..Len(q) /\ (q = <<>> <=> Len(q) = 0)
BY DEF IsSeq

LEMMA SeqIsSeq ==
  ASSUME NEW S, NEW q \in Seq(S)
  PROVE  IsSeq(q)
<1>1. Len(q) \in Nat /\ DOMAIN q = 1..Len(q) /\ q \in [1..Len(q) -> S]
  BY LenProperties
<1>2. q \in [1..Len(q) -> Range(q)]
  BY <1>1 DEF Range
<1> QED BY <1>1, <1>2, SeqDef DEF IsSeq

LEMMA Emptied == IsSeq(<<>>) /\ Range(<<>>) = {} /\ \A ks : Count(<<>>, ks) = 0
<1>1. IsSeq(<<>>)
  BY EmptySeq DEF IsSeq
<1>2. DOMAIN <<>> = {}
  BY <1>1, SeqFacts
<1> QED BY <1>1, <1>2, FS_EmptySet DEF Range, Count, Of

LEMMA Single ==
  ASSUME NEW r
  PROVE  /\ IsSeq(<<r>>) /\ Range(<<r>>) = {r}
         /\ \A ks : Count(<<r>>, ks) = IF r.kind \in ks THEN 1 ELSE 0
<1>1. <<r>> \in Seq({r}) /\ DOMAIN <<r>> = {1} /\ <<r>>[1] = r
  OBVIOUS
<1>2. \A ks : Of(<<r>>, ks) = IF r.kind \in ks THEN {1} ELSE {}
  BY <1>1 DEF Of
<1>3. Range(<<r>>) = {r}
  BY <1>1 DEF Range
<1> QED BY <1>1, <1>2, <1>3, SeqIsSeq, FS_EmptySet, FS_Singleton DEF Count

LEMMA Mapped ==
  ASSUME NEW n \in Nat, NEW q, q = [i \in 1..n |-> q[i]]
  PROVE  IsSeq(q) /\ Len(q) = n /\ DOMAIN q = 1..n
<1>1. q \in [1..n -> Range(q)]
  BY DEF Range
<1>2. q \in Seq(Range(q))
  BY <1>1, SeqDef
<1>3. DOMAIN q = 1..n
  OBVIOUS
<1>4. Len(q) = n
  BY <1>2, <1>3, LenProperties
<1> QED BY <1>2, <1>3, <1>4 DEF IsSeq

LEMMA OfFinite ==
  ASSUME NEW q, IsSeq(q), NEW ks
  PROVE  IsFiniteSet(Of(q, ks)) /\ Of(q, ks) \subseteq 1..Len(q) /\ Count(q, ks) \in Nat
<1>1. Of(q, ks) \subseteq 1..Len(q)
  BY SeqFacts DEF Of
<1>2. IsFiniteSet(1..Len(q))
  BY SeqFacts, FS_Interval
<1>3. IsFiniteSet(Of(q, ks))
  BY <1>1, <1>2, FS_Subset
<1> QED BY <1>1, <1>3, FS_CardinalityType DEF Count

\* A concatenation has the rows of both parts, and as many as both together.
LEMMA Joined ==
  ASSUME NEW p, NEW q, IsSeq(p), IsSeq(q)
  PROVE  /\ IsSeq(p \o q) /\ Range(p \o q) = Range(p) \cup Range(q)
         /\ \A ks : Count(p \o q, ks) = Count(p, ks) + Count(q, ks)
<1> DEFINE S == Range(p) \cup Range(q)
<1>1. p \in Seq(S) /\ q \in Seq(S)
  <2>1. Range(p) \subseteq S /\ Range(q) \subseteq S
    OBVIOUS
  <2> HIDE DEF S
  <2> QED BY <2>1, SeqMonotonic DEF IsSeq
<1> HIDE DEF S
<1>2. /\ p \o q \in Seq(S) /\ Len(p \o q) = Len(p) + Len(q)
      /\ \A i \in 1 .. Len(p) + Len(q) : (p \o q)[i] =
                     IF i <= Len(p) THEN p[i] ELSE q[i - Len(p)]
  BY <1>1, ConcatProperties
<1>3. IsSeq(p \o q)
  BY <1>2, SeqIsSeq
<1>4. /\ DOMAIN (p \o q) = 1..(Len(p) + Len(q))
      /\ DOMAIN p = 1..Len(p) /\ DOMAIN q = 1..Len(q) /\ Len(p) \in Nat /\ Len(q) \in Nat
  BY <1>2, <1>3, SeqFacts
<1>5. \A i \in DOMAIN q : i + Len(p) \in DOMAIN (p \o q) /\ (p \o q)[i + Len(p)] = q[i]
  BY <1>2, <1>4
<1>6. \A i \in DOMAIN p : i \in DOMAIN (p \o q) /\ (p \o q)[i] = p[i]
  BY <1>2, <1>4
<1>7. \A i \in DOMAIN (p \o q) : i \in DOMAIN p \/ (i - Len(p) \in DOMAIN q /\ i = (i - Len(p)) + Len(p))
  BY <1>4
<1>8. Range(p \o q) = Range(p) \cup Range(q)
  BY <1>5, <1>6, <1>7 DEF Range
<1>9. ASSUME NEW ks PROVE Count(p \o q, ks) = Count(p, ks) + Count(q, ks)
  <2> DEFINE A == Of(p, ks)
             B == Of(q, ks)
             C == {i + Len(p) : i \in B}
             f == [i \in B |-> i + Len(p)]
  <2>1. Of(p \o q, ks) = A \cup C
    BY <1>5, <1>6, <1>7 DEF Of
  <2>2. IsFiniteSet(A) /\ IsFiniteSet(B) /\ A \subseteq 1..Len(p) /\ B \subseteq 1..Len(q)
    BY OfFinite
  <2>3. f \in Bijection(B, C)
    <3>1. B \subseteq Nat
      BY <2>2, <1>4
    <3> HIDE DEF A, B
    <3> QED BY <3>1, <1>4 DEF Bijection, Injection, Surjection, IsInjective
  <2> HIDE DEF A, B, C, f
  <2>4. IsFiniteSet(C) /\ Cardinality(C) = Cardinality(B)
    BY <2>2, <2>3, FS_Bijection DEF ExistsBijection
  <2>5. A \cap C = {}
    <3>1. \A i \in B : i \in Nat /\ i + Len(p) > Len(p)
      BY <2>2, <1>4
    <3>2. \A x \in C : x > Len(p)
      BY <3>1 DEF C
    <3>3. \A x \in A : ~(x > Len(p))
      BY <2>2, <1>4
    <3> QED BY <3>2, <3>3
  <2>6. Cardinality(A \cup C) = Cardinality(A) + Cardinality(C) - Cardinality(A \cap C)
    BY <2>2, <2>4, FS_Union
  <2>7. Cardinality(A) \in Nat /\ Cardinality(C) \in Nat /\ Cardinality(A \cap C) = 0
    BY <2>2, <2>4, <2>5, FS_CardinalityType, FS_EmptySet
  <2> QED BY <2>1, <2>4, <2>6, <2>7 DEF Count, A, B
<1> QED BY <1>3, <1>8, <1>9

LEMMA Appended ==
  ASSUME NEW q, IsSeq(q), NEW e
  PROVE  /\ IsSeq(Append(q, e)) /\ Len(Append(q, e)) = Len(q) + 1
         /\ Range(Append(q, e)) = Range(q) \cup {e}
<1>1. DOMAIN q = 1..Len(q) /\ Len(q) \in Nat
  BY SeqFacts
<1>2. q \in Seq(Range(q) \cup {e})
  BY SeqMonotonic DEF IsSeq
<1>3. /\ Append(q, e) \in Seq(Range(q) \cup {e}) /\ Len(Append(q, e)) = Len(q) + 1
      /\ \A i \in 1..Len(q) : Append(q, e)[i] = q[i]
      /\ Append(q, e)[Len(q) + 1] = e
  BY <1>2, AppendProperties
<1>4. DOMAIN Append(q, e) = 1..(Len(q) + 1)
  BY <1>3, LenProperties
<1>5. Range(Append(q, e)) = Range(q) \cup {e}
  <2>1. \A i \in 1..(Len(q) + 1) : i \in 1..Len(q) \/ i = Len(q) + 1
    BY <1>1
  <2>2. \A i \in 1..Len(q) : i \in 1..(Len(q) + 1)
    BY <1>1
  <2>3. Len(q) + 1 \in 1..(Len(q) + 1)
    BY <1>1
  <2> QED BY <1>1, <1>3, <1>4, <2>1, <2>2, <2>3 DEF Range
<1> QED BY <1>3, <1>5, SeqIsSeq

LEMMA HeadAndTail ==
  ASSUME NEW q, IsSeq(q), q # <<>>
  PROVE  /\ Head(q) \in Range(q) /\ IsSeq(Tail(q))
         /\ Len(Tail(q)) = Len(q) - 1 /\ Range(Tail(q)) \subseteq Range(q)
<1>1. /\ Head(q) \in Range(q) /\ Tail(q) \in Seq(Range(q)) /\ Len(Tail(q)) = Len(q) - 1
  BY HeadTailProperties DEF IsSeq
<1>2. Range(Tail(q)) \subseteq Range(q)
  <2>1. Tail(q) \in [1..Len(Tail(q)) -> Range(q)] /\ DOMAIN Tail(q) = 1..Len(Tail(q))
    BY <1>1, LenProperties
  <2>2. \A i \in DOMAIN Tail(q) : Tail(q)[i] \in Range(q)
    BY <2>1
  <2> QED BY <2>2 DEF Range
<1> QED BY <1>1, <1>2, SeqIsSeq

LEMMA SameLength ==
  ASSUME NEW m \in Nat, NEW n \in Nat, 1..m = 1..n
  PROVE  m = n
<1>1. m \in 1..m \/ m = 0
  OBVIOUS
<1>2. n \in 1..n \/ n = 0
  OBVIOUS
<1> QED BY <1>1, <1>2

\* A non-empty set of numbers has a least one: what stands for induction here.
LEMMA NatMin ==
  ASSUME NEW T \in SUBSET Nat, T # {}
  PROVE  \E x \in T : \A y \in T : x <= y
<1> DEFINE R == {ss \in Nat \X Nat : ss[1] < ss[2]}
<1>1. IsWellFoundedOn(R, Nat)
  BY NatLessThanWellFounded DEF OpToRel
<1>2. \A x, y \in Nat : y < x => <<y, x>> \in R
  OBVIOUS
<1> HIDE DEF R
<1>3. PICK x \in T : \A y \in T : ~(<<y, x>> \in R)
  BY <1>1, WFMin
<1>4. \A y \in T : x <= y
  <2> SUFFICES ASSUME NEW y \in T PROVE x <= y
    OBVIOUS
  <2>1. x \in Nat /\ y \in Nat /\ ~(y < x)
    BY <1>2, <1>3
  <2> QED BY <2>1
<1> QED BY <1>4

\* The k-th of a set of indices is one of the set.
LEMMA NthExists ==
  ASSUME NEW n \in Nat, NEW set \in SUBSET (1..n), NEW k \in 1..Cardinality(set)
  PROVE  Nth(set, k) \in set
<1> DEFINE Upto(i) == {j \in set : j <= i}
           T == {i \in 0..n : Cardinality(Upto(i)) >= k}
<1>0. \A j \in set : j \in 1..n
  OBVIOUS
<1>1. IsFiniteSet(set)
  <2>1. IsFiniteSet(1..n)
    BY FS_Interval
  <2> QED BY <2>1, FS_Subset
<1>2. \A i : IsFiniteSet(Upto(i)) /\ Cardinality(Upto(i)) \in Nat
  BY <1>1, FS_Subset, FS_CardinalityType
<1>3. Upto(n) = set
  <2>1. \A j \in set : j <= n
    BY <1>0
  <2> QED BY <2>1
<1>4. Upto(0) = {} /\ Cardinality({}) = 0
  <2>1. \A j \in set : ~(j <= 0)
    BY <1>0
  <2> QED BY <2>1, FS_EmptySet
<1>5. Cardinality(set) \in Nat /\ k \in Nat /\ 1 <= k /\ k <= Cardinality(set)
  BY <1>1, FS_CardinalityType
<1>6. \A i \in 1..n : Upto(i) = IF i \in set THEN Upto(i-1) \cup {i} ELSE Upto(i-1)
  <2> SUFFICES ASSUME NEW i \in 1..n
               PROVE  Upto(i) = IF i \in set THEN Upto(i-1) \cup {i} ELSE Upto(i-1)
    OBVIOUS
  <2>1. \A j \in set : j <= i <=> j <= i - 1 \/ j = i
    BY <1>0
  <2>2. ~(i <= i - 1)
    OBVIOUS
  <2>3. i <= i
    OBVIOUS
  <2> QED BY <2>1, <2>2, <2>3
<1>7. \A i \in 1..n : Cardinality(Upto(i)) = IF i \in set THEN Cardinality(Upto(i-1)) + 1
                                             ELSE Cardinality(Upto(i-1))
  <2> SUFFICES ASSUME NEW i \in 1..n
               PROVE  Cardinality(Upto(i)) = IF i \in set THEN Cardinality(Upto(i-1)) + 1
                                             ELSE Cardinality(Upto(i-1))
    OBVIOUS
  <2>1. i \notin Upto(i-1)
    OBVIOUS
  <2>2. IsFiniteSet(Upto(i-1))
    BY <1>2
  <2>3. Upto(i) = IF i \in set THEN Upto(i-1) \cup {i} ELSE Upto(i-1)
    BY <1>6
  <2> HIDE DEF Upto
  <2>4. Cardinality(Upto(i-1) \cup {i}) = Cardinality(Upto(i-1)) + 1
    BY <2>1, <2>2, FS_AddElement
  <2> QED BY <2>3, <2>4
<1> HIDE DEF Upto
<1>8. T \in SUBSET Nat /\ n \in T
  BY <1>3, <1>5
<1>9. PICK i \in T : \A j \in T : i <= j
  <2> HIDE DEF T
  <2> QED BY <1>8, NatMin
<1>10. i \in 0..n /\ Cardinality(Upto(i)) >= k /\ i # 0
  BY <1>4, <1>5, <1>9
<1>11. i - 1 \in 0..n /\ i \in 1..n /\ i - 1 \notin T
  BY <1>9, <1>10
<1>12. ~(Cardinality(Upto(i-1)) >= k) /\ Cardinality(Upto(i-1)) \in Nat /\ Cardinality(Upto(i)) \in Nat
  BY <1>2, <1>11
<1>13. i \in set /\ Cardinality(Upto(i)) = Cardinality(Upto(i-1)) + 1
  BY <1>5, <1>7, <1>10, <1>11, <1>12
<1>14. Cardinality(Upto(i)) = k
  BY <1>5, <1>10, <1>12, <1>13
<1> QED BY <1>13, <1>14 DEF Nth, Upto

(***************************************************************************)
(* What fillMain and fillSavedSubmenu build                                *)
(***************************************************************************)

\* A row that has an index names the item the index means in the snapshot.
Names(r, s) ==
  r.id[1] \in Kinds => /\ r.id[2] \in DOMAIN ListFor(s, r.id[1])
                       /\ ListFor(s, r.id[1])[r.id[2]].name = r.name

\* A row of a menu that is built from the snapshot.
Fits(r, s) ==
  /\ r = Row(r.kind, r.id, r.name, r.mark)
  /\ r.kind \in RowKinds \ {"more"}
  /\ r.kind \in {"available", "vpn"} => r.id[1] = r.kind
  /\ r.kind \in {"active", "connecting"} => r.id[1] \notin Kinds
  /\ Names(r, s)

LEMMA Lists ==
  ASSUME NEW s \in Snapshots
  PROVE  /\ ListFor(s, "available") = s.available /\ ListFor(s, "wired") = s.wiredSaved
         /\ ListFor(s, "vpn") = s.vpn
         /\ ListFor(s, "more") = [i \in 1..Len(s.more) |-> [name |-> s.more[i], on |-> FALSE]]
BY DEF ListFor

LEMMA Plain ==
  ASSUME NEW s, NEW kind \in RowKinds \ {"more", "available", "vpn"}, NEW tag, tag \notin Kinds,
         NEW name, NEW mark
  PROVE  Fits(Row(kind, <<tag, 0>>, name, mark), s)
BY DEF Fits, Names, Row

LEMMA Indexed ==
  ASSUME NEW s, NEW kind \in RowKinds \ {"more", "active", "connecting"}, NEW tag \in Kinds,
         kind \in {"available", "vpn"} => tag = kind,
         NEW i \in DOMAIN ListFor(s, tag), NEW mark
  PROVE  Fits(Row(kind, <<tag, i>>, ListFor(s, tag)[i].name, mark), s)
BY DEF Fits, Names, Row

\* A part of such a menu, with rows of some kinds only.
Fitting(q, s, ks) == IsSeq(q) /\ \A r \in Range(q) : Fits(r, s) /\ r.kind \in ks

LEMMA FittingSingle ==
  ASSUME NEW s, NEW r, Fits(r, s)
  PROVE  Fitting(<<r>>, s, {r.kind})
<1>1. IsSeq(<<r>>) /\ Range(<<r>>) = {r}
  BY Single
<1> QED BY <1>1 DEF Fitting

LEMMA Pair ==
  ASSUME NEW x, NEW y
  PROVE  IsSeq(<<x, y>>) /\ Range(<<x, y>>) = {x, y}
<1>1. <<x, y>> \in Seq({x, y}) /\ DOMAIN <<x, y>> = 1..2 /\ <<x, y>>[1] = x /\ <<x, y>>[2] = y
  OBVIOUS
<1>2. 1..2 = {1, 2}
  OBVIOUS
<1> QED BY <1>1, <1>2, SeqIsSeq DEF Range

LEMMA FittingLabel ==
  ASSUME NEW s, NEW kind \in RowKinds \ {"more", "available", "vpn"}
  PROVE  Fitting(<<Label(kind)>>, s, {kind})
<1>1. "none" \notin Kinds
  BY DEF Kinds
<1>2. Fits(Label(kind), s)
  BY <1>1, Plain DEF Label
<1>3. Label(kind).kind = kind
  BY DEF Label, Row
<1> QED BY <1>2, <1>3, FittingSingle

LEMMA FittingJoined ==
  ASSUME NEW s, NEW p, NEW q, NEW ks, NEW ls, Fitting(p, s, ks), Fitting(q, s, ls)
  PROVE  Fitting(p \o q, s, ks \cup ls)
<1>1. IsSeq(p \o q) /\ Range(p \o q) = Range(p) \cup Range(q)
  BY Joined DEF Fitting
<1> QED BY <1>1 DEF Fitting

LEMMA FittingMapped ==
  ASSUME NEW s, NEW n \in Nat, NEW q, q = [i \in 1..n |-> q[i]], NEW ks,
         \A i \in 1..n : Fits(q[i], s) /\ q[i].kind \in ks
  PROVE  Fitting(q, s, ks) /\ Len(q) = n
<1>1. IsSeq(q) /\ Len(q) = n /\ DOMAIN q = 1..n
  BY Mapped
<1> QED BY <1>1 DEF Fitting, Range

LEMMA CountNone ==
  ASSUME NEW s, NEW q, NEW ks, Fitting(q, s, ks), NEW ls, ks \cap ls = {}
  PROVE  Count(q, ls) = 0
<1>1. Of(q, ls) = {}
  BY DEF Fitting, Of, Range
<1> QED BY <1>1, FS_EmptySet DEF Count

LEMMA CountAll ==
  ASSUME NEW s, NEW q, NEW ks, Fitting(q, s, ks), NEW ls, ks \subseteq ls
  PROVE  Count(q, ls) = Len(q)
<1>1. Len(q) \in Nat /\ DOMAIN q = 1..Len(q)
  BY SeqFacts DEF Fitting
<1>2. Of(q, ls) = 1..Len(q)
  BY <1>1 DEF Fitting, Of, Range
<1>3. Cardinality(1..Len(q)) = Len(q)
  <2>1. Cardinality(1..Len(q)) = IF 1 > Len(q) THEN 0 ELSE Len(q) - 1 + 1
    BY <1>1, FS_Interval
  <2> QED BY <1>1, <2>1
<1> QED BY <1>2, <1>3 DEF Count

WiredKinds == {"wired status", "wired active", "wired saved"}

LEMMA WiredFit ==
  ASSUME NEW s \in Snapshots
  PROVE  Fitting(WiredRows(s), s, WiredKinds)
<1> DEFINE idle == {i \in 1..Len(s.wiredSaved) : ~s.wiredSaved[i].on}
           on == IF s.activeWired = NoName THEN <<>>
                 ELSE <<Row("wired active", <<"none", 0>>, s.activeWired, s.wiredActivating)>>
           saved == [k \in 1..Cardinality(idle) |->
                       Row("wired saved", <<"wired", Nth(idle, k)>>,
                           s.wiredSaved[Nth(idle, k)].name, FALSE)]
<1>1. Len(s.wiredSaved) \in Nat /\ DOMAIN s.wiredSaved = 1..Len(s.wiredSaved)
  BY SnapshotsAssumption DEF IsList
<1>2. idle \in SUBSET (1..Len(s.wiredSaved)) /\ Cardinality(idle) \in Nat
  <2>1. idle \in SUBSET (1..Len(s.wiredSaved))
    OBVIOUS
  <2>2. IsFiniteSet(1..Len(s.wiredSaved))
    BY <1>1, FS_Interval
  <2> HIDE DEF idle
  <2> QED BY <2>1, <2>2, FS_Subset, FS_CardinalityType
<1>3. WiredRows(s) \in {<<>>, <<Label("wired status")>>, on \o saved}
  BY DEF WiredRows
<1>4. Fitting(on, s, {"wired active"})
  <2>1. CASE s.activeWired = NoName
    <3>1. on = <<>>
      BY <2>1
    <3> HIDE DEF on
    <3> QED BY <3>1, Emptied DEF Fitting
  <2>2. CASE s.activeWired # NoName
    <3> DEFINE r == Row("wired active", <<"none", 0>>, s.activeWired, s.wiredActivating)
    <3>1. on = <<r>>
      BY <2>2
    <3>2. Fits(r, s)
      BY Plain DEF RowKinds, Kinds
    <3>3. r.kind = "wired active"
      BY DEF Row
    <3> HIDE DEF on, r
    <3> QED BY <3>1, <3>2, <3>3, FittingSingle
  <2> QED BY <2>1, <2>2
<1>5. \A k \in 1..Cardinality(idle) : Fits(saved[k], s) /\ saved[k].kind \in {"wired saved"}
  <2> SUFFICES ASSUME NEW k \in 1..Cardinality(idle)
               PROVE  Fits(saved[k], s) /\ saved[k].kind \in {"wired saved"}
    OBVIOUS
  <2> DEFINE i == Nth(idle, k)
  <2>1. i \in idle
    <3> HIDE DEF idle
    <3> QED BY <1>1, <1>2, NthExists
  <2>2. i \in DOMAIN s.wiredSaved
    BY <1>1, <2>1
  <2>3. saved[k] = Row("wired saved", <<"wired", i>>, s.wiredSaved[i].name, FALSE)
    OBVIOUS
  <2> HIDE DEF i, saved, idle
  <2>4. ListFor(s, "wired") = s.wiredSaved
    BY Lists
  <2>5. "wired saved" \in RowKinds \ {"more", "active", "connecting"} /\ "wired" \in Kinds
    BY DEF RowKinds, Kinds
  <2>6. i \in DOMAIN ListFor(s, "wired")
    BY <2>2, <2>4
  <2>7. Fits(Row("wired saved", <<"wired", i>>, ListFor(s, "wired")[i].name, FALSE), s)
    BY <2>5, <2>6, Indexed
  <2>8. Row("wired saved", <<"wired", i>>, ListFor(s, "wired")[i].name, FALSE).kind = "wired saved"
    BY DEF Row
  <2> QED BY <2>3, <2>4, <2>7, <2>8
<1>6. Fitting(saved, s, {"wired saved"})
  <2>1. saved = [k \in 1..Cardinality(idle) |-> saved[k]]
    OBVIOUS
  <2> HIDE DEF saved
  <2> QED BY <1>2, <1>5, <2>1, FittingMapped
<1> HIDE DEF on, saved
<1>7. Fitting(on \o saved, s, {"wired active"} \cup {"wired saved"})
  BY <1>4, <1>6, FittingJoined
<1>8. CASE WiredRows(s) = <<>>
  BY <1>8, Emptied DEF Fitting
<1>9. CASE WiredRows(s) = <<Label("wired status")>>
  <2>1. Fitting(<<Label("wired status")>>, s, {"wired status"})
    BY FittingLabel DEF RowKinds
  <2> QED BY <1>9, <2>1 DEF Fitting, WiredKinds
<1>10. CASE WiredRows(s) = on \o saved
  BY <1>7, <1>10 DEF Fitting, WiredKinds
<1> QED BY <1>3, <1>8, <1>9, <1>10

LEMMA VpnFit ==
  ASSUME NEW s \in Snapshots
  PROVE  Fitting(VpnRows(s), s, {"vpn"})
<1>1. Len(s.vpn) \in Nat /\ DOMAIN s.vpn = 1..Len(s.vpn)
  BY SnapshotsAssumption DEF IsList
<1>2. ListFor(s, "vpn") = s.vpn
  BY Lists
<1>3. ASSUME NEW i \in 1..Len(s.vpn)
      PROVE  Fits(VpnRows(s)[i], s) /\ VpnRows(s)[i].kind \in {"vpn"}
  <2>1. VpnRows(s)[i] = Row("vpn", <<"vpn", i>>, s.vpn[i].name, s.vpn[i].on)
    BY DEF VpnRows
  <2>2. "vpn" \in RowKinds \ {"more", "active", "connecting"} /\ "vpn" \in Kinds
    BY DEF RowKinds, Kinds
  <2>3. Fits(Row("vpn", <<"vpn", i>>, ListFor(s, "vpn")[i].name, s.vpn[i].on), s)
    BY <1>1, <1>2, <2>2, Indexed
  <2>4. VpnRows(s)[i].kind = "vpn"
    BY <2>1 DEF Row
  <2> QED BY <1>2, <2>1, <2>3, <2>4
<1>4. VpnRows(s) = [i \in 1..Len(s.vpn) |-> VpnRows(s)[i]]
  BY DEF VpnRows
<1> QED BY <1>1, <1>3, <1>4, FittingMapped

LEMMA FootFit ==
  ASSUME NEW s \in Snapshots
  PROVE  Fitting(FootRows(s), s, {"hidden", "create"})
<1> DEFINE h == Row("hidden", <<"hidden", 0>>, NoName, TRUE)
           c == Row("create", <<"create", 0>>, NoName, s.canCreate)
<1>1. Fits(h, s) /\ Fits(c, s)
  BY Plain DEF RowKinds, Kinds
<1>2. h.kind = "hidden" /\ c.kind = "create"
  BY DEF Row
<1>4. FootRows(s) \in {<<>>, <<h, c>>}
  BY DEF FootRows
<1> HIDE DEF h, c
<1>6. Fitting(<<h, c>>, s, {"hidden"} \cup {"create"})
  <2>1. IsSeq(<<h, c>>) /\ Range(<<h, c>>) = {h, c}
    BY Pair
  <2> QED BY <1>1, <1>2, <2>1 DEF Fitting
<1>7. Fitting(<<>>, s, {"hidden", "create"})
  BY Emptied DEF Fitting
<1>8. {"hidden"} \cup {"create"} = {"hidden", "create"}
  OBVIOUS
<1> QED BY <1>4, <1>6, <1>7, <1>8

WifiKinds == {"wifi status", "active", "connecting", "available", "none in range", "saved networks"}
Networks == {"connecting", "available"}

LEMMA AvailableFit ==
  ASSUME NEW s \in Snapshots
  PROVE  LET q == [i \in 1..Len(s.available) |-> AvailableRow(s, i)]
         IN  Fitting(q, s, Networks) /\ Len(q) = Len(s.available)
<1> DEFINE q == [i \in 1..Len(s.available) |-> AvailableRow(s, i)]
<1>1. Len(s.available) \in Nat /\ DOMAIN s.available = 1..Len(s.available)
  BY SnapshotsAssumption DEF IsList
<1>2. ListFor(s, "available") = s.available
  BY Lists
<1>3. ASSUME NEW i \in 1..Len(s.available)
      PROVE  Fits(AvailableRow(s, i), s) /\ AvailableRow(s, i).kind \in Networks
  <2>1. CASE s.available[i].on
    <3>1. AvailableRow(s, i) = Row("connecting", <<"none", 0>>, s.available[i].name, FALSE)
      BY <2>1 DEF AvailableRow
    <3>2. Fits(AvailableRow(s, i), s)
      BY <3>1, Plain DEF RowKinds, Kinds
    <3>3. AvailableRow(s, i).kind = "connecting"
      BY <3>1 DEF Row
    <3> QED BY <3>2, <3>3 DEF Networks
  <2>2. CASE ~s.available[i].on
    <3>1. AvailableRow(s, i) = Row("available", <<"available", i>>, s.available[i].name, FALSE)
      BY <2>2 DEF AvailableRow
    <3>2. "available" \in RowKinds \ {"more", "active", "connecting"} /\ "available" \in Kinds
      BY DEF RowKinds, Kinds
    <3>3. Fits(Row("available", <<"available", i>>, ListFor(s, "available")[i].name, FALSE), s)
      BY <1>1, <1>2, <3>2, Indexed
    <3>4. AvailableRow(s, i).kind = "available"
      BY <3>1 DEF Row
    <3> QED BY <1>2, <3>1, <3>3, <3>4 DEF Networks
  <2> QED BY <2>1, <2>2
<1>4. q = [i \in 1..Len(s.available) |-> q[i]] /\ \A i \in 1..Len(s.available) : q[i] = AvailableRow(s, i)
  OBVIOUS
<1> HIDE DEF q
<1>5. \A i \in 1..Len(s.available) : Fits(q[i], s) /\ q[i].kind \in Networks
  BY <1>3, <1>4
<1>6. Fitting(q, s, Networks) /\ Len(q) = Len(s.available)
  BY <1>1, <1>4, <1>5, FittingMapped
<1> QED BY <1>6 DEF q

\* A menu lists none of the networks (no interface, radio off), or all of them.
ListsNothing(q) == Count(q, Networks) = 0 /\ Count(q, {"saved networks"}) = 0
ListsAll(q, s) ==
  /\ Count(q, Networks) = Len(s.available)
  /\ Count(q, {"saved networks"}) = IF s.more = <<>> THEN 0 ELSE 1

LEMMA AddZeros ==
  ASSUME NEW c \in Nat
  PROVE  ((0 + 0) + 0) + c = c /\ (((0 + 0) + c) + 0) + 0 = c
OBVIOUS

LEMMA WifiFit ==
  ASSUME NEW s \in Snapshots
  PROVE  /\ Fitting(WifiRows(s), s, WifiKinds)
         /\ ListsNothing(WifiRows(s)) \/ ListsAll(WifiRows(s), s)
<1> DEFINE on == IF s.active = NoName THEN <<>> ELSE <<Row("active", <<"disconnect", 0>>, s.active, TRUE)>>
           nets == [i \in 1..Len(s.available) |-> AvailableRow(s, i)]
           none == IF s.available = <<>> /\ s.more = <<>> /\ s.active = NoName
                   THEN <<Label("none in range")>> ELSE <<>>
           more == IF s.more = <<>> THEN <<>> ELSE <<Label("saved networks")>>
<1>1. WifiRows(s) \in {<<>>, <<Label("wifi status")>>, ((on \o nets) \o none) \o more}
  BY DEF WifiRows
<1>2. Fitting(on, s, {"active"})
  <2>1. CASE s.active = NoName
    <3>1. on = <<>>
      BY <2>1
    <3> HIDE DEF on
    <3> QED BY <3>1, Emptied DEF Fitting
  <2>2. CASE s.active # NoName
    <3> DEFINE r == Row("active", <<"disconnect", 0>>, s.active, TRUE)
    <3>1. on = <<r>>
      BY <2>2
    <3>2. Fits(r, s)
      BY Plain DEF RowKinds, Kinds
    <3>3. r.kind = "active"
      BY DEF Row
    <3> HIDE DEF on, r
    <3> QED BY <3>1, <3>2, <3>3, FittingSingle
  <2> QED BY <2>1, <2>2
<1>3. Fitting(nets, s, Networks) /\ Len(nets) = Len(s.available)
  BY AvailableFit
<1>4. Fitting(none, s, {"none in range"})
  <2>1. Fitting(<<Label("none in range")>>, s, {"none in range"})
    BY FittingLabel DEF RowKinds
  <2>2. Fitting(<<>>, s, {"none in range"})
    BY Emptied DEF Fitting
  <2>3. none \in {<<>>, <<Label("none in range")>>}
    OBVIOUS
  <2> HIDE DEF none
  <2> QED BY <2>1, <2>2, <2>3
<1>5. /\ Fitting(more, s, {"saved networks"})
      /\ Count(more, {"saved networks"}) = IF s.more = <<>> THEN 0 ELSE 1
  <2>1. CASE s.more = <<>>
    <3>1. more = <<>>
      BY <2>1
    <3> HIDE DEF more
    <3> QED BY <2>1, <3>1, Emptied DEF Fitting
  <2>2. CASE s.more # <<>>
    <3>1. more = <<Label("saved networks")>>
      BY <2>2
    <3> HIDE DEF more
    <3>2. Fitting(more, s, {"saved networks"})
      BY <3>1, FittingLabel DEF RowKinds
    <3>3. Label("saved networks").kind = "saved networks"
      BY DEF Label, Row
    <3>4. Count(more, {"saved networks"}) = 1
      BY <3>1, <3>3, Single
    <3> QED BY <2>2, <3>2, <3>4
  <2> QED BY <2>1, <2>2
<1> HIDE DEF on, nets, none, more
<1> DEFINE p1 == on \o nets
           p2 == p1 \o none
           p3 == p2 \o more
<1>6. Fitting(p1, s, {"active"} \cup Networks)
  BY <1>2, <1>3, FittingJoined
<1>7. Fitting(p2, s, ({"active"} \cup Networks) \cup {"none in range"})
  BY <1>4, <1>6, FittingJoined
<1>8. Fitting(p3, s, (({"active"} \cup Networks) \cup {"none in range"}) \cup {"saved networks"})
  BY <1>5, <1>7, FittingJoined
<1>9. ASSUME NEW ls
      PROVE  Count(p3, ls) = ((Count(on, ls) + Count(nets, ls)) + Count(none, ls)) + Count(more, ls)
  <2>0. IsSeq(on) /\ IsSeq(nets) /\ IsSeq(none) /\ IsSeq(more) /\ IsSeq(p1) /\ IsSeq(p2)
    BY <1>2, <1>3, <1>4, <1>5, <1>6, <1>7 DEF Fitting
  <2>1. Count(p1, ls) = Count(on, ls) + Count(nets, ls)
    BY <2>0, Joined
  <2>2. Count(p2, ls) = Count(p1, ls) + Count(none, ls)
    BY <2>0, Joined
  <2>3. Count(p3, ls) = Count(p2, ls) + Count(more, ls)
    BY <2>0, Joined
  <2> QED BY <2>1, <2>2, <2>3
<1> HIDE DEF p1, p2
<1>10. ListsAll(p3, s)
  <2> HIDE DEF p3
  <2>1. Len(s.available) \in Nat
    BY SnapshotsAssumption DEF IsList
  <2>2. /\ {"active"} \cap Networks = {} /\ {"active"} \cap {"saved networks"} = {}
        /\ {"none in range"} \cap Networks = {} /\ {"none in range"} \cap {"saved networks"} = {}
        /\ {"saved networks"} \cap Networks = {} /\ Networks \cap {"saved networks"} = {}
    BY DEF Networks
  <2>3. Count(on, Networks) = 0 /\ Count(on, {"saved networks"}) = 0
    BY <1>2, <2>2, CountNone
  <2>4. Count(none, Networks) = 0 /\ Count(none, {"saved networks"}) = 0
    BY <1>4, <2>2, CountNone
  <2>5. Count(more, Networks) = 0
    BY <1>5, <2>2, CountNone
  <2>6. Count(nets, {"saved networks"}) = 0
    BY <1>3, <2>2, CountNone
  <2>7. Count(nets, Networks) = Len(s.available)
    BY <1>3, CountAll
  <2>8. Count(p3, Networks) = Len(s.available)
    <3>1. Count(p3, Networks) = ((Count(on, Networks) + Count(nets, Networks))
                                  + Count(none, Networks)) + Count(more, Networks)
      BY <1>9
    <3>2. Count(p3, Networks) = ((0 + Len(s.available)) + 0) + 0
      BY <2>3, <2>4, <2>5, <2>7, <3>1
    <3> QED BY <2>1, <3>2
  <2>9. Count(p3, {"saved networks"}) = IF s.more = <<>> THEN 0 ELSE 1
    <3> DEFINE ls == {"saved networks"}
    <3>1. Count(p3, ls) = ((Count(on, ls) + Count(nets, ls)) + Count(none, ls)) + Count(more, ls)
      BY <1>9
    <3>2. Count(p3, ls) = ((0 + 0) + 0) + (IF s.more = <<>> THEN 0 ELSE 1)
      BY <1>5, <2>3, <2>4, <2>6, <3>1
    <3>3. (IF s.more = <<>> THEN 0 ELSE 1) \in Nat
      OBVIOUS
    <3> QED BY <3>2, <3>3, AddZeros
  <2> QED BY <2>8, <2>9 DEF ListsAll
<1>11. WifiRows(s) \in {<<>>, <<Label("wifi status")>>, p3}
  BY <1>1 DEF p1, p2
<1> HIDE DEF p1, p2, p3
<1>12. CASE WifiRows(s) = <<>>
  BY <1>12, Emptied DEF Fitting, ListsNothing
<1>13. CASE WifiRows(s) = <<Label("wifi status")>>
  <2>1. Fitting(<<Label("wifi status")>>, s, {"wifi status"})
    BY FittingLabel DEF RowKinds
  <2>2. {"wifi status"} \cap Networks = {} /\ {"wifi status"} \cap {"saved networks"} = {}
    BY DEF Networks
  <2>3. ListsNothing(<<Label("wifi status")>>)
    BY <2>1, <2>2, CountNone DEF ListsNothing
  <2> QED BY <1>13, <2>1, <2>3 DEF Fitting, WifiKinds
<1>14. CASE WifiRows(s) = p3
  BY <1>8, <1>10, <1>14 DEF Fitting, WifiKinds, Networks
<1> QED BY <1>11, <1>12, <1>13, <1>14

\* Every row of a menu names the item its id means in the snapshot the menu is
\* built from, and the menu lists all the networks or none.
LEMMA MainFit ==
  ASSUME NEW s \in Snapshots
  PROVE  /\ Fitting(MainRows(s), s, RowKinds \ {"more"})
         /\ ListsNothing(MainRows(s)) \/ ListsAll(MainRows(s), s)
<1> DEFINE p1 == <<Label("top")>> \o WiredRows(s)
           p2 == p1 \o WifiRows(s)
           p3 == p2 \o VpnRows(s)
           p4 == p3 \o FootRows(s)
           none(q) == Count(q, Networks) = 0 /\ Count(q, {"saved networks"}) = 0
<1>1. MainRows(s) \in {<<Label("not running")>>, p4}
  BY DEF MainRows
<1>2. Fitting(<<Label("top")>>, s, {"top"}) /\ Fitting(<<Label("not running")>>, s, {"not running"})
  BY FittingLabel DEF RowKinds
<1>3. Fitting(p1, s, {"top"} \cup WiredKinds)
  BY <1>2, WiredFit, FittingJoined
<1>4. Fitting(p2, s, ({"top"} \cup WiredKinds) \cup WifiKinds)
  BY <1>3, WifiFit, FittingJoined
<1>5. Fitting(p3, s, (({"top"} \cup WiredKinds) \cup WifiKinds) \cup {"vpn"})
  BY <1>4, VpnFit, FittingJoined
<1>6. Fitting(p4, s, ((({"top"} \cup WiredKinds) \cup WifiKinds) \cup {"vpn"}) \cup {"hidden", "create"})
  BY <1>5, FootFit, FittingJoined
<1>7. ListsNothing(<<Label("top")>>) /\ ListsNothing(<<Label("not running")>>)
  <2>1. /\ {"top"} \cap Networks = {} /\ {"top"} \cap {"saved networks"} = {}
        /\ {"not running"} \cap Networks = {} /\ {"not running"} \cap {"saved networks"} = {}
    BY DEF Networks
  <2> QED BY <1>2, <2>1, CountNone DEF ListsNothing
<1>8. ListsNothing(WiredRows(s))
  <2>1. WiredKinds \cap Networks = {} /\ WiredKinds \cap {"saved networks"} = {}
    BY DEF Networks, WiredKinds
  <2> QED BY WiredFit, <2>1, CountNone DEF ListsNothing
<1>9. ListsNothing(VpnRows(s))
  <2>1. {"vpn"} \cap Networks = {} /\ {"vpn"} \cap {"saved networks"} = {}
    BY DEF Networks
  <2> QED BY VpnFit, <2>1, CountNone DEF ListsNothing
<1>10. ListsNothing(FootRows(s))
  <2>1. {"hidden", "create"} \cap Networks = {} /\ {"hidden", "create"} \cap {"saved networks"} = {}
    BY DEF Networks
  <2> QED BY FootFit, <2>1, CountNone DEF ListsNothing
<1>11. ASSUME NEW ls
       PROVE  Count(p4, ls) = (((Count(<<Label("top")>>, ls) + Count(WiredRows(s), ls))
                                 + Count(WifiRows(s), ls)) + Count(VpnRows(s), ls)) + Count(FootRows(s), ls)
  <2>0. /\ IsSeq(<<Label("top")>>) /\ IsSeq(WiredRows(s)) /\ IsSeq(WifiRows(s))
        /\ IsSeq(VpnRows(s)) /\ IsSeq(FootRows(s)) /\ IsSeq(p1) /\ IsSeq(p2) /\ IsSeq(p3)
    BY <1>2, <1>3, <1>4, <1>5, WiredFit, WifiFit, VpnFit, FootFit DEF Fitting
  <2>1. Count(p1, ls) = Count(<<Label("top")>>, ls) + Count(WiredRows(s), ls)
    BY <2>0, Joined
  <2>2. Count(p2, ls) = Count(p1, ls) + Count(WifiRows(s), ls)
    BY <2>0, Joined
  <2>3. Count(p3, ls) = Count(p2, ls) + Count(VpnRows(s), ls)
    BY <2>0, Joined
  <2>4. Count(p4, ls) = Count(p3, ls) + Count(FootRows(s), ls)
    BY <2>0, Joined
  <2> QED BY <2>1, <2>2, <2>3, <2>4
<1>12. \A ls : Count(WifiRows(s), ls) \in Nat
  BY WifiFit, OfFinite DEF Fitting
<1>13. ASSUME NEW ls \in {Networks, {"saved networks"}}
       PROVE  Count(p4, ls) = Count(WifiRows(s), ls)
  <2> HIDE DEF p1, p2, p3, p4
  <2>1. /\ Count(<<Label("top")>>, ls) = 0 /\ Count(WiredRows(s), ls) = 0
        /\ Count(VpnRows(s), ls) = 0 /\ Count(FootRows(s), ls) = 0
    BY <1>7, <1>8, <1>9, <1>10 DEF ListsNothing
  <2>2. Count(WifiRows(s), ls) \in Nat
    BY <1>12
  <2>3. Count(p4, ls) = (((0 + 0) + Count(WifiRows(s), ls)) + 0) + 0
    BY <1>11, <2>1
  <2> QED BY <2>2, <2>3, AddZeros
<1>14. Count(p4, Networks) = Count(WifiRows(s), Networks)
       /\ Count(p4, {"saved networks"}) = Count(WifiRows(s), {"saved networks"})
  BY <1>13
<1> HIDE DEF p1, p2, p3, p4
<1>15. ListsNothing(p4) \/ ListsAll(p4, s)
  BY <1>14, WifiFit DEF ListsNothing, ListsAll
<1>16. CASE MainRows(s) = p4
  BY <1>6, <1>15, <1>16 DEF Fitting, RowKinds, WiredKinds, WifiKinds
<1>17. CASE MainRows(s) = <<Label("not running")>>
  BY <1>2, <1>7, <1>17 DEF Fitting, RowKinds
<1> QED BY <1>1, <1>16, <1>17

LEMMA ListsAreLists ==
  ASSUME NEW s \in Snapshots, NEW k \in Kinds
  PROVE  DOMAIN ListFor(s, k) = 1..Len(ListFor(s, k))
<1>1. CASE k = "more"
  <2> DEFINE q == [i \in 1..Len(s.more) |-> [name |-> s.more[i], on |-> FALSE]]
  <2>1. ListFor(s, k) = q
    BY <1>1, Lists
  <2>2. Len(s.more) \in Nat
    BY SnapshotsAssumption DEF IsList
  <2>3. q = [i \in 1..Len(s.more) |-> q[i]]
    OBVIOUS
  <2> HIDE DEF q
  <2>4. Len(q) = Len(s.more) /\ DOMAIN q = 1..Len(s.more)
    BY <2>2, <2>3, Mapped
  <2> QED BY <2>1, <2>4
<1>2. CASE k # "more"
  <2>1. ListFor(s, k) \in {s.available, s.wiredSaved, s.vpn}
    BY <1>2, Lists DEF Kinds
  <2> QED BY <2>1, SnapshotsAssumption DEF IsList
<1> QED BY <1>1, <1>2

(***************************************************************************)
(* The inductive invariant                                                 *)
(***************************************************************************)

\* The rows of an open menu are those of the snapshot it was built from, but for
\* the name of the connected network, and its fingerprint is that of the snapshot.
MenuAsBuilt ==
  Open => /\ drawnFrom.main \in Snapshots
          /\ drawn = Fingerprint(drawnFrom.main)
          /\ \A r \in Range(rows) : Fits(r, drawnFrom.main)
          /\ ListsNothing(rows) \/ ListsAll(rows, drawnFrom.main)
          /\ IsFiniteSet(DOMAIN rows)

\* So are those of the submenu, which has a snapshot of its own.
SubmenuAsBuilt ==
  SubmenuOpen => /\ drawnFrom.sub \in Snapshots
                 /\ \A r \in Range(subRows) : r.kind = "more" /\ Names(r, drawnFrom.sub)

\* As long as no update is due the fingerprint is that of what NmData holds now,
\* whichever snapshot the menu was built from.
DrawnIsLatest == Open /\ ~due => Fingerprint(data) = drawn

\* A click that waits is on a row of the snapshot it was made over.
ClicksFit ==
  /\ IsSeq(pending)
  /\ Len(pending) <= MaxQueue
  /\ \A p \in Range(pending) : p.from \in Snapshots /\ Names(p.row, p.from)

Typed ==
  /\ data \in Snapshots
  /\ due \in BOOLEAN /\ draining \in BOOLEAN
  /\ drawnFrom = [main |-> drawnFrom.main, sub |-> drawnFrom.sub]

IInv ==
  /\ Typed /\ SubmenuOverMenu
  /\ MenuAsBuilt /\ SubmenuAsBuilt /\ DrawnIsLatest
  /\ ClicksFit /\ OnlyAChangeMisleads

LEMMA InitIInv == Init => IInv
<1> SUFFICES ASSUME Init PROVE IInv
  OBVIOUS
<1>1. /\ data \in Snapshots /\ rows = NoRows /\ subRows = NoRows /\ due = FALSE /\ draining = FALSE
      /\ pending = <<>> /\ acted = NoClick /\ drawnFrom = [main |-> NoName, sub |-> NoName]
  BY Zenon DEF Init
<1>2. ~Open /\ ~SubmenuOpen
  BY <1>1 DEF Open, SubmenuOpen
<1>3. Typed
  BY <1>1 DEF Typed
<1>4. ClicksFit
  <2>1. Len(<<>>) = 0
    OBVIOUS
  <2> QED BY <1>1, <2>1, Emptied, QueueAssumption DEF ClicksFit
<1> QED BY <1>1, <1>2, <1>3, <1>4
     DEF IInv, SubmenuOverMenu, MenuAsBuilt, SubmenuAsBuilt, DrawnIsLatest, OnlyAChangeMisleads

LEMMA MenuKept ==
  ASSUME MenuAsBuilt, UNCHANGED <<rows, drawn>>, drawnFrom'.main = drawnFrom.main
  PROVE  MenuAsBuilt'
BY DEF MenuAsBuilt, Open, ListsNothing, ListsAll, Count, Of, Range

LEMMA SubmenuKept ==
  ASSUME SubmenuAsBuilt, subRows' = subRows, drawnFrom'.sub = drawnFrom.sub
  PROVE  SubmenuAsBuilt'
BY DEF SubmenuAsBuilt, SubmenuOpen, Range

LEMMA MenuShown ==
  ASSUME NEW s \in Snapshots, Shown(s)
  PROVE  MenuAsBuilt' /\ SubmenuAsBuilt'
<1>1. /\ rows' = MainRows(s) /\ subRows' = NoRows /\ drawn' = Fingerprint(s)
      /\ drawnFrom' = [main |-> s, sub |-> NoName]
  BY DEF Shown
<1>2. drawnFrom'.main = s
  BY <1>1
<1>3. /\ \A r \in Range(MainRows(s)) : Fits(r, s)
      /\ ListsNothing(MainRows(s)) \/ ListsAll(MainRows(s), s)
  BY MainFit DEF Fitting
<1>4. SubmenuAsBuilt'
  BY <1>1 DEF SubmenuAsBuilt, SubmenuOpen
<1>5. MenuAsBuilt'
  <2>1. (\A r \in Range(rows) : Fits(r, drawnFrom.main))'
    BY <1>1, <1>2, <1>3
  <2>2. (ListsNothing(rows) \/ ListsAll(rows, drawnFrom.main))'
    BY <1>1, <1>2, <1>3
  <2>3. IsFiniteSet(DOMAIN MainRows(s))
    <3>1. IsSeq(MainRows(s))
      BY MainFit DEF Fitting
    <3>2. Len(MainRows(s)) \in Nat /\ DOMAIN MainRows(s) = 1..Len(MainRows(s))
      BY <3>1, SeqFacts
    <3> QED BY <3>2, FS_Interval
  <2> QED BY <1>1, <1>2, <2>1, <2>2, <2>3 DEF MenuAsBuilt
<1> QED BY <1>4, <1>5

\* The update in place gives another name to rows without an index only.
LEMMA MenuRenamed ==
  ASSUME MenuAsBuilt, Open, rows' = InPlace(rows, data), UNCHANGED <<drawn, drawnFrom>>
  PROVE  MenuAsBuilt'
<1> DEFINE s == drawnFrom.main
<1>1. /\ s \in Snapshots /\ drawn = Fingerprint(s)
      /\ \A r \in Range(rows) : Fits(r, s)
      /\ ListsNothing(rows) \/ ListsAll(rows, s)
      /\ IsFiniteSet(DOMAIN rows)
  BY DEF MenuAsBuilt
<1>2. CASE data.active = NoName
  <2>1. rows' = rows
    BY <1>2 DEF InPlace
  <2> QED BY <2>1, MenuKept
<1>3. CASE data.active # NoName
  <2>1. /\ DOMAIN rows' = DOMAIN rows
        /\ \A i \in DOMAIN rows :
             rows'[i] = IF rows[i].kind \in {"active", "connecting"}
                        THEN [rows[i] EXCEPT !.name = data.active] ELSE rows[i]
    BY <1>3 DEF InPlace
  <2>2. ASSUME NEW i \in DOMAIN rows
        PROVE  Fits(rows'[i], s) /\ rows'[i].kind = rows[i].kind
    <3>1. Fits(rows[i], s)
      BY <1>1 DEF Range
    <3>2. CASE rows[i].kind \notin {"active", "connecting"}
      BY <2>1, <3>1, <3>2
    <3>3. CASE rows[i].kind \in {"active", "connecting"}
      <4> DEFINE r == rows[i]
                 t == rows'[i]
      <4>1. /\ r = Row(r.kind, r.id, r.name, r.mark) /\ r.kind \in RowKinds \ {"more"}
            /\ r.id[1] \notin Kinds
        BY <3>1, <3>3 DEF Fits
      <4>2. t = [r EXCEPT !.name = data.active]
        BY <2>1, <3>3
      <4>3. t = Row(r.kind, r.id, data.active, r.mark)
        <5> HIDE DEF r, t
        <5> QED BY <4>1, <4>2 DEF Row
      <4>4. /\ t.kind = r.kind /\ t.id = r.id /\ t.name = data.active
            /\ t = Row(t.kind, t.id, t.name, t.mark)
        <5> HIDE DEF r, t
        <5> QED BY <4>3 DEF Row
      <4> HIDE DEF r, t
      <4>5. r.kind \in {"active", "connecting"}
        BY <3>3 DEF r
      <4>6. Fits(t, s) /\ t.kind = r.kind
        BY <4>1, <4>4, <4>5 DEF Fits, Names
      <4> QED BY <4>6 DEF r, t
    <3> QED BY <3>2, <3>3
  <2>3. \A r \in Range(rows') : Fits(r, s)
    BY <2>1, <2>2 DEF Range
  <2>4. \A ls : Of(rows', ls) = Of(rows, ls)
    BY <2>1, <2>2 DEF Of
  <2>5. ListsNothing(rows') \/ ListsAll(rows', s)
    BY <1>1, <2>4 DEF ListsNothing, ListsAll, Count
  <2>6. (\A r \in Range(rows) : Fits(r, drawnFrom.main))'
    BY <2>3
  <2>7. (ListsNothing(rows) \/ ListsAll(rows, drawnFrom.main))'
    BY <2>5
  <2> QED BY <1>1, <2>1, <2>6, <2>7 DEF MenuAsBuilt
<1> QED BY <1>2, <1>3

LEMMA SavedFit ==
  ASSUME NEW s \in Snapshots
  PROVE  \A r \in Range(SavedRows(s)) : r.kind = "more" /\ Names(r, s)
<1> SUFFICES ASSUME NEW i \in DOMAIN SavedRows(s)
             PROVE  SavedRows(s)[i].kind = "more" /\ Names(SavedRows(s)[i], s)
  BY DEF Range
<1> DEFINE r == SavedRows(s)[i]
<1>1. i \in 1..Len(s.more) /\ r = Row("more", <<"more", i>>, s.more[i], FALSE)
  BY DEF SavedRows
<1>2. r.kind = "more" /\ r.id = <<"more", i>> /\ r.name = s.more[i]
  <2> HIDE DEF r
  <2> QED BY <1>1 DEF Row
<1>3. r.id[1] = "more" /\ r.id[2] = i
  BY <1>2
<1>4. /\ i \in DOMAIN ListFor(s, "more")
      /\ ListFor(s, "more")[i].name = s.more[i]
  <2>1. ListFor(s, "more") = [j \in 1..Len(s.more) |-> [name |-> s.more[j], on |-> FALSE]]
    BY Lists
  <2> QED BY <1>1, <2>1
<1> HIDE DEF r
<1>5. Names(r, s)
  BY <1>2, <1>3, <1>4 DEF Names
<1> QED BY <1>2, <1>5 DEF r

(***************************************************************************)
(* Each action keeps it                                                    *)
(***************************************************************************)

\* A refresh, from a signal or from the handler of a click.
LEMMA Refreshed ==
  ASSUME IInv, data' \in Snapshots, Scheduled, UNCHANGED <<popup, drawnFrom, draining>>
  PROVE  Typed' /\ MenuAsBuilt' /\ SubmenuAsBuilt' /\ DrawnIsLatest'
<1>1. UNCHANGED <<rows, drawn, subRows>>
  BY DEF popup
<1>2. due' \in BOOLEAN /\ (Open => due')
  BY DEF Scheduled, IInv, Typed
<1>3. Typed'
  BY <1>2 DEF IInv, Typed
<1>4. MenuAsBuilt' /\ SubmenuAsBuilt'
  BY <1>1, MenuKept, SubmenuKept DEF IInv
<1>5. DrawnIsLatest'
  BY <1>1, <1>2 DEF DrawnIsLatest, Open
<1> QED BY <1>3, <1>4, <1>5

LEMMA QueueKept ==
  ASSUME IInv, UNCHANGED <<pending, acted>>
  PROVE  ClicksFit' /\ OnlyAChangeMisleads'
BY DEF IInv, ClicksFit, OnlyAChangeMisleads

LEMMA RefreshStep == IInv /\ Refresh => IInv'
<1> SUFFICES ASSUME IInv, Refresh PROVE IInv'
  OBVIOUS
<1>1. data' \in Snapshots /\ Scheduled /\ UNCHANGED <<popup, pending, draining, acted, drawnFrom>>
  BY DEF Refresh
<1>2. Typed' /\ MenuAsBuilt' /\ SubmenuAsBuilt' /\ DrawnIsLatest'
  BY <1>1, Refreshed
<1>3. ClicksFit' /\ OnlyAChangeMisleads'
  BY <1>1, QueueKept
<1>4. SubmenuOverMenu'
  BY Inductive DEF IInv, Next
<1> QED BY <1>2, <1>3, <1>4 DEF IInv

LEMMA UpdateStep == IInv /\ UpdateTimeout => IInv'
<1> SUFFICES ASSUME IInv, UpdateTimeout PROVE IInv'
  OBVIOUS
<1>1. UNCHANGED <<data, pending, draining, acted>>
  BY DEF UpdateTimeout
<1>2. ClicksFit' /\ OnlyAChangeMisleads'
  BY <1>1, QueueKept
<1>3. SubmenuOverMenu'
  BY Inductive DEF IInv, Next
<1>4. CASE ~Open
  <2>1. due' = FALSE /\ UNCHANGED <<rows, drawn, subRows, drawnFrom>>
    BY <1>4 DEF UpdateTimeout, popup
  <2>2. MenuAsBuilt' /\ SubmenuAsBuilt'
    BY <2>1, MenuKept, SubmenuKept DEF IInv
  <2>3. Typed' /\ DrawnIsLatest'
    BY <1>1, <1>4, <2>1 DEF IInv, Typed, DrawnIsLatest, Open
  <2> QED BY <1>2, <1>3, <2>2, <2>3 DEF IInv
<1>5. CASE Open /\ SubmenuOpen
  <2>1. due /\ UNCHANGED <<due, rows, drawn, subRows, drawnFrom>>
    BY <1>5 DEF UpdateTimeout, popup
  <2>2. MenuAsBuilt' /\ SubmenuAsBuilt'
    BY <2>1, MenuKept, SubmenuKept DEF IInv
  <2>3. Typed' /\ DrawnIsLatest'
    BY <1>1, <2>1 DEF IInv, Typed, DrawnIsLatest, Open
  <2> QED BY <1>2, <1>3, <2>2, <2>3 DEF IInv
<1>6. CASE Open /\ ~SubmenuOpen /\ Fingerprint(data) # drawn
  <2>1. due' = FALSE /\ Shown(data)
    BY <1>6 DEF UpdateTimeout
  <2>2. data \in Snapshots
    BY DEF IInv, Typed
  <2>3. MenuAsBuilt' /\ SubmenuAsBuilt'
    BY <2>1, <2>2, MenuShown
  <2>4. drawn' = Fingerprint(data) /\ drawnFrom' = [main |-> data, sub |-> NoName]
    BY <2>1 DEF Shown
  <2>5. Typed'
    BY <1>1, <2>1, <2>4 DEF IInv, Typed
  <2>6. DrawnIsLatest'
    BY <1>1, <2>4 DEF DrawnIsLatest
  <2> QED BY <1>2, <1>3, <2>3, <2>5, <2>6 DEF IInv
<1>7. CASE Open /\ ~SubmenuOpen /\ Fingerprint(data) = drawn
  <2>1. due' = FALSE /\ rows' = InPlace(rows, data) /\ UNCHANGED <<drawn, subRows, drawnFrom>>
    BY <1>7 DEF UpdateTimeout
  <2>2. MenuAsBuilt' /\ SubmenuAsBuilt'
    BY <1>7, <2>1, MenuRenamed, SubmenuKept DEF IInv
  <2>3. Typed'
    BY <1>1, <2>1 DEF IInv, Typed
  <2>4. DrawnIsLatest'
    BY <1>1, <1>7, <2>1 DEF DrawnIsLatest
  <2> QED BY <1>2, <1>3, <2>2, <2>3, <2>4 DEF IInv
<1> QED BY <1>4, <1>5, <1>6, <1>7

LEMMA ShowStep == IInv /\ ShowMainMenu => IInv'
<1> SUFFICES ASSUME IInv, ShowMainMenu PROVE IInv'
  OBVIOUS
<1>1. UNCHANGED <<due, pending, draining, acted>> /\ \E s \in Snapshots : data' = s /\ Shown(s)
  BY DEF ShowMainMenu
<1>2. data' \in Snapshots /\ Shown(data')
  BY <1>1
<1>3. MenuAsBuilt' /\ SubmenuAsBuilt'
  BY <1>2, MenuShown
<1>4. drawn' = Fingerprint(data') /\ drawnFrom' = [main |-> data', sub |-> NoName]
  BY <1>2 DEF Shown
<1>5. Typed'
  BY <1>1, <1>2, <1>4 DEF IInv, Typed
<1>6. DrawnIsLatest'
  BY <1>4 DEF DrawnIsLatest
<1>7. SubmenuOverMenu'
  BY Inductive DEF IInv, Next
<1> QED BY <1>1, <1>3, <1>5, <1>6, <1>7, QueueKept DEF IInv

LEMMA Closed ==
  ASSUME IInv, Hidden, UNCHANGED <<data, due, draining>>
  PROVE  Typed' /\ MenuAsBuilt' /\ SubmenuAsBuilt' /\ DrawnIsLatest'
<1>1. rows' = NoRows /\ subRows' = NoRows /\ drawnFrom' = [main |-> NoName, sub |-> NoName]
  BY DEF Hidden
<1>2. ~Open' /\ ~SubmenuOpen'
  BY <1>1 DEF Open, SubmenuOpen
<1>3. Typed'
  BY <1>1 DEF IInv, Typed
<1> QED BY <1>2, <1>3 DEF MenuAsBuilt, SubmenuAsBuilt, DrawnIsLatest

LEMMA SubmenuClosed ==
  ASSUME IInv, subRows' = NoRows, drawnFrom' = [drawnFrom EXCEPT !.sub = NoName],
         UNCHANGED <<data, due, draining, rows, drawn>>
  PROVE  Typed' /\ MenuAsBuilt' /\ SubmenuAsBuilt' /\ DrawnIsLatest'
<1>1. drawnFrom' = [main |-> drawnFrom.main, sub |-> NoName]
  BY DEF IInv, Typed
<1>2. MenuAsBuilt'
  BY <1>1, MenuKept DEF IInv
<1>3. Typed' /\ DrawnIsLatest'
  BY <1>1 DEF IInv, Typed, DrawnIsLatest, Open
<1>4. SubmenuAsBuilt'
  BY DEF SubmenuAsBuilt, SubmenuOpen
<1> QED BY <1>2, <1>3, <1>4

LEMMA HideStep == IInv /\ (HideMenu \/ CloseSubmenu) => IInv'
<1> SUFFICES ASSUME IInv, HideMenu \/ CloseSubmenu PROVE IInv'
  OBVIOUS
<1>1. UNCHANGED <<data, due, pending, draining, acted>>
  BY DEF HideMenu, CloseSubmenu
<1>2. Typed' /\ MenuAsBuilt' /\ SubmenuAsBuilt' /\ DrawnIsLatest'
  <2>1. CASE HideMenu
    BY <1>1, <2>1, Closed DEF HideMenu
  <2>2. CASE CloseSubmenu
    BY <1>1, <2>2, SubmenuClosed DEF CloseSubmenu
  <2> QED BY <2>1, <2>2
<1>3. SubmenuOverMenu'
  BY Inductive DEF IInv, Next
<1> QED BY <1>1, <1>2, <1>3, QueueKept DEF IInv

LEMMA SubmenuStep == IInv /\ OpenSubmenu => IInv'
<1> SUFFICES ASSUME IInv, OpenSubmenu PROVE IInv'
  OBVIOUS
<1>1. /\ UNCHANGED <<data, rows, drawn, due, pending, draining, acted>>
      /\ subRows' = SavedRows(data) /\ drawnFrom' = [drawnFrom EXCEPT !.sub = data]
  BY DEF OpenSubmenu
<1>2. drawnFrom' = [main |-> drawnFrom.main, sub |-> data] /\ data \in Snapshots
  BY <1>1 DEF IInv, Typed
<1>3. MenuAsBuilt'
  BY <1>1, <1>2, MenuKept DEF IInv
<1>4. \A r \in Range(subRows') : r.kind = "more" /\ Names(r, data)
  BY <1>1, <1>2, SavedFit
<1>5. (drawnFrom.sub)' = data
  BY <1>2
<1>6. (\A r \in Range(subRows) : r.kind = "more" /\ Names(r, drawnFrom.sub))'
  BY <1>4, <1>5
<1>7. SubmenuAsBuilt'
  BY <1>2, <1>5, <1>6 DEF SubmenuAsBuilt
<1>8. Typed' /\ DrawnIsLatest'
  BY <1>1, <1>2 DEF IInv, Typed, DrawnIsLatest, Open
<1>9. SubmenuOverMenu'
  BY Inductive DEF IInv, Next
<1> QED BY <1>1, <1>3, <1>7, <1>8, <1>9, QueueKept DEF IInv

LEMMA ClickStep == IInv /\ Click => IInv'
<1> SUFFICES ASSUME IInv, Click PROVE IInv'
  OBVIOUS
<1>1. UNCHANGED <<data, due, draining, acted>> /\ Len(pending) < MaxQueue
  BY DEF Click
<1>2. PICK sub \in BOOLEAN : \E r \in Range(IF sub THEN subRows ELSE rows) :
        /\ pending' = Append(pending,
              [row |-> r, from |-> IF sub THEN drawnFrom.sub ELSE drawnFrom.main])
        /\ IF KeepsOpen(r.id)
           THEN /\ subRows' = NoRows
                /\ drawnFrom' = [drawnFrom EXCEPT !.sub = NoName]
                /\ UNCHANGED <<rows, drawn>>
           ELSE Hidden
  BY DEF Click
<1>3. PICK r \in Range(IF sub THEN subRows ELSE rows) :
        /\ pending' = Append(pending,
              [row |-> r, from |-> IF sub THEN drawnFrom.sub ELSE drawnFrom.main])
        /\ IF KeepsOpen(r.id)
           THEN /\ subRows' = NoRows
                /\ drawnFrom' = [drawnFrom EXCEPT !.sub = NoName]
                /\ UNCHANGED <<rows, drawn>>
           ELSE Hidden
  BY <1>2
<1>4. Typed' /\ MenuAsBuilt' /\ SubmenuAsBuilt' /\ DrawnIsLatest'
  <2>1. CASE KeepsOpen(r.id)
    BY <1>1, <1>3, <2>1, SubmenuClosed
  <2>2. CASE ~KeepsOpen(r.id)
    BY <1>1, <1>3, <2>2, Closed
  <2> QED BY <2>1, <2>2
<1>5. Range(<<>>) = {}
  BY Emptied
<1> DEFINE from == IF sub THEN drawnFrom.sub ELSE drawnFrom.main
           p == [row |-> r, from |-> from]
<1>6. from \in Snapshots /\ Names(r, from)
  <2>1. CASE sub
    <3>1. r \in Range(subRows) /\ SubmenuOpen /\ from = drawnFrom.sub
      BY <1>5, <2>1 DEF SubmenuOpen, NoRows
    <3> HIDE DEF from
    <3> QED BY <3>1 DEF IInv, SubmenuAsBuilt
  <2>2. CASE ~sub
    <3>1. r \in Range(rows) /\ Open /\ from = drawnFrom.main
      BY <1>5, <2>2 DEF Open, NoRows
    <3> HIDE DEF from
    <3> QED BY <3>1 DEF IInv, MenuAsBuilt, Fits
  <2> QED BY <2>1, <2>2
<1>7. p.row = r /\ p.from = from /\ pending' = Append(pending, p)
  BY <1>3
<1> HIDE DEF p, from
<1>8. ClicksFit'
  <2>1. IsSeq(pending) /\ \A c \in Range(pending) : c.from \in Snapshots /\ Names(c.row, c.from)
    BY DEF IInv, ClicksFit
  <2>2. IsSeq(pending') /\ Len(pending') = Len(pending) + 1 /\ Range(pending') = Range(pending) \cup {p}
    BY <1>7, <2>1, Appended
  <2>3. Len(pending') <= MaxQueue
    BY <1>1, <2>1, <2>2, SeqFacts, QueueAssumption
  <2>4. \A c \in Range(pending') : c.from \in Snapshots /\ Names(c.row, c.from)
    BY <1>6, <1>7, <2>1, <2>2
  <2> QED BY <2>2, <2>3, <2>4 DEF ClicksFit
<1>9. SubmenuOverMenu'
  BY Inductive DEF IInv, Next
<1>10. OnlyAChangeMisleads'
  BY <1>1 DEF IInv, OnlyAChangeMisleads
<1> QED BY <1>4, <1>8, <1>9, <1>10 DEF IInv

\* The lists an id points into: as long as their names are the same, the id means
\* what it meant.
LEMMA SameNames ==
  ASSUME NEW s \in Snapshots, NEW t \in Snapshots, NEW r, Names(r, s),
         Meant(t, r.id).name # NoName,
         \A k \in Kinds : NamesOf(ListFor(t, k)) = NamesOf(ListFor(s, k))
  PROVE  Meant(t, r.id).name = r.name
<1> DEFINE k == r.id[1]
           i == r.id[2]
<1>1. k \in Kinds
  <2> SUFFICES ASSUME k \notin Kinds PROVE FALSE
    OBVIOUS
  <2>1. ListFor(t, k) = <<>>
    BY DEF ListFor, Kinds
  <2>2. DOMAIN <<>> = {}
    BY Emptied DEF Range
  <2> QED BY <2>1, <2>2 DEF Meant
<1>2. i \in DOMAIN ListFor(s, k) /\ ListFor(s, k)[i].name = r.name
  BY <1>1 DEF Names
<1>3. /\ DOMAIN ListFor(s, k) = 1..Len(ListFor(s, k)) /\ DOMAIN ListFor(t, k) = 1..Len(ListFor(t, k))
  BY <1>1, ListsAreLists
<1>4. NamesOf(ListFor(t, k)) = NamesOf(ListFor(s, k))
  BY <1>1
<1> HIDE DEF k, i
<1>5. DOMAIN ListFor(t, k) = DOMAIN ListFor(s, k)
  BY <1>3, <1>4 DEF NamesOf
<1>6. ListFor(t, k)[i].name = ListFor(s, k)[i].name
  BY <1>2, <1>3, <1>4, <1>5 DEF NamesOf
<1> QED BY <1>2, <1>5, <1>6 DEF Meant, k, i

LEMMA ExecuteStep == IInv /\ Execute => IInv'
<1> SUFFICES ASSUME IInv, Execute PROVE IInv'
  OBVIOUS
<1> DEFINE p == Head(pending)
           id == p.row.id
           item == Meant(data, id)
           changed == \E k \in Kinds : NamesOf(ListFor(data, k)) # NamesOf(ListFor(p.from, k))
<1>1. /\ pending # <<>> /\ pending' = Tail(pending) /\ UNCHANGED <<popup, drawnFrom>>
      /\ draining' = (Tail(pending) # <<>>)
      /\ IF Refreshes(data, id) THEN data' \in Snapshots /\ Scheduled ELSE UNCHANGED <<data, due>>
      /\ acted' = IF item.name = NoName THEN NoClick
                  ELSE [row |-> p.row, target |-> EffectOn(item, id), changed |-> changed]
  BY DEF Execute
<1>2. UNCHANGED <<rows, drawn, subRows>>
  BY <1>1 DEF popup
<1>3. Typed' /\ MenuAsBuilt' /\ SubmenuAsBuilt' /\ DrawnIsLatest'
  <2>1. draining' \in BOOLEAN
    BY <1>1
  <2>2. CASE Refreshes(data, id)
    <3>1. data' \in Snapshots /\ Scheduled
      BY <1>1, <2>2
    <3>2. due' \in BOOLEAN /\ (Open => due')
      BY <3>1 DEF Scheduled, IInv, Typed
    <3>3. Typed'
      BY <1>1, <2>1, <3>1, <3>2 DEF IInv, Typed
    <3>4. DrawnIsLatest'
      BY <1>2, <3>2 DEF DrawnIsLatest, Open
    <3> QED BY <1>1, <1>2, <3>3, <3>4, MenuKept, SubmenuKept DEF IInv
  <2>3. CASE ~Refreshes(data, id)
    <3>1. UNCHANGED <<data, due>>
      BY <1>1, <2>3
    <3>2. Typed' /\ DrawnIsLatest'
      BY <1>1, <1>2, <2>1, <3>1 DEF IInv, Typed, DrawnIsLatest, Open
    <3> QED BY <1>1, <1>2, <3>2, MenuKept, SubmenuKept DEF IInv
  <2> QED BY <2>2, <2>3
<1>4. IsSeq(pending) /\ Len(pending) <= MaxQueue
      /\ \A c \in Range(pending) : c.from \in Snapshots /\ Names(c.row, c.from)
  BY DEF IInv, ClicksFit
<1>5. /\ p \in Range(pending) /\ IsSeq(Tail(pending))
      /\ Len(Tail(pending)) = Len(pending) - 1 /\ Range(Tail(pending)) \subseteq Range(pending)
  BY <1>1, <1>4, HeadAndTail
<1>6. ClicksFit'
  <2>1. IsSeq(pending') /\ Len(pending') = Len(pending) - 1 /\ Range(pending') \subseteq Range(pending)
    BY <1>1, <1>5
  <2>2. Len(pending') <= MaxQueue
    BY <1>4, <2>1, SeqFacts, QueueAssumption
  <2> QED BY <1>4, <2>1, <2>2 DEF ClicksFit
<1>7. p.from \in Snapshots /\ Names(p.row, p.from) /\ data \in Snapshots
  BY <1>4, <1>5 DEF IInv, Typed
<1>8. OnlyAChangeMisleads'
  <2> HIDE DEF p
  <2>1. CASE item.name = NoName
    BY <1>1, <2>1 DEF OnlyAChangeMisleads
  <2>2. CASE item.name # NoName
    <3> SUFFICES ASSUME ~(acted').changed PROVE (acted').target[2] = (acted').row.name
      BY DEF OnlyAChangeMisleads
    <3>1. acted' = [row |-> p.row, target |-> EffectOn(item, id), changed |-> changed]
      BY <1>1, <2>2
    <3>2. (acted').changed = changed /\ (acted').row = p.row /\ (acted').target = EffectOn(item, id)
      <4> HIDE DEF changed, item, id
      <4> QED BY <3>1, Zenon
    <3>3. ~changed
      BY <3>2, Zenon
    <3>4. item.name = p.row.name
      <4>1. \A k \in Kinds : NamesOf(ListFor(data, k)) = NamesOf(ListFor(p.from, k))
        BY <3>3
      <4> QED BY <1>7, <2>2, <4>1, SameNames
    <3>5. EffectOn(item, id)[2] = item.name
      <4> HIDE DEF item, id
      <4> QED BY DEF EffectOn
    <3> QED BY <3>2, <3>4, <3>5, Zenon
  <2> QED BY <2>1, <2>2
<1>9. SubmenuOverMenu'
  BY Inductive DEF IInv, Next
<1> QED BY <1>3, <1>6, <1>8, <1>9 DEF IInv

LEMMA StepIInv == IInv /\ [Next]_vars => IInv'
<1> SUFFICES ASSUME IInv, [Next]_vars PROVE IInv'
  OBVIOUS
<1>1. CASE UNCHANGED vars
  <2>1. UNCHANGED <<data, rows, drawn, subRows, due, pending, draining, acted, drawnFrom>>
    BY <1>1 DEF vars, popup
  <2>2. MenuAsBuilt' /\ SubmenuAsBuilt' /\ ClicksFit' /\ OnlyAChangeMisleads'
    BY <2>1, MenuKept, SubmenuKept, QueueKept DEF IInv
  <2>3. Typed' /\ DrawnIsLatest'
    BY <2>1 DEF IInv, Typed, DrawnIsLatest, Open
  <2>4. SubmenuOverMenu'
    BY Inductive DEF IInv
  <2> QED BY <2>2, <2>3, <2>4 DEF IInv
<1> QED BY <1>1, RefreshStep, UpdateStep, ShowStep, HideStep, SubmenuStep, ClickStep, ExecuteStep
     DEF Next

LEMMA AlwaysIInv == Spec => []IInv
BY InitIInv, StepIInv, PTL DEF Spec

(***************************************************************************)
(* The results                                                             *)
(***************************************************************************)

\* The types of the model's state; the submenu is open over an open menu only, and
\* no more clicks wait than the queue holds.
THEOREM Typing == Spec => []TypeOK
<1>1. IInv => TypeOK
  <2> SUFFICES ASSUME IInv PROVE TypeOK
    OBVIOUS
  <2>1. \A r \in Range(rows) : r.kind \in RowKinds \ {"more"}
    BY Emptied DEF IInv, MenuAsBuilt, Open, NoRows, Fits
  <2>2. \A r \in Range(subRows) : r.kind = "more"
    BY Emptied DEF IInv, SubmenuAsBuilt, SubmenuOpen, NoRows
  <2> QED BY <2>1, <2>2 DEF TypeOK, IInv, Typed, SubmenuOverMenu, ClicksFit
<1> QED BY AlwaysIInv, <1>1, PTL

\* A click misses the item its row names only after a change of the lists the ids
\* point into, for lists of any length (NmTrayPopup::fillMain,
\* TrayController::executePendingActions, TrayController::lookupMenuItem).
THEOREM Misled == Spec => []OnlyAChangeMisleads
<1>1. IInv => OnlyAChangeMisleads
  BY DEF IInv
<1> QED BY AlwaysIInv, <1>1, PTL

\* Once no update is due, the open menu has a row for each network in range, each
\* with the id that means it now, and the row of saved networks if there are any
\* (TrayController::onMainMenuUpdateTimeout, mainMenuFingerprint).
THEOREM Matched == Spec => []RowsMatchLists
<1>1. IInv => RowsMatchLists
  <2> SUFFICES ASSUME IInv, Open, ~due PROVE Aligned
    BY DEF RowsMatchLists
  <2> DEFINE s == drawnFrom.main
  <2>1. /\ s \in Snapshots /\ data \in Snapshots /\ Fingerprint(data) = Fingerprint(s)
        /\ \A r \in Range(rows) : Fits(r, s)
        /\ ListsNothing(rows) \/ ListsAll(rows, s)
    BY DEF IInv, Typed, MenuAsBuilt, DrawnIsLatest
  <2> HIDE DEF s
  <2>2. /\ NamesOf(data.available) = NamesOf(s.available) /\ data.more = s.more
        /\ Len(data.vpn) = Len(s.vpn)
    BY <2>1 DEF Fingerprint
  <2>3. /\ DOMAIN s.available = 1..Len(s.available) /\ DOMAIN data.available = 1..Len(data.available)
        /\ DOMAIN s.vpn = 1..Len(s.vpn) /\ DOMAIN data.vpn = 1..Len(data.vpn)
        /\ Len(s.available) \in Nat /\ Len(data.available) \in Nat
    BY <2>1, SnapshotsAssumption DEF IsList
  <2>4. 1..Len(data.available) = 1..Len(s.available)
    BY <2>2 DEF NamesOf
  <2>5. Len(data.available) = Len(s.available)
    BY <2>3, <2>4, SameLength
  <2>6. \A i \in DOMAIN s.available : data.available[i].name = s.available[i].name
    BY <2>2, <2>3, <2>4 DEF NamesOf
  <2>7. ASSUME NEW i \in RowsOf({"available"})
        PROVE  Meant(data, rows[i].id).name = rows[i].name
    <3> DEFINE r == rows[i]
    <3>1. r \in Range(rows) /\ r.kind = "available"
      BY DEF RowsOf, Range
    <3> HIDE DEF r
    <3>2. r.id[1] = "available" /\ Names(r, s) /\ "available" \in Kinds
      BY <2>1, <3>1 DEF Fits, Kinds
    <3>3. r.id[2] \in DOMAIN s.available /\ s.available[r.id[2]].name = r.name
      BY <2>1, <3>2, Lists DEF Names
    <3>4. r.id[2] \in DOMAIN data.available /\ data.available[r.id[2]].name = r.name
      BY <2>3, <2>4, <2>6, <3>3
    <3>5. ListFor(data, r.id[1]) = data.available
      BY <2>1, <3>2, Lists
    <3>6. Meant(data, r.id).name = r.name
      BY <3>4, <3>5 DEF Meant
    <3> QED BY <3>6 DEF r
  <2>8. ASSUME NEW i \in RowsOf({"vpn"})
        PROVE  rows[i].id[2] \in DOMAIN data.vpn
    <3> DEFINE r == rows[i]
    <3>1. r \in Range(rows) /\ r.kind = "vpn"
      BY DEF RowsOf, Range
    <3> HIDE DEF r
    <3>2. r.id[1] = "vpn" /\ Names(r, s) /\ "vpn" \in Kinds
      BY <2>1, <3>1 DEF Fits, Kinds
    <3>3. r.id[2] \in DOMAIN s.vpn
      BY <2>1, <3>2, Lists DEF Names
    <3>4. r.id[2] \in DOMAIN data.vpn
      BY <2>2, <2>3, <3>3
    <3> QED BY <3>4 DEF r
  <2>9. \A ks : RowsOf(ks) = Of(rows, ks)
    BY DEF RowsOf, Of
  <2>10. ASSUME Listed
         PROVE  /\ Cardinality(RowsOf({"connecting", "available"})) = Len(data.available)
                /\ (RowsOf({"saved networks"}) = {}) <=> (data.more = <<>>)
    <3> DEFINE saved == {"saved networks"}
    <3>1. IsFiniteSet(Of(rows, Networks)) /\ IsFiniteSet(Of(rows, saved))
      <4>1. IsFiniteSet(DOMAIN rows)
        BY DEF IInv, MenuAsBuilt
      <4> QED BY <4>1, FS_Subset DEF Of
    <3>2. /\ Count(rows, Networks) = 0 <=> Of(rows, Networks) = {}
          /\ Count(rows, saved) = 0 <=> Of(rows, saved) = {}
      BY <3>1, FS_EmptySet DEF Count
    <3>3. ~(Of(rows, Networks) = {} /\ Of(rows, saved) = {})
      <4>1. PICK i \in DOMAIN rows : rows[i].kind \in {"connecting", "available", "saved networks"}
        BY <2>10 DEF Listed, RowsOf
      <4>2. i \in Of(rows, Networks) \/ i \in Of(rows, saved)
        BY <4>1 DEF Of, Networks
      <4> QED BY <4>2
    <3>4. ListsAll(rows, s)
      BY <2>1, <3>2, <3>3 DEF ListsNothing
    <3>5. Cardinality(Of(rows, Networks)) = Len(data.available)
      BY <2>5, <3>4 DEF ListsAll, Count
    <3>6. (Of(rows, saved) = {}) <=> (data.more = <<>>)
      <4>1. Count(rows, saved) = IF s.more = <<>> THEN 0 ELSE 1
        BY <3>4 DEF ListsAll
      <4>2. Count(rows, saved) = 0 <=> s.more = <<>>
        <5> HIDE DEF saved
        <5>1. CASE s.more = <<>>
          BY <4>1, <5>1
        <5>2. CASE s.more # <<>>
          BY <4>1, <5>2
        <5> QED BY <5>1, <5>2
      <4> QED BY <2>2, <3>2, <4>2
    <3> QED BY <2>9, <3>5, <3>6 DEF Networks
  <2> QED BY <2>7, <2>8, <2>10 DEF Aligned
<1> QED BY AlwaysIInv, <1>1, PTL

\* An update never builds the menu again under an open submenu, and no refresh,
\* click or showing changes its rows (TrayController::onMainMenuUpdateTimeout,
\* NmTrayPopup::triggerAction, hideEvent).
THEOREM MenuStays == Spec => SubmenuHoldsMenu
<1>1. SubmenuOverMenu /\ [Next]_vars => [SubmenuOpen /\ Open' => rows' = rows]_vars
  <2> SUFFICES ASSUME SubmenuOverMenu, [Next]_vars, SubmenuOpen, Open'
               PROVE  rows' = rows
    OBVIOUS
  <2> QED BY RowsStep DEF Open
<1> QED BY InitEstablishes, Inductive, <1>1, PTL DEF Spec, SubmenuHoldsMenu
===============================================================================
