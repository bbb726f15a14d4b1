--------------------------- MODULE WifiCacheProofs ---------------------------
(***************************************************************************)
(* Proofs about WifiCache, in two parts.  How long a network stays in the  *)
(* cache: the misses the code counts never exceed the refreshes in a row   *)
(* without the network, which the history variable counts.  And what the   *)
(* two lists hold: sorting and capping keep each row once, so the rows are *)
(* the cache but for the connected network as long as there is room.       *)
(***************************************************************************)
EXTENDS WifiCache, TLAPS, FiniteSetTheorems, SequenceTheorems, WellFoundedInduction

-----------------------------------------------------------------------------
(* How long a network is cached.                                           *)

Counted(s) ==
    /\ cache[s].misses \in 0..(PruneAfter - 1)
    /\ cache[s].misses <= absent[s]

IInv ==
    /\ absent \in [Ssids -> 0..MaxAbsent]
    /\ DOMAIN cache \subseteq Ssids
    /\ \A s \in DOMAIN cache : Counted(s)

\* At first nothing is cached.
LEMMA InitCounted == Init => IInv
  BY CacheAssumption DEF Init, IInv, Empty, CacheAssumption

\* Whatever has just been seen is in range and not connected.
LEMMA BestOf ==
  /\ DOMAIN BestBySsid = InScan \ {ActiveSsid}
  /\ \A s \in DOMAIN BestBySsid : BestBySsid[s].misses = 0
  BY DEF BestBySsid

\* InScan holds SSIDs of access points there may be.
LEMMA InScanSsids == InScan \subseteq Ssids
  BY CacheAssumption DEF InScan, Seen, SsidOf, CacheAssumption

\* A cached network after the merge: seen and with no misses, or as it was.
LEMMA Merge ==
  ASSUME NEW best
  PROVE  /\ DOMAIN MergedWith(best) = DOMAIN cache \cup DOMAIN best
         /\ \A s \in DOMAIN best : MergedWith(best)[s] = best[s]
         /\ \A s \in DOMAIN cache \ DOMAIN best : MergedWith(best)[s] = cache[s]
  BY DEF MergedWith

\* The history counts every refresh without the network, up to its bound.
LEMMA AbsentCounts ==
  ASSUME absent \in [Ssids -> 0..MaxAbsent], CountAbsent
  PROVE  /\ absent' \in [Ssids -> 0..MaxAbsent]
         /\ \A s \in Ssids : s \in DOMAIN BestBySsid => absent'[s] = 0
         /\ \A s \in Ssids : s \notin DOMAIN BestBySsid =>
               \/ absent'[s] = absent[s] + 1
               \/ absent'[s] = MaxAbsent /\ absent[s] = MaxAbsent
  <1>1. MaxAbsent \in Nat
    BY CacheAssumption DEF CacheAssumption
  <1> QED
    BY <1>1, BestOf DEF CountAbsent

\* A refresh keeps the count; what leaves the cache was missed often enough.
LEMMA RebuildCounts ==
  ASSUME IInv, usable, cache' = NewCache, CountAbsent
  PROVE  IInv' /\ LeavesOnlyAfter(PruneAfter)
  <1> DEFINE best == BestBySsid
             merged == MergedWith(best)
             missed == DOMAIN merged \ DOMAIN best
             stale == {s \in missed : s = ActiveSsid \/ merged[s].misses + 1 >= PruneAfter}
  <1>1. PruneAfter \in Nat \ {0} /\ MaxAbsent \in Nat /\ PruneAfter <= MaxAbsent
    BY CacheAssumption DEF CacheAssumption
  <1>2. DOMAIN merged = DOMAIN cache \cup DOMAIN best
    BY Merge
  <1>3. DOMAIN best \subseteq Ssids
    BY BestOf, InScanSsids
  <1>4. DOMAIN merged \subseteq Ssids
    BY <1>2, <1>3 DEF IInv
  <1>5. /\ absent' \in [Ssids -> 0..MaxAbsent]
        /\ \A s \in DOMAIN best : absent'[s] = 0
        /\ \A s \in missed :
              \/ absent'[s] = absent[s] + 1
              \/ absent'[s] = MaxAbsent /\ absent[s] = MaxAbsent
    BY <1>3, <1>4, AbsentCounts DEF IInv
  <1>6. \A s \in DOMAIN best : merged[s].misses = 0
    BY BestOf, Merge
  <1>7. \A s \in missed : merged[s] = cache[s] /\ s \in DOMAIN cache
    BY <1>2, Merge
  <1>8. \A s \in missed : /\ absent[s] \in 0..MaxAbsent
                          /\ merged[s].misses \in 0..(PruneAfter - 1)
                          /\ merged[s].misses <= absent[s]
    BY <1>4, <1>7 DEF IInv, Counted
  <1>9. CASE AllowPrune
    <2>1. cache' = [s \in DOMAIN merged \ stale |->
                      IF s \in missed THEN [merged[s] EXCEPT !.misses = @ + 1] ELSE merged[s]]
      BY <1>9 DEF NewCache, PrunedOf
    <2>2. DOMAIN cache' = DOMAIN merged \ stale
      BY <2>1
    <2>3. ASSUME NEW s \in DOMAIN cache'  PROVE Counted(s)'
      <3>1. CASE s \in missed
        <4>1. cache'[s].misses \in {merged[s].misses + 1, merged[s].misses}
          BY <2>1, <2>2, <3>1, <1>7 DEF IInv, Counted
        <4>2. merged[s].misses + 1 < PruneAfter
          BY <2>2, <3>1, <1>8, <1>1
        <4> QED
          BY <4>1, <4>2, <3>1, <1>8, <1>5, <1>1 DEF Counted
      <3>2. CASE s \notin missed
        <4>1. s \in DOMAIN best /\ cache'[s] = merged[s]
          BY <2>1, <2>2, <3>2
        <4> QED
          BY <4>1, <1>6, <1>5, <1>1 DEF Counted
      <3> QED
        BY <3>1, <3>2
    <2>4. ASSUME NEW s \in DOMAIN cache, s \notin DOMAIN cache', s # ActiveSsid
          PROVE  absent'[s] >= PruneAfter
      <3>1. s \in missed /\ merged[s].misses + 1 >= PruneAfter
        BY <2>2, <2>4, <1>2
      <3> QED
        BY <3>1, <1>8, <1>5, <1>1
    <2> QED
      BY <2>2, <2>3, <2>4, <1>4, <1>5 DEF IInv, LeavesOnlyAfter
  <1>10. CASE ~AllowPrune
    <2>1. cache' = merged
      BY <1>10 DEF NewCache
    <2>2. ASSUME NEW s \in DOMAIN cache'  PROVE Counted(s)'
      <3>1. CASE s \in missed
        BY <2>1, <3>1, <1>8, <1>5, <1>1 DEF Counted
      <3>2. CASE s \notin missed
        BY <2>1, <3>2, <2>2, <1>6, <1>5, <1>1 DEF Counted
      <3> QED
        BY <3>1, <3>2
    <2> QED
      BY <2>1, <2>2, <1>2, <1>4, <1>5 DEF IInv, LeavesOnlyAfter
  <1> QED
    BY <1>9, <1>10

\* Every step keeps the count, and only a refresh takes a network out of the cache.
LEMMA NextCounts == IInv /\ [Next]_vars => IInv' /\ (usable => LeavesOnlyAfter(PruneAfter))
  <1> SUFFICES ASSUME IInv, [Next]_vars
               PROVE  IInv' /\ (usable => LeavesOnlyAfter(PruneAfter))
    OBVIOUS
  <1>1. CASE RebuildWifi
    <2>1. CASE usable
      BY <1>1, <2>1, RebuildCounts DEF RebuildWifi
    <2>2. CASE ~usable
      <3>1. cache' = Empty /\ CountAbsent
        BY <1>1, <2>2 DEF RebuildWifi
      <3>2. absent' \in [Ssids -> 0..MaxAbsent]
        BY <3>1, AbsentCounts DEF IInv
      <3> QED
        BY <2>2, <3>1, <3>2 DEF IInv, Empty
    <2> QED
      BY <2>1, <2>2
  <1>2. CASE UNCHANGED <<cache, absent>>
    BY <1>2 DEF IInv, Counted, LeavesOnlyAfter
  <1>3. ApChanges \/ ConnectionChanges \/ ProfileChanges \/ RadioChanges
          \/ ScanSessionChanges \/ UNCHANGED vars => UNCHANGED <<cache, absent>>
    BY DEF ApChanges, ConnectionChanges, ProfileChanges, RadioChanges,
           ScanSessionChanges, Stale, lists, history, vars
  <1> QED
    BY <1>1, <1>2, <1>3 DEF Next

\* A network that is neither connected nor cut off with the radio leaves the
\* cache of rebuildWifi only after PruneAfter refreshes in a row without it, for
\* any number of networks and access points.
THEOREM CacheIsPatient == Spec => PrunedOnlyIfMissed
  <1>1. Init => IInv
    BY InitCounted
  <1>2. IInv /\ [Next]_vars => IInv'
    BY NextCounts
  <1>3. IInv /\ [Next]_vars => [LeavesOnlyAfter(PruneAfter)]_vars
    BY NextCounts DEF LeavesOnlyAfter
  <1> QED
    BY <1>1, <1>2, <1>3, PTL DEF Spec, PrunedOnlyIfMissed

-----------------------------------------------------------------------------
(* Numbers, and loops over them.                                           *)

\* A non-empty set of numbers has a least one: what stands for induction here.
LEMMA NatMin ==
  ASSUME NEW T \in SUBSET Nat, T # {}
  PROVE  \E x \in T : \A y \in T : x <= y
<1> DEFINE R == {ss \in Nat \X Nat : ss[1] < ss[2]}
<1>1. IsWellFoundedOn(R, Nat)
  BY NatLessThanWellFounded DEF OpToRel
<1>2. \A x, y \in Nat : y < x => <<y, x>> \in R
  OBVIOUS
<1> HIDE DEF R
<1>3. PICK x \in T : \A y \in T : ~(<<y, x>> \in R)
  BY <1>1, WFMin
<1>4. \A y \in T : x <= y
  <2> SUFFICES ASSUME NEW y \in T PROVE x <= y
    OBVIOUS
  <2>1. x \in Nat /\ y \in Nat /\ ~(y < x)
    BY <1>2, <1>3
  <2> QED BY <2>1
<1> QED BY <1>4

\* Min is a number of its set.
LEMMA MinIsLeast ==
  ASSUME NEW T \in SUBSET Nat, T # {}
  PROVE  Min(T) \in T
BY NatMin DEF Min

\* Max is the greatest number of a set with a bound.
LEMMA MaxIsGreatest ==
  ASSUME NEW m \in Nat, NEW T \in SUBSET (0..m), T # {}
  PROVE  Max(T) \in T /\ \A y \in T : y <= Max(T)
<1> DEFINE U == {m - y : y \in T}
<1>1. U \in SUBSET Nat /\ U # {}
  <2>1. \A y \in T : m - y \in Nat
    OBVIOUS
  <2>2. PICK w \in T : TRUE
    OBVIOUS
  <2>3. m - w \in U
    BY <2>2
  <2> QED BY <2>1, <2>3
<1>2. PICK x \in U : \A y \in U : x <= y
  <2> HIDE DEF U
  <2> QED BY <1>1, NatMin
<1>3. PICK t \in T : x = m - t
  BY <1>2
<1>4. \A y \in T : t >= y
  <2> SUFFICES ASSUME NEW y \in T PROVE t >= y
    OBVIOUS
  <2>1. m - t <= m - y
    BY <1>2, <1>3
  <2> QED BY <2>1
<1>5. Max(T) \in T /\ \A y \in T : Max(T) >= y
  BY <1>4 DEF Max
<1> QED BY <1>5

\* A value carried from one pass of a loop to the next, and the loop's function.
LEMMA Carried ==
  ASSUME NEW S, NEW lo \in Nat, NEW hi \in Nat, NEW f, f[lo] \in S,
         \A j \in (lo + 1)..hi : f[j - 1] \in S => f[j] \in S
  PROVE  \A j \in lo..hi : f[j] \in S
<1> DEFINE T == {j \in lo..hi : f[j] \notin S}
<1> SUFFICES ASSUME T # {} PROVE FALSE
  OBVIOUS
<1>1. T \in SUBSET Nat
  OBVIOUS
<1>2. PICK j \in T : \A k \in T : j <= k
  <2> HIDE DEF T
  <2> QED BY <1>1, NatMin
<1>3. j \in (lo + 1)..hi /\ j - 1 \in lo..hi /\ f[j] \notin S
  BY <1>2
<1>4. j - 1 \notin T
  BY <1>2, <1>3
<1> QED BY <1>3, <1>4

\* What a loop computes, from its start a: its value after each of its passes.
IsRun(f, S, a, lo, hi, step) ==
  /\ f \in [lo..hi -> S]
  /\ f[lo] = a
  /\ \A j \in (lo + 1)..hi : f[j] = step[<<f[j - 1], j>>]

\* A loop whose passes stay in a set computes something.
LEMMA Iterated ==
  ASSUME NEW S, NEW a \in S, NEW lo \in Nat, NEW hi \in Nat, lo <= hi,
         NEW step \in [S \X ((lo + 1)..hi) -> S]
  PROVE  \E f : IsRun(f, S, a, lo, hi, step)
<1> DEFINE Runs(h) == \E f \in [lo..h -> S] : /\ f[lo] = a
                                              /\ \A j \in (lo + 1)..h : f[j] = step[<<f[j - 1], j>>]
           T == {h \in lo..hi : ~Runs(h)}
<1> SUFFICES T = {}
  <2>1. hi \in lo..hi
    OBVIOUS
  <2>2. T = {} => Runs(hi)
    <3> HIDE DEF Runs
    <3> QED BY <2>1
  <2> QED BY <2>2 DEF IsRun
<1> SUFFICES ASSUME T # {} PROVE FALSE
  OBVIOUS
<1>1. T \in SUBSET Nat
  OBVIOUS
<1>2. PICK h \in T : \A k \in T : h <= k
  <2> HIDE DEF T
  <2> QED BY <1>1, NatMin
<1>3. h \in lo..hi /\ ~Runs(h)
  BY <1>2
<1>4. h # lo
  <2> DEFINE f == [j \in lo..lo |-> a]
  <2>1. f \in [lo..lo -> S] /\ f[lo] = a /\ \A j \in (lo + 1)..lo : f[j] = step[<<f[j - 1], j>>]
    OBVIOUS
  <2>2. Runs(lo)
    <3> HIDE DEF f
    <3> QED BY <2>1
  <2> QED BY <1>3, <2>2
<1>5. h - 1 \in lo..hi /\ h \in (lo + 1)..hi
  BY <1>3, <1>4
<1>6. Runs(h - 1)
  <2>1. h - 1 \notin T
    BY <1>2, <1>5
  <2> HIDE DEF Runs
  <2> QED BY <1>5, <2>1
<1>7. PICK f \in [lo..(h - 1) -> S] : /\ f[lo] = a
                                      /\ \A j \in (lo + 1)..(h - 1) : f[j] = step[<<f[j - 1], j>>]
  BY <1>6
<1> DEFINE g == [j \in lo..h |-> IF j = h THEN step[<<f[j - 1], j>>] ELSE f[j]]
<1>8. f[h - 1] \in S /\ step[<<f[h - 1], h>>] \in S
  BY <1>5
<1>9. g \in [lo..h -> S]
  BY <1>3, <1>5, <1>8
<1>10. g[lo] = a
  BY <1>3, <1>4, <1>7
<1>11. ASSUME NEW j \in (lo + 1)..h PROVE g[j] = step[<<g[j - 1], j>>]
  <2>1. j - 1 \in lo..h /\ j - 1 # h /\ j \in lo..h
    BY <1>3
  <2>2. g[j - 1] = f[j - 1]
    BY <2>1
  <2>3. CASE j = h
    BY <2>1, <2>2, <2>3
  <2>4. CASE j # h
    <3>1. j \in (lo + 1)..(h - 1)
      BY <1>3, <2>4
    <3> QED BY <1>7, <2>1, <2>2, <2>4, <3>1
  <2> QED BY <2>3, <2>4
<1> HIDE DEF g
<1>12. Runs(h)
  BY <1>9, <1>10, <1>11
<1> QED BY <1>3, <1>12

\* The place of a number among the numbers of a set.
Rank(set, n) == Cardinality({m \in set : m <= n})

\* The ranks of a set of numbers run from 1 to its size, one for each number.
LEMMA Ranked ==
  ASSUME NEW set \in SUBSET Nat, IsFiniteSet(set)
  PROVE  /\ Cardinality(set) \in Nat
         /\ \A n \in set : Rank(set, n) \in 1..Cardinality(set)
         /\ \A m, n \in set : Rank(set, m) = Rank(set, n) => m = n
<1> DEFINE Upto(n) == {m \in set : m <= n}
<1>1. \A n \in set : /\ IsFiniteSet(Upto(n))
                     /\ Cardinality(Upto(n)) \in Nat
                     /\ Cardinality(Upto(n)) <= Cardinality(set)
  BY FS_Subset, FS_CardinalityType
<1>2. Cardinality(set) \in Nat
  BY FS_CardinalityType
<1>3. \A n \in set : Cardinality(Upto(n)) # 0
  <2> SUFFICES ASSUME NEW n \in set PROVE Cardinality(Upto(n)) # 0
    OBVIOUS
  <2>1. n \in Upto(n)
    OBVIOUS
  <2> QED BY <1>1, <2>1, FS_EmptySet
<1>4. ASSUME NEW m \in set, NEW n \in set, m < n PROVE Cardinality(Upto(m)) # Cardinality(Upto(n))
  <2>a. m \in Nat /\ n \in Nat /\ n <= n /\ ~(n <= m)
    BY <1>4
  <2>b. \A k \in set : k <= m => k <= n
    BY <1>4
  <2>1. Upto(m) \in SUBSET Upto(n) /\ n \in Upto(n) /\ n \notin Upto(m)
    BY <2>a, <2>b
  <2>2. IsFiniteSet(Upto(n))
    BY <1>1
  <2> HIDE DEF Upto
  <2> QED BY <2>1, <2>2, FS_Subset
<1>5. \A m, n \in set : m < n \/ n < m \/ m = n
  OBVIOUS
<1>6. \A n : Rank(set, n) = Cardinality(Upto(n))
  BY DEF Rank
<1> HIDE DEF Upto
<1>7. \A n \in set : Cardinality(Upto(n)) \in 1..Cardinality(set)
  BY <1>1, <1>2, <1>3
<1>8. \A m, n \in set : Cardinality(Upto(m)) = Cardinality(Upto(n)) => m = n
  BY <1>4, <1>5
<1> QED BY <1>2, <1>6, <1>7, <1>8

\* Nth gives the number of a rank.
LEMMA Numbered ==
  ASSUME NEW set \in SUBSET Nat, IsFiniteSet(set)
  PROVE  /\ \A k \in 1..Cardinality(set) : Nth(set, k) \in set /\ Rank(set, Nth(set, k)) = k
         /\ \A n \in set : n = Nth(set, Rank(set, n))
<1> DEFINE f == [n \in set |-> Rank(set, n)]
           places == 1..Cardinality(set)
<1>1. f \in Injection(set, places)
  BY Ranked DEF Injection, IsInjective
<1>2. IsFiniteSet(places) /\ Cardinality(places) = Cardinality(set)
  <2>1. Cardinality(set) \in Nat
    BY Ranked
  <2>2. /\ IsFiniteSet(places)
        /\ Cardinality(places) = IF 1 > Cardinality(set) THEN 0 ELSE Cardinality(set) - 1 + 1
    BY <2>1, FS_Interval
  <2> QED BY <2>1, <2>2
<1>3. f \in Surjection(set, places)
  <2> HIDE DEF f, places
  <2> QED BY <1>1, <1>2, FS_Injection
<1>4. \A k \in places : \E n \in set : Rank(set, n) = k
  BY <1>3 DEF Surjection
<1>5. \A k : Nth(set, k) = CHOOSE n \in set : Rank(set, n) = k
  BY DEF Nth, Rank
<1>6. \A k \in places : Nth(set, k) \in set /\ Rank(set, Nth(set, k)) = k
  BY <1>4, <1>5
<1>7. ASSUME NEW n \in set PROVE n = Nth(set, Rank(set, n))
  <2>1. Rank(set, n) \in places
    BY Ranked
  <2>2. Nth(set, Rank(set, n)) \in set /\ Rank(set, Nth(set, Rank(set, n))) = Rank(set, n)
    BY <1>6, <2>1
  <2>3. \A p, q \in set : Rank(set, p) = Rank(set, q) => p = q
    BY Ranked
  <2> QED BY <2>2, <2>3
<1> QED BY <1>6, <1>7

-----------------------------------------------------------------------------
(* The parts of rebuildWifi.                                               *)

\* No two rows of a list have the same name.
Distinct(list) == \A i, j \in DOMAIN list : list[i].name = list[j].name => i = j

\* A row for every network of the cache but the connected one, in the order of the keys.
LEMMA Listed ==
  ASSUME NEW c, DOMAIN c \subseteq Ssids, \A s \in DOMAIN c : c[s] \in Entry
  PROVE  /\ ListOf(c) \in Seq(Item)
         /\ Distinct(ListOf(c))
         /\ Names(ListOf(c)) = DOMAIN c \ {ActiveSsid}
<1> DEFINE listed == DOMAIN c \ {ActiveSsid}
           n == Cardinality(listed)
           list == [k \in 1..n |-> ItemOf(c, Nth(listed, k))]
<1>1. listed \in SUBSET Nat /\ IsFiniteSet(listed) /\ n \in Nat
  <2>1. listed \subseteq Ssids /\ Ssids \subseteq Nat /\ IsFiniteSet(Ssids)
    BY CacheAssumption DEF CacheAssumption
  <2> QED BY <2>1, FS_Subset, FS_CardinalityType
<1>2. ListOf(c) = list
  BY DEF ListOf
<1> HIDE DEF listed
<1>3. \A k \in 1..n : Nth(listed, k) \in listed /\ Rank(listed, Nth(listed, k)) = k
  BY <1>1, Numbered
<1>4. \A s \in listed : Rank(listed, s) \in 1..n /\ s = Nth(listed, Rank(listed, s))
  BY <1>1, Numbered, Ranked
<1>5. \A s \in listed : ItemOf(c, s) \in Item /\ ItemOf(c, s).name = s
  <2> SUFFICES ASSUME NEW s \in listed PROVE ItemOf(c, s) \in Item /\ ItemOf(c, s).name = s
    OBVIOUS
  <2>1. s \in Ssids /\ c[s] \in Entry
    BY DEF listed
  <2>2. c[s].strength \in 1..MaxStrength /\ c[s].profile \in Profiles \cup {NoProfile}
    BY <2>1 DEF Entry
  <2> QED BY <2>1, <2>2 DEF ItemOf, Item
<1>6. \A k \in 1..n : list[k] \in Item /\ list[k].name = Nth(listed, k)
  BY <1>3, <1>5
<1>7. list \in Seq(Item)
  BY <1>1, <1>6
<1>8. DOMAIN list = 1..n
  OBVIOUS
<1> HIDE DEF list
<1>9. Distinct(list)
  BY <1>3, <1>6, <1>8 DEF Distinct
<1>10. Names(list) = listed
  <2>1. Names(list) \subseteq listed
    BY <1>3, <1>6, <1>8 DEF Names
  <2>2. ASSUME NEW s \in listed PROVE s \in Names(list)
    <3>1. list[Rank(listed, s)].name = s /\ Rank(listed, s) \in DOMAIN list
      BY <1>4, <1>6, <1>8
    <3> QED BY <3>1 DEF Names
  <2> QED BY <2>1, <2>2
<1> QED BY <1>2, <1>7, <1>9, <1>10 DEF listed

\* The lists of n rows that list the same names, each once.
Arranged(n, ns) == {m \in [1..n -> Item] : Distinct(m) /\ Names(m) = ns}

\* An exchange of two rows rearranges the list.
LEMMA Exchanged ==
  ASSUME NEW n \in Nat, NEW ns, NEW m \in Arranged(n, ns), NEW i \in 1..n, NEW j \in 1..n
  PROVE  Exchange(m, i, j) \in Arranged(n, ns)
<1>1. m \in [1..n -> Item] /\ Distinct(m) /\ Names(m) = ns
  BY DEF Arranged
<1>2. CASE Better(m[j], m[i])
  <2> DEFINE q == [m EXCEPT ![i] = m[j], ![j] = m[i]]
             at == [k \in 1..n |-> IF k = j THEN i ELSE IF k = i THEN j ELSE k]
  <2>1. Exchange(m, i, j) = q
    BY <1>2 DEF Exchange
  <2>2. q \in [1..n -> Item]
    BY <1>1
  <2>3. \A k \in 1..n : q[k] = m[at[k]] /\ at[k] \in 1..n /\ at[at[k]] = k
    <3> SUFFICES ASSUME NEW k \in 1..n PROVE q[k] = m[at[k]] /\ at[k] \in 1..n /\ at[at[k]] = k
      OBVIOUS
    <3>1. CASE k = j
      BY <3>1, <1>1
    <3>2. CASE k = i /\ k # j
      BY <3>2, <1>1
    <3>3. CASE k # i /\ k # j
      BY <3>3, <1>1
    <3> QED BY <3>1, <3>2, <3>3
  <2>4. DOMAIN q = 1..n /\ DOMAIN m = 1..n
    BY <1>1
  <2> HIDE DEF q, at
  <2>5. Distinct(q)
    BY <1>1, <2>3, <2>4 DEF Distinct
  <2>6. Names(q) = Names(m)
    <3>1. \A k \in 1..n : m[k] = q[at[k]]
      BY <2>3
    <3> QED BY <2>3, <2>4, <3>1 DEF Names
  <2> QED BY <1>1, <2>1, <2>2, <2>5, <2>6 DEF Arranged
<1>3. CASE ~Better(m[j], m[i])
  BY <1>3 DEF Exchange
<1> QED BY <1>2, <1>3

\* So does a pass.
LEMMA Passed ==
  ASSUME NEW n \in Nat, NEW ns, NEW m \in Arranged(n, ns), NEW i \in 1..n
  PROVE  Pass(m, i) \in Arranged(n, ns)
<1> DEFINE S == Arranged(n, ns)
           P(f) == f = [j \in i..n |-> IF j = i THEN m ELSE Exchange(f[j - 1], i, j)]
           upTo == CHOOSE f : P(f)
           step == [x \in S \X ((i + 1)..n) |-> Exchange(x[1], i, x[2])]
<1>1. Len(m) = n
  BY DEF Arranged
<1>2. Pass(m, i) = upTo[n]
  BY <1>1 DEF Pass
<1>3. step \in [S \X ((i + 1)..n) -> S]
  <2> SUFFICES ASSUME NEW x \in S \X ((i + 1)..n) PROVE Exchange(x[1], i, x[2]) \in S
    OBVIOUS
  <2>1. x[1] \in S /\ x[2] \in 1..n
    OBVIOUS
  <2> QED BY <2>1, Exchanged
<1>4. PICK f \in [i..n -> S] : /\ f[i] = m
                               /\ \A j \in (i + 1)..n : f[j] = step[<<f[j - 1], j>>]
  <2>1. i \in Nat /\ i <= n
    OBVIOUS
  <2>2. m \in S
    OBVIOUS
  <2> HIDE DEF S, step, P, upTo
  <2>3. \E f : IsRun(f, S, m, i, n, step)
    BY <1>3, <2>1, <2>2, Iterated
  <2> QED BY <2>3 DEF IsRun
<1>5. \A j \in (i + 1)..n : f[j] = Exchange(f[j - 1], i, j)
  <2> SUFFICES ASSUME NEW j \in (i + 1)..n PROVE f[j] = Exchange(f[j - 1], i, j)
    OBVIOUS
  <2>1. f[j - 1] \in S
    BY <1>4
  <2>2. <<f[j - 1], j>> \in S \X ((i + 1)..n)
    BY <2>1
  <2> HIDE DEF S
  <2> QED BY <1>4, <2>2
<1>6. P(f)
  <2>1. \A j \in i..n : f[j] = IF j = i THEN m ELSE Exchange(f[j - 1], i, j)
    <3> SUFFICES ASSUME NEW j \in i..n PROVE f[j] = IF j = i THEN m ELSE Exchange(f[j - 1], i, j)
      OBVIOUS
    <3>1. j # i => j \in (i + 1)..n
      OBVIOUS
    <3> QED BY <1>4, <1>5, <3>1
  <2> HIDE DEF S
  <2> QED BY <1>4, <2>1
<1> HIDE DEF P
<1>7. P(upTo)
  BY <1>6
<1> HIDE DEF upTo
<1>8. upTo = [j \in i..n |-> IF j = i THEN m ELSE Exchange(upTo[j - 1], i, j)]
  BY <1>7 DEF P
<1>9. upTo[i] \in S
  <2>1. i \in i..n
    OBVIOUS
  <2> HIDE DEF S
  <2> QED BY <1>8, <2>1 DEF S
<1>10. ASSUME NEW j \in (i + 1)..n, upTo[j - 1] \in S PROVE upTo[j] \in S
  <2>1. j \in i..n /\ j # i /\ j \in 1..n
    OBVIOUS
  <2>2. upTo[j] = Exchange(upTo[j - 1], i, j)
    BY <1>8, <2>1
  <2>3. Exchange(upTo[j - 1], i, j) \in S
    BY <1>10, <2>1, Exchanged
  <2> QED BY <2>2, <2>3
<1> HIDE DEF S
<1>11. \A j \in i..n : upTo[j] \in S
  <2>1. i \in Nat
    OBVIOUS
  <2> QED BY <1>9, <1>10, <2>1, Carried
<1>12. n \in i..n
  OBVIOUS
<1> QED BY <1>2, <1>11, <1>12 DEF S

\* And the sort: the rows it is given, each once.
LEMMA SortKeeps ==
  ASSUME NEW list \in Seq(Item), Distinct(list)
  PROVE  /\ Sorted(list) \in Seq(Item)
         /\ Distinct(Sorted(list))
         /\ Names(Sorted(list)) = Names(list)
         /\ Len(Sorted(list)) = Len(list)
<1> DEFINE n == Len(list)
           S == Arranged(n, Names(list))
           P(f) == f = [i \in 0..n |-> IF i = 0 THEN list ELSE Pass(f[i - 1], i)]
           after == CHOOSE f : P(f)
           step == [x \in S \X (1..n) |-> Pass(x[1], x[2])]
<1>1. n \in Nat /\ list \in S
  BY DEF Arranged
<1>2. Sorted(list) = after[n]
  BY DEF Sorted
<1> HIDE DEF n
<1>3. step \in [S \X (1..n) -> S]
  <2> SUFFICES ASSUME NEW x \in S \X (1..n) PROVE Pass(x[1], x[2]) \in S
    OBVIOUS
  <2>1. x[1] \in S /\ x[2] \in 1..n
    OBVIOUS
  <2> QED BY <1>1, <2>1, Passed
<1> HIDE DEF S
<1>4. PICK f \in [0..n -> S] : /\ f[0] = list
                               /\ \A i \in 1..n : f[i] = step[<<f[i - 1], i>>]
  <2>1. 0 \in Nat /\ 0 <= n /\ 0 + 1 = 1
    BY <1>1
  <2>2. step \in [S \X ((0 + 1)..n) -> S]
    BY <1>3, <2>1
  <2> HIDE DEF step, P, after
  <2>3. \E f : IsRun(f, S, list, 0, n, step)
    BY <1>1, <2>1, <2>2, Iterated
  <2> QED BY <2>1, <2>3 DEF IsRun
<1>5. \A i \in 1..n : f[i] = Pass(f[i - 1], i)
  <2> SUFFICES ASSUME NEW i \in 1..n PROVE f[i] = Pass(f[i - 1], i)
    OBVIOUS
  <2>1. f[i - 1] \in S
    BY <1>1, <1>4
  <2>2. <<f[i - 1], i>> \in S \X (1..n)
    BY <2>1
  <2> QED BY <1>4, <2>2
<1>6. P(f)
  <2>1. \A i \in 0..n : f[i] = IF i = 0 THEN list ELSE Pass(f[i - 1], i)
    <3> SUFFICES ASSUME NEW i \in 0..n PROVE f[i] = IF i = 0 THEN list ELSE Pass(f[i - 1], i)
      OBVIOUS
    <3>1. i # 0 => i \in 1..n
      BY <1>1
    <3> QED BY <1>4, <1>5, <3>1
  <2> QED BY <1>4, <2>1
<1> HIDE DEF P
<1>7. P(after)
  BY <1>6
<1> HIDE DEF after
<1>8. after = [i \in 0..n |-> IF i = 0 THEN list ELSE Pass(after[i - 1], i)]
  BY <1>7 DEF P
<1>9. after[0] \in S
  <2>1. 0 \in 0..n
    BY <1>1
  <2> QED BY <1>1, <1>8, <2>1
<1>10. ASSUME NEW i \in 1..n, after[i - 1] \in S PROVE after[i] \in S
  <2>1. i \in 0..n /\ i # 0
    BY <1>1
  <2>2. after[i] = Pass(after[i - 1], i)
    BY <1>8, <2>1
  <2>3. Pass(after[i - 1], i) \in S
    BY <1>1, <1>10, Passed DEF S
  <2> QED BY <2>2, <2>3
<1>11. \A i \in 0..n : after[i] \in S
  <2>1. 0 \in Nat /\ 0 + 1 = 1
    OBVIOUS
  <2>2. \A i \in (0 + 1)..n : after[i - 1] \in S => after[i] \in S
    BY <1>10, <2>1
  <2> QED BY <1>1, <1>9, <2>1, <2>2, Carried
<1>12. after[n] \in Arranged(n, Names(list))
  <2>1. n \in 0..n
    BY <1>1
  <2> QED BY <1>11, <2>1 DEF S
<1> QED BY <1>1, <1>2, <1>12 DEF Arranged, n

\* A list without duplicates has as many names as rows.
LEMMA CountNames ==
  ASSUME NEW list \in Seq(Item), Distinct(list)
  PROVE  IsFiniteSet(Names(list)) /\ Cardinality(Names(list)) = Len(list)
<1> DEFINE n == Len(list)
           f == [i \in 1..n |-> list[i].name]
<1>1. n \in Nat /\ DOMAIN list = 1..n
  OBVIOUS
<1>2. f \in Injection(1..n, Names(list))
  BY <1>1 DEF Injection, IsInjective, Names, Distinct
<1>3. f \in Surjection(1..n, Names(list))
  <2>1. \A x \in Names(list) : \E i \in 1..n : f[i] = x
    BY <1>1 DEF Names
  <2>2. f \in [1..n -> Names(list)]
    BY <1>2 DEF Injection
  <2> HIDE DEF f, n
  <2> QED BY <2>1, <2>2 DEF Surjection
<1> HIDE DEF f, n
<1>4. IsFiniteSet(1..n) /\ Cardinality(1..n) = n
  <2>1. /\ IsFiniteSet(1..n)
        /\ Cardinality(1..n) = IF 1 > n THEN 0 ELSE n - 1 + 1
    BY <1>1, FS_Interval
  <2> QED BY <1>1, <2>1
<1>5. IsFiniteSet(Names(list)) /\ Cardinality(Names(list)) = Cardinality(1..n)
  BY <1>2, <1>3, <1>4, FS_Surjection
<1> QED BY <1>4, <1>5 DEF n

\* The rows of a list at some of its places.
LEMMA PickedRows ==
  ASSUME NEW list \in Seq(Item), Distinct(list), NEW set \in SUBSET (DOMAIN list)
  PROVE  /\ Picked(list, set) \in Seq(Item)
         /\ Len(Picked(list, set)) = Cardinality(set)
         /\ Distinct(Picked(list, set))
         /\ Names(Picked(list, set)) = {list[i].name : i \in set}
<1> DEFINE n == Cardinality(set)
           q == [k \in 1..n |-> list[Nth(set, k)]]
<1>1. set \in SUBSET Nat /\ IsFiniteSet(set) /\ n \in Nat
  <2>1. DOMAIN list = 1..Len(list) /\ Len(list) \in Nat
    OBVIOUS
  <2>2. IsFiniteSet(1..Len(list))
    BY <2>1, FS_Interval
  <2>3. set \in SUBSET (1..Len(list))
    BY <2>1
  <2>4. IsFiniteSet(set)
    BY <2>2, <2>3, FS_Subset
  <2> QED BY <2>3, <2>4, FS_CardinalityType
<1>2. Picked(list, set) = q
  BY DEF Picked
<1>3. \A k \in 1..n : Nth(set, k) \in set /\ Rank(set, Nth(set, k)) = k
  BY <1>1, Numbered
<1>4. \A i \in set : Rank(set, i) \in 1..n /\ i = Nth(set, Rank(set, i))
  BY <1>1, Numbered, Ranked
<1>5. \A i \in set : list[i] \in Item
  OBVIOUS
<1>6. \A k \in 1..n : q[k] = list[Nth(set, k)] /\ q[k] \in Item
  BY <1>3, <1>5
<1>7. q \in Seq(Item) /\ Len(q) = n /\ DOMAIN q = 1..n
  BY <1>1, <1>6
<1> HIDE DEF q, n
<1>8. Distinct(q)
  <2> SUFFICES ASSUME NEW k \in 1..n, NEW m \in 1..n, q[k].name = q[m].name PROVE k = m
    BY <1>7 DEF Distinct
  <2>1. Nth(set, k) = Nth(set, m)
    BY <1>3, <1>6 DEF Distinct
  <2> QED BY <1>3, <2>1
<1>9. Names(q) = {list[i].name : i \in set}
  <2>1. Names(q) \subseteq {list[i].name : i \in set}
    BY <1>3, <1>6, <1>7 DEF Names
  <2>2. ASSUME NEW i \in set PROVE list[i].name \in Names(q)
    <3>1. Rank(set, i) \in DOMAIN q /\ q[Rank(set, i)] = list[i]
      BY <1>4, <1>6, <1>7
    <3> QED BY <3>1 DEF Names
  <2> QED BY <2>1, <2>2
<1> QED BY <1>2, <1>7, <1>8, <1>9 DEF n

\* Two lists with no name in common, one after the other.
LEMMA Joined ==
  ASSUME NEW p \in Seq(Item), NEW q \in Seq(Item), Distinct(p), Distinct(q),
         Names(p) \cap Names(q) = {}
  PROVE  /\ p \o q \in Seq(Item)
         /\ Distinct(p \o q)
         /\ Names(p \o q) = Names(p) \cup Names(q)
         /\ Len(p \o q) = Len(p) + Len(q)
         /\ \A i \in 1..Len(p) : (p \o q)[i] = p[i]
<1> DEFINE r == p \o q
<1>1. Len(p) \in Nat /\ Len(q) \in Nat /\ DOMAIN p = 1..Len(p) /\ DOMAIN q = 1..Len(q)
  OBVIOUS
<1>2. /\ r \in Seq(Item)
      /\ Len(r) = Len(p) + Len(q)
      /\ \A i \in 1..(Len(p) + Len(q)) : r[i] = IF i <= Len(p) THEN p[i] ELSE q[i - Len(p)]
  BY ConcatProperties
<1>3. DOMAIN r = 1..(Len(p) + Len(q))
  BY <1>2
<1> HIDE DEF r
<1>4. \A i \in 1..Len(p) : r[i] = p[i] /\ i \in DOMAIN r
  BY <1>1, <1>2, <1>3
<1>5. \A i \in 1..Len(q) : r[i + Len(p)] = q[i] /\ i + Len(p) \in DOMAIN r
  BY <1>1, <1>2, <1>3
<1>6. \A i \in DOMAIN r : \/ i \in DOMAIN p /\ r[i] = p[i]
                          \/ i - Len(p) \in DOMAIN q /\ r[i] = q[i - Len(p)]
  BY <1>1, <1>2, <1>3
<1>7. Names(r) = Names(p) \cup Names(q)
  <2>1. Names(r) \subseteq Names(p) \cup Names(q)
    BY <1>6 DEF Names
  <2>2. Names(p) \subseteq Names(r)
    BY <1>1, <1>4 DEF Names
  <2>3. Names(q) \subseteq Names(r)
    BY <1>1, <1>5 DEF Names
  <2> QED BY <2>1, <2>2, <2>3
<1>8. Distinct(r)
  <2> SUFFICES ASSUME NEW i \in DOMAIN r, NEW j \in DOMAIN r, r[i].name = r[j].name
               PROVE  i = j
    BY DEF Distinct
  <2>0. i \in Nat /\ j \in Nat
    BY <1>1, <1>3
  <2>1. CASE i \in DOMAIN p /\ r[i] = p[i] /\ j \in DOMAIN p /\ r[j] = p[j]
    BY <2>1 DEF Distinct
  <2>2. CASE /\ i - Len(p) \in DOMAIN q /\ r[i] = q[i - Len(p)]
             /\ j - Len(p) \in DOMAIN q /\ r[j] = q[j - Len(p)]
    <3>1. i - Len(p) = j - Len(p)
      BY <2>2 DEF Distinct
    <3> QED BY <1>1, <2>0, <3>1
  <2>3. CASE i \in DOMAIN p /\ r[i] = p[i] /\ j - Len(p) \in DOMAIN q /\ r[j] = q[j - Len(p)]
    BY <2>3 DEF Names
  <2>4. CASE j \in DOMAIN p /\ r[j] = p[j] /\ i - Len(p) \in DOMAIN q /\ r[i] = q[i - Len(p)]
    BY <2>4 DEF Names
  <2> QED BY <1>6, <2>1, <2>2, <2>3, <2>4
<1> QED BY <1>2, <1>4, <1>7, <1>8 DEF r

\* The room there is for rows.
LEMMA RoomFor ==
  /\ MaxAvailable \in Nat \ {0} /\ MaxAvailable <= MaxShown /\ MaxShown \in Nat
  /\ ~Connected => MaxAvailable = MaxShown
  /\ Connected => MaxAvailable = MaxShown - 1
BY CacheAssumption DEF CacheAssumption, MaxAvailable

\* What the cap makes of a list without duplicates.
LEMMA CappedRows ==
  ASSUME NEW list \in Seq(Item), Distinct(list),
         NEW previous \in Seq(Item), Distinct(previous)
  PROVE  LET short == Capped(list, previous)
             common == Names(previous) \cap Names(list)
         IN /\ short \in Seq(Item)
            /\ Distinct(short)
            /\ Names(short) \subseteq Names(list)
            /\ Len(short) <= MaxAvailable
            /\ Len(short) < MaxAvailable => Names(short) = Names(list)
            /\ IsFiniteSet(common)
            /\ Cardinality(common) <= MaxAvailable => common \subseteq Names(short)
<1> DEFINE common == Names(previous) \cap Names(list)
           Find(name) == list[CHOOSE i \in DOMAIN list : list[i].name = name]
           inBoth == {i \in DOMAIN previous : previous[i].name \in Names(list)}
           before == Picked(previous, inBoth)
           kept == [i \in DOMAIN before |-> Find(before[i].name)]
           rest == {i \in DOMAIN list : list[i].name \notin Names(kept)}
           others == Picked(list, rest)
           full == kept \o others
<1>1. MaxAvailable \in Nat \ {0}
  BY RoomFor
<1>2. \A name \in Names(list) : Find(name) \in Item /\ Find(name).name = name
  <2> SUFFICES ASSUME NEW name \in Names(list) PROVE Find(name) \in Item /\ Find(name).name = name
    OBVIOUS
  <2>1. PICK k \in DOMAIN list : list[k].name = name
    BY DEF Names
  <2>2. /\ (CHOOSE i \in DOMAIN list : list[i].name = name) \in DOMAIN list
        /\ list[CHOOSE i \in DOMAIN list : list[i].name = name].name = name
    BY <2>1
  <2>3. \A i \in DOMAIN list : list[i] \in Item
    OBVIOUS
  <2> QED BY <2>2, <2>3
<1>3. /\ before \in Seq(Item) /\ Distinct(before)
      /\ Names(before) = common
  <2>1. inBoth \in SUBSET (DOMAIN previous)
    OBVIOUS
  <2>2. {previous[i].name : i \in inBoth} = common
    BY DEF Names
  <2> HIDE DEF inBoth, common
  <2> QED BY <2>1, <2>2, PickedRows
<1>4. IsFiniteSet(common) /\ Cardinality(common) = Len(before) /\ Len(before) \in Nat
  <2> HIDE DEF before, common
  <2>1. IsFiniteSet(Names(before)) /\ Cardinality(Names(before)) = Len(before)
    BY <1>3, CountNames
  <2> QED BY <1>3, <2>1
<1>5. /\ kept \in Seq(Item) /\ Len(kept) = Len(before) /\ DOMAIN kept = 1..Len(before)
      /\ \A i \in 1..Len(before) : kept[i].name = before[i].name
  <2> HIDE DEF before, common, Find
  <2>1. DOMAIN before = 1..Len(before)
    BY <1>3
  <2>2. \A i \in DOMAIN before : before[i].name \in Names(list)
    BY <1>3 DEF Names, common
  <2>3. \A i \in DOMAIN before : /\ Find(before[i].name) \in Item
                                /\ Find(before[i].name).name = before[i].name
    BY <1>2, <2>2
  <2>4. \A i \in DOMAIN before : kept[i] = Find(before[i].name)
    OBVIOUS
  <2>5. kept \in Seq(Item)
    BY <1>4, <2>1, <2>3
  <2>6. DOMAIN kept = 1..Len(before)
    BY <2>1
  <2> HIDE DEF kept
  <2>7. Len(kept) = Len(before)
    BY <1>4, <2>5, <2>6
  <2> QED BY <2>1, <2>3, <2>4, <2>5, <2>6, <2>7
<1> HIDE DEF kept
<1>6. Distinct(kept) /\ Names(kept) = common
  <2>1. DOMAIN before = 1..Len(before)
    BY <1>3
  <2> HIDE DEF before, common
  <2>2. Names(kept) = Names(before)
    BY <1>5, <2>1 DEF Names
  <2>3. Distinct(kept)
    BY <1>3, <1>5, <2>1 DEF Distinct
  <2> QED BY <1>3, <2>2, <2>3
<1>7. /\ others \in Seq(Item) /\ Distinct(others)
      /\ Names(others) = Names(list) \ Names(kept)
  <2>1. rest \in SUBSET (DOMAIN list)
    OBVIOUS
  <2>2. {list[i].name : i \in rest} = Names(list) \ Names(kept)
    BY DEF Names
  <2> HIDE DEF rest
  <2> QED BY <2>1, <2>2, PickedRows
<1> HIDE DEF others, before
<1>8. /\ full \in Seq(Item) /\ Distinct(full)
      /\ Names(full) = Names(list)
      /\ \A i \in 1..Len(kept) : full[i] = kept[i]
      /\ Len(kept) <= Len(full)
  <2>1. Names(kept) \cap Names(others) = {}
    BY <1>7
  <2>2. /\ full \in Seq(Item) /\ Distinct(full)
        /\ Names(full) = Names(kept) \cup Names(others)
        /\ Len(full) = Len(kept) + Len(others)
        /\ \A i \in 1..Len(kept) : full[i] = kept[i]
    BY <1>5, <1>6, <1>7, <2>1, Joined
  <2>3. Len(kept) \in Nat /\ Len(others) \in Nat
    BY <1>5, <1>7
  <2> QED BY <1>6, <1>7, <2>2, <2>3
<1> HIDE DEF full
<1>9. Len(full) = Len(list) /\ Len(list) \in Nat /\ DOMAIN full = 1..Len(list)
  <2>1. Cardinality(Names(full)) = Len(full) /\ Cardinality(Names(list)) = Len(list)
    BY <1>8, CountNames
  <2> QED BY <1>8, <2>1
<1>10. CASE Len(list) <= MaxAvailable
  <2>1. Capped(list, previous) = list
    BY <1>10 DEF Capped
  <2> QED BY <1>4, <1>10, <2>1
<1>11. CASE ~(Len(list) <= MaxAvailable)
  <2> DEFINE short == SubSeq(full, 1, MaxAvailable)
  <2>1. Capped(list, previous) = short
    BY <1>11 DEF Capped, full, others, kept, before
  <2>2. MaxAvailable < Len(list)
    BY <1>1, <1>9, <1>11
  <2>3. \A i \in 1..MaxAvailable : full[i] \in Item /\ i \in DOMAIN full
    BY <1>1, <1>8, <1>9, <2>2
  <2>4. /\ short \in Seq(Item)
        /\ Len(short) = MaxAvailable
        /\ \A i \in 1..MaxAvailable : short[i] = full[i]
    <3>1. /\ short \in Seq(Item)
          /\ Len(short) = IF 1 <= MaxAvailable THEN MaxAvailable - 1 + 1 ELSE 0
          /\ \A i \in 1..(MaxAvailable - 1 + 1) : short[i] = full[1 + i - 1]
      BY <1>1, <2>3, SubSeqProperties
    <3>2. MaxAvailable - 1 + 1 = MaxAvailable /\ 1 <= MaxAvailable
      BY <1>1
    <3>3. \A i \in 1..MaxAvailable : 1 + i - 1 = i
      BY <1>1
    <3> QED BY <3>1, <3>2, <3>3
  <2> HIDE DEF short
  <2>5. DOMAIN short = 1..MaxAvailable
    BY <2>4
  <2>6. Distinct(short)
    BY <1>8, <2>3, <2>4, <2>5 DEF Distinct
  <2>7. Names(short) \subseteq Names(full)
    BY <2>3, <2>4, <2>5 DEF Names
  <2>8. ASSUME Cardinality(common) <= MaxAvailable PROVE common \subseteq Names(short)
    <3>1. Len(kept) = Cardinality(common)
      BY <1>4, <1>5
    <3>2. DOMAIN kept = 1..Len(kept)
      BY <1>5
    <3>3. \A i \in DOMAIN kept : i \in DOMAIN short /\ short[i] = kept[i]
      <4> SUFFICES ASSUME NEW i \in 1..Len(kept) PROVE i \in DOMAIN short /\ short[i] = kept[i]
        BY <3>2
      <4>1. i \in 1..MaxAvailable
        BY <1>1, <1>4, <2>8, <3>1
      <4> QED BY <1>8, <2>4, <2>5, <4>1
    <3>4. Names(kept) \subseteq Names(short)
      BY <3>3 DEF Names
    <3> QED BY <1>6, <3>4
  <2> QED BY <1>1, <1>4, <1>8, <2>1, <2>4, <2>6, <2>7, <2>8
<1> QED BY <1>10, <1>11

\* The profile that fits is one there is, or none.
LEMMA ProfileThatFits ==
  ASSUME saved \subseteq Profiles, NEW s
  PROVE  ProfileFor(s) \in Profiles \cup {NoProfile}
<1> DEFINE fitting == {p[2] : p \in {q \in saved : SsidOf(q) = s}}
<1>1. CASE fitting = {}
  BY <1>1 DEF ProfileFor
<1>2. CASE fitting # {}
  <2>1. \A p \in saved : p[2] \in Nat /\ p = <<p[1], p[2]>>
    BY CacheAssumption DEF CacheAssumption
  <2>2. fitting \in SUBSET Nat
    BY <2>1
  <2>3. Min(fitting) \in fitting
    <3> HIDE DEF fitting
    <3> QED BY <1>2, <2>2, MinIsLeast
  <2>4. PICK p \in saved : SsidOf(p) = s /\ p[2] = Min(fitting)
    BY <2>3
  <2>5. ProfileFor(s) = <<s, Min(fitting)>>
    BY <1>2 DEF ProfileFor
  <2>6. ProfileFor(s) = p
    <3> HIDE DEF fitting
    <3> QED BY <2>1, <2>4, <2>5 DEF SsidOf
  <2> QED BY <2>6
<1> QED BY <1>1, <1>2

\* What a refresh has seen of a network makes an entry of the cache.
LEMMA BestTyped ==
  ASSUME EnvOK, NEW s \in DOMAIN BestBySsid
  PROVE  BestBySsid[s] \in Entry
<1> DEFINE T == {strength[a] : a \in {b \in Aps : SsidOf(b) = s}}
<1>1. MaxStrength \in Nat /\ PruneAfter \in Nat \ {0}
  BY CacheAssumption DEF CacheAssumption
<1>2. BestBySsid[s] = [strength |-> Max(T), profile |-> ProfileFor(s), misses |-> 0]
  BY DEF BestBySsid
<1>3. PICK a \in Aps : strength[a] > 0 /\ SsidOf(a) = s
  BY DEF BestBySsid, InScan, Seen
<1>4. T \in SUBSET (0..MaxStrength) /\ strength[a] \in T
  BY <1>3 DEF EnvOK
<1> HIDE DEF T
<1>5. Max(T) \in T /\ strength[a] <= Max(T)
  BY <1>1, <1>4, MaxIsGreatest
<1>6. Max(T) \in 1..MaxStrength
  <2>1. Max(T) \in 0..MaxStrength /\ strength[a] \in 0..MaxStrength
    BY <1>4, <1>5
  <2> QED BY <1>1, <1>3, <1>5, <2>1
<1>7. ProfileFor(s) \in Profiles \cup {NoProfile}
  BY ProfileThatFits DEF EnvOK
<1>8. 0 \in 0..(PruneAfter - 1)
  BY <1>1
<1> QED BY <1>2, <1>6, <1>7, <1>8 DEF Entry

\* The cache after a refresh: entries of networks there may be, with all that is in range
\* and not connected among them.
LEMMA CacheTyped ==
  ASSUME EnvOK, CacheOK
  PROVE  /\ DOMAIN NewCache \subseteq Ssids
         /\ \A s \in DOMAIN NewCache : NewCache[s] \in Entry
         /\ InScan \ {ActiveSsid} \subseteq DOMAIN NewCache
<1> DEFINE best == BestBySsid
           merged == MergedWith(best)
           missed == DOMAIN merged \ DOMAIN best
           stale == {s \in missed : s = ActiveSsid \/ merged[s].misses + 1 >= PruneAfter}
<1>1. PruneAfter \in Nat \ {0}
  BY CacheAssumption DEF CacheAssumption
<1>2. DOMAIN best = InScan \ {ActiveSsid} /\ InScan \subseteq Ssids
  BY BestOf, InScanSsids
<1>3. /\ DOMAIN merged = DOMAIN cache \cup DOMAIN best
      /\ \A s \in DOMAIN best : merged[s] = best[s]
      /\ \A s \in DOMAIN cache \ DOMAIN best : merged[s] = cache[s]
  BY Merge
<1>4. \A s \in DOMAIN best : best[s] \in Entry
  BY BestTyped
<1>5. DOMAIN merged \subseteq Ssids /\ DOMAIN best \subseteq DOMAIN merged
  BY <1>2, <1>3 DEF CacheOK
<1>6. \A s \in DOMAIN merged : merged[s] \in Entry
  BY <1>3, <1>4 DEF CacheOK
<1> HIDE DEF merged
<1>7. CASE AllowPrune
  <2>1. NewCache = [s \in DOMAIN merged \ stale |->
                      IF s \in missed THEN [merged[s] EXCEPT !.misses = @ + 1] ELSE merged[s]]
    BY <1>7 DEF NewCache, PrunedOf, merged
  <2>2. ASSUME NEW s \in DOMAIN merged \ stale PROVE NewCache[s] \in Entry
    <3>1. CASE s \in missed
      <4>1. NewCache[s] = [merged[s] EXCEPT !.misses = @ + 1]
        BY <2>1, <3>1
      <4>2. merged[s] \in Entry /\ ~(merged[s].misses + 1 >= PruneAfter)
        BY <1>6, <3>1
      <4>3. merged[s].misses + 1 \in 0..(PruneAfter - 1)
        <5>1. merged[s].misses \in 0..(PruneAfter - 1)
          BY <4>2 DEF Entry
        <5> QED BY <1>1, <4>2, <5>1
      <4> QED BY <4>1, <4>2, <4>3 DEF Entry
    <3>2. CASE s \notin missed
      BY <1>6, <2>1, <3>2
    <3> QED BY <3>1, <3>2
  <2>3. DOMAIN NewCache = DOMAIN merged \ stale
    BY <2>1
  <2>4. DOMAIN best \subseteq DOMAIN NewCache
    BY <1>5, <2>3
  <2> QED BY <1>2, <1>5, <2>2, <2>3, <2>4
<1>8. CASE ~AllowPrune
  <2>1. NewCache = merged
    BY <1>8 DEF NewCache, merged
  <2> QED BY <1>2, <1>5, <1>6, <2>1
<1> QED BY <1>7, <1>8

-----------------------------------------------------------------------------
(* The lists.                                                              *)

\* What the lists hold of the cache.
ListsOfCache ==
  /\ Distinct(available)
  /\ Len(available) <= MaxShown
  /\ Names(available) \subseteq DOMAIN cache
  /\ \A p \in savedOut : SsidOf(p) \notin DOMAIN cache

\* And what they hold of the networks when nothing has changed since the refresh.
ListsOfScan ==
  /\ ActiveSsid \notin Names(available)
  /\ Len(available) < MaxAvailable => Names(available) = DOMAIN cache \ {ActiveSsid}
  /\ savedOut = OutOfRange(cache)
  /\ InScan \ {ActiveSsid} \subseteq DOMAIN cache

Lists == ListsOfCache /\ (fresh /\ usable => ListsOfScan)

\* At first both lists and the cache are empty.
LEMMA InitLists == Init => TypeOK /\ Lists
<1> SUFFICES ASSUME Init PROVE TypeOK /\ Lists
  OBVIOUS
<1>1. MaxStrength \in Nat /\ MaxAbsent \in Nat /\ MaxShown \in Nat
  BY CacheAssumption DEF CacheAssumption
<1>2. DOMAIN cache = {} /\ DOMAIN available = {} /\ Len(available) = 0
  BY DEF Init, Empty
<1>3. EnvOK
  <2>1. strength \in [Aps -> 0..MaxStrength]
    <3>1. 0 \in 0..MaxStrength /\ strength = [a \in Aps |-> 0]
      BY <1>1 DEF Init
    <3> QED BY <3>1
  <2>2. /\ saved \subseteq Profiles /\ active \in saved \cup {NoProfile}
        /\ activating \in Ssids \cup {NoSsid} /\ usable \in BOOLEAN /\ scanning \in BOOLEAN
    BY DEF Init
  <2> QED BY <2>1, <2>2 DEF EnvOK
<1>4. CacheOK
  BY <1>2 DEF CacheOK
<1>5. ListsOK
  <2>1. absent \in [Ssids -> 0..MaxAbsent]
    <3>1. 0 \in 0..MaxAbsent /\ absent = [s \in Ssids |-> 0]
      BY <1>1 DEF Init
    <3> QED BY <3>1
  <2>2. available \in Seq(Item)
    <3>1. available = <<>>
      BY DEF Init
    <3> QED BY <3>1
  <2>3. savedOut \subseteq Profiles
    BY DEF Init
  <2>4. fresh \in BOOLEAN
    BY DEF Init
  <2> QED BY <2>1, <2>2, <2>3, <2>4 DEF ListsOK
<1>6. Lists
  <2>1. ~fresh /\ savedOut = {}
    BY DEF Init
  <2> QED BY <1>1, <1>2, <2>1 DEF Lists, ListsOfCache, Distinct, Names
<1> QED BY <1>3, <1>4, <1>5, <1>6 DEF TypeOK

\* A refresh makes the lists anew, from the cache it has just made.
LEMMA RefreshedLists ==
  ASSUME TypeOK, Lists, RebuildWifi, usable
  PROVE  /\ cache' = NewCache
         /\ CacheOK' /\ ListsOK' /\ Lists'
         /\ LET listed == DOMAIN cache' \ {ActiveSsid}
                common == Names(available) \cap listed
            IN /\ IsFiniteSet(common)
               /\ Cardinality(common) <= MaxAvailable => common \subseteq Names(available')
<1> DEFINE rows == Sorted(ListOf(cache'))
           listed == DOMAIN cache' \ {ActiveSsid}
<1>1. /\ cache' = NewCache
      /\ available' = Capped(rows, available)
      /\ savedOut' = OutOfRange(cache')
      /\ fresh' = TRUE /\ CountAbsent /\ UNCHANGED env
  BY DEF RebuildWifi
<1>2. UNCHANGED <<strength, saved, active, activating, usable, scanning>>
  BY <1>1 DEF env
<1>3. /\ DOMAIN cache' \subseteq Ssids
      /\ \A s \in DOMAIN cache' : cache'[s] \in Entry
      /\ InScan \ {ActiveSsid} \subseteq DOMAIN cache'
  BY <1>1, CacheTyped DEF TypeOK
<1>4. CacheOK'
  BY <1>3 DEF CacheOK
<1>5. /\ ListOf(cache') \in Seq(Item) /\ Distinct(ListOf(cache'))
      /\ Names(ListOf(cache')) = listed
  BY <1>3, Listed
<1>6. rows \in Seq(Item) /\ Distinct(rows) /\ Names(rows) = listed
  BY <1>5, SortKeeps
<1> HIDE DEF rows
<1>7. available \in Seq(Item) /\ Distinct(available)
  BY DEF TypeOK, ListsOK, Lists, ListsOfCache
<1>8. /\ available' \in Seq(Item)
      /\ Distinct(available')
      /\ Names(available') \subseteq listed
      /\ Len(available') <= MaxAvailable
      /\ Len(available') < MaxAvailable => Names(available') = listed
      /\ IsFiniteSet(Names(available) \cap listed)
      /\ Cardinality(Names(available) \cap listed) <= MaxAvailable =>
           Names(available) \cap listed \subseteq Names(available')
  <2> HIDE DEF listed
  <2> QED BY <1>1, <1>6, <1>7, CappedRows
<1>9. savedOut' \subseteq Profiles
  BY <1>1 DEF OutOfRange, TypeOK, EnvOK
<1>10. absent' \in [Ssids -> 0..MaxAbsent]
  BY <1>1, AbsentCounts DEF TypeOK, ListsOK
<1>11. ListsOK'
  BY <1>1, <1>8, <1>9, <1>10 DEF ListsOK
<1>12. ListsOfCache'
  <2>1. Len(available') <= MaxShown
    <3>1. Len(available') \in Nat
      BY <1>8
    <3> QED BY <1>8, <3>1, RoomFor
  <2>2. \A p \in savedOut' : SsidOf(p) \notin DOMAIN cache'
    BY <1>1 DEF OutOfRange
  <2>3. Distinct(available')  /\ Names(available') \subseteq DOMAIN cache'
    BY <1>8
  <2> QED BY <2>1, <2>2, <2>3 DEF ListsOfCache, Distinct, Names
<1>13. ListsOfScan'
  <2>1. ActiveSsid' = ActiveSsid /\ MaxAvailable' = MaxAvailable /\ InScan' = InScan
    BY <1>2 DEF ActiveSsid, MaxAvailable, Connected, InScan, Seen
  <2>2. OutOfRange(cache)' = OutOfRange(cache')
    BY <1>2, <2>1 DEF OutOfRange
  <2>3. Names(available)' = Names(available')
    BY DEF Names
  <2> QED BY <1>1, <1>3, <1>8, <2>1, <2>2, <2>3 DEF ListsOfScan
<1> QED BY <1>1, <1>4, <1>8, <1>11, <1>12, <1>13 DEF Lists

\* So does a refresh without a radio, which empties them.
LEMMA EmptiedLists ==
  ASSUME TypeOK, RebuildWifi, ~usable
  PROVE  CacheOK' /\ ListsOK' /\ Lists'
<1>1. /\ cache' = Empty /\ available' = <<>> /\ savedOut' = {}
      /\ fresh' = TRUE /\ CountAbsent /\ usable' = usable
  BY DEF RebuildWifi, env
<1>2. DOMAIN cache' = {} /\ DOMAIN available' = {} /\ Len(available') = 0
  BY <1>1 DEF Empty
<1>3. absent' \in [Ssids -> 0..MaxAbsent]
  BY <1>1, AbsentCounts DEF TypeOK, ListsOK
<1>4. CacheOK' /\ ListsOK'
  BY <1>1, <1>2, <1>3 DEF CacheOK, ListsOK
<1>5. Lists'
  <2>1. MaxShown \in Nat /\ ~usable'
    BY <1>1, RoomFor
  <2> QED BY <1>1, <1>2, <2>1 DEF Lists, ListsOfCache, Distinct, Names
<1> QED BY <1>4, <1>5

\* Nothing else touches the lists, and whatever else happens ends their being fresh.
LEMMA OthersLeaveLists ==
  ASSUME TypeOK, ApChanges \/ ConnectionChanges \/ ProfileChanges \/ RadioChanges
                   \/ ScanSessionChanges
  PROVE  EnvOK' /\ Stale
<1>1. MaxStrength \in Nat
  BY CacheAssumption DEF CacheAssumption
<1>2. EnvOK
  BY DEF TypeOK
<1>3. CASE ApChanges
  BY <1>1, <1>2, <1>3 DEF ApChanges, EnvOK
<1>4. CASE ConnectionChanges
  <2>1. \A p \in saved : SsidOf(p) \in Ssids
    BY <1>2, CacheAssumption DEF EnvOK, SsidOf, CacheAssumption
  <2> QED BY <1>2, <1>4, <2>1 DEF ConnectionChanges, EnvOK
<1>5. CASE ProfileChanges
  BY <1>2, <1>5 DEF ProfileChanges, EnvOK
<1>6. CASE RadioChanges
  BY <1>2, <1>6 DEF RadioChanges, EnvOK
<1>7. CASE ScanSessionChanges
  BY <1>2, <1>7 DEF ScanSessionChanges, EnvOK
<1> QED BY <1>3, <1>4, <1>5, <1>6, <1>7 DEF ApChanges, ConnectionChanges, ProfileChanges,
          RadioChanges, ScanSessionChanges

\* Every step keeps all of it.
LEMMA NextLists == TypeOK /\ Lists /\ [Next]_vars => TypeOK' /\ Lists'
<1> SUFFICES ASSUME TypeOK, Lists, [Next]_vars PROVE TypeOK' /\ Lists'
  OBVIOUS
<1>1. CASE RebuildWifi
  <2>1. EnvOK'
    BY <1>1 DEF RebuildWifi, env, TypeOK, EnvOK
  <2>2. CacheOK' /\ ListsOK' /\ Lists'
    BY <1>1, RefreshedLists, EmptiedLists
  <2> QED BY <2>1, <2>2 DEF TypeOK
<1>2. CASE ApChanges \/ ConnectionChanges \/ ProfileChanges \/ RadioChanges
             \/ ScanSessionChanges
  <2>1. EnvOK' /\ Stale
    BY <1>2, OthersLeaveLists
  <2>2. UNCHANGED <<cache, available, savedOut, absent>> /\ ~fresh' /\ fresh' \in BOOLEAN
    BY <2>1 DEF Stale, lists
  <2>3. CacheOK' /\ ListsOK'
    BY <2>2 DEF CacheOK, ListsOK, TypeOK
  <2>4. ListsOfCache'
    BY <2>2 DEF Lists, ListsOfCache, Distinct, Names
  <2> QED BY <2>1, <2>2, <2>3, <2>4 DEF TypeOK, Lists
<1>3. CASE UNCHANGED vars
  <2>1. UNCHANGED <<strength, saved, active, activating, usable, scanning, cache, available,
                    savedOut, fresh, absent>>
    BY <1>3 DEF vars, env, lists, history
  <2>2. TypeOK'
    BY <2>1 DEF TypeOK, EnvOK, CacheOK, ListsOK
  <2>3. Lists'
    <3>1. ListsOfCache'
      BY <2>1 DEF Lists, ListsOfCache, Distinct, Names
    <3>2. fresh /\ usable => ListsOfScan'
      BY <2>1 DEF Lists, ListsOfScan, ActiveSsid, Names, MaxAvailable, Connected, OutOfRange,
                  InScan, Seen
    <3> QED BY <2>1, <3>1, <3>2 DEF Lists
  <2> QED BY <2>2, <2>3
<1> QED BY <1>1, <1>2, <1>3 DEF Next

\* The cache, the two lists and the snapshot they are made from keep their types, for any
\* number of networks, access points and rows.
THEOREM Typing == Spec => []TypeOK
<1>1. Init => TypeOK /\ Lists
  BY InitLists
<1>2. TypeOK /\ Lists /\ [Next]_vars => TypeOK' /\ Lists'
  BY NextLists
<1> QED BY <1>1, <1>2, PTL DEF Spec

\* The invariant gives the bounds on the lists.
LEMMA OnceEach == TypeOK /\ Lists => ListedOnce
<1> SUFFICES ASSUME TypeOK, Lists PROVE ListedOnce
  OBVIOUS
<1>1. available \in Seq(Item) /\ ListsOfCache
  BY DEF TypeOK, ListsOK, Lists
<1>2. Cardinality(Names(available)) = Len(available)
  BY <1>1, CountNames DEF ListsOfCache
<1> QED BY <1>1, <1>2 DEF ListedOnce, ListsOfCache

\* No network has two rows in the menu, none has a row and is offered as out of range as
\* well, and the rows stay within the menu's bound, whatever NmData::rebuildWifi sorts,
\* drops and keeps.
THEOREM EachOnce == Spec => []ListedOnce
<1>1. Init => TypeOK /\ Lists
  BY InitLists
<1>2. TypeOK /\ Lists /\ [Next]_vars => TypeOK' /\ Lists'
  BY NextLists
<1> QED BY <1>1, <1>2, OnceEach, PTL DEF Spec

\* And what can be reached: a network that is neither connected nor cached has its profiles
\* on the list of those out of range.
LEMMA AllReachable == Lists => ReachableAfterRefresh
<1> SUFFICES ASSUME Lists, fresh, usable PROVE ReachableAfterRefresh
  BY DEF ReachableAfterRefresh
<1>1. ListsOfScan
  BY DEF Lists
<1>2. InScan \cap {SsidOf(p) : p \in savedOut} = {}
  BY <1>1 DEF ListsOfScan, OutOfRange
<1>3. ASSUME Len(available) < MaxAvailable,
             NEW s \in (InScan \cup {SsidOf(p) : p \in saved}) \ {ActiveSsid},
             s \notin Names(available),
             NEW p \in saved, SsidOf(p) = s
      PROVE  p \in savedOut
  <2>1. s \notin DOMAIN cache
    BY <1>1, <1>3 DEF ListsOfScan
  <2>2. s \notin InScan
    BY <1>1, <1>3, <2>1 DEF ListsOfScan
  <2>3. p # active
    BY <1>3 DEF ActiveSsid
  <2> QED BY <1>1, <1>3, <2>1, <2>2, <2>3 DEF ListsOfScan, OutOfRange
<1> QED BY <1>1, <1>2, <1>3 DEF ReachableAfterRefresh, ListsOfScan

\* After a refresh every network in range and every saved one is connected, has a row, or is
\* offered as out of range, unless the rows are used up.
THEOREM NoneIsLost == Spec => []ReachableAfterRefresh
<1>1. Init => TypeOK /\ Lists
  BY InitLists
<1>2. TypeOK /\ Lists /\ [Next]_vars => TypeOK' /\ Lists'
  BY NextLists
<1> QED BY <1>1, <1>2, AllReachable, PTL DEF Spec

\* What ShownStaysShown says of a step.
Stays ==
  usable =>
    \A i \in DOMAIN available :
       LET name == available[i].name
       IN \/ name \in Names(available') \cup {ActiveSsid}
          \/ name \notin DOMAIN cache'
          \/ Connected /\ ActiveSsid \notin Names(available)
                /\ Len(available) > MaxAvailable

\* A refresh that drops a row of a network it still knows had more of them than there is
\* room for: the menu was full, and the row it lost is not the connected network's.
LEMMA RefreshStays ==
  ASSUME TypeOK, Lists, RebuildWifi, usable
  PROVE  Stays
<1> DEFINE listed == DOMAIN cache' \ {ActiveSsid}
           common == Names(available) \cap listed
<1> SUFFICES ASSUME NEW i \in DOMAIN available,
                    available[i].name \notin Names(available') \cup {ActiveSsid},
                    available[i].name \in DOMAIN cache'
             PROVE  Connected /\ ActiveSsid \notin Names(available)
                      /\ Len(available) > MaxAvailable
  BY DEF Stays
<1>1. IsFiniteSet(common) /\ (Cardinality(common) <= MaxAvailable =>
                                common \subseteq Names(available'))
  BY RefreshedLists
<1>2. available[i].name \in common
  BY DEF Names
<1>3. ~(Cardinality(common) <= MaxAvailable)
  BY <1>1, <1>2
<1>4. /\ IsFiniteSet(Names(available)) /\ Cardinality(Names(available)) = Len(available)
      /\ Len(available) \in Nat /\ Len(available) <= MaxShown
  <2>1. available \in Seq(Item) /\ Distinct(available) /\ Len(available) <= MaxShown
    BY DEF TypeOK, ListsOK, Lists, ListsOfCache
  <2> QED BY <2>1, CountNames
<1>5. Cardinality(common) \in Nat /\ Cardinality(common) <= Len(available)
  <2>1. common \in SUBSET Names(available)
    OBVIOUS
  <2> HIDE DEF common
  <2> QED BY <1>1, <1>4, <2>1, FS_Subset, FS_CardinalityType
<1>6. Len(available) > MaxAvailable
  BY <1>3, <1>4, <1>5, RoomFor
<1>7. Connected
  BY <1>4, <1>6, RoomFor
<1>8. ActiveSsid \notin Names(available)
  <2> SUFFICES ASSUME ActiveSsid \in Names(available) PROVE FALSE
    OBVIOUS
  <2> DEFINE others == Names(available) \ {ActiveSsid}
  <2>1. IsFiniteSet(others) /\ Cardinality(others) = Len(available) - 1
    BY <1>4, FS_RemoveElement
  <2>2. common \in SUBSET others
    OBVIOUS
  <2> HIDE DEF common, others
  <2>3. Cardinality(common) <= Cardinality(others)
    BY <2>1, <2>2, FS_Subset
  <2> QED BY <1>3, <1>4, <1>5, <1>7, <2>1, <2>3, RoomFor
<1> QED BY <1>6, <1>7, <1>8

\* A network that is shown and stays in the cache keeps its row: no refresh pushes it out of
\* the open menu, however the networks are sorted, save when the menu is full and a network
\* that had no row of its own gets connected and takes one.
THEOREM RowsStay == Spec => ShownStaysShown
<1>1. Init => TypeOK /\ Lists
  BY InitLists
<1>2. TypeOK /\ Lists /\ [Next]_vars => TypeOK' /\ Lists'
  BY NextLists
<1>3. TypeOK /\ Lists /\ [Next]_vars => [Stays]_vars
  <2> SUFFICES ASSUME TypeOK, Lists, Next PROVE Stays
    OBVIOUS
  <2>1. CASE RebuildWifi
    BY <2>1, RefreshStays DEF Stays
  <2>2. CASE UNCHANGED available
    BY <2>2 DEF Stays, Names
  <2>3. ApChanges \/ ConnectionChanges \/ ProfileChanges \/ RadioChanges \/ ScanSessionChanges
          => UNCHANGED available
    BY DEF ApChanges, ConnectionChanges, ProfileChanges, RadioChanges, ScanSessionChanges,
           Stale, lists
  <2> QED BY <2>1, <2>2, <2>3 DEF Next
<1> QED BY <1>1, <1>2, <1>3, PTL DEF Spec, ShownStaysShown, Stays
=============================================================================
