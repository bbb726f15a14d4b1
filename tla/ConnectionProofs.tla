-------------------------- MODULE ConnectionProofs --------------------------
(***************************************************************************)
(* What the clicks on connections ask for, and what the user is told of a  *)
(* connection.  For any set of devices, networks and profiles: the types,  *)
(* that one pass over the devices finds the primary one, and that a Wi-Fi  *)
(* click takes no other connection down.  For any set of connections, real *)
(* and virtual: the types, that the last message is about the connection   *)
(* the applet believes in, and that no loss is announced while a           *)
(* connection is up.                                                       *)
(***************************************************************************)
EXTENDS Activation, ConnNotifier, TLAPS, FiniteSetTheorems, SequenceTheorems,
        WellFoundedInduction

-----------------------------------------------------------------------------
(* Numbers, and a loop over them.                                          *)

\* A non-empty set of numbers has a least one: what stands for induction here.
LEMMA NatMin ==
  ASSUME NEW T \in SUBSET Nat, T # {}
  PROVE  \E x \in T : \A y \in T : x <= y
<1> DEFINE R == {ss \in Nat \X Nat : ss[1] < ss[2]}
<1>1. IsWellFoundedOn(R, Nat)
  BY NatLessThanWellFounded DEF OpToRel
<1>2. \A x, y \in Nat : y < x => <<y, x>> \in R
  OBVIOUS
<1> HIDE DEF R
<1>3. PICK x \in T : \A y \in T : ~(<<y, x>> \in R)
  BY <1>1, WFMin
<1>4. \A y \in T : x <= y
  <2> SUFFICES ASSUME NEW y \in T PROVE x <= y
    OBVIOUS
  <2>1. x \in Nat /\ y \in Nat /\ ~(y < x)
    BY <1>2, <1>3
  <2> QED BY <2>1
<1> QED BY <1>4

\* What a loop computes, from its start a: its value after each of its passes.
IsRun(f, S, a, lo, hi, step) ==
  /\ f \in [lo..hi -> S]
  /\ f[lo] = a
  /\ \A j \in (lo + 1)..hi : f[j] = step[<<f[j - 1], j>>]

\* A loop whose passes stay in a set computes something.
LEMMA Iterated ==
  ASSUME NEW S, NEW a \in S, NEW lo \in Nat, NEW hi \in Nat, lo <= hi,
         NEW step \in [S \X ((lo + 1)..hi) -> S]
  PROVE  \E f : IsRun(f, S, a, lo, hi, step)
<1> DEFINE Runs(h) == \E f \in [lo..h -> S] : /\ f[lo] = a
                                              /\ \A j \in (lo + 1)..h : f[j] = step[<<f[j - 1], j>>]
           T == {h \in lo..hi : ~Runs(h)}
<1> SUFFICES T = {}
  <2>1. hi \in lo..hi
    OBVIOUS
  <2>2. T = {} => Runs(hi)
    <3> HIDE DEF Runs
    <3> QED BY <2>1
  <2> QED BY <2>2 DEF IsRun
<1> SUFFICES ASSUME T # {} PROVE FALSE
  OBVIOUS
<1>1. T \in SUBSET Nat
  OBVIOUS
<1>2. PICK h \in T : \A k \in T : h <= k
  <2> HIDE DEF T
  <2> QED BY <1>1, NatMin
<1>3. h \in lo..hi /\ ~Runs(h)
  BY <1>2
<1>4. h # lo
  <2> DEFINE f == [j \in lo..lo |-> a]
  <2>1. f \in [lo..lo -> S] /\ f[lo] = a /\ \A j \in (lo + 1)..lo : f[j] = step[<<f[j - 1], j>>]
    OBVIOUS
  <2>2. Runs(lo)
    <3> HIDE DEF f
    <3> QED BY <2>1
  <2> QED BY <1>3, <2>2
<1>5. h - 1 \in lo..hi /\ h \in (lo + 1)..hi
  BY <1>3, <1>4
<1>6. Runs(h - 1)
  <2>1. h - 1 \notin T
    BY <1>2, <1>5
  <2> HIDE DEF Runs
  <2> QED BY <1>5, <2>1
<1>7. PICK f \in [lo..(h - 1) -> S] : /\ f[lo] = a
                                      /\ \A j \in (lo + 1)..(h - 1) : f[j] = step[<<f[j - 1], j>>]
  BY <1>6
<1> DEFINE g == [j \in lo..h |-> IF j = h THEN step[<<f[j - 1], j>>] ELSE f[j]]
<1>8. f[h - 1] \in S /\ step[<<f[h - 1], h>>] \in S
  BY <1>5
<1>9. g \in [lo..h -> S]
  BY <1>3, <1>5, <1>8
<1>10. g[lo] = a
  BY <1>3, <1>4, <1>7
<1>11. ASSUME NEW j \in (lo + 1)..h PROVE g[j] = step[<<g[j - 1], j>>]
  <2>1. j - 1 \in lo..h /\ j - 1 # h /\ j \in lo..h
    BY <1>3
  <2>2. g[j - 1] = f[j - 1]
    BY <2>1
  <2>3. CASE j = h
    BY <2>1, <2>2, <2>3
  <2>4. CASE j # h
    <3>1. j \in (lo + 1)..(h - 1)
      BY <1>3, <2>4
    <3> QED BY <1>7, <2>1, <2>2, <2>4, <3>1
  <2> QED BY <2>3, <2>4
<1> HIDE DEF g
<1>12. Runs(h)
  BY <1>9, <1>10, <1>11
<1> QED BY <1>3, <1>12

\* The place of a number among the numbers of a set.
Rank(set, n) == Cardinality({m \in set : m <= n})

\* The ranks of a set of numbers run from 1 to its size, one for each number.
LEMMA Ranked ==
  ASSUME NEW set \in SUBSET Nat, IsFiniteSet(set)
  PROVE  /\ Cardinality(set) \in Nat
         /\ \A n \in set : Rank(set, n) \in 1..Cardinality(set)
         /\ \A m, n \in set : Rank(set, m) = Rank(set, n) => m = n
<1> DEFINE Upto(n) == {m \in set : m <= n}
<1>1. \A n \in set : /\ IsFiniteSet(Upto(n))
                     /\ Cardinality(Upto(n)) \in Nat
                     /\ Cardinality(Upto(n)) <= Cardinality(set)
  BY FS_Subset, FS_CardinalityType
<1>2. Cardinality(set) \in Nat
  BY FS_CardinalityType
<1>3. \A n \in set : Cardinality(Upto(n)) # 0
  <2> SUFFICES ASSUME NEW n \in set PROVE Cardinality(Upto(n)) # 0
    OBVIOUS
  <2>1. n \in Upto(n)
    OBVIOUS
  <2> QED BY <1>1, <2>1, FS_EmptySet
<1>4. ASSUME NEW m \in set, NEW n \in set, m < n PROVE Cardinality(Upto(m)) # Cardinality(Upto(n))
  <2>a. m \in Nat /\ n \in Nat /\ n <= n /\ ~(n <= m)
    BY <1>4
  <2>b. \A k \in set : k <= m => k <= n
    BY <1>4
  <2>1. Upto(m) \in SUBSET Upto(n) /\ n \in Upto(n) /\ n \notin Upto(m)
    BY <2>a, <2>b
  <2>2. IsFiniteSet(Upto(n))
    BY <1>1
  <2> HIDE DEF Upto
  <2> QED BY <2>1, <2>2, FS_Subset
<1>5. \A m, n \in set : m < n \/ n < m \/ m = n
  OBVIOUS
<1>6. \A n : Rank(set, n) = Cardinality(Upto(n))
  BY DEF Rank
<1> HIDE DEF Upto
<1>7. \A n \in set : Cardinality(Upto(n)) \in 1..Cardinality(set)
  BY <1>1, <1>2, <1>3
<1>8. \A m, n \in set : Cardinality(Upto(m)) = Cardinality(Upto(n)) => m = n
  BY <1>4, <1>5
<1> QED BY <1>2, <1>6, <1>7, <1>8

\* Nth gives the number of a rank.
LEMMA Numbered ==
  ASSUME NEW set \in SUBSET Nat, IsFiniteSet(set)
  PROVE  /\ \A k \in 1..Cardinality(set) : Nth(set, k) \in set /\ Rank(set, Nth(set, k)) = k
         /\ \A n \in set : n = Nth(set, Rank(set, n))
<1> DEFINE f == [n \in set |-> Rank(set, n)]
           places == 1..Cardinality(set)
<1>1. f \in Injection(set, places)
  BY Ranked DEF Injection, IsInjective
<1>2. IsFiniteSet(places) /\ Cardinality(places) = Cardinality(set)
  <2>1. Cardinality(set) \in Nat
    BY Ranked
  <2>2. /\ IsFiniteSet(places)
        /\ Cardinality(places) = IF 1 > Cardinality(set) THEN 0 ELSE Cardinality(set) - 1 + 1
    BY <2>1, FS_Interval
  <2> QED BY <2>1, <2>2
<1>3. f \in Surjection(set, places)
  <2> HIDE DEF f, places
  <2> QED BY <1>1, <1>2, FS_Injection
<1>4. \A k \in places : \E n \in set : Rank(set, n) = k
  BY <1>3 DEF Surjection
<1>5. \A k : Nth(set, k) = CHOOSE n \in set : Rank(set, n) = k
  BY DEF Nth, Rank
<1>6. \A k \in places : Nth(set, k) \in set /\ Rank(set, Nth(set, k)) = k
  BY <1>4, <1>5
<1>7. ASSUME NEW n \in set PROVE n = Nth(set, Rank(set, n))
  <2>1. Rank(set, n) \in places
    BY Ranked
  <2>2. Nth(set, Rank(set, n)) \in set /\ Rank(set, Nth(set, Rank(set, n))) = Rank(set, n)
    BY <1>6, <2>1
  <2>3. \A p, q \in set : Rank(set, p) = Rank(set, q) => p = q
    BY Ranked
  <2> QED BY <2>2, <2>3
<1> QED BY <1>6, <1>7

\* A number comes before those of a higher rank.
LEMMA InOrder ==
  ASSUME NEW set \in SUBSET Nat, IsFiniteSet(set),
         NEW i \in 1..Cardinality(set), NEW j \in 1..Cardinality(set), i < j
  PROVE  Nth(set, i) < Nth(set, j)
<1> DEFINE m == Nth(set, i)
           n == Nth(set, j)
<1>1. m \in set /\ Rank(set, m) = i /\ n \in set /\ Rank(set, n) = j
  BY Numbered
<1> HIDE DEF m, n
<1>2. SUFFICES ASSUME n <= m PROVE FALSE
  <2>1. m \in Nat /\ n \in Nat
    BY <1>1
  <2>2. ~(n <= m) => m < n
    BY <2>1
  <2> QED BY <2>2 DEF m, n
<1> DEFINE Upto(k) == {x \in set : x <= k}
<1>3. Upto(n) \subseteq Upto(m)
  <2>1. \A x \in set : x <= n => x <= m
    BY <1>1, <1>2
  <2> QED BY <2>1
<1>4. IsFiniteSet(Upto(m))
  BY FS_Subset
<1>5. Rank(set, n) <= Rank(set, m)
  <2> HIDE DEF Upto
  <2>1. Cardinality(Upto(n)) <= Cardinality(Upto(m))
    BY <1>3, <1>4, FS_Subset
  <2> QED BY <2>1 DEF Rank, Upto
<1>6. i \in Nat /\ j \in Nat
  OBVIOUS
<1> QED BY <1>1, <1>5, <1>6

-----------------------------------------------------------------------------
(* The invariant.                                                          *)

Interfaces == WifiDevices \cup {Eth}

Connections ==
    [id : Nat, profile : Profiles, dev : Interfaces \cup {NoDevice},
     on : Interfaces \cup {NoDevice}, state : {"activating", "activated"}]

Requests ==
    [op : {"deactivate"}, id : Nat, by : {"wifi", "wired", "row"}]
    \cup [op : {"activate", "add"}, profile : Profiles, dev : Interfaces]
    \cup [op : {"disconnect"}, dev : WifiDevices]

WorldTyped ==
    /\ present \subseteq WifiDevices
    /\ air \in [WifiDevices -> SUBSET Ssids]
    /\ saved \subseteq Profiles

Apart(c, d) == c.id = d.id \/ (c.on = d.on /\ c.on # NoDevice) => c = d

AcsTyped ==
    /\ IsFiniteSet(acs) /\ acs \subseteq Connections
    /\ \A c, d \in acs : Apart(c, d)
    /\ \A c \in acs : c.on # NoDevice => c.dev \in {c.on, NoDevice}

\* A connect handler that pumps, before it has a device or with one.
Frames ==
    {f \in [kind : {"menu"}, at : {"begun", "dropped"}, dev : WifiDevices \cup {NoDevice},
            detail : [ssid : Ssids, profile : WifiProfiles \cup {NoProfile}]]
           \cup [kind : {"hidden", "hotspot"}, at : {"begun", "dropped"},
                 dev : WifiDevices \cup {NoDevice},
                 detail : [profile : WifiProfiles]] :
     IF f.at = "begun" THEN f.dev = NoDevice ELSE f.dev \in WifiDevices}

StackTyped == stack \in Seq(Frames \cup {Crashed})

HistoryTyped ==
    /\ asked = NoCall \/ (asked.ok <=> asked.started # NoProfile)
    /\ IsFiniteSet(wish)

\* What is on a bus.
On(b) == {b[i] : i \in 1..Len(b)}

\* A Wi-Fi device is only ever given Wi-Fi profiles, which are given to no other, and
\* only a VPN is on none.
OnWifi ==
    \A c \in acs : /\ c.on \in WifiDevices <=> c.profile.kind = "wifi"
                   /\ c.on = NoDevice <=> c.profile.kind = "vpn"
Fitting(r) ==
    r.op \in {"activate", "add"} => /\ r.dev \in WifiDevices <=> r.profile.kind = "wifi"
                                   /\ r.profile.kind # "vpn"

\* What a Wi-Fi click has asked to stop is a Wi-Fi connection, or a VPN over one, for
\* as long as there is a connection of that id.
Sparing(r) ==
    r.op = "deactivate" /\ r.by = "wifi" =>
        \A c \in acs : c.id = r.id => OverWifi(c)

BusTyped == bus \in Seq(Requests) /\ \A r \in On(bus) : Fitting(r) /\ Sparing(r)

IInv == WorldTyped /\ AcsTyped /\ StackTyped /\ HistoryTyped /\ OnWifi /\ BusTyped

-----------------------------------------------------------------------------
(* The bus.                                                                *)

\* Requests are added at the end.
LEMMA OnJoined ==
  ASSUME NEW S, NEW s \in Seq(S), NEW t \in Seq(S)
  PROVE  s \o t \in Seq(S) /\ On(s \o t) = On(s) \cup On(t)
<1>1. /\ s \o t \in Seq(S) /\ Len(s \o t) = Len(s) + Len(t)
      /\ \A i \in 1..Len(s) + Len(t) : (s \o t)[i] = IF i <= Len(s) THEN s[i] ELSE t[i - Len(s)]
  BY ConcatProperties
<1>2. Len(s) \in Nat /\ Len(t) \in Nat
  BY LenProperties
<1>3. \A i \in 1..Len(s) : i \in 1..(Len(s) + Len(t)) /\ (s \o t)[i] = s[i]
  BY <1>1, <1>2
<1>4. \A i \in 1..Len(t) : Len(s) + i \in 1..(Len(s) + Len(t)) /\ (s \o t)[Len(s) + i] = t[i]
  BY <1>1, <1>2
<1>5. \A i \in 1..(Len(s) + Len(t)) : (s \o t)[i] \in On(s) \cup On(t)
  <2> SUFFICES ASSUME NEW i \in 1..(Len(s) + Len(t)) PROVE (s \o t)[i] \in On(s) \cup On(t)
    OBVIOUS
  <2>1. CASE i <= Len(s)
    BY <1>1, <1>2, <2>1 DEF On
  <2>2. CASE ~(i <= Len(s))
    <3>1. i - Len(s) \in 1..Len(t) /\ (s \o t)[i] = t[i - Len(s)]
      BY <1>1, <1>2, <2>2
    <3> QED BY <3>1 DEF On
  <2> QED BY <2>1, <2>2
<1>6. On(s \o t) = {(s \o t)[i] : i \in 1..(Len(s) + Len(t))}
  BY <1>1 DEF On
<1>7. On(s) \subseteq On(s \o t) /\ On(t) \subseteq On(s \o t)
  BY <1>3, <1>4, <1>6 DEF On
<1>8. On(s \o t) \subseteq On(s) \cup On(t)
  BY <1>5, <1>6
<1> QED BY <1>1, <1>7, <1>8

\* And taken from its head.
LEMMA OnTaken ==
  ASSUME NEW S, NEW s \in Seq(S), s # <<>>
  PROVE  /\ Head(s) \in On(s) /\ Head(s) \in S
         /\ Tail(s) \in Seq(S) /\ On(Tail(s)) \subseteq On(s)
<1>1. /\ Head(s) \in S /\ Tail(s) \in Seq(S) /\ Len(Tail(s)) = Len(s) - 1
      /\ \A i \in 1..Len(Tail(s)) : Tail(s)[i] = s[i + 1]
      /\ Head(s) = s[1] /\ Len(s) \in Nat /\ Len(s) # 0
  BY HeadTailProperties, LenProperties, EmptySeq
<1>2. 1 \in 1..Len(s)
  BY <1>1
<1>3. \A i \in 1..Len(Tail(s)) : i + 1 \in 1..Len(s)
  BY <1>1
<1> QED BY <1>1, <1>2, <1>3 DEF On

\* Nothing, and one request.
LEMMA OnFew ==
  /\ \A S : <<>> \in Seq(S)
  /\ On(<<>>) = {}
  /\ \A S : \A r \in S : <<r>> \in Seq(S) /\ On(<<r>>) = {r}
<1>1. Len(<<>>) = 0 /\ \A i \in 1..0 : FALSE
  OBVIOUS
<1>2. On(<<>>) = {}
  BY <1>1 DEF On
<1>3. ASSUME NEW S, NEW r \in S PROVE <<r>> \in Seq(S) /\ On(<<r>>) = {r}
  <2>1. Len(<<r>>) = 1 /\ <<r>>[1] = r /\ <<r>> \in Seq(S)
    OBVIOUS
  <2>2. 1..1 = {1}
    OBVIOUS
  <2> QED BY <2>1, <2>2 DEF On
<1> QED BY <1>2, <1>3

LEMMA FirstNumbers ==
  ASSUME NEW k \in Nat
  PROVE  IsFiniteSet(1..k) /\ Cardinality(1..k) = k
<1>1. IsFiniteSet(1..k) /\ Cardinality(1..k) = IF 1 > k THEN 0 ELSE k - 1 + 1
  BY FS_Interval
<1> QED BY <1>1

\* A set has no fewer elements than its image.
LEMMA Image ==
  ASSUME NEW S, IsFiniteSet(S), NEW f
  PROVE  IsFiniteSet({f[x] : x \in S}) /\ Cardinality({f[x] : x \in S}) <= Cardinality(S)
<1> DEFINE T == {f[x] : x \in S}
           g == [x \in S |-> f[x]]
<1>1. g \in Surjection(S, T)
  BY DEF Surjection
<1> HIDE DEF g
<1> QED BY <1>1, FS_Surjection

\* Connections have no more ids than there are of them.
LEMMA IdsOf ==
  ASSUME NEW those, IsFiniteSet(those)
  PROVE  /\ IsFiniteSet({c.id : c \in those})
         /\ Cardinality({c.id : c \in those}) <= Cardinality(those)
<1> DEFINE f == [c \in those |-> c.id]
<1>1. {f[c] : c \in those} = {c.id : c \in those}
  OBVIOUS
<1> HIDE DEF f
<1>2. IsFiniteSet({f[c] : c \in those}) /\ Cardinality({f[c] : c \in those}) <= Cardinality(those)
  BY Image
<1> QED BY <1>1, <1>2

\* StopAll asks to stop those it is given, each by its id.
LEMMA StopsThese ==
  ASSUME AcsTyped, NEW those \in SUBSET acs, NEW by \in {"wifi", "wired"}
  PROVE  /\ StopAll(those, by) \in Seq(Requests)
         /\ \A r \in On(StopAll(those, by)) :
               \E c \in those : r = [op |-> "deactivate", id |-> c.id, by |-> by]
<1> DEFINE ids == {c.id : c \in those}
           n == Cardinality(ids)
           s == [k \in 1..n |-> Stop(Nth(ids, k), by)]
<1>1. ids \in SUBSET Nat
  BY DEF AcsTyped, Connections
<1>2. IsFiniteSet(ids) /\ n \in Nat
  <2>1. IsFiniteSet(those)
    BY FS_Subset DEF AcsTyped
  <2>2. IsFiniteSet(ids)
    BY <2>1, IdsOf
  <2> QED BY <2>2, FS_CardinalityType
<1>3. StopAll(those, by) = s
  BY DEF StopAll
<1>4. \A k \in 1..n : Nth(ids, k) \in ids
  <2> HIDE DEF ids
  <2> QED BY <1>1, <1>2, Numbered
<1>5. \A k \in 1..n : /\ s[k] = [op |-> "deactivate", id |-> Nth(ids, k), by |-> by]
                      /\ Nth(ids, k) \in Nat
  <2> HIDE DEF ids
  <2> QED BY <1>1, <1>4 DEF Stop
<1>6. s \in Seq(Requests) /\ Len(s) = n
  <2> HIDE DEF n
  <2>1. \A i \in Nat : [op |-> "deactivate", id |-> i, by |-> by] \in Requests
    BY DEF Requests
  <2>a. \A k \in 1..n : s[k] \in Requests
    <3> HIDE DEF s
    <3> QED BY <1>5, <2>1
  <2>2. s \in [1..n -> Requests]
    BY <2>a
  <2> QED BY <1>2, <2>2
<1>7. \A k \in 1..n : \E c \in those : s[k] = [op |-> "deactivate", id |-> c.id, by |-> by]
  BY <1>4, <1>5
<1> HIDE DEF s
<1> QED BY <1>3, <1>6, <1>7 DEF On

\* NetworkManager finds an id that nobody uses or waits to stop.
LEMMA FreshIdIsNew ==
  ASSUME IInv
  PROVE  FreshId \in Nat /\ FreshId \notin {c.id : c \in acs} \cup Stops \cup wish
<1> DEFINE ids == {c.id : c \in acs}
           J == {j \in DOMAIN bus : bus[j].op = "deactivate"}
           used == ids \cup Stops \cup wish
           n == Cardinality(acs) + Len(bus) + Cardinality(wish) + 2
<1>1. IsFiniteSet(ids) /\ Cardinality(ids) <= Cardinality(acs)
  BY IdsOf DEF IInv, AcsTyped
<1>2. Len(bus) \in Nat /\ DOMAIN bus = 1..Len(bus)
  BY LenProperties DEF IInv, BusTyped
<1>3. IsFiniteSet(J) /\ Cardinality(J) <= Len(bus)
  <2>1. IsFiniteSet(1..Len(bus)) /\ Cardinality(1..Len(bus)) = Len(bus)
    BY <1>2, FirstNumbers
  <2> QED BY <1>2, <2>1, FS_Subset
<1>4. IsFiniteSet(Stops) /\ Cardinality(Stops) <= Len(bus)
  <2> DEFINE f == [j \in J |-> bus[j].id]
  <2>1. {f[j] : j \in J} = Stops
    BY DEF Stops
  <2> HIDE DEF f
  <2>2. IsFiniteSet({f[j] : j \in J}) /\ Cardinality({f[j] : j \in J}) <= Cardinality(J)
    <3> HIDE DEF J
    <3> QED BY <1>3, Image
  <2>3. IsFiniteSet(Stops) /\ Cardinality(Stops) <= Cardinality(J)
    <3> HIDE DEF J
    <3> QED BY <2>1, <2>2
  <2>4. Cardinality(J) \in Nat /\ Cardinality(Stops) \in Nat
    BY <1>3, <2>3, FS_CardinalityType
  <2> QED BY <1>2, <1>3, <2>3, <2>4
<1>5. IsFiniteSet(wish) /\ IsFiniteSet(acs)
  BY DEF IInv, HistoryTyped, AcsTyped
<1>6. IsFiniteSet(used) /\ Cardinality(used) <= Cardinality(ids) + Cardinality(Stops) + Cardinality(wish)
  <2> HIDE DEF ids
  <2> DEFINE part == ids \cup Stops
  <2>1. /\ IsFiniteSet(part)
        /\ Cardinality(part) = Cardinality(ids) + Cardinality(Stops) - Cardinality(ids \cap Stops)
        /\ IsFiniteSet(ids \cap Stops)
    BY <1>1, <1>4, FS_Union, FS_Intersection
  <2> HIDE DEF part
  <2>2. /\ IsFiniteSet(part \cup wish) /\ IsFiniteSet(part \cap wish)
        /\ Cardinality(part \cup wish) = Cardinality(part) + Cardinality(wish) - Cardinality(part \cap wish)
    BY <1>5, <2>1, FS_Union, FS_Intersection
  <2>3. /\ Cardinality(part) \in Nat /\ Cardinality(wish) \in Nat
        /\ Cardinality(part \cap wish) \in Nat /\ Cardinality(ids) \in Nat
        /\ Cardinality(Stops) \in Nat /\ Cardinality(ids \cap Stops) \in Nat
        /\ Cardinality(part \cup wish) \in Nat
    BY <1>1, <1>4, <1>5, <2>1, <2>2, FS_CardinalityType
  <2>4. used = part \cup wish
    BY DEF part
  <2> HIDE DEF used
  <2> QED BY <2>1, <2>2, <2>3, <2>4
<1>7. n \in Nat /\ Cardinality(used) \in Nat /\ Cardinality(used) < n
  <2>1. /\ Cardinality(acs) \in Nat /\ Cardinality(wish) \in Nat /\ Cardinality(ids) \in Nat
        /\ Cardinality(Stops) \in Nat /\ Cardinality(used) \in Nat
    BY <1>1, <1>4, <1>5, <1>6, FS_CardinalityType
  <2> HIDE DEF used, ids
  <2> QED BY <1>1, <1>2, <1>4, <1>6, <2>1
<1>8. \E i \in 1..n : i \notin used
  <2> SUFFICES ASSUME 1..n \subseteq used PROVE FALSE
    OBVIOUS
  <2> HIDE DEF n, used
  <2>1. Cardinality(1..n) <= Cardinality(used)
    BY <1>6, FS_Subset
  <2>2. Cardinality(1..n) = n
    BY <1>7, FirstNumbers
  <2> QED BY <1>7, <2>1, <2>2
<1>9. FreshId = CHOOSE i \in 1..n : i \notin used
  BY DEF FreshId
<1> HIDE DEF n, used
<1>10. FreshId \in 1..n /\ FreshId \notin used
  BY <1>8, <1>9
<1> QED BY <1>7, <1>10 DEF used

-----------------------------------------------------------------------------
(* The primary device.                                                     *)

\* A device sees a number of networks.
LEMMA Counts ==
  ASSUME WorldTyped, NEW d \in present
  PROVE  Cardinality(air[d]) \in Nat /\ d \in Nat \ {0} /\ d # NoDevice
<1>1. d \in WifiDevices /\ air[d] \subseteq Ssids
  BY DEF WorldTyped
<1>2. IsFiniteSet(air[d])
  BY <1>1, ProfilesAssumption, FS_Subset DEF ProfilesAssumption
<1> QED BY <1>1, <1>2, DevicesAssumption, FS_CardinalityType DEF DevicesAssumption

\* There are finitely many devices, in the order of their numbers.
LEMMA DevicesListed ==
  ASSUME WorldTyped
  PROVE  /\ present \in SUBSET Nat /\ IsFiniteSet(present) /\ Cardinality(present) \in Nat
         /\ \A k \in 1..Cardinality(present) : Nth(present, k) \in present
         /\ \A d \in present : \E k \in 1..Cardinality(present) : d = Nth(present, k)
         /\ \A i, j \in 1..Cardinality(present) : i < j => Nth(present, i) < Nth(present, j)
<1>1. present \in SUBSET Nat /\ IsFiniteSet(present)
  BY DevicesAssumption, FS_Subset DEF DevicesAssumption, WorldTyped
<1>2. Cardinality(present) \in Nat
  BY <1>1, FS_CardinalityType
<1>3. \A k \in 1..Cardinality(present) : Nth(present, k) \in present
  BY <1>1, Numbered
<1>4. \A d \in present : \E k \in 1..Cardinality(present) : d = Nth(present, k)
  BY <1>1, Numbered, Ranked
<1>5. \A i, j \in 1..Cardinality(present) : i < j => Nth(present, i) < Nth(present, j)
  BY <1>1, InOrder
<1> QED BY <1>1, <1>2, <1>3, <1>4, <1>5

\* One device is better than the other, and the order of the three tests is no matter.
LEMMA BetterIsTransitive ==
  ASSUME WorldTyped, NEW d \in present, NEW e \in present, NEW f \in present,
         Better(d, e), Better(e, f)
  PROVE  Better(d, f)
<1>1. /\ Cardinality(air[d]) \in Nat /\ Cardinality(air[e]) \in Nat /\ Cardinality(air[f]) \in Nat
      /\ d \in Nat /\ e \in Nat /\ f \in Nat
  BY Counts
<1> QED BY <1>1 DEF Better

\* The loop keeps the better of the device it holds and a later one.
LEMMA PreferredIsBetter ==
  ASSUME WorldTyped, NEW d \in present, NEW e \in present, d < e
  PROVE  \/ Preferred(d, e) = d /\ Better(d, e)
         \/ Preferred(d, e) = e /\ Better(e, d)
<1>1. /\ Cardinality(air[d]) \in Nat /\ Cardinality(air[e]) \in Nat
      /\ d \in Nat /\ e \in Nat /\ d # NoDevice
  BY Counts
<1> QED BY <1>1 DEF Better, Preferred

\* What the loop holds after each device.
LEMMA PassOverDevices ==
  ASSUME WorldTyped
  PROVE  \E best : /\ best[0] = NoDevice
                   /\ \A k \in 1..Cardinality(present) :
                         best[k] = Preferred(best[k - 1], Nth(present, k))
                   /\ Primary = best[Cardinality(present)]
<1> DEFINE n == Cardinality(present)
           S == present \cup {NoDevice}
           P(f) == f = [k \in 0..n |-> IF k = 0 THEN NoDevice
                                       ELSE Preferred(f[k - 1], Nth(present, k))]
           best == CHOOSE f : P(f)
           step == [x \in S \X (1..n) |-> Preferred(x[1], Nth(present, x[2]))]
<1>1. Primary = best[n]
  BY DEF Primary
<1>2. n \in Nat /\ \A k \in 1..n : Nth(present, k) \in present
  BY DevicesListed
<1>3. step \in [S \X ((0 + 1)..n) -> S]
  <2> SUFFICES ASSUME NEW x \in S \X (1..n) PROVE Preferred(x[1], Nth(present, x[2])) \in S
    OBVIOUS
  <2>1. x[1] \in S /\ Nth(present, x[2]) \in S
    BY <1>2
  <2> QED BY <2>1 DEF Preferred
<1>4. PICK f \in [0..n -> S] : /\ f[0] = NoDevice
                               /\ \A j \in (0 + 1)..n : f[j] = step[<<f[j - 1], j>>]
  <2>1. NoDevice \in S
    OBVIOUS
  <2> HIDE DEF S, step, P, best, n
  <2>2. \E f : IsRun(f, S, NoDevice, 0, n, step)
    BY <1>2, <1>3, <2>1, Iterated
  <2> QED BY <2>2 DEF IsRun
<1>5. \A j \in 1..n : f[j] = Preferred(f[j - 1], Nth(present, j))
  <2> SUFFICES ASSUME NEW j \in 1..n PROVE f[j] = Preferred(f[j - 1], Nth(present, j))
    OBVIOUS
  <2> HIDE DEF n
  <2>0. j - 1 \in 0..n /\ j \in (0 + 1)..n
    BY <1>2
  <2>1. f[j - 1] \in S
    BY <1>4, <2>0
  <2>2. <<f[j - 1], j>> \in S \X (1..n)
    BY <2>1
  <2> HIDE DEF S
  <2> QED BY <1>4, <2>0, <2>2
<1>6. P(f)
  <2> HIDE DEF n
  <2>1. \A j \in 0..n : f[j] = IF j = 0 THEN NoDevice ELSE Preferred(f[j - 1], Nth(present, j))
    <3> SUFFICES ASSUME NEW j \in 0..n
                 PROVE f[j] = IF j = 0 THEN NoDevice ELSE Preferred(f[j - 1], Nth(present, j))
      OBVIOUS
    <3>1. j # 0 => j \in 1..n
      BY <1>2
    <3> QED BY <1>4, <1>5, <3>1
  <2> HIDE DEF S
  <2> QED BY <1>4, <2>1
<1> HIDE DEF P
<1>7. P(best)
  BY <1>6
<1> HIDE DEF best
<1>8. best = [j \in 0..n |-> IF j = 0 THEN NoDevice ELSE Preferred(best[j - 1], Nth(present, j))]
  BY <1>7 DEF P
<1>9. best[0] = NoDevice
  <2>1. 0 \in 0..n
    BY <1>2
  <2> QED BY <1>8, <2>1
<1>10. \A k \in 1..n : best[k] = Preferred(best[k - 1], Nth(present, k))
  <2> HIDE DEF n
  <2> SUFFICES ASSUME NEW k \in 1..n PROVE best[k] = Preferred(best[k - 1], Nth(present, k))
    OBVIOUS
  <2>1. k \in 0..n /\ k # 0
    BY <1>2
  <2> QED BY <1>8, <2>1
<1> QED BY <1>1, <1>9, <1>10

\* Among the first k devices b is one that is better than any other.
BestOfFirst(b, k) ==
  \E i \in 1..k : /\ b = Nth(present, i)
                  /\ \A j \in (1..k) \ {i} : Better(b, Nth(present, j))

\* One more device.
LEMMA OneMore ==
  ASSUME WorldTyped, NEW k \in 1..Cardinality(present), k # 1, NEW b, BestOfFirst(b, k - 1)
  PROVE  BestOfFirst(Preferred(b, Nth(present, k)), k)
<1> DEFINE n == Cardinality(present)
           e == Nth(present, k)
<1> HIDE DEF n
<1>1. PICK i \in 1..(k - 1) : /\ b = Nth(present, i)
                              /\ \A j \in (1..(k - 1)) \ {i} : Better(b, Nth(present, j))
  BY DEF BestOfFirst
<1>2. n \in Nat /\ \A j \in 1..n : Nth(present, j) \in present
  BY DevicesListed DEF n
<1>3. k \in 1..n /\ k \in Nat
  BY DEF n
<1>4. i \in 1..n /\ i < k
  BY <1>2, <1>3
<1>5. b \in present /\ e \in present /\ b < e
  BY <1>1, <1>2, <1>3, <1>4, DevicesListed DEF n
<1> HIDE DEF e
<1>6. CASE Preferred(b, e) = b /\ Better(b, e)
  <2>1. \A j \in (1..k) \ {i} : Better(b, Nth(present, j))
    <3> SUFFICES ASSUME NEW j \in (1..k) \ {i} PROVE Better(b, Nth(present, j))
      OBVIOUS
    <3>1. j = k \/ j \in (1..(k - 1)) \ {i}
      BY <1>3
    <3> QED BY <1>1, <1>6, <3>1 DEF e
  <2>2. i \in 1..k
    BY <1>3
  <2> QED BY <1>1, <1>6, <2>1, <2>2 DEF BestOfFirst, e
<1>7. CASE Preferred(b, e) = e /\ Better(e, b)
  <2>1. \A j \in (1..k) \ {k} : Better(e, Nth(present, j))
    <3> SUFFICES ASSUME NEW j \in (1..k) \ {k} PROVE Better(e, Nth(present, j))
      OBVIOUS
    <3>1. j \in 1..(k - 1) /\ j \in 1..n
      BY <1>2, <1>3
    <3>2. CASE j = i
      BY <1>1, <1>7, <3>2
    <3>3. CASE j # i
      <4>1. Better(b, Nth(present, j)) /\ Nth(present, j) \in present
        BY <1>1, <1>2, <3>1, <3>3
      <4> QED BY <1>5, <1>7, <4>1, BetterIsTransitive
    <3> QED BY <3>2, <3>3
  <2>2. k \in 1..k
    BY <1>3
  <2> QED BY <1>7, <2>1, <2>2 DEF BestOfFirst, e
<1> QED BY <1>5, <1>6, <1>7, PreferredIsBetter DEF e

\* After the last device the loop holds the best of all.
LEMMA PrimaryIsFound == WorldTyped => PrimaryIsBest
<1> SUFFICES ASSUME WorldTyped PROVE PrimaryIsBest
  OBVIOUS
<1> DEFINE n == Cardinality(present)
<1>1. PICK best : /\ best[0] = NoDevice
                  /\ \A k \in 1..n : best[k] = Preferred(best[k - 1], Nth(present, k))
                  /\ Primary = best[n]
  BY PassOverDevices
<1>2. /\ n \in Nat /\ IsFiniteSet(present)
      /\ \A k \in 1..n : Nth(present, k) \in present
      /\ \A d \in present : \E k \in 1..n : d = Nth(present, k)
  BY DevicesListed
<1>3. CASE present = {}
  <2>1. n = 0
    BY <1>3, FS_EmptySet
  <2> QED BY <1>1, <1>3, <2>1 DEF PrimaryIsBest
<1>4. CASE present # {}
  <2>1. n # 0
    BY <1>2, <1>4, FS_EmptySet
  <2> HIDE DEF n
  <2>2. \A k \in 1..n : BestOfFirst(best[k], k)
    <3> DEFINE T == {k \in 1..n : ~BestOfFirst(best[k], k)}
    <3> SUFFICES ASSUME T # {} PROVE FALSE
      OBVIOUS
    <3>1. T \in SUBSET Nat
      OBVIOUS
    <3>2. PICK k \in T : \A j \in T : k <= j
      <4> HIDE DEF T
      <4> QED BY <3>1, NatMin
    <3>3. k \in 1..n /\ k \in Nat /\ best[k] = Preferred(best[k - 1], Nth(present, k))
      BY <1>1, <3>2
    <3>4. CASE k = 1
      <4>1. best[1] = Nth(present, 1)
        BY <1>1, <3>3, <3>4 DEF Preferred
      <4>2. 1 \in 1..1 /\ (1..1) \ {1} = {}
        OBVIOUS
      <4>3. BestOfFirst(best[1], 1)
        BY <4>1, <4>2 DEF BestOfFirst
      <4> QED BY <3>2, <3>4, <4>3
    <3>5. CASE k # 1
      <4>1. k - 1 \in 1..n /\ ~(k <= k - 1)
        BY <1>2, <3>3, <3>5
      <4>2. BestOfFirst(best[k - 1], k - 1)
        BY <3>2, <4>1
      <4>3. BestOfFirst(best[k], k)
        BY <3>3, <3>5, <4>2, OneMore DEF n
      <4> QED BY <3>2, <4>3
    <3> QED BY <3>4, <3>5
  <2>3. n \in 1..n
    BY <1>2, <2>1
  <2>4. PICK i \in 1..n : /\ Primary = Nth(present, i)
                          /\ \A j \in (1..n) \ {i} : Better(Primary, Nth(present, j))
    BY <1>1, <2>2, <2>3 DEF BestOfFirst
  <2>5. Primary \in present
    BY <1>2, <2>4
  <2>6. \A d \in present \ {Primary} : Better(Primary, d)
    BY <1>2, <2>4
  <2> QED BY <1>4, <2>5, <2>6 DEF PrimaryIsBest
<1> QED BY <1>3, <1>4

\* The primary device and the one for a hotspot are devices that are there.
LEMMA ChosenDevices ==
  ASSUME WorldTyped
  PROVE  Primary \in WifiDevices \cup {NoDevice} /\ Hotspot \in WifiDevices \cup {NoDevice}
<1>1. Primary \in WifiDevices \cup {NoDevice}
  BY PrimaryIsFound DEF PrimaryIsBest, WorldTyped
<1>2. ASSUME present \cap ApCapable # {} PROVE Nth(present \cap ApCapable, 1) \in WifiDevices
  <2> DEFINE able == present \cap ApCapable
  <2>1. able \in SUBSET Nat /\ IsFiniteSet(able) /\ able \subseteq WifiDevices
    BY DevicesListed, FS_Subset DEF WorldTyped
  <2> HIDE DEF able
  <2>2. Cardinality(able) \in Nat /\ Cardinality(able) # 0
    BY <1>2, <2>1, FS_CardinalityType, FS_EmptySet DEF able
  <2>3. 1 \in 1..Cardinality(able)
    BY <2>2
  <2>4. Nth(able, 1) \in able
    BY <2>1, <2>3, Numbered
  <2> QED BY <2>1, <2>4 DEF able
<1> QED BY <1>1, <1>2 DEF Hotspot, WorldTyped

-----------------------------------------------------------------------------
(* The handlers.                                                           *)

\* What the code takes for a Wi-Fi connection is one, or a VPN over one.
LEMMA WifiIsWifi ==
  ASSUME AcsTyped, OnWifi, NEW c \in acs, IsWifi(c)
  PROVE  OverWifi(c)
<1>1. CASE c.dev = NoDevice
  BY <1>1 DEF IsWifi, OverWifi
<1>2. CASE c.dev # NoDevice
  <2>1. c.dev \in WifiDevices
    BY <1>2 DEF IsWifi
  <2>2. c.on = NoDevice \/ c.on \in WifiDevices
    BY <1>2, <2>1 DEF AcsTyped
  <2> QED BY <2>1, <2>2 DEF OnWifi, OverWifi
<1> QED BY <1>1, <1>2

\* Asking to stop Wi-Fi connections spares the others, and any other request to stop
\* is no Wi-Fi click's.
LEMMA StopsSpare ==
  ASSUME IInv, NEW those \in SUBSET acs, NEW by \in {"wifi", "wired"},
         by = "wifi" => \A c \in those : IsWifi(c)
  PROVE  /\ StopAll(those, by) \in Seq(Requests)
         /\ \A r \in On(StopAll(those, by)) : Fitting(r) /\ Sparing(r)
<1>1. AcsTyped /\ OnWifi
  BY DEF IInv
<1>2. /\ StopAll(those, by) \in Seq(Requests)
      /\ \A r \in On(StopAll(those, by)) :
            \E c \in those : r = [op |-> "deactivate", id |-> c.id, by |-> by]
  BY <1>1, StopsThese
<1>3. ASSUME NEW r \in On(StopAll(those, by)) PROVE Fitting(r) /\ Sparing(r)
  <2>1. PICK c \in those : r = [op |-> "deactivate", id |-> c.id, by |-> by]
    BY <1>2
  <2>2. r.op = "deactivate" /\ r.id = c.id /\ r.by = by
    BY <2>1
  <2>3. Fitting(r)
    BY <2>2 DEF Fitting
  <2>4. ASSUME by = "wifi", NEW d \in acs, d.id = r.id PROVE OverWifi(d)
    <3>1. d = c
      BY <1>1, <2>2, <2>4 DEF AcsTyped, Apart
    <3> QED BY <1>1, <2>4, <3>1, WifiIsWifi
  <2> QED BY <2>2, <2>3, <2>4 DEF Sparing
<1> QED BY <1>2, <1>3

\* Requests of a handler leave the bus as it should be.
LEMMA BusGrows ==
  ASSUME IInv, NEW s \in Seq(Requests), \A r \in On(s) : Fitting(r) /\ Sparing(r),
         bus' = bus \o s, acs' = acs
  PROVE  BusTyped'
<1>1. bus' \in Seq(Requests) /\ On(bus') = On(bus) \cup On(s)
  BY OnJoined DEF IInv, BusTyped
<1>2. \A r \in On(bus') : Fitting(r) /\ Sparing(r)
  BY <1>1 DEF IInv, BusTyped
<1>3. \A r : Sparing(r)' <=> Sparing(r)
  BY DEF Sparing
<1> QED BY <1>1, <1>2, <1>3 DEF BusTyped, Fitting

\* One request to start a profile.
LEMMA OneStart ==
  ASSUME NEW r, NEW p \in Profiles, NEW d \in Interfaces,
         r \in {Start(p, d), Add(p, d)},
         d \in WifiDevices <=> p.kind = "wifi", p.kind # "vpn"
  PROVE  <<r>> \in Seq(Requests) /\ \A q \in On(<<r>>) : Fitting(q) /\ Sparing(q)
<1>1. r \in Requests /\ r.op \in {"activate", "add"} /\ r.profile = p /\ r.dev = d
  BY DEF Start, Add, Requests
<1>2. Fitting(r) /\ Sparing(r)
  BY <1>1 DEF Fitting, Sparing
<1> QED BY <1>1, <1>2, OnFew

\* No request, or one to release a device.
LEMMA FewRequests ==
  /\ <<>> \in Seq(Requests) /\ \A q \in On(<<>>) : Fitting(q) /\ Sparing(q)
  /\ \A d \in WifiDevices : /\ <<Leave(d)>> \in Seq(Requests)
                            /\ \A q \in On(<<Leave(d)>>) : Fitting(q) /\ Sparing(q)
<1>1. ASSUME NEW d \in WifiDevices PROVE Leave(d) \in Requests /\ Fitting(Leave(d)) /\ Sparing(Leave(d))
  <2>1. Leave(d).op = "disconnect" /\ Leave(d) \in Requests
    BY DEF Leave, Requests
  <2> QED BY <2>1 DEF Fitting, Sparing
<1> QED BY <1>1, OnFew

\* A frame is pushed, and the innermost one ends or is replaced.
LEMMA Pushed ==
  ASSUME IInv, NEW f \in Frames, stack' = <<f>> \o stack
  PROVE  StackTyped'
<1>1. <<f>> \in Seq(Frames \cup {Crashed}) /\ stack \in Seq(Frames \cup {Crashed})
  BY OnFew DEF IInv, StackTyped
<1> HIDE DEF Frames
<1>2. <<f>> \o stack \in Seq(Frames \cup {Crashed})
  BY <1>1, ConcatProperties
<1> QED BY <1>2 DEF StackTyped

LEMMA OnTop ==
  ASSUME IInv, NEW at, Innermost(at)
  PROVE  /\ Head(stack) \in Frames /\ Head(stack).at = at
         /\ Tail(stack) \in Seq(Frames \cup {Crashed})
         /\ \A f \in Frames : <<f>> \o Tail(stack) \in Seq(Frames \cup {Crashed})
<1>1. stack \in Seq(Frames \cup {Crashed}) /\ stack # <<>>
  BY DEF IInv, StackTyped, Innermost
<1> HIDE DEF Frames
<1>2. /\ Head(stack) \in Frames \cup {Crashed} /\ Head(stack) = stack[1]
      /\ Tail(stack) \in Seq(Frames \cup {Crashed})
  BY <1>1, HeadTailProperties
<1>3. 1 \in DOMAIN stack
  BY <1>1, LenProperties, EmptySeq
<1>4. Head(stack) # Crashed
  BY <1>2, <1>3 DEF Innermost, Running
<1>5. ASSUME NEW f \in Frames PROVE <<f>> \o Tail(stack) \in Seq(Frames \cup {Crashed})
  BY <1>2, OnFew, ConcatProperties
<1> QED BY <1>2, <1>4, <1>5 DEF Innermost

\* A click on something to connect with.
LEMMA BeginKeeps ==
  ASSUME IInv, NEW kind, NEW detail, Begin(kind, detail),
         [kind |-> kind, at |-> "begun", dev |-> NoDevice, detail |-> detail] \in Frames
  PROVE  IInv'
<1>1. /\ WorldTyped' /\ AcsTyped' /\ OnWifi' /\ HistoryTyped' /\ bus' = bus /\ acs' = acs
      /\ stack' = <<[kind |-> kind, at |-> "begun", dev |-> NoDevice, detail |-> detail]>> \o stack
  BY DEF Begin, IInv, world, WorldTyped, AcsTyped, OnWifi, HistoryTyped
<1>2. StackTyped'
  BY <1>1, Pushed
<1>3. BusTyped'
  BY <1>1 DEF BusTyped, IInv, Sparing, Fitting
<1> QED BY <1>1, <1>2, <1>3 DEF IInv

LEMMA ConnectKeeps == IInv /\ (ConnectWifi \/ ConnectHidden \/ CreateHotspot) => IInv'
<1> SUFFICES ASSUME IInv, ConnectWifi \/ ConnectHidden \/ CreateHotspot PROVE IInv'
  OBVIOUS
<1>1. CASE ConnectWifi
  <2>1. PICK s \in Ssids, p \in WifiProfiles \cup {NoProfile} : Begin("menu", [ssid |-> s, profile |-> p])
    BY <1>1 DEF ConnectWifi
  <2>2. [kind |-> "menu", at |-> "begun", dev |-> NoDevice, detail |-> [ssid |-> s, profile |-> p]] \in Frames
    BY DEF Frames
  <2> QED BY <2>1, <2>2, BeginKeeps
<1>2. CASE ConnectHidden \/ CreateHotspot
  <2>1. PICK kind \in {"hidden", "hotspot"}, p \in WifiProfiles : Begin(kind, [profile |-> p])
    BY <1>2 DEF ConnectHidden, CreateHotspot
  <2>2. [kind |-> kind, at |-> "begun", dev |-> NoDevice, detail |-> [profile |-> p]] \in Frames
    BY DEF Frames
  <2> QED BY <2>1, <2>2, BeginKeeps
<1> QED BY <1>1, <1>2

\* The end of a connect handler.
LEMMA EndKeeps ==
  ASSUME IInv, NEW s \in Seq(Requests), \A r \in On(s) : Fitting(r) /\ Sparing(r),
         NEW ok \in BOOLEAN, NEW p, ok <=> p # NoProfile, Ended(s, ok, p),
         Tail(stack) \in Seq(Frames \cup {Crashed})
  PROVE  IInv'
<1>1. /\ WorldTyped' /\ AcsTyped' /\ OnWifi' /\ wish' = wish /\ acs' = acs
      /\ bus' = bus \o s /\ stack' = Tail(stack)
      /\ asked'.ok = ok /\ asked'.started = p
  BY DEF Ended, IInv, world, WorldTyped, AcsTyped, OnWifi
<1>2. HistoryTyped'
  BY <1>1 DEF HistoryTyped, IInv
<1>3. StackTyped'
  BY <1>1 DEF StackTyped
<1>4. BusTyped'
  BY <1>1, BusGrows
<1> QED BY <1>1, <1>2, <1>3, <1>4 DEF IInv

\* The device is chosen and what it has is dropped.
LEMMA DropKeeps == IInv /\ Drop => IInv'
<1> SUFFICES ASSUME IInv, Drop PROVE IInv'
  OBVIOUS
<1> DEFINE top == Head(stack)
           device == IF top.kind = "hotspot" THEN Hotspot ELSE Primary
<1>1. Innermost("begun")
  BY DEF Drop
<1>2. /\ top \in Frames /\ Tail(stack) \in Seq(Frames \cup {Crashed})
      /\ \A f \in Frames : <<f>> \o Tail(stack) \in Seq(Frames \cup {Crashed})
  BY <1>1, OnTop
<1>3. device \in WifiDevices \cup {NoDevice}
  BY ChosenDevices DEF IInv
<1>4. \/ Ended(<<>>, FALSE, NoProfile)
      \/ /\ device # NoDevice /\ bus' = bus \o StopAll(OnDevice(device), "wifi")
         /\ stack' = <<[top EXCEPT !.at = "dropped", !.dev = device]>> \o Tail(stack)
         /\ UNCHANGED <<world, acs, asked, wish, calls, changes>>
  BY DEF Drop
<1> HIDE DEF top, device
<1>5. CASE Ended(<<>>, FALSE, NoProfile)
  BY <1>2, <1>5, FewRequests, EndKeeps
<1>6. CASE /\ device # NoDevice /\ bus' = bus \o StopAll(OnDevice(device), "wifi")
           /\ stack' = <<[top EXCEPT !.at = "dropped", !.dev = device]>> \o Tail(stack)
           /\ UNCHANGED <<world, acs, asked, wish, calls, changes>>
  <2>1. [top EXCEPT !.at = "dropped", !.dev = device] \in Frames
    BY <1>2, <1>3, <1>6 DEF Frames
  <2>2. StackTyped'
    BY <1>2, <1>6, <2>1 DEF StackTyped
  <2>3. WorldTyped' /\ AcsTyped' /\ OnWifi' /\ HistoryTyped' /\ acs' = acs
    BY <1>6 DEF IInv, world, WorldTyped, AcsTyped, OnWifi, HistoryTyped
  <2>4. OnDevice(device) \in SUBSET acs /\ \A c \in OnDevice(device) : IsWifi(c)
    BY DEF OnDevice
  <2>5. /\ StopAll(OnDevice(device), "wifi") \in Seq(Requests)
        /\ \A r \in On(StopAll(OnDevice(device), "wifi")) : Fitting(r) /\ Sparing(r)
    BY <2>4, StopsSpare
  <2>6. BusTyped'
    BY <1>6, <2>3, <2>5, BusGrows
  <2> QED BY <2>2, <2>3, <2>6 DEF IInv
<1> QED BY <1>4, <1>5, <1>6

LEMMA GoKeeps == IInv /\ (ConnectGo \/ DialogGo) => IInv'
<1> SUFFICES ASSUME IInv, ConnectGo \/ DialogGo PROVE IInv'
  OBVIOUS
<1> DEFINE top == Head(stack)
<1>1. NoProfile \notin Profiles /\ saved \subseteq Profiles
  BY ProfilesAssumption DEF ProfilesAssumption, IInv, WorldTyped
<1>2. /\ <<>> \in Seq(Requests) /\ \A q \in On(<<>>) : Fitting(q) /\ Sparing(q)
  BY FewRequests
<1>3. \A p \in Profiles : \A d \in WifiDevices : \A r \in {Start(p, d), Add(p, d)} :
         p.kind = "wifi" =>
            <<r>> \in Seq(Requests) /\ \A q \in On(<<r>>) : Fitting(q) /\ Sparing(q)
  BY OneStart DEF Interfaces
<1>4. \A p \in WifiProfiles : p \in Profiles /\ p.kind = "wifi"
  BY DEF WifiProfiles
<1>5. Innermost("dropped")
  BY DEF ConnectGo, DialogGo
<1>6. top \in Frames /\ top.at = "dropped" /\ Tail(stack) \in Seq(Frames \cup {Crashed})
  BY <1>5, OnTop
<1>7. top.dev \in WifiDevices
  BY <1>6 DEF Frames
<1>8. CASE ConnectGo
  <2>1. PICK p \in Found(top.detail) :
          IF p # NoProfile
          THEN Ended(<<Start(p, top.dev)>>, TRUE, p)
          ELSE \E n \in {q \in WifiProfiles \ saved : q.ssid = top.detail.ssid} :
               IF top.dev \in present /\ top.detail.ssid \in air[top.dev]
               THEN Ended(<<Add(n, top.dev)>>, TRUE, n)
               ELSE Ended(<<>>, FALSE, NoProfile)
    BY <1>8 DEF ConnectGo
  <2>2. top.detail.profile \in WifiProfiles \cup {NoProfile}
    BY <1>6, <1>8 DEF Frames, ConnectGo
  <2> HIDE DEF top
  <2>3. CASE p # NoProfile
    <3>1. p \in Profiles /\ p.kind = "wifi"
      BY <1>1, <1>4, <2>1, <2>2, <2>3 DEF Found
    <3>2. <<Start(p, top.dev)>> \in Seq(Requests)
          /\ \A q \in On(<<Start(p, top.dev)>>) : Fitting(q) /\ Sparing(q)
      BY <1>3, <1>7, <3>1
    <3>3. Ended(<<Start(p, top.dev)>>, TRUE, p)
      BY <2>1, <2>3
    <3> QED BY <1>6, <2>3, <3>2, <3>3, EndKeeps
  <2>4. CASE p = NoProfile
    <3>1. PICK n \in WifiProfiles \ saved :
             \/ Ended(<<Add(n, top.dev)>>, TRUE, n)
             \/ Ended(<<>>, FALSE, NoProfile)
      BY <2>1, <2>4
    <3>2. n \in Profiles /\ n.kind = "wifi" /\ n # NoProfile
      BY <1>1, <1>4
    <3>3. <<Add(n, top.dev)>> \in Seq(Requests)
          /\ \A q \in On(<<Add(n, top.dev)>>) : Fitting(q) /\ Sparing(q)
      BY <1>3, <1>7, <3>2
    <3>4. CASE Ended(<<Add(n, top.dev)>>, TRUE, n)
      BY <1>6, <3>2, <3>3, <3>4, EndKeeps
    <3>5. CASE Ended(<<>>, FALSE, NoProfile)
      BY <1>2, <1>6, <3>5, EndKeeps
    <3> QED BY <3>1, <3>4, <3>5
  <2> QED BY <2>3, <2>4
<1>9. CASE DialogGo
  <2> DEFINE p == top.detail.profile
  <2>1. p \in WifiProfiles
    BY <1>6, <1>9 DEF Frames, DialogGo
  <2>2. p \in Profiles /\ p.kind = "wifi" /\ p # NoProfile
    BY <1>1, <1>4, <2>1
  <2>3. \/ Ended(<<Add(p, top.dev)>>, TRUE, p)
        \/ Ended(<<>>, FALSE, NoProfile)
    BY <1>9 DEF DialogGo
  <2> HIDE DEF p, top
  <2>4. <<Add(p, top.dev)>> \in Seq(Requests)
        /\ \A q \in On(<<Add(p, top.dev)>>) : Fitting(q) /\ Sparing(q)
    BY <1>3, <1>7, <2>2
  <2>5. CASE Ended(<<Add(p, top.dev)>>, TRUE, p)
    BY <1>6, <2>2, <2>4, <2>5, EndKeeps
  <2>6. CASE Ended(<<>>, FALSE, NoProfile)
    BY <1>2, <1>6, <2>6, EndKeeps
  <2> QED BY <2>3, <2>5, <2>6
<1> QED BY <1>8, <1>9

\* What deactivateItem asks for: one connection is stopped, or a device is left.
LEMMA RowSpares ==
  ASSUME IInv, NEW p, NEW d \in WifiDevices \cup {NoDevice}, NEW s \in Deactivations(p, d)
  PROVE  s \in Seq(Requests) /\ \A r \in On(s) : Fitting(r) /\ Sparing(r)
<1>1. CASE \E c \in acs : s = <<Stop(c.id, "row")>>
  <2>1. PICK c \in acs : s = <<Stop(c.id, "row")>>
    BY <1>1
  <2> DEFINE r == Stop(c.id, "row")
  <2>2. c.id \in Nat
    BY DEF IInv, AcsTyped, Connections
  <2>3. r \in Requests /\ r.op = "deactivate" /\ r.by = "row"
    BY <2>2 DEF Stop, Requests
  <2>4. s = <<r>>
    BY <2>1
  <2> HIDE DEF r
  <2>5. Fitting(r) /\ Sparing(r)
    BY <2>3 DEF Fitting, Sparing
  <2> QED BY <2>3, <2>4, <2>5, OnFew
<1>2. CASE d \in present /\ s = <<Leave(d)>>
  <2>1. d \in WifiDevices
    BY <1>2 DEF IInv, WorldTyped
  <2> QED BY <1>2, <2>1, FewRequests
<1>3. CASE s = <<>>
  BY <1>3, FewRequests
<1>4. \/ \E c \in acs : s = <<Stop(c.id, "row")>>
      \/ d \in present /\ s = <<Leave(d)>>
      \/ s = <<>>
  BY DEF Deactivations
<1> QED BY <1>1, <1>2, <1>3, <1>4

\* A wired profile is activated in place of those that are coming up.
LEMMA WiredSpares ==
  ASSUME IInv, ActivateWired
  PROVE  \E s \in Seq(Requests) : bus' = bus \o s /\ \A r \in On(s) : Fitting(r) /\ Sparing(r)
<1> DEFINE those == {c \in acs : c.dev = Eth /\ c.state = "activating"}
           s == StopAll(those, "wired")
<1>1. PICK p \in {q \in saved : q.kind = "wired"} : bus' = bus \o Append(s, Start(p, Eth))
  BY DEF ActivateWired
<1> DEFINE t == <<Start(p, Eth)>>
<1>2. those \in SUBSET acs
  OBVIOUS
<1> HIDE DEF those
<1>3. s \in Seq(Requests) /\ \A r \in On(s) : Fitting(r) /\ Sparing(r)
  BY <1>2, StopsSpare
<1>4. p \in Profiles /\ p.kind = "wired" /\ Eth \in Interfaces /\ Eth \notin WifiDevices
  BY DevicesAssumption DEF DevicesAssumption, Interfaces, IInv, WorldTyped
<1>5. t \in Seq(Requests) /\ \A r \in On(t) : Fitting(r) /\ Sparing(r)
  BY <1>4, OneStart
<1>6. Append(s, Start(p, Eth)) = s \o t
  BY <1>3, <1>4, AppendIsConcat DEF Requests, Start, Interfaces
<1> HIDE DEF s, t
<1>7. s \o t \in Seq(Requests) /\ \A r \in On(s \o t) : Fitting(r) /\ Sparing(r)
  BY <1>3, <1>5, OnJoined
<1> QED BY <1>1, <1>6, <1>7

\* The clicks that are one step.
LEMMA ClickKeeps == IInv /\ (DisconnectWifi \/ ClickProfile) => IInv'
<1> SUFFICES ASSUME IInv, DisconnectWifi \/ ClickProfile PROVE IInv'
  OBVIOUS
<1>1. /\ WorldTyped' /\ AcsTyped' /\ OnWifi' /\ StackTyped' /\ acs' = acs /\ asked' = NoCall
  BY DEF DisconnectWifi, ClickProfile, IInv, world, WorldTyped, AcsTyped, OnWifi, StackTyped
<1>2. IsFiniteSet(wish')
  <2>1. IsFiniteSet(wish) /\ IsFiniteSet(acs)
    BY DEF IInv, HistoryTyped, AcsTyped
  <2>2. CASE DisconnectWifi
    <3>1. IsFiniteSet({c \in acs : Live(c) /\ IsWifi(c)})
      BY <2>1, FS_Subset
    <3>2. wish' = {c.id : c \in {c \in acs : Live(c) /\ IsWifi(c)}}
      BY <2>2 DEF DisconnectWifi
    <3> QED BY <3>1, <3>2, IdsOf
  <2>3. CASE ClickProfile
    BY <2>1, <2>3 DEF ClickProfile
  <2> QED BY <2>2, <2>3
<1>3. \E s \in Seq(Requests) : bus' = bus \o s /\ \A r \in On(s) : Fitting(r) /\ Sparing(r)
  <2>1. CASE bus' = bus \o StopAll(AllWifi, "wifi")
    <3>1. AllWifi \in SUBSET acs /\ \A c \in AllWifi : IsWifi(c)
      BY DEF AllWifi
    <3> QED BY <2>1, <3>1, StopsSpare
  <2>2. CASE \E p : \E d \in WifiDevices \cup {NoDevice} :
                \E s \in Deactivations(p, d) : bus' = bus \o s
    BY <2>2, RowSpares
  <2>3. CASE ActivateWired
    BY <2>3, WiredSpares
  <2>4. CASE bus' = bus
    <3>1. bus \o <<>> = bus
      BY ConcatEmptySeq DEF IInv, BusTyped
    <3> QED BY <2>4, <3>1, FewRequests
  <2>5. \/ bus' = bus \o StopAll(AllWifi, "wifi")
        \/ \E p : \E d \in WifiDevices \cup {NoDevice} :
              \E s \in Deactivations(p, d) : bus' = bus \o s
        \/ ActivateWired \/ bus' = bus
    <3>1. CASE DisconnectWifi
      BY <3>1 DEF DisconnectWifi
    <3>2. ASSUME NEW kind, DeactivateRow(kind)
          PROVE  \E p : \E d \in WifiDevices \cup {NoDevice} :
                    \E s \in Deactivations(p, d) : bus' = bus \o s
      BY <3>2 DEF DeactivateRow
    <3>3. CASE ClickProfile
      <4>1. DeactivateRow("wired") \/ ActivateWired \/ DeactivateRow("vpn") \/ bus' = bus
        BY <3>3 DEF ClickProfile
      <4> QED BY <4>1, <3>2
    <3> QED BY <3>1, <3>3
  <2> QED BY <2>1, <2>2, <2>3, <2>4, <2>5
<1>4. BusTyped'
  BY <1>1, <1>3, BusGrows
<1> QED BY <1>1, <1>2, <1>4 DEF IInv, HistoryTyped

LEMMA UnpluggedUseKeeps == IInv /\ UseAfterUnplug => IInv'
<1> SUFFICES ASSUME IInv, UseAfterUnplug PROVE IInv'
  OBVIOUS
<1>1. StackTyped'
  BY OnFew DEF UseAfterUnplug, StackTyped
<1> QED BY <1>1 DEF UseAfterUnplug, IInv, world, WorldTyped, AcsTyped, OnWifi, HistoryTyped,
                    BusTyped, Sparing, Fitting

-----------------------------------------------------------------------------
(* NetworkManager.                                                         *)

\* A request to stop is among those that FreshId avoids.
LEMMA StopsAreKnown ==
  ASSUME IInv, NEW r \in On(bus), r.op = "deactivate"
  PROVE  r.id \in Stops
<1>1. DOMAIN bus = 1..Len(bus)
  BY LenProperties DEF IInv, BusTyped
<1> QED BY <1>1 DEF On, Stops

\* Connections that end disturb no other, and no request.
LEMMA FewerKeeps ==
  ASSUME IInv, acs' \subseteq acs, bus' \in Seq(Requests), On(bus') \subseteq On(bus)
  PROVE  AcsTyped' /\ OnWifi' /\ BusTyped'
<1>1. AcsTyped'
  BY FS_Subset DEF IInv, AcsTyped
<1>2. OnWifi'
  BY DEF IInv, OnWifi
<1>3. \A r \in On(bus') : Fitting(r) /\ Sparing(r)
  BY DEF IInv, BusTyped
<1>4. \A r : Sparing(r) => Sparing(r)'
  BY DEF Sparing
<1> QED BY <1>1, <1>2, <1>3, <1>4 DEF BusTyped, Fitting

\* Nor does a connection with an id of its own, that takes its device over from the
\* one that had it.
LEMMA RisenKeeps ==
  ASSUME IInv, NEW kept \in SUBSET acs, NEW c \in Connections, c.id = FreshId,
         c.on # NoDevice => c.dev \in {c.on, NoDevice},
         \A d \in kept : c.on # NoDevice => d.on # c.on,
         c.on \in WifiDevices <=> c.profile.kind = "wifi",
         c.on = NoDevice <=> c.profile.kind = "vpn",
         acs' = kept \cup {c},
         bus' \in Seq(Requests), On(bus') \subseteq On(bus)
  PROVE  AcsTyped' /\ OnWifi' /\ BusTyped'
<1>1. FreshId \notin {d.id : d \in acs} /\ FreshId \notin Stops
  BY FreshIdIsNew
<1>2. AcsTyped'
  <2>1. IsFiniteSet(kept)
    BY FS_Subset DEF IInv, AcsTyped
  <2>2. IsFiniteSet(kept \cup {c})
    BY <2>1, FS_AddElement
  <2>3. \A d \in kept : Apart(c, d) /\ Apart(d, c)
    BY <1>1 DEF Apart
  <2>4. \A d, e \in kept : Apart(d, e)
    BY DEF IInv, AcsTyped
  <2>5. Apart(c, c)
    BY DEF Apart
  <2>6. \A d, e \in acs' : Apart(d, e)
    BY <2>3, <2>4, <2>5
  <2>7. acs' \subseteq Connections /\ \A d \in acs' : d.on # NoDevice => d.dev \in {d.on, NoDevice}
    BY DEF IInv, AcsTyped
  <2> QED BY <2>2, <2>6, <2>7 DEF AcsTyped
<1>3. OnWifi'
  BY DEF IInv, OnWifi
<1>4. \A r \in On(bus') : Fitting(r) /\ Sparing(r)
  BY DEF IInv, BusTyped
<1>5. ASSUME NEW r \in On(bus') PROVE Sparing(r)'
  <2>1. r.op = "deactivate" => r.id # c.id
    BY <1>1, StopsAreKnown
  <2> QED BY <1>4, <2>1 DEF Sparing
<1> QED BY <1>2, <1>3, <1>4, <1>5 DEF BusTyped, Fitting

\* Nor does one that goes on, as the connection it is.
LEMMA GoneOnKeeps ==
  ASSUME IInv, NEW c \in acs, NEW e \in Connections,
         e.id = c.id, e.on = c.on, e.profile = c.profile,
         IF e.on = NoDevice THEN e.dev = c.dev ELSE e.dev \in {e.on, NoDevice},
         acs' = (acs \ {c}) \cup {e}, bus' = bus
  PROVE  AcsTyped' /\ OnWifi' /\ BusTyped'
<1>1. \A d, f \in acs : Apart(d, f)
  BY DEF IInv, AcsTyped
<1>2. AcsTyped'
  <2>1. IsFiniteSet(acs \ {c})
    BY FS_Subset DEF IInv, AcsTyped
  <2>2. IsFiniteSet(acs')
    BY <2>1, FS_AddElement
  <2>3. \A d \in acs \ {c} : Apart(e, d) /\ Apart(d, e)
    BY <1>1 DEF Apart
  <2>4. Apart(e, e)
    BY DEF Apart
  <2>5. \A d, f \in acs' : Apart(d, f)
    BY <1>1, <2>3, <2>4
  <2>6. acs' \subseteq Connections /\ \A d \in acs' : d.on # NoDevice => d.dev \in {d.on, NoDevice}
    BY DEF IInv, AcsTyped
  <2> QED BY <2>2, <2>5, <2>6 DEF AcsTyped
<1>3. OnWifi'
  BY DEF IInv, OnWifi
<1>4. OverWifi(c) => OverWifi(e)
  BY DEF IInv, OnWifi, OverWifi
<1>5. \A r : Sparing(r) => Sparing(r)'
  BY <1>4 DEF Sparing, OverWifi
<1> QED BY <1>2, <1>3, <1>5 DEF IInv, BusTyped, Fitting

\* A connection that comes up for a request from the bus.
LEMMA RisingKeeps ==
  ASSUME IInv, NEW p \in Profiles, NEW d \in Interfaces,
         d \in WifiDevices <=> p.kind = "wifi", p.kind # "vpn", Rising(p, d),
         bus' \in Seq(Requests), On(bus') \subseteq On(bus)
  PROVE  AcsTyped' /\ OnWifi' /\ BusTyped'
<1>1. CASE acs' = acs
  BY <1>1, FewerKeeps
<1>2. CASE acs' # acs
  <2>1. PICK shown \in {d, NoDevice} :
           acs' = Without({c \in acs : c.on = d})
                  \cup {[id |-> FreshId, profile |-> p, dev |-> shown, on |-> d,
                         state |-> "activating"]}
    BY <1>2 DEF Rising
  <2> DEFINE e == [id |-> FreshId, profile |-> p, dev |-> shown, on |-> d, state |-> "activating"]
             kept == Without({c \in acs : c.on = d})
  <2>2. FreshId \in Nat
    BY FreshIdIsNew
  <2>3. e \in Connections
    BY <2>2 DEF Connections
  <2>4. e.id = FreshId /\ e.profile = p /\ e.dev \in {e.on, NoDevice} /\ e.on = d
    OBVIOUS
  <2>5. kept \in SUBSET acs /\ \A c \in kept : c.on # d
    BY DEF Without
  <2>7. d # NoDevice
    BY DevicesAssumption DEF DevicesAssumption, Interfaces
  <2>6. acs' = kept \cup {e}
    BY <2>1
  <2> HIDE DEF e, kept
  <2> QED BY <2>3, <2>4, <2>5, <2>6, <2>7, RisenKeeps
<1> QED BY <1>1, <1>2

LEMMA TakeKeeps == IInv /\ Take => IInv'
<1> SUFFICES ASSUME IInv, Take PROVE IInv'
  OBVIOUS
<1> DEFINE r == Head(bus)
<1>1. bus \in Seq(Requests) /\ bus # <<>> /\ bus' = Tail(bus)
  BY DEF Take, IInv, BusTyped
<1>2. r \in On(bus) /\ r \in Requests /\ bus' \in Seq(Requests) /\ On(bus') \subseteq On(bus)
  BY <1>1, OnTaken
<1>3. Fitting(r) /\ Sparing(r)
  BY <1>2 DEF IInv, BusTyped
<1>4. StackTyped' /\ HistoryTyped' /\ present' = present /\ air' = air
  BY DEF Take, IInv, StackTyped, HistoryTyped
<1>5. /\ r.op = "deactivate" => acs' \subseteq acs /\ saved' = saved
      /\ r.op = "disconnect" => acs' \subseteq acs /\ saved' = saved
      /\ r.op = "activate" => /\ saved' = saved
                              /\ acs' = acs \/ Rising(r.profile, r.dev)
      /\ r.op = "add" => Rising(r.profile, r.dev) /\ saved' = saved \cup {r.profile}
  BY DEF Take, Without
<1>6. /\ r.op \in {"deactivate", "disconnect", "activate", "add"}
      /\ r.op \in {"activate", "add"} => r.profile \in Profiles /\ r.dev \in Interfaces
  BY <1>2 DEF Requests
<1> HIDE DEF r
<1>7. WorldTyped'
  BY <1>4, <1>5, <1>6 DEF IInv, WorldTyped
<1>8. AcsTyped' /\ OnWifi' /\ BusTyped'
  <2>1. CASE acs' \subseteq acs
    BY <1>2, <2>1, FewerKeeps
  <2>2. CASE r.op \in {"activate", "add"} /\ Rising(r.profile, r.dev)
    <3>1. (r.dev \in WifiDevices <=> r.profile.kind = "wifi") /\ r.profile.kind # "vpn"
      BY <1>3, <2>2 DEF Fitting
    <3> QED BY <1>2, <1>6, <2>2, <3>1, RisingKeeps
  <2> QED BY <1>5, <1>6, <2>1, <2>2
<1> QED BY <1>4, <1>7, <1>8 DEF IInv

LEMMA ProgressKeeps == IInv /\ Progress => IInv'
<1> SUFFICES ASSUME IInv, Progress PROVE IInv'
  OBVIOUS
<1>1. PICK c \in acs :
         acs' = (acs \ {c}) \cup {IF c.on \notin {c.dev, NoDevice} THEN [c EXCEPT !.dev = c.on]
                                  ELSE [c EXCEPT !.state = "activated"]}
  BY DEF Progress
<1> DEFINE e == IF c.on \notin {c.dev, NoDevice} THEN [c EXCEPT !.dev = c.on]
                ELSE [c EXCEPT !.state = "activated"]
<1>2. c \in Connections
  BY DEF IInv, AcsTyped
<1>3. c.on # NoDevice => c.dev \in {c.on, NoDevice}
  BY DEF IInv, AcsTyped
<1>4. /\ e \in Connections
      /\ e.id = c.id /\ e.on = c.on /\ e.profile = c.profile
      /\ IF e.on = NoDevice THEN e.dev = c.dev ELSE e.dev \in {e.on, NoDevice}
  BY <1>2, <1>3 DEF Connections
<1>5. acs' = (acs \ {c}) \cup {e}
  BY <1>1
<1> HIDE DEF e
<1>6. bus' = bus /\ WorldTyped' /\ StackTyped' /\ HistoryTyped'
  BY DEF Progress, world, IInv, WorldTyped, StackTyped, HistoryTyped
<1>7. AcsTyped' /\ OnWifi' /\ BusTyped'
  BY <1>4, <1>5, <1>6, GoneOnKeeps
<1> QED BY <1>6, <1>7 DEF IInv

\* The changes that bring no connection.
LEMMA LossKeeps ==
  IInv /\ (ConnectionFails \/ AirChanges \/ RadioSwitched \/ Unplugged \/ ProfileDeleted) => IInv'
<1> SUFFICES ASSUME IInv, ConnectionFails \/ AirChanges \/ RadioSwitched \/ Unplugged \/ ProfileDeleted
             PROVE IInv'
  OBVIOUS
<1>1. Same /\ acs' \subseteq acs
  BY DEF ConnectionFails, AirChanges, RadioSwitched, Unplugged, ProfileDeleted, Without
<1>2. bus' = bus /\ StackTyped' /\ HistoryTyped'
  BY <1>1 DEF Same, IInv, StackTyped, HistoryTyped
<1>3. AcsTyped' /\ OnWifi' /\ BusTyped'
  BY <1>1, <1>2, FewerKeeps DEF IInv, BusTyped
<1>4. WorldTyped'
  <2>0. present \subseteq WifiDevices /\ air \in [WifiDevices -> SUBSET Ssids] /\ saved \subseteq Profiles
    BY DEF IInv, WorldTyped
  <2>1. CASE ConnectionFails
    BY <2>0, <2>1 DEF ConnectionFails, world, WorldTyped
  <2>2. CASE AirChanges
    BY <2>0, <2>2 DEF AirChanges, WorldTyped
  <2>3. CASE RadioSwitched
    BY <2>0, <2>3 DEF RadioSwitched, WorldTyped
  <2>4. CASE Unplugged
    BY <2>0, <2>4 DEF Unplugged, WorldTyped
  <2>5. CASE ProfileDeleted
    BY <2>0, <2>5 DEF ProfileDeleted, WorldTyped
  <2> QED BY <2>1, <2>2, <2>3, <2>4, <2>5
<1> QED BY <1>2, <1>3, <1>4 DEF IInv

LEMMA VpnKeeps == IInv /\ VpnComesUp => IInv'
<1> SUFFICES ASSUME IInv, VpnComesUp PROVE IInv'
  OBVIOUS
<1>1. PICK p \in {p \in saved : p.kind = "vpn"} :
         \E under \in {c.on : c \in {c \in acs : c.state = "activated"}} \cup {NoDevice} :
            acs' = acs \cup {[id |-> FreshId, profile |-> p, dev |-> under,
                             on |-> NoDevice, state |-> "activating"]}
  BY DEF VpnComesUp
<1>a. \A c \in acs : c.on \in Interfaces \cup {NoDevice}
  BY DEF IInv, AcsTyped, Connections
<1>b. PICK under \in Interfaces \cup {NoDevice} :
         acs' = acs \cup {[id |-> FreshId, profile |-> p, dev |-> under,
                          on |-> NoDevice, state |-> "activating"]}
  BY <1>1, <1>a
<1> DEFINE e == [id |-> FreshId, profile |-> p, dev |-> under, on |-> NoDevice,
                 state |-> "activating"]
<1>2. FreshId \in Nat /\ p \in Profiles
  BY FreshIdIsNew DEF IInv, WorldTyped
<1>3. e \in Connections
  BY <1>2 DEF Connections
<1>4. /\ e.id = FreshId /\ e.on = NoDevice /\ NoDevice \notin WifiDevices
      /\ e.profile.kind = "vpn"
  BY DevicesAssumption DEF DevicesAssumption
<1>5. acs' = acs \cup {e}
  BY <1>b
<1> HIDE DEF e
<1>6. bus' = bus /\ WorldTyped' /\ StackTyped' /\ HistoryTyped'
  BY DEF VpnComesUp, Same, world, IInv, WorldTyped, StackTyped, HistoryTyped
<1>7. AcsTyped' /\ OnWifi' /\ BusTyped'
  BY <1>3, <1>4, <1>5, <1>6, RisenKeeps DEF IInv, BusTyped
<1> QED BY <1>6, <1>7 DEF IInv

-----------------------------------------------------------------------------
(* The invariant holds.                                                    *)

LEMMA InitIInv == Init => IInv
<1> SUFFICES ASSUME Init PROVE IInv
  OBVIOUS
<1>1. PICK up \in [present -> (saved \cap WifiProfiles) \cup {NoProfile}] :
         acs = {[id |-> d, profile |-> up[d], dev |-> d, on |-> d, state |-> "activated"] :
                  d \in {d \in present : up[d] # NoProfile}}
  BY DEF Init
<1> DEFINE on == {d \in present : up[d] # NoProfile}
           f == [d \in on |-> [id |-> d, profile |-> up[d], dev |-> d, on |-> d, state |-> "activated"]]
<1>2. acs = {f[d] : d \in on}
  BY <1>1
<1>3. present \subseteq WifiDevices /\ saved \subseteq Profiles
  BY DEF Init
<1>4. \A d \in on : /\ d \in WifiDevices /\ d \in Nat
                    /\ up[d] \in Profiles /\ up[d].kind = "wifi"
  BY <1>3, DevicesAssumption DEF DevicesAssumption, WifiProfiles
<1>5. WorldTyped
  BY <1>3 DEF Init, WorldTyped
<1>6. IsFiniteSet(on)
  BY <1>3, DevicesAssumption, FS_Subset DEF DevicesAssumption
<1>7. \A d \in on : /\ f[d] \in Connections
                    /\ f[d].id = d /\ f[d].on = d /\ f[d].dev = d /\ f[d].profile.kind = "wifi"
  <2> HIDE DEF on
  <2> QED BY <1>4 DEF Connections, Interfaces
<1> HIDE DEF f, on
<1>8. AcsTyped
  <2>1. IsFiniteSet(acs)
    BY <1>2, <1>6, Image
  <2>2. \A c, d \in acs : Apart(c, d)
    BY <1>2, <1>7 DEF Apart
  <2> QED BY <1>2, <1>7, <2>1, <2>2 DEF AcsTyped
<1>9. OnWifi
  BY <1>2, <1>4, <1>7, DevicesAssumption DEF OnWifi, DevicesAssumption
<1>10. BusTyped
  BY OnFew DEF Init, BusTyped
<1>11. StackTyped /\ HistoryTyped
  BY FS_EmptySet DEF Init, StackTyped, HistoryTyped
<1> QED BY <1>5, <1>8, <1>9, <1>10, <1>11 DEF IInv

\* Every step of the applet and of NetworkManager keeps the invariant.
LEMMA StepIInv == IInv /\ [Next]_vars => IInv'
<1> SUFFICES ASSUME IInv, [Next]_vars PROVE IInv'
  OBVIOUS
<1>1. CASE Handlers
  BY <1>1, ConnectKeeps, DropKeeps, GoKeeps, ClickKeeps, UnpluggedUseKeeps DEF Handlers
<1>2. CASE NetworkManager
  BY <1>2, TakeKeeps, ProgressKeeps, LossKeeps, VpnKeeps DEF NetworkManager
<1>3. CASE UNCHANGED vars
  <2>1. /\ WorldTyped' /\ AcsTyped' /\ StackTyped' /\ HistoryTyped' /\ OnWifi'
        /\ acs' = acs /\ bus' = bus
    BY <1>3 DEF vars, world, IInv, WorldTyped, AcsTyped, StackTyped, HistoryTyped, OnWifi
  <2>2. BusTyped'
    BY <2>1, FewerKeeps DEF IInv, BusTyped
  <2> QED BY <2>1, <2>2 DEF IInv
<1> QED BY <1>1, <1>2, <1>3 DEF Next

LEMMA Invariance == Spec => []IInv
BY InitIInv, StepIInv, PTL DEF Spec

-----------------------------------------------------------------------------
(* The theorems.                                                           *)

LEMMA InvTyped == IInv => TypeOK
<1> SUFFICES ASSUME IInv PROVE TypeOK
  OBVIOUS
<1>1. /\ present \subseteq WifiDevices
      /\ \A d \in WifiDevices : air[d] \subseteq Ssids
  BY DEF IInv, WorldTyped
<1>2. \A c, d \in acs : c.id = d.id \/ (c.on = d.on /\ c.on # NoDevice) => c = d
  BY DEF IInv, AcsTyped, Apart
<1>3. \A i \in DOMAIN stack : stack[i] = Crashed
         \/ /\ stack[i].kind \in {"menu", "hidden", "hotspot"}
            /\ IF stack[i].at = "begun" THEN stack[i].dev = NoDevice ELSE stack[i].dev \in WifiDevices
  <2>1. \A i \in DOMAIN stack : stack[i] \in Frames \cup {Crashed}
    BY LenProperties, ElementOfSeq DEF IInv, StackTyped
  <2> QED BY <2>1 DEF Frames
<1>4. asked # NoCall => (asked.ok <=> asked.started # NoProfile)
  BY DEF IInv, HistoryTyped
<1>5. Stops \subseteq Nat
  <2>1. DOMAIN bus = 1..Len(bus) /\ \A i \in 1..Len(bus) : bus[i] \in Requests
    BY LenProperties, ElementOfSeq DEF IInv, BusTyped
  <2>2. \A r \in Requests : r.op = "deactivate" => r.id \in Nat
    BY DEF Requests
  <2> QED BY <2>1, <2>2 DEF Stops
<1> QED BY <1>1, <1>2, <1>3, <1>4, <1>5 DEF TypeOK

\* Whatever the devices, the networks and the profiles: NetworkManager holds one
\* connection of a device at a time, ids are not shared, a handler that pumps has a
\* Wi-Fi device, and one reports success just when it has asked for a connection
\* (NmData::connectHiddenWifi, createWifiHotspot).
THEOREM Typing == Spec => []TypeOK
BY Invariance, InvTyped, PTL

\* pickPrimaryWifiDevice's one pass over the devices finds the best of all of them:
\* connected before not connected, then the most access points, then the first.
THEOREM BestIsPrimary == Spec => []PrimaryIsBest
<1>1. IInv => PrimaryIsBest
  BY PrimaryIsFound DEF IInv
<1> QED BY <1>1, Invariance, PTL

\* A Wi-Fi click (deactivateWifiOnDevice, deactivateWifi) takes no wired connection
\* down, and no VPN but over Wi-Fi, whatever happens before NetworkManager comes to its
\* requests.
THEOREM OthersAreSpared == Spec => OthersSurvive
<1> DEFINE Spared == /\ Take /\ Head(bus).op = "deactivate" /\ Head(bus).by = "wifi"
                     => \A c \in acs \ acs' : OverWifi(c)
<1>1. IInv /\ [Next]_vars => [Spared]_vars
  <2> SUFFICES ASSUME IInv, Take, Head(bus).op = "deactivate", Head(bus).by = "wifi",
                      NEW c \in acs \ acs'
               PROVE  OverWifi(c)
    OBVIOUS
  <2>1. Head(bus) \in On(bus)
    BY OnTaken DEF Take, IInv, BusTyped
  <2>2. \A e \in acs : e.id = Head(bus).id => OverWifi(e)
    BY <2>1 DEF IInv, BusTyped, Sparing
  <2>3. acs' = Without({e \in acs : e.id = Head(bus).id})
    BY DEF Take
  <2>4. CASE c.id = Head(bus).id
    BY <2>2, <2>4
  <2>5. CASE c.id # Head(bus).id
    <3>1. PICK e \in acs : e.id = Head(bus).id /\ e.on = c.dev /\ c.dev # NoDevice
      BY <2>3, <2>5 DEF Without
    <3>2. e.on \in WifiDevices
      BY <2>2, <3>1 DEF IInv, OnWifi, OverWifi
    <3>3. c.on = NoDevice \/ c.on = c.dev
      BY <3>1 DEF IInv, AcsTyped
    <3> QED BY <3>1, <3>2, <3>3 DEF IInv, OnWifi, OverWifi
  <2> QED BY <2>4, <2>5
<1> QED BY <1>1, Invariance, PTL DEF Spec, OthersSurvive

-----------------------------------------------------------------------------
(* The notifier.                                                            *)

\* What is needed of the order in which NetworkManager reports: the global
\* state does not say "disconnected" while a connection is up or coming up.
StateKept ==
    \A c \in Conns :
        /\ dev[c] = "activated" => ac[c] \in {"activating", "activated"}
        /\ dev[c] = "activated" \/ ac[c] = "activated"
             => nmState \in {"connected", "connecting"}

\* Before the first refresh nothing has been told.
SeededFirst == ~seeded => told = None

-----------------------------------------------------------------------------
(* Lemmas.                                                                 *)

\* A refresh derives a connection or none.
LEMMA NamesType == NotifierTypeOK => PrimaryNames \subseteq Conns \cup {None}
  BY DEF NotifierTypeOK, PrimaryNames, PrimaryCandidates, Activating

\* A step of NetworkManager leaves libnm's view well-formed.
LEMMA ViewStep == NotifierTypeOK /\ ViewChanges => NotifierTypeOK'
<1> SUFFICES ASSUME NotifierTypeOK, ViewChanges PROVE NotifierTypeOK'
  OBVIOUS
<1> USE DEF NotifierTypeOK, Seen, notifier, tray
<1>1. CASE \E c \in Conns : DeviceChanges(c)
  BY <1>1 DEF DeviceChanges, DeviceMoves
<1>2. CASE \E c \in Conns : ActiveConnectionFollows(c)
  <2>1. PICK c \in Conns : ActiveConnectionFollows(c)
    BY <1>2
  <2>2. AcOf[dev[c]] \in {"none", "activating", "activated", "deactivating"}
    BY DEF AcOf
  <2> QED BY <2>1, <2>2 DEF ActiveConnectionFollows
<1>3. CASE PrimaryFollows
  BY <1>3 DEF PrimaryFollows, Activated
<1>4. CASE GlobalStateFollows
  BY <1>4 DEF GlobalStateFollows, StateOf
<1> QED BY <1>1, <1>2, <1>3, <1>4 DEF ViewChanges

\* A refresh leaves the notifier and the tray well-formed: the animation flag
\* of the tray follows its timer.
LEMMA RefreshTypes == NotifierTypeOK /\ Refresh => NotifierTypeOK'
<1> SUFFICES ASSUME NotifierTypeOK, Refresh PROVE NotifierTypeOK'
  OBVIOUS
<1>1. PICK n \in PrimaryNames : name' = n /\ UpdateFromData(n)
  BY DEF Refresh
<1>2. n \in Conns \cup {None}
  BY NamesType
<1>3. /\ seeded' \in BOOLEAN /\ hadConnection' \in BOOLEAN
      /\ lastName' \in Conns \cup {None} /\ told' \in Conns \cup {None}
  BY <1>1, <1>2 DEF UpdateFromData, NotifierTypeOK
<1>4. animTimer' \in BOOLEAN /\ animating' = animTimer'
  BY DEF Refresh, UpdateTrayState, IsTrayConnecting, NotifierTypeOK
<1>5. UNCHANGED <<dev, ac, primary, nmState>> /\ signal' = FALSE /\ unseen' = FALSE
  BY DEF Refresh, view
<1> QED BY <1>1, <1>2, <1>3, <1>4, <1>5 DEF NotifierTypeOK

\* A tick of the animation moves the tray only.
LEMMA TickTypes == NotifierTypeOK /\ ConnectAnimTick => NotifierTypeOK'
  BY DEF NotifierTypeOK, ConnectAnimTick, UpdateTrayState, IsTrayConnecting, view,
         notifier, tray

\* Only a refresh moves the notifier.
LEMMA OnlyRefreshTells ==
    [NotifierNext]_notifierVars => Refresh \/ UNCHANGED <<name, notifier>>
  BY DEF NotifierNext, ViewChanges, DeviceChanges, DeviceMoves,
         ActiveConnectionFollows, PrimaryFollows, GlobalStateFollows, Seen,
         ClientChanged, OtherRefresh, ConnectAnimTick, notifierVars

\* The order of NetworkManager's reports keeps the global state ahead.
LEMMA StateStep == NotifierTypeOK /\ StateKept /\ [NotifierNext]_notifierVars => StateKept'
<1> SUFFICES ASSUME NotifierTypeOK, StateKept, [NotifierNext]_notifierVars, NEW d \in Conns
             PROVE  /\ dev'[d] = "activated" => ac'[d] \in {"activating", "activated"}
                    /\ dev'[d] = "activated" \/ ac'[d] = "activated"
                         => nmState' \in {"connected", "connecting"}
  BY DEF StateKept
<1>1. CASE \E c \in Conns : DeviceChanges(c)
  <2>1. CASE \E c \in Conns : DeviceMoves(c, {"connecting"}, "activated")
    <3>1. PICK c \in Conns : DeviceMoves(c, {"connecting"}, "activated")
      BY <2>1
    <3>2. ac[c] = "activating"
      BY <3>1 DEF DeviceMoves, AcOf
    <3>3. nmState \in {"connected", "connecting"}
      BY <3>1, <3>2 DEF DeviceMoves, StateOf
    <3> QED BY <3>1, <3>2, <3>3 DEF DeviceMoves, StateKept, NotifierTypeOK
  <2>2. CASE \E c \in Conns : \E from : \E to : to # "activated" /\ DeviceMoves(c, from, to)
    BY <2>2 DEF DeviceMoves, StateKept, NotifierTypeOK
  <2> QED BY <1>1, <2>1, <2>2 DEF DeviceChanges
<1>2. CASE \E c \in Conns : ActiveConnectionFollows(c)
  <2>1. PICK c \in Conns : ActiveConnectionFollows(c)
    BY <1>2
  <2>2. AcOf[dev[c]] = "activated" <=> dev[c] = "activated"
    BY DEF AcOf, NotifierTypeOK
  <2> QED BY <2>1, <2>2 DEF ActiveConnectionFollows, StateKept, NotifierTypeOK
<1>3. CASE GlobalStateFollows
  BY <1>3 DEF GlobalStateFollows, StateOf, StateKept
<1>4. CASE UNCHANGED <<dev, ac, nmState>>
  BY <1>4 DEF StateKept
<1> QED BY <1>1, <1>2, <1>3, <1>4 DEF NotifierNext, ViewChanges, PrimaryFollows,
       ClientChanged, OtherRefresh, Refresh, ConnectAnimTick, view, notifierVars

-----------------------------------------------------------------------------
(* Theorems.                                                               *)

\* Types: the animation flag follows its timer, the notifier remembers
\* connections, whatever order NetworkManager reports in.
THEOREM NotifierTyping == NotifierSpec => []NotifierTypeOK
<1>1. NotifierInit => NotifierTypeOK
  BY DEF NotifierInit, NotifierTypeOK
<1>2. NotifierTypeOK /\ [NotifierNext]_notifierVars => NotifierTypeOK'
  <2>1. NotifierTypeOK /\ UNCHANGED notifierVars => NotifierTypeOK'
    BY DEF NotifierTypeOK, notifierVars, view, notifier, tray
  <2> QED BY <2>1, ViewStep, RefreshTypes, TickTypes DEF NotifierNext, ClientChanged,
         OtherRefresh
<1> QED BY <1>1, <1>2, PTL DEF NotifierSpec

\* While NmNotifier believes in a connection, its last message was about that
\* connection and it is the one NmData derived last.
THEOREM MessagesMatch == NotifierSpec => []ToldWhatItHas
<1>1. NotifierInit => ToldWhatItHas
  BY DEF NotifierInit, ToldWhatItHas
<1>2. ToldWhatItHas /\ [NotifierNext]_notifierVars => ToldWhatItHas'
  <2> SUFFICES ASSUME ToldWhatItHas, [NotifierNext]_notifierVars PROVE ToldWhatItHas'
    OBVIOUS
  <2>1. CASE Refresh
    <3>1. PICK n \in PrimaryNames : name' = n /\ UpdateFromData(n)
      BY <2>1 DEF Refresh
    <3> QED BY <3>1 DEF UpdateFromData, ToldWhatItHas
  <2>2. CASE UNCHANGED <<name, notifier>>
    BY <2>2 DEF ToldWhatItHas, notifier
  <2> QED BY <2>1, <2>2, OnlyRefreshTells
<1> QED BY <1>1, <1>2, PTL DEF NotifierSpec

\* "Connection lost" is never said while the connection announced last is up:
\* shouldNotifyConnectionLost waits for the global state, which does not say
\* "disconnected" as long as any connection is activated.
THEOREM LossesAreReal == NotifierSpec => LossIsReal
<1> DEFINE Step == told # None /\ told' = None => ac[told] # "activated"
<1>1. NotifierInit => StateKept /\ SeededFirst
  BY DEF NotifierInit, StateKept, SeededFirst
<1>2. SeededFirst /\ [NotifierNext]_notifierVars => SeededFirst'
  <2> SUFFICES ASSUME SeededFirst, [NotifierNext]_notifierVars PROVE SeededFirst'
    OBVIOUS
  <2>1. CASE Refresh
    BY <2>1 DEF Refresh, UpdateFromData, SeededFirst
  <2>2. CASE UNCHANGED <<name, notifier>>
    BY <2>2 DEF SeededFirst, notifier
  <2> QED BY <2>1, <2>2, OnlyRefreshTells
<1>3. NotifierTypeOK /\ StateKept /\ SeededFirst /\ [NotifierNext]_notifierVars => [Step]_notifierVars
  <2> SUFFICES ASSUME NotifierTypeOK, StateKept, SeededFirst, [NotifierNext]_notifierVars,
                      told # None, told' = None
               PROVE  ac[told] # "activated"
    OBVIOUS
  <2>1. Refresh
    BY OnlyRefreshTells DEF notifier
  <2>2. PICK n \in PrimaryNames : name' = n /\ UpdateFromData(n)
    BY <2>1 DEF Refresh
  <2>3. ShouldNotifyConnectionLost
    BY <2>2 DEF UpdateFromData, SeededFirst
  <2>4. nmState = "disconnected" /\ told \in Conns
    BY <2>3 DEF ShouldNotifyConnectionLost, NotifierTypeOK
  <2> QED BY <2>4 DEF StateKept
<1>4. NotifierSpec => []StateKept /\ []SeededFirst
  BY <1>1, <1>2, StateStep, NotifierTyping, PTL DEF NotifierSpec
<1> QED BY <1>3, <1>4, NotifierTyping, PTL DEF NotifierSpec, LossIsReal
=============================================================================
