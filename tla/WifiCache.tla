------------------------------ MODULE WifiCache ------------------------------
(***************************************************************************)
(* NmData::rebuildWifi: the list of networks in range, the cache behind it *)
(* and the list of saved networks out of range.  Every refresh reads one   *)
(* libnm snapshot of the access points, which may be partial, merges it    *)
(* into a cache by SSID, drops what has been missed too often, sorts, and  *)
(* caps the list in favour of what it showed before.                       *)
(*                                                                         *)
(* An SSID is a number, because TQMap iterates in the order of its keys.   *)
(* An access point is <<SSID, n>>, a profile too.                          *)
(***************************************************************************)
EXTENDS Naturals, Sequences, FiniteSets, FiniteSetsExt

CONSTANTS
    Ssids,        \* numbers from 1 up
    Aps,          \* the access points there may be
    Profiles,     \* the Wi-Fi profiles there may be
    MaxStrength,
    MaxShown,     \* rows of the menu, the connected network included (8)
    PruneAfter,   \* misses after which a network leaves the cache (3)
    MaxAbsent     \* bound: refreshes counted in absent

ASSUME CacheAssumption ==
    /\ Ssids \subseteq Nat \ {0} /\ IsFiniteSet(Ssids)
    /\ Aps \subseteq Ssids \X Nat /\ Profiles \subseteq Ssids \X Nat
    /\ MaxStrength \in Nat \ {0}
    /\ MaxShown \in Nat \ {0, 1}
    /\ PruneAfter \in Nat \ {0}
    /\ MaxAbsent \in Nat /\ PruneAfter <= MaxAbsent

VARIABLES
    strength,    \* the snapshot: strength[a], 0 if a is not in it
    saved,       \* the profiles NetworkManager has
    active,      \* the profile of the active Wi-Fi connection
    activating,  \* SSID of m_activatingWifiItem
    usable,      \* there is a client and a device, and the radio is on
    scanning,    \* m_wifiScanActive
    cache,       \* m_wifiNetworkCache with m_wifiCacheMisses
    available,   \* m_wifiAvailable
    savedOut,    \* m_wifiSavedOutOfRange
    fresh,       \* history: nothing has changed since the last refresh
    absent       \* history: refreshes in a row in which an SSID was not seen,
                 \* or seen as the connected one only

env == <<strength, saved, active, activating, usable, scanning>>
lists == <<cache, available, savedOut>>
history == <<fresh, absent>>
vars == <<env, lists, history>>

NoSsid == 0
NoProfile == <<0, 0>>
SsidOf(x) == x[1]

Entry == [strength : 1..MaxStrength, profile : Profiles \cup {NoProfile},
          misses : 0..(PruneAfter - 1)]
Item == [name : Ssids, strength : 1..MaxStrength,
         profile : Profiles \cup {NoProfile}, activating : BOOLEAN]

EnvOK ==
    /\ strength \in [Aps -> 0..MaxStrength]
    /\ saved \subseteq Profiles
    /\ active \in saved \cup {NoProfile}
    /\ activating \in Ssids \cup {NoSsid}
    /\ usable \in BOOLEAN /\ scanning \in BOOLEAN

CacheOK == DOMAIN cache \subseteq Ssids /\ \A s \in DOMAIN cache : cache[s] \in Entry

ListsOK ==
    /\ available \in Seq(Item)
    /\ savedOut \subseteq Profiles
    /\ fresh \in BOOLEAN /\ absent \in [Ssids -> 0..MaxAbsent]

TypeOK == EnvOK /\ CacheOK /\ ListsOK

-----------------------------------------------------------------------------
(* The parts of rebuildWifi.                                               *)

Seen == {a \in Aps : strength[a] > 0}
InScan == {SsidOf(a) : a \in Seen}
Connected == active # NoProfile
ActiveSsid == SsidOf(active)

\* savedConnectionForAccessPoint: the first profile that fits.
ProfileFor(s) ==
    LET fitting == {p[2] : p \in {q \in saved : SsidOf(q) = s}}
    IN IF fitting = {} THEN NoProfile ELSE <<s, Min(fitting)>>

\* The strongest access point of each SSID but the connected one.
BestBySsid ==
    [s \in InScan \ {ActiveSsid} |->
        [strength |-> Max({strength[a] : a \in {b \in Aps : SsidOf(b) = s}}),
         profile |-> ProfileFor(s), misses |-> 0]]

\* Mutant: a network that is seen again keeps the misses it had.
MergedWith_KeepsMisses(best) ==
    [s \in DOMAIN cache \cup DOMAIN best |->
        IF s \notin DOMAIN best THEN cache[s]
        ELSE IF s \notin DOMAIN cache THEN best[s]
        ELSE [best[s] EXCEPT !.misses = cache[s].misses]]

MergedWith(best) ==
    [s \in DOMAIN cache \cup DOMAIN best |->
        IF s \in DOMAIN best THEN best[s] ELSE cache[s]]

\* A snapshot of one access point says nothing, nor does one during a scan.
AllowPrune == ~scanning /\ Cardinality(Seen) > 1

\* Mutant: counts one miss too many before a network goes.
PrunedOf_OneLate(merged, found) ==
    LET missed == DOMAIN merged \ found
        stale == {s \in missed : s = ActiveSsid \/ merged[s].misses + 1 > PruneAfter}
    IN [s \in DOMAIN merged \ stale |->
           IF s \in missed THEN [merged[s] EXCEPT !.misses = @ + 1] ELSE merged[s]]

\* Cached networks that the snapshot lacks count a miss, or go.
PrunedOf(merged, found) ==
    LET missed == DOMAIN merged \ found
        stale == {s \in missed : s = ActiveSsid \/ merged[s].misses + 1 >= PruneAfter}
    IN [s \in DOMAIN merged \ stale |->
           IF s \in missed THEN [merged[s] EXCEPT !.misses = @ + 1] ELSE merged[s]]

NewCache ==
    LET best == BestBySsid
        merged == MergedWith(best)
    IN IF AllowPrune THEN PrunedOf(merged, DOMAIN best) ELSE merged

ItemOf(c, s) ==
    [name |-> s, strength |-> c[s].strength, profile |-> c[s].profile,
     activating |-> s = activating]

\* The k-th of a set of numbers, and the elements of a list at a set of indices.
Nth(set, k) == CHOOSE n \in set : Cardinality({m \in set : m <= n}) = k
Picked(list, set) == [k \in 1..Cardinality(set) |-> list[Nth(set, k)]]

\* Mutant: the connected network is listed as well.
ListOf_WithActive(c) == [k \in 1..Cardinality(DOMAIN c) |-> ItemOf(c, Nth(DOMAIN c, k))]

\* The cache in the order of its keys.
ListOf(c) ==
    LET listed == DOMAIN c \ {ActiveSsid}
    IN [k \in 1..Cardinality(listed) |-> ItemOf(c, Nth(listed, k))]

Better(x, y) ==
    \/ x.activating /\ ~y.activating
    \/ x.activating = y.activating /\ x.strength > y.strength

\* The exchange sort of the code, in its order of comparisons: pass i brings the best
\* of the rest to position i.
Exchange(list, i, j) ==
    IF Better(list[j], list[i]) THEN [list EXCEPT ![i] = list[j], ![j] = list[i]] ELSE list

Pass(list, i) ==
    LET upTo[j \in i..Len(list)] ==
            IF j = i THEN list ELSE Exchange(upTo[j - 1], i, j)
    IN upTo[Len(list)]

Sorted(list) ==
    LET after[i \in 0..Len(list)] == IF i = 0 THEN list ELSE Pass(after[i - 1], i)
    IN after[Len(list)]

Names(list) == {list[i].name : i \in DOMAIN list}

MaxAvailable == IF Connected THEN MaxShown - 1 ELSE MaxShown

\* Mutant: the strongest first, whatever was shown.
Capped_StrongestOnly(list, previous) ==
    SubSeq(list, 1, Min({Len(list), MaxAvailable}))

\* What was shown comes first and in its old order, if there is not room for all.
Capped(list, previous) ==
    LET Find(name) == list[CHOOSE i \in DOMAIN list : list[i].name = name]
        before == Picked(previous, {i \in DOMAIN previous : previous[i].name \in Names(list)})
        kept == [i \in DOMAIN before |-> Find(before[i].name)]
        others == Picked(list, {i \in DOMAIN list : list[i].name \notin Names(kept)})
    IN IF Len(list) <= MaxAvailable THEN list
       ELSE SubSeq(kept \o others, 1, MaxAvailable)

\* Mutant: looks at the shown rows instead of the cache.
OutOfRange_NotShown(c) ==
    {p \in saved \ {active} : SsidOf(p) \notin Names(available)}

OutOfRange(c) ==
    {p \in saved \ {active} : SsidOf(p) \notin DOMAIN c \cup InScan}

-----------------------------------------------------------------------------
Empty == [s \in {} |-> 0]

Init ==
    /\ strength = [a \in Aps |-> 0]
    /\ saved \in SUBSET Profiles
    /\ active = NoProfile /\ activating = NoSsid
    /\ usable = TRUE /\ scanning = FALSE
    /\ cache = Empty /\ available = <<>> /\ savedOut = {}
    /\ fresh = FALSE /\ absent = [s \in Ssids |-> 0]

CountAbsent ==
    absent' = [s \in Ssids |-> IF s \in InScan \ {ActiveSsid} THEN 0
                              ELSE IF absent[s] < MaxAbsent THEN absent[s] + 1
                              ELSE absent[s]]

RebuildWifi ==
    /\ IF usable
       THEN /\ cache' = NewCache
            /\ available' = Capped(Sorted(ListOf(cache')), available)
            /\ savedOut' = OutOfRange(cache')
       ELSE cache' = Empty /\ available' = <<>> /\ savedOut' = {}
    /\ fresh' = TRUE
    /\ CountAbsent
    /\ UNCHANGED env

-----------------------------------------------------------------------------
(* What happens between two refreshes.                                     *)

Stale == fresh' = FALSE /\ UNCHANGED <<lists, absent>>

ApChanges ==
    /\ \E a \in Aps, n \in 0..MaxStrength : strength' = [strength EXCEPT ![a] = n]
    /\ Stale /\ UNCHANGED <<saved, active, activating, usable, scanning>>

ConnectionChanges ==
    /\ \/ active' \in saved \cup {NoProfile} /\ UNCHANGED activating
       \/ activating' \in {SsidOf(p) : p \in saved} \cup {NoSsid} /\ UNCHANGED active
    /\ Stale /\ UNCHANGED <<strength, saved, usable, scanning>>

\* The profile of a connection that runs cannot be deleted under it.
ProfileChanges ==
    /\ \E p \in Profiles \ {active} :
          saved' = IF p \in saved THEN saved \ {p} ELSE saved \cup {p}
    /\ Stale /\ UNCHANGED <<strength, active, activating, usable, scanning>>

RadioChanges ==
    /\ usable' = ~usable
    /\ Stale /\ UNCHANGED <<strength, saved, active, activating, scanning>>

ScanSessionChanges ==
    /\ scanning' = ~scanning
    /\ Stale /\ UNCHANGED <<strength, saved, active, activating, usable>>

Next ==
    \/ RebuildWifi
    \/ ApChanges \/ ConnectionChanges \/ ProfileChanges
    \/ RadioChanges \/ ScanSessionChanges

Spec == Init /\ [][Next]_vars

-----------------------------------------------------------------------------
(* Properties.                                                             *)

\* No network has two rows, none has a row and is offered as out of range,
\* and the menu never has more rows than it may have.
ListedOnce ==
    /\ Cardinality(Names(available)) = Len(available)
    /\ \A p \in savedOut : SsidOf(p) \notin Names(available)
    /\ Len(available) <= MaxShown

\* After a refresh every network in range and every saved network can be
\* reached: it is connected, has a row, is offered as out of range, or the rows
\* are used up; the connected one is not offered a second time.
ReachableAfterRefresh ==
    fresh /\ usable =>
        LET networks == (InScan \cup {SsidOf(p) : p \in saved}) \ {ActiveSsid}
        IN /\ ActiveSsid \notin Names(available)
           /\ Len(available) < MaxAvailable =>
                 \A s \in networks :
                    \/ s \in Names(available)
                    \/ \A p \in saved : SsidOf(p) = s => p \in savedOut
           /\ InScan \cap {SsidOf(p) : p \in savedOut} = {}

\* A network that is neither connected nor cut off with the radio leaves the
\* cache only after PruneAfter refreshes in a row without it, however partial
\* the snapshots are, whatever scans and connections come in between.  (While it
\* is connected the code skips it before it resets the misses: sightings of that
\* time do not count.)
LeavesOnlyAfter(n) ==
    usable =>
        \A s \in DOMAIN cache \ (DOMAIN cache' \cup {ActiveSsid}) : absent'[s] >= n

PrunedOnlyIfMissed == [][LeavesOnlyAfter(PruneAfter)]_vars

\* A network that is shown and stays in the cache keeps its row: a refresh
\* pushes no row out of the open menu, not even when the number of rows shrinks
\* because one of them gets connected.
ShownStaysShown ==
    [][usable =>
         \A i \in DOMAIN available :
            LET name == available[i].name
            IN \/ name \in Names(available') \cup {ActiveSsid}
               \/ name \notin DOMAIN cache'
               \/ Connected /\ ActiveSsid \notin Names(available)
                     /\ Len(available) > MaxAvailable]_vars
=============================================================================
