------------------------------- MODULE MainMenu -------------------------------
(***************************************************************************)
(* The main menu: NmTrayPopup's rows, the fingerprint by which             *)
(* TrayController decides whether to build them again, the submenu of      *)
(* saved networks that holds a rebuild back, and the queue of clicks.      *)
(*                                                                         *)
(* A row names what it acts on by the index it had in NmData's list when   *)
(* the row was built.  Every refresh of NmData replaces the lists at once, *)
(* the rows follow from a timer, and a click is acted on from another.     *)
(*                                                                         *)
(* What a refresh may leave in NmData is a member of Snapshots.            *)
(***************************************************************************)
EXTENDS Naturals, Sequences, FiniteSets, SequencesExt, FiniteSetsExt

CONSTANTS
    Snapshots,   \* what NmData and NmClient may say
    NoName,      \* no connection, no name
    MaxQueue,    \* clicks waiting in m_pendingActions
    MaxClicks,
    MaxRefreshes,
    MaxShows

\* The lists of a snapshot are sequences.
IsList(list) == Len(list) \in Nat /\ DOMAIN list = 1..Len(list)

ASSUME SnapshotsAssumption ==
    \A s \in Snapshots :
        /\ IsList(s.available) /\ IsList(s.more)
        /\ IsList(s.vpn) /\ IsList(s.wiredSaved)

ASSUME QueueAssumption == MaxQueue \in Nat

VARIABLES
    data,       \* the snapshot NmData holds
    rows,       \* rows of the main popup, NoRows while it is hidden
    drawn,      \* m_lastWifiMenuFingerprint
    subRows,    \* rows of the submenu, NoRows while it is closed
    due,        \* m_menuUpdateTimer is active
    pending,    \* m_pendingActions
    draining,   \* executePendingActions is in its loop
    acted,      \* history: what the last click was for, and what it did
    drawnFrom,  \* history: the snapshots the rows and the submenu were built from
    budget      \* refreshes, clicks and showings left

popup == <<rows, drawn, subRows>>
vars == <<data, popup, due, pending, draining, acted, drawnFrom, budget>>

NoRows == <<>>
NoClick == [row |-> NoName, target |-> NoName, changed |-> FALSE]

Open == rows # NoRows
SubmenuOpen == subRows # NoRows

Row(kind, id, name, mark) == [kind |-> kind, id |-> id, name |-> name, mark |-> mark]
Label(kind) == Row(kind, <<"none", 0>>, NoName, FALSE)
NamesOf(items) == [i \in 1..Len(items) |-> items[i].name]

\* The k-th of a set of indices.
Nth(set, k) == CHOOSE i \in set : Cardinality({j \in set : j <= i}) = k

(***************************************************************************)
(* The rows                                                                *)
(***************************************************************************)
WiredRows(s) ==
    LET idle == {i \in 1..Len(s.wiredSaved) : ~s.wiredSaved[i].on}
    IN IF ~s.hasWired THEN <<>>
       ELSE IF ~s.net \/ s.wiredToggling \/ ~s.wired
               \/ (~s.plugged /\ s.activeWired = NoName)
            THEN <<Label("wired status")>>
            ELSE (IF s.activeWired = NoName THEN <<>>
                  ELSE <<Row("wired active", <<"none", 0>>, s.activeWired, s.wiredActivating)>>)
                 \o [k \in 1..Cardinality(idle) |->
                       Row("wired saved", <<"wired", Nth(idle, k)>>,
                           s.wiredSaved[Nth(idle, k)].name, FALSE)]

\* Mutant: the ids count the rows that act, not the items of the list.
AvailableRow_Counted(s, i) ==
    IF s.available[i].on
    THEN Row("connecting", <<"none", 0>>, s.available[i].name, FALSE)
    ELSE Row("available",
             <<"available", Cardinality({j \in 1..i : ~s.available[j].on})>>,
             s.available[i].name, FALSE)

\* A network that is being connected to has no action: its group takes the
\* default name "wifi_active", which the connected network's group has too.
AvailableRow(s, i) ==
    IF s.available[i].on
    THEN Row("connecting", <<"none", 0>>, s.available[i].name, FALSE)
    ELSE Row("available", <<"available", i>>, s.available[i].name, FALSE)

WifiRows(s) ==
    IF ~s.hasWifi THEN <<>>
    ELSE IF s.netToggling \/ ~s.net \/ s.wifiToggling \/ ~s.wifi
         THEN <<Label("wifi status")>>
         ELSE (IF s.active = NoName THEN <<>>
               ELSE <<Row("active", <<"disconnect", 0>>, s.active, TRUE)>>)
              \o [i \in 1..Len(s.available) |-> AvailableRow(s, i)]
              \o (IF s.available = <<>> /\ s.more = <<>> /\ s.active = NoName
                  THEN <<Label("none in range")>> ELSE <<>>)
              \o (IF s.more = <<>> THEN <<>> ELSE <<Label("saved networks")>>)

VpnRows(s) ==
    [i \in 1..Len(s.vpn) |->
        Row("vpn", <<"vpn", i>>, s.vpn[i].name, s.vpn[i].on)]

FootRows(s) ==
    IF ~s.hasWifi THEN <<>>
    ELSE <<Row("hidden", <<"hidden", 0>>, NoName, TRUE),
           Row("create", <<"create", 0>>, NoName, s.canCreate)>>

\* NmTrayPopup::fillMain.
MainRows(s) ==
    IF ~s.running THEN <<Label("not running")>>
    ELSE <<Label("top")>> \o WiredRows(s) \o WifiRows(s) \o VpnRows(s) \o FootRows(s)

\* NmTrayPopup::fillSavedSubmenu.
SavedRows(s) ==
    [i \in 1..Len(s.more) |-> Row("more", <<"more", i>>, s.more[i], FALSE)]

Clickable(r) == r.id[1] # "none" /\ (r.kind = "create" => r.mark)

(***************************************************************************)
(* Whether to build them again                                             *)
(***************************************************************************)
\* Mutant: the fingerprint holds the networks, not their order.
Fingerprint_Unordered(s) ==
    [available |-> Range(NamesOf(s.available)), more |-> s.more,
     wifiToggling |-> s.wifiToggling, netToggling |-> s.netToggling,
     net |-> s.net, wifi |-> s.wifi,
     wired |-> s.activeWired, vpn |-> Len(s.vpn)]

Fingerprint(s) ==
    [available |-> NamesOf(s.available), more |-> s.more,
     wifiToggling |-> s.wifiToggling, netToggling |-> s.netToggling,
     net |-> s.net, wifi |-> s.wifi,
     wired |-> s.activeWired, vpn |-> Len(s.vpn)]

\* NmTrayPopup::refreshWifiSignalLevels: the widgets named "wifi_active" take
\* the name of the connected network; the other rows get icons and bars only.
InPlace(rs, s) ==
    IF s.active = NoName THEN rs
    ELSE [i \in DOMAIN rs |->
            IF rs[i].kind \in {"active", "connecting"}
            THEN [rs[i] EXCEPT !.name = s.active] ELSE rs[i]]

\* TrayController::scheduleMainMenuUpdate.
Scheduled == due' = (due \/ Open)

(***************************************************************************)
(* Actions                                                                 *)
(***************************************************************************)
Spend(field) == budget[field] > 0 /\ budget' = [budget EXCEPT ![field] = @ - 1]

\* TrayController::onClientChanged to onDataRefreshed: a signal of libnm, from
\* the toolkit's loop or from a pump of the loop that acts on clicks.
Refresh ==
    /\ Spend("refreshes")
    /\ data' \in Snapshots
    /\ Scheduled
    /\ UNCHANGED <<popup, pending, draining, acted, drawnFrom>>

\* Mutant: hideEvent does not close the submenu.
Hidden_LeavesSubmenu ==
    /\ rows' = NoRows
    /\ UNCHANGED <<drawn, subRows>>
    /\ drawnFrom' = [drawnFrom EXCEPT !.main = NoName]

Hidden ==
    /\ rows' = NoRows /\ subRows' = NoRows
    /\ UNCHANGED drawn
    /\ drawnFrom' = [main |-> NoName, sub |-> NoName]

Shown(s) ==
    /\ rows' = MainRows(s) /\ subRows' = NoRows
    /\ drawn' = Fingerprint(s)
    /\ drawnFrom' = [main |-> s, sub |-> NoName]

\* TrayController::showMainMenu: pump, refresh, build, take the fingerprint.
ShowMainMenu ==
    /\ ~Open /\ ~draining
    /\ Spend("shows")
    /\ \E s \in Snapshots : data' = s /\ Shown(s)
    /\ UNCHANGED <<due, pending, draining, acted>>

\* The pointer left (onCloseTimer), a click outside, the other menu.
HideMenu ==
    /\ Open /\ ~draining
    /\ Hidden
    /\ UNCHANGED <<data, due, pending, draining, acted, budget>>

\* NmTrayPopup::openSavedSubmenu.
OpenSubmenu ==
    /\ ~draining /\ ~SubmenuOpen
    /\ \E i \in DOMAIN rows : rows[i].kind = "saved networks"
    /\ subRows' = SavedRows(data)
    /\ drawnFrom' = [drawnFrom EXCEPT !.sub = data]
    /\ UNCHANGED <<data, rows, drawn, due, pending, draining, acted, budget>>

\* The pointer left the submenu, or came to another row of the menu.
CloseSubmenu ==
    /\ ~draining /\ SubmenuOpen
    /\ subRows' = NoRows
    /\ drawnFrom' = [drawnFrom EXCEPT !.sub = NoName]
    /\ UNCHANGED <<data, rows, drawn, due, pending, draining, acted, budget>>

\* Mutant: an open submenu does not hold the rebuild back.
UpdateTimeout_Eager ==
    /\ due /\ ~draining
    /\ due' = FALSE
    /\ IF ~Open THEN UNCHANGED <<popup, drawnFrom>>
       ELSE IF Fingerprint(data) # drawn THEN Shown(data)
       ELSE /\ rows' = InPlace(rows, data)
            /\ UNCHANGED <<drawn, subRows, drawnFrom>>
    /\ UNCHANGED <<data, pending, draining, acted, budget>>

\* Mutant: the timer is not started again while the submenu is open.
UpdateTimeout_Once ==
    /\ due /\ ~draining
    /\ due' = FALSE
    /\ IF ~Open \/ SubmenuOpen THEN UNCHANGED <<popup, drawnFrom>>
       ELSE IF Fingerprint(data) # drawn THEN Shown(data)
       ELSE /\ rows' = InPlace(rows, data)
            /\ UNCHANGED <<drawn, subRows, drawnFrom>>
    /\ UNCHANGED <<data, pending, draining, acted, budget>>

\* TrayController::onMainMenuUpdateTimeout.
UpdateTimeout ==
    /\ due /\ ~draining
    /\ IF ~Open
       THEN due' = FALSE /\ UNCHANGED <<popup, drawnFrom>>
       ELSE IF SubmenuOpen
       THEN UNCHANGED <<due, popup, drawnFrom>>
       ELSE /\ due' = FALSE
            /\ IF Fingerprint(data) # drawn THEN Shown(data)
               ELSE /\ rows' = InPlace(rows, data)
                    /\ UNCHANGED <<drawn, subRows, drawnFrom>>
    /\ UNCHANGED <<data, pending, draining, acted, budget>>

KeepsOpen(id) == id[1] \in {"available", "more", "wired"}

\* NmTrayPopup::triggerAction: the id is queued, the submenu closes, and the
\* popup too unless the click connects.
Click ==
    /\ ~draining /\ Len(pending) < MaxQueue
    /\ Spend("clicks")
    /\ \E sub \in BOOLEAN : \E r \in Range(IF sub THEN subRows ELSE rows) :
        /\ Clickable(r)
        /\ pending' = Append(pending,
              [row |-> r, from |-> IF sub THEN drawnFrom.sub ELSE drawnFrom.main])
        /\ IF KeepsOpen(r.id)
           THEN /\ subRows' = NoRows
                /\ drawnFrom' = [drawnFrom EXCEPT !.sub = NoName]
                /\ UNCHANGED <<rows, drawn>>
           ELSE Hidden
    /\ UNCHANGED <<data, due, draining, acted>>

\* The item an id means now: lookupMenuItem, connectWifiAvailable,
\* connectWifiSavedOutOfRange.  An index past the list's end means nothing.
ListFor(s, kind) ==
    CASE kind = "available" -> s.available
      [] kind = "more" -> [i \in 1..Len(s.more) |-> [name |-> s.more[i], on |-> FALSE]]
      [] kind = "wired" -> s.wiredSaved
      [] kind = "vpn" -> s.vpn
      [] OTHER -> <<>>

Kinds == {"available", "more", "wired", "vpn"}

Meant(s, id) ==
    LET list == ListFor(s, id[1])
    IN IF id[2] \in DOMAIN list THEN list[id[2]] ELSE [name |-> NoName, on |-> FALSE]

\* What acting on an item does: onPopupItemActivated takes an active one down.
EffectOn(item, id) ==
    IF id[1] \in {"wired", "vpn"} /\ item.on
    THEN <<"down", item.name>> ELSE <<"up", item.name>>

\* The handlers that end in a refresh of their own.
Refreshes(s, id) ==
    id[1] \in {"disconnect", "hidden", "create"}
    \/ (id[1] \in {"available", "more"} /\ Meant(s, id).name # NoName)

\* TrayController::executePendingActions takes the first id.
Execute ==
    /\ pending # <<>>
    /\ LET id == Head(pending).row.id
           item == Meant(data, id) IN
       /\ IF Refreshes(data, id)
          THEN data' \in Snapshots /\ Scheduled
          ELSE UNCHANGED <<data, due>>
       /\ acted' = IF item.name = NoName THEN NoClick
                   ELSE [row |-> Head(pending).row, target |-> EffectOn(item, id),
                         changed |-> \E k \in Kinds :
                            NamesOf(ListFor(data, k)) # NamesOf(ListFor(Head(pending).from, k))]
    /\ pending' = Tail(pending)
    /\ draining' = (Tail(pending) # <<>>)
    /\ UNCHANGED <<popup, drawnFrom, budget>>

Init ==
    /\ data \in Snapshots
    /\ rows = NoRows /\ subRows = NoRows
    /\ drawn = NoName
    /\ due = FALSE
    /\ pending = <<>> /\ draining = FALSE
    /\ acted = NoClick
    /\ drawnFrom = [main |-> NoName, sub |-> NoName]
    /\ budget = [refreshes |-> MaxRefreshes, clicks |-> MaxClicks, shows |-> MaxShows]

Next ==
    \/ Refresh \/ UpdateTimeout
    \/ ShowMainMenu \/ HideMenu \/ OpenSubmenu \/ CloseSubmenu
    \/ Click \/ Execute

\* The toolkit's timers fire.
Fairness == WF_vars(UpdateTimeout) /\ WF_vars(Execute)

Spec == Init /\ [][Next]_vars
FairSpec == Spec /\ Fairness

(***************************************************************************)
(* Properties                                                              *)
(***************************************************************************)
RowKinds == {"top", "not running", "wired status", "wired active", "wired saved",
             "wifi status", "active", "connecting", "available", "none in range",
             "saved networks", "vpn", "hidden", "create", "more"}

\* Type invariant.  The submenu is open only over an open menu
\* (closeSubPopup in hideEvent), and a hidden popup has no rows.
TypeOK ==
    /\ data \in Snapshots
    /\ \A r \in Range(rows) : r.kind \in RowKinds \ {"more"}
    /\ \A r \in Range(subRows) : r.kind = "more"
    /\ SubmenuOpen => Open
    /\ due \in BOOLEAN /\ draining \in BOOLEAN
    /\ Len(pending) <= MaxQueue

RowsOf(kinds) == {i \in DOMAIN rows : rows[i].kind \in kinds}

Listed == RowsOf({"connecting", "available", "saved networks"}) # {}

Aligned ==
    /\ \A i \in RowsOf({"available"}) : Meant(data, rows[i].id).name = rows[i].name
    /\ \A i \in RowsOf({"vpn"}) : rows[i].id[2] \in DOMAIN data.vpn
    /\ Listed => /\ Cardinality(RowsOf({"connecting", "available"})) = Len(data.available)
                 /\ (RowsOf({"saved networks"}) = {}) <=> (data.more = <<>>)

\* Once the update timer has run, each network of the open menu is the one its
\* id means, and the menu has a row for each network in range: the fingerprint
\* sees every change of the lists the ids of Wi-Fi rows point into, through any
\* number of refreshes, radio switches and showings.
RowsMatchLists == Open /\ ~due => Aligned

\* A click misses the network its row names only if the lists have changed
\* since the row was built: ids count the items of the list and not the rows,
\* in the menu as in the submenu.
OnlyAChangeMisleads ==
    acted # NoClick /\ ~acted.changed => acted.target[2] = acted.row.name

\* The menu is never built again under an open submenu: what the user points
\* at stays, and the submenu closes only when the user leaves or clicks.
SubmenuHoldsMenu ==
    [][SubmenuOpen /\ Open' => rows' = rows]_vars

\* A menu that shows other networks than there are does not stay so: the update
\* that an open submenu put off comes after it.
MenuCatchesUp ==
    (Open /\ ~SubmenuOpen /\ ~Aligned) ~> (~Open \/ SubmenuOpen \/ Aligned)
===============================================================================
