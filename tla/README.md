# nm-tray-tde in TLA+

nm-tray-tde is a NetworkManager applet for the Trinity desktop. It is a C++
program of one thread that mixes two event loops: TQt3's for timers, menus and
dialogs, and GLib's main context, through which libnm delivers NetworkManager's
D-Bus signals. This directory models the program's control logic, checks it
with TLC and proves part of it with TLAPS. Paths below are relative to
`src/src/` unless they start with `src/`.

## 1. Why the program is hard

`NmEventPump::pump` (`nm/nmeventpump.cpp:13-17`) drains the GLib context. A
30 ms timer calls it, and so does **almost every handler, in the middle of its
work**. What a pump drains runs to its end before the handler goes on:

* a libnm signal runs `TrayController::onClientChanged`, which pumps too;
* a secret request runs the agent (`nm/nmsecretagent.c:303`), which answers with
  a **modal dialog**, hence a nested TQt event loop in which the poll timers
  fire and tray icons and popup rows may be clicked;
* the connection editor waits for NetworkManager in loops that call
  `processEvents` (`connectioneditorutil.cpp:90`, `connectioneditordialog.cpp:178`).

So handlers never run in parallel, but they nest in any order. A handler that
tested something before its pump acts on it after the pump. This is the hazard
of most of the code, no test covers it, and the models are built around it: a
handler is split into one action up to each pump and one after it, and a control
stack holds what is interrupted.

The other difficulties are NetworkManager's: it reports one state change as
several property changes, some without a signal the applet listens to; it may
refuse or ignore a request, or answer after the applet has given up.

## 2. Inventory

| Component | Source | State | Operations | Made correct by |
|---|---|---|---|---|
| Wi-Fi scan session | `nmdata.cpp`, `traycontroller.cpp` | `m_wifiScanActive`, `...UserRequested`, `...StartedMs`; poll timer and count | menu open, "request scan", startup scan, poll, retry, finish, connect | an active session is polled and ends; retries are bounded; a session is not given up early |
| Quick toggles | `traycontroller.cpp`, `traypopup.cpp` | per switch: toggling, target, poll timer and count; rows; queue of clicks | click, request, poll, `onClientChanged`, give up, refill of the rows | one request at a time, each ends; the rows tell the truth |
| Primary connection, notifier, animation | `nmdata.cpp`, `nmnotifier.cpp`, `traycontroller.cpp`, `nmtray.cpp` | primary name; `m_seeded`, `m_hadConnection`, `m_lastConnectionName`; animation timer and flag | `refresh`, `updateFromData`, `updateTrayState`, `onConnectAnimTick` | messages match what happened; the animation ends |
| Event pump | `nm/nmeventpump.cpp` | interval timer | `pump`, `pumpRepeated`, `pumpUi` | see section 1 |
| NmClient | `nm/nmclient.cpp` | libnm client, signal handlers of the devices, agent | connect and disconnect signals, switches, scan, activate, deactivate | no device is watched twice or after its removal |
| Main menu and popups | `traycontroller.cpp`, `traypopup.cpp` | row ids, fingerprint, rebuild timer, submenu, queue of actions | show, rebuild, trigger, hide | a click acts on the row that was shown |
| Wi-Fi list and cache | `nmdata.cpp:903-1155`, `wifiutil.cpp` | cache by SSID, misses, two lists | `rebuildWifi` | a network in range is shown once and can be reached, one that is shown keeps its row, a vanished one is pruned |
| Activation | `nmdata.cpp:60-219, 1287-1428, 1625-1809`, `nm/nmclient.cpp:353-507` | none of its own | connect, disconnect, hidden network, hotspot | the running connection is given up only for a new one |
| Secret agent | `nm/nmsecretagent.c`, `secretsdialog.cpp` | none between calls | get, cancel, save, delete secrets | every request is answered once |
| Connection editor and profile editors | `connectioneditor*.cpp`, `*connectioneditordialog.cpp`, `wifisecurity.cpp`, `ipv4config.cpp` | the edited `NMConnection` | add, edit, delete, apply a form | a refused form leaves the profile as it was |
| Hidden-network and hotspot dialogs | `hiddenwifidialog.cpp`, `createwifidialog.cpp` | form | accept | as Activation |
| Connection information, icons, shell | `connectioninfo*.cpp`, `icons.cpp`, `nm_icons.h`, `main.cpp`, `trayapp.cpp` | none | formatting, image data, start | - |

**Interaction.** `NmClient` turns libnm's signals into `changed()`.
`TrayController::onClientChanged` pumps, ends the toggles that are reached and
calls `NmData::refresh`, which rebuilds every list and emits `refreshed()`.
`onDataRefreshed` updates tray icon, notifier and main menu. Popups append row
ids to `m_pendingActions`, which a single-shot timer executes. Four poll timers
(scan, three toggles) and the animation timer call back into `TrayController`.

`PROJECT.json` lists the hazards line by line, with the properties that
cover each of them or the reason why none does.

## 3. Modules

| Module | Models | Properties |
|---|---|---|
| `WifiScan` | the scan session and its poll timer | `TypeOK`, `SessionWatched`, `RequestsBounded`, `Settles` |
| `SwitchRequest` | abstract: a request for one goal that comes to an end | - |
| `QuickToggles` | the three switches of the right-click popup, implementing `SwitchRequest` | `TypeOK`, `ToggleWatched`, `RowsTruthful`, `NetRequests`, `PollingStops` |
| `ConnNotifier` | primary connection, messages, connecting animation | `NotifierTypeOK`, `ToldWhatItHas`, `LossIsReal`, `AnimationEnds`, `LossTold` |
| `WifiCache` | `rebuildWifi`: the cache by SSID and the two lists | `TypeOK`, `ListedOnce`, `ReachableAfterRefresh`, `PrunedOnlyIfMissed`, `ShownStaysShown` |
| `MainMenu` | rows, ids, fingerprint, rebuild timer, submenu, queue of clicks | `TypeOK`, `RowsMatchLists`, `OnlyAChangeMisleads`, `SubmenuHoldsMenu`, `MenuCatchesUp` |
| `Activation` | what clicks on connections ask of NetworkManager | `TypeOK`, `PrimaryIsBest`, `OthersSurvive`, `LastAskedWins`, `DisconnectReaches` |
| `SecretRequests` | abstract: every request is answered once | - |
| `SecretAgent` | the agent and its dialogs, implementing `SecretRequests` | `TypeOK`, `AnswerIsItsOwn`, `AgentSpec` |
| `ConnectionEditor` | the list of profiles with New, Edit, Delete and their waits | `TypeOK`, `OwnChangesShown`, `HandlersEnd` |
| `ProfileEditor` | the three editor dialogs on one profile | `TypeOK`, `StoredCoherent`, `ListKnows`, `KeptOrReplaced`, `SavedIsShown`, `WaitsEnd`, `BlankKeeps` |
| `WifiSecurity`, `Ipv4Config`, `VpnSettings` | the settings of a profile: load, validate, apply, as operators of `ProfileEditor` | - |
| `XProofs` | proofs about `X`, for seven of the modules | section 5 |
| `ConnectionProofs` | proofs about `Activation` and `ConnNotifier`, whose definitions have names of their own for it (`NotifierSpec`) | section 5 |
| `MCX` | values of `X`'s constants that a `.cfg` cannot write | - |

The specifications are checked as they stand; the `.cfg` files give their
constants values. Definitions named `X_Y` under a comment "Mutant" are not part
of a model: they are plausible mistakes in the code of `X`, and each property is
known to fail when `X` is replaced by its mutant.

Loops over lists are recursive functions of a number (`Pass`, `Sorted`), and a
selection from a list is the list of the chosen indices in their order (`Nth`,
`Picked`): both can be reasoned about for lists of any length.

How the modules fit together: `WifiCache` is where the lists of `MainMenu`'s
snapshots come from, a click of `MainMenu` ends in a handler of `Activation`, the
same handlers end a session of `WifiScan`, the dialogs that nest in `WifiScan`
and `QuickToggles` are those of `SecretAgent`, and the dialog that
`ConnectionEditor` opens is `ProfileEditor`. They are checked apart, each with
the others as an environment that may do more than they do.

### WifiScan

`sessionActive` and `userRequested` are the flags of `NmData`. The time stamp
`m_wifiScanStartedMs` is kept as what the code asks of it: `waited`, how many
poll intervals ago it was (saturating at `MaxWait`, where 15 s are over), and
`reported`, whether `LastScan` of the primary device has reached it. `requests`
counts the `RequestScan` calls since. `timerOn` and `pollCount` are the poll
timer. `networking`, `wireless`, `wifiDev` and `sparse` are what libnm reports.

`pc` is where the running handler stands, `"loop"` for an event loop; `stack`
holds what dialogs have interrupted. `OpenDialog` may happen at every pump and
in every loop. User actions and the poll need `pc = "loop"`, at any depth. The
step of a handler from its entry to its first pump is one action, and so is each
stretch to the next pump:

| Code | Actions |
|---|---|
| `init` (`traycontroller.cpp:57`) | `Init`, `StartupScan`, `BackgroundRequestDone` |
| `showMainMenu` (288) | `ShowMainMenu`, `ScanOnMenuOpen`, `BackgroundRequestDone` |
| `showQuickMenu` (309) | `ShowQuickMenu` |
| `onRequestWifiScan` (525) | `RequestWifiScan`, `RequestWifiScanDone` |
| `onWifiScanPoll` (645) | `WifiScanPoll`, `PollPumped`, `RetryPumped`, `FinishPumped` |
| `connectWifi...`, `activateItem` (`nmdata.cpp:1287-1360`) | `ConnectWifi`, `ActivationDone` |
| `connectHiddenWifi`, `createWifiHotspot` | `ConnectHiddenWifi`, `HiddenWifiPumped`, `ActivationDone` |

`ScanReported`, `NmChanges`, `WifiDeviceChanges` and `Elapse` are the
environment: NetworkManager and the clock.

### QuickToggles and SwitchRequest

All variables of a switch are functions of `Kinds`; the three copies of each
handler in the code are one action with a parameter, which differ where the code
differs (a networking toggle blocks the two others; `refreshQuickToggles` has no
wired row; the click on the wired row alone refreshes the rows after its pump;
a networking request may be refused at once, without a pump). `stack` is the
C++ call stack from the main event loop up. Besides dialogs, a libnm signal can
push `onClientChanged` on top of any pump; `toCheck` in its frame is the part of
its chain of tests (Wi-Fi, wired, networking) still to be done, because
`finish<k>Toggle` pumps in between.

| Code | Actions |
|---|---|
| row click, `triggerAction` (`traypopup.cpp:489, 1532`) | `Click`, `ClickPumped` |
| `executePendingActions`, `onToggle<k>` (`traycontroller.cpp:110, 386-453`) | `ExecutePending`, `RequestPumped` |
| `on<k>TogglePoll` (705, 776, 813) | `Poll`, `PollPumped` |
| `finish<k>Toggle` (686, 757, 794) | `Finish` (up to the pump), `FinishPumped` |
| `onClientChanged` (228) | `ClientChanged`, `ChangedPumped`, `CheckSwitches` |
| `switchToQuickMenu`, `fillQuick`, closing | `ShowQuickMenu`, `HideQuickMenu` |

`drifted` is a history variable of the property `RowsTruthful`: the switches
that moved outside a toggle since the popup last read them. The code refreshes
an open popup at the end of a toggle only, so those rows may be stale; the
property is about the others, whose rows the code itself has set.

`SwitchRequest` says what a user may expect of a switch: it is asked for one
thing at a time, the goal does not turn while the request runs, and every
request ends. `QuickToggles` implements it with `busy <- toggling[k]` and
`goal <- target[k]`.

### ConnNotifier

`dev`, `ac`, `primary` and `nmState` are libnm's view of the devices, the active
connections, the primary connection and the global state. They change one at a
time: a device moves, its active connection and the global state follow, the
primary connection changes when it likes. `signal` is set by the changes
`NmClient` is connected to (`nm/nmclient.cpp:126-192`). The state of an active
connection that stays in the list and the primary connection raise none.
`refresh` does not pump and is one action: it derives the primary connection
(`PrimaryNames`: the device that activates comes first, then NetworkManager's
primary, then any), feeds `NmNotifier::updateFromData` and the tray. When
several candidates tie, any of them may be listed first. `told` is a history
variable: what the last message said.

### WifiCache

`strength` is one libnm snapshot of the access points, which may be partial;
`saved`, `active`, `activating`, `usable` and `scanning` are the rest of what
`rebuildWifi` reads. It neither pumps nor calls back, so it is one action,
`RebuildWifi`, and between two of them anything else may change. Its stages are
operators in the order of the code:

| Code (`nmdata.cpp`) | Operators |
|---|---|
| best access point of each SSID (965-1026) | `InScan`, `BestBySsid`, `ProfileFor` |
| merge into the cache, resetting misses (1028-1034) | `MergedWith` |
| count misses and prune (1036-1061) | `AllowPrune`, `PrunedOf` |
| list, sort, cap (1063-1126) | `ListOf`, `Exchange`, `Pass`, `Sorted`, `Picked`, `Capped` |
| saved networks out of range (1128-1154) | `OutOfRange` |

An SSID is a number because `TQMap` iterates in the order of its keys, and the
exchange sort is kept in its order of comparisons, because it is not stable.
`absent` and `fresh` are history variables of the properties.

### MainMenu

`data` is what `NmData` holds: a snapshot of `Snapshots`, as a whole, since a
refresh replaces all lists at once. `rows` and `subRows` are the widgets of the
popup and its submenu, each row with the id it was built with; `drawn` is the
fingerprint, `due` the 100 ms timer, `pending` the queue of clicks, which `draining`
says is being worked off.

| Code | Actions |
|---|---|
| `onClientChanged` ... `onDataRefreshed` (`traycontroller.cpp:228`) | `Refresh` |
| `onMainMenuUpdateTimeout` (622) | `UpdateTimeout` |
| `showMainMenu` (288), `fillMain` (`traypopup.cpp:887`) | `ShowMainMenu` with `MainRows` |
| `hideEvent` (1578), `onCloseTimer` | `HideMenu` |
| `openSavedSubmenu` (1477), `closeSubPopup` (1507) | `OpenSubmenu`, `CloseSubmenu` |
| `triggerAction` (1532) | `Click` |
| `executePendingActions` (`traycontroller.cpp:110`), `lookupMenuItem` | `Execute` with `Meant`, `EffectOn` |

`acted` and `drawnFrom` are history: the last click with the effect it had, and
the snapshots that the rows on the screen were built from.

### Activation

A libnm call that changes something is a D-Bus request nobody waits for. It is
appended to `bus` and NetworkManager takes it later (`Take`), so that requests
of several clicks are in flight at a time. A connect handler is three actions, with
its pumps between them: `Begin` (the click, up to the first pump), `Drop` (tests,
choice of the device, drop of what the device has) and `ConnectGo` or `DialogGo`
(looking for a profile, activating it or adding one).

A pump can take a secret request, whose dialog has an event loop of its own, in
which `executePendingActions` acts upon the next click. `stack` is therefore the
nest of connect handlers that pump, with what each carries across; any click may come
while the innermost pumps, and only the innermost gets on. The dialog itself is
`SecretAgent`'s. `UseAfterUnplug` is the outcome in which the device a handler holds
has been dropped by libnm; nothing is claimed of what follows.

| Code | Actions |
|---|---|
| `activateWifiMenuItem` (`nmdata.cpp:126`) | `ConnectWifi`, `Drop`, `ConnectGo` |
| `connectHiddenWifi` (1625), `createWifiHotspot` (1704) | `ConnectHidden`, `CreateHotspot`, `Drop`, `DialogGo` |
| `deactivateWifi` (1416) | `DisconnectWifi` |
| `onPopupItemActivated` (`traycontroller.cpp:371`): `activateItem`, `deactivateItem` (1317-1414), wired and VPN | `ClickProfile`: `ActivateWired`, `DeactivateRow` with `Deactivations` |
| `pickPrimaryWifiDevice`, `pickApCapableWifiDevice` (`wifiutil.cpp:119-207`) | `Primary`, `Hotspot` |
| `deactivateWifiOnDevice` (`nm/nmclient.cpp:436`) | `OnDevice`, `AllWifi`, `StopAll` |

Whether a row is up, its item and the primary device are those of the last refresh.
The refresh is not a state here: what it may have seen is a free choice, of a row of
either kind, of any profile and any device, so that `deactivateItem` comes to its last
branch as well, which disconnects a device. No row carries the id of "disconnect wired"
(`deactivateWired`), which is left out, and no row that activates an item is a Wi-Fi one:
those come by index, to `connectWifiAvailable` and `connectWifiSavedOutOfRange`.

`asked` is history: the connect handler that has ended last, until the next click.

An active connection has the device it is `on` and the device it shows, `dev`,
which comes later: the code cannot tell on which device one without `dev` is. A VPN is
on none; it shows none, as `nmdata.cpp:321` takes it, or the one it runs over, and
ends with the connection there (`Without`). `deactivateWifiOnDevice` looks at the
shown device first and so asks to stop a VPN that shows a Wi-Fi device: that much is
what `OthersSurvive` allows, and no wired connection and no other VPN. The state of a
device (`DeviceActivated`) is that of the connection on it. Sets of connections and of
devices are gone through by number (`Nth`: the k-th of a set), and the choice of the
device is a recursive function of how many have been looked at (`Primary`). The
actions of `NetworkManager` are external.

### SecretAgent and SecretRequests

`get_secrets` answers before it returns, after a modal dialog whose loop pumps.
`dialogs` is the nest of those dialogs: a request that comes in opens the next one
on top (`GetSecrets`), and only the innermost can be closed (`Closed`). What is
asked for and under which key it is answered are operators of the request
(`AskedKey`, `AnsweredKey`, `AsksIdentity`, `RefusedAtOnce`). The hints that come with a
request are keys of the setting NetworkManager asks for (`MayName`,
`HintsAssumption`), of a VPN whatever its plugin names, in any order. `Cancel` has no effect
in the code, the late answer is sent all the same. `SecretRequests` says what
NetworkManager may expect; `SecretAgent` implements it with `asked <- sent`,
`answered <- answer`.

### ConnectionEditor

Each handler of the window is a frame on `stack`: `pick`, `create`, `edit`, `ask`
and `inform` show something modal; `added` and `removed` are the waits of
`waitForConnectionAdded` and `waitForConnectionRemoved`, which process events, so
that the three buttons react and another frame comes on top. `profiles` is what
NetworkManager has, `known` what libnm has learned of it (`Learn`), `list` the
copy that only `Reload` fills. `Confirmed` has three outcomes: deleted, refused, and
the use of a profile that libnm dropped while the question was on the screen, after
which nothing is claimed (`crashed`). `own` and `timedOut` are history.

### ProfileEditor, WifiSecurity, Ipv4Config, VpnSettings

The dialogs do not work on a copy. When they edit, `live` is libnm's own object of
the profile, changed setting by setting; `stored` is what NetworkManager has. A
failed validation leaves what has been changed before it (`SaveFails`); a
later Save starts from that. `Fetched` is libnm replacing the object after an
announcement. A new profile is added by a call whose wait processes events:
`waits` is the nest of those waits, since Save can be clicked again, and Cancel
hides a dialog that its own wait will still accept.

| Code | Actions and operators |
|---|---|
| `loadFromConnection(Object)` of the three dialogs | `New`, `Edit`, `Loaded`, `IpLoad`, `VpnLoad`, `KeysOf` |
| `saveProfile` of the three dialogs | `Saved`: `SaveMtu`, `SaveSecurity`, `IpApply`, `PluginSave`, `WireGuardSave` |
| `wifiSecurityApply`, `...Clear`, `...Detect` (`wifisecurity.cpp`) | `Applied`, `Clear`, `Detected` |
| `onAccept`, `commitConnectionProfile` (`connectioneditorutil.cpp:48`) | `SaveFails`, `SaveCommits` |
| `addConnectionProfile` (73), `onAddConnectionDone` (22) | `SaveAdds`, `AddAnswered`, `WaitEnds` |
| fields, `updateCredentialFields`, `onSecurityChanged` | `TypeField`, `ChooseSecurity`, `TypeCredentials` |

The values a VPN setting may hold are the named sets of `VpnSettings` (`Servers`,
`Passwords` and the like), from which the types of profiles and forms are made.
Secrets, addresses and keys are members of small sets; lengths and formats are
kept as the tests libnm makes of them (`WpaPskValid`, `WepKeyValid`). External are
two rules of NetworkManager: the profile it sends has no secrets, and an update
without any secret keeps the ones it has.

## 4. Runs

| Run | Bounds | States | Properties |
|---|---|---|---|
| `WifiScan` | 6 polls, retry every 3, 15 s = 4 polls, 1 dialog | 255 k | `TypeOK`, `SessionWatched`, `RequestsBounded`, `Settles` |
| `QuickToggles` | networking and Wi-Fi, 2 polls, 3 handlers nested, 1 queued click | 3.9 M | `TypeOK`, `ToggleWatched`, `RowsTruthful` |
| `QuickTogglesLive` | networking, 2 polls, 3 nested, 2 queued clicks | 21 k | `NetRequests` (refinement), `PollingStops` |
| `ConnNotifier` | two real connections, one virtual | 48 k | `NotifierTypeOK`, `ToldWhatItHas`, `LossIsReal`, `AnimationEnds` |
| `ConnNotifierLoss` | same | - | **violates** `LossTold` |
| `WifiCache` | 3 networks, one with two access points and a profile, 2 rows, pruned after 2 misses | 637 k | `TypeOK`, `ListedOnce`, `ReachableAfterRefresh`, `PrunedOnlyIfMissed`, `ShownStaysShown` |
| `MainMenu` | 10 snapshots, 1 showing, 1 refresh of its own, 2 clicks, queue of 2 | 309 k | `TypeOK`, `RowsMatchLists`, `OnlyAChangeMisleads`, `SubmenuHoldsMenu`, `MenuCatchesUp` |
| `Activation` | 2 adapters, 2 networks, 4 profiles, 2 clicks, 1 change of the world | 1.5 M | `TypeOK`, `PrimaryIsBest`, `OthersSurvive`, `LastAskedWins`, `DisconnectReaches` |
| `SecretAgent` | 6 requests, of 5 kinds of setting | 511 k | `TypeOK`, `AnswerIsItsOwn`, `AgentSpec` (refinement) |
| `ConnectionEditor` | 3 profiles, 2 nested handlers, 3 clicks, waits of 1 round | 860 k | `TypeOK`, `OwnChangesShown`, `HandlersEnd` |
| `ProfileEditor` | Wi-Fi, wired, L2TP, WireGuard; 2 clicks on Save, 2 nested waits | 541 k | `TypeOK`, `StoredCoherent`, `ListKnows`, `KeptOrReplaced`, `SavedIsShown`, `WaitsEnd` |
| `ProfileEditorBlank` | Wi-Fi | - | **violates** `BlankKeeps` |

Each run takes less than two minutes with two to four workers.

**Why the bounds are enough.**

* `WifiScan`: the constants 80, 10 and 76 become 6, 3 and 4, which keeps their
  order (give-up after the wait is over, several retries before) and every case
  of the poll. One dialog lets any handler be interrupted and any other run in
  its middle; the safety of deeper nests is proved.
* `QuickToggles`: the 50 polls become 2, one that goes on and one that gives up.
  Three nested handlers hold a request, the change signal in its pump, and the
  end of the toggle in that. The wired switch is not in a run, which it would make
  too large; it differs in a missing row of `refreshQuickToggles`, and the proofs
  hold for every set of switches.
* `ConnNotifier`: a handoff needs two real connections, the third is virtual.
* `WifiCache`: the cap of two rows with three networks makes rows compete,
  with one row when a network is connected; two misses are one that is
  forgiven and one that prunes; two access points of an SSID make a best one,
  and snapshots of more and of fewer than two occur. `absent` saturates at
  the limit it is compared with.
* `MainMenu`: the snapshots are chosen for what tells rows from lists: an item
  that gains and loses its action, lists that swap or shift, an empty list,
  a network that is connected through a second adapter, a radio that goes off, a
  VPN that is gone, NetworkManager that stops. A refresh is also part of showing
  the menu and of most clicks, so up to four snapshots follow each other.
* `Activation`: two handlers nest, or overlap on the bus, in any of their steps; one
  change of the world is the thing that may happen in a pump. With two adapters the choice of a device is a
  choice, with one connected network on each.
* `SecretAgent`: a request of each kind and one that is refused at once; six
  dialogs may be open on top of each other.
* `ConnectionEditor`: two nested handlers are all that the code's waits need to
  meet; the 50 rounds become one, since what matters is whether the wait gives up
  before libnm reports. The profiles have an editor and none, and one is shown by
  an exception.
* `ProfileEditor`: two attempts are a failed one and the one that starts from
  what it left; two waits are two adds from one dialog. Forms are chosen for
  every branch of `saveProfile`, valid and not.

Nothing is symmetric enough to need a symmetry set. The deadlock check is off in
`MainMenu`, `Activation`, `ConnectionEditor` and `SecretAgent`, whose behaviours
end: there the user has a number of clicks, or there are no more requests, and
after a use of a dropped pointer nothing follows.

`waited` of `WifiScan` counts poll intervals, not milliseconds: it says that 15 s
have passed no later than they have. A poll that comes late is `Elapse`.

**Fairness.** No click, no menu and no typing is fair, and neither is any change
that comes from outside: no scan report, no switch, no device. What is assumed:

* A handler at each depth gets on after its pump: strongly fair in `WifiScan` and
  `QuickToggles`, because a message in the pump may interrupt it again and again,
  finitely many times since a pump drains a finite queue; weakly fair in
  `Activation` (`Drop`, `ConnectGo`, `DialogGo`), where an interruption is a click, of
  which there is a number.
* Timers that stay on fire: the polls (strongly fair, for the event loop may be
  busy in between), the animation, the update of the menu, the queue of clicks,
  the rounds of a wait, the pump that receives secret requests.
* An open dialog is closed some time (`CloseDialog`, `Closes`, `Closed`). Without
  this an interrupted handler cannot go on, and nothing can be promised. The same is
  asked of the message box after a refused Save: in `ProfileEditor`, where it is no state
  because only its handler and the waits under it depend on it, `SaveFails` and the
  `WaitEnds` of a refused add end when it has been closed.
* NetworkManager takes a request from the bus, moves a connection on, and answers
  an add, with yes or no (`Take`, `Progress`, `AddAnswered`). These are asked for
  only where the property is about NetworkManager's effect. The wait of an add has
  no timeout (`connectioneditorutil.cpp:90`): without an answer it spins for good.

### What the violated runs say

* `ConnNotifierLoss`. At a disconnect the device is first "deactivating": the
  refresh of that moment finds no activated connection, `shouldNotifyConnectionLost`
  says not yet, and `m_hadConnection` is cleared all the same
  (`nmnotifier.cpp:118`). Later refreshes see nothing lost. `src/README.md:34`
  lists "lost" among the notifications. A loss is told only if the first
  refresh without the connection comes after the global state has changed.
* `ProfileEditorBlank`. The editor clears the security of libnm's own object before
  it checks the new credentials (`wificonnectioneditordialog.cpp:464`). After a
  refused attempt the user chooses the old type again and leaves the password
  blank, "leave blank to keep" (363): this Save takes the branch that leaves the
  security alone, and the profile is committed without any. `StoredCoherent` holds
  all the same: what is stored is open, not broken.

### Other disagreements met

They have no run, for their effect is small, or the text does not say enough, or
the model shows them as an exclusion in a property.

* `src/README.md:52` promises pruning after 5 misses with more than 2 access points;
  the code has 3 (`nmdata.cpp:1052`) and more than 1 (1038).
* `startScanPollingIfNeeded` returns when the timer is active and leaves the count
  (`traycontroller.cpp:580`), so that a session that starts under a running poll
  is given up before its 15 s are over (`src/LOGIC.md:73`); and the poll that gives
  up ends whatever session there is after its last pump (678), also one that
  started in it.
* `isTrayConnecting` tests the global state unfiltered (`nmdata.cpp:1192`), while
  `src/LOGIC.md:35` wants virtual interfaces ignored.
* The fingerprint is over names in the order of the list, which is by signal
  strength (`nmdata.cpp:1161`): strengths that cross rebuild the menu, which the
  comment there does not want. It holds no connection state (`src/LOGIC.md:137`
  says "state change"): a network that begins to connect under an open menu
  keeps its clickable row until something else rebuilds it, and
  `refreshWifiSignalLevels` names every group called "wifi_active" after the
  connected network (`traypopup.cpp:1314`), also one that is connecting on a second
  adapter. It counts VPN profiles without their names.
* A click carries an index (`traycontroller.cpp:483`), which acts on what the list
  has there when the queue is worked off. `OnlyAChangeMisleads` says that nothing
  else can mislead it.
* A click that is acted upon in the pump of another connect handler loses: the inner
  handler asks first and the outer one, clicked earlier, asks last
  (`nmdata.cpp:162-203`). No text says which of two networks should win;
  `LastAskedWins` says what does hold: the one asked for last.
* A wired or VPN row that the last refresh saw up, and whose connection is gone when the
  click is acted upon, disconnects the primary Wi-Fi device (`nmdata.cpp:1407-1413`: a
  saved item has no device of its own).
* An emptied user name of a VPN is read back from the plugin's data, if these have one
  (`vpnconnectioneditordialog.cpp:505`); `SavedIsShown` speaks of names that are not
  empty.
* A wired profile's cloned MAC address is shown where it has no MAC address, and becomes
  one by saving (`wiredconnectioneditordialog.cpp:224-228`, 278-288).
* A click on a network asks to stop also a VPN that shows the Wi-Fi device as its own
  (`nm/nmclient.cpp:458-466` looks at the first device and not at the type of the
  connection).
* The Wi-Fi connection is dropped before a profile for the new one has been found
  (`nmdata.cpp:162`), and a hotspot's password is refused after it
  (1761, the dialog asks only whether it is empty): the user is left with neither.
* "Leave empty to keep the current IPsec key" (`vpnconnectioneditordialog.cpp:295`):
  with a new password and the key left empty, the update carries one secret and
  NetworkManager replaces both. `KeptOrReplaced` therefore speaks of all fields
  blank, or of the password.
* The range ";" is accepted for a WireGuard peer (595) and leaves none (147).

## 5. Proofs

The constants are arbitrary within their assumptions: any poll limits, any depth of
nesting, any sets of switches, connections, networks, profiles and forms. The
assumptions say that limits are numbers and sets finite where they are counted
(`ScanAssumption`, `ToggleAssumption`, `NotifierAssumption`, `CacheAssumption`,
`ConnectionEditorAssumption`, `QueueAssumption`, `ProfilesAssumption`); that Wi-Fi devices
are numbered in libnm's order and the Ethernet device is none of them
(`DevicesAssumption`); that the lists of a snapshot are lists
(`SnapshotsAssumption`); that requests are numbered in their order
(`SecretAgentAssumption`) and hints are of the setting asked for (`HintsAssumption`);
that forms have values of the fields they show, a password only for a plugin
(`EditorAssumption`); and that other programs store coherent profiles
(`ForeignAssumption`), as NetworkManager refuses others.

What is true of every element of a list, or of every pass of a loop, is proved
without induction, which needs an operator as a parameter: the least number for
which it is false would have a predecessor for which it is true (`NatMin`, from
the well-foundedness of the numbers, and `Iterated`, `Passed`, `NthExists`).

* `WifiScanProofs`: `TypeCorrect` and `SessionIsWatched`. `SessionWatched` speaks
  of the main event loop only and is not inductive. `Watched` says of every state:
  an active session has its timer, or a handler that owes it one (`Owing`: about
  to start the timer, or to end the session) is running or on the stack. The step
  that matters is `CloseDialog` and the end of a handler, which take the witness
  off the stack: then the handler itself keeps the promise.
  `RequestsAreFew` is `RequestsBounded`. The proof is an account: a session has a
  budget of `RetryEvery` for each of its first two requests and 1 for each poll
  interval of its age, a poll costs 1 and a retry what the polls since the last one
  have saved up (`Value`). An interrupted handler owes what it will cost when it gets
  on, and one that ends the session gives back what has not been used (`Owes`,
  `Weight`). The property's earlier bound, of the run's constants, is not true of
  others: every dialog can be worth two requests more, and the bound says so now.
* `QuickTogglesProofs`: `TypeCorrect` (no count ever reaches the limit);
  `ToggleIsWatched`, with the same kind of strengthening: a toggling switch has its
  timer or its request's frame is on the stack; `OneRequestAtATime`: every step is
  a step of `SwitchRequest` or leaves it alone, for each switch, whichever handlers
  are nested; and `RowsAreTruthful`. `RowsTruthful` speaks of the main event loop,
  its invariant `RowsTrue` of every state: a row that can be clicked shows the goal
  of its toggle, or its switch, or a toggle that is finishing on the stack has yet
  to refresh it.
* `ConnectionProofs`, about `Activation`: `Typing` (`TypeOK`), `BestIsPrimary`
  (`PrimaryIsBest`) and `OthersAreSpared` (`OthersSurvive`), for any devices, networks
  and profiles and any number of clicks and changes. The inductive invariant `IInv`
  has six parts. `AcsTyped`: connections differ in their ids and in their devices
  (`Apart`); that a new one has an id of its own is a count, since `FreshId` looks among
  more numbers than there are ids in use or on the bus (`FreshIdIsNew`). `OnWifi`: a
  connection is on a Wi-Fi device just when its profile is for Wi-Fi, and on none just
  when it is a VPN; this rests on `Fitting`, the same of the requests on the bus.
  `BusTyped` also has `Sparing`: what a Wi-Fi click has asked to stop is a Wi-Fi
  connection, or a VPN over one, for as long as any connection has that id. A
  request outlives what it was made for, so it is here that the action property needs
  ids not to come back: `RisenKeeps` is the step that would fail. Nor can a
  connection become another one while it comes up (`GoneOnKeeps`). `WorldTyped`,
  `StackTyped` and `HistoryTyped` are what the handlers carry across their pumps, however
  many are nested.
  `PrimaryIsBest` needs no history, only `WorldTyped`: after `k` devices the pass holds the
  best of the first `k` (`BestOfFirst`, `OneMore`), because `Better` is transitive and
  the devices come in their order (`InOrder`).
  The proof found two mistakes in the model, now corrected: a VPN, which is on no
  device, never became "activated"; and it never showed a device, which made
  `OthersSurvive` say more than the code does.
* `ConnectionProofs`, about `ConnNotifier`: `NotifierTyping`, `MessagesMatch`,
  `LossesAreReal`.
  `LossIsReal` rests on `StateKept`, the order of NetworkManager's reports: while a
  device is activated, or its active connection still says so, the global state is
  "connected" or "connecting", so that `shouldNotifyConnectionLost`, which waits for
  "disconnected", cannot say yes.
* `WifiCacheProofs!CacheIsPatient`: `Spec => PrunedOnlyIfMissed`. The inductive
  invariant bounds the misses the code counts by the refreshes in a row without
  the network, which is what `absent` counts.
  `Typing`, `EachOnce`, `NoneIsLost` and `RowsStay` state `TypeOK`, `ListedOnce`,
  `ReachableAfterRefresh` and `ShownStaysShown`. The list starts as one row for each
  cached network but the connected one (`Listed`). An exchange, and so a pass and the
  whole sort, keeps the set of names and never makes two rows of one (`Exchanged`,
  `Passed`, `SortKeeps`). The cap picks those shown before first, then others, never
  a row twice (`CappedRows`), and drops none while there is room. `Lists` is the
  inductive invariant: what is always true of the two lists and the cache, and what
  is true of them and libnm until something changes after the refresh.
* `MainMenuProofs`: `Typing`, `Matched` (`RowsMatchLists`), `Misled`
  (`OnlyAChangeMisleads`) and `MenuStays` (`SubmenuHoldsMenu`), for snapshots of any
  lists. A row built from a snapshot names what its id means there (`Fits`, shown of
  each group that `fillMain` builds). `IInv` carries this on: the rows are those of the
  snapshot they were built from, but for the label of the connected network
  (`MenuAsBuilt`, `SubmenuAsBuilt`); as long as no update is due, the fingerprint on the
  screen is that of what `NmData` holds now (`DrawnIsLatest`), and equal fingerprints
  have equal names at equal indices (`SameNames`); a waiting click remembers the
  snapshot it was made over (`ClicksFit`). In `MenuStays` the step that could fail is
  `UpdateTimeout`; `SubmenuOverMenu` is what makes showing the menu harmless, since a
  hidden menu has no submenu.
* `ConnectionEditorProofs`: `TypeCorrect` and `OwnChangesAreShown`. The property
  speaks of the end of all handlers; `Tracked` says of every state that a change of
  the user's own is in the list or is awaited by a frame on the stack, whose wait
  ends with a reload, unless a wait gave up. It is the frame in the middle of the
  stack that counts: reloads of handlers on top of it come too early.
* `SecretAgentProofs`: `TypeCorrect`; `AnsweredRight` (`AnswerIsItsOwn`): a secret is
  what was typed in the dialog of its own request (`SentIsTyped`), and it goes under
  the key that the setting lacks, for any hints in any order, unless the first that
  counts is the identity; `AnswersOnce`, the safety part of `AgentSpec`. The
  invariant: requests are sent and received in their order (`InOrder`), dialogs
  belong to different requests without an answer, and so do requests not yet
  received (`Unanswered`); an answer has the key its handler picked (`Handled`), which
  is the first hint that is a secret of the setting, or its default (`PickedIsWanted`).
* `ProfileEditorProofs`: `StoresCoherent` (`Spec => []StoredCoherent`). A failed attempt
  leaves libnm's object half written. What holds of the object nevertheless is that
  its security is that of one type, cleared or written whole (`LiveSecure`); its IPv4
  setting may be manual without an address. The settings that leave the dialog are
  those of an attempt that succeeded, and such an attempt has written the IPv4
  setting anew, whatever was there (`StoredSound`, and `WaitsSound` for adds under
  way). `NewIsThere` says that the object of a new profile is never gone.
  And `ListLearns` (`Spec => []ListKnows`): a profile that has been added is
  reported or its wait is still on the stack (`Reported`); a dialog that is shown
  waits for a new profile only, and one that has closed waits for none
  (`WaitsAreNew`).
  `Typing` (`TypeOK`) needs a count: the nested waits are answered from the outside in,
  the first `m` of them (`AnsweredUpTo`), and what was added together with what is
  still to be answered is no more than the attempts. `SavesShow` (`SavedIsShown`) and
  `SecretsSurvive` (`KeptOrReplaced`) rest on `FInv`: when nothing is announced, libnm's
  object of a profile is the one NetworkManager sent (`LiveFollows`); the form shows
  that object as long as no attempt has touched it (`FormFollows`); and a field the type
  has no use for is empty (`FormClean`). `CommitStep` then follows one Save through
  `Saved` and NetworkManager's merge. Three statements were true only of the run's
  forms and have been corrected for it: the type of a stored VPN setting,
  `Coherent`, which now wants an absent 802.1X setting to be empty, and forms with a
  password the dialog has no field for.

**Only model-checked**: all liveness (`Settles`, `PollingStops`, `AnimationEnds`,
`MenuCatchesUp`, `LastAskedWins`, `DisconnectReaches`, `HandlersEnd`, `WaitsEnd`, the
`WF` of the two abstract specifications), which is out of the prover's reach. Every
safety property that a passing run checks is stated by a theorem.

## 6. Not modelled, and why

* Connection information (`connectioninfo*.cpp`) formats what libnm reports and
  keeps no state. Icons (`icons.cpp`, `nm_icons.h`, `convert_images.py`) are
  generated data. Contents of messages, tooltips, geometry, painting, hover timing
  and keyboard handling: no property is about them.
* VPN connections as primary, a NetworkManager restart, the EnableNotifications
  switch and the failure of libnotify (module `ConnNotifier`); the VPN mark of the
  tray icon, which is as stale as the last refresh.
* Making and dropping the libnm client (`NmClient::init`, `shutdown`). Nothing calls
  `dumpStatus` and `requestWifiScanAndWait`.
* The notifications row, and hardware switches other than as the free choice of
  the Wi-Fi row's sensitivity (`rowOn`).
* Pumps inside the click queue of `MainMenu` only change the lists: the nesting of
  handlers is in `WifiScan`, `QuickToggles` and `Activation`.
* The fields of the hidden-network and hotspot dialogs, which only look for empty
  input; several addresses, routes, IPv6, and peers after the first, which the
  editors do not touch; one profile is edited at a time.

## 7. What is left

* A composition of `Activation` with `WifiScan`, where a session ends while the
  requests of a click are on the bus.
