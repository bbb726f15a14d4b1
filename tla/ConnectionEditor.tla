--------------------------- MODULE ConnectionEditor ---------------------------
(***************************************************************************)
(* ConnectionEditorDialog: the list of profiles with New, Delete and Edit. *)
(* The list is a copy, filled by reload() only.  Each button's handler is  *)
(* a frame on the stack: while it shows a dialog or a question, which are  *)
(* modal, nothing else in the window reacts; while it waits for libnm to   *)
(* learn of the change it has made, it processes events, and the buttons   *)
(* can be clicked again.                                                   *)
(***************************************************************************)
EXTENDS Naturals, Sequences, FiniteSets

CONSTANTS
    Paths,       \* object paths of profiles
    KindOf,      \* their kind, a key of Kinds
    Rounds,      \* rounds of a wait, 50 in the code
    MaxFrames,   \* nested handlers
    MaxClicks    \* clicks on the three buttons

\* What the editor tells apart: connection.type, and whether it belongs to another
\* connection or to a virtual interface of the system.
Kinds == [wifi     |-> [type |-> "802-11-wireless", owned |-> FALSE, virtual |-> FALSE],
          wired    |-> [type |-> "802-3-ethernet",  owned |-> FALSE, virtual |-> FALSE],
          vpn      |-> [type |-> "vpn",             owned |-> FALSE, virtual |-> FALSE],
          wguard   |-> [type |-> "wireguard",       owned |-> FALSE, virtual |-> FALSE],
          bridge   |-> [type |-> "bridge",          owned |-> FALSE, virtual |-> TRUE],
          slave    |-> [type |-> "802-3-ethernet",  owned |-> TRUE,  virtual |-> FALSE],
          vlan     |-> [type |-> "vlan",            owned |-> FALSE, virtual |-> FALSE],
          loopback |-> [type |-> "loopback",        owned |-> FALSE, virtual |-> FALSE]]

ASSUME ConnectionEditorAssumption ==
    /\ KindOf \in [Paths -> DOMAIN Kinds] /\ IsFiniteSet(Paths)
    /\ Rounds \in Nat \ {0} /\ MaxFrames \in Nat /\ MaxClicks \in Nat

VARIABLES
    profiles,    \* paths of the profiles NetworkManager has
    known,       \* those libnm knows of
    list,        \* m_list
    selected,    \* its selected item, or NoPath
    stack,       \* handlers, the innermost last
    crashed,     \* a pointer to a profile libnm has dropped has been used
    clicks,      \* bound
    own,         \* history: what the user has last done here to a path
    timedOut     \* history: a wait has given up

vars == <<profiles, known, list, selected, stack, crashed, clicks, own, timedOut>>

NoPath == "none"

Frame == [at : {"pick", "create", "edit", "ask", "inform", "added", "removed"},
          path : Paths \cup {NoPath}, round : 0..Rounds]
FrameAt(at, path) == [at |-> at, path |-> path, round |-> 0]

TypeOK ==
    /\ profiles \subseteq Paths /\ known \subseteq Paths /\ list \subseteq Paths
    /\ selected \in list \cup {NoPath}
    /\ stack \in Seq(Frame) /\ Len(stack) <= MaxFrames
    /\ crashed \in BOOLEAN /\ clicks \in 0..MaxClicks /\ timedOut \in BOOLEAN
    /\ own \in [Paths -> {"nothing", "added", "deleted"}]

-----------------------------------------------------------------------------
\* isConnectionEditorVisible: loopback is shown before the other tests.
Visible(path) ==
    LET k == Kinds[KindOf[path]]
    IN /\ ~k.owned
       /\ \/ k.type = "loopback"
          \/ k.type \notin {"vlan", "bluetooth"} /\ ~k.virtual

\* onEdit: the types that have an editor.
HasEditor(path) ==
    Kinds[KindOf[path]].type \in {"802-11-wireless", "802-3-ethernet", "vpn", "wireguard"}

\* reload: the first item is selected.
Reload ==
    /\ list' = {p \in known : Visible(p)}
    /\ selected' \in IF list' = {} THEN {NoPath} ELSE list'

TopAt == IF stack = <<>> THEN "none" ELSE stack[Len(stack)].at
Idle == TopAt \in {"none", "added", "removed"}
Top(at) == ~crashed /\ TopAt = at
Path == stack[Len(stack)].path
Popped == SubSeq(stack, 1, Len(stack) - 1)
Becomes(at, path) == stack' = Append(Popped, FrameAt(at, path))
Pop == stack' = Popped

Init ==
    /\ profiles \in SUBSET Paths /\ known = profiles
    /\ list = {p \in known : Visible(p)}
    /\ selected \in IF list = {} THEN {NoPath} ELSE list
    /\ stack = <<>> /\ crashed = FALSE /\ clicks = 0 /\ timedOut = FALSE
    /\ own = [p \in Paths |-> "nothing"]

Unlisted == UNCHANGED <<list, selected>>

-----------------------------------------------------------------------------
Select ==
    /\ ~crashed /\ Idle
    /\ selected' \in list \ {selected}
    /\ UNCHANGED <<profiles, known, list, stack, crashed, clicks, own, timedOut>>

Click(at, path) ==
    /\ ~crashed /\ Idle /\ clicks < MaxClicks /\ Len(stack) < MaxFrames
    /\ clicks' = clicks + 1
    /\ stack' = Append(stack, FrameAt(at, path))
    /\ UNCHANGED <<profiles, known, list, selected, crashed, own, timedOut>>

OnNew == Click("pick", NoPath)
OnDelete == selected \in known /\ Click("ask", selected)
OnEdit == selected \in known /\ Click(IF HasEditor(selected) THEN "edit" ELSE "inform", selected)

\* NewConnectionTypeDialog, and for a VPN VpnTypePickerDialog.
Picked ==
    /\ Top("pick")
    /\ Becomes("create", NoPath) \/ Pop
    /\ UNCHANGED <<profiles, known, list, selected, crashed, clicks, own, timedOut>>

\* The dialog for the new profile is accepted; ProfileEditor is the dialog.
Created ==
    /\ Top("create")
    /\ \E p \in Paths \ (profiles \cup known) :
          /\ KindOf[p] \in {"wifi", "wired", "vpn"}
          /\ profiles' = profiles \cup {p}
          /\ own' = [own EXCEPT ![p] = "added"]
          /\ Becomes("added", p)
    /\ UNCHANGED <<known, list, selected, crashed, clicks, timedOut>>

\* A dialog is closed without effect, or a message is read.
Dismissed ==
    /\ \E at \in {"create", "edit", "ask", "inform"} : Top(at)
    /\ Pop
    /\ UNCHANGED <<profiles, known, list, selected, crashed, clicks, own, timedOut>>

Edited ==
    /\ Top("edit")
    /\ Pop /\ Reload
    /\ UNCHANGED <<profiles, known, crashed, clicks, own, timedOut>>

\* The answer is Yes: the pointer was looked up before the question.
Confirmed ==
    /\ Top("ask")
    /\ \/ /\ Path \in known /\ Path \in profiles
          /\ profiles' = profiles \ {Path} /\ own' = [own EXCEPT ![Path] = "deleted"]
          /\ Becomes("removed", Path)
          /\ UNCHANGED crashed
       \/ /\ Path \in known /\ Path \notin profiles
          /\ Becomes("inform", Path)
          /\ UNCHANGED <<profiles, own, crashed>>
       \/ /\ Path \notin known
          /\ \/ Becomes("inform", Path) /\ UNCHANGED crashed
             \/ crashed' = TRUE /\ UNCHANGED stack
          /\ UNCHANGED <<profiles, own>>
    /\ UNCHANGED <<known, list, selected, clicks, timedOut>>

\* Mutant: any profile that is known ends the wait.
Settled_AnyKnown(frame) == IF frame.at = "added" THEN known # {} ELSE frame.path \notin known

\* waitForConnectionAdded, waitForConnectionRemoved
Settled(frame) == (frame.path \in known) = (frame.at = "added")

\* Mutant: one round too many.
GivesUp_Late(frame) == frame.round > Rounds

GivesUp(frame) == frame.round = Rounds

\* Mutant: the rounds are not counted.
Counted_Not(frame) == frame

Counted(frame) == [frame EXCEPT !.round = @ + 1]

\* One round of the innermost wait, after what it has processed.
Round ==
    /\ Top("added") \/ Top("removed")
    /\ LET frame == stack[Len(stack)]
       IN IF Settled(frame) \/ GivesUp(frame)
          THEN Pop /\ Reload /\ timedOut' = (timedOut \/ ~Settled(frame))
          ELSE /\ stack' = Append(Popped, Counted(frame))
               /\ Unlisted /\ UNCHANGED timedOut
    /\ UNCHANGED <<profiles, known, crashed, clicks, own>>

-----------------------------------------------------------------------------
\* NetworkManager's signals reach libnm, one by one.
Learn ==
    /\ ~crashed
    /\ \E p \in Paths :
          /\ (p \in known) # (p \in profiles)
          /\ known' = IF p \in profiles THEN known \cup {p} ELSE known \ {p}
    /\ UNCHANGED <<profiles, list, selected, stack, crashed, clicks, own, timedOut>>

\* Another program adds or deletes a profile.
Elsewhere ==
    /\ ~crashed
    /\ \E p \in Paths :
          /\ p \in known <=> p \in profiles
          /\ profiles' = IF p \in profiles THEN profiles \ {p} ELSE profiles \cup {p}
          /\ own' = [own EXCEPT ![p] = "nothing"]
    /\ UNCHANGED <<known, list, selected, stack, crashed, clicks, timedOut>>

Closes == Picked \/ Dismissed \/ Confirmed

Next == Select \/ OnNew \/ OnDelete \/ OnEdit \/ Picked \/ Created \/ Dismissed \/ Edited
        \/ Confirmed \/ Round \/ Learn \/ Elsewhere

\* The user closes what is shown; the waits run on their own.
Fairness == WF_vars(Closes) /\ WF_vars(Round)

Spec == Init /\ [][Next]_vars /\ Fairness

-----------------------------------------------------------------------------
(* Properties.                                                             *)

\* When all handlers have ended, what the user has created is in the list and
\* what they have deleted is not, in whatever order the handlers nested, unless a
\* wait gave up (or another program has undone it).
OwnChangesShown ==
    stack = <<>> /\ ~timedOut =>
        \A p \in Paths :
            /\ own[p] = "added" => p \in list
            /\ own[p] = "deleted" => p \notin list

\* A wait gives up at last, so that every handler ends if the user closes its
\* dialogs, however many are started during the waits.
HandlersEnd == stack # <<>> ~> stack = <<>> \/ crashed
=============================================================================
