----------------------- MODULE ConnectionEditorProofs -----------------------
(***************************************************************************)
(* For any profiles of any kinds, any length of a wait and any depth of     *)
(* nesting: the types, and that the list ends up with what the user has     *)
(* added and without what they have deleted.                                *)
(***************************************************************************)
EXTENDS ConnectionEditor, SequenceTheorems, TLAPS

\* A handler waits for libnm to learn of what it has done to a path.
Awaits(at, p) == \E i \in 1..Len(stack) : stack[i].at = at /\ stack[i].path = p

\* OwnChangesShown speaks of the end of all handlers only.  While some run, a
\* change that is not in the list yet is awaited somewhere on the stack: its
\* wait ends, in whatever order, with a reload.
Added(p) ==
    /\ p \in profiles /\ Visible(p)
    /\ Awaits("added", p) \/ timedOut \/ (p \in known /\ p \in list)

Deleted(p) ==
    /\ p \notin profiles
    /\ Awaits("removed", p) \/ timedOut \/ (p \notin known /\ p \notin list)

Tracked ==
    \A p \in Paths :
        /\ own[p] = "added" => Added(p)
        /\ own[p] = "deleted" => Deleted(p)

IInv == TypeOK /\ Tracked

-----------------------------------------------------------------------------
(* The stack of handlers.                                                  *)

\* A click puts its handler on top of the others.
LEMMA Pushed ==
  ASSUME stack \in Seq(Frame), NEW f \in Frame, stack' = Append(stack, f)
  PROVE  /\ stack' \in Seq(Frame) /\ Len(stack') = Len(stack) + 1
         /\ \A at, p : Awaits(at, p) => Awaits(at, p)'
<1>1. /\ stack' \in Seq(Frame) /\ Len(stack') = Len(stack) + 1
      /\ \A i \in 1..Len(stack) : stack'[i] = stack[i]
  BY AppendProperties
<1>2. Len(stack) \in Nat
  OBVIOUS
<1>3. ASSUME NEW at, NEW p, Awaits(at, p) PROVE Awaits(at, p)'
  <2>1. PICK i \in 1..Len(stack) : stack[i].at = at /\ stack[i].path = p
    BY <1>3 DEF Awaits
  <2>2. i \in 1..Len(stack') /\ stack'[i] = stack[i]
    BY <1>1, <1>2
  <2> QED BY <2>1, <2>2 DEF Awaits
<1> QED BY <1>1, <1>3

\* The innermost handler ends; what the others wait for stays.
LEMMA Dropped ==
  ASSUME stack \in Seq(Frame), stack # <<>>
  PROVE  /\ Popped \in Seq(Frame) /\ Len(Popped) = Len(stack) - 1
         /\ \A i \in 1..(Len(stack) - 1) : Popped[i] = stack[i]
         /\ stack[Len(stack)] \in Frame /\ Len(stack) \in Nat \ {0}
<1>1. Len(stack) \in Nat \ {0}
  OBVIOUS
<1>2. \A i \in 1..Len(stack) : stack[i] \in Frame
  BY ElementOfSeq
<1>3. PICK n \in Nat : Len(stack) = n + 1
  <2>1. Len(stack) - 1 \in Nat /\ Len(stack) = (Len(stack) - 1) + 1
    BY <1>1
  <2> QED BY <2>1
<1>4. Popped = SubSeq(stack, 1, n)
  <2>1. Len(stack) - 1 = n
    BY <1>3
  <2> QED BY <2>1 DEF Popped
<1>5. \A i \in 1..n : stack[i] \in Frame
  BY <1>2, <1>3
<1>6. /\ Popped \in Seq(Frame)
      /\ Len(Popped) = IF 1 <= n THEN n - 1 + 1 ELSE 0
      /\ \A i \in 1..(n - 1 + 1) : Popped[i] = stack[1 + i - 1]
  BY <1>4, <1>5, SubSeqProperties
<1>7. Len(Popped) = n
  BY <1>6
<1>8. \A i \in 1..n : Popped[i] = stack[i]
  <2> TAKE i \in 1..n
  <2>1. i \in 1..(n - 1 + 1) /\ 1 + i - 1 = i
    OBVIOUS
  <2> QED BY <1>6, <2>1
<1>9. Len(stack) - 1 = n
  BY <1>3
<1> QED BY <1>1, <1>2, <1>6, <1>7, <1>8, <1>9

\* What happens to the awaited paths when the innermost handler ends.
LEMMA AwaitsPopped ==
  ASSUME stack \in Seq(Frame), stack # <<>>, Pop
  PROVE  /\ stack' \in Seq(Frame) /\ Len(stack') = Len(stack) - 1
         /\ \A at, p : Awaits(at, p) /\ ~(TopAt = at /\ Path = p) => Awaits(at, p)'
<1>1. /\ stack' \in Seq(Frame) /\ Len(stack') = Len(stack) - 1
      /\ \A i \in 1..(Len(stack) - 1) : stack'[i] = stack[i]
      /\ Len(stack) \in Nat \ {0}
  BY Dropped DEF Pop
<1>2. ASSUME NEW at, NEW p, Awaits(at, p), ~(TopAt = at /\ Path = p) PROVE Awaits(at, p)'
  <2>1. PICK i \in 1..Len(stack) : stack[i].at = at /\ stack[i].path = p
    BY <1>2 DEF Awaits
  <2>2. i # Len(stack)
    BY <1>2, <2>1 DEF TopAt, Path
  <2>3. i \in 1..Len(stack') /\ stack'[i] = stack[i]
    BY <1>1, <2>2
  <2> QED BY <2>1, <2>3 DEF Awaits
<1> QED BY <1>1, <1>2

\* The same when it goes on to its next step.
LEMMA AwaitsReplaced ==
  ASSUME stack \in Seq(Frame), stack # <<>>, NEW f \in Frame,
         stack' = Append(Popped, f)
  PROVE  /\ stack' \in Seq(Frame) /\ Len(stack') = Len(stack)
         /\ \A at, p : Awaits(at, p) /\ ~(TopAt = at /\ Path = p) => Awaits(at, p)'
         /\ Awaits(f.at, f.path)'
<1>1. /\ Popped \in Seq(Frame) /\ Len(Popped) = Len(stack) - 1
      /\ \A i \in 1..(Len(stack) - 1) : Popped[i] = stack[i]
      /\ Len(stack) \in Nat \ {0}
  BY Dropped
<1>2. /\ stack' \in Seq(Frame) /\ Len(stack') = Len(Popped) + 1
      /\ \A i \in 1..Len(Popped) : stack'[i] = Popped[i]
      /\ stack'[Len(Popped) + 1] = f
  BY <1>1, AppendProperties
<1>3. /\ Len(stack') = Len(stack) /\ stack'[Len(stack)] = f
      /\ \A i \in 1..(Len(stack) - 1) : stack'[i] = stack[i]
  BY <1>1, <1>2
<1>4. ASSUME NEW at, NEW p, Awaits(at, p), ~(TopAt = at /\ Path = p) PROVE Awaits(at, p)'
  <2>1. PICK i \in 1..Len(stack) : stack[i].at = at /\ stack[i].path = p
    BY <1>4 DEF Awaits
  <2>2. i # Len(stack)
    BY <1>4, <2>1 DEF TopAt, Path
  <2>3. i \in 1..Len(stack') /\ stack'[i] = stack[i]
    BY <1>1, <1>3, <2>2
  <2> QED BY <2>1, <2>3 DEF Awaits
<1>5. Awaits(f.at, f.path)'
  <2>1. Len(stack) \in 1..Len(stack')
    BY <1>1, <1>3
  <2> QED BY <1>3, <2>1 DEF Awaits
<1> QED BY <1>2, <1>3, <1>4, <1>5

\* The handler on top is a frame of its own kind.
LEMMA TopIsFrame ==
  ASSUME stack \in Seq(Frame), TopAt # "none"
  PROVE  /\ stack # <<>> /\ Path \in Paths \cup {NoPath}
         /\ stack[Len(stack)] \in Frame /\ TopAt = stack[Len(stack)].at
<1>1. stack # <<>>
  BY DEF TopAt
<1>2. stack[Len(stack)] \in Frame
  BY <1>1, Dropped
<1> QED BY <1>1, <1>2 DEF TopAt, Path, Frame

-----------------------------------------------------------------------------
(* Types.                                                                  *)

\* The profiles, libnm's and the list's, are profiles there can be.
LEMMA ReloadTypes ==
  ASSUME known \subseteq Paths, Reload
  PROVE  list' \subseteq Paths /\ selected' \in list' \cup {NoPath}
BY DEF Reload

\* No step leaves the types, whichever handler it belongs to.
LEMMA TypeStep == TypeOK /\ [Next]_vars => TypeOK'
<1> SUFFICES ASSUME TypeOK, [Next]_vars PROVE TypeOK'
  OBVIOUS
<1> USE ConnectionEditorAssumption DEF ConnectionEditorAssumption, TypeOK
<1>1. CASE Select
  BY <1>1 DEF Select
<1>2. ASSUME NEW at \in {"pick", "ask", "edit", "inform"}, NEW path \in Paths \cup {NoPath},
             Click(at, path)
      PROVE  TypeOK'
  <2>1. FrameAt(at, path) \in Frame
    BY DEF FrameAt, Frame
  <2>2. /\ stack' \in Seq(Frame) /\ Len(stack') = Len(stack) + 1
    BY <1>2, <2>1, Pushed DEF Click
  <2>3. Len(stack') <= MaxFrames
    BY <1>2, <2>2 DEF Click
  <2>4. clicks' \in 0..MaxClicks
    BY <1>2 DEF Click
  <2> QED BY <1>2, <2>2, <2>3, <2>4 DEF Click
<1>3. CASE OnNew
  BY <1>2, <1>3 DEF OnNew
<1>4. CASE OnDelete
  BY <1>2, <1>4 DEF OnDelete
<1>5. CASE OnEdit
  BY <1>2, <1>5 DEF OnEdit
<1>6. ASSUME stack # <<>>, NEW at \in {"create", "added", "removed", "inform"},
             NEW path \in Paths \cup {NoPath}, Becomes(at, path)
      PROVE  stack' \in Seq(Frame) /\ Len(stack') <= MaxFrames
  <2>1. FrameAt(at, path) \in Frame
    BY DEF FrameAt, Frame
  <2> QED BY <1>6, <2>1, AwaitsReplaced DEF Becomes
<1>7. stack # <<>> /\ Pop => stack' \in Seq(Frame) /\ Len(stack') <= MaxFrames
  BY AwaitsPopped
<1>8. CASE Picked
  <2>1. stack # <<>>
    BY <1>8, TopIsFrame DEF Picked, Top
  <2> QED BY <1>6, <1>7, <1>8, <2>1 DEF Picked
<1>9. CASE Created
  <2>1. stack # <<>>
    BY <1>9, TopIsFrame DEF Created, Top
  <2> QED BY <1>6, <1>9, <2>1 DEF Created
<1>10. CASE Dismissed
  <2>1. stack # <<>>
    BY <1>10, TopIsFrame DEF Dismissed, Top
  <2> QED BY <1>7, <1>10, <2>1 DEF Dismissed
<1>11. CASE Edited
  <2>1. stack # <<>>
    BY <1>11, TopIsFrame DEF Edited, Top
  <2>2. list' \subseteq Paths /\ selected' \in list' \cup {NoPath}
    BY <1>11, ReloadTypes DEF Edited
  <2> QED BY <1>7, <1>11, <2>1, <2>2 DEF Edited
<1>12. CASE Confirmed
  <2>1. stack # <<>> /\ Path \in Paths \cup {NoPath}
    BY <1>12, TopIsFrame DEF Confirmed, Top
  <2> QED BY <1>6, <1>12, <2>1 DEF Confirmed
<1>13. CASE Round
  <2> DEFINE frame == stack[Len(stack)]
  <2>1. stack # <<>> /\ frame \in Frame
    BY <1>13, TopIsFrame DEF Round, Top
  <2>2. CASE Settled(frame) \/ GivesUp(frame)
    <3>1. Pop /\ Reload /\ timedOut' = (timedOut \/ ~Settled(frame))
      BY <1>13, <2>2 DEF Round
    <3>2. list' \subseteq Paths /\ selected' \in list' \cup {NoPath}
      BY <3>1, ReloadTypes
    <3> QED BY <1>7, <1>13, <2>1, <3>1, <3>2 DEF Round
  <2>3. CASE ~(Settled(frame) \/ GivesUp(frame))
    <3>1. stack' = Append(Popped, Counted(frame)) /\ Unlisted /\ UNCHANGED timedOut
      BY <1>13, <2>3 DEF Round
    <3>2. Counted(frame) \in Frame
      BY <2>1, <2>3 DEF Counted, Frame, GivesUp
    <3>3. stack' \in Seq(Frame) /\ Len(stack') <= MaxFrames
      BY <2>1, <3>1, <3>2, AwaitsReplaced
    <3> QED BY <1>13, <3>1, <3>3 DEF Round, Unlisted
  <2> QED BY <2>2, <2>3
<1>14. CASE Learn
  BY <1>14 DEF Learn
<1>15. CASE Elsewhere
  BY <1>15 DEF Elsewhere
<1>16. CASE UNCHANGED vars
  BY <1>16 DEF vars
<1> QED
  BY <1>1, <1>3, <1>4, <1>5, <1>8, <1>9, <1>10, <1>11, <1>12, <1>13, <1>14, <1>15, <1>16 DEF Next

-----------------------------------------------------------------------------
(* What the user has done, and the list.                                   *)

\* A path of which the history has not changed stays tracked if NetworkManager
\* and libnm keep it and the step ends no wait for it.
LEMMA Kept ==
  ASSUME Tracked, NEW p \in Paths, own'[p] = own[p],
         (p \in profiles') <=> (p \in profiles),
         \A at \in {"added", "removed"} : Awaits(at, p) => Awaits(at, p)',
         timedOut => timedOut',
         p \in profiles /\ p \in known => p \in known',
         p \notin profiles /\ p \notin known => p \notin known',
         list' = list \/ list' = {q \in known : Visible(q)}
  PROVE  /\ own'[p] = "added" => Added(p)'
         /\ own'[p] = "deleted" => Deleted(p)'
<1>1. ASSUME own'[p] = "added" PROVE Added(p)'
  <2>1. Added(p)
    BY <1>1 DEF Tracked
  <2> QED BY <2>1 DEF Added, Visible
<1>2. ASSUME own'[p] = "deleted" PROVE Deleted(p)'
  <2>1. Deleted(p)
    BY <1>2 DEF Tracked
  <2> QED BY <2>1 DEF Deleted
<1> QED BY <1>1, <1>2

\* Every step keeps track of every change, at any depth of nesting.
LEMMA TrackedStep == TypeOK /\ Tracked /\ [Next]_vars => Tracked'
<1> SUFFICES ASSUME TypeOK, Tracked, [Next]_vars PROVE Tracked'
  OBVIOUS
<1> USE ConnectionEditorAssumption DEF ConnectionEditorAssumption
<1>0. stack \in Seq(Frame)
  BY DEF TypeOK
<1>1. ASSUME UNCHANGED <<profiles, known, own, timedOut>>,
             list' = list \/ list' = {q \in known : Visible(q)},
             \A at \in {"added", "removed"} : \A p : Awaits(at, p) => Awaits(at, p)'
      PROVE  Tracked'
  <2> SUFFICES ASSUME NEW p \in Paths
               PROVE  (own'[p] = "added" => Added(p)') /\ (own'[p] = "deleted" => Deleted(p)')
    BY DEF Tracked
  <2> QED BY <1>1, Kept
<1>2. CASE Select \/ UNCHANGED vars
  <2>1. \A at, p : Awaits(at, p) => Awaits(at, p)'
    BY <1>2 DEF Select, vars, Awaits
  <2> QED BY <1>1, <1>2, <2>1 DEF Select, vars
<1>3. ASSUME NEW at \in {"pick", "ask", "edit", "inform"}, NEW path \in Paths \cup {NoPath},
             Click(at, path)
      PROVE  Tracked'
  <2>1. FrameAt(at, path) \in Frame
    BY DEF FrameAt, Frame
  <2>2. \A a, p : Awaits(a, p) => Awaits(a, p)'
    BY <1>0, <1>3, <2>1, Pushed DEF Click
  <2> QED BY <1>1, <1>3, <2>2 DEF Click
<1>4. CASE OnNew \/ OnDelete \/ OnEdit
  BY <1>3, <1>4 DEF OnNew, OnDelete, OnEdit, TypeOK
<1>5. ASSUME stack # <<>>, TopAt \notin {"added", "removed"},
             \/ Pop
             \/ \E at \in {"create", "added", "removed", "inform"}, path \in Paths \cup {NoPath} :
                  Becomes(at, path)
      PROVE  \A at \in {"added", "removed"} : \A p : Awaits(at, p) => Awaits(at, p)'
  <2>1. CASE Pop
    BY <1>0, <1>5, <2>1, AwaitsPopped
  <2>2. ASSUME NEW at \in {"create", "added", "removed", "inform"},
               NEW path \in Paths \cup {NoPath}, Becomes(at, path)
        PROVE  \A a \in {"added", "removed"} : \A p : Awaits(a, p) => Awaits(a, p)'
    <3>1. FrameAt(at, path) \in Frame
      BY DEF FrameAt, Frame
    <3> QED BY <1>0, <1>5, <2>2, <3>1, AwaitsReplaced DEF Becomes
  <2> QED BY <1>5, <2>1, <2>2
<1>6. CASE Picked \/ Dismissed \/ Edited
  <2>1. stack # <<>> /\ TopAt \in {"pick", "create", "edit", "ask", "inform"}
    BY <1>0, <1>6, TopIsFrame DEF Picked, Dismissed, Edited, Top
  <2>2. Pop \/ Becomes("create", NoPath)
    BY <1>6 DEF Picked, Dismissed, Edited
  <2>3. \A at \in {"added", "removed"} : \A p : Awaits(at, p) => Awaits(at, p)'
    BY <1>5, <2>1, <2>2
  <2> QED BY <1>1, <1>6, <2>3 DEF Picked, Dismissed, Edited, Reload
<1>7. CASE Created
  <2>1. PICK q \in Paths \ (profiles \cup known) :
          /\ KindOf[q] \in {"wifi", "wired", "vpn"} /\ profiles' = profiles \cup {q}
          /\ own' = [own EXCEPT ![q] = "added"] /\ Becomes("added", q)
    BY <1>7 DEF Created
  <2>2. stack # <<>> /\ TopAt = "create"
    BY <1>0, <1>7, TopIsFrame DEF Created, Top
  <2>3. \A at \in {"added", "removed"} : \A p : Awaits(at, p) => Awaits(at, p)'
    BY <1>5, <2>1, <2>2
  <2>4. Awaits("added", q)'
    <3>1. FrameAt("added", q) \in Frame
      BY DEF FrameAt, Frame
    <3> QED BY <1>0, <2>1, <2>2, <3>1, AwaitsReplaced DEF Becomes, FrameAt
  <2>5. Visible(q)'
    BY <2>1 DEF Visible, Kinds
  <2> SUFFICES ASSUME NEW p \in Paths
               PROVE  (own'[p] = "added" => Added(p)') /\ (own'[p] = "deleted" => Deleted(p)')
    BY DEF Tracked
  <2>6. CASE p = q
    BY <2>1, <2>4, <2>5, <2>6 DEF Added, TypeOK
  <2>7. CASE p # q
    <3>1. own'[p] = own[p] /\ (p \in profiles' <=> p \in profiles)
      BY <2>1, <2>7 DEF TypeOK
    <3> QED BY <1>7, <2>3, <3>1, Kept DEF Created
  <2> QED BY <2>6, <2>7
<1>8. CASE Confirmed
  <2>1. stack # <<>> /\ TopAt = "ask" /\ Path \in Paths \cup {NoPath}
    BY <1>0, <1>8, TopIsFrame DEF Confirmed, Top
  <2>2. PICK q \in Paths \cup {NoPath} : q = Path
    BY <2>1
  <2>3. CASE /\ q \in known /\ q \in profiles
             /\ profiles' = profiles \ {q} /\ own' = [own EXCEPT ![q] = "deleted"]
             /\ Becomes("removed", q)
    <3>1. \A at \in {"added", "removed"} : \A p : Awaits(at, p) => Awaits(at, p)'
      BY <1>5, <2>1, <2>3
    <3>2. Awaits("removed", q)'
      <4>1. FrameAt("removed", q) \in Frame
        BY DEF FrameAt, Frame
      <4> QED BY <1>0, <2>1, <2>3, <4>1, AwaitsReplaced DEF Becomes, FrameAt
    <3> SUFFICES ASSUME NEW p \in Paths
                 PROVE  (own'[p] = "added" => Added(p)') /\ (own'[p] = "deleted" => Deleted(p)')
      BY DEF Tracked
    <3>3. CASE p = q
      BY <2>3, <3>2, <3>3 DEF Deleted, TypeOK
    <3>4. CASE p # q
      <4>1. own'[p] = own[p] /\ (p \in profiles' <=> p \in profiles)
        BY <2>3, <3>4 DEF TypeOK
      <4> QED BY <1>8, <3>1, <4>1, Kept DEF Confirmed
    <3> QED BY <3>3, <3>4
  <2>4. CASE UNCHANGED <<profiles, own>> /\ (Becomes("inform", q) \/ UNCHANGED stack)
    <3>1. \A at \in {"added", "removed"} : \A p : Awaits(at, p) => Awaits(at, p)'
      <4>1. CASE Becomes("inform", q)
        BY <1>5, <2>1, <4>1
      <4>2. CASE UNCHANGED stack
        BY <4>2 DEF Awaits
      <4> QED BY <2>4, <4>1, <4>2
    <3> QED BY <1>1, <1>8, <2>4, <3>1 DEF Confirmed
  <2> QED BY <1>8, <2>2, <2>3, <2>4 DEF Confirmed
<1>9. CASE Round
  <2> DEFINE frame == stack[Len(stack)]
  <2>1. stack # <<>> /\ frame \in Frame /\ frame.at \in {"added", "removed"}
        /\ TopAt = frame.at /\ Path = frame.path
    BY <1>0, <1>9, TopIsFrame DEF Round, Top, Path
  <2>2. CASE Settled(frame) \/ GivesUp(frame)
    <3>1. Pop /\ Reload /\ timedOut' = (timedOut \/ ~Settled(frame))
      BY <1>9, <2>2 DEF Round
    <3>2. \A at, p : Awaits(at, p) /\ ~(frame.at = at /\ frame.path = p) => Awaits(at, p)'
      BY <1>0, <2>1, <3>1, AwaitsPopped
    <3>3. UNCHANGED <<profiles, known, own>> /\ list' = {q \in known : Visible(q)}
      BY <1>9, <3>1 DEF Round, Reload
    <3> SUFFICES ASSUME NEW p \in Paths
                 PROVE  (own'[p] = "added" => Added(p)') /\ (own'[p] = "deleted" => Deleted(p)')
      BY DEF Tracked
    <3>4. ASSUME own'[p] = "added" PROVE Added(p)'
      <4>1. Added(p)
        BY <3>3, <3>4 DEF Tracked
      <4>2. p \in profiles' /\ Visible(p)'
        BY <3>3, <4>1 DEF Added, Visible
      <4>3. Awaits("added", p)' \/ timedOut' \/ (p \in known' /\ p \in list')
        <5>1. CASE frame.at = "added" /\ frame.path = p
          BY <3>1, <3>3, <4>1, <5>1 DEF Settled, Added
        <5>2. CASE ~(frame.at = "added" /\ frame.path = p)
          BY <3>1, <3>2, <3>3, <4>1, <5>2 DEF Added
        <5> QED BY <5>1, <5>2
      <4> QED BY <4>2, <4>3 DEF Added
    <3>5. ASSUME own'[p] = "deleted" PROVE Deleted(p)'
      <4>1. Deleted(p)
        BY <3>3, <3>5 DEF Tracked
      <4>2. Awaits("removed", p)' \/ timedOut' \/ (p \notin known' /\ p \notin list')
        <5>1. CASE frame.at = "removed" /\ frame.path = p
          BY <3>1, <3>3, <5>1 DEF Settled
        <5>2. CASE ~(frame.at = "removed" /\ frame.path = p)
          BY <3>1, <3>2, <3>3, <4>1, <5>2 DEF Deleted
        <5> QED BY <5>1, <5>2
      <4> QED BY <3>3, <4>1, <4>2 DEF Deleted
    <3> QED BY <3>4, <3>5
  <2>3. CASE ~(Settled(frame) \/ GivesUp(frame))
    <3>1. stack' = Append(Popped, Counted(frame)) /\ UNCHANGED <<profiles, known, list, own, timedOut>>
      BY <1>9, <2>3 DEF Round, Unlisted
    <3>2. Counted(frame) \in Frame /\ Counted(frame).at = frame.at
          /\ Counted(frame).path = frame.path
      BY <2>1, <2>3 DEF Counted, Frame, GivesUp
    <3>3. \A at, p : Awaits(at, p) => Awaits(at, p)'
      BY <1>0, <2>1, <3>1, <3>2, AwaitsReplaced
    <3> QED BY <1>1, <3>1, <3>3
  <2> QED BY <2>2, <2>3
<1>10. CASE Learn
  <2>1. \A at, p : Awaits(at, p) => Awaits(at, p)'
    BY <1>10 DEF Learn, Awaits
  <2> SUFFICES ASSUME NEW p \in Paths
               PROVE  (own'[p] = "added" => Added(p)') /\ (own'[p] = "deleted" => Deleted(p)')
    BY DEF Tracked
  <2> QED BY <1>10, <2>1, Kept DEF Learn
<1>11. CASE Elsewhere
  <2>1. \A at, p : Awaits(at, p) => Awaits(at, p)'
    BY <1>11 DEF Elsewhere, Awaits
  <2>2. PICK q \in Paths :
          /\ profiles' = IF q \in profiles THEN profiles \ {q} ELSE profiles \cup {q}
          /\ own' = [own EXCEPT ![q] = "nothing"]
    BY <1>11 DEF Elsewhere
  <2> SUFFICES ASSUME NEW p \in Paths
               PROVE  (own'[p] = "added" => Added(p)') /\ (own'[p] = "deleted" => Deleted(p)')
    BY DEF Tracked
  <2>3. CASE p = q
    BY <2>2, <2>3 DEF TypeOK
  <2>4. CASE p # q
    <3>1. own'[p] = own[p] /\ (p \in profiles' <=> p \in profiles)
      BY <2>2, <2>4 DEF TypeOK
    <3> QED BY <1>11, <2>1, <3>1, Kept DEF Elsewhere
  <2> QED BY <2>3, <2>4
<1> QED BY <1>2, <1>4, <1>6, <1>7, <1>8, <1>9, <1>10, <1>11 DEF Next

-----------------------------------------------------------------------------
(* The theorems.                                                           *)

\* At the start nothing has been done.
LEMMA InitIInv == Init => IInv
<1> SUFFICES ASSUME Init PROVE IInv
  OBVIOUS
<1> USE ConnectionEditorAssumption DEF ConnectionEditorAssumption, Init
<1>1. stack \in Seq(Frame) /\ Len(stack) = 0
  OBVIOUS
<1>2. TypeOK
  <2>1. profiles \subseteq Paths /\ known \subseteq Paths /\ list \subseteq Paths
    OBVIOUS
  <2>2. selected \in list \cup {NoPath}
    BY <2>1
  <2>3. own \in [Paths -> {"nothing", "added", "deleted"}]
    OBVIOUS
  <2>4. clicks \in 0..MaxClicks /\ Len(stack) <= MaxFrames
    BY <1>1
  <2> QED BY <1>1, <2>1, <2>2, <2>3, <2>4 DEF TypeOK
<1>3. Tracked
  BY DEF Tracked
<1> QED BY <1>2, <1>3 DEF IInv

\* Types and tracking hold together in every step.
LEMMA NextIInv == IInv /\ [Next]_vars => IInv'
BY TypeStep, TrackedStep DEF IInv

\* ConnectionEditor's variables keep their types, and the handlers nest no deeper
\* than their bound.
THEOREM TypeCorrect == Spec => []TypeOK
<1>1. IInv => TypeOK
  BY DEF IInv
<1> QED BY InitIInv, NextIInv, <1>1, PTL DEF Spec

\* For any profiles and any depth of nesting: when all handlers have ended, the
\* list shows what the user has added and not what they have deleted, unless a
\* wait gave up.
THEOREM OwnChangesAreShown == Spec => []OwnChangesShown
<1>1. IInv => OwnChangesShown
  <2> SUFFICES ASSUME IInv, stack = <<>>, ~timedOut, NEW p \in Paths
               PROVE  /\ own[p] = "added" => p \in list
                      /\ own[p] = "deleted" => p \notin list
    BY DEF OwnChangesShown
  <2>1. \A at : ~Awaits(at, p)
    BY DEF Awaits
  <2> QED BY <2>1 DEF IInv, Tracked, Added, Deleted
<1> QED BY InitIInv, NextIInv, <1>1, PTL DEF Spec
=============================================================================
