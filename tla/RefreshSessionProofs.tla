------------------------ MODULE RefreshSessionProofs ------------------------
(***************************************************************************)
(* Theorems about RefreshSession, for any keys, kinds of statements and    *)
(* bounds: its types, and that the frames are those of the statements      *)
(* running; where no UPDATE is captured as a patch, that nothing stale is  *)
(* left without its refresh, so that what is committed is fresh, and that  *)
(* a resume rebuilds; where, besides, nothing is suspended and every       *)
(* statement has a frame, that a commit finds its work flushed, and each   *)
(* outermost statement leaves its rows fresh.                              *)
(***************************************************************************)
EXTENDS RefreshSession, RefreshWorkProofs, SequenceTheorems, FiniteSetTheorems

-----------------------------------------------------------------------------
(* The inductive invariants. *)

\* A savepoint keeps the frames of the statements around its block, and blocks
\* are opened in statements no block inside them has left.
SavedFrames ==
    /\ \A i \in DOMAIN subs :
         /\ subs[i].nest <= Len(stack)
         /\ subs[i].frames = FramesOf(stack, subs[i].nest)
    /\ \A i, j \in DOMAIN subs : i <= j => subs[i].nest <= subs[j].nest

FrameInv == TypeOK /\ FramesFollowStatements /\ SavedFrames

\* Row k's triggers have yet to fire in one of the n outermost statements.
FiresIn(statements, n, k) ==
    \E i \in 1..n : \E j \in DOMAIN statements[i].events :
        statements[i].events[j].key = k

\* Each row is as its TVIEW shows it, to be refreshed, or warned of.
Covered(b, t, w, statements, n, sus, wn) ==
    \A k \in RowKey :
        \/ t[k] = b[k]
        \/ k \in QueueOf(w)
        \/ FiresIn(statements, n, k)
        \/ sus.depth > 0 /\ k[1] \in sus.changed
        \/ k[1] \in wn

\* Whatever is queued is recomputed.
Patchless(w) == \A k \in RowKey : w[PatchSlot(k)] \in {Absent, Poisoned}

CoveredNow ==
    Patchless(work) /\ Covered(base, tv, work, stack, Len(stack), suspension, warned)

\* What a rollback goes back to is covered too.
CoveredAt(sub, statements, wn) ==
    /\ Patchless(sub.work)
    /\ Covered(sub.base, sub.tv, sub.work, statements, sub.nest, sub.suspension, wn)

CoveredSaved == \A i \in DOMAIN subs : CoveredAt(subs[i], stack, warned)

CoveredStart ==
    Active => \A k \in RowKey : start.tv[k] = start.base[k] \/ k[1] \in warned

CoverInv == CoveredNow /\ CoveredSaved /\ CoveredStart

\* What is queued, now or at a savepoint, a writing statement still running
\* will flush.
WrittenIn(statements, n) == \E i \in 1..n : statements[i].kind = "write"

FlushInv ==
    /\ QueueOf(work) # {} => WrittenIn(stack, Len(stack))
    /\ \A i \in DOMAIN subs : QueueOf(subs[i].work) # {} => WrittenIn(stack, subs[i].nest)
    /\ \A i \in DOMAIN stack : stack[i].kind = "read" => stack[i].events = <<>>
    /\ warned = {}

-----------------------------------------------------------------------------
(* Counting frames. *)

LEMMA FramesCount ==
    ASSUME NEW q, NEW n \in Nat
    PROVE  /\ IsFiniteSet({i \in 1..n : Framed(q[i].kind)})
           /\ FramesOf(q, n) \in Nat /\ FramesOf(q, n) <= n
<1>1. IsFiniteSet(1..n) /\ Cardinality(1..n) = n
    BY FS_Interval
<1> QED
    BY <1>1, FS_Subset, FS_CardinalityType DEF FramesOf

LEMMA FramesNone == \A q : FramesOf(q, 0) = 0
<1>1. \A q : {i \in 1..0 : Framed(q[i].kind)} = {}
    OBVIOUS
<1> QED
    BY <1>1, FS_EmptySet DEF FramesOf

LEMMA FramesNext ==
    ASSUME NEW q, NEW n \in Nat
    PROVE  FramesOf(q, n + 1) = FramesOf(q, n) + (IF Framed(q[n + 1].kind) THEN 1 ELSE 0)
<1> DEFINE S(m) == {i \in 1..m : Framed(q[i].kind)}
<1>1. \A m : FramesOf(q, m) = Cardinality(S(m))
    BY DEF FramesOf
<1>2. IsFiniteSet(S(n)) /\ Cardinality(S(n)) \in Nat
    BY FramesCount, FS_CardinalityType
<1>3. CASE Framed(q[n + 1].kind)
    <2>1. S(n + 1) = S(n) \cup {n + 1} /\ (n + 1) \notin S(n)
        BY <1>3
    <2>2. Cardinality(S(n + 1)) = Cardinality(S(n)) + 1
        <3> HIDE DEF S
        <3> QED
            BY <1>2, <2>1, FS_AddElement
    <2> QED
        BY <1>1, <1>3, <2>2
<1>4. CASE ~Framed(q[n + 1].kind)
    <2>1. S(n + 1) = S(n)
        BY <1>4
    <2> QED
        BY <1>1, <1>2, <1>4, <2>1
<1> QED
    BY <1>3, <1>4

LEMMA FramesGrow ==
    ASSUME NEW q, NEW m \in Nat, NEW n \in Nat, m <= n
    PROVE  FramesOf(q, m) <= FramesOf(q, n)
<1>1. {i \in 1..m : Framed(q[i].kind)} \subseteq {i \in 1..n : Framed(q[i].kind)}
    OBVIOUS
<1> QED
    BY <1>1, FramesCount, FS_Subset DEF FramesOf

\* The frame of a statement comes after those of the statements around it.
LEMMA FramesAfter ==
    ASSUME NEW q, NEW m \in Nat, NEW n \in Nat, m < n, Framed(q[n].kind)
    PROVE  FramesOf(q, m) < FramesOf(q, n)
<1>1. FramesOf(q, n) = FramesOf(q, n - 1) + 1
    <2>1. n - 1 \in Nat /\ (n - 1) + 1 = n
        OBVIOUS
    <2> QED
        BY <2>1, FramesNext
<1>2. n - 1 \in Nat /\ m <= n - 1
    OBVIOUS
<1>3. FramesOf(q, m) <= FramesOf(q, n - 1)
    BY <1>2, FramesGrow
<1>4. FramesOf(q, m) \in Nat /\ FramesOf(q, n - 1) \in Nat
    BY <1>2, FramesCount
<1> QED
    BY <1>1, <1>3, <1>4

LEMMA FramesWithin ==
    ASSUME NEW q, NEW n \in Nat, NEW i \in 1..n, Framed(q[i].kind)
    PROVE  FramesOf(q, i) \in 1..FramesOf(q, n)
<1>1. FramesOf(q, 0) < FramesOf(q, i)
    <2>1. 0 \in Nat /\ i \in Nat /\ 0 < i
        OBVIOUS
    <2> QED
        BY <2>1, FramesAfter
<1>2. FramesOf(q, 0) = 0
    BY FramesNone
<1>3. i \in Nat /\ i <= n
    OBVIOUS
<1>4. FramesOf(q, i) <= FramesOf(q, n)
    BY <1>3, FramesGrow
<1>5. FramesOf(q, i) \in Nat /\ FramesOf(q, n) \in Nat
    BY <1>3, FramesCount
<1> QED
    BY <1>1, <1>2, <1>4, <1>5

\* Only the kinds of the statements counted matter.
LEMMA FramesAgree ==
    ASSUME NEW q, NEW r, NEW n \in Nat, \A i \in 1..n : q[i].kind = r[i].kind
    PROVE  FramesOf(q, n) = FramesOf(r, n)
<1>1. {i \in 1..n : Framed(q[i].kind)} = {i \in 1..n : Framed(r[i].kind)}
    OBVIOUS
<1> QED
    BY <1>1 DEF FramesOf

-----------------------------------------------------------------------------
(* Types. *)

LEMMA BoundTypes ==
    /\ MaxWrites \in Nat /\ MaxNest \in Nat /\ MaxSuspend \in Nat /\ MaxOpen \in Nat
    BY Bounds

LEMMA TopIs ==
    ASSUME TypeOK, OwnTurn
    PROVE  Len(stack) \in 1..MaxNest /\ Top \in Statement
<1>1. stack \in Seq(Statement) /\ stack # <<>> /\ Len(stack) <= MaxNest
    BY DEF TypeOK, OwnTurn
<1>2. Len(stack) \in Nat \ {0}
    BY <1>1, EmptySeq
<1>3. Top \in Statement
    BY <1>1, <1>2, ElementOfSeq DEF Top
<1> QED
    BY <1>1, <1>2, <1>3, BoundTypes

\* The running statement changed.
LEMMA TopType ==
    ASSUME TypeOK, OwnTurn, NEW st \in Statement
    PROVE  /\ [stack EXCEPT ![Len(stack)] = st] \in Seq(Statement)
           /\ Len([stack EXCEPT ![Len(stack)] = st]) = Len(stack)
           /\ \A i \in 1..Len(stack) :
                [stack EXCEPT ![Len(stack)] = st][i] = IF i = Len(stack) THEN st ELSE stack[i]
<1>1. stack \in Seq(Statement) /\ Len(stack) \in 1..Len(stack)
    BY TopIs DEF TypeOK
<1> QED
    BY <1>1, ExceptSeq

LEMMA FieldsOf == \A v \in Value : [own |-> v] \in Fields
<1> TAKE v \in Value
<1>1. [own |-> v] \in [{"own"} -> Value]
    OBVIOUS
<1>2. {"own"} \in (SUBSET Field) \ {{}}
    BY Keys
<1> QED
    BY <1>1, <1>2 DEF Fields


\* A refresh leaves rows.
LEMMA RefreshTypes ==
    ASSUME TypeOK
    PROVE  /\ \A t \in Rows : Flush(t) => tv' \in Rows /\ work' \in Work
           /\ FlushAfterStatement => tv' \in Rows /\ work' \in Work
           /\ CatchUp => tv' \in Rows /\ work' \in Work
           /\ HookedCommit => tv' \in Rows
<1>1. base \in Rows /\ tv \in Rows /\ work \in Work
    BY DEF TypeOK
<1>2. ASSUME NEW t \in Rows
      PROVE  Flushed(t, work) \in Rows
    <2>1. ASSUME NEW k \in RowKey, work[PatchSlot(k)] \notin {Absent, Poisoned}
          PROVE  work[PatchSlot(k)]["own"] \in Value
        <3>1. work[PatchSlot(k)] \in Fields
            BY <1>1, <2>1, SlotTypes, Markers DEF Work, Fits, PatchSlot
        <3> QED
            BY <3>1, Keys DEF Fields
    <2> QED
        BY <1>1, <1>2, <2>1 DEF Flushed, Rows
<1>3. \A e : Rebuilt(e) \in Rows
    BY <1>1 DEF Rebuilt, Rows
<1>4. \A t \in Rows : Flush(t) => tv' \in Rows /\ work' \in Work
    BY <1>2, NothingType DEF Flush
<1>5. FlushAfterStatement => tv' \in Rows /\ work' \in Work
    BY <1>1, <1>4 DEF FlushAfterStatement
<1>6. CatchUp => tv' \in Rows /\ work' \in Work
    BY <1>1, <1>3, <1>4 DEF CatchUp
<1>7. HookedCommit => tv' \in Rows
    BY <1>1, <1>2, <1>3 DEF HookedCommit
<1> QED
    BY <1>4, <1>5, <1>6, <1>7

-----------------------------------------------------------------------------
(* The frames are those of the statements running. *)

\* Steps that start or end no statement and touch no frame or savepoint.
LEMMA SameKinds ==
    ASSUME FrameInv, stack' \in Seq(Statement), Len(stack') = Len(stack),
           \A i \in 1..Len(stack) : stack'[i].kind = stack[i].kind,
           UNCHANGED <<frames, subs>>
    PROVE  FramesFollowStatements' /\ SavedFrames'
<1>1. DOMAIN stack = 1..Len(stack) /\ DOMAIN stack' = 1..Len(stack) /\ Len(stack) \in Nat
    BY LenProperties DEF FrameInv, TypeOK
<1>2. \A n \in 0..Len(stack) : FramesOf(stack', n) = FramesOf(stack, n)
    <2> TAKE n \in 0..Len(stack)
    <2>1. n \in Nat /\ \A i \in 1..n : stack[i].kind = stack'[i].kind
        BY <1>1
    <2> QED
        BY <2>1, FramesAgree
<1>3. FramesFollowStatements'
    BY <1>1, <1>2 DEF FrameInv, FramesFollowStatements
<1>4. subs \in Seq(Saved) /\ \A i \in DOMAIN subs : subs[i].nest \in 0..Len(stack)
    <2>1. subs \in Seq(Saved) /\ DOMAIN subs = 1..Len(subs)
        BY LenProperties DEF FrameInv, TypeOK
    <2>2. \A i \in DOMAIN subs : subs[i] \in Saved
        BY <2>1, ElementOfSeq
    <2> QED
        BY <1>1, <2>1, <2>2 DEF FrameInv, SavedFrames, Saved
<1>5. SavedFrames'
    BY <1>1, <1>2, <1>4 DEF FrameInv, SavedFrames
<1> QED
    BY <1>3, <1>5

LEMMA BeginFrames == FrameInv /\ Begin => FrameInv'
<1> SUFFICES ASSUME FrameInv, Begin
             PROVE  FrameInv'
    OBVIOUS
<1>1. TypeOK'
    BY DEF FrameInv, TypeOK, Begin, Active, None
<1> QED
    BY <1>1, SameKinds DEF FrameInv, TypeOK, Begin

\* The running statement changed but for its kind.
LEMMA TopFrames ==
    ASSUME FrameInv, OwnTurn, NEW st \in Statement, st.kind = Top.kind,
           stack' = [stack EXCEPT ![Len(stack)] = st], UNCHANGED <<frames, subs>>
    PROVE  /\ stack' \in Seq(Statement) /\ Len(stack') = Len(stack)
           /\ FramesFollowStatements' /\ SavedFrames'
<1>1. stack' \in Seq(Statement) /\ Len(stack') = Len(stack)
    BY TopType DEF FrameInv
<1>2. \A i \in 1..Len(stack) : stack'[i].kind = stack[i].kind
    BY TopType DEF FrameInv, Top
<1> QED
    BY <1>1, <1>2, SameKinds

LEMMA WriteFrames ==
    ASSUME FrameInv, NEW k \in RowKey, NEW patch \in Patches, WriteRow(k, patch)
    PROVE  FrameInv'
<1> DEFINE event == [key |-> k, version |-> writes + 1, patch |-> patch]
           st == [Top EXCEPT !.rows = @ \cup {k}, !.events = Append(@, event)]
<1>1. OwnTurn /\ writes \in Value /\ writes + 1 \in Value
    BY Keys, BoundTypes DEF FrameInv, TypeOK, WriteRow
<1>2. Top \in Statement
    BY <1>1, TopIs DEF FrameInv
<1>3. event \in [key : RowKey, version : Value, patch : Patches]
    BY <1>1
<1>4. st \in Statement /\ st.kind = Top.kind
    <2>1. Append(Top.events, event) \in Seq([key : RowKey, version : Value, patch : Patches])
        BY <1>2, <1>3, AppendProperties DEF Statement
    <2> QED
        BY <1>2, <2>1 DEF Statement
<1>5. stack' = [stack EXCEPT ![Len(stack)] = st]
    BY DEF WriteRow, Top
<1>6. UNCHANGED <<frames, subs>>
    BY DEF WriteRow
<1>7. /\ stack' \in Seq(Statement) /\ Len(stack') = Len(stack)
      /\ FramesFollowStatements' /\ SavedFrames'
    BY <1>1, <1>4, <1>5, <1>6, TopFrames
<1>8. base' \in Rows
    BY <1>1 DEF FrameInv, TypeOK, Rows, WriteRow
<1>9. TypeOK'
    BY <1>1, <1>7, <1>8 DEF FrameInv, TypeOK, WriteRow, OwnTurn, Active
<1> QED
    BY <1>7, <1>9 DEF FrameInv

LEMMA EndRunFrames == FrameInv /\ EndRun => FrameInv'
<1> SUFFICES ASSUME FrameInv, EndRun
             PROVE  FrameInv'
    OBVIOUS
<1> DEFINE st == [Top EXCEPT !.phase = "finish"]
<1>1. OwnTurn /\ Top \in Statement
    BY TopIs DEF FrameInv, EndRun
<1>2. st \in Statement /\ st.kind = Top.kind
    BY <1>1 DEF Statement
<1>3. stack' = [stack EXCEPT ![Len(stack)] = st] /\ UNCHANGED <<frames, subs>>
    BY DEF EndRun, Top
<1>4. /\ stack' \in Seq(Statement) /\ Len(stack') = Len(stack)
      /\ FramesFollowStatements' /\ SavedFrames'
    BY <1>1, <1>2, <1>3, TopFrames
<1>5. TypeOK'
    BY <1>1, <1>4 DEF FrameInv, TypeOK, EndRun, OwnTurn, Active
<1> QED
    BY <1>4, <1>5 DEF FrameInv

\* What a row trigger queues, or notes while suspended.
LEMMA RowTriggerTypes ==
    ASSUME TypeOK, NEW event \in [key : RowKey, version : Value, patch : Patches],
           RowTrigger(event)
    PROVE  work' \in Work /\ suspension' \in Suspension /\ (Suspended' <=> Suspended)
<1>1. CASE Suspended
    BY <1>1 DEF TypeOK, RowTrigger, Suspension, Entity, Suspended
<1>2. CASE ~Suspended
    <2>1. [own |-> event.version] \in Fields
        BY FieldsOf
    <2>2. EnqueuedPatched(work, event.key, [own |-> event.version]) \in Work
        BY <2>1, EnqueuedPatchedWork DEF TypeOK
    <2>3. Enqueued(work, event.key) \in Work
        BY EnqueuedWork DEF TypeOK
    <2> QED
        BY <1>2, <2>2, <2>3 DEF TypeOK, RowTrigger, Suspended
<1> QED
    BY <1>1, <1>2

LEMMA FireRowFrames == FrameInv /\ FireRow => FrameInv'
<1> SUFFICES ASSUME FrameInv, FireRow
             PROVE  FrameInv'
    OBVIOUS
<1> DEFINE Event == [key : RowKey, version : Value, patch : Patches]
           st == [Top EXCEPT !.events = Tail(@)]
<1>1. OwnTurn /\ Top \in Statement /\ Top.events \in Seq(Event) /\ Top.events # <<>>
    BY TopIs DEF FrameInv, FireRow, Statement
<1>2. Head(Top.events) \in Event /\ Tail(Top.events) \in Seq(Event)
    BY <1>1, HeadTailProperties
<1>3. st \in Statement /\ st.kind = Top.kind
    BY <1>1, <1>2 DEF Statement
<1>4. stack' = [stack EXCEPT ![Len(stack)] = st] /\ UNCHANGED <<frames, subs>>
    BY DEF FireRow, Top
<1>5. /\ stack' \in Seq(Statement) /\ Len(stack') = Len(stack)
      /\ FramesFollowStatements' /\ SavedFrames'
    BY <1>1, <1>3, <1>4, TopFrames
<1>6. work' \in Work /\ suspension' \in Suspension
    BY <1>2, RowTriggerTypes DEF FrameInv, FireRow
<1>7. TypeOK'
    BY <1>1, <1>5, <1>6 DEF FrameInv, TypeOK, FireRow, OwnTurn, Active
<1> QED
    BY <1>5, <1>7 DEF FrameInv

LEMMA FireFlushFrames == FrameInv /\ FireFlush => FrameInv'
<1> SUFFICES ASSUME FrameInv, FireFlush
             PROVE  FrameInv'
    OBVIOUS
<1> DEFINE st == [Top EXCEPT !.flushed = TRUE]
<1>1. OwnTurn /\ Top \in Statement
    BY TopIs DEF FrameInv, FireFlush
<1>2. st \in Statement /\ st.kind = Top.kind
    BY <1>1 DEF Statement
<1>3. stack' = [stack EXCEPT ![Len(stack)] = st] /\ UNCHANGED <<frames, subs>>
    BY DEF FireFlush, Top
<1>4. /\ stack' \in Seq(Statement) /\ Len(stack') = Len(stack)
      /\ FramesFollowStatements' /\ SavedFrames'
    BY <1>1, <1>2, <1>3, TopFrames
<1>5. tv' \in Rows /\ work' \in Work
    BY RefreshTypes DEF FrameInv, TypeOK, FireFlush
<1>6. TypeOK'
    BY <1>1, <1>4, <1>5 DEF FrameInv, TypeOK, FireFlush, OwnTurn, Active
<1> QED
    BY <1>4, <1>6 DEF FrameInv

\* What a session calls leaves its statements alone.
LEMMA CallFrames == FrameInv /\ (Suspend \/ Resume \/ FlushAndReport) => FrameInv'
<1> SUFFICES ASSUME FrameInv, Suspend \/ Resume \/ FlushAndReport
             PROVE  FrameInv'
    OBVIOUS
<1>1. Active /\ UNCHANGED <<base, writes, stack, frames, subs, start, warned>>
    BY DEF Suspend, Resume, FlushAndReport
<1>2. tv' \in Rows /\ work' \in Work
    BY RefreshTypes DEF FrameInv, TypeOK, Suspend, Resume, FlushAndReport
<1>3. suspension' \in Suspension
    BY BoundTypes DEF FrameInv, TypeOK, Suspend, Resume, FlushAndReport, Suspension, Resumed, Suspended
<1>4. TypeOK'
    BY <1>1, <1>2, <1>3 DEF FrameInv, TypeOK, Active
<1> QED
    BY <1>1, <1>4, SameKinds DEF FrameInv, TypeOK

\* What the invariant says of one statement, and of one savepoint.
LEMMA FramesAre ==
    ASSUME FrameInv
    PROVE  /\ Len(stack) \in 0..MaxNest /\ DOMAIN stack = 1..Len(stack)
           /\ Len(frames) = FramesOf(stack, Len(stack))
           /\ DOMAIN frames = 1..Len(frames)
           /\ Len(subs) \in Nat /\ DOMAIN subs = 1..Len(subs)
           /\ \A i \in 1..Len(subs) :
                /\ subs[i] \in Saved /\ subs[i].nest \in 0..Len(stack)
                /\ subs[i].frames = FramesOf(stack, subs[i].nest)
<1>1. stack \in Seq(Statement) /\ frames \in Seq(BOOLEAN) /\ subs \in Seq(Saved)
    BY DEF FrameInv, TypeOK
<1>2. /\ DOMAIN stack = 1..Len(stack) /\ Len(stack) \in Nat
      /\ DOMAIN frames = 1..Len(frames)
      /\ Len(subs) \in Nat /\ DOMAIN subs = 1..Len(subs)
    BY <1>1, LenProperties
<1>3. Len(stack) \in 0..MaxNest
    BY <1>2, BoundTypes DEF FrameInv, TypeOK
<1>4. \A i \in 1..Len(subs) : subs[i] \in Saved
    BY <1>1, ElementOfSeq
<1>5. \A i \in 1..Len(subs) :
        subs[i].nest \in Nat /\ subs[i].nest <= Len(stack)
          /\ subs[i].frames = FramesOf(stack, subs[i].nest)
    BY <1>2, <1>4, BoundTypes DEF FrameInv, SavedFrames, Saved
<1> QED
    BY <1>2, <1>3, <1>4, <1>5 DEF FrameInv, FramesFollowStatements

LEMMA StartFrames == ASSUME FrameInv, NEW kind \in Kinds, Start(kind) PROVE FrameInv'
<1> DEFINE st == [kind |-> kind, phase |-> "run", rows |-> {}, events |-> <<>>, flushed |-> FALSE]
           n == Len(stack)
<1>1. st \in Statement
    BY EmptySeq DEF Statement
<1>2. stack' = Append(stack, st) /\ n \in 0..MaxNest /\ n < MaxNest /\ n \in Nat
    BY FramesAre, BoundTypes DEF Start
<1>3. /\ stack' \in Seq(Statement) /\ Len(stack') = n + 1 /\ stack'[n + 1] = st
      /\ \A i \in 1..n : stack'[i] = stack[i]
    <2>1. stack \in Seq(Statement)
        BY DEF FrameInv, TypeOK
    <2> HIDE DEF st
    <2> QED
        BY <1>1, <1>2, <2>1, AppendProperties
<1>4. \A m \in 0..n : FramesOf(stack', m) = FramesOf(stack, m)
    <2> TAKE m \in 0..n
    <2>1. m \in Nat /\ \A i \in 1..m : stack[i].kind = stack'[i].kind
        BY <1>2, <1>3
    <2> QED
        BY <2>1, FramesAgree
<1>5. FramesOf(stack', n + 1) = FramesOf(stack, n) + (IF Framed(kind) THEN 1 ELSE 0)
    <2>1. FramesOf(stack', n + 1) = FramesOf(stack', n) + (IF Framed(stack'[n + 1].kind) THEN 1 ELSE 0)
        BY <1>2, FramesNext
    <2>2. n \in 0..n /\ stack'[n + 1].kind = kind
        BY <1>2, <1>3
    <2> QED
        BY <1>4, <2>1, <2>2
<1>6. FramesOf(stack, n) \in Nat /\ Len(frames) = FramesOf(stack, n)
    BY <1>2, FramesCount, FramesAre
<1>7. /\ frames' \in Seq(BOOLEAN)
      /\ Len(frames') = FramesOf(stack', n + 1)
      /\ Framed(kind) => frames'[FramesOf(stack', n + 1)] = (kind = "write")
      /\ \A i \in 1..Len(frames) : frames'[i] = frames[i]
    <2>1. frames \in Seq(BOOLEAN)
        BY DEF FrameInv, TypeOK
    <2>2. CASE Framed(kind)
        <3>1. frames' = Append(frames, kind = "write") /\ (kind = "write") \in BOOLEAN
            BY <2>2 DEF Start
        <3> HIDE DEF n
        <3> QED
            BY <1>5, <1>6, <2>1, <2>2, <3>1, AppendProperties
    <2>3. CASE ~Framed(kind)
        BY <1>5, <1>6, <2>1, <2>3 DEF Start
    <2> QED
        BY <2>2, <2>3
<1>8. FramesFollowStatements'
    <2>1. ASSUME NEW i \in 1..n, Framed(stack'[i].kind)
          PROVE  frames'[FramesOf(stack', i)] = (stack'[i].kind = "write")
        <3>1. Framed(stack[i].kind) /\ i \in Nat /\ i - 1 \in Nat /\ (i - 1) + 1 = i /\ i <= n
            BY <1>2, <1>3, <2>1
        <3>2. FramesOf(stack, i) \in 1..Len(frames)
            BY <1>2, <1>6, <3>1, FramesWithin
        <3>3. frames[FramesOf(stack, i)] = (stack[i].kind = "write")
            BY <3>1, FramesAre DEF FrameInv, FramesFollowStatements
        <3> QED
            BY <1>3, <1>4, <1>7, <3>2, <3>3
    <2>2. DOMAIN stack' = 1..(n + 1)
        BY <1>3, LenProperties
    <2>3. \A i \in 1..(n + 1) : i \in 1..n \/ i = n + 1
        BY <1>2
    <2> HIDE DEF n, st
    <2>4. st.kind = kind
        BY DEF st
    <2> QED
        BY <1>3, <1>7, <2>1, <2>2, <2>3, <2>4 DEF FramesFollowStatements
<1>9. subs' = subs
    BY DEF Start
<1>10. SavedFrames'
    <2>1. \A i \in DOMAIN subs : subs[i].nest \in 0..n /\ subs[i].frames = FramesOf(stack', subs[i].nest)
        BY <1>4, FramesAre
    <2>2. \A i \in DOMAIN subs : subs[i].nest <= Len(stack')
        BY <1>2, <1>3, <2>1
    <2> QED
        BY <1>9, <2>1, <2>2 DEF FrameInv, SavedFrames
<1>11. TypeOK'
    BY <1>2, <1>3, <1>7, BoundTypes DEF FrameInv, TypeOK, Start, Active
<1> QED
    BY <1>8, <1>10, <1>11 DEF FrameInv

\* The m outermost statements are left, and their frames.
LEMMA CutFrames ==
    ASSUME FrameInv, NEW m \in 0..Len(stack), stack' \in Seq(Statement), Len(stack') = m,
           \A i \in 1..m : stack'[i].kind = stack[i].kind,
           frames' = SubSeq(frames, 1, FramesOf(stack, m))
    PROVE  /\ frames' \in Seq(BOOLEAN) /\ FramesFollowStatements'
           /\ \A i \in 0..m : FramesOf(stack', i) = FramesOf(stack, i)
<1>1. Len(stack) \in Nat /\ m \in Nat /\ m <= Len(stack)
    BY FramesAre, BoundTypes
<1>2. \A i \in 0..m : FramesOf(stack', i) = FramesOf(stack, i)
    <2> TAKE i \in 0..m
    <2>1. i \in Nat /\ \A j \in 1..i : stack[j].kind = stack'[j].kind
        BY <1>1
    <2> QED
        BY <2>1, FramesAgree
<1>3. FramesOf(stack, m) \in Nat /\ FramesOf(stack, m) <= Len(frames)
    BY <1>1, FramesCount, FramesGrow, FramesAre
<1>4. /\ frames' \in Seq(BOOLEAN) /\ Len(frames') = FramesOf(stack, m)
      /\ \A i \in 1..FramesOf(stack, m) : frames'[i] = frames[i]
    <2> DEFINE d == FramesOf(stack, m)
    <2>1. \A i \in 1..d : frames[i] \in BOOLEAN
        BY <1>3, FramesAre DEF FrameInv, TypeOK
    <2>2. d \in Int /\ 1 \in Int
        BY <1>3
    <2>3. SubSeq(frames, 1, d) \in Seq(BOOLEAN)
          /\ Len(SubSeq(frames, 1, d)) = (IF 1 <= d THEN d - 1 + 1 ELSE 0)
          /\ \A i \in 1..(d - 1 + 1) : SubSeq(frames, 1, d)[i] = frames[1 + i - 1]
        <3> HIDE DEF d
        <3> QED
            BY <2>1, <2>2, SubSeqProperties
    <2>4. d - 1 + 1 = d /\ (1 <= d \/ d = 0)
        BY <1>3
    <2>5. \A i \in 1..d : 1 + i - 1 = i
        BY <1>3
    <2> QED
        BY <2>3, <2>4, <2>5
<1>5. ASSUME NEW i \in 1..m, Framed(stack'[i].kind)
      PROVE  frames'[FramesOf(stack', i)] = (stack'[i].kind = "write")
    <2>1. Framed(stack[i].kind) /\ i \in 1..Len(stack) /\ i \in 0..m
        BY <1>1, <1>5
    <2>2. FramesOf(stack, i) \in 1..FramesOf(stack, m)
        BY <1>1, <2>1, FramesWithin
    <2>3. frames[FramesOf(stack, i)] = (stack[i].kind = "write")
        BY <2>1, FramesAre DEF FrameInv, FramesFollowStatements
    <2> QED
        BY <1>2, <1>4, <2>1, <2>2, <2>3
<1>6. FramesFollowStatements'
    <2>1. DOMAIN stack' = 1..m /\ m \in 0..m
        BY <1>1, LenProperties
    <2> QED
        BY <1>2, <1>4, <1>5, <2>1 DEF FramesFollowStatements
<1> QED
    BY <1>2, <1>4, <1>6

\* The statements around the one that ends.
LEMMA PoppedIs ==
    ASSUME TypeOK, OwnTurn
    PROVE  /\ Popped \in Seq(Statement) /\ Len(Popped) = Len(stack) - 1
           /\ \A i \in 1..(Len(stack) - 1) :
                Popped[i].kind = stack[i].kind /\ Popped[i].events = stack[i].events
<1> DEFINE n == Len(stack)
<1>1. n \in 1..MaxNest /\ Top \in Statement /\ n \in Nat /\ stack \in Seq(Statement)
    BY TopIs, BoundTypes DEF TypeOK
<1>2. CASE n = 1
    BY <1>2, EmptySeq DEF Popped
<1>3. CASE n # 1
    <2> DEFINE q == Front(stack)
               st == [stack[n - 1] EXCEPT !.rows = @ \cup Top.rows]
    <2>0. n \in Nat /\ n > 1
        <3> HIDE DEF n
        <3> QED
            BY <1>1, <1>3, BoundTypes
    <2>1. n - 1 \in Nat \ {0} /\ n - 1 \in Int /\ n - 1 \in 1..(n - 1) /\ n - 1 \in 1..n
        <3> HIDE DEF n
        <3> QED
            BY <2>0
    <2>2. q = SubSeq(stack, 1, n - 1)
        BY DEF Front
    <2>3. \A i \in 1..(n - 1) : stack[i] \in Statement
        BY <1>1, ElementOfSeq
    <2>4. q \in Seq(Statement) /\ Len(q) = n - 1 /\ \A i \in 1..(n - 1) : q[i] = stack[i]
        <3>1. /\ SubSeq(stack, 1, n - 1) \in Seq(Statement)
              /\ Len(SubSeq(stack, 1, n - 1)) = (IF 1 <= n - 1 THEN n - 1 - 1 + 1 ELSE 0)
              /\ \A i \in 1..(n - 1 - 1 + 1) : SubSeq(stack, 1, n - 1)[i] = stack[1 + i - 1]
            <4> HIDE DEF n
            <4> QED
                BY <2>1, <2>3, SubSeqProperties
        <3> QED
            BY <2>1, <2>2, <3>1
    <2>5. st \in Statement /\ st.kind = stack[n - 1].kind /\ st.events = stack[n - 1].events
        BY <1>1, <2>1, <2>3 DEF Statement
    <2>6. Popped = [q EXCEPT ![n - 1] = st]
        BY <1>3, <2>1, <2>4 DEF Popped
    <2> HIDE DEF q, st
    <2> QED
        BY <2>1, <2>4, <2>5, <2>6, ExceptSeq
<1> QED
    BY <1>2, <1>3

LEMMA FinishFrames == FrameInv /\ Finish => FrameInv'
<1> SUFFICES ASSUME FrameInv, Finish
             PROVE  FrameInv'
    OBVIOUS
<1> DEFINE n == Len(stack)
<1>1. OwnTurn /\ TypeOK /\ n \in 1..MaxNest /\ n \in Nat /\ n - 1 \in Nat /\ n - 1 \in 0..n
    BY TopIs, BoundTypes DEF FrameInv, Finish
<1>2. /\ stack' \in Seq(Statement) /\ Len(stack') = n - 1
      /\ \A i \in 1..(n - 1) : stack'[i].kind = stack[i].kind
    BY <1>1, PoppedIs DEF Finish
<1>3. /\ Len(frames) = FramesOf(stack, n - 1) + (IF Framed(Top.kind) THEN 1 ELSE 0)
      /\ FramesOf(stack, n - 1) \in Nat
    <2>1. (n - 1) + 1 = n
        BY <1>1
    <2>2. FramesOf(stack, (n - 1) + 1)
            = FramesOf(stack, n - 1) + (IF Framed(stack[(n - 1) + 1].kind) THEN 1 ELSE 0)
        BY <1>1, FramesNext
    <2> QED
        BY <1>1, <2>1, <2>2, FramesAre, FramesCount DEF Top
<1>4. frames' = SubSeq(frames, 1, FramesOf(stack, n - 1))
    <2>1. CASE Framed(Top.kind)
        <3>1. frames' = SubSeq(frames, 1, Len(frames) - 1)
            BY <2>1 DEF Finish, Front
        <3>2. Len(frames) - 1 = FramesOf(stack, n - 1)
            BY <1>3, <2>1
        <3> QED
            BY <3>1, <3>2
    <2>2. CASE ~Framed(Top.kind)
        <3>1. frames \in Seq(BOOLEAN) /\ Len(frames) = FramesOf(stack, n - 1)
            BY <1>1, <1>3, <2>2 DEF TypeOK
        <3> QED
            BY <2>2, <3>1, SubSeqFull DEF Finish
    <2> QED
        BY <2>1, <2>2
<1>5. /\ frames' \in Seq(BOOLEAN) /\ FramesFollowStatements'
      /\ \A i \in 0..(n - 1) : FramesOf(stack', i) = FramesOf(stack, i)
    <2> HIDE DEF n
    <2>1. n - 1 \in 0..Len(stack)
        BY <1>1 DEF n
    <2> QED
        BY <1>2, <1>4, <2>1, CutFrames
<1>6. subs' = subs /\ \A i \in 1..Len(subs) : subs[i].nest \in 0..(n - 1)
    <2>1. ASSUME NEW i \in 1..Len(subs)
          PROVE  subs[i].nest \in 0..(n - 1)
        <3>1. /\ Len(subs) \in Nat /\ Len(subs) \in DOMAIN subs /\ i \in DOMAIN subs
              /\ i <= Len(subs) /\ subs # <<>>
            BY <2>1, FramesAre, EmptySeq DEF FrameInv, TypeOK
        <3>2. subs[Len(subs)].nest < n /\ subs[i].nest <= subs[Len(subs)].nest
            BY <1>1, <3>1 DEF OwnTurn, FrameInv, SavedFrames
        <3>3. subs[i].nest \in 0..n /\ subs[Len(subs)].nest \in 0..n
            BY <3>1, FramesAre
        <3> QED
            BY <1>1, <3>2, <3>3
    <2> QED
        BY <2>1 DEF Finish
<1>7. SavedFrames'
    <2>1. \A i \in 1..Len(subs) : subs[i].frames = FramesOf(stack', subs[i].nest)
        BY <1>5, <1>6, FramesAre
    <2>2. \A i \in 1..Len(subs) : subs[i].nest <= Len(stack')
        BY <1>1, <1>2, <1>6
    <2> QED
        BY <1>6, <2>1, <2>2, FramesAre DEF FrameInv, SavedFrames
<1>8. tv' \in Rows /\ work' \in Work
    BY <1>1, RefreshTypes DEF TypeOK, Finish
<1>9. TypeOK'
    BY <1>1, <1>2, <1>5, <1>8, BoundTypes DEF TypeOK, Finish, OwnTurn, Active
<1> QED
    BY <1>5, <1>7, <1>9 DEF FrameInv

LEMMA SubStartFrames == FrameInv /\ SubStart => FrameInv'
<1> SUFFICES ASSUME FrameInv, SubStart
             PROVE  FrameInv'
    OBVIOUS
<1> DEFINE n == Len(subs)
           sub == [nest |-> Len(stack), base |-> base, tv |-> tv, work |-> work,
                   frames |-> Len(frames), suspension |-> suspension]
<1>1. sub \in Saved
    BY FramesAre, FramesCount, BoundTypes DEF FrameInv, TypeOK, Saved
<1>2. subs \in Seq(Saved) /\ subs' = Append(subs, sub) /\ n \in Nat
    BY FramesAre DEF FrameInv, TypeOK, SubStart
<1>3. /\ subs' \in Seq(Saved) /\ Len(subs') = n + 1 /\ subs'[n + 1] = sub
      /\ \A i \in 1..n : subs'[i] = subs[i]
    <2> HIDE DEF sub
    <2> QED
        BY <1>1, <1>2, AppendProperties
<1>4. DOMAIN subs' = 1..(n + 1) /\ \A i \in 1..(n + 1) : i \in 1..n \/ i = n + 1
    BY <1>2, <1>3, LenProperties
<1>5. sub.nest = Len(stack) /\ sub.frames = FramesOf(stack, Len(stack)) /\ Len(stack) \in Nat
    BY FramesAre, BoundTypes
<1>6. SavedFrames'
    <2> HIDE DEF sub
    <2>1. \A i \in 1..n : subs[i].nest \in 0..Len(stack) /\ subs[i].frames = FramesOf(stack, subs[i].nest)
        BY FramesAre
    <2>2. \A i \in 1..(n + 1) : /\ subs'[i].nest <= Len(stack)
                                /\ subs'[i].frames = FramesOf(stack, subs'[i].nest)
        BY <1>3, <1>4, <1>5, <2>1
    <2>3. ASSUME NEW i \in 1..(n + 1), NEW j \in 1..(n + 1), i <= j
          PROVE  subs'[i].nest <= subs'[j].nest
        <3>1. CASE j = n + 1
            BY <1>3, <1>5, <2>2, <3>1
        <3>2. CASE j \in 1..n
            <4>1. i \in 1..n
                BY <1>2, <2>3, <3>2
            <4>2. i \in DOMAIN subs /\ j \in DOMAIN subs
                BY <3>2, <4>1, FramesAre
            <4> QED
                BY <1>3, <2>3, <3>2, <4>1, <4>2 DEF FrameInv, SavedFrames
        <3> QED
            BY <1>4, <3>1, <3>2
    <2>4. stack' = stack
        BY DEF SubStart
    <2> QED
        BY <1>4, <2>2, <2>3, <2>4 DEF SavedFrames
<1>7. TypeOK'
    BY <1>3 DEF FrameInv, TypeOK, SubStart, Active
<1>8. FramesFollowStatements'
    BY DEF FrameInv, FramesFollowStatements, SubStart
<1> QED
    BY <1>6, <1>7, <1>8 DEF FrameInv

\* The savepoints around the innermost.
LEMMA FrontIs ==
    ASSUME FrameInv, subs # <<>>
    PROVE  /\ Len(subs) \in Nat \ {0} /\ Len(subs) \in 1..Len(subs)
           /\ Front(subs) \in Seq(Saved) /\ Len(Front(subs)) = Len(subs) - 1
           /\ DOMAIN Front(subs) = 1..(Len(subs) - 1)
           /\ \A i \in 1..(Len(subs) - 1) : i \in 1..Len(subs) /\ Front(subs)[i] = subs[i]
<1> DEFINE n == Len(subs)
<1>1. subs \in Seq(Saved) /\ n \in Nat \ {0} /\ n - 1 \in Nat
    BY EmptySeq DEF FrameInv, TypeOK
<1>2. \A i \in 1..(n - 1) : i \in 1..n /\ subs[i] \in Saved
    BY <1>1, FramesAre
<1>3. /\ SubSeq(subs, 1, n - 1) \in Seq(Saved)
      /\ Len(SubSeq(subs, 1, n - 1)) = (IF 1 <= n - 1 THEN n - 1 - 1 + 1 ELSE 0)
      /\ \A i \in 1..(n - 1 - 1 + 1) : SubSeq(subs, 1, n - 1)[i] = subs[1 + i - 1]
    <2>1. n - 1 \in Int /\ 1 \in Int
        BY <1>1
    <2> HIDE DEF n
    <2> QED
        BY <1>2, <2>1, SubSeqProperties
<1>4. Front(subs) = SubSeq(subs, 1, n - 1)
    BY DEF Front
<1>5. Len(Front(subs)) = n - 1 /\ \A i \in 1..(n - 1) : Front(subs)[i] = subs[i]
    <2> HIDE DEF n
    <2>1. n - 1 - 1 + 1 = n - 1 /\ (1 <= n - 1 \/ n - 1 = 0)
        BY <1>1
    <2>2. \A i \in 1..(n - 1) : 1 + i - 1 = i
        BY <1>1
    <2> QED
        BY <1>3, <1>4, <2>1, <2>2
<1>6. DOMAIN Front(subs) = 1..(n - 1)
    BY <1>3, <1>4, <1>5, LenProperties
<1> QED
    BY <1>1, <1>2, <1>3, <1>4, <1>5, <1>6

LEMMA SubCommitFrames == FrameInv /\ SubCommit => FrameInv'
<1> SUFFICES ASSUME FrameInv, SubCommit
             PROVE  FrameInv'
    OBVIOUS
<1>1. subs # <<>> /\ subs' = Front(subs)
    BY DEF SubCommit
<1>2. SavedFrames'
    BY <1>1, FrontIs, FramesAre DEF FrameInv, SavedFrames, SubCommit
<1>3. TypeOK'
    BY <1>1, FrontIs DEF FrameInv, TypeOK, SubCommit, Active
<1>4. FramesFollowStatements'
    BY DEF FrameInv, FramesFollowStatements, SubCommit
<1> QED
    BY <1>2, <1>3, <1>4 DEF FrameInv

LEMMA SubAbortFrames == FrameInv /\ SubAbort => FrameInv'
<1> SUFFICES ASSUME FrameInv, SubAbort
             PROVE  FrameInv'
    OBVIOUS
<1> DEFINE n == Len(subs)
           m == subs[n].nest
<1>1. subs # <<>> /\ subs' = Front(subs)
    BY DEF SubAbort
<1>2. n \in 1..n /\ subs[n] \in Saved /\ m \in 0..Len(stack) /\ subs[n].frames = FramesOf(stack, m)
    BY <1>1, FrontIs, FramesAre
<1>3. Len(stack) \in Nat /\ m \in Nat /\ m <= Len(stack)
    BY <1>2, FramesAre, BoundTypes
<1>4. /\ stack' \in Seq(Statement) /\ Len(stack') = m
      /\ \A i \in 1..m : stack'[i] = stack[i]
    <2>1. stack' = SubSeq(stack, 1, m) /\ m \in Int /\ 1 \in Int
        BY <1>3 DEF SubAbort
    <2>2. stack \in Seq(Statement) /\ \A i \in 1..m : i \in 1..Len(stack)
        BY <1>3 DEF FrameInv, TypeOK
    <2>3. \A i \in 1..m : stack[i] \in Statement
        BY <2>2, ElementOfSeq
    <2>4. /\ stack' \in Seq(Statement)
          /\ Len(stack') = (IF 1 <= m THEN m - 1 + 1 ELSE 0)
          /\ \A i \in 1..(m - 1 + 1) : stack'[i] = stack[1 + i - 1]
        <3> HIDE DEF m
        <3> QED
            BY <2>1, <2>3, SubSeqProperties
    <2> QED
        BY <1>3, <2>4
<1>5. frames' = SubSeq(frames, 1, FramesOf(stack, m))
    BY <1>2 DEF SubAbort, Truncated
<1>6. /\ frames' \in Seq(BOOLEAN) /\ FramesFollowStatements'
      /\ \A i \in 0..m : FramesOf(stack', i) = FramesOf(stack, i)
    <2> HIDE DEF m
    <2> QED
        BY <1>2, <1>4, <1>5, CutFrames
<1>7. ASSUME NEW i \in 1..(n - 1)
      PROVE  /\ Front(subs)[i].nest \in 0..m
             /\ Front(subs)[i].frames = FramesOf(stack', Front(subs)[i].nest)
    <2>1. i \in 1..n /\ n \in 1..n /\ i <= n /\ Front(subs)[i] = subs[i]
        BY <1>1, <1>7, FrontIs
    <2>2. subs[i].nest <= m /\ subs[i].nest \in 0..Len(stack)
        BY <2>1, FramesAre DEF FrameInv, SavedFrames
    <2>3. subs[i].nest \in 0..m
        BY <1>3, <2>2
    <2> QED
        BY <1>6, <2>1, <2>3, FramesAre
<1>8. SavedFrames'
    <2>1. \A i \in 1..(n - 1) : Front(subs)[i].nest <= Len(stack')
        BY <1>3, <1>4, <1>7
    <2>2. \A i, j \in 1..(n - 1) : i <= j => Front(subs)[i].nest <= Front(subs)[j].nest
        BY <1>1, FrontIs, FramesAre DEF FrameInv, SavedFrames
    <2>3. DOMAIN subs' = 1..(n - 1)
        BY <1>1, FrontIs
    <2> QED
        BY <1>1, <1>7, <2>1, <2>2, <2>3 DEF SavedFrames
<1>9. TypeOK'
    <2>1. /\ base' \in Rows /\ tv' \in Rows /\ work' \in Work /\ suspension' \in Suspension
          /\ writes' = writes /\ start' = start /\ warned' = warned /\ Active
        BY <1>2 DEF SubAbort, Saved, RolledBackTo, Restored
    <2>2. Len(stack') <= MaxNest
        BY <1>3, <1>4, BoundTypes DEF FrameInv, TypeOK
    <2>3. subs' \in Seq(Saved)
        BY <1>1, FrontIs
    <2> QED
        BY <1>4, <1>6, <2>1, <2>2, <2>3 DEF FrameInv, TypeOK, Active
<1> QED
    BY <1>6, <1>8, <1>9 DEF FrameInv

\* Nothing is left of the transaction.
LEMMA ResetFrames ==
    ASSUME Reset
    PROVE  /\ stack' \in Seq(Statement) /\ Len(stack') = 0 /\ frames' \in Seq(BOOLEAN)
           /\ subs' \in Seq(Saved) /\ work' \in Work /\ IsEmpty(work') /\ start' = None
           /\ FramesFollowStatements' /\ SavedFrames'
<1>1. /\ stack' = <<>> /\ frames' = <<>> /\ subs' = <<>> /\ start' = None /\ work' = Nothing
    BY DEF Reset
<1>2. Len(<<>>) = 0 /\ DOMAIN <<>> = {}
    OBVIOUS
<1>3. FramesFollowStatements' /\ SavedFrames'
    BY <1>1, <1>2, FramesNone DEF FramesFollowStatements, SavedFrames
<1>4. IsEmpty(Nothing)
    BY DEF IsEmpty, Nothing
<1> QED
    BY <1>1, <1>2, <1>3, <1>4, NothingType, EmptySeq

LEMMA EndFrames == FrameInv /\ (Commit \/ ImplicitCommit \/ FailUnflushed \/ Abort) => FrameInv'
<1> SUFFICES ASSUME FrameInv, Commit \/ ImplicitCommit \/ FailUnflushed \/ Abort
             PROVE  FrameInv'
    OBVIOUS
<1>1. Reset /\ writes' = writes
    BY DEF Commit, ImplicitCommit, FailUnflushed, Abort, Undone
<1>2. base' \in Rows /\ tv' \in Rows
    <2>1. CASE Commit
        BY <2>1, RefreshTypes DEF FrameInv, TypeOK, Commit
    <2>2. CASE ImplicitCommit
        BY <2>2 DEF FrameInv, TypeOK, ImplicitCommit
    <2>3. CASE FailUnflushed \/ Abort
        BY <2>3 DEF FrameInv, TypeOK, FailUnflushed, Abort, Undone, Active
    <2> QED
        BY <2>1, <2>2, <2>3
<1>3. suspension' \in Suspension /\ ~Suspended' /\ warned' \subseteq Entity
    BY BoundTypes DEF FrameInv, TypeOK, Commit, ImplicitCommit, FailUnflushed, Abort, Undone,
         Ended, Suspension, Suspended
<1>4. TypeOK'
    BY <1>1, <1>2, <1>3, ResetFrames, BoundTypes DEF FrameInv, TypeOK, Reset
<1> QED
    BY <1>1, <1>4, ResetFrames DEF FrameInv

LEMMA StutterFrames == FrameInv /\ UNCHANGED vars => FrameInv'
    BY DEF FrameInv, TypeOK, FramesFollowStatements, SavedFrames, vars, Active, Suspended

LEMMA InitFrames == Init => FrameInv
<1> SUFFICES ASSUME Init
             PROVE  FrameInv
    OBVIOUS
<1>1. Len(<<>>) = 0 /\ DOMAIN <<>> = {}
    OBVIOUS
<1>2. FramesFollowStatements /\ SavedFrames
    BY <1>1, FramesNone DEF Init, FramesFollowStatements, SavedFrames
<1>3. IsEmpty(Nothing)
    BY DEF IsEmpty, Nothing
<1>4. TypeOK
    BY <1>1, <1>3, NothingType, EmptySeq, BoundTypes, Keys
    DEF Init, TypeOK, Rows, Resumed, Suspension, Suspended, Active, Statement, Saved
<1> QED
    BY <1>2, <1>4 DEF FrameInv

LEMMA NextFrames == FrameInv /\ [Next]_vars => FrameInv'
    BY BeginFrames, StartFrames, WriteFrames, EndRunFrames, FireRowFrames, FireFlushFrames,
       FinishFrames, CallFrames, SubStartFrames, SubCommitFrames, SubAbortFrames, EndFrames,
       StutterFrames DEF Next

\* Every reachable state is well typed.
THEOREM TypeCorrect == Spec => []TypeOK
<1>1. FrameInv => TypeOK
    BY DEF FrameInv
<1> QED
    BY <1>1, InitFrames, NextFrames, PTL DEF Spec

\* The executor hooks' frames are those of the statements running, through
\* nested statements, errors caught by blocks, and ends of transactions.
THEOREM FramesFollow == Spec => []FramesFollowStatements
<1>1. FrameInv => FramesFollowStatements
    BY DEF FrameInv
<1> QED
    BY <1>1, InitFrames, NextFrames, PTL DEF Spec

-----------------------------------------------------------------------------
(* Nothing stale is left without its refresh, where nothing is patched. *)

NoPatches == Patches = {FALSE}

\* A row queued is computed again, the others stay.
LEMMA FlushedIs ==
    ASSUME NEW t \in Rows, NEW w, Patchless(w), NEW k \in RowKey
    PROVE  Flushed(t, w)[k] = IF k \in QueueOf(w) THEN base[k] ELSE t[k]
    BY DEF Flushed, Patchless

LEMMA NothingIs == QueueOf(Nothing) = {} /\ Patchless(Nothing) /\ \A w : IsEmpty(w) => QueueOf(w) = {}
    BY Markers, SlotTypes DEF QueueOf, Nothing, Patchless, IsEmpty

LEMMA EventsAre ==
    ASSUME TypeOK, NEW i \in 1..Len(stack)
    PROVE  /\ stack[i] \in Statement
           /\ stack[i].events \in Seq([key : RowKey, version : Value, patch : Patches])
           /\ DOMAIN stack[i].events = 1..Len(stack[i].events)
<1>1. stack[i] \in Statement
    BY ElementOfSeq DEF TypeOK
<1>2. stack[i].events \in Seq([key : RowKey, version : Value, patch : Patches])
    BY <1>1 DEF Statement
<1> QED
    BY <1>1, <1>2, LenProperties

\* More statements fire no fewer rows; only their events matter.
LEMMA FiresMore ==
    ASSUME NEW q, NEW r, NEW m \in Nat, NEW n \in Nat, m <= n,
           \A i \in 1..m : q[i].events = r[i].events,
           NEW k, FiresIn(q, m, k)
    PROVE  FiresIn(r, n, k)
<1>1. PICK i \in 1..m : \E j \in DOMAIN q[i].events : q[i].events[j].key = k
    BY DEF FiresIn
<1>2. i \in 1..n /\ \E j \in DOMAIN r[i].events : r[i].events[j].key = k
    BY <1>1
<1> QED
    BY <1>2 DEF FiresIn

\* What a savepoint restores stays covered while the statements around its
\* block keep their events.
LEMMA SavedStay ==
    ASSUME NEW sub \in Saved, NEW q, NEW r, NEW wn, NEW wm, wn \subseteq wm,
           \A i \in 1..sub.nest : q[i].events = r[i].events, CoveredAt(sub, q, wn)
    PROVE  CoveredAt(sub, r, wm)
<1>1. sub.nest \in Nat
    BY BoundTypes DEF Saved
<1>2. \A k : FiresIn(q, sub.nest, k) => FiresIn(r, sub.nest, k)
    BY <1>1, FiresMore
<1> QED
    BY <1>2 DEF CoveredAt, Covered

\* The blocks open are in the statements whose turn it is not.
LEMMA SavedBelow ==
    ASSUME FrameInv, OwnTurn
    PROVE  \A i \in DOMAIN subs : subs[i] \in Saved /\ subs[i].nest \in 0..(Len(stack) - 1)
<1> TAKE i \in DOMAIN subs
<1>1. i \in 1..Len(subs) /\ Len(subs) \in Nat /\ Len(subs) \in DOMAIN subs /\ i <= Len(subs)
    BY FramesAre
<1>2. subs # <<>>
    BY <1>1, EmptySeq DEF FrameInv, TypeOK
<1>3. subs[Len(subs)].nest < Len(stack) /\ subs[i].nest <= subs[Len(subs)].nest
    BY <1>1, <1>2 DEF OwnTurn, FrameInv, SavedFrames
<1>4. /\ subs[i] \in Saved /\ subs[i].nest \in Nat /\ subs[Len(subs)].nest \in Nat
      /\ Len(stack) \in Nat
    BY <1>1, FramesAre, BoundTypes
<1> QED
    BY <1>3, <1>4

\* A step of the running statement leaves what is saved covered.
LEMMA TurnSaved ==
    ASSUME FrameInv, CoveredSaved, OwnTurn, subs' = subs, warned' = warned,
           \A i \in 1..(Len(stack) - 1) : stack'[i].events = stack[i].events
    PROVE  CoveredSaved'
<1> SUFFICES ASSUME NEW i \in DOMAIN subs
             PROVE  CoveredAt(subs[i], stack', warned')
    BY DEF CoveredSaved
<1>1. subs[i] \in Saved /\ subs[i].nest \in 0..(Len(stack) - 1)
    BY SavedBelow
<1>2. Len(stack) \in Nat /\ subs[i].nest \in Nat
    BY <1>1, FramesAre, BoundTypes DEF Saved
<1>3. \A j \in 1..subs[i].nest : stack[j].events = stack'[j].events
    BY <1>1, <1>2
<1>4. CoveredAt(subs[i], stack, warned)
    BY DEF CoveredSaved
<1> QED
    BY <1>1, <1>3, <1>4, SavedStay

LEMMA BeginCover == FrameInv /\ CoverInv /\ Begin => CoverInv'
<1> SUFFICES ASSUME FrameInv, CoverInv, Begin
             PROVE  CoverInv'
    OBVIOUS
<1>1. stack = <<>> /\ subs = <<>> /\ QueueOf(work) = {} /\ ~Suspended
    BY NothingIs DEF FrameInv, TypeOK, Begin
<1>2. \A k : ~FiresIn(stack, Len(stack), k)
    <2>1. Len(stack) = 0
        BY <1>1
    <2> QED
        BY <2>1 DEF FiresIn
<1>3. \A k \in RowKey : tv[k] = base[k] \/ k[1] \in warned
    BY <1>1, <1>2 DEF CoverInv, CoveredNow, Covered, Suspended
<1>4. start' = [base |-> base, tv |-> tv]
      /\ UNCHANGED <<base, tv, writes, stack, frames, work, suspension, subs, warned>>
    BY DEF Begin
<1>5. CoveredNow' /\ CoveredSaved'
    BY <1>4 DEF CoverInv, CoveredNow, CoveredSaved
<1> QED
    BY <1>3, <1>4, <1>5 DEF CoverInv, CoveredStart

LEMMA StartCover ==
    ASSUME FrameInv, CoverInv, NEW kind \in Kinds, Start(kind)
    PROVE  CoverInv'
<1> DEFINE n == Len(stack)
<1>1. n \in Nat /\ n + 1 \in Nat /\ n <= n + 1
    BY FramesAre, BoundTypes
<1>2. Len(stack') = n + 1 /\ \A i \in 1..n : stack[i] = stack'[i]
    <2> DEFINE st == [kind |-> kind, phase |-> "run", rows |-> {}, events |-> <<>>, flushed |-> FALSE]
    <2>1. stack' = Append(stack, st) /\ stack \in Seq(Statement)
        BY DEF Start, FrameInv, TypeOK
    <2>2. st \in Statement
        BY EmptySeq DEF Statement
    <2> HIDE DEF st
    <2> QED
        BY <2>1, <2>2, AppendProperties
<1>3. UNCHANGED <<base, tv, work, suspension, subs, start, warned>>
    BY DEF Start
<1>4. \A k : FiresIn(stack, n, k) => FiresIn(stack', n + 1, k)
    BY <1>1, <1>2, FiresMore
<1>5. CoveredNow'
    BY <1>2, <1>3, <1>4 DEF CoverInv, CoveredNow, Covered
<1>6. CoveredSaved'
    <2> SUFFICES ASSUME NEW i \in DOMAIN subs
                 PROVE  CoveredAt(subs[i], stack', warned)
        BY <1>3 DEF CoveredSaved
    <2>1. subs[i] \in Saved /\ subs[i].nest \in 0..n
        BY FramesAre
    <2>2. \A j \in 1..subs[i].nest : stack[j].events = stack'[j].events
        BY <1>1, <1>2, <2>1
    <2> QED
        BY <2>1, <2>2, SavedStay DEF CoverInv, CoveredSaved
<1> QED
    BY <1>3, <1>5, <1>6 DEF CoverInv, CoveredStart, Active

\* The running statement's turn: what a step makes of its events.
LEMMA TurnIs ==
    ASSUME FrameInv, OwnTurn, NEW st \in Statement,
           stack' = [stack EXCEPT ![Len(stack)] = st]
    PROVE  /\ Len(stack) \in Nat \ {0} /\ Len(stack') = Len(stack)
           /\ stack'[Len(stack)] = st
           /\ \A i \in 1..(Len(stack) - 1) : stack'[i] = stack[i]
           /\ \A k : FiresIn(stack, Len(stack), k) <=>
                       \/ FiresIn(stack', Len(stack) - 1, k)
                       \/ \E j \in DOMAIN Top.events : Top.events[j].key = k
           /\ \A k : FiresIn(stack', Len(stack'), k) <=>
                       \/ FiresIn(stack', Len(stack) - 1, k)
                       \/ \E j \in DOMAIN st.events : st.events[j].key = k
<1> DEFINE n == Len(stack)
<1>1. n \in Nat \ {0} /\ n \in 1..n
    BY TopIs, BoundTypes DEF FrameInv
<1>2. Len(stack') = n /\ stack'[n] = st /\ \A i \in 1..(n - 1) : stack'[i] = stack[i]
    <2>1. /\ Len(stack') = n
          /\ \A i \in 1..n : stack'[i] = IF i = n THEN st ELSE stack[i]
        BY TopType DEF FrameInv
    <2>2. \A i \in 1..(n - 1) : i \in 1..n /\ i # n
        BY <1>1
    <2> QED
        BY <1>1, <2>1, <2>2
<1>3. \A i : i \in 1..n <=> i \in 1..(n - 1) \/ i = n
    BY <1>1
<1> HIDE DEF n
<1>4. \A k : FiresIn(stack, n, k) <=>
               FiresIn(stack', n - 1, k) \/ \E j \in DOMAIN Top.events : Top.events[j].key = k
    <2>1. Top = stack[n]
        BY DEF Top, n
    <2> QED
        BY <1>2, <1>3, <2>1 DEF FiresIn
<1>5. \A k : FiresIn(stack', n, k) <=>
               FiresIn(stack', n - 1, k) \/ \E j \in DOMAIN st.events : st.events[j].key = k
    BY <1>2, <1>3 DEF FiresIn
<1> QED
    BY <1>1, <1>2, <1>4, <1>5 DEF n

LEMMA WriteCover ==
    ASSUME FrameInv, CoverInv, NEW k \in RowKey, NEW patch \in Patches, WriteRow(k, patch)
    PROVE  CoverInv'
<1> DEFINE event == [key |-> k, version |-> writes + 1, patch |-> patch]
           st == [Top EXCEPT !.rows = @ \cup {k}, !.events = Append(@, event)]
           Event == [key : RowKey, version : Value, patch : Patches]
<1>1. OwnTurn /\ Top \in Statement /\ Top.events \in Seq(Event)
    BY TopIs DEF FrameInv, WriteRow, Statement
<1>2. event \in Event
    BY Keys, BoundTypes DEF FrameInv, TypeOK, WriteRow
<1>3. /\ Append(Top.events, event) \in Seq(Event)
      /\ DOMAIN Append(Top.events, event) = 1..(Len(Top.events) + 1)
      /\ DOMAIN Top.events = 1..Len(Top.events) /\ Len(Top.events) \in Nat
      /\ Append(Top.events, event)[Len(Top.events) + 1] = event
      /\ \A j \in 1..Len(Top.events) : Append(Top.events, event)[j] = Top.events[j]
    <2> HIDE DEF event, Event
    <2> QED
        BY <1>1, <1>2, AppendProperties, LenProperties
<1>4. st \in Statement /\ st.events = Append(Top.events, event)
    BY <1>1, <1>3 DEF Statement
<1>5. stack' = [stack EXCEPT ![Len(stack)] = st]
    BY DEF WriteRow, Top
<1>6. \A l : (\E j \in DOMAIN st.events : st.events[j].key = l)
               <=> l = k \/ \E j \in DOMAIN Top.events : Top.events[j].key = l
    <2>1. event.key = k
        OBVIOUS
    <2>2. \A j : j \in 1..(Len(Top.events) + 1) <=> j \in 1..Len(Top.events) \/ j = Len(Top.events) + 1
        BY <1>3
    <2> HIDE DEF event, st
    <2> QED
        BY <1>3, <1>4, <2>1, <2>2
<1>7. /\ FiresIn(stack', Len(stack'), k)
      /\ \A l : FiresIn(stack, Len(stack), l) => FiresIn(stack', Len(stack'), l)
    <2> HIDE DEF st
    <2> QED
        BY <1>1, <1>4, <1>5, <1>6, TurnIs
<1>8. /\ UNCHANGED <<tv, frames, work, suspension, subs, start, warned>>
      /\ \A l \in RowKey : l # k => base'[l] = base[l]
    BY DEF WriteRow, FrameInv, TypeOK, Rows
<1>9. CoveredNow'
    BY <1>7, <1>8 DEF CoverInv, CoveredNow, Covered
<1>10. CoveredSaved'
    <2> HIDE DEF st
    <2>1. \A i \in 1..(Len(stack) - 1) : stack'[i].events = stack[i].events
        BY <1>1, <1>4, <1>5, TurnIs
    <2> QED
        BY <1>1, <1>8, <2>1, TurnSaved DEF CoverInv
<1> QED
    BY <1>8, <1>9, <1>10 DEF CoverInv, CoveredStart, Active

\* A step that leaves the events to fire and what they fire into.
LEMMA EventsStay ==
    ASSUME FrameInv, OwnTurn, NEW st \in Statement, st.events = Top.events,
           stack' = [stack EXCEPT ![Len(stack)] = st]
    PROVE  /\ \A k : FiresIn(stack, Len(stack), k) <=> FiresIn(stack', Len(stack'), k)
           /\ \A i \in 1..(Len(stack) - 1) : stack'[i].events = stack[i].events
<1>1. \A k : FiresIn(stack, Len(stack), k) <=>
               \/ FiresIn(stack', Len(stack) - 1, k)
               \/ \E j \in DOMAIN Top.events : Top.events[j].key = k
    BY TurnIs
<1>2. \A k : FiresIn(stack', Len(stack'), k) <=>
               \/ FiresIn(stack', Len(stack) - 1, k)
               \/ \E j \in DOMAIN st.events : st.events[j].key = k
    BY TurnIs
<1>3. \A i \in 1..(Len(stack) - 1) : stack'[i].events = stack[i].events
    BY TurnIs
<1> QED
    BY <1>1, <1>2, <1>3

LEMMA EndRunCover == FrameInv /\ CoverInv /\ EndRun => CoverInv'
<1> SUFFICES ASSUME FrameInv, CoverInv, EndRun
             PROVE  CoverInv'
    OBVIOUS
<1> DEFINE st == [Top EXCEPT !.phase = "finish"]
<1>1. OwnTurn /\ Top \in Statement
    BY TopIs DEF FrameInv, EndRun
<1>2. st \in Statement /\ st.events = Top.events /\ stack' = [stack EXCEPT ![Len(stack)] = st]
    BY <1>1 DEF Statement, EndRun, Top
<1>3. UNCHANGED <<base, tv, work, suspension, subs, start, warned>>
    BY DEF EndRun
<1> HIDE DEF st
<1>4. CoveredNow'
    BY <1>1, <1>2, <1>3, EventsStay DEF CoverInv, CoveredNow, Covered
<1>5. CoveredSaved'
    BY <1>1, <1>2, <1>3, EventsStay, TurnSaved DEF CoverInv
<1> QED
    BY <1>3, <1>4, <1>5 DEF CoverInv, CoveredStart, Active

\* A row whose trigger fires is queued, or its TVIEW noted as changed.
LEMMA RowTriggerIs ==
    ASSUME NoPatches, TypeOK, Patchless(work),
           NEW event \in [key : RowKey, version : Value, patch : Patches], RowTrigger(event)
    PROVE  /\ Patchless(work') /\ QueueOf(work) \subseteq QueueOf(work')
           /\ (Suspended /\ event.key[1] \in suspension.changed') \/ event.key \in QueueOf(work')
           /\ suspension.depth' = suspension.depth /\ suspension.changed \subseteq suspension.changed'
<1>1. CASE Suspended
    BY <1>1 DEF TypeOK, RowTrigger, Suspension
<1>2. CASE ~Suspended
    <2>1. ~event.patch /\ event.key \in RowKey
        BY DEF NoPatches
    <2>2. work' = Enqueued(work, event.key) /\ suspension' = suspension
        BY <1>2, <2>1 DEF RowTrigger
    <2>3. /\ QueueOf(work') = QueueOf(work) \cup {event.key}
          /\ \A l \in RowKey : work'[PatchSlot(l)] = IF l = event.key THEN Poisoned ELSE work[PatchSlot(l)]
        BY <2>1, <2>2, EnqueuedWork DEF TypeOK
    <2> QED
        BY <2>2, <2>3 DEF Patchless
<1> QED
    BY <1>1, <1>2

LEMMA FireRowCover == NoPatches /\ FrameInv /\ CoverInv /\ FireRow => CoverInv'
<1> SUFFICES ASSUME NoPatches, FrameInv, CoverInv, FireRow
             PROVE  CoverInv'
    OBVIOUS
<1> DEFINE Event == [key : RowKey, version : Value, patch : Patches]
           es == Top.events
           st == [Top EXCEPT !.events = Tail(@)]
<1>1. OwnTurn /\ Top \in Statement /\ es \in Seq(Event) /\ es # <<>>
    BY TopIs DEF FrameInv, FireRow, Statement
<1>2. /\ Head(es) \in Event /\ Tail(es) \in Seq(Event) /\ Len(es) \in Nat \ {0}
      /\ DOMAIN es = 1..Len(es) /\ DOMAIN Tail(es) = 1..(Len(es) - 1)
      /\ \A j \in 1..(Len(es) - 1) : Tail(es)[j] = es[j + 1]
      /\ Head(es) = es[1]
    <2>1. /\ Head(es) \in Event /\ Tail(es) \in Seq(Event) /\ Len(Tail(es)) = Len(es) - 1
          /\ \A j \in 1..Len(Tail(es)) : Tail(es)[j] = es[j + 1]
        BY <1>1, HeadTailProperties
    <2>2. DOMAIN es = 1..Len(es) /\ DOMAIN Tail(es) = 1..Len(Tail(es)) /\ Len(es) \in Nat \ {0}
        BY <1>1, <2>1, LenProperties, EmptySeq
    <2> QED
        BY <1>1, <2>1, <2>2
<1>3. st \in Statement /\ st.events = Tail(es) /\ stack' = [stack EXCEPT ![Len(stack)] = st]
    BY <1>1, <1>2 DEF Statement, FireRow, Top
<1>4. \A k : (\E j \in DOMAIN es : es[j].key = k)
               => Head(es).key = k \/ \E j \in DOMAIN Tail(es) : Tail(es)[j].key = k
    <2> TAKE k
    <2> SUFFICES ASSUME NEW j \in 1..Len(es), es[j].key = k
                 PROVE  Head(es).key = k \/ \E i \in DOMAIN Tail(es) : Tail(es)[i].key = k
        BY <1>2
    <2>1. CASE j = 1
        BY <1>2, <2>1
    <2>2. CASE j # 1
        <3>1. j - 1 \in 1..(Len(es) - 1) /\ (j - 1) + 1 = j
            BY <1>2, <2>2
        <3> QED
            BY <1>2, <3>1
    <2> QED
        BY <2>1, <2>2
<1>5. \A k : FiresIn(stack, Len(stack), k) => Head(es).key = k \/ FiresIn(stack', Len(stack'), k)
    <2> HIDE DEF st
    <2>1. \A k : FiresIn(stack, Len(stack), k) <=>
                   \/ FiresIn(stack', Len(stack) - 1, k)
                   \/ \E j \in DOMAIN es : es[j].key = k
        BY <1>1, <1>3, TurnIs
    <2>2. \A k : FiresIn(stack', Len(stack'), k) <=>
                   \/ FiresIn(stack', Len(stack) - 1, k)
                   \/ \E j \in DOMAIN st.events : st.events[j].key = k
        BY <1>1, <1>3, TurnIs
    <2> HIDE DEF es
    <2> QED
        BY <1>3, <1>4, <2>1, <2>2
<1>6. RowTrigger(Head(es)) /\ UNCHANGED <<base, tv, subs, start, warned>>
    BY DEF FireRow
<1>7. /\ Patchless(work') /\ QueueOf(work) \subseteq QueueOf(work')
      /\ (Suspended /\ Head(es).key[1] \in suspension.changed') \/ Head(es).key \in QueueOf(work')
      /\ suspension.depth' = suspension.depth /\ suspension.changed \subseteq suspension.changed'
    BY <1>2, <1>6, RowTriggerIs DEF FrameInv, CoverInv, CoveredNow
<1>8. CoveredNow'
    BY <1>5, <1>6, <1>7 DEF CoverInv, CoveredNow, Covered, Suspended
<1>9. CoveredSaved'
    <2> HIDE DEF st
    <2>1. \A i \in 1..(Len(stack) - 1) : stack'[i].events = stack[i].events
        BY <1>1, <1>3, TurnIs
    <2> QED
        BY <1>1, <1>6, <2>1, TurnSaved DEF CoverInv
<1> QED
    BY <1>6, <1>8, <1>9 DEF CoverInv, CoveredStart, Active

\* Rows refreshed, or not while suspended, need no less than they did.
LEMMA RefreshedAre ==
    ASSUME TypeOK, Patchless(work)
    PROVE  /\ Flush(tv) =>
                /\ Patchless(work') /\ QueueOf(work') = {}
                /\ \A k \in RowKey : tv'[k] = base[k] \/ (k \notin QueueOf(work) /\ tv'[k] = tv[k])
           /\ FlushAfterStatement =>
                /\ Patchless(work')
                /\ \A k \in RowKey : \/ tv'[k] = base[k]
                                     \/ tv'[k] = tv[k] /\ (k \in QueueOf(work) => k \in QueueOf(work'))
                /\ ~Suspended => QueueOf(work') = {}
<1>1. Flush(tv) =>
        /\ Patchless(work') /\ QueueOf(work') = {}
        /\ \A k \in RowKey : tv'[k] = base[k] \/ (k \notin QueueOf(work) /\ tv'[k] = tv[k])
    <2> SUFFICES ASSUME Flush(tv)
                 PROVE  /\ Patchless(work') /\ QueueOf(work') = {}
                        /\ \A k \in RowKey : \/ tv'[k] = base[k]
                                             \/ k \notin QueueOf(work) /\ tv'[k] = tv[k]
        OBVIOUS
    <2>1. work' = Nothing /\ tv' = Flushed(tv, work) /\ tv \in Rows
        BY DEF Flush, TypeOK
    <2>2. \A k \in RowKey : tv'[k] = IF k \in QueueOf(work) THEN base[k] ELSE tv[k]
        BY <2>1, FlushedIs
    <2> QED
        BY <2>1, <2>2, NothingIs
<1> QED
    BY <1>1 DEF FlushAfterStatement

LEMMA FireFlushCover == FrameInv /\ CoverInv /\ FireFlush => CoverInv'
<1> SUFFICES ASSUME FrameInv, CoverInv, FireFlush
             PROVE  CoverInv'
    OBVIOUS
<1> DEFINE st == [Top EXCEPT !.flushed = TRUE]
<1>1. OwnTurn /\ Top \in Statement
    BY TopIs DEF FrameInv, FireFlush
<1>2. st \in Statement /\ st.events = Top.events /\ stack' = [stack EXCEPT ![Len(stack)] = st]
    BY <1>1 DEF Statement, FireFlush, Top
<1>3. UNCHANGED <<base, suspension, subs, start, warned>>
    BY DEF FireFlush
<1>4. /\ Patchless(work')
      /\ \A k \in RowKey : \/ tv'[k] = base[k]
                           \/ tv'[k] = tv[k] /\ (k \in QueueOf(work) => k \in QueueOf(work'))
    BY RefreshedAre DEF FrameInv, CoverInv, CoveredNow, FireFlush
<1> HIDE DEF st
<1>5. CoveredNow'
    BY <1>1, <1>2, <1>3, <1>4, EventsStay DEF CoverInv, CoveredNow, Covered
<1>6. CoveredSaved'
    BY <1>1, <1>2, <1>3, EventsStay, TurnSaved DEF CoverInv
<1> QED
    BY <1>3, <1>5, <1>6 DEF CoverInv, CoveredStart, Active

LEMMA FinishCover == FrameInv /\ CoverInv /\ Finish => CoverInv'
<1> SUFFICES ASSUME FrameInv, CoverInv, Finish
             PROVE  CoverInv'
    OBVIOUS
<1> DEFINE n == Len(stack)
<1>1. OwnTurn /\ TypeOK /\ n \in Nat \ {0} /\ n - 1 \in Nat
    BY TopIs, BoundTypes DEF FrameInv, Finish
<1>2. /\ Len(stack') = n - 1
      /\ \A i \in 1..(n - 1) : stack'[i].events = stack[i].events
    BY <1>1, PoppedIs DEF Finish
<1>3. \A k : FiresIn(stack, n, k) => FiresIn(stack', n - 1, k)
    <2> SUFFICES ASSUME NEW k, NEW i \in 1..n, NEW j \in DOMAIN stack[i].events,
                        stack[i].events[j].key = k
                 PROVE  FiresIn(stack', n - 1, k)
        BY DEF FiresIn
    <2>1. stack[n].events = <<>>
        BY DEF Finish, Top
    <2>2. i # n
        BY <2>1
    <2>3. i \in 1..(n - 1)
        BY <1>1, <2>2
    <2> QED
        BY <1>2, <2>3 DEF FiresIn
<1>4. UNCHANGED <<base, suspension, subs, start, warned>>
    BY DEF Finish
<1>5. /\ Patchless(work')
      /\ \A k \in RowKey : \/ tv'[k] = base[k]
                           \/ tv'[k] = tv[k] /\ (k \in QueueOf(work) => k \in QueueOf(work'))
    BY RefreshedAre DEF FrameInv, CoverInv, CoveredNow, Finish
<1>6. CoveredNow'
    BY <1>2, <1>3, <1>4, <1>5 DEF CoverInv, CoveredNow, Covered
<1>7. CoveredSaved'
    BY <1>1, <1>2, <1>4, TurnSaved DEF CoverInv
<1> QED
    BY <1>4, <1>6, <1>7 DEF CoverInv, CoveredStart, Active

\* What a session calls leaves statements and savepoints.
LEMMA SameStatements ==
    ASSUME CoverInv, CoveredNow', UNCHANGED <<stack, subs, start, warned>>
    PROVE  CoverInv'
    BY DEF CoverInv, CoveredSaved, CoveredStart, Active

LEMMA SuspendCover == FrameInv /\ CoverInv /\ Suspend => CoverInv'
<1> SUFFICES ASSUME FrameInv, CoverInv, Suspend
             PROVE  CoverInv'
    OBVIOUS
<1>1. suspension \in Suspension
    BY DEF FrameInv, TypeOK
<1>2. suspension.depth > 0 =>
        suspension'.depth > 0 /\ suspension'.changed = suspension.changed
    BY <1>1, BoundTypes DEF Suspension, Suspend
<1>3. CoveredNow'
    BY <1>2 DEF CoverInv, CoveredNow, Covered, Suspend
<1> QED
    BY <1>3, SameStatements DEF Suspend

\* Catching up leaves nothing of what changed, or is queued, stale.
LEMMA CaughtUp ==
    ASSUME TypeOK, Patchless(work), NEW k \in RowKey
    PROVE  /\ CatchUp =>
                /\ Patchless(work')
                /\ k[1] \in suspension.changed => tv'[k] = base[k]
                /\ tv'[k] = base[k] \/ (tv'[k] = tv[k] /\ (k \in QueueOf(work) => k \in QueueOf(work')))
           /\ HookedCommit =>
                /\ Suspended /\ k[1] \in suspension.changed => tv'[k] = base[k]
                /\ tv'[k] = base[k] \/ (tv'[k] = tv[k] /\ k \notin QueueOf(work))
<1> DEFINE t == Rebuilt(suspension.changed)
<1>1. t \in Rows /\ t[k] = IF k[1] \in suspension.changed THEN base[k] ELSE tv[k]
    BY DEF TypeOK, Rows, Rebuilt
<1>2. Flushed(t, work)[k] = IF k \in QueueOf(work) THEN base[k] ELSE t[k]
    BY <1>1, FlushedIs
<1>3. Flushed(tv, work)[k] = IF k \in QueueOf(work) THEN base[k] ELSE tv[k]
    BY FlushedIs DEF TypeOK
<1>4. ASSUME CatchUp
      PROVE  /\ Patchless(work')
             /\ k[1] \in suspension.changed => tv'[k] = base[k]
             /\ tv'[k] = base[k] \/ (tv'[k] = tv[k] /\ (k \in QueueOf(work) => k \in QueueOf(work')))
    <2>1. CASE suspension.changed = {}
        BY <1>4, <2>1 DEF CatchUp
    <2>2. CASE suspension.changed # {}
        <3>1. tv' = Flushed(t, work) /\ work' = Nothing
            BY <1>4, <2>2 DEF CatchUp, Flush
        <3> HIDE DEF t
        <3> QED
            BY <1>1, <1>2, <3>1, NothingIs
    <2> QED
        BY <2>1, <2>2
<1>5. ASSUME HookedCommit
      PROVE  /\ Suspended /\ k[1] \in suspension.changed => tv'[k] = base[k]
             /\ tv'[k] = base[k] \/ (tv'[k] = tv[k] /\ k \notin QueueOf(work))
    <2>1. CASE Suspended /\ suspension.changed # {}
        <3>1. tv' = Flushed(t, work)
            BY <1>5, <2>1 DEF HookedCommit
        <3> HIDE DEF t
        <3> QED
            BY <1>1, <1>2, <3>1
    <2>2. CASE ~(Suspended /\ suspension.changed # {})
        BY <1>3, <1>5, <2>2 DEF HookedCommit
    <2> QED
        BY <2>1, <2>2
<1> QED
    BY <1>4, <1>5

LEMMA ResumeCover == FrameInv /\ CoverInv /\ Resume => CoverInv'
<1> SUFFICES ASSUME FrameInv, CoverInv, Resume
             PROVE  CoverInv'
    OBVIOUS
<1>1. TypeOK /\ Patchless(work) /\ suspension \in Suspension /\ suspension.depth > 0
    BY DEF FrameInv, TypeOK, CoverInv, CoveredNow, Resume, Suspended
<1>2. UNCHANGED <<base, stack, subs, start, warned>>
    BY DEF Resume
<1>3. CASE suspension.depth = 1
    <2>1. CatchUp
        BY <1>3 DEF Resume
    <2>2. \A k \in RowKey :
            /\ Patchless(work')
            /\ k[1] \in suspension.changed => tv'[k] = base[k]
            /\ tv'[k] = base[k] \/ (tv'[k] = tv[k] /\ (k \in QueueOf(work) => k \in QueueOf(work')))
        BY <1>1, <2>1, CaughtUp
    <2>3. Patchless(work')
        BY <2>2 DEF Patchless
    <2>4. CoveredNow'
        BY <1>2, <2>2, <2>3 DEF CoverInv, CoveredNow, Covered
    <2> QED
        BY <1>2, <2>4, SameStatements
<1>4. CASE suspension.depth # 1
    <2>1. /\ suspension'.changed = suspension.changed /\ suspension'.depth > 0
          /\ UNCHANGED <<tv, work>>
        BY <1>1, <1>4, BoundTypes DEF Resume, Suspension
    <2>2. CoveredNow'
        BY <1>1, <1>2, <2>1 DEF CoverInv, CoveredNow, Covered
    <2> QED
        BY <1>2, <2>2, SameStatements
<1> QED
    BY <1>3, <1>4

LEMMA FlushAndReportCover == FrameInv /\ CoverInv /\ FlushAndReport => CoverInv'
<1> SUFFICES ASSUME FrameInv, CoverInv, FlushAndReport
             PROVE  CoverInv'
    OBVIOUS
<1>1. UNCHANGED <<base, stack, suspension, subs, start, warned>> /\ Flush(tv)
    BY DEF FlushAndReport
<1>2. /\ Patchless(work') /\ QueueOf(work') = {}
      /\ \A k \in RowKey : tv'[k] = base[k] \/ (k \notin QueueOf(work) /\ tv'[k] = tv[k])
    BY <1>1, RefreshedAre DEF FrameInv, CoverInv, CoveredNow
<1>3. CoveredNow'
    BY <1>1, <1>2 DEF CoverInv, CoveredNow, Covered
<1> QED
    BY <1>1, <1>3, SameStatements

LEMMA SubStartCover == FrameInv /\ CoverInv /\ SubStart => CoverInv'
<1> SUFFICES ASSUME FrameInv, CoverInv, SubStart
             PROVE  CoverInv'
    OBVIOUS
<1> DEFINE n == Len(subs)
           sub == [nest |-> Len(stack), base |-> base, tv |-> tv, work |-> work,
                   frames |-> Len(frames), suspension |-> suspension]
<1>1. sub \in Saved /\ subs \in Seq(Saved) /\ n \in Nat /\ subs' = Append(subs, sub)
    BY FramesAre, FramesCount, BoundTypes DEF FrameInv, TypeOK, Saved, SubStart
<1>2. CoveredAt(sub, stack, warned)
    BY DEF CoverInv, CoveredNow, CoveredAt
<1>3. /\ DOMAIN subs = 1..n /\ DOMAIN subs' = 1..(n + 1) /\ subs'[n + 1] = sub
      /\ \A i \in 1..n : subs'[i] = subs[i]
    <2> HIDE DEF sub
    <2> QED
        BY <1>1, AppendProperties, LenProperties
<1>4. UNCHANGED <<base, tv, work, stack, suspension, start, warned>>
    BY DEF SubStart
<1>5. CoveredSaved'
    <2>1. \A i \in 1..(n + 1) : i \in 1..n \/ i = n + 1
        BY <1>1
    <2> HIDE DEF sub
    <2> QED
        BY <1>2, <1>3, <1>4, <2>1 DEF CoverInv, CoveredSaved
<1> QED
    BY <1>4, <1>5 DEF CoverInv, CoveredNow, CoveredStart, Active

LEMMA SubCommitCover == FrameInv /\ CoverInv /\ SubCommit => CoverInv'
<1> SUFFICES ASSUME FrameInv, CoverInv, SubCommit
             PROVE  CoverInv'
    OBVIOUS
<1>1. /\ subs # <<>> /\ subs' = Front(subs)
      /\ UNCHANGED <<base, tv, work, stack, suspension, start, warned>>
    BY DEF SubCommit
<1>2. CoveredSaved'
    BY <1>1, FrontIs, FramesAre DEF CoverInv, CoveredSaved
<1> QED
    BY <1>1, <1>2 DEF CoverInv, CoveredNow, CoveredStart, Active

LEMMA SubAbortCover == FrameInv /\ CoverInv /\ SubAbort => CoverInv'
<1> SUFFICES ASSUME FrameInv, CoverInv, SubAbort
             PROVE  CoverInv'
    OBVIOUS
<1> DEFINE n == Len(subs)
           m == subs[n].nest
<1>1. subs # <<>> /\ subs' = Front(subs) /\ n \in DOMAIN subs /\ n \in 1..n
    BY FrontIs, FramesAre DEF SubAbort
<1>2. m \in Nat /\ m <= Len(stack) /\ subs[n] \in Saved /\ Len(stack) \in Nat
    BY <1>1, FramesAre, BoundTypes
<1>3. Len(stack') = m /\ \A i \in 1..m : stack'[i] = stack[i]
    <2>1. stack' = SubSeq(stack, 1, m) /\ m \in Int /\ 1 \in Int
        BY <1>2 DEF SubAbort
    <2>2. stack \in Seq(Statement) /\ \A i \in 1..m : i \in 1..Len(stack)
        BY <1>2 DEF FrameInv, TypeOK
    <2>3. \A i \in 1..m : stack[i] \in Statement
        BY <2>2, ElementOfSeq
    <2>4. /\ Len(stack') = (IF 1 <= m THEN m - 1 + 1 ELSE 0)
          /\ \A i \in 1..(m - 1 + 1) : stack'[i] = stack[1 + i - 1]
        <3> HIDE DEF m
        <3> QED
            BY <2>1, <2>3, SubSeqProperties
    <2> QED
        BY <1>2, <2>4
<1>4. /\ base' = subs[n].base /\ tv' = subs[n].tv /\ work' = subs[n].work
      /\ suspension' = subs[n].suspension /\ start' = start /\ warned' = warned
    BY DEF SubAbort, RolledBackTo, Restored
<1>5. CoveredNow'
    <2>1. CoveredAt(subs[n], stack, warned)
        BY <1>1 DEF CoverInv, CoveredSaved
    <2>2. \A i \in 1..m : stack[i].events = stack'[i].events
        BY <1>3
    <2>3. CoveredAt(subs[n], stack', warned)
        BY <1>2, <2>1, <2>2, SavedStay
    <2> QED
        BY <1>3, <1>4, <2>3 DEF CoveredNow, CoveredAt
<1>6. CoveredSaved'
    <2> SUFFICES ASSUME NEW i \in 1..(n - 1)
                 PROVE  CoveredAt(subs[i], stack', warned)
        BY <1>1, <1>4, FrontIs DEF CoveredSaved
    <2>1. i \in 1..n /\ i \in DOMAIN subs /\ i <= n /\ n \in Nat
        BY <1>1, FrontIs, FramesAre
    <2>2. subs[i].nest <= m /\ subs[i] \in Saved /\ subs[i].nest \in Nat
        BY <1>1, <2>1, FramesAre, BoundTypes DEF FrameInv, SavedFrames
    <2>3. \A j \in 1..subs[i].nest : stack[j].events = stack'[j].events
        BY <1>2, <1>3, <2>2
    <2>4. CoveredAt(subs[i], stack, warned)
        BY <2>1 DEF CoverInv, CoveredSaved
    <2> QED
        BY <2>2, <2>3, <2>4, SavedStay
<1> QED
    BY <1>4, <1>5, <1>6 DEF CoverInv, CoveredStart, Active

\* No transaction is left: its rows are fresh, or warned of.
LEMMA ResetCover ==
    ASSUME Reset, \A k \in RowKey : tv'[k] = base'[k] \/ k[1] \in warned'
    PROVE  CoverInv'
<1>1. work' = Nothing /\ subs' = <<>> /\ start' = None
    BY DEF Reset
<1>2. CoveredNow'
    BY <1>1, NothingIs DEF CoveredNow, Covered
<1> QED
    BY <1>1, <1>2 DEF CoverInv, CoveredSaved, CoveredStart, Active

LEMMA NothingFires == TypeOK /\ stack = <<>> => \A k : ~FiresIn(stack, Len(stack), k)
<1>1. Len(<<>>) = 0
    OBVIOUS
<1> QED
    BY <1>1 DEF FiresIn

LEMMA EndCover == FrameInv /\ CoverInv /\ (Commit \/ ImplicitCommit \/ FailUnflushed \/ Abort) => CoverInv'
<1> SUFFICES ASSUME FrameInv, CoverInv, Commit \/ ImplicitCommit \/ FailUnflushed \/ Abort
             PROVE  \A k \in RowKey : tv'[k] = base'[k] \/ k[1] \in warned'
    BY ResetCover DEF Commit, ImplicitCommit, FailUnflushed, Abort, Undone
<1> TAKE k \in RowKey
<1>1. TypeOK /\ Patchless(work)
    BY DEF FrameInv, CoverInv, CoveredNow
<1>2. CASE Commit
    <2>1. /\ Suspended /\ k[1] \in suspension.changed => tv'[k] = base[k]
          /\ tv'[k] = base[k] \/ (tv'[k] = tv[k] /\ k \notin QueueOf(work))
        BY <1>1, <1>2, CaughtUp DEF Commit
    <2>2. ~FiresIn(stack, Len(stack), k) /\ base' = base /\ warned' = warned
        BY <1>1, <1>2, NothingFires DEF Commit
    <2> QED
        BY <2>1, <2>2 DEF CoverInv, CoveredNow, Covered, Suspended
<1>3. CASE ImplicitCommit
    <2>1. /\ ~FiresIn(stack, Len(stack), k) /\ base' = base /\ tv' = tv /\ QueueOf(work) = {}
          /\ warned' = IF Suspended THEN warned \cup suspension.changed ELSE warned
        BY <1>1, <1>3, NothingFires DEF ImplicitCommit
    <2> QED
        BY <2>1 DEF CoverInv, CoveredNow, Covered, Suspended
<1>4. CASE FailUnflushed \/ Abort
    <2>1. Active /\ base' = start.base /\ tv' = start.tv /\ warned' = warned
        BY <1>4 DEF FailUnflushed, Abort, Undone
    <2> QED
        BY <2>1 DEF CoverInv, CoveredStart
<1> QED
    BY <1>2, <1>3, <1>4

LEMMA StutterCover == CoverInv /\ UNCHANGED vars => CoverInv'
    BY DEF CoverInv, CoveredNow, CoveredSaved, CoveredStart, Active, vars

LEMMA InitCover == Init => CoverInv
<1> SUFFICES ASSUME Init
             PROVE  CoverInv
    OBVIOUS
<1>1. tv = base /\ work = Nothing /\ subs = <<>> /\ start = None
    BY DEF Init
<1> QED
    BY <1>1, NothingIs DEF CoverInv, CoveredNow, Covered, CoveredSaved, CoveredStart, Active

LEMMA NextCover == NoPatches /\ FrameInv /\ CoverInv /\ [Next]_vars => CoverInv'
    BY BeginCover, StartCover, WriteCover, EndRunCover, FireRowCover, FireFlushCover,
       FinishCover, SuspendCover, ResumeCover, FlushAndReportCover, SubStartCover,
       SubCommitCover, SubAbortCover, EndCover, StutterCover DEF Next

LEMMA CoverHolds == ASSUME NoPatches PROVE Spec => [](FrameInv /\ CoverInv)
<1>1. Init => FrameInv /\ CoverInv
    BY InitFrames, InitCover
<1>2. FrameInv /\ CoverInv /\ [Next]_vars => (FrameInv /\ CoverInv)'
    BY NextFrames, NextCover
<1> QED
    BY <1>1, <1>2, PTL DEF Spec

\* Where no UPDATE is captured as a patch, a stale row always has its refresh
\* to come: its trigger is to fire, its key is queued, or its TVIEW is among
\* those a resume rebuilds or a commit warned of.
THEOREM StaleStaysCovered == ASSUME Patches = {FALSE} PROVE Spec => []StaleIsCovered
<1>1. FrameInv /\ CoverInv => StaleIsCovered
    <2> SUFFICES ASSUME FrameInv, CoverInv, NEW k \in RowKey
                 PROVE  \/ tv[k] = base[k]
                        \/ Queues(k) \/ ToFire(k)
                        \/ Suspended /\ k[1] \in suspension.changed
                        \/ k[1] \in warned
        BY DEF StaleIsCovered
    <2>1. k \in QueueOf(work) => Queues(k)
        BY DEF CoverInv, CoveredNow, Patchless, Queues
    <2>2. FiresIn(stack, Len(stack), k) => ToFire(k)
        <3> SUFFICES ASSUME NEW i \in 1..Len(stack), NEW j \in DOMAIN stack[i].events,
                            stack[i].events[j].key = k
                     PROVE  ToFire(k)
            BY DEF FiresIn
        <3>1. i \in DOMAIN stack
            BY FramesAre
        <3>2. stack[i].events[j] \in [key : RowKey, version : Value, patch : Patches]
            BY EventsAre, ElementOfSeq DEF FrameInv
        <3>3. ~stack[i].events[j].patch
            BY <3>2
        <3> QED
            BY <3>1, <3>3 DEF ToFire
    <2> QED
        BY <2>1, <2>2 DEF CoverInv, CoveredNow, Covered, Suspended
<1> QED
    BY <1>1, CoverHolds, PTL DEF NoPatches

\* Then what a transaction commits is fresh, but for the TVIEWs it warned of,
\* however its statements nest, fail, suspend refresh or roll back.
THEOREM CommittedStaysFresh == ASSUME Patches = {FALSE} PROVE Spec => []CommittedIsFresh
<1>1. FrameInv /\ CoverInv => CommittedIsFresh
    <2> SUFFICES ASSUME FrameInv, CoverInv, ~Active, NEW k \in RowKey
                 PROVE  tv[k] = base[k] \/ k[1] \in warned
        BY DEF CommittedIsFresh
    <2>1. stack = <<>> /\ IsEmpty(work) /\ ~Suspended /\ TypeOK
        BY DEF FrameInv, TypeOK
    <2>2. k \notin QueueOf(work) /\ ~FiresIn(stack, Len(stack), k)
        BY <2>1, NothingIs, NothingFires
    <2> QED
        BY <2>1, <2>2 DEF CoverInv, CoveredNow, Covered, Suspended
<1> QED
    BY <1>1, CoverHolds, PTL DEF NoPatches

-----------------------------------------------------------------------------
(* The outermost statement flushes, where nothing is suspended and every   *)
(* statement has a frame.                                                  *)

AlwaysOn == "copy" \notin Kinds /\ MaxSuspend = 0

\* Each statement has its frame.
LEMMA FrameOfAll ==
    ASSUME AlwaysOn, NEW q \in Seq(Statement), NEW f,
           Len(f) = FramesOf(q, Len(q)),
           \A i \in DOMAIN q : Framed(q[i].kind) => f[FramesOf(q, i)] = (q[i].kind = "write")
    PROVE  /\ Len(f) = Len(q) /\ Len(q) \in Nat
           /\ \A i \in 1..Len(q) :
                q[i].kind \in {"read", "write"} /\ f[i] = (q[i].kind = "write")
<1>1. Len(q) \in Nat /\ DOMAIN q = 1..Len(q)
    BY LenProperties
<1>2. \A i \in 1..Len(q) : q[i].kind \in {"read", "write"}
    <2>1. Kinds \subseteq {"read", "write"}
        BY Keys DEF AlwaysOn, QueryKinds
    <2>2. \A i \in 1..Len(q) : q[i] \in Statement
        BY <1>1, ElementOfSeq
    <2>3. \A i \in 1..Len(q) : q[i].kind \in Kinds
        BY <2>2 DEF Statement
    <2> QED
        BY <2>1, <2>3
<1>3. \A n \in 0..Len(q) : FramesOf(q, n) = n
    <2> TAKE n \in 0..Len(q)
    <2>1. {i \in 1..n : Framed(q[i].kind)} = 1..n
        BY <1>1, <1>2 DEF Framed
    <2>2. Cardinality(1..n) = n
        BY <1>1, FS_Interval
    <2> QED
        BY <2>1, <2>2 DEF FramesOf
<1>4. Len(q) \in 0..Len(q) /\ \A i \in 1..Len(q) : i \in 0..Len(q)
    BY <1>1
<1> QED
    BY <1>1, <1>2, <1>3, <1>4 DEF Framed

LEMMA FrameOfEach ==
    ASSUME AlwaysOn, TypeOK, FramesFollowStatements
    PROVE  /\ Len(frames) = Len(stack) /\ Len(stack) \in Nat
           /\ \A i \in 1..Len(stack) :
                stack[i].kind \in {"read", "write"} /\ frames[i] = (stack[i].kind = "write")
    BY FrameOfAll DEF TypeOK, FramesFollowStatements

LEMMA NeverSuspended == AlwaysOn /\ TypeOK => ~Suspended
    BY DEF AlwaysOn, TypeOK, Suspension, Suspended

\* A step of the running statement that leaves its kind and queues no more.
LEMMA TurnFlushes ==
    ASSUME FrameInv, FlushInv, OwnTurn, NEW st \in Statement, st.kind = Top.kind,
           st.kind = "read" => st.events = <<>>,
           stack' = [stack EXCEPT ![Len(stack)] = st], UNCHANGED <<subs, warned>>,
           QueueOf(work') # {} => QueueOf(work) # {} \/ Top.kind = "write"
    PROVE  FlushInv'
<1> DEFINE n == Len(stack)
<1>1. n \in Nat \ {0} /\ Len(stack') = n /\ DOMAIN stack' = 1..n /\ DOMAIN stack = 1..n
    <2>1. stack' \in Seq(Statement) /\ Len(stack') = n /\ n \in Nat \ {0}
        BY TopType, TurnIs DEF FrameInv
    <2> QED
        BY <2>1, LenProperties, FramesAre
<1>2. \A i \in 1..n : /\ stack'[i].kind = stack[i].kind
                      /\ stack'[i].kind = "read" => stack'[i].events = <<>>
    <2>1. \A i \in 1..n : stack'[i] = IF i = n THEN st ELSE stack[i]
        BY TopType DEF FrameInv
    <2> QED
        BY <1>1, <2>1 DEF Top, FlushInv
<1>3. \A m \in 0..n : WrittenIn(stack', m) <=> WrittenIn(stack, m)
    <2> TAKE m \in 0..n
    <2>1. \A i \in 1..m : i \in 1..n
        BY <1>1
    <2> QED
        BY <1>2, <2>1 DEF WrittenIn
<1>4. Top.kind = "write" => WrittenIn(stack, n)
    BY <1>1 DEF WrittenIn, Top
<1>5. \A i \in DOMAIN subs : subs[i].nest \in 0..n
    BY FramesAre
<1>6. n \in 0..n
    BY <1>1
<1> QED
    BY <1>1, <1>2, <1>3, <1>4, <1>5, <1>6 DEF FlushInv

LEMMA WriteFlushes ==
    ASSUME FrameInv, FlushInv, NEW k \in RowKey, NEW patch \in Patches, WriteRow(k, patch)
    PROVE  FlushInv'
<1> DEFINE event == [key |-> k, version |-> writes + 1, patch |-> patch]
           st == [Top EXCEPT !.rows = @ \cup {k}, !.events = Append(@, event)]
           Event == [key : RowKey, version : Value, patch : Patches]
<1>1. OwnTurn /\ Top \in Statement /\ Top.events \in Seq(Event) /\ Top.kind # "read"
    BY TopIs DEF FrameInv, WriteRow, Statement
<1>2. event \in Event
    BY Keys, BoundTypes DEF FrameInv, TypeOK, WriteRow
<1>3. Append(Top.events, event) \in Seq(Event)
    BY <1>1, <1>2, AppendProperties
<1>4. st \in Statement /\ st.kind = Top.kind
    BY <1>1, <1>3 DEF Statement
<1>5. stack' = [stack EXCEPT ![Len(stack)] = st] /\ UNCHANGED <<subs, warned, work>>
    BY DEF WriteRow, Top
<1> HIDE DEF st
<1> QED
    BY <1>1, <1>4, <1>5, TurnFlushes

LEMMA EndRunFlushes == FrameInv /\ FlushInv /\ EndRun => FlushInv'
<1> SUFFICES ASSUME FrameInv, FlushInv, EndRun
             PROVE  FlushInv'
    OBVIOUS
<1> DEFINE st == [Top EXCEPT !.phase = "finish"]
<1>1. OwnTurn /\ Top \in Statement
    BY TopIs DEF FrameInv, EndRun
<1>2. Len(stack) \in DOMAIN stack
    BY <1>1, TopIs, FramesAre, BoundTypes DEF FrameInv
<1>3. /\ st \in Statement /\ st.kind = Top.kind /\ st.events = Top.events
      /\ stack' = [stack EXCEPT ![Len(stack)] = st] /\ UNCHANGED <<subs, warned, work>>
    BY <1>1 DEF Statement, EndRun, Top
<1>4. st.kind = "read" => st.events = <<>>
    BY <1>2, <1>3 DEF FlushInv, Top
<1> HIDE DEF st
<1> QED
    BY <1>1, <1>3, <1>4, TurnFlushes

LEMMA FireRowFlushes == AlwaysOn /\ FrameInv /\ FlushInv /\ FireRow => FlushInv'
<1> SUFFICES ASSUME AlwaysOn, FrameInv, FlushInv, FireRow
             PROVE  FlushInv'
    OBVIOUS
<1> DEFINE Event == [key : RowKey, version : Value, patch : Patches]
           st == [Top EXCEPT !.events = Tail(@)]
<1>1. OwnTurn /\ Top \in Statement /\ Top.events \in Seq(Event) /\ Top.events # <<>>
    BY TopIs DEF FrameInv, FireRow, Statement
<1>2. Tail(Top.events) \in Seq(Event)
    BY <1>1, HeadTailProperties
<1>3. /\ st \in Statement /\ st.kind = Top.kind
      /\ stack' = [stack EXCEPT ![Len(stack)] = st] /\ UNCHANGED <<subs, warned>>
    BY <1>1, <1>2 DEF Statement, FireRow, Top
<1>4. Len(stack) \in 1..Len(stack)
    BY <1>1, TopIs, BoundTypes DEF FrameInv
<1>5. Top.kind = "write"
    <2>1. Top.kind \in {"read", "write"}
        BY <1>4, FrameOfEach DEF FrameInv, Top
    <2>2. Top.kind = "read" => Top.events = <<>>
        BY <1>4, FramesAre DEF FlushInv, Top
    <2> QED
        BY <1>1, <2>1, <2>2
<1> HIDE DEF st
<1> QED
    BY <1>1, <1>3, <1>5, TurnFlushes

\* A refresh empties the queue or leaves it.
LEMMA FlushEmpties ==
    ASSUME TypeOK
    PROVE  /\ \A t : Flush(t) => QueueOf(work') = {}
           /\ FlushAfterStatement => QueueOf(work') = {} \/ work' = work
           /\ FlushAfterStatement /\ ~Suspended => QueueOf(work') = {}
           /\ CatchUp => QueueOf(work') = {} \/ work' = work
    BY NothingIs DEF Flush, FlushAfterStatement, CatchUp

LEMMA FireFlushFlushes == FrameInv /\ FlushInv /\ FireFlush => FlushInv'
<1> SUFFICES ASSUME FrameInv, FlushInv, FireFlush
             PROVE  FlushInv'
    OBVIOUS
<1> DEFINE st == [Top EXCEPT !.flushed = TRUE]
<1>1. OwnTurn /\ Top \in Statement
    BY TopIs DEF FrameInv, FireFlush
<1>2. /\ st \in Statement /\ st.kind = Top.kind /\ st.events = Top.events
      /\ stack' = [stack EXCEPT ![Len(stack)] = st] /\ UNCHANGED <<subs, warned>>
    BY <1>1 DEF Statement, FireFlush, Top
<1>3. st.kind = "read" => st.events = <<>>
    BY <1>2 DEF FireFlush
<1>4. QueueOf(work') # {} => QueueOf(work) # {}
    BY FlushEmpties DEF FrameInv, FireFlush
<1> HIDE DEF st
<1> QED
    BY <1>1, <1>2, <1>3, <1>4, TurnFlushes

LEMMA FinishFlushes == AlwaysOn /\ FrameInv /\ FlushInv /\ Finish => FlushInv'
<1> SUFFICES ASSUME AlwaysOn, FrameInv, FlushInv, Finish
             PROVE  FlushInv'
    OBVIOUS
<1> DEFINE n == Len(stack)
<1>1. OwnTurn /\ TypeOK /\ n \in Nat \ {0} /\ n - 1 \in Nat /\ n \in 1..n
    BY TopIs, BoundTypes DEF FrameInv, Finish
<1>2. /\ Len(stack') = n - 1 /\ DOMAIN stack' = 1..(n - 1) /\ subs' = subs /\ warned' = warned
      /\ \A i \in 1..(n - 1) : /\ i \in 1..n /\ stack'[i].kind = stack[i].kind
                               /\ stack'[i].events = stack[i].events
    <2>1. /\ stack' \in Seq(Statement) /\ Len(stack') = n - 1
          /\ \A i \in 1..(n - 1) : stack'[i].kind = stack[i].kind /\ stack'[i].events = stack[i].events
        BY <1>1, PoppedIs DEF Finish
    <2> QED
        BY <1>1, <2>1, LenProperties DEF Finish
<1>3. /\ Top.kind \in {"read", "write"} /\ ~Suspended
      /\ \A i \in 1..n : i \in 1..(n - 1) \/ i = n
    BY <1>1, FrameOfEach, NeverSuspended DEF FrameInv, Top
<1>4. QueueOf(work') # {} => WrittenIn(stack', n - 1)
    <2> SUFFICES ASSUME QueueOf(work') # {}
                 PROVE  WrittenIn(stack', n - 1)
        OBVIOUS
    <2>1. ~Outermost(Top.kind, frames') /\ work' = work
        BY <1>1, <1>3, FlushEmpties DEF Finish
    <2>2. CASE Top.kind = "write"
        <3>1. PICK i \in DOMAIN frames' : frames'[i]
            BY <2>1, <2>2 DEF Outermost
        <3>2. TypeOK' /\ FramesFollowStatements'
            BY FinishFrames DEF FrameInv
        <3>3. /\ Len(frames') = n - 1 /\ DOMAIN frames' = 1..(n - 1)
              /\ \A j \in 1..(n - 1) : frames'[j] = (stack'[j].kind = "write")
            <4>1. Len(frames') = Len(stack') /\ \A j \in 1..Len(stack') : frames'[j] = (stack'[j].kind = "write")
                BY <3>2, FrameOfAll DEF TypeOK, FramesFollowStatements
            <4>2. DOMAIN frames' = 1..Len(frames')
                BY <3>2, LenProperties DEF TypeOK
            <4> QED
                BY <1>2, <4>1, <4>2
        <3> QED
            BY <3>1, <3>3 DEF WrittenIn
    <2>3. CASE Top.kind = "read"
        <3>1. PICK i \in 1..n : stack[i].kind = "write"
            BY <2>1 DEF FlushInv, WrittenIn
        <3>2. i \in 1..(n - 1)
            BY <1>3, <2>3, <3>1 DEF Top
        <3> QED
            BY <1>2, <3>1, <3>2 DEF WrittenIn
    <2> QED
        BY <1>3, <2>2, <2>3
<1>5. \A i \in DOMAIN subs : QueueOf(subs[i].work) # {} => WrittenIn(stack', subs[i].nest)
    <2> SUFFICES ASSUME NEW i \in DOMAIN subs, QueueOf(subs[i].work) # {}
                 PROVE  WrittenIn(stack', subs[i].nest)
        OBVIOUS
    <2>1. subs[i].nest \in 0..(n - 1)
        BY <1>1, SavedBelow
    <2>2. PICK j \in 1..subs[i].nest : stack[j].kind = "write"
        BY DEF FlushInv, WrittenIn
    <2>3. j \in 1..(n - 1)
        BY <1>1, <2>1
    <2> QED
        BY <1>2, <2>2, <2>3 DEF WrittenIn
<1>6. \A i \in 1..(n - 1) : stack'[i].kind = "read" => stack'[i].events = <<>>
    BY <1>2, FramesAre DEF FlushInv
<1> QED
    BY <1>2, <1>4, <1>5, <1>6 DEF FlushInv

LEMMA StartFlushes == ASSUME FrameInv, FlushInv, NEW kind \in Kinds, Start(kind) PROVE FlushInv'
<1> DEFINE n == Len(stack)
           st == [kind |-> kind, phase |-> "run", rows |-> {}, events |-> <<>>, flushed |-> FALSE]
<1>1. n \in Nat /\ DOMAIN stack = 1..n /\ stack \in Seq(Statement)
    BY LenProperties DEF FrameInv, TypeOK
<1>2. st \in Statement /\ st.events = <<>>
    <2>1. <<>> \in Seq([key : RowKey, version : Value, patch : Patches])
        BY EmptySeq
    <2> QED
        BY <2>1 DEF Statement
<1>3. stack' = Append(stack, st) /\ UNCHANGED <<work, subs, warned>>
    BY DEF Start
<1>4. /\ Len(stack') = n + 1 /\ DOMAIN stack' = 1..(n + 1)
      /\ \A i \in 1..n : stack'[i] = stack[i]
      /\ stack'[n + 1] = st
    <2> HIDE DEF st
    <2>1. stack' \in Seq(Statement)
        BY <1>1, <1>2, <1>3, AppendProperties
    <2>2. /\ Len(stack') = n + 1
          /\ \A i \in 1..n : stack'[i] = stack[i]
          /\ stack'[n + 1] = st
        BY <1>1, <1>2, <1>3, AppendProperties
    <2> QED
        BY <2>1, <2>2, LenProperties
<1>5. \A m \in 0..n : WrittenIn(stack, m) => WrittenIn(stack', m)
    BY <1>1, <1>4 DEF WrittenIn
<1>6. QueueOf(work') # {} => WrittenIn(stack', n + 1)
    BY <1>1, <1>3, <1>4 DEF FlushInv, WrittenIn
<1>7. \A i \in DOMAIN subs : subs[i].nest \in 0..n
    BY FramesAre
<1>8. \A i \in 1..(n + 1) : stack'[i].kind = "read" => stack'[i].events = <<>>
    <2>1. \A i \in 1..(n + 1) : i \in 1..n \/ i = n + 1
        BY <1>1
    <2> HIDE DEF st
    <2> QED
        BY <1>1, <1>2, <1>4, <2>1 DEF FlushInv
<1> HIDE DEF st
<1> QED
    BY <1>3, <1>4, <1>5, <1>6, <1>7, <1>8 DEF FlushInv

\* Steps that leave the statements alone and queue nothing.
LEMMA CallFlushes ==
    ASSUME FlushInv, UNCHANGED <<stack, subs, warned>>, QueueOf(work') # {} => QueueOf(work) # {}
    PROVE  FlushInv'
    BY DEF FlushInv

LEMMA CallsFlush ==
    FrameInv /\ FlushInv /\ (Begin \/ Suspend \/ Resume \/ FlushAndReport) => FlushInv'
<1> SUFFICES ASSUME FrameInv, FlushInv, Begin \/ Suspend \/ Resume \/ FlushAndReport
             PROVE  FlushInv'
    OBVIOUS
<1>1. QueueOf(work') # {} => QueueOf(work) # {}
    BY FlushEmpties DEF FrameInv, Begin, Suspend, Resume, FlushAndReport
<1>2. UNCHANGED <<stack, subs, warned>>
    BY DEF Begin, Suspend, Resume, FlushAndReport
<1> QED
    BY <1>1, <1>2, CallFlushes

LEMMA SubStartFlushes == FrameInv /\ FlushInv /\ SubStart => FlushInv'
<1> SUFFICES ASSUME FrameInv, FlushInv, SubStart
             PROVE  FlushInv'
    OBVIOUS
<1> DEFINE saved == [nest |-> Len(stack), base |-> base, tv |-> tv, work |-> work,
                     frames |-> Len(frames), suspension |-> suspension]
<1>1. subs \in Seq(Saved) /\ subs' = Append(subs, saved) /\ UNCHANGED <<stack, work, warned>>
    BY DEF FrameInv, TypeOK, SubStart
<1>2. saved.nest = Len(stack) /\ saved.work = work
    OBVIOUS
<1>3. \A i \in DOMAIN subs' : (i \in DOMAIN subs /\ subs'[i] = subs[i]) \/ subs'[i] = saved
    <2> HIDE DEF saved
    <2>1. /\ Len(subs) \in Nat /\ DOMAIN subs = 1..Len(subs) /\ Len(subs') = Len(subs) + 1
          /\ DOMAIN subs' = 1..Len(subs')
          /\ \A i \in 1..Len(subs) : subs'[i] = subs[i]
          /\ subs'[Len(subs) + 1] = saved
        <3>1. subs \in Seq(Saved \cup {saved}) /\ saved \in Saved \cup {saved}
            BY <1>1
        <3> QED
            BY <1>1, <3>1, AppendProperties, LenProperties
    <2>2. \A i \in 1..(Len(subs) + 1) : i \in 1..Len(subs) \/ i = Len(subs) + 1
        BY <2>1
    <2> QED
        BY <2>1, <2>2
<1> HIDE DEF saved
<1> QED
    BY <1>1, <1>2, <1>3 DEF FlushInv

LEMMA SubCommitFlushes == FrameInv /\ FlushInv /\ SubCommit => FlushInv'
<1> SUFFICES ASSUME FrameInv, FlushInv, SubCommit
             PROVE  FlushInv'
    OBVIOUS
<1>1. \A i \in DOMAIN subs' : i \in DOMAIN subs /\ subs'[i] = subs[i]
    BY FrontIs DEF FrameInv, SubCommit
<1>2. UNCHANGED <<stack, work, warned>>
    BY DEF SubCommit
<1> QED
    BY <1>1, <1>2 DEF FlushInv

LEMMA SubAbortFlushes == FrameInv /\ FlushInv /\ SubAbort => FlushInv'
<1> SUFFICES ASSUME FrameInv, FlushInv, SubAbort
             PROVE  FlushInv'
    OBVIOUS
<1> DEFINE n == Len(subs)
           m == subs[n].nest
<1>1. subs # <<>> /\ subs' = Front(subs) /\ n \in DOMAIN subs /\ n \in 1..n
    BY FrontIs, FramesAre DEF SubAbort
<1>2. m \in Nat /\ m <= Len(stack) /\ Len(stack) \in Nat /\ DOMAIN stack = 1..Len(stack)
    BY <1>1, FramesAre, BoundTypes
<1>3. /\ Len(stack') = m /\ DOMAIN stack' = 1..m
      /\ \A i \in 1..m : i \in DOMAIN stack /\ stack'[i] = stack[i]
    <2>1. stack' = SubSeq(stack, 1, m) /\ m \in Int /\ 1 \in Int
        BY <1>2 DEF SubAbort
    <2>2. stack \in Seq(Statement) /\ \A i \in 1..m : i \in 1..Len(stack)
        BY <1>2 DEF FrameInv, TypeOK
    <2>3. \A i \in 1..m : stack[i] \in Statement
        BY <2>2, ElementOfSeq
    <2>4. /\ Len(stack') = (IF 1 <= m THEN m - 1 + 1 ELSE 0)
          /\ DOMAIN stack' = 1..Len(stack')
          /\ \A i \in 1..(m - 1 + 1) : stack'[i] = stack[1 + i - 1]
        <3> HIDE DEF m
        <3> QED
            BY <2>1, <2>3, SubSeqProperties, LenProperties
    <2> QED
        BY <1>2, <2>2, <2>4
<1>4. work' = subs[n].work /\ warned' = warned
    BY DEF SubAbort, RolledBackTo
<1>5. \A l \in 0..m : WrittenIn(stack, l) => WrittenIn(stack', l)
    BY <1>2, <1>3 DEF WrittenIn
<1>6. QueueOf(work') # {} => WrittenIn(stack', m)
    BY <1>1, <1>2, <1>4, <1>5 DEF FlushInv
<1>7. ASSUME NEW i \in 1..(n - 1), QueueOf(subs[i].work) # {}
      PROVE  WrittenIn(stack', subs[i].nest)
    <2>1. i \in DOMAIN subs /\ i <= n /\ n \in Nat
        BY <1>1, FrontIs, FramesAre
    <2>2. subs[i].nest <= m /\ subs[i].nest \in Nat
        BY <1>1, <2>1, FramesAre, BoundTypes DEF FrameInv, SavedFrames
    <2>3. subs[i].nest \in 0..m
        BY <1>2, <2>2
    <2> QED
        BY <1>5, <1>7, <2>1, <2>3 DEF FlushInv
<1>8. DOMAIN subs' = 1..(n - 1) /\ \A i \in 1..(n - 1) : subs'[i] = subs[i]
    BY <1>1, FrontIs
<1>9. \A i \in 1..m : stack'[i].kind = "read" => stack'[i].events = <<>>
    BY <1>3 DEF FlushInv
<1> HIDE DEF m, n
<1> QED
    BY <1>3, <1>4, <1>6, <1>7, <1>8, <1>9 DEF FlushInv

LEMMA EndFlushes ==
    AlwaysOn /\ FrameInv /\ FlushInv /\ (Commit \/ ImplicitCommit \/ FailUnflushed \/ Abort)
      => FlushInv'
<1> SUFFICES ASSUME AlwaysOn, FrameInv, FlushInv, Commit \/ ImplicitCommit \/ FailUnflushed \/ Abort
             PROVE  FlushInv'
    OBVIOUS
<1>1. Reset /\ warned' = warned
    BY NeverSuspended DEF FrameInv, Commit, ImplicitCommit, FailUnflushed, Abort, Undone
<1> QED
    BY <1>1, NothingIs DEF FlushInv, Reset

LEMMA StutterFlushes == FlushInv /\ UNCHANGED vars => FlushInv'
    BY DEF FlushInv, vars

LEMMA InitFlushes == Init => FlushInv
    BY NothingIs DEF Init, FlushInv

LEMMA NextFlushes == AlwaysOn /\ FrameInv /\ FlushInv /\ [Next]_vars => FlushInv'
    BY StartFlushes, WriteFlushes, EndRunFlushes, FireRowFlushes, FireFlushFlushes,
       FinishFlushes, CallsFlush, SubStartFlushes, SubCommitFlushes, SubAbortFlushes,
       EndFlushes, StutterFlushes DEF Next

LEMMA FlushHolds == ASSUME AlwaysOn PROVE Spec => [](FrameInv /\ FlushInv)
<1>1. Init => FrameInv /\ FlushInv
    BY InitFrames, InitFlushes
<1>2. FrameInv /\ FlushInv /\ [Next]_vars => (FrameInv /\ FlushInv)'
    BY NextFrames, NextFlushes
<1> QED
    BY <1>1, <1>2, PTL DEF Spec

\* Where every statement has a frame and nothing is suspended, the flushes of
\* the outermost statements leave the end of a transaction nothing to refuse.
THEOREM NothingLeftUnflushed ==
    ASSUME "copy" \notin Kinds, MaxSuspend = 0 PROVE Spec => NothingUnflushed
<1>1. FrameInv /\ FlushInv /\ [Next]_vars => [~FailUnflushed]_vars
    <2> SUFFICES ASSUME FrameInv, FlushInv, FailUnflushed
                 PROVE  FALSE
        OBVIOUS
    <2>1. WrittenIn(stack, Len(stack)) /\ stack = <<>>
        BY DEF FailUnflushed, FlushInv
    <2> QED
        BY <2>1 DEF WrittenIn
<1>2. Spec => [](FrameInv /\ FlushInv)
    BY FlushHolds DEF AlwaysOn
<1> QED
    BY <1>1, <1>2, PTL DEF Spec, NothingUnflushed

\* And, where nothing is patched, the outermost statement leaves its rows as
\* they finally are: a row a nested statement refreshed is refreshed again.
THEOREM FinishLeavesFresh ==
    ASSUME Patches = {FALSE}, "copy" \notin Kinds, MaxSuspend = 0
    PROVE  Spec => [][FinishIsFresh]_vars
<1>1. FrameInv /\ (FlushInv /\ CoverInv)' => (stack = <<>> /\ ~Suspended => \A k \in RowKey : tv[k] = base[k])'
    <2> SUFFICES ASSUME CoverInv', FlushInv', stack' = <<>>, ~Suspended', NEW k \in RowKey
                 PROVE  tv'[k] = base'[k]
        OBVIOUS
    <2>1. /\ \/ tv'[k] = base'[k]
             \/ k \in QueueOf(work')
             \/ FiresIn(stack', Len(stack'), k)
             \/ k[1] \in warned'
        BY DEF CoverInv, CoveredNow, Covered, Suspended
    <2>2. Len(<<>>) = 0
        OBVIOUS
    <2> QED
        BY <2>1, <2>2 DEF FlushInv, WrittenIn, FiresIn
<1>2. FrameInv /\ (FlushInv /\ CoverInv)' => [FinishIsFresh]_vars
    <2> SUFFICES ASSUME FrameInv, (FlushInv /\ CoverInv)', Finish, stack' = <<>>, ~Suspended,
                        NEW k \in Top.rows
                 PROVE  tv'[k] = base'[k]
        BY DEF FinishIsFresh
    <2>1. k \in RowKey
        BY TopIs DEF FrameInv, Finish, Statement
    <2>2. ~Suspended'
        BY DEF Finish, Suspended
    <2> QED
        BY <1>1, <2>1, <2>2
<1>3. Spec => [](FrameInv /\ FlushInv) /\ [](FrameInv /\ CoverInv)
    BY FlushHolds, CoverHolds DEF AlwaysOn, NoPatches
<1> QED
    BY <1>2, <1>3, PTL DEF Spec
====
