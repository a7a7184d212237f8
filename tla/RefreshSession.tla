---------------------------- MODULE RefreshSession ----------------------------
(***************************************************************************)
(* When a transaction's refresh work is flushed: the statements running,   *)
(* nested through triggers and functions, and the frames the executor      *)
(* hooks keep of them (src/executor.rs); the row and flush triggers        *)
(* (src/trigger.rs); refresh suspended and resumed (src/suspend.rs); and   *)
(* what savepoints, the end of a transaction and the COMMIT hook do with   *)
(* the three (src/flush/savepoint.rs, src/flush/xact.rs, src/hooks/mod.rs).*)
(*                                                                         *)
(* A base row is its version, the number of the write that made it; the    *)
(* TVIEW row of its key shows one.  A flush is one step here (TviewFlush   *)
(* has its own), a savepoint keeps a copy of what it restores (PendingWork *)
(* shows its undo log does).                                               *)
(***************************************************************************)
EXTENDS RefreshWork

CONSTANTS
    Kinds,       \* the queries that run: see below
    Patches,     \* may an UPDATE be captured as a direct patch?
    MaxWrites,   \* bound: base rows written
    MaxNest,     \* bound: statements nested
    MaxSuspend,  \* bound: suspensions nested
    MaxOpen      \* bound: subtransactions open at once

\* A query that writes no table with a flush trigger, one that writes such a
\* table, and a COPY into such a table, which the executor hooks do not see.
QueryKinds == {"read", "write", "copy"}

ASSUME Keys ==
    /\ AllKey = {} /\ FanoutKey = {}
    /\ Field = {"own"} /\ Value = 0..MaxWrites
    /\ Kinds \subseteq QueryKinds
    /\ Patches \subseteq BOOLEAN

ASSUME Bounds == {MaxWrites, MaxNest, MaxSuspend, MaxOpen} \subseteq Nat

VARIABLES
    base,        \* the base tables
    tv,          \* the TVIEWs' tables
    writes,      \* base rows written so far
    stack,       \* the statements running, innermost last
    frames,      \* FRAMES: is each a writing one?
    work,        \* Txn.pending
    suspension,  \* SUSPENSION
    subs,        \* SAVEPOINTS, with what PostgreSQL itself restores
    start,       \* the tables when the transaction started; None between two
    warned       \* TVIEWs a commit warned are stale

vars == <<base, tv, writes, stack, frames, work, suspension, subs, start, warned>>

None == [none |-> TRUE]
Active == start # None

Entity == {k[1] : k \in RowKey}

Resumed == [depth |-> 0, changed |-> {}]
Suspended == suspension.depth > 0

Top == stack[Len(stack)]

\* The innermost statement's own turn: no block of a function it called is open.
OwnTurn == Active /\ stack # <<>> /\ (subs # <<>> => subs[Len(subs)].nest < Len(stack))

Framed(kind) == kind # "copy"

-----------------------------------------------------------------------------
(* Refreshing. *)

\* flush_refresh_queue: each key queued is patched, or recomputed.
Flushed(t, w) ==
    [k \in RowKey |->
        IF k \notin QueueOf(w) THEN t[k]
        ELSE IF w[PatchSlot(k)] \in {Absent, Poisoned} THEN base[k]
        ELSE w[PatchSlot(k)]["own"]]

Flush(t) == tv' = Flushed(t, work) /\ work' = Nothing

\* flush_after_statement.
FlushAfterStatement == IF Suspended THEN UNCHANGED <<tv, work>> ELSE Flush(tv)

\* rebuild_with_dependents, but for its flush.
Rebuilt(entities) == [k \in RowKey |-> IF k[1] \in entities THEN base[k] ELSE tv[k]]

\* catch_up: nothing changed, nothing done.
CatchUp ==
    IF suspension.changed = {} THEN UNCHANGED <<tv, work>>
    ELSE Flush(Rebuilt(suspension.changed))

-----------------------------------------------------------------------------
(* Statements. *)

Init ==
    /\ base = [k \in RowKey |-> 0]
    /\ tv = base
    /\ writes = 0
    /\ stack = <<>>
    /\ frames = <<>>
    /\ work = Nothing
    /\ suspension = Resumed
    /\ subs = <<>>
    /\ start = None
    /\ warned = {}

Begin ==
    /\ ~Active
    /\ start' = [base |-> base, tv |-> tv]
    /\ UNCHANGED <<base, tv, writes, stack, frames, work, suspension, subs, warned>>

\* executor_run pushes a frame.
Start(kind) ==
    /\ Active /\ Len(stack) < MaxNest
    /\ stack' = Append(stack, [kind |-> kind, phase |-> "run", rows |-> {},
                               events |-> <<>>, flushed |-> FALSE])
    /\ frames' = IF Framed(kind) THEN Append(frames, kind = "write") ELSE frames
    /\ UNCHANGED <<base, tv, writes, work, suspension, subs, start, warned>>

\* A row the statement writes, and the event of its AFTER triggers.  A row is
\* written once: one a nested statement wrote raises an ERROR.
WriteRow(k, patch) ==
    /\ OwnTurn /\ Top.kind # "read" /\ Top.phase = "run"
    /\ k \notin Top.rows /\ writes < MaxWrites
    /\ base' = [base EXCEPT ![k] = writes + 1]
    /\ writes' = writes + 1
    /\ stack' = [stack EXCEPT
                   ![Len(stack)].rows = @ \cup {k},
                   ![Len(stack)].events =
                      Append(@, [key |-> k, version |-> writes + 1, patch |-> patch])]
    /\ UNCHANGED <<tv, frames, work, suspension, subs, start, warned>>

\* The rows are written: executor_run pops its frame, executor_finish pushes
\* one alike, and the AFTER triggers start firing.
EndRun ==
    /\ OwnTurn /\ Top.phase = "run"
    /\ stack' = [stack EXCEPT ![Len(stack)].phase = "finish"]
    /\ UNCHANGED <<base, tv, writes, frames, work, suspension, subs, start, warned>>

\* pg_tview_trigger_handler.
RowTrigger(event) ==
    IF Suspended
    THEN /\ suspension' = [suspension EXCEPT !.changed = @ \cup {event.key[1]}]
         /\ UNCHANGED work
    ELSE /\ work' = IF event.patch
                    THEN EnqueuedPatched(work, event.key, [own |-> event.version])
                    ELSE Enqueued(work, event.key)
         /\ UNCHANGED suspension

FireRow ==
    /\ OwnTurn /\ Top.phase = "finish" /\ Top.events # <<>>
    /\ RowTrigger(Head(Top.events))
    /\ stack' = [stack EXCEPT ![Len(stack)].events = Tail(@)]
    /\ UNCHANGED <<base, tv, writes, frames, subs, start, warned>>

\* flush_deferred: a frame below the innermost is a writing one.
FlushDeferred == \E i \in 1..(Len(frames) - 1) : frames[i]

\* pg_tview_flush_trigger, once the rows have fired; user triggers may follow.
FireFlush ==
    /\ OwnTurn /\ Top.phase = "finish" /\ Top.kind # "read"
    /\ Top.events = <<>> /\ ~Top.flushed
    /\ IF FlushDeferred THEN UNCHANGED <<tv, work>> ELSE FlushAfterStatement
    /\ stack' = [stack EXCEPT ![Len(stack)].flushed = TRUE]
    /\ UNCHANGED <<base, writes, frames, suspension, subs, start, warned>>

\* Broken variant: the flush trigger alone flushes.
OutermostNever(kind, left) == FALSE

\* executor_finish: the outermost writing frame was popped, `left` remain.
Outermost(kind, left) == kind = "write" /\ \A i \in DOMAIN left : ~left[i]

\* The statement below may not write the rows again.
Popped ==
    IF Len(stack) = 1 THEN <<>>
    ELSE [Front(stack) EXCEPT ![Len(stack) - 1].rows = @ \cup Top.rows]

Finish ==
    /\ OwnTurn /\ Top.phase = "finish" /\ Top.events = <<>>
    /\ Top.kind # "read" => Top.flushed
    /\ stack' = Popped
    /\ frames' = IF Framed(Top.kind) THEN Front(frames) ELSE frames
    /\ IF Outermost(Top.kind, frames') THEN FlushAfterStatement ELSE UNCHANGED <<tv, work>>
    /\ UNCHANGED <<base, writes, suspension, subs, start, warned>>

-----------------------------------------------------------------------------
(* The functions a session calls, at the top level or in a statement.      *)

Suspend ==
    /\ Active /\ suspension.depth < MaxSuspend
    /\ suspension' = [depth |-> suspension.depth + 1,
                      changed |-> IF suspension.depth = 0 THEN {} ELSE suspension.changed]
    /\ UNCHANGED <<base, tv, writes, stack, frames, work, subs, start, warned>>

\* pg_tviews_resume_triggers: the outermost resume catches up.
Resume ==
    /\ Active /\ Suspended
    /\ IF suspension.depth = 1
       THEN CatchUp /\ suspension' = Resumed
       ELSE /\ suspension' = [suspension EXCEPT !.depth = @ - 1]
            /\ UNCHANGED <<tv, work>>
    /\ UNCHANGED <<base, writes, stack, frames, subs, start, warned>>

\* pg_tviews_flush_and_report.
FlushAndReport ==
    /\ Active /\ ~IsEmpty(work)
    /\ Flush(tv)
    /\ UNCHANGED <<base, writes, stack, frames, suspension, subs, start, warned>>

-----------------------------------------------------------------------------
(* Savepoints, and the end of a transaction. *)

\* savepoint::start; `nest` is PostgreSQL's own, as are the tables.
SubStart ==
    /\ Active /\ Len(subs) < MaxOpen
    /\ subs' = Append(subs, [nest |-> Len(stack), base |-> base, tv |-> tv, work |-> work,
                             frames |-> Len(frames), suspension |-> suspension])
    /\ UNCHANGED <<base, tv, writes, stack, frames, work, suspension, start, warned>>

\* savepoint::commit.
SubCommit ==
    /\ Active /\ subs # <<>> /\ subs[Len(subs)].nest = Len(stack)
    /\ subs' = Front(subs)
    /\ UNCHANGED <<base, tv, writes, stack, frames, work, suspension, start, warned>>

\* Broken variant: the frames an error skipped stay.
TruncatedNever(depth) == frames
\* executor::truncate_to.
Truncated(depth) == SubSeq(frames, 1, depth)

\* Broken variant: what was suspended or resumed in the block stays so.
RestoredNever(saved) == suspension

\* suspend::restore.
Restored(saved) == saved

\* state::rollback.
RolledBackTo(saved) == saved

\* savepoint::abort: a ROLLBACK TO, or an ERROR in the block, whatever runs in
\* it, whose frames nothing may have popped.
SubAbort ==
    /\ Active /\ subs # <<>>
    /\ LET saved == subs[Len(subs)]
       IN /\ base' = saved.base
          /\ tv' = saved.tv
          /\ work' = RolledBackTo(saved.work)
          /\ stack' = SubSeq(stack, 1, saved.nest)
          /\ frames' = Truncated(saved.frames)
          /\ suspension' = Restored(saved.suspension)
    /\ subs' = Front(subs)
    /\ UNCHANGED <<writes, start, warned>>

\* RESET_AT_END, of what is modelled.
Reset ==
    /\ stack' = <<>> /\ frames' = <<>> /\ subs' = <<>> /\ start' = None
    /\ work' = Nothing

\* Broken variant: COMMIT flushes and rebuilds nothing.
CommitStillSuspended == tv' = Flushed(tv, work)

\* flush_before_transaction_end: catch up if still suspended, then flush.
HookedCommit ==
    tv' = IF Suspended /\ suspension.changed # {}
          THEN Flushed(Rebuilt(suspension.changed), work) ELSE Flushed(tv, work)

\* force_resume, what changed forgotten if it was suspended.
Ended == [depth |-> 0, changed |-> IF Suspended THEN {} ELSE suspension.changed]

\* A COMMIT at the top level.
Commit ==
    /\ Active /\ stack = <<>>
    /\ HookedCommit
    /\ suspension' = Ended
    /\ Reset
    /\ UNCHANGED <<base, writes, warned>>

\* The end of an autocommitted statement, or a COMMIT in a procedure, with
\* nothing queued: still suspended, it warns of what changed.
ImplicitCommit ==
    /\ Active /\ stack = <<>> /\ subs = <<>>
    /\ QueueOf(work) = {}
    /\ warned' = IF Suspended THEN warned \cup suspension.changed ELSE warned
    /\ suspension' = Ended
    /\ Reset
    /\ UNCHANGED <<base, tv, writes>>

Undone ==
    /\ base' = start.base
    /\ tv' = start.tv
    /\ suspension' = [suspension EXCEPT !.depth = 0]
    /\ Reset
    /\ UNCHANGED <<writes, warned>>

\* fail_unflushed, at the end of such a transaction.
FailUnflushed ==
    /\ Active /\ stack = <<>> /\ subs = <<>>
    /\ QueueOf(work) # {}
    /\ Undone

Abort == Active /\ Undone

Next ==
    \/ Begin
    \/ \E kind \in Kinds : Start(kind)
    \/ \E k \in RowKey, patch \in Patches : WriteRow(k, patch)
    \/ EndRun \/ FireRow \/ FireFlush \/ Finish
    \/ Suspend \/ Resume \/ FlushAndReport
    \/ SubStart \/ SubCommit \/ SubAbort
    \/ Commit \/ ImplicitCommit \/ FailUnflushed \/ Abort

Spec == Init /\ [][Next]_vars

-----------------------------------------------------------------------------
(* Properties. *)

Statement ==
    [kind : Kinds, phase : {"run", "finish"}, rows : SUBSET RowKey,
     events : Seq([key : RowKey, version : Value, patch : Patches]), flushed : BOOLEAN]

Suspension == [depth : 0..MaxSuspend, changed : SUBSET Entity]

Rows == [RowKey -> Value]

Saved == [nest : 0..MaxNest, base : Rows, tv : Rows, work : Work,
          frames : Nat, suspension : Suspension]

TypeOK ==
    /\ base \in Rows /\ tv \in Rows /\ writes \in Value
    /\ stack \in Seq(Statement) /\ Len(stack) <= MaxNest
    /\ frames \in Seq(BOOLEAN)
    /\ work \in Work
    /\ suspension \in Suspension
    /\ subs \in Seq(Saved)
    /\ start \in {None} \cup [base : Rows, tv : Rows]
    /\ warned \subseteq Entity
    /\ ~Active => stack = <<>> /\ subs = <<>> /\ IsEmpty(work) /\ ~Suspended

\* How many of the n outermost statements have a frame.
FramesOf(statements, n) == Cardinality({i \in 1..n : Framed(statements[i].kind)})

\* The frames kept by push, pop, truncate and reset (executor.rs) are those of
\* the statements running, through every error and rollback.
FramesFollowStatements ==
    /\ Len(frames) = FramesOf(stack, Len(stack))
    /\ \A i \in DOMAIN stack :
         Framed(stack[i].kind) => frames[FramesOf(stack, i)] = (stack[i].kind = "write")

\* The refresh of a key queued shows the row as it is now.
Queues(k) ==
    /\ k \in QueueOf(work)
    /\ \/ work[PatchSlot(k)] \in {Absent, Poisoned}
       \/ work[PatchSlot(k)]["own"] = base[k]

\* Row k's triggers have yet to fire, and will queue its refresh as it is now.
ToFire(k) ==
    \E i \in DOMAIN stack : \E j \in DOMAIN stack[i].events :
        LET event == stack[i].events[j]
        IN event.key = k /\ (event.patch => event.version = base[k])

\* No row is stale with nothing to bring it up to date: its triggers are to
\* fire, it is queued, its TVIEW is among those the resume rebuilds, or a commit
\* warned of it.
StaleIsCovered ==
    \A k \in RowKey :
        \/ tv[k] = base[k]
        \/ Queues(k) \/ ToFire(k)
        \/ Suspended /\ k[1] \in suspension.changed
        \/ k[1] \in warned

\* What a transaction commits is fresh, but for the TVIEWs it warned of.
CommittedIsFresh ==
    ~Active => \A k \in RowKey : tv[k] = base[k] \/ k[1] \in warned

\* No transaction ends with work it never flushed (fail_unflushed).
NothingUnflushed == [][~FailUnflushed]_vars

\* Each row is computed once, from the final state (docs/concurrency.md): when
\* the outermost statement ends, unless suspended, its rows are fresh.
FinishIsFresh ==
    Finish /\ stack' = <<>> /\ ~Suspended => \A k \in Top.rows : tv'[k] = base'[k]
=============================================================================
