----------------------------- MODULE PendingWork -----------------------------
(***************************************************************************)
(* The transaction's pending refresh work and its undo log                 *)
(* (src/queue/state.rs), the operations the triggers and the flush apply   *)
(* to it (src/queue/ops.rs, src/queue/patch.rs), and its part of the       *)
(* savepoint stack (src/flush/savepoint.rs) and of the transaction         *)
(* callbacks (src/flush/xact.rs).                                          *)
(*                                                                         *)
(* One backend runs all of it: an operation is atomic, except the two      *)
(* loops (a bulk enqueue, a rollback), which take one step per iteration   *)
(* with every other action disabled until they end.                        *)
(***************************************************************************)
EXTENDS RefreshWork

CONSTANTS
    MaxQueue,    \* pg_tviews.max_queue_size
    MaxOpen,     \* bound: subtransactions open at once
    MaxUndo      \* bound: entries in the undo log

ASSUME Bounds == MaxQueue \in Nat /\ MaxOpen \in Nat /\ MaxUndo \in Nat

VARIABLES
    pending,   \* Txn.pending
    undo,      \* Txn.undo
    open,      \* Txn.open
    marks,     \* the undo mark of each open savepoint, innermost last
    loop,      \* the loop running, if any
    xact       \* the transaction, or how the last one ended

vars == <<pending, undo, open, marks, loop, xact>>

-----------------------------------------------------------------------------
(* The undo log. *)

\* Undo::Queued, Undo::Patch and Undo::Fanout: a slot and what it held.
Wrote(slot, old) == [kind |-> "slot", slot |-> slot, old |-> old]

\* Undo::Drained: the work a flush took.
Drained(taken) == [kind |-> "drained", taken |-> taken]

UndoEntry ==
    {e \in [kind : {"slot"}, slot : Slot, old : Content] : Fits(e.slot, e.old)}
        \cup [kind : {"drained"}, taken : Work]

\* The log once `entries` are pushed: only inside a subtransaction.
Logged(entries) == IF open > 0 THEN undo \o entries ELSE undo

\* Broken variant: every key inserted is logged as new, queued or not.
InsertEntriesAlways(k) == <<Wrote(QueueSlot(k), Absent)>>

\* queue_insert logs a key that was not queued, which a revert removes.
InsertEntries(k) ==
    IF pending[QueueSlot(k)] = Absent
    THEN <<Wrote(QueueSlot(k), Absent)>> ELSE <<>>

\* update_patch and merge_fanout log what the slot held, even nothing.
SlotEntries(s) == <<Wrote(s, pending[s])>>

DrainEntries == IF IsEmpty(pending) THEN <<>> ELSE <<Drained(pending)>>

\* Txn::revert.
Reverted(w, u) ==
    IF u.kind = "drained" THEN u.taken ELSE [w EXCEPT ![u.slot] = u.old]

-----------------------------------------------------------------------------
(* The loops: `Idle`, a bulk enqueue with the keys still to insert and to  *)
(* poison, a rollback to a mark.                                           *)

Idle == [kind |-> "idle"]
Bulk(insert, poison) ==
    [kind |-> "bulk", insert |-> insert, poison |-> poison]
Undoing(to) == [kind |-> "undo", to |-> to]

Loop ==
    {Idle} \cup {l \in [kind : {"bulk"}, insert : SUBSET RowKey, poison : SUBSET RowKey] :
                   l.insert \subseteq l.poison}
           \cup [kind : {"undo"}, to : Nat]

Running == loop = Idle /\ xact = "active"

Room == Len(undo) + 2 <= MaxUndo

\* check_queue_backpressure.  A refused enqueue raises an ERROR: the backend
\* rolls back the innermost subtransaction, or aborts the transaction.
BelowLimit == Cardinality(QueueOf(pending)) < MaxQueue

-----------------------------------------------------------------------------
(* What the triggers queue. *)

Init ==
    /\ pending = Nothing
    /\ undo = <<>>
    /\ open = 0
    /\ marks = <<>>
    /\ loop = Idle
    /\ xact = "active"

\* enqueue_refresh: queue the key, poison its patch.
Enqueue(k) ==
    /\ Running /\ Room /\ BelowLimit
    /\ pending' = [pending EXCEPT ![QueueSlot(k)] = Queued,
                                  ![PatchSlot(k)] = Poisoned]
    /\ undo' = Logged(InsertEntries(k) \o SlotEntries(PatchSlot(k)))
    /\ UNCHANGED <<open, marks, loop, xact>>

\* enqueue_refresh_patched: queue the key, record the captured fields.
EnqueuePatched(k, fields) ==
    /\ Running /\ Room /\ BelowLimit
    /\ pending' = [pending EXCEPT
                    ![QueueSlot(k)] = Queued,
                    ![PatchSlot(k)] = Recorded(pending[PatchSlot(k)], fields)]
    /\ undo' = Logged(InsertEntries(k) \o SlotEntries(PatchSlot(k)))
    /\ UNCHANGED <<open, marks, loop, xact>>

\* enqueue_refresh_all: one entry for every row, patches left alone.
EnqueueAll(k) ==
    /\ Running /\ Room
    /\ k \notin QueueOf(pending)
    /\ BelowLimit
    /\ pending' = [pending EXCEPT ![QueueSlot(k)] = Queued]
    /\ undo' = Logged(InsertEntries(k))
    /\ UNCHANGED <<open, marks, loop, xact>>

\* enqueue_refresh_bulk: one check, then two loops over the keys.
EnqueueBulk(keys) ==
    /\ Running /\ BelowLimit
    /\ Len(undo) + 2 * Cardinality(keys) <= MaxUndo
    /\ loop' = Bulk(keys, keys)
    /\ UNCHANGED <<pending, undo, open, marks, xact>>

BulkInsert(k) ==
    /\ loop.kind = "bulk"
    /\ k \in loop.insert
    /\ pending' = [pending EXCEPT ![QueueSlot(k)] = Queued]
    /\ undo' = Logged(InsertEntries(k))
    /\ loop' = Bulk(loop.insert \ {k}, loop.poison)
    /\ UNCHANGED <<open, marks, xact>>

BulkPoison(k) ==
    /\ loop.kind = "bulk"
    /\ loop.insert = {} /\ k \in loop.poison
    /\ pending' = [pending EXCEPT ![PatchSlot(k)] = Poisoned]
    /\ undo' = Logged(SlotEntries(PatchSlot(k)))
    /\ loop' = Bulk({}, loop.poison \ {k})
    /\ UNCHANGED <<open, marks, xact>>

BulkDone ==
    /\ loop = Bulk({}, {})
    /\ loop' = Idle
    /\ UNCHANGED <<pending, undo, open, marks, xact>>

\* record_fanout: no key is queued and no limit checked.
RecordFanout(g, fields) ==
    /\ Running /\ Room
    /\ pending' = [pending EXCEPT ![FanoutSlot(g)] = Merged(@, fields)]
    /\ undo' = Logged(SlotEntries(FanoutSlot(g)))
    /\ UNCHANGED <<open, marks, loop, xact>>

\* drain: a flush takes everything pending.
Drain ==
    /\ Running /\ Room
    /\ pending' = Nothing
    /\ undo' = Logged(DrainEntries)
    /\ UNCHANGED <<open, marks, loop, xact>>

-----------------------------------------------------------------------------
(* Subtransactions (SUBXACT_EVENT_START_SUB, _COMMIT_SUB, _ABORT_SUB). *)

SubStart ==
    /\ Running
    /\ open < MaxOpen
    /\ open' = open + 1
    /\ marks' = Append(marks, Len(undo))
    /\ UNCHANGED <<pending, undo, loop, xact>>

\* Broken variant: the outermost commit keeps the log.
SubCommitKeepingLog ==
    /\ Running
    /\ marks # <<>>
    /\ open' = open - 1
    /\ marks' = Front(marks)
    /\ UNCHANGED <<pending, undo, loop, xact>>

SubCommit ==
    /\ Running
    /\ marks # <<>>
    /\ open' = open - 1
    /\ marks' = Front(marks)
    /\ undo' = IF open' = 0 THEN <<>> ELSE undo
    /\ UNCHANGED <<pending, loop, xact>>

\* rollback: one level less, then the log replayed backwards to the mark.
SubAbort ==
    /\ Running
    /\ marks # <<>>
    /\ open' = open - 1
    /\ marks' = Front(marks)
    /\ loop' = Undoing(Last(marks))
    /\ UNCHANGED <<pending, undo, xact>>

RevertOne ==
    /\ loop.kind = "undo"
    /\ Len(undo) > loop.to
    /\ pending' = Reverted(pending, Last(undo))
    /\ undo' = Front(undo)
    /\ UNCHANGED <<open, marks, loop, xact>>

\* Broken variant: the loop stops one entry short of the mark.
RevertDoneShort ==
    /\ loop.kind = "undo"
    /\ Len(undo) <= loop.to + 1
    /\ undo' = IF open = 0 THEN <<>> ELSE undo
    /\ loop' = Idle
    /\ UNCHANGED <<pending, open, marks, xact>>

RevertDone ==
    /\ loop.kind = "undo"
    /\ Len(undo) <= loop.to
    /\ undo' = IF open = 0 THEN <<>> ELSE undo
    /\ loop' = Idle
    /\ UNCHANGED <<pending, open, marks, xact>>

-----------------------------------------------------------------------------
(* The end of the transaction: PostgreSQL has ended its subtransactions.   *)

\* state::clear and savepoint::clear, of RESET_AT_END.
Cleared ==
    /\ pending' = Nothing
    /\ undo' = <<>>
    /\ open' = 0
    /\ marks' = <<>>
    /\ UNCHANGED loop

\* XACT_EVENT_PRE_COMMIT: fail_unflushed lets it pass with no key queued; a
\* commit it refuses is an Abort.
Commit ==
    /\ Running /\ marks = <<>>
    /\ QueueOf(pending) = {}
    /\ Cleared
    /\ xact' = "committed"

\* XACT_EVENT_ABORT.
Abort ==
    /\ Running /\ marks = <<>>
    /\ Cleared
    /\ xact' = "aborted"

\* The backend's next transaction.
Begin ==
    /\ xact # "active"
    /\ xact' = "active"
    /\ UNCHANGED <<pending, undo, open, marks, loop>>

-----------------------------------------------------------------------------

Triggers ==
    \/ \E k \in RowKey : Enqueue(k)
    \/ \E k \in RowKey, fields \in Fields : EnqueuePatched(k, fields)
    \/ \E k \in AllKey : EnqueueAll(k)
    \/ \E keys \in (SUBSET RowKey) \ {{}} : EnqueueBulk(keys)
    \/ \E k \in RowKey : BulkInsert(k) \/ BulkPoison(k)
    \/ BulkDone
    \/ \E g \in FanoutKey, fields \in Fields : RecordFanout(g, fields)

Next ==
    \/ Triggers
    \/ Drain
    \/ SubStart \/ SubCommit \/ SubAbort
    \/ RevertOne \/ RevertDone
    \/ Commit \/ Abort \/ Begin

Spec == Init /\ [][Next]_vars

-----------------------------------------------------------------------------
(* What an undo log holds of earlier states. *)

Touches(u, s) == u.kind = "drained" \/ u.slot = s

Before(u, s) == IF u.kind = "drained" THEN u.taken[s] ELSE u.old

\* The first entry of `log` past mark m that changed slot s.
IsFirstTouch(log, m, s, i) ==
    /\ i \in (m + 1)..Len(log)
    /\ Touches(log[i], s)
    /\ \A j \in (m + 1)..(i - 1) : ~Touches(log[j], s)

TouchedSince(log, m, s) == \E i \in (m + 1)..Len(log) : Touches(log[i], s)

FirstTouch(log, m, s) ==
    CHOOSE i \in (m + 1)..Len(log) : IsFirstTouch(log, m, s, i)

\* The work when `log` stood at mark m, if it is w now: each slot as it was
\* before the first change logged since.
RecoveredFrom(w, log, m) ==
    [s \in Slot |-> IF TouchedSince(log, m, s)
                    THEN Before(log[FirstTouch(log, m, s)], s)
                    ELSE w[s]]

Recovered(m) == RecoveredFrom(pending, undo, m)

-----------------------------------------------------------------------------
(* Properties. *)

TypeOK ==
    /\ pending \in Work
    /\ undo \in Seq(UndoEntry)
    /\ open \in Nat
    /\ marks \in Seq(Nat)
    /\ loop \in Loop
    /\ xact \in {"active", "committed", "aborted"}

\* The log and the savepoint stack follow the open subtransactions: one mark
\* each, inside the log and above the enclosing one's, no deeper than a
\* rollback in progress reverts to; and nothing is logged, and no loop is
\* left running, once none is open or the transaction has ended.
LogInStep ==
    /\ open = Len(marks)
    /\ \A i \in 1..Len(marks) : marks[i] <= Len(undo)
    /\ \A i, j \in 1..Len(marks) : i <= j => marks[i] <= marks[j]
    /\ loop.kind = "undo" => \A i \in 1..Len(marks) : marks[i] <= loop.to
    /\ (open = 0 /\ loop.kind # "undo") => undo = <<>>
    /\ xact # "active" => open = 0 /\ loop = Idle

\* The pending work, or what a rollback in progress leads to.
LiveWork == IF loop.kind = "undo" THEN Recovered(loop.to) ELSE pending

\* The work each open savepoint started from.
SavedWork == [i \in 1..Len(marks) |-> Recovered(marks[i])]

\* The work each subtransaction started from, the one being rolled back too.
Copies ==
    IF loop.kind = "undo" THEN Append(SavedWork, Recovered(loop.to)) ELSE SavedWork

Snapshots == INSTANCE SavepointSnapshots
    WITH work <- pending, saved <- Copies, undoing <- (loop.kind = "undo")

\* A savepoint costs O(1) and logs each change, yet when a rollback's loop ends
\* what is pending is exactly what was when the savepoint started, through
\* nested levels, drains and levels merged by a commit, and no change on the way
\* disturbs what another open savepoint would bring back: the undo log
\* implements whole copies.
SavepointsAreSnapshots == Snapshots!Spec

\* A key queued and not yet poisoned by the bulk enqueue running.
Unpoisoned == IF loop.kind = "bulk" THEN loop.poison \ loop.insert ELSE {}

Paired(w, unpoisoned) ==
    \A k \in RowKey :
        /\ w[PatchSlot(k)] # Absent => w[QueueSlot(k)] = Queued
        /\ w[QueueSlot(k)] = Queued => w[PatchSlot(k)] # Absent \/ k \in unpoisoned

\* A patch rides on a queued key and a queued row carries a patch or a poison,
\* now and in the work any open savepoint would bring back.  A patch without
\* its key would be dropped by the flush that drains it and pass
\* fail_unflushed unseen; a key without either would be patched from a child's
\* chain (merge_chain_into starts one) where it must be recomputed.
PatchesRideOnKeys ==
    /\ Paired(LiveWork, Unpoisoned)
    /\ \A k \in Unpoisoned : pending[QueueSlot(k)] = Queued
    /\ \A i \in 1..Len(marks) : Paired(SavedWork[i], {})

\* Poison is sticky (patch.rs): only a flush taking it, a rollback, or the end
\* of the transaction removes a key's poison; no later capture patches a key an
\* ineligible change touched.
PoisonIsSticky ==
    [][\A k \in RowKey :
         pending[PatchSlot(k)] = Poisoned =>
            \/ pending'[PatchSlot(k)] = Poisoned
            \/ IsEmpty(pending')
            \/ loop.kind = "undo"]_vars

=============================================================================
