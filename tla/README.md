# TLA+ models of pg_tviews

[velocitybench](../src/README.md) compares web and GraphQL frameworks over one
PostgreSQL schema. The part of it with logic of its own is a PostgreSQL extension in
Rust, `pg_tviews` (`database/pg_tviews`, 37,000 lines): it keeps *TVIEWs*, tables
`tv_<entity>` that materialise a view, with one JSONB document (`data`) per row, in step
with the base tables inside the transaction that writes them. Two smaller extensions
serve it: `jsonb_delta` (patches of documents) and `pg_treekey` (identifiers and paths of
trees).

The modules here model what `pg_tviews` does between a write and the commit (what is
queued, when it is flushed, how a flush brings every TVIEW to its view, what savepoints,
errors, suspension and other sessions do to all of it), what it remembers and tells about
it, how the analysis of a definition decides which rows a write reaches, what becomes of a
TVIEW under DDL, crashes and partitions, and what the two companion extensions compute.
Paths below are relative to `database/pg_tviews/src/` unless they name another directory.

## Inventory

| Component | State it keeps | Operations | What is hard |
| --- | --- | --- | --- |
| pending refresh work (`queue/state.rs`, `ops.rs`, `patch.rs`) | `Txn`: queued keys, a patch or a poison per key, fan-out fields per parent key; an undo log | enqueue (one, patched, bulk, all), record and poison a patch, fan-out, drain, mark / release / rollback | an exact undo through nested savepoints, drains inside them, bulk enqueues cut short by the queue limit |
| savepoints (`flush/savepoint.rs`) | a stack of marks: work, rows to publish, locks, frames, suspension | start, commit, abort | five pieces of state restored together |
| flush (`flush/drain.rs`, `apply.rs`, `propagate.rs`, `refresh/`) | `Flush`: pending, processed and changed keys, patches, fan-outs, iteration | take the work; per pass: the next entity, patch or recompute its rows, find and queue the parents; take late work | order of entities, patches that must equal a recompute, rows not materialised yet, work queued by the flush's own writes, termination |
| triggers (`trigger.rs`, `delta/`) | none of their own | row, delta, TRUNCATE and flush trigger | what a write can be captured as; which keys a statement's rows map to |
| executor hooks (`executor.rs`) | `FRAMES`: is each running query a writing one | run, finish, `flush_deferred`, truncate, reset | nested statements, errors that skip pops |
| suspension (`suspend.rs`, `api/session.rs`) | depth and changed entities | suspend, resume, catch up, record, snapshot / restore | savepoints, implicit commit, work queued before |
| end of transaction (`flush/xact.rs`, `hooks/mod.rs`) | none of its own | COMMIT hook, PRE_COMMIT check, resets | no query may run in a callback |
| lineage (`lineage/`) | a graph per definition | walk, kinds, paths, read sets | outer joins, UNIONs, subqueries, windows: which rows a write reaches |
| dependency graph and plan (`catalog/`) | a snapshot of the catalog | topological order, lookup columns, embeddings | reading them off the user's view |
| locks between sessions (`concurrency/`) | a registry of held value and relation locks | lock, escalate, mark / rollback | two snapshots missing each other's writes; deadlocks |
| journal of affected rows (`queue/affected.rs`, `report.rs`) | changes of the transaction, capped | record, fold, mark / rollback | net change across rollbacks, overflow |
| change feed (`queue/published.rs`, `publish.rs`) | rows and collections to publish; a shared gap counter | add, resolve, publish at commit | order of visibility and gap, caps |
| UNLOGGED TVIEWs (`lifecycle.rs`, `refresh/full.rs`) | a claim row per trusted TVIEW | check, claim and refill, forget | crash, concurrent claims, abort of one |
| catalog caches (`cache/mod.rs`, `revision.rs`) | memos, generations | invalidate, sync, forget on abort | staleness across backends and rollbacks |
| statistics (`stats.rs`) | a shared open-addressing table | find, take, free, reset | moving entries back when a slot is freed |
| partitions (`delta/partition.rs`, `dependency/triggers.rs`, `hooks/statements.rs`) | a TRUNCATE epoch, cached roots | attach, detach, create, drop, truncate | rows that move without a trigger |
| DDL (`ddl/`, `hooks/`) | the catalog tables | create, replace, rename, move, drop | locks against writers, rollbacks, ownership |
| `jsonb_delta`, `pg_treekey` | none; identifiers and paths in rows | pure functions; triggers | totality, moves of subtrees, uniqueness |
| benchmark harness, servers, generators, site | none | | not modelled: no logic to check |

How they interact: a statement writes base rows; its row and delta triggers lock the
values they changed, find the rows those reach and *enqueue* them into `Txn` (or,
suspended, record the entity); the flush trigger, the end of the outermost writing
statement, the COMMIT hook, a resume or a report function *flush*; the flush drains
`Txn`, locks what its rows read and writes `tv_*` tables, whose own triggers enqueue
again, and records each changed row in the journal and the published set; subtransaction
callbacks mark and roll back all of that memory; the transaction callback refuses a
commit with keys queued, publishes, and resets.

What makes each correct: a savepoint restores exactly what it started from; no row is
ever stale with nothing queued that will refresh it; a patch writes what a recompute
would; a flush refreshes in dependency order, ends, and leaves nothing; what commits is
fresh, whatever other sessions commit meanwhile; reports and messages are the net effect
of what was not rolled back; a memo is never older than what its transaction sees; what is
registered has its table, view, triggers and rows.

## Modules

| Module | Models | Abstract specification |
| --- | --- | --- |
| `RefreshWork` | the three maps of `Pending` as one function over slots, and what each enqueue does to it; shared by the others | |
| `SavepointSnapshots` | savepoints that keep a copy of the work | is one |
| `PendingWork` | `Txn` with its undo log, bulk loops and rollbacks one iteration per step, savepoint marks, queue limit, commit check | implements `SavepointSnapshots` |
| `RowChanges`, `AffectedJournal`, `CascadeReport`, `PublishedSet` | the net change of a row; the journal; the report; the published set and its messages, as operators on values | |
| `TransactionBooks` | a transaction that records rows in both, its savepoints, report, commit, and a listener with a cache | |
| `TviewFlush` | base tables, TVIEW tables, triggers' captures, the flush pass by pass | the user's view (`ViewRow`) is what each row is compared with |
| `RefreshSession` | statements and their frames, triggers, suspension, savepoints, transactions | |
| `ValueExclusion` | a writer of a value excludes the refreshes that read it | is one |
| `ValueLocks` | the lock calls, one lock at a time, escalation, the registry and its marks | implements `ValueExclusion` |
| `RefreshLocks` | transactions of several sessions that look rows up, lock, compute and write them from their own snapshots | |
| `StatsTable` | the shared table of statistics | |
| `ViewDefinitions`, `LineageWalk`, `LineageGraph` | definitions and what they return; the walk; the graph, kinds, mappings and read sets | |
| `MappedWrites` | statements on the tables of a definition, with the keys their rows map to | the definition itself |
| `TviewDdl` | a TVIEW's table, view, registration, triggers and owner through DDL of several sessions | |
| `UnloggedTviews` | rows and claims through crashes, restores, `ALTER TABLE ... SET`, prepared transactions, the rebuild worker | |
| `PartitionTriggers` | partitioned base tables, triggers on their tree, rows that enter and leave it | |
| `CatalogCaches` | memos of several backends, invalidation, rollbacks | |
| `JsonbDelta`, `IdentifierTemplates`, `TreeKeys` | the companion extensions | |
| `MC*` | one small instance each; where two components share nothing, one MC module runs either of them (`which`, `Parts`, `slice`) | |
| `*Proofs` | theorems, see below | |

### PendingWork

`pending` is `Txn.pending`, `undo` and `open` are `Txn.undo` and `Txn.open`, `marks` the
`state::Mark` of each entry of `SAVEPOINTS`. Each function of `queue/ops.rs`,
`queue/patch.rs` and `queue/state.rs` that writes is an action. `enqueue_refresh_bulk`
and `rollback` loop over keys and entries: `loop` holds what is left, and every other
action waits, as one thread makes them. An ERROR of the queue limit disables the enqueue
(`BelowLimit`) and what follows an ERROR is `SubAbort` or `Abort`, always enabled.

The abstraction maps the undo log to snapshots: `work` is `pending` itself, and copy *i*
of `Copies` is the pending work with the entries above mark *i* reverted, in order.
`SavepointsAreSnapshots` is the abstract specification under that mapping. While a
rollback's loop runs (`undoing`) the abstract specification lets nothing else happen, and
its last step, `Restored`, has to leave the copy: a loop that stops an entry short
(`RevertDoneShort`) is no step of it.

### TransactionBooks

`AffectedJournal` and `PublishedSet` are operators from a book to the next (record, mark,
roll back, compact, fold, encode), `CascadeReport` reads both. `TransactionBooks` is one
transaction after another that write rows through them under savepoints, ask for reports
and commit, and a listener that keeps rows and lists of a post's comments until a message
(or the gap counter, or a notice that a table went) evicts them. Sizes are counted in
units: an id, a key, a name are one each, with every cap within reach.

### TviewFlush

The schema is data: `Table`, `Tview`, `Order`, and per reference `Ref` a view follows
`From`, `To` and `Place` (a nested document, an element of an array, a scalar read out of
a document, a TVIEW's table read like a base table, a base column copied). `base` holds a
value and the ids each row references; `tv` what is materialised: the ids (lookup
columns) and the document, a function from paths to values. `ViewRow` is the user's view.

`Write` is one row of a statement with its triggers' captures (`enqueue_local_keys`,
`try_capture_direct_patch`, `map_statement`, `fan_out`); `Truncate` the TRUNCATE trigger,
whose own flush is a `BeginFlush` that follows. `BeginFlush`, `ApplyFanout`, `Apply`
(`refresh_all` or `apply_keys`), `Propagate`, `TakeLate`, `EndFlush` are the steps of
`flush_pending`; `UserTrigger` a trigger of the user's on a `tv_*` table that writes a
base table while the flush runs. The statements of one pass are one step, so user
triggers fire after them; fan-out groups apply in any order (the code iterates a hash
map). The rows of an array embed are modelled with one element.

### RefreshSession

`stack` is the nest of statements (their rows, the AFTER ROW events still to fire, phase
`run` or `finish`), `frames` is `FRAMES`, `suspension` is `SUSPENSION`, `subs` is
`SAVEPOINTS` with the tables PostgreSQL itself restores. A row's content is the number of
the write that made it. A statement may start at any point of another's run or triggers;
a block (subtransaction) opened in a statement ends before the statement goes on, and a
rollback may come from any depth. PostgreSQL refuses to write a row again that a nested
statement changed: `WriteRow` excludes it. The flush is one step, `Flushed`, which is
what TviewFlush details for one row of each TVIEW. `Patches` says which UPDATEs are
captured as direct patches: with them a committed row can be stale (see *Differences*),
so the run and the freshness theorems take `{FALSE}`.

### ValueLocks and RefreshLocks

`ValueLocks` has, per session, `held` (what the lock manager granted, with the
subtransaction that took it), `log` and `marks` (the registry), and the call in progress.
A call decides from the registry what it needs, then acquires it one lock at a time with
the other sessions' steps in between; past `Threshold` values of a relation it locks the
relation. `Covered` maps that to what `ValueExclusion` speaks of.

`RefreshLocks` takes the locks as the code orders them (values changed before rows are
looked up; values read before rows are computed; TVIEW rows, or the keys of rows to be
created, before both) and is about what each session *reads*: a statement snapshot at
READ COMMITTED, one per transaction at REPEATABLE READ. A session runs a `script` of
statements; a rename reaches `tv_post` in one of three `Ways` (a mapping query, a
fan-out patch, through an embedded TVIEW); the authors of a post stand for the rows it
is linked to, of one table or, where they fan out, of a table each. `CommittedIsFresh`
compares every committed TVIEW row with the view over what is committed.

### Definitions and lineage

A definition is a small algebra: levels (SELECT or UNION) of joins, conditions,
subqueries, DISTINCT ON, windows and LIMIT, embedded TVIEWs. `ViewDefinitions` says what
it returns, `LineageWalk` and `LineageGraph` translate the walk and the graph of
`lineage/` over it, `MappedWrites` runs statements that refresh only the keys found. The
kinds computed for the thirty-one definitions of `MCLineage` are those ADR 0157
documents.

### TviewDdl, UnloggedTviews, PartitionTriggers, CatalogCaches

`disk` and `txn[s].mine` are the catalog as committed and as a session changed it. A
statement takes its locks in one step and waits while another session holds one that
conflicts; `Abort` is always enabled, a deadlock's victim included. In `UnloggedTviews` a
row is full when the TVIEWs it reads had theirs, so that a refill from an empty TVIEW
shows. In `PartitionTriggers` a TVIEW row is the set of leaf tables that hold a row of
its key; a `TRUNCATE` names one or two tables (`MaxNamed`) and keeps `TRUNCATE_EPOCH`,
`TRUNCATE_REFRESHED` and `TRUNCATE_MAPPED` (`truncates`), which outlive the transaction.
`truncate_mapped` also records a `DROP` or a `DETACH` once the session has run a
`TRUNCATE`, where its comment (`delta/trigger.rs:25`) says nothing is recorded; the next
`TRUNCATE` has another number, so that it changes nothing. In `CatalogCaches` a value is the set of changes of its relation that were
visible when it was read.

### JsonbDelta and TreeKeys

`JsonbDelta` applies the extension's functions one after the other to one document.
`TreeKeys` is one table that is a tree; row triggers are operators from table to table in
the order PostgreSQL fires them, an update issued by a trigger with its own triggers
before the next one.

## Runs

| Run | Question | Bounds, and why they are enough |
| --- | --- | --- |
| `pending_work` | does the undo log restore every savepoint, with patches, poison and keys paired? do the report and the feed say the net effect, and is nothing a listener caches silently stale? | 2 keys, an `all` key, 1 fan-out, 2 values, 2 nested savepoints, 4 undo entries: a key written, patched, poisoned and drained at two levels. 3 writes of a post, its comment and enough rows to pass every cap, 1 savepoint; at most one transaction's news is unread (`FewTransactions`). `Interchangeable`: the keys, and the values, may be exchanged |
| `flush_cascade` | is every stale row accounted for, through users, posts, feed? do patches equal recomputes, does every flush end, with a user's trigger that writes on every pass? | 2 writes or TRUNCATEs with flushes anywhere between; two levels of embedding, a copied column, rows appearing and moving; `max_propagation_depth` 4 |
| `flush_shapes` | the same for two placements of one child, a scalar, an array, a TVIEW read like a base table; is late work taken? | 3 writes |
| `sessions` | do frames follow statements, do nested ones leave their work to the outermost, what do suspension and the ends of transactions leave? | 3 statements deep, 2 open blocks, 3 writes, 2 suspensions nested, in two slices (nesting on one row, suspension on two TVIEWs with COPYs): a nested write before and after each trigger of two enclosing levels |
| `value_locks` | is the registry what is held, do the two sides exclude each other across an escalation, do calls in one order avoid deadlock? | 2 interchangeable sessions, 2 values, threshold 1, 1 savepoint: one side on values, the other on the relation, released by a rollback; one session changes a link (`OneLinks`) |
| `refresh_locks` | is what commits fresh when two transactions write what the same rows read? | 2 users, 2 posts, every pair of statements in two transactions, two of them in one, both isolation levels, all three ways; beside it 4 statistics keys in 3 slots |
| `algorithms` | does refreshing only the mapped keys keep the TVIEW equal to its view, do read sets meet writes? do identifiers follow ancestors and stay unique? do patch functions agree? | 31 definitions, every content of tables of 2 ids (`s`, in `Small`, holds one row at most), every statement, statements on two tables at once for the definition that links them (`Joint`); 3 nodes, every registration; documents of 2 keys, arrays of 3, depth 2; the paths begin with one key (`RootKeys`), the keys being alike |
| `ddl` | is what is registered whole, are rows the view, do drops keep to their owner? is a trusted UNLOGGED TVIEW filled? | 2 sessions, 2 TVIEWs, one reading the other, 2 roles, 3 statements a behaviour; 1 write, 1 crash, 1 alteration |
| `partitions` | do rows and triggers follow the tree? is a memo ever stale? | a tree of two levels and a table apart, a local and a mapped TVIEW, 3 statements (a write between two TRUNCATEs), 2 tables named by a TRUNCATE; 2 catalog changes, 2 backends |
| `rename_through_view` (violated) | are rows the view after a column is renamed that a TVIEW reads through another view? | 1 TVIEW |
| `create_misses_a_write` (violated) | and after a `CREATE TABLE tv_* AS` beside a writer? | as `ddl` |
| `recreated_row` (violated) | and with three transactions, one of which deletes a row another creates? | 1 post, 2 users |

Three writes or statements are what the hazards take: one to make a row, one to change it
while its work is pending, one to change what it reads. Every property of a passing run
has a broken variant of the code that violates it (definitions marked *mutation* or
*Broken variant*), so that none holds by the shape of the model.

`OnTheTree` (algorithms) stops a behaviour where a table's paths are no longer its tree, or
a session whose triggers stay off: the code reaches both, see *Differences*. `QuietStarts`
(ddl) lets nobody change what a TVIEW starts to read while it does; without it
`create_misses_a_write` is what happens. `IsPartition` leaves out a partition above a
table that is being detached concurrently.

Every run checks deadlock: an open transaction can always be rolled back, and one that
ended can be followed by another; a session of `RefreshLocks` whose script is done
stutters.

### What the violated runs show

1. `rename_through_view`: `reading_column` looks at the TVIEW's backing view alone
   (`depth = 0`). A TVIEW that reads the column through another view keeps the old name in
   its plan, and its row trigger skips the next write as one that changes nothing it reads.
2. `create_misses_a_write`: the fill of a new TVIEW reads before its triggers exist and
   without a lock against writers, so that a write not committed yet is in neither.
3. `recreated_row`: `check_patches` locks the rows it will patch and looks at what they
   embed now, but keeps the patch of a row that is gone, which the patch's own `UPDATE` is
   to miss. At READ COMMITTED that is a later statement: a row inserted again meanwhile
   under the same key, by another author, gets the renamed user's name. Found by a proof
   that did not go through: two transactions, as in `refresh_locks`, are not enough.

### Differences without a run

Seen while modelling, each by a variation of a run (a constant or a property changed):

- *Flush and queue.* `fail_unflushed` looks at keys only, so that a transaction that ends
  with a fan-out pending drops it. A flush of fan-outs only does not drain what its writes
  queue (`flush/drain.rs`); late work for a row whose parent was refreshed already leaves
  the parent stale (`flush/apply.rs`). A derived patch misses a value read out of the
  document. Late work refreshes a key a second time in one flush, against "at most once
  per flush" (`flush/mod.rs:28`). A bulk enqueue checks `max_queue_size` once and may pass
  it (`queue/ops.rs:87-91`).
- *Fan-outs.* The UPDATE of a fan-out patch takes its rows in the order its plan finds
  them (`refresh/direct.rs:266`): updates of rows of two tables that share two TVIEW rows
  can, in the model, wait for each other, against "such writes never wait for each other
  in a cycle" (`test/concurrency/fuzz/README.md:16-17`). Only what is refreshed by key is
  locked in key order (`refresh/mod.rs:571-577`), and `ValueWritesDoNotDeadlock` says no
  more than that.
- *Rows waited for out of order.* Nor is all that is refreshed by key locked in that order:
  `lock_rows` asks for the rows created between its two statements (`CreatedRows`) while it
  holds others of its pass. With four sessions, two that rename users and two that delete
  and insert a post whose row the renames' refreshes had found, the renames can wait for
  each other, one of them for the row that came back below one it holds; so can an update
  of patched rows that waits for such a row. `Late` names these waits, and a cycle of value writes has one in it. The
  server's deadlock detection ends it with an error.
- *Direct patches.* Nested and enclosing updates of one row are captured in the order of
  their triggers, and the older value may win; a patch captured before a suspension is
  applied after the rebuild that ends it.
- *Sessions.* A statement whose trigger suspends refresh after its rows were queued fails
  its implicit commit instead of warning (`trigger.rs:496`, `flush/xact.rs:132`); a COPY
  nested in a writing statement is not deferred (`executor.rs:58`).
- *Feed.* A row replaced in the published set inside a savepoint loses what it replaced
  when the savepoint is rolled back (`queue/published.rs:423`; the run has `Replacing =
  FALSE`); a ninth message is possible when the first id costs within `EMPTY_LEN` of
  `MESSAGE_BYTES` (`publish.rs:291`).
- *UNLOGGED TVIEWs and caches.* A TVIEW found filled by a transaction that is then rolled
  back stays trusted (`lifecycle.rs:231-232`); PREPARE keeps a claim (`lifecycle.rs:265`);
  the revision stays matched after a savepoint rollback undid the upgrade
  (`flush/xact.rs:46-55`, `revision.rs:95-97`); the memo of partition roots watches no
  relation, so that another backend's attach is missed (`cache/mod.rs:114`, against
  `docs/reference/ddl.md:478-484`). With `Preparing = TRUE`, `NothingUndoneIsRemembered`
  is violated.
- *Partitions.* A TVIEW that reads a table below the root of its tree is not told of rows
  that enter the root (`trigger.rs:135`, `delta/partition.rs:242`, against `ddl.md:474`).
- *Statistics.* `free` clears `overflowed` (`stats.rs:136`), though the field says "A
  TVIEW found the table full since the last reset" (`stats.rs:75`) and `status.rs:110-111`
  reads it so: a TVIEW untracked while the table was full is shown as idle once another is
  dropped. `forget` at a drop is not undone by a rollback.
- *Lineage.* A NULL in the list of a NOT IN, and a link between two branches of one UNION,
  are traced less than the definition reads (`lineage/walk/predicate.rs:60`,
  `lineage/graph.rs:583`).
- *pg_treekey.* A multi-row UPDATE of a chain leaves identifiers behind their ancestors
  (`UpdateRows = 2`), so does moving a subtree (`SubtreeMoves = TRUE`); an UPDATE of the
  parent alone leaves the path stale, and so does an INSERT of a child before its parent;
  an error in a cascade leaves `IN_CASCADE` set for the session; re-registering a table in
  another mode replaces the trigger and keeps the row; two consecutive optional NULLs
  leave a separator dangling.

## Fairness

Safety runs assume none. `FlushEnds` is checked under `WF_vars(FlushStep)`: a flush is a
loop of one backend that waits for nothing but locks other transactions release when
they end; and under weak fairness of the abort that `DepthExceeded` raises, an ERROR
PostgreSQL always handles. No fairness is given to writes, user triggers or the user.

## Proofs

The theorems hold for every value of the constants that satisfies the assumptions of the
module proved about. A component's theorems are in a module that extends it.

**PendingWork** (`PendingWorkProofs`; assumptions `Markers`, the three markers are distinct
and no patch; `KeysApart`; `Bounds`).

- `TypeCorrect` and `LogStaysInStep`, inductive together: `TypeOK /\ LogInStep`. The
  second is the strengthening every other proof rests on: marks are ordered positions of
  the log, the log is empty outside a subtransaction, a running rollback stays above its
  mark. Lemmas about reverting a sequence of entries (a fold) carry the step from one
  entry to the log.
- `UndoLogImplementsSnapshots`: `Spec => SavepointsAreSnapshots`. Initial states map to
  initial states and each action to an abstract step or a stutter. The entries an operation
  logs, reverted, give the work before it, so every copy stays what it is while the log
  grows or a loop takes entries off; and when the loop ends its mark is reached, where
  the pending work is the copy.
- `PatchesAlwaysRide` and `PoisonSticks` follow by the same case split.

**RefreshSession** (`RefreshSessionProofs`, with the lemmas of `RefreshWorkProofs` on what
an enqueue makes of pending work; any keys, kinds of statements and bounds).

- `TypeCorrect`; `FramesFollow`: the frames are those of the statements running. Its
  invariant `FrameInv` counts, for the statements running and for each open block, the
  frames below: an ERROR caught by a block cuts the frames to what the block's mark says.
- `StaleStaysCovered`, `CommittedStaysFresh`, where no UPDATE is
  captured as a patch (`Patches = {FALSE}`; with patches they are false, see
  *Differences*): the invariant `CoverInv` says of every stale row, now and in every
  savepoint's copy, where its refresh is to come from: its trigger is still to fire, its
  key is queued, a resume rebuilds its TVIEW, or a commit warned of it.
- `NothingLeftUnflushed`, `FinishLeavesFresh`, where besides no statement is a COPY and
  nothing is suspended (both leave work behind a frame, see *Differences*): `FlushInv`
  relates the flushes due to the frames of the statements still to end.

**ValueLocks** (`ValueLocksProofs`; any sessions, relations, hashes, threshold, nesting of
savepoints).

- `RegistryCorrect`, `WritersExclude`: the inductive invariant is per session. The log and
  the lock manager name the same locks, a subtransaction's mark splits the log where the
  levels split the locks, a call asks for no lock held, a value lock has its intent lock at
  its level or further out, and granted locks are compatible.
- `FirstCallsGoThrough`: sessions in their first call never wait for each other in a
  cycle, however many they are. What a call has taken comes before what it still asks for
  (`OrderInv`), so a session waits only for sessions whose next lock comes later in one
  order; a cycle would have a lock before itself.
- `ImplementsExclusion`: `Spec => KeepsPromise`, the refinement of
  `ValueExclusion` under `Covered`. What a rollback gives back is what the registry's mark
  says, because the invariant ties both to the levels of the lock manager.

**RefreshLocks** (`RefreshLocksProofs`; any sessions, keys, scripts of statements and
isolation levels; assumptions `KeyAssumption`, keys are positive numbers and those of users
and posts apart; `ScriptAssumption`, what the constants are).

- `TypeCorrect`, `LocksNeverClash`, `RowsAreLocked`, from one inductive invariant. Between
  sessions it says that granted value locks never conflict and that a row that is not there
  is locked only by whoever may create it: who holds its key's lock with the TVIEW's intent
  lock, or all of `tv_post`. So two sessions never race to create one row, and an upsert
  takes no row lock another holds. Per session: what it wrote it has locked; a row it will
  recompute is locked or its key is, from the step that finds it to the upsert; a snapshot
  agrees with every row whose last writer it sees.

- `ValueWritesGoThrough`: `Spec /\ Autocommit => []ValueWritesDoNotDeadlock`, for any number
  of sessions of one statement each, at READ COMMITTED. Sessions that change no link go
  through what they wait for in one order (`WaitClass`, then keys): the row the statement
  writes, the values its trigger locks, rows of `tv_user`, keys of new ones, the users whose
  posts are looked up, rows of `tv_post`, keys of new ones. The invariant `Ordered` says
  what such a session holds at each step, all of it before what it waits for; so whoever it
  waits for waits for something later (`Rises`), and a cycle would come back to before
  itself. The one thing a refresh waits for on the way that does not fit, its intent lock,
  is held against it only by a refresh of the whole TVIEW, which is an exception already.
  TLC found `Ordered` to hold with two and three sessions before it was proved.

- `CommitsAreFresh` (`RefreshFreshnessProofs`; besides, `MarkerAssumption`: the markers are
  no row, no name and no authors): `Spec => [](way # "embed" => CommittedIsFresh)`. TLC
  found the invariant, `FInv`, to hold on slices of two sessions before it was proved. It
  says what a session's statement still owes (`Owed`, the posts to refresh; `Renamed`, the
  name a fan-out is to patch) and, of every other post, that the session sees its TVIEW row
  as the view computes it and, if it wrote anything that row reads, has that row locked
  (`RowsFresh`, `ReadersHeld`). What makes this survive the commits of others is in the
  locks: a name written is locked as written, the authors of a post written are locked as
  read, and these conflict; a post or a comment written took the TVIEW's intent lock, the
  setting all of it. So what another session commits leaves alone what the session's rows
  read, which is the largest part of the proof, or the row it changed is not locked yet
  and `Refused` or a failed update in the snapshot ends the transaction. `Computed` carries
  a row from the step that computes it to the one that writes and the one that checks it.

**TviewDdl** (`TviewDdlProofs`; any sessions, entities, roles, schemas, tables and
definitions; assumptions `DefinitionsAssumption`, a definition reads tables and nothing is
registered twice at first; `RolesAssumption`; `NoneAssumption`, the marker is no row).

- `InvHolds`, `RegisteredWhole`, `TablesAreKept`, from one inductive invariant, which TLC
  also found to hold on the instance of run `ddl`. What is committed being whole is not
  inductive: a transaction commits over what others committed since it made its changes. So
  the invariant says of every session that it sees whole TVIEWs, of a TVIEW it did not touch
  exactly what is committed, and that no two transactions touched one TVIEW: every change of
  a TVIEW writes its `Witness` (the row of its backing view, or of its table), which no
  other open transaction has written. A TVIEW between the steps of its creation is `Filled`;
  one being replaced stays registered, for the first step's read locks exclude a drop. Each
  action is then shown to turn the books (`Turns`) from whole to whole. `Right` and `Keeps`
  relate what a session removed to whose right it used.
- The rows (`RowsAreView`) and the graph (`NothingReadsItself`) are model-checked only.

**CatalogCaches** (`CatalogCachesProofs`; any number of changes and backends).

- `TypeCorrect`; `LookupsAreRight`: a memo a lookup would use is what its transaction sees;
  the invariant follows each change from the commit through the inbox of invalidations to
  the generation. `UndoneIsForgotten` (no prepared transactions): nothing a rollback undid
  is remembered.

**Only model-checked, and why.**

- `FlushEnds` is liveness under fairness, out of the prover's reach.
- `ReportIsNet`, `PublishedIsNet`, `StaleIsAnnounced`: folds over a journal of any length;
  what a fold yields for every input takes an induction over data.
- `algorithms`: recursive definitions over documents, templates and definitions;
  modules that declare RECURSIVE operators are closed to the prover. So for `TrackedIsFound`,
  the slots `free` moves back.
- `StaleIsCovered`, `PatchEqualsRecompute`, `FlushLeavesNothing` of the flush: the
  placements of a schema enter through constants whose well-formedness (what a derived
  patch may stand for) is itself the property.
- `NestedIsFlushed`, `NestedFromFinalState` with COPYs or suspension in play;
  `StaleIsCovered`, `CommittedIsFresh` where direct patches are captured (there they fail).
- `CommittedIsFresh` of `RefreshLocks` where `tv_post` embeds `tv_user` (`way = "embed"`):
  with three sessions it does not hold, see `recreated_row`.
- `ValueWritesDoNotDeadlock` of transactions of several statements, which hold what earlier
  ones locked, and at REPEATABLE READ, where a refresh locks the rows it does not patch only
  as its upsert writes them: there is no one order.
- `ddl` and `partitions` but for what is listed above.

## Not modelled, and why

- Flush: `max_refresh_rows`, the text of its statements; the lookup through two hops.
- Partitions: suspension, savepoints and nested statements there (a TRUNCATE run by a user's
  trigger inside another), a TVIEW over two base tables, foreign and unreadable partitions,
  value locks of entering rows.
- DDL: policies and declarations (options, storage, JSON indexes), `pg_tviews_reregister`,
  the conversion of a `CREATE TABLE AS`, managed indexes, views over backing views,
  lock-by-lock acquisition (deadlocks appear only as `Abort`).
- Lineage: computed outputs, CTEs, FULL and RIGHT joins, subqueries in JOIN conditions,
  reads of another TVIEW's table, virtual columns, aggregate FILTER, `reads_unchanged`.
- Caches: memos that are loaded before they watch rely on the writer's lock; the size limit
  of a memo; the launcher of the rebuild worker and the batches of a bulk load.
- `pg_treekey`: registration, `tg_cascade_path` where an ltree column is not read as text,
  concurrent sessions; `jsonb_delta`: search helpers, error texts.
- The counters of the statistics, formatting, metrics, audit rows, health functions, and
  the benchmark around the extension: they carry no property.

## Plan

Done: every component but the last has its module, its run and its hazards' properties.
Left, in order:

1. The rows of `TviewDdl` (`RowsAreView`): the SHARE locks of a replacement against the
   writes of others.
2. `TviewFlush`: `StaleIsCovered` for schemas of nested documents only.
3. The lookup through two hops, and suspension in `PartitionTriggers`.
