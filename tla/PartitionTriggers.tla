------------------------- MODULE PartitionTriggers -------------------------
(* The triggers of TVIEWs on the tables they read, partitioned ones        *)
(* included (dependency/triggers.rs), and the rows of a partition that      *)
(* enter or leave its tree without a trigger firing (delta/partition.rs,    *)
(* hooks/statements.rs), while the TVIEWs are created, changed and dropped. *)
(* A TVIEW row is the set of the leaf tables that hold a row of its key.    *)
(* A transaction sees what is committed and its own changes; a statement    *)
(* that would wait for another's lock is not enabled.                       *)
EXTENDS Naturals, FiniteSets, TLC
LOCAL INSTANCE FiniteSetsExt

CONSTANTS Sessions, Entities, Keys,
          Partitioned, Leaves,  \* the base tables
          Homes(_),             \* the tables a table may be a partition of
          Tree0,                \* table -> the table it is a partition of at first
          Read0,                \* entity -> the table it reads at first
          Reads(_),             \* the tables its definitions may read
          Kind(_),              \* how the lineage maps writes to keys: "local" or "mapped"
          MaxNamed,             \* tables a TRUNCATE names at most
          MaxStatements

Tables == Partitioned \cup Leaves

VARIABLES disk,       \* item -> value, as committed
          txn,        \* session -> its transaction
          memo,       \* session -> table -> its PARTITION_ROOTS entry
          watched,    \* session -> the tables whose DDL clears the memo
          truncates,  \* session -> its TRUNCATE_EPOCH, _REFRESHED and _MAPPED
          statements  \* statements so far
vars == <<disk, txn, memo, watched, truncates, statements>>

Row(t, k) == <<"row", t, k>>         \* t holds a row of key k
Parent(t) == <<"parent", t>>         \* the table it is a partition of, None or Gone
Pending(t) == <<"pending", t>>       \* the table it is being detached from concurrently
Triggers(t) == <<"triggers", t>>     \* its own triggers: <<entity, tag>>
Read(e) == <<"read", e>>             \* the table the registered definition reads
Key(e, k) == <<"key", e, k>>         \* the TVIEW row
None == "none"
Gone == "gone"
Unknown == "unknown"

-----------------------------------------------------------------------------
(* Partition trees.                                                        *)
Ancestors(v, table) ==
  LET up[t \in Tables] ==
        LET p == v[Parent(t)] IN IF p \in Tables THEN {p} \cup up[p] ELSE {}
  IN up[table]
Tree(v, table) == {t \in Tables : v[Parent(t)] # Gone /\ (t = table \/ table \in Ancestors(v, t))}
Root(v, table) ==
  CHOOSE t \in {table} \cup Ancestors(v, table) : Ancestors(v, t) = {}

\* What the view of a TVIEW that reads `table` computes of a key.
ViewRow(v, table, k) == {l \in Tree(v, table) \cap Leaves : v[Row(l, k)]}

-----------------------------------------------------------------------------
(* The triggers (TriggerSet::specs, PARTITION_MEMBER).                     *)
PartitionMember == {"flush", "truncate"}
Specs(e, t) == PartitionMember \cup (IF Kind(e) = "local" \/ t \in Partitioned THEN {"row"} ELSE {"delta"})

\* row_trigger_entities
RowTriggerEntities(v, t) == {e \in Entities : <<e, "row">> \in v[Triggers(t)]}

\* The row triggers PostgreSQL copied onto a partition are its ancestors'.
RowTriggers(v, t) == UNION {RowTriggerEntities(v, a) : a \in {t} \cup Ancestors(v, t)}

\* Broken variant: a table that left the tree keeps its triggers.
EnsureAdded(v, table) ==
  [i \in {Triggers(t) : t \in {t \in Tree(v, Root(v, table)) : v[Parent(t)] \in Tables}} |->
     v[i] \cup (RowTriggerEntities(v, Root(v, i[2])) \X PartitionMember)] @@ v

\* ensure_partition_triggers, for every table of the tree `table` belongs to.
EnsurePartitionTriggers(v, table) ==
  LET root == Root(v, table)
      members == Tree(v, root)
      inherited == RowTriggerEntities(v, root) \X PartitionMember
      Wanted(t) == IF t = root THEN {} ELSE inherited
      Kept(t) == {o \in v[Triggers(t)] :
                    o[2] \in PartitionMember => \E tag \in {"row", "delta"} : <<o[1], tag>> \in v[Triggers(t)]}
  IN [i \in {Triggers(t) : t \in members} |-> Kept(i[2]) \cup Wanted(i[2])] @@ v

\* sync_entity_triggers: those of the plan, and no others; a partition's
\* follow its root's.
SyncEntityTriggers(v, e, plan) ==
  LET held == {t \in Tables : \E tag \in {"row", "delta", "flush", "truncate"} : <<e, tag>> \in v[Triggers(t)]}
      Own(t) == IF t \in plan THEN {e} \X Specs(e, t) ELSE {}
      Left(t) ==
        {o \in v[Triggers(t)] : o[1] # e \/ o \in Own(t)
                                 \/ (o[2] \in PartitionMember /\ v[Parent(t)] \in Tables)}
      synced == [i \in {Triggers(t) : t \in Tables} |-> Left(i[2]) \cup Own(i[2])] @@ v
      roots == {Root(v, t) : t \in (plan \cap Partitioned) \cup {t \in held : v[Parent(t)] \in Tables}}
  IN FoldSet(LAMBDA root, w : EnsurePartitionTriggers(w, root), synced, roots)

\* remove_entity_triggers
RemoveEntityTriggers(v, e) ==
  [i \in {Triggers(t) : t \in Tables} |-> {o \in v[i] : o[1] # e}] @@ v

\* What trigger_problems expects: the tables read, and the partitions of those
\* that carry a row trigger.
Expected(v, t) ==
  UNION {LET r == v[Read(e)]
         IN IF r = t THEN {e} \X Specs(e, t)
            ELSE IF r \in Ancestors(v, t) THEN {e} \X PartitionMember ELSE {}
         : e \in Entities}

-----------------------------------------------------------------------------
(* Transactions.                                                           *)
Idle == [mine |-> <<>>, locks |-> {}, queue |-> {}, flushing |-> FALSE, changed |-> FALSE]

\* TRUNCATE_EPOCH, and the entities refreshed and the <<entity, table>> mapped
\* of the epoch each is stamped with.
NoTruncate == [epoch |-> 0, refreshed |-> [at |-> 0, of |-> {}], mapped |-> [at |-> 0, of |-> {}]]

Seen(s) == txn[s].mine @@ disk
Open(s) == txn[s].locks # {}
Others(s) == UNION {txn[o].locks : o \in Sessions \ {s}}

\* The modes of PostgreSQL's table locks used here, and what each waits for.
Conflicts == [read    |-> {"all"},
              write   |-> {"trigger", "all"},
              attach  |-> {"attach", "trigger", "all"},
              trigger |-> {"write", "attach", "trigger", "all"},
              all     |-> {"read", "write", "attach", "trigger", "all"}]
Lock(mode, tables) == {mode} \X tables
CanLock(s, locks) ==
  \A l \in locks, o \in Others(s) : l[2] = o[2] => o[1] \notin Conflicts[l[1]]
Busy(s, items) == items \cap UNION {DOMAIN txn[o].mine : o \in Sessions \ {s}} # {}

Filled(v, e) ==
  [i \in {Key(e, k) : k \in Keys} |-> IF v[Read(e)] = None THEN {} ELSE ViewRow(v, v[Read(e)], i[3])] @@ v

Init ==
  /\ \E full \in BOOLEAN :
       LET bare == [i \in {Row(t, k) : t \in Leaves, k \in Keys} |-> full]
                @@ [i \in {Parent(t) : t \in Tables} |-> Tree0[i[2]]]
                @@ [i \in {Pending(t) : t \in Tables} |-> None]
                @@ [i \in {Triggers(t) : t \in Tables} |-> {}]
                @@ [i \in {Read(e) : e \in Entities} |-> Read0[i[2]]]
                @@ [i \in {Key(e, k) : e \in Entities, k \in Keys} |-> {}]
           Registered[es \in SUBSET Entities] ==
             IF es = {} THEN bare
             ELSE LET e == CHOOSE e \in es : TRUE
                  IN Filled(SyncEntityTriggers(Registered[es \ {e}], e, {bare[Read(e)]} \cap Tables), e)
       IN disk = Registered[Entities]
  /\ txn = [s \in Sessions |-> Idle]
  /\ memo = [s \in Sessions |-> [t \in Tables |-> Unknown]]
  /\ watched = [s \in Sessions |-> {}]
  /\ truncates = [s \in Sessions |-> NoTruncate]
  /\ statements = 0

\* A statement of s under its locks: what it leaves, what it queues, and
\* whether that is flushed after it.
Statement(s, locks, v, keys, flushed) ==
  LET seen == Seen(s)
      writes == [i \in {i \in DOMAIN disk : v[i] # seen[i]} |-> v[i]]
  IN
  /\ ~txn[s].flushing
  /\ statements' = statements + 1
  /\ CanLock(s, locks) /\ ~Busy(s, DOMAIN writes)
  /\ txn' = [txn EXCEPT ![s] =
       [mine |-> writes @@ @.mine, locks |-> @.locks \cup locks, queue |-> @.queue \cup keys,
        flushing |-> flushed /\ @.queue \cup keys # {},
        changed |-> @.changed \/ \E l \in locks : l[1] # "write"]]
  /\ UNCHANGED disk

\* invalidate_all
Forget(sessions) == memo' = [s \in Sessions |-> IF s \in sessions THEN [t \in Tables |-> Unknown] ELSE memo[s]]

-----------------------------------------------------------------------------
(* Writes of rows.                                                         *)
\* pg_tview_trigger_handler knows the root of a partition's tree.
RootOf(s, v, t) == IF memo[s][t] # Unknown THEN memo[s][t] ELSE Root(v, t)
\* An entity's paths and mappings are those of the table it reads.
Handles(v, e, table) == v[Read(e)] = table

\* The TVIEWs a row of l is mapped for, by the row triggers of its tree or the
\* statement triggers of the table named (map_row, change).
MapRow(v, l, table, root) ==
  {e \in RowTriggers(v, l) : Handles(v, e, root)}
  \cup {e \in Entities : <<e, "delta">> \in v[Triggers(table)] /\ Handles(v, e, table)}

\* An INSERT or DELETE that names `table`, of a row of its leaf l.
Write(s) ==
  \E table \in Tables, l \in Leaves, k \in Keys :
    LET v == Seen(s)
        root == RootOf(s, v, l)
        mapped == MapRow(v, l, table, root)
    IN /\ l \in Tree(v, table)
       /\ Statement(s, Lock("write", {table, l}), Row(l, k) :> (~v[Row(l, k)]) @@ v, mapped \X {k},
                    \E t \in v[Triggers(table)] : t[2] = "flush")
       /\ memo' = IF RowTriggers(v, l) = {} THEN memo ELSE [memo EXCEPT ![s][l] = root]
       /\ watched' = [watched EXCEPT ![s] = @ \cup {root : e \in {e \in mapped : Kind(e) = "mapped"}}]
       /\ UNCHANGED truncates

\* One queued key: computed under its lock, from a snapshot taken then.
Flush(s) ==
  \E q \in txn[s].queue :
    LET table == Seen(s)[Read(q[1])]
        locks == IF table = None THEN {} ELSE Lock("read", Tree(Seen(s), table))
    IN /\ txn[s].flushing
       /\ CanLock(s, locks) /\ ~Busy(s, {Key(q[1], q[2])})
       /\ txn' = [txn EXCEPT
            ![s].queue = @ \ {q}, ![s].flushing = txn[s].queue # {q}, ![s].locks = @ \cup locks,
            ![s].mine = IF table = None THEN @ ELSE Key(q[1], q[2]) :> ViewRow(Seen(s), table, q[2]) @@ @]
       /\ UNCHANGED <<disk, memo, watched, truncates, statements>>

-----------------------------------------------------------------------------
(* Partitions (PartitionDdl, leaving_partitions_of).                       *)
\* readers_above: the TVIEWs over a table above p.
ReadersAbove(v, p) == UNION {RowTriggerEntities(v, a) : a \in Ancestors(v, p)}
\* The keys the rows of p's tree reach, of those.
MapPartition(v, p) == ReadersAbove(v, p) \X {k \in Keys : ViewRow(v, p, k) # {}}

\* What a stamped set holds of the epoch now.
OfEpoch(stamped, epoch) == IF stamped.at = epoch THEN stamped.of ELSE {}
\* truncate_mapped, of each partition's readers and the tables of its tree: also
\* for a DROP or a DETACH, once the session has run a TRUNCATE.
TruncateMapped(t, v, partitions) ==
  LET readers == {p \in partitions : ReadersAbove(v, p) # {}} IN
  IF t.epoch = 0 \/ readers = {} THEN t
  ELSE [t EXCEPT !.mapped =
          [at |-> t.epoch,
           of |-> OfEpoch(@, t.epoch) \cup UNION {ReadersAbove(v, p) \X Tree(v, p) : p \in readers}]]

\* A partition to move; not one above a table being detached concurrently,
\* whose rows the TVIEWs over it would keep.
IsPartition(v, p) ==
  v[Parent(p)] \in Tables /\ \A t \in Tables : v[Pending(t)] \notin Tree(v, p)
Moved(v, p, to) == Parent(p) :> to @@ v

\* CREATE TABLE p PARTITION OF parent, once more after it was dropped.
CreatePartition(s) ==
  \E p \in Tables :
    LET v == Seen(s) IN
    \E parent \in Homes(p) :
      /\ v[Parent(p)] = Gone /\ v[Parent(parent)] # Gone
      /\ Statement(s, Lock("all", {parent, p}), EnsurePartitionTriggers(Moved(v, p, parent), p), {}, FALSE)
      /\ Forget({s}) /\ UNCHANGED <<watched, truncates>>

\* ALTER TABLE parent ATTACH PARTITION p, and map_entering_partition.
Attach(s) ==
  \E p \in Tables :
    LET v == Seen(s) IN
    \E parent \in Homes(p) :
      LET attached == EnsurePartitionTriggers(Moved(v, p, parent), p) IN
      /\ v[Parent(p)] = None /\ v[Pending(p)] = None /\ v[Parent(parent)] # Gone
      /\ Statement(s, Lock("attach", {parent}) \cup Lock("all", Tree(v, p)), attached,
                   MapPartition(attached, p), TRUE)
      /\ Forget({s}) /\ UNCHANGED <<watched, truncates>>

\* ALTER TABLE parent DETACH PARTITION p, after map_leaving_partition.
Detach(s) ==
  \E p \in Tables :
    LET v == Seen(s) IN
    /\ IsPartition(v, p)
    /\ Statement(s, Lock("all", {v[Parent(p)]} \cup Tree(v, p)), EnsurePartitionTriggers(Moved(v, p, None), p),
                 MapPartition(v, p), TRUE)
    /\ truncates' = [truncates EXCEPT ![s] = TruncateMapped(@, v, {p})]
    /\ Forget({s}) /\ UNCHANGED watched

\* DROP TABLE p, a partition, after map_leaving_partition.
Drop(s) ==
  \E p \in Tables :
    LET v == Seen(s)
        below == Tree(v, p)
        dropped == [i \in {Parent(t) : t \in below} |-> Gone] @@ [i \in {Triggers(t) : t \in below} |-> {}]
                   @@ [i \in {Row(t, k) : t \in below \cap Leaves, k \in Keys} |-> FALSE]
    IN /\ IsPartition(v, p)
       /\ \A e \in Entities : v[Read(e)] \notin below
       /\ Statement(s, Lock("all", {v[Parent(p)]} \cup below), dropped @@ v, MapPartition(v, p), TRUE)
       /\ memo' = [o \in Sessions |-> [t \in Tables |-> IF t \in below THEN Unknown ELSE memo[o][t]]]
       /\ truncates' = [truncates EXCEPT ![s] = TruncateMapped(@, v, {p})]
       /\ UNCHANGED watched

\* Broken variant: every TRUNCATE of a session has the number of its first.
BeginTruncateOnce(t) == [t EXCEPT !.epoch = 1]
\* begin_truncate (an epoch of 64 bits does not come round).
BeginTruncate(t) == [t EXCEPT !.epoch = @ + 1]

\* pg_tview_truncate_trigger, of every table truncated: the TVIEWs not refreshed
\* yet by this TRUNCATE, but for the tables whose rows it mapped.
TruncateRefreshes(t, v, truncated) ==
  {e \in Entities : \E table \in truncated :
     <<e, "truncate">> \in v[Triggers(table)] /\ <<e, table>> \notin OfEpoch(t.mapped, t.epoch)}
  \ OfEpoch(t.refreshed, t.epoch)
FirstTruncateRefresh(t, entities) ==
  IF entities = {} THEN t
  ELSE [t EXCEPT !.refreshed = [at |-> t.epoch, of |-> OfEpoch(@, t.epoch) \cup entities]]

\* TRUNCATE of one table or more, with their partitions: the rows of those that
\* are partitions are mapped, then all are emptied, then the triggers fire.
Truncate(s) ==
  \E named \in {named \in SUBSET Tables : Cardinality(named) \in 1..MaxNamed} :
    LET v == Seen(s)
        truncated == UNION {Tree(v, p) : p \in named}
        leaving == {p \in named : v[Parent(p)] \in Tables}
        begun == TruncateMapped(BeginTruncate(truncates[s]), v, leaving)
        refreshed == TruncateRefreshes(begun, v, truncated)
    IN /\ \A p \in named : v[Parent(p)] # Gone
       /\ Statement(s, Lock("all", truncated),
                    [i \in {Row(t, k) : t \in truncated \cap Leaves, k \in Keys} |-> FALSE] @@ v,
                    UNION {MapPartition(v, p) : p \in leaving} \cup (refreshed \X Keys),
                    leaving # {} \/ refreshed # {})
       /\ truncates' = [truncates EXCEPT ![s] = FirstTruncateRefresh(begun, refreshed)]
       /\ UNCHANGED <<memo, watched>>

\* DETACH PARTITION p CONCURRENTLY, the first of its transactions: committed
\* by itself, with nothing mapped.
Concerned(tables) == {o \in Sessions : watched[o] \cap tables # {}}
DetachConcurrently(s) ==
  \E p \in Tables :
    LET parent == disk[Parent(p)] IN
    /\ ~Open(s) /\ IsPartition(disk, p)
    /\ statements' = statements + 1
    /\ CanLock(s, Lock("attach", {parent, p}))
    /\ disk' = (Pending(p) :> parent @@ Moved(disk, p, None))
    /\ Forget(Concerned({p, parent}))
    /\ UNCHANGED <<txn, watched, truncates>>
\* The second, or a FINALIZE: once nobody uses the table as it was, its
\* triggers go and refresh_tviews_over the table.
Finalize(s) ==
  \E p \in Tables :
    LET v == Seen(s)
        parent == v[Pending(p)]
        over == {e \in Entities : e \in RowTriggerEntities(v, Root(v, parent))}
    IN /\ parent # None
       /\ \A l \in Others(s) : l[2] # parent
       /\ Statement(s, Lock("attach", {parent}) \cup Lock("all", Tree(v, p)),
                    EnsurePartitionTriggers(Pending(p) :> None @@ v, p), over \X Keys, TRUE)
       /\ Forget({s}) /\ UNCHANGED <<watched, truncates>>

-----------------------------------------------------------------------------
(* TVIEWs created, changed and dropped.                                    *)
\* A definition of e that reads another table, or its first.
Define(s) ==
  \E e \in Entities :
    LET v == Seen(s) IN
    \E t \in Reads(e) :
      LET old == IF v[Read(e)] = None THEN {} ELSE Tree(v, v[Read(e)])
          defined == SyncEntityTriggers(Read(e) :> t @@ v, e, {t})
      IN /\ v[Read(e)] # t /\ v[Parent(t)] # Gone
         /\ Statement(s, Lock("all", old) \cup Lock("trigger", Tree(v, t)), Filled(defined, e), {}, FALSE)
         /\ Forget({s}) /\ UNCHANGED <<watched, truncates>>

DropTview(s) ==
  \E e \in Entities :
    LET v == Seen(s) IN
    /\ v[Read(e)] # None
    /\ Statement(s, Lock("all", Tree(v, v[Read(e)])),
                 Filled(Read(e) :> None @@ RemoveEntityTriggers(v, e), e), {}, FALSE)
    /\ Forget({s}) /\ UNCHANGED <<watched, truncates>>

-----------------------------------------------------------------------------
\* The invalidations of pg_tview_meta and of the tables whose partitions
\* changed reach the other backends.
Invalidated(s) ==
  IF \E e \in Entities : Read(e) \in DOMAIN txn[s].mine THEN Sessions
  ELSE Concerned(UNION {{t, disk[Parent(t)], txn[s].mine[Parent(t)]} :
                           t \in {t \in Tables : Parent(t) \in DOMAIN txn[s].mine}})
Commit(s) ==
  /\ Open(s) /\ txn[s].queue = {}
  /\ disk' = Seen(s)
  /\ txn' = [txn EXCEPT ![s] = Idle]
  /\ Forget(Invalidated(s))
  /\ UNCHANGED <<watched, truncates, statements>>
Abort(s) ==
  /\ Open(s)
  /\ txn' = [txn EXCEPT ![s] = Idle]
  /\ Forget(IF txn[s].changed THEN {s} ELSE {})
  /\ UNCHANGED <<disk, watched, truncates, statements>>

Next ==
  \/ \E s \in Sessions :
       \/ Flush(s) \/ Commit(s) \/ Abort(s)
       \/ /\ statements < MaxStatements
          /\ \/ Write(s) \/ CreatePartition(s) \/ Attach(s) \/ Detach(s) \/ Drop(s)
             \/ Truncate(s) \/ DetachConcurrently(s) \/ Finalize(s)
             \/ Define(s) \/ DropTview(s)
  \/ (\A s \in Sessions : ~Open(s)) /\ UNCHANGED vars
Spec == Init /\ [][Next]_vars

-----------------------------------------------------------------------------
BeingDetached(v) == {t \in Tables : v[Pending(t)] # None}

(* What is committed of a TVIEW is what its view computes, whichever table *)
(* of a tree is written, truncated, attached, detached or dropped, but for *)
(* a concurrent DETACH not finished (docs/reference/ddl.md, "Partitioned   *)
(* tables").                                                               *)
FollowsTree ==
  BeingDetached(disk) = {} =>
    \A e \in Entities, k \in Keys :
      disk[Read(e)] # None => disk[Key(e, k)] = ViewRow(disk, disk[Read(e)], k)

(* The health check finds no trigger missing or orphaned: those of a tree  *)
(* follow its partitions and the TVIEWs over it, in whichever order they   *)
(* change (trigger_problems).                                              *)
TriggersAsExpected ==
  \A t \in Tables :
    /\ disk[Parent(t)] # Gone
    /\ \A d \in BeingDetached(disk) : d \notin Tree(disk, t) \cup Ancestors(disk, t)
    => disk[Triggers(t)] = Expected(disk, t)
=============================================================================
