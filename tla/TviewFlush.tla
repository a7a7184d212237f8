------------------------------ MODULE TviewFlush ------------------------------
(***************************************************************************)
(* The flush (src/flush/drain.rs, src/flush/apply.rs, src/propagate.rs):   *)
(* the refresh work a transaction's writes queued is applied to the        *)
(* TVIEWs, one entity per pass in dependency order, each refreshed row     *)
(* followed to the TVIEWs that embed it.                                   *)
(*                                                                         *)
(* A base row holds a value of its own and the ids it references.  A TVIEW *)
(* has a row for each row of its base table whose references are all met   *)
(* (inner joins); it keeps the ids (its lookup columns) and `data`, a      *)
(* function from the paths of the document to values.  What the program    *)
(* reads of the user's schema is in the constants, one entry per           *)
(* reference a view follows.                                               *)
(***************************************************************************)
EXTENDS RefreshWork

CONSTANTS
    Table,         \* base tables
    Tview,         \* those that are the base table of a TVIEW of their name
    Order,         \* the TVIEWs, each after those it reads (topo_order)
    Ref,           \* the references the views follow
    From, To,      \* the TVIEW a reference is of, the table or TVIEW it reads
    Place,         \* how the target is read: see below
    Id,            \* identities of rows
    RowsOf,        \* the identities each table may hold
    Fires,         \* <<e, t>>: a user trigger on tv_e writes the base table t
    Truncatable,   \* the base tables a statement may TRUNCATE
    NoRow,
    Base0,         \* the base tables before the transaction
    MaxWrites,     \* bound: base rows the transaction writes
    MaxDepth       \* pg_tviews.max_propagation_depth

\* Place[r]: the target TVIEW's document is a value of `data` ("nested") or an
\* element of an aggregate ("array"); a value is read out of it ("scalar");
\* the target TVIEW's table is read like a base table, no output column holding
\* its key ("mapped"); the target is a base table whose column `data` copies
\* ("copied").
Places == {"nested", "array", "scalar", "mapped", "copied"}

RefsOf(e) == {r \in Ref : From[r] = e}

\* The paths of each TVIEW's document; those of a document it embeds follow it.
PathsOf ==
    LET Grown(paths, e) ==
          [paths EXCEPT ![e] = {<<>>} \cup UNION
              {IF Place[r] \in {"nested", "array"}
               THEN {<<r>> \o p : p \in paths[To[r]]} ELSE {<<r>>} : r \in RefsOf(e)}]
    IN FoldLeft(Grown, [e \in Tview |-> {}], Order)

AllOf(e) == <<e, "all">>

ASSUME Schema ==
    /\ Tview \subseteq Table /\ ToSet(Order) = Tview /\ IsInjective(Order)
    /\ \A r \in Ref : /\ From[r] \in Tview /\ Place[r] \in Places
                      /\ To[r] \in (IF Place[r] = "copied" THEN Table ELSE Tview)
    /\ \A i, j \in DOMAIN Order, r \in Ref :
          From[r] = Order[i] /\ To[r] = Order[j] /\ Place[r] # "copied" => j < i

ASSUME Keys ==
    /\ RowKey = UNION {{e} \X RowsOf[e] : e \in Tview}
    /\ AllKey = {AllOf(e) : e \in Tview}
    /\ FanoutKey = UNION {{r} \X RowsOf[To[r]] : r \in {s \in Ref : Place[s] = "copied"}}
    /\ Field = UNION {PathsOf[e] : e \in Tview}

VARIABLES
    base,      \* the base tables
    tv,        \* the TVIEWs' tables
    work,      \* Txn.pending: what the triggers queued
    writes,    \* base rows the transaction wrote
    pc,        \* where the flush stands
    flush,     \* Flush: its keys and patches, the fan-outs still to apply
    pass,      \* the pass running: its entity and what it wrote
    firing     \* the TVIEWs whose writes may still fire a user trigger

vars == <<base, tv, work, writes, pc, flush, pass, firing>>

-----------------------------------------------------------------------------
(* The user's views. *)

Target(b, t, r, i) == IF Place[r] = "copied" THEN b[To[r]][i] ELSE t[To[r]][i]

ValueAt(b, t, row, p) ==
    IF p = <<>> THEN row.own
    ELSE LET r == Head(p)
             target == Target(b, t, r, row.to[r])
         IN IF Place[r] = "copied" THEN target.own ELSE target.data[Tail(p)]

\* The row of e's backing view, over base tables b and TVIEW tables t.
ViewRow(b, t, e, i) ==
    LET row == b[e][i]
    IN IF row = NoRow \/ \E r \in RefsOf(e) : Target(b, t, r, row.to[r]) = NoRow
       THEN NoRow
       ELSE [to |-> row.to, data |-> [p \in PathsOf[e] |-> ValueAt(b, t, row, p)]]

\* Every TVIEW as its view computes it, those it reads first.
Materialized(b) ==
    LET Filled(t, e) == [t EXCEPT ![e] = [i \in RowsOf[e] |-> ViewRow(b, t, e, i)]]
    IN FoldLeft(Filled, [e \in Tview |-> [i \in RowsOf[e] |-> NoRow]], Order)

-----------------------------------------------------------------------------
(* What a write to a base row queues (the row and the delta triggers).     *)

ReadersOf(t, places) == {r \in Ref : To[r] = t /\ Place[r] \in places}

\* The rows of a mapping's entity over the base rows that reference row i.
KeysReading(b, r, i) ==
    {<<From[r], j>> : j \in {j \in RowsOf[From[r]] :
                               b[From[r]][j] # NoRow /\ b[From[r]][j].to[r] = i}}

\* enqueue_local_keys: an UPDATE of columns `data` copies is captured as a
\* patch of the TVIEW's own row, any other write recomputes it.
RootCaptured(w, t, i, old, new) ==
    IF t \notin Tview THEN w
    ELSE IF old # NoRow /\ new # NoRow /\ old.to = new.to
    THEN EnqueuedPatched(w, <<t, i>>, <<>> :> new.own)
    ELSE Enqueued(w, <<t, i>>)

\* map_statement: an UPDATE of a copied column is fanned out, one of no column
\* the view reads maps to nothing, an INSERT or a DELETE maps to keys.
CopyCaptured(b, w, r, i, old, new) ==
    IF old = NoRow \/ new = NoRow THEN EnqueuedBulk(w, KeysReading(b, r, i))
    ELSE IF old.own = new.own THEN w
    ELSE FannedOut(w, <<r, i>>, <<r>> :> new.own)

Captured(w, t, i, old, new) ==
    FoldLeft(LAMBDA acc, r : CopyCaptured(base, acc, r, i, old, new),
             RootCaptured(w, t, i, old, new),
             SetToSeq(ReadersOf(t, {"copied"})))

\* The rows a statement may leave in place of `old`.
Rewrites(t, old) ==
    IF old = NoRow
    THEN [own : Value, to : [{r \in Ref : From[r] = t} -> Id]]
    ELSE {NoRow}
         \cup {[old EXCEPT !.own = v] : v \in Value}
         \cup {[old EXCEPT !.to[r] = i] : r \in {r \in Ref : From[r] = t}, i \in Id}

References(t, row) ==
    row # NoRow => \A r \in DOMAIN row.to : row.to[r] \in RowsOf[To[r]]

WriteRow(t, i, new) ==
    /\ new # base[t][i] /\ References(t, new)
    /\ base' = [base EXCEPT ![t][i] = new]
    /\ work' = Captured(work, t, i, base[t][i], new)

-----------------------------------------------------------------------------

Init ==
    /\ base = Base0
    /\ tv = Materialized(Base0)
    /\ work = Nothing
    /\ writes = 0
    /\ pc = "idle"
    /\ flush = [pending |-> {}, patches |-> [k \in RowKey |-> Absent], processed |-> {},
                changed |-> {}, fanouts |-> {}, iteration |-> 1]
    /\ pass = [entity |-> "none", touched |-> {}, appeared |-> {}, patched |-> {}]
    /\ firing = {}

\* A row of the statement's writes, and its triggers.
Write(t, i) ==
    /\ pc = "idle" /\ writes < MaxWrites
    /\ \E new \in Rewrites(t, base[t][i]) : WriteRow(t, i, new)
    /\ writes' = writes + 1
    /\ UNCHANGED <<tv, pc, flush, pass, firing>>

\* TRUNCATE: every TVIEW over the table is refreshed in full.
Truncate(t) ==
    /\ pc = "idle" /\ writes < MaxWrites
    /\ t \in Truncatable
    /\ base' = [base EXCEPT ![t] = [i \in RowsOf[t] |-> NoRow]]
    /\ work' = FoldLeft(EnqueuedAll, work,
                        SetToSeq({AllOf(e) : e \in ({t} \cap Tview)
                                    \cup {From[r] : r \in ReadersOf(t, {"copied"})}}))
    /\ writes' = writes + 1
    /\ UNCHANGED <<tv, pc, flush, pass, firing>>

-----------------------------------------------------------------------------
(* The flush. *)

\* The fan-outs of `w`, by entity and lookup column.
FanoutsOf(w) ==
    {<<g, w[FanoutSlot(g)]>> : g \in {g \in FanoutKey : w[FanoutSlot(g)] # Absent}}

PatchesOf(w) == [k \in RowKey |-> w[PatchSlot(k)]]

\* flush_pending: take what the triggers queued.
BeginFlush ==
    /\ pc = "idle"
    /\ ~IsEmpty(work)
    /\ flush' = [pending |-> QueueOf(work), patches |-> PatchesOf(work), processed |-> {},
                 changed |-> {}, fanouts |-> FanoutsOf(work), iteration |-> 1]
    /\ work' = Nothing
    /\ pc' = "run"
    /\ UNCHANGED <<base, tv, writes, pass, firing>>

\* How a parent embeds a child (Lineage::embeds): by every column holding its
\* key, at the path of its document when it is placed once.
Lookups(child, parent) ==
    {r \in RefsOf(parent) : To[r] = child /\ Place[r] \in {"nested", "array", "scalar"}}

Placements(child, parent) ==
    {r \in Lookups(child, parent) : Place[r] \in {"nested", "array"}}

\* derive_parent_chain: a parent takes the child's patch at the one path its
\* document is nested at.
Derivable(child, parent) ==
    /\ Cardinality(Placements(child, parent)) = 1
    /\ \A r \in Placements(child, parent) : Place[r] = "nested"

DerivedChain(child, parent, chain) ==
    LET at == CHOOSE r \in Placements(child, parent) : TRUE
    IN [p \in {<<at>> \o q : q \in DOMAIN chain} |-> chain[Tail(p)]]

ParentsOf(child) == {e \in Tview : Lookups(child, e) # {}}

\* prune_edge: a parent that embeds only the document follows no row whose
\* refresh changed nothing.
Pruned(child, parent, i, changed) ==
    Placements(child, parent) # {} /\ <<child, i>> \notin changed

Holds(row, child, parent, i) ==
    row # NoRow /\ \E r \in Lookups(child, parent) : row.to[r] = i

\* Broken variant: the parents of a row that appeared are not in its views.
FoundParentsInTables(child, ids, appeared, t, changed) ==
    {<<i, k>> \in ids \X RowKey :
        /\ k[1] \in ParentsOf(child)
        /\ ~Pruned(child, k[1], i, changed)
        /\ Holds(t[k[1]][k[2]], child, k[1], i)}

\* find_parents_batch: for each row i of `child`, the rows of the TVIEWs that
\* hold its key, in their tables, and in their views for one that appeared.
FoundParents(child, ids, appeared, t, changed) ==
    {<<i, k>> \in ids \X RowKey :
        /\ k[1] \in ParentsOf(child)
        /\ ~Pruned(child, k[1], i, changed)
        /\ \/ Holds(t[k[1]][k[2]], child, k[1], i)
           \/ i \in appeared /\ Holds(ViewRow(base, t, k[1], k[2]), child, k[1], i)}

\* Broken variant: a parent with a patch of its own keeps it.
PoisonedParentsUnpatched(f, found) ==
    LET keys == {p[2] : p \in found}
    IN [f EXCEPT !.pending = @ \cup (keys \ f.processed),
                 !.patches = [k \in RowKey |->
                    IF k \in keys /\ @[k] = Absent THEN Poisoned ELSE @[k]]]

\* queue_parents_to_recompute.
PoisonedParents(f, found) ==
    LET keys == {p[2] : p \in found}
    IN [f EXCEPT !.pending = @ \cup (keys \ f.processed),
                 !.patches = [k \in RowKey |-> IF k \in keys THEN Poisoned ELSE @[k]]]

\* derive_parent_patches, for one row a patch was applied to and one parent.
DerivedParent(f, child, found) ==
    LET parent == found[2]
        chain == f.patches[<<child, found[1]>>]
    IN [f EXCEPT !.pending = @ \cup ({parent} \ f.processed),
                 !.patches[parent] = IF Derivable(child, parent[1])
                                     THEN Recorded(@, DerivedChain(child, parent[1], chain))
                                     ELSE Poisoned]

DerivedParents(f, child, found) ==
    FoldLeft(LAMBDA acc, p : DerivedParent(acc, child, p), f, SetToSeq(found))

-----------------------------------------------------------------------------
(* Writes to the TVIEWs' tables, and the delta triggers they fire. *)

ChangedRows(e, t) == {i \in RowsOf[e] : t[e][i] # tv[e][i]}

DataOf(row) == IF row = NoRow THEN NoRow ELSE row.data

\* Broken variant: only rows that come or go are mapped.
MappedReadersOfRows(e, t) ==
    UNION {KeysReading(base, r, i) :
             r \in ReadersOf(e, {"mapped"}),
             i \in {i \in RowsOf[e] : (t[e][i] = NoRow) # (tv[e][i] = NoRow)}}

\* A TVIEW that maps tv_e's writes gets the keys reading the rows whose data
\* changed.
MappedReaders(e, t) ==
    UNION {KeysReading(base, r, i) :
             r \in ReadersOf(e, {"mapped"}),
             i \in {i \in RowsOf[e] : DataOf(t[e][i]) # DataOf(tv[e][i])}}

Patched(row, chain) ==
    [row EXCEPT !.data = [p \in DOMAIN @ |-> IF p \in DOMAIN chain THEN chain[p] ELSE @[p]]]

\* The table of a TVIEW as `t` has it: what its writes fire.
Stored(e, t) ==
    /\ tv' = t
    /\ work' = IF MappedReaders(e, t) = {} THEN work
               ELSE EnqueuedBulk(work, MappedReaders(e, t))
    /\ firing' = IF ChangedRows(e, t) = {} THEN {} ELSE {e}

\* apply_fanouts, one UPDATE per entity and lookup column: the rows holding the
\* parents' keys take the fields, those that changed have parents to recompute.
ApplyFanout(r) ==
    LET e == From[r]
        group == {g \in flush.fanouts : g[1][1] = r}
        written(i) == {g \in group : tv[e][i] # NoRow /\ tv[e][i].to[r] = g[1][2]}
        t == [tv EXCEPT ![e] = [i \in RowsOf[e] |->
                IF written(i) = {} THEN tv[e][i]
                ELSE Patched(tv[e][i], (CHOOSE g \in written(i) : TRUE)[2])]]
        changed == flush.changed \cup {<<e, i>> : i \in ChangedRows(e, t)}
        found == FoundParents(e, ChangedRows(e, t), {}, t, changed)
    IN /\ pc = "run" /\ group # {}
       /\ Stored(e, t)
       /\ flush' = PoisonedParents(
                     [flush EXCEPT !.fanouts = @ \ group, !.changed = changed], found)
       /\ UNCHANGED <<base, writes, pc, pass>>

Rank(e) == CHOOSE n \in DOMAIN Order : Order[n] = e

\* next_entity: the first pending one in topological order.
NextEntity ==
    Order[CHOOSE n \in DOMAIN Order :
            /\ \E k \in flush.pending : k[1] = Order[n]
            /\ \A m \in 1..(n - 1) : \A k \in flush.pending : k[1] # Order[m]]

PassKeys(e) == {k \in flush.pending : k[1] = e /\ k \notin flush.processed}

\* refresh_all: the TVIEW becomes its view.
RefreshAll(e) ==
    LET t == [tv EXCEPT ![e] = [i \in RowsOf[e] |-> ViewRow(base, tv, e, i)]]
        rows == ChangedRows(e, t)
    IN /\ Stored(e, t)
       /\ pass' = [entity |-> e, touched |-> rows, appeared |-> rows, patched |-> {}]
       /\ flush' = [flush EXCEPT !.pending = {k \in @ : k[1] # e},
                                 !.processed = @ \cup PassKeys(e) \cup {<<e, i>> : i \in rows},
                                 !.changed = @ \cup {<<e, i>> : i \in rows}]

\* apply_keys: the rows with a chain are patched where they stand, the others,
\* and those not there to patch, recomputed.
ApplyKeys(e) ==
    LET ids == {k[2] : k \in PassKeys(e)}
        patched == {i \in ids : flush.patches[<<e, i>>] \notin {Absent, Poisoned} /\ tv[e][i] # NoRow}
        computed == ids \ patched
        t == [tv EXCEPT ![e] = [i \in RowsOf[e] |->
                IF i \in patched THEN Patched(tv[e][i], flush.patches[<<e, i>>])
                ELSE IF i \in computed THEN ViewRow(base, tv, e, i)
                ELSE tv[e][i]]]
    IN /\ Stored(e, t)
       /\ pass' = [entity |-> e, touched |-> computed, patched |-> patched,
                   appeared |-> {i \in computed : tv[e][i] = NoRow /\ t[e][i] # NoRow}]
       /\ flush' = [flush EXCEPT !.pending = {k \in @ : k[1] # e},
                                 !.processed = @ \cup PassKeys(e),
                                 !.changed = @ \cup {<<e, i>> : i \in ChangedRows(e, t)}]

\* apply_entity: the writes of one pass.
Apply ==
    /\ pc = "run" /\ flush.fanouts = {} /\ flush.pending # {}
    /\ IF AllOf(NextEntity) \in PassKeys(NextEntity)
       THEN RefreshAll(NextEntity) ELSE ApplyKeys(NextEntity)
    /\ pc' = "applied"
    /\ UNCHANGED <<base, writes>>

\* The parents of the rows recomputed, then of those patched.
Propagate ==
    /\ pc = "applied"
    /\ LET e == pass.entity
           touched == FoundParents(e, pass.touched, pass.appeared, tv, flush.changed)
           patched == FoundParents(e, pass.patched, {}, tv, flush.changed)
       IN flush' = DerivedParents(PoisonedParents(flush, touched), e, patched)
    /\ pc' = "propagated"
    /\ UNCHANGED <<base, tv, work, writes, pass, firing>>

\* A user trigger on a table just written writes a base row; its row triggers
\* queue for the flush running.
UserTrigger(t, i) ==
    /\ pc \in {"run", "applied"}
    /\ \E e \in firing : <<e, t>> \in Fires
    /\ \E new \in Rewrites(t, base[t][i]) : WriteRow(t, i, new)
    /\ firing' = {}
    /\ UNCHANGED <<tv, writes, pc, flush, pass>>

\* take_late: a key refreshed earlier starts over, one pending adds what the
\* late write captured.
LatePatch(k) ==
    IF k \in flush.processed \/ k \notin flush.pending THEN work[PatchSlot(k)]
    ELSE IF work[PatchSlot(k)] \notin {Absent, Poisoned}
    THEN Recorded(flush.patches[k], work[PatchSlot(k)]) ELSE Poisoned

\* Broken variant: late work costs no depth.
TakenForFree ==
    LET late == QueueOf(work)
    IN [flush EXCEPT !.pending = @ \cup late,
                     !.processed = @ \ late,
                     !.patches = [k \in RowKey |-> IF k \in late THEN LatePatch(k) ELSE @[k]],
                     !.fanouts = FanoutsOf(work)]

Taken ==
    LET late == QueueOf(work)
    IN [flush EXCEPT !.pending = @ \cup late,
                     !.processed = @ \ late,
                     !.patches = [k \in RowKey |-> IF k \in late THEN LatePatch(k) ELSE @[k]],
                     !.fanouts = FanoutsOf(work),
                     !.iteration = @ + 1]

\* Broken variant: a pass that leaves no key pending takes no late work.
TakeLateWhileRunning ==
    /\ pc = "propagated"
    /\ IF flush.pending = {} THEN UNCHANGED <<flush, work>>
       ELSE flush' = Taken /\ work' = Nothing
    /\ pc' = IF Taken.iteration > MaxDepth THEN "failed" ELSE "run"
    /\ firing' = {}
    /\ UNCHANGED <<base, tv, writes, pass>>

\* The end of a pass: the late work, then the propagation depth.
TakeLate ==
    /\ pc = "propagated"
    /\ flush' = Taken
    /\ work' = Nothing
    /\ pc' = IF Taken.iteration > MaxDepth THEN "failed" ELSE "run"
    /\ firing' = {}
    /\ UNCHANGED <<base, tv, writes, pass>>

EndFlush ==
    /\ pc = "run" /\ flush.fanouts = {} /\ flush.pending = {}
    /\ pc' = "idle"
    /\ firing' = {}
    /\ flush' = [flush EXCEPT !.patches = [k \in RowKey |-> Absent], !.processed = {},
                              !.changed = {}, !.iteration = 1]
    /\ UNCHANGED <<base, tv, work, writes, pass>>

\* DepthExceeded, or the user: the transaction rolls back.
Abort ==
    /\ \/ pc = "failed"
       \/ pc = "idle" /\ writes > 0
    /\ base' = Base0
    /\ tv' = Materialized(Base0)
    /\ work' = Nothing
    /\ writes' = 0
    /\ pc' = "idle"
    /\ flush' = [pending |-> {}, patches |-> [k \in RowKey |-> Absent], processed |-> {},
                 changed |-> {}, fanouts |-> {}, iteration |-> 1]
    /\ pass' = [entity |-> "none", touched |-> {}, appeared |-> {}, patched |-> {}]
    /\ firing' = {}

FlushStep ==
    \/ \E r \in Ref : ApplyFanout(r)
    \/ Apply \/ Propagate \/ TakeLate \/ EndFlush

Next ==
    \/ \E t \in Table : \E i \in RowsOf[t] : Write(t, i)
    \/ \E t \in Table : \E i \in RowsOf[t] : UserTrigger(t, i)
    \/ \E t \in Table : Truncate(t)
    \/ BeginFlush
    \/ FlushStep
    \/ Abort

Spec == Init /\ [][Next]_vars

\* A statement's flush runs to its end: one backend, no wait inside it that
\* another session does not end.
FairSpec == Spec /\ WF_vars(FlushStep) /\ WF_vars(pc = "failed" /\ Abort)

-----------------------------------------------------------------------------
(* Properties. *)

Row(t) == [own : Value, to : [{r \in Ref : From[r] = t} -> Id]]

TypeOK ==
    /\ \A t \in Table : \A i \in RowsOf[t] : base[t][i] = NoRow \/ base[t][i] \in Row(t)
    /\ \A k \in RowKey : tv[k[1]][k[2]] = NoRow
                         \/ tv[k[1]][k[2]].data \in [PathsOf[k[1]] -> Value]
    /\ work \in Work
    /\ pc \in {"idle", "run", "applied", "propagated", "failed"}
    /\ flush.pending \subseteq Key /\ flush.processed \subseteq RowKey \cup AllKey
    /\ \A k \in RowKey : flush.patches[k] \in Content \ {Queued}
    /\ flush.pending \cap flush.processed = {}
    /\ pc = "idle" => flush.pending = {} /\ flush.fanouts = {}

\* The keys some refresh is still to come for.
Awaiting == QueueOf(work) \cup flush.pending

\* A fan-out still to apply that writes row i of e, and the fields it writes.
FanoutsOnto(e, i) ==
    {g \in flush.fanouts \cup FanoutsOf(work) :
       From[g[1][1]] = e /\ tv[e][i].to[g[1][1]] = g[1][2]}

\* A row of e reads one the pass has written and not followed yet.
ReadsPass(e, i) ==
    /\ pc = "applied"
    /\ \E r \in Lookups(pass.entity, e) :
          \/ tv[e][i] # NoRow /\ tv[e][i].to[r] \in pass.touched \cup pass.patched
          \/ base[e][i] # NoRow /\ base[e][i].to[r] \in pass.touched

\* A row that differs from its view by nothing but what its fan-outs write.
FannedOutTo(e, i) ==
    LET view == ViewRow(base, tv, e, i)
    IN /\ tv[e][i] # NoRow /\ view # NoRow
       /\ tv[e][i].to = view.to
       /\ \A p \in PathsOf[e] :
             \/ tv[e][i].data[p] = view.data[p]
             \/ \E g \in FanoutsOnto(e, i) : p \in DOMAIN g[2]

\* No row is ever left stale with nothing to bring it to its view: what differs
\* from it now is queued, or written by a fan-out to come, or embeds a row the
\* pass running has yet to follow.
StaleIsCovered ==
    \A k \in RowKey :
        \/ tv[k[1]][k[2]] = ViewRow(base, tv, k[1], k[2])
        \/ k \in Awaiting \/ AllOf(k[1]) \in Awaiting
        \/ FannedOutTo(k[1], k[2])
        \/ ReadsPass(k[1], k[2])

\* A direct patch writes what a recompute would: once a pass has written the
\* rows of its keys, each is what the view computes, with no query of it.
PatchEqualsRecompute ==
    [][pc = "run" /\ pc' = "applied" =>
         \A i \in pass'.patched :
            tv'[pass'.entity][i] = ViewRow(base, tv', pass'.entity, i)]_vars

\* A flush leaves no work: what its own writes queue, it drains.
FlushLeavesNothing == [][pc = "run" /\ pc' = "idle" => IsEmpty(work')]_vars

\* Every flush ends, in time by its propagation depth.
FlushEnds == pc # "idle" ~> pc = "idle"
=============================================================================
