--------------------------- MODULE UnloggedTviews ---------------------------
(* The rows of TVIEWs that are UNLOGGED, or were restored without rows     *)
(* (lifecycle.rs): a crash empties UNLOGGED tables and pg_tview_valid      *)
(* together; the next write, or the rebuild worker, fills a TVIEW no       *)
(* validity row vouches for.  A row of a TVIEW is full when the TVIEWs it  *)
(* reads had theirs, bare when they did not.  Sessions see what is         *)
(* committed and their own writes; locks make one wait for the other       *)
(* (RefreshLocks), so an action that would wait is not enabled.            *)
EXTENDS Naturals, FiniteSets, TLC
LOCAL INSTANCE SequencesExt

CONSTANTS Sessions, Worker,   \* the sessions, and the rebuild worker's
          Entities,           \* the TVIEWs, in dependency order
          Reads(_),           \* the TVIEWs an entity reads
          Keys,
          Bases,              \* the first values of entity -> keys of its base rows
          Persistence,        \* the first values of entity -> LOGGED
          Restored,           \* the sets of TVIEWs restored without rows
          Undoing,            \* a check that found a TVIEW empty may be rolled back
          MaxWrites, MaxCrashes, MaxAlters

E == Range(Entities)
All == Sessions \cup {Worker}
Parents(e) == {p \in E : e \in Reads(p)}

VARIABLES disk,      \* item -> value, as committed
          txn,       \* session -> its transaction
          checked,   \* session -> the TVIEWs its backend found trusted
          prepared,  \* the writes of a prepared transaction
          due,       \* the rebuild worker has to run
          count      \* writes, crashes and persistence changes so far
vars == <<disk, txn, checked, prepared, due, count>>

Base(e, k) == <<"base", e, k>>
Row(e, k) == <<"row", e, k>>
Valid(e) == <<"valid", e>>
Logged(e) == <<"logged", e>>
Lacking(e) == <<"lacking", e>>   \* restored without rows, not refreshed since
RowsOf(e) == {Row(e, k) : k \in Keys}
Nothing == <<>>
\* No transaction; `levels` has the writes of each open subtransaction.
Idle == [levels |-> <<>>, todo |-> <<>>, queue |-> {}, claims |-> {}, fresh |-> {},
         filled |-> FALSE, changed |-> FALSE, found |-> {}, empty |-> FALSE]

Merged(levels) == FoldLeft(LAMBDA below, above : above @@ below, Nothing, levels)
Seen(s) == Merged(txn[s].levels) @@ disk
Open(s) == txn[s].levels # <<>>
Busy(s, items) ==
  items \cap (DOMAIN prepared \cup UNION {DOMAIN Merged(txn[o].levels) : o \in All \ {s}}) # {}

\* What the view of e computes of a key.
ViewRow(v, e, k) ==
  IF ~v[Base(e, k)] THEN "none"
  ELSE IF \A c \in Reads(e) : v[Row(c, k)] # "none" THEN "full" ELSE "bare"
IsEmpty(v, e) == \A k \in Keys : v[Row(e, k)] = "none"
\* What it computes when the TVIEWs it reads have their rows.
IsFull(v, e) == \A k \in Keys : v[Row(e, k)] = IF v[Base(e, k)] THEN "full" ELSE "none"
Missing(v, e) == \E k \in Keys : v[Row(e, k)] = "none" /\ ViewRow(v, e, k) # "none"
NeedsFill(v, e) == ~v[Logged(e)] /\ ~v[Valid(e)]

\* What computing keys of e reads.
ReadItems(e, ks) == {Base(e, k) : k \in ks} \cup {Row(c, k) : c \in Reads(e), k \in ks}

Init ==
  \E base \in Bases, lost \in Restored, persistence \in Persistence :
    /\ disk = [i \in {Base(e, k) : e \in E, k \in Keys} |-> i[3] \in base[i[2]]]
           @@ [i \in UNION {RowsOf(e) : e \in E} |->
                 IF i[2] \in lost \/ i[3] \notin base[i[2]] THEN "none" ELSE "full"]
           @@ [i \in {Lacking(e) : e \in E} |-> i[2] \in lost]
           @@ [i \in {Valid(e) : e \in E} |-> ~persistence[i[2]]]
           @@ [i \in {Logged(e) : e \in E} |-> persistence[i[2]]]
    /\ txn = [s \in All |-> Idle]
    /\ checked = [s \in All |-> {}]
    /\ prepared = Nothing
    /\ due = FALSE
    /\ count = [writes |-> 0, crashes |-> 0, alters |-> 0]

-----------------------------------------------------------------------------
(* A transaction's work: `todo` has the calls still to run, first first.   *)

Writing(t, writes) == [t EXCEPT !.levels[Len(t.levels)] = writes @@ @]
Begun(t) == IF t.levels = <<>> THEN [t EXCEPT !.levels = <<Nothing>>] ELSE t
Does(t, calls) == [t EXCEPT !.todo = calls \o Tail(@)]
Done(t) == Does(t, <<>>)
\* The rows of e written: the TVIEWs that read a changed one are queued.
Rewritten(t, v, e, ks) ==
  LET changed == {k \in ks : v[Row(e, k)] # ViewRow(v, e, k)}
  IN [Writing(t, [i \in {Row(e, k) : k \in ks} |-> ViewRow(v, e, i[3])]) EXCEPT
        !.queue = @ \cup {<<p, k>> : p \in Parents(e), k \in changed}]

Call(s, name) == txn[s].todo # <<>> /\ txn[s].todo[1][1] = name
Entity(s) == txn[s].todo[1][2]
Calls(name, es) == [i \in DOMAIN SetToSeq(es) |-> <<name, SetToSeq(es)[i]>>]
Becomes(s, t) == txn' = [txn EXCEPT ![s] = t] /\ UNCHANGED <<disk, prepared, due, count>>

\* A statement that inserts or deletes a base row, of what a foreign key allows.
Write(s) ==
  /\ txn[s].todo = <<>> /\ txn[s].queue = {}
  /\ count.writes < MaxWrites
  /\ count' = [count EXCEPT !.writes = @ + 1]
  /\ \E e \in E, k \in Keys :
       /\ ~Busy(s, {Base(p, k) : p \in {e} \cup Reads(e) \cup Parents(e)})
       /\ IF Seen(s)[Base(e, k)] THEN \A p \in Parents(e) : ~Seen(s)[Base(p, k)]
                                 ELSE \A c \in Reads(e) : Seen(s)[Base(c, k)]
       /\ txn' = [txn EXCEPT ![s] =
                    [Writing(Begun(@), Base(e, k) :> ~Seen(s)[Base(e, k)]) EXCEPT !.queue = {<<e, k>>}]]
  /\ UNCHANGED <<disk, checked, prepared, due>>

\* apply_entity and ensure, dependencies first.
ApplyEntity(s) ==
  LET t == txn[s]
      queued == SelectSeq(Entities, LAMBDA e : \E k \in Keys : <<e, k>> \in t.queue)
      e == queued[1]
  IN /\ t.todo = <<>> /\ queued # <<>>
     /\ Becomes(s, [t EXCEPT !.todo =
          (IF e \in checked[s] THEN <<>>
           ELSE <<<<"reset", e>>>> \o Calls("emptied", Reads(e)) \o <<<<"found", e>>>>)
          \o <<<<"apply", e>>, <<"restored", e>>>>])
     /\ UNCHANGED checked

\* fill_if_reset: the TVIEWs it reads, then the claim and the fill.
FillIfReset(s) ==
  LET e == Entity(s) IN
  /\ Call(s, "reset")
  /\ Becomes(s, Does(txn[s], IF NeedsFill(Seen(s), e) THEN Calls("reset", Reads(e)) \o <<<<"claim", e>>>> ELSE <<>>))
  /\ UNCHANGED checked

\* The claim: the validity row, once no other transaction is inserting it.
Claim(s) ==
  LET t == txn[s]
      e == Entity(s)
  IN /\ Call(s, "claim") /\ ~Busy(s, {Valid(e)})
     /\ Becomes(s, IF Seen(s)[Valid(e)] THEN Done(t)
                   ELSE [Writing(Does(t, <<<<"refill", e>>>>), Valid(e) :> TRUE) EXCEPT
                           !.claims = @ \cup {<<e, Len(t.levels)>>}, !.fresh = @ \cup {e}])
     /\ UNCHANGED checked

\* refill: waits for the writers of what it reads.
Refill(s) ==
  LET e == Entity(s) IN
  /\ Call(s, "refill") /\ ~Busy(s, ReadItems(e, Keys) \cup RowsOf(e))
  /\ Becomes(s, [Rewritten(Done(txn[s]), Seen(s), e, Keys) EXCEPT !.filled = TRUE])
  /\ UNCHANGED checked

\* mark, outside a claim.
Mark(s) ==
  LET e == Entity(s) IN
  /\ Call(s, "mark") /\ ~Busy(s, {Valid(e)})
  /\ Becomes(s, IF NeedsFill(Seen(s), e) THEN Writing(Done(txn[s]), Valid(e) :> TRUE) ELSE Done(txn[s]))
  /\ UNCHANGED checked

\* fill_if_emptied
FillIfEmptied(s) ==
  LET e == Entity(s)
      v == Seen(s)
  IN \/ /\ Call(s, "emptied")
        /\ Becomes(s, Does(txn[s], Calls("emptied", Reads(e)) \o <<<<"fill emptied", e>>>>))
        /\ UNCHANGED checked
     \/ /\ Call(s, "fill emptied")
        /\ Becomes(s, Does(txn[s], IF IsEmpty(v, e) /\ Missing(v, e) THEN <<<<"refill", e>>, <<"mark", e>>>> ELSE <<>>))
        /\ UNCHANGED checked

\* The end of ensure.
Found(s) ==
  LET t == txn[s]
      e == Entity(s)
      empty == e \notin t.fresh /\ IsEmpty(Seen(s), e)
  IN /\ Call(s, "found")
     /\ Becomes(s, [Done(t) EXCEPT !.fresh = {}, !.empty = @ \/ empty,
                      !.found = IF empty THEN @ \cup {e} ELSE @])
     /\ checked' = [checked EXCEPT ![s] = @ \cup {e}]

\* apply_keys, or a refresh of the whole TVIEW.
Apply(s) ==
  LET t == txn[s]
      e == Entity(s)
      ks == {k \in Keys : <<e, k>> \in t.queue}
      Applied(x, which) ==
        [Writing(Rewritten(Done(x), Seen(s), e, which), Lacking(e) :> FALSE) EXCEPT
           !.queue = @ \ {<<e, k>> : k \in Keys}]
  IN /\ Call(s, "apply")
     /\ \/ /\ ~Busy(s, ReadItems(e, ks) \cup {Row(e, k) : k \in ks})
           /\ Becomes(s, Applied(t, ks))
        \/ /\ ~Busy(s, ReadItems(e, Keys) \cup RowsOf(e))
           /\ Becomes(s, [Applied(t, Keys) EXCEPT !.found = @ \ {e}])
     /\ UNCHANGED checked

\* refill_if_restored_empty
RefillIfRestoredEmpty(s) ==
  LET t == txn[s]
      e == Entity(s)
  IN /\ Call(s, "restored")
     /\ Becomes(s, [Does(t, IF e \in t.found /\ Missing(Seen(s), e) THEN <<<<"refill", e>>, <<"mark", e>>>> ELSE <<>>)
                      EXCEPT !.found = @ \ {e}])
     /\ UNCHANGED checked

-----------------------------------------------------------------------------
(* Changes of persistence (hooks/mod.rs, ddl/replace/rebuild.rs).          *)
\* Broken variant: a reset TVIEW is not filled before it becomes LOGGED.
AlterUnfilled(s) ==
  \E e \in E :
    /\ txn[s].todo = <<>> /\ txn[s].queue = {}
    /\ count.alters < MaxAlters
    /\ count' = [count EXCEPT !.alters = @ + 1]
    /\ txn' = [txn EXCEPT ![s] = [Begun(@) EXCEPT !.changed = TRUE, !.todo = <<<<"alter", e>>>>]]
    /\ UNCHANGED <<disk, checked, prepared, due>>

AlterPersistence(s) ==
  \E e \in E :
    /\ txn[s].todo = <<>> /\ txn[s].queue = {}
    /\ count.alters < MaxAlters
    /\ count' = [count EXCEPT !.alters = @ + 1]
    /\ txn' = [txn EXCEPT ![s] = [Begun(@) EXCEPT !.changed = TRUE,
                 !.todo = IF Seen(s)[Logged(e)] THEN <<<<"alter", e>>>> ELSE <<<<"reset", e>>, <<"alter", e>>>>]]
    /\ UNCHANGED <<disk, checked, prepared, due>>

\* A LOGGED table needs no validity row; one just made UNLOGGED was trusted.
Alter(s) ==
  LET e == Entity(s)
      logged == ~Seen(s)[Logged(e)]
  IN /\ Call(s, "alter") /\ ~Busy(s, RowsOf(e) \cup {Logged(e), Valid(e)})
     /\ Becomes(s, Writing(Done(txn[s]), Logged(e) :> logged @@ Valid(e) :> ~logged))
     /\ UNCHANGED checked

-----------------------------------------------------------------------------
(* The ends of transactions and savepoints.                                *)
\* Broken variant: a fill rolled back leaves its check.
ForgetChecksOfChanges(s) ==
  checked' = IF txn[s].changed THEN [checked EXCEPT ![s] = {}] ELSE checked

ForgetChecks(s) ==
  checked' = IF txn[s].filled \/ txn[s].changed THEN [checked EXCEPT ![s] = {}] ELSE checked

\* A rolled-back check that found a TVIEW empty is kept: see Undoing.
CanUndo(t) == Undoing \/ ~t.empty \/ t.filled \/ t.changed

AtRest(s) == Open(s) /\ txn[s].todo = <<>> /\ txn[s].queue = {}

Savepoint(s) ==
  /\ AtRest(s) /\ Len(txn[s].levels) = 1
  /\ Becomes(s, [txn[s] EXCEPT !.levels = Append(@, Nothing)])
  /\ UNCHANGED checked
\* RELEASE; the level a claim was made at stays with it.
Release(s) ==
  /\ AtRest(s) /\ Len(txn[s].levels) = 2
  /\ Becomes(s, [txn[s] EXCEPT !.levels = <<Merged(@)>>])
  /\ UNCHANGED checked

\* An error anywhere in a statement, or ROLLBACK TO: back to the savepoint.
SubAbort(s) ==
  /\ Len(txn[s].levels) = 2
  /\ CanUndo(txn[s])
  /\ Becomes(s, [txn[s] EXCEPT !.levels = <<@[1]>>, !.todo = <<>>, !.queue = {}, !.fresh = {},
                   !.claims = {c \in @ : c[2] < Len(txn[s].levels)}])
  /\ ForgetChecks(s)
Abort(s) ==
  /\ Open(s)
  /\ CanUndo(txn[s])
  /\ Becomes(s, Idle)
  /\ ForgetChecks(s)

Commit(s) ==
  /\ AtRest(s) /\ Len(txn[s].levels) = 1
  /\ disk' = Seen(s)
  /\ txn' = [txn EXCEPT ![s] = Idle]
  /\ UNCHANGED <<checked, prepared, due, count>>

\* PREPARE TRANSACTION: refused with a claim.
Prepare(s) ==
  /\ AtRest(s) /\ s \in Sessions /\ Len(txn[s].levels) = 1
  /\ prepared = Nothing /\ txn[s].claims = {} /\ ~txn[s].changed
  /\ prepared' = txn[s].levels[1]
  /\ txn' = [txn EXCEPT ![s] = Idle]
  /\ checked' = [checked EXCEPT ![s] = {}]
  /\ UNCHANGED <<disk, due, count>>
EndPrepared ==
  /\ prepared # Nothing
  /\ disk' \in {disk, prepared @@ disk}
  /\ prepared' = Nothing
  /\ UNCHANGED <<txn, checked, due, count>>

\* A crash empties the UNLOGGED tables, of prepared transactions too.
Crash ==
  LET Lost(i) == i[1] = "valid" \/ (i[1] = "row" /\ ~disk[Logged(i[2])])
  IN /\ count.crashes < MaxCrashes
     /\ count' = [count EXCEPT !.crashes = @ + 1]
     /\ disk' = [i \in DOMAIN disk |-> IF ~Lost(i) THEN disk[i] ELSE IF i[1] = "valid" THEN FALSE ELSE "none"]
     /\ prepared' = [i \in {i \in DOMAIN prepared : ~Lost(i)} |-> prepared[i]]
     /\ txn' = [s \in All |-> Idle]
     /\ checked' = [s \in All |-> {}]
     /\ due' = TRUE

\* rebuild_all(true): a fill of each TVIEW that was reset, dependencies first.
RebuildAll == [i \in DOMAIN Entities |-> <<"reset", Entities[i]>>]

\* The rebuild worker, in one transaction.
Rebuild ==
  /\ due /\ due' = FALSE
  /\ txn' = [txn EXCEPT ![Worker] = [Begun(Idle) EXCEPT !.todo = RebuildAll]]
  /\ UNCHANGED <<disk, checked, prepared, count>>

Work(s) ==
  \/ ApplyEntity(s) \/ FillIfReset(s) \/ Claim(s) \/ Refill(s) \/ Mark(s) \/ FillIfEmptied(s)
  \/ Found(s) \/ Apply(s) \/ RefillIfRestoredEmpty(s) \/ Alter(s)
Ends(s) == Savepoint(s) \/ Release(s) \/ SubAbort(s) \/ Abort(s) \/ Commit(s) \/ Prepare(s)
Next ==
  \/ \E s \in Sessions : Write(s) \/ AlterPersistence(s)
  \/ \E s \in All : Work(s) \/ Ends(s)
  \/ EndPrepared \/ Crash \/ Rebuild
  \/ (\A s \in All : ~Open(s)) /\ UNCHANGED vars
Spec == Init /\ [][Next]_vars

-----------------------------------------------------------------------------
(* What is committed of a TVIEW that is LOGGED, or vouched for, is what    *)
(* its view computes, unless it was restored without rows and nothing      *)
(* refreshed it since (lifecycle.rs:7-16).                                 *)
TrustedIsFull ==
  \A e \in E : (~NeedsFill(disk, e) /\ \A r \in {e} \cup Reads(e) : ~disk[Lacking(r)]) => IsFull(disk, e)

(* What a backend remembers to have found trusted is, whatever was rolled  *)
(* back since (forget_checks).                                             *)
CheckedIsFull ==
  \A s \in All : txn[s].todo = <<>> /\ txn[s].queue = {} =>
    \A e \in checked[s] : IsFull(Seen(s), e)
=============================================================================
