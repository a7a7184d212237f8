------------------------------ MODULE TviewDdl ------------------------------
(* A TVIEW's table, backing view, registration and triggers while it is     *)
(* created, replaced, rebuilt, moved, dropped, or what it reads is renamed  *)
(* or dropped (ddl/, hooks/), by transactions of several sessions. The rows *)
(* of a TVIEW are the values and rows its definition reads. A statement     *)
(* takes its locks in one step and waits while another session holds one    *)
(* that conflicts; any transaction may abort, a deadlock's victim included. *)
EXTENDS Naturals, FiniteSets, Sequences

CONSTANTS Sessions, Entities, Roles,
          Places,          \* the schemas of TVIEWs
          DefaultReaders(_),  \* who may read a new table of a schema
          Tables,          \* the base tables
          Matviews,        \* those that are materialized views
          BaseOwner,       \* the role that owns them, and the schemas
          Definitions(_),  \* [id, reads, tviews, through, columns]: the tables it
                           \* reads, perhaps in a helper view, the TVIEWs, its columns
          Registered0,     \* what is registered at first, of these the first few
          QuietStarts,     \* nobody changes what a TVIEW starts to read
          MaxStatements, None, Gone

VARIABLES disk,       \* item -> value, as committed
          txn,        \* session -> its transaction
          statements  \* statements so far
vars == <<disk, txn, statements>>

\* As in TLC, defined here to be proved about.
f @@ g == [i \in DOMAIN f \cup DOMAIN g |-> IF i \in DOMAIN f THEN f[i] ELSE g[i]]
i :> x == [j \in {i} |-> x]

Val(t) == <<"value", t>>
Column(t) == <<"column", t>>       \* the name of the column the TVIEWs read
Trig(t) == <<"triggers", t>>       \* the entities whose triggers it has
Meta(e) == <<"meta", e>>           \* [def, column]: column, table -> its name in the plan
Table(e) == <<"tview", e>>         \* [owner, place, readers] of tv_<entity>
Rows(e) == <<"rows", e>>
View(e, p) == <<"view", e, p>>     \* [def, owner, readers, left] of the view named
                                   \* for tv_<entity> in p; left behind by an extension

Named == Entities \X Places
Item ==
  {Val(t) : t \in Tables} \cup {Column(t) : t \in Tables} \cup {Trig(t) : t \in Tables}
    \cup {Meta(e) : e \in Entities} \cup {Table(e) : e \in Entities} \cup {Rows(e) : e \in Entities}
    \cup {View(e, p) : e \in Entities, p \in Places}

Definition == UNION {Definitions(e) : e \in Entities}
MetaRow == [def : Definition, column : UNION {[d.reads -> {0, 1}] : d \in Definition}]
TableRow == [owner : Roles, place : Places, readers : SUBSET Roles]
ViewRow == [def : Definition, owner : Roles, readers : SUBSET Roles, left : BOOLEAN]

ASSUME DefinitionsAssumption ==
  /\ \A d \in Definition : d.reads \subseteq Tables
  /\ Registered0 \in Seq([entity : Entities, def : Definition, place : Places])
  /\ \A i, j \in DOMAIN Registered0 : Registered0[i].entity = Registered0[j].entity => i = j
ASSUME RolesAssumption == BaseOwner \in Roles /\ \A p \in Places : DefaultReaders(p) \subseteq Roles
ASSUME NoneAssumption ==
  None \notin MetaRow \cup TableRow \cup ViewRow \cup [kind : {"create"}, entity : Entities]

Views(v) == {n \in Named : v[View(n[1], n[2])] # None}
DefinitionOf(v, n) == v[View(n[1], n[2])].def
Registered(v) == {e \in Entities : v[Meta(e)] # None}

-----------------------------------------------------------------------------
(* What definitions read.                                                  *)
\* The TVIEWs that read one of es, themselves included (readers_of).
Readers(v, es) ==
  LET up[n \in 0..Cardinality(Entities)] ==
        IF n = 0 THEN es
        ELSE up[n - 1] \cup {e \in Registered(v) : v[Meta(e)].def.tviews \cap up[n - 1] # {}}
  IN up[Cardinality(Entities)]
\* EntityDepGraph::load refuses a cycle.
Acyclic(v) ==
  \A e \in Registered(v) : e \notin Readers(v, {d \in Registered(v) : e \in v[Meta(d)].def.tviews})

Result(v, d) ==
  [of |-> d.id, values |-> [t \in d.reads |-> v[Val(t)]], rows |-> [e \in d.tviews |-> v[Rows(e)]]]
\* The rows of es, refreshed or reconciled, each after those it reads.
Refreshed(v, es) ==
  LET rows[e \in Entities] ==
        IF e \notin es THEN v[Rows(e)]
        ELSE LET d == v[Meta(e)].def
             IN [of |-> d.id, values |-> [t \in d.reads |-> v[Val(t)]], rows |-> [f \in d.tviews |-> rows[f]]]
  IN [i \in {Rows(e) : e \in es} |-> rows[i[2]]] @@ v

\* Registration::write: the definition, and the plan derived from it.
Written(v, e, d) == Meta(e) :> [def |-> d, column |-> [t \in d.reads |-> v[Column(t)]]] @@ v
\* reregister_tview, of entities whose definitions stay.
Reregistered(v, es) ==
  [i \in {Meta(e) : e \in es} |-> Written(v, i[2], v[i].def)[i]] @@ v
\* install_triggers and sync_entity_triggers, which leaves no others.
SyncTriggers(v, e, d) ==
  [i \in {Trig(t) : t \in Tables} |->
     (v[i] \ {e}) \cup (IF i[2] \in d.reads \ Matviews THEN {e} ELSE {})] @@ v

Place(v, e) == CHOOSE p \in Places : v[View(e, p)] # None /\ ~v[View(e, p)].left
\* Broken variant: a view keeps the owner it was created with.
FollowReaders(v, es, owners) ==
  [i \in {View(e, Place(v, e)) : e \in es} |->
     [v[i] EXCEPT !.readers = v[Table(i[2])].readers \ {v[i].owner}]] @@ v
\* privileges::follow, for TVIEWs es.
Follow(v, es, owners) ==
  [i \in {View(e, Place(v, e)) : e \in es} |->
     LET table == v[Table(i[2])]
         owner == IF owners THEN table.owner ELSE v[i].owner
     IN [v[i] EXCEPT !.owner = owner, !.readers = table.readers \ {owner}]] @@ v

-----------------------------------------------------------------------------
(* Transactions.                                                           *)
Idle == [mine |-> <<>>, locks |-> {}, step |-> None, by |-> {}]
Seen(s) == txn[s].mine @@ disk
Open(s) == txn[s].locks # {}
Others(s) == UNION {txn[o].locks : o \in Sessions \ {s}}

Quiet(modes) == IF QuietStarts THEN modes ELSE {}
\* PostgreSQL's lock modes; "start" and "begun" lock only under QuietStarts.
Conflicts == [read      |-> {"all"},
              row       |-> {"share", "trigger", "exclusive", "all"} \cup Quiet({"start"}),
              share     |-> {"row", "trigger", "exclusive", "all"} \cup Quiet({"begun"}),
              trigger   |-> {"row", "share", "trigger", "exclusive", "all"},
              exclusive |-> {"row", "share", "trigger", "exclusive", "all"} \cup Quiet({"start"}),
              all       |-> {"read", "row", "share", "trigger", "exclusive", "all"},
              entity    |-> {"entity"},
              start     |-> Quiet({"row", "exclusive", "begun"}),
              begun     |-> Quiet({"start", "share"})]
Lock(mode, kind, names) == {<<mode, <<kind, n>>>> : n \in names}
\* What reading a definition locks.
LockRead(mode, d) == Lock(mode, "table", d.reads) \cup Lock(mode, "tview", d.tviews)
CanLock(s, locks) ==
  \A l \in locks, o \in Others(s) : l[2] = o[2] => o[1] \notin Conflicts[l[1]]
Busy(s, items) == items \cap UNION {DOMAIN txn[o].mine : o \in Sessions \ {s}} # {}

\* Changes s makes under its locks, by whose right, and where that leaves its
\* statement.
Change(s, by, locks, v, step) ==
  LET writes == [i \in {i \in DOMAIN disk : v[i] # Seen(s)[i]} |-> v[i]] IN
  /\ CanLock(s, locks) /\ ~Busy(s, DOMAIN writes)
  /\ txn' = [txn EXCEPT ![s] =
       [mine |-> writes @@ @.mine, locks |-> @.locks \cup locks, step |-> step, by |-> @.by \cup by]]
  /\ UNCHANGED disk
\* A statement of s, or the first of its steps.
Begins(s) == txn[s].step = None /\ statements < MaxStatements /\ statements' = statements + 1
As(r) == {<<"role", r>>}

-----------------------------------------------------------------------------
(* Writes.                                                                 *)
\* A write of table t, or a REFRESH of a materialized view, and the flush
\* after it. The trigger skips a row of which none of the columns the plan
\* names changed (LocalPath.source_columns).
Write(s) ==
  \E t \in Tables :
    LET v == Seen(s)
        written == Val(t) :> (1 - v[Val(t)]) @@ v
        followed == IF t \in Matviews THEN {e \in Registered(v) : t \in v[Meta(e)].def.reads}
                    ELSE {e \in v[Trig(t)] : v[Meta(e)].column[t] = v[Column(t)]}
        refreshed == Readers(v, followed)
    IN /\ v[Val(t)] # Gone
       /\ Begins(s)
       /\ Change(s, {}, Lock(IF t \in Matviews THEN "all" ELSE "row", "table", {t})
                          \cup Lock("row", "tview", refreshed) \cup Lock("read", "view", refreshed)
                          \cup UNION {LockRead("read", v[Meta(e)].def) : e \in refreshed},
                 Refreshed(written, refreshed), None)

\* ALTER TABLE t RENAME COLUMN: the definitions that name the column follow.
RenameColumn(s) ==
  \E t \in Tables :
    LET v == Seen(s)
        renamed == Column(t) :> (1 - v[Column(t)]) @@ v
        naming == {e \in Registered(v) : t \in v[Meta(e)].def.reads /\ ~v[Meta(e)].def.through}
    IN /\ v[Val(t)] # Gone
       /\ Begins(s)
       /\ Change(s, As(BaseOwner), Lock("all", "table", {t}), Reregistered(renamed, naming), None)

-----------------------------------------------------------------------------
(* CREATE TABLE tv_<entity> AS, pg_tviews_create, create_or_replace.       *)
Readable(v, d) == (\A t \in d.reads : v[Val(t)] # Gone) /\ d.tviews \subseteq Registered(v)
Started(d) == LockRead("read", d) \cup LockRead("start", d)

\* A leftover's name is reclaimed, any other is taken (create_backing_view_in).
NameIsFree(v, e, p) == <<e, p>> \in Views(v) => v[View(e, p)].left

\* create_tview_inner, as far as the rows and the registration.
CreateFill(s) ==
  \E e \in Entities, p \in Places, r \in Roles :
    LET v == Seen(s) IN
    \E d \in Definitions(e) :
      LET created == Rows(e) :> Result(v, d)
                     @@ Table(e) :> [owner |-> r, place |-> p, readers |-> DefaultReaders(p) \ {r}]
                     @@ View(e, p) :> [def |-> d, owner |-> r, readers |-> {}, left |-> FALSE]
                     @@ Written(v, e, d)
      IN /\ v[Meta(e)] = None /\ v[Table(e)] = None /\ NameIsFree(v, e, p) = TRUE
         /\ Readable(v, d) /\ Acyclic(created)
         /\ Begins(s)
         /\ Change(s, As(r), Lock("entity", "entity", {e}) \cup Lock("all", "tview", {e}) \cup Started(d),
                   created, [kind |-> "create", entity |-> e])
\* Its finish: the view's readers, then the triggers.
CreateFinish(s) ==
  LET v == Seen(s)
      e == txn[s].step.entity
      d == v[Meta(e)].def
  IN /\ txn[s].step # None /\ txn[s].step.kind = "create"
     /\ Change(s, {}, Lock("trigger", "table", d.reads \ Matviews),
               SyncTriggers(Follow(v, {e}, FALSE), e, d), None)
     /\ UNCHANGED statements

-----------------------------------------------------------------------------
(* pg_tviews_create_or_replace of an existing TVIEW.                       *)
\* The same columns: replaced in place. First what depends on it is read.
ReplaceBegin(s) ==
  \E e \in Entities :
    LET v == Seen(s) IN
    \E d \in Definitions(e) :
      /\ v[Meta(e)] # None /\ v[Meta(e)].def # d /\ v[Meta(e)].def.columns = d.columns
      /\ Readable(v, d)
      /\ Begins(s)
      /\ Change(s, As(v[Table(e)].owner),
                Lock("entity", "entity", {e}) \cup Lock("read", "tview", {e}) \cup Lock("read", "view", {e})
                  \cup Lock("begun", "tview", {e}) \cup LockRead("read", d),
                v, [kind |-> "replace", entity |-> e, def |-> d, readers |-> Readers(v, {e}) \ {e}])

\* Broken variant: only the tables of the present definitions are locked.
SharedNow(v, es, d) == UNION {LockRead("share", v[Meta(f)].def) : f \in es}
\* SHARE on what any of es reads, or is to read, but for their own tables.
Shared(v, es, d) ==
  (LockRead("share", d) \cup UNION {LockRead("share", v[Meta(f)].def) : f \in es}) \ Lock("share", "tview", es)

\* replace_in_place, under its locks.
ReplaceFinish(s) ==
  LET v == Seen(s)
      step == txn[s].step
      e == step.entity
      es == {e} \cup step.readers
      p == Place(v, e)
      redefined == View(e, p) :> [v[View(e, p)] EXCEPT !.def = step.def] @@ Written(v, e, step.def)
      synced == Reregistered(SyncTriggers(redefined, e, step.def), step.readers)
  IN /\ step # None /\ step.kind = "replace"
     /\ step.readers \subseteq Registered(v) /\ Acyclic(redefined)
     /\ Change(s, {}, Shared(v, es, step.def) \cup Lock("exclusive", "tview", es)
                        \cup Lock("entity", "entity", step.readers) \cup Lock("all", "view", {e})
                        \cup Lock("trigger", "table", step.def.reads \ (v[Meta(e)].def.reads \cup Matviews))
                        \cup Lock("all", "table", v[Meta(e)].def.reads \ (step.def.reads \cup Matviews)),
               Refreshed(synced, es), None)
     /\ UNCHANGED statements

\* Other columns: dropped, when nothing depends on it, and created again,
\* filled last.
Rebuild(s) ==
  \E e \in Entities :
    LET v == Seen(s) IN
    \E d \in Definitions(e) :
      LET p == Place(v, e)
          table == v[Table(e)]
          view == [def |-> d, owner |-> table.owner, readers |-> {}, left |-> FALSE]
          rebuilt == SyncTriggers(Follow(View(e, p) :> view @@ Written(v, e, d), {e}, TRUE), e, d)
      IN /\ v[Meta(e)] # None /\ v[Meta(e)].def.columns # d.columns
         /\ Readable(v, d) /\ Acyclic(rebuilt)
         /\ \A n \in Views(v) : e \notin DefinitionOf(v, n).tviews
         /\ Begins(s)
         /\ Change(s, As(table.owner),
                   Lock("entity", "entity", {e}) \cup Lock("all", "tview", {e}) \cup Lock("all", "view", {e})
                     \cup Started(d) \cup Lock("all", "table", v[Meta(e)].def.reads \ Matviews)
                     \cup Lock("trigger", "table", d.reads \ Matviews),
                   Refreshed(rebuilt, {e}), None)

-----------------------------------------------------------------------------
(* Moves and privileges.                                                   *)
\* ALTER TABLE tv_<entity> SET SCHEMA p, and follow_table_move.
Move(s) ==
  \E e \in Entities, p \in Places :
    LET v == Seen(s)
        from == Place(v, e)
    IN /\ v[Meta(e)] # None /\ v[Table(e)].place # p
       /\ v[View(e, p)] = None
       /\ Begins(s)
       /\ Change(s, As(v[Table(e)].owner), Lock("all", "tview", {e}) \cup Lock("all", "view", {e}),
                 View(e, p) :> v[View(e, from)] @@ View(e, from) :> None
                   @@ Table(e) :> [v[Table(e)] EXCEPT !.place = p] @@ v, None)

\* GRANT or REVOKE SELECT on tv_<entity>: every backing view follows.
Grant(s) ==
  \E e \in Entities, r \in Roles :
    LET v == Seen(s)
        table == v[Table(e)]
        readers == IF r \in table.readers THEN table.readers \ {r} ELSE table.readers \cup {r}
    IN /\ v[Meta(e)] # None /\ r # table.owner
       /\ Begins(s)
       /\ Change(s, As(table.owner), Lock("read", "tview", {e}),
                 Follow(Table(e) :> [table EXCEPT !.readers = readers] @@ v, Registered(v), FALSE), None)

\* ALTER TABLE tv_<entity> OWNER TO r.
SetOwner(s) ==
  \E e \in Entities, r \in Roles :
    LET v == Seen(s)
        table == v[Table(e)]
    IN /\ v[Meta(e)] # None /\ r # table.owner
       /\ Begins(s)
       /\ Change(s, As(table.owner), Lock("all", "tview", {e}) \cup Lock("all", "view", {e}),
                 Follow(Table(e) :> [table EXCEPT !.owner = r, !.readers = @ \ {r}] @@ v, Registered(v), TRUE),
                 None)

-----------------------------------------------------------------------------
(* Drops.                                                                  *)
\* The views that read one of the tables or TVIEWs.
DependOn(v, tables, tviews) ==
  {n \in Views(v) : DefinitionOf(v, n).reads \cap tables # {} \/ DefinitionOf(v, n).tviews \cap tviews # {}}
\* The TVIEWs whose backing view is one of views.
Backed(v, views) == {e \in Registered(v) : \E n \in views : n[1] = e /\ ~v[View(n[1], n[2])].left}

\* Broken variant: the table goes with its view, whoever owns it.
OwnedByAny(v, r, es) == es
\* A TVIEW dropped as a dependent keeps a table the role may not drop.
Owned(v, r, es) == {e \in es : v[Table(e)].owner = r}

\* What DROP ... CASCADE by r removes: the TVIEW tables, and the views that
\* depend on those or on the tables; a TVIEW whose view goes is handled
\* (handle_dropped).
Swept(v, r, tables, tviews) ==
  LET Closed(es) == tviews \subseteq es /\ Owned(v, r, Backed(v, DependOn(v, tables, es))) \subseteq es
  IN {e \in Entities : \A es \in SUBSET Entities : Closed(es) => e \in es}

\* drop_tview, handle_dropped and drop_backing_view: none of what a TVIEW
\* whose table or view is dropped had is left, but for a table kept.
Drop(v, tables, tviews) ==
  LET views == DependOn(v, tables, tviews)
      deregistered == Registered(v) \cap (tviews \cup Backed(v, views))
      gone == views \cup {<<e, Place(v, e)>> : e \in deregistered}
  IN [i \in {View(n[1], n[2]) : n \in gone} |-> None]
     @@ [i \in {Meta(e) : e \in deregistered} |-> None]
     @@ [i \in UNION {{Table(e), Rows(e)} : e \in tviews} |-> None]
     @@ [i \in {Val(t) : t \in tables} |-> Gone]
     @@ [i \in {Trig(t) : t \in Tables} |-> IF i[2] \in tables THEN {} ELSE v[i] \ deregistered]
     @@ v

\* Those on the tables dropped, the TVIEWs' and views' that go with them, and
\* the tables that lose triggers.
DropLocks(v, r, tables, tviews) ==
  LET views == DependOn(v, tables, tviews)
      deregistered == Registered(v) \cap (tviews \cup Backed(v, views))
  IN Lock("all", "tview", tviews) \cup Lock("all", "view", deregistered)
     \cup Lock("entity", "entity", Registered(v) \cap tviews)
     \cup Lock("all", "table", tables \cup {t \in Tables : v[Trig(t)] \cap deregistered # {}})

\* pg_tviews_drop and DROP TABLE tv_<entity>, a TVIEW's or left by one.
DropTable(s) ==
  \E e \in Entities, cascade \in BOOLEAN :
    LET v == Seen(s)
        r == v[Table(e)].owner
        tviews == IF cascade THEN Swept(v, r, {}, {e}) ELSE {e}
    IN /\ v[Table(e)] # None
       /\ \A n \in Views(v) : ~cascade => e \notin DefinitionOf(v, n).tviews
       /\ Begins(s)
       /\ Change(s, As(r), DropLocks(v, r, {}, tviews), Drop(v, {}, tviews), None)

\* DROP TABLE t CASCADE, which the sql_drop event trigger follows.
DropBase(s) ==
  \E t \in Tables :
    LET v == Seen(s)
        tviews == Swept(v, BaseOwner, {t}, {})
    IN /\ v[Val(t)] # Gone
       /\ Begins(s)
       /\ Change(s, As(BaseOwner), DropLocks(v, BaseOwner, {t}, tviews), Drop(v, {t}, tviews), None)

\* DROP SCHEMA p CASCADE, created again.
DropSchema(s) ==
  \E p \in Places :
    LET v == Seen(s)
        within == {e \in Entities : v[Table(e)] # None /\ v[Table(e)].place = p}
        tviews == Swept(v, BaseOwner, {}, within)
    IN /\ within # {}
       /\ Begins(s)
       /\ Change(s, As(BaseOwner) \cup {<<"schema", p>>}, DropLocks(v, BaseOwner, {}, tviews),
                 Drop(v, {}, tviews), None)

\* DROP EXTENSION pg_tviews CASCADE, then CREATE EXTENSION: with the library,
\* the backing views go (drop_left_backing_views); without, they stay.
Reinstall(s) ==
  \E loaded \in BOOLEAN :
    LET v == Seen(s)
        kept(n) == IF loaded /\ ~v[View(n[1], n[2])].left THEN None
                   ELSE [v[View(n[1], n[2])] EXCEPT !.left = TRUE]
    IN /\ \A o \in Sessions \ {s} : ~Open(o)
       /\ Registered(v) # {}
       /\ Begins(s)
       /\ Change(s, {}, Lock("all", "table", Tables) \cup Lock("all", "tview", Entities),
                 [i \in {Meta(e) : e \in Entities} |-> None] @@ [i \in {Trig(t) : t \in Tables} |-> {}]
                   @@ [i \in {View(n[1], n[2]) : n \in Views(v)} |-> kept(<<i[2], i[3]>>)] @@ v,
                 None)

-----------------------------------------------------------------------------
Commit(s) ==
  /\ Open(s) /\ txn[s].step = None
  /\ disk' = Seen(s)
  /\ txn' = [txn EXCEPT ![s] = Idle]
  /\ UNCHANGED statements
Abort(s) ==
  /\ Open(s)
  /\ txn' = [txn EXCEPT ![s] = Idle]
  /\ UNCHANGED <<disk, statements>>

Init ==
  /\ \E n \in 0..Len(Registered0) :
       LET first == {Registered0[i] : i \in 1..n}
           es == {x.entity : x \in first}
           Of(e) == CHOOSE x \in first : x.entity = e
           created ==
             [i \in UNION {{Val(t), Column(t)} : t \in Tables} |-> 0]
               @@ [i \in {Trig(t) : t \in Tables} |-> {e \in es : i[2] \in Of(e).def.reads \ Matviews}]
               @@ [i \in {Meta(e) : e \in es} |->
                     [def |-> Of(i[2]).def, column |-> [t \in Of(i[2]).def.reads |-> 0]]]
               @@ [i \in {Table(e) : e \in es} |->
                     [owner |-> BaseOwner, place |-> Of(i[2]).place, readers |-> {}]]
               @@ [i \in {View(e, Of(e).place) : e \in es} |->
                     [def |-> Of(i[2]).def, owner |-> BaseOwner, readers |-> {}, left |-> FALSE]]
               @@ [i \in Item |-> None]
       IN disk = Refreshed(created, es)
  /\ txn = [s \in Sessions |-> Idle]
  /\ statements = 0

Next ==
  \/ \E s \in Sessions :
       \/ Write(s) \/ RenameColumn(s)
       \/ CreateFill(s) \/ CreateFinish(s) \/ ReplaceBegin(s) \/ ReplaceFinish(s) \/ Rebuild(s)
       \/ Move(s) \/ Grant(s) \/ SetOwner(s)
       \/ DropTable(s) \/ DropBase(s) \/ DropSchema(s) \/ Reinstall(s)
       \/ Commit(s) \/ Abort(s)
  \/ (\A s \in Sessions : ~Open(s)) /\ UNCHANGED vars
Spec == Init /\ [][Next]_vars

-----------------------------------------------------------------------------
(* A registered TVIEW has its table, one backing view, named for it, with   *)
(* its definition, owner and readers, and triggers on the tables it reads   *)
(* and no others; an entity not registered has neither views nor triggers,  *)
(* but for views an extension left (ddl/drop.rs, ddl/privileges.rs,         *)
(* follow_table_move).                                                      *)
RegisteredIsWhole ==
  \A e \in Entities :
    LET views == {p \in Places : disk[View(e, p)] # None /\ ~disk[View(e, p)].left}
        triggers == {t \in Tables : e \in disk[Trig(t)]}
        table == disk[Table(e)]
    IN IF disk[Meta(e)] = None THEN views = {} /\ triggers = {}
       ELSE /\ table # None /\ views = {table.place}
            /\ disk[View(e, table.place)] =
                 [def |-> disk[Meta(e)].def, owner |-> table.owner, readers |-> table.readers, left |-> FALSE]
            /\ triggers = disk[Meta(e)].def.reads \ Matviews

(* What is committed of a TVIEW is what its view computes (README.md,       *)
(* "every TVIEW row equals its view once they commit"), through creations,  *)
(* replacements of it or of a TVIEW it reads, and renames.                  *)
RowsAreView ==
  \A e \in Registered(disk) : disk[Rows(e)] = Result(disk, disk[Meta(e)].def)

(* No TVIEW reads itself through others, whichever definitions two sessions *)
(* replace at once: each loads the graph without the other's (register.rs). *)
NothingReadsItself == Acyclic(disk)

(* A TVIEW's table, its rows with it, goes only by the right of its owner   *)
(* or of its schema's: a dropped base table, or view, or another's TVIEW    *)
(* takes the registration, and leaves the table (handle_dropped).           *)
KeptUnlessOwned ==
  [][\A e \in Entities :
       disk[Table(e)] # None /\ disk'[Table(e)] = None =>
         \E s \in Sessions :
           txn[s].by \cap {<<"role", disk[Table(e)].owner>>, <<"schema", disk[Table(e)].place>>} # {}]_vars
=============================================================================
