---------------------------- MODULE CatalogCaches ----------------------------
(* One backend's memos of catalog reads (cache/mod.rs) while it and others  *)
(* run DDL: the relcache callback bumps a generation for the relations     *)
(* watched, the next lookup clears every memo, and an abort clears them if *)
(* its transaction may have changed the catalog.  A value is the set of    *)
(* the changes of its relation that were visible when it was read.         *)
EXTENDS Naturals, FiniteSets, Sequences

CONSTANTS MaxChanges,  \* DDL statements
          Revision,    \* the changes of "ext" the library's revision stands for
          Preparing    \* a prepared transaction may have changed an extension

\* pg_tview_meta; a table a TVIEW reads; the extensions.
Rels == {"meta", "x", "ext"}
\* PLANS_BY_ENTITY, COLUMNS, COMPUTED and JSONB_DELTA_SCHEMA, for what they watch.
Memos == {"plans", "columns", "computed", "schema"}
Relation == [plans |-> "meta", columns |-> "x", computed |-> "x", schema |-> "ext"]

VARIABLES committed,  \* the changes committed
          prepared,   \* those of a prepared transaction
          theirs,     \* those of another backend's open transaction
          backend,    \* this backend's transaction and caches
          changes     \* DDL statements so far
vars == <<committed, prepared, theirs, backend, changes>>

Unknown == {<<"unknown", 0>>}
\* The memo being loaded, and what the catalog said once it is read.
NoLoad == [of |-> "none", found |-> Unknown]
Of(r, set) == {c \in set : c[1] = r}
Own == UNION {backend.own[i] : i \in DOMAIN backend.own}
Visible(r) == Of(r, committed \cup Own)
Open == backend.own # <<>>

Init ==
  /\ committed = {} /\ prepared = {} /\ theirs = {} /\ changes = 0
  /\ backend =
       [own |-> <<>>, inbox |-> {}, load |-> NoLoad,
        memo |-> [k \in Memos |-> Unknown], watched |-> {}, catalogWatched |-> FALSE,
        bumped |-> FALSE, changedInXact |-> FALSE, matched |-> FALSE]

-----------------------------------------------------------------------------
\* invalidate_all
Invalidated(c) ==
  [c EXCEPT !.changedInXact = TRUE, !.memo = [k \in Memos |-> Unknown], !.catalogWatched = FALSE]
\* relcache_callback, for each relation.
Called(c, rels) ==
  [c EXCEPT !.changedInXact = @ \/ rels # {}, !.bumped = @ \/ rels \cap c.watched # {}]
Watching(c, rels) == [c EXCEPT !.watched = @ \cup rels]
WatchCatalog(c) == [Watching(c, {"meta"}) EXCEPT !.catalogWatched = TRUE]
\* Broken variant: the catalog is not watched again once the memos are clear.
SyncOnce(c) == IF c.bumped THEN [Invalidated(c) EXCEPT !.bumped = FALSE] ELSE c
SyncGeneration(c) == WatchCatalog(IF c.bumped THEN [Invalidated(c) EXCEPT !.bumped = FALSE] ELSE c)
\* Broken variant: an abort keeps the memos.
KeepOnAbort(c) == c
ForgetOnAbort(c) == IF c.changedInXact THEN Invalidated(c) ELSE c
Begun(c) == IF c.own = <<>> THEN [c EXCEPT !.own = <<{}>>] ELSE c

Becomes(c) == backend' = c

\* The write that looks COMPUTED up holds a lock on its table, and accepted
\* what was sent when it took it.
CanWrite ==
  backend.inbox = {} /\ Of("x", prepared \cup theirs) = {}

Writing == backend.load.of = "computed"

\* get: a hit, or a load, which for COLUMNS watches the table first.
Lookup ==
  \E k \in Memos :
    LET c == SyncGeneration(Begun(backend))
    IN /\ backend.load = NoLoad
       /\ k = "computed" => CanWrite
       /\ Becomes(IF c.memo[k] # Unknown THEN c
                     ELSE [Watching(c, IF k = "columns" THEN {"x"} ELSE {}) EXCEPT !.load.of = k])
       /\ UNCHANGED <<committed, prepared, theirs, changes>>

\* The catalog is read.
Read ==
  /\ backend.load.of # "none" /\ backend.load.found = Unknown
  /\ Becomes([backend EXCEPT !.load.found = Visible(Relation[backend.load.of])])
  /\ UNCHANGED <<committed, prepared, theirs, changes>>

\* insert; COMPUTED is read of the table being written, and watches it now.
Remember ==
  LET c == backend
      k == c.load.of
  IN /\ k # "none" /\ c.load.found # Unknown
     /\ Becomes([Watching(c, IF k = "computed" THEN {"x"} ELSE {}) EXCEPT
                      !.memo[k] = c.load.found, !.load = NoLoad])
     /\ UNCHANGED <<committed, prepared, theirs, changes>>

\* What others committed arrives, also while the catalog is read.
Accept ==
  /\ backend.inbox # {}
  /\ Becomes([Called(backend, backend.inbox) EXCEPT !.inbox = {}])
  /\ UNCHANGED <<committed, prepared, theirs, changes>>

\* revision::check
Check ==
  /\ backend.load = NoLoad
  /\ Becomes([Begun(backend) EXCEPT !.matched = @ \/ Cardinality(Visible("ext")) = Revision])
  /\ UNCHANGED <<committed, prepared, theirs, changes>>

-----------------------------------------------------------------------------
\* The lock DDL on r takes; rows of pg_tview_meta conflict with none.
CanChange(r, set) == r # "meta" => Of(r, prepared \cup set) = {}

\* Every statement that may change the catalog, before it runs.
MarksChanged(c) == [c EXCEPT !.changedInXact = TRUE]
\* decide: of extensions; the TVIEWs' own DDL clears the memos itself.
Handled(c, r) ==
  [IF r = "x" THEN c ELSE Invalidated(c) EXCEPT !.matched = @ /\ r # "ext"]

\* A DDL statement, and the relcache callback at the end of its command.
Ddl ==
  \E r \in Rels :
    LET c == Handled(MarksChanged(Begun(backend)), r)
        done == [c EXCEPT !.own[Len(c.own)] = @ \cup {<<r, changes>>}]
    IN /\ changes < MaxChanges /\ changes' = changes + 1
       /\ backend.load = NoLoad
       /\ CanChange(r, theirs)
       /\ Becomes(Called(done, {r} \ {"ext"}))
       /\ UNCHANGED <<committed, prepared, theirs>>

Savepoint ==
  /\ Open /\ Len(backend.own) = 1 /\ backend.load = NoLoad
  /\ Becomes([backend EXCEPT !.own = Append(@, {})])
  /\ UNCHANGED <<committed, prepared, theirs, changes>>
Release ==
  /\ Len(backend.own) = 2 /\ backend.load = NoLoad
  /\ Becomes([backend EXCEPT !.own = <<@[1] \cup @[2]>>])
  /\ UNCHANGED <<committed, prepared, theirs, changes>>

\* The relcache messages of a set of changes; PostgreSQL replays to the
\* backend those of what it undid.
Sent(set) == {r \in Rels \ {"ext"} : Of(r, set) # {}}
Undone(c, set) == Called(c, Sent(set))

\* RESET_ON_SUBABORT
SubAbort ==
  LET c == backend IN
  /\ Len(c.own) = 2
  /\ Becomes(Undone([ForgetOnAbort(c) EXCEPT !.own = <<@[1]>>, !.load = NoLoad], c.own[2]))
  /\ UNCHANGED <<committed, prepared, theirs, changes>>

\* RESET_ON_ABORT and RESET_AT_END
Abort ==
  LET c == backend IN
  /\ Open
  /\ Becomes(Undone([ForgetOnAbort(c) EXCEPT !.own = <<>>, !.load = NoLoad, !.changedInXact = FALSE,
                                               !.matched = @ /\ ~c.changedInXact], Own))
  /\ UNCHANGED <<committed, prepared, theirs, changes>>

AtEnd == Len(backend.own) = 1 /\ backend.load = NoLoad
Ended(c) == [c EXCEPT !.own = <<>>, !.changedInXact = FALSE]

Commit ==
  /\ AtEnd
  /\ committed' = committed \cup Own
  /\ Becomes(Ended(backend))
  /\ UNCHANGED <<prepared, theirs, changes>>

\* PREPARE TRANSACTION resets what the end of a transaction does; PostgreSQL
\* replays the invalidations as for an abort.
Prepare ==
  /\ AtEnd /\ prepared = {} /\ Own # {}
  /\ Preparing \/ Of("ext", Own) = {}
  /\ prepared' = Own
  /\ Becomes(Undone(Ended(backend), Own))
  /\ UNCHANGED <<committed, theirs, changes>>
EndPrepared ==
  /\ prepared # {} /\ prepared' = {}
  /\ \/ /\ committed' = committed \cup prepared
        /\ Becomes([backend EXCEPT !.inbox = @ \cup Sent(prepared)])
     \/ UNCHANGED <<committed, backend>>
  /\ UNCHANGED <<theirs, changes>>

\* Another backend's DDL; it waits for this one's writes to the table.
OtherDdl ==
  \E r \in Rels \ {"ext"} :
    /\ changes < MaxChanges /\ changes' = changes + 1
    /\ CanChange(r, Own)
    /\ ~(r = "x" /\ Writing)
    /\ theirs' = theirs \cup {<<r, changes>>}
    /\ UNCHANGED <<committed, prepared, backend>>
OtherEnds ==
  /\ theirs # {} /\ theirs' = {}
  /\ \/ /\ committed' = committed \cup theirs
        /\ Becomes([backend EXCEPT !.inbox = @ \cup Sent(theirs)])
     \/ UNCHANGED <<committed, backend>>
  /\ UNCHANGED <<prepared, changes>>

Next ==
  \/ Lookup \/ Read \/ Remember \/ Accept \/ Check \/ Ddl
  \/ Savepoint \/ Release \/ SubAbort \/ Abort \/ Commit \/ Prepare
  \/ EndPrepared \/ OtherDdl \/ OtherEnds
Spec == Init /\ [][Next]_vars

-----------------------------------------------------------------------------
(* A backend that has accepted what others committed, and has not seen its *)
(* generation move, holds no memo of a relation it should watch that       *)
(* differs from the catalog: its next lookups are right                    *)
(* (cache/mod.rs:1-10).                                                    *)
CacheIsCurrent ==
  backend.inbox = {} /\ ~backend.bumped =>
    \A k \in Memos \ {"schema"} : backend.memo[k] \in {Unknown, Visible(Relation[k])}

(* No memo keeps a change that was rolled back, whatever relation it is    *)
(* of: watched, or, as the extensions, not (forget_on_abort).              *)
NothingUndoneIsRemembered ==
  \A k \in Memos :
    ~backend.bumped /\ backend.memo[k] # Unknown => backend.memo[k] \subseteq committed \cup Own
=============================================================================
