----------------------------- MODULE RefreshLocks -----------------------------
(***************************************************************************)
(* Concurrent maintenance of TVIEW rows (docs/adr/0207): transactions that *)
(* write what the same rows read, each refreshing the rows it finds from   *)
(* its own snapshots. A writer locks the values it changed before it looks *)
(* rows up, a refresh the values its rows read before it computes them,    *)
(* and the rows, or the keys of rows it will create.                       *)
(*                                                                         *)
(* tv_post shows, for each post, its authors' names, a comment and a       *)
(* setting. A rename reaches it by a mapping query, by a fan-out patch or  *)
(* through an embedded TVIEW, tv_user (way); where it fans out, the        *)
(* authors of a post are of a table each, a table joined twice having no   *)
(* fan-out. A session runs one transaction, a script of statements.        *)
(***************************************************************************)
EXTENDS Integers, FiniteSets, Sequences, SequencesExt

CONSTANTS
    Session,      \* backends
    User, Post,   \* primary keys
    Absent,       \* no row
    Old,          \* the name every source starts with
    None,         \* nobody, nothing
    Starts,       \* the users and posts there are at first
    Scripts,      \* the statements of each session
    Levels,       \* the isolation levels they run at
    Ways          \* how a rename reaches tv_post: mapping, fanout, embed

Conf == 0                             \* the setting, of a full_refresh table
Source == User \cup Post \cup {Conf}  \* a post's own source is its comment

\* A statement, on the post or source it writes; `to` are a post's authors.
StatementType ==
    {st \in [op : {"rename", "adduser", "insert", "repoint", "delete", "comment", "configure"},
             on : Source, to : SUBSET User] :
        CASE st.op \in {"rename", "adduser"} -> st.on \in User
          [] st.op = "configure" -> st.on = Conf
          [] OTHER -> st.on \in Post}

ASSUME KeyAssumption ==
    /\ User \cup Post \subseteq Nat \ {0} /\ User \cap Post = {}
    /\ None \notin Session

\* What a row of a post is.
Authors == (SUBSET User) \cup {Absent}

\* A name: none, the first, or that of the session that wrote it; and a row of
\* tv_post.
Name == {Absent, Old} \cup Session
Row == [by : SUBSET User, names : [Source -> Name]]

ASSUME MarkerAssumption ==
    /\ \A m \in Authors : m # None
    /\ None \notin Name
    /\ \A row \in Row : row # None /\ row # Absent

ASSUME ScriptAssumption ==
    /\ \A start \in Starts :
          /\ \A p \in Post : start.posts[p] \in Authors
          /\ \A x \in User : start.users[x] \in Name
    /\ \A sc \in Scripts : DOMAIN sc = Session /\ \A s \in Session : sc[s] \in Seq(StatementType)
    /\ \A l \in Levels : l \in [Session -> {"RC", "RR"}]
    /\ Ways \subseteq {"mapping", "fanout", "embed"}

\* Rows: the sources, the posts (their authors), and the two TVIEWs'.
Item == ({"source"} \X Source) \cup ({"post", "tv_post"} \X Post) \cup ({"tv_user"} \X User)

TvPost == {"tv_post"} \X Post
TvUser == {"tv_user"} \X User

VARIABLES
    store,     \* the committed rows
    writer,    \* the session that last committed each row
    own,       \* a session's uncommitted rows, None for those it did not write
    rowLock,   \* who holds each row's lock
    snapshot,  \* a REPEATABLE READ transaction's snapshot
    level,     \* its isolation level
    way,       \* how a rename reaches tv_post
    script,    \* the statements a session has still to run
    pc,        \* the step it is at
    work,      \* what the running statement has queued and found
    locks,     \* the value locks it holds
    need,      \* those it has to acquire before its next step
    rows,      \* the rows it has to lock before its next step
    links      \* links_changed

vars == <<store, writer, own, rowLock, snapshot, level, way, script, pc, work,
          locks, need, rows, links>>

-----------------------------------------------------------------------------
(* What statements see. *)

InSnapshot(s) == level[s] = "RR"

With(s, db) == [i \in Item |-> IF own[s][i] # None THEN own[s][i] ELSE db[i]]

\* The latest committed rows and its own.
Latest(s) == With(s, store)

\* What a statement starting now sees.
Seen(s) == IF InSnapshot(s) THEN With(s, snapshot[s].rows) ELSE Latest(s)

\* A row the snapshot shows and a transaction it does not see has changed.
ChangedSince(s, i) ==
    /\ InSnapshot(s)
    /\ writer[i] \notin snapshot[s].seen
    /\ snapshot[s].rows[i] # Absent

AuthorsIn(db, p) == IF db[<<"post", p>>] = Absent THEN {} ELSE db[<<"post", p>>]

\* v_post: the names of what the post reads.
PostRow(db, p) ==
    LET nameOf(x) ==
            IF x \in AuthorsIn(db, p)
            THEN IF way = "embed" THEN db[<<"tv_user", x>>] ELSE db[<<"source", x>>]
            ELSE IF x \in {p, Conf} THEN db[<<"source", x>>]
            ELSE Absent
    IN  IF db[<<"post", p>>] = Absent THEN Absent
        ELSE [by |-> AuthorsIn(db, p), names |-> [x \in Source |-> nameOf(x)]]

\* v_user and v_post.
ViewRow(db, i) == IF i[1] = "tv_user" THEN db[<<"source", i[2]>>] ELSE PostRow(db, i[2])

\* The posts the mapping query finds for user u.
Mapped(db, u) == {p \in Post : u \in AuthorsIn(db, p)}

\* The rows of tv_post whose lookup column holds u.
Embedding(db, u) ==
    {p \in Post : db[<<"tv_post", p>>] # Absent /\ u \in db[<<"tv_post", p>>].by}

-----------------------------------------------------------------------------
(* Locks. *)

IntentLock == -1
WholeLock == -2

\* A lock of a relation's values (or of the keys of rows being created).
L(side, space, what) == [side |-> side, space |-> space, what |-> what]

ValueLocks(side, space, K) ==
    IF K = {} THEN {} ELSE {L(side, space, x) : x \in K \cup {IntentLock}}

\* The conflicts of ValueLocks, an intent with the other side's whole.
Clash(k, l) ==
    /\ k.space = l.space
    /\ "writer" \in {k.side, l.side}
    /\ \/ k.what = l.what /\ k.what # IntentLock
       \/ {k.what, l.what} = {WholeLock, IntentLock}

Holders(s, l) == {t \in Session \ {s} : \E k \in locks[t] : Clash(k, l)}

\* The relation's lock before its values, these in order.
NextLock(s) == CHOOSE l \in need[s] : \A k \in need[s] : l.what <= k.what

\* Rows are locked in key order, but for a fan-out's.
NextRows(s) ==
    IF pc[s] = "fanned" THEN rows[s] ELSE {i \in rows[s] : \A j \in rows[s] : i[2] <= j[2]}

RowFree(s, i) == rowLock[i] \in {s, None}

\* Where names are locked: the users' table, or tv_user for its keys.
NameSpace == IF way = "embed" THEN "tv_user" ELSE "source"

KeySpace(tview) == IF tview = "tv_user" THEN "new_tv_user" ELSE "new_tv_post"

-----------------------------------------------------------------------------
(* Statements. *)

NoWork == [user |-> {}, post |-> {}, patched |-> {}, guards |-> {}, fan |-> {}, all |-> FALSE,
           target |-> {}, redo |-> {}, fresh |-> <<>>]

Statement(s) == Head(script[s])

Creates(s) == Statement(s).op \in {"insert", "adduser"}

\* The row a statement writes.
Written(s) ==
    IF Statement(s).op \in {"insert", "repoint", "delete"} THEN <<"post", Statement(s).on>>
    ELSE <<"source", Statement(s).on>>

\* A step with nothing left to lock.
Step(s, from, to) ==
    /\ pc[s] = from
    /\ need[s] = {}
    /\ rows[s] = {}
    /\ pc' = [pc EXCEPT ![s] = to]
    /\ UNCHANGED <<store, writer, snapshot, level, way>>

Locking(s, N, R) ==
    /\ need' = [need EXCEPT ![s] = N]
    /\ rows' = [rows EXCEPT ![s] = R]

Unwritten == UNCHANGED <<own, rowLock, script, locks, links>>

Worked(s, w) == work' = [work EXCEPT ![s] = w]

\* The rows there are at first, the TVIEWs filled from them.
Filled(start) ==
    LET base == [i \in Item |->
                   CASE i[1] = "source" /\ i[2] \notin User -> Old
                     [] i[1] \in {"source", "tv_user"} /\ i[2] \in User -> start.users[i[2]]
                     [] i[1] = "post" -> start.posts[i[2]]
                     [] OTHER -> Absent]
    IN  [i \in Item |-> IF i[1] = "tv_post" THEN PostRow(base, i[2]) ELSE base[i]]

Init ==
    /\ way \in Ways
    /\ \E start \in Starts : store = Filled(start)
    /\ writer = [i \in Item |-> None]
    /\ own = [s \in Session |-> [i \in Item |-> None]]
    /\ rowLock = [i \in Item |-> None]
    /\ snapshot = [s \in Session |-> None]
    /\ level \in Levels
    /\ script \in Scripts
    /\ pc = [s \in Session |-> "idle"]
    /\ work = [s \in Session |-> NoWork]
    /\ locks = [s \in Session |-> {}]
    /\ need = [s \in Session |-> {}]
    /\ rows = [s \in Session |-> {}]
    /\ links = [s \in Session |-> FALSE]

\* A statement starts, the first one with the transaction's snapshot.
Start(s) ==
    /\ pc[s] = "idle"
    /\ script[s] # <<>>
    /\ pc' = [pc EXCEPT ![s] = "write"]
    /\ Locking(s, {}, {Written(s)})
    /\ snapshot' = [snapshot EXCEPT
                      ![s] = IF @ # None \/ ~InSnapshot(s) THEN @
                             ELSE [rows |-> store,
                                   seen |-> {None} \cup {t \in Session : pc[t] = "committed"}]]
    /\ Unwritten
    /\ UNCHANGED <<store, writer, level, way, work>>

\* The next of the rows a statement waits for; one gone meanwhile is passed over.
LockRow(s) ==
    \E i \in NextRows(s) :
        /\ need[s] = {}
        /\ RowFree(s, i)
        /\ ~ChangedSince(s, i)
        /\ rowLock' = IF Latest(s)[i] # Absent \/ pc[s] = "write"
                      THEN [rowLock EXCEPT ![i] = s] ELSE rowLock
        /\ rows' = [rows EXCEPT ![s] = @ \ {i}]
        /\ UNCHANGED <<store, writer, own, snapshot, level, way, script, pc, work,
                       locks, need, links>>

\* The next lock, granted.
LockValue(s) ==
    /\ need[s] # {}
    /\ Holders(s, NextLock(s)) = {}
    /\ locks' = [locks EXCEPT ![s] = @ \cup {NextLock(s)}]
    /\ need' = [need EXCEPT ![s] = @ \ {NextLock(s)}]
    /\ UNCHANGED <<store, writer, own, rowLock, snapshot, level, way, script, pc, work,
                   rows, links>>

\* The value a statement writes to its row.
NewValue(s) ==
    CASE Statement(s).op \in {"insert", "repoint"} -> Statement(s).to
      [] Statement(s).op = "delete" -> Absent
      [] OTHER -> s

\* What the trigger locks before any query finds rows by what was written
\* (lock_changed_rows): a user's name, where a query maps it to posts.
ChangedValues(s) ==
    IF Statement(s).op \in {"rename", "adduser"} /\ way # "embed"
    THEN ValueLocks("writer", "source", {Statement(s).on}) ELSE {}

\* note_write: an insert, a delete or a change of a post's authors.
ChangesLink(s) == Statement(s).op \in {"insert", "delete", "repoint", "adduser"}

\* The row is there to write: for an insert, it is not.
Writable(s) ==
    IF Creates(s) THEN Latest(s)[Written(s)] = Absent
    ELSE Latest(s)[Written(s)] # Absent /\ Seen(s)[Written(s)] # Absent

\* The statement writes its row, and its trigger starts.
Write(s) ==
    /\ Step(s, "write", "find")
    /\ Writable(s)
    /\ own' = [own EXCEPT ![s][Written(s)] = NewValue(s)]
    /\ rowLock' = [rowLock EXCEPT ![Written(s)] = s]
    /\ links' = [links EXCEPT ![s] = @ \/ ChangesLink(s)]
    /\ Locking(s, ChangedValues(s), {})
    /\ Worked(s, NoWork)
    /\ UNCHANGED <<script, locks>>

\* An update or delete of a row that is gone.
WriteNothing(s) ==
    /\ Step(s, "write", "idle")
    /\ ~Writable(s) /\ ~Creates(s)
    /\ script' = [script EXCEPT ![s] = Tail(@)]
    /\ UNCHANGED <<own, rowLock, locks, links, work, need, rows>>

\* The posts the trigger's mapping query returns on db.
Found(s, db) ==
    IF way # "embed" /\ Statement(s).op \in {"rename", "adduser"}
    THEN Mapped(db, Statement(s).on) ELSE {}

\* The trigger queues what the statement changed.
Queued(s) ==
    LET st == Statement(s)
        u == st.on
    IN  CASE st.op = "configure" -> [NoWork EXCEPT !.all = TRUE]
          [] st.op = "rename" /\ way = "fanout" -> [NoWork EXCEPT !.fan = {u}]
          [] st.op = "rename" /\ way = "embed" ->
                 [NoWork EXCEPT !.user = {u}, !.patched = {<<"tv_user", u>>}]
          [] st.op = "adduser" /\ way = "embed" -> [NoWork EXCEPT !.user = {u}]
          [] (st.op = "rename" /\ way = "mapping") \/ (st.op = "adduser" /\ way # "embed") ->
                 [NoWork EXCEPT !.post = Found(s, Seen(s))]
          [] OTHER -> [NoWork EXCEPT !.post = {u}]

-----------------------------------------------------------------------------
(* The flush at the end of the statement. *)

\* REPEATABLE READ: what the step finds or wrote is not what the latest
\* snapshot shows, or a row in its way is newer than the transaction's.
Refused(s) ==
    LET w == work[s]
        st == Statement(s)
        now == Latest(s)
        seen == Seen(s)
    IN  /\ InSnapshot(s)
        /\ CASE pc[s] = "find" ->
                  ~(st.op = "rename" /\ way = "fanout") /\ ~(Found(s, now) \subseteq Found(s, seen))
             [] pc[s] = "fanned" -> ~(Embedding(now, st.on) \subseteq Embedding(seen, st.on))
             [] pc[s] = "lookup" -> ~(Embedding(now, st.on) \subseteq Embedding(seen, st.on))
             [] pc[s] = "upsert" -> \E i \in w.redo : seen[i] = Absent /\ now[i] # Absent
             [] pc[s] = "check" -> \E i \in w.target : ViewRow(seen, i) # ViewRow(now, i)
             [] OTHER -> FALSE

Find(s) ==
    /\ Step(s, "find", "flush")
    /\ ~Refused(s)
    /\ Worked(s, Queued(s))
    /\ Unwritten
    /\ UNCHANGED <<need, rows>>

\* The statement's refresh is over.
FlushDone(s) ==
    /\ Step(s, "flush", "idle")
    /\ LET w == work[s] IN w.fan = {} /\ w.user = {} /\ w.post = {} /\ ~w.all
    /\ script' = [script EXCEPT ![s] = Tail(@)]
    /\ Worked(s, NoWork)
    /\ UNCHANGED <<own, rowLock, locks, links, need, rows>>

\* apply_fanouts: one UPDATE of the rows whose lookup column holds the key.
Fanout(s) ==
    /\ Step(s, "flush", "fanned")
    /\ work[s].fan # {}
    /\ LET R == {"tv_post"} \X Embedding(Seen(s), Statement(s).on)
       IN  Locking(s, {}, R) /\ Worked(s, [work[s] EXCEPT !.target = R])
    /\ Unwritten

\* A name patched into a row.
PatchedRow(s, i, us) ==
    IF i[1] = "tv_user" THEN s
    ELSE [Latest(s)[i] EXCEPT !.names = [x \in Source |-> IF x \in us THEN s ELSE @[x]]]

\* Each row found as last committed, if it still holds the key.
FannedOut(s) ==
    LET u == Statement(s).on
        hit == {i \in work[s].target : rowLock[i] = s /\ i[2] \in Embedding(Latest(s), u)}
    IN  /\ Step(s, "fanned", "flush")
        /\ ~Refused(s)
        /\ own' = [own EXCEPT ![s] = [i \in Item |-> IF i \in hit THEN PatchedRow(s, i, {u}) ELSE @[i]]]
        /\ Worked(s, [work[s] EXCEPT !.fan = {}, !.target = {}])
        /\ UNCHANGED <<rowLock, script, locks, links, need, rows>>

\* refresh_all: the TVIEW, then all it reads, locked whole.
RefreshAll(s) ==
    /\ Step(s, "flush", "whole")
    /\ work[s].all
    /\ Locking(s, {L("writer", "tv_post", WholeLock)}, {})
    /\ UNCHANGED work
    /\ Unwritten

Reconcile(s) ==
    /\ Step(s, "whole", "compute")
    /\ Locking(s, {L("refresh", NameSpace, WholeLock)}, {})
    /\ LET R == {"tv_post"} \X Post IN Worked(s, [work[s] EXCEPT !.target = R, !.redo = R])
    /\ Unwritten

\* The keys of the next pass: users before posts.
NextPass(s) ==
    IF work[s].user # {} THEN {"tv_user"} \X work[s].user ELSE {"tv_post"} \X work[s].post

TviewOf(R) == IF \E i \in R : i[1] = "tv_user" THEN "tv_user" ELSE "tv_post"

\* lock_read_set takes the TVIEW's intent lock.
ApplyKeys(s) ==
    /\ Step(s, "flush", "reads")
    /\ work[s].fan = {} /\ NextPass(s) # {}
    /\ Locking(s, {L("refresh", TviewOf(NextPass(s)), IntentLock)}, {})
    /\ Worked(s, [work[s] EXCEPT !.target = NextPass(s)])
    /\ Unwritten

\* Broken variant: a refresh locks nothing of what it reads.
ReadValuesNone(s) == {}

\* Broken variant: whether or not the transaction changed a link.
ReadValuesAlways(s) ==
    UNION {AuthorsIn(Seen(s), i[2]) : i \in {j \in work[s].target : j[1] = "tv_post"}}

\* The names the rows read, once the transaction changed a link.
ReadValues(s) ==
    IF ~links[s] THEN {}
    ELSE UNION {AuthorsIn(Seen(s), i[2]) : i \in {j \in work[s].target : j[1] = "tv_post"}}

LockReads(s) ==
    /\ Step(s, "reads", "order")
    /\ Locking(s, ValueLocks("refresh", NameSpace, ReadValues(s)), {})
    /\ UNCHANGED work
    /\ Unwritten

Existing(s, R) == {i \in R : Seen(s)[i] # Absent}

\* check_patches: the rows of a pass that patches, in key order.
LockOrder(s) ==
    LET w == work[s]
        lock == w.patched \cap w.target # {} /\ (Cardinality(w.target) > 1 \/ w.guards # {})
    IN  /\ Step(s, "order", "guard")
        /\ Locking(s, {}, IF lock THEN Existing(s, w.target) ELSE {})
        /\ UNCHANGED work
        /\ Unwritten

GuardsOf(s, i) == {g[1] : g \in {h \in work[s].guards : h[2] = i}}

\* The rows patched for a user they no longer embed.
Moved(s) ==
    {i \in work[s].patched \cap work[s].target :
        rowLock[i] = s /\ i[1] = "tv_post" /\ ~(GuardsOf(s, i) \subseteq Latest(s)[i].by)}

\* The patches left, one UPDATE.
Guard(s) ==
    LET kept == (work[s].patched \cap work[s].target) \ Moved(s)
    IN  /\ Step(s, "guard", "patch")
        /\ Locking(s, {}, Existing(s, kept))
        /\ Worked(s, [work[s] EXCEPT !.patched = kept])
        /\ Unwritten

\* lock_rows, its first statement: the rows found, but in a snapshot.
FirstRows(s, R) == IF InSnapshot(s) THEN {} ELSE Existing(s, R)

\* The patched rows are written, the others, and those not there, recomputed.
Patch(s) ==
    LET w == work[s]
        hit == {i \in w.patched : rowLock[i] = s /\ Latest(s)[i] # Absent}
        redo == w.target \ hit
    IN  /\ Step(s, "patch", IF redo = {} THEN "check" ELSE "keys")
        /\ own' = [own EXCEPT ![s] =
                     [i \in Item |-> IF i \in hit THEN PatchedRow(s, i, GuardsOf(s, i)) ELSE @[i]]]
        /\ Locking(s, {}, FirstRows(s, redo))
        /\ Worked(s, [w EXCEPT !.redo = redo])
        /\ UNCHANGED <<rowLock, script, locks, links>>

\* lock_rows: the keys of those it does not hold.
LockKeys(s) ==
    LET held == {i \in work[s].redo : IF InSnapshot(s) THEN Seen(s)[i] # Absent
                                      ELSE rowLock[i] = s /\ Latest(s)[i] # Absent}
        missing == {i[2] : i \in work[s].redo \ held}
    IN  /\ Step(s, "keys", "created")
        /\ Locking(s, ValueLocks("writer", KeySpace(TviewOf(work[s].redo)), missing), {})
        /\ UNCHANGED work
        /\ Unwritten

\* Broken variant: the rows created in between are not looked for.
CreatedRowsNone(s) == {}

\* lock_rows: the rows of those keys created in between.
CreatedRows(s) == {i \in FirstRows(s, work[s].redo) : rowLock[i] # s}

LockCreated(s) ==
    /\ Step(s, "created", "compute")
    /\ Locking(s, {}, CreatedRows(s))
    /\ UNCHANGED work
    /\ Unwritten

\* The upsert reads the view, and waits for whoever holds a row of it.
Compute(s) ==
    /\ Step(s, "compute", "upsert")
    /\ Worked(s, [work[s] EXCEPT !.fresh = [i \in work[s].redo |-> ViewRow(Seen(s), i)]])
    /\ Locking(s, {}, work[s].redo)
    /\ Unwritten

HoldsKey(s, i) == L("writer", KeySpace(i[1]), i[2]) \in locks[s]

\* A row created without its key lock.
Unlocked(s) ==
    {i \in work[s].redo : /\ ~work[s].all
                          /\ Latest(s)[i] = Absent
                          /\ work[s].fresh[i] # Absent
                          /\ ~HoldsKey(s, i)}

LockedByUpsert(s) == [i \in Item |-> IF i \in work[s].redo THEN s ELSE rowLock[i]]

\* It writes the rows that differ.
Upsert(s) ==
    LET w == work[s]
        changed == {i \in w.redo : Latest(s)[i] # w.fresh[i]}
    IN  /\ Step(s, "upsert", "check")
        /\ ~Refused(s) /\ Unlocked(s) = {}
        /\ own' = [own EXCEPT ![s] = [i \in Item |-> IF i \in changed THEN w.fresh[i] ELSE @[i]]]
        /\ rowLock' = LockedByUpsert(s)
        /\ Worked(s, [w EXCEPT !.redo = {}, !.fresh = <<>>])
        /\ UNCHANGED <<script, locks, links, need, rows>>

\* The rows are what the latest snapshot computes. The keys of users go
\* locked before the posts embedding them are looked up.
Check(s) ==
    LET w == work[s]
        users == TviewOf(w.target) = "tv_user"
    IN  /\ Step(s, "check", IF users THEN "lookup" ELSE "flush")
        /\ ~Refused(s)
        /\ Locking(s, IF users THEN ValueLocks("writer", "tv_user", w.user) ELSE {}, {})
        /\ Worked(s, IF users THEN w ELSE NoWork)
        /\ Unwritten

\* find_parents_batch: in tv_post, for a user that appeared in its view too.
Lookup(s) ==
    LET w == work[s]
        u == Statement(s).on
        derived == Statement(s).op = "rename" /\ w.patched # {}
        found == Embedding(Seen(s), u) \cup (IF derived THEN {} ELSE Mapped(Seen(s), u))
        parents == {"tv_post"} \X found
    IN  /\ Step(s, "lookup", "flush")
        /\ ~Refused(s)
        /\ Worked(s, [w EXCEPT !.user = {}, !.target = {}, !.post = @ \cup found,
                               !.patched = IF derived THEN parents ELSE {},
                               !.guards = IF derived THEN {u} \X parents ELSE {}])
        /\ Unwritten
        /\ UNCHANGED <<need, rows>>

-----------------------------------------------------------------------------
(* The end of the transaction. *)

\* What s wrote is committed or gone, its locks free.
End(s, how) ==
    /\ pc' = [pc EXCEPT ![s] = how]
    /\ own' = [own EXCEPT ![s] = [i \in Item |-> None]]
    /\ rowLock' = [i \in Item |-> IF rowLock[i] = s THEN None ELSE rowLock[i]]
    /\ locks' = [locks EXCEPT ![s] = {}]
    /\ links' = [links EXCEPT ![s] = FALSE]
    /\ script' = [script EXCEPT ![s] = <<>>]
    /\ snapshot' = [snapshot EXCEPT ![s] = None]
    /\ Worked(s, NoWork)
    /\ Locking(s, {}, {})
    /\ UNCHANGED <<level, way>>

Commit(s) ==
    /\ pc[s] = "idle"
    /\ script[s] = <<>>
    /\ store' = Latest(s)
    /\ writer' = [i \in Item |-> IF own[s][i] # None THEN s ELSE writer[i]]
    /\ End(s, "committed")

Fail(s) == End(s, "failed") /\ UNCHANGED <<store, writer>>

Ready(s) == need[s] = {} /\ rows[s] = {}

\* 40001: a lock held elsewhere, a row changed since, a cross-check; or a
\* duplicate key.
SerializationFailure(s) ==
    /\ \/ need[s] # {} /\ InSnapshot(s) /\ Holders(s, NextLock(s)) # {}
       \/ need[s] = {} /\ \E i \in NextRows(s) : RowFree(s, i) /\ ChangedSince(s, i)
       \/ Ready(s) /\ pc[s] # "idle" /\ script[s] # <<>> /\ Refused(s)
       \/ Ready(s) /\ pc[s] = "upsert" /\ InSnapshot(s) /\ Unlocked(s) # {}
       \/ Ready(s) /\ pc[s] = "write" /\ Creates(s) /\ ~Writable(s)
    /\ Fail(s)

WaitsFor(s) ==
    IF need[s] # {} THEN IF InSnapshot(s) THEN {} ELSE Holders(s, NextLock(s))
    ELSE IF \E i \in NextRows(s) : RowFree(s, i) THEN {}
    ELSE {rowLock[i] : i \in NextRows(s)}

\* Those it waits for through others, itself when it is on a cycle: the least
\* set that holds those it waits for, and those they do.
Ahead(s) ==
    {t \in Session :
        \A S \in SUBSET Session :
            (\A u \in {s} \cup S : WaitsFor(u) \subseteq S) => t \in S}

Deadlocked(s) == s \in Ahead(s)

DetectDeadlock(s) == Deadlocked(s) /\ Fail(s)

Done == \A s \in Session : pc[s] \in {"committed", "failed"}

SessionStep(s) ==
    \/ Start(s) \/ LockRow(s) \/ LockValue(s) \/ Write(s) \/ WriteNothing(s) \/ Find(s)
    \/ FlushDone(s) \/ Fanout(s) \/ FannedOut(s) \/ RefreshAll(s) \/ Reconcile(s)
    \/ ApplyKeys(s) \/ LockReads(s) \/ LockOrder(s) \/ Guard(s) \/ Patch(s)
    \/ LockKeys(s) \/ LockCreated(s) \/ Compute(s) \/ Upsert(s) \/ Check(s) \/ Lookup(s)
    \/ Commit(s) \/ SerializationFailure(s) \/ DetectDeadlock(s)

Next == (\E s \in Session : SessionStep(s)) \/ (Done /\ UNCHANGED vars)

Spec == Init /\ [][Next]_vars

-----------------------------------------------------------------------------
(* Properties. *)

Steps ==
    {"idle", "write", "find", "flush", "fanned", "whole", "reads", "order", "guard", "patch",
     "keys", "created", "compute", "upsert", "check", "lookup", "committed", "failed"}

LockType ==
    [side : {"refresh", "writer"}, what : Source \cup {IntentLock, WholeLock},
     space : {"source", "tv_user", "tv_post", "new_tv_user", "new_tv_post"}]

\* The work of a statement; what it computes, and the guards, are data.
WorkOK(w) ==
    w \in [user : SUBSET User, post : SUBSET Post, patched : SUBSET (TvPost \cup TvUser), guards : {w.guards},
           fan : SUBSET User, all : BOOLEAN, target : SUBSET Item, redo : SUBSET Item,
           fresh : {w.fresh}]

\* The types of the variables; a row is data, but for the authors of a post.
TypeOK ==
    /\ DOMAIN store = Item /\ \A p \in Post : store[<<"post", p>>] \in Authors
    /\ writer \in [Item -> Session \cup {None}]
    /\ DOMAIN own = Session
    /\ \A s \in Session :
         DOMAIN own[s] = Item /\ \A p \in Post : own[s][<<"post", p>>] \in Authors \cup {None}
    /\ rowLock \in [Item -> Session \cup {None}]
    /\ DOMAIN snapshot = Session
    /\ level \in [Session -> {"RC", "RR"}]
    /\ way \in {"mapping", "fanout", "embed"}
    /\ DOMAIN script = Session /\ \A s \in Session : script[s] \in Seq(StatementType)
    /\ pc \in [Session -> Steps]
    /\ DOMAIN work = Session /\ \A s \in Session : WorkOK(work[s])
    /\ locks \in [Session -> SUBSET LockType]
    /\ need \in [Session -> SUBSET LockType]
    /\ rows \in [Session -> SUBSET Item]
    /\ links \in [Session -> BOOLEAN]

\* Whatever the transactions write at once, and in whatever order their steps
\* interleave, the committed rows of the TVIEWs are those their views compute
\* from the committed base tables, after every commit.
CommittedIsFresh ==
    \A i \in TvPost \cup (IF way = "embed" THEN TvUser ELSE {}) : store[i] = ViewRow(store, i)

\* A refresh at READ COMMITTED waits before it reads the view, never inside the
\* upsert that writes what it read: the rows there are locked by then, and the
\* keys of those it creates.
ComputedRowsAreLocked ==
    \A s \in Session : pc[s] = "upsert" /\ ~InSnapshot(s) /\ ~work[s].all =>
        /\ Unlocked(s) = {}
        /\ \A i \in work[s].redo : Latest(s)[i] # Absent => rowLock[i] = s

\* A session waits for a row that came after it first locked those of its pass, in
\* key order; or, where it patches, for one below a row it has locked.
Late(s) ==
    \/ pc[s] = "compute"
    \/ /\ way = "embed" /\ pc[s] \in {"patch", "keys"}
       /\ \E i \in NextRows(s), j \in work[s].target : rowLock[j] = s /\ i[2] < j[2]

\* Transactions of one statement that changes no link, each mapped or patched
\* into the rows it reaches by key, never wait for each other in a cycle (#263),
\* but for a row waited for out of order: a cycle has in it a change of links, of
\* the whole TVIEW, or such a wait. A fan-out's UPDATE takes its rows in the order
\* its plan finds them.
ValueWritesDoNotDeadlock ==
    \A s \in Session : way # "fanout" /\ Deadlocked(s) =>
        \E t \in Ahead(s) : s \in Ahead(t) /\ (links[t] \/ work[t].all \/ Late(t))
=============================================================================
