------------------------- MODULE RefreshLocksProofs -------------------------
(***************************************************************************)
(* Theorems about RefreshLocks, for any sessions, keys, scripts and        *)
(* isolation levels: its types; that the locks held never conflict; that a *)
(* refresh at READ COMMITTED has locked the rows it computed, and the keys *)
(* of those it creates, when its upsert starts; and that transactions of   *)
(* one statement that change no link do not wait in a cycle.               *)
(***************************************************************************)
EXTENDS RefreshLocks, WellFoundedInduction, SequenceTheorems, TLAPS

-----------------------------------------------------------------------------
(* The inductive invariant. *)

Tv == TvPost \cup TvUser

\* The lock of a row's key, taken before it is created; the intent lock of its
\* TVIEW a refresh takes first; tv_post's whole.
KeyLock(i) == L("writer", KeySpace(i[1]), i[2])
Intent(i) == L("refresh", i[1], IntentLock)
Whole == L("writer", "tv_post", WholeLock)

\* Whoever holds these is alone to create row i.
MayCreate(s, i) ==
    \/ KeyLock(i) \in locks[s] /\ Intent(i) \in locks[s]
    \/ Whole \in locks[s] /\ i \in TvPost

\* No two sessions hold locks that conflict.
NoClash ==
    \A s, t \in Session : s # t => \A k \in locks[s], l \in locks[t] : ~Clash(k, l)

\* A row that is not there is locked only by whoever may create it.
Creators ==
    \A s \in Session, i \in Tv : rowLock[i] = s /\ store[i] = Absent => MayCreate(s, i)

Ended == {"committed", "failed"}

\* A statement runs from its write to the end of its refresh.
Scripted(s) ==
    /\ pc[s] \notin {"idle"} \cup Ended => script[s] # <<>>
    /\ pc[s] \in Ended => need[s] = {} /\ rows[s] = {} /\ script[s] = <<>>
    /\ pc[s] = "write" => rows[s] \subseteq {Written(s)} /\ (rows[s] = {} => rowLock[Written(s)] = s)

\* What a session writes it has locked.
OwnsWritten(s) == \A i \in Item : own[s][i] # None => rowLock[i] = s

\* What is refreshed at once is rows of one TVIEW.
OneTview(s) ==
    LET w == work[s]
    IN  /\ w.target \subseteq TvUser \/ w.target \subseteq TvPost
        /\ w.redo \subseteq w.target
        /\ pc[s] \notin {"keys", "created", "compute", "upsert"} => w.redo = {}
        /\ w.all => w.user = {} /\ w.post = {} /\ w.fan = {} /\ w.target \subseteq TvPost
        /\ pc[s] \in {"reads", "order", "guard", "patch", "keys", "created", "lookup"} => ~w.all
        /\ pc[s] = "whole" => w.all

\* The TVIEW is locked first, its intent or whole.
Intends(s) ==
    /\ pc[s] = "reads" => \A i \in work[s].target : Intent(i) \in need[s] \cup locks[s]
    /\ pc[s] \in {"order", "guard", "patch", "keys", "created", "compute", "upsert"} /\ ~work[s].all
         => \A i \in work[s].target : Intent(i) \in locks[s]
    /\ pc[s] = "whole" => Whole \in need[s] \cup locks[s]
    /\ pc[s] \in {"compute", "upsert"} /\ work[s].all => Whole \in locks[s]

KeyLocked(s, i) == KeyLock(i) \in locks[s] \/ (pc[s] = "created" /\ KeyLock(i) \in need[s])

\* A row to recompute is locked, or its key is; in a snapshot that shows it, it
\* is locked by the upsert.
Keyed(s) ==
    pc[s] \in {"created", "compute", "upsert"} /\ ~work[s].all =>
        \A i \in work[s].redo :
            \/ KeyLocked(s, i)
            \/ rowLock[i] = s /\ (InSnapshot(s) \/ Latest(s)[i] # Absent)
            \/ /\ InSnapshot(s) /\ own[s][i] = None /\ snapshot[s].rows[i] # Absent
               /\ pc[s] = "upsert" => i \in rows[s]

\* A row that is there to recompute is locked, or waited for.
RowsLocked(s) ==
    LET before == ~InSnapshot(s) /\ ~work[s].all
        there == {i \in work[s].redo : Latest(s)[i] # Absent /\ rowLock[i] # s}
    IN  /\ pc[s] = "compute" /\ before => there \subseteq rows[s]
        /\ pc[s] = "upsert" => there \subseteq rows[s]
        /\ pc[s] = "upsert" /\ before => there = {}

\* What a snapshot does not see committed later.
SnapshotOf(s) ==
    LET sn == snapshot[s]
    IN  /\ \A t \in Session : t \in sn.seen => pc[t] = "committed"
        /\ \A i \in Item : writer[i] \in sn.seen => store[i] = sn.rows[i]
        /\ \A p \in Post : sn.rows[<<"post", p>>] \in Authors

Snapped(s) ==
    snapshot[s] # None \/ (InSnapshot(s) /\ pc[s] \notin {"idle"} \cup Ended) => SnapshotOf(s)

SessionInv(s) ==
    /\ Scripted(s) /\ OwnsWritten(s) /\ OneTview(s) /\ Intends(s)
    /\ Keyed(s) /\ RowsLocked(s) /\ Snapped(s)

IInv == TypeOK /\ NoClash /\ Creators /\ \A s \in Session : SessionInv(s)

-----------------------------------------------------------------------------
(* Constants and locks. *)

LEMMA Apart ==
    /\ \A x \in Source : x \in Nat /\ x # IntentLock /\ x # WholeLock
    /\ IntentLock # WholeLock /\ None \notin Session
    BY KeyAssumption DEF Source, Conf, IntentLock, WholeLock

LEMMA Kinds ==
    /\ \A i \in TvPost : i \in Item /\ i[1] = "tv_post" /\ i[2] \in Post /\ i = <<"tv_post", i[2]>>
    /\ \A i \in TvUser : i \in Item /\ i[1] = "tv_user" /\ i[2] \in User /\ i = <<"tv_user", i[2]>>
    /\ \A x \in Source : <<"source", x>> \in Item \ Tv
    /\ \A x \in Post : <<"post", x>> \in Item \ Tv
    BY DEF TvPost, TvUser, Item, Tv

\* The row a statement writes is not of a TVIEW.
LEMMA WrittenType ==
    ASSUME NEW s, script[s] \in Seq(StatementType), script[s] # <<>>
    PROVE  /\ Statement(s) \in StatementType
           /\ Written(s) \in Item \ Tv
<1>1. Statement(s) \in StatementType
    BY DEF Statement
<1> DEFINE st == Statement(s)
<1>2. /\ st.on \in Source
      /\ st.op \in {"insert", "repoint", "delete"} => st.on \in Post
    BY <1>1 DEF StatementType
<1> QED
    BY <1>1, <1>2, Kinds DEF Written

\* The TVIEW of rows of one.
LEMMA TviewIs ==
    ASSUME NEW R, R \subseteq TvUser \/ R \subseteq TvPost
    PROVE  \A i \in R : TviewOf(R) = i[1]
    BY Kinds DEF TviewOf

LEMMA ValueLockTypes ==
    ASSUME NEW side \in {"refresh", "writer"},
           NEW space \in {"source", "tv_user", "tv_post", "new_tv_user", "new_tv_post"},
           NEW K \in SUBSET Source
    PROVE  ValueLocks(side, space, K) \subseteq LockType
<1>1. \A x \in K \cup {IntentLock} : L(side, space, x) \in LockType
    BY DEF L, LockType
<1> QED
    BY <1>1 DEF ValueLocks

LEMMA LockTypes ==
    /\ \A i \in Tv : KeyLock(i) \in LockType /\ Intent(i) \in LockType
    /\ Whole \in LockType
    BY Kinds DEF KeyLock, Intent, Whole, L, LockType, KeySpace, Tv, Source

LEMMA ClashSymmetric == \A k, l : Clash(k, l) <=> Clash(l, k)
    BY DEF Clash

\* Two sessions may not both create a row.
LEMMA OneCreator ==
    ASSUME NoClash, NEW s \in Session, NEW t \in Session, s # t, NEW i \in Tv,
           MayCreate(s, i), MayCreate(t, i)
    PROVE  FALSE
<1>1. i[1] \in {"tv_user", "tv_post"} /\ i[2] \in Source /\ (i \in TvPost => i[1] = "tv_post")
    BY Kinds DEF Tv, Source
<1>2. Clash(KeyLock(i), KeyLock(i))
    BY <1>1, Apart DEF Clash, KeyLock, L
<1>3. i \in TvPost => Clash(Whole, Intent(i)) /\ Clash(Intent(i), Whole) /\ Clash(Whole, Whole)
    BY <1>1, Apart DEF Clash, Whole, Intent, L
<1> QED
    BY <1>2, <1>3 DEF MayCreate, NoClash

-----------------------------------------------------------------------------
(* A step of one session. *)

\* What the others keep.
Alone(s) ==
    /\ level' = level
    /\ \A u \in Session \ {s} :
         /\ pc'[u] = pc[u] /\ need'[u] = need[u] /\ rows'[u] = rows[u] /\ work'[u] = work[u]
         /\ locks'[u] = locks[u] /\ own'[u] = own[u] /\ script'[u] = script[u]
         /\ snapshot'[u] = snapshot[u]
         /\ \A i \in Item : rowLock'[i] = u <=> rowLock[i] = u

\* What is committed changes in rows s has locked; a row comes to be where s
\* may create it.
LEMMA OthersKeep ==
    ASSUME IInv, NEW s \in Session, Alone(s),
           \A i \in Item : store'[i] # store[i] => rowLock[i] = s,
           \A i \in Item : (store'[i] = store[i] /\ writer'[i] = writer[i]) \/ writer'[i] = s,
           pc[s] # "committed", NEW u \in Session \ {s}
    PROVE  SessionInv(u)'
<1>0. TypeOK /\ SessionInv(u) /\ u \in Session /\ NoClash /\ Creators
    BY DEF IInv
<1>1. Scripted(u)'
    <2>1. Written(u)' = Written(u)
        BY DEF Alone, Written, Statement
    <2>2. CASE script[u] = <<>>
        BY <1>0, <2>2 DEF SessionInv, Scripted, Alone, Ended
    <2>3. CASE script[u] # <<>>
        <3>1. Written(u) \in Item
            BY <1>0, <2>3, WrittenType DEF TypeOK
        <3>2. rowLock'[Written(u)] = u <=> rowLock[Written(u)] = u
            BY <3>1 DEF Alone
        <3> QED
            BY <1>0, <2>1, <3>2 DEF SessionInv, Scripted, Alone
    <2> QED
        BY <2>2, <2>3
<1>2. OwnsWritten(u)'
    BY <1>0 DEF SessionInv, OwnsWritten, Alone
<1>3. OneTview(u)' /\ Intends(u)'
    BY <1>0 DEF SessionInv, OneTview, Intends, Alone
<1>4. \A i \in Item : rowLock[i] = u => store'[i] = store[i]
    BY DEF TypeOK
<1>5. ASSUME NEW i \in Item
      PROVE  Latest(u)'[i] = IF own[u][i] # None THEN own[u][i] ELSE store'[i]
    BY DEF Latest, With, Alone
<1>6. ASSUME NEW i \in Item
      PROVE  Latest(u)[i] = IF own[u][i] # None THEN own[u][i] ELSE store[i]
    BY DEF Latest, With
<1>7. work[u].redo \subseteq Tv /\ Tv \subseteq Item /\ InSnapshot(u)' = InSnapshot(u)
    BY <1>0, Kinds DEF SessionInv, OneTview, Tv, InSnapshot, Alone
<1>8. Keyed(u)'
    <2>1. \A i \in work[u].redo : KeyLocked(u, i)' <=> KeyLocked(u, i)
        BY DEF KeyLocked, Alone
    <2>2. \A i \in work[u].redo :
            rowLock[i] = u => rowLock'[i] = u /\ Latest(u)'[i] = Latest(u)[i]
        BY <1>4, <1>5, <1>6, <1>7 DEF Alone
    <2> QED
        BY <1>0, <1>7, <2>1, <2>2 DEF SessionInv, Keyed, Alone
<1>9. ASSUME NEW i \in work[u].redo, pc[u] \in {"compute", "upsert"},
             (pc[u] = "compute" /\ ~InSnapshot(u) /\ ~work[u].all) \/ pc[u] = "upsert",
             Latest(u)'[i] # Absent, rowLock'[i] # u
      PROVE  \/ Latest(u)[i] # Absent /\ rowLock[i] # u
             \/ i \in rows[u] /\ InSnapshot(u) /\ ~work[u].all
    <2> SUFFICES ASSUME Latest(u)[i] = Absent, ~(i \in rows[u] /\ InSnapshot(u) /\ ~work[u].all)
                 PROVE  FALSE
        BY <1>7, <1>9 DEF Alone
    <2>1. i \in Item /\ i \in Tv /\ rowLock[i] # u
        BY <1>7, <1>9 DEF Alone
    <2>2. rowLock[i] = s /\ store[i] = Absent
        BY <1>5, <1>6, <1>9, <2>1
    <2>3. MayCreate(s, i)
        BY <1>0, <2>1, <2>2 DEF Creators
    <2>4. MayCreate(u, i)
        <3>1. CASE work[u].all
            BY <1>0, <1>9, <3>1 DEF SessionInv, OneTview, Intends, MayCreate
        <3>2. CASE ~work[u].all
            <4>1. KeyLock(i) \in locks[u]
                BY <1>0, <1>9, <2>1, <3>2 DEF SessionInv, Keyed, KeyLocked
            <4>2. Intent(i) \in locks[u]
                BY <1>0, <1>9, <3>2 DEF SessionInv, OneTview, Intends
            <4> QED
                BY <4>1, <4>2 DEF MayCreate
        <3> QED
            BY <3>1, <3>2
    <2> QED
        BY <1>0, <2>1, <2>3, <2>4, OneCreator
<1>10. RowsLocked(u)'
    <2>1. pc'[u] = pc[u] /\ rows'[u] = rows[u] /\ work'[u] = work[u]
        BY DEF Alone
    <2>2. RowsLocked(u)
        BY <1>0 DEF SessionInv
    <2> QED
        BY <1>7, <1>9, <2>1, <2>2 DEF RowsLocked
<1>11. Snapped(u)'
    <2>1. \A t \in Session : t \in snapshot[u].seen /\ SnapshotOf(u) => t # s /\ pc'[t] = "committed"
        BY DEF SnapshotOf, Alone
    <2> QED
        BY <1>0, <2>1 DEF SessionInv, Snapped, SnapshotOf, Alone, InSnapshot
<1> QED
    BY <1>1, <1>2, <1>3, <1>8, <1>10, <1>11 DEF SessionInv

\* A step of s that leaves it and what it shares in order.
LEMMA Concludes ==
    ASSUME IInv, NEW s \in Session, Alone(s),
           \A i \in Item : store'[i] # store[i] => rowLock[i] = s,
           \A i \in Item : (store'[i] = store[i] /\ writer'[i] = writer[i]) \/ writer'[i] = s,
           pc[s] # "committed", TypeOK', NoClash', Creators', SessionInv(s)'
    PROVE  IInv'
    BY OthersKeep DEF IInv

\* What s wrote, in rows it has locked.
Owned(s) ==
    /\ DOMAIN own' = Session /\ DOMAIN own'[s] = Item
    /\ \A u \in Session \ {s} : own'[u] = own[u]
    /\ \A p \in Post : own'[s][<<"post", p>>] \in Authors \cup {None}
    /\ \A i \in Item : own'[s][i] # None => rowLock[i] = s

\* Its next step, with what it waits for and the work it has found.
Turned(s, to, N, R, w) ==
    /\ pc' = [pc EXCEPT ![s] = to]
    /\ need' = [need EXCEPT ![s] = N] /\ rows' = [rows EXCEPT ![s] = R]
    /\ DOMAIN work' = Session /\ work'[s] = w /\ \A u \in Session \ {s} : work'[u] = work[u]

\* A step within a statement, that takes no lock.
LEMMA WorkStep ==
    ASSUME IInv, NEW s \in Session, pc[s] \notin {"idle"} \cup Ended,
           NEW to \in Steps \ ({"idle", "write"} \cup Ended),
           NEW N \in SUBSET LockType, NEW R \in SUBSET Item, NEW w, WorkOK(w),
           Turned(s, to, N, R, w), Owned(s),
           UNCHANGED <<store, writer, snapshot, level, way, rowLock, script, locks>>,
           links' \in [Session -> BOOLEAN],
           OneTview(s)', Intends(s)', Keyed(s)', RowsLocked(s)'
    PROVE  IInv'
<1>0. TypeOK /\ SessionInv(s) /\ NoClash /\ Creators
    BY DEF IInv
<1>1. Alone(s)
    BY <1>0 DEF TypeOK, Alone, Turned, Owned
<1>2. pc' \in [Session -> Steps] /\ need' \in [Session -> SUBSET LockType]
      /\ rows' \in [Session -> SUBSET Item] /\ pc'[s] = to
    BY <1>0 DEF TypeOK, Turned
<1>3. TypeOK'
    <2>1. \A u \in Session : WorkOK(work'[u])
        BY <1>0 DEF TypeOK, Turned
    <2>2. \A u \in Session : DOMAIN own'[u] = Item /\ \A p \in Post : own'[u][<<"post", p>>] \in Authors \cup {None}
        BY <1>0 DEF TypeOK, Owned
    <2> QED
        BY <1>0, <1>2, <2>1, <2>2 DEF TypeOK, Turned, Owned, WorkOK
<1>4. NoClash' /\ Creators'
    BY <1>0 DEF NoClash, Creators, MayCreate
<1>5. Scripted(s)' /\ OwnsWritten(s)'
    BY <1>0, <1>2 DEF SessionInv, Scripted, OwnsWritten, Owned, Ended
<1>6. Snapped(s)'
    <2>1. SnapshotOf(s) => SnapshotOf(s)'
        BY <1>1 DEF SnapshotOf, Alone, Ended
    <2> QED
        BY <1>0, <1>2, <2>1 DEF SessionInv, Snapped, InSnapshot
<1>7. SessionInv(s)'
    BY <1>5, <1>6 DEF SessionInv
<1> QED
    BY <1>1, <1>3, <1>4, <1>7, Concludes DEF Ended

-----------------------------------------------------------------------------
(* What a session reads. *)

\* Whatever it reads from, a post's authors are users.
LEMMA SeenAuthors ==
    ASSUME TypeOK, NEW s \in Session, Snapped(s), pc[s] \notin {"idle"} \cup Ended
    PROVE  \A p \in Post : AuthorsIn(Seen(s), p) \subseteq User
<1> SUFFICES ASSUME NEW p \in Post
             PROVE  AuthorsIn(Seen(s), p) \subseteq User
    OBVIOUS
<1>1. <<"post", p>> \in Item
    BY Kinds
<1>2. own[s][<<"post", p>>] \in Authors \cup {None} /\ store[<<"post", p>>] \in Authors
    BY DEF TypeOK
<1>3. InSnapshot(s) => snapshot[s].rows[<<"post", p>>] \in Authors
    BY DEF Snapped, SnapshotOf
<1>4. Seen(s)[<<"post", p>>] \in Authors
    BY <1>1, <1>2, <1>3 DEF Seen, Latest, With
<1> QED
    BY <1>4 DEF AuthorsIn, Authors

\* The posts a query finds are posts.
LEMMA FoundPosts ==
    /\ \A db, u : Mapped(db, u) \subseteq Post /\ Embedding(db, u) \subseteq Post
    /\ \A s, db : Found(s, db) \subseteq Post
    BY DEF Mapped, Embedding, Found

\* Work just found: a TVIEW to compute whole, or keys.
Fresh(w) ==
    WorkOK(w) /\ w.target = {} /\ w.redo = {} /\ (w.all => w.user = {} /\ w.post = {} /\ w.fan = {})

LEMMA FreshWork ==
    /\ Fresh(NoWork) /\ Fresh([NoWork EXCEPT !.all = TRUE])
    /\ \A x \in User : /\ Fresh([NoWork EXCEPT !.fan = {x}]) /\ Fresh([NoWork EXCEPT !.user = {x}])
                       /\ Fresh([NoWork EXCEPT !.user = {x}, !.patched = {<<"tv_user", x>>}])
    /\ \A P \in SUBSET Post : Fresh([NoWork EXCEPT !.post = P])
<1>1. \A x \in User : <<"tv_user", x>> \in TvUser
    BY DEF TvUser
<1> QED
    BY <1>1 DEF Fresh, NoWork, WorkOK

LEMMA QueuedOK ==
    ASSUME NEW s, Statement(s) \in StatementType, way \in {"mapping", "fanout", "embed"}
    PROVE  Fresh(Queued(s))
<1> DEFINE st == Statement(s)
<1>1. /\ st.op \in {"rename", "adduser"} => st.on \in User
      /\ st.op \notin {"rename", "adduser", "configure"} => st.on \in Post
    BY DEF StatementType
<1>2. Found(s, Seen(s)) \subseteq Post
    BY FoundPosts
<1>3. CASE st.op = "configure"
    BY <1>3, FreshWork DEF Queued
<1>4. CASE st.op = "rename" /\ way = "fanout"
    <2>1. Queued(s) = [NoWork EXCEPT !.fan = {st.on}]
        BY <1>4 DEF Queued
    <2> QED
        BY <1>1, <1>4, <2>1, FreshWork
<1>5. CASE st.op = "rename" /\ way = "embed"
    <2>1. Queued(s) = [NoWork EXCEPT !.user = {st.on}, !.patched = {<<"tv_user", st.on>>}]
        BY <1>5 DEF Queued
    <2> QED
        BY <1>1, <1>5, <2>1, FreshWork
<1>6. CASE st.op = "adduser" /\ way = "embed"
    <2>1. Queued(s) = [NoWork EXCEPT !.user = {st.on}]
        BY <1>6 DEF Queued
    <2> QED
        BY <1>1, <1>6, <2>1, FreshWork
<1>7. CASE (st.op = "rename" /\ way = "mapping") \/ (st.op = "adduser" /\ way # "embed")
    <2>1. Queued(s) = [NoWork EXCEPT !.post = Found(s, Seen(s))]
        BY <1>7 DEF Queued
    <2> QED
        BY <1>2, <2>1, FreshWork
<1>8. CASE st.op \notin {"rename", "adduser", "configure"}
    <2>1. Queued(s) = [NoWork EXCEPT !.post = {st.on}]
        BY <1>8 DEF Queued
    <2> QED
        BY <1>1, <1>8, <2>1, FreshWork
<1> QED
    BY <1>3, <1>4, <1>5, <1>6, <1>7, <1>8

-----------------------------------------------------------------------------
(* The steps of a statement and its refresh. *)

\* What holds of a session within a statement.
LEMMA Within ==
    ASSUME IInv, NEW s \in Session, pc[s] \notin {"idle"} \cup Ended
    PROVE  /\ TypeOK /\ SessionInv(s) /\ WorkOK(work[s])
           /\ script[s] # <<>> /\ Statement(s) \in StatementType
           /\ need[s] \in SUBSET LockType /\ rows[s] \in SUBSET Item
           /\ level[s] \in {"RC", "RR"} /\ locks[s] \in SUBSET LockType
    BY WrittenType DEF IInv, TypeOK, SessionInv, Scripted

\* A step that leaves what is stored as it was.
LEMMA Reads ==
    ASSUME TypeOK, NEW s \in Session, Unwritten, SessionInv(s)
    PROVE  Owned(s) /\ links' \in [Session -> BOOLEAN]
           /\ UNCHANGED <<rowLock, script, locks>>
    BY DEF Unwritten, TypeOK, Owned, SessionInv, OwnsWritten

\* The steps of a statement.
Running == Steps \ ({"idle"} \cup Ended)

\* A step to another, with these locks and rows to wait for, and this work.
Goes(s, from, to, N, R, w) ==
    /\ Step(s, from, to) /\ from \in Running /\ to \in Running \ {"write"}
    /\ N \subseteq LockType /\ R \subseteq Item
    /\ Locking(s, N, R) \/ (UNCHANGED <<need, rows>> /\ N = {} /\ R = {})
    /\ Worked(s, w) \/ (UNCHANGED work /\ w = work[s])

LEMMA GoesTo ==
    ASSUME IInv, NEW s \in Session, NEW from, NEW to, NEW N, NEW R, NEW w,
           Goes(s, from, to, N, R, w)
    PROVE  /\ TypeOK /\ SessionInv(s) /\ WorkOK(work[s])
           /\ pc[s] = from /\ need[s] = {} /\ rows[s] = {}
           /\ Turned(s, to, N, R, w)
           /\ pc'[s] = to /\ need'[s] = N /\ rows'[s] = R /\ work'[s] = w
<1>1. TypeOK /\ pc[s] = from /\ need[s] = {} /\ rows[s] = {}
    BY DEF IInv, Goes, Step
<1>2. SessionInv(s) /\ WorkOK(work[s])
    BY <1>1, Within DEF Goes, Running
<1>3. Turned(s, to, N, R, w)
    BY <1>1 DEF Goes, Step, Locking, Worked, Turned, TypeOK
<1> QED
    BY <1>1, <1>2, <1>3 DEF Turned, TypeOK, Goes, Running

\* Such a step of a session that writes nothing.
LEMMA ReadStep ==
    ASSUME IInv, NEW s \in Session, NEW from, NEW to, NEW N, NEW R, NEW w, WorkOK(w),
           Goes(s, from, to, N, R, w), Unwritten,
           OneTview(s)', Intends(s)', Keyed(s)', RowsLocked(s)'
    PROVE  IInv'
<1>1. TypeOK /\ SessionInv(s) /\ Turned(s, to, N, R, w) /\ pc[s] \notin {"idle"} \cup Ended
    BY GoesTo DEF Goes, Running
<1>2. to \in Steps \ ({"idle", "write"} \cup Ended) /\ N \in SUBSET LockType /\ R \in SUBSET Item
    BY DEF Goes, Running
<1> QED
    BY <1>1, <1>2, Reads, WorkStep DEF Goes, Step

LEMMA FindStep ==
    ASSUME IInv, NEW s \in Session, Find(s)
    PROVE  IInv'
<1> DEFINE w == Queued(s)
<1>1. Goes(s, "find", "flush", {}, {}, w)
    BY DEF Find, Goes, Running, Steps, Ended
<1>2. Fresh(w)
    BY QueuedOK, Within DEF Find, Step, Ended, TypeOK
<1> HIDE DEF w
<1>3. pc'[s] = "flush" /\ work'[s] = w
    BY <1>1, GoesTo
<1>4. OneTview(s)' /\ Intends(s)' /\ Keyed(s)' /\ RowsLocked(s)'
    BY <1>2, <1>3 DEF Fresh, OneTview, Intends, Keyed, RowsLocked
<1> QED
    BY <1>1, <1>2, <1>4, ReadStep DEF Find, Fresh

LEMMA FanoutStep ==
    ASSUME IInv, NEW s \in Session, Fanout(s)
    PROVE  IInv'
<1> DEFINE R == {"tv_post"} \X Embedding(Seen(s), Statement(s).on)
           w == [work[s] EXCEPT !.target = R]
<1>1. R \subseteq TvPost /\ R \subseteq Item
    BY FoundPosts DEF TvPost, Item
<1>2. Goes(s, "flush", "fanned", {}, R, w) /\ work[s].fan # {}
    BY <1>1 DEF Fanout, Goes, Running, Steps, Ended
<1> HIDE DEF R
<1>3. /\ TypeOK /\ SessionInv(s) /\ WorkOK(work[s]) /\ pc[s] = "flush"
      /\ pc'[s] = "fanned" /\ work'[s] = w
    BY <1>1, <1>2, GoesTo
<1>4. WorkOK(w) /\ w.target = R /\ w.redo = work[s].redo /\ w.all = work[s].all
    BY <1>1, <1>3 DEF WorkOK
<1> HIDE DEF w
<1>5. w.redo = {} /\ ~w.all
    BY <1>2, <1>3, <1>4 DEF SessionInv, OneTview
<1>6. OneTview(s)' /\ Intends(s)' /\ Keyed(s)' /\ RowsLocked(s)'
    BY <1>1, <1>3, <1>4, <1>5 DEF OneTview, Intends, Keyed, RowsLocked
<1> QED
    BY <1>1, <1>2, <1>4, <1>6, ReadStep DEF Fanout

LEMMA RefreshAllStep ==
    ASSUME IInv, NEW s \in Session, RefreshAll(s)
    PROVE  IInv'
<1> DEFINE w == work[s]
<1>1. {Whole} \in SUBSET LockType
    BY LockTypes
<1>2. Goes(s, "flush", "whole", {Whole}, {}, w) /\ w.all
    BY <1>1 DEF RefreshAll, Goes, Running, Steps, Ended, Whole
<1>3. /\ SessionInv(s) /\ WorkOK(w) /\ pc[s] = "flush"
      /\ pc'[s] = "whole" /\ work'[s] = w /\ need'[s] = {Whole}
    BY <1>1, <1>2, GoesTo
<1> HIDE DEF w
<1>4. OneTview(s) /\ work[s] = w
    BY <1>3 DEF SessionInv, w
<1>5. OneTview(s)' /\ Intends(s)' /\ Keyed(s)' /\ RowsLocked(s)'
    BY <1>2, <1>3, <1>4 DEF OneTview, Intends, Keyed, RowsLocked
<1> QED
    BY <1>1, <1>2, <1>3, <1>5, ReadStep DEF RefreshAll

LEMMA ReconcileStep ==
    ASSUME IInv, NEW s \in Session, Reconcile(s)
    PROVE  IInv'
<1> DEFINE N == {L("refresh", NameSpace, WholeLock)}
           w == [work[s] EXCEPT !.target = TvPost, !.redo = TvPost]
<1>1. N \in SUBSET LockType
    BY DEF L, LockType, NameSpace
<1>2. Goes(s, "whole", "compute", N, {}, w)
    BY <1>1 DEF Reconcile, Goes, Running, Steps, Ended, TvPost
<1>3. /\ SessionInv(s) /\ WorkOK(work[s]) /\ pc[s] = "whole" /\ need[s] = {}
      /\ pc'[s] = "compute" /\ work'[s] = w /\ locks' = locks
    BY <1>1, <1>2, GoesTo DEF Reconcile, Unwritten
<1>4. OneTview(s) /\ Intends(s) /\ work[s].all
    BY <1>3 DEF SessionInv, OneTview
<1>5. WorkOK(w) /\ w.target = TvPost /\ w.redo = TvPost /\ w.all = work[s].all
      /\ w.user = work[s].user /\ w.post = work[s].post /\ w.fan = work[s].fan
    BY <1>3, Kinds DEF WorkOK
<1> HIDE DEF w
<1>6. OneTview(s)' /\ Intends(s)' /\ Keyed(s)' /\ RowsLocked(s)'
    BY <1>3, <1>4, <1>5 DEF OneTview, Intends, Keyed, RowsLocked
<1> QED
    BY <1>1, <1>2, <1>5, <1>6, ReadStep DEF Reconcile

LEMMA ApplyKeysStep ==
    ASSUME IInv, NEW s \in Session, ApplyKeys(s)
    PROVE  IInv'
<1> DEFINE R == NextPass(s)
           l == L("refresh", TviewOf(R), IntentLock)
           w == [work[s] EXCEPT !.target = R]
<1>1. {l} \in SUBSET LockType
    BY DEF L, LockType, TviewOf
<1>2. Goes(s, "flush", "reads", {l}, {}, w) /\ R # {}
    BY <1>1 DEF ApplyKeys, Goes, Running, Steps, Ended
<1>3. /\ SessionInv(s) /\ WorkOK(work[s]) /\ pc[s] = "flush"
      /\ pc'[s] = "reads" /\ work'[s] = w /\ need'[s] = {l}
    BY <1>1, <1>2, GoesTo
<1>4. /\ R \subseteq TvUser \/ R \subseteq TvPost
      /\ R \subseteq Item /\ (work[s].user # {} \/ work[s].post # {})
    BY <1>2, <1>3 DEF NextPass, WorkOK, TvUser, TvPost, Item
<1>5. \A i \in R : Intent(i) = l
    BY <1>4, TviewIs DEF Intent
<1> HIDE DEF R, l
<1>6. OneTview(s)
    BY <1>3 DEF SessionInv
<1>7. WorkOK(w) /\ w.target = R /\ w.redo = work[s].redo /\ w.all = work[s].all
    BY <1>3, <1>4 DEF WorkOK
<1> HIDE DEF w
<1>8. w.redo = {} /\ ~w.all
    BY <1>3, <1>4, <1>6, <1>7 DEF OneTview
<1>9. OneTview(s)' /\ Intends(s)' /\ Keyed(s)' /\ RowsLocked(s)'
    BY <1>3, <1>4, <1>5, <1>7, <1>8 DEF OneTview, Intends, Keyed, RowsLocked
<1> QED
    BY <1>1, <1>2, <1>7, <1>9, ReadStep DEF ApplyKeys

LEMMA LockReadsStep ==
    ASSUME IInv, NEW s \in Session, LockReads(s)
    PROVE  IInv'
<1> DEFINE K == ReadValues(s)
           N == ValueLocks("refresh", NameSpace, K)
           w == work[s]
<1>1. TypeOK /\ SessionInv(s) /\ WorkOK(w)
    BY Within DEF LockReads, Step, Ended
<1>2. K \subseteq Source
    <2>1. \A p \in Post : AuthorsIn(Seen(s), p) \subseteq User
        BY <1>1, SeenAuthors DEF LockReads, Step, Ended, SessionInv
    <2>2. \A i \in work[s].target : i[1] = "tv_post" => i[2] \in Post
        BY <1>1, Kinds DEF SessionInv, OneTview, TvUser, TvPost
    <2> QED
        BY <2>1, <2>2 DEF ReadValues, Source
<1> HIDE DEF K
<1>3. N \in SUBSET LockType
    BY <1>2, ValueLockTypes DEF NameSpace
<1>4. Goes(s, "reads", "order", N, {}, w)
    BY <1>3 DEF LockReads, Goes, Running, Steps, Ended, K
<1> HIDE DEF N
<1>5. pc[s] = "reads" /\ need[s] = {} /\ pc'[s] = "order" /\ work'[s] = w /\ locks' = locks
    BY <1>4, GoesTo DEF LockReads, Unwritten
<1>6. OneTview(s) /\ Intends(s)
    BY <1>1 DEF SessionInv
<1>7. OneTview(s)' /\ Intends(s)' /\ Keyed(s)' /\ RowsLocked(s)'
    BY <1>5, <1>6 DEF OneTview, Intends, Keyed, RowsLocked
<1> QED
    BY <1>1, <1>4, <1>7, ReadStep DEF LockReads

LEMMA LockOrderStep ==
    ASSUME IInv, NEW s \in Session, LockOrder(s)
    PROVE  IInv'
<1> DEFINE w == work[s]
<1>1. TypeOK /\ SessionInv(s) /\ WorkOK(w)
    BY Within DEF LockOrder, Step, Ended
<1>2. Existing(s, w.target) \subseteq Item
    BY <1>1 DEF Existing, WorkOK
<1>3. PICK R \in SUBSET Item : Goes(s, "order", "guard", {}, R, w)
    BY <1>2 DEF LockOrder, Goes, Running, Steps, Ended
<1>4. pc[s] = "order" /\ pc'[s] = "guard" /\ work'[s] = w /\ locks' = locks
    BY <1>3, GoesTo DEF LockOrder, Unwritten
<1>5. OneTview(s) /\ Intends(s)
    BY <1>1 DEF SessionInv
<1>6. OneTview(s)' /\ Intends(s)' /\ Keyed(s)' /\ RowsLocked(s)'
    BY <1>4, <1>5 DEF OneTview, Intends, Keyed, RowsLocked
<1> QED
    BY <1>1, <1>3, <1>6, ReadStep DEF LockOrder

LEMMA GuardStep ==
    ASSUME IInv, NEW s \in Session, Guard(s)
    PROVE  IInv'
<1> DEFINE kept == (work[s].patched \cap work[s].target) \ Moved(s)
           R == Existing(s, kept)
           w == [work[s] EXCEPT !.patched = kept]
<1>1. TypeOK /\ SessionInv(s) /\ WorkOK(work[s])
    BY Within DEF Guard, Step, Ended
<1>2. kept \subseteq work[s].patched /\ R \subseteq Item
    BY <1>1 DEF Existing, WorkOK
<1>3. Goes(s, "guard", "patch", {}, R, w)
    BY <1>2 DEF Guard, Goes, Running, Steps, Ended
<1> HIDE DEF kept, R
<1>4. pc[s] = "guard" /\ pc'[s] = "patch" /\ work'[s] = w /\ locks' = locks
    BY <1>3, GoesTo DEF Guard, Unwritten
<1>5. OneTview(s) /\ Intends(s)
    BY <1>1 DEF SessionInv
<1>6. WorkOK(w) /\ w.target = work[s].target /\ w.redo = work[s].redo /\ w.all = work[s].all
      /\ w.user = work[s].user /\ w.post = work[s].post /\ w.fan = work[s].fan
    BY <1>1, <1>2 DEF WorkOK
<1> HIDE DEF w
<1>7. OneTview(s)' /\ Intends(s)' /\ Keyed(s)' /\ RowsLocked(s)'
    BY <1>4, <1>5, <1>6 DEF OneTview, Intends, Keyed, RowsLocked
<1> QED
    BY <1>3, <1>6, <1>7, ReadStep DEF Guard

\* Each key it does not hold is asked for.
LEMMA LockKeysStep ==
    ASSUME IInv, NEW s \in Session, LockKeys(s)
    PROVE  IInv'
<1> DEFINE w == work[s]
           held == {i \in w.redo : IF InSnapshot(s) THEN Seen(s)[i] # Absent
                                   ELSE rowLock[i] = s /\ Latest(s)[i] # Absent}
           missing == {i[2] : i \in w.redo \ held}
           N == ValueLocks("writer", KeySpace(TviewOf(w.redo)), missing)
<1>1. TypeOK /\ SessionInv(s) /\ WorkOK(w)
    BY Within DEF LockKeys, Step, Ended
<1>2. /\ w.redo \subseteq TvUser \/ w.redo \subseteq TvPost
      /\ OneTview(s) /\ Intends(s) /\ OwnsWritten(s)
    BY <1>1 DEF SessionInv, OneTview
<1>3. missing \subseteq Source /\ w.redo \subseteq Item
    BY <1>2, Kinds DEF Source
<1>4. \A i \in w.redo : KeySpace(TviewOf(w.redo)) = KeySpace(i[1])
    BY <1>2, TviewIs
<1>5. \A i \in w.redo \ held : KeyLock(i) \in N
    BY <1>4 DEF KeyLock, ValueLocks
<1>6. \A i \in held : \/ rowLock[i] = s /\ (InSnapshot(s) \/ Latest(s)[i] # Absent)
                      \/ InSnapshot(s) /\ own[s][i] = None /\ snapshot[s].rows[i] # Absent
    BY <1>2, <1>3 DEF OwnsWritten, Seen, With
<1>7. KeySpace(TviewOf(w.redo)) \in {"new_tv_user", "new_tv_post"}
    BY DEF KeySpace
<1>8. held \subseteq w.redo
    OBVIOUS
<1> HIDE DEF missing
<1>9. N \in SUBSET LockType
    BY <1>3, <1>7, ValueLockTypes
<1>10. Goes(s, "keys", "created", N, {}, w)
    BY <1>9 DEF LockKeys, Goes, Running, Steps, Ended, missing
<1> HIDE DEF N, held
<1>11. pc[s] = "keys" /\ pc'[s] = "created" /\ work'[s] = w /\ locks' = locks /\ need'[s] = N
    BY <1>10, GoesTo DEF LockKeys, Unwritten
<1>12. UNCHANGED <<store, own, rowLock, level, snapshot>>
    BY DEF LockKeys, Step, Unwritten
<1>13. OneTview(s)' /\ Intends(s)' /\ RowsLocked(s)'
    BY <1>2, <1>11 DEF OneTview, Intends, RowsLocked
<1>14. Keyed(s)'
    <2> SUFFICES ASSUME NEW i \in w.redo
                 PROVE  \/ KeyLock(i) \in N
                        \/ rowLock[i] = s /\ (InSnapshot(s) \/ Latest(s)[i] # Absent)
                        \/ InSnapshot(s) /\ own[s][i] = None /\ snapshot[s].rows[i] # Absent
        BY <1>11, <1>12 DEF Keyed, KeyLocked, InSnapshot, Latest, With, KeyLock
    <2> QED
        BY <1>5, <1>6
<1> QED
    BY <1>1, <1>10, <1>13, <1>14, ReadStep DEF LockKeys

\* The rows that are there by now, at READ COMMITTED.
LEMMA LockCreatedStep ==
    ASSUME IInv, NEW s \in Session, LockCreated(s)
    PROVE  IInv'
<1> DEFINE w == work[s]
           R == CreatedRows(s)
<1>1. TypeOK /\ SessionInv(s) /\ WorkOK(w)
    BY Within DEF LockCreated, Step, Ended
<1>2. R \subseteq Item /\ OneTview(s) /\ Intends(s) /\ Keyed(s)
    BY <1>1 DEF CreatedRows, FirstRows, Existing, WorkOK, SessionInv
<1>3. Goes(s, "created", "compute", {}, R, w)
    BY <1>2 DEF LockCreated, Goes, Running, Steps, Ended
<1>4. ~InSnapshot(s) => \A i \in w.redo : Latest(s)[i] # Absent /\ rowLock[i] # s => i \in R
    BY DEF CreatedRows, FirstRows, Existing, Seen
<1> HIDE DEF R
<1>5. /\ pc[s] = "created" /\ pc'[s] = "compute" /\ work'[s] = w /\ rows'[s] = R
      /\ need[s] = {} /\ UNCHANGED <<store, own, rowLock, level, snapshot, locks>>
    BY <1>3, GoesTo DEF LockCreated, Step, Unwritten
<1>6. OneTview(s)' /\ Intends(s)'
    BY <1>2, <1>5 DEF OneTview, Intends
<1>7. Keyed(s)' /\ RowsLocked(s)'
    BY <1>2, <1>4, <1>5 DEF Keyed, KeyLocked, RowsLocked, InSnapshot, Latest, With
<1> QED
    BY <1>1, <1>3, <1>6, <1>7, ReadStep DEF LockCreated

LEMMA ComputeStep ==
    ASSUME IInv, NEW s \in Session, Compute(s)
    PROVE  IInv'
<1> DEFINE R == work[s].redo
           w == [work[s] EXCEPT !.fresh = [i \in R |-> ViewRow(Seen(s), i)]]
<1>1. TypeOK /\ SessionInv(s) /\ WorkOK(work[s])
    BY Within DEF Compute, Step, Ended
<1>2. R \subseteq Item /\ OneTview(s) /\ Intends(s) /\ Keyed(s) /\ RowsLocked(s)
    BY <1>1 DEF WorkOK, SessionInv
<1>3. Goes(s, "compute", "upsert", {}, R, w)
    BY <1>2 DEF Compute, Goes, Running, Steps, Ended
<1>4. WorkOK(w) /\ w.target = work[s].target /\ w.redo = R /\ w.all = work[s].all
      /\ w.user = work[s].user /\ w.post = work[s].post /\ w.fan = work[s].fan
    BY <1>1 DEF WorkOK
<1> HIDE DEF w
<1>5. /\ pc[s] = "compute" /\ pc'[s] = "upsert" /\ work'[s] = w /\ rows'[s] = R
      /\ need[s] = {} /\ rows[s] = {}
      /\ UNCHANGED <<store, own, rowLock, level, snapshot, locks>>
    BY <1>3, GoesTo DEF Compute, Step, Unwritten
<1>6. OneTview(s)' /\ Intends(s)'
    BY <1>2, <1>4, <1>5 DEF OneTview, Intends
<1>7. Keyed(s)'
    BY <1>2, <1>4, <1>5 DEF Keyed, KeyLocked, InSnapshot, Latest, With
<1>8. RowsLocked(s)'
    BY <1>2, <1>4, <1>5 DEF RowsLocked, InSnapshot, Latest, With
<1> QED
    BY <1>3, <1>4, <1>6, <1>7, <1>8, ReadStep DEF Compute

LEMMA CheckStep ==
    ASSUME IInv, NEW s \in Session, Check(s)
    PROVE  IInv'
<1>1. TypeOK /\ SessionInv(s) /\ WorkOK(work[s]) /\ OneTview(s)
    BY Within DEF Check, Step, Ended, SessionInv
<1>2. CASE TviewOf(work[s].target) = "tv_user"
    <2> DEFINE w == work[s]
               N == ValueLocks("writer", "tv_user", w.user)
    <2>1. N \in SUBSET LockType
        BY <1>1, ValueLockTypes DEF WorkOK, Source
    <2>2. Goes(s, "check", "lookup", N, {}, w)
        BY <1>2, <2>1 DEF Check, Goes, Running, Steps, Ended
    <2>3. pc[s] = "check" /\ pc'[s] = "lookup" /\ work'[s] = w
        BY <2>2, GoesTo
    <2>4. ~w.all
        BY <1>1, <1>2, Kinds DEF OneTview, TviewOf
    <2>5. OneTview(s)' /\ Intends(s)' /\ Keyed(s)' /\ RowsLocked(s)'
        BY <1>1, <2>3, <2>4 DEF OneTview, Intends, Keyed, RowsLocked
    <2> QED
        BY <1>1, <2>2, <2>5, ReadStep DEF Check
<1>3. CASE TviewOf(work[s].target) # "tv_user"
    <2>1. Goes(s, "check", "flush", {}, {}, NoWork)
        BY <1>3 DEF Check, Goes, Running, Steps, Ended
    <2>2. Fresh(NoWork)
        BY FreshWork
    <2>3. pc'[s] = "flush" /\ work'[s] = NoWork
        BY <2>1, GoesTo
    <2>4. OneTview(s)' /\ Intends(s)' /\ Keyed(s)' /\ RowsLocked(s)'
        BY <2>2, <2>3 DEF Fresh, OneTview, Intends, Keyed, RowsLocked
    <2> QED
        BY <2>1, <2>2, <2>4, ReadStep DEF Check, Fresh
<1> QED
    BY <1>2, <1>3

LEMMA LookupStep ==
    ASSUME IInv, NEW s \in Session, Lookup(s)
    PROVE  IInv'
<1> DEFINE u == Statement(s).on
           derived == Statement(s).op = "rename" /\ work[s].patched # {}
           found == Embedding(Seen(s), u) \cup (IF derived THEN {} ELSE Mapped(Seen(s), u))
           parents == {"tv_post"} \X found
           P == IF derived THEN parents ELSE {}
           G == IF derived THEN {u} \X parents ELSE {}
           w == [work[s] EXCEPT !.user = {}, !.target = {}, !.post = @ \cup found,
                                !.patched = P, !.guards = G]
<1>1. TypeOK /\ SessionInv(s) /\ WorkOK(work[s]) /\ OneTview(s) /\ pc[s] = "lookup"
    BY Within DEF Lookup, Step, Ended, SessionInv
<1>2. Goes(s, "lookup", "flush", {}, {}, w)
    BY DEF Lookup, Goes, Running, Steps, Ended
<1>3. found \subseteq Post
    BY FoundPosts
<1>4. P \subseteq TvPost
    BY <1>3 DEF TvPost
<1> HIDE DEF found, P, G
<1>5. WorkOK(w) /\ w.target = {} /\ w.redo = work[s].redo /\ w.all = work[s].all
    BY <1>1, <1>3, <1>4 DEF WorkOK
<1> HIDE DEF w
<1>6. w.redo = {} /\ ~w.all
    BY <1>1, <1>5 DEF OneTview
<1>7. pc'[s] = "flush" /\ work'[s] = w
    BY <1>2, GoesTo
<1>8. OneTview(s)' /\ Intends(s)' /\ Keyed(s)' /\ RowsLocked(s)'
    BY <1>5, <1>6, <1>7 DEF OneTview, Intends, Keyed, RowsLocked
<1> QED
    BY <1>2, <1>5, <1>8, ReadStep DEF Lookup

\* A statement that ends, its session at rest.
LEMMA RestStep ==
    ASSUME IInv, NEW s \in Session, pc[s] \in {"write", "flush"}, Step(s, pc[s], "idle"),
           script' = [script EXCEPT ![s] = Tail(@)],
           UNCHANGED <<own, rowLock, locks, links, need, rows>>,
           work' = work \/ Worked(s, NoWork)
    PROVE  IInv'
<1>1. TypeOK /\ SessionInv(s) /\ NoClash /\ Creators /\ script[s] # <<>> /\ OneTview(s)
    BY Within DEF IInv, Ended, SessionInv
<1>2. pc' \in [Session -> Steps] /\ pc'[s] = "idle"
    BY <1>1 DEF TypeOK, Step, Steps
<1>3. \A u \in Session : script'[u] \in Seq(StatementType)
    BY <1>1 DEF TypeOK
<1>4. /\ DOMAIN work' = Session /\ work'[s] \in {work[s], NoWork}
      /\ \A u \in Session \ {s} : work'[u] = work[u]
    BY <1>1 DEF TypeOK, Worked
<1>5. Alone(s)
    BY <1>1, <1>4 DEF TypeOK, Alone, Step
<1>6. Fresh(NoWork)
    BY FreshWork
<1>7. \A u \in Session : WorkOK(work'[u])
    BY <1>1, <1>4, <1>6 DEF TypeOK, Fresh
<1>8. TypeOK'
    BY <1>1, <1>2, <1>3, <1>4, <1>7 DEF TypeOK, Step, WorkOK
<1>9. NoClash' /\ Creators'
    BY <1>1 DEF NoClash, Creators, MayCreate, Step
<1>10. OneTview(s)' /\ Intends(s)' /\ Keyed(s)' /\ RowsLocked(s)'
    BY <1>1, <1>2, <1>4, <1>6 DEF Fresh, OneTview, Intends, Keyed, RowsLocked
<1>11. Scripted(s)' /\ OwnsWritten(s)'
    BY <1>1, <1>2 DEF SessionInv, Scripted, OwnsWritten, Ended
<1>12. Snapped(s)'
    <2>1. SnapshotOf(s) => SnapshotOf(s)'
        BY <1>5 DEF SnapshotOf, Alone, Step
    <2> QED
        BY <1>1, <1>2, <2>1 DEF SessionInv, Snapped, InSnapshot, Step
<1> QED
    BY <1>5, <1>8, <1>9, <1>10, <1>11, <1>12, Concludes DEF SessionInv, Step

LEMMA FlushDoneStep ==
    ASSUME IInv, NEW s \in Session, FlushDone(s)
    PROVE  IInv'
    BY RestStep DEF FlushDone, Step

LEMMA WriteNothingStep ==
    ASSUME IInv, NEW s \in Session, WriteNothing(s)
    PROVE  IInv'
    BY RestStep DEF WriteNothing, Step

LEMMA StartStep ==
    ASSUME IInv, NEW s \in Session, Start(s)
    PROVE  IInv'
<1>1. TypeOK /\ SessionInv(s) /\ NoClash /\ Creators /\ pc[s] = "idle" /\ OneTview(s)
      /\ script[s] # <<>>
    BY DEF IInv, Start, SessionInv
<1>2. Written(s) \in Item
    BY <1>1, WrittenType DEF TypeOK
<1>3. pc' \in [Session -> Steps] /\ pc'[s] = "write" /\ need' \in [Session -> SUBSET LockType]
      /\ rows' \in [Session -> SUBSET Item] /\ rows'[s] = {Written(s)}
    BY <1>1, <1>2 DEF TypeOK, Start, Steps, Locking
<1>4. UNCHANGED <<store, writer, own, rowLock, level, way, script, work, locks, links>>
    BY DEF Start, Unwritten
<1>5. Alone(s)
    BY <1>1, <1>4 DEF TypeOK, Alone, Start, Locking
<1>6. TypeOK'
    BY <1>1, <1>3, <1>4 DEF TypeOK, Start, WorkOK
<1>7. NoClash' /\ Creators'
    BY <1>1, <1>4 DEF NoClash, Creators, MayCreate
<1>8. OneTview(s)' /\ Intends(s)' /\ Keyed(s)' /\ RowsLocked(s)'
    BY <1>1, <1>3, <1>4 DEF OneTview, Intends, Keyed, RowsLocked
<1>9. Written(s)' = Written(s)
    BY <1>4 DEF Written, Statement
<1>10. Scripted(s)' /\ OwnsWritten(s)'
    BY <1>1, <1>3, <1>4, <1>9 DEF SessionInv, Scripted, OwnsWritten, Ended
<1>11. Snapped(s)'
    <2>1. CASE snapshot[s] # None
        <3>1. snapshot'[s] = snapshot[s] /\ SnapshotOf(s)
            BY <1>1, <2>1 DEF Start, TypeOK, SessionInv, Snapped
        <3> QED
            BY <1>1, <1>4, <1>5, <3>1 DEF SnapshotOf, Alone, Snapped
    <2>2. CASE snapshot[s] = None /\ ~InSnapshot(s)
        <3>1. snapshot'[s] = None /\ ~InSnapshot(s)'
            BY <1>1, <1>4, <2>2 DEF Start, TypeOK, InSnapshot
        <3> QED
            BY <3>1 DEF Snapped
    <2>3. CASE snapshot[s] = None /\ InSnapshot(s)
        <3> DEFINE seen == {None} \cup {t \in Session : pc[t] = "committed"}
        <3>1. snapshot'[s] = [rows |-> store, seen |-> seen]
            BY <1>1, <2>3 DEF Start, TypeOK
        <3>2. \A t \in Session : t \in seen => pc'[t] = "committed"
            BY <1>1, <1>5, Apart DEF Alone
        <3> HIDE DEF seen
        <3>3. snapshot'[s].rows = store /\ snapshot'[s].seen = seen
            BY <3>1
        <3>4. SnapshotOf(s)'
            BY <1>1, <1>4, <3>2, <3>3 DEF SnapshotOf, TypeOK
        <3> QED
            BY <3>4 DEF Snapped
    <2> QED
        BY <2>1, <2>2, <2>3
<1> QED
    BY <1>1, <1>4, <1>5, <1>6, <1>7, <1>8, <1>10, <1>11, Concludes DEF SessionInv

-----------------------------------------------------------------------------
(* Locks taken. *)

\* A row taken is free; in a snapshot, it is as it was there.
LEMMA LockRowStep ==
    ASSUME IInv, NEW s \in Session, LockRow(s)
    PROVE  IInv'
<1>1. PICK i \in NextRows(s) :
          /\ need[s] = {} /\ RowFree(s, i) /\ ~ChangedSince(s, i)
          /\ rowLock' = IF Latest(s)[i] # Absent \/ pc[s] = "write"
                        THEN [rowLock EXCEPT ![i] = s] ELSE rowLock
          /\ rows' = [rows EXCEPT ![s] = @ \ {i}]
          /\ UNCHANGED <<store, writer, own, snapshot, level, way, script, pc, work, locks, need, links>>
    BY DEF LockRow
<1>2. TypeOK /\ SessionInv(s) /\ NoClash /\ Creators
    BY DEF IInv
<1>3. i \in rows[s] /\ i \in Item /\ pc[s] \notin Ended
    BY <1>1, <1>2 DEF NextRows, TypeOK, SessionInv, Scripted
<1>4. rows' \in [Session -> SUBSET Item] /\ rows'[s] = rows[s] \ {i}
      /\ rowLock' \in [Item -> Session \cup {None}]
    BY <1>1, <1>2, <1>3 DEF TypeOK
<1>5. /\ \A j \in Item : rowLock[j] = s => rowLock'[j] = s
      /\ \A j \in Item : j # i => rowLock'[j] = rowLock[j]
      /\ \A u \in Session \ {s}, j \in Item : rowLock'[j] = u <=> rowLock[j] = u
      /\ Latest(s)[i] # Absent \/ pc[s] = "write" => rowLock'[i] = s
      /\ rowLock'[i] = s => rowLock[i] = s \/ Latest(s)[i] # Absent \/ pc[s] = "write"
    BY <1>1, <1>2, <1>3, Apart DEF TypeOK, RowFree
<1>6. Alone(s)
    BY <1>1, <1>2, <1>5 DEF TypeOK, Alone
<1>7. TypeOK'
    BY <1>1, <1>2, <1>4 DEF TypeOK, WorkOK
<1>8. NoClash'
    BY <1>1, <1>2 DEF NoClash
<1>9. \A j \in Item : Latest(s)[j] = IF own[s][j] # None THEN own[s][j] ELSE store[j]
    BY DEF Latest, With
<1>10. Creators'
    <2>1. \A t \in Session, j \in Tv : MayCreate(t, j)' <=> MayCreate(t, j)
        BY <1>1 DEF MayCreate
    <2>2. rowLock'[i] = s /\ store[i] = Absent /\ i \in Tv => rowLock[i] = s
        BY <1>2, <1>3, <1>5, <1>9, WrittenType
           DEF SessionInv, Scripted, OwnsWritten, TypeOK, Ended
    <2>3. \A j \in Tv : j \in Item
        BY Kinds DEF Tv
    <2> QED
        BY <1>1, <1>2, <1>5, <2>1, <2>2, <2>3 DEF Creators
<1>11. OneTview(s)' /\ Intends(s)'
    BY <1>1, <1>2 DEF SessionInv, OneTview, Intends
<1>12. Scripted(s)' /\ OwnsWritten(s)'
    <2>1. Written(s)' = Written(s)
        BY <1>1 DEF Written, Statement
    <2> QED
        BY <1>1, <1>2, <1>3, <1>4, <1>5, <2>1 DEF SessionInv, Scripted, OwnsWritten, Ended
<1>13. Latest(s)' = Latest(s) /\ InSnapshot(s)' = InSnapshot(s) /\ work[s].redo \subseteq Item
    BY <1>1, <1>2 DEF Latest, With, InSnapshot, TypeOK, WorkOK
<1>14. Keyed(s)'
    <2> SUFFICES ASSUME pc[s] \in {"created", "compute", "upsert"}, ~work[s].all, NEW j \in work[s].redo
                 PROVE  \/ KeyLocked(s, j)
                        \/ rowLock'[j] = s /\ (InSnapshot(s) \/ Latest(s)[j] # Absent)
                        \/ /\ InSnapshot(s) /\ own[s][j] = None /\ snapshot[s].rows[j] # Absent
                           /\ pc[s] = "upsert" => j \in rows'[s]
        BY <1>1, <1>13 DEF Keyed, KeyLocked
    <2>1. Keyed(s) /\ Snapped(s)
        BY <1>2 DEF SessionInv
    <2>2. CASE j # i
        BY <1>4, <1>5, <1>13, <2>1, <2>2 DEF Keyed
    <2>3. CASE j = i /\ InSnapshot(s) /\ own[s][i] = None /\ snapshot[s].rows[i] # Absent
        <3>1. SnapshotOf(s)
            BY <1>3, <2>1, <2>3 DEF Snapped
        <3>2. writer[i] \in snapshot[s].seen
            BY <1>1, <2>3 DEF ChangedSince
        <3>3. Latest(s)[i] # Absent
            BY <1>3, <1>9, <2>3, <3>1, <3>2 DEF SnapshotOf
        <3> QED
            BY <1>5, <2>3, <3>3
    <2>4. CASE j = i /\ ~(InSnapshot(s) /\ own[s][i] = None /\ snapshot[s].rows[i] # Absent)
        BY <1>5, <1>13, <2>1, <2>4 DEF Keyed
    <2> QED
        BY <2>2, <2>3, <2>4
<1>15. RowsLocked(s)'
    <2>1. RowsLocked(s)
        BY <1>2 DEF SessionInv
    <2>2. \A j \in work[s].redo : Latest(s)[j] # Absent /\ rowLock'[j] # s =>
             Latest(s)[j] # Absent /\ rowLock[j] # s /\ j # i
        BY <1>3, <1>5, <1>13
    <2> QED
        BY <1>1, <1>4, <1>13, <2>1, <2>2 DEF RowsLocked
<1>16. Snapped(s)'
    BY <1>1, <1>2 DEF SessionInv, Snapped, SnapshotOf, InSnapshot
<1> QED
    BY <1>1, <1>3, <1>6, <1>7, <1>8, <1>10, <1>11, <1>12, <1>14, <1>15, <1>16, Concludes
       DEF SessionInv, Ended

\* The next lock is the least of those it waits for: their keys are bounded below.
LEMMA NextLockType ==
    ASSUME NEW s \in Session, need[s] \in SUBSET LockType, need[s] # {}
    PROVE  NextLock(s) \in need[s] /\ \A k \in need[s] : NextLock(s).what <= k.what
<1> DEFINE T == {l.what + 2 : l \in need[s]}
<1>1. \A l \in need[s] : l.what \in Int /\ l.what + 2 \in Nat
    <2>1. \A l \in need[s] : l.what \in Source \/ l.what = IntentLock \/ l.what = WholeLock
        BY DEF LockType
    <2>2. \A x \in Nat : x \in Int /\ x + 2 \in Nat
        OBVIOUS
    <2>3. \A x : x = IntentLock \/ x = WholeLock => x \in Int /\ x + 2 \in Nat
        BY DEF IntentLock, WholeLock
    <2> QED
        BY <2>1, <2>2, <2>3, Apart
<1>2. T \in SUBSET Nat /\ T # {}
    BY <1>1
<1> HIDE DEF T
<1>3. PICK m \in T : \A k \in T : ~(k < m)
    <2>1. PICK m \in T : \A k \in T : <<k, m>> \notin OpToRel(<, Nat)
        BY <1>2, WFMin, NatLessThanWellFounded, Zenon
    <2> QED
        BY <1>2, <2>1 DEF OpToRel
<1>4. PICK l \in need[s] : m = l.what + 2
    BY DEF T
<1>5. \A k \in need[s] : l.what <= k.what
    <2> SUFFICES ASSUME NEW k \in need[s] PROVE l.what <= k.what
        OBVIOUS
    <2>1. k.what + 2 \in T
        BY DEF T
    <2>2. ~(k.what + 2 < l.what + 2)
        BY <1>3, <1>4, <2>1
    <2> QED
        BY <1>1, <2>2
<1> QED
    BY <1>5 DEF NextLock

\* A lock granted conflicts with none held.
LEMMA LockValueStep ==
    ASSUME IInv, NEW s \in Session, LockValue(s)
    PROVE  IInv'
<1> DEFINE l == NextLock(s)
<1>1. TypeOK /\ SessionInv(s) /\ NoClash /\ Creators /\ need[s] # {}
    BY DEF IInv, LockValue
<1>2. l \in need[s] /\ l \in LockType /\ Holders(s, l) = {}
    BY <1>1, NextLockType DEF TypeOK, LockValue
<1> HIDE DEF l
<1>3. /\ locks' = [locks EXCEPT ![s] = @ \cup {l}] /\ need' = [need EXCEPT ![s] = @ \ {l}]
      /\ UNCHANGED <<store, writer, own, rowLock, snapshot, level, way, script, pc, work, rows, links>>
    BY DEF LockValue, l
<1>4. /\ locks' \in [Session -> SUBSET LockType] /\ need' \in [Session -> SUBSET LockType]
      /\ locks'[s] = locks[s] \cup {l} /\ need'[s] = need[s] \ {l}
      /\ \A u \in Session \ {s} : locks'[u] = locks[u] /\ need'[u] = need[u]
    BY <1>1, <1>2, <1>3 DEF TypeOK
<1>5. Alone(s)
    BY <1>3, <1>4 DEF Alone
<1>6. TypeOK'
    BY <1>1, <1>3, <1>4 DEF TypeOK, WorkOK
<1>7. \A t \in Session \ {s} : \A k \in locks[t] : ~Clash(k, l) /\ ~Clash(l, k)
    BY <1>2, ClashSymmetric DEF Holders
<1>8. NoClash'
    BY <1>1, <1>4, <1>7 DEF NoClash
<1>9. Creators'
    <2>1. \A t \in Session, j \in Tv : MayCreate(t, j) => MayCreate(t, j)'
        BY <1>4 DEF MayCreate
    <2> QED
        BY <1>1, <1>3, <2>1 DEF Creators
<1>10. Scripted(s)' /\ OwnsWritten(s)' /\ OneTview(s)'
    <2>1. Written(s)' = Written(s)
        BY <1>3 DEF Written, Statement
    <2> QED
        BY <1>1, <1>3, <2>1 DEF SessionInv, Scripted, OwnsWritten, OneTview
<1>11. Intends(s)'
    <2>1. \A k : k \in need[s] \cup locks[s] => k \in need'[s] \cup locks'[s]
        BY <1>4
    <2>2. \A k : k \in locks[s] => k \in locks'[s]
        BY <1>4
    <2>3. Intends(s)
        BY <1>1 DEF SessionInv
    <2> QED
        BY <1>3, <2>1, <2>2, <2>3 DEF Intends
<1>12. Keyed(s)' /\ RowsLocked(s)'
    <2>1. \A j \in work[s].redo : KeyLocked(s, j) => KeyLocked(s, j)'
        BY <1>3, <1>4 DEF KeyLocked
    <2>2. Latest(s)' = Latest(s) /\ InSnapshot(s)' = InSnapshot(s)
        BY <1>3 DEF Latest, With, InSnapshot
    <2> QED
        BY <1>1, <1>3, <2>1, <2>2 DEF SessionInv, Keyed, RowsLocked
<1>13. Snapped(s)'
    BY <1>1, <1>3 DEF SessionInv, Snapped, SnapshotOf, InSnapshot
<1> QED
    BY <1>1, <1>3, <1>5, <1>6, <1>8, <1>9, <1>10, <1>11, <1>12, <1>13, Concludes
       DEF SessionInv, Scripted, Ended

-----------------------------------------------------------------------------
(* Rows written. *)

\* A step that writes rows of TVIEWs s has locked.
LEMMA WritesTviews ==
    ASSUME IInv, NEW s \in Session, NEW W \in SUBSET Tv, \A i \in W : rowLock[i] = s,
           NEW row, own' = [own EXCEPT ![s] = row], DOMAIN row = Item,
           \A i \in Item \ W : row[i] = own[s][i]
    PROVE  Owned(s)
<1>1. TypeOK /\ OwnsWritten(s)
    BY DEF IInv, SessionInv
<1>2. DOMAIN own' = Session /\ own'[s] = row /\ \A u \in Session \ {s} : own'[u] = own[u]
    BY <1>1 DEF TypeOK
<1>3. \A p \in Post : <<"post", p>> \in Item /\ <<"post", p>> \notin W
    BY Kinds
<1> QED
    BY <1>1, <1>2, <1>3 DEF Owned, TypeOK, OwnsWritten

LEMMA WriteStep ==
    ASSUME IInv, NEW s \in Session, Write(s)
    PROVE  IInv'
<1> DEFINE x == Written(s)
           N == ChangedValues(s)
           st == Statement(s)
<1>1. TypeOK /\ SessionInv(s) /\ pc[s] = "write" /\ rows[s] = {} /\ st \in StatementType /\ script[s] # <<>>
    BY Within DEF Write, Step, Ended
<1>2. x \in Item /\ rowLock[x] = s
    BY <1>1, WrittenType DEF SessionInv, Scripted, TypeOK
<1>3. st.op \in {"rename", "adduser"} => st.on \in User
    BY <1>1 DEF StatementType
<1>4. N \in SUBSET LockType
    <2>1. st.op \in {"rename", "adduser"} => {st.on} \in SUBSET Source
        BY <1>3 DEF Source
    <2> QED
        BY <2>1, ValueLockTypes DEF ChangedValues
<1>5. Goes(s, "write", "find", N, {}, NoWork)
    BY <1>4 DEF Write, Goes, Running, Steps, Ended
<1>6. rowLock' = rowLock
    BY <1>1, <1>2 DEF Write, TypeOK
<1>7. Owned(s)
    <2>1. DOMAIN own' = Session /\ \A u \in Session \ {s} : own'[u] = own[u]
        BY <1>1 DEF TypeOK, Write
    <2>2. own'[s] = [own[s] EXCEPT ![x] = NewValue(s)]
        BY <1>1 DEF TypeOK, Write
    <2>3. DOMAIN own'[s] = Item /\ \A i \in Item : own'[s][i] = IF i = x THEN NewValue(s) ELSE own[s][i]
        BY <1>1, <1>2, <2>2 DEF TypeOK
    <2>4. \A p \in Post : x = <<"post", p>> => NewValue(s) \in Authors
        <3>1. \A p \in Post : x = <<"post", p>> => st.op \in {"insert", "repoint", "delete"}
            BY DEF Written
        <3>2. st.to \in Authors /\ Absent \in Authors
            BY <1>1 DEF StatementType, Authors
        <3>3. st.op \in {"insert", "repoint", "delete"} => NewValue(s) \in {st.to, Absent}
            BY DEF NewValue
        <3> QED
            BY <3>1, <3>2, <3>3
    <2>5. \A p \in Post : <<"post", p>> \in Item
        BY Kinds
    <2> QED
        BY <1>1, <1>2, <2>1, <2>3, <2>4, <2>5 DEF Owned, TypeOK, SessionInv, OwnsWritten
<1>8. Turned(s, "find", N, {}, NoWork) /\ pc'[s] = "find" /\ work'[s] = NoWork
    BY <1>5, GoesTo
<1>9. links' \in [Session -> BOOLEAN]
    BY <1>1 DEF TypeOK, Write, ChangesLink
<1>10. Fresh(NoWork)
    BY FreshWork
<1>11. OneTview(s)' /\ Intends(s)' /\ Keyed(s)' /\ RowsLocked(s)'
    BY <1>8, <1>10 DEF Fresh, OneTview, Intends, Keyed, RowsLocked
<1> QED
    BY <1>1, <1>4, <1>6, <1>7, <1>8, <1>9, <1>10, <1>11, WorkStep
       DEF Fresh, Write, Step, Ended, Steps

LEMMA FannedOutStep ==
    ASSUME IInv, NEW s \in Session, FannedOut(s)
    PROVE  IInv'
<1> DEFINE u == Statement(s).on
           hit == {i \in work[s].target : rowLock[i] = s /\ i[2] \in Embedding(Latest(s), u)}
           w == [work[s] EXCEPT !.fan = {}, !.target = {}]
           row == [i \in Item |-> IF i \in hit THEN PatchedRow(s, i, {u}) ELSE own[s][i]]
<1>1. TypeOK /\ SessionInv(s) /\ WorkOK(work[s]) /\ OneTview(s) /\ pc[s] = "fanned"
    BY Within DEF FannedOut, Step, Ended, SessionInv
<1>2. Goes(s, "fanned", "flush", {}, {}, w)
    BY DEF FannedOut, Goes, Running, Steps, Ended
<1>3. hit \in SUBSET Tv /\ \A i \in hit : rowLock[i] = s
    BY <1>1 DEF OneTview, Tv
<1>4. own' = [own EXCEPT ![s] = row]
    BY DEF FannedOut
<1>5. Owned(s)
    <2>1. DOMAIN row = Item /\ \A i \in Item \ hit : row[i] = own[s][i]
        OBVIOUS
    <2> HIDE DEF row, hit
    <2> QED
        BY <1>3, <1>4, <2>1, WritesTviews
<1>6. WorkOK(w) /\ w.target = {} /\ w.redo = work[s].redo /\ w.all = work[s].all
      /\ w.user = work[s].user /\ w.post = work[s].post /\ w.fan = {}
    BY <1>1 DEF WorkOK
<1> HIDE DEF w
<1>7. Turned(s, "flush", {}, {}, w) /\ pc'[s] = "flush" /\ work'[s] = w
    BY <1>2, GoesTo
<1>8. OneTview(s)' /\ Intends(s)' /\ Keyed(s)' /\ RowsLocked(s)'
    BY <1>1, <1>6, <1>7 DEF OneTview, Intends, Keyed, RowsLocked
<1>9. links' \in [Session -> BOOLEAN]
    BY <1>1 DEF TypeOK, FannedOut
<1> QED
    BY <1>1, <1>5, <1>6, <1>7, <1>8, <1>9, WorkStep DEF FannedOut, Step, Ended, Steps

LEMMA PatchStep ==
    ASSUME IInv, NEW s \in Session, Patch(s)
    PROVE  IInv'
<1> DEFINE hit == {i \in work[s].patched : rowLock[i] = s /\ Latest(s)[i] # Absent}
           redo == work[s].target \ hit
           to == IF redo = {} THEN "check" ELSE "keys"
           R == FirstRows(s, redo)
           w == [work[s] EXCEPT !.redo = redo]
           row == [i \in Item |-> IF i \in hit THEN PatchedRow(s, i, GuardsOf(s, i)) ELSE own[s][i]]
<1>1. TypeOK /\ SessionInv(s) /\ WorkOK(work[s]) /\ OneTview(s) /\ Intends(s) /\ pc[s] = "patch"
    BY Within DEF Patch, Step, Ended, SessionInv
<1>2. R \subseteq Item /\ to \in {"check", "keys"} /\ redo \subseteq work[s].target
    BY <1>1 DEF FirstRows, Existing, WorkOK
<1>3. Goes(s, "patch", to, {}, R, w)
    BY <1>2 DEF Patch, Goes, Running, Steps, Ended
<1>4. hit \in SUBSET Tv /\ \A i \in hit : rowLock[i] = s
    BY <1>1 DEF WorkOK, Tv
<1>5. own' = [own EXCEPT ![s] = row]
    BY DEF Patch
<1>6. Owned(s)
    <2>1. DOMAIN row = Item /\ \A i \in Item \ hit : row[i] = own[s][i]
        OBVIOUS
    <2> HIDE DEF row, hit
    <2> QED
        BY <1>4, <1>5, <2>1, WritesTviews
<1>7. to = "check" => redo = {}
    OBVIOUS
<1> HIDE DEF hit, redo, to, R, row
<1>8. WorkOK(w) /\ w.target = work[s].target /\ w.redo = redo /\ w.all = work[s].all
      /\ w.user = work[s].user /\ w.post = work[s].post /\ w.fan = work[s].fan
    BY <1>1, <1>2 DEF WorkOK
<1> HIDE DEF w
<1>9. Turned(s, to, {}, R, w) /\ pc'[s] = to /\ work'[s] = w
    BY <1>3, GoesTo
<1>10. links' \in [Session -> BOOLEAN] /\ locks' = locks
    BY <1>1 DEF TypeOK, Patch
<1>11. OneTview(s)' /\ Intends(s)' /\ Keyed(s)' /\ RowsLocked(s)'
    BY <1>1, <1>2, <1>7, <1>8, <1>9, <1>10 DEF OneTview, Intends, Keyed, RowsLocked
<1>12. to \in Steps \ ({"idle", "write"} \cup Ended)
    BY <1>2 DEF Steps, Ended
<1> QED
    BY <1>1, <1>2, <1>6, <1>8, <1>9, <1>10, <1>11, <1>12, WorkStep DEF Patch, Step, Ended

\* The rows of an upsert are locked by s, or not there and its to create.
LEMMA UpsertRows ==
    ASSUME IInv, NEW s \in Session, pc[s] = "upsert", rows[s] = {}, NEW i \in work[s].redo
    PROVE  i \in Tv /\ (rowLock[i] = s \/ (store[i] = Absent /\ MayCreate(s, i)))
<1>1. TypeOK /\ OneTview(s) /\ Intends(s) /\ Keyed(s) /\ RowsLocked(s) /\ OwnsWritten(s)
    BY DEF IInv, SessionInv
<1>2. i \in Tv /\ i \in Item /\ i \in work[s].target /\ (work[s].all => i \in TvPost)
    BY <1>1, Kinds DEF OneTview, Tv
<1>3. rowLock[i] # s => store[i] = Absent
    BY <1>1, <1>2 DEF RowsLocked, OwnsWritten, Latest, With
<1>4. rowLock[i] # s => MayCreate(s, i)
    BY <1>1, <1>2 DEF Keyed, KeyLocked, Intends, MayCreate
<1> QED
    BY <1>2, <1>3, <1>4

LEMMA UpsertStep ==
    ASSUME IInv, NEW s \in Session, Upsert(s)
    PROVE  IInv'
<1> DEFINE R == work[s].redo
           changed == {i \in R : Latest(s)[i] # work[s].fresh[i]}
           row == [i \in Item |-> IF i \in changed THEN work[s].fresh[i] ELSE own[s][i]]
           w == [work[s] EXCEPT !.redo = {}, !.fresh = <<>>]
<1>1. /\ TypeOK /\ SessionInv(s) /\ NoClash /\ Creators /\ WorkOK(work[s]) /\ OneTview(s)
      /\ pc[s] = "upsert" /\ rows[s] = {} /\ need[s] = {} /\ script[s] # <<>>
    BY Within DEF IInv, Upsert, Step, Ended, SessionInv
<1>2. \A i \in R : i \in Tv /\ (rowLock[i] = s \/ (store[i] = Absent /\ MayCreate(s, i)))
    BY <1>1, UpsertRows
<1>3. \A i \in R, u \in Session \ {s} : rowLock[i] # u
    BY <1>1, <1>2, OneCreator DEF Creators
<1>4. /\ rowLock' = [i \in Item |-> IF i \in R THEN s ELSE rowLock[i]]
      /\ own' = [own EXCEPT ![s] = row]
      /\ UNCHANGED <<store, writer, snapshot, level, way, script, locks, links, need, rows>>
    BY DEF Upsert, LockedByUpsert, Step
<1>5. DOMAIN row = Item /\ \A i \in Item \ R : row[i] = own[s][i]
    OBVIOUS
<1> HIDE DEF row
<1>6. /\ DOMAIN own' = Session /\ own'[s] = row /\ \A u \in Session \ {s} : own'[u] = own[u]
      /\ \A u \in Session : DOMAIN own'[u] = Item
    BY <1>1, <1>4, <1>5 DEF TypeOK
<1>7. rowLock' \in [Item -> Session \cup {None}]
      /\ \A i \in Item : rowLock'[i] = IF i \in R THEN s ELSE rowLock[i]
    BY <1>1, <1>4 DEF TypeOK
<1>8. WorkOK(w) /\ w.target = work[s].target /\ w.redo = {} /\ w.all = work[s].all
      /\ w.user = work[s].user /\ w.post = work[s].post /\ w.fan = work[s].fan
    BY <1>1 DEF WorkOK
<1>9. /\ pc' \in [Session -> Steps] /\ pc'[s] = "check" /\ work'[s] = w /\ DOMAIN work' = Session
      /\ \A u \in Session \ {s} : work'[u] = work[u] /\ pc'[u] = pc[u]
    BY <1>1 DEF TypeOK, Upsert, Step, Steps, Worked
<1> HIDE DEF w
<1>10. Alone(s)
    BY <1>1, <1>3, <1>4, <1>6, <1>7, <1>9 DEF Alone
<1>11. TypeOK'
    <2>1. \A p \in Post : <<"post", p>> \in Item \ R
        BY <1>2, Kinds
    <2>2. \A u \in Session, p \in Post : own'[u][<<"post", p>>] \in Authors \cup {None}
        BY <1>1, <1>5, <1>6, <2>1 DEF TypeOK
    <2>3. \A u \in Session : WorkOK(work'[u])
        BY <1>1, <1>8, <1>9 DEF TypeOK
    <2> QED
        BY <1>1, <1>4, <1>6, <1>7, <1>9, <2>2, <2>3 DEF TypeOK, WorkOK
<1>12. NoClash' /\ Creators'
    <2>1. \A t \in Session, i \in Tv : MayCreate(t, i)' <=> MayCreate(t, i)
        BY <1>4 DEF MayCreate
    <2>2. \A i \in Tv : i \in Item
        BY Kinds DEF Tv
    <2>3. \A t \in Session, i \in Tv : rowLock'[i] = t /\ store[i] = Absent => MayCreate(t, i)
        BY <1>1, <1>2, <1>7, <2>2 DEF Creators
    <2> QED
        BY <1>1, <1>4, <2>1, <2>3 DEF NoClash, Creators
<1>13. OneTview(s)' /\ Intends(s)' /\ Keyed(s)' /\ RowsLocked(s)'
    BY <1>1, <1>8, <1>9 DEF OneTview, Intends, Keyed, RowsLocked
<1>14. Scripted(s)' /\ OwnsWritten(s)'
    BY <1>1, <1>4, <1>5, <1>6, <1>7, <1>9 DEF SessionInv, Scripted, OwnsWritten, Ended
<1>15. Snapped(s)'
    <2>1. SnapshotOf(s) => SnapshotOf(s)'
        BY <1>1, <1>4, <1>10 DEF SnapshotOf, Alone
    <2> QED
        BY <1>1, <1>4, <1>9, <2>1 DEF SessionInv, Snapped, InSnapshot, Ended
<1> QED
    BY <1>1, <1>4, <1>10, <1>11, <1>12, <1>13, <1>14, <1>15, Concludes DEF SessionInv

-----------------------------------------------------------------------------
(* The end of a transaction. *)

\* A transaction ends that holds what it changes, its writes kept or not.
LEMMA EndStep ==
    ASSUME IInv, NEW s \in Session, NEW how \in Ended, pc[s] # "committed", End(s, how),
           DOMAIN store' = Item, writer' \in [Item -> Session \cup {None}],
           \A i \in Item : store'[i] # store[i] => rowLock[i] = s,
           \A i \in Item : (store'[i] = store[i] /\ writer'[i] = writer[i]) \/ writer'[i] = s,
           \A p \in Post : store'[<<"post", p>>] \in Authors
    PROVE  IInv'
<1>1. TypeOK /\ NoClash /\ Creators
    BY DEF IInv
<1>2. Fresh(NoWork)
    BY FreshWork
<1>3. \A i \in Item : rowLock'[i] = IF rowLock[i] = s THEN None ELSE rowLock[i]
    BY DEF End
<1>4. /\ pc' \in [Session -> Steps] /\ pc'[s] = how /\ \A u \in Session \ {s} : pc'[u] = pc[u]
      /\ need' \in [Session -> SUBSET LockType] /\ need'[s] = {} /\ \A u \in Session \ {s} : need'[u] = need[u]
      /\ rows' \in [Session -> SUBSET Item] /\ rows'[s] = {} /\ \A u \in Session \ {s} : rows'[u] = rows[u]
      /\ locks' \in [Session -> SUBSET LockType] /\ locks'[s] = {}
      /\ \A u \in Session \ {s} : locks'[u] = locks[u]
      /\ links' \in [Session -> BOOLEAN]
    BY <1>1 DEF TypeOK, End, Locking, Ended, Steps
<1>5. /\ DOMAIN work' = Session /\ work'[s] = NoWork /\ \A u \in Session \ {s} : work'[u] = work[u]
      /\ DOMAIN script' = Session /\ script'[s] = <<>> /\ \A u \in Session \ {s} : script'[u] = script[u]
      /\ DOMAIN snapshot' = Session /\ snapshot'[s] = None
      /\ \A u \in Session \ {s} : snapshot'[u] = snapshot[u]
    BY <1>1 DEF TypeOK, End, Worked
<1>6. /\ DOMAIN own' = Session /\ own'[s] = [i \in Item |-> None]
      /\ \A u \in Session \ {s} : own'[u] = own[u]
    BY <1>1 DEF TypeOK, End
<1>7. UNCHANGED <<level, way>>
    BY DEF End
<1>8. Alone(s)
    BY <1>3, <1>4, <1>5, <1>6, <1>7, Apart DEF Alone
<1>9. TypeOK'
    <2>1. rowLock' \in [Item -> Session \cup {None}]
        BY <1>1 DEF TypeOK, End
    <2>2. \A u \in Session : WorkOK(work'[u])
        BY <1>1, <1>2, <1>5 DEF TypeOK, Fresh
    <2>3. \A u \in Session : script'[u] \in Seq(StatementType)
        <3>1. <<>> \in Seq(StatementType)
            OBVIOUS
        <3>2. \A u \in Session : u = s \/ script'[u] = script[u]
            BY <1>5
        <3>3. \A u \in Session : script[u] \in Seq(StatementType)
            BY <1>1 DEF TypeOK
        <3> QED
            BY <1>5, <3>1, <3>2, <3>3
    <2>4. \A p \in Post : <<"post", p>> \in Item
        BY Kinds
    <2>5. \A u \in Session :
             DOMAIN own'[u] = Item /\ \A p \in Post : own'[u][<<"post", p>>] \in Authors \cup {None}
        <3> SUFFICES ASSUME NEW u \in Session
                     PROVE  /\ DOMAIN own'[u] = Item
                            /\ \A p \in Post : own'[u][<<"post", p>>] \in Authors \cup {None}
            OBVIOUS
        <3>1. CASE u = s
            BY <1>6, <2>4, <3>1
        <3>2. CASE u # s
            BY <1>1, <1>6, <3>2 DEF TypeOK
        <3> QED
            BY <3>1, <3>2
    <2> QED
        BY <1>1, <1>4, <1>5, <1>6, <1>7, <2>1, <2>2, <2>3, <2>5 DEF TypeOK, WorkOK
<1>10. NoClash'
    BY <1>1, <1>4 DEF NoClash
<1>11. Creators'
    <2>1. \A i \in Tv : i \in Item
        BY Kinds DEF Tv
    <2>2. \A u \in Session \ {s}, i \in Tv : MayCreate(u, i) => MayCreate(u, i)'
        BY <1>4 DEF MayCreate
    <2> QED
        BY <1>1, <1>3, <2>1, <2>2, Apart DEF Creators
<1>12. SessionInv(s)'
    <2>1. OneTview(s)' /\ Intends(s)' /\ Keyed(s)' /\ RowsLocked(s)'
        BY <1>2, <1>4, <1>5 DEF Fresh, OneTview, Intends, Keyed, RowsLocked, Ended
    <2>2. Scripted(s)' /\ OwnsWritten(s)' /\ Snapped(s)'
        BY <1>4, <1>5, <1>6 DEF Scripted, OwnsWritten, Snapped, Ended
    <2> QED
        BY <2>1, <2>2 DEF SessionInv
<1> QED
    BY <1>8, <1>9, <1>10, <1>11, <1>12, Concludes

LEMMA CommitStep ==
    ASSUME IInv, NEW s \in Session, Commit(s)
    PROVE  IInv'
<1>1. TypeOK /\ OwnsWritten(s)
    BY DEF IInv, SessionInv
<1>2. \A i \in Item : store'[i] = IF own[s][i] # None THEN own[s][i] ELSE store[i]
    BY DEF Commit, Latest, With
<1>3. \A i \in Item : writer'[i] = IF own[s][i] # None THEN s ELSE writer[i]
    BY DEF Commit
<1>4. DOMAIN store' = Item /\ writer' \in [Item -> Session \cup {None}]
    BY <1>1 DEF Commit, Latest, With, TypeOK
<1>5. \A p \in Post : store'[<<"post", p>>] \in Authors
    <2>1. \A p \in Post : <<"post", p>> \in Item
        BY Kinds
    <2> QED
        BY <1>1, <1>2, <2>1 DEF TypeOK
<1> QED
    BY <1>1, <1>2, <1>3, <1>4, <1>5, EndStep DEF Commit, OwnsWritten, Ended

LEMMA FailStep ==
    ASSUME IInv, NEW s \in Session, pc[s] # "committed", Fail(s)
    PROVE  IInv'
    BY EndStep DEF IInv, TypeOK, Fail, Ended

\* A session that ended waits for nothing.
LEMMA SerializationFailureStep ==
    ASSUME IInv, NEW s \in Session, SerializationFailure(s)
    PROVE  IInv'
<1>1. Scripted(s)
    BY DEF IInv, SessionInv
<1>2. \A i \in NextRows(s) : i \in rows[s]
    BY DEF NextRows
<1>3. pc[s] # "committed"
    BY <1>1, <1>2 DEF SerializationFailure, Scripted, Ended
<1> QED
    BY <1>3, FailStep DEF SerializationFailure

LEMMA DetectDeadlockStep ==
    ASSUME IInv, NEW s \in Session, DetectDeadlock(s)
    PROVE  IInv'
<1>1. Scripted(s)
    BY DEF IInv, SessionInv
<1>2. WaitsFor(s) # {}
    <2>1. (\A u \in {s} \cup {} : WaitsFor(u) \subseteq {}) => s \in {}
        BY DEF DetectDeadlock, Deadlocked, Ahead
    <2> QED
        BY <2>1
<1>3. need[s] # {} \/ rows[s] # {}
    BY <1>2 DEF WaitsFor, NextRows
<1> QED
    BY <1>1, <1>3, FailStep DEF DetectDeadlock, Scripted, Ended

-----------------------------------------------------------------------------
(* The invariant holds. *)

LEMMA InitOK == Init => IInv
<1> SUFFICES ASSUME Init PROVE IInv
    OBVIOUS
<1>1. Fresh(NoWork)
    BY FreshWork
<1>2. PICK start \in Starts : store = Filled(start)
    BY DEF Init
<1>3. DOMAIN store = Item
    BY <1>2 DEF Filled
<1>4. \A p \in Post : store[<<"post", p>>] \in Authors
    <2> SUFFICES ASSUME NEW p \in Post
                 PROVE  store[<<"post", p>>] \in Authors
        OBVIOUS
    <2>1. <<"post", p>> \in Item
        BY Kinds
    <2>2. store[<<"post", p>>] = start.posts[p]
        BY <1>2, <2>1 DEF Filled
    <2> QED
        BY <2>2, ScriptAssumption
<1>5. TypeOK
    <2>1. DOMAIN script = Session /\ \A s \in Session : script[s] \in Seq(StatementType)
        BY ScriptAssumption DEF Init
    <2>2. level \in [Session -> {"RC", "RR"}] /\ way \in {"mapping", "fanout", "embed"}
        BY ScriptAssumption DEF Init
    <2>3. /\ DOMAIN own = Session /\ \A s \in Session : DOMAIN own[s] = Item
          /\ \A s \in Session, i \in Item : own[s][i] = None
        BY DEF Init
    <2>4. \A p \in Post : <<"post", p>> \in Item
        BY Kinds
    <2>5. pc \in [Session -> Steps] /\ DOMAIN work = Session /\ \A s \in Session : WorkOK(work[s])
        BY <1>1 DEF Init, Fresh, Steps
    <2>6. /\ writer \in [Item -> Session \cup {None}] /\ rowLock \in [Item -> Session \cup {None}]
          /\ DOMAIN snapshot = Session
          /\ locks \in [Session -> SUBSET LockType] /\ need \in [Session -> SUBSET LockType]
          /\ rows \in [Session -> SUBSET Item] /\ links \in [Session -> BOOLEAN]
        BY DEF Init
    <2> QED
        BY <1>3, <1>4, <2>1, <2>2, <2>3, <2>4, <2>5, <2>6 DEF TypeOK
<1>6. NoClash /\ Creators
    <2>1. \A i \in Tv : i \in Item
        BY Kinds DEF Tv
    <2> QED
        BY <2>1, Apart DEF Init, NoClash, Creators
<1>7. ASSUME NEW s \in Session PROVE SessionInv(s)
    BY <1>1 DEF Init, SessionInv, Scripted, OwnsWritten, OneTview, Intends, Keyed, RowsLocked, Snapped,
                Ended, Fresh
<1> QED
    BY <1>5, <1>6, <1>7 DEF IInv

LEMMA StepOK ==
    ASSUME IInv, [Next]_vars
    PROVE  IInv'
<1>1. CASE UNCHANGED vars
    <2>1. TypeOK' /\ NoClash' /\ Creators'
        BY <1>1 DEF vars, IInv, TypeOK, WorkOK, NoClash, Creators, MayCreate
    <2>2. ASSUME NEW s \in Session PROVE SessionInv(s)'
        <3>1. /\ Written(s)' = Written(s) /\ Latest(s)' = Latest(s) /\ InSnapshot(s)' = InSnapshot(s)
              /\ \A i : KeyLocked(s, i)' = KeyLocked(s, i)
            BY <1>1 DEF vars, Written, Statement, Latest, With, InSnapshot, KeyLocked
        <3>2. SessionInv(s)
            BY DEF IInv
        <3>3. Scripted(s)' /\ OwnsWritten(s)' /\ OneTview(s)' /\ Intends(s)'
            BY <1>1, <3>1, <3>2 DEF vars, SessionInv, Scripted, OwnsWritten, OneTview, Intends
        <3>4. Keyed(s)' /\ RowsLocked(s)'
            BY <1>1, <3>1, <3>2 DEF vars, SessionInv, Keyed, RowsLocked
        <3>5. Snapped(s)'
            BY <1>1, <3>1, <3>2 DEF vars, SessionInv, Snapped, SnapshotOf
        <3> QED
            BY <3>3, <3>4, <3>5 DEF SessionInv
    <2> QED
        BY <2>1, <2>2 DEF IInv
<1>2. ASSUME NEW s \in Session, SessionStep(s) PROVE IInv'
    BY <1>2, StartStep, LockRowStep, LockValueStep, WriteStep, WriteNothingStep, FindStep,
       FlushDoneStep, FanoutStep, FannedOutStep, RefreshAllStep, ReconcileStep, ApplyKeysStep,
       LockReadsStep, LockOrderStep, GuardStep, PatchStep, LockKeysStep, LockCreatedStep,
       ComputeStep, UpsertStep, CheckStep, LookupStep, CommitStep, SerializationFailureStep,
       DetectDeadlockStep DEF SessionStep
<1> QED
    BY <1>1, <1>2 DEF Next

LEMMA InvHolds == Spec => []IInv
<1>1. Init => IInv
    BY InitOK
<1>2. IInv /\ [Next]_vars => IInv'
    BY StepOK
<1> QED
    BY <1>1, <1>2, PTL DEF Spec

\* Every reachable state is well typed: the sessions' steps, their work, the
\* rows and locks they hold and wait for.
THEOREM TypeCorrect == Spec => []TypeOK
<1>1. IInv => TypeOK
    BY DEF IInv
<1> QED
    BY <1>1, InvHolds, PTL

\* No two sessions hold value locks that conflict, at any time.
THEOREM LocksNeverClash == Spec => []NoClash
<1>1. IInv => NoClash
    BY DEF IInv
<1> QED
    BY <1>1, InvHolds, PTL

\* A refresh at READ COMMITTED that starts its upsert has locked the rows it
\* computed, and the keys of those it creates.
THEOREM RowsAreLocked == Spec => []ComputedRowsAreLocked
<1>1. IInv => ComputedRowsAreLocked
    <2> SUFFICES ASSUME IInv, NEW s \in Session, pc[s] = "upsert", ~InSnapshot(s), ~work[s].all
                 PROVE  /\ Unlocked(s) = {}
                        /\ \A i \in work[s].redo : Latest(s)[i] # Absent => rowLock[i] = s
        BY DEF ComputedRowsAreLocked
    <2>1. Keyed(s) /\ RowsLocked(s)
        BY DEF IInv, SessionInv
    <2>2. \A i \in work[s].redo : Latest(s)[i] = Absent => HoldsKey(s, i)
        BY <2>1 DEF Keyed, KeyLocked, HoldsKey, KeyLock
    <2> QED
        BY <2>1, <2>2 DEF RowsLocked, Unlocked
<1> QED
    BY <1>1, InvHolds, PTL

-----------------------------------------------------------------------------
(* The order of waiting. Transactions of one statement that changes no     *)
(* link, at READ COMMITTED, hold at each step only what comes before what  *)
(* they wait for there: the row the statement writes, the values its       *)
(* trigger locks, rows of tv_user, keys of rows to create there, the users *)
(* whose posts are looked up, rows of tv_post and keys of rows to create   *)
(* there; rows, values and keys by key.                                    *)

\* Every transaction is of one statement, at READ COMMITTED.
Autocommit == \A s \in Session : level[s] = "RC" /\ Len(script[s]) <= 1

\* Its refresh locks no values its rows read, and is not of a whole TVIEW.
Value(s) == ~links[s] /\ ~work[s].all

Passing == {"reads", "order", "guard", "patch", "keys", "created", "compute", "upsert", "check"}

\* A refresh of rows by key.
Active(s) ==
    /\ Value(s)
    /\ \/ pc[s] \in Passing \cup {"lookup"}
       \/ pc[s] = "flush" /\ (work[s].user # {} \/ work[s].post # {})

\* The TVIEW it is at: its rows, and where the keys of new ones are locked.
Users(s) == work[s].user # {}
PassRows(s) == IF Users(s) THEN TvUser ELSE TvPost
NewSpace(s) == IF Users(s) THEN "new_tv_user" ELSE "new_tv_post"

\* A writer's locks of a relation are taken in order.
InOrder(s) ==
    \A k \in locks[s], l \in need[s] :
        k.side = "writer" /\ l.side = "writer" /\ k.space = l.space => k.what < l.what

\* One statement, that holds nothing before it has locked the row it writes.
Single(s) ==
    /\ level[s] = "RC" /\ Len(script[s]) <= 1
    /\ pc[s] \in {"idle", "flush"} => need[s] = {} /\ rows[s] = {}
    /\ pc[s] = "idle" /\ script[s] # <<>> => locks[s] = {} /\ \A i \in Item : rowLock[i] # s
    /\ pc[s] = "write" =>
         /\ need[s] = {} /\ locks[s] = {} /\ \A i \in Tv : rowLock[i] # s
         /\ rows[s] # {} => \A i \in Item : rowLock[i] # s

\* Its trigger locks values of the users' table.
Finding(s) ==
    pc[s] = "find" =>
        /\ rows[s] = {} /\ (\A i \in Tv : rowLock[i] # s) /\ InOrder(s)
        /\ \A l \in locks[s] \cup need[s] :
             l.side = "writer" /\ l.space = "source" /\ l.what # WholeLock

\* What its refresh is at: a user first, by itself, then posts.
Shape(s) ==
    LET w == work[s]
    IN  /\ Value(s) => pc[s] \notin {"fanned", "whole"} /\ (pc[s] \in {"flush", "lookup"} \cup Passing => w.fan = {})
        /\ Active(s) =>
             /\ w.user = {} \/ \E x \in User : w.user = {x}
             /\ pc[s] = "lookup" => Users(s)
             /\ pc[s] \in Passing =>
                  w.target \subseteq PassRows(s) /\ (Users(s) => w.target = {"tv_user"} \X w.user)
             /\ way = "mapping" => w.user = {} /\ w.patched = {}

\* The value locks it holds and waits for.
Valued(s) ==
    Active(s) =>
        /\ \A l \in locks[s] \cup need[s] :
             /\ l.what # WholeLock /\ (l.side = "refresh" => l.what = IntentLock)
             /\ Users(s) => l.space # "new_tv_post"
             /\ Users(s) /\ pc[s] # "lookup" => l.side = "refresh" \/ l.space # "tv_user"
             /\ pc[s] \in {"flush", "reads", "order", "guard", "patch", "keys"} => l.space # NewSpace(s)
        /\ InOrder(s)
        /\ pc[s] \notin {"reads", "created", "lookup"} => need[s] = {}
        /\ \A l \in need[s] :
             /\ pc[s] = "reads" => l.side = "refresh"
             /\ pc[s] = "created" => l.side = "writer" /\ l.space = NewSpace(s)
             /\ pc[s] = "lookup" => l.side = "writer" /\ l.space = "tv_user"

\* The rows it holds and waits for.
Rowed(s) ==
    Active(s) =>
        /\ Users(s) => \A i \in TvPost : rowLock[i] # s
        /\ pc[s] \in {"flush", "reads", "order"} => \A i \in PassRows(s) : rowLock[i] # s
        /\ pc[s] \in Passing =>
             /\ rows[s] \subseteq work[s].target
             /\ \A i \in PassRows(s) : rowLock[i] = s => i \in work[s].target
        /\ pc[s] \in {"flush", "reads", "order", "created", "check", "lookup"} => rows[s] = {}
        /\ pc[s] = "upsert" => rows[s] \subseteq work[s].redo
        /\ way = "mapping" /\ pc[s] \in {"guard", "patch"} =>
             rows[s] = {} /\ \A i \in PassRows(s) : rowLock[i] # s
        /\ pc[s] = "guard" \/ (way = "mapping" /\ pc[s] = "keys") =>
             \A i \in rows[s], j \in PassRows(s) : rowLock[j] = s => j[2] < i[2]

OrderInv(s) == Single(s) /\ Finding(s) /\ Shape(s) /\ Valued(s) /\ Rowed(s)

Ordered == way # "fanout" /\ \A s \in Session : OrderInv(s)

-----------------------------------------------------------------------------
(* What a step leaves in order. *)

LEMMA TvItems == Tv \subseteq Item /\ TvPost \subseteq Tv /\ TvUser \subseteq Tv
    BY Kinds DEF Tv

\* The others' order is their own.
LEMMA OthersOrdered ==
    ASSUME NEW s \in Session, Alone(s), way' = way, NEW u \in Session \ {s}, OrderInv(u),
           links'[u] = links[u]
    PROVE  OrderInv(u)'
<1>1. \A i \in Item : rowLock'[i] = u <=> rowLock[i] = u
    BY DEF Alone
<1>2. \A i \in Tv : i \in Item /\ (rowLock'[i] = u <=> rowLock[i] = u)
    BY <1>1, TvItems
<1>3. /\ pc'[u] = pc[u] /\ need'[u] = need[u] /\ rows'[u] = rows[u] /\ work'[u] = work[u]
      /\ locks'[u] = locks[u] /\ script'[u] = script[u] /\ level'[u] = level[u]
    BY DEF Alone
<1>4. /\ Value(u)' <=> Value(u)
      /\ Active(u)' <=> Active(u)
      /\ Users(u)' <=> Users(u)
      /\ InOrder(u)' <=> InOrder(u)
    BY <1>3 DEF Value, Active, Users, InOrder
<1>5. PassRows(u)' = PassRows(u) /\ NewSpace(u)' = NewSpace(u) /\ PassRows(u) \subseteq Tv
    BY <1>4, TvItems DEF PassRows, NewSpace
<1>6. Single(u)'
    BY <1>1, <1>2, <1>3 DEF OrderInv, Single
<1>7. Finding(u)'
    BY <1>2, <1>3, <1>4 DEF OrderInv, Finding
<1>8. Shape(u)'
    BY <1>3, <1>4, <1>5 DEF OrderInv, Shape
<1>9. Valued(u)'
    BY <1>3, <1>4, <1>5 DEF OrderInv, Valued
<1>10. Rowed(u)'
    BY <1>2, <1>3, <1>4, <1>5, TvItems DEF OrderInv, Rowed
<1> QED
    BY <1>6, <1>7, <1>8, <1>9, <1>10 DEF OrderInv

\* A step of s that leaves its own order.
LEMMA StaysOrdered ==
    ASSUME Ordered, NEW s \in Session, Alone(s), way' = way,
           \A u \in Session \ {s} : links'[u] = links[u], OrderInv(s)'
    PROVE  Ordered'
    BY OthersOrdered DEF Ordered

\* A step that takes no lock, and writes at most its session's rows.
Leaves(s) ==
    UNCHANGED <<rowLock, script, locks, links>> /\ \A u \in Session \ {s} : own'[u] = own[u]

LEMMA UnwrittenLeaves == ASSUME Unwritten, NEW s PROVE Leaves(s)
    BY DEF Unwritten, Leaves

\* Such a step of a statement, from where it was to where it goes.
LEMMA Proceeds ==
    ASSUME IInv, Ordered, NEW s \in Session, NEW from, NEW to, NEW N, NEW R, NEW w,
           Goes(s, from, to, N, R, w), Leaves(s), to = "flush" => N = {} /\ R = {}
    PROVE  /\ Alone(s) /\ way' = way /\ way \in {"mapping", "embed"} /\ OrderInv(s)
           /\ UNCHANGED <<rowLock, locks, links, script, level>>
           /\ pc[s] = from /\ need[s] = {} /\ rows[s] = {}
           /\ pc'[s] = to /\ need'[s] = N /\ rows'[s] = R /\ work'[s] = w
           /\ TypeOK /\ SessionInv(s) /\ WorkOK(work[s])
           /\ Single(s)'
<1>1. TypeOK /\ SessionInv(s) /\ Turned(s, to, N, R, w) /\ WorkOK(work[s])
      /\ pc[s] = from /\ need[s] = {} /\ rows[s] = {}
      /\ pc'[s] = to /\ need'[s] = N /\ rows'[s] = R /\ work'[s] = w
    BY GoesTo
<1>2. UNCHANGED <<rowLock, locks, links, script, level, snapshot, way>>
    BY DEF Leaves, Goes, Step
<1>3. Alone(s)
    BY <1>1, <1>2 DEF TypeOK, Alone, Turned, Leaves
<1>4. way \in {"mapping", "embed"} /\ OrderInv(s)
    BY <1>1 DEF Ordered, TypeOK
<1>5. to \notin {"idle", "write"}
    BY DEF Goes, Running
<1>6. Single(s)'
    BY <1>1, <1>2, <1>4, <1>5 DEF OrderInv, Single
<1> QED
    BY <1>1, <1>2, <1>3, <1>4, <1>6

\* The lock of values: none for none.
LEMMA ValueLocksIn ==
    ASSUME NEW side, NEW space, NEW K \in SUBSET Source
    PROVE  /\ K = {} => ValueLocks(side, space, K) = {}
           /\ \A l \in ValueLocks(side, space, K) :
                l.side = side /\ l.space = space /\ l.what # WholeLock
    BY Apart DEF ValueLocks, L, IntentLock, WholeLock

\* It goes on without a refresh by key.
LEMMA Inactive ==
    ASSUME NEW s \in Session, Single(s)', pc'[s] # "find", ~Active(s)',
           Value(s)' => pc'[s] \notin {"fanned", "whole"} /\ (pc'[s] = "flush" => work'[s].fan = {})
    PROVE  OrderInv(s)'
    BY DEF OrderInv, Finding, Shape, Valued, Rowed, Active

-----------------------------------------------------------------------------
(* The steps of a refresh. *)

LEMMA FindOrder ==
    ASSUME IInv, Ordered, NEW s \in Session, Find(s)
    PROVE  Ordered'
<1> DEFINE w == Queued(s)
<1>1. Goes(s, "find", "flush", {}, {}, w) /\ Leaves(s)
    BY UnwrittenLeaves DEF Find, Goes, Running, Steps, Ended
<1>2. /\ Alone(s) /\ way' = way /\ way \in {"mapping", "embed"} /\ OrderInv(s)
      /\ UNCHANGED <<rowLock, locks, links, script, level>>
      /\ pc[s] = "find" /\ need[s] = {} /\ rows[s] = {}
      /\ pc'[s] = "flush" /\ need'[s] = {} /\ rows'[s] = {} /\ work'[s] = w /\ Single(s)'
    BY <1>1, Proceeds
<1>3. Statement(s) \in StatementType
    BY <1>2, Within DEF Ended
<1>4. /\ w.fan = {} /\ (w.user = {} \/ \E x \in User : w.user = {x})
      /\ way = "mapping" => w.user = {} /\ w.patched = {}
    <2>1. Statement(s).op \in {"rename", "adduser"} => Statement(s).on \in User
        BY <1>3 DEF StatementType
    <2> QED
        BY <1>2, <2>1 DEF Queued, NoWork
<1> HIDE DEF w
<1>5. Finding(s)' /\ Shape(s)'
    BY <1>2, <1>4 DEF Finding, Shape, Active, Users, Passing
<1>6. Finding(s)
    BY <1>2 DEF OrderInv
<1>7. Valued(s)'
    BY <1>2, <1>6 DEF Finding, Valued, InOrder, NewSpace, Users
<1>8. Rowed(s)'
    BY <1>2, <1>6, TvItems DEF Finding, Rowed, PassRows, Passing
<1> QED
    BY <1>2, <1>5, <1>7, <1>8, StaysOrdered DEF OrderInv

LEMMA FanoutOrder ==
    ASSUME IInv, Ordered, NEW s \in Session, Fanout(s)
    PROVE  Ordered'
<1> DEFINE R == {"tv_post"} \X Embedding(Seen(s), Statement(s).on)
           w == [work[s] EXCEPT !.target = R]
<1>1. R \subseteq Item
    BY FoundPosts DEF Item
<1>2. Goes(s, "flush", "fanned", {}, R, w) /\ work[s].fan # {} /\ Leaves(s)
    BY <1>1, UnwrittenLeaves DEF Fanout, Goes, Running, Steps, Ended
<1>3. /\ Alone(s) /\ way' = way /\ OrderInv(s)
      /\ UNCHANGED <<rowLock, locks, links, script, level>>
      /\ pc[s] = "flush" /\ pc'[s] = "fanned" /\ work'[s] = w /\ Single(s)' /\ WorkOK(work[s])
    BY <1>2, Proceeds
<1>4. ~Value(s) /\ w.all = work[s].all
    BY <1>2, <1>3 DEF OrderInv, Shape, WorkOK
<1> HIDE DEF w
<1>5. ~Value(s)' /\ ~Active(s)'
    BY <1>3, <1>4 DEF Value, Active
<1> QED
    BY <1>3, <1>5, Inactive, StaysOrdered

LEMMA RefreshAllOrder ==
    ASSUME IInv, Ordered, NEW s \in Session, RefreshAll(s)
    PROVE  Ordered'
<1>1. {Whole} \in SUBSET LockType
    BY LockTypes
<1>2. Goes(s, "flush", "whole", {Whole}, {}, work[s]) /\ work[s].all /\ Leaves(s)
    BY <1>1, UnwrittenLeaves DEF RefreshAll, Goes, Running, Steps, Ended, Whole
<1>3. /\ Alone(s) /\ way' = way /\ links' = links /\ pc'[s] = "whole" /\ work'[s] = work[s] /\ Single(s)'
    BY <1>2, Proceeds
<1>4. ~Value(s)' /\ ~Active(s)'
    BY <1>2, <1>3 DEF Value, Active
<1> QED
    BY <1>3, <1>4, Inactive, StaysOrdered

LEMMA ReconcileOrder ==
    ASSUME IInv, Ordered, NEW s \in Session, Reconcile(s)
    PROVE  Ordered'
<1> DEFINE N == {L("refresh", NameSpace, WholeLock)}
           w == [work[s] EXCEPT !.target = TvPost, !.redo = TvPost]
<1>1. N \in SUBSET LockType
    BY DEF L, LockType, NameSpace
<1>2. Goes(s, "whole", "compute", N, {}, w) /\ Leaves(s)
    BY <1>1, UnwrittenLeaves DEF Reconcile, Goes, Running, Steps, Ended, TvPost
<1>3. /\ Alone(s) /\ way' = way /\ links' = links /\ OrderInv(s) /\ WorkOK(work[s])
      /\ pc[s] = "whole" /\ pc'[s] = "compute" /\ work'[s] = w /\ Single(s)'
    BY <1>2, Proceeds
<1>4. ~Value(s) /\ w.all = work[s].all
    BY <1>3 DEF OrderInv, Shape, WorkOK
<1> HIDE DEF w
<1>5. ~Value(s)' /\ ~Active(s)'
    BY <1>3, <1>4 DEF Value, Active
<1> QED
    BY <1>3, <1>5, Inactive, StaysOrdered

LEMMA ApplyKeysOrder ==
    ASSUME IInv, Ordered, NEW s \in Session, ApplyKeys(s)
    PROVE  Ordered'
<1> DEFINE R == NextPass(s)
           l == L("refresh", TviewOf(R), IntentLock)
           w == [work[s] EXCEPT !.target = R]
<1>1. {l} \in SUBSET LockType
    BY DEF L, LockType, TviewOf
<1>2. Goes(s, "flush", "reads", {l}, {}, w) /\ R # {} /\ Leaves(s)
    BY <1>1, UnwrittenLeaves DEF ApplyKeys, Goes, Running, Steps, Ended
<1>3. /\ Alone(s) /\ way' = way /\ way \in {"mapping", "embed"} /\ OrderInv(s)
      /\ UNCHANGED <<rowLock, locks, links, script, level>>
      /\ pc[s] = "flush" /\ need[s] = {} /\ rows[s] = {} /\ WorkOK(work[s])
      /\ pc'[s] = "reads" /\ need'[s] = {l} /\ rows'[s] = {} /\ work'[s] = w /\ Single(s)'
    BY <1>2, Proceeds
<1>4. /\ w.target = R /\ w.user = work[s].user /\ w.post = work[s].post /\ w.all = work[s].all
      /\ w.patched = work[s].patched /\ w.fan = work[s].fan
    BY <1>3 DEF WorkOK
<1>5. /\ R \subseteq PassRows(s) /\ (Users(s) => R = {"tv_user"} \X work[s].user)
      /\ work[s].user # {} \/ work[s].post # {}
    BY <1>2, <1>3 DEF NextPass, PassRows, Users, TvUser, TvPost, WorkOK
<1>6. l.side = "refresh" /\ l.what = IntentLock /\ l.what # WholeLock /\ l.space \in {"tv_user", "tv_post"}
    BY Apart DEF L, TviewOf
<1> HIDE DEF w, R, l
<1>7. /\ Value(s)' => Value(s) /\ Active(s)
      /\ Users(s)' <=> Users(s)
    BY <1>3, <1>4, <1>5 DEF Value, Active, Users
<1>8. PassRows(s)' = PassRows(s) /\ NewSpace(s)' = NewSpace(s) /\ NewSpace(s) \in {"new_tv_user", "new_tv_post"}
    BY <1>7 DEF PassRows, NewSpace
<1>9. Finding(s)' /\ Shape(s)'
    BY <1>3, <1>4, <1>5, <1>7, <1>8 DEF OrderInv, Finding, Shape, Active, Passing
<1>10. Valued(s)'
    <2>1. InOrder(s)'
        BY <1>3, <1>6 DEF InOrder
    <2> QED
        BY <1>3, <1>6, <1>7, <1>8, <2>1 DEF OrderInv, Valued, Active
<1>11. Rowed(s)'
    BY <1>3, <1>4, <1>7, <1>8 DEF OrderInv, Rowed, Active
<1> QED
    BY <1>3, <1>9, <1>10, <1>11, StaysOrdered DEF OrderInv

\* From one step of a pass to the next, the rows of the pass are the same.
LEMMA PassGoes ==
    ASSUME IInv, Ordered, NEW s \in Session, NEW from \in Passing, NEW to \in Passing,
           NEW N, NEW R, NEW w, Goes(s, from, to, N, R, w), Leaves(s),
           w.target = work[s].target, w.user = work[s].user, w.all = work[s].all, w.fan = work[s].fan,
           w.patched \subseteq work[s].patched
    PROVE  /\ Alone(s) /\ way' = way /\ way \in {"mapping", "embed"}
           /\ UNCHANGED <<rowLock, locks, links>>
           /\ pc[s] = from /\ need[s] = {} /\ rows[s] = {}
           /\ pc'[s] = to /\ need'[s] = N /\ rows'[s] = R /\ work'[s] = w
           /\ SessionInv(s) /\ WorkOK(work[s])
           /\ Active(s)' <=> Active(s)
           /\ Users(s)' <=> Users(s)
           /\ PassRows(s)' = PassRows(s) /\ NewSpace(s)' = NewSpace(s)
           /\ Valued(s) /\ Rowed(s) /\ Shape(s)
           /\ Single(s)' /\ Finding(s)' /\ Shape(s)'
<1>1. /\ Alone(s) /\ way' = way /\ way \in {"mapping", "embed"} /\ OrderInv(s)
      /\ UNCHANGED <<rowLock, locks, links, script, level>>
      /\ pc[s] = from /\ need[s] = {} /\ rows[s] = {}
      /\ pc'[s] = to /\ need'[s] = N /\ rows'[s] = R /\ work'[s] = w
      /\ SessionInv(s) /\ WorkOK(work[s]) /\ Single(s)'
    BY Proceeds DEF Passing
<1>2. (Value(s)' <=> Value(s)) /\ (Users(s)' <=> Users(s)) /\ (Active(s)' <=> Active(s))
    BY <1>1 DEF Value, Users, Active
<1>3. PassRows(s)' = PassRows(s) /\ NewSpace(s)' = NewSpace(s)
    BY <1>2 DEF PassRows, NewSpace
<1>4. from \notin {"flush", "find", "lookup"} /\ to \notin {"flush", "find", "lookup", "fanned", "whole"}
    BY DEF Passing
<1>5. Finding(s)' /\ Shape(s)'
    BY <1>1, <1>2, <1>3, <1>4 DEF OrderInv, Finding, Shape
<1> QED
    BY <1>1, <1>2, <1>3, <1>5 DEF OrderInv

LEMMA LockReadsOrder ==
    ASSUME IInv, Ordered, NEW s \in Session, LockReads(s)
    PROVE  Ordered'
<1> DEFINE N == ValueLocks("refresh", NameSpace, ReadValues(s))
<1>1. N \in SUBSET LockType
    <2>1. TypeOK /\ Snapped(s) /\ WorkOK(work[s]) /\ pc[s] \notin {"idle"} \cup Ended
        BY Within DEF LockReads, Step, Ended, SessionInv
    <2>2. \A p \in Post : AuthorsIn(Seen(s), p) \subseteq User
        BY <2>1, SeenAuthors
    <2>3. \A i \in work[s].target : i[1] = "tv_post" => i[2] \in Post
        BY <2>1 DEF WorkOK, Item
    <2>4. ReadValues(s) \subseteq Source
        BY <2>2, <2>3 DEF ReadValues, Source
    <2> QED
        BY <2>4, ValueLockTypes DEF NameSpace
<1>2. Goes(s, "reads", "order", N, {}, work[s]) /\ Leaves(s)
    BY <1>1, UnwrittenLeaves DEF LockReads, Goes, Running, Steps, Ended
<1>3. "reads" \in Passing /\ "order" \in Passing
    BY DEF Passing
<1>4. Active(s) => N = {}
    BY ValueLocksIn DEF Active, Value, ReadValues
<1> HIDE DEF N
<1>5. /\ Alone(s) /\ way' = way /\ way \in {"mapping", "embed"}
      /\ UNCHANGED <<rowLock, locks, links>>
      /\ pc[s] = "reads" /\ need[s] = {} /\ rows[s] = {}
      /\ pc'[s] = "order" /\ need'[s] = N /\ rows'[s] = {} /\ work'[s] = work[s]
      /\ Active(s)' <=> Active(s)
      /\ Users(s)' <=> Users(s)
      /\ PassRows(s)' = PassRows(s) /\ NewSpace(s)' = NewSpace(s)
      /\ Valued(s) /\ Rowed(s) /\ Single(s)' /\ Finding(s)' /\ Shape(s)'
    BY <1>2, <1>3, PassGoes
<1>6. Valued(s)'
    BY <1>4, <1>5 DEF Valued, InOrder
<1>7. Rowed(s)'
    BY <1>5 DEF Rowed
<1> QED
    BY <1>5, <1>6, <1>7, StaysOrdered DEF OrderInv

\* A step of a pass that next waits for rows of it, in their order.
LEMMA RowsNext ==
    ASSUME IInv, Ordered, NEW s \in Session, NEW from \in Passing, NEW to \in Passing,
           NEW R, NEW w, Goes(s, from, to, {}, R, w), Leaves(s),
           w.target = work[s].target, w.user = work[s].user, w.all = work[s].all, w.fan = work[s].fan,
           w.patched \subseteq work[s].patched, R \subseteq work[s].target,
           from # "upsert", to = "upsert" => R \subseteq w.redo, to \notin {"flush", "reads", "order", "created"},
           to = "check" => R = {},
           to \in {"guard", "patch", "keys"} => from \in {"order", "guard", "patch"},
           Active(s) /\ way = "mapping" /\ to \in {"guard", "patch"} => R = {},
           to = "guard" => from = "order", to = "patch" => from = "guard", to = "keys" => from = "patch"
    PROVE  Ordered'
<1>1. /\ Alone(s) /\ way' = way /\ way \in {"mapping", "embed"}
      /\ UNCHANGED <<rowLock, locks, links>>
      /\ pc[s] = from /\ need[s] = {} /\ rows[s] = {}
      /\ pc'[s] = to /\ need'[s] = {} /\ rows'[s] = R /\ work'[s] = w
      /\ Active(s)' <=> Active(s)
      /\ Users(s)' <=> Users(s)
      /\ PassRows(s)' = PassRows(s) /\ NewSpace(s)' = NewSpace(s)
      /\ Valued(s) /\ Rowed(s) /\ Single(s)' /\ Finding(s)' /\ Shape(s)'
    BY PassGoes
<1>2. to # "lookup" /\ to # "flush" /\ from # "lookup"
    BY DEF Passing
<1>3. Valued(s)'
    BY <1>1, <1>2 DEF Valued, InOrder
<1>4. Rowed(s)'
    <2>1. \A i \in PassRows(s) : rowLock[i] = s /\ Active(s) => i \in work[s].target
        BY <1>1 DEF Rowed
    <2>2. Active(s) /\ (to = "guard" \/ (way = "mapping" /\ to \in {"guard", "patch", "keys"})) =>
             \A i \in PassRows(s) : rowLock[i] # s
        BY <1>1 DEF Rowed
    <2> QED
        BY <1>1, <1>2, <2>1, <2>2 DEF Rowed
<1> QED
    BY <1>1, <1>3, <1>4, StaysOrdered DEF OrderInv

LEMMA LockOrderOrder ==
    ASSUME IInv, Ordered, NEW s \in Session, LockOrder(s)
    PROVE  Ordered'
<1> DEFINE w == work[s]
           lock == w.patched \cap w.target # {} /\ (Cardinality(w.target) > 1 \/ w.guards # {})
           R == IF lock THEN Existing(s, w.target) ELSE {}
<1>1. WorkOK(w) /\ pc[s] = "order"
    BY Within DEF LockOrder, Step, Ended
<1>2. R \subseteq w.target /\ R \subseteq Item
    BY <1>1 DEF Existing, WorkOK
<1>3. Active(s) /\ way = "mapping" => R = {}
    BY DEF Ordered, OrderInv, Shape
<1>4. Goes(s, "order", "guard", {}, R, w) /\ Leaves(s)
    BY <1>2, UnwrittenLeaves DEF LockOrder, Goes, Running, Steps, Ended
<1>5. "order" \in Passing /\ "guard" \in Passing
    BY DEF Passing
<1> HIDE DEF R
<1> QED
    BY <1>2, <1>3, <1>4, <1>5, RowsNext

LEMMA GuardOrder ==
    ASSUME IInv, Ordered, NEW s \in Session, Guard(s)
    PROVE  Ordered'
<1> DEFINE kept == (work[s].patched \cap work[s].target) \ Moved(s)
           R == Existing(s, kept)
           w == [work[s] EXCEPT !.patched = kept]
<1>1. WorkOK(work[s]) /\ pc[s] = "guard"
    BY Within DEF Guard, Step, Ended
<1>2. R \subseteq work[s].target /\ R \subseteq Item
    BY <1>1 DEF Existing, WorkOK
<1>3. Active(s) /\ way = "mapping" => R = {}
    BY DEF Ordered, OrderInv, Shape, Existing
<1>4. Goes(s, "guard", "patch", {}, R, w) /\ Leaves(s)
    BY <1>2, UnwrittenLeaves DEF Guard, Goes, Running, Steps, Ended
<1>5. "guard" \in Passing /\ "patch" \in Passing
    BY DEF Passing
<1>6. w.target = work[s].target /\ w.user = work[s].user /\ w.all = work[s].all
      /\ w.fan = work[s].fan /\ w.patched \subseteq work[s].patched
    BY <1>1 DEF WorkOK
<1> HIDE DEF R, w
<1> QED
    BY <1>2, <1>3, <1>4, <1>5, <1>6, RowsNext

LEMMA PatchOrder ==
    ASSUME IInv, Ordered, NEW s \in Session, Patch(s)
    PROVE  Ordered'
<1> DEFINE hit == {i \in work[s].patched : rowLock[i] = s /\ Latest(s)[i] # Absent}
           redo == work[s].target \ hit
           to == IF redo = {} THEN "check" ELSE "keys"
           R == FirstRows(s, redo)
           w == [work[s] EXCEPT !.redo = redo]
<1>1. TypeOK /\ WorkOK(work[s]) /\ pc[s] = "patch"
    BY Within DEF Patch, Step, Ended
<1>2. R \subseteq work[s].target /\ R \subseteq Item /\ (redo = {} => R = {})
    BY <1>1 DEF FirstRows, Existing, WorkOK
<1>3. Goes(s, "patch", to, {}, R, w)
    BY <1>2 DEF Patch, Goes, Running, Steps, Ended
<1>4. Leaves(s)
    BY <1>1 DEF Patch, Leaves, TypeOK, Step
<1>5. "patch" \in Passing /\ to \in Passing /\ to \in {"check", "keys"} /\ (to = "check" => R = {})
    BY <1>2 DEF Passing
<1>6. w.target = work[s].target /\ w.user = work[s].user /\ w.all = work[s].all
      /\ w.fan = work[s].fan /\ w.patched \subseteq work[s].patched
    BY <1>1 DEF WorkOK
<1> HIDE DEF R, w, to
<1> QED
    BY <1>2, <1>3, <1>4, <1>5, <1>6, RowsNext

LEMMA LockCreatedOrder ==
    ASSUME IInv, Ordered, NEW s \in Session, LockCreated(s)
    PROVE  Ordered'
<1> DEFINE R == CreatedRows(s)
<1>1. WorkOK(work[s]) /\ pc[s] = "created" /\ OneTview(s)
    BY Within DEF LockCreated, Step, Ended, SessionInv
<1>2. R \subseteq work[s].target /\ R \subseteq Item
    BY <1>1 DEF CreatedRows, FirstRows, Existing, WorkOK, OneTview
<1>3. Goes(s, "created", "compute", {}, R, work[s]) /\ Leaves(s)
    BY <1>2, UnwrittenLeaves DEF LockCreated, Goes, Running, Steps, Ended
<1>4. "created" \in Passing /\ "compute" \in Passing
    BY DEF Passing
<1> HIDE DEF R
<1> QED
    BY <1>2, <1>3, <1>4, RowsNext

LEMMA ComputeOrder ==
    ASSUME IInv, Ordered, NEW s \in Session, Compute(s)
    PROVE  Ordered'
<1> DEFINE w == [work[s] EXCEPT !.fresh = [i \in work[s].redo |-> ViewRow(Seen(s), i)]]
           R == work[s].redo
<1>1. WorkOK(work[s]) /\ pc[s] = "compute" /\ OneTview(s)
    BY Within DEF Compute, Step, Ended, SessionInv
<1>2. R \subseteq work[s].target /\ R \subseteq Item
    BY <1>1 DEF WorkOK, OneTview
<1>3. Goes(s, "compute", "upsert", {}, R, w) /\ Leaves(s)
    BY <1>2, UnwrittenLeaves DEF Compute, Goes, Running, Steps, Ended
<1>4. "compute" \in Passing /\ "upsert" \in Passing
    BY DEF Passing
<1>5. w.target = work[s].target /\ w.user = work[s].user /\ w.all = work[s].all
      /\ w.fan = work[s].fan /\ w.patched \subseteq work[s].patched /\ w.redo = R
    BY <1>1 DEF WorkOK
<1> HIDE DEF R, w
<1> QED
    BY <1>2, <1>3, <1>4, <1>5, RowsNext

LEMMA LockKeysOrder ==
    ASSUME IInv, Ordered, NEW s \in Session, LockKeys(s)
    PROVE  Ordered'
<1> DEFINE w == work[s]
           held == {i \in w.redo : IF InSnapshot(s) THEN Seen(s)[i] # Absent
                                   ELSE rowLock[i] = s /\ Latest(s)[i] # Absent}
           missing == {i[2] : i \in w.redo \ held}
           space == KeySpace(TviewOf(w.redo))
           N == ValueLocks("writer", space, missing)
<1>1. WorkOK(w) /\ OneTview(s) /\ pc[s] = "keys"
    BY Within DEF LockKeys, Step, Ended, SessionInv
<1>2. missing \subseteq Source /\ (w.redo = {} => missing = {})
    BY <1>1, Kinds DEF OneTview, Source
<1>3. space \in {"new_tv_user", "new_tv_post"}
    BY DEF KeySpace
<1>4. Active(s) /\ missing # {} => space = NewSpace(s)
    <2>1. SUFFICES ASSUME Active(s), missing # {}
                   PROVE  space = NewSpace(s)
        OBVIOUS
    <2>2. w.redo # {} /\ w.redo \subseteq PassRows(s)
        BY <1>1, <1>2, <2>1 DEF OneTview, Ordered, OrderInv, Shape, Passing
    <2> QED
        BY <2>2, Kinds DEF PassRows, NewSpace, KeySpace, TviewOf
<1> HIDE DEF missing, space
<1>5. N \in SUBSET LockType /\ (missing = {} => N = {})
      /\ \A l \in N : l.side = "writer" /\ l.space = space /\ l.what # WholeLock
    BY <1>2, <1>3, ValueLockTypes, ValueLocksIn
<1>6. Goes(s, "keys", "created", N, {}, w) /\ Leaves(s)
    BY <1>5, UnwrittenLeaves DEF LockKeys, Goes, Running, Steps, Ended, missing, space
<1> HIDE DEF N
<1>7. "keys" \in Passing /\ "created" \in Passing
    BY DEF Passing
<1>8. /\ Alone(s) /\ way' = way /\ way \in {"mapping", "embed"}
      /\ UNCHANGED <<rowLock, locks, links>>
      /\ pc[s] = "keys" /\ need[s] = {} /\ rows[s] = {}
      /\ pc'[s] = "created" /\ need'[s] = N /\ rows'[s] = {} /\ work'[s] = w
      /\ Active(s)' <=> Active(s)
      /\ Users(s)' <=> Users(s)
      /\ PassRows(s)' = PassRows(s) /\ NewSpace(s)' = NewSpace(s)
      /\ Valued(s) /\ Rowed(s) /\ Single(s)' /\ Finding(s)' /\ Shape(s)'
    BY <1>6, <1>7, PassGoes
<1>9. Valued(s)'
    <2>1. Active(s) => \A l \in N : l.side = "writer" /\ l.space = NewSpace(s) /\ l.what # WholeLock
        BY <1>4, <1>5
    <2>2. Users(s) => NewSpace(s) = "new_tv_user"
        BY DEF NewSpace
    <2>3. Active(s) => InOrder(s)'
        BY <1>8, <2>1 DEF InOrder, Valued
    <2> QED
        BY <1>8, <2>1, <2>2, <2>3, <1>3 DEF Valued, NewSpace
<1>10. Rowed(s)'
    BY <1>7, <1>8 DEF Rowed
<1> QED
    BY <1>8, <1>9, <1>10, StaysOrdered DEF OrderInv

LEMMA CheckOrder ==
    ASSUME IInv, Ordered, NEW s \in Session, Check(s)
    PROVE  Ordered'
<1> DEFINE w == work[s]
           N == ValueLocks("writer", "tv_user", w.user)
<1>1. WorkOK(w) /\ OneTview(s) /\ pc[s] = "check" /\ OrderInv(s)
    BY Within DEF Check, Step, Ended, SessionInv, Ordered
<1>2. CASE TviewOf(w.target) = "tv_user"
    <2> w.user \in SUBSET Source
        BY <1>1 DEF WorkOK, Source
    <2>1. N \in SUBSET LockType
          /\ \A l \in N : l.side = "writer" /\ l.space = "tv_user" /\ l.what # WholeLock
        <3>1. N \in SUBSET LockType
            BY ValueLockTypes
        <3> QED
            BY <3>1, ValueLocksIn
    <2>2. Goes(s, "check", "lookup", N, {}, w) /\ Leaves(s)
        BY <1>2, <2>1, UnwrittenLeaves DEF Check, Goes, Running, Steps, Ended
    <2> HIDE DEF N
    <2>3. /\ Alone(s) /\ way' = way /\ way \in {"mapping", "embed"} /\ OrderInv(s)
          /\ UNCHANGED <<rowLock, locks, links, script, level>>
          /\ pc[s] = "check" /\ need[s] = {} /\ rows[s] = {}
          /\ pc'[s] = "lookup" /\ need'[s] = N /\ rows'[s] = {} /\ work'[s] = w /\ Single(s)'
        BY <2>2, Proceeds
    <2>4. (Value(s)' <=> Value(s)) /\ (Users(s)' <=> Users(s))
        BY <2>3 DEF Value, Users
    <2>5. (Active(s)' <=> Active(s)) /\ PassRows(s)' = PassRows(s) /\ NewSpace(s)' = NewSpace(s)
        BY <2>3, <2>4 DEF Active, Passing, PassRows, NewSpace
    <2>6. Active(s) => Users(s)
        BY <1>1, <1>2, Kinds DEF OrderInv, Shape, Passing, PassRows, TviewOf
    <2>7. Finding(s)' /\ Shape(s)'
        BY <2>3, <2>4, <2>5, <2>6 DEF OrderInv, Finding, Shape, Passing
    <2>8. Valued(s)'
        <3>1. Active(s) => \A k \in locks[s] : k.side = "refresh" \/ k.space # "tv_user"
            BY <2>3, <2>6 DEF OrderInv, Valued
        <3>2. Active(s) => InOrder(s)'
            BY <2>1, <2>3, <3>1 DEF InOrder
        <3> QED
            BY <2>1, <2>3, <2>4, <2>5, <3>2 DEF OrderInv, Valued
    <2>9. Rowed(s)'
        BY <2>3, <2>4, <2>5 DEF OrderInv, Rowed, Passing
    <2> QED
        BY <2>3, <2>7, <2>8, <2>9, StaysOrdered DEF OrderInv
<1>3. CASE TviewOf(w.target) # "tv_user"
    <2>1. Goes(s, "check", "flush", {}, {}, NoWork) /\ Leaves(s)
        BY <1>3, UnwrittenLeaves DEF Check, Goes, Running, Steps, Ended
    <2>2. /\ Alone(s) /\ way' = way /\ UNCHANGED links
          /\ pc'[s] = "flush" /\ work'[s] = NoWork /\ Single(s)'
        BY <2>1, Proceeds
    <2>3. ~Active(s)' /\ work'[s].fan = {}
        BY <2>2 DEF Active, NoWork, Passing
    <2> QED
        BY <2>2, <2>3, Inactive, StaysOrdered
<1> QED
    BY <1>2, <1>3

LEMMA LookupOrder ==
    ASSUME IInv, Ordered, NEW s \in Session, Lookup(s)
    PROVE  Ordered'
<1> DEFINE u == Statement(s).on
           derived == Statement(s).op = "rename" /\ work[s].patched # {}
           found == Embedding(Seen(s), u) \cup (IF derived THEN {} ELSE Mapped(Seen(s), u))
           parents == {"tv_post"} \X found
           P == IF derived THEN parents ELSE {}
           G == IF derived THEN {u} \X parents ELSE {}
           w == [work[s] EXCEPT !.user = {}, !.target = {}, !.post = @ \cup found,
                                !.patched = P, !.guards = G]
<1>1. Goes(s, "lookup", "flush", {}, {}, w) /\ Leaves(s)
    BY UnwrittenLeaves DEF Lookup, Goes, Running, Steps, Ended
<1> HIDE DEF found, P, G
<1>2. /\ Alone(s) /\ way' = way /\ way \in {"mapping", "embed"} /\ OrderInv(s)
      /\ UNCHANGED <<rowLock, locks, links, script, level>>
      /\ pc[s] = "lookup" /\ need[s] = {} /\ rows[s] = {} /\ WorkOK(work[s])
      /\ pc'[s] = "flush" /\ need'[s] = {} /\ rows'[s] = {} /\ work'[s] = w /\ Single(s)'
      /\ OneTview(s) /\ work[s].all = FALSE
    BY <1>1, Proceeds DEF SessionInv, OneTview, WorkOK
<1>3. w.user = {} /\ w.fan = work[s].fan /\ w.all = work[s].all
    BY <1>2 DEF WorkOK
<1> HIDE DEF w
<1>4. /\ Value(s)' <=> Value(s)
      /\ Value(s) => Active(s)
      /\ ~Users(s)' /\ PassRows(s)' = TvPost /\ NewSpace(s)' = "new_tv_post"
    BY <1>2, <1>3 DEF Value, Active, Users, PassRows, NewSpace
<1>5. Active(s) => Users(s) /\ way # "mapping"
    BY <1>2 DEF OrderInv, Shape, Users
<1>6. Value(s) => work[s].fan = {}
    BY <1>2 DEF OrderInv, Shape
<1>7. Finding(s)' /\ Shape(s)'
    BY <1>2, <1>3, <1>4, <1>5, <1>6 DEF Finding, Shape, Active, Passing
<1>8. Valued(s)'
    BY <1>2, <1>4, <1>5 DEF OrderInv, Valued, InOrder, Active
<1>9. Rowed(s)'
    BY <1>2, <1>4, <1>5 DEF OrderInv, Rowed, Active, Passing
<1> QED
    BY <1>2, <1>7, <1>8, <1>9, StaysOrdered DEF OrderInv

LEMMA FannedOutOrder ==
    ASSUME IInv, Ordered, NEW s \in Session, FannedOut(s)
    PROVE  Ordered'
<1> DEFINE w == [work[s] EXCEPT !.fan = {}, !.target = {}]
<1>1. Goes(s, "fanned", "flush", {}, {}, w)
    BY DEF FannedOut, Goes, Running, Steps, Ended
<1>2. Leaves(s)
    BY DEF IInv, TypeOK, FannedOut, Leaves, Step
<1>3. /\ Alone(s) /\ way' = way /\ links' = links /\ OrderInv(s) /\ WorkOK(work[s])
      /\ pc[s] = "fanned" /\ pc'[s] = "flush" /\ work'[s] = w /\ Single(s)'
    BY <1>1, <1>2, Proceeds
<1>4. ~Value(s) /\ w.all = work[s].all
    BY <1>3 DEF OrderInv, Shape, WorkOK
<1> HIDE DEF w
<1>5. ~Value(s)' /\ ~Active(s)'
    BY <1>3, <1>4 DEF Value, Active
<1> QED
    BY <1>3, <1>5, Inactive, StaysOrdered

-----------------------------------------------------------------------------
(* The other steps of a session. *)

\* The statement's write: what its trigger locks is in order.
LEMMA WriteOrder ==
    ASSUME IInv, Ordered, NEW s \in Session, Write(s)
    PROVE  Ordered'
<1> DEFINE N == ChangedValues(s)
           st == Statement(s)
<1>1. /\ TypeOK /\ SessionInv(s) /\ pc[s] = "write" /\ rows[s] = {} /\ need[s] = {}
      /\ st \in StatementType /\ script[s] # <<>> /\ OrderInv(s)
    BY Within DEF Write, Step, Ended, Ordered
<1>2. Written(s) \in Item /\ rowLock[Written(s)] = s
    BY <1>1, WrittenType DEF SessionInv, Scripted, TypeOK
<1>3. N \in SUBSET LockType /\ \A l \in N : l.side = "writer" /\ l.space = "source" /\ l.what # WholeLock
    <2>1. st.op \in {"rename", "adduser"} => {st.on} \in SUBSET Source
        BY <1>1 DEF StatementType, Source
    <2>2. CASE N = {}
        BY <2>2
    <2>3. CASE N # {}
        <3>1. {st.on} \in SUBSET Source /\ N = ValueLocks("writer", "source", {st.on})
            BY <2>1, <2>3 DEF ChangedValues
        <3>2. N \in SUBSET LockType
            BY <3>1, ValueLockTypes
        <3> QED
            BY <3>1, <3>2, ValueLocksIn
    <2> QED
        BY <2>2, <2>3
<1>4. Goes(s, "write", "find", N, {}, NoWork)
    BY <1>3 DEF Write, Goes, Running, Steps, Ended
<1> HIDE DEF N
<1>5. Turned(s, "find", N, {}, NoWork) /\ pc'[s] = "find" /\ need'[s] = N /\ rows'[s] = {} /\ work'[s] = NoWork
    BY <1>4, GoesTo
<1>6. /\ rowLock' = rowLock /\ UNCHANGED <<script, locks, level, snapshot, way>>
      /\ \A u \in Session \ {s} : own'[u] = own[u] /\ links'[u] = links[u]
    BY <1>1, <1>2 DEF Write, TypeOK, Step
<1>7. Alone(s)
    BY <1>5, <1>6 DEF Alone, Turned
<1>8. Single(s)' /\ Finding(s)'
    BY <1>1, <1>3, <1>5, <1>6 DEF OrderInv, Single, Finding, InOrder
<1>9. Shape(s)' /\ ~Active(s)'
    BY <1>5 DEF Shape, Active, Passing
<1> QED
    BY <1>6, <1>7, <1>8, <1>9, StaysOrdered DEF OrderInv, Valued, Rowed

LEMMA StartOrder ==
    ASSUME IInv, Ordered, NEW s \in Session, Start(s)
    PROVE  Ordered'
<1>1. TypeOK /\ SessionInv(s) /\ OrderInv(s) /\ pc[s] = "idle" /\ script[s] # <<>>
    BY DEF IInv, Start, Ordered
<1>2. pc'[s] = "write" /\ need'[s] = {} /\ rows'[s] = {Written(s)}
    BY <1>1 DEF TypeOK, Start, Locking
<1>3. UNCHANGED <<own, rowLock, level, way, script, work, locks, links>>
    BY DEF Start, Unwritten
<1>4. Alone(s)
    BY <1>1, <1>3 DEF TypeOK, Alone, Start, Locking
<1>5. Single(s)'
    BY <1>1, <1>2, <1>3, TvItems DEF OrderInv, Single
<1>6. ~Active(s)'
    BY <1>2 DEF Active, Passing
<1> QED
    BY <1>2, <1>3, <1>4, <1>5, <1>6, Inactive, StaysOrdered

LEMMA LastOne ==
    ASSUME NEW S, NEW q \in Seq(S), q # <<>>, Len(q) <= 1
    PROVE  Tail(q) = <<>>
<1>1. Len(q) \in Nat /\ (Len(q) = 0 => q = <<>>)
    BY EmptySeq
<1>2. Len(q) = 1
    BY <1>1
<1>3. Tail(q) \in Seq(S) /\ Len(Tail(q)) = 0
    BY <1>2
<1> QED
    BY <1>3, EmptySeq

\* A statement that ends is the session's last.
LEMMA RestOrder ==
    ASSUME IInv, Ordered, NEW s \in Session, pc[s] \in {"write", "flush"}, Step(s, pc[s], "idle"),
           script' = [script EXCEPT ![s] = Tail(@)],
           UNCHANGED <<own, rowLock, locks, links, need, rows>>,
           work' = work \/ Worked(s, NoWork)
    PROVE  Ordered'
<1>1. TypeOK /\ SessionInv(s) /\ OrderInv(s) /\ script[s] # <<>> /\ script[s] \in Seq(StatementType)
    BY Within DEF Ended, Ordered, TypeOK
<1>2. /\ pc'[s] = "idle" /\ script'[s] = Tail(script[s]) /\ need'[s] = {} /\ rows'[s] = {}
      /\ UNCHANGED <<level, way, snapshot>>
    BY <1>1 DEF TypeOK, Step
<1>3. script'[s] = <<>> /\ Len(script'[s]) <= 1
    <2>1. Len(script[s]) <= 1
        BY <1>1 DEF OrderInv, Single
    <2>2. Tail(script[s]) = <<>>
        BY <1>1, <2>1, LastOne
    <2>3. Len(<<>>) = 0
        BY EmptySeq
    <2>4. script'[s] = <<>>
        BY <1>2, <2>2
    <2> QED
        BY <2>3, <2>4
<1>4. Alone(s)
    <2>1. \A u \in Session \ {s} : work'[u] = work[u]
        BY <1>1 DEF TypeOK, Worked
    <2> QED
        BY <1>1, <1>2, <2>1 DEF TypeOK, Alone, Step
<1>5. Single(s)' /\ ~Active(s)'
    BY <1>1, <1>2, <1>3 DEF OrderInv, Single, Active, Passing
<1> QED
    BY <1>2, <1>4, <1>5, Inactive, StaysOrdered

LEMMA FlushDoneOrder ==
    ASSUME IInv, Ordered, NEW s \in Session, FlushDone(s)
    PROVE  Ordered'
    BY RestOrder DEF FlushDone, Step

LEMMA WriteNothingOrder ==
    ASSUME IInv, Ordered, NEW s \in Session, WriteNothing(s)
    PROVE  Ordered'
    BY RestOrder DEF WriteNothing, Step

\* A row taken comes before those still waited for.
LEMMA LockRowOrder ==
    ASSUME IInv, Ordered, NEW s \in Session, LockRow(s)
    PROVE  Ordered'
<1>1. PICK i \in NextRows(s) :
          /\ need[s] = {} /\ RowFree(s, i)
          /\ rowLock' = IF Latest(s)[i] # Absent \/ pc[s] = "write"
                        THEN [rowLock EXCEPT ![i] = s] ELSE rowLock
          /\ rows' = [rows EXCEPT ![s] = @ \ {i}]
          /\ UNCHANGED <<store, writer, own, snapshot, level, way, script, pc, work, locks, need, links>>
    BY DEF LockRow
<1>2. TypeOK /\ SessionInv(s) /\ OrderInv(s) /\ way \in {"mapping", "embed"}
    BY DEF IInv, Ordered, TypeOK
<1>3. i \in rows[s] /\ i \in Item /\ pc[s] \notin Ended
    BY <1>1, <1>2 DEF NextRows, TypeOK, SessionInv, Scripted
<1>4. rows'[s] = rows[s] \ {i} /\ \A u \in Session \ {s} : rows'[u] = rows[u]
    BY <1>1, <1>2 DEF TypeOK
<1>5. /\ \A j \in Item : j # i => rowLock'[j] = rowLock[j]
      /\ \A u \in Session \ {s}, j \in Item : rowLock'[j] = u <=> rowLock[j] = u
    BY <1>1, <1>2, <1>3, Apart DEF TypeOK, RowFree
<1>6. Alone(s)
    BY <1>1, <1>4, <1>5 DEF Alone
<1>7. /\ (Value(s)' <=> Value(s)) /\ (Active(s)' <=> Active(s)) /\ (Users(s)' <=> Users(s))
      /\ PassRows(s)' = PassRows(s) /\ NewSpace(s)' = NewSpace(s) /\ (InOrder(s)' <=> InOrder(s))
    BY <1>1 DEF Value, Active, Users, PassRows, NewSpace, InOrder
<1>8. Single(s)'
    <2>1. pc[s] # "idle"
        BY <1>2, <1>3 DEF OrderInv, Single
    <2>2. CASE pc[s] = "write"
        <3>1. i = Written(s) /\ rows'[s] = {} /\ i \in Item \ Tv
            BY <1>2, <1>3, <1>4, <2>2, WrittenType DEF SessionInv, Scripted, TypeOK, Ended
        <3>2. \A j \in Tv : rowLock'[j] # s
            BY <1>2, <1>5, <2>2, <3>1, TvItems DEF OrderInv, Single
        <3> QED
            BY <1>1, <1>2, <2>2, <3>1, <3>2 DEF OrderInv, Single
    <2> QED
        BY <1>1, <1>2, <2>1, <2>2 DEF OrderInv, Single
<1>9. Finding(s)' /\ Shape(s)' /\ Valued(s)'
    BY <1>1, <1>2, <1>3, <1>7 DEF OrderInv, Finding, Shape, Valued
<1>10. Rowed(s)'
    <2> SUFFICES ASSUME Active(s) PROVE Rowed(s)'
        BY <1>7 DEF Rowed
    <2>1. Rowed(s) /\ Shape(s)
        BY <1>2 DEF OrderInv
    <2>2. pc[s] \in Passing /\ pc[s] \notin {"flush", "reads", "order", "created", "check", "lookup"}
        BY <1>3, <2>1 DEF Rowed, Active
    <2>3. i \in work[s].target /\ work[s].target \subseteq PassRows(s) /\ PassRows(s) \subseteq Item
        BY <1>3, <2>1, <2>2, TvItems DEF Rowed, Shape, PassRows
    <2>4. Users(s) => i \notin TvPost
        BY <2>3, Kinds DEF PassRows
    <2>5. \A j \in rows[s] \ {i} : i[2] < j[2]
        <3> SUFFICES ASSUME NEW j \in rows[s], j # i PROVE i[2] < j[2]
            OBVIOUS
        <3>1. pc[s] # "fanned"
            BY <2>2 DEF Passing
        <3>2. i[2] <= j[2]
            BY <3>1 DEF NextRows
        <3>3. j \in PassRows(s)
            BY <2>1, <2>2, <2>3 DEF Rowed
        <3>4. i[2] \in Nat /\ j[2] \in Nat /\ i[2] # j[2]
            BY <2>3, <3>3, Kinds, KeyAssumption DEF PassRows
        <3> QED
            BY <3>2, <3>4
    <2>6. \A j \in Item : rowLock'[j] = s => j = i \/ rowLock[j] = s
        BY <1>5
    <2>7. way = "mapping" => pc[s] \notin {"guard", "patch"}
        BY <1>3, <2>1 DEF Rowed
    <2> QED
        BY <1>1, <1>4, <1>7, <2>1, <2>2, <2>3, <2>4, <2>5, <2>6, <2>7, TvItems DEF Rowed
<1> QED
    BY <1>1, <1>6, <1>8, <1>9, <1>10, StaysOrdered DEF OrderInv

LEMMA WhatIsInt == \A l \in LockType : l.what \in Int
<1>1. \A l \in LockType : l.what \in Source \/ l.what = IntentLock \/ l.what = WholeLock
    BY DEF LockType
<1>2. IntentLock \in Int /\ WholeLock \in Int
    BY DEF IntentLock, WholeLock
<1> QED
    BY <1>1, <1>2, Apart

\* A lock granted comes before those still waited for.
LEMMA LockValueOrder ==
    ASSUME IInv, Ordered, NEW s \in Session, LockValue(s)
    PROVE  Ordered'
<1> DEFINE l == NextLock(s)
<1>1. TypeOK /\ OrderInv(s) /\ need[s] # {}
    BY DEF IInv, LockValue, Ordered
<1>2. l \in need[s] /\ l \in LockType
    BY <1>1, NextLockType DEF TypeOK, LockValue
<1>3. \A k \in need[s] : l.what <= k.what
    BY <1>1, NextLockType DEF TypeOK
<1> HIDE DEF l
<1>4. /\ locks' = [locks EXCEPT ![s] = @ \cup {l}] /\ need' = [need EXCEPT ![s] = @ \ {l}]
      /\ UNCHANGED <<store, writer, own, rowLock, snapshot, level, way, script, pc, work, rows, links>>
    BY DEF LockValue, l
<1>5. /\ locks'[s] = locks[s] \cup {l} /\ need'[s] = need[s] \ {l}
      /\ \A u \in Session \ {s} : locks'[u] = locks[u] /\ need'[u] = need[u]
    BY <1>1, <1>2, <1>4 DEF TypeOK
<1>6. Alone(s)
    BY <1>4, <1>5 DEF Alone
<1>7. /\ (Value(s)' <=> Value(s)) /\ (Active(s)' <=> Active(s)) /\ (Users(s)' <=> Users(s))
      /\ PassRows(s)' = PassRows(s) /\ NewSpace(s)' = NewSpace(s)
    BY <1>4 DEF Value, Active, Users, PassRows, NewSpace
<1>8. InOrder(s) => InOrder(s)'
    <2> SUFFICES ASSUME InOrder(s), NEW k \in need[s], k # l,
                        l.side = "writer", k.side = "writer", k.space = l.space
                 PROVE  l.what < k.what
        BY <1>5 DEF InOrder
    <2>1. k \in LockType
        BY <1>1 DEF TypeOK
    <2>2. k.what # l.what
        <3>1. k = L(k.side, k.space, k.what) /\ l = L(l.side, l.space, l.what)
            BY <1>2, <2>1 DEF LockType, L
        <3> QED
            BY <3>1
    <2> QED
        BY <1>2, <1>3, <2>1, <2>2, WhatIsInt
<1>9. Single(s)'
    BY <1>1, <1>2, <1>4 DEF OrderInv, Single
<1>10. Finding(s)' /\ Shape(s)' /\ Rowed(s)'
    BY <1>1, <1>2, <1>4, <1>5, <1>7, <1>8 DEF OrderInv, Finding, Shape, Rowed
<1>11. Valued(s)'
    BY <1>1, <1>2, <1>4, <1>5, <1>7, <1>8 DEF OrderInv, Valued
<1> QED
    BY <1>4, <1>6, <1>9, <1>10, <1>11, StaysOrdered DEF OrderInv

\* An upsert takes rows of its pass, that nobody holds.
LEMMA UpsertOrder ==
    ASSUME IInv, Ordered, NEW s \in Session, Upsert(s)
    PROVE  Ordered'
<1> DEFINE R == work[s].redo
           w == [work[s] EXCEPT !.redo = {}, !.fresh = <<>>]
<1>1. /\ TypeOK /\ NoClash /\ Creators /\ WorkOK(work[s]) /\ OneTview(s) /\ OrderInv(s)
      /\ pc[s] = "upsert" /\ rows[s] = {} /\ need[s] = {}
    BY Within DEF IInv, Upsert, Step, Ended, SessionInv, Ordered
<1>2. \A i \in R : i \in Tv /\ i \in work[s].target /\ (rowLock[i] = s \/ (store[i] = Absent /\ MayCreate(s, i)))
    BY <1>1, UpsertRows DEF OneTview
<1>3. \A i \in R, u \in Session \ {s} : rowLock[i] # u
    BY <1>1, <1>2, OneCreator DEF Creators
<1>4. /\ rowLock' = [i \in Item |-> IF i \in R THEN s ELSE rowLock[i]]
      /\ UNCHANGED <<snapshot, level, way, script, locks, links, need, rows>>
      /\ \A u \in Session \ {s} : own'[u] = own[u]
    BY <1>1 DEF Upsert, LockedByUpsert, Step, TypeOK
<1>5. \A i \in Item : rowLock'[i] = IF i \in R THEN s ELSE rowLock[i]
    BY <1>4
<1>6. w.target = work[s].target /\ w.all = work[s].all /\ w.user = work[s].user /\ w.fan = work[s].fan
      /\ w.patched = work[s].patched
    BY <1>1 DEF WorkOK
<1>7. /\ pc'[s] = "check" /\ work'[s] = w
      /\ \A u \in Session \ {s} : work'[u] = work[u] /\ pc'[u] = pc[u]
    BY <1>1 DEF TypeOK, Upsert, Step, Worked
<1> HIDE DEF w
<1>8. Alone(s)
    BY <1>3, <1>4, <1>5, <1>7 DEF Alone
<1>9. /\ (Value(s)' <=> Value(s)) /\ (Active(s)' <=> Active(s)) /\ (Users(s)' <=> Users(s))
    BY <1>1, <1>4, <1>6, <1>7 DEF Value, Active, Users, Passing
<1>10. PassRows(s)' = PassRows(s) /\ NewSpace(s)' = NewSpace(s)
    BY <1>9 DEF PassRows, NewSpace
<1>11. Single(s)' /\ Finding(s)' /\ Shape(s)'
    BY <1>1, <1>4, <1>6, <1>7, <1>9, <1>10 DEF OrderInv, Single, Finding, Shape, Passing
<1>12. Valued(s)'
    BY <1>1, <1>4, <1>7, <1>9, <1>10 DEF OrderInv, Valued, InOrder
<1>13. Rowed(s)'
    <2> SUFFICES ASSUME Active(s) PROVE Rowed(s)'
        BY <1>9 DEF Rowed
    <2>1. R \subseteq PassRows(s) /\ (Users(s) => \A i \in R : i \notin TvPost)
        BY <1>1, <1>2, Kinds DEF OrderInv, Shape, Passing, PassRows
    <2>2. \A i \in Tv : rowLock'[i] = s => i \in R \/ rowLock[i] = s
        BY <1>5, TvItems
    <2>3. Users(s) => \A i \in TvPost : rowLock'[i] # s
        BY <1>1, <2>1, <2>2, TvItems DEF OrderInv, Rowed
    <2>4. \A i \in PassRows(s) : rowLock'[i] = s => i \in work[s].target
        BY <1>1, <1>2, <2>2, TvItems DEF OrderInv, Rowed, Passing, PassRows
    <2> QED
        BY <1>1, <1>4, <1>6, <1>7, <1>9, <1>10, <2>3, <2>4 DEF Rowed
<1> QED
    BY <1>4, <1>8, <1>11, <1>12, <1>13, StaysOrdered DEF OrderInv

\* A transaction that ends waits for nothing, and holds nothing.
LEMMA EndAlone ==
    ASSUME TypeOK, NEW s \in Session, NEW how, End(s, how)
    PROVE  /\ Alone(s) /\ \A u \in Session \ {s} : links'[u] = links[u]
           /\ pc'[s] = how /\ work'[s] = NoWork /\ snapshot'[s] = None
           /\ locks'[s] = {} /\ need'[s] = {} /\ rows'[s] = {}
           /\ \A i \in Item : own'[s][i] = None
<1>1. \A i \in Item : rowLock'[i] = IF rowLock[i] = s THEN None ELSE rowLock[i]
    BY DEF End
<1>2. /\ pc'[s] = how /\ \A u \in Session \ {s} : pc'[u] = pc[u]
      /\ need'[s] = {} /\ rows'[s] = {} /\ \A u \in Session \ {s} : need'[u] = need[u] /\ rows'[u] = rows[u]
      /\ locks'[s] = {} /\ \A u \in Session \ {s} : locks'[u] = locks[u] /\ links'[u] = links[u]
    BY DEF TypeOK, End, Locking
<1>3. /\ work'[s] = NoWork /\ \A u \in Session \ {s} : work'[u] = work[u]
      /\ \A u \in Session \ {s} : script'[u] = script[u]
      /\ snapshot'[s] = None /\ \A u \in Session \ {s} : snapshot'[u] = snapshot[u]
    BY DEF TypeOK, End, Worked
<1>4. own'[s] = [i \in Item |-> None] /\ \A u \in Session \ {s} : own'[u] = own[u]
    BY DEF TypeOK, End
<1>5. level' = level
    BY DEF End
<1>6. Alone(s)
    BY <1>1, <1>2, <1>3, <1>4, <1>5, Apart DEF Alone
<1> QED
    BY <1>2, <1>3, <1>4, <1>6

LEMMA EndOrder ==
    ASSUME IInv, Ordered, NEW s \in Session, NEW how \in Ended, End(s, how)
    PROVE  Ordered'
<1>1. TypeOK /\ OrderInv(s)
    BY DEF IInv, Ordered
<1>2. Alone(s) /\ pc'[s] = how /\ \A u \in Session \ {s} : links'[u] = links[u]
    BY <1>1, EndAlone
<1>3. script'[s] = <<>> /\ level' = level /\ way' = way
    BY <1>1 DEF End, TypeOK
<1>4. Single(s)' /\ ~Active(s)'
    <2>1. Len(<<>>) = 0
        BY EmptySeq
    <2>2. Len(script'[s]) <= 1
        BY <1>3, <2>1
    <2> QED
        BY <1>1, <1>2, <1>3, <2>2 DEF OrderInv, Single, Active, Passing, Ended
<1> QED
    BY <1>2, <1>3, <1>4, Inactive, StaysOrdered DEF Ended

LEMMA InitOrder == Autocommit /\ way # "fanout" /\ Init => Ordered
<1> SUFFICES ASSUME Autocommit, way # "fanout", Init, NEW s \in Session PROVE OrderInv(s)
    BY DEF Ordered
<1>1. /\ pc[s] = "idle" /\ locks[s] = {} /\ need[s] = {} /\ rows[s] = {} /\ links[s] = FALSE
      /\ level[s] = "RC" /\ Len(script[s]) <= 1 /\ \A i \in Item : rowLock[i] # s
    BY Apart DEF Init, Autocommit
<1> QED
    BY <1>1 DEF OrderInv, Single, Finding, Shape, Valued, Rowed, Active, Passing

LEMMA StepOrder ==
    ASSUME IInv, Ordered, [Next]_vars
    PROVE  Ordered'
<1>1. CASE UNCHANGED vars
    <2> SUFFICES ASSUME NEW s \in Session PROVE OrderInv(s)'
        BY <1>1 DEF Ordered, vars
    <2>1. /\ (Value(s)' <=> Value(s)) /\ (Active(s)' <=> Active(s)) /\ (Users(s)' <=> Users(s))
          /\ PassRows(s)' = PassRows(s) /\ NewSpace(s)' = NewSpace(s) /\ (InOrder(s)' <=> InOrder(s))
        BY <1>1 DEF vars, Value, Active, Users, PassRows, NewSpace, InOrder
    <2>2. OrderInv(s)
        BY DEF Ordered
    <2>3. Single(s)' /\ Finding(s)' /\ Shape(s)'
        BY <1>1, <2>1, <2>2 DEF OrderInv, vars, Single, Finding, Shape
    <2>4. Valued(s)' /\ Rowed(s)'
        BY <1>1, <2>1, <2>2 DEF OrderInv, vars, Valued, Rowed
    <2> QED
        BY <2>3, <2>4 DEF OrderInv
<1>2. ASSUME NEW s \in Session, SessionStep(s) PROVE Ordered'
    <2>1. Commit(s) \/ SerializationFailure(s) \/ DetectDeadlock(s) => \E how \in Ended : End(s, how)
        BY DEF Commit, SerializationFailure, DetectDeadlock, Fail, Ended
    <2>2. CASE \E how \in Ended : End(s, how)
        BY <2>2, EndOrder
    <2> QED
        BY <1>2, <2>1, <2>2, StartOrder, LockRowOrder, LockValueOrder, WriteOrder, WriteNothingOrder,
           FindOrder, FlushDoneOrder, FanoutOrder, FannedOutOrder, RefreshAllOrder, ReconcileOrder,
           ApplyKeysOrder, LockReadsOrder, LockOrderOrder, GuardOrder, PatchOrder, LockKeysOrder,
           LockCreatedOrder, ComputeOrder, UpsertOrder, CheckOrder, LookupOrder DEF SessionStep
<1> QED
    BY <1>1, <1>2 DEF Next

-----------------------------------------------------------------------------
(* Who waits for whom. *)

\* The exceptions of ValueWritesDoNotDeadlock.
Excepted(s) == links[s] \/ work[s].all \/ Late(s)

\* What a session waits for: a row or a lock of its step's, by key.
WaitClass(s) ==
    CASE pc[s] = "write" -> 0
      [] pc[s] = "find" -> 1
      [] pc[s] \in {"guard", "patch", "keys"} -> IF Users(s) THEN 2 ELSE 5
      [] pc[s] = "created" -> IF Users(s) THEN 3 ELSE 6
      [] pc[s] = "lookup" -> 4
      [] OTHER -> 7
WaitKeys(s) == IF need[s] # {} THEN {NextLock(s).what} ELSE {i[2] : i \in NextRows(s)}

\* t waits for something after what s waits for.
Further(s, t) ==
    \/ WaitClass(s) < WaitClass(t)
    \/ WaitClass(s) = WaitClass(t) /\ \A x \in WaitKeys(s), y \in WaitKeys(t) : x < y

LEMMA WaitTypes ==
    ASSUME IInv, NEW s \in Session, WaitsFor(s) # {}
    PROVE  WaitClass(s) \in Nat /\ WaitKeys(s) \in SUBSET Int /\ WaitKeys(s) # {}
<1>1. WaitClass(s) \in Nat
    BY DEF WaitClass
<1>2. TypeOK
    BY DEF IInv
<1>3. CASE need[s] # {}
    <2>1. NextLock(s) \in LockType
        BY <1>2, <1>3, NextLockType DEF TypeOK
    <2> QED
        BY <1>1, <1>3, <2>1, WhatIsInt DEF WaitKeys
<1>4. CASE need[s] = {}
    <2>1. NextRows(s) # {} /\ NextRows(s) \subseteq Item
        BY <1>2, <1>4 DEF WaitsFor, NextRows, TypeOK
    <2>2. \A i \in Item : i[2] \in Nat
        BY KeyAssumption DEF Item, Source, Conf, TvPost, TvUser
    <2> QED
        BY <1>1, <1>4, <2>1, <2>2 DEF WaitKeys
<1> QED
    BY <1>3, <1>4

LEMMA FurtherIsStrict ==
    ASSUME IInv, NEW s \in Session, NEW t \in Session, NEW u \in Session,
           WaitsFor(s) # {}, WaitsFor(t) # {}, WaitsFor(u) # {}
    PROVE  ~Further(s, s) /\ (Further(s, t) /\ Further(t, u) => Further(s, u))
<1>1. /\ WaitClass(s) \in Nat /\ WaitKeys(s) \in SUBSET Int /\ WaitKeys(s) # {}
      /\ WaitClass(t) \in Nat /\ WaitKeys(t) \in SUBSET Int /\ WaitKeys(t) # {}
      /\ WaitClass(u) \in Nat /\ WaitKeys(u) \in SUBSET Int /\ WaitKeys(u) # {}
    BY WaitTypes
<1>2. \A a, b, c \in Nat : a < b /\ b < c => a < c
    OBVIOUS
<1>3. \A x, y, z \in Int : x < y /\ y < z => x < z
    OBVIOUS
<1>4. ~Further(s, s)
    BY <1>1 DEF Further
<1>5. ASSUME Further(s, t), Further(t, u) PROVE Further(s, u)
    <2>1. CASE WaitClass(s) < WaitClass(t) \/ WaitClass(t) < WaitClass(u)
        BY <1>1, <1>2, <1>5, <2>1 DEF Further
    <2>2. CASE WaitClass(s) = WaitClass(t) /\ WaitClass(t) = WaitClass(u)
        <3>1. \A x \in WaitKeys(s), y \in WaitKeys(t) : x < y
            BY <1>1, <1>5, <2>2 DEF Further
        <3>2. \A y \in WaitKeys(t), z \in WaitKeys(u) : y < z
            BY <1>1, <1>5, <2>2 DEF Further
        <3>3. PICK y \in WaitKeys(t) : TRUE
            BY <1>1
        <3>4. ASSUME NEW x \in WaitKeys(s), NEW z \in WaitKeys(u) PROVE x < z
            BY <1>1, <1>3, <3>1, <3>2, <3>3
        <3> QED
            BY <2>2, <3>4 DEF Further
    <2> QED
        BY <1>5, <2>1, <2>2 DEF Further
<1> QED
    BY <1>4, <1>5

\* An upsert of rows by key finds them free.
LEMMA UpsertFree ==
    ASSUME IInv, NEW s \in Session, pc[s] = "upsert", ~InSnapshot(s), ~work[s].all,
           NEW i \in work[s].redo
    PROVE  RowFree(s, i)
<1>1. /\ TypeOK /\ NoClash /\ Creators /\ OneTview(s) /\ Intends(s) /\ Keyed(s) /\ RowsLocked(s)
      /\ OwnsWritten(s)
    BY DEF IInv, SessionInv
<1>2. i \in Tv /\ i \in Item /\ i \in work[s].target
    BY <1>1, Kinds DEF OneTview, Tv
<1> SUFFICES ASSUME rowLock[i] # s, rowLock[i] # None PROVE FALSE
    BY DEF RowFree
<1>3. PICK u \in Session \ {s} : rowLock[i] = u
    BY <1>1, <1>2 DEF TypeOK
<1>4. Latest(s)[i] = Absent /\ own[s][i] = None
    BY <1>1, <1>2, <1>3 DEF RowsLocked, OwnsWritten
<1>5. store[i] = Absent
    BY <1>2, <1>4 DEF Latest, With
<1>6. MayCreate(s, i)
    BY <1>1, <1>2, <1>3 DEF Keyed, KeyLocked, Intends, MayCreate
<1>7. MayCreate(u, i)
    BY <1>1, <1>2, <1>3, <1>5 DEF Creators
<1> QED
    BY <1>1, <1>2, <1>3, <1>6, <1>7, OneCreator

\* Where a session waits that is no exception.
LEMMA WaitsAt ==
    ASSUME IInv, Ordered, NEW s \in Session, ~Excepted(s), WaitsFor(s) # {}
    PROVE  /\ OrderInv(s) /\ way \in {"mapping", "embed"} /\ ~InSnapshot(s)
           /\ pc[s] \in {"write", "find", "reads", "guard", "patch", "keys", "created", "lookup"}
           /\ pc[s] \in {"write", "guard", "patch", "keys"} => need[s] = {} /\ rows[s] # {}
           /\ pc[s] \in {"find", "reads", "created", "lookup"} => need[s] # {}
           /\ pc[s] \notin {"write", "find"} => Active(s)
<1>1. /\ TypeOK /\ SessionInv(s) /\ OrderInv(s) /\ way \in {"mapping", "embed"} /\ ~InSnapshot(s)
      /\ Value(s) /\ ~Late(s)
    BY DEF IInv, Ordered, TypeOK, OrderInv, Single, InSnapshot, Excepted, Value
<1>2. need[s] # {} \/ (rows[s] # {} /\ \A i \in NextRows(s) : ~RowFree(s, i))
    BY DEF WaitsFor, NextRows
<1>3. NextRows(s) \subseteq rows[s] /\ (rows[s] # {} /\ need[s] = {} => NextRows(s) # {})
    BY DEF NextRows, WaitsFor
<1>4. pc[s] \in Steps /\ pc[s] \notin Ended /\ pc[s] \notin {"idle", "flush", "fanned", "whole"}
    BY <1>1, <1>2 DEF TypeOK, SessionInv, Scripted, OrderInv, Single, Shape
<1>5. pc[s] # "compute"
    BY <1>1 DEF Late
<1>6. pc[s] \notin {"write", "find"} => Active(s)
    BY <1>1, <1>4 DEF Active, Passing, Steps, Ended
<1>7. pc[s] \notin {"order", "check"}
    BY <1>1, <1>2, <1>6 DEF OrderInv, Valued, Rowed
<1>8. pc[s] # "upsert"
    <2> SUFFICES ASSUME pc[s] = "upsert" PROVE FALSE
        OBVIOUS
    <2>1. need[s] = {} /\ rows[s] \subseteq work[s].redo /\ ~work[s].all
        BY <1>1, <1>6 DEF OrderInv, Valued, Rowed, Value
    <2>2. \A i \in NextRows(s) : RowFree(s, i)
        BY <1>1, <1>3, <2>1, UpsertFree
    <2> QED
        BY <1>2, <1>3, <2>1, <2>2
<1>9. pc[s] \in {"write", "guard", "patch", "keys"} => need[s] = {}
    BY <1>1, <1>6 DEF OrderInv, Single, Valued
<1>10. pc[s] \in {"find", "reads", "created", "lookup"} => rows[s] = {}
    BY <1>1, <1>6 DEF OrderInv, Finding, Rowed
<1> QED
    BY <1>1, <1>2, <1>4, <1>5, <1>6, <1>7, <1>8, <1>9, <1>10 DEF Steps, Ended

\* It holds no relation's values whole, and of a refresh only intents.
LEMMA HeldLocks ==
    ASSUME IInv, Ordered, NEW z \in Session, ~Excepted(z), WaitsFor(z) # {}, NEW l \in locks[z]
    PROVE  l.what # WholeLock /\ (l.side = "refresh" => l.what = IntentLock) /\ pc[z] # "write"
<1>1. OrderInv(z) /\ (pc[z] \notin {"write", "find"} => Active(z))
    BY WaitsAt
<1>2. pc[z] # "write"
    BY <1>1 DEF OrderInv, Single
<1>3. CASE pc[z] = "find"
    BY <1>1, <1>3 DEF OrderInv, Finding
<1>4. CASE pc[z] # "find"
    BY <1>1, <1>2, <1>4 DEF OrderInv, Valued
<1> QED
    BY <1>2, <1>3, <1>4

\* What it has locked as a writer is before what it waits for.
LEMMA HoldsValuesBelow ==
    ASSUME IInv, Ordered, NEW z \in Session, ~Excepted(z), WaitsFor(z) # {}, pc[z] # "reads",
           NEW l \in locks[z], l.side = "writer"
    PROVE  /\ l.space = "source" =>
                WaitClass(z) > 1 \/ (WaitClass(z) = 1 /\ l.what < NextLock(z).what /\ need[z] # {})
           /\ l.space = "new_tv_user" =>
                WaitClass(z) > 3 \/ (WaitClass(z) = 3 /\ l.what < NextLock(z).what /\ need[z] # {})
           /\ l.space = "tv_user" =>
                WaitClass(z) > 4 \/ (WaitClass(z) = 4 /\ l.what < NextLock(z).what /\ need[z] # {})
           /\ l.space = "new_tv_post" =>
                WaitClass(z) = 6 /\ l.what < NextLock(z).what /\ need[z] # {}
<1>1. /\ OrderInv(z) /\ (pc[z] \notin {"write", "find"} => Active(z))
      /\ pc[z] \in {"write", "find", "reads", "guard", "patch", "keys", "created", "lookup"}
      /\ (pc[z] \in {"find", "reads", "created", "lookup"} => need[z] # {})
    BY WaitsAt
<1>2. pc[z] # "write"
    BY HeldLocks
<1>3. need[z] # {} => NextLock(z) \in need[z]
    BY NextLockType DEF IInv, TypeOK
<1>4. CASE pc[z] = "find"
    <2>1. l.space = "source" /\ NextLock(z).side = "writer" /\ NextLock(z).space = "source" /\ InOrder(z)
        BY <1>1, <1>3, <1>4 DEF OrderInv, Finding
    <2>2. l.what < NextLock(z).what
        BY <1>1, <1>3, <1>4, <2>1 DEF InOrder
    <2>3. WaitClass(z) = 1
        BY <1>4 DEF WaitClass
    <2> QED
        BY <1>1, <1>4, <2>1, <2>2, <2>3
<1>5. CASE pc[z] \in {"guard", "patch", "keys"}
    <2>1. l.space # NewSpace(z) /\ (Users(z) => l.space # "new_tv_post" /\ l.space # "tv_user")
        BY <1>1, <1>5 DEF OrderInv, Valued
    <2>2. WaitClass(z) = (IF Users(z) THEN 2 ELSE 5)
        BY <1>5 DEF WaitClass
    <2> QED
        BY <2>1, <2>2 DEF NewSpace
<1>6. CASE pc[z] = "created"
    <2>1. /\ InOrder(z) /\ (Users(z) => l.space # "new_tv_post" /\ l.space # "tv_user")
          /\ NextLock(z).side = "writer" /\ NextLock(z).space = NewSpace(z)
        BY <1>1, <1>3, <1>6 DEF OrderInv, Valued
    <2>2. l.space = NewSpace(z) => l.what < NextLock(z).what
        BY <1>1, <1>3, <1>6, <2>1 DEF InOrder
    <2>3. WaitClass(z) = (IF Users(z) THEN 3 ELSE 6)
        BY <1>6 DEF WaitClass
    <2> QED
        BY <1>1, <1>6, <2>1, <2>2, <2>3 DEF NewSpace
<1>7. CASE pc[z] = "lookup"
    <2>1. /\ InOrder(z) /\ Users(z) /\ l.space # "new_tv_post"
          /\ NextLock(z).side = "writer" /\ NextLock(z).space = "tv_user"
        BY <1>1, <1>3, <1>7 DEF OrderInv, Valued, Shape
    <2>2. l.space = "tv_user" => l.what < NextLock(z).what
        BY <1>1, <1>3, <1>7, <2>1 DEF InOrder
    <2>3. WaitClass(z) = 4
        BY <1>7 DEF WaitClass
    <2> QED
        BY <1>1, <1>7, <2>1, <2>2, <2>3
<1> QED
    BY <1>1, <1>2, <1>4, <1>5, <1>6, <1>7

\* The rows it has locked are before what it waits for.
LEMMA HoldsRowsBelow ==
    ASSUME IInv, Ordered, NEW z \in Session, ~Excepted(z), WaitsFor(z) # {}, pc[z] # "reads",
           NEW i \in Item, rowLock[i] = z
    PROVE  /\ WaitClass(z) > 0
           /\ i \in TvUser => WaitClass(z) > 2
           /\ i \in TvPost =>
                \/ WaitClass(z) = 6
                \/ WaitClass(z) = 5 /\ need[z] = {} /\ \A j \in NextRows(z) : i[2] < j[2]
<1>1. /\ OrderInv(z) /\ (pc[z] \notin {"write", "find"} => Active(z)) /\ way \in {"mapping", "embed"}
      /\ pc[z] \in {"write", "find", "guard", "patch", "keys", "created", "lookup"}
      /\ (pc[z] \in {"write", "guard", "patch", "keys"} => need[z] = {} /\ rows[z] # {})
    BY WaitsAt
<1>2. pc[z] # "write"
    BY <1>1 DEF OrderInv, Single
<1>3. CASE pc[z] = "find"
    <2>1. i \notin Tv
        BY <1>1, <1>3 DEF OrderInv, Finding
    <2> QED
        BY <1>3, <2>1, TvItems DEF WaitClass
<1>4. CASE pc[z] \in {"created", "lookup"}
    <2>1. (pc[z] = "lookup" => Users(z)) /\ (Users(z) => i \notin TvPost)
        BY <1>1, <1>4 DEF OrderInv, Shape, Rowed
    <2>2. WaitClass(z) = (IF pc[z] = "lookup" THEN 4 ELSE IF Users(z) THEN 3 ELSE 6)
        BY <1>4 DEF WaitClass
    <2> QED
        BY <2>1, <2>2
<1>5. CASE pc[z] \in {"guard", "patch", "keys"}
    <2>1. /\ Active(z) /\ rows[z] \subseteq work[z].target /\ work[z].target \subseteq PassRows(z)
          /\ (i \in PassRows(z) => i \in work[z].target) /\ (Users(z) => i \notin TvPost)
        BY <1>1, <1>5 DEF OrderInv, Shape, Rowed, Passing
    <2>2. WaitClass(z) = (IF Users(z) THEN 2 ELSE 5)
        BY <1>5 DEF WaitClass
    <2>3. /\ need[z] = {} /\ NextRows(z) \subseteq rows[z]
          /\ \A j \in NextRows(z) : rowLock[j] # z
        BY <1>1, <1>5 DEF WaitsFor, NextRows, RowFree
    <2>4. NextRows(z) # {}
        BY <2>3 DEF WaitsFor
    <2>5. ASSUME Users(z) PROVE i \notin TvUser
        <3>1. work[z].target = {"tv_user"} \X work[z].user /\ \E x \in User : work[z].user = {x}
            BY <1>1, <1>5, <2>1, <2>5 DEF OrderInv, Shape, Users, Passing
        <3>2. PICK x \in User : work[z].target = {<<"tv_user", x>>}
            BY <3>1
        <3>3. i \in TvUser => i = <<"tv_user", x>>
            BY <2>1, <2>5, <3>2 DEF PassRows
        <3>4. \A j \in NextRows(z) : j = <<"tv_user", x>>
            BY <2>1, <2>3, <3>2
        <3> QED
            BY <2>3, <2>4, <3>3, <3>4
    <2>6. ASSUME ~Users(z), i \in TvPost, NEW j \in NextRows(z) PROVE i[2] < j[2]
        <3>1. j \in TvPost /\ i \in work[z].target /\ j \in rows[z] /\ PassRows(z) = TvPost
            BY <2>1, <2>3, <2>6 DEF PassRows
        <3>2. CASE pc[z] = "guard" \/ (way = "mapping" /\ pc[z] = "keys")
            BY <1>1, <2>1, <2>6, <3>1, <3>2 DEF OrderInv, Rowed
        <3>3. CASE way = "mapping" /\ pc[z] = "patch"
            BY <1>1, <2>1, <3>1, <3>3 DEF OrderInv, Rowed
        <3>4. CASE way = "embed" /\ pc[z] \in {"patch", "keys"}
            <4>1. ~(j[2] < i[2])
                BY <2>6, <3>1, <3>4 DEF Excepted, Late
            <4>2. i[2] \in Nat /\ j[2] \in Nat /\ i = <<"tv_post", i[2]>> /\ j = <<"tv_post", j[2]>>
                BY <2>6, <3>1, KeyAssumption DEF TvPost
            <4>3. i[2] # j[2]
                BY <2>3, <2>6, <4>2
            <4> QED
                BY <4>1, <4>2, <4>3
        <3> QED
            BY <1>1, <1>5, <3>2, <3>3, <3>4
    <2> QED
        BY <2>1, <2>2, <2>3, <2>5, <2>6
<1> QED
    BY <1>1, <1>2, <1>3, <1>4, <1>5

\* Of two that wait one for the other, neither where a refresh locks what its rows
\* read, the other waits for something after.
LEMMA Rises ==
    ASSUME IInv, Ordered, NEW t \in Session, NEW z \in WaitsFor(t), z \in Session,
           ~Excepted(t), ~Excepted(z), WaitsFor(z) # {}, pc[t] # "reads", pc[z] # "reads"
    PROVE  Further(t, z)
<1>1. /\ OrderInv(t) /\ ~InSnapshot(t)
      /\ pc[t] \in {"write", "find", "guard", "patch", "keys", "created", "lookup"}
      /\ (pc[t] \in {"write", "guard", "patch", "keys"} => need[t] = {} /\ rows[t] # {})
      /\ (pc[t] \in {"find", "created", "lookup"} => need[t] # {})
      /\ (pc[t] \notin {"write", "find"} => Active(t))
    BY WaitsAt
<1>2. CASE need[t] = {}
    <2>1. PICK i \in NextRows(t) : rowLock[i] = z
        BY <1>2 DEF WaitsFor
    <2>2. i \in rows[t] /\ i \in Item
        BY <2>1 DEF NextRows, IInv, TypeOK
    <2>3. /\ WaitClass(z) > 0
          /\ i \in TvUser => WaitClass(z) > 2
          /\ i \in TvPost =>
               \/ WaitClass(z) = 6
               \/ WaitClass(z) = 5 /\ need[z] = {} /\ \A j \in NextRows(z) : i[2] < j[2]
        BY <2>1, <2>2, HoldsRowsBelow
    <2>4. CASE pc[t] = "write"
        BY <2>3, <2>4 DEF WaitClass, Further
    <2>5. CASE pc[t] \in {"guard", "patch", "keys"}
        <3>1. i \in PassRows(t)
            BY <1>1, <2>2, <2>5 DEF OrderInv, Shape, Rowed, Passing
        <3>2. WaitClass(t) = (IF Users(t) THEN 2 ELSE 5)
            BY <2>5 DEF WaitClass
        <3>3. CASE Users(t) \/ WaitClass(z) = 6
            BY <2>3, <3>1, <3>2, <3>3 DEF PassRows, Further
        <3>4. CASE ~Users(t) /\ WaitClass(z) # 6
            <4>1. WaitClass(z) = 5 /\ need[z] = {} /\ \A j \in NextRows(z) : i[2] < j[2]
                BY <2>3, <3>1, <3>4 DEF PassRows
            <4>2. \A j \in rows[t] : j[2] \in Nat
                BY KeyAssumption DEF IInv, TypeOK, Item, Source, Conf
            <4>3. \A j \in NextRows(t) : j[2] = i[2]
                BY <2>1, <2>2, <2>5, <4>2 DEF NextRows
            <4>4. \A x \in WaitKeys(t), y \in WaitKeys(z) : x < y
                BY <1>2, <4>1, <4>3 DEF WaitKeys
            <4> QED
                BY <3>2, <3>4, <4>1, <4>4 DEF Further
        <3> QED
            BY <3>3, <3>4
    <2> QED
        BY <1>1, <1>2, <2>4, <2>5
<1>3. CASE need[t] # {}
    <2> DEFINE l == NextLock(t)
    <2>1. l \in need[t]
        BY <1>3, NextLockType DEF IInv, TypeOK
    <2>2. PICK k \in locks[z] : Clash(k, l)
        BY <1>1, <1>3 DEF WaitsFor, Holders
    <2>3. /\ l.side = "writer" /\ l.what # WholeLock
          /\ pc[t] = "find" => l.space = "source"
          /\ pc[t] = "created" => l.space = NewSpace(t)
          /\ pc[t] = "lookup" => l.space = "tv_user"
        <3>1. CASE pc[t] = "find"
            BY <1>1, <2>1, <3>1 DEF OrderInv, Finding
        <3>2. CASE pc[t] \in {"created", "lookup"}
            BY <1>1, <2>1, <3>2 DEF OrderInv, Valued
        <3> QED
            BY <1>1, <1>3, <3>1, <3>2
    <2>4. k.what # WholeLock /\ (k.side = "refresh" => k.what = IntentLock)
        BY HeldLocks
    <2>5. k.space = l.space /\ k.what = l.what /\ k.what # IntentLock
        BY <2>2, <2>3, <2>4 DEF Clash
    <2>6. k.side = "writer"
        <3>1. k \in LockType
            BY DEF IInv, TypeOK
        <3> QED
            BY <2>4, <2>5, <3>1 DEF LockType
    <2>7. WaitKeys(t) = {l.what}
        BY <1>3 DEF WaitKeys
    <2>8. need[z] # {} => WaitKeys(z) = {NextLock(z).what}
        BY DEF WaitKeys
    <2>9. /\ k.space = "source" =>
               WaitClass(z) > 1 \/ (WaitClass(z) = 1 /\ k.what < NextLock(z).what /\ need[z] # {})
          /\ k.space = "new_tv_user" =>
               WaitClass(z) > 3 \/ (WaitClass(z) = 3 /\ k.what < NextLock(z).what /\ need[z] # {})
          /\ k.space = "tv_user" =>
               WaitClass(z) > 4 \/ (WaitClass(z) = 4 /\ k.what < NextLock(z).what /\ need[z] # {})
          /\ k.space = "new_tv_post" =>
               WaitClass(z) = 6 /\ k.what < NextLock(z).what /\ need[z] # {}
        BY <2>6, HoldsValuesBelow
    <2>10. \E c \in {1, 3, 4, 6} :
              /\ WaitClass(t) = c
              /\ WaitClass(z) > c \/ (WaitClass(z) = c /\ k.what < NextLock(z).what /\ need[z] # {})
        <3>1. CASE pc[t] = "find"
            BY <2>3, <2>5, <2>9, <3>1 DEF WaitClass
        <3>2. CASE pc[t] = "lookup"
            BY <2>3, <2>5, <2>9, <3>2 DEF WaitClass
        <3>3. CASE pc[t] = "created"
            <4>1. k.space = NewSpace(t) /\ WaitClass(t) = (IF Users(t) THEN 3 ELSE 6)
                BY <2>3, <2>5, <3>3 DEF WaitClass
            <4> QED
                BY <2>9, <4>1 DEF NewSpace
        <3> QED
            BY <1>1, <1>3, <3>1, <3>2, <3>3
    <2> HIDE DEF l
    <2>11. CASE WaitClass(z) > WaitClass(t)
        <3>1. WaitClass(t) < WaitClass(z)
            BY <2>10, <2>11
        <3> QED
            BY <3>1 DEF Further
    <2>12. CASE WaitClass(z) = WaitClass(t) /\ k.what < NextLock(z).what /\ need[z] # {}
        <3>1. \A x \in WaitKeys(t), y \in WaitKeys(z) : x < y
            BY <2>5, <2>7, <2>8, <2>12
        <3> QED
            BY <2>12, <3>1 DEF Further
    <2> QED
        BY <2>10, <2>11, <2>12
<1> QED
    BY <1>2, <1>3

-----------------------------------------------------------------------------
(* Waiting through others. *)

LEMMA WaitsForType ==
    ASSUME TypeOK, NEW s \in Session
    PROVE  WaitsFor(s) \subseteq Session
<1>1. need[s] # {} => WaitsFor(s) \subseteq Session
    BY DEF WaitsFor, Holders
<1>2. ASSUME need[s] = {}, NEW t \in WaitsFor(s) PROVE t \in Session
    <2>1. /\ \A i \in NextRows(s) : ~RowFree(s, i)
          /\ \E i \in NextRows(s) : t = rowLock[i]
        BY <1>2 DEF WaitsFor
    <2>2. NextRows(s) \subseteq Item
        BY DEF NextRows, TypeOK
    <2> QED
        BY <2>1, <2>2 DEF RowFree, TypeOK
<1> QED
    BY <1>1, <1>2

\* Those ahead of a session are those it waits for, and those ahead of them.
LEMMA AheadOfAhead ==
    ASSUME TypeOK, NEW s \in Session
    PROVE  /\ Ahead(s) \subseteq Session
           /\ \A u \in {s} \cup Ahead(s) : WaitsFor(u) \subseteq Ahead(s)
           /\ \A z \in WaitsFor(s) : Ahead(z) \subseteq Ahead(s)
           /\ \A u \in Ahead(s) : \E z \in WaitsFor(s) : u = z \/ u \in Ahead(z)
<1>1. Ahead(s) \subseteq Session
    BY DEF Ahead
<1>2. \A u \in {s} \cup Ahead(s) : WaitsFor(u) \subseteq Ahead(s)
    BY <1>1, WaitsForType DEF Ahead
<1>3. ASSUME NEW z \in WaitsFor(s), NEW u \in Ahead(z) PROVE u \in Ahead(s)
    <2>1. z \in Ahead(s) /\ z \in Session
        BY <1>1, <1>2
    <2>2. \A v \in {z} \cup Ahead(s) : WaitsFor(v) \subseteq Ahead(s)
        BY <1>2, <2>1
    <2> QED
        BY <1>1, <1>3, <2>1, <2>2 DEF Ahead
<1>4. ASSUME NEW u \in Ahead(s) PROVE \E z \in WaitsFor(s) : u = z \/ u \in Ahead(z)
    <2> DEFINE T == {v \in Session : \E z \in WaitsFor(s) : v = z \/ v \in Ahead(z)}
    <2>1. WaitsFor(s) \subseteq T
        BY WaitsForType
    <2>2. ASSUME NEW v \in T PROVE WaitsFor(v) \subseteq T
        <3>1. PICK z \in WaitsFor(s) : v = z \/ v \in Ahead(z)
            OBVIOUS
        <3>2. z \in Session
            BY WaitsForType
        <3>3. \A x \in {z} \cup Ahead(z) : WaitsFor(x) \subseteq Ahead(z)
            BY <3>2, WaitsForType DEF Ahead
        <3>4. WaitsFor(v) \subseteq Ahead(z) /\ WaitsFor(v) \subseteq Session
            BY <3>1, <3>3, WaitsForType
        <3> QED
            BY <3>4
    <2>3. T \in SUBSET Session /\ \A v \in {s} \cup T : WaitsFor(v) \subseteq T
        BY <2>1, <2>2
    <2>4. u \in T
        <3> HIDE DEF T
        <3> QED
            BY <2>3 DEF Ahead
    <2> QED
        BY <2>4
<1> QED
    BY <1>1, <1>2, <1>3, <1>4

\* In a cycle of sessions that wait in order each waits for something after what s
\* does, s too.
LEMMA OrderMeansValueWritesGoOn ==
    ASSUME IInv, Ordered
    PROVE  ValueWritesDoNotDeadlock
<1>1. TypeOK
    BY DEF IInv
<1> SUFFICES ASSUME NEW s \in Session, s \in Ahead(s),
                    \A t \in Ahead(s) : s \in Ahead(t) => ~Excepted(t)
             PROVE  FALSE
    BY DEF ValueWritesDoNotDeadlock, Deadlocked, Excepted
<1> DEFINE Cycle == {t \in Ahead(s) : s \in Ahead(t)}
<1>2. s \in Cycle /\ Cycle \subseteq Session /\ \A t \in Cycle : ~Excepted(t)
    BY <1>1, AheadOfAhead
<1>3. ASSUME NEW t \in Cycle
      PROVE  /\ \E z \in WaitsFor(t) : z \in Cycle
             /\ \A z \in WaitsFor(t) : z \in Ahead(s)
    <2>1. t \in Session /\ t \in Ahead(s) /\ s \in Ahead(t)
        BY <1>2
    <2>2. \A z \in WaitsFor(t) : z \in Ahead(s)
        BY <1>1, <2>1, AheadOfAhead
    <2>3. PICK z \in WaitsFor(t) : s = z \/ s \in Ahead(z)
        BY <1>1, <2>1, AheadOfAhead
    <2> QED
        BY <1>2, <2>2, <2>3
<1>4. \A t \in Cycle : WaitsFor(t) # {}
    BY <1>3
<1> HIDE DEF Cycle
<1>5. ASSUME NEW t \in Cycle PROVE pc[t] # "reads"
    <2> SUFFICES ASSUME pc[t] = "reads" PROVE FALSE
        OBVIOUS
    <2>1. t \in Session /\ ~Excepted(t) /\ WaitsFor(t) # {}
        BY <1>2, <1>4
    <2>2. PICK z \in WaitsFor(t) : z \in Cycle
        BY <1>3
    <2>3. z \in Session /\ ~Excepted(z) /\ WaitsFor(z) # {}
        BY <1>2, <1>4, <2>2
    <2>4. OrderInv(t) /\ Active(t) /\ need[t] # {} /\ ~InSnapshot(t)
        BY <2>1, WaitsAt
    <2>5. NextLock(t) \in need[t]
        BY <1>1, <2>1, <2>4, NextLockType DEF TypeOK
    <2>6. NextLock(t).side = "refresh" /\ NextLock(t).what = IntentLock
        BY <2>4, <2>5 DEF OrderInv, Valued
    <2>7. PICK k \in locks[z] : Clash(k, NextLock(t))
        BY <2>2, <2>4 DEF WaitsFor, Holders
    <2>8. k.what = WholeLock
        BY <2>6, <2>7 DEF Clash
    <2> QED
        BY <2>3, <2>8, HeldLocks
<1> DEFINE C == {t \in Ahead(s) : t \in Cycle => Further(s, t)}
<1>6. ASSUME NEW u \in {s} \cup C, NEW z \in WaitsFor(u)
      PROVE  z \in C
    <2>1. u \in Session /\ (u = s \/ u \in Ahead(s))
        BY <1>1, AheadOfAhead
    <2>2. z \in Ahead(s) /\ z \in Session
        BY <1>1, <2>1, AheadOfAhead
    <2>3. ASSUME z \in Cycle PROVE Further(s, z)
        <3>1. u \in Cycle
            <4>1. s \in Ahead(z)
                BY <2>3 DEF Cycle
            <4>2. s \in Ahead(u)
                BY <1>1, <2>1, <4>1, AheadOfAhead
            <4> QED
                BY <1>2, <2>1, <4>2 DEF Cycle
        <3>2. Further(u, z)
            BY <1>2, <1>4, <1>5, <2>1, <2>2, <2>3, <3>1, Rises
        <3>3. CASE u = s
            BY <3>2, <3>3
        <3>4. CASE u \in C
            BY <1>2, <1>4, <2>1, <2>2, <2>3, <3>1, <3>2, <3>4, FurtherIsStrict
        <3> QED
            BY <3>3, <3>4
    <2> QED
        BY <2>2, <2>3
<1>7. s \in C
    <2>1. C \in SUBSET Session
        BY <1>1, AheadOfAhead
    <2>2. \A u \in {s} \cup C : WaitsFor(u) \subseteq C
        BY <1>6
    <2> HIDE DEF C
    <2> QED
        BY <2>1, <2>2 DEF Ahead
<1> QED
    BY <1>2, <1>4, <1>7, FurtherIsStrict

\* How a rename reaches posts is as it was at first.
LEMMA WayStays == [Next]_vars => way' = way
<1> SUFFICES ASSUME Next PROVE way' = way
    BY DEF vars
<1>1. CASE Done /\ UNCHANGED vars
    BY <1>1 DEF vars
<1>2. ASSUME NEW s \in Session, SessionStep(s) PROVE way' = way
    <2>1. CASE Start(s) \/ LockRow(s) \/ LockValue(s)
        BY <2>1 DEF Start, LockRow, LockValue
    <2>2. CASE Write(s) \/ WriteNothing(s) \/ Find(s) \/ FlushDone(s) \/ Fanout(s)
               \/ FannedOut(s) \/ RefreshAll(s) \/ Reconcile(s) \/ ApplyKeys(s) \/ LockReads(s)
        BY <2>2 DEF Write, WriteNothing, Find, FlushDone, Fanout, FannedOut, RefreshAll, Reconcile,
           ApplyKeys, LockReads, Step
    <2>3. CASE LockOrder(s) \/ Guard(s) \/ Patch(s) \/ LockKeys(s) \/ LockCreated(s)
               \/ Compute(s) \/ Upsert(s) \/ Check(s) \/ Lookup(s)
        BY <2>3 DEF LockOrder, Guard, Patch, LockKeys, LockCreated, Compute, Upsert, Check,
           Lookup, Step
    <2>4. CASE Commit(s) \/ SerializationFailure(s) \/ DetectDeadlock(s)
        BY <2>4 DEF Commit, SerializationFailure, DetectDeadlock, Fail, End
    <2> QED
        BY <1>2, <2>1, <2>2, <2>3, <2>4 DEF SessionStep
<1> QED
    BY <1>1, <1>2 DEF Next

\* Where every transaction is of one statement at READ COMMITTED, no cycle of
\* waiting, however many there are in it, is of value writes alone, each waiting
\* in order: what each waits for comes after all that it holds.
THEOREM ValueWritesGoThrough == Spec /\ Autocommit => []ValueWritesDoNotDeadlock
<1> DEFINE OInv == way # "fanout" => Ordered
<1>1. Init /\ Autocommit => OInv
    BY InitOrder
<1>2. IInv /\ OInv /\ [Next]_vars => OInv'
    BY WayStays, StepOrder
<1>3. IInv /\ OInv => ValueWritesDoNotDeadlock
    BY OrderMeansValueWritesGoOn DEF ValueWritesDoNotDeadlock
<1> QED
    BY <1>1, <1>2, <1>3, InvHolds, PTL DEF Spec
=============================================================================
