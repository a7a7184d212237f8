---------------------- MODULE RefreshFreshnessProofs -----------------------
(***************************************************************************)
(* The freshness of RefreshLocks, for any sessions, keys, scripts and      *)
(* isolation levels, where a rename reaches posts by a mapping query or a  *)
(* fan-out patch: what commits is what the view computes of what is        *)
(* committed.                                                              *)
(***************************************************************************)
EXTENDS RefreshLocksProofs

-----------------------------------------------------------------------------
(* What a refresh reads and owes. *)

T(p) == <<"tv_post", p>>
Own(p) == {<<"post", p>>, <<"source", p>>, <<"source", Conf>>}
Reader(x) == L("refresh", "source", x)
Writer(x) == L("writer", "source", x)

\* The rows v_post reads for a post.
ReadBy(db, p) == Own(p) \cup ({"source"} \X AuthorsIn(db, p))

\* What v_post shows, where a rename does not reach it through tv_user.
Shown(db, p) ==
    IF db[<<"post", p>>] = Absent THEN Absent
    ELSE [by |-> AuthorsIn(db, p),
          names |-> [x \in Source |-> IF <<"source", x>> \in ReadBy(db, p) THEN db[<<"source", x>>]
                                      ELSE Absent]]

NameTo(row, u, v) == [row EXCEPT !.names[u] = v]

\* The users whose name the statement wrote and no refresh has taken up: those
\* the trigger has not mapped yet, those a fan-out will patch.
Renamed(s) ==
    IF pc[s] = "find" THEN {x \in User : Written(s) = <<"source", x>>} ELSE work[s].fan

\* The posts the statement has still to refresh.
Owed(s) ==
    IF pc[s] = "find" THEN {p \in Post : Written(s) \in Own(p)}
    ELSE IF pc[s] = "check" /\ ~InSnapshot(s) THEN {}
    ELSE IF work[s].all THEN Post ELSE work[s].post

\* Does the statement patch the name of the user it wrote?
Patches(s) == way = "fanout" /\ IF pc[s] = "find" THEN Statement(s).op = "rename" ELSE work[s].fan # {}

-----------------------------------------------------------------------------
(* The inductive invariant. *)

\* A session that wrote what a row reads, and owes it no refresh, has it locked.
ReadersHeld(s) ==
    \A p \in Post \ Owed(s) : \A i \in ReadBy(Latest(s), p) \ ({"source"} \X Renamed(s)) :
        own[s][i] # None => rowLock[T(p)] = s

\* It sees that row as its view computes it, but for a name still to patch.
RowsFresh(s) ==
    \A p \in Post \ Owed(s) :
        LET row == Shown(Latest(s), p)
            late == AuthorsIn(Latest(s), p) \cap Renamed(s)
        IN  /\ late = {} => Latest(s)[T(p)] = row
            /\ Patches(s) => \A u \in late : \E v \in Name : Latest(s)[T(p)] = NameTo(row, u, v)

\* The authors it gave a post are locked as read, once their refresh has got to that.
AuthorsLocked(s) ==
    \A p \in Post : own[s][<<"post", p>>] \notin {None, Absent} =>
        \A x \in own[s][<<"post", p>>] :
            \/ Reader(x) \in locks[s]
            \/ pc[s] = "find" /\ Written(s) = <<"post", p>>
            \/ pc[s] \in {"flush", "reads"} /\ p \in work[s].post
            \/ pc[s] = "order" /\ p \in work[s].post /\ Reader(x) \in need[s]

Links(s) == \A p \in Post : own[s][<<"post", p>>] # None => links[s]

\* The names it wrote are locked as written; a post or a comment took the
\* TVIEW's intent lock, the setting all of it.
NamesLocked(s) ==
    \A x \in User : own[s][<<"source", x>>] # None =>
        \A k \in {Writer(x), Writer(IntentLock)} :
            k \in locks[s] \/ (pc[s] = "find" /\ Written(s) = <<"source", x>> /\ k \in need[s])

TviewLocked(s) ==
    /\ \A p \in Post : \A i \in {<<"post", p>>, <<"source", p>>} : own[s][i] # None =>
          \/ Intent(T(p)) \in locks[s]
          \/ pc[s] = "find" /\ Written(s) = i
          \/ pc[s] \in {"flush", "reads"} /\ p \in work[s].post
    /\ own[s][<<"source", Conf>>] # None =>
          \/ Whole \in locks[s]
          \/ pc[s] = "find" /\ Written(s) = <<"source", Conf>>
          \/ pc[s] \in {"flush", "whole"} /\ work[s].all

AtRest == {"idle", "write", "find"} \cup Ended

\* What is queued and found, step by step.
Queues(s) ==
    LET w == work[s]
    IN  /\ w.user = {} /\ w.patched = {} /\ pc[s] # "lookup"
        /\ pc[s] \in AtRest => w.post = {} /\ w.fan = {} /\ ~w.all
        /\ pc[s] \in {"reads", "order", "guard", "patch", "keys", "created", "compute", "upsert", "check"} =>
              w.fan = {} /\ w.target = IF w.all THEN TvPost ELSE {"tv_post"} \X w.post
        /\ pc[s] \in {"keys", "created", "compute", "upsert"} => w.redo = w.target
        /\ pc[s] = "compute" /\ w.all => Reader(WholeLock) \in locks[s] \cup need[s]
        /\ pc[s] = "upsert" /\ w.all => Reader(WholeLock) \in locks[s]

\* A name to patch is the statement's own; the rows its UPDATE found are those
\* that show it, locked one by one.
Patching(s) ==
    LET u == Statement(s).on
    IN  /\ pc[s] = "find" /\ Statement(s).op = "rename" => own[s][<<"source", u>>] = s
        /\ work[s].fan # {} =>
              /\ work[s].fan = {u} /\ way = "fanout" /\ work[s].post = {} /\ ~work[s].all
              /\ own[s][<<"source", u>>] = s
        /\ pc[s] = "fanned" =>
              /\ work[s].fan # {}
              /\ InSnapshot(s) => work[s].target = {"tv_post"} \X Embedding(Seen(s), u)
              /\ \A p \in Mapped(Latest(s), u) :
                    /\ InSnapshot(s) \/ T(p) \in work[s].target
                    /\ T(p) \in work[s].target => T(p) \in rows[s] \/ rowLock[T(p)] = s

\* What the refresh computed is what its view computes still; in a snapshot, what
\* it shows there.
Computed(s) ==
    LET db == IF InSnapshot(s) THEN Seen(s) ELSE Latest(s)
    IN  /\ pc[s] = "upsert" => \A i \in work[s].redo : work[s].fresh[i] = Shown(db, i[2])
        /\ pc[s] = "check" /\ InSnapshot(s) =>
              \A i \in work[s].target : rowLock[i] = s /\ Latest(s)[i] = Shown(db, i[2])

\* The names there are.
Names(s) ==
    \A x \in Source :
        /\ own[s][<<"source", x>>] \in Name \cup {None}
        /\ snapshot[s] # None \/ (InSnapshot(s) /\ pc[s] \notin {"idle"} \cup Ended) =>
              snapshot[s].rows[<<"source", x>>] \in Name

FreshInv(s) ==
    /\ ReadersHeld(s) /\ RowsFresh(s) /\ AuthorsLocked(s) /\ Links(s) /\ NamesLocked(s)
    /\ TviewLocked(s) /\ Queues(s) /\ Patching(s) /\ Computed(s) /\ Names(s)

StoreFresh ==
    /\ \A p \in Post : store[T(p)] = Shown(store, p)
    /\ \A x \in Source : store[<<"source", x>>] \in Name

FInv == way # "embed" => StoreFresh /\ \A s \in Session : FreshInv(s)

-----------------------------------------------------------------------------
(* Rows. *)

\* The items of a post and of its TVIEW row.
LEMMA Posts ==
    ASSUME NEW p \in Post
    PROVE  /\ T(p) \in TvPost /\ T(p) \in Tv /\ T(p) \in Item /\ T(p)[1] = "tv_post" /\ T(p)[2] = p
           /\ Own(p) \subseteq Item \ Tv
           /\ \A i \in TvPost : i[2] = p => i = T(p)
<1>1. T(p) \in TvPost
    BY DEF T, TvPost
<1>2. Conf \in Source /\ p \in Source
    BY DEF Source
<1>3. Own(p) \subseteq Item \ Tv
    BY <1>2, Kinds DEF Own
<1> QED
    BY <1>1, <1>3, Kinds DEF T, Tv

\* A view reads no TVIEW row: its post, its comment, the setting, its authors.
LEMMA ReadItems ==
    ASSUME NEW p \in Post, NEW db, AuthorsIn(db, p) \subseteq User
    PROVE  /\ ReadBy(db, p) \subseteq Item \ Tv
           /\ \A x \in Source : <<"source", x>> \in ReadBy(db, p) <=> x \in {p, Conf} \cup AuthorsIn(db, p)
<1>1. \A x \in AuthorsIn(db, p) : <<"source", x>> \in Item \ Tv
    BY Kinds DEF Source
<1>2. {"source"} \X AuthorsIn(db, p) \subseteq Item \ Tv
    BY <1>1
<1>3. ReadBy(db, p) \subseteq Item \ Tv
    BY <1>2, Posts DEF ReadBy
<1>4. \A x \in Source : <<"source", x>> \in ReadBy(db, p) <=> x \in {p, Conf} \cup AuthorsIn(db, p)
    BY DEF ReadBy, Own
<1> QED
    BY <1>3, <1>4

\* The row is that of its view.
LEMMA ShownRow ==
    ASSUME way # "embed", NEW p \in Post, NEW db
    PROVE  PostRow(db, p) = Shown(db, p)
<1>1. \A x \in Source : <<"source", x>> \in ReadBy(db, p) <=> x \in AuthorsIn(db, p) \/ x \in {p, Conf}
    BY DEF ReadBy, Own
<1> QED
    BY <1>1 DEF PostRow, Shown

\* What it reads decides it.
LEMMA SameRow ==
    ASSUME NEW p \in Post, NEW db, NEW db2, \A i \in ReadBy(db, p) : db2[i] = db[i]
    PROVE  /\ AuthorsIn(db2, p) = AuthorsIn(db, p) /\ ReadBy(db2, p) = ReadBy(db, p)
           /\ Shown(db2, p) = Shown(db, p)
<1>1. db2[<<"post", p>>] = db[<<"post", p>>]
    BY DEF ReadBy, Own
<1>2. AuthorsIn(db2, p) = AuthorsIn(db, p)
    BY <1>1 DEF AuthorsIn
<1>3. ReadBy(db2, p) = ReadBy(db, p)
    BY <1>2 DEF ReadBy
<1> HIDE DEF ReadBy
<1> QED
    BY <1>1, <1>2, <1>3 DEF Shown

\* Another name of one author changes that name.
LEMMA RenamedRow ==
    ASSUME NEW p \in Post, NEW db, NEW db2, NEW u \in User, u \in AuthorsIn(db, p),
           \A i \in ReadBy(db, p) : i # <<"source", u>> => db2[i] = db[i],
           db2[<<"source", u>>] \in Name
    PROVE  /\ AuthorsIn(db2, p) = AuthorsIn(db, p) /\ ReadBy(db2, p) = ReadBy(db, p)
           /\ \E v \in Name : Shown(db2, p) = NameTo(Shown(db, p), u, v)
<1>1. db2[<<"post", p>>] = db[<<"post", p>>]
    BY DEF ReadBy, Own
<1>2. AuthorsIn(db2, p) = AuthorsIn(db, p) /\ db[<<"post", p>>] # Absent
    BY <1>1 DEF AuthorsIn
<1>3. ReadBy(db2, p) = ReadBy(db, p) /\ <<"source", u>> \in ReadBy(db, p)
    BY <1>2 DEF ReadBy
<1> HIDE DEF ReadBy
<1> DEFINE n == [x \in Source |-> IF <<"source", x>> \in ReadBy(db, p) THEN db[<<"source", x>>] ELSE Absent]
           m == [x \in Source |-> IF <<"source", x>> \in ReadBy(db, p) THEN db2[<<"source", x>>] ELSE Absent]
<1>4. m = [n EXCEPT ![u] = db2[<<"source", u>>]]
    <2>1. u \in Source
        BY DEF Source
    <2>2. \A x \in Source : x # u => m[x] = n[x]
        <3>1. \A x : x # u => <<"source", x>> # <<"source", u>>
            OBVIOUS
        <3> QED
            BY <3>1
    <2>3. m[u] = db2[<<"source", u>>]
        BY <1>3, <2>1
    <2> QED
        BY <2>1, <2>2, <2>3
<1>5. Shown(db, p) = [by |-> AuthorsIn(db, p), names |-> n]
    BY <1>2 DEF Shown
<1>6. Shown(db2, p) = [by |-> AuthorsIn(db, p), names |-> m]
    BY <1>1, <1>2, <1>3 DEF Shown
<1> HIDE DEF n, m
<1>7. Shown(db2, p) = NameTo(Shown(db, p), u, db2[<<"source", u>>])
    BY <1>4, <1>5, <1>6 DEF NameTo
<1> QED
    BY <1>2, <1>3, <1>7

\* It is a row where there is a post.
LEMMA RowType ==
    ASSUME NEW p \in Post, NEW db, AuthorsIn(db, p) \subseteq User,
           \A x \in Source : db[<<"source", x>>] \in Name
    PROVE  /\ Shown(db, p) \in Row \cup {Absent} /\ Shown(db, p) # None
           /\ db[<<"post", p>>] = Absent => Shown(db, p) = Absent
           /\ db[<<"post", p>>] # Absent =>
                /\ Shown(db, p) \in Row /\ Shown(db, p) # Absent
                /\ Shown(db, p).by = AuthorsIn(db, p)
<1>1. Absent \in Name /\ Absent # None
    BY MarkerAssumption DEF Name
<1>2. [x \in Source |-> IF <<"source", x>> \in ReadBy(db, p) THEN db[<<"source", x>>] ELSE Absent]
        \in [Source -> Name]
    BY <1>1
<1>3. db[<<"post", p>>] # Absent => Shown(db, p) \in Row /\ Shown(db, p).by = AuthorsIn(db, p)
    BY <1>2 DEF Shown, Row
<1>4. db[<<"post", p>>] = Absent => Shown(db, p) = Absent
    BY DEF Shown
<1>5. \A row \in Row : row # None /\ row # Absent
    BY MarkerAssumption
<1> QED
    BY <1>1, <1>3, <1>4, <1>5

-----------------------------------------------------------------------------
(* What sessions see. *)

\* What a session sees: what it wrote, or what is committed; well typed, in its
\* snapshot too.
LEMMA Sees ==
    ASSUME IInv, StoreFresh, NEW s \in Session, Names(s)
    PROVE  /\ \A i \in Item : Latest(s)[i] = IF own[s][i] # None THEN own[s][i] ELSE store[i]
           /\ \A p \in Post : AuthorsIn(Latest(s), p) \subseteq User
           /\ \A x \in Source : Latest(s)[<<"source", x>>] \in Name
           /\ pc[s] \notin {"idle"} \cup Ended =>
                /\ \A p \in Post : AuthorsIn(Seen(s), p) \subseteq User
                /\ \A x \in Source : Seen(s)[<<"source", x>>] \in Name
           /\ ~InSnapshot(s) => Seen(s) = Latest(s)
<1>1. TypeOK /\ Snapped(s)
    BY DEF IInv, SessionInv
<1>2. \A i \in Item : Latest(s)[i] = IF own[s][i] # None THEN own[s][i] ELSE store[i]
    BY DEF Latest, With
<1>3. \A p \in Post : AuthorsIn(Latest(s), p) \subseteq User
    <2> SUFFICES ASSUME NEW p \in Post
                 PROVE  AuthorsIn(Latest(s), p) \subseteq User
        OBVIOUS
    <2>1. <<"post", p>> \in Item
        BY Kinds
    <2>2. Latest(s)[<<"post", p>>] \in Authors
        BY <1>1, <1>2, <2>1 DEF TypeOK
    <2> QED
        BY <2>2 DEF AuthorsIn, Authors
<1>4. \A x \in Source : Latest(s)[<<"source", x>>] \in Name
    BY <1>2, Kinds DEF Names, StoreFresh
<1>5. ~InSnapshot(s) => Seen(s) = Latest(s)
    BY DEF Seen
<1>6. ASSUME pc[s] \notin {"idle"} \cup Ended, NEW x \in Source
      PROVE  Seen(s)[<<"source", x>>] \in Name
    <2>1. CASE InSnapshot(s)
        <3>1. <<"source", x>> \in Item
            BY Kinds
        <3>2. Seen(s)[<<"source", x>>] =
                 IF own[s][<<"source", x>>] # None THEN own[s][<<"source", x>>]
                 ELSE snapshot[s].rows[<<"source", x>>]
            BY <2>1, <3>1 DEF Seen, With
        <3> QED
            BY <1>6, <2>1, <3>2 DEF Names
    <2>2. CASE ~InSnapshot(s)
        BY <1>4, <1>5, <2>2
    <2> QED
        BY <2>1, <2>2
<1> QED
    BY <1>1, <1>2, <1>3, <1>4, <1>5, <1>6, SeenAuthors

\* What a session keeps while another steps, and nobody commits.
LEMMA OthersStay ==
    ASSUME IInv, NEW s \in Session, Alone(s), NEW u \in Session \ {s}, FreshInv(u),
           UNCHANGED <<store, way>>, links'[u] = links[u]
    PROVE  FreshInv(u)'
<1>1. /\ pc'[u] = pc[u] /\ need'[u] = need[u] /\ rows'[u] = rows[u] /\ work'[u] = work[u]
      /\ locks'[u] = locks[u] /\ own'[u] = own[u] /\ script'[u] = script[u]
      /\ snapshot'[u] = snapshot[u] /\ level'[u] = level[u]
      /\ \A i \in Item : rowLock[i] = u => rowLock'[i] = u
    BY DEF Alone
<1>2. /\ Latest(u)' = Latest(u) /\ Seen(u)' = Seen(u) /\ InSnapshot(u)' = InSnapshot(u)
      /\ Statement(u)' = Statement(u) /\ Written(u)' = Written(u)
    BY <1>1 DEF Latest, Seen, With, InSnapshot, Statement, Written
<1>3. Renamed(u)' = Renamed(u) /\ Owed(u)' = Owed(u) /\ Patches(u)' = Patches(u)
    BY <1>1, <1>2 DEF Renamed, Owed, Patches
<1>4. \A p \in Post : rowLock[T(p)] = u => rowLock'[T(p)] = u
    BY <1>1, Posts
<1>5. ReadersHeld(u)'
    BY <1>1, <1>2, <1>3, <1>4 DEF FreshInv, ReadersHeld
<1>6. RowsFresh(u)'
    BY <1>1, <1>2, <1>3 DEF FreshInv, RowsFresh
<1>7. AuthorsLocked(u)' /\ Links(u)' /\ NamesLocked(u)' /\ TviewLocked(u)'
    BY <1>1, <1>2 DEF FreshInv, AuthorsLocked, Links, NamesLocked, TviewLocked
<1>8. Queues(u)'
    BY <1>1 DEF FreshInv, Queues
<1>9. Patching(u)'
    <2>1. \A p \in Mapped(Latest(u), Statement(u).on) : p \in Post
        BY FoundPosts
    <2> QED
        BY <1>1, <1>2, <1>4, <2>1 DEF FreshInv, Patching
<1>10. Computed(u)'
    <2>1. Computed(u)
        BY DEF FreshInv
    <2>2. pc[u] = "check" => \A i \in work[u].target : rowLock[i] = u => rowLock'[i] = u
        <3>1. work[u].target \subseteq Item
            BY DEF IInv, TypeOK, WorkOK
        <3> QED
            BY <1>1, <3>1
    <2> QED
        BY <1>1, <1>2, <2>1, <2>2 DEF Computed
<1>11. Names(u)'
    BY <1>1, <1>2 DEF FreshInv, Names
<1> QED
    BY <1>5, <1>6, <1>7, <1>8, <1>9, <1>10, <1>11 DEF FreshInv

\* A step of s that commits nothing.
LEMMA StaysFresh ==
    ASSUME IInv, FInv, way # "embed", NEW s \in Session, Alone(s), UNCHANGED <<store, way>>,
           \A u \in Session \ {s} : links'[u] = links[u], FreshInv(s)'
    PROVE  FInv'
<1>1. StoreFresh'
    BY DEF FInv, StoreFresh
<1> QED
    BY <1>1, OthersStay DEF FInv

-----------------------------------------------------------------------------
(* A transaction commits. *)

\* Which value locks exclude each other.
LEMMA LocksClash ==
    /\ \A x \in User : Clash(Reader(x), Writer(x))
    /\ Clash(Reader(WholeLock), Writer(IntentLock))
    /\ \A p : Clash(Whole, Intent(T(p)))
    /\ Clash(Whole, Whole)
    BY Apart DEF Clash, Reader, Writer, Whole, Intent, T, L, Source

\* A transaction that commits owes no refresh.
LEMMA CommitOwes ==
    ASSUME FInv, way # "embed", NEW s \in Session, Commit(s)
    PROVE  /\ \A p \in Post : \A i \in ReadBy(Latest(s), p) : own[s][i] # None => rowLock[T(p)] = s
           /\ \A p \in Post : Latest(s)[T(p)] = Shown(Latest(s), p)
           /\ \A p \in Post : own[s][<<"post", p>>] \notin {None, Absent} =>
                 \A x \in own[s][<<"post", p>>] : Reader(x) \in locks[s]
           /\ \A x \in User : own[s][<<"source", x>>] # None =>
                 Writer(x) \in locks[s] /\ Writer(IntentLock) \in locks[s]
           /\ \A p \in Post :
                 /\ own[s][<<"post", p>>] # None => Intent(T(p)) \in locks[s]
                 /\ own[s][<<"source", p>>] # None => Intent(T(p)) \in locks[s]
           /\ own[s][<<"source", Conf>>] # None => Whole \in locks[s]
<1>1. FreshInv(s) /\ pc[s] = "idle"
    BY DEF FInv, Commit
<1>2. Owed(s) = {} /\ Renamed(s) = {}
    BY <1>1 DEF FreshInv, Queues, AtRest, Owed, Renamed
<1>3. ReadersHeld(s) /\ RowsFresh(s)
    BY <1>1 DEF FreshInv
<1>4. \A p \in Post : \A i \in ReadBy(Latest(s), p) : own[s][i] # None => rowLock[T(p)] = s
    BY <1>2, <1>3 DEF ReadersHeld
<1>5. \A p \in Post : Latest(s)[T(p)] = Shown(Latest(s), p)
    BY <1>2, <1>3 DEF RowsFresh
<1>6. AuthorsLocked(s) /\ NamesLocked(s) /\ TviewLocked(s)
    BY <1>1 DEF FreshInv
<1> QED
    BY <1>1, <1>4, <1>5, <1>6 DEF AuthorsLocked, NamesLocked, TviewLocked

\* It wrote nothing a row reads that it has not locked, as another sees that
\* row: authors the other gave the post are locked as read.
LEMMA Untouched ==
    ASSUME IInv, FInv, way # "embed", NEW s \in Session, Commit(s), NEW u \in Session \ {s},
           NEW p \in Post, rowLock[T(p)] # s,
           own[u][<<"post", p>>] \notin {None, Absent} =>
               \A x \in own[u][<<"post", p>>] : Reader(x) \in locks[u]
    PROVE  \A i \in ReadBy(Latest(u), p) : own[s][i] = None
<1>1. StoreFresh /\ NoClash /\ Names(s) /\ Names(u)
    BY DEF IInv, FInv, FreshInv
<1>2. \A i \in ReadBy(Latest(s), p) : own[s][i] = None
    BY CommitOwes
<1>3. <<"post", p>> \in Item /\ Own(p) \subseteq ReadBy(Latest(s), p) /\ <<"post", p>> \in Own(p)
    BY Kinds DEF ReadBy, Own
<1>4. own[s][<<"post", p>>] = None
    BY <1>2, <1>3
<1>5. AuthorsIn(Latest(u), p) \subseteq User
    BY <1>1, Sees
<1>6. ASSUME NEW x \in AuthorsIn(Latest(u), p)
      PROVE  own[s][<<"source", x>>] = None
    <2>1. CASE own[u][<<"post", p>>] = None
        <3>1. Latest(u)[<<"post", p>>] = Latest(s)[<<"post", p>>]
            BY <1>1, <1>3, <1>4, <2>1, Sees
        <3>2. x \in AuthorsIn(Latest(s), p)
            BY <1>6, <3>1 DEF AuthorsIn
        <3> QED
            BY <1>2, <3>2 DEF ReadBy
    <2>2. CASE own[u][<<"post", p>>] # None
        <3>1. Latest(u)[<<"post", p>>] = own[u][<<"post", p>>]
            BY <1>1, <1>3, <2>2, Sees
        <3>2. x \in User /\ Reader(x) \in locks[u]
            BY <1>5, <1>6, <2>2, <3>1 DEF AuthorsIn
        <3>3. Writer(x) \notin locks[s]
            BY <1>1, <3>2, LocksClash DEF NoClash
        <3> QED
            BY <3>2, <3>3, CommitOwes
    <2> QED
        BY <2>1, <2>2
<1> QED
    BY <1>2, <1>3, <1>6 DEF ReadBy

\* Nor anything at all that rows read, while another refreshes the TVIEW whole.
LEMMA UntouchedWhole ==
    ASSUME IInv, FInv, way # "embed", NEW s \in Session, Commit(s), NEW u \in Session \ {s},
           Whole \in locks[u], Reader(WholeLock) \in locks[u], NEW p \in Post
    PROVE  \A i \in ReadBy(Latest(u), p) : own[s][i] = None
<1>1. StoreFresh /\ NoClash /\ Names(u)
    BY DEF IInv, FInv, FreshInv
<1>2. Writer(IntentLock) \notin locks[s] /\ Intent(T(p)) \notin locks[s] /\ Whole \notin locks[s]
    BY <1>1, LocksClash DEF NoClash
<1>3. \A i \in Own(p) : own[s][i] = None
    BY <1>2, CommitOwes DEF Own
<1>4. \A x \in User : own[s][<<"source", x>>] = None
    BY <1>2, CommitOwes
<1>5. AuthorsIn(Latest(u), p) \subseteq User
    BY <1>1, Sees
<1> QED
    BY <1>3, <1>4, <1>5 DEF ReadBy

\* Nor has another written what a row it has locked reads once it commits.
LEMMA OthersUntouched ==
    ASSUME IInv, FInv, way # "embed", NEW s \in Session, Commit(s), NEW u \in Session \ {s},
           NEW p \in Post \ Owed(u), rowLock[T(p)] = s, NEW db, NEW i,
           db[<<"post", p>>] = IF own[u][<<"post", p>>] # None THEN own[u][<<"post", p>>]
                               ELSE Latest(s)[<<"post", p>>],
           i \in ReadBy(db, p) \ ({"source"} \X Renamed(u))
    PROVE  own[u][i] = None
<1>1. StoreFresh /\ NoClash /\ Names(s) /\ Names(u) /\ ReadersHeld(u) /\ NamesLocked(u)
    BY DEF IInv, FInv, FreshInv
<1>2. \A j \in ReadBy(Latest(u), p) \ ({"source"} \X Renamed(u)) : own[u][j] = None
    BY <1>1 DEF ReadersHeld
<1>3. <<"post", p>> \in Item /\ <<"post", p>> \in Own(p)
    BY Kinds DEF Own
<1>4. Latest(u)[<<"post", p>>] = Latest(s)[<<"post", p>>] \/ own[s][<<"post", p>>] # None
      \/ own[u][<<"post", p>>] # None
    BY <1>1, <1>3, Sees
<1>5. CASE own[u][<<"post", p>>] # None \/ own[s][<<"post", p>>] = None
    <2>1. db[<<"post", p>>] = Latest(u)[<<"post", p>>]
        BY <1>1, <1>3, <1>4, <1>5, Sees
    <2>2. ReadBy(db, p) = ReadBy(Latest(u), p)
        BY <2>1 DEF ReadBy, AuthorsIn
    <2> QED
        BY <1>2, <2>2
<1>6. CASE own[u][<<"post", p>>] = None /\ own[s][<<"post", p>>] # None
    <2>1. db[<<"post", p>>] = own[s][<<"post", p>>]
        BY <1>1, <1>3, <1>6, Sees
    <2>2. CASE i \in Own(p)
        BY <1>2, <2>2 DEF ReadBy
    <2>3. CASE i \notin Own(p)
        <3>1. PICK x \in AuthorsIn(db, p) : i = <<"source", x>>
            BY <2>3 DEF ReadBy
        <3>2. AuthorsIn(db, p) = AuthorsIn(Latest(s), p)
            BY <1>6 DEF AuthorsIn
        <3>3. x \in User /\ x \in own[s][<<"post", p>>] /\ own[s][<<"post", p>>] # Absent
            BY <1>1, <2>1, <3>1, <3>2, Sees DEF AuthorsIn
        <3>4. Reader(x) \in locks[s]
            BY <1>6, <3>3, CommitOwes
        <3>5. Writer(x) \notin locks[u]
            BY <1>1, <3>3, <3>4, LocksClash DEF NoClash
        <3>6. SUFFICES ASSUME own[u][i] # None PROVE FALSE
            OBVIOUS
        <3>7. pc[u] = "find" /\ Written(u) = <<"source", x>>
            BY <1>1, <3>1, <3>3, <3>5, <3>6 DEF NamesLocked
        <3>8. x \in Renamed(u)
            BY <3>3, <3>7 DEF Renamed
        <3> QED
            BY <3>1, <3>8
    <2> QED
        BY <2>2, <2>3
<1> QED
    BY <1>5, <1>6

\* What another sees of the committed rows.
LEMMA SeesCommit ==
    ASSUME IInv, FInv, way # "embed", NEW s \in Session, Commit(s), NEW u \in Session \ {s}
    PROVE  /\ Alone(s) /\ own'[u] = own[u] /\ links'[u] = links[u]
           /\ \A i \in Item : Latest(u)'[i] = IF own[u][i] # None THEN own[u][i] ELSE Latest(s)[i]
           /\ \A i \in Item : own[s][i] = None => Latest(u)'[i] = Latest(u)[i]
           /\ \A p \in Post : rowLock[T(p)] # s => Latest(u)'[T(p)] = Latest(u)[T(p)]
<1>1. Alone(s) /\ links'[u] = links[u]
    BY EndAlone DEF IInv, Commit
<1>2. own'[u] = own[u] /\ store' = Latest(s)
    BY <1>1 DEF Alone, Commit
<1>3. \A i \in Item : Latest(u)'[i] = IF own[u][i] # None THEN own[u][i] ELSE Latest(s)[i]
    BY <1>2 DEF Latest, With
<1>4. \A i \in Item : own[s][i] = None => Latest(u)'[i] = Latest(u)[i]
    BY <1>3, Sees DEF FInv, FreshInv
<1>5. \A p \in Post : rowLock[T(p)] # s => Latest(u)'[T(p)] = Latest(u)[T(p)]
    BY <1>4, Posts DEF IInv, SessionInv, OwnsWritten
<1> QED
    BY <1>1, <1>2, <1>3, <1>4, <1>5

\* A commit that wrote nothing a row reads leaves what another session is shown.
LEMMA KeptRow ==
    ASSUME IInv, FInv, way # "embed", NEW s \in Session, Commit(s), NEW u \in Session \ {s},
           NEW p \in Post, \A i \in ReadBy(Latest(u), p) : own[s][i] = None
    PROVE  /\ AuthorsIn(Latest(u)', p) = AuthorsIn(Latest(u), p)
           /\ ReadBy(Latest(u)', p) = ReadBy(Latest(u), p)
           /\ Shown(Latest(u)', p) = Shown(Latest(u), p)
<1>1. ReadBy(Latest(u), p) \subseteq Item
    BY ReadItems, Sees DEF FInv, FreshInv
<1>2. \A i \in ReadBy(Latest(u), p) : Latest(u)'[i] = Latest(u)[i]
    BY <1>1, SeesCommit
<1> HIDE DEF Latest
<1> QED
    BY <1>2, SameRow

\* A post another has dealt with: its authors there are locked as read.
LEMMA SettledLocks ==
    ASSUME NEW u, AuthorsLocked(u), NEW p \in Post \ Owed(u)
    PROVE  own[u][<<"post", p>>] \notin {None, Absent} =>
               \A x \in own[u][<<"post", p>>] : Reader(x) \in locks[u]
<1>1. ~(pc[u] = "find" /\ Written(u) = <<"post", p>>)
    BY DEF Owed, Own
<1>2. ~(pc[u] \in {"flush", "reads", "order"} /\ p \in work[u].post)
    BY DEF Owed
<1> QED
    BY <1>1, <1>2 DEF AuthorsLocked

\* The rows another session has, or owes no refresh, stay locked and fresh: a
\* commit that wrote what they read would hold their row locks, or value locks
\* that clash with the session's.
LEMMA OtherRows ==
    ASSUME IInv, FInv, way # "embed", NEW s \in Session, Commit(s), NEW u \in Session \ {s}
    PROVE  ReadersHeld(u)' /\ RowsFresh(u)'
<1>1. /\ StoreFresh /\ FreshInv(u) /\ Names(u) /\ Names(s) /\ AuthorsLocked(u)
      /\ ReadersHeld(u) /\ RowsFresh(u)
    BY DEF FInv, FreshInv
<1>2. Alone(s) /\ own'[u] = own[u]
    BY SeesCommit
<1>3. Renamed(u)' = Renamed(u) /\ Owed(u)' = Owed(u) /\ Patches(u)' = Patches(u)
    <2>1. pc'[u] = pc[u] /\ work'[u] = work[u] /\ script'[u] = script[u] /\ level' = level /\ way' = way
        BY <1>2 DEF Alone, Commit, End
    <2> QED
        BY <2>1 DEF Renamed, Owed, Patches, InSnapshot, Statement, Written
<1> DEFINE now == Latest(u)'
           then == Latest(u)
<1>4. ASSUME NEW p \in Post \ Owed(u), rowLock[T(p)] # s
      PROVE  /\ AuthorsIn(now, p) = AuthorsIn(then, p) /\ ReadBy(now, p) = ReadBy(then, p)
             /\ Shown(now, p) = Shown(then, p) /\ now[T(p)] = then[T(p)]
             /\ rowLock[T(p)] = u => rowLock'[T(p)] = u
    <2>1. \A i \in ReadBy(Latest(u), p) : own[s][i] = None
        BY <1>1, <1>4, SettledLocks, Untouched
    <2> QED
        BY <1>2, <1>4, <2>1, KeptRow, SeesCommit, Posts DEF Alone
<1>5. ASSUME NEW p \in Post \ Owed(u), rowLock[T(p)] = s
      PROVE  /\ \A i \in ReadBy(now, p) \ ({"source"} \X Renamed(u)) : own[u][i] = None
             /\ now[T(p)] = Shown(Latest(s), p)
             /\ \A i \in ReadBy(now, p) \ ({"source"} \X Renamed(u)) : now[i] = Latest(s)[i]
             /\ now[<<"post", p>>] = Latest(s)[<<"post", p>>] /\ AuthorsIn(now, p) \subseteq User
             /\ AuthorsIn(now, p) = AuthorsIn(Latest(s), p)
    <2>1. <<"post", p>> \in Item /\ T(p) \in Item
        BY Kinds, Posts
    <2>2. now[<<"post", p>>] = IF own[u][<<"post", p>>] # None THEN own[u][<<"post", p>>]
                               ELSE Latest(s)[<<"post", p>>]
        BY <2>1, SeesCommit
    <2>3. \A i \in ReadBy(now, p) \ ({"source"} \X Renamed(u)) : own[u][i] = None
        BY <1>5, <2>2, OthersUntouched
    <2>4. own[u][T(p)] = None
        BY <1>5, <2>1 DEF IInv, SessionInv, OwnsWritten
    <2>5. now[T(p)] = Shown(Latest(s), p)
        BY <2>1, <2>4, SeesCommit, CommitOwes
    <2>6. now[<<"post", p>>] = Latest(s)[<<"post", p>>]
        <3>1. <<"post", p>> \in ReadBy(now, p) \ ({"source"} \X Renamed(u))
            BY DEF ReadBy, Own
        <3> QED
            BY <2>2, <2>3, <3>1
    <2>7. AuthorsIn(now, p) = AuthorsIn(Latest(s), p)
        BY <2>6 DEF AuthorsIn
    <2>8. AuthorsIn(now, p) \subseteq User
        BY <1>1, <2>7, Sees
    <2>9. ReadBy(now, p) \subseteq Item
        BY <2>8, ReadItems
    <2>10. \A i \in ReadBy(now, p) \ ({"source"} \X Renamed(u)) : now[i] = Latest(s)[i]
        BY <2>3, <2>9, SeesCommit
    <2> QED
        BY <2>3, <2>5, <2>6, <2>7, <2>8, <2>10
<1> HIDE DEF now, then
<1>6. ReadersHeld(u)'
    <2> SUFFICES ASSUME NEW p \in Post \ Owed(u), NEW i \in ReadBy(now, p) \ ({"source"} \X Renamed(u)),
                        own[u][i] # None
                 PROVE  rowLock'[T(p)] = u
        BY <1>2, <1>3 DEF ReadersHeld, now
    <2>1. rowLock[T(p)] # s
        BY <1>5
    <2> QED
        BY <1>1, <1>4, <2>1 DEF ReadersHeld, then
<1>7. RowsFresh(u)'
    <2> SUFFICES ASSUME NEW p \in Post \ Owed(u)
                 PROVE  LET late == AuthorsIn(now, p) \cap Renamed(u)
                        IN  /\ late = {} => now[T(p)] = Shown(now, p)
                            /\ Patches(u) => \A x \in late : \E v \in Name : now[T(p)] = NameTo(Shown(now, p), x, v)
        BY <1>3 DEF RowsFresh, now
    <2>1. CASE rowLock[T(p)] # s
        BY <1>1, <1>4, <2>1 DEF RowsFresh, then
    <2>2. CASE rowLock[T(p)] = s
        <3>1. ASSUME AuthorsIn(now, p) \cap Renamed(u) = {}
              PROVE  now[T(p)] = Shown(now, p)
            <4>1. \A i \in ReadBy(now, p) : Latest(s)[i] = now[i]
                <5>1. \A i \in ReadBy(now, p) : i \in {"source"} \X Renamed(u) => i \in Own(p)
                    BY <3>1 DEF ReadBy
                <5>2. \A i \in Own(p) : i \notin {"source"} \X User
                    BY KeyAssumption DEF Own, Conf
                <5>3. Renamed(u) \subseteq User
                    BY DEF IInv, TypeOK, WorkOK, Renamed
                <5> QED
                    BY <1>5, <2>2, <5>1, <5>2, <5>3
            <4>2. Shown(Latest(s), p) = Shown(now, p)
                BY <4>1, SameRow
            <4> QED
                BY <1>5, <2>2, <4>2
        <3>2. ASSUME Patches(u), NEW x \in AuthorsIn(now, p) \cap Renamed(u)
              PROVE  \E v \in Name : now[T(p)] = NameTo(Shown(now, p), x, v)
            <4>1. Renamed(u) = {x}
                BY <1>1, <3>2 DEF FreshInv, Patching, Patches, Renamed
            <4>2. \A i : i # <<"source", x>> => i \notin {"source"} \X Renamed(u)
                BY <4>1
            <4>3. \A i \in ReadBy(now, p) : i # <<"source", x>> => Latest(s)[i] = now[i]
                BY <1>5, <2>2, <4>2
            <4>4. x \in User /\ x \in AuthorsIn(now, p) /\ p \in Post
                BY <1>5, <2>2, <3>2
            <4>5. Latest(s)[<<"source", x>>] \in Name
                BY <1>1, <4>4, Sees DEF Source
            <4>6. \E v \in Name : Shown(Latest(s), p) = NameTo(Shown(now, p), x, v)
                BY <4>3, <4>4, <4>5, RenamedRow
            <4> QED
                BY <1>5, <2>2, <4>6
        <3> QED
            BY <3>1, <3>2
    <2> QED
        BY <2>1, <2>2
<1> QED
    BY <1>6, <1>7

\* What another has queued, found and locked stays.
LEMMA OtherBooks ==
    ASSUME NEW s \in Session, Alone(s), NEW u \in Session \ {s}, FreshInv(u), way' = way, links'[u] = links[u]
    PROVE  /\ AuthorsLocked(u)' /\ Links(u)' /\ NamesLocked(u)' /\ TviewLocked(u)' /\ Queues(u)' /\ Names(u)'
           /\ InSnapshot(u)' = InSnapshot(u) /\ (InSnapshot(u) => Seen(u)' = Seen(u))
           /\ Statement(u)' = Statement(u)
<1>1. /\ pc'[u] = pc[u] /\ need'[u] = need[u] /\ rows'[u] = rows[u] /\ work'[u] = work[u]
      /\ locks'[u] = locks[u] /\ own'[u] = own[u] /\ script'[u] = script[u]
      /\ snapshot'[u] = snapshot[u] /\ level'[u] = level[u]
    BY DEF Alone
<1>2. /\ InSnapshot(u)' = InSnapshot(u) /\ (InSnapshot(u) => Seen(u)' = Seen(u))
      /\ Statement(u)' = Statement(u) /\ Written(u)' = Written(u)
    BY <1>1 DEF Seen, With, InSnapshot, Statement, Written
<1>3. AuthorsLocked(u)' /\ Links(u)' /\ NamesLocked(u)' /\ TviewLocked(u)'
    BY <1>1, <1>2 DEF FreshInv, AuthorsLocked, Links, NamesLocked, TviewLocked
<1>4. Queues(u)' /\ Names(u)'
    <2>1. Queues(u)'
        BY <1>1 DEF FreshInv, Queues
    <2>2. Names(u)'
        BY <1>1, <1>2 DEF FreshInv, Names
    <2> QED
        BY <2>1, <2>2
<1> QED
    BY <1>2, <1>3, <1>4

\* No other gives a post an author whose new name is still to be patched: it
\* would have locked that name as read.
LEMMA OtherPatching ==
    ASSUME IInv, FInv, way # "embed", NEW s \in Session, Commit(s), NEW u \in Session \ {s}
    PROVE  Patching(u)'
<1> DEFINE x == Statement(u).on
<1>1. /\ StoreFresh /\ FreshInv(u) /\ Names(u) /\ Names(s) /\ NamesLocked(u) /\ Patching(u) /\ NoClash
      /\ TypeOK
    BY DEF IInv, FInv, FreshInv
<1>2. /\ Alone(s) /\ own'[u] = own[u] /\ way' = way /\ level' = level
      /\ pc'[u] = pc[u] /\ work'[u] = work[u] /\ rows'[u] = rows[u]
    BY SeesCommit DEF Alone, Commit, End
<1>3. InSnapshot(u)' = InSnapshot(u) /\ (InSnapshot(u) => Seen(u)' = Seen(u)) /\ Statement(u)' = Statement(u)
    BY <1>1, <1>2, SeesCommit, OtherBooks
<1>4. ASSUME pc[u] = "fanned" PROVE Mapped(Latest(u)', x) \subseteq Mapped(Latest(u), x)
    <2>1. work[u].fan = {x} /\ x \in User /\ own[u][<<"source", x>>] = u
        BY <1>1, <1>4 DEF Patching, TypeOK, WorkOK
    <2>2. Writer(x) \in locks[u]
        BY <1>1, <1>4, <2>1, Apart DEF NamesLocked
    <2>3. Reader(x) \notin locks[s]
        BY <1>1, <2>1, <2>2, LocksClash DEF NoClash
    <2> SUFFICES ASSUME NEW p \in Post, x \in AuthorsIn(Latest(u)', p)
                 PROVE  x \in AuthorsIn(Latest(u), p)
        BY DEF Mapped
    <2>4. <<"post", p>> \in Item
        BY Kinds
    <2>5. Latest(u)'[<<"post", p>>] \in {Latest(u)[<<"post", p>>], own[s][<<"post", p>>]}
        BY <1>1, <2>4, SeesCommit, Sees
    <2>6. CASE Latest(u)'[<<"post", p>>] = Latest(u)[<<"post", p>>]
        BY <2>6 DEF AuthorsIn
    <2>7. CASE own[s][<<"post", p>>] \notin {None, Absent} /\ Latest(u)'[<<"post", p>>] = own[s][<<"post", p>>]
        <3>1. x \in own[s][<<"post", p>>]
            BY <2>7 DEF AuthorsIn
        <3> QED
            BY <2>3, <2>7, <3>1, CommitOwes
    <2>8. CASE own[s][<<"post", p>>] = Absent /\ Latest(u)'[<<"post", p>>] = own[s][<<"post", p>>]
        BY <2>8 DEF AuthorsIn
    <2>9. CASE own[s][<<"post", p>>] = None
        BY <2>4, <2>6, <2>9, SeesCommit
    <2> QED
        BY <2>5, <2>6, <2>7, <2>8, <2>9
<1>5. \A p \in Post : rowLock[T(p)] = u => rowLock'[T(p)] = u
    BY <1>2, Posts DEF Alone
<1>6. Mapped(Latest(u)', x) \subseteq Post
    BY FoundPosts
<1>7. Patching(u)' <=>
        /\ pc[u] = "find" /\ Statement(u).op = "rename" => own[u][<<"source", x>>] = u
        /\ work[u].fan # {} =>
              /\ work[u].fan = {x} /\ way = "fanout" /\ work[u].post = {} /\ ~work[u].all
              /\ own[u][<<"source", x>>] = u
        /\ pc[u] = "fanned" =>
              /\ work[u].fan # {}
              /\ InSnapshot(u) => work[u].target = {"tv_post"} \X Embedding(Seen(u)', x)
              /\ \A p \in Mapped(Latest(u)', x) :
                    /\ InSnapshot(u) \/ T(p) \in work[u].target
                    /\ T(p) \in work[u].target => T(p) \in rows[u] \/ rowLock'[T(p)] = u
    BY <1>2, <1>3 DEF Patching
<1> QED
    BY <1>1, <1>3, <1>4, <1>5, <1>6, <1>7 DEF Patching

\* What another is about to write is what its view computes still.
LEMMA OtherComputed ==
    ASSUME IInv, FInv, way # "embed", NEW s \in Session, Commit(s), NEW u \in Session \ {s}
    PROVE  Computed(u)'
<1>1. /\ StoreFresh /\ FreshInv(u) /\ Names(u) /\ AuthorsLocked(u) /\ Queues(u) /\ Computed(u)
      /\ TypeOK /\ NoClash /\ Creators /\ SessionInv(u)
    BY DEF IInv, FInv, FreshInv
<1>2. /\ Alone(s) /\ way' = way
      /\ pc'[u] = pc[u] /\ work'[u] = work[u] /\ \A i \in Item : rowLock'[i] = u <=> rowLock[i] = u
    BY SeesCommit DEF Alone, Commit, End
<1>3. InSnapshot(u)' = InSnapshot(u) /\ (InSnapshot(u) => Seen(u)' = Seen(u))
    BY <1>1, <1>2, SeesCommit, OtherBooks
<1>4. ASSUME pc[u] \in {"upsert", "check"}, NEW i \in work[u].target
      PROVE  i \in TvPost /\ i[2] \in Post /\ i = T(i[2]) /\ i \in Item
    <2>1. work[u].target \subseteq TvPost
        BY <1>1, <1>4 DEF Queues, TvPost, TypeOK, WorkOK
    <2> QED
        BY <1>4, <2>1, Kinds DEF T
<1>5. ASSUME pc[u] = "upsert", ~InSnapshot(u), NEW i \in work[u].redo
      PROVE  work[u].fresh[i] = Shown(Latest(u)', i[2])
    <2>1. i \in TvPost /\ i[2] \in Post /\ i = T(i[2]) /\ i \in Item /\ i \in work[u].target /\ i \in Tv
        BY <1>1, <1>4, <1>5 DEF Queues, Tv
    <2>2. work[u].fresh[i] = Shown(Latest(u), i[2])
        BY <1>1, <1>5 DEF Computed
    <2>3. \A j \in ReadBy(Latest(u), i[2]) : own[s][j] = None
        <3>1. CASE work[u].all
            BY <1>1, <1>5, <2>1, <3>1, UntouchedWhole DEF Queues, SessionInv, Intends
        <3>2. CASE ~work[u].all
            <4>1. own[u][<<"post", i[2]>>] \notin {None, Absent} =>
                     \A x \in own[u][<<"post", i[2]>>] : Reader(x) \in locks[u]
                BY <1>1, <1>5, <2>1 DEF AuthorsLocked
            <4>2. rowLock[i] # s
                <5> SUFFICES ASSUME rowLock[i] = s PROVE FALSE
                    OBVIOUS
                <5>1. Latest(u)[i] = Absent
                    BY <1>1, <1>5, <3>2 DEF SessionInv, RowsLocked
                <5>2. store[i] = Absent
                    BY <1>1, <2>1, <5>1, Sees DEF SessionInv, OwnsWritten
                <5>3. MayCreate(u, i)
                    BY <1>1, <1>5, <2>1, <3>2 DEF SessionInv, Keyed, KeyLocked, Intends, MayCreate
                <5>4. MayCreate(s, i)
                    BY <1>1, <2>1, <5>2 DEF Creators
                <5> QED
                    BY <1>1, <2>1, <5>3, <5>4, OneCreator
            <4> QED
                BY <2>1, <4>1, <4>2, Untouched
        <3> QED
            BY <3>1, <3>2
    <2> QED
        BY <2>1, <2>2, <2>3, KeptRow
<1>6. ASSUME pc[u] = "check", InSnapshot(u), NEW i \in work[u].target
      PROVE  rowLock'[i] = u /\ Latest(u)'[i] = Shown(Seen(u), i[2])
    <2>1. i[2] \in Post /\ i = T(i[2]) /\ i \in Item
        BY <1>4, <1>6
    <2>2. rowLock[i] = u /\ Latest(u)[i] = Shown(Seen(u), i[2])
        BY <1>1, <1>6 DEF Computed
    <2>3. Latest(u)'[i] = Latest(u)[i]
        BY <2>1, <2>2, SeesCommit
    <2> QED
        BY <1>2, <2>1, <2>2, <2>3
<1>7. pc[u] = "upsert" /\ InSnapshot(u) => \A i \in work[u].redo : work[u].fresh[i] = Shown(Seen(u), i[2])
    BY <1>1 DEF Computed
<1> DEFINE now == Latest(u)'
           snap == Seen(u)'
<1>8. Computed(u)' <=>
        LET db == IF InSnapshot(u) THEN snap ELSE now
        IN  /\ pc[u] = "upsert" => \A i \in work[u].redo : work[u].fresh[i] = Shown(db, i[2])
            /\ pc[u] = "check" /\ InSnapshot(u) =>
                  \A i \in work[u].target : rowLock'[i] = u /\ now[i] = Shown(db, i[2])
    BY <1>2, <1>3 DEF Computed
<1> QED
    <2> HIDE DEF now, snap
    <2>1. \A i \in work[u].redo : pc[u] = "upsert" /\ ~InSnapshot(u) => work[u].fresh[i] = Shown(now, i[2])
        BY <1>5 DEF now
    <2>2. \A i \in work[u].target : pc[u] = "check" /\ InSnapshot(u) =>
             rowLock'[i] = u /\ now[i] = Shown(snap, i[2])
        BY <1>3, <1>6 DEF now, snap
    <2>3. \A i \in work[u].redo : pc[u] = "upsert" /\ InSnapshot(u) => work[u].fresh[i] = Shown(snap, i[2])
        BY <1>3, <1>7 DEF snap
    <2> QED
        BY <1>8, <2>1, <2>2, <2>3

\* The invariant of a session when another one commits.
LEMMA OtherCommits ==
    ASSUME IInv, FInv, way # "embed", NEW s \in Session, Commit(s), NEW u \in Session \ {s}
    PROVE  FreshInv(u)'
<1>1. FreshInv(u) /\ way' = way
    BY DEF FInv, Commit, End
<1> QED
    BY <1>1, OtherBooks, OtherRows, OtherPatching, OtherComputed, SeesCommit DEF FreshInv

\* A session that ended has nothing left but what is committed.
LEMMA EndFresh ==
    ASSUME TypeOK, TypeOK', StoreFresh', NEW s \in Session, NEW how \in Ended, End(s, how)
    PROVE  FreshInv(s)'
<1>1. /\ pc'[s] = how /\ work'[s] = NoWork /\ snapshot'[s] = None
      /\ \A i \in Item : own'[s][i] = None
    BY EndAlone
<1>2. \A i \in Item : Latest(s)'[i] = store'[i]
    BY <1>1 DEF Latest, With
<1> DEFINE now == Latest(s)'
           base == store'
<1>3. ASSUME NEW p \in Post
      PROVE  /\ ReadBy(now, p) \subseteq Item
             /\ now[T(p)] = Shown(now, p)
    <2>1. <<"post", p>> \in Item
        BY Kinds
    <2>2. AuthorsIn(base, p) \subseteq User
        <3>1. base[<<"post", p>>] \in Authors
            BY DEF TypeOK
        <3> QED
            BY <3>1 DEF AuthorsIn, Authors
    <2>3. ReadBy(base, p) \subseteq Item
        BY <2>2, ReadItems
    <2>4. \A i \in ReadBy(base, p) : now[i] = base[i]
        BY <1>2, <2>3
    <2>5. now[T(p)] = base[T(p)] /\ base[T(p)] = Shown(base, p)
        BY <1>2, Posts DEF StoreFresh
    <2> HIDE DEF now, base
    <2> QED
        BY <2>3, <2>4, <2>5, SameRow
<1>4. NoWork.fan = {} /\ NoWork.post = {} /\ NoWork.all = FALSE /\ NoWork.user = {} /\ NoWork.patched = {}
    BY DEF NoWork
<1>5. Owed(s)' = {} /\ Renamed(s)' = {} /\ pc'[s] \in Ended /\ ~Patches(s)'
    BY <1>1, <1>4 DEF Owed, Renamed, Patches, Ended
<1>6. ReadersHeld(s)' /\ RowsFresh(s)'
    <2>1. ReadersHeld(s)'
        BY <1>1, <1>3, <1>5 DEF ReadersHeld
    <2>2. RowsFresh(s)'
        BY <1>3, <1>5 DEF RowsFresh
    <2> QED
        BY <2>1, <2>2
<1>7. AuthorsLocked(s)' /\ Links(s)' /\ NamesLocked(s)' /\ TviewLocked(s)'
    BY <1>1, Kinds DEF AuthorsLocked, Links, NamesLocked, TviewLocked, Source
<1>8. Queues(s)' /\ Patching(s)' /\ Computed(s)'
    BY <1>1, <1>4 DEF Queues, Patching, Computed, Ended
<1>9. Names(s)'
    BY <1>1, Kinds DEF Names, Ended
<1> QED
    BY <1>6, <1>7, <1>8, <1>9 DEF FreshInv

\* The steps that end a transaction.
LEMMA CommitFresh ==
    ASSUME IInv, IInv', FInv, way # "embed", NEW s \in Session, Commit(s)
    PROVE  FInv'
<1>1. StoreFresh /\ Names(s) /\ store' = Latest(s) /\ TypeOK /\ TypeOK' /\ End(s, "committed")
    BY DEF IInv, FInv, FreshInv, Commit
<1>2. StoreFresh'
    BY <1>1, CommitOwes, Sees DEF StoreFresh
<1>3. FreshInv(s)'
    BY <1>1, <1>2, EndFresh DEF Ended
<1> QED
    BY <1>2, <1>3, OtherCommits DEF FInv

LEMMA FailFresh ==
    ASSUME IInv, IInv', FInv, way # "embed", NEW s \in Session, Fail(s)
    PROVE  FInv'
<1>1. StoreFresh /\ TypeOK /\ TypeOK' /\ End(s, "failed") /\ UNCHANGED <<store, way>>
    BY DEF IInv, FInv, Fail, End
<1>2. StoreFresh'
    BY <1>1 DEF StoreFresh
<1>3. FreshInv(s)'
    BY <1>1, <1>2, EndFresh DEF Ended
<1> QED
    BY <1>1, <1>3, EndAlone, StaysFresh

-----------------------------------------------------------------------------
(* A session finds, locks and computes. *)

\* Among what a row reads, the names that U holds are its authors'.
LEMMA NamesRead ==
    ASSUME NEW U \in SUBSET User, NEW p \in Post, NEW db, NEW i \in ReadBy(db, p)
    PROVE  i \in {"source"} \X U <=> \E x \in AuthorsIn(db, p) \cap U : i = <<"source", x>>
<1>1. ASSUME i \in Own(p) PROVE i \notin {"source"} \X User
    BY <1>1, KeyAssumption DEF Own, Conf
<1> QED
    BY <1>1 DEF ReadBy

\* What is to be renamed is a user.
LEMMA RenamedUsers == ASSUME TypeOK, NEW s \in Session PROVE Renamed(s) \subseteq User
    BY DEF TypeOK, WorkOK, Renamed

\* A step that writes nothing: a row no refresh is owed any more is shown as its
\* view computes it.
LEMMA QuietStep ==
    ASSUME IInv, IInv', FInv, way # "embed", NEW s \in Session, Alone(s), UNCHANGED <<store, way, links>>,
           \A i \in Item : own'[s][i] = own[s][i],
           \A i \in Item : rowLock[i] = s => rowLock'[i] = s,
           \A p \in Post \ Owed(s)' :
               \/ /\ p \notin Owed(s)
                  /\ AuthorsIn(Latest(s), p) \cap Renamed(s)' = AuthorsIn(Latest(s), p) \cap Renamed(s)
               \/ /\ rowLock[T(p)] = s /\ Latest(s)[T(p)] = Shown(Latest(s), p)
                  /\ AuthorsIn(Latest(s), p) \cap Renamed(s)' = {},
           Patches(s)' => Patches(s),
           AuthorsLocked(s)', NamesLocked(s)', TviewLocked(s)', Queues(s)', Patching(s)', Computed(s)',
           Names(s)'
    PROVE  FInv'
<1>1. FreshInv(s) /\ ReadersHeld(s) /\ RowsFresh(s) /\ Links(s)
    BY DEF FInv, FreshInv
<1>2. Latest(s)' = Latest(s)
    BY DEF Latest, With
<1>3. Renamed(s) \subseteq User /\ Renamed(s)' \subseteq User
    <2>1. TypeOK /\ TypeOK'
        BY DEF IInv
    <2> QED
        BY <2>1, RenamedUsers DEF TypeOK, WorkOK, Renamed
<1> DEFINE db == Latest(s)
           before == Renamed(s)
           after == Renamed(s)'
           owed == Owed(s)'
<1>4. ReadersHeld(s)'
    <2> SUFFICES ASSUME NEW p \in Post \ owed, NEW i \in ReadBy(db, p) \ ({"source"} \X after),
                        own[s][i] # None
                 PROVE  rowLock'[T(p)] = s
        <3>1. \A p \in Post : ReadBy(db, p) \subseteq Item
            BY <1>1, ReadItems, Sees DEF FInv, FreshInv
        <3> QED
            BY <1>2, <3>1 DEF ReadersHeld
    <2>1. T(p) \in Item
        BY Posts
    <2>2. CASE p \notin Owed(s) /\ AuthorsIn(db, p) \cap after = AuthorsIn(db, p) \cap before
        <3> HIDE DEF db, before, after
        <3>1. i \notin {"source"} \X before
            BY <1>3, <2>2, NamesRead DEF before, after
        <3> QED
            BY <1>1, <2>1, <2>2, <3>1 DEF ReadersHeld, db, before
    <2>3. CASE rowLock[T(p)] = s
        BY <2>1, <2>3
    <2> QED
        BY <2>2, <2>3
<1>5. RowsFresh(s)'
    <2> SUFFICES ASSUME NEW p \in Post \ owed
                 PROVE  LET late == AuthorsIn(db, p) \cap after
                        IN  /\ late = {} => db[T(p)] = Shown(db, p)
                            /\ Patches(s) =>
                                 \A u \in late : \E v \in Name : db[T(p)] = NameTo(Shown(db, p), u, v)
        BY <1>2 DEF RowsFresh
    <2>1. CASE p \notin Owed(s) /\ AuthorsIn(db, p) \cap after = AuthorsIn(db, p) \cap before
        BY <1>1, <2>1 DEF RowsFresh
    <2>2. CASE db[T(p)] = Shown(db, p) /\ AuthorsIn(db, p) \cap after = {}
        BY <2>2
    <2> QED
        BY <2>1, <2>2
<1>6. Links(s)'
    BY <1>1, Kinds DEF Links
<1>7. FreshInv(s)'
    BY <1>4, <1>5, <1>6 DEF FreshInv
<1> QED
    BY <1>7, StaysFresh

\* What a session has written, and the locks it holds, stay.
Kept(s) ==
    /\ DOMAIN own' = Session /\ \A u \in Session \ {s} : own'[u] = own[u]
    /\ \A i \in Item : own'[s][i] = own[s][i]
    /\ UNCHANGED <<rowLock, script, locks, links>>

\* A step that writes nothing keeps what it holds.
LEMMA KeepsAll == ASSUME TypeOK, NEW s \in Session, Unwritten PROVE Kept(s)
    BY DEF TypeOK, Unwritten, Kept

\* A step of a refresh leaves what its session sees as it is.
LEMMA GoesAlone ==
    ASSUME IInv, NEW s \in Session, NEW from, NEW to, NEW N, NEW R, NEW w,
           Goes(s, from, to, N, R, w), Kept(s)
    PROVE  /\ Alone(s) /\ UNCHANGED <<store, way, links, locks, snapshot, level, script>>
           /\ Latest(s)' = Latest(s) /\ Seen(s)' = Seen(s) /\ InSnapshot(s)' = InSnapshot(s)
           /\ Statement(s)' = Statement(s) /\ Written(s)' = Written(s)
<1>1. TypeOK /\ Turned(s, to, N, R, w) /\ UNCHANGED <<store, snapshot, level, way>>
    BY GoesTo DEF Goes, Step
<1>2. Alone(s)
    BY <1>1 DEF TypeOK, Alone, Turned, Kept
<1>3. Latest(s)' = Latest(s) /\ Seen(s)' = Seen(s)
    BY <1>1 DEF Kept, Latest, Seen, With, InSnapshot
<1>4. Statement(s)' = Statement(s) /\ Written(s)' = Written(s) /\ InSnapshot(s)' = InSnapshot(s)
    BY <1>1 DEF Kept, Statement, Written, InSnapshot
<1> QED
    BY <1>1, <1>2, <1>3, <1>4 DEF Kept

\* A step of a refresh to another that owes the same rows.
LEMMA MoveStep ==
    ASSUME IInv, IInv', FInv, way # "embed", NEW s \in Session, NEW from, NEW to, NEW N, NEW R, NEW w,
           Goes(s, from, to, N, R, w), Kept(s), from # "find", to # "find",
           w.fan = work[s].fan, w.post = work[s].post, w.all = work[s].all,
           to = "check" => w.post = {} /\ ~w.all,
           AuthorsLocked(s)', TviewLocked(s)', Queues(s)', to = "fanned" => Patching(s)', Computed(s)'
    PROVE  FInv'
<1>1. /\ FreshInv(s) /\ NamesLocked(s) /\ Patching(s) /\ Names(s)
      /\ pc[s] = from /\ pc'[s] = to /\ work'[s] = w /\ from \in Running
    <2>1. FreshInv(s) /\ NamesLocked(s) /\ Patching(s) /\ Names(s)
        BY DEF FInv, FreshInv
    <2>2. pc[s] = from /\ pc'[s] = to /\ work'[s] = w
        BY GoesTo
    <2> QED
        BY <2>1, <2>2 DEF Goes
<1>2. /\ Alone(s) /\ UNCHANGED <<store, way, links, locks, snapshot, level, script>>
      /\ Latest(s)' = Latest(s) /\ InSnapshot(s)' = InSnapshot(s) /\ Statement(s)' = Statement(s)
    BY GoesAlone
<1>3. Renamed(s)' = Renamed(s) /\ (Patches(s)' => Patches(s))
    BY <1>1, <1>2 DEF Renamed, Patches
<1>4. Owed(s) \subseteq Owed(s)'
    BY <1>1, <1>2 DEF Owed
<1>5. NamesLocked(s)'
    BY <1>1, <1>2, Kinds DEF NamesLocked, Kept, Source
<1>6. Patching(s)'
    <2>1. work[s].fan # {} => <<"source", Statement(s).on>> \in Item
        <3>1. work[s].fan \subseteq User
            BY DEF IInv, TypeOK, WorkOK
        <3> QED
            BY <1>1, <3>1, Kinds DEF Patching, Source
    <2> QED
        BY <1>1, <1>2, <2>1 DEF Patching, Kept
<1>7. Names(s)'
    <2>1. pc[s] \notin {"idle"} \cup Ended
        BY <1>1 DEF Running
    <2>2. \A x \in Source : own'[s][<<"source", x>>] = own[s][<<"source", x>>]
        BY Kinds DEF Kept
    <2>3. snapshot'[s] = snapshot[s] /\ (InSnapshot(s)' <=> InSnapshot(s))
        BY <1>2
    <2>4. \A x \in Source :
             /\ own[s][<<"source", x>>] \in Name \cup {None}
             /\ snapshot[s] # None \/ InSnapshot(s) => snapshot[s].rows[<<"source", x>>] \in Name
        BY <1>1, <2>1 DEF Names
    <2> QED
        BY <2>2, <2>3, <2>4 DEF Names
<1> QED
    BY <1>2, <1>3, <1>4, <1>5, <1>6, <1>7, QuietStep DEF Kept

\* What a refresh has locked stays locked, unless it still was to.
LEMMA LocksKept ==
    ASSUME IInv, FInv, way # "embed", NEW s \in Session, NEW from, NEW to, NEW N, NEW R, NEW w,
           Goes(s, from, to, N, R, w), Kept(s), from # "find", to # "find",
           w.post = work[s].post, w.all = work[s].all,
           from \in {"flush", "reads"} => to = "reads" \/ work[s].post = {},
           from \in {"flush", "whole"} /\ work[s].all => to = "whole" \/ Whole \in locks[s]
    PROVE  AuthorsLocked(s)' /\ TviewLocked(s)'
<1>1. AuthorsLocked(s) /\ TviewLocked(s)
    BY DEF FInv, FreshInv
<1>2. pc[s] = from /\ pc'[s] = to /\ work'[s] = w /\ need[s] = {} /\ locks' = locks
    BY GoesTo DEF Kept
<1>3. /\ \A p \in Post : own'[s][<<"post", p>>] = own[s][<<"post", p>>]
      /\ \A x \in Source : own'[s][<<"source", x>>] = own[s][<<"source", x>>]
    BY Kinds DEF Kept
<1>4. AuthorsLocked(s)'
    <2> SUFFICES ASSUME NEW p \in Post, own[s][<<"post", p>>] \notin {None, Absent}, NEW x \in own[s][<<"post", p>>]
                 PROVE  \/ Reader(x) \in locks[s]
                        \/ to \in {"flush", "reads"} /\ p \in w.post
        BY <1>2, <1>3 DEF AuthorsLocked
    <2> QED
        BY <1>1, <1>2 DEF AuthorsLocked
<1>5. TviewLocked(s)'
    <2>1. ASSUME NEW p \in Post, NEW i \in {<<"post", p>>, <<"source", p>>}, own[s][i] # None
          PROVE  Intent(T(p)) \in locks[s] \/ (to \in {"flush", "reads"} /\ p \in w.post)
        BY <1>1, <1>2, <2>1 DEF TviewLocked
    <2>2. ASSUME own[s][<<"source", Conf>>] # None
          PROVE  Whole \in locks[s] \/ (to \in {"flush", "whole"} /\ w.all)
        BY <1>1, <1>2, <2>2 DEF TviewLocked
    <2>3. Conf \in Source /\ \A p \in Post : p \in Source
        BY DEF Source
    <2>4. \A p \in Post : \A i \in {<<"post", p>>, <<"source", p>>} : own'[s][i] = own[s][i]
        BY <1>3, <2>3
    <2> QED
        BY <1>2, <1>3, <2>1, <2>2, <2>3, <2>4 DEF TviewLocked
<1> QED
    BY <1>4, <1>5

\* What holds as a refresh moves on.
LEMMA AtStep ==
    ASSUME IInv, FInv, way # "embed", NEW s \in Session, pc[s] \notin {"idle"} \cup Ended
    PROVE  /\ TypeOK /\ SessionInv(s) /\ OneTview(s) /\ Intends(s) /\ WorkOK(work[s])
           /\ Statement(s) \in StatementType
           /\ FreshInv(s) /\ Queues(s) /\ Patching(s) /\ Computed(s) /\ Names(s) /\ StoreFresh
           /\ way \in {"mapping", "fanout"} /\ NameSpace = "source"
<1>1. TypeOK /\ SessionInv(s) /\ WorkOK(work[s]) /\ Statement(s) \in StatementType
    BY Within
<1>2. FreshInv(s) /\ Queues(s) /\ Patching(s) /\ Computed(s) /\ Names(s) /\ StoreFresh
    BY DEF FInv, FreshInv
<1>3. way \in {"mapping", "fanout"} /\ NameSpace = "source"
    BY <1>1 DEF TypeOK, NameSpace
<1> QED
    BY <1>1, <1>2, <1>3 DEF SessionInv

\* The steps of a refresh that only look, lock and pass on.
LEMMA RefreshAllFresh ==
    ASSUME IInv, IInv', FInv, way # "embed", NEW s \in Session, RefreshAll(s)
    PROVE  FInv'
<1> DEFINE w == work[s]
<1>1. {Whole} \in SUBSET LockType
    BY LockTypes
<1>2. Goes(s, "flush", "whole", {Whole}, {}, w) /\ w.all
    BY <1>1 DEF RefreshAll, Goes, Running, Steps, Ended, Whole
<1>3. OneTview(s) /\ Queues(s) /\ TypeOK
    BY AtStep DEF RefreshAll, Step, Ended
<1>4. Kept(s)
    BY <1>3, KeepsAll DEF RefreshAll
<1>5. w.post = {} /\ pc'[s] = "whole" /\ work'[s] = w /\ locks' = locks
    BY <1>2, <1>3, GoesTo DEF OneTview, Kept, RefreshAll, Unwritten
<1>6. AuthorsLocked(s)' /\ TviewLocked(s)'
    BY <1>2, <1>4, <1>5, LocksKept
<1>7. Queues(s)' /\ Computed(s)'
    BY <1>3, <1>5 DEF Queues, Computed, AtRest, Ended
<1> QED
    BY <1>2, <1>4, <1>6, <1>7, MoveStep

LEMMA ReconcileFresh ==
    ASSUME IInv, IInv', FInv, way # "embed", NEW s \in Session, Reconcile(s)
    PROVE  FInv'
<1> DEFINE N == {L("refresh", NameSpace, WholeLock)}
           w == [work[s] EXCEPT !.target = TvPost, !.redo = TvPost]
<1>1. N \in SUBSET LockType
    BY DEF L, LockType, NameSpace
<1>2. Goes(s, "whole", "compute", N, {}, w)
    BY <1>1 DEF Reconcile, Goes, Running, Steps, Ended, TvPost
<1>3. /\ OneTview(s) /\ Intends(s) /\ Queues(s) /\ TypeOK /\ WorkOK(work[s]) /\ NameSpace = "source"
      /\ pc[s] = "whole" /\ need[s] = {}
    BY AtStep DEF Reconcile, Step, Ended
<1>4. Kept(s)
    BY <1>3, KeepsAll DEF Reconcile
<1>5. /\ w.post = work[s].post /\ w.all = work[s].all /\ w.fan = work[s].fan /\ w.user = work[s].user
      /\ w.patched = work[s].patched /\ w.target = TvPost /\ w.redo = TvPost
    BY <1>3 DEF WorkOK
<1>6. work[s].all /\ work[s].fan = {} /\ work[s].post = {} /\ Whole \in locks[s]
    BY <1>3 DEF OneTview, Intends
<1>7. N = {Reader(WholeLock)}
    BY <1>3 DEF Reader
<1> HIDE DEF N, w
<1>8. pc'[s] = "compute" /\ work'[s] = w /\ need'[s] = N
    BY <1>2, GoesTo
<1>9. AuthorsLocked(s)' /\ TviewLocked(s)'
    BY <1>2, <1>4, <1>5, <1>6, LocksKept
<1>10. Queues(s)' /\ Computed(s)'
    BY <1>3, <1>5, <1>6, <1>7, <1>8 DEF Queues, Computed, AtRest, Ended
<1> QED
    BY <1>2, <1>4, <1>5, <1>9, <1>10, MoveStep

LEMMA ApplyKeysFresh ==
    ASSUME IInv, IInv', FInv, way # "embed", NEW s \in Session, ApplyKeys(s)
    PROVE  FInv'
<1> DEFINE R == NextPass(s)
           l == L("refresh", TviewOf(R), IntentLock)
           w == [work[s] EXCEPT !.target = R]
<1>1. {l} \in SUBSET LockType
    BY DEF L, LockType, TviewOf
<1>2. Goes(s, "flush", "reads", {l}, {}, w) /\ R # {} /\ work[s].fan = {}
    BY <1>1 DEF ApplyKeys, Goes, Running, Steps, Ended
<1>3. OneTview(s) /\ Queues(s) /\ TypeOK /\ WorkOK(work[s])
    BY AtStep DEF ApplyKeys, Step, Ended
<1>4. Kept(s)
    BY <1>3, KeepsAll DEF ApplyKeys
<1>5. R = {"tv_post"} \X work[s].post /\ work[s].post # {} /\ ~work[s].all
    <2>1. R = {"tv_post"} \X work[s].post
        BY <1>3 DEF Queues, NextPass
    <2>2. work[s].post # {}
        BY <1>2, <2>1
    <2> QED
        BY <1>3, <2>1, <2>2 DEF OneTview
<1> HIDE DEF R, l
<1>6. /\ w.post = work[s].post /\ w.all = work[s].all /\ w.fan = work[s].fan /\ w.user = work[s].user
      /\ w.patched = work[s].patched /\ w.target = R
    BY <1>3 DEF WorkOK
<1> HIDE DEF w
<1>7. pc'[s] = "reads" /\ work'[s] = w
    BY <1>2, GoesTo
<1>8. AuthorsLocked(s)' /\ TviewLocked(s)'
    BY <1>2, <1>4, <1>5, <1>6, LocksKept
<1>9. Queues(s)' /\ Computed(s)'
    BY <1>2, <1>3, <1>5, <1>6, <1>7 DEF Queues, Computed, AtRest, Ended
<1> QED
    BY <1>2, <1>4, <1>6, <1>8, <1>9, MoveStep

LEMMA LockOrderFresh ==
    ASSUME IInv, IInv', FInv, way # "embed", NEW s \in Session, LockOrder(s)
    PROVE  FInv'
<1> DEFINE w == work[s]
<1>1. Queues(s) /\ TypeOK /\ WorkOK(w) /\ pc[s] = "order"
    BY AtStep DEF LockOrder, Step, Ended
<1>2. Existing(s, w.target) \subseteq Item
    BY <1>1 DEF Existing, WorkOK
<1>3. PICK R \in SUBSET Item : Goes(s, "order", "guard", {}, R, w)
    BY <1>2 DEF LockOrder, Goes, Running, Steps, Ended
<1>4. Kept(s)
    BY <1>1, KeepsAll DEF LockOrder
<1>5. pc'[s] = "guard" /\ work'[s] = w
    BY <1>3, GoesTo
<1>6. AuthorsLocked(s)' /\ TviewLocked(s)'
    BY <1>3, <1>4, LocksKept
<1>7. Queues(s)' /\ Computed(s)'
    BY <1>1, <1>5 DEF Queues, Computed, AtRest, Ended
<1> QED
    BY <1>3, <1>4, <1>6, <1>7, MoveStep

LEMMA GuardFresh ==
    ASSUME IInv, IInv', FInv, way # "embed", NEW s \in Session, Guard(s)
    PROVE  FInv'
<1> DEFINE kept == (work[s].patched \cap work[s].target) \ Moved(s)
           R == Existing(s, kept)
           w == [work[s] EXCEPT !.patched = kept]
<1>1. Queues(s) /\ TypeOK /\ WorkOK(work[s]) /\ pc[s] = "guard"
    BY AtStep DEF Guard, Step, Ended
<1>2. kept = {} /\ R \subseteq Item
    BY <1>1 DEF Existing, WorkOK, Queues
<1>3. Goes(s, "guard", "patch", {}, R, w)
    BY <1>2 DEF Guard, Goes, Running, Steps, Ended
<1>4. Kept(s)
    BY <1>1, KeepsAll DEF Guard
<1> HIDE DEF kept, R
<1>5. /\ w.post = work[s].post /\ w.all = work[s].all /\ w.fan = work[s].fan /\ w.user = work[s].user
      /\ w.patched = {} /\ w.target = work[s].target
    BY <1>1, <1>2 DEF WorkOK
<1> HIDE DEF w
<1>6. pc'[s] = "patch" /\ work'[s] = w
    BY <1>3, GoesTo
<1>7. AuthorsLocked(s)' /\ TviewLocked(s)'
    BY <1>3, <1>4, <1>5, LocksKept
<1>8. Queues(s)' /\ Computed(s)'
    BY <1>1, <1>5, <1>6 DEF Queues, Computed, AtRest, Ended
<1> QED
    BY <1>3, <1>4, <1>5, <1>7, <1>8, MoveStep

LEMMA LockKeysFresh ==
    ASSUME IInv, IInv', FInv, way # "embed", NEW s \in Session, LockKeys(s)
    PROVE  FInv'
<1> DEFINE w == work[s]
           held == {i \in w.redo : IF InSnapshot(s) THEN Seen(s)[i] # Absent
                                   ELSE rowLock[i] = s /\ Latest(s)[i] # Absent}
           missing == {i[2] : i \in w.redo \ held}
           N == ValueLocks("writer", KeySpace(TviewOf(w.redo)), missing)
<1>1. Queues(s) /\ OneTview(s) /\ TypeOK /\ WorkOK(w) /\ pc[s] = "keys"
    BY AtStep DEF LockKeys, Step, Ended
<1>2. missing \subseteq Source
    <2>1. \A i \in w.redo : i[2] \in Source
        BY <1>1, Kinds DEF OneTview, Source
    <2> QED
        BY <2>1
<1>3. KeySpace(TviewOf(w.redo)) \in {"new_tv_user", "new_tv_post"}
    BY DEF KeySpace
<1> HIDE DEF missing
<1>4. N \in SUBSET LockType
    BY <1>2, <1>3, ValueLockTypes
<1>5. Goes(s, "keys", "created", N, {}, w)
    BY <1>4 DEF LockKeys, Goes, Running, Steps, Ended, missing
<1>6. Kept(s)
    BY <1>1, KeepsAll DEF LockKeys
<1>7. pc'[s] = "created" /\ work'[s] = w
    BY <1>5, GoesTo
<1>8. AuthorsLocked(s)' /\ TviewLocked(s)'
    BY <1>5, <1>6, LocksKept
<1>9. Queues(s)' /\ Computed(s)'
    BY <1>1, <1>7 DEF Queues, Computed, AtRest, Ended
<1> QED
    BY <1>5, <1>6, <1>8, <1>9, MoveStep

LEMMA LockCreatedFresh ==
    ASSUME IInv, IInv', FInv, way # "embed", NEW s \in Session, LockCreated(s)
    PROVE  FInv'
<1> DEFINE w == work[s]
           R == CreatedRows(s)
<1>1. Queues(s) /\ OneTview(s) /\ TypeOK /\ WorkOK(w) /\ pc[s] = "created"
    BY AtStep DEF LockCreated, Step, Ended
<1>2. R \subseteq Item /\ ~w.all
    BY <1>1 DEF CreatedRows, FirstRows, Existing, WorkOK, OneTview
<1>3. Goes(s, "created", "compute", {}, R, w)
    BY <1>2 DEF LockCreated, Goes, Running, Steps, Ended
<1>4. Kept(s)
    BY <1>1, KeepsAll DEF LockCreated
<1>5. pc'[s] = "compute" /\ work'[s] = w
    BY <1>3, GoesTo
<1>6. AuthorsLocked(s)' /\ TviewLocked(s)'
    BY <1>3, <1>4, LocksKept
<1>7. Queues(s)' /\ Computed(s)'
    BY <1>1, <1>2, <1>5 DEF Queues, Computed, AtRest, Ended
<1> QED
    BY <1>3, <1>4, <1>6, <1>7, MoveStep

\* No row is patched by key: a rename that patches goes through a fan-out.
LEMMA PatchFresh ==
    ASSUME IInv, IInv', FInv, way # "embed", NEW s \in Session, Patch(s)
    PROVE  FInv'
<1> DEFINE hit == {i \in work[s].patched : rowLock[i] = s /\ Latest(s)[i] # Absent}
           redo == work[s].target \ hit
           to == IF redo = {} THEN "check" ELSE "keys"
           R == FirstRows(s, redo)
           w == [work[s] EXCEPT !.redo = redo]
<1>1. Queues(s) /\ OneTview(s) /\ TypeOK /\ WorkOK(work[s]) /\ pc[s] = "patch"
    BY AtStep DEF Patch, Step, Ended
<1>2. hit = {} /\ redo = work[s].target /\ redo \subseteq Item
    BY <1>1 DEF Queues, WorkOK
<1>3. R \subseteq Item
    BY <1>2 DEF FirstRows, Existing
<1>4. Goes(s, "patch", to, {}, R, w)
    BY <1>3 DEF Patch, Goes, Running, Steps, Ended
<1>5. Kept(s)
    <2>1. own' = [own EXCEPT ![s] = [i \in Item |-> IF i \in hit THEN PatchedRow(s, i, GuardsOf(s, i)) ELSE @[i]]]
        BY DEF Patch
    <2>2. own' = [own EXCEPT ![s] = [i \in Item |-> own[s][i]]]
        BY <1>2, <2>1
    <2> QED
        BY <1>1, <2>2 DEF Kept, Patch, TypeOK
<1>6. to = "check" => work[s].post = {}
    <2>1. work[s].target = {"tv_post"} \X work[s].post
        BY <1>1 DEF Queues, OneTview
    <2>2. \A p \in work[s].post : <<"tv_post", p>> \in work[s].target
        BY <2>1
    <2> QED
        BY <1>2, <2>2
<1> HIDE DEF hit, redo, R
<1>7. /\ w.post = work[s].post /\ w.all = work[s].all /\ w.fan = work[s].fan /\ w.user = work[s].user
      /\ w.patched = {} /\ w.target = work[s].target /\ w.redo = w.target
    BY <1>1, <1>2 DEF WorkOK, Queues
<1> HIDE DEF w
<1>8. pc'[s] = to /\ work'[s] = w /\ ~work[s].all
    BY <1>1, <1>4, GoesTo DEF OneTview
<1>9. AuthorsLocked(s)' /\ TviewLocked(s)'
    BY <1>4, <1>5, <1>7, LocksKept
<1>10. Queues(s)' /\ Computed(s)'
    <2>1. to = "check" => w.target = {}
        BY <1>2, <1>7
    <2> QED
        BY <1>1, <1>7, <1>8, <2>1 DEF Queues, Computed, AtRest, Ended
<1> QED
    BY <1>4, <1>5, <1>6, <1>7, <1>8, <1>9, <1>10, MoveStep

\* The upsert computes the rows as their view shows them.
LEMMA ComputeFresh ==
    ASSUME IInv, IInv', FInv, way # "embed", NEW s \in Session, Compute(s)
    PROVE  FInv'
<1> DEFINE R == work[s].redo
           w == [work[s] EXCEPT !.fresh = [i \in R |-> ViewRow(Seen(s), i)]]
<1>1. Queues(s) /\ OneTview(s) /\ TypeOK /\ WorkOK(work[s]) /\ pc[s] = "compute" /\ need[s] = {}
    BY AtStep DEF Compute, Step, Ended
<1>2. R \subseteq Item /\ R = work[s].target /\ R \subseteq TvPost
    BY <1>1 DEF WorkOK, Queues, TvPost
<1>3. Goes(s, "compute", "upsert", {}, R, w)
    BY <1>2 DEF Compute, Goes, Running, Steps, Ended
<1>4. Kept(s)
    BY <1>1, KeepsAll DEF Compute
<1>5. /\ w.post = work[s].post /\ w.all = work[s].all /\ w.fan = work[s].fan /\ w.user = work[s].user
      /\ w.patched = work[s].patched /\ w.target = work[s].target /\ w.redo = R
      /\ w.fresh = [i \in R |-> ViewRow(Seen(s), i)]
    BY <1>1 DEF WorkOK
<1> HIDE DEF w
<1>6. pc'[s] = "upsert" /\ work'[s] = w /\ locks' = locks
    BY <1>3, GoesTo DEF Compute, Unwritten
<1>7. AuthorsLocked(s)' /\ TviewLocked(s)'
    BY <1>3, <1>4, <1>5, LocksKept
<1>8. Queues(s)'
    BY <1>1, <1>2, <1>5, <1>6 DEF Queues, AtRest, Ended
<1>9. Computed(s)'
    <2>1. \A i \in R : w.fresh[i] = Shown(Seen(s), i[2])
        <3>1. \A i \in R : i[1] = "tv_post" /\ i[2] \in Post
            BY <1>2, Kinds
        <3> QED
            BY <1>5, <3>1, ShownRow DEF ViewRow
    <2>2. Latest(s)' = Latest(s) /\ Seen(s)' = Seen(s) /\ InSnapshot(s)' = InSnapshot(s)
        BY <1>3, <1>4, GoesAlone
    <2>3. (IF InSnapshot(s) THEN Seen(s) ELSE Latest(s)) = Seen(s)
        BY DEF Seen
    <2> QED
        BY <1>5, <1>6, <2>1, <2>2, <2>3 DEF Computed
<1> QED
    BY <1>3, <1>4, <1>5, <1>7, <1>8, <1>9, MoveStep

\* Where a name is still to patch, the row shows the author by an older one.
LEMMA FanRow ==
    ASSUME IInv, FInv, way # "embed", NEW s \in Session, pc[s] # "find", work[s].fan # {},
           NEW p \in Mapped(Latest(s), Statement(s).on)
    PROVE  LET u == Statement(s).on
           IN  /\ u \in User /\ u \in AuthorsIn(Latest(s), p) /\ p \in Post
               /\ own[s][<<"source", u>>] = s
               /\ Shown(Latest(s), p) \in Row /\ Latest(s)[T(p)] # Absent
               /\ \E v \in Name : Latest(s)[T(p)] = NameTo(Shown(Latest(s), p), u, v)
               /\ u \in Latest(s)[T(p)].by
<1> DEFINE u == Statement(s).on
           db == Latest(s)
<1>1. /\ StoreFresh /\ Names(s) /\ FreshInv(s) /\ RowsFresh(s) /\ Patching(s) /\ TypeOK
      /\ work[s].fan \subseteq User
    BY DEF IInv, FInv, FreshInv, TypeOK, WorkOK
<1>2. work[s].fan = {u} /\ way = "fanout" /\ work[s].post = {} /\ ~work[s].all /\ own[s][<<"source", u>>] = s
    BY <1>1 DEF Patching
<1>3. u \in User /\ p \in Post /\ u \in AuthorsIn(db, p)
    BY <1>1, <1>2 DEF Mapped
<1>4. Owed(s) = {} /\ Renamed(s) = {u} /\ Patches(s)
    BY <1>2 DEF Owed, Renamed, Patches
<1>5. PICK v \in Name : db[T(p)] = NameTo(Shown(db, p), u, v)
    BY <1>1, <1>3, <1>4 DEF RowsFresh
<1>6. AuthorsIn(db, p) \subseteq User /\ (\A x \in Source : db[<<"source", x>>] \in Name) /\ db[<<"post", p>>] # Absent
    BY <1>1, <1>3, Sees DEF AuthorsIn
<1>7. Shown(db, p) \in Row /\ Shown(db, p).by = AuthorsIn(db, p)
    BY <1>3, <1>6, RowType
<1>8. NameTo(Shown(db, p), u, v) \in Row /\ NameTo(Shown(db, p), u, v).by = Shown(db, p).by
    <2> DEFINE row == Shown(db, p)
    <2> HIDE DEF row
    <2>1. row \in [by : SUBSET User, names : [Source -> Name]]
        BY <1>7 DEF row, Row
    <2>2. NameTo(row, u, v) \in Row /\ NameTo(row, u, v).by = row.by
        BY <2>1 DEF NameTo, Row
    <2> QED
        BY <2>2 DEF row
<1> QED
    BY <1>2, <1>3, <1>5, <1>7, <1>8, MarkerAssumption

\* A fan-out finds its rows.
LEMMA FanoutFresh ==
    ASSUME IInv, IInv', FInv, way # "embed", NEW s \in Session, Fanout(s)
    PROVE  FInv'
<1> DEFINE u == Statement(s).on
           R == {"tv_post"} \X Embedding(Seen(s), u)
           w == [work[s] EXCEPT !.target = R]
<1>1. R \subseteq TvPost /\ R \subseteq Item
    BY FoundPosts DEF TvPost, Item
<1>2. Goes(s, "flush", "fanned", {}, R, w) /\ work[s].fan # {} /\ pc[s] = "flush"
    BY <1>1 DEF Fanout, Goes, Running, Steps, Ended, Step
<1>3. Queues(s) /\ Patching(s) /\ TypeOK /\ WorkOK(work[s])
    BY <1>2, AtStep DEF Ended
<1>4. Kept(s)
    BY <1>3, KeepsAll DEF Fanout
<1>5. work[s].fan = {u} /\ way = "fanout" /\ work[s].post = {} /\ ~work[s].all /\ own[s][<<"source", u>>] = s
    BY <1>2, <1>3 DEF Patching
<1>6. /\ w.post = work[s].post /\ w.all = work[s].all /\ w.fan = work[s].fan /\ w.user = work[s].user
      /\ w.patched = work[s].patched /\ w.target = R
    BY <1>3 DEF WorkOK
<1>7. pc'[s] = "fanned" /\ work'[s] = w /\ rows'[s] = R
    BY <1>1, <1>2, GoesTo
<1>8. AuthorsLocked(s)' /\ TviewLocked(s)'
    BY <1>2, <1>4, <1>5, <1>6, LocksKept
<1>9. Queues(s)' /\ Computed(s)'
    BY <1>3, <1>6, <1>7 DEF Queues, Computed, AtRest, Ended
<1>10. Patching(s)'
    <2>1. /\ Latest(s)' = Latest(s) /\ Seen(s)' = Seen(s) /\ InSnapshot(s)' = InSnapshot(s)
          /\ Statement(s)' = Statement(s) /\ way' = way
        BY <1>2, <1>4, GoesAlone
    <2>2. ASSUME NEW p \in Mapped(Latest(s), u), ~InSnapshot(s) PROVE T(p) \in R
        <3>1. p \in Embedding(Latest(s), u)
            BY <1>2, <2>2, FanRow DEF Embedding, T
        <3>2. Seen(s) = Latest(s)
            BY <2>2 DEF Seen
        <3> QED
            BY <3>1, <3>2 DEF T
    <2>3. own'[s][<<"source", u>>] = s
        <3>1. u \in Source
            BY <1>3, <1>5 DEF Source, WorkOK
        <3> QED
            BY <1>4, <1>5, <3>1, Kinds DEF Kept
    <2> HIDE DEF R, w
    <2> QED
        BY <1>5, <1>6, <1>7, <2>1, <2>2, <2>3 DEF Patching, R
<1> QED
    BY <1>2, <1>4, <1>6, <1>8, <1>9, <1>10, MoveStep

\* The authors a refresh reads are locked next, once a link changed: those the
\* transaction gave a post are.
LEMMA LockReadsFresh ==
    ASSUME IInv, IInv', FInv, way # "embed", NEW s \in Session, LockReads(s)
    PROVE  FInv'
<1> DEFINE K == ReadValues(s)
           N == ValueLocks("refresh", NameSpace, K)
           w == work[s]
<1>1. /\ Queues(s) /\ TypeOK /\ SessionInv(s) /\ WorkOK(w) /\ pc[s] = "reads" /\ need[s] = {}
      /\ OneTview(s) /\ Intends(s) /\ NameSpace = "source"
    BY AtStep DEF LockReads, Step, Ended
<1>2. AuthorsLocked(s) /\ TviewLocked(s) /\ Links(s)
    BY DEF FInv, FreshInv
<1>3. K \subseteq Source
    <2>1. \A p \in Post : AuthorsIn(Seen(s), p) \subseteq User
        BY <1>1, SeenAuthors DEF Ended, SessionInv
    <2>2. \A i \in work[s].target : i[1] = "tv_post" => i[2] \in Post
        BY <1>1, Kinds DEF OneTview, TvUser, TvPost
    <2> QED
        BY <2>1, <2>2 DEF ReadValues, Source
<1>4. w.target = {"tv_post"} \X w.post /\ w.post \subseteq Post
    BY <1>1 DEF Queues, OneTview, WorkOK
<1>5. ASSUME NEW p \in w.post, own[s][<<"post", p>>] \notin {None, Absent}, NEW x \in own[s][<<"post", p>>]
      PROVE  Reader(x) \in N
    <2>1. links[s]
        BY <1>2, <1>4, <1>5 DEF Links
    <2>2. <<"post", p>> \in Item
        BY <1>4, Kinds
    <2>3. Seen(s)[<<"post", p>>] = own[s][<<"post", p>>]
        BY <1>5, <2>2 DEF Seen, Latest, With
    <2>4. x \in AuthorsIn(Seen(s), p)
        BY <1>5, <2>3 DEF AuthorsIn
    <2>5. T(p) \in w.target /\ T(p)[1] = "tv_post" /\ T(p)[2] = p
        BY <1>4 DEF T
    <2>6. x \in K
        BY <2>1, <2>4, <2>5 DEF ReadValues
    <2> QED
        BY <1>1, <2>6 DEF ValueLocks, Reader
<1> HIDE DEF K
<1>6. N \in SUBSET LockType
    BY <1>3, ValueLockTypes DEF NameSpace
<1>7. Goes(s, "reads", "order", N, {}, w)
    BY <1>6 DEF LockReads, Goes, Running, Steps, Ended, K
<1> HIDE DEF N
<1>8. Kept(s)
    BY <1>1, KeepsAll DEF LockReads
<1>9. pc'[s] = "order" /\ work'[s] = w /\ locks' = locks /\ need'[s] = N
    BY <1>7, GoesTo DEF LockReads, Unwritten
<1>10. own' = own
    BY DEF LockReads, Unwritten
<1>11. AuthorsLocked(s)'
    BY <1>1, <1>2, <1>5, <1>9, <1>10 DEF AuthorsLocked
<1>12. TviewLocked(s)'
    <2>1. \A p \in w.post : Intent(T(p)) \in locks[s]
        BY <1>1, <1>4 DEF Intends, T
    <2> QED
        BY <1>1, <1>2, <1>9, <1>10, <2>1 DEF TviewLocked
<1>13. Queues(s)' /\ Computed(s)'
    BY <1>1, <1>9 DEF Queues, Computed, AtRest, Ended
<1> QED
    BY <1>7, <1>8, <1>11, <1>12, <1>13, MoveStep

-----------------------------------------------------------------------------
(* A session starts and ends a statement, and waits. *)

\* The names it reads stay.
LEMMA NamesStay ==
    ASSUME NEW s \in Session, Names(s), UNCHANGED <<own, snapshot, level>>,
           pc'[s] \in {"idle"} \cup Ended \/ pc[s] \notin {"idle"} \cup Ended
    PROVE  Names(s)'
<1>1. InSnapshot(s)' <=> InSnapshot(s)
    BY DEF InSnapshot
<1> QED
    BY <1>1 DEF Names

\* A lock granted, of a row or a value.
LEMMA LockRowFresh ==
    ASSUME IInv, IInv', FInv, way # "embed", NEW s \in Session, LockRow(s)
    PROVE  FInv'
<1>1. PICK i \in NextRows(s) :
          /\ need[s] = {} /\ RowFree(s, i)
          /\ rowLock' = IF Latest(s)[i] # Absent \/ pc[s] = "write"
                        THEN [rowLock EXCEPT ![i] = s] ELSE rowLock
          /\ rows' = [rows EXCEPT ![s] = @ \ {i}]
          /\ UNCHANGED <<store, writer, own, snapshot, level, way, script, pc, work, locks, need, links>>
    BY DEF LockRow
<1>2. TypeOK /\ FreshInv(s) /\ i \in rows[s] /\ i \in Item
    BY <1>1 DEF IInv, FInv, NextRows, TypeOK
<1>3. rows'[s] = rows[s] \ {i} /\ \A u \in Session \ {s} : rows'[u] = rows[u]
    BY <1>1, <1>2 DEF TypeOK
<1>4. /\ \A j \in Item : rowLock[j] = s => rowLock'[j] = s
      /\ \A u \in Session \ {s}, j \in Item : rowLock'[j] = u <=> rowLock[j] = u
      /\ Latest(s)[i] # Absent => rowLock'[i] = s
    BY <1>1, <1>2, Apart DEF TypeOK, RowFree
<1>5. Alone(s)
    BY <1>1, <1>3, <1>4 DEF Alone
<1>6. /\ Latest(s)' = Latest(s) /\ Seen(s)' = Seen(s) /\ InSnapshot(s)' = InSnapshot(s)
      /\ Statement(s)' = Statement(s) /\ Written(s)' = Written(s)
    BY <1>1 DEF Latest, Seen, With, InSnapshot, Statement, Written
<1>7. Renamed(s)' = Renamed(s) /\ Owed(s)' = Owed(s) /\ Patches(s)' = Patches(s)
    BY <1>1, <1>6 DEF Renamed, Owed, Patches
<1>8. AuthorsLocked(s)' /\ NamesLocked(s)' /\ TviewLocked(s)'
    BY <1>1, <1>2, <1>6 DEF FreshInv, AuthorsLocked, NamesLocked, TviewLocked
<1>9. Queues(s)'
    BY <1>1, <1>2 DEF FreshInv, Queues
<1>10. Names(s)'
    BY <1>1, <1>2, <1>6 DEF FreshInv, Names
<1>11. Computed(s)'
    <2>1. work[s].target \subseteq Item /\ Computed(s)
        BY <1>2 DEF TypeOK, WorkOK, FreshInv
    <2> QED
        BY <1>1, <1>4, <1>6, <2>1 DEF Computed
<1>12. Patching(s)'
    <2>1. Patching(s)
        BY <1>2 DEF FreshInv
    <2>2. ASSUME pc[s] = "fanned", NEW p \in Mapped(Latest(s), Statement(s).on), T(p) \in work[s].target
          PROVE  T(p) \in rows'[s] \/ rowLock'[T(p)] = s
        <3>1. T(p) \in Item /\ Latest(s)[T(p)] # Absent
            BY <2>1, <2>2, FanRow, FoundPosts, Posts DEF Patching
        <3> QED
            BY <1>3, <1>4, <2>1, <2>2, <3>1 DEF Patching
    <2> QED
        BY <1>1, <1>6, <2>1, <2>2 DEF Patching
<1> QED
    BY <1>1, <1>4, <1>5, <1>7, <1>8, <1>9, <1>10, <1>11, <1>12, QuietStep

LEMMA LockValueFresh ==
    ASSUME IInv, IInv', FInv, way # "embed", NEW s \in Session, LockValue(s)
    PROVE  FInv'
<1>1. TypeOK /\ FreshInv(s)
    BY DEF IInv, FInv
<1>2. PICK l \in need[s] : /\ locks' = [locks EXCEPT ![s] = @ \cup {l}]
                           /\ need' = [need EXCEPT ![s] = @ \ {l}]
    BY <1>1, NextLockType DEF LockValue, TypeOK
<1>3. UNCHANGED <<store, writer, own, rowLock, snapshot, level, way, script, pc, work, rows, links>>
    BY DEF LockValue
<1>4. /\ locks'[s] = locks[s] \cup {l} /\ need'[s] = need[s] \ {l}
      /\ \A u \in Session \ {s} : locks'[u] = locks[u] /\ need'[u] = need[u]
    BY <1>1, <1>2 DEF TypeOK
<1>5. Alone(s)
    BY <1>3, <1>4 DEF Alone
<1>6. /\ Latest(s)' = Latest(s) /\ Seen(s)' = Seen(s) /\ InSnapshot(s)' = InSnapshot(s)
      /\ Statement(s)' = Statement(s) /\ Written(s)' = Written(s)
    BY <1>3 DEF Latest, Seen, With, InSnapshot, Statement, Written
<1>7. Renamed(s)' = Renamed(s) /\ Owed(s)' = Owed(s) /\ Patches(s)' = Patches(s)
    BY <1>3, <1>6 DEF Renamed, Owed, Patches
<1>8. AuthorsLocked(s)'
    BY <1>1, <1>3, <1>4, <1>6 DEF FreshInv, AuthorsLocked
<1>9. NamesLocked(s)' /\ TviewLocked(s)'
    <2>1. NamesLocked(s)'
        BY <1>1, <1>3, <1>4, <1>6 DEF FreshInv, NamesLocked
    <2>2. TviewLocked(s)'
        BY <1>1, <1>3, <1>4, <1>6 DEF FreshInv, TviewLocked
    <2> QED
        BY <2>1, <2>2
<1>10. Queues(s)'
    BY <1>1, <1>3, <1>4 DEF FreshInv, Queues
<1>11. Computed(s)' /\ Patching(s)'
    BY <1>1, <1>3, <1>6 DEF FreshInv, Computed, Patching
<1>12. Names(s)'
    BY <1>1, <1>3, <1>6 DEF FreshInv, Names
<1> QED
    BY <1>3, <1>5, <1>7, <1>8, <1>9, <1>10, <1>11, <1>12, QuietStep

\* A statement starts; it writes nothing; its flush is done.
LEMMA StartFresh ==
    ASSUME IInv, IInv', FInv, way # "embed", NEW s \in Session, Start(s)
    PROVE  FInv'
<1>1. TypeOK /\ FreshInv(s) /\ StoreFresh /\ pc[s] = "idle" /\ Queues(s)
    BY DEF IInv, FInv, FreshInv, Start
<1>2. UNCHANGED <<store, own, rowLock, level, way, script, work, locks, links>>
    BY DEF Start, Unwritten
<1>3. /\ pc'[s] = "write" /\ \A u \in Session \ {s} : pc'[u] = pc[u] /\ snapshot'[u] = snapshot[u]
      /\ \A u \in Session \ {s} : need'[u] = need[u] /\ rows'[u] = rows[u]
    BY <1>1 DEF TypeOK, Start, Locking
<1>4. Alone(s)
    BY <1>2, <1>3 DEF Alone
<1>5. work[s].post = {} /\ work[s].fan = {} /\ ~work[s].all
    BY <1>1 DEF Queues, AtRest
<1>6. /\ Owed(s) = {} /\ Owed(s)' = {} /\ Renamed(s) = {} /\ Renamed(s)' = {} /\ ~Patches(s)'
    BY <1>1, <1>2, <1>3, <1>5 DEF Owed, Renamed, Patches
<1>7. AuthorsLocked(s)' /\ NamesLocked(s)' /\ TviewLocked(s)'
    BY <1>1, <1>2, <1>3 DEF FreshInv, AuthorsLocked, NamesLocked, TviewLocked
<1>8. Queues(s)' /\ Patching(s)' /\ Computed(s)'
    <2>1. Queues(s)'
        BY <1>1, <1>2, <1>3, <1>5 DEF Queues, AtRest
    <2>2. Patching(s)' /\ Computed(s)'
        BY <1>2, <1>3, <1>5 DEF Patching, Computed
    <2> QED
        BY <2>1, <2>2
<1>9. Names(s)'
    <2>1. Names(s) /\ \A x \in Source : store[<<"source", x>>] \in Name
        BY <1>1 DEF FreshInv, StoreFresh
    <2>2. CASE snapshot[s] # None \/ ~InSnapshot(s)
        <3>1. snapshot'[s] = snapshot[s] /\ InSnapshot(s)' = InSnapshot(s)
            BY <1>1, <1>2, <2>2 DEF Start, TypeOK, InSnapshot
        <3> QED
            BY <1>2, <2>1, <2>2, <3>1 DEF Names
    <2>3. CASE snapshot[s] = None /\ InSnapshot(s)
        <3>1. snapshot'[s].rows = store
            BY <1>1, <2>3 DEF Start, TypeOK
        <3> QED
            BY <1>2, <2>1, <3>1 DEF Names
    <2> QED
        BY <2>2, <2>3
<1> QED
    BY <1>2, <1>4, <1>6, <1>7, <1>8, <1>9, QuietStep

\* A statement ends that has nothing left to refresh.
LEMMA RestFresh ==
    ASSUME IInv, IInv', FInv, way # "embed", NEW s \in Session, pc[s] \in {"write", "flush"},
           Step(s, pc[s], "idle"), script' = [script EXCEPT ![s] = Tail(@)],
           UNCHANGED <<own, rowLock, locks, links, need, rows>>,
           work' = work \/ Worked(s, NoWork),
           work[s].post = {}, work[s].fan = {}, ~work[s].all
    PROVE  FInv'
<1>1. TypeOK /\ FreshInv(s) /\ Queues(s)
    BY DEF IInv, FInv, FreshInv
<1>2. UNCHANGED <<store, snapshot, level, way>> /\ pc'[s] = "idle" /\ \A u \in Session \ {s} : pc'[u] = pc[u]
    BY <1>1 DEF Step, TypeOK
<1>3. \A u \in Session \ {s} : script'[u] = script[u] /\ work'[u] = work[u]
    BY <1>1 DEF TypeOK, Worked
<1>4. Alone(s)
    BY <1>2, <1>3 DEF Alone
<1>5. /\ work'[s].post = {} /\ work'[s].fan = {} /\ ~work'[s].all
      /\ work'[s].user = {} /\ work'[s].patched = {}
    <2>1. work'[s] \in {work[s], NoWork}
        BY <1>1 DEF TypeOK, Worked
    <2> QED
        BY <1>1, <2>1 DEF NoWork, Queues
<1>6. /\ Owed(s) = {} /\ Owed(s)' = {} /\ Renamed(s) = {} /\ Renamed(s)' = {} /\ ~Patches(s)'
    BY <1>2, <1>5 DEF Owed, Renamed, Patches
<1>7. AuthorsLocked(s)' /\ NamesLocked(s)' /\ TviewLocked(s)'
    BY <1>1, <1>2 DEF FreshInv, AuthorsLocked, NamesLocked, TviewLocked
<1>8. Queues(s)' /\ Patching(s)' /\ Computed(s)'
    BY <1>2, <1>5 DEF Queues, AtRest, Patching, Computed
<1>9. Names(s)'
    BY <1>1, <1>2, NamesStay DEF FreshInv
<1> QED
    BY <1>2, <1>4, <1>6, <1>7, <1>8, <1>9, QuietStep

LEMMA WriteNothingFresh ==
    ASSUME IInv, IInv', FInv, way # "embed", NEW s \in Session, WriteNothing(s)
    PROVE  FInv'
<1>1. work[s].post = {} /\ work[s].fan = {} /\ ~work[s].all /\ pc[s] = "write"
    BY DEF FInv, FreshInv, Queues, AtRest, WriteNothing, Step
<1> QED
    BY <1>1, RestFresh DEF WriteNothing

LEMMA FlushDoneFresh ==
    ASSUME IInv, IInv', FInv, way # "embed", NEW s \in Session, FlushDone(s)
    PROVE  FInv'
<1>1. work[s].post = {} /\ work[s].fan = {} /\ ~work[s].all /\ pc[s] = "flush"
    BY DEF FlushDone, Step
<1> QED
    BY <1>1, RestFresh DEF FlushDone

-----------------------------------------------------------------------------
(* The trigger queues what the statement changed. *)

\* What a statement writes, that rows read.
LEMMA WrittenReads ==
    ASSUME NEW s, Statement(s) \in StatementType
    PROVE  LET st == Statement(s)
               u == st.on
           IN  /\ st.op \in {"rename", "adduser", "insert", "repoint", "delete", "comment", "configure"}
               /\ st.op \in {"insert", "repoint", "delete"} =>
                     u \in Post /\ Written(s) = <<"post", u>> /\ u \notin User
               /\ st.op = "comment" => u \in Post /\ Written(s) = <<"source", u>> /\ u \notin User
               /\ st.op = "configure" => u = Conf /\ Written(s) = <<"source", Conf>>
               /\ st.op \in {"rename", "adduser"} => u \in User /\ Written(s) = <<"source", u>> /\ u \notin Post
               /\ Conf \notin User \cup Post
               /\ \A p \in Post : Written(s) \in Own(p) <=>
                     \/ st.op \in {"insert", "repoint", "delete", "comment"} /\ p = u
                     \/ st.op = "configure"
               /\ \A x \in User : Written(s) = <<"source", x>> <=> st.op \in {"rename", "adduser"} /\ x = u
<1> DEFINE st == Statement(s)
           u == st.on
<1>1. st.op \in {"rename", "adduser", "insert", "repoint", "delete", "comment", "configure"}
    BY DEF StatementType
<1>2. /\ st.op \in {"rename", "adduser"} => u \in User
      /\ st.op = "configure" => u = Conf
      /\ st.op \in {"insert", "repoint", "delete", "comment"} => u \in Post
    BY DEF StatementType
<1>3. Conf \notin User \cup Post /\ User \cap Post = {}
    BY KeyAssumption DEF Conf
<1>4. Written(s) = IF st.op \in {"insert", "repoint", "delete"} THEN <<"post", u>> ELSE <<"source", u>>
    BY DEF Written
<1> HIDE DEF u, st
<1>5. \A p \in Post : Written(s) \in Own(p) <=>
          \/ st.op \in {"insert", "repoint", "delete", "comment"} /\ p = u
          \/ st.op = "configure"
    <2> SUFFICES ASSUME NEW p \in Post
                 PROVE  Written(s) \in Own(p) <=>
                          \/ st.op \in {"insert", "repoint", "delete", "comment"} /\ p = u
                          \/ st.op = "configure"
        OBVIOUS
    <2>1. <<"post", u>> \in Own(p) <=> u = p
        BY DEF Own
    <2>2. <<"source", u>> \in Own(p) <=> u \in {p, Conf}
        BY DEF Own
    <2>3. CASE st.op \in {"insert", "repoint", "delete"}
        BY <1>4, <2>1, <2>3
    <2>4. CASE st.op \in {"rename", "adduser"}
        BY <1>2, <1>3, <1>4, <2>2, <2>4
    <2>5. CASE st.op = "comment"
        BY <1>2, <1>3, <1>4, <2>2, <2>5
    <2>6. CASE st.op = "configure"
        BY <1>2, <1>4, <2>2, <2>6
    <2> QED
        BY <1>1, <2>3, <2>4, <2>5, <2>6
<1>6. \A x \in User : Written(s) = <<"source", x>> <=> st.op \in {"rename", "adduser"} /\ x = u
    BY <1>1, <1>2, <1>3, <1>4
<1> QED
    BY <1>1, <1>2, <1>3, <1>4, <1>5, <1>6 DEF st, u

\* The work of each kind of statement.
LEMMA QueuedWork ==
    ASSUME NEW s, Statement(s) \in StatementType, way \in {"mapping", "fanout"}
    PROVE  LET st == Statement(s)
               u == st.on
               w == Queued(s)
           IN  /\ w.user = {} /\ w.patched = {}
               /\ w.all = (st.op = "configure")
               /\ w.fan = IF st.op = "rename" /\ way = "fanout" THEN {u} ELSE {}
               /\ w.post = IF st.op = "configure" \/ (st.op = "rename" /\ way = "fanout") THEN {}
                           ELSE IF st.op \in {"rename", "adduser"} THEN Mapped(Seen(s), u)
                           ELSE {u}
<1> DEFINE st == Statement(s)
           u == st.on
<1>1. st.op \in {"rename", "adduser", "insert", "repoint", "delete", "comment", "configure"}
    BY DEF StatementType
<1>2. CASE st.op = "configure"
    BY <1>2 DEF Queued, NoWork
<1>3. CASE st.op = "rename" /\ way = "fanout"
    BY <1>3 DEF Queued, NoWork
<1>4. CASE st.op \in {"rename", "adduser"} /\ ~(st.op = "rename" /\ way = "fanout")
    <2>1. Queued(s) = [NoWork EXCEPT !.post = Found(s, Seen(s))]
        BY <1>4 DEF Queued
    <2>2. Found(s, Seen(s)) = Mapped(Seen(s), u)
        BY <1>4 DEF Found
    <2> QED
        BY <1>4, <2>1, <2>2 DEF NoWork
<1>5. CASE st.op \notin {"rename", "adduser", "configure"}
    <2>1. Queued(s) = [NoWork EXCEPT !.post = {u}]
        BY <1>5 DEF Queued
    <2> QED
        BY <1>5, <2>1 DEF NoWork
<1> QED
    BY <1>1, <1>2, <1>3, <1>4, <1>5

\* At READ COMMITTED the query sees what is committed; in a snapshot, posts it
\* cannot see refuse the statement.
LEMMA FindFresh ==
    ASSUME IInv, IInv', FInv, way # "embed", NEW s \in Session, Find(s)
    PROVE  FInv'
<1> DEFINE w == Queued(s)
           st == Statement(s)
           u == st.on
<1>1. Goes(s, "find", "flush", {}, {}, w) /\ pc[s] = "find" /\ need[s] = {}
    BY DEF Find, Goes, Running, Steps, Ended, Step
<1>2. /\ TypeOK /\ Patching(s) /\ Names(s) /\ st \in StatementType /\ way \in {"mapping", "fanout"}
      /\ FreshInv(s) /\ StoreFresh
    BY <1>1, AtStep DEF Ended
<1>3. Kept(s) /\ own' = own
    BY <1>2, KeepsAll DEF Find, Unwritten
<1>4. pc'[s] = "flush" /\ work'[s] = w
    BY <1>1, GoesTo
<1>5. /\ Alone(s) /\ UNCHANGED <<store, way, links, locks, snapshot, level, script, rowLock>>
      /\ InSnapshot(s)' = InSnapshot(s) /\ Statement(s)' = Statement(s)
    BY <1>1, <1>3, GoesAlone DEF Kept
<1>6. /\ w.user = {} /\ w.patched = {}
      /\ w.all = (st.op = "configure")
      /\ w.fan = IF st.op = "rename" /\ way = "fanout" THEN {u} ELSE {}
      /\ w.post = IF st.op = "configure" \/ (st.op = "rename" /\ way = "fanout") THEN {}
                  ELSE IF st.op \in {"rename", "adduser"} THEN Mapped(Seen(s), u)
                  ELSE {u}
    BY <1>2, QueuedWork
<1>7. /\ st.op \in {"rename", "adduser", "insert", "repoint", "delete", "comment", "configure"}
      /\ st.op \in {"insert", "repoint", "delete"} => u \in Post /\ Written(s) = <<"post", u>> /\ u \notin User
      /\ st.op = "comment" => u \in Post /\ Written(s) = <<"source", u>> /\ u \notin User
      /\ st.op = "configure" => u = Conf /\ Written(s) = <<"source", Conf>>
      /\ st.op \in {"rename", "adduser"} => u \in User /\ Written(s) = <<"source", u>> /\ u \notin Post
      /\ Conf \notin User \cup Post
      /\ \A p \in Post : Written(s) \in Own(p) <=>
            \/ st.op \in {"insert", "repoint", "delete", "comment"} /\ p = u
            \/ st.op = "configure"
      /\ \A x \in User : Written(s) = <<"source", x>> <=> st.op \in {"rename", "adduser"} /\ x = u
    BY <1>2, WrittenReads
<1> HIDE DEF w, u, st
<1>8. ASSUME NEW p \in Post, p \notin Mapped(Seen(s), u), st.op \in {"rename", "adduser"},
             ~(st.op = "rename" /\ way = "fanout")
      PROVE  u \notin AuthorsIn(Latest(s), p)
    <2>1. Mapped(Latest(s), u) \subseteq Mapped(Seen(s), u)
        <3>1. \A db : Found(s, db) = Mapped(db, u)
            BY <1>2, <1>8 DEF Found, st, u
        <3>2. CASE InSnapshot(s)
            <4>1. ~Refused(s)
                BY DEF Find
            <4>2. Found(s, Latest(s)) \subseteq Found(s, Seen(s))
                BY <1>1, <1>8, <3>2, <4>1 DEF Refused, st
            <4> QED
                BY <3>1, <4>2
        <3>3. CASE ~InSnapshot(s)
            BY <3>3 DEF Seen
        <3> QED
            BY <3>2, <3>3
    <2> QED
        BY <1>8, <2>1 DEF Mapped
<1>9. /\ Renamed(s) = {x \in User : st.op \in {"rename", "adduser"} /\ x = u}
      /\ Renamed(s)' = w.fan /\ Owed(s)' = IF w.all THEN Post ELSE w.post
      /\ \A p \in Post : p \in Owed(s) <=>
            \/ st.op \in {"insert", "repoint", "delete", "comment"} /\ p = u
            \/ st.op = "configure"
    BY <1>1, <1>4, <1>7 DEF Renamed, Owed
<1>10. ASSUME NEW p \in Post \ Owed(s)'
       PROVE  /\ p \notin Owed(s)
              /\ AuthorsIn(Latest(s), p) \cap Renamed(s)' = AuthorsIn(Latest(s), p) \cap Renamed(s)
    <2>1. p \notin Owed(s)
        BY <1>6, <1>9, <1>10
    <2>2. CASE st.op \notin {"rename", "adduser"}
        BY <1>6, <1>9, <2>1, <2>2
    <2>3. CASE st.op = "rename" /\ way = "fanout"
        BY <1>6, <1>7, <1>9, <2>1, <2>3
    <2>4. CASE st.op \in {"rename", "adduser"} /\ ~(st.op = "rename" /\ way = "fanout")
        BY <1>6, <1>7, <1>8, <1>9, <1>10, <2>1, <2>4
    <2> QED
        BY <2>2, <2>3, <2>4
<1>11. Patches(s)' => Patches(s)
    BY <1>1, <1>4, <1>5, <1>6 DEF Patches, st
<1>12. AuthorsLocked(s)'
    BY <1>1, <1>2, <1>3, <1>4, <1>5, <1>6, <1>7 DEF FreshInv, AuthorsLocked
<1>13. NamesLocked(s)'
    BY <1>1, <1>2, <1>3, <1>4, <1>5 DEF FreshInv, NamesLocked
<1>14. TviewLocked(s)'
    <2>1. TviewLocked(s)
        BY <1>2 DEF FreshInv
    <2>2. ASSUME NEW p \in Post, Written(s) \in {<<"post", p>>, <<"source", p>>} PROVE p \in w.post
        <3>1. Written(s) \in Own(p)
            BY <2>2 DEF Own
        <3>2. st.op # "configure"
            BY <1>7, <2>2
        <3> QED
            BY <1>6, <1>7, <3>1, <3>2
    <2>3. Written(s) = <<"source", Conf>> => w.all
        <3>1. Written(s) = <<"source", Conf>> => st.op = "configure"
            BY <1>7
        <3> QED
            BY <1>6, <3>1
    <2> QED
        BY <1>1, <1>3, <1>4, <1>5, <2>1, <2>2, <2>3 DEF TviewLocked
<1>15. Queues(s)' /\ Computed(s)'
    BY <1>4, <1>6 DEF Queues, AtRest, Ended, Computed
<1>16. Patching(s)'
    BY <1>1, <1>2, <1>3, <1>4, <1>5, <1>6 DEF Patching, st, u
<1>17. Names(s)'
    BY <1>1, <1>2, <1>3, <1>5, NamesStay DEF Ended
<1> QED
    BY <1>3, <1>5, <1>10, <1>11, <1>12, <1>13, <1>14, <1>15, <1>16, <1>17, QuietStep DEF Kept

-----------------------------------------------------------------------------
(* The steps that write, and those that check what was written. *)

\* No users' rows are refreshed: nothing embeds them.
LEMMA NoLookup ==
    ASSUME FInv, way # "embed", NEW s \in Session
    PROVE  ~Lookup(s)
    BY DEF FInv, FreshInv, Queues, Lookup, Step

\* In a snapshot, the check finds that what it wrote is what is committed.
LEMMA CheckFresh ==
    ASSUME IInv, IInv', FInv, way # "embed", NEW s \in Session, Check(s)
    PROVE  FInv'
<1>1. pc[s] = "check" /\ need[s] = {}
    BY DEF Check, Step
<1>2. TypeOK /\ Queues(s) /\ Computed(s) /\ FreshInv(s) /\ OneTview(s) /\ WorkOK(work[s])
    BY <1>1, AtStep DEF Ended
<1>3. work[s].target \subseteq TvPost /\ work[s].fan = {}
      /\ work[s].target = IF work[s].all THEN TvPost ELSE {"tv_post"} \X work[s].post
    BY <1>1, <1>2 DEF Queues, WorkOK, TvPost
<1>4. TviewOf(work[s].target) # "tv_user"
    BY <1>3, Kinds DEF TviewOf
<1>5. Goes(s, "check", "flush", {}, {}, NoWork)
    BY <1>4 DEF Check, Goes, Running, Steps, Ended
<1>6. Kept(s) /\ own' = own
    BY <1>2, KeepsAll DEF Check, Unwritten
<1>7. pc'[s] = "flush" /\ work'[s] = NoWork
    BY <1>5, GoesTo
<1>8. /\ Alone(s) /\ UNCHANGED <<store, way, links, locks, snapshot, level, script, rowLock>>
      /\ InSnapshot(s)' = InSnapshot(s) /\ Statement(s)' = Statement(s)
    BY <1>5, <1>6, GoesAlone DEF Kept
<1>9. Renamed(s) = {} /\ Renamed(s)' = {} /\ ~Patches(s)'
    BY <1>1, <1>3, <1>7 DEF Renamed, Patches, NoWork
<1>10. ASSUME NEW p \in Post, p \in Owed(s)
       PROVE  rowLock[T(p)] = s /\ Latest(s)[T(p)] = Shown(Latest(s), p)
    <2>1. InSnapshot(s) /\ T(p) \in work[s].target
        BY <1>1, <1>3, <1>10, Posts DEF Owed, T
    <2>2. rowLock[T(p)] = s /\ Latest(s)[T(p)] = Shown(Seen(s), T(p)[2])
        BY <1>1, <1>2, <2>1 DEF Computed
    <2>3. ViewRow(Seen(s), T(p)) = ViewRow(Latest(s), T(p))
        BY <1>1, <2>1 DEF Check, Refused
    <2>4. \A db : ViewRow(db, T(p)) = Shown(db, p)
        BY Posts, ShownRow DEF ViewRow
    <2>5. Shown(Seen(s), p) = Shown(Latest(s), p)
        BY <2>3, <2>4
    <2> QED
        BY <2>2, <2>5, Posts
<1>11. AuthorsLocked(s)' /\ NamesLocked(s)' /\ TviewLocked(s)'
    BY <1>1, <1>2, <1>6, <1>7, <1>8 DEF FreshInv, AuthorsLocked, NamesLocked, TviewLocked
<1>12. Queues(s)' /\ Patching(s)' /\ Computed(s)'
    BY <1>7 DEF Queues, AtRest, Ended, Patching, Computed, NoWork
<1>13. Names(s)'
    BY <1>1, <1>2, <1>6, <1>8, NamesStay DEF FreshInv, Ended
<1> QED
    BY <1>6, <1>8, <1>9, <1>10, <1>11, <1>12, <1>13, QuietStep DEF Kept

\* Rows of a TVIEW written change nothing rows read.
LEMMA SameBases ==
    ASSUME IInv, FInv, way # "embed", NEW s \in Session, pc[s] \notin {"idle"} \cup Ended,
           UNCHANGED <<store, snapshot, level, way, locks, links, script>>,
           \A i \in Item \ Tv : own'[s][i] = own[s][i]
    PROVE  /\ \A p \in Post : /\ AuthorsIn(Latest(s)', p) = AuthorsIn(Latest(s), p)
                              /\ ReadBy(Latest(s)', p) = ReadBy(Latest(s), p)
                              /\ ReadBy(Latest(s), p) \subseteq Item \ Tv
                              /\ Shown(Latest(s)', p) = Shown(Latest(s), p)
                              /\ Shown(Seen(s)', p) = Shown(Seen(s), p)
           /\ Links(s)' /\ Names(s)' /\ InSnapshot(s)' = InSnapshot(s)
           /\ Statement(s)' = Statement(s) /\ Written(s)' = Written(s)
<1>1. FreshInv(s) /\ StoreFresh /\ Names(s) /\ Links(s)
    BY DEF FInv, FreshInv
<1> DEFINE new == Latest(s)'
           newly == Seen(s)'
<1>2. \A i \in Item \ Tv : new[i] = Latest(s)[i] /\ newly[i] = Seen(s)[i]
    BY DEF Latest, Seen, With, InSnapshot
<1> HIDE DEF new, newly
<1>3. ASSUME NEW p \in Post
      PROVE  /\ AuthorsIn(new, p) = AuthorsIn(Latest(s), p)
             /\ ReadBy(new, p) = ReadBy(Latest(s), p)
             /\ ReadBy(Latest(s), p) \subseteq Item \ Tv
             /\ Shown(new, p) = Shown(Latest(s), p)
             /\ Shown(newly, p) = Shown(Seen(s), p)
    <2>1. ReadBy(Latest(s), p) \subseteq Item \ Tv /\ ReadBy(Seen(s), p) \subseteq Item \ Tv
        BY <1>1, Sees, ReadItems
    <2>2. \A i \in ReadBy(Latest(s), p) : new[i] = Latest(s)[i]
        BY <1>2, <2>1
    <2>3. \A i \in ReadBy(Seen(s), p) : newly[i] = Seen(s)[i]
        BY <1>2, <2>1
    <2>4. /\ AuthorsIn(new, p) = AuthorsIn(Latest(s), p) /\ ReadBy(new, p) = ReadBy(Latest(s), p)
          /\ Shown(new, p) = Shown(Latest(s), p)
        BY <2>2, SameRow
    <2>5. Shown(newly, p) = Shown(Seen(s), p)
        BY <2>3, SameRow
    <2> QED
        BY <2>1, <2>4, <2>5
<1>4. InSnapshot(s)' = InSnapshot(s) /\ Statement(s)' = Statement(s) /\ Written(s)' = Written(s)
    BY DEF InSnapshot, Statement, Written
<1>5. Links(s)'
    BY <1>1, Kinds DEF Links
<1>6. Names(s)'
    <2>1. \A x \in Source : own'[s][<<"source", x>>] = own[s][<<"source", x>>]
        BY Kinds
    <2>2. \A x \in Source :
             /\ own[s][<<"source", x>>] \in Name \cup {None}
             /\ snapshot[s] # None \/ InSnapshot(s) => snapshot[s].rows[<<"source", x>>] \in Name
        BY <1>1 DEF Names
    <2>3. InSnapshot(s)' <=> InSnapshot(s)
        BY <1>4
    <2> QED
        BY <2>1, <2>2, <2>3 DEF Names
<1> QED
    BY <1>3, <1>4, <1>5, <1>6 DEF new, newly

\* What the upsert writes is what its view computed.
LEMMA UpsertFresh ==
    ASSUME IInv, IInv', FInv, way # "embed", NEW s \in Session, Upsert(s)
    PROVE  FInv'
<1> DEFINE R == work[s].redo
           changed == {i \in R : Latest(s)[i] # work[s].fresh[i]}
           row == [i \in Item |-> IF i \in changed THEN work[s].fresh[i] ELSE own[s][i]]
           w == [work[s] EXCEPT !.redo = {}, !.fresh = <<>>]
<1>1. pc[s] = "upsert" /\ rows[s] = {} /\ need[s] = {}
    BY DEF Upsert, Step
<1>2. /\ TypeOK /\ SessionInv(s) /\ WorkOK(work[s]) /\ FreshInv(s) /\ Queues(s) /\ Computed(s) /\ Names(s)
      /\ StoreFresh /\ NoClash /\ Creators
    BY <1>1, AtStep DEF Ended, IInv
<1>3. /\ rowLock' = [i \in Item |-> IF i \in R THEN s ELSE rowLock[i]]
      /\ own' = [own EXCEPT ![s] = row]
      /\ UNCHANGED <<store, writer, snapshot, level, way, script, locks, links, need, rows>>
    BY DEF Upsert, LockedByUpsert, Step
<1>4. DOMAIN row = Item /\ \A i \in Item : row[i] = IF i \in changed THEN work[s].fresh[i] ELSE own[s][i]
    OBVIOUS
<1> HIDE DEF row
<1>5. R = work[s].target /\ R \subseteq TvPost /\ work[s].fan = {}
      /\ R = IF work[s].all THEN TvPost ELSE {"tv_post"} \X work[s].post
    BY <1>1, <1>2 DEF Queues, WorkOK, TvPost
<1>6. \A i \in R : i \in Tv /\ i \in Item /\ i[2] \in Post /\ i = T(i[2])
    BY <1>5, Kinds DEF T, Tv
<1>7. \A i \in R, u \in Session \ {s} : rowLock[i] # u
    BY <1>1, <1>2, <1>6, UpsertRows, OneCreator DEF Creators
<1>8. \A i \in Item : /\ own'[s][i] = IF i \in changed THEN work[s].fresh[i] ELSE own[s][i]
                      /\ rowLock'[i] = IF i \in R THEN s ELSE rowLock[i]
    BY <1>2, <1>3, <1>4 DEF TypeOK
<1>9. /\ w.post = work[s].post /\ w.all = work[s].all /\ w.fan = {} /\ w.user = work[s].user
      /\ w.patched = work[s].patched /\ w.target = work[s].target
    BY <1>2, <1>5 DEF WorkOK
<1>10. /\ pc'[s] = "check" /\ work'[s] = w
       /\ \A u \in Session \ {s} : work'[u] = work[u] /\ pc'[u] = pc[u] /\ own'[u] = own[u]
    BY <1>2, <1>3 DEF TypeOK, Upsert, Step, Worked
<1> HIDE DEF w
<1>11. Alone(s)
    BY <1>3, <1>6, <1>7, <1>8, <1>10 DEF Alone
<1>12. \A i \in Item \ Tv : own'[s][i] = own[s][i]
    BY <1>6, <1>8
<1>13. /\ \A p \in Post : /\ AuthorsIn(Latest(s)', p) = AuthorsIn(Latest(s), p)
                          /\ ReadBy(Latest(s)', p) = ReadBy(Latest(s), p)
                          /\ ReadBy(Latest(s), p) \subseteq Item \ Tv
                          /\ Shown(Latest(s)', p) = Shown(Latest(s), p)
                          /\ Shown(Seen(s)', p) = Shown(Seen(s), p)
       /\ Links(s)' /\ Names(s)' /\ InSnapshot(s)' = InSnapshot(s)
       /\ Statement(s)' = Statement(s) /\ Written(s)' = Written(s)
    BY <1>1, <1>3, <1>12, SameBases DEF Ended
<1> DEFINE db == IF InSnapshot(s) THEN Seen(s) ELSE Latest(s)
           new == Latest(s)'
<1>14. \A i \in R : work[s].fresh[i] = Shown(db, i[2]) /\ Shown(db, i[2]) # None
    <2>1. \A i \in R : work[s].fresh[i] = Shown(db, i[2])
        BY <1>1, <1>2 DEF Computed
    <2>2. /\ \A p \in Post : AuthorsIn(db, p) \subseteq User
          /\ \A x \in Source : db[<<"source", x>>] \in Name
        BY <1>1, <1>2, Sees DEF Ended
    <2> HIDE DEF db
    <2> QED
        BY <1>6, <2>1, <2>2, RowType
<1>15. \A i \in Item : new[i] = IF i \in R THEN work[s].fresh[i] ELSE Latest(s)[i]
    <2>1. \A i \in Item : new[i] = IF own'[s][i] # None THEN own'[s][i] ELSE store[i]
        BY <1>3 DEF Latest, With
    <2>2. \A i \in Item : Latest(s)[i] = IF own[s][i] # None THEN own[s][i] ELSE store[i]
        BY DEF Latest, With
    <2> HIDE DEF new, db
    <2> QED
        BY <1>8, <1>14, <2>1, <2>2
<1>16. Owed(s) = IF work[s].all THEN Post ELSE work[s].post
    BY <1>1 DEF Owed
<1>17. \A p \in Post : T(p) \in R <=> p \in Owed(s)
    <2>1. \A P, p : T(p) \in {"tv_post"} \X P <=> p \in P
        BY DEF T
    <2> QED
        BY <1>5, <1>16, <2>1 DEF TvPost
<1>18. Owed(s)' = (IF InSnapshot(s) THEN Owed(s) ELSE {}) /\ Renamed(s) = {} /\ Renamed(s)' = {} /\ ~Patches(s)'
    BY <1>1, <1>5, <1>9, <1>10, <1>13, <1>16 DEF Owed, Renamed, Patches
<1>19. \A p \in Post : T(p) \in Item
    BY Posts
<1>20. ReadersHeld(s)'
    <2> SUFFICES ASSUME NEW p \in Post \ Owed(s)', NEW i \in ReadBy(Latest(s), p), own[s][i] # None
                 PROVE  rowLock'[T(p)] = s
        BY <1>12, <1>13, <1>18 DEF ReadersHeld
    <2>1. CASE p \in Owed(s)
        BY <1>8, <1>17, <1>19, <2>1
    <2>2. CASE p \notin Owed(s)
        <3>1. rowLock[T(p)] = s
            BY <1>2, <1>18, <2>2 DEF FreshInv, ReadersHeld
        <3> QED
            BY <1>8, <1>19, <3>1
    <2> QED
        BY <2>1, <2>2
<1>21. RowsFresh(s)'
    <2> SUFFICES ASSUME NEW p \in Post \ Owed(s)' PROVE new[T(p)] = Shown(Latest(s), p)
        BY <1>13, <1>18 DEF RowsFresh
    <2>1. CASE p \in Owed(s)
        <3>1. ~InSnapshot(s) /\ T(p) \in R
            BY <1>17, <1>18, <2>1
        <3>2. T(p) \in Item /\ T(p)[2] = p
            BY Posts
        <3> HIDE DEF new
        <3> QED
            BY <1>14, <1>15, <3>1, <3>2
    <2>2. CASE p \notin Owed(s)
        <3>1. Latest(s)[T(p)] = Shown(Latest(s), p)
            BY <1>2, <1>18, <2>2 DEF FreshInv, RowsFresh
        <3> HIDE DEF new
        <3> QED
            BY <1>15, <1>17, <1>19, <2>2, <3>1
    <2> QED
        BY <2>1, <2>2
<1>22. Computed(s)'
    <2> SUFFICES ASSUME InSnapshot(s), NEW i \in R
                 PROVE  rowLock'[i] = s /\ new[i] = Shown(Seen(s)', i[2])
        BY <1>5, <1>9, <1>10, <1>13 DEF Computed
    <2>1. new[i] = Shown(Seen(s), i[2])
        BY <1>6, <1>14, <1>15
    <2> QED
        BY <1>6, <1>8, <1>13, <2>1
<1>23. AuthorsLocked(s)' /\ NamesLocked(s)' /\ TviewLocked(s)'
    <2>1. /\ \A p \in Post : own'[s][<<"post", p>>] = own[s][<<"post", p>>]
          /\ \A x \in Source : own'[s][<<"source", x>>] = own[s][<<"source", x>>]
        BY <1>12, Kinds
    <2>2. Conf \in Source /\ User \subseteq Source /\ Post \subseteq Source
        BY DEF Source
    <2>3. AuthorsLocked(s)'
        BY <1>1, <1>2, <1>3, <2>1 DEF FreshInv, AuthorsLocked
    <2>4. NamesLocked(s)'
        BY <1>1, <1>2, <1>3, <2>1, <2>2 DEF FreshInv, NamesLocked
    <2>5. TviewLocked(s)'
        BY <1>1, <1>2, <1>3, <2>1, <2>2 DEF FreshInv, TviewLocked
    <2> QED
        BY <2>3, <2>4, <2>5
<1>24. Queues(s)' /\ Patching(s)'
    BY <1>1, <1>2, <1>5, <1>9, <1>10 DEF Queues, AtRest, Ended, Patching
<1>25. FreshInv(s)'
    BY <1>13, <1>20, <1>21, <1>22, <1>23, <1>24 DEF FreshInv
<1> QED
    BY <1>3, <1>11, <1>25, StaysFresh

\* A name patched in is the one the session wrote: the row is its view's.
LEMMA NamePatched ==
    ASSUME NEW row \in Row, NEW u \in User, NEW v, NEW s, row.names[u] = s
    PROVE  [NameTo(row, u, v) EXCEPT !.names = [x \in Source |-> IF x \in {u} THEN s ELSE @[x]]] = row
<1> DEFINE patched == [x \in Source |-> IF x \in {u} THEN s ELSE NameTo(row, u, v).names[x]]
<1>1. row \in [by : SUBSET User, names : [Source -> Name]] /\ u \in Source
    BY DEF Row, Source
<1>2. NameTo(row, u, v) = [by |-> row.by, names |-> [row.names EXCEPT ![u] = v]]
    BY <1>1 DEF NameTo
<1>3. patched = row.names
    BY <1>1, <1>2
<1>4. [NameTo(row, u, v) EXCEPT !.names = patched] = [by |-> row.by, names |-> patched]
    BY <1>2
<1> QED
    BY <1>1, <1>3, <1>4

\* The fan-out's UPDATE has found every row that shows the user, and patches those.
LEMMA FannedOutFresh ==
    ASSUME IInv, IInv', FInv, way # "embed", NEW s \in Session, FannedOut(s)
    PROVE  FInv'
<1> DEFINE u == Statement(s).on
           db == Latest(s)
           hit == {i \in work[s].target : rowLock[i] = s /\ i[2] \in Embedding(db, u)}
           w == [work[s] EXCEPT !.fan = {}, !.target = {}]
           row == [i \in Item |-> IF i \in hit THEN PatchedRow(s, i, {u}) ELSE own[s][i]]
           new == Latest(s)'
<1>1. pc[s] = "fanned" /\ rows[s] = {} /\ need[s] = {}
    BY DEF FannedOut, Step
<1>2. /\ TypeOK /\ SessionInv(s) /\ WorkOK(work[s]) /\ FreshInv(s) /\ Queues(s) /\ Patching(s) /\ Names(s)
      /\ StoreFresh /\ OneTview(s) /\ RowsFresh(s)
    BY <1>1, AtStep DEF Ended, FreshInv
<1>3. work[s].fan = {u} /\ way = "fanout" /\ work[s].post = {} /\ ~work[s].all /\ own[s][<<"source", u>>] = s
      /\ u \in User
    BY <1>1, <1>2 DEF Patching, WorkOK
<1>4. Goes(s, "fanned", "flush", {}, {}, w)
    BY DEF FannedOut, Goes, Running, Steps, Ended
<1>5. /\ own' = [own EXCEPT ![s] = row] /\ ~Refused(s)
      /\ UNCHANGED <<store, writer, snapshot, level, way, rowLock, script, locks, links>>
    BY DEF FannedOut, Step
<1>6. DOMAIN row = Item /\ \A i \in Item : row[i] = IF i \in hit THEN PatchedRow(s, i, {u}) ELSE own[s][i]
    OBVIOUS
<1> HIDE DEF row
<1>7. \A i \in Item : own'[s][i] = IF i \in hit THEN PatchedRow(s, i, {u}) ELSE own[s][i]
    BY <1>2, <1>5, <1>6 DEF TypeOK
<1>8. \A i \in hit : i \in TvPost /\ i \in Tv /\ i \in Item /\ i[2] \in Post /\ i = T(i[2])
    <2>1. \A i \in hit : i[2] \in Post
        BY FoundPosts
    <2>2. \A i \in TvUser : i[2] \notin Post
        BY Kinds, KeyAssumption
    <2> QED
        BY <1>2, <2>1, <2>2, Kinds DEF OneTview, Tv, T
<1>9. \A i \in Item \ Tv : own'[s][i] = own[s][i]
    BY <1>7, <1>8
<1>10. /\ \A p \in Post : /\ AuthorsIn(new, p) = AuthorsIn(db, p)
                          /\ ReadBy(new, p) = ReadBy(db, p)
                          /\ ReadBy(db, p) \subseteq Item \ Tv
                          /\ Shown(new, p) = Shown(db, p)
       /\ Links(s)' /\ Names(s)' /\ InSnapshot(s)' = InSnapshot(s)
       /\ Statement(s)' = Statement(s) /\ Written(s)' = Written(s)
    BY <1>1, <1>5, <1>9, SameBases DEF Ended
<1>11. w.post = {} /\ ~w.all /\ w.fan = {} /\ w.user = {} /\ w.patched = {}
    BY <1>2, <1>3 DEF WorkOK, Queues
<1> HIDE DEF w
<1>12. pc'[s] = "flush" /\ work'[s] = w /\ Turned(s, "flush", {}, {}, w)
    BY <1>4, GoesTo
<1>13. Alone(s)
    BY <1>2, <1>5, <1>12 DEF TypeOK, Alone, Turned
<1>14. Owed(s) = {} /\ Renamed(s) = {u} /\ Owed(s)' = {} /\ Renamed(s)' = {}
    BY <1>1, <1>3, <1>11, <1>12 DEF Owed, Renamed
<1>15. db[<<"source", u>>] = s /\ u \in Source
    <2>1. u \in Source /\ <<"source", u>> \in Item /\ s # None
        BY <1>3, Kinds, Apart DEF Source
    <2> QED
        BY <1>2, <1>3, <2>1, Sees
<1>16. ASSUME NEW p \in Post, u \in AuthorsIn(db, p)
       PROVE  T(p) \in hit /\ new[T(p)] = Shown(db, p)
    <2>1. p \in Mapped(db, u)
        BY <1>16 DEF Mapped
    <2>2. /\ Shown(db, p) \in Row /\ db[T(p)] # Absent /\ u \in db[T(p)].by
          /\ \E v \in Name : db[T(p)] = NameTo(Shown(db, p), u, v)
        BY <1>1, <1>3, <2>1, FanRow
    <2>3. p \in Embedding(db, u)
        BY <2>2 DEF Embedding, T
    <2>4. T(p) \in work[s].target
        <3>1. CASE InSnapshot(s)
            <4>1. Embedding(db, u) \subseteq Embedding(Seen(s), u)
                BY <1>1, <1>5, <3>1 DEF Refused
            <4>2. work[s].target = {"tv_post"} \X Embedding(Seen(s), u)
                BY <1>1, <1>2, <3>1 DEF Patching
            <4> QED
                BY <2>3, <4>1, <4>2 DEF T
        <3>2. CASE ~InSnapshot(s)
            BY <1>1, <1>2, <2>1, <3>2 DEF Patching
        <3> QED
            BY <3>1, <3>2
    <2>5. rowLock[T(p)] = s
        BY <1>1, <1>2, <2>1, <2>4 DEF Patching
    <2>6. T(p) \in hit
        BY <2>3, <2>4, <2>5, Posts
    <2>7. PatchedRow(s, T(p), {u}) = Shown(db, p)
        <3>1. PICK v \in Name : db[T(p)] = NameTo(Shown(db, p), u, v)
            BY <2>2
        <3>2. Shown(db, p).names[u] = s
            <4>1. <<"source", u>> \in ReadBy(db, p)
                BY <1>16 DEF ReadBy
            <4>2. db[<<"post", p>>] # Absent
                BY <1>16 DEF AuthorsIn
            <4> QED
                BY <1>15, <4>1, <4>2 DEF Shown
        <3>3. T(p)[1] # "tv_user"
            BY Posts
        <3>4. PatchedRow(s, T(p), {u}) =
                 [db[T(p)] EXCEPT !.names = [x \in Source |-> IF x \in {u} THEN s ELSE @[x]]]
            BY <3>3 DEF PatchedRow
        <3> HIDE DEF db, u
        <3> QED
            BY <1>3, <2>2, <3>1, <3>2, <3>4, NamePatched
    <2>8. Shown(db, p) # None
        BY <2>2, MarkerAssumption
    <2>9. own'[s][T(p)] = Shown(db, p) /\ T(p) \in Item
        BY <1>7, <2>6, <2>7, Posts
    <2>10. new[T(p)] = Shown(db, p)
        BY <2>8, <2>9 DEF Latest, With
    <2> QED
        BY <2>6, <2>10
<1>17. ASSUME NEW p \in Post, u \notin AuthorsIn(db, p)
       PROVE  new[T(p)] = Shown(db, p)
    <2>1. db[T(p)] = Shown(db, p)
        BY <1>2, <1>14, <1>17 DEF RowsFresh
    <2>2. T(p) \notin hit
        <3> SUFFICES ASSUME T(p) \in hit PROVE FALSE
            OBVIOUS
        <3>1. p \in Embedding(db, u)
            BY Posts
        <3>2. db[T(p)] # Absent /\ u \in db[T(p)].by
            BY <3>1 DEF Embedding, T
        <3>3. db[T(p)].by = AuthorsIn(db, p)
            BY <2>1, <3>2 DEF Shown
        <3> QED
            BY <1>17, <3>2, <3>3
    <2>3. own'[s][T(p)] = own[s][T(p)] /\ T(p) \in Item
        BY <1>7, <2>2, Posts
    <2>4. new[T(p)] = db[T(p)]
        BY <1>5, <2>3 DEF Latest, With
    <2> QED
        BY <2>1, <2>4
<1>18. ReadersHeld(s)'
    <2> SUFFICES ASSUME NEW p \in Post, NEW i \in ReadBy(db, p), own[s][i] # None
                 PROVE  rowLock[T(p)] = s
        BY <1>5, <1>9, <1>10, <1>14 DEF ReadersHeld
    <2>1. CASE u \in AuthorsIn(db, p)
        BY <1>16, <2>1
    <2>2. CASE u \notin AuthorsIn(db, p)
        <3>1. i \notin {"source"} \X {u}
            BY <1>3, <2>2, NamesRead
        <3> QED
            BY <1>2, <1>14, <3>1 DEF FreshInv, ReadersHeld
    <2> QED
        BY <2>1, <2>2
<1>19. RowsFresh(s)'
    <2>1. \A p \in Post : new[T(p)] = Shown(new, p)
        BY <1>10, <1>16, <1>17
    <2> QED
        BY <1>14, <2>1 DEF RowsFresh
<1>20. AuthorsLocked(s)' /\ NamesLocked(s)' /\ TviewLocked(s)'
    <2>1. /\ \A p \in Post : own'[s][<<"post", p>>] = own[s][<<"post", p>>]
          /\ \A x \in Source : own'[s][<<"source", x>>] = own[s][<<"source", x>>]
        BY <1>9, Kinds
    <2>2. Conf \in Source /\ User \subseteq Source /\ Post \subseteq Source
        BY DEF Source
    <2>3. AuthorsLocked(s)'
        BY <1>1, <1>2, <1>5, <2>1 DEF FreshInv, AuthorsLocked
    <2>4. NamesLocked(s)'
        BY <1>1, <1>2, <1>5, <2>1, <2>2 DEF FreshInv, NamesLocked
    <2>5. TviewLocked(s)'
        BY <1>1, <1>2, <1>5, <2>1, <2>2 DEF FreshInv, TviewLocked
    <2> QED
        BY <2>3, <2>4, <2>5
<1>21. Queues(s)' /\ Patching(s)' /\ Computed(s)'
    BY <1>11, <1>12 DEF Queues, AtRest, Ended, Patching, Computed
<1>22. FreshInv(s)'
    BY <1>10, <1>18, <1>19, <1>20, <1>21 DEF FreshInv
<1> QED
    BY <1>5, <1>13, <1>22, StaysFresh

\* A statement writes its row: the posts that read it are owed a refresh, or,
\* for a name, those the trigger will map or patch.
LEMMA WriteFresh ==
    ASSUME IInv, IInv', FInv, way # "embed", NEW s \in Session, Write(s)
    PROVE  FInv'
<1> DEFINE y == Written(s)
           st == Statement(s)
           u == st.on
           value == NewValue(s)
           db == Latest(s)
           new == Latest(s)'
<1>1. pc[s] = "write" /\ need[s] = {}
    BY DEF Write, Step
<1>2. /\ TypeOK /\ SessionInv(s) /\ FreshInv(s) /\ Queues(s) /\ Names(s) /\ StoreFresh
      /\ st \in StatementType /\ script[s] # <<>> /\ way \in {"mapping", "fanout"}
    BY <1>1, AtStep, Within DEF Ended
<1>3. y \in Item \ Tv /\ rowLock[y] = s
    BY <1>1, <1>2, WrittenType DEF TypeOK, SessionInv, Scripted, Write, Step
<1>4. /\ st.op \in {"rename", "adduser", "insert", "repoint", "delete", "comment", "configure"}
      /\ st.op \in {"insert", "repoint", "delete"} => u \in Post /\ y = <<"post", u>> /\ u \notin User
      /\ st.op = "comment" => u \in Post /\ y = <<"source", u>> /\ u \notin User
      /\ st.op = "configure" => u = Conf /\ y = <<"source", Conf>>
      /\ st.op \in {"rename", "adduser"} => u \in User /\ y = <<"source", u>> /\ u \notin Post
      /\ Conf \notin User \cup Post
      /\ \A p \in Post : y \in Own(p) <=>
            \/ st.op \in {"insert", "repoint", "delete", "comment"} /\ p = u
            \/ st.op = "configure"
      /\ \A x \in User : y = <<"source", x>> <=> st.op \in {"rename", "adduser"} /\ x = u
    BY <1>2, WrittenReads
<1>5. /\ UNCHANGED <<store, snapshot, level, way, script, locks, rowLock>>
      /\ need'[s] = ChangedValues(s) /\ links'[s] = (links[s] \/ ChangesLink(s))
      /\ pc'[s] = "find" /\ work'[s] = NoWork
      /\ \A x \in Session \ {s} :
            /\ pc'[x] = pc[x] /\ work'[x] = work[x] /\ need'[x] = need[x] /\ rows'[x] = rows[x]
            /\ own'[x] = own[x] /\ links'[x] = links[x]
      /\ \A i \in Item : own'[s][i] = IF i = y THEN value ELSE own[s][i]
    <2>1. rowLock' = rowLock
        BY <1>2, <1>3 DEF Write, TypeOK
    <2>2. /\ need'[s] = ChangedValues(s) /\ links'[s] = (links[s] \/ ChangesLink(s))
          /\ pc'[s] = "find" /\ work'[s] = NoWork
          /\ \A x \in Session \ {s} :
                /\ pc'[x] = pc[x] /\ work'[x] = work[x] /\ need'[x] = need[x] /\ rows'[x] = rows[x]
                /\ links'[x] = links[x]
        BY <1>2 DEF Write, Step, Locking, Worked, TypeOK
    <2>3. own'[s] = [own[s] EXCEPT ![y] = value] /\ \A x \in Session \ {s} : own'[x] = own[x]
        BY <1>2 DEF Write, TypeOK
    <2>4. \A i \in Item : own'[s][i] = IF i = y THEN value ELSE own[s][i]
        BY <1>2, <1>3, <2>3 DEF TypeOK
    <2> QED
        BY <2>1, <2>2, <2>3, <2>4 DEF Write, Step
<1>6. Alone(s)
    BY <1>5 DEF Alone
<1>7. value # None /\ (st.op \in {"rename", "adduser", "comment", "configure"} => value = s)
    <2>1. st.to \in Authors /\ Absent \in Authors
        BY <1>2 DEF StatementType, Authors
    <2>2. value \in {st.to, Absent, s} /\ (st.op \in {"rename", "adduser", "comment", "configure"} => value = s)
        BY DEF NewValue
    <2> QED
        BY <2>1, <2>2, MarkerAssumption, Apart
<1>8. /\ Statement(s)' = st /\ Written(s)' = y /\ InSnapshot(s)' = InSnapshot(s)
    BY <1>5 DEF Statement, Written, InSnapshot
<1>9. \A i \in Item : i # y => new[i] = db[i]
    BY <1>5 DEF Latest, With
<1>10. /\ Owed(s) = {} /\ Renamed(s) = {}
       /\ Owed(s)' = {p \in Post : y \in Own(p)} /\ Renamed(s)' = {x \in User : y = <<"source", x>>}
       /\ Patches(s)' => way = "fanout" /\ st.op = "rename"
    BY <1>1, <1>2, <1>5, <1>8 DEF Owed, Renamed, Patches, Queues, AtRest
<1>11. /\ \A p \in Post : AuthorsIn(db, p) \subseteq User
       /\ \A x \in Source : db[<<"source", x>>] \in Name
    BY <1>2, Sees
<1> HIDE DEF y, st, u, value, db, new
<1>12. ASSUME NEW p \in Post \ Owed(s)'
       PROVE  /\ AuthorsIn(new, p) = AuthorsIn(db, p) /\ ReadBy(new, p) = ReadBy(db, p)
              /\ ReadBy(db, p) \subseteq Item /\ new[T(p)] = db[T(p)] /\ db[T(p)] = Shown(db, p)
              /\ \A i \in ReadBy(db, p) : i = y <=> \E x \in AuthorsIn(db, p) \cap Renamed(s)' : i = <<"source", x>>
    <2>1. y \notin Own(p)
        BY <1>10, <1>12
    <2>2. <<"post", p>> \in Item /\ <<"post", p>> # y /\ T(p) \in Item /\ T(p) # y
        BY <1>3, <2>1, Kinds, Posts DEF Own
    <2>3. AuthorsIn(new, p) = AuthorsIn(db, p) /\ new[T(p)] = db[T(p)]
        BY <1>9, <2>2 DEF AuthorsIn
    <2>4. ReadBy(new, p) = ReadBy(db, p) /\ ReadBy(db, p) \subseteq Item
        BY <1>11, <2>3, ReadItems DEF ReadBy
    <2>5. db[T(p)] = Shown(db, p)
        BY <1>2, <1>10 DEF FreshInv, RowsFresh, db
    <2>6. \A i \in ReadBy(db, p) : i = y => \E x \in AuthorsIn(db, p) : i = <<"source", x>>
        BY <2>1 DEF ReadBy
    <2>7. \A x \in AuthorsIn(db, p) : y = <<"source", x>> <=> x \in Renamed(s)'
        BY <1>10, <1>11
    <2> QED
        BY <2>3, <2>4, <2>5, <2>6, <2>7
<1>13. ReadersHeld(s)'
    <2> SUFFICES ASSUME NEW p \in Post \ Owed(s)', NEW i \in ReadBy(new, p) \ ({"source"} \X Renamed(s)'),
                        own'[s][i] # None
                 PROVE  rowLock[T(p)] = s
        BY <1>5 DEF ReadersHeld, new
    <2>1. i \in ReadBy(db, p) /\ i \in Item
        BY <1>12
    <2>2. i # y
        BY <1>12, <2>1
    <2>3. own[s][i] # None
        BY <1>5, <2>1, <2>2
    <2> QED
        BY <1>2, <1>10, <2>1, <2>3 DEF FreshInv, ReadersHeld, db
<1>14. RowsFresh(s)'
    <2> SUFFICES ASSUME NEW p \in Post \ Owed(s)'
                 PROVE  LET late == AuthorsIn(new, p) \cap Renamed(s)'
                        IN  /\ late = {} => new[T(p)] = Shown(new, p)
                            /\ Patches(s)' => \A x \in late : \E v \in Name : new[T(p)] = NameTo(Shown(new, p), x, v)
        BY DEF RowsFresh, new
    <2>1. CASE AuthorsIn(new, p) \cap Renamed(s)' = {}
        <3>1. \A i \in ReadBy(db, p) : new[i] = db[i]
            BY <1>9, <1>12, <2>1
        <3>2. Shown(new, p) = Shown(db, p)
            BY <3>1, SameRow
        <3> QED
            BY <1>12, <2>1, <3>2
    <2>2. ASSUME NEW x \in AuthorsIn(new, p) \cap Renamed(s)'
          PROVE  \E v \in Name : new[T(p)] = NameTo(Shown(new, p), x, v)
        <3>1. x \in User /\ x \in AuthorsIn(new, p) /\ y = <<"source", x>>
            BY <1>10, <2>2
        <3>2. \A i \in ReadBy(new, p) : i # <<"source", x>> => db[i] = new[i]
            BY <1>9, <1>12, <3>1
        <3>3. db[<<"source", x>>] \in Name
            BY <1>11, <3>1 DEF Source
        <3>4. \E v \in Name : Shown(db, p) = NameTo(Shown(new, p), x, v)
            BY <3>1, <3>2, <3>3, RenamedRow
        <3> QED
            BY <1>12, <3>4
    <2> QED
        BY <2>1, <2>2
<1>15. AuthorsLocked(s)'
    <2> SUFFICES ASSUME NEW p \in Post, own'[s][<<"post", p>>] \notin {None, Absent},
                        NEW x \in own'[s][<<"post", p>>]
                 PROVE  Reader(x) \in locks[s] \/ y = <<"post", p>>
        BY <1>5, <1>8 DEF AuthorsLocked
    <2>1. CASE y # <<"post", p>>
        <3>1. own'[s][<<"post", p>>] = own[s][<<"post", p>>]
            BY <1>5, <2>1, Kinds
        <3> QED
            BY <1>1, <1>2, <3>1 DEF FreshInv, AuthorsLocked
    <2> QED
        BY <2>1
<1>16. Links(s)'
    <2> SUFFICES ASSUME NEW p \in Post, own'[s][<<"post", p>>] # None PROVE links'[s]
        BY DEF Links
    <2>1. CASE y = <<"post", p>>
        <3>1. st.op \in {"insert", "repoint", "delete"}
            BY <1>4, <2>1
        <3>2. ChangesLink(s)
            BY <3>1 DEF ChangesLink, st
        <3> QED
            BY <1>5, <3>2
    <2>2. CASE y # <<"post", p>>
        <3>1. own'[s][<<"post", p>>] = own[s][<<"post", p>>]
            BY <1>5, <2>2, Kinds
        <3> QED
            BY <1>2, <1>5, <3>1 DEF FreshInv, Links
    <2> QED
        BY <2>1, <2>2
<1>17. NamesLocked(s)'
    <2> SUFFICES ASSUME NEW x \in User, own'[s][<<"source", x>>] # None, NEW k \in {Writer(x), Writer(IntentLock)}
                 PROVE  k \in locks[s] \/ (y = <<"source", x>> /\ k \in need'[s])
        BY <1>5, <1>8 DEF NamesLocked
    <2>1. CASE y = <<"source", x>>
        <3>1. st.op \in {"rename", "adduser"} /\ x = u
            BY <1>4, <2>1
        <3>2. ChangedValues(s) = ValueLocks("writer", "source", {x})
            BY <3>1 DEF ChangedValues, st, u
        <3>3. k \in ChangedValues(s)
            BY <3>2 DEF ValueLocks, Writer
        <3> QED
            BY <1>5, <2>1, <3>3
    <2>2. CASE y # <<"source", x>>
        <3>1. own'[s][<<"source", x>>] = own[s][<<"source", x>>]
            BY <1>5, <2>2, Kinds DEF Source
        <3> QED
            BY <1>1, <1>2, <3>1 DEF FreshInv, NamesLocked
    <2> QED
        BY <2>1, <2>2
<1>18. TviewLocked(s)'
    <2>1. ASSUME NEW p \in Post, NEW i \in {<<"post", p>>, <<"source", p>>}, own'[s][i] # None
          PROVE  Intent(T(p)) \in locks[s] \/ y = i
        <3>1. i \in Item
            BY Kinds DEF Source
        <3> QED
            BY <1>1, <1>2, <1>5, <2>1, <3>1 DEF FreshInv, TviewLocked
    <2>2. ASSUME own'[s][<<"source", Conf>>] # None
          PROVE  Whole \in locks[s] \/ y = <<"source", Conf>>
        <3>1. <<"source", Conf>> \in Item
            BY Kinds DEF Source
        <3> QED
            BY <1>1, <1>2, <1>5, <2>2, <3>1 DEF FreshInv, TviewLocked
    <2> QED
        BY <1>5, <1>8, <2>1, <2>2 DEF TviewLocked
<1>19. Queues(s)' /\ Computed(s)'
    BY <1>5 DEF Queues, Computed, AtRest, Ended, NoWork
<1>20. Patching(s)'
    <2>1. st.op = "rename" => own'[s][<<"source", u>>] = s
        BY <1>3, <1>4, <1>5, <1>7
    <2> QED
        BY <1>5, <1>8, <2>1 DEF Patching, NoWork, st, u
<1>21. Names(s)'
    <2>1. \A x \in Source : own'[s][<<"source", x>>] \in Name \cup {None}
        <3> SUFFICES ASSUME NEW x \in Source PROVE own'[s][<<"source", x>>] \in Name \cup {None}
            OBVIOUS
        <3>1. CASE y = <<"source", x>>
            <4>1. value = s
                BY <1>4, <1>7, <3>1
            <4> QED
                BY <1>3, <1>5, <3>1, <4>1 DEF Name
        <3>2. CASE y # <<"source", x>>
            <4>1. own'[s][<<"source", x>>] = own[s][<<"source", x>>]
                BY <1>5, <3>2, Kinds
            <4> QED
                BY <1>2, <4>1 DEF Names
        <3> QED
            BY <3>1, <3>2
    <2>2. \A x \in Source : snapshot[s] # None \/ InSnapshot(s) => snapshot[s].rows[<<"source", x>>] \in Name
        BY <1>1, <1>2 DEF Names, Ended
    <2>3. snapshot'[s] = snapshot[s] /\ (InSnapshot(s)' <=> InSnapshot(s))
        BY <1>5, <1>8
    <2> QED
        BY <2>1, <2>2, <2>3 DEF Names
<1>22. FreshInv(s)'
    BY <1>13, <1>14, <1>15, <1>16, <1>17, <1>18, <1>19, <1>20, <1>21 DEF FreshInv
<1> QED
    BY <1>5, <1>6, <1>22, StaysFresh

-----------------------------------------------------------------------------
(* The invariant holds. *)

\* The TVIEWs are filled as they are created.
LEMMA InitFresh == Init => FInv
<1> SUFFICES ASSUME Init, way # "embed" PROVE StoreFresh /\ \A s \in Session : FreshInv(s)
    BY DEF FInv
<1>1. IInv
    BY InitOK
<1>2. PICK start \in Starts : store = Filled(start)
    BY DEF Init
<1> DEFINE base == [i \in Item |->
                      CASE i[1] = "source" /\ i[2] \notin User -> Old
                        [] i[1] \in {"source", "tv_user"} /\ i[2] \in User -> start.users[i[2]]
                        [] i[1] = "post" -> start.posts[i[2]]
                        [] OTHER -> Absent]
<1>3. store = [i \in Item |-> IF i[1] = "tv_post" THEN PostRow(base, i[2]) ELSE base[i]]
    BY <1>2 DEF Filled
<1>4. \A x \in Source : base[<<"source", x>>] \in Name
    <2> SUFFICES ASSUME NEW x \in Source PROVE base[<<"source", x>>] \in Name
        OBVIOUS
    <2>1. <<"source", x>> \in Item
        BY Kinds
    <2>2. x \notin User => base[<<"source", x>>] = Old
        BY <2>1
    <2>3. x \in User => base[<<"source", x>>] = start.users[x]
        BY <2>1
    <2> QED
        BY <2>2, <2>3, ScriptAssumption DEF Name
<1>5. \A p \in Post : base[<<"post", p>>] = start.posts[p]
    BY Kinds
<1> HIDE DEF base
<1>6. \A x \in Source : store[<<"source", x>>] = base[<<"source", x>>]
    BY <1>3, Kinds
<1>7. ASSUME NEW p \in Post
      PROVE  /\ store[T(p)] = Shown(store, p)
             /\ ReadBy(store, p) \subseteq Item
    <2>1. store[T(p)] = Shown(base, p)
        BY <1>3, Posts, ShownRow
    <2>2. base[<<"post", p>>] \in Authors
        BY <1>5, ScriptAssumption
    <2>3. ReadBy(base, p) \subseteq Item \ Tv
        <3>1. AuthorsIn(base, p) \subseteq User
            BY <2>2 DEF AuthorsIn, Authors
        <3> QED
            BY <3>1, ReadItems
    <2>4. \A i \in Item \ Tv : i[1] # "tv_post"
        BY DEF Item, Tv, TvPost
    <2>5. \A i \in ReadBy(base, p) : store[i] = base[i]
        BY <1>3, <2>3, <2>4
    <2>6. Shown(store, p) = Shown(base, p) /\ ReadBy(store, p) = ReadBy(base, p)
        BY <2>5, SameRow
    <2> QED
        BY <2>1, <2>3, <2>6
<1>8. StoreFresh
    BY <1>4, <1>6, <1>7 DEF StoreFresh
<1>9. ASSUME NEW s \in Session PROVE FreshInv(s)
    <2>1. /\ pc[s] = "idle" /\ work[s] = NoWork /\ snapshot[s] = None /\ rows[s] = {} /\ need[s] = {}
          /\ \A i \in Item : own[s][i] = None
        BY DEF Init
    <2>2. /\ NoWork.fan = {} /\ NoWork.post = {} /\ NoWork.all = FALSE /\ NoWork.user = {}
          /\ NoWork.patched = {}
        BY DEF NoWork
    <2>3. Owed(s) = {} /\ Renamed(s) = {} /\ ~Patches(s)
        BY <2>1, <2>2 DEF Owed, Renamed, Patches
    <2>4. \A i \in Item : Latest(s)[i] = store[i]
        BY <2>1 DEF Latest, With
    <2>5. ASSUME NEW p \in Post
          PROVE  ReadBy(Latest(s), p) \subseteq Item /\ Latest(s)[T(p)] = Shown(Latest(s), p)
        <3>1. \A i \in ReadBy(store, p) : Latest(s)[i] = store[i]
            BY <1>7, <2>4
        <3>2. ReadBy(Latest(s), p) = ReadBy(store, p) /\ Shown(Latest(s), p) = Shown(store, p)
            BY <3>1, SameRow
        <3> QED
            BY <1>7, <2>4, <3>2, Posts
    <2>6. ReadersHeld(s) /\ RowsFresh(s)
        <3>1. ReadersHeld(s)
            BY <2>1, <2>3, <2>5 DEF ReadersHeld
        <3>2. RowsFresh(s)
            BY <2>3, <2>5 DEF RowsFresh
        <3> QED
            BY <3>1, <3>2
    <2>7. AuthorsLocked(s) /\ Links(s) /\ NamesLocked(s) /\ TviewLocked(s)
        BY <2>1, Kinds DEF AuthorsLocked, Links, NamesLocked, TviewLocked, Source
    <2>8. Queues(s) /\ Patching(s) /\ Computed(s)
        BY <2>1, <2>2 DEF Queues, Patching, Computed
    <2>9. Names(s)
        BY <2>1, Kinds DEF Names
    <2> QED
        BY <2>6, <2>7, <2>8, <2>9 DEF FreshInv
<1> QED
    BY <1>8, <1>9

\* Each step keeps the invariant.
LEMMA StepFresh ==
    ASSUME IInv, IInv', FInv, [Next]_vars
    PROVE  FInv'
<1>1. way' = way
    BY WayStays
<1>2. CASE way = "embed"
    BY <1>1, <1>2 DEF FInv
<1>3. CASE way # "embed" /\ UNCHANGED vars
    <2>1. StoreFresh'
        BY <1>3 DEF vars, FInv, StoreFresh
    <2>2. ASSUME NEW s \in Session PROVE FreshInv(s)'
        <3>1. FreshInv(s) /\ Alone(s) /\ UNCHANGED <<store, way, rowLock, own, locks, links>>
            BY <1>3 DEF FInv, vars, Alone
        <3>2. /\ pc' = pc /\ work' = work /\ rows' = rows /\ need' = need /\ snapshot' = snapshot
              /\ script' = script /\ level' = level
            BY <1>3 DEF vars
        <3>3. /\ Latest(s)' = Latest(s) /\ Seen(s)' = Seen(s) /\ InSnapshot(s)' = InSnapshot(s)
              /\ Statement(s)' = Statement(s) /\ Written(s)' = Written(s)
            BY <3>1, <3>2 DEF Latest, Seen, With, InSnapshot, Statement, Written
        <3>4. Renamed(s)' = Renamed(s) /\ Owed(s)' = Owed(s) /\ Patches(s)' = Patches(s)
            BY <3>1, <3>2, <3>3 DEF Renamed, Owed, Patches
        <3>5. ReadersHeld(s)' /\ RowsFresh(s)'
            BY <3>1, <3>3, <3>4 DEF FreshInv, ReadersHeld, RowsFresh
        <3>6. AuthorsLocked(s)' /\ Links(s)' /\ NamesLocked(s)' /\ TviewLocked(s)'
            BY <3>1, <3>2, <3>3 DEF FreshInv, AuthorsLocked, Links, NamesLocked, TviewLocked
        <3>7. Queues(s)'
            BY <3>1, <3>2 DEF FreshInv, Queues
        <3>8. Patching(s)' /\ Computed(s)' /\ Names(s)'
            BY <3>1, <3>2, <3>3 DEF FreshInv, Patching, Computed, Names
        <3> QED
            BY <3>5, <3>6, <3>7, <3>8 DEF FreshInv
    <2> QED
        BY <2>1, <2>2 DEF FInv
<1>4. ASSUME way # "embed", NEW s \in Session, SessionStep(s) PROVE FInv'
    BY <1>4, StartFresh, LockRowFresh, LockValueFresh, WriteFresh, WriteNothingFresh, FindFresh,
       FlushDoneFresh, FanoutFresh, FannedOutFresh, RefreshAllFresh, ReconcileFresh, ApplyKeysFresh,
       LockReadsFresh, LockOrderFresh, GuardFresh, PatchFresh, LockKeysFresh, LockCreatedFresh,
       ComputeFresh, UpsertFresh, CheckFresh, NoLookup, CommitFresh, FailFresh
       DEF SessionStep, SerializationFailure, DetectDeadlock
<1> QED
    BY <1>2, <1>3, <1>4 DEF Next

\* What commits is fresh, whatever the sessions write at once, in whatever order
\* their steps come, at either isolation level: every row of tv_post is the one
\* its view computes from the rows committed with it. That is for renames that
\* reach posts by a mapping query or by a fan-out patch; where tv_post embeds
\* tv_user, run recreated_row shows a row that is not.
THEOREM CommitsAreFresh == Spec => [](way # "embed" => CommittedIsFresh)
<1>1. Init => FInv
    BY InitFresh
<1>2. IInv /\ IInv' /\ FInv /\ [Next]_vars => FInv'
    BY StepFresh
<1>3. FInv => (way # "embed" => CommittedIsFresh)
    <2> SUFFICES ASSUME FInv, way # "embed", NEW i \in TvPost
                 PROVE  store[i] = ViewRow(store, i)
        BY DEF CommittedIsFresh
    <2>1. i[2] \in Post /\ i = T(i[2]) /\ i[1] = "tv_post"
        BY Kinds DEF T
    <2>2. store[i] = Shown(store, i[2])
        BY <2>1 DEF FInv, StoreFresh
    <2> QED
        BY <2>1, <2>2, ShownRow DEF ViewRow
<1> QED
    BY <1>1, <1>2, <1>3, InvHolds, PTL DEF Spec
=============================================================================
