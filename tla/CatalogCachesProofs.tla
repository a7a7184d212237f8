------------------------- MODULE CatalogCachesProofs -------------------------
(***************************************************************************)
(* Theorems about CatalogCaches: for any number of DDL statements, in any  *)
(* of the backends, a backend uses no memo that differs from the catalog,  *)
(* and none that keeps a change rolled back.                               *)
(***************************************************************************)
EXTENDS CatalogCaches, SequenceTheorems, TLAPS

Change == Rels \X Nat
Values == SUBSET Change

Caches ==
  [own : Seq(Values), inbox : SUBSET Rels,
   load : [of : Memos \cup {"none"}, found : Values \cup {Unknown}],
   memo : [Memos -> Values \cup {Unknown}], watched : SUBSET Rels, catalogWatched : BOOLEAN,
   bumped : BOOLEAN, changedInXact : BOOLEAN, matched : BOOLEAN]

TypeOK ==
  /\ committed \in Values /\ prepared \in Values /\ theirs \in Values /\ changes \in Nat
  /\ backend \in Caches
  /\ Len(backend.own) \in 0..2

(***************************************************************************)
(* What is remembered, or being loaded, of a relation that is watched is   *)
(* what is visible of it, unless a message about it is on its way or the   *)
(* generation has moved.  All of it is about that relation.                *)
(***************************************************************************)
Watchable == Memos \ {"schema"}
Loading(k) == backend.load.of = k
Loaded(k) == backend.load.of = k /\ backend.load.found # Unknown
Settled(k) == ~backend.bumped /\ Relation[k] \notin backend.inbox

MemosAreCurrent ==
  \A k \in Watchable :
    Settled(k) =>
      /\ backend.memo[k] # Unknown => backend.memo[k] = Visible(Relation[k])
      /\ Loaded(k) => backend.load.found = Visible(Relation[k])

MemosAreWatched ==
  \A k \in Watchable :
    backend.memo[k] # Unknown \/ (Loading(k) /\ k # "computed") => Relation[k] \in backend.watched

\* COMPUTED is read of a table nobody else may change then.
LoadIsLocked ==
  Loading("computed") => "x" \notin backend.inbox /\ Of("x", prepared \cup theirs) = {}

MemosAreOfTheirs ==
  \A k \in Memos :
    /\ backend.memo[k] # Unknown => backend.memo[k] = Of(Relation[k], backend.memo[k])
    /\ Loaded(k) => backend.load.found = Of(Relation[k], backend.load.found)

ChangesAreMarked == Own # {} => backend.changedInXact

IInv ==
  /\ TypeOK /\ MemosAreCurrent /\ MemosAreWatched /\ LoadIsLocked /\ MemosAreOfTheirs
  /\ ChangesAreMarked

\* Nothing undone is remembered or loaded; unlike the above, a prepared change
\* of an extension would break it.
Seen == committed \cup Own
LoadIsVisible == \A k \in Memos : Loaded(k) => backend.load.found \subseteq Seen
Sound == NothingUndoneIsRemembered /\ LoadIsVisible
UInv == IInv /\ Sound

-----------------------------------------------------------------------------
(* Lemmas about the helpers. *)

LEMMA RelationIs ==
  /\ Relation["plans"] = "meta" /\ Relation["columns"] = "x"
  /\ Relation["computed"] = "x" /\ Relation["schema"] = "ext"
BY DEF Relation

LEMMA RelationType == \A k \in Memos : Relation[k] \in Rels
BY RelationIs DEF Memos, Rels

UnionOf(own) == UNION {own[i] : i \in DOMAIN own}

LEMMA UnionIs ==
  ASSUME NEW own \in Seq(Values), Len(own) \in 0..2
  PROVE  /\ UnionOf(own) \in Values
         /\ Len(own) = 0 => UnionOf(own) = {}
         /\ Len(own) = 1 => UnionOf(own) = own[1]
         /\ Len(own) = 2 => UnionOf(own) = own[1] \cup own[2]
BY DEF UnionOf, Values

LEMMA OwnIs ==
  ASSUME backend.own \in Seq(Values), Len(backend.own) \in 0..2
  PROVE  /\ Own \in Values
         /\ Len(backend.own) = 0 => Own = {}
         /\ Len(backend.own) = 1 => Own = backend.own[1]
         /\ Len(backend.own) = 2 => Own = backend.own[1] \cup backend.own[2]
BY DEF Own, Values

LEMMA CalledIs ==
  ASSUME NEW c \in Caches, NEW rels \in SUBSET Rels
  PROVE  /\ Called(c, rels) \in Caches
         /\ Called(c, rels).own = c.own /\ Called(c, rels).load = c.load
         /\ Called(c, rels).inbox = c.inbox /\ Called(c, rels).memo = c.memo
         /\ Called(c, rels).watched = c.watched
         /\ Called(c, rels).bumped <=> c.bumped \/ rels \cap c.watched # {}
         /\ Called(c, rels).changedInXact <=> c.changedInXact \/ rels # {}
BY DEF Called, Caches

LEMMA InvalidatedIs ==
  ASSUME NEW c \in Caches
  PROVE  /\ Invalidated(c) \in Caches
         /\ Invalidated(c).own = c.own /\ Invalidated(c).load = c.load
         /\ Invalidated(c).inbox = c.inbox /\ Invalidated(c).watched = c.watched
         /\ Invalidated(c).bumped = c.bumped /\ Invalidated(c).matched = c.matched
         /\ Invalidated(c).changedInXact = TRUE
         /\ \A k \in Memos : Invalidated(c).memo[k] = Unknown
BY DEF Invalidated, Caches

LEMMA WatchingIs ==
  ASSUME NEW c \in Caches, NEW rels \in SUBSET Rels
  PROVE  /\ Watching(c, rels) \in Caches
         /\ Watching(c, rels).own = c.own /\ Watching(c, rels).load = c.load
         /\ Watching(c, rels).inbox = c.inbox /\ Watching(c, rels).memo = c.memo
         /\ Watching(c, rels).watched = c.watched \cup rels
         /\ Watching(c, rels).bumped = c.bumped
         /\ Watching(c, rels).changedInXact = c.changedInXact
BY DEF Watching, Caches

LEMMA BegunIs ==
  ASSUME NEW c \in Caches
  PROVE  /\ Begun(c) \in Caches
         /\ Begun(c).own = IF c.own = <<>> THEN <<{}>> ELSE c.own
         /\ Begun(c).load = c.load /\ Begun(c).inbox = c.inbox /\ Begun(c).memo = c.memo
         /\ Begun(c).watched = c.watched /\ Begun(c).bumped = c.bumped
         /\ Begun(c).changedInXact = c.changedInXact
<1>1. <<{}>> \in Seq(Values)
  BY DEF Values
<1> QED BY <1>1 DEF Begun, Caches

\* A lookup starts to load k.
LEMMA LoadingIs ==
  ASSUME NEW c \in Caches, c.load = NoLoad, NEW k \in Memos
  PROVE  LET d == [c EXCEPT !.load.of = k]
         IN /\ d \in Caches /\ d.own = c.own /\ d.inbox = c.inbox
            /\ d.load.of = k /\ d.load.found = Unknown
            /\ d.watched = c.watched /\ d.bumped = c.bumped /\ d.memo = c.memo
            /\ d.changedInXact = c.changedInXact
<1> DEFINE l == [of |-> k, found |-> Unknown]
<1>1. l \in [of : Memos \cup {"none"}, found : Values \cup {Unknown}]
  OBVIOUS
<1>2. [c EXCEPT !.load.of = k] = [c EXCEPT !.load = l]
  BY DEF Caches, NoLoad
<1>3. l.of = k /\ l.found = Unknown
  OBVIOUS
<1> HIDE DEF l
<1> QED BY <1>1, <1>2, <1>3 DEF Caches

LEMMA SettledIs ==
  ASSUME NEW c \in Caches
  PROVE  LET d == [c EXCEPT !.bumped = FALSE]
         IN /\ d \in Caches /\ d.own = c.own /\ d.load = c.load /\ d.inbox = c.inbox
            /\ d.watched = c.watched /\ d.bumped = FALSE /\ d.memo = c.memo
            /\ d.changedInXact = c.changedInXact
BY DEF Caches

LEMMA CatalogIs ==
  ASSUME NEW c \in Caches
  PROVE  LET d == WatchCatalog(c)
         IN /\ d \in Caches /\ d.own = c.own /\ d.load = c.load /\ d.inbox = c.inbox
            /\ d.watched = c.watched \cup {"meta"} /\ d.bumped = c.bumped /\ d.memo = c.memo
            /\ d.changedInXact = c.changedInXact
BY DEF WatchCatalog, Watching, Caches, Rels

LEMMA SyncIs ==
  ASSUME NEW c \in Caches
  PROVE  LET d == SyncGeneration(c)
         IN /\ d \in Caches /\ d.own = c.own /\ d.load = c.load /\ d.inbox = c.inbox
            /\ d.watched = c.watched \cup {"meta"} /\ d.bumped = FALSE
            /\ c.changedInXact => d.changedInXact
            /\ ~c.bumped => d.memo = c.memo
            /\ c.bumped => \A k \in Memos : d.memo[k] = Unknown
<1>1. CASE c.bumped
  <2> DEFINE e == Invalidated(c)
             f == [e EXCEPT !.bumped = FALSE]
  <2>1. /\ e \in Caches /\ e.own = c.own /\ e.load = c.load /\ e.inbox = c.inbox
        /\ e.watched = c.watched /\ e.changedInXact = TRUE /\ \A k \in Memos : e.memo[k] = Unknown
    BY InvalidatedIs
  <2> HIDE DEF e
  <2>2. /\ f \in Caches /\ f.own = c.own /\ f.load = c.load /\ f.inbox = c.inbox
        /\ f.watched = c.watched /\ f.bumped = FALSE /\ f.memo = e.memo /\ f.changedInXact = TRUE
    BY <2>1, SettledIs
  <2>3. SyncGeneration(c) = WatchCatalog(f)
    BY <1>1 DEF SyncGeneration, e
  <2> HIDE DEF f
  <2> QED BY <1>1, <2>1, <2>2, <2>3, CatalogIs
<1>2. CASE ~c.bumped
  BY <1>2, CatalogIs DEF SyncGeneration, Caches
<1> QED BY <1>1, <1>2

\* An abort clears the memos if its transaction may have changed the catalog.
LEMMA ForgottenIs ==
  ASSUME NEW c \in Caches
  PROVE  LET d == ForgetOnAbort(c)
         IN /\ d \in Caches /\ d.own = c.own /\ d.load = c.load /\ d.inbox = c.inbox
            /\ d.watched = c.watched /\ d.bumped = c.bumped
            /\ d.changedInXact = c.changedInXact
            /\ \A k \in Memos : d.memo[k] \in {Unknown, c.memo[k]}
            /\ c.changedInXact => \A k \in Memos : d.memo[k] = Unknown
<1>1. CASE c.changedInXact
  <2>1. ForgetOnAbort(c) = Invalidated(c)
    BY <1>1 DEF ForgetOnAbort
  <2>2. c.changedInXact = TRUE
    BY <1>1 DEF Caches
  <2>3. /\ Invalidated(c) \in Caches
        /\ Invalidated(c).own = c.own /\ Invalidated(c).load = c.load
        /\ Invalidated(c).inbox = c.inbox /\ Invalidated(c).watched = c.watched
        /\ Invalidated(c).bumped = c.bumped /\ Invalidated(c).changedInXact = TRUE
        /\ \A k \in Memos : Invalidated(c).memo[k] = Unknown
    BY InvalidatedIs
  <2>4. Invalidated(c).changedInXact = c.changedInXact
    BY <2>2, <2>3
  <2> HIDE DEF Invalidated
  <2> QED BY <2>1, <2>3, <2>4
<1>2. CASE ~c.changedInXact
  BY <1>2 DEF ForgetOnAbort
<1> QED BY <1>1, <1>2

LEMMA SentType == \A set : Sent(set) \in SUBSET Rels
BY DEF Sent

LEMMA NotEmptyIs ==
  ASSUME NEW own \in Seq(Values), Len(own) \in 0..2, own # <<>>
  PROVE  Len(own) = 1 \/ Len(own) = 2
<1>1. Len(own) \in Nat /\ Len(own) # 0
  BY EmptySeq
<1>2. \A n \in Nat : n <= 2 /\ n # 0 => n = 1 \/ n = 2
  OBVIOUS
<1> QED BY <1>1, <1>2

\* DDL adds a change to the innermost subtransaction's.
LEMMA OwnAddedIs ==
  ASSUME NEW own \in Seq(Values), Len(own) = 1 \/ Len(own) = 2, NEW new \in Change
  PROVE  LET added == [own EXCEPT ![Len(own)] = @ \cup {new}]
         IN /\ added \in Seq(Values) /\ Len(added) = Len(own)
            /\ UnionOf(added) = UnionOf(own) \cup {new}
<1> DEFINE set == own[Len(own)] \cup {new}
           added == [own EXCEPT ![Len(own)] = set]
<1>1. Len(own) \in Nat /\ Len(own) \in 1..Len(own)
  <2>1. CASE Len(own) = 1
    BY <2>1
  <2>2. CASE Len(own) = 2
    BY <2>2
  <2> QED BY <2>1, <2>2
<1>2. own[Len(own)] \in Values
  BY <1>1
<1>3. set \in Values
  BY <1>2 DEF Values
<1> HIDE DEF set
<1>4. /\ added \in Seq(Values) /\ Len(added) = Len(own)
      /\ \A i \in 1..Len(own) : added[i] = IF i = Len(own) THEN set ELSE own[i]
  BY <1>1, <1>3
<1> HIDE DEF added
<1>5. UnionOf(added) = UnionOf(own) \cup {new}
  <2>1. CASE Len(own) = 1
    <3>1. UnionOf(added) = added[1] /\ UnionOf(own) = own[1]
      BY <2>1, <1>4, UnionIs
    <3> QED BY <2>1, <3>1, <1>4 DEF set
  <2>2. CASE Len(own) = 2
    <3>1. UnionOf(added) = added[1] \cup added[2] /\ UnionOf(own) = own[1] \cup own[2]
      BY <2>2, <1>4, UnionIs
    <3>2. added[1] = own[1] /\ added[2] = own[2] \cup {new}
      BY <2>2, <1>4 DEF set
    <3> QED BY <3>1, <3>2
  <2> QED BY <2>1, <2>2
<1> QED BY <1>4, <1>5 DEF set, added

LEMMA AddedIs ==
  ASSUME NEW c \in Caches, Len(c.own) = 1 \/ Len(c.own) = 2, NEW new \in Change
  PROVE  LET d == [c EXCEPT !.own[Len(c.own)] = @ \cup {new}]
         IN /\ d \in Caches /\ d.load = c.load /\ d.inbox = c.inbox
            /\ d.watched = c.watched /\ d.bumped = c.bumped /\ d.memo = c.memo
            /\ d.changedInXact = c.changedInXact
            /\ Len(d.own) = Len(c.own) /\ UnionOf(d.own) = UnionOf(c.own) \cup {new}
<1> DEFINE own == c.own
           added == [own EXCEPT ![Len(own)] = @ \cup {new}]
<1>1. own \in Seq(Values) /\ (Len(own) = 1 \/ Len(own) = 2)
  BY DEF Caches
<1>2. [c EXCEPT !.own[Len(c.own)] = @ \cup {new}] = [c EXCEPT !.own = added]
  BY DEF Caches
<1> HIDE DEF own
<1>3. added \in Seq(Values) /\ Len(added) = Len(own) /\ UnionOf(added) = UnionOf(own) \cup {new}
  BY <1>1, OwnAddedIs
<1> HIDE DEF added
<1>4. [c EXCEPT !.own = added].own = added
  BY DEF Caches
<1> QED BY <1>2, <1>3, <1>4 DEF Caches, own

-----------------------------------------------------------------------------
(* The steps. *)

LEMMA InitInv == Init => UInv
<1> SUFFICES ASSUME Init PROVE UInv
  OBVIOUS
<1>1. TypeOK
  BY DEF Init, TypeOK, Caches, Values, Unknown, NoLoad
<1>2. Own = {}
  BY <1>1, OwnIs DEF Init, TypeOK
<1> QED
  BY <1>1, <1>2 DEF Init, UInv, IInv, MemosAreCurrent, MemosAreWatched, LoadIsLocked, MemosAreOfTheirs,
       ChangesAreMarked, Sound, NothingUndoneIsRemembered, LoadIsVisible, Loading, Loaded, Watchable, NoLoad, Memos

LEMMA LookupInv == IInv /\ Lookup => IInv' /\ (Sound => Sound')
<1> SUFFICES ASSUME IInv, Lookup PROVE IInv' /\ (Sound => Sound')
  OBVIOUS
<1> USE DEF IInv
<1>1. PICK k \in Memos :
        LET c == SyncGeneration(Begun(backend))
        IN /\ backend.load = NoLoad
           /\ k = "computed" => CanWrite
           /\ Becomes(IF c.memo[k] # Unknown THEN c
                      ELSE [Watching(c, IF k = "columns" THEN {"x"} ELSE {}) EXCEPT !.load.of = k])
           /\ UNCHANGED <<committed, prepared, theirs, changes>>
  BY DEF Lookup
<1> DEFINE b == Begun(backend)
           c == SyncGeneration(b)
           w == Watching(c, IF k = "columns" THEN {"x"} ELSE {})
<1>2. /\ b \in Caches
      /\ b.own = IF backend.own = <<>> THEN <<{}>> ELSE backend.own
      /\ b.load = NoLoad /\ b.inbox = backend.inbox /\ b.memo = backend.memo
      /\ b.watched = backend.watched /\ b.bumped = backend.bumped
      /\ b.changedInXact = backend.changedInXact
  BY <1>1, BegunIs DEF TypeOK, NoLoad
<1> HIDE DEF b
<1>3. /\ c \in Caches /\ c.load = NoLoad /\ c.inbox = backend.inbox /\ c.own = b.own
      /\ c.watched = backend.watched \cup {"meta"} /\ c.bumped = FALSE
      /\ backend.changedInXact => c.changedInXact
      /\ ~backend.bumped => c.memo = backend.memo
      /\ backend.bumped => \A m \in Memos : c.memo[m] = Unknown
  BY <1>2, SyncIs
<1>w. /\ w \in Caches /\ w.load = NoLoad /\ w.inbox = backend.inbox /\ w.own = b.own
      /\ c.watched \subseteq w.watched /\ w.bumped = FALSE /\ w.memo = c.memo
      /\ backend.changedInXact => w.changedInXact
      /\ k = "columns" => "x" \in w.watched
  <2>1. (IF k = "columns" THEN {"x"} ELSE {}) \in SUBSET Rels
    BY DEF Rels
  <2> HIDE DEF c
  <2> QED BY <1>3, <2>1, WatchingIs
<1>4. /\ backend' \in Caches /\ backend'.memo = c.memo /\ backend'.inbox = backend.inbox
      /\ backend'.own = b.own /\ backend'.bumped = FALSE
      /\ backend.changedInXact => backend'.changedInXact
      /\ c.watched \subseteq backend'.watched
      /\ backend'.load.found = Unknown
      /\ backend'.load.of = "none" \/ (backend'.load.of = k /\ (k = "columns" => "x" \in backend'.watched))
  <2>1. backend' = IF c.memo[k] # Unknown THEN c ELSE [w EXCEPT !.load.of = k]
    BY <1>1 DEF Becomes, b
  <2> HIDE DEF c, w
  <2>2. CASE c.memo[k] # Unknown
    BY <1>3, <2>1, <2>2 DEF NoLoad
  <2>3. CASE c.memo[k] = Unknown
    BY <1>w, <2>1, <2>3, LoadingIs
  <2> QED BY <2>2, <2>3
<1> HIDE DEF c, w
<1>5. TypeOK'
  <2>1. Len(backend'.own) \in 0..2
    BY <1>2, <1>4 DEF TypeOK, Caches
  <2> QED BY <1>1, <1>4, <2>1 DEF TypeOK
<1>6. Own' = Own /\ \A r \in Rels : Visible(r)' = Visible(r)
  <2>1. backend'.own = IF backend.own = <<>> THEN <<{}>> ELSE backend.own
    BY <1>2, <1>4
  <2>2. Own' = Own
    BY <2>1 DEF Own, TypeOK, Caches
  <2> QED BY <2>2, <1>1 DEF Visible, Of
<1>7. MemosAreCurrent' /\ MemosAreOfTheirs'
  BY <1>3, <1>4, <1>6, RelationType DEF MemosAreCurrent, MemosAreOfTheirs, Settled, Loaded, Watchable
<1>8. MemosAreWatched'
  BY <1>3, <1>4, RelationIs DEF MemosAreWatched, Loading, Watchable, Memos
<1>9. LoadIsLocked'
  BY <1>1, <1>4 DEF LoadIsLocked, Loading, CanWrite
<1>10. ChangesAreMarked'
  BY <1>4, <1>6 DEF ChangesAreMarked
<1>s. Sound => Sound'
  BY <1>1, <1>3, <1>4, <1>6 DEF Sound, NothingUndoneIsRemembered, LoadIsVisible, Loaded, Seen
<1> QED BY <1>s, <1>5, <1>7, <1>8, <1>9, <1>10

LEMMA ReadInv == IInv /\ Read => IInv' /\ (Sound => Sound')
<1> SUFFICES ASSUME IInv, Read PROVE IInv' /\ (Sound => Sound')
  OBVIOUS
<1> DEFINE k == backend.load.of
<1>1. /\ k \in Memos /\ backend.load.found = Unknown
      /\ backend' = [backend EXCEPT !.load.found = Visible(Relation[k])]
      /\ UNCHANGED <<committed, prepared, theirs, changes>>
  BY DEF Read, Becomes, IInv, TypeOK, Caches
<1>2. Own \in Values /\ Visible(Relation[k]) \in Values
  BY OwnIs DEF IInv, TypeOK, Caches, Values, Visible, Of
<1>3. /\ backend' \in Caches /\ backend'.own = backend.own /\ backend'.inbox = backend.inbox
      /\ backend'.load.of = k /\ backend'.load.found = Visible(Relation[k])
      /\ backend'.memo = backend.memo /\ backend'.watched = backend.watched
      /\ backend'.bumped = backend.bumped /\ backend'.changedInXact = backend.changedInXact
  BY <1>1, <1>2 DEF IInv, TypeOK, Caches
<1>4. Own' = Own /\ \A r \in Rels : Visible(r)' = Visible(r)
  BY <1>1, <1>3 DEF Own, Visible, Of
<1> HIDE DEF k
<1>5. TypeOK'
  BY <1>1, <1>3 DEF IInv, TypeOK
<1>6. MemosAreCurrent'
  BY <1>1, <1>3, <1>4, RelationType DEF IInv, MemosAreCurrent, Settled, Loaded, Watchable
<1>7. MemosAreWatched'
  BY <1>1, <1>3 DEF IInv, MemosAreWatched, Loading, k
<1>8. LoadIsLocked' /\ ChangesAreMarked'
  BY <1>1, <1>3, <1>4 DEF IInv, LoadIsLocked, ChangesAreMarked, Loading, k
<1>9. MemosAreOfTheirs'
  BY <1>1, <1>3, <1>4 DEF IInv, MemosAreOfTheirs, Loaded, Visible, Of
<1>s. Sound => Sound'
  BY <1>1, <1>3, <1>4 DEF Sound, NothingUndoneIsRemembered, LoadIsVisible, Loaded, Seen, Visible, Of
<1> QED BY <1>s, <1>5, <1>6, <1>7, <1>8, <1>9 DEF IInv

LEMMA RememberInv == IInv /\ Remember => IInv' /\ (Sound => Sound')
<1> SUFFICES ASSUME IInv, Remember PROVE IInv' /\ (Sound => Sound')
  OBVIOUS
<1> DEFINE k == backend.load.of
           w == Watching(backend, IF k = "computed" THEN {"x"} ELSE {})
<1>1. /\ k \in Memos /\ backend.load.found # Unknown
      /\ backend' = [w EXCEPT !.memo[k] = backend.load.found, !.load = NoLoad]
      /\ UNCHANGED <<committed, prepared, theirs, changes>>
  BY DEF Remember, Becomes, IInv, TypeOK, Caches
<1>2. /\ w \in Caches /\ w.own = backend.own /\ w.inbox = backend.inbox /\ w.memo = backend.memo
      /\ backend.watched \subseteq w.watched
      /\ k = "computed" => "x" \in w.watched
      /\ w.bumped = backend.bumped /\ w.changedInXact = backend.changedInXact
  <2>1. (IF k = "computed" THEN {"x"} ELSE {}) \in SUBSET Rels
    BY DEF Rels
  <2> QED BY <2>1, WatchingIs DEF IInv, TypeOK
<1>3. backend.load.found \in Values
  BY <1>1 DEF IInv, TypeOK, Caches
<1> HIDE DEF w
<1>4. /\ backend' \in Caches /\ backend'.own = backend.own /\ backend'.inbox = backend.inbox
      /\ backend'.load = NoLoad /\ backend'.memo = [backend.memo EXCEPT ![k] = backend.load.found]
      /\ backend'.watched = w.watched
      /\ backend'.bumped = backend.bumped /\ backend'.changedInXact = backend.changedInXact
  BY <1>1, <1>2, <1>3 DEF Caches, NoLoad
<1>5. Own' = Own /\ \A r \in Rels : Visible(r)' = Visible(r)
  BY <1>1, <1>4 DEF Own, Visible, Of
<1>6. \A m \in Memos : backend'.memo[m] = IF m = k THEN backend.load.found ELSE backend.memo[m]
  BY <1>1, <1>4 DEF IInv, TypeOK, Caches
<1>7. backend'.load.of = "none" /\ backend'.load.found = Unknown
  BY <1>4 DEF NoLoad
<1>8. TypeOK'
  BY <1>1, <1>4 DEF IInv, TypeOK
<1>9. MemosAreCurrent'
  BY <1>1, <1>4, <1>5, <1>6, <1>7, RelationType DEF IInv, MemosAreCurrent, Settled, Loaded, Watchable
<1>10. MemosAreWatched'
  <2> SUFFICES ASSUME NEW m \in Watchable, backend'.memo[m] # Unknown PROVE Relation[m] \in backend'.watched
    BY <1>7 DEF MemosAreWatched, Loading, Watchable, Memos
  <2>1. CASE m = "computed" /\ k = m
    BY <2>1, <1>2, <1>4, RelationIs
  <2>2. CASE m # k \/ m # "computed"
    <3>1. m \in Memos /\ Relation[m] \in backend.watched
      BY <2>2, <1>4, <1>6 DEF IInv, MemosAreWatched, Loading, Watchable
    <3> QED BY <3>1, <1>2, <1>4
  <2> QED BY <2>1, <2>2
<1>11. LoadIsLocked' /\ ChangesAreMarked'
  BY <1>1, <1>4, <1>5, <1>7 DEF IInv, LoadIsLocked, ChangesAreMarked, Loading
<1>12. MemosAreOfTheirs'
  BY <1>1, <1>6, <1>7 DEF IInv, MemosAreOfTheirs, Loaded
<1>s. Sound => Sound'
  BY <1>1, <1>4, <1>5, <1>6, <1>7 DEF Sound, NothingUndoneIsRemembered, LoadIsVisible, Loaded, Seen
<1> QED BY <1>s, <1>8, <1>9, <1>10, <1>11, <1>12 DEF IInv

LEMMA AcceptInv == IInv /\ Accept => IInv' /\ (Sound => Sound')
<1> SUFFICES ASSUME IInv, Accept PROVE IInv' /\ (Sound => Sound')
  OBVIOUS
<1> DEFINE d == Called(backend, backend.inbox)
<1>1. backend' = [d EXCEPT !.inbox = {}] /\ UNCHANGED <<committed, prepared, theirs, changes>>
  BY DEF Accept, Becomes
<1>2. /\ d \in Caches /\ d.own = backend.own /\ d.load = backend.load
      /\ d.memo = backend.memo /\ d.watched = backend.watched
      /\ d.bumped <=> backend.bumped \/ backend.inbox \cap backend.watched # {}
      /\ backend.changedInXact => d.changedInXact
  BY CalledIs DEF IInv, TypeOK, Caches
<1> HIDE DEF d
<1>3. /\ backend' \in Caches /\ backend'.own = backend.own /\ backend'.load = backend.load
      /\ backend'.inbox = {} /\ backend'.memo = backend.memo /\ backend'.watched = backend.watched
      /\ backend'.bumped <=> backend.bumped \/ backend.inbox \cap backend.watched # {}
      /\ backend.changedInXact => backend'.changedInXact
  BY <1>1, <1>2 DEF Caches
<1>4. Own' = Own /\ \A r \in Rels : Visible(r)' = Visible(r)
  BY <1>1, <1>3 DEF Own, Visible, Of
<1>5. TypeOK'
  BY <1>1, <1>3 DEF IInv, TypeOK
<1>6. MemosAreCurrent'
  <2> SUFFICES ASSUME NEW k \in Watchable, Settled(k)'
               PROVE  /\ backend'.memo[k] # Unknown => backend'.memo[k] = Visible(Relation[k])'
                      /\ Loaded(k)' => backend'.load.found = Visible(Relation[k])'
    BY DEF MemosAreCurrent
  <2>1. /\ ~backend.bumped
        /\ Relation[k] \in backend.inbox => Relation[k] \notin backend.watched
    BY <1>3 DEF Settled
  <2>2. CASE Relation[k] \in backend.inbox
    <3>1. backend.memo[k] = Unknown
      BY <2>1, <2>2 DEF IInv, MemosAreWatched
    <3>2. ~Loading(k)
      BY <2>1, <2>2, RelationIs DEF IInv, MemosAreWatched, LoadIsLocked
    <3> QED BY <1>3, <3>1, <3>2 DEF Loading, Loaded
  <2>3. CASE Relation[k] \notin backend.inbox
    <3>1. /\ backend.memo[k] # Unknown => backend.memo[k] = Visible(Relation[k])
          /\ Loaded(k) => backend.load.found = Visible(Relation[k])
      BY <2>1, <2>3 DEF IInv, MemosAreCurrent, Settled
    <3> QED BY <1>3, <1>4, <3>1, RelationType DEF Loaded, Watchable
  <2> QED BY <2>2, <2>3
<1>7. MemosAreWatched'
  BY <1>3 DEF IInv, MemosAreWatched, Loading
<1>8. LoadIsLocked' /\ ChangesAreMarked'
  BY <1>1, <1>3, <1>4 DEF IInv, LoadIsLocked, ChangesAreMarked, Loading
<1>9. MemosAreOfTheirs'
  BY <1>3 DEF IInv, MemosAreOfTheirs, Loaded
<1>s. Sound => Sound'
  BY <1>1, <1>3, <1>4 DEF Sound, NothingUndoneIsRemembered, LoadIsVisible, Loaded, Seen
<1> QED BY <1>s, <1>5, <1>6, <1>7, <1>8, <1>9 DEF IInv

LEMMA CheckInv == IInv /\ Check => IInv' /\ (Sound => Sound')
<1> SUFFICES ASSUME IInv, Check PROVE IInv' /\ (Sound => Sound')
  OBVIOUS
<1> DEFINE b == Begun(backend)
<1>1. /\ b \in Caches
      /\ b.own = IF backend.own = <<>> THEN <<{}>> ELSE backend.own
      /\ b.load = backend.load /\ b.inbox = backend.inbox /\ b.memo = backend.memo
      /\ b.watched = backend.watched /\ b.bumped = backend.bumped
      /\ b.changedInXact = backend.changedInXact
  BY BegunIs DEF IInv, TypeOK
<1>2. /\ backend' = [b EXCEPT !.matched = @ \/ Cardinality(Visible("ext")) = Revision]
      /\ UNCHANGED <<committed, prepared, theirs, changes>>
  BY DEF Check, Becomes
<1> HIDE DEF b
<1>3. /\ backend' \in Caches
      /\ backend'.own = b.own /\ backend'.load = backend.load
      /\ backend'.inbox = backend.inbox /\ backend'.memo = backend.memo
      /\ backend'.watched = backend.watched /\ backend'.bumped = backend.bumped
      /\ backend'.changedInXact = backend.changedInXact
  BY <1>1, <1>2 DEF Caches
<1>4. Len(backend'.own) \in 0..2
  BY <1>1, <1>3 DEF IInv, TypeOK, Caches
<1>5. Own' = Own
  <2>1. backend'.own = IF backend.own = <<>> THEN <<{}>> ELSE backend.own
    BY <1>1, <1>3
  <2> QED BY <2>1 DEF Own, IInv, TypeOK, Caches
<1>6. \A r \in Rels : Visible(r)' = Visible(r)
  BY <1>2, <1>5 DEF Visible, Of
<1>7. TypeOK'
  BY <1>2, <1>3, <1>4 DEF IInv, TypeOK
<1>s. Sound => Sound'
  BY <1>2, <1>3, <1>5 DEF Sound, NothingUndoneIsRemembered, LoadIsVisible, Loaded, Seen
<1> QED
  BY <1>s, <1>2, <1>3, <1>5, <1>6, <1>7, RelationType
     DEF IInv, MemosAreCurrent, MemosAreWatched, LoadIsLocked, MemosAreOfTheirs, ChangesAreMarked,
         Loading, Loaded, Settled, Watchable

\* What DDL, a rollback and a PREPARE do: the caches are cleared or kept, and
\* the callback is called for every relation they change.
LEMMA CallInv ==
  ASSUME IInv, NEW c \in Caches, NEW rels \in SUBSET Rels,
         committed' \in Values, prepared' \in Values, theirs' \in Values, changes' \in Nat,
         backend' = Called(c, rels),
         Len(c.own) \in 0..2, c.load = NoLoad, c.inbox = backend.inbox, c.watched = backend.watched,
         c.bumped = backend.bumped,
         \A k \in Memos : c.memo[k] \in {Unknown, backend.memo[k]},
         \A k \in Watchable : c.memo[k] # Unknown /\ Relation[k] \notin rels =>
            Visible(Relation[k])' = Visible(Relation[k]),
         Own' # {} => c.changedInXact \/ rels # {}
  PROVE  /\ IInv'
         /\ (\A k \in Memos : c.memo[k] # Unknown /\ rels \cap backend.watched = {} =>
                c.memo[k] \cap Seen \subseteq Seen') => (Sound => Sound')
<1>1. /\ backend' \in Caches /\ backend'.own = c.own /\ backend'.inbox = backend.inbox
      /\ backend'.memo = c.memo /\ backend'.watched = backend.watched
      /\ backend'.bumped <=> backend.bumped \/ rels \cap backend.watched # {}
      /\ backend'.changedInXact <=> c.changedInXact \/ rels # {}
  BY CalledIs
<1>2. backend'.load.of = "none" /\ backend'.load.found = Unknown
  BY CalledIs DEF NoLoad
<1>3. TypeOK'
  BY <1>1 DEF TypeOK
<1>4. MemosAreCurrent'
  <2> SUFFICES ASSUME NEW k \in Watchable, Settled(k)', backend'.memo[k] # Unknown
               PROVE  backend'.memo[k] = Visible(Relation[k])'
    BY <1>2 DEF MemosAreCurrent, Loaded
  <2>1. k \in Memos /\ backend'.memo[k] = backend.memo[k] /\ c.memo[k] # Unknown
    BY <1>1 DEF Watchable
  <2>2. Relation[k] \in backend.watched /\ backend.memo[k] # Unknown
    BY <2>1 DEF IInv, MemosAreWatched
  <2>3. Settled(k) /\ Relation[k] \notin rels
    BY <1>1, <2>2 DEF Settled
  <2> QED BY <2>1, <2>2, <2>3 DEF IInv, MemosAreCurrent
<1>5. MemosAreWatched'
  BY <1>1, <1>2 DEF IInv, MemosAreWatched, Loading, Watchable, Memos
<1>6. LoadIsLocked'
  BY <1>2 DEF LoadIsLocked, Loading
<1>7. MemosAreOfTheirs'
  <2> SUFFICES ASSUME NEW k \in Memos, backend'.memo[k] # Unknown
               PROVE  backend'.memo[k] = Of(Relation[k], backend'.memo[k])
    BY <1>2 DEF MemosAreOfTheirs, Loaded
  <2>1. backend'.memo[k] = backend.memo[k]
    BY <1>1
  <2> QED BY <2>1 DEF IInv, MemosAreOfTheirs
<1>8. ChangesAreMarked'
  BY <1>1 DEF ChangesAreMarked
<1>s. ASSUME Sound,
             \A k \in Memos : c.memo[k] # Unknown /\ rels \cap backend.watched = {} =>
               c.memo[k] \cap Seen \subseteq Seen'
      PROVE  Sound'
  BY <1>s, <1>1, <1>2 DEF Sound, NothingUndoneIsRemembered, LoadIsVisible, Loaded, Seen
<1> QED BY <1>s, <1>3, <1>4, <1>5, <1>6, <1>7, <1>8 DEF IInv

\* What a savepoint, its release and a commit do: the caches stay as they are.
LEMMA KeepInv ==
  ASSUME IInv,
         committed' \in Values, prepared' \in Values, theirs' \in Values, changes' \in Nat,
         backend' \in Caches, Len(backend'.own) \in 0..2, backend'.load = NoLoad,
         backend'.inbox = backend.inbox, backend'.watched = backend.watched,
         backend'.bumped = backend.bumped, backend'.memo = backend.memo,
         \A k \in Watchable : Visible(Relation[k])' = Visible(Relation[k]),
         Own' # {} => backend'.changedInXact
  PROVE  IInv' /\ (Seen \subseteq Seen' /\ Sound => Sound')
<1>1. Called(backend', {}) = backend'
  BY DEF Called, Caches
<1> QED BY <1>1, CallInv

\* What another session or a prepared transaction commits is sent.
LEMMA SendInv ==
  ASSUME IInv, NEW set \in Values,
         Loading("computed") => Of("x", set) = {},
         committed' = committed \cup set,
         prepared' \subseteq prepared, theirs' \subseteq theirs, changes' = changes,
         backend' = [backend EXCEPT !.inbox = @ \cup Sent(set)]
  PROVE  IInv' /\ (Sound => Sound')
<1>1. /\ backend' \in Caches /\ backend'.own = backend.own /\ backend'.load = backend.load
      /\ backend'.inbox = backend.inbox \cup Sent(set) /\ backend'.memo = backend.memo
      /\ backend'.watched = backend.watched /\ backend'.bumped = backend.bumped
      /\ backend'.changedInXact = backend.changedInXact
  BY DEF IInv, TypeOK, Caches, Sent, Rels
<1>2. Own' = Own
  BY <1>1 DEF Own
<1>3. TypeOK'
  BY <1>1 DEF IInv, TypeOK, Values
<1>4. MemosAreCurrent'
  <2> SUFFICES ASSUME NEW k \in Watchable, Settled(k)'
               PROVE  /\ backend'.memo[k] # Unknown => backend'.memo[k] = Visible(Relation[k])'
                      /\ Loaded(k)' => backend'.load.found = Visible(Relation[k])'
    BY DEF MemosAreCurrent
  <2>1. Settled(k) /\ Relation[k] \notin Sent(set)
    BY <1>1 DEF Settled
  <2>2. Of(Relation[k], set) = {}
    BY <2>1, RelationIs, RelationType DEF Sent, Watchable, Memos, Rels
  <2>3. Visible(Relation[k])' = Visible(Relation[k])
    BY <1>2, <2>2 DEF Visible, Of
  <2> QED BY <1>1, <2>1, <2>3 DEF IInv, MemosAreCurrent, Loaded
<1>5. MemosAreWatched'
  BY <1>1 DEF IInv, MemosAreWatched, Loading
<1>6. LoadIsLocked'
  BY <1>1 DEF IInv, LoadIsLocked, Loading, Sent, Of
<1>7. MemosAreOfTheirs' /\ ChangesAreMarked'
  BY <1>1, <1>2 DEF IInv, MemosAreOfTheirs, Loaded, ChangesAreMarked
<1>s. Sound => Sound'
  BY <1>1, <1>2 DEF Sound, NothingUndoneIsRemembered, LoadIsVisible, Loaded, Seen
<1> QED BY <1>s, <1>3, <1>4, <1>5, <1>6, <1>7 DEF IInv

LEMMA DdlInv == IInv /\ Ddl => IInv' /\ (Sound => Sound')
<1> SUFFICES ASSUME IInv, Ddl PROVE IInv' /\ (Sound => Sound')
  OBVIOUS
<1>1. PICK r \in Rels :
        LET c == Handled(MarksChanged(Begun(backend)), r)
            done == [c EXCEPT !.own[Len(c.own)] = @ \cup {<<r, changes>>}]
        IN /\ changes' = changes + 1
           /\ backend.load = NoLoad
           /\ Becomes(Called(done, {r} \ {"ext"}))
           /\ UNCHANGED <<committed, prepared, theirs>>
  BY DEF Ddl
<1> DEFINE b == Begun(backend)
           m == [b EXCEPT !.changedInXact = TRUE]
           h == IF r = "x" THEN m ELSE Invalidated(m)
           c == [h EXCEPT !.matched = @ /\ r # "ext"]
           new == <<r, changes>>
           done == [c EXCEPT !.own[Len(c.own)] = @ \cup {new}]
<1>2. /\ b \in Caches /\ b.own = IF backend.own = <<>> THEN <<{}>> ELSE backend.own
      /\ b.load = NoLoad /\ b.inbox = backend.inbox /\ b.memo = backend.memo
      /\ b.watched = backend.watched /\ b.bumped = backend.bumped
  BY <1>1, BegunIs DEF IInv, TypeOK
<1> HIDE DEF b
<1>3. /\ m \in Caches /\ m.own = b.own /\ m.load = NoLoad /\ m.inbox = backend.inbox
      /\ m.memo = backend.memo /\ m.watched = backend.watched /\ m.bumped = backend.bumped
      /\ m.changedInXact = TRUE
  BY <1>2 DEF Caches
<1> HIDE DEF m
<1>4. /\ h \in Caches /\ h.own = b.own /\ h.load = NoLoad /\ h.inbox = backend.inbox
      /\ h.watched = backend.watched /\ h.bumped = backend.bumped /\ h.changedInXact = TRUE
      /\ \A k \in Memos : h.memo[k] \in {Unknown, backend.memo[k]}
      /\ r # "x" => \A k \in Memos : h.memo[k] = Unknown
  BY <1>3, InvalidatedIs
<1> HIDE DEF h
<1>5. /\ c \in Caches /\ c.own = b.own /\ c.load = NoLoad /\ c.inbox = backend.inbox
      /\ c.watched = backend.watched /\ c.bumped = backend.bumped /\ c.changedInXact = TRUE
      /\ c.memo = h.memo
  BY <1>4 DEF Caches
<1>6. backend' = Called(done, {r} \ {"ext"})
  BY <1>1 DEF Becomes, Handled, MarksChanged, b, m, h
<1> HIDE DEF c
<1>7. (Len(b.own) = 1 \/ Len(b.own) = 2) /\ UnionOf(b.own) = Own
  <2>1. CASE backend.own = <<>>
    <3>1. b.own = <<{}>>
      BY <1>2, <2>1
    <3>2. Own = {}
      BY <2>1, OwnIs DEF IInv, TypeOK, Caches
    <3>3. UnionOf(<<{}>>) = {}
      BY DEF UnionOf
    <3> QED BY <3>1, <3>2, <3>3
  <2>2. CASE backend.own # <<>>
    <3>1. b.own = backend.own
      BY <1>2, <2>2
    <3>2. backend.own \in Seq(Values) /\ Len(backend.own) \in 0..2
      BY DEF IInv, TypeOK, Caches
    <3>3. Len(backend.own) = 1 \/ Len(backend.own) = 2
      BY <3>2, <2>2, NotEmptyIs
    <3> QED BY <3>1, <3>3 DEF UnionOf, Own
  <2> QED BY <2>1, <2>2
<1>8. new \in Change
  BY DEF Change, IInv, TypeOK
<1> HIDE DEF new
<1>9. /\ done \in Caches /\ done.load = NoLoad /\ done.inbox = backend.inbox
      /\ done.watched = backend.watched /\ done.bumped = backend.bumped /\ done.changedInXact = TRUE
      /\ done.memo = h.memo
      /\ Len(done.own) = Len(b.own) /\ UnionOf(done.own) = Own \cup {new}
  BY <1>5, <1>7, <1>8, AddedIs
<1> HIDE DEF done
<1>r. {r} \ {"ext"} \in SUBSET Rels
  OBVIOUS
<1>10. Own' = Own \cup {<<r, changes>>}
  <2>1. backend'.own = done.own
    BY <1>6, <1>9, <1>r, CalledIs
  <2> QED BY <1>9, <2>1 DEF Own, UnionOf, new
<1>11. \A k \in Watchable : done.memo[k] # Unknown /\ Relation[k] \notin {r} \ {"ext"} =>
         Visible(Relation[k])' = Visible(Relation[k])
  <2> SUFFICES ASSUME NEW k \in Watchable, done.memo[k] # Unknown, Relation[k] \notin {r} \ {"ext"}
               PROVE  Visible(Relation[k])' = Visible(Relation[k])
    OBVIOUS
  <2>1. r = "x" /\ Relation[k] # r
    BY <1>4, <1>9, RelationIs DEF Watchable, Memos
  <2> QED BY <1>1, <1>10, <2>1 DEF Visible, Of
<1>12. Len(done.own) \in 0..2
  BY <1>7, <1>9
<1>13. \A k \in Memos : done.memo[k] \in {Unknown, backend.memo[k]}
  BY <1>4, <1>9
<1>14. committed' \in Values /\ prepared' \in Values /\ theirs' \in Values /\ changes' \in Nat
  BY <1>1 DEF IInv, TypeOK
<1>s. Seen \subseteq Seen'
  BY <1>1, <1>10 DEF Seen
<1> QED BY <1>s, <1>6, <1>9, <1>11, <1>12, <1>13, <1>14, <1>r, CallInv

LEMMA SavepointInv == IInv /\ Savepoint => IInv' /\ (Sound => Sound')
<1> SUFFICES ASSUME IInv, Savepoint PROVE IInv' /\ (Sound => Sound')
  OBVIOUS
<1>1. /\ backend.own \in Seq(Values) /\ Len(backend.own) = 1 /\ backend.load = NoLoad
      /\ Len(backend.own) \in 0..2
      /\ backend' = [backend EXCEPT !.own = Append(@, {})]
      /\ UNCHANGED <<committed, prepared, theirs, changes>>
  BY DEF Savepoint, Becomes, IInv, TypeOK, Caches
<1> DEFINE own == Append(backend.own, {})
<1>2. /\ own \in Seq(Values) /\ Len(own) = 2 /\ Len(own) \in 0..2
      /\ own[1] = backend.own[1] /\ own[2] = {}
  <2>1. {} \in Values
    BY DEF Values
  <2>2. /\ own \in Seq(Values) /\ Len(own) = Len(backend.own) + 1
        /\ \A i \in 1..Len(backend.own) : own[i] = backend.own[i]
        /\ own[Len(backend.own) + 1] = {}
    BY <1>1, <2>1, AppendProperties
  <2> HIDE DEF own
  <2> QED BY <1>1, <2>2
<1>3. backend' = [backend EXCEPT !.own = own]
  BY <1>1
<1> HIDE DEF own
<1>4. /\ backend' \in Caches /\ backend'.own = own /\ backend'.load = NoLoad
      /\ backend'.inbox = backend.inbox /\ backend'.memo = backend.memo
      /\ backend'.watched = backend.watched /\ backend'.bumped = backend.bumped
      /\ backend'.changedInXact = backend.changedInXact
  BY <1>1, <1>2, <1>3 DEF IInv, TypeOK, Caches
<1>5. Own' = Own
  <2>1. UnionOf(own) = own[1] \cup own[2] /\ Own = backend.own[1]
    BY <1>1, <1>2, UnionIs, OwnIs
  <2> QED BY <2>1, <1>2, <1>4 DEF Own, UnionOf
<1>6. \A k \in Watchable : Visible(Relation[k])' = Visible(Relation[k])
  BY <1>1, <1>5 DEF Visible, Of
<1>7. committed' \in Values /\ prepared' \in Values /\ theirs' \in Values /\ changes' \in Nat
  BY <1>1 DEF IInv, TypeOK
<1>8. Len(backend'.own) \in 0..2
  BY <1>2, <1>4
<1>9. Own' # {} => backend'.changedInXact
  BY <1>4, <1>5 DEF IInv, ChangesAreMarked
<1>s. Seen' = Seen
  BY <1>1, <1>5 DEF Seen
<1> QED BY <1>s, <1>4, <1>6, <1>7, <1>8, <1>9, KeepInv

LEMMA ReleaseInv == IInv /\ Release => IInv' /\ (Sound => Sound')
<1> SUFFICES ASSUME IInv, Release PROVE IInv' /\ (Sound => Sound')
  OBVIOUS
<1> DEFINE all == backend.own[1] \cup backend.own[2]
<1>1. /\ backend.own \in Seq(Values) /\ Len(backend.own) = 2 /\ backend.load = NoLoad
      /\ Len(backend.own) \in 0..2
      /\ backend' = [backend EXCEPT !.own = <<all>>]
      /\ UNCHANGED <<committed, prepared, theirs, changes>>
  BY DEF Release, Becomes, IInv, TypeOK, Caches
<1>2. all = Own /\ all \in Values
  BY <1>1, OwnIs
<1> HIDE DEF all
<1>3. <<all>> \in Seq(Values) /\ Len(<<all>>) = 1 /\ <<all>>[1] = all
  BY <1>2
<1>4. /\ backend' \in Caches /\ backend'.own = <<all>> /\ backend'.load = NoLoad
      /\ backend'.inbox = backend.inbox /\ backend'.memo = backend.memo
      /\ backend'.watched = backend.watched /\ backend'.bumped = backend.bumped
      /\ backend'.changedInXact = backend.changedInXact
  BY <1>1, <1>3 DEF IInv, TypeOK, Caches
<1>5. Own' = Own
  <2>1. UnionOf(<<all>>) = all
    BY DEF UnionOf
  <2> QED BY <2>1, <1>2, <1>4 DEF Own, UnionOf
<1>6. \A k \in Watchable : Visible(Relation[k])' = Visible(Relation[k])
  BY <1>1, <1>5 DEF Visible, Of
<1>7. committed' \in Values /\ prepared' \in Values /\ theirs' \in Values /\ changes' \in Nat
  BY <1>1 DEF IInv, TypeOK
<1>8. Len(backend'.own) \in 0..2
  BY <1>3, <1>4
<1>9. Own' # {} => backend'.changedInXact
  BY <1>4, <1>5 DEF IInv, ChangesAreMarked
<1>s. Seen' = Seen
  BY <1>1, <1>5 DEF Seen
<1> QED BY <1>s, <1>4, <1>6, <1>7, <1>8, <1>9, KeepInv

LEMMA CommitInv == IInv /\ Commit => IInv' /\ (Sound => Sound')
<1> SUFFICES ASSUME IInv, Commit PROVE IInv' /\ (Sound => Sound')
  OBVIOUS
<1>1. /\ backend.load = NoLoad /\ committed' = committed \cup Own
      /\ backend' = [backend EXCEPT !.own = <<>>, !.changedInXact = FALSE]
      /\ UNCHANGED <<prepared, theirs, changes>>
  BY DEF Commit, AtEnd, Ended, Becomes
<1>2. Own \in Values
  BY OwnIs DEF IInv, TypeOK, Caches
<1>3. <<>> \in Seq(Values) /\ Len(<<>>) \in 0..2
  BY EmptySeq
<1>4. /\ backend' \in Caches /\ backend'.own = <<>> /\ backend'.load = NoLoad
      /\ backend'.inbox = backend.inbox /\ backend'.memo = backend.memo
      /\ backend'.watched = backend.watched /\ backend'.bumped = backend.bumped
  BY <1>1, <1>3 DEF IInv, TypeOK, Caches
<1>5. Own' = {}
  BY <1>4 DEF Own
<1>6. \A k \in Watchable : Visible(Relation[k])' = Visible(Relation[k])
  BY <1>1, <1>5 DEF Visible, Of
<1>7. committed' \in Values /\ prepared' \in Values /\ theirs' \in Values /\ changes' \in Nat
  BY <1>1, <1>2 DEF IInv, TypeOK, Values
<1>s. Seen' = Seen
  BY <1>1, <1>5 DEF Seen
<1> QED BY <1>s, <1>3, <1>4, <1>5, <1>6, <1>7, KeepInv

LEMMA PrepareInv == IInv /\ Prepare => IInv' /\ (~Preparing /\ Sound => Sound')
<1> SUFFICES ASSUME IInv, Prepare PROVE IInv' /\ (~Preparing /\ Sound => Sound')
  OBVIOUS
<1> DEFINE c == Ended(backend)
           rels == Sent(Own)
<1>1. /\ backend.load = NoLoad /\ prepared' = Own /\ backend' = Called(c, rels)
      /\ UNCHANGED <<committed, theirs, changes>>
  BY DEF Prepare, AtEnd, Undone, Becomes
<1>2. <<>> \in Seq(Values) /\ Len(<<>>) \in 0..2
  BY EmptySeq
<1>3. /\ c \in Caches /\ c.own = <<>> /\ c.load = NoLoad /\ c.inbox = backend.inbox
      /\ c.memo = backend.memo /\ c.watched = backend.watched /\ c.bumped = backend.bumped
  BY <1>1, <1>2 DEF Ended, IInv, TypeOK, Caches
<1>4. rels \in SUBSET Rels
  BY SentType
<1> HIDE DEF c, rels
<1>5. Own' = {}
  <2>1. backend'.own = <<>>
    BY <1>1, <1>3, <1>4, CalledIs
  <2> QED BY <2>1 DEF Own
<1>6. \A k \in Watchable : c.memo[k] # Unknown /\ Relation[k] \notin rels =>
        Visible(Relation[k])' = Visible(Relation[k])
  <2> SUFFICES ASSUME NEW k \in Watchable, Relation[k] \notin rels
               PROVE  Visible(Relation[k])' = Visible(Relation[k])
    OBVIOUS
  <2>1. Of(Relation[k], Own) = {}
    BY RelationIs DEF Watchable, Memos, Rels, rels, Sent
  <2> QED BY <1>1, <1>5, <2>1 DEF Visible, Of
<1>7. committed' \in Values /\ prepared' \in Values /\ theirs' \in Values /\ changes' \in Nat
  BY <1>1, OwnIs DEF IInv, TypeOK, Caches
<1>8. Len(c.own) \in 0..2 /\ \A k \in Memos : c.memo[k] \in {Unknown, backend.memo[k]}
  BY <1>2, <1>3
<1>9. ASSUME ~Preparing
      PROVE  \A k \in Memos : c.memo[k] # Unknown /\ rels \cap backend.watched = {} =>
               c.memo[k] \cap Seen \subseteq Seen'
  <2> SUFFICES ASSUME NEW k \in Memos, c.memo[k] # Unknown, rels \cap backend.watched = {}
               PROVE  c.memo[k] \cap Seen \subseteq Seen'
    OBVIOUS
  <2>1. backend.memo[k] # Unknown /\ c.memo[k] = Of(Relation[k], backend.memo[k])
    BY <1>3 DEF IInv, MemosAreOfTheirs
  <2>2. Of(Relation[k], Own) = {}
    <3>1. CASE k = "schema"
      BY <1>9, <3>1, RelationIs DEF Prepare
    <3>2. CASE k # "schema"
      <4>1. Relation[k] \in backend.watched
        BY <2>1, <3>2 DEF IInv, MemosAreWatched, Watchable
      <4> QED BY <3>2, <4>1, RelationIs DEF Memos, Rels, rels, Sent
    <3> QED BY <3>1, <3>2
  <2> QED BY <1>1, <1>5, <2>1, <2>2 DEF Seen, Of
<1> QED BY <1>9, <1>1, <1>3, <1>4, <1>5, <1>6, <1>7, <1>8, CallInv

LEMMA AbortInv == IInv /\ Abort => IInv' /\ (Sound => Sound')
<1> SUFFICES ASSUME IInv, Abort PROVE IInv' /\ (Sound => Sound')
  OBVIOUS
<1> DEFINE f == ForgetOnAbort(backend)
           c == [f EXCEPT !.own = <<>>, !.load = NoLoad, !.changedInXact = FALSE,
                          !.matched = @ /\ ~backend.changedInXact]
           rels == Sent(Own)
<1>1. backend' = Called(c, rels) /\ UNCHANGED <<committed, prepared, theirs, changes>>
  BY DEF Abort, Undone, Becomes
<1>2. <<>> \in Seq(Values) /\ Len(<<>>) \in 0..2
  BY EmptySeq
<1>3. /\ f \in Caches /\ f.inbox = backend.inbox
      /\ f.watched = backend.watched /\ f.bumped = backend.bumped
      /\ \A k \in Memos : f.memo[k] \in {Unknown, backend.memo[k]}
      /\ backend.changedInXact => \A k \in Memos : f.memo[k] = Unknown
  BY ForgottenIs DEF IInv, TypeOK
<1> HIDE DEF f
<1>4. /\ c \in Caches /\ c.own = <<>> /\ c.load = NoLoad /\ c.inbox = backend.inbox
      /\ c.memo = f.memo /\ c.watched = backend.watched /\ c.bumped = backend.bumped
  BY <1>2, <1>3 DEF Caches, NoLoad
<1>5. rels \in SUBSET Rels
  BY SentType
<1> HIDE DEF c, rels
<1>6. Own' = {}
  <2>1. backend'.own = <<>>
    BY <1>1, <1>4, <1>5, CalledIs
  <2> QED BY <2>1 DEF Own
<1>7. \A k \in Watchable : c.memo[k] # Unknown /\ Relation[k] \notin rels =>
        Visible(Relation[k])' = Visible(Relation[k])
  <2> SUFFICES ASSUME NEW k \in Watchable, Relation[k] \notin rels
               PROVE  Visible(Relation[k])' = Visible(Relation[k])
    OBVIOUS
  <2>1. Of(Relation[k], Own) = {}
    BY RelationIs DEF Watchable, Memos, Rels, rels, Sent
  <2> QED BY <1>1, <1>6, <2>1 DEF Visible, Of
<1>8. committed' \in Values /\ prepared' \in Values /\ theirs' \in Values /\ changes' \in Nat
  BY <1>1 DEF IInv, TypeOK
<1>9. Len(c.own) \in 0..2 /\ \A k \in Memos : c.memo[k] \in {Unknown, backend.memo[k]}
  BY <1>2, <1>3, <1>4
<1>s. \A k \in Memos : c.memo[k] # Unknown /\ rels \cap backend.watched = {} =>
        c.memo[k] \cap Seen \subseteq Seen'
  <2>1. CASE backend.changedInXact
    BY <2>1, <1>3, <1>4
  <2>2. CASE ~backend.changedInXact
    BY <2>2, <1>1, <1>6 DEF IInv, ChangesAreMarked, Seen
  <2> QED BY <2>1, <2>2
<1> QED BY <1>s, <1>1, <1>4, <1>5, <1>6, <1>7, <1>8, <1>9, CallInv

LEMMA SubAbortInv == IInv /\ SubAbort => IInv' /\ (Sound => Sound')
<1> SUFFICES ASSUME IInv, SubAbort PROVE IInv' /\ (Sound => Sound')
  OBVIOUS
<1> DEFINE f == ForgetOnAbort(backend)
           kept == backend.own[1]
           undone == backend.own[2]
           c == [f EXCEPT !.own = <<kept>>, !.load = NoLoad]
           rels == Sent(undone)
<1>1. /\ Len(backend.own) = 2 /\ UNCHANGED <<committed, prepared, theirs, changes>>
      /\ backend' = Called([f EXCEPT !.own = <<@[1]>>, !.load = NoLoad], rels)
  BY DEF SubAbort, Undone, Becomes
<1>2. backend.own \in Seq(Values) /\ Own = kept \cup undone /\ kept \in Values
  BY <1>1, OwnIs DEF IInv, TypeOK, Caches
<1>3. /\ f \in Caches /\ f.own = backend.own /\ f.inbox = backend.inbox
      /\ f.watched = backend.watched /\ f.bumped = backend.bumped
      /\ f.changedInXact = backend.changedInXact
      /\ \A k \in Memos : f.memo[k] \in {Unknown, backend.memo[k]}
      /\ backend.changedInXact => \A k \in Memos : f.memo[k] = Unknown
  BY ForgottenIs DEF IInv, TypeOK
<1>4. backend' = Called(c, rels)
  BY <1>1, <1>3
<1> HIDE DEF f, kept, undone
<1>5. <<kept>> \in Seq(Values) /\ Len(<<kept>>) \in 0..2 /\ UnionOf(<<kept>>) = kept
  BY <1>2 DEF UnionOf
<1>6. /\ c \in Caches /\ c.own = <<kept>> /\ c.load = NoLoad /\ c.inbox = backend.inbox
      /\ c.memo = f.memo /\ c.watched = backend.watched /\ c.bumped = backend.bumped
      /\ c.changedInXact = backend.changedInXact
  BY <1>3, <1>5 DEF Caches, NoLoad
<1>7. rels \in SUBSET Rels
  BY SentType
<1> HIDE DEF c, rels
<1>8. Own' = kept
  <2>1. backend'.own = <<kept>>
    BY <1>4, <1>6, <1>7, CalledIs
  <2> QED BY <2>1, <1>5 DEF Own, UnionOf
<1>9. \A k \in Watchable : c.memo[k] # Unknown /\ Relation[k] \notin rels =>
        Visible(Relation[k])' = Visible(Relation[k])
  <2> SUFFICES ASSUME NEW k \in Watchable, Relation[k] \notin rels
               PROVE  Visible(Relation[k])' = Visible(Relation[k])
    OBVIOUS
  <2>1. Of(Relation[k], undone) = {}
    BY RelationIs DEF Watchable, Memos, Rels, rels, Sent
  <2> QED BY <1>1, <1>2, <1>8, <2>1 DEF Visible, Of
<1>10. committed' \in Values /\ prepared' \in Values /\ theirs' \in Values /\ changes' \in Nat
  BY <1>1 DEF IInv, TypeOK
<1>11. Len(c.own) \in 0..2 /\ \A k \in Memos : c.memo[k] \in {Unknown, backend.memo[k]}
  BY <1>3, <1>5, <1>6
<1>12. Own' # {} => c.changedInXact
  BY <1>2, <1>6, <1>8 DEF IInv, ChangesAreMarked
<1>s. \A k \in Memos : c.memo[k] # Unknown /\ rels \cap backend.watched = {} =>
        c.memo[k] \cap Seen \subseteq Seen'
  <2>1. CASE backend.changedInXact
    BY <2>1, <1>3, <1>6
  <2>2. CASE ~backend.changedInXact
    BY <2>2, <1>1, <1>2, <1>8 DEF IInv, ChangesAreMarked, Seen
  <2> QED BY <2>1, <2>2
<1> QED BY <1>s, <1>4, <1>6, <1>7, <1>9, <1>10, <1>11, <1>12, CallInv

\* Nothing this backend sees changes: what others do stays open, or is undone.
LEMMA ElsewhereInv ==
  ASSUME IInv, UNCHANGED <<committed, backend>>,
         prepared' \in Values, theirs' \in Values, changes' \in Nat,
         Loading("computed") => Of("x", prepared' \cup theirs') = {}
  PROVE  IInv' /\ (Sound => Sound')
<1>1. Own' = Own /\ \A r : Visible(r)' = Visible(r)
  BY DEF Own, Visible, Of
<1>2. TypeOK'
  BY DEF IInv, TypeOK
<1>3. LoadIsLocked'
  BY DEF IInv, LoadIsLocked, Loading, Of
<1>s. Sound => Sound'
  BY <1>1 DEF Sound, NothingUndoneIsRemembered, LoadIsVisible, Loaded, Seen
<1> QED BY <1>1, <1>s, <1>2, <1>3 DEF IInv, MemosAreCurrent, MemosAreWatched, MemosAreOfTheirs,
             ChangesAreMarked, Loading, Loaded, Settled

LEMMA EndPreparedInv == IInv /\ EndPrepared => IInv' /\ (Sound => Sound')
<1> SUFFICES ASSUME IInv, EndPrepared PROVE IInv' /\ (Sound => Sound')
  OBVIOUS
<1>1. /\ prepared' = {} /\ theirs' = theirs /\ changes' = changes
      /\ prepared \in Values /\ theirs \in Values /\ changes \in Nat
  BY DEF EndPrepared, IInv, TypeOK
<1>2. Loading("computed") => Of("x", prepared) = {} /\ Of("x", theirs) = {}
  BY DEF IInv, LoadIsLocked, Of
<1>3. CASE committed' = committed \cup prepared
           /\ backend' = [backend EXCEPT !.inbox = @ \cup Sent(prepared)]
  BY <1>1, <1>2, <1>3, SendInv
<1>4. CASE UNCHANGED <<committed, backend>>
  <2>1. prepared' \in Values /\ Of("x", prepared' \cup theirs') = Of("x", theirs)
    BY <1>1 DEF Values, Of
  <2> QED BY <1>1, <1>2, <1>4, <2>1, ElsewhereInv
<1> QED BY <1>3, <1>4 DEF EndPrepared, Becomes

LEMMA OtherEndsInv == IInv /\ OtherEnds => IInv' /\ (Sound => Sound')
<1> SUFFICES ASSUME IInv, OtherEnds PROVE IInv' /\ (Sound => Sound')
  OBVIOUS
<1>1. /\ theirs' = {} /\ prepared' = prepared /\ changes' = changes
      /\ prepared \in Values /\ theirs \in Values /\ changes \in Nat
  BY DEF OtherEnds, IInv, TypeOK
<1>2. Loading("computed") => Of("x", prepared) = {} /\ Of("x", theirs) = {}
  BY DEF IInv, LoadIsLocked, Of
<1>3. CASE committed' = committed \cup theirs
           /\ backend' = [backend EXCEPT !.inbox = @ \cup Sent(theirs)]
  BY <1>1, <1>2, <1>3, SendInv
<1>4. CASE UNCHANGED <<committed, backend>>
  <2>1. theirs' \in Values /\ Of("x", prepared' \cup theirs') = Of("x", prepared)
    BY <1>1 DEF Values, Of
  <2> QED BY <1>1, <1>2, <1>4, <2>1, ElsewhereInv
<1> QED BY <1>3, <1>4 DEF OtherEnds, Becomes

LEMMA OtherDdlInv == IInv /\ OtherDdl => IInv' /\ (Sound => Sound')
<1> SUFFICES ASSUME IInv, OtherDdl PROVE IInv' /\ (Sound => Sound')
  OBVIOUS
<1>1. PICK r \in Rels \ {"ext"} :
        /\ changes' = changes + 1 /\ ~(r = "x" /\ Writing)
        /\ theirs' = theirs \cup {<<r, changes>>}
        /\ UNCHANGED <<committed, prepared, backend>>
  BY DEF OtherDdl
<1>2. prepared' \in Values /\ theirs' \in Values /\ changes' \in Nat
  BY <1>1 DEF IInv, TypeOK, Values, Change
<1>3. Loading("computed") => Of("x", prepared' \cup theirs') = {}
  BY <1>1 DEF IInv, LoadIsLocked, Loading, Writing, Of
<1> QED BY <1>1, <1>2, <1>3, ElsewhereInv

LEMMA StutterInv == IInv /\ UNCHANGED vars => IInv' /\ (Sound => Sound')
<1> SUFFICES ASSUME IInv, UNCHANGED vars PROVE IInv' /\ (Sound => Sound')
  OBVIOUS
<1>1. /\ UNCHANGED <<committed, backend>> /\ prepared' = prepared /\ theirs' = theirs
      /\ prepared' \in Values /\ theirs' \in Values /\ changes' \in Nat
  BY DEF vars, IInv, TypeOK
<1>2. Loading("computed") => Of("x", prepared' \cup theirs') = {}
  BY <1>1 DEF IInv, LoadIsLocked
<1> QED BY <1>1, <1>2, ElsewhereInv

LEMMA NextInv == IInv /\ [Next]_vars => IInv'
BY LookupInv, ReadInv, RememberInv, AcceptInv, CheckInv, DdlInv, SavepointInv, ReleaseInv,
   SubAbortInv, AbortInv, CommitInv, PrepareInv, EndPreparedInv, OtherDdlInv, OtherEndsInv,
   StutterInv DEF Next

LEMMA NextSound == ~Preparing /\ UInv /\ [Next]_vars => UInv'
BY LookupInv, ReadInv, RememberInv, AcceptInv, CheckInv, DdlInv, SavepointInv, ReleaseInv,
   SubAbortInv, AbortInv, CommitInv, PrepareInv, EndPreparedInv, OtherDdlInv, OtherEndsInv,
   StutterInv DEF Next, UInv

-----------------------------------------------------------------------------
(* The theorems. *)

\* Every state is well typed: this backend's caches, what it has done and what
\* others have (CatalogCaches' variables).
THEOREM TypeCorrect == Spec => []TypeOK
<1>1. Init => IInv
  BY InitInv DEF UInv
<1>2. IInv => TypeOK
  BY DEF IInv
<1> QED BY <1>1, <1>2, NextInv, PTL DEF Spec

\* A backend that has accepted what others committed, and has not seen its
\* generation move, remembers nothing that differs from the catalog: its next
\* lookups are right, whatever DDL ran where (cache/mod.rs:1-10).
THEOREM LookupsAreRight == Spec => []CacheIsCurrent
<1>1. Init => IInv
  BY InitInv DEF UInv
<1>2. IInv => CacheIsCurrent
  BY DEF IInv, CacheIsCurrent, MemosAreCurrent, Settled, Watchable
<1> QED BY <1>1, <1>2, NextInv, PTL DEF Spec

\* Where no prepared transaction has changed an extension, no memo keeps a
\* change that was rolled back, whether its relation is watched or, as the
\* extensions, not: an abort forgets what a transaction that may have changed
\* the catalog had read (forget_on_abort, cache/mod.rs).
THEOREM UndoneIsForgotten ==
  ASSUME ~Preparing
  PROVE  Spec => []NothingUndoneIsRemembered
<1>1. Init => UInv
  BY InitInv
<1>2. UInv /\ [Next]_vars => UInv'
  BY NextSound
<1>3. UInv => NothingUndoneIsRemembered
  BY DEF UInv, Sound
<1> QED BY <1>1, <1>2, <1>3, PTL DEF Spec
=============================================================================
