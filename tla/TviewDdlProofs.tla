--------------------------- MODULE TviewDdlProofs ---------------------------
(***************************************************************************)
(* Theorems about TviewDdl: for any sessions, entities, roles, tables and  *)
(* definitions, and DDL statements of several transactions in any order, a *)
(* registered TVIEW is whole, and a table goes by the right of an owner.   *)
(***************************************************************************)
EXTENDS TviewDdl, TLAPS

\* What DDL keeps, the books: every item but the rows.
Book ==
  {Column(t) : t \in Tables} \cup {Trig(t) : t \in Tables}
    \cup {Meta(e) : e \in Entities} \cup {Table(e) : e \in Entities}
    \cup {View(e, p) : e \in Entities, p \in Places}

\* A backing view that no extension left, of the books v.
Visible(v, e, p) == v[View(e, p)] # None /\ ~v[View(e, p)].left
Backing(v, e) == {p \in Places : Visible(v, e, p)}
Triggered(v, e) == {t \in Tables : e \in v[Trig(t)]}

(***************************************************************************)
(* The books a session sees are typed, and every TVIEW of them whole:      *)
(* RegisteredIsWhole of one TVIEW of v, with an owner who is no reader.    *)
(***************************************************************************)
Typed(v) ==
  /\ Item \subseteq DOMAIN v
  /\ \A t \in Tables : v[Column(t)] \in {0, 1} /\ v[Trig(t)] \subseteq Entities
  /\ \A e \in Entities : v[Meta(e)] \in MetaRow \cup {None} /\ v[Table(e)] \in TableRow \cup {None}
  /\ \A e \in Entities, p \in Places : v[View(e, p)] \in ViewRow \cup {None}

BackingView(v, e) ==
  [def |-> v[Meta(e)].def, owner |-> v[Table(e)].owner, readers |-> v[Table(e)].readers, left |-> FALSE]

Whole(v, e) ==
  IF v[Meta(e)] = None THEN Backing(v, e) = {} /\ Triggered(v, e) = {}
  ELSE /\ v[Table(e)] # None /\ v[Table(e)].owner \notin v[Table(e)].readers
       /\ Backing(v, e) = {v[Table(e)].place}
       /\ v[View(e, v[Table(e)].place)] = BackingView(v, e)
       /\ Triggered(v, e) = v[Meta(e)].def.reads \ Matviews

\* Between the steps of its creation: neither readers nor triggers yet.
FilledView(v, e) ==
  [def |-> v[Meta(e)].def, owner |-> v[Table(e)].owner, readers |-> {}, left |-> FALSE]
Filled(v, e) ==
  /\ v[Meta(e)] # None /\ v[Table(e)] # None /\ v[Table(e)].owner \notin v[Table(e)].readers
  /\ Backing(v, e) = {v[Table(e)].place}
  /\ v[View(e, v[Table(e)].place)] = FilledView(v, e)
  /\ Triggered(v, e) = {}

\* The same of e in v and w, but for the names of columns in its plan.
Same(v, w, e) ==
  /\ v[Table(e)] = w[Table(e)]
  /\ v[Meta(e)] = None <=> w[Meta(e)] = None
  /\ v[Meta(e)] # None => v[Meta(e)].def = w[Meta(e)].def
  /\ \A p \in Places : Visible(v, e, p) \/ Visible(w, e, p) => v[View(e, p)] = w[View(e, p)]
  /\ \A t \in Tables : e \in v[Trig(t)] <=> e \in w[Trig(t)]

\* An item that every change of what Same compares writes: two transactions
\* never both have it written (Busy), so they do not both change e.
Witness(v, e) == IF v[Meta(e)] = None THEN Table(e) ELSE View(e, v[Table(e)].place)

Agree(v, w) == \A i \in Book : v[i] = w[i]

Creating(s, e) == txn[s].step = [kind |-> "create", entity |-> e]
Replacing(s) == txn[s].step # None /\ txn[s].step.kind = "replace"
StepOK(step) ==
  \/ step = None
  \/ step \in [kind : {"create"}, entity : Entities]
  \/ /\ step = [kind |-> "replace", entity |-> step.entity, def |-> step.def, readers |-> step.readers]
     /\ step.entity \in Entities /\ step.def \in Definition

(***************************************************************************)
(* The inductive invariant.  A session sees, of a TVIEW it did not change, *)
(* what is committed; of one it changed, what it made of it, which is      *)
(* whole, or half created by it; nobody else changed that one.             *)
(***************************************************************************)
Shaped ==
  /\ DOMAIN disk = Item /\ Typed(disk)
  /\ DOMAIN txn = Sessions
  /\ \A s \in Sessions : DOMAIN txn[s].mine \subseteq Item /\ Typed(Seen(s)) /\ StepOK(txn[s].step)

Apart ==
  \A s, o \in Sessions : s # o => DOMAIN txn[s].mine \cap DOMAIN txn[o].mine = {}

Touched(s, e) == Witness(disk, e) \in DOMAIN txn[s].mine
OthersUntouched == \A s \in Sessions, e \in Entities : Touched(s, e) \/ Same(disk, Seen(s), e)

DiskWhole == \A e \in Entities : Whole(disk, e)
SeenWhole ==
  \A s \in Sessions, e \in Entities :
    IF Creating(s, e) THEN Touched(s, e) /\ Filled(Seen(s), e) ELSE Whole(Seen(s), e)

\* While a replacement waits for its second step the TVIEW is not dropped: it
\* holds read locks, and a drop takes locks that conflict.
AllLocks(e) == Lock("all", "tview", {e}) \cup Lock("all", "view", {e})
ReadLocks(e) == Lock("read", "tview", {e}) \cup Lock("read", "view", {e})
NoClash ==
  \A s, o \in Sessions : s # o =>
    \A l \in txn[s].locks, m \in txn[o].locks : l[2] = m[2] => ~(l[1] = "read" /\ m[1] = "all")
DropsLocked ==
  \A s \in Sessions, e \in Entities :
    disk[Meta(e)] # None /\ Seen(s)[Meta(e)] = None => AllLocks(e) \cap txn[s].locks # {}
ReplacesLocked ==
  \A s \in Sessions :
    Replacing(s) => /\ Seen(s)[Meta(txn[s].step.entity)] # None
                    /\ ReadLocks(txn[s].step.entity) \subseteq txn[s].locks

\* Who lets a table go: its owner or its schema's.
Right(table) == {<<"role", table.owner>>, <<"schema", table.place>>}
Keeps(v, w, e) ==
  w[Table(e)] # None /\ w[Table(e)].owner = v[Table(e)].owner /\ w[Table(e)].place = v[Table(e)].place
Rightful ==
  \A s \in Sessions, e \in Entities :
    disk[Table(e)] # None => Keeps(disk, Seen(s), e) \/ txn[s].by \cap Right(disk[Table(e)]) # {}

IInv ==
  /\ Shaped /\ Apart /\ OthersUntouched /\ DiskWhole /\ SeenWhole
  /\ NoClash /\ DropsLocked /\ ReplacesLocked /\ Rightful

-----------------------------------------------------------------------------
LEMMA Booked ==
  /\ Book \subseteq Item
  /\ \A t \in Tables : Column(t) \in Book /\ Trig(t) \in Book /\ Val(t) \in Item
  /\ \A e \in Entities : Meta(e) \in Book /\ Table(e) \in Book /\ Rows(e) \in Item
  /\ \A e \in Entities, p \in Places : View(e, p) \in Book
BY DEF Book, Item

LEMMA Booking ==
  ASSUME NEW i \in Book
  PROVE  \/ \E t \in Tables : i = Column(t) \/ i = Trig(t)
         \/ \E e \in Entities : i = Meta(e) \/ i = Table(e)
         \/ \E e \in Entities, p \in Places : i = View(e, p)
BY DEF Book

\* The names of items tell them apart.
LEMMA Distinct ==
  /\ \A x : Val(x)[1] = "value" /\ Val(x)[2] = x
  /\ \A x : Column(x)[1] = "column" /\ Column(x)[2] = x
  /\ \A x : Trig(x)[1] = "triggers" /\ Trig(x)[2] = x
  /\ \A x : Meta(x)[1] = "meta" /\ Meta(x)[2] = x
  /\ \A x : Table(x)[1] = "tview" /\ Table(x)[2] = x
  /\ \A x : Rows(x)[1] = "rows" /\ Rows(x)[2] = x
  /\ \A x, y : View(x, y)[1] = "view" /\ View(x, y)[2] = x /\ View(x, y)[3] = y
BY DEF Val, Column, Trig, Meta, Table, Rows, View

LEMMA Agreeing ==
  ASSUME NEW v, NEW w, Agree(v, w)
  PROVE  /\ Item \subseteq DOMAIN w /\ Typed(v) => Typed(w)
         /\ \A e \in Entities : Same(v, w, e)
<1>1. /\ \A t \in Tables : v[Column(t)] = w[Column(t)] /\ v[Trig(t)] = w[Trig(t)]
      /\ \A e \in Entities : v[Meta(e)] = w[Meta(e)] /\ v[Table(e)] = w[Table(e)]
      /\ \A e \in Entities, p \in Places : v[View(e, p)] = w[View(e, p)]
  BY Booked DEF Agree
<1> QED BY <1>1 DEF Typed, Same

\* What is the same is as whole.
LEMMA SameIsWhole ==
  ASSUME NEW v, NEW w, NEW e \in Entities, Same(v, w, e)
  PROVE  /\ Backing(v, e) = Backing(w, e) /\ Triggered(v, e) = Triggered(w, e)
         /\ Witness(v, e) = Witness(w, e)
         /\ Whole(v, e) => Whole(w, e)
         /\ Filled(v, e) => Filled(w, e)
<1>1. Backing(v, e) = Backing(w, e)
  BY DEF Same, Backing, Visible
<1>2. Triggered(v, e) = Triggered(w, e)
  BY DEF Same, Triggered
<1>3. v[Meta(e)] # None => BackingView(v, e) = BackingView(w, e) /\ FilledView(v, e) = FilledView(w, e)
  BY DEF Same, BackingView, FilledView
<1>4. \A q \in Places : q \in Backing(v, e) => v[View(e, q)] = w[View(e, q)]
  BY DEF Same, Backing
<1>5. \A q : Backing(v, e) = {q} => v[View(e, q)] = w[View(e, q)]
  BY <1>4 DEF Backing
<1>6. Whole(v, e) => Whole(w, e)
  BY <1>1, <1>2, <1>3, <1>5 DEF Whole, Same
<1>7. Filled(v, e) => Filled(w, e)
  BY <1>1, <1>2, <1>3, <1>5 DEF Filled, Same
<1>8. Witness(v, e) = Witness(w, e)
  BY DEF Same, Witness
<1> QED BY <1>1, <1>2, <1>6, <1>7, <1>8

LEMMA SameIsEquivalence ==
  ASSUME NEW u, NEW v, NEW w, NEW e \in Entities
  PROVE  /\ Same(v, v, e)
         /\ Same(u, v, e) /\ Same(v, w, e) => Same(u, w, e)
         /\ Same(u, v, e) => Same(v, u, e)
<1>1. Same(v, v, e) /\ (Same(u, v, e) => Same(v, u, e))
  BY DEF Same, Visible
<1>2. ASSUME Same(u, v, e), Same(v, w, e) PROVE Same(u, w, e)
  BY <1>2 DEF Same, Visible
<1> QED BY <1>1, <1>2
-----------------------------------------------------------------------------
LEMMA Overlay ==
  ASSUME NEW f, NEW g
  PROVE  /\ DOMAIN (f @@ g) = DOMAIN f \cup DOMAIN g
         /\ \A i \in DOMAIN f \cup DOMAIN g : (f @@ g)[i] = IF i \in DOMAIN f THEN f[i] ELSE g[i]
BY DEF @@

LEMMA Single ==
  ASSUME NEW i, NEW x
  PROVE  DOMAIN (i :> x) = {i} /\ (i :> x)[i] = x
BY DEF :>

LEMMA Put ==
  ASSUME NEW i, NEW x, NEW v
  PROVE  /\ DOMAIN (i :> x @@ v) = DOMAIN v \cup {i}
         /\ (i :> x @@ v)[i] = x
         /\ \A j \in DOMAIN v : j # i => (i :> x @@ v)[j] = v[j]
BY DEF @@, :>

\* What a session sees once another has committed.
LEMMA Merging ==
  ASSUME NEW m, NEW n, NEW d, DOMAIN m \subseteq Item, DOMAIN n \subseteq Item, Item \subseteq DOMAIN d,
         DOMAIN m \cap DOMAIN n = {}
  PROVE  /\ \A e \in Entities : Same(d, n @@ d, e) => Same(m @@ d, m @@ (n @@ d), e)
         /\ \A e \in Entities : Same(d, m @@ d, e) => Same(n @@ d, m @@ (n @@ d), e)
         /\ Typed(m @@ d) /\ Typed(n @@ d) => Typed(m @@ (n @@ d))
<1> DEFINE a == m @@ d
<1> DEFINE b == n @@ d
<1> DEFINE c == m @@ (n @@ d)
<1>1. \A i \in Item : /\ a[i] = IF i \in DOMAIN m THEN m[i] ELSE d[i]
                      /\ b[i] = IF i \in DOMAIN n THEN n[i] ELSE d[i]
                      /\ c[i] = IF i \in DOMAIN m THEN m[i] ELSE b[i]
  BY DEF @@
<1>2. \A i \in Item : \/ c[i] = a[i] /\ b[i] = d[i]
                      \/ c[i] = b[i] /\ a[i] = d[i]
  BY <1>1
<1>3. Item \subseteq DOMAIN c
  BY DEF @@
<1> HIDE DEF a, b, c
<1>4. \A i \in Book : \/ c[i] = a[i] /\ b[i] = d[i]
                      \/ c[i] = b[i] /\ a[i] = d[i]
  BY <1>2, Booked
<1>5. /\ \A t \in Tables : Column(t) \in Book /\ Trig(t) \in Book
      /\ \A f \in Entities : Meta(f) \in Book /\ Table(f) \in Book
      /\ \A f \in Entities, p \in Places : View(f, p) \in Book
  BY Booked
<1>6. \A e \in Entities : Same(d, b, e) => Same(a, c, e)
  BY <1>4, <1>5 DEF Same, Visible
<1>7. \A e \in Entities : Same(d, a, e) => Same(b, c, e)
  BY <1>4, <1>5 DEF Same, Visible
<1>8. Typed(a) /\ Typed(b) => Typed(c)
  <2> SUFFICES ASSUME Typed(a), Typed(b) PROVE Typed(c)
    OBVIOUS
  <2>1. \A i \in Book : c[i] = a[i] \/ c[i] = b[i]
    BY <1>4
  <2> QED BY <2>1, <1>3, <1>5 DEF Typed
<1> QED BY <1>6, <1>7, <1>8 DEF a, b, c

\* What a session sees and has done once it makes changes.
LEMMA Changing ==
  ASSUME Shaped, NEW s \in Sessions, NEW by, NEW locks, NEW v, NEW step, Change(s, by, locks, v, step)
  PROVE  /\ disk' = disk /\ DOMAIN txn' = Sessions
         /\ \A o \in Sessions \ {s} : txn'[o] = txn[o]
         /\ txn'[s].step = step /\ txn'[s].by = txn[s].by \cup by
         /\ txn'[s].locks = txn[s].locks \cup locks
         /\ DOMAIN txn'[s].mine = DOMAIN txn[s].mine \cup {i \in Item : v[i] # Seen(s)[i]}
         /\ \A o \in Sessions \ {s} :
              {i \in Item : v[i] # Seen(s)[i]} \cap DOMAIN txn[o].mine = {}
         /\ Agree(v, Seen(s)')
         /\ CanLock(s, locks)
<1> DEFINE writes == [i \in {i \in DOMAIN disk : v[i] # Seen(s)[i]} |-> v[i]]
<1>1. /\ txn' = [txn EXCEPT ![s] =
           [mine |-> writes @@ @.mine, locks |-> @.locks \cup locks, step |-> step, by |-> @.by \cup by]]
      /\ CanLock(s, locks) /\ ~Busy(s, DOMAIN writes) /\ disk' = disk
  BY DEF Change
<1>2. txn'[s] = [mine |-> writes @@ txn[s].mine, locks |-> txn[s].locks \cup locks, step |-> step,
                 by |-> txn[s].by \cup by]
  BY <1>1 DEF Shaped
<1>3. DOMAIN writes = {i \in Item : v[i] # Seen(s)[i]} /\ \A i \in DOMAIN writes : writes[i] = v[i]
  BY DEF Shaped
<1> HIDE DEF writes
<1>4. DOMAIN (writes @@ txn[s].mine) = DOMAIN txn[s].mine \cup {i \in Item : v[i] # Seen(s)[i]}
  BY <1>3 DEF @@
<1>5. \A o \in Sessions \ {s} : DOMAIN writes \cap DOMAIN txn[o].mine = {}
  BY <1>1 DEF Busy
<1>6. \A i \in Item : ((writes @@ txn[s].mine) @@ disk)[i] = v[i]
  <2> SUFFICES ASSUME NEW i \in Item PROVE ((writes @@ txn[s].mine) @@ disk)[i] = v[i]
    OBVIOUS
  <2>1. Seen(s)[i] = IF i \in DOMAIN txn[s].mine THEN txn[s].mine[i] ELSE disk[i]
    BY DEF @@, Seen, Shaped
  <2>2. ((writes @@ txn[s].mine) @@ disk)[i] =
          IF i \in DOMAIN (writes @@ txn[s].mine) THEN (writes @@ txn[s].mine)[i] ELSE disk[i]
    BY DEF @@, Shaped
  <2>3. i \in DOMAIN (writes @@ txn[s].mine) =>
          (writes @@ txn[s].mine)[i] = IF i \in DOMAIN writes THEN writes[i] ELSE txn[s].mine[i]
    BY DEF @@
  <2> QED BY <2>1, <2>2, <2>3, <1>3, <1>4
<1>7. Seen(s)' = (writes @@ txn[s].mine) @@ disk
  BY <1>1, <1>2 DEF Seen
<1>8. Agree(v, Seen(s)')
  BY <1>6, <1>7, Booked DEF Agree
<1>9. DOMAIN txn' = Sessions /\ \A o \in Sessions \ {s} : txn'[o] = txn[o]
  BY <1>1 DEF Shaped
<1> QED BY <1>1, <1>2, <1>3, <1>4, <1>5, <1>8, <1>9

-----------------------------------------------------------------------------
\* What a change must do for the invariant to hold after it.
Turns(s, v, by, locks, step) ==
  /\ Typed(v) /\ StepOK(step)
  /\ \A e \in Entities :
       /\ IF step = [kind |-> "create", entity |-> e]
          THEN /\ Filled(v, e)
               /\ Touched(s, e) \/ v[Witness(Seen(s), e)] # Seen(s)[Witness(Seen(s), e)]
          ELSE Whole(v, e)
       /\ \/ Touched(s, e)
          \/ Same(Seen(s), v, e)
          \/ v[Witness(Seen(s), e)] # Seen(s)[Witness(Seen(s), e)]
       /\ Seen(s)[Meta(e)] # None /\ v[Meta(e)] = None => AllLocks(e) \cap locks # {}
       /\ Seen(s)[Table(e)] # None => Keeps(Seen(s), v, e) \/ by \cap Right(Seen(s)[Table(e)]) # {}
  /\ step # None /\ step.kind = "replace" =>
       v[Meta(step.entity)] # None /\ ReadLocks(step.entity) \subseteq txn[s].locks \cup locks

LEMMA WitnessIsBooked ==
  ASSUME NEW v, NEW e \in Entities, Typed(v), Whole(v, e)
  PROVE  Witness(v, e) \in Book
<1>1. v[Meta(e)] # None => v[Table(e)] \in TableRow
  BY DEF Typed, Whole
<1> QED BY <1>1, Booked DEF Witness, TableRow

\* A change that turns the books so keeps the invariant.
LEMMA Stepped ==
  ASSUME IInv, NEW s \in Sessions, NEW by, NEW locks, NEW v, NEW step,
         Change(s, by, locks, v, step), Turns(s, v, by, locks, step)
  PROVE  IInv'
<1> DEFINE w == Seen(s)'
<1> DEFINE u == Seen(s)
<1>c. /\ disk' = disk /\ DOMAIN txn' = Sessions
      /\ \A o \in Sessions \ {s} : txn'[o] = txn[o]
      /\ txn'[s].step = step /\ txn'[s].by = txn[s].by \cup by
      /\ txn'[s].locks = txn[s].locks \cup locks
      /\ DOMAIN txn'[s].mine = DOMAIN txn[s].mine \cup {i \in Item : v[i] # Seen(s)[i]}
      /\ \A o \in Sessions \ {s} : {i \in Item : v[i] # Seen(s)[i]} \cap DOMAIN txn[o].mine = {}
      /\ Agree(v, Seen(s)')
      /\ CanLock(s, locks)
  BY Changing DEF IInv
<1>o. \A o \in Sessions \ {s} : Seen(o)' = Seen(o)
  BY <1>c DEF Seen
<1>d. Item \subseteq DOMAIN w
  BY <1>c DEF Seen, @@, IInv, Shaped
<1>w. Typed(w) /\ \A e \in Entities : Same(v, w, e)
  BY <1>c, <1>d, Agreeing DEF Turns
<1>t. \A e \in Entities : v[Meta(e)] = w[Meta(e)] /\ v[Table(e)] = w[Table(e)]
  BY <1>c, Booked DEF Agree
<1>1. Shaped'
  <2>1. \A o \in Sessions : DOMAIN txn'[o].mine \subseteq Item /\ StepOK(txn'[o].step)
    BY <1>c DEF Turns, IInv, Shaped
  <2>2. \A o \in Sessions : Typed(Seen(o)')
    BY <1>o, <1>w DEF IInv, Shaped
  <2>3. Typed(disk') /\ DOMAIN disk' = Item
    BY <1>c DEF IInv, Shaped
  <2> QED BY <2>1, <2>2, <2>3, <1>c DEF Shaped, Typed, StepOK
<1>2. Apart'
  BY <1>c DEF IInv, Apart
<1>3. \A e \in Entities : Touched(s, e) => Touched(s, e)'
  BY <1>c DEF Touched, Witness
<1>4. \A e \in Entities, o \in Sessions \ {s} : Touched(o, e)' <=> Touched(o, e)
  BY <1>c DEF Touched, Witness
<1>5. ASSUME NEW e \in Entities PROVE Touched(s, e)' \/ Same(disk, w, e)
  <2> SUFFICES ASSUME ~Touched(s, e) PROVE Touched(s, e)' \/ Same(disk, w, e)
    BY <1>3
  <2>1. Same(disk, u, e)
    BY DEF IInv, OthersUntouched
  <2>2. Witness(disk, e) = Witness(u, e)
    BY <2>1, SameIsWhole
  <2>3. CASE Same(u, v, e)
    BY <2>1, <2>3, <1>w, SameIsEquivalence
  <2>4. CASE v[Witness(u, e)] # u[Witness(u, e)]
    <3>1. Whole(u, e) /\ Typed(u)
      BY DEF IInv, SeenWhole, Shaped
    <3>2. Witness(disk, e) \in Item
      BY <3>1, <2>2, WitnessIsBooked, Booked
    <3>3. Witness(disk, e) \in DOMAIN txn'[s].mine
      BY <2>2, <2>4, <3>2, <1>c
    <3> QED BY <3>3, <1>c DEF Touched, Witness
  <2> QED BY <2>3, <2>4 DEF Turns
<1>6. OthersUntouched'
  BY <1>4, <1>5, <1>o, <1>c DEF IInv, OthersUntouched, Same, Visible
<1>7. DiskWhole'
  BY <1>c DEF IInv, DiskWhole, Whole, Backing, Visible, BackingView, FilledView, Triggered
<1>8. SeenWhole'
  <2>1. ASSUME NEW e \in Entities PROVE IF Creating(s, e)' THEN Touched(s, e)' /\ Filled(w, e) ELSE Whole(w, e)
    <3>1. Same(v, w, e)
      BY <1>w
    <3>2. CASE step = [kind |-> "create", entity |-> e]
      <4>1. Filled(w, e)
        BY <3>1, <3>2, SameIsWhole DEF Turns
      <4>2. Touched(s, e)'
        <5> SUFFICES ASSUME ~Touched(s, e) PROVE Touched(s, e)'
          BY <1>3
        <5>1. Same(disk, u, e) /\ Whole(u, e) /\ Typed(u)
          BY DEF IInv, OthersUntouched, SeenWhole, Shaped
        <5>2. Witness(disk, e) = Witness(u, e) /\ Witness(u, e) \in Item
          BY <5>1, SameIsWhole, WitnessIsBooked, Booked
        <5>3. v[Witness(u, e)] # u[Witness(u, e)]
          BY <3>2 DEF Turns
        <5>4. Witness(disk, e) \in DOMAIN txn'[s].mine
          BY <5>2, <5>3, <1>c
        <5> QED BY <5>4, <1>c DEF Touched, Witness
      <4> QED BY <4>1, <4>2, <3>2, <1>c DEF Creating
    <3>3. CASE step # [kind |-> "create", entity |-> e]
      BY <3>1, <3>3, <1>c, SameIsWhole DEF Turns, Creating
    <3> QED BY <3>2, <3>3
  <2>2. ASSUME NEW e \in Entities, NEW o \in Sessions \ {s}
        PROVE IF Creating(o, e)' THEN Touched(o, e)' /\ Filled(Seen(o), e) ELSE Whole(Seen(o), e)
    BY <1>4, <1>c DEF Creating, IInv, SeenWhole
  <2> HIDE DEF w
  <2>3. \A o \in Sessions \ {s}, e \in Entities :
          /\ Filled(Seen(o)', e) <=> Filled(Seen(o), e)
          /\ Whole(Seen(o)', e) <=> Whole(Seen(o), e)
    BY <1>o
  <2> USE DEF w
  <2>4. \A o \in Sessions, e \in Entities :
          IF Creating(o, e)' THEN Touched(o, e)' /\ Filled(Seen(o)', e) ELSE Whole(Seen(o)', e)
    BY <2>1, <2>2, <2>3
  <2> QED BY <2>4 DEF SeenWhole, Filled, Whole, Backing, Visible, BackingView, FilledView, Triggered
<1>9. NoClash'
  <2>1. \A o \in Sessions \ {s} : \A l \in locks, m \in txn[o].locks : l[2] = m[2] => m[1] \notin Conflicts[l[1]]
    BY <1>c DEF CanLock, Others
  <2>2. "all" \in Conflicts["read"] /\ "read" \in Conflicts["all"]
    BY DEF Conflicts
  <2>3. \A o \in Sessions \ {s} : \A l \in locks, m \in txn[o].locks :
          l[2] = m[2] => ~(l[1] = "read" /\ m[1] = "all") /\ ~(l[1] = "all" /\ m[1] = "read")
    BY <2>1, <2>2
  <2> QED BY <2>3, <1>c DEF IInv, NoClash
<1>10. DropsLocked'
  <2>1. ASSUME NEW e \in Entities, disk[Meta(e)] # None, w[Meta(e)] = None
        PROVE AllLocks(e) \cap txn'[s].locks # {}
    BY <1>t, <1>c, <2>1 DEF IInv, DropsLocked, Turns
  <2> QED BY <2>1, <1>c, <1>o DEF IInv, DropsLocked, AllLocks, Lock
<1>11. ReplacesLocked'
  <2>1. Replacing(s)' => /\ w[Meta(step.entity)] # None /\ ReadLocks(step.entity) \subseteq txn'[s].locks
    BY <1>c, <1>t DEF Turns, Replacing, StepOK
  <2> QED BY <2>1, <1>c, <1>o DEF IInv, ReplacesLocked, Replacing, ReadLocks, Lock
<1>12. Rightful'
  <2>1. ASSUME NEW e \in Entities, disk[Table(e)] # None
        PROVE Keeps(disk, w, e) \/ txn'[s].by \cap Right(disk[Table(e)]) # {}
    BY <2>1, <1>t, <1>c DEF IInv, Rightful, Turns, Keeps, Right
  <2> QED BY <2>1, <1>c, <1>o DEF IInv, Rightful, Keeps, Right
<1> QED BY <1>1, <1>2, <1>6, <1>7, <1>8, <1>9, <1>10, <1>11, <1>12 DEF IInv

\* A commit: another session sees its own changes over those, of other TVIEWs.
LEMMA CommitKeeps ==
  ASSUME IInv, NEW s \in Sessions, Commit(s)
  PROVE  IInv'
<1> DEFINE u == Seen(s)
<1>c. /\ disk' = u /\ DOMAIN txn' = Sessions /\ txn'[s] = Idle /\ txn[s].step = None
      /\ \A o \in Sessions \ {s} : txn'[o] = txn[o]
  BY DEF Commit, IInv, Shaped
<1>i. DOMAIN txn'[s].mine = {} /\ txn'[s].step = None /\ txn'[s].locks = {}
  BY <1>c DEF Idle
<1>n. \A e \in Entities : ~Creating(s, e)
  BY <1>c, NoneAssumption DEF Creating
<1>d. DOMAIN u = Item
  BY DEF Seen, @@, IInv, Shaped
<1>u. Typed(u) /\ \A e \in Entities : Whole(u, e)
  BY <1>n DEF IInv, Shaped, SeenWhole
<1>s. Agree(u, Seen(s)') /\ DOMAIN Seen(s)' = Item
  <2>1. Seen(s)' = txn'[s].mine @@ u
    BY <1>c DEF Seen
  <2>2. DOMAIN (txn'[s].mine @@ u) = Item /\ \A i \in Item : (txn'[s].mine @@ u)[i] = u[i]
    BY <1>i, <1>d DEF @@
  <2> QED BY <2>1, <2>2, Booked DEF Agree
<1>w. Typed(Seen(s)') /\ \A e \in Entities : Same(u, Seen(s)', e)
  BY <1>s, <1>u, Agreeing
<1>o. ASSUME NEW o \in Sessions \ {s}
      PROVE  /\ Seen(o)' = txn[o].mine @@ (txn[s].mine @@ disk)
             /\ Seen(o) = txn[o].mine @@ disk /\ u = txn[s].mine @@ disk
             /\ DOMAIN txn[o].mine \subseteq Item /\ DOMAIN txn[s].mine \subseteq Item
             /\ Item \subseteq DOMAIN disk /\ DOMAIN txn[o].mine \cap DOMAIN txn[s].mine = {}
             /\ Typed(Seen(o))
  BY <1>c DEF Seen, IInv, Shaped, Apart
<1>m. ASSUME NEW o \in Sessions \ {s}
      PROVE  /\ \A e \in Entities : Same(disk, u, e) => Same(Seen(o), Seen(o)', e)
             /\ \A e \in Entities : Same(disk, Seen(o), e) => Same(u, Seen(o)', e)
             /\ Typed(Seen(o)')
  <2> DEFINE m == txn[o].mine
  <2> DEFINE n == txn[s].mine
  <2>0. DOMAIN m \subseteq Item /\ DOMAIN n \subseteq Item /\ Item \subseteq DOMAIN disk
        /\ DOMAIN m \cap DOMAIN n = {}
    BY <1>o
  <2> HIDE DEF m, n
  <2>1. /\ \A e \in Entities : Same(disk, n @@ disk, e) => Same(m @@ disk, m @@ (n @@ disk), e)
        /\ \A e \in Entities : Same(disk, m @@ disk, e) => Same(n @@ disk, m @@ (n @@ disk), e)
        /\ Typed(m @@ disk) /\ Typed(n @@ disk) => Typed(m @@ (n @@ disk))
    BY <2>0, Merging
  <2>2. Seen(o)' = m @@ (n @@ disk) /\ Seen(o) = m @@ disk /\ u = n @@ disk /\ Typed(m @@ disk)
    BY <1>o DEF m, n
  <2> HIDE DEF u
  <2>3. Typed(u)
    BY <1>u DEF u
  <2> QED BY <2>1, <2>2, <2>3
<1>1. Shaped'
  <2>1. \A o \in Sessions : Typed(Seen(o)')
    BY <1>m, <1>w
  <2>2. \A o \in Sessions : DOMAIN txn'[o].mine \subseteq Item /\ StepOK(txn'[o].step)
    BY <1>c, <1>i DEF IInv, Shaped, StepOK
  <2>3. DOMAIN disk' = Item /\ Typed(disk')
    BY <1>c, <1>d, <1>u
  <2> QED BY <2>1, <2>2, <2>3, <1>c DEF Shaped, Typed, StepOK
<1>2. Apart'
  BY <1>c, <1>i DEF IInv, Apart
<1>3. ASSUME NEW o \in Sessions \ {s}, NEW e \in Entities
      PROVE  \/ Touched(o, e) /\ Same(disk, u, e) /\ Touched(o, e)' /\ Same(Seen(o), Seen(o)', e)
             \/ ~Touched(o, e) /\ Same(u, Seen(o)', e)
  <2>1. CASE Touched(o, e)
    <3>1. Same(disk, u, e)
      BY <2>1 DEF IInv, OthersUntouched, Touched, Apart
    <3>2. Witness(disk, e) = Witness(u, e)
      BY <3>1, SameIsWhole
    <3>3. Touched(o, e)'
      BY <2>1, <3>2, <1>c DEF Touched, Witness
    <3> QED BY <2>1, <3>1, <3>3, <1>m
  <2>2. CASE ~Touched(o, e)
    BY <2>2, <1>m DEF IInv, OthersUntouched
  <2> QED BY <2>1, <2>2
<1>4. OthersUntouched'
  <2>1. ASSUME NEW o \in Sessions, NEW e \in Entities PROVE Touched(o, e)' \/ Same(u, Seen(o)', e)
    BY <1>3, <1>w
  <2> QED BY <2>1, <1>c DEF OthersUntouched, Same, Visible
<1>5. DiskWhole'
  BY <1>c, <1>u DEF DiskWhole, Whole, Backing, Visible, BackingView, FilledView, Triggered
<1>8. SeenWhole'
  <2>1. ASSUME NEW o \in Sessions \ {s}, NEW e \in Entities
        PROVE  IF Creating(o, e)' THEN Touched(o, e)' /\ Filled(Seen(o)', e) ELSE Whole(Seen(o)', e)
    <3>1. Creating(o, e)' <=> Creating(o, e)
      BY <1>c DEF Creating
    <3>2. IF Creating(o, e) THEN Touched(o, e) /\ Filled(Seen(o), e) ELSE Whole(Seen(o), e)
      BY DEF IInv, SeenWhole
    <3>3. CASE Touched(o, e)
      <4>1. Touched(o, e)' /\ Same(Seen(o), Seen(o)', e)
        BY <3>3, <1>3
      <4>2. (Whole(Seen(o), e) => Whole(Seen(o)', e)) /\ (Filled(Seen(o), e) => Filled(Seen(o)', e))
        BY <4>1, SameIsWhole
      <4> QED BY <3>1, <3>2, <4>1, <4>2
    <3>4. CASE ~Touched(o, e)
      <4>1. Same(u, Seen(o)', e) /\ Whole(u, e)
        BY <3>4, <1>3, <1>u
      <4>2. Whole(Seen(o)', e)
        BY <4>1, SameIsWhole
      <4> QED BY <3>1, <3>2, <3>4, <4>2
    <3> QED BY <3>3, <3>4
  <2>2. ASSUME NEW e \in Entities PROVE ~Creating(s, e)' /\ Whole(Seen(s)', e)
    BY <1>w, <1>u, <1>i, SameIsWhole, NoneAssumption DEF Creating
  <2>3. \A o \in Sessions, e \in Entities :
          IF Creating(o, e)' THEN Touched(o, e)' /\ Filled(Seen(o)', e) ELSE Whole(Seen(o)', e)
    BY <2>1, <2>2
  <2> QED BY <2>3 DEF SeenWhole, Filled, Whole, Backing, Visible, BackingView, FilledView, Triggered
<1>9. NoClash'
  BY <1>c, <1>i DEF IInv, NoClash
\* What o sees of an item is its own, or what s commits.
<1>v. ASSUME NEW o \in Sessions \ {s}, NEW i \in Item
      PROVE  \/ i \in DOMAIN txn[o].mine /\ Seen(o)'[i] = Seen(o)[i] /\ u[i] = disk[i]
             \/ Seen(o)'[i] = u[i] /\ Seen(o)[i] = disk[i]
  <2>1. /\ Seen(o)'[i] = IF i \in DOMAIN txn[o].mine THEN txn[o].mine[i] ELSE u[i]
        /\ Seen(o)[i] = IF i \in DOMAIN txn[o].mine THEN txn[o].mine[i] ELSE disk[i]
        /\ u[i] = IF i \in DOMAIN txn[s].mine THEN txn[s].mine[i] ELSE disk[i]
    <3> DEFINE m == txn[o].mine
    <3> DEFINE n == txn[s].mine
    <3>1. Seen(o) = m @@ disk /\ u = n @@ disk /\ Seen(o)' = m @@ u /\ DOMAIN disk = Item /\ DOMAIN u = Item
      BY <1>o, <1>d DEF IInv, Shaped
    <3> HIDE DEF m, n, u
    <3>2. (m @@ disk)[i] = IF i \in DOMAIN m THEN m[i] ELSE disk[i]
      BY <3>1 DEF @@
    <3>3. (m @@ u)[i] = IF i \in DOMAIN m THEN m[i] ELSE u[i]
      BY <3>1 DEF @@
    <3>4. (n @@ disk)[i] = IF i \in DOMAIN n THEN n[i] ELSE disk[i]
      BY <3>1 DEF @@
    <3> QED BY <3>1, <3>2, <3>3, <3>4 DEF m, n
  <2> QED BY <2>1, <1>o
<1>10. DropsLocked'
  <2>1. ASSUME NEW o \in Sessions, NEW e \in Entities, u[Meta(e)] # None, Seen(o)'[Meta(e)] = None
        PROVE  AllLocks(e) \cap txn'[o].locks # {}
    <3>1. o # s
      BY <2>1, <1>s, Booked DEF Agree
    <3>2. Seen(o)'[Meta(e)] = Seen(o)[Meta(e)] /\ u[Meta(e)] = disk[Meta(e)]
      BY <2>1, <3>1, <1>v, Booked
    <3> QED BY <2>1, <3>1, <3>2, <1>c DEF IInv, DropsLocked
  <2> QED BY <2>1, <1>c DEF DropsLocked, AllLocks, Lock
<1>11. ReplacesLocked'
  <2>1. ASSUME NEW o \in Sessions, Replacing(o)'
        PROVE  Seen(o)'[Meta(txn'[o].step.entity)] # None /\ ReadLocks(txn'[o].step.entity) \subseteq txn'[o].locks
    <3>1. o # s /\ txn'[o] = txn[o] /\ Replacing(o)
      BY <2>1, <1>i, <1>c DEF Replacing
    <3> DEFINE e == txn[o].step.entity
    <3>2. e \in Entities
      BY <3>1 DEF IInv, Shaped, StepOK, Replacing
    <3>3. Seen(o)[Meta(e)] # None /\ ReadLocks(e) \subseteq txn[o].locks
      BY <3>1 DEF IInv, ReplacesLocked
    <3>4. CASE Seen(o)'[Meta(e)] = Seen(o)[Meta(e)]
      BY <3>1, <3>3, <3>4
    <3>5. CASE Seen(o)'[Meta(e)] = u[Meta(e)] /\ Seen(o)[Meta(e)] = disk[Meta(e)]
      <4>1. u[Meta(e)] = None => AllLocks(e) \cap txn[s].locks # {}
        BY <3>2, <3>3, <3>5 DEF IInv, DropsLocked
      <4>2. \A l \in ReadLocks(e), m \in AllLocks(e) : l \in txn[o].locks /\ m \in txn[s].locks => l[2] # m[2]
        BY <3>1 DEF IInv, NoClash, ReadLocks, AllLocks, Lock
      <4>3. \A m \in AllLocks(e) : \E l \in ReadLocks(e) : l[2] = m[2]
        <5>1. /\ AllLocks(e) = {<<"all", <<"tview", e>>>>, <<"all", <<"view", e>>>>}
              /\ ReadLocks(e) = {<<"read", <<"tview", e>>>>, <<"read", <<"view", e>>>>}
          BY DEF AllLocks, ReadLocks, Lock
        <5> QED BY <5>1
      <4> QED BY <3>1, <3>3, <3>5, <4>1, <4>2, <4>3
    <3> QED BY <3>1, <3>2, <3>4, <3>5, <1>v, Booked
  <2> QED BY <2>1 DEF ReplacesLocked, Replacing, ReadLocks, Lock
<1>12. Rightful'
  <2>1. ASSUME NEW o \in Sessions, NEW e \in Entities, u[Table(e)] # None
        PROVE  Keeps(u, Seen(o)', e) \/ txn'[o].by \cap Right(u[Table(e)]) # {}
    <3>1. CASE o = s
      BY <2>1, <3>1, <1>s, Booked DEF Agree, Keeps
    <3>2. CASE o # s /\ Seen(o)'[Table(e)] = u[Table(e)]
      BY <2>1, <3>2 DEF Keeps
    <3>3. CASE o # s /\ Seen(o)'[Table(e)] = Seen(o)[Table(e)] /\ u[Table(e)] = disk[Table(e)]
      <4>1. Keeps(disk, Seen(o), e) \/ txn[o].by \cap Right(disk[Table(e)]) # {}
        BY <2>1, <3>3 DEF IInv, Rightful
      <4> QED BY <4>1, <3>3, <1>c DEF Keeps
    <3> QED BY <3>1, <3>2, <3>3, <1>v, Booked
  <2> QED BY <2>1, <1>c DEF Rightful, Keeps, Right
<1> QED BY <1>1, <1>2, <1>4, <1>5, <1>8, <1>9, <1>10, <1>11, <1>12 DEF IInv

LEMMA AbortKeeps ==
  ASSUME IInv, NEW s \in Sessions, Abort(s)
  PROVE  IInv'
<1>c. /\ disk' = disk /\ DOMAIN txn' = Sessions /\ txn'[s] = Idle
      /\ \A o \in Sessions \ {s} : txn'[o] = txn[o]
  BY DEF Abort, IInv, Shaped
<1>i. DOMAIN txn'[s].mine = {} /\ txn'[s].step = None /\ txn'[s].locks = {}
  BY <1>c DEF Idle
<1>s. Agree(disk, Seen(s)') /\ Item \subseteq DOMAIN Seen(s)'
  <2>1. Seen(s)' = txn'[s].mine @@ disk
    BY <1>c DEF Seen
  <2>2. DOMAIN (txn'[s].mine @@ disk) = Item /\ \A i \in Item : (txn'[s].mine @@ disk)[i] = disk[i]
    BY <1>i DEF @@, IInv, Shaped
  <2> QED BY <2>1, <2>2, Booked DEF Agree
<1>w. Typed(Seen(s)') /\ \A e \in Entities : Same(disk, Seen(s)', e) /\ Whole(Seen(s)', e)
  <2>1. Typed(disk) /\ \A e \in Entities : Whole(disk, e)
    BY DEF IInv, Shaped, DiskWhole
  <2> QED BY <2>1, <1>s, Agreeing, SameIsWhole
<1>o. \A o \in Sessions \ {s} : Seen(o)' = Seen(o)
  BY <1>c DEF Seen
<1>1. Shaped'
  <2>1. \A o \in Sessions : Typed(Seen(o)')
    BY <1>o, <1>w DEF IInv, Shaped
  <2>2. \A o \in Sessions : DOMAIN txn'[o].mine \subseteq Item /\ StepOK(txn'[o].step)
    BY <1>c, <1>i DEF IInv, Shaped, StepOK
  <2>3. DOMAIN disk' = Item /\ Typed(disk')
    BY <1>c DEF IInv, Shaped
  <2> QED BY <2>1, <2>2, <2>3, <1>c DEF Shaped, Typed, StepOK
<1>2. Apart'
  BY <1>c, <1>i DEF IInv, Apart
<1>3. \A e \in Entities, o \in Sessions \ {s} : Touched(o, e)' <=> Touched(o, e)
  BY <1>c DEF Touched, Witness
<1>4. OthersUntouched'
  <2>1. \A o \in Sessions, e \in Entities : Touched(o, e)' \/ Same(disk, Seen(o)', e)
    BY <1>3, <1>w, <1>o DEF IInv, OthersUntouched
  <2> QED BY <2>1, <1>c DEF OthersUntouched, Same, Visible
<1>5. DiskWhole'
  BY <1>c DEF IInv, DiskWhole, Whole, Backing, Visible, BackingView, FilledView, Triggered
<1>8. SeenWhole'
  <2>1. ASSUME NEW o \in Sessions \ {s}, NEW e \in Entities
        PROVE  IF Creating(o, e)' THEN Touched(o, e)' /\ Filled(Seen(o)', e) ELSE Whole(Seen(o)', e)
    BY <1>3, <1>c, <1>o DEF Creating, IInv, SeenWhole
  <2>2. ASSUME NEW e \in Entities PROVE ~Creating(s, e)' /\ Whole(Seen(s)', e)
    BY <1>w, <1>i, NoneAssumption DEF Creating
  <2>3. \A o \in Sessions, e \in Entities :
          IF Creating(o, e)' THEN Touched(o, e)' /\ Filled(Seen(o)', e) ELSE Whole(Seen(o)', e)
    BY <2>1, <2>2
  <2> QED BY <2>3 DEF SeenWhole, Filled, Whole, Backing, Visible, BackingView, FilledView, Triggered
<1>9. NoClash'
  BY <1>c, <1>i DEF IInv, NoClash
<1>10. DropsLocked'
  BY <1>s, <1>c, <1>o, Booked DEF IInv, DropsLocked, AllLocks, Lock, Agree
<1>11. ReplacesLocked'
  BY <1>c, <1>o, <1>i DEF IInv, ReplacesLocked, Replacing, ReadLocks, Lock
<1>12. Rightful'
  BY <1>s, <1>c, <1>o, Booked DEF IInv, Rightful, Keeps, Right, Agree
<1> QED BY <1>1, <1>2, <1>4, <1>5, <1>8, <1>9, <1>10, <1>11, <1>12 DEF IInv

-----------------------------------------------------------------------------
(* What the operators of statements do to a view v of the books.           *)

\* A refresh writes rows only.
LEMMA RefreshedKeeps ==
  ASSUME NEW v, NEW es, Item \subseteq DOMAIN v
  PROVE  Agree(v, Refreshed(v, es)) /\ Item \subseteq DOMAIN Refreshed(v, es)
<1>1. \A i \in Book : i \notin {Rows(e) : e \in es}
  BY Booking, Distinct
<1>2. \A i \in Item : i \in DOMAIN Refreshed(v, es)
  BY DEF Refreshed, @@
<1>3. \A i \in Book : Refreshed(v, es)[i] = v[i]
  BY <1>1, Booked DEF Refreshed, @@
<1> QED BY <1>2, <1>3 DEF Agree

LEMMA PutKeepsItems ==
  ASSUME NEW i, NEW x, NEW v, Item \subseteq DOMAIN v
  PROVE  Item \subseteq DOMAIN (i :> x @@ v)
BY DEF @@

LEMMA WrittenRow ==
  ASSUME NEW v, Typed(v), NEW d \in Definition
  PROVE  LET row == [def |-> d, column |-> [t \in d.reads |-> v[Column(t)]]]
         IN row \in MetaRow /\ row # None /\ row.def = d
<1>1. [t \in d.reads |-> v[Column(t)]] \in [d.reads -> {0, 1}]
  BY DefinitionsAssumption DEF Typed
<1> QED BY <1>1, NoneAssumption DEF MetaRow

LEMMA Writes ==
  ASSUME NEW v, Typed(v), NEW e \in Entities, NEW d \in Definition
  PROVE  LET w == Written(v, e, d)
         IN /\ Typed(w) /\ w[Meta(e)] # None /\ w[Meta(e)].def = d
            /\ \A i \in Book : i # Meta(e) => w[i] = v[i]
<1> DEFINE row == [def |-> d, column |-> [t \in d.reads |-> v[Column(t)]]]
<1> DEFINE w == Written(v, e, d)
<1>1. row \in MetaRow /\ row # None /\ row.def = d
  BY WrittenRow
<1>2. w = Meta(e) :> row @@ v
  BY DEF Written
<1> HIDE DEF row, w
<1>3. w[Meta(e)] = row /\ Item \subseteq DOMAIN w /\ \A i \in Book : i # Meta(e) => w[i] = v[i]
  BY <1>2, Booked DEF @@, :>, Typed
<1>4. Typed(w)
  BY <1>1, <1>3, Booked, Distinct DEF Typed
<1> QED BY <1>1, <1>3, <1>4 DEF w

\* Registered again with the definition it has.
LEMMA Reregisters ==
  ASSUME NEW v, Typed(v), NEW es, es \subseteq Registered(v)
  PROVE  LET w == Reregistered(v, es)
         IN /\ Typed(w)
            /\ \A e \in Entities : Same(v, w, e)
<1> DEFINE w == Reregistered(v, es)
<1>1. \A e \in es : e \in Entities /\ v[Meta(e)] \in MetaRow /\ v[Meta(e)].def \in Definition
  BY DEF Registered, Typed, MetaRow
<1>2. \A e \in es : Written(v, e, v[Meta(e)].def)[Meta(e)] \in MetaRow
                    /\ Written(v, e, v[Meta(e)].def)[Meta(e)].def = v[Meta(e)].def
  BY <1>1, Writes DEF Typed
<1>3. \A e \in es : w[Meta(e)] = Written(v, e, v[Meta(e)].def)[Meta(e)]
  BY <1>1, Distinct DEF Reregistered, @@
<1>4. \A i \in Book : i \notin {Meta(e) : e \in es} => w[i] = v[i]
  BY Booked DEF Reregistered, @@, Typed
<1>5. Item \subseteq DOMAIN w
  BY DEF Reregistered, @@, Typed
<1> HIDE DEF w
<1>6. \A t \in Tables : w[Column(t)] = v[Column(t)] /\ w[Trig(t)] = v[Trig(t)]
  BY <1>4, Booked, Distinct
<1>7. \A e \in Entities : w[Table(e)] = v[Table(e)] /\ (e \notin es => w[Meta(e)] = v[Meta(e)])
  BY <1>4, Booked, Distinct
<1>8. \A e \in Entities, p \in Places : w[View(e, p)] = v[View(e, p)]
  BY <1>4, Booked, Distinct
<1>9. \A e \in es : w[Meta(e)] \in MetaRow /\ w[Meta(e)].def = v[Meta(e)].def /\ v[Meta(e)] # None /\ w[Meta(e)] # None
  BY <1>1, <1>2, <1>3, NoneAssumption
<1>10. Typed(w)
  BY <1>5, <1>6, <1>7, <1>8, <1>9 DEF Typed
<1>11. \A e \in Entities : Same(v, w, e)
  BY <1>6, <1>7, <1>8, <1>9 DEF Same, Visible
<1> QED BY <1>10, <1>11 DEF w

LEMMA Syncs ==
  ASSUME NEW v, Item \subseteq DOMAIN v, NEW e \in Entities, NEW d
  PROVE  LET w == SyncTriggers(v, e, d)
         IN /\ Item \subseteq DOMAIN w
            /\ \A t \in Tables :
                 w[Trig(t)] = (v[Trig(t)] \ {e}) \cup (IF t \in d.reads \ Matviews THEN {e} ELSE {})
            /\ \A i \in Book : i \notin {Trig(t) : t \in Tables} => w[i] = v[i]
<1>1. Item \subseteq DOMAIN SyncTriggers(v, e, d)
  BY DEF SyncTriggers, @@
<1>2. \A t \in Tables : SyncTriggers(v, e, d)[Trig(t)]
                          = (v[Trig(t)] \ {e}) \cup (IF t \in d.reads \ Matviews THEN {e} ELSE {})
  BY Distinct DEF SyncTriggers, @@
<1>3. \A i \in Book : i \notin {Trig(t) : t \in Tables} => SyncTriggers(v, e, d)[i] = v[i]
  BY Booked DEF SyncTriggers, @@
<1> QED BY <1>1, <1>2, <1>3

LEMMA PlaceIs ==
  ASSUME NEW v, NEW e, NEW p, Backing(v, e) = {p}
  PROVE  Place(v, e) = p /\ p \in Places
BY DEF Place, Backing, Visible

FollowedView(v, e, owners) ==
  LET view == v[View(e, v[Table(e)].place)]
      owner == IF owners THEN v[Table(e)].owner ELSE view.owner
  IN [def |-> view.def, owner |-> owner, readers |-> v[Table(e)].readers \ {owner}, left |-> FALSE]

\* The views of whole TVIEWs follow their tables.
LEMMA Follows ==
  ASSUME NEW v, Typed(v), NEW es, es \subseteq Entities, NEW owners \in BOOLEAN,
         \A e \in es : v[Table(e)] # None /\ Backing(v, e) = {v[Table(e)].place}
  PROVE  /\ Typed(Follow(v, es, owners))
         /\ \A e \in es :
              /\ Follow(v, es, owners)[View(e, v[Table(e)].place)] \in ViewRow
              /\ Follow(v, es, owners)[View(e, v[Table(e)].place)] = FollowedView(v, e, owners)
         /\ \A i \in Book :
              i \notin {View(e, v[Table(e)].place) : e \in es} => Follow(v, es, owners)[i] = v[i]
<1> DEFINE w == Follow(v, es, owners)
<1> DEFINE Owner(e) == IF owners THEN v[Table(e)].owner ELSE v[View(e, v[Table(e)].place)].owner
<1> DEFINE row(e) == [def |-> v[View(e, v[Table(e)].place)].def, owner |-> Owner(e),
                      readers |-> v[Table(e)].readers \ {Owner(e)}, left |-> FALSE]
<1>1. ASSUME NEW e \in es
      PROVE  /\ e \in Entities /\ v[Table(e)].place \in Places /\ Place(v, e) = v[Table(e)].place
             /\ v[Table(e)] \in TableRow /\ v[View(e, v[Table(e)].place)] \in ViewRow
             /\ v[View(e, v[Table(e)].place)].left = FALSE
  BY PlaceIs DEF Typed, Backing, Visible, ViewRow
<1>2. ASSUME NEW e \in es
      PROVE  w[View(e, v[Table(e)].place)] =
               [v[View(e, v[Table(e)].place)] EXCEPT
                  !.owner = Owner(e), !.readers = v[Table(e)].readers \ {Owner(e)}]
  <2> DEFINE i == View(e, v[Table(e)].place)
  <2>1. i[2] = e /\ i \in {View(f, Place(v, f)) : f \in es}
    <3>1. i = View(e, Place(v, e))
      BY <1>1
    <3> QED BY <3>1, Distinct
  <2> HIDE DEF i
  <2>2. w[i] = [v[i] EXCEPT !.owner = IF owners THEN v[Table(e)].owner ELSE v[i].owner,
                            !.readers = v[Table(e)].readers \ {IF owners THEN v[Table(e)].owner ELSE v[i].owner}]
    <3> DEFINE F == [j \in {View(f, Place(v, f)) : f \in es} |->
                       LET table == v[Table(j[2])]
                           owner == IF owners THEN table.owner ELSE v[j].owner
                       IN [v[j] EXCEPT !.owner = owner, !.readers = table.readers \ {owner}]]
    <3>1. w = F @@ v
      BY DEF Follow
    <3>2. i \in DOMAIN F
      BY <2>1
    <3>3. F[i] = [v[i] EXCEPT !.owner = IF owners THEN v[Table(i[2])].owner ELSE v[i].owner,
                    !.readers = v[Table(i[2])].readers \ {IF owners THEN v[Table(i[2])].owner ELSE v[i].owner}]
      BY <2>1
    <3> HIDE DEF F, w
    <3>4. w[i] = F[i]
      BY <3>1, <3>2 DEF @@
    <3> QED BY <3>3, <3>4, <2>1
  <2> QED BY <2>2 DEF i
<1>3. ASSUME NEW e \in es PROVE w[View(e, v[Table(e)].place)] = row(e)
  BY <1>1, <1>2 DEF ViewRow
<1>4. ASSUME NEW e \in es PROVE row(e) \in ViewRow
  BY <1>1 DEF ViewRow, TableRow
<1>5. \A i \in Book : i \notin {View(e, v[Table(e)].place) : e \in es} => w[i] = v[i]
  <2>1. {View(e, Place(v, e)) : e \in es} = {View(e, v[Table(e)].place) : e \in es}
    BY <1>1
  <2> QED BY <2>1, Booked DEF Follow, @@, Typed
<1>6. Item \subseteq DOMAIN w
  BY DEF Follow, @@, Typed
<1> HIDE DEF w, row
<1>7. \A t \in Tables : w[Column(t)] = v[Column(t)] /\ w[Trig(t)] = v[Trig(t)]
  BY <1>5, Booked, Distinct
<1>8. \A e \in Entities : w[Meta(e)] = v[Meta(e)] /\ w[Table(e)] = v[Table(e)]
  BY <1>5, Booked, Distinct
<1>9. \A e \in Entities, p \in Places : w[View(e, p)] \in ViewRow \cup {None}
  <2> SUFFICES ASSUME NEW e \in Entities, NEW p \in Places PROVE w[View(e, p)] \in ViewRow \cup {None}
    OBVIOUS
  <2>1. CASE View(e, p) \in {View(f, v[Table(f)].place) : f \in es}
    BY <2>1, <1>3, <1>4
  <2>2. CASE View(e, p) \notin {View(f, v[Table(f)].place) : f \in es}
    BY <2>2, <1>5, Booked DEF Typed
  <2> QED BY <2>1, <2>2
<1>10. Typed(w)
  BY <1>6, <1>7, <1>8, <1>9 DEF Typed
<1> QED BY <1>3, <1>4, <1>5, <1>10 DEF w, row, FollowedView

-----------------------------------------------------------------------------
(* Each action turns the books of a session as the invariant asks.         *)

LEMMA AtRest ==
  ASSUME IInv, NEW s \in Sessions, txn[s].step = None \/ Replacing(s)
  PROVE  Typed(Seen(s)) /\ \A e \in Entities : Whole(Seen(s), e)
<1>1. \A e \in Entities : ~Creating(s, e)
  BY NoneAssumption DEF Creating, Replacing
<1> QED BY <1>1 DEF IInv, Shaped, SeenWhole

LEMMA TurnsQuietly ==
  ASSUME IInv, NEW s \in Sessions, txn[s].step = None, NEW by, NEW locks, NEW v,
         Typed(v), \A e \in Entities : Same(Seen(s), v, e)
  PROVE  Turns(s, v, by, locks, None)
<1>1. Typed(Seen(s)) /\ \A e \in Entities : Whole(Seen(s), e)
  BY AtRest
<1>2. \A e \in Entities : Whole(v, e)
  BY <1>1, SameIsWhole
<1>3. StepOK(None) /\ \A e \in Entities : None # [kind |-> "create", entity |-> e]
  BY NoneAssumption DEF StepOK
<1>4. \A e \in Entities :
        /\ ~(Seen(s)[Meta(e)] # None /\ v[Meta(e)] = None)
        /\ Seen(s)[Table(e)] # None => Keeps(Seen(s), v, e)
  BY DEF Same, Keeps
<1> QED BY <1>2, <1>3, <1>4 DEF Turns

LEMMA WriteKeeps ==
  ASSUME IInv, NEW s \in Sessions, Write(s)
  PROVE  IInv'
<1>t. PICK t \in Tables : \E x, es, by, locks :
        Begins(s) /\ Change(s, by, locks, Refreshed(Val(t) :> x @@ Seen(s), es), None)
  BY DEF Write
<1>1. PICK x, es, by, locks : Begins(s) /\ Change(s, by, locks, Refreshed(Val(t) :> x @@ Seen(s), es), None)
  BY <1>t
<1> DEFINE u == Seen(s)
<1> DEFINE w == Val(t) :> x @@ Seen(s)
<1> DEFINE v == Refreshed(w, es)
<1>2. Typed(u) /\ txn[s].step = None
  BY <1>1 DEF Begins, IInv, Shaped
<1>3. Agree(u, w) /\ Item \subseteq DOMAIN w
  <2>1. Val(t) \notin Book
    BY Booking, Distinct
  <2> QED BY <2>1, <1>2, Booked DEF Agree, @@, :>, Typed
<1> HIDE DEF w
<1>4. Agree(w, v) /\ Item \subseteq DOMAIN v
  BY <1>3, RefreshedKeeps
<1>5. Agree(u, v)
  BY <1>3, <1>4 DEF Agree
<1>6. Typed(v) /\ \A e \in Entities : Same(u, v, e)
  BY <1>2, <1>4, <1>5, Agreeing
<1>7. Turns(s, v, by, locks, None)
  BY <1>2, <1>6, TurnsQuietly
<1> QED BY <1>1, <1>7, Stepped DEF w

LEMMA RenameColumnKeeps ==
  ASSUME IInv, NEW s \in Sessions, RenameColumn(s)
  PROVE  IInv'
<1> DEFINE u == Seen(s)
<1> DEFINE w(t) == Column(t) :> (1 - u[Column(t)]) @@ u
<1> DEFINE es(t) == {e \in Registered(u) : t \in u[Meta(e)].def.reads /\ ~u[Meta(e)].def.through}
<1>t. PICK t \in Tables : \E by, locks : Begins(s) /\ Change(s, by, locks, Reregistered(w(t), es(t)), None)
  BY DEF RenameColumn
<1>1. PICK by, locks : Begins(s) /\ Change(s, by, locks, Reregistered(w(t), es(t)), None)
  BY <1>t
<1>2. Typed(u) /\ txn[s].step = None
  BY <1>1 DEF Begins, IInv, Shaped
<1>3. Item \subseteq DOMAIN w(t) /\ w(t)[Column(t)] = 1 - u[Column(t)]
      /\ \A i \in Book : i # Column(t) => w(t)[i] = u[i]
  BY <1>2, Booked DEF @@, :>, Typed
<1> HIDE DEF w, es, u
<1>4. \A f \in Tables : w(t)[Column(f)] \in {0, 1} /\ w(t)[Trig(f)] = u[Trig(f)]
  BY <1>2, <1>3, Booked, Distinct DEF Typed
<1>5. \A e \in Entities : w(t)[Meta(e)] = u[Meta(e)] /\ w(t)[Table(e)] = u[Table(e)]
  BY <1>3, Booked, Distinct
<1>6. \A e \in Entities, p \in Places : w(t)[View(e, p)] = u[View(e, p)]
  BY <1>3, Booked, Distinct
<1>7. Typed(w(t))
  BY <1>2, <1>3, <1>4, <1>5, <1>6 DEF Typed
<1>8. \A e \in Entities : Same(u, w(t), e)
  BY <1>4, <1>5, <1>6 DEF Same, Visible
<1>9. es(t) \subseteq Registered(w(t))
  BY <1>5 DEF es, Registered
<1>10. Typed(Reregistered(w(t), es(t))) /\ \A e \in Entities : Same(u, Reregistered(w(t), es(t)), e)
  BY <1>7, <1>8, <1>9, Reregisters, SameIsEquivalence
<1>11. Turns(s, Reregistered(w(t), es(t)), by, locks, None)
  BY <1>2, <1>10, TurnsQuietly DEF u
<1> QED BY <1>1, <1>11, Stepped

LEMMA ReplaceBeginKeeps ==
  ASSUME IInv, NEW s \in Sessions, ReplaceBegin(s)
  PROVE  IInv'
<1> DEFINE u == Seen(s)
<1> DEFINE step(e, d) == [kind |-> "replace", entity |-> e, def |-> d, readers |-> Readers(u, {e}) \ {e}]
<1> DEFINE locks(e, d) == Lock("entity", "entity", {e}) \cup Lock("read", "tview", {e}) \cup Lock("read", "view", {e})
                  \cup Lock("begun", "tview", {e}) \cup LockRead("read", d)
<1>1. PICK e \in Entities : \E d \in Definitions(e) :
        u[Meta(e)] # None /\ Begins(s) /\ Change(s, As(u[Table(e)].owner), locks(e, d), u, step(e, d))
  BY DEF ReplaceBegin
<1>2. PICK d \in Definitions(e) :
        u[Meta(e)] # None /\ Begins(s) /\ Change(s, As(u[Table(e)].owner), locks(e, d), u, step(e, d))
  BY <1>1
<1> DEFINE x == step(e, d)
<1>3. Typed(u) /\ \A f \in Entities : Whole(u, f)
  BY <1>2, AtRest DEF Begins
<1>4. d \in Definition
  BY DEF Definition
<1>5. x.kind = "replace" /\ x.entity = e /\ StepOK(x) /\ \A f \in Entities : x # [kind |-> "create", entity |-> f]
  <2>1. x.kind = "replace" /\ x.entity = e /\ x.def = d
        /\ x = [kind |-> "replace", entity |-> x.entity, def |-> x.def, readers |-> x.readers]
    OBVIOUS
  <2>2. \A f \in Entities : [kind |-> "create", entity |-> f].kind = "create"
    OBVIOUS
  <2> HIDE DEF x
  <2> QED BY <2>1, <2>2, <1>4 DEF StepOK
<1>6. ReadLocks(e) \subseteq locks(e, d)
  BY DEF ReadLocks
<1>7. \A f \in Entities : Same(u, u, f) /\ (u[Table(f)] # None => Keeps(u, u, f))
  BY SameIsEquivalence DEF Keeps
<1> HIDE DEF x, locks
<1>8. Turns(s, u, As(u[Table(e)].owner), locks(e, d), x)
  BY <1>2, <1>3, <1>5, <1>6, <1>7 DEF Turns
<1> QED BY <1>2, <1>8, Stepped DEF x

LEMMA CreateFillKeeps ==
  ASSUME IInv, NEW s \in Sessions, CreateFill(s)
  PROVE  IInv'
<1> DEFINE u == Seen(s)
<1> DEFINE table(p, r) == [owner |-> r, place |-> p, readers |-> DefaultReaders(p) \ {r}]
<1> DEFINE view(d, r) == [def |-> d, owner |-> r, readers |-> {}, left |-> FALSE]
<1> DEFINE created(e, p, r, d) ==
      Rows(e) :> Result(u, d) @@ Table(e) :> table(p, r) @@ View(e, p) :> view(d, r) @@ Written(u, e, d)
<1> DEFINE step(e) == [kind |-> "create", entity |-> e]
<1> DEFINE locks(e, d) == Lock("entity", "entity", {e}) \cup Lock("all", "tview", {e}) \cup Started(d)
<1>1. PICK e \in Entities, p \in Places, r \in Roles : \E d \in Definitions(e) :
        /\ u[Meta(e)] = None /\ u[Table(e)] = None /\ NameIsFree(u, e, p) = TRUE
        /\ Readable(u, d) /\ Acyclic(created(e, p, r, d))
        /\ Begins(s)
        /\ Change(s, As(r), locks(e, d), created(e, p, r, d), step(e))
  BY DEF CreateFill
<1>2. PICK d \in Definitions(e) :
        /\ u[Meta(e)] = None /\ u[Table(e)] = None /\ Begins(s)
        /\ Change(s, As(r), locks(e, d), created(e, p, r, d), step(e))
  BY <1>1
<1> DEFINE w == Written(u, e, d)
<1> DEFINE v == created(e, p, r, d)
<1>3. Typed(u) /\ \A f \in Entities : Whole(u, f)
  BY <1>2, AtRest DEF Begins
<1>4. d \in Definition
  BY DEF Definition
<1>5. Typed(w) /\ w[Meta(e)] # None /\ w[Meta(e)].def = d /\ \A i \in Book : i # Meta(e) => w[i] = u[i]
  BY <1>3, <1>4, Writes
<1>6. table(p, r) \in TableRow /\ view(d, r) \in ViewRow /\ table(p, r) # None /\ view(d, r) # None
  <2>1. DefaultReaders(p) \ {r} \in SUBSET Roles /\ {} \in SUBSET Roles
    BY RolesAssumption
  <2>2. table(p, r) \in TableRow
    BY <2>1 DEF TableRow
  <2>3. view(d, r) \in ViewRow
    BY <2>1, <1>4 DEF ViewRow
  <2> QED BY <2>2, <2>3, NoneAssumption
<1>7. /\ Item \subseteq DOMAIN v
      /\ \A i \in Book : v[i] = IF i = Table(e) THEN table(p, r) ELSE IF i = View(e, p) THEN view(d, r) ELSE w[i]
  <2>1. \A i \in Book : i # Rows(e) /\ Table(e) # View(e, p)
    BY Booking, Distinct
  <2> DEFINE a == Rows(e) :> Result(u, d)
  <2> DEFINE b == a @@ Table(e) :> table(p, r)
  <2> DEFINE c == b @@ View(e, p) :> view(d, r)
  <2>2. DOMAIN a = {Rows(e)}
    BY DEF :>
  <2> HIDE DEF a, w, table, view
  <2>3. DOMAIN b = {Rows(e), Table(e)} /\ (Rows(e) # Table(e) => b[Table(e)] = table(p, r))
    BY <2>2 DEF @@, :>
  <2> HIDE DEF b
  <2>4. /\ DOMAIN c = {Rows(e), Table(e), View(e, p)}
        /\ c[Table(e)] = b[Table(e)]
        /\ Rows(e) # View(e, p) /\ Table(e) # View(e, p) => c[View(e, p)] = view(d, r)
    BY <2>3 DEF @@, :>
  <2>5. v = c @@ w
    BY DEF a, b, w
  <2> HIDE DEF c, v
  <2>6. Item \subseteq DOMAIN v /\ \A i \in Item : v[i] = IF i \in DOMAIN c THEN c[i] ELSE w[i]
    BY <2>5, <1>5 DEF @@, Typed
  <2>7. Rows(e) # Table(e) /\ Rows(e) # View(e, p)
    BY Distinct
  <2> QED BY <2>1, <2>3, <2>4, <2>6, <2>7, Booked
<1> DEFINE tb == table(p, r)
<1> DEFINE vw == view(d, r)
<1>8. /\ tb.owner = r /\ tb.place = p /\ r \notin tb.readers
      /\ vw.left = FALSE /\ vw.def = d /\ vw.owner = r /\ vw = [def |-> d, owner |-> r, readers |-> {}, left |-> FALSE]
  OBVIOUS
<1> HIDE DEF v, w, tb, vw, u, step, locks
<1>9. /\ v[Table(e)] = tb /\ v[View(e, p)] = vw /\ v[Meta(e)] # None /\ v[Meta(e)].def = d
      /\ \A q \in Places : q # p => v[View(e, q)] = u[View(e, q)]
  <2>1. Meta(e) # Table(e) /\ Meta(e) # View(e, p) /\ View(e, p) # Table(e)
    BY Distinct
  <2>2. \A q \in Places : q # p => View(e, q) # Table(e) /\ View(e, q) # View(e, p) /\ View(e, q) # Meta(e)
    BY Distinct
  <2> QED BY <2>1, <2>2, <1>5, <1>7, Booked DEF tb, vw
<1>10. \A t \in Tables : v[Column(t)] = u[Column(t)] /\ v[Trig(t)] = u[Trig(t)]
  BY <1>5, <1>7, Booked, Distinct
<1>11. \A f \in Entities : f # e => v[Table(f)] = u[Table(f)] /\ v[Meta(f)] = u[Meta(f)]
  BY <1>5, <1>7, Booked, Distinct
<1>12. \A f \in Entities, q \in Places : f # e => v[View(f, q)] = u[View(f, q)]
  BY <1>5, <1>7, Booked, Distinct
<1>13. v[Meta(e)] \in MetaRow
  <2>1. Meta(e) # Table(e) /\ Meta(e) # View(e, p)
    BY Distinct
  <2> QED BY <2>1, <1>5, <1>7, Booked DEF Typed
<1>14. Typed(v)
  <2>1. \A t \in Tables : v[Column(t)] \in {0, 1} /\ v[Trig(t)] \subseteq Entities
    BY <1>3, <1>10 DEF Typed
  <2>2. \A f \in Entities : v[Meta(f)] \in MetaRow \cup {None}
    BY <1>3, <1>11, <1>13 DEF Typed
  <2>3. \A f \in Entities : v[Table(f)] \in TableRow \cup {None}
    BY <1>3, <1>6, <1>9, <1>11 DEF Typed, tb
  <2>4. \A f \in Entities, q \in Places : v[View(f, q)] \in ViewRow \cup {None}
    <3> SUFFICES ASSUME NEW f \in Entities, NEW q \in Places PROVE v[View(f, q)] \in ViewRow \cup {None}
      OBVIOUS
    <3>1. CASE f = e /\ q = p
      BY <3>1, <1>6, <1>9 DEF vw
    <3>2. CASE ~(f = e /\ q = p)
      <4>1. v[View(f, q)] = u[View(f, q)]
        BY <3>2, <1>9, <1>12
      <4> QED BY <4>1, <1>3 DEF Typed
    <3> QED BY <3>1, <3>2
  <2> QED BY <2>1, <2>2, <2>3, <2>4, <1>7 DEF Typed
<1>15. Filled(v, e)
  <2>1. Backing(u, e) = {} /\ Triggered(u, e) = {}
    BY <1>2, <1>3 DEF Whole
  <2>2. Backing(v, e) = {p}
    BY <2>1, <1>6, <1>8, <1>9 DEF Backing, Visible, vw
  <2>3. Triggered(v, e) = {}
    BY <2>1, <1>10 DEF Triggered
  <2>4. FilledView(v, e) = vw
    BY <1>8, <1>9 DEF FilledView
  <2> QED BY <2>2, <2>3, <2>4, <1>6, <1>8, <1>9 DEF Filled, tb
<1>16. \A f \in Entities : f # e => Same(u, v, f)
  BY <1>10, <1>11, <1>12 DEF Same, Visible
<1>17. v[Witness(u, e)] # u[Witness(u, e)]
  BY <1>2, <1>6, <1>9 DEF Witness, tb
<1>18. /\ StepOK(step(e)) /\ step(e) = [kind |-> "create", entity |-> e] /\ step(e).kind = "create"
       /\ \A f \in Entities : step(e) = [kind |-> "create", entity |-> f] => f = e
  <2>1. step(e) \in [kind : {"create"}, entity : Entities] /\ step(e) = [kind |-> "create", entity |-> e]
    BY DEF step
  <2> QED BY <2>1 DEF StepOK
<1>19. \A f \in Entities : f # e => Whole(v, f)
  BY <1>16, <1>3, SameIsWhole
<1>20. \A f \in Entities : /\ ~(u[Meta(f)] # None /\ v[Meta(f)] = None)
                           /\ u[Table(f)] # None => Keeps(u, v, f)
  BY <1>2, <1>11 DEF Keeps
<1>21. Turns(s, v, As(r), locks(e, d), step(e))
  BY <1>14, <1>15, <1>16, <1>17, <1>18, <1>19, <1>20 DEF Turns, u
<1> QED BY <1>2, <1>21, Stepped DEF v

LEMMA CreateFinishKeeps ==
  ASSUME IInv, NEW s \in Sessions, CreateFinish(s)
  PROVE  IInv'
<1> DEFINE u == Seen(s)
<1> DEFINE e == txn[s].step.entity
<1> DEFINE d == u[Meta(e)].def
<1> DEFINE w == Follow(u, {e}, FALSE)
<1> DEFINE v == SyncTriggers(w, e, d)
<1>1. PICK locks : Change(s, {}, locks, v, None)
  BY DEF CreateFinish
<1>2. txn[s].step # None /\ txn[s].step.kind = "create"
  BY DEF CreateFinish
<1>3. e \in Entities /\ Creating(s, e)
  <2>1. txn[s].step \in [kind : {"create"}, entity : Entities]
    <3>1. ~(txn[s].step = [kind |-> "replace", entity |-> txn[s].step.entity, def |-> txn[s].step.def,
                           readers |-> txn[s].step.readers])
      BY <1>2
    <3> QED BY <3>1, <1>2 DEF IInv, Shaped, StepOK
  <2> QED BY <2>1 DEF Creating
<1>4. \A f \in Entities : f # e => ~Creating(s, f)
  BY <1>3 DEF Creating
<1>5. Typed(u) /\ Touched(s, e) /\ Filled(u, e) /\ \A f \in Entities : f # e => Whole(u, f)
  BY <1>3, <1>4 DEF IInv, Shaped, SeenWhole
<1> HIDE DEF u, e
<1> DEFINE table == u[Table(e)]
<1> DEFINE view == u[View(e, u[Table(e)].place)]
<1>6. /\ u[Meta(e)] # None /\ table # None /\ table.owner \notin table.readers
      /\ Backing(u, e) = {table.place} /\ view = FilledView(u, e)
  BY <1>5 DEF Filled
<1>7. view.def = d /\ view.owner = table.owner
  BY <1>6 DEF FilledView
<1>8. /\ Typed(w)
      /\ w[View(e, table.place)] = [def |-> view.def, owner |-> view.owner,
                                    readers |-> table.readers \ {view.owner}, left |-> FALSE]
      /\ w[View(e, table.place)] # None
      /\ \A i \in Book : i # View(e, table.place) => w[i] = u[i]
  <2>1. \A x \in {e} : u[Table(x)] # None /\ Backing(u, x) = {u[Table(x)].place}
    BY <1>6
  <2>2. {e} \subseteq Entities
    BY <1>3
  <2>3. /\ Typed(w)
        /\ \A x \in {e} :
             /\ w[View(x, u[Table(x)].place)] \in ViewRow
             /\ w[View(x, u[Table(x)].place)] = FollowedView(u, x, FALSE)
        /\ \A i \in Book : i \notin {View(x, u[Table(x)].place) : x \in {e}} => w[i] = u[i]
    BY <2>1, <2>2, <1>5, Follows
  <2> HIDE DEF w
  <2> QED BY <2>3, NoneAssumption DEF FollowedView
<1>9. w[View(e, table.place)] = BackingView(u, e)
  BY <1>6, <1>7, <1>8 DEF BackingView
<1>10. table.place \in Places
  BY <1>6 DEF Backing
<1> HIDE DEF w, d
<1>11. /\ Item \subseteq DOMAIN v
       /\ \A t \in Tables : v[Trig(t)] = (w[Trig(t)] \ {e}) \cup (IF t \in d.reads \ Matviews THEN {e} ELSE {})
       /\ \A i \in Book : i \notin {Trig(t) : t \in Tables} => v[i] = w[i]
  BY <1>3, <1>8, Syncs DEF Typed
<1> HIDE DEF v
<1>12. \A i \in Book : i \notin {Trig(t) : t \in Tables} /\ i # View(e, table.place) => v[i] = u[i]
  BY <1>8, <1>11
<1>13. \A t \in Tables : v[Column(t)] = u[Column(t)] /\ w[Trig(t)] = u[Trig(t)]
  BY <1>8, <1>12, Booked, Distinct
<1>14. \A f \in Entities : v[Meta(f)] = u[Meta(f)] /\ v[Table(f)] = u[Table(f)]
  BY <1>12, Booked, Distinct
<1>15. \A f \in Entities, q \in Places : v[View(f, q)] = w[View(f, q)] /\ (f # e \/ q # table.place => v[View(f, q)] = u[View(f, q)])
  BY <1>8, <1>11, Booked, Distinct
<1>16. \A t \in Tables, f \in Entities : f # e => (f \in v[Trig(t)] <=> f \in u[Trig(t)])
  BY <1>11, <1>13
<1>17. Typed(v)
  BY <1>3, <1>5, <1>8, <1>11, <1>13, <1>14, <1>15 DEF Typed
<1>18. Whole(v, e)
  <2>1. v[View(e, table.place)] = BackingView(v, e)
    BY <1>9, <1>10, <1>14, <1>15, <1>3 DEF BackingView
  <2>2. v[View(e, table.place)] # None /\ ~v[View(e, table.place)].left
    BY <1>8, <1>10, <1>15, <1>3, <2>1 DEF BackingView
  <2>3. Backing(v, e) = {table.place}
    BY <2>2, <1>3, <1>6, <1>10, <1>15 DEF Backing, Visible
  <2>4. Triggered(v, e) = d.reads \ Matviews
    <3>1. d \in Definition
      BY <1>3, <1>5, <1>6 DEF d, Typed, MetaRow
    <3>2. d.reads \subseteq Tables
      BY <3>1, DefinitionsAssumption
    <3> QED BY <3>2, <1>11 DEF Triggered
  <2> QED BY <2>1, <2>3, <2>4, <1>3, <1>6, <1>14 DEF Whole, d
<1>19. \A f \in Entities : f # e => Same(u, v, f)
  BY <1>14, <1>15, <1>16 DEF Same, Visible
<1>20. \A f \in Entities : Whole(v, f)
  BY <1>5, <1>18, <1>19, SameIsWhole
<1>21. StepOK(None) /\ \A f \in Entities : None # [kind |-> "create", entity |-> f]
  BY NoneAssumption DEF StepOK
<1>22. \A f \in Entities : /\ ~(u[Meta(f)] # None /\ v[Meta(f)] = None)
                           /\ u[Table(f)] # None => Keeps(u, v, f)
  BY <1>14 DEF Keeps
<1>23. Turns(s, v, {}, locks, None)
  BY <1>5, <1>17, <1>19, <1>20, <1>21, <1>22 DEF Turns, u
<1> QED BY <1>1, <1>23, Stepped DEF v, w, d

\* A TVIEW's view and registration rewritten.
LEMMA Rewrites ==
  ASSUME NEW u, Typed(u), NEW e \in Entities, NEW d \in Definition, NEW p \in Places, NEW view \in ViewRow
  PROVE  LET w == View(e, p) :> view @@ Written(u, e, d)
         IN /\ Typed(w) /\ w[Meta(e)] # None /\ w[Meta(e)].def = d /\ w[View(e, p)] = view
            /\ \A i \in Book : i # Meta(e) /\ i # View(e, p) => w[i] = u[i]
<1> DEFINE x == Written(u, e, d)
<1> DEFINE w == View(e, p) :> view @@ x
<1>1. Typed(x) /\ x[Meta(e)] # None /\ x[Meta(e)].def = d /\ \A i \in Book : i # Meta(e) => x[i] = u[i]
  BY Writes
<1> HIDE DEF x
<1>2. /\ Item \subseteq DOMAIN w /\ w[View(e, p)] = view
      /\ \A i \in Book : i # View(e, p) => w[i] = x[i]
  BY <1>1, Booked DEF @@, :>, Typed
<1> HIDE DEF w
<1>3. w[Meta(e)] = x[Meta(e)]
  BY <1>2, Booked, Distinct
<1>4. \A t \in Tables : w[Column(t)] = x[Column(t)] /\ w[Trig(t)] = x[Trig(t)]
  BY <1>2, Booked, Distinct
<1>5. \A f \in Entities : w[Meta(f)] = x[Meta(f)] /\ w[Table(f)] = x[Table(f)]
  BY <1>2, Booked, Distinct
<1>6. \A f \in Entities, q \in Places : w[View(f, q)] \in ViewRow \cup {None}
  BY <1>1, <1>2, Booked DEF Typed
<1>7. Typed(w)
  BY <1>1, <1>2, <1>4, <1>5, <1>6 DEF Typed
<1> QED BY <1>1, <1>2, <1>3, <1>7 DEF w, x

\* A TVIEW redefined in the books, and its triggers made to follow.
LEMMA Redefines ==
  ASSUME NEW u, NEW w, NEW e \in Entities, NEW d \in Definition,
         Typed(u), Typed(w), Whole(u, e), u[Meta(e)] # None,
         w[Meta(e)] # None, w[Meta(e)].def = d,
         w[View(e, u[Table(e)].place)] =
           [def |-> d, owner |-> u[Table(e)].owner, readers |-> u[Table(e)].readers, left |-> FALSE],
         \A i \in Book : i # Meta(e) /\ i # View(e, u[Table(e)].place) => w[i] = u[i]
  PROVE  LET v == SyncTriggers(w, e, d)
         IN /\ Typed(v) /\ Whole(v, e)
            /\ Same(u, v, e) \/ v[Witness(u, e)] # u[Witness(u, e)]
            /\ \A f \in Entities : f # e => Same(u, v, f)
            /\ \A f \in Entities : v[Table(f)] = u[Table(f)]
            /\ \A f \in Entities : v[Meta(f)] = None <=> u[Meta(f)] = None
<1> DEFINE table == u[Table(e)]
<1> DEFINE v == SyncTriggers(w, e, d)
<1>1. /\ table # None /\ table.owner \notin table.readers /\ Backing(u, e) = {table.place}
      /\ u[View(e, table.place)] = BackingView(u, e)
      /\ Triggered(u, e) = u[Meta(e)].def.reads \ Matviews /\ table.place \in Places
  BY DEF Whole, Backing
<1>2. /\ Item \subseteq DOMAIN v
      /\ \A t \in Tables : v[Trig(t)] = (w[Trig(t)] \ {e}) \cup (IF t \in d.reads \ Matviews THEN {e} ELSE {})
      /\ \A i \in Book : i \notin {Trig(t) : t \in Tables} => v[i] = w[i]
  BY Syncs DEF Typed
<1> HIDE DEF v
<1>3. \A i \in Book : i \notin {Trig(t) : t \in Tables} /\ i # Meta(e) /\ i # View(e, table.place) => v[i] = u[i]
  BY <1>2
<1>4. \A t \in Tables : v[Column(t)] = u[Column(t)] /\ w[Trig(t)] = u[Trig(t)]
  BY <1>3, Booked, Distinct
<1>5. \A f \in Entities : v[Table(f)] = u[Table(f)] /\ v[Meta(f)] = w[Meta(f)] /\ (f # e => v[Meta(f)] = u[Meta(f)])
  BY <1>2, <1>3, Booked, Distinct
<1>6. \A f \in Entities, q \in Places :
        v[View(f, q)] = w[View(f, q)] /\ (f # e \/ q # table.place => v[View(f, q)] = u[View(f, q)])
  BY <1>2, <1>3, Booked, Distinct
<1>7. \A t \in Tables, f \in Entities : f # e => (f \in v[Trig(t)] <=> f \in u[Trig(t)])
  BY <1>2, <1>4
<1>8. Typed(v)
  <2>1. \A t \in Tables : v[Trig(t)] \subseteq Entities
    BY <1>2 DEF Typed
  <2> QED BY <1>2, <1>4, <1>5, <1>6, <2>1 DEF Typed
<1> DEFINE view == [def |-> d, owner |-> table.owner, readers |-> table.readers, left |-> FALSE]
<1>v. v[View(e, table.place)] = view
  BY <1>1, <1>6
<1>9. v[View(e, table.place)] = BackingView(v, e) /\ v[View(e, table.place)].left = FALSE
      /\ v[View(e, table.place)].def = d
  <2>1. BackingView(v, e) = view
    BY <1>5 DEF BackingView
  <2> QED BY <2>1, <1>v
<1>10. v[View(e, table.place)] # None
  <2>1. table \in TableRow
    BY <1>1 DEF Typed
  <2>2. view \in ViewRow
    <3> HIDE DEF table
    <3>1. table.owner \in Roles /\ table.readers \in SUBSET Roles
      BY <2>1 DEF TableRow
    <3> QED BY <3>1 DEF ViewRow
  <2> HIDE DEF view
  <2> QED BY <2>2, <1>v, NoneAssumption
<1>11. Backing(v, e) = {table.place}
  BY <1>1, <1>6, <1>9, <1>10 DEF Backing, Visible
<1>12. Triggered(v, e) = d.reads \ Matviews
  <2>1. d.reads \subseteq Tables
    BY DefinitionsAssumption
  <2> QED BY <2>1, <1>2 DEF Triggered
<1>13. Whole(v, e)
  BY <1>1, <1>5, <1>9, <1>11, <1>12 DEF Whole
<1>14. \A f \in Entities : f # e => Same(u, v, f)
  BY <1>5, <1>6, <1>7 DEF Same, Visible
<1>15. CASE u[Meta(e)].def = d
  <2>1. BackingView(v, e) = BackingView(u, e)
    BY <1>5, <1>15 DEF BackingView
  <2>2. \A q \in Places : v[View(e, q)] = u[View(e, q)]
    BY <2>1, <1>1, <1>6, <1>9
  <2>3. \A t \in Tables : e \in v[Trig(t)] <=> e \in u[Trig(t)]
    BY <1>1, <1>12, <1>15 DEF Triggered
  <2>4. Same(u, v, e)
    BY <1>5, <1>15, <2>2, <2>3 DEF Same
  <2> QED BY <2>4, <1>5, <1>8, <1>13, <1>14 DEF v
<1>16. CASE u[Meta(e)].def # d
  <2>1. u[View(e, table.place)].def = u[Meta(e)].def
    BY <1>1 DEF BackingView
  <2>2. v[Witness(u, e)] # u[Witness(u, e)]
    BY <2>1, <1>9, <1>16 DEF Witness
  <2> QED BY <2>2, <1>5, <1>8, <1>13, <1>14 DEF v
<1> QED BY <1>15, <1>16

LEMMA ReplaceFinishKeeps ==
  ASSUME IInv, NEW s \in Sessions, ReplaceFinish(s)
  PROVE  IInv'
<1> DEFINE u == Seen(s)
<1> DEFINE step == txn[s].step
<1> DEFINE e == step.entity
<1> DEFINE d == step.def
<1> DEFINE es == {e} \cup step.readers
<1> DEFINE p == Place(u, e)
<1> DEFINE w == View(e, p) :> [u[View(e, p)] EXCEPT !.def = d] @@ Written(u, e, d)
<1> DEFINE x == SyncTriggers(w, e, d)
<1> DEFINE y == Reregistered(x, step.readers)
<1> DEFINE v == Refreshed(y, es)
<1> DEFINE locks == Shared(u, es, d) \cup Lock("exclusive", "tview", es)
                      \cup Lock("entity", "entity", step.readers) \cup Lock("all", "view", {e})
                      \cup Lock("trigger", "table", d.reads \ (u[Meta(e)].def.reads \cup Matviews))
                      \cup Lock("all", "table", u[Meta(e)].def.reads \ (d.reads \cup Matviews))
<1>1. Replacing(s) /\ step.readers \subseteq Registered(u) /\ Change(s, {}, locks, v, None)
  BY DEF ReplaceFinish, Replacing
<1>2. e \in Entities /\ d \in Definition /\ u[Meta(e)] # None
  <2>1. step \notin [kind : {"create"}, entity : Entities]
    BY <1>1 DEF Replacing
  <2> QED BY <1>1, <2>1 DEF IInv, Shaped, StepOK, ReplacesLocked, Replacing
<1>3. Typed(u) /\ \A f \in Entities : Whole(u, f)
  BY <1>1, AtRest
<1> DEFINE table == u[Table(e)]
<1>4. /\ p = table.place /\ p \in Places /\ u[View(e, p)] = BackingView(u, e)
  <2>1. Whole(u, e)
    BY <1>2, <1>3
  <2> HIDE DEF u, e
  <2>2. Backing(u, e) = {table.place} /\ u[View(e, table.place)] = BackingView(u, e)
    BY <2>1, <1>2 DEF Whole
  <2>3. Place(u, e) = table.place /\ table.place \in Places
    BY <2>2, PlaceIs
  <2> QED BY <2>2, <2>3
<1> HIDE DEF u, e, d, p, step
<1>5. [u[View(e, p)] EXCEPT !.def = d] =
        [def |-> d, owner |-> table.owner, readers |-> table.readers, left |-> FALSE]
  <2> DEFINE view == u[View(e, p)]
  <2>1. view = [def |-> u[Meta(e)].def, owner |-> table.owner, readers |-> table.readers, left |-> FALSE]
    BY <1>4 DEF BackingView
  <2>2. view.owner = table.owner /\ view.readers = table.readers /\ view.left = FALSE
    <3> HIDE DEF view, table
    <3>1. view.owner = table.owner /\ view.readers = table.readers
      BY <2>1
    <3>2. view.left = FALSE
      BY <2>1
    <3> QED BY <3>1, <3>2
  <2>3. view \in ViewRow
    <3>1. Backing(u, e) = {p}
      <4>1. Whole(u, e)
        BY <1>2, <1>3
      <4> QED BY <4>1, <1>2, <1>4 DEF Whole
    <3>2. view # None
      BY <3>1 DEF Backing, Visible
    <3>3. view \in ViewRow \cup {None}
      BY <1>2, <1>3, <1>4 DEF Typed
    <3> QED BY <3>2, <3>3
  <2> HIDE DEF view, table
  <2>4. [view EXCEPT !.def = d] = [def |-> d, owner |-> view.owner, readers |-> view.readers, left |-> view.left]
    BY <2>3 DEF ViewRow
  <2>5. [view EXCEPT !.def = d] = [def |-> d, owner |-> table.owner, readers |-> table.readers, left |-> FALSE]
    BY <2>2, <2>4
  <2> QED BY <2>5 DEF view
<1>6. [def |-> d, owner |-> table.owner, readers |-> table.readers, left |-> FALSE] \in ViewRow
  <2>1. table \in TableRow
    BY <1>2, <1>3 DEF Typed, Whole
  <2> QED BY <2>1, <1>2 DEF TableRow, ViewRow
<1>7. /\ Typed(w) /\ w[Meta(e)] # None /\ w[Meta(e)].def = d
      /\ w[View(e, p)] = [def |-> d, owner |-> table.owner, readers |-> table.readers, left |-> FALSE]
      /\ \A i \in Book : i # Meta(e) /\ i # View(e, p) => w[i] = u[i]
  BY <1>2, <1>3, <1>4, <1>5, <1>6, Rewrites
<1> HIDE DEF w
<1>11. /\ Typed(x) /\ Whole(x, e)
       /\ Same(u, x, e) \/ x[Witness(u, e)] # u[Witness(u, e)]
       /\ \A f \in Entities : f # e => Same(u, x, f)
       /\ \A f \in Entities : x[Table(f)] = u[Table(f)]
       /\ \A f \in Entities : x[Meta(f)] = None <=> u[Meta(f)] = None
  BY <1>2, <1>3, <1>4, <1>7, Redefines
<1> HIDE DEF x
<1>12. Typed(y) /\ \A f \in Entities : Same(x, y, f)
  <2>1. step.readers \subseteq Registered(x)
    BY <1>1, <1>11 DEF Registered, u, step
  <2> QED BY <2>1, <1>11, Reregisters
<1> HIDE DEF y
<1>13. Agree(y, v) /\ Item \subseteq DOMAIN v
  BY <1>12, RefreshedKeeps DEF Typed
<1> HIDE DEF v
<1>14. Typed(v) /\ \A f \in Entities : Same(y, v, f)
  BY <1>12, <1>13, Agreeing
<1>15. \A f \in Entities : Same(x, v, f)
  BY <1>12, <1>14, SameIsEquivalence
<1>16. \A f \in Entities : Whole(v, f)
  <2>1. Whole(v, e)
    BY <1>2, <1>11, <1>15, SameIsWhole
  <2>2. \A f \in Entities : f # e => Same(u, v, f)
    BY <1>11, <1>15, SameIsEquivalence
  <2> QED BY <2>1, <2>2, <1>3, SameIsWhole
<1>17. \A f \in Entities : Same(u, v, f) \/ v[Witness(u, f)] # u[Witness(u, f)]
  <2>1. \A f \in Entities : Same(u, x, f) => Same(u, v, f)
    BY <1>15, SameIsEquivalence
  <2>2. Witness(u, e) = View(e, p)
    BY <1>2, <1>4 DEF Witness
  <2>3. x[View(e, p)] = v[View(e, p)]
    <3>1. Visible(x, e, p)
      BY <1>2, <1>4, <1>11 DEF Whole, Backing
    <3> QED BY <3>1, <1>2, <1>4, <1>15 DEF Same
  <2> QED BY <2>1, <2>2, <2>3, <1>11
<1>18. \A f \in Entities : /\ ~(u[Meta(f)] # None /\ v[Meta(f)] = None)
                           /\ u[Table(f)] # None => Keeps(u, v, f)
  BY <1>11, <1>15 DEF Same, Keeps
<1>19. StepOK(None) /\ \A f \in Entities : None # [kind |-> "create", entity |-> f]
  BY NoneAssumption DEF StepOK
<1> HIDE DEF locks
<1>20. Turns(s, v, {}, locks, None)
  BY <1>14, <1>16, <1>17, <1>18, <1>19 DEF Turns, u
<1> QED BY <1>1, <1>20, Stepped

LEMMA RebuildKeeps ==
  ASSUME IInv, NEW s \in Sessions, Rebuild(s)
  PROVE  IInv'
<1> DEFINE u == Seen(s)
<1> DEFINE table(e) == u[Table(e)]
<1> DEFINE row(e, d) == [def |-> d, owner |-> table(e).owner, readers |-> {}, left |-> FALSE]
<1> DEFINE put(e, d) == View(e, Place(u, e)) :> row(e, d) @@ Written(u, e, d)
<1> DEFINE rebuilt(e, d) == SyncTriggers(Follow(put(e, d), {e}, TRUE), e, d)
<1> DEFINE locks(e, d) ==
      Lock("entity", "entity", {e}) \cup Lock("all", "tview", {e}) \cup Lock("all", "view", {e})
        \cup Started(d) \cup Lock("all", "table", u[Meta(e)].def.reads \ Matviews)
        \cup Lock("trigger", "table", d.reads \ Matviews)
<1>1. PICK e \in Entities : \E d \in Definitions(e) :
        /\ u[Meta(e)] # None /\ Begins(s)
        /\ Change(s, As(table(e).owner), locks(e, d), Refreshed(rebuilt(e, d), {e}), None)
  BY DEF Rebuild
<1>2. PICK d \in Definitions(e) :
        /\ u[Meta(e)] # None /\ Begins(s)
        /\ Change(s, As(table(e).owner), locks(e, d), Refreshed(rebuilt(e, d), {e}), None)
  BY <1>1
<1> DEFINE p == table(e).place
<1> DEFINE z == put(e, d)
<1> DEFINE w == Follow(z, {e}, TRUE)
<1> DEFINE x == rebuilt(e, d)
<1> DEFINE v == Refreshed(x, {e})
<1>3. Typed(u) /\ \A f \in Entities : Whole(u, f)
  BY <1>2, AtRest DEF Begins
<1>4. d \in Definition
  BY DEF Definition
<1> HIDE DEF u
<1>5. /\ table(e) # None /\ table(e) \in TableRow /\ table(e).owner \notin table(e).readers
      /\ Backing(u, e) = {p} /\ p \in Places /\ Place(u, e) = p
  <2>1. Whole(u, e)
    BY <1>3
  <2>2. table(e) # None /\ table(e).owner \notin table(e).readers /\ Backing(u, e) = {p}
    BY <2>1, <1>2 DEF Whole
  <2> QED BY <2>2, <1>3, PlaceIs DEF Typed
<1>6. row(e, d) \in ViewRow /\ row(e, d) # None
  <2>1. row(e, d) \in ViewRow
    BY <1>4, <1>5 DEF TableRow, ViewRow
  <2> QED BY <2>1, NoneAssumption
<1>7. row(e, d).def = d /\ row(e, d).owner = table(e).owner /\ row(e, d).left = FALSE
  OBVIOUS
<1> HIDE DEF row
<1>8. /\ Typed(z) /\ z[Meta(e)] # None /\ z[Meta(e)].def = d /\ z[View(e, p)] = row(e, d)
      /\ \A i \in Book : i # Meta(e) /\ i # View(e, p) => z[i] = u[i]
  BY <1>3, <1>4, <1>5, <1>6, Rewrites
<1> HIDE DEF z
<1>9. z[Table(e)] = table(e)
  BY <1>8, Booked, Distinct
<1>10. Backing(z, e) = {p}
  <2>1. \A q \in Places : q # p => z[View(e, q)] = u[View(e, q)]
    BY <1>8, Booked, Distinct
  <2> QED BY <2>1, <1>5, <1>6, <1>7, <1>8 DEF Backing, Visible
<1>11. /\ Typed(w)
       /\ w[View(e, p)] \in ViewRow
       /\ w[View(e, p)] = FollowedView(z, e, TRUE)
       /\ \A i \in Book : i # View(e, p) => w[i] = z[i]
  <2>1. \A f \in {e} : z[Table(f)] # None /\ Backing(z, f) = {z[Table(f)].place}
    BY <1>5, <1>9, <1>10
  <2>2. /\ Typed(Follow(z, {e}, TRUE))
        /\ \A f \in {e} :
             /\ Follow(z, {e}, TRUE)[View(f, z[Table(f)].place)] \in ViewRow
             /\ Follow(z, {e}, TRUE)[View(f, z[Table(f)].place)] = FollowedView(z, f, TRUE)
        /\ \A i \in Book : i \notin {View(f, z[Table(f)].place) : f \in {e}} => Follow(z, {e}, TRUE)[i] = z[i]
    BY <2>1, <1>8, Follows
  <2> QED BY <2>2, <1>9
<1>12. FollowedView(z, e, TRUE) =
         [def |-> d, owner |-> table(e).owner, readers |-> table(e).readers, left |-> FALSE]
  <2>1. table(e).readers \ {table(e).owner} = table(e).readers
    BY <1>5
  <2>2. z[View(e, z[Table(e)].place)].def = d
    BY <1>7, <1>8, <1>9
  <2> QED BY <2>1, <2>2, <1>9 DEF FollowedView
<1> HIDE DEF w
<1>13. w[Meta(e)] # None /\ w[Meta(e)].def = d
  BY <1>8, <1>11, Booked, Distinct
<1>14. \A i \in Book : i # Meta(e) /\ i # View(e, p) => w[i] = u[i]
  BY <1>8, <1>11
<1>15. /\ Typed(SyncTriggers(w, e, d)) /\ Whole(SyncTriggers(w, e, d), e)
       /\ Same(u, SyncTriggers(w, e, d), e) \/ SyncTriggers(w, e, d)[Witness(u, e)] # u[Witness(u, e)]
       /\ \A f \in Entities : f # e => Same(u, SyncTriggers(w, e, d), f)
       /\ \A f \in Entities : SyncTriggers(w, e, d)[Table(f)] = u[Table(f)]
       /\ \A f \in Entities : SyncTriggers(w, e, d)[Meta(f)] = None <=> u[Meta(f)] = None
  <2>1. Whole(u, e) /\ u[Meta(e)] # None
    BY <1>2, <1>3
  <2>2. w[View(e, u[Table(e)].place)] =
          [def |-> d, owner |-> u[Table(e)].owner, readers |-> u[Table(e)].readers, left |-> FALSE]
    BY <1>11, <1>12
  <2> QED BY <2>1, <2>2, <1>3, <1>4, <1>11, <1>13, <1>14, Redefines
<1>16. x = SyncTriggers(w, e, d)
  BY DEF w, z
<1> HIDE DEF x
<1>17. Agree(x, v) /\ Item \subseteq DOMAIN v
  BY <1>15, <1>16, RefreshedKeeps DEF Typed
<1> HIDE DEF v
<1>18. Typed(v) /\ \A f \in Entities : Same(x, v, f)
  BY <1>15, <1>16, <1>17, Agreeing
<1>19. \A f \in Entities : Whole(v, f)
  <2>1. Whole(v, e)
    BY <1>15, <1>16, <1>18, SameIsWhole
  <2>2. \A f \in Entities : f # e => Same(u, v, f)
    BY <1>15, <1>16, <1>18, SameIsEquivalence
  <2> QED BY <2>1, <2>2, <1>3, SameIsWhole
<1>20. \A f \in Entities : Same(u, v, f) \/ v[Witness(u, f)] # u[Witness(u, f)]
  <2>1. \A f \in Entities : Same(u, x, f) => Same(u, v, f)
    BY <1>18, SameIsEquivalence
  <2>2. Witness(u, e) \in Book
    BY <1>3, WitnessIsBooked
  <2>3. x[Witness(u, e)] = v[Witness(u, e)]
    BY <2>2, <1>17 DEF Agree
  <2> QED BY <2>1, <2>3, <1>15, <1>16
<1>21. \A f \in Entities : /\ ~(u[Meta(f)] # None /\ v[Meta(f)] = None)
                           /\ u[Table(f)] # None => Keeps(u, v, f)
  BY <1>15, <1>16, <1>18 DEF Same, Keeps
<1>22. StepOK(None) /\ \A f \in Entities : None # [kind |-> "create", entity |-> f]
  BY NoneAssumption DEF StepOK
<1> HIDE DEF locks, table
<1>23. Turns(s, v, As(table(e).owner), locks(e, d), None)
  BY <1>18, <1>19, <1>20, <1>21, <1>22 DEF Turns, u
<1> QED BY <1>2, <1>23, Stepped DEF v, x

LEMMA MoveKeeps ==
  ASSUME IInv, NEW s \in Sessions, Move(s)
  PROVE  IInv'
<1> DEFINE u == Seen(s)
<1> DEFINE moved(e, p) == [u[Table(e)] EXCEPT !.place = p]
<1> DEFINE next(e, p) ==
      View(e, p) :> u[View(e, Place(u, e))] @@ View(e, Place(u, e)) :> None @@ Table(e) :> moved(e, p) @@ u
<1> DEFINE locks(e) == Lock("all", "tview", {e}) \cup Lock("all", "view", {e})
<1>1. PICK e \in Entities, p \in Places :
        /\ u[Meta(e)] # None /\ u[Table(e)].place # p /\ Begins(s)
        /\ Change(s, As(u[Table(e)].owner), locks(e), next(e, p), None)
  BY DEF Move
<1> DEFINE v == next(e, p)
<1> DEFINE table == u[Table(e)]
<1> DEFINE from == table.place
<1> DEFINE row == moved(e, p)
<1> DEFINE view == u[View(e, from)]
<1>2. Typed(u) /\ \A f \in Entities : Whole(u, f)
  BY <1>1, AtRest DEF Begins
<1> HIDE DEF u
<1>3. /\ table # None /\ table \in TableRow /\ Backing(u, e) = {from} /\ Place(u, e) = from /\ from \in Places
      /\ table.owner \notin table.readers /\ view = BackingView(u, e)
      /\ Triggered(u, e) = u[Meta(e)].def.reads \ Matviews
  <2>1. Whole(u, e)
    BY <1>2
  <2>2. /\ table # None /\ table.owner \notin table.readers /\ Backing(u, e) = {from}
        /\ view = BackingView(u, e) /\ Triggered(u, e) = u[Meta(e)].def.reads \ Matviews
    BY <2>1, <1>1 DEF Whole
  <2> QED BY <2>2, <1>2, PlaceIs DEF Typed
<1>4. view # None /\ ~view.left /\ view \in ViewRow
  <2>1. Visible(u, e, from)
    BY <1>3 DEF Backing
  <2> QED BY <2>1, <1>2, <1>3 DEF Visible, Typed
<1>5. /\ row \in TableRow /\ row.owner = table.owner /\ row.place = p /\ row.readers = table.readers
  BY <1>3 DEF TableRow
<1>6. row # None
  BY <1>5, NoneAssumption
<1> HIDE DEF moved
<1>7. View(e, p) # View(e, from) /\ View(e, p) # Table(e) /\ View(e, from) # Table(e)
  BY <1>1, Distinct
<1>8. /\ Item \subseteq DOMAIN v
      /\ v[View(e, p)] = view /\ v[View(e, from)] = None /\ v[Table(e)] = row
      /\ \A i \in Book : i \notin {View(e, p), View(e, from), Table(e)} => v[i] = u[i]
  <2> DEFINE a == View(e, p) :> view
  <2> DEFINE b == a @@ View(e, from) :> None
  <2> DEFINE c == b @@ Table(e) :> row
  <2>1. DOMAIN a = {View(e, p)} /\ a[View(e, p)] = view
    BY DEF :>
  <2> HIDE DEF a, view, row
  <2>2. DOMAIN b = {View(e, p), View(e, from)} /\ b[View(e, p)] = view /\ b[View(e, from)] = None
    BY <2>1, <1>7 DEF @@, :>
  <2> HIDE DEF b
  <2>3. /\ DOMAIN c = {View(e, p), View(e, from), Table(e)}
        /\ c[View(e, p)] = view /\ c[View(e, from)] = None /\ c[Table(e)] = row
    BY <2>2, <1>7 DEF @@, :>
  <2>4. v = c @@ u
    BY <1>3 DEF a, b, view, row
  <2> HIDE DEF c, v
  <2>5. Item \subseteq DOMAIN v /\ \A i \in Item : v[i] = IF i \in DOMAIN c THEN c[i] ELSE u[i]
    BY <2>4, <1>2 DEF @@, Typed
  <2> QED BY <2>3, <2>5, <1>3, Booked
<1> HIDE DEF v, row
<1>9. \A t \in Tables : v[Column(t)] = u[Column(t)] /\ v[Trig(t)] = u[Trig(t)]
  BY <1>8, Booked, Distinct
<1>10. \A f \in Entities : v[Meta(f)] = u[Meta(f)] /\ (f # e => v[Table(f)] = u[Table(f)])
  BY <1>8, Booked, Distinct
<1>11. \A f \in Entities, q \in Places : f # e \/ q \notin {p, from} => v[View(f, q)] = u[View(f, q)]
  BY <1>8, Booked, Distinct
<1>12. Typed(v)
  <2>1. \A f \in Entities : v[Table(f)] \in TableRow \cup {None}
    BY <1>2, <1>5, <1>8, <1>10 DEF Typed
  <2>2. \A f \in Entities, q \in Places : v[View(f, q)] \in ViewRow \cup {None}
    BY <1>2, <1>4, <1>8, <1>11 DEF Typed
  <2> QED BY <2>1, <2>2, <1>2, <1>8, <1>9, <1>10 DEF Typed
<1>13. Whole(v, e)
  <2>1. BackingView(v, e) = BackingView(u, e)
    BY <1>5, <1>8, <1>10 DEF BackingView
  <2>2. Backing(v, e) = {p}
    BY <1>3, <1>4, <1>8, <1>11 DEF Backing, Visible
  <2>3. Triggered(v, e) = Triggered(u, e)
    BY <1>9 DEF Triggered
  <2>4. v[Meta(e)] = u[Meta(e)] /\ v[Meta(e)] # None
    BY <1>1, <1>10
  <2> HIDE DEF table, view
  <2>5. v[View(e, v[Table(e)].place)] = BackingView(v, e) /\ Backing(v, e) = {v[Table(e)].place}
    BY <2>1, <2>2, <1>3, <1>5, <1>8
  <2>6. v[Table(e)].owner \notin v[Table(e)].readers
    BY <1>3, <1>5, <1>8
  <2> QED BY <2>3, <2>4, <2>5, <2>6, <1>3, <1>6, <1>8 DEF Whole
<1>14. \A f \in Entities : f # e => Same(u, v, f)
  BY <1>9, <1>10, <1>11 DEF Same, Visible
<1>15. \A f \in Entities : Whole(v, f)
  BY <1>2, <1>13, <1>14, SameIsWhole
<1>16. v[Witness(u, e)] # u[Witness(u, e)]
  BY <1>1, <1>4, <1>8 DEF Witness
<1>17. \A f \in Entities : f # e => Keeps(u, v, f) \/ u[Table(f)] = None
  BY <1>10 DEF Keeps
<1>18. As(table.owner) \cap Right(table) # {}
  BY DEF As, Right
<1>19. StepOK(None) /\ \A f \in Entities : None # [kind |-> "create", entity |-> f]
  BY NoneAssumption DEF StepOK
<1> HIDE DEF locks
<1>20. Turns(s, v, As(u[Table(e)].owner), locks(e), None)
  BY <1>10, <1>12, <1>14, <1>15, <1>16, <1>17, <1>18, <1>19 DEF Turns, u
<1> QED BY <1>1, <1>20, Stepped DEF v

LEMMA BackingFields ==
  ASSUME NEW v, NEW e
  PROVE  /\ BackingView(v, e).def = v[Meta(e)].def
         /\ BackingView(v, e).owner = v[Table(e)].owner
         /\ BackingView(v, e).readers = v[Table(e)].readers
         /\ ~BackingView(v, e).left
BY DEF BackingView

\* A TVIEW's table given other readers or another owner, and the views made to
\* follow.
LEMMA Regrants ==
  ASSUME NEW u, Typed(u), \A f \in Entities : Whole(u, f), NEW e \in Entities, u[Meta(e)] # None,
         NEW row \in TableRow, row.place = u[Table(e)].place, row.owner \notin row.readers,
         NEW owners \in BOOLEAN, owners \/ row.owner = u[Table(e)].owner,
         row.owner # u[Table(e)].owner \/ row.readers # u[Table(e)].readers
  PROVE  LET v == Follow(Table(e) :> row @@ u, Registered(u), owners)
         IN /\ Typed(v) /\ \A f \in Entities : Whole(v, f)
            /\ v[Witness(u, e)] # u[Witness(u, e)]
            /\ \A f \in Entities : f # e => Same(u, v, f) /\ v[Table(f)] = u[Table(f)]
            /\ \A f \in Entities : v[Meta(f)] = u[Meta(f)]
<1> DEFINE w == Table(e) :> row @@ u
<1> DEFINE v == Follow(w, Registered(u), owners)
<1> DEFINE table(f) == u[Table(f)]
<1> DEFINE given(f) == IF f = e THEN row ELSE table(f)
<1>1. \A f \in Registered(u) :
        /\ f \in Entities /\ u[Meta(f)] # None /\ table(f) # None /\ table(f) \in TableRow
        /\ table(f).owner \notin table(f).readers /\ table(f).place \in Places
        /\ Backing(u, f) = {table(f).place} /\ u[View(f, table(f).place)] = BackingView(u, f)
        /\ Triggered(u, f) = u[Meta(f)].def.reads \ Matviews
  <2> SUFFICES ASSUME NEW f \in Registered(u)
               PROVE  /\ f \in Entities /\ u[Meta(f)] # None /\ table(f) # None /\ table(f) \in TableRow
                      /\ table(f).owner \notin table(f).readers /\ table(f).place \in Places
                      /\ Backing(u, f) = {table(f).place} /\ u[View(f, table(f).place)] = BackingView(u, f)
                      /\ Triggered(u, f) = u[Meta(f)].def.reads \ Matviews
    OBVIOUS
  <2>1. f \in Entities /\ u[Meta(f)] # None
    BY DEF Registered
  <2>2. Whole(u, f)
    BY <2>1
  <2>3. /\ table(f) # None /\ table(f).owner \notin table(f).readers
        /\ Backing(u, f) = {table(f).place} /\ u[View(f, table(f).place)] = BackingView(u, f)
        /\ Triggered(u, f) = u[Meta(f)].def.reads \ Matviews
    BY <2>1, <2>2 DEF Whole
  <2> QED BY <2>1, <2>3 DEF Typed, Backing
<1>2. /\ Item \subseteq DOMAIN w /\ w[Table(e)] = row
      /\ \A i \in Book : i # Table(e) => w[i] = u[i]
  BY Booked DEF @@, :>, Typed
<1> HIDE DEF w
<1>3. \A t \in Tables : w[Column(t)] = u[Column(t)] /\ w[Trig(t)] = u[Trig(t)]
  BY <1>2, Booked, Distinct
<1>4. \A f \in Entities : w[Meta(f)] = u[Meta(f)] /\ w[Table(f)] = given(f)
  BY <1>2, Booked, Distinct
<1>5. \A f \in Entities, q \in Places : w[View(f, q)] = u[View(f, q)]
  BY <1>2, Booked, Distinct
<1>6. Typed(w)
  BY <1>2, <1>3, <1>4, <1>5 DEF Typed
<1>e. e \in Registered(u) /\ row # None
  BY NoneAssumption DEF Registered
<1>7. \A f \in Registered(u) :
        /\ w[Table(f)] = given(f) /\ given(f).place = table(f).place
        /\ w[Table(f)] # None /\ Backing(w, f) = {w[Table(f)].place}
  <2>1. \A f \in Entities : Backing(w, f) = Backing(u, f)
    BY <1>5 DEF Backing, Visible
  <2>2. \A f \in Registered(u) : given(f).place = table(f).place /\ given(f) # None
    BY <1>1, <1>e
  <2> HIDE DEF given, table
  <2> QED BY <2>1, <2>2, <1>1, <1>4
<1>8. /\ Typed(v)
      /\ \A f \in Registered(u) : /\ v[View(f, w[Table(f)].place)] \in ViewRow
                                  /\ v[View(f, w[Table(f)].place)] = FollowedView(w, f, owners)
      /\ \A i \in Book : i \notin {View(f, w[Table(f)].place) : f \in Registered(u)} => v[i] = w[i]
  BY <1>1, <1>6, <1>7, Follows
<1> HIDE DEF v
<1>9. \A f \in Registered(u) :
        FollowedView(w, f, owners) =
          [def |-> u[Meta(f)].def, owner |-> given(f).owner, readers |-> given(f).readers, left |-> FALSE]
  <2> SUFFICES ASSUME NEW f \in Registered(u)
               PROVE  FollowedView(w, f, owners) = [def |-> u[Meta(f)].def, owner |-> given(f).owner,
                                                    readers |-> given(f).readers, left |-> FALSE]
    OBVIOUS
  <2> DEFINE view == u[View(f, table(f).place)]
  <2>1. w[View(f, w[Table(f)].place)] = view
    BY <1>1, <1>5, <1>7
  <2>v. view = BackingView(u, f)
    BY <1>1
  <2>2. view.def = u[Meta(f)].def /\ view.owner = table(f).owner
    BY <2>v, BackingFields
  <2> DEFINE owner == IF owners THEN given(f).owner ELSE view.owner
  <2> HIDE DEF view
  <2>3. owner = given(f).owner
    BY <2>2
  <2>4. given(f).readers \ {given(f).owner} = given(f).readers
    BY <1>1
  <2>5. FollowedView(w, f, owners) = [def |-> view.def, owner |-> owner,
                                      readers |-> given(f).readers \ {owner}, left |-> FALSE]
    BY <2>1, <1>7 DEF FollowedView
  <2> QED BY <2>2, <2>3, <2>4, <2>5
<1>10. \A t \in Tables : v[Column(t)] = u[Column(t)] /\ v[Trig(t)] = u[Trig(t)]
  BY <1>3, <1>8, Booked, Distinct
<1>11. \A f \in Entities : v[Meta(f)] = u[Meta(f)] /\ v[Table(f)] = given(f)
  BY <1>4, <1>8, Booked, Distinct
<1>12. \A f \in Registered(u) : /\ v[View(f, table(f).place)] = BackingView(v, f)
                                /\ v[View(f, table(f).place)] \in ViewRow
  <2> SUFFICES ASSUME NEW f \in Registered(u)
               PROVE  v[View(f, table(f).place)] = BackingView(v, f) /\ v[View(f, table(f).place)] \in ViewRow
    OBVIOUS
  <2>1. w[Table(f)].place = table(f).place
    BY <1>7
  <2>2. v[View(f, w[Table(f)].place)] \in ViewRow /\ v[View(f, w[Table(f)].place)] = FollowedView(w, f, owners)
    BY <1>8
  <2>3. v[Meta(f)] = u[Meta(f)] /\ v[Table(f)] = given(f)
    BY <1>1, <1>11
  <2> HIDE DEF given, table
  <2>4. BackingView(v, f) = FollowedView(w, f, owners)
    BY <2>3, <1>9 DEF BackingView
  <2> QED BY <2>1, <2>2, <2>4
<1>13. \A f \in Entities, q \in Places :
         f \notin Registered(u) \/ q # table(f).place => v[View(f, q)] = u[View(f, q)]
  <2> SUFFICES ASSUME NEW f \in Entities, NEW q \in Places, f \notin Registered(u) \/ q # table(f).place
               PROVE  v[View(f, q)] = u[View(f, q)]
    OBVIOUS
  <2>1. \A g \in Registered(u) : View(f, q) # View(g, w[Table(g)].place)
    BY <1>7, Distinct
  <2> QED BY <2>1, <1>5, <1>8, Booked
<1>14. \A f \in Registered(u) : f # e => v[View(f, table(f).place)] = u[View(f, table(f).place)]
  BY <1>1, <1>11, <1>12 DEF BackingView
<1>15. \A f \in Entities : f # e => Same(u, v, f) /\ v[Table(f)] = u[Table(f)]
  <2> SUFFICES ASSUME NEW f \in Entities, f # e PROVE Same(u, v, f) /\ v[Table(f)] = u[Table(f)]
    OBVIOUS
  <2>1. \A q \in Places : v[View(f, q)] = u[View(f, q)]
    BY <1>13, <1>14
  <2> QED BY <2>1, <1>10, <1>11 DEF Same
<1>16. Whole(v, e)
  <2>1. v[View(e, row.place)] = BackingView(v, e) /\ v[View(e, row.place)] \in ViewRow
    BY <1>e, <1>12
  <2>2. v[View(e, row.place)] # None /\ ~v[View(e, row.place)].left
    BY <2>1, NoneAssumption, BackingFields
  <2>3. Backing(u, e) = {row.place} /\ Triggered(u, e) = u[Meta(e)].def.reads \ Matviews
    BY <1>e, <1>1
  <2>4. Backing(v, e) = {row.place}
    BY <2>2, <2>3, <1>13 DEF Backing, Visible
  <2>5. Triggered(v, e) = Triggered(u, e)
    BY <1>10 DEF Triggered
  <2>6. v[Table(e)] = row /\ v[Meta(e)] = u[Meta(e)]
    BY <1>11
  <2> QED BY <2>1, <2>3, <2>4, <2>5, <2>6, <1>e DEF Whole
<1>17. \A f \in Entities : Whole(v, f)
  BY <1>15, <1>16, SameIsWhole
<1>18. v[Witness(u, e)] # u[Witness(u, e)]
  <2>1. Witness(u, e) = View(e, row.place)
    BY DEF Witness
  <2>2. v[View(e, row.place)] = BackingView(v, e) /\ u[View(e, row.place)] = BackingView(u, e)
    BY <1>e, <1>1, <1>12
  <2>3. v[Table(e)] = row
    BY <1>11
  <2>4. BackingView(v, e).owner = row.owner /\ BackingView(v, e).readers = row.readers
    BY <2>3, BackingFields
  <2>5. BackingView(u, e).owner = u[Table(e)].owner /\ BackingView(u, e).readers = u[Table(e)].readers
    BY BackingFields
  <2> QED BY <2>1, <2>2, <2>4, <2>5
<1> QED BY <1>8, <1>11, <1>15, <1>17, <1>18 DEF v, w

LEMMA RegrantsKeep ==
  ASSUME IInv, NEW s \in Sessions, txn[s].step = None, NEW e \in Entities, Seen(s)[Meta(e)] # None,
         NEW row \in TableRow, row.place = Seen(s)[Table(e)].place, row.owner \notin row.readers,
         NEW owners \in BOOLEAN, owners \/ row.owner = Seen(s)[Table(e)].owner,
         row.owner # Seen(s)[Table(e)].owner \/ row.readers # Seen(s)[Table(e)].readers,
         NEW locks, NEW v, v = Follow(Table(e) :> row @@ Seen(s), Registered(Seen(s)), owners),
         Change(s, As(Seen(s)[Table(e)].owner), locks, v, None)
  PROVE  IInv'
<1> DEFINE u == Seen(s)
<1>1. Typed(u) /\ \A f \in Entities : Whole(u, f)
  BY AtRest
<1>2. /\ Typed(v) /\ \A f \in Entities : Whole(v, f)
      /\ v[Witness(u, e)] # u[Witness(u, e)]
      /\ \A f \in Entities : f # e => Same(u, v, f) /\ v[Table(f)] = u[Table(f)]
      /\ \A f \in Entities : v[Meta(f)] = u[Meta(f)]
  <2>1. Seen(s)[Meta(e)] # None /\ row.place = Seen(s)[Table(e)].place
    OBVIOUS
  <2> QED BY <2>1, <1>1, Regrants
<1> HIDE DEF u
<1>3. \A f \in Entities : f # e => Keeps(u, v, f) \/ u[Table(f)] = None
  BY <1>2 DEF Keeps
<1>4. As(u[Table(e)].owner) \cap Right(u[Table(e)]) # {}
  BY DEF As, Right
<1>5. StepOK(None) /\ \A f \in Entities : None # [kind |-> "create", entity |-> f]
  BY NoneAssumption DEF StepOK
<1>6. Turns(s, v, As(u[Table(e)].owner), locks, None)
  BY <1>2, <1>3, <1>4, <1>5 DEF Turns, u
<1> QED BY <1>6, Stepped DEF u

LEMMA GrantKeeps ==
  ASSUME IInv, NEW s \in Sessions, Grant(s)
  PROVE  IInv'
<1> DEFINE u == Seen(s)
<1> DEFINE table(e) == u[Table(e)]
<1> DEFINE given(e, r) == IF r \in table(e).readers THEN table(e).readers \ {r} ELSE table(e).readers \cup {r}
<1> DEFINE row(e, r) == [table(e) EXCEPT !.readers = given(e, r)]
<1> DEFINE locks(e) == Lock("read", "tview", {e})
<1>1. PICK e \in Entities, r \in Roles :
        /\ u[Meta(e)] # None /\ r # table(e).owner /\ Begins(s)
        /\ Change(s, As(table(e).owner), locks(e), Follow(Table(e) :> row(e, r) @@ u, Registered(u), FALSE), None)
  BY DEF Grant
<1>2. table(e) \in TableRow /\ table(e).owner \notin table(e).readers /\ txn[s].step = None
  <2>1. Typed(u) /\ Whole(u, e) /\ txn[s].step = None
    BY <1>1, AtRest DEF Begins
  <2> HIDE DEF u
  <2>2. u[Table(e)] # None /\ u[Table(e)].owner \notin u[Table(e)].readers
    BY <2>1, <1>1 DEF Whole
  <2> QED BY <2>1, <2>2 DEF Typed
<1>3. /\ row(e, r) \in TableRow /\ row(e, r).place = table(e).place /\ row(e, r).owner = table(e).owner
      /\ row(e, r).readers = given(e, r)
  <2> HIDE DEF u
  <2> QED BY <1>2 DEF TableRow
<1>4. given(e, r) # table(e).readers /\ table(e).owner \notin given(e, r)
  BY <1>1, <1>2
<1> DEFINE v == Follow(Table(e) :> row(e, r) @@ u, Registered(u), FALSE)
<1>5. row(e, r).owner \notin row(e, r).readers /\ row(e, r).readers # table(e).readers
  BY <1>3, <1>4
<1> HIDE DEF row, locks, given
<1> QED BY <1>1, <1>2, <1>3, <1>5, RegrantsKeep

LEMMA SetOwnerKeeps ==
  ASSUME IInv, NEW s \in Sessions, SetOwner(s)
  PROVE  IInv'
<1> DEFINE u == Seen(s)
<1> DEFINE table(e) == u[Table(e)]
<1> DEFINE row(e, r) == [table(e) EXCEPT !.owner = r, !.readers = @ \ {r}]
<1> DEFINE locks(e) == Lock("all", "tview", {e}) \cup Lock("all", "view", {e})
<1>1. PICK e \in Entities, r \in Roles :
        /\ u[Meta(e)] # None /\ r # table(e).owner /\ Begins(s)
        /\ Change(s, As(table(e).owner), locks(e), Follow(Table(e) :> row(e, r) @@ u, Registered(u), TRUE), None)
  BY DEF SetOwner
<1>2. table(e) \in TableRow /\ txn[s].step = None
  <2>1. Typed(u) /\ Whole(u, e) /\ txn[s].step = None
    BY <1>1, AtRest DEF Begins
  <2> HIDE DEF u
  <2>2. u[Table(e)] # None
    BY <2>1, <1>1 DEF Whole
  <2> QED BY <2>1, <2>2 DEF Typed
<1>3. /\ row(e, r) \in TableRow /\ row(e, r).place = table(e).place /\ row(e, r).owner = r
      /\ row(e, r).readers = table(e).readers \ {r}
  <2> HIDE DEF u
  <2> QED BY <1>2 DEF TableRow
<1>5. row(e, r).owner \notin row(e, r).readers /\ row(e, r).owner # table(e).owner
  BY <1>1, <1>3
<1> HIDE DEF row, locks
<1> QED BY <1>1, <1>2, <1>3, <1>5, RegrantsKeep

-----------------------------------------------------------------------------
(* Drops.                                                                  *)

Dropped(v, tables, tviews) == Registered(v) \cap (tviews \cup Backed(v, DependOn(v, tables, tviews)))
GoneViews(v, tables, tviews) ==
  DependOn(v, tables, tviews) \cup {<<e, Place(v, e)>> : e \in Dropped(v, tables, tviews)}

\* What a drop leaves of each item.
LEMMA Drops ==
  ASSUME NEW v, Typed(v), NEW tables, tables \subseteq Tables, NEW tviews, tviews \subseteq Entities
  PROVE  LET w == Drop(v, tables, tviews)
         IN /\ Item \subseteq DOMAIN w
            /\ \A t \in Tables :
                 /\ w[Column(t)] = v[Column(t)]
                 /\ w[Trig(t)] = IF t \in tables THEN {} ELSE v[Trig(t)] \ Dropped(v, tables, tviews)
            /\ \A e \in Entities :
                 /\ w[Meta(e)] = IF e \in Dropped(v, tables, tviews) THEN None ELSE v[Meta(e)]
                 /\ w[Table(e)] = IF e \in tviews THEN None ELSE v[Table(e)]
            /\ \A e \in Entities, p \in Places :
                 w[View(e, p)] = IF <<e, p>> \in GoneViews(v, tables, tviews) THEN None ELSE v[View(e, p)]
<1> DEFINE w == Drop(v, tables, tviews)
<1> DEFINE dropped == Dropped(v, tables, tviews)
<1> DEFINE gone == GoneViews(v, tables, tviews)
<1> DEFINE a == [i \in {View(n[1], n[2]) : n \in gone} |-> None]
<1> DEFINE b == [i \in {Meta(e) : e \in dropped} |-> None]
<1> DEFINE c == [i \in UNION {{Table(e), Rows(e)} : e \in tviews} |-> None]
<1> DEFINE d == [i \in {Val(t) : t \in tables} |-> Gone]
<1> DEFINE f == [i \in {Trig(t) : t \in Tables} |-> IF i[2] \in tables THEN {} ELSE v[i] \ dropped]
<1>1. w = a @@ b @@ c @@ d @@ f @@ v
  BY DEF Drop, Dropped, GoneViews
<1>2. /\ DOMAIN a = {View(n[1], n[2]) : n \in gone} /\ \A i \in DOMAIN a : a[i] = None
      /\ DOMAIN b = {Meta(e) : e \in dropped} /\ \A i \in DOMAIN b : b[i] = None
      /\ DOMAIN c = UNION {{Table(e), Rows(e)} : e \in tviews} /\ \A i \in DOMAIN c : c[i] = None
      /\ DOMAIN d = {Val(t) : t \in tables}
      /\ DOMAIN f = {Trig(t) : t \in Tables}
  OBVIOUS
<1>3. \A t \in Tables : f[Trig(t)] = IF t \in tables THEN {} ELSE v[Trig(t)] \ dropped
  BY Distinct
<1> HIDE DEF a, b, c, d, f, w, dropped, gone
<1>4. /\ Item \subseteq DOMAIN w
      /\ \A i \in Item : w[i] = IF i \in DOMAIN a \cup DOMAIN b \cup DOMAIN c THEN None
                                ELSE IF i \in DOMAIN d THEN d[i]
                                ELSE IF i \in DOMAIN f THEN f[i] ELSE v[i]
  <2> DEFINE ab == a @@ b
  <2> DEFINE abc == ab @@ c
  <2> DEFINE abcd == abc @@ d
  <2> DEFINE abcdf == abcd @@ f
  <2>1. DOMAIN ab = DOMAIN a \cup DOMAIN b /\ \A i \in DOMAIN ab : ab[i] = None
    BY <1>2 DEF @@
  <2>2. w = abcdf @@ v
    BY <1>1
  <2> HIDE DEF ab
  <2>3. DOMAIN abc = DOMAIN ab \cup DOMAIN c /\ \A i \in DOMAIN abc : abc[i] = None
    BY <2>1, <1>2 DEF @@
  <2> HIDE DEF abc
  <2>4. /\ DOMAIN abcd = DOMAIN abc \cup DOMAIN d
        /\ \A i \in DOMAIN abcd : abcd[i] = IF i \in DOMAIN abc THEN None ELSE d[i]
    BY <2>3 DEF @@
  <2> HIDE DEF abcd
  <2>5. /\ DOMAIN abcdf = DOMAIN abcd \cup DOMAIN f
        /\ \A i \in DOMAIN abcdf : abcdf[i] = IF i \in DOMAIN abcd THEN abcd[i] ELSE f[i]
    BY DEF @@
  <2> HIDE DEF abcdf
  <2>6. /\ Item \subseteq DOMAIN w
        /\ \A i \in Item : w[i] = IF i \in DOMAIN abcdf THEN abcdf[i] ELSE v[i]
    BY <2>2 DEF @@, Typed
  <2> QED BY <2>1, <2>3, <2>4, <2>5, <2>6
<1>5. ASSUME NEW t \in Tables
      PROVE  /\ w[Column(t)] = v[Column(t)]
             /\ w[Trig(t)] = IF t \in tables THEN {} ELSE v[Trig(t)] \ dropped
  <2>1. \A i \in {Column(t), Trig(t)} : i \notin DOMAIN a \cup DOMAIN b \cup DOMAIN c \cup DOMAIN d
    BY <1>2, Distinct
  <2>2. Column(t) \notin DOMAIN f /\ Trig(t) \in DOMAIN f
    BY <1>2, Distinct
  <2> QED BY <2>1, <2>2, <1>3, <1>4, Booked
<1>6. ASSUME NEW e \in Entities
      PROVE  /\ w[Meta(e)] = IF e \in dropped THEN None ELSE v[Meta(e)]
             /\ w[Table(e)] = IF e \in tviews THEN None ELSE v[Table(e)]
  <2>1. Meta(e) \notin DOMAIN a \cup DOMAIN c \cup DOMAIN d \cup DOMAIN f /\ (Meta(e) \in DOMAIN b <=> e \in dropped)
    BY <1>2, Distinct
  <2>2. Table(e) \notin DOMAIN a \cup DOMAIN b \cup DOMAIN d \cup DOMAIN f /\ (Table(e) \in DOMAIN c <=> e \in tviews)
    BY <1>2, Distinct
  <2>3. Meta(e) \in Item /\ Table(e) \in Item
    BY Booked
  <2> QED BY <2>1, <2>2, <2>3, <1>4
<1>7. ASSUME NEW e \in Entities, NEW p \in Places
      PROVE  w[View(e, p)] = IF <<e, p>> \in gone THEN None ELSE v[View(e, p)]
  <2>1. View(e, p) \notin DOMAIN b \cup DOMAIN c \cup DOMAIN d \cup DOMAIN f
    BY <1>2, Distinct
  <2>2. \A n \in gone : n = <<n[1], n[2]>>
    BY DEF gone, GoneViews, DependOn, Views, Named
  <2>3. View(e, p) \in DOMAIN a <=> <<e, p>> \in gone
    <3>1. ASSUME View(e, p) \in DOMAIN a PROVE <<e, p>> \in gone
      <4>1. PICK n \in gone : View(e, p) = View(n[1], n[2])
        BY <3>1, <1>2
      <4>2. n[1] = e /\ n[2] = p
        BY <4>1, Distinct
      <4> QED BY <4>1, <4>2, <2>2
    <3>2. ASSUME <<e, p>> \in gone PROVE View(e, p) \in DOMAIN a
      <4>1. <<e, p>>[1] = e /\ <<e, p>>[2] = p
        OBVIOUS
      <4> QED BY <4>1, <3>2, <1>2
    <3> QED BY <3>1, <3>2
  <2> QED BY <2>1, <2>3, <1>4, Booked
<1> QED BY <1>4, <1>5, <1>6, <1>7 DEF w, dropped, gone

\* A registered TVIEW none of whose view and table is dropped is as it was.
LEMMA DropSpares ==
  ASSUME NEW v, Typed(v), NEW tables, tables \subseteq Tables, NEW tviews, tviews \subseteq Entities,
         NEW e \in Entities, Whole(v, e), e \notin Dropped(v, tables, tviews)
  PROVE  /\ v[Meta(e)] # None => /\ <<e, v[Table(e)].place>> \notin GoneViews(v, tables, tviews)
                                 /\ v[Table(e)].place \in Places /\ e \notin tviews
         /\ Triggered(v, e) \cap tables = {}
<1>1. CASE v[Meta(e)] = None
  BY <1>1 DEF Whole
<1>2. CASE v[Meta(e)] # None
  <2> DEFINE p == v[Table(e)].place
  <2>1. /\ Backing(v, e) = {p} /\ v[View(e, p)] = BackingView(v, e)
        /\ Triggered(v, e) = v[Meta(e)].def.reads \ Matviews /\ p \in Places
    BY <1>2 DEF Whole, Backing
  <2>2. v[View(e, p)] # None /\ ~v[View(e, p)].left
    BY <2>1 DEF Backing, Visible
  <2> DEFINE n == <<e, p>>
  <2>3. n[1] = e /\ n[2] = p
    OBVIOUS
  <2>4. n \in Views(v)
    BY <2>1, <2>2 DEF Views, Named
  <2>5. e \in Registered(v) /\ e \notin tviews /\ e \notin Backed(v, DependOn(v, tables, tviews))
    BY <1>2 DEF Registered, Dropped
  <2> HIDE DEF n, p
  <2>6. n \notin DependOn(v, tables, tviews)
    BY <2>2, <2>3, <2>5 DEF Backed
  <2>7. \A f \in Dropped(v, tables, tviews) : n # <<f, Place(v, f)>>
    BY <2>3
  <2>8. v[Meta(e)].def.reads \cap tables = {}
    <3>1. DefinitionOf(v, n) = v[Meta(e)].def
      BY <2>1, <2>3, BackingFields DEF DefinitionOf
    <3> QED BY <3>1, <2>4, <2>6 DEF DependOn
  <2> QED BY <2>1, <2>5, <2>6, <2>7, <2>8 DEF GoneViews, n, p
<1> QED BY <1>1, <1>2

\* What is dropped leaves nothing, what is not is as it was, and a table goes
\* only with its TVIEW named.
LEMMA DropLeavesWhole ==
  ASSUME NEW v, Typed(v), \A e \in Entities : Whole(v, e),
         NEW tables, tables \subseteq Tables, NEW tviews, tviews \subseteq Entities
  PROVE  LET w == Drop(v, tables, tviews)
         IN /\ Typed(w) /\ \A e \in Entities : Whole(w, e)
            /\ \A e \in Entities : Same(v, w, e) \/ w[Witness(v, e)] # v[Witness(v, e)]
            /\ \A e \in Entities : v[Meta(e)] # None /\ w[Meta(e)] = None => e \in Dropped(v, tables, tviews)
            /\ \A e \in Entities : e \notin tviews => w[Table(e)] = v[Table(e)]
<1> DEFINE w == Drop(v, tables, tviews)
<1> DEFINE dropped == Dropped(v, tables, tviews)
<1> DEFINE gone == GoneViews(v, tables, tviews)
<1>1. /\ Item \subseteq DOMAIN w
      /\ \A t \in Tables : /\ w[Column(t)] = v[Column(t)]
                           /\ w[Trig(t)] = IF t \in tables THEN {} ELSE v[Trig(t)] \ dropped
      /\ \A e \in Entities : /\ w[Meta(e)] = IF e \in dropped THEN None ELSE v[Meta(e)]
                             /\ w[Table(e)] = IF e \in tviews THEN None ELSE v[Table(e)]
      /\ \A e \in Entities, p \in Places : w[View(e, p)] = IF <<e, p>> \in gone THEN None ELSE v[View(e, p)]
  BY Drops
<1>2. /\ \A e \in Entities \ dropped :
           /\ v[Meta(e)] # None => /\ <<e, v[Table(e)].place>> \notin gone
                                   /\ v[Table(e)].place \in Places /\ e \notin tviews
           /\ Triggered(v, e) \cap tables = {}
  BY DropSpares
<1>3. \A e \in dropped : /\ e \in Entities /\ v[Meta(e)] # None /\ <<e, v[Table(e)].place>> \in gone
                         /\ Backing(v, e) = {v[Table(e)].place} /\ v[Table(e)].place \in Places
  <2> SUFFICES ASSUME NEW e \in dropped
               PROVE  /\ e \in Entities /\ v[Meta(e)] # None /\ <<e, v[Table(e)].place>> \in gone
                      /\ Backing(v, e) = {v[Table(e)].place} /\ v[Table(e)].place \in Places
    OBVIOUS
  <2>1. e \in Entities /\ v[Meta(e)] # None
    BY DEF Dropped, Registered
  <2>2. Backing(v, e) = {v[Table(e)].place}
    BY <2>1 DEF Whole
  <2>3. Place(v, e) = v[Table(e)].place /\ v[Table(e)].place \in Places
    BY <2>2, PlaceIs
  <2>4. <<e, Place(v, e)>> \in gone
    BY DEF GoneViews
  <2> QED BY <2>1, <2>2, <2>3, <2>4
<1> HIDE DEF w, dropped, gone
<1>4. \A e \in Entities, p \in Places : Visible(w, e, p) => Visible(v, e, p) /\ w[View(e, p)] = v[View(e, p)]
  BY <1>1 DEF Visible
<1>5. \A e \in Entities : Backing(w, e) \subseteq Backing(v, e)
  BY <1>4 DEF Backing
<1>6. \A e \in Entities \ dropped : Triggered(w, e) = Triggered(v, e)
  BY <1>1, <1>2 DEF Triggered
<1>7. \A e \in dropped : Whole(w, e)
  <2> SUFFICES ASSUME NEW e \in dropped PROVE Whole(w, e)
    OBVIOUS
  <2>1. w[Meta(e)] = None /\ e \in Entities
    BY <1>1, <1>3
  <2>2. Backing(w, e) = {}
    <3>1. w[View(e, v[Table(e)].place)] = None
      BY <1>1, <1>3
    <3>2. v[Table(e)].place \notin Backing(w, e)
      BY <3>1 DEF Backing, Visible
    <3> QED BY <3>2, <2>1, <1>3, <1>5
  <2>3. Triggered(w, e) = {}
    BY <1>1 DEF Triggered
  <2> QED BY <2>1, <2>2, <2>3 DEF Whole
<1>8. \A e \in dropped : w[Witness(v, e)] # v[Witness(v, e)]
  <2> SUFFICES ASSUME NEW e \in dropped PROVE w[Witness(v, e)] # v[Witness(v, e)]
    OBVIOUS
  <2>1. Witness(v, e) = View(e, v[Table(e)].place)
    BY <1>3 DEF Witness
  <2>2. v[View(e, v[Table(e)].place)] # None
    BY <1>3 DEF Backing, Visible
  <2>3. w[View(e, v[Table(e)].place)] = None
    BY <1>1, <1>3
  <2> QED BY <2>1, <2>2, <2>3
<1>9. ASSUME NEW e \in Entities \ dropped
      PROVE  /\ Whole(w, e)
             /\ Same(v, w, e) \/ w[Witness(v, e)] # v[Witness(v, e)]
  <2>1. CASE v[Meta(e)] # None
    <3> DEFINE p == v[Table(e)].place
    <3>1. Backing(v, e) = {p} /\ p \in Places /\ w[View(e, p)] = v[View(e, p)]
      BY <2>1, <1>1, <1>2 DEF Whole
    <3>2. \A q \in Places : Visible(v, e, q) \/ Visible(w, e, q) => v[View(e, q)] = w[View(e, q)]
      <4>1. \A q \in Places : Visible(v, e, q) => q = p
        BY <3>1 DEF Backing
      <4> QED BY <4>1, <3>1, <1>4
    <3>3. w[Meta(e)] = v[Meta(e)] /\ w[Table(e)] = v[Table(e)]
      BY <2>1, <1>1, <1>2
    <3>4. \A t \in Tables : e \in v[Trig(t)] <=> e \in w[Trig(t)]
      BY <1>6 DEF Triggered
    <3>5. Same(v, w, e)
      BY <3>2, <3>3, <3>4 DEF Same
    <3> QED BY <3>5, SameIsWhole
  <2>2. CASE v[Meta(e)] = None
    <3>1. w[Meta(e)] = None /\ Backing(v, e) = {} /\ Triggered(v, e) = {}
      BY <2>2, <1>1 DEF Whole
    <3>2. Backing(w, e) = {} /\ Triggered(w, e) = {}
      BY <3>1, <1>5, <1>6
    <3>3. Whole(w, e)
      BY <3>1, <3>2 DEF Whole
    <3>4. Witness(v, e) = Table(e)
      BY <2>2 DEF Witness
    <3>5. ASSUME w[Table(e)] = v[Table(e)] PROVE Same(v, w, e)
      <4>1. \A q \in Places : ~Visible(v, e, q) /\ ~Visible(w, e, q)
        BY <3>1, <3>2 DEF Backing
      <4>2. \A t \in Tables : e \notin v[Trig(t)] /\ e \notin w[Trig(t)]
        BY <3>1, <3>2 DEF Triggered
      <4> QED BY <4>1, <4>2, <3>1, <3>5, <2>2 DEF Same
    <3> QED BY <3>3, <3>4, <3>5
  <2> QED BY <2>1, <2>2
<1>10. Typed(w)
  <2>1. \A t \in Tables : w[Trig(t)] \subseteq Entities /\ w[Column(t)] \in {0, 1}
    BY <1>1 DEF Typed
  <2>2. \A e \in Entities : w[Meta(e)] \in MetaRow \cup {None} /\ w[Table(e)] \in TableRow \cup {None}
    BY <1>1 DEF Typed
  <2>3. \A e \in Entities, p \in Places : w[View(e, p)] \in ViewRow \cup {None}
    BY <1>1 DEF Typed
  <2> QED BY <2>1, <2>2, <2>3, <1>1 DEF Typed
<1>11. \A e \in Entities : v[Meta(e)] # None /\ w[Meta(e)] = None => e \in dropped
  BY <1>1
<1>12. \A e \in Entities : e \notin tviews => w[Table(e)] = v[Table(e)]
  BY <1>1
<1>13. \A e \in Entities : Whole(w, e) /\ (Same(v, w, e) \/ w[Witness(v, e)] # v[Witness(v, e)])
  BY <1>7, <1>8, <1>9
<1> QED BY <1>10, <1>11, <1>12, <1>13 DEF w, dropped

LEMMA DropKeeps ==
  ASSUME IInv, NEW s \in Sessions, txn[s].step = None, NEW r, NEW by,
         NEW tables, tables \subseteq Tables, NEW tviews, tviews \subseteq Entities,
         Change(s, by, DropLocks(Seen(s), r, tables, tviews), Drop(Seen(s), tables, tviews), None),
         \A e \in tviews : Seen(s)[Table(e)] # None => by \cap Right(Seen(s)[Table(e)]) # {}
  PROVE  IInv'
<1> DEFINE u == Seen(s)
<1> DEFINE v == Drop(u, tables, tviews)
<1> DEFINE locks == DropLocks(u, r, tables, tviews)
<1>1. Typed(u) /\ \A e \in Entities : Whole(u, e)
  BY AtRest
<1>t. tables \subseteq Tables /\ tviews \subseteq Entities
  OBVIOUS
<1> HIDE DEF u
<1>2. /\ Typed(v) /\ \A e \in Entities : Whole(v, e)
      /\ \A e \in Entities : Same(u, v, e) \/ v[Witness(u, e)] # u[Witness(u, e)]
      /\ \A e \in Entities : u[Meta(e)] # None /\ v[Meta(e)] = None => e \in Dropped(u, tables, tviews)
      /\ \A e \in Entities : e \notin tviews => v[Table(e)] = u[Table(e)]
  <2>1. Typed(u) /\ \A e \in Entities : Whole(u, e)
    BY <1>1
  <2> QED BY ONLY <2>1, <1>t, DropLeavesWhole
<1> HIDE DEF v
<1>3. \A e \in Dropped(u, tables, tviews) : AllLocks(e) \cap locks # {}
  <2> SUFFICES ASSUME NEW e \in Dropped(u, tables, tviews) PROVE AllLocks(e) \cap locks # {}
    OBVIOUS
  <2>1. Lock("all", "view", Dropped(u, tables, tviews)) \subseteq locks
    BY DEF DropLocks, Dropped
  <2>2. <<"all", <<"view", e>>>> \in AllLocks(e) /\ <<"all", <<"view", e>>>> \in Lock("all", "view", Dropped(u, tables, tviews))
    BY DEF AllLocks, Lock
  <2> QED BY <2>1, <2>2
<1> HIDE DEF locks
<1>4. \A e \in Entities : u[Table(e)] # None => Keeps(u, v, e) \/ by \cap Right(u[Table(e)]) # {}
  <2>1. \A e \in Entities : e \notin tviews /\ u[Table(e)] # None => Keeps(u, v, e)
    BY <1>2 DEF Keeps
  <2> QED BY <2>1 DEF u
<1>5. StepOK(None) /\ \A e \in Entities : None # [kind |-> "create", entity |-> e]
  BY NoneAssumption DEF StepOK
<1>6. Turns(s, v, by, locks, None)
  BY <1>2, <1>3, <1>4, <1>5 DEF Turns, u
<1> QED BY <1>6, Stepped DEF u, v, locks

\* A drop takes no table but those it names and its role's own.
LEMMA SweptIs ==
  ASSUME NEW v, NEW r, NEW tables, NEW tviews, tviews \subseteq Entities
  PROVE  \A e \in Swept(v, r, tables, tviews) : e \in Entities /\ (e \in tviews \/ v[Table(e)].owner = r)
<1> DEFINE own == tviews \cup {e \in Entities : v[Table(e)].owner = r}
<1>1. own \in SUBSET Entities /\ tviews \subseteq own
  OBVIOUS
<1>2. \A views : Owned(v, r, Backed(v, views)) \subseteq own
  BY DEF Owned, Backed, Registered
<1> HIDE DEF own
<1>3. \A e \in Swept(v, r, tables, tviews) : e \in Entities /\ e \in own
  BY <1>1, <1>2 DEF Swept
<1> QED BY <1>3 DEF own

LEMMA DropTableKeeps ==
  ASSUME IInv, NEW s \in Sessions, DropTable(s)
  PROVE  IInv'
<1> DEFINE u == Seen(s)
<1> DEFINE owner(e) == u[Table(e)].owner
<1> DEFINE tviews(e, c) == IF c THEN Swept(u, owner(e), {}, {e}) ELSE {e}
<1>1. PICK e \in Entities, c \in BOOLEAN :
        /\ Begins(s)
        /\ Change(s, As(owner(e)), DropLocks(u, owner(e), {}, tviews(e, c)), Drop(u, {}, tviews(e, c)), None)
  BY DEF DropTable
<1>2. \A f \in tviews(e, c) : f \in Entities /\ u[Table(f)].owner = owner(e)
  BY SweptIs
<1>3. \A f \in tviews(e, c) : As(owner(e)) \cap Right(u[Table(f)]) # {}
  BY <1>2 DEF As, Right
<1>4. txn[s].step = None
  BY <1>1 DEF Begins
<1> HIDE DEF tviews, owner
<1>5. tviews(e, c) \subseteq Entities
  BY <1>2
<1> QED BY <1>1, <1>3, <1>4, <1>5, DropKeeps

LEMMA DropBaseKeeps ==
  ASSUME IInv, NEW s \in Sessions, DropBase(s)
  PROVE  IInv'
<1> DEFINE u == Seen(s)
<1> DEFINE tviews(t) == Swept(u, BaseOwner, {t}, {})
<1>1. PICK t \in Tables :
        /\ Begins(s)
        /\ Change(s, As(BaseOwner), DropLocks(u, BaseOwner, {t}, tviews(t)), Drop(u, {t}, tviews(t)), None)
  BY DEF DropBase
<1>2. \A f \in tviews(t) : f \in Entities /\ u[Table(f)].owner = BaseOwner
  BY SweptIs
<1>3. \A f \in tviews(t) : As(BaseOwner) \cap Right(u[Table(f)]) # {}
  BY <1>2 DEF As, Right
<1>4. txn[s].step = None
  BY <1>1 DEF Begins
<1> HIDE DEF tviews
<1>5. tviews(t) \subseteq Entities
  BY <1>2
<1> QED BY <1>1, <1>3, <1>4, <1>5, DropKeeps

LEMMA DropSchemaKeeps ==
  ASSUME IInv, NEW s \in Sessions, DropSchema(s)
  PROVE  IInv'
<1> DEFINE u == Seen(s)
<1> DEFINE within(p) == {e \in Entities : u[Table(e)] # None /\ u[Table(e)].place = p}
<1> DEFINE tviews(p) == Swept(u, BaseOwner, {}, within(p))
<1> DEFINE by(p) == As(BaseOwner) \cup {<<"schema", p>>}
<1>1. PICK p \in Places :
        /\ Begins(s)
        /\ Change(s, by(p), DropLocks(u, BaseOwner, {}, tviews(p)), Drop(u, {}, tviews(p)), None)
  BY DEF DropSchema
<1>2. \A f \in tviews(p) : f \in Entities /\ (u[Table(f)].place = p \/ u[Table(f)].owner = BaseOwner)
  BY SweptIs
<1>3. \A f \in tviews(p) : by(p) \cap Right(u[Table(f)]) # {}
  BY <1>2 DEF As, Right
<1>4. txn[s].step = None
  BY <1>1 DEF Begins
<1> HIDE DEF tviews, by
<1>5. tviews(p) \subseteq Entities
  BY <1>2
<1> QED BY <1>1, <1>3, <1>4, <1>5, DropKeeps

LEMMA ReinstallKeeps ==
  ASSUME IInv, NEW s \in Sessions, Reinstall(s)
  PROVE  IInv'
<1> DEFINE u == Seen(s)
<1> DEFINE kept(loaded, i) ==
      IF loaded /\ ~u[View(i[2], i[3])].left THEN None ELSE [u[View(i[2], i[3])] EXCEPT !.left = TRUE]
<1> DEFINE next(loaded) ==
      [i \in {Meta(e) : e \in Entities} |-> None] @@ [i \in {Trig(t) : t \in Tables} |-> {}]
        @@ [i \in {View(n[1], n[2]) : n \in Views(u)} |-> kept(loaded, i)] @@ u
<1> DEFINE locks == Lock("all", "table", Tables) \cup Lock("all", "tview", Entities)
<1>1. PICK loaded \in BOOLEAN : Begins(s) /\ Change(s, {}, locks, next(loaded), None)
  BY DEF Reinstall
<1> DEFINE v == next(loaded)
<1>2. Typed(u) /\ \A f \in Entities : Whole(u, f)
  BY <1>1, AtRest DEF Begins
<1> HIDE DEF u
<1> DEFINE a == [i \in {Meta(e) : e \in Entities} |-> None]
<1> DEFINE b == [i \in {Trig(t) : t \in Tables} |-> {}]
<1> DEFINE c == [i \in {View(n[1], n[2]) : n \in Views(u)} |-> kept(loaded, i)]
<1>3. /\ DOMAIN a = {Meta(e) : e \in Entities} /\ \A i \in DOMAIN a : a[i] = None
      /\ DOMAIN b = {Trig(t) : t \in Tables} /\ \A i \in DOMAIN b : b[i] = {}
      /\ DOMAIN c = {View(n[1], n[2]) : n \in Views(u)} /\ \A i \in DOMAIN c : c[i] = kept(loaded, i)
  OBVIOUS
<1>4. v = a @@ b @@ c @@ u
  OBVIOUS
<1>5. \A e \in Entities, p \in Places : View(e, p) \in DOMAIN c <=> u[View(e, p)] # None
  <2> SUFFICES ASSUME NEW e \in Entities, NEW p \in Places PROVE View(e, p) \in DOMAIN c <=> u[View(e, p)] # None
    OBVIOUS
  <2>1. ASSUME View(e, p) \in DOMAIN c PROVE u[View(e, p)] # None
    <3>1. PICK n \in Views(u) : View(e, p) = View(n[1], n[2])
      BY <2>1, <1>3
    <3> QED BY <3>1 DEF Views
  <2>2. ASSUME u[View(e, p)] # None PROVE View(e, p) \in DOMAIN c
    <3> DEFINE n == <<e, p>>
    <3>1. n[1] = e /\ n[2] = p /\ n \in Named
      BY DEF Named
    <3> HIDE DEF n
    <3>2. n \in Views(u)
      BY <3>1, <2>2 DEF Views
    <3> QED BY <3>1, <3>2, <1>3
  <2> QED BY <2>1, <2>2
<1>6. \A e \in Entities, p \in Places :
        kept(loaded, View(e, p)) = IF loaded /\ ~u[View(e, p)].left THEN None ELSE [u[View(e, p)] EXCEPT !.left = TRUE]
  <2> SUFFICES ASSUME NEW e \in Entities, NEW p \in Places
               PROVE  kept(loaded, View(e, p)) = IF loaded /\ ~u[View(e, p)].left THEN None
                                                 ELSE [u[View(e, p)] EXCEPT !.left = TRUE]
    OBVIOUS
  <2>1. View(View(e, p)[2], View(e, p)[3]) = View(e, p)
    BY Distinct
  <2> QED BY <2>1
<1> HIDE DEF a, b, c, v, kept
<1>7. /\ Item \subseteq DOMAIN v
      /\ \A i \in Item : v[i] = IF i \in DOMAIN a THEN None ELSE IF i \in DOMAIN b THEN {}
                                ELSE IF i \in DOMAIN c THEN kept(loaded, i) ELSE u[i]
  <2> DEFINE ab == a @@ b
  <2> DEFINE abc == ab @@ c
  <2>1. DOMAIN ab = DOMAIN a \cup DOMAIN b /\ \A i \in DOMAIN ab : ab[i] = IF i \in DOMAIN a THEN None ELSE {}
    BY <1>3 DEF @@
  <2>2. v = abc @@ u
    BY <1>4
  <2> HIDE DEF ab
  <2>3. /\ DOMAIN abc = DOMAIN ab \cup DOMAIN c
        /\ \A i \in DOMAIN abc : abc[i] = IF i \in DOMAIN ab THEN ab[i] ELSE kept(loaded, i)
    BY <1>3 DEF @@
  <2> HIDE DEF abc
  <2>4. /\ Item \subseteq DOMAIN v
        /\ \A i \in Item : v[i] = IF i \in DOMAIN abc THEN abc[i] ELSE u[i]
    BY <2>2, <1>2 DEF @@, Typed
  <2> QED BY <2>1, <2>3, <2>4
<1>8. \A t \in Tables : v[Column(t)] = u[Column(t)] /\ v[Trig(t)] = {}
  <2> SUFFICES ASSUME NEW t \in Tables PROVE v[Column(t)] = u[Column(t)] /\ v[Trig(t)] = {}
    OBVIOUS
  <2>1. Column(t) \notin DOMAIN a \cup DOMAIN b \cup DOMAIN c /\ Trig(t) \notin DOMAIN a /\ Trig(t) \in DOMAIN b
    BY <1>3, Distinct
  <2> QED BY <2>1, <1>7, Booked
<1>9. \A e \in Entities : v[Meta(e)] = None /\ v[Table(e)] = u[Table(e)]
  <2> SUFFICES ASSUME NEW e \in Entities PROVE v[Meta(e)] = None /\ v[Table(e)] = u[Table(e)]
    OBVIOUS
  <2>1. Table(e) \notin DOMAIN a \cup DOMAIN b \cup DOMAIN c /\ Meta(e) \in DOMAIN a
    BY <1>3, Distinct
  <2> QED BY <2>1, <1>7, Booked
<1>10. \A e \in Entities, p \in Places :
         v[View(e, p)] = IF u[View(e, p)] = None \/ (loaded /\ ~u[View(e, p)].left) THEN None
                         ELSE [u[View(e, p)] EXCEPT !.left = TRUE]
  <2> SUFFICES ASSUME NEW e \in Entities, NEW p \in Places
               PROVE  v[View(e, p)] = IF u[View(e, p)] = None \/ (loaded /\ ~u[View(e, p)].left) THEN None
                                      ELSE [u[View(e, p)] EXCEPT !.left = TRUE]
    OBVIOUS
  <2>1. View(e, p) \notin DOMAIN a \cup DOMAIN b
    BY <1>3, Distinct
  <2> QED BY <2>1, <1>5, <1>6, <1>7, Booked
<1>11. ASSUME NEW e \in Entities, NEW p \in Places
       PROVE  \/ v[View(e, p)] = None
              \/ v[View(e, p)] \in ViewRow /\ v[View(e, p)].left
  <2>1. u[View(e, p)] # None => u[View(e, p)] \in ViewRow
    BY <1>2 DEF Typed
  <2>2. u[View(e, p)] \in ViewRow =>
          /\ [u[View(e, p)] EXCEPT !.left = TRUE] \in ViewRow
          /\ [u[View(e, p)] EXCEPT !.left = TRUE].left
    BY DEF ViewRow
  <2> QED BY <2>1, <2>2, <1>10
<1>12. Typed(v)
  BY <1>2, <1>7, <1>8, <1>9, <1>11 DEF Typed
<1>13. \A e \in Entities : Backing(v, e) = {} /\ Triggered(v, e) = {}
  BY <1>8, <1>11 DEF Backing, Visible, Triggered
<1>14. \A e \in Entities : Whole(v, e)
  BY <1>9, <1>13 DEF Whole
<1>15. ASSUME NEW e \in Entities PROVE Same(u, v, e) \/ v[Witness(u, e)] # u[Witness(u, e)]
  <2>1. CASE u[Meta(e)] = None
    <3>1. Backing(u, e) = {} /\ Triggered(u, e) = {}
      BY <2>1, <1>2 DEF Whole
    <3>2. \A p \in Places : ~Visible(u, e, p) /\ ~Visible(v, e, p)
      BY <3>1, <1>13 DEF Backing
    <3>3. \A t \in Tables : e \notin u[Trig(t)] /\ e \notin v[Trig(t)]
      BY <3>1, <1>13 DEF Triggered
    <3> QED BY <3>2, <3>3, <2>1, <1>9 DEF Same
  <2>2. CASE u[Meta(e)] # None
    <3> DEFINE p == u[Table(e)].place
    <3>1. Backing(u, e) = {p}
      BY <2>2, <1>2 DEF Whole
    <3>2. p \in Places /\ Visible(u, e, p)
      BY <3>1 DEF Backing
    <3>3. ~Visible(v, e, p)
      BY <3>2, <1>13 DEF Backing
    <3> HIDE DEF p
    <3>4. v[View(e, p)] # u[View(e, p)]
      BY <3>2, <3>3 DEF Visible
    <3> QED BY <3>4, <2>2 DEF Witness, p
  <2> QED BY <2>1, <2>2
<1>16. \A e \in Entities : AllLocks(e) \cap locks # {}
  <2>1. \A e \in Entities : <<"all", <<"tview", e>>>> \in AllLocks(e) /\ <<"all", <<"tview", e>>>> \in locks
    BY DEF AllLocks, Lock
  <2> QED BY <2>1
<1>17. \A e \in Entities : u[Table(e)] # None => Keeps(u, v, e)
  BY <1>9 DEF Keeps
<1>18. StepOK(None) /\ \A f \in Entities : None # [kind |-> "create", entity |-> f]
  BY NoneAssumption DEF StepOK
<1> HIDE DEF locks
<1>19. Turns(s, v, {}, locks, None)
  BY <1>12, <1>14, <1>15, <1>16, <1>17, <1>18 DEF Turns, u
<1> QED BY <1>1, <1>19, Stepped DEF v

-----------------------------------------------------------------------------
LEMMA InitHolds == Init => IInv
<1> SUFFICES ASSUME Init PROVE IInv
  OBVIOUS
<1> DEFINE first(n) == {Registered0[i] : i \in 1..n}
<1> DEFINE es(n) == {x.entity : x \in first(n)}
<1> DEFINE Of(n, e) == CHOOSE x \in first(n) : x.entity = e
<1> DEFINE values == [i \in UNION {{Val(t), Column(t)} : t \in Tables} |-> 0]
<1> DEFINE triggers(n) ==
      [i \in {Trig(t) : t \in Tables} |-> {e \in es(n) : i[2] \in Of(n, e).def.reads \ Matviews}]
<1> DEFINE metas(n) ==
      [i \in {Meta(e) : e \in es(n)} |->
         [def |-> Of(n, i[2]).def, column |-> [t \in Of(n, i[2]).def.reads |-> 0]]]
<1> DEFINE tables(n) ==
      [i \in {Table(e) : e \in es(n)} |-> [owner |-> BaseOwner, place |-> Of(n, i[2]).place, readers |-> {}]]
<1> DEFINE views(n) ==
      [i \in {View(e, Of(n, e).place) : e \in es(n)} |->
         [def |-> Of(n, i[2]).def, owner |-> BaseOwner, readers |-> {}, left |-> FALSE]]
<1> DEFINE nothing == [i \in Item |-> None]
<1> DEFINE created(n) == values @@ triggers(n) @@ metas(n) @@ tables(n) @@ views(n) @@ nothing
<1>1. PICK n \in 0..Len(Registered0) : disk = Refreshed(created(n), es(n))
  BY DEF Init
<1> DEFINE E == es(n)
<1> DEFINE place(e) == Of(n, e).place
<1> DEFINE def(e) == Of(n, e).def
<1> DEFINE v == created(n)
<1>2. \A e \in E : e \in Entities /\ place(e) \in Places /\ def(e) \in Definition
  <2>1. \A x \in first(n) : x.entity \in Entities /\ x.place \in Places /\ x.def \in Definition
    <3> DEFINE R == [entity : Entities, def : Definition, place : Places]
    <3>1. Registered0 \in Seq(R)
      BY DefinitionsAssumption
    <3> HIDE DEF R
    <3>2. 1..n \subseteq 1..Len(Registered0) /\ \A i \in 1..Len(Registered0) : Registered0[i] \in R
      BY <3>1
    <3>3. \A x \in first(n) : x \in R
      BY <3>2
    <3> HIDE DEF first
    <3> USE DEF R
    <3> QED BY <3>3
  <2>2. \A e \in E : Of(n, e) \in first(n)
    <3> SUFFICES ASSUME NEW e \in E PROVE Of(n, e) \in first(n)
      OBVIOUS
    <3>1. PICK x \in first(n) : x.entity = e
      OBVIOUS
    <3> QED BY <3>1
  <2>3. \A e \in E : e \in Entities
    BY <2>1
  <2> HIDE DEF first, Of
  <2> QED BY <2>1, <2>2, <2>3
<1> HIDE DEF first, es, Of
<1> DEFINE meta(e) == [def |-> def(e), column |-> [t \in def(e).reads |-> 0]]
<1> DEFINE table(e) == [owner |-> BaseOwner, place |-> place(e), readers |-> {}]
<1> DEFINE view(e) == [def |-> def(e), owner |-> BaseOwner, readers |-> {}, left |-> FALSE]
<1>3. \A e \in E : meta(e) \in MetaRow /\ table(e) \in TableRow /\ view(e) \in ViewRow
  <2> SUFFICES ASSUME NEW e \in E PROVE meta(e) \in MetaRow /\ table(e) \in TableRow /\ view(e) \in ViewRow
    OBVIOUS
  <2>1. e \in Entities /\ place(e) \in Places /\ def(e) \in Definition
    BY <1>2
  <2> HIDE DEF place, def
  <2>2. [t \in def(e).reads |-> 0] \in [def(e).reads -> {0, 1}]
    OBVIOUS
  <2>3. meta(e) \in MetaRow
    BY <2>1, <2>2 DEF MetaRow
  <2>4. table(e) \in TableRow
    BY <2>1, RolesAssumption DEF TableRow
  <2>5. view(e) \in ViewRow
    BY <2>1, RolesAssumption DEF ViewRow
  <2> QED BY <2>3, <2>4, <2>5
<1>4. \A e \in E : meta(e) # None /\ table(e) # None /\ view(e) # None
  BY <1>3, NoneAssumption
<1>5. \A e \in E : /\ meta(e).def = def(e) /\ table(e).owner = BaseOwner /\ table(e).place = place(e)
                   /\ table(e).readers = {} /\ view(e).left = FALSE
  OBVIOUS
<1>6. /\ DOMAIN values = UNION {{Val(t), Column(t)} : t \in Tables} /\ \A i \in DOMAIN values : values[i] = 0
      /\ DOMAIN triggers(n) = {Trig(t) : t \in Tables}
      /\ DOMAIN metas(n) = {Meta(e) : e \in E}
      /\ DOMAIN tables(n) = {Table(e) : e \in E}
      /\ DOMAIN views(n) = {View(e, place(e)) : e \in E}
      /\ DOMAIN nothing = Item /\ \A i \in Item : nothing[i] = None
  OBVIOUS
<1>7. /\ \A t \in Tables : triggers(n)[Trig(t)] = {e \in E : t \in def(e).reads \ Matviews}
      /\ \A e \in E : metas(n)[Meta(e)] = meta(e) /\ tables(n)[Table(e)] = table(e)
      /\ \A e \in E : views(n)[View(e, place(e))] = view(e)
  <2>1. \A t \in Tables : triggers(n)[Trig(t)] = {e \in E : t \in def(e).reads \ Matviews}
    BY Distinct
  <2>2. \A e \in E : metas(n)[Meta(e)] = meta(e) /\ tables(n)[Table(e)] = table(e)
    BY Distinct
  <2>3. \A e \in E : views(n)[View(e, place(e))] = view(e)
    <3> SUFFICES ASSUME NEW e \in E PROVE views(n)[View(e, place(e))] = view(e)
      OBVIOUS
    <3> DEFINE i == View(e, place(e))
    <3>1. i[2] = e /\ i \in {View(g, Of(n, g).place) : g \in es(n)}
      BY Distinct
    <3> HIDE DEF i
    <3>2. views(n)[i] = view(i[2])
      BY <3>1
    <3> QED BY <3>1, <3>2 DEF i
  <2> QED BY <2>1, <2>2, <2>3
<1> DEFINE a == values
<1> DEFINE b == triggers(n)
<1> DEFINE c == metas(n)
<1> DEFINE d == tables(n)
<1> DEFINE f == views(n)
<1>8. v = a @@ b @@ c @@ d @@ f @@ nothing
  OBVIOUS
<1> HIDE DEF values, triggers, metas, tables, views, nothing, created, meta, table, view, place, def, E
<1>9. /\ Item \subseteq DOMAIN v
      /\ DOMAIN v = DOMAIN a \cup DOMAIN b \cup DOMAIN c \cup DOMAIN d \cup DOMAIN f \cup Item
      /\ \A i \in Item : v[i] = IF i \in DOMAIN a THEN a[i] ELSE IF i \in DOMAIN b THEN b[i]
                                ELSE IF i \in DOMAIN c THEN c[i] ELSE IF i \in DOMAIN d THEN d[i]
                                ELSE IF i \in DOMAIN f THEN f[i] ELSE None
  <2> DEFINE ab == a @@ b
  <2> DEFINE abc == ab @@ c
  <2> DEFINE abcd == abc @@ d
  <2> DEFINE abcdf == abcd @@ f
  <2>1. DOMAIN ab = DOMAIN a \cup DOMAIN b /\ \A i \in DOMAIN ab : ab[i] = IF i \in DOMAIN a THEN a[i] ELSE b[i]
    BY DEF @@
  <2>2. v = abcdf @@ nothing
    BY <1>8
  <2> HIDE DEF ab
  <2>3. /\ DOMAIN abc = DOMAIN ab \cup DOMAIN c
        /\ \A i \in DOMAIN abc : abc[i] = IF i \in DOMAIN ab THEN ab[i] ELSE c[i]
    BY DEF @@
  <2> HIDE DEF abc
  <2>4. /\ DOMAIN abcd = DOMAIN abc \cup DOMAIN d
        /\ \A i \in DOMAIN abcd : abcd[i] = IF i \in DOMAIN abc THEN abc[i] ELSE d[i]
    BY DEF @@
  <2> HIDE DEF abcd
  <2>5. /\ DOMAIN abcdf = DOMAIN abcd \cup DOMAIN f
        /\ \A i \in DOMAIN abcdf : abcdf[i] = IF i \in DOMAIN abcd THEN abcd[i] ELSE f[i]
    BY DEF @@
  <2> HIDE DEF abcdf
  <2>6. /\ DOMAIN v = DOMAIN abcdf \cup Item
        /\ \A i \in Item : v[i] = IF i \in DOMAIN abcdf THEN abcdf[i] ELSE None
    BY <2>2, <1>6 DEF @@
  <2> QED BY <2>1, <2>3, <2>4, <2>5, <2>6
<1>10. ASSUME NEW t \in Tables
       PROVE v[Column(t)] = 0 /\ v[Trig(t)] = {e \in E : t \in def(e).reads \ Matviews}
  <2>1. Column(t) \in DOMAIN a /\ Trig(t) \notin DOMAIN a /\ Trig(t) \in DOMAIN b
    BY <1>6, Distinct
  <2> QED BY <2>1, <1>6, <1>7, <1>9, Booked
<1>11. ASSUME NEW e \in Entities
       PROVE  /\ v[Meta(e)] = IF e \in E THEN meta(e) ELSE None
              /\ v[Table(e)] = IF e \in E THEN table(e) ELSE None
  <2>1. /\ Meta(e) \notin DOMAIN a \cup DOMAIN b \cup DOMAIN d \cup DOMAIN f
        /\ Meta(e) \in DOMAIN c <=> e \in E
    BY <1>6, Distinct
  <2>2. /\ Table(e) \notin DOMAIN a \cup DOMAIN b \cup DOMAIN c \cup DOMAIN f
        /\ Table(e) \in DOMAIN d <=> e \in E
    BY <1>6, Distinct
  <2>3. Meta(e) \in Item /\ Table(e) \in Item
    BY Booked
  <2> QED BY <2>1, <2>2, <2>3, <1>7, <1>9
<1>12. ASSUME NEW e \in Entities, NEW p \in Places
       PROVE  v[View(e, p)] = IF e \in E /\ p = place(e) THEN view(e) ELSE None
  <2>1. /\ View(e, p) \notin DOMAIN a \cup DOMAIN b \cup DOMAIN c \cup DOMAIN d
        /\ View(e, p) \in DOMAIN f <=> e \in E /\ p = place(e)
    BY <1>6, Distinct
  <2> QED BY <2>1, <1>7, <1>9, Booked
<1>13. Typed(v)
  BY <1>2, <1>3, <1>9, <1>10, <1>11, <1>12 DEF Typed
<1>14. ASSUME NEW e \in Entities PROVE Whole(v, e)
  <2>1. CASE e \in E
    <3>1. v[Meta(e)] = meta(e) /\ v[Table(e)] = table(e) /\ meta(e) # None /\ table(e) # None
      BY <2>1, <1>4, <1>11
    <3>2. Backing(v, e) = {place(e)}
      BY <2>1, <1>2, <1>4, <1>5, <1>12 DEF Backing, Visible
    <3>3. v[View(e, place(e))] = BackingView(v, e)
      <4>1. v[View(e, place(e))] = view(e)
        BY <2>1, <1>2, <1>12
      <4>2. BackingView(v, e) = [def |-> def(e), owner |-> BaseOwner, readers |-> {}, left |-> FALSE]
        BY <3>1, <2>1, <1>5 DEF BackingView
      <4> QED BY <4>1, <4>2 DEF view
    <3>4. Triggered(v, e) = def(e).reads \ Matviews
      <4>1. def(e).reads \subseteq Tables
        BY <2>1, <1>2, DefinitionsAssumption
      <4> QED BY <4>1, <2>1, <1>10 DEF Triggered
    <3>5. v[Table(e)].place = place(e) /\ v[Table(e)].owner \notin v[Table(e)].readers /\ v[Meta(e)].def = def(e)
      BY <2>1, <3>1, <1>5
    <3> QED BY <3>1, <3>2, <3>3, <3>4, <3>5 DEF Whole
  <2>2. CASE e \notin E
    <3>1. v[Meta(e)] = None /\ \A p \in Places : v[View(e, p)] = None
      BY <2>2, <1>11, <1>12
    <3>2. Backing(v, e) = {} /\ Triggered(v, e) = {}
      BY <2>2, <3>1, <1>10 DEF Backing, Visible, Triggered
    <3> QED BY <3>1, <3>2 DEF Whole
  <2> QED BY <2>1, <2>2
<1> HIDE DEF v
<1>15. disk = Refreshed(v, E)
  BY <1>1 DEF v, E
<1>16. Agree(v, disk) /\ Item \subseteq DOMAIN disk
  BY <1>9, <1>15, RefreshedKeeps
<1>17. Typed(disk) /\ \A e \in Entities : Whole(disk, e)
  BY <1>13, <1>14, <1>16, Agreeing, SameIsWhole
<1>18. DOMAIN disk = Item
  <2>1. DOMAIN v = Item
    BY <1>2, <1>6, <1>9, Booked DEF Item
  <2>2. DOMAIN disk = {Rows(e) : e \in E} \cup DOMAIN v
    BY <1>15 DEF Refreshed, @@
  <2> QED BY <2>1, <2>2, <1>2, Booked
<1>19. txn = [s \in Sessions |-> Idle]
  BY DEF Init
<1>20. \A s \in Sessions : /\ txn[s] = Idle /\ DOMAIN txn[s].mine = {} /\ txn[s].step = None /\ txn[s].locks = {}
  BY <1>19 DEF Idle
<1>21. \A s \in Sessions : Agree(disk, Seen(s)) /\ Item \subseteq DOMAIN Seen(s)
  <2> SUFFICES ASSUME NEW s \in Sessions PROVE Agree(disk, Seen(s)) /\ Item \subseteq DOMAIN Seen(s)
    OBVIOUS
  <2> DEFINE m == txn[s].mine
  <2>1. DOMAIN m = {} /\ Seen(s) = m @@ disk
    BY <1>20 DEF Seen
  <2> HIDE DEF m
  <2>2. Item \subseteq DOMAIN Seen(s) /\ \A i \in Item : Seen(s)[i] = disk[i]
    BY <2>1, <1>18 DEF @@
  <2> QED BY <2>2, Booked DEF Agree
<1>22. \A s \in Sessions : Typed(Seen(s)) /\ \A e \in Entities : Same(disk, Seen(s), e) /\ Whole(Seen(s), e)
  BY <1>17, <1>21, Agreeing, SameIsWhole
<1>23. Shaped
  BY <1>17, <1>18, <1>19, <1>20, <1>22 DEF Shaped, StepOK
<1>24. Apart /\ NoClash /\ ReplacesLocked
  BY <1>20 DEF Apart, NoClash, ReplacesLocked, Replacing
<1>25. OthersUntouched
  BY <1>22 DEF OthersUntouched
<1>26. DiskWhole /\ SeenWhole
  BY <1>17, <1>20, <1>22, NoneAssumption DEF DiskWhole, SeenWhole, Creating
<1>27. DropsLocked
  BY <1>21, Booked DEF DropsLocked, Agree
<1>28. Rightful
  BY <1>21, Booked DEF Rightful, Keeps, Agree
<1> QED BY <1>23, <1>24, <1>25, <1>26, <1>27, <1>28 DEF IInv

LEMMA StutterKeeps ==
  ASSUME IInv, UNCHANGED vars
  PROVE  IInv'
<1>1. disk' = disk /\ txn' = txn
  BY DEF vars
<1>2. Shaped' /\ Apart' /\ OthersUntouched'
  <2>1. Shaped'
    BY <1>1 DEF IInv, Shaped, Typed, Seen, StepOK
  <2>2. Apart'
    BY <1>1 DEF IInv, Apart
  <2>3. OthersUntouched'
    BY <1>1 DEF IInv, OthersUntouched, Seen, Touched, Witness, Same, Visible
  <2> QED BY <2>1, <2>2, <2>3
<1>3. DiskWhole' /\ SeenWhole'
  BY <1>1 DEF IInv, DiskWhole, SeenWhole, Whole, Filled, Backing, Visible, BackingView, FilledView, Triggered,
              Creating, Touched, Witness, Seen
<1>4. NoClash' /\ DropsLocked' /\ ReplacesLocked' /\ Rightful'
  BY <1>1 DEF IInv, NoClash, DropsLocked, ReplacesLocked, Rightful, Replacing, AllLocks, ReadLocks, Lock,
              Keeps, Right, Seen
<1> QED BY <1>2, <1>3, <1>4 DEF IInv

LEMMA NextKeeps == IInv /\ [Next]_vars => IInv'
<1> SUFFICES ASSUME IInv, [Next]_vars PROVE IInv'
  OBVIOUS
<1>1. ASSUME NEW s \in Sessions, Write(s) \/ RenameColumn(s) PROVE IInv'
  BY <1>1, WriteKeeps, RenameColumnKeeps
<1>2. ASSUME NEW s \in Sessions, CreateFill(s) \/ CreateFinish(s) PROVE IInv'
  BY <1>2, CreateFillKeeps, CreateFinishKeeps
<1>3. ASSUME NEW s \in Sessions, ReplaceBegin(s) \/ ReplaceFinish(s) \/ Rebuild(s) PROVE IInv'
  BY <1>3, ReplaceBeginKeeps, ReplaceFinishKeeps, RebuildKeeps
<1>4. ASSUME NEW s \in Sessions, Move(s) \/ Grant(s) \/ SetOwner(s) PROVE IInv'
  BY <1>4, MoveKeeps, GrantKeeps, SetOwnerKeeps
<1>5. ASSUME NEW s \in Sessions, DropTable(s) \/ DropBase(s) \/ DropSchema(s) \/ Reinstall(s) PROVE IInv'
  BY <1>5, DropTableKeeps, DropBaseKeeps, DropSchemaKeeps, ReinstallKeeps
<1>6. ASSUME NEW s \in Sessions, Commit(s) \/ Abort(s) PROVE IInv'
  BY <1>6, CommitKeeps, AbortKeeps
<1>7. CASE UNCHANGED vars
  BY <1>7, StutterKeeps
<1> QED BY <1>1, <1>2, <1>3, <1>4, <1>5, <1>6, <1>7 DEF Next

(***************************************************************************)
(* Every state is typed, every session sees whole TVIEWs but the one it is *)
(* creating, two open transactions never change the same TVIEW, and a      *)
(* table a transaction removes is one it has the right to.                 *)
(***************************************************************************)
THEOREM InvHolds == Spec => []IInv
<1> QED BY InitHolds, NextKeeps, PTL DEF Spec

(***************************************************************************)
(* A registered TVIEW has its table, one backing view with its definition, *)
(* owner and readers, and the triggers of what it reads; what is not       *)
(* registered has none: create, replace, move, grant, owner, drop and the  *)
(* extension's own drop (ddl/, pg_tviews_sql_drop), committed in any order.*)
(***************************************************************************)
THEOREM RegisteredWhole == Spec => []RegisteredIsWhole
<1>1. IInv => RegisteredIsWhole
  <2> SUFFICES ASSUME IInv, NEW e \in Entities
               PROVE  LET views == {p \in Places : disk[View(e, p)] # None /\ ~disk[View(e, p)].left}
                          triggers == {t \in Tables : e \in disk[Trig(t)]}
                          table == disk[Table(e)]
                      IN IF disk[Meta(e)] = None THEN views = {} /\ triggers = {}
                         ELSE /\ table # None /\ views = {table.place}
                              /\ disk[View(e, table.place)] =
                                   [def |-> disk[Meta(e)].def, owner |-> table.owner, readers |-> table.readers,
                                    left |-> FALSE]
                              /\ triggers = disk[Meta(e)].def.reads \ Matviews
    BY DEF RegisteredIsWhole
  <2>1. Whole(disk, e)
    BY DEF IInv, DiskWhole
  <2> QED BY <2>1 DEF Whole, Backing, Visible, Triggered, BackingView
<1> QED BY <1>1, InvHolds, PTL

(***************************************************************************)
(* A TVIEW's table goes only by its owner's right, or its schema's owner's *)
(* (handle_dropped keeps the table of a TVIEW dropped as a dependent).     *)
(***************************************************************************)
THEOREM TablesAreKept == Spec => KeptUnlessOwned
<1>1. IInv /\ [Next]_vars =>
        [\A e \in Entities :
           disk[Table(e)] # None /\ disk'[Table(e)] = None =>
             \E s \in Sessions :
               txn[s].by \cap {<<"role", disk[Table(e)].owner>>, <<"schema", disk[Table(e)].place>>} # {}]_vars
  <2> SUFFICES ASSUME IInv, Next, NEW e \in Entities, disk[Table(e)] # None, disk'[Table(e)] = None
               PROVE  \E s \in Sessions :
                        txn[s].by \cap {<<"role", disk[Table(e)].owner>>, <<"schema", disk[Table(e)].place>>} # {}
    OBVIOUS
  <2>1. PICK s \in Sessions : Commit(s)
    <3>1. ASSUME NEW s \in Sessions, Write(s) \/ RenameColumn(s) PROVE disk' = disk
      BY <3>1 DEF Write, RenameColumn, Change
    <3>f. ASSUME NEW s \in Sessions, CreateFill(s) PROVE disk' = disk
      BY <3>f DEF CreateFill, Change
    <3>2. ASSUME NEW s \in Sessions, CreateFinish(s) PROVE disk' = disk
      BY <3>2 DEF CreateFinish, Change
    <3>3. ASSUME NEW s \in Sessions, ReplaceBegin(s) \/ ReplaceFinish(s) \/ Rebuild(s) PROVE disk' = disk
      BY <3>3 DEF ReplaceBegin, ReplaceFinish, Rebuild, Change
    <3>4. ASSUME NEW s \in Sessions, Move(s) \/ Grant(s) \/ SetOwner(s) PROVE disk' = disk
      BY <3>4 DEF Move, Grant, SetOwner, Change
    <3>5. ASSUME NEW s \in Sessions, DropTable(s) \/ DropBase(s) \/ DropSchema(s) \/ Reinstall(s) PROVE disk' = disk
      BY <3>5 DEF DropTable, DropBase, DropSchema, Reinstall, Change
    <3>6. ASSUME NEW s \in Sessions, Abort(s) PROVE disk' = disk
      BY <3>6 DEF Abort
    <3> QED BY <3>1, <3>f, <3>2, <3>3, <3>4, <3>5, <3>6 DEF Next, vars
  <2>2. Seen(s)[Table(e)] = None
    BY <2>1 DEF Commit
  <2> QED BY <2>2 DEF IInv, Rightful, Keeps, Right
<1> QED BY <1>1, InvHolds, PTL DEF Spec, KeptUnlessOwned
=============================================================================
