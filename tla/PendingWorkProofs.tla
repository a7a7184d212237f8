-------------------------- MODULE PendingWorkProofs --------------------------
(***************************************************************************)
(* Theorems about PendingWork, for every set of keys, fields and values    *)
(* and every bound: its types, the log kept in step with the open          *)
(* subtransactions, patches riding on queued keys, sticky poison, and that *)
(* the undo log implements whole-copy savepoints.                          *)
(***************************************************************************)
EXTENDS PendingWork, RefreshWorkProofs, SequenceTheorems, WellFoundedInduction

-----------------------------------------------------------------------------
(* The undo log: what an entry pushed or reverted leaves recoverable. *)

LEMMA LeastElement ==
    ASSUME NEW T \in SUBSET Nat, T # {}
    PROVE  \E m \in T : \A k \in T : m <= k
<1>1. PICK m \in T : \A k \in T : <<k, m>> \notin OpToRel(<, Nat)
    BY WFMin, NatLessThanWellFounded, Zenon
<1>2. \A k \in T : ~(k < m)
    BY <1>1, Zenon DEF OpToRel
<1> QED
    BY <1>2

\* A slot changed since a mark has a first change since.
LEMMA FirstTouchExists ==
    ASSUME NEW log \in Seq(UndoEntry), NEW m \in Nat, NEW s,
           TouchedSince(log, m, s)
    PROVE  IsFirstTouch(log, m, s, FirstTouch(log, m, s))
<1> DEFINE T == {i \in (m + 1)..Len(log) : Touches(log[i], s)}
<1>1. T \in SUBSET Nat /\ T # {}
    BY DEF TouchedSince
<1>2. PICK i \in T : \A k \in T : i <= k
    BY <1>1, LeastElement
<1>3. IsFirstTouch(log, m, s, i)
    BY <1>2 DEF IsFirstTouch
<1> QED
    BY <1>2, <1>3 DEF FirstTouch

\* The first touch is where its definition says it is.
LEMMA FirstTouchUnique ==
    ASSUME NEW log \in Seq(UndoEntry), NEW m \in Nat, NEW s, NEW i,
           IsFirstTouch(log, m, s, i)
    PROVE  FirstTouch(log, m, s) = i /\ TouchedSince(log, m, s)
<1>1. TouchedSince(log, m, s)
    BY DEF IsFirstTouch, TouchedSince
<1>2. IsFirstTouch(log, m, s, FirstTouch(log, m, s))
    BY <1>1, FirstTouchExists
<1> QED
    BY <1>1, <1>2 DEF IsFirstTouch

\* A mark at the end of the log recovers the live work.
LEMMA RecoveredAtEnd ==
    ASSUME NEW w \in Work, NEW log \in Seq(UndoEntry), NEW m \in Nat,
           Len(log) <= m
    PROVE  RecoveredFrom(w, log, m) = w
<1>1. \A s \in Slot : ~TouchedSince(log, m, s)
    BY DEF TouchedSince
<1> QED
    BY <1>1 DEF RecoveredFrom, Work

\* An entry that holds what each slot it touches held before the change, and
\* touches every slot that changed, leaves what every mark recovers as it was.
LEMMA RecoveredAcrossEntry ==
    ASSUME NEW log \in Seq(UndoEntry), NEW e \in UndoEntry,
           NEW m \in Nat, m <= Len(log),
           NEW w1 \in Work, NEW w2 \in Work,
           \A s \in Slot : IF Touches(e, s) THEN Before(e, s) = w1[s]
                                            ELSE w2[s] = w1[s]
    PROVE  RecoveredFrom(w2, Append(log, e), m) = RecoveredFrom(w1, log, m)
<1> DEFINE log2 == Append(log, e)
<1>0. log2 \in Seq(UndoEntry) /\ Len(log2) = Len(log) + 1 /\ log2[Len(log) + 1] = e
        /\ \A i \in 1..Len(log) : log2[i] = log[i]
    OBVIOUS
<1> SUFFICES ASSUME NEW s \in Slot
             PROVE  RecoveredFrom(w2, log2, m)[s] = RecoveredFrom(w1, log, m)[s]
    BY DEF RecoveredFrom
<1>1. CASE TouchedSince(log, m, s)
    <2> DEFINE i == FirstTouch(log, m, s)
    <2>1. IsFirstTouch(log, m, s, i)
        BY <1>1, FirstTouchExists
    <2>2. IsFirstTouch(log2, m, s, i)
        BY <1>0, <2>1 DEF IsFirstTouch
    <2>3. FirstTouch(log2, m, s) = i /\ TouchedSince(log2, m, s)
        BY <1>0, <2>2, FirstTouchUnique
    <2>4. log2[i] = log[i]
        BY <1>0, <2>1 DEF IsFirstTouch
    <2> QED
        BY <1>1, <2>3, <2>4 DEF RecoveredFrom
<1>2. CASE ~TouchedSince(log, m, s) /\ Touches(e, s)
    <2>1. IsFirstTouch(log2, m, s, Len(log) + 1)
        BY <1>0, <1>2 DEF IsFirstTouch, TouchedSince
    <2>2. FirstTouch(log2, m, s) = Len(log) + 1 /\ TouchedSince(log2, m, s)
        BY <1>0, <2>1, FirstTouchUnique
    <2> QED
        BY <1>0, <1>2, <2>2 DEF RecoveredFrom
<1>3. CASE ~TouchedSince(log, m, s) /\ ~Touches(e, s)
    <2>1. ~TouchedSince(log2, m, s)
        BY <1>0, <1>3 DEF TouchedSince
    <2> QED
        BY <1>3, <2>1 DEF RecoveredFrom
<1> QED
    BY <1>1, <1>2, <1>3

-----------------------------------------------------------------------------
(* Types. *)

\* The entries the log takes are entries.
LEMMA EntriesType ==
    ASSUME pending \in Work
    PROVE  /\ \A k \in Key : InsertEntries(k) \in Seq(UndoEntry)
           /\ \A s \in Slot : SlotEntries(s) \in Seq(UndoEntry)
           /\ DrainEntries \in Seq(UndoEntry)
<1>1. ASSUME NEW s \in Slot, NEW c \in Content, Fits(s, c)
      PROVE  Wrote(s, c) \in UndoEntry
    BY <1>1 DEF Wrote, UndoEntry
<1>2. ASSUME NEW k \in Key
      PROVE  InsertEntries(k) \in Seq(UndoEntry)
    <2>1. Wrote(QueueSlot(k), Absent) \in UndoEntry
        BY <1>1, SlotTypes DEF Content, Fits
    <2> QED
        BY <2>1 DEF InsertEntries
<1>3. ASSUME NEW s \in Slot
      PROVE  SlotEntries(s) \in Seq(UndoEntry)
    <2>1. Wrote(s, pending[s]) \in UndoEntry
        BY <1>1 DEF Work
    <2> QED
        BY <2>1 DEF SlotEntries
<1>4. DrainEntries \in Seq(UndoEntry)
    <2>1. Drained(pending) \in UndoEntry
        BY DEF Drained, UndoEntry
    <2> QED
        BY <2>1 DEF DrainEntries
<1> QED
    BY <1>2, <1>3, <1>4

\* What Txn::revert restores is work again.
LEMMA RevertedType ==
    ASSUME NEW w \in Work, NEW u \in UndoEntry
    PROVE  Reverted(w, u) \in Work
    BY WriteType DEF Reverted, UndoEntry

LEMMA LoggedType ==
    ASSUME undo \in Seq(UndoEntry), NEW entries \in Seq(UndoEntry)
    PROVE  Logged(entries) \in Seq(UndoEntry) /\ Len(Logged(entries)) >= Len(undo)
    BY DEF Logged

\* A new level's marks: the first ones of the level above's.
LEMMA FrontMarks ==
    ASSUME NEW S, NEW q \in Seq(S), q # <<>>
    PROVE  /\ Front(q) \in Seq(S)
           /\ Len(Front(q)) = Len(q) - 1
           /\ \A i \in 1..(Len(q) - 1) : Front(q)[i] = q[i]
           /\ Last(q) = q[Len(q)] /\ Last(q) \in S
           /\ Len(q) \in Nat \ {0}
<1>1. Len(q) \in Nat \ {0}
    OBVIOUS
<1>2. Last(q) = q[Len(q)] /\ Last(q) \in S
    BY <1>1 DEF Last
<1>3. /\ Front(q) \in Seq(S)
      /\ Len(Front(q)) = Len(q) - 1
      /\ \A i \in 1..(Len(q) - 1) : Front(q)[i] = q[i]
    <2>1. Front(q) = [i \in 1..(Len(q) - 1) |-> q[i]]
        BY <1>1 DEF Front
    <2>2. \A i \in 1..(Len(q) - 1) : q[i] \in S
        BY <1>1
    <2> QED
        BY <1>1, <2>1, <2>2
<1> QED
    BY <1>1, <1>2, <1>3

LEMMA InitInStep == Init => TypeOK /\ LogInStep
    BY NothingType DEF Init, TypeOK, LogInStep, Loop, Idle

\* Every step keeps every variable in its type.
LEMMA NextTypes == TypeOK /\ LogInStep /\ [Next]_vars => TypeOK'
<1> SUFFICES ASSUME TypeOK, LogInStep, [Next]_vars
             PROVE  TypeOK'
    OBVIOUS
<1> USE DEF TypeOK
<1>0. /\ Idle \in Loop
      /\ \A A, B \in SUBSET RowKey : A \subseteq B => Bulk(A, B) \in Loop
    BY DEF Loop, Idle, Bulk
<1>1. ASSUME NEW k \in RowKey, Enqueue(k)
      PROVE  TypeOK'
    <2>1. pending' \in Work
        BY <1>1, WriteType, SlotTypes DEF Enqueue, Content, Fits, QueueSlot, PatchSlot
    <2>2. InsertEntries(k) \o SlotEntries(PatchSlot(k)) \in Seq(UndoEntry)
        BY EntriesType, SlotTypes DEF Key
    <2> QED
        BY <1>1, <2>1, <2>2, LoggedType DEF Enqueue
<1>2. ASSUME NEW k \in RowKey, NEW fields \in Fields, EnqueuePatched(k, fields)
      PROVE  TypeOK'
    <2> DEFINE c == Recorded(pending[PatchSlot(k)], fields)
               mid == [pending EXCEPT ![QueueSlot(k)] = Queued]
    <2>1. mid \in Work
        BY WriteType, SlotTypes DEF Content, Fits, QueueSlot
    <2>2. [mid EXCEPT ![PatchSlot(k)] = c] \in Work
        BY <2>1, WriteType, CaptureFits, SlotTypes
    <2>3. InsertEntries(k) \o SlotEntries(PatchSlot(k)) \in Seq(UndoEntry)
        BY EntriesType, SlotTypes DEF Key
    <2> QED
        BY <1>2, <2>2, <2>3, LoggedType DEF EnqueuePatched
<1>3. ASSUME NEW k \in AllKey, EnqueueAll(k)
      PROVE  TypeOK'
    <2>1. pending' \in Work
        BY <1>3, WriteType, SlotTypes DEF EnqueueAll, Content, Fits, QueueSlot, Key
    <2> QED
        BY <1>3, <2>1, EntriesType, LoggedType DEF EnqueueAll, Key
<1>4. ASSUME NEW keys \in (SUBSET RowKey) \ {{}}, EnqueueBulk(keys)
      PROVE  TypeOK'
    BY <1>0, <1>4 DEF EnqueueBulk
<1>5. ASSUME NEW k \in RowKey, BulkInsert(k)
      PROVE  TypeOK'
    <2>1. pending' \in Work
        BY <1>5, WriteType, SlotTypes DEF BulkInsert, Content, Fits, QueueSlot
    <2>2. loop' \in Loop
        BY <1>5 DEF BulkInsert, Loop, Bulk, Idle
    <2> QED
        BY <1>5, <2>1, <2>2, EntriesType, LoggedType DEF BulkInsert, Key
<1>6. ASSUME NEW k \in RowKey, BulkPoison(k)
      PROVE  TypeOK'
    <2>1. pending' \in Work
        BY <1>6, WriteType, SlotTypes DEF BulkPoison, Content, Fits, PatchSlot
    <2>2. loop' \in Loop
        BY <1>6 DEF BulkPoison, Loop, Bulk, Idle
    <2> QED
        BY <1>6, <2>1, <2>2, EntriesType, SlotTypes, LoggedType DEF BulkPoison
<1>7. ASSUME BulkDone
      PROVE  TypeOK'
    BY <1>0, <1>7 DEF BulkDone
<1>8. ASSUME NEW g \in FanoutKey, NEW fields \in Fields, RecordFanout(g, fields)
      PROVE  TypeOK'
    <2>1. pending' \in Work
        BY <1>8, WriteType, CaptureFits, SlotTypes DEF RecordFanout
    <2> QED
        BY <1>8, <2>1, EntriesType, SlotTypes, LoggedType DEF RecordFanout
<1>9. ASSUME Drain
      PROVE  TypeOK'
    BY <1>9, NothingType, EntriesType, LoggedType DEF Drain
<1>10. ASSUME SubStart
       PROVE  TypeOK'
    BY <1>10 DEF SubStart
<1>11. ASSUME SubCommit
       PROVE  TypeOK'
    BY <1>11, FrontMarks DEF SubCommit, LogInStep
<1>12. ASSUME SubAbort
       PROVE  TypeOK'
    <2>1. Undoing(Last(marks)) \in Loop
        BY <1>12, FrontMarks DEF SubAbort, Loop, Undoing
    <2> QED
        BY <1>12, <2>1, FrontMarks DEF SubAbort, LogInStep
<1>13. ASSUME RevertOne
       PROVE  TypeOK'
    <2>1. undo # <<>>
        BY <1>13 DEF RevertOne, Loop, Idle
    <2> QED
        BY <1>13, <2>1, FrontMarks, RevertedType DEF RevertOne
<1>14. ASSUME RevertDone
       PROVE  TypeOK'
    BY <1>0, <1>14 DEF RevertDone
<1>15. ASSUME Commit \/ Abort \/ Begin
       PROVE  TypeOK'
    BY <1>15, NothingType DEF Commit, Abort, Begin, Cleared
<1>16. CASE UNCHANGED vars
    BY <1>16 DEF vars
<1> QED
    BY <1>1, <1>2, <1>3, <1>4, <1>5, <1>6, <1>7, <1>8, <1>9, <1>10, <1>11, <1>12,
       <1>13, <1>14, <1>15, <1>16 DEF Next, Triggers

\* Every step keeps the log in step with the open subtransactions: work only
\* lengthens it, and a level opened or closed takes its mark along.
LEMMA NextInStep == TypeOK /\ LogInStep /\ [Next]_vars => LogInStep'
<1> SUFFICES ASSUME TypeOK, LogInStep, [Next]_vars
             PROVE  LogInStep'
    OBVIOUS
<1>1. ASSUME NEW entries \in Seq(UndoEntry), undo' = Logged(entries),
             UNCHANGED <<open, marks, xact>>, loop.kind # "undo", xact = "active",
             loop'.kind # "undo"
      PROVE  LogInStep'
    BY <1>1, LoggedType DEF LogInStep, TypeOK, Logged
<1>2. ASSUME NEW k \in RowKey, Enqueue(k) \/ \E fields \in Fields : EnqueuePatched(k, fields)
      PROVE  LogInStep'
    <2>1. InsertEntries(k) \o SlotEntries(PatchSlot(k)) \in Seq(UndoEntry)
        BY EntriesType, SlotTypes DEF Key, TypeOK
    <2>2. loop = Idle /\ xact = "active" /\ UNCHANGED <<open, marks, xact, loop>>
            /\ undo' = Logged(InsertEntries(k) \o SlotEntries(PatchSlot(k)))
        BY <1>2 DEF Enqueue, EnqueuePatched, Running
    <2> QED
        BY <1>1, <2>1, <2>2 DEF Idle
<1>3. ASSUME NEW k \in AllKey, EnqueueAll(k)
      PROVE  LogInStep'
    BY <1>1, <1>3, EntriesType DEF EnqueueAll, Running, Idle, Key, TypeOK
<1>4. ASSUME NEW keys \in (SUBSET RowKey) \ {{}}, EnqueueBulk(keys)
      PROVE  LogInStep'
    BY <1>4 DEF EnqueueBulk, Running, Idle, Bulk, LogInStep
<1>5. ASSUME NEW k \in RowKey, BulkInsert(k) \/ BulkPoison(k)
      PROVE  LogInStep'
    <2>1. xact = "active"
        BY <1>5 DEF BulkInsert, BulkPoison, LogInStep, TypeOK, Idle
    <2>2. InsertEntries(k) \in Seq(UndoEntry) /\ SlotEntries(PatchSlot(k)) \in Seq(UndoEntry)
        BY EntriesType, SlotTypes DEF Key, TypeOK
    <2> QED
        BY <1>1, <1>5, <2>1, <2>2 DEF BulkInsert, BulkPoison, Bulk
<1>6. ASSUME BulkDone
      PROVE  LogInStep'
    BY <1>6 DEF BulkDone, Bulk, Idle, LogInStep
<1>7. ASSUME NEW g \in FanoutKey, NEW fields \in Fields, RecordFanout(g, fields)
      PROVE  LogInStep'
    BY <1>1, <1>7, EntriesType, SlotTypes DEF RecordFanout, Running, Idle, TypeOK
<1>8. ASSUME Drain
      PROVE  LogInStep'
    BY <1>1, <1>8, EntriesType DEF Drain, Running, Idle, TypeOK
<1>9. ASSUME SubStart
      PROVE  LogInStep'
    <2>1. /\ marks \in Seq(Nat) /\ open \in Nat /\ Len(undo) \in Nat
          /\ open = Len(marks) /\ loop = Idle /\ xact = "active"
          /\ open' = open + 1 /\ marks' = Append(marks, Len(undo))
          /\ UNCHANGED <<undo, loop, xact>>
        BY <1>9 DEF SubStart, TypeOK, Running, LogInStep
    <2>2. /\ Len(marks') = open' /\ marks'[open'] = Len(undo)
          /\ \A i \in 1..open' : i < open' => i \in 1..Len(marks) /\ marks'[i] = marks[i]
        BY <2>1
    <2>3. \A i \in 1..open' : marks'[i] <= Len(undo)
        BY <2>1, <2>2 DEF LogInStep
    <2>4. \A i, j \in 1..open' : i <= j => marks'[i] <= marks'[j]
        BY <2>1, <2>2, <2>3 DEF LogInStep
    <2> QED
        BY <2>1, <2>2, <2>3, <2>4 DEF LogInStep, Idle
<1>10. ASSUME SubCommit
       PROVE  LogInStep'
    <2>1. /\ marks \in Seq(Nat) /\ marks # <<>> /\ loop = Idle /\ xact = "active"
          /\ open' = open - 1 /\ marks' = Front(marks)
          /\ undo' = IF open' = 0 THEN <<>> ELSE undo
          /\ UNCHANGED <<loop, xact>>
        BY <1>10 DEF SubCommit, TypeOK, Running
    <2>2. /\ Len(marks) \in Nat \ {0} /\ open = Len(marks)
          /\ Len(marks') = Len(marks) - 1
          /\ \A i \in 1..(Len(marks) - 1) : marks'[i] = marks[i]
        BY <2>1, FrontMarks DEF LogInStep
    <2>3. CASE open' = 0
        BY <2>1, <2>2, <2>3 DEF LogInStep, Idle
    <2>4. CASE open' # 0
        BY <2>1, <2>2, <2>4 DEF LogInStep, Idle
    <2> QED
        BY <2>3, <2>4
<1>11. ASSUME SubAbort
       PROVE  LogInStep'
    <2>1. /\ marks \in Seq(Nat) /\ marks # <<>> /\ xact = "active"
          /\ open' = open - 1 /\ marks' = Front(marks) /\ loop' = Undoing(Last(marks))
          /\ UNCHANGED <<undo, xact>>
        BY <1>11 DEF SubAbort, TypeOK, Running
    <2>2. /\ Len(marks) \in Nat \ {0} /\ open = Len(marks)
          /\ Len(marks') = Len(marks) - 1
          /\ \A i \in 1..(Len(marks) - 1) : marks'[i] = marks[i]
          /\ Last(marks) = marks[Len(marks)]
        BY <2>1, FrontMarks DEF LogInStep
    <2> QED
        BY <2>1, <2>2 DEF LogInStep, Undoing
<1>12. ASSUME RevertOne
       PROVE  LogInStep'
    <2>1. loop.to \in Nat /\ undo # <<>>
        BY <1>12 DEF RevertOne, TypeOK, Loop, Idle
    <2> QED
        BY <1>12, <2>1, FrontMarks DEF RevertOne, LogInStep, TypeOK
<1>13. ASSUME RevertDone
       PROVE  LogInStep'
    BY <1>13 DEF RevertDone, LogInStep, TypeOK, Idle
<1>14. ASSUME Commit \/ Abort \/ Begin
       PROVE  LogInStep'
    BY <1>14 DEF Commit, Abort, Begin, Cleared, Running, LogInStep, TypeOK, Idle
<1>15. CASE UNCHANGED vars
    BY <1>15 DEF vars, LogInStep
<1> QED
    BY <1>2, <1>3, <1>4, <1>5, <1>6, <1>7, <1>8, <1>9, <1>10, <1>11, <1>12,
       <1>13, <1>14, <1>15 DEF Next, Triggers

\* The variables of PendingWork stay in their types.
THEOREM TypeCorrect == Spec => []TypeOK
<1>1. TypeOK /\ LogInStep /\ [Next]_vars => (TypeOK /\ LogInStep)'
    BY NextTypes, NextInStep
<1> QED
    BY InitInStep, <1>1, PTL DEF Spec

\* The undo log and the savepoint stack follow the open subtransactions.
THEOREM LogStaysInStep == Spec => []LogInStep
<1>1. TypeOK /\ LogInStep /\ [Next]_vars => (TypeOK /\ LogInStep)'
    BY NextTypes, NextInStep
<1> QED
    BY InitInStep, <1>1, PTL DEF Spec

-----------------------------------------------------------------------------
(* The undo log implements whole copies. *)

\* What a mark recovers is work.
LEMMA RecoveredType ==
    ASSUME NEW w \in Work, NEW log \in Seq(UndoEntry), NEW m \in Nat
    PROVE  RecoveredFrom(w, log, m) \in Work
<1> SUFFICES ASSUME NEW s \in Slot, TouchedSince(log, m, s)
             PROVE  LET c == Before(log[FirstTouch(log, m, s)], s)
                    IN  c \in Content /\ Fits(s, c)
    BY DEF RecoveredFrom, Work
<1>1. PICK i \in 1..Len(log) : i = FirstTouch(log, m, s) /\ Touches(log[i], s)
    BY FirstTouchExists DEF IsFirstTouch
<1>2. log[i] \in UndoEntry
    BY <1>1
<1> QED
    BY <1>1, <1>2 DEF UndoEntry, Before, Touches, Work

\* A write logged with what its slot held leaves every mark's work as it was.
LEMMA WriteRecovers ==
    ASSUME NEW w \in Work, NEW log \in Seq(UndoEntry),
           NEW s \in Slot, NEW c \in Content, Fits(s, c),
           NEW m \in Nat, m <= Len(log)
    PROVE  RecoveredFrom([w EXCEPT ![s] = c], Append(log, Wrote(s, w[s])), m)
             = RecoveredFrom(w, log, m)
<1> DEFINE w2 == [w EXCEPT ![s] = c]
           e == Wrote(s, w[s])
<1>1. w2 \in Work
    BY WriteType
<1>2. e \in UndoEntry
    BY DEF Wrote, UndoEntry, Work
<1>3. \A t \in Slot : IF Touches(e, t) THEN Before(e, t) = w[t] ELSE w2[t] = w[t]
    BY DEF Wrote, Touches, Before, Work
<1> QED
    BY <1>1, <1>2, <1>3, RecoveredAcrossEntry

\* Queueing a key logs enough: nothing when it was queued already.
LEMMA InsertRecovers ==
    ASSUME TypeOK, NEW k \in Key, NEW m \in Nat, m <= Len(undo)
    PROVE  LET mid == [pending EXCEPT ![QueueSlot(k)] = Queued]
               log == undo \o InsertEntries(k)
           IN  /\ mid \in Work /\ log \in Seq(UndoEntry) /\ m <= Len(log)
               /\ RecoveredFrom(mid, log, m) = Recovered(m)
<1> DEFINE s == QueueSlot(k)
           mid == [pending EXCEPT ![s] = Queued]
           log == undo \o InsertEntries(k)
<1> USE DEF TypeOK
<1>1. s \in Slot /\ Queued \in Content /\ Fits(s, Queued)
    BY SlotTypes DEF Content, Fits, QueueSlot
<1>2. mid \in Work
    BY <1>1, WriteType
<1>3. InsertEntries(k) \in Seq(UndoEntry)
    BY EntriesType
<1>4. log \in Seq(UndoEntry) /\ m <= Len(log)
    BY <1>3
<1>5. CASE pending[s] = Absent
    <2>1. log = Append(undo, Wrote(s, pending[s]))
        BY <1>1, <1>3, <1>5 DEF InsertEntries
    <2>2. RecoveredFrom(mid, log, m) = RecoveredFrom(pending, undo, m)
        BY <1>1, <2>1, WriteRecovers
    <2> QED
        BY <1>2, <1>4, <2>2 DEF Recovered
<1>6. CASE pending[s] # Absent
    <2>1. pending[s] = Queued
        BY <1>1, <1>6 DEF Work, Fits, QueueSlot
    <2>2. mid = pending /\ log = undo
        BY <1>6, <2>1 DEF Work, InsertEntries
    <2> QED
        BY <1>2, <1>4, <2>2 DEF Recovered
<1> QED
    BY <1>5, <1>6

\* Queueing a key and writing its patch, each logged.
LEMMA InsertAndPatchRecovers ==
    ASSUME TypeOK, NEW k \in RowKey, NEW c \in Content, Fits(PatchSlot(k), c),
           NEW m \in Nat, m <= Len(undo)
    PROVE  RecoveredFrom([pending EXCEPT ![QueueSlot(k)] = Queued, ![PatchSlot(k)] = c],
                         undo \o (InsertEntries(k) \o SlotEntries(PatchSlot(k))), m)
             = Recovered(m)
<1> DEFINE p == PatchSlot(k)
           mid == [pending EXCEPT ![QueueSlot(k)] = Queued]
           log == undo \o InsertEntries(k)
<1>1. /\ mid \in Work /\ log \in Seq(UndoEntry) /\ m <= Len(log)
      /\ RecoveredFrom(mid, log, m) = Recovered(m)
    BY InsertRecovers DEF Key
<1>2. p \in Slot /\ p # QueueSlot(k)
    BY SlotTypes DEF PatchSlot, QueueSlot
<1>3. mid[p] = pending[p]
    BY <1>2 DEF TypeOK, Work
<1> HIDE DEF mid, p
<1>4. RecoveredFrom([mid EXCEPT ![p] = c], Append(log, Wrote(p, mid[p])), m) = Recovered(m)
    <2> HIDE DEF log
    <2>1. RecoveredFrom([mid EXCEPT ![p] = c], Append(log, Wrote(p, mid[p])), m)
            = RecoveredFrom(mid, log, m)
        BY <1>1, <1>2, WriteRecovers DEF p
    <2> QED
        BY <1>1, <2>1
<1>5. /\ undo \in Seq(UndoEntry) /\ InsertEntries(k) \in Seq(UndoEntry)
      /\ Wrote(p, mid[p]) \in UndoEntry
    BY <1>1, <1>2, EntriesType DEF TypeOK, Key, Wrote, UndoEntry, Work
<1>6. Append(log, Wrote(p, mid[p])) = undo \o (InsertEntries(k) \o <<Wrote(p, mid[p])>>)
    <2> DEFINE e == Wrote(p, mid[p])
    <2> HIDE DEF e
    <2>1. <<e>> \in Seq(UndoEntry)
        BY <1>5 DEF e
    <2>2. Append(log, e) = log \o <<e>>
        BY <1>1, <1>5, AppendIsConcat DEF e
    <2>3. (undo \o InsertEntries(k)) \o <<e>> = undo \o (InsertEntries(k) \o <<e>>)
        BY <1>5, <2>1, ConcatAssociative
    <2> QED
        BY <2>2, <2>3 DEF e
<1>7. [mid EXCEPT ![p] = c] = [pending EXCEPT ![QueueSlot(k)] = Queued, ![PatchSlot(k)] = c]
    BY DEF mid, p
<1> QED
    BY <1>3, <1>4, <1>6, <1>7 DEF SlotEntries, p

\* A revert, read backwards, is a logged change: what the marks it keeps
\* recover is left as it was.
LEMMA RevertRecovers ==
    ASSUME TypeOK, undo # <<>>, NEW m \in Nat, m < Len(undo)
    PROVE  RecoveredFrom(Reverted(pending, Last(undo)), Front(undo), m) = Recovered(m)
<1> DEFINE e == Last(undo)
           w1 == Reverted(pending, e)
           log == Front(undo)
<1>1. /\ log \in Seq(UndoEntry) /\ e \in UndoEntry /\ m <= Len(log)
      /\ undo \in Seq(UndoEntry) /\ pending \in Work
    BY FrontMarks DEF TypeOK
<1>2. w1 \in Work
    BY <1>1, RevertedType
<1>3. undo = Append(log, e)
    BY <1>1, FrontMarks DEF Front, Last
<1>4. \A s \in Slot : IF Touches(e, s) THEN Before(e, s) = w1[s] ELSE pending[s] = w1[s]
    BY <1>1 DEF Reverted, Touches, Before, UndoEntry, Work
<1> HIDE DEF e, w1, log
<1>5. RecoveredFrom(pending, Append(log, e), m) = RecoveredFrom(w1, log, m)
    BY <1>1, <1>2, <1>4, RecoveredAcrossEntry
<1> QED
    BY <1>3, <1>5 DEF Recovered, e, w1, log

\* The instance's constants are the module's.
LEMMA SameWork == Snapshots!Nothing = Nothing /\ Snapshots!Work = Work
    BY DEF Snapshots!Nothing, Nothing, Snapshots!Work, Work, Snapshots!Slot, Slot,
           Snapshots!Content, Content, Snapshots!Fits, Fits, Snapshots!Fields, Fields,
           Snapshots!Key, Key

\* The copies, by the work a rollback in progress leads to.
LEMMA CopiesAre ==
    /\ loop.kind # "undo" => Copies = SavedWork
    /\ loop.kind = "undo" => Copies = Append(SavedWork, LiveWork)
    BY DEF Copies, LiveWork

\* An operation that logs what it changes is a change of the work alone.
LEMMA LoggedIsChange ==
    ASSUME TypeOK, TypeOK', LogInStep, loop.kind # "undo", loop'.kind # "undo",
           UNCHANGED <<open, marks>>,
           open > 0 => \A m \in Nat : m <= Len(undo) => Recovered(m)' = Recovered(m)
    PROVE  Snapshots!Change
<1>1. pending' \in Work
    BY DEF TypeOK
<1>2. \A i \in 1..Len(marks) : Recovered(marks[i])' = Recovered(marks[i])
    BY DEF LogInStep, TypeOK
<1>3. SavedWork' = SavedWork
    BY <1>2 DEF SavedWork
<1>4. Copies' = Copies
    BY <1>3 DEF Copies
<1> QED
    BY <1>1, <1>4, SameWork DEF Snapshots!Change

LEMMA WorkOperationsChange ==
    ASSUME TypeOK, TypeOK', LogInStep,
           \/ \E k \in RowKey : \/ Enqueue(k) \/ BulkInsert(k) \/ BulkPoison(k)
                                \/ \E fields \in Fields : EnqueuePatched(k, fields)
           \/ \E k \in AllKey : EnqueueAll(k)
           \/ \E g \in FanoutKey, fields \in Fields : RecordFanout(g, fields)
           \/ Drain
    PROVE  Snapshots!Change
<1> USE DEF Recovered
<1>0. pending \in Work /\ undo \in Seq(UndoEntry) /\ open \in Nat
    BY DEF TypeOK
<1>1. ASSUME NEW k \in RowKey, Enqueue(k)
      PROVE  Snapshots!Change
    <2>1. Poisoned \in Content /\ Fits(PatchSlot(k), Poisoned)
        BY DEF Content, Fits, PatchSlot
    <2>2. ASSUME open > 0, NEW m \in Nat, m <= Len(undo)
          PROVE  Recovered(m)' = Recovered(m)
        BY <1>1, <2>1, <2>2, InsertAndPatchRecovers DEF Enqueue, Logged
    <2> QED
        BY <1>1, <2>2, LoggedIsChange DEF Enqueue, Running, Idle
<1>2. ASSUME NEW k \in RowKey, NEW fields \in Fields, EnqueuePatched(k, fields)
      PROVE  Snapshots!Change
    <2> DEFINE c == Recorded(pending[PatchSlot(k)], fields)
    <2>1. c \in Content /\ Fits(PatchSlot(k), c)
        BY <1>0, CaptureFits
    <2> HIDE DEF c
    <2>2. ASSUME open > 0, NEW m \in Nat, m <= Len(undo)
          PROVE  Recovered(m)' = Recovered(m)
        <3>1. /\ pending' = [pending EXCEPT ![QueueSlot(k)] = Queued, ![PatchSlot(k)] = c]
              /\ undo' = undo \o (InsertEntries(k) \o SlotEntries(PatchSlot(k)))
            BY <1>2, <2>2 DEF EnqueuePatched, Logged, c
        <3> QED
            BY <2>1, <2>2, <3>1, InsertAndPatchRecovers
    <2> QED
        BY <1>2, <2>2, LoggedIsChange DEF EnqueuePatched, Running, Idle
<1>3. ASSUME NEW k \in AllKey, EnqueueAll(k)
      PROVE  Snapshots!Change
    <2>1. ASSUME open > 0, NEW m \in Nat, m <= Len(undo)
          PROVE  Recovered(m)' = Recovered(m)
        BY <1>3, <2>1, InsertRecovers DEF EnqueueAll, Logged, Key
    <2> QED
        BY <1>3, <2>1, LoggedIsChange DEF EnqueueAll, Running, Idle
<1>4. ASSUME NEW k \in RowKey, BulkInsert(k)
      PROVE  Snapshots!Change
    <2>1. ASSUME open > 0, NEW m \in Nat, m <= Len(undo)
          PROVE  Recovered(m)' = Recovered(m)
        BY <1>4, <2>1, InsertRecovers DEF BulkInsert, Logged, Key
    <2> QED
        BY <1>4, <2>1, LoggedIsChange DEF BulkInsert, Bulk
<1>5. ASSUME NEW s \in Slot, NEW c \in Content, Fits(s, c),
             pending' = [pending EXCEPT ![s] = c], undo' = Logged(SlotEntries(s)),
             loop.kind # "undo", loop'.kind # "undo", UNCHANGED <<open, marks>>
      PROVE  Snapshots!Change
    <2>1. ASSUME open > 0, NEW m \in Nat, m <= Len(undo)
          PROVE  Recovered(m)' = Recovered(m)
        <3>1. undo' = Append(undo, Wrote(s, pending[s]))
            <4>1. Wrote(s, pending[s]) \in UndoEntry
                BY <1>0 DEF Wrote, UndoEntry, Work
            <4> QED
                BY <1>0, <1>5, <2>1, <4>1, AppendIsConcat DEF Logged, SlotEntries
        <3>2. RecoveredFrom([pending EXCEPT ![s] = c], Append(undo, Wrote(s, pending[s])), m)
                = RecoveredFrom(pending, undo, m)
            BY <1>0, <1>5, <2>1, WriteRecovers
        <3> QED
            BY <1>5, <3>1, <3>2
    <2> QED
        BY <1>5, <2>1, LoggedIsChange
<1>6. ASSUME NEW k \in RowKey, BulkPoison(k)
      PROVE  Snapshots!Change
    <2>1. Poisoned \in Content /\ Fits(PatchSlot(k), Poisoned) /\ PatchSlot(k) \in Slot
        BY SlotTypes DEF Content, Fits, PatchSlot
    <2> QED
        BY <1>5, <1>6, <2>1 DEF BulkPoison, Bulk
<1>7. ASSUME NEW g \in FanoutKey, NEW fields \in Fields, RecordFanout(g, fields)
      PROVE  Snapshots!Change
    <2>1. /\ Merged(pending[FanoutSlot(g)], fields) \in Content
          /\ Fits(FanoutSlot(g), Merged(pending[FanoutSlot(g)], fields))
          /\ FanoutSlot(g) \in Slot
        BY <1>0, CaptureFits, SlotTypes
    <2> QED
        BY <1>0, <1>5, <1>7, <2>1 DEF RecordFanout, Running, Idle, Work
<1>8. ASSUME Drain
      PROVE  Snapshots!Change
    <2>1. ASSUME open > 0, NEW m \in Nat, m <= Len(undo), IsEmpty(pending)
          PROVE  Recovered(m)' = Recovered(m)
        <3>1. pending = Nothing
            BY <1>0, <2>1 DEF IsEmpty, Nothing, Work
        <3> QED
            BY <1>0, <1>8, <2>1, <3>1 DEF Drain, Logged, DrainEntries
    <2>2. ASSUME open > 0, NEW m \in Nat, m <= Len(undo), ~IsEmpty(pending)
          PROVE  Recovered(m)' = Recovered(m)
        <3> DEFINE e == Drained(pending)
        <3>1. e \in UndoEntry
            BY <1>0 DEF Drained, UndoEntry
        <3>2. undo' = Append(undo, e)
            BY <1>0, <1>8, <2>2, <3>1, AppendIsConcat DEF Drain, Logged, DrainEntries
        <3>3. \A s \in Slot : IF Touches(e, s) THEN Before(e, s) = pending[s]
                                               ELSE Nothing[s] = pending[s]
            BY DEF Drained, Touches, Before
        <3> QED
            BY <1>0, <1>8, <2>2, <3>1, <3>2, <3>3, NothingType, RecoveredAcrossEntry DEF Drain
    <2> QED
        BY <1>8, <2>1, <2>2, LoggedIsChange DEF Drain, Running, Idle
<1> QED
    BY <1>1, <1>2, <1>3, <1>4, <1>6, <1>7, <1>8

\* What every other step does to the live work and the open savepoints' copies.
LEMMA OtherSteps ==
    ASSUME TypeOK, TypeOK', LogInStep, LogInStep'
    PROVE  /\ (\/ \E keys \in (SUBSET RowKey) \ {{}} : EnqueueBulk(keys)
               \/ BulkDone \/ Begin \/ UNCHANGED vars \/ RevertOne \/ RevertDone)
              => LiveWork' = LiveWork /\ SavedWork' = SavedWork
           /\ SubStart => LiveWork' = LiveWork /\ SavedWork' = Append(SavedWork, LiveWork)
           /\ SubCommit \/ SubAbort => SavedWork # <<>> /\ SavedWork' = Front(SavedWork)
           /\ SubCommit => LiveWork' = LiveWork
           /\ SubAbort => LiveWork' = Last(SavedWork)
           /\ RevertDone => LiveWork = pending
           /\ Commit \/ Abort => LiveWork' = Nothing /\ SavedWork' = <<>>
<1>2. ASSUME \/ \E keys \in (SUBSET RowKey) \ {{}} : EnqueueBulk(keys)
             \/ BulkDone \/ Begin \/ UNCHANGED vars
      PROVE  LiveWork' = LiveWork /\ SavedWork' = SavedWork
    <2>1. UNCHANGED <<pending, undo, marks>>
        BY <1>2 DEF EnqueueBulk, BulkDone, Begin, vars
    <2>2. SavedWork' = SavedWork
        BY <2>1 DEF SavedWork, Recovered
    <2>3. loop' = loop \/ (loop.kind # "undo" /\ loop'.kind # "undo")
        BY <1>2 DEF EnqueueBulk, BulkDone, Begin, vars, Running, Idle, Bulk
    <2> QED
        BY <2>1, <2>2, <2>3 DEF LiveWork, Recovered
<1>3. ASSUME SubStart
      PROVE  LiveWork' = LiveWork /\ SavedWork' = Append(SavedWork, LiveWork)
    <2>1. Len(undo) \in Nat /\ marks \in Seq(Nat) /\ pending \in Work /\ undo \in Seq(UndoEntry)
        BY DEF TypeOK
    <2>2. LiveWork' = LiveWork /\ LiveWork = pending
        BY <1>3 DEF SubStart, Running, Idle, LiveWork
    <2>3. Recovered(Len(undo)) = pending
        BY <2>1, RecoveredAtEnd DEF Recovered
    <2>4. SavedWork' = [i \in 1..Len(Append(marks, Len(undo))) |->
                          Recovered(Append(marks, Len(undo))[i])]
        BY <1>3 DEF SubStart, SavedWork, Recovered
    <2>5. SavedWork' = Append(SavedWork, pending)
        BY <2>1, <2>3, <2>4 DEF SavedWork
    <2> QED
        BY <2>2, <2>5
<1>4. ASSUME SubCommit \/ SubAbort
      PROVE  SavedWork # <<>> /\ SavedWork' = Front(SavedWork)
    <2>1. marks \in Seq(Nat) /\ marks # <<>> /\ marks' = Front(marks) /\ Len(marks) \in Nat \ {0}
        BY <1>4 DEF SubCommit, SubAbort, TypeOK
    <2>2. Len(marks') = Len(marks) - 1 /\ \A i \in 1..(Len(marks) - 1) : marks'[i] = marks[i]
        BY <2>1, FrontMarks
    <2>3. (undo' = undo /\ pending' = pending) \/ Len(marks') = 0
        BY <1>4, <2>1, <2>2 DEF SubCommit, SubAbort, LogInStep
    <2>4. SavedWork' = [i \in 1..(Len(marks) - 1) |-> Recovered(marks[i])]
        BY <2>1, <2>2, <2>3 DEF SavedWork, Recovered
    <2>5. SavedWork # <<>> /\ Front(SavedWork) = [i \in 1..(Len(marks) - 1) |-> Recovered(marks[i])]
        BY <2>1 DEF SavedWork, Front
    <2> QED
        BY <2>4, <2>5
<1>5. ASSUME SubCommit
      PROVE  LiveWork' = LiveWork
    BY <1>5 DEF SubCommit, Running, Idle, LiveWork
<1>6. ASSUME SubAbort
      PROVE  LiveWork' = Last(SavedWork)
    <2>1. marks \in Seq(Nat) /\ marks # <<>> /\ Len(marks) \in Nat \ {0}
        BY <1>6 DEF SubAbort, TypeOK
    <2>2. LiveWork' = Recovered(marks[Len(marks)])
        BY <1>6, <2>1 DEF SubAbort, Undoing, LiveWork, Recovered, Last
    <2>3. Last(SavedWork) = Recovered(marks[Len(marks)])
        BY <2>1 DEF SavedWork, Last
    <2> QED
        BY <2>2, <2>3
<1>7. ASSUME RevertOne
      PROVE  LiveWork' = LiveWork /\ SavedWork' = SavedWork
    <2>1. loop.kind = "undo" /\ loop.to \in Nat /\ loop.to < Len(undo) /\ undo # <<>>
        BY <1>7 DEF RevertOne, TypeOK, Loop, Idle
    <2>2. \A m \in Nat : m < Len(undo) =>
                RecoveredFrom(pending', undo', m) = RecoveredFrom(pending, undo, m)
        BY <1>7, <2>1, RevertRecovers DEF RevertOne, Recovered
    <2>3. \A i \in 1..Len(marks) : marks[i] \in Nat /\ marks[i] < Len(undo)
        BY <2>1 DEF LogInStep, TypeOK
    <2>4. marks' = marks /\ loop' = loop
        BY <1>7 DEF RevertOne
    <2>5. LiveWork' = LiveWork
        BY <2>1, <2>2, <2>4 DEF LiveWork, Recovered
    <2>6. \A i \in 1..Len(marks) : Recovered(marks[i])' = Recovered(marks[i])
        BY <2>2, <2>3, <2>4 DEF Recovered
    <2>7. SavedWork' = SavedWork
        BY <2>4, <2>6 DEF SavedWork
    <2> QED
        BY <2>5, <2>7
<1>8. ASSUME RevertDone
      PROVE  LiveWork' = LiveWork /\ SavedWork' = SavedWork /\ LiveWork = pending
    <2>1. loop.kind = "undo" /\ loop.to \in Nat /\ Len(undo) <= loop.to /\ loop' = Idle
        BY <1>8 DEF RevertDone, TypeOK, Loop, Idle
    <2>2. Recovered(loop.to) = pending
        BY <2>1, RecoveredAtEnd DEF Recovered, TypeOK
    <2>3. LiveWork' = LiveWork /\ LiveWork = pending
        BY <1>8, <2>1, <2>2 DEF RevertDone, LiveWork, Idle
    <2>4. undo' = undo \/ Len(marks) = 0
        BY <1>8 DEF RevertDone, LogInStep
    <2>5. SavedWork' = SavedWork
        BY <1>8, <2>4 DEF RevertDone, SavedWork, Recovered
    <2> QED
        BY <2>3, <2>5
<1>9. ASSUME Commit \/ Abort
      PROVE  LiveWork' = Nothing /\ SavedWork' = <<>>
    <2>1. pending' = Nothing /\ marks' = <<>> /\ loop' = Idle
        BY <1>9 DEF Commit, Abort, Cleared, Running
    <2> QED
        BY <2>1 DEF SavedWork, LiveWork, Idle
<1> QED
    BY <1>2, <1>3, <1>4, <1>5, <1>6, <1>7, <1>8, <1>9

\* Each of them is a step of the whole-copy savepoints, or of none.
LEMMA OtherStepsAreSnapshots ==
    ASSUME TypeOK, TypeOK', LogInStep, LogInStep',
           \/ \E keys \in (SUBSET RowKey) \ {{}} : EnqueueBulk(keys)
           \/ BulkDone \/ Begin \/ UNCHANGED vars
           \/ SubStart \/ SubCommit \/ SubAbort \/ RevertOne \/ RevertDone
           \/ Commit \/ Abort
    PROVE  [Snapshots!Next]_<<pending, Copies, (loop.kind = "undo")>>
<1> USE CopiesAre
<1>0. SavedWork \in Seq(Work) /\ LiveWork \in Work /\ LiveWork' \in Work
    <2>1. \A i \in 1..Len(marks) : marks[i] \in Nat /\ Recovered(marks[i]) \in Work
        BY RecoveredType DEF TypeOK, Recovered
    <2>2. SavedWork \in Seq(Work)
        BY <2>1 DEF SavedWork, TypeOK
    <2>3. LiveWork \in Work
        BY RecoveredType DEF LiveWork, TypeOK, Recovered, Loop, Idle
    <2>4. RecoveredFrom(pending', undo', loop'.to) \in Work \/ loop'.kind # "undo"
        BY RecoveredType DEF TypeOK, Loop, Idle
    <2> QED
        BY <2>2, <2>3, <2>4 DEF LiveWork, TypeOK, Recovered
<1>1. Copies' = IF loop'.kind = "undo" THEN Append(SavedWork', LiveWork') ELSE SavedWork'
    BY DEF Copies, LiveWork
<1>2. ASSUME \/ \E keys \in (SUBSET RowKey) \ {{}} : EnqueueBulk(keys)
             \/ BulkDone \/ Begin \/ UNCHANGED vars
      PROVE  UNCHANGED <<pending, Copies, (loop.kind = "undo")>>
    <2>1. pending' = pending /\ LiveWork' = LiveWork /\ SavedWork' = SavedWork
        BY <1>2, OtherSteps DEF EnqueueBulk, BulkDone, Begin, vars
    <2>2. (loop'.kind = "undo") <=> (loop.kind = "undo")
        BY <1>2 DEF EnqueueBulk, BulkDone, Begin, vars, Running, Idle, Bulk
    <2> QED
        BY <1>1, <2>1, <2>2
<1>3. ASSUME SubStart
      PROVE  Snapshots!Start
    <2>1. LiveWork = pending /\ loop.kind # "undo" /\ loop' = loop /\ pending' = pending
        BY <1>3 DEF SubStart, Running, Idle, LiveWork
    <2> QED
        BY <1>1, <1>3, <2>1, OtherSteps DEF Snapshots!Start
<1>4. ASSUME SubCommit
      PROVE  Snapshots!Release
    <2>1. loop.kind # "undo" /\ loop' = loop /\ pending' = pending
        BY <1>4 DEF SubCommit, Running, Idle
    <2>2. Copies = SavedWork /\ SavedWork # <<>> /\ Copies' = Front(SavedWork)
        BY <1>1, <1>4, <2>1, OtherSteps
    <2> QED
        BY <2>1, <2>2 DEF Snapshots!Release, Snapshots!Front, Front
<1>5. ASSUME SubAbort
      PROVE  Snapshots!Rollback
    <2>1. loop.kind # "undo" /\ loop'.kind = "undo" /\ pending' = pending
        BY <1>5 DEF SubAbort, Running, Idle, Undoing
    <2>2. SavedWork # <<>> /\ Copies' = Append(Front(SavedWork), Last(SavedWork))
        BY <1>1, <1>5, <2>1, OtherSteps
    <2>3. Append(Front(SavedWork), Last(SavedWork)) = SavedWork
        BY <1>0, <2>2 DEF Front, Last
    <2> QED
        BY <2>1, <2>2, <2>3 DEF Snapshots!Rollback
<1>6. ASSUME RevertOne
      PROVE  Snapshots!Restore
    <2>1. loop.kind = "undo" /\ loop' = loop /\ pending' \in Work
        BY <1>6 DEF RevertOne, TypeOK
    <2> QED
        BY <1>1, <1>6, <2>1, OtherSteps, SameWork DEF Snapshots!Restore
<1>7. ASSUME RevertDone
      PROVE  Snapshots!Restored
    <2>1. loop.kind = "undo" /\ loop'.kind # "undo" /\ pending' = pending
        BY <1>7 DEF RevertDone, Idle
    <2>2. Copies = Append(SavedWork, pending) /\ Copies' = SavedWork
        BY <1>1, <1>7, <2>1, OtherSteps
    <2>3. /\ Last(Append(SavedWork, pending)) = pending
          /\ Front(Append(SavedWork, pending)) = SavedWork
        BY <1>0 DEF Front, Last, TypeOK
    <2> QED
        BY <2>1, <2>2, <2>3
        DEF Snapshots!Restored, Snapshots!Front, Front, Snapshots!Last, Last
<1>8. ASSUME Commit \/ Abort
      PROVE  Snapshots!Finish
    <2>1. loop.kind # "undo" /\ loop' = loop /\ pending' = Nothing
        BY <1>8 DEF Commit, Abort, Cleared, Running, Idle
    <2> QED
        BY <1>1, <1>8, <2>1, OtherSteps, SameWork DEF Snapshots!Finish
<1> QED
    BY <1>2, <1>3, <1>4, <1>5, <1>6, <1>7, <1>8 DEF Snapshots!Next

\* Each step is a step of the whole-copy savepoints, or of none.
LEMMA StepsAreSnapshots ==
    TypeOK /\ TypeOK' /\ LogInStep /\ LogInStep' /\ [Next]_vars
        => [Snapshots!Next]_<<pending, Copies, (loop.kind = "undo")>>
    BY WorkOperationsChange, OtherStepsAreSnapshots DEF Next, Triggers, Snapshots!Next

\* When a rollback ends, what is pending is exactly the work its subtransaction
\* started from; until then nothing else happens, and no step but a start or an
\* end of a subtransaction touches any copy.
THEOREM UndoLogImplementsSnapshots == Spec => SavepointsAreSnapshots
<1>1. Init => Snapshots!Init
    BY SameWork DEF Init, Snapshots!Init, Copies, SavedWork, Idle
<1>2. TypeOK /\ LogInStep /\ [Next]_vars => (TypeOK /\ LogInStep)'
    BY NextTypes, NextInStep
<1>3. TypeOK /\ TypeOK' /\ LogInStep /\ LogInStep' /\ [Next]_vars
        => [Snapshots!Next]_<<pending, Copies, (loop.kind = "undo")>>
    BY StepsAreSnapshots
<1> QED
    BY InitInStep, <1>1, <1>2, <1>3, PTL
    DEF Spec, SavepointsAreSnapshots, Snapshots!Spec, Snapshots!snapVars

-----------------------------------------------------------------------------
(* Patches ride on queued keys. *)

\* The pending work is paired after an operation on it.
LEMMA OperationsPair ==
    ASSUME TypeOK, PatchesRideOnKeys, loop.kind # "undo",
           \/ \E k \in RowKey : \/ Enqueue(k) \/ BulkInsert(k) \/ BulkPoison(k)
                                \/ \E fields \in Fields : EnqueuePatched(k, fields)
           \/ \E k \in AllKey : EnqueueAll(k)
           \/ \E g \in FanoutKey, fields \in Fields : RecordFanout(g, fields)
           \/ Drain
    PROVE  Paired(pending', Unpoisoned')
<1>0. Paired(pending, Unpoisoned) /\ pending \in [Slot -> Content] /\ loop \in Loop
    BY DEF PatchesRideOnKeys, LiveWork, TypeOK, Work
<1>1. Running => Unpoisoned = {}
    BY DEF Running, Idle, Unpoisoned
<1>2. ASSUME NEW k \in RowKey, NEW c \in Content, c # Absent, Running, UNCHANGED loop,
             pending' = [pending EXCEPT ![QueueSlot(k)] = Queued, ![PatchSlot(k)] = c]
      PROVE  Paired(pending', Unpoisoned')
    <2>1. Unpoisoned = {} /\ Unpoisoned' = {}
        BY <1>2 DEF Running, Idle, Unpoisoned
    <2> QED
        BY <1>0, <1>2, <2>1, SlotTypes DEF Paired, QueueSlot, PatchSlot
<1>3. ASSUME NEW k \in RowKey, Enqueue(k)
      PROVE  Paired(pending', Unpoisoned')
    BY <1>2, <1>3, Markers DEF Enqueue, Content
<1>4. ASSUME NEW k \in RowKey, NEW fields \in Fields, EnqueuePatched(k, fields)
      PROVE  Paired(pending', Unpoisoned')
    <2>1. Recorded(pending[PatchSlot(k)], fields) \in {Poisoned} \cup Fields
        BY <1>0, RecordedType, SlotTypes DEF TypeOK, Work, Fits, PatchSlot
    <2> QED
        BY <1>2, <1>4, <2>1, Markers DEF EnqueuePatched, Content
<1>5. ASSUME NEW k \in AllKey, EnqueueAll(k)
      PROVE  Paired(pending', Unpoisoned')
    <2>1. Unpoisoned = {} /\ Unpoisoned' = {}
        BY <1>5 DEF EnqueueAll, Running, Idle, Unpoisoned
    <2>2. k \in Key /\ k \notin RowKey
        BY KeysApart DEF Key
    <2> QED
        BY <1>0, <1>5, <2>1, <2>2, SlotTypes DEF EnqueueAll, Paired, QueueSlot, PatchSlot
<1>6. ASSUME NEW k \in RowKey, BulkInsert(k)
      PROVE  Paired(pending', Unpoisoned')
    <2>1. Unpoisoned' = Unpoisoned \cup {k}
        BY <1>0, <1>6 DEF BulkInsert, Bulk, Unpoisoned, Loop, Idle
    <2> QED
        BY <1>0, <1>6, <2>1, SlotTypes DEF BulkInsert, Paired, QueueSlot, PatchSlot
<1>7. ASSUME NEW k \in RowKey, BulkPoison(k)
      PROVE  Paired(pending', Unpoisoned')
    <2>1. Unpoisoned' = Unpoisoned \ {k} /\ k \in Unpoisoned
        BY <1>0, <1>7 DEF BulkPoison, Bulk, Unpoisoned, Loop, Idle
    <2>2. pending[QueueSlot(k)] = Queued
        BY <2>1 DEF PatchesRideOnKeys
    <2> QED
        BY <1>0, <1>7, <2>1, <2>2, SlotTypes, Markers
        DEF BulkPoison, Paired, QueueSlot, PatchSlot
<1>8. ASSUME NEW g \in FanoutKey, NEW fields \in Fields, RecordFanout(g, fields)
      PROVE  Paired(pending', Unpoisoned')
    <2>1. Unpoisoned = {} /\ Unpoisoned' = {}
        BY <1>8 DEF RecordFanout, Running, Idle, Unpoisoned
    <2> QED
        BY <1>0, <1>8, <2>1, SlotTypes DEF RecordFanout, Paired, QueueSlot, PatchSlot, FanoutSlot
<1>9. ASSUME Drain
      PROVE  Paired(pending', Unpoisoned')
    BY <1>9, SlotTypes, Markers DEF Drain, Paired, Nothing
<1> QED
    BY <1>3, <1>4, <1>5, <1>6, <1>7, <1>8, <1>9

\* A bulk enqueue has queued each key it has yet to poison.
LEMMA BulkKeysQueued ==
    ASSUME TypeOK, PatchesRideOnKeys, [Next]_vars
    PROVE  \A k \in Unpoisoned' : pending'[QueueSlot(k)] = Queued
<1> SUFFICES ASSUME NEW k \in Unpoisoned'
             PROVE  pending'[QueueSlot(k)] = Queued
    OBVIOUS
<1>0. pending \in [Slot -> Content] /\ loop \in Loop
    BY DEF TypeOK, Work
<1>1. ASSUME NEW j \in RowKey, BulkInsert(j)
      PROVE  pending'[QueueSlot(k)] = Queued
    <2>1. k = j \/ k \in Unpoisoned
        BY <1>1 DEF BulkInsert, Bulk, Unpoisoned
    <2>2. k \in RowKey
        BY <1>0, <1>1, <2>1 DEF BulkInsert, Loop, Idle, Unpoisoned
    <2> QED
        BY <1>0, <1>1, <2>1, <2>2, SlotTypes DEF BulkInsert, PatchesRideOnKeys
<1>2. ASSUME NEW j \in RowKey, BulkPoison(j)
      PROVE  pending'[QueueSlot(k)] = Queued
    <2>1. k \in Unpoisoned
        BY <1>2 DEF BulkPoison, Bulk, Unpoisoned
    <2>2. k \in RowKey
        BY <1>0, <1>2, <2>1 DEF BulkPoison, Loop, Idle, Unpoisoned
    <2> QED
        BY <1>0, <1>2, <2>1, <2>2, SlotTypes
        DEF BulkPoison, PatchesRideOnKeys, QueueSlot, PatchSlot
<1>3. CASE \/ \E j \in RowKey : \/ Enqueue(j)
                                \/ \E fields \in Fields : EnqueuePatched(j, fields)
           \/ \E j \in AllKey : EnqueueAll(j)
           \/ \E g \in FanoutKey, fields \in Fields : RecordFanout(g, fields)
           \/ Drain
    <2>1. loop' = Idle
        BY <1>3 DEF Enqueue, EnqueuePatched, EnqueueAll, RecordFanout, Drain, Running
    <2> QED
        BY <2>1 DEF Idle, Unpoisoned
<1>4. ASSUME NEW keys \in (SUBSET RowKey) \ {{}}, EnqueueBulk(keys)
      PROVE  pending'[QueueSlot(k)] = Queued
    BY <1>4 DEF EnqueueBulk, Bulk, Unpoisoned
<1>5. CASE BulkDone \/ SubStart \/ SubCommit \/ SubAbort \/ RevertDone
                \/ Commit \/ Abort
    <2>1. loop'.kind # "bulk"
        BY <1>5 DEF BulkDone, SubStart, SubCommit, SubAbort, RevertDone,
                    Commit, Abort, Cleared, Running, Idle, Undoing
    <2> QED
        BY <2>1 DEF Unpoisoned
<1>6. CASE RevertOne
    BY <1>6 DEF RevertOne, Unpoisoned
<1>7. CASE Begin \/ UNCHANGED vars
    BY <1>7 DEF Begin, vars, PatchesRideOnKeys, Unpoisoned
<1> QED
    BY <1>1, <1>2, <1>3, <1>4, <1>5, <1>6, <1>7 DEF Next, Triggers

LEMMA NextRides ==
    TypeOK /\ TypeOK' /\ LogInStep /\ LogInStep' /\ PatchesRideOnKeys /\ [Next]_vars
        => PatchesRideOnKeys'
<1> SUFFICES ASSUME TypeOK, TypeOK', LogInStep, LogInStep', PatchesRideOnKeys, [Next]_vars
             PROVE  /\ Paired(LiveWork', Unpoisoned')
                    /\ \A i \in 1..Len(marks') : Paired(SavedWork'[i], {})
    BY BulkKeysQueued DEF PatchesRideOnKeys, Paired
<1>0. /\ Paired(LiveWork, Unpoisoned) /\ \A i \in 1..Len(marks) : Paired(SavedWork[i], {})
      /\ SavedWork \in [1..Len(marks) -> Work] /\ Len(marks) \in Nat
      /\ DOMAIN SavedWork' = 1..Len(marks')
    <2>1. \A i \in 1..Len(marks) : Recovered(marks[i]) \in Work
        BY RecoveredType DEF TypeOK, Recovered
    <2> QED
        BY <2>1 DEF PatchesRideOnKeys, SavedWork, TypeOK
<1>1. ASSUME \/ \E k \in RowKey : \/ Enqueue(k) \/ BulkInsert(k) \/ BulkPoison(k)
                                  \/ \E fields \in Fields : EnqueuePatched(k, fields)
             \/ \E k \in AllKey : EnqueueAll(k)
             \/ \E g \in FanoutKey, fields \in Fields : RecordFanout(g, fields)
             \/ Drain
      PROVE  Paired(LiveWork', Unpoisoned') /\ \A i \in 1..Len(marks') : Paired(SavedWork'[i], {})
    <2>1. SavedWork' = SavedWork /\ marks' = marks
        <3>1. Snapshots!Change
            BY <1>1, WorkOperationsChange
        <3>2. /\ loop.kind # "undo" /\ loop'.kind # "undo" /\ marks' = marks
            BY <1>1 DEF Enqueue, EnqueuePatched, EnqueueAll, BulkInsert, BulkPoison,
                        RecordFanout, Drain, Running, Idle, Bulk
        <3>3. Copies' = Copies
            BY <3>1 DEF Snapshots!Change
        <3> QED
            BY <3>2, <3>3 DEF Copies
    <2>2. loop.kind # "undo" /\ loop'.kind # "undo"
        BY <1>1 DEF Enqueue, EnqueuePatched, EnqueueAll, BulkInsert, BulkPoison,
                    RecordFanout, Drain, Running, Idle, Bulk
    <2>3. LiveWork' = pending'
        BY <2>2 DEF LiveWork
    <2> QED
        BY <1>0, <1>1, <2>1, <2>2, <2>3, OperationsPair
<1>2. ASSUME NEW keys \in (SUBSET RowKey) \ {{}}, EnqueueBulk(keys)
      PROVE  Paired(LiveWork', Unpoisoned') /\ \A i \in 1..Len(marks') : Paired(SavedWork'[i], {})
    <2>1. /\ loop = Idle /\ loop' = Bulk(keys, keys)
          /\ UNCHANGED <<pending, undo, marks>>
        BY <1>2 DEF EnqueueBulk, Running
    <2>2. Unpoisoned = {} /\ Unpoisoned' = {} /\ LiveWork' = LiveWork
        BY <2>1 DEF Idle, Bulk, Unpoisoned, LiveWork
    <2>3. SavedWork' = SavedWork
        BY <2>1 DEF SavedWork, Recovered
    <2> QED
        BY <1>0, <2>1, <2>2, <2>3
<1>3. CASE UNCHANGED vars
    <2>1. UNCHANGED <<pending, undo, marks, loop>>
        BY <1>3 DEF vars
    <2>2. LiveWork' = LiveWork /\ SavedWork' = SavedWork /\ Unpoisoned' = Unpoisoned
        BY <2>1 DEF LiveWork, SavedWork, Recovered, Unpoisoned
    <2> QED
        BY <1>0, <2>1, <2>2
<1>4. ASSUME \/ BulkDone \/ Begin \/ SubStart \/ SubCommit \/ SubAbort
             \/ RevertOne \/ RevertDone \/ Commit \/ Abort
      PROVE  Paired(LiveWork', Unpoisoned') /\ \A i \in 1..Len(marks') : Paired(SavedWork'[i], {})
    <2>0. Unpoisoned = {} /\ Unpoisoned' = {}
        BY <1>4 DEF BulkDone, Begin, SubStart, SubCommit, SubAbort, RevertOne, RevertDone,
                    Commit, Abort, Cleared, Running, Idle, Bulk, Undoing, Unpoisoned, LogInStep
    <2>1. ASSUME SubStart
          PROVE  Paired(LiveWork', {}) /\ \A i \in 1..Len(marks') : Paired(SavedWork'[i], {})
        <3>1. SavedWork' = Append(SavedWork, LiveWork) /\ LiveWork' = LiveWork
            BY <2>1, OtherSteps
        <3>2. \A i \in 1..Len(SavedWork') : Paired(SavedWork'[i], {})
            BY <1>0, <2>0, <3>1
        <3> QED
            BY <1>0, <2>0, <3>1, <3>2
    <2>2. ASSUME SubCommit \/ SubAbort
          PROVE  Paired(LiveWork', {}) /\ \A i \in 1..Len(marks') : Paired(SavedWork'[i], {})
        <3>1. /\ SavedWork # <<>> /\ SavedWork' = Front(SavedWork)
              /\ LiveWork' = LiveWork \/ LiveWork' = Last(SavedWork)
            BY <2>2, OtherSteps
        <3>2. SavedWork \in Seq(Work) /\ Len(SavedWork) = Len(marks)
            BY <1>0
        <3> QED
            BY <1>0, <2>0, <3>1, <3>2, FrontMarks
    <2>3. ASSUME Commit \/ Abort
          PROVE  Paired(LiveWork', {}) /\ \A i \in 1..Len(marks') : Paired(SavedWork'[i], {})
        <3>1. LiveWork' = Nothing /\ SavedWork' = <<>>
            BY <2>3, OtherSteps
        <3>2. Paired(Nothing, {})
            BY SlotTypes, Markers DEF Paired, Nothing
        <3> QED
            BY <1>0, <3>1, <3>2
    <2>4. ASSUME BulkDone \/ Begin \/ RevertOne \/ RevertDone
          PROVE  Paired(LiveWork', {}) /\ \A i \in 1..Len(marks') : Paired(SavedWork'[i], {})
        BY <1>0, <2>0, <2>4, OtherSteps
    <2> QED
        BY <1>4, <2>0, <2>1, <2>2, <2>3, <2>4
<1> QED
    BY <1>1, <1>2, <1>3, <1>4 DEF Next, Triggers

\* Wherever a patch or a poison is pending, or would be after a rollback, its
\* key is queued, and a queued row has one.
THEOREM PatchesAlwaysRide == Spec => []PatchesRideOnKeys
<1>1. Init => PatchesRideOnKeys
    BY SlotTypes, Markers DEF Init, PatchesRideOnKeys, LiveWork, Paired, Nothing, Idle, Unpoisoned
<1>2. TypeOK /\ LogInStep /\ [Next]_vars => (TypeOK /\ LogInStep)'
    BY NextTypes, NextInStep
<1> QED
    BY InitInStep, <1>1, <1>2, NextRides, PTL DEF Spec

\* No operation but a drain, a rollback or the end of the transaction lifts a
\* key's poison.
THEOREM PoisonSticks == Spec => PoisonIsSticky
<1>1. ASSUME TypeOK, [Next]_vars, NEW k \in RowKey, pending[PatchSlot(k)] = Poisoned,
             loop.kind # "undo"
      PROVE  pending'[PatchSlot(k)] = Poisoned \/ IsEmpty(pending')
    <2>0. pending \in [Slot -> Content] /\ PatchSlot(k) \in Slot
        BY <1>1, SlotTypes DEF TypeOK, Work
    <2>1. CASE \E j \in RowKey : Enqueue(j) \/ BulkInsert(j) \/ BulkPoison(j)
        BY <1>1, <2>0, <2>1, SlotTypes
        DEF Enqueue, BulkInsert, BulkPoison, QueueSlot, PatchSlot
    <2>2. ASSUME NEW j \in RowKey, NEW fields \in Fields, EnqueuePatched(j, fields)
          PROVE  pending'[PatchSlot(k)] = Poisoned
        BY <1>1, <2>0, <2>2, SlotTypes DEF EnqueuePatched, Recorded, QueueSlot, PatchSlot
    <2>3. CASE \/ \E j \in AllKey : EnqueueAll(j)
               \/ \E g \in FanoutKey, fields \in Fields : RecordFanout(g, fields)
        BY <1>1, <2>0, <2>3, SlotTypes
        DEF EnqueueAll, RecordFanout, QueueSlot, PatchSlot, FanoutSlot, Key
    <2>4. CASE Drain \/ Commit \/ Abort
        BY <2>4 DEF Drain, Commit, Abort, Cleared, IsEmpty, Nothing
    <2>5. CASE \/ \E keys \in (SUBSET RowKey) \ {{}} : EnqueueBulk(keys)
               \/ BulkDone \/ Begin \/ SubStart \/ SubCommit \/ SubAbort \/ RevertDone
               \/ UNCHANGED vars
        BY <1>1, <2>5 DEF EnqueueBulk, BulkDone, Begin, SubStart, SubCommit, SubAbort,
                          RevertDone, vars
    <2>6. CASE RevertOne
        BY <1>1, <2>6 DEF RevertOne
    <2> QED
        BY <1>1, <2>1, <2>2, <2>3, <2>4, <2>5, <2>6 DEF Next, Triggers
<1>2. TypeOK /\ [Next]_vars =>
        [\A k \in RowKey :
           pending[PatchSlot(k)] = Poisoned =>
              \/ pending'[PatchSlot(k)] = Poisoned
              \/ IsEmpty(pending')
              \/ loop.kind = "undo"]_vars
    BY <1>1
<1> QED
    BY TypeCorrect, <1>2, PTL DEF Spec, PoisonIsSticky
=============================================================================
