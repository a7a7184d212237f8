------------------------------ MODULE ValueLocks ------------------------------
(***************************************************************************)
(* How transactions maintaining the same TVIEW rows exclude each other     *)
(* (src/concurrency/mod.rs): shared and exclusive locks on the values a    *)
(* refresh reads and a writer changes, an intent lock per relation, the    *)
(* relation itself past a threshold, and the registry                      *)
(* (src/concurrency/registry.rs) in which a transaction keeps what it      *)
(* holds, so that it asks for nothing twice.                               *)
(*                                                                         *)
(* One call (lock_values, lock_relation, ...) decides from the registry    *)
(* what it needs, then acquires it one lock at a time: a step each, with   *)
(* the other sessions' steps in between.                                   *)
(***************************************************************************)
EXTENDS Integers, FiniteSets, Sequences, SequencesExt

CONSTANTS
    Session,     \* backends
    Relation,    \* a relation in one of its two key spaces (Space)
    Hash,        \* value hashes
    Threshold,   \* pg_tviews.lock_escalation_threshold
    MaxLocks,    \* bound: locks a transaction holds when it makes a call
    MaxNest      \* bound: open subtransactions

ASSUME HashAssumption == Hash \subseteq Nat
ASSUME BoundAssumption == Threshold \in Int /\ MaxLocks \in Nat /\ MaxNest \in Nat

VARIABLES
    granted,   \* the lock manager: the subtransaction level of each lock held
    log,       \* Registry.log
    links,     \* Registry.links_changed
    marks,     \* the registry mark of each open subtransaction
    wanted,    \* the locks the call in progress still has to acquire
    later,     \* whether the transaction held locks when that call began
    policy     \* what the transaction does when a lock is not granted

vars == <<granted, log, links, marks, wanted, later, policy>>

-----------------------------------------------------------------------------
(* Locks. *)

Side == {"refresh", "writer"}

\* Held: a value of a relation, its intent lock, or the relation as a whole.
Lock == [kind : {"value"}, rel : Relation, side : Side, hash : Hash]
    \cup [kind : {"intent", "escalated"}, rel : Relation, side : Side]

ValueLock(r, d, h) == [kind |-> "value", rel |-> r, side |-> d, hash |-> h]
Intent(r, d) == [kind |-> "intent", rel |-> r, side |-> d]
Escalated(r, d) == [kind |-> "escalated", rel |-> r, side |-> d]

\* Broken variant: the intent lock of a writer in the mode of a refresh.
ModeOneIntent(l) ==
    IF l.kind = "intent" THEN "RowShare"
    ELSE IF l.side = "refresh" THEN "Share" ELSE "Exclusive"

\* value_mode, intent_mode, escalated_mode.
Mode(l) ==
    IF l.kind = "intent"
    THEN IF l.side = "refresh" THEN "RowShare" ELSE "RowExclusive"
    ELSE IF l.side = "refresh" THEN "Share" ELSE "Exclusive"

\* PostgreSQL's conflict table (lock.c) for these modes.
ModesConflict(m, n) ==
    \/ m = "Exclusive" \/ n = "Exclusive"
    \/ {m, n} = {"RowExclusive", "Share"}

\* Two locks are of one tag: of one value, or both of the relation.
SameTag(k, l) ==
    /\ k.rel = l.rel
    /\ (k.kind = "value") = (l.kind = "value")
    /\ k.kind = "value" => k.hash = l.hash

Conflict(k, l) == SameTag(k, l) /\ ModesConflict(Mode(k), Mode(l))

NotHeld == -1

\* The locks a session holds, as the lock manager knows them.
LocksOf(s) == {l \in Lock : granted[s][l] # NotHeld}

\* LockAcquire finds the tag free for this mode.
Available(s, l) == \A t \in Session \ {s} : \A k \in LocksOf(t) : ~Conflict(k, l)

-----------------------------------------------------------------------------
(* The registry. *)

Recorded(s) == {l \in Lock : \E i \in DOMAIN log[s] : log[s][i] = l}

Holds(s, l) == l \in Recorded(s)

\* Registry::values.
Values(s, r, d) ==
    {l \in Recorded(s) : l.kind = "value" /\ l.rel = r /\ l.side = d}

\* The hashes of H this transaction has no lock of yet.
NewHashes(s, r, d, H) == {h \in H : ~Holds(s, ValueLock(r, d, h))}

ShouldEscalate(s, r, d, new) ==
    CASE Threshold < 0 -> FALSE
      [] Threshold = 0 -> TRUE
      [] OTHER -> Cardinality(Values(s, r, d)) + new > Threshold

\* The locks relation_lock has to take: none when held, or when the relation
\* is held as a whole.
RelationLocks(s, r, d, l) ==
    IF Holds(s, l) \/ Holds(s, Escalated(r, d)) THEN {} ELSE {l}

\* pending: whether locking H locks the relation instead.
Escalates(s, r, d, H) ==
    LET new == NewHashes(s, r, d, H)
    IN  /\ ~Holds(s, Escalated(r, d))
        /\ new # {}
        /\ ShouldEscalate(s, r, d, Cardinality(new))

\* Broken variant: escalating takes the intent first, then the whole relation.
ToLockIntentFirst(s, r, d, H) ==
    LET new == NewHashes(s, r, d, H) IN
    IF new = {} \/ Holds(s, Escalated(r, d)) THEN {}
    ELSE IF Escalates(s, r, d, H) THEN {Intent(r, d), Escalated(r, d)}
    ELSE {ValueLock(r, d, h) : h \in new} \cup RelationLocks(s, r, d, Intent(r, d))

\* What lock_in acquires to lock the values H of r for side d.
ToLock(s, r, d, H) ==
    LET new == NewHashes(s, r, d, H) IN
    IF new = {} \/ Holds(s, Escalated(r, d)) THEN {}
    ELSE IF Escalates(s, r, d, H) THEN {Escalated(r, d)}
    ELSE {ValueLock(r, d, h) : h \in new} \cup RelationLocks(s, r, d, Intent(r, d))

\* The call's next lock: the relation's before its values, these by hash.
ComesFirst(s, l) ==
    \A k \in wanted[s] :
        l.kind = "value" => k.kind = "value" /\ l.hash <= k.hash

-----------------------------------------------------------------------------
(* Calls. *)

Init ==
    /\ granted = [s \in Session |-> [l \in Lock |-> NotHeld]]
    /\ log = [s \in Session |-> <<>>]
    /\ links = [s \in Session |-> FALSE]
    /\ marks = [s \in Session |-> <<>>]
    /\ wanted = [s \in Session |-> {}]
    /\ later = [s \in Session |-> FALSE]
    /\ policy \in [Session -> {"wait", "fail"}]

Calls(s, locks) ==
    /\ wanted[s] = {}
    /\ Len(log[s]) < MaxLocks
    /\ locks # {}
    /\ wanted' = [wanted EXCEPT ![s] = locks]
    /\ later' = [later EXCEPT ![s] = log[s] # <<>>]
    /\ UNCHANGED <<granted, log, links, marks, policy>>

\* lock_values, lock_new_keys, lock_embedded_keys.
LockValues(s) ==
    \E r \in Relation, d \in Side, H \in SUBSET Hash : Calls(s, ToLock(s, r, d, H))

\* lock_values_unescalated: nothing when the relation would be locked.
LockValuesUnescalated(s) ==
    \E r \in Relation, H \in SUBSET Hash :
        /\ ~Escalates(s, r, "refresh", H)
        /\ Calls(s, ToLock(s, r, "refresh", H))

\* lock_relation: a full refresh, or a read set with no column.
LockRelation(s) ==
    \E r \in Relation, d \in Side :
        Calls(s, RelationLocks(s, r, d, Escalated(r, d)))

\* lock_intent.
LockIntent(s) ==
    \E r \in Relation, d \in Side :
        Calls(s, RelationLocks(s, r, d, Intent(r, d)))

\* acquire, granted at once or after the wait, and record.
Acquire(s) ==
    \E l \in wanted[s] :
        /\ ComesFirst(s, l)
        /\ Available(s, l)
        /\ granted' = [granted EXCEPT ![s][l] = Len(marks[s])]
        /\ log' = [log EXCEPT ![s] = Append(@, l)]
        /\ wanted' = [wanted EXCEPT ![s] = @ \ {l}]
        /\ later' = [later EXCEPT ![s] = @ /\ wanted[s] # {l}]
        /\ UNCHANGED <<links, marks, policy>>

\* note_link_change.
NoteLinkChange(s) ==
    /\ wanted[s] = {}
    /\ links' = [links EXCEPT ![s] = TRUE]
    /\ UNCHANGED <<granted, log, marks, wanted, later, policy>>

-----------------------------------------------------------------------------
(* Subtransactions and transactions. *)

SubStart(s) ==
    /\ wanted[s] = {}
    /\ Len(marks[s]) < MaxNest
    /\ marks' = [marks EXCEPT
                   ![s] = Append(@, [log |-> Len(log[s]), links |-> links[s]])]
    /\ UNCHANGED <<granted, log, links, wanted, later, policy>>

\* The locks of the innermost subtransaction become its parent's.
Inherited(s) ==
    [l \in Lock |-> IF granted[s][l] = Len(marks[s]) THEN Len(marks[s]) - 1
                    ELSE granted[s][l]]

SubCommit(s) ==
    /\ wanted[s] = {}
    /\ marks[s] # <<>>
    /\ marks' = [marks EXCEPT ![s] = Front(@)]
    /\ granted' = [granted EXCEPT ![s] = Inherited(s)]
    /\ UNCHANGED <<log, links, wanted, later, policy>>

\* Broken variant: the registry keeps what the lock manager released.
KeptKeepsAll(s, mark) == log[s]

\* Registry::rollback: the log up to the mark.
Kept(s, mark) == SubSeq(log[s], 1, mark.log)

\* What the lock manager leaves when the innermost subtransaction rolls back.
Released(s) ==
    [l \in Lock |-> IF granted[s][l] < Len(marks[s]) THEN granted[s][l] ELSE NotHeld]

\* Broken variant: the link changes rolled back stay noted.
RollBackSubLinked(s) ==
    /\ granted' = [granted EXCEPT ![s] = Released(s)]
    /\ log' = [log EXCEPT ![s] = Kept(s, Last(marks[s]))]
    /\ links' = links
    /\ marks' = [marks EXCEPT ![s] = Front(@)]

\* The innermost subtransaction rolls back: the lock manager releases what it
\* took, the registry forgets it.
RollBackSub(s) ==
    /\ granted' = [granted EXCEPT ![s] = Released(s)]
    /\ log' = [log EXCEPT ![s] = Kept(s, Last(marks[s]))]
    /\ links' = [links EXCEPT ![s] = Last(marks[s]).links]
    /\ marks' = [marks EXCEPT ![s] = Front(@)]

\* The transaction ends; the session's next one may be of any level.
End(s) ==
    /\ granted' = [granted EXCEPT ![s] = [l \in Lock |-> NotHeld]]
    /\ log' = [log EXCEPT ![s] = <<>>]
    /\ links' = [links EXCEPT ![s] = FALSE]
    /\ marks' = [marks EXCEPT ![s] = <<>>]

\* An error rolls back what is open innermost.
RollBack(s) ==
    /\ wanted' = [wanted EXCEPT ![s] = {}]
    /\ later' = [later EXCEPT ![s] = FALSE]
    /\ marks[s] # <<>> => RollBackSub(s)
    /\ marks[s] = <<>> => End(s)
    /\ UNCHANGED policy

SubAbort(s) ==
    /\ wanted[s] = {}
    /\ marks[s] # <<>>
    /\ RollBackSub(s)
    /\ UNCHANGED <<wanted, later, policy>>

Commit(s) ==
    /\ wanted[s] = {}
    /\ marks[s] = <<>>
    /\ End(s)
    /\ \E p \in {"wait", "fail"} : policy' = [policy EXCEPT ![s] = p]
    /\ UNCHANGED <<wanted, later>>

-----------------------------------------------------------------------------
(* Locks not granted. *)

Blocked(s) == \E l \in wanted[s] : ComesFirst(s, l) /\ ~Available(s, l)

\* The sessions s waits for.
WaitsFor(s) ==
    {t \in Session \ {s} : policy[s] = "wait" /\ \E l \in wanted[s], k \in LocksOf(t) :
                               ComesFirst(s, l) /\ Conflict(k, l)}

\* Those it waits for through others, itself when it is on a cycle: the least
\* set that holds those it waits for, and those they do.
Ahead(s) ==
    {t \in Session :
        \A S \in SUBSET Session :
            (\A u \in {s} \cup S : WaitsFor(u) \subseteq S) => t \in S}

Deadlocked(s) == s \in Ahead(s)

\* Policy::FailFast: serialization_failure.
FailFast(s) == policy[s] = "fail" /\ Blocked(s) /\ RollBack(s)

\* Policy::Wait: the deadlock detector cancels one waiter of the cycle.
DetectDeadlock(s) == Deadlocked(s) /\ RollBack(s)

Next ==
    \E s \in Session :
        \/ LockValues(s) \/ LockValuesUnescalated(s)
        \/ LockRelation(s) \/ LockIntent(s)
        \/ Acquire(s) \/ NoteLinkChange(s)
        \/ SubStart(s) \/ SubCommit(s) \/ SubAbort(s) \/ Commit(s)
        \/ FailFast(s) \/ DetectDeadlock(s)

Spec == Init /\ [][Next]_vars

-----------------------------------------------------------------------------
(* Properties. *)

\* The types of the variables.
TypeOK ==
    /\ granted \in [Session -> [Lock -> Nat \cup {NotHeld}]]
    /\ log \in [Session -> Seq(Lock)]
    /\ links \in [Session -> BOOLEAN]
    /\ marks \in [Session -> Seq([log : Nat, links : BOOLEAN])]
    /\ wanted \in [Session -> SUBSET Lock]
    /\ later \in [Session -> BOOLEAN]
    /\ policy \in [Session -> {"wait", "fail"}]

\* A set of locks covers a value through its own lock or the relation's.
CoveredBy(locks) ==
    {v \in [rel : Relation, side : Side, hash : Hash] :
        ValueLock(v.rel, v.side, v.hash) \in locks \/ Escalated(v.rel, v.side) \in locks}

\* The registry never claims a lock the lock manager does not hold for the
\* transaction, nor misses one, through every nesting of subtransactions.
RegistryIsHeld ==
    \A s \in Session : Recorded(s) = LocksOf(s)

\* The values a transaction's registry says it covers as a writer are covered
\* by no other transaction on either side, whichever of the two escalated.
WriterExcludes ==
    \A s, t \in Session : s # t =>
        \A v \in CoveredBy(Recorded(s)), w \in CoveredBy(Recorded(t)) :
            v.rel = w.rel /\ v.hash = w.hash => v.side = "refresh" /\ w.side = "refresh"

\* Two transactions in their first call never wait for each other: its locks
\* come in one global order, and a whole relation takes one lock.
FirstCallsDoNotDeadlock ==
    \A s \in Session : Deadlocked(s) => \E t \in Ahead(s) : later[t]

-----------------------------------------------------------------------------
(* The registry's promise to its callers (ValueExclusion). *)

Promise == INSTANCE ValueExclusion WITH
    covered <- [s \in Session |-> CoveredBy(Recorded(s))],
    linked <- links,
    kept <- [s \in Session |->
               [k \in DOMAIN marks[s] |->
                  [covered |-> CoveredBy({log[s][i] : i \in 1..marks[s][k].log}),
                   linked |-> marks[s][k].links]]]

\* Covering, rolling back and ending do what the abstract exclusion allows.
KeepsPromise == Promise!Spec
=============================================================================
