--------------------------- MODULE ValueLocksProofs ---------------------------
(***************************************************************************)
(* Theorems about ValueLocks: for every set of sessions, relations and     *)
(* hashes and every threshold, the registry is what the lock manager       *)
(* holds, a writer's values are covered by nobody else, and first calls    *)
(* never wait for each other in a cycle.                                   *)
(***************************************************************************)
EXTENDS ValueLocks, SequenceTheorems, TLAPS

(***************************************************************************)
(* The inductive invariant, one session at a time.  The log and the lock   *)
(* manager name the same locks, a subtransaction's mark splits the log     *)
(* where the levels split the locks, and a call asks for no lock held.     *)
(***************************************************************************)

Held(s, l) == granted[s][l] # NotHeld

RegistryInv(s) ==
    /\ \A n \in DOMAIN marks[s] : marks[s][n].log <= Len(log[s])
    /\ \A m, n \in DOMAIN marks[s] : m <= n => marks[s][m].log <= marks[s][n].log
    /\ \A l \in Lock : granted[s][l] <= Len(marks[s])
    /\ \A i \in DOMAIN log[s] : Held(s, log[s][i])
    /\ \A l \in Lock : Held(s, l) => \E i \in DOMAIN log[s] : log[s][i] = l
    /\ \A n \in DOMAIN marks[s], i \in DOMAIN log[s] :
          i <= marks[s][n].log <=> granted[s][log[s][i]] < n
    /\ \A l \in wanted[s] : ~Held(s, l)

(***************************************************************************)
(* A value lock has its intent lock at its level or further out, so that   *)
(* no rollback takes the intent and leaves the value; a call takes or has  *)
(* the intent before it takes a value.                                     *)
(***************************************************************************)
IntentsHeld(s) ==
    \A v \in Lock :
        v.kind = "value" /\ Held(s, v) =>
            /\ Held(s, Intent(v.rel, v.side))
            /\ granted[s][Intent(v.rel, v.side)] <= granted[s][v]

IntentsWanted(s) ==
    \A v \in wanted[s] :
        v.kind = "value" =>
            \/ Intent(v.rel, v.side) \in wanted[s]
            \/ Held(s, Intent(v.rel, v.side))

(***************************************************************************)
(* The order locks are taken in: a relation's before its values, these by  *)
(* hash.  What a call asks for is so ordered, and what a transaction's     *)
(* first call has taken comes before what it still asks for.               *)
(***************************************************************************)
Before(k, l) == l.kind = "value" /\ (k.kind = "value" => k.hash < l.hash)

InOrder(T) == \A k, l \in T : k # l => Before(k, l) \/ Before(l, k)

FirstInOrder(s) ==
    ~later[s] => \A k \in Lock, l \in wanted[s] : Held(s, k) => Before(k, l)

OrderInv(s) == InOrder(wanted[s]) /\ FirstInOrder(s)

Compatible(s, t) ==
    \A k, l \in Lock : Held(s, k) /\ Held(t, l) => ~Conflict(k, l)

SessionInv(s) == RegistryInv(s) /\ IntentsHeld(s) /\ IntentsWanted(s)

IInv ==
    /\ TypeOK
    /\ \A s \in Session : SessionInv(s)
    /\ \A s, t \in Session : s # t => Compatible(s, t)

-----------------------------------------------------------------------------
(* What the calls ask for. *)

LEMMA LockTyping ==
    ASSUME NEW r \in Relation, NEW d \in Side
    PROVE  /\ Intent(r, d) \in Lock
           /\ Escalated(r, d) \in Lock
           /\ \A h \in Hash : ValueLock(r, d, h) \in Lock
BY DEF Intent, Escalated, ValueLock, Lock

\* Locking values asks for locks, and for the intent with the values unless
\* the transaction holds it.
LEMMA ToLockFacts ==
    ASSUME NEW s \in Session, NEW r \in Relation, NEW d \in Side,
           NEW H \in SUBSET Hash
    PROVE  /\ ToLock(s, r, d, H) \in SUBSET Lock
           /\ \A v \in ToLock(s, r, d, H) : v.kind = "value" =>
                 Intent(v.rel, v.side) \in ToLock(s, r, d, H) \cup Recorded(s)
           /\ \A v \in ToLock(s, r, d, H) : ~Holds(s, v)
<1> DEFINE new == NewHashes(s, r, d, H)
           T == ToLock(s, r, d, H)
<1>1. new \in SUBSET Hash
  BY DEF NewHashes
<1>2. CASE new = {} \/ Holds(s, Escalated(r, d))
  BY <1>2 DEF ToLock
<1>3. CASE ~(new = {} \/ Holds(s, Escalated(r, d))) /\ Escalates(s, r, d, H)
  <2>1. T = {Escalated(r, d)}
    BY <1>3 DEF ToLock
  <2>2. ~Holds(s, Escalated(r, d))
    BY <1>3
  <2> QED BY <2>1, <2>2, LockTyping DEF Escalated
<1>4. CASE ~(new = {} \/ Holds(s, Escalated(r, d))) /\ ~Escalates(s, r, d, H)
  <2>1. T = {ValueLock(r, d, h) : h \in new} \cup RelationLocks(s, r, d, Intent(r, d))
    BY <1>4 DEF ToLock
  <2>2. RelationLocks(s, r, d, Intent(r, d)) \subseteq {Intent(r, d)}
    BY DEF RelationLocks
  <2>3. Intent(r, d) \in RelationLocks(s, r, d, Intent(r, d)) \cup Recorded(s)
    BY <1>4 DEF RelationLocks, Holds
  <2>4. T \in SUBSET Lock
    BY <1>1, <2>1, <2>2, LockTyping
  <2>5. ASSUME NEW v \in T, v.kind = "value"
        PROVE  Intent(v.rel, v.side) \in T \cup Recorded(s)
    <3>1. PICK h \in new : v = ValueLock(r, d, h)
      BY <2>1, <2>2, <2>5 DEF Intent
    <3>2. v.rel = r /\ v.side = d
      BY <3>1 DEF ValueLock
    <3> QED BY <2>1, <2>3, <3>2
  <2>6. \A v \in T : ~Holds(s, v)
    BY <2>1 DEF NewHashes, RelationLocks
  <2> QED BY <2>4, <2>5, <2>6
<1> QED BY <1>2, <1>3, <1>4

\* A relation lock asked for is an intent or the relation's.
LEMMA RelationLocksFacts ==
    ASSUME NEW s \in Session, NEW r \in Relation, NEW d \in Side,
           NEW l \in {Intent(r, d), Escalated(r, d)}
    PROVE  /\ RelationLocks(s, r, d, l) \in SUBSET Lock
           /\ \A v \in RelationLocks(s, r, d, l) : v.kind # "value" /\ ~Holds(s, v)
<1>1. Intent(r, d) \in Lock /\ Intent(r, d).kind # "value"
  BY LockTyping DEF Intent
<1>2. Escalated(r, d) \in Lock /\ Escalated(r, d).kind # "value"
  BY LockTyping DEF Escalated
<1> QED BY <1>1, <1>2 DEF RelationLocks

\* A call asks for locks that come one before the other.
LEMMA ToLockOrder ==
    ASSUME NEW s \in Session, NEW r \in Relation, NEW d \in Side,
           NEW H \in SUBSET Hash
    PROVE  InOrder(ToLock(s, r, d, H))
<1> DEFINE new == NewHashes(s, r, d, H)
<1>1. new \in SUBSET Nat
  BY HashAssumption DEF NewHashes
<1>2. \A T : (\E l : T \subseteq {l}) => InOrder(T)
  BY DEF InOrder
<1>3. CASE new = {} \/ Holds(s, Escalated(r, d))
  BY <1>2, <1>3 DEF ToLock
<1>4. CASE ~(new = {} \/ Holds(s, Escalated(r, d))) /\ Escalates(s, r, d, H)
  BY <1>2, <1>4 DEF ToLock
<1>5. CASE ~(new = {} \/ Holds(s, Escalated(r, d))) /\ ~Escalates(s, r, d, H)
  <2>1. ToLock(s, r, d, H) \subseteq {ValueLock(r, d, h) : h \in new} \cup {Intent(r, d)}
    BY <1>5 DEF ToLock, RelationLocks
  <2>2. \A h, i \in new : h = i \/ h < i \/ i < h
    BY <1>1
  <2>3. \A h, i \in new : h < i => Before(ValueLock(r, d, h), ValueLock(r, d, i))
    BY DEF Before, ValueLock
  <2>4. \A h \in new : Before(Intent(r, d), ValueLock(r, d, h))
    BY DEF Before, ValueLock, Intent
  <2>5. ASSUME NEW k \in {ValueLock(r, d, h) : h \in new} \cup {Intent(r, d)},
               NEW l \in {ValueLock(r, d, h) : h \in new} \cup {Intent(r, d)}, k # l
        PROVE  Before(k, l) \/ Before(l, k)
    <3> HIDE DEF new
    <3> QED BY <2>2, <2>3, <2>4, <2>5
  <2> QED BY <2>1, <2>5 DEF InOrder
<1> QED BY <1>3, <1>4, <1>5

LEMMA RelationLocksOrder ==
    ASSUME NEW s \in Session, NEW r \in Relation, NEW d \in Side,
           NEW l \in {Intent(r, d), Escalated(r, d)}
    PROVE  InOrder(RelationLocks(s, r, d, l))
BY DEF RelationLocks, InOrder

\* Every call: what it asks for, and what it leaves alone.
CallStep(s) ==
    \E locks \in SUBSET Lock :
        /\ Calls(s, locks)
        /\ \A v \in locks : v.kind = "value" =>
              Intent(v.rel, v.side) \in locks \cup Recorded(s)
        /\ \A v \in locks : ~Holds(s, v)
        /\ InOrder(locks)

LEMMA CallsAreSteps ==
    ASSUME NEW s \in Session,
           \/ LockValues(s) \/ LockValuesUnescalated(s)
           \/ LockRelation(s) \/ LockIntent(s)
    PROVE  CallStep(s)
<1>1. CASE LockValues(s)
  <2>1. PICK r \in Relation, d \in Side, H \in SUBSET Hash : Calls(s, ToLock(s, r, d, H))
    BY <1>1 DEF LockValues
  <2> QED BY <2>1, ToLockFacts, ToLockOrder DEF CallStep
<1>2. CASE LockValuesUnescalated(s)
  <2>1. PICK r \in Relation, H \in SUBSET Hash : Calls(s, ToLock(s, r, "refresh", H))
    BY <1>2 DEF LockValuesUnescalated
  <2>2. "refresh" \in Side
    BY DEF Side
  <2> QED BY <2>1, <2>2, ToLockFacts, ToLockOrder DEF CallStep
<1>3. CASE LockRelation(s)
  <2>1. PICK r \in Relation, d \in Side :
            Calls(s, RelationLocks(s, r, d, Escalated(r, d)))
    BY <1>3 DEF LockRelation
  <2> QED BY <2>1, RelationLocksFacts, RelationLocksOrder DEF CallStep
<1>4. CASE LockIntent(s)
  <2>1. PICK r \in Relation, d \in Side :
            Calls(s, RelationLocks(s, r, d, Intent(r, d)))
    BY <1>4 DEF LockIntent
  <2> QED BY <2>1, RelationLocksFacts, RelationLocksOrder DEF CallStep
<1> QED BY <1>1, <1>2, <1>3, <1>4

\* Every other step of the lock manager and the registry.
SubAbortStep(s) ==
    /\ marks[s] # <<>>
    /\ RollBackSub(s)
    /\ wanted' = [wanted EXCEPT ![s] = {}]
    /\ later' \in [Session -> BOOLEAN]
    /\ \A t \in Session \ {s} : later'[t] = later[t]
    /\ policy' = policy

EndStep(s) ==
    /\ End(s)
    /\ wanted' = [wanted EXCEPT ![s] = {}]
    /\ later' \in [Session -> BOOLEAN]
    /\ \A t \in Session \ {s} : later'[t] = later[t]
    /\ policy' \in [Session -> {"wait", "fail"}]

Step(s) ==
    \/ CallStep(s) \/ Acquire(s) \/ NoteLinkChange(s)
    \/ SubStart(s) \/ SubCommit(s) \/ SubAbortStep(s) \/ EndStep(s)

LEMMA NextIsStep ==
    ASSUME TypeOK, Next
    PROVE  \E s \in Session : Step(s)
<1>1. PICK s \in Session :
        \/ LockValues(s) \/ LockValuesUnescalated(s)
        \/ LockRelation(s) \/ LockIntent(s)
        \/ Acquire(s) \/ NoteLinkChange(s)
        \/ SubStart(s) \/ SubCommit(s) \/ SubAbort(s) \/ Commit(s)
        \/ FailFast(s) \/ DetectDeadlock(s)
  BY DEF Next
<1>2. CASE LockValues(s) \/ LockValuesUnescalated(s) \/ LockRelation(s) \/ LockIntent(s)
  BY <1>2, CallsAreSteps DEF Step
<1>3. CASE Acquire(s) \/ NoteLinkChange(s) \/ SubStart(s) \/ SubCommit(s)
  BY <1>3 DEF Step
<1>4. CASE SubAbort(s)
  <2>1. wanted' = [wanted EXCEPT ![s] = {}]
    BY <1>4 DEF SubAbort, TypeOK
  <2> QED BY <1>4, <2>1 DEF SubAbort, Step, SubAbortStep, TypeOK
<1>5. CASE Commit(s)
  <2>1. wanted' = [wanted EXCEPT ![s] = {}]
    BY <1>5 DEF Commit, TypeOK
  <2>2. policy' \in [Session -> {"wait", "fail"}]
    BY <1>5 DEF Commit, TypeOK
  <2> QED BY <1>5, <2>1, <2>2 DEF Commit, Step, EndStep, TypeOK
<1>6. CASE FailFast(s) \/ DetectDeadlock(s)
  <2>1. RollBack(s)
    BY <1>6 DEF FailFast, DetectDeadlock
  <2>2. later' \in [Session -> BOOLEAN] /\ \A t \in Session \ {s} : later'[t] = later[t]
    BY <2>1 DEF RollBack, TypeOK
  <2>3. policy' \in [Session -> {"wait", "fail"}] /\ policy' = policy
    BY <2>1 DEF RollBack, TypeOK
  <2> QED BY <2>1, <2>2, <2>3 DEF RollBack, Step, SubAbortStep, EndStep
<1> QED BY <1>1, <1>2, <1>3, <1>4, <1>5, <1>6

-----------------------------------------------------------------------------
(* Types. *)

\* The parts of a nonempty sequence.
LEMMA FrontAndLast ==
    ASSUME NEW S, NEW q \in Seq(S), q # <<>>
    PROVE  /\ Len(q) \in Nat \ {0}
           /\ Front(q) \in Seq(S)
           /\ Len(Front(q)) = Len(q) - 1
           /\ \A i \in 1..(Len(q) - 1) : Front(q)[i] = q[i]
           /\ Last(q) = q[Len(q)] /\ Last(q) \in S
<1>1. Len(q) \in Nat \ {0}
  OBVIOUS
<1>2. Last(q) = q[Len(q)] /\ Last(q) \in S
  BY <1>1 DEF Last
<1>3. Front(q) = [i \in 1..(Len(q) - 1) |-> q[i]]
  BY <1>1 DEF Front
<1> QED BY <1>1, <1>2, <1>3

LEMMA AcquireTypes ==
    ASSUME TypeOK, NEW s \in Session, Acquire(s)
    PROVE  TypeOK'
<1>1. PICK l \in wanted[s] :
        /\ granted' = [granted EXCEPT ![s][l] = Len(marks[s])]
        /\ log' = [log EXCEPT ![s] = Append(@, l)]
        /\ wanted' = [wanted EXCEPT ![s] = @ \ {l}]
        /\ later' = [later EXCEPT ![s] = @ /\ wanted[s] # {l}]
        /\ UNCHANGED <<links, marks, policy>>
  BY DEF Acquire
<1>2. l \in Lock /\ Len(marks[s]) \in Nat
  BY DEF TypeOK
<1>4. granted' \in [Session -> [Lock -> Nat \cup {NotHeld}]]
  BY <1>1, <1>2 DEF TypeOK
<1>5. log' \in [Session -> Seq(Lock)]
  <2>1. Append(log[s], l) \in Seq(Lock)
    BY <1>2 DEF TypeOK
  <2> QED BY <1>1, <2>1 DEF TypeOK
<1>6. wanted' \in [Session -> SUBSET Lock]
  BY <1>1 DEF TypeOK
<1>7. later' \in [Session -> BOOLEAN]
  BY <1>1, Zenon DEF TypeOK
<1> QED BY <1>1, <1>4, <1>5, <1>6, <1>7 DEF TypeOK

LEMMA SubCommitTypes ==
    ASSUME TypeOK, NEW s \in Session, SubCommit(s)
    PROVE  TypeOK'
<1>1. marks[s] \in Seq([log : Nat, links : BOOLEAN]) /\ marks[s] # <<>>
  BY DEF SubCommit, TypeOK
<1>2. Len(marks[s]) \in Nat \ {0} /\ Front(marks[s]) \in Seq([log : Nat, links : BOOLEAN])
  BY <1>1, FrontAndLast
<1>3. Inherited(s) \in [Lock -> Nat \cup {NotHeld}]
  BY <1>2 DEF Inherited, TypeOK
<1>4. granted' \in [Session -> [Lock -> Nat \cup {NotHeld}]]
  BY <1>3 DEF SubCommit, TypeOK
<1>5. marks' \in [Session -> Seq([log : Nat, links : BOOLEAN])]
  BY <1>2 DEF SubCommit, TypeOK
<1> QED BY <1>4, <1>5 DEF SubCommit, TypeOK

LEMMA RollBackSubTypes ==
    ASSUME TypeOK, NEW s \in Session, RegistryInv(s), SubAbortStep(s)
    PROVE  TypeOK'
<1>1. marks[s] \in Seq([log : Nat, links : BOOLEAN]) /\ marks[s] # <<>>
  BY DEF SubAbortStep, TypeOK
<1>2. /\ Front(marks[s]) \in Seq([log : Nat, links : BOOLEAN])
      /\ Last(marks[s]) \in [log : Nat, links : BOOLEAN]
      /\ Last(marks[s]) = marks[s][Len(marks[s])]
      /\ Len(marks[s]) \in DOMAIN marks[s]
  <2>1. Len(marks[s]) \in Nat \ {0} /\ DOMAIN marks[s] = 1..Len(marks[s])
    BY <1>1, FrontAndLast
  <2>2. Len(marks[s]) \in DOMAIN marks[s]
    BY <2>1
  <2> QED BY <1>1, <2>2, FrontAndLast
<1>3. Last(marks[s]).log <= Len(log[s])
  BY <1>2 DEF RegistryInv
<1>4. Kept(s, Last(marks[s])) \in Seq(Lock)
  BY <1>2, <1>3 DEF Kept, TypeOK
<1>5. Released(s) \in [Lock -> Nat \cup {NotHeld}]
  BY DEF Released, TypeOK
<1>6. granted' \in [Session -> [Lock -> Nat \cup {NotHeld}]]
  BY <1>5 DEF SubAbortStep, RollBackSub, TypeOK
<1>7. log' \in [Session -> Seq(Lock)]
  BY <1>4 DEF SubAbortStep, RollBackSub, TypeOK
<1>8. links' \in [Session -> BOOLEAN]
  <2>1. Last(marks[s]).links \in BOOLEAN
    BY <1>2
  <2>2. links' = [links EXCEPT ![s] = Last(marks[s]).links]
    BY DEF SubAbortStep, RollBackSub
  <2> QED BY <2>1, <2>2, Zenon DEF TypeOK
<1>9. marks' \in [Session -> Seq([log : Nat, links : BOOLEAN])]
  BY <1>2 DEF SubAbortStep, RollBackSub, TypeOK
<1>10. wanted' \in [Session -> SUBSET Lock]
  BY DEF SubAbortStep, TypeOK
<1>11. later' \in [Session -> BOOLEAN] /\ policy' \in [Session -> {"wait", "fail"}]
  BY DEF SubAbortStep, TypeOK
<1> QED BY <1>6, <1>7, <1>8, <1>9, <1>10, <1>11 DEF TypeOK

LEMMA TypesStep ==
    ASSUME TypeOK, NEW s \in Session, RegistryInv(s), Step(s)
    PROVE  TypeOK'
<1>1. CASE CallStep(s)
  <2>1. PICK locks \in SUBSET Lock : Calls(s, locks)
    BY <1>1 DEF CallStep
  <2>2. wanted' \in [Session -> SUBSET Lock]
    BY <2>1 DEF Calls, TypeOK
  <2>3. later' \in [Session -> BOOLEAN]
    BY <2>1 DEF Calls, TypeOK
  <2> QED BY <2>1, <2>2, <2>3 DEF Calls, TypeOK
<1>2. CASE Acquire(s)
  BY <1>2, AcquireTypes
<1>3. CASE NoteLinkChange(s)
  <2>1. links' \in [Session -> BOOLEAN]
    BY <1>3, Zenon DEF NoteLinkChange, TypeOK
  <2> QED BY <1>3, <2>1 DEF NoteLinkChange, TypeOK
<1>4. CASE SubStart(s)
  <2>1. [log |-> Len(log[s]), links |-> links[s]] \in [log : Nat, links : BOOLEAN]
    BY DEF TypeOK
  <2>2. Append(marks[s], [log |-> Len(log[s]), links |-> links[s]])
            \in Seq([log : Nat, links : BOOLEAN])
    BY <2>1 DEF TypeOK
  <2>3. marks' \in [Session -> Seq([log : Nat, links : BOOLEAN])]
    BY <1>4, <2>2 DEF SubStart, TypeOK
  <2> QED BY <1>4, <2>3 DEF SubStart, TypeOK
<1>5. CASE SubCommit(s)
  BY <1>5, SubCommitTypes
<1>6. CASE SubAbortStep(s)
  BY <1>6, RollBackSubTypes
<1>7. CASE EndStep(s)
  <2>1. /\ granted' \in [Session -> [Lock -> Nat \cup {NotHeld}]]
        /\ log' \in [Session -> Seq(Lock)]
        /\ marks' \in [Session -> Seq([log : Nat, links : BOOLEAN])]
        /\ wanted' \in [Session -> SUBSET Lock]
    BY <1>7 DEF EndStep, End, TypeOK
  <2>2. links' \in [Session -> BOOLEAN]
    BY <1>7, Zenon DEF EndStep, End, TypeOK
  <2> QED BY <1>7, <2>1, <2>2 DEF EndStep, TypeOK
<1> QED BY <1>1, <1>2, <1>3, <1>4, <1>5, <1>6, <1>7 DEF Step

-----------------------------------------------------------------------------
(* A session's own steps keep its part of the invariant. *)

\* What the types say of one session.
LEMMA SessionTypes ==
    ASSUME TypeOK, NEW s \in Session
    PROVE  /\ granted[s] \in [Lock -> Nat \cup {NotHeld}]
           /\ log[s] \in Seq(Lock) /\ Len(log[s]) \in Nat
           /\ DOMAIN log[s] = 1..Len(log[s])
           /\ \A i \in DOMAIN log[s] : log[s][i] \in Lock
           /\ marks[s] \in Seq([log : Nat, links : BOOLEAN]) /\ Len(marks[s]) \in Nat
           /\ DOMAIN marks[s] = 1..Len(marks[s])
           /\ \A n \in DOMAIN marks[s] : marks[s][n].log \in Nat
           /\ wanted[s] \in SUBSET Lock
<1>1. /\ granted[s] \in [Lock -> Nat \cup {NotHeld}]
      /\ log[s] \in Seq(Lock)
      /\ marks[s] \in Seq([log : Nat, links : BOOLEAN])
      /\ wanted[s] \in SUBSET Lock
  BY DEF TypeOK
<1>2. ASSUME NEW S, NEW q \in Seq(S)
      PROVE  Len(q) \in Nat /\ DOMAIN q = 1..Len(q) /\ \A i \in DOMAIN q : q[i] \in S
  OBVIOUS
<1>3. \A n \in DOMAIN marks[s] : marks[s][n] \in [log : Nat, links : BOOLEAN]
  BY <1>1, <1>2
<1>4. /\ Len(log[s]) \in Nat /\ DOMAIN log[s] = 1..Len(log[s])
      /\ \A i \in DOMAIN log[s] : log[s][i] \in Lock
      /\ Len(marks[s]) \in Nat /\ DOMAIN marks[s] = 1..Len(marks[s])
  BY <1>1, <1>2
<1> QED BY <1>1, <1>3, <1>4

\* The registry names what the lock manager holds.
LEMMA RecordedIsHeld ==
    ASSUME TypeOK, NEW s \in Session, RegistryInv(s), NEW l \in Lock
    PROVE  l \in Recorded(s) <=> Held(s, l)
BY SessionTypes DEF RegistryInv, Recorded, Held

LEMMA CallSession ==
    ASSUME TypeOK, NEW s \in Session, SessionInv(s), CallStep(s)
    PROVE  SessionInv(s)'
<1>1. PICK locks \in SUBSET Lock :
        /\ Calls(s, locks)
        /\ \A v \in locks : v.kind = "value" =>
              Intent(v.rel, v.side) \in locks \cup Recorded(s)
        /\ \A v \in locks : ~Holds(s, v)
  BY DEF CallStep
<1>2. /\ wanted'[s] = locks /\ granted' = granted /\ log' = log /\ marks' = marks
  BY <1>1 DEF Calls, TypeOK
<1>3. \A l \in locks : ~Held(s, l)
  BY <1>1, RecordedIsHeld DEF SessionInv, Holds
<1>4. RegistryInv(s)'
  BY <1>2, <1>3 DEF SessionInv, RegistryInv, Held
<1>5. IntentsHeld(s)'
  BY <1>2 DEF SessionInv, IntentsHeld, Held
<1>6. \A v \in locks : v.kind = "value" =>
          Intent(v.rel, v.side) \in locks \/ Held(s, Intent(v.rel, v.side))
  <2>1. ASSUME NEW v \in locks, v.kind = "value", Intent(v.rel, v.side) \notin locks
        PROVE  Held(s, Intent(v.rel, v.side))
    <3>1. Intent(v.rel, v.side) \in Recorded(s)
      BY <1>1, <2>1
    <3>2. Intent(v.rel, v.side) \in Lock
      BY <3>1 DEF Recorded
    <3> QED BY <3>1, <3>2, RecordedIsHeld DEF SessionInv
  <2> QED BY <2>1
<1>7. IntentsWanted(s)'
  BY <1>2, <1>6 DEF IntentsWanted, Held
<1> QED BY <1>4, <1>5, <1>7 DEF SessionInv

LEMMA AcquireSession ==
    ASSUME TypeOK, NEW s \in Session, SessionInv(s), Acquire(s)
    PROVE  SessionInv(s)'
<1> DEFINE top == Len(marks[s])
           n0 == Len(log[s]) + 1
<1>1. PICK l \in wanted[s] :
        /\ ComesFirst(s, l)
        /\ granted' = [granted EXCEPT ![s][l] = Len(marks[s])]
        /\ log' = [log EXCEPT ![s] = Append(@, l)]
        /\ wanted' = [wanted EXCEPT ![s] = @ \ {l}]
        /\ marks' = marks
  BY DEF Acquire
<1>2. /\ l \in Lock
      /\ granted'[s] = [granted[s] EXCEPT ![l] = top]
      /\ log'[s] = Append(log[s], l)
      /\ wanted'[s] = wanted[s] \ {l}
      /\ marks'[s] = marks[s]
  BY <1>1 DEF TypeOK
<1>3. /\ granted[s] \in [Lock -> Nat \cup {NotHeld}]
      /\ log[s] \in Seq(Lock) /\ Len(log[s]) \in Nat
      /\ DOMAIN log[s] = 1..Len(log[s])
      /\ \A i \in DOMAIN log[s] : log[s][i] \in Lock
      /\ top \in Nat /\ DOMAIN marks[s] = 1..top
      /\ \A n \in DOMAIN marks[s] : marks[s][n].log \in Nat
      /\ wanted[s] \in SUBSET Lock
  BY SessionTypes
<1>4. /\ DOMAIN log'[s] = 1..n0 /\ Len(log'[s]) = n0
      /\ \A i \in DOMAIN log[s] : log'[s][i] = log[s][i]
      /\ log'[s][n0] = l
  BY <1>2, <1>3
<1>5. \A k \in Lock : granted'[s][k] = IF k = l THEN top ELSE granted[s][k]
  BY <1>2, <1>3
<1>6. ~Held(s, l) /\ top # NotHeld
  BY <1>1, <1>3 DEF SessionInv, RegistryInv, NotHeld
<1>7. \A i \in DOMAIN log[s] : log[s][i] # l
  BY <1>6 DEF SessionInv, RegistryInv
<1>8. RegistryInv(s)'
  <2>1. \A n \in DOMAIN marks'[s] : marks'[s][n].log <= Len(log'[s])
    BY <1>2, <1>3, <1>4 DEF SessionInv, RegistryInv
  <2>2. \A m, n \in DOMAIN marks'[s] : m <= n => marks'[s][m].log <= marks'[s][n].log
    BY <1>2 DEF SessionInv, RegistryInv
  <2>3. \A k \in Lock : granted'[s][k] <= Len(marks'[s])
    BY <1>2, <1>3, <1>5 DEF SessionInv, RegistryInv
  <2>4. \A i \in DOMAIN log'[s] : granted'[s][log'[s][i]] # NotHeld
    <3>1. ASSUME NEW i \in DOMAIN log[s]
          PROVE  granted'[s][log'[s][i]] # NotHeld
      BY <1>3, <1>4, <1>5, <1>7 DEF SessionInv, RegistryInv, Held
    <3>2. granted'[s][log'[s][n0]] # NotHeld
      BY <1>2, <1>4, <1>5, <1>6
    <3>3. \A i \in DOMAIN log'[s] : i \in DOMAIN log[s] \/ i = n0
      BY <1>3, <1>4
    <3> QED BY <3>1, <3>2, <3>3
  <2>5. \A k \in Lock : granted'[s][k] # NotHeld => \E i \in DOMAIN log'[s] : log'[s][i] = k
    <3>1. n0 \in DOMAIN log'[s] /\ \A i \in DOMAIN log[s] : i \in DOMAIN log'[s]
      BY <1>3, <1>4
    <3>2. ASSUME NEW k \in Lock, granted'[s][k] # NotHeld, k # l
          PROVE  \E i \in DOMAIN log'[s] : log'[s][i] = k
      <4>1. PICK i \in DOMAIN log[s] : log[s][i] = k
        BY <1>5, <3>2 DEF SessionInv, RegistryInv, Held
      <4> QED BY <1>4, <3>1, <4>1
    <3> QED BY <1>4, <3>1, <3>2
  <2>6. \A n \in DOMAIN marks'[s], i \in DOMAIN log'[s] :
            i <= marks'[s][n].log <=> granted'[s][log'[s][i]] < n
    <3>1. ASSUME NEW n \in DOMAIN marks[s], NEW i \in DOMAIN log[s]
          PROVE  i <= marks[s][n].log <=> granted'[s][log'[s][i]] < n
      <4>1. granted'[s][log'[s][i]] = granted[s][log[s][i]]
        BY <1>3, <1>4, <1>5, <1>7
      <4> QED BY <4>1 DEF SessionInv, RegistryInv
    <3>2. ASSUME NEW n \in DOMAIN marks[s]
          PROVE  ~(n0 <= marks[s][n].log) /\ ~(granted'[s][log'[s][n0]] < n)
      <4>1. marks[s][n].log <= Len(log[s])
        BY DEF SessionInv, RegistryInv
      <4>2. granted'[s][log'[s][n0]] = top
        BY <1>2, <1>4, <1>5
      <4> QED BY <1>3, <4>1, <4>2
    <3>3. \A i \in DOMAIN log'[s] : i \in DOMAIN log[s] \/ i = n0
      BY <1>3, <1>4
    <3> QED BY <1>2, <3>1, <3>2, <3>3
  <2>7. \A k \in wanted'[s] : granted'[s][k] = NotHeld
    BY <1>2, <1>3, <1>5 DEF SessionInv, RegistryInv, Held
  <2> QED BY <2>1, <2>2, <2>3, <2>4, <2>5, <2>6, <2>7 DEF RegistryInv, Held
<1>9. ASSUME NEW v \in Lock, v.kind = "value"
      PROVE  Intent(v.rel, v.side) \in Lock /\ Intent(v.rel, v.side) # v
  <2>1. v.rel \in Relation /\ v.side \in Side
    BY <1>9 DEF Lock
  <2>2. Intent(v.rel, v.side).kind = "intent"
    BY DEF Intent
  <2> QED BY <1>9, <2>1, <2>2, LockTyping
<1>10. IntentsHeld(s)'
  <2>1. ASSUME NEW v \in Lock, v.kind = "value", granted'[s][v] # NotHeld
        PROVE  /\ granted'[s][Intent(v.rel, v.side)] # NotHeld
               /\ granted'[s][Intent(v.rel, v.side)] <= granted'[s][v]
    <3> DEFINE int == Intent(v.rel, v.side)
    <3>1. int \in Lock /\ int # v
      BY <1>9, <2>1
    <3>2. CASE v = l
      <4>1. int \notin wanted[s]
        <5>1. int.kind # "value"
          BY DEF Intent
        <5> QED BY <1>1, <2>1, <3>2, <5>1 DEF ComesFirst
      <4>2. Held(s, int)
        BY <1>1, <2>1, <3>2, <4>1 DEF SessionInv, IntentsWanted
      <4>3. granted'[s][int] = granted[s][int] /\ granted'[s][v] = top
        BY <1>5, <3>1, <3>2
      <4>4. granted[s][int] <= top
        BY <3>1 DEF SessionInv, RegistryInv
      <4> QED BY <4>2, <4>3, <4>4 DEF Held
    <3>3. CASE v # l
      <4>1. granted'[s][v] = granted[s][v]
        BY <1>5, <3>3
      <4>2. Held(s, v)
        BY <2>1, <4>1 DEF Held
      <4>3. Held(s, int) /\ granted[s][int] <= granted[s][v]
        BY <2>1, <4>2 DEF SessionInv, IntentsHeld
      <4>4. granted'[s][int] = granted[s][int]
        BY <1>5, <1>6, <3>1, <4>3
      <4> QED BY <4>1, <4>3, <4>4 DEF Held
    <3> QED BY <3>2, <3>3
  <2> QED BY <2>1 DEF IntentsHeld, Held
<1>11. IntentsWanted(s)'
  <2>1. ASSUME NEW v \in wanted'[s], v.kind = "value"
        PROVE  \/ Intent(v.rel, v.side) \in wanted'[s]
               \/ granted'[s][Intent(v.rel, v.side)] # NotHeld
    <3> DEFINE int == Intent(v.rel, v.side)
    <3>1. v \in wanted[s] /\ v \in Lock /\ int \in Lock
      BY <1>2, <1>3, <1>9, <2>1
    <3>2. int \in wanted[s] \/ Held(s, int)
      BY <2>1, <3>1 DEF SessionInv, IntentsWanted
    <3>3. CASE int = l
      BY <1>5, <1>6, <3>1, <3>3
    <3>4. CASE int # l
      BY <1>2, <1>5, <3>1, <3>2, <3>4 DEF Held
    <3> QED BY <3>3, <3>4
  <2> QED BY <2>1 DEF IntentsWanted, Held
<1> QED BY <1>8, <1>10, <1>11 DEF SessionInv

LEMMA SubStartSession ==
    ASSUME TypeOK, NEW s \in Session, SessionInv(s), SubStart(s)
    PROVE  SessionInv(s)'
<1> DEFINE mark == [log |-> Len(log[s]), links |-> links[s]]
           top == Len(marks[s]) + 1
<1>1. /\ granted' = granted /\ log' = log /\ wanted' = wanted
      /\ marks'[s] = Append(marks[s], mark)
  BY DEF SubStart, TypeOK
<1>2. /\ Len(log[s]) \in Nat /\ DOMAIN log[s] = 1..Len(log[s])
      /\ \A i \in DOMAIN log[s] : log[s][i] \in Lock
      /\ marks[s] \in Seq([log : Nat, links : BOOLEAN]) /\ Len(marks[s]) \in Nat
      /\ DOMAIN marks[s] = 1..Len(marks[s])
      /\ \A n \in DOMAIN marks[s] : marks[s][n].log \in Nat
      /\ granted[s] \in [Lock -> Nat \cup {NotHeld}]
  BY SessionTypes
<1>3. /\ DOMAIN marks'[s] = 1..top /\ Len(marks'[s]) = top
      /\ \A n \in DOMAIN marks[s] : marks'[s][n] = marks[s][n]
      /\ marks'[s][top] = mark
  BY <1>1, <1>2
<1>4. \A n \in DOMAIN marks'[s] : n \in DOMAIN marks[s] \/ n = top
  BY <1>2, <1>3
<1>5. \A n \in DOMAIN marks[s] : n < top /\ marks'[s][n].log = marks[s][n].log
  BY <1>2, <1>3
<1>6. marks'[s][top].log = Len(log[s])
  BY <1>3
<1>7. RegistryInv(s)'
  <2>1. \A n \in DOMAIN marks'[s] : marks'[s][n].log <= Len(log[s])
    BY <1>2, <1>4, <1>5, <1>6 DEF SessionInv, RegistryInv
  <2>2. \A m, n \in DOMAIN marks'[s] : m <= n => marks'[s][m].log <= marks'[s][n].log
    <3>1. ASSUME NEW m \in DOMAIN marks'[s], NEW n \in DOMAIN marks'[s], m <= n
          PROVE  marks'[s][m].log <= marks'[s][n].log
      <4>1. CASE n = top
        BY <1>6, <2>1, <4>1
      <4>2. CASE n # top
        <5>1. n \in DOMAIN marks[s] /\ m \in DOMAIN marks[s]
          BY <1>2, <1>4, <1>5, <3>1, <4>2
        <5> QED BY <1>5, <3>1, <5>1 DEF SessionInv, RegistryInv
      <4> QED BY <4>1, <4>2
    <3> QED BY <3>1
  <2>3. \A k \in Lock : granted[s][k] <= top
    <3>1. ASSUME NEW k \in Lock
          PROVE  granted[s][k] <= top
      <4>1. granted[s][k] <= Len(marks[s])
        BY DEF SessionInv, RegistryInv
      <4>2. granted[s][k] \in Int
        BY <1>2 DEF NotHeld
      <4> QED BY <1>2, <4>1, <4>2
    <3> QED BY <3>1
  <2>4. \A n \in DOMAIN marks'[s], i \in DOMAIN log[s] :
            i <= marks'[s][n].log <=> granted[s][log[s][i]] < n
    <3>1. ASSUME NEW i \in DOMAIN log[s]
          PROVE  i <= Len(log[s]) /\ granted[s][log[s][i]] < top
      <4>1. granted[s][log[s][i]] <= Len(marks[s])
        BY <1>2 DEF SessionInv, RegistryInv
      <4>2. granted[s][log[s][i]] \in Int
        BY <1>2 DEF NotHeld
      <4> QED BY <1>2, <4>1, <4>2
    <3>2. \A n \in DOMAIN marks[s], i \in DOMAIN log[s] :
            i <= marks'[s][n].log <=> granted[s][log[s][i]] < n
      BY <1>5 DEF SessionInv, RegistryInv
    <3> QED BY <1>4, <1>6, <3>1, <3>2
  <2>5. /\ \A i \in DOMAIN log[s] : Held(s, log[s][i])
        /\ \A l \in Lock : Held(s, l) => \E i \in DOMAIN log[s] : log[s][i] = l
        /\ \A l \in wanted[s] : ~Held(s, l)
    BY DEF SessionInv, RegistryInv
  <2> QED BY <1>1, <1>3, <2>1, <2>2, <2>3, <2>4, <2>5 DEF RegistryInv, Held
<1>8. IntentsHeld(s)' /\ IntentsWanted(s)'
  BY <1>1 DEF SessionInv, IntentsHeld, IntentsWanted, Held
<1> QED BY <1>7, <1>8 DEF SessionInv

LEMMA SubCommitSession ==
    ASSUME TypeOK, NEW s \in Session, SessionInv(s), SubCommit(s)
    PROVE  SessionInv(s)'
<1> DEFINE top == Len(marks[s])
<1>1. /\ granted'[s] = Inherited(s) /\ log' = log /\ wanted'[s] = wanted[s]
      /\ marks'[s] = Front(marks[s]) /\ marks[s] # <<>>
  BY DEF SubCommit, TypeOK
<1>2. /\ granted[s] \in [Lock -> Nat \cup {NotHeld}]
      /\ DOMAIN log[s] = 1..Len(log[s])
      /\ \A i \in DOMAIN log[s] : log[s][i] \in Lock
      /\ marks[s] \in Seq([log : Nat, links : BOOLEAN])
      /\ DOMAIN marks[s] = 1..top
      /\ wanted[s] \in SUBSET Lock
  BY SessionTypes
<1>3. /\ top \in Nat \ {0}
      /\ Front(marks[s]) \in Seq([log : Nat, links : BOOLEAN])
      /\ Len(Front(marks[s])) = top - 1
      /\ \A n \in 1..(top - 1) : Front(marks[s])[n] = marks[s][n]
  BY <1>1, <1>2, FrontAndLast
<1>4. DOMAIN marks'[s] = 1..(top - 1)
  BY <1>1, <1>3
<1>5. \A k \in Lock : granted'[s][k] = IF granted[s][k] = top THEN top - 1 ELSE granted[s][k]
  BY <1>1 DEF Inherited
<1>6. \A k \in Lock : granted[s][k] \in Int /\ granted[s][k] <= top
  BY <1>2 DEF SessionInv, RegistryInv, NotHeld
<1>7. \A k \in Lock : granted'[s][k] # NotHeld <=> granted[s][k] # NotHeld
  BY <1>3, <1>5 DEF NotHeld
<1>8. \A k \in Lock, n \in 1..(top - 1) : granted'[s][k] < n <=> granted[s][k] < n
  BY <1>3, <1>5
<1>9. RegistryInv(s)'
  <2>1. \A n \in DOMAIN marks'[s] : n \in DOMAIN marks[s] /\ marks'[s][n] = marks[s][n]
    <3>1. \A n \in 1..(top - 1) : n \in 1..top
      BY <1>3
    <3>2. \A n \in 1..(top - 1) : marks'[s][n] = marks[s][n]
      BY <1>1, <1>3
    <3> QED BY <1>2, <1>4, <3>1, <3>2
  <2>2. /\ \A n \in DOMAIN marks'[s] : marks'[s][n].log <= Len(log'[s])
        /\ \A m, n \in DOMAIN marks'[s] : m <= n => marks'[s][m].log <= marks'[s][n].log
    BY <1>1, <2>1 DEF SessionInv, RegistryInv
  <2>3. \A k \in Lock : granted'[s][k] <= Len(marks'[s])
    BY <1>1, <1>3, <1>5, <1>6
  <2>4. \A n \in DOMAIN marks'[s], i \in DOMAIN log[s] :
            i <= marks'[s][n].log <=> granted'[s][log[s][i]] < n
    BY <1>2, <1>4, <1>8, <2>1 DEF SessionInv, RegistryInv
  <2>5. /\ \A i \in DOMAIN log[s] : granted'[s][log[s][i]] # NotHeld
        /\ \A l \in Lock : granted'[s][l] # NotHeld => \E i \in DOMAIN log[s] : log[s][i] = l
        /\ \A l \in wanted[s] : granted'[s][l] = NotHeld
    BY <1>2, <1>7 DEF SessionInv, RegistryInv, Held
  <2> QED BY <1>1, <2>2, <2>3, <2>4, <2>5 DEF RegistryInv, Held
<1>10. IntentsHeld(s)'
  <2>1. ASSUME NEW v \in Lock, v.kind = "value", granted'[s][v] # NotHeld
        PROVE  /\ granted'[s][Intent(v.rel, v.side)] # NotHeld
               /\ granted'[s][Intent(v.rel, v.side)] <= granted'[s][v]
    <3> DEFINE int == Intent(v.rel, v.side)
    <3>1. int \in Lock
      BY <2>1, LockTyping DEF Lock
    <3>2. Held(s, int) /\ granted[s][int] <= granted[s][v]
      BY <1>7, <2>1 DEF SessionInv, IntentsHeld, Held
    <3>3. /\ granted'[s][int] = IF granted[s][int] = top THEN top - 1 ELSE granted[s][int]
          /\ granted'[s][v] = IF granted[s][v] = top THEN top - 1 ELSE granted[s][v]
      BY <1>5, <2>1, <3>1
    <3>4. /\ granted[s][int] \in Int /\ granted[s][v] \in Int
          /\ granted[s][int] <= top /\ granted[s][v] <= top /\ top \in Int
      BY <1>3, <1>6, <2>1, <3>1
    <3>5. granted'[s][int] <= granted'[s][v]
      <4> HIDE DEF int, top
      <4> QED BY <3>2, <3>3, <3>4
    <3> QED BY <1>7, <3>1, <3>2, <3>5 DEF Held
  <2> QED BY <2>1 DEF IntentsHeld, Held
<1>11. IntentsWanted(s)'
  <2>1. ASSUME NEW v \in wanted[s], v.kind = "value"
        PROVE  \/ Intent(v.rel, v.side) \in wanted[s]
               \/ granted'[s][Intent(v.rel, v.side)] # NotHeld
    <3>1. Intent(v.rel, v.side) \in Lock
      BY <1>2, <2>1, LockTyping DEF Lock
    <3> QED BY <1>7, <2>1, <3>1 DEF SessionInv, IntentsWanted, Held
  <2> QED BY <1>1, <2>1 DEF IntentsWanted, Held
<1> QED BY <1>9, <1>10, <1>11 DEF SessionInv

LEMMA SubAbortSession ==
    ASSUME TypeOK, NEW s \in Session, SessionInv(s), SubAbortStep(s)
    PROVE  SessionInv(s)'
<1> DEFINE top == Len(marks[s])
           cut == marks[s][top].log
<1>1. /\ granted'[s] = Released(s) /\ log'[s] = Kept(s, Last(marks[s]))
      /\ marks'[s] = Front(marks[s]) /\ marks[s] # <<>> /\ wanted'[s] = {}
  BY DEF SubAbortStep, RollBackSub, TypeOK
<1>2. /\ granted[s] \in [Lock -> Nat \cup {NotHeld}]
      /\ log[s] \in Seq(Lock) /\ Len(log[s]) \in Nat
      /\ DOMAIN log[s] = 1..Len(log[s])
      /\ \A i \in DOMAIN log[s] : log[s][i] \in Lock
      /\ marks[s] \in Seq([log : Nat, links : BOOLEAN])
      /\ DOMAIN marks[s] = 1..top
      /\ \A n \in DOMAIN marks[s] : marks[s][n].log \in Nat
  BY SessionTypes
<1>3. /\ top \in Nat \ {0} /\ Last(marks[s]) = marks[s][top]
      /\ Front(marks[s]) \in Seq([log : Nat, links : BOOLEAN])
      /\ Len(Front(marks[s])) = top - 1
      /\ \A n \in 1..(top - 1) : Front(marks[s])[n] = marks[s][n]
  BY <1>1, <1>2, FrontAndLast
<1>4. cut \in Nat /\ cut <= Len(log[s]) /\ top \in DOMAIN marks[s]
  <2>1. top \in DOMAIN marks[s]
    BY <1>2, <1>3
  <2> QED BY <1>2, <2>1 DEF SessionInv, RegistryInv
<1>5. /\ DOMAIN log'[s] = 1..cut /\ Len(log'[s]) = cut
      /\ \A i \in 1..cut : i \in DOMAIN log[s] /\ log'[s][i] = log[s][i]
  <2>1. log'[s] = SubSeq(log[s], 1, cut)
    BY <1>1, <1>3 DEF Kept
  <2> QED BY <1>2, <1>4, <2>1
<1>6. \A k \in Lock : granted'[s][k] = IF granted[s][k] < top THEN granted[s][k] ELSE NotHeld
  BY <1>1 DEF Released
<1>7. \A i \in DOMAIN log[s] : i <= cut <=> granted[s][log[s][i]] < top
  BY <1>4 DEF SessionInv, RegistryInv
<1>8. \A i \in 1..cut : granted'[s][log'[s][i]] = granted[s][log[s][i]]
  <2>1. ASSUME NEW i \in 1..cut
        PROVE  granted'[s][log'[s][i]] = granted[s][log[s][i]]
    <3>1. i \in DOMAIN log[s] /\ log'[s][i] = log[s][i] /\ log[s][i] \in Lock
      BY <1>2, <1>5, <2>1
    <3>2. granted[s][log[s][i]] < top
      BY <1>4, <1>7, <2>1, <3>1
    <3> QED BY <1>6, <3>1, <3>2
  <2> QED BY <2>1
<1>9. RegistryInv(s)'
  <2>1. /\ DOMAIN marks'[s] = 1..(top - 1)
        /\ \A n \in DOMAIN marks'[s] : n \in DOMAIN marks[s] /\ marks'[s][n] = marks[s][n]
    <3>1. DOMAIN marks'[s] = 1..(top - 1)
      BY <1>1, <1>3
    <3>2. \A n \in 1..(top - 1) : n \in 1..top
      BY <1>3
    <3>3. \A n \in 1..(top - 1) : marks'[s][n] = marks[s][n]
      BY <1>1, <1>3
    <3> QED BY <1>2, <3>1, <3>2, <3>3
  <2>2. \A n \in DOMAIN marks'[s] : marks'[s][n].log <= Len(log'[s])
    <3>1. ASSUME NEW n \in DOMAIN marks'[s]
          PROVE  marks[s][n].log <= cut
      <4>1. n \in DOMAIN marks[s] /\ n <= top
        BY <1>3, <2>1
      <4> QED BY <1>4, <4>1 DEF SessionInv, RegistryInv
    <3> QED BY <1>5, <2>1, <3>1
  <2>3. \A m, n \in DOMAIN marks'[s] : m <= n => marks'[s][m].log <= marks'[s][n].log
    BY <2>1 DEF SessionInv, RegistryInv
  <2>4. \A k \in Lock : granted'[s][k] <= Len(marks'[s])
    <3>1. Len(marks'[s]) = top - 1
      BY <1>1, <1>3
    <3>2. \A k \in Lock : granted[s][k] \in Int
      BY <1>2 DEF NotHeld
    <3> QED BY <1>3, <1>6, <3>1, <3>2 DEF NotHeld
  <2>5. \A i \in DOMAIN log'[s] : granted'[s][log'[s][i]] # NotHeld
    BY <1>5, <1>8 DEF SessionInv, RegistryInv, Held
  <2>6. \A k \in Lock : granted'[s][k] # NotHeld => \E i \in DOMAIN log'[s] : log'[s][i] = k
    <3>1. ASSUME NEW k \in Lock, granted'[s][k] # NotHeld
          PROVE  \E i \in DOMAIN log'[s] : log'[s][i] = k
      <4>1. granted[s][k] < top /\ Held(s, k)
        BY <1>6, <3>1 DEF Held
      <4>2. PICK i \in DOMAIN log[s] : log[s][i] = k
        BY <4>1 DEF SessionInv, RegistryInv
      <4>3. i \in 1..cut
        BY <1>2, <1>4, <1>7, <4>1, <4>2
      <4> QED BY <1>5, <4>2, <4>3
    <3> QED BY <3>1
  <2>7. \A n \in DOMAIN marks'[s], i \in DOMAIN log'[s] :
            i <= marks'[s][n].log <=> granted'[s][log'[s][i]] < n
    BY <1>5, <1>8, <2>1 DEF SessionInv, RegistryInv
  <2> QED BY <1>1, <2>2, <2>3, <2>4, <2>5, <2>6, <2>7 DEF RegistryInv, Held
<1>10. IntentsHeld(s)'
  <2>1. ASSUME NEW v \in Lock, v.kind = "value", granted'[s][v] # NotHeld
        PROVE  /\ granted'[s][Intent(v.rel, v.side)] # NotHeld
               /\ granted'[s][Intent(v.rel, v.side)] <= granted'[s][v]
    <3> DEFINE int == Intent(v.rel, v.side)
    <3>1. int \in Lock
      BY <2>1, LockTyping DEF Lock
    <3>2. granted[s][v] < top /\ Held(s, v) /\ granted'[s][v] = granted[s][v]
      BY <1>6, <2>1 DEF Held
    <3>3. Held(s, int) /\ granted[s][int] <= granted[s][v]
      BY <2>1, <3>2 DEF SessionInv, IntentsHeld
    <3>4. granted[s][int] \in Int /\ granted[s][v] \in Int
      BY <1>2, <2>1, <3>1 DEF NotHeld
    <3>5. granted'[s][int] = granted[s][int]
      BY <1>3, <1>6, <3>1, <3>2, <3>3, <3>4
    <3> QED BY <3>2, <3>3, <3>5 DEF Held
  <2> QED BY <2>1 DEF IntentsHeld, Held
<1>11. IntentsWanted(s)'
  BY <1>1 DEF IntentsWanted
<1> QED BY <1>9, <1>10, <1>11 DEF SessionInv

LEMMA EndSession ==
    ASSUME TypeOK, NEW s \in Session, EndStep(s)
    PROVE  SessionInv(s)'
<1>1. /\ granted'[s] = [l \in Lock |-> NotHeld] /\ log'[s] = <<>>
      /\ marks'[s] = <<>> /\ wanted'[s] = {}
  BY DEF EndStep, End, TypeOK
<1>2. \A l \in Lock : granted'[s][l] = NotHeld /\ NotHeld <= 0
  BY <1>1 DEF NotHeld
<1>3. RegistryInv(s)'
  BY <1>1, <1>2 DEF RegistryInv, Held
<1>4. IntentsHeld(s)'
  BY <1>2 DEF IntentsHeld, Held
<1>5. IntentsWanted(s)'
  BY <1>1 DEF IntentsWanted
<1> QED BY <1>3, <1>4, <1>5 DEF SessionInv

-----------------------------------------------------------------------------
(* The other sessions. *)

\* A step of s leaves every other session's locks and registry alone.
LEMMA OthersAlone ==
    ASSUME TypeOK, NEW s \in Session, Step(s), NEW t \in Session, t # s
    PROVE  /\ granted'[t] = granted[t] /\ log'[t] = log[t]
           /\ marks'[t] = marks[t] /\ wanted'[t] = wanted[t]
           /\ later'[t] = later[t]
<1>1. CASE CallStep(s)
  BY <1>1 DEF CallStep, Calls, TypeOK
<1>2. CASE Acquire(s)
  BY <1>2 DEF Acquire, TypeOK
<1>3. CASE NoteLinkChange(s) \/ SubStart(s) \/ SubCommit(s)
  BY <1>3 DEF NoteLinkChange, SubStart, SubCommit, TypeOK
<1>4. CASE SubAbortStep(s)
  BY <1>4 DEF SubAbortStep, RollBackSub, TypeOK
<1>5. CASE EndStep(s)
  BY <1>5 DEF EndStep, End, TypeOK
<1> QED BY <1>1, <1>2, <1>3, <1>4, <1>5 DEF Step

\* The only lock a step adds is one Acquire found available.
LEMMA NewLocksAreAvailable ==
    ASSUME TypeOK, NEW s \in Session, Step(s), NEW l \in Lock,
           ~Held(s, l), Held(s, l)'
    PROVE  Available(s, l)
<1>1. CASE CallStep(s)
  BY <1>1 DEF CallStep, Calls, Held
<1>2. CASE Acquire(s)
  <2>1. PICK k \in wanted[s] :
          Available(s, k) /\ granted' = [granted EXCEPT ![s][k] = Len(marks[s])]
    BY <1>2 DEF Acquire
  <2>2. k = l
    BY <2>1 DEF Held, TypeOK
  <2> QED BY <2>1, <2>2
<1>3. CASE NoteLinkChange(s) \/ SubStart(s)
  BY <1>3 DEF NoteLinkChange, SubStart, Held
<1>4. CASE SubCommit(s)
  <2>1. granted'[s] = Inherited(s) /\ marks[s] # <<>>
    BY <1>4 DEF SubCommit, TypeOK
  <2>2. Len(marks[s]) \in Nat \ {0}
    BY <2>1, SessionTypes
  <2> QED BY <2>1, <2>2 DEF Inherited, Held, NotHeld
<1>5. CASE SubAbortStep(s)
  <2>1. granted'[s] = Released(s)
    BY <1>5 DEF SubAbortStep, RollBackSub, TypeOK
  <2> QED BY <2>1 DEF Released, Held
<1>6. CASE EndStep(s)
  <2>1. granted'[s] = [k \in Lock |-> NotHeld]
    BY <1>6 DEF EndStep, End, TypeOK
  <2> QED BY <2>1 DEF Held
<1> QED BY <1>1, <1>2, <1>3, <1>4, <1>5, <1>6 DEF Step

\* Conflicts hold between two locks either way round.
LEMMA ConflictsAreMutual ==
    ASSUME NEW k \in Lock, NEW l \in Lock, Conflict(k, l)
    PROVE  Conflict(l, k)
<1>1. SameTag(l, k)
  BY DEF Conflict, SameTag
<1>2. ModesConflict(Mode(l), Mode(k))
  BY DEF Conflict, ModesConflict
<1> QED BY <1>1, <1>2 DEF Conflict

LEMMA CompatibleStep ==
    ASSUME TypeOK, \A t, u \in Session : t # u => Compatible(t, u),
           NEW s \in Session, Step(s)
    PROVE  \A t, u \in Session : t # u => Compatible(t, u)'
<1>1. ASSUME NEW t \in Session, t # s, NEW k \in Lock, NEW l \in Lock,
             Held(s, k)', Held(t, l)'
      PROVE  ~Conflict(k, l) /\ ~Conflict(l, k)
  <2>1. Held(t, l)
    BY <1>1, OthersAlone DEF Held
  <2>2. CASE Held(s, k)
    BY <1>1, <2>1, <2>2 DEF Compatible
  <2>3. CASE ~Held(s, k)
    <3>1. Available(s, k)
      BY <1>1, <2>3, NewLocksAreAvailable
    <3>2. ~Conflict(l, k)
      BY <1>1, <2>1, <3>1 DEF Available, LocksOf, Held
    <3> QED BY <3>2, ConflictsAreMutual
  <2> QED BY <2>2, <2>3
<1>2. ASSUME NEW t \in Session, NEW u \in Session, t # u
      PROVE  Compatible(t, u)'
  <2>1. CASE t # s /\ u # s
    BY <1>2, <2>1, OthersAlone DEF Compatible, Held
  <2>2. CASE t = s
    BY <1>1, <1>2, <2>2 DEF Compatible
  <2>3. CASE u = s
    BY <1>1, <1>2, <2>3 DEF Compatible
  <2> QED BY <2>1, <2>2, <2>3
<1> QED BY <1>2

LEMMA SessionStep ==
    ASSUME TypeOK, NEW s \in Session, SessionInv(s), Step(s)
    PROVE  SessionInv(s)'
<1>1. CASE NoteLinkChange(s)
  BY <1>1 DEF NoteLinkChange, SessionInv, RegistryInv, IntentsHeld, IntentsWanted, Held
<1> QED BY <1>1, CallSession, AcquireSession, SubStartSession, SubCommitSession,
           SubAbortSession, EndSession DEF Step

-----------------------------------------------------------------------------
(* The invariant holds. *)

LEMMA InitInv == Init => IInv
<1> SUFFICES ASSUME Init PROVE IInv
  OBVIOUS
<1>1. TypeOK
  <2>1. links \in [Session -> BOOLEAN] /\ later \in [Session -> BOOLEAN]
    BY Zenon DEF Init
  <2> QED BY <2>1 DEF Init, TypeOK
<1>2. ASSUME NEW s \in Session
      PROVE  /\ \A l \in Lock : granted[s][l] = NotHeld
             /\ log[s] = <<>> /\ marks[s] = <<>> /\ wanted[s] = {}
  BY DEF Init
<1>3. ASSUME NEW s \in Session
      PROVE  SessionInv(s)
  BY <1>2 DEF SessionInv, RegistryInv, IntentsHeld, IntentsWanted, Held, NotHeld
<1>4. \A s, t \in Session : Compatible(s, t)
  BY <1>2 DEF Compatible, Held
<1> QED BY <1>1, <1>3, <1>4 DEF IInv

LEMMA NextInv == IInv /\ [Next]_vars => IInv'
<1> SUFFICES ASSUME IInv, [Next]_vars PROVE IInv'
  OBVIOUS
<1>1. CASE UNCHANGED vars
  <2>1. TypeOK'
    BY <1>1 DEF vars, IInv, TypeOK
  <2>2. \A s \in Session : SessionInv(s)'
    BY <1>1 DEF vars, IInv, SessionInv, RegistryInv, IntentsHeld, IntentsWanted, Held
  <2>3. \A s, t \in Session : s # t => Compatible(s, t)'
    BY <1>1 DEF vars, IInv, Compatible, Held
  <2> QED BY <2>1, <2>2, <2>3 DEF IInv
<1>2. CASE Next
  <2>1. PICK s \in Session : Step(s)
    BY <1>2, NextIsStep DEF IInv
  <2>2. TypeOK'
    BY <2>1, TypesStep DEF IInv, SessionInv
  <2>3. SessionInv(s)'
    BY <2>1, SessionStep DEF IInv
  <2>4. ASSUME NEW t \in Session, t # s
        PROVE  SessionInv(t)'
    <3>1. /\ granted'[t] = granted[t] /\ log'[t] = log[t]
          /\ marks'[t] = marks[t] /\ wanted'[t] = wanted[t]
      BY <2>1, <2>4, OthersAlone DEF IInv
    <3>2. SessionInv(t)
      BY DEF IInv
    <3> QED BY <3>1, <3>2 DEF SessionInv, RegistryInv, IntentsHeld, IntentsWanted, Held
  <2>5. \A t, u \in Session : t # u => Compatible(t, u)'
    BY <2>1, CompatibleStep DEF IInv
  <2> QED BY <2>2, <2>3, <2>4, <2>5 DEF IInv
<1> QED BY <1>1, <1>2

\* In every reachable state the invariant holds.
THEOREM InvHolds == Spec => []IInv
<1> QED BY InitInv, NextInv, PTL DEF Spec

\* The variables keep their types.
THEOREM TypeCorrect == Spec => []TypeOK
<1>1. IInv => TypeOK
  BY DEF IInv
<1> QED BY <1>1, InvHolds, PTL

\* Whatever subtransactions opened, committed and rolled back, the registry
\* names exactly the locks the lock manager holds for the transaction.
THEOREM RegistryCorrect == Spec => []RegistryIsHeld
<1>1. IInv => RegistryIsHeld
  <2> SUFFICES ASSUME IInv, NEW s \in Session
               PROVE  Recorded(s) = LocksOf(s)
    BY DEF RegistryIsHeld
  <2>1. \A l \in Lock : l \in Recorded(s) <=> Held(s, l)
    BY RecordedIsHeld DEF IInv, SessionInv
  <2> QED BY <2>1 DEF Recorded, LocksOf, Held
<1> QED BY <1>1, InvHolds, PTL

\* Two locks that cover one value for two sides, one a writer's, conflict, or
\* the intent of the one conflicts with the other.
LEMMA CoversClash ==
    ASSUME NEW r \in Relation, NEW h \in Hash, NEW d \in Side, NEW e \in Side,
           d = "writer" \/ e = "writer"
    PROVE  /\ Conflict(ValueLock(r, d, h), ValueLock(r, e, h))
           /\ Conflict(Intent(r, d), Escalated(r, e))
           /\ Conflict(Escalated(r, d), Intent(r, e))
           /\ Conflict(Escalated(r, d), Escalated(r, e))
BY DEF Side, Conflict, SameTag, Mode, ModesConflict, ValueLock, Intent, Escalated

LEMMA InvExcludes == IInv => WriterExcludes
<1> SUFFICES ASSUME IInv, NEW s \in Session, NEW t \in Session, s # t,
                    NEW v \in CoveredBy(Recorded(s)), NEW w \in CoveredBy(Recorded(t)),
                    v.rel = w.rel, v.hash = w.hash,
                    v.side = "writer" \/ w.side = "writer"
             PROVE  FALSE
  BY DEF WriterExcludes, CoveredBy, Side
<1>1. /\ v.rel \in Relation /\ v.hash \in Hash
      /\ v.side \in Side /\ w.side \in Side
  BY DEF CoveredBy
<1> DEFINE r == v.rel
           h == v.hash
           d == v.side
           e == w.side
<1>2. /\ Intent(r, d) \in Lock /\ Escalated(r, d) \in Lock /\ ValueLock(r, d, h) \in Lock
      /\ Intent(r, e) \in Lock /\ Escalated(r, e) \in Lock /\ ValueLock(r, e, h) \in Lock
  BY <1>1, LockTyping
<1>3. Held(s, ValueLock(r, d, h)) \/ Held(s, Escalated(r, d))
  BY <1>2, RecordedIsHeld DEF IInv, SessionInv, CoveredBy
<1>4. Held(t, ValueLock(r, e, h)) \/ Held(t, Escalated(r, e))
  BY <1>2, RecordedIsHeld DEF IInv, SessionInv, CoveredBy
<1>5. Held(s, ValueLock(r, d, h)) => Held(s, Intent(r, d))
  BY <1>2 DEF IInv, SessionInv, IntentsHeld, ValueLock
<1>6. Held(t, ValueLock(r, e, h)) => Held(t, Intent(r, e))
  BY <1>2 DEF IInv, SessionInv, IntentsHeld, ValueLock
<1>7. \A k, l \in Lock : Held(s, k) /\ Held(t, l) => ~Conflict(k, l)
  BY DEF IInv, Compatible
<1> HIDE DEF r, h, d, e
<1> QED BY <1>1, <1>2, <1>3, <1>4, <1>5, <1>6, <1>7, CoversClash DEF r, h, d, e

\* A value a transaction covers as a writer is covered by no other.
THEOREM WritersExclude == Spec => []WriterExcludes
<1> QED BY InvExcludes, InvHolds, PTL

-----------------------------------------------------------------------------
(* First calls do not deadlock. *)

\* Acquire takes the first lock the call asks for.
LEMMA FirstComesBefore ==
    ASSUME TypeOK, NEW s \in Session, InOrder(wanted[s]),
           NEW l \in wanted[s], ComesFirst(s, l), NEW k \in wanted[s], k # l
    PROVE  Before(l, k)
<1>1. Before(k, l) => FALSE
  <2> SUFFICES ASSUME Before(k, l) PROVE FALSE
    OBVIOUS
  <2>1. l.kind = "value" /\ (k.kind = "value" => k.hash < l.hash)
    BY DEF Before
  <2>2. k.kind = "value" /\ l.hash <= k.hash
    BY <2>1 DEF ComesFirst
  <2>3. k \in Lock /\ l \in Lock
    BY DEF TypeOK
  <2>4. k.hash \in Nat /\ l.hash \in Nat
    BY <2>1, <2>2, <2>3, HashAssumption DEF Lock
  <2> QED BY <2>1, <2>2, <2>4
<1> QED BY <1>1 DEF InOrder

LEMMA OrderStep ==
    ASSUME TypeOK, NEW s \in Session, SessionInv(s), OrderInv(s), Step(s)
    PROVE  OrderInv(s)'
<1>1. CASE CallStep(s)
  <2>1. PICK locks \in SUBSET Lock : Calls(s, locks) /\ InOrder(locks)
    BY <1>1 DEF CallStep
  <2>2. wanted'[s] = locks /\ later'[s] = (log[s] # <<>>) /\ granted' = granted
    BY <2>1 DEF Calls, TypeOK
  <2>3. log[s] = <<>> => \A k \in Lock : ~Held(s, k)
    BY DEF SessionInv, RegistryInv
  <2> QED BY <2>1, <2>2, <2>3 DEF OrderInv, FirstInOrder, InOrder, Held
<1>2. CASE Acquire(s)
  <2>1. PICK l \in wanted[s] :
          /\ ComesFirst(s, l)
          /\ granted' = [granted EXCEPT ![s][l] = Len(marks[s])]
          /\ wanted' = [wanted EXCEPT ![s] = @ \ {l}]
          /\ later' = [later EXCEPT ![s] = @ /\ wanted[s] # {l}]
    BY <1>2 DEF Acquire
  <2>2. /\ wanted'[s] = wanted[s] \ {l}
        /\ \A k \in Lock : k # l => granted'[s][k] = granted[s][k]
    BY <2>1 DEF TypeOK
  <2>3. ~later'[s] => ~later[s] \/ wanted'[s] = {}
    BY <2>1, <2>2 DEF TypeOK
  <2>4. InOrder(wanted'[s])
    BY <2>2 DEF OrderInv, InOrder
  <2>5. \A k \in wanted'[s] : Before(l, k)
    BY <2>1, <2>2, FirstComesBefore DEF OrderInv
  <2>6. ~later'[s] => \A k \in Lock, m \in wanted'[s] :
            granted'[s][k] # NotHeld => Before(k, m)
    BY <2>2, <2>3, <2>5 DEF OrderInv, FirstInOrder, Held
  <2> QED BY <2>4, <2>6 DEF OrderInv, InOrder, FirstInOrder, Held
<1>3. CASE NoteLinkChange(s) \/ SubStart(s)
  BY <1>3 DEF NoteLinkChange, SubStart, OrderInv, FirstInOrder, InOrder, Held
<1>4. CASE SubCommit(s) \/ SubAbortStep(s) \/ EndStep(s)
  <2>1. wanted'[s] = {}
    BY <1>4 DEF SubCommit, SubAbortStep, EndStep, TypeOK
  <2> QED BY <2>1 DEF OrderInv, FirstInOrder, InOrder
<1> QED BY <1>1, <1>2, <1>3, <1>4 DEF Step

OrderAll == IInv /\ \A s \in Session : OrderInv(s)

LEMMA OrderHolds == Spec => []OrderAll
<1>1. Init => OrderAll
  <2> SUFFICES ASSUME Init, NEW s \in Session PROVE OrderInv(s)
    BY InitInv DEF OrderAll
  <2>1. wanted[s] = {}
    BY DEF Init
  <2> QED BY <2>1 DEF OrderInv, FirstInOrder, InOrder
<1>2. OrderAll /\ [Next]_vars => OrderAll'
  <2> SUFFICES ASSUME OrderAll, [Next]_vars PROVE OrderAll'
    OBVIOUS
  <2>1. IInv'
    BY NextInv DEF OrderAll
  <2>2. CASE UNCHANGED vars
    BY <2>1, <2>2 DEF vars, OrderAll, OrderInv, FirstInOrder, InOrder, Held
  <2>3. CASE Next
    <3>1. PICK s \in Session : Step(s)
      BY <2>3, NextIsStep DEF OrderAll, IInv
    <3>2. OrderInv(s)'
      BY <3>1, OrderStep DEF OrderAll, IInv
    <3>3. ASSUME NEW t \in Session, t # s
          PROVE  OrderInv(t)'
      <4>1. /\ granted'[t] = granted[t] /\ wanted'[t] = wanted[t]
            /\ later'[t] = later[t]
        BY <3>1, <3>3, OthersAlone DEF OrderAll, IInv
      <4>2. OrderInv(t)
        BY DEF OrderAll
      <4> QED BY <4>1, <4>2 DEF OrderInv, FirstInOrder, InOrder, Held
    <3> QED BY <2>1, <3>2, <3>3 DEF OrderAll
  <2> QED BY <2>2, <2>3
<1> QED BY <1>1, <1>2, PTL DEF Spec

\* Coming before is a strict order.
LEMMA BeforeIsStrict ==
    ASSUME NEW k \in Lock, NEW l \in Lock, Before(k, l)
    PROVE  ~Before(l, k) /\ k # l /\ \A m \in Lock : Before(l, m) => Before(k, m)
<1>1. \A m \in Lock : m.kind = "value" => m.hash \in Nat
  BY HashAssumption DEF Lock
<1>2. ~Before(l, k) /\ k # l
  BY <1>1 DEF Before
<1>3. ASSUME NEW m \in Lock, Before(l, m)
      PROVE  Before(k, m)
  BY <1>1, <1>3 DEF Before
<1> QED BY <1>2, <1>3

\* A session waits for what another holds under the tag it asks for: if the
\* other asks in its first call, what it asks for comes later.
LEMMA WaitsUpwards ==
    ASSUME OrderAll, NEW s \in Session, NEW t \in WaitsFor(s), ~later[t],
           NEW m \in wanted[t], NEW l0 \in wanted[s], ComesFirst(s, l0)
    PROVE  Before(l0, m)
<1>1. TypeOK /\ t \in Session
  BY DEF OrderAll, IInv, WaitsFor
<1>2. PICK l \in wanted[s] : \E k \in LocksOf(t) : ComesFirst(s, l) /\ Conflict(k, l)
  BY DEF WaitsFor
<1>3. PICK k \in LocksOf(t) : ComesFirst(s, l) /\ Conflict(k, l)
  BY <1>2
<1>4. /\ l \in Lock /\ l0 \in Lock /\ m \in Lock
      /\ k \in Lock /\ Held(t, k)
  BY <1>1 DEF TypeOK, LocksOf, Held
<1>5. l = l0
  <2> SUFFICES ASSUME l # l0 PROVE FALSE
    OBVIOUS
  <2>1. InOrder(wanted[s])
    BY DEF OrderAll, OrderInv
  <2>2. Before(l, l0) /\ Before(l0, l)
    BY <1>1, <1>3, <2>1, FirstComesBefore
  <2> QED BY <1>4, <2>2, BeforeIsStrict
<1>6. Before(k, m)
  BY <1>1, <1>4 DEF OrderAll, OrderInv, FirstInOrder
<1>7. SameTag(k, l0)
  BY <1>3, <1>5 DEF Conflict
<1> QED BY <1>6, <1>7 DEF Before, SameTag

\* The sessions that wait further up than s form a set that is closed under
\* waiting, and s is not in it.
LEMMA OrderMeansNoDeadlock == OrderAll => FirstCallsDoNotDeadlock
<1> SUFFICES ASSUME OrderAll, NEW s \in Session, s \in Ahead(s),
                    \A t \in Ahead(s) : ~later[t]
             PROVE  FALSE
  BY DEF FirstCallsDoNotDeadlock, Deadlocked
<1>1. \A u \in Session : wanted[u] \in SUBSET Lock
  BY DEF OrderAll, IInv, TypeOK
<1>2. \A u \in {s} \cup Ahead(s) : WaitsFor(u) \subseteq Ahead(s)
  BY DEF Ahead, WaitsFor
<1> DEFINE Further(t) == \A k \in wanted[s], l \in wanted[t] :
                            ComesFirst(s, k) /\ ComesFirst(t, l) => Before(k, l)
           C == {t \in Ahead(s) : Further(t)}
<1>3. \A t \in WaitsFor(s) : t \in C
  <2>1. \A t \in WaitsFor(s) : t \in Ahead(s)
    BY <1>2
  <2> QED BY <2>1, WaitsUpwards
<1>4. ASSUME NEW u \in C, NEW t \in WaitsFor(u)
      PROVE  t \in C
  <2>1. u \in Session /\ t \in Session /\ t \in Ahead(s)
    BY <1>2 DEF Ahead
  <2>2. PICK l \in wanted[u] : ComesFirst(u, l)
    BY DEF WaitsFor
  <2>3. ASSUME NEW k \in wanted[s], NEW m \in wanted[t], ComesFirst(s, k)
        PROVE  Before(k, m)
    <3>1. Before(k, l)
      BY <2>2, <2>3
    <3>2. Before(l, m)
      BY <2>1, <2>2, WaitsUpwards
    <3> QED BY <1>1, <2>1, <3>1, <3>2, BeforeIsStrict
  <2> QED BY <2>1, <2>3
<1>5. s \in C
  <2>1. C \in SUBSET Session
    BY DEF Ahead
  <2>2. \A u \in {s} \cup C : WaitsFor(u) \subseteq C
    BY <1>3, <1>4
  <2> HIDE DEF C
  <2> QED BY <2>1, <2>2 DEF Ahead
<1>6. PICK k \in wanted[s] : ComesFirst(s, k)
  <2>1. WaitsFor(s) # {}
    <3> SUFFICES ASSUME WaitsFor(s) = {} PROVE FALSE
      OBVIOUS
    <3>1. \A u \in {s} \cup {} : WaitsFor(u) \subseteq {}
      OBVIOUS
    <3> QED BY <3>1 DEF Ahead
  <2> QED BY <2>1 DEF WaitsFor
<1>7. Before(k, k)
  BY <1>5, <1>6
<1> QED BY <1>1, <1>7, BeforeIsStrict

\* Transactions in their first call never wait for each other in a cycle,
\* whatever values of whatever relations they ask for: each waits for a lock
\* that comes after every lock it holds.
THEOREM FirstCallsGoThrough == Spec => []FirstCallsDoNotDeadlock
<1> QED BY OrderMeansNoDeadlock, OrderHolds, PTL


-----------------------------------------------------------------------------
(***************************************************************************)
(* ValueLocks implements ValueExclusion: what a transaction's registry      *)
(* covers changes only as the abstract exclusion of values allows.  The    *)
(* lemmas say what each step does to what is covered and to what a         *)
(* savepoint remembers of it.                                              *)
(***************************************************************************)

Value == [rel : Relation, side : Side, hash : Hash]
Mark == [log : Nat, links : BOOLEAN]
EntryType == [covered : SUBSET Value, linked : BOOLEAN]

\* What a registry's log covered, and knew of link changes, at a mark; and at
\* each of the marks of a session.
EntryOf(entries, m) ==
    [covered |-> CoveredBy({entries[i] : i \in 1..m.log}), linked |-> m.links]
EntriesOf(entries, ms) == [k \in DOMAIN ms |-> EntryOf(entries, ms[k])]

Covered(s) == CoveredBy(Recorded(s))
Entries(s) == EntriesOf(log[s], marks[s])

LEMMA CoveredType == \A locks : CoveredBy(locks) \in SUBSET Value
BY DEF CoveredBy, Value

LEMMA EntriesType ==
    ASSUME NEW entries, NEW ms \in Seq(Mark)
    PROVE  /\ EntriesOf(entries, ms) \in Seq(EntryType)
           /\ Len(EntriesOf(entries, ms)) = Len(ms)
           /\ \A k \in 1..Len(ms) : EntriesOf(entries, ms)[k] = EntryOf(entries, ms[k])
<1>1. Len(ms) \in Nat /\ DOMAIN ms = 1..Len(ms) /\ \A k \in 1..Len(ms) : ms[k] \in Mark
  OBVIOUS
<1>2. \A k \in 1..Len(ms) : EntryOf(entries, ms[k]) \in EntryType
  BY <1>1, CoveredType DEF EntryOf, EntryType, Mark
<1> DEFINE es == [k \in 1..Len(ms) |-> EntryOf(entries, ms[k])]
<1>3. es \in Seq(EntryType) /\ Len(es) = Len(ms)
  BY <1>1, <1>2
<1>4. EntriesOf(entries, ms) = es
  BY <1>1 DEF EntriesOf
<1> QED BY <1>3, <1>4

\* Two logs that agree up to the marks have the same entries there.
LEMMA EntriesAgree ==
    ASSUME NEW ms, NEW entries, NEW others,
           \A k \in DOMAIN ms : \A i \in 1..ms[k].log : entries[i] = others[i]
    PROVE  EntriesOf(entries, ms) = EntriesOf(others, ms)
<1>1. \A k \in DOMAIN ms : EntryOf(entries, ms[k]) = EntryOf(others, ms[k])
  BY DEF EntryOf
<1> QED BY <1>1 DEF EntriesOf

-----------------------------------------------------------------------------
(* What each step does to what is covered. *)

Same(s) == Covered(s)' = Covered(s) /\ links'[s] = links[s] /\ Entries(s)' = Entries(s)

LEMMA OthersSame ==
    ASSUME TypeOK, NEW s \in Session, Step(s), NEW t \in Session, t # s
    PROVE  Same(t)
<1>1. log'[t] = log[t] /\ marks'[t] = marks[t]
  BY OthersAlone
<1>2. links'[t] = links[t]
  BY DEF Step, CallStep, Calls, Acquire, NoteLinkChange, SubStart, SubCommit, SubAbortStep,
         RollBackSub, EndStep, End, TypeOK
<1> QED BY <1>1, <1>2 DEF Same, Covered, Recorded, Entries

\* The set a log names up to its end is what the registry records.
LEMMA RecordedIsLog ==
    ASSUME TypeOK, NEW s \in Session
    PROVE  Recorded(s) = {log[s][i] : i \in 1..Len(log[s])}
BY SessionTypes DEF Recorded

LEMMA CallSame ==
    ASSUME TypeOK, NEW s \in Session, CallStep(s)
    PROVE  Same(s)
BY DEF CallStep, Calls, Same, Covered, Recorded, Entries

LEMMA AcquireCovers ==
    ASSUME TypeOK, NEW s \in Session, RegistryInv(s), Acquire(s)
    PROVE  /\ Covered(s) \subseteq Covered(s)'
           /\ links' = links /\ Entries(s)' = Entries(s)
<1>1. PICK l \in wanted[s] :
        log' = [log EXCEPT ![s] = Append(@, l)] /\ UNCHANGED <<links, marks>>
  BY DEF Acquire
<1>2. l \in Lock /\ log[s] \in Seq(Lock) /\ Len(log[s]) \in Nat
  BY SessionTypes
<1>3. /\ log'[s] = Append(log[s], l)
      /\ \A i \in 1..Len(log[s]) : log'[s][i] = log[s][i]
      /\ Len(log'[s]) = Len(log[s]) + 1
  BY <1>1, <1>2, AppendProperties DEF TypeOK
<1>4. Recorded(s) \subseteq Recorded(s)'
  <2>1. DOMAIN log[s] = 1..Len(log[s]) /\ DOMAIN log'[s] = 1..(Len(log[s]) + 1)
    BY <1>2, <1>3, SessionTypes
  <2>2. \A i \in DOMAIN log[s] : i \in DOMAIN log'[s] /\ log'[s][i] = log[s][i]
    BY <1>2, <1>3, <2>1
  <2> QED BY <2>2 DEF Recorded
<1>5. Covered(s) \subseteq Covered(s)'
  BY <1>4 DEF Covered, CoveredBy
<1>6. \A k \in DOMAIN marks[s] : \A i \in 1..marks[s][k].log : log'[s][i] = log[s][i]
  <2> SUFFICES ASSUME NEW k \in DOMAIN marks[s], NEW i \in 1..marks[s][k].log
               PROVE  log'[s][i] = log[s][i]
    OBVIOUS
  <2>1. marks[s][k].log \in Nat /\ marks[s][k].log <= Len(log[s])
    BY SessionTypes DEF RegistryInv
  <2>2. i \in 1..Len(log[s])
    BY <1>2, <2>1
  <2> QED BY <1>3, <2>2
<1>7. Entries(s)' = Entries(s)
  <2>1. marks'[s] = marks[s]
    BY <1>1
  <2>2. EntriesOf(log'[s], marks[s]) = EntriesOf(log[s], marks[s])
    BY <1>6, EntriesAgree
  <2> QED BY <2>1, <2>2 DEF Entries
<1> QED BY <1>1, <1>5, <1>7

LEMMA StartKeeps ==
    ASSUME TypeOK, NEW s \in Session, SubStart(s)
    PROVE  /\ Covered(s)' = Covered(s) /\ links' = links
           /\ Entries(s)' = Append(Entries(s), [covered |-> Covered(s), linked |-> links[s]])
<1> DEFINE m == [log |-> Len(log[s]), links |-> links[s]]
           e == [covered |-> Covered(s), linked |-> links[s]]
           old == marks[s]
           new == marks'[s]
           entries == log[s]
<1>1. /\ new = Append(old, m) /\ UNCHANGED <<log, links>>
  BY DEF SubStart, TypeOK
<1>2. Covered(s)' = Covered(s)
  BY <1>1 DEF Covered, Recorded
<1>3. old \in Seq(Mark) /\ Len(old) \in Nat /\ m \in Mark
  BY SessionTypes DEF TypeOK, Mark
<1>4. EntryOf(entries, m) = e
  BY RecordedIsLog DEF EntryOf, Covered
<1>5. e \in EntryType
  BY CoveredType DEF EntryType, Covered, TypeOK
<1>6. Entries(s) = EntriesOf(entries, old) /\ Entries(s)' = EntriesOf(entries, new)
  BY <1>1 DEF Entries
<1> HIDE DEF m, e, old, new, entries
<1>7. /\ new \in Seq(Mark) /\ Len(new) = Len(old) + 1
      /\ \A k \in 1..Len(old) : new[k] = old[k]
      /\ new[Len(old) + 1] = m
  BY <1>1, <1>3, AppendProperties
<1> DEFINE before == EntriesOf(entries, old)
           after == EntriesOf(entries, new)
<1>8. /\ before \in Seq(EntryType) /\ Len(before) = Len(old)
      /\ \A k \in 1..Len(old) : before[k] = EntryOf(entries, old[k])
  BY <1>3, EntriesType
<1>9. /\ after \in Seq(EntryType) /\ Len(after) = Len(old) + 1
      /\ \A k \in 1..(Len(old) + 1) : after[k] = EntryOf(entries, new[k])
  BY <1>7, EntriesType
<1> HIDE DEF before, after
<1>10. /\ Append(before, e) \in Seq(EntryType) /\ Len(Append(before, e)) = Len(old) + 1
       /\ \A k \in 1..Len(old) : Append(before, e)[k] = before[k]
       /\ Append(before, e)[Len(old) + 1] = e
  BY <1>5, <1>8, AppendProperties
<1>11. \A k \in 1..(Len(old) + 1) : after[k] = Append(before, e)[k]
  <2> SUFFICES ASSUME NEW k \in 1..(Len(old) + 1) PROVE after[k] = Append(before, e)[k]
    OBVIOUS
  <2>1. CASE k = Len(old) + 1
    BY <2>1, <1>4, <1>7, <1>9, <1>10
  <2>2. CASE k # Len(old) + 1
    <3>1. k \in 1..Len(old)
      BY <2>2, <1>3
    <3> QED BY <3>1, <1>7, <1>8, <1>9, <1>10
  <2> QED BY <2>1, <2>2
<1>12. after = Append(before, e)
  BY <1>9, <1>10, <1>11, SeqEqual
<1> QED BY <1>1, <1>2, <1>6, <1>12 DEF before, after, e

\* Closing the innermost subtransaction drops its entry.
LEMMA EntriesFront ==
    ASSUME NEW entries, NEW ms \in Seq(Mark), ms # <<>>
    PROVE  /\ EntriesOf(entries, Front(ms)) = Front(EntriesOf(entries, ms))
           /\ EntriesOf(entries, ms) # <<>>
           /\ Last(EntriesOf(entries, ms)) = EntryOf(entries, Last(ms))
<1> DEFINE n == Len(ms)
           all == EntriesOf(entries, ms)
           front == EntriesOf(entries, Front(ms))
<1>1. /\ n \in Nat \ {0} /\ Front(ms) \in Seq(Mark) /\ Len(Front(ms)) = n - 1
      /\ \A k \in 1..(n - 1) : Front(ms)[k] = ms[k]
      /\ Last(ms) = ms[n]
  BY FrontAndLast
<1>2. /\ all \in Seq(EntryType) /\ Len(all) = n
      /\ \A k \in 1..n : all[k] = EntryOf(entries, ms[k])
  BY EntriesType
<1>3. /\ front \in Seq(EntryType) /\ Len(front) = n - 1
      /\ \A k \in 1..(n - 1) : front[k] = EntryOf(entries, Front(ms)[k])
  <2>1. /\ front \in Seq(EntryType) /\ Len(front) = Len(Front(ms))
        /\ \A k \in 1..Len(Front(ms)) : front[k] = EntryOf(entries, Front(ms)[k])
    BY <1>1, EntriesType
  <2> HIDE DEF front
  <2> QED BY <1>1, <2>1
<1> HIDE DEF n, all, front
<1>4. all # <<>>
  BY <1>1, <1>2, EmptySeq
<1>5. /\ Front(all) \in Seq(EntryType) /\ Len(Front(all)) = n - 1
      /\ \A k \in 1..(n - 1) : Front(all)[k] = all[k]
      /\ Last(all) = all[n]
  BY <1>2, <1>4, FrontAndLast
<1>6. \A k \in 1..(n - 1) : front[k] = Front(all)[k]
  <2> SUFFICES ASSUME NEW k \in 1..(n - 1) PROVE front[k] = Front(all)[k]
    OBVIOUS
  <2>1. k \in 1..n
    BY <1>1
  <2> QED BY <2>1, <1>1, <1>2, <1>3, <1>5
<1>7. front = Front(all)
  BY <1>3, <1>5, <1>6, SeqEqual
<1>8. Last(all) = EntryOf(entries, Last(ms))
  BY <1>1, <1>2, <1>5
<1> QED BY <1>4, <1>7, <1>8 DEF front, all

LEMMA ReleaseKeeps ==
    ASSUME TypeOK, NEW s \in Session, SubCommit(s)
    PROVE  /\ Covered(s)' = Covered(s) /\ links' = links
           /\ Entries(s) # <<>> /\ Entries(s)' = Front(Entries(s))
<1>1. /\ marks[s] # <<>> /\ marks'[s] = Front(marks[s]) /\ UNCHANGED <<log, links>>
  BY DEF SubCommit, TypeOK
<1>2. marks[s] \in Seq(Mark)
  BY DEF TypeOK, Mark
<1>3. Covered(s)' = Covered(s)
  BY <1>1 DEF Covered, Recorded
<1>4. Entries(s)' = EntriesOf(log[s], Front(marks[s]))
  BY <1>1 DEF Entries
<1> QED BY <1>1, <1>2, <1>3, <1>4, EntriesFront DEF Entries

LEMMA RollbackRestores ==
    ASSUME TypeOK, NEW s \in Session, RegistryInv(s), SubAbortStep(s)
    PROVE  /\ Entries(s) # <<>>
           /\ Covered(s)' = Last(Entries(s)).covered
           /\ links'[s] = Last(Entries(s)).linked
           /\ Entries(s)' = Front(Entries(s))
<1> DEFINE top == Len(marks[s])
           cut == marks[s][top].log
<1>1. /\ log'[s] = Kept(s, Last(marks[s])) /\ marks'[s] = Front(marks[s])
      /\ marks[s] # <<>> /\ links'[s] = Last(marks[s]).links
  BY DEF SubAbortStep, RollBackSub, TypeOK
<1>2. /\ marks[s] \in Seq(Mark) /\ log[s] \in Seq(Lock) /\ Len(log[s]) \in Nat
      /\ DOMAIN marks[s] = 1..top
  BY SessionTypes DEF Mark
<1>3. /\ top \in Nat \ {0} /\ Last(marks[s]) = marks[s][top]
      /\ Len(Front(marks[s])) = top - 1 /\ Front(marks[s]) \in Seq(Mark)
      /\ \A k \in 1..(top - 1) : Front(marks[s])[k] = marks[s][k]
  BY <1>1, <1>2, FrontAndLast
<1>4. top \in DOMAIN marks[s]
  BY <1>2, <1>3
<1>5. cut \in Nat /\ cut <= Len(log[s])
  BY <1>4, SessionTypes DEF RegistryInv
<1>6. \A k \in 1..(top - 1) : marks[s][k].log \in Nat /\ marks[s][k].log <= cut
  <2> SUFFICES ASSUME NEW k \in 1..(top - 1)
               PROVE  marks[s][k].log \in Nat /\ marks[s][k].log <= cut
    OBVIOUS
  <2>1. k \in DOMAIN marks[s] /\ k <= top
    BY <1>2, <1>3
  <2> QED BY <1>4, <2>1, SessionTypes DEF RegistryInv
<1>7. /\ Len(log'[s]) = cut /\ DOMAIN log'[s] = 1..cut
      /\ \A i \in 1..cut : log'[s][i] = log[s][i] /\ log[s][i] \in Lock
  <2>1. log'[s] = SubSeq(log[s], 1, cut)
    BY <1>1, <1>3 DEF Kept
  <2> HIDE DEF cut
  <2> QED BY <1>2, <1>5, <2>1
<1>8. Covered(s)' = EntryOf(log[s], Last(marks[s])).covered
  <2>1. Recorded(s)' = {log[s][i] : i \in 1..cut}
    <3> HIDE DEF cut
    <3> QED BY <1>7 DEF Recorded
  <2>2. EntryOf(log[s], Last(marks[s])).covered = CoveredBy({log[s][i] : i \in 1..cut})
    BY <1>3 DEF EntryOf
  <2> QED BY <2>1, <2>2 DEF Covered, CoveredBy
<1>9. Entries(s)' = EntriesOf(log[s], Front(marks[s]))
  <2>1. ASSUME NEW k \in DOMAIN Front(marks[s]), NEW i \in 1..Front(marks[s])[k].log
        PROVE  log'[s][i] = log[s][i]
    <3>1. k \in 1..(top - 1)
      BY <1>3
    <3>2. Front(marks[s])[k].log \in Nat /\ Front(marks[s])[k].log <= cut
      BY <1>3, <1>6, <3>1
    <3> HIDE DEF cut
    <3>3. i \in 1..cut
      BY <1>5, <2>1, <3>2
    <3> QED BY <1>7, <3>3
  <2>2. EntriesOf(log'[s], Front(marks[s])) = EntriesOf(log[s], Front(marks[s]))
    BY <2>1, EntriesAgree
  <2> QED BY <1>1, <2>2 DEF Entries
<1>10. /\ EntriesOf(log[s], Front(marks[s])) = Front(Entries(s))
       /\ Entries(s) # <<>>
       /\ Last(Entries(s)) = EntryOf(log[s], Last(marks[s]))
  BY <1>1, <1>2, EntriesFront DEF Entries
<1>11. EntryOf(log[s], Last(marks[s])).linked = Last(marks[s]).links
  BY DEF EntryOf
<1> QED BY <1>1, <1>8, <1>9, <1>10, <1>11

LEMMA EndForgets ==
    ASSUME TypeOK, NEW s \in Session, EndStep(s)
    PROVE  Covered(s)' = {} /\ links'[s] = FALSE /\ Entries(s)' = <<>>
<1>1. log'[s] = <<>> /\ marks'[s] = <<>> /\ links'[s] = FALSE
  BY DEF EndStep, End, TypeOK
<1>2. Recorded(s)' = {}
  BY <1>1 DEF Recorded
<1>3. Covered(s)' = {}
  BY <1>2 DEF Covered, CoveredBy
<1>4. Entries(s)' = <<>>
  BY <1>1 DEF Entries, EntriesOf
<1> QED BY <1>1, <1>3, <1>4

-----------------------------------------------------------------------------
(* The refinement. *)

CoveredMap == [s \in Session |-> Covered(s)]
EntriesMap == [s \in Session |-> Entries(s)]

\* The refinement mapping of ValueLocks is the one the lemmas speak of.
LEMMA Mapping ==
    /\ CoveredMap = [s \in Session |-> CoveredBy(Recorded(s))]
    /\ EntriesMap = [s \in Session |->
          [k \in DOMAIN marks[s] |->
             [covered |-> CoveredBy({log[s][i] : i \in 1..marks[s][k].log}),
              linked |-> marks[s][k].links]]]
BY DEF CoveredMap, Covered, EntriesMap, Entries, EntriesOf, EntryOf

\* What the covers of one session become, with those of the others as they are.
LEMMA Changes ==
    ASSUME TypeOK, NEW s \in Session, Step(s)
    PROVE  /\ CoveredMap' = [CoveredMap EXCEPT ![s] = Covered(s)']
           /\ EntriesMap' = [EntriesMap EXCEPT ![s] = Entries(s)']
           /\ \A t \in Session \ {s} : links'[t] = links[t]
<1>1. \A t \in Session \ {s} : Same(t)
  BY OthersSame
<1> QED BY <1>1 DEF Same, CoveredMap, EntriesMap

LEMMA SameParts == \A q : Promise!Front(q) = Front(q) /\ Promise!Last(q) = Last(q)
BY DEF Promise!Front, Front, Promise!Last, Last

LEMMA RefinedInit == Init => Promise!Init
<1> SUFFICES ASSUME Init PROVE Promise!Init
  OBVIOUS
<1>1. \A s \in Session : log[s] = <<>> /\ marks[s] = <<>>
  BY DEF Init
<1>2. \A s \in Session : Recorded(s) = {}
  BY <1>1 DEF Recorded
<1>3. \A s \in Session : Covered(s) = {} /\ Entries(s) = <<>>
  BY <1>1, <1>2 DEF Covered, CoveredBy, Entries, EntriesOf
<1>4. CoveredMap = [s \in Session |-> {}] /\ EntriesMap = [s \in Session |-> <<>>]
  BY <1>3 DEF CoveredMap, EntriesMap
<1> QED BY <1>4, Mapping DEF Promise!Init, Init

\* A value newly covered clashes with none another session covers.
LEMMA NewCoversFit ==
    ASSUME TypeOK, WriterExcludes', NEW s \in Session, Step(s)
    PROVE  \A v \in Covered(s)' \ Covered(s) :
             /\ v \in Value
             /\ \A t \in Session \ {s} : \A w \in Covered(t) : ~Promise!Clash(v, w)
<1> SUFFICES ASSUME NEW v \in Covered(s)', NEW t \in Session \ {s}, NEW w \in Covered(t)
             PROVE  v \in Value /\ ~Promise!Clash(v, w)
  <2>1. Covered(s)' \subseteq Value
    BY DEF Covered, CoveredBy, Value
  <2> QED BY <2>1
<1>1. w \in Covered(t)'
  BY OthersSame DEF Same
<1>2. v.rel = w.rel /\ v.hash = w.hash => v.side = "refresh" /\ w.side = "refresh"
  BY <1>1 DEF WriterExcludes, Covered
<1>3. v \in Value
  BY DEF Covered, CoveredBy, Value
<1> QED BY <1>2, <1>3 DEF Promise!Clash

LEMMA RefinedStep ==
    IInv /\ WriterExcludes' /\ [Next]_vars => [Promise!Next]_(Promise!exclusionVars)
<1> SUFFICES ASSUME IInv, WriterExcludes', [Next]_vars
             PROVE  [Promise!Next]_(Promise!exclusionVars)
  OBVIOUS
<1>0. TypeOK
  BY DEF IInv
<1>m. /\ Promise!exclusionVars = <<CoveredMap, links, EntriesMap>>
      /\ Promise!exclusionVars' = <<CoveredMap', links', EntriesMap'>>
  BY Mapping DEF Promise!exclusionVars, CoveredMap, Covered, EntriesMap, Entries, EntriesOf, EntryOf
<1>1. CASE UNCHANGED vars
  <2>1. CoveredMap' = CoveredMap /\ EntriesMap' = EntriesMap /\ links' = links
    BY <1>1 DEF vars, CoveredMap, Covered, Recorded, EntriesMap, Entries
  <2> QED BY <2>1, <1>m
<1>2. CASE Next
  <2>1. PICK s \in Session : Step(s)
    BY <1>0, <1>2, NextIsStep
  <2>2. RegistryInv(s)
    BY DEF IInv, SessionInv
  <2>3. /\ CoveredMap' = [CoveredMap EXCEPT ![s] = Covered(s)']
        /\ EntriesMap' = [EntriesMap EXCEPT ![s] = Entries(s)']
        /\ \A t \in Session \ {s} : links'[t] = links[t]
    BY <1>0, <2>1, Changes
  <2>4. CoveredMap[s] = Covered(s) /\ EntriesMap[s] = Entries(s)
    BY DEF CoveredMap, EntriesMap
  <2>5. CASE CallStep(s)
    <3>1. Same(s) /\ links' = links
      BY <1>0, <2>5, CallSame DEF CallStep, Calls
    <3>2. CoveredMap' = CoveredMap /\ EntriesMap' = EntriesMap
      BY <2>3, <3>1 DEF Same, CoveredMap, EntriesMap
    <3> QED BY <3>1, <3>2, <1>m
  <2>6. CASE Acquire(s)
    <3>1. Covered(s) \subseteq Covered(s)' /\ links' = links /\ Entries(s)' = Entries(s)
      BY <1>0, <2>2, <2>6, AcquireCovers
    <3>2. EntriesMap' = EntriesMap
      BY <2>3, <3>1 DEF EntriesMap
    <3>3. CoveredMap'[s] = Covered(s)'
      BY <2>3 DEF CoveredMap
    <3>4. Promise!Cover(s)
      BY <1>0, <2>1, <2>3, <2>4, <3>1, <3>2, <3>3, NewCoversFit
         DEF Promise!Cover, Promise!Value, Value, CoveredMap, Covered,
             EntriesMap, Entries, EntriesOf, EntryOf
    <3> QED BY <3>4 DEF Promise!Next
  <2>7. CASE NoteLinkChange(s)
    <3>1. links' = [links EXCEPT ![s] = TRUE] /\ UNCHANGED <<log, marks>>
      BY <2>7 DEF NoteLinkChange
    <3>2. CoveredMap' = CoveredMap /\ EntriesMap' = EntriesMap
      BY <3>1 DEF CoveredMap, Covered, Recorded, EntriesMap, Entries
    <3>3. Promise!Link(s)
      BY <3>1, <3>2 DEF Promise!Link, CoveredMap, Covered, EntriesMap, Entries, EntriesOf, EntryOf
    <3> QED BY <3>3 DEF Promise!Next
  <2>8. CASE SubStart(s)
    <3>1. /\ Covered(s)' = Covered(s) /\ links' = links
          /\ Entries(s)' = Append(Entries(s), [covered |-> Covered(s), linked |-> links[s]])
      BY <1>0, <2>8, StartKeeps
    <3>2. CoveredMap' = CoveredMap
      BY <2>3, <3>1 DEF CoveredMap
    <3>3. Promise!Start(s)
      BY <2>3, <2>4, <3>1, <3>2
         DEF Promise!Start, CoveredMap, Covered, EntriesMap, Entries, EntriesOf, EntryOf
    <3> QED BY <3>3 DEF Promise!Next
  <2>9. CASE SubCommit(s)
    <3>1. /\ Covered(s)' = Covered(s) /\ links' = links
          /\ Entries(s) # <<>> /\ Entries(s)' = Front(Entries(s))
      BY <1>0, <2>9, ReleaseKeeps
    <3>2. CoveredMap' = CoveredMap
      BY <2>3, <3>1 DEF CoveredMap
    <3>3. Promise!Release(s)
      BY <2>3, <2>4, <3>1, <3>2, SameParts
         DEF Promise!Release, CoveredMap, Covered, EntriesMap, Entries, EntriesOf, EntryOf
    <3> QED BY <3>3 DEF Promise!Next
  <2>10. CASE SubAbortStep(s)
    <3>1. /\ Entries(s) # <<>> /\ Covered(s)' = Last(Entries(s)).covered
          /\ Entries(s)' = Front(Entries(s))
      BY <1>0, <2>2, <2>10, RollbackRestores
    <3>2. links' = [links EXCEPT ![s] = Last(Entries(s)).linked]
      BY <1>0, <2>2, <2>10, RollbackRestores DEF SubAbortStep, RollBackSub, TypeOK
    <3>3. Promise!Rollback(s)
      BY <2>3, <2>4, <3>1, <3>2, SameParts
         DEF Promise!Rollback, CoveredMap, Covered, EntriesMap, Entries, EntriesOf, EntryOf
    <3> QED BY <3>3 DEF Promise!Next
  <2>11. CASE EndStep(s)
    <3>1. Covered(s)' = {} /\ Entries(s)' = <<>> /\ links' = [links EXCEPT ![s] = FALSE]
      BY <1>0, <2>11, EndForgets DEF EndStep, End
    <3>2. Promise!Finish(s)
      BY <2>3, <3>1
         DEF Promise!Finish, CoveredMap, Covered, EntriesMap, Entries, EntriesOf, EntryOf
    <3> QED BY <3>2 DEF Promise!Next
  <2> QED BY <2>1, <2>5, <2>6, <2>7, <2>8, <2>9, <2>10, <2>11 DEF Step
<1> QED BY <1>1, <1>2

\* The registry and the lock manager do what src/concurrency promises the flush
\* and the triggers: a transaction covers values nobody else's clash with, and
\* a savepoint rollback leaves it with exactly what it covered there.
THEOREM ImplementsExclusion == Spec => KeepsPromise
<1>1. Init => Promise!Init
  BY RefinedInit
<1>2. IInv /\ WriterExcludes' /\ [Next]_vars => [Promise!Next]_(Promise!exclusionVars)
  BY RefinedStep
<1> QED BY <1>1, <1>2, InvHolds, WritersExclude, PTL DEF Spec, KeepsPromise, Promise!Spec
=============================================================================
