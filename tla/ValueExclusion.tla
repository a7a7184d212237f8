---------------------------- MODULE ValueExclusion ----------------------------
(***************************************************************************)
(* What src/concurrency promises the flush and the triggers, with no lock  *)
(* modes, intents, escalation or log: a transaction covers values, a       *)
(* writer's value is covered by nobody else, and rolling a subtransaction  *)
(* back leaves the transaction with exactly what it covered, and knew of   *)
(* its link changes, when the subtransaction started.                      *)
(***************************************************************************)
EXTENDS Sequences, SequencesExt

CONSTANTS Session, Relation, Side, Hash

VARIABLES
    covered,   \* the values of each session, with the side it covers them for
    linked,    \* whether the session's transaction changed a link
    kept       \* what each open subtransaction started from, innermost last

exclusionVars == <<covered, linked, kept>>

Value == [rel : Relation, side : Side, hash : Hash]

\* Two covers that cannot be held by two sessions.
Clash(v, w) ==
    v.rel = w.rel /\ v.hash = w.hash /\ (v.side = "writer" \/ w.side = "writer")

Init ==
    /\ covered = [s \in Session |-> {}]
    /\ linked = [s \in Session |-> FALSE]
    /\ kept = [s \in Session |-> <<>>]

\* Cover more values, none that clashes with another session's.
Cover(s) ==
    /\ UNCHANGED <<linked, kept>>
    /\ covered' = [covered EXCEPT ![s] = covered'[s]]
    /\ covered[s] \subseteq covered'[s]
    /\ \A v \in covered'[s] \ covered[s] :
           v \in Value /\ \A t \in Session \ {s} : \A w \in covered[t] : ~Clash(v, w)

Link(s) == linked' = [linked EXCEPT ![s] = TRUE] /\ UNCHANGED <<covered, kept>>

Start(s) ==
    /\ kept' = [kept EXCEPT
                  ![s] = Append(@, [covered |-> covered[s], linked |-> linked[s]])]
    /\ UNCHANGED <<covered, linked>>

Release(s) ==
    /\ kept[s] # <<>>
    /\ kept' = [kept EXCEPT ![s] = Front(@)]
    /\ UNCHANGED <<covered, linked>>

Rollback(s) ==
    /\ kept[s] # <<>>
    /\ covered' = [covered EXCEPT ![s] = Last(kept[s]).covered]
    /\ linked' = [linked EXCEPT ![s] = Last(kept[s]).linked]
    /\ kept' = [kept EXCEPT ![s] = Front(@)]

Finish(s) ==
    /\ covered' = [covered EXCEPT ![s] = {}]
    /\ linked' = [linked EXCEPT ![s] = FALSE]
    /\ kept' = [kept EXCEPT ![s] = <<>>]

Next ==
    \E s \in Session :
        Cover(s) \/ Link(s) \/ Start(s) \/ Release(s) \/ Rollback(s) \/ Finish(s)

Spec == Init /\ [][Next]_exclusionVars
=============================================================================
