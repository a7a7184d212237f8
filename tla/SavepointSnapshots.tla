-------------------------- MODULE SavepointSnapshots --------------------------
(***************************************************************************)
(* What src/flush/savepoint.rs and src/queue/state.rs promise about the    *)
(* pending refresh work: a subtransaction works on it freely, committing   *)
(* keeps what it did, and a rollback, however it goes about it, ends with  *)
(* exactly the work pending when it started, before anything else happens. *)
(* No log and no marks: each open subtransaction has a whole copy.         *)
(***************************************************************************)
EXTENDS RefreshWork

VARIABLES
    work,     \* the pending refresh work
    saved,    \* the work each open subtransaction started from, innermost last
    undoing   \* a rollback is bringing the innermost copy back

snapVars == <<work, saved, undoing>>

Init == work = Nothing /\ saved = <<>> /\ undoing = FALSE

\* Triggers queue and patch, a flush takes.
Change == ~undoing /\ work' \in Work /\ UNCHANGED <<saved, undoing>>

Start == ~undoing /\ saved' = Append(saved, work) /\ UNCHANGED <<work, undoing>>

Release ==
    /\ ~undoing
    /\ saved # <<>>
    /\ saved' = Front(saved)
    /\ UNCHANGED <<work, undoing>>

Rollback ==
    /\ ~undoing
    /\ saved # <<>>
    /\ undoing' = TRUE
    /\ UNCHANGED <<work, saved>>

\* The work goes through anything, the copies through nothing.
Restore == undoing /\ work' \in Work /\ UNCHANGED <<saved, undoing>>

\* It ends with the copy, and with nothing else.
Restored ==
    /\ undoing
    /\ work' = Last(saved)
    /\ saved' = Front(saved)
    /\ undoing' = FALSE

Finish == ~undoing /\ work' = Nothing /\ saved' = <<>> /\ UNCHANGED undoing

Next == Change \/ Start \/ Release \/ Rollback \/ Restore \/ Restored \/ Finish

Spec == Init /\ [][Next]_snapVars
=============================================================================
