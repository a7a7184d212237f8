--------------------------- MODULE MCRefreshSession ---------------------------
(***************************************************************************)
(* Two slices of a session's transactions, a behaviour being of one:       *)
(* statements nested, that write one TVIEW's row; and refresh suspended,   *)
(* of two TVIEWs, with COPYs.                                              *)
(***************************************************************************)
EXTENDS RefreshSession

CONSTANTS post, user
VARIABLE slice  \* "nested" or "suspended"

MCRowKey == {<<user, 1>>, <<post, 1>>}
MCValue == 0..MaxWrites

NestedSlice ==
    /\ base'[<<user, 1>>] = 0
    /\ suspension'.depth = 0
    /\ \A i \in DOMAIN stack' : stack'[i].kind # "copy"
SuspendedSlice == writes' <= 2 /\ Len(stack') <= 2 /\ Len(subs') <= 1

MCInit == Init /\ slice \in {"nested", "suspended"}
MCNext ==
    /\ Next
    /\ IF slice = "nested" THEN NestedSlice ELSE SuspendedSlice
    /\ UNCHANGED slice
MCSpec == MCInit /\ [][MCNext]_<<vars, slice>>

(* NothingUnflushed and FromFinalState, where the executor hooks see every *)
(* statement and nothing is suspended.                                     *)
NestedIsFlushed == [][slice = "nested" => ~FailUnflushed]_vars
NestedFromFinalState == [][slice = "nested" => FinishIsFresh]_vars
=============================================================================
