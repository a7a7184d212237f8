---------------------------- MODULE MCRecreatedRow ----------------------------
(* Three transactions: a user is renamed, the one post that embeds it is     *)
(* deleted, and inserted again by another author.                            *)
EXTENDS RefreshLocks, TLC
CONSTANTS a, b, c

Author == 1
Other == 2
Recreated == 11

MCStarts == {[users |-> [u \in User |-> Old], posts |-> (Recreated :> {Author})]}
MCScripts ==
    {(a :> <<[op |-> "rename", on |-> Author, to |-> {}]>>
      @@ b :> <<[op |-> "delete", on |-> Recreated, to |-> {}]>>
      @@ c :> <<[op |-> "insert", on |-> Recreated, to |-> {Other}]>>)}
MCLevels == {[s \in Session |-> "RC"]}
=============================================================================
