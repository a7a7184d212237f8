------------------------ MODULE MCPartitionTriggers ------------------------
(* What a backend remembers of the catalog, and what follows partitions,   *)
(* each on a small instance: a behaviour is one of CatalogCaches or of     *)
(* PartitionTriggers.                                                      *)
EXTENDS CatalogCaches, TLC
CONSTANTS Sessions, Entities, Keys, Partitioned, Leaves, Homes(_), Tree0, Read0, Reads(_),
          Kind(_), MaxNamed, MaxStatements
VARIABLES which, disk, txn, memo, watched, truncates, statements
Partitions == INSTANCE PartitionTriggers

\* A tree of two levels, and a table apart.
MCHomes(t) ==
  CASE t = "middle" -> {"root"} [] t = "low" -> {"middle"} [] t = "high" -> {"root"} [] OTHER -> {}
MCTree0 ==
  [t \in Partitioned \cup Leaves |->
     CASE t \in {"middle", "high"} -> "root" [] t = "low" -> "middle" [] OTHER -> "none"]
MCRead0 == [e \in Entities |-> "root"]
MCReads(e) == IF e = "mapped" THEN {"root", "other"} ELSE {"root"}
MCKind(e) == e

partitionVars == <<disk, txn, memo, watched, truncates, statements>>
MCInit ==
  /\ which \in {"partitions", "caches"}
  /\ Init /\ Partitions!Init
  /\ which = "caches" => \A t \in Leaves, k \in Keys : disk[Partitions!Row(t, k)]
MCNext ==
  \/ which = "partitions" /\ Partitions!Next /\ UNCHANGED <<which, vars>>
  \/ which = "caches" /\ Next /\ UNCHANGED <<which, partitionVars>>
MCSpec == MCInit /\ [][MCNext]_<<which, vars, partitionVars>>
MCSymmetry == Permutations(Sessions)

FollowsTree == Partitions!FollowsTree
TriggersAsExpected == Partitions!TriggersAsExpected
=============================================================================
