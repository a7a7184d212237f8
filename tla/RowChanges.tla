------------------------------ MODULE RowChanges ------------------------------
(***************************************************************************)
(* A row's net change over a transaction's refreshes (queue/affected.rs):  *)
(* what the report and the change feed both say of it.                     *)
(***************************************************************************)
EXTENDS Integers, Sequences, FiniteSets, SequencesExt

Change == {"inserted", "updated", "deleted"}

\* A row's net change once `next` follows `prev`.
FoldChange(prev, next) ==
    CASE prev = "inserted" /\ next = "deleted" -> "none"
      [] prev = "inserted" /\ next # "deleted" -> "inserted"
      [] prev = "deleted" /\ next # "deleted" -> "updated"
      [] OTHER -> next

\* What `entries`, each [row, change], make of one row.
NetChange(entries, row) ==
    FoldLeft(LAMBDA net, e : IF e.row = row THEN FoldChange(net, e.change) ELSE net,
             "none", entries)
=============================================================================
