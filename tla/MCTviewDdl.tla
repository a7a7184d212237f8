----------------------------- MODULE MCTviewDdl -----------------------------
(* What becomes of a TVIEW as a whole, each on a small instance: a         *)
(* behaviour is one of TviewDdl or of UnloggedTviews.                      *)
EXTENDS TviewDdl
CONSTANTS Parts,  \* "ddl", "lifecycle"
          MaxWrites, MaxCrashes, MaxAlters
VARIABLES which, rows, transactions, checked, prepared, due, count

Def(id, reads, tviews, through, columns) ==
  [id |-> id, reads |-> reads, tviews |-> tviews, through |-> through, columns |-> columns]
MCDefaultReaders(p) == IF p = "open" THEN Roles ELSE {}
PostDefs == {Def("post", {"tb"}, {}, FALSE, 1), Def("both", {"tb", "mv"}, {}, FALSE, 1),
             Def("back", {}, {"feed"}, FALSE, 1)}
FeedDefs == {Def("feed", {}, {"post"}, FALSE, 1), Def("own", {"mv"}, {}, FALSE, 1),
             Def("wide", {"tb"}, {"post"}, FALSE, 2)}
MCDefinitions(e) == IF e = "post" THEN PostDefs ELSE FeedDefs
MCRegistered0 ==
  <<[entity |-> "post", def |-> Def("post", {"tb"}, {}, FALSE, 1), place |-> "app"],
    [entity |-> "feed", def |-> Def("feed", {}, {"post"}, FALSE, 1), place |-> "app"]>>
\* A definition that reads the table in a helper view.
ThroughDefs(e) == {Def(e, {"tb"}, {}, TRUE, 1)}
NothingRegistered == <<>>

\* A TVIEW, and one that reads it.
RowReads(e) == IF e = "post" THEN {"user"} ELSE {}
RowKeys == {1, 2}
RowBases == {[e \in {"user", "post"} |-> {}], [e \in {"user", "post"} |-> IF e = "user" THEN RowKeys ELSE {1}]}
Lifecycle == INSTANCE UnloggedTviews WITH
  Worker <- "worker", Entities <- <<"user", "post">>, Reads <- RowReads, Keys <- RowKeys,
  Bases <- RowBases, Persistence <- [{"user", "post"} -> BOOLEAN], Restored <- SUBSET {"user", "post"},
  Undoing <- FALSE, disk <- rows, txn <- transactions

rowVars == <<rows, transactions, checked, prepared, due, count>>
Absent == "absent"
MCInit ==
  /\ which \in Parts
  /\ Init
  /\ which = "lifecycle" => Registered(disk) = {}
  /\ IF which = "lifecycle" THEN Lifecycle!Init
     ELSE rows = Absent /\ transactions = Absent /\ checked = Absent /\ prepared = Absent /\ due = Absent
          /\ count = Absent
MCNext ==
  \/ which = "ddl" /\ Next /\ UNCHANGED <<which, rowVars>>
  \/ which = "lifecycle" /\ Lifecycle!Next /\ UNCHANGED <<which, vars>>
MCSpec == MCInit /\ [][MCNext]_<<which, vars, rowVars>>
T == INSTANCE TLC
MCSymmetry == T!Permutations(Sessions)

TrustedIsFull == which = "lifecycle" => Lifecycle!TrustedIsFull
CheckedIsFull == which = "lifecycle" => Lifecycle!CheckedIsFull
=============================================================================
