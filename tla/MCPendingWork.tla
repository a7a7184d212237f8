---------------------------- MODULE MCPendingWork ----------------------------
(* What a transaction keeps beside its writes, through savepoints, each on *)
(* a small instance: a behaviour is one of PendingWork, the refreshes to   *)
(* come, or of TransactionBooks, the rows changed.                         *)
EXTENDS PendingWork, TLC

CONSTANTS
    p, q, c,  \* a post with a comment, a post to come, rows enough to pass every cap
    NoId, Limits, MaxTracked, KeptBytes, MessageBytes, MaxMessages, EmptyLen,
    Nowhere, Replacing, MaxWrites, MaxBooksOpen
VARIABLES
    which,
    journal, base, reported, overflow, journalMarks,
    mode, entries, members, resolved, bytes, types, setMarks,
    rows, store, basis, saved, flushing, writes, phase, outgoing, gap, gaps,
    notes, cached, seenGaps

Post == {p, q}
Comment == {c}
FeedRow == ({"Post"} \X Post) \cup ({"Comment"} \X Comment)
Wanted == {{"Comment"}, {"Comment", "Post"}}
Start ==
    {[row \in FeedRow |->
        IF row = <<"Post", p>> THEN [version |-> 1]
        ELSE IF row = <<"Comment", c>> THEN [version |-> 1, of |-> p] ELSE Absent]}
Books == INSTANCE TransactionBooks WITH
    Row <- FeedRow, ParentRef <- [key : Post, known : BOOLEAN], MaxOpen <- MaxBooksOpen,
    marks <- journalMarks, Nothing <- Nowhere

bookVars ==
    <<journal, base, reported, overflow, journalMarks,
      mode, entries, members, resolved, bytes, types, setMarks,
      rows, store, basis, saved, flushing, writes, phase, outgoing, gap, gaps,
      notes, cached, seenGaps>>
MCInit ==
    /\ which \in {"work", "books"}
    /\ Init /\ Books!Init
    /\ which = "work" => mode = "rows"
MCNext ==
    \/ which = "work" /\ Next /\ UNCHANGED <<which, bookVars>>
    \/ which = "books" /\ Books!Step /\ UNCHANGED <<which, vars>>
MCSpec == MCInit /\ [][MCNext]_<<which, vars, bookVars>>

Interchangeable == Permutations(RowKey) \cup Permutations(Value)

\* Bounds: the listener has news of one transaction to read, and MaxWrites writes
\* are all of one transaction.
FewTransactions ==
    /\ Len(notes) + gaps - seenGaps <= 1
    /\ store \in Start \/ writes < MaxWrites \/ rows = store

ReportIsNet == Books!ReportIsNet
ReportNamesCollections == Books!ReportNamesCollections
PublishedIsNet == Books!PublishedIsNet
StaleIsAnnounced == Books!StaleIsAnnounced
=============================================================================
