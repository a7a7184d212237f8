--------------------------- MODULE TransactionBooks ---------------------------
(***************************************************************************)
(* What a transaction remembers of the TVIEW rows it changed, and who is   *)
(* told: its own session by pg_tviews_flush_and_report, every other one by *)
(* the change feed at commit (ADR 0231). A listener caches rows, and lists *)
(* of a post's comments, and evicts what it is told changed.               *)
(***************************************************************************)
EXTENDS CascadeReport

CONSTANTS
    Nothing,     \* the listener caches nothing
    Start,       \* the rows committed at first
    Replacing,   \* TVIEWs are replaced: rows are written with no flush
    MaxWrites,   \* bound: writes of a behaviour
    MaxOpen      \* bound: subtransactions open

VARIABLES
    rows,        \* the TVIEWs' rows as the transaction has them
    store,       \* as committed
    basis,       \* as the last report that stands left them
    saved,       \* rows and basis when each open subtransaction started
    flushing,    \* a flush runs since that many subtransactions, or -1
    writes,      \* writes made
    phase,       \* of the transaction's end: open, sent, prepared, visible
    outgoing,    \* the messages sent at PRE_COMMIT
    gap,         \* the transaction skipped publishing (GAP)
    gaps,        \* pg_tviews_feed_gaps()
    notes,       \* the committed messages the listener has to read
    cached,      \* what the listener caches of each key
    seenGaps     \* the gap counter it last read

sessionVars == <<rows, store, basis, saved, flushing, writes, phase, outgoing, gap, gaps>>
listenerVars == <<notes, cached, seenGaps>>
vars == <<jvars, pvars, sessionVars, listenerVars>>

\* What a listener caches: a row by its id, a post's comments by the post's.
Key == FeedRow \cup ({"Comments"} \X Post)

\* A row is a version, one of two, and for a comment its post.
Another(row) == IF rows[row] = Absent THEN 1 ELSE 3 - rows[row].version

CommentsOf(db, p) ==
    {<<c, db[<<"Comment", c>>].version>> : c \in {d \in Comment : db[<<"Comment", d>>] # Absent
                                                     /\ db[<<"Comment", d>>].of = p}}

Content(db, key) ==
    IF key[1] = "Comments" /\ db[<<"Post", key[2]>>] # Absent
    THEN [post |-> db[<<"Post", key[2]>>], comments |-> CommentsOf(db, key[2])]
    ELSE IF key[1] # "Comments" /\ db[key] # Absent THEN db[key]
    ELSE Nothing

Posts == {p \in Post : rows[<<"Post", p>>] # Absent}

Init ==
    /\ JournalInit
    /\ PublishedInit
    /\ store \in Start
    /\ rows = store /\ basis = store
    /\ saved = <<>>
    /\ flushing = -1
    /\ writes = 0
    /\ phase = "open"
    /\ outgoing = <<>>
    /\ gap = FALSE /\ gaps = 0
    /\ notes = <<>>
    /\ cached = [key \in Key |-> Content(store, key)]
    /\ seenGaps = 0

-----------------------------------------------------------------------------
(* The transaction. *)

Open == phase = "open" /\ UNCHANGED <<store, phase, outgoing, gap, gaps, listenerVars>>

\* record: the journal and the published set, each in its own way.
Write(row, new, change, parents) ==
    /\ Open
    /\ writes < MaxWrites
    /\ writes' = writes + 1
    /\ rows[row] # new
    /\ rows' = [rows EXCEPT ![row] = new]
    /\ Record(row, change, parents)
    /\ Add(row, change, parents)
    \* In a flush, but the reconcile of a replaced TVIEW.
    /\ \/ (flushing = -1 => Replacing) /\ UNCHANGED flushing
       \/ flushing = -1 /\ flushing' = Len(marks)
    /\ UNCHANGED <<basis, saved>>

Known(p) == [key |-> p, known |-> p \in Posts]
KeyOnly(p) == [key |-> p, known |-> FALSE]

Inserting(row) == IF rows[row] = Absent THEN "inserted" ELSE "updated"

\* The post a comment is moved out of, by the key its row held when it was locked.
LeftPost(row, p) ==
    IF rows[row] = Absent \/ rows[row].of = p THEN <<>> ELSE <<KeyOnly(rows[row].of)>>

WritePost(p, v) == Write(<<"Post", p>>, [version |-> v], Inserting(<<"Post", p>>), <<>>)

DeleteRow(row) ==
    /\ rows[row] # Absent
    /\ Write(row, Absent, "deleted", IF row[1] = "Post" THEN <<>> ELSE <<Known(rows[row].of)>>)

\* A comment recomputed, by run_counted_upsert or reconcile.
WriteComment(c, v, p) ==
    LET row == <<"Comment", c>>
    IN  Write(row, [version |-> v, of |-> p], Inserting(row), <<Known(p)>> \o LeftPost(row, p))

\* A comment's document patched: its keys are returned, no id.
PatchComment(c, v) ==
    LET row == <<"Comment", c>>
    IN  /\ rows[row] # Absent
        /\ Write(row, [rows[row] EXCEPT !.version = v], "updated", <<KeyOnly(rows[row].of)>>)

\* A TVIEW rebuilt whole, with whatever its view returns now.
Rebuild(row, new) ==
    /\ Open
    /\ writes < MaxWrites
    /\ writes' = writes + 1
    /\ rows[row] # new
    /\ rows' = [rows EXCEPT ![row] = new]
    /\ RecordRebuilt(row[1])
    /\ AddType(row[1])
    /\ UNCHANGED <<basis, saved, flushing>>

EndFlush ==
    /\ Open
    /\ flushing = Len(marks)
    /\ flushing' = -1
    /\ Resolve(Posts)
    /\ UNCHANGED <<jvars, rows, basis, saved, writes>>

\* pg_tviews_flush_and_report with reset, after its flush.
Report ==
    /\ Open
    /\ flushing = -1
    /\ JournalReset
    /\ basis' = rows
    /\ UNCHANGED <<pvars, rows, saved, flushing, writes>>

SubStart ==
    /\ Open
    /\ Len(marks) < MaxOpen
    /\ JournalMark /\ PublishedMark
    /\ saved' = Append(saved, [rows |-> rows, basis |-> basis])
    /\ UNCHANGED <<rows, basis, flushing, writes>>

SubCommit ==
    /\ Open
    /\ flushing < Len(marks)
    /\ JournalRelease /\ PublishedRelease
    /\ saved' = Front(saved)
    /\ UNCHANGED <<rows, basis, flushing, writes>>

\* The rows and reports of the subtransaction are undone, a flush it started ended.
SubAbort ==
    /\ Open
    /\ JournalRollback /\ PublishedRollback
    /\ rows' = Last(saved).rows
    /\ basis' = Last(saved).basis
    /\ saved' = Front(saved)
    /\ flushing' = IF flushing = Len(marks) THEN -1 ELSE flushing
    /\ UNCHANGED writes

-----------------------------------------------------------------------------
(* Its end. *)

\* RESET_AT_END.
Forget ==
    /\ JournalClear /\ PublishedClear
    /\ flushing' = -1
    /\ saved' = <<>>

\* The messages are handed to NOTIFY, unless its queue is almost full.
PreCommit(full) ==
    /\ phase = "open"
    /\ flushing = -1 /\ marks = <<>>
    /\ phase' = "sent"
    /\ LET skip == full /\ ~PublishedEmpty IN
        /\ outgoing' = IF skip THEN <<>> ELSE Encoded(MaxMessages)
        /\ gap' = skip
    /\ Forget
    /\ UNCHANGED <<rows, store, basis, writes, gaps, listenerVars>>

\* The transaction is visible, and its notifications with it.
Visible ==
    /\ phase = "sent"
    /\ phase' = "visible"
    /\ store' = rows
    /\ notes' = IF outgoing = <<>> THEN notes ELSE Append(notes, outgoing)
    /\ outgoing' = <<>>
    /\ UNCHANGED <<jvars, pvars, rows, basis, saved, flushing, writes, gap, gaps, cached, seenGaps>>

\* XACT_EVENT_COMMIT, and the next transaction.
AtCommit ==
    /\ phase = "visible"
    /\ phase' = "open"
    /\ gap' = FALSE
    /\ gaps' = IF gap THEN gaps + 1 ELSE gaps
    /\ basis' = rows
    /\ Forget
    /\ UNCHANGED <<rows, store, writes, outgoing, listenerVars>>

\* Broken variant: any transaction can be prepared.
MayPrepareAlways == TRUE

\* refuse_prepare: a notification does not survive PREPARE.
MayPrepare == PublishedEmpty

Prepare ==
    /\ phase = "open"
    /\ flushing = -1 /\ marks = <<>>
    /\ writes > 0
    /\ MayPrepare
    /\ phase' = "prepared"
    /\ Forget
    /\ UNCHANGED <<rows, store, basis, writes, outgoing, gap, gaps, listenerVars>>

CommitPrepared ==
    /\ phase = "prepared"
    /\ phase' = "open"
    /\ store' = rows
    /\ basis' = rows
    /\ UNCHANGED <<jvars, pvars, rows, saved, flushing, writes, outgoing, gap, gaps, listenerVars>>

\* Before it is visible, anything may still fail.
Abort ==
    /\ phase \in {"open", "sent", "prepared"}
    /\ writes > 0
    /\ phase' = "open"
    /\ rows' = store /\ basis' = store
    /\ outgoing' = <<>>
    /\ gap' = FALSE
    /\ Forget
    /\ UNCHANGED <<store, writes, gaps, listenerVars>>

-----------------------------------------------------------------------------
(* The listener: docs/user-guides/change-feed.md. *)

\* Its steps commute with those of a transaction nobody sees yet: they are taken
\* outside one, or between its being seen and its end.
Listening == phase = "visible" \/ (phase = "open" /\ rows = store /\ marks = <<>>)

\* It reads what it does not hold, of the posts and comments that are there.
Fetch ==
    /\ Listening
    /\ cached' = [key \in Key |-> IF cached[key] = Nothing THEN Content(store, key) ELSE cached[key]]
    /\ cached' # cached
    /\ UNCHANGED <<jvars, pvars, sessionVars, notes, seenGaps>>

\* u and d evict rows, and results composed of them; c collections; t types.
Evicts(messages, key) ==
    LET type == IF key[1] = "Post" THEN {"Post"}
                ELSE IF key[1] = "Comment" THEN {"Comment"} ELSE {"Post", "Comment"}
        row == IF key[1] = "Comments" THEN <<"Post", key[2]>> ELSE key
    IN  \/ row \in Sent(messages, "u") \cup Sent(messages, "d")
        \/ key[1] = "Comments" /\ key[2] \in Sent(messages, "c")
        \/ type \cap SentTypes(messages) # {}

Receive ==
    /\ Listening
    /\ notes # <<>>
    /\ notes' = Tail(notes)
    /\ cached' = [key \in Key |-> IF Evicts(Head(notes), key) THEN Nothing ELSE cached[key]]
    /\ UNCHANGED <<jvars, pvars, sessionVars, seenGaps>>

\* When the counter moved, everything goes.
Heartbeat ==
    /\ Listening
    /\ gaps # seenGaps
    /\ seenGaps' = gaps
    /\ cached' = [key \in Key |-> Nothing]
    /\ UNCHANGED <<jvars, pvars, sessionVars, notes>>

\* The connection is lost, with what was not read, and made again: LISTEN, the
\* counter, then everything goes.
Reconnect ==
    /\ Listening
    /\ notes # <<>>
    /\ notes' = <<>>
    /\ seenGaps' = gaps
    /\ cached' = [key \in Key |-> Nothing]
    /\ UNCHANGED <<jvars, pvars, sessionVars>>

Done == writes = MaxWrites /\ phase = "open" /\ rows = store /\ UNCHANGED vars

Step ==
    \/ \E p \in Post : WritePost(p, Another(<<"Post", p>>))
    \/ \E row \in FeedRow : DeleteRow(row)
    \/ \E c \in Comment : \/ PatchComment(c, Another(<<"Comment", c>>))
                          \/ \E p \in Post : WriteComment(c, Another(<<"Comment", c>>), p)
    \/ \E p \in Post : Rebuild(<<"Post", p>>, Absent)
    \/ EndFlush \/ Report \/ SubStart \/ SubCommit \/ SubAbort
    \/ \E full \in BOOLEAN : PreCommit(full)
    \/ Visible \/ AtCommit \/ Prepare \/ CommitPrepared \/ Abort
    \/ Fetch \/ Receive \/ Heartbeat \/ Reconnect
    \/ Done

Spec == Init /\ [][Step]_vars

-----------------------------------------------------------------------------
(* Properties. *)

TypeOK ==
    /\ JournalInOrder
    /\ mode \in {"rows", "types"}
    /\ entries \in Seq([row : FeedRow, change : Change])
    /\ \A i \in 1..Len(members) : members[i].key \in Post /\ members[i].parent \in {"key", "id", "gone"}
    /\ resolved \in 0..Len(members)
    /\ bytes \in 0..KeptBytes
    /\ types \subseteq Type
    /\ Len(setMarks) = Len(marks) /\ Len(saved) = Len(marks)
    /\ flushing \in -1..Len(marks)
    /\ DOMAIN rows = FeedRow /\ DOMAIN store = FeedRow
    /\ seenGaps <= gaps

\* The net change between two states of a row.
Difference(old, new) ==
    IF old = Absent THEN IF new = Absent THEN "none" ELSE "inserted"
    ELSE IF new = Absent THEN "deleted" ELSE "updated"

\* A report names what changed since the last one that stands, each row by its net
\* change and no row that is as it was, whatever was rolled back in between, and
\* by its type what it could not keep or list.
ReportIsNet ==
    phase = "open" /\ flushing = -1 =>
        \A wanted \in Wanted, limit \in Limits, data \in BOOLEAN :
            \A report \in Reports(wanted, limit, data, rows) :
                \A row \in FeedRow :
                    LET is == Difference(basis[row], rows[row])
                    IN  row[1] \in wanted \ report.invalidated =>
                            /\ row \in DOMAIN report.changes => report.changes[row] = is
                            /\ basis[row] # rows[row] => row \in DOMAIN report.changes

\* A report that captured parents names the posts whose comments changed, before
\* and after, or their type, or the comments' type; but for a post an earlier flush
\* of the transaction found missing, which is not looked for again.
ReportNamesCollections ==
    phase = "open" /\ flushing = -1 /\ mode = "rows" =>
        \A wanted \in {w \in Wanted : "Comment" \in w}, limit \in Limits :
            \A report \in Reports(wanted, limit, FALSE, rows) :
                \A p \in Post :
                    \/ CommentsOf(basis, p) = CommentsOf(rows, p)
                    \/ rows[<<"Post", p>>] = Absent \/ StateOf(p) = "gone"
                    \/ "Comment" \in report.invalidated
                    \/ p \in report.collections

\* What a commit would publish now says of each row its net change, unless it names
\* its type, and nothing of rows whose writes were rolled back.
PublishedIsNet ==
    phase = "open" =>
        LET messages == Encoded(MaxMessages)
            upserted == Sent(messages, "u")
            deleted == Sent(messages, "d")
            all == SentTypes(messages)
        IN  \A row \in FeedRow :
                LET is == Difference(store[row], rows[row])
                IN  row[1] \notin all =>
                        /\ row \in upserted => rows[row] # Absent
                        /\ row \in deleted => is = "deleted"
                        /\ store[row] # rows[row] => row \in IF is = "deleted" THEN deleted ELSE upserted

\* Whatever a listener still caches and a committed transaction changed, it is yet
\* to be told: by a message it has not read, or by the gap counter.
StaleIsAnnounced ==
    \A key \in Key :
        cached[key] \notin {Nothing, Content(store, key)} =>
            \/ \E i \in 1..Len(notes) : Evicts(notes[i], key)
            \/ gaps # seenGaps
            \/ phase = "visible" /\ gap
=============================================================================
