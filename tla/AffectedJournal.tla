---------------------------- MODULE AffectedJournal ----------------------------
(***************************************************************************)
(* The journal of the TVIEW rows a transaction's refreshes changed, which  *)
(* pg_tviews_flush_and_report reads (queue/affected.rs): entries in write  *)
(* order, positions counted from the start of the transaction, a report    *)
(* that hides what it reported, savepoints that undo writes and reports.   *)
(***************************************************************************)
EXTENDS RowChanges

CONSTANTS
    Row,           \* TVIEW rows, each <<type, key>>
    ParentRef,     \* the parents a write can name
    MaxTracked     \* pg_tviews.report_max_tracked

VARIABLES
    journal,       \* the entries kept, each [row, change, parents]
    base,          \* entries dropped before the first one
    reported,      \* the position of the first entry not yet reported
    overflow,      \* types with changes that were not journaled
    marks          \* where each open subtransaction started

jvars == <<journal, base, reported, overflow, marks>>

Type == {r[1] : r \in Row}

Entry == [row : Row, change : Change, parents : Seq(ParentRef)]

Mark == [position : Nat, reported : Nat, overflow : SUBSET Type]

JournalInit ==
    /\ journal = <<>>
    /\ base = 0
    /\ reported = 0
    /\ overflow = {}
    /\ marks = <<>>

Position == base + Len(journal)

\* The entries a report reads.
Unreported == SubSeq(journal, reported - base + 1, Len(journal))

BelowCap == Position - reported < MaxTracked

Record(row, change, parents) ==
    /\ IF BelowCap
       THEN /\ journal' = Append(journal, [row |-> row, change |-> change, parents |-> parents])
            /\ UNCHANGED overflow
       ELSE /\ overflow' = overflow \cup {row[1]}
            /\ UNCHANGED journal
    /\ UNCHANGED <<base, reported, marks>>

\* A TVIEW rebuilt whole: its type by name.
RecordRebuilt(type) ==
    /\ overflow' = overflow \cup {type}
    /\ UNCHANGED <<journal, base, reported, marks>>

\* compact: the reported entries go, unless a subtransaction could undo the
\* reset that reported them.
Compacted(entries, from, open) ==
    IF open = 0
    THEN /\ journal' = SubSeq(entries, from - base + 1, Len(entries))
         /\ base' = from
    ELSE /\ journal' = entries
         /\ UNCHANGED base

JournalMark ==
    /\ marks' = Append(marks, [position |-> Position, reported |-> reported, overflow |-> overflow])
    /\ UNCHANGED <<journal, base, reported, overflow>>

JournalRelease ==
    /\ marks # <<>>
    /\ marks' = Front(marks)
    /\ Compacted(journal, reported, Len(marks) - 1)
    /\ UNCHANGED <<reported, overflow>>

\* Broken variant: a report undone by a savepoint has overflowed nothing.
JournalRollbackKeeping ==
    /\ marks # <<>>
    /\ LET mark == Last(marks) IN
        /\ marks' = Front(marks)
        /\ reported' = mark.reported
        /\ UNCHANGED overflow
        /\ Compacted(SubSeq(journal, 1, mark.position - base), mark.reported, Len(marks) - 1)

\* The overflow of rolled-back writes stays, and that of undone reports returns.
JournalRollback ==
    /\ marks # <<>>
    /\ LET mark == Last(marks) IN
        /\ marks' = Front(marks)
        /\ reported' = mark.reported
        /\ overflow' = overflow \cup mark.overflow
        /\ Compacted(SubSeq(journal, 1, mark.position - base), mark.reported, Len(marks) - 1)

\* A report with reset; without, it changes nothing.
JournalReset ==
    /\ reported' = Position
    /\ overflow' = {}
    /\ Compacted(journal, Position, Len(marks))
    /\ UNCHANGED marks

JournalClear ==
    /\ journal' = <<>>
    /\ base' = 0
    /\ reported' = 0
    /\ overflow' = {}
    /\ marks' = <<>>

-----------------------------------------------------------------------------
\* The marks of the open subtransactions, and the reset, are positions of the
\* entries kept, in order: what a rollback or a report cuts is always there.
JournalInOrder ==
    /\ journal \in Seq(Entry)
    /\ base \in Nat /\ reported \in Nat
    /\ overflow \in SUBSET Type
    /\ marks \in Seq(Mark)
    /\ base <= reported /\ reported <= Position
    /\ \A i \in 1..Len(marks) :
        /\ base <= marks[i].reported /\ marks[i].reported <= marks[i].position
        /\ marks[i].position <= Position
        /\ marks[i].reported <= reported
        /\ i < Len(marks) => /\ marks[i].position <= marks[i + 1].position
                             /\ marks[i].reported <= marks[i + 1].reported

=============================================================================
