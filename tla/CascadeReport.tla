----------------------------- MODULE CascadeReport -----------------------------
(***************************************************************************)
(* pg_tviews_flush_and_report (report.rs): the unreported journal, one net *)
(* change per row, cut at max_entities, with the posts whose comments      *)
(* changed as the change feed names them.                                  *)
(***************************************************************************)
EXTENDS AffectedJournal, PublishedSet

CONSTANTS
    Absent,   \* no row
    Wanted,   \* what callers ask for: sets of types
    Limits    \* and max_entities

\* The net changes a report lists, but for max_entities: of types asked for, and
\* without the data, of types journaled whole.
Candidates(wanted, data) ==
    {row \in Row : /\ NetChange(Unreported, row) # "none"
                   /\ row[1] \in wanted
                   /\ data \/ row[1] \notin overflow}

\* The parents the unreported writes named.
NamedParents ==
    {p.key : p \in UNION {Range(Unreported[i].parents) :
                            i \in {n \in 1..Len(Unreported) : Unreported[n].row[1] = "Comment"}}}

\* listed: the member of a parent, once resolved.
StateOf(key) ==
    IF "Comment" \in types \/ ~Seen(Set, key) THEN "key"
    ELSE (CHOOSE m \in Range(members) : m.key = key).parent

Collections(wanted, invalidated) ==
    LET asked == IF "Comment" \in wanted THEN NamedParents ELSE {}
        all == invalidated \cup {"Comment" : key \in {k \in asked : StateOf(k) = "key"}}
    IN  [listed |-> IF "Comment" \in all THEN {} ELSE {key \in asked : StateOf(key) = "id"},
         invalidated |-> all]

\* The reports that can be built: which rows come first, in name order, is left open.
Reports(wanted, limit, data, rows) ==
    LET candidates == Candidates(wanted, data)
        size == Cardinality(candidates)
        touched == {row[1] : row \in {r \in Row : NetChange(Unreported, r) # "none"}} \cup overflow
        report(listed) ==
            LET invalidated == {row[1] : row \in candidates \ listed} \cup (overflow \cap wanted)
                \* Parents are reported when every write captured them.
                collections == IF mode = "rows" THEN Collections(wanted, invalidated)
                               ELSE [listed |-> {}, invalidated |-> invalidated]
                there == {row \in listed : data /\ rows[row] = Absent
                                             => NetChange(Unreported, row) = "deleted"}
            IN  [changes |-> [row \in there |-> NetChange(Unreported, row)],
                 collections |-> collections.listed,
                 invalidated |-> collections.invalidated,
                 omitted |-> touched \ wanted]
    IN  {report(listed) : listed \in kSubset(IF limit < size THEN limit ELSE size, candidates)}
=============================================================================
