------------------------------ MODULE StatsTable ------------------------------
(***************************************************************************)
(* The cluster's table of per-TVIEW statistics, in shared memory           *)
(* (src/stats.rs): which slot counts for which TVIEW. Open addressing with *)
(* linear probing, where freeing a slot moves back those that probed past  *)
(* it. Every operation runs under one lock; the counters themselves are    *)
(* left out.                                                               *)
(***************************************************************************)
EXTENDS Integers, FiniteSets, SequencesExt

CONSTANTS
    Key,       \* the TVIEWs of the cluster, by database and table
    Database(_),
    Capacity,  \* slots (CAPACITY)
    MaxAdds,   \* bound: TVIEWs a transaction counts for
    FREE

VARIABLES
    slots, overflowed,  \* Table
    home                \* Table::home: where a key's probe starts

Index == 0..(Capacity - 1)
After(i) == (i + 1) % Capacity

-----------------------------------------------------------------------------
(* Table. *)

\* Where k's probe stops: its slot or the first free one; -1 if it goes round.
Probe(t, k) ==
    LET at(n) == (home[k] + n) % Capacity
        stops == {n \in Index : t[at(n)] \in {FREE, k}}
    IN IF stops = {} THEN -1 ELSE at(CHOOSE n \in stops : \A o \in stops : n <= o)

\* find
Find(t, k) == LET i == Probe(t, k) IN IF i # -1 /\ t[i] = k THEN i ELSE -1

\* find_or_take, of the keys one after the other.
FindOrTake(t, k) == LET i == Probe(t, k) IN IF i = -1 THEN t ELSE [t EXCEPT ![i] = k]
TakeEach(t, keys) == FoldLeft(FindOrTake, t, keys)
Untracked(t, keys) == \E n \in DOMAIN keys : Find(t, keys[n]) = -1

\* Broken variant: slot j stays when its home comes before i.
StaysBefore(i, j, h) == IF i <= j THEN h <= j ELSE h <= j \/ i < h
\* Slot j stays, when slot i is freed, unless its home lies outside (i, j].
Stays(i, j, h) == IF i <= j THEN i < h /\ h <= j ELSE i < h \/ h <= j

\* free
RECURSIVE MovedBack(_, _, _)
MovedBack(t, i, j) ==
    LET next == After(j)
    IN IF t[next] = FREE THEN t
       ELSE IF Stays(i, next, home[t[next]]) THEN MovedBack(t, i, next)
       ELSE MovedBack([t EXCEPT ![i] = t[next], ![next] = FREE], next, next)
Free(t, i) == MovedBack([t EXCEPT ![i] = FREE], i, i)

\* The slots of a database, freed from the lowest each time (reset).
RECURSIVE FreeAll(_, _)
FreeAll(t, d) ==
    LET mine == {i \in Index : t[i] # FREE /\ Database(t[i]) = d}
    IN IF mine = {} THEN t ELSE FreeAll(Free(t, CHOOSE i \in mine : \A o \in mine : i <= o), d)

-----------------------------------------------------------------------------
Init ==
    /\ slots = [i \in Index |-> FREE] /\ overflowed = FALSE
    /\ home \in [Key -> Index]

Take(start, before, keys) ==
    /\ slots' = TakeEach(start, keys)
    /\ overflowed' = (before \/ Untracked(slots', keys))
    /\ UNCHANGED home

\* add, then merge: what a transaction counted for, at COMMIT and ROLLBACK.
Merge ==
    \E keys \in UNION {[1..n -> Key] : n \in 1..MaxAdds} :
        /\ \A m, n \in DOMAIN keys : Database(keys[m]) = Database(keys[n]) /\ (m # n => keys[m] # keys[n])
        /\ Take(slots, overflowed, keys)

\* reset of one TVIEW.
Reset(k) == Take(slots, overflowed, <<k>>)

\* reset of a database, whose TVIEWs are then `tables`.
ResetAll(d) ==
    \E tables \in SUBSET {k \in Key : Database(k) = d} :
        Take(FreeAll(slots, d), FALSE, SetToSeq(tables))

\* forget: a TVIEW's table is dropped.
Forget(k) ==
    LET i == Find(slots, k)
    IN i # -1 /\ slots' = Free(slots, i) /\ overflowed' = FALSE /\ UNCHANGED home

\* startup_shmem, once for a server.
Restart == slots' = [i \in Index |-> FREE] /\ overflowed' = FALSE /\ UNCHANGED home

StatsNext ==
    \/ Merge
    \/ \E k \in Key : Reset(k) \/ Forget(k)
    \/ \E d \in {Database(k) : k \in Key} : ResetAll(d)
    \/ Restart

-----------------------------------------------------------------------------
(* Every TVIEW with a slot is found there, whatever was freed before it: a  *)
(* lost one would be counted in a second slot (Table::find, free).          *)
TrackedIsFound == \A i \in Index : slots[i] = FREE \/ Find(slots, slots[i]) = i
=============================================================================
