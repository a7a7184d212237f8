---------------------------- MODULE MCValueLocks ----------------------------
(* Two interchangeable sessions on one relation: two lock values, the       *)
(* relation itself past one of them, savepoints one deep.                    *)
EXTENDS ValueLocks, TLC

Sessions == Permutations(Session)

\* Bound: one of the two changes links, which no other session looks at.
OneLinks == \E s \in Session : ~links[s]
=============================================================================
