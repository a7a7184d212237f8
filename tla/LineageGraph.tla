---------------------------- MODULE LineageGraph ---------------------------
(* What the graph of a definition says of a write (lineage/graph.rs): the  *)
(* kind of each table, the keys a statement's rows map to, and the values  *)
(* a refresh of a key reads a table by.                                    *)
EXTENDS LineageWalk
LOCAL INSTANCE SequencesExt

\* Two reads can meet unless they sit in different branches of one UNION.
Compatible(a, b) ==
  \A i \in DOMAIN a, j \in DOMAIN b : a[i][1] = b[j][1] => a[i][2] = b[j][2]

RootsOf(g, occ) == SelectSeq(g.roots, LAMBDA r : Compatible(g.occs[occ].unions, r.scope))
ReachesHole(g, occ) == \E h \in g.holes : Compatible(g.occs[occ].unions, h)

OtherEnd(c, occ) == IF c.a = occ THEN c.b ELSE c.a
RECURSIVE EndOf(_, _, _)
EndOf(g, occ, path) ==
  IF path = <<>> THEN occ ELSE EndOf(g, OtherEnd(g.conjuncts[path[1]], occ), Tail(path))
\* root_at
RootAt(g, occ, path) == SelectSeq(RootsOf(g, occ), LAMBDA r : r.key[1] = EndOf(g, occ, path))[1]

\* Equalities first.
StepOrder(g) ==
  LET all == [i \in DOMAIN g.conjuncts |-> i]
  IN SelectSeq(all, LAMBDA i : g.conjuncts[i].equality # <<>>)
       \o SelectSeq(all, LAMBDA i : g.conjuncts[i].equality = <<>>)

\* How condition i leads on from an occurrence: <<>>, or the state it reaches.
StepFrom(g, i, at, pending) ==
  LET c == g.conjuncts[i]
      State(occ, maps) == <<[at |-> occ, pending |-> maps = "if matched"]>>
  IN IF pending /\ c.equality = <<>> THEN <<>>
     ELSE IF c.a = at /\ c.ab # "no" THEN State(c.b, c.ab)
     ELSE IF c.b = at /\ c.ba # "no" THEN State(c.a, c.ba)
     ELSE <<>>

\* path: the shortest chain of conditions, breadth first; <<>> or <<chain>>.
RECURSIVE Search(_, _, _, _, _)
Search(g, from, to, queue, seen) ==
  IF queue = <<>> THEN <<>>
  ELSE LET head == queue[1]
           Extend(x, i) ==
             LET step == StepFrom(g, i, head.state.at, head.state.pending)
             IN IF step = <<>> THEN x
                ELSE IF step[1].at = from \/ step[1] \in x.seen THEN x
                ELSE [queue |-> Append(x.queue, [state |-> step[1], path |-> Append(head.path, i)]),
                      seen |-> x.seen \cup {step[1]}]
           next == FoldLeft(Extend, [queue |-> Tail(queue), seen |-> seen], StepOrder(g))
       IN IF head.state.at = to THEN <<head.path>>
          ELSE Search(g, from, to, next.queue, next.seen)
Path(g, from, to) ==
  Search(g, from, to, <<[state |-> [at |-> from, pending |-> FALSE], path |-> <<>>]>>, {})

\* The other column of a path's last equality when it copies the root's key.
Copied(g, occ, path) ==
  LET root == RootAt(g, occ, path)
      sides == g.conjuncts[Last(path)].equality
  IN IF path = <<>> THEN <<>>
     ELSE IF sides = <<>> THEN <<>>
     ELSE IF sides[2] = root.key THEN sides[1]
     ELSE IF sides[1] = root.key THEN sides[2]
     ELSE <<>>

AllKeys == [kind |-> "all_keys", paths |-> <<>>, column |-> "none", entity |-> "none"]
Local(column, path) == [AllKeys EXCEPT !.kind = "local", !.column = column, !.paths = <<path>>]
Mapped(paths) == [AllKeys EXCEPT !.kind = "mapped", !.paths = paths]
Propagated(entity) == [AllKeys EXCEPT !.kind = "propagated", !.entity = entity]

\* classify_read; covered has the <<entity, table>> for which `propagates` holds.
Classify(g, occ, covered) ==
  LET o == g.occs[occ]
      roots == RootsOf(g, occ)
      paths == [i \in DOMAIN roots |->
                  IF roots[i].key[1] = occ THEN <<<<>>>> ELSE Path(g, occ, roots[i].key[1])]
      path == paths[1][1]
      own == Copied(g, occ, path)
  IN CASE roots = <<>> \/ ReachesHole(g, occ) -> AllKeys
       [] Len(roots) = 1 /\ roots[1].key[1] = occ -> Local(roots[1].key[2], <<>>)
       [] <<o.via, o.table>> \in covered -> Propagated(o.via)
       [] \E i \in DOMAIN paths : paths[i] = <<>> -> AllKeys
       [] Len(roots) = 1 /\ Len(path) = 1 /\ own # <<>> -> Local(own[2], path)
       [] OTHER -> Mapped([i \in DOMAIN paths |-> paths[i][1]])

\* tables: the kind of a table, from those of its occurrences.
OccurrencesOf(g, t) == SelectSeq([i \in DOMAIN g.occs |-> i], LAMBDA i : g.occs[i].table = t)
TableKind(g, t, covered) ==
  LET occs == OccurrencesOf(g, t)
      kind == [o \in Range(occs) |-> Classify(g, o, covered)]
      direct == SelectSeq(occs, LAMBDA o : kind[o].kind # "propagated")
      traced == FlattenSeq([i \in DOMAIN direct |->
                  [j \in DOMAIN kind[direct[i]].paths |-> [occ |-> direct[i], path |-> kind[direct[i]].paths[j]]]])
      columns == {kind[o].column : o \in Range(direct)}
  IN CASE \E o \in Range(occs) : kind[o].kind = "all_keys" -> AllKeys
       [] direct = <<>> -> Propagated(kind[occs[1]].entity)
       [] Cardinality(columns) = 1 /\ "none" \notin columns ->
            [AllKeys EXCEPT !.kind = "local", !.column = kind[direct[1]].column]
       [] OTHER -> Mapped(traced)

-----------------------------------------------------------------------------
(* The queries the graph writes.  A chain joins only neighbours, so it is  *)
(* followed one occurrence at a time.                                      *)

ReadBy(at, x, y, operand) ==
  IF operand.kind = "opaque" THEN Null
  ELSE IF operand.at[1] = at THEN x[operand.at[2]] ELSE y[operand.at[2]]
Links(c, at, x, y) ==
  \E i \in DOMAIN c.cond :
    Compares(ReadBy(at, x, y, c.cond[i][1]), c.cond[i][2], ReadBy(at, x, y, c.cond[i][3]))

TableRows(db, t) == {[k |-> id, f |-> db[t][id]] : id \in DOMAIN db[t]}

\* The rows of the next occurrence that a row of `rows` meets.
Follow(g, i, at, rows, db) ==
  LET c == g.conjuncts[i]
  IN {y \in TableRows(db, g.occs[OtherEnd(c, at)].table) : \E x \in rows : Links(c, at, x, y)}

RECURSIVE FollowAll(_, _, _, _, _)
FollowAll(g, at, rows, path, db) ==
  IF path = <<>> THEN rows
  ELSE FollowAll(g, OtherEnd(g.conjuncts[path[1]], at), Follow(g, path[1], at, rows, db), Tail(path), db)

\* path_sql: the root is left out when the last condition copies its key.
PathKeys(g, occ, path, delta, db) ==
  LET copied == Copied(g, occ, path)
      reached == FollowAll(g, occ, delta, IF copied = <<>> THEN path ELSE Front(path), db)
      column == IF copied = <<>> THEN RootAt(g, occ, path).key[2] ELSE copied[2]
  IN {y[column] : y \in reached} \ {Null}

\* mapping_sql
MappingKeys(g, paths, delta, db) ==
  UNION {PathKeys(g, paths[i].occ, paths[i].path, delta, db) : i \in DOMAIN paths}

\* read_set_sql: the column a path's first step compares, and the values rows
\* of key `key` compare it with, followed back from the root; "table" when the
\* first step is no equality.
ReadSet(g, occ, path, key, db) ==
  LET sides == g.conjuncts[path[1]].equality
      own == IF sides[1][1] = occ THEN sides[1] ELSE sides[2]
      other == IF sides[1][1] = occ THEN sides[2] ELSE sides[1]
      root == RootAt(g, occ, path).key
      start == {y \in TableRows(db, g.occs[root[1]].table) : y[root[2]] = key}
      back == FollowAll(g, root[1], start, Reverse(Tail(path)), db)
  IN IF sides = <<>> THEN [column |-> "table", values |-> {}]
     ELSE [column |-> own[2], values |-> {y[other[2]] : y \in back} \ {Null}]

\* Mutant: the read set of the first path only.
ReadSetsOfFirst(g, paths, key, db) ==
  IF paths[1].path = <<>> THEN {} ELSE {ReadSet(g, paths[1].occ, paths[1].path, key, db)}
\* read_sets: none for the root itself.
ReadSets(g, paths, key, db) ==
  {ReadSet(g, paths[i].occ, paths[i].path, key, db) : i \in {i \in DOMAIN paths : paths[i].path # <<>>}}

\* embed_lookups: the output columns equal to the key of an embedded TVIEW.
OutputEqualTo(g, at) ==
  {c \in {"k", "f"} : g.outs[c].kind = "col" /\
     (\/ g.outs[c].at = at
      \/ \E i \in DOMAIN g.conjuncts : Range(g.conjuncts[i].equality) = {g.outs[c].at, at})}
\* The first such output.
Lookups(g, entity) ==
  UNION {LET outs == OutputEqualTo(g, key[2])
         IN IF "k" \in outs THEN {"k"} ELSE outs : key \in {key \in g.keys : key[1] = entity}}
=============================================================================
