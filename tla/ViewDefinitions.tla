-------------------------- MODULE ViewDefinitions --------------------------
(* The definition of a TVIEW as PostgreSQL's query tree holds it, and what *)
(* it returns.  A database maps each table to its rows; a level is a       *)
(* SELECT or a UNION of SELECTs.  Every relation has the columns k, f and  *)
(* d: k identifies the rows of a table, d holds what is only shown.  A row *)
(* is its values `v` and the source `s` it was computed from.              *)
EXTENDS Naturals, Sequences, FiniteSets, TLC

Null == 0
Columns == {"k", "f", "d"}
NoData == <<>>

(* Expressions. *)
Var(up, rte, col) == [kind |-> "var", up |-> up, rte |-> rte, col |-> col]
Own(rte, col) == Var(0, rte, col)
Aggregate(arg) == [kind |-> "aggregate", arg |-> arg]
Maximum(arg) == [kind |-> "maximum", arg |-> arg]
Scalar(level) == [kind |-> "scalar", level |-> level]
Rank == [kind |-> "rank"]
Nothing == [kind |-> "nothing"]

(* Conditions: an OR of comparisons, an EXISTS or an IN. *)
Cmp(l, op, r) == [kind |-> "cmp", any |-> <<<<l, op, r>>>>]
Equal(l, r) == Cmp(l, "=", r)
Or(p, q) == [kind |-> "cmp", any |-> p.any \o q.any]
Exists(positive, level) == [kind |-> "exists", positive |-> positive, level |-> level]
In(positive, l, level) == [kind |-> "in", positive |-> positive, l |-> l, level |-> level]

(* Range table entries and join trees. *)
Table(name) == [kind |-> "table", name |-> name]
Sub(level) == [kind |-> "sub", level |-> level]
Tview(entity, level) == [kind |-> "tview", entity |-> entity, level |-> level]
Ref(i) == [kind |-> "ref", rte |-> i]
Join(type, l, r, quals) == [kind |-> "join", type |-> type, l |-> l, r |-> r, quals |-> quals]
Cross(l, r) == Join("inner", l, r, <<>>)

Select(rtes, join, where, k, f, d) ==
  [kind |-> "select", rtes |-> rtes, join |-> join, where |-> where,
   out |-> [c \in Columns |-> CASE c = "k" -> k [] c = "f" -> f [] c = "d" -> d],
   group |-> {}, distinct |-> {}, order |-> <<"f", "k">>, windows |-> {}, limit |-> 0]
Union(all, leaves) == [kind |-> "union", all |-> all, leaves |-> leaves]

-----------------------------------------------------------------------------
(* What a definition returns. *)
Bag(values) == [x \in {y[2] : y \in values} |-> Cardinality({y \in values : y[2] = x})]

Compares(l, op, r) ==
  CASE op = "=" -> l # Null /\ r # Null /\ l = r
    [] op = "<" -> l # Null /\ r # Null /\ l < r
    [] op = "is null" -> l = Null

RECURSIVE RefsOf(_)
RefsOf(node) == IF node.kind = "ref" THEN {node.rte} ELSE RefsOf(node.l) \cup RefsOf(node.r)

Absent == [v |-> [k |-> Null, f |-> Null, d |-> NoData], s |-> <<"none", 0>>]

\* An output made of the other rows of its level makes the level grouped.
IsAggregate(e) == e.kind \in {"aggregate", "maximum"}

RECURSIVE Rows(_, _, _), Joined(_, _, _, _), Holds(_, _, _), Value(_, _, _)

\* `env` holds the row of each range table entry, of this level and of those
\* above it.
Joined(node, rows, outer, db) ==
  IF node.kind = "ref" THEN {(node.rte :> r) : r \in rows[node.rte]}
  ELSE LET left == Joined(node.l, rows, outer, db)
           right == Joined(node.r, rows, outer, db)
           Pairs(x) == {x @@ y : y \in {y \in right :
             \A q \in DOMAIN node.quals : Holds(node.quals[q], <<x @@ y>> \o outer, db)}}
       IN UNION {IF node.type = "left" /\ Pairs(x) = {}
                   THEN {x @@ [i \in RefsOf(node.r) |-> Absent]} ELSE Pairs(x) : x \in left}

Holds(p, env, db) ==
  CASE p.kind = "cmp" ->
         \E i \in DOMAIN p.any :
           Compares(Value(p.any[i][1], env, db), p.any[i][2], Value(p.any[i][3], env, db))
    [] p.kind = "exists" -> (Rows(p.level, env, db) # {}) = p.positive
    [] p.kind = "in" ->
         LET x == Value(p.l, env, db)
             ys == {r.v["k"] : r \in Rows(p.level, env, db)}
         IN IF p.positive THEN x # Null /\ x \in ys
            ELSE ys = {} \/ (x # Null /\ ys \cap {x, Null} = {})

Value(e, env, db) ==
  CASE e.kind = "var" -> env[e.up + 1][e.rte].v[e.col]
    [] e.kind = "scalar" -> Bag({<<r.s, r.v["f"]>> : r \in Rows(e.level, env, db)})
    [] OTHER -> Null

\* One output row of a group of joined rows.
OutputRow(level, group, outer, db) ==
  LET Source(x) == <<"row", [i \in DOMAIN level.rtes |-> x[i].s]>>
      env == <<CHOOSE x \in group : TRUE>> \o outer
      Of(e) == {<<Source(x), Value(e.arg, <<x>> \o outer, db)>> : x \in group}
      Out(e) ==
        CASE e.kind = "aggregate" -> Bag({y \in Of(e) : y[2] # Null})
          [] e.kind = "maximum" -> LET ys == {y[2] : y \in Of(e)} IN CHOOSE m \in ys : \A y \in ys : y <= m
          [] OTHER -> Value(e, env, db)
  IN [v |-> [c \in Columns |-> Out(level.out[c])], s |-> <<"group", {Source(x) : x \in group}>>]

\* DISTINCT ON and LIMIT keep first rows in the ORDER BY; a rank counts them.
Before(level, x, y) ==
  LET a == level.order[1]
      b == level.order[2]
  IN x.v[a] < y.v[a] \/ (x.v[a] = y.v[a] /\ x.v[b] < y.v[b])
Peers(rows, cols, r) == {x \in rows : \A c \in cols : x.v[c] = r.v[c]}
Ranked(level, rows) ==
  LET parts == CHOOSE p \in level.windows : TRUE
      At(r) == Cardinality({x \in Peers(rows, parts, r) : Before(level, x, r)}) + 1
  IN IF level.windows = {} THEN rows
     ELSE {[r EXCEPT !.v = [c \in Columns |-> IF level.out[c] = Rank THEN At(r) ELSE @[c]]] : r \in rows}
Firsts(level, rows) ==
  {r \in rows :
    /\ level.distinct = {} \/ \A x \in Peers(rows, level.distinct, r) : ~Before(level, x, r)
    /\ level.limit = 0 \/ Cardinality({x \in rows : Before(level, x, r)}) < level.limit}

Rows(level, outer, db) ==
  IF level.kind = "union"
  THEN LET all == UNION {{[r EXCEPT !.s = <<"leaf", i, @>>] : r \in Rows(level.leaves[i], outer, db)} :
                          i \in DOMAIN level.leaves}
       IN IF level.all THEN all
          ELSE {[v |-> x, s |-> <<"same", {r.s : r \in {r \in all : r.v = x}}>>] : x \in {r.v : r \in all}}
  ELSE LET entry(i) == LET rte == level.rtes[i]
                       IN IF rte.kind = "table"
                          THEN {[v |-> [k |-> id, f |-> db[rte.name][id], d |-> NoData],
                                 s |-> <<rte.name, id>>] : id \in DOMAIN db[rte.name]}
                          ELSE Rows(rte.level, outer, db)
           all == Joined(level.join, [i \in DOMAIN level.rtes |-> entry(i)], outer, db)
           kept == {x \in all : \A q \in DOMAIN level.where : Holds(level.where[q], <<x>> \o outer, db)}
           Key(x) == [c \in level.group |-> Value(level.out[c], <<x>> \o outer, db)]
           grouped == level.group # {} \/ \E c \in Columns : IsAggregate(level.out[c])
           groups == IF grouped THEN {{x \in kept : Key(x) = y} : y \in {Key(x) : x \in kept}}
                     ELSE {{x} : x \in kept}
       IN Firsts(level, Ranked(level, {OutputRow(level, g, outer, db) : g \in groups}))
=============================================================================
