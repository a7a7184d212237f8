---------------------------- MODULE LineageWalk ----------------------------
(* The walk of a definition into a graph (lineage/walk): the occurrences   *)
(* of the tables it reads, the conditions linking them with the directions *)
(* in which each must hold, the roots that carry the TVIEW's key, the      *)
(* branches where nothing does, and the columns that link its rows.        *)
EXTENDS ViewDefinitions
LOCAL INSTANCE SequencesExt

(* What a column stands for; a column is <<occurrence, name>>. *)
Col(at) == [kind |-> "col", at |-> at]
Inbound(at) == [kind |-> "inbound", at |-> at]
Alt(terms, holes) == [kind |-> "alt", terms |-> terms, holes |-> holes]
Opaque == [kind |-> "opaque"]

RECURSIVE Occs(_)
Occs(term) ==
  CASE term.kind = "alt" -> UNION {Occs(term.terms[i]) : i \in DOMAIN term.terms}
    [] term.kind = "opaque" -> {}
    [] OTHER -> {term.at[1]}

Candidates(term) == IF term.kind = "alt" THEN term.terms ELSE <<term>>

NewWalk == [occs |-> <<>>, conjuncts |-> <<>>, roots |-> <<>>, holes |-> {}, links |-> {},
            linksUnknown |-> FALSE, keys |-> {}, nullable |-> {}, unions |-> 0, levels |-> <<>>]

NoFlags == [unions |-> <<>>, via |-> "none"]

Push(w, link) == [w EXCEPT !.levels = Append(@, [rtes |-> <<>>, link |-> link])]
Pop(w) == [w EXCEPT !.levels = Front(@)]
AddRte(w, outs) == [w EXCEPT !.levels[Len(w.levels)].rtes = Append(@, outs)]

\* Anything but a column is opaque.
Resolve(w, e) ==
  IF e.kind = "var" THEN w.levels[Len(w.levels) - e.up].rtes[e.rte][e.col] ELSE Opaque

\* The occurrences under a FROM item.
Under(w, node) ==
  UNION {LET outs == Last(w.levels).rtes[i] IN UNION {Occs(outs[c]) : c \in DOMAIN outs} :
           i \in RefsOf(node)}

-----------------------------------------------------------------------------
(* Links. *)
RECURSIVE AddLinks(_, _)
AddLinks(w, term) ==
  CASE term.kind = "opaque" -> [w EXCEPT !.linksUnknown = TRUE]
    [] term.kind = "alt" ->
         FoldLeft(AddLinks, [w EXCEPT !.linksUnknown = @ \/ term.holes # {}], term.terms)
    [] OTHER -> [w EXCEPT !.links = @ \cup {term.at}]

RECURSIVE JoinQuals(_)
JoinQuals(node) == IF node.kind = "ref" THEN <<>> ELSE JoinQuals(node.l) \o JoinQuals(node.r) \o node.quals

Operands(p) == FlattenSeq([i \in DOMAIN p.any |-> <<p.any[i][1], p.any[i][3]>>])

\* The expressions of a condition at its own level.
Compared(p) ==
  CASE p.kind = "cmp" -> SelectSeq(Operands(p), LAMBDA e : e.kind # "nothing")
    [] p.kind = "in" -> <<p.l>>
    [] OTHER -> <<>>

\* link_nodes: where the rows a level returns are decided.
LinkNodes(level, byIdentity) ==
  LET quals == JoinQuals(level.join) \o level.where
      Outs(cols) == [i \in DOMAIN SetToSeq(cols) |-> level.out[SetToSeq(cols)[i]]]
      ordered == level.distinct # {} \/ level.windows # {} \/ level.limit # 0
  IN FlattenSeq([i \in DOMAIN quals |-> Compared(quals[i])])
       \o Outs(level.distinct \cup UNION level.windows)
       \o (IF ordered THEN Outs({c \in {level.order[1], level.order[2]} : level.out[c] # Rank}) ELSE <<>>)
       \o (IF byIdentity THEN <<>> ELSE Outs(level.group))

NoteLinks(w, level, byIdentity) ==
  FoldLeft(LAMBDA x, e : AddLinks(x, Resolve(x, e)), w, LinkNodes(level, byIdentity))

-----------------------------------------------------------------------------
(* Conditions.  A site is an operand: the level it reads and the terms it  *)
(* can stand for; Below is the level of a subquery expression's output.    *)
Below == 99
Site(w, e) ==
  [up |-> IF e.kind = "var" THEN e.up ELSE 0, column |-> e.kind = "var",
   terms |-> IF e.kind = "var" THEN Candidates(Resolve(w, e)) ELSE <<Opaque>>]
SitesOf(w, p) == [i \in DOMAIN Operands(p) |-> Site(w, Operands(p)[i])]
Resolved(sites) ==
  \A i \in DOMAIN sites : sites[i].column => \A j \in DOMAIN sites[i].terms : sites[i].terms[j] # Opaque

\* null_safe: an OR, and IS NULL, are not strict.
Strict(p) == Len(p.any) = 1 /\ p.any[1][2] # "is null"
\* Mutant: no condition is tested on the NULLs of an unmatched row.
NullSafeAlways(w, p, sites) == TRUE
NullSafe(w, p, sites) ==
  \/ Strict(p)
  \/ \A i \in DOMAIN sites : \A j \in DOMAIN sites[i].terms : Occs(sites[i].terms[j]) \cap w.nullable = {}

\* levels_required
LevelsRequired(w, outer) ==
  \A up \in 0..(outer - 1) : w.levels[Len(w.levels) - up].link = "required"

Required == [outer |-> FALSE, nullable |-> {}]
OuterJoin(nullable) == [outer |-> TRUE, nullable |-> nullable]

\* The level of an occurrence relative to the condition's: 0 here, n above, -1 below.
Depth(sites, chosen, occ) ==
  LET ups == {sites[i].up : i \in {i \in DOMAIN sites : occ \in Occs(chosen[i])}} \ {Below}
  IN IF ups = {} THEN -1 ELSE CHOOSE u \in ups : \A v \in ups : u <= v

\* directions: whether the condition maps rows of `from` to rows of `to`.
Maps(w, sites, chosen, from, to, origin, outerToInner) ==
  LET df == Depth(sites, chosen, from)
      dt == Depth(sites, chosen, to)
      holds == df <= dt \/ (outerToInner /\ LevelsRequired(w, df))
  IN CASE ~holds -> "no"
       [] \E i \in DOMAIN chosen : chosen[i].kind = "inbound" /\ chosen[i].at[1] = from -> "no"
       [] origin.outer /\ from \notin origin.nullable ->
            IF to \in origin.nullable THEN "if matched" ELSE "no"
       [] OTHER -> "yes"

\* One choice of a term for each operand, the first varying fastest.
Combinations(sites) ==
  FoldRight(LAMBDA site, rest :
              FlattenSeq([i \in DOMAIN rest |-> [j \in DOMAIN site.terms |-> <<site.terms[j]>> \o rest[i]]]),
            sites, <<<<>>>>)

IsEquality(p, chosen) ==
  /\ Len(p.any) = 1 /\ p.any[1][2] = "="
  /\ \A i \in DOMAIN chosen : chosen[i].kind = "col"

\* The condition written over the chosen columns.
Written(p, chosen) ==
  [i \in DOMAIN p.any |-> <<chosen[2 * i - 1], p.any[i][2], chosen[2 * i]>>]

AddConjunct(w, p, sites, chosen, origin, outerToInner) ==
  LET occs == UNION {Occs(chosen[i]) : i \in DOMAIN chosen}
      a == CHOOSE x \in occs : \A y \in occs : x <= y
      b == CHOOSE x \in occs : x # a
      equality == IsEquality(p, chosen)
      Checked(m) == IF m = "if matched" /\ ~equality THEN "no" ELSE m
      ab == Checked(Maps(w, sites, chosen, a, b, origin, outerToInner))
      ba == Checked(Maps(w, sites, chosen, b, a, origin, outerToInner))
  IN IF Cardinality(occs) # 2 THEN w
     ELSE IF ab = "no" /\ ba = "no" THEN w
     ELSE [w EXCEPT !.conjuncts = Append(@,
             [cond |-> Written(p, chosen), a |-> a, b |-> b, ab |-> ab, ba |-> ba,
              equality |-> IF equality THEN <<chosen[1].at, chosen[2].at>> ELSE <<>>])]

AddConjuncts(w, p, sites, origin, outerToInner) ==
  IF ~Resolved(sites) \/ ~NullSafe(w, p, sites) \/ Len(Combinations(sites)) > 16 THEN w
  ELSE FoldLeft(LAMBDA x, chosen : AddConjunct(x, p, sites, chosen, origin, outerToInner), w, Combinations(sites))

Predicate(w, p, origin) ==
  IF p.kind = "cmp" THEN AddConjuncts(w, p, SitesOf(w, p), origin, TRUE) ELSE w
Predicates(w, quals, origin) == FoldLeft(LAMBDA x, p : Predicate(x, p, origin), w, quals)

\* `x IN (SELECT y ...)`: x = y holds for the matching row.
TestPredicate(w, p, out, required) ==
  AddConjuncts(w, Equal(p.l, p.l),
    <<Site(w, p.l), [up |-> Below, column |-> TRUE, terms |-> Candidates(out)]>>, Required, required)

-----------------------------------------------------------------------------
(* Levels. *)

\* Whether every window of a level has a PARTITION BY.
Partitioned(level) == level.windows # {} /\ {} \notin level.windows
OpaqueLevel(level, partitioned) == (level.windows # {} /\ ~partitioned) \/ level.limit # 0

\* equal_to_key: an equality makes the column equal to a key on every row of
\* its occurrence.
EqualToKey(w, at, keys) ==
  \E i \in DOMAIN w.conjuncts : LET c == w.conjuncts[i] IN
    /\ c.equality # <<>>
    /\ \E n \in 1..2 : /\ c.equality[n] = at /\ c.equality[3 - n] \in keys
                       /\ (IF c.a = at[1] THEN c.ab ELSE c.ba) = "yes"

KeyColumns(w, level, cols) ==
  {t.at : t \in {t \in {Resolve(w, level.out[c]) : c \in cols} : t.kind = "col"}}
Keyed(w, level, c, cols) ==
  LET t == Resolve(w, level.out[c])
  IN c \in cols \/ (t.kind = "col" /\ EqualToKey(w, t.at, KeyColumns(w, level, cols)))

\* What each output stands for to the level above.
Outputs(w, level, link) ==
  LET opaque == link # "top" /\ OpaqueLevel(level, Partitioned(level))
      grouped == level.group # {} \/ \E c \in Columns : IsAggregate(level.out[c])
      Passes(c) ==
        \/ link = "top"
        \/ /\ ~opaque
           /\ grouped => Keyed(w, level, c, level.group)
           /\ level.distinct # {} => Keyed(w, level, c, level.distinct)
           /\ \A p \in level.windows : Keyed(w, level, c, p)
      firstRow == link # "top" /\ ~opaque /\ ~grouped /\ (level.distinct # {} \/ level.windows # {})
      Out(c) == LET t == Resolve(w, level.out[c])
                IN IF Passes(c) THEN t
                   ELSE IF firstRow /\ t.kind \in {"col", "inbound"} THEN Inbound(t.at) ELSE Opaque
  IN [c \in Columns |-> Out(c)]

\* The output that names the rows of the backing view: its DISTINCT ON key,
\* or the key column.
Identity(level) == IF level.distinct = {} THEN "k" ELSE CHOOSE c \in level.distinct : TRUE

RECURSIVE WalkLevel(_, _, _, _), WithRte(_, _, _), JoinItem(_, _), Sublink(_, _, _), WithLeaf(_, _, _, _)

\* A table is an occurrence; a view or subquery stands for its outputs.
WithOutputs(below, rte) ==
  LET keys == IF rte.kind = "tview"
              THEN {<<rte.entity, t.at>> : t \in {t \in Range(Candidates(below.outs["k"])) : t.kind = "col"}}
              ELSE {}
  IN AddRte([below.walk EXCEPT !.keys = @ \cup keys], below.outs)
WithRte(w, rte, flags) ==
  IF rte.kind = "table"
  THEN LET occ == Len(w.occs) + 1
       IN AddRte([w EXCEPT !.occs = Append(@, [table |-> rte.name, unions |-> flags.unions, via |-> flags.via])],
                 [c \in Columns |-> Col(<<occ, c>>)])
  ELSE LET via == rte.kind = "tview" /\ flags.via = "none"
       IN WithOutputs(WalkLevel(w, rte.level, IF via THEN [flags EXCEPT !.via = rte.entity] ELSE flags, "from"), rte)

\* The conditions of a join; above it, its nullable side may be NULL-extended.
WithQuals(w, node, nullable) ==
  [Predicates(w, node.quals, IF node.type = "left" THEN OuterJoin(nullable) ELSE Required)
     EXCEPT !.nullable = IF node.type = "left" THEN @ \cup nullable ELSE @]
JoinedOn(w, node) == WithQuals(w, node, Under(w, node.r))
JoinItem(w, node) ==
  IF node.kind = "ref" THEN w ELSE JoinedOn(JoinItem(JoinItem(w, node.l), node.r), node)

\* A subquery expression; a positive EXISTS or IN of WHERE must find a row.
MustFind(p) == p.kind # "scalar" /\ p.positive
Tested(below, p) ==
  IF p.kind # "in" THEN below.walk
  ELSE TestPredicate(AddLinks(below.walk, below.outs["k"]), p, below.outs["k"], MustFind(p))
Sublink(w, p, flags) ==
  IF p.kind \notin {"exists", "in", "scalar"} THEN w
  ELSE Tested(WalkLevel(w, p.level, flags, IF MustFind(p) THEN "required" ELSE "sublink"), p)

\* One branch of a UNION subquery: its columns are more terms of the outputs.
MergedOut(old, out, scope) ==
  CASE out.kind = "opaque" -> Alt(old.terms, old.holes \cup {scope})
    [] out.kind = "alt" -> Alt(old.terms \o out.terms, old.holes \cup out.holes)
    [] OTHER -> Alt(Append(old.terms, out), old.holes)
Merged(x, below, scope) ==
  [x EXCEPT !.walk = below.walk,
            !.outs = [c \in Columns |-> MergedOut(@[c], below.outs[c], scope)]]
WithLeaf(x, leaf, i, flags) ==
  LET scope == Append(flags.unions, <<x.union, i>>)
  IN Merged(x, WalkLevel(x.walk, leaf, [flags EXCEPT !.unions = scope], "from"), scope)

WithLeaves(w, level, flags) ==
  FoldLeftDomain(LAMBDA x, i : WithLeaf(x, level.leaves[i], i, flags),
    [walk |-> w, union |-> w.unions, outs |-> [c \in Columns |-> Alt(<<>>, {})]], level.leaves)
UnionOutputs(walked) ==
  [walk |-> Pop(walked.walk),
   outs |-> [c \in Columns |-> IF walked.outs[c].terms = <<>> THEN Opaque ELSE walked.outs[c]]]

\* The FROM items, the conditions, the subqueries of WHERE and of the outputs.
Entered(w, level, flags) == FoldLeft(LAMBDA x, r : WithRte(x, r, flags), w, level.rtes)
Filtered(w, level) == Predicates(JoinItem(w, level.join), level.where, Required)
Subqueries(w, level, flags) ==
  FoldLeft(LAMBDA x, p : Sublink(x, p, flags), w, level.where \o [i \in DOMAIN SetToSeq(Columns) |-> level.out[SetToSeq(Columns)[i]]])
Leaving(w, level, link) == [walk |-> Pop(w), outs |-> Outputs(w, level, link)]

WalkLevel(w, level, flags, link) ==
  IF level.kind = "union"
  THEN UnionOutputs(WithLeaves(
         Push([w EXCEPT !.unions = @ + 1, !.linksUnknown = @ \/ ~level.all], "from"), level, flags))
  ELSE LET byIdentity == link = "top" /\ flags.unions = <<>> /\ Identity(level) \in level.group
       IN Leaving(NoteLinks(Subqueries(Filtered(Entered(Push(w, link), level, flags), level), level, flags),
                         level, byIdentity),
               level, link)

-----------------------------------------------------------------------------
(* The top level. *)
RECURSIVE AddRoots(_, _, _)
AddRoots(w, term, scope) ==
  CASE term.kind = "col" ->
         [w EXCEPT !.roots = Append(@, [key |-> term.at, scope |-> w.occs[term.at[1]].unions])]
    [] term.kind = "alt" ->
         FoldLeft(LAMBDA x, t : AddRoots(x, t, x.occs[CHOOSE o \in Occs(t) : TRUE].unions),
                  [w EXCEPT !.holes = @ \cup term.holes], term.terms)
    [] OTHER -> [w EXCEPT !.holes = @ \cup {scope}]

\* One branch of a top-level UNION: a root of its own.
BranchRoots(below, leaf, scope) ==
  IF OpaqueLevel(leaf, FALSE) THEN [below.walk EXCEPT !.holes = @ \cup {scope}]
  ELSE AddRoots(below.walk, below.outs["k"], scope)
WithBranch(w, leaf, i) ==
  LET scope == <<<<1, i>>>>
  IN BranchRoots(WalkLevel(w, leaf, [NoFlags EXCEPT !.unions = scope], "top"), leaf, scope)

WithKeyLinks(w) == FoldLeft(LAMBDA x, r : AddLinks(x, Col(r.key)), w, w.roots)

Rooted(below, definition) ==
  WithKeyLinks(IF OpaqueLevel(definition, FALSE) THEN below.walk
               ELSE AddRoots(below.walk, below.outs[Identity(definition)], <<>>))
    @@ [outs |-> below.outs]
Top(definition) ==
  IF definition.kind = "union"
  THEN WithKeyLinks(FoldLeftDomain(LAMBDA x, i : WithBranch(x, definition.leaves[i], i),
         Push([NewWalk EXCEPT !.unions = 1, !.linksUnknown = ~definition.all], "top"),
         definition.leaves))
       @@ [outs |-> [c \in Columns |-> Opaque]]
  ELSE Rooted(WalkLevel(NewWalk, definition, NoFlags, "top"), definition)
=============================================================================
