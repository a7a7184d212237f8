---------------------------- MODULE MappedWrites ---------------------------
(* TVIEWs kept by their mapping: a statement changes rows of a table, the  *)
(* keys its old and new rows map to are refreshed, and every other row of  *)
(* the TVIEW is left as it is stored (delta/mapping.rs).  Tables that      *)
(* cannot be traced are under the policy `full_refresh`.                   *)
EXTENDS LineageGraph
LOCAL INSTANCE SequencesExt
CONSTANTS Definitions,   \* name -> definition
          Embedded,      \* the names of those that others read
          Ids,           \* the row ids and the values of f
          Tables,        \* the base tables
          Small,         \* tables of at most one row
          Joint          \* the TVIEWs written by statements on two tables too
VARIABLES def,    \* the TVIEW
          lineage,\* of it and of those embedded: its graph and the kinds of its tables
          db,     \* table -> id -> the value of f
          view,   \* what its view returns of db, and where each row comes from
          tv      \* key -> the rows stored
vars == <<def, lineage, db, view, tv>>

ASSUME MappedWritesAssumption ==
  Ids \subseteq Nat \ {Null} /\ Small \subseteq Tables /\ Embedded \subseteq DOMAIN Definitions

TablesOf(g) == {g.occs[i].table : i \in DOMAIN g.occs}

\* analyze: a read through the view of an embedded TVIEW is covered by it when
\* that TVIEW maps the table, or refreshes it in full.
Covered(graphs, g) ==
  {<<o.via, o.table>> : o \in {o \in Range(g.occs) :
     o.via # "none" /\ Lookups(g, o.via) # {} /\ o.table \in TablesOf(graphs[o.via])}}
KindsOf(g, covered) == [t \in TablesOf(g) |-> TableKind(g, t, covered)]
Analyzed(graphs) ==
  [d \in DOMAIN graphs |-> [graph |-> graphs[d], kinds |-> KindsOf(graphs[d], Covered(graphs, graphs[d]))]]
\* A function TLC computes once.
Tabulated(f) == f @@ <<>>

\* Every state of a table, and of the tables a definition reads.
TableStates(t) == UNION {[ids -> Ids \cup {Null}] : ids \in {s \in SUBSET Ids : t \in Small => s \subseteq {1}}}
ByKey(rows) == [k \in Ids |-> {r.v : r \in {r \in rows : r.v["k"] = k}}]
\* The rows an embedded TVIEW has.
ChildRows(entity, x) ==
  ByKey(Rows(Definitions[entity], <<>>, [t \in Tables |-> IF t \in DOMAIN lineage[entity].kinds THEN x[t] ELSE <<>>]))

-----------------------------------------------------------------------------
(* A statement. *)
RowsOf(t, x) == {[k |-> id, f |-> x[t][id]] : id \in DOMAIN x[t]}
Delta(t, x, y) == (RowsOf(t, x) \cup RowsOf(t, y)) \ (RowsOf(t, x) \cap RowsOf(t, y))

\* map_statement: the keys the delta maps to, over the tables after the statement.
DirectKeys(d, t, delta, after) ==
  LET kind == lineage[d].kinds[t]
  IN CASE kind.kind = "local" -> {r[kind.column] : r \in delta} \ {Null}
       [] kind.kind = "mapped" -> MappingKeys(lineage[d].graph, kind.paths, delta, after)
       [] kind.kind = "all_keys" -> Ids

\* propagate.rs: the stored rows embedding a refreshed child, and the view's
\* rows embedding one that appeared.
PropagatedKeys(d, entity, t, before, after, rows) ==
  LET children == DirectKeys(entity, t, Delta(t, before, after), after)
      old == ChildRows(entity, before)
      new == ChildRows(entity, after)
      appeared == {k \in children : old[k] = {} /\ new[k] # {}}
      Embeds(r, ks) == \E c \in Lookups(lineage[d].graph, entity) : r[c] \in ks
  IN {k \in Ids : (\E r \in tv[k] : Embeds(r, children)) \/ (\E r \in ByKey(rows)[k] : Embeds(r, appeared))}

MappedTo(d, t, before, after, rows) ==
  LET kind == lineage[d].kinds[t]
  IN IF kind.kind = "propagated" THEN PropagatedKeys(d, kind.entity, t, before, after, rows)
     ELSE DirectKeys(d, t, Delta(t, before, after), after)

\* The keys the written tables map to are recomputed from the view.
Refresh(after, written) ==
  /\ view' = Rows(Definitions[def], <<>>, after)
  /\ tv' = LET keys == UNION {MappedTo(def, t, db, after, view') : t \in written}
               rows == ByKey(view')
           IN [k \in Ids |-> IF k \in keys THEN rows[k] ELSE tv[k]]
  /\ db' = after
  /\ UNCHANGED <<def, lineage>>

\* An INSERT, an UPDATE (of keys too) or a DELETE.
Statement(old, new) ==
  \/ \A id \in DOMAIN old : id \in DOMAIN new /\ new[id] = old[id]
  \/ \A id \in DOMAIN new : id \in DOMAIN old /\ new[id] = old[id]
  \/ Cardinality(DOMAIN old) = Cardinality(DOMAIN new)

Write(t) ==
  \E new \in TableStates(t) \ {db[t]} :
    Statement(db[t], new) /\ Refresh([db EXCEPT ![t] = new], {t})

\* A statement with writable CTEs: both tables change before either maps.
WriteBoth(t, u) ==
  \E id \in DOMAIN db[t], jd \in DOMAIN db[u], f, h \in Ids :
    Refresh([db EXCEPT ![t][id] = f, ![u][jd] = h], {t, u})

Init ==
  /\ def \in DOMAIN Definitions
  /\ lineage = Analyzed(Tabulated([d \in {def} \cup Embedded |-> Top(Definitions[d])]))
  /\ db = [t \in Tables |-> <<>>]
  /\ view = Rows(Definitions[def], <<>>, db)
  /\ tv = ByKey(view)
Next ==
  \/ \E t \in DOMAIN lineage[def].kinds : Write(t)
  \/ \E t, u \in DOMAIN lineage[def].kinds : def \in Joint /\ t # u /\ WriteBoth(t, u)
Spec == Init /\ [][Next]_vars

-----------------------------------------------------------------------------
(* After every statement the TVIEW is what its view returns.               *)
(* ADR 0157: the mapping "must never miss a key".                          *)
TviewIsView == tv = ByKey(view)

(* A refresh of a key locks the values it reads each table by, a statement *)
(* the values of its old and new rows: whenever the statement changes a    *)
(* key's row, the two locks meet (lineage/graph.rs, read_sets; ADR 0207).  *)
Meets(d, t, key, before, after) ==
  LET kind == lineage[d].kinds[t]
      delta == Delta(t, before, after)
      paths == kind.paths
  IN CASE kind.kind = "local" -> key \in {r[kind.column] : r \in delta}
       [] kind.kind = "mapped" ->
            \/ \E i \in DOMAIN paths :
                 paths[i].path = <<>> /\ key \in PathKeys(lineage[d].graph, paths[i].occ, <<>>, delta, after)
            \/ \E set \in ReadSets(lineage[d].graph, paths, key, before) :
                 set.column = "table" \/ \E r \in delta : r[set.column] \in set.values
       [] OTHER -> TRUE
ReadSetsMeetWrites ==
  [][LET old == ByKey(view)
         new == ByKey(view')
     IN \A t \in DOMAIN lineage[def].kinds : \A k \in Ids :
          (old[k] # new[k] /\ db' = [db EXCEPT ![t] = db'[t]]) => Meets(def, t, k, db, db')]_vars
=============================================================================
