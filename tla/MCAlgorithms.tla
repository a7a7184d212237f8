---------------------------- MODULE MCAlgorithms ----------------------------
(* The algorithms that stand on their own: a behaviour is one of a TVIEW   *)
(* definition and its lineage, of pg_treekey or of jsonb_delta.            *)
EXTENDS MCLineage
CONSTANTS Nodes, Names, Scope, Registrations, LevelTemplate, FlatTemplate, NoValue, NoParent,
          InsertRows, UpdateRows, SubtreeMoves,
          Keys, RootKeys, ElementKeys, ElementPaths, Numbers, MaxItems, MaxPath, MaxDepth, Keyless
VARIABLES catalog, trigger, managed, rows, inCascade, strayed, doc, order, which
TreeKey == INSTANCE TreeKeys WITH Null <- NoValue, None <- NoParent
Jsonb == INSTANCE JsonbDelta
treeVars == <<catalog, trigger, managed, rows, inCascade, strayed>>

\* The constants of pg_treekey.
LOCAL Template == INSTANCE IdentifierTemplates WITH Null <- NoValue
Slug == Template!Modifier("slugify", 0)
Named == Template!Expr("self", "name", Slug, FALSE)
MCLevelTemplate == <<Named>>
MCFlatTemplate == <<Template!Expr("parent", "name", Slug, TRUE), Template!Literal(<<".">>), Named>>
MCScopeTemplate == <<Template!Expr("self", "scope", Template!Modifier("raw", 0), FALSE)>>
Unregistered(dedup, scope, ltree) ==
  [mode |-> "none", dedup |-> dedup, scope |-> scope, ltree |-> ltree]
MCRegistrations == {Unregistered("off", MCScopeTemplate, TRUE),
                    Unregistered("table", <<>>, TRUE),
                    Unregistered("parent", MCScopeTemplate, FALSE)}
MCNames == {<<"a">>, <<"b", " ", "c">>}
MCScope == <<"s">>
MCSymmetry == Permutations(Nodes)
MCElementPaths ==
  {<<<<"key", "a">>>>, <<<<"key", "a">>, <<"key", "b">>>>, <<<<"key", "a">>, <<"index", 0>>>>}

ASSUME TreeKeysAssumption ==
  NoParent \notin Nodes /\ {InsertRows, UpdateRows} \subseteq Nat \ {0} /\ SubtreeMoves \in BOOLEAN
ASSUME TemplatesParse ==
  \A t \in {LevelTemplate, FlatTemplate} \cup {r.scope : r \in Registrations} :
    Template!WellFormed(t)

NoDefinition == def = "none" /\ lineage = "none" :> [kinds |-> <<>>] /\ db = <<>> /\ view = {} /\ tv = ByKey({})

MCInit ==
  /\ TreeKey!Init /\ Jsonb!Init
  /\ \/ which = "lineage" /\ Init /\ catalog.dedup = "off" /\ order = "ASC"
     \/ which = "treekey" /\ NoDefinition /\ order = "ASC"
     \/ which = "jsonb" /\ NoDefinition /\ catalog.dedup = "off"
MCNext ==
  \/ which = "lineage" /\ Next /\ UNCHANGED <<treeVars, doc, order, which>>
  \/ which = "treekey" /\ TreeKey!Next /\ UNCHANGED <<vars, doc, order, which>>
  \/ which = "jsonb" /\ Jsonb!Next /\ UNCHANGED <<vars, treeVars, which>>
MCSpec == MCInit /\ [][MCNext]_<<vars, treeVars, doc, order, which>>

(* A table whose paths are not its tree, or a session whose triggers stay  *)
(* off, is not followed further.                                           *)
OnTheTree == ~strayed /\ ~inCascade

IdentifierFollowsAncestors == TreeKey!IdentifierFollowsAncestors
UniqueInScope == TreeKey!UniqueInScope
PatchesAgree == Jsonb!PatchesAgree
StaysSorted == Jsonb!StaysSorted
=============================================================================
