------------------------------ MODULE TreeKeys ------------------------------
(***************************************************************************)
(* pg_treekey on one table that is a tree: every row has a key, a parent   *)
(* (a foreign key into the table), a name, and two columns the extension   *)
(* writes, an identifier built from the parent's and an ltree path.        *)
(*                                                                         *)
(* Row triggers are operators from table to table, run in the order in     *)
(* which PostgreSQL fires them: BEFORE triggers row by row while the       *)
(* statement runs, AFTER triggers at its end, row by row and by name, an   *)
(* update issued by a trigger with its own triggers before the next one.   *)
(***************************************************************************)
EXTENDS IdentifierTemplates, Integers, FiniteSets, Sequences, SequencesExt,
        Functions, TLC

CONSTANTS Nodes,          \* the primary keys
          Names,          \* the texts a row's name column can hold
          Scope,          \* the text of the root rows' scope column
          Registrations,  \* the other columns of the catalog row, see Registration
          LevelTemplate,  \* tokens over self.name
          FlatTemplate,   \* tokens over self.name and parent.name
          None,           \* a NULL parent
          InsertRows,     \* rows of one INSERT statement
          UpdateRows,     \* rows of one UPDATE statement
          SubtreeMoves    \* does a relocated row have descendants?

NoPath == <<>> \* a NULL path

VARIABLES catalog,   \* the managed_identifiers row of the table
          trigger,   \* the identifier trigger function installed on it
          managed,   \* managed_paths row and path triggers exist
          rows,      \* the table
          inCascade, \* the session's IN_CASCADE
          strayed    \* history: a path has not been its row's chain of ancestors

vars == <<catalog, trigger, managed, rows, inCascade, strayed>>

Modes == {"none", "flat", "hierarchical"}

(* dedup is "off", "table" or "parent" (the scope column is the parent key), *)
(* scope the tokens of the scope template, <<>> if there is none; ltree says *)
(* whether the tuple reader gives an ltree column as text.                   *)
Registration(dedup, scope, ltree) ==
  [mode |-> "none", dedup |-> dedup, scope |-> scope, ltree |-> ltree]

Init ==
  /\ catalog \in Registrations
  /\ trigger = "none" /\ managed = FALSE
  /\ rows = <<>> /\ inCascade = FALSE /\ strayed = FALSE

-----------------------------------------------------------------------------
(* Registration. *)

(* The catalog keeps the first registration of the column, the trigger is  *)
(* replaced by each.  Deployed before the table has rows.                  *)
RegisterIdentifier(mode) ==
  /\ DOMAIN rows = {}
  /\ catalog' = IF catalog.mode = "none" THEN [catalog EXCEPT !.mode = mode]
                ELSE catalog
  /\ trigger' = mode
  /\ UNCHANGED <<managed, rows, inCascade>>

ManagePath ==
  /\ DOMAIN rows = {} /\ managed' = TRUE
  /\ UNCHANGED <<catalog, trigger, rows, inCascade>>

-----------------------------------------------------------------------------
(* The identifier of a row about to be written, `old` its identifier       *)
(* before an UPDATE and Null for an INSERT.                                *)

Values(table, row) ==
  (<<"self", "name">> :> row.name) @@ (<<"self", "scope">> :> Scope) @@
  (<<"parent", "name">> :> IF row.parent \in DOMAIN table
                           THEN table[row.parent].name ELSE Null)

(* mutation: an UPDATE does not look for taken identifiers *)
TakenWhenNew(table, row, old) ==
  IF old = Null THEN {table[m].slug : m \in DOMAIN table} \ {Null} ELSE {}

(* A NULL scope column means no scope filter.  An UPDATE leaves out every  *)
(* row that has the old identifier, not only itself.                       *)
Taken(table, row, old) ==
  LET inScope == {m \in DOMAIN table : catalog.dedup = "parent" /\ row.parent # None
                                         => table[m].parent = row.parent}
  IN {table[m].slug : m \in inScope} \ {old, Null}

Deduplicated(base, table, row, old) ==
  IF catalog.dedup = "off" THEN base
  ELSE IdentifierNext(base, Taken(table, row, old))

FlatIdentifier(table, row, old) ==
  Deduplicated(RenderTemplate(FlatTemplate, Values(table, row)), table, row, old)

LevelSegment(table, row) == RenderTemplate(LevelTemplate, Values(table, row))

ParentSlug(table, row) ==
  IF managed /\ row.parent \in DOMAIN table THEN table[row.parent].slug ELSE Null

HierarchicalIdentifier(table, row, old) ==
  LET level == LevelSegment(table, row)
      base == IF row.parent # None
              THEN IF ParentSlug(table, row) = Null THEN level
                   ELSE ParentSlug(table, row) \o <<".">> \o level
              ELSE IF catalog.scope = <<>> THEN level
                   ELSE RenderTemplate(catalog.scope, Values(table, row))
                          \o <<"|">> \o level
  IN Deduplicated(base, table, row, old)

(* Only the hierarchical trigger looks at IN_CASCADE.                      *)
Before(table, row, old, guard) ==
  [row EXCEPT !.slug =
     CASE trigger = "flat" /\ catalog.mode = "flat" -> FlatIdentifier(table, row, old)
       [] trigger = "hierarchical" /\ catalog.mode = "hierarchical" /\ ~guard
            -> HierarchicalIdentifier(table, row, old)
       [] OTHER -> @]

-----------------------------------------------------------------------------
(* The AFTER triggers. *)

Beneath(table, n, path) ==
  {m \in DOMAIN table \ {n} : path # NoPath /\ IsPrefix(path, table[m].path)}

(* mutation: an off-by-one in the suffix that is kept *)
ReprefixedShort(text, old, new) == new \o SubSeq(text, Len(old) + 2, Len(text))

Reprefixed(text, old, new) == new \o SubSeq(text, Len(old) + 1, Len(text))

(* Descendants are the rows below the row's present path; those whose      *)
(* identifier does not start with the old one are left alone.              *)
Renamed(table, n, old) ==
  {m \in Beneath(table, n, table[n].path) :
     table[m].slug # Null /\ IsPrefix(old.slug, table[m].slug)}

CascadeIdentifier(table, n, old) ==
  LET new == table[n].slug
  IN IF \/ inCascade \/ trigger # "hierarchical" \/ catalog.mode # "hierarchical"
        \/ ~managed \/ old.slug = new \/ old.slug = Null \/ new = Null
     THEN table
     ELSE [m \in DOMAIN table |->
             IF m \in Renamed(table, n, old)
             THEN [table[m] EXCEPT !.slug = Reprefixed(@, old.slug, new)]
             ELSE table[m]]

CascadePath(table, n, old) ==
  LET new == table[n].path
  IN IF \/ inCascade \/ ~managed \/ ~catalog.ltree
        \/ old.path = new \/ old.path = NoPath \/ new = NoPath
     THEN table
     ELSE LET order == SetToSeq(Beneath(table, n, old.path))
              Moved[i \in 0..Len(order)] ==
                IF i = 0 THEN table
                ELSE [Moved[i - 1] EXCEPT ![order[i]] =
                        Before(Moved[i - 1], [@ EXCEPT !.path = Reprefixed(@, old.path, new)],
                               @.slug, TRUE)]
          IN Moved[Len(order)]

After(table, n, old) == CascadePath(CascadeIdentifier(table, n, old), n, old)

(* An UPDATE statement: the rows of `news`, in the order of `order`.       *)
Updated(table, order, news) ==
  LET Written(t, n) == [t EXCEPT ![n] = Before(t, news[n], table[n].slug, inCascade)]
      Fired(t, n) == After(t, n, table[n])
  IN FoldLeft(Fired, FoldLeft(Written, table, order), order)

(* A new row takes its path from the parent's, if that has one.            *)
ComputePath(table, n) ==
  LET parent == table[n].parent
      above == IF parent \in DOMAIN table THEN table[parent].path ELSE NoPath
  IN IF ~managed THEN table
     ELSE Updated(table, <<n>>, n :> [table[n] EXCEPT !.path = Append(above, n)])

Inserted(table, order, news) ==
  LET Written(t, n) == (n :> Before(t, news[n], Null, inCascade)) @@ t
  IN FoldLeft(ComputePath, FoldLeft(Written, table, order), order)

-----------------------------------------------------------------------------
(* Statements of the session. *)

NewRow(parent, name) ==
  [parent |-> parent, name |-> name, slug |-> Null, path |-> NoPath]

(* The rows above n, by foreign keys: no input makes a row its own ancestor.*)
Above(table, n) ==
  LET Up[k \in 0..Cardinality(Nodes)] ==
        IF k = 0 THEN {n}
        ELSE Up[k - 1] \cup {table[m].parent : m \in Up[k - 1] \cap DOMAIN table}
  IN Up[Cardinality(Nodes)] \ {n, None}

(* One statement inserts the rows of `order`, parents first or not: the    *)
(* foreign key is checked when it ends.                                    *)
Insert(order) ==
  \E parent \in [ToSet(order) -> Nodes \cup {None}],
     name \in [ToSet(order) -> Names] :
    LET news == [n \in ToSet(order) |-> NewRow(parent[n], name[n])]
    IN /\ trigger # "none" /\ ToSet(order) \cap DOMAIN rows = {}
       /\ \A n \in ToSet(order) :
            /\ parent[n] \in {None} \cup DOMAIN rows \cup ToSet(order)
            /\ n \notin {parent[m] : m \in ToSet(order) \cap (Above(news, n) \cup {n})}
       /\ rows' = Inserted(rows, order, news)
       /\ UNCHANGED <<catalog, trigger, managed, inCascade>>

(* A cascade's update fails (a unique index, a lock timeout, a cancel): the *)
(* statement is undone and the error unwinds past the line that clears the  *)
(* guard.                                                                   *)
Fails(order, result) ==
  /\ \E n \in ToSet(order), m \in DOMAIN rows \ ToSet(order) :
       rows[m] # result[m]
  /\ inCascade' = TRUE /\ rows' = rows

Update(order, news) ==
  LET result == Updated(rows, order, news)
  IN /\ \/ rows' = result /\ UNCHANGED inCascade
        \/ Fails(order, result)
     /\ UNCHANGED <<catalog, trigger, managed>>

Rename(order) ==
  /\ ToSet(order) \subseteq DOMAIN rows
  /\ \E name \in [ToSet(order) -> Names] :
       Update(order, [n \in ToSet(order) |-> [rows[n] EXCEPT !.name = name[n]]])

Move(n) ==
  \E p \in ({None} \cup DOMAIN rows) \ {n} :
    /\ n \in DOMAIN rows /\ n \notin Above(rows, p)
    /\ Update(<<n>>, n :> [rows[n] EXCEPT !.parent = p])

(* The user writes the parent and the path that goes with it.  Unless       *)
(* SubtreeMoves, of a row with none below it.                               *)
Relocate(n) ==
  \E p \in ({None} \cup DOMAIN rows) \ {n} :
    LET path == Append(IF p = None THEN NoPath ELSE rows[p].path, n)
    IN /\ managed
       /\ p # None => rows[p].path # NoPath
       /\ n \in DOMAIN rows /\ n \notin Above(rows, p)
       /\ SubtreeMoves \/ Beneath(rows, n, rows[n].path) = {}
       /\ Update(<<n>>, n :> [rows[n] EXCEPT !.parent = p, !.path = path])

(* mutation: no foreign key on the parent *)
Delete(n) ==
  /\ n \in DOMAIN rows /\ \A m \in DOMAIN rows : rows[m].parent # n
  /\ rows' = Restrict(rows, DOMAIN rows \ {n})
  /\ UNCHANGED <<catalog, trigger, managed, inCascade>>

Orders(size) == UNION {{o \in [1..k -> Nodes] : IsInjective(o)} : k \in 1..size}

(* The rows from the root down to n. *)
IsChain(table, c, n) ==
  /\ c # <<>> /\ ToSet(c) \subseteq DOMAIN table
  /\ table[c[1]].parent = None /\ c[Len(c)] = n
  /\ \A i \in 2..Len(c) : table[c[i]].parent = c[i - 1]

Chain(table, n) ==
  CHOOSE c \in UNION {[1..k -> DOMAIN table] : k \in 1..Cardinality(DOMAIN table)} :
    IsChain(table, c, n)

Strays(table) == managed /\ \E n \in DOMAIN table : ~IsChain(table, table[n].path, n)

Step ==
  \/ \E mode \in {"flat", "hierarchical"} : RegisterIdentifier(mode)
  \/ ManagePath
  \/ \E order \in Orders(InsertRows) : Insert(order)
  \/ \E order \in Orders(UpdateRows) : Rename(order)
  \/ \E n \in Nodes : Move(n) \/ Relocate(n) \/ Delete(n)

Next == Step /\ strayed' = (strayed \/ Strays(rows'))

Spec == Init /\ [][Next]_vars

-----------------------------------------------------------------------------
(* What the identifiers and paths promise. *)

TypeOK ==
  /\ catalog.mode \in Modes /\ trigger \in Modes
  /\ managed \in BOOLEAN /\ inCascade \in BOOLEAN
  /\ DOMAIN rows \subseteq Nodes
  /\ \A n \in DOMAIN rows : rows[n].parent \in {None} \cup DOMAIN rows

Hierarchical ==
  catalog.mode = "hierarchical" /\ trigger = "hierarchical" /\ managed /\ ~inCascade /\ ~strayed

(* The library's own definition of a hierarchical identifier, evaluated    *)
(* over the whole chain at once.                                           *)
EvaluateHierarchical(chain) ==
  LET level(i) == (IF i = 1 THEN <<>> ELSE <<".">>) \o LevelSegment(rows, rows[chain[i]])
      levels == FlattenSeq([i \in DOMAIN chain |-> level(i)])
  IN IF catalog.scope = <<>> THEN levels
     ELSE RenderTemplate(catalog.scope, Values(rows, rows[chain[1]])) \o <<"|">> \o levels

OnePlusNumber(text, base) ==
  \/ text = base
  \/ \E k \in 2..(Cardinality(Nodes) + 1) : text = base \o <<"#", ToString(k)>>

(* However rows were renamed, moved and moved back, the identifier of a     *)
(* row whose path is right is the one evaluated from its chain; with        *)
(* deduplication, its parent's followed by its own level and at most a      *)
(* number.  (tg_cascade_identifier, tg_identifier_hierarchical)             *)
IdentifierFollowsAncestors ==
  Hierarchical => \A n \in DOMAIN rows :
    IF catalog.dedup = "off" THEN rows[n].slug = EvaluateHierarchical(Chain(rows, n))
    ELSE rows[n].parent # None =>
           OnePlusNumber(rows[n].slug, rows[rows[n].parent].slug \o <<".">>
                                         \o LevelSegment(rows, rows[n]))

SameScope(m, n) ==
  \/ catalog.dedup = "table"
  \/ catalog.dedup = "parent" /\ rows[m].parent = rows[n].parent

(* Deduplication outlives the cascades, which write identifiers without it: *)
(* two rows of one scope whose paths are right never share an identifier.   *)
(* (the taken list of the identifier triggers, "without hitting the UNIQUE  *)
(* constraint")                                                             *)
UniqueInScope ==
  Hierarchical => \A m, n \in DOMAIN rows :
    m # n /\ SameScope(m, n) => rows[m].slug # rows[n].slug

(* An optional column that is NULL takes its separator along: no identifier *)
(* begins or ends with one or has two in a row.  (render_template)          *)
=============================================================================
