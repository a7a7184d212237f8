----------------------------- MODULE JsonbDelta -----------------------------
(***************************************************************************)
(* The functions of the jsonb_delta extension that patch a document in     *)
(* place, applied one after the other to one document.  A JSON value is a  *)
(* pair of its kind and its content: a function from keys for an object, a *)
(* sequence for an array.  A call that raises leaves no result and is not  *)
(* a step.                                                                 *)
(***************************************************************************)
EXTENDS Integers, Sequences, SequencesExt, FiniteSetsExt, Functions, TLC

CONSTANTS Keys,        \* the keys of objects, but for those of the array
          RootKeys,    \* the keys a path begins with
          ElementKeys, \* the keys an update of an element writes
          ElementPaths,\* the paths it writes at
          Numbers,     \* the numbers a value can be
          Ids,         \* the numbers an element's match key can be
          MaxItems,    \* bound: elements of the array
          MaxPath,     \* bound: segments of a path
          MaxDepth,    \* MAX_JSONB_DEPTH
          Keyless      \* may an element without the sort key be inserted?

VARIABLES doc,     \* the document
          order    \* the sort order its array is kept in

vars == <<doc, order>>

Kind(v) == v[1]
Of(v) == v[2]
Object(f) == <<"object", f>>
Array(s) == <<"array", s>>
Number(n) == <<"number", n>>
NullValue == <<"null", 0>>
Empty == Object(<<>>)
Has(v, k) == Kind(v) = "object" /\ k \in DOMAIN Of(v)

Key(k) == <<"key", k>>
Index(i) == <<"index", i>>

(* What parse_path can return: keys and indices, at least one.  A document *)
(* is an object: its paths begin with a key.                               *)
Segments == {Key(k) : k \in Keys} \cup {Index(i) : i \in {0, 1}}
Paths == {p \in UNION {[1..n -> Segments] : n \in 1..MaxPath} : p[1] \in {Key(k) : k \in RootKeys}}
KeyPaths == {p \in Paths : \A i \in DOMAIN p : Kind(p[i]) = "key"}

-----------------------------------------------------------------------------
(* Reading and writing at a path. *)

RECURSIVE NavigatePath(_, _), SetPath(_, _, _), MergeAtPath(_, _, _),
          DeepMerge(_, _), Depth(_)

Missing == <<"missing", 0>>

NavigatePath(v, path) ==
  IF path = <<>> THEN v
  ELSE LET s == Of(Head(path))
       IN CASE Kind(Head(path)) = "key" /\ Has(v, s) ->
                 NavigatePath(Of(v)[s], Tail(path))
            [] Kind(Head(path)) = "index" /\ Kind(v) = "array" ->
                 IF s < Len(Of(v)) THEN NavigatePath(Of(v)[s + 1], Tail(path))
                 ELSE Missing
            [] OTHER -> Missing

(* mutation: an array ends at the index that is set *)
(* A value on the way that has another kind is replaced by an empty one of *)
(* the kind the segment needs; an array is filled up with nulls.           *)
SetPath(v, path, new) ==
  IF path = <<>> THEN new
  ELSE LET s == Of(Head(path))
           f == IF Kind(v) = "object" THEN Of(v) ELSE <<>>
           a == IF Kind(v) = "array" THEN Of(v) ELSE <<>>
           filled == [i \in 1..(IF Len(a) > s THEN Len(a) ELSE s + 1) |->
                        IF i <= Len(a) THEN a[i] ELSE NullValue]
       IN IF Kind(Head(path)) = "key"
          THEN Object((s :> SetPath(IF s \in DOMAIN f THEN f[s] ELSE Empty,
                                    Tail(path), new)) @@ f)
          ELSE Array([filled EXCEPT ![s + 1] = SetPath(@, Tail(path), new)])

MergeShallow(target, source) == Object(Of(source) @@ Of(target))

MergesAt(v, path) ==
  \A i \in 0..Len(path) :
    Kind(NavigatePath(v, SubSeq(path, 1, i))) \in {"object", "missing"}

(* Raises unless MergesAt(v, path). *)
MergeAtPath(v, source, path) ==
  IF path = <<>> THEN MergeShallow(v, source)
  ELSE LET s == Of(Head(path))
           at == IF Has(v, s) THEN Of(v)[s] ELSE Empty
       IN Object((s :> MergeAtPath(at, source, Tail(path))) @@ Of(v))

(* mutation: nested objects are replaced *)
DeepMerge(target, source) ==
  IF Kind(target) = "object" /\ Kind(source) = "object"
  THEN Object([k \in DOMAIN Of(target) \cup DOMAIN Of(source) |->
         IF ~Has(source, k) THEN Of(target)[k]
         ELSE IF Has(target, k) THEN DeepMerge(Of(target)[k], Of(source)[k])
         ELSE Of(source)[k]])
  ELSE source

Depth(v) ==
  LET inner == CASE Kind(v) = "object" -> {Depth(Of(v)[k]) : k \in DOMAIN Of(v)}
                 [] Kind(v) = "array" -> {Depth(Of(v)[i]) : i \in DOMAIN Of(v)}
                 [] OTHER -> {}
  IN IF inner = {} THEN 0 ELSE 1 + Max(inner)

(* Only what is written is measured, and not by every function. *)
ValidDepth(v) == Depth(v) <= MaxDepth

-----------------------------------------------------------------------------
(* The array at key "items": elements are objects with a match key "id"    *)
(* and a sort key "s".                                                     *)

Items(v) == Of(Of(v)["items"])
HasItems(v) == Has(v, "items") /\ Kind(Of(v)["items"]) = "array"
WithItems(v, items) == Object([Of(v) EXCEPT !["items"] = Array(items)])

Matches(e, id) == Has(e, "id") /\ Of(e)["id"] = Number(id)

FindElementByMatch(items, id) == SelectInSeq(items, LAMBDA e : Matches(e, id))

UpdateWhere(v, id, updates) ==
  LET i == FindElementByMatch(Items(v), id)
  IN IF i = 0 THEN v
     ELSE WithItems(v, [Items(v) EXCEPT ![i] = MergeShallow(@, updates)])

(* jsonb_smart_patch_array, and jsonb_array_update_multi_row of each         *)
(* document, are UpdateWhere too.                                            *)
(* mutation: the first specification for an id wins *)
UpdateWhereBatchFirst(v, specs) ==
  LET SpecOf(e) == SelectInSeq(specs, LAMBDA s : Matches(e, s.id))
  IN WithItems(v, [i \in DOMAIN Items(v) |->
       LET e == Items(v)[i]
       IN IF SpecOf(e) = 0 THEN e ELSE MergeShallow(e, specs[SpecOf(e)].updates)])

(* Of the specifications for one id the last is kept; one pass patches     *)
(* every element that has the id of one.                                   *)
UpdateWhereBatch(v, specs) ==
  LET SpecOf(e) == SelectLastInSeq(specs, LAMBDA s : Matches(e, s.id))
  IN WithItems(v, [i \in DOMAIN Items(v) |->
       LET e == Items(v)[i]
       IN IF SpecOf(e) = 0 THEN e ELSE MergeShallow(e, specs[SpecOf(e)].updates)])

DeleteWhere(v, id) ==
  IF ~HasItems(v) \/ FindElementByMatch(Items(v), id) = 0 THEN v
  ELSE WithItems(v, RemoveAt(Items(v), FindElementByMatch(Items(v), id)))

(* A path that ends in an index creates what is missing above it and sets   *)
(* nothing.                                                                 *)
Created(e, path) ==
  LET at == NavigatePath(e, path)
  IN IF path = <<>> THEN e
     ELSE SetPath(e, path, IF at # Missing THEN at
                           ELSE IF Kind(Last(path)) = "key" THEN Empty ELSE NullValue)

UpdateWherePath(v, id, path, new) ==
  LET i == FindElementByMatch(Items(v), id)
  IN IF i = 0 THEN v
     ELSE WithItems(v, [Items(v) EXCEPT ![i] =
            IF Kind(Last(path)) = "key" THEN SetPath(@, path, new)
            ELSE Created(@, Front(path))])

CompareValues(x, y) ==
  IF Kind(x) = "null" THEN (IF Kind(y) = "null" THEN "equal" ELSE "less")
  ELSE IF Of(x) < Of(y) THEN "less" ELSE IF Of(x) > Of(y) THEN "greater" ELSE "equal"

(* mutation: the order is not looked at *)
StandsBeforeAscending(e, new) ==
  ~Has(e, "s") \/ CompareValues(Of(e)["s"], new) = "less"

(* Does an element stand before the place of a new sort value?             *)
StandsBefore(e, new) ==
  ~Has(e, "s") \/ CompareValues(Of(e)["s"], new) = (IF order = "ASC" THEN "less" ELSE "greater")

(* The places a binary search can end at: all before it on its left side,  *)
(* not before it on its right, which is one place when the array is sorted. *)
InsertionPoints(items, e) ==
  IF ~Has(e, "s") THEN {Len(items)}
  ELSE {p \in 0..Len(items) :
          /\ p > 0 => StandsBefore(items[p], Of(e)["s"])
          /\ p < Len(items) => ~StandsBefore(items[p + 1], Of(e)["s"])}

Inserted(v, e, p) ==
  LET items == IF HasItems(v) THEN Items(v) ELSE <<>>
  IN Object(("items" :> Array(InsertAt(items, p + 1, e))) @@ Of(v))

-----------------------------------------------------------------------------
(* Calls. *)

ObjectsOver(keys) ==
  {Object(f) : f \in UNION {[K -> {Number(n) : n \in Numbers}] : K \in SUBSET keys}}
Objects == ObjectsOver(Keys)
Nested == Objects \cup {Object(k :> o) : k \in Keys, o \in Objects}
Updates == ObjectsOver(ElementKeys)

Init == doc = Empty /\ order \in {"ASC", "DESC"}

(* Bound: a document has the array or other keys, and one sort order as long *)
(* as it has no array.                                                       *)
OneSided(v) == IF Has(v, "items") THEN DOMAIN Of(v) = {"items"}
               ELSE order = "ASC" \/ v = Empty

Patch(result) == OneSided(result) /\ doc' = result /\ UNCHANGED order

IsObject == Kind(doc) = "object"

JsonbMergeShallow ==
  \E o \in Nested : ValidDepth(o) /\ IsObject /\ Patch(MergeShallow(doc, o))

JsonbMergeAtPath ==
  \E o \in Objects, p \in {<<>>} \cup KeyPaths :
    MergesAt(doc, p) /\ Patch(MergeAtPath(doc, o, p))

JsonbDeepMerge ==
  \E o \in Nested : ValidDepth(o) /\ Patch(DeepMerge(doc, o))

JsonbSetPath ==
  \E p \in Paths, n \in Numbers : Patch(SetPath(doc, p, Number(n)))

Elements ==
  {Object(("id" :> Number(i)) @@ ("s" :> Number(n))) : i \in Ids, n \in Numbers}
    \cup {Object("id" :> Number(i)) : i \in IF Keyless THEN Ids ELSE {}}

JsonbArrayInsertWhere ==
  \E e \in Elements :
    /\ IsObject /\ (Has(doc, "items") => HasItems(doc) /\ Len(Items(doc)) < MaxItems)
    /\ \E p \in InsertionPoints(IF HasItems(doc) THEN Items(doc) ELSE <<>>, e) :
         Patch(Inserted(doc, e, p))

JsonbArrayDeleteWhere == \E i \in Ids : Patch(DeleteWhere(doc, i))

JsonbArrayUpdateWhere ==
  \E i \in Ids, o \in Updates :
    HasItems(doc) /\ ValidDepth(o) /\ Patch(UpdateWhere(doc, i, o))

Specs == [id : Ids, updates : Updates]

JsonbArrayUpdateWhereBatch ==
  \E s, t \in Specs : HasItems(doc) /\ Patch(UpdateWhereBatch(doc, <<s, t>>))

JsonbArrayUpdateWherePath ==
  \E i \in Ids, p \in ElementPaths, n \in Numbers :
    HasItems(doc) /\ Patch(UpdateWherePath(doc, i, p, Number(n)))

Next ==
  \/ JsonbMergeShallow \/ JsonbMergeAtPath \/ JsonbDeepMerge \/ JsonbSetPath
  \/ JsonbArrayInsertWhere \/ JsonbArrayDeleteWhere \/ JsonbArrayUpdateWhere
  \/ JsonbArrayUpdateWhereBatch \/ JsonbArrayUpdateWherePath

Spec == Init /\ [][Next]_vars

-----------------------------------------------------------------------------
(* What the functions promise of whatever document they are applied to. *)

RECURSIVE Wrapped(_, _)
Wrapped(path, o) ==
  IF path = <<>> THEN o ELSE Object(Of(Head(path)) :> Wrapped(Tail(path), o))

(* The three merges agree: a merge at a path is the deep merge of the patch  *)
(* wrapped into that path, a document merged into itself is itself, and      *)
(* repeating a patch changes nothing.  (jsonb_merge_at_path,                 *)
(* jsonb_deep_merge, jsonb_merge_shallow)                                    *)
MergesAgree ==
  /\ DeepMerge(doc, doc) = doc
  /\ \A o \in Objects, p \in {<<>>} \cup KeyPaths : MergesAt(doc, p) =>
       LET result == MergeAtPath(doc, o, p)
       IN result = DeepMerge(doc, Wrapped(p, o)) /\ MergeAtPath(result, o, p) = result

IdsUnique(items) ==
  \A i, j \in DOMAIN items : i # j => Of(items[i])["id"] # Of(items[j])["id"]

(* One pass over the array with a batch of updates is the updates one after  *)
(* the other, where no id occurs twice in the array; of two updates for one  *)
(* id only the later is made.  (jsonb_array_update_where_batch)              *)
BatchIsSequence ==
  HasItems(doc) /\ IdsUnique(Items(doc)) =>
    \A s, t \in Specs :
      UpdateWhereBatch(doc, <<s, t>>) =
        IF s.id = t.id THEN UpdateWhere(doc, t.id, t.updates)
        ELSE UpdateWhere(UpdateWhere(doc, s.id, s.updates), t.id, t.updates)

(* What can be done in two ways gives one document, merges and updates of    *)
(* an array alike.                                                           *)
PatchesAgree == MergesAgree /\ BatchIsSequence

(* The array stays in its order through any sequence of inserts, deletes and *)
(* updates that leave the sort key alone.  (find_insertion_point)            *)
StaysSorted ==
  HasItems(doc) => \A i, j \in DOMAIN Items(doc) : i < j =>
    LET x == Items(doc)[i]  y == Items(doc)[j]
    IN Has(x, "s") /\ Has(y, "s") =>
         CompareValues(Of(x)["s"], Of(y)["s"]) \in
           {"equal", IF order = "ASC" THEN "less" ELSE "greater"}
=============================================================================
