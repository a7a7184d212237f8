----------------------------- MODULE MCLineage -----------------------------
(* TVIEW definitions of every shape the walk tells apart, over the tables  *)
(* r (the root, unless said otherwise), s and t.                           *)
EXTENDS MappedWrites

Rt == Table("r")
St == Table("s")
Tt == Table("t")
K(i) == Own(i, "k")
F(i) == Own(i, "f")
OuterK == Var(1, 1, "k")
OuterF == Var(1, 1, "f")
Left(l, r, p) == Join("left", l, r, <<p>>)
Inner(l, r, p) == Join("inner", l, r, <<p>>)
Grouped(level, cols) == [level EXCEPT !.group = cols]

\* SELECT r.k, agg(t.f) FROM r LEFT JOIN t ON t.f = r.k GROUP BY r.k
Children == Grouped(Select(<<Rt, Tt>>, Left(Ref(1), Ref(2), Equal(F(2), K(1))), <<>>, K(1), Nothing, Aggregate(K(2))), {"k"})
\* r -> s -> t by foreign keys of r and s.
Parents == Select(<<Rt, St, Tt>>,
  Left(Left(Ref(1), Ref(2), Equal(K(2), F(1))), Ref(3), Equal(K(3), F(2))), <<>>, K(1), F(1), F(3))
\* r <- s <- t by foreign keys of s and t.
Grandchildren == Grouped(Select(<<Rt, St, Tt>>,
  Left(Left(Ref(1), Ref(2), Equal(F(2), K(1))), Ref(3), Equal(F(3), K(2))), <<>>, K(1), F(1), Aggregate(K(3))), {"k", "f"})
\* The key is a column of the nullable side.
KeyFromNullable == Grouped(Select(<<Tt, St, Rt>>,
  Left(Left(Ref(1), Ref(2), Equal(K(2), F(1))), Ref(3), Equal(K(3), F(2))), <<>>, K(3), Nothing, Aggregate(K(1))), {"k"})
\* From the preserved side on by an inequality over the NULLs of no match.
NullableInequality == Grouped(Select(<<Tt, St, Rt>>,
  Inner(Left(Ref(1), Ref(2), Equal(K(2), F(1))), Ref(3), Or(Cmp(F(2), "<", K(3)), Cmp(K(2), "is null", Nothing))),
  <<>>, K(3), Nothing, Aggregate(K(1))), {"k"})
\* An OR, strict or not, over an inner join.
Either == Grouped(Select(<<Rt, Tt>>, Inner(Ref(1), Ref(2), Or(Equal(F(2), K(1)), Equal(K(2), F(1)))),
  <<>>, K(1), Nothing, Aggregate(K(2))), {"k"})
\* t.f < r.k
Below2 == Grouped(Select(<<Rt, Tt>>, Inner(Ref(1), Ref(2), Cmp(F(2), "<", K(1))), <<>>, K(1), Nothing, Aggregate(K(2))), {"k"})
\* WHERE [NOT] EXISTS (SELECT FROM t WHERE t.f = r.k)
ChildOf == Select(<<Tt>>, Ref(1), <<Equal(F(1), OuterK)>>, K(1), Nothing, Nothing)
HasChild == Select(<<Rt>>, Ref(1), <<Exists(TRUE, ChildOf)>>, K(1), F(1), Nothing)
HasNoChild == Select(<<Rt>>, Ref(1), <<Exists(FALSE, ChildOf)>>, K(1), F(1), Nothing)
\* WHERE r.k IN (SELECT t.f FROM t)
SomeF == Select(<<Tt>>, Ref(1), <<>>, F(1), Nothing, Nothing)
IsReferred == Select(<<Rt>>, Ref(1), <<In(TRUE, K(1), SomeF)>>, K(1), F(1), Nothing)
\* s is linked to r only through the t of a subquery.
Between == Select(<<Tt>>, Ref(1), <<Equal(F(1), Var(1, 1, "k")), Equal(K(1), Var(1, 2, "f"))>>, K(1), Nothing, Nothing)
LinkedByExists(positive) == Grouped(Select(<<Rt, St>>, Cross(Ref(1), Ref(2)), <<Exists(positive, Between)>>,
  K(1), Nothing, Aggregate(K(2))), {"k"})
\* SELECT r.k, (SELECT agg(t.f) FROM t WHERE t.k = r.f) FROM r
ShownScalar == Select(<<Rt>>, Ref(1), <<>>, K(1), F(1),
  Scalar(Select(<<Tt>>, Ref(1), <<Equal(K(1), OuterF)>>, K(1), F(1), Nothing)))
\* A tree: t read twice.
Tree == Select(<<Tt, Tt>>, Left(Ref(1), Ref(2), Equal(F(1), K(2))), <<>>, K(1), F(1), F(2))
\* The TVIEW's own UNION, and one whose branch has no key column.
Branches == Union(TRUE, <<Select(<<Tt>>, Ref(1), <<Cmp(F(1), "is null", Nothing)>>, K(1), F(1), Nothing),
  Select(<<Rt, Tt>>, Inner(Ref(1), Ref(2), Equal(K(2), F(1))), <<>>, K(1), F(2), Nothing)>>)
KeylessBranch == Union(TRUE, <<Select(<<Rt>>, Ref(1), <<>>, K(1), F(1), Nothing),
  Select(<<Tt>>, Ref(1), <<>>, Maximum(F(1)), Nothing, Nothing)>>)
\* A UNION read in FROM, joined to r; the duplicates removed.
Members(all) == Union(all, <<Select(<<St>>, Ref(1), <<>>, F(1), Nothing, Nothing),
  Select(<<Tt>>, Ref(1), <<>>, F(1), Nothing, Nothing)>>)
ReadsUnion(all) == Grouped(Select(<<Rt, Sub(Members(all))>>, Left(Ref(1), Ref(2), Equal(K(2), K(1))), <<>>,
  K(1), F(1), Aggregate(K(2))), {"k", "f"})
\* The first t of each f; the last shown through an inner join by its key.
FirstPer == [Select(<<Tt>>, Ref(1), <<>>, K(1), F(1), Nothing) EXCEPT !.distinct = {"f"}]
ReadsFirst == Select(<<Rt, Sub(FirstPer)>>, Left(Ref(1), Ref(2), Equal(F(2), K(1))), <<>>, K(1), F(1), K(2))
ReadsFirstByOther == Grouped(Select(<<Rt, Sub(FirstPer)>>, Left(Ref(1), Ref(2), Equal(K(2), F(1))), <<>>, K(1), F(1), Aggregate(F(2))), {"k", "f"})
\* The rows are named by the f; r is linked to the column of the first t.
FirstJoined == Select(<<Sub(FirstPer), Rt>>, Inner(Ref(1), Ref(2), Equal(K(2), K(1))), <<>>, F(1), F(2), K(2))
\* The rank of each t among those of its f.
RankPer == [Select(<<Tt>>, Ref(1), <<>>, Rank, F(1), K(1)) EXCEPT !.windows = {{"f"}}, !.order = <<"f", "d">>]
ReadsRank == Grouped(Select(<<Rt, Sub(RankPer)>>, Left(Ref(1), Ref(2), Equal(F(2), K(1))), <<>>, K(1), F(1), Aggregate(K(2))), {"k", "f"})
\* The latest t of all.
LatestOne == [Select(<<Tt>>, Ref(1), <<>>, K(1), F(1), Nothing) EXCEPT !.limit = 1]
ReadsLatest == Grouped(Select(<<Rt, Sub(LatestOne)>>, Left(Ref(1), Ref(2), Equal(F(2), K(1))), <<>>, K(1), F(1), Aggregate(K(2))), {"k", "f"})
\* The greatest t of each f, joined by the group key.
GreatestPer == Grouped(Select(<<Tt>>, Ref(1), <<>>, Maximum(K(1)), F(1), Nothing), {"f"})
ReadsGreatest == Select(<<Rt, Sub(GreatestPer)>>, Left(Ref(1), Ref(2), Equal(F(2), K(1))), <<>>, K(1), F(1), K(2))
JoinsGreatest == Select(<<Rt, Sub(GreatestPer)>>, Inner(Ref(1), Ref(2), Equal(K(2), F(1))), <<>>, K(1), F(2), Nothing)
\* The first rows of r: no key root.
FirstRows == [Select(<<Rt>>, Ref(1), <<>>, K(1), F(1), Nothing) EXCEPT !.limit = 1]
\* DISTINCT ON names the rows.
FirstOfEach == [Select(<<Tt, Rt>>, Inner(Ref(1), Ref(2), Equal(F(1), K(2))), <<>>, K(2), F(2), K(1))
                 EXCEPT !.distinct = {"k"}, !.order = <<"k", "d">>]
\* Another TVIEW embedded through its view, by a foreign key of r.
Child == Grouped(Select(<<St, Tt>>, Left(Ref(1), Ref(2), Equal(F(2), K(1))), <<>>, K(1), F(1), Aggregate(K(2))), {"k", "f"})
Embeds(type) == Select(<<Rt, Tview("Child", Child)>>, Join(type, Ref(1), Ref(2), <<Equal(K(2), F(1))>>), <<>>,
  K(1), F(1), Own(2, "d"))
\* The child's key is no output of the embedding TVIEW.
EmbedsUnseen == Grouped(Select(<<Tt, Tview("Child", Child)>>, Inner(Ref(1), Ref(2), Equal(F(2), K(1))), <<>>,
  K(1), Nothing, Aggregate(F(2))), {"k"})

MCDefinitions ==
  "Children" :> Children @@ "Parents" :> Parents @@ "Grandchildren" :> Grandchildren @@
  "KeyFromNullable" :> KeyFromNullable @@ "NullableInequality" :> NullableInequality @@
  "Either" :> Either @@ "Below" :> Below2 @@ "HasChild" :> HasChild @@ "HasNoChild" :> HasNoChild @@
  "IsReferred" :> IsReferred @@ "LinkedByExists" :> LinkedByExists(TRUE) @@
  "LinkedByNotExists" :> LinkedByExists(FALSE) @@ "ShownScalar" :> ShownScalar @@ "Tree" :> Tree @@
  "Branches" :> Branches @@ "KeylessBranch" :> KeylessBranch @@ "ReadsUnion" :> ReadsUnion(TRUE) @@
  "ReadsDistinctUnion" :> ReadsUnion(FALSE) @@ "ReadsFirst" :> ReadsFirst @@ "FirstJoined" :> FirstJoined @@
  "ReadsFirstByOther" :> ReadsFirstByOther @@ "ReadsRank" :> ReadsRank @@ "ReadsLatest" :> ReadsLatest @@
  "ReadsGreatest" :> ReadsGreatest @@ "JoinsGreatest" :> JoinsGreatest @@ "FirstRows" :> FirstRows @@
  "FirstOfEach" :> FirstOfEach @@ "Child" :> Child @@ "EmbedsLeft" :> Embeds("left") @@
  "EmbedsInner" :> Embeds("inner") @@ "EmbedsUnseen" :> EmbedsUnseen
=============================================================================
