----------------------------- MODULE MCTviewFlush -----------------------------
(***************************************************************************)
(* A small instance of the flush: users, the posts embedding their author  *)
(* (nested) and copying their topic, the feed embedding a post.  A user    *)
(* row written reaches the feed through two levels of propagation.         *)
(***************************************************************************)
EXTENDS TviewFlush

CONSTANTS user, post, feed, cat, author, topic, item, i1, i2, v1, v2

MCTable == {user, post, feed, cat}
MCTview == {user, post, feed}
MCOrder == <<user, post, feed>>
MCRef == {author, topic, item}
MCFrom == (author :> post) @@ (topic :> post) @@ (item :> feed)
MCTo == (author :> user) @@ (topic :> cat) @@ (item :> post)
MCPlace == (author :> "nested") @@ (topic :> "copied") @@ (item :> "nested")
MCRowsOf == (user :> {i1, i2}) @@ (post :> {i1, i2}) @@ (feed :> {i1}) @@ (cat :> {i1})

MCRowKey == UNION {{e} \X MCRowsOf[e] : e \in MCTview}
MCAllKey == {<<e, "all">> : e \in MCTview}
MCFanoutKey == {topic} \X MCRowsOf[cat]
MCField == {<<>>, <<author>>, <<topic>>, <<item>>, <<item, author>>, <<item, topic>>}
\* One user with a post in the feed, another without any.
MCBase0 ==
    (user :> [i \in {i1, i2} |-> [own |-> v1, to |-> <<>>]])
 @@ (cat :> [i \in {i1} |-> [own |-> v1, to |-> <<>>]])
 @@ (post :> (i1 :> [own |-> v1, to |-> (author :> i1) @@ (topic :> i1)] @@ i2 :> NoRow))
 @@ (feed :> [i \in {i1} |-> [own |-> v1, to |-> item :> i1]])

\* User triggers on the TVIEWs' tables: writes read by TVIEWs refreshed later,
\* and by the TVIEW written itself; none is read by one refreshed before.
MCTriggers == {<<user, cat>>, <<feed, feed>>}
=============================================================================
