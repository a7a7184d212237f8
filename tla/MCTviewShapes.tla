---------------------------- MODULE MCTviewShapes ----------------------------
(***************************************************************************)
(* An instance of the flush with the other ways a TVIEW reads another: a   *)
(* post embeds two users (no path patch can tell them apart), a digest     *)
(* reads a value of a post, a list aggregates posts, a statistic reads     *)
(* tv_list as it would a base table.                                       *)
(***************************************************************************)
EXTENDS TviewFlush

CONSTANTS
    user, post, digest, list, stat,
    author, editor, lead, element, subject,
    i1, i2, v1, v2

MCTable == {user, post, digest, list, stat}
MCOrder == <<user, post, digest, list, stat>>
MCRef == {author, editor, lead, element, subject}
MCFrom == (author :> post) @@ (editor :> post) @@ (lead :> digest)
          @@ (element :> list) @@ (subject :> stat)
MCTo == (author :> user) @@ (editor :> user) @@ (lead :> post)
        @@ (element :> post) @@ (subject :> list)
MCPlace == (author :> "nested") @@ (editor :> "nested") @@ (lead :> "scalar")
           @@ (element :> "array") @@ (subject :> "mapped")

MCRowsOf == [t \in MCTable |-> IF t = user THEN {i1, i2} ELSE {i1}]

MCRowKey == UNION {{e} \X MCRowsOf[e] : e \in MCTable}
MCAllKey == {<<e, "all">> : e \in MCTable}
MCField ==
    {<<>>, <<author>>, <<editor>>, <<lead>>, <<subject>>, <<element>>,
     <<element, author>>, <<element, editor>>}

MCBase0 ==
    (user :> [i \in {i1, i2} |-> [own |-> v1, to |-> <<>>]])
 @@ (post :> (i1 :> [own |-> v1, to |-> (author :> i1) @@ (editor :> i2)]))
 @@ (digest :> (i1 :> [own |-> v1, to |-> lead :> i1]))
 @@ (list :> (i1 :> [own |-> v1, to |-> element :> i1]))
 @@ (stat :> (i1 :> [own |-> v1, to |-> subject :> i1]))
=============================================================================
