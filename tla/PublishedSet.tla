----------------------------- MODULE PublishedSet -----------------------------
(***************************************************************************)
(* The changed TVIEW rows a transaction publishes at commit                *)
(* (queue/published.rs), and the messages that carry them (publish.rs).    *)
(*                                                                         *)
(* Comments belong to a collection per post. A write names the posts its   *)
(* comment belongs to, by key, or by public id when it read it; the flush  *)
(* resolves the others. Sizes are counted in units: an id, a key, a name   *)
(* are one each.                                                           *)
(***************************************************************************)
EXTENDS RowChanges

CONSTANTS
    Post, Comment,  \* keys of tv_post and tv_comment
    NoId,           \* the types of TVIEWs without an id column
    KeptBytes,      \* what a transaction keeps
    MessageBytes,   \* what a message carries
    MaxMessages,    \* the messages of a transaction
    EmptyLen        \* what an empty message takes

VARIABLES
    mode,           \* pg_tviews.publish_changes: rows, types
    entries,        \* the writes kept, each [row, change]
    members,        \* the posts they name, each [key, parent]
    resolved,       \* members up to here are resolved
    bytes,          \* what entries and members take
    types,          \* types published by name only
    setMarks        \* where each open subtransaction started

pvars == <<mode, entries, members, resolved, bytes, types, setMarks>>

FeedRow == ({"Post"} \X Post) \cup ({"Comment"} \X Comment)

Set == [entries |-> entries, members |-> members, bytes |-> bytes, types |-> types]

Become(set) ==
    /\ entries' = set.entries
    /\ members' = set.members
    /\ bytes' = set.bytes
    /\ types' = set.types

PublishedInit ==
    /\ mode \in {"rows", "types"}
    /\ entries = <<>> /\ members = <<>>
    /\ resolved = 0 /\ bytes = 0
    /\ types = {}
    /\ setMarks = <<>>

-----------------------------------------------------------------------------
(* Adding a write. *)

Named(set, type) == [set EXCEPT !.types = @ \cup {type}]

Seen(set, key) == \E i \in 1..Len(set.members) : set.members[i].key = key

\* A post a comment belongs to, or belonged to before the write: once.
AddParent(set, p) ==
    LET size == IF p.known THEN 2 ELSE 1
        parent == IF p.known THEN "id" ELSE "key"
    IN  IF "Comment" \in set.types THEN set
        ELSE IF "Post" \in NoId \/ set.bytes + size > KeptBytes THEN Named(set, "Comment")
        ELSE IF Seen(set, p.key) THEN set
        ELSE [set EXCEPT !.bytes = @ + size,
                         !.members = Append(@, [key |-> p.key, parent |-> parent])]

\* A row's write, naming `parents`.
AddedTo(set, row, change, parents) ==
    IF row[1] \in set.types THEN set
    ELSE IF mode = "types" \/ row[1] \in NoId \/ set.bytes + 1 > KeptBytes THEN Named(set, row[1])
    ELSE FoldLeft(AddParent,
                  [set EXCEPT !.bytes = @ + 1,
                              !.entries = Append(@, [row |-> row, change |-> change])],
                  parents)

Add(row, change, parents) ==
    /\ Become(AddedTo(Set, row, change, parents))
    /\ UNCHANGED <<mode, resolved, setMarks>>

AddType(type) ==
    /\ types' = types \cup {type}
    /\ UNCHANGED <<mode, entries, members, resolved, bytes, setMarks>>

\* Posts whose id the transaction's own writes tell.
WrittenIds == {entries[i].row[2] : i \in {j \in 1..Len(entries) : entries[j].row[1] = "Post"}}

\* The end of a flush: the keys left get the id of their post, written by the
\* transaction or found by query, in order; no post, no id.
Settle(set, found) ==
    LET settled(s, i) ==
            IF s.members[i].parent # "key" THEN s
            ELSE IF s.members[i].key \notin found THEN [s EXCEPT !.members[i].parent = "gone"]
            ELSE IF s.bytes + 1 <= KeptBytes
            THEN [s EXCEPT !.members[i].parent = "id", !.bytes = @ + 1]
            ELSE Named([s EXCEPT !.members[i].parent = "gone"], "Comment")
    IN  FoldLeft(settled, set, [n \in 1..(Len(set.members) - resolved) |-> resolved + n])

Resolve(posts) ==
    /\ Become(Settle(Set, posts \cup WrittenIds))
    /\ resolved' = Len(members)
    /\ UNCHANGED <<mode, setMarks>>

-----------------------------------------------------------------------------
(* Savepoints. *)

PublishedMark ==
    /\ setMarks' = Append(setMarks, [position |-> Len(entries), members |-> Len(members),
                                     bytes |-> bytes, types |-> types])
    /\ UNCHANGED <<mode, entries, members, resolved, bytes, types>>

PublishedRelease ==
    /\ setMarks # <<>>
    /\ setMarks' = Front(setMarks)
    /\ UNCHANGED <<mode, entries, members, resolved, bytes, types>>

\* Broken variant: the members of rolled-back writes are kept.
PublishedRollbackEntries ==
    /\ setMarks # <<>>
    /\ LET mark == Last(setMarks) IN
        /\ setMarks' = Front(setMarks)
        /\ entries' = entries
        /\ members' = SubSeq(members, 1, mark.members)
        /\ resolved' = IF resolved < mark.members THEN resolved ELSE mark.members
        /\ bytes' = mark.bytes
        /\ types' = mark.types
    /\ UNCHANGED mode

PublishedRollback ==
    /\ setMarks # <<>>
    /\ LET mark == Last(setMarks) IN
        /\ setMarks' = Front(setMarks)
        /\ entries' = SubSeq(entries, 1, mark.position)
        /\ members' = SubSeq(members, 1, mark.members)
        /\ resolved' = IF resolved < mark.members THEN resolved ELSE mark.members
        /\ bytes' = mark.bytes
        /\ types' = mark.types
    /\ UNCHANGED mode

PublishedClear ==
    /\ entries' = <<>> /\ members' = <<>>
    /\ resolved' = 0 /\ bytes' = 0
    /\ types' = {}
    /\ setMarks' = <<>>
    /\ UNCHANGED mode

PublishedEmpty == entries = <<>> /\ types = {} /\ members = <<>>

-----------------------------------------------------------------------------
(* What is published. *)

\* A post never resolved cannot be named: its comments' type is.
NamedTypes ==
    types \cup {"Comment" : i \in {j \in 1..Len(members) : members[j].parent = "key"}}

Unique(s) == FoldLeft(LAMBDA seq, x : IF Contains(seq, x) THEN seq ELSE Append(seq, x), <<>>, s)

\* Rows of types not named whose net change is one of `changes`, in the order
\* first written.
RowsOf(named, type, changes) ==
    IF type \in named THEN <<>>
    ELSE SelectSeq(Unique([i \in 1..Len(entries) |-> entries[i].row]),
                   LAMBDA r : r[1] = type /\ NetChange(entries, r) \in changes)

Ids(section, type, list) ==
    [i \in 1..Len(list) |-> [section |-> section, type |-> type, id |-> list[i]]]

Listed(named) ==
    IF "Comment" \in named THEN <<>>
    ELSE LET linked == SelectSeq(members, LAMBDA m : m.parent = "id")
         IN  [i \in 1..Len(linked) |-> linked[i].key]

\* The ids to send: rows upserted, deleted, collections, types in name order.
Folded ==
    LET named == NamedTypes
        rows(section, changes) ==
            Ids(section, "Comment", RowsOf(named, "Comment", changes))
            \o Ids(section, "Post", RowsOf(named, "Post", changes))
    IN  rows("u", {"inserted", "updated"}) \o rows("d", {"deleted"})
        \o Ids("c", "Comment", Listed(named))

-----------------------------------------------------------------------------
(* The messages. *)

NoMessage == [ids |-> <<>>, types |-> {}, len |-> EmptyLen]

\* A first id under a name takes the name too, and a section's first its own.
Cost(message, x) ==
    LET mine == SelectSeq(message.ids, LAMBDA y : y.section = x.section)
    IN  IF mine = <<>> THEN 3 ELSE IF Last(mine).type = x.type THEN 1 ELSE 2

Pushed(message, x) == [message EXCEPT !.ids = Append(@, x), !.len = @ + Cost(message, x)]

SetLast(seq, m) == Append(Front(seq), m)

\* One id more, in the last message that has room, or its type by name.
Put(max, reserve, s, x) ==
    LET last == Last(s.messages)
        full == Len(s.messages) = max
        budget == IF full THEN MessageBytes - reserve ELSE MessageBytes
        left == [s EXCEPT !.left = @ \cup {x.type}]
    IN  IF x.type \in s.left THEN s
        ELSE IF Cost(NoMessage, x) > MessageBytes - reserve THEN left
        ELSE IF last.len + Cost(last, x) <= budget
        THEN [s EXCEPT !.messages = SetLast(@, Pushed(last, x))]
        ELSE IF full THEN left
        ELSE [s EXCEPT !.messages = Append(@, Pushed(NoMessage, x))]

\* The types left, in the last message or one of their own.
WithTypes(messages, left) ==
    LET size == Cardinality(left)
        last == Last(messages)
        add(m) == [m EXCEPT !.types = left, !.len = @ + size]
    IN  IF left = {} THEN messages
        ELSE IF last.len + size <= MessageBytes THEN SetLast(messages, add(last))
        ELSE Append(messages, add(NoMessage))

TypesOnly(all) == <<[NoMessage EXCEPT !.types = all, !.len = @ + Cardinality(all)]>>

Encoded(max) ==
    LET list == Folded
        all == NamedTypes \cup {list[i].type : i \in 1..Len(list)}
        reserve == Cardinality(all)
        s == FoldLeft(LAMBDA t, x : Put(max, reserve, t, x),
                      [messages |-> <<NoMessage>>, left |-> NamedTypes], list)
    IN  IF all = {} THEN <<>>
        ELSE IF mode = "types" \/ 2 * (reserve + EmptyLen) > MessageBytes THEN TypesOnly(all)
        ELSE WithTypes(s.messages, s.left)

\* What a listener reads of them: the ids of a section, the types.
Sent(messages, section) ==
    UNION {{messages[i].ids[n].id : n \in {k \in 1..Len(messages[i].ids) :
                                             messages[i].ids[k].section = section}} :
           i \in 1..Len(messages)}

SentTypes(messages) == UNION {messages[i].types : i \in 1..Len(messages)}
=============================================================================
