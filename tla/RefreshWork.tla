----------------------------- MODULE RefreshWork -----------------------------
(***************************************************************************)
(* The refresh work a transaction has pending (`Pending` of                *)
(* src/queue/state.rs): the keys to refresh, the direct patch or the       *)
(* poison riding on each, and the fan-out fields per parent key.           *)
(*                                                                         *)
(* The three maps are one function over their slots: <<"queue", k>> holds  *)
(* Queued when k is in `queue`, <<"patch", k>> the PatchState of k in      *)
(* `patches`, <<"fanout", g>> the fields of g in `fanout`; a slot no map   *)
(* holds is Absent.  A chain of patches is a partial function from fields  *)
(* (a JSONB path and a name) to values: entries of one prefix merge, those *)
(* of distinct prefixes are distinct fields.                               *)
(***************************************************************************)
EXTENDS Integers, FiniteSets, SequencesExt

CONSTANTS
    RowKey,      \* refresh keys naming one row of a TVIEW
    AllKey,      \* refresh keys naming every row of an entity (KeyValue::All)
    FanoutKey,   \* (entity, lookup column, parent key): the targets of a fan-out
    Field,       \* the paths of `data` a patch may write
    Value,       \* their values
    Absent, Queued, Poisoned

Key == RowKey \cup AllKey

Slot == ({"queue"} \X Key) \cup ({"patch"} \X RowKey)
                           \cup ({"fanout"} \X FanoutKey)

\* The fields one write captures: never none.
Fields == UNION {[S -> Value] : S \in (SUBSET Field) \ {{}}}

Content == {Absent, Queued, Poisoned} \cup Fields

\* What a slot of each map may hold.
Fits(s, c) ==
    \/ c = Absent
    \/ s[1] = "queue" /\ c = Queued
    \/ s[1] = "patch" /\ c \in {Poisoned} \cup Fields
    \/ s[1] = "fanout" /\ c \in Fields

Work == {w \in [Slot -> Content] : \A s \in Slot : Fits(s, w[s])}

\* The markers are three values, none of them a patch.
ASSUME Markers ==
    /\ Absent # Queued /\ Absent # Poisoned /\ Queued # Poisoned
    /\ {Absent, Queued, Poisoned} \cap Fields = {}

ASSUME KeysApart == RowKey \cap AllKey = {}

QueueSlot(k) == <<"queue", k>>
PatchSlot(k) == <<"patch", k>>
FanoutSlot(g) == <<"fanout", g>>

Nothing == [s \in Slot |-> Absent]

QueueOf(w) == {k \in Key : w[QueueSlot(k)] = Queued}

\* Pending::is_empty: the three maps are.
IsEmpty(w) == \A s \in Slot : w[s] = Absent

\* The later value wins per field.
Merged(old, fields) ==
    IF old = Absent THEN fields
    ELSE [f \in DOMAIN old \cup DOMAIN fields |->
            IF f \in DOMAIN fields THEN fields[f] ELSE old[f]]

\* patch::record: poison is sticky, a chain takes the fields, none starts one.
Recorded(old, fields) ==
    IF old = Poisoned THEN Poisoned ELSE Merged(old, fields)

-----------------------------------------------------------------------------
(* What each enqueue of src/queue/ops.rs makes of the work, where its queue    *)
(* limit and its undo log do not matter.                                   *)

Enqueued(w, k) ==
    [w EXCEPT ![QueueSlot(k)] = Queued, ![PatchSlot(k)] = Poisoned]

EnqueuedPatched(w, k, fields) ==
    [w EXCEPT ![QueueSlot(k)] = Queued, ![PatchSlot(k)] = Recorded(@, fields)]

EnqueuedAll(w, k) == [w EXCEPT ![QueueSlot(k)] = Queued]

EnqueuedBulk(w, keys) ==
    [s \in Slot |-> IF s[1] = "queue" /\ s[2] \in keys THEN Queued
                    ELSE IF s[1] = "patch" /\ s[2] \in keys THEN Poisoned
                    ELSE w[s]]

FannedOut(w, g, fields) == [w EXCEPT ![FanoutSlot(g)] = Merged(@, fields)]
=============================================================================
