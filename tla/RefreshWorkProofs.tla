-------------------------- MODULE RefreshWorkProofs --------------------------
(***************************************************************************)
(* Lemmas about the operators of RefreshWork: what an enqueue makes of     *)
(* pending work is pending work, and queues its key.                       *)
(***************************************************************************)
EXTENDS RefreshWork, TLAPS

LEMMA SlotTypes ==
    /\ \A k \in Key : QueueSlot(k) \in Slot
    /\ \A k \in RowKey : QueueSlot(k) \in Slot /\ PatchSlot(k) \in Slot
    /\ \A g \in FanoutKey : FanoutSlot(g) \in Slot
    BY DEF Slot, Key, QueueSlot, PatchSlot, FanoutSlot

LEMMA NothingType == Nothing \in Work
    BY DEF Nothing, Work, Content, Fits

\* One write to a slot of what fits it.
LEMMA WriteType ==
    ASSUME NEW w \in Work, NEW s \in Slot, NEW c \in Content, Fits(s, c)
    PROVE  [w EXCEPT ![s] = c] \in Work
    BY DEF Work

\* Merging captured fields into a chain, or starting one, gives a chain:
\* Merged, and so record_fanout, stays within the types.
LEMMA MergedType ==
    ASSUME NEW old \in {Absent} \cup Fields, NEW fields \in Fields
    PROVE  Merged(old, fields) \in Fields
<1>1. CASE old = Absent
    BY <1>1 DEF Merged
<1>2. CASE old # Absent
    <2>1. PICK S \in (SUBSET Field) \ {{}} : old \in [S -> Value]
        BY <1>2 DEF Fields
    <2>2. PICK T \in (SUBSET Field) \ {{}} : fields \in [T -> Value]
        BY DEF Fields
    <2>3. Merged(old, fields) \in [S \cup T -> Value]
        BY <1>2, <2>1, <2>2 DEF Merged
    <2>4. S \cup T \in (SUBSET Field) \ {{}}
        BY <2>1, <2>2
    <2> QED
        BY <2>3, <2>4 DEF Fields
<1> QED
    BY <1>1, <1>2

LEMMA RecordedType ==
    ASSUME NEW old \in {Absent, Poisoned} \cup Fields, NEW fields \in Fields
    PROVE  Recorded(old, fields) \in {Poisoned} \cup Fields
    BY MergedType, Markers DEF Recorded

\* What a patch or a fan-out capture leaves in its slot fits it.
LEMMA CaptureFits ==
    ASSUME NEW w \in Work, NEW fields \in Fields
    PROVE  /\ \A k \in RowKey :
                /\ Recorded(w[PatchSlot(k)], fields) \in Content
                /\ Fits(PatchSlot(k), Recorded(w[PatchSlot(k)], fields))
           /\ \A g \in FanoutKey :
                /\ Merged(w[FanoutSlot(g)], fields) \in Content
                /\ Fits(FanoutSlot(g), Merged(w[FanoutSlot(g)], fields))
<1>1. ASSUME NEW k \in RowKey
      PROVE  /\ Recorded(w[PatchSlot(k)], fields) \in Content
             /\ Fits(PatchSlot(k), Recorded(w[PatchSlot(k)], fields))
    <2>1. w[PatchSlot(k)] \in {Absent, Poisoned} \cup Fields
        BY SlotTypes DEF Work, Fits, PatchSlot
    <2> QED
        BY <2>1, RecordedType DEF Content, Fits, PatchSlot
<1>2. ASSUME NEW g \in FanoutKey
      PROVE  /\ Merged(w[FanoutSlot(g)], fields) \in Content
             /\ Fits(FanoutSlot(g), Merged(w[FanoutSlot(g)], fields))
    <2>1. w[FanoutSlot(g)] \in {Absent} \cup Fields
        BY SlotTypes DEF Work, Fits, FanoutSlot
    <2> QED
        BY <2>1, MergedType DEF Content, Fits, FanoutSlot
<1> QED
    BY <1>1, <1>2

\* A row's key enqueued is queued, with nothing but poison to ride on it.
LEMMA EnqueuedWork ==
    ASSUME NEW w \in Work, NEW k \in RowKey
    PROVE  /\ Enqueued(w, k) \in Work
           /\ QueueOf(Enqueued(w, k)) = QueueOf(w) \cup {k}
           /\ \A l \in RowKey : Enqueued(w, k)[PatchSlot(l)]
                                  = IF l = k THEN Poisoned ELSE w[PatchSlot(l)]
<1> DEFINE queued == [w EXCEPT ![QueueSlot(k)] = Queued]
<1>1. queued \in Work
    BY SlotTypes, WriteType DEF Content, Fits, QueueSlot
<1>2. Enqueued(w, k) = [queued EXCEPT ![PatchSlot(k)] = Poisoned]
    BY DEF Enqueued
<1>3. Enqueued(w, k) \in Work
    <2>1. Fits(PatchSlot(k), Poisoned) /\ Poisoned \in Content
        BY DEF Content, Fits, PatchSlot
    <2>2. [queued EXCEPT ![PatchSlot(k)] = Poisoned] \in Work
        BY <1>1, <2>1, SlotTypes, WriteType
    <2> QED
        BY <1>2, <2>2
<1>4. \A l \in Key : Enqueued(w, k)[QueueSlot(l)] = IF l = k THEN Queued ELSE w[QueueSlot(l)]
    BY SlotTypes DEF Enqueued, Work, QueueSlot, PatchSlot
<1>5. \A l \in RowKey : Enqueued(w, k)[PatchSlot(l)] = IF l = k THEN Poisoned ELSE w[PatchSlot(l)]
    BY SlotTypes DEF Enqueued, Work, QueueSlot, PatchSlot
<1> QED
    <2>1. k \in Key
        BY DEF Key
    <2>2. QueueOf(Enqueued(w, k)) = QueueOf(w) \cup {k}
        BY <1>4, <2>1 DEF QueueOf
    <2> QED
        BY <1>3, <1>5, <2>2

\* So is one captured as a patch.
LEMMA EnqueuedPatchedWork ==
    ASSUME NEW w \in Work, NEW k \in RowKey, NEW fields \in Fields
    PROVE  /\ EnqueuedPatched(w, k, fields) \in Work
           /\ QueueOf(EnqueuedPatched(w, k, fields)) = QueueOf(w) \cup {k}
<1> DEFINE queued == [w EXCEPT ![QueueSlot(k)] = Queued]
           patch == Recorded(w[PatchSlot(k)], fields)
<1>1. queued \in Work
    BY SlotTypes, WriteType DEF Content, Fits, QueueSlot
<1>2. EnqueuedPatched(w, k, fields) = [queued EXCEPT ![PatchSlot(k)] = patch]
    BY SlotTypes DEF EnqueuedPatched, Work, QueueSlot, PatchSlot
<1>3. EnqueuedPatched(w, k, fields) \in Work
    <2>1. Fits(PatchSlot(k), patch) /\ patch \in Content
        BY CaptureFits
    <2>2. [queued EXCEPT ![PatchSlot(k)] = patch] \in Work
        BY <1>1, <2>1, SlotTypes, WriteType
    <2> QED
        BY <1>2, <2>2
<1>4. \A l \in Key : EnqueuedPatched(w, k, fields)[QueueSlot(l)]
                       = IF l = k THEN Queued ELSE w[QueueSlot(l)]
    BY SlotTypes DEF EnqueuedPatched, Work, QueueSlot, PatchSlot
<1> QED
    <2>1. k \in Key
        BY DEF Key
    <2>2. QueueOf(EnqueuedPatched(w, k, fields)) = QueueOf(w) \cup {k}
        BY <1>4, <2>1 DEF QueueOf
    <2> QED
        BY <1>3, <2>2
=============================================================================
