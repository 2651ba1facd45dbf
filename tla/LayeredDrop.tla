----------------------------- MODULE LayeredDrop -----------------------------
(***************************************************************************)
(* What dropping the last handle of a layered FIFO does to its slots       *)
(* (Block::drop_in).  No call is in flight, and nothing happens to the     *)
(* ring afterwards: the drop is a function of the state it finds.          *)
(***************************************************************************)
EXTENDS Layered

AllIdle == \A t \in Threads : pc[t] = "idle"

(* x[l] of drop_in.                                                        *)
Given(l, b) == give[l][b].i

Panics(b) == \E l \in Layers : Given(l, b) < take[l][b].i

(* The calls indexed_drop(index), as <<where from, slot, index>>: on the   *)
(* slots between a layer and the layer it chases ...                       *)
DropsBetween(b) ==
    {d \in {"between"} \X Slots \X Layers :
        Given(d[3], b) <= d[2] /\ d[2] < Given(Chased(d[3]), b)}

(* ... and on the slots outside all of them.                               *)
DropsOutside(b) == {<<"before", s, s>> : s \in {s \in Slots : s < Given(0, b)}}
                       \cup {<<"after", s, s>> : s \in {s \in Slots : s >= Given(NumLayers - 1, b)}}

(* IndexedDrop::indexed_drop: an index that is no tag forgets the value.   *)
Forgets(index) == index \notin Layers

(* src/block.rs, drop_in: a ring no thread is using never looks in use.    *)
DropNeverPanics == AllIdle => \A b \in Blocks : ~ Panics(b)

(* config.rs:30-31, "Attempts to convert an index to a Tag and call        *)
(* tagged_drop.  If this fails, we assume the memory is uninitialized":    *)
(* a slot is dropped only as the variant that was written to it, and once. *)
(* What the last layer leaves is (), which it does no harm to drop.        *)
DropsAsWritten ==
    AllIdle => \A b \in Blocks :
        LET Drops == {d \in DropsBetween(b) \cup DropsOutside(b) :
                          ~ Forgets(d[3]) /\ d[3] # NumLayers - 1}
        IN  /\ \A d \in Drops : entries[b][d[2]] # <<>> /\ entries[b][d[2]][2] = d[3]
            /\ \A d, e \in Drops : d[2] = e[2] => d = e
=============================================================================
