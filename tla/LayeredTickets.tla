--------------------------- MODULE LayeredTickets ---------------------------
(***************************************************************************)
(* The layered FIFO read as a pipeline of numbered tickets, and what that  *)
(* reading shows: it implements Pipeline, its refusals are honest, and     *)
(* nothing that entered it is left behind.                                 *)
(***************************************************************************)
EXTENDS Layered, FiniteSetsExt

Capacity == NumBlocks * BlockSize

(* All words start in version 0.  Block 0 is opened again in version 1;    *)
(* the blocks after it, reached by a head of version 1, are opened again   *)
(* in version 2.                                                           *)
Round(b, v) == IF b = 0 \/ v = 0 THEN v ELSE v - 1

Ticket(b, v, s) == (Round(b, v) * NumBlocks + b) * BlockSize + s

(* Slots a word has counted in its block, over all the rounds.             *)
Counted(word, b) == Round(b, word[b].v) * BlockSize + word[b].i

(* The ticket after the last one the word has counted in any block.        *)
NextTicket(word) ==
    Max({0} \cup {Ticket(b, word[b].v, word[b].i) : b \in {b \in Blocks : word[b] # Zero}})

HeldTicket(t) ==
    IF Holding(t) THEN Ticket(Block(t), seen[t].v, seen[t].i) ELSE -1

SlotValue(b, s) ==
    LET e == entries[b][s] IN IF e = <<>> THEN <<>> ELSE <<Ticket(b, e[1], s), e[2]>>

Tickets == INSTANCE Pipeline WITH
    Depth   <- NumLayers,
    Workers <- [l \in Layers |-> {t \in Threads : Layer(t) = l}],
    next    <- [l \in Layers |-> NextTicket(take[l])],
    holding <- [t \in Threads |-> HeldTicket(t)],
    slots   <- [k \in 0 .. Capacity - 1 |-> SlotValue(k \div BlockSize, k % BlockSize)]

(* src/fifo_inner.rs, get_entry: the ring of blocks is a pipeline.  Every  *)
(* layer gets every ticket, once, in order, after the layer it chases has  *)
(* given it back, and finds in its slot what that layer left there.        *)
ImplementsPipeline == Tickets!Spec

(* The producers wait for the last layer to open the block they are in.    *)
(* They compare with the version before, and a block after block 0 has no  *)
(* version 1: at its first slot in version 2 they find the last layer two  *)
(* versions behind, though it may be through with the block in version 0.  *)
AwaitsReopening(t) ==
    /\ Layer(t) = 0 /\ Block(t) # 0 /\ seen[t] = FromParts(2, 0)
    /\ ChasingGive(t, Block(t)).v = 0

(* src/block.rs, reserve_in_layer, NotAvailable: a call is told that       *)
(* nothing is available only when the layer it chases really has not given *)
(* back the next ticket, which is for the producers the one a round        *)
(* before; but for the producers at the first slot of a block that the     *)
(* last layer has not opened in version 2.                                 *)
NotAvailableIsHonest ==
    [][ \A t \in Threads :
          ReportNotAvailable(t) /\ ~ AwaitsReopening(t) =>
              ~ Tickets!Ready(Layer(t), NextTicket(take[Layer(t)])) ]_vars

(* A thread of the layer that t chases is at work in the block.            *)
BeingWorked(t, block) ==
    \E u \in Threads : /\ Layer(u) = Chased(Layer(t))
                       /\ \/ Holding(u) /\ Block(u) = block
                          \/ pc[u] = "reset_take" /\ NextBlock(u) = block

(* src/fifo_inner.rs, advance_head, "The pair we are chasing is currently  *)
(* writing": Busy, there and in reserve_in_layer, is told only when a      *)
(* thread of the chased layer holds a slot of the block or is opening it,  *)
(* or has given one since its give was loaded.                             *)
BusyIsHonest ==
    [][ \A t \in Threads :
          /\ ReportBusy(t) =>
                 ChasingGive(t, Block(t)) # mark[t] \/ BeingWorked(t, Block(t))
          /\ ReportBusyAdvance(t) =>
                 ChasingGive(t, NextBlock(t)) # mark[t] \/ BeingWorked(t, NextBlock(t)) ]_vars

(* The retry loops of src/bin and tests/loom.rs: however the threads are   *)
(* scheduled the ring never wedges.  The producers fill every slot of      *)
(* every round and every layer finishes what they pushed.                  *)
NeverWedges == /\ <>(heads[0].v > MaxRound /\ NextTicket(take[0]) >= (MaxRound + 1) * Capacity)
               /\ <>[](/\ \A t \in Threads : Layer(t) = 0 => pc[t] = "idle"
                       /\ \A b \in Blocks : Counted(give[NumLayers - 1], b) = Counted(take[0], b))
=============================================================================
