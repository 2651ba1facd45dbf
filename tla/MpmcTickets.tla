----------------------------- MODULE MpmcTickets -----------------------------
(***************************************************************************)
(* The ring of blocks of Mpmc read as a bounded FIFO of numbered tickets,  *)
(* and what that reading shows: the ring implements Pipeline, its error    *)
(* returns are honest, and nothing pushed is left behind.                  *)
(***************************************************************************)
EXTENDS Mpmc, FiniteSetsExt

Capacity == NumBlocks * BlockSize

(* Block 0 starts empty in version 0, the others start as if version 0 of  *)
(* them had been filled and drained, and are opened for the first time in  *)
(* version 1: so version v of a block b > 0 is its round v - 1.            *)
Round(b, v) == IF b = 0 THEN v ELSE v - 1

Ticket(b, v, s) == (Round(b, v) * NumBlocks + b) * BlockSize + s

(* Slots a word has counted in its block, over all the rounds.             *)
Counted(word, b) ==
    Round(b, word[b].v) * BlockSize + (IF BlockDone(word[b]) THEN BlockSize ELSE word[b].i)

(* The ticket after the last one the word has counted in any block.        *)
NextTicket(word) ==
    Max({Ticket(b, word[b].v, IF BlockDone(word[b]) THEN BlockSize ELSE word[b].i) : b \in Blocks})

HeldTicket(t) == IF Holding(t) THEN Ticket(Block(t), seen[t].v, seen[t].i) ELSE -1

SlotValue(b, s) == IF entries[b][s] = Absent THEN <<>> ELSE <<Ticket(b, entries[b][s], s), 0>>

(* A pipeline of two layers, the producers and the consumers.              *)
Tickets == INSTANCE Pipeline WITH
    Depth   <- 2,
    Workers <- [l \in 0 .. 1 |-> IF l = 0 THEN Producers ELSE Consumers],
    next    <- [l \in 0 .. 1 |-> NextTicket(IF l = 0 THEN allocated ELSE reserved)],
    holding <- [t \in Threads |-> HeldTicket(t)],
    slots   <- [k \in 0 .. Capacity - 1 |-> SlotValue(k \div BlockSize, k % BlockSize)]

(* mpmc/fifo_inner.rs, push and pop: the ring of blocks is a bounded FIFO. *)
(* Every push gets a slot of its own, in ticket order; every value pushed  *)
(* is popped at most once, in the order of the tickets; nothing else is    *)
(* ever popped; and a slot goes back to producers only after its reader is *)
(* done with it.                                                           *)
ImplementsFifo == Tickets!Spec

(* mpmc/fifo_inner.rs, advance_phead: a push is refused (Full or Busy) only *)
(* while the oldest value or entry still in the ring is more than all its  *)
(* blocks but one behind the newest, even when the phead the call loaded   *)
(* is old by the time it decides.                                          *)
RefusalsAreHonest ==
    [][ \A p \in Producers :
          pc[p] = "check_consumed" /\ pc'[p] = "check_reserved" =>
              \E n \in 0 .. NextTicket(allocated) - (Capacity - BlockSize) - 1 :
                  ~ Tickets!Finished(1, n) ]_vars

(* mpmc/block.rs, reserve_entry and fifo_inner.rs, advance_chead: to a lone *)
(* consumer Empty means that there is no finished push it could have had:  *)
(* the ring is empty, or the oldest push in it is still under way.         *)
EmptyIsHonest ==
    [][ \A c \in Consumers :
          ReportEmptyBlock(c) \/ ReportEmptyRing(c) =>
              ~ Tickets!Ready(1, NextTicket(reserved)) ]_vars

(* mpmc/fifo_inner.rs, push and pop: when callers repeat what failed, the  *)
(* ring never wedges, however they are scheduled.  The producers fill      *)
(* every slot of every round, and what they pushed is popped and its slot  *)
(* given back.                                                             *)
NeverWedges == /\ <>(phead.v > MaxRound /\ NextTicket(allocated) >= (MaxRound + 1) * Capacity)
               /\ <>[](/\ \A p \in Producers : pc[p] = "idle"
                       /\ \A b \in Blocks : Counted(consumed, b) = Counted(allocated, b))
=============================================================================
