------------------------------ MODULE MpmcDrop ------------------------------
(***************************************************************************)
(* What dropping the last handle of an Mpmc ring does to its slots         *)
(* (FastFifoInner::drop and Block::drop), and what printing it takes for   *)
(* values (Block::fmt).  Every entry borrows the ring, so that no call is  *)
(* in flight when it is dropped, and nothing happens to it afterwards.     *)
(* Printing needs only a shared reference; it is read here in a ring that  *)
(* nobody else is using.  Both are functions of the state they find.       *)
(***************************************************************************)
EXTENDS Mpmc

AllIdle == \A t \in Threads : pc[t] = "idle"

(* The slots whose value Block::drop drops; it compares indices alone.     *)
Dropped(b) == {s \in Slots : s < committed[b].i /\ s >= reserved[b].i}

(* Block::drop panics at a slot it takes to be in a thread's hands.        *)
Panics(b) ==
    \E s \in Slots \ Dropped(b) : \/ s >= committed[b].i /\ s < allocated[b].i
                                  \/ s < reserved[b].i /\ s >= consumed[b].i

AllDone(b) == /\ BlockDone(allocated[b]) /\ BlockDone(committed[b])
              /\ BlockDone(consumed[b]) /\ BlockDone(reserved[b])

(* Variant: a block that has been drained is not told from one that has    *)
(* been opened since.                                                      *)
ShownAnyway(b) == {s \in Slots : /\ s < allocated[b].i /\ s < committed[b].i
                                 /\ \/ s >= reserved[b].i
                                    \/ consumed[b].i = BlockSize /\ reserved[b].i = BlockSize}

(* The slots Block::fmt reads a value from, to print it; and, since it     *)
(* moves it out of the slot to print it, to drop it after that.            *)
Shown(b) == {s \in Slots : /\ s < allocated[b].i /\ ~ AllDone(b) /\ s < committed[b].i
                           /\ \/ s >= reserved[b].i
                              \/ consumed[b].i = BlockSize /\ reserved[b].i = BlockSize}

Live(b) == {s \in Slots : entries[b][s] # Absent}

(* mpmc/block.rs, Block::drop: a ring no thread is using never looks in    *)
(* use, whatever overshoot producers left in allocated and however far the *)
(* producers' words are a version ahead of the consumers'.                 *)
DropNeverPanics == AllIdle => \A b \in Blocks : ~ Panics(b)

(* mpmc/block.rs, Block::drop: only initialised values are dropped, never  *)
(* one that a consumer has moved out.                                      *)
DropsOnlyLiveValues == AllIdle => \A b \in Blocks : Dropped(b) \subseteq Live(b)

(* mpmc/block.rs, Block::fmt: only initialised values are read and printed *)
(* from a ring no thread is using.                                         *)
ShowsOnlyLiveValues == AllIdle => \A b \in Blocks : Shown(b) \subseteq Live(b)

(* mpmc/block.rs:148, "Drop the valid values inside self."                 *)
DropsEveryLiveValue == AllIdle => \A b \in Blocks : Live(b) \subseteq Dropped(b)
=============================================================================
