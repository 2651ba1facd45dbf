-------------------------------- MODULE Mpmc --------------------------------
(***************************************************************************)
(* The multi-producer multi-consumer FIFO of src/mpmc: a ring of blocks,   *)
(* each with four shared words.  allocated and reserved hand the slots of  *)
(* a block out to producers and consumers, committed and consumed count    *)
(* the slots they have finished with.  phead and chead say which block     *)
(* producers and consumers are at.                                         *)
(*                                                                         *)
(* Every atomic operation of the code is one action, so that the calls of  *)
(* different threads interleave between any two of them.  A thread is one  *)
(* call in flight: an operating-system thread that holds on to an entry    *)
(* while it makes further calls is several threads of the model.  Memory   *)
(* is sequentially consistent.                                             *)
(***************************************************************************)
EXTENDS Integers, FiniteSets, Field

CONSTANTS Producers, \* threads that push
          Consumers, \* threads that pop
          Careless,  \* threads that may drop an entry unused
          NumBlocks, \* blocks in the ring
          BlockSize, \* slots in a block
          IndexSpan, \* indices the index bits of a block's words can hold
          MaxRound   \* no push starts once the producers have gone round this often

ASSUME ThreadAssumption == Producers \cap Consumers = {}

(* The entry of try_get_producer_entry or try_get_consumer_entry is just   *)
(* dropped; or the closure of push_in_place or pop_in_place panics before  *)
(* it touches the slot.  Liveness is about callers that go on after that.  *)
ASSUME CarelessAssumption == Careless \subseteq Producers \cup Consumers

(* FastFifoInner::new asserts num_blocks > 1.                              *)
ASSUME RingAssumption == /\ NumBlocks \in Nat /\ NumBlocks > 1
                         /\ BlockSize \in Nat /\ BlockSize > 0
                         /\ MaxRound \in Nat

(* Field::version_shift: the least power of two above block_size; the      *)
(* proofs need only that block_size itself fits.                           *)
ASSUME SpanAssumption == /\ IndexSpan \in Nat
                         /\ BlockSize < IndexSpan /\ IndexSpan <= 2 * BlockSize

VARIABLES phead, chead,                           \* which block, by version
          allocated, committed, reserved, consumed, \* per block
          entries, \* per block and slot: the version of the value in it, or Absent
          pc,      \* per thread: the atomic operation it does next
          head,    \* per thread: the head it loaded
          seen,    \* per thread: the word the next step of the call depends on
          mark     \* per consumer: the committed word it loaded

cursors == <<phead, chead>>
words == <<allocated, committed, reserved, consumed>>
locals == <<pc, head, seen, mark>>
vars == <<cursors, words, entries, locals>>
-----------------------------------------------------------------------------
Threads == Producers \cup Consumers
Blocks == 0 .. NumBlocks - 1
Slots == 0 .. BlockSize - 1

Absent == -1

ProducerSteps == {"idle", "load_phead", "load_allocated", "add_allocated",
                  "check_consumed", "check_reserved", "max_committed",
                  "max_allocated", "max_phead", "produce", "commit"}

ConsumerSteps == {"idle", "load_chead", "load_reserved", "load_committed",
                  "load_allocated", "max_reserved", "check_committed",
                  "max_consumed", "reset_reserved", "max_chead", "consume",
                  "release"}

Block(t) == head[t].i

NextBlock(t) == (head[t].i + 1) % NumBlocks

(* The first slot of the next block, in the version it is opened with.     *)
Opening(t) == FromParts(head[t].v + 1, 0)

BlockDone(word) == word.i >= BlockSize

Goto(t, step) == pc' = [pc EXCEPT ![t] = step]

(* What the call loaded so far goes out of scope.                          *)
Leave(t, step) == /\ Goto(t, step)
                  /\ head' = [head EXCEPT ![t] = Zero]
                  /\ seen' = [seen EXCEPT ![t] = Zero]
                  /\ mark' = [u \in Consumers |-> IF u = t THEN Zero ELSE mark[u]]

(* The call returns, with a value or with an error.                        *)
Return(t) == Leave(t, "idle")

Raise(word, block, field) == [word EXCEPT ![block] = MaxPair(@, field)]

Count(word, block) == [word EXCEPT ![block] = Incr(IndexSpan, @)]

(* Block::new for block 0, Block::new_full for the others.                 *)
NewWords == [b \in Blocks |-> IF b = 0 THEN Zero ELSE FromParts(0, BlockSize)]

Init == /\ phead = Zero /\ chead = Zero
        /\ allocated = NewWords /\ committed = NewWords
        /\ reserved = NewWords /\ consumed = NewWords
        /\ entries = [b \in Blocks |-> [s \in Slots |-> Absent]]
        /\ pc = [t \in Threads |-> "idle"]
        /\ head = [t \in Threads |-> Zero]
        /\ seen = [t \in Threads |-> Zero]
        /\ mark = [c \in Consumers |-> Zero]
-----------------------------------------------------------------------------
(* push: get_producer_entry, then the closure writes the slot, then the    *)
(* entry is dropped.                                                       *)

StartPush(p) ==
    /\ pc[p] = "idle"
    /\ phead.v <= MaxRound
    /\ Goto(p, "load_phead")
    /\ UNCHANGED <<cursors, words, entries, head, seen, mark>>

LoadPhead(p) ==
    /\ pc[p] = "load_phead"
    /\ head' = [head EXCEPT ![p] = phead]
    /\ Goto(p, "load_allocated")
    /\ UNCHANGED <<cursors, words, entries, seen, mark>>

LoadAllocated(p) ==
    /\ pc[p] = "load_allocated"
    /\ Goto(p, IF BlockDone(allocated[Block(p)])
               THEN "check_consumed" ELSE "add_allocated")
    /\ UNCHANGED <<cursors, words, entries, head, seen, mark>>

(* The index the fetch_add found is the producer's slot, unless the block  *)
(* filled up since the load.                                               *)
AddAllocated(p) ==
    /\ pc[p] = "add_allocated"
    /\ allocated' = Count(allocated, Block(p))
    /\ IF BlockDone(allocated[Block(p)])
       THEN Goto(p, "check_consumed") /\ UNCHANGED seen
       ELSE /\ Goto(p, "produce")
            /\ seen' = [seen EXCEPT ![p] = allocated[Block(p)]]
    /\ UNCHANGED <<cursors, committed, reserved, consumed, entries, head, mark>>

(* Variant: a block whose consumers are still a version behind looks free. *)
NextOccupiedSameVersion(p) ==
    LET c == consumed[NextBlock(p)] IN c.v = head[p].v /\ c.i # BlockSize

(* Variant: a block of a later version counts as occupied too.             *)
NextOccupiedAnyVersion(p) ==
    LET c == consumed[NextBlock(p)] IN c.v < head[p].v \/ c.i # BlockSize

(* Variant: <= for < in the comparison of versions.                        *)
NextOccupiedAtMost(p) == consumed[NextBlock(p)].v <= head[p].v

(* The next block still holds slots of the round before that consumers     *)
(* have not released.                                                      *)
NextOccupied(p) ==
    LET c == consumed[NextBlock(p)]
    IN  c.v < head[p].v \/ (c.v = head[p].v /\ c.i # BlockSize)

CheckConsumed(p) ==
    /\ pc[p] = "check_consumed"
    /\ IF NextOccupied(p)
       THEN /\ Goto(p, "check_reserved")
            /\ seen' = [seen EXCEPT ![p] = consumed[NextBlock(p)]]
       ELSE Goto(p, "max_committed") /\ UNCHANGED seen
    /\ UNCHANGED <<cursors, words, entries, head, mark>>

ReportFull(p) ==
    /\ pc[p] = "check_reserved"
    /\ reserved[NextBlock(p)].i = seen[p].i
    /\ Return(p)
    /\ UNCHANGED <<cursors, words, entries>>

ReportBusyPush(p) ==
    /\ pc[p] = "check_reserved"
    /\ reserved[NextBlock(p)].i # seen[p].i
    /\ Return(p)
    /\ UNCHANGED <<cursors, words, entries>>

(* Variant: a store for the fetch_max.                                     *)
StoreCommitted(p) ==
    /\ pc[p] = "max_committed"
    /\ committed' = [committed EXCEPT ![NextBlock(p)] = Opening(p)]
    /\ Goto(p, "max_allocated")
    /\ UNCHANGED <<cursors, allocated, reserved, consumed, entries, head, seen, mark>>

(* Variant: allocated is left to some later producer.                      *)
MaxCommittedOnly(p) ==
    /\ pc[p] = "max_committed"
    /\ committed' = Raise(committed, NextBlock(p), Opening(p))
    /\ Goto(p, "max_phead")
    /\ UNCHANGED <<cursors, allocated, reserved, consumed, entries, head, seen, mark>>

MaxCommitted(p) ==
    /\ pc[p] = "max_committed"
    /\ committed' = Raise(committed, NextBlock(p), Opening(p))
    /\ Goto(p, "max_allocated")
    /\ UNCHANGED <<cursors, allocated, reserved, consumed, entries, head, seen, mark>>

MaxAllocated(p) ==
    /\ pc[p] = "max_allocated"
    /\ allocated' = Raise(allocated, NextBlock(p), Opening(p))
    /\ Goto(p, "max_phead")
    /\ UNCHANGED <<cursors, committed, reserved, consumed, entries, head, seen, mark>>

(* Variant: overflowing_add for version_inc_add.                           *)
MaxPheadOverflowing(p) ==
    /\ pc[p] = "max_phead"
    /\ phead' = MaxPair(phead, Incr(IndexSpan, head[p]))
    /\ Leave(p, "load_phead")
    /\ UNCHANGED <<chead, words, entries>>

MaxPhead(p) ==
    /\ pc[p] = "max_phead"
    /\ phead' = MaxPair(phead, VersionIncAdd(NumBlocks, head[p]))
    /\ Leave(p, "load_phead")
    /\ UNCHANGED <<chead, words, entries>>

Produce(p) ==
    /\ pc[p] = "produce"
    /\ entries' = [entries EXCEPT ![Block(p)][seen[p].i] = seen[p].v]
    /\ Goto(p, "commit")
    /\ UNCHANGED <<cursors, words, head, seen, mark>>

(* Variant: the commit is left to those who used the entry.                *)
DropEntryUncommitted(p) ==
    /\ pc[p] = "produce"
    /\ p \in Careless
    /\ Return(p)
    /\ UNCHANGED <<cursors, words, entries>>

(* The slot keeps what was in it, and is committed all the same.           *)
DropEntryUnproduced(p) ==
    /\ pc[p] = "produce"
    /\ p \in Careless
    /\ Goto(p, "commit")
    /\ UNCHANGED <<cursors, words, entries, head, seen, mark>>

Commit(p) ==
    /\ pc[p] = "commit"
    /\ committed' = Count(committed, Block(p))
    /\ Return(p)
    /\ UNCHANGED <<cursors, allocated, reserved, consumed, entries>>
-----------------------------------------------------------------------------
(* pop: get_consumer_entry, then the closure reads the slot, then the      *)
(* entry is dropped.                                                       *)

StartPop(c) ==
    /\ pc[c] = "idle"
    /\ Goto(c, "load_chead")
    /\ UNCHANGED <<cursors, words, entries, head, seen, mark>>

LoadChead(c) ==
    /\ pc[c] = "load_chead"
    /\ head' = [head EXCEPT ![c] = chead]
    /\ Goto(c, "load_reserved")
    /\ UNCHANGED <<cursors, words, entries, seen, mark>>

LoadReserved(c) ==
    /\ pc[c] = "load_reserved"
    /\ IF BlockDone(reserved[Block(c)])
       THEN Goto(c, "check_committed") /\ UNCHANGED seen
       ELSE /\ Goto(c, "load_committed")
            /\ seen' = [seen EXCEPT ![c] = reserved[Block(c)]]
    /\ UNCHANGED <<cursors, words, entries, head, mark>>

(* The block holds no committed entry that is not reserved.                *)
ReportEmptyBlock(c) ==
    /\ pc[c] = "load_committed"
    /\ committed[Block(c)].i = seen[c].i
    /\ Return(c)
    /\ UNCHANGED <<cursors, words, entries>>

(* Variant: any committed entry will do, with no look at allocated.        *)
LoadCommittedOnly(c) ==
    /\ pc[c] = "load_committed"
    /\ committed[Block(c)].i # seen[c].i
    /\ mark' = [mark EXCEPT ![c] = committed[Block(c)]]
    /\ Goto(c, "max_reserved")
    /\ UNCHANGED <<cursors, words, entries, head, seen>>

LoadCommitted(c) ==
    /\ pc[c] = "load_committed"
    /\ committed[Block(c)].i # seen[c].i
    /\ mark' = [mark EXCEPT ![c] = committed[Block(c)]]
    /\ Goto(c, IF committed[Block(c)].i = BlockSize
               THEN "max_reserved" ELSE "load_allocated")
    /\ UNCHANGED <<cursors, words, entries, head, seen>>

(* A producer of the block is between allocating and committing its slot:  *)
(* which of the allocated slots are committed is not known.                *)
ReportBusyPop(c) ==
    /\ pc[c] = "load_allocated"
    /\ allocated[Block(c)].i # mark[c].i
    /\ Return(c)
    /\ UNCHANGED <<cursors, words, entries>>

CheckAllocated(c) ==
    /\ pc[c] = "load_allocated"
    /\ allocated[Block(c)].i = mark[c].i
    /\ Goto(c, "max_reserved")
    /\ UNCHANGED <<cursors, words, entries, head, seen, mark>>

(* Variant: the slot is taken whatever fetch_max returns.                  *)
MaxReservedUnchecked(c) ==
    /\ pc[c] = "max_reserved"
    /\ reserved' = Raise(reserved, Block(c), Incr(IndexSpan, seen[c]))
    /\ Goto(c, "consume")
    /\ UNCHANGED <<cursors, allocated, committed, consumed, entries, head, seen, mark>>

(* The slot is the consumer's if nobody reserved it since the load.        *)
MaxReserved(c) ==
    /\ pc[c] = "max_reserved"
    /\ reserved' = Raise(reserved, Block(c), Incr(IndexSpan, seen[c]))
    /\ Goto(c, IF reserved[Block(c)] = seen[c] THEN "consume" ELSE "load_reserved")
    /\ UNCHANGED <<cursors, allocated, committed, consumed, entries, head, seen, mark>>

(* Variant: the next block is looked for in the version of this one.       *)
ReportEmptyRingSameVersion(c) ==
    /\ pc[c] = "check_committed"
    /\ committed[NextBlock(c)].v # head[c].v
    /\ Return(c)
    /\ UNCHANGED <<cursors, words, entries>>

ReportEmptyRing(c) ==
    /\ pc[c] = "check_committed"
    /\ committed[NextBlock(c)].v # head[c].v + 1
    /\ Return(c)
    /\ UNCHANGED <<cursors, words, entries>>

CheckCommitted(c) ==
    /\ pc[c] = "check_committed"
    /\ committed[NextBlock(c)].v = head[c].v + 1
    /\ Goto(c, "max_consumed")
    /\ UNCHANGED <<cursors, words, entries, head, seen, mark>>

MaxConsumed(c) ==
    /\ pc[c] = "max_consumed"
    /\ consumed' = Raise(consumed, NextBlock(c), Opening(c))
    /\ Goto(c, "reset_reserved")
    /\ UNCHANGED <<cursors, allocated, committed, reserved, entries, head, seen, mark>>

(* Variant: a store for the fetch_max.                                     *)
StoreReserved(c) ==
    /\ pc[c] = "reset_reserved"
    /\ reserved' = [reserved EXCEPT ![NextBlock(c)] = Opening(c)]
    /\ Goto(c, "max_chead")
    /\ UNCHANGED <<cursors, allocated, committed, consumed, entries, head, seen, mark>>

ResetReserved(c) ==
    /\ pc[c] = "reset_reserved"
    /\ reserved' = Raise(reserved, NextBlock(c), Opening(c))
    /\ Goto(c, "max_chead")
    /\ UNCHANGED <<cursors, allocated, committed, consumed, entries, head, seen, mark>>

(* Variant: a store for the fetch_max.                                     *)
StoreChead(c) ==
    /\ pc[c] = "max_chead"
    /\ chead' = VersionIncAdd(NumBlocks, head[c])
    /\ Leave(c, "load_chead")
    /\ UNCHANGED <<phead, words, entries>>

(* Variant: overflowing_add for version_inc_add.                           *)
MaxCheadOverflowing(c) ==
    /\ pc[c] = "max_chead"
    /\ chead' = MaxPair(chead, Incr(IndexSpan, head[c]))
    /\ Leave(c, "load_chead")
    /\ UNCHANGED <<phead, words, entries>>

MaxChead(c) ==
    /\ pc[c] = "max_chead"
    /\ chead' = MaxPair(chead, VersionIncAdd(NumBlocks, head[c]))
    /\ Leave(c, "load_chead")
    /\ UNCHANGED <<phead, words, entries>>

(* The closure moves the value out of the slot.                            *)
Consume(c) ==
    /\ pc[c] = "consume"
    /\ entries' = [entries EXCEPT ![Block(c)][seen[c].i] = Absent]
    /\ Goto(c, "release")
    /\ UNCHANGED <<cursors, words, head, seen, mark>>

(* The value stays in the slot, which is released all the same.            *)
DropEntryUnconsumed(c) ==
    /\ pc[c] = "consume"
    /\ c \in Careless
    /\ Goto(c, "release")
    /\ UNCHANGED <<cursors, words, entries, head, seen, mark>>

Release(c) ==
    /\ pc[c] = "release"
    /\ consumed' = Count(consumed, Block(c))
    /\ Return(c)
    /\ UNCHANGED <<cursors, allocated, committed, reserved, entries>>
-----------------------------------------------------------------------------
Push(p) == \/ StartPush(p) \/ LoadPhead(p) \/ LoadAllocated(p) \/ AddAllocated(p)
           \/ CheckConsumed(p) \/ ReportFull(p) \/ ReportBusyPush(p)
           \/ MaxCommitted(p) \/ MaxAllocated(p) \/ MaxPhead(p)
           \/ Produce(p) \/ DropEntryUnproduced(p) \/ Commit(p)

Pop(c) == \/ StartPop(c) \/ LoadChead(c) \/ LoadReserved(c) \/ ReportEmptyBlock(c)
          \/ LoadCommitted(c) \/ ReportBusyPop(c) \/ CheckAllocated(c)
          \/ MaxReserved(c) \/ ReportEmptyRing(c) \/ CheckCommitted(c)
          \/ MaxConsumed(c) \/ ResetReserved(c) \/ MaxChead(c)
          \/ Consume(c) \/ DropEntryUnconsumed(c) \/ Release(c)

Next == (\E p \in Producers : Push(p)) \/ (\E c \in Consumers : Pop(c))

Spec == Init /\ [][Next]_vars

(* An assumption about callers: every thread runs on, and calls push or    *)
(* pop again when a call has failed.                                       *)
FairSpec == /\ Spec
            /\ \A p \in Producers : WF_vars(Push(p))
            /\ \A c \in Consumers : WF_vars(Pop(c))
-----------------------------------------------------------------------------
TypeOK == /\ phead \in [v : Nat, i : Blocks]
          /\ chead \in [v : Nat, i : Blocks]
          /\ allocated \in [Blocks -> Pair] /\ committed \in [Blocks -> Pair]
          /\ reserved \in [Blocks -> Pair] /\ consumed \in [Blocks -> Pair]
          /\ entries \in [Blocks -> [Slots -> Nat \cup {Absent}]]
          /\ pc \in [Threads -> ProducerSteps \cup ConsumerSteps]
          /\ \A p \in Producers : pc[p] \in ProducerSteps
          /\ \A c \in Consumers : pc[c] \in ConsumerSteps
          /\ head \in [Threads -> [v : Nat, i : Blocks]]
          /\ seen \in [Threads -> Pair]
          /\ mark \in [Consumers -> Pair]

Holding(t) == pc[t] \in {"produce", "commit", "consume", "release"}

(* mpmc/entries.rs: "Think of this as an allocator giving you exactly one  *)
(* *mut T".  Two entries alive at the same time, of either kind, never     *)
(* stand for the same slot.                                                *)
SlotExclusive ==
    \A t, u \in Threads :
        t # u /\ Holding(t) /\ Holding(u) => <<Block(t), seen[t].i>> # <<Block(u), seen[u].i>>

(* A consumer about to read its slot finds the value pushed in the version *)
(* it reserved: not an older one, nor one read before, nor uninitialised   *)
(* memory; and a producer about to write overwrites no unread value.       *)
(* This is for callers that use their entries.                             *)
ValuesIntact ==
    \A t \in Threads :
        /\ pc[t] = "consume" => entries[Block(t)][seen[t].i] = seen[t].v
        /\ pc[t] = "produce" => entries[Block(t)][seen[t].i] = Absent

Forward == /\ AtMost(phead, phead') /\ AtMost(chead, chead')
           /\ \A b \in Blocks : /\ AtMost(allocated[b], allocated'[b])
                                 /\ AtMost(committed[b], committed'[b])
                                 /\ AtMost(reserved[b], reserved'[b])
                                 /\ AtMost(consumed[b], consumed'[b])

(* No shared word ever moves backwards, whatever fetch_add and fetch_max   *)
(* are delayed: what makes a version check on a stale word safe.           *)
CursorsNeverRetreat == [][Forward]_vars
=============================================================================
