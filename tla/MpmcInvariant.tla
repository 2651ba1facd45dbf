---------------------------- MODULE MpmcInvariant ----------------------------
(***************************************************************************)
(* Why no slot of an Mpmc ring is ever two threads' at once.  The heads    *)
(* play no part in it: they only suggest where to look.  It rests on how   *)
(* the four words of a block relate to each other and to the threads that  *)
(* hold its slots, and on the words each thread has seen.                  *)
(***************************************************************************)
EXTENDS Mpmc

(* Producers that find a block full still add to allocated.  The index     *)
(* does not carry into the version as long as all of them together fit in  *)
(* its bits.                                                               *)
NoCarry == /\ IsFiniteSet(Producers) /\ IsFiniteSet(Consumers)
           /\ Producers # {}
           /\ BlockSize + Cardinality(Producers) <= IndexSpan

Writers(b) == {p \in Producers : pc[p] \in {"produce", "commit"} /\ Block(p) = b}

Readers(b) == {c \in Consumers : pc[c] \in {"consume", "release"} /\ Block(c) = b}

Adders(b) == {p \in Producers : pc[p] = "add_allocated" /\ Block(p) = b}

(* Slots of the block handed out to producers in the version of allocated. *)
Handed(b) == IF BlockDone(allocated[b]) THEN BlockSize ELSE allocated[b].i

(* The overshoot of a full block is at most one add per other producer.    *)
OvershootBounded ==
    \A b \in Blocks :
        allocated[b].i + Cardinality(Adders(b)) < BlockSize + Cardinality(Producers)

(* committed is reset first; meanwhile the block is full and nobody writes *)
(* in it.  Otherwise committed counts the slots handed out but those still *)
(* being written.                                                          *)
ProducerWords(b) ==
    \/ /\ committed[b].v = allocated[b].v
       /\ committed[b].i + Cardinality(Writers(b)) = Handed(b)
    \/ /\ committed[b] = FromParts(allocated[b].v + 1, 0)
       /\ BlockDone(allocated[b])
       /\ Writers(b) = {}

(* consumed is reset first; meanwhile the block is done and nobody reads   *)
(* in it.  Otherwise consumed counts the slots reserved but those still    *)
(* being read.                                                             *)
ConsumerWords(b) ==
    \/ /\ consumed[b].v = reserved[b].v
       /\ reserved[b].i <= BlockSize
       /\ consumed[b].i + Cardinality(Readers(b)) = reserved[b].i
    \/ /\ consumed[b] = FromParts(reserved[b].v + 1, 0)
       /\ reserved[b].i = BlockSize
       /\ Readers(b) = {}

(* Producers are in the version of the consumers, or one ahead in a block  *)
(* that consumers have emptied; and no slot is reserved before it is       *)
(* committed.                                                              *)
ProducersLead(b) ==
    /\ \/ committed[b].v = consumed[b].v
       \/ committed[b].v = consumed[b].v + 1 /\ consumed[b].i = BlockSize
    /\ reserved[b].v = committed[b].v => reserved[b].i <= committed[b].i

(* A writer's slot was handed out in the present version and is not        *)
(* reserved.                                                               *)
WriterOwns(p) ==
    pc[p] \in {"produce", "commit"} =>
        LET b == Block(p)
        IN  /\ seen[p].v = allocated[b].v /\ seen[p].i < Handed(b)
            /\ reserved[b].v = allocated[b].v => reserved[b].i <= seen[p].i
            /\ \A q \in Writers(b) \ {p} : seen[q].i # seen[p].i

(* A reader's slot was reserved in the present version.                    *)
ReaderOwns(c) ==
    pc[c] \in {"consume", "release"} =>
        LET b == Block(c)
        IN  /\ seen[c].v = reserved[b].v /\ seen[c].i < reserved[b].i
            /\ \A d \in Readers(b) \ {c} : seen[d].i # seen[c].i

(* What a producer that opens the next block knows about it.               *)
OpenerKnows(p) ==
    /\ pc[p] \in {"max_committed", "max_allocated"} =>
           AtMost(FromParts(head[p].v, BlockSize), consumed[NextBlock(p)])
    /\ pc[p] = "max_allocated" => AtMost(Opening(p), committed[NextBlock(p)])

(* What a consumer that opens the next block knows about it.               *)
FollowerKnows(c) ==
    /\ pc[c] \in {"max_consumed", "reset_reserved"} =>
           head[c].v < committed[NextBlock(c)].v
    /\ pc[c] = "reset_reserved" => AtMost(Opening(c), consumed[NextBlock(c)])

(* What a consumer about to reserve knows: if nobody reserved since its    *)
(* load, then the slot is committed.                                       *)
ReserverKnows(c) ==
    LET b == Block(c)
        Unreserved == reserved[b] = seen[c]
    IN  /\ pc[c] \in {"load_committed", "load_allocated", "max_reserved"} =>
               seen[c].i < BlockSize /\ AtMost(seen[c], reserved[b])
        /\ pc[c] \in {"load_allocated", "max_reserved"} /\ Unreserved =>
               /\ committed[b].v = seen[c].v
               /\ seen[c].i < mark[c].i /\ mark[c].i <= committed[b].i
        /\ pc[c] = "max_reserved" /\ Unreserved =>
               \A p \in Writers(b) : seen[p].i # seen[c].i

SlotInv == /\ OvershootBounded
           /\ \A b \in Blocks : ProducerWords(b) /\ ConsumerWords(b) /\ ProducersLead(b)
           /\ \A p \in Producers : WriterOwns(p) /\ OpenerKnows(p)
           /\ \A c \in Consumers : ReaderOwns(c) /\ FollowerKnows(c) /\ ReserverKnows(c)
-----------------------------------------------------------------------------
Unwritten(b) == {seen[p].i : p \in {q \in Producers : pc[q] = "produce" /\ Block(q) = b}}

Unread(b) == {seen[c].i : c \in {d \in Consumers : pc[d] = "consume" /\ Block(d) = b}}

(* The slot holds a value that no consumer has reserved.                   *)
Full(b, s) ==
    /\ s < Handed(b) /\ s \notin Unwritten(b)
    /\ \/ reserved[b].v < allocated[b].v
       \/ reserved[b].v = allocated[b].v /\ reserved[b].i <= s

(* Where the values are, for callers that use their entries: in the slots  *)
(* written and not reserved, in the version of the producers; in those     *)
(* reserved and not read, in that of the consumers; and nowhere else.      *)
ValueInv ==
    \A b \in Blocks, s \in Slots :
        entries[b][s] = IF Full(b, s) THEN allocated[b].v
                        ELSE IF s \in Unread(b) THEN reserved[b].v ELSE Absent

(* allocated is reset after committed: meanwhile a producer is at it.      *)
Opened(b) ==
    allocated[b].v < committed[b].v =>
        \E p \in Producers : /\ pc[p] = "max_allocated" /\ NextBlock(p) = b
                             /\ Opening(p) = committed[b]

(* reserved is reset after consumed: meanwhile a consumer is at it.        *)
Followed(b) ==
    reserved[b].v < consumed[b].v =>
        \E c \in Consumers : /\ pc[c] = "reset_reserved" /\ NextBlock(c) = b
                             /\ Opening(c) = consumed[b]

(* mpmc/fifo_inner.rs, advance_phead and advance_chead: a word that was    *)
(* reset before its companion has a thread about to reset the companion.   *)
OpenInv == \A b \in Blocks : Opened(b) /\ Followed(b)
-----------------------------------------------------------------------------
(* The version a block is opened with in a round of the ring.              *)
VersionIn(b, round) == IF b = 0 THEN round ELSE round + 1

(* A word of every block has gone through the ring, block by block, as far *)
(* as the block that head h names.                                         *)
Follows(word, h) ==
    \A b \in Blocks :
        /\ word[b].v = VersionIn(b, IF b <= h.i THEN h.v ELSE h.v - 1)
        /\ b # h.i => BlockDone(word[b])

(* The word of the block that head h names is in the round of h, or past   *)
(* it; and it has counted all slots of that round.                         *)
Reached(word, h) == AtMost(FromParts(VersionIn(h.i, h.v), 0), word[h.i])
Passed(word, h) == AtMost(FromParts(VersionIn(h.i, h.v), BlockSize), word[h.i])

(* A side of the ring opens its blocks in order, each when the one before  *)
(* is full,                                                                *)
InOrder(word) == \E i \in Blocks : Follows(word, FromParts(word[0].v, i))

(* whatever old head a thread of that side comes with.                     *)
KeepsOrder(word, t, advancing, last) ==
    /\ Reached(word, head[t])
    /\ pc[t] \in advancing => Passed(word, head[t])
    /\ pc[t] = last => AtMost(Opening(t), word[NextBlock(t)])

PastAllocated == {"check_consumed", "check_reserved", "max_committed", "max_allocated", "max_phead"}

PastReserved == {"check_committed", "max_consumed", "reset_reserved", "max_chead"}

(* The blocks after block 0 start in version 0 as if they had been used:   *)
(* nobody gets a slot of theirs in that version.                           *)
StartedFull == \A t \in Threads : Holding(t) /\ Block(t) # 0 => seen[t].v > 0

(* mpmc/fifo_inner.rs, advance_phead and advance_chead: producers and      *)
(* consumers go through the blocks in order.                               *)
RingInv ==
    /\ InOrder(allocated) /\ Reached(allocated, phead)
    /\ \A p \in Producers : KeepsOrder(allocated, p, PastAllocated, "max_phead")
    /\ InOrder(reserved) /\ Reached(reserved, chead)
    /\ \A c \in Consumers : KeepsOrder(reserved, c, PastReserved, "max_chead")
    /\ StartedFull
-----------------------------------------------------------------------------
OneConsumer == \A c, d \in Consumers : c = d

(* mpmc/block.rs, reserve_entry, and fifo_inner.rs, advance_chead: the     *)
(* ring of a lone consumer has been read exactly as far as chead says, and *)
(* nobody reserves between the consumer's load and its fetch_max.          *)
LoneInv ==
    \A c \in Consumers :
        /\ Follows(reserved, IF pc[c] = "max_chead" THEN VersionIncAdd(NumBlocks, chead) ELSE chead)
        /\ pc[c] \notin {"idle", "load_chead"} => head[c] = chead
        /\ pc[c] \in {"load_committed", "load_allocated", "max_reserved"} =>
               reserved[Block(c)] = seen[c]
=============================================================================
