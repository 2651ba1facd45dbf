-------------------------- MODULE MpmcWeakInvariant --------------------------
(***************************************************************************)
(* Why the mpmc ring of one producer and one consumer has no data race on  *)
(* weak memory.  Each word has one writer, which always finds its last     *)
(* value; what the other thread finds may be old, but it is never beyond   *)
(* the last, and it carries the slots the writer had finished with.        *)
(***************************************************************************)
EXTENDS MpmcWeak

Opening(t) == Ring!Opening(t)

Phead == Last(<<"phead", 0>>)
Chead == Last(<<"chead", 0>>)
Allocated(b) == Last(<<"allocated", b>>)
Committed(b) == Last(<<"committed", b>>)
Reserved(b) == Last(<<"reserved", b>>)
Consumed(b) == Last(<<"consumed", b>>)

(* The oldest value of the word that the thread can still load.            *)
Known(t, word) == mem[word][view[t].at[word]].value

Views == [at : [Words -> Nat \ {0}], slots : SUBSET (Blocks \X Slots)]

Values == [value : Pair, view : Views]

TypeOK == /\ Ring!TypeOK
          /\ mem \in [Words -> Seq(Values)]
          /\ view \in [Threads -> Views]

(* Views are of values there are, and values never grow smaller.           *)
MemoryInv ==
    \A w \in Words :
        /\ mem[w] # <<>>
        /\ \A t \in Threads : view[t].at[w] <= Len(mem[w])
        /\ \A u \in Words : \A k \in DOMAIN mem[u] : mem[u][k].view.at[w] <= Len(mem[w])
        /\ \A k, l \in DOMAIN mem[w] : k <= l => AtMost(mem[w][k].value, mem[w][l].value)

(* A thread finds the last value of the words it alone writes.             *)
Latest(t, word) == view[t].at[word] = Len(mem[word])

(* The version of block b when its side of the ring has come to head h.    *)
VersionAt(b, h) == (IF b <= h.i THEN h.v ELSE h.v - 1) + (IF b = 0 THEN 0 ELSE 1)

(* The word of every block is where a side that has come to h left it.     *)
ComeTo(word, b, h) == word.v = VersionAt(b, h) /\ (b # h.i => word.i = BlockSize)

At(t, steps, b) == pc[t] \in steps /\ Block(t) = b

Opens(t, step, b) == pc[t] = step /\ NextBlock(t) = b

PushedTo(p) == IF pc[p] = "max_phead" THEN VersionIncAdd(NumBlocks, Phead) ELSE Phead

PoppedTo(c) == IF pc[c] = "max_chead" THEN VersionIncAdd(NumBlocks, Chead) ELSE Chead

(* What the producer knows from its earlier loads.                         *)
ProducerKnows(p) ==
    /\ Latest(p, <<"phead", 0>>)
    /\ pc[p] \notin {"idle", "load_phead"} => head[p] = Phead
    /\ pc[p] = "add_allocated" => Allocated(Block(p)).i < BlockSize
    /\ pc[p] \in {"check_consumed", "check_reserved", "max_committed", "max_allocated", "max_phead"} =>
           Allocated(Block(p)).i = BlockSize

(* The words of a block that the producer writes, and what it knows when   *)
(* it opens the block.                                                     *)
ProducerBlock(p, b) ==
    /\ Latest(p, <<"allocated", b>>)
    /\ Allocated(b).i <= BlockSize
    /\ ComeTo(Allocated(b), b, PushedTo(p))
    /\ At(p, {"produce", "commit"}, b) => Allocated(b) = FromParts(seen[p].v, seen[p].i + 1)
    /\ Committed(b) = IF At(p, {"produce", "commit"}, b) THEN seen[p]
                      ELSE IF Opens(p, "max_allocated", b) THEN Opening(p)
                      ELSE Allocated(b)
    /\ Opens(p, "max_committed", b) \/ Opens(p, "max_allocated", b) =>
           AtMost(FromParts(head[p].v, BlockSize), Consumed(b))

(* What the consumer knows from its earlier loads.                         *)
ConsumerKnows(c) ==
    /\ Latest(c, <<"chead", 0>>)
    /\ pc[c] \notin {"idle", "load_chead"} => head[c] = Chead
    /\ pc[c] \in {"load_committed", "load_allocated", "max_reserved"} =>
           Reserved(Block(c)) = seen[c] /\ seen[c].i < BlockSize
    /\ pc[c] \in {"load_allocated", "max_reserved"} =>
           AtMost(FromParts(seen[c].v, seen[c].i + 1), Known(c, <<"committed", Block(c)>>))
    /\ pc[c] \in {"check_committed", "max_consumed", "reset_reserved", "max_chead"} =>
           Reserved(Block(c)).i = BlockSize

(* The words of a block that the consumer writes, and how they compare to  *)
(* what it can still load of committed.                                    *)
ConsumerBlock(c, b) ==
    /\ Latest(c, <<"reserved", b>>)
    /\ Reserved(b).i <= BlockSize
    /\ ComeTo(Reserved(b), b, PoppedTo(c))
    /\ At(c, {"consume", "release"}, b) => Reserved(b) = FromParts(seen[c].v, seen[c].i + 1)
    /\ Consumed(b) = IF At(c, {"consume", "release"}, b) THEN seen[c]
                     ELSE IF Opens(c, "reset_reserved", b) THEN Opening(c)
                     ELSE Reserved(b)
    /\ AtMost(Reserved(b), Known(c, <<"committed", b>>))
    /\ Opens(c, "max_consumed", b) \/ Opens(c, "reset_reserved", b) =>
           AtMost(Opening(c), Known(c, <<"committed", b>>))

(* The producer is in the version of the consumer, or one ahead in a block *)
(* that the consumer has emptied.                                          *)
Leads(b) == \/ Committed(b).v = Consumed(b).v
            \/ Committed(b).v = Consumed(b).v + 1 /\ Consumed(b).i = BlockSize

(* The slot is written and not read.                                       *)
Filled(b, s) ==
    /\ \/ s < Committed(b).i
       \/ \E p \in Producers : pc[p] = "commit" /\ Slot(p) = <<b, s>>
    /\ Committed(b).v = Consumed(b).v =>
           /\ Consumed(b).i <= s
           /\ ~ \E c \in Consumers : pc[c] = "release" /\ Slot(c) = <<b, s>>

EntryHeld(b, s) == entries[b][s] = IF Filled(b, s) THEN Committed(b).v ELSE -1

(* Whoever loads a value of the word that counts the slot in the present   *)
(* version comes after the access that it counts.                          *)
Carried(t, name, b, s) ==
    \A k \in DOMAIN mem[<<name, b>>] :
        LET found == mem[<<name, b>>][k]
        IN  /\ view[t].at[<<name, b>>] <= k
            /\ found.value.v = Last(<<name, b>>).v /\ s < found.value.i
            => <<b, s>> \in found.view.slots \cup view[t].slots

(* The producer comes after its own accesses, and after those of the       *)
(* consumer in the slots it may still be given, and in the block it opens. *)
ProducerSees(p, b, s) ==
    /\ \/ entries[b][s] # -1
       \/ Allocated(b).i <= s
       \/ pc[p] = "produce" /\ Slot(p) = <<b, s>>
       \/ Opens(p, "max_committed", b) \/ Opens(p, "max_allocated", b)
       => <<b, s>> \in view[p].slots
    /\ entries[b][s] = -1 => Carried(p, "consumed", b, s)

(* The consumer comes after its own accesses, and after that of the        *)
(* producer in the slot it is about to reserve or read.                    *)
ConsumerSees(c, b, s) ==
    /\ \/ entries[b][s] = -1
       \/ pc[c] \in {"load_allocated", "max_reserved", "consume"} /\ Slot(c) = <<b, s>>
       => <<b, s>> \in view[c].slots
    /\ entries[b][s] # -1 => Carried(c, "committed", b, s)

(* mpmc/block.rs:116, mpmc/entries.rs, Drop, and mpmc/fifo_inner.rs:105:   *)
(* the Release of each entry's drop and the Acquire of the load that finds *)
(* it are enough for one producer and one consumer.                        *)
WeakInv == /\ MemoryInv
           /\ \A b \in Blocks : Leads(b) /\ \A s \in Slots : EntryHeld(b, s)
           /\ \A p \in Producers : /\ ProducerKnows(p)
                                   /\ \A b \in Blocks : ProducerBlock(p, b)
                                   /\ \A b \in Blocks, s \in Slots : ProducerSees(p, b, s)
           /\ \A c \in Consumers : /\ ConsumerKnows(c)
                                   /\ \A b \in Blocks : ConsumerBlock(c, b)
                                   /\ \A b \in Blocks, s \in Slots : ConsumerSees(c, b, s)
=============================================================================
