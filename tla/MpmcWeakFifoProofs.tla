------------------------- MODULE MpmcWeakFifoProofs -------------------------
(***************************************************************************)
(* With the memory orderings of the code, an mpmc ring of one producer and *)
(* one consumer is a bounded FIFO, whatever the number of blocks and slots.*)
(* The words a thread finds may be old, but the words that there are obey  *)
(* the invariants of MpmcInvariant, and the steps that change them are     *)
(* those of Mpmc.                                                          *)
(***************************************************************************)
EXTENDS MpmcWeakProofs

USE ThreadAssumption, RingAssumption, SpanAssumption

(* What MpmcFifoProofs proves of a ring, for the last values of the words. *)
Fifo == INSTANCE MpmcFifoProofs WITH
    Careless <- {},
    phead <- Last(<<"phead", 0>>),
    chead <- Last(<<"chead", 0>>),
    allocated <- [b \in Blocks |-> Last(<<"allocated", b>>)],
    committed <- [b \in Blocks |-> Last(<<"committed", b>>)],
    reserved <- [b \in Blocks |-> Last(<<"reserved", b>>)],
    consumed <- [b \in Blocks |-> Last(<<"consumed", b>>)]
-----------------------------------------------------------------------------
(* A call that has loaded nothing yet is at no block.                      *)
AtRest == \A t \in Threads : pc[t] \in {"idle", "load_phead", "load_chead"} => head[t] = Zero

(* What the consumer found of committed, which may be old by now, counts   *)
(* the slot it is about to reserve, and no more than is there.             *)
Marked(c) == pc[c] \in {"load_allocated", "max_reserved"} =>
                 seen[c].i < mark[c].i /\ mark[c].i <= Committed(Block(c)).i

Mapped(p, c) == Holds(p, c) /\ AtRest /\ Marked(c)
-----------------------------------------------------------------------------
(* The constants are those the proofs about Mpmc assume.                   *)
LEMMA FifoAssumptions ==
    Fifo!ThreadAssumption /\ Fifo!CarelessAssumption /\ Fifo!RingAssumption /\ Fifo!SpanAssumption
  BY DEF Fifo!ThreadAssumption, Fifo!CarelessAssumption, Fifo!RingAssumption, Fifo!SpanAssumption

(* The two have the same sets, pairs and threads.                          *)
LEMMA FifoNames ==
    /\ Fifo!Blocks = Blocks /\ Fifo!Slots = Slots /\ Fifo!Threads = Threads /\ Fifo!Pair = Pair
    /\ Fifo!Heads = Heads
    /\ \A v, i : Fifo!FromParts(v, i) = FromParts(v, i)
    /\ \A f, g : Fifo!AtMost(f, g) <=> AtMost(f, g)
    /\ \A f : Fifo!VersionIncAdd(NumBlocks, f) = VersionIncAdd(NumBlocks, f)
    /\ \A t : /\ Fifo!Block(t) = Block(t) /\ Fifo!NextBlock(t) = NextBlock(t)
              /\ Fifo!Opening(t) = Opening(t)
  BY DEF Fifo!Blocks, Blocks, Fifo!Slots, Slots, Fifo!Threads, Threads, Fifo!Pair, Pair,
         Fifo!Heads, Heads, Fifo!FromParts, FromParts, Fifo!AtMost, AtMost,
         Fifo!VersionIncAdd, VersionIncAdd, Fifo!Block, Block, Ring!Block,
         Fifo!NextBlock, NextBlock, Ring!NextBlock, Fifo!Opening, Opening, Ring!Opening, Ring!FromParts

(* And the same types.                                                     *)
LEMMA FifoTypes == (Ring!TypeOK <=> Fifo!TypeOK) /\ (Ring!TypeOK' <=> Fifo!TypeOK')
  BY DEF Ring!TypeOK, Fifo!TypeOK, Ring!Blocks, Fifo!Blocks, Ring!Slots, Fifo!Slots,
         Ring!Threads, Fifo!Threads, Ring!Pair, Fifo!Pair, Ring!Absent, Fifo!Absent,
         Ring!ProducerSteps, Fifo!ProducerSteps, Ring!ConsumerSteps, Fifo!ConsumerSteps

(* One producer cannot overshoot into the version.                         *)
LEMMA FifoNoCarry == ASSUME NEW p, NEW c, Lone(p, c) PROVE Fifo!NoCarry
<1>1. Fifo!IsFiniteSet({p}) /\ Fifo!Cardinality({p}) = 1 /\ Fifo!IsFiniteSet({c})
  BY Fifo!FS_Singleton
<1>2. QED
  BY <1>1 DEF Fifo!NoCarry, Lone
-----------------------------------------------------------------------------
(* The words of a block as MpmcInvariant sees them.                        *)
LEMMA BlockParts ==
    ASSUME NEW p, NEW c, Mapped(p, c), NEW b \in Blocks
    PROVE  /\ Allocated(b) \in Pair /\ Committed(b) \in Pair
           /\ Reserved(b) \in Pair /\ Consumed(b) \in Pair
           /\ Allocated(b).i <= BlockSize /\ Fifo!Handed(b) = Allocated(b).i
           /\ Fifo!Writers(b) = IF At(p, {"produce", "commit"}, b) THEN {p} ELSE {}
           /\ Fifo!Readers(b) = IF At(c, {"consume", "release"}, b) THEN {c} ELSE {}
           /\ Fifo!Adders(b) = IF At(p, {"add_allocated"}, b) THEN {p} ELSE {}
           /\ Fifo!Cardinality({p}) = 1 /\ Fifo!Cardinality({c}) = 1 /\ Fifo!Cardinality({}) = 0
           /\ Fifo!Cardinality(Producers) = 1
<1>1. /\ Allocated(b) \in Pair /\ Committed(b) \in Pair
      /\ Reserved(b) \in Pair /\ Consumed(b) \in Pair
      /\ Allocated(b).i <= BlockSize /\ Lone(p, c)
  BY Facts DEF Mapped, ProducerBlock
<1>2. Fifo!Handed(b) = Allocated(b).i
  BY <1>1 DEF Fifo!Handed, Fifo!BlockDone, Allocated, Pair
<1>3. /\ Fifo!Writers(b) = IF At(p, {"produce", "commit"}, b) THEN {p} ELSE {}
      /\ Fifo!Readers(b) = IF At(c, {"consume", "release"}, b) THEN {c} ELSE {}
      /\ Fifo!Adders(b) = IF At(p, {"add_allocated"}, b) THEN {p} ELSE {}
  BY <1>1, FifoNames DEF Fifo!Writers, Fifo!Readers, Fifo!Adders, At, Lone
<1>4. /\ Fifo!Cardinality({p}) = 1 /\ Fifo!Cardinality({c}) = 1 /\ Fifo!Cardinality({}) = 0
      /\ Fifo!Cardinality(Producers) = 1
  BY <1>1, Fifo!FS_Singleton, Fifo!FS_EmptySet DEF Lone
<1>5. QED
  BY <1>1, <1>2, <1>3, <1>4

(* The words of a block count as MpmcInvariant has it.                     *)
LEMMA CountsMap ==
    ASSUME NEW p, NEW c, Mapped(p, c), NEW b \in Blocks
    PROVE  /\ Allocated(b).i + Fifo!Cardinality(Fifo!Adders(b)) < BlockSize + Fifo!Cardinality(Producers)
           /\ Fifo!ProducerWords(b) /\ Fifo!ConsumerWords(b) /\ Fifo!ProducersLead(b)
<1>1. /\ p \in Threads /\ c \in Threads
      /\ ProducerBlock(p, b) /\ ConsumerBlock(c, b) /\ Leads(b) /\ ProducerKnows(p) /\ ConsumerKnows(c)
      /\ seen[p] \in Pair /\ seen[c] \in Pair /\ head[p].v \in Nat /\ head[c].v \in Nat
      /\ Block(p) = head[p].i /\ Block(c) = head[c].i
      /\ AtMost(Reserved(b), Committed(b))
      /\ NextBlock(p) # Block(p) /\ NextBlock(c) # Block(c)
      /\ NextBlock(p) = After(head[p]) /\ NextBlock(c) = After(head[c])
      /\ Opening(p) = FromParts(head[p].v + 1, 0) /\ Opening(c) = FromParts(head[c].v + 1, 0)
  <2>1. Holds(p, c) /\ p \in Threads /\ c \in Threads
    BY Parts DEF Mapped
  <2>2. head[p] \in Heads /\ head[c] \in Heads
    BY <2>1, Facts
  <2>3. QED
    BY <2>1, <2>2, Facts, NextLemma, HeadLemma
<1>2. /\ Allocated(b) \in Pair /\ Committed(b) \in Pair
      /\ Reserved(b) \in Pair /\ Consumed(b) \in Pair
      /\ Allocated(b).i <= BlockSize /\ Fifo!Handed(b) = Allocated(b).i
      /\ Fifo!Writers(b) = IF At(p, {"produce", "commit"}, b) THEN {p} ELSE {}
      /\ Fifo!Readers(b) = IF At(c, {"consume", "release"}, b) THEN {c} ELSE {}
      /\ Fifo!Adders(b) = IF At(p, {"add_allocated"}, b) THEN {p} ELSE {}
      /\ Fifo!Cardinality({p}) = 1 /\ Fifo!Cardinality({c}) = 1 /\ Fifo!Cardinality({}) = 0
      /\ Fifo!Cardinality(Producers) = 1
  BY BlockParts
<1>3. Allocated(b).i + Fifo!Cardinality(Fifo!Adders(b)) < BlockSize + Fifo!Cardinality(Producers)
  <2>1. At(p, {"add_allocated"}, b) => Allocated(b).i < BlockSize
    BY <1>1 DEF At, ProducerKnows
  <2>2. QED
    BY <1>2, <2>1 DEF Pair
<1>4. Fifo!ProducersLead(b)
  BY <1>1, <1>2 DEF Fifo!ProducersLead, Leads, Committed, Consumed, Reserved, AtMost, Pair
<1>5. /\ \/ /\ Committed(b).v = Allocated(b).v
            /\ Committed(b).i + Fifo!Cardinality(Fifo!Writers(b)) = Allocated(b).i
         \/ /\ Committed(b) = FromParts(Allocated(b).v + 1, 0)
            /\ Allocated(b).i = BlockSize /\ Fifo!Writers(b) = {}
  <2>1. CASE At(p, {"produce", "commit"}, b)
    BY <1>1, <1>2, <2>1 DEF ProducerBlock, FromParts, Pair
  <2>2. CASE Opens(p, "max_allocated", b)
    <3>1. ~ At(p, {"produce", "commit"}, b) /\ Committed(b) = Opening(p)
      BY <1>1, <2>2 DEF At, Opens, ProducerBlock
    <3>2. Allocated(b).v = head[p].v /\ Allocated(b).i = BlockSize
      <4>1. pc[p] = "max_allocated" /\ b = After(head[p]) /\ head[p] = Phead /\ PushedTo(p) = Phead
        BY <1>1, <2>2 DEF Opens, ProducerKnows, PushedTo
      <4>2. Phead \in Heads
        BY Facts DEF Mapped
      <4>3. VersionAt(b, Phead) = Phead.v /\ b # Phead.i
        BY <4>1, <4>2, HeadLemma
      <4>4. QED
        BY <1>1, <4>1, <4>3 DEF ProducerBlock, ComeTo
    <3>3. QED
      BY <1>1, <1>2, <3>1, <3>2
  <2>3. CASE ~ At(p, {"produce", "commit"}, b) /\ ~ Opens(p, "max_allocated", b)
    BY <1>1, <1>2, <2>3 DEF ProducerBlock, Pair
  <2>4. QED
    BY <2>1, <2>2, <2>3
<1>6. Fifo!ProducerWords(b)
  BY <1>2, <1>5, FifoNames DEF Fifo!ProducerWords, Fifo!BlockDone, Allocated, Committed
<1>7. /\ \/ /\ Consumed(b).v = Reserved(b).v /\ Reserved(b).i <= BlockSize
            /\ Consumed(b).i + Fifo!Cardinality(Fifo!Readers(b)) = Reserved(b).i
         \/ /\ Consumed(b) = FromParts(Reserved(b).v + 1, 0)
            /\ Reserved(b).i = BlockSize /\ Fifo!Readers(b) = {}
  <2>1. CASE At(c, {"consume", "release"}, b)
    BY <1>1, <1>2, <2>1 DEF ConsumerBlock, FromParts, Pair
  <2>2. CASE Opens(c, "reset_reserved", b)
    <3>1. ~ At(c, {"consume", "release"}, b) /\ Consumed(b) = Opening(c)
      BY <1>1, <2>2 DEF At, Opens, ConsumerBlock
    <3>2. Reserved(b).v = head[c].v /\ Reserved(b).i = BlockSize
      <4>1. pc[c] = "reset_reserved" /\ b = After(head[c]) /\ head[c] = Chead /\ PoppedTo(c) = Chead
        BY <1>1, <2>2 DEF Opens, ConsumerKnows, PoppedTo
      <4>2. Chead \in Heads
        BY Facts DEF Mapped
      <4>3. VersionAt(b, Chead) = Chead.v /\ b # Chead.i
        BY <4>1, <4>2, HeadLemma
      <4>4. QED
        BY <1>1, <4>1, <4>3 DEF ConsumerBlock, ComeTo
    <3>3. QED
      BY <1>1, <1>2, <3>1, <3>2
  <2>3. CASE ~ At(c, {"consume", "release"}, b) /\ ~ Opens(c, "reset_reserved", b)
    BY <1>1, <1>2, <2>3 DEF ConsumerBlock, Pair
  <2>4. QED
    BY <2>1, <2>2, <2>3
<1>8. Fifo!ConsumerWords(b)
  BY <1>2, <1>7, FifoNames DEF Fifo!ConsumerWords, Reserved, Consumed
<1>9. QED
  BY <1>3, <1>4, <1>6, <1>8

(* So does what the producer owns and knows,                               *)
LEMMA ProducerMaps ==
    ASSUME NEW p, NEW c, Mapped(p, c)
    PROVE  Fifo!WriterOwns(p) /\ Fifo!OpenerKnows(p)
<1> DEFINE b == Block(p)
           n == NextBlock(p)
<1>1. /\ b \in Blocks /\ n \in Blocks /\ seen[p] \in Pair /\ head[p] \in Heads /\ n = After(head[p])
      /\ Opening(p) = FromParts(head[p].v + 1, 0) /\ Opening(p) \in Pair
      /\ ProducerBlock(p, b) /\ ProducerBlock(p, n)
      /\ Allocated(b) \in Pair /\ Reserved(b) \in Pair /\ Committed(b) \in Pair
      /\ AtMost(Reserved(b), Committed(b)) /\ p \in Threads
  BY Parts, Facts, NextLemma DEF Mapped
<1> HIDE DEF n
<1>2. /\ Fifo!Handed(b) = Allocated(b).i
      /\ Fifo!Writers(b) = IF At(p, {"produce", "commit"}, b) THEN {p} ELSE {}
  BY <1>1, BlockParts
<1>3. Fifo!WriterOwns(p)
  <2>1. SUFFICES ASSUME pc[p] \in {"produce", "commit"}
                 PROVE  /\ seen[p].v = Allocated(b).v /\ seen[p].i < Allocated(b).i
                        /\ Reserved(b).v = Allocated(b).v => Reserved(b).i <= seen[p].i
    BY <1>1, <1>2, FifoNames DEF Fifo!WriterOwns, Allocated, Reserved
  <2>2. Allocated(b) = FromParts(seen[p].v, seen[p].i + 1) /\ Committed(b) = seen[p]
    BY <1>1, <2>1 DEF ProducerBlock, At
  <2>3. QED
    BY <1>1, <2>2 DEF FromParts, AtMost, Pair
<1>4. Fifo!OpenerKnows(p)
  <2>1. Fifo!NextBlock(p) = n /\ Fifo!Opening(p) = Opening(p)
    BY FifoNames DEF n
  <2>2. pc[p] \in {"max_committed", "max_allocated"} =>
            AtMost(FromParts(head[p].v, BlockSize), Consumed(n))
    BY <1>1 DEF ProducerBlock, Opens, n
  <2>3. pc[p] = "max_allocated" => AtMost(Opening(p), Committed(n))
    <3>1. ASSUME pc[p] = "max_allocated" PROVE Committed(n) = Opening(p)
      <4>1. Opens(p, "max_allocated", n) /\ ~ At(p, {"produce", "commit"}, n)
        BY <3>1 DEF Opens, At, n
      <4>2. QED
        BY <1>1, <4>1 DEF ProducerBlock
    <3>2. QED
      BY <1>1, <3>1, AtMostIsOrder
  <2>4. QED
    BY <1>1, <2>1, <2>2, <2>3, FifoNames DEF Fifo!OpenerKnows, Consumed, Committed
<1>5. QED
  BY <1>3, <1>4

(* and what the consumer owns and knows.                                   *)
LEMMA ConsumerMaps ==
    ASSUME NEW p, NEW c, Mapped(p, c)
    PROVE  Fifo!ReaderOwns(c) /\ Fifo!FollowerKnows(c) /\ Fifo!ReserverKnows(c)
<1> DEFINE b == Block(c)
           n == NextBlock(c)
<1>1. /\ b \in Blocks /\ n \in Blocks /\ seen[c] \in Pair /\ head[c] \in Heads /\ n = After(head[c])
      /\ Opening(c) = FromParts(head[c].v + 1, 0) /\ Opening(c) \in Pair
      /\ ConsumerBlock(c, b) /\ ConsumerBlock(c, n) /\ ConsumerKnows(c) /\ Marked(c)
      /\ ProducerBlock(p, b) /\ Leads(b)
      /\ Reserved(b) \in Pair /\ Committed(b) \in Pair /\ Consumed(b) \in Pair
      /\ Committed(n) \in Pair /\ Consumed(n) \in Pair
      /\ c \in Threads /\ Lone(p, c)
  BY Parts, Facts DEF Mapped
<1> HIDE DEF n, b
<1>2. /\ Known(c, <<"committed", b>>) \in Pair /\ AtMost(Known(c, <<"committed", b>>), Committed(b))
      /\ Known(c, <<"committed", n>>) \in Pair /\ AtMost(Known(c, <<"committed", n>>), Committed(n))
  BY <1>1, Parts, KnownLemma, WordNames DEF Mapped, Committed
<1>3. /\ Fifo!Writers(b) = IF At(p, {"produce", "commit"}, b) THEN {p} ELSE {}
      /\ Fifo!Readers(b) = IF At(c, {"consume", "release"}, b) THEN {c} ELSE {}
      /\ Fifo!Block(c) = b /\ Fifo!NextBlock(c) = n /\ Fifo!Opening(c) = Opening(c)
  BY <1>1, BlockParts, FifoNames DEF b, n
<1>4. Fifo!ReaderOwns(c)
  <2>1. SUFFICES ASSUME pc[c] \in {"consume", "release"}
                 PROVE  seen[c].v = Reserved(b).v /\ seen[c].i < Reserved(b).i
    BY <1>1, <1>3 DEF Fifo!ReaderOwns, Reserved
  <2>2. Reserved(b) = FromParts(seen[c].v, seen[c].i + 1)
    BY <1>1, <2>1 DEF ConsumerBlock, At, b
  <2>3. QED
    BY <1>1, <2>2 DEF FromParts, Pair
<1>5. Fifo!FollowerKnows(c)
  <2>1. ASSUME pc[c] \in {"max_consumed", "reset_reserved"}
        PROVE  head[c].v < Committed(n).v
    <3>1. AtMost(Opening(c), Committed(n))
      BY <1>1, <1>2, <2>1, AtMostIsOrder DEF ConsumerBlock, Opens, n
    <3>2. QED
      BY <1>1, <3>1 DEF AtMost, FromParts, Pair, Heads
  <2>2. ASSUME pc[c] = "reset_reserved"
        PROVE  AtMost(Opening(c), Consumed(n))
    <3>1. Opens(c, "reset_reserved", n) /\ ~ At(c, {"consume", "release"}, n)
      BY <2>2 DEF Opens, At, n
    <3>2. Consumed(n) = Opening(c)
      BY <1>1, <3>1 DEF ConsumerBlock
    <3>3. QED
      BY <1>1, <3>2, AtMostIsOrder
  <2>3. QED
    BY <1>1, <1>3, <2>1, <2>2, FifoNames DEF Fifo!FollowerKnows, Committed, Consumed
<1>6. Fifo!ReserverKnows(c)
  <2>1. ASSUME pc[c] \in {"load_committed", "load_allocated", "max_reserved"}
        PROVE  seen[c].i < BlockSize /\ AtMost(seen[c], Reserved(b)) /\ Reserved(b) = seen[c]
    BY <1>1, <2>1, AtMostIsOrder DEF ConsumerKnows, b
  <2>2. ASSUME pc[c] \in {"load_allocated", "max_reserved"}
        PROVE  /\ Committed(b).v = seen[c].v /\ seen[c].i < Committed(b).i
               /\ seen[c].i < mark[c].i /\ mark[c].i <= Committed(b).i
    <3>1. AtMost(FromParts(seen[c].v, seen[c].i + 1), Committed(b))
      <4>1. FromParts(seen[c].v, seen[c].i + 1) \in Pair
            /\ AtMost(FromParts(seen[c].v, seen[c].i + 1), Known(c, <<"committed", b>>))
        BY <1>1, <2>2 DEF ConsumerKnows, FromParts, Pair, b
      <4>2. QED
        BY <1>1, <1>2, <4>1, AtMostIsOrder
    <3>2. Consumed(b) = seen[c] /\ seen[c].i < BlockSize
      <4>1. ~ At(c, {"consume", "release"}, b) /\ ~ Opens(c, "reset_reserved", b)
        BY <2>2 DEF At, Opens
      <4>2. QED
        BY <1>1, <2>1, <2>2, <4>1 DEF ConsumerBlock
    <3>3. Committed(b).v = seen[c].v /\ seen[c].i < Committed(b).i
      BY <1>1, <3>1, <3>2 DEF Leads, AtMost, FromParts, Pair
    <3>4. QED
      BY <1>1, <2>2, <3>3 DEF Marked, b
  <2>3. ASSUME pc[c] = "max_reserved", At(p, {"produce", "commit"}, b)
        PROVE  seen[p].i # seen[c].i
    <3>1. Committed(b) = seen[p] /\ seen[c].i < Committed(b).i
      BY <1>1, <2>2, <2>3 DEF ProducerBlock
    <3>2. QED
      BY <1>1, <3>1 DEF Pair
  <2>4. QED
    BY <1>1, <1>3, <2>1, <2>2, <2>3, FifoNames DEF Fifo!ReserverKnows, Reserved, Committed
<1>7. QED
  BY <1>4, <1>5, <1>6

(* No slot of the ring is ever two threads' at once.                       *)
LEMMA SlotMaps ==
    ASSUME NEW p, NEW c, Mapped(p, c)
    PROVE  Fifo!NoCarry /\ Fifo!TypeOK /\ Fifo!SlotInv
<1>1. Lone(p, c) /\ Ring!TypeOK
  BY Parts DEF Mapped, TypeOK
<1>2. Fifo!NoCarry /\ Fifo!TypeOK
  BY <1>1, FifoNoCarry, FifoTypes
<1>3. Fifo!OvershootBounded
  <2>1. \A b \in Blocks : Allocated(b).i + Fifo!Cardinality(Fifo!Adders(b)) < BlockSize + Fifo!Cardinality(Producers)
    BY CountsMap
  <2>2. QED
    BY <2>1, FifoNames DEF Fifo!OvershootBounded, Allocated
<1>4. \A b \in Fifo!Blocks : Fifo!ProducerWords(b) /\ Fifo!ConsumerWords(b) /\ Fifo!ProducersLead(b)
  BY CountsMap, FifoNames
<1>5. /\ Fifo!WriterOwns(p) /\ Fifo!OpenerKnows(p)
      /\ Fifo!ReaderOwns(c) /\ Fifo!FollowerKnows(c) /\ Fifo!ReserverKnows(c)
  BY ProducerMaps, ConsumerMaps
<1>6. QED
  BY <1>1, <1>2, <1>3, <1>4, <1>5 DEF Fifo!SlotInv, Lone
-----------------------------------------------------------------------------
(* A side that has come to a head, or opened the block after it, is in     *)
(* order.                                                                  *)
LEMMA ComeToOrder ==
    ASSUME NEW word \in [Blocks -> Pair], NEW h \in Heads, NEW to, NEW opened \in BOOLEAN,
           to = IF opened THEN VersionIncAdd(NumBlocks, h) ELSE h,
           \A b \in Blocks : ComeTo(word[b], b, to)
    PROVE  /\ Fifo!InOrder(word) /\ Fifo!Reached(word, h) /\ Fifo!Reached(word, Zero)
           /\ word[h.i].i = BlockSize => Fifo!Passed(word, h)
           /\ opened => AtMost(FromParts(h.v + 1, 0), word[After(h)])
           /\ h.i # 0 => word[h.i].v > 0
<1>1. /\ h.v \in Nat /\ h.i \in Blocks /\ After(h) \in Blocks /\ After(h) # h.i
      /\ to \in Heads /\ to.v \in Nat /\ to.i \in Blocks
      /\ VersionAt(h.i, to) = VersionAt(h.i, h)
      /\ opened => VersionAt(After(h), to) = h.v + 1
  <2>1. h.v \in Nat /\ h.i \in Blocks /\ After(h) \in Blocks /\ After(h) # h.i /\ to \in Heads
    BY HeadLemma
  <2>2. VersionAt(h.i, to) = VersionAt(h.i, h) /\ (opened => VersionAt(After(h), to) = h.v + 1)
    BY <2>1, HeadLemma
  <2>3. QED
    BY <2>1, <2>2 DEF Heads
<1>2. /\ 0 \in Blocks /\ \A b \in Blocks : b \in Nat
      /\ \A b \in Blocks : word[b] \in Pair /\ word[b].v \in Nat /\ word[b].i \in Nat
  BY DEF Blocks, Pair
<1>3. VersionAt(h.i, h) = Fifo!VersionIn(h.i, h.v)
  BY <1>1, <1>2 DEF VersionAt, Fifo!VersionIn
<1>4. word[h.i].v = Fifo!VersionIn(h.i, h.v)
  BY <1>1, <1>3 DEF ComeTo
<1>5. Fifo!Follows(word, to)
  <2>1. ASSUME NEW b \in Blocks
        PROVE  /\ word[b].v = Fifo!VersionIn(b, IF b <= to.i THEN to.v ELSE to.v - 1)
               /\ b # to.i => Fifo!BlockDone(word[b])
    <3>1. word[b].v = VersionAt(b, to) /\ (b # to.i => word[b].i = BlockSize)
      BY DEF ComeTo
    <3>2. VersionAt(b, to) = Fifo!VersionIn(b, IF b <= to.i THEN to.v ELSE to.v - 1)
      BY <1>1, <1>2 DEF VersionAt, Fifo!VersionIn
    <3>3. QED
      BY <3>1, <3>2 DEF Fifo!BlockDone
  <2>2. QED
    BY <2>1, FifoNames DEF Fifo!Follows
<1>6. Fifo!InOrder(word)
  BY <1>1, <1>5, FifoNames, FifoAssumptions, Fifo!HeadOrder
<1>7. Fifo!Reached(word, h)
  BY <1>1, <1>2, <1>4, FifoNames DEF Fifo!Reached, FromParts, AtMost
<1>8. Fifo!Reached(word, Zero)
  BY <1>2, FifoNames DEF Fifo!Reached, Fifo!VersionIn, Zero, FromParts, AtMost
<1>9. word[h.i].i = BlockSize => Fifo!Passed(word, h)
  BY <1>1, <1>2, <1>4, FifoNames DEF Fifo!Passed, FromParts, AtMost
<1>10. opened => AtMost(FromParts(h.v + 1, 0), word[After(h)])
  <2>1. opened => word[After(h)].v = h.v + 1
    BY <1>1 DEF ComeTo
  <2>2. QED
    BY <1>1, <1>2, <2>1 DEF FromParts, AtMost
<1>11. h.i # 0 => word[h.i].v > 0
  BY <1>1, <1>2, <1>4 DEF Fifo!VersionIn
<1>12. QED
  BY <1>6, <1>7, <1>8, <1>9, <1>10, <1>11

(* Both sides go through the blocks in order.                              *)
LEMMA RingMaps ==
    ASSUME NEW p, NEW c, Mapped(p, c)
    PROVE  Fifo!RingInv
<1> DEFINE handed == [b \in Blocks |-> Last(<<"allocated", b>>)]
           taken == [b \in Blocks |-> Last(<<"reserved", b>>)]
<1>1. /\ Lone(p, c) /\ Ring!TypeOK /\ AtRest /\ p \in Threads /\ c \in Threads
      /\ Phead \in Heads /\ Chead \in Heads /\ ProducerKnows(p) /\ ConsumerKnows(c)
      /\ \A b \in Blocks : /\ Allocated(b) \in Pair /\ Reserved(b) \in Pair
                           /\ ProducerBlock(p, b) /\ ConsumerBlock(c, b)
  BY Facts, Parts DEF Mapped, TypeOK
<1>2. \A t \in Threads : /\ Block(t) = head[t].i /\ NextBlock(t) = After(head[t])
                         /\ Block(t) \in Blocks /\ NextBlock(t) \in Blocks
                         /\ Opening(t) = FromParts(head[t].v + 1, 0)
                         /\ head[t] \in Heads /\ seen[t] \in Pair
  BY Facts DEF Mapped
<1>3. /\ handed \in [Blocks -> Pair] /\ taken \in [Blocks -> Pair]
      /\ \A b \in Blocks : handed[b] = Allocated(b) /\ taken[b] = Reserved(b)
  BY <1>1 DEF Allocated, Reserved
<1>4. /\ \A b \in Blocks : ComeTo(handed[b], b, PushedTo(p))
      /\ \A b \in Blocks : ComeTo(taken[b], b, PoppedTo(c))
  BY <1>1, <1>3 DEF ProducerBlock, ConsumerBlock
<1>5. /\ pc[p] \in Ring!ProducerSteps /\ pc[c] \in Ring!ConsumerSteps
  BY <1>1 DEF Ring!TypeOK, Lone
<1>6. /\ (pc[p] \in {"idle", "load_phead"} /\ head[p] = Zero) \/ head[p] = Phead
      /\ (pc[c] \in {"idle", "load_chead"} /\ head[c] = Zero) \/ head[c] = Chead
  BY <1>1 DEF ProducerKnows, ConsumerKnows, AtRest
<1> HIDE DEF handed, taken
<1>7. /\ Fifo!InOrder(handed) /\ Fifo!Reached(handed, Phead) /\ Fifo!Reached(handed, Zero)
      /\ handed[Phead.i].i = BlockSize => Fifo!Passed(handed, Phead)
      /\ pc[p] = "max_phead" => AtMost(FromParts(Phead.v + 1, 0), handed[After(Phead)])
      /\ Phead.i # 0 => handed[Phead.i].v > 0
  BY <1>1, <1>3, <1>4, ComeToOrder DEF PushedTo
<1>8. /\ Fifo!InOrder(taken) /\ Fifo!Reached(taken, Chead) /\ Fifo!Reached(taken, Zero)
      /\ taken[Chead.i].i = BlockSize => Fifo!Passed(taken, Chead)
      /\ pc[c] = "max_chead" => AtMost(FromParts(Chead.v + 1, 0), taken[After(Chead)])
      /\ Chead.i # 0 => taken[Chead.i].v > 0
  BY <1>1, <1>3, <1>4, ComeToOrder DEF PoppedTo
<1>9. Fifo!KeepsOrder(handed, p, Fifo!PastAllocated, "max_phead")
  <2>1. Fifo!Reached(handed, head[p])
    BY <1>6, <1>7
  <2>2. ASSUME pc[p] \in Fifo!PastAllocated PROVE Fifo!Passed(handed, head[p])
    <3>1. pc[p] \in {"check_consumed", "check_reserved", "max_committed", "max_allocated", "max_phead"}
      BY <2>2 DEF Fifo!PastAllocated
    <3>2. head[p] = Phead /\ Allocated(Block(p)).i = BlockSize
      BY <1>1, <3>1 DEF ProducerKnows
    <3>3. QED
      BY <1>1, <1>2, <1>3, <1>7, <3>2
  <2>3. ASSUME pc[p] = "max_phead" PROVE AtMost(Opening(p), handed[NextBlock(p)])
    BY <1>1, <1>2, <1>6, <1>7, <2>3
  <2>4. QED
    BY <2>1, <2>2, <2>3, FifoNames DEF Fifo!KeepsOrder
<1>10. Fifo!KeepsOrder(taken, c, Fifo!PastReserved, "max_chead")
  <2>1. Fifo!Reached(taken, head[c])
    BY <1>6, <1>8
  <2>2. ASSUME pc[c] \in Fifo!PastReserved PROVE Fifo!Passed(taken, head[c])
    <3>1. pc[c] \in {"check_committed", "max_consumed", "reset_reserved", "max_chead"}
      BY <2>2 DEF Fifo!PastReserved
    <3>2. head[c] = Chead /\ Reserved(Block(c)).i = BlockSize
      BY <1>1, <3>1 DEF ConsumerKnows
    <3>3. QED
      BY <1>1, <1>2, <1>3, <1>8, <3>2
  <2>3. ASSUME pc[c] = "max_chead" PROVE AtMost(Opening(c), taken[NextBlock(c)])
    BY <1>1, <1>2, <1>6, <1>8, <2>3
  <2>4. QED
    BY <2>1, <2>2, <2>3, FifoNames DEF Fifo!KeepsOrder
<1>11. ASSUME NEW t \in Threads, Fifo!Holding(t), head[t].i # 0
       PROVE  seen[t].v > 0
  <2>1. pc[t] \in {"produce", "commit", "consume", "release"}
    BY <1>11 DEF Fifo!Holding
  <2>2. CASE t = p
    <3>1. At(p, {"produce", "commit"}, head[p].i) /\ head[p] = Phead
      BY <1>2, <1>5, <1>6, <2>1, <2>2 DEF At, Ring!ProducerSteps
    <3>2. Allocated(head[p].i) = FromParts(seen[p].v, seen[p].i + 1)
      BY <1>1, <1>2, <3>1 DEF ProducerBlock
    <3>3. QED
      BY <1>2, <1>3, <1>7, <1>11, <2>2, <3>1, <3>2 DEF FromParts
  <2>3. CASE t = c
    <3>1. At(c, {"consume", "release"}, head[c].i) /\ head[c] = Chead
      BY <1>2, <1>5, <1>6, <2>1, <2>3 DEF At, Ring!ConsumerSteps
    <3>2. Reserved(head[c].i) = FromParts(seen[c].v, seen[c].i + 1)
      BY <1>1, <1>2, <3>1 DEF ConsumerBlock
    <3>3. QED
      BY <1>2, <1>3, <1>8, <1>11, <2>3, <3>1, <3>2 DEF FromParts
  <2>4. QED
    BY <1>1, <2>2, <2>3 DEF Lone, Threads
<1>12. Fifo!StartedFull
  BY <1>2, <1>11, FifoNames DEF Fifo!StartedFull
<1>13. QED
  BY <1>1, <1>7, <1>8, <1>9, <1>10, <1>12 DEF Fifo!RingInv, Lone, handed, taken, Phead, Chead
-----------------------------------------------------------------------------
(* What the words of a block say of a slot, whatever the two threads do.   *)
LEMMA SlotSays ==
    ASSUME NEW p, NEW c, Mapped(p, c), NEW b \in Blocks, NEW s \in Slots
    PROVE  LET written == \/ s < Committed(b).i
                          \/ pc[p] = "commit" /\ Block(p) = b /\ seen[p].i = s
               free == /\ s < Allocated(b).i
                       /\ ~ (pc[p] = "produce" /\ Block(p) = b /\ seen[p].i = s)
               released == pc[c] = "release" /\ Block(c) = b /\ seen[c].i = s
               read == pc[c] = "consume" /\ Block(c) = b /\ seen[c].i = s
           IN  /\ entries[b][s] =
                      IF written /\ (Committed(b).v = Consumed(b).v => Consumed(b).i <= s /\ ~ released)
                      THEN Committed(b).v ELSE -1
               /\ Fifo!Full(b, s) <=> /\ free
                                      /\ \/ Reserved(b).v < Allocated(b).v
                                         \/ Reserved(b).v = Allocated(b).v /\ Reserved(b).i <= s
               /\ s \in Fifo!Unread(b) <=> read
<1>1. Lone(p, c) /\ EntryHeld(b, s) /\ Fifo!Handed(b) = Allocated(b).i
  BY Facts, BlockParts DEF Mapped
<1>2. /\ (\E q \in Producers : pc[q] = "commit" /\ Slot(q) = <<b, s>>)
             <=> pc[p] = "commit" /\ Block(p) = b /\ seen[p].i = s
      /\ (\E d \in Consumers : pc[d] = "release" /\ Slot(d) = <<b, s>>)
             <=> pc[c] = "release" /\ Block(c) = b /\ seen[c].i = s
  BY <1>1 DEF Lone, Slot
<1>3. /\ s \in Fifo!Unwritten(b) <=> pc[p] = "produce" /\ Block(p) = b /\ seen[p].i = s
      /\ s \in Fifo!Unread(b) <=> pc[c] = "consume" /\ Block(c) = b /\ seen[c].i = s
  BY <1>1, FifoNames DEF Fifo!Unwritten, Fifo!Unread, Lone
<1>4. Fifo!Full(b, s) <=> /\ s < Allocated(b).i /\ s \notin Fifo!Unwritten(b)
                          /\ \/ Reserved(b).v < Allocated(b).v
                             \/ Reserved(b).v = Allocated(b).v /\ Reserved(b).i <= s
  BY <1>1 DEF Fifo!Full, Allocated, Reserved
<1>5. QED
  BY <1>1, <1>2, <1>3, <1>4 DEF EntryHeld, Filled

(* The words of a block are in one of these cases on either side.          *)
LEMMA BlockCases ==
    ASSUME NEW p, NEW c, Mapped(p, c), NEW b \in Blocks
    PROVE  /\ \/ /\ pc[p] \in {"produce", "commit"} /\ Block(p) = b
                 /\ Allocated(b).v = seen[p].v /\ Allocated(b).i = seen[p].i + 1
                 /\ Committed(b).v = seen[p].v /\ Committed(b).i = seen[p].i
              \/ /\ ~ (pc[p] \in {"produce", "commit"} /\ Block(p) = b)
                 /\ Committed(b) = Allocated(b)
              \/ /\ ~ (pc[p] \in {"produce", "commit"} /\ Block(p) = b)
                 /\ Committed(b).v = Allocated(b).v + 1 /\ Committed(b).i = 0
                 /\ AtMost(FromParts(Allocated(b).v, BlockSize), Consumed(b))
           /\ \/ /\ pc[c] \in {"consume", "release"} /\ Block(c) = b
                 /\ Reserved(b).v = seen[c].v /\ Reserved(b).i = seen[c].i + 1
                 /\ Consumed(b).v = seen[c].v /\ Consumed(b).i = seen[c].i
              \/ /\ ~ (pc[c] \in {"consume", "release"} /\ Block(c) = b)
                 /\ Consumed(b) = Reserved(b)
              \/ /\ ~ (pc[c] \in {"consume", "release"} /\ Block(c) = b)
                 /\ Consumed(b).v = Reserved(b).v + 1 /\ Consumed(b).i = 0
                 /\ Reserved(b).i = BlockSize
           /\ Allocated(b).i <= BlockSize /\ Reserved(b).i <= BlockSize
           /\ AtMost(Reserved(b), Committed(b)) /\ Leads(b)
<1>1. /\ ProducerBlock(p, b) /\ ConsumerBlock(c, b) /\ Leads(b)
      /\ Allocated(b) \in Pair /\ Reserved(b) \in Pair
      /\ Opening(p) = FromParts(head[p].v + 1, 0) /\ Opening(c) = FromParts(head[c].v + 1, 0)
      /\ head[p] \in Heads /\ head[c] \in Heads /\ Phead \in Heads /\ Chead \in Heads
      /\ NextBlock(p) = After(head[p]) /\ NextBlock(c) = After(head[c])
      /\ ProducerKnows(p) /\ ConsumerKnows(c)
  BY Facts, Parts DEF Mapped
<1>2. AtMost(Reserved(b), Committed(b))
  BY NextLemma DEF Mapped
<1>3. \A f \in Pair : \A v, i : f = FromParts(v, i) => f.v = v /\ f.i = i
  BY DEF FromParts
<1>4. \/ /\ pc[p] \in {"produce", "commit"} /\ Block(p) = b
         /\ Allocated(b).v = seen[p].v /\ Allocated(b).i = seen[p].i + 1
         /\ Committed(b).v = seen[p].v /\ Committed(b).i = seen[p].i
      \/ /\ ~ (pc[p] \in {"produce", "commit"} /\ Block(p) = b)
         /\ Committed(b) = Allocated(b)
      \/ /\ ~ (pc[p] \in {"produce", "commit"} /\ Block(p) = b)
         /\ Committed(b).v = Allocated(b).v + 1 /\ Committed(b).i = 0
         /\ AtMost(FromParts(Allocated(b).v, BlockSize), Consumed(b))
  <2>1. CASE At(p, {"produce", "commit"}, b)
    BY <1>1, <2>1 DEF ProducerBlock, At, FromParts
  <2>2. CASE ~ At(p, {"produce", "commit"}, b) /\ Opens(p, "max_allocated", b)
    <3>1. Committed(b) = FromParts(head[p].v + 1, 0)
          /\ AtMost(FromParts(head[p].v, BlockSize), Consumed(b))
      BY <1>1, <2>2 DEF ProducerBlock
    <3>2. pc[p] = "max_allocated" /\ b = After(head[p]) /\ head[p] = Phead /\ PushedTo(p) = Phead
      BY <1>1, <2>2 DEF Opens, ProducerKnows, PushedTo
    <3>3. Allocated(b).v = head[p].v
      BY <1>1, <3>2, HeadLemma DEF ProducerBlock, ComeTo
    <3>4. QED
      BY <2>2, <3>1, <3>3 DEF At, FromParts
  <2>3. CASE ~ At(p, {"produce", "commit"}, b) /\ ~ Opens(p, "max_allocated", b)
    BY <1>1, <2>3 DEF ProducerBlock, At
  <2>4. QED
    BY <2>1, <2>2, <2>3
<1>5. \/ /\ pc[c] \in {"consume", "release"} /\ Block(c) = b
         /\ Reserved(b).v = seen[c].v /\ Reserved(b).i = seen[c].i + 1
         /\ Consumed(b).v = seen[c].v /\ Consumed(b).i = seen[c].i
      \/ /\ ~ (pc[c] \in {"consume", "release"} /\ Block(c) = b)
         /\ Consumed(b) = Reserved(b)
      \/ /\ ~ (pc[c] \in {"consume", "release"} /\ Block(c) = b)
         /\ Consumed(b).v = Reserved(b).v + 1 /\ Consumed(b).i = 0
         /\ Reserved(b).i = BlockSize
  <2>1. CASE At(c, {"consume", "release"}, b)
    BY <1>1, <2>1 DEF ConsumerBlock, At, FromParts
  <2>2. CASE ~ At(c, {"consume", "release"}, b) /\ Opens(c, "reset_reserved", b)
    <3>1. Consumed(b) = FromParts(head[c].v + 1, 0)
      BY <1>1, <2>2 DEF ConsumerBlock
    <3>2. pc[c] = "reset_reserved" /\ b = After(head[c]) /\ head[c] = Chead /\ PoppedTo(c) = Chead
      BY <1>1, <2>2 DEF Opens, ConsumerKnows, PoppedTo
    <3>3. Reserved(b).v = head[c].v /\ Reserved(b).i = BlockSize
      BY <1>1, <3>2, HeadLemma DEF ConsumerBlock, ComeTo
    <3>4. QED
      BY <2>2, <3>1, <3>3 DEF At, FromParts
  <2>3. CASE ~ At(c, {"consume", "release"}, b) /\ ~ Opens(c, "reset_reserved", b)
    BY <1>1, <2>3 DEF ConsumerBlock, At
  <2>4. QED
    BY <2>1, <2>2, <2>3
<1>6. QED
  BY <1>1, <1>2, <1>4, <1>5 DEF ProducerBlock, ConsumerBlock

(* Values are where MpmcInvariant says they are.                           *)
LEMMA ValueMaps ==
    ASSUME NEW p, NEW c, Mapped(p, c)
    PROVE  Fifo!ValueInv
<1>1. SUFFICES ASSUME NEW b \in Blocks, NEW s \in Slots
               PROVE  entries[b][s] = IF Fifo!Full(b, s) THEN Allocated(b).v
                                      ELSE IF s \in Fifo!Unread(b) THEN Reserved(b).v ELSE -1
  BY FifoNames DEF Fifo!ValueInv, Fifo!Absent, Allocated, Reserved
<1>2. /\ Allocated(b) \in Pair /\ Committed(b) \in Pair /\ Reserved(b) \in Pair
      /\ Consumed(b) \in Pair /\ seen[p] \in Pair /\ seen[c] \in Pair
  BY Facts, Parts DEF Mapped
<1> DEFINE written == \/ s < Committed(b).i
                      \/ pc[p] = "commit" /\ Block(p) = b /\ seen[p].i = s
           free == /\ s < Allocated(b).i
                   /\ ~ (pc[p] = "produce" /\ Block(p) = b /\ seen[p].i = s)
           released == pc[c] = "release" /\ Block(c) = b /\ seen[c].i = s
           read == pc[c] = "consume" /\ Block(c) = b /\ seen[c].i = s
           kept == Committed(b).v = Consumed(b).v => Consumed(b).i <= s /\ ~ released
           unreserved == \/ Reserved(b).v < Allocated(b).v
                         \/ Reserved(b).v = Allocated(b).v /\ Reserved(b).i <= s
<1>3. /\ entries[b][s] = IF written /\ kept THEN Committed(b).v ELSE -1
      /\ Fifo!Full(b, s) <=> free /\ unreserved
      /\ s \in Fifo!Unread(b) <=> read
  BY SlotSays
<1>4. /\ Allocated(b).v \in Nat /\ Allocated(b).i \in Nat /\ Committed(b).v \in Nat
      /\ Committed(b).i \in Nat /\ Reserved(b).v \in Nat /\ Reserved(b).i \in Nat
      /\ Consumed(b).v \in Nat /\ Consumed(b).i \in Nat /\ seen[p].i \in Nat /\ seen[c].i \in Nat
      /\ seen[p].v \in Nat /\ seen[c].v \in Nat /\ s \in Nat /\ s < BlockSize
  BY <1>2 DEF Pair, Slots
<1>5. /\ Reserved(b).v < Committed(b).v
         \/ (Reserved(b).v = Committed(b).v /\ Reserved(b).i <= Committed(b).i)
      /\ Committed(b).v = Consumed(b).v
         \/ (Committed(b).v = Consumed(b).v + 1 /\ Consumed(b).i = BlockSize)
      /\ Allocated(b).i <= BlockSize /\ Reserved(b).i <= BlockSize
  BY BlockCases DEF AtMost, Leads
<1>6. \/ /\ Committed(b).v = Allocated(b).v
         /\ written <=> free
      \/ /\ ~ written
         /\ Committed(b).v = Allocated(b).v + 1 /\ Committed(b).i = 0
         /\ Allocated(b).v < Consumed(b).v
            \/ (Allocated(b).v = Consumed(b).v /\ BlockSize <= Consumed(b).i)
  BY <1>4, BlockCases DEF AtMost, FromParts
<1>7. \/ /\ pc[c] \in {"consume", "release"} /\ Block(c) = b
         /\ Reserved(b).v = Consumed(b).v /\ Reserved(b).i = Consumed(b).i + 1
         /\ Consumed(b).i = seen[c].i
      \/ /\ ~ released /\ ~ read
         /\ \/ Consumed(b).v = Reserved(b).v /\ Consumed(b).i = Reserved(b).i
            \/ Consumed(b).v = Reserved(b).v + 1 /\ Consumed(b).i = 0 /\ Reserved(b).i = BlockSize
  BY <1>4, BlockCases
<1>8. s < Committed(b).i => written
  OBVIOUS
<1>9. pc[c] \in {"consume", "release"} /\ Block(c) = b =>
          /\ read <=> pc[c] = "consume" /\ seen[c].i = s
          /\ released <=> pc[c] # "consume" /\ seen[c].i = s
  OBVIOUS
<1> HIDE DEF written, free, released, read
<1>10. CASE Committed(b).v = Allocated(b).v /\ (written <=> free)
  <2>1. written /\ kept <=> (free /\ unreserved) \/ read
    BY <1>4, <1>5, <1>7, <1>8, <1>9, <1>10
  <2>2. read /\ ~ (free /\ unreserved) => Reserved(b).v = Committed(b).v
    BY <1>4, <1>5, <1>7, <1>8, <1>9, <1>10
  <2>3. QED
    BY <1>3, <1>10, <2>1, <2>2
<1>11. CASE /\ ~ written
            /\ Committed(b).v = Allocated(b).v + 1 /\ Committed(b).i = 0
            /\ Allocated(b).v < Consumed(b).v
               \/ (Allocated(b).v = Consumed(b).v /\ BlockSize <= Consumed(b).i)
  <2>1. ~ unreserved /\ ~ read
    BY <1>4, <1>5, <1>7, <1>9, <1>11
  <2>2. QED
    BY <1>3, <1>11, <2>1
<1>12. QED
  BY <1>6, <1>10, <1>11
-----------------------------------------------------------------------------
(* The steps that update a word or access a slot are those of Mpmc.        *)
LEMMA PushSteps ==
    ASSUME NEW p
    PROVE  /\ AddAllocated(p) => Fifo!AddAllocated(p)
           /\ MaxCommitted(p) => Fifo!MaxCommitted(p)
           /\ MaxAllocated(p) => Fifo!MaxAllocated(p)
           /\ MaxPhead(p) => Fifo!MaxPhead(p)
           /\ Produce(p) => Fifo!Produce(p)
           /\ Commit(p) => Fifo!Commit(p)
<1>1. /\ \A f, i : Fifo!Count(f, i) = Ring!Count(f, i)
      /\ \A f, i, x : Fifo!Raise(f, i, x) = Ring!Raise(f, i, x)
      /\ Fifo!Block(p) = Ring!Block(p) /\ Fifo!NextBlock(p) = Ring!NextBlock(p)
      /\ Fifo!Opening(p) = Ring!Opening(p)
      /\ \A f, g : Fifo!MaxPair(f, g) = Ring!MaxPair(f, g)
      /\ \A f : Fifo!BlockDone(f) <=> Ring!BlockDone(f)
      /\ \A f : Fifo!VersionIncAdd(NumBlocks, f) = Ring!VersionIncAdd(NumBlocks, f)
  BY DEF Fifo!Count, Ring!Count, Fifo!Incr, Ring!Incr, Fifo!Raise, Ring!Raise, Fifo!MaxPair,
         Ring!MaxPair, Fifo!AtMost, Ring!AtMost, Fifo!FromParts, Ring!FromParts,
         Fifo!Block, Ring!Block, Fifo!NextBlock, Ring!NextBlock, Fifo!Opening, Ring!Opening,
         Fifo!BlockDone, Ring!BlockDone, Fifo!VersionIncAdd, Ring!VersionIncAdd
<1>2. /\ \A step : Ring!Goto(p, step) <=> Fifo!Goto(p, step)
      /\ \A step : Ring!Leave(p, step) <=> Fifo!Leave(p, step)
      /\ Ring!Return(p) <=> Fifo!Return(p)
      /\ Ring!cursors = Fifo!cursors /\ Ring!words = Fifo!words
      /\ (UNCHANGED Ring!cursors <=> UNCHANGED Fifo!cursors)
      /\ (UNCHANGED Ring!words <=> UNCHANGED Fifo!words)
  BY DEF Ring!Goto, Fifo!Goto, Ring!Leave, Fifo!Leave, Ring!Return, Fifo!Return, Ring!Zero, Fifo!Zero,
         Ring!FromParts, Fifo!FromParts, Ring!cursors, Fifo!cursors, Ring!words, Fifo!words
<1>3. AddAllocated(p) => Fifo!AddAllocated(p)
  BY <1>1, <1>2 DEF AddAllocated, Ring!AddAllocated, Fifo!AddAllocated
<1>4. MaxCommitted(p) => Fifo!MaxCommitted(p)
  BY <1>1, <1>2 DEF MaxCommitted, Ring!MaxCommitted, Fifo!MaxCommitted
<1>5. MaxAllocated(p) => Fifo!MaxAllocated(p)
  BY <1>1, <1>2 DEF MaxAllocated, Ring!MaxAllocated, Fifo!MaxAllocated
<1>6. MaxPhead(p) => Fifo!MaxPhead(p)
  BY <1>1, <1>2 DEF MaxPhead, Ring!MaxPhead, Fifo!MaxPhead
<1>7. Produce(p) => Fifo!Produce(p)
  BY <1>1, <1>2 DEF Produce, Ring!Produce, Fifo!Produce
<1>8. Commit(p) => Fifo!Commit(p)
  BY <1>1, <1>2 DEF Commit, Ring!Commit, Fifo!Commit
<1>9. QED
  BY <1>3, <1>4, <1>5, <1>6, <1>7, <1>8

(* So are those of a pop.                                                  *)
LEMMA PopSteps ==
    ASSUME NEW c
    PROVE  /\ MaxReserved(c) => Fifo!MaxReserved(c)
           /\ MaxConsumed(c) => Fifo!MaxConsumed(c)
           /\ ResetReserved(c) => Fifo!ResetReserved(c)
           /\ MaxChead(c) => Fifo!MaxChead(c)
           /\ Consume(c) => Fifo!Consume(c)
           /\ Release(c) => Fifo!Release(c)
<1>1. /\ \A f, i : Fifo!Count(f, i) = Ring!Count(f, i)
      /\ \A f, i, x : Fifo!Raise(f, i, x) = Ring!Raise(f, i, x)
      /\ \A f : Fifo!Incr(IndexSpan, f) = Ring!Incr(IndexSpan, f)
      /\ Fifo!Block(c) = Ring!Block(c) /\ Fifo!NextBlock(c) = Ring!NextBlock(c)
      /\ Fifo!Opening(c) = Ring!Opening(c)
      /\ \A f, g : Fifo!MaxPair(f, g) = Ring!MaxPair(f, g)
      /\ \A f : Fifo!VersionIncAdd(NumBlocks, f) = Ring!VersionIncAdd(NumBlocks, f)
      /\ Fifo!Absent = Ring!Absent
  BY DEF Fifo!Count, Ring!Count, Fifo!Incr, Ring!Incr, Fifo!Raise, Ring!Raise, Fifo!MaxPair,
         Ring!MaxPair, Fifo!AtMost, Ring!AtMost, Fifo!FromParts, Ring!FromParts,
         Fifo!Block, Ring!Block, Fifo!NextBlock, Ring!NextBlock, Fifo!Opening, Ring!Opening,
         Fifo!VersionIncAdd, Ring!VersionIncAdd, Fifo!Absent, Ring!Absent
<1>2. /\ \A step : Ring!Goto(c, step) <=> Fifo!Goto(c, step)
      /\ \A step : Ring!Leave(c, step) <=> Fifo!Leave(c, step)
      /\ Ring!Return(c) <=> Fifo!Return(c)
      /\ (UNCHANGED Ring!cursors <=> UNCHANGED Fifo!cursors)
      /\ (UNCHANGED Ring!words <=> UNCHANGED Fifo!words)
  BY DEF Ring!Goto, Fifo!Goto, Ring!Leave, Fifo!Leave, Ring!Return, Fifo!Return, Ring!Zero, Fifo!Zero,
         Ring!FromParts, Fifo!FromParts, Ring!cursors, Fifo!cursors, Ring!words, Fifo!words
<1>3. MaxReserved(c) => Fifo!MaxReserved(c)
  BY <1>1, <1>2 DEF MaxReserved, Ring!MaxReserved, Fifo!MaxReserved
<1>4. MaxConsumed(c) => Fifo!MaxConsumed(c)
  BY <1>1, <1>2 DEF MaxConsumed, Ring!MaxConsumed, Fifo!MaxConsumed
<1>5. ResetReserved(c) => Fifo!ResetReserved(c)
  BY <1>1, <1>2 DEF ResetReserved, Ring!ResetReserved, Fifo!ResetReserved
<1>6. MaxChead(c) => Fifo!MaxChead(c)
  BY <1>1, <1>2 DEF MaxChead, Ring!MaxChead, Fifo!MaxChead
<1>7. Consume(c) => Fifo!Consume(c)
  BY <1>1, <1>2 DEF Consume, Ring!Consume, Fifo!Consume
<1>8. Release(c) => Fifo!Release(c)
  BY <1>1, <1>2 DEF Release, Ring!Release, Fifo!Release
<1>9. QED
  BY <1>3, <1>4, <1>5, <1>6, <1>7, <1>8
-----------------------------------------------------------------------------
(* The step of the queue that a step of the ring may be is none.           *)
Still == Fifo!Issued' = Fifo!Issued /\ Fifo!Held' = Fifo!Held /\ Fifo!Contents' = Fifo!Contents

(* The thread that steps lets go of its head when it starts again.         *)
Rests(t) == pc'[t] \in {"idle", "load_phead", "load_chead"} => head'[t] = Zero

(* The others stay as they were.                                           *)
LEMMA RestKept ==
    ASSUME NEW p, NEW c, Lone(p, c), AtRest, NEW t \in Threads, Fifo!OthersKeep(t), Rests(t)
    PROVE  AtRest'
  BY FifoNames DEF AtRest, Rests, Fifo!OthersKeep, Threads

(* A producer leaves the consumer with what that found of committed: it    *)
(* commits what is not, and opens a block that the consumer is done with.  *)
LEMMA MarkedKept ==
    ASSUME NEW p, NEW c, Mapped(p, c), Fifo!OthersKeep(p), Fifo!TypeOK',
           \/ [b \in Blocks |-> Last(<<"committed", b>>)]' = [b \in Blocks |-> Last(<<"committed", b>>)]
           \/ Fifo!MaxCommitted(p)
           \/ Fifo!Commit(p)
    PROVE  Marked(c)'
<1>1. PICK b \in Blocks : b = Block(c)
  BY Facts, Parts DEF Mapped
<1>2. /\ c \in Consumers /\ c \in Threads /\ c # p /\ p \in Threads
      /\ pc'[c] = pc[c] /\ head'[c] = head[c] /\ seen'[c] = seen[c] /\ mark'[c] = mark[c]
  BY Facts, Parts, FifoNames DEF Mapped, Lone, Fifo!OthersKeep
<1>3. Block(c)' = b
  BY <1>1, <1>2, IdlesLemma DEF Idles
<1>4. SUFFICES ASSUME pc[c] \in {"load_allocated", "max_reserved"}
               PROVE  seen[c].i < mark[c].i /\ mark[c].i <= Committed(b)'.i
  BY <1>2, <1>3 DEF Marked
<1>5. /\ seen[c].i < mark[c].i /\ mark[c].i <= Committed(b).i /\ mark[c].i \in Nat
      /\ Committed(b) \in Pair /\ Consumed(b) \in Pair /\ seen[c] \in Pair /\ seen[p] \in Pair
      /\ Committed(b).i \in Nat /\ Committed(b).v \in Nat /\ head[p] \in Heads /\ head[p].v \in Nat
      /\ ProducerBlock(p, b) /\ NextBlock(p) \in Blocks /\ Block(p) \in Blocks
      /\ Opening(p) = FromParts(head[p].v + 1, 0) /\ Allocated(b) \in Pair
  <2>1. Marked(c) /\ Holds(p, c)
    BY DEF Mapped
  <2>2. mark[c] \in Pair
    BY <1>2, <2>1, Locals
  <2>3. QED
    BY <1>1, <1>2, <1>4, <2>1, <2>2, Facts DEF Marked, Pair, Heads
<1>6. Consumed(b).v = Committed(b).v /\ Consumed(b).i < BlockSize
  <2>1. Holds(p, c) /\ ConsumerKnows(c) /\ ConsumerBlock(c, b)
    BY Facts DEF Mapped
  <2>2. Reserved(b) = seen[c] /\ seen[c].i < BlockSize
    BY <1>1, <1>4, <2>1 DEF ConsumerKnows
  <2>3. ~ At(c, {"consume", "release"}, b) /\ ~ Opens(c, "reset_reserved", b)
    BY <1>4 DEF At, Opens
  <2>4. Consumed(b) = seen[c]
    BY <2>1, <2>2, <2>3 DEF ConsumerBlock
  <2>5. QED
    BY <2>1, <2>2, <2>4, NextLemma
<1>7. Committed(b).i <= Committed(b)'.i /\ Committed(b)'.i \in Nat
  <2> DEFINE word == [d \in Blocks |-> Last(<<"committed", d>>)]
  <2>1. word[b] = Committed(b) /\ word'[b] = Committed(b)' /\ Committed(b)'.i \in Nat
    <3>1. word[b] = Committed(b) /\ word'[b] = Committed(b)'
      BY DEF Committed
    <3>2. word'[b] \in Pair
      BY FifoNames DEF Fifo!TypeOK
    <3>3. QED
      BY <3>1, <3>2 DEF Pair
  <2>2. CASE word' = word
    BY <1>5, <2>1, <2>2
  <2>3. CASE Fifo!MaxCommitted(p)
    <3>1. /\ word' = [word EXCEPT ![NextBlock(p)] = Fifo!MaxPair(word[NextBlock(p)], Opening(p))]
          /\ pc[p] = "max_committed"
      BY <2>3, FifoNames DEF Fifo!MaxCommitted, Fifo!Raise
    <3>2. CASE NextBlock(p) = b
      <4>1. AtMost(FromParts(head[p].v, BlockSize), Consumed(b))
        BY <1>5, <3>1, <3>2 DEF ProducerBlock, Opens
      <4>2. head[p].v + 1 <= Committed(b).v
        BY <1>5, <1>6, <4>1 DEF AtMost, FromParts, Pair
      <4>3. Committed(b)' = Fifo!MaxPair(Committed(b), Opening(p))
        BY <2>1, <3>1, <3>2
      <4>4. QED
        BY <1>5, <4>2, <4>3, FifoNames DEF Fifo!MaxPair, AtMost, FromParts
    <3>3. CASE NextBlock(p) # b
      <4>1. word'[b] = word[b]
        BY <3>1, <3>3
      <4>2. Committed(b)' = Committed(b)
        BY <2>1, <4>1
      <4>3. QED
        BY <1>5, <4>2
    <3>4. QED
      BY <3>2, <3>3
  <2>4. CASE Fifo!Commit(p)
    <3>1. word' = [word EXCEPT ![Block(p)] = Fifo!Incr(IndexSpan, word[Block(p)])] /\ pc[p] = "commit"
      BY <2>4, FifoNames DEF Fifo!Commit, Fifo!Count
    <3>2. CASE Block(p) = b
      <4>1. Committed(b).i + 1 < IndexSpan
        BY <1>5, <3>1, <3>2 DEF ProducerBlock, At, FromParts, Pair
      <4>2. Committed(b)' = Fifo!Incr(IndexSpan, Committed(b))
        BY <2>1, <3>1, <3>2
      <4>3. QED
        BY <1>5, <4>1, <4>2 DEF Fifo!Incr, Pair
    <3>3. CASE Block(p) # b
      <4>1. word'[b] = word[b]
        BY <3>1, <3>3
      <4>2. Committed(b)' = Committed(b)
        BY <2>1, <4>1
      <4>3. QED
        BY <1>5, <4>2
    <3>4. QED
      BY <3>2, <3>3
  <2>5. QED
    BY <2>2, <2>3, <2>4
<1>8. QED
  BY <1>5, <1>7

(* A step of the producer that updates a word or writes a slot is a step   *)
(* of layer 0, or none.                                                    *)
LEMMA PushUpdates ==
    ASSUME NEW p, NEW c, Mapped(p, c), Holds(p, c)',
           \/ AddAllocated(p) \/ MaxCommitted(p) \/ MaxAllocated(p) \/ MaxPhead(p)
           \/ Produce(p) \/ Commit(p)
    PROVE  /\ AtRest' /\ Marked(c)'
           /\ \/ Fifo!Tickets!Take(0, p) \/ Fifo!Tickets!Transform(0, p) \/ Fifo!Tickets!Give(0, p)
              \/ Still
<1>1. /\ Lone(p, c) /\ p \in Producers /\ p \in Threads /\ AtRest
      /\ Fifo!NoCarry /\ Fifo!TypeOK /\ Fifo!SlotInv /\ Fifo!RingInv /\ Fifo!ValueInv
  BY Parts, SlotMaps, RingMaps, ValueMaps DEF Mapped, Lone
<1>2. Fifo!TypeOK'
  BY FifoTypes DEF Holds, TypeOK
<1>3. \/ Fifo!AddAllocated(p) \/ Fifo!MaxCommitted(p) \/ Fifo!MaxAllocated(p) \/ Fifo!MaxPhead(p)
      \/ Fifo!Produce(p) \/ Fifo!Commit(p)
  BY PushSteps
<1>4. Fifo!Push(p)
  BY <1>3 DEF Fifo!Push
<1>5. Fifo!OthersKeep(p)
  BY <1>1, <1>4, FifoAssumptions, Fifo!PushChanges
<1>6. Rests(p)
  <2>1. head \in [Threads -> Heads] /\ DOMAIN pc = Threads
    BY <1>1, FifoNames DEF Fifo!TypeOK, Heads
  <2>2. QED
    BY <1>1, <1>3, <2>1
       DEF Fifo!AddAllocated, Fifo!MaxCommitted, Fifo!MaxAllocated, Fifo!MaxPhead, Fifo!Produce,
           Fifo!Commit, Fifo!Return, Fifo!Leave, Fifo!Goto, Fifo!Zero, Fifo!FromParts, Zero, FromParts,
           Rests
<1>7. Marked(c)'
  <2>1. \/ [b \in Blocks |-> Last(<<"committed", b>>)]' = [b \in Blocks |-> Last(<<"committed", b>>)]
        \/ Fifo!MaxCommitted(p)
        \/ Fifo!Commit(p)
    BY <1>3 DEF Fifo!AddAllocated, Fifo!MaxAllocated, Fifo!MaxPhead, Fifo!Produce, Fifo!words
  <2>2. QED
    BY <1>2, <1>5, <2>1, MarkedKept
<1>8. CASE Fifo!AddAllocated(p)
  BY <1>1, <1>2, <1>5, <1>6, <1>7, <1>8, RestKept, FifoAssumptions, Fifo!AddMaps DEF Still
<1>9. CASE Fifo!Produce(p)
  BY <1>1, <1>5, <1>6, <1>7, <1>9, RestKept, FifoAssumptions, Fifo!ProduceMaps
<1>10. CASE Fifo!Commit(p)
  BY <1>1, <1>5, <1>6, <1>7, <1>10, RestKept, FifoAssumptions, Fifo!CommitMaps
<1>11. CASE ~ Fifo!AddAllocated(p) /\ ~ Fifo!Produce(p) /\ ~ Fifo!Commit(p)
  <2>1. ~ Fifo!DropEntryUnproduced(p)
    BY DEF Fifo!DropEntryUnproduced
  <2>2. Still
    BY <1>1, <1>4, <1>11, <2>1, FifoAssumptions, Fifo!PushStutters DEF Still
  <2>3. QED
    BY <1>1, <1>5, <1>6, <1>7, <2>2, RestKept
<1>12. QED
  BY <1>8, <1>9, <1>10, <1>11

(* A step of the consumer that updates a word or reads a slot is a step of *)
(* layer 1, or none.                                                       *)
LEMMA PopUpdates ==
    ASSUME NEW p, NEW c, Mapped(p, c), Holds(p, c)',
           \/ MaxReserved(c) \/ MaxConsumed(c) \/ ResetReserved(c) \/ MaxChead(c)
           \/ Consume(c) \/ Release(c)
    PROVE  /\ AtRest' /\ Marked(c)'
           /\ \/ Fifo!Tickets!Take(1, c) \/ Fifo!Tickets!Transform(1, c) \/ Fifo!Tickets!Give(1, c)
              \/ Still
<1>1. /\ Lone(p, c) /\ c \in Consumers /\ c \in Threads /\ AtRest
      /\ Fifo!NoCarry /\ Fifo!TypeOK /\ Fifo!SlotInv /\ Fifo!RingInv /\ Fifo!ValueInv
  BY Parts, SlotMaps, RingMaps, ValueMaps DEF Mapped, Lone
<1>2. Fifo!TypeOK'
  BY FifoTypes DEF Holds, TypeOK
<1>3. \/ Fifo!MaxReserved(c) \/ Fifo!MaxConsumed(c) \/ Fifo!ResetReserved(c) \/ Fifo!MaxChead(c)
      \/ Fifo!Consume(c) \/ Fifo!Release(c)
  BY PopSteps
<1>4. Fifo!Pop(c)
  BY <1>3 DEF Fifo!Pop
<1>5. Fifo!OthersKeep(c)
  BY <1>1, <1>4, FifoAssumptions, Fifo!PopChanges
<1>6. Rests(c) /\ Marked(c)'
  <2>1. head \in [Threads -> Heads] /\ DOMAIN pc = Threads
    BY <1>1, FifoNames DEF Fifo!TypeOK, Heads
  <2>2. QED
    BY <1>1, <1>3, <2>1
       DEF Fifo!MaxReserved, Fifo!MaxConsumed, Fifo!ResetReserved, Fifo!MaxChead, Fifo!Consume,
           Fifo!Release, Fifo!Return, Fifo!Leave, Fifo!Goto, Fifo!Zero, Fifo!FromParts, Zero, FromParts,
           Rests, Marked
<1>7. CASE Fifo!MaxReserved(c)
  BY <1>1, <1>2, <1>5, <1>6, <1>7, RestKept, FifoAssumptions, Fifo!ReserveMaps DEF Still
<1>8. CASE Fifo!Consume(c)
  BY <1>1, <1>5, <1>6, <1>8, RestKept, FifoAssumptions, Fifo!ConsumeMaps
<1>9. CASE Fifo!Release(c)
  BY <1>1, <1>5, <1>6, <1>9, RestKept, FifoAssumptions, Fifo!ReleaseMaps
<1>10. CASE ~ Fifo!MaxReserved(c) /\ ~ Fifo!Consume(c) /\ ~ Fifo!Release(c)
  <2>1. ~ Fifo!DropEntryUnconsumed(c)
    BY DEF Fifo!DropEntryUnconsumed
  <2>2. Still
    BY <1>1, <1>4, <1>10, <2>1, FifoAssumptions, Fifo!PopStutters DEF Still
  <2>3. QED
    BY <1>1, <1>5, <1>6, <2>2, RestKept
<1>11. QED
  BY <1>7, <1>8, <1>9, <1>10
-----------------------------------------------------------------------------
(* Where a thread has a slot.                                             *)
Users == {"produce", "commit", "consume", "release"}

(* A step that writes nothing, of a thread that has no slot before or      *)
(* after, is no step of the queue.                                         *)
LEMMA QuietStill ==
    ASSUME NEW p, NEW c, Holds(p, c), AtRest, NEW t \in Threads, Loads(t), entries' = entries,
           Fifo!OthersKeep(t), pc[t] \notin Users, pc'[t] \notin Users, Rests(t)
    PROVE  /\ Still /\ AtRest'
           /\ \A b \in Blocks : Committed(b)' = Committed(b)
<1>1. /\ Lone(p, c) /\ TypeOK /\ MemoryInv
      /\ \A u \in Threads \ {t} : pc'[u] = pc[u] /\ head'[u] = head[u] /\ seen'[u] = seen[u]
  BY Parts, FifoNames DEF Fifo!OthersKeep
<1>2. \A w \in Words : Last(w)' = Last(w)
  BY <1>1, SameLast DEF Loads
<1>3. /\ [b \in Blocks |-> Last(<<"allocated", b>>)]' = [b \in Blocks |-> Last(<<"allocated", b>>)]
      /\ [b \in Blocks |-> Last(<<"reserved", b>>)]' = [b \in Blocks |-> Last(<<"reserved", b>>)]
      /\ \A b \in Blocks : Committed(b)' = Committed(b)
  BY <1>1, <1>2, WordNames DEF Committed
<1>4. Fifo!Issued' = Fifo!Issued
  BY <1>3 DEF Fifo!Issued
<1>5. Fifo!Contents' = Fifo!Contents
  BY DEF Fifo!Contents, Fifo!SlotValue
<1>6. Fifo!Held' = Fifo!Held
  <2>1. \A u \in Threads : Fifo!HeldTicket(u)' = Fifo!HeldTicket(u)
    BY <1>1 DEF Fifo!HeldTicket, Fifo!Holding, Fifo!Block, Users
  <2>2. QED
    BY <2>1, FifoNames DEF Fifo!Held
<1>7. QED
  BY <1>1, <1>3, <1>4, <1>5, <1>6, RestKept DEF Still

(* So is a load of the producer,                                           *)
LEMMA PushLoads ==
    ASSUME NEW p, NEW c, Mapped(p, c),
           \/ StartPush(p) \/ LoadPhead(p) \/ LoadAllocated(p) \/ CheckConsumed(p) \/ CheckReserved(p)
    PROVE  Still /\ AtRest' /\ Marked(c)'
<1>1. /\ Holds(p, c) /\ Lone(p, c) /\ TypeOK /\ MemoryInv /\ p \in Threads /\ AtRest /\ Marked(c)
      /\ p \notin Consumers /\ c # p /\ c \in Threads /\ c \in Consumers
      /\ <<"phead", 0>> \in Words
      /\ <<"allocated", Block(p)>> \in Words /\ <<"consumed", NextBlock(p)>> \in Words
      /\ <<"reserved", NextBlock(p)>> \in Words /\ Block(c) \in Blocks
  BY Parts, Facts, WordNames DEF Mapped, Lone
<1>2. /\ DOMAIN pc = Threads /\ DOMAIN head = Threads /\ DOMAIN seen = Threads
      /\ mark \in [Consumers -> Pair]
  <2>1. Ring!TypeOK
    BY <1>1 DEF TypeOK
  <2>2. QED
    BY <2>1, RingNames DEF Ring!TypeOK
<1> DEFINE Quiet == /\ Loads(p) /\ entries' = entries /\ pc[p] \notin Users /\ pc'[p] \notin Users
                    /\ Rests(p) /\ \A u \in Threads \ {p} : /\ pc'[u] = pc[u] /\ head'[u] = head[u]
                                                            /\ seen'[u] = seen[u]
                                                            /\ u \in Consumers => mark'[u] = mark[u]
<1>3. ASSUME StartPush(p) PROVE Quiet
  <2>1. Loads(p)
    BY <1>1, <1>3, LocalLemma DEF StartPush, Local
  <2>2. QED
    BY <1>1, <1>2, <1>3, <2>1 DEF StartPush, Ring!StartPush, Ring!Goto, Rests, Users, AtRest
<1>4. ASSUME LoadPhead(p) PROVE Quiet
  <2>1. PICK k \in DOMAIN mem[<<"phead", 0>>] :
            /\ Load(p, "load_phead", <<"phead", 0>>, k, FALSE)
            /\ Loading(<<"phead", 0>>, k)!LoadPhead(p)
    BY <1>4 DEF LoadPhead
  <2>2. Loads(p)
    BY <1>1, <2>1, LoadEffect
  <2>3. QED
    BY <1>1, <1>2, <2>1, <2>2 DEF Loading!LoadPhead, Loading!Goto, Rests, Users
<1>5. ASSUME LoadAllocated(p) PROVE Quiet
  <2>1. PICK k \in DOMAIN mem[<<"allocated", Block(p)>>] :
            /\ Load(p, "load_allocated", <<"allocated", Block(p)>>, k, FALSE)
            /\ Loading(<<"allocated", Block(p)>>, k)!LoadAllocated(p)
    BY <1>5 DEF LoadAllocated
  <2>2. Loads(p)
    BY <1>1, <2>1, LoadEffect
  <2>3. QED
    BY <1>1, <1>2, <2>1, <2>2 DEF Loading!LoadAllocated, Loading!Goto, Rests, Users
<1>6. ASSUME CheckConsumed(p) PROVE Quiet
  <2>1. PICK k \in DOMAIN mem[<<"consumed", NextBlock(p)>>] :
            /\ Load(p, "check_consumed", <<"consumed", NextBlock(p)>>, k, TRUE)
            /\ Loading(<<"consumed", NextBlock(p)>>, k)!CheckConsumed(p)
    BY <1>6 DEF CheckConsumed
  <2>2. Loads(p)
    BY <1>1, <2>1, LoadEffect
  <2>3. QED
    BY <1>1, <1>2, <2>1, <2>2 DEF Loading!CheckConsumed, Loading!Goto, Rests, Users
<1>7. ASSUME CheckReserved(p) PROVE Quiet
  <2>1. PICK k \in DOMAIN mem[<<"reserved", NextBlock(p)>>] :
            /\ Load(p, "check_reserved", <<"reserved", NextBlock(p)>>, k, FALSE)
            /\ \/ Loading(<<"reserved", NextBlock(p)>>, k)!ReportFull(p)
               \/ Loading(<<"reserved", NextBlock(p)>>, k)!ReportBusyPush(p)
    BY <1>7 DEF CheckReserved
  <2>2. Loads(p) /\ pc[p] = "check_reserved"
    BY <1>1, <2>1, LoadEffect
  <2>3. Loading(<<"reserved", NextBlock(p)>>, k)!Return(p) /\ entries' = entries
    BY <2>1 DEF Loading!ReportFull, Loading!ReportBusyPush
  <2>4. QED
    BY <1>1, <1>2, <2>2, <2>3 DEF Loading!Return, Loading!Leave, Loading!Goto, Loading!Zero,
        Loading!FromParts, Zero, FromParts, Rests, Users
<1>8. Quiet
  BY <1>3, <1>4, <1>5, <1>6, <1>7
<1>9. Fifo!OthersKeep(p)
  BY <1>8, FifoNames DEF Fifo!OthersKeep
<1>10. Still /\ AtRest' /\ \A b \in Blocks : Committed(b)' = Committed(b)
  BY <1>1, <1>8, <1>9, QuietStill
<1>11. Marked(c)'
  <2>1. Idles(c) /\ mark'[c] = mark[c]
    BY <1>1, <1>8 DEF Idles
  <2>2. Block(c)' = Block(c)
    BY <2>1, IdlesLemma
  <2>3. QED
    BY <1>1, <1>10, <2>1, <2>2 DEF Marked, Idles
<1>12. QED
  BY <1>10, <1>11

(* The committed word that sends a pop on counts the slot it goes for.     *)
LEMMA LoadMarks ==
    ASSUME NEW p, NEW c, Mapped(p, c), NEW b \in Blocks, b = Block(c),
           NEW found \in Pair, AtMost(Known(c, <<"committed", b>>), found), AtMost(found, Committed(b)),
           pc[c] = "load_committed", found.i # seen[c].i
    PROVE  seen[c].i < found.i /\ found.i <= Committed(b).i
<1>1. PICK f \in Pair : f = seen[c]
  BY Parts, Facts DEF Mapped
<1>2. /\ Reserved(b) = f /\ f.i < BlockSize
      /\ ConsumerBlock(c, b) /\ (Consumed(b).i < BlockSize => Consumed(b).v = Committed(b).v)
      /\ Committed(b) \in Pair /\ Known(c, <<"committed", b>>) \in Pair
  <2>1. Holds(p, c) /\ ConsumerKnows(c) /\ c \in Threads
    BY Facts, Parts DEF Mapped
  <2>2. Known(c, <<"committed", b>>) \in Pair
    BY <2>1, Parts, WordNames, KnownLemma
  <2>3. QED
    BY <1>1, <2>1, <2>2, Facts, NextLemma DEF ConsumerKnows
<1>3. ~ At(c, {"consume", "release"}, b) /\ ~ Opens(c, "reset_reserved", b)
  BY DEF At, Opens
<1>4. Consumed(b) = f /\ Committed(b).v = f.v /\ AtMost(f, Known(c, <<"committed", b>>))
  BY <1>2, <1>3 DEF ConsumerBlock
<1>5. AtMost(f, found)
  BY <1>2, <1>4, AtMostIsOrder
<1>6. QED
  BY <1>1, <1>2, <1>4, <1>5 DEF AtMost, Pair

(* and a load of the consumer.                                             *)
LEMMA PopLoads ==
    ASSUME NEW p, NEW c, Mapped(p, c),
           \/ StartPop(c) \/ LoadChead(c) \/ LoadReserved(c) \/ LoadCommitted(c) \/ CheckAllocated(c)
           \/ CheckCommitted(c)
    PROVE  Still /\ AtRest' /\ Marked(c)'
<1>1. /\ Holds(p, c) /\ Lone(p, c) /\ TypeOK /\ MemoryInv /\ c \in Threads /\ AtRest /\ Marked(c)
      /\ c \in Consumers
      /\ <<"chead", 0>> \in Words
      /\ <<"allocated", Block(c)>> \in Words /\ <<"committed", Block(c)>> \in Words
      /\ <<"reserved", Block(c)>> \in Words /\ <<"committed", NextBlock(c)>> \in Words
      /\ Block(c) \in Blocks /\ NextBlock(c) \in Blocks
  BY Parts, Facts, WordNames DEF Mapped, Lone
<1>2. /\ DOMAIN pc = Threads /\ DOMAIN head = Threads /\ DOMAIN seen = Threads
      /\ mark \in [Consumers -> Pair]
  <2>1. Ring!TypeOK
    BY <1>1 DEF TypeOK
  <2>2. QED
    BY <2>1, RingNames DEF Ring!TypeOK
<1> DEFINE Counts == pc'[c] \in {"load_allocated", "max_reserved"} =>
                         /\ seen'[c].i < mark'[c].i /\ mark'[c].i <= Committed(Block(c)).i
                         /\ head'[c] = head[c]
           Quiet == /\ Loads(c) /\ entries' = entries /\ pc[c] \notin Users /\ pc'[c] \notin Users
                    /\ Rests(c) /\ Counts
                    /\ \A u \in Threads \ {c} : /\ pc'[u] = pc[u] /\ head'[u] = head[u]
                                                /\ seen'[u] = seen[u]
                                                /\ u \in Consumers => mark'[u] = mark[u]
<1>3. ASSUME StartPop(c) PROVE Quiet
  <2>1. Loads(c)
    BY <1>1, <1>3, LocalLemma DEF StartPop, Local
  <2>2. QED
    BY <1>1, <1>2, <1>3, <2>1 DEF StartPop, Ring!StartPop, Ring!Goto, Rests, Users, AtRest
<1>4. ASSUME LoadChead(c) PROVE Quiet
  <2>1. PICK k \in DOMAIN mem[<<"chead", 0>>] :
            /\ Load(c, "load_chead", <<"chead", 0>>, k, FALSE)
            /\ Loading(<<"chead", 0>>, k)!LoadChead(c)
    BY <1>4 DEF LoadChead
  <2>2. Loads(c)
    BY <1>1, <2>1, LoadEffect
  <2>3. QED
    BY <1>1, <1>2, <2>1, <2>2 DEF Loading!LoadChead, Loading!Goto, Rests, Users
<1>5. ASSUME LoadReserved(c) PROVE Quiet
  <2>1. PICK k \in DOMAIN mem[<<"reserved", Block(c)>>] :
            /\ Load(c, "load_reserved", <<"reserved", Block(c)>>, k, FALSE)
            /\ Loading(<<"reserved", Block(c)>>, k)!LoadReserved(c)
    BY <1>5 DEF LoadReserved
  <2>2. Loads(c)
    BY <1>1, <2>1, LoadEffect
  <2>3. QED
    BY <1>1, <1>2, <2>1, <2>2 DEF Loading!LoadReserved, Loading!Goto, Rests, Users
<1>6. ASSUME LoadCommitted(c) PROVE Quiet
  <2> DEFINE w == <<"committed", Block(c)>>
  <2>1. PICK k \in DOMAIN mem[w] :
            /\ Load(c, "load_committed", w, k, TRUE)
            /\ Loading(w, k)!ReportEmptyBlock(c) \/ Loading(w, k)!LoadCommitted(c)
    BY <1>6 DEF LoadCommitted
  <2> DEFINE found == mem[w][k].value
  <2>2. /\ Loads(c) /\ pc[c] = "load_committed" /\ found \in Pair
        /\ AtMost(Known(c, w), found) /\ AtMost(found, Committed(Block(c)))
    BY <1>1, <2>1, LoadEffect DEF Committed
  <2>3. CASE Loading(w, k)!ReportEmptyBlock(c)
    BY <1>1, <1>2, <2>2, <2>3
       DEF Loading!ReportEmptyBlock, Loading!Return, Loading!Leave, Loading!Goto, Loading!Zero,
           Loading!FromParts, Zero, FromParts, Rests, Users
  <2>4. CASE Loading(w, k)!LoadCommitted(c)
    <3>1. Found("committed", Block(c), w, k) = found /\ Loading(w, k)!Block(c) = Block(c)
      BY DEF Found, Loading!Block, Block, Ring!Block
    <3>2. /\ entries' = entries /\ found.i # seen[c].i
          /\ head' = head /\ seen' = seen
          /\ mark' = [mark EXCEPT ![c] = found]
          /\ \/ pc' = [pc EXCEPT ![c] = "max_reserved"]
             \/ pc' = [pc EXCEPT ![c] = "load_allocated"]
      BY <1>1, <2>4, <3>1 DEF Loading!LoadCommitted, Loading!Goto
    <3>3. seen[c].i < found.i /\ found.i <= Committed(Block(c)).i
      BY <1>1, <2>2, <3>2, LoadMarks
    <3>4. QED
      BY <1>1, <1>2, <2>2, <3>2, <3>3 DEF Rests, Users
  <2>5. QED
    BY <2>1, <2>3, <2>4
<1>7. ASSUME CheckAllocated(c) PROVE Quiet
  <2> DEFINE w == <<"allocated", Block(c)>>
  <2>1. PICK k \in DOMAIN mem[w] :
            /\ Load(c, "load_allocated", w, k, FALSE)
            /\ Loading(w, k)!ReportBusyPop(c) \/ Loading(w, k)!CheckAllocated(c)
    BY <1>7 DEF CheckAllocated
  <2>2. Loads(c) /\ pc[c] = "load_allocated"
    BY <1>1, <2>1, LoadEffect
  <2>3. CASE Loading(w, k)!ReportBusyPop(c)
    BY <1>1, <1>2, <2>2, <2>3
       DEF Loading!ReportBusyPop, Loading!Return, Loading!Leave, Loading!Goto, Loading!Zero,
           Loading!FromParts, Zero, FromParts, Rests, Users
  <2>4. CASE Loading(w, k)!CheckAllocated(c)
    BY <1>1, <1>2, <2>2, <2>4 DEF Loading!CheckAllocated, Loading!Goto, Rests, Users, Marked
  <2>5. QED
    BY <2>1, <2>3, <2>4
<1>8. ASSUME CheckCommitted(c) PROVE Quiet
  <2> DEFINE w == <<"committed", NextBlock(c)>>
  <2>1. PICK k \in DOMAIN mem[w] :
            /\ Load(c, "check_committed", w, k, TRUE)
            /\ Loading(w, k)!ReportEmptyRing(c) \/ Loading(w, k)!CheckCommitted(c)
    BY <1>8 DEF CheckCommitted
  <2>2. Loads(c) /\ pc[c] = "check_committed"
    BY <1>1, <2>1, LoadEffect
  <2>3. CASE Loading(w, k)!ReportEmptyRing(c)
    BY <1>1, <1>2, <2>2, <2>3
       DEF Loading!ReportEmptyRing, Loading!Return, Loading!Leave, Loading!Goto, Loading!Zero,
           Loading!FromParts, Zero, FromParts, Rests, Users
  <2>4. CASE Loading(w, k)!CheckCommitted(c)
    BY <1>1, <1>2, <2>2, <2>4 DEF Loading!CheckCommitted, Loading!Goto, Rests, Users
  <2>5. QED
    BY <2>1, <2>3, <2>4
<1>9. Quiet
  BY <1>3, <1>4, <1>5, <1>6, <1>7, <1>8
<1>10. Fifo!OthersKeep(c)
  BY <1>9, FifoNames DEF Fifo!OthersKeep
<1>11. Still /\ AtRest' /\ \A b \in Blocks : Committed(b)' = Committed(b)
  BY <1>1, <1>9, <1>10, QuietStill
<1>12. Marked(c)'
  <2>1. SUFFICES ASSUME pc'[c] \in {"load_allocated", "max_reserved"}
                 PROVE  seen'[c].i < mark'[c].i /\ mark'[c].i <= Committed(Block(c))'.i
    BY DEF Marked
  <2>2. Block(c)' = Block(c)
    BY <1>9, <2>1 DEF Block, Ring!Block
  <2>3. Committed(Block(c))' = Committed(Block(c))
    <3>1. PICK b \in Blocks : b = Block(c)
      BY <1>1
    <3>2. Committed(b)' = Committed(b) /\ Block(c)' = b
      BY <1>11, <2>2, <3>1
    <3>3. QED
      BY <3>1, <3>2 DEF Committed
  <2>4. QED
    BY <1>9, <2>1, <2>3
<1>13. QED
  BY <1>11, <1>12
-----------------------------------------------------------------------------
(* A step that changes nothing is none of the queue.                       *)
LEMMA StutterMaps ==
    ASSUME NEW p, NEW c, Mapped(p, c), UNCHANGED vars
    PROVE  Still /\ AtRest' /\ Marked(c)'
<1>1. UNCHANGED <<mem, view, entries, pc, head, seen, mark>>
  BY DEF vars
<1>2. \A w : Last(w)' = Last(w)
  BY <1>1 DEF Last
<1>3. Fifo!Issued' = Fifo!Issued
  BY <1>2 DEF Fifo!Issued
<1>4. Fifo!Held' = Fifo!Held /\ Fifo!Contents' = Fifo!Contents
  BY <1>1 DEF Fifo!Held, Fifo!Contents, Fifo!SlotValue, Fifo!HeldTicket, Fifo!Holding, Fifo!Block
<1>5. AtRest' /\ Marked(c)'
  BY <1>1, <1>2 DEF Mapped, AtRest, Marked, Committed, Block, Ring!Block
<1>6. QED
  BY <1>3, <1>4, <1>5 DEF Still

(* Every step of the ring is one of the queue, or none.                    *)
LEMMA StepMaps ==
    ASSUME NEW p, NEW c, Mapped(p, c), [Next]_vars
    PROVE  Mapped(p, c)' /\ [Fifo!Tickets!Next]_Fifo!Tickets!vars
<1>1. Holds(p, c) /\ Lone(p, c) /\ p \in Producers /\ c \in Consumers
  BY Parts DEF Mapped, Lone
<1>2. Holds(p, c)'
  BY <1>1, NextKeeps
<1>3. /\ AtRest' /\ Marked(c)'
      /\ \/ Fifo!Tickets!Take(0, p) \/ Fifo!Tickets!Transform(0, p) \/ Fifo!Tickets!Give(0, p)
         \/ Fifo!Tickets!Take(1, c) \/ Fifo!Tickets!Transform(1, c) \/ Fifo!Tickets!Give(1, c)
         \/ Still
  <2>1. CASE UNCHANGED vars
    BY <2>1, StutterMaps
  <2>2. CASE Push(p)
    BY <1>2, <2>2, PushLoads, PushUpdates DEF Push
  <2>3. CASE Pop(c)
    BY <1>2, <2>3, PopLoads, PopUpdates DEF Pop
  <2>4. QED
    BY <1>1, <2>1, <2>2, <2>3 DEF Next, Lone
<1>4. Still => UNCHANGED Fifo!Tickets!vars
  BY DEF Still, Fifo!Tickets!vars, Fifo!Issued, Fifo!Held, Fifo!Contents
<1>5. \/ Fifo!Tickets!Take(0, p) \/ Fifo!Tickets!Transform(0, p) \/ Fifo!Tickets!Give(0, p)
      \/ Fifo!Tickets!Take(1, c) \/ Fifo!Tickets!Transform(1, c) \/ Fifo!Tickets!Give(1, c)
      => Fifo!Tickets!Next
  BY <1>1 DEF Fifo!Tickets!Next, Fifo!Tickets!Layers
<1>6. QED
  BY <1>2, <1>3, <1>4, <1>5 DEF Mapped, Holds, Lone

(* The ring starts empty.                                                  *)
LEMMA InitMaps ==
    ASSUME NEW p, NEW c, Lone(p, c), Init
    PROVE  Mapped(p, c) /\ Fifo!Tickets!Init
<1>1. Holds(p, c)
  BY InitHolds
<1>2. AtRest /\ Marked(c)
  <2>1. c \in Threads
    BY <1>1, Parts DEF Lone, Threads
  <2>2. QED
    BY <2>1 DEF Init, AtRest, Marked
<1>3. Fifo!Init
  <2>1. \A w \in Words : Last(w) = IF w[2] = 0 THEN Zero ELSE FromParts(0, BlockSize)
    BY DEF Init, Last, Made
  <2>2. /\ Last(<<"phead", 0>>) = Zero /\ Last(<<"chead", 0>>) = Zero
        /\ \A name \in {"allocated", "committed", "reserved", "consumed"}, b \in Blocks :
               Last(<<name, b>>) = IF b = 0 THEN Zero ELSE FromParts(0, BlockSize)
    BY <2>1 DEF Words
  <2>3. Fifo!NewWords = [b \in Blocks |-> IF b = 0 THEN Zero ELSE FromParts(0, BlockSize)]
    BY FifoNames DEF Fifo!NewWords, Fifo!Zero, Zero
  <2>4. Fifo!Zero = Zero /\ Fifo!Absent = -1
    BY DEF Fifo!Zero, Zero, Fifo!FromParts, FromParts, Fifo!Absent
  <2>5. QED
    BY <2>2, <2>3, <2>4, FifoNames DEF Init, Fifo!Init
<1>4. Fifo!Tickets!Init
  BY <1>3, FifoAssumptions, Fifo!FifoInit
<1>5. QED
  BY <1>1, <1>2, <1>4 DEF Mapped

(* The queue of the lemmas is that of the runs.                            *)
LEMMA SameQueue ==
    /\ Fifo!Tickets!Init <=> Ring!Tickets!Init
    /\ Fifo!Tickets!Next <=> Ring!Tickets!Next
    /\ UNCHANGED Fifo!Tickets!vars <=> UNCHANGED Ring!Tickets!vars
<1>1. Fifo!Tickets!Next <=> Ring!Tickets!Next
  BY DEF Fifo!Tickets!Next, Ring!Tickets!Next, Fifo!Tickets!Take, Ring!Tickets!Take,
         Fifo!Tickets!Give, Ring!Tickets!Give, Fifo!Tickets!Transform, Ring!Tickets!Transform,
         Fifo!Tickets!Ready, Ring!Tickets!Ready, Fifo!Tickets!Finished, Ring!Tickets!Finished,
         Fifo!Tickets!Layers, Ring!Tickets!Layers, Fifo!Tickets!Nobody, Ring!Tickets!Nobody,
         Fifo!Tickets!Slot, Ring!Tickets!Slot, Fifo!Tickets!Input, Ring!Tickets!Input,
         Fifo!Tickets!Output, Ring!Tickets!Output, Fifo!NextTicket, Ring!NextTicket,
         Fifo!HeldTicket, Ring!HeldTicket, Fifo!SlotValue, Ring!SlotValue, Fifo!Holding, Ring!Holding,
         Fifo!Block, Ring!Block, Fifo!Threads, Ring!Threads, Fifo!Blocks, Ring!Blocks,
         Fifo!Capacity, Ring!Capacity, Fifo!Ticket, Ring!Ticket, Fifo!Round, Ring!Round,
         Fifo!BlockDone, Ring!BlockDone, Fifo!Absent, Ring!Absent, Fifo!Max, Ring!Max
<1>2. Fifo!Tickets!vars = Ring!Tickets!vars /\ Fifo!Tickets!vars' = Ring!Tickets!vars'
  BY DEF Fifo!Tickets!vars, Ring!Tickets!vars, Fifo!NextTicket, Ring!NextTicket,
         Fifo!HeldTicket, Ring!HeldTicket, Fifo!SlotValue, Ring!SlotValue, Fifo!Holding, Ring!Holding,
         Fifo!Block, Ring!Block, Fifo!Threads, Ring!Threads, Fifo!Blocks, Ring!Blocks,
         Fifo!Capacity, Ring!Capacity, Fifo!Ticket, Ring!Ticket, Fifo!Round, Ring!Round,
         Fifo!BlockDone, Ring!BlockDone, Fifo!Absent, Ring!Absent, Fifo!Max, Ring!Max
<1>3. Fifo!Tickets!Init <=> Ring!Tickets!Init
  BY DEF Fifo!Tickets!Init, Ring!Tickets!Init, Fifo!Tickets!Layers, Ring!Tickets!Layers,
         Fifo!Tickets!Nobody, Ring!Tickets!Nobody, Fifo!Tickets!AllWorkers, Ring!Tickets!AllWorkers,
         Fifo!NextTicket, Ring!NextTicket,
         Fifo!HeldTicket, Ring!HeldTicket, Fifo!SlotValue, Ring!SlotValue, Fifo!Holding, Ring!Holding,
         Fifo!Block, Ring!Block, Fifo!Threads, Ring!Threads, Fifo!Blocks, Ring!Blocks,
         Fifo!Capacity, Ring!Capacity, Fifo!Ticket, Ring!Ticket, Fifo!Round, Ring!Round,
         Fifo!BlockDone, Ring!BlockDone, Fifo!Absent, Ring!Absent, Fifo!Max, Ring!Max
<1>4. QED
  BY <1>1, <1>2, <1>3

(* mpmc/fifo_inner.rs, push and pop: with the orderings of the code, and   *)
(* one producer and one consumer, every push gets a slot of its own, in    *)
(* order, and every pop the next value in that order, once its push is     *)
(* finished and before its slot is used again.                             *)
THEOREM WeakRingIsFifo == OneEach => (Spec => ImplementsFifo)
<1> SUFFICES ASSUME OneEach PROVE Spec => ImplementsFifo
  OBVIOUS
<1>1. PICK p, c : Lone(p, c)
  BY DEF OneEach
<1>2. Init => Mapped(p, c) /\ Ring!Tickets!Init
  BY <1>1, InitMaps, SameQueue
<1>3. Mapped(p, c) /\ [Next]_vars => Mapped(p, c)' /\ [Ring!Tickets!Next]_Ring!Tickets!vars
  <2> SUFFICES ASSUME Mapped(p, c), [Next]_vars
               PROVE  Mapped(p, c)' /\ (Ring!Tickets!Next \/ UNCHANGED Ring!Tickets!vars)
    OBVIOUS
  <2>1. Mapped(p, c)' /\ (Fifo!Tickets!Next \/ UNCHANGED Fifo!Tickets!vars)
    BY StepMaps
  <2>2. QED
    BY <2>1, SameQueue
<1>4. QED
  BY <1>2, <1>3, PTL DEF Spec, ImplementsFifo, Ring!ImplementsFifo, Ring!Tickets!Spec
=============================================================================
