---------------------------- MODULE MpmcFifoProofs ----------------------------
(***************************************************************************)
(* The mpmc ring is a bounded FIFO, for every number of producers,         *)
(* consumers, blocks and slots that the index bits have room for.          *)
(***************************************************************************)
EXTENDS MpmcProofs, MpmcTickets

USE ThreadAssumption, RingAssumption, SpanAssumption
-----------------------------------------------------------------------------
(* The block a head leads to next, and the pair it is opened with.         *)
After(h) == (h.i + 1) % NumBlocks
Opens(h) == FromParts(h.v + 1, 0)

(* Where a head goes next, with the quotient and remainder worked out.     *)
LEMMA AfterLemma ==
    ASSUME NEW h \in Heads
    PROVE  /\ h.v \in Nat /\ h.i \in Nat /\ h.i < NumBlocks /\ h.i \in Blocks
           /\ After(h) \in Blocks /\ Opens(h) \in Pair
           /\ VersionIncAdd(NumBlocks, h) \in Heads
           /\ \/ /\ h.i + 1 < NumBlocks /\ After(h) = h.i + 1
                 /\ VersionIncAdd(NumBlocks, h) = FromParts(h.v, h.i + 1)
              \/ /\ h.i + 1 = NumBlocks /\ After(h) = 0
                 /\ VersionIncAdd(NumBlocks, h) = FromParts(h.v + 1, 0)
<1>1. h.v \in Nat /\ h.i \in 0 .. NumBlocks - 1
  BY DEF Heads, Blocks
<1>2. CASE h.i + 1 < NumBlocks
  <2>1. (h.i + 1) % NumBlocks = h.i + 1 /\ (h.i + 1) \div NumBlocks = 0
    BY <1>1, <1>2, WrapLemma
  <2>2. QED
    BY <1>1, <1>2, <2>1 DEF After, Opens, Heads, Blocks, VersionIncAdd, FromParts, Pair
<1>3. CASE h.i + 1 = NumBlocks
  <2>1. (h.i + 1) % NumBlocks = 0 /\ (h.i + 1) \div NumBlocks = 1
    BY <1>1, <1>3, WrapLemma
  <2>2. QED
    BY <1>1, <1>3, <2>1 DEF After, Opens, Heads, Blocks, VersionIncAdd, FromParts, Pair
<1>4. QED
  BY <1>1, <1>2, <1>3

(* What a thread knows of words that only move on stays true.              *)
LEMMA OrderForward ==
    ASSUME NEW word \in [Blocks -> Pair], NEW after \in [Blocks -> Pair],
           \A b \in Blocks : AtMost(word[b], after[b]), NEW h \in Heads
    PROVE  /\ Reached(word, h) => Reached(after, h)
           /\ Passed(word, h) => Passed(after, h)
           /\ AtMost(Opens(h), word[After(h)]) => AtMost(Opens(h), after[After(h)])
<1>1. /\ h.v \in Nat /\ h.i \in Blocks /\ After(h) \in Blocks /\ Opens(h) \in Pair
  BY AfterLemma
<1>2. FromParts(VersionIn(h.i, h.v), 0) \in Pair /\ FromParts(VersionIn(h.i, h.v), BlockSize) \in Pair
  BY <1>1 DEF VersionIn, FromParts, Pair
<1>3. /\ word[h.i] \in Pair /\ after[h.i] \in Pair /\ AtMost(word[h.i], after[h.i])
      /\ word[After(h)] \in Pair /\ after[After(h)] \in Pair /\ AtMost(word[After(h)], after[After(h)])
  BY <1>1
<1>4. \A f, g, k \in Pair : AtMost(f, g) /\ AtMost(g, k) => AtMost(f, k)
  BY AtMostIsOrder
<1>5. QED
  BY <1>1, <1>2, <1>3, <1>4 DEF Reached, Passed

(* Counting on in a block that stays in its version keeps the order.       *)
LEMMA CountingKeepsOrder ==
    ASSUME NEW word \in [Blocks -> Pair], NEW after \in [Blocks -> Pair], InOrder(word),
           \A b \in Blocks : /\ after[b].v = word[b].v
                             /\ BlockDone(word[b]) => BlockDone(after[b])
    PROVE  InOrder(after)
<1>1. 0 \in Blocks
  BY DEF Blocks
<1>2. QED
  BY <1>1 DEF InOrder, Follows, FromParts

(* A ring that is in order is in order as far as one head.                 *)
LEMMA OrderHead ==
    ASSUME NEW word \in [Blocks -> Pair], InOrder(word)
    PROVE  \E h \in Heads : Follows(word, h)
<1>1. 0 \in Blocks
  BY DEF Blocks
<1>2. PICK i \in Blocks : Follows(word, FromParts(word[0].v, i))
  BY DEF InOrder
<1>3. FromParts(word[0].v, i) \in Heads
  BY <1>1 DEF FromParts, Heads, Pair
<1>4. QED
  BY <1>2, <1>3

(* A ring in order as far as a head is in order.                           *)
LEMMA HeadOrder ==
    ASSUME NEW word \in [Blocks -> Pair], NEW h \in Heads, Follows(word, h)
    PROVE  InOrder(word)
<1>1. 0 \in Blocks /\ h.i \in Blocks /\ 0 <= h.i /\ h.v \in Nat
  BY DEF Blocks, Heads
<1>2. word[0].v = h.v
  BY <1>1 DEF Follows, VersionIn
<1>3. Follows(word, FromParts(word[0].v, h.i))
  BY <1>2 DEF Follows, FromParts
<1>4. QED
  BY <1>1, <1>3 DEF InOrder

(* Opening the next block has an effect only at the end of the ring so far,*)
(* and moves that end on.                                                  *)
LEMMA OpeningKeepsOrder ==
    ASSUME NEW word \in [Blocks -> Pair], InOrder(word), NEW h \in Heads, Passed(word, h),
           NEW after, after = Raise(word, After(h), Opens(h)), after # word
    PROVE  /\ Follows(word, h) /\ BlockDone(word[h.i])
           /\ after = [word EXCEPT ![After(h)] = Opens(h)]
           /\ Follows(after, VersionIncAdd(NumBlocks, h)) /\ InOrder(after)
<1>1. PICK e \in Heads : Follows(word, e)
  BY OrderHead
<1>2. /\ h.v \in Nat /\ h.i \in Nat /\ h.i < NumBlocks /\ h.i \in Blocks
      /\ e.v \in Nat /\ e.i \in Nat /\ e.i < NumBlocks /\ e.i \in Blocks
      /\ After(h) \in Blocks /\ Opens(h) \in Pair /\ \A b \in Blocks : b \in Nat /\ b < NumBlocks
      /\ \/ /\ h.i + 1 < NumBlocks /\ After(h) = h.i + 1
            /\ VersionIncAdd(NumBlocks, h) = FromParts(h.v, h.i + 1)
         \/ /\ h.i + 1 = NumBlocks /\ After(h) = 0
            /\ VersionIncAdd(NumBlocks, h) = FromParts(h.v + 1, 0)
  BY AfterLemma DEF Blocks
<1>3. ~ AtMost(Opens(h), word[After(h)]) /\ after = [word EXCEPT ![After(h)] = Opens(h)]
  BY <1>2, RaiseCases
<1>4. word[After(h)].v <= h.v
  BY <1>2, <1>3 DEF AtMost, Opens, FromParts, Pair
<1>5. \/ VersionIn(h.i, h.v) < word[h.i].v
      \/ VersionIn(h.i, h.v) = word[h.i].v /\ BlockDone(word[h.i])
  BY <1>2 DEF Passed, AtMost, FromParts, BlockDone, Pair
<1>6. /\ word[h.i].v = VersionIn(h.i, IF h.i <= e.i THEN e.v ELSE e.v - 1)
      /\ word[After(h)].v = VersionIn(After(h), IF After(h) <= e.i THEN e.v ELSE e.v - 1)
  BY <1>1, <1>2 DEF Follows
<1>7. e.v = h.v /\ e.i = h.i
  BY <1>2, <1>4, <1>5, <1>6 DEF VersionIn
<1>8. Follows(word, h) /\ BlockDone(word[h.i])
  <2>1. e = h
    BY <1>7 DEF Heads
  <2>2. word[h.i].v = VersionIn(h.i, h.v)
    BY <1>2, <1>6, <1>7
  <2>3. VersionIn(h.i, h.v) \in Nat
    BY <1>2 DEF VersionIn
  <2>4. QED
    BY <1>1, <1>5, <2>1, <2>2, <2>3
<1>9. after \in [Blocks -> Pair]
  BY <1>2, <1>3
<1>10. Follows(after, VersionIncAdd(NumBlocks, h))
  <2>1. SUFFICES ASSUME NEW b \in Blocks
                 PROVE  LET g == VersionIncAdd(NumBlocks, h) IN
                        /\ after[b].v = VersionIn(b, IF b <= g.i THEN g.v ELSE g.v - 1)
                        /\ b # g.i => BlockDone(after[b])
    BY DEF Follows
  <2>2. /\ word[b].v = VersionIn(b, IF b <= h.i THEN h.v ELSE h.v - 1)
        /\ b # h.i => BlockDone(word[b])
    BY <1>8 DEF Follows
  <2>3. b = After(h) => after[b] = Opens(h)
    BY <1>2, <1>3
  <2>4. b # After(h) => after[b] = word[b]
    BY <1>3
  <2>5. QED
    BY <1>2, <1>8, <2>2, <2>3, <2>4 DEF VersionIn, Opens, FromParts
<1>11. InOrder(after)
  BY <1>2, <1>9, <1>10, HeadOrder, AfterLemma
<1>12. QED
  BY <1>3, <1>8, <1>10, <1>11
-----------------------------------------------------------------------------
(* What a step of one side leaves alone.                                   *)
LEMMA PushChanges ==
    ASSUME TypeOK, NEW p \in Producers, Push(p)
    PROVE  OthersKeep(p) /\ UNCHANGED <<chead, reserved, consumed>>
  BY DEF Push, StartPush, LoadPhead, LoadAllocated, AddAllocated, CheckConsumed, ReportFull,
     ReportBusyPush, MaxCommitted, MaxAllocated, MaxPhead, Produce, Commit, DropEntryUnproduced,
     Return, Leave, Goto, OthersKeep, TypeOK, words, cursors

(* The same for the side of the consumers.                                 *)
LEMMA PopChanges ==
    ASSUME TypeOK, NEW c \in Consumers, Pop(c)
    PROVE  OthersKeep(c) /\ UNCHANGED <<phead, allocated, committed>>
  BY DEF Pop, StartPop, LoadChead, LoadReserved, ReportEmptyBlock, LoadCommitted, ReportBusyPop,
     CheckAllocated, MaxReserved, ReportEmptyRing, CheckCommitted, MaxConsumed, ResetReserved,
     MaxChead, Consume, Release, DropEntryUnconsumed,
     Return, Leave, Goto, OthersKeep, TypeOK, words, cursors

(* A thread that does not step keeps what it knows of words that move on.  *)
LEMMA OthersKeepOrder ==
    ASSUME TypeOK, NEW u \in Threads, NEW adv, NEW last,
           NEW word \in [Blocks -> Pair], NEW after \in [Blocks -> Pair],
           \A b \in Blocks : AtMost(word[b], after[b]),
           KeepsOrder(word, u, adv, last)
    PROVE  /\ Reached(after, head[u])
           /\ pc[u] \in adv => Passed(after, head[u])
           /\ pc[u] = last => AtMost(Opening(u), after[NextBlock(u)])
<1>1. head[u] \in Heads
  BY DEF TypeOK, Heads
<1>2. Opening(u) = Opens(head[u]) /\ NextBlock(u) = After(head[u])
  BY DEF Opening, Opens, NextBlock, After
<1>3. QED
  BY <1>1, <1>2, OrderForward DEF KeepsOrder

(* A step leaves the other producers what they know of allocated.          *)
LEMMA OtherProducers ==
    ASSUME TypeOK, TypeOK', RingInv, NEW t \in Threads, OthersKeep(t),
           \A b \in Blocks : AtMost(allocated[b], allocated'[b])
    PROVE  \A q \in Producers \ {t} : KeepsOrder(allocated, q, PastAllocated, "max_phead")'
<1> TAKE q \in Producers \ {t}
<1>1. /\ q \in Threads /\ head'[q] = head[q] /\ pc'[q] = pc[q]
      /\ allocated \in [Blocks -> Pair] /\ allocated' \in [Blocks -> Pair]
      /\ KeepsOrder(allocated, q, PastAllocated, "max_phead")
  BY DEF Threads, OthersKeep, TypeOK, RingInv
<1>2. /\ Reached(allocated', head[q])
      /\ pc[q] \in PastAllocated => Passed(allocated', head[q])
      /\ pc[q] = "max_phead" => AtMost(Opening(q), allocated'[NextBlock(q)])
  BY <1>1, OthersKeepOrder
<1>3. QED
  BY <1>1, <1>2 DEF KeepsOrder, Opening, NextBlock, Reached, Passed, PastAllocated

(* A step leaves the other consumers what they know of reserved.           *)
LEMMA OtherConsumers ==
    ASSUME TypeOK, TypeOK', RingInv, NEW t \in Threads, OthersKeep(t),
           \A b \in Blocks : AtMost(reserved[b], reserved'[b])
    PROVE  \A d \in Consumers \ {t} : KeepsOrder(reserved, d, PastReserved, "max_chead")'
<1> TAKE d \in Consumers \ {t}
<1>1. /\ d \in Threads /\ head'[d] = head[d] /\ pc'[d] = pc[d]
      /\ reserved \in [Blocks -> Pair] /\ reserved' \in [Blocks -> Pair]
      /\ KeepsOrder(reserved, d, PastReserved, "max_chead")
  BY DEF Threads, OthersKeep, TypeOK, RingInv
<1>2. /\ Reached(reserved', head[d])
      /\ pc[d] \in PastReserved => Passed(reserved', head[d])
      /\ pc[d] = "max_chead" => AtMost(Opening(d), reserved'[NextBlock(d)])
  BY <1>1, OthersKeepOrder
<1>3. QED
  BY <1>1, <1>2 DEF KeepsOrder, Opening, NextBlock, Reached, Passed, PastReserved

(* A step that moves neither the words nor the head of its side, and that  *)
(* at most forgets what the thread knew.                                   *)
Forgets(t, adv, last) ==
    /\ pc'[t] # last
    /\ pc'[t] \in adv => pc[t] \in adv
    /\ head'[t] = head[t] \/ (head'[t] = Zero /\ pc'[t] \notin adv)

(* What a thread still knows after such a step is true.                    *)
LEMMA ForgetKeepsOrder ==
    ASSUME NEW t, NEW adv, NEW last, Forgets(t, adv, last),
           NEW word \in [Blocks -> Pair], KeepsOrder(word, t, adv, last)
    PROVE  Reached(word, head'[t]) /\ (pc'[t] \in adv => Passed(word, head'[t])) /\ pc'[t] # last
<1>1. Reached(word, Zero)
  <2>1. word[0] \in Pair
    BY DEF Blocks
  <2>2. QED
    BY <2>1 DEF Reached, Zero, FromParts, AtMost, VersionIn, Pair
<1>2. QED
  BY <1>1 DEF Forgets, KeepsOrder

(* The head that follows one whose next block was opened is in order.      *)
LEMMA ReachedNext ==
    ASSUME NEW word \in [Blocks -> Pair], NEW h \in Heads, AtMost(Opens(h), word[After(h)])
    PROVE  Reached(word, VersionIncAdd(NumBlocks, h))
<1>1. FromParts(VersionIn(After(h), VersionIncAdd(NumBlocks, h).v), 0) = Opens(h)
      /\ VersionIncAdd(NumBlocks, h).i = After(h)
  BY AfterLemma DEF VersionIn, Opens, FromParts
<1>2. QED
  BY <1>1 DEF Reached

(* fetch_max leaves at least what it offers.                               *)
LEMMA RaisedTo ==
    ASSUME NEW word \in [Blocks -> Pair], NEW b \in Blocks, NEW f \in Pair
    PROVE  AtMost(f, Raise(word, b, f)[b])
  BY MaxPairLemma DEF Raise

(* One of two reached heads is reached.                                    *)
LEMMA MaxReached ==
    ASSUME NEW word, NEW f, NEW g, Reached(word, f), Reached(word, g)
    PROVE  Reached(word, MaxPair(f, g))
  BY DEF MaxPair

(* What a thread keeps of the versions of its slot.                        *)
LEMMA VersionsKept ==
    ASSUME RingInv, NEW t \in Threads, OthersKeep(t),
           Holding(t)' /\ Block(t)' # 0 => seen'[t].v > 0
    PROVE  StartedFull'
  BY DEF OthersKeep, Holding, Block, RingInv, StartedFull, Threads

(* A producer's own part of the order, step by step.                       *)
LEMMA ProducerKeepsOrder ==
    ASSUME NoCarry, TypeOK, TypeOK', SlotInv, RingInv, NEW p \in Producers, Push(p),
           \A b \in Blocks : AtMost(allocated[b], allocated'[b])
    PROVE  /\ InOrder(allocated)' /\ Reached(allocated, phead)'
           /\ KeepsOrder(allocated, p, PastAllocated, "max_phead")'
<1> DEFINE h == head[p]
<1>1. /\ p \in Threads /\ pc[p] \in ProducerSteps /\ h \in Heads
      /\ allocated \in [Blocks -> Pair] /\ allocated' \in [Blocks -> Pair]
      /\ phead \in Heads /\ phead' \in Heads /\ pc \in [Threads -> ProducerSteps \cup ConsumerSteps]
      /\ head \in [Threads -> Heads]
  BY DEF TypeOK, Heads, Threads
<1>2. /\ InOrder(allocated) /\ Reached(allocated, phead)
      /\ KeepsOrder(allocated, p, PastAllocated, "max_phead")
  BY DEF RingInv
<1>3. Opening(p) = Opens(h) /\ NextBlock(p) = After(h) /\ Block(p) = h.i
  BY DEF Opening, Opens, NextBlock, After, Block
<1>4. Reached(allocated', phead)
  BY <1>1, <1>2, OrderForward
<1>5. /\ Reached(allocated', h) /\ (Passed(allocated, h) => Passed(allocated', h))
  BY <1>1, <1>2, OrderForward DEF KeepsOrder
<1>6. ASSUME allocated' = allocated, phead' = phead, Forgets(p, PastAllocated, "max_phead")
      PROVE  /\ InOrder(allocated)' /\ Reached(allocated, phead)'
             /\ KeepsOrder(allocated, p, PastAllocated, "max_phead")'
  <2>1. /\ Reached(allocated, head'[p]) /\ pc'[p] # "max_phead"
        /\ pc'[p] \in PastAllocated => Passed(allocated, head'[p])
    BY <1>1, <1>2, <1>6, ForgetKeepsOrder
  <2>2. InOrder(allocated)'
    BY <1>2, <1>6 DEF InOrder, Follows
  <2>3. QED
    BY <1>2, <1>6, <2>1, <2>2 DEF KeepsOrder, Reached, Passed, PastAllocated
<1>7. CASE \/ StartPush(p) \/ CheckConsumed(p) \/ ReportFull(p) \/ ReportBusyPush(p)
           \/ MaxCommitted(p) \/ Produce(p) \/ Commit(p) \/ DropEntryUnproduced(p)
  <2>1. allocated' = allocated /\ phead' = phead /\ Forgets(p, PastAllocated, "max_phead")
    BY <1>1, <1>7 DEF StartPush, CheckConsumed, ReportFull, ReportBusyPush, MaxCommitted, Produce,
       Commit, DropEntryUnproduced, Return, Leave, Goto, Forgets, PastAllocated, words, cursors
  <2>2. QED
    BY <1>6, <2>1
<1>8. CASE LoadPhead(p)
  <2>1. /\ allocated' = allocated /\ phead' = phead /\ head'[p] = phead /\ pc'[p] = "load_allocated"
    BY <1>1, <1>8 DEF LoadPhead, Goto, words, cursors
  <2>2. QED
    BY <1>2, <2>1 DEF KeepsOrder, InOrder, Follows, Reached, Passed, PastAllocated
<1>9. CASE LoadAllocated(p)
  <2>1. /\ allocated' = allocated /\ phead' = phead /\ head'[p] = h
        /\ pc'[p] = IF BlockDone(allocated[h.i]) THEN "check_consumed" ELSE "add_allocated"
    BY <1>1, <1>3, <1>9 DEF LoadAllocated, Goto, words, cursors
  <2>2. BlockDone(allocated[h.i]) => Passed(allocated, h)
    <3>1. allocated[h.i] \in Pair
      BY <1>1 DEF Heads
    <3>2. QED
      BY <1>2, <3>1 DEF KeepsOrder, Reached, Passed, BlockDone, AtMost, FromParts, Pair
  <2>3. QED
    BY <1>2, <2>1, <2>2 DEF KeepsOrder, InOrder, Follows, Reached, Passed, PastAllocated
<1>10. CASE AddAllocated(p)
  <2>1. /\ phead' = phead /\ head'[p] = h /\ pc[p] = "add_allocated"
        /\ pc'[p] = IF BlockDone(allocated[h.i]) THEN "check_consumed" ELSE "produce"
        /\ allocated' = Count(allocated, h.i) /\ OthersKeep(p)
    BY <1>1, <1>3, <1>10, PushChanges DEF AddAllocated, Goto, cursors
  <2>2. h.i \in Blocks /\ allocated[h.i] \in Pair
    BY <1>1 DEF Heads
  <2>3. allocated'[h.i] = FromParts(allocated[h.i].v, allocated[h.i].i + 1)
    BY <1>3, <2>1, <2>2, AddWithin
  <2>4. \A b \in Blocks : b # h.i => allocated'[b] = allocated[b]
    BY <2>1 DEF Count
  <2>5. InOrder(allocated')
    <3>1. \A b \in Blocks : /\ allocated'[b].v = allocated[b].v
                            /\ BlockDone(allocated[b]) => BlockDone(allocated'[b])
      BY <2>2, <2>3, <2>4 DEF BlockDone, FromParts, Pair
    <3>2. QED
      BY <1>1, <1>2, <3>1, CountingKeepsOrder
  <2>6. BlockDone(allocated[h.i]) => Passed(allocated', h)
    <3>1. BlockDone(allocated[h.i]) => Passed(allocated, h)
      BY <1>2, <2>2 DEF KeepsOrder, Reached, Passed, BlockDone, AtMost, FromParts, Pair
    <3>2. QED
      BY <1>5, <3>1
  <2>7. QED
    BY <1>4, <1>5, <2>1, <2>5, <2>6 DEF KeepsOrder, InOrder, Follows, Reached, Passed, PastAllocated
<1>11. CASE MaxAllocated(p)
  <2>1. /\ phead' = phead /\ head'[p] = h /\ pc[p] = "max_allocated" /\ pc'[p] = "max_phead"
        /\ allocated' = Raise(allocated, After(h), Opens(h))
        /\ Opening(p)' = Opens(h) /\ NextBlock(p)' = After(h)
    BY <1>1, <1>3, <1>11 DEF MaxAllocated, Goto, cursors, Opening, Opens, NextBlock, After
  <2>2. Passed(allocated, h) /\ Passed(allocated', h)
    BY <1>2, <1>5, <2>1 DEF KeepsOrder, PastAllocated
  <2>3. InOrder(allocated')
    BY <1>1, <1>2, <2>1, <2>2, OpeningKeepsOrder
  <2>4. AtMost(Opens(h), allocated'[After(h)])
    BY <1>1, <2>1, AfterLemma, RaisedTo
  <2>5. QED
    BY <1>4, <1>5, <2>1, <2>2, <2>3, <2>4 DEF KeepsOrder, InOrder, Follows, Reached, Passed
<1>12. CASE MaxPhead(p)
  <2>1. /\ allocated' = allocated /\ pc[p] = "max_phead" /\ pc'[p] = "load_phead" /\ head'[p] = Zero
        /\ phead' = MaxPair(phead, VersionIncAdd(NumBlocks, h))
    BY <1>1, <1>12 DEF MaxPhead, Leave, Goto, words
  <2>2. AtMost(Opens(h), allocated[After(h)])
    BY <1>2, <1>3, <2>1 DEF KeepsOrder
  <2>3. Reached(allocated, VersionIncAdd(NumBlocks, h))
    BY <1>1, <2>2, ReachedNext
  <2>4. Reached(allocated, phead')
    BY <1>2, <2>1, <2>3, MaxReached
  <2>5. Reached(allocated, Zero)
    <3>1. allocated[0] \in Pair
      BY <1>1 DEF Blocks
    <3>2. QED
      BY <3>1 DEF Reached, Zero, FromParts, AtMost, VersionIn, Pair
  <2>6. QED
    BY <1>2, <2>1, <2>4, <2>5 DEF KeepsOrder, InOrder, Follows, Reached, Passed, PastAllocated
<1>13. QED
  BY <1>7, <1>8, <1>9, <1>10, <1>11, <1>12 DEF Push

(* A consumer that reserves moves the word by one if nobody has moved it   *)
(* since its load, and otherwise not at all.                               *)
LEMMA MaxReservedCases ==
    ASSUME TypeOK, SlotInv, NEW c \in Consumers, MaxReserved(c)
    PROVE  /\ Block(c) \in Blocks /\ seen[c] \in Pair /\ seen[c].i < BlockSize
           /\ \/ /\ reserved[Block(c)] = seen[c] /\ pc'[c] = "consume"
                 /\ reserved' = [reserved EXCEPT ![Block(c)] = FromParts(seen[c].v, seen[c].i + 1)]
              \/ reserved' = reserved /\ pc'[c] = "load_reserved"
<1> DEFINE b == Block(c)
           f == FromParts(seen[c].v, seen[c].i + 1)
<1>1. /\ c \in Threads /\ b \in Blocks /\ seen[c] \in Pair /\ reserved \in [Blocks -> Pair]
      /\ pc \in [Threads -> ProducerSteps \cup ConsumerSteps]
  BY NextBlockLemma DEF TypeOK, Threads
<1>2. /\ pc[c] = "max_reserved" /\ reserved' = Raise(reserved, b, Incr(IndexSpan, seen[c]))
      /\ pc'[c] = IF reserved[b] = seen[c] THEN "consume" ELSE "load_reserved"
  BY <1>1 DEF MaxReserved, Goto
<1>3. seen[c].i < BlockSize /\ AtMost(seen[c], reserved[b])
  BY <1>2 DEF SlotInv, ReserverKnows
<1>4. Incr(IndexSpan, seen[c]) = f /\ f \in Pair
  BY <1>1, <1>3 DEF Incr, FromParts, Pair
<1>5. CASE reserved[b] = seen[c]
  <2>1. ~ AtMost(f, reserved[b])
    BY <1>1, <1>5 DEF AtMost, FromParts, Pair
  <2>2. reserved' = [reserved EXCEPT ![b] = f]
    <3> HIDE DEF b, f
    <3>1. reserved' = Raise(reserved, b, f)
      BY <1>2, <1>4
    <3>2. QED
      BY <1>1, <1>4, <2>1, <3>1, RaiseCases
  <2>3. QED
    BY <1>1, <1>2, <1>3, <1>5, <2>2
<1>6. CASE reserved[b] # seen[c]
  <2>1. reserved[b] \in Pair /\ AtMost(f, reserved[b])
    BY <1>1, <1>3, <1>6 DEF AtMost, FromParts, Pair
  <2>2. reserved' = reserved
    BY <1>1, <1>2, <1>4, <2>1, RaiseCases
  <2>3. QED
    BY <1>1, <1>2, <1>3, <1>6, <2>2
<1>7. QED
  BY <1>5, <1>6

(* A consumer's own part of the order, step by step.                       *)
LEMMA ConsumerKeepsOrder ==
    ASSUME TypeOK, TypeOK', SlotInv, RingInv, NEW c \in Consumers, Pop(c),
           \A b \in Blocks : AtMost(reserved[b], reserved'[b])
    PROVE  /\ InOrder(reserved)' /\ Reached(reserved, chead)'
           /\ KeepsOrder(reserved, c, PastReserved, "max_chead")'
<1> DEFINE h == head[c]
<1>1. /\ c \in Threads /\ pc[c] \in ConsumerSteps /\ h \in Heads
      /\ reserved \in [Blocks -> Pair] /\ reserved' \in [Blocks -> Pair]
      /\ chead \in Heads /\ chead' \in Heads /\ pc \in [Threads -> ProducerSteps \cup ConsumerSteps]
      /\ head \in [Threads -> Heads]
  BY DEF TypeOK, Heads, Threads
<1>2. /\ InOrder(reserved) /\ Reached(reserved, chead)
      /\ KeepsOrder(reserved, c, PastReserved, "max_chead")
  BY DEF RingInv
<1>3. Opening(c) = Opens(h) /\ NextBlock(c) = After(h) /\ Block(c) = h.i
  BY DEF Opening, Opens, NextBlock, After, Block
<1>4. Reached(reserved', chead)
  BY <1>1, <1>2, OrderForward
<1>5. /\ Reached(reserved', h) /\ (Passed(reserved, h) => Passed(reserved', h))
  BY <1>1, <1>2, OrderForward DEF KeepsOrder
<1>6. ASSUME reserved' = reserved, chead' = chead, Forgets(c, PastReserved, "max_chead")
      PROVE  /\ InOrder(reserved)' /\ Reached(reserved, chead)'
             /\ KeepsOrder(reserved, c, PastReserved, "max_chead")'
  <2>1. /\ Reached(reserved, head'[c]) /\ pc'[c] # "max_chead"
        /\ pc'[c] \in PastReserved => Passed(reserved, head'[c])
    BY <1>1, <1>2, <1>6, ForgetKeepsOrder
  <2>2. InOrder(reserved)'
    BY <1>2, <1>6 DEF InOrder, Follows
  <2>3. QED
    BY <1>2, <1>6, <2>1, <2>2 DEF KeepsOrder, Reached, Passed, PastReserved
<1>7. CASE \/ StartPop(c) \/ ReportEmptyBlock(c) \/ LoadCommitted(c) \/ ReportBusyPop(c)
           \/ CheckAllocated(c) \/ ReportEmptyRing(c) \/ CheckCommitted(c) \/ MaxConsumed(c)
           \/ Consume(c) \/ DropEntryUnconsumed(c) \/ Release(c)
  <2>1. reserved' = reserved /\ chead' = chead /\ Forgets(c, PastReserved, "max_chead")
    BY <1>1, <1>7 DEF StartPop, ReportEmptyBlock, LoadCommitted, ReportBusyPop, CheckAllocated,
       ReportEmptyRing, CheckCommitted, MaxConsumed, Consume, DropEntryUnconsumed, Release,
       Return, Leave, Goto, Forgets, PastReserved, words, cursors
  <2>2. QED
    BY <1>6, <2>1
<1>8. CASE LoadChead(c)
  <2>1. /\ reserved' = reserved /\ chead' = chead /\ head'[c] = chead /\ pc'[c] = "load_reserved"
    BY <1>1, <1>8 DEF LoadChead, Goto, words, cursors
  <2>2. QED
    BY <1>2, <2>1 DEF KeepsOrder, InOrder, Follows, Reached, Passed, PastReserved
<1>9. CASE LoadReserved(c)
  <2>1. /\ reserved' = reserved /\ chead' = chead /\ head'[c] = h
        /\ pc'[c] = IF BlockDone(reserved[h.i]) THEN "check_committed" ELSE "load_committed"
    BY <1>1, <1>3, <1>9 DEF LoadReserved, Goto, words, cursors
  <2>2. BlockDone(reserved[h.i]) => Passed(reserved, h)
    <3>1. reserved[h.i] \in Pair
      BY <1>1 DEF Heads
    <3>2. QED
      BY <1>2, <3>1 DEF KeepsOrder, Reached, Passed, BlockDone, AtMost, FromParts, Pair
  <2>3. QED
    BY <1>2, <2>1, <2>2 DEF KeepsOrder, InOrder, Follows, Reached, Passed, PastReserved
<1>10. CASE MaxReserved(c)
  <2>1. chead' = chead /\ head'[c] = h /\ pc'[c] \notin PastReserved
    BY <1>1, <1>10 DEF MaxReserved, Goto, cursors, PastReserved
  <2>2. InOrder(reserved')
    <3>1. \A b \in Blocks : /\ reserved'[b].v = reserved[b].v
                            /\ BlockDone(reserved[b]) => BlockDone(reserved'[b])
      <4>1. CASE reserved' = reserved
        BY <4>1
      <4>2. CASE /\ Block(c) \in Blocks /\ seen[c] \in Pair
                 /\ reserved[Block(c)] = seen[c]
                 /\ reserved' = [reserved EXCEPT ![Block(c)] = FromParts(seen[c].v, seen[c].i + 1)]
        BY <1>1, <4>2 DEF BlockDone, FromParts, Pair
      <4>3. QED
        BY <1>10, <4>1, <4>2, MaxReservedCases
    <3>2. QED
      BY <1>1, <1>2, <3>1, CountingKeepsOrder
  <2>3. QED
    BY <1>4, <1>5, <2>1, <2>2 DEF KeepsOrder, InOrder, Follows, Reached, Passed, PastReserved
<1>11. CASE ResetReserved(c)
  <2>1. /\ chead' = chead /\ head'[c] = h /\ pc[c] = "reset_reserved" /\ pc'[c] = "max_chead"
        /\ reserved' = Raise(reserved, After(h), Opens(h))
        /\ Opening(c)' = Opens(h) /\ NextBlock(c)' = After(h)
    BY <1>1, <1>3, <1>11 DEF ResetReserved, Goto, cursors, Opening, Opens, NextBlock, After
  <2>2. Passed(reserved, h) /\ Passed(reserved', h)
    BY <1>2, <1>5, <2>1 DEF KeepsOrder, PastReserved
  <2>3. InOrder(reserved')
    BY <1>1, <1>2, <2>1, <2>2, OpeningKeepsOrder
  <2>4. AtMost(Opens(h), reserved'[After(h)])
    BY <1>1, <2>1, AfterLemma, RaisedTo
  <2>5. QED
    BY <1>4, <1>5, <2>1, <2>2, <2>3, <2>4 DEF KeepsOrder, InOrder, Follows, Reached, Passed
<1>12. CASE MaxChead(c)
  <2>1. /\ reserved' = reserved /\ pc[c] = "max_chead" /\ pc'[c] = "load_chead" /\ head'[c] = Zero
        /\ chead' = MaxPair(chead, VersionIncAdd(NumBlocks, h))
    BY <1>1, <1>12 DEF MaxChead, Leave, Goto, words
  <2>2. AtMost(Opens(h), reserved[After(h)])
    BY <1>2, <1>3, <2>1 DEF KeepsOrder
  <2>3. Reached(reserved, VersionIncAdd(NumBlocks, h))
    BY <1>1, <2>2, ReachedNext
  <2>4. Reached(reserved, chead')
    BY <1>2, <2>1, <2>3, MaxReached
  <2>5. Reached(reserved, Zero)
    <3>1. reserved[0] \in Pair
      BY <1>1 DEF Blocks
    <3>2. QED
      BY <3>1 DEF Reached, Zero, FromParts, AtMost, VersionIn, Pair
  <2>6. QED
    BY <1>2, <2>1, <2>4, <2>5 DEF KeepsOrder, InOrder, Follows, Reached, Passed, PastReserved
<1>13. QED
  BY <1>7, <1>8, <1>9, <1>10, <1>11, <1>12 DEF Pop

(* A block that still has slots to hand out has been opened by the ring.   *)
LEMMA OpenedSince ==
    ASSUME NEW word \in [Blocks -> Pair], InOrder(word), NEW b \in Blocks, ~ BlockDone(word[b])
    PROVE  b # 0 => word[b].v > 0
<1>1. PICK h \in Heads : Follows(word, h)
  BY OrderHead
<1>2. b = h.i /\ h.v \in Nat
  BY <1>1 DEF Follows, Heads
<1>3. QED
  BY <1>1, <1>2 DEF Follows, VersionIn, Blocks

(* The order of the ring is inductive.                                     *)
LEMMA RingPush ==
    ASSUME NoCarry, TypeOK, SlotInv, RingInv, NEW p \in Producers, Push(p)
    PROVE  RingInv'
<1>1. TypeOK' /\ Forward /\ OthersKeep(p) /\ UNCHANGED <<chead, reserved, consumed>> /\ p \in Threads
  BY TypePush, ForwardPush, PushChanges DEF Threads
<1>2. \A b \in Blocks : /\ AtMost(allocated[b], allocated'[b])
                        /\ AtMost(reserved[b], reserved'[b]) /\ AtMost(consumed[b], consumed'[b])
  BY <1>1 DEF Forward
<1>3. /\ InOrder(allocated)' /\ Reached(allocated, phead)'
      /\ \A q \in Producers : KeepsOrder(allocated, q, PastAllocated, "max_phead")'
  BY <1>1, <1>2, ProducerKeepsOrder, OtherProducers
<1>4. \A c \in Consumers : KeepsOrder(reserved, c, PastReserved, "max_chead")'
  <2>1. p \notin Consumers
    OBVIOUS
  <2>2. QED
    BY <1>1, <1>2, <2>1, OtherConsumers
<1>5. InOrder(reserved)' /\ Reached(reserved, chead)'
  BY <1>1 DEF RingInv, InOrder, Follows, Reached
<1>6. Holding(p)' /\ Block(p)' # 0 => seen'[p].v > 0
  <2>1. pc \in [Threads -> ProducerSteps \cup ConsumerSteps] /\ seen \in [Threads -> Pair] /\ head \in [Threads -> Heads]
        /\ allocated \in [Blocks -> Pair] /\ InOrder(allocated) /\ pc[p] \in ProducerSteps
        /\ (Holding(p) /\ Block(p) # 0 => seen[p].v > 0) /\ Block(p) \in Blocks
    BY <1>1, NextBlockLemma DEF TypeOK, Heads, RingInv, StartedFull
  <2>2. CASE AddAllocated(p)
    <3>1. Block(p)' = Block(p)
      BY <2>2 DEF AddAllocated, Block
    <3>2. CASE BlockDone(allocated[Block(p)])
      BY <1>1, <2>1, <2>2, <3>2 DEF AddAllocated, Goto, Holding
    <3>3. CASE ~ BlockDone(allocated[Block(p)])
      <4>1. seen'[p] = allocated[Block(p)]
        BY <1>1, <2>1, <2>2, <3>3 DEF AddAllocated
      <4>2. QED
        BY <2>1, <3>1, <3>3, <4>1, OpenedSince
    <3>4. QED
      BY <3>2, <3>3
  <2>3. CASE ~ AddAllocated(p)
    <3>1. \/ ~ Holding(p)'
          \/ Holding(p) /\ Block(p)' = Block(p) /\ seen'[p] = seen[p]
      BY <1>1, <2>1, <2>3 DEF Push, StartPush, LoadPhead, LoadAllocated, CheckConsumed, ReportFull,
         ReportBusyPush, MaxCommitted, MaxAllocated, MaxPhead, Produce, Commit, DropEntryUnproduced,
         Return, Leave, Goto, Holding, Block
    <3>2. QED
      BY <2>1, <3>1
  <2>4. QED
    BY <2>2, <2>3
<1>7. StartedFull'
  BY <1>1, <1>6, VersionsKept
<1>8. QED
  BY <1>3, <1>4, <1>5, <1>7 DEF RingInv

(* The consumers keep it too.                                              *)
LEMMA RingPop ==
    ASSUME TypeOK, SlotInv, RingInv, NEW c \in Consumers, Pop(c)
    PROVE  RingInv'
<1>1. TypeOK' /\ Forward /\ OthersKeep(c) /\ UNCHANGED <<phead, allocated, committed>> /\ c \in Threads
  BY TypePop, ForwardPop, PopChanges DEF Threads
<1>2. \A b \in Blocks : /\ AtMost(allocated[b], allocated'[b])
                        /\ AtMost(reserved[b], reserved'[b]) /\ AtMost(consumed[b], consumed'[b])
  BY <1>1 DEF Forward
<1>3. /\ InOrder(reserved)' /\ Reached(reserved, chead)'
      /\ \A d \in Consumers : KeepsOrder(reserved, d, PastReserved, "max_chead")'
  BY <1>1, <1>2, ConsumerKeepsOrder, OtherConsumers
<1>4. \A p \in Producers : KeepsOrder(allocated, p, PastAllocated, "max_phead")'
  <2>1. c \notin Producers
    OBVIOUS
  <2>2. QED
    BY <1>1, <1>2, <2>1, OtherProducers
<1>5. InOrder(allocated)' /\ Reached(allocated, phead)'
  BY <1>1 DEF RingInv, InOrder, Follows, Reached
<1>6. Holding(c)' /\ Block(c)' # 0 => seen'[c].v > 0
  <2>1. pc \in [Threads -> ProducerSteps \cup ConsumerSteps] /\ seen \in [Threads -> Pair] /\ head \in [Threads -> Heads]
        /\ reserved \in [Blocks -> Pair] /\ InOrder(reserved) /\ pc[c] \in ConsumerSteps
        /\ (Holding(c) /\ Block(c) # 0 => seen[c].v > 0) /\ Block(c) \in Blocks
    BY <1>1, NextBlockLemma DEF TypeOK, Heads, RingInv, StartedFull
  <2>2. CASE MaxReserved(c)
    <3>1. Block(c)' = Block(c) /\ seen'[c] = seen[c]
      BY <2>2 DEF MaxReserved, Block
    <3>2. CASE reserved[Block(c)] = seen[c] /\ seen[c].i < BlockSize
      <4>1. ~ BlockDone(reserved[Block(c)])
        BY <2>1, <3>2 DEF BlockDone, Pair
      <4>2. QED
        BY <2>1, <3>1, <3>2, <4>1, OpenedSince
    <3>3. CASE pc'[c] = "load_reserved"
      BY <3>3 DEF Holding
    <3>4. QED
      BY <2>2, <3>2, <3>3, MaxReservedCases
  <2>3. CASE ~ MaxReserved(c)
    <3>1. \/ ~ Holding(c)'
          \/ Holding(c) /\ Block(c)' = Block(c) /\ seen'[c] = seen[c]
      BY <1>1, <2>1, <2>3 DEF Pop, StartPop, LoadChead, LoadReserved, ReportEmptyBlock, LoadCommitted,
         ReportBusyPop, CheckAllocated, ReportEmptyRing, CheckCommitted, MaxConsumed, ResetReserved,
         MaxChead, Consume, DropEntryUnconsumed, Release, Return, Leave, Goto, Holding, Block
    <3>2. QED
      BY <2>1, <3>1
  <2>4. QED
    BY <2>2, <2>3
<1>7. StartedFull'
  BY <1>1, <1>6, VersionsKept
<1>8. QED
  BY <1>3, <1>4, <1>5, <1>7 DEF RingInv

(* A new ring is in order.                                                 *)
LEMMA RingInit == Init => RingInv
<1> SUFFICES ASSUME Init PROVE RingInv
  OBVIOUS
<1>1. \A word \in {allocated, reserved} : InOrder(word) /\ Reached(word, Zero)
  <2>1. 0 \in Blocks /\ \A b \in Blocks : b \in Nat
    BY DEF Blocks
  <2>2. Follows(NewWords, FromParts(NewWords[0].v, 0)) /\ Reached(NewWords, Zero)
    BY <2>1 DEF Follows, NewWords, Zero, FromParts, VersionIn, BlockDone, Reached, AtMost
  <2>3. QED
    BY <2>1, <2>2 DEF Init, InOrder
<1>2. /\ phead = Zero /\ chead = Zero
      /\ \A t \in Threads : pc[t] = "idle" /\ head[t] = Zero
  BY DEF Init
<1>3. StartedFull
  BY DEF Init, StartedFull, Holding
<1>4. QED
  BY <1>1, <1>2, <1>3 DEF RingInv, KeepsOrder, PastAllocated, PastReserved, Threads

(* Producers and consumers go through the blocks of the ring in order, in  *)
(* every reachable state.                                                  *)
THEOREM RingInvariant == NoCarry => (Spec => []RingInv)
<1> SUFFICES ASSUME NoCarry PROVE Spec => []RingInv
  OBVIOUS
<1>1. TypeOK /\ SlotInv /\ RingInv /\ [Next]_vars => RingInv'
  <2> SUFFICES ASSUME TypeOK, SlotInv, RingInv, [Next]_vars PROVE RingInv'
    OBVIOUS
  <2>1. CASE UNCHANGED vars
    BY <2>1 DEF RingInv, InOrder, Follows, Reached, Passed, KeepsOrder, Opening, NextBlock,
       StartedFull, Holding, Block, vars, words, cursors, locals
  <2>2. QED
    BY <2>1, RingPush, RingPop DEF Next
<1>2. QED
  BY RingInit, <1>1, SlotInvariant, TypeCorrect, PTL DEF Spec
-----------------------------------------------------------------------------
(* A ticket puts together the round, the block and the slot.               *)
LEMMA TicketLemma ==
    ASSUME NEW b \in Blocks, NEW v \in Int, NEW i \in Int
    PROVE  /\ Round(b, v) \in Int /\ Round(b, v) * NumBlocks + b \in Int
           /\ (Round(b, v) * NumBlocks + b) * BlockSize \in Int
           /\ Ticket(b, v, i) \in Int /\ Ticket(b, v, i + 1) = Ticket(b, v, i) + 1
<1>1. Round(b, v) \in Int /\ b \in Nat
  BY DEF Round, Blocks
<1>2. Round(b, v) * NumBlocks + b \in Int
  BY <1>1
<1>3. (Round(b, v) * NumBlocks + b) * BlockSize \in Int
  BY <1>2
<1>4. QED
  BY <1>1, <1>2, <1>3 DEF Ticket

(* The versions a block is opened with are its rounds, one after the       *)
(* other.                                                                  *)
LEMMA RoundLemma ==
    ASSUME NEW b \in Blocks, NEW v \in Int
    PROVE  /\ Round(b, v) \in Int /\ VersionIn(b, v) \in Int
           /\ Round(b, VersionIn(b, v)) = v /\ VersionIn(b, Round(b, v)) = v
           /\ \A w \in Int : v < w <=> Round(b, v) < Round(b, w)
           /\ \A w \in Int : v < VersionIn(b, w) <=> Round(b, v) < w
           /\ \A w \in Int : v = VersionIn(b, w) <=> Round(b, v) = w
  BY DEF Round, VersionIn

(* Tickets are ordered by round, block and slot.                           *)
LEMMA TicketOrder ==
    ASSUME NEW b \in Blocks, NEW v \in Int, NEW s \in Slots,
           NEW c \in Blocks, NEW w \in Int, NEW i \in 0 .. BlockSize
    PROVE  Ticket(b, v, s) < Ticket(c, w, i) <=>
               \/ Round(b, v) < Round(c, w)
               \/ Round(b, v) = Round(c, w) /\ (b < c \/ (b = c /\ s < i))
<1> DEFINE m == Round(b, v) * NumBlocks + b
           n == Round(c, w) * NumBlocks + c
<1>1. /\ Round(b, v) \in Int /\ Round(c, w) \in Int /\ m \in Int /\ n \in Int
      /\ b \in 0 .. NumBlocks - 1 /\ c \in 0 .. NumBlocks - 1
      /\ s \in 0 .. BlockSize - 1 /\ i \in 0 .. BlockSize
  <2>1. /\ Round(b, v) \in Int /\ Round(c, w) \in Int /\ m \in Int /\ n \in Int
    BY TicketLemma
  <2>2. QED
    BY <2>1 DEF Blocks, Slots
<1>2. m < n <=> Round(b, v) < Round(c, w) \/ (Round(b, v) = Round(c, w) /\ b < c)
  BY <1>1, Lexicographic
<1>3. n < m <=> Round(c, w) < Round(b, v) \/ (Round(c, w) = Round(b, v) /\ c < b)
  BY <1>1, Lexicographic
<1>4. Ticket(b, v, s) < Ticket(c, w, i) <=> m < n \/ (m = n /\ s < i)
  <2>1. Ticket(b, v, s) = m * BlockSize + s /\ Ticket(c, w, i) = n * BlockSize + i
    BY DEF Ticket
  <2> HIDE DEF m, n
  <2>2. QED
    BY <1>1, <2>1, Lexicographic
<1> HIDE DEF m, n
<1>5. QED
  BY <1>1, <1>2, <1>3, <1>4

(* No two slots, blocks or versions share a ticket.                        *)
LEMMA TicketsDiffer ==
    ASSUME NEW b \in Blocks, NEW v \in Int, NEW s \in Slots,
           NEW c \in Blocks, NEW w \in Int, NEW r \in Slots,
           Ticket(b, v, s) = Ticket(c, w, r)
    PROVE  b = c /\ v = w /\ s = r
<1>1. /\ b \in Nat /\ c \in Nat /\ s \in Nat /\ r \in Nat /\ r \in 0 .. BlockSize /\ s \in 0 .. BlockSize
      /\ Round(b, v) \in Int /\ Round(c, w) \in Int /\ Ticket(b, v, s) \in Int
  <2>1. /\ b \in Nat /\ c \in Nat /\ s \in Nat /\ r \in Nat /\ r \in 0 .. BlockSize /\ s \in 0 .. BlockSize
        /\ s \in Int
    BY DEF Blocks, Slots
  <2>2. Round(b, v) \in Int /\ Ticket(b, v, s) \in Int
    BY <2>1, TicketLemma
  <2>3. Round(c, w) \in Int
    BY <2>1, TicketLemma
  <2>4. QED
    BY <2>1, <2>2, <2>3
<1>2. ~ (Ticket(b, v, s) < Ticket(c, w, r)) /\ ~ (Ticket(c, w, r) < Ticket(b, v, s))
  BY <1>1
<1>3. Ticket(b, v, s) < Ticket(c, w, r) <=>
          \/ Round(b, v) < Round(c, w)
          \/ Round(b, v) = Round(c, w) /\ (b < c \/ (b = c /\ s < r))
  BY <1>1, TicketOrder
<1>4. Ticket(c, w, r) < Ticket(b, v, s) <=>
          \/ Round(c, w) < Round(b, v)
          \/ Round(c, w) = Round(b, v) /\ (c < b \/ (c = b /\ r < s))
  BY <1>1, TicketOrder
<1>5. Round(b, v) = Round(c, w) /\ b = c /\ s = r
  BY <1>1, <1>2, <1>3, <1>4
<1>6. VersionIn(b, Round(b, v)) = v /\ VersionIn(c, Round(c, w)) = w
  BY RoundLemma
<1>7. QED
  BY <1>5, <1>6

(* The slot of a ticket in the ring.                                       *)
LEMMA TicketSlot ==
    ASSUME NEW b \in Blocks, NEW v \in Nat, b # 0 => v > 0, NEW s \in Slots
    PROVE  /\ b * BlockSize + s \in 0 .. Capacity - 1
           /\ Ticket(b, v, s) \in Nat
           /\ Ticket(b, v, s) = Round(b, v) * Capacity + (b * BlockSize + s)
           /\ Ticket(b, v, s) % Capacity = b * BlockSize + s
           /\ (b * BlockSize + s) \div BlockSize = b /\ (b * BlockSize + s) % BlockSize = s
<1>1. /\ b \in Nat /\ b <= NumBlocks - 1 /\ s \in Nat /\ s <= BlockSize - 1
      /\ s \in 0 .. BlockSize - 1
  BY DEF Blocks, Slots
<1>2. b * BlockSize \in Nat /\ b * BlockSize <= (NumBlocks - 1) * BlockSize
  BY <1>1
<1>3. Capacity \in Nat \ {0} /\ (NumBlocks - 1) * BlockSize = Capacity - BlockSize
  BY DEF Capacity
<1>4. b * BlockSize + s \in 0 .. Capacity - 1
  BY <1>1, <1>2, <1>3
<1>5. Ticket(b, v, s) = Round(b, v) * Capacity + (b * BlockSize + s) /\ Round(b, v) \in Nat
  <2>1. Round(b, v) \in Nat
    BY DEF Round
  <2>2. (Round(b, v) * NumBlocks + b) * BlockSize = Round(b, v) * (NumBlocks * BlockSize) + b * BlockSize
    BY <1>1, <2>1
  <2>3. QED
    BY <1>1, <1>2, <2>1, <2>2 DEF Ticket, Capacity
<1>6. Ticket(b, v, s) % Capacity = b * BlockSize + s
  BY <1>3, <1>4, <1>5, Remainders
<1>7. (b * BlockSize + s) \div BlockSize = b /\ (b * BlockSize + s) % BlockSize = s
  BY <1>1, Remainders
<1>8. Ticket(b, v, s) \in Nat
  BY <1>3, <1>4, <1>5
<1>9. QED
  BY <1>4, <1>5, <1>6, <1>7, <1>8

(* The slots a word has counted in the present version of a block.         *)
Place(word, b) == IF BlockDone(word[b]) THEN BlockSize ELSE word[b].i

(* What comes after a full block is no more than anything further on.      *)
LEMMA FullBelow ==
    ASSUME NEW q \in Int, NEW p \in Int, q < p, NEW i \in Nat
    PROVE  q * BlockSize + BlockSize <= p * BlockSize + i
<1>1. q + 1 <= p
  OBVIOUS
<1>2. (q + 1) * BlockSize <= p * BlockSize
  BY <1>1
<1>3. (q + 1) * BlockSize = q * BlockSize + BlockSize
  OBVIOUS
<1>4. q * BlockSize \in Int /\ p * BlockSize \in Int
  OBVIOUS
<1>5. QED
  BY <1>2, <1>3, <1>4

(* The next ticket of a side of the ring is the next one of the block it   *)
(* has come to.                                                            *)
LEMMA NextIsReached ==
    ASSUME NEW word \in [Blocks -> Pair], NEW h \in Heads, Follows(word, h)
    PROVE  /\ Place(word, h.i) \in 0 .. BlockSize
           /\ NextTicket(word) = Ticket(h.i, VersionIn(h.i, h.v), Place(word, h.i))
           /\ NextTicket(word) = (h.v * NumBlocks + h.i) * BlockSize + Place(word, h.i)
           /\ h.v * NumBlocks + h.i \in Nat /\ NextTicket(word) \in Nat
<1> DEFINE T(b) == Ticket(b, word[b].v, Place(word, b))
           S == {T(b) : b \in Blocks}
           q(v, b) == v * NumBlocks + b
           n == q(h.v, h.i) * BlockSize + Place(word, h.i)
<1>1. /\ h.i \in Blocks /\ h.v \in Nat /\ h.i \in Nat /\ h.i < NumBlocks
      /\ \A b \in Blocks : b \in Nat /\ b < NumBlocks
  BY DEF Heads, Blocks
<1>2. \A b \in Blocks : Place(word, b) \in 0 .. BlockSize
  BY DEF Place, BlockDone, Pair
<1>3. \A b \in Blocks, v \in Int :
          word[b].v = VersionIn(b, v) => T(b) = q(v, b) * BlockSize + Place(word, b) /\ q(v, b) \in Int
  <2> TAKE b \in Blocks, v \in Int
  <2>1. Round(b, VersionIn(b, v)) = v /\ q(v, b) \in Int
    BY <1>1, RoundLemma
  <2>2. QED
    BY <2>1 DEF Ticket
<1>4. T(h.i) = n /\ q(h.v, h.i) \in Nat /\ n \in Nat
  <2>1. word[h.i].v = VersionIn(h.i, h.v)
    BY <1>1 DEF Follows
  <2>2. T(h.i) = n
    BY <1>1, <1>3, <2>1
  <2>3. q(h.v, h.i) \in Nat
    BY <1>1
  <2>4. Place(word, h.i) \in Nat
    BY <1>1, <1>2
  <2>5. n \in Nat
    <3> HIDE DEF q
    <3> QED BY <2>3, <2>4
  <2>6. QED
    BY <2>2, <2>3, <2>5
<1>5. \A b \in Blocks : T(b) \in Int /\ T(b) <= n
  <2>1. SUFFICES ASSUME NEW b \in Blocks, b # h.i PROVE T(b) \in Int /\ T(b) <= n
    BY <1>4
  <2>2. PICK v \in Int : v = IF b <= h.i THEN h.v ELSE h.v - 1
    BY <1>1
  <2>3. T(b) = q(v, b) * BlockSize + BlockSize /\ q(v, b) \in Int
    <3>1. word[b].v = VersionIn(b, v) /\ Place(word, b) = BlockSize
      BY <2>1, <2>2 DEF Follows, Place
    <3>2. QED
      BY <1>3, <3>1
  <2>4. q(v, b) < q(h.v, h.i)
    <3>1. h.v * NumBlocks \in Nat /\ (h.v - 1) * NumBlocks = h.v * NumBlocks - NumBlocks
      BY <1>1
    <3>2. CASE v = h.v /\ b < h.i
      BY <1>1, <3>1, <3>2
    <3>3. CASE v = h.v - 1
      BY <1>1, <3>1, <3>3
    <3>4. QED
      BY <1>1, <2>1, <2>2, <3>2, <3>3
  <2>5. Place(word, h.i) \in Nat
    BY <1>1, <1>2
  <2> HIDE DEF q, T
  <2>6. QED
    BY <1>4, <2>3, <2>4, <2>5, FullBelow
<1>6. NextTicket(word) = n
  <2>1. n \in S /\ \A x \in S : x \in Int /\ x <= n
    <3> HIDE DEF n, T
    <3> QED BY <1>1, <1>4, <1>5
  <2>2. Max(S) = n
    <3> HIDE DEF S, n
    <3>1. Max(S) \in S /\ \A y \in S : Max(S) >= y
      BY <1>4, <2>1 DEF Max
    <3>2. Max(S) \in Int /\ Max(S) <= n /\ Max(S) >= n
      BY <2>1, <3>1
    <3>3. QED
      BY <1>4, <3>2
  <2>3. QED
    BY <2>2 DEF NextTicket, Place
<1>7. T(h.i) = Ticket(h.i, VersionIn(h.i, h.v), Place(word, h.i))
  BY <1>1 DEF Follows
<1>8. QED
  BY <1>1, <1>2, <1>4, <1>6, <1>7

(* A ticket has been handed out when its block's word has counted it.      *)
LEMMA TakenLemma ==
    ASSUME NEW word \in [Blocks -> Pair], InOrder(word),
           NEW b \in Blocks, NEW v \in Int, NEW s \in Slots
    PROVE  Ticket(b, v, s) < NextTicket(word) <=> AtMost(FromParts(v, s + 1), word[b])
<1>1. PICK h \in Heads : Follows(word, h)
  BY OrderHead
<1>2. /\ h.i \in Blocks /\ h.v \in Nat /\ s \in Nat /\ s + 1 <= BlockSize
      /\ word[b] \in Pair /\ word[b].v \in Nat /\ word[b].i \in Nat
      /\ b \in Nat /\ h.i \in Nat
  BY DEF Heads, Slots, Blocks, Pair
<1>3. VersionIn(h.i, h.v) \in Int /\ Round(h.i, VersionIn(h.i, h.v)) = h.v /\ Round(b, v) \in Int
  <2>1. Round(b, v) \in Int
    BY RoundLemma
  <2>2. VersionIn(h.i, h.v) \in Int /\ Round(h.i, VersionIn(h.i, h.v)) = h.v
    <3>1. h.v \in Int
      BY <1>2
    <3>2. QED
      BY <1>2, <3>1, RoundLemma
  <2>3. QED
    BY <2>1, <2>2
<1>4. Ticket(b, v, s) < NextTicket(word) <=>
          \/ Round(b, v) < h.v
          \/ Round(b, v) = h.v /\ (b < h.i \/ (b = h.i /\ s < Place(word, h.i)))
  <2>1. /\ Place(word, h.i) \in 0 .. BlockSize
        /\ NextTicket(word) = Ticket(h.i, VersionIn(h.i, h.v), Place(word, h.i))
    BY <1>1, NextIsReached
  <2>2. \A w \in Int, i \in 0 .. BlockSize :
            Ticket(b, v, s) < Ticket(h.i, w, i) <=>
                \/ Round(b, v) < Round(h.i, w)
                \/ Round(b, v) = Round(h.i, w) /\ (b < h.i \/ (b = h.i /\ s < i))
    BY <1>2, TicketOrder
  <2>3. QED
    BY <1>3, <2>1, <2>2
<1>5. \A w \in Int : /\ v < VersionIn(b, w) <=> Round(b, v) < w
                     /\ v = VersionIn(b, w) <=> Round(b, v) = w
  BY RoundLemma
<1>6. AtMost(FromParts(v, s + 1), word[b]) <=>
          v < word[b].v \/ (v = word[b].v /\ s + 1 <= word[b].i)
  BY DEF AtMost, FromParts
<1>7. /\ word[b].v = VersionIn(b, IF b <= h.i THEN h.v ELSE h.v - 1)
      /\ b # h.i => word[b].i >= BlockSize
  BY <1>1 DEF Follows, BlockDone
<1>8. CASE b = h.i
  <2>1. s < Place(word, h.i) <=> s + 1 <= word[b].i
    BY <1>2, <1>8 DEF Place, BlockDone
  <2>2. QED
    BY <1>2, <1>3, <1>4, <1>5, <1>6, <1>7, <1>8, <2>1
<1>9. CASE b < h.i
  BY <1>2, <1>3, <1>4, <1>5, <1>6, <1>7, <1>9
<1>10. CASE b > h.i
  <2>1. h.v - 1 \in Int
    BY <1>2
  <2>2. QED
    BY <1>2, <1>3, <1>4, <1>5, <1>6, <1>7, <1>10, <2>1
<1>11. QED
  BY <1>2, <1>8, <1>9, <1>10
-----------------------------------------------------------------------------
(* Counting a slot hands out the next ticket, unless the block is full.    *)
LEMMA CountingNext ==
    ASSUME NEW word \in [Blocks -> Pair], InOrder(word), NEW b \in Blocks, NEW after,
           after = [word EXCEPT ![b] = FromParts(word[b].v, word[b].i + 1)]
    PROVE  /\ BlockDone(word[b]) => NextTicket(after) = NextTicket(word)
           /\ ~ BlockDone(word[b]) => /\ NextTicket(word) = Ticket(b, word[b].v, word[b].i)
                                      /\ NextTicket(after) = NextTicket(word) + 1
<1>1. PICK h \in Heads : Follows(word, h)
  BY OrderHead
<1>2. /\ word[b] \in Pair /\ word[b].i \in Nat /\ word[b].v \in Nat /\ h.i \in Blocks
      /\ after \in [Blocks -> Pair] /\ after[b] = FromParts(word[b].v, word[b].i + 1)
      /\ \A x \in Blocks : x # b => after[x] = word[x]
  BY DEF Pair, FromParts, Heads
<1>3. /\ after[b].v = word[b].v /\ after[b].i = word[b].i + 1
      /\ BlockDone(word[b]) => BlockDone(after[b])
  BY <1>2 DEF FromParts, BlockDone
<1>4. Follows(after, h)
  BY <1>1, <1>2, <1>3 DEF Follows
<1>5. /\ NextTicket(word) = (h.v * NumBlocks + h.i) * BlockSize + Place(word, h.i)
      /\ NextTicket(word) = Ticket(h.i, VersionIn(h.i, h.v), Place(word, h.i))
      /\ h.v * NumBlocks + h.i \in Nat
  BY <1>1, NextIsReached
<1>6. NextTicket(after) = (h.v * NumBlocks + h.i) * BlockSize + Place(after, h.i)
  BY <1>2, <1>4, NextIsReached
<1>7. CASE BlockDone(word[b])
  <2>1. Place(after, h.i) = Place(word, h.i)
    BY <1>2, <1>3, <1>7 DEF Place
  <2>2. QED
    BY <1>5, <1>6, <1>7, <2>1
<1>8. CASE ~ BlockDone(word[b])
  <2>1. b = h.i /\ word[b].v = VersionIn(h.i, h.v)
    <3>1. b = h.i /\ h.i \in Nat
      BY <1>1, <1>2, <1>8 DEF Follows, Blocks
    <3>2. QED
      BY <1>1, <1>2, <3>1 DEF Follows
  <2>2. Place(word, h.i) = word[b].i /\ Place(after, h.i) = word[b].i + 1
    BY <1>2, <1>3, <1>8, <2>1 DEF Place, BlockDone
  <2> DEFINE n == (h.v * NumBlocks + h.i) * BlockSize
  <2>3. n \in Nat
    BY <1>5
  <2>4. NextTicket(after) = NextTicket(word) + 1
    <3>1. NextTicket(word) = n + word[b].i /\ NextTicket(after) = n + (word[b].i + 1)
      BY <1>5, <1>6, <2>2
    <3> HIDE DEF n
    <3>2. QED
      BY <1>2, <2>3, <3>1
  <2>5. QED
    BY <1>5, <1>8, <2>1, <2>2, <2>4
<1>9. QED
  BY <1>7, <1>8

(* The block that is opened begins with the ticket that comes after those  *)
(* of the block before.                                                    *)
LEMMA OpeningNext ==
    ASSUME NEW word \in [Blocks -> Pair], InOrder(word), NEW h \in Heads, Passed(word, h),
           NEW after, after = Raise(word, After(h), Opens(h))
    PROVE  NextTicket(after) = NextTicket(word)
<1>1. SUFFICES ASSUME after # word PROVE NextTicket(after) = NextTicket(word)
  OBVIOUS
<1> DEFINE g == VersionIncAdd(NumBlocks, h)
<1>2. /\ Follows(word, h) /\ BlockDone(word[h.i]) /\ Follows(after, g)
      /\ after = [word EXCEPT ![After(h)] = Opens(h)]
  BY <1>1, OpeningKeepsOrder
<1>3. /\ h.v \in Nat /\ h.i \in Nat /\ After(h) \in Blocks /\ Opens(h) \in Pair /\ g \in Heads
      /\ \/ h.i + 1 < NumBlocks /\ After(h) = h.i + 1 /\ g = FromParts(h.v, h.i + 1)
         \/ h.i + 1 = NumBlocks /\ After(h) = 0 /\ g = FromParts(h.v + 1, 0)
  BY AfterLemma
<1>4. after \in [Blocks -> Pair] /\ g.i = After(h) /\ after[g.i] = Opens(h)
  BY <1>2, <1>3 DEF FromParts
<1>5. Place(word, h.i) = BlockSize /\ Place(after, g.i) = 0
  BY <1>2, <1>4 DEF Place, BlockDone, Opens, FromParts
<1>6. /\ NextTicket(word) = (h.v * NumBlocks + h.i) * BlockSize + Place(word, h.i)
      /\ h.v * NumBlocks + h.i \in Nat
  BY <1>2, NextIsReached
<1>7. /\ NextTicket(after) = (g.v * NumBlocks + g.i) * BlockSize + Place(after, g.i)
      /\ g.v * NumBlocks + g.i \in Nat
  BY <1>2, <1>3, <1>4, NextIsReached
<1> DEFINE p == h.v * NumBlocks + h.i
           q == g.v * NumBlocks + g.i
<1>8. q = p + 1
  <2>1. (h.v + 1) * NumBlocks = h.v * NumBlocks + NumBlocks
    BY <1>3
  <2>2. CASE h.i + 1 < NumBlocks /\ g = FromParts(h.v, h.i + 1)
    <3>1. g.v = h.v /\ g.i = h.i + 1
      BY <2>2 DEF FromParts
    <3> HIDE DEF g
    <3>2. QED
      BY <1>3, <3>1
  <2>3. CASE h.i + 1 = NumBlocks /\ g = FromParts(h.v + 1, 0)
    <3>1. g.v = h.v + 1 /\ g.i = 0
      BY <2>3 DEF FromParts
    <3> HIDE DEF g
    <3>2. QED
      BY <1>3, <2>1, <2>3, <3>1
  <2>4. QED
    BY <1>3, <2>2, <2>3
<1> HIDE DEF p, q
<1>9. NextTicket(word) = p * BlockSize + BlockSize /\ p \in Nat
  BY <1>5, <1>6 DEF p
<1>10. NextTicket(after) = q * BlockSize + 0
  BY <1>5, <1>7 DEF q
<1>11. QED
  BY <1>8, <1>9, <1>10

(* What a thread that holds a slot holds.                                  *)
LEMMA HolderLemma ==
    ASSUME NoCarry, TypeOK, SlotInv, StartedFull, NEW t \in Threads, Holding(t)
    PROVE  /\ Block(t) \in Blocks /\ seen[t].i \in Slots /\ seen[t].v \in Nat
           /\ Block(t) # 0 => seen[t].v > 0
           /\ \/ t \in Producers /\ t \in Writers(Block(t))
              \/ t \in Consumers /\ t \in Readers(Block(t))
           /\ HeldTicket(t) = Ticket(Block(t), seen[t].v, seen[t].i)
           /\ HeldTicket(t) \in Nat
<1>1. PICK b \in Blocks : b = Block(t)
  BY NextBlockLemma
<1>2. seen[t].v \in Nat /\ seen[t].i \in Nat /\ (b # 0 => seen[t].v > 0)
  BY <1>1 DEF TypeOK, Pair, StartedFull
<1>3. CASE t \in Producers
  <2>1. t \in Writers(b)
    BY <1>1, <1>3 DEF Writers, Holding, TypeOK, ProducerSteps
  <2>2. seen[t].i < Handed(b)
    BY <1>1, <1>3, <2>1 DEF SlotInv, WriterOwns, Writers
  <2>3. seen[t].i \in Slots
    BY <1>2, <2>2, BlockFacts DEF Slots
  <2>4. HeldTicket(t) = Ticket(b, seen[t].v, seen[t].i)
    BY <1>1 DEF HeldTicket
  <2>5. Ticket(b, seen[t].v, seen[t].i) \in Nat
    BY <1>2, <2>3, TicketSlot
  <2>6. QED
    BY <1>1, <1>2, <1>3, <2>1, <2>3, <2>4, <2>5
<1>4. CASE t \in Consumers
  <2>1. t \in Readers(b)
    BY <1>1, <1>4 DEF Readers, Holding, TypeOK, ConsumerSteps
  <2>2. seen[t].i < reserved[b].i /\ reserved[b].i \in Nat
    BY <1>1, <1>4, <2>1 DEF SlotInv, ReaderOwns, Readers, TypeOK, Pair
  <2>3. seen[t].i \in Slots
    BY <1>2, <2>2, BlockFacts DEF Slots
  <2>4. HeldTicket(t) = Ticket(b, seen[t].v, seen[t].i)
    BY <1>1 DEF HeldTicket
  <2>5. Ticket(b, seen[t].v, seen[t].i) \in Nat
    BY <1>2, <2>3, TicketSlot
  <2>6. QED
    BY <1>1, <1>2, <1>4, <2>1, <2>3, <2>4, <2>5
<1>5. QED
  BY <1>3, <1>4 DEF Threads

(* Who holds a ticket holds its slot.                                      *)
LEMMA TicketHolder ==
    ASSUME NoCarry, TypeOK, SlotInv, StartedFull, NEW t \in Threads,
           NEW b \in Blocks, NEW v \in Int, NEW s \in Slots,
           Ticket(b, v, s) # -1, HeldTicket(t) = Ticket(b, v, s)
    PROVE  /\ Holding(t) /\ Block(t) = b /\ seen[t].v = v /\ seen[t].i = s
           /\ t \in Producers => t \in Writers(b)
           /\ t \in Consumers => t \in Readers(b)
<1>1. Holding(t)
  BY DEF HeldTicket
<1>2. /\ Block(t) \in Blocks /\ seen[t].i \in Slots /\ seen[t].v \in Int
      /\ HeldTicket(t) = Ticket(Block(t), seen[t].v, seen[t].i)
      /\ \/ t \in Producers /\ t \in Writers(Block(t))
         \/ t \in Consumers /\ t \in Readers(Block(t))
  BY <1>1, HolderLemma
<1>3. Block(t) = b /\ seen[t].v = v /\ seen[t].i = s
  <2>1. \A c \in Blocks, w \in Int, r \in Slots :
            Ticket(c, w, r) = Ticket(b, v, s) => c = b /\ w = v /\ r = s
    BY TicketsDiffer
  <2>2. QED
    BY <1>2, <2>1
<1>4. QED
  BY <1>1, <1>2, <1>3

(* What the mapping makes of a state of the ring.                          *)
Issued == [l \in 0 .. 1 |-> NextTicket(IF l = 0 THEN allocated ELSE reserved)]
Held == [t \in Threads |-> HeldTicket(t)]
Contents == [k \in 0 .. Capacity - 1 |-> SlotValue(k \div BlockSize, k % BlockSize)]

(* The producers are layer 0 and the consumers are layer 1.                *)
LEMMA IssuedParts ==
    /\ Issued[0] = NextTicket(allocated) /\ Issued[1] = NextTicket(reserved)
    /\ Issued = [l \in 0 .. 1 |-> IF l = 0 THEN NextTicket(allocated) ELSE NextTicket(reserved)]
    /\ Issued' = [l \in 0 .. 1 |-> IF l = 0 THEN NextTicket(allocated') ELSE NextTicket(reserved')]
  BY DEF Issued

(* The steps of Pipeline, in these terms.                                  *)
LEMMA PipelineSteps ==
    ASSUME NEW l \in {0, 1}, NEW t \in Threads
    PROVE  /\ Tickets!Take(l, t) <=> /\ Held[t] = -1 /\ Tickets!Ready(l, Issued[l])
                                     /\ Held' = [Held EXCEPT ![t] = Issued[l]]
                                     /\ Issued' = [Issued EXCEPT ![l] = Issued[l] + 1]
                                     /\ Contents' = Contents
           /\ Tickets!Transform(l, t) <=>
                  /\ Held[t] # -1
                  /\ Contents[Held[t] % Capacity] = Tickets!Input(l, Held[t])
                  /\ Contents' = [Contents EXCEPT ![Held[t] % Capacity] = Tickets!Output(l, Held[t])]
                  /\ Issued' = Issued /\ Held' = Held
           /\ Tickets!Give(l, t) <=>
                  /\ Held[t] # -1
                  /\ Contents[Held[t] % Capacity] = Tickets!Output(l, Held[t])
                  /\ Held' = [Held EXCEPT ![t] = -1]
                  /\ Issued' = Issued /\ Contents' = Contents
  BY DEF Tickets!Take, Tickets!Transform, Tickets!Give, Tickets!Nobody,
         Tickets!Slot, Issued, Held, Contents

(* A ticket is finished when its side has taken it and nobody there holds  *)
(* it.                                                                     *)
LEMMA FinishedLemma ==
    ASSUME NEW n
    PROVE  /\ Tickets!Finished(0, n) <=> /\ n < NextTicket(allocated)
                                         /\ \A p \in Producers : HeldTicket(p) # n
           /\ Tickets!Finished(1, n) <=> /\ n < NextTicket(reserved)
                                         /\ \A c \in Consumers : HeldTicket(c) # n
  BY DEF Tickets!Finished, Threads

(* The tickets other threads hold stay.                                    *)
LEMMA OthersTickets ==
    ASSUME NEW t \in Threads, OthersKeep(t)
    PROVE  /\ \A u \in Threads \ {t} : HeldTicket(u)' = HeldTicket(u)
           /\ Held' = [Held EXCEPT ![t] = HeldTicket(t)']
<1>1. \A u \in Threads \ {t} : HeldTicket(u)' = HeldTicket(u)
  BY DEF OthersKeep, HeldTicket, Holding, Block
<1>2. QED
  BY <1>1 DEF Held
-----------------------------------------------------------------------------
(* Every slot of the ring is a slot of a block.                            *)
LEMMA SlotParts ==
    ASSUME NEW k \in 0 .. Capacity - 1
    PROVE  /\ k \div BlockSize \in Blocks /\ k % BlockSize \in Slots
           /\ k = (k \div BlockSize) * BlockSize + (k % BlockSize)
<1> DEFINE q == k \div BlockSize
<1>1. k \in Nat /\ q \in Nat /\ k % BlockSize \in 0 .. BlockSize - 1
      /\ k = BlockSize * q + (k % BlockSize)
  OBVIOUS
<1>2. q < NumBlocks
  <2>1. SUFFICES ASSUME q >= NumBlocks PROVE FALSE
    BY <1>1
  <2>2. BlockSize * q >= NumBlocks * BlockSize
    <3> HIDE DEF q
    <3> QED BY <1>1, <2>1
  <2>3. k < NumBlocks * BlockSize
    BY DEF Capacity
  <2> HIDE DEF q
  <2>4. QED
    BY <1>1, <2>2, <2>3
<1>3. BlockSize * q = q * BlockSize
  <2> HIDE DEF q
  <2> QED BY <1>1
<1>4. QED
  BY <1>1, <1>2, <1>3 DEF Blocks, Slots

(* The slot of the ticket a thread holds.                                  *)
LEMMA HeldLemma ==
    ASSUME NoCarry, TypeOK, SlotInv, StartedFull, NEW t \in Threads, Holding(t),
           NEW b \in Blocks, b = Block(t), NEW s, s = seen[t].i
    PROVE  /\ s \in Slots
           /\ Held[t] = Ticket(b, seen[t].v, s) /\ Held[t] # -1
           /\ Held[t] % Capacity = b * BlockSize + s
           /\ Contents[Held[t] % Capacity] = SlotValue(b, s)
<1>1. /\ seen[t].v \in Nat /\ s \in Slots /\ (b # 0 => seen[t].v > 0)
      /\ HeldTicket(t) = Ticket(b, seen[t].v, s)
  BY HolderLemma
<1>2. /\ b * BlockSize + s \in 0 .. Capacity - 1
      /\ Ticket(b, seen[t].v, s) \in Nat
      /\ Ticket(b, seen[t].v, s) % Capacity = b * BlockSize + s
      /\ (b * BlockSize + s) \div BlockSize = b /\ (b * BlockSize + s) % BlockSize = s
  BY <1>1, TicketSlot
<1>3. Contents[b * BlockSize + s] = SlotValue(b, s)
  BY <1>2 DEF Contents
<1>4. Held[t] = Ticket(b, seen[t].v, s)
  BY <1>1 DEF Held
<1>5. Ticket(b, seen[t].v, s) # -1
  BY <1>2
<1>6. QED
  BY <1>1, <1>2, <1>3, <1>4, <1>5

(* A closure touches one slot.                                             *)
LEMMA TouchMaps ==
    ASSUME TypeOK, NEW b \in Blocks, NEW s \in Slots, NEW x,
           entries' = [entries EXCEPT ![b][s] = x]
    PROVE  /\ entries'[b][s] = x
           /\ Contents' = [Contents EXCEPT ![b * BlockSize + s] = SlotValue(b, s)']
<1>1. /\ entries'[b][s] = x
      /\ \A c \in Blocks, r \in Slots : c # b \/ r # s => entries'[c][r] = entries[c][r]
  BY DEF TypeOK
<1>2. \A c \in Blocks, r \in Slots : c # b \/ r # s => SlotValue(c, r)' = SlotValue(c, r)
  BY <1>1 DEF SlotValue
<1>3. (b * BlockSize + s) \div BlockSize = b /\ (b * BlockSize + s) % BlockSize = s
  <2>1. b \in Nat /\ s \in 0 .. BlockSize - 1
    BY DEF Blocks, Slots
  <2>2. QED
    BY <2>1, Remainders
<1>4. SUFFICES ASSUME NEW k \in 0 .. Capacity - 1
               PROVE  Contents'[k] = IF k = b * BlockSize + s THEN SlotValue(b, s)'
                                     ELSE Contents[k]
  BY <1>1 DEF Contents
<1>5. PICK c \in Blocks, r \in Slots : /\ c = k \div BlockSize /\ r = k % BlockSize
                                       /\ k = c * BlockSize + r
  BY SlotParts
<1>6. Contents'[k] = SlotValue(c, r)' /\ Contents[k] = SlotValue(c, r)
  BY <1>5 DEF Contents
<1>7. CASE k = b * BlockSize + s
  BY <1>3, <1>5, <1>6, <1>7
<1>8. CASE k # b * BlockSize + s
  BY <1>2, <1>5, <1>6, <1>8
<1>9. QED
  BY <1>7, <1>8

(* A slot allocated is a ticket taken by a producer: the consumers are     *)
(* done with the round before.                                             *)
LEMMA AddMaps ==
    ASSUME NoCarry, TypeOK, TypeOK', SlotInv, RingInv, NEW p \in Producers, AddAllocated(p)
    PROVE  Tickets!Take(0, p) \/ (Issued' = Issued /\ Held' = Held /\ Contents' = Contents)
<1>1. /\ p \in Threads /\ OthersKeep(p) /\ pc[p] = "add_allocated" /\ pc'[p] # "add_allocated"
      /\ allocated' = Count(allocated, Block(p)) /\ UNCHANGED <<reserved, entries, head>>
      /\ pc \in [Threads -> ProducerSteps \cup ConsumerSteps] /\ seen \in [Threads -> Pair]
  BY PushChanges DEF Threads, TypeOK, Push, AddAllocated, Goto
<1>2. PICK b \in Blocks : b = Block(p) /\ b = Block(p)'
  BY <1>1, NextBlockLemma DEF Block
<1>3. /\ allocated \in [Blocks -> Pair] /\ InOrder(allocated) /\ allocated[b] \in Pair
      /\ reserved \in [Blocks -> Pair] /\ InOrder(reserved)
  BY DEF TypeOK, RingInv
<1>4. allocated' = [allocated EXCEPT ![b] = FromParts(allocated[b].v, allocated[b].i + 1)]
  <2>1. allocated'[b] = FromParts(allocated[b].v, allocated[b].i + 1)
    BY <1>1, <1>2, AddWithin
  <2>2. QED
    BY <1>1, <1>2, <1>3, <2>1 DEF Count
<1>5. HeldTicket(p) = -1 /\ Contents' = Contents
  BY <1>1 DEF HeldTicket, Holding, Contents, SlotValue
<1>6. CASE BlockDone(allocated[b])
  <2>1. NextTicket(allocated') = NextTicket(allocated)
    BY <1>3, <1>4, <1>6, CountingNext
  <2>2. HeldTicket(p)' = -1
    BY <1>1, <1>2, <1>6 DEF AddAllocated, Goto, HeldTicket, Holding
  <2>3. QED
    BY <1>1, <1>5, <2>1, <2>2, OthersTickets DEF Issued, Held
<1>7. CASE ~ BlockDone(allocated[b])
  <2> DEFINE v == allocated[b].v
             s == allocated[b].i
  <2>1. /\ NextTicket(allocated) = Ticket(b, v, s)
        /\ NextTicket(allocated') = NextTicket(allocated) + 1
    BY <1>3, <1>4, <1>7, CountingNext
  <2>2. s \in Slots /\ s \in Nat /\ s + 1 <= BlockSize /\ v \in Nat
    BY <1>3, <1>7 DEF BlockDone, Slots, Pair
  <2>3. HeldTicket(p)' = Ticket(b, v, s)
    BY <1>1, <1>2, <1>7 DEF AddAllocated, Goto, HeldTicket, Holding
  <2>4. /\ AtMost(FromParts(v - 1, s + 1), reserved[b])
        /\ v - 1 = reserved[b].v => Readers(b) = {}
    <3>1. ProducerWords(b) /\ ConsumerWords(b) /\ ProducersLead(b)
      BY DEF SlotInv
    <3>2. committed[b].v = v
      BY <1>7, <3>1 DEF ProducerWords
    <3>3. reserved[b].v = v \/ (reserved[b].v = v - 1 /\ reserved[b].i = BlockSize /\ Readers(b) = {})
      <4>1. committed[b] \in Pair /\ consumed[b] \in Pair /\ reserved[b] \in Pair
        BY DEF TypeOK
      <4>2. CASE consumed[b].v = v
        BY <2>2, <3>1, <4>1, <4>2 DEF ConsumerWords, FromParts, Pair
      <4>3. CASE v = consumed[b].v + 1 /\ consumed[b].i = BlockSize
        <5>1. /\ reserved[b].i <= BlockSize /\ consumed[b].i <= reserved[b].i
              /\ Readers(b) # {} => consumed[b].i < reserved[b].i
          BY BlockFacts
        <5>2. consumed[b].v = reserved[b].v
          BY <3>1, <4>3 DEF ConsumerWords, FromParts
        <5>3. QED
          BY <2>2, <4>1, <4>3, <5>1, <5>2 DEF Pair
      <4>4. QED
        BY <3>1, <3>2, <4>2, <4>3 DEF ProducersLead
    <3>4. QED
      <4> HIDE DEF s, v
      <4> QED BY <2>2, <3>3 DEF AtMost, FromParts
  <2>5. Tickets!Ready(0, Ticket(b, v, s))
    <3>1. SUFFICES ASSUME Ticket(b, v, s) >= Capacity
                   PROVE  Tickets!Finished(1, Ticket(b, v, s) - Capacity)
      BY DEF Tickets!Ready
    <3>2. Ticket(b, v, s) - Capacity = Ticket(b, v - 1, s)
      <4>1. Round(b, v - 1) = Round(b, v) - 1 /\ Round(b, v) \in Int /\ b \in Nat
        BY <2>2 DEF Round, Blocks
      <4> DEFINE r == Round(b, v)
      <4> HIDE DEF r
      <4>2. (r - 1) * NumBlocks + b = (r * NumBlocks + b) - NumBlocks /\ r * NumBlocks + b \in Int
        BY <4>1 DEF r
      <4> DEFINE m == r * NumBlocks + b
      <4>3. (m - NumBlocks) * BlockSize = m * BlockSize - Capacity /\ m * BlockSize \in Int /\ Capacity \in Int
        <5> HIDE DEF m
        <5>1. m \in Int
          BY <4>2 DEF m
        <5>2. QED
          BY <5>1 DEF Capacity
      <4>4. Ticket(b, v, s) = m * BlockSize + s /\ Ticket(b, v - 1, s) = (m - NumBlocks) * BlockSize + s
        BY <4>1, <4>2 DEF Ticket, r
      <4> HIDE DEF m, s, v
      <4>5. QED
        BY <2>2, <4>3, <4>4
    <3>3. Ticket(b, v - 1, s) < NextTicket(reserved)
      BY <1>3, <2>2, <2>4, TakenLemma
    <3>4. \A c \in Consumers : HeldTicket(c) # Ticket(b, v - 1, s)
      <4> SUFFICES ASSUME NEW c \in Consumers, HeldTicket(c) = Ticket(b, v - 1, s) PROVE FALSE
        OBVIOUS
      <4>1. Ticket(b, v - 1, s) # -1 /\ c \in Threads /\ v - 1 \in Int
        <5>1. Ticket(b, v, s) \in Int /\ Capacity \in Nat /\ v - 1 \in Int
          BY <2>2, TicketLemma DEF Capacity
        <5> HIDE DEF s, v
        <5>2. QED
          BY <3>1, <3>2, <5>1 DEF Threads
      <4>2. c \in Readers(b) /\ seen[c].v = v - 1
        BY <2>2, <4>1, TicketHolder DEF RingInv
      <4>3. seen[c].v = reserved[b].v
        BY <4>2 DEF SlotInv, ReaderOwns, Readers
      <4>4. QED
        BY <2>4, <4>2, <4>3
    <3>5. QED
      BY <3>2, <3>3, <3>4, FinishedLemma
  <2>6. Issued[0] = Ticket(b, v, s) /\ Issued' = [Issued EXCEPT ![0] = Issued[0] + 1]
    <3>1. NextTicket(reserved') = NextTicket(reserved)
      BY <1>1
    <3>2. QED
      BY <2>1, <3>1, IssuedParts
  <2>7. Held[p] = -1 /\ Held' = [Held EXCEPT ![p] = Issued[0]]
    BY <1>1, <1>5, <2>3, <2>6, OthersTickets DEF Held
  <2>8. QED
    BY <1>1, <1>5, <2>5, <2>6, <2>7, PipelineSteps
<1>8. QED
  BY <1>6, <1>7

(* A slot reserved is a ticket taken by a consumer: its producer is done.  *)
LEMMA ReserveMaps ==
    ASSUME NoCarry, TypeOK, TypeOK', SlotInv, RingInv, NEW c \in Consumers, MaxReserved(c)
    PROVE  Tickets!Take(1, c) \/ (Issued' = Issued /\ Held' = Held /\ Contents' = Contents)
<1>1. /\ c \in Threads /\ OthersKeep(c) /\ pc[c] = "max_reserved"
      /\ UNCHANGED <<allocated, entries, head, seen>>
  BY PopChanges DEF Threads, TypeOK, Pop, MaxReserved, Goto
<1>2. PICK b \in Blocks : b = Block(c) /\ b = Block(c)'
  BY <1>1, NextBlockLemma DEF Block
<1>3. HeldTicket(c) = -1 /\ Contents' = Contents
  BY <1>1 DEF HeldTicket, Holding, Contents, SlotValue
<1>4. CASE reserved' = reserved /\ pc'[c] = "load_reserved"
  <2>1. HeldTicket(c)' = -1
    BY <1>4 DEF HeldTicket, Holding
  <2>2. QED
    BY <1>1, <1>3, <1>4, <2>1, OthersTickets DEF Issued, Held
<1>5. CASE /\ seen[c] \in Pair /\ seen[c].i < BlockSize /\ reserved[b] = seen[c] /\ pc'[c] = "consume"
           /\ reserved' = [reserved EXCEPT ![b] = FromParts(seen[c].v, seen[c].i + 1)]
  <2> DEFINE v == seen[c].v
             s == seen[c].i
  <2>1. /\ reserved \in [Blocks -> Pair] /\ InOrder(reserved)
        /\ allocated \in [Blocks -> Pair] /\ InOrder(allocated)
        /\ s \in Slots /\ s \in Nat /\ v \in Nat /\ ~ BlockDone(reserved[b])
    <3>1. /\ reserved \in [Blocks -> Pair] /\ InOrder(reserved)
          /\ allocated \in [Blocks -> Pair] /\ InOrder(allocated)
      BY DEF TypeOK, RingInv
    <3>2. s \in Slots /\ s \in Nat /\ v \in Nat /\ ~ BlockDone(reserved[b])
      BY <1>5 DEF Pair, Slots, BlockDone
    <3>3. QED
      BY <3>1, <3>2
  <2>2. /\ NextTicket(reserved) = Ticket(b, v, s)
        /\ NextTicket(reserved') = NextTicket(reserved) + 1
    BY <1>5, <2>1, CountingNext
  <2>3. HeldTicket(c)' = Ticket(b, v, s)
    BY <1>1, <1>2, <1>5 DEF HeldTicket, Holding
  <2>4. /\ committed[b].v = v /\ s < mark[c].i /\ mark[c].i <= committed[b].i
        /\ \A p \in Writers(b) : seen[p].i # s
    BY <1>1, <1>2, <1>5 DEF SlotInv, ReserverKnows
  <2>5. AtMost(FromParts(v, s + 1), allocated[b])
    <3>1. /\ committed[b].i \in Nat /\ mark[c].i \in Nat
          /\ committed[b].i <= Handed(b) /\ Handed(b) <= allocated[b].i
          /\ committed[b].i > 0 => allocated[b].v = committed[b].v
          /\ allocated[b].i \in Nat /\ Handed(b) \in Nat
      <4>1. committed[b].i \in Nat /\ mark[c].i \in Nat /\ allocated[b].i \in Nat
        BY DEF TypeOK, Pair
      <4>2. committed[b].i <= Handed(b) /\ Handed(b) <= allocated[b].i /\ Handed(b) \in Nat
        BY BlockFacts
      <4>3. committed[b].i > 0 => allocated[b].v = committed[b].v
        BY VersionFacts
      <4>4. QED
        BY <4>1, <4>2, <4>3
    <3>2. QED
      BY <2>1, <2>4, <3>1 DEF AtMost, FromParts
  <2>6. Tickets!Ready(1, Ticket(b, v, s))
    <3>1. Ticket(b, v, s) < NextTicket(allocated)
      BY <2>1, <2>5, TakenLemma
    <3>2. \A p \in Producers : HeldTicket(p) # Ticket(b, v, s)
      <4> SUFFICES ASSUME NEW p \in Producers, HeldTicket(p) = Ticket(b, v, s) PROVE FALSE
        OBVIOUS
      <4>1. Ticket(b, v, s) # -1 /\ p \in Threads /\ v \in Int
        <5>1. NextTicket(reserved) \in Nat
          BY <2>1, OrderHead, NextIsReached
        <5>2. QED
          BY <2>1, <2>2, <5>1 DEF Threads
      <4>2. p \in Writers(b) /\ seen[p].i = s
        BY <2>1, <4>1, TicketHolder DEF RingInv
      <4>3. QED
        BY <2>4, <4>2
    <3>3. Tickets!Finished(0, Ticket(b, v, s))
      BY <3>1, <3>2, FinishedLemma
    <3>4. QED
      BY <3>3 DEF Tickets!Ready
  <2>7. Issued[1] = Ticket(b, v, s) /\ Issued' = [Issued EXCEPT ![1] = Issued[1] + 1]
    <3>1. NextTicket(allocated') = NextTicket(allocated)
      BY <1>1
    <3>2. QED
      BY <2>2, <3>1, IssuedParts
  <2>8. Held[c] = -1 /\ Held' = [Held EXCEPT ![c] = Issued[1]]
    BY <1>1, <1>3, <2>3, <2>7, OthersTickets DEF Held
  <2>9. QED
    BY <1>1, <1>3, <2>6, <2>7, <2>8, PipelineSteps
<1>6. QED
  BY <1>2, <1>4, <1>5, MaxReservedCases
-----------------------------------------------------------------------------
(* A closure that runs to its end is a ticket worked on.                   *)
LEMMA ProduceMaps ==
    ASSUME NoCarry, TypeOK, SlotInv, RingInv, ValueInv, NEW p \in Producers, Produce(p)
    PROVE  Tickets!Transform(0, p)
<1>1. /\ p \in Threads /\ OthersKeep(p) /\ pc[p] = "produce" /\ pc'[p] = "commit"
      /\ Holding(p) /\ Holding(p)' /\ UNCHANGED <<words, head, seen>>
  BY PushChanges DEF Threads, Push, Produce, Goto, Holding, TypeOK
<1>2. PICK b \in Blocks, s \in Slots : b = Block(p) /\ s = seen[p].i
  BY <1>1, HolderLemma DEF RingInv
<1> DEFINE n == Ticket(b, seen[p].v, s)
<1>3. /\ Held[p] = n /\ Held[p] # -1
      /\ Held[p] % Capacity = b * BlockSize + s
      /\ Contents[Held[p] % Capacity] = SlotValue(b, s)
  BY <1>1, <1>2, HeldLemma DEF RingInv
<1>4. SlotValue(b, s) = Tickets!Input(0, n)
  <2>1. entries[b][s] = Absent
    BY <1>1, <1>2, ValuesFound DEF ValuesIntact
  <2>2. QED
    BY <2>1 DEF SlotValue, Tickets!Input
<1>5. /\ entries'[b][s] = seen[p].v
      /\ Contents' = [Contents EXCEPT ![b * BlockSize + s] = SlotValue(b, s)']
  <2>1. entries' = [entries EXCEPT ![b][s] = seen[p].v]
    BY <1>2 DEF Produce
  <2>2. QED
    BY <2>1, TouchMaps
<1>6. SlotValue(b, s)' = Tickets!Output(0, n)
  <2>1. seen[p].v # Absent
    BY <1>1 DEF TypeOK, Pair, Absent
  <2>2. QED
    BY <1>5, <2>1 DEF SlotValue, Tickets!Output
<1>7. Issued' = Issued /\ Held' = Held
  <2>1. HeldTicket(p)' = HeldTicket(p)
    BY <1>1 DEF HeldTicket, Block
  <2>2. QED
    BY <1>1, <2>1, OthersTickets DEF Held, Issued, words
<1>8. QED
  <2>1. Contents[Held[p] % Capacity] = Tickets!Input(0, Held[p])
    BY <1>3, <1>4
  <2>2. Contents' = [Contents EXCEPT ![Held[p] % Capacity] = Tickets!Output(0, Held[p])]
    BY <1>3, <1>5, <1>6
  <2>3. QED
    BY <1>1, <1>3, <1>7, <2>1, <2>2, PipelineSteps

(* A value read is a transform of its slot by a consumer, which empties    *)
(* it.                                                                     *)
LEMMA ConsumeMaps ==
    ASSUME NoCarry, TypeOK, SlotInv, RingInv, ValueInv, NEW c \in Consumers, Consume(c)
    PROVE  Tickets!Transform(1, c)
<1>1. /\ c \in Threads /\ OthersKeep(c) /\ pc[c] = "consume" /\ pc'[c] = "release"
      /\ Holding(c) /\ Holding(c)' /\ UNCHANGED <<words, head, seen>>
  BY PopChanges DEF Threads, Pop, Consume, Goto, Holding, TypeOK
<1>2. PICK b \in Blocks, s \in Slots : b = Block(c) /\ s = seen[c].i
  BY <1>1, HolderLemma DEF RingInv
<1> DEFINE n == Ticket(b, seen[c].v, s)
<1>3. /\ Held[c] = n /\ Held[c] # -1
      /\ Held[c] % Capacity = b * BlockSize + s
      /\ Contents[Held[c] % Capacity] = SlotValue(b, s)
  BY <1>1, <1>2, HeldLemma DEF RingInv
<1>4. SlotValue(b, s) = Tickets!Input(1, n)
  <2>1. entries[b][s] = seen[c].v
    BY <1>1, <1>2, ValuesFound DEF ValuesIntact
  <2>2. seen[c].v # Absent
    BY <1>1 DEF TypeOK, Pair, Absent
  <2>3. QED
    BY <2>1, <2>2 DEF SlotValue, Tickets!Input
<1>5. /\ entries'[b][s] = Absent
      /\ Contents' = [Contents EXCEPT ![b * BlockSize + s] = SlotValue(b, s)']
  <2>1. entries' = [entries EXCEPT ![b][s] = Absent]
    BY <1>2 DEF Consume
  <2>2. QED
    BY <2>1, TouchMaps
<1>6. SlotValue(b, s)' = Tickets!Output(1, n)
  BY <1>5 DEF SlotValue, Tickets!Output
<1>7. Issued' = Issued /\ Held' = Held
  <2>1. HeldTicket(c)' = HeldTicket(c)
    BY <1>1 DEF HeldTicket, Block
  <2>2. QED
    BY <1>1, <2>1, OthersTickets DEF Held, Issued, words
<1>8. QED
  <2>1. Contents[Held[c] % Capacity] = Tickets!Input(1, Held[c])
    BY <1>3, <1>4
  <2>2. Contents' = [Contents EXCEPT ![Held[c] % Capacity] = Tickets!Output(1, Held[c])]
    BY <1>3, <1>5, <1>6
  <2>3. QED
    BY <1>1, <1>3, <1>7, <2>1, <2>2, PipelineSteps

(* An entry dropped is a ticket given back, with the value in the slot of  *)
(* a push and none in that of a pop.                                       *)
LEMMA CommitMaps ==
    ASSUME NoCarry, TypeOK, SlotInv, RingInv, ValueInv, NEW p \in Producers, Commit(p)
    PROVE  Tickets!Give(0, p)
<1>1. /\ p \in Threads /\ OthersKeep(p) /\ pc[p] = "commit" /\ pc'[p] = "idle"
      /\ Holding(p) /\ UNCHANGED <<allocated, reserved, entries>>
  <2>1. p \in Threads /\ OthersKeep(p)
    BY PushChanges DEF Threads, Push
  <2>2. /\ pc[p] = "commit" /\ pc'[p] = "idle" /\ UNCHANGED <<allocated, reserved, entries>>
    BY <2>1 DEF Commit, Return, Leave, Goto, TypeOK
  <2>3. QED
    BY <2>1, <2>2 DEF Holding
<1>2. PICK b \in Blocks, s \in Slots : b = Block(p) /\ s = seen[p].i
  BY <1>1, HolderLemma DEF RingInv
<1> DEFINE n == Ticket(b, seen[p].v, s)
<1>3. /\ Held[p] = n /\ Held[p] # -1
      /\ Contents[Held[p] % Capacity] = SlotValue(b, s)
  BY <1>1, <1>2, HeldLemma DEF RingInv
<1>4. SlotValue(b, s) = Tickets!Output(0, n)
  <2>1. /\ p \in Writers(b) /\ seen[p].v = allocated[b].v /\ s < Handed(b)
        /\ reserved[b].v = allocated[b].v => reserved[b].i <= s
        /\ \A q \in Writers(b) \ {p} : seen[q].i # s
    BY <1>1, <1>2 DEF SlotInv, WriterOwns, Writers
  <2>2. s \notin Unwritten(b)
    BY <1>1, <2>1 DEF Unwritten, Writers
  <2>3. reserved[b].v <= allocated[b].v /\ reserved[b].v \in Nat /\ allocated[b].v \in Nat
    <3>1. committed[b].v = allocated[b].v
      BY <2>1, BlockFacts
    <3>2. QED
      BY <3>1, VersionFacts DEF Pair
  <2>4. Full(b, s)
    BY <2>1, <2>2, <2>3 DEF Full
  <2>5. entries[b][s] = seen[p].v /\ seen[p].v # Absent
    BY <2>1, <2>3, <2>4 DEF ValueInv, Absent
  <2>6. QED
    BY <2>5 DEF SlotValue, Tickets!Output
<1>5. Held' = [Held EXCEPT ![p] = -1] /\ Issued' = Issued /\ Contents' = Contents
  <2>1. HeldTicket(p)' = -1
    BY <1>1 DEF HeldTicket, Holding
  <2>2. QED
    BY <1>1, <2>1, OthersTickets DEF Issued, Contents, SlotValue
<1>6. QED
  <2>1. Contents[Held[p] % Capacity] = Tickets!Output(0, Held[p])
    BY <1>3, <1>4
  <2>2. QED
    BY <1>1, <1>3, <1>5, <2>1, PipelineSteps

(* A slot released is a ticket given back by a consumer.                   *)
LEMMA ReleaseMaps ==
    ASSUME NoCarry, TypeOK, SlotInv, RingInv, ValueInv, NEW c \in Consumers, Release(c)
    PROVE  Tickets!Give(1, c)
<1>1. /\ c \in Threads /\ OthersKeep(c) /\ pc[c] = "release" /\ pc'[c] = "idle"
      /\ Holding(c) /\ UNCHANGED <<allocated, reserved, entries>>
  <2>1. c \in Threads /\ OthersKeep(c)
    BY PopChanges DEF Threads, Pop
  <2>2. /\ pc[c] = "release" /\ pc'[c] = "idle" /\ UNCHANGED <<allocated, reserved, entries>>
    BY <2>1 DEF Release, Return, Leave, Goto, TypeOK
  <2>3. QED
    BY <2>1, <2>2 DEF Holding
<1>2. PICK b \in Blocks, s \in Slots : b = Block(c) /\ s = seen[c].i
  BY <1>1, HolderLemma DEF RingInv
<1> DEFINE n == Ticket(b, seen[c].v, s)
<1>3. /\ Held[c] = n /\ Held[c] # -1
      /\ Contents[Held[c] % Capacity] = SlotValue(b, s)
  BY <1>1, <1>2, HeldLemma DEF RingInv
<1>4. SlotValue(b, s) = Tickets!Output(1, n)
  <2>1. /\ c \in Readers(b) /\ s < reserved[b].i
        /\ \A d \in Readers(b) \ {c} : seen[d].i # s
    BY <1>1, <1>2 DEF SlotInv, ReaderOwns, Readers
  <2>2. s \notin Unread(b)
    BY <1>1, <2>1 DEF Unread, Readers
  <2>3. allocated[b].v <= reserved[b].v /\ reserved[b].v \in Nat /\ allocated[b].v \in Nat
    <3>1. consumed[b].v = reserved[b].v /\ consumed[b].i < reserved[b].i /\ reserved[b].i <= BlockSize
      BY <2>1, BlockFacts
    <3>2. committed[b].v = consumed[b].v
      BY <3>1, BlockFacts, VersionFacts DEF Pair
    <3>3. QED
      BY <3>1, <3>2, VersionFacts DEF Pair
  <2>4. ~ Full(b, s)
    <3>1. reserved[b].i \in Nat /\ s \in Nat
      BY VersionFacts DEF Pair, Slots
    <3>2. QED
      BY <2>1, <2>3, <3>1 DEF Full
  <2>5. entries[b][s] = Absent
    BY <2>2, <2>4 DEF ValueInv
  <2>6. QED
    BY <2>5 DEF SlotValue, Tickets!Output
<1>5. Held' = [Held EXCEPT ![c] = -1] /\ Issued' = Issued /\ Contents' = Contents
  <2>1. HeldTicket(c)' = -1
    BY <1>1 DEF HeldTicket, Holding
  <2>2. QED
    BY <1>1, <2>1, OthersTickets DEF Issued, Contents, SlotValue
<1>6. QED
  <2>1. Contents[Held[c] % Capacity] = Tickets!Output(1, Held[c])
    BY <1>3, <1>4
  <2>2. QED
    BY <1>1, <1>3, <1>5, <2>1, PipelineSteps

(* The other steps of a push, and of a pop, are no steps of the queue.     *)
LEMMA PushStutters ==
    ASSUME TypeOK, RingInv, NEW p \in Producers, Push(p),
           ~ AddAllocated(p), ~ Produce(p), ~ DropEntryUnproduced(p), ~ Commit(p)
    PROVE  Issued' = Issued /\ Held' = Held /\ Contents' = Contents
<1>1. OthersKeep(p) /\ p \in Threads /\ reserved' = reserved
  BY PushChanges DEF Threads
<1>2. /\ entries' = entries /\ ~ Holding(p) /\ ~ Holding(p)'
      /\ ~ MaxAllocated(p) => allocated' = allocated
  BY DEF Push, StartPush, LoadPhead, LoadAllocated, CheckConsumed, ReportFull, ReportBusyPush,
     MaxCommitted, MaxAllocated, MaxPhead, Return, Leave, Goto, Holding, TypeOK, Threads, words
<1>3. NextTicket(allocated') = NextTicket(allocated)
  <2>1. CASE MaxAllocated(p)
    <3>1. /\ pc[p] = "max_allocated" /\ allocated' = Raise(allocated, After(head[p]), Opens(head[p]))
      BY <2>1 DEF MaxAllocated, NextBlock, Opening, After, Opens
    <3>2. /\ allocated \in [Blocks -> Pair] /\ InOrder(allocated)
          /\ head[p] \in Heads /\ Passed(allocated, head[p])
      BY <1>1, <3>1 DEF TypeOK, RingInv, KeepsOrder, PastAllocated, Heads
    <3>3. QED
      BY <3>1, <3>2, OpeningNext
  <2>2. CASE ~ MaxAllocated(p)
    BY <1>2, <2>2
  <2>3. QED
    BY <2>1, <2>2
<1>4. HeldTicket(p)' = HeldTicket(p)
  BY <1>2 DEF HeldTicket
<1>5. Issued' = Issued
  <2>1. NextTicket(reserved') = NextTicket(reserved)
    BY <1>1
  <2>2. QED
    BY <1>3, <2>1, IssuedParts
<1>6. QED
  BY <1>1, <1>2, <1>4, <1>5, OthersTickets DEF Held, Contents, SlotValue

(* The other steps of a pop change no ticket and no slot.                  *)
LEMMA PopStutters ==
    ASSUME TypeOK, RingInv, NEW c \in Consumers, Pop(c),
           ~ MaxReserved(c), ~ Consume(c), ~ DropEntryUnconsumed(c), ~ Release(c)
    PROVE  Issued' = Issued /\ Held' = Held /\ Contents' = Contents
<1>1. OthersKeep(c) /\ c \in Threads /\ allocated' = allocated
  BY PopChanges DEF Threads
<1>2. /\ entries' = entries /\ ~ Holding(c) /\ ~ Holding(c)'
      /\ ~ ResetReserved(c) => reserved' = reserved
  BY DEF Pop, StartPop, LoadChead, LoadReserved, ReportEmptyBlock, LoadCommitted, ReportBusyPop,
     CheckAllocated, ReportEmptyRing, CheckCommitted, MaxConsumed, ResetReserved, MaxChead,
     Return, Leave, Goto, Holding, TypeOK, Threads, words
<1>3. NextTicket(reserved') = NextTicket(reserved)
  <2>1. CASE ResetReserved(c)
    <3>1. /\ pc[c] = "reset_reserved" /\ reserved' = Raise(reserved, After(head[c]), Opens(head[c]))
      BY <2>1 DEF ResetReserved, NextBlock, Opening, After, Opens
    <3>2. /\ reserved \in [Blocks -> Pair] /\ InOrder(reserved)
          /\ head[c] \in Heads /\ Passed(reserved, head[c])
      BY <1>1, <3>1 DEF TypeOK, RingInv, KeepsOrder, PastReserved, Heads
    <3>3. QED
      BY <3>1, <3>2, OpeningNext
  <2>2. CASE ~ ResetReserved(c)
    BY <1>2, <2>2
  <2>3. QED
    BY <2>1, <2>2
<1>4. HeldTicket(c)' = HeldTicket(c)
  BY <1>2 DEF HeldTicket
<1>5. Issued' = Issued
  <2>1. NextTicket(allocated') = NextTicket(allocated)
    BY <1>1
  <2>2. QED
    BY <1>3, <2>1, IssuedParts
<1>6. QED
  BY <1>1, <1>2, <1>4, <1>5, OthersTickets DEF Held, Contents, SlotValue

(* A new ring is an empty queue.                                           *)
LEMMA FifoInit == Init => Tickets!Init
<1> SUFFICES ASSUME Init PROVE Tickets!Init
  OBVIOUS
<1>1. NextTicket(NewWords) = 0
  <2>1. Zero \in Heads /\ Zero.i = 0 /\ Zero.v = 0 /\ NewWords \in [Blocks -> Pair] /\ 0 \in Blocks
    BY PairFacts DEF Zero, FromParts, NewWords, Blocks, Pair
  <2>2. Follows(NewWords, Zero)
    BY <2>1 DEF Follows, NewWords, VersionIn, BlockDone, FromParts, Zero, Blocks
  <2>3. NextTicket(NewWords) = (Zero.v * NumBlocks + Zero.i) * BlockSize + Place(NewWords, Zero.i)
    BY <2>1, <2>2, NextIsReached
  <2>4. Place(NewWords, 0) = 0
    BY <2>1 DEF Place, NewWords, BlockDone, Zero, FromParts
  <2>5. QED
    BY <2>1, <2>3, <2>4
<1>2. Issued = [l \in 0 .. 1 |-> 0]
  BY <1>1 DEF Issued, Init
<1>3. \A t \in Threads : HeldTicket(t) = -1
  BY DEF Init, HeldTicket, Holding
<1>4. \A k \in 0 .. Capacity - 1 : SlotValue(k \div BlockSize, k % BlockSize) = <<>>
  BY SlotParts DEF Init, SlotValue
<1>5. Tickets!AllWorkers = Threads /\ Tickets!Layers = 0 .. 1
  <2>1. Tickets!Layers = 0 .. 1
    BY DEF Tickets!Layers
  <2>2. QED
    BY <2>1 DEF Tickets!AllWorkers, Threads
<1>6. QED
  BY <1>2, <1>3, <1>4, <1>5 DEF Tickets!Init, Tickets!Nobody, Issued

(* push and pop keep what Pipeline promises: every push gets a slot of its *)
(* own, in order, and every pop the next value in that order, once its     *)
(* push is finished and before its slot is used again.                     *)
THEOREM RingIsFifo == NoCarry /\ Careless = {} => (Spec => ImplementsFifo)
<1> SUFFICES ASSUME NoCarry, Careless = {} PROVE Spec => ImplementsFifo
  OBVIOUS
<1>1. TypeOK /\ SlotInv /\ RingInv /\ ValueInv /\ TypeOK' /\ [Next]_vars
      => [Tickets!Next]_Tickets!vars
  <2> SUFFICES ASSUME TypeOK, SlotInv, RingInv, ValueInv, TypeOK', [Next]_vars
               PROVE  Tickets!Next \/ UNCHANGED Tickets!vars
    OBVIOUS
  <2>1. Issued' = Issued /\ Held' = Held /\ Contents' = Contents => UNCHANGED Tickets!vars
    BY DEF Tickets!vars, Issued, Held, Contents
  <2>2. ASSUME NEW p \in Producers, Push(p) PROVE Tickets!Next \/ UNCHANGED Tickets!vars
    <3>1. Tickets!Take(0, p) \/ Tickets!Transform(0, p) \/ Tickets!Give(0, p) => Tickets!Next
      BY DEF Tickets!Next, Tickets!Layers
    <3>2. CASE AddAllocated(p)
      BY <2>1, <3>1, <3>2, AddMaps
    <3>3. CASE Produce(p)
      BY <3>1, <3>3, ProduceMaps
    <3>4. CASE Commit(p)
      BY <3>1, <3>4, CommitMaps
    <3>5. ~ DropEntryUnproduced(p)
      BY DEF DropEntryUnproduced
    <3>6. CASE ~ AddAllocated(p) /\ ~ Produce(p) /\ ~ Commit(p)
      BY <2>1, <2>2, <3>5, <3>6, PushStutters
    <3>7. QED
      BY <3>2, <3>3, <3>4, <3>6
  <2>3. ASSUME NEW c \in Consumers, Pop(c) PROVE Tickets!Next \/ UNCHANGED Tickets!vars
    <3>1. Tickets!Take(1, c) \/ Tickets!Transform(1, c) \/ Tickets!Give(1, c) => Tickets!Next
      BY DEF Tickets!Next, Tickets!Layers
    <3>2. CASE MaxReserved(c)
      BY <2>1, <3>1, <3>2, ReserveMaps
    <3>3. CASE Consume(c)
      BY <3>1, <3>3, ConsumeMaps
    <3>4. CASE Release(c)
      BY <3>1, <3>4, ReleaseMaps
    <3>5. ~ DropEntryUnconsumed(c)
      BY DEF DropEntryUnconsumed
    <3>6. CASE ~ MaxReserved(c) /\ ~ Consume(c) /\ ~ Release(c)
      BY <2>1, <2>3, <3>5, <3>6, PopStutters
    <3>7. QED
      BY <3>2, <3>3, <3>4, <3>6
  <2>4. CASE UNCHANGED vars
    BY <2>4 DEF vars, words, locals, Tickets!vars, NextTicket, HeldTicket, Holding, Block, SlotValue
  <2>5. QED
    BY <2>2, <2>3, <2>4 DEF Next
<1>2. QED
  BY <1>1, FifoInit, TypeCorrect, SlotInvariant, RingInvariant, ValueInvariant, PTL
     DEF Spec, ImplementsFifo, Tickets!Spec
-----------------------------------------------------------------------------
(* The tickets of the block that comes next, in the version before the one *)
(* it is opened with, lie behind the head by all the other blocks.         *)
LEMMA NextBlockTickets ==
    ASSUME NEW h \in Heads, NEW s \in Slots
    PROVE  /\ Ticket(h.i, VersionIn(h.i, h.v), BlockSize - 1) \in Int
           /\ Ticket(After(h), h.v, s) <=
                  Ticket(h.i, VersionIn(h.i, h.v), BlockSize - 1) - (Capacity - BlockSize)
<1> DEFINE m == h.v * NumBlocks + h.i
           x == After(h)
<1>1. /\ h.v \in Nat /\ h.i \in Blocks /\ h.i \in Nat /\ h.i < NumBlocks
      /\ (h.i + 1 < NumBlocks /\ x = h.i + 1) \/ (h.i + 1 = NumBlocks /\ x = 0)
      /\ s \in Nat /\ s <= BlockSize - 1
  BY AfterLemma DEF Slots
<1>2. Ticket(h.i, VersionIn(h.i, h.v), BlockSize - 1) = m * BlockSize + (BlockSize - 1)
  BY <1>1, RoundLemma DEF Ticket
<1>3. Round(x, h.v) * NumBlocks + x = m + 1 - NumBlocks /\ m \in Int
  <2> DEFINE a == h.v * NumBlocks
             r == Round(x, h.v) * NumBlocks
  <2>1. a \in Int /\ (h.v - 1) * NumBlocks = a - NumBlocks
    BY <1>1
  <2>2. \/ h.i + 1 < NumBlocks /\ x = h.i + 1 /\ r = a - NumBlocks
        \/ h.i + 1 = NumBlocks /\ x = 0 /\ r = a
    <3>1. CASE h.i + 1 < NumBlocks /\ x = h.i + 1
      <4>1. Round(x, h.v) = h.v - 1
        BY <1>1, <3>1 DEF Round
      <4>2. QED
        BY <2>1, <3>1, <4>1
    <3>2. CASE h.i + 1 = NumBlocks /\ x = 0
      <4>1. Round(x, h.v) = h.v
        BY <3>2 DEF Round
      <4>2. QED
        BY <3>2, <4>1
    <3>3. QED
      BY <1>1, <3>1, <3>2
  <2>3. m = a + h.i
    OBVIOUS
  <2>4. r + x = m + 1 - NumBlocks /\ m \in Int
    <3> HIDE DEF a, r, x, m
    <3> QED BY <1>1, <2>1, <2>2, <2>3
  <2>5. QED
    BY <2>4
<1>4. Ticket(x, h.v, s) = (m + 1 - NumBlocks) * BlockSize + s
  BY <1>3 DEF Ticket
<1> HIDE DEF m, x
<1>5. (m + 1 - NumBlocks) * BlockSize = m * BlockSize + BlockSize - Capacity
      /\ m * BlockSize \in Int /\ Capacity \in Int
  BY <1>3 DEF Capacity
<1>6. Ticket(h.i, VersionIn(h.i, h.v), BlockSize - 1) \in Int
      /\ Ticket(x, h.v, s) <= Ticket(h.i, VersionIn(h.i, h.v), BlockSize - 1) - (Capacity - BlockSize)
  BY <1>1, <1>2, <1>4, <1>5
<1>7. QED
  BY <1>6 DEF x

(* In a block that consumers have not emptied, a ticket of that version is *)
(* not finished.                                                           *)
LEMMA OccupiedHolds ==
    ASSUME NoCarry, TypeOK, SlotInv, RingInv, NEW b \in Blocks, NEW v \in Nat,
           consumed[b].v < v \/ (consumed[b].v = v /\ consumed[b].i # BlockSize)
    PROVE  \E s \in Slots : Ticket(b, v, s) \in Nat /\ ~ Tickets!Finished(1, Ticket(b, v, s))
<1>1. /\ reserved \in [Blocks -> Pair] /\ InOrder(reserved)
      /\ reserved[b].v \in Nat /\ reserved[b].i \in Nat /\ consumed[b].v \in Nat /\ consumed[b].i \in Nat
      /\ 0 \in Slots /\ \A s \in Slots : s \in Nat
  <2>1. reserved \in [Blocks -> Pair] /\ consumed \in [Blocks -> Pair] /\ InOrder(reserved)
    BY DEF TypeOK, RingInv
  <2>2. 0 \in Slots /\ \A s \in Slots : s \in Nat
    BY DEF Slots
  <2>3. QED
    BY <2>1, <2>2 DEF Pair
<1>2. /\ reserved[b].i <= BlockSize /\ consumed[b].i <= reserved[b].i
      /\ reserved[b].v <= consumed[b].v
  BY BlockFacts, VersionFacts
<1>3. ASSUME NEW s \in Slots, b # 0 => v > 0, ~ AtMost(FromParts(v, s + 1), reserved[b])
      PROVE  Ticket(b, v, s) \in Nat /\ ~ Tickets!Finished(1, Ticket(b, v, s))
  <2>1. ~ (Ticket(b, v, s) < NextTicket(reserved))
    BY <1>1, <1>3, TakenLemma
  <2>2. Ticket(b, v, s) \in Nat
    BY <1>3, TicketSlot
  <2>3. QED
    BY <2>1, <2>2, FinishedLemma
<1>4. CASE reserved[b].v < v
  <2>1. ~ AtMost(FromParts(v, 0 + 1), reserved[b])
    BY <1>1, <1>4 DEF AtMost, FromParts
  <2>2. v > 0
    BY <1>1, <1>4
  <2>3. QED
    BY <1>1, <1>3, <2>1, <2>2
<1>5. CASE reserved[b].v = v /\ reserved[b].i < BlockSize
  <2> DEFINE s == reserved[b].i
  <2>1. s \in Slots /\ ~ AtMost(FromParts(v, s + 1), reserved[b])
    BY <1>1, <1>5 DEF AtMost, FromParts, Slots
  <2>2. b # 0 => v > 0
    <3>1. ~ BlockDone(reserved[b])
      BY <1>1, <1>5 DEF BlockDone
    <3>2. QED
      BY <1>1, <1>5, <3>1, OpenedSince
  <2>3. QED
    BY <1>3, <2>1, <2>2
<1>6. CASE reserved[b].v = v /\ reserved[b].i = BlockSize
  <2>1. Readers(b) # {}
    <3>1. consumed[b].v = v /\ consumed[b].i < BlockSize
      BY <1>1, <1>2, <1>6
    <3>2. ConsumerWords(b)
      BY DEF SlotInv
    <3>3. consumed[b].i + Cardinality(Readers(b)) = reserved[b].i
      BY <1>1, <1>6, <3>1, <3>2 DEF ConsumerWords, FromParts
    <3>4. Cardinality(Readers(b)) \in Nat /\ (Cardinality(Readers(b)) = 0 <=> Readers(b) = {})
      BY FiniteLemma
    <3>5. QED
      BY <1>1, <1>6, <3>1, <3>3, <3>4
  <2>2. PICK c \in Readers(b) : TRUE
    BY <2>1
  <2>3. c \in Consumers /\ c \in Threads /\ Holding(c) /\ Block(c) = b /\ seen[c].v = v
    BY <1>6, <2>2 DEF Readers, Threads, Holding, SlotInv, ReaderOwns
  <2>4. /\ seen[c].i \in Slots /\ HeldTicket(c) = Ticket(b, v, seen[c].i)
        /\ HeldTicket(c) \in Nat
    BY <2>3, HolderLemma DEF RingInv
  <2>5. ~ Tickets!Finished(1, HeldTicket(c))
    BY <2>3, FinishedLemma
  <2>6. QED
    BY <2>4, <2>5
<1>7. QED
  BY <1>1, <1>2, <1>4, <1>5, <1>6

(* Full and Busy are true answers, for any number of threads, blocks and   *)
(* slots, however old the phead of the call.                               *)
THEOREM RefusalsHonest == NoCarry => (Spec => RefusalsAreHonest)
<1> SUFFICES ASSUME NoCarry PROVE Spec => RefusalsAreHonest
  OBVIOUS
<1>1. TypeOK /\ SlotInv /\ RingInv /\ [Next]_vars =>
          [ \A p \in Producers :
                pc[p] = "check_consumed" /\ pc'[p] = "check_reserved" =>
                    \E n \in 0 .. NextTicket(allocated) - (Capacity - BlockSize) - 1 :
                        ~ Tickets!Finished(1, n) ]_vars
  <2> SUFFICES ASSUME TypeOK, SlotInv, RingInv, Next, NEW p \in Producers,
                      pc[p] = "check_consumed", pc'[p] = "check_reserved"
               PROVE  \E n \in 0 .. NextTicket(allocated) - (Capacity - BlockSize) - 1 :
                          ~ Tickets!Finished(1, n)
    OBVIOUS
  <2> DEFINE h == head[p]
  <2>1. /\ p \in Threads /\ h \in Heads /\ h.v \in Nat /\ NextBlock(p) = After(h) /\ After(h) \in Blocks
        /\ allocated \in [Blocks -> Pair] /\ InOrder(allocated) /\ Passed(allocated, h)
    <3>1. p \in Threads /\ h \in Heads /\ allocated \in [Blocks -> Pair]
      BY DEF TypeOK, Threads, Heads
    <3>2. InOrder(allocated) /\ Passed(allocated, h)
      BY DEF RingInv, KeepsOrder, PastAllocated
    <3>3. QED
      BY <3>1, <3>2, AfterLemma DEF NextBlock, After
  <2>2. CheckConsumed(p)
    <3>1. Push(p)
      <4>1. ASSUME NEW u \in Threads, OthersKeep(u) PROVE u = p
        BY <2>1, <4>1 DEF OthersKeep
      <4>2. ASSUME NEW c \in Consumers, Pop(c) PROVE FALSE
        BY <4>1, <4>2, PopChanges DEF Threads
      <4>3. ASSUME NEW q \in Producers, Push(q) PROVE q = p
        BY <4>1, <4>3, PushChanges DEF Threads
      <4>4. QED
        BY <4>2, <4>3 DEF Next
    <3>2. QED
      BY <3>1 DEF Push, StartPush, LoadPhead, LoadAllocated, AddAllocated, ReportFull, ReportBusyPush,
         MaxCommitted, MaxAllocated, MaxPhead, Produce, DropEntryUnproduced, Commit
  <2>3. NextOccupied(p)
    BY <2>1, <2>2 DEF CheckConsumed, Goto, TypeOK
  <2>4. PICK s \in Slots : /\ Ticket(After(h), h.v, s) \in Nat
                           /\ ~ Tickets!Finished(1, Ticket(After(h), h.v, s))
    BY <2>1, <2>3, OccupiedHolds DEF NextOccupied
  <2> DEFINE n == Ticket(After(h), h.v, s)
             m == Ticket(h.i, VersionIn(h.i, h.v), BlockSize - 1)
  <2>5. m \in Int /\ n <= m - (Capacity - BlockSize)
    BY <2>1, NextBlockTickets
  <2>6. m < NextTicket(allocated)
    <3>1. h.i \in Blocks /\ BlockSize - 1 \in Slots /\ VersionIn(h.i, h.v) \in Int
      BY <2>1 DEF Heads, Slots, VersionIn
    <3>2. AtMost(FromParts(VersionIn(h.i, h.v), (BlockSize - 1) + 1), allocated[h.i])
      BY <2>1 DEF Passed
    <3>3. QED
      BY <2>1, <3>1, <3>2, TakenLemma
  <2>7. NextTicket(allocated) \in Int /\ Capacity \in Int
    BY <2>1, OrderHead, NextIsReached DEF Capacity
  <2>8. n \in 0 .. NextTicket(allocated) - (Capacity - BlockSize) - 1
    <3> HIDE DEF m, n
    <3>1. n \in Nat
      BY <2>4 DEF n
    <3>2. QED
      BY <2>5, <2>6, <2>7, <3>1
  <2>9. QED
    BY <2>4, <2>8
<1>2. QED
  BY <1>1, TypeCorrect, SlotInvariant, RingInvariant, PTL DEF Spec, RefusalsAreHonest
-----------------------------------------------------------------------------
(* The block after the one a side of the ring has come to is still in the  *)
(* version before the one it is opened with.                               *)
LEMMA NextUnopened ==
    ASSUME NEW word \in [Blocks -> Pair], NEW h \in Heads, Follows(word, h)
    PROVE  word[After(h)].v = h.v /\ Raise(word, After(h), Opens(h)) # word
<1>1. /\ h.v \in Nat /\ h.i \in Nat /\ After(h) \in Blocks /\ After(h) \in Nat /\ Opens(h) \in Pair
      /\ (h.i + 1 < NumBlocks /\ After(h) = h.i + 1) \/ (h.i + 1 = NumBlocks /\ After(h) = 0)
  BY AfterLemma DEF Blocks
<1>2. word[After(h)].v = h.v
  <2>1. word[After(h)].v = VersionIn(After(h), IF After(h) <= h.i THEN h.v ELSE h.v - 1)
    BY <1>1 DEF Follows
  <2>2. QED
    BY <1>1, <2>1 DEF VersionIn
<1>3. AtMost(Opens(h), Raise(word, After(h), Opens(h))[After(h)])
  BY <1>1, RaisedTo
<1>4. ~ AtMost(Opens(h), word[After(h)])
  BY <1>1, <1>2 DEF AtMost, Opens, FromParts
<1>5. QED
  BY <1>2, <1>3, <1>4

(* Where the consumers' side of the ring ends, for a lone consumer.        *)
ReadUpTo(c) == IF pc[c] = "max_chead" THEN VersionIncAdd(NumBlocks, chead) ELSE chead

(* A producer changes nothing the consumer goes by.                        *)
LEMMA LonePush ==
    ASSUME TypeOK, LoneInv, NEW p \in Producers, Push(p)
    PROVE  LoneInv'
<1>1. p \notin Consumers /\ OthersKeep(p) /\ UNCHANGED <<chead, reserved, consumed>>
  BY PushChanges
<1>2. \A c \in Consumers : pc'[c] = pc[c] /\ head'[c] = head[c] /\ seen'[c] = seen[c]
  BY <1>1 DEF OthersKeep, Threads
<1>3. QED
  BY <1>1, <1>2 DEF LoneInv, Follows, Block

(* The last part of LoneInv after a step: the word a consumer about to     *)
(* reserve has seen is still there.                                        *)
Fresh(c) == pc[c] \in {"load_committed", "load_allocated", "max_reserved"} =>
                reserved[Block(c)] = seen[c]

(* Every step of the consumer itself keeps it.                             *)
LEMMA LonePop ==
    ASSUME OneConsumer, TypeOK, TypeOK', SlotInv, RingInv, LoneInv, NEW c \in Consumers, Pop(c)
    PROVE  LoneInv'
<1> DEFINE h == head[c]
<1>1. /\ c \in Threads /\ pc[c] \in ConsumerSteps /\ h \in Heads /\ chead \in Heads
      /\ reserved \in [Blocks -> Pair] /\ reserved' \in [Blocks -> Pair]
      /\ pc \in [Threads -> ProducerSteps \cup ConsumerSteps]
      /\ head \in [Threads -> Heads] /\ seen \in [Threads -> Pair]
      /\ h.i \in Blocks /\ Block(c) = h.i /\ reserved[h.i] \in Pair
  BY DEF TypeOK, Heads, Threads, Block
<1>2. /\ Follows(reserved, ReadUpTo(c))
      /\ pc[c] \notin {"idle", "load_chead"} => h = chead
      /\ Fresh(c)
  BY DEF LoneInv, ReadUpTo, Fresh
<1>3. SUFFICES /\ Follows(reserved', ReadUpTo(c)')
               /\ pc'[c] \notin {"idle", "load_chead"} => head'[c] = chead'
               /\ Fresh(c)'
  BY DEF OneConsumer, LoneInv, ReadUpTo, Fresh
<1>4. CASE \/ StartPop(c) \/ LoadCommitted(c) \/ CheckAllocated(c) \/ CheckCommitted(c)
           \/ MaxConsumed(c) \/ Consume(c) \/ DropEntryUnconsumed(c)
  <2>1. /\ reserved' = reserved /\ chead' = chead /\ head'[c] = h /\ seen'[c] = seen[c]
        /\ pc[c] # "max_chead" /\ pc'[c] # "max_chead" /\ Block(c)' = Block(c)
        /\ pc'[c] \notin {"idle", "load_chead"} => pc[c] \notin {"idle", "load_chead"}
        /\ pc'[c] \in {"load_committed", "load_allocated", "max_reserved"} =>
               pc[c] \in {"load_committed", "load_allocated", "max_reserved"}
    BY <1>1, <1>4 DEF StartPop, LoadCommitted, CheckAllocated, CheckCommitted, MaxConsumed,
       Consume, DropEntryUnconsumed, Goto, words, cursors, Block
  <2>2. QED
    BY <1>2, <2>1 DEF ReadUpTo, Fresh
<1>5. CASE \/ ReportEmptyBlock(c) \/ ReportBusyPop(c) \/ ReportEmptyRing(c) \/ Release(c)
  <2>1. /\ reserved' = reserved /\ chead' = chead /\ pc[c] # "max_chead" /\ pc'[c] = "idle"
    BY <1>1, <1>5 DEF ReportEmptyBlock, ReportBusyPop, ReportEmptyRing, Release, Return, Leave, Goto,
       words, cursors
  <2>2. QED
    BY <1>2, <2>1 DEF ReadUpTo, Fresh
<1>6. CASE LoadChead(c)
  <2>1. /\ reserved' = reserved /\ chead' = chead /\ head'[c] = chead
        /\ pc[c] = "load_chead" /\ pc'[c] = "load_reserved"
    BY <1>1, <1>6 DEF LoadChead, Goto, words, cursors
  <2>2. QED
    BY <1>2, <2>1 DEF ReadUpTo, Fresh
<1>7. CASE LoadReserved(c)
  <2>1. /\ reserved' = reserved /\ chead' = chead /\ head'[c] = h /\ pc[c] = "load_reserved"
        /\ Block(c)' = h.i
        /\ \/ pc'[c] = "check_committed"
           \/ pc'[c] = "load_committed" /\ seen'[c] = reserved[h.i]
    BY <1>1, <1>7 DEF LoadReserved, Goto, words, cursors, Block
  <2>2. QED
    BY <1>2, <2>1 DEF ReadUpTo, Fresh
<1>8. CASE MaxReserved(c)
  <2>1. /\ chead' = chead /\ head'[c] = h /\ pc[c] = "max_reserved" /\ reserved[h.i] = seen[c]
    BY <1>1, <1>2, <1>8 DEF MaxReserved, Goto, cursors, Fresh
  <2>2. /\ pc'[c] = "consume"
        /\ reserved' = [reserved EXCEPT ![h.i] = FromParts(seen[c].v, seen[c].i + 1)]
    BY <1>1, <1>8, <2>1, MaxReservedCases DEF MaxReserved, Goto
  <2>3. Follows(reserved', chead)
    <3>1. Follows(reserved, chead)
      BY <1>2, <2>1 DEF ReadUpTo
    <3>2. \A b \in Blocks : /\ reserved'[b].v = reserved[b].v
                            /\ BlockDone(reserved[b]) => BlockDone(reserved'[b])
      BY <1>1, <2>1, <2>2 DEF BlockDone, FromParts, Pair
    <3>3. QED
      BY <3>1, <3>2 DEF Follows
  <2>4. QED
    BY <1>2, <2>1, <2>2, <2>3 DEF ReadUpTo, Fresh
<1>9. CASE ResetReserved(c)
  <2>1. /\ chead' = chead /\ head'[c] = h /\ h = chead
        /\ pc[c] = "reset_reserved" /\ pc'[c] = "max_chead"
        /\ reserved' = Raise(reserved, After(h), Opens(h))
    BY <1>1, <1>2, <1>9 DEF ResetReserved, Goto, cursors, Opening, Opens, NextBlock, After
  <2>2. InOrder(reserved) /\ Passed(reserved, h) /\ Follows(reserved, h)
    BY <1>2, <2>1 DEF RingInv, KeepsOrder, PastReserved, ReadUpTo
  <2>3. reserved' # reserved
    BY <1>1, <2>1, <2>2, NextUnopened
  <2>4. Follows(reserved', VersionIncAdd(NumBlocks, h))
    BY <1>1, <2>1, <2>2, <2>3, OpeningKeepsOrder
  <2>5. QED
    BY <2>1, <2>4 DEF ReadUpTo, Fresh
<1>10. CASE MaxChead(c)
  <2>1. /\ reserved' = reserved /\ pc[c] = "max_chead" /\ pc'[c] = "load_chead" /\ h = chead
        /\ chead' = MaxPair(chead, VersionIncAdd(NumBlocks, chead))
    BY <1>1, <1>2, <1>10 DEF MaxChead, Leave, Goto, words
  <2>2. AtMost(chead, VersionIncAdd(NumBlocks, chead))
    BY <1>1, AfterLemma DEF AtMost, FromParts
  <2>3. QED
    BY <1>2, <2>1, <2>2 DEF ReadUpTo, Fresh, MaxPair
<1>11. QED
  BY <1>4, <1>5, <1>6, <1>7, <1>8, <1>9, <1>10 DEF Pop

(* A new ring has been read as far as its chead, block 0.                  *)
LEMMA LoneInit == Init => LoneInv
<1> SUFFICES ASSUME Init PROVE LoneInv
  OBVIOUS
<1>1. Follows(NewWords, Zero)
  <2>1. 0 \in Blocks /\ \A b \in Blocks : b \in Nat
    BY DEF Blocks
  <2>2. QED
    BY <2>1 DEF Follows, NewWords, Zero, FromParts, VersionIn, BlockDone
<1>2. QED
  BY <1>1 DEF Init, LoneInv, Threads

(* A lone consumer reads the ring exactly as far as chead says, for any    *)
(* number of producers, blocks and slots.                                  *)
THEOREM LoneInvariant == NoCarry /\ OneConsumer => (Spec => []LoneInv)
<1> SUFFICES ASSUME NoCarry, OneConsumer PROVE Spec => []LoneInv
  OBVIOUS
<1>1. TypeOK /\ SlotInv /\ RingInv /\ LoneInv /\ [Next]_vars => LoneInv'
  <2> SUFFICES ASSUME TypeOK, SlotInv, RingInv, LoneInv, [Next]_vars PROVE LoneInv'
    OBVIOUS
  <2>1. CASE UNCHANGED vars
    BY <2>1 DEF LoneInv, Follows, Block, vars, words, cursors, locals
  <2>2. CASE Next
    BY <2>2, LonePush, LonePop, TypePop DEF Next
  <2>3. QED
    BY <2>1, <2>2
<1>2. QED
  BY LoneInit, <1>1, RingInvariant, SlotInvariant, TypeCorrect, PTL DEF Spec
-----------------------------------------------------------------------------
(* The first slot of a block that is not committed is being written, if it *)
(* has been handed out at all.                                             *)
LEMMA WriterInTheWay ==
    ASSUME NoCarry, TypeOK, SlotInv, NEW b \in Blocks,
           reserved[b].v = allocated[b].v, committed[b].v = allocated[b].v,
           reserved[b].i = committed[b].i, committed[b].i < Handed(b)
    PROVE  \E p \in Writers(b) : seen[p].v = allocated[b].v /\ seen[p].i = committed[b].i
<1> DEFINE s == committed[b].i
           n == Handed(b)
<1>1. /\ s \in Nat /\ n \in Nat /\ Cardinality(Writers(b)) \in Nat /\ IsFiniteSet(Writers(b))
      /\ \A p \in Writers(b) : seen[p].i \in Nat
      /\ allocated[b].v \in Nat
  <2>1. committed[b] \in Pair /\ allocated[b] \in Pair /\ \A p \in Producers : seen[p] \in Pair
    BY DEF TypeOK, Threads
  <2>2. n \in Nat /\ Cardinality(Writers(b)) \in Nat /\ IsFiniteSet(Writers(b))
    BY BlockFacts, FiniteLemma
  <2>3. QED
    BY <2>1, <2>2 DEF Pair, Writers
<1>2. s + Cardinality(Writers(b)) = n
  <2>1. committed[b] # FromParts(allocated[b].v + 1, 0)
    BY <1>1 DEF FromParts
  <2>2. QED
    BY <2>1 DEF SlotInv, ProducerWords
<1>3. /\ \A p \in Writers(b) : seen[p].v = allocated[b].v /\ seen[p].i \in s .. n - 1
      /\ \A p, q \in Writers(b) : p # q => seen[p].i # seen[q].i
  BY <1>1 DEF SlotInv, WriterOwns, Writers
<1>4. SUFFICES ASSUME \A p \in Writers(b) : seen[p].i # s PROVE FALSE
  BY <1>3
<1> DEFINE f == [p \in Writers(b) |-> seen[p].i]
<1>5. f \in [Writers(b) -> s + 1 .. n - 1]
  BY <1>1, <1>3, <1>4
<1>6. IsFiniteSet(s + 1 .. n - 1) /\ Cardinality(s + 1 .. n - 1) < Cardinality(Writers(b))
  <2> HIDE DEF s, n
  <2>1. IsFiniteSet(s + 1 .. n - 1)
        /\ Cardinality(s + 1 .. n - 1) = IF s + 1 > n - 1 THEN 0 ELSE (n - 1) - (s + 1) + 1
    <3>1. s + 1 \in Int /\ n - 1 \in Int
      BY <1>1
    <3>2. QED
      BY <3>1, FS_Interval
  <2>2. s + Cardinality(Writers(b)) = n /\ s < n
    BY <1>2 DEF s, n
  <2> DEFINE w == Cardinality(Writers(b))
             k == Cardinality(s + 1 .. n - 1)
  <2>3. s \in Nat /\ n \in Nat /\ w \in Nat /\ s + w = n /\ s < n
        /\ k = IF s + 1 > n - 1 THEN 0 ELSE (n - 1) - (s + 1) + 1
    BY <1>1, <2>1, <2>2
  <2>4. k < w
    <3> HIDE DEF w, k
    <3> QED BY <2>3
  <2>5. QED
    BY <2>1, <2>4
<1>7. PICK p, q \in Writers(b) : p # q /\ f[p] = f[q]
  <2> HIDE DEF f
  <2> QED BY <1>1, <1>5, <1>6, FS_PigeonHole
<1>8. QED
  BY <1>3, <1>7

(* The block the consumer is at has nothing for it.                        *)
LEMMA EmptyBlock ==
    ASSUME NoCarry, TypeOK, SlotInv, RingInv, LoneInv, NEW c \in Consumers, ReportEmptyBlock(c)
    PROVE  ~ Tickets!Ready(1, NextTicket(reserved))
<1>1. PICK b \in Blocks : b = Block(c)
  BY NextBlockLemma DEF Threads
<1> DEFINE v == reserved[b].v
           s == reserved[b].i
<1>2. /\ reserved[b] = seen[c] /\ committed[b].i = s /\ s < BlockSize
  BY <1>1 DEF ReportEmptyBlock, LoneInv, SlotInv, ReserverKnows
<1>3. /\ reserved \in [Blocks -> Pair] /\ InOrder(reserved) /\ v \in Nat /\ s \in Nat /\ s \in Slots
      /\ allocated \in [Blocks -> Pair] /\ InOrder(allocated)
      /\ allocated[b].v \in Nat /\ allocated[b].i \in Nat
  <2>1. reserved \in [Blocks -> Pair] /\ allocated \in [Blocks -> Pair]
    BY DEF TypeOK
  <2>2. InOrder(reserved) /\ InOrder(allocated)
    BY DEF RingInv
  <2>3. v \in Nat /\ s \in Nat /\ allocated[b].v \in Nat /\ allocated[b].i \in Nat
    BY <2>1 DEF Pair
  <2>4. s \in Slots
    BY <1>2, <2>3 DEF Slots
  <2>5. QED
    BY <2>1, <2>2, <2>3, <2>4
<1>4. committed[b].v = v /\ allocated[b].v <= v
  BY <1>2, <1>3, BlockFacts, VersionFacts
<1>5. NextTicket(reserved) = Ticket(b, v, s)
  <2>1. ~ BlockDone(reserved[b])
    BY <1>2, <1>3 DEF BlockDone
  <2>2. QED
    BY <1>3, <2>1, CountingNext
<1>6. SUFFICES ASSUME Ticket(b, v, s) < NextTicket(allocated),
                      \A p \in Producers : HeldTicket(p) # Ticket(b, v, s)
               PROVE  FALSE
  BY <1>5, FinishedLemma DEF Tickets!Ready
<1>7. AtMost(FromParts(v, s + 1), allocated[b])
  BY <1>3, <1>6, TakenLemma
<1>8. allocated[b].v = v /\ s + 1 <= allocated[b].i
  BY <1>3, <1>4, <1>7 DEF AtMost, FromParts
<1>9. s < Handed(b)
  BY <1>2, <1>3, <1>8 DEF Handed
<1>10. PICK p \in Writers(b) : seen[p].v = v /\ seen[p].i = s
  BY <1>2, <1>4, <1>8, <1>9, WriterInTheWay
<1>11. p \in Producers /\ HeldTicket(p) = Ticket(b, v, s)
  BY <1>10 DEF Writers, HeldTicket, Holding
<1>12. QED
  BY <1>6, <1>11

(* The block the consumer is at is used up, and the next has nothing.      *)
LEMMA EmptyRing ==
    ASSUME NoCarry, TypeOK, SlotInv, RingInv, LoneInv, NEW c \in Consumers, ReportEmptyRing(c)
    PROVE  ~ Tickets!Ready(1, NextTicket(reserved))
<1> DEFINE h == head[c]
           x == After(h)
           after == Raise(reserved, x, Opens(h))
           g == VersionIncAdd(NumBlocks, h)
<1>1. /\ h \in Heads /\ h.v \in Nat /\ x \in Blocks /\ Opens(h) \in Pair /\ g \in Heads
      /\ g.i = x /\ VersionIn(x, g.v) = h.v + 1
      /\ reserved \in [Blocks -> Pair] /\ InOrder(reserved)
      /\ allocated \in [Blocks -> Pair] /\ InOrder(allocated)
  <2>1. h \in Heads
    BY DEF TypeOK, Threads, Heads
  <2>2. g.i = x /\ VersionIn(x, g.v) = h.v + 1
    BY <2>1, AfterLemma DEF VersionIn, FromParts
  <2>3. QED
    BY <2>1, <2>2, AfterLemma DEF TypeOK, RingInv
<1>2. committed[x].v # h.v + 1
  BY DEF ReportEmptyRing, NextBlock, After
<1>3. Passed(reserved, h) /\ Follows(reserved, h)
  BY DEF ReportEmptyRing, RingInv, KeepsOrder, PastReserved, LoneInv
<1>4. NextTicket(reserved) = Ticket(x, h.v + 1, 0)
  <2>1. reserved[x].v = h.v /\ after # reserved
    BY <1>1, <1>3, NextUnopened
  <2>2. after = [reserved EXCEPT ![x] = Opens(h)] /\ Follows(after, g)
    BY <1>1, <1>3, <2>1, OpeningKeepsOrder
  <2>3. NextTicket(after) = NextTicket(reserved)
    BY <1>1, <1>3, OpeningNext
  <2>4. after \in [Blocks -> Pair] /\ after[x] = Opens(h)
    <3> HIDE DEF after, x
    <3> QED BY <1>1, <2>2
  <2>5. Place(after, x) = 0
    BY <2>4 DEF Place, BlockDone, Opens, FromParts
  <2>6. NextTicket(after) = Ticket(g.i, VersionIn(g.i, g.v), Place(after, g.i))
    <3> HIDE DEF after, g
    <3> QED BY <1>1, <2>2, <2>4, NextIsReached
  <2>7. QED
    BY <1>1, <2>3, <2>5, <2>6
<1>5. SUFFICES ASSUME Ticket(x, h.v + 1, 0) < NextTicket(allocated) PROVE FALSE
  BY <1>4, FinishedLemma DEF Tickets!Ready
<1>6. AtMost(FromParts(h.v + 1, 0 + 1), allocated[x])
  <2>1. 0 \in Slots /\ h.v + 1 \in Int
    BY <1>1 DEF Slots
  <2>2. QED
    BY <1>1, <1>5, <2>1, TakenLemma
<1> HIDE DEF h, x
<1>7. /\ allocated[x].v \in Nat /\ committed[x].v \in Nat /\ consumed[x].v \in Nat
      /\ allocated[x].v <= committed[x].v
  BY <1>1, VersionFacts DEF Pair
<1>8. committed[x].v > h.v + 1
  BY <1>1, <1>2, <1>6, <1>7 DEF AtMost, FromParts
<1>9. reserved[x].v = h.v
  BY <1>1, <1>3, NextUnopened DEF x
<1>10. /\ committed[x].v = consumed[x].v
          \/ (committed[x].v = consumed[x].v + 1 /\ consumed[x].i = BlockSize)
       /\ consumed[x].v = h.v \/ (consumed[x].v = h.v + 1 /\ consumed[x].i = 0)
  <2>1. ProducersLead(x) /\ ConsumerWords(x)
    BY <1>1 DEF SlotInv
  <2>2. consumed[x] = FromParts(h.v + 1, 0) => consumed[x].v = h.v + 1 /\ consumed[x].i = 0
    BY DEF FromParts
  <2>3. QED
    BY <1>9, <2>1, <2>2 DEF ProducersLead, ConsumerWords
<1>11. QED
  BY <1>1, <1>7, <1>8, <1>10

(* Empty is a true answer to a lone consumer, for any number of producers, *)
(* blocks and slots: no finished push was there for it.                    *)
THEOREM EmptyHonest == NoCarry /\ OneConsumer => (Spec => EmptyIsHonest)
<1> SUFFICES ASSUME NoCarry, OneConsumer PROVE Spec => EmptyIsHonest
  OBVIOUS
<1>1. TypeOK /\ SlotInv /\ RingInv /\ LoneInv /\ [Next]_vars =>
          [ \A c \in Consumers :
                ReportEmptyBlock(c) \/ ReportEmptyRing(c) =>
                    ~ Tickets!Ready(1, NextTicket(reserved)) ]_vars
  BY EmptyBlock, EmptyRing
<1>2. QED
  BY <1>1, LoneInvariant, RingInvariant, SlotInvariant, TypeCorrect, PTL DEF Spec, EmptyIsHonest
=============================================================================
