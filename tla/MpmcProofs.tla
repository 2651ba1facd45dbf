----------------------------- MODULE MpmcProofs -----------------------------
(***************************************************************************)
(* The types of Mpmc hold and no shared word retreats, for every number of *)
(* producers, consumers, blocks and slots, and every span of the index bits*)
(* that block_size fits in.  SlotInv is inductive and implies SlotExclusive*)
(* as long as the index bits have room for the overshoot of all producers. *)
(* So are ValueInv and OpenInv, of what is in the slots: callers who use   *)
(* their entries find and leave the values they expect, and the ring can   *)
(* be dropped once they are gone.                                          *)
(***************************************************************************)
EXTENDS MpmcInvariant, MpmcDrop, FieldProofs, FiniteSetTheorems

USE ThreadAssumption, RingAssumption, SpanAssumption

Heads == [v : Nat, i : Blocks]

(* The pair algebra at the sizes of this ring: every operation leads to a  *)
(* pair, and none leads backwards.                                         *)
LEMMA PairFacts ==
    /\ Heads \subseteq Pair /\ Zero \in Heads /\ Zero \in Pair
    /\ \A v \in Nat, i \in Nat : FromParts(v, i) \in Pair
    /\ \A f \in Heads : VersionIncAdd(NumBlocks, f) \in Heads
    /\ \A f \in Heads : AtMost(f, VersionIncAdd(NumBlocks, f))
    /\ \A f \in Pair : Incr(IndexSpan, f) \in Pair /\ AtMost(f, Incr(IndexSpan, f))
    /\ \A f, g \in Pair : MaxPair(f, g) \in Pair /\ AtMost(f, MaxPair(f, g))
    /\ \A f, g \in Heads : MaxPair(f, g) \in Heads
    /\ \A f \in Pair : AtMost(f, f)
<1>1. Heads \subseteq Pair /\ Zero \in Heads /\ Zero \in Pair
  BY DEF Heads, Pair, Zero, FromParts, Blocks
<1>2. \A v \in Nat, i \in Nat : FromParts(v, i) \in Pair
  BY DEF Pair, FromParts
<1>3. \A f \in Heads : VersionIncAdd(NumBlocks, f) \in Heads /\ AtMost(f, VersionIncAdd(NumBlocks, f))
  BY VersionIncAddLemma DEF Heads, Blocks
<1>4. \A f \in Pair : Incr(IndexSpan, f) \in Pair /\ AtMost(f, Incr(IndexSpan, f))
  BY IncrLemma
<1>5. \A f, g \in Pair : /\ MaxPair(f, g) \in Pair /\ AtMost(f, MaxPair(f, g))
                         /\ MaxPair(f, g) \in {f, g}
  BY MaxPairLemma
<1>6. \A f \in Pair : AtMost(f, f)
  BY AtMostIsOrder
<1>7. QED
  BY <1>1, <1>2, <1>3, <1>4, <1>5, <1>6

(* The block after any block is a block of the ring.                       *)
LEMMA NextBlockLemma ==
    ASSUME TypeOK, NEW t \in Threads
    PROVE  Block(t) \in Blocks /\ NextBlock(t) \in Blocks
<1>1. head[t].i \in 0 .. NumBlocks - 1
  BY DEF TypeOK, Blocks
<1>2. (head[t].i + 1) % NumBlocks \in 0 .. NumBlocks - 1
  BY <1>1, WrapLemma
<1>3. QED
  BY <1>1, <1>2 DEF Block, NextBlock, Blocks

(* The pair a thread opens the next block with.                            *)
LEMMA OpeningLemma ==
    ASSUME TypeOK, NEW t \in Threads
    PROVE  Opening(t) \in Pair
  BY DEF TypeOK, Opening, FromParts, Pair

(* What a block's word may become by fetch_max and by fetch_add.           *)
LEMMA RaiseLemma ==
    ASSUME NEW word \in [Blocks -> Pair], NEW block \in Blocks, NEW field \in Pair
    PROVE  /\ Raise(word, block, field) \in [Blocks -> Pair]
           /\ \A b \in Blocks : AtMost(word[b], Raise(word, block, field)[b])
           /\ Count(word, block) \in [Blocks -> Pair]
           /\ \A b \in Blocks : AtMost(word[b], Count(word, block)[b])
  BY PairFacts DEF Raise, Count

(* A call that returns or starts over forgets what it loaded.              *)
LEMMA LeaveLemma ==
    ASSUME TypeOK, NEW t \in Threads, NEW step, Leave(t, step)
    PROVE  /\ head' \in [Threads -> Heads]
           /\ seen' \in [Threads -> Pair]
           /\ mark' \in [Consumers -> Pair]
  BY PairFacts DEF Leave, TypeOK, Heads

(* A step of one thread to another of its own labels.                      *)
LEMMA GotoLemma ==
    ASSUME TypeOK, NEW t \in Threads, NEW step, Goto(t, step),
           t \in Producers => step \in ProducerSteps,
           t \in Consumers => step \in ConsumerSteps
    PROVE  /\ pc' \in [Threads -> ProducerSteps \cup ConsumerSteps]
           /\ \A p \in Producers : pc'[p] \in ProducerSteps
           /\ \A c \in Consumers : pc'[c] \in ConsumerSteps
  BY DEF Goto, TypeOK, Threads
-----------------------------------------------------------------------------
(* A new ring has the types; NewWords are pairs.                           *)
LEMMA TypeInit == Init => TypeOK
<1> SUFFICES ASSUME Init PROVE TypeOK
  OBVIOUS
<1>1. NewWords \in [Blocks -> Pair]
  BY DEF NewWords, Pair, Zero, FromParts
<1>2. "idle" \in ProducerSteps /\ "idle" \in ConsumerSteps
  BY DEF ProducerSteps, ConsumerSteps
<1>3. QED
  BY <1>1, <1>2, PairFacts DEF Init, TypeOK, Heads, Threads

(* A step of a push leaves every variable in its type.                     *)
LEMMA TypePush == ASSUME TypeOK, NEW p \in Producers, Push(p) PROVE TypeOK'
<1> p \in Threads /\ p \notin Consumers
  BY DEF Threads
<1> USE PairFacts, NextBlockLemma, OpeningLemma, RaiseLemma DEF TypeOK, Heads
<1>1. CASE StartPush(p)
  BY <1>1, GotoLemma DEF StartPush, ProducerSteps, vars, cursors, words
<1>2. CASE LoadPhead(p)
  BY <1>2, GotoLemma DEF LoadPhead, ProducerSteps, vars, cursors, words
<1>3. CASE LoadAllocated(p)
  BY <1>3, GotoLemma DEF LoadAllocated, ProducerSteps, vars, cursors, words
<1>4. CASE AddAllocated(p)
  <2>1. allocated' \in [Blocks -> Pair] /\ allocated[Block(p)] \in Pair
    BY <1>4 DEF AddAllocated
  <2>2. seen' \in [Threads -> Pair]
    BY <1>4, <2>1 DEF AddAllocated
  <2>3. PICK step \in {"check_consumed", "produce"} : Goto(p, step)
    BY <1>4 DEF AddAllocated
  <2>4. QED
    BY <1>4, <2>1, <2>2, <2>3, GotoLemma DEF AddAllocated, ProducerSteps, cursors
<1>5. CASE CheckConsumed(p)
  <2>1. consumed[NextBlock(p)] \in Pair
    OBVIOUS
  <2>2. seen' \in [Threads -> Pair]
    BY <1>5, <2>1 DEF CheckConsumed
  <2>3. PICK step \in {"check_reserved", "max_committed"} : Goto(p, step)
    BY <1>5 DEF CheckConsumed
  <2>4. QED
    BY <1>5, <2>2, <2>3, GotoLemma DEF CheckConsumed, ProducerSteps, cursors, words
<1>6. CASE ReportFull(p)
  BY <1>6, GotoLemma, LeaveLemma DEF ReportFull, ProducerSteps, vars, cursors, words, Return, Leave
<1>7. CASE ReportBusyPush(p)
  BY <1>7, GotoLemma, LeaveLemma DEF ReportBusyPush, ProducerSteps, vars, cursors, words, Return, Leave
<1>8. CASE MaxCommitted(p)
  BY <1>8, GotoLemma DEF MaxCommitted, ProducerSteps, vars, cursors, words
<1>9. CASE MaxAllocated(p)
  BY <1>9, GotoLemma DEF MaxAllocated, ProducerSteps, vars, cursors, words
<1>10. CASE MaxPhead(p)
  BY <1>10, GotoLemma, LeaveLemma DEF MaxPhead, ProducerSteps, vars, cursors, words, Return, Leave
<1>11. CASE Produce(p)
  <2>1. seen[p].v \in Nat
    BY DEF Pair
  <2>2. entries' \in [Blocks -> [Slots -> Nat \cup {Absent}]]
    BY <1>11, <2>1 DEF Produce
  <2>3. QED
    BY <1>11, <2>2, GotoLemma DEF Produce, ProducerSteps, cursors, words
<1>12. CASE Commit(p)
  BY <1>12, GotoLemma, LeaveLemma DEF Commit, ProducerSteps, vars, cursors, words, Return, Leave
<1>13. CASE DropEntryUnproduced(p)
  BY <1>13, GotoLemma DEF DropEntryUnproduced, ProducerSteps, vars, cursors, words
<1>14. QED
  BY <1>1, <1>2, <1>3, <1>4, <1>5, <1>6, <1>7, <1>8, <1>9, <1>10, <1>11, <1>12, <1>13 DEF Push

(* A step of a pop leaves every variable in its type.                      *)
LEMMA TypePop == ASSUME TypeOK, NEW c \in Consumers, Pop(c) PROVE TypeOK'
<1> c \in Threads /\ c \notin Producers
  BY DEF Threads
<1> USE PairFacts, NextBlockLemma, OpeningLemma, RaiseLemma DEF TypeOK, Heads
<1>1. CASE StartPop(c)
  BY <1>1, GotoLemma DEF StartPop, ConsumerSteps, vars, cursors, words
<1>2. CASE LoadChead(c)
  BY <1>2, GotoLemma DEF LoadChead, ConsumerSteps, vars, cursors, words
<1>3. CASE LoadReserved(c)
  <2>1. reserved[Block(c)] \in Pair
    OBVIOUS
  <2>2. seen' \in [Threads -> Pair]
    BY <1>3, <2>1 DEF LoadReserved
  <2>3. PICK step \in {"check_committed", "load_committed"} : Goto(c, step)
    BY <1>3 DEF LoadReserved
  <2>4. QED
    BY <1>3, <2>2, <2>3, GotoLemma DEF LoadReserved, ConsumerSteps, cursors, words
<1>4. CASE ReportEmptyBlock(c)
  BY <1>4, GotoLemma, LeaveLemma DEF ReportEmptyBlock, ConsumerSteps, vars, cursors, words, Return, Leave
<1>5. CASE LoadCommitted(c)
  BY <1>5, GotoLemma DEF LoadCommitted, ConsumerSteps, vars, cursors, words
<1>6. CASE ReportBusyPop(c)
  BY <1>6, GotoLemma, LeaveLemma DEF ReportBusyPop, ConsumerSteps, vars, cursors, words, Return, Leave
<1>7. CASE CheckAllocated(c)
  BY <1>7, GotoLemma DEF CheckAllocated, ConsumerSteps, vars, cursors, words
<1>8. CASE MaxReserved(c)
  BY <1>8, GotoLemma DEF MaxReserved, ConsumerSteps, vars, cursors, words
<1>9. CASE ReportEmptyRing(c)
  BY <1>9, GotoLemma, LeaveLemma DEF ReportEmptyRing, ConsumerSteps, vars, cursors, words, Return, Leave
<1>10. CASE CheckCommitted(c)
  BY <1>10, GotoLemma DEF CheckCommitted, ConsumerSteps, vars, cursors, words
<1>11. CASE MaxConsumed(c)
  BY <1>11, GotoLemma DEF MaxConsumed, ConsumerSteps, vars, cursors, words
<1>12. CASE ResetReserved(c)
  BY <1>12, GotoLemma DEF ResetReserved, ConsumerSteps, vars, cursors, words
<1>13. CASE MaxChead(c)
  BY <1>13, GotoLemma, LeaveLemma DEF MaxChead, ConsumerSteps, vars, cursors, words, Return, Leave
<1>14. CASE Consume(c)
  BY <1>14, GotoLemma DEF Consume, ConsumerSteps, vars, cursors, words
<1>15. CASE Release(c)
  BY <1>15, GotoLemma, LeaveLemma DEF Release, ConsumerSteps, vars, cursors, words, Return, Leave
<1>16. CASE DropEntryUnconsumed(c)
  BY <1>16, GotoLemma DEF DropEntryUnconsumed, ConsumerSteps, vars, cursors, words
<1>17. QED
  BY <1>1, <1>2, <1>3, <1>4, <1>5, <1>6, <1>7, <1>8, <1>9, <1>10, <1>11, <1>12, <1>13, <1>14,
     <1>15, <1>16 DEF Pop

(* Every variable keeps its type, whatever the threads do.                 *)
THEOREM TypeCorrect == Spec => []TypeOK
<1>1. TypeOK /\ [Next]_vars => TypeOK'
  <2> SUFFICES ASSUME TypeOK, [Next]_vars PROVE TypeOK'
    OBVIOUS
  <2>1. CASE \E p \in Producers : Push(p)
    BY <2>1, TypePush
  <2>2. CASE \E c \in Consumers : Pop(c)
    BY <2>2, TypePop
  <2>3. CASE UNCHANGED vars
    BY <2>3 DEF vars, cursors, words, locals, TypeOK
  <2>4. QED
    BY <2>1, <2>2, <2>3 DEF Next
<1>2. QED
  BY TypeInit, <1>1, PTL DEF Spec
-----------------------------------------------------------------------------
(* A step leaves each of the shared words alone, or is a fetch_add or a    *)
(* fetch_max on one of them.                                               *)
LEMMA ForwardPush == ASSUME TypeOK, NEW p \in Producers, Push(p) PROVE Forward
<1> p \in Threads
  BY DEF Threads
<1> USE PairFacts, NextBlockLemma, OpeningLemma, RaiseLemma DEF TypeOK, Heads, Forward
<1>1. CASE AddAllocated(p)
  BY <1>1 DEF AddAllocated, cursors
<1>2. CASE MaxCommitted(p)
  BY <1>2 DEF MaxCommitted, cursors
<1>3. CASE MaxAllocated(p)
  BY <1>3 DEF MaxAllocated, cursors
<1>4. CASE MaxPhead(p)
  BY <1>4 DEF MaxPhead, words
<1>5. CASE Commit(p)
  BY <1>5 DEF Commit, cursors
<1>6. CASE UNCHANGED <<cursors, words>>
  BY <1>6 DEF cursors, words
<1>7. QED
  BY <1>1, <1>2, <1>3, <1>4, <1>5, <1>6
     DEF Push, StartPush, LoadPhead, LoadAllocated, CheckConsumed, ReportFull,
         ReportBusyPush, Produce, DropEntryUnproduced

(* The same of a pop.                                                      *)
LEMMA ForwardPop == ASSUME TypeOK, NEW c \in Consumers, Pop(c) PROVE Forward
<1> c \in Threads
  BY DEF Threads
<1> USE PairFacts, NextBlockLemma, OpeningLemma, RaiseLemma DEF TypeOK, Heads, Forward
<1>1. CASE MaxReserved(c)
  <2>1. Block(c) \in Blocks /\ Incr(IndexSpan, seen[c]) \in Pair
    OBVIOUS
  <2>2. QED
    BY <1>1, <2>1 DEF MaxReserved, cursors
<1>2. CASE MaxConsumed(c)
  BY <1>2 DEF MaxConsumed, cursors
<1>3. CASE ResetReserved(c)
  BY <1>3 DEF ResetReserved, cursors
<1>4. CASE MaxChead(c)
  BY <1>4 DEF MaxChead, words
<1>5. CASE Release(c)
  BY <1>5 DEF Release, cursors
<1>6. CASE UNCHANGED <<cursors, words>>
  BY <1>6 DEF cursors, words
<1>7. QED
  BY <1>1, <1>2, <1>3, <1>4, <1>5, <1>6
     DEF Pop, StartPop, LoadChead, LoadReserved, ReportEmptyBlock, LoadCommitted,
         ReportBusyPop, CheckAllocated, ReportEmptyRing, CheckCommitted, Consume,
         DropEntryUnconsumed

(* No shared word of the ring ever moves backwards.                        *)
THEOREM NeverRetreat == Spec => CursorsNeverRetreat
<1>1. TypeOK /\ [Next]_vars => [Forward]_vars
  BY ForwardPush, ForwardPop DEF Next
<1>2. QED
  BY TypeCorrect, <1>1, PTL DEF Spec, CursorsNeverRetreat
-----------------------------------------------------------------------------
Writing(t) == pc[t] \in {"produce", "commit"}
Reading(t) == pc[t] \in {"consume", "release"}

(* A step of one thread leaves what the others loaded alone.               *)
OthersKeep(t) ==
    \A u \in Threads \ {t} : /\ pc'[u] = pc[u] /\ head'[u] = head[u] /\ seen'[u] = seen[u]
                             /\ u \in Consumers => mark'[u] = mark[u]

(* A step that changes no word of a block and no thread's hold on a slot.  *)
Quiet(t) == /\ UNCHANGED words
            /\ OthersKeep(t)
            /\ Writing(t)' <=> Writing(t)
            /\ Reading(t)' <=> Reading(t)
            /\ Writing(t) \/ Reading(t) => head'[t] = head[t] /\ seen'[t] = seen[t]
            /\ pc'[t] # "add_allocated"

-----------------------------------------------------------------------------
(* The sets of threads at a block are finite.                              *)
LEMMA FiniteLemma ==
    ASSUME NoCarry, NEW b
    PROVE  /\ IsFiniteSet(Writers(b)) /\ Cardinality(Writers(b)) \in Nat
           /\ IsFiniteSet(Readers(b)) /\ Cardinality(Readers(b)) \in Nat
           /\ IsFiniteSet(Adders(b)) /\ Cardinality(Adders(b)) \in Nat
           /\ Cardinality(Adders(b)) <= Cardinality(Producers)
           /\ Cardinality(Producers) \in Nat \ {0}
           /\ Cardinality(Writers(b)) = 0 <=> Writers(b) = {}
           /\ Cardinality(Readers(b)) = 0 <=> Readers(b) = {}
<1>1. /\ Writers(b) \in SUBSET Producers /\ Adders(b) \in SUBSET Producers
      /\ Readers(b) \in SUBSET Consumers
  BY DEF Writers, Readers, Adders
<1>2. IsFiniteSet(Producers) /\ IsFiniteSet(Consumers) /\ Producers # {}
  BY DEF NoCarry
<1>3. /\ IsFiniteSet(Writers(b)) /\ IsFiniteSet(Adders(b)) /\ IsFiniteSet(Readers(b))
      /\ Cardinality(Adders(b)) <= Cardinality(Producers)
  BY <1>1, <1>2, FS_Subset
<1>4. /\ Cardinality(Writers(b)) \in Nat /\ Cardinality(Readers(b)) \in Nat
      /\ Cardinality(Adders(b)) \in Nat /\ Cardinality(Producers) \in Nat
  BY <1>2, <1>3, FS_CardinalityType
<1>5. /\ Cardinality(Writers(b)) = 0 <=> Writers(b) = {}
      /\ Cardinality(Readers(b)) = 0 <=> Readers(b) = {}
      /\ Cardinality(Producers) = 0 <=> Producers = {}
  BY <1>2, <1>3, FS_EmptySet
<1>6. QED
  BY <1>2, <1>3, <1>4, <1>5

(* The same sets after a step; NoCarry is about constants.                 *)
LEMMA FiniteLemmaNext ==
    ASSUME NoCarry, NEW b
    PROVE  /\ IsFiniteSet(Writers(b)') /\ Cardinality(Writers(b)') \in Nat
           /\ IsFiniteSet(Readers(b)') /\ Cardinality(Readers(b)') \in Nat
           /\ IsFiniteSet(Adders(b)') /\ Cardinality(Adders(b)') \in Nat
           /\ Cardinality(Adders(b)') <= Cardinality(Producers)
<1>1. /\ Writers(b)' \in SUBSET Producers /\ Adders(b)' \in SUBSET Producers
      /\ Readers(b)' \in SUBSET Consumers
  BY DEF Writers, Readers, Adders
<1>2. IsFiniteSet(Producers) /\ IsFiniteSet(Consumers)
  BY DEF NoCarry
<1>3. /\ IsFiniteSet(Writers(b)') /\ IsFiniteSet(Adders(b)') /\ IsFiniteSet(Readers(b)')
      /\ Cardinality(Adders(b)') <= Cardinality(Producers)
  BY <1>1, <1>2, FS_Subset
<1>4. QED
  BY <1>3, FS_CardinalityType

(* Who is at a block after a step of one thread.                           *)
LEMMA OthersLemma ==
    ASSUME TypeOK, NEW t \in Threads, OthersKeep(t), NEW b
    PROVE  /\ t \in Producers => Readers(b)' = Readers(b)
           /\ t \in Consumers => Writers(b)' = Writers(b) /\ Adders(b)' = Adders(b)
           /\ Writers(b)' \ {t} = Writers(b) \ {t}
           /\ Readers(b)' \ {t} = Readers(b) \ {t}
           /\ Adders(b)' \ {t} = Adders(b) \ {t}
  BY DEF OthersKeep, Writers, Readers, Adders, Threads, Block

(* What the parts of SlotInv say together about a block in arithmetic.     *)
LEMMA BlockFacts ==
    ASSUME NoCarry, TypeOK, SlotInv, NEW b \in Blocks
    PROVE  /\ Handed(b) \in Nat /\ Handed(b) <= BlockSize /\ Handed(b) <= allocated[b].i
           /\ committed[b].i <= Handed(b)
           /\ Writers(b) # {} => /\ committed[b].v = allocated[b].v
                                 /\ committed[b].i < Handed(b)
           /\ reserved[b].i <= BlockSize /\ consumed[b].i <= reserved[b].i
           /\ Readers(b) # {} => /\ consumed[b].v = reserved[b].v
                                 /\ consumed[b].i < reserved[b].i
           /\ consumed[b].i < BlockSize => committed[b].v = consumed[b].v
           /\ reserved[b].i < BlockSize => /\ committed[b].v = reserved[b].v
                                           /\ consumed[b].v = reserved[b].v
                                           /\ reserved[b].i <= committed[b].i
           /\ committed[b].i = BlockSize => Writers(b) = {} /\ committed[b].v = allocated[b].v
<1>1. /\ allocated[b] \in Pair /\ committed[b] \in Pair
      /\ reserved[b] \in Pair /\ consumed[b] \in Pair
  BY DEF TypeOK
<1>2. ProducerWords(b) /\ ConsumerWords(b) /\ ProducersLead(b)
  BY DEF SlotInv
<1>3. /\ Cardinality(Writers(b)) \in Nat /\ Cardinality(Readers(b)) \in Nat
      /\ Cardinality(Writers(b)) = 0 <=> Writers(b) = {}
      /\ Cardinality(Readers(b)) = 0 <=> Readers(b) = {}
  BY FiniteLemma
<1>4. Handed(b) \in Nat /\ Handed(b) <= BlockSize /\ Handed(b) <= allocated[b].i
  BY <1>1 DEF Handed, BlockDone, Pair
<1>5. /\ committed[b].i <= Handed(b)
      /\ Writers(b) # {} => committed[b].v = allocated[b].v /\ committed[b].i < Handed(b)
      /\ committed[b].i = BlockSize => Writers(b) = {} /\ committed[b].v = allocated[b].v
  BY <1>1, <1>2, <1>3, <1>4 DEF ProducerWords, Pair, FromParts
<1>6. /\ reserved[b].i <= BlockSize /\ consumed[b].i <= reserved[b].i
      /\ Readers(b) # {} => consumed[b].v = reserved[b].v /\ consumed[b].i < reserved[b].i
      /\ reserved[b].i < BlockSize => consumed[b].v = reserved[b].v
  BY <1>1, <1>2, <1>3 DEF ConsumerWords, Pair, FromParts
<1>7. QED
  BY <1>1, <1>2, <1>4, <1>5, <1>6 DEF ProducersLead, Pair

(* A slot is one thread's at a time.                                       *)
LEMMA InvExclusive == NoCarry /\ TypeOK /\ SlotInv => SlotExclusive
<1> SUFFICES ASSUME NoCarry, TypeOK, SlotInv,
                    NEW t \in Threads, NEW u \in Threads, t # u, Holding(t), Holding(u),
                    Block(t) = Block(u), seen[t].i = seen[u].i
             PROVE  FALSE
  BY DEF SlotExclusive
<1> DEFINE b == Block(t)
<1>1. b \in Blocks
  BY NextBlockLemma
<1>2. \A p \in Producers, c \in Consumers :
          ~ (Writing(p) /\ Reading(c) /\ Block(p) = b /\ Block(c) = b /\ seen[p].i = seen[c].i)
  <2> SUFFICES ASSUME NEW p \in Producers, NEW c \in Consumers, Writing(p), Reading(c),
                      Block(p) = b, Block(c) = b, seen[p].i = seen[c].i
               PROVE  FALSE
    OBVIOUS
  <2>1. p \in Writers(b) /\ c \in Readers(b)
    BY DEF Writers, Readers, Writing, Reading
  <2>2. /\ committed[b].v = allocated[b].v /\ consumed[b].v = reserved[b].v
        /\ consumed[b].i < reserved[b].i /\ reserved[b].i <= BlockSize
        /\ consumed[b].i < BlockSize => committed[b].v = consumed[b].v
    BY <1>1, <2>1, BlockFacts
  <2>. reserved[b].v = allocated[b].v
    BY <1>1, <2>2 DEF TypeOK, Pair
  <2>3. WriterOwns(p) /\ ReaderOwns(c)
    BY DEF SlotInv
  <2>4. reserved[b].i <= seen[p].i /\ seen[c].i < reserved[b].i
    BY <2>3 DEF WriterOwns, ReaderOwns, Writing, Reading
  <2>5. QED
    BY <1>1, <2>4 DEF TypeOK, Pair, Threads
<1>3. CASE t \in Producers /\ u \in Producers
  <2>1. Writing(t) /\ Writing(u) /\ WriterOwns(t) /\ u \in Writers(b) \ {t}
    BY <1>3 DEF SlotInv, Holding, Writing, Writers, TypeOK, ProducerSteps
  <2>2. QED
    BY <2>1 DEF WriterOwns, Writing
<1>4. CASE t \in Consumers /\ u \in Consumers
  <2>1. Reading(t) /\ Reading(u) /\ ReaderOwns(t) /\ u \in Readers(b) \ {t}
    BY <1>4 DEF SlotInv, Holding, Reading, Readers, TypeOK, ConsumerSteps
  <2>2. QED
    BY <2>1 DEF ReaderOwns, Reading
<1>5. \A v \in Threads : Holding(v) => \/ v \in Producers /\ Writing(v)
                                       \/ v \in Consumers /\ Reading(v)
  BY DEF Threads, TypeOK, Holding, Writing, Reading, ProducerSteps, ConsumerSteps
<1>6. QED
  BY <1>2, <1>3, <1>4, <1>5
-----------------------------------------------------------------------------
(* Frames: what a step of thread t leaves of the invariant.                *)

(* All that SlotInv says of one block alone.                               *)
BlockInv(b) == /\ allocated[b].i + Cardinality(Adders(b)) < BlockSize + Cardinality(Producers)
               /\ ProducerWords(b) /\ ConsumerWords(b) /\ ProducersLead(b)

(* SlotInv is BlockInv of every block and what every thread owns and       *)
(* knows.                                                                  *)
LEMMA SlotInvParts ==
    SlotInv <=> /\ \A b \in Blocks : BlockInv(b)
                /\ \A p \in Producers : WriterOwns(p) /\ OpenerKnows(p)
                /\ \A c \in Consumers : ReaderOwns(c) /\ FollowerKnows(c) /\ ReserverKnows(c)
  BY DEF SlotInv, BlockInv, OvershootBounded

(* A block whose words and threads are as they were.                       *)
LEMMA SameBlock ==
    ASSUME NoCarry, TypeOK, NEW b \in Blocks, BlockInv(b),
           allocated'[b] = allocated[b], committed'[b] = committed[b],
           reserved'[b] = reserved[b], consumed'[b] = consumed[b],
           Writers(b)' = Writers(b), Readers(b)' = Readers(b),
           Adders(b)' \in SUBSET Adders(b)
    PROVE  BlockInv(b)'
<1>1. Cardinality(Adders(b)') <= Cardinality(Adders(b))
  BY FiniteLemma, FS_Subset
<1>2. Handed(b)' = Handed(b)
  BY DEF Handed, BlockDone
<1>3. allocated[b].i \in Nat
  BY DEF TypeOK, Pair
<1>4. allocated'[b].i + Cardinality(Adders(b)') < BlockSize + Cardinality(Producers)
  BY <1>1, <1>3, FiniteLemma, FiniteLemmaNext DEF BlockInv
<1>5. ProducerWords(b)' /\ ConsumerWords(b)'
  BY <1>2 DEF BlockInv, ProducerWords, ConsumerWords, BlockDone
<1>6. ProducersLead(b)'
  BY DEF BlockInv, ProducersLead
<1>7. QED
  BY <1>4, <1>5, <1>6 DEF BlockInv

(* As no shared word moves backwards, what a thread knows from a word's    *)
(* being past a pair stays true.                                           *)
LEMMA OthersKnow ==
    ASSUME TypeOK, TypeOK', SlotInv, NEW t \in Threads, OthersKeep(t), Forward
    PROVE  /\ \A p \in Producers : p # t => OpenerKnows(p)'
           /\ \A c \in Consumers : c # t => FollowerKnows(c)'
<1>1. ASSUME NEW u \in Threads, u # t
      PROVE  /\ pc'[u] = pc[u] /\ head'[u] = head[u] /\ NextBlock(u)' = NextBlock(u)
             /\ Opening(u)' = Opening(u)
             /\ NextBlock(u) \in Blocks /\ Opening(u) \in Pair
             /\ FromParts(head[u].v, BlockSize) \in Pair /\ head[u].v \in Nat
  BY <1>1, NextBlockLemma, OpeningLemma
     DEF OthersKeep, NextBlock, Opening, TypeOK, FromParts, Pair
<1>2. ASSUME NEW b \in Blocks, NEW f \in Pair
      PROVE  /\ AtMost(f, consumed[b]) => AtMost(f, consumed'[b])
             /\ AtMost(f, committed[b]) => AtMost(f, committed'[b])
             /\ committed[b].v \in Nat /\ committed'[b].v \in Nat
             /\ committed[b].v <= committed'[b].v
  <2>1. /\ committed[b] \in Pair /\ committed'[b] \in Pair
        /\ consumed[b] \in Pair /\ consumed'[b] \in Pair
    BY DEF TypeOK
  <2>2. AtMost(committed[b], committed'[b]) /\ AtMost(consumed[b], consumed'[b])
    BY DEF Forward
  <2>3. QED
    BY <2>1, <2>2 DEF AtMost, Pair
<1>3. ASSUME NEW p \in Producers, p # t PROVE OpenerKnows(p)'
  <2>1. OpenerKnows(p) /\ p \in Threads
    BY DEF SlotInv, Threads
  <2>2. QED
    BY <1>1, <1>2, <1>3, <2>1 DEF OpenerKnows
<1>4. ASSUME NEW c \in Consumers, c # t PROVE FollowerKnows(c)'
  <2>1. FollowerKnows(c) /\ c \in Threads
    BY DEF SlotInv, Threads
  <2>2. QED
    BY <1>1, <1>2, <1>4, <2>1 DEF FollowerKnows
<1>5. QED
  BY <1>3, <1>4

(* Slots stay with their owners while allocated and reserved stay and no   *)
(* thread gets a slot.                                                     *)
LEMMA OwnersKept ==
    ASSUME TypeOK, SlotInv, NEW t \in Threads, OthersKeep(t),
           allocated' = allocated, reserved' = reserved,
           Writing(t)' => Writing(t), Reading(t)' => Reading(t),
           Writing(t)' \/ Reading(t)' => head'[t] = head[t] /\ seen'[t] = seen[t]
    PROVE  /\ \A p \in Producers : WriterOwns(p)'
           /\ \A c \in Consumers : ReaderOwns(c)'
<1>1. \A u \in Threads : /\ Writing(u)' => Writing(u)
                         /\ Reading(u)' => Reading(u)
                         /\ Writing(u)' \/ Reading(u)' => head'[u] = head[u] /\ seen'[u] = seen[u]
  BY DEF OthersKeep, Writing, Reading
<1>2. ASSUME NEW b
      PROVE  /\ \A q \in Writers(b)' : q \in Writers(b) /\ seen'[q] = seen[q]
             /\ \A d \in Readers(b)' : d \in Readers(b) /\ seen'[d] = seen[d]
  BY <1>1 DEF Writers, Readers, Writing, Reading, Block, Threads
<1>3. ASSUME NEW p \in Producers PROVE WriterOwns(p)'
  <2>1. WriterOwns(p) /\ p \in Threads
    BY DEF SlotInv, Threads
  <2>2. QED
    BY <1>1, <1>2, <2>1 DEF WriterOwns, Writing, Block, Handed, BlockDone
<1>4. ASSUME NEW c \in Consumers PROVE ReaderOwns(c)'
  <2>1. ReaderOwns(c) /\ c \in Threads
    BY DEF SlotInv, Threads
  <2>2. QED
    BY <1>1, <1>2, <2>1 DEF ReaderOwns, Reading, Block
<1>5. QED
  BY <1>3, <1>4

(* A consumer about to reserve keeps its knowledge while committed goes on *)
(* counting and no slot below it is handed out; and if reserved moves it   *)
(* knows nothing.                                                          *)
LEMMA ReserversKept ==
    ASSUME TypeOK, TypeOK', SlotInv, NEW t \in Threads, OthersKeep(t), Forward,
           \A b \in Blocks : reserved'[b] = reserved[b] /\ reserved[b].i < BlockSize =>
               /\ committed'[b].v = committed[b].v /\ committed[b].i <= committed'[b].i
               /\ t \in Writers(b)' => \/ t \in Writers(b) /\ seen'[t] = seen[t]
                                       \/ committed[b].i <= seen'[t].i
    PROVE  \A c \in Consumers : c # t => ReserverKnows(c)'
<1> SUFFICES ASSUME NEW c \in Consumers, c # t PROVE ReserverKnows(c)'
  OBVIOUS
<1>1. PICK b \in Blocks : b = Block(c)
  BY NextBlockLemma DEF Threads
<1>2. c \in Threads /\ ReserverKnows(c)
  BY DEF SlotInv, Threads
<1>3. /\ pc'[c] = pc[c] /\ Block(c)' = b /\ seen'[c] = seen[c] /\ mark'[c] = mark[c]
      /\ seen[c] \in Pair /\ mark[c] \in Pair
  BY <1>1, <1>2 DEF OthersKeep, Block, TypeOK
<1>4. /\ reserved[b] \in Pair /\ reserved'[b] \in Pair
      /\ committed[b] \in Pair /\ committed'[b] \in Pair
      /\ AtMost(reserved[b], reserved'[b])
  BY DEF TypeOK, Forward
<1>5. AtMost(seen[c], reserved[b]) =>
          /\ AtMost(seen[c], reserved'[b])
          /\ reserved'[b] = seen[c] => reserved'[b] = reserved[b]
  BY <1>3, <1>4, AtMostIsOrder
<1>6. \A p \in Writers(b)' : \/ p \in Writers(b) /\ seen'[p] = seen[p]
                             \/ p = t /\ p \in Threads /\ seen'[p] \in Pair
  BY DEF OthersKeep, Writers, Threads, Block, TypeOK
<1>7. CASE pc[c] \in {"load_committed", "load_allocated", "max_reserved"}
  <2>1. seen[c].i < BlockSize /\ AtMost(seen[c], reserved[b])
    BY <1>1, <1>2, <1>7 DEF ReserverKnows
  <2>2. CASE reserved'[b] = seen[c]
    <3>1. /\ reserved[b] = seen[c] /\ committed'[b].v = committed[b].v
          /\ committed[b].i <= committed'[b].i
          /\ t \in Writers(b)' => \/ t \in Writers(b) /\ seen'[t] = seen[t]
                                  \/ committed[b].i <= seen'[t].i
      BY <1>5, <2>1, <2>2
    <3>2. pc[c] \in {"load_allocated", "max_reserved"} =>
              /\ committed[b].v = seen[c].v
              /\ seen[c].i < mark[c].i /\ mark[c].i <= committed[b].i
      BY <1>1, <1>2, <3>1 DEF ReserverKnows
    <3>3. pc[c] \in {"load_allocated", "max_reserved"} =>
              /\ committed'[b].v = seen[c].v
              /\ seen[c].i < mark[c].i /\ mark[c].i <= committed'[b].i
      BY <1>3, <1>4, <3>1, <3>2 DEF Pair
    <3>4. ASSUME pc[c] = "max_reserved", NEW p \in Writers(b)' PROVE seen'[p].i # seen[c].i
      <4>1. CASE p \in Writers(b) /\ seen'[p] = seen[p]
        BY <1>1, <1>2, <3>1, <3>4, <4>1 DEF ReserverKnows
      <4>2. CASE committed[b].i <= seen'[p].i /\ seen'[p] \in Pair
        BY <1>3, <1>4, <3>2, <3>4, <4>2 DEF Pair
      <4>3. QED
        BY <1>6, <3>1, <3>4, <4>1, <4>2
    <3>5. QED
      BY <1>3, <1>5, <2>1, <3>3, <3>4 DEF ReserverKnows
  <2>3. CASE reserved'[b] # seen[c]
    BY <1>3, <1>5, <2>1, <2>3 DEF ReserverKnows
  <2>4. QED
    BY <2>2, <2>3
<1>8. CASE pc[c] \notin {"load_committed", "load_allocated", "max_reserved"}
  BY <1>3, <1>8 DEF ReserverKnows
<1>9. QED
  BY <1>7, <1>8

(* A step that changes no word of a block and no thread's hold on a slot   *)
(* leaves all but what the thread itself knows.                            *)
LEMMA QuietLemma ==
    ASSUME NoCarry, TypeOK, TypeOK', SlotInv, NEW t \in Threads, Quiet(t), Forward
    PROVE  /\ \A b \in Blocks : BlockInv(b)'
           /\ \A p \in Producers : WriterOwns(p)' /\ (p # t => OpenerKnows(p)')
           /\ \A c \in Consumers : /\ ReaderOwns(c)'
                                   /\ c # t => FollowerKnows(c)' /\ ReserverKnows(c)'
<1>1. /\ allocated' = allocated /\ committed' = committed
      /\ reserved' = reserved /\ consumed' = consumed
      /\ OthersKeep(t)
  BY DEF Quiet, words
<1>2. \A b : Writers(b)' = Writers(b) /\ Readers(b)' = Readers(b)
  BY <1>1, OthersLemma DEF Quiet, Writers, Readers, Writing, Reading, Block
<1>3. \A b : Adders(b)' \in SUBSET Adders(b)
  BY <1>1, OthersLemma DEF Quiet, Adders
<1>4. \A b \in Blocks : BlockInv(b)'
  BY <1>1, <1>2, <1>3, SameBlock, SlotInvParts
<1>5. \A p \in Producers : WriterOwns(p)'
  BY <1>1, OwnersKept DEF Quiet
<1>6. \A c \in Consumers : ReaderOwns(c)'
  BY <1>1, OwnersKept DEF Quiet
<1>7. \A b \in Blocks : committed[b].i \in Nat
  BY DEF TypeOK, Pair
<1>8. \A b : t \in Writers(b)' => t \in Writers(b) /\ seen'[t] = seen[t]
  BY <1>2 DEF Quiet, Writers, Writing
<1>9. \A c \in Consumers : c # t => ReserverKnows(c)'
  BY <1>1, <1>7, <1>8, ReserversKept
<1>10. QED
  BY <1>1, <1>4, <1>5, <1>6, <1>9, OthersKnow

(* The same for the next state, the direction the steps need.              *)
LEMMA SlotInvNext ==
    ASSUME \A b \in Blocks : BlockInv(b)',
           \A p \in Producers : WriterOwns(p)' /\ OpenerKnows(p)',
           \A c \in Consumers : ReaderOwns(c)' /\ FollowerKnows(c)' /\ ReserverKnows(c)'
    PROVE  SlotInv'
  BY DEF SlotInv, BlockInv, OvershootBounded

(* A step of a push that changes no word has only its own opening          *)
(* knowledge left to establish.                                            *)
LEMMA QuietPush ==
    ASSUME NoCarry, TypeOK, SlotInv, NEW p \in Producers, Push(p), Quiet(p), OpenerKnows(p)'
    PROVE  SlotInv'
<1>1. p \in Threads /\ p \notin Consumers /\ TypeOK' /\ Forward
  BY TypePush, ForwardPush DEF Threads
<1>2. QED
  BY <1>1, QuietLemma, SlotInvNext

(* A step of a pop that changes no word has only its own knowledge left to *)
(* establish.                                                              *)
LEMMA QuietPop ==
    ASSUME NoCarry, TypeOK, SlotInv, NEW c \in Consumers, Pop(c), Quiet(c),
           FollowerKnows(c)', ReserverKnows(c)'
    PROVE  SlotInv'
<1>1. c \in Threads /\ c \notin Producers /\ TypeOK' /\ Forward
  BY TypePop, ForwardPop DEF Threads
<1>2. QED
  BY <1>1, QuietLemma, SlotInvNext

(* A next block that a push finds vacant has been emptied, in its version. *)
LEMMA VacantLemma ==
    ASSUME TypeOK, NEW p \in Threads, ~ NextOccupied(p)
    PROVE  AtMost(FromParts(head[p].v, BlockSize), consumed[NextBlock(p)])
<1>1. consumed[NextBlock(p)] \in Pair /\ head[p].v \in Nat
  BY NextBlockLemma DEF TypeOK
<1>2. QED
  BY <1>1 DEF NextOccupied, AtMost, FromParts, Pair

(* The steps of a push that change no word of a block.                     *)
LEMMA QuietPushes ==
    ASSUME NoCarry, TypeOK, SlotInv, NEW p \in Producers,
           \/ StartPush(p) \/ LoadPhead(p) \/ CheckConsumed(p) \/ ReportFull(p)
           \/ ReportBusyPush(p) \/ MaxPhead(p) \/ Produce(p) \/ DropEntryUnproduced(p)
    PROVE  SlotInv'
<1>1. p \in Threads /\ p \notin Consumers /\ Push(p)
  BY DEF Threads, Push
<1> USE <1>1, QuietPush
        DEF Quiet, OthersKeep, Goto, Leave, Return, Writing, Reading, OpenerKnows, TypeOK
<1>2. CASE StartPush(p)
  BY <1>2 DEF StartPush, words
<1>3. CASE LoadPhead(p)
  BY <1>3 DEF LoadPhead, words
<1>4. CASE CheckConsumed(p)
  <2>1. Quiet(p)
    BY <1>4 DEF CheckConsumed, words
  <2>3. ~ NextOccupied(p) => AtMost(FromParts(head[p].v, BlockSize), consumed[NextBlock(p)])
    BY VacantLemma
  <2>4. OpenerKnows(p)'
    BY <1>4, <2>3 DEF CheckConsumed, NextBlock, words
  <2>5. QED
    BY <2>1, <2>4
<1>5. CASE ReportFull(p)
  BY <1>5 DEF ReportFull, words
<1>6. CASE ReportBusyPush(p)
  BY <1>6 DEF ReportBusyPush, words
<1>7. CASE MaxPhead(p)
  BY <1>7 DEF MaxPhead, words
<1>8. CASE Produce(p)
  BY <1>8 DEF Produce, words
<1>9. CASE DropEntryUnproduced(p)
  BY <1>9 DEF DropEntryUnproduced, words
<1>10. QED
  BY <1>2, <1>3, <1>4, <1>5, <1>6, <1>7, <1>8, <1>9

(* The steps of a pop that change no word of a block.                      *)
LEMMA QuietPops ==
    ASSUME NoCarry, TypeOK, SlotInv, NEW c \in Consumers,
           \/ StartPop(c) \/ LoadChead(c) \/ LoadReserved(c) \/ ReportEmptyBlock(c)
           \/ ReportBusyPop(c) \/ ReportEmptyRing(c) \/ CheckCommitted(c)
           \/ MaxChead(c) \/ Consume(c) \/ DropEntryUnconsumed(c)
    PROVE  SlotInv'
<1>1. c \in Threads /\ c \notin Producers /\ Pop(c)
  BY DEF Threads, Pop
<1> USE <1>1, QuietPop
        DEF Quiet, OthersKeep, Goto, Leave, Return, Writing, Reading,
            FollowerKnows, ReserverKnows, TypeOK
<1>2. CASE StartPop(c)
  BY <1>2 DEF StartPop, words
<1>3. CASE LoadChead(c)
  BY <1>3 DEF LoadChead, words
<1>4. CASE LoadReserved(c)
  <2>1. Quiet(c)
    BY <1>4 DEF LoadReserved, words
  <2>2. Block(c) \in Blocks
    BY NextBlockLemma
  <2>3. reserved[Block(c)] \in Pair /\ AtMost(reserved[Block(c)], reserved[Block(c)])
    BY <2>2, PairFacts
  <2>4. FollowerKnows(c)'
    BY <1>4 DEF LoadReserved
  <2>5. ReserverKnows(c)'
    BY <1>4, <2>3 DEF LoadReserved, Block, BlockDone, words, Pair
  <2>6. QED
    BY <2>1, <2>4, <2>5
<1>5. CASE ReportEmptyBlock(c)
  BY <1>5 DEF ReportEmptyBlock, words
<1>6. CASE ReportBusyPop(c)
  BY <1>6 DEF ReportBusyPop, words
<1>7. CASE ReportEmptyRing(c)
  BY <1>7 DEF ReportEmptyRing, words
<1>8. CASE CheckCommitted(c)
  <2>1. Quiet(c)
    BY <1>8 DEF CheckCommitted, words
  <2>2. head[c].v < committed[NextBlock(c)].v
    BY <1>8 DEF CheckCommitted
  <2>3. FollowerKnows(c)' /\ ReserverKnows(c)'
    BY <1>8, <2>2 DEF CheckCommitted, NextBlock, words
  <2>4. QED
    BY <2>1, <2>3
<1>9. CASE MaxChead(c)
  BY <1>9 DEF MaxChead, words
<1>10. CASE Consume(c)
  BY <1>10 DEF Consume, words
<1>11. CASE DropEntryUnconsumed(c)
  BY <1>11 DEF DropEntryUnconsumed, words
<1>12. QED
  BY <1>2, <1>3, <1>4, <1>5, <1>6, <1>7, <1>8, <1>9, <1>10, <1>11

(* The two steps in which a consumer learns that the slot it has seen at   *)
(* reserved is committed: the block is full or nobody writes in it.        *)
LEMMA QuietChecks ==
    ASSUME NoCarry, TypeOK, SlotInv, NEW c \in Consumers, LoadCommitted(c) \/ CheckAllocated(c)
    PROVE  SlotInv'
<1> DEFINE b == Block(c)
<1>1. c \in Threads /\ c \notin Producers /\ b \in Blocks /\ Pop(c)
  BY NextBlockLemma DEF Threads, Pop
<1>2. /\ allocated[b] \in Pair /\ committed[b] \in Pair /\ reserved[b] \in Pair
      /\ seen[c] \in Pair /\ mark[c] \in Pair
  BY <1>1 DEF TypeOK
<1>3. ReserverKnows(c)
  BY DEF SlotInv
<1>4. Quiet(c)
  BY <1>1 DEF Quiet, OthersKeep, Goto, Writing, Reading, TypeOK, LoadCommitted,
              CheckAllocated, words
<1>5. FollowerKnows(c)'
  BY <1>1 DEF FollowerKnows, Goto, TypeOK, LoadCommitted, CheckAllocated
<1>6. CASE LoadCommitted(c)
  <2>1. /\ pc[c] = "load_committed" /\ pc'[c] \in {"max_reserved", "load_allocated"}
        /\ pc'[c] = "max_reserved" => committed[b].i = BlockSize
        /\ committed[b].i # seen[c].i
        /\ mark'[c] = committed[b] /\ seen' = seen /\ head' = head /\ pc' = [pc EXCEPT ![c] = pc'[c]]
        /\ committed' = committed /\ reserved' = reserved
    BY <1>1, <1>6 DEF LoadCommitted, Goto, TypeOK, words
  <2>2. seen[c].i < BlockSize /\ AtMost(seen[c], reserved[b])
    BY <1>3, <2>1 DEF ReserverKnows
  <2>3. reserved[b] = seen[c] => committed[b].v = seen[c].v /\ seen[c].i < committed[b].i
    BY <1>1, <1>2, <2>1, <2>2, BlockFacts DEF Pair
  <2>4. pc'[c] = "max_reserved" => Writers(b) = {}
    BY <1>1, <2>1, BlockFacts
  <2>5. \A x : Writers(x)' = Writers(x)
    BY <1>1, <1>4, OthersLemma DEF Quiet
  <2>6. ReserverKnows(c)'
    BY <1>2, <2>1, <2>2, <2>3, <2>4, <2>5 DEF ReserverKnows, Block, Pair
  <2>7. QED
    BY <1>1, <1>4, <1>5, <2>6, QuietPop
<1>7. CASE CheckAllocated(c)
  <2>1. /\ pc[c] = "load_allocated" /\ pc'[c] = "max_reserved"
        /\ allocated[b].i = mark[c].i
        /\ mark' = mark /\ seen' = seen /\ head' = head
        /\ committed' = committed /\ reserved' = reserved
    BY <1>1, <1>7 DEF CheckAllocated, Goto, TypeOK, words
  <2>2. /\ seen[c].i < BlockSize /\ AtMost(seen[c], reserved[b])
        /\ reserved[b] = seen[c] => /\ committed[b].v = seen[c].v
                                    /\ seen[c].i < mark[c].i /\ mark[c].i <= committed[b].i
    BY <1>3, <2>1 DEF ReserverKnows
  <2>3. reserved[b] = seen[c] => Writers(b) = {}
    BY <1>1, <1>2, <2>1, <2>2, BlockFacts DEF Pair
  <2>4. \A x : Writers(x)' = Writers(x)
    BY <1>1, <1>4, OthersLemma DEF Quiet
  <2>5. ReserverKnows(c)'
    BY <2>1, <2>2, <2>3, <2>4 DEF ReserverKnows, Block
  <2>6. QED
    BY <1>1, <1>4, <1>5, <2>5, QuietPop
<1>8. QED
  BY <1>6, <1>7

-----------------------------------------------------------------------------
(* Sets that agree on all but one element.                                 *)
LEMMA AllButOne ==
    ASSUME NEW A, NEW B, NEW t, A \ {t} = B \ {t}
    PROVE  /\ (t \in A => t \in B) => A \in SUBSET B
           /\ (t \in A <=> t \in B) => A = B
<1>1. \A x : x # t => (x \in A <=> x \in B)
  <2> SUFFICES ASSUME NEW x, x # t PROVE x \in A <=> x \in B
    OBVIOUS
  <2>1. (x \in A <=> x \in A \ {t}) /\ (x \in B <=> x \in B \ {t})
    OBVIOUS
  <2>2. QED
    BY <2>1
<1>2. QED
  BY <1>1

(* A step of a push that changes allocated or committed of one block.      *)
LEMMA StepPush ==
    ASSUME NoCarry, TypeOK, SlotInv, NEW p \in Producers, Push(p), OthersKeep(p),
           NEW b \in Blocks, reserved' = reserved, consumed' = consumed,
           \A x \in Blocks \ {b} :
               /\ allocated'[x] = allocated[x] /\ committed'[x] = committed[x]
               /\ p \in Writers(x) => p \in Writers(x)'
               /\ p \in Writers(x)' => p \in Writers(x) /\ seen'[p] = seen[p]
               /\ p \in Adders(x)' => p \in Adders(x),
           reserved[b].i < BlockSize =>
               /\ committed'[b].v = committed[b].v /\ committed[b].i <= committed'[b].i
               /\ p \in Writers(b)' => \/ p \in Writers(b) /\ seen'[p] = seen[p]
                                       \/ committed[b].i <= seen'[p].i,
           BlockInv(b)', \A q \in Producers : WriterOwns(q)', OpenerKnows(p)'
    PROVE  SlotInv'
<1>1. p \in Threads /\ p \notin Consumers /\ TypeOK' /\ Forward
  BY TypePush, ForwardPush DEF Threads
<1>2. ASSUME NEW x \in Blocks \ {b}
      PROVE  Writers(x)' = Writers(x) /\ Adders(x)' \in SUBSET Adders(x)
  <2>1. Writers(x)' \ {p} = Writers(x) \ {p} /\ Adders(x)' \ {p} = Adders(x) \ {p}
    BY <1>1, OthersLemma
  <2>2. QED
    BY <2>1, AllButOne
<1>3. \A x : Readers(x)' = Readers(x)
  BY <1>1, OthersLemma
<1>4. \A x \in Blocks : BlockInv(x)'
  BY <1>2, <1>3, SameBlock, SlotInvParts
<1>5. ASSUME NEW c \in Consumers PROVE ReaderOwns(c)'
  <2>1. ReaderOwns(c) /\ c \in Threads /\ c # p
    BY <1>1 DEF SlotInv, Threads
  <2>2. \A x : \A d \in Readers(x)' : seen'[d] = seen[d]
    BY <1>1, <1>3 DEF Readers, OthersKeep, Threads
  <2>3. QED
    BY <1>3, <2>1, <2>2 DEF ReaderOwns, OthersKeep, Block
<1>6. \A x \in Blocks : committed[x].i \in Nat
  BY DEF TypeOK, Pair
<1>7. \A c \in Consumers : ReserverKnows(c)'
  BY <1>1, <1>6, ReserversKept
<1>8. QED
  BY <1>1, <1>4, <1>5, <1>7, OthersKnow, SlotInvNext

(* A step of a pop that changes reserved or consumed of one block.         *)
LEMMA StepPop ==
    ASSUME NoCarry, TypeOK, SlotInv, NEW c \in Consumers, Pop(c), OthersKeep(c),
           NEW b \in Blocks, allocated' = allocated, committed' = committed,
           \A x \in Blocks \ {b} :
               /\ reserved'[x] = reserved[x] /\ consumed'[x] = consumed[x]
               /\ c \in Readers(x)' <=> c \in Readers(x),
           BlockInv(b)', \A p \in Producers : WriterOwns(p)',
           \A d \in Consumers : ReaderOwns(d)', FollowerKnows(c)', ReserverKnows(c)'
    PROVE  SlotInv'
<1>1. c \in Threads /\ c \notin Producers /\ TypeOK' /\ Forward
  BY TypePop, ForwardPop DEF Threads
<1>2. ASSUME NEW x \in Blocks \ {b} PROVE Readers(x)' = Readers(x)
  <2>1. Readers(x)' \ {c} = Readers(x) \ {c}
    BY <1>1, OthersLemma
  <2>2. QED
    BY <2>1, AllButOne
<1>3. \A x : Writers(x)' = Writers(x) /\ Adders(x)' = Adders(x)
  BY <1>1, OthersLemma
<1>4. \A x \in Blocks : BlockInv(x)'
  BY <1>2, <1>3, SameBlock, SlotInvParts
<1>5. \A x \in Blocks : committed[x].i \in Nat /\ c \notin Writers(x)'
  BY <1>1 DEF TypeOK, Pair, Writers
<1>6. \A d \in Consumers : d # c => ReserverKnows(d)'
  BY <1>1, <1>5, ReserversKept
<1>7. QED
  BY <1>1, <1>4, <1>6, OthersKnow, SlotInvNext

(* Writers keep their slots while allocated counts on in its version and   *)
(* reserved stays.                                                         *)
LEMMA WritersKept ==
    ASSUME TypeOK, TypeOK', SlotInv, NEW q \in Producers,
           Writing(q)' => Writing(q) /\ head'[q] = head[q],
           \A x : \A u \in Writers(x)' : u \in Writers(x) /\ seen'[u] = seen[u],
           Writing(q) => /\ allocated'[Block(q)].v = allocated[Block(q)].v
                         /\ allocated[Block(q)].i <= allocated'[Block(q)].i,
           reserved' = reserved
    PROVE  WriterOwns(q)'
<1>1. PICK b \in Blocks : b = Block(q)
  BY NextBlockLemma DEF Threads
<1> SUFFICES ASSUME Writing(q)' PROVE WriterOwns(q)'
  BY DEF WriterOwns, Writing
<1>2. WriterOwns(q) /\ Block(q)' = b /\ q \in Writers(b)' /\ q \in Threads
  BY <1>1 DEF SlotInv, Block, Writers, Writing, Threads
<1>3. /\ allocated[b] \in Pair /\ allocated'[b] \in Pair /\ seen[q] \in Pair
  BY <1>2 DEF TypeOK
<1>4. seen[q].i < Handed(b) => seen[q].i < Handed(b)'
  BY <1>1, <1>3 DEF Handed, BlockDone, Pair
<1>5. QED
  BY <1>1, <1>2, <1>4 DEF WriterOwns, Writing
-----------------------------------------------------------------------------
(* A producer that finds room in its block is about to add to allocated;   *)
(* until it has, the block was not full.                                   *)
LEMMA LoadAllocatedStep ==
    ASSUME NoCarry, TypeOK, SlotInv, NEW p \in Producers, LoadAllocated(p)
    PROVE  SlotInv'
<1>1. PICK b \in Blocks : b = Block(p)
  BY NextBlockLemma DEF Threads
<1>2. /\ p \in Threads /\ p \notin Consumers /\ Push(p) /\ TypeOK' /\ Forward
      /\ pc[p] = "load_allocated" /\ UNCHANGED words
      /\ OthersKeep(p) /\ head' = head /\ seen' = seen
      /\ pc'[p] = IF BlockDone(allocated[b]) THEN "check_consumed" ELSE "add_allocated"
  BY <1>1, TypePush, ForwardPush DEF Threads, Push, LoadAllocated, Goto, OthersKeep, words, TypeOK
<1>3. OpenerKnows(p)' /\ ~ Writing(p) /\ ~ Writing(p)' /\ ~ Reading(p) /\ ~ Reading(p)'
  BY <1>2 DEF OpenerKnows, Writing, Reading
<1>4. CASE BlockDone(allocated[b])
  BY <1>2, <1>3, <1>4, QuietPush DEF Quiet
<1>5. CASE ~ BlockDone(allocated[b])
  <2>1. \A x : Writers(x)' = Writers(x) /\ Readers(x)' = Readers(x)
    BY <1>2, <1>3, OthersLemma DEF Writers, Writing
  <2>2. BlockInv(b) /\ Handed(b)' = Handed(b) /\ allocated[b] \in Pair
    BY <1>2, SlotInvParts DEF Handed, BlockDone, words, TypeOK
  <2>3. allocated'[b].i + Cardinality(Adders(b)') < BlockSize + Cardinality(Producers)
    BY <1>2, <1>5, <2>2, FiniteLemma, FiniteLemmaNext DEF BlockDone, Pair, words
  <2>4. BlockInv(b)'
    BY <1>2, <2>1, <2>2, <2>3
       DEF BlockInv, ProducerWords, ConsumerWords, ProducersLead, BlockDone, words
  <2>5. \A q \in Producers : WriterOwns(q)'
    BY <1>2, <1>3, OwnersKept DEF words
  <2>6. \A x : p \notin Writers(x) /\ p \notin Writers(x)'
    BY <1>3 DEF Writers, Writing
  <2>7. \A x : p \in Adders(x)' => x = b
    BY <1>1, <1>2 DEF Adders, Block
  <2>8. committed[b].i \in Nat
    BY DEF TypeOK, Pair
  <2>9. QED
    BY <1>2, <1>3, <2>4, <2>5, <2>6, <2>7, <2>8, StepPush DEF words
<1>6. QED
  BY <1>4, <1>5

(* One thread joins a set of threads.                                      *)
LEMMA OneMore ==
    ASSUME NEW A, NEW B, NEW t, IsFiniteSet(A), B \ {t} = A \ {t}, t \notin A, t \in B
    PROVE  B = A \cup {t} /\ Cardinality(B) = Cardinality(A) + 1
<1>1. (A \cup {t}) \ {t} = A \ {t}
  OBVIOUS
<1>2. B = A \cup {t}
  BY <1>1, AllButOne
<1>3. QED
  BY <1>2, FS_AddElement

(* An add within the overshoot does not carry into the version.            *)
LEMMA AddWithin ==
    ASSUME NoCarry, TypeOK, SlotInv, NEW p \in Producers, pc[p] = "add_allocated",
           NEW b \in Blocks, b = Block(p), OthersKeep(p), pc'[p] # "add_allocated",
           allocated' = Count(allocated, b)
    PROVE  /\ allocated'[b] = FromParts(allocated[b].v, allocated[b].i + 1)
           /\ allocated'[b].i + Cardinality(Adders(b)') < BlockSize + Cardinality(Producers)
<1>1. allocated[b] \in Pair /\ BlockInv(b)
  BY SlotInvParts DEF TypeOK
<1>2. Adders(b)' \ {p} = Adders(b) \ {p} /\ p \in Adders(b) /\ p \notin Adders(b)'
  BY OthersLemma DEF Adders, Threads
<1>3. Cardinality(Adders(b)) = Cardinality(Adders(b)') + 1
  BY <1>2, OneMore, FiniteLemmaNext
<1>4. allocated[b].i + 1 < IndexSpan
  BY <1>1, <1>3, FiniteLemma, FiniteLemmaNext DEF BlockInv, NoCarry, Pair
<1>5. allocated'[b] = FromParts(allocated[b].v, allocated[b].i + 1)
  BY <1>1, <1>4 DEF Count, Incr, TypeOK, FromParts, Pair
<1>6. QED
  BY <1>1, <1>3, <1>5, FiniteLemma, FiniteLemmaNext DEF BlockInv, FromParts, Pair

(* The fetch_add on allocated gives the producer a slot no other thread    *)
(* owns, or overshoots a full block within the room the others leave.      *)
LEMMA AddAllocatedStep ==
    ASSUME NoCarry, TypeOK, SlotInv, NEW p \in Producers, AddAllocated(p)
    PROVE  SlotInv'
<1>1. PICK b \in Blocks : b = Block(p)
  BY NextBlockLemma DEF Threads
<1>2. /\ p \in Threads /\ p \notin Consumers /\ Push(p) /\ TypeOK' /\ Forward
      /\ pc[p] = "add_allocated" /\ OthersKeep(p) /\ head' = head
      /\ allocated' = Count(allocated, b)
      /\ committed' = committed /\ reserved' = reserved /\ consumed' = consumed
      /\ IF BlockDone(allocated[b])
         THEN pc'[p] = "check_consumed" /\ seen' = seen
         ELSE pc'[p] = "produce" /\ seen'[p] = allocated[b]
  BY <1>1, TypePush, ForwardPush DEF Threads, Push, AddAllocated, Goto, OthersKeep, TypeOK
<1>3. /\ allocated'[b] = FromParts(allocated[b].v, allocated[b].i + 1)
      /\ allocated'[b].i + Cardinality(Adders(b)') < BlockSize + Cardinality(Producers)
      /\ \A x \in Blocks \ {b} : allocated'[x] = allocated[x]
  BY <1>1, <1>2, AddWithin DEF Count, TypeOK
<1>4. /\ allocated[b] \in Pair /\ committed[b] \in Pair /\ reserved[b] \in Pair
      /\ BlockInv(b)
  BY SlotInvParts DEF TypeOK
<1>5. OpenerKnows(p)' /\ ~ Writing(p) /\ \A x : p \notin Writers(x)
  BY <1>2 DEF OpenerKnows, Writing, Writers
<1>6. \A x : Readers(x)' = Readers(x)
  BY <1>2, OthersLemma
<1>7. \A x \in Blocks \ {b} : p \notin Writers(x)' /\ p \notin Adders(x)'
  BY <1>1, <1>2 DEF Writers, Adders, Block
<1>8. CASE BlockDone(allocated[b])
  <2>1. \A x : p \notin Writers(x)' /\ Writers(x)' = Writers(x)
    <3> SUFFICES ASSUME NEW x PROVE p \notin Writers(x)' /\ Writers(x)' = Writers(x)
      OBVIOUS
    <3>1. p \notin Writers(x)' /\ p \notin Writers(x)
      BY <1>2, <1>5, <1>8 DEF Writers
    <3>2. Writers(x)' \ {p} = Writers(x) \ {p}
      BY <1>2, OthersLemma
    <3>3. QED
      BY <3>1, <3>2, AllButOne
  <2>2. BlockDone(allocated[b])' /\ Handed(b)' = Handed(b)
    BY <1>3, <1>4, <1>8 DEF BlockDone, Handed, FromParts, Pair
  <2>3. BlockInv(b)'
    BY <1>2, <1>3, <1>4, <1>6, <1>8, <2>1, <2>2
       DEF BlockInv, ProducerWords, ConsumerWords, ProducersLead, FromParts
  <2>4. \A x \in Blocks : /\ allocated'[x].v = allocated[x].v
                          /\ allocated[x].i <= allocated'[x].i
    <3> SUFFICES ASSUME NEW x \in Blocks
                 PROVE  allocated'[x].v = allocated[x].v /\ allocated[x].i <= allocated'[x].i
      OBVIOUS
    <3>1. allocated[x] \in Pair
      BY DEF TypeOK
    <3>2. x = b \/ allocated'[x] = allocated[x]
      BY <1>3
    <3>3. QED
      BY <1>3, <3>1, <3>2 DEF FromParts, Pair
  <2>5. ASSUME NEW q \in Producers PROVE WriterOwns(q)'
    <3>1. Writing(q)' => Writing(q) /\ head'[q] = head[q]
      BY <1>2, <1>8 DEF Writing, OthersKeep, Threads
    <3>2. \A x : \A u \in Writers(x)' : u \in Writers(x) /\ seen'[u] = seen[u]
      BY <1>2, <1>8, <2>1
    <3>3. Block(q) \in Blocks
      BY NextBlockLemma DEF Threads
    <3>4. QED
      BY <1>2, <2>4, <3>1, <3>2, <3>3, WritersKept
  <2>6. QED
    BY <1>2, <1>3, <1>4, <1>5, <1>7, <2>1, <2>3, <2>5, StepPush DEF Pair
<1>9. CASE ~ BlockDone(allocated[b])
  <2>1. Writers(b)' = Writers(b) \cup {p} /\ Cardinality(Writers(b)') = Cardinality(Writers(b)) + 1
    <3>1. p \in Writers(b)' /\ Writers(b)' \ {p} = Writers(b) \ {p}
      BY <1>1, <1>2, <1>9, OthersLemma DEF Writers, Block
    <3>2. QED
      BY <1>5, <3>1, OneMore, FiniteLemma
  <2>2. Handed(b) = allocated[b].i /\ Handed(b)' = allocated[b].i + 1
    BY <1>3, <1>4, <1>9 DEF BlockDone, Handed, FromParts, Pair
  <2>3. /\ committed[b].v = allocated[b].v
        /\ committed[b].i + Cardinality(Writers(b)) = allocated[b].i
    BY <1>4, <1>9, <2>2 DEF BlockInv, ProducerWords
  <2>4. committed[b].i <= allocated[b].i
    BY <1>4, <2>3, FiniteLemma DEF Pair
  <2>5. ProducerWords(b)'
    BY <1>2, <1>3, <1>4, <2>1, <2>2, <2>3, FiniteLemma DEF ProducerWords, FromParts, Pair
  <2>6. BlockInv(b)'
    BY <1>2, <1>3, <1>4, <1>6, <2>5 DEF BlockInv, ConsumerWords, ProducersLead
  <2>7. reserved[b].v = allocated[b].v => reserved[b].i <= allocated[b].i
    BY <1>4, <2>3, <2>4 DEF BlockInv, ProducersLead, Pair
  <2>8. \A q \in Writers(b) : /\ q # p /\ seen'[q] = seen[q] /\ seen[q].i < allocated[b].i
    BY <1>2, <1>5, <2>2 DEF SlotInv, WriterOwns, Writers, OthersKeep, Threads
  <2>9. WriterOwns(p)'
    BY <1>1, <1>2, <1>3, <1>4, <1>9, <2>1, <2>2, <2>7, <2>8
       DEF WriterOwns, Block, FromParts, Pair
  <2>10. ASSUME NEW q \in Producers \ {p} PROVE WriterOwns(q)'
    <3>1. WriterOwns(q) /\ q \in Threads /\ Block(q) \in Blocks /\ Block(q)' = Block(q)
      BY <1>2, NextBlockLemma DEF SlotInv, Threads, OthersKeep, Block
    <3>2. pc'[q] = pc[q] /\ seen'[q] = seen[q] /\ seen[q] \in Pair
      BY <1>2, <3>1 DEF OthersKeep, TypeOK
    <3>3. CASE Block(q) = b
      BY <1>2, <1>3, <1>4, <1>9, <2>1, <2>2, <2>8, <3>1, <3>2, <3>3
         DEF WriterOwns, FromParts, Pair, Writers
    <3>4. CASE Block(q) # b
      <4>1. PICK d \in Blocks : d = Block(q)
        BY <3>1
      <4>2. Writers(d)' \ {p} = Writers(d) \ {p} /\ p \notin Writers(d) /\ p \notin Writers(d)'
        BY <1>2, <1>5, <1>7, <3>4, <4>1, OthersLemma
      <4>3. Writers(d)' = Writers(d)
        BY <4>2, AllButOne
      <4>4. Handed(d)' = Handed(d)
        BY <1>3, <3>4, <4>1 DEF Handed, BlockDone
      <4>5. \A u \in Writers(d) : seen'[u] = seen[u]
        BY <1>2, <1>5 DEF Writers, OthersKeep, Threads
      <4>6. QED
        BY <1>2, <1>3, <3>1, <3>2, <3>4, <4>1, <4>3, <4>4, <4>5 DEF WriterOwns
    <3>5. QED
      BY <3>3, <3>4
  <2>11. QED
    BY <1>2, <1>3, <1>4, <1>5, <1>7, <1>9, <2>4, <2>6, <2>9, <2>10, StepPush DEF Pair
<1>10. QED
  BY <1>8, <1>9

(* fetch_max either leaves the word or stores the pair offered.            *)
LEMMA RaiseCases ==
    ASSUME NEW word \in [Blocks -> Pair], NEW b \in Blocks, NEW f \in Pair
    PROVE  \/ AtMost(f, word[b]) /\ Raise(word, b, f) = word
           \/ ~ AtMost(f, word[b]) /\ Raise(word, b, f) = [word EXCEPT ![b] = f]
<1>1. word[b] \in Pair
  OBVIOUS
<1>2. MaxPair(word[b], f) = IF AtMost(f, word[b]) THEN word[b] ELSE f
  BY <1>1 DEF MaxPair, AtMost, Pair
<1>3. QED
  BY <1>2 DEF Raise

(* The fetch_max on committed has an effect only on a block consumers have *)
(* emptied in the version before, in which nobody writes.                  *)
LEMMA MaxCommittedStep ==
    ASSUME NoCarry, TypeOK, SlotInv, NEW p \in Producers, MaxCommitted(p)
    PROVE  SlotInv'
<1>1. PICK b \in Blocks : b = NextBlock(p)
  BY NextBlockLemma DEF Threads
<1>2. /\ p \in Threads /\ p \notin Consumers /\ Push(p) /\ Opening(p) \in Pair
      /\ pc[p] = "max_committed" /\ pc'[p] = "max_allocated"
      /\ OthersKeep(p) /\ head' = head /\ seen' = seen
      /\ committed' = Raise(committed, b, Opening(p))
      /\ allocated' = allocated /\ reserved' = reserved /\ consumed' = consumed
      /\ committed \in [Blocks -> Pair]
  BY <1>1, OpeningLemma DEF Threads, Push, MaxCommitted, Goto, OthersKeep, TypeOK
<1>3. /\ ~ Writing(p) /\ ~ Writing(p)' /\ ~ Reading(p) /\ ~ Reading(p)'
      /\ \A x : p \notin Writers(x) /\ p \notin Writers(x)' /\ p \notin Adders(x)'
  BY <1>2 DEF Writing, Reading, Writers, Adders
<1>4. /\ allocated[b] \in Pair /\ committed[b] \in Pair
      /\ reserved[b] \in Pair /\ consumed[b] \in Pair
      /\ head[p].v \in Nat /\ BlockInv(b)
  BY <1>2, SlotInvParts DEF TypeOK
<1>5. AtMost(FromParts(head[p].v, BlockSize), consumed[b])
  BY <1>1, <1>2 DEF SlotInv, OpenerKnows
<1>6. OpenerKnows(p)'
  <2>1. committed'[b] = MaxPair(committed[b], Opening(p))
    BY <1>2 DEF Raise
  <2>2. AtMost(Opening(p), committed'[b])
    BY <1>2, <1>4, <2>1, MaxPairLemma
  <2>3. QED
    BY <1>1, <1>2, <1>5, <2>2 DEF OpenerKnows, NextBlock, Opening
<1>7. CASE committed' = committed
  BY <1>2, <1>3, <1>6, <1>7, QuietPush DEF Quiet, words
<1>8. CASE ~ AtMost(Opening(p), committed[b]) /\ committed' = [committed EXCEPT ![b] = Opening(p)]
  <2>1. committed[b].v <= head[p].v
    BY <1>4, <1>8 DEF AtMost, Opening, FromParts, Pair
  <2>2. /\ consumed[b].v = head[p].v /\ consumed[b].i >= BlockSize
        /\ committed[b].v = head[p].v
    BY <1>4, <1>5, <2>1 DEF BlockInv, ProducersLead, AtMost, FromParts, Pair
  <2>3. reserved[b].v = head[p].v /\ reserved[b].i = BlockSize /\ consumed[b].i = BlockSize
    BY <1>4, <2>2, FiniteLemma DEF BlockInv, ConsumerWords, FromParts, Pair
  <2>4. committed[b].i = BlockSize /\ Handed(b) = BlockSize
    BY <1>4, <2>2, <2>3, BlockFacts DEF BlockInv, ProducersLead, Pair
  <2>5. Writers(b) = {} /\ allocated[b].v = head[p].v /\ BlockDone(allocated[b])
    BY <1>4, <2>2, <2>4, BlockFacts DEF Handed, BlockDone, Pair
  <2>6. Writers(b)' = {} /\ Readers(b)' = Readers(b)
    BY <1>2, <1>3, <2>5, OthersLemma DEF Writers
  <2>7. Adders(b)' \in SUBSET Adders(b)
    BY <1>2, <1>3, OthersLemma, AllButOne
  <2>8. Cardinality(Adders(b)') <= Cardinality(Adders(b))
    BY <2>7, FiniteLemma, FS_Subset
  <2>9. committed'[b] = FromParts(head[p].v + 1, 0)
    BY <1>2, <1>8 DEF Opening
  <2>10. BlockInv(b)'
    <3>1. allocated'[b].i + Cardinality(Adders(b)') < BlockSize + Cardinality(Producers)
      BY <1>2, <1>4, <2>8, FiniteLemma, FiniteLemmaNext DEF BlockInv, Pair
    <3>2. ProducerWords(b)'
      BY <1>2, <2>5, <2>6, <2>9 DEF ProducerWords, BlockDone
    <3>3. ConsumerWords(b)'
      BY <1>2, <1>4, <2>6 DEF BlockInv, ConsumerWords
    <3>4. ProducersLead(b)'
      BY <1>2, <1>4, <2>2, <2>3, <2>9 DEF ProducersLead, FromParts, Pair
    <3>5. QED
      BY <3>1, <3>2, <3>3, <3>4 DEF BlockInv
  <2>11. \A q \in Producers : WriterOwns(q)'
    BY <1>2, <1>3, OwnersKept
  <2>12. QED
    BY <1>2, <1>3, <1>6, <1>8, <2>3, <2>10, <2>11, StepPush
<1>9. QED
  BY <1>2, <1>7, <1>8, RaiseCases

(* The fetch_max on allocated has an effect only after the one on          *)
(* committed, while nobody writes in the block.                            *)
LEMMA MaxAllocatedStep ==
    ASSUME NoCarry, TypeOK, SlotInv, NEW p \in Producers, MaxAllocated(p)
    PROVE  SlotInv'
<1>1. PICK b \in Blocks : b = NextBlock(p)
  BY NextBlockLemma DEF Threads
<1>2. /\ p \in Threads /\ p \notin Consumers /\ Push(p) /\ TypeOK' /\ Opening(p) \in Pair
      /\ pc[p] = "max_allocated" /\ pc'[p] = "max_phead"
      /\ OthersKeep(p) /\ head' = head /\ seen' = seen
      /\ allocated' = Raise(allocated, b, Opening(p))
      /\ committed' = committed /\ reserved' = reserved /\ consumed' = consumed
      /\ allocated \in [Blocks -> Pair]
  BY <1>1, OpeningLemma, TypePush DEF Threads, Push, MaxAllocated, Goto, OthersKeep, TypeOK
<1>3. /\ ~ Writing(p) /\ ~ Writing(p)' /\ ~ Reading(p) /\ ~ Reading(p)' /\ OpenerKnows(p)'
      /\ \A x : p \notin Writers(x) /\ p \notin Writers(x)' /\ p \notin Adders(x)'
  BY <1>2 DEF Writing, Reading, Writers, Adders, OpenerKnows
<1>4. /\ allocated[b] \in Pair /\ committed[b] \in Pair
      /\ head[p].v \in Nat /\ BlockInv(b)
  BY <1>2, SlotInvParts DEF TypeOK
<1>5. AtMost(Opening(p), committed[b])
  BY <1>1, <1>2 DEF SlotInv, OpenerKnows
<1>6. CASE allocated' = allocated
  BY <1>2, <1>3, <1>6, QuietPush DEF Quiet, words
<1>7. CASE ~ AtMost(Opening(p), allocated[b]) /\ allocated' = [allocated EXCEPT ![b] = Opening(p)]
  <2>1. allocated[b].v <= head[p].v /\ committed[b].v > head[p].v
    BY <1>4, <1>5, <1>7 DEF AtMost, Opening, FromParts, Pair
  <2>2. committed[b] = FromParts(head[p].v + 1, 0) /\ Writers(b) = {}
    BY <1>4, <2>1 DEF BlockInv, ProducerWords, FromParts, Pair
  <2>3. \A x : Writers(x)' = Writers(x) /\ Readers(x)' = Readers(x)
    BY <1>2, <1>3, OthersLemma DEF Writers
  <2>4. allocated'[b] = FromParts(head[p].v + 1, 0) /\ allocated'[b].i = 0
    BY <1>2, <1>7 DEF Opening, FromParts
  <2>5. BlockInv(b)'
    <3>1. allocated'[b].i + Cardinality(Adders(b)') < BlockSize + Cardinality(Producers)
      BY <2>4, FiniteLemma, FiniteLemmaNext
    <3>2. Cardinality(Writers(b)') = 0
      BY <2>2, <2>3, FiniteLemma
    <3>3. Handed(b)' = 0
      BY <2>4 DEF Handed, BlockDone
    <3>4. ProducerWords(b)'
      BY <1>2, <2>2, <2>4, <3>2, <3>3 DEF ProducerWords, FromParts
    <3>5. ConsumerWords(b)' /\ ProducersLead(b)'
      BY <1>2, <1>4, <2>3 DEF BlockInv, ConsumerWords, ProducersLead
    <3>6. QED
      BY <3>1, <3>4, <3>5 DEF BlockInv
  <2>6. ASSUME NEW q \in Producers PROVE WriterOwns(q)'
    <3>1. Writing(q)' => Writing(q) /\ head'[q] = head[q]
      BY <1>2, <1>3 DEF Writing, OthersKeep, Threads
    <3>2. \A x : \A u \in Writers(x)' : u \in Writers(x) /\ seen'[u] = seen[u]
      BY <1>2, <2>3
    <3>3. Block(q) \in Blocks /\ (Writing(q) => Block(q) # b)
      BY <2>2, NextBlockLemma DEF Threads, Writing, Writers
    <3>4. Writing(q) => /\ allocated'[Block(q)].v = allocated[Block(q)].v
                        /\ allocated[Block(q)].i <= allocated'[Block(q)].i
      BY <1>2, <1>7, <3>3 DEF Pair
    <3>5. QED
      BY <1>2, <3>1, <3>2, <3>4, WritersKept
  <2>7. QED
    BY <1>2, <1>3, <1>4, <1>7, <2>5, <2>6, StepPush DEF Pair
<1>8. QED
  BY <1>2, <1>6, <1>7, RaiseCases

(* A commit moves one slot from those being written to those counted.      *)
LEMMA CommitStep ==
    ASSUME NoCarry, TypeOK, SlotInv, NEW p \in Producers, Commit(p)
    PROVE  SlotInv'
<1>1. PICK b \in Blocks : b = Block(p)
  BY NextBlockLemma DEF Threads
<1>2. /\ p \in Threads /\ p \notin Consumers /\ Push(p)
      /\ pc[p] = "commit" /\ pc'[p] = "idle" /\ OthersKeep(p)
      /\ committed' = Count(committed, b)
      /\ allocated' = allocated /\ reserved' = reserved /\ consumed' = consumed
  BY <1>1 DEF Threads, Push, Commit, Return, Leave, Goto, OthersKeep, TypeOK
<1>3. /\ ~ Writing(p)' /\ ~ Reading(p)' /\ OpenerKnows(p)'
      /\ \A x : p \notin Writers(x)' /\ p \notin Adders(x)'
      /\ p \in Writers(b) /\ \A x \in Blocks \ {b} : p \notin Writers(x)
  BY <1>1, <1>2 DEF Writing, Reading, Writers, Adders, OpenerKnows
<1>4. /\ allocated[b] \in Pair /\ committed[b] \in Pair /\ reserved[b] \in Pair /\ BlockInv(b)
  BY SlotInvParts DEF TypeOK
<1>5. /\ committed[b].v = allocated[b].v /\ committed[b].i < BlockSize
      /\ committed[b].i + Cardinality(Writers(b)) = Handed(b)
  <2>1. Handed(b) \in Nat /\ Handed(b) <= BlockSize /\ committed[b].i < Handed(b)
    BY <1>3, BlockFacts
  <2>2. QED
    BY <1>3, <1>4, <2>1 DEF BlockInv, ProducerWords, Pair
<1>6. Cardinality(Writers(b)) = Cardinality(Writers(b)') + 1
  BY <1>2, <1>3, OthersLemma, OneMore, FiniteLemmaNext
<1>7. /\ committed'[b] = FromParts(committed[b].v, committed[b].i + 1)
      /\ \A x \in Blocks \ {b} : committed'[x] = committed[x]
  <2>1. Incr(IndexSpan, committed[b]) = FromParts(committed[b].v, committed[b].i + 1)
    BY <1>4, <1>5 DEF Incr, FromParts, Pair
  <2>2. QED
    BY <1>2, <2>1 DEF Count, TypeOK
<1>8. BlockInv(b)'
  <2>1. Readers(b)' = Readers(b) /\ Adders(b)' \in SUBSET Adders(b)
    BY <1>2, <1>3, OthersLemma, AllButOne
  <2>2. Cardinality(Adders(b)') <= Cardinality(Adders(b))
    BY <2>1, FiniteLemma, FS_Subset
  <2>3. allocated'[b].i + Cardinality(Adders(b)') < BlockSize + Cardinality(Producers)
    BY <1>2, <1>4, <2>2, FiniteLemma, FiniteLemmaNext DEF BlockInv, Pair
  <2>4. Handed(b)' = Handed(b)
    BY <1>2 DEF Handed, BlockDone
  <2>5. ProducerWords(b)'
    BY <1>2, <1>4, <1>5, <1>6, <1>7, <2>4, FiniteLemmaNext DEF ProducerWords, FromParts, Pair
  <2>6. ConsumerWords(b)'
    BY <1>2, <1>4, <2>1 DEF BlockInv, ConsumerWords
  <2>7. ProducersLead(b)'
    BY <1>2, <1>4, <1>7 DEF BlockInv, ProducersLead, FromParts, Pair
  <2>8. QED
    BY <2>3, <2>5, <2>6, <2>7 DEF BlockInv
<1>9. \A q \in Producers : WriterOwns(q)'
  BY <1>2, <1>3, OwnersKept
<1>10. committed'[b].v = committed[b].v /\ committed[b].i <= committed'[b].i
  BY <1>4, <1>7 DEF FromParts, Pair
<1>11. QED
  BY <1>2, <1>3, <1>7, <1>8, <1>9, <1>10, StepPush

-----------------------------------------------------------------------------
(* The fetch_max on reserved has an effect, and gives the consumer its     *)
(* slot, only if nobody reserved since the load; the slot is then          *)
(* committed.                                                              *)
LEMMA MaxReservedStep ==
    ASSUME NoCarry, TypeOK, SlotInv, NEW c \in Consumers, MaxReserved(c)
    PROVE  SlotInv'
<1>1. PICK b \in Blocks : b = Block(c)
  BY NextBlockLemma DEF Threads
<1>2. /\ c \in Threads /\ c \notin Producers /\ Pop(c)
      /\ pc[c] = "max_reserved" /\ OthersKeep(c) /\ head' = head /\ seen' = seen
      /\ pc'[c] = IF reserved[b] = seen[c] THEN "consume" ELSE "load_reserved"
      /\ reserved' = Raise(reserved, b, Incr(IndexSpan, seen[c]))
      /\ allocated' = allocated /\ committed' = committed /\ consumed' = consumed
  BY <1>1 DEF Threads, Pop, MaxReserved, Goto, OthersKeep, TypeOK
<1>3. FollowerKnows(c)' /\ ReserverKnows(c)' /\ ~ Reading(c) /\ ~ Writing(c) /\ ~ Writing(c)'
  BY <1>2 DEF FollowerKnows, ReserverKnows, Writing, Reading
<1>4. /\ committed[b] \in Pair /\ reserved[b] \in Pair /\ consumed[b] \in Pair
      /\ reserved \in [Blocks -> Pair] /\ seen[c] \in Pair /\ mark[c] \in Pair
      /\ BlockInv(b)
  BY <1>2, SlotInvParts DEF TypeOK
<1>5. /\ seen[c].i < BlockSize /\ AtMost(seen[c], reserved[b])
      /\ reserved[b] = seen[c] =>
             /\ committed[b].v = seen[c].v /\ seen[c].i + 1 <= committed[b].i
             /\ \A p \in Writers(b) : seen[p].i # seen[c].i
  BY <1>1, <1>2, <1>4 DEF SlotInv, ReserverKnows, Pair
<1>6. /\ Incr(IndexSpan, seen[c]) = FromParts(seen[c].v, seen[c].i + 1)
      /\ Incr(IndexSpan, seen[c]) \in Pair
  BY <1>4, <1>5 DEF Incr, FromParts, Pair
<1>7. CASE reserved[b] # seen[c]
  <2>1. AtMost(Incr(IndexSpan, seen[c]), reserved[b])
    BY <1>4, <1>5, <1>6, <1>7 DEF AtMost, FromParts, Pair
  <2>2. reserved' = reserved
    BY <1>2, <1>4, <1>6, <2>1, RaiseCases
  <2>3. ~ Reading(c)' /\ pc'[c] # "add_allocated"
    BY <1>2, <1>7 DEF Reading
  <2>4. QED
    BY <1>2, <1>3, <2>2, <2>3, QuietPop DEF Quiet, words
<1>8. CASE reserved[b] = seen[c]
  <2>1. ~ AtMost(Incr(IndexSpan, seen[c]), reserved[b])
    BY <1>4, <1>6, <1>8 DEF AtMost, FromParts, Pair
  <2>2. /\ reserved'[b] = FromParts(reserved[b].v, reserved[b].i + 1)
        /\ \A x \in Blocks \ {b} : reserved'[x] = reserved[x]
    BY <1>2, <1>4, <1>6, <1>8, <2>1, RaiseCases
  <2>3. pc'[c] = "consume" /\ reserved[b].i < BlockSize
    BY <1>2, <1>5, <1>8
  <2>4. /\ \A x : c \notin Readers(x) /\ c \notin Writers(x) /\ c \notin Writers(x)'
        /\ c \in Readers(b)' /\ \A x \in Blocks \ {b} : c \notin Readers(x)'
    BY <1>1, <1>2, <2>3 DEF Readers, Writers, Block
  <2>5. /\ Readers(b)' = Readers(b) \cup {c}
        /\ Cardinality(Readers(b)') = Cardinality(Readers(b)) + 1
    BY <1>2, <2>4, OthersLemma, OneMore, FiniteLemma
  <2>6. \A x : Writers(x)' = Writers(x) /\ Adders(x)' = Adders(x)
    BY <1>2, OthersLemma
  <2>7. consumed[b].v = reserved[b].v /\ consumed[b].i + Cardinality(Readers(b)) = reserved[b].i
    BY <1>4, <2>3 DEF BlockInv, ConsumerWords
  <2>8. BlockInv(b)'
    <3>1. Handed(b)' = Handed(b)
      BY <1>2 DEF Handed, BlockDone
    <3>2. ProducerWords(b)'
      BY <1>2, <1>4, <2>6, <3>1 DEF BlockInv, ProducerWords, BlockDone
    <3>3. ConsumerWords(b)'
      BY <1>2, <1>4, <2>2, <2>3, <2>5, <2>7, FiniteLemma DEF ConsumerWords, FromParts, Pair
    <3>4. ProducersLead(b)'
      BY <1>2, <1>4, <1>5, <1>8, <2>2 DEF BlockInv, ProducersLead, FromParts, Pair
    <3>5. QED
      BY <1>2, <1>4, <2>6, <3>2, <3>3, <3>4 DEF BlockInv
  <2>9. ASSUME NEW q \in Producers PROVE WriterOwns(q)'
    <3>1. WriterOwns(q) /\ q \in Threads /\ q # c /\ Block(q)' = Block(q) /\ Block(q) \in Blocks
      BY <1>2, NextBlockLemma DEF SlotInv, Threads, Block
    <3>2. pc'[q] = pc[q] /\ seen'[q] = seen[q] /\ seen[q] \in Pair
      BY <1>2, <3>1 DEF OthersKeep, TypeOK
    <3>3. Handed(Block(q))' = Handed(Block(q)) /\ Writers(Block(q))' = Writers(Block(q))
      <4>1. PICK d \in Blocks : d = Block(q)
        BY <3>1
      <4>2. Handed(d)' = Handed(d) /\ Writers(d)' = Writers(d)
        BY <1>2, <2>6 DEF Handed, BlockDone
      <4>3. QED
        BY <3>1, <4>1, <4>2
    <3>4. q \in Writers(b) => seen[q].i # reserved[b].i
      BY <1>5, <1>8
    <3>5. Writing(q) /\ Block(q) = b => q \in Writers(b)
      BY DEF Writing, Writers
    <3>6. CASE Block(q) = b
      BY <1>2, <1>4, <2>2, <3>1, <3>2, <3>3, <3>4, <3>5, <3>6
         DEF WriterOwns, Writing, FromParts, Pair
    <3>7. CASE Block(q) # b
      BY <1>2, <2>2, <3>1, <3>2, <3>3, <3>7 DEF WriterOwns
    <3>8. QED
      BY <3>6, <3>7
  <2>10. \A d \in Readers(b) : d # c /\ seen[d].i < reserved[b].i /\ seen[d] \in Pair
    BY <2>4 DEF SlotInv, ReaderOwns, Readers, Threads, TypeOK
  <2>11. ReaderOwns(c)'
    BY <1>1, <1>2, <1>4, <1>8, <2>2, <2>5, <2>10 DEF ReaderOwns, Block, FromParts, Pair
  <2>12. ASSUME NEW d \in Consumers \ {c} PROVE ReaderOwns(d)'
    <3>1. PICK x \in Blocks : x = Block(d)
      BY NextBlockLemma DEF Threads
    <3>2. ReaderOwns(d) /\ pc'[d] = pc[d] /\ Block(d)' = x /\ seen' = seen /\ seen[d] \in Pair
      BY <1>2, <3>1 DEF SlotInv, OthersKeep, Block, Threads, TypeOK
    <3>3. CASE x = b
      BY <1>4, <1>8, <2>2, <2>5, <2>10, <3>1, <3>2, <3>3
         DEF ReaderOwns, Readers, FromParts, Pair
    <3>4. CASE x # b
      <4>1. Readers(x)' = Readers(x)
        BY <1>2, <2>4, <3>4, OthersLemma, AllButOne
      <4>2. QED
        BY <2>2, <3>1, <3>2, <3>4, <4>1 DEF ReaderOwns
    <3>5. QED
      BY <3>3, <3>4
  <2>13. QED
    BY <1>2, <1>3, <2>2, <2>4, <2>8, <2>9, <2>11, <2>12, StepPop
<1>9. QED
  BY <1>7, <1>8

(* The fetch_max on consumed has an effect only on a block that producers  *)
(* have opened and whose consumers of the version before are gone.         *)
LEMMA MaxConsumedStep ==
    ASSUME NoCarry, TypeOK, SlotInv, NEW c \in Consumers, MaxConsumed(c)
    PROVE  SlotInv'
<1>1. PICK b \in Blocks : b = NextBlock(c)
  BY NextBlockLemma DEF Threads
<1>2. /\ c \in Threads /\ c \notin Producers /\ Pop(c) /\ Opening(c) \in Pair
      /\ pc[c] = "max_consumed" /\ pc'[c] = "reset_reserved"
      /\ OthersKeep(c) /\ head' = head /\ seen' = seen
      /\ consumed' = Raise(consumed, b, Opening(c))
      /\ allocated' = allocated /\ committed' = committed /\ reserved' = reserved
      /\ consumed \in [Blocks -> Pair]
  BY <1>1, OpeningLemma DEF Threads, Pop, MaxConsumed, Goto, OthersKeep, TypeOK
<1>3. /\ ~ Writing(c) /\ ~ Writing(c)' /\ ~ Reading(c) /\ ~ Reading(c)' /\ ReserverKnows(c)'
      /\ \A x : c \notin Readers(x) /\ c \notin Readers(x)'
  BY <1>2 DEF Writing, Reading, Readers, ReserverKnows
<1>4. /\ committed[b] \in Pair /\ reserved[b] \in Pair /\ consumed[b] \in Pair
      /\ head[c].v \in Nat /\ BlockInv(b)
  BY <1>2, SlotInvParts DEF TypeOK
<1>5. head[c].v < committed[b].v
  BY <1>1, <1>2 DEF SlotInv, FollowerKnows
<1>6. FollowerKnows(c)'
  <2>1. consumed'[b] = MaxPair(consumed[b], Opening(c))
    BY <1>2 DEF Raise
  <2>2. AtMost(Opening(c), consumed'[b])
    BY <1>2, <1>4, <2>1, MaxPairLemma
  <2>3. QED
    BY <1>1, <1>2, <1>5, <2>2 DEF FollowerKnows, NextBlock, Opening
<1>7. CASE consumed' = consumed
  BY <1>2, <1>3, <1>6, <1>7, QuietPop DEF Quiet, words
<1>8. CASE ~ AtMost(Opening(c), consumed[b]) /\ consumed' = [consumed EXCEPT ![b] = Opening(c)]
  <2>1. consumed[b].v <= head[c].v
    BY <1>4, <1>8 DEF AtMost, Opening, FromParts, Pair
  <2>2. /\ committed[b].v = consumed[b].v + 1 /\ consumed[b].i = BlockSize
        /\ consumed[b].v = head[c].v
    BY <1>4, <1>5, <2>1 DEF BlockInv, ProducersLead, Pair
  <2>3. reserved[b].v = head[c].v /\ reserved[b].i = BlockSize /\ Readers(b) = {}
    BY <1>4, <2>2, FiniteLemma DEF BlockInv, ConsumerWords, FromParts, Pair
  <2>4. \A x : Readers(x)' = Readers(x) /\ Writers(x)' = Writers(x) /\ Adders(x)' = Adders(x)
    BY <1>2, <1>3, OthersLemma DEF Readers
  <2>5. consumed'[b] = FromParts(head[c].v + 1, 0)
    BY <1>2, <1>8 DEF Opening
  <2>6. BlockInv(b)'
    <3>1. Handed(b)' = Handed(b)
      BY <1>2 DEF Handed, BlockDone
    <3>2. ProducerWords(b)'
      BY <1>2, <1>4, <2>4, <3>1 DEF BlockInv, ProducerWords, BlockDone
    <3>3. ConsumerWords(b)'
      BY <1>2, <2>3, <2>4, <2>5 DEF ConsumerWords
    <3>4. ProducersLead(b)'
      BY <1>2, <1>4, <2>2, <2>3, <2>5 DEF ProducersLead, FromParts, Pair
    <3>5. QED
      BY <1>2, <1>4, <2>4, <3>2, <3>3, <3>4 DEF BlockInv
  <2>7. (\A p \in Producers : WriterOwns(p)') /\ (\A d \in Consumers : ReaderOwns(d)')
    BY <1>2, <1>3, OwnersKept
  <2>8. QED
    BY <1>2, <1>3, <1>6, <1>8, <2>6, <2>7, StepPop
<1>9. QED
  BY <1>2, <1>7, <1>8, RaiseCases

(* The fetch_max on reserved of the next block has an effect only after    *)
(* the one on consumed, while nobody reads in the block.                   *)
LEMMA ResetReservedStep ==
    ASSUME NoCarry, TypeOK, SlotInv, NEW c \in Consumers, ResetReserved(c)
    PROVE  SlotInv'
<1>1. PICK b \in Blocks : b = NextBlock(c)
  BY NextBlockLemma DEF Threads
<1>2. /\ c \in Threads /\ c \notin Producers /\ Pop(c) /\ Opening(c) \in Pair
      /\ pc[c] = "reset_reserved" /\ pc'[c] = "max_chead"
      /\ OthersKeep(c) /\ head' = head /\ seen' = seen
      /\ reserved' = Raise(reserved, b, Opening(c))
      /\ allocated' = allocated /\ committed' = committed /\ consumed' = consumed
      /\ reserved \in [Blocks -> Pair]
  BY <1>1, OpeningLemma DEF Threads, Pop, ResetReserved, Goto, OthersKeep, TypeOK
<1>3. /\ ~ Writing(c) /\ ~ Writing(c)' /\ ~ Reading(c) /\ ~ Reading(c)'
      /\ FollowerKnows(c)' /\ ReserverKnows(c)'
      /\ \A x : c \notin Readers(x) /\ c \notin Readers(x)'
  BY <1>2 DEF Writing, Reading, Readers, FollowerKnows, ReserverKnows
<1>4. /\ committed[b] \in Pair /\ reserved[b] \in Pair /\ consumed[b] \in Pair
      /\ head[c].v \in Nat /\ BlockInv(b)
  BY <1>2, SlotInvParts DEF TypeOK
<1>5. AtMost(Opening(c), consumed[b])
  BY <1>1, <1>2 DEF SlotInv, FollowerKnows
<1>6. CASE reserved' = reserved
  BY <1>2, <1>3, <1>6, QuietPop DEF Quiet, words
<1>7. CASE ~ AtMost(Opening(c), reserved[b]) /\ reserved' = [reserved EXCEPT ![b] = Opening(c)]
  <2>1. reserved[b].v <= head[c].v /\ consumed[b].v > head[c].v
    BY <1>4, <1>5, <1>7 DEF AtMost, Opening, FromParts, Pair
  <2>2. consumed[b] = FromParts(head[c].v + 1, 0) /\ Readers(b) = {}
    BY <1>4, <2>1 DEF BlockInv, ConsumerWords, FromParts, Pair
  <2>3. \A x : Readers(x)' = Readers(x) /\ Writers(x)' = Writers(x) /\ Adders(x)' = Adders(x)
    BY <1>2, <1>3, OthersLemma DEF Readers
  <2>4. reserved'[b] = FromParts(head[c].v + 1, 0)
    BY <1>2, <1>7 DEF Opening
  <2>5. BlockInv(b)'
    <3>1. Handed(b)' = Handed(b)
      BY <1>2 DEF Handed, BlockDone
    <3>2. ProducerWords(b)'
      BY <1>2, <1>4, <2>3, <3>1 DEF BlockInv, ProducerWords, BlockDone
    <3>3. Cardinality(Readers(b)') = 0
      BY <2>2, <2>3, FiniteLemma
    <3>4. ConsumerWords(b)'
      BY <1>2, <2>2, <2>4, <3>3 DEF ConsumerWords, FromParts
    <3>5. ProducersLead(b)'
      BY <1>2, <1>4, <2>4 DEF BlockInv, ProducersLead, FromParts, Pair
    <3>6. QED
      BY <1>2, <1>4, <2>3, <3>2, <3>4, <3>5 DEF BlockInv
  <2>6. ASSUME NEW q \in Producers PROVE WriterOwns(q)'
    <3>1. PICK x \in Blocks : x = Block(q)
      BY NextBlockLemma DEF Threads
    <3>2. WriterOwns(q) /\ pc'[q] = pc[q] /\ Block(q)' = x /\ seen' = seen /\ seen[q].i \in Nat
      BY <1>2, <3>1 DEF SlotInv, OthersKeep, Block, Threads, TypeOK, Pair
    <3>3. Handed(x)' = Handed(x) /\ Writers(x)' = Writers(x)
      BY <1>2, <2>3 DEF Handed, BlockDone
    <3>4. reserved'[x] = reserved[x] \/ reserved'[x].i = 0
      BY <1>2, <1>7, <2>4 DEF FromParts
    <3>5. QED
      BY <1>2, <3>1, <3>2, <3>3, <3>4 DEF WriterOwns
  <2>7. ASSUME NEW d \in Consumers PROVE ReaderOwns(d)'
    <3>1. PICK x \in Blocks : x = Block(d)
      BY NextBlockLemma DEF Threads
    <3>2. SUFFICES ASSUME Reading(d)' PROVE ReaderOwns(d)'
      BY DEF ReaderOwns, Reading
    <3>3. d # c /\ pc'[d] = pc[d] /\ Block(d)' = x /\ seen' = seen /\ d \in Readers(x)
      BY <1>2, <1>3, <3>1, <3>2 DEF OthersKeep, Block, Threads, Reading, Readers
    <3>4. x # b /\ ReaderOwns(d)
      BY <2>2, <3>3 DEF SlotInv
    <3>5. QED
      BY <1>7, <2>3, <3>1, <3>3, <3>4 DEF ReaderOwns
  <2>8. QED
    BY <1>2, <1>3, <1>7, <2>5, <2>6, <2>7, StepPop
<1>8. QED
  BY <1>2, <1>6, <1>7, RaiseCases

(* A release moves one slot from those being read to those counted.        *)
LEMMA ReleaseStep ==
    ASSUME NoCarry, TypeOK, SlotInv, NEW c \in Consumers, Release(c)
    PROVE  SlotInv'
<1>1. PICK b \in Blocks : b = Block(c)
  BY NextBlockLemma DEF Threads
<1>2. /\ c \in Threads /\ c \notin Producers /\ Pop(c)
      /\ pc[c] = "release" /\ pc'[c] = "idle" /\ OthersKeep(c)
      /\ consumed' = Count(consumed, b)
      /\ allocated' = allocated /\ committed' = committed /\ reserved' = reserved
  BY <1>1 DEF Threads, Pop, Release, Return, Leave, Goto, OthersKeep, TypeOK
<1>3. /\ ~ Writing(c)' /\ ~ Reading(c)' /\ FollowerKnows(c)' /\ ReserverKnows(c)'
      /\ \A x : c \notin Readers(x)'
      /\ c \in Readers(b) /\ \A x \in Blocks \ {b} : c \notin Readers(x)
  BY <1>1, <1>2 DEF Writing, Reading, Readers, FollowerKnows, ReserverKnows
<1>4. /\ committed[b] \in Pair /\ reserved[b] \in Pair /\ consumed[b] \in Pair /\ BlockInv(b)
  BY SlotInvParts DEF TypeOK
<1>5. /\ consumed[b].v = reserved[b].v /\ consumed[b].i < BlockSize
      /\ reserved[b].i <= BlockSize
      /\ consumed[b].i + Cardinality(Readers(b)) = reserved[b].i
  <2>1. reserved[b].i <= BlockSize /\ consumed[b].i < reserved[b].i
    BY <1>3, BlockFacts
  <2>2. QED
    BY <1>3, <1>4, <2>1 DEF BlockInv, ConsumerWords, Pair
<1>6. Cardinality(Readers(b)) = Cardinality(Readers(b)') + 1
  BY <1>2, <1>3, OthersLemma, OneMore, FiniteLemmaNext
<1>7. /\ consumed'[b] = FromParts(consumed[b].v, consumed[b].i + 1)
      /\ \A x \in Blocks \ {b} : consumed'[x] = consumed[x]
  <2>1. Incr(IndexSpan, consumed[b]) = FromParts(consumed[b].v, consumed[b].i + 1)
    BY <1>4, <1>5 DEF Incr, FromParts, Pair
  <2>2. QED
    BY <1>2, <2>1 DEF Count, TypeOK
<1>8. BlockInv(b)'
  <2>1. Writers(b)' = Writers(b) /\ Adders(b)' = Adders(b) /\ Handed(b)' = Handed(b)
    BY <1>2, OthersLemma DEF Handed, BlockDone
  <2>2. ProducerWords(b)'
    BY <1>2, <1>4, <2>1 DEF BlockInv, ProducerWords, BlockDone
  <2>3. ConsumerWords(b)'
    BY <1>2, <1>4, <1>5, <1>6, <1>7, FiniteLemmaNext DEF ConsumerWords, FromParts, Pair
  <2>4. ProducersLead(b)'
    BY <1>2, <1>4, <1>5, <1>7 DEF BlockInv, ProducersLead, FromParts, Pair
  <2>5. QED
    BY <1>2, <1>4, <2>1, <2>2, <2>3, <2>4 DEF BlockInv
<1>9. (\A p \in Producers : WriterOwns(p)') /\ (\A d \in Consumers : ReaderOwns(d)')
  BY <1>2, <1>3, OwnersKept
<1>10. QED
  BY <1>2, <1>3, <1>7, <1>8, <1>9, StepPop
-----------------------------------------------------------------------------
(* A new ring satisfies SlotInv: Block::new and Block::new_full set the    *)
(* four words of a block to the same pair, and no thread has a slot.       *)
LEMMA SlotInit == NoCarry /\ Init => SlotInv
<1> SUFFICES ASSUME NoCarry, Init PROVE SlotInv
  OBVIOUS
<1>1. TypeOK
  BY TypeInit
<1>2. \A t \in Threads : pc[t] = "idle"
  BY DEF Init
<1>3. \A b : Writers(b) = {} /\ Readers(b) = {} /\ Adders(b) = {}
  BY <1>2 DEF Writers, Readers, Adders, Threads
<1>4. \A b : /\ Cardinality(Writers(b)) = 0 /\ Cardinality(Readers(b)) = 0
             /\ Cardinality(Adders(b)) = 0
  BY <1>3, FS_EmptySet
<1>5. ASSUME NEW b \in Blocks PROVE BlockInv(b)
  <2>1. /\ allocated[b] = committed[b] /\ reserved[b] = committed[b]
        /\ consumed[b] = committed[b]
        /\ committed[b].v = 0 /\ committed[b].i \in {0, BlockSize}
    BY DEF Init, NewWords, Zero, FromParts
  <2>2. Handed(b) = committed[b].i
    BY <2>1 DEF Handed, BlockDone
  <2>3. QED
    BY <1>4, <2>1, <2>2, FiniteLemma
       DEF BlockInv, ProducerWords, ConsumerWords, ProducersLead
<1>6. \A p \in Producers : WriterOwns(p) /\ OpenerKnows(p)
  BY <1>2 DEF WriterOwns, OpenerKnows, Threads
<1>7. \A c \in Consumers : ReaderOwns(c) /\ FollowerKnows(c) /\ ReserverKnows(c)
  BY <1>2 DEF ReaderOwns, FollowerKnows, ReserverKnows, Threads
<1>8. QED
  BY <1>5, <1>6, <1>7, SlotInvParts

(* SlotInv is about the variables of Mpmc alone.                           *)
LEMMA SlotStutter ==
    ASSUME SlotInv, UNCHANGED vars PROVE SlotInv'
<1>1. \A b : Writers(b)' = Writers(b) /\ Readers(b)' = Readers(b) /\ Adders(b)' = Adders(b)
  BY DEF vars, locals, Writers, Readers, Adders, Block
<1>2. \A b \in Blocks : BlockInv(b)'
  BY <1>1, SlotInvParts
     DEF vars, words, BlockInv, ProducerWords, ConsumerWords, ProducersLead, Handed, BlockDone
<1>3. \A p \in Producers : WriterOwns(p)' /\ OpenerKnows(p)'
  BY DEF SlotInv, vars, words, locals, WriterOwns, OpenerKnows, Writers, Handed, BlockDone,
         Block, NextBlock, Opening
<1>4. \A c \in Consumers : ReaderOwns(c)' /\ FollowerKnows(c)' /\ ReserverKnows(c)'
  BY DEF SlotInv, vars, words, locals, ReaderOwns, FollowerKnows, ReserverKnows, Readers,
         Writers, Block, NextBlock, Opening
<1>5. QED
  BY <1>2, <1>3, <1>4, SlotInvNext

(* What the four words of a block say about the slots the threads hold is  *)
(* true in every reachable state.                                          *)
THEOREM SlotInvariant == NoCarry => (Spec => []SlotInv)
<1> SUFFICES ASSUME NoCarry PROVE Spec => []SlotInv
  OBVIOUS
<1>1. Init => SlotInv
  BY SlotInit
<1>2. TypeOK /\ SlotInv /\ [Next]_vars => SlotInv'
  <2> SUFFICES ASSUME TypeOK, SlotInv, [Next]_vars PROVE SlotInv'
    OBVIOUS
  <2>1. ASSUME NEW p \in Producers, Push(p) PROVE SlotInv'
    BY <2>1, QuietPushes, LoadAllocatedStep, AddAllocatedStep, MaxCommittedStep,
       MaxAllocatedStep, CommitStep DEF Push
  <2>2. ASSUME NEW c \in Consumers, Pop(c) PROVE SlotInv'
    BY <2>2, QuietPops, QuietChecks, MaxReservedStep, MaxConsumedStep,
       ResetReservedStep, ReleaseStep DEF Pop
  <2>3. QED
    BY <2>1, <2>2, SlotStutter DEF Next
<1>3. QED
  BY <1>1, <1>2, TypeCorrect, PTL DEF Spec

(* Two entries alive at the same time never stand for the same slot, for   *)
(* any number of producers that the index bits have room for.              *)
THEOREM SlotsExclusive == NoCarry => (Spec => []SlotExclusive)
<1> SUFFICES ASSUME NoCarry PROVE Spec => []SlotExclusive
  OBVIOUS
<1>1. TypeOK /\ SlotInv => SlotExclusive
  BY InvExclusive
<1>2. QED
  BY <1>1, SlotInvariant, TypeCorrect, PTL
-----------------------------------------------------------------------------
(* What ValueInv says of one block.                                        *)
BlockValues(b) ==
    \A s \in Slots :
        entries[b][s] = IF Full(b, s) THEN allocated[b].v
                        ELSE IF s \in Unread(b) THEN reserved[b].v ELSE Absent

(* A step that neither hands out a slot nor touches one.                   *)
Untouched(t) == /\ allocated' = allocated /\ reserved' = reserved /\ entries' = entries
                /\ OthersKeep(t)
                /\ pc[t] \notin {"produce", "consume"}
                /\ pc'[t] \notin {"produce", "consume"}

(* How far the versions of a block's words can be apart.                   *)
LEMMA VersionFacts ==
    ASSUME NoCarry, TypeOK, SlotInv, NEW b \in Blocks
    PROVE  /\ allocated[b] \in Pair /\ committed[b] \in Pair
           /\ reserved[b] \in Pair /\ consumed[b] \in Pair
           /\ allocated[b].v <= committed[b].v /\ reserved[b].v <= consumed[b].v
           /\ consumed[b].v <= committed[b].v
           /\ committed[b].i > 0 => allocated[b].v = committed[b].v
           /\ consumed[b].v < committed[b].v => reserved[b].i = BlockSize
           /\ reserved[b].v < consumed[b].v => reserved[b].i = BlockSize /\ Readers(b) = {}
           /\ reserved[b].v = committed[b].v => reserved[b].i <= committed[b].i
<1>1. /\ allocated[b] \in Pair /\ committed[b] \in Pair
      /\ reserved[b] \in Pair /\ consumed[b] \in Pair
  BY DEF TypeOK
<1>2. ProducerWords(b) /\ ConsumerWords(b) /\ ProducersLead(b)
  BY DEF SlotInv
<1>3. Cardinality(Readers(b)) \in Nat
  BY FiniteLemma
<1>4. QED
  BY <1>1, <1>2, <1>3 DEF ProducerWords, ConsumerWords, ProducersLead, FromParts, Pair

(* Which slots are being written and read is up to the threads with an     *)
(* entry in hand.                                                          *)
LEMMA UsersLemma ==
    ASSUME TypeOK, NEW t \in Threads, OthersKeep(t), NEW b, NEW s
    PROVE  /\ (t \in Producers => pc[t] # "produce" /\ pc'[t] # "produce") =>
                  (s \in Unwritten(b)' <=> s \in Unwritten(b))
           /\ (t \in Consumers => pc[t] # "consume" /\ pc'[t] # "consume") =>
                  (s \in Unread(b)' <=> s \in Unread(b))
  BY DEF OthersKeep, Unwritten, Unread, Threads, Block

(* A block whose slots, and the words that hand them out, are as they were.*)
LEMMA SameValues ==
    ASSUME NEW b \in Blocks, BlockValues(b), entries'[b] = entries[b],
           allocated'[b] = allocated[b], reserved'[b] = reserved[b],
           \A s \in Slots : /\ s \in Unwritten(b)' <=> s \in Unwritten(b)
                            /\ s \in Unread(b)' <=> s \in Unread(b)
    PROVE  BlockValues(b)'
<1>1. Handed(b)' = Handed(b)
  BY DEF Handed, BlockDone
<1>2. ASSUME NEW s \in Slots PROVE Full(b, s)' <=> Full(b, s)
  BY <1>1 DEF Full
<1>3. QED
  BY <1>2 DEF BlockValues

(* Steps that leave the slots alone leave ValueInv.                        *)
LEMMA UntouchedLemma ==
    ASSUME TypeOK, ValueInv, NEW t \in Threads, Untouched(t)
    PROVE  ValueInv'
<1> SUFFICES ASSUME NEW b \in Blocks PROVE BlockValues(b)'
  BY DEF ValueInv, BlockValues
<1>1. \A s \in Slots : /\ s \in Unwritten(b)' <=> s \in Unwritten(b)
                       /\ s \in Unread(b)' <=> s \in Unread(b)
  BY UsersLemma DEF Untouched
<1>2. BlockValues(b)
  BY DEF ValueInv, BlockValues
<1>3. QED
  BY <1>1, <1>2, SameValues DEF Untouched
-----------------------------------------------------------------------------
(* The slot a fetch_add hands out holds nothing, and is unwritten.         *)
LEMMA AddAllocatedValues ==
    ASSUME NoCarry, TypeOK, SlotInv, ValueInv, NEW p \in Producers, AddAllocated(p)
    PROVE  ValueInv'
<1>1. PICK b \in Blocks : b = Block(p)
  BY NextBlockLemma DEF Threads
<1>2. /\ p \in Threads /\ p \notin Consumers /\ OthersKeep(p) /\ head' = head
      /\ pc[p] = "add_allocated" /\ pc'[p] # "add_allocated"
      /\ allocated' = Count(allocated, b) /\ reserved' = reserved /\ entries' = entries
      /\ IF BlockDone(allocated[b])
         THEN pc'[p] = "check_consumed"
         ELSE pc'[p] = "produce" /\ seen'[p] = allocated[b]
  BY <1>1 DEF Threads, AddAllocated, Goto, OthersKeep, TypeOK
<1>3. allocated'[b] = FromParts(allocated[b].v, allocated[b].i + 1)
  BY <1>1, <1>2, AddWithin
<1>4. \A x \in Blocks \ {b} : allocated'[x] = allocated[x]
  BY <1>2 DEF Count, TypeOK
<1>5. allocated[b] \in Pair /\ BlockValues(b)
  BY DEF TypeOK, ValueInv, BlockValues
<1>6. \A x \in Blocks, s \in Slots : s \in Unread(x)' <=> s \in Unread(x)
  BY <1>2, UsersLemma
<1>7. \A x \in Blocks, s \in Slots :
          s \in Unwritten(x)' <=> \/ s \in Unwritten(x)
                                  \/ pc'[p] = "produce" /\ x = b /\ s = allocated[b].i
  BY <1>1, <1>2 DEF OthersKeep, Unwritten, Threads, Block
<1>8. ASSUME NEW s \in Slots PROVE Full(b, s)' <=> Full(b, s)
  <2>1. s \in Nat /\ s < BlockSize
    BY DEF Slots
  <2>2. CASE BlockDone(allocated[b])
    <3>1. Handed(b)' = BlockSize /\ Handed(b) = BlockSize
      BY <1>3, <1>5, <2>2 DEF Handed, BlockDone, FromParts, Pair
    <3>2. s \in Unwritten(b)' <=> s \in Unwritten(b)
      BY <1>2, <1>7, <2>2
    <3>3. QED
      BY <1>2, <1>3, <3>1, <3>2 DEF Full, FromParts
  <2>3. CASE ~ BlockDone(allocated[b])
    <3>1. Handed(b)' = allocated[b].i + 1 /\ Handed(b) = allocated[b].i
      BY <1>3, <1>5, <2>3 DEF Handed, BlockDone, FromParts, Pair
    <3>2. s < Handed(b)' /\ s \notin Unwritten(b)' <=> s < Handed(b) /\ s \notin Unwritten(b)
      BY <1>2, <1>5, <1>7, <2>1, <2>3, <3>1 DEF Pair
    <3>3. allocated'[b].v = allocated[b].v /\ reserved'[b] = reserved[b]
      BY <1>2, <1>3 DEF FromParts
    <3>4. QED
      BY <3>2, <3>3 DEF Full
  <2>4. QED
    BY <2>2, <2>3
<1>9. BlockValues(b)'
  BY <1>2, <1>3, <1>5, <1>6, <1>8 DEF BlockValues, FromParts
<1>10. \A x \in Blocks \ {b} : BlockValues(x)'
  BY <1>2, <1>4, <1>6, <1>7, SameValues DEF ValueInv, BlockValues
<1>11. QED
  BY <1>9, <1>10 DEF ValueInv, BlockValues

(* The value a producer writes is in its slot from then on.                *)
LEMMA ProduceValues ==
    ASSUME NoCarry, TypeOK, SlotInv, ValueInv, NEW p \in Producers, Produce(p)
    PROVE  ValueInv'
<1>1. PICK b \in Blocks : b = Block(p)
  BY NextBlockLemma DEF Threads
<1>2. /\ p \in Threads /\ p \notin Consumers /\ OthersKeep(p) /\ head' = head /\ seen' = seen
      /\ pc[p] = "produce" /\ pc'[p] = "commit"
      /\ allocated' = allocated /\ reserved' = reserved
      /\ entries' = [entries EXCEPT ![b][seen[p].i] = seen[p].v]
  BY <1>1 DEF Threads, Produce, Goto, OthersKeep, TypeOK, words
<1>3. p \in Writers(b)
  BY <1>1, <1>2 DEF Writers
<1>4. /\ seen[p].v = allocated[b].v /\ seen[p].i < Handed(b)
      /\ reserved[b].v = allocated[b].v => reserved[b].i <= seen[p].i
      /\ \A q \in Writers(b) \ {p} : seen[q].i # seen[p].i
  BY <1>1, <1>2 DEF SlotInv, WriterOwns
<1>5. committed[b].v = allocated[b].v
  BY <1>3, BlockFacts
<1>6. reserved[b].v <= allocated[b].v /\ reserved[b].v \in Nat /\ allocated[b].v \in Nat
  BY <1>5, VersionFacts DEF Pair
<1>7. \A x \in Blocks, s \in Slots : s \in Unread(x)' <=> s \in Unread(x)
  BY <1>2, UsersLemma
<1>8. \A x \in Blocks, s \in Slots :
          s \in Unwritten(x)' <=> s \in Unwritten(x) /\ ~ (x = b /\ s = seen[p].i)
  BY <1>1, <1>2, <1>4 DEF OthersKeep, Unwritten, Writers, Threads, Block
<1>9. Handed(b)' = Handed(b)
  BY <1>2 DEF Handed, BlockDone
<1>10. seen[p].i \in Slots => Full(b, seen[p].i)'
  BY <1>2, <1>4, <1>6, <1>8, <1>9 DEF Full
<1>11. ASSUME NEW s \in Slots, s # seen[p].i PROVE Full(b, s)' <=> Full(b, s)
  BY <1>2, <1>8, <1>9, <1>11 DEF Full
<1>12. \A s \in Slots : entries'[b][s] = IF s = seen[p].i THEN seen[p].v ELSE entries[b][s]
  BY <1>2 DEF TypeOK
<1>13. BlockValues(b)'
  BY <1>2, <1>4, <1>7, <1>10, <1>11, <1>12 DEF ValueInv, BlockValues
<1>14. \A x \in Blocks \ {b} : entries'[x] = entries[x]
  BY <1>2 DEF TypeOK
<1>15. \A x \in Blocks \ {b} : BlockValues(x)'
  BY <1>2, <1>7, <1>8, <1>14, SameValues DEF ValueInv, BlockValues
<1>16. QED
  BY <1>13, <1>15 DEF ValueInv, BlockValues

(* A block is reset for its producers when no slot of it is full.          *)
LEMMA MaxAllocatedValues ==
    ASSUME NoCarry, TypeOK, SlotInv, ValueInv, NEW p \in Producers, MaxAllocated(p)
    PROVE  ValueInv'
<1>1. PICK b \in Blocks : b = NextBlock(p)
  BY NextBlockLemma DEF Threads
<1>2. /\ p \in Threads /\ OthersKeep(p) /\ Opening(p) \in Pair
      /\ pc[p] = "max_allocated" /\ pc'[p] = "max_phead"
      /\ allocated' = Raise(allocated, b, Opening(p))
      /\ reserved' = reserved /\ entries' = entries /\ allocated \in [Blocks -> Pair]
  BY <1>1, OpeningLemma DEF Threads, MaxAllocated, Goto, OthersKeep, TypeOK
<1>3. AtMost(Opening(p), committed[b])
  BY <1>1, <1>2 DEF SlotInv, OpenerKnows
<1>4. CASE allocated' = allocated
  BY <1>2, <1>4, UntouchedLemma DEF Untouched
<1>5. CASE ~ AtMost(Opening(p), allocated[b]) /\ allocated' = [allocated EXCEPT ![b] = Opening(p)]
  <2>1. allocated[b].v < committed[b].v
    <3>1. head[p].v \in Nat
      BY <1>2 DEF TypeOK
    <3>2. QED
      BY <1>3, <1>5, <3>1, VersionFacts DEF AtMost, Opening, FromParts, Pair
  <2>2. committed[b] = FromParts(allocated[b].v + 1, 0)
    BY <2>1, VersionFacts DEF SlotInv, ProducerWords, FromParts, Pair
  <2>3. \/ reserved[b].v > allocated[b].v
        \/ reserved[b].v = allocated[b].v /\ reserved[b].i = BlockSize
    <3>1. ProducersLead(b) /\ ConsumerWords(b) /\ Cardinality(Readers(b)) \in Nat
      BY FiniteLemma DEF SlotInv
    <3>2. QED
      BY <2>2, <3>1, VersionFacts DEF ProducersLead, ConsumerWords, FromParts, Pair
  <2>4. \A s \in Slots : ~ Full(b, s)
    BY <2>3, VersionFacts DEF Full, Slots, Pair
  <2>5. allocated'[b].i = 0
    BY <1>2, <1>5 DEF Opening, FromParts
  <2>6. \A s \in Slots : ~ Full(b, s)'
    BY <2>5 DEF Full, Handed, BlockDone, Slots
  <2>7. \A x \in Blocks, s \in Slots : /\ s \in Unwritten(x)' <=> s \in Unwritten(x)
                                       /\ s \in Unread(x)' <=> s \in Unread(x)
    BY <1>2, UsersLemma
  <2>8. BlockValues(b)'
    BY <1>2, <2>4, <2>6, <2>7 DEF ValueInv, BlockValues
  <2>9. \A x \in Blocks \ {b} : BlockValues(x)'
    BY <1>2, <1>5, <2>7, SameValues DEF ValueInv, BlockValues
  <2>10. QED
    BY <2>8, <2>9 DEF ValueInv, BlockValues
<1>6. QED
  BY <1>2, <1>4, <1>5, RaiseCases

-----------------------------------------------------------------------------
(* A consumer that reserves a slot takes the oldest full one.              *)
LEMMA MaxReservedValues ==
    ASSUME NoCarry, TypeOK, SlotInv, ValueInv, NEW c \in Consumers, MaxReserved(c)
    PROVE  ValueInv'
<1>1. PICK b \in Blocks : b = Block(c)
  BY NextBlockLemma DEF Threads
<1>2. /\ c \in Threads /\ c \notin Producers /\ OthersKeep(c) /\ head' = head /\ seen' = seen
      /\ pc[c] = "max_reserved"
      /\ pc'[c] = IF reserved[b] = seen[c] THEN "consume" ELSE "load_reserved"
      /\ reserved' = Raise(reserved, b, Incr(IndexSpan, seen[c]))
      /\ allocated' = allocated /\ entries' = entries
      /\ reserved \in [Blocks -> Pair] /\ seen[c] \in Pair
  BY <1>1 DEF Threads, MaxReserved, Goto, OthersKeep, TypeOK
<1>3. /\ seen[c].i < BlockSize /\ AtMost(seen[c], reserved[b])
      /\ reserved[b] = seen[c] =>
             /\ committed[b].v = seen[c].v
             /\ seen[c].i < mark[c].i /\ mark[c].i <= committed[b].i
             /\ \A p \in Writers(b) : seen[p].i # seen[c].i
  BY <1>1, <1>2 DEF SlotInv, ReserverKnows
<1>4. /\ Incr(IndexSpan, seen[c]) = FromParts(seen[c].v, seen[c].i + 1)
      /\ Incr(IndexSpan, seen[c]) \in Pair
  BY <1>2, <1>3 DEF Incr, FromParts, Pair
<1>5. CASE reserved[b] # seen[c]
  <2>1. AtMost(Incr(IndexSpan, seen[c]), reserved[b])
    BY <1>2, <1>3, <1>4, <1>5 DEF AtMost, FromParts, Pair
  <2>2. reserved' = reserved
    BY <1>2, <1>4, <2>1, RaiseCases
  <2>3. QED
    BY <1>2, <1>5, <2>2, UntouchedLemma DEF Untouched
<1>6. CASE reserved[b] = seen[c]
  <2>1. ~ AtMost(Incr(IndexSpan, seen[c]), reserved[b])
    BY <1>2, <1>4, <1>6 DEF AtMost, FromParts, Pair
  <2>2. /\ reserved'[b] = FromParts(reserved[b].v, reserved[b].i + 1)
        /\ \A x \in Blocks \ {b} : reserved'[x] = reserved[x]
    BY <1>2, <1>4, <1>6, <2>1, RaiseCases
  <2>3. mark[c].i \in Nat /\ reserved[b].i \in Nat /\ committed[b].i \in Nat
    BY <1>2 DEF TypeOK, Pair
  <2>4. allocated[b].v = reserved[b].v /\ reserved[b].i < Handed(b) /\ Handed(b) \in Nat
    BY <1>3, <1>6, <2>3, VersionFacts, BlockFacts
  <2>5. \A x \in Blocks, s \in Slots : s \in Unwritten(x)' <=> s \in Unwritten(x)
    BY <1>2, UsersLemma
  <2>6. \A x \in Blocks, s \in Slots :
            s \in Unread(x)' <=> s \in Unread(x) \/ (x = b /\ s = reserved[b].i)
    BY <1>1, <1>2, <1>6 DEF OthersKeep, Unread, Threads, Block
  <2>7. reserved[b].i \notin Unwritten(b)
    BY <1>3, <1>6 DEF Unwritten, Writers
  <2>8. Full(b, reserved[b].i)
    BY <2>3, <2>4, <2>7 DEF Full
  <2>9. Handed(b)' = Handed(b)
    BY <1>2 DEF Handed, BlockDone
  <2>10. ASSUME NEW s \in Slots PROVE Full(b, s)' <=> Full(b, s) /\ s # reserved[b].i
    <3>1. /\ reserved'[b].v = allocated'[b].v /\ reserved'[b].i = reserved[b].i + 1
          /\ reserved[b].v = allocated[b].v /\ allocated[b].v \in Nat
      BY <1>2, <2>2, <2>4, VersionFacts DEF FromParts, Pair
    <3>2. reserved[b].i + 1 <= s <=> reserved[b].i <= s /\ s # reserved[b].i
      BY <2>3 DEF Slots
    <3>3. QED
      BY <1>2, <2>5, <2>9, <3>1, <3>2 DEF Full
  <2>11. reserved'[b].v = reserved[b].v
    BY <2>2 DEF FromParts
  <2>12. BlockValues(b)'
    BY <1>2, <2>4, <2>6, <2>8, <2>10, <2>11 DEF ValueInv, BlockValues
  <2>13. \A x \in Blocks \ {b} : BlockValues(x)'
    BY <1>2, <2>2, <2>5, <2>6, SameValues DEF ValueInv, BlockValues
  <2>14. QED
    BY <2>12, <2>13 DEF ValueInv, BlockValues
<1>7. QED
  BY <1>5, <1>6

(* A block is reset for its consumers when all of it is read: what is full *)
(* in it stays so.                                                         *)
LEMMA ResetReservedValues ==
    ASSUME NoCarry, TypeOK, SlotInv, ValueInv, NEW c \in Consumers, ResetReserved(c)
    PROVE  ValueInv'
<1>1. PICK b \in Blocks : b = NextBlock(c)
  BY NextBlockLemma DEF Threads
<1>2. /\ c \in Threads /\ OthersKeep(c) /\ Opening(c) \in Pair
      /\ pc[c] = "reset_reserved" /\ pc'[c] = "max_chead"
      /\ reserved' = Raise(reserved, b, Opening(c))
      /\ allocated' = allocated /\ entries' = entries /\ reserved \in [Blocks -> Pair]
  BY <1>1, OpeningLemma DEF Threads, ResetReserved, Goto, OthersKeep, TypeOK
<1>3. AtMost(Opening(c), consumed[b])
  BY <1>1, <1>2 DEF SlotInv, FollowerKnows
<1>4. CASE reserved' = reserved
  BY <1>2, <1>4, UntouchedLemma DEF Untouched
<1>5. CASE ~ AtMost(Opening(c), reserved[b]) /\ reserved' = [reserved EXCEPT ![b] = Opening(c)]
  <2>1. head[c].v \in Nat
    BY <1>2 DEF TypeOK
  <2>2. reserved[b].v <= head[c].v /\ head[c].v < consumed[b].v
    BY <1>3, <1>5, <2>1, VersionFacts DEF AtMost, Opening, FromParts, Pair
  <2>3. /\ consumed[b].v = reserved[b].v + 1 /\ reserved[b].i = BlockSize
        /\ Readers(b) = {} /\ reserved[b].v \in Nat /\ consumed[b].v \in Nat
    <3>1. ConsumerWords(b)
      BY DEF SlotInv
    <3>2. /\ reserved[b].v \in Nat /\ consumed[b].v \in Nat
          /\ reserved[b].v < consumed[b].v => reserved[b].i = BlockSize /\ Readers(b) = {}
      BY VersionFacts DEF Pair
    <3>3. QED
      BY <2>1, <2>2, <3>1, <3>2 DEF ConsumerWords, FromParts
  <2>4. reserved'[b] = FromParts(reserved[b].v + 1, 0)
    <3>1. head[c].v = reserved[b].v
      BY <2>1, <2>2, <2>3
    <3>2. QED
      BY <1>2, <1>5, <3>1 DEF Opening
  <2>5. \A x \in Blocks, s \in Slots : /\ s \in Unwritten(x)' <=> s \in Unwritten(x)
                                       /\ s \in Unread(x)' <=> s \in Unread(x)
    BY <1>2, UsersLemma
  <2>6. Handed(b)' = Handed(b)
    BY <1>2 DEF Handed, BlockDone
  <2>7. ASSUME NEW s \in Slots PROVE Full(b, s)' <=> Full(b, s)
    <3>1. /\ reserved'[b].v = reserved[b].v + 1 /\ reserved'[b].i = 0
          /\ allocated'[b] = allocated[b] /\ allocated[b].v \in Nat
          /\ s \in Nat /\ s < BlockSize
      BY <1>2, <2>4, VersionFacts DEF FromParts, Slots, Pair
    <3>2. QED
      BY <2>3, <2>5, <2>6, <3>1 DEF Full
  <2>8. \A s \in Slots : s \notin Unread(b)
    BY <2>3 DEF Unread, Readers
  <2>9. BlockValues(b)'
    BY <1>2, <2>5, <2>7, <2>8 DEF ValueInv, BlockValues
  <2>10. \A x \in Blocks \ {b} : BlockValues(x)'
    BY <1>2, <1>5, <2>5, SameValues DEF ValueInv, BlockValues
  <2>11. QED
    BY <2>9, <2>10 DEF ValueInv, BlockValues
<1>6. QED
  BY <1>2, <1>4, <1>5, RaiseCases

(* Nothing is left in a slot that was read.                                *)
LEMMA ConsumeValues ==
    ASSUME NoCarry, TypeOK, SlotInv, ValueInv, NEW c \in Consumers, Consume(c)
    PROVE  ValueInv'
<1>1. PICK b \in Blocks : b = Block(c)
  BY NextBlockLemma DEF Threads
<1>2. /\ c \in Threads /\ c \notin Producers /\ OthersKeep(c) /\ head' = head /\ seen' = seen
      /\ pc[c] = "consume" /\ pc'[c] = "release"
      /\ allocated' = allocated /\ reserved' = reserved
      /\ entries' = [entries EXCEPT ![b][seen[c].i] = Absent]
  BY <1>1 DEF Threads, Consume, Goto, OthersKeep, TypeOK, words
<1>3. c \in Readers(b)
  BY <1>1, <1>2 DEF Readers
<1>4. /\ seen[c].v = reserved[b].v /\ seen[c].i < reserved[b].i
      /\ \A d \in Readers(b) \ {c} : seen[d].i # seen[c].i
  BY <1>1, <1>2 DEF SlotInv, ReaderOwns
<1>5. committed[b].v = reserved[b].v
  BY <1>3, BlockFacts, VersionFacts DEF Pair
<1>6. allocated[b].v <= reserved[b].v
  BY <1>5, VersionFacts
<1>7. \A x \in Blocks, s \in Slots : s \in Unwritten(x)' <=> s \in Unwritten(x)
  BY <1>2, UsersLemma
<1>8. \A x \in Blocks, s \in Slots :
          s \in Unread(x)' <=> s \in Unread(x) /\ ~ (x = b /\ s = seen[c].i)
  BY <1>1, <1>2, <1>4 DEF OthersKeep, Unread, Readers, Threads, Block
<1>9. Handed(b)' = Handed(b)
  BY <1>2 DEF Handed, BlockDone
<1>10. \A s \in Slots : Full(b, s)' <=> Full(b, s)
  BY <1>2, <1>7, <1>9 DEF Full
<1>11. seen[c].i \in Slots => ~ Full(b, seen[c].i)
  BY <1>4, <1>6, VersionFacts DEF Full, Slots, Pair
<1>12. \A s \in Slots : entries'[b][s] = IF s = seen[c].i THEN Absent ELSE entries[b][s]
  BY <1>2 DEF TypeOK
<1>13. BlockValues(b)'
  BY <1>2, <1>8, <1>10, <1>11, <1>12 DEF ValueInv, BlockValues
<1>14. \A x \in Blocks \ {b} : entries'[x] = entries[x]
  BY <1>2 DEF TypeOK
<1>15. \A x \in Blocks \ {b} : BlockValues(x)'
  BY <1>2, <1>7, <1>8, <1>14, SameValues DEF ValueInv, BlockValues
<1>16. QED
  BY <1>13, <1>15 DEF ValueInv, BlockValues

(* A new ring is empty.                                                    *)
LEMMA ValueInit == Init => ValueInv
<1> SUFFICES ASSUME Init, NEW b \in Blocks, NEW s \in Slots
             PROVE  ~ Full(b, s) /\ s \notin Unread(b) /\ entries[b][s] = Absent
  BY DEF ValueInv
<1>1. reserved[b] = allocated[b] /\ allocated[b].v = 0 /\ allocated[b].i \in {0, BlockSize}
  BY DEF Init, NewWords, Zero, FromParts
<1>2. ~ Full(b, s)
  BY <1>1 DEF Full, Handed, BlockDone, Slots
<1>3. s \notin Unread(b)
  BY DEF Init, Unread, Threads
<1>4. QED
  BY <1>2, <1>3 DEF Init

(* ValueInv is about the variables of Mpmc alone.                          *)
LEMMA ValueStutter == ASSUME ValueInv, UNCHANGED vars PROVE ValueInv'
  BY DEF vars, words, locals, ValueInv, Full, Handed, BlockDone, Unwritten, Unread, Block

(* When all callers use their entries, a slot holds the value written in   *)
(* the version its block hands it out in, until it is read, and nothing    *)
(* else.                                                                   *)
THEOREM ValueInvariant == NoCarry /\ Careless = {} => (Spec => []ValueInv)
<1> SUFFICES ASSUME NoCarry, Careless = {} PROVE Spec => []ValueInv
  OBVIOUS
<1>1. TypeOK /\ SlotInv /\ ValueInv /\ [Next]_vars => ValueInv'
  <2> SUFFICES ASSUME TypeOK, SlotInv, ValueInv, [Next]_vars PROVE ValueInv'
    OBVIOUS
  <2>1. ASSUME NEW p \in Producers, Push(p) PROVE ValueInv'
    <3>1. p \in Threads /\ pc[p] \in ProducerSteps
      BY DEF Threads, TypeOK
    <3>2. \/ AddAllocated(p) \/ Produce(p) \/ MaxAllocated(p)
          \/ Untouched(p)
      BY <2>1, <3>1 DEF Push, Untouched, StartPush, LoadPhead, LoadAllocated, CheckConsumed,
         ReportFull, ReportBusyPush, MaxCommitted, MaxPhead, Commit, DropEntryUnproduced,
         Return, Leave, Goto, OthersKeep, TypeOK, words
    <3>3. QED
      BY <3>1, <3>2, AddAllocatedValues, ProduceValues, MaxAllocatedValues, UntouchedLemma
  <2>2. ASSUME NEW c \in Consumers, Pop(c) PROVE ValueInv'
    <3>1. c \in Threads /\ pc[c] \in ConsumerSteps
      BY DEF Threads, TypeOK
    <3>2. \/ MaxReserved(c) \/ ResetReserved(c) \/ Consume(c)
          \/ Untouched(c)
      BY <2>2, <3>1 DEF Pop, Untouched, StartPop, LoadChead, LoadReserved, ReportEmptyBlock,
         LoadCommitted, ReportBusyPop, CheckAllocated, ReportEmptyRing, CheckCommitted,
         MaxConsumed, MaxChead, Release, DropEntryUnconsumed,
         Return, Leave, Goto, OthersKeep, TypeOK, words
    <3>3. QED
      BY <3>1, <3>2, MaxReservedValues, ResetReservedValues, ConsumeValues, UntouchedLemma
  <2>3. QED
    BY <2>1, <2>2, ValueStutter DEF Next
<1>2. QED
  BY ValueInit, <1>1, SlotInvariant, TypeCorrect, PTL DEF Spec

(* A reader finds the value pushed in the version it reserved, and a       *)
(* writer overwrites nothing.                                              *)
LEMMA ValuesFound ==
    ASSUME NoCarry, TypeOK, SlotInv, ValueInv PROVE ValuesIntact
<1> SUFFICES ASSUME NEW t \in Threads
             PROVE  /\ pc[t] = "consume" => entries[Block(t)][seen[t].i] = seen[t].v
                    /\ pc[t] = "produce" => entries[Block(t)][seen[t].i] = Absent
  BY DEF ValuesIntact
<1>1. PICK b \in Blocks : b = Block(t)
  BY NextBlockLemma
<1>2. seen[t].i \in Nat /\ BlockValues(b)
  BY DEF TypeOK, Pair, ValueInv, BlockValues
<1>3. ASSUME pc[t] = "consume" PROVE entries[b][seen[t].i] = seen[t].v
  <2>1. t \in Consumers
    BY <1>3 DEF Threads, TypeOK, ProducerSteps
  <2>2. /\ t \in Readers(b) /\ seen[t].i \in Unread(b)
        /\ seen[t].v = reserved[b].v /\ seen[t].i < reserved[b].i
    BY <1>1, <1>3, <2>1 DEF Readers, Unread, SlotInv, ReaderOwns
  <2>3. /\ reserved[b].i <= BlockSize /\ committed[b].v = reserved[b].v
        /\ allocated[b].v <= reserved[b].v
    BY <2>2, BlockFacts, VersionFacts DEF Pair
  <2>4. seen[t].i \in Slots
    BY <1>2, <2>2, <2>3, VersionFacts DEF Slots, Pair
  <2>5. ~ Full(b, seen[t].i)
    BY <1>2, <2>2, <2>3, VersionFacts DEF Full, Pair
  <2>6. QED
    BY <1>2, <2>2, <2>4, <2>5 DEF BlockValues
<1>4. ASSUME pc[t] = "produce" PROVE entries[b][seen[t].i] = Absent
  <2>1. t \in Producers
    BY <1>4 DEF Threads, TypeOK, ConsumerSteps
  <2>2. seen[t].i \in Unwritten(b) /\ seen[t].i < Handed(b)
    BY <1>1, <1>4, <2>1 DEF Unwritten, SlotInv, WriterOwns
  <2>3. seen[t].i \in Slots
    BY <1>2, <2>2, BlockFacts DEF Slots
  <2>4. seen[t].i \notin Unread(b)
    BY <1>1, <1>4, <2>1, InvExclusive DEF SlotExclusive, Holding, Unread, Threads
  <2>5. QED
    BY <1>2, <2>2, <2>3, <2>4 DEF BlockValues, Full
<1>5. QED
  BY <1>1, <1>3, <1>4

(* Every value pushed is found intact by the one who pops its slot, for    *)
(* any number of threads, blocks and slots.                                *)
THEOREM ValuesStayIntact == NoCarry /\ Careless = {} => (Spec => []ValuesIntact)
<1> SUFFICES ASSUME NoCarry, Careless = {} PROVE Spec => []ValuesIntact
  OBVIOUS
<1>1. TypeOK /\ SlotInv /\ ValueInv => ValuesIntact
  BY ValuesFound
<1>2. QED
  BY <1>1, ValueInvariant, SlotInvariant, TypeCorrect, PTL

(* With no entry in hand, what Block::drop takes for a value is one.       *)
LEMMA DroppedAreLive ==
    ASSUME NoCarry, TypeOK, SlotInv, ValueInv PROVE DropsOnlyLiveValues
<1> SUFFICES ASSUME AllIdle, NEW b \in Blocks, NEW s \in Dropped(b) PROVE s \in Live(b)
  BY DEF DropsOnlyLiveValues
<1>1. s \in Slots /\ s < committed[b].i /\ reserved[b].i <= s
  BY VersionFacts DEF Dropped, Slots, Pair
<1>2. s \notin Unwritten(b)
  BY DEF AllIdle, Unwritten, Threads
<1>3. reserved[b].v = allocated[b].v
  BY <1>1, BlockFacts, VersionFacts DEF Slots, Pair
<1>4. Full(b, s)
  BY <1>1, <1>2, <1>3, BlockFacts, VersionFacts DEF Full, Slots, Pair
<1>5. entries[b][s] = allocated[b].v /\ allocated[b].v \in Nat
  BY <1>1, <1>4, VersionFacts DEF ValueInv, Pair
<1>6. QED
  BY <1>1, <1>5 DEF Live, Absent

(* Dropping the ring drops no slot without a value, whatever the overshoot *)
(* and the versions its words were left in.                                *)
THEOREM DropsAreLive == NoCarry /\ Careless = {} => (Spec => []DropsOnlyLiveValues)
<1> SUFFICES ASSUME NoCarry, Careless = {} PROVE Spec => []DropsOnlyLiveValues
  OBVIOUS
<1>1. TypeOK /\ SlotInv /\ ValueInv => DropsOnlyLiveValues
  BY DroppedAreLive
<1>2. QED
  BY <1>1, ValueInvariant, SlotInvariant, TypeCorrect, PTL

(* With no entry in hand, what Block::fmt takes for a value is one.        *)
LEMMA ShownAreLive ==
    ASSUME NoCarry, TypeOK, SlotInv, ValueInv PROVE ShowsOnlyLiveValues
<1> SUFFICES ASSUME AllIdle, NEW b \in Blocks, NEW s \in Shown(b) PROVE s \in Live(b)
  BY DEF ShowsOnlyLiveValues
<1>1. /\ s \in Slots /\ s < committed[b].i /\ ~ AllDone(b)
      /\ \/ s >= reserved[b].i
         \/ consumed[b].i = BlockSize /\ reserved[b].i = BlockSize
  BY DEF Shown
<1>2. CASE s >= reserved[b].i
  BY <1>1, <1>2, DroppedAreLive DEF DropsOnlyLiveValues, Dropped
<1>3. CASE consumed[b].i = BlockSize /\ reserved[b].i = BlockSize
  <2>1. Writers(b) = {} /\ s \notin Unwritten(b)
    BY DEF AllIdle, Unwritten, Writers, Threads
  <2>2. Cardinality(Writers(b)) = 0
    BY <2>1, FiniteLemma
  <2>3. committed[b].v = allocated[b].v /\ committed[b].i = Handed(b)
    <3>1. s \in Nat /\ ProducerWords(b)
      BY <1>1 DEF SlotInv, Slots
    <3>2. committed[b] # FromParts(allocated[b].v + 1, 0)
      BY <1>1, <3>1 DEF FromParts
    <3>3. QED
      BY <2>2, <3>1, <3>2, BlockFacts, VersionFacts DEF ProducerWords, Pair
  <2>4. reserved[b].v = consumed[b].v
    <3>1. ConsumerWords(b) /\ consumed[b] # FromParts(reserved[b].v + 1, 0)
      BY <1>3 DEF SlotInv, FromParts
    <3>2. QED
      BY <3>1 DEF ConsumerWords
  <2>5. committed[b].i < BlockSize
    BY <1>1, <1>3, <2>3, BlockFacts, VersionFacts DEF AllDone, BlockDone, Handed, Pair
  <2>6. reserved[b].v < allocated[b].v
    BY <1>3, <2>3, <2>4, <2>5, VersionFacts DEF SlotInv, ProducersLead, Pair
  <2>7. Full(b, s)
    BY <1>1, <2>1, <2>3, <2>6 DEF Full
  <2>8. entries[b][s] = allocated[b].v /\ allocated[b].v \in Nat
    BY <1>1, <2>7, VersionFacts DEF ValueInv, Pair
  <2>9. QED
    BY <1>1, <2>8 DEF Live, Absent
<1>4. QED
  BY <1>1, <1>2, <1>3

(* Printing a ring no thread is using reads no slot without a value.       *)
THEOREM ShownAreValues == NoCarry /\ Careless = {} => (Spec => []ShowsOnlyLiveValues)
<1> SUFFICES ASSUME NoCarry, Careless = {} PROVE Spec => []ShowsOnlyLiveValues
  OBVIOUS
<1>1. TypeOK /\ SlotInv /\ ValueInv => ShowsOnlyLiveValues
  BY ShownAreLive
<1>2. QED
  BY <1>1, ValueInvariant, SlotInvariant, TypeCorrect, PTL
-----------------------------------------------------------------------------
(* A block no producer opens or resets keeps its opener.                   *)
LEMMA OpenedKept ==
    ASSUME TypeOK, TypeOK', Forward, NEW t \in Threads, OthersKeep(t),
           t \in Producers => pc[t] # "max_allocated",
           NEW b \in Blocks, Opened(b), committed'[b] = committed[b]
    PROVE  Opened(b)'
<1> SUFFICES ASSUME allocated'[b].v < committed'[b].v
             PROVE  \E p \in Producers : /\ pc'[p] = "max_allocated" /\ NextBlock(p)' = b
                                         /\ Opening(p)' = committed'[b]
  BY DEF Opened
<1>1. AtMost(allocated[b], allocated'[b])
  BY DEF Forward
<1>2. allocated[b].v < committed[b].v
  BY <1>1 DEF AtMost, TypeOK, Pair
<1>3. PICK p \in Producers : /\ pc[p] = "max_allocated" /\ NextBlock(p) = b
                             /\ Opening(p) = committed[b]
  BY <1>2 DEF Opened
<1>4. pc'[p] = pc[p] /\ head'[p] = head[p]
  BY <1>3 DEF OthersKeep, Threads
<1>5. QED
  BY <1>3, <1>4 DEF NextBlock, Opening

(* A block no consumer opens or resets keeps its follower.                 *)
LEMMA FollowedKept ==
    ASSUME TypeOK, TypeOK', Forward, NEW t \in Threads, OthersKeep(t),
           t \in Consumers => pc[t] # "reset_reserved",
           NEW b \in Blocks, Followed(b), consumed'[b] = consumed[b]
    PROVE  Followed(b)'
<1> SUFFICES ASSUME reserved'[b].v < consumed'[b].v
             PROVE  \E c \in Consumers : /\ pc'[c] = "reset_reserved" /\ NextBlock(c)' = b
                                         /\ Opening(c)' = consumed'[b]
  BY DEF Followed
<1>1. AtMost(reserved[b], reserved'[b])
  BY DEF Forward
<1>2. reserved[b].v < consumed[b].v
  BY <1>1 DEF AtMost, TypeOK, Pair
<1>3. PICK c \in Consumers : /\ pc[c] = "reset_reserved" /\ NextBlock(c) = b
                             /\ Opening(c) = consumed[b]
  BY <1>2 DEF Followed
<1>4. pc'[c] = pc[c] /\ head'[c] = head[c]
  BY <1>3 DEF OthersKeep, Threads
<1>5. QED
  BY <1>3, <1>4 DEF NextBlock, Opening

(* A push opens the block of the committed word it raises, and is done     *)
(* with it when it has raised allocated as well.                           *)
LEMMA OpenedPush ==
    ASSUME NoCarry, TypeOK, SlotInv, OpenInv, NEW p \in Producers, Push(p), NEW b \in Blocks
    PROVE  Opened(b)'
<1>1. p \in Threads /\ p \notin Consumers /\ TypeOK' /\ Forward /\ Opened(b)
  BY TypePush, ForwardPush DEF Threads, OpenInv
<1>2. CASE MaxCommitted(p)
  <2>1. PICK x \in Blocks : x = NextBlock(p)
    BY <1>1, NextBlockLemma
  <2>2. /\ pc[p] = "max_committed" /\ pc'[p] = "max_allocated" /\ head' = head
        /\ committed' = Raise(committed, x, Opening(p)) /\ OthersKeep(p)
        /\ committed \in [Blocks -> Pair] /\ Opening(p) \in Pair
    BY <1>1, <1>2, <2>1, OpeningLemma DEF MaxCommitted, Goto, OthersKeep, TypeOK
  <2>3. CASE committed'[b] = committed[b]
    BY <1>1, <2>2, <2>3, OpenedKept
  <2>4. CASE x = b /\ committed'[b] = Opening(p)
    BY <2>1, <2>2, <2>4 DEF Opened, NextBlock, Opening
  <2>5. QED
    BY <2>2, <2>3, <2>4, RaiseCases
<1>3. CASE MaxAllocated(p)
  <2>1. PICK x \in Blocks : x = NextBlock(p)
    BY <1>1, NextBlockLemma
  <2>2. /\ pc[p] = "max_allocated" /\ head' = head /\ OthersKeep(p) /\ committed' = committed
        /\ allocated' = Raise(allocated, x, Opening(p))
        /\ allocated \in [Blocks -> Pair] /\ Opening(p) \in Pair /\ committed[b] \in Pair
    BY <1>1, <1>3, <2>1, OpeningLemma DEF MaxAllocated, Goto, OthersKeep, TypeOK
  <2>3. CASE x = b /\ Opening(p) = committed[b]
    <3>1. allocated'[b] = MaxPair(allocated[b], Opening(p))
      BY <2>2, <2>3 DEF Raise
    <3>2. AtMost(committed[b], allocated'[b]) /\ allocated'[b] \in Pair
      BY <2>2, <2>3, <3>1, MaxPairLemma
    <3>3. QED
      BY <2>2, <3>2 DEF Opened, AtMost, Pair
  <2>4. CASE ~ (x = b /\ Opening(p) = committed[b])
    <3> SUFFICES ASSUME allocated'[b].v < committed[b].v
                 PROVE  \E q \in Producers : /\ pc'[q] = "max_allocated" /\ NextBlock(q)' = b
                                             /\ Opening(q)' = committed[b]
      BY <2>2 DEF Opened
    <3>1. allocated[b].v < committed[b].v
      <4>1. AtMost(allocated[b], allocated'[b])
        BY <1>1 DEF Forward
      <4>2. allocated[b] \in Pair /\ allocated'[b] \in Pair
        BY <1>1 DEF TypeOK
      <4>3. QED
        BY <2>2, <4>1, <4>2 DEF AtMost, Pair
    <3>2. PICK q \in Producers : /\ pc[q] = "max_allocated" /\ NextBlock(q) = b
                                 /\ Opening(q) = committed[b]
      BY <1>1, <3>1 DEF Opened
    <3>3. q # p /\ pc'[q] = pc[q]
      BY <2>1, <2>2, <2>4, <3>2 DEF OthersKeep, Threads
    <3>4. QED
      BY <2>2, <3>2, <3>3 DEF NextBlock, Opening
  <2>5. QED
    BY <2>3, <2>4
<1>4. CASE Commit(p)
  <2>1. PICK x \in Blocks : x = Block(p)
    BY <1>1, NextBlockLemma
  <2>2. /\ pc[p] = "commit" /\ OthersKeep(p) /\ committed' = Count(committed, x)
        /\ allocated' = allocated /\ p \in Writers(x)
    BY <1>1, <1>4, <2>1 DEF Commit, Return, Leave, Goto, OthersKeep, Writers, TypeOK
  <2>3. CASE x # b
    BY <1>1, <2>2, <2>3, OpenedKept DEF Count, TypeOK
  <2>4. CASE x = b
    <3>1. /\ committed[b].v = allocated[b].v /\ committed[b].i < BlockSize
          /\ committed[b] \in Pair
      BY <2>2, <2>4, BlockFacts, VersionFacts DEF Pair
    <3>2. committed'[b].v = committed[b].v
      <4>1. Incr(IndexSpan, committed[b]).v = committed[b].v
        BY <3>1 DEF Incr, Pair
      <4>2. QED
        BY <2>2, <2>4, <4>1 DEF Count, TypeOK
    <3>3. QED
      BY <2>2, <3>1, <3>2 DEF Opened, Pair
  <2>5. QED
    BY <2>3, <2>4
<1>5. CASE committed' = committed /\ pc[p] # "max_allocated" /\ OthersKeep(p)
  BY <1>1, <1>5, OpenedKept
<1>6. QED
  BY <1>1, <1>2, <1>3, <1>4, <1>5
     DEF Push, StartPush, LoadPhead, LoadAllocated, AddAllocated, CheckConsumed, ReportFull,
         ReportBusyPush, MaxPhead, Produce, DropEntryUnproduced, Return, Leave, Goto,
         OthersKeep, TypeOK, words

(* A pop follows into the block of the consumed word it raises, and is     *)
(* done with it when it has raised reserved as well.                       *)
LEMMA FollowedPop ==
    ASSUME NoCarry, TypeOK, SlotInv, OpenInv, NEW c \in Consumers, Pop(c), NEW b \in Blocks
    PROVE  Followed(b)'
<1>1. c \in Threads /\ c \notin Producers /\ TypeOK' /\ Forward /\ Followed(b)
  BY TypePop, ForwardPop DEF Threads, OpenInv
<1>2. CASE MaxConsumed(c)
  <2>1. PICK x \in Blocks : x = NextBlock(c)
    BY <1>1, NextBlockLemma
  <2>2. /\ pc[c] = "max_consumed" /\ pc'[c] = "reset_reserved" /\ head' = head
        /\ consumed' = Raise(consumed, x, Opening(c)) /\ OthersKeep(c)
        /\ consumed \in [Blocks -> Pair] /\ Opening(c) \in Pair
    BY <1>1, <1>2, <2>1, OpeningLemma DEF MaxConsumed, Goto, OthersKeep, TypeOK
  <2>3. CASE consumed'[b] = consumed[b]
    BY <1>1, <2>2, <2>3, FollowedKept
  <2>4. CASE x = b /\ consumed'[b] = Opening(c)
    BY <2>1, <2>2, <2>4 DEF Followed, NextBlock, Opening
  <2>5. QED
    BY <2>2, <2>3, <2>4, RaiseCases
<1>3. CASE ResetReserved(c)
  <2>1. PICK x \in Blocks : x = NextBlock(c)
    BY <1>1, NextBlockLemma
  <2>2. /\ pc[c] = "reset_reserved" /\ head' = head /\ OthersKeep(c) /\ consumed' = consumed
        /\ reserved' = Raise(reserved, x, Opening(c))
        /\ reserved \in [Blocks -> Pair] /\ Opening(c) \in Pair /\ consumed[b] \in Pair
    BY <1>1, <1>3, <2>1, OpeningLemma DEF ResetReserved, Goto, OthersKeep, TypeOK
  <2>3. CASE x = b /\ Opening(c) = consumed[b]
    <3>1. reserved'[b] = MaxPair(reserved[b], Opening(c))
      BY <2>2, <2>3 DEF Raise
    <3>2. AtMost(consumed[b], reserved'[b]) /\ reserved'[b] \in Pair
      BY <2>2, <2>3, <3>1, MaxPairLemma
    <3>3. QED
      BY <2>2, <3>2 DEF Followed, AtMost, Pair
  <2>4. CASE ~ (x = b /\ Opening(c) = consumed[b])
    <3> SUFFICES ASSUME reserved'[b].v < consumed[b].v
                 PROVE  \E d \in Consumers : /\ pc'[d] = "reset_reserved" /\ NextBlock(d)' = b
                                             /\ Opening(d)' = consumed[b]
      BY <2>2 DEF Followed
    <3>1. reserved[b].v < consumed[b].v
      <4>1. AtMost(reserved[b], reserved'[b])
        BY <1>1 DEF Forward
      <4>2. reserved[b] \in Pair /\ reserved'[b] \in Pair
        BY <1>1 DEF TypeOK
      <4>3. QED
        BY <2>2, <4>1, <4>2 DEF AtMost, Pair
    <3>2. PICK d \in Consumers : /\ pc[d] = "reset_reserved" /\ NextBlock(d) = b
                                 /\ Opening(d) = consumed[b]
      BY <1>1, <3>1 DEF Followed
    <3>3. d # c /\ pc'[d] = pc[d]
      BY <2>1, <2>2, <2>4, <3>2 DEF OthersKeep, Threads
    <3>4. QED
      BY <2>2, <3>2, <3>3 DEF NextBlock, Opening
  <2>5. QED
    BY <2>3, <2>4
<1>4. CASE Release(c)
  <2>1. PICK x \in Blocks : x = Block(c)
    BY <1>1, NextBlockLemma
  <2>2. /\ pc[c] = "release" /\ OthersKeep(c) /\ consumed' = Count(consumed, x)
        /\ reserved' = reserved /\ c \in Readers(x)
    BY <1>1, <1>4, <2>1 DEF Release, Return, Leave, Goto, OthersKeep, Readers, TypeOK
  <2>3. CASE x # b
    BY <1>1, <2>2, <2>3, FollowedKept DEF Count, TypeOK
  <2>4. CASE x = b
    <3>1. /\ consumed[b].v = reserved[b].v /\ consumed[b].i < BlockSize
          /\ consumed[b] \in Pair
      BY <2>2, <2>4, BlockFacts, VersionFacts DEF Pair
    <3>2. consumed'[b].v = consumed[b].v
      <4>1. Incr(IndexSpan, consumed[b]).v = consumed[b].v
        BY <3>1 DEF Incr, Pair
      <4>2. QED
        BY <2>2, <2>4, <4>1 DEF Count, TypeOK
    <3>3. QED
      BY <2>2, <3>1, <3>2 DEF Followed, Pair
  <2>5. QED
    BY <2>3, <2>4
<1>5. CASE consumed' = consumed /\ pc[c] # "reset_reserved" /\ OthersKeep(c)
  BY <1>1, <1>5, FollowedKept
<1>6. QED
  BY <1>1, <1>2, <1>3, <1>4, <1>5
     DEF Pop, StartPop, LoadChead, LoadReserved, ReportEmptyBlock, LoadCommitted,
         ReportBusyPop, CheckAllocated, MaxReserved, ReportEmptyRing, CheckCommitted,
         MaxChead, Consume, DropEntryUnconsumed, Return, Leave, Goto, OthersKeep, TypeOK, words

(* A push leaves what consumers opened, and a pop what producers opened.   *)
LEMMA OpenPush ==
    ASSUME NoCarry, TypeOK, SlotInv, OpenInv, NEW p \in Producers, Push(p)
    PROVE  OpenInv'
<1>1. p \in Threads /\ p \notin Consumers /\ TypeOK' /\ Forward
  BY TypePush, ForwardPush DEF Threads
<1>2. OthersKeep(p) /\ consumed' = consumed
  BY <1>1 DEF Push, StartPush, LoadPhead, LoadAllocated, AddAllocated, CheckConsumed,
     ReportFull, ReportBusyPush, MaxCommitted, MaxAllocated, MaxPhead, Produce,
     DropEntryUnproduced, Commit, Return, Leave, Goto, OthersKeep, TypeOK, words
<1>3. ASSUME NEW b \in Blocks PROVE Opened(b)' /\ Followed(b)'
  BY <1>1, <1>2, OpenedPush, FollowedKept DEF OpenInv
<1>4. QED
  BY <1>3 DEF OpenInv

(* The same of a pop.                                                      *)
LEMMA OpenPop ==
    ASSUME NoCarry, TypeOK, SlotInv, OpenInv, NEW c \in Consumers, Pop(c)
    PROVE  OpenInv'
<1>1. c \in Threads /\ c \notin Producers /\ TypeOK' /\ Forward
  BY TypePop, ForwardPop DEF Threads
<1>2. OthersKeep(c) /\ committed' = committed
  BY <1>1 DEF Pop, StartPop, LoadChead, LoadReserved, ReportEmptyBlock, LoadCommitted,
     ReportBusyPop, CheckAllocated, MaxReserved, ReportEmptyRing, CheckCommitted,
     MaxConsumed, ResetReserved, MaxChead, Consume, DropEntryUnconsumed, Release,
     Return, Leave, Goto, OthersKeep, TypeOK, words
<1>3. ASSUME NEW b \in Blocks PROVE Opened(b)' /\ Followed(b)'
  BY <1>1, <1>2, FollowedPop, OpenedKept DEF OpenInv
<1>4. QED
  BY <1>3 DEF OpenInv

(* No block is left half reset, with nobody about to finish it: not even   *)
(* by threads that drop their entries unused.                              *)
THEOREM OpenInvariant == NoCarry => (Spec => []OpenInv)
<1> SUFFICES ASSUME NoCarry PROVE Spec => []OpenInv
  OBVIOUS
<1>1. Init => OpenInv
  BY DEF Init, NewWords, Zero, FromParts, OpenInv, Opened, Followed
<1>2. OpenInv /\ UNCHANGED vars => OpenInv'
  BY DEF vars, words, locals, OpenInv, Opened, Followed, NextBlock, Opening
<1>3. TypeOK /\ SlotInv /\ OpenInv /\ [Next]_vars => OpenInv'
  BY <1>2, OpenPush, OpenPop DEF Next
<1>4. QED
  BY <1>1, <1>3, SlotInvariant, TypeCorrect, PTL DEF Spec

(* With no entry in hand, the words of a block agree.                      *)
LEMMA IdleSettled ==
    ASSUME NoCarry, TypeOK, SlotInv, OpenInv PROVE DropNeverPanics
<1> SUFFICES ASSUME AllIdle, NEW b \in Blocks, NEW s \in Slots PROVE
        ~ (s >= committed[b].i /\ s < allocated[b].i) /\ ~ (s < reserved[b].i /\ s >= consumed[b].i)
  BY DEF DropNeverPanics, Panics
<1>1. \A t \in Threads : pc[t] = "idle"
  BY DEF AllIdle
<1>2. Writers(b) = {} /\ Readers(b) = {}
  BY <1>1 DEF Writers, Readers, Threads
<1>3. Cardinality(Writers(b)) = 0 /\ Cardinality(Readers(b)) = 0
  BY <1>2, FiniteLemma
<1>4. ~ (allocated[b].v < committed[b].v) /\ ~ (reserved[b].v < consumed[b].v)
  BY <1>1 DEF OpenInv, Opened, Followed, Threads
<1>5. ProducerWords(b) /\ ConsumerWords(b)
  BY DEF SlotInv
<1>6. committed[b].i = Handed(b)
  BY <1>3, <1>4, <1>5, BlockFacts, VersionFacts DEF ProducerWords, FromParts, Pair
<1>7. consumed[b].i = reserved[b].i
  BY <1>3, <1>4, <1>5, VersionFacts DEF ConsumerWords, FromParts, Pair
<1>8. s \in Nat /\ s < BlockSize
  BY DEF Slots
<1>9. QED
  BY <1>6, <1>7, <1>8, VersionFacts DEF Handed, BlockDone, Pair

(* A ring that no thread is using can be dropped, whatever happened to it. *)
THEOREM DropSafe == NoCarry => (Spec => []DropNeverPanics)
<1> SUFFICES ASSUME NoCarry PROVE Spec => []DropNeverPanics
  OBVIOUS
<1>1. TypeOK /\ SlotInv /\ OpenInv => DropNeverPanics
  BY IdleSettled
<1>2. QED
  BY <1>1, OpenInvariant, SlotInvariant, TypeCorrect, PTL
=============================================================================
