--------------------------- MODULE LayeredProofs ----------------------------
(***************************************************************************)
(* The types of Layered hold whatever its threads do.  With one thread in a*)
(* layer OrderInv is inductive, no slot is ever two threads' at once, and  *)
(* a transform reads its slot as the variant it was written as, for every  *)
(* number of layers, blocks and slots.                                     *)
(***************************************************************************)
EXTENDS LayeredInvariant, LayeredDrop, FieldProofs

USE LayerAssumption, RingAssumption, SpanAssumption

Heads == [v : Nat, i : Blocks]

(* The pair algebra at the sizes of this ring.                             *)
LEMMA PairFacts ==
    /\ Heads \subseteq Pair /\ Zero \in Heads /\ Zero \in Pair
    /\ \A v \in Nat, i \in Nat : FromParts(v, i) \in Pair
    /\ \A f \in Heads : VersionIncAdd(NumBlocks, f) \in Heads
    /\ \A f \in Pair : Incr(IndexSpan, f) \in Pair /\ AtMost(f, Incr(IndexSpan, f))
    /\ \A f, g \in Pair : MaxPair(f, g) \in Pair /\ AtMost(f, MaxPair(f, g))
    /\ \A f, g \in Heads : MaxPair(f, g) \in Heads
    /\ \A f \in Pair : AtMost(f, f)
<1>1. Heads \subseteq Pair /\ Zero \in Heads /\ Zero \in Pair
  BY DEF Heads, Pair, Zero, FromParts, Blocks
<1>2. \A v \in Nat, i \in Nat : FromParts(v, i) \in Pair
  BY DEF Pair, FromParts
<1>3. \A f \in Heads : VersionIncAdd(NumBlocks, f) \in Heads
  BY VersionIncAddLemma DEF Heads, Blocks
<1>4. \A f \in Pair : Incr(IndexSpan, f) \in Pair /\ AtMost(f, Incr(IndexSpan, f))
  BY IncrLemma
<1>5. \A f, g \in Pair : /\ MaxPair(f, g) \in Pair /\ AtMost(f, MaxPair(f, g))
                         /\ MaxPair(f, g) \in {f, g}
  BY MaxPairLemma
<1>6. \A f \in Pair : AtMost(f, f)
  BY AtMostIsOrder
<1>7. QED
  BY <1>1, <1>2, <1>3, <1>4, <1>5, <1>6

(* The layer a layer chases: the one before, or the last.                  *)
LEMMA ChasedLemma ==
    ASSUME NEW l \in Layers
    PROVE  /\ Chased(l) \in Layers
           /\ l # 0 => Chased(l) = l - 1
           /\ l = 0 => Chased(l) = NumLayers - 1
<1>1. NumLayers \in Nat \ {0} /\ l \in 0 .. NumLayers - 1
  BY DEF Layers
<1>2. (l + NumLayers - 1) % NumLayers = IF l = 0 THEN NumLayers - 1 ELSE l - 1
  BY <1>1
<1>3. QED
  BY <1>1, <1>2 DEF Chased, Layers

(* Where a thread is and where it goes next.                               *)
LEMMA PlaceLemma ==
    ASSUME TypeOK, NEW t \in Threads
    PROVE  /\ Layer(t) \in Layers /\ Chased(Layer(t)) \in Layers
           /\ Block(t) \in Blocks /\ NextBlock(t) \in Blocks /\ NextHead(t) \in Heads
<1>1. Layer(t) \in Layers
  BY DEF Layer
<1>2. head[t].i \in 0 .. NumBlocks - 1 /\ head[t] \in Heads
  BY DEF TypeOK, Blocks, Heads
<1>3. (head[t].i + 1) % NumBlocks \in 0 .. NumBlocks - 1
  BY <1>2, WrapLemma
<1>4. QED
  BY <1>1, <1>2, <1>3, ChasedLemma, PairFacts DEF Block, NextBlock, NextHead, Blocks

(* What a word may become by fetch_max.                                    *)
LEMMA RaiseLemma ==
    ASSUME TypeOK, NEW word \in [Layers -> [Blocks -> Pair]], NEW t \in Threads,
           NEW block \in Blocks, NEW field \in Pair
    PROVE  Raise(word, t, block, field) \in [Layers -> [Blocks -> Pair]]
  BY PairFacts, PlaceLemma DEF Raise

(* A call that returns or starts over forgets what it loaded.              *)
LEMMA LeaveLemma ==
    ASSUME TypeOK, NEW t \in Threads, NEW step \in Steps, Leave(t, step)
    PROVE  /\ pc' \in [Threads -> Steps]
           /\ head' \in [Threads -> Heads]
           /\ seen' \in [Threads -> Pair]
           /\ mark' \in [Threads -> Pair]
  BY PairFacts DEF Leave, Goto, TypeOK, Heads
-----------------------------------------------------------------------------
(* A new ring has the types.                                               *)
LEMMA TypeInit == Init => TypeOK
<1>1. "idle" \in Steps
  BY DEF Steps
<1>2. QED
  BY <1>1, PairFacts DEF Init, TypeOK, Heads

(* A step of a transform leaves every variable in its type.                *)
LEMMA TypeStep == ASSUME TypeOK, NEW t \in Threads, Step(t) PROVE TypeOK'
<1> USE PairFacts, PlaceLemma, LeaveLemma DEF TypeOK, Heads, Steps
<1>1. CASE StartTransform(t)
  BY <1>1 DEF StartTransform, Goto, shared
<1>2. CASE LoadHead(t)
  BY <1>2 DEF LoadHead, Goto, shared
<1>3. CASE LoadTake(t)
  <2>1. take[Layer(t)][Block(t)] \in Pair
    OBVIOUS
  <2>2. seen' \in [Threads -> Pair] /\ pc' \in [Threads -> Steps]
    BY <1>3, <2>1 DEF LoadTake, Goto
  <2>3. QED
    BY <1>3, <2>2 DEF LoadTake, shared
<1>4. CASE ReportNotAvailable(t)
  BY <1>4 DEF ReportNotAvailable, Return, shared
<1>5. CASE LoadChasingGive(t)
  <2>1. ChasingGive(t, Block(t)) \in Pair
    BY DEF ChasingGive
  <2>2. mark' \in [Threads -> Pair] /\ pc' \in [Threads -> Steps]
    BY <1>5, <2>1 DEF LoadChasingGive, Goto
  <2>3. QED
    BY <1>5, <2>2 DEF LoadChasingGive, shared
<1>6. CASE ReportBusy(t)
  BY <1>6 DEF ReportBusy, Return, shared
<1>7. CASE LoadChasingTake(t)
  BY <1>7 DEF LoadChasingTake, Goto, shared
<1>8. CASE MaxTake(t)
  BY <1>8, RaiseLemma DEF MaxTake, Goto
<1>9. CASE Transform(t)
  <2>1. <<seen[t].v, Layer(t)>> \in Nat \X Layers
    BY DEF Pair
  <2>2. entries' \in [Blocks -> [Slots -> {<<>>} \cup (Nat \X Layers)]]
    BY <1>9, <2>1 DEF Transform
  <2>3. QED
    BY <1>9, <2>2 DEF Transform, Goto, shared
<1>10. CASE IncrGive(t)
  BY <1>10 DEF IncrGive, Return
<1>11. CASE CheckChasingGive(t)
  <2>1. ChasingGive(t, NextBlock(t)) \in Pair
    BY DEF ChasingGive
  <2>2. mark' \in [Threads -> Pair] /\ pc' \in [Threads -> Steps]
    BY <1>11, <2>1 DEF CheckChasingGive, Goto
  <2>3. QED
    BY <1>11, <2>2 DEF CheckChasingGive, shared
<1>12. CASE ReportBusyAdvance(t)
  BY <1>12 DEF ReportBusyAdvance, Return, shared
<1>13. CASE CheckChasingTake(t)
  BY <1>13 DEF CheckChasingTake, Goto, shared
<1>14. CASE LoadOwnGive(t)
  <2>1. seen' \in [Threads -> Pair]
    BY <1>14 DEF LoadOwnGive
  <2>2. QED
    BY <1>14, <2>1 DEF LoadOwnGive, Goto, shared
<1>15. CASE ResetGive(t)
  BY <1>15, RaiseLemma DEF ResetGive, Goto
<1>16. CASE ResetTake(t)
  BY <1>16, RaiseLemma DEF ResetTake, Goto
<1>17. CASE MaxHead(t)
  BY <1>17 DEF MaxHead
<1>18. CASE CompareHead(t)
  <2>1. CASE Leave(t, "load_head")
    BY <1>18, <2>1 DEF CompareHead, shared
  <2>2. CASE Goto(t, "write_head") /\ UNCHANGED <<head, seen, mark>>
    BY <1>18, <2>2 DEF CompareHead, Goto, shared
  <2>3. QED
    BY <1>18, <2>1, <2>2 DEF CompareHead
<1>19. CASE WriteHead(t)
  BY <1>19 DEF WriteHead
<1>20. QED
  BY <1>1, <1>2, <1>3, <1>4, <1>5, <1>6, <1>7, <1>8, <1>9, <1>10, <1>11, <1>12, <1>13, <1>14,
     <1>15, <1>16, <1>17, <1>18, <1>19 DEF Step, Reserve, Work, Advance

(* Every variable keeps its type, whatever the threads do.                 *)
THEOREM TypeCorrect == Spec => []TypeOK
<1>1. TypeOK /\ [Next]_vars => TypeOK'
  <2> SUFFICES ASSUME TypeOK, [Next]_vars PROVE TypeOK'
    OBVIOUS
  <2>1. CASE \E t \in Threads : Step(t)
    BY <2>1, TypeStep
  <2>2. CASE UNCHANGED vars
    BY <2>2 DEF vars, shared, locals, TypeOK
  <2>3. QED
    BY <2>1, <2>2 DEF Next
<1>2. QED
  BY TypeInit, <1>1, PTL DEF Spec
-----------------------------------------------------------------------------
(* The words of a block are ordered by Within, and a turn of the ring      *)
(* keeps their order.                                                      *)
LEMMA WithinLemma ==
    ASSUME NEW b \in Blocks, NEW f \in Pair, NEW g \in Pair, NEW h \in Pair,
           WordOK(b, f), WordOK(b, g), WordOK(b, h)
    PROVE  /\ Within(b, f, f)
           /\ AtMost(f, g) => Within(b, f, g)
           /\ Within(b, f, g) /\ Within(b, g, h) => Within(b, f, h)
<1>1. BlockSize \in Nat \ {0} /\ f.v \in Nat /\ g.v \in Nat /\ h.v \in Nat
      /\ f.i \in Nat /\ g.i \in Nat /\ h.i \in Nat
  BY DEF Pair
<1>2. Within(b, f, f) /\ (AtMost(f, g) => Within(b, f, g))
  BY <1>1 DEF Within, AtMost
<1>3. ASSUME Within(b, f, g), Within(b, g, h) PROVE Within(b, f, h)
  <2>1. CASE AtMost(f, g) /\ AtMost(g, h)
    BY <1>1, <2>1 DEF Within, AtMost
  <2>2. CASE AtMost(f, g) /\ g = FromParts(Following(b, h.v), 0) /\ h.i = BlockSize
    <3>1. CASE f.v < g.v
      <4>1. g.v = Following(b, h.v)
        BY <2>2 DEF FromParts
      <4>2. f.v <= h.v
        BY <1>1, <3>1, <4>1 DEF WordOK, Following
      <4>3. QED
        BY <1>1, <4>2, <2>2 DEF WordOK, Within, AtMost
    <3>2. CASE f.v = g.v /\ f.i <= g.i
      <4>1. f.v = g.v /\ f.i = 0 /\ g.i = 0
        BY <1>1, <2>2, <3>2 DEF FromParts
      <4>2. f = g
        BY <4>1 DEF Pair
      <4>3. QED
        BY <4>2, <2>2 DEF Within
    <3>3. QED
      BY <2>2, <3>1, <3>2 DEF AtMost
  <2>3. CASE f = FromParts(Following(b, g.v), 0) /\ g.i = BlockSize /\ AtMost(g, h)
    <3>1. CASE g.v < h.v
      <4>1. Following(b, g.v) <= h.v
        BY <1>1, <3>1 DEF WordOK, Following
      <4>2. QED
        BY <1>1, <2>3, <4>1 DEF Within, AtMost, FromParts, Following
    <3>2. CASE g.v = h.v /\ g.i <= h.i
      BY <1>1, <2>3, <3>2 DEF Within, WordOK
    <3>3. QED
      BY <2>3, <3>1, <3>2 DEF AtMost
  <2>4. CASE g.i = BlockSize /\ g = FromParts(Following(b, h.v), 0)
    BY <1>1, <2>4 DEF FromParts
  <2>5. QED
    BY <1>3, <2>1, <2>2, <2>3, <2>4 DEF Within
<1>4. QED
  BY <1>2, <1>3

(* A turn of the ring keeps the order of the words of a block.             *)
LEMMA TurnLemma ==
    ASSUME NEW b \in Blocks, NEW f \in Pair, NEW g \in Pair, WordOK(b, f), WordOK(b, g)
    PROVE  /\ Turn(b, g) \in Pair /\ WordOK(b, Turn(b, g))
           /\ Within(b, f, g) => Within(b, Turn(b, f), Turn(b, g))
<1>1. BlockSize \in Nat \ {0} /\ f.v \in Nat /\ g.v \in Nat /\ f.i \in Nat /\ g.i \in Nat
  BY DEF Pair
<1>2. \A v \in Nat : Following(b, v) \in Nat /\ (b # 0 => Following(b, v) # 1)
  BY DEF Following
<1>3. Turn(b, g) \in Pair /\ WordOK(b, Turn(b, g))
  BY <1>1, <1>2 DEF Turn, FromParts, Pair, WordOK
<1>4. CASE AtMost(f, g)
  <2>1. f.v < g.v => Following(b, f.v) < Following(b, g.v)
    BY <1>1 DEF Following, WordOK
  <2>2. QED
    BY <1>1, <1>3, <1>4, <2>1 DEF Within, AtMost, Turn, FromParts
<1>5. CASE f = FromParts(Following(b, g.v), 0) /\ g.i = BlockSize
  BY <1>1, <1>3, <1>5 DEF Within, Turn, FromParts
<1>6. QED
  BY <1>3, <1>4, <1>5 DEF Within

(* A block that was finished within g is opened again within g.            *)
LEMMA OpenWithin ==
    ASSUME NEW b \in Blocks, NEW f \in Pair, NEW g \in Pair, WordOK(b, f), WordOK(b, g),
           f.i = BlockSize, Within(b, f, g)
    PROVE  Within(b, FromParts(Following(b, f.v), 0), g)
<1>1. BlockSize \in Nat \ {0} /\ f.v \in Nat /\ g.v \in Nat /\ f.i \in Nat /\ g.i \in Nat
  BY DEF Pair
<1>2. AtMost(f, g)
  BY <1>1 DEF Within, FromParts
<1>3. CASE f.v < g.v
  <2>1. Following(b, f.v) <= g.v /\ Following(b, f.v) \in Nat
    BY <1>1, <1>3 DEF WordOK, Following
  <2>2. QED
    BY <1>1, <2>1 DEF Within, AtMost, FromParts
<1>4. CASE f.v = g.v /\ f.i <= g.i
  BY <1>1, <1>4 DEF Within, WordOK
<1>5. QED
  BY <1>2, <1>3, <1>4 DEF AtMost
-----------------------------------------------------------------------------
(* The type of one word.                                                   *)
LEMMA WordTypes ==
    ASSUME TypeOK, NEW l \in Layers, NEW b \in Blocks
    PROVE  take[l][b] \in Pair /\ give[l][b] \in Pair
  BY DEF TypeOK

(* Blocks stay in order when a layer gives.                                *)
LEMMA GiveGrows ==
    ASSUME TypeOK, TypeOK', NEW b \in Blocks, BlockInOrder(b), take' = take,
           \A l \in Layers : /\ WordOK(b, give'[l][b])
                             /\ AtMost(give[l][b], give'[l][b])
                             /\ Within(b, give'[l][b], take[l][b])
    PROVE  BlockInOrder(b)'
<1>1. \A l \in Layers : /\ take[l][b] \in Pair /\ WordOK(b, take[l][b])
                        /\ give[l][b] \in Pair /\ WordOK(b, give[l][b])
                        /\ give'[l][b] \in Pair /\ WordOK(b, give'[l][b])
                        /\ Within(b, give[l][b], give'[l][b])
  <2>1. TAKE l \in Layers
  <2>2. give'[l][b] \in Pair
    BY DEF TypeOK
  <2>3. QED
    BY <2>2, WordTypes, WithinLemma DEF BlockInOrder
<1>2. \A l, m \in Layers : m < l => Within(b, take[l][b], give'[m][b])
  <2>1. TAKE l, m \in Layers
  <2>2. m < l => Within(b, take[l][b], give[m][b])
    BY DEF BlockInOrder
  <2>3. QED
    BY <1>1, <2>2, WithinLemma
<1>3. \A l \in Layers \ {0} : Within(b, take[0][b], Turn(b, give'[l][b]))
  <2>1. TAKE l \in Layers \ {0}
  <2>2. Within(b, take[0][b], Turn(b, give[l][b])) /\ 0 \in Layers
    BY DEF BlockInOrder, Layers
  <2>3. /\ Within(b, Turn(b, give[l][b]), Turn(b, give'[l][b]))
        /\ Turn(b, give[l][b]) \in Pair /\ WordOK(b, Turn(b, give[l][b]))
        /\ Turn(b, give'[l][b]) \in Pair /\ WordOK(b, Turn(b, give'[l][b]))
    BY <1>1, TurnLemma
  <2>4. QED
    BY <1>1, <2>2, <2>3, WithinLemma
<1>4. QED
  BY <1>1, <1>2, <1>3 DEF BlockInOrder

(* A layer is within what it may take.                                     *)
LEMMA AheadLemma ==
    ASSUME TypeOK, NEW b \in Blocks, BlockInOrder(b), NEW k \in Layers
    PROVE  /\ Ahead(k, b) \in Pair /\ WordOK(b, Ahead(k, b))
           /\ Within(b, take[k][b], Ahead(k, b))
<1>1. Chased(k) \in Layers /\ (k # 0 => Chased(k) < k) /\ (k = 0 => Chased(k) # 0)
  BY ChasedLemma DEF Layers
<1>2. give[Chased(k)][b] \in Pair /\ WordOK(b, give[Chased(k)][b])
  BY <1>1, WordTypes DEF BlockInOrder
<1>3. QED
  BY <1>1, <1>2, TurnLemma DEF Ahead, BlockInOrder

(* Blocks stay in order when layer k takes what the layer it chases gave.  *)
LEMMA TakeGrows ==
    ASSUME TypeOK, TypeOK', NEW b \in Blocks, BlockInOrder(b), give' = give, NEW k \in Layers,
           \A l \in Layers \ {k} : take'[l][b] = take[l][b],
           WordOK(b, take'[k][b]), AtMost(take[k][b], take'[k][b]),
           Within(b, take'[k][b], Ahead(k, b))
    PROVE  BlockInOrder(b)'
<1>1. \A l \in Layers : /\ take[l][b] \in Pair /\ WordOK(b, take[l][b])
                        /\ give[l][b] \in Pair /\ WordOK(b, give[l][b])
                        /\ take'[l][b] \in Pair /\ WordOK(b, take'[l][b])
                        /\ Within(b, give[l][b], take[l][b])
                        /\ Within(b, take[l][b], take'[l][b])
  <2>1. TAKE l \in Layers
  <2>2. take'[l][b] \in Pair
    BY DEF TypeOK
  <2>3. WordOK(b, take'[l][b]) /\ (l # k => take'[l][b] = take[l][b])
    BY DEF BlockInOrder
  <2>4. QED
    BY <2>2, <2>3, WordTypes, WithinLemma DEF BlockInOrder
<1>2. \A l \in Layers : Within(b, give[l][b], take'[l][b])
  BY <1>1, WithinLemma
<1>3. \A l, m \in Layers : m < l => Within(b, take'[l][b], give[m][b])
  <2>1. SUFFICES ASSUME NEW l \in Layers, NEW m \in Layers, m < l
                 PROVE  Within(b, take'[l][b], give[m][b])
    OBVIOUS
  <2>2. CASE l # k
    BY <2>1, <2>2 DEF BlockInOrder
  <2>3. CASE l = k
    <3>1. k # 0 /\ k - 1 \in Layers /\ Chased(k) = k - 1 /\ m \in Int /\ m <= k - 1
      BY <2>1, <2>3, ChasedLemma DEF Layers
    <3>2. Within(b, take'[k][b], give[k - 1][b])
      BY <3>1 DEF Ahead
    <3>3. CASE m = k - 1
      BY <2>3, <3>2, <3>3
    <3>4. CASE m < k - 1
      <4>1. Within(b, take[k - 1][b], give[m][b])
        BY <3>1, <3>4 DEF BlockInOrder
      <4>2. Within(b, give[k - 1][b], give[m][b])
        BY <4>1, <3>1, <1>1, WithinLemma
      <4>3. QED
        BY <4>2, <3>1, <3>2, <2>3, <1>1, WithinLemma
    <3>5. QED
      BY <3>1, <3>3, <3>4 DEF Layers
  <2>4. QED
    BY <2>2, <2>3
<1>4. \A l \in Layers \ {0} : Within(b, take'[0][b], Turn(b, give[l][b]))
  <2>1. SUFFICES ASSUME NEW l \in Layers \ {0}
                 PROVE  Within(b, take'[0][b], Turn(b, give[l][b]))
    OBVIOUS
  <2>2. CASE k # 0
    BY <2>2 DEF BlockInOrder, Layers
  <2>3. CASE k = 0
    <3> DEFINE last == NumLayers - 1
    <3>1. last \in Layers /\ Chased(k) = last /\ 0 \in Layers /\ l <= last
      BY <2>3, ChasedLemma DEF Layers
    <3>2. Within(b, take'[0][b], Turn(b, give[last][b]))
      BY <2>3, <3>1 DEF Ahead
    <3>3. CASE l = last
      BY <3>2, <3>3
    <3>4. CASE l < last
      <4> HIDE DEF last
      <4>1. Within(b, take[last][b], give[l][b])
        BY <3>1, <3>4 DEF BlockInOrder
      <4>2. Within(b, give[last][b], give[l][b])
        BY <4>1, <3>1, <1>1, WithinLemma
      <4>3. /\ Within(b, Turn(b, give[last][b]), Turn(b, give[l][b]))
            /\ Turn(b, give[last][b]) \in Pair /\ WordOK(b, Turn(b, give[last][b]))
            /\ Turn(b, give[l][b]) \in Pair /\ WordOK(b, Turn(b, give[l][b]))
        BY <4>2, <3>1, <1>1, TurnLemma
      <4>4. QED
        BY <4>3, <3>1, <3>2, <1>1, WithinLemma
    <3>5. QED
      BY <3>1, <3>3, <3>4 DEF Layers
  <2>4. QED
    BY <2>2, <2>3
<1>5. QED
  BY <1>1, <1>2, <1>3, <1>4 DEF BlockInOrder
-----------------------------------------------------------------------------
(* A thread changes its own variables and the words of its own layer only, *)
(* and no give ever decreases.                                             *)
Alone(t) ==
    /\ \A u \in Threads \ {t} : pc'[u] = pc[u] /\ head'[u] = head[u] /\ seen'[u] = seen[u]
    /\ \A l \in Layers \ {Layer(t)} :
          heads'[l] = heads[l] /\ take'[l] = take[l] /\ give'[l] = give[l]
    /\ \A l \in Layers, b \in Blocks : AtMost(give[l][b], give'[l][b])

(* Every step of a thread is such a step.                                  *)
LEMMA AloneLemma == ASSUME TypeOK, NEW t \in Threads, Step(t) PROVE Alone(t)
<1>1. \A u \in Threads \ {t} : pc'[u] = pc[u] /\ head'[u] = head[u] /\ seen'[u] = seen[u]
  <2>1. CASE Reserve(t)
    BY <2>1 DEF Reserve, StartTransform, LoadHead, LoadTake, ReportNotAvailable,
       LoadChasingGive, ReportBusy, LoadChasingTake, MaxTake, Return, Leave, Goto, TypeOK
  <2>2. CASE Work(t)
    BY <2>2 DEF Work, Transform, IncrGive, Return, Leave, Goto, TypeOK
  <2>3. CASE Advance(t)
    BY <2>3 DEF Advance, CheckChasingGive, ReportBusyAdvance, CheckChasingTake, LoadOwnGive,
       ResetGive, ResetTake, MaxHead, CompareHead, WriteHead, Return, Leave, Goto, TypeOK
  <2>4. QED
    BY <2>1, <2>2, <2>3 DEF Step
<1>2. /\ \A l \in Layers \ {Layer(t)} :
            heads'[l] = heads[l] /\ take'[l] = take[l] /\ give'[l] = give[l]
      /\ \A l \in Layers, b \in Blocks : AtMost(give[l][b], give'[l][b])
  <2> USE PairFacts, PlaceLemma DEF TypeOK
  <2>1. CASE Reserve(t)
    <3>1. give' = give /\ heads' = heads
      BY <2>1 DEF Reserve, StartTransform, LoadHead, LoadTake, ReportNotAvailable,
         LoadChasingGive, ReportBusy, LoadChasingTake, MaxTake, shared
    <3>2. \A l \in Layers \ {Layer(t)} : take'[l] = take[l]
      BY <2>1 DEF Reserve, StartTransform, LoadHead, LoadTake, ReportNotAvailable,
         LoadChasingGive, ReportBusy, LoadChasingTake, MaxTake, Raise, shared
    <3>3. QED
      BY <3>1, <3>2
  <2>2. CASE Transform(t)
    BY <2>2 DEF Transform, shared
  <2>3. CASE IncrGive(t)
    BY <2>3 DEF IncrGive
  <2>4. CASE ResetGive(t)
    BY <2>4 DEF ResetGive, Raise
  <2>5. CASE ResetTake(t)
    BY <2>5 DEF ResetTake, Raise
  <2>6. CASE MaxHead(t)
    BY <2>6 DEF MaxHead
  <2>7. CASE WriteHead(t)
    BY <2>7 DEF WriteHead
  <2>8. CASE \/ CheckChasingGive(t) \/ ReportBusyAdvance(t) \/ CheckChasingTake(t)
             \/ LoadOwnGive(t) \/ CompareHead(t)
    BY <2>8 DEF CheckChasingGive, ReportBusyAdvance, CheckChasingTake, LoadOwnGive,
       CompareHead, shared
  <2>9. QED
    BY <2>1, <2>2, <2>3, <2>4, <2>5, <2>6, <2>7, <2>8 DEF Step, Work, Advance
<1>3. QED
  BY <1>1, <1>2 DEF Alone

(* Nothing a thread relies on is disturbed by a step of another layer.     *)
Undisturbed(t) == TakeFollowsHead(t) /\ GiveFollowsTake(t) /\ Knows(t)

(* What the end of a closure does to all but its slot.                     *)
ClosureEnds(t) == /\ pc[t] = "transform"
                  /\ Goto(t, "incr_give")
                  /\ UNCHANGED <<shared, head, seen, mark>>

(* However a closure ends, that is such a step too.                        *)
LEMMA ClosureAlone == ASSUME TypeOK, NEW t \in Threads, ClosureEnds(t) PROVE Alone(t)
<1>1. \A l \in Layers, b \in Blocks : AtMost(give[l][b], give[l][b])
  BY PairFacts, WordTypes
<1>2. QED
  BY <1>1 DEF ClosureEnds, Alone, Goto, TypeOK, shared

(* What was granted stays granted.                                         *)
LEMMA GrantKept ==
    ASSUME TypeOK, TypeOK', NEW t \in Threads, NEW u \in Threads, OrderInv, Alone(t),
           \A b \in Blocks : BlockInOrder(b)', u # t,
           pc[u] \in {"load_chasing_take", "max_take"}
    PROVE  Granted(u)'
<1>1. PICK b \in Blocks, k \in Layers : b = Block(u) /\ k = Layer(u) /\ Chased(k) \in Layers
  BY PlaceLemma
<1>2. BlockInOrder(b) /\ BlockInOrder(b)'
  BY DEF OrderInv
<1>3. Granted(u) /\ take[k][b] = seen[u] /\ seen[u].i < BlockSize
  BY <1>1 DEF OrderInv, Knows
<1>4. After(u)' = After(u) /\ Block(u)' = b /\ Layer(u)' = k
  BY <1>1 DEF Alone, After, Block, Layer
<1>5. After(u) \in Pair /\ WordOK(b, After(u))
  <2>1. take[k][b] \in Pair /\ WordOK(b, take[k][b])
    BY <1>2, WordTypes DEF BlockInOrder
  <2>2. seen[u] \in Pair /\ WordOK(b, seen[u])
    BY <1>3, <2>1
  <2>3. QED
    BY <2>2, <1>3 DEF After, WordOK, Pair, FromParts
<1>6. /\ give[Chased(k)][b] \in Pair /\ WordOK(b, give[Chased(k)][b])
      /\ give'[Chased(k)][b] \in Pair /\ WordOK(b, give'[Chased(k)][b])
      /\ AtMost(give[Chased(k)][b], give'[Chased(k)][b])
  BY <1>1, <1>2, WordTypes DEF BlockInOrder, TypeOK, Alone
<1>7. /\ Ahead(k, b) \in Pair /\ WordOK(b, Ahead(k, b))
      /\ Ahead(k, b)' \in Pair /\ WordOK(b, Ahead(k, b)')
      /\ Within(b, Ahead(k, b), Ahead(k, b)')
  <2>1. Within(b, give[Chased(k)][b], give'[Chased(k)][b])
    BY <1>6, WithinLemma
  <2>2. CASE k = 0
    <3>1. Ahead(k, b) = Turn(b, give[Chased(k)][b])
          /\ Ahead(k, b)' = Turn(b, give'[Chased(k)][b])
      BY <2>2 DEF Ahead, Turn
    <3>2. QED
      BY <3>1, <2>1, <1>6, TurnLemma
  <2>3. CASE k # 0
    <3>1. Ahead(k, b) = give[Chased(k)][b] /\ Ahead(k, b)' = give'[Chased(k)][b]
      BY <2>3 DEF Ahead
    <3>2. QED
      BY <3>1, <2>1, <1>6
  <2>4. QED
    BY <2>2, <2>3
<1>8. Within(b, After(u), Ahead(k, b))
  BY <1>1, <1>3 DEF Granted
<1>9. Within(b, After(u), Ahead(k, b)')
  BY <1>5, <1>7, <1>8, WithinLemma
<1>10. QED
  BY <1>4, <1>9 DEF Granted

(* What a thread relies on, it can still rely on after another's step.     *)
LEMMA OthersKept ==
    ASSUME OneThreadPerLayer, TypeOK, TypeOK', NEW t \in Threads, NEW u \in Threads,
           OrderInv, Alone(t), \A b \in Blocks : BlockInOrder(b)', u # t
    PROVE  Undisturbed(u)'
<1>1. Layer(u) \in Layers \ {Layer(t)}
  BY PlaceLemma DEF OneThreadPerLayer
<1>2. /\ pc'[u] = pc[u] /\ head'[u] = head[u] /\ seen'[u] = seen[u]
      /\ heads'[Layer(u)] = heads[Layer(u)] /\ take'[Layer(u)] = take[Layer(u)]
      /\ give'[Layer(u)] = give[Layer(u)] /\ Layer(u)' = Layer(u)
  BY <1>1 DEF Alone, Layer
<1>3. Block(u)' = Block(u) /\ NextBlock(u)' = NextBlock(u) /\ NextHead(u)' = NextHead(u)
  BY <1>2 DEF Block, NextBlock, NextHead
<1>4. TakeFollowsHead(u)'
  <2>1. Reached(u)' = Reached(u)
    BY <1>2, <1>3 DEF Reached
  <2>2. TakeFollowsHead(u)
    BY DEF OrderInv
  <2>3. QED
    BY <1>2, <2>1, <2>2 DEF TakeFollowsHead
<1>5. GiveFollowsTake(u)'
  <2>1. GiveFollowsTake(u)
    BY DEF OrderInv
  <2>2. QED
    BY <1>2, <1>3, <2>1 DEF GiveFollowsTake, Holding
<1>6. Knows(u)'
  <2>1. Knows(u)
    BY DEF OrderInv
  <2>2. pc[u] \in {"load_chasing_take", "max_take"} => Granted(u)'
    BY GrantKept
  <2>3. QED
    BY <1>2, <1>3, <2>1, <2>2 DEF Knows, Holding, After, Opened
<1>7. QED
  BY <1>4, <1>5, <1>6 DEF Undisturbed
-----------------------------------------------------------------------------
(* Where version_inc_add takes the head.                                   *)
LEMMA NextLemma ==
    ASSUME TypeOK, NEW t \in Threads
    PROVE  \/ /\ head[t].i + 1 < NumBlocks /\ NextBlock(t) = head[t].i + 1
              /\ NextHead(t) = FromParts(head[t].v, head[t].i + 1)
           \/ /\ head[t].i + 1 = NumBlocks /\ NextBlock(t) = 0
              /\ NextHead(t) = FromParts(head[t].v + 1, 0)
<1>1. head[t].i \in 0 .. NumBlocks - 1 /\ head[t].v \in Nat
  BY DEF TypeOK, Blocks
<1>2. CASE head[t].i + 1 < NumBlocks
  BY <1>1, <1>2, WrapLemma DEF NextBlock, NextHead, VersionIncAdd, FromParts
<1>3. CASE head[t].i + 1 = NumBlocks
  BY <1>1, <1>3, WrapLemma DEF NextBlock, NextHead, VersionIncAdd, FromParts
<1>4. QED
  BY <1>1, <1>2, <1>3

(* The next block is as the ring was built, or the layer finished it in    *)
(* the version before.                                                     *)
LEMMA OpenedLemma ==
    ASSUME TypeOK, OrderInv, NEW t \in Threads,
           pc[t] \in {"load_own_give", "reset_give", "reset_take"}
    PROVE  LET b == NextBlock(t)
               word == take[Layer(t)][b]
           IN  /\ Opened(t) \in Pair /\ WordOK(b, Opened(t))
               /\ \/ head[t].v = 0 /\ b # 0 /\ word = Zero /\ Opened(t) = Zero
                  \/ /\ word.i = BlockSize
                     /\ Opened(t) = FromParts(head[t].v + 1, 0)
                     /\ Opened(t) = FromParts(Following(b, word.v), 0)
<1> DEFINE h == head[t]
           b == NextBlock(t)
           word == take[Layer(t)][b]
<1>1. /\ h = heads[Layer(t)] /\ take[Layer(t)][h.i].i = BlockSize
      /\ Reached(t) = h /\ TakeFollowsHead(t)
  BY DEF OrderInv, Knows, Reached, Block
<1>2. h \in Heads /\ h.v \in Nat /\ h.i \in 0 .. NumBlocks - 1 /\ b \in Blocks
      /\ word \in Pair
  BY PlaceLemma, WordTypes DEF TypeOK, Heads, Blocks
<1>3. CASE h.i + 1 < NumBlocks
  <2>1. b = h.i + 1 /\ Opened(t) = FromParts(VersionIn(b, h.v), 0) /\ b > h.i /\ b # 0
    BY <1>2, <1>3, NextLemma DEF Opened, FromParts
  <2>2. word = IF h.v = 0 THEN Zero ELSE FromParts(VersionIn(b, h.v - 1), BlockSize)
    BY <1>1, <1>2, <2>1 DEF TakeFollowsHead
  <2>3. CASE h.v = 0
    BY <2>1, <2>2, <2>3 DEF VersionIn, Zero, FromParts, WordOK, Pair
  <2>4. CASE h.v # 0
    <3>1. VersionIn(b, h.v) = h.v + 1 /\ Following(b, VersionIn(b, h.v - 1)) = h.v + 1
      BY <1>2, <2>1, <2>4 DEF VersionIn, Following
    <3>2. word.i = BlockSize /\ word.v = VersionIn(b, h.v - 1)
      BY <2>2, <2>4 DEF FromParts
    <3>3. Opened(t) = FromParts(h.v + 1, 0) /\ Opened(t) = FromParts(Following(b, word.v), 0)
      BY <2>1, <3>1, <3>2
    <3>4. Opened(t) \in Pair /\ WordOK(b, Opened(t))
      BY <1>2, <2>4, <3>3 DEF Pair, FromParts, WordOK
    <3>5. QED
      BY <3>2, <3>3, <3>4
  <2>5. QED
    BY <2>3, <2>4
<1>4. CASE h.i + 1 = NumBlocks
  <2>1. b = 0 /\ Opened(t) = FromParts(h.v + 1, 0)
    BY <1>2, <1>4, NextLemma DEF Opened, FromParts, VersionIn
  <2>2. word.v = h.v /\ word.i = BlockSize
    <3>1. CASE h.i = 0
      BY <1>1, <1>2, <2>1, <3>1 DEF TakeFollowsHead, VersionIn
    <3>2. CASE h.i > 0
      <4>1. b \in Blocks /\ b < h.i
        BY <1>2, <2>1, <3>2
      <4>2. word = FromParts(VersionIn(b, h.v), BlockSize)
        BY <1>1, <4>1 DEF TakeFollowsHead
      <4>3. QED
        BY <2>1, <4>2 DEF VersionIn, FromParts
    <3>3. QED
      BY <1>2, <3>1, <3>2
  <2>3. Opened(t) \in Pair /\ WordOK(b, Opened(t))
    BY <1>2, <2>1 DEF Pair, FromParts, WordOK
  <2>4. QED
    BY <2>1, <2>2, <2>3 DEF Following
<1>5. QED
  BY <1>2, <1>3, <1>4

(* Opening the next block raises its words to Opened, and is within what   *)
(* the layer took of it.                                                   *)
LEMMA OpenedRaises ==
    ASSUME TypeOK, OrderInv, NEW t \in Threads, NEW b \in Blocks, b = NextBlock(t),
           pc[t] \in {"load_own_give", "reset_give", "reset_take"}
    PROVE  /\ Opened(t) \in Pair /\ WordOK(b, Opened(t))
           /\ AtMost(take[Layer(t)][b], Opened(t))
           /\ MaxPair(take[Layer(t)][b], Opened(t)) = Opened(t)
           /\ Within(b, Opened(t), take[Layer(t)][b])
<1>1. take[Layer(t)][b] \in Pair
  BY PlaceLemma, WordTypes
<1>2. Opened(t) \in Pair /\ WordOK(b, Opened(t))
  BY OpenedLemma
<1>3. AtMost(take[Layer(t)][b], Opened(t)) /\ Within(b, Opened(t), take[Layer(t)][b])
  <2>1. CASE take[Layer(t)][b] = Zero /\ Opened(t) = Zero
    BY <2>1, <1>2, WithinLemma, AtMostIsOrder
  <2>2. CASE /\ take[Layer(t)][b].i = BlockSize
             /\ Opened(t) = FromParts(Following(b, take[Layer(t)][b].v), 0)
    BY <1>1, <2>2 DEF Within, AtMost, FromParts, Following, Pair
  <2>3. QED
    BY <2>1, <2>2, OpenedLemma
<1>4. QED
  BY <1>2, <1>3 DEF MaxPair
-----------------------------------------------------------------------------
(* A step that leaves the shared words alone and the thread neither        *)
(* holding a slot nor opening a block.                                     *)
LEMMA QuietKeeps ==
    ASSUME TypeOK, OrderInv, NEW t \in Threads, UNCHANGED shared,
           pc[t] \notin {"transform", "incr_give", "reset_take", "max_head", "write_head"},
           pc'[t] \notin {"transform", "incr_give", "reset_take", "max_head", "write_head"}
    PROVE  /\ \A b \in Blocks : BlockInOrder(b)'
           /\ TakeFollowsHead(t)' /\ GiveFollowsTake(t)'
<1>1. TakeFollowsHead(t) /\ GiveFollowsTake(t) /\ \A b \in Blocks : BlockInOrder(b)
  BY DEF OrderInv
<1>2. \A b \in Blocks : BlockInOrder(b)'
  BY <1>1 DEF BlockInOrder, shared
<1>3. Reached(t)' = Reached(t) /\ Layer(t)' = Layer(t)
  BY DEF Reached, shared, Layer
<1>4. TakeFollowsHead(t)'
  BY <1>1, <1>3 DEF TakeFollowsHead, shared
<1>5. GiveFollowsTake(t)'
  BY <1>1 DEF GiveFollowsTake, Holding, shared, Layer
<1>6. QED
  BY <1>2, <1>4, <1>5

(* A thread that starts over relies on nothing.                            *)
LEMMA IdleKnows ==
    ASSUME NEW t \in Threads, pc'[t] \in {"idle", "load_head"}
    PROVE  Knows(t)'
  BY DEF Knows, Holding

(* A call starts, or returns with an error.                                *)
LEMMA ReturnKeeps ==
    ASSUME TypeOK, OrderInv, NEW t \in Threads,
           StartTransform(t) \/ ReportNotAvailable(t) \/ ReportBusy(t) \/ ReportBusyAdvance(t)
    PROVE  (\A b \in Blocks : BlockInOrder(b)') /\ Undisturbed(t)'
<1>1. /\ UNCHANGED shared /\ pc'[t] \in {"idle", "load_head"}
      /\ pc[t] \in {"idle", "load_chasing_give", "load_chasing_take", "check_chasing_take"}
  BY DEF StartTransform, ReportNotAvailable, ReportBusy, ReportBusyAdvance, Return, Leave,
     Goto, TypeOK
<1>2. QED
  BY <1>1, QuietKeeps, IdleKnows DEF Undisturbed

(* A thread loads its head and its take.                                   *)
LEMMA LoadsKeep ==
    ASSUME TypeOK, OrderInv, NEW t \in Threads, LoadHead(t) \/ LoadTake(t)
    PROVE  (\A b \in Blocks : BlockInOrder(b)') /\ Undisturbed(t)'
<1>1. UNCHANGED shared /\ Layer(t)' = Layer(t)
  BY DEF LoadHead, LoadTake, Layer
<1>2. CASE LoadHead(t)
  <2>1. pc[t] = "load_head" /\ pc'[t] = "load_take" /\ head'[t] = heads[Layer(t)]
    BY <1>2 DEF LoadHead, Goto, TypeOK
  <2>2. Knows(t)'
    BY <1>1, <2>1 DEF Knows, Holding, shared
  <2>3. QED
    BY <1>1, <2>1, <2>2, QuietKeeps DEF Undisturbed
<1>3. CASE LoadTake(t)
  <2> DEFINE word == take[Layer(t)][Block(t)]
  <2>1. word \in Pair /\ word.i <= BlockSize /\ word.i \in Nat
    BY PlaceLemma, WordTypes DEF OrderInv, BlockInOrder, WordOK, Pair
  <2>2. pc[t] = "load_take" /\ head' = head /\ head[t] = heads[Layer(t)]
    BY <1>3 DEF LoadTake, OrderInv, Knows
  <2>3. \/ pc'[t] = "check_chasing_give" /\ word.i = BlockSize
        \/ pc'[t] = "load_chasing_give" /\ word.i < BlockSize /\ seen'[t] = word
    BY <1>3, <2>1 DEF LoadTake, Goto, TypeOK
  <2>4. Block(t)' = Block(t)
    BY <2>2 DEF Block
  <2>5. Knows(t)'
    BY <1>1, <2>2, <2>3, <2>4 DEF Knows, Holding, shared
  <2>6. QED
    BY <1>1, <2>2, <2>3, <2>5, QuietKeeps DEF Undisturbed
<1>4. QED
  BY <1>2, <1>3

(* A thread that gets past the chasing give was granted the slot.          *)
LEMMA GrantLemma ==
    ASSUME TypeOK, OrderInv, NEW t \in Threads, LoadChasingGive(t)
    PROVE  Granted(t)
<1>1. PICK b \in Blocks, k \in Layers : b = Block(t) /\ k = Layer(t) /\ Chased(k) \in Layers
  BY PlaceLemma
<1> DEFINE g == give[Chased(k)][b]
<1>2. BlockInOrder(b) /\ take[k][b] = seen[t]
  BY <1>1 DEF OrderInv, LoadChasingGive, Knows
<1>3. /\ Within(b, seen[t], Ahead(k, b)) /\ seen[t] \in Pair /\ WordOK(b, seen[t])
      /\ g \in Pair /\ WordOK(b, g)
  BY <1>1, <1>2, AheadLemma, WordTypes DEF BlockInOrder
<1>4. \/ seen[t].v < g.v + ProducerOffset(k)
      \/ seen[t].v = g.v + ProducerOffset(k) /\ seen[t].i # g.i
  <2>1. CASE CaughtUp(t, g)
    <3>1. ~ NotGiven(t, g)
      BY <1>1, <2>1 DEF LoadChasingGive, ChasingGive
    <3>2. QED
      BY <1>1, <1>3, <2>1, <3>1 DEF CaughtUp, NotGiven, ProducerOffset, Pair
  <2>2. CASE ~ CaughtUp(t, g)
    BY <1>1, <1>3, <2>2 DEF CaughtUp, ProducerOffset, Pair
  <2>3. QED
    BY <2>1, <2>2
<1>5. After(t) = FromParts(seen[t].v, seen[t].i + 1) /\ seen[t].v \in Nat /\ seen[t].i \in Nat
      /\ g.v \in Nat /\ g.i \in Nat
  BY <1>3 DEF After, Pair
<1>6. CASE k # 0
  <2>1. Ahead(k, b) = g /\ ProducerOffset(k) = 0
    BY <1>6 DEF Ahead, ProducerOffset
  <2>2. AtMost(After(t), g)
    BY <1>3, <1>4, <1>5, <2>1 DEF Within, AtMost, FromParts, Following
  <2>3. QED
    BY <1>1, <2>1, <2>2 DEF Granted, Within
<1>7. CASE k = 0
  <2>1. Ahead(k, b) = Turn(b, g) /\ ProducerOffset(k) = 1
    BY <1>7 DEF Ahead, ProducerOffset
  <2>2. /\ Turn(b, g).v \in Nat /\ Turn(b, g).v >= g.v + 1 /\ Turn(b, g).i = g.i
        /\ Turn(b, g).v # g.v + 1 => seen[t].v # g.v + 1
    BY <1>3, <1>5 DEF Turn, FromParts, Following, WordOK
  <2>3. seen[t].v < g.v + 1 => AtMost(After(t), Turn(b, g))
    BY <1>5, <2>2 DEF AtMost, FromParts
  <2>4. ASSUME seen[t].v = g.v + 1, seen[t].i # g.i PROVE AtMost(After(t), Turn(b, g))
    <3>1. Turn(b, g).v = seen[t].v
      BY <2>2, <2>4, <1>5
    <3>2. AtMost(seen[t], Turn(b, g))
      BY <1>3, <1>5, <2>1, <3>1 DEF Within, FromParts, Following
    <3>3. QED
      BY <1>5, <2>2, <2>4, <3>1, <3>2 DEF AtMost, FromParts
  <2>5. AtMost(After(t), Turn(b, g))
    BY <1>4, <2>1, <2>3, <2>4
  <2>6. QED
    BY <1>1, <2>1, <2>5 DEF Granted, Within
<1>8. QED
  BY <1>6, <1>7

(* A thread finds its slot granted.                                        *)
LEMMA ChaseKeeps ==
    ASSUME TypeOK, OrderInv, NEW t \in Threads, LoadChasingGive(t) \/ LoadChasingTake(t)
    PROVE  (\A b \in Blocks : BlockInOrder(b)') /\ Undisturbed(t)'
<1>1. /\ UNCHANGED <<shared, head, seen>>
      /\ pc[t] \in {"load_chasing_give", "load_chasing_take"}
      /\ pc'[t] \in {"load_chasing_take", "max_take"}
  BY DEF LoadChasingGive, LoadChasingTake, Goto, TypeOK
<1>2. Granted(t)
  <2>1. CASE LoadChasingGive(t)
    BY <2>1, GrantLemma
  <2>2. CASE LoadChasingTake(t)
    BY <2>2 DEF LoadChasingTake, OrderInv, Knows
  <2>3. QED
    BY <2>1, <2>2
<1>3. Granted(t)' /\ Layer(t)' = Layer(t) /\ Block(t)' = Block(t)
  BY <1>1, <1>2 DEF Granted, Within, After, Ahead, Turn, Block, Layer, shared
<1>4. Knows(t)
  BY DEF OrderInv
<1>5. Knows(t)'
  BY <1>1, <1>3, <1>4 DEF Knows, Holding, shared
<1>6. QED
  BY <1>1, <1>5, QuietKeeps DEF Undisturbed

(* A thread looks at the block it is about to open.                        *)
LEMMA ChecksKeep ==
    ASSUME TypeOK, OrderInv, NEW t \in Threads, CheckChasingGive(t) \/ CheckChasingTake(t)
    PROVE  (\A b \in Blocks : BlockInOrder(b)') /\ Undisturbed(t)'
<1>1. /\ UNCHANGED <<shared, head, seen>>
      /\ pc[t] \in {"check_chasing_give", "check_chasing_take"}
      /\ pc'[t] \in {"check_chasing_take", "load_own_give"}
  BY DEF CheckChasingGive, CheckChasingTake, Goto, TypeOK
<1>2. Knows(t) /\ Block(t)' = Block(t) /\ Layer(t)' = Layer(t)
  BY <1>1 DEF OrderInv, Block, Layer
<1>3. Knows(t)'
  BY <1>1, <1>2 DEF Knows, Holding, shared
<1>4. QED
  BY <1>1, <1>3, QuietKeeps DEF Undisturbed

(* A thread works out the word to open the next block with.                *)
LEMMA LoadOwnGiveKeeps ==
    ASSUME TypeOK, OrderInv, NEW t \in Threads, LoadOwnGive(t)
    PROVE  (\A b \in Blocks : BlockInOrder(b)') /\ Undisturbed(t)'
<1>1. PICK b \in Blocks : b = NextBlock(t)
  BY PlaceLemma
<1>2. UNCHANGED <<shared, head>> /\ pc[t] = "load_own_give" /\ pc'[t] = "reset_give"
  BY DEF LoadOwnGive, Goto, TypeOK
<1>3. give[Layer(t)][b] = take[Layer(t)][b]
  BY <1>1, <1>2 DEF OrderInv, GiveFollowsTake, Holding
<1>4. seen'[t] = Opened(t)
  <2> DEFINE done == give[Layer(t)][b].i >= BlockSize
  <2>1. seen'[t] = FromParts(head[t].v + (IF done THEN 1 ELSE 0), 0) /\ head[t].v \in Nat
    BY <1>1 DEF LoadOwnGive, TypeOK
  <2>2. CASE head[t].v = 0 /\ take[Layer(t)][b] = Zero /\ Opened(t) = Zero
    BY <1>3, <2>1, <2>2 DEF Zero, FromParts
  <2>3. CASE take[Layer(t)][b].i = BlockSize /\ Opened(t) = FromParts(head[t].v + 1, 0)
    BY <1>3, <2>1, <2>3
  <2>4. QED
    BY <1>1, <1>2, <2>2, <2>3, OpenedLemma
<1>5. Knows(t) /\ Block(t)' = Block(t) /\ Layer(t)' = Layer(t) /\ Opened(t)' = Opened(t)
  BY <1>2 DEF OrderInv, Block, Layer, Opened, NextBlock, NextHead
<1>6. Knows(t)'
  BY <1>2, <1>4, <1>5 DEF Knows, Holding, shared
<1>7. QED
  BY <1>2, <1>6, QuietKeeps DEF Undisturbed
-----------------------------------------------------------------------------
(* fetch_max changes the one word it is called on.                         *)
LEMMA RaiseChanges ==
    ASSUME NEW word \in [Layers -> [Blocks -> Pair]], NEW t \in Threads, NEW k \in Layers,
           k = Layer(t), NEW b \in Blocks, NEW field
    PROVE  /\ Raise(word, t, b, field)[k][b] = MaxPair(word[k][b], field)
           /\ \A l \in Layers, c \in Blocks :
                 l # k \/ c # b => Raise(word, t, b, field)[l][c] = word[l][c]
  BY DEF Raise

(* A block whose words do not change stays in order.                       *)
LEMMA BlockKept ==
    ASSUME NEW b \in Blocks, BlockInOrder(b),
           \A l \in Layers : take'[l][b] = take[l][b] /\ give'[l][b] = give[l][b]
    PROVE  BlockInOrder(b)'
<1>1. 0 \in Layers
  BY DEF Layers
<1>2. QED
  BY <1>1 DEF BlockInOrder, Within, Turn, WordOK

(* A thread takes the slot it was granted.                                 *)
LEMMA MaxTakeKeeps ==
    ASSUME TypeOK, TypeOK', OrderInv, NEW t \in Threads, MaxTake(t)
    PROVE  (\A b \in Blocks : BlockInOrder(b)') /\ Undisturbed(t)'
<1>1. PICK b \in Blocks, k \in Layers : b = Block(t) /\ k = Layer(t) /\ Chased(k) \in Layers
  BY PlaceLemma
<1>2. /\ take[k][b] = seen[t] /\ seen[t].i < BlockSize /\ Granted(t) /\ BlockInOrder(b)
      /\ head[t] = heads[k]
  BY <1>1 DEF MaxTake, OrderInv, Knows
<1>3. seen[t] \in Pair /\ WordOK(b, seen[t])
  BY <1>2, WordTypes DEF BlockInOrder
<1>4. /\ Incr(IndexSpan, seen[t]) = After(t) /\ After(t) \in Pair /\ WordOK(b, After(t))
      /\ AtMost(seen[t], After(t)) /\ After(t).v = seen[t].v
  BY <1>2, <1>3 DEF Incr, After, FromParts, Pair, WordOK, AtMost
<1>5. take'[k][b] = After(t)
      /\ \A l \in Layers, c \in Blocks : l # k \/ c # b => take'[l][c] = take[l][c]
  <2>1. take' = Raise(take, t, b, After(t)) /\ take \in [Layers -> [Blocks -> Pair]]
    BY <1>1, <1>4 DEF MaxTake, TypeOK
  <2>2. MaxPair(take[k][b], After(t)) = After(t)
    BY <1>2, <1>4 DEF MaxPair
  <2>3. QED
    BY <1>1, <2>1, <2>2, RaiseChanges
<1>6. /\ UNCHANGED <<heads, give, head, seen>>
      /\ pc[t] = "max_take" /\ pc'[t] = "transform"
  BY <1>1, <1>2 DEF MaxTake, Goto, TypeOK
<1>7. \A c \in Blocks : BlockInOrder(c)'
  <2>1. TAKE c \in Blocks
  <2>2. CASE c = b
    <3>1. Within(b, After(t), Ahead(k, b))
      BY <1>1, <1>2 DEF Granted
    <3>2. QED
      BY <1>2, <1>4, <1>5, <1>6, <2>2, <3>1, TakeGrows
  <2>3. CASE c # b
    BY <1>5, <1>6, <2>3, BlockKept DEF OrderInv
  <2>4. QED
    BY <2>2, <2>3
<1>8. b = heads[k].i /\ Layer(t)' = k /\ Block(t)' = b /\ After(t)' = After(t)
  BY <1>1, <1>2, <1>6 DEF Block, Layer, After
<1>9. TakeFollowsHead(t)'
  <2>1. TakeFollowsHead(t) /\ Reached(t) = heads[k] /\ Reached(t)' = heads[k]
    BY <1>1, <1>6, <1>8 DEF OrderInv, Reached
  <2>2. \A c \in Blocks : take'[k][c].v = take[k][c].v /\ (c # b => take'[k][c] = take[k][c])
    BY <1>2, <1>4, <1>5
  <2>3. heads[k].i \in Int /\ \A c \in Blocks : c \in Int
    BY DEF TypeOK, Blocks
  <2>4. QED
    BY <1>1, <1>8, <2>1, <2>2, <2>3 DEF TakeFollowsHead
<1>10. GiveFollowsTake(t)'
  <2>1. \A c \in Blocks : give[k][c] = take[k][c]
    BY <1>1, <1>6 DEF OrderInv, GiveFollowsTake, Holding
  <2>2. QED
    BY <1>2, <1>5, <1>6, <1>8, <2>1 DEF GiveFollowsTake, Holding
<1>11. Knows(t)'
  BY <1>2, <1>5, <1>6, <1>8 DEF Knows, Holding
<1>12. QED
  BY <1>7, <1>9, <1>10, <1>11 DEF Undisturbed

(* A closure runs on the slot its thread holds.                            *)
LEMMA ClosureKeeps ==
    ASSUME TypeOK, OrderInv, NEW t \in Threads, ClosureEnds(t)
    PROVE  (\A b \in Blocks : BlockInOrder(b)') /\ Undisturbed(t)'
<1>1. /\ UNCHANGED <<shared, head, seen>> /\ pc[t] = "transform" /\ pc'[t] = "incr_give"
      /\ Layer(t)' = Layer(t) /\ Block(t)' = Block(t) /\ After(t)' = After(t)
      /\ Reached(t)' = Reached(t)
  BY DEF ClosureEnds, Goto, TypeOK, Layer, Block, After, Reached, shared
<1>2. Undisturbed(t) /\ \A b \in Blocks : BlockInOrder(b)
  BY DEF OrderInv, Undisturbed
<1>3. \A b \in Blocks : BlockInOrder(b)'
  BY <1>1, <1>2, BlockKept DEF shared
<1>4. TakeFollowsHead(t)'
  BY <1>1, <1>2 DEF Undisturbed, TakeFollowsHead, shared
<1>5. GiveFollowsTake(t)'
  BY <1>1, <1>2 DEF Undisturbed, GiveFollowsTake, Holding, shared
<1>6. Knows(t)'
  BY <1>1, <1>2 DEF Undisturbed, Knows, Holding, shared
<1>7. QED
  BY <1>3, <1>4, <1>5, <1>6 DEF Undisturbed

(* An entry is dropped.                                                    *)
LEMMA IncrGiveKeeps ==
    ASSUME TypeOK, TypeOK', OrderInv, NEW t \in Threads, IncrGive(t)
    PROVE  (\A b \in Blocks : BlockInOrder(b)') /\ Undisturbed(t)'
<1>1. PICK b \in Blocks, k \in Layers : b = Block(t) /\ k = Layer(t)
  BY PlaceLemma
<1>2. /\ pc[t] = "incr_give" /\ pc'[t] = "idle" /\ UNCHANGED <<heads, take>>
      /\ Layer(t)' = k
  BY <1>1 DEF IncrGive, Return, Leave, Goto, TypeOK, Layer
<1>3. /\ take[k][b] = After(t) /\ give[k][b] = seen[t] /\ BlockInOrder(b)
      /\ \A c \in Blocks \ {b} : give[k][c] = take[k][c]
  BY <1>1, <1>2 DEF OrderInv, Knows, GiveFollowsTake, Holding
<1>4. After(t) \in Pair /\ WordOK(b, After(t)) /\ seen[t] \in Pair
  BY <1>3, WordTypes DEF BlockInOrder
<1>5. Incr(IndexSpan, seen[t]) = After(t) /\ AtMost(seen[t], After(t))
  BY <1>4 DEF Incr, After, FromParts, Pair, WordOK, AtMost
<1>6. give'[k][b] = After(t)
      /\ \A l \in Layers, c \in Blocks : l # k \/ c # b => give'[l][c] = give[l][c]
  BY <1>1, <1>3, <1>5 DEF IncrGive, TypeOK
<1>7. \A c \in Blocks : BlockInOrder(c)'
  <2>1. TAKE c \in Blocks
  <2>2. CASE c = b
    <3>1. \A l \in Layers : /\ WordOK(b, give'[l][b])
                            /\ AtMost(give[l][b], give'[l][b])
                            /\ Within(b, give'[l][b], take[l][b])
      <4>1. TAKE l \in Layers
      <4>2. CASE l = k
        BY <1>3, <1>4, <1>5, <1>6, <4>2, WithinLemma
      <4>3. CASE l # k
        BY <1>3, <1>6, <4>3, WordTypes, PairFacts DEF BlockInOrder
      <4>4. QED
        BY <4>2, <4>3
    <3>2. QED
      BY <1>2, <1>3, <2>2, <3>1, GiveGrows
  <2>3. CASE c # b
    BY <1>2, <1>6, <2>3, BlockKept DEF OrderInv
  <2>4. QED
    BY <2>2, <2>3
<1>8. TakeFollowsHead(t)'
  <2>1. TakeFollowsHead(t) /\ Reached(t)' = Reached(t)
    BY <1>1, <1>2 DEF OrderInv, Reached
  <2>2. QED
    BY <1>1, <1>2, <2>1 DEF TakeFollowsHead
<1>9. GiveFollowsTake(t)'
  BY <1>2, <1>3, <1>6 DEF GiveFollowsTake, Holding
<1>10. QED
  BY <1>2, <1>7, <1>8, <1>9, IdleKnows DEF Undisturbed

(* The give of the next block is reset.                                    *)
LEMMA ResetGiveKeeps ==
    ASSUME TypeOK, TypeOK', OrderInv, NEW t \in Threads, ResetGive(t)
    PROVE  (\A b \in Blocks : BlockInOrder(b)') /\ Undisturbed(t)'
<1>1. PICK b \in Blocks, k \in Layers : b = NextBlock(t) /\ k = Layer(t)
  BY PlaceLemma
<1>2. /\ pc[t] = "reset_give" /\ pc'[t] = "reset_take" /\ UNCHANGED <<heads, take, head, seen>>
      /\ Layer(t)' = k /\ NextBlock(t)' = b /\ Block(t)' = Block(t) /\ Opened(t)' = Opened(t)
  BY <1>1 DEF ResetGive, Goto, TypeOK, Layer, NextBlock, Block, Opened, NextHead
<1>3. /\ seen[t] = Opened(t) /\ BlockInOrder(b) /\ Knows(t) /\ TakeFollowsHead(t)
      /\ \A c \in Blocks : give[k][c] = take[k][c]
  BY <1>1, <1>2 DEF OrderInv, Knows, GiveFollowsTake, Holding
<1>4. /\ Opened(t) \in Pair /\ WordOK(b, Opened(t)) /\ AtMost(take[k][b], Opened(t))
      /\ MaxPair(take[k][b], Opened(t)) = Opened(t) /\ Within(b, Opened(t), take[k][b])
  BY <1>1, <1>2, OpenedRaises
<1>5. give'[k][b] = Opened(t)
      /\ \A l \in Layers, c \in Blocks : l # k \/ c # b => give'[l][c] = give[l][c]
  <2>1. give' = Raise(give, t, b, Opened(t)) /\ give \in [Layers -> [Blocks -> Pair]]
    BY <1>1, <1>3 DEF ResetGive, TypeOK
  <2>2. QED
    BY <1>1, <1>3, <1>4, <2>1, RaiseChanges
<1>6. \A c \in Blocks : BlockInOrder(c)'
  <2>1. TAKE c \in Blocks
  <2>2. CASE c = b
    <3>1. \A l \in Layers : /\ WordOK(b, give'[l][b])
                            /\ AtMost(give[l][b], give'[l][b])
                            /\ Within(b, give'[l][b], take[l][b])
      <4>1. TAKE l \in Layers
      <4>2. CASE l = k
        BY <1>3, <1>4, <1>5, <4>2
      <4>3. CASE l # k
        BY <1>3, <1>5, <4>3, WordTypes, PairFacts DEF BlockInOrder
      <4>4. QED
        BY <4>2, <4>3
    <3>2. QED
      BY <1>2, <1>3, <2>2, <3>1, GiveGrows
  <2>3. CASE c # b
    BY <1>2, <1>5, <2>3, BlockKept DEF OrderInv
  <2>4. QED
    BY <2>2, <2>3
<1>7. TakeFollowsHead(t)'
  <2>1. Reached(t)' = Reached(t)
    BY <1>1, <1>2 DEF Reached
  <2>2. QED
    BY <1>1, <1>2, <1>3, <2>1 DEF TakeFollowsHead
<1>8. GiveFollowsTake(t)'
  BY <1>2, <1>3, <1>5 DEF GiveFollowsTake, Holding
<1>9. Knows(t)'
  BY <1>1, <1>2, <1>3 DEF Knows, Holding
<1>10. QED
  BY <1>6, <1>7, <1>8, <1>9 DEF Undisturbed

(* The next block, opened, is the one the layer has reached.               *)
LEMMA OpenedIsReached ==
    ASSUME TypeOK, OrderInv, NEW t \in Threads, NEW k \in Layers, k = Layer(t),
           NEW b \in Blocks, b = NextBlock(t), pc[t] = "reset_take", take'[k][b] = Opened(t),
           \A c \in Blocks \ {b} : take'[k][c] = take[k][c]
    PROVE  LET n == NextHead(t)
           IN  \A c \in Blocks :
                   /\ c < n.i => take'[k][c] = FromParts(VersionIn(c, n.v), BlockSize)
                   /\ c = n.i => take'[k][c].v = VersionIn(c, n.v)
                   /\ c > n.i => take'[k][c] = IF n.v = 0 THEN Zero
                                               ELSE FromParts(VersionIn(c, n.v - 1), BlockSize)
<1> DEFINE h == head[t]
           n == NextHead(t)
<1>1. h = heads[k] /\ take[k][h.i].i = BlockSize /\ Reached(t) = h /\ TakeFollowsHead(t)
  BY DEF OrderInv, Knows, Reached, Block
<1>2. h.v \in Nat /\ h.i \in Blocks /\ \A c \in Blocks : c \in 0 .. NumBlocks - 1
  BY DEF TypeOK, Blocks
<1>3. \A c \in Blocks :
          /\ c < h.i => take[k][c] = FromParts(VersionIn(c, h.v), BlockSize)
          /\ c = h.i => take[k][c].v = VersionIn(c, h.v)
          /\ c > h.i => take[k][c] = IF h.v = 0 THEN Zero
                                     ELSE FromParts(VersionIn(c, h.v - 1), BlockSize)
  BY <1>1 DEF TakeFollowsHead
<1>4. \A c \in Blocks : c <= h.i => take[k][c] = FromParts(VersionIn(c, h.v), BlockSize)
  <2>1. TAKE c \in Blocks
  <2>2. CASE c < h.i
    BY <1>3, <2>2
  <2>3. CASE c = h.i
    BY <1>1, <1>3, <2>3, WordTypes DEF Pair, FromParts
  <2>4. QED
    BY <1>2, <2>2, <2>3
<1>5. Opened(t).v = VersionIn(b, n.v)
  BY DEF Opened, FromParts
<1>6. CASE h.i + 1 < NumBlocks
  <2>1. b = h.i + 1 /\ n.v = h.v /\ n.i = b
    BY <1>2, <1>6, NextLemma DEF FromParts
  <2>2. \A c \in Blocks : c < b => take'[k][c] = FromParts(VersionIn(c, n.v), BlockSize)
    BY <1>2, <1>4, <2>1
  <2>3. \A c \in Blocks : c > b => take'[k][c] = IF n.v = 0 THEN Zero
                                                 ELSE FromParts(VersionIn(c, n.v - 1), BlockSize)
    <3>1. SUFFICES ASSUME NEW c \in Blocks, c > b
                   PROVE  take'[k][c] = IF h.v = 0 THEN Zero
                                        ELSE FromParts(VersionIn(c, h.v - 1), BlockSize)
      BY <2>1
    <3>2. c > h.i /\ c # b
      BY <1>2, <2>1, <3>1
    <3>3. QED
      BY <1>3, <3>2
  <2>4. QED
    BY <1>5, <2>1, <2>2, <2>3
<1>7. CASE h.i + 1 = NumBlocks
  <2>1. b = 0 /\ n.v = h.v + 1 /\ n.i = b
    BY <1>2, <1>7, NextLemma DEF FromParts
  <2>2. \A c \in Blocks : c > b => take'[k][c] = FromParts(VersionIn(c, h.v), BlockSize)
    <3>1. SUFFICES ASSUME NEW c \in Blocks, c > b
                   PROVE  take'[k][c] = FromParts(VersionIn(c, h.v), BlockSize)
      OBVIOUS
    <3>2. c \in 0 .. NumBlocks - 1 /\ h.i \in 0 .. NumBlocks - 1
      BY <1>2
    <3>3. c <= h.i
      BY <1>7, <3>2
    <3>4. c # b
      BY <2>1, <3>1, <3>2
    <3>5. take[k][c] = FromParts(VersionIn(c, h.v), BlockSize)
      BY <1>4, <3>3
    <3>6. QED
      BY <3>4, <3>5
  <2>3. \A c \in Blocks : ~ (c < b)
    BY <1>2, <2>1
  <2>4. QED
    BY <1>2, <1>5, <2>1, <2>2, <2>3
<1>8. QED
  BY <1>2, <1>6, <1>7

(* The take of the next block is reset.                                    *)
LEMMA ResetTakeKeeps ==
    ASSUME TypeOK, TypeOK', OrderInv, NEW t \in Threads, ResetTake(t)
    PROVE  (\A b \in Blocks : BlockInOrder(b)') /\ Undisturbed(t)'
<1>1. PICK b \in Blocks, k \in Layers : b = NextBlock(t) /\ k = Layer(t)
  BY PlaceLemma
<1>2. /\ pc[t] = "reset_take" /\ pc'[t] = "max_head" /\ UNCHANGED <<heads, give, head, seen>>
      /\ Layer(t)' = k
  BY <1>1 DEF ResetTake, Goto, TypeOK, Layer
<1>3. /\ seen[t] = Opened(t) /\ BlockInOrder(b) /\ Knows(t) /\ give[k][b] = Opened(t)
      /\ \A c \in Blocks \ {b} : give[k][c] = take[k][c]
  BY <1>1, <1>2 DEF OrderInv, Knows, GiveFollowsTake, Holding
<1>4. /\ Opened(t) \in Pair /\ WordOK(b, Opened(t)) /\ AtMost(take[k][b], Opened(t))
      /\ MaxPair(take[k][b], Opened(t)) = Opened(t)
  BY <1>1, <1>2, OpenedRaises
<1>5. take'[k][b] = Opened(t)
      /\ \A l \in Layers, c \in Blocks : l # k \/ c # b => take'[l][c] = take[l][c]
  <2>1. take' = Raise(take, t, b, Opened(t)) /\ take \in [Layers -> [Blocks -> Pair]]
    BY <1>1, <1>3 DEF ResetTake, TypeOK
  <2>2. QED
    BY <1>1, <1>3, <1>4, <2>1, RaiseChanges
<1>6. Within(b, Opened(t), Ahead(k, b))
  <2>1. /\ Ahead(k, b) \in Pair /\ WordOK(b, Ahead(k, b)) /\ Within(b, take[k][b], Ahead(k, b))
        /\ take[k][b] \in Pair /\ WordOK(b, take[k][b])
    BY <1>3, AheadLemma, WordTypes DEF BlockInOrder
  <2>2. CASE take[k][b] = Zero /\ Opened(t) = Zero
    BY <2>1, <2>2
  <2>3. CASE take[k][b].i = BlockSize /\ Opened(t) = FromParts(Following(b, take[k][b].v), 0)
    BY <2>1, <2>3, OpenWithin
  <2>4. QED
    BY <1>1, <1>2, <2>2, <2>3, OpenedLemma
<1>7. \A c \in Blocks : BlockInOrder(c)'
  <2>1. TAKE c \in Blocks
  <2>2. CASE c = b
    BY <1>2, <1>3, <1>4, <1>5, <1>6, <2>2, TakeGrows
  <2>3. CASE c # b
    BY <1>2, <1>5, <2>3, BlockKept DEF OrderInv
  <2>4. QED
    BY <2>2, <2>3
<1>8. NextHead(t)' = NextHead(t) /\ Reached(t)' = NextHead(t)
  BY <1>2 DEF NextHead, Reached
<1>9. TakeFollowsHead(t)'
  BY <1>1, <1>2, <1>5, <1>8, OpenedIsReached DEF TakeFollowsHead
<1>10. GiveFollowsTake(t)'
  BY <1>2, <1>3, <1>5 DEF GiveFollowsTake, Holding
<1>11. Knows(t)'
  BY <1>1, <1>2, <1>3 DEF Knows, Holding
<1>12. QED
  BY <1>7, <1>9, <1>10, <1>11 DEF Undisturbed

(* The head moves on to the block the layer has opened.                    *)
LEMMA HeadKeeps ==
    ASSUME TypeOK, OrderInv, NEW t \in Threads, MaxHead(t) \/ CompareHead(t) \/ WriteHead(t)
    PROVE  (\A b \in Blocks : BlockInOrder(b)') /\ Undisturbed(t)'
<1>1. PICK k \in Layers : k = Layer(t) /\ k = Layer(t)'
  BY PlaceLemma DEF Layer
<1>2. /\ pc[t] \in {"max_head", "write_head"} /\ UNCHANGED <<take, give>>
      /\ Reached(t) = NextHead(t) /\ head[t] = heads[k]
      /\ TakeFollowsHead(t) /\ GiveFollowsTake(t)
  BY <1>1 DEF MaxHead, CompareHead, WriteHead, shared, Reached, OrderInv, Knows
<1>3. /\ head[t] \in Heads /\ head[t] \in Pair /\ NextHead(t) \in Pair /\ NextHead(t) \in Heads
      /\ AtMost(head[t], NextHead(t)) /\ NextHead(t) # head[t]
  <2>1. head[t] \in [v : Nat, i : 0 .. NumBlocks - 1]
    BY DEF TypeOK, Blocks
  <2>2. QED
    BY <2>1, VersionIncAddLemma, PairFacts DEF NextHead, Heads, Blocks
<1>4. Knows(t)' /\ Reached(t)' = NextHead(t)
      /\ pc'[t] \notin {"transform", "incr_give", "reset_take"}
  <2>1. CASE MaxHead(t)
    <3>1. pc'[t] = "load_head" /\ heads'[k] = NextHead(t)
      BY <1>1, <1>2, <1>3, <2>1 DEF MaxHead, Leave, Goto, MaxPair, TypeOK
    <3>2. QED
      BY <1>1, <3>1, IdleKnows DEF Reached
  <2>2. CASE CompareHead(t)
    <3>1. ~ AtMost(NextHead(t), heads[k])
      BY <1>2, <1>3, AtMostIsOrder
    <3>2. pc'[t] = "write_head" /\ UNCHANGED <<heads, head>>
      BY <1>1, <2>2, <3>1 DEF CompareHead, Goto, TypeOK, shared
    <3>3. QED
      BY <1>1, <1>2, <3>2 DEF Knows, Holding, Reached, NextHead
  <2>3. CASE WriteHead(t)
    <3>1. pc'[t] = "load_head" /\ heads'[k] = NextHead(t)
      BY <1>1, <2>3 DEF WriteHead, Leave, Goto, TypeOK
    <3>2. QED
      BY <1>1, <3>1, IdleKnows DEF Reached
  <2>4. QED
    BY <2>1, <2>2, <2>3
<1>5. TakeFollowsHead(t)'
  BY <1>1, <1>2, <1>4 DEF TakeFollowsHead
<1>6. GiveFollowsTake(t)'
  BY <1>1, <1>2, <1>4 DEF GiveFollowsTake, Holding
<1>7. \A b \in Blocks : BlockInOrder(b)'
  BY <1>2, BlockKept DEF OrderInv
<1>8. QED
  BY <1>4, <1>5, <1>6, <1>7 DEF Undisturbed
-----------------------------------------------------------------------------
(* A new ring is in order.                                                 *)
LEMMA OrderInit == Init => OrderInv
<1> SUFFICES ASSUME Init PROVE OrderInv
  OBVIOUS
<1>1. \A l \in Layers, b \in Blocks : take[l][b] = Zero /\ give[l][b] = Zero
  BY DEF Init
<1>2. \A b \in Blocks : BlockInOrder(b)
  <2>1. TAKE b \in Blocks
  <2>2. Zero \in Pair /\ WordOK(b, Zero) /\ Within(b, Zero, Zero) /\ Within(b, Zero, Turn(b, Zero))
    BY DEF Zero, FromParts, Pair, WordOK, Within, AtMost, Turn, Following
  <2>3. 0 \in Layers
    BY DEF Layers
  <2>4. QED
    BY <1>1, <2>2, <2>3 DEF BlockInOrder
<1>3. ASSUME NEW t \in Threads PROVE TakeFollowsHead(t) /\ GiveFollowsTake(t) /\ Knows(t)
  <2>1. pc[t] = "idle" /\ heads[Layer(t)] = Zero /\ Layer(t) \in Layers
    BY DEF Init, Layer
  <2>2. Zero.v = 0 /\ Zero.i = 0 /\ \A b \in Blocks : VersionIn(b, 0) = 0 /\ ~ (b < 0)
    BY DEF Zero, FromParts, VersionIn, Blocks
  <2>3. TakeFollowsHead(t)
    BY <1>1, <2>1, <2>2 DEF TakeFollowsHead, Reached
  <2>4. GiveFollowsTake(t)
    BY <1>1, <2>1 DEF GiveFollowsTake, Holding
  <2>5. Knows(t)
    BY <2>1 DEF Knows, Holding
  <2>6. QED
    BY <2>3, <2>4, <2>5
<1>4. QED
  BY <1>2, <1>3 DEF OrderInv

(* The order is kept when the thread that steps keeps its part of it.      *)
LEMMA OrderKept ==
    ASSUME OneThreadPerLayer, TypeOK, TypeOK', OrderInv, NEW t \in Threads, Alone(t),
           (\A b \in Blocks : BlockInOrder(b)') /\ Undisturbed(t)'
    PROVE  OrderInv'
  BY OthersKept DEF OrderInv, Undisturbed

(* Every step keeps the order.                                             *)
LEMMA OrderStep ==
    ASSUME OneThreadPerLayer, TypeOK, TypeOK', OrderInv, NEW t \in Threads, Step(t)
    PROVE  OrderInv'
<1>1. (\A b \in Blocks : BlockInOrder(b)') /\ Undisturbed(t)'
  BY ReturnKeeps, LoadsKeep, ChaseKeeps, ChecksKeep, LoadOwnGiveKeeps, MaxTakeKeeps,
     ClosureKeeps, IncrGiveKeeps, ResetGiveKeeps, ResetTakeKeeps, HeadKeeps
     DEF Step, Reserve, Work, Advance, Transform, ClosureEnds
<1>2. QED
  BY <1>1, AloneLemma, OrderKept

(* Nothing changes while no thread steps.                                  *)
LEMMA StutterKeeps == ASSUME TypeOK, OrderInv, UNCHANGED vars PROVE TypeOK' /\ OrderInv'
<1>1. \A b \in Blocks : BlockInOrder(b)'
  BY BlockKept DEF OrderInv, vars, shared
<1>2. ASSUME NEW t \in Threads PROVE Undisturbed(t)'
  <2>1. TakeFollowsHead(t) /\ GiveFollowsTake(t) /\ Knows(t)
    BY DEF OrderInv
  <2>2. TakeFollowsHead(t)'
    BY <2>1 DEF vars, shared, locals, TakeFollowsHead, Reached, NextHead, Layer
  <2>3. GiveFollowsTake(t)'
    BY <2>1 DEF vars, shared, locals, GiveFollowsTake, Holding, Block, NextBlock, Layer
  <2>4. Knows(t)'
    BY <2>1 DEF vars, shared, locals, Knows, Holding, Granted, Ahead, After, Opened,
       Within, Turn, Block, NextBlock, NextHead, Layer
  <2>5. QED
    BY <2>2, <2>3, <2>4 DEF Undisturbed
<1>3. TypeOK'
  BY DEF vars, shared, locals, TypeOK
<1>4. QED
  BY <1>1, <1>2, <1>3 DEF OrderInv, Undisturbed

(* OrderInv is inductive: layers stay in order in every block, and a       *)
(* thread knows what its earlier loads told it, if no layer has a second   *)
(* thread.                                                                 *)
THEOREM OrderCorrect == OneThreadPerLayer => (Spec => []OrderInv)
<1> SUFFICES ASSUME OneThreadPerLayer PROVE Spec => []OrderInv
  OBVIOUS
<1>1. TypeOK /\ TypeOK' /\ OrderInv /\ [Next]_vars => OrderInv'
  <2> SUFFICES ASSUME TypeOK, TypeOK', OrderInv, [Next]_vars PROVE OrderInv'
    OBVIOUS
  <2>1. CASE \E t \in Threads : Step(t)
    BY <2>1, OrderStep
  <2>2. CASE UNCHANGED vars
    BY <2>2, StutterKeeps
  <2>3. QED
    BY <2>1, <2>2 DEF Next
<1>2. QED
  BY OrderInit, TypeCorrect, <1>1, PTL DEF Spec

(* A slot handed out to a thread is within what every layer ahead of it    *)
(* gave, and what it gives is a round behind no layer, so the slot is no   *)
(* other thread's.                                                         *)
LEMMA OrderExcludes ==
    ASSUME OneThreadPerLayer, TypeOK, OrderInv, NEW t \in Threads, NEW u \in Threads,
           Layer(u) < Layer(t), Holding(t), Holding(u), Block(t) = Block(u)
    PROVE  seen[t].i # seen[u].i
<1> SUFFICES ASSUME seen[t].i = seen[u].i PROVE FALSE
  OBVIOUS
<1>1. PICK b \in Blocks, l \in Layers, m \in Layers :
          b = Block(t) /\ b = Block(u) /\ l = Layer(t) /\ m = Layer(u) /\ m < l
  BY PlaceLemma
<1>2. 0 \in Layers /\ l # 0 /\ (m = 0 \/ 0 < m)
  BY <1>1 DEF Layers
<1>3. /\ take[l][b] = After(t) /\ give[l][b] = seen[t]
      /\ take[m][b] = After(u) /\ give[m][b] = seen[u] /\ BlockInOrder(b)
  BY <1>1 DEF OrderInv, Knows, GiveFollowsTake
<1>4. \A k \in Layers : /\ take[k][b] \in Pair /\ WordOK(b, take[k][b])
                        /\ give[k][b] \in Pair /\ WordOK(b, give[k][b])
  BY <1>3, WordTypes DEF BlockInOrder
<1>5. /\ seen[t].v \in Nat /\ seen[t].i \in Nat /\ seen[u].v \in Nat /\ seen[u].i \in Nat
      /\ b # 0 => seen[u].v # 1
      /\ After(u).v = seen[u].v /\ After(u).i = seen[u].i + 1
      /\ After(t).v = seen[t].v /\ After(t).i = seen[t].i + 1
  BY <1>1, <1>3, <1>4 DEF Pair, WordOK, After, FromParts
<1>6. seen[t].v < seen[u].v
  <2>1. Within(b, After(t), seen[u])
    BY <1>1, <1>3 DEF BlockInOrder
  <2>2. QED
    BY <2>1, <1>5 DEF Within, AtMost, FromParts
<1>7. Within(b, After(u), Turn(b, seen[t]))
  <2>1. Within(b, take[0][b], Turn(b, give[l][b]))
    BY <1>2, <1>3 DEF BlockInOrder
  <2>2. Within(b, take[m][b], take[0][b])
    <3>1. CASE m = 0
      BY <1>4, <3>1, WithinLemma
    <3>2. CASE 0 < m
      <4>1. Within(b, take[m][b], give[0][b]) /\ Within(b, give[0][b], take[0][b])
        BY <1>2, <1>3, <3>2 DEF BlockInOrder
      <4>2. QED
        BY <1>2, <1>4, <4>1, WithinLemma
    <3>3. QED
      BY <1>2, <3>1, <3>2
  <2>3. Turn(b, give[l][b]) \in Pair /\ WordOK(b, Turn(b, give[l][b]))
    BY <1>4, TurnLemma
  <2>4. Within(b, take[m][b], Turn(b, give[l][b]))
    BY <1>2, <1>4, <2>1, <2>2, <2>3, WithinLemma
  <2>5. QED
    BY <1>3, <2>4
<1>8. QED
  BY <1>5, <1>6, <1>7 DEF Within, AtMost, Turn, FromParts, Following

(* get_ptr's comment: the pointer an entry gives to its slot is the only   *)
(* one, among the threads of all layers, if no layer has a second thread.  *)
THEOREM SlotsExclusive == OneThreadPerLayer => (Spec => []SlotExclusive)
<1> SUFFICES ASSUME OneThreadPerLayer PROVE Spec => []SlotExclusive
  OBVIOUS
<1>1. TypeOK /\ OrderInv => SlotExclusive
  <2> SUFFICES ASSUME TypeOK, OrderInv, NEW t \in Threads, NEW u \in Threads, t # u,
                      Holding(t), Holding(u), Block(t) = Block(u), seen[t].i = seen[u].i
               PROVE  FALSE
    BY DEF SlotExclusive
  <2>1. Layer(t) \in Layers /\ Layer(u) \in Layers /\ Layer(t) # Layer(u)
    BY PlaceLemma DEF OneThreadPerLayer
  <2>2. Layer(u) < Layer(t) \/ Layer(t) < Layer(u)
    BY <2>1 DEF Layers
  <2>3. QED
    BY <2>2, OrderExcludes
<1>2. QED
  BY TypeCorrect, OrderCorrect, <1>1, PTL

(* A layer's give count never runs ahead of its take count, through takes, *)
(* gives and resets, if no layer has a second thread.                      *)
THEOREM GivesWithinTakes == OneThreadPerLayer => (Spec => []GiveWithinTake)
<1> SUFFICES ASSUME OneThreadPerLayer PROVE Spec => []GiveWithinTake
  OBVIOUS
<1> DEFINE Served == \A t \in Threads, b \in Blocks :
                         give[Layer(t)][b].i <= take[Layer(t)][b].i
<1>1. TypeOK /\ OrderInv => Served
  <2> SUFFICES ASSUME TypeOK, OrderInv, NEW t \in Threads, NEW b \in Blocks
               PROVE  give[Layer(t)][b].i <= take[Layer(t)][b].i
    OBVIOUS
  <2>1. take[Layer(t)][b].i \in Nat /\ seen[t].i \in Nat
    BY PlaceLemma, WordTypes DEF TypeOK, Pair
  <2>2. Knows(t) /\ GiveFollowsTake(t)
    BY DEF OrderInv
  <2>3. CASE Holding(t) /\ Block(t) = b
    BY <2>1, <2>2, <2>3 DEF Knows, GiveFollowsTake, After, FromParts
  <2>4. CASE pc[t] = "reset_take" /\ NextBlock(t) = b
    BY <2>1, <2>2, <2>4 DEF Knows, GiveFollowsTake, Opened, FromParts
  <2>5. CASE give[Layer(t)][b] = take[Layer(t)][b]
    BY <2>1, <2>5
  <2>6. QED
    BY <2>2, <2>3, <2>4, <2>5 DEF GiveFollowsTake
<1>2. Init => GiveWithinTake
  BY DEF Init, GiveWithinTake, Zero, FromParts
<1>3. TypeOK /\ GiveWithinTake /\ Served' /\ [Next]_vars => GiveWithinTake'
  <2> SUFFICES ASSUME TypeOK, GiveWithinTake, Served', [Next]_vars PROVE GiveWithinTake'
    OBVIOUS
  <2>1. ASSUME NEW t \in Threads, Step(t) PROVE GiveWithinTake'
    <3>1. \A l \in Layers \ {Layer(t)} : take'[l] = take[l] /\ give'[l] = give[l]
      BY <2>1, AloneLemma DEF Alone
    <3>2. \A b \in Blocks : give'[Layer(t)][b].i <= take'[Layer(t)][b].i
      BY DEF Layer
    <3>3. QED
      BY <3>1, <3>2 DEF GiveWithinTake
  <2>2. CASE UNCHANGED vars
    BY <2>2 DEF vars, shared, GiveWithinTake
  <2>3. QED
    BY <2>1, <2>2 DEF Next
<1>4. QED
  BY TypeCorrect, OrderCorrect, <1>1, <1>2, <1>3, PTL DEF Spec
-----------------------------------------------------------------------------
(* A word further on has no earlier version of a slot pending, and a turn  *)
(* of the ring puts off what is pending by one version.                    *)
LEMMA PendingLemma ==
    ASSUME NEW b \in Blocks, NEW s \in Slots, NEW f \in Pair, NEW g \in Pair,
           WordOK(b, f), WordOK(b, g)
    PROVE  /\ Pending(b, f, s) \in Nat /\ (b # 0 => Pending(b, f, s) # 1)
           /\ Within(b, f, g) => Pending(b, f, s) <= Pending(b, g, s)
           /\ Pending(b, Turn(b, g), s) = Following(b, Pending(b, g, s))
<1>1. /\ s \in Nat /\ s < BlockSize /\ f.v \in Nat /\ g.v \in Nat /\ f.i \in Nat /\ g.i \in Nat
      /\ b # 0 => f.v # 1 /\ g.v # 1
  BY DEF Slots, Pair, WordOK
<1>2. Pending(b, f, s) \in Nat /\ (b # 0 => Pending(b, f, s) # 1)
  BY <1>1 DEF Pending, Following
<1>3. AtMost(f, g) => Pending(b, f, s) <= Pending(b, g, s)
  BY <1>1 DEF AtMost, Pending, Following
<1>4. f = FromParts(Following(b, g.v), 0) /\ g.i = BlockSize =>
          Pending(b, f, s) <= Pending(b, g, s)
  BY <1>1 DEF Pending, Following, FromParts
<1>5. Pending(b, Turn(b, g), s) = Following(b, Pending(b, g, s))
  BY <1>1 DEF Pending, Turn, FromParts
<1>6. QED
  BY <1>2, <1>3, <1>4, <1>5 DEF Within

(* What a layer's closures have done is between its give and its take.     *)
LEMMA WorkedLemma ==
    ASSUME TypeOK, OrderInv, NEW l \in Layers, NEW b \in Blocks
    PROVE  /\ Worked(l, b) \in Pair /\ WordOK(b, Worked(l, b))
           /\ Within(b, give[l][b], Worked(l, b)) /\ Within(b, Worked(l, b), take[l][b])
<1>1. /\ take[l][b] \in Pair /\ WordOK(b, take[l][b]) /\ give[l][b] \in Pair
      /\ WordOK(b, give[l][b]) /\ Within(b, give[l][b], take[l][b])
  BY WordTypes DEF OrderInv, BlockInOrder
<1>2. Worked(l, b) \in {take[l][b], give[l][b]}
  BY DEF Worked
<1>3. QED
  BY <1>1, <1>2, WithinLemma

(* In every slot the layers are in order, and none is more than one        *)
(* version behind the producers.                                           *)
LEMMA TurnsInOrder ==
    ASSUME TypeOK, OrderInv, NEW b \in Blocks, NEW s \in Slots, NEW l \in Layers, NEW m \in Layers
    PROVE  /\ NextTurn(l, b, s) \in Nat /\ (b # 0 => NextTurn(l, b, s) # 1)
           /\ m <= l => NextTurn(l, b, s) <= NextTurn(m, b, s)
           /\ NextTurn(0, b, s) <= Following(b, NextTurn(l, b, s))
<1>1. \A k \in Layers : /\ take[k][b] \in Pair /\ WordOK(b, take[k][b])
                        /\ give[k][b] \in Pair /\ WordOK(b, give[k][b])
                        /\ Worked(k, b) \in Pair /\ WordOK(b, Worked(k, b))
                        /\ Within(b, give[k][b], Worked(k, b))
                        /\ Within(b, Worked(k, b), take[k][b])
  BY WordTypes, WorkedLemma DEF OrderInv, BlockInOrder
<1>2. \A k \in Layers : NextTurn(k, b, s) \in Nat /\ (b # 0 => NextTurn(k, b, s) # 1)
  BY <1>1, PendingLemma DEF NextTurn
<1>3. m <= l => NextTurn(l, b, s) <= NextTurn(m, b, s)
  <2>1. CASE m = l
    BY <1>2, <2>1
  <2>2. CASE m < l
    <3>1. Within(b, take[l][b], give[m][b])
      BY <2>2 DEF OrderInv, BlockInOrder
    <3>2. Within(b, Worked(l, b), give[m][b])
      BY <1>1, <3>1, WithinLemma
    <3>3. Within(b, Worked(l, b), Worked(m, b))
      BY <1>1, <3>2, WithinLemma
    <3>4. QED
      BY <1>1, <3>3, PendingLemma DEF NextTurn
  <2>3. QED
    BY <2>1, <2>2 DEF Layers
<1>4. 0 \in Layers
  BY DEF Layers
<1>5. NextTurn(0, b, s) <= Following(b, NextTurn(l, b, s))
  <2>1. CASE l = 0
    BY <1>2, <1>4, <2>1 DEF Following
  <2>2. CASE l # 0
    <3>1. Within(b, take[0][b], Turn(b, give[l][b]))
      BY <2>2 DEF OrderInv, BlockInOrder
    <3>2. /\ Turn(b, give[l][b]) \in Pair /\ WordOK(b, Turn(b, give[l][b]))
          /\ Turn(b, Worked(l, b)) \in Pair /\ WordOK(b, Turn(b, Worked(l, b)))
          /\ Within(b, Turn(b, give[l][b]), Turn(b, Worked(l, b)))
      BY <1>1, TurnLemma
    <3>3. Within(b, Worked(0, b), Turn(b, give[l][b]))
      BY <1>1, <1>4, <3>1, <3>2, WithinLemma
    <3>4. Within(b, Worked(0, b), Turn(b, Worked(l, b)))
      BY <1>1, <1>4, <3>2, <3>3, WithinLemma
    <3>5. Pending(b, Worked(0, b), s) <= Pending(b, Turn(b, Worked(l, b)), s)
      BY <1>1, <1>4, <3>2, <3>4, PendingLemma
    <3>6. QED
      BY <1>1, <3>5, PendingLemma DEF NextTurn
  <2>3. QED
    BY <2>1, <2>2
<1>6. QED
  BY <1>2, <1>3, <1>5
-----------------------------------------------------------------------------
(* Only its one thread works in a layer.                                   *)
LEMMA WorkedAlone ==
    ASSUME OneThreadPerLayer, NEW t \in Threads, NEW b \in Blocks
    PROVE  Worked(Layer(t), b) = IF pc[t] = "incr_give" /\ Block(t) = b
                                 THEN take[Layer(t)][b] ELSE give[Layer(t)][b]
  BY DEF OneThreadPerLayer, Worked

(* A step of one layer is no progress of another.                          *)
LEMMA OthersWorked ==
    ASSUME NEW t \in Threads, Alone(t), NEW l \in Layers \ {Layer(t)}, NEW b \in Blocks
    PROVE  Worked(l, b)' = Worked(l, b)
  BY DEF Alone, Worked, Block, Layer

(* Only a closure changes which version of a slot is pending.              *)
LEMMA TurnsKept ==
    ASSUME OneThreadPerLayer, TypeOK, TypeOK', OrderInv, NEW t \in Threads, Step(t),
           ~ Transform(t)
    PROVE  /\ entries' = entries
           /\ \A l \in Layers, b \in Blocks, s \in Slots : NextTurn(l, b, s)' = NextTurn(l, b, s)
<1>1. PICK k \in Layers : k = Layer(t) /\ k = Layer(t)'
  BY PlaceLemma DEF Layer
<1>2. \A l \in Layers \ {k}, b \in Blocks : Worked(l, b)' = Worked(l, b)
  BY <1>1, AloneLemma, OthersWorked
<1>3. \A b \in Blocks :
          Worked(k, b) = IF pc[t] = "incr_give" /\ Block(t) = b THEN take[k][b] ELSE give[k][b]
  BY <1>1, WorkedAlone
<1>4. \A b \in Blocks :
          Worked(k, b)' = IF pc'[t] = "incr_give" /\ Block(t)' = b
                          THEN take'[k][b] ELSE give'[k][b]
  BY <1>1 DEF OneThreadPerLayer, Worked, Layer
<1>5. CASE IncrGive(t)
  <2>1. pc[t] = "incr_give" /\ pc'[t] = "idle" /\ take' = take /\ entries' = entries
    BY <1>5 DEF IncrGive, Return, Leave, Goto, TypeOK
  <2>2. \A b \in Blocks : Block(t) # b => give[k][b] = take[k][b]
    BY <1>1, <2>1 DEF OrderInv, GiveFollowsTake, Holding
  <2>3. \A b \in Blocks : give'[k][b] = take[k][b]
    BY <1>1, <1>5, <2>1, IncrGiveKeeps DEF Undisturbed, GiveFollowsTake, Holding
  <2>4. \A b \in Blocks : Worked(k, b)' = Worked(k, b)
    BY <1>3, <1>4, <2>1, <2>2, <2>3
  <2>5. QED
    BY <1>2, <2>1, <2>4 DEF NextTurn, Pending
<1>6. CASE ResetGive(t)
  <2>1. /\ pc[t] = "reset_give" /\ pc'[t] = "reset_take" /\ UNCHANGED <<take, entries, head, seen>>
        /\ NextBlock(t)' = NextBlock(t) /\ seen[t] = Opened(t)
    BY <1>6 DEF ResetGive, Goto, TypeOK, NextBlock, OrderInv, Knows
  <2>2. \A b \in Blocks : give[k][b] = take[k][b]
    BY <1>1, <2>1 DEF OrderInv, GiveFollowsTake, Holding
  <2>3. \A b \in Blocks :
            give'[k][b] = IF NextBlock(t) = b THEN Opened(t) ELSE take[k][b]
    BY <1>1, <1>6, <2>1, ResetGiveKeeps DEF Undisturbed, GiveFollowsTake, Holding
  <2>4. \A s \in Slots : LET b == NextBlock(t)
                         IN  Pending(b, Opened(t), s) = Pending(b, take[k][b], s)
    <3> DEFINE b == NextBlock(t)
    <3>1. \A s \in Slots : s \in Nat /\ s < BlockSize
      BY DEF Slots
    <3>2. CASE take[k][b] = Zero /\ Opened(t) = Zero
      BY <3>2
    <3>3. CASE take[k][b].i = BlockSize /\ Opened(t) = FromParts(Following(b, take[k][b].v), 0)
      BY <3>1, <3>3 DEF Pending, FromParts
    <3>4. QED
      BY <1>1, <2>1, <3>2, <3>3, OpenedLemma
  <2>5. \A b \in Blocks, s \in Slots : NextTurn(k, b, s)' = NextTurn(k, b, s)
    BY <1>3, <1>4, <2>1, <2>2, <2>3, <2>4 DEF NextTurn, Pending
  <2>6. QED
    BY <1>2, <2>1, <2>5 DEF NextTurn, Pending
<1>7. CASE ~ IncrGive(t) /\ ~ ResetGive(t)
  <2>1. /\ give' = give /\ entries' = entries
        /\ pc[t] # "incr_give" /\ pc'[t] # "incr_give"
    <3>1. CASE Reserve(t)
      BY <3>1 DEF Reserve, StartTransform, LoadHead, LoadTake, ReportNotAvailable,
         LoadChasingGive, ReportBusy, LoadChasingTake, MaxTake, Return, Leave, Goto, TypeOK, shared
    <3>2. CASE Advance(t)
      BY <1>7, <3>2 DEF Advance, CheckChasingGive, ReportBusyAdvance, CheckChasingTake,
         LoadOwnGive, ResetTake, MaxHead, CompareHead, WriteHead, Return, Leave, Goto, TypeOK, shared
    <3>3. QED
      BY <1>7, <3>1, <3>2 DEF Step, Work
  <2>2. \A b \in Blocks : Worked(k, b)' = Worked(k, b)
    BY <1>3, <1>4, <2>1
  <2>3. QED
    BY <1>2, <2>1, <2>2 DEF NextTurn, Pending
<1>8. QED
  BY <1>5, <1>6, <1>7

(* A thread holds a slot of the block.                                     *)
LEMMA SlotSeen ==
    ASSUME TypeOK, OrderInv, NEW t \in Threads, Holding(t)
    PROVE  seen[t].v \in Nat /\ seen[t].i \in Slots
<1>1. PICK k \in Layers, b \in Blocks : k = Layer(t) /\ b = Block(t)
  BY PlaceLemma
<1>2. WordOK(b, After(t)) /\ seen[t] \in Pair
  BY <1>1 DEF OrderInv, Knows, BlockInOrder, TypeOK
<1>3. QED
  BY <1>2 DEF WordOK, After, FromParts, Pair, Slots

(* A closure finds its slot pending in the version seen and moves it on.   *)
LEMMA ClosureTurns ==
    ASSUME OneThreadPerLayer, TypeOK, OrderInv, NEW t \in Threads, ClosureEnds(t),
           NEW k \in Layers, k = Layer(t), NEW b \in Blocks, b = Block(t),
           NEW s \in Slots, s = seen[t].i
    PROVE  /\ NextTurn(k, b, s)' = Following(b, seen[t].v)
           /\ \A l \in Layers, c \in Blocks, r \in Slots :
                 l # k \/ c # b \/ r # s => NextTurn(l, c, r)' = NextTurn(l, c, r)
<1>1. /\ UNCHANGED <<shared, head, seen>> /\ pc[t] = "transform" /\ pc'[t] = "incr_give"
      /\ k = Layer(t)' /\ b = Block(t)'
  BY DEF ClosureEnds, Goto, TypeOK, Layer, Block
<1>2. take[k][b] = After(t) /\ give[k][b] = seen[t] /\ BlockInOrder(b)
  BY <1>1 DEF OrderInv, Knows, GiveFollowsTake, Holding
<1>3. After(t).v = seen[t].v /\ After(t).i = s + 1 /\ \A r \in Slots : r \in Nat
  BY DEF After, FromParts, Slots
<1>4. \A l \in Layers \ {k}, c \in Blocks : Worked(l, c)' = Worked(l, c)
  BY ClosureAlone, OthersWorked
<1>5. \A c \in Blocks : Worked(k, c) = give[k][c]
  BY <1>1, WorkedAlone
<1>6. \A c \in Blocks : Worked(k, c)' = IF c = b THEN take[k][c] ELSE give[k][c]
  BY <1>1 DEF OneThreadPerLayer, Worked, Layer, shared
<1>7. Worked(k, b) = seen[t] /\ Worked(k, b)' = After(t)
      /\ \A c \in Blocks \ {b} : Worked(k, c)' = Worked(k, c)
  BY <1>2, <1>5, <1>6
<1>8. NextTurn(k, b, s)' = Following(b, seen[t].v)
  <2>1. NextTurn(k, b, s)' = Pending(b, Worked(k, b)', s)
    BY DEF NextTurn, Pending
  <2>2. QED
    BY <1>3, <1>7, <2>1 DEF Pending
<1>9. ASSUME NEW l \in Layers, NEW c \in Blocks, NEW r \in Slots, l # k \/ c # b \/ r # s
      PROVE  NextTurn(l, c, r)' = NextTurn(l, c, r)
  <2>1. NextTurn(l, c, r)' = Pending(c, Worked(l, c)', r)
    BY DEF NextTurn, Pending
  <2>2. CASE l # k \/ c # b
    BY <1>4, <1>7, <2>1, <2>2 DEF NextTurn
  <2>3. CASE l = k /\ c = b /\ r # s
    BY <1>3, <1>7, <2>1, <2>3 DEF NextTurn, Pending
  <2>4. QED
    BY <1>9, <2>2, <2>3
<1>10. QED
  BY <1>8, <1>9

(* When a closure runs, the layers before its own are a version ahead and  *)
(* those after it are not.                                                 *)
LEMMA TransformIsNext ==
    ASSUME OneThreadPerLayer, TypeOK, OrderInv, NEW t \in Threads, pc[t] = "transform",
           NEW k \in Layers, k = Layer(t), NEW b \in Blocks, b = Block(t),
           NEW s \in Slots, s = seen[t].i
    PROVE  /\ NextTurn(k, b, s) = seen[t].v
           /\ \A l \in Layers :
                 NextTurn(l, b, s) = IF l < k THEN Following(b, seen[t].v) ELSE seen[t].v
<1> DEFINE v == seen[t].v
           turn(l) == NextTurn(l, b, s)
<1>1. take[k][b] = After(t) /\ give[k][b] = seen[t] /\ BlockInOrder(b)
  BY DEF OrderInv, Knows, GiveFollowsTake, Holding
<1>2. /\ v \in Nat /\ s \in Nat /\ After(t).v = v /\ After(t).i = s + 1
      /\ b # 0 => v # 1
  BY <1>1 DEF After, FromParts, TypeOK, Pair, BlockInOrder, WordOK
<1>3. turn(k) = v
  BY <1>1, <1>2, WorkedAlone DEF NextTurn, Pending
<1>4. /\ Following(b, v) \in Nat /\ v < Following(b, v)
      /\ \A w \in Nat : (b # 0 => w # 1) /\ v < w => Following(b, v) <= w
      /\ \A w \in Nat : Following(b, v) <= Following(b, w) => v <= w
  BY <1>2 DEF Following
<1>5. \A l, m \in Layers : /\ turn(l) \in Nat /\ (b # 0 => turn(l) # 1)
                           /\ m <= l => turn(l) <= turn(m)
                           /\ turn(0) <= Following(b, turn(l))
  BY TurnsInOrder
<1>6. 0 \in Layers /\ NumLayers - 1 \in Layers
      /\ \A l \in Layers : l \in Int /\ 0 <= l /\ l <= NumLayers - 1 /\ (l < k => l <= k - 1)
  BY DEF Layers
<1>7. Pending(b, After(t), s) = Following(b, v)
  BY <1>2 DEF Pending
<1>8. /\ take[k][b] \in Pair /\ WordOK(b, take[k][b])
      /\ Ahead(k, b) \in Pair /\ WordOK(b, Ahead(k, b)) /\ Within(b, take[k][b], Ahead(k, b))
  BY <1>1, WordTypes, AheadLemma DEF BlockInOrder
<1>9. Following(b, v) <= Pending(b, Ahead(k, b), s)
  BY <1>1, <1>7, <1>8, PendingLemma
<1>10. PICK c \in Layers : c = Chased(k) /\ c = IF k = 0 THEN NumLayers - 1 ELSE k - 1
  BY ChasedLemma
<1>11. Pending(b, give[c][b], s) <= turn(c) /\ Pending(b, give[c][b], s) \in Nat
       /\ Pending(b, Turn(b, give[c][b]), s) = Following(b, Pending(b, give[c][b], s))
  <2>1. give[c][b] \in Pair /\ WordOK(b, give[c][b])
    BY <1>1, WordTypes DEF BlockInOrder
  <2>2. QED
    BY <2>1, WorkedLemma, PendingLemma DEF NextTurn
<1>12. CASE k = 0
  <2>1. Following(b, v) <= Following(b, Pending(b, give[c][b], s))
    BY <1>9, <1>10, <1>11, <1>12 DEF Ahead
  <2>2. v <= turn(c)
    BY <1>4, <1>5, <1>11, <2>1, <1>2
  <2>3. \A l \in Layers : turn(c) <= turn(l) /\ turn(l) <= turn(0)
    BY <1>5, <1>6, <1>10, <1>12
  <2>4. \A l \in Layers : turn(l) = v
    BY <1>2, <1>3, <1>5, <1>12, <2>2, <2>3
  <2>5. QED
    BY <1>3, <1>6, <1>12, <2>4
<1>13. CASE k # 0
  <2>1. Following(b, v) <= turn(c)
    BY <1>4, <1>5, <1>9, <1>10, <1>11, <1>13 DEF Ahead
  <2>2. turn(c) <= turn(0)
    BY <1>5, <1>6
  <2>3. \A l \in Layers : v <= turn(l)
    <3>1. TAKE l \in Layers
    <3>2. Following(b, v) <= Following(b, turn(l))
      BY <1>4, <1>5, <1>6, <2>1, <2>2 DEF Following
    <3>3. QED
      BY <1>4, <1>5, <3>2
  <2>4. \A l \in Layers : k <= l => turn(l) = v
    BY <1>2, <1>3, <1>5, <2>3
  <2>5. turn(0) <= Following(b, v)
    BY <1>3, <1>5
  <2>6. \A l \in Layers : l < k => turn(l) = Following(b, v)
    <3>1. SUFFICES ASSUME NEW l \in Layers, l < k PROVE turn(l) = Following(b, v)
      OBVIOUS
    <3>2. turn(c) <= turn(l) /\ turn(l) <= turn(0)
      BY <1>5, <1>6, <1>10, <1>13, <3>1
    <3>3. QED
      BY <1>4, <1>5, <1>6, <2>1, <2>5, <3>2
  <2>7. QED
    BY <1>3, <1>6, <2>4, <2>6
<1>14. QED
  BY <1>12, <1>13

(* A closure leaves in its slot what EntryInv expects there.               *)
LEMMA TransformLeaves ==
    ASSUME OneThreadPerLayer, TypeOK, OrderInv, EntryInv, NEW t \in Threads, Transform(t)
    PROVE  EntryInv'
<1>1. PICK k \in Layers, b \in Blocks : k = Layer(t) /\ b = Block(t)
  BY PlaceLemma
<1>2. PICK s \in Slots : s = seen[t].i
  BY SlotSeen DEF Transform, Holding
<1> DEFINE v == seen[t].v
<1>3. /\ pc[t] = "transform" /\ ClosureEnds(t)
      /\ entries'[b][s] = IF k = NumLayers - 1 THEN <<>> ELSE <<v, k>>
      /\ \A c \in Blocks, r \in Slots : c # b \/ r # s => entries'[c][r] = entries[c][r]
  BY <1>1, <1>2 DEF Transform, ClosureEnds, TypeOK
<1>4. SUFFICES ASSUME NEW c \in Blocks, NEW r \in Slots
               PROVE  /\ \A l \in Layers \ {0} :
                             NextTurn(l - 1, c, r)' # NextTurn(l, c, r)' =>
                                 entries'[c][r] = <<NextTurn(l, c, r)', l - 1>>
                      /\ NextTurn(0, c, r)' = NextTurn(NumLayers - 1, c, r)' =>
                             entries'[c][r] = <<>>
  BY DEF EntryInv
<1>5. /\ 0 \in Layers /\ NumLayers - 1 \in Layers
      /\ \A l \in Layers \ {0} : l - 1 \in Layers
      /\ \A l \in Layers : l \in Int /\ 0 <= l /\ l <= NumLayers - 1
  BY DEF Layers
<1>6. CASE c # b \/ r # s
  <2>1. \A l \in Layers : NextTurn(l, c, r)' = NextTurn(l, c, r)
    BY <1>1, <1>2, <1>3, <1>6, ClosureTurns
  <2>2. QED
    BY <1>3, <1>5, <1>6, <2>1 DEF EntryInv
<1>7. CASE c = b /\ r = s
  <2>1. \A l \in Layers :
            NextTurn(l, b, s)' = IF l <= k THEN Following(b, v) ELSE v
    <3>1. TAKE l \in Layers
    <3>2. CASE l = k
      BY <1>1, <1>2, <1>3, <1>5, <3>2, ClosureTurns
    <3>3. CASE l # k
      <4>1. NextTurn(l, b, s)' = NextTurn(l, b, s)
        BY <1>1, <1>2, <1>3, <3>3, ClosureTurns
      <4>2. NextTurn(l, b, s) = IF l < k THEN Following(b, v) ELSE v
        BY <1>1, <1>2, <1>3, TransformIsNext
      <4>3. QED
        BY <1>5, <3>3, <4>1, <4>2
    <3>4. QED
      BY <3>2, <3>3
  <2>2. Following(b, v) # v
    <3>1. v \in Nat
      BY SlotSeen DEF Transform, Holding
    <3>2. QED
      BY <3>1 DEF Following
  <2>3. ASSUME NEW l \in Layers \ {0}, NextTurn(l - 1, b, s)' # NextTurn(l, b, s)'
        PROVE  entries'[b][s] = <<NextTurn(l, b, s)', l - 1>>
    <3>1. l - 1 <= k /\ ~ (l <= k)
      BY <1>5, <2>1, <2>3
    <3>2. l - 1 = k /\ k # NumLayers - 1
      BY <1>5, <3>1
    <3>3. QED
      BY <1>3, <2>1, <3>1, <3>2
  <2>4. ASSUME NextTurn(0, b, s)' = NextTurn(NumLayers - 1, b, s)' PROVE entries'[b][s] = <<>>
    <3>1. NextTurn(0, b, s)' = Following(b, v)
      BY <1>5, <2>1
    <3>2. NumLayers - 1 <= k
      BY <1>5, <2>1, <2>2, <2>4, <3>1
    <3>3. QED
      BY <1>3, <1>5, <3>2
  <2>5. QED
    BY <1>7, <2>3, <2>4
<1>8. QED
  BY <1>6, <1>7
-----------------------------------------------------------------------------
(* EntryInv is inductive: every slot holds what the last layer that        *)
(* transformed it left there, if no layer has a second thread.             *)
THEOREM EntriesCorrect == OneThreadPerLayer => (Spec => []EntryInv)
<1> SUFFICES ASSUME OneThreadPerLayer PROVE Spec => []EntryInv
  OBVIOUS
<1>1. Init => EntryInv
  <2> SUFFICES ASSUME Init, NEW b \in Blocks, NEW s \in Slots
               PROVE  /\ \A l \in Layers : NextTurn(l, b, s) = 0
                      /\ entries[b][s] = <<>>
    <3>1. 0 \in Layers /\ NumLayers - 1 \in Layers /\ \A l \in Layers \ {0} : l - 1 \in Layers
      BY DEF Layers
    <3>2. QED
      BY <3>1 DEF EntryInv
  <2>1. \A l \in Layers : Worked(l, b) = Zero
    BY DEF Init, Worked
  <2>2. ~ (s < Zero.i) /\ Zero.v = 0
    BY DEF Slots, Zero, FromParts
  <2>3. QED
    BY <2>1, <2>2 DEF NextTurn, Pending, Init
<1>2. TypeOK /\ TypeOK' /\ OrderInv /\ EntryInv /\ [Next]_vars => EntryInv'
  <2> SUFFICES ASSUME TypeOK, TypeOK', OrderInv, EntryInv, [Next]_vars PROVE EntryInv'
    OBVIOUS
  <2>1. ASSUME NEW t \in Threads, Step(t) PROVE EntryInv'
    <3>1. CASE Transform(t)
      BY <3>1, TransformLeaves
    <3>2. CASE ~ Transform(t)
      <4>1. /\ entries' = entries
            /\ \A l \in Layers, b \in Blocks, s \in Slots :
                  NextTurn(l, b, s)' = NextTurn(l, b, s)
        BY <2>1, <3>2, TurnsKept
      <4>2. 0 \in Layers /\ NumLayers - 1 \in Layers /\ \A l \in Layers \ {0} : l - 1 \in Layers
        BY DEF Layers
      <4>3. QED
        BY <4>1, <4>2 DEF EntryInv
    <3>3. QED
      BY <3>1, <3>2
  <2>2. CASE UNCHANGED vars
    BY <2>2 DEF vars, shared, locals, EntryInv, NextTurn, Pending, Worked, Block, Layer
  <2>3. QED
    BY <2>1, <2>2 DEF Next
<1>3. QED
  BY <1>1, <1>2, TypeCorrect, OrderCorrect, PTL DEF Spec

(* A transform finds in its slot the variant the layer before it wrote,    *)
(* and a producer finds nothing there, if no layer has a second thread.    *)
THEOREM VariantsMatch == OneThreadPerLayer => (Spec => []VariantMatches)
<1> SUFFICES ASSUME OneThreadPerLayer PROVE Spec => []VariantMatches
  OBVIOUS
<1>1. TypeOK /\ OrderInv /\ EntryInv => VariantMatches
  <2> SUFFICES ASSUME TypeOK, OrderInv, EntryInv, NEW t \in Threads, pc[t] = "transform"
               PROVE  LET e == entries[Block(t)][seen[t].i]
                      IN  IF Layer(t) = 0 THEN e = <<>> ELSE e # <<>> /\ e[2] = Layer(t) - 1
    BY DEF VariantMatches, FindsItsVariant
  <2>1. PICK k \in Layers, b \in Blocks : k = Layer(t) /\ b = Block(t)
    BY PlaceLemma
  <2>2. PICK s \in Slots : s = seen[t].i
    BY SlotSeen DEF Holding
  <2>3. /\ \A l \in Layers :
              NextTurn(l, b, s) = IF l < k THEN Following(b, seen[t].v) ELSE seen[t].v
        /\ Following(b, seen[t].v) # seen[t].v
    <3>1. seen[t].v \in Nat
      BY SlotSeen DEF Holding
    <3>2. Following(b, seen[t].v) # seen[t].v
      BY <3>1 DEF Following
    <3>3. QED
      BY <2>1, <2>2, <3>2, TransformIsNext
  <2>4. 0 \in Layers /\ NumLayers - 1 \in Layers /\ k \in Int /\ (k # 0 => k - 1 \in Layers)
    BY DEF Layers
  <2>5. CASE k = 0
    <3>1. NextTurn(0, b, s) = NextTurn(NumLayers - 1, b, s)
      BY <2>3, <2>4, <2>5
    <3>2. entries[b][s] = <<>>
      BY <3>1 DEF EntryInv
    <3>3. QED
      BY <2>1, <2>2, <2>5, <3>2
  <2>6. CASE k # 0
    <3>1. NextTurn(k - 1, b, s) # NextTurn(k, b, s)
      BY <2>3, <2>4, <2>6
    <3>2. entries[b][s] = <<NextTurn(k, b, s), k - 1>>
      BY <2>6, <3>1 DEF EntryInv
    <3>3. QED
      BY <2>1, <2>2, <2>6, <3>2
  <2>7. QED
    BY <2>5, <2>6
<1>2. QED
  BY <1>1, TypeCorrect, OrderCorrect, EntriesCorrect, PTL

(* drop_in's panic: a ring that no call is using never looks in use, if no *)
(* layer has a second thread.                                              *)
THEOREM DropSafe == OneThreadPerLayer => (Spec => []DropNeverPanics)
<1> SUFFICES ASSUME OneThreadPerLayer PROVE Spec => []DropNeverPanics
  OBVIOUS
<1> DEFINE Unused == \A l \in Layers : (\A t \in Threads : Layer(t) # l) => give[l] = take[l]
<1>1. Init => Unused
  BY DEF Init
<1>2. TypeOK /\ Unused /\ [Next]_vars => Unused'
  <2> SUFFICES ASSUME TypeOK, Unused, [Next]_vars PROVE Unused'
    OBVIOUS
  <2>1. ASSUME NEW t \in Threads, Step(t) PROVE Unused'
    <3>1. \A l \in Layers \ {Layer(t)} : take'[l] = take[l] /\ give'[l] = give[l]
      BY <2>1, AloneLemma DEF Alone
    <3>2. QED
      BY <3>1 DEF Layer
  <2>2. CASE UNCHANGED vars
    BY <2>2 DEF vars, shared, Layer
  <2>3. QED
    BY <2>1, <2>2 DEF Next
<1>3. TypeOK /\ OrderInv /\ Unused => DropNeverPanics
  <2> SUFFICES ASSUME TypeOK, OrderInv, Unused, AllIdle, NEW b \in Blocks, NEW l \in Layers
               PROVE  ~ (give[l][b].i < take[l][b].i)
    BY DEF DropNeverPanics, Panics, Given
  <2>1. give[l][b] = take[l][b]
    <3>1. CASE \E t \in Threads : Layer(t) = l
      BY <3>1 DEF AllIdle, OrderInv, GiveFollowsTake, Holding
    <3>2. CASE \A t \in Threads : Layer(t) # l
      BY <3>2
    <3>3. QED
      BY <3>1, <3>2
  <2>2. take[l][b].i \in Nat
    BY WordTypes DEF Pair
  <2>3. QED
    BY <2>1, <2>2
<1>4. QED
  BY <1>1, <1>2, <1>3, TypeCorrect, OrderCorrect, PTL DEF Spec
=============================================================================
