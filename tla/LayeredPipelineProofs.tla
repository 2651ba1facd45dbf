----------------------- MODULE LayeredPipelineProofs -----------------------
(***************************************************************************)
(* With one thread in a layer the ring of blocks is a pipeline of numbered *)
(* tickets, for every number of layers, blocks and slots; and a program    *)
(* that has every thread make the same number of calls leaves nothing in   *)
(* the ring.                                                               *)
(***************************************************************************)
EXTENDS LayeredProofs, Driver

USE LayerAssumption, RingAssumption, SpanAssumption
-----------------------------------------------------------------------------
(* The versions a block is opened in are its rounds, one after the other.  *)
LEMMA RoundLemma ==
    ASSUME NEW b \in Blocks, NEW v \in Nat
    PROVE  /\ Round(b, v) \in Nat
           /\ VersionIn(b, v) \in Nat /\ Round(b, VersionIn(b, v)) = v
           /\ (b # 0 => v # 1) => /\ VersionIn(b, Round(b, v)) = v
                                  /\ Round(b, Following(b, v)) = Round(b, v) + 1
           /\ \A w \in Nat : v < w /\ (b # 0 => v # 1 /\ w # 1) => Round(b, v) < Round(b, w)
  BY DEF Round, VersionIn, Following

(* A ticket is a number, and the tickets of a block in a version follow    *)
(* each other.                                                             *)
LEMMA TicketLemma ==
    ASSUME NEW b \in Blocks, NEW v \in Nat, NEW i \in Nat
    PROVE  /\ Round(b, v) \in Nat /\ Round(b, v) * NumBlocks + b \in Nat
           /\ Ticket(b, v, i) \in Nat /\ Ticket(b, v, i + 1) = Ticket(b, v, i) + 1
<1>1. Round(b, v) \in Nat /\ b \in Nat
  BY DEF Round, Blocks
<1>2. Round(b, v) * NumBlocks + b \in Nat
  BY <1>1
<1>3. (Round(b, v) * NumBlocks + b) * BlockSize \in Nat
  BY <1>2
<1>4. QED
  BY <1>1, <1>2, <1>3 DEF Ticket

(* Tickets are ordered by round, block and slot.                           *)
LEMMA TicketOrder ==
    ASSUME NEW b \in Blocks, NEW v \in Nat, NEW s \in Slots,
           NEW c \in Blocks, NEW w \in Nat, NEW i \in 0 .. BlockSize
    PROVE  Ticket(b, v, s) < Ticket(c, w, i) <=>
               \/ Round(b, v) < Round(c, w)
               \/ Round(b, v) = Round(c, w) /\ (b < c \/ (b = c /\ s < i))
<1> DEFINE m == Round(b, v) * NumBlocks + b
           n == Round(c, w) * NumBlocks + c
<1>1. /\ Round(b, v) \in Nat /\ Round(c, w) \in Nat /\ m \in Nat /\ n \in Nat
      /\ b \in 0 .. NumBlocks - 1 /\ c \in 0 .. NumBlocks - 1
      /\ s \in 0 .. BlockSize - 1 /\ i \in 0 .. BlockSize
  <2>1. /\ Round(b, v) \in Nat /\ Round(c, w) \in Nat /\ m \in Nat /\ n \in Nat
    BY TicketLemma
  <2>2. QED
    BY <2>1 DEF Blocks, Slots
<1>2. m < n <=> Round(b, v) < Round(c, w) \/ (Round(b, v) = Round(c, w) /\ b < c)
  BY <1>1, Lexicographic
<1>3. n < m <=> Round(c, w) < Round(b, v) \/ (Round(c, w) = Round(b, v) /\ c < b)
  BY <1>1, Lexicographic
<1>4. Ticket(b, v, s) < Ticket(c, w, i) <=> m < n \/ (m = n /\ s < i)
  <2>1. Ticket(b, v, s) = m * BlockSize + s /\ Ticket(c, w, i) = n * BlockSize + i
    BY DEF Ticket
  <2> HIDE DEF m, n
  <2>2. QED
    BY <1>1, <2>1, Lexicographic
<1> HIDE DEF m, n
<1>5. QED
  BY <1>1, <1>2, <1>3, <1>4

(* The ticket of a slot in the round after.                                *)
LEMMA TicketAgain ==
    ASSUME NEW b \in Blocks, NEW v \in Nat, NEW w \in Nat, NEW s \in Slots,
           Round(b, w) = Round(b, v) + 1
    PROVE  Ticket(b, w, s) = Ticket(b, v, s) + Capacity /\ Ticket(b, v, s) \in Nat
<1> DEFINE r == Round(b, v)
<1>1. r \in Nat /\ b \in Nat /\ s \in Nat
  BY RoundLemma DEF Blocks, Slots
<1> HIDE DEF r
<1>2. (r + 1) * NumBlocks + b = (r * NumBlocks + b) + NumBlocks /\ r * NumBlocks + b \in Nat
  BY <1>1
<1>3. ((r * NumBlocks + b) + NumBlocks) * BlockSize = (r * NumBlocks + b) * BlockSize + NumBlocks * BlockSize
  BY <1>2
<1>4. (r * NumBlocks + b) * BlockSize \in Nat /\ NumBlocks * BlockSize \in Nat
  BY <1>2
<1>5. Ticket(b, w, s) = ((r * NumBlocks + b) + NumBlocks) * BlockSize + s
  BY <1>2 DEF Ticket, r
<1>6. QED
  <2>1. Ticket(b, v, s) = (r * NumBlocks + b) * BlockSize + s
    BY DEF Ticket, r
  <2>2. QED
    BY <1>1, <1>3, <1>4, <1>5, <2>1 DEF Capacity

(* The slot of a ticket in the ring.                                       *)
LEMMA TicketSlot ==
    ASSUME NEW b \in Blocks, NEW v \in Nat, NEW s \in Slots
    PROVE  /\ b * BlockSize + s \in 0 .. Capacity - 1
           /\ Ticket(b, v, s) % Capacity = b * BlockSize + s
           /\ (b * BlockSize + s) \div BlockSize = b /\ (b * BlockSize + s) % BlockSize = s
<1>1. /\ b \in Nat /\ b <= NumBlocks - 1 /\ s \in Nat /\ s <= BlockSize - 1
      /\ s \in 0 .. BlockSize - 1
  BY DEF Blocks, Slots
<1>2. b * BlockSize \in Nat /\ b * BlockSize <= (NumBlocks - 1) * BlockSize
  BY <1>1
<1>3. Capacity \in Nat \ {0} /\ (NumBlocks - 1) * BlockSize = Capacity - BlockSize
  BY DEF Capacity
<1>4. b * BlockSize + s \in 0 .. Capacity - 1
  BY <1>1, <1>2, <1>3
<1>5. Ticket(b, v, s) = Round(b, v) * Capacity + (b * BlockSize + s) /\ Round(b, v) \in Nat
  <2>1. Round(b, v) \in Nat
    BY TicketLemma
  <2>2. (Round(b, v) * NumBlocks + b) * BlockSize = Round(b, v) * (NumBlocks * BlockSize) + b * BlockSize
    BY <1>1, <2>1
  <2>3. QED
    BY <1>1, <1>2, <2>1, <2>2 DEF Ticket, Capacity
<1>6. Ticket(b, v, s) % Capacity = b * BlockSize + s
  BY <1>3, <1>4, <1>5, Remainders
<1>7. (b * BlockSize + s) \div BlockSize = b /\ (b * BlockSize + s) % BlockSize = s
  BY <1>1, Remainders
<1>8. QED
  BY <1>4, <1>6, <1>7
-----------------------------------------------------------------------------
(* The words of a layer that has gone through the blocks in order as far   *)
(* as the head h.                                                          *)
Follows(word, h) ==
    \A b \in Blocks :
        /\ b < h.i => word[b] = FromParts(VersionIn(b, h.v), BlockSize)
        /\ b = h.i => word[b].v = VersionIn(b, h.v) /\ word[b].i <= BlockSize
        /\ b > h.i => word[b] = IF h.v = 0 THEN Zero
                                ELSE FromParts(VersionIn(b, h.v - 1), BlockSize)

(* What comes after a full block is no more than anything further on.      *)
LEMMA FullBelow ==
    ASSUME NEW q \in Nat, NEW p \in Nat, q < p, NEW i \in Nat
    PROVE  q * BlockSize + BlockSize <= p * BlockSize + i
<1>1. q + 1 <= p
  OBVIOUS
<1>2. (q + 1) * BlockSize <= p * BlockSize
  BY <1>1
<1>3. (q + 1) * BlockSize = q * BlockSize + BlockSize
  OBVIOUS
<1>4. q * BlockSize \in Nat /\ p * BlockSize \in Nat
  OBVIOUS
<1>5. QED
  BY <1>2, <1>3, <1>4

(* The next ticket of such a layer is the next one in the block it is at.  *)
LEMMA NextIsReached ==
    ASSUME NEW word \in [Blocks -> Pair], NEW h \in Heads, Follows(word, h)
    PROVE  NextTicket(word) = Ticket(h.i, VersionIn(h.i, h.v), word[h.i].i)
<1> DEFINE S == {0} \cup {Ticket(b, word[b].v, word[b].i) : b \in {b \in Blocks : word[b] # Zero}}
           q(v, b) == v * NumBlocks + b
           n == q(h.v, h.i) * BlockSize + word[h.i].i
<1>1. /\ h.i \in Blocks /\ h.v \in Nat /\ h.i \in Nat /\ h.i < NumBlocks
      /\ word[h.i] \in Pair /\ word[h.i].i \in Nat /\ word[h.i].i <= BlockSize
      /\ word[h.i].v = VersionIn(h.i, h.v)
  BY DEF Heads, Blocks, Follows, Pair
<1>2. \A b \in Blocks : b \in Nat /\ b < NumBlocks
  BY DEF Blocks
<1>3. \A v \in Nat, b \in Blocks, i \in Nat :
          Ticket(b, VersionIn(b, v), i) = q(v, b) * BlockSize + i /\ q(v, b) \in Nat
  <2>1. \A v \in Nat, b \in Blocks : Round(b, VersionIn(b, v)) = v /\ q(v, b) \in Nat
    BY <1>2, RoundLemma
  <2>2. QED
    BY <2>1 DEF Ticket
<1>4. n = Ticket(h.i, VersionIn(h.i, h.v), word[h.i].i) /\ n \in Nat
  <2>1. /\ Ticket(h.i, VersionIn(h.i, h.v), word[h.i].i) = q(h.v, h.i) * BlockSize + word[h.i].i
        /\ q(h.v, h.i) \in Nat
    BY <1>1, <1>3, Zenon
  <2>2. q(h.v, h.i) * BlockSize \in Nat
    <3> HIDE DEF q
    <3> QED BY <2>1
  <2>3. QED
    <3> HIDE DEF q
    <3> QED BY <1>1, <2>1, <2>2
<1>5. n \in S
  <2>1. CASE word[h.i] # Zero
    BY <1>1, <1>4, <2>1
  <2>2. CASE word[h.i] = Zero
    <3>1. h.v = 0 /\ word[h.i].i = 0
      BY <1>1, <2>2 DEF Zero, FromParts, VersionIn
    <3>2. CASE h.i = 0
      BY <3>1, <3>2
    <3>3. CASE h.i # 0
      <4>1. PICK b \in Blocks : b = h.i - 1
        BY <1>1, <3>3 DEF Blocks
      <4>2. word[b] = FromParts(VersionIn(b, 0), BlockSize) /\ word[b] # Zero
        BY <1>1, <3>1, <4>1 DEF Follows, FromParts, Zero
      <4>3. Ticket(b, word[b].v, word[b].i) = q(0, b) * BlockSize + BlockSize
        <5> HIDE DEF q
        <5>1. Ticket(b, VersionIn(b, 0), BlockSize) = q(0, b) * BlockSize + BlockSize
          BY <1>3
        <5>2. QED
          BY <4>2, <5>1 DEF FromParts
      <4>4. q(h.v, h.i) = q(0, b) + 1 /\ q(0, b) \in Nat
        BY <1>1, <1>2, <3>1, <4>1
      <4>5. q(0, b) * BlockSize + BlockSize = q(h.v, h.i) * BlockSize + word[h.i].i
        <5> HIDE DEF q
        <5> QED BY <3>1, <4>4
      <4>6. QED
        BY <4>2, <4>3, <4>5
    <3>4. QED
      BY <3>2, <3>3
  <2>3. QED
    BY <2>1, <2>2
<1>6. \A x \in S : x \in Nat /\ x <= n
  <2>1. SUFFICES ASSUME NEW b \in Blocks, word[b] # Zero
                 PROVE  Ticket(b, word[b].v, word[b].i) \in Nat /\ Ticket(b, word[b].v, word[b].i) <= n
    BY <1>4
  <2>2. Ticket(b, word[b].v, word[b].i) \in Nat
    BY TicketLemma DEF Pair
  <2>3. CASE b < h.i
    <3>1. word[b] = FromParts(VersionIn(b, h.v), BlockSize)
      BY <2>3 DEF Follows
    <3>2. Ticket(b, word[b].v, word[b].i) = q(h.v, b) * BlockSize + BlockSize
      BY <1>1, <1>3, <3>1 DEF FromParts
    <3>3. q(h.v, b) \in Nat /\ q(h.v, h.i) \in Nat /\ q(h.v, b) < q(h.v, h.i)
      <4>1. h.v * NumBlocks \in Nat
        BY <1>1
      <4>2. QED
        BY <1>1, <1>2, <2>3, <4>1
    <3>4. QED
      <4> HIDE DEF q
      <4> QED BY <1>1, <2>2, <3>2, <3>3, FullBelow
  <2>4. CASE b = h.i
    BY <1>1, <1>4, <2>2, <2>4
  <2>5. CASE b > h.i
    <3>1. h.v # 0 /\ word[b] = FromParts(VersionIn(b, h.v - 1), BlockSize) /\ h.v - 1 \in Nat
      BY <1>1, <2>1, <2>5 DEF Follows
    <3>2. Ticket(b, word[b].v, word[b].i) = q(h.v - 1, b) * BlockSize + BlockSize
      <4> HIDE DEF q
      <4> QED BY <1>1, <1>3, <3>1 DEF FromParts
    <3>3. q(h.v - 1, b) \in Nat /\ q(h.v, h.i) \in Nat /\ q(h.v - 1, b) < q(h.v, h.i)
      <4>1. (h.v - 1) * NumBlocks = h.v * NumBlocks - NumBlocks /\ (h.v - 1) * NumBlocks \in Nat
        BY <1>1, <3>1
      <4>2. QED
        BY <1>1, <1>2, <4>1
    <3>4. QED
      <4> HIDE DEF q
      <4> QED BY <1>1, <2>2, <3>2, <3>3, FullBelow
  <2>6. QED
    <3> HIDE DEF n, q
    <3> QED BY <1>1, <1>2, <2>2, <2>3, <2>4, <2>5
<1>7. Max(S) = n
  <2> HIDE DEF S, n
  <2>1. \A y \in S : n >= y
    BY <1>4, <1>6
  <2>2. Max(S) \in S /\ \A y \in S : Max(S) >= y
    BY <1>5, <2>1 DEF Max
  <2>3. Max(S) \in Nat /\ Max(S) <= n /\ Max(S) >= n
    BY <1>5, <1>6, <2>2
  <2>4. QED
    BY <1>4, <2>3
<1>8. QED
  BY <1>4, <1>7 DEF NextTicket

(* A ticket has been handed out when its block's word has counted it.      *)
LEMMA TakenLemma ==
    ASSUME NEW word \in [Blocks -> Pair], NEW h \in Heads, Follows(word, h),
           NEW b \in Blocks, NEW v \in Nat, b # 0 => v # 1, NEW s \in Slots
    PROVE  Ticket(b, v, s) < NextTicket(word) <=> AtMost(FromParts(v, s + 1), word[b])
<1>1. /\ h.i \in Blocks /\ h.v \in Nat /\ s \in Nat /\ s + 1 <= BlockSize
      /\ word[h.i].i \in 0 .. BlockSize /\ word[b] \in Pair
  BY DEF Heads, Slots, Follows, Pair
<1>2. b \in Nat /\ h.i \in Nat
  BY <1>1 DEF Blocks
<1>3. VersionIn(h.i, h.v) \in Nat /\ Round(h.i, VersionIn(h.i, h.v)) = h.v /\ Round(b, v) \in Nat
  BY <1>1, RoundLemma
<1>4. Ticket(b, v, s) < NextTicket(word) <=>
          \/ Round(b, v) < h.v
          \/ Round(b, v) = h.v /\ (b < h.i \/ (b = h.i /\ s < word[h.i].i))
  BY <1>1, <1>3, NextIsReached, TicketOrder
<1>5. \A w \in Nat : /\ v < VersionIn(b, w) <=> Round(b, v) < w
                     /\ v = VersionIn(b, w) <=> Round(b, v) = w
  BY DEF Round, VersionIn
<1>6. AtMost(FromParts(v, s + 1), word[b]) <=>
          v < word[b].v \/ (v = word[b].v /\ s + 1 <= word[b].i)
  BY DEF AtMost, FromParts
<1>7. CASE b < h.i
  <2>1. word[b].v = VersionIn(b, h.v) /\ word[b].i = BlockSize
    BY <1>7 DEF Follows, FromParts
  <2>2. QED
    BY <1>1, <1>2, <1>3, <1>4, <1>5, <1>6, <1>7, <2>1
<1>8. CASE b = h.i
  <2>1. word[b].v = VersionIn(b, h.v) /\ word[b].i \in Nat
    BY <1>1, <1>8 DEF Follows
  <2>2. QED
    BY <1>1, <1>2, <1>3, <1>4, <1>5, <1>6, <1>8, <2>1
<1>9. CASE b > h.i
  <2>1. CASE h.v = 0
    <3>1. word[b].v = 0 /\ word[b].i = 0
      BY <1>9, <2>1 DEF Follows, Zero, FromParts
    <3>2. QED
      BY <1>1, <1>2, <1>3, <1>4, <1>6, <1>9, <2>1, <3>1
  <2>2. CASE h.v # 0
    <3>1. h.v - 1 \in Nat /\ word[b].v = VersionIn(b, h.v - 1) /\ word[b].i = BlockSize
      BY <1>1, <1>9, <2>2 DEF Follows, FromParts
    <3>2. QED
      BY <1>1, <1>2, <1>3, <1>4, <1>5, <1>6, <1>9, <3>1
  <2>3. QED
    BY <2>1, <2>2
<1>10. QED
  BY <1>2, <1>7, <1>8, <1>9
-----------------------------------------------------------------------------
(* A layer no thread works in is as it was made.                           *)
Unused == \A l \in Layers : (\A t \in Threads : Layer(t) # l) =>
              \A b \in Blocks : take[l][b] = Zero

(* Threads touch their own layer only.                                     *)
THEOREM UnusedStay == Spec => []Unused
<1>1. Init => Unused
  BY DEF Init, Unused
<1>2. TypeOK /\ Unused /\ [Next]_vars => Unused'
  <2> SUFFICES ASSUME TypeOK, Unused, [Next]_vars PROVE Unused'
    OBVIOUS
  <2>1. ASSUME NEW t \in Threads, Step(t) PROVE Unused'
    <3>1. \A l \in Layers \ {Layer(t)} : take'[l] = take[l]
      BY <2>1, AloneLemma DEF Alone
    <3>2. QED
      BY <3>1 DEF Unused, Layer
  <2>2. CASE UNCHANGED vars
    BY <2>2 DEF vars, shared, Unused, Layer
  <2>3. QED
    BY <2>1, <2>2 DEF Next
<1>3. QED
  BY TypeCorrect, <1>1, <1>2, PTL DEF Spec

(* A layer with a thread has gone as far as the head the thread reached.   *)
LEMMA ThreadFollows ==
    ASSUME TypeOK, NEW t \in Threads, TakeFollowsHead(t), \A b \in Blocks : BlockInOrder(b)
    PROVE  /\ Reached(t) \in Heads /\ take[Layer(t)] \in [Blocks -> Pair]
           /\ Follows(take[Layer(t)], Reached(t))
<1>1. Layer(t) \in Layers /\ NextHead(t) \in Heads
  BY PlaceLemma
<1>2. Reached(t) \in Heads /\ take[Layer(t)] \in [Blocks -> Pair]
  BY <1>1 DEF Reached, TypeOK, Heads
<1>3. \A b \in Blocks : take[Layer(t)][b].i <= BlockSize
  BY <1>1 DEF BlockInOrder, WordOK
<1>4. QED
  BY <1>2, <1>3 DEF Follows, TakeFollowsHead

(* Every layer has gone through its blocks in order.                       *)
LEMMA LayerFollows ==
    ASSUME TypeOK, OrderInv, Unused, NEW l \in Layers
    PROVE  take[l] \in [Blocks -> Pair] /\ \E h \in Heads : Follows(take[l], h)
<1>1. CASE \E t \in Threads : Layer(t) = l
  BY <1>1, ThreadFollows DEF OrderInv
<1>2. CASE \A t \in Threads : Layer(t) # l
  <2>1. \A b \in Blocks : take[l][b] = Zero
    BY <1>2 DEF Unused
  <2>2. Zero \in Heads /\ Zero.i = 0 /\ Zero.v = 0
    BY PairFacts DEF Zero, FromParts
  <2>3. Follows(take[l], Zero)
    BY <2>1, <2>2 DEF Follows, VersionIn, Blocks
  <2>4. QED
    BY <2>2, <2>3 DEF TypeOK
<1>3. QED
  BY <1>1, <1>2
-----------------------------------------------------------------------------
(* No two slots, blocks or versions share a ticket.                        *)
LEMMA TicketsDiffer ==
    ASSUME NEW b \in Blocks, NEW v \in Nat, b # 0 => v # 1, NEW s \in Slots,
           NEW c \in Blocks, NEW w \in Nat, c # 0 => w # 1, NEW r \in Slots,
           Ticket(b, v, s) = Ticket(c, w, r)
    PROVE  b = c /\ v = w /\ s = r
<1>1. /\ b \in Nat /\ c \in Nat /\ s \in Nat /\ r \in Nat /\ r \in 0 .. BlockSize /\ s \in 0 .. BlockSize
      /\ Round(b, v) \in Nat /\ Round(c, w) \in Nat /\ Ticket(b, v, s) \in Nat
  BY RoundLemma, TicketLemma DEF Blocks, Slots
<1>2. ~ (Ticket(b, v, s) < Ticket(c, w, r)) /\ ~ (Ticket(c, w, r) < Ticket(b, v, s))
  BY <1>1
<1>3. /\ ~ (Round(b, v) < Round(c, w)) /\ ~ (Round(c, w) < Round(b, v))
      /\ Round(b, v) = Round(c, w) => ~ (b < c) /\ ~ (c < b)
      /\ Round(b, v) = Round(c, w) /\ b = c => ~ (s < r) /\ ~ (r < s)
  <2>1. Ticket(b, v, s) < Ticket(c, w, r) <=>
            \/ Round(b, v) < Round(c, w)
            \/ Round(b, v) = Round(c, w) /\ (b < c \/ (b = c /\ s < r))
    BY <1>1, TicketOrder
  <2>2. Ticket(c, w, r) < Ticket(b, v, s) <=>
            \/ Round(c, w) < Round(b, v)
            \/ Round(c, w) = Round(b, v) /\ (c < b \/ (c = b /\ r < s))
    BY <1>1, TicketOrder
  <2>3. QED
    BY <1>2, <2>1, <2>2
<1>4. Round(b, v) = Round(c, w) /\ b = c /\ s = r
  BY <1>1, <1>3
<1>5. VersionIn(b, Round(b, v)) = v /\ VersionIn(c, Round(c, w)) = w
  BY RoundLemma
<1>6. QED
  BY <1>4, <1>5

(* What Pipeline calls finished, in the terms of the ring.                 *)
GivenBack(m, n) == /\ n < NextTicket(take[m])
              /\ \A t \in Threads : Layer(t) = m => HeldTicket(t) # n

(* A layer has finished a ticket when its give has counted the slot.       *)
LEMMA GivenBackLemma ==
    ASSUME OneThreadPerLayer, TypeOK, OrderInv, Unused, NEW m \in Layers,
           NEW b \in Blocks, NEW v \in Nat, b # 0 => v # 1, NEW s \in Slots
    PROVE  GivenBack(m, Ticket(b, v, s)) <=> AtMost(FromParts(v, s + 1), give[m][b])
<1> DEFINE p == FromParts(v, s + 1)
           n == Ticket(b, v, s)
<1>1. n < NextTicket(take[m]) <=> AtMost(p, take[m][b])
  BY LayerFollows, TakenLemma
<1>2. /\ take[m][b] \in Pair /\ give[m][b] \in Pair /\ s \in Nat /\ s + 1 <= BlockSize
      /\ WordOK(b, take[m][b]) /\ WordOK(b, give[m][b]) /\ Within(b, give[m][b], take[m][b])
  BY WordTypes DEF OrderInv, BlockInOrder, Slots
<1>3. \A f \in Pair : AtMost(p, f) <=> v < f.v \/ (v = f.v /\ s + 1 <= f.i)
  BY DEF AtMost, FromParts
<1>4. CASE \A t \in Threads : Layer(t) # m
  <2>1. take[m][b] = Zero
    BY <1>4 DEF Unused
  <2>2. give[m][b].v = 0 /\ give[m][b].i = 0
    BY <1>2, <2>1 DEF Within, AtMost, FromParts, Zero, Pair, Following
  <2>3. ~ AtMost(p, take[m][b]) /\ ~ AtMost(p, give[m][b])
    BY <1>2, <1>3, <2>1, <2>2 DEF Zero, FromParts
  <2>4. QED
    BY <1>1, <2>3 DEF GivenBack
<1>5. CASE \E t \in Threads : Layer(t) = m
  <2>1. PICK u \in Threads : Layer(u) = m
    BY <1>5
  <2>2. \A t \in Threads : Layer(t) = m => t = u
    BY <2>1 DEF OneThreadPerLayer
  <2>3. GivenBack(m, n) <=> AtMost(p, take[m][b]) /\ HeldTicket(u) # n
    BY <1>1, <2>1, <2>2 DEF GivenBack
  <2>4. n \in Nat
    BY <1>2, TicketLemma
  <2>5. GiveFollowsTake(u) /\ Knows(u)
    BY DEF OrderInv
  <2>6. CASE Holding(u) /\ Block(u) = b
    <3>1. give[m][b] = seen[u] /\ take[m][b] = After(u)
      BY <2>1, <2>5, <2>6 DEF GiveFollowsTake, Knows
    <3>2. seen[u].v \in Nat /\ seen[u].i \in Slots /\ seen[u].i \in Nat /\ (b # 0 => seen[u].v # 1)
      BY <1>2, <2>6, <3>1, SlotSeen DEF WordOK, Slots
    <3>3. HeldTicket(u) = n <=> v = seen[u].v /\ s = seen[u].i
      BY <2>6, <3>2, TicketsDiffer DEF HeldTicket
    <3>4. AtMost(p, take[m][b]) <=> v < seen[u].v \/ (v = seen[u].v /\ s + 1 <= seen[u].i + 1)
      BY <1>3, <1>2, <3>1 DEF After, FromParts
    <3>5. AtMost(p, give[m][b]) <=> v < seen[u].v \/ (v = seen[u].v /\ s + 1 <= seen[u].i)
      BY <1>3, <1>2, <3>1
    <3>6. (v < seen[u].v \/ (v = seen[u].v /\ s + 1 <= seen[u].i + 1)) /\ ~ (v = seen[u].v /\ s = seen[u].i)
              <=> v < seen[u].v \/ (v = seen[u].v /\ s + 1 <= seen[u].i)
      BY <1>2, <3>2
    <3>7. QED
      BY <2>3, <3>3, <3>4, <3>5, <3>6, Zenon
  <2>7. CASE pc[u] = "reset_take" /\ NextBlock(u) = b
    <3>1. give[m][b] = seen[u] /\ seen[u] = Opened(u) /\ ~ Holding(u)
      BY <2>1, <2>5, <2>7 DEF GiveFollowsTake, Knows, Holding
    <3>2. HeldTicket(u) # n
      BY <2>4, <3>1 DEF HeldTicket
    <3>3. \/ b # 0 /\ take[m][b] = Zero /\ Opened(u) = Zero
          \/ take[m][b].i = BlockSize /\ Opened(u) = FromParts(Following(b, take[m][b].v), 0)
      BY <2>1, <2>7, OpenedLemma
    <3>4. AtMost(p, take[m][b]) <=> AtMost(p, give[m][b])
      <4>1. CASE take[m][b] = Zero /\ Opened(u) = Zero
        BY <3>1, <4>1
      <4>2. CASE take[m][b].i = BlockSize /\ Opened(u) = FromParts(Following(b, take[m][b].v), 0)
        <5>1. /\ take[m][b].v \in Nat /\ Following(b, take[m][b].v) \in Nat
              /\ v < Following(b, take[m][b].v) <=> v <= take[m][b].v
          BY <1>2 DEF Following, Pair
        <5>2. /\ give[m][b].v = Following(b, take[m][b].v) /\ give[m][b].i = 0
          BY <3>1, <4>2 DEF FromParts
        <5> HIDE DEF p
        <5>3. QED
          BY <1>2, <1>3, <4>2, <5>1, <5>2
      <4>3. QED
        BY <3>3, <4>1, <4>2
    <3>5. QED
      BY <2>3, <3>2, <3>4
  <2>8. CASE ~ (Holding(u) /\ Block(u) = b) /\ ~ (pc[u] = "reset_take" /\ NextBlock(u) = b)
    <3>1. give[m][b] = take[m][b]
      BY <2>1, <2>5, <2>8 DEF GiveFollowsTake
    <3>2. HeldTicket(u) # n
      <4>1. CASE Holding(u)
        <5>1. PICK c \in Blocks : c = Block(u)
          BY PlaceLemma
        <5>2. seen[u].v \in Nat /\ seen[u].i \in Slots
          BY <4>1, SlotSeen
        <5>3. c # 0 => seen[u].v # 1
          <6>1. give[m][c] = seen[u]
            BY <2>1, <2>5, <4>1, <5>1 DEF GiveFollowsTake
          <6>2. QED
            BY <6>1 DEF OrderInv, BlockInOrder, WordOK
        <5>4. c # b
          BY <2>8, <4>1, <5>1
        <5>5. QED
          BY <4>1, <5>1, <5>2, <5>3, <5>4, TicketsDiffer DEF HeldTicket
      <4>2. CASE ~ Holding(u)
        BY <2>4, <4>2 DEF HeldTicket
      <4>3. QED
        BY <4>1, <4>2
    <3>3. QED
      BY <2>3, <3>1, <3>2
  <2>9. QED
    BY <2>6, <2>7, <2>8
<1>6. QED
  BY <1>4, <1>5

(* A ticket is finished when its layer has taken it and nobody there holds *)
(* it.                                                                     *)
LEMMA FinishedLemma ==
    ASSUME NEW m \in Layers, NEW n
    PROVE  Tickets!Finished(m, n) <=> GivenBack(m, n)
  BY DEF Tickets!Finished, GivenBack

(* A thread that found a free slot saw its layer's next ticket.            *)
LEMMA NextIsSeen ==
    ASSUME TypeOK, OrderInv, NEW t \in Threads,
           pc[t] \in {"load_chasing_give", "load_chasing_take", "max_take"},
           NEW b \in Blocks, b = Block(t)
    PROVE  /\ seen[t].v \in Nat /\ seen[t].i \in Slots /\ (b # 0 => seen[t].v # 1)
           /\ take[Layer(t)][b] = seen[t]
           /\ NextTicket(take[Layer(t)]) = Ticket(b, seen[t].v, seen[t].i)
<1>1. TakeFollowsHead(t) /\ Knows(t) /\ \A c \in Blocks : BlockInOrder(c)
  BY DEF OrderInv
<1>2. Layer(t) \in Layers
  BY PlaceLemma
<1>3. take[Layer(t)][b] = seen[t] /\ seen[t].i < BlockSize /\ seen[t] \in Pair
  BY <1>1, <1>2, WordTypes DEF Knows
<1>4. seen[t].v \in Nat /\ seen[t].i \in Slots /\ (b # 0 => seen[t].v # 1)
  BY <1>1, <1>2, <1>3 DEF Pair, Slots, BlockInOrder, WordOK
<1>5. Reached(t) = head[t] /\ Reached(t).i = b
  BY <1>1 DEF Knows, Reached, Block
<1>6. /\ Reached(t) \in Heads /\ take[Layer(t)] \in [Blocks -> Pair]
      /\ Follows(take[Layer(t)], Reached(t))
  BY <1>1, ThreadFollows
<1>7. NextTicket(take[Layer(t)]) = Ticket(b, VersionIn(b, Reached(t).v), take[Layer(t)][b].i)
  BY <1>5, <1>6, NextIsReached
<1>8. VersionIn(b, Reached(t).v) = seen[t].v
  BY <1>3, <1>5, <1>6 DEF Follows
<1>9. QED
  BY <1>3, <1>4, <1>7, <1>8

(* Until the last layer has opened a block after block 0 again, producers  *)
(* have taken no slot of it again.                                         *)
NotRetaken(b) ==
    b # 0 /\ give[NumLayers - 1][b].v = 0 =>
        /\ take[0][b].v = 0 \/ take[0][b] = FromParts(2, 0)
        /\ \A t \in Threads :
              Layer(t) = 0 /\ Block(t) = b /\ pc[t] \in {"load_chasing_take", "max_take"} =>
                  seen[t].v = 0

(* The producers' own steps keep it so.                                    *)
LEMMA ProducerWaits ==
    ASSUME TypeOK, OrderInv, NEW t \in Threads, Step(t), Layer(t) = 0,
           NEW b \in Blocks, b # 0, NotRetaken(b), give[NumLayers - 1][b].v = 0
    PROVE  /\ take'[0][b].v = 0 \/ take'[0][b] = FromParts(2, 0)
           /\ Block(t)' = b /\ pc'[t] \in {"load_chasing_take", "max_take"} => seen'[t].v = 0
<1>1. /\ 0 \in Layers /\ Chased(0) = NumLayers - 1 /\ take \in [Layers -> [Blocks -> Pair]]
      /\ take[0][b] \in Pair /\ seen[t] \in Pair
  <2>1. 0 \in Layers
    BY DEF Layers
  <2>2. QED
    BY <2>1, ChasedLemma, WordTypes DEF TypeOK
<1>2. take[0][b].v = 0 \/ take[0][b] = FromParts(2, 0)
  BY DEF NotRetaken
<1>3. take'[0][b].v = 0 \/ take'[0][b] = FromParts(2, 0)
  <2>1. CASE MaxTake(t)
    <3>1. CASE Block(t) = b
      <4>1. take[0][b] = seen[t] /\ seen[t].i < BlockSize
        BY <2>1, <3>1 DEF OrderInv, Knows, MaxTake
      <4>2. seen[t].v = 0
        BY <2>1, <3>1 DEF NotRetaken, MaxTake
      <4>3. take'[0][b] = MaxPair(take[0][b], Incr(IndexSpan, seen[t]))
        BY <1>1, <2>1, <3>1, RaiseChanges DEF MaxTake
      <4>4. QED
        BY <1>1, <4>1, <4>2, <4>3 DEF MaxPair, Incr, FromParts, AtMost, Pair
    <3>2. CASE Block(t) # b
      <4>1. Block(t) \in Blocks
        BY PlaceLemma
      <4>2. take'[0][b] = take[0][b]
        BY <1>1, <2>1, <3>2, <4>1, RaiseChanges DEF MaxTake
      <4>3. QED
        BY <1>2, <4>2
    <3>3. QED
      BY <3>1, <3>2
  <2>2. CASE ResetTake(t)
    <3>1. CASE NextBlock(t) = b
      <4>1. seen[t] = Opened(t) /\ MaxPair(take[0][b], Opened(t)) = Opened(t)
        BY <2>2, <3>1, OpenedRaises DEF OrderInv, Knows, ResetTake
      <4>2. \/ take[0][b] = Zero /\ Opened(t) = Zero
            \/ take[0][b].i = BlockSize /\ Opened(t) = FromParts(Following(b, take[0][b].v), 0)
        BY <2>2, <3>1, OpenedLemma DEF ResetTake
      <4>3. Opened(t).v = 0 \/ Opened(t) = FromParts(2, 0)
        BY <1>2, <4>2 DEF Following, FromParts, Zero
      <4>4. take'[0][b] = MaxPair(take[0][b], seen[t])
        BY <1>1, <2>2, <3>1, RaiseChanges DEF ResetTake
      <4>5. QED
        BY <4>1, <4>3, <4>4
    <3>2. CASE NextBlock(t) # b
      <4>1. NextBlock(t) \in Blocks
        BY PlaceLemma
      <4>2. take'[0][b] = take[0][b]
        BY <1>1, <2>2, <3>2, <4>1, RaiseChanges DEF ResetTake
      <4>3. QED
        BY <1>2, <4>2
    <3>3. QED
      BY <3>1, <3>2
  <2>3. CASE ~ MaxTake(t) /\ ~ ResetTake(t)
    <3>1. take' = take
      BY <2>3 DEF Step, Reserve, Work, Advance, StartTransform, LoadHead, LoadTake,
                  ReportNotAvailable, LoadChasingGive, ReportBusy, LoadChasingTake, Transform,
                  IncrGive, CheckChasingGive, ReportBusyAdvance, CheckChasingTake, LoadOwnGive,
                  ResetGive, MaxHead, CompareHead, WriteHead, shared
    <3>2. QED
      BY <1>2, <3>1
  <2>4. QED
    BY <2>1, <2>2, <2>3
<1>4. ASSUME Block(t)' = b, pc'[t] \in {"load_chasing_take", "max_take"} PROVE seen'[t].v = 0
  <2>1. LoadChasingGive(t) \/ LoadChasingTake(t)
    BY <1>4 DEF Step, Reserve, Work, Advance, StartTransform, LoadHead, LoadTake,
                ReportNotAvailable, ReportBusy, MaxTake, Transform,
                IncrGive, CheckChasingGive, ReportBusyAdvance, CheckChasingTake, LoadOwnGive,
                ResetGive, ResetTake, MaxHead, CompareHead, WriteHead, Goto, Leave, Return, TypeOK
  <2>2. head' = head /\ seen' = seen /\ Block(t) = b
    BY <1>4, <2>1 DEF LoadChasingGive, LoadChasingTake, Block
  <2>3. CASE LoadChasingTake(t)
    BY <2>2, <2>3 DEF LoadChasingTake, NotRetaken
  <2>4. CASE LoadChasingGive(t)
    <3>1. take[0][b] = seen[t]
      BY <2>2, <2>4 DEF OrderInv, Knows, LoadChasingGive
    <3>2. ~ (seen[t].v > 0 + 1)
      BY <1>1, <2>2, <2>4 DEF LoadChasingGive, CaughtUp, NotGiven, ChasingGive, ProducerOffset, Pair
    <3>3. QED
      BY <1>2, <2>2, <3>1, <3>2 DEF FromParts
  <2>5. QED
    BY <2>1, <2>3, <2>4
<1>5. QED
  BY <1>3, <1>4

(* Other threads can only end the wait.                                    *)
THEOREM ProducersWait == OneThreadPerLayer => (Spec => []\A b \in Blocks : NotRetaken(b))
<1> SUFFICES ASSUME OneThreadPerLayer PROVE Spec => []\A b \in Blocks : NotRetaken(b)
  OBVIOUS
<1>1. Init => \A b \in Blocks : NotRetaken(b)
  BY DEF Init, NotRetaken, Layers, Zero, FromParts
<1>2. /\ TypeOK /\ OrderInv /\ TypeOK' /\ (\A b \in Blocks : NotRetaken(b)) /\ [Next]_vars
      => (\A b \in Blocks : NotRetaken(b))'
  <2> SUFFICES ASSUME TypeOK, OrderInv, TypeOK', NEW b \in Blocks, NotRetaken(b), [Next]_vars
               PROVE  NotRetaken(b)'
    OBVIOUS
  <2>1. ASSUME NEW t \in Threads, Step(t) PROVE NotRetaken(b)'
    <3>1. Alone(t) /\ 0 \in Layers /\ NumLayers - 1 \in Layers
      BY <2>1, AloneLemma DEF Layers
    <3>2. SUFFICES ASSUME b # 0, give'[NumLayers - 1][b].v = 0
                   PROVE  /\ take'[0][b].v = 0 \/ take'[0][b] = FromParts(2, 0)
                          /\ \A u \in Threads :
                                /\ Layer(u) = 0 /\ Block(u)' = b
                                /\ pc'[u] \in {"load_chasing_take", "max_take"}
                                => seen'[u].v = 0
      BY DEF NotRetaken, Layer
    <3>3. give[NumLayers - 1][b].v = 0
      <4>1. /\ AtMost(give[NumLayers - 1][b], give'[NumLayers - 1][b])
            /\ give[NumLayers - 1][b] \in Pair
        BY <3>1, WordTypes DEF Alone
      <4>2. QED
        BY <3>2, <4>1 DEF AtMost, Pair
    <3>4. CASE Layer(t) = 0
      <4>1. /\ take'[0][b].v = 0 \/ take'[0][b] = FromParts(2, 0)
            /\ Block(t)' = b /\ pc'[t] \in {"load_chasing_take", "max_take"} => seen'[t].v = 0
        BY <2>1, <3>2, <3>3, <3>4, ProducerWaits
      <4>2. \A u \in Threads : Layer(u) = 0 => u = t
        BY <3>4 DEF OneThreadPerLayer
      <4>3. QED
        BY <4>1, <4>2
    <3>5. CASE Layer(t) # 0
      <4>1. take'[0] = take[0]
        BY <3>1, <3>5 DEF Alone
      <4>2. \A u \in Threads : Layer(u) = 0 => /\ pc'[u] = pc[u] /\ seen'[u] = seen[u]
                                               /\ Block(u)' = Block(u)
        BY <3>1, <3>5 DEF Alone, Block
      <4>3. QED
        BY <3>2, <3>3, <4>1, <4>2 DEF NotRetaken
    <3>6. QED
      BY <3>4, <3>5
  <2>2. CASE UNCHANGED vars
    BY <2>2 DEF vars, shared, locals, NotRetaken, Layer, Block
  <2>3. QED
    BY <2>1, <2>2 DEF Next
<1>3. QED
  BY TypeCorrect, OrderCorrect, <1>1, <1>2, PTL DEF Spec

(* What a layer finds when it is told that nothing is available.           *)
LEMMA RefusedNotGiven ==
    ASSUME OneThreadPerLayer, TypeOK, OrderInv, Unused, NEW t \in Threads, ReportNotAvailable(t),
           NEW l \in Layers, l = Layer(t), NEW b \in Blocks, b = Block(t),
           NEW v \in Nat, b # 0 => v # 1, v + ProducerOffset(l) = seen[t].v
    PROVE  ~ GivenBack(Chased(l), Ticket(b, v, seen[t].i))
<1>1. /\ Chased(l) \in Layers /\ give[Chased(l)][b] \in Pair /\ ProducerOffset(l) \in Nat
  BY ChasedLemma, WordTypes DEF ProducerOffset
<1>2. seen[t].v \in Nat /\ seen[t].i \in Slots
  BY NextIsSeen DEF ReportNotAvailable
<1>3. /\ v >= give[Chased(l)][b].v
      /\ seen[t].i = give[Chased(l)][b].i \/ v > give[Chased(l)][b].v
  BY <1>1, <1>2 DEF ReportNotAvailable, CaughtUp, NotGiven, ChasingGive, Pair
<1>4. ~ AtMost(FromParts(v, seen[t].i + 1), give[Chased(l)][b])
  BY <1>1, <1>2, <1>3 DEF AtMost, FromParts, Pair, Slots
<1>5. QED
  BY <1>1, <1>2, <1>4, GivenBackLemma

(* src/block.rs, reserve_in_layer: no call is told that nothing is         *)
(* available when the layer it chases has given back the next ticket; but  *)
(* for the producers where the last layer has to open the block again.     *)
THEOREM RefusalsAreHonest == OneThreadPerLayer => (Spec => NotAvailableIsHonest)
<1> SUFFICES ASSUME OneThreadPerLayer PROVE Spec => NotAvailableIsHonest
  OBVIOUS
<1>1. TypeOK /\ OrderInv /\ Unused /\ (\A b \in Blocks : NotRetaken(b)) =>
          \A t \in Threads :
              ReportNotAvailable(t) /\ ~ AwaitsReopening(t) =>
                  ~ Tickets!Ready(Layer(t), NextTicket(take[Layer(t)]))
  <2> SUFFICES ASSUME TypeOK, OrderInv, Unused, \A b \in Blocks : NotRetaken(b),
                      NEW t \in Threads, ReportNotAvailable(t), ~ AwaitsReopening(t)
               PROVE  ~ Tickets!Ready(Layer(t), NextTicket(take[Layer(t)]))
    OBVIOUS
  <2>1. PICK b \in Blocks, l \in Layers : b = Block(t) /\ l = Layer(t)
    BY PlaceLemma
  <2>2. /\ seen[t].v \in Nat /\ seen[t].i \in Slots /\ (b # 0 => seen[t].v # 1)
        /\ take[l][b] = seen[t] /\ NextTicket(take[l]) = Ticket(b, seen[t].v, seen[t].i)
    BY <2>1, NextIsSeen DEF ReportNotAvailable
  <2>3. /\ l # 0 => Chased(l) = l - 1
        /\ l = 0 => Chased(l) = NumLayers - 1
    BY ChasedLemma
  <2>4. CASE l # 0
    <3>1. ~ GivenBack(l - 1, Ticket(b, seen[t].v, seen[t].i))
      <4>1. seen[t].v + ProducerOffset(l) = seen[t].v
        BY <2>2, <2>4 DEF ProducerOffset
      <4>2. ~ GivenBack(Chased(l), Ticket(b, seen[t].v, seen[t].i))
        BY <2>1, <2>2, <4>1, RefusedNotGiven
      <4>3. QED
        BY <2>3, <2>4, <4>2
    <3>2. l - 1 \in Layers
      BY <2>4 DEF Layers
    <3>3. QED
      BY <2>1, <2>2, <2>4, <3>1, <3>2, FinishedLemma DEF Tickets!Ready
  <2>5. CASE l = 0
    <3>1. give[NumLayers - 1][b] \in Pair /\ NumLayers - 1 \in Layers
      <4>1. NumLayers - 1 \in Layers
        BY DEF Layers
      <4>2. QED
        BY <4>1, WordTypes
    <3>2. seen[t].v # 0
      BY <2>1, <2>3, <2>5, <3>1 DEF ReportNotAvailable, CaughtUp, ChasingGive, ProducerOffset, Pair
    <3>3. CASE b # 0 /\ seen[t].v = 2
      <4>1. seen[t] \in Pair /\ give[NumLayers - 1][b].v # 1
        BY <2>1, <3>1, <3>3 DEF TypeOK, OrderInv, BlockInOrder, WordOK
      <4>2. give[NumLayers - 1][b].v <= 1
        BY <2>1, <2>3, <2>5, <3>1, <3>3
           DEF ReportNotAvailable, CaughtUp, ChasingGive, ProducerOffset, Pair
      <4>3. give[NumLayers - 1][b].v = 0
        BY <3>1, <4>1, <4>2 DEF Pair
      <4>4. seen[t] = FromParts(2, 0)
        BY <2>2, <2>5, <3>3, <4>3 DEF NotRetaken
      <4>5. QED
        BY <2>1, <2>3, <2>5, <3>3, <4>3, <4>4 DEF AwaitsReopening, ChasingGive
    <3>4. CASE ~ (b # 0 /\ seen[t].v = 2)
      <4>1. /\ seen[t].v - 1 \in Nat /\ (b # 0 => seen[t].v - 1 # 1)
            /\ Round(b, seen[t].v) = Round(b, seen[t].v - 1) + 1 /\ Round(b, seen[t].v - 1) \in Nat
        BY <2>2, <3>2, <3>4 DEF Round
      <4>2. /\ Ticket(b, seen[t].v, seen[t].i) = Ticket(b, seen[t].v - 1, seen[t].i) + Capacity
            /\ Ticket(b, seen[t].v - 1, seen[t].i) \in Nat
        BY <2>2, <4>1, TicketAgain
      <4>3. ~ GivenBack(NumLayers - 1, Ticket(b, seen[t].v - 1, seen[t].i))
        <5>1. (seen[t].v - 1) + ProducerOffset(l) = seen[t].v
          BY <2>2, <2>5 DEF ProducerOffset
        <5>2. QED
          BY <2>1, <2>3, <2>5, <4>1, <5>1, RefusedNotGiven
      <4>4. Capacity \in Nat
        BY DEF Capacity
      <4>5. QED
        BY <2>1, <2>2, <2>5, <3>1, <4>2, <4>3, <4>4, FinishedLemma DEF Tickets!Ready
    <3>5. QED
      BY <3>3, <3>4
  <2>6. QED
    BY <2>4, <2>5
<1>2. QED
  BY <1>1, TypeCorrect, OrderCorrect, UnusedStay, ProducersWait, PTL DEF NotAvailableIsHonest

(* A layer has given all it took of a block that none of its threads works *)
(* in.                                                                     *)
LEMMA NobodyThere ==
    ASSUME TypeOK, OrderInv, Unused, NEW t \in Threads, NEW b \in Blocks, ~ BeingWorked(t, b)
    PROVE  ChasingGive(t, b).i = ChasingTake(t, b).i
<1>1. PICK m \in Layers : m = Chased(Layer(t))
  BY PlaceLemma
<1>2. CASE \A u \in Threads : Layer(u) # m
  <2>1. take[m][b] = Zero
    BY <1>2 DEF Unused
  <2>2. Within(b, give[m][b], take[m][b]) /\ WordOK(b, give[m][b]) /\ give[m][b] \in Pair
    BY WordTypes DEF OrderInv, BlockInOrder
  <2>3. give[m][b].i = take[m][b].i
    BY <2>1, <2>2 DEF Within, AtMost, Zero, FromParts, Pair
  <2>4. QED
    BY <1>1, <2>3 DEF ChasingGive, ChasingTake
<1>3. CASE \E u \in Threads : Layer(u) = m
  <2>1. PICK u \in Threads : Layer(u) = m
    BY <1>3
  <2>2. ~ (Holding(u) /\ Block(u) = b) /\ ~ (pc[u] = "reset_take" /\ NextBlock(u) = b)
    BY <1>1, <2>1 DEF BeingWorked
  <2>3. give[m][b] = take[m][b]
    BY <2>1, <2>2 DEF OrderInv, GiveFollowsTake
  <2>4. QED
    BY <1>1, <2>3 DEF ChasingGive, ChasingTake
<1>4. QED
  BY <1>2, <1>3

(* src/block.rs, reserve_in_layer, and src/fifo_inner.rs, advance_head: no *)
(* call is told Busy but when the layer it chases is at work in the block, *)
(* or has given a slot of it since it looked.                              *)
THEOREM BusyHonest == OneThreadPerLayer => (Spec => BusyIsHonest)
<1> SUFFICES ASSUME OneThreadPerLayer PROVE Spec => BusyIsHonest
  OBVIOUS
<1>1. TypeOK /\ OrderInv /\ Unused =>
          \A t \in Threads :
              /\ ReportBusy(t) =>
                     ChasingGive(t, Block(t)) # mark[t] \/ BeingWorked(t, Block(t))
              /\ ReportBusyAdvance(t) =>
                     ChasingGive(t, NextBlock(t)) # mark[t] \/ BeingWorked(t, NextBlock(t))
  <2> SUFFICES ASSUME TypeOK, OrderInv, Unused, NEW t \in Threads, NEW b \in Blocks,
                      ChasingTake(t, b).i > mark[t].i
               PROVE  ChasingGive(t, b) # mark[t] \/ BeingWorked(t, b)
    BY PlaceLemma DEF ReportBusy, ReportBusyAdvance
  <2>1. ChasingTake(t, b).i \in Nat
    BY PlaceLemma, WordTypes DEF ChasingTake, Pair
  <2>2. ~ BeingWorked(t, b) => ChasingGive(t, b).i # mark[t].i
    BY <2>1, NobodyThere
  <2>3. QED
    BY <2>2
<1>2. QED
  BY <1>1, TypeCorrect, OrderCorrect, UnusedStay, PTL DEF BusyIsHonest
-----------------------------------------------------------------------------
(* What the mapping makes of a state of the ring.                          *)
Issued == [l \in Layers |-> NextTicket(take[l])]
Held == [t \in Threads |-> HeldTicket(t)]
Contents == [k \in 0 .. Capacity - 1 |-> SlotValue(k \div BlockSize, k % BlockSize)]

(* The steps of Pipeline, in these terms.                                  *)
LEMMA PipelineSteps ==
    ASSUME NEW l \in Layers, NEW t \in Threads
    PROVE  /\ Tickets!Take(l, t) <=> /\ Held[t] = -1 /\ Tickets!Ready(l, Issued[l])
                                     /\ Held' = [Held EXCEPT ![t] = Issued[l]]
                                     /\ Issued' = [Issued EXCEPT ![l] = Issued[l] + 1]
                                     /\ Contents' = Contents
           /\ Tickets!Transform(l, t) <=>
                  /\ Held[t] # -1
                  /\ Contents[Held[t] % Capacity] = Tickets!Input(l, Held[t])
                  /\ Contents' = [Contents EXCEPT ![Held[t] % Capacity] = Tickets!Output(l, Held[t])]
                  /\ Issued' = Issued /\ Held' = Held
           /\ Tickets!Give(l, t) <=>
                  /\ Held[t] # -1
                  /\ Contents[Held[t] % Capacity] = Tickets!Output(l, Held[t])
                  /\ Held' = [Held EXCEPT ![t] = -1]
                  /\ Issued' = Issued /\ Contents' = Contents
  BY DEF Tickets!Take, Tickets!Transform, Tickets!Give, Tickets!Nobody,
         Tickets!Slot, Issued, Held, Contents

(* The tickets other threads hold and other layers hand out stay.          *)
LEMMA OthersTickets ==
    ASSUME NEW t \in Threads, Alone(t)
    PROVE  /\ \A u \in Threads \ {t} : HeldTicket(u)' = HeldTicket(u)
           /\ \A l \in Layers \ {Layer(t)} : NextTicket(take'[l]) = NextTicket(take[l])
  BY DEF Alone, HeldTicket, Holding, Block

(* Every slot of the ring is a slot of a block.                            *)
LEMMA SlotParts ==
    ASSUME NEW k \in 0 .. Capacity - 1
    PROVE  /\ k \div BlockSize \in Blocks /\ k % BlockSize \in Slots
           /\ k = (k \div BlockSize) * BlockSize + (k % BlockSize)
<1> DEFINE q == k \div BlockSize
<1>1. k \in Nat /\ q \in Nat /\ k % BlockSize \in 0 .. BlockSize - 1
      /\ k = BlockSize * q + (k % BlockSize)
  OBVIOUS
<1>2. q < NumBlocks
  <2>1. SUFFICES ASSUME q >= NumBlocks PROVE FALSE
    BY <1>1
  <2>2. BlockSize * q >= NumBlocks * BlockSize
    <3> HIDE DEF q
    <3> QED BY <1>1, <2>1
  <2>3. k < NumBlocks * BlockSize
    BY DEF Capacity
  <2> HIDE DEF q
  <2>4. QED
    BY <1>1, <2>2, <2>3
<1>3. BlockSize * q = q * BlockSize
  <2> HIDE DEF q
  <2> QED BY <1>1
<1>4. QED
  BY <1>1, <1>2, <1>3 DEF Blocks, Slots

(* A slot taken is a ticket taken.                                         *)
LEMMA TakeMaps ==
    ASSUME OneThreadPerLayer, TypeOK, TypeOK', OrderInv, OrderInv', Unused, NEW t \in Threads,
           MaxTake(t), NEW l \in Layers, l = Layer(t)
    PROVE  Tickets!Take(l, t)
<1>1. PICK b \in Blocks : b = Block(t) /\ b = Block(t)'
  BY PlaceLemma DEF MaxTake, Block
<1>2. Step(t) /\ Alone(t)
  BY AloneLemma DEF Step, Reserve
<1> DEFINE n == Ticket(b, seen[t].v, seen[t].i)
<1>3. /\ seen[t].v \in Nat /\ seen[t].i \in Slots /\ (b # 0 => seen[t].v # 1)
      /\ take[l][b] = seen[t] /\ NextTicket(take[l]) = n
      /\ seen[t].i \in Nat /\ seen[t].i + 1 <= BlockSize
  <2>1. /\ seen[t].v \in Nat /\ seen[t].i \in Slots /\ (b # 0 => seen[t].v # 1)
        /\ take[l][b] = seen[t] /\ NextTicket(take[l]) = n
    BY <1>1, NextIsSeen DEF MaxTake
  <2>2. QED
    BY <2>1 DEF Slots
<1>4. n \in Nat /\ Ticket(b, seen[t].v, seen[t].i + 1) = n + 1
  BY <1>3, TicketLemma
<1>5. /\ pc[t] = "max_take" /\ pc'[t] = "transform" /\ UNCHANGED <<heads, give, entries, head, seen>>
      /\ take' = Raise(take, t, b, Incr(IndexSpan, seen[t]))
  BY <1>1, <1>3 DEF MaxTake, Goto, TypeOK
<1>6. HeldTicket(t) = -1 /\ HeldTicket(t)' = n
  BY <1>1, <1>5 DEF HeldTicket, Holding
<1>7. NextTicket(take'[l]) = n + 1
  <2>1. take'[l][b] = After(t)
    <3>1. Incr(IndexSpan, seen[t]) = After(t)
      BY <1>3, WordTypes DEF Incr, After, FromParts, Pair
    <3>2. MaxPair(seen[t], After(t)) = After(t)
      BY <1>3 DEF MaxPair, AtMost, After, FromParts
    <3>3. take'[l][b] = MaxPair(take[l][b], Incr(IndexSpan, seen[t]))
      <4>1. take \in [Layers -> [Blocks -> Pair]]
        BY DEF TypeOK
      <4>2. QED
        BY <1>5, <4>1, RaiseChanges
    <3>4. QED
      BY <1>3, <3>1, <3>2, <3>3
  <2>2. Reached(t)' = Reached(t) /\ Reached(t) = head[t] /\ Reached(t).i = b
    BY <1>1, <1>5 DEF Reached, OrderInv, Knows, Block, Layer
  <2>3. Reached(t) \in Heads /\ take'[l] \in [Blocks -> Pair] /\ Follows(take'[l], Reached(t))
    <3>1. TakeFollowsHead(t)' /\ \A c \in Blocks : BlockInOrder(c)'
      BY DEF OrderInv
    <3>2. \A c \in Blocks : take'[l][c].i <= BlockSize
      BY <3>1 DEF BlockInOrder, WordOK
    <3>3. Reached(t) \in Heads /\ take'[l] \in [Blocks -> Pair]
      BY <1>5, ThreadFollows DEF OrderInv, TypeOK
    <3>4. Follows(take'[l], Reached(t)')
      BY <3>1, <3>2 DEF Follows, TakeFollowsHead, Layer
    <3>5. QED
      BY <2>2, <3>3, <3>4
  <2>4. NextTicket(take'[l]) = Ticket(b, VersionIn(b, Reached(t).v), take'[l][b].i)
    BY <2>2, <2>3, NextIsReached
  <2>5. VersionIn(b, Reached(t).v) = seen[t].v /\ take'[l][b].i = seen[t].i + 1
    <3>1. take'[l][b].v = VersionIn(b, Reached(t).v)
      BY <2>2, <2>3 DEF Follows
    <3>2. take'[l][b].v = seen[t].v /\ take'[l][b].i = seen[t].i + 1
      BY <2>1 DEF After, FromParts
    <3>3. QED
      BY <3>1, <3>2
  <2>6. QED
    BY <1>4, <2>4, <2>5
<1>8. Tickets!Ready(l, n)
  <2>1. Granted(t)
    BY <1>5 DEF OrderInv, Knows
  <2>2. CASE l # 0
    <3>1. Chased(l) = l - 1 /\ l - 1 \in Layers
      BY <2>2, ChasedLemma
    <3>2. Within(b, After(t), give[l - 1][b])
      BY <1>1, <2>1, <2>2, <3>1 DEF Granted, Ahead
    <3>3. AtMost(After(t), give[l - 1][b])
      BY <1>3, <3>2 DEF Within, After, FromParts
    <3>4. GivenBack(l - 1, n)
      BY <1>3, <3>1, <3>3, GivenBackLemma DEF After
    <3>5. QED
      BY <2>2, <3>1, <3>4, FinishedLemma DEF Tickets!Ready
  <2>3. CASE l = 0
    <3> DEFINE r == Round(b, seen[t].v)
               v == VersionIn(b, r - 1)
    <3>1. SUFFICES ASSUME n >= Capacity PROVE Tickets!Finished(NumLayers - 1, n - Capacity)
      BY <2>3 DEF Tickets!Ready
    <3>2. n = r * Capacity + (b * BlockSize + seen[t].i) /\ r \in Nat
          /\ b * BlockSize + seen[t].i \in 0 .. Capacity - 1 /\ Capacity \in Nat
      <4>1. r \in Nat /\ b * BlockSize + seen[t].i \in 0 .. Capacity - 1 /\ Capacity \in Nat
        <5>1. r \in Nat
          BY <1>3, RoundLemma
        <5>2. b * BlockSize + seen[t].i \in 0 .. Capacity - 1
          BY <1>3, TicketSlot
        <5>3. Capacity \in Nat
          BY DEF Capacity
        <5>4. QED
          BY <5>1, <5>2, <5>3
      <4>2. n = r * Capacity + (b * BlockSize + seen[t].i)
        <5>1. b \in Nat
          BY DEF Blocks
        <5>2. (r * NumBlocks + b) * BlockSize = r * (NumBlocks * BlockSize) + b * BlockSize
          <6> HIDE DEF r
          <6> QED BY <4>1, <5>1
        <5>3. r * (NumBlocks * BlockSize) \in Nat /\ b * BlockSize \in Nat
          <6> HIDE DEF r
          <6> QED BY <4>1, <5>1 DEF Capacity
        <5>4. QED
          BY <1>3, <5>2, <5>3 DEF Ticket, Capacity
      <4>3. QED
        BY <4>1, <4>2
    <3>3. r >= 1
      <4> HIDE DEF r, n
      <4> QED BY <3>1, <3>2
    <3>4. n - Capacity = Ticket(b, v, seen[t].i) /\ v \in Nat /\ (b # 0 => v # 1)
          /\ Following(b, v) = seen[t].v
      <4>1. r - 1 \in Nat /\ v \in Nat /\ Round(b, v) = r - 1 /\ (b # 0 => v # 1)
        BY <3>2, <3>3, RoundLemma DEF VersionIn
      <4>2. Following(b, v) = seen[t].v
        BY <1>3, <3>3 DEF Following, VersionIn, Round
      <4>3. ((r - 1) * NumBlocks + b) * BlockSize = (r * NumBlocks + b) * BlockSize - NumBlocks * BlockSize
        <5>1. b \in Nat
          BY DEF Blocks
        <5> HIDE DEF r
        <5>2. (r - 1) * NumBlocks + b = (r * NumBlocks + b) - NumBlocks
          BY <3>2, <5>1
        <5>3. r * NumBlocks + b \in Nat
          BY <3>2, <5>1
        <5>4. QED
          BY <5>2, <5>3
      <4>4. (r * NumBlocks + b) * BlockSize \in Nat /\ NumBlocks * BlockSize \in Nat
        <5>1. b \in Nat
          BY DEF Blocks
        <5> HIDE DEF r
        <5>2. QED
          BY <3>2, <5>1
      <4>5. n - Capacity = Ticket(b, v, seen[t].i)
        <5>1. n = (r * NumBlocks + b) * BlockSize + seen[t].i
          BY DEF Ticket
        <5>2. Ticket(b, v, seen[t].i) = ((r - 1) * NumBlocks + b) * BlockSize + seen[t].i
          BY <4>1 DEF Ticket
        <5> HIDE DEF n, r, v
        <5>3. QED
          BY <1>3, <4>3, <4>4, <5>1, <5>2 DEF Capacity
      <4>6. QED
        BY <4>1, <4>2, <4>5
    <3>5. Within(b, After(t), Turn(b, give[NumLayers - 1][b]))
      BY <1>1, <2>1, <2>3, ChasedLemma DEF Granted, Ahead
    <3>6. NumLayers - 1 \in Layers /\ give[NumLayers - 1][b] \in Pair
      BY ChasedLemma, WordTypes DEF Layers
    <3>7. AtMost(FromParts(v, seen[t].i + 1), give[NumLayers - 1][b])
      <4> DEFINE g == give[NumLayers - 1][b]
      <4>1. g.v \in Nat /\ g.i \in Nat /\ (b # 0 => g.v # 1)
        BY <3>6 DEF Pair, OrderInv, BlockInOrder, WordOK
      <4>2. \/ seen[t].v < Following(b, g.v)
            \/ seen[t].v = Following(b, g.v) /\ seen[t].i + 1 <= g.i
        BY <1>3, <3>5 DEF Within, Turn, After, FromParts, AtMost
      <4>3. v < g.v \/ (v = g.v /\ seen[t].i + 1 <= g.i)
        <5> HIDE DEF v, g
        <5> QED BY <3>4, <4>1, <4>2 DEF Following
      <4>4. QED
        BY <4>3 DEF AtMost, FromParts
    <3>8. GivenBack(NumLayers - 1, n - Capacity)
      <4> HIDE DEF n, v
      <4> QED BY <1>3, <3>4, <3>6, <3>7, GivenBackLemma
    <3>9. QED
      BY <3>6, <3>8, FinishedLemma
  <2>4. QED
    BY <2>2, <2>3
<1>9. Held' = [Held EXCEPT ![t] = Issued[l]] /\ Held[t] = -1
  BY <1>2, <1>3, <1>6, OthersTickets DEF Held, Issued
<1>10. Issued' = [Issued EXCEPT ![l] = Issued[l] + 1]
  BY <1>2, <1>3, <1>7, OthersTickets DEF Issued
<1>11. Contents' = Contents
  BY <1>5 DEF Contents, SlotValue
<1>12. Tickets!Ready(l, Issued[l])
  <2>1. Issued[l] = n
    BY <1>3 DEF Issued
  <2>2. QED
    BY <1>8, <2>1
<1>13. QED
  BY <1>9, <1>10, <1>11, <1>12, PipelineSteps

(* A thread that holds a slot holds its ticket.                            *)
LEMMA HeldLemma ==
    ASSUME TypeOK, OrderInv, NEW t \in Threads, Holding(t), NEW b \in Blocks, b = Block(t),
           NEW s \in Slots, s = seen[t].i
    PROVE  /\ seen[t].v \in Nat /\ (b # 0 => seen[t].v # 1)
           /\ Held[t] = Ticket(b, seen[t].v, s) /\ Held[t] \in Nat /\ Held[t] # -1
           /\ Held[t] % Capacity = b * BlockSize + s
           /\ Contents[Held[t] % Capacity] = SlotValue(b, s)
<1>1. seen[t].v \in Nat
  BY SlotSeen
<1>2. b # 0 => seen[t].v # 1
  <2>1. give[Layer(t)][b] = seen[t] /\ Layer(t) \in Layers
    BY PlaceLemma DEF OrderInv, GiveFollowsTake
  <2>2. QED
    BY <2>1 DEF OrderInv, BlockInOrder, WordOK
<1>3. Held[t] = Ticket(b, seen[t].v, s)
  BY DEF Held, HeldTicket
<1>4. Ticket(b, seen[t].v, s) \in Nat
  <2>1. s \in Nat
    BY DEF Slots
  <2>2. QED
    BY <1>1, <2>1, TicketLemma
<1>5. /\ b * BlockSize + s \in 0 .. Capacity - 1
      /\ Ticket(b, seen[t].v, s) % Capacity = b * BlockSize + s
      /\ (b * BlockSize + s) \div BlockSize = b /\ (b * BlockSize + s) % BlockSize = s
  BY <1>1, TicketSlot
<1>6. Contents[b * BlockSize + s] = SlotValue(b, s)
  BY <1>5 DEF Contents
<1>7. QED
  BY <1>1, <1>2, <1>3, <1>4, <1>5, <1>6

(* A closure that runs to its end is a ticket worked on.                   *)
LEMMA TransformMaps ==
    ASSUME OneThreadPerLayer, TypeOK, OrderInv, EntryInv, NEW t \in Threads,
           Transform(t), NEW l \in Layers, l = Layer(t)
    PROVE  Tickets!Transform(l, t)
<1>1. /\ pc[t] = "transform" /\ pc'[t] = "incr_give" /\ Holding(t) /\ Holding(t)'
      /\ UNCHANGED <<heads, take, give, head, seen>>
  BY DEF Transform, Goto, Holding, TypeOK, shared
<1>2. PICK b \in Blocks, s \in Slots : b = Block(t) /\ s = seen[t].i
  BY <1>1, PlaceLemma, SlotSeen
<1> DEFINE n == Ticket(b, seen[t].v, s)
<1>3. /\ Held[t] = n /\ Held[t] # -1
      /\ Held[t] % Capacity = b * BlockSize + s
      /\ Contents[Held[t] % Capacity] = SlotValue(b, s)
  BY <1>1, <1>2, HeldLemma
<1>4. SlotValue(b, s) = Tickets!Input(l, n)
  <2>1. \A m \in Layers :
            NextTurn(m, b, s) = IF m < l THEN Following(b, seen[t].v) ELSE seen[t].v
    BY <1>1, <1>2, TransformIsNext
  <2>2. seen[t].v \in Nat /\ Following(b, seen[t].v) # seen[t].v
    BY <1>1, SlotSeen DEF Following
  <2>3. 0 \in Layers /\ NumLayers - 1 \in Layers /\ l \in Int /\ l >= 0 /\ (l # 0 => l - 1 \in Layers)
    BY DEF Layers
  <2>4. CASE l = 0
    <3>1. NextTurn(0, b, s) = NextTurn(NumLayers - 1, b, s)
      BY <2>1, <2>3, <2>4
    <3>2. entries[b][s] = <<>>
      BY <3>1 DEF EntryInv
    <3>3. QED
      BY <2>4, <3>2 DEF SlotValue, Tickets!Input
  <2>5. CASE l # 0
    <3>1. NextTurn(l - 1, b, s) # NextTurn(l, b, s) /\ NextTurn(l, b, s) = seen[t].v
      BY <2>1, <2>2, <2>3, <2>5
    <3>2. entries[b][s] = <<seen[t].v, l - 1>>
      BY <2>5, <3>1 DEF EntryInv
    <3>3. QED
      BY <2>5, <3>2 DEF SlotValue, Tickets!Input
  <2>6. QED
    BY <2>4, <2>5
<1>5. SlotValue(b, s)' = Tickets!Output(l, n)
  <2>1. entries'[b][s] = IF l = NumLayers - 1 THEN <<>> ELSE <<seen[t].v, l>>
    BY <1>2 DEF Transform, TypeOK
  <2>2. QED
    BY <2>1 DEF SlotValue, Tickets!Output
<1>6. \A c \in Blocks, r \in Slots : c # b \/ r # s => SlotValue(c, r)' = SlotValue(c, r)
  <2>1. \A c \in Blocks, r \in Slots : c # b \/ r # s => entries'[c][r] = entries[c][r]
    BY <1>2 DEF Transform, TypeOK
  <2>2. QED
    BY <2>1 DEF SlotValue
<1>7. Contents' = [Contents EXCEPT ![b * BlockSize + s] = Tickets!Output(l, n)]
  <2>1. (b * BlockSize + s) \div BlockSize = b /\ (b * BlockSize + s) % BlockSize = s
    BY <1>1, SlotSeen, TicketSlot
  <2>2. SUFFICES ASSUME NEW k \in 0 .. Capacity - 1
                 PROVE  Contents'[k] = IF k = b * BlockSize + s THEN Tickets!Output(l, n)
                                       ELSE Contents[k]
    BY DEF Contents
  <2>3. PICK c \in Blocks, r \in Slots : /\ c = k \div BlockSize /\ r = k % BlockSize
                                         /\ k = c * BlockSize + r
    BY SlotParts
  <2>4. Contents'[k] = SlotValue(c, r)' /\ Contents[k] = SlotValue(c, r)
    BY <2>3 DEF Contents
  <2>5. CASE k = b * BlockSize + s
    BY <1>5, <2>1, <2>3, <2>4, <2>5
  <2>6. CASE k # b * BlockSize + s
    BY <1>6, <2>3, <2>4, <2>6
  <2>7. QED
    BY <2>5, <2>6
<1>8. Issued' = Issued /\ Held' = Held
  <2>1. Alone(t)
    BY AloneLemma DEF Step, Work
  <2>2. HeldTicket(t)' = HeldTicket(t)
    BY <1>1 DEF HeldTicket, Block
  <2>3. QED
    BY <1>1, <2>1, <2>2, OthersTickets DEF Held, Issued
<1>9. QED
  <2>1. Contents[Held[t] % Capacity] = Tickets!Input(l, Held[t])
    BY <1>3, <1>4
  <2>2. Contents' = [Contents EXCEPT ![Held[t] % Capacity] = Tickets!Output(l, Held[t])]
    BY <1>3, <1>7
  <2>3. QED
    BY <1>3, <1>8, <2>1, <2>2, PipelineSteps

(* An entry dropped is a ticket given back.                                *)
LEMMA GiveMaps ==
    ASSUME OneThreadPerLayer, TypeOK, OrderInv, EntryInv, NEW t \in Threads,
           IncrGive(t), NEW l \in Layers, l = Layer(t)
    PROVE  Tickets!Give(l, t)
<1>1. pc[t] = "incr_give" /\ pc'[t] = "idle" /\ Holding(t) /\ ~ Holding(t)' /\ UNCHANGED <<take, entries>>
  BY DEF IncrGive, Return, Leave, Goto, Holding, TypeOK
<1>2. PICK b \in Blocks, s \in Slots : b = Block(t) /\ s = seen[t].i
  BY <1>1, PlaceLemma, SlotSeen
<1> DEFINE n == Ticket(b, seen[t].v, s)
           v == seen[t].v
<1>3. /\ Held[t] = n /\ Held[t] # -1 /\ v \in Nat /\ (b # 0 => v # 1)
      /\ Contents[Held[t] % Capacity] = SlotValue(b, s)
  BY <1>1, <1>2, HeldLemma
<1>4. SlotValue(b, s) = Tickets!Output(l, n)
  <2>1. take[l][b] = After(t) /\ give[l][b] = seen[t]
    BY <1>1, <1>2 DEF OrderInv, Knows, GiveFollowsTake
  <2>2. s \in Nat /\ Following(b, v) \in Nat /\ Following(b, v) > v
    BY <1>3 DEF Following, Slots
  <2>3. NextTurn(l, b, s) = Following(b, v)
    <3>1. Worked(l, b) = After(t)
      BY <1>1, <1>2, <2>1, WorkedAlone
    <3>2. QED
      BY <1>2, <2>2, <3>1 DEF NextTurn, Pending, After, FromParts
  <2>4. 0 \in Layers /\ NumLayers - 1 \in Layers /\ l \in Int /\ l >= 0
    BY DEF Layers
  <2>5. BlockInOrder(b) /\ WordOK(b, seen[t]) /\ seen[t] \in Pair
    BY <2>1, WordTypes DEF OrderInv, BlockInOrder
  <2>6. CASE l = NumLayers - 1
    <3>1. /\ Following(b, v) <= NextTurn(0, b, s) /\ NextTurn(0, b, s) \in Nat
      BY <2>3, <2>4, <2>6, TurnsInOrder
    <3>2. NextTurn(0, b, s) <= Pending(b, Turn(b, seen[t]), s)
      <4>1. Within(b, take[0][b], Turn(b, seen[t]))
        BY <2>1, <2>5, <2>6 DEF BlockInOrder, Layers
      <4>2. /\ Worked(0, b) \in Pair /\ WordOK(b, Worked(0, b)) /\ Within(b, Worked(0, b), take[0][b])
            /\ take[0][b] \in Pair /\ WordOK(b, take[0][b])
        BY <2>4, <2>5, WorkedLemma, WordTypes DEF BlockInOrder
      <4>3. Turn(b, seen[t]) \in Pair /\ WordOK(b, Turn(b, seen[t]))
        BY <2>5, TurnLemma
      <4>4. Within(b, Worked(0, b), Turn(b, seen[t]))
        BY <4>1, <4>2, <4>3, WithinLemma
      <4>5. QED
        BY <4>2, <4>3, <4>4, PendingLemma DEF NextTurn
    <3>3. Pending(b, Turn(b, seen[t]), s) = Following(b, v)
      BY <1>2, <2>2 DEF Pending, Turn, FromParts
    <3>4. NextTurn(0, b, s) = NextTurn(NumLayers - 1, b, s)
      BY <2>2, <2>3, <2>6, <3>1, <3>2, <3>3
    <3>5. entries[b][s] = <<>>
      BY <3>4 DEF EntryInv
    <3>6. QED
      BY <2>6, <3>5 DEF SlotValue, Tickets!Output
  <2>7. CASE l # NumLayers - 1
    <3>1. PICK m \in Layers : m = l + 1
      BY <2>4, <2>7 DEF Layers
    <3>2. NextTurn(m, b, s) <= v /\ NextTurn(m, b, s) \in Nat /\ (b # 0 => NextTurn(m, b, s) # 1)
      <4>1. Within(b, take[m][b], seen[t])
        BY <2>1, <2>4, <2>5, <3>1 DEF BlockInOrder
      <4>2. /\ Worked(m, b) \in Pair /\ WordOK(b, Worked(m, b)) /\ Within(b, Worked(m, b), take[m][b])
            /\ take[m][b] \in Pair /\ WordOK(b, take[m][b])
        BY <2>5, WorkedLemma, WordTypes DEF BlockInOrder
      <4>3. Within(b, Worked(m, b), seen[t])
        BY <2>5, <4>1, <4>2, WithinLemma
      <4>4. NextTurn(m, b, s) <= Pending(b, seen[t], s)
        BY <2>5, <4>2, <4>3, PendingLemma DEF NextTurn
      <4>5. Pending(b, seen[t], s) = v
        BY <1>2, <2>2 DEF Pending
      <4>6. QED
        BY <4>4, <4>5, TurnsInOrder
    <3>3. NextTurn(m, b, s) >= v
      <4>1. Following(b, v) <= Following(b, NextTurn(m, b, s))
        <5>1. /\ NextTurn(l, b, s) <= NextTurn(0, b, s) /\ NextTurn(0, b, s) \in Nat
              /\ NextTurn(0, b, s) <= Following(b, NextTurn(m, b, s))
          BY <2>4, TurnsInOrder
        <5>2. Following(b, NextTurn(m, b, s)) \in Nat
          BY <3>2 DEF Following
        <5>3. QED
          BY <2>2, <2>3, <5>1, <5>2
      <4>2. QED
        BY <1>3, <3>2, <4>1 DEF Following
    <3>4. NextTurn(m, b, s) = v
      BY <1>3, <3>2, <3>3
    <3>5. m # 0 /\ m - 1 = l
      BY <2>4, <3>1
    <3>6. NextTurn(m - 1, b, s) # NextTurn(m, b, s)
      BY <1>3, <2>2, <2>3, <3>4, <3>5
    <3>7. entries[b][s] = <<v, l>>
      BY <3>4, <3>5, <3>6 DEF EntryInv
    <3>8. QED
      BY <2>7, <3>7 DEF SlotValue, Tickets!Output
  <2>8. QED
    BY <2>6, <2>7
<1>5. Held' = [Held EXCEPT ![t] = -1] /\ Issued' = Issued /\ Contents' = Contents
  <2>1. Alone(t)
    BY AloneLemma DEF Step, Work
  <2>2. HeldTicket(t)' = -1
    BY <1>1 DEF HeldTicket
  <2>3. Held' = [Held EXCEPT ![t] = -1]
    BY <2>1, <2>2, OthersTickets DEF Held
  <2>4. QED
    BY <1>1, <2>3 DEF Issued, Contents, SlotValue
<1>6. QED
  BY <1>3, <1>4, <1>5, PipelineSteps

(* The block that is opened begins with the ticket that comes after those  *)
(* of the block before.                                                    *)
LEMMA ResetMaps ==
    ASSUME TypeOK, TypeOK', OrderInv, OrderInv', NEW t \in Threads, ResetTake(t)
    PROVE  Issued' = Issued /\ Held' = Held /\ Contents' = Contents
<1>1. PICK l \in Layers, b \in Blocks, c \in Blocks : l = Layer(t) /\ b = Block(t) /\ c = NextBlock(t)
  BY PlaceLemma
<1>2. /\ pc[t] = "reset_take" /\ pc'[t] = "max_head" /\ UNCHANGED <<heads, give, entries, head, seen>>
      /\ take' = Raise(take, t, c, Opened(t)) /\ take \in [Layers -> [Blocks -> Pair]]
  BY <1>1 DEF ResetTake, Goto, TypeOK, OrderInv, Knows
<1>3. Alone(t)
  BY AloneLemma DEF Step, Advance
<1>4. HeldTicket(t)' = HeldTicket(t)
  BY <1>2 DEF HeldTicket, Holding
<1> DEFINE h == head[t]
           n == NextHead(t)
           p == h.v * NumBlocks + h.i
           q == n.v * NumBlocks + n.i
<1>5. h \in Heads /\ n \in Heads /\ h.v \in Nat /\ h.i = b /\ b \in Nat /\ n.i = c /\ n.v \in Nat
  <2>1. h \in Heads /\ n \in Heads
    BY PlaceLemma DEF TypeOK, Heads
  <2>2. n.i = c
    BY <1>1, NextLemma DEF FromParts
  <2>3. QED
    BY <1>1, <2>1, <2>2 DEF Heads, Block, Blocks
<1>6. NextTicket(take[l]) = p * BlockSize + BlockSize
  <2>1. Reached(t) = h /\ take[l][b].i = BlockSize
    BY <1>1, <1>2 DEF OrderInv, Knows, Reached
  <2>2. /\ Reached(t) \in Heads /\ take[l] \in [Blocks -> Pair] /\ Follows(take[l], Reached(t))
    BY <1>1, ThreadFollows DEF OrderInv
  <2>3. NextTicket(take[l]) = Ticket(b, VersionIn(b, h.v), BlockSize)
    BY <1>5, <2>1, <2>2, NextIsReached
  <2>4. Round(b, VersionIn(b, h.v)) = h.v
    BY <1>5, RoundLemma
  <2>5. QED
    BY <1>5, <2>3, <2>4 DEF Ticket
<1>7. NextTicket(take'[l]) = q * BlockSize
  <2>1. Reached(t)' = n
    BY <1>2 DEF Reached, NextHead
  <2>2. take'[l] \in [Blocks -> Pair] /\ Follows(take'[l], n)
    <3>1. TakeFollowsHead(t)' /\ \A d \in Blocks : BlockInOrder(d)'
      BY DEF OrderInv
    <3>2. \A d \in Blocks : take'[l][d].i <= BlockSize
      BY <3>1 DEF BlockInOrder, WordOK
    <3>3. take'[l] \in [Blocks -> Pair]
      BY DEF TypeOK
    <3>4. Layer(t)' = l
      BY <1>1 DEF Layer
    <3>5. Follows(take'[l], Reached(t)')
      BY <3>1, <3>2, <3>4 DEF Follows, TakeFollowsHead
    <3>6. QED
      BY <2>1, <3>3, <3>5
  <2>3. NextTicket(take'[l]) = Ticket(c, VersionIn(c, n.v), take'[l][c].i)
    BY <1>5, <2>2, NextIsReached
  <2>4. take'[l][c].i = 0
    <3>1. /\ Opened(t) \in Pair /\ MaxPair(take[l][c], Opened(t)) = Opened(t)
      BY <1>1, <1>2, OpenedRaises
    <3>2. take'[l][c] = MaxPair(take[l][c], Opened(t))
      BY <1>1, <1>2, <3>1, RaiseChanges
    <3>3. QED
      BY <3>1, <3>2 DEF Opened, FromParts
  <2>5. Round(c, VersionIn(c, n.v)) = n.v
    BY <1>5, RoundLemma
  <2>6. Ticket(c, VersionIn(c, n.v), 0) = q * BlockSize + 0
    BY <1>5, <2>5 DEF Ticket
  <2>7. q * BlockSize \in Nat
    <3>1. q \in Nat
      BY <1>5 DEF Blocks
    <3> HIDE DEF q
    <3> QED BY <3>1
  <2>8. QED
    <3> HIDE DEF q
    <3> QED BY <2>3, <2>4, <2>6, <2>7
<1>8. p * BlockSize + BlockSize = q * BlockSize
  <2>1. q = p + 1 /\ p \in Nat
    <3>1. h.v * NumBlocks \in Nat /\ (h.v + 1) * NumBlocks = h.v * NumBlocks + NumBlocks
      BY <1>5
    <3>2. \/ n.v = h.v /\ n.i = h.i + 1
          \/ n.v = h.v + 1 /\ n.i = 0 /\ h.i + 1 = NumBlocks
      BY NextLemma DEF FromParts
    <3>3. QED
      BY <1>5, <3>1, <3>2
  <2> HIDE DEF p, q
  <2>2. QED
    BY <2>1
<1>9. Issued' = Issued
  BY <1>1, <1>3, <1>6, <1>7, <1>8, OthersTickets DEF Issued
<1>10. QED
  BY <1>2, <1>3, <1>4, <1>9, OthersTickets DEF Held, Contents, SlotValue

(* The other steps of a call are no steps of the pipeline.                 *)
LEMMA QuietMaps ==
    ASSUME TypeOK, NEW t \in Threads, Step(t),
           ~ MaxTake(t), ~ Transform(t), ~ IncrGive(t), ~ ResetTake(t)
    PROVE  /\ Issued' = Issued /\ Held' = Held /\ Contents' = Contents
           /\ ~ Holding(t) /\ ~ Holding(t)'
<1>1. Alone(t)
  BY AloneLemma
<1>2. take' = take /\ entries' = entries /\ ~ Holding(t) /\ ~ Holding(t)'
  <2>1. CASE Reserve(t)
    BY <2>1 DEF Reserve, StartTransform, LoadHead, LoadTake, ReportNotAvailable,
       LoadChasingGive, ReportBusy, LoadChasingTake, Return, Leave, Goto, Holding, TypeOK, shared
  <2>2. CASE Advance(t)
    BY <2>2 DEF Advance, CheckChasingGive, ReportBusyAdvance, CheckChasingTake, LoadOwnGive,
       ResetGive, MaxHead, CompareHead, WriteHead, Return, Leave, Goto, Holding, TypeOK, shared
  <2>3. QED
    BY <2>1, <2>2 DEF Step, Work
<1>3. HeldTicket(t)' = HeldTicket(t)
  BY <1>2 DEF HeldTicket
<1>4. QED
  BY <1>1, <1>2, <1>3, OthersTickets DEF Issued, Held, Contents, SlotValue

(* The first ticket of every layer is ticket 0.                            *)
LEMMA NextInit == ASSUME Init, NEW l \in Layers PROVE NextTicket(take[l]) = 0
<1> DEFINE Touched == {b \in Blocks : take[l][b] # Zero}
<1>1. Touched = {}
  BY DEF Init
<1>2. {0} \cup {Ticket(b, take[l][b].v, take[l][b].i) : b \in Touched} = {0}
  BY <1>1
<1>3. Max({0}) = 0
  BY DEF Max
<1>4. QED
  BY <1>2, <1>3 DEF NextTicket

(* A new ring is a new pipeline.                                           *)
LEMMA PipelineInit == Init => Tickets!Init
<1> SUFFICES ASSUME Init PROVE Tickets!Init
  OBVIOUS
<1>1. \A l \in Layers : NextTicket(take[l]) = 0
  BY NextInit
<1>2. \A t \in Threads : HeldTicket(t) = -1
  BY DEF Init, HeldTicket, Holding
<1>3. \A k \in 0 .. Capacity - 1 : SlotValue(k \div BlockSize, k % BlockSize) = <<>>
  BY SlotParts DEF Init, SlotValue
<1>4. Tickets!AllWorkers = Threads
  BY DEF Tickets!AllWorkers, Tickets!Layers, Layers, Layer
<1>5. QED
  BY <1>1, <1>2, <1>3, <1>4 DEF Tickets!Init, Tickets!Layers, Tickets!Nobody, Layers

(* get_entry keeps what Pipeline promises: every layer gets every ticket,  *)
(* once and in order, after the layer it chases has given it back, and     *)
(* finds in its slot what that layer left there.                           *)
THEOREM LayersArePipeline == OneThreadPerLayer => (Spec => ImplementsPipeline)
<1> SUFFICES ASSUME OneThreadPerLayer PROVE Spec => ImplementsPipeline
  OBVIOUS
<1>1. /\ TypeOK /\ OrderInv /\ EntryInv /\ Unused /\ TypeOK' /\ OrderInv' /\ [Next]_vars
      => [Tickets!Next]_Tickets!vars
  <2> SUFFICES ASSUME TypeOK, OrderInv, EntryInv, Unused, TypeOK', OrderInv', [Next]_vars
               PROVE  Tickets!Next \/ UNCHANGED Tickets!vars
    OBVIOUS
  <2>1. ASSUME NEW t \in Threads, Step(t) PROVE Tickets!Next \/ UNCHANGED Tickets!vars
    <3>1. PICK l \in Layers : l = Layer(t)
      BY PlaceLemma
    <3>2. Tickets!Take(l, t) \/ Tickets!Transform(l, t) \/ Tickets!Give(l, t) => Tickets!Next
      BY <3>1 DEF Tickets!Next, Tickets!Layers, Layers
    <3>3. Issued' = Issued /\ Held' = Held /\ Contents' = Contents => UNCHANGED Tickets!vars
      BY DEF Tickets!vars, Issued, Held, Contents
    <3>4. CASE MaxTake(t)
      BY <3>1, <3>2, <3>4, TakeMaps
    <3>5. CASE Transform(t)
      BY <3>1, <3>2, <3>5, TransformMaps
    <3>6. CASE IncrGive(t)
      BY <3>1, <3>2, <3>6, GiveMaps
    <3>7. CASE ResetTake(t)
      BY <3>3, <3>7, ResetMaps
    <3>8. CASE ~ MaxTake(t) /\ ~ Transform(t) /\ ~ IncrGive(t) /\ ~ ResetTake(t)
      BY <2>1, <3>3, <3>8, QuietMaps
    <3>9. QED
      BY <3>4, <3>5, <3>6, <3>7, <3>8
  <2>2. CASE UNCHANGED vars
    BY <2>2 DEF vars, shared, locals, Tickets!vars, NextTicket, HeldTicket, Holding, Block, SlotValue
  <2>3. QED
    BY <2>1, <2>2 DEF Next
<1>2. QED
  BY <1>1, PipelineInit, TypeCorrect, OrderCorrect, EntriesCorrect, UnusedStay, PTL
     DEF Spec, ImplementsPipeline, Tickets!Spec
-----------------------------------------------------------------------------
USE ProgramsAssumption

(* Every layer has a thread.                                               *)
Staffed == \A l \in Layers : \E t \in Threads : Layer(t) = l

(* The threads of a program make the same number of calls, and those of    *)
(* the last layer use their entries.                                       *)
Balanced == \A p \in Programs : /\ \A t, u \in Threads : p.calls[t] = p.calls[u]
                                /\ \A t \in p.careless : Layer(t) # NumLayers - 1
-----------------------------------------------------------------------------
(* A slot that has been through the last layer is empty.                   *)
Emptied == \A b \in Blocks, s \in Slots :
               NextTurn(0, b, s) = NextTurn(NumLayers - 1, b, s) => entries[b][s] = <<>>

(* A layer has handed out a ticket for each call that has returned, and    *)
(* one for the call that holds a slot.                                     *)
CallsCounted ==
    \A t \in Threads :
        NextTicket(take[Layer(t)]) = program.calls[t] - left[t] + (IF Holding(t) THEN 1 ELSE 0)

(* The program is one of those given, and has made its calls once main has *)
(* returned.                                                               *)
CallsMade == /\ program \in Programs
             /\ left \in [Threads -> Int]
             /\ main = "returned" => \A t \in Threads : Done(t)
-----------------------------------------------------------------------------
(* Entries are no part of the order.                                       *)
LEMMA DropKeeps ==
    ASSUME OneThreadPerLayer, TypeOK, OrderInv, NEW t \in Threads,
           DropEntryUnused(t) \/ PanicInClosure(t)
    PROVE  ClosureEnds(t) /\ TypeOK' /\ OrderInv'
<1>1. ClosureEnds(t)
  BY DEF DropEntryUnused, PanicInClosure, ClosureEnds
<1>2. TypeOK'
  <2>1. pc' \in [Threads -> Steps] /\ UNCHANGED <<heads, take, give, head, seen, mark>>
    BY DEF DropEntryUnused, PanicInClosure, Goto, TypeOK, Steps, shared
  <2>2. entries' \in [Blocks -> [Slots -> {<<>>} \cup (Nat \X Layers)]]
    <3>1. entries \in [Blocks -> [Slots -> {<<>>} \cup (Nat \X Layers)]]
      BY DEF TypeOK
    <3>2. CASE UNCHANGED entries
      BY <3>1, <3>2
    <3>3. CASE entries' = [entries EXCEPT ![Block(t)][seen[t].i] = <<>>]
      BY <3>1, <3>3
    <3>4. QED
      BY <3>2, <3>3 DEF DropEntryUnused, PanicInClosure
  <2>3. QED
    BY <2>1, <2>2 DEF TypeOK
<1>3. Alone(t)
  BY <1>1, ClosureAlone
<1>4. (\A b \in Blocks : BlockInOrder(b)') /\ Undisturbed(t)'
  BY <1>1, ClosureKeeps
<1>5. QED
  BY <1>1, <1>2, <1>3, <1>4, OrderKept

(* What a program does to the ring.                                        *)
LEMMA DriverSteps ==
    ASSUME OneThreadPerLayer, TypeOK, OrderInv, [DriverNext]_driverVars
    PROVE  TypeOK' /\ OrderInv'
<1>1. ASSUME NEW t \in Threads, Step(t) PROVE TypeOK' /\ OrderInv'
  BY <1>1, TypeStep, OrderStep
<1>2. ASSUME UNCHANGED vars PROVE TypeOK' /\ OrderInv'
  BY <1>2, StutterKeeps
<1>3. QED
  BY <1>1, <1>2, DropKeeps DEF DriverNext, Run, JoinAll, JoinFailed, Ended, driverVars

(* The last layer empties its slots, and before that no slot has been      *)
(* through it.                                                             *)
LEMMA ClosureEmpties ==
    ASSUME OneThreadPerLayer, TypeOK, OrderInv, Emptied, NEW t \in Threads, ClosureEnds(t),
           \A c \in Blocks, r \in Slots :
               c # Block(t) \/ r # seen[t].i => entries'[c][r] = entries[c][r],
           Layer(t) = NumLayers - 1 => entries'[Block(t)][seen[t].i] = <<>>
    PROVE  Emptied'
<1>1. pc[t] = "transform" /\ Holding(t)
  BY DEF ClosureEnds, Holding
<1>2. PICK k \in Layers, b \in Blocks, s \in Slots : k = Layer(t) /\ b = Block(t) /\ s = seen[t].i
  BY <1>1, PlaceLemma, SlotSeen
<1>3. 0 \in Layers /\ NumLayers - 1 \in Layers /\ k \in Int /\ 0 <= k /\ k <= NumLayers - 1
  BY DEF Layers
<1>4. SUFFICES ASSUME NEW c \in Blocks, NEW r \in Slots,
                      NextTurn(0, c, r)' = NextTurn(NumLayers - 1, c, r)'
               PROVE  entries'[c][r] = <<>>
  BY DEF Emptied
<1>5. CASE c # b \/ r # s
  <2>1. \A l \in Layers : NextTurn(l, c, r)' = NextTurn(l, c, r)
    BY <1>2, <1>5, ClosureTurns
  <2>2. entries[c][r] = <<>>
    BY <1>3, <1>4, <2>1 DEF Emptied
  <2>3. QED
    BY <1>2, <1>5, <2>2
<1>6. CASE c = b /\ r = s
  <2>1. SUFFICES ASSUME k # NumLayers - 1 PROVE FALSE
    BY <1>2, <1>6
  <2>2. NextTurn(NumLayers - 1, b, s)' = seen[t].v
    <3>1. NextTurn(NumLayers - 1, b, s) = seen[t].v
      <4>1. ~ (NumLayers - 1 < k)
        BY <1>3
      <4>2. QED
        BY <1>1, <1>2, <1>3, <4>1, TransformIsNext
    <3>2. QED
      BY <1>2, <1>3, <2>1, <3>1, ClosureTurns
  <2>3. NextTurn(0, b, s)' = Following(b, seen[t].v)
    <3>1. CASE k = 0
      <4>1. NextTurn(k, b, s)' = Following(b, seen[t].v)
        BY <1>2, ClosureTurns
      <4>2. QED
        BY <3>1, <4>1
    <3>2. CASE k # 0
      <4>1. NextTurn(0, b, s) = Following(b, seen[t].v)
        BY <1>1, <1>2, <1>3, <3>2, TransformIsNext
      <4>2. QED
        BY <1>2, <1>3, <3>2, <4>1, ClosureTurns
    <3>3. QED
      BY <3>1, <3>2
  <2>4. Following(b, seen[t].v) # seen[t].v
    BY <1>1, SlotSeen DEF Following
  <2>5. QED
    BY <1>4, <1>6, <2>2, <2>3, <2>4
<1>7. QED
  BY <1>5, <1>6

(* No step of a program fills a slot that has been through the last layer. *)
LEMMA EmptiedStays ==
    ASSUME OneThreadPerLayer, Balanced, TypeOK, OrderInv, TypeOK', Emptied, CallsMade,
           [DriverNext]_driverVars
    PROVE  Emptied'
<1>1. ASSUME NEW t \in Threads, Step(t), ~ Transform(t) PROVE Emptied'
  <2>1. /\ entries' = entries
        /\ \A l \in Layers, b \in Blocks, s \in Slots : NextTurn(l, b, s)' = NextTurn(l, b, s)
    BY <1>1, TurnsKept
  <2>2. 0 \in Layers /\ NumLayers - 1 \in Layers
    BY DEF Layers
  <2>3. QED
    BY <2>1, <2>2 DEF Emptied
<1>2. ASSUME NEW t \in Threads, Transform(t) PROVE Emptied'
  <2>1. ClosureEnds(t)
    BY <1>2 DEF Transform, ClosureEnds
  <2>2. PICK b \in Blocks, s \in Slots : b = Block(t) /\ s = seen[t].i
    BY <1>2, PlaceLemma, SlotSeen DEF Transform, Holding
  <2>3. \A c \in Blocks, r \in Slots :
            c # Block(t) \/ r # seen[t].i => entries'[c][r] = entries[c][r]
    BY <1>2, <2>2 DEF Transform, TypeOK
  <2>4. Layer(t) = NumLayers - 1 => entries'[Block(t)][seen[t].i] = <<>>
    BY <1>2, <2>2 DEF Transform, TypeOK
  <2>5. QED
    BY <2>1, <2>3, <2>4, ClosureEmpties
<1>3. ASSUME NEW t \in Threads, DropEntryUnused(t) PROVE Emptied'
  <2>1. ClosureEnds(t) /\ Layer(t) # NumLayers - 1
    BY <1>3, DropKeeps DEF DropEntryUnused, Balanced, CallsMade
  <2>2. \A c \in Blocks, r \in Slots :
            c # Block(t) \/ r # seen[t].i => entries'[c][r] = entries[c][r]
    BY <1>3 DEF DropEntryUnused
  <2>3. QED
    BY <2>1, <2>2, ClosureEmpties
<1>4. ASSUME NEW t \in Threads, PanicInClosure(t) PROVE Emptied'
  <2>1. ClosureEnds(t)
    BY <1>4, DropKeeps
  <2>2. PICK b \in Blocks, s \in Slots : b = Block(t) /\ s = seen[t].i
    BY <1>4, PlaceLemma, SlotSeen DEF PanicInClosure, Holding
  <2>3. \A c \in Blocks, r \in Slots :
            c # Block(t) \/ r # seen[t].i => entries'[c][r] = entries[c][r]
    BY <1>4, <2>2 DEF PanicInClosure, TypeOK
  <2>4. Layer(t) = NumLayers - 1 => entries'[Block(t)][seen[t].i] = <<>>
    BY <1>4, <2>2 DEF PanicInClosure, TypeOK
  <2>5. QED
    BY <2>1, <2>3, <2>4, ClosureEmpties
<1>5. ASSUME UNCHANGED vars PROVE Emptied'
  BY <1>5 DEF Emptied, vars, shared, locals, NextTurn, Pending, Worked, Block, Layer
<1>6. QED
  BY <1>1, <1>2, <1>3, <1>4, <1>5 DEF DriverNext, Run, JoinAll, JoinFailed, Ended, driverVars
-----------------------------------------------------------------------------
(* A call that takes a slot is counted while it holds it and once it has   *)
(* returned.                                                               *)
LEMMA CallsStayCounted ==
    ASSUME OneThreadPerLayer, Staffed, TypeOK, OrderInv, TypeOK', OrderInv', CallsMade,
           CallsCounted, [DriverNext]_driverVars
    PROVE  CallsCounted'
<1> DEFINE issued(t) == NextTicket(take[Layer(t)])
           held(t) == IF Holding(t) THEN 1 ELSE 0
<1>1. \A t \in Threads : left[t] \in Int /\ Layer(t) \in Layers /\ Layer(t)' = Layer(t)
  BY PlaceLemma DEF CallsMade, Layer
<1>2. ASSUME NEW t \in Threads, Alone(t), program' = program,
             left'[t] \in Int, \A u \in Threads \ {t} : left'[u] = left[u],
             issued(t)' = issued(t) - held(t) + held(t)' + left[t] - left'[t]
      PROVE  CallsCounted'
  <2>1. SUFFICES ASSUME NEW u \in Threads
                 PROVE  issued(u)' = program.calls[u] - left'[u] + held(u)'
    BY <1>2 DEF CallsCounted
  <2>2. issued(u) = program.calls[u] - left[u] + held(u)
    BY DEF CallsCounted
  <2>3. CASE u = t
    <3>1. program.calls[t] \in Int /\ left[t] \in Int /\ left'[t] \in Int /\ held(t) \in Int /\ held(t)' \in Int
      BY <1>1, <1>2 DEF CallsMade
    <3>2. issued(t)' = program.calls[t] - left'[t] + held(t)'
      <4> HIDE DEF issued, held
      <4> QED BY <1>2, <2>2, <2>3, <3>1
    <3>3. QED
      BY <2>3, <3>2
  <2>4. CASE u # t
    <3>1. Layer(u) # Layer(t)
      BY <2>4 DEF OneThreadPerLayer
    <3>2. issued(u)' = issued(u) /\ held(u)' = held(u)
      BY <1>1, <1>2, <2>4, <3>1 DEF Alone, Holding
    <3>3. QED
      BY <1>2, <2>2, <2>4, <3>2
  <2>5. QED
    BY <2>3, <2>4
<1>3. ASSUME NEW t \in Threads, Run(t) PROVE CallsCounted'
  <2>1. PICK l \in Layers : l = Layer(t)
    BY <1>1
  <2>2. /\ Step(t) /\ Alone(t) /\ program' = program
        /\ \A u \in Threads \ {t} : left'[u] = left[u]
        /\ left'[t] = (IF pc[t] = "incr_give" THEN left[t] - 1 ELSE left[t]) /\ left'[t] \in Int
    BY <1>3, AloneLemma DEF Run, CallsMade
  <2>3. issued(t) \in Int
    BY <1>1 DEF CallsCounted, CallsMade
  <2>4. CASE MaxTake(t)
    <3>1. Unused
      BY DEF Staffed, Unused
    <3>2. Issued' = [Issued EXCEPT ![l] = Issued[l] + 1]
      BY <2>1, <2>4, <3>1, TakeMaps, PipelineSteps
    <3>3. issued(t)' = issued(t) + 1
      BY <1>1, <2>1, <3>2 DEF Issued
    <3>4. pc[t] = "max_take" /\ held(t) = 0 /\ held(t)' = 1
      <4>1. take[l][Block(t)] = seen[t]
        BY <2>1, <2>4 DEF OrderInv, Knows, MaxTake
      <4>2. QED
        BY <2>1, <2>4, <4>1 DEF MaxTake, Goto, Holding, TypeOK
    <3>5. issued(t)' = issued(t) - held(t) + held(t)' + left[t] - left'[t]
      BY <1>1, <2>2, <2>3, <3>3, <3>4
    <3>6. QED
      BY <1>2, <2>2, <3>5
  <2>5. CASE Transform(t)
    <3>1. pc[t] = "transform" /\ held(t) = 1 /\ held(t)' = 1 /\ take' = take
      BY <2>5 DEF Transform, Goto, Holding, TypeOK, shared
    <3>2. issued(t)' = issued(t) - held(t) + held(t)' + left[t] - left'[t]
      BY <1>1, <2>2, <2>3, <3>1
    <3>3. QED
      BY <1>2, <2>2, <3>2
  <2>6. CASE IncrGive(t)
    <3>1. pc[t] = "incr_give" /\ held(t) = 1 /\ held(t)' = 0 /\ take' = take
      BY <2>6 DEF IncrGive, Return, Leave, Goto, Holding, TypeOK
    <3>2. issued(t)' = issued(t) - held(t) + held(t)' + left[t] - left'[t]
      BY <1>1, <2>2, <2>3, <3>1
    <3>3. QED
      BY <1>2, <2>2, <3>2
  <2>7. CASE ResetTake(t)
    <3>1. pc[t] = "reset_take" /\ held(t) = 0 /\ held(t)' = 0 /\ Issued' = Issued
      BY <2>7, ResetMaps DEF ResetTake, Goto, Holding, TypeOK
    <3>2. issued(t)' = issued(t)
      BY <1>1, <2>1, <3>1 DEF Issued
    <3>3. issued(t)' = issued(t) - held(t) + held(t)' + left[t] - left'[t]
      BY <1>1, <2>2, <2>3, <3>1, <3>2
    <3>4. QED
      BY <1>2, <2>2, <3>3
  <2>8. CASE ~ MaxTake(t) /\ ~ Transform(t) /\ ~ IncrGive(t) /\ ~ ResetTake(t)
    <3>1. held(t) = 0 /\ held(t)' = 0 /\ pc[t] # "incr_give" /\ Issued' = Issued
      BY <2>2, <2>8, QuietMaps DEF Holding
    <3>2. issued(t)' = issued(t)
      BY <1>1, <2>1, <3>1 DEF Issued
    <3>3. issued(t)' = issued(t) - held(t) + held(t)' + left[t] - left'[t]
      BY <1>1, <2>2, <2>3, <3>1, <3>2
    <3>4. QED
      BY <1>2, <2>2, <3>3
  <2>9. QED
    BY <2>4, <2>5, <2>6, <2>7, <2>8
<1>4. ASSUME NEW t \in Threads, DropEntryUnused(t) \/ PanicInClosure(t) PROVE CallsCounted'
  <2>1. Alone(t) /\ program' = program /\ left' = left
    BY <1>4, DropKeeps, ClosureAlone DEF DropEntryUnused, PanicInClosure
  <2>2. held(t) = 1 /\ held(t)' = 1 /\ take' = take
    BY <1>4 DEF DropEntryUnused, PanicInClosure, Goto, Holding, TypeOK, shared
  <2>3. issued(t) \in Int
    BY <1>1 DEF CallsCounted, CallsMade
  <2>4. issued(t)' = issued(t) - held(t) + held(t)' + left[t] - left'[t]
    BY <1>1, <2>1, <2>2, <2>3
  <2>5. QED
    BY <1>1, <1>2, <2>1, <2>4
<1>5. ASSUME UNCHANGED <<vars, program, left>> PROVE CallsCounted'
  BY <1>5 DEF CallsCounted, vars, shared, locals, Holding, Layer
<1>6. QED
  BY <1>3, <1>4, <1>5 DEF DriverNext, JoinAll, JoinFailed, Ended, driverVars

(* main returns when all calls have been made.                             *)
LEMMA CallsStayMade == ASSUME CallsMade, [DriverNext]_driverVars PROVE CallsMade'
<1>1. ASSUME NEW t \in Threads, Run(t) PROVE CallsMade'
  <2>1. main # "returned" /\ main' = main /\ program' = program
    BY <1>1 DEF Run, CallsMade
  <2>2. left' \in [Threads -> Int]
    BY <1>1 DEF Run, CallsMade
  <2>3. QED
    BY <2>1, <2>2 DEF CallsMade
<1>2. ASSUME NEW t \in Threads, DropEntryUnused(t) \/ PanicInClosure(t) PROVE CallsMade'
  BY <1>2 DEF DropEntryUnused, PanicInClosure, CallsMade, Done
<1>3. ASSUME UNCHANGED <<vars, program, left, failed>>,
             main' \in {main, "panicked"} \/ \A t \in Threads : Done(t)
      PROVE  CallsMade'
  BY <1>3 DEF CallsMade, Done, vars, locals
<1>4. QED
  BY <1>1, <1>2, <1>3 DEF DriverNext, JoinAll, JoinFailed, Ended, driverVars
-----------------------------------------------------------------------------
(* Words that have counted the same slots have the same versions pending.  *)
LEMMA SamePending ==
    ASSUME NEW b \in Blocks, NEW f \in Pair, NEW g \in Pair, WordOK(b, f), WordOK(b, g),
           NEW s \in Slots,
           \A v \in Nat : (b # 0 => v # 1) =>
               (AtMost(FromParts(v, s + 1), f) <=> AtMost(FromParts(v, s + 1), g))
    PROVE  Pending(b, f, s) = Pending(b, g, s)
<1>1. ASSUME NEW h \in Pair, WordOK(b, h), NEW v \in Nat, b # 0 => v # 1
      PROVE  AtMost(FromParts(v, s + 1), h) <=> v < Pending(b, h, s)
  BY <1>1 DEF AtMost, FromParts, Pending, Following, WordOK, Pair, Slots
<1>2. /\ Pending(b, f, s) \in Nat /\ (b # 0 => Pending(b, f, s) # 1)
      /\ Pending(b, g, s) \in Nat /\ (b # 0 => Pending(b, g, s) # 1)
  BY PendingLemma
<1>3. ~ (Pending(b, f, s) < Pending(b, g, s)) /\ ~ (Pending(b, g, s) < Pending(b, f, s))
  BY <1>1, <1>2
<1>4. QED
  BY <1>2, <1>3

(* And have counted as many.                                               *)
LEMMA SameCount ==
    ASSUME NEW word \in [Blocks -> Pair], NEW other \in [Blocks -> Pair], NEW b \in Blocks,
           WordOK(b, word[b]), WordOK(b, other[b]),
           \A s \in Slots : Pending(b, word[b], s) = Pending(b, other[b], s)
    PROVE  Counted(word, b) = Counted(other, b)
<1>1. ASSUME NEW f \in Pair, NEW g \in Pair, WordOK(b, f), WordOK(b, g),
             \A s \in Slots : Pending(b, f, s) = Pending(b, g, s), f.v <= g.v
      PROVE  \/ f.v = g.v /\ f.i = g.i
             \/ g.v = Following(b, f.v) /\ f.i = BlockSize /\ g.i = 0
  <2>1. /\ f.v \in Nat /\ f.i \in 0 .. BlockSize /\ g.v \in Nat /\ g.i \in 0 .. BlockSize
        /\ (b # 0 => f.v # 1 /\ g.v # 1)
    BY <1>1 DEF Pair, WordOK
  <2>2. \A s \in Slots : (IF s < f.i THEN Following(b, f.v) ELSE f.v) =
                         (IF s < g.i THEN Following(b, g.v) ELSE g.v)
    BY <1>1 DEF Pending
  <2>3. /\ Following(b, f.v) \in Nat /\ Following(b, f.v) > f.v
        /\ Following(b, g.v) \in Nat /\ Following(b, g.v) > g.v
        /\ f.v < g.v => Following(b, f.v) <= g.v
    BY <2>1 DEF Following
  <2>4. CASE f.v = g.v
    <3>1. \A s \in Slots : s < f.i <=> s < g.i
      BY <2>2, <2>3, <2>4
    <3>2. ~ (f.i < g.i)
      <4>1. f.i < g.i => f.i \in Slots
        BY <2>1 DEF Slots
      <4>2. QED
        BY <2>1, <3>1, <4>1
    <3>3. ~ (g.i < f.i)
      <4>1. g.i < f.i => g.i \in Slots
        BY <2>1 DEF Slots
      <4>2. QED
        BY <2>1, <3>1, <4>1
    <3>4. QED
      BY <2>1, <2>4, <3>2, <3>3
  <2>5. CASE f.v < g.v
    <3>1. 0 \in Slots /\ BlockSize - 1 \in Slots
      BY DEF Slots
    <3>2. g.v = Following(b, f.v) /\ g.i = 0
      BY <2>1, <2>2, <2>3, <2>5, <3>1
    <3>3. BlockSize - 1 < f.i
      BY <2>1, <2>2, <2>3, <2>5, <3>1, <3>2
    <3>4. QED
      BY <2>1, <3>2, <3>3
  <2>6. QED
    BY <1>1, <2>1, <2>4, <2>5
<1>2. \/ word[b].v = other[b].v /\ word[b].i = other[b].i
      \/ other[b].v = Following(b, word[b].v) /\ word[b].i = BlockSize /\ other[b].i = 0
      \/ word[b].v = Following(b, other[b].v) /\ other[b].i = BlockSize /\ word[b].i = 0
  <2>1. word[b] \in Pair /\ other[b] \in Pair
    OBVIOUS
  <2>2. word[b].v <= other[b].v \/ other[b].v <= word[b].v
    BY <2>1 DEF Pair
  <2>3. QED
    BY <1>1, <2>1, <2>2
<1>3. ASSUME NEW v \in Nat, b # 0 => v # 1
      PROVE  Round(b, v) * BlockSize + BlockSize = Round(b, Following(b, v)) * BlockSize + 0
  <2>1. Round(b, v) \in Nat /\ Round(b, Following(b, v)) = Round(b, v) + 1
    BY <1>3, RoundLemma
  <2>2. QED
    BY <2>1
<1>4. word[b].v \in Nat /\ other[b].v \in Nat
  BY DEF Pair
<1>5. QED
  BY <1>2, <1>3, <1>4 DEF Counted, WordOK

(* Layers that have handed out as many tickets have handed out the same    *)
(* slots.                                                                  *)
LEMMA SameTickets ==
    ASSUME TypeOK, OrderInv, Unused, NEW l \in Layers, NEW m \in Layers,
           NextTicket(take[l]) = NextTicket(take[m]), NEW b \in Blocks
    PROVE  /\ \A s \in Slots : Pending(b, take[l][b], s) = Pending(b, take[m][b], s)
           /\ Counted(take[l], b) = Counted(take[m], b)
<1>1. /\ take[l] \in [Blocks -> Pair] /\ take[m] \in [Blocks -> Pair]
      /\ take[l][b] \in Pair /\ take[m][b] \in Pair
      /\ WordOK(b, take[l][b]) /\ WordOK(b, take[m][b])
  BY WordTypes DEF TypeOK, OrderInv, BlockInOrder
<1>2. ASSUME NEW s \in Slots, NEW v \in Nat, b # 0 => v # 1
      PROVE  AtMost(FromParts(v, s + 1), take[l][b]) <=> AtMost(FromParts(v, s + 1), take[m][b])
  <2>1. Ticket(b, v, s) < NextTicket(take[l]) <=> AtMost(FromParts(v, s + 1), take[l][b])
    BY <1>2, LayerFollows, TakenLemma
  <2>2. Ticket(b, v, s) < NextTicket(take[m]) <=> AtMost(FromParts(v, s + 1), take[m][b])
    BY <1>2, LayerFollows, TakenLemma
  <2>3. QED
    BY <2>1, <2>2
<1>3. \A s \in Slots : Pending(b, take[l][b], s) = Pending(b, take[m][b], s)
  BY <1>1, <1>2, SamePending
<1>4. QED
  BY <1>1, <1>3, SameCount

(* main, at its last join: when a program with equal loops returns, every  *)
(* slot has been through the last layer and no layer is behind another.    *)
THEOREM NothingIsLeft ==
    OneThreadPerLayer /\ Staffed /\ Balanced => (DriverSpec => []NothingLeft)
<1> SUFFICES ASSUME OneThreadPerLayer, Staffed, Balanced PROVE DriverSpec => []NothingLeft
  OBVIOUS
<1> DEFINE Inv == TypeOK /\ OrderInv /\ Emptied /\ CallsCounted /\ CallsMade
<1>1. DriverInit => Inv
  <2> SUFFICES ASSUME DriverInit PROVE Inv
    OBVIOUS
  <2>1. TypeOK /\ OrderInv
    BY TypeInit, OrderInit DEF DriverInit
  <2>2. Emptied
    BY DEF DriverInit, Init, Emptied
  <2>3. CallsMade
    BY DEF DriverInit, CallsMade
  <2>4. CallsCounted
    <3>1. SUFFICES ASSUME NEW t \in Threads
                   PROVE  NextTicket(take[Layer(t)]) =
                              program.calls[t] - left[t] + (IF Holding(t) THEN 1 ELSE 0)
      BY DEF CallsCounted
    <3>2. NextTicket(take[Layer(t)]) = 0
      BY <2>1, PlaceLemma, NextInit DEF DriverInit
    <3>3. ~ Holding(t) /\ left[t] = program.calls[t] /\ program.calls[t] \in Nat
      BY DEF DriverInit, Init, Holding
    <3>4. QED
      BY <3>2, <3>3
  <2>5. QED
    BY <2>1, <2>2, <2>3, <2>4
<1>2. Inv /\ [DriverNext]_driverVars => Inv'
  <2> SUFFICES ASSUME Inv, [DriverNext]_driverVars PROVE Inv'
    OBVIOUS
  <2>1. TypeOK' /\ OrderInv'
    BY DriverSteps
  <2>2. Emptied' /\ CallsCounted' /\ CallsMade'
    BY <2>1, EmptiedStays, CallsStayCounted, CallsStayMade
  <2>3. QED
    BY <2>1, <2>2
<1>3. Inv => NothingLeft
  <2> SUFFICES ASSUME Inv, main = "returned"
               PROVE  /\ \A b \in Blocks, s \in Slots : entries[b][s] = <<>>
                      /\ \A l \in Layers, b \in Blocks : Counted(give[l], b) = Counted(take[0], b)
    BY DEF NothingLeft
  <2>1. \A t \in Threads : pc[t] = "idle" /\ left[t] = 0
    BY DEF CallsMade, Done
  <2>2. \A l \in Layers, b \in Blocks : give[l][b] = take[l][b]
    BY <2>1 DEF Staffed, OrderInv, GiveFollowsTake, Holding
  <2>3. \A l, m \in Layers : NextTicket(take[l]) = NextTicket(take[m])
    <3>1. TAKE l, m \in Layers
    <3>2. PICK t, u \in Threads : Layer(t) = l /\ Layer(u) = m
      BY DEF Staffed
    <3>3. /\ NextTicket(take[l]) = program.calls[t] - 0 + 0
          /\ NextTicket(take[m]) = program.calls[u] - 0 + 0
      BY <2>1, <3>2 DEF CallsCounted, Holding
    <3>4. program.calls[t] = program.calls[u]
      BY DEF CallsMade, Balanced
    <3>5. QED
      BY <3>3, <3>4
  <2>4. Unused /\ 0 \in Layers /\ NumLayers - 1 \in Layers
    BY DEF Staffed, Unused, Layers
  <2>5. ASSUME NEW b \in Blocks, NEW s \in Slots PROVE entries[b][s] = <<>>
    <3>1. \A l \in Layers : NextTurn(l, b, s) = Pending(b, take[l][b], s)
      BY <2>1, <2>2 DEF NextTurn, Worked
    <3>2. Pending(b, take[0][b], s) = Pending(b, take[NumLayers - 1][b], s)
      BY <2>3, <2>4, SameTickets
    <3>3. QED
      BY <2>4, <3>1, <3>2 DEF Emptied
  <2>6. ASSUME NEW l \in Layers, NEW b \in Blocks PROVE Counted(give[l], b) = Counted(take[0], b)
    <3>1. Counted(take[l], b) = Counted(take[0], b)
      BY <2>3, <2>4, SameTickets
    <3>2. QED
      BY <2>2, <3>1 DEF Counted
  <2>7. QED
    BY <2>5, <2>6
<1>4. QED
  BY <1>1, <1>2, <1>3, PTL DEF DriverSpec
=============================================================================
