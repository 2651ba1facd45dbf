------------------------------- MODULE Layered -------------------------------
(***************************************************************************)
(* The layered FIFO that generate_union! builds (src/fifo_inner.rs,        *)
(* src/block.rs): values pass through layers 0 .. NumLayers - 1 in place.  *)
(* Every block keeps a pair of words per layer: take hands the block's     *)
(* slots out to the layer's threads, give counts the slots they are done   *)
(* with.  A layer follows the give of the layer it chases, and layer 0,    *)
(* the producers, chases the last layer round the ring.  Every layer has a *)
(* head that says which block it is at.                                    *)
(*                                                                         *)
(* Every atomic operation of the code is one action, memory is             *)
(* sequentially consistent and a thread is one transform call in flight,   *)
(* whose closure runs to its end.                                          *)
(***************************************************************************)
EXTENDS Integers, FiniteSets, Field

CONSTANTS NumLayers, \* Tag::num_transformations()
          Threads,   \* threads that transform
          LayerOf,   \* the layer each thread works in
          AtomicLayers, \* the layers declared atomic = true
          NumBlocks, \* blocks in the ring
          BlockSize, \* slots in a block
          IndexSpan, \* indices the index bits of a block's words can hold
          MaxRound   \* no push starts once the producers have gone round this often

Layers == 0 .. NumLayers - 1

(* generate_union! refuses fewer than two layers.                          *)
ASSUME LayerAssumption == /\ NumLayers \in Nat /\ NumLayers > 1
                          /\ LayerOf \in [Threads -> Layers]
                          /\ AtomicLayers \subseteq Layers

(* head.rs:40, "Safety: This layer was chosen to be non-atomic": only one  *)
(* thread works in it.  TaggedClone refuses to clone its handle.           *)
ASSUME NonAtomicAssumption ==
    \A t, u \in Threads : t # u /\ LayerOf[t] = LayerOf[u] => LayerOf[t] \in AtomicLayers

ASSUME RingAssumption == /\ NumBlocks \in Nat /\ NumBlocks > 0
                         /\ BlockSize \in Nat /\ BlockSize > 0
                         /\ MaxRound \in Nat

ASSUME SpanAssumption == /\ IndexSpan \in Nat
                         /\ BlockSize < IndexSpan /\ IndexSpan <= 2 * BlockSize

VARIABLES heads,   \* heads[l]: which block layer l is at, by version
          take,    \* take[l][b]: the slots of block b handed out to layer l
          give,    \* give[l][b]: the slots of block b layer l is done with
          entries, \* per block and slot: <<version, layer>> that wrote it, or empty
          pc,      \* per thread: the atomic operation it does next
          head,    \* per thread: the head it loaded
          seen,    \* per thread: the word the next step of the call depends on
          mark     \* per thread: the chasing give it loaded

shared == <<heads, take, give>>
locals == <<pc, head, seen, mark>>
vars == <<shared, entries, locals>>
-----------------------------------------------------------------------------
Blocks == 0 .. NumBlocks - 1
Slots == 0 .. BlockSize - 1

Steps == {"idle", "load_head", "load_take", "load_chasing_give",
          "load_chasing_take", "max_take", "transform", "incr_give",
          "check_chasing_give", "check_chasing_take", "load_own_give",
          "reset_give", "reset_take", "max_head", "write_head"}

Layer(t) == LayerOf[t]

(* FifoTag::chases: the layer before, the last one for the producers.      *)
Chased(l) == (l + NumLayers - 1) % NumLayers

(* Variant: producers run two versions ahead of consumers.                 *)
ProducerOffsetTwo(l) == IF l = 0 THEN 2 ELSE 0

(* Producers fill what the consumers emptied a version earlier.            *)
ProducerOffset(l) == IF l = 0 THEN 1 ELSE 0

Block(t) == head[t].i

NextBlock(t) == (head[t].i + 1) % NumBlocks

ChasingGive(t, block) == give[Chased(Layer(t))][block]

ChasingTake(t, block) == take[Chased(Layer(t))][block]

Goto(t, step) == pc' = [pc EXCEPT ![t] = step]

(* What the call loaded so far goes out of scope.                          *)
Leave(t, step) == /\ Goto(t, step)
                  /\ head' = [head EXCEPT ![t] = Zero]
                  /\ seen' = [seen EXCEPT ![t] = Zero]
                  /\ mark' = [mark EXCEPT ![t] = Zero]

(* The call returns, with () or with an error.                             *)
Return(t) == Leave(t, "idle")

Raise(word, t, block, field) ==
    [word EXCEPT ![Layer(t)][block] = MaxPair(@, field)]

Init == /\ heads = [l \in Layers |-> Zero]
        /\ take = [l \in Layers |-> [b \in Blocks |-> Zero]]
        /\ give = [l \in Layers |-> [b \in Blocks |-> Zero]]
        /\ entries = [b \in Blocks |-> [s \in Slots |-> <<>>]]
        /\ pc = [t \in Threads |-> "idle"]
        /\ head = [t \in Threads |-> Zero]
        /\ seen = [t \in Threads |-> Zero]
        /\ mark = [t \in Threads |-> Zero]
-----------------------------------------------------------------------------
(* Block::reserve_in_layer, inside the loop of get_entry.                  *)

StartTransform(t) ==
    /\ pc[t] = "idle"
    /\ Layer(t) = 0 => heads[0].v <= MaxRound
    /\ Goto(t, "load_head")
    /\ UNCHANGED <<shared, entries, head, seen, mark>>

LoadHead(t) ==
    /\ pc[t] = "load_head"
    /\ head' = [head EXCEPT ![t] = heads[Layer(t)]]
    /\ Goto(t, "load_take")
    /\ UNCHANGED <<shared, entries, seen, mark>>

LoadTake(t) ==
    /\ pc[t] = "load_take"
    /\ LET word == take[Layer(t)][Block(t)]
       IN  IF word.i >= BlockSize
           THEN Goto(t, "check_chasing_give") /\ UNCHANGED seen
           ELSE /\ Goto(t, "load_chasing_give")
                /\ seen' = [seen EXCEPT ![t] = word]
    /\ UNCHANGED <<shared, entries, head, mark>>

(* Variant: > for >= in the comparison of versions.                        *)
CaughtUpPast(t, word) == seen[t].v > word.v + ProducerOffset(Layer(t))

(* The version the chasing layer has to be in, or past, for its give to    *)
(* say anything about the slot seen.                                       *)
CaughtUp(t, word) == seen[t].v >= word.v + ProducerOffset(Layer(t))

(* Variant: no look at the index.                                          *)
NotGivenVersion(t, word) == seen[t].v > word.v + ProducerOffset(Layer(t))

(* Variant: <= for = in the comparison of indices.                         *)
NotGivenAtMost(t, word) == \/ seen[t].i <= word.i
                           \/ seen[t].v > word.v + ProducerOffset(Layer(t))

(* The chasing layer has not given the slot yet.                           *)
NotGiven(t, word) == \/ seen[t].i = word.i
                     \/ seen[t].v > word.v + ProducerOffset(Layer(t))

ReportNotAvailable(t) ==
    /\ pc[t] = "load_chasing_give"
    /\ CaughtUp(t, ChasingGive(t, Block(t)))
    /\ NotGiven(t, ChasingGive(t, Block(t)))
    /\ Return(t)
    /\ UNCHANGED <<shared, entries>>

LoadChasingGive(t) ==
    /\ pc[t] = "load_chasing_give"
    /\ LET word == ChasingGive(t, Block(t))
       IN  IF CaughtUp(t, word)
           THEN /\ ~ NotGiven(t, word)
                /\ mark' = [mark EXCEPT ![t] = word]
                /\ Goto(t, "load_chasing_take")
           ELSE Goto(t, "max_take") /\ UNCHANGED mark
    /\ UNCHANGED <<shared, entries, head, seen>>

(* The chasing layer is at work in the block: which of the slots it took   *)
(* are the ones it gave is not known.                                      *)
ReportBusy(t) ==
    /\ pc[t] = "load_chasing_take"
    /\ ChasingTake(t, Block(t)).i > mark[t].i
    /\ Return(t)
    /\ UNCHANGED <<shared, entries>>

LoadChasingTake(t) ==
    /\ pc[t] = "load_chasing_take"
    /\ ChasingTake(t, Block(t)).i <= mark[t].i
    /\ Goto(t, "max_take")
    /\ UNCHANGED <<shared, entries, head, seen, mark>>

(* The slot is the thread's if nobody took it since the load.              *)
MaxTake(t) ==
    /\ pc[t] = "max_take"
    /\ take' = Raise(take, t, Block(t), Incr(IndexSpan, seen[t]))
    /\ Goto(t, IF take[Layer(t)][Block(t)] = seen[t] THEN "transform" ELSE "load_take")
    /\ UNCHANGED <<heads, give, entries, head, seen, mark>>

(* The closure turns what the layer before left in the slot into what this *)
(* layer leaves, in place; the last layer leaves ().                       *)
Transform(t) ==
    /\ pc[t] = "transform"
    /\ entries' = [entries EXCEPT ![Block(t)][seen[t].i] =
                       IF Layer(t) = NumLayers - 1 THEN <<>> ELSE <<seen[t].v, Layer(t)>>]
    /\ Goto(t, "incr_give")
    /\ UNCHANGED <<shared, head, seen, mark>>

(* The entry is dropped.                                                   *)
IncrGive(t) ==
    /\ pc[t] = "incr_give"
    /\ give' = [give EXCEPT ![Layer(t)][Block(t)] = Incr(IndexSpan, @)]
    /\ Return(t)
    /\ UNCHANGED <<heads, take, entries>>
-----------------------------------------------------------------------------
(* advance_head, when all slots of the layer's block have been taken.      *)

(* The early escape compares the index with the number of blocks.          *)
CheckChasingGive(t) ==
    /\ pc[t] = "check_chasing_give"
    /\ LET word == ChasingGive(t, NextBlock(t))
       IN  IF word.i >= NumBlocks
           THEN Goto(t, "load_own_give") /\ UNCHANGED mark
           ELSE /\ Goto(t, "check_chasing_take")
                /\ mark' = [mark EXCEPT ![t] = word]
    /\ UNCHANGED <<shared, entries, head, seen>>

ReportBusyAdvance(t) ==
    /\ pc[t] = "check_chasing_take"
    /\ ChasingTake(t, NextBlock(t)).i > mark[t].i
    /\ Return(t)
    /\ UNCHANGED <<shared, entries>>

CheckChasingTake(t) ==
    /\ pc[t] = "check_chasing_take"
    /\ ChasingTake(t, NextBlock(t)).i <= mark[t].i
    /\ Goto(t, "load_own_give")
    /\ UNCHANGED <<shared, entries, head, seen, mark>>

(* Variant: every block is opened in the version of the head.              *)
LoadOwnGiveSameVersion(t) ==
    /\ pc[t] = "load_own_give"
    /\ seen' = [seen EXCEPT ![t] = FromParts(head[t].v, 0)]
    /\ Goto(t, "reset_give")
    /\ UNCHANGED <<shared, entries, head, mark>>

(* A block the layer has been through is opened in the next version, one   *)
(* it has not in the head's own.                                           *)
LoadOwnGive(t) ==
    /\ pc[t] = "load_own_give"
    /\ LET done == give[Layer(t)][NextBlock(t)].i >= BlockSize
       IN  seen' = [seen EXCEPT ![t] = FromParts(head[t].v + (IF done THEN 1 ELSE 0), 0)]
    /\ Goto(t, "reset_give")
    /\ UNCHANGED <<shared, entries, head, mark>>

(* Variant: the reset of give is forgotten.                                *)
ForgetGive(t) ==
    /\ pc[t] = "reset_give"
    /\ Goto(t, "reset_take")
    /\ UNCHANGED <<shared, entries, head, seen, mark>>

ResetGive(t) ==
    /\ pc[t] = "reset_give"
    /\ give' = Raise(give, t, NextBlock(t), seen[t])
    /\ Goto(t, "reset_take")
    /\ UNCHANGED <<heads, take, entries, head, seen, mark>>

(* Variant: the reset of take is forgotten.                                *)
ForgetTake(t) ==
    /\ pc[t] = "reset_take"
    /\ Goto(t, "max_head")
    /\ UNCHANGED <<shared, entries, head, seen, mark>>

ResetTake(t) ==
    /\ pc[t] = "reset_take"
    /\ take' = Raise(take, t, NextBlock(t), seen[t])
    /\ Goto(t, "max_head")
    /\ UNCHANGED <<heads, give, entries, head, seen, mark>>

(* Variant: overflowing_add for version_inc_add.                           *)
NextHeadOverflowing(t) == Incr(IndexSpan, head[t])

NextHead(t) == VersionIncAdd(NumBlocks, head[t])

(* AtomicHead::max.                                                        *)
MaxHead(t) ==
    /\ pc[t] = "max_head"
    /\ Layer(t) \in AtomicLayers
    /\ heads' = [heads EXCEPT ![Layer(t)] = MaxPair(@, NextHead(t))]
    /\ Leave(t, "load_head")
    /\ UNCHANGED <<take, give, entries>>

(* NonAtomicHead::max compares, and then writes.                           *)
CompareHead(t) ==
    /\ pc[t] = "max_head"
    /\ Layer(t) \notin AtomicLayers
    /\ IF AtMost(NextHead(t), heads[Layer(t)])
       THEN Leave(t, "load_head")
       ELSE Goto(t, "write_head") /\ UNCHANGED <<head, seen, mark>>
    /\ UNCHANGED <<shared, entries>>

WriteHead(t) ==
    /\ pc[t] = "write_head"
    /\ heads' = [heads EXCEPT ![Layer(t)] = NextHead(t)]
    /\ Leave(t, "load_head")
    /\ UNCHANGED <<take, give, entries>>
-----------------------------------------------------------------------------
Reserve(t) == \/ StartTransform(t) \/ LoadHead(t) \/ LoadTake(t)
              \/ ReportNotAvailable(t) \/ LoadChasingGive(t)
              \/ ReportBusy(t) \/ LoadChasingTake(t) \/ MaxTake(t)

Work(t) == Transform(t) \/ IncrGive(t)

Advance(t) == \/ CheckChasingGive(t) \/ ReportBusyAdvance(t) \/ CheckChasingTake(t)
              \/ LoadOwnGive(t) \/ ResetGive(t) \/ ResetTake(t)
              \/ MaxHead(t) \/ CompareHead(t) \/ WriteHead(t)

Step(t) == Reserve(t) \/ Work(t) \/ Advance(t)

Next == \E t \in Threads : Step(t)

Spec == Init /\ [][Next]_vars

(* Every thread runs on, and repeats a call that failed: the loops         *)
(* while fifo.transform(..).is_err() { spin_loop() } of the programs and   *)
(* tests.                                                                  *)
FairSpec == Spec /\ \A t \in Threads : WF_vars(Step(t))
-----------------------------------------------------------------------------
TypeOK == /\ heads \in [Layers -> [v : Nat, i : Blocks]]
          /\ take \in [Layers -> [Blocks -> Pair]]
          /\ give \in [Layers -> [Blocks -> Pair]]
          /\ entries \in [Blocks -> [Slots -> {<<>>} \cup (Nat \X Layers)]]
          /\ pc \in [Threads -> Steps]
          /\ head \in [Threads -> [v : Nat, i : Blocks]]
          /\ seen \in [Threads -> Pair]
          /\ mark \in [Threads -> Pair]

Holding(t) == pc[t] \in {"transform", "incr_give"}

(* src/block.rs, get_ptr: the pointer an entry gives to its slot is the    *)
(* only one, among the threads of its own layer and of the others.         *)
SlotExclusive ==
    \A t, u \in Threads :
        t # u /\ Holding(t) /\ Holding(u) => <<Block(t), seen[t].i>> # <<Block(u), seen[u].i>>

FindsItsVariant(t) ==
    LET e == entries[Block(t)][seen[t].i]
    IN  IF Layer(t) = 0 THEN e = <<>> ELSE e # <<>> /\ e[2] = Layer(t) - 1

(* The union in the slot is read as the variant it was written as: a       *)
(* transform finds what the layer it chases left, and a producer           *)
(* overwrites nothing that has not been through the last layer.            *)
VariantMatches == \A t \in Threads : pc[t] = "transform" => FindsItsVariant(t)

(* src/atom_pair.rs, incr_give: an entry is given back once for each time  *)
(* it was taken, so no give count runs ahead of its take count, and resets *)
(* never separate the two.  A give ahead of its take makes the layer that  *)
(* follows believe in values that are not there.                           *)
GiveWithinTake == \A l \in Layers, b \in Blocks : give[l][b].i <= take[l][b].i
=============================================================================
