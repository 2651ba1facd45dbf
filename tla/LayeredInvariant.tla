-------------------------- MODULE LayeredInvariant --------------------------
(***************************************************************************)
(* Why no slot of a layered ring is ever two threads' at once, with one    *)
(* thread in a layer.  Each layer goes through the slots of a block in     *)
(* order and through its versions in order; how far it has got there is    *)
(* its take, how much of that it is done with is its give.  A layer never  *)
(* takes a slot before every layer ahead of it has given it, and producers *)
(* are never more than one round ahead of any.                             *)
(***************************************************************************)
EXTENDS Layered

OneThreadPerLayer == \A t, u \in Threads : Layer(t) = Layer(u) => t = u

(* The version a block is opened with when the head is in version v: the   *)
(* blocks after block 0 have no version 1.                                 *)
VersionIn(b, v) == IF b = 0 \/ v = 0 THEN v ELSE v + 1

(* The version that comes after v in a block.                              *)
Following(b, v) == IF b # 0 /\ v = 0 THEN 2 ELSE v + 1

(* f is no further than g in the block.  To have opened a version is to be *)
(* no further than to have finished the one before.                        *)
Within(b, f, g) == \/ AtMost(f, g)
                   \/ f = FromParts(Following(b, g.v), 0) /\ g.i = BlockSize

(* One round further than g.                                               *)
Turn(b, g) == FromParts(Following(b, g.v), g.i)

WordOK(b, word) == word.i <= BlockSize /\ (b # 0 => word.v # 1)

(* How the words of a block compare, whatever its threads are doing.       *)
BlockInOrder(b) ==
    /\ \A l \in Layers : /\ WordOK(b, take[l][b]) /\ WordOK(b, give[l][b])
                         /\ Within(b, give[l][b], take[l][b])
    /\ \A l, m \in Layers : m < l => Within(b, take[l][b], give[m][b])
    /\ \A l \in Layers \ {0} : Within(b, take[0][b], Turn(b, give[l][b]))

(* The block the thread's layer is at, once its next block is opened.      *)
Reached(t) == IF pc[t] \in {"max_head", "write_head"} THEN NextHead(t) ELSE heads[Layer(t)]

(* The layer has been through the blocks before its head in the version of *)
(* its head and through those after it in the version before.              *)
TakeFollowsHead(t) ==
    LET h == Reached(t)
        word(b) == take[Layer(t)][b]
    IN  \A b \in Blocks :
            /\ b < h.i => word(b) = FromParts(VersionIn(b, h.v), BlockSize)
            /\ b = h.i => word(b).v = VersionIn(b, h.v)
            /\ b > h.i => word(b) = IF h.v = 0 THEN Zero
                                    ELSE FromParts(VersionIn(b, h.v - 1), BlockSize)

(* The thread has given all it took, but for the slot it holds; and resets *)
(* give before take.                                                       *)
GiveFollowsTake(t) ==
    \A b \in Blocks :
        give[Layer(t)][b] =
            IF \/ Holding(t) /\ Block(t) = b
               \/ pc[t] = "reset_take" /\ NextBlock(t) = b
            THEN seen[t] ELSE take[Layer(t)][b]

(* What comes after the slot seen.                                         *)
After(t) == FromParts(seen[t].v, seen[t].i + 1)

(* What layer k may take of a block: what the layer it chases has given.   *)
Ahead(k, b) == IF k = 0 THEN Turn(b, give[Chased(k)][b]) ELSE give[Chased(k)][b]

(* The layers ahead have given the slot seen.                              *)
Granted(t) == Within(Block(t), After(t), Ahead(Layer(t), Block(t)))

(* The word the next block is opened with.                                 *)
Opened(t) == FromParts(VersionIn(NextBlock(t), NextHead(t).v), 0)

(* What a thread knows from its earlier loads.                             *)
Knows(t) ==
    LET word == take[Layer(t)][Block(t)]
    IN  /\ pc[t] \notin {"idle", "load_head"} => head[t] = heads[Layer(t)]
        /\ pc[t] \in {"load_chasing_give", "load_chasing_take", "max_take"} =>
               word = seen[t] /\ seen[t].i < BlockSize
        /\ pc[t] \in {"load_chasing_take", "max_take"} => Granted(t)
        /\ Holding(t) => word = After(t)
        /\ pc[t] \in {"check_chasing_give", "check_chasing_take", "load_own_give",
                      "reset_give", "reset_take"} => word.i = BlockSize
        /\ pc[t] \in {"reset_give", "reset_take"} => seen[t] = Opened(t)

OrderInv == /\ \A b \in Blocks : BlockInOrder(b)
            /\ \A t \in Threads : TakeFollowsHead(t) /\ GiveFollowsTake(t) /\ Knows(t)
-----------------------------------------------------------------------------
(* How far a layer's closures have got in a block.                         *)
Worked(l, b) ==
    IF \E t \in Threads : Layer(t) = l /\ pc[t] = "incr_give" /\ Block(t) = b
    THEN take[l][b] ELSE give[l][b]

(* The version of slot s that comes after what the word stands for.        *)
Pending(b, word, s) == IF s < word.i THEN Following(b, word.v) ELSE word.v

(* The version in which the layer transforms the slot next.                *)
NextTurn(l, b, s) == Pending(b, Worked(l, b), s)

(* A slot holds what the last layer that transformed it left there: the    *)
(* layers up to that one are one version ahead of those after it.          *)
EntryInv ==
    \A b \in Blocks, s \in Slots :
        /\ \A l \in Layers \ {0} :
               NextTurn(l - 1, b, s) # NextTurn(l, b, s) =>
                   entries[b][s] = <<NextTurn(l, b, s), l - 1>>
        /\ NextTurn(0, b, s) = NextTurn(NumLayers - 1, b, s) => entries[b][s] = <<>>
=============================================================================
