------------------------------ MODULE Pipeline ------------------------------
(***************************************************************************)
(* What both FIFOs promise.  Items are numbered tickets that pass through  *)
(* the layers 0 .. Depth - 1, producers being layer 0 and consumers the    *)
(* last one.  A layer hands its tickets out in order, each to one of its   *)
(* workers and only once the layer before has finished with it; layer 0    *)
(* goes round a bounded number of slots and chases the last layer.  A slot *)
(* is one worker's alone from the time its ticket is handed out until it   *)
(* is given back, and holds what the layer before left there.              *)
(* With two layers this is a bounded multi-producer multi-consumer queue.  *)
(***************************************************************************)
EXTENDS Integers, Sequences

CONSTANTS Depth,    \* number of layers
          Workers,  \* Workers[l]: the threads of layer l
          Capacity  \* number of slots

Layers == 0 .. Depth - 1

Nobody == -1

VARIABLES next,    \* next[l]: the ticket layer l hands out next
          holding, \* per thread: the ticket it works on, or Nobody
          slots    \* slot k: <<ticket, layer that left it>>, or empty

vars == <<next, holding, slots>>

AllWorkers == UNION {Workers[l] : l \in Layers}

Slot(n) == n % Capacity

Finished(l, n) == n < next[l] /\ \A t \in Workers[l] : holding[t] # n

(* Layer l may have ticket n: the layer it chases is done with the slot.   *)
Ready(l, n) == IF l = 0 THEN n >= Capacity => Finished(Depth - 1, n - Capacity)
                        ELSE Finished(l - 1, n)

(* What is in the slot of ticket n before and after layer l.               *)
Input(l, n) == IF l = 0 THEN <<>> ELSE <<n, l - 1>>
Output(l, n) == IF l = Depth - 1 THEN <<>> ELSE <<n, l>>

Init == /\ next = [l \in Layers |-> 0]
        /\ holding = [t \in AllWorkers |-> Nobody]
        /\ slots = [k \in 0 .. Capacity - 1 |-> <<>>]

Take(l, t) == /\ holding[t] = Nobody
              /\ Ready(l, next[l])
              /\ holding' = [holding EXCEPT ![t] = next[l]]
              /\ next' = [next EXCEPT ![l] = @ + 1]
              /\ UNCHANGED slots

Transform(l, t) == /\ holding[t] # Nobody
                   /\ slots[Slot(holding[t])] = Input(l, holding[t])
                   /\ slots' = [slots EXCEPT ![Slot(holding[t])] = Output(l, holding[t])]
                   /\ UNCHANGED <<next, holding>>

Give(l, t) == /\ holding[t] # Nobody
              /\ slots[Slot(holding[t])] = Output(l, holding[t])
              /\ holding' = [holding EXCEPT ![t] = Nobody]
              /\ UNCHANGED <<next, slots>>

Next == \E l \in Layers : \E t \in Workers[l] : Take(l, t) \/ Transform(l, t) \/ Give(l, t)

Spec == Init /\ [][Next]_vars
=============================================================================
