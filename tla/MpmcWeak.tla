------------------------------ MODULE MpmcWeak ------------------------------
(***************************************************************************)
(* The mpmc ring with the memory orderings the code asks for.  Mpmc says   *)
(* what each step does with the word it loads; here a load may return an   *)
(* older word than the last one, and only an Acquire load that reads what  *)
(* a Release wrote, or a fetch_max or fetch_add after it, orders anything  *)
(* else.                                                                   *)
(*                                                                         *)
(* A word is the sequence of values it has had, and every thread has a     *)
(* view: how far it has got in each of them.  A load takes any value from  *)
(* the thread's view on; fetch_add and fetch_max read the last.  A value   *)
(* carries the view of the Release it, or the chain of updates it ends,    *)
(* began with.  A step never sees an update that comes after it in its own *)
(* thread, nor one whose value depends on the step.                        *)
(***************************************************************************)
EXTENDS Integers, Sequences, FiniteSetsExt, Field

CONSTANTS Producers, Consumers, NumBlocks, BlockSize, IndexSpan, MaxRound

(* The constants of Mpmc, and what is assumed of them there.               *)
ASSUME ThreadAssumption == Producers \cap Consumers = {}

ASSUME RingAssumption == /\ NumBlocks \in Nat /\ NumBlocks > 1
                         /\ BlockSize \in Nat /\ BlockSize > 0
                         /\ MaxRound \in Nat

ASSUME SpanAssumption == /\ IndexSpan \in Nat
                         /\ BlockSize < IndexSpan /\ IndexSpan <= 2 * BlockSize

VARIABLES mem,     \* per word: the values some thread may still load, oldest first
          view,    \* per thread: what happened before its next step
          entries, pc, head, seen, mark

vars == <<mem, view, entries, pc, head, seen, mark>>
-----------------------------------------------------------------------------
Threads == Producers \cup Consumers
Blocks == 0 .. NumBlocks - 1
Slots == 0 .. BlockSize - 1

Words == ({"phead", "chead"} \X {0})
             \cup ({"allocated", "committed", "reserved", "consumed"} \X Blocks)

(* The threads that load the word other than by updating it.               *)
Loaders(word) == IF word[1] \in {"phead", "consumed"} THEN Producers
                 ELSE IF word[1] \in {"chead", "committed"} THEN Consumers ELSE Threads

Last(word) == mem[word][Len(mem[word])].value

(* A view: a position in every word, and the slots whose last access, by   *)
(* whichever thread, happened before.                                      *)
Join(f, g) == [at |-> [w \in Words |-> IF f.at[w] < g.at[w] THEN g.at[w] ELSE f.at[w]],
               slots |-> f.slots \cup g.slots]

Nothing == [at |-> [w \in Words |-> 1], slots |-> {}]

(* The words as a thread finds them that loads the k-th value of a word.   *)
Found(name, b, word, k) == IF word = <<name, b>> THEN mem[word][k].value ELSE Last(<<name, b>>)

Loading(word, k) == INSTANCE MpmcTickets WITH
    Careless <- {},
    phead <- Found("phead", 0, word, k),
    chead <- Found("chead", 0, word, k),
    allocated <- [b \in Blocks |-> Found("allocated", b, word, k)],
    committed <- [b \in Blocks |-> Found("committed", b, word, k)],
    reserved <- [b \in Blocks |-> Found("reserved", b, word, k)],
    consumed <- [b \in Blocks |-> Found("consumed", b, word, k)]

(* The ring of Mpmc, in the present state of its words.                    *)
Ring == INSTANCE MpmcTickets WITH
    Careless <- {},
    phead <- Last(<<"phead", 0>>),
    chead <- Last(<<"chead", 0>>),
    allocated <- [b \in Blocks |-> Last(<<"allocated", b>>)],
    committed <- [b \in Blocks |-> Last(<<"committed", b>>)],
    reserved <- [b \in Blocks |-> Last(<<"reserved", b>>)],
    consumed <- [b \in Blocks |-> Last(<<"consumed", b>>)]

Block(t) == Ring!Block(t)
NextBlock(t) == Ring!NextBlock(t)
-----------------------------------------------------------------------------
(* What no thread can load any more is forgotten: the views of old values, *)
(* and how far behind it a view is.                                        *)
Keep(m, v) ==
    LET least == [w \in Words |-> Min({v[t].at[w] : t \in Loaders(w)})]
        Recent(f) == [f EXCEPT !.at = [w \in Words |-> IF f.at[w] < least[w] THEN least[w]
                                                                            ELSE f.at[w]]]
    IN  /\ mem' = [w \in Words |-> [k \in DOMAIN m[w] |->
                      [m[w][k] EXCEPT !.view = IF k < least[w] THEN Nothing ELSE Recent(@)]]]
        /\ view' = [t \in Threads |-> Recent(v[t])]

(* load(ordering), which finds the k-th value of the word.                 *)
Load(t, step, word, k, acquire) ==
    LET here == [view[t] EXCEPT !.at[word] = k]
    IN  /\ pc[t] = step
        /\ k >= view[t].at[word]
        /\ Keep(mem, [view EXCEPT ![t] = IF acquire THEN Join(here, mem[word][k].view) ELSE here])

(* An update puts the value after at the end of the word, and passes on    *)
(* what the one before carried; one that changes nothing puts none there.  *)
Update(t, step, word, after, release) ==
    LET n == Len(mem[word])
        here == [view[t] EXCEPT !.at[word] = IF after = Last(word) THEN n ELSE n + 1]
        carried == mem[word][n].view
        value == [value |-> after, view |-> IF release THEN Join(carried, here) ELSE carried]
    IN  /\ pc[t] = step
        /\ Keep(IF after = Last(word) THEN mem ELSE [mem EXCEPT ![word] = Append(@, value)],
                [view EXCEPT ![t] = here])

FetchAdd(t, step, word, release) == Update(t, step, word, Incr(IndexSpan, Last(word)), release)

FetchMax(t, step, word, field) == Update(t, step, word, MaxPair(Last(word), field), FALSE)

Slot(t) == <<Block(t), seen[t].i>>

(* An access to the slot of the thread's entry: whoever is next to access  *)
(* it has to come after this.                                              *)
Access(t, step) ==
    LET Without(f) == [f EXCEPT !.slots = @ \ {Slot(t)}]
    IN  /\ pc[t] = step
        /\ mem' = [w \in Words |-> [k \in DOMAIN mem[w] |->
                                       [mem[w][k] EXCEPT !.view = Without(@)]]]
        /\ view' = [u \in Threads |-> IF u = t THEN [view[t] EXCEPT !.slots = @ \cup {Slot(t)}]
                                               ELSE Without(view[u])]

(* A step that touches neither words nor slots.                            *)
Local == UNCHANGED <<mem, view>>

(* The threads are started after the ring was made, and come after that.   *)
Made(field) == <<[value |-> field, view |-> Nothing]>>

Init == /\ entries = [b \in Blocks |-> [s \in Slots |-> -1]]
        /\ pc = [t \in Threads |-> "idle"]
        /\ head = [t \in Threads |-> Zero]
        /\ seen = [t \in Threads |-> Zero]
        /\ mark = [c \in Consumers |-> Zero]
        /\ mem = [w \in Words |-> Made(IF w[2] = 0 THEN Zero ELSE FromParts(0, BlockSize))]
        /\ view = [t \in Threads |-> [Nothing EXCEPT !.slots = Blocks \X Slots]]
-----------------------------------------------------------------------------
StartPush(p) == Local /\ Ring!StartPush(p)

LoadPhead(p) ==
    \E w \in {<<"phead", 0>>} : \E k \in DOMAIN mem[w] :
        Load(p, "load_phead", w, k, FALSE) /\ Loading(w, k)!LoadPhead(p)

LoadAllocated(p) ==
    \E w \in {<<"allocated", Block(p)>>} : \E k \in DOMAIN mem[w] :
        Load(p, "load_allocated", w, k, FALSE) /\ Loading(w, k)!LoadAllocated(p)

AddAllocated(p) == /\ FetchAdd(p, "add_allocated", <<"allocated", Block(p)>>, FALSE)
                   /\ Ring!AddAllocated(p)

(* Variant: Relaxed for Acquire.                                           *)
CheckConsumedRelaxed(p) ==
    \E w \in {<<"consumed", NextBlock(p)>>} : \E k \in DOMAIN mem[w] :
        Load(p, "check_consumed", w, k, FALSE) /\ Loading(w, k)!CheckConsumed(p)

CheckConsumed(p) ==
    \E w \in {<<"consumed", NextBlock(p)>>} : \E k \in DOMAIN mem[w] :
        Load(p, "check_consumed", w, k, TRUE) /\ Loading(w, k)!CheckConsumed(p)

CheckReserved(p) ==
    \E w \in {<<"reserved", NextBlock(p)>>} : \E k \in DOMAIN mem[w] :
        /\ Load(p, "check_reserved", w, k, FALSE)
        /\ Loading(w, k)!ReportFull(p) \/ Loading(w, k)!ReportBusyPush(p)

MaxCommitted(p) == /\ FetchMax(p, "max_committed", <<"committed", NextBlock(p)>>, Ring!Opening(p))
                   /\ Ring!MaxCommitted(p)

MaxAllocated(p) == /\ FetchMax(p, "max_allocated", <<"allocated", NextBlock(p)>>, Ring!Opening(p))
                   /\ Ring!MaxAllocated(p)

MaxPhead(p) == /\ FetchMax(p, "max_phead", <<"phead", 0>>, VersionIncAdd(NumBlocks, head[p]))
               /\ Ring!MaxPhead(p)

Produce(p) == Access(p, "produce") /\ Ring!Produce(p)

Commit(p) == /\ FetchAdd(p, "commit", <<"committed", Block(p)>>, TRUE)
             /\ Ring!Commit(p)
-----------------------------------------------------------------------------
StartPop(c) == Local /\ Ring!StartPop(c)

LoadChead(c) ==
    \E w \in {<<"chead", 0>>} : \E k \in DOMAIN mem[w] :
        Load(c, "load_chead", w, k, FALSE) /\ Loading(w, k)!LoadChead(c)

LoadReserved(c) ==
    \E w \in {<<"reserved", Block(c)>>} : \E k \in DOMAIN mem[w] :
        Load(c, "load_reserved", w, k, FALSE) /\ Loading(w, k)!LoadReserved(c)

LoadCommitted(c) ==
    \E w \in {<<"committed", Block(c)>>} : \E k \in DOMAIN mem[w] :
        /\ Load(c, "load_committed", w, k, TRUE)
        /\ Loading(w, k)!ReportEmptyBlock(c) \/ Loading(w, k)!LoadCommitted(c)

CheckAllocated(c) ==
    \E w \in {<<"allocated", Block(c)>>} : \E k \in DOMAIN mem[w] :
        /\ Load(c, "load_allocated", w, k, FALSE)
        /\ Loading(w, k)!ReportBusyPop(c) \/ Loading(w, k)!CheckAllocated(c)

MaxReserved(c) == /\ FetchMax(c, "max_reserved", <<"reserved", Block(c)>>, Incr(IndexSpan, seen[c]))
                  /\ Ring!MaxReserved(c)

CheckCommitted(c) ==
    \E w \in {<<"committed", NextBlock(c)>>} : \E k \in DOMAIN mem[w] :
        /\ Load(c, "check_committed", w, k, TRUE)
        /\ Loading(w, k)!ReportEmptyRing(c) \/ Loading(w, k)!CheckCommitted(c)

MaxConsumed(c) == /\ FetchMax(c, "max_consumed", <<"consumed", NextBlock(c)>>, Ring!Opening(c))
                  /\ Ring!MaxConsumed(c)

ResetReserved(c) == /\ FetchMax(c, "reset_reserved", <<"reserved", NextBlock(c)>>, Ring!Opening(c))
                    /\ Ring!ResetReserved(c)

MaxChead(c) == /\ FetchMax(c, "max_chead", <<"chead", 0>>, VersionIncAdd(NumBlocks, head[c]))
               /\ Ring!MaxChead(c)

Consume(c) == Access(c, "consume") /\ Ring!Consume(c)

(* Variant: Relaxed for Release.                                           *)
ReleaseRelaxed(c) == /\ FetchAdd(c, "release", <<"consumed", Block(c)>>, FALSE)
                     /\ Ring!Release(c)

Release(c) == /\ FetchAdd(c, "release", <<"consumed", Block(c)>>, TRUE)
              /\ Ring!Release(c)
-----------------------------------------------------------------------------
Push(p) == \/ StartPush(p) \/ LoadPhead(p) \/ LoadAllocated(p) \/ AddAllocated(p)
           \/ CheckConsumed(p) \/ CheckReserved(p) \/ MaxCommitted(p) \/ MaxAllocated(p)
           \/ MaxPhead(p) \/ Produce(p) \/ Commit(p)

Pop(c) == \/ StartPop(c) \/ LoadChead(c) \/ LoadReserved(c) \/ LoadCommitted(c)
          \/ CheckAllocated(c) \/ MaxReserved(c) \/ CheckCommitted(c)
          \/ MaxConsumed(c) \/ ResetReserved(c) \/ MaxChead(c) \/ Consume(c) \/ Release(c)

Next == (\E p \in Producers : Push(p)) \/ (\E c \in Consumers : Pop(c))

Spec == Init /\ [][Next]_vars
-----------------------------------------------------------------------------
(* mpmc/block.rs:116, "All previous writes in this block must be visible   *)
(* before this load", and mpmc/entries.rs, Drop: whoever is about to       *)
(* access a slot comes after the access before it, so that no two accesses *)
(* race and a reader finds what was written.                               *)
RaceFree == \A t \in Threads : pc[t] \in {"produce", "consume"} => Slot(t) \in view[t].slots

(* mpmc/fifo_inner.rs, push and pop: the ring is a bounded FIFO of tickets *)
(* with the orderings of the code too.                                     *)
ImplementsFifo == Ring!ImplementsFifo
=============================================================================
