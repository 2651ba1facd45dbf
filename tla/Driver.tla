------------------------------- MODULE Driver -------------------------------
(***************************************************************************)
(* The programs of src/bin around a layered FIFO: main spawns the threads, *)
(* each makes its number of calls, repeating one that fails, and main      *)
(* joins them and returns.                                                 *)
(***************************************************************************)
EXTENDS LayeredTickets

CONSTANT Programs \* [first: threads joined before the others are spawned,
                  \*  calls: of each thread, careless: threads that may drop an entry unused,
                  \*  fragile: threads whose closure may panic, joins: the order main joins them in]

ASSUME ProgramsAssumption ==
    Programs \subseteq [first : SUBSET Threads, calls : [Threads -> Nat],
                        careless : SUBSET Threads, fragile : SUBSET Threads,
                        joins : [Threads -> Nat]]

VARIABLES program, \* the program that runs
          left,    \* per thread: the calls it has still to make
          failed,  \* threads whose closure has panicked
          main     \* "joining", "returned" or "panicked"

driverVars == <<vars, program, left, failed, main>>

Mates(l) == Cardinality({t \in Threads : Layer(t) = l})

(* The threads by rank, those of one rank in the order they were spawned   *)
(* in.                                                                     *)
InOrder(rank) ==
    CHOOSE place \in [Threads -> 1 .. Cardinality(Threads)] :
        \A t, u \in Threads : t # u => /\ place[t] # place[u]
                                       /\ rank[t] < rank[u] => place[t] < place[u]

(* variadic_perf: all threads run at once, the calls shared out evenly.    *)
(* They are joined layer by layer.                                         *)
VariadicPerf(base) ==
    LET trueNops == base * Mates(0) * Mates(1) * Mates(2)
    IN  [first |-> {}, careless |-> {}, fragile |-> {},
         calls |-> [t \in Threads |-> trueNops \div Mates(Layer(t))],
         joins |-> InOrder(LayerOf)]

(* paella_1_buffer_dyn: the producer is joined before the others start,    *)
(* the consumer before the transformers.                                   *)
PaellaPerf(nops) ==
    [first |-> {t \in Threads : Layer(t) = 0}, careless |-> {}, fragile |-> {},
     calls |-> [t \in Threads |-> IF Layer(t) = 1 THEN nops ELSE nops * Mates(1)],
     joins |-> InOrder([t \in Threads |-> (NumLayers - Layer(t)) % NumLayers])]

Unwound(t) == t \in failed /\ pc[t] = "idle"

Done(t) == t \notin failed /\ pc[t] = "idle" /\ left[t] = 0

Spawned(t) == t \in program.first \/ \A u \in program.first : Done(u)

DriverInit == /\ Init
              /\ program \in Programs
              /\ left = program.calls
              /\ failed = {}
              /\ main = "joining"

(* for i in 0..nops { while fifo.transform(..).is_err() { spin_loop() } }  *)
Run(t) == /\ main = "joining"
          /\ Spawned(t)
          /\ ~ Done(t) /\ ~ Unwound(t)
          /\ Step(t)
          /\ left' = [left EXCEPT ![t] = IF pc[t] = "incr_give" THEN @ - 1 ELSE @]
          /\ UNCHANGED <<program, failed, main>>

(* Variant: the slot is given back only by those who used the entry.       *)
DropEntryUngiven(t) ==
    /\ main = "joining"
    /\ pc[t] = "transform"
    /\ t \in program.careless
    /\ Return(t)
    /\ left' = [left EXCEPT ![t] = @ - 1]
    /\ UNCHANGED <<shared, entries, program, failed, main>>

(* The entry of get_entry is just dropped: the slot keeps what was in it,  *)
(* and is given back.                                                      *)
DropEntryUnused(t) ==
    /\ main = "joining"
    /\ pc[t] = "transform"
    /\ t \in program.careless
    /\ Goto(t, "incr_give")
    /\ UNCHANGED <<shared, entries, head, seen, mark, program, left, failed, main>>

(* The closure of transform panics.  What it was given has been moved out  *)
(* of the slot; a producer's is given nothing.  Unwinding drops the entry, *)
(* and ends the thread.                                                    *)
PanicInClosure(t) ==
    /\ main = "joining"
    /\ pc[t] = "transform"
    /\ t \in program.fragile
    /\ entries' = IF Layer(t) = 0 THEN entries
                  ELSE [entries EXCEPT ![Block(t)][seen[t].i] = <<>>]
    /\ failed' = failed \cup {t}
    /\ Goto(t, "incr_give")
    /\ UNCHANGED <<shared, head, seen, mark, program, left, main>>

(* Variant: the threads of the last layer are not joined.                  *)
JoinAllButLast == /\ main = "joining"
                  /\ \A t \in Threads : Layer(t) # NumLayers - 1 => Spawned(t) /\ Done(t)
                  /\ main' = "returned"
                  /\ UNCHANGED <<vars, program, left, failed>>

JoinAll == /\ main = "joining"
           /\ \A t \in Threads : Spawned(t) /\ Done(t)
           /\ main' = "returned"
           /\ UNCHANGED <<vars, program, left, failed>>

(* t.join().unwrap() of the first thread that panicked, once those before  *)
(* it are joined: main panics, and the process ends with all its threads.  *)
JoinFailed == /\ main = "joining"
              /\ \E t \in Threads :
                    /\ Unwound(t)
                    /\ \A u \in Threads : program.joins[u] < program.joins[t] => Done(u)
              /\ main' = "panicked"
              /\ UNCHANGED <<vars, program, left, failed>>

Ended == main # "joining" /\ UNCHANGED driverVars

DriverNext == \/ \E t \in Threads : Run(t) \/ DropEntryUnused(t) \/ PanicInClosure(t)
              \/ JoinAll \/ JoinFailed \/ Ended

DriverSpec == DriverInit /\ [][DriverNext]_driverVars

(* The operating system runs every thread on.                              *)
FairDriverSpec ==
    /\ DriverSpec
    /\ \A t \in Threads : WF_driverVars(Run(t) \/ DropEntryUnused(t) \/ PanicInClosure(t))
    /\ WF_driverVars(JoinAll \/ JoinFailed)

(* main, at its joins: however the threads are scheduled the program ends, *)
(* also when a thread panics.  A program that joins its producer before it *)
(* spawns the others, or whose threads may panic, does if all it pushes    *)
(* fits in the ring.                                                       *)
Terminates == <>(main # "joining")

(* fastfifoprocmacro/src/lib.rs, transform, when a closure panics: the     *)
(* layers behind go on, and what they find is as it should be in every     *)
(* slot but the one the thread that panicked had.                          *)
PanicsSpoilOneSlot ==
    program.careless = {} =>
        \A t \in Threads :
            pc[t] = "transform" =>
                \/ FindsItsVariant(t)
                \/ \E u \in failed : /\ Layer(u) < Layer(t)
                                     /\ NextTicket(take[Layer(u)]) = HeldTicket(t) + 1

(* The values that went in came out: when main returns, and drops the      *)
(* ring, every slot has been through the last layer and every layer is as  *)
(* far as the others.                                                      *)
NothingLeft ==
    main = "returned" =>
        /\ \A b \in Blocks, s \in Slots : entries[b][s] = <<>>
        /\ \A l \in Layers, b \in Blocks : Counted(give[l], b) = Counted(take[0], b)
=============================================================================
