# FastFifo: models, checks and proofs

FastFifo is a Rust crate with two block-based, lock-free ring buffers after the
BBQ design, both bounded and both returning an error instead of blocking:

* `fastfifo::mpmc::FastFifo` (`src/mpmc`): a multi-producer multi-consumer
  queue. Each block keeps four atomic words.
* the *layered* FIFO that `generate_union!` builds (`src/fifo_inner.rs`,
  `src/block.rs`): values are transformed in place as they go through two or
  more layers (producer, transformers, consumer). Each block keeps a
  `give`/`take` pair of words per layer.

Both pack a version and an index into every word (`src/field.rs`), update the
words with `fetch_add` and `fetch_max` alone, and use neither locks nor
compare-and-swap. Everything that can go wrong is in the order in which threads
load and update several such words.

Paths below are relative to the crate root.

## Inventory

| Component | State | Operations | What makes it correct |
|---|---|---|---|
| Packed word: `src/field.rs`, `src/mpmc/atomic.rs` | one `usize` per word, plus the constant `index_max` | `from_parts`, `overflowing_add`, `version_inc_add`, `fetch_add`, `fetch_max`, comparison | no bit of the index leaks into the version except by the carry that the callers must avoid; raw comparison orders by version, then index |
| mpmc ring: `src/mpmc/fifo_inner.rs`, `block.rs`, `entries.rs` | `phead`, `chead`; per block `allocated`, `committed`, `reserved`, `consumed` and the slots | `get_producer_entry`, `get_consumer_entry` (loops over allocate/reserve and advance), the drops of their entries | one owner per slot; what is popped was pushed, once, in ticket order; errors are honest; nothing wedges |
| mpmc `indexed_push`, `indexed_pop` | the same | unguarded write to a slot; pop that reports where | out of scope, see below |
| mpmc drop: `FastFifoInner::drop`, `Block::drop` | reads the four words | drops what it takes for values, panics at what it takes for slots in use | drops exactly the initialised slots, does not panic on an idle ring |
| mpmc printing: `Block::fmt` | reads the four words | reads and prints what it takes for values | reads only initialised slots |
| memory orderings | what each thread may still load of every word | `Relaxed`, `Acquire`, `Release` of every operation above | an access to a slot happens after the access before it |
| layered ring: `src/fifo_inner.rs`, `src/block.rs`, `src/atom_pair.rs`, `src/head.rs`, `src/entry_descriptor.rs` | a head per layer; per block and layer `give` and `take`; slots | `get_entry` (loop over `reserve_in_layer` and `advance_head`), the transform closure, the drop of the entry | one owner per slot; each layer sees each value once, in order, as the variant the layer before wrote; nothing wedges |
| layered drop: `Block::drop_in`, `IndexedDrop` | reads all pairs | `indexed_drop` with a layer or a slot number, panics on an entry in use | drops live slots as the right variant, forgets the others |
| `generate_union!` (`fastfifoprocmacro`) | none at run time | the chain "layer l chases l - 1", tags, `transform`, `split`, `Clone` for atomic layers | tags and chain agree with what the ring assumes |
| drivers and tests: `src/bin`, `tests/loom.rs` | which threads run, how many calls each has still to make | `while fifo.transform(..).is_err() { spin_loop() }`; `main` spawns and joins | every retry loop and every join ends, and nothing is left in the ring |

Interaction: user threads share the ring through `Arc` and touch each other
only through the words and slots. A `ProducingEntry`, `ConsumingEntry` or
`EntryDescriptor` borrows the ring between the take of a slot and its release;
a closure of the caller runs in between. The drop of the ring runs when no entry
is left. An entry may be dropped without being used, and the closure may panic:
the slot is then committed or given back all the same. In the layered programs a
panic ends the thread, and `main` panics in its turn at `join().unwrap()`. There
are no messages, timeouts, persistence or restarts.

What is hard: every call is a chain of up to nine atomic operations, any of
which can be delayed for rounds; full and empty are told from two or three loads
taken at different times; blocks are reopened by several threads at once, one
word at a time; `committed` and `give` count finished slots without saying
which; almost every operation is `Relaxed`; and the index may outgrow its bits.
`PROJECT.json` lists each of these
hazards at its line, with the properties that watch it.

## Modules

| Module | Models | Correspondence |
|---|---|---|
| `Field` | the pair algebra of `src/field.rs` | `FromParts`, `AtMost` (`partial_cmp`), `MaxPair` (`fetch_max`), `Incr` (`fetch_add(1)`, with the carry into the version), `VersionIncAdd` |
| `FieldPair` | abstract: a word is a pair, versions modulo their number | |
| `FieldWord` | a word as a `Width`-bit integer | shifts and masks as multiplication and remainder; `FetchAdd` wraps, `OverflowingAdd` is the plain `inner + rhs`; implements `FieldPair` |
| `Mpmc` | push and pop, one action per atomic operation | variables `phead`, `chead`, `allocated`, `committed`, `reserved`, `consumed` are the code's; `entries[b][s]` is the version of the value in the slot; `pc` says which atomic operation a call does next; `head`, `seen`, `mark` are the locals `ph`/`ch`, `reserved`/`consumed`/the slot, and `committed` |
| `Pipeline` | abstract: what both FIFOs promise, as numbered tickets that go through layers in order | |
| `MpmcTickets` | refinement of `Pipeline` with two layers, honest errors, liveness | the next ticket of producers is the one after the last that `allocated` has counted in any block, that of consumers the same for `reserved`; the ticket a thread holds and the slots in the ring follow from `seen` and `entries` |
| `MpmcDrop` | `Block::drop` and `Block::fmt` of an idle mpmc ring | functions of the state |
| `MpmcWeak` | push and pop with the memory orderings of the code | instantiates `Mpmc` for what each step does with the word it loads; `mem[word]` is the sequence of values the word has had, `view[t]` how far a thread has got in each and which slots' last access it comes after |
| `MpmcWeakInvariant` | why one producer and one consumer do not race on weak memory | the inductive invariant `WeakInv` |
| `MpmcInvariant` | why no slot has two owners, where the values are, that a ring at rest is settled, that the blocks are used in order, and what a lone consumer can rely on | the inductive invariants `SlotInv`, `ValueInv`, `OpenInv`, `RingInv`, `LoneInv` |
| `Layered` | `get_entry`, `transform` and the drop of the entry, for any assignment of threads to layers and any choice of atomic layers | `heads[l]`, `take[l][b]`, `give[l][b]` are the code's; `entries` is version and layer of the last write |
| `LayeredTickets` | refinement of `Pipeline` with one layer per union variant, honest errors, liveness | the next ticket of layer `l` is the one after the last that `take[l]` has counted in any block |
| `LayeredDrop` | `Block::drop_in` and `indexed_drop` of an idle ring | a function of the state |
| `LayeredInvariant` | why the layers never meet in a slot, and what every slot holds | the inductive invariants `OrderInv` and `EntryInv` |
| `Driver` | the `main` of `variadic_perf` and `paella_1_buffer_dyn` around `Layered` | `program` is what the command line asks for and who may drop entries or panic, `left` the loop counters, `failed` the threads that have panicked, `main` whether it is joining, has returned or has panicked |
| `FieldProofs`, `FieldWordProofs` | proofs about the pair algebra and the packed words | |
| `MpmcProofs`, `MpmcFifoProofs` | proofs about the mpmc ring: its slots, values and drop; its order and the refinement of `Pipeline` | |
| `MpmcWeakProofs`, `MpmcWeakFifoProofs` | proofs about one producer and one consumer on weak memory: that they do not race, and the refinement of `Pipeline` | |
| `LayeredProofs`, `LayeredPipelineProofs` | proofs about the layered ring: its slots, unions and drop; the refinement of `Pipeline` and the programs around it | |
| `MCMpmc`, `MCLayered`, `MCDriver` | instances for TLC | |

Definitions whose comment starts with "Variant:" are plausible bugs in the
definition that follows. No specification uses them; they are there to see that
each property notices such a bug, by putting the variant in the place of the
original.

Granularity. Each atomic load, `fetch_add` or `fetch_max` is one action; code
between two of them is part of the action before. A `fetch_max` whose answer
decides is one action with the test. The closure is one action. A thread of the
models is one call in flight: nothing in the code ties an entry to the thread
that got it, so a program thread holding an entry while it makes other calls is
several model threads. When a call returns, `head`, `seen` and `mark` are reset,
as its locals go out of scope.

`Careless` of `Mpmc`, and `careless` of a program of `Driver`, are the threads that
may drop an entry unused. A careless producer commits a slot it never wrote and a
careless consumer releases one it never read; in `Driver` the slot keeps what was
in it. A closure that panics is not the same. `fragile` of a program are the
threads whose closure may: what was moved out of the slot is lost, unwinding
drops the entry, which gives the slot, and the thread makes no more calls.
`JoinFailed` is `main` coming to that thread in the order it joins them.

Memory is sequentially consistent in all modules but `MpmcWeak`. There a load
returns any value of its word from the last one its thread knows of; an
`Acquire` load joins the view that the `Release`, or the chain of updates
since, carries; `fetch_add` and `fetch_max` read the last value, and one that
changes nothing adds none. The ring is made before the threads start. The
semantics has no load buffering and no promises: a load never sees an update
that comes after it in its own thread. That is weaker than what a `Relaxed`
operation is allowed, so the passing run says less than the standard and the
failing one is a behaviour the standard allows too.

## Runs

| Run | Instance | Shows |
|---|---|---|
| `field_word` | 6-bit words, every `index_max` from 1 to 9 | the packed words implement the pair algebra; a head counts blocks one by one until its version wraps |
| `mpmc_contention` | 2 producers, 2 consumers, 2 blocks of 2 | `SlotExclusive`, `ValuesIntact`, `CursorsNeverRetreat` and the drop and print properties with contention on both sides |
| `mpmc_fifo` | 2 producers, 1 consumer, 2 blocks of 2, two rounds | the ring implements `Pipeline`, refusals and (to a lone consumer) `Empty` are honest, the five inductive invariants hold |
| `mpmc_liveness` | 1 producer, 2 consumers, 2 blocks of 2; the producer and one consumer may drop entries unused | `NeverWedges`, and `SlotInv` with such entries |
| `mpmc_weak` | weak memory, 1 producer, 1 consumer, 2 blocks of 2, two rounds | `RaceFree`: every access to a slot happens after the one before; the ring still implements `Pipeline`; the inductive invariant `WeakInv` holds |
| `layered_pipeline` | 3 layers of 1 thread, 2 blocks of 3, two rounds and one push more | the ring implements `Pipeline`, `NotAvailable` and `Busy` are honest, no union is read as the wrong variant, no give runs ahead of its take, the two inductive invariants hold, nothing wedges |
| `layered_programs` | 3 layers of 1 thread, 3 blocks of 2; `variadic_perf`, `paella_1_buffer_dyn`, a program whose transformer may drop entries unused, and one any of whose closures may panic | the programs end, a panic spoils the slot of its thread and no other, and those that return leave nothing in the ring |
| `mpmc_carry` | 2 producers, 1 consumer, 2 blocks of 3 | finding: overshoot carries into the version, a producer and the consumer own one slot |
| `mpmc_drop` | 1 producer, 1 consumer, 2 blocks of 1 | finding: drop leaks the values of a block consumers have not opened |
| `mpmc_weak_race` | weak memory, 1 producer, 2 consumers, 2 blocks of 2 | finding: a consumer takes a slot without coming after its writer |
| `layered_two_producers` | 2 producers, 1 consumer, 2 blocks of 2 | finding: with two threads in an `atomic = true` layer, the layer behind takes a slot that one of them still holds |
| `layered_drop` | 1 producer, 1 consumer, 2 blocks of 2 | finding: slots are dropped that hold nothing |

Bounds. `MaxRound` is the only bound on behaviours: `StartPush`
(`StartTransform` of layer 0) is not enabled once the producers have gone round
that often, so a behaviour ends with an idle, drained ring that consumers keep
finding empty, and deadlock is checked everywhere. Two blocks are the least the
code accepts and make "the next block" of the last block the first one; two
slots tell "first", "last" and "all". With `MaxRound = 0` every block is still
opened twice (block 0 in versions 0 and 1), and a call delayed from the first
round meets the second; `MaxRound = 1` adds a round in which a delayed
`fetch_max` is two versions old. Two threads per side are needed for every race
for a slot; a third would only repeat them. `layered_pipeline` has blocks larger
than their number (the early escape of `advance_head` is taken),
`layered_programs` smaller (it is never taken). In `layered_programs` the loop
counters bound the calls, `variadic_perf` goes round the ring by one call
and `paella_1_buffer_dyn` fills it exactly; the two programs that drop entries or
panic make one call more than fits in a block. Thread symmetry is used where
only safety is checked and all threads of a side are alike.

Fairness. `FairSpec` is weak fairness of each thread's own steps: the scheduler
runs every thread, and a call that fails is repeated. The layered programs and
`tests/loom.rs` do that (`while ..transform(..).is_err() { spin_loop() }`). No code
in the repository calls `push` or `pop` of the mpmc ring: `src/bin/mpmc_perf.rs`, which
would, is commented out. For that ring it is an assumption on the caller.
A thread's steps are always enabled except when its side is idle for good.
No fairness between the outcomes of a step is assumed, nor that a closure ever
panics or does not. In `Driver` each thread is fair from when it has been
spawned, and `main` when all it joins are done or the next one has panicked.

## What the checks found

* `allocate_entry` adds to `allocated` before it knows the block is full. The
  overshoot is at most one per other producer, and the index bits are the least
  that hold `block_size`; so the ring is safe as long as
  `block_size + producers` is at most the next power of two above `block_size`
  (`NoCarry`). That is a theorem, below. `mpmc_carry` shows what happens with
  one producer too many, for 3 slots and 2 producers: the overshoot carries
  into the version, and a producer gets a slot that the consumer holds.
* With the orderings of the code, `mpmc_weak_race`: `reserve_entry` asks only
  whether `reserved` and `committed` have different indices. A consumer that
  reads a `reserved` another one has just moved, and values of `committed` and
  `allocated` from before that, finds them different, and takes a slot of which
  it knows nothing. With blocks of one slot it may even take one not written in
  this round. One producer and one consumer are free of races, and the
  `Release` of both entries, the `Acquire` of `reserve_entry` and that of
  `advance_phead` are all needed for that: with `Relaxed` for any of them
  `RaceFree` fails. (That of `advance_chead`, `src/mpmc/fifo_inner.rs:152`, is
  not: the consumer loads `committed` again before it takes a slot.) Two producers also race: one that allocates in a block
  the other has opened has loaded nothing with `Acquire`.
* Two threads in one layer of the layered ring break it. A block is opened again
  with a version more only if the opener finds its own `give` of it full. A fast
  thread that goes round the ring while a slow one still holds a slot of the next
  block does not; it opens the block one version too low, and the layer behind,
  which is still in the version before, takes every slot of the block for given,
  the one held included (`layered_two_producers`: the owners are a producer and the
  consumer). Two transformers come to the same, and with four blocks of one slot
  they can wedge `paella_1_buffer_dyn`, which does not end in every schedule; with
  two blocks of two it does. Those instances have `LayerOf <- TwoTransformers` of
  `MCDriver` and are not among the runs.
* Both drops disagree with their comments. `mpmc_drop` shows values that are
  leaked, `layered_drop` slots that are dropped though they hold nothing, in a
  ring nobody has used. That slots between two layers are dropped with the tag of
  the wrong one (`src/block.rs:184`) is read off the code: with the two layers of
  that run there is only one variant to store.
* `Block::fmt` reads only live values (`ShowsOnlyLiveValues`), but it moves them
  out of their slots to print them and drops them afterwards
  (`src/mpmc/block.rs:227`), while they stay in the ring: a ring of values that
  own something must not be printed and used after that. This is read off the
  code and no run of its own shows it.
* The comment at `src/fifo_inner.rs:155` is wrong: the chased layer may reset
  both words between the two loads, so the `give` loaded can exceed the `take`
  loaded. With one thread per layer that is harmless (`layered_pipeline`).
* `NotAvailable` says that the layer chased has not given back the next slot, with
  one exception. A producer compares the version of its `take` with that of the
  last layer's `give` plus one (`src/block.rs:101-103`), and the blocks after block
  0 have no version 1. So in the second round it is refused at the first slot of
  each of them until the last layer opens the block again, even if all its slots
  are free. It is a delay and not a deadlock (`NeverWedges`).
  `NotAvailableIsHonest` without `AwaitsReopening` is violated.
* An entry dropped unused does not wedge either ring. A closure that panics does
  not wedge the layers behind either, but they go on to a slot whose value has
  been moved out and dropped: `PanicsSpoilOneSlot` says that it is only that slot.
  (`VariantMatches` instead of it is violated.) The program ends in a panic of
  `main`, if all it pushes fits in the ring. If not, the layer in front of the
  thread that ended spins for ever, and `main` with it when it joins that layer
  first: a program of that kind with two calls more than the capacity, and a
  transformer that may panic, does not end in every schedule (not among the runs).

## What is proved

### The mpmc ring

The theorems about `Mpmc` are for any sets of producers and consumers, any
number of blocks above one (the assertion in `FastFifoInner::new`), any
`BlockSize` above zero and any `MaxRound`. The assumptions are
`ThreadAssumption`, `RingAssumption` and `SpanAssumption` of `Mpmc`; of the
last, the proofs use only that `block_size` fits in the index bits.

| Theorem | Statement |
|---|---|
| `MpmcProofs!TypeCorrect` | `Spec => []TypeOK` |
| `MpmcProofs!NeverRetreat` | `Spec => CursorsNeverRetreat`: no shared word moves backwards |
| `MpmcProofs!SlotInvariant` | `NoCarry => (Spec => []SlotInv)` |
| `MpmcProofs!SlotsExclusive` | `NoCarry => (Spec => []SlotExclusive)`: two live entries never stand for one slot |
| `MpmcProofs!ValueInvariant` | `NoCarry /\ Careless = {} => (Spec => []ValueInv)` |
| `MpmcProofs!ValuesStayIntact` | the same for `ValuesIntact`: what is pushed is found by who pops it, and nothing is overwritten |
| `MpmcProofs!DropsAreLive` | the same for `DropsOnlyLiveValues` |
| `MpmcProofs!ShownAreValues` | the same for `ShowsOnlyLiveValues` |
| `MpmcProofs!OpenInvariant` | `NoCarry => (Spec => []OpenInv)` |
| `MpmcProofs!DropSafe` | `NoCarry => (Spec => []DropNeverPanics)` |
| `MpmcFifoProofs!RingInvariant` | `NoCarry => (Spec => []RingInv)`: producers and consumers go through the blocks in order |
| `MpmcFifoProofs!RingIsFifo` | `NoCarry /\ Careless = {} => (Spec => ImplementsFifo)`: the ring is a bounded FIFO of tickets |
| `MpmcFifoProofs!RefusalsHonest` | `NoCarry => (Spec => RefusalsAreHonest)`: what `Full` and `Busy` say of the ring |
| `MpmcFifoProofs!LoneInvariant` | `NoCarry /\ OneConsumer => (Spec => []LoneInv)` |
| `MpmcFifoProofs!EmptyHonest` | `NoCarry /\ OneConsumer => (Spec => EmptyIsHonest)`: what `Empty` says to a lone consumer |

`NoCarry` is a condition on the constants: finitely many threads, at least one
producer, and room in the index bits for one overshoot per producer. Without it
the conclusion is false (`mpmc_carry`), so it is a hypothesis of the theorems
and not an assumption of the module. `Careless = {}` says that callers use their
entries; the theorems without it hold for those that do not as well.
`OneConsumer` says that no two calls to `pop` overlap, the life of the entry
included: with two of them `Empty`
may be told to one that was overtaken by the other, and the property is not
claimed.

The argument. `SlotExclusive` is not inductive: it says nothing of the words
that decide who gets the next slot. `SlotInv` adds, for each block,

* `OvershootBounded`: `allocated`, plus the producers about to add to it, stays
  below `BlockSize` plus all producers. With `NoCarry`, no `fetch_add` carries;
* `ProducerWords`, `ConsumerWords`: `committed` is what was handed out less what
  is still being written, or was just reset, on a full block nobody writes in;
  likewise `consumed` for `reserved`;
* `ProducersLead`: producers are in the version of the consumers, or one ahead
  in a block that consumers have emptied, and nothing is reserved before it is
  committed;

and for each thread what it owns (`WriterOwns`, `ReaderOwns`) and what it knows
from its earlier loads at the moment it acts on them (`OpenerKnows`,
`FollowerKnows`, `ReserverKnows`). The heads do not occur: where a thread found
the block it works on is irrelevant to safety, since every decision is taken
again on the words of the block. What a thread knows survives the steps of the
others because words never retreat (`OthersKnow` uses `Forward`), and a delayed
`fetch_max` either finds the word past its pair and changes nothing, or finds
the block exactly in the state the thread saw (`RaiseCases`, and the step
lemmas `MaxCommittedStep`, `MaxAllocatedStep`, `MaxConsumedStep`,
`ResetReservedStep`). `MaxReservedStep` is the place where a consumer takes a
slot: if nobody reserved since its load, then the slot it saw committed still
is, and no producer writes in it.

Twenty of the 29 actions change nothing that `SlotInv` is about except what
the acting thread knows (`Quiet`) and are dealt with together; each of the other nine has a lemma of its own, most of them
through `StepPush` or `StepPop`, which reduce the goal to the one block the step
touches.

`ValueInv` says where the values are: in version `allocated[b].v` in the slots
handed out, written and not reserved; in version `reserved[b].v` in those
reserved and not read; and nowhere else. Given `SlotInv`, six actions touch
what it speaks of, each with a lemma of its own (`AddAllocatedValues` to
`ConsumeValues`); the step that matters is `MaxReservedValues`, where a slot
goes from the first kind to the second without its value changing.
`ValuesIntact`, `DropsOnlyLiveValues` and `ShowsOnlyLiveValues` follow.

`SlotInv` allows a block to be caught between the resets of two companion
words, in which state `Block::drop` might panic. `OpenInv` says that there is
then a thread about to reset the second, so that a ring at rest is in no such
state: `DropSafe`.

Order and tickets. `SlotInv` looks at one block at a time; that the ring is a
FIFO is a matter of several. `RingInv` says of `allocated`, and likewise of
`reserved`, that the word has gone through the ring block by block as far as
some block (`InOrder`): the blocks up to there are in one version, those behind
in the one before, and all but that one are full. It is inductive together with
what threads with old heads know: the block of any head ever loaded is `Reached`,
a thread that goes on to the next block has `Passed` its own, and one about to
move the head has seen the next block opened. The step that matters is the reset
of the next block (`OpeningKeepsOrder`): if the `fetch_max` changes anything at
all, the thread's head is the very end of the ring, however old it is.

A ticket is `(round * NumBlocks + block) * BlockSize + slot`. With `RingInv` the
next ticket of a side is the one that follows the last slot counted in the block
that side has come to (`NextIsReached`), a ticket has been handed out exactly if
the word of its block has counted it (`TakenLemma`), a counted slot hands out the
next ticket (`CountingNext`) and a block reset hands out none (`OpeningNext`). No
sum over the blocks is needed, which is why the mapping is stated with the last
ticket and not with a count. Each step of the ring is then one step of `Pipeline`
or a stutter: `AddMaps` and `ReserveMaps` are the takes, for which `SlotInv`
shows that the other side has finished the ticket (a round ago, or this one);
`ProduceMaps` and `ConsumeMaps` are the transforms, which find what `ValueInv`
says; `CommitMaps` and `ReleaseMaps` are the gives; all else stutters
(`PushStutters`, `PopStutters`).

Honest answers. A push that is refused has found the next block not emptied in
the version before. `OccupiedHolds` finds in such a block a ticket of that
version that is not finished: one nobody has reserved, or one a reader holds. By
`Passed` it lies all other blocks behind the last ticket. For `Empty`, `LoneInv`
says that a lone consumer's `chead` is where the ring has been read to and that
what it loaded of `reserved` is still there when it acts; so its two loads speak
of one state. If the block it is at has as many slots committed as reserved, then the next
ticket, if handed out at all, is being written: otherwise the writers, whose
slots are distinct, would be more than the slots left (`WriterInTheWay`, the
pigeonhole principle). If the next block is not opened, nobody has pushed there
(`EmptyRing`).

`mpmc_fifo` checks the five inductive invariants with TLC as well,
`mpmc_liveness` checks `SlotInv` with careless threads, and `mpmc_contention`
the properties derived from them.

### Weak memory

| Theorem | Statement |
|---|---|
| `MpmcWeakProofs!WeakInvariant` | `OneEach => (Spec => []WeakInv)` |
| `MpmcWeakProofs!RaceFreedom` | `OneEach => (Spec => []RaceFree)`: no access to a slot is unordered with the one before |
| `MpmcWeakFifoProofs!WeakRingIsFifo` | `OneEach => (Spec => ImplementsFifo)`: the ring is a bounded FIFO of tickets with the orderings of the code too |

The theorems are about `MpmcWeak`, with the assumptions `ThreadAssumption`,
`RingAssumption` and `SpanAssumption` that it shares with `Mpmc`. `OneEach` says
that there is one producer and one consumer, which is what `mpmc_weak` has;
with a second consumer the conclusion is false (`mpmc_weak_race`).

The argument. With one thread on a side every word has one writer: `phead`,
`allocated` and `committed` the producer, `chead`, `reserved` and `consumed` the
consumer. The writer always finds the last value of its words (`Latest`), so
each side knows exactly where it is (`ComeTo`), and `committed` and `consumed`
are what was handed out, less the slot in hand or up to a reset under way
(`ProducerBlock`, `ConsumerBlock`). What it finds of the other side's words may
be old, but values never grow smaller (`MemoryInv`), and a thread never finds
an older one than before (`Known`). So whatever the producer reads in
`consumed`, or the consumer in `committed`, is a lower bound that stays true,
and the decision taken on it is as good as on the last value: `Leads` holds as in
sequentially consistent memory.

That the decision brings the accesses with it is said of each slot. `EntryHeld`
says when the slot holds a value. If it does, then the producer comes after the
last access, which was its own, and every value of `committed` that the
consumer may still load and that counts the slot in the present version carries
that access (`Carried`), unless the consumer comes after it already; and the
same with the two sides and `consumed` for `committed` if it is empty
(`ProducerSees`, `ConsumerSees`). The two steps that hand a slot over, `Commit`
and `Release`, put such a value at the end of the word, and those that are about
to use it, `LoadCommitted` and `CheckConsumed`, join its view. The steps in
between may forget views that nobody can load any more and reset words with
`Relaxed` updates, which carry on what was released before (`CarriedKept`,
`CarriedWritten`). The proof follows this: `LoadLemma`, `UpdateLemma` and
`AccessLemma` say what each kind of operation does to memory and views, and for
each of the 23 actions a lemma shows that it keeps `WeakInv`.

That the ring is still a FIFO (`WeakRingIsFifo`) needs no new reasoning about
tickets: `MpmcWeakFifoProofs` instantiates `MpmcFifoProofs` with the last values
of the words (`Fifo`) and cites its lemmas. `Mapped(p, c)` is `WeakInv` with two
facts that `RaceFree` does not depend on: a call that has loaded nothing is at
no block (`AtRest`), and what the consumer found of `committed` counts the slot
it goes for (`Marked`). From it follow, of the last values, the `SlotInv`,
`RingInv` and `ValueInv` of the sequentially consistent ring (`SlotMaps`,
`RingMaps`, `ValueMaps`). They are derived anew from what each thread knows in
each state, and not carried over from state to state, because a load that finds
an old word is no step of `Mpmc`. It need not be: it changes neither a word nor
a slot, and its thread has no slot before or after, so it is no step of
`Pipeline` (`QuietStill`). The updates and the accesses are the steps of `Mpmc`
of the same name (`PushSteps`, `PopSteps`), and map as they do there.

### The layered ring

The theorems about `Layered` are for any number of layers above one, any number
of blocks and slots above zero and any choice of atomic layers, from
`LayerAssumption`, `RingAssumption` and `SpanAssumption` (of which the proofs
use only that `block_size` fits in the index bits).

| Theorem | Statement |
|---|---|
| `LayeredProofs!TypeCorrect` | `Spec => []TypeOK`, for any threads |
| `LayeredProofs!OrderCorrect` | `OneThreadPerLayer => (Spec => []OrderInv)` |
| `LayeredProofs!SlotsExclusive` | the same for `SlotExclusive`: no slot is two threads' at once |
| `LayeredProofs!GivesWithinTakes` | the same for `GiveWithinTake` |
| `LayeredProofs!EntriesCorrect` | the same for `EntryInv` |
| `LayeredProofs!DropSafe` | the same for `DropNeverPanics` |
| `LayeredProofs!VariantsMatch` | the same for `VariantMatches`: the union is read as the variant it was written as, and a producer overwrites nothing |
| `LayeredPipelineProofs!LayersArePipeline` | the same for `ImplementsPipeline`: `OneThreadPerLayer => (Spec => ImplementsPipeline)` |
| `LayeredPipelineProofs!RefusalsAreHonest` | the same for `NotAvailableIsHonest`, producers included |
| `LayeredPipelineProofs!BusyHonest` | the same for `BusyIsHonest` |
| `LayeredPipelineProofs!ProducersWait` | `NotRetaken` of every block is an invariant: see below |
| `LayeredPipelineProofs!NothingIsLeft` | `OneThreadPerLayer /\ Staffed /\ Balanced => (DriverSpec => []NothingLeft)` |

`OneThreadPerLayer` says that no layer has two threads. It is a hypothesis and
not an assumption of the module, because the code lets an `atomic = true` layer
have several; `layered_two_producers` shows that without it the conclusion is
false.

The argument. A layer goes through the slots of a block in order, and through
the versions of the block in order; `take` is how far it has got and `give` how
much of that it is done with. `Within(b, f, g)` compares two such positions. It
is the order of the words (`AtMost`) with one addition: a version that is opened
but untouched is no further than the one before it finished, since `give` is
reset before `take` and the layers are reset at different times. `Following`
says which version comes next: the blocks after block 0 skip version 1
(`src/fifo_inner.rs:185`: a block that is done is opened one version above the
head's, and the head's has itself been incremented since the block was first
opened). `OrderInv` has four parts.

* `BlockInOrder`: in every block, the `give` of a layer is within its `take`,
  the `take` of a layer is within the `give` of every layer before it, and the
  `take` of the producers is within one `Turn` of the ring of everybody's
  `give`. It is stated for all pairs of layers and not for neighbours, so that
  nothing has to be shown by induction over the layers (`TakeGrows` adds one
  link to the chain).
* `TakeFollowsHead`: the version of every `take` follows from the layer's head.
  That is what makes `load_own_give` choose the right version (`OpenedLemma`).
* `GiveFollowsTake`: the thread has given all it took, but for the slot it holds
  or the block it is in the middle of resetting. This is what fails when a layer
  has two threads.
* `Knows`: what its earlier loads told the thread still holds; in particular the
  slot it is about to take was `Granted` by the layer it chases. `GrantLemma` is
  the comparison of `reserve_in_layer`, with the producers' offset of one.

`OrderExcludes` draws the conclusion: if layer `l` held a slot that a layer
`m < l` holds too, `m` would be a version ahead of `l` there, and so more than a
turn ahead of what `l` has given.

`EntryInv` says what is in a slot. `NextTurn(l, b, s)` is the version in which
layer `l` transforms the slot next; from `BlockInOrder` it never increases from
one layer to the next and the first is at most one version ahead of the last
(`TurnsInOrder`). So there is at most one place where it drops, and the slot
holds what the layer just before that place wrote, or nothing if there is none.
When a closure runs, that place is right before its own layer
(`TransformIsNext`), and afterwards right behind it (`TransformLeaves`); no
other step moves it (`TurnsKept`).

`DropSafe` follows from `GiveFollowsTake`: between calls give and take are
equal. `layered_pipeline` checks both invariants with TLC as well.

Tickets. `TakeFollowsHead` already says how far every `take` of a layer has gone
through the ring, so the lemmas about tickets are those of the mpmc ring
(`NextIsReached`, `TakenLemma`), except that a word no
layer has touched yet counts for nothing. A ticket of a layer is finished exactly if the layer's
`give` has counted it (`GivenBackLemma`, from `GiveFollowsTake`: what is taken
and not given is the one slot the thread holds). So the guard of `Pipeline` for a
take is what `Granted` says (`TakeMaps`), the closure finds what `EntryInv` says
(`TransformMaps`), and a reset changes no next ticket (`ResetMaps`).

Honest answers. A call is refused with `NotAvailable` because of the one `give` it
loads. If that is of the version the layer waits for and has the index of its own
`take`, it has not counted the next ticket (`RefusedNotGiven`). If it is of an
older version, it has not either, unless a version was skipped in between: that
is the exception `AwaitsReopening`. That it is told at the first slot only, and not at
later ones, is an invariant of its own: while the last layer's `give` of such a block
is in version 0, the producers take no slot of it in version 2 (`NotRetaken`,
`ProducersWait`). `Busy` compares a `take` with a `give` that was loaded before it.
If the `give` is still the same and nobody is in the block (`NobodyThere`), then by
`GiveFollowsTake` it is equal to the `take`, and the call is not told `Busy`.

Programs. `NothingIsLeft` is about any set of programs in which every layer has
a thread (`Staffed`), all threads make equally many calls and those of the last
layer use their entries (`Balanced`, which the programs of `layered_programs`
are). `OrderInv` holds for a driver too. `CallsCounted` says that the next
ticket of a layer is the number of calls its thread has made; when `main`
returns all layers have the same next ticket, so every slot's next turn is the
same for all of them (`SameTickets`), and then it is empty (`Emptied`, the part
of `EntryInv` that survives entries dropped unused).

### Packed words

| Theorem | Statement |
|---|---|
| `FieldWordProofs!WordsArePairs` | `Spec => ImplementsPairs`: a word does what the pair algebra says |
| `FieldWordProofs!HeadsCount` | `Spec => []HeadCountsBlocks`: `version_inc_add` on a head counts blocks one by one until the version wraps |

They are for words of any `Width` above zero and any `index_max` up to
`2^(Width - 1)`, so for 64 bits as well as for the six of the run
(`WidthAssumption`). `Pow2` is a recursive function; that it exists and that
`Pow2[a + b] = Pow2[a] * Pow2[b]` is shown by induction in the form of a set of
numbers that contains 0 and the successor of each of its members (`Induction`,
from the well-foundedness of `<`). The shift and the
mask are quotient and remainder by a power of two, the two parts of a word are
below two powers (`PackLemma`), and the order of the words is the order of the
pairs (`WordOrder`).

### What stays with TLC

* Liveness: `NeverWedges` of both rings and `Terminates` of the programs.
* `PanicsSpoilOneSlot`. `EntryInv`, on which `VariantsMatch` rests, does not survive a
  panic. (`NothingIsLeft` does cover programs that may panic: it speaks of a `main`
  that returns, and then no thread has panicked.)
* What the failing runs show, of course; the theorems carry the hypothesis each
  of them breaks (`NoCarry` for `mpmc_carry`, `OneThreadPerLayer` for
  `layered_two_producers`).

## Not modelled, and why

* Weak memory of the layered ring, and load buffering in `MpmcWeak`.
* `indexed_push` and `indexed_pop`: the first writes to a slot without any
  check, and no caller shows how the two are to be paired.
* Printing a ring while others use it, which reads slots they write.
* Version wrap-around of a whole ring. `FieldWord` shows what one word does;
  the rings count versions without bound.
* `block_size` 0, which the code does not refuse. (Nor does the layered ring
  refuse `num_blocks` 1. The theorems hold for it; no run has it, so that it
  does not wedge is not checked.)
* The unsynchronised `NonAtomicHead` shared by reference between threads; the
  memory the ring leaks through `Box::into_raw`.
* The wording of errors and of `Debug` output, command lines and timing of the
  drivers, `variadic_single_perf` (it uses names it does not declare), parsing
  and code generation of the macro.

## Plan

Done: the inventory; `Field`, `FieldWord`; `Mpmc` with its refinement,
liveness, drop and printing, entries dropped unused, weak memory; `Layered` with
its refinement, liveness, drop, both kinds of heads, entries dropped unused, and
the programs around it. Proved: every safety property the passing runs check
of both rings in sequentially consistent memory, the refinements of `Pipeline`
included, and of the packed words, that a program leaves nothing in the ring; and that the mpmc ring of one
producer and one consumer has no data race on weak memory and is a FIFO there.

Left, most important first:

1. Weak memory for the layered ring, with the views of `MpmcWeak`.
2. A proof of `PanicsSpoilOneSlot`, from an `EntryInv` that excepts the last slot of
   a thread that has panicked.
3. `indexed_push` and `indexed_pop`, with the guard a caller would have to
   provide stated as an assumption.
