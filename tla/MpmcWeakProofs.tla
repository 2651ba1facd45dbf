---------------------------- MODULE MpmcWeakProofs ----------------------------
(***************************************************************************)
(* With the memory orderings of the code, an mpmc ring of one producer and *)
(* one consumer has no data race, whatever the number of blocks and slots. *)
(***************************************************************************)
EXTENDS MpmcWeakInvariant, FieldProofs, SequenceTheorems

USE ThreadAssumption, RingAssumption, SpanAssumption

(* One thread on either side.                                              *)
Lone(p, c) == Producers = {p} /\ Consumers = {c}

(* A head: a version and the block it names.                               *)
Heads == [v : Nat, i : Blocks]

(* The block that comes after the one the head names.                      *)
After(h) == (h.i + 1) % NumBlocks

(* Moving the head opens the next block and leaves the others in their     *)
(* versions.                                                               *)
LEMMA HeadLemma ==
    ASSUME NEW h \in Heads
    PROVE  /\ h.v \in Nat /\ h.i \in Blocks /\ h \in Pair
           /\ After(h) \in Blocks /\ After(h) # h.i
           /\ VersionAt(After(h), h) = h.v
           /\ VersionIncAdd(NumBlocks, h) \in Heads
           /\ VersionIncAdd(NumBlocks, h).i = After(h)
           /\ MaxPair(h, VersionIncAdd(NumBlocks, h)) = VersionIncAdd(NumBlocks, h)
           /\ \A b \in Blocks : VersionAt(b, VersionIncAdd(NumBlocks, h)) =
                                    IF b = After(h) THEN h.v + 1 ELSE VersionAt(b, h)
<1>1. h.v \in Nat /\ h.i \in 0 .. NumBlocks - 1
  BY DEF Heads, Blocks
<1>2. CASE h.i + 1 < NumBlocks
  <2>1. (h.i + 1) % NumBlocks = h.i + 1 /\ (h.i + 1) \div NumBlocks = 0
    BY <1>1, <1>2, WrapLemma
  <2>2. /\ After(h) = h.i + 1
        /\ VersionIncAdd(NumBlocks, h) = [v |-> h.v, i |-> h.i + 1]
    BY <1>1, <1>2, <2>1 DEF After, VersionIncAdd, FromParts
  <2>3. VersionIncAdd(NumBlocks, h) \in Heads /\ h \in Pair /\ After(h) \in Blocks
    BY <1>1, <1>2, <2>2 DEF Heads, Pair, Blocks
  <2>4. MaxPair(h, VersionIncAdd(NumBlocks, h)) = VersionIncAdd(NumBlocks, h)
    BY <1>1, <2>2 DEF MaxPair, AtMost
  <2>5. /\ VersionAt(After(h), h) = h.v
        /\ \A b \in Blocks : VersionAt(b, VersionIncAdd(NumBlocks, h)) =
                                  IF b = After(h) THEN h.v + 1 ELSE VersionAt(b, h)
    BY <1>1, <1>2, <2>2 DEF VersionAt, Blocks
  <2>6. QED
    BY <1>1, <1>2, <2>2, <2>3, <2>4, <2>5 DEF Blocks
<1>3. CASE h.i + 1 = NumBlocks
  <2>1. (h.i + 1) % NumBlocks = 0 /\ (h.i + 1) \div NumBlocks = 1
    BY <1>1, <1>3, WrapLemma
  <2>2. /\ After(h) = 0
        /\ VersionIncAdd(NumBlocks, h) = [v |-> h.v + 1, i |-> 0]
    BY <1>1, <1>3, <2>1 DEF After, VersionIncAdd, FromParts
  <2>3. VersionIncAdd(NumBlocks, h) \in Heads /\ h \in Pair /\ After(h) \in Blocks
    BY <1>1, <1>3, <2>2 DEF Heads, Pair, Blocks
  <2>4. MaxPair(h, VersionIncAdd(NumBlocks, h)) = VersionIncAdd(NumBlocks, h)
    BY <1>1, <2>2 DEF MaxPair, AtMost
  <2>5. /\ VersionAt(After(h), h) = h.v
        /\ \A b \in Blocks : VersionAt(b, VersionIncAdd(NumBlocks, h)) =
                                  IF b = After(h) THEN h.v + 1 ELSE VersionAt(b, h)
    BY <1>1, <1>3, <2>2 DEF VersionAt, Blocks
  <2>6. QED
    BY <1>1, <1>3, <2>2, <2>3, <2>4, <2>5 DEF Blocks
<1>4. QED
  BY <1>1, <1>2, <1>3

(* How far the threads that load a word have all got in it.                *)
Behind(v, w) == Min({v[t].at[w] : t \in Loaders(w)})

(* The one that is furthest behind is one of them.                         *)
LEMMA BehindLemma ==
    ASSUME NEW p, NEW c, Lone(p, c), NEW v \in [Threads -> Views], NEW w \in Words
    PROVE  /\ Loaders(w) \subseteq Threads
           /\ Behind(v, w) \in Nat
           /\ \A t \in Loaders(w) : Behind(v, w) <= v[t].at[w]
           /\ \E t \in Loaders(w) : Behind(v, w) = v[t].at[w]
<1>1. Loaders(w) \in {{p}, {c}, {p, c}} /\ Threads = {p, c}
  BY DEF Loaders, Lone, Threads
<1>2. \A t \in Threads : v[t].at[w] \in Nat
  BY DEF Views
<1>3. PICK t \in Loaders(w) : \A u \in Loaders(w) : v[t].at[w] <= v[u].at[w]
  BY <1>1, <1>2
<1>4. /\ Behind(v, w) \in {v[u].at[w] : u \in Loaders(w)}
      /\ \A y \in {v[u].at[w] : u \in Loaders(w)} : Behind(v, w) <= y
  BY <1>3 DEF Behind, Min
<1>5. QED
  BY <1>1, <1>2, <1>4

(* Forgetting what nobody can load keeps the values, the views of those    *)
(* that can be loaded, and the threads' views of the slots and of the      *)
(* words they load.                                                        *)
LEMMA KeepLemma ==
    ASSUME NEW p, NEW c, Lone(p, c),
           NEW m \in [Words -> Seq(Values)], NEW v \in [Threads -> Views], Keep(m, v)
    PROVE  /\ mem' \in [Words -> Seq(Values)] /\ view' \in [Threads -> Views]
           /\ \A w \in Words :
                  /\ Len(mem'[w]) = Len(m[w])
                  /\ \A k \in 1 .. Len(m[w]) :
                         /\ mem'[w][k].value = m[w][k].value
                         /\ \A t \in Loaders(w) :
                                v[t].at[w] <= k => mem'[w][k].view.slots = m[w][k].view.slots
           /\ \A t \in Threads :
                  /\ view'[t].slots = v[t].slots
                  /\ \A w \in Words :
                         /\ v[t].at[w] <= view'[t].at[w]
                         /\ t \in Loaders(w) => view'[t].at[w] = v[t].at[w]
           /\ \A w \in Words, n \in Nat \ {0} :
                  (\A t \in Threads : v[t].at[w] <= n) =>
                      /\ \A t \in Threads : view'[t].at[w] <= n
                      /\ \A u \in Words : \A k \in 1 .. Len(m[u]) :
                             m[u][k].view.at[w] <= n => mem'[u][k].view.at[w] <= n
<1> DEFINE least == [w \in Words |-> Behind(v, w)]
           Recent(f) == [f EXCEPT !.at = [w \in Words |-> IF f.at[w] < least[w] THEN least[w]
                                                                            ELSE f.at[w]]]
<1>1. /\ mem' = [w \in Words |-> [k \in DOMAIN m[w] |->
                      [m[w][k] EXCEPT !.view = IF k < least[w] THEN Nothing ELSE Recent(@)]]]
      /\ view' = [t \in Threads |-> Recent(v[t])]
  BY DEF Keep, Behind
<1>2. \A w \in Words : least[w] \in Nat
  BY BehindLemma
<1> HIDE DEF least
<1>3. ASSUME NEW f \in Views
      PROVE  /\ Recent(f) \in Views /\ Recent(f).slots = f.slots
             /\ \A w \in Words : Recent(f).at[w] = IF f.at[w] < least[w] THEN least[w] ELSE f.at[w]
  <2>1. f.at \in [Words -> Nat \ {0}] /\ f.slots \in SUBSET (Blocks \X Slots)
        /\ f = [at |-> f.at, slots |-> f.slots]
    BY DEF Views
  <2>2. Recent(f) = [at |-> [w \in Words |-> IF f.at[w] < least[w] THEN least[w] ELSE f.at[w]],
                     slots |-> f.slots]
    <3>1. \A x : [f EXCEPT !.at = x] = [at |-> x, slots |-> f.slots]
      BY DEF Views
    <3>2. QED
      BY <3>1
  <2>3. ASSUME NEW w \in Words
        PROVE  (IF f.at[w] < least[w] THEN least[w] ELSE f.at[w]) \in Nat \ {0}
    <3>1. f.at[w] \in Nat \ {0} /\ least[w] \in Nat
      BY <1>2, <2>1
    <3>2. QED
      BY <3>1
  <2>4. QED
    BY <2>1, <2>2, <2>3 DEF Views
<1>4. Nothing \in Views
  BY DEF Nothing, Views
<1> HIDE DEF Recent
<1>5. \A w \in Words : /\ DOMAIN m[w] = 1 .. Len(m[w]) /\ Len(m[w]) \in Nat
                       /\ \A k \in 1 .. Len(m[w]) : m[w][k] \in Values
  BY ElementOfSeq, LenProperties
<1>6. ASSUME NEW w \in Words, NEW k \in 1 .. Len(m[w])
      PROVE  LET x == [m[w][k] EXCEPT !.view = IF k < least[w] THEN Nothing ELSE Recent(@)]
             IN  /\ x \in Values /\ x.value = m[w][k].value
                 /\ x.view = IF k < least[w] THEN Nothing ELSE Recent(m[w][k].view)
  <2>1. /\ m[w][k].value \in Pair /\ m[w][k].view \in Views
        /\ m[w][k] = [value |-> m[w][k].value, view |-> m[w][k].view]
    BY <1>5 DEF Values
  <2>2. [m[w][k] EXCEPT !.view = IF k < least[w] THEN Nothing ELSE Recent(@)]
            = [value |-> m[w][k].value, view |-> IF k < least[w] THEN Nothing ELSE Recent(m[w][k].view)]
    BY <2>1
  <2>3. (IF k < least[w] THEN Nothing ELSE Recent(m[w][k].view)) \in Views
    BY <1>3, <1>4, <2>1
  <2>4. QED
    BY <2>1, <2>2, <2>3 DEF Values
<1>7. ASSUME NEW w \in Words
      PROVE  /\ mem'[w] \in Seq(Values) /\ Len(mem'[w]) = Len(m[w])
             /\ \A k \in 1 .. Len(m[w]) :
                    /\ mem'[w][k] \in Values /\ mem'[w][k].value = m[w][k].value
                    /\ mem'[w][k].view = IF k < least[w] THEN Nothing ELSE Recent(m[w][k].view)
  <2>1. mem'[w] = [k \in 1 .. Len(m[w]) |->
                      [m[w][k] EXCEPT !.view = IF k < least[w] THEN Nothing ELSE Recent(@)]]
    BY <1>1, <1>5
  <2>2. mem'[w] \in [1 .. Len(m[w]) -> Values]
    BY <1>6, <2>1
  <2>3. mem'[w] \in Seq(Values)
    BY <1>5, <2>2, SeqDef
  <2>4. Len(mem'[w]) = Len(m[w])
    <3>1. 1 .. Len(mem'[w]) = 1 .. Len(m[w]) /\ Len(mem'[w]) \in Nat /\ Len(m[w]) \in Nat
      BY <1>5, <2>2, <2>3, LenProperties
    <3>2. QED
      BY <3>1
  <2>5. QED
    BY <1>6, <2>1, <2>2, <2>3, <2>4
<1>8. mem' \in [Words -> Seq(Values)] /\ view' \in [Threads -> Views]
  <2>1. DOMAIN mem' = Words /\ mem' = [w \in Words |-> mem'[w]]
    BY <1>1
  <2>2. QED
    BY <1>1, <1>3, <1>7, <2>1
<1>9. ASSUME NEW w \in Words, NEW t \in Loaders(w)
      PROVE  t \in Threads /\ least[w] <= v[t].at[w]
  BY <1>9, BehindLemma DEF least
<1>10. ASSUME NEW w \in Words, NEW k \in 1 .. Len(m[w]), NEW t \in Loaders(w), v[t].at[w] <= k
       PROVE  mem'[w][k].view.slots = m[w][k].view.slots
  <2>1. least[w] <= k /\ m[w][k].view \in Views
    BY <1>2, <1>5, <1>9, <1>10 DEF Views, Values
  <2>2. QED
    BY <1>2, <1>3, <1>7, <2>1
<1>11. ASSUME NEW t \in Threads
       PROVE  /\ view'[t].slots = v[t].slots
              /\ \A w \in Words :
                     /\ view'[t].at[w] = IF v[t].at[w] < least[w] THEN least[w] ELSE v[t].at[w]
                     /\ v[t].at[w] <= view'[t].at[w]
                     /\ t \in Loaders(w) => view'[t].at[w] = v[t].at[w]
  <2>1. view'[t] = Recent(v[t]) /\ v[t] \in Views
    BY <1>1
  <2>2. \A w \in Words : v[t].at[w] \in Nat
    BY <2>1 DEF Views
  <2>3. QED
    BY <1>2, <1>3, <1>9, <2>1, <2>2
<1>12. ASSUME NEW w \in Words, NEW n \in Nat \ {0}, \A t \in Threads : v[t].at[w] <= n
       PROVE  /\ \A t \in Threads : view'[t].at[w] <= n
              /\ \A u \in Words : \A k \in 1 .. Len(m[u]) :
                     m[u][k].view.at[w] <= n => mem'[u][k].view.at[w] <= n
  <2>1. least[w] <= n
    BY <1>12, BehindLemma DEF least
  <2>2. \A u \in Words : \A k \in 1 .. Len(m[u]) : m[u][k].view \in Views
    BY <1>5 DEF Values
  <2>3. Nothing.at[w] = 1
    BY DEF Nothing
  <2>4. \A t \in Threads : view'[t].at[w] <= n
    BY <1>11, <1>12, <2>1
  <2>5. ASSUME NEW u \in Words, NEW k \in 1 .. Len(m[u]), m[u][k].view.at[w] <= n
        PROVE  mem'[u][k].view.at[w] <= n
    <3>1. Recent(m[u][k].view).at[w] <= n
      BY <1>3, <2>1, <2>2, <2>5
    <3>2. mem'[u][k].view \in {Nothing, Recent(m[u][k].view)}
      BY <1>7
    <3>3. QED
      BY <2>3, <3>1, <3>2
  <2>6. QED
    BY <2>4, <2>5
<1>13. QED
  BY <1>7, <1>8, <1>10, <1>11, <1>12
-----------------------------------------------------------------------------
(* Operations on views.                                                    *)
LEMMA HereLemma ==
    ASSUME NEW f \in Views, NEW w \in Words, NEW k \in Nat \ {0}
    PROVE  LET g == [f EXCEPT !.at[w] = k]
           IN  /\ g \in Views /\ g.slots = f.slots
               /\ \A u \in Words : g.at[u] = IF u = w THEN k ELSE f.at[u]
<1>1. f.at \in [Words -> Nat \ {0}] /\ f.slots \in SUBSET (Blocks \X Slots)
  BY DEF Views
<1>2. [f EXCEPT !.at[w] = k] = [at |-> [f.at EXCEPT ![w] = k], slots |-> f.slots]
  BY DEF Views
<1>3. [f.at EXCEPT ![w] = k] \in [Words -> Nat \ {0}]
  BY <1>1
<1>4. QED
  BY <1>1, <1>2, <1>3 DEF Views

(* Joining two views gives a view that is behind neither.                  *)
LEMMA JoinLemma ==
    ASSUME NEW f \in Views, NEW g \in Views
    PROVE  /\ Join(f, g) \in Views
           /\ Join(f, g).slots = f.slots \cup g.slots
           /\ \A w \in Words : /\ Join(f, g).at[w] \in {f.at[w], g.at[w]}
                               /\ f.at[w] <= Join(f, g).at[w] /\ g.at[w] <= Join(f, g).at[w]
<1> DEFINE at == [w \in Words |-> IF f.at[w] < g.at[w] THEN g.at[w] ELSE f.at[w]]
<1>1. \A w \in Words : f.at[w] \in Nat \ {0} /\ g.at[w] \in Nat \ {0}
  BY DEF Views
<1>2. at \in [Words -> Nat \ {0}] /\ f.slots \cup g.slots \in SUBSET (Blocks \X Slots)
  BY <1>1 DEF Views
<1>3. Join(f, g) = [at |-> at, slots |-> f.slots \cup g.slots]
  BY DEF Join
<1>4. \A w \in Words : /\ at[w] \in {f.at[w], g.at[w]}
                       /\ f.at[w] <= at[w] /\ g.at[w] <= at[w]
  BY <1>1
<1> HIDE DEF at
<1>5. QED
  BY <1>2, <1>3, <1>4 DEF Views

(* What is in a word.                                                      *)
LEMMA WordLemma ==
    ASSUME TypeOK, MemoryInv, NEW w \in Words
    PROVE  /\ mem[w] \in Seq(Values)
           /\ Len(mem[w]) \in Nat \ {0} /\ DOMAIN mem[w] = 1 .. Len(mem[w])
           /\ \A k \in 1 .. Len(mem[w]) : /\ mem[w][k] \in Values
                                          /\ mem[w][k].value \in Pair /\ mem[w][k].view \in Views
           /\ Last(w) \in Pair
           /\ \A k \in 1 .. Len(mem[w]) : AtMost(mem[w][k].value, Last(w))
<1>1. mem[w] \in Seq(Values) /\ mem[w] # <<>>
  BY DEF TypeOK, MemoryInv
<1>2. Len(mem[w]) \in Nat \ {0} /\ DOMAIN mem[w] = 1 .. Len(mem[w])
  BY <1>1, EmptySeq, LenProperties
<1>3. \A k \in 1 .. Len(mem[w]) : mem[w][k] \in Values
  BY <1>1, ElementOfSeq
<1>4. \A k \in 1 .. Len(mem[w]) : AtMost(mem[w][k].value, mem[w][Len(mem[w])].value)
  BY <1>2 DEF MemoryInv
<1>5. QED
  BY <1>1, <1>2, <1>3, <1>4 DEF Values, Last
-----------------------------------------------------------------------------
(* The word has the same values still.                                     *)
Same(w) == /\ Len(mem'[w]) = Len(mem[w])
           /\ \A k \in 1 .. Len(mem[w]) : mem'[w][k].value = mem[w][k].value

(* Views of words only move on, and what a word carries to those who can   *)
(* still load it stays.                                                    *)
Onward == \A t \in Threads, w \in Words : view[t].at[w] <= view'[t].at[w]
Carries == \A w \in Words : \A t \in Loaders(w) : \A k \in 1 .. Len(mem[w]) :
               view'[t].at[w] <= k => mem'[w][k].view.slots = mem[w][k].view.slots

(* The word has got the value x after those it had.                        *)
Grown(w, x) == /\ Len(mem'[w]) = Len(mem[w]) + 1
               /\ \A k \in 1 .. Len(mem[w]) : mem'[w][k].value = mem[w][k].value
               /\ mem'[w][Len(mem[w]) + 1].value = x

(* MemoryInv survives a step that adds larger values only.                 *)
LEMMA MemoryKept ==
    ASSUME TypeOK, MemoryInv, mem' \in [Words -> Seq(Values)],
           \A w \in Words : \/ Same(w)
                            \/ \E x \in Pair : Grown(w, x) /\ AtMost(Last(w), x),
           \A w \in Words :
               /\ \A t \in Threads : view'[t].at[w] <= Len(mem'[w])
               /\ \A u \in Words : \A k \in 1 .. Len(mem'[u]) : mem'[u][k].view.at[w] <= Len(mem'[w])
    PROVE  MemoryInv'
<1>1. ASSUME NEW w \in Words
      PROVE  /\ mem'[w] # <<>> /\ DOMAIN mem'[w] = 1 .. Len(mem'[w])
             /\ Len(mem[w]) \in Nat \ {0} /\ Len(mem'[w]) \in {Len(mem[w]), Len(mem[w]) + 1}
  <2>1. /\ mem'[w] \in Seq(Values) /\ Len(mem[w]) \in Nat \ {0}
        /\ Len(mem'[w]) \in {Len(mem[w]), Len(mem[w]) + 1}
    BY WordLemma DEF Same, Grown
  <2>2. DOMAIN mem'[w] = 1 .. Len(mem'[w])
    BY <2>1, LenProperties
  <2>3. Len(<<>>) = 0
    BY EmptySeq
  <2>4. mem'[w] # <<>>
    BY <2>1, <2>3
  <2>5. QED
    BY <2>1, <2>2, <2>4
<1>2. ASSUME NEW w \in Words, NEW k \in 1 .. Len(mem'[w]), NEW l \in 1 .. Len(mem'[w]), k <= l
      PROVE  AtMost(mem'[w][k].value, mem'[w][l].value)
  <2>1. \A j \in 1 .. Len(mem[w]) : mem[w][j].value \in Pair
    BY WordLemma
  <2>2. CASE k \in 1 .. Len(mem[w]) /\ l \in 1 .. Len(mem[w])
    <3>1. DOMAIN mem[w] = 1 .. Len(mem[w])
      BY WordLemma
    <3>2. AtMost(mem[w][k].value, mem[w][l].value)
      BY <1>2, <2>2, <3>1 DEF MemoryInv
    <3>3. QED
      BY <2>2, <3>2 DEF Same, Grown
  <2>3. CASE ~ (k \in 1 .. Len(mem[w]) /\ l \in 1 .. Len(mem[w]))
    <3>1. PICK x \in Pair : Grown(w, x) /\ AtMost(Last(w), x)
      BY <1>1, <2>3 DEF Same
    <3>2. l = Len(mem[w]) + 1 /\ mem'[w][l].value = x
      BY <1>1, <1>2, <2>3, <3>1 DEF Grown
    <3>3. CASE k = l
      BY <3>2, <3>3, AtMostIsOrder
    <3>4. CASE k # l
      <4>1. k \in 1 .. Len(mem[w])
        BY <1>1, <1>2, <3>2, <3>4
      <4>2. AtMost(mem[w][k].value, Last(w)) /\ Last(w) \in Pair /\ mem[w][k].value \in Pair
        BY <4>1, WordLemma
      <4>3. AtMost(mem[w][k].value, x)
        BY <3>1, <4>2, AtMostIsOrder
      <4>4. QED
        BY <3>1, <3>2, <4>1, <4>3 DEF Grown
    <3>5. QED
      BY <3>3, <3>4
  <2>4. QED
    BY <2>2, <2>3
<1>3. QED
  BY <1>1, <1>2 DEF MemoryInv

(* A load changes no word, and takes its thread on to what it finds.       *)
LEMMA LoadLemma ==
    ASSUME NEW p, NEW c, Lone(p, c), TypeOK, MemoryInv,
           NEW t \in Threads, NEW word \in Words, NEW k \in DOMAIN mem[word],
           NEW step, NEW acquire \in BOOLEAN, Load(t, step, word, k, acquire)
    PROVE  /\ mem' \in [Words -> Seq(Values)] /\ view' \in [Threads -> Views]
           /\ MemoryInv' /\ Onward /\ Carries
           /\ \A w \in Words : Same(w)
           /\ view[t].at[word] <= k /\ k <= view'[t].at[word]
           /\ \A u \in Threads \ {t} : view'[u].slots = view[u].slots
           /\ view[t].slots \subseteq view'[t].slots
           /\ acquire => mem[word][k].view.slots \subseteq view'[t].slots
<1> DEFINE here == [view[t] EXCEPT !.at[word] = k]
           now == IF acquire THEN Join(here, mem[word][k].view) ELSE here
           v == [view EXCEPT ![t] = now]
<1>1. k \in 1 .. Len(mem[word]) /\ k \in Nat \ {0} /\ view[t].at[word] <= k /\ Keep(mem, v)
  BY WordLemma DEF Load
<1>2. /\ mem \in [Words -> Seq(Values)] /\ view \in [Threads -> Views]
      /\ mem[word][k].view \in Views
  BY <1>1, WordLemma DEF TypeOK
<1>3. /\ here \in Views /\ here.slots = view[t].slots
      /\ \A w \in Words : here.at[w] = IF w = word THEN k ELSE view[t].at[w]
  BY <1>1, <1>2, HereLemma
<1> HIDE DEF here
<1>4. /\ now \in Views /\ here.slots \subseteq now.slots
      /\ acquire => mem[word][k].view.slots \subseteq now.slots
      /\ \A w \in Words : here.at[w] <= now.at[w] /\ now.at[w] \in {here.at[w], mem[word][k].view.at[w]}
  <2>1. \A w \in Words : here.at[w] <= here.at[w]
    BY <1>3 DEF Views
  <2>2. QED
    BY <1>2, <1>3, <2>1, JoinLemma
<1> HIDE DEF now
<1>5. v \in [Threads -> Views] /\ v[t] = now /\ \A u \in Threads \ {t} : v[u] = view[u]
  BY <1>2, <1>4
<1> HIDE DEF v
<1>6. ASSUME NEW w \in Words
      PROVE  /\ Len(mem[w]) \in Nat \ {0}
             /\ \A u \in Threads : /\ view[u].at[w] <= v[u].at[w]
                                   /\ v[u].at[w] <= Len(mem[w])
  <2>1. Len(mem[w]) \in Nat \ {0} /\ \A u \in Threads : view[u].at[w] \in Nat /\ view[u].at[w] <= Len(mem[w])
    BY <1>2, WordLemma DEF MemoryInv, Views
  <2>2. mem[word][k].view.at[w] <= Len(mem[w])
    BY <1>1, WordLemma DEF MemoryInv
  <2>3. here.at[w] <= Len(mem[w]) /\ view[t].at[w] <= here.at[w]
    BY <1>1, <1>3, <2>1
  <2>4. view[t].at[w] \in Nat /\ here.at[w] \in Nat /\ now.at[w] \in Nat
    BY <1>2, <1>3, <1>4 DEF Views
  <2>5. QED
    BY <1>4, <1>5, <2>1, <2>2, <2>3, <2>4
<1> DEFINE Kept == /\ mem' \in [Words -> Seq(Values)] /\ view' \in [Threads -> Views]
                   /\ \A w \in Words :
                          /\ Same(w)
                          /\ \A j \in 1 .. Len(mem[w]) : \A u \in Loaders(w) :
                                 v[u].at[w] <= j => mem'[w][j].view.slots = mem[w][j].view.slots
                   /\ \A u \in Threads :
                          /\ view'[u].slots = v[u].slots
                          /\ \A w \in Words : /\ v[u].at[w] <= view'[u].at[w]
                                              /\ u \in Loaders(w) => view'[u].at[w] = v[u].at[w]
<1>7. Kept
  BY <1>1, <1>2, <1>5, KeepLemma DEF Same
<1>8. ASSUME NEW w \in Words
      PROVE  /\ \A u \in Threads : view'[u].at[w] <= Len(mem[w])
             /\ \A u \in Words : \A j \in 1 .. Len(mem[u]) :
                    mem[u][j].view.at[w] <= Len(mem[w]) => mem'[u][j].view.at[w] <= Len(mem[w])
  BY <1>1, <1>2, <1>5, <1>6, KeepLemma
<1>9. MemoryInv'
  <2>1. \A w, u \in Words : \A j \in 1 .. Len(mem[u]) : mem[u][j].view.at[w] <= Len(mem[w])
    BY WordLemma DEF MemoryInv
  <2>2. QED
    BY <1>7, <1>8, <2>1, MemoryKept DEF Same
<1>10. Onward
  <2>1. ASSUME NEW u \in Threads, NEW w \in Words
        PROVE  view[u].at[w] <= view'[u].at[w]
    <3>1. view[u].at[w] <= v[u].at[w] /\ v[u].at[w] <= view'[u].at[w]
      BY <1>6, <1>7
    <3>2. view[u].at[w] \in Nat /\ v[u].at[w] \in Nat /\ view'[u].at[w] \in Nat
      BY <1>2, <1>5, <1>7 DEF Views
    <3>3. QED
      BY <3>1, <3>2
  <2>2. QED
    BY <2>1 DEF Onward
<1>11. Carries
  <2>1. \A w \in Words : Loaders(w) \subseteq Threads
    BY DEF Loaders, Threads
  <2>2. QED
    BY <1>7, <2>1 DEF Carries
<1>12. k <= view'[t].at[word]
  <2>1. k <= v[t].at[word] /\ v[t].at[word] <= view'[t].at[word]
    BY <1>1, <1>3, <1>4, <1>5, <1>7
  <2>2. v[t].at[word] \in Nat /\ view'[t].at[word] \in Nat
    BY <1>5, <1>7 DEF Views
  <2>3. QED
    BY <1>1, <2>1, <2>2
<1>13. QED
  BY <1>1, <1>3, <1>4, <1>5, <1>7, <1>9, <1>10, <1>11, <1>12

(* An update adds one value at most, and a Release puts the view in it.    *)
LEMMA UpdateLemma ==
    ASSUME NEW p, NEW c, Lone(p, c), TypeOK, MemoryInv,
           NEW t \in Threads, NEW word \in Words, NEW after \in Pair, AtMost(Last(word), after),
           NEW step, NEW release \in BOOLEAN, Update(t, step, word, after, release)
    PROVE  /\ mem' \in [Words -> Seq(Values)] /\ view' \in [Threads -> Views]
           /\ MemoryInv' /\ Onward /\ Carries
           /\ \A w \in Words \ {word} : Same(w)
           /\ IF after = Last(word) THEN Same(word) ELSE Grown(word, after)
           /\ Last(word)' = after
           /\ view'[t].at[word] = Len(mem'[word])
           /\ \A u \in Threads : view'[u].slots = view[u].slots
           /\ after # Last(word) /\ release =>
                  view[t].slots \subseteq mem'[word][Len(mem[word]) + 1].view.slots
<1> DEFINE n == Len(mem[word])
           top == IF after = Last(word) THEN n ELSE n + 1
           here == [view[t] EXCEPT !.at[word] = top]
           carried == mem[word][n].view
           passed == IF release THEN Join(carried, here) ELSE carried
           value == [value |-> after, view |-> passed]
           m == IF after = Last(word) THEN mem ELSE [mem EXCEPT ![word] = Append(@, value)]
           v == [view EXCEPT ![t] = here]
<1>1. Keep(m, v)
  BY DEF Update
<1>2. /\ mem \in [Words -> Seq(Values)] /\ view \in [Threads -> Views]
      /\ n \in Nat \ {0} /\ top \in Nat \ {0} /\ carried \in Views
  BY WordLemma DEF TypeOK
<1> HIDE DEF top
<1>3. /\ here \in Views /\ here.slots = view[t].slots
      /\ \A w \in Words : here.at[w] = IF w = word THEN top ELSE view[t].at[w]
  <2>1. view[t] \in Views
    BY <1>2
  <2>2. QED
    BY <1>2, <2>1, HereLemma
<1> HIDE DEF here
<1>4. /\ passed \in Views
      /\ release => here.slots \subseteq passed.slots
      /\ \A w \in Words : passed.at[w] \in {here.at[w], carried.at[w]}
  BY <1>2, <1>3, JoinLemma
<1> HIDE DEF passed, carried
<1>5. value \in Values /\ value.value = after /\ value.view = passed
  BY <1>4 DEF Values
<1> HIDE DEF value
<1>6. /\ m \in [Words -> Seq(Values)]
      /\ \A w \in Words \ {word} : m[w] = mem[w]
      /\ Len(m[word]) = top
      /\ \A k \in 1 .. n : m[word][k] = mem[word][k]
      /\ after # Last(word) => m[word][n + 1] = value
  <2>1. CASE after = Last(word)
    BY <1>2, <2>1 DEF top
  <2>2. CASE after # Last(word)
    <3>1. /\ Append(mem[word], value) \in Seq(Values)
          /\ Len(Append(mem[word], value)) = n + 1
          /\ \A k \in 1 .. n : Append(mem[word], value)[k] = mem[word][k]
          /\ Append(mem[word], value)[n + 1] = value
      BY <1>2, <1>5, AppendProperties
    <3>2. m = [mem EXCEPT ![word] = Append(mem[word], value)]
      BY <2>2
    <3>3. QED
      BY <1>2, <2>2, <3>1, <3>2 DEF top
  <2>3. QED
    BY <2>1, <2>2
<1> HIDE DEF m
<1>7. v \in [Threads -> Views] /\ v[t] = here /\ \A u \in Threads \ {t} : v[u] = view[u]
  BY <1>2, <1>3
<1> HIDE DEF v
<1>8. ASSUME NEW w \in Words
      PROVE  /\ Len(m[w]) \in Nat \ {0} /\ Len(mem[w]) \in Nat \ {0} /\ Len(mem[w]) <= Len(m[w])
             /\ \A u \in Threads : view[u].at[w] <= v[u].at[w] /\ v[u].at[w] <= Len(m[w])
             /\ \A u \in Words : \A k \in 1 .. Len(m[u]) : m[u][k].view.at[w] <= Len(m[w])
  <2>1. /\ Len(m[w]) \in Nat \ {0} /\ Len(mem[w]) \in Nat \ {0} /\ Len(mem[w]) <= Len(m[w])
    <3>1. Len(mem[w]) \in Nat \ {0}
      BY WordLemma
    <3>2. Len(m[w]) = IF w = word THEN top ELSE Len(mem[w])
      BY <1>6
    <3>3. QED
      BY <1>2, <3>1, <3>2 DEF top
  <2>2. \A u \in Threads : view[u].at[w] \in Nat /\ view[u].at[w] <= Len(mem[w])
    BY <1>2 DEF MemoryInv, Views
  <2>3. view[t].at[w] <= here.at[w] /\ here.at[w] <= Len(m[w]) /\ here.at[w] \in Nat
    BY <1>2, <1>3, <1>6, <2>1, <2>2
  <2>4. \A u \in Words : \A k \in 1 .. Len(mem[u]) :
            mem[u][k].view.at[w] \in Nat /\ mem[u][k].view.at[w] <= Len(mem[w])
    BY WordLemma DEF MemoryInv, Views
  <2>5. passed.at[w] <= Len(m[w])
    <3>1. carried.at[w] \in Nat /\ carried.at[w] <= Len(mem[w])
      BY <1>2, <2>4 DEF carried
    <3>2. QED
      BY <1>4, <2>1, <2>3, <3>1
  <2>6. ASSUME NEW u \in Words, NEW k \in 1 .. Len(m[u])
        PROVE  m[u][k].view.at[w] <= Len(m[w])
    <3>1. CASE k \in 1 .. Len(mem[u])
      <4>1. m[u][k] = mem[u][k]
        BY <1>6, <3>1
      <4>2. QED
        BY <2>1, <2>4, <3>1, <4>1
    <3>2. CASE k \notin 1 .. Len(mem[u])
      <4>1. u = word /\ after # Last(word) /\ k = n + 1
        BY <1>2, <1>6, <3>2 DEF top
      <4>2. QED
        BY <1>5, <1>6, <2>5, <4>1
    <3>3. QED
      BY <3>1, <3>2
  <2>7. QED
    BY <1>7, <2>1, <2>2, <2>3, <2>6
<1>9. /\ mem' \in [Words -> Seq(Values)] /\ view' \in [Threads -> Views]
      /\ \A w \in Words :
             /\ Len(mem'[w]) = Len(m[w])
             /\ \A k \in 1 .. Len(m[w]) :
                    /\ mem'[w][k].value = m[w][k].value
                    /\ \A u \in Loaders(w) :
                           v[u].at[w] <= k => mem'[w][k].view.slots = m[w][k].view.slots
      /\ \A u \in Threads :
             /\ view'[u].slots = v[u].slots
             /\ \A w \in Words : /\ v[u].at[w] <= view'[u].at[w]
                                 /\ u \in Loaders(w) => view'[u].at[w] = v[u].at[w]
  BY <1>1, <1>6, <1>7, KeepLemma
<1>10. ASSUME NEW w \in Words
       PROVE  /\ \A u \in Threads : view'[u].at[w] <= Len(mem'[w])
              /\ \A u \in Words : \A k \in 1 .. Len(mem'[u]) : mem'[u][k].view.at[w] <= Len(mem'[w])
  <2>1. /\ \A u \in Threads : view'[u].at[w] <= Len(m[w])
        /\ \A u \in Words : \A k \in 1 .. Len(m[u]) :
               m[u][k].view.at[w] <= Len(m[w]) => mem'[u][k].view.at[w] <= Len(m[w])
    BY <1>1, <1>6, <1>7, <1>8, KeepLemma
  <2>2. QED
    BY <1>8, <1>9, <2>1
<1>11. /\ \A w \in Words \ {word} : Same(w)
       /\ IF after = Last(word) THEN Same(word) ELSE Grown(word, after)
  <2>1. ASSUME NEW w \in Words \ {word}
        PROVE  Same(w)
    BY <1>6, <1>9 DEF Same
  <2>2. CASE after = Last(word)
    BY <1>2, <1>6, <1>9, <2>1, <2>2 DEF Same, top
  <2>3. CASE after # Last(word)
    BY <1>2, <1>5, <1>6, <1>9, <2>1, <2>3 DEF Grown, top
  <2>4. QED
    BY <2>2, <2>3, <2>1
<1>12. MemoryInv'
  BY <1>9, <1>10, <1>11, MemoryKept
<1>13. Onward
  <2>1. ASSUME NEW u \in Threads, NEW w \in Words
        PROVE  view[u].at[w] <= view'[u].at[w]
    <3>1. view[u].at[w] <= v[u].at[w] /\ v[u].at[w] <= view'[u].at[w]
      BY <1>8, <1>9
    <3>2. view[u].at[w] \in Nat /\ v[u].at[w] \in Nat /\ view'[u].at[w] \in Nat
      BY <1>2, <1>7, <1>9 DEF Views
    <3>3. QED
      BY <3>1, <3>2
  <2>2. QED
    BY <2>1 DEF Onward
<1>14. Carries
  <2>1. ASSUME NEW w \in Words, NEW u \in Loaders(w), NEW k \in 1 .. Len(mem[w]), view'[u].at[w] <= k
        PROVE  mem'[w][k].view.slots = mem[w][k].view.slots
    <3>1. u \in Threads /\ v[u].at[w] <= k
      BY <1>9, <2>1 DEF Loaders, Threads
    <3>2. k \in 1 .. Len(m[w]) /\ m[w][k] = mem[w][k]
      BY <1>6, <1>8
    <3>3. QED
      BY <1>9, <3>1, <3>2
  <2>2. QED
    BY <2>1 DEF Carries
<1>15. Len(mem'[word]) = top /\ view'[t].at[word] = top /\ Last(word)' = after
  <2>1. Len(mem'[word]) = top
    BY <1>6, <1>9
  <2>2. view'[t].at[word] = top
    <3>1. v[t].at[word] = top /\ v[t].at[word] <= view'[t].at[word] /\ view'[t].at[word] <= top
      BY <1>3, <1>7, <1>9, <1>10, <2>1
    <3>2. view'[t].at[word] \in Nat
      BY <1>9 DEF Views
    <3>3. QED
      BY <1>2, <3>1, <3>2
  <2>3. mem'[word][top].value = after
    <3>1. top \in 1 .. Len(m[word]) /\ n \in 1 .. n
      BY <1>2, <1>6
    <3>2. mem'[word][top].value = m[word][top].value
      BY <1>9, <3>1
    <3>3. m[word][top].value = after
      <4>1. CASE after = Last(word)
        BY <1>6, <3>1, <4>1 DEF top, Last
      <4>2. CASE after # Last(word)
        BY <1>5, <1>6, <4>2 DEF top
      <4>3. QED
        BY <4>1, <4>2
    <3>4. QED
      BY <3>2, <3>3
  <2>4. QED
    BY <2>1, <2>2, <2>3 DEF Last
<1>16. ASSUME after # Last(word), release
       PROVE  view[t].slots \subseteq mem'[word][n + 1].view.slots
  <2>1. PICK u : u \in Loaders(word) /\ u \in Threads
    BY DEF Loaders, Lone, Threads
  <2>2. v[u].at[word] <= n + 1 /\ n + 1 \in 1 .. Len(m[word])
    BY <1>2, <1>6, <1>8, <1>16, <2>1 DEF top
  <2>3. mem'[word][n + 1].view.slots = m[word][n + 1].view.slots
    BY <1>9, <2>1, <2>2
  <2>4. QED
    BY <1>3, <1>4, <1>5, <1>6, <1>16, <2>3
<1>17. \A u \in Threads : view'[u].slots = view[u].slots
  BY <1>3, <1>7, <1>9
<1>18. QED
  BY <1>9, <1>11, <1>12, <1>13, <1>14, <1>15, <1>16, <1>17

(* After an access, all but the thread are yet to come after it.           *)
LEMMA AccessLemma ==
    ASSUME NEW p, NEW c, Lone(p, c), TypeOK, MemoryInv,
           NEW t \in Threads, NEW step, Slot(t) \in Blocks \X Slots, Access(t, step)
    PROVE  /\ mem' \in [Words -> Seq(Values)] /\ view' \in [Threads -> Views]
           /\ MemoryInv'
           /\ \A w \in Words : Same(w)
           /\ \A u \in Threads, w \in Words : view'[u].at[w] = view[u].at[w]
           /\ view'[t].slots = view[t].slots \cup {Slot(t)}
           /\ \A u \in Threads \ {t} : view'[u].slots = view[u].slots \ {Slot(t)}
           /\ \A w \in Words : \A k \in 1 .. Len(mem[w]) :
                  mem'[w][k].view.slots = mem[w][k].view.slots \ {Slot(t)}
<1> DEFINE Without(f) == [f EXCEPT !.slots = @ \ {Slot(t)}]
           With(f) == [f EXCEPT !.slots = @ \cup {Slot(t)}]
<1>1. /\ mem' = [w \in Words |-> [k \in DOMAIN mem[w] |-> [mem[w][k] EXCEPT !.view = Without(@)]]]
      /\ view' = [u \in Threads |-> IF u = t THEN With(view[t]) ELSE Without(view[u])]
  BY DEF Access
<1>2. ASSUME NEW f \in Views
      PROVE  /\ Without(f) \in Views /\ Without(f).slots = f.slots \ {Slot(t)} /\ Without(f).at = f.at
             /\ With(f) \in Views /\ With(f).slots = f.slots \cup {Slot(t)} /\ With(f).at = f.at
  <2>1. /\ f.at \in [Words -> Nat \ {0}] /\ f.slots \in SUBSET (Blocks \X Slots)
        /\ \A x : [f EXCEPT !.slots = x] = [at |-> f.at, slots |-> x]
    BY DEF Views
  <2>2. f.slots \ {Slot(t)} \in SUBSET (Blocks \X Slots) /\ f.slots \cup {Slot(t)} \in SUBSET (Blocks \X Slots)
    BY <2>1
  <2>3. QED
    BY <2>1, <2>2 DEF Views
<1> HIDE DEF Without, With
<1>3. \A w \in Words : /\ DOMAIN mem[w] = 1 .. Len(mem[w]) /\ Len(mem[w]) \in Nat \ {0}
                       /\ \A k \in 1 .. Len(mem[w]) : mem[w][k] \in Values
  BY WordLemma
<1>4. ASSUME NEW w \in Words, NEW k \in 1 .. Len(mem[w])
      PROVE  LET x == [mem[w][k] EXCEPT !.view = Without(@)]
             IN  /\ x \in Values /\ x.value = mem[w][k].value
                 /\ x.view = Without(mem[w][k].view)
  <2>1. /\ mem[w][k].value \in Pair /\ mem[w][k].view \in Views
        /\ \A x : [mem[w][k] EXCEPT !.view = x] = [value |-> mem[w][k].value, view |-> x]
    BY <1>3 DEF Values
  <2>2. Without(mem[w][k].view) \in Views
    BY <1>2, <2>1
  <2>3. QED
    BY <2>1, <2>2 DEF Values
<1>5. ASSUME NEW w \in Words
      PROVE  /\ mem'[w] \in Seq(Values) /\ Len(mem'[w]) = Len(mem[w])
             /\ \A k \in 1 .. Len(mem[w]) :
                    /\ mem'[w][k].value = mem[w][k].value
                    /\ mem'[w][k].view = Without(mem[w][k].view)
  <2>1. mem'[w] = [k \in 1 .. Len(mem[w]) |-> [mem[w][k] EXCEPT !.view = Without(@)]]
    BY <1>1, <1>3
  <2>2. mem'[w] \in [1 .. Len(mem[w]) -> Values]
    BY <1>4, <2>1
  <2>3. mem'[w] \in Seq(Values)
    BY <1>3, <2>2, SeqDef
  <2>4. Len(mem'[w]) = Len(mem[w])
    <3>1. 1 .. Len(mem'[w]) = 1 .. Len(mem[w]) /\ Len(mem'[w]) \in Nat /\ Len(mem[w]) \in Nat
      BY <1>3, <2>2, <2>3, LenProperties
    <3>2. QED
      BY <3>1
  <2>5. QED
    BY <1>4, <2>1, <2>2, <2>3, <2>4
<1>6. mem' \in [Words -> Seq(Values)] /\ view' \in [Threads -> Views]
  <2>1. DOMAIN mem' = Words /\ mem' = [w \in Words |-> mem'[w]] /\ view \in [Threads -> Views]
    BY <1>1 DEF TypeOK
  <2>2. QED
    BY <1>1, <1>2, <1>5, <2>1
<1>7. /\ \A w \in Words : Same(w)
      /\ \A w \in Words : \A k \in 1 .. Len(mem[w]) :
             /\ mem'[w][k].view.slots = mem[w][k].view.slots \ {Slot(t)}
             /\ mem'[w][k].view.at = mem[w][k].view.at
  <2>1. \A w \in Words : \A k \in 1 .. Len(mem[w]) : mem[w][k].view \in Views
    BY <1>3 DEF Values
  <2>2. QED
    BY <1>2, <1>5, <2>1 DEF Same
<1>8. /\ \A u \in Threads : view'[u].at = view[u].at
      /\ view'[t].slots = view[t].slots \cup {Slot(t)}
      /\ \A u \in Threads \ {t} : view'[u].slots = view[u].slots \ {Slot(t)}
  <2>1. view \in [Threads -> Views]
    BY DEF TypeOK
  <2>2. QED
    BY <1>1, <1>2, <2>1
<1>9. MemoryInv'
  <2>1. \A w \in Words :
            /\ \A u \in Threads : view[u].at[w] <= Len(mem[w])
            /\ \A u \in Words : \A k \in 1 .. Len(mem[u]) : mem[u][k].view.at[w] <= Len(mem[w])
    BY <1>3 DEF MemoryInv
  <2>2. QED
    BY <1>6, <1>7, <1>8, <2>1, MemoryKept DEF Same
<1>10. QED
  BY <1>6, <1>7, <1>8, <1>9
-----------------------------------------------------------------------------
(* A step with the memory it leaves: what the threads' views and the words *)
(* keep whatever the step does, but for accesses.                          *)
Memory == /\ mem' \in [Words -> Seq(Values)] /\ view' \in [Threads -> Views]
          /\ MemoryInv' /\ Onward /\ Carries

(* A step of t that writes no word.                                        *)
Loads(t) == /\ Memory
            /\ \A w \in Words : Same(w)
            /\ \A u \in Threads \ {t} : view'[u].slots = view[u].slots
            /\ view[t].slots \subseteq view'[t].slots

(* A step of t that leaves x in the word.                                  *)
Writes(t, word, x) == /\ Memory
                      /\ \A w \in Words \ {word} : Same(w)
                      /\ IF x = Last(word) THEN Same(word) ELSE Grown(word, x)
                      /\ Last(word)' = x
                      /\ view'[t].at[word] = Len(mem'[word])
                      /\ \A u \in Threads : view'[u].slots = view[u].slots

(* The words of the ring, and who loads them.                              *)
LEMMA WordNames ==
    ASSUME NEW p, NEW c, Lone(p, c)
    PROVE  /\ <<"phead", 0>> \in Words /\ <<"chead", 0>> \in Words
           /\ \A b \in Blocks : /\ <<"allocated", b>> \in Words /\ <<"committed", b>> \in Words
                                /\ <<"reserved", b>> \in Words /\ <<"consumed", b>> \in Words
                                /\ c \in Loaders(<<"committed", b>>)
                                /\ p \in Loaders(<<"consumed", b>>)
           /\ Threads = {p, c} /\ p \in Producers /\ c \in Consumers /\ p # c
  BY DEF Lone, Words, Loaders, Threads

(* A step that leaves memory alone is a load of nothing.                   *)
LEMMA LocalLemma ==
    ASSUME TypeOK, MemoryInv, UNCHANGED <<mem, view>>, NEW t
    PROVE  Loads(t)
<1>1. \A u \in Threads, w \in Words : view[u].at[w] \in Nat
  BY DEF TypeOK, Views
<1>2. MemoryInv'
  BY DEF MemoryInv
<1>3. QED
  BY <1>1, <1>2 DEF Loads, Memory, Same, Onward, Carries, TypeOK

(* The last value of a word that did not change.                           *)
LEMMA SameLast ==
    ASSUME TypeOK, MemoryInv, NEW w \in Words, Same(w)
    PROVE  Last(w)' = Last(w) /\ Len(mem'[w]) = Len(mem[w])
<1>1. Len(mem[w]) \in 1 .. Len(mem[w])
  BY WordLemma
<1>2. QED
  BY <1>1 DEF Same, Last

(* A thread's own word that it does not write it still finds at its end.   *)
LEMMA LatestKept ==
    ASSUME TypeOK, MemoryInv, Memory, NEW t \in Threads, NEW w \in Words, Same(w), Latest(t, w)
    PROVE  Latest(t, w)'
<1>1. view[t].at[w] <= view'[t].at[w] /\ view'[t].at[w] <= Len(mem'[w]) /\ Len(mem'[w]) = Len(mem[w])
  BY SameLast DEF Memory, MemoryInv, Onward
<1>2. view'[t].at[w] \in Nat /\ Len(mem[w]) \in Nat
  BY WordLemma DEF Memory, Views
<1>3. QED
  BY <1>1, <1>2 DEF Latest

(* The oldest value a thread can load is no more than the last, and only   *)
(* moves on.                                                               *)
LEMMA KnownLemma ==
    ASSUME TypeOK, MemoryInv, NEW t \in Threads, NEW w \in Words
    PROVE  /\ view[t].at[w] \in 1 .. Len(mem[w])
           /\ Known(t, w) \in Pair /\ AtMost(Known(t, w), Last(w))
           /\ \A k \in 1 .. Len(mem[w]) : view[t].at[w] <= k => AtMost(Known(t, w), mem[w][k].value)
<1>1. view[t].at[w] \in 1 .. Len(mem[w])
  BY WordLemma DEF TypeOK, Views, MemoryInv
<1>2. QED
  BY <1>1, WordLemma DEF Known, MemoryInv

(* What a thread can still load only grows.                                *)
LEMMA KnownOnward ==
    ASSUME TypeOK, MemoryInv, Memory, NEW t \in Threads, NEW w \in Words,
           Same(w) \/ \E x \in Pair : Grown(w, x)
    PROVE  AtMost(Known(t, w), Known(t, w)') /\ Known(t, w)' \in Pair
<1>1. view[t].at[w] \in 1 .. Len(mem[w]) /\ view[t].at[w] <= view'[t].at[w]
  BY KnownLemma DEF Memory, Onward
<1>2. mem'[w] \in Seq(Values) /\ DOMAIN mem'[w] = 1 .. Len(mem'[w]) /\ Len(mem'[w]) \in Nat
  BY LenProperties DEF Memory
<1>3. view'[t].at[w] \in 1 .. Len(mem'[w])
  <2>1. view'[t].at[w] \in Nat \ {0} /\ view'[t].at[w] <= Len(mem'[w])
    BY DEF Memory, MemoryInv, Views
  <2>2. QED
    BY <1>2, <2>1
<1>4. view[t].at[w] \in 1 .. Len(mem'[w]) /\ mem'[w][view[t].at[w]].value = Known(t, w)
  <2>1. Len(mem[w]) \in Nat /\ Len(mem[w]) <= Len(mem'[w])
    BY <1>2, WordLemma DEF Same, Grown
  <2>2. QED
    BY <1>1, <1>2, <2>1 DEF Same, Grown, Known
<1>5. AtMost(mem'[w][view[t].at[w]].value, mem'[w][view'[t].at[w]].value)
  BY <1>1, <1>2, <1>3, <1>4 DEF Memory, MemoryInv
<1>6. mem'[w][view'[t].at[w]] \in Values
  BY <1>2, <1>3, ElementOfSeq
<1>7. QED
  BY <1>4, <1>5, <1>6 DEF Known, Values

(* What a word carries to its reader stays, if the word does not change,   *)
LEMMA CarriedKept ==
    ASSUME NEW p, NEW c, Lone(p, c), TypeOK, MemoryInv, Memory, NEW name, NEW b, NEW s, NEW t \in Threads,
           <<name, b>> \in Words, t \in Loaders(<<name, b>>), Same(<<name, b>>),
           view[t].slots \subseteq view'[t].slots, Carried(t, name, b, s)
    PROVE  Carried(t, name, b, s)'
<1> DEFINE w == <<name, b>>
<1>1. /\ DOMAIN mem[w] = 1 .. Len(mem[w]) /\ Len(mem[w]) \in Nat
      /\ DOMAIN mem'[w] = 1 .. Len(mem[w])
  BY WordLemma, LenProperties DEF Memory, Same
<1>2. Last(w)' = Last(w)
  BY SameLast
<1>3. ASSUME NEW k \in DOMAIN mem'[w], view'[t].at[w] <= k,
             mem'[w][k].value.v = Last(w)'.v, s < mem'[w][k].value.i
      PROVE  <<b, s>> \in mem'[w][k].view.slots \cup view'[t].slots
  <2>1. mem'[w][k].value = mem[w][k].value /\ mem'[w][k].view.slots = mem[w][k].view.slots
    BY <1>1, <1>3 DEF Same, Carries, Memory
  <2>2. view[t].at[w] <= k
    <3>1. view[t].at[w] \in Nat /\ view'[t].at[w] \in Nat /\ view[t].at[w] <= view'[t].at[w] /\ k \in Nat
      BY <1>1 DEF TypeOK, Memory, Onward, Views
    <3>2. QED
      BY <1>3, <3>1
  <2>3. QED
    BY <1>1, <1>2, <1>3, <2>1, <2>2 DEF Carried
<1>4. QED
  BY <1>3 DEF Carried

(* if its writer counts a slot it comes after,                             *)
(* and if the word begins a new version.                                   *)
LEMMA CarriedWritten ==
    ASSUME NEW p, NEW c, Lone(p, c), TypeOK, MemoryInv, NEW name, NEW b, NEW s \in Nat, NEW t \in Threads,
           <<name, b>> \in Words, t \in Loaders(<<name, b>>), Carried(t, name, b, s),
           NEW u, NEW x \in Pair, Writes(u, <<name, b>>, x), AtMost(Last(<<name, b>>), x),
           \/ x.v > Last(<<name, b>>).v /\ x.i = 0
           \/ /\ x.v = Last(<<name, b>>).v
              /\ x # Last(<<name, b>>) =>
                     <<b, s>> \in mem'[<<name, b>>][Len(mem[<<name, b>>]) + 1].view.slots
    PROVE  Carried(t, name, b, s)'
<1> DEFINE w == <<name, b>>
           n == Len(mem[w])
<1>1. /\ DOMAIN mem[w] = 1 .. n /\ n \in Nat \ {0}
      /\ DOMAIN mem'[w] = 1 .. Len(mem'[w]) /\ Len(mem'[w]) \in {n, n + 1}
      /\ x = Last(w) => Len(mem'[w]) = n
  BY WordLemma, LenProperties DEF Memory, Writes, Same, Grown
<1>2. ASSUME NEW k \in DOMAIN mem'[w], view'[t].at[w] <= k,
             mem'[w][k].value.v = x.v, s < mem'[w][k].value.i
      PROVE  <<b, s>> \in mem'[w][k].view.slots \cup view'[t].slots
  <2>1. CASE k \in 1 .. n
    <3>1. mem'[w][k].value = mem[w][k].value /\ mem'[w][k].view.slots = mem[w][k].view.slots
      BY <1>1, <1>2, <2>1 DEF Same, Grown, Carries, Memory, Writes
    <3>2. view[t].at[w] <= k
      <4>1. view[t].at[w] \in Nat /\ view'[t].at[w] \in Nat /\ view[t].at[w] <= view'[t].at[w] /\ k \in Nat
        BY <1>1 DEF TypeOK, Memory, Onward, Views, Writes
      <4>2. QED
        BY <1>2, <4>1
    <3>3. AtMost(mem[w][k].value, Last(w)) /\ mem[w][k].value \in Pair /\ Last(w) \in Pair
      BY <2>1, WordLemma
    <3>4. x.v = Last(w).v
      BY <1>2, <3>1, <3>3 DEF AtMost, Pair
    <3>5. <<b, s>> \in mem[w][k].view.slots \cup view[t].slots
      BY <1>1, <1>2, <2>1, <3>1, <3>2, <3>4 DEF Carried
    <3>6. QED
      BY <3>1, <3>5 DEF Writes
  <2>2. CASE k = n + 1 /\ x # Last(w)
    <3>1. mem'[w][k].value = x
      BY <2>2 DEF Writes, Grown
    <3>2. QED
      BY <1>2, <2>2, <3>1
  <2>3. QED
    BY <1>1, <2>1, <2>2
<1>3. Last(w)' = x
  BY DEF Writes
<1>4. QED
  BY <1>2, <1>3 DEF Carried
-----------------------------------------------------------------------------
(* The ring of Mpmc has the sets and the pairs of this module.             *)
LEMMA RingNames ==
    /\ Ring!Blocks = Blocks /\ Ring!Slots = Slots /\ Ring!Threads = Threads /\ Ring!Pair = Pair
    /\ \A v, i : Ring!FromParts(v, i) = FromParts(v, i)
    /\ \A f, g : Ring!MaxPair(f, g) = MaxPair(f, g)
    /\ \A f : Ring!Incr(IndexSpan, f) = Incr(IndexSpan, f)
    /\ \A f : Ring!VersionIncAdd(NumBlocks, f) = VersionIncAdd(NumBlocks, f)
  BY DEF Ring!Blocks, Blocks, Ring!Slots, Slots, Ring!Threads, Threads, Ring!Pair, Pair,
         Ring!FromParts, FromParts, Ring!MaxPair, MaxPair, Ring!AtMost, AtMost, Ring!Incr, Incr,
         Ring!VersionIncAdd, VersionIncAdd

(* What the proof carries from state to state.                             *)
Holds(p, c) == Lone(p, c) /\ TypeOK /\ WeakInv

(* The parts that every lemma needs.                                       *)
LEMMA Parts ==
    ASSUME NEW p, NEW c, Holds(p, c)
    PROVE  Lone(p, c) /\ TypeOK /\ MemoryInv /\ p \in Threads /\ c \in Threads
  BY DEF Holds, WeakInv, Lone, Threads

(* All of it, spelled out.                                                 *)
LEMMA Facts ==
    ASSUME NEW p, NEW c, Holds(p, c)
    PROVE  /\ Lone(p, c) /\ TypeOK /\ MemoryInv
           /\ Threads = {p, c} /\ p \in Producers /\ c \in Consumers /\ p # c
           /\ Phead \in Heads /\ Chead \in Heads
           /\ \A b \in Blocks : /\ Allocated(b) \in Pair /\ Committed(b) \in Pair
                                /\ Reserved(b) \in Pair /\ Consumed(b) \in Pair
                                /\ Leads(b) /\ ProducerBlock(p, b) /\ ConsumerBlock(c, b)
                                /\ \A s \in Slots : /\ EntryHeld(b, s)
                                                    /\ ProducerSees(p, b, s) /\ ConsumerSees(c, b, s)
           /\ ProducerKnows(p) /\ ConsumerKnows(c)
           /\ \A t \in Threads : /\ head[t] \in Heads /\ seen[t] \in Pair
                                 /\ Block(t) = head[t].i /\ Block(t) \in Blocks
                                 /\ NextBlock(t) = After(head[t]) /\ NextBlock(t) \in Blocks
                                 /\ NextBlock(t) # Block(t)
                                 /\ Opening(t) = FromParts(head[t].v + 1, 0) /\ Opening(t) \in Pair
<1>1. Lone(p, c) /\ TypeOK /\ WeakInv
  BY DEF Holds
<1>2. Threads = {p, c} /\ p \in Producers /\ c \in Consumers /\ p # c
  BY <1>1, WordNames
<1>3. Phead \in Heads /\ Chead \in Heads /\ head \in [Threads -> Heads] /\ seen \in [Threads -> Pair]
  <2>1. Ring!TypeOK
    BY <1>1 DEF TypeOK
  <2>2. QED
    BY <2>1, RingNames DEF Ring!TypeOK, Heads, Phead, Chead
<1>4. \A b \in Blocks : /\ Allocated(b) \in Pair /\ Committed(b) \in Pair
                        /\ Reserved(b) \in Pair /\ Consumed(b) \in Pair
  BY <1>1, WordNames, WordLemma DEF WeakInv, Allocated, Committed, Reserved, Consumed
<1>5. ASSUME NEW t \in Threads
      PROVE  /\ Block(t) = head[t].i /\ Block(t) \in Blocks
             /\ NextBlock(t) = After(head[t]) /\ NextBlock(t) \in Blocks
             /\ NextBlock(t) # Block(t)
             /\ Opening(t) = FromParts(head[t].v + 1, 0) /\ Opening(t) \in Pair
  <2>1. head[t] \in Heads
    BY <1>3
  <2>2. Block(t) = head[t].i /\ NextBlock(t) = After(head[t]) /\ Opening(t) = FromParts(head[t].v + 1, 0)
    BY RingNames DEF Block, Ring!Block, NextBlock, Ring!NextBlock, After, Opening, Ring!Opening
  <2>3. QED
    <3>1. head[t].i \in Blocks /\ After(head[t]) \in Blocks /\ After(head[t]) # head[t].i /\ head[t].v \in Nat
      BY <2>1, HeadLemma
    <3>2. QED
      BY <2>2, <3>1 DEF FromParts, Pair
<1>6. QED
  BY <1>1, <1>2, <1>3, <1>4, <1>5 DEF WeakInv

(* And put together again.                                                 *)
LEMMA Assemble ==
    ASSUME NEW p, NEW c, Lone(p, c), MemoryInv',
           \A b \in Blocks : /\ Leads(b)' /\ ProducerBlock(p, b)' /\ ConsumerBlock(c, b)'
                             /\ \A s \in Slots : /\ EntryHeld(b, s)'
                                                 /\ ProducerSees(p, b, s)' /\ ConsumerSees(c, b, s)',
           ProducerKnows(p)', ConsumerKnows(c)'
    PROVE  WeakInv'
<1>1. /\ \A q \in Producers : q = p
      /\ \A d \in Consumers : d = c
  BY DEF Lone
<1>2. QED
  BY <1>1 DEF WeakInv

(* The locals of a thread stay.                                            *)
Idles(t) == pc'[t] = pc[t] /\ head'[t] = head[t] /\ seen'[t] = seen[t]

(* A thread that keeps its locals keeps all that is made of them.          *)
LEMMA IdlesLemma ==
    ASSUME NEW t, Idles(t)
    PROVE  /\ Block(t)' = Block(t) /\ NextBlock(t)' = NextBlock(t) /\ Opening(t)' = Opening(t)
           /\ Slot(t)' = Slot(t)
           /\ \A steps, b : At(t, steps, b)' = At(t, steps, b)
           /\ \A step, b : Opens(t, step, b)' = Opens(t, step, b)
<1>1. /\ Block(t)' = Block(t) /\ NextBlock(t)' = NextBlock(t) /\ Opening(t)' = Opening(t)
      /\ Slot(t)' = Slot(t)
  BY DEF Idles, Block, Ring!Block, NextBlock, Ring!NextBlock, Opening, Ring!Opening, Slot
<1>2. QED
  BY <1>1 DEF Idles, At, Opens

(* A step of the producer leaves the consumer what it knows.               *)
LEMMA ConsumerKept ==
    ASSUME NEW p, NEW c, Holds(p, c), Memory, Idles(c), Same(<<"chead", 0>>),
           \A b \in Blocks : /\ Same(<<"reserved", b>>) /\ Same(<<"consumed", b>>)
                             /\ Same(<<"committed", b>>) \/ \E x \in Pair : Grown(<<"committed", b>>, x)
    PROVE  ConsumerKnows(c)' /\ \A b \in Blocks : ConsumerBlock(c, b)'
<1>0. Lone(p, c) /\ TypeOK /\ MemoryInv /\ c \in Threads
  BY Parts
<1>1. Chead' = Chead /\ \A b \in Blocks : Reserved(b)' = Reserved(b) /\ Consumed(b)' = Consumed(b)
  BY <1>0, SameLast, WordNames DEF Chead, Reserved, Consumed
<1>2. Latest(c, <<"chead", 0>>)' /\ \A b \in Blocks : Latest(c, <<"reserved", b>>)'
  <2>1. Latest(c, <<"chead", 0>>) /\ \A b \in Blocks : Latest(c, <<"reserved", b>>)
    BY Facts DEF ConsumerKnows, ConsumerBlock
  <2>2. QED
    BY <1>0, <2>1, LatestKept, WordNames
<1>3. \A b \in Blocks, f \in Pair :
          AtMost(f, Known(c, <<"committed", b>>)) => AtMost(f, Known(c, <<"committed", b>>)')
  <2>1. ASSUME NEW b \in Blocks, NEW f \in Pair, AtMost(f, Known(c, <<"committed", b>>))
        PROVE  AtMost(f, Known(c, <<"committed", b>>)')
    <3>1. <<"committed", b>> \in Words
      BY <1>0, WordNames
    <3>2. /\ Known(c, <<"committed", b>>) \in Pair /\ Known(c, <<"committed", b>>)' \in Pair
          /\ AtMost(Known(c, <<"committed", b>>), Known(c, <<"committed", b>>)')
      BY <1>0, <3>1, KnownLemma, KnownOnward
    <3>3. QED
      BY <2>1, <3>2, AtMostIsOrder
  <2>2. QED
    BY <2>1
<1>4. /\ seen[c] \in Pair /\ Opening(c) \in Pair /\ Block(c) \in Blocks
      /\ \A b \in Blocks : Reserved(b) \in Pair /\ ConsumerBlock(c, b)
      /\ ConsumerKnows(c)
  BY Facts
<1>5. FromParts(seen[c].v, seen[c].i + 1) \in Pair
  BY <1>4 DEF FromParts, Pair
<1>6. PoppedTo(c)' = PoppedTo(c)
  BY <1>1 DEF PoppedTo, Idles
<1>7. ConsumerKnows(c)'
  BY <1>1, <1>2, <1>3, <1>4, <1>5, IdlesLemma DEF ConsumerKnows, Idles
<1>8. ASSUME NEW b \in Blocks
      PROVE  ConsumerBlock(c, b)'
  <2>1. ConsumerBlock(c, b) /\ Reserved(b) \in Pair
    BY <1>4
  <2>2. /\ At(c, {"consume", "release"}, b)' = At(c, {"consume", "release"}, b)
        /\ Opens(c, "max_consumed", b)' = Opens(c, "max_consumed", b)
        /\ Opens(c, "reset_reserved", b)' = Opens(c, "reset_reserved", b)
        /\ Opening(c)' = Opening(c) /\ seen'[c] = seen[c]
    BY IdlesLemma DEF Idles
  <2>3. /\ AtMost(Reserved(b), Known(c, <<"committed", b>>)')
        /\ Opens(c, "max_consumed", b) \/ Opens(c, "reset_reserved", b) =>
               AtMost(Opening(c), Known(c, <<"committed", b>>)')
    BY <1>3, <1>4, <2>1 DEF ConsumerBlock
  <2>4. QED
    BY <1>1, <1>2, <1>6, <2>1, <2>2, <2>3 DEF ConsumerBlock
<1>9. QED
  BY <1>7, <1>8

(* A step of the consumer leaves the producer what it knows.               *)
LEMMA ProducerKept ==
    ASSUME NEW p, NEW c, Holds(p, c), Memory, Idles(p), Same(<<"phead", 0>>),
           \A b \in Blocks : /\ Same(<<"allocated", b>>) /\ Same(<<"committed", b>>)
                             /\ Consumed(b)' \in Pair /\ AtMost(Consumed(b), Consumed(b)')
    PROVE  ProducerKnows(p)' /\ \A b \in Blocks : ProducerBlock(p, b)'
<1>0. Lone(p, c) /\ TypeOK /\ MemoryInv /\ p \in Threads
  BY Parts
<1>1. Phead' = Phead /\ \A b \in Blocks : Allocated(b)' = Allocated(b) /\ Committed(b)' = Committed(b)
  BY <1>0, SameLast, WordNames DEF Phead, Allocated, Committed
<1>2. Latest(p, <<"phead", 0>>)' /\ \A b \in Blocks : Latest(p, <<"allocated", b>>)'
  <2>1. Latest(p, <<"phead", 0>>) /\ \A b \in Blocks : Latest(p, <<"allocated", b>>)
    BY Facts DEF ProducerKnows, ProducerBlock
  <2>2. QED
    BY <1>0, <2>1, LatestKept, WordNames
<1>3. PushedTo(p)' = PushedTo(p)
  BY <1>1 DEF PushedTo, Idles
<1>4. ProducerKnows(p)'
  <2>1. ProducerKnows(p) /\ Block(p) \in Blocks
    BY <1>0, Facts
  <2>2. QED
    BY <1>1, <1>2, <2>1, IdlesLemma DEF ProducerKnows, Idles
<1>5. ASSUME NEW b \in Blocks
      PROVE  ProducerBlock(p, b)'
  <2>1. ProducerBlock(p, b) /\ Consumed(b) \in Pair /\ Consumed(b)' \in Pair /\ head[p] \in Heads
    BY Facts
  <2>2. /\ At(p, {"produce", "commit"}, b)' = At(p, {"produce", "commit"}, b)
        /\ Opens(p, "max_committed", b)' = Opens(p, "max_committed", b)
        /\ Opens(p, "max_allocated", b)' = Opens(p, "max_allocated", b)
        /\ Opening(p)' = Opening(p) /\ seen'[p] = seen[p] /\ head'[p] = head[p]
    BY IdlesLemma DEF Idles
  <2>3. FromParts(head[p].v, BlockSize) \in Pair
    BY <2>1 DEF FromParts, Pair, Heads
  <2>4. AtMost(FromParts(head[p].v, BlockSize), Consumed(b)) =>
            AtMost(FromParts(head[p].v, BlockSize), Consumed(b)')
    BY <2>1, <2>3, AtMostIsOrder
  <2>5. QED
    BY <1>1, <1>2, <1>3, <2>1, <2>2, <2>4 DEF ProducerBlock
<1>6. QED
  BY <1>4, <1>5
-----------------------------------------------------------------------------
(* A thread goes on to step x with what it has loaded so far.              *)
Moves(t, x, h, s) == /\ pc' = [pc EXCEPT ![t] = x]
                     /\ head' = [head EXCEPT ![t] = h]
                     /\ seen' = [seen EXCEPT ![t] = s]
                     /\ mark' \in [Consumers -> Pair]

(* The types of what a step of t may change.                               *)
LEMMA TypesKept ==
    ASSUME NEW p, NEW c, Holds(p, c), mem' \in [Words -> Seq(Values)], view' \in [Threads -> Views],
           MemoryInv', Phead' \in Heads, Chead' \in Heads,
           entries' \in [Blocks -> [Slots -> Nat \cup {-1}]],
           NEW t \in Threads, NEW h \in Heads, NEW s \in Pair, NEW x,
           t \in Producers => x \in Ring!ProducerSteps,
           t \in Consumers => x \in Ring!ConsumerSteps,
           Moves(t, x, h, s)
    PROVE  TypeOK'
<1>0. Lone(p, c) /\ TypeOK /\ MemoryInv
  BY Parts
<1>1. Ring!TypeOK /\ Ring!Absent = -1
  BY <1>0 DEF TypeOK, Ring!Absent
<1>2. ASSUME NEW w \in Words
      PROVE  Last(w)' \in Pair
  <2>1. mem'[w] \in Seq(Values) /\ mem'[w] # <<>>
    BY DEF MemoryInv
  <2>2. Len(mem'[w]) \in 1 .. Len(mem'[w])
    BY <2>1, EmptySeq, LenProperties
  <2>3. mem'[w][Len(mem'[w])] \in Values
    BY <2>1, <2>2, ElementOfSeq
  <2>4. QED
    BY <2>3 DEF Last, Values
<1>3. /\ [b \in Blocks |-> Last(<<"allocated", b>>)]' \in [Blocks -> Pair]
      /\ [b \in Blocks |-> Last(<<"committed", b>>)]' \in [Blocks -> Pair]
      /\ [b \in Blocks |-> Last(<<"reserved", b>>)]' \in [Blocks -> Pair]
      /\ [b \in Blocks |-> Last(<<"consumed", b>>)]' \in [Blocks -> Pair]
  BY <1>0, <1>2, WordNames
<1>4. /\ head' \in [Threads -> Heads] /\ seen' \in [Threads -> Pair]
      /\ pc' \in [Threads -> Ring!ProducerSteps \cup Ring!ConsumerSteps]
      /\ \A q \in Producers : pc'[q] \in Ring!ProducerSteps
      /\ \A d \in Consumers : pc'[d] \in Ring!ConsumerSteps
      /\ mark' \in [Consumers -> Pair]
  <2>1. /\ head \in [Threads -> Heads] /\ seen \in [Threads -> Pair]
        /\ pc \in [Threads -> Ring!ProducerSteps \cup Ring!ConsumerSteps]
        /\ \A q \in Producers : pc[q] \in Ring!ProducerSteps
        /\ \A d \in Consumers : pc[d] \in Ring!ConsumerSteps
    BY <1>1, RingNames DEF Ring!TypeOK, Heads
  <2>2. x \in Ring!ProducerSteps \cup Ring!ConsumerSteps
    BY DEF Threads
  <2>3. QED
    BY <2>1, <2>2 DEF Moves, Threads
<1>5. Ring!TypeOK'
  BY <1>1, <1>3, <1>4, RingNames DEF Ring!TypeOK, Heads, Phead, Chead
<1>6. QED
  BY <1>5 DEF TypeOK

(* The same for the memory that Memory describes.                          *)
LEMMA MovesLemma ==
    ASSUME NEW p, NEW c, Holds(p, c), Memory, Phead' \in Heads, Chead' \in Heads,
           entries' \in [Blocks -> [Slots -> Nat \cup {-1}]],
           NEW t \in Threads, NEW h \in Heads, NEW s \in Pair, NEW x,
           t \in Producers => x \in Ring!ProducerSteps,
           t \in Consumers => x \in Ring!ConsumerSteps,
           Moves(t, x, h, s)
    PROVE  TypeOK'
  BY TypesKept DEF Memory

(* The locals of t after its step, and those of the other thread.          *)
LEMMA MovesTo ==
    ASSUME NEW p, NEW c, Holds(p, c), NEW t \in Threads, NEW h, NEW s, NEW x, Moves(t, x, h, s)
    PROVE  /\ pc'[t] = x /\ head'[t] = h /\ seen'[t] = s
           /\ Block(t)' = h.i /\ NextBlock(t)' = After(h) /\ Opening(t)' = FromParts(h.v + 1, 0)
           /\ Slot(t)' = <<h.i, s.i>>
           /\ \A u \in Threads \ {t} : Idles(u)
<1>1. Ring!TypeOK
  BY Parts DEF TypeOK
<1>2. /\ DOMAIN pc = Threads /\ DOMAIN head = Threads /\ DOMAIN seen = Threads
  BY <1>1, RingNames DEF Ring!TypeOK
<1>3. /\ pc'[t] = x /\ head'[t] = h /\ seen'[t] = s
      /\ \A u \in Threads \ {t} : Idles(u)
  BY <1>2 DEF Moves, Idles
<1>4. QED
  BY <1>3, RingNames DEF Block, Ring!Block, NextBlock, Ring!NextBlock, After, Opening, Ring!Opening, Slot

(* What a load finds is no less than the thread will find from then on.    *)
LEMMA LoadEffect ==
    ASSUME NEW p, NEW c, Holds(p, c),
           NEW t \in Threads, NEW word \in Words, NEW k \in DOMAIN mem[word],
           NEW step, NEW acquire \in BOOLEAN, Load(t, step, word, k, acquire)
    PROVE  /\ Loads(t) /\ pc[t] = step
           /\ k \in 1 .. Len(mem[word]) /\ view[t].at[word] <= k
           /\ mem[word][k].value \in Pair /\ AtMost(Known(t, word), mem[word][k].value)
           /\ AtMost(mem[word][k].value, Last(word))
           /\ AtMost(mem[word][k].value, Known(t, word)') /\ Known(t, word)' \in Pair
           /\ Latest(t, word) => mem[word][k].value = Last(word)
           /\ acquire => mem[word][k].view.slots \subseteq view'[t].slots
<1>0. Lone(p, c) /\ TypeOK /\ MemoryInv
  BY Parts
<1>1. /\ Loads(t) /\ pc[t] = step /\ view[t].at[word] <= k /\ k <= view'[t].at[word]
      /\ acquire => mem[word][k].view.slots \subseteq view'[t].slots
  BY <1>0, LoadLemma DEF Loads, Memory, Load
<1>2. /\ k \in 1 .. Len(mem[word]) /\ Len(mem[word]) \in Nat
      /\ mem[word][k].value \in Pair /\ AtMost(mem[word][k].value, Last(word))
  BY <1>0, WordLemma
<1>3. AtMost(Known(t, word), mem[word][k].value)
  BY <1>0, <1>1, <1>2, KnownLemma
<1>4. Known(t, word)' \in Pair
  BY <1>0, <1>1, KnownOnward DEF Loads
<1>5. AtMost(mem[word][k].value, Known(t, word)')
  <2>1. Len(mem'[word]) = Len(mem[word]) /\ DOMAIN mem'[word] = 1 .. Len(mem[word])
    BY <1>1, LenProperties DEF Loads, Same, Memory
  <2>2. view'[t].at[word] \in 1 .. Len(mem[word])
    BY <1>1, <2>1 DEF Loads, Memory, MemoryInv, Views
  <2>3. AtMost(mem'[word][k].value, mem'[word][view'[t].at[word]].value)
    BY <1>1, <1>2, <2>1, <2>2 DEF Loads, Memory, MemoryInv
  <2>4. mem'[word][k].value = mem[word][k].value
    BY <1>1, <1>2 DEF Loads, Same
  <2>5. QED
    BY <2>3, <2>4 DEF Known
<1>6. Latest(t, word) => mem[word][k].value = Last(word)
  BY <1>1, <1>2 DEF Latest, Last
<1>7. QED
  BY <1>1, <1>2, <1>3, <1>4, <1>5, <1>6
-----------------------------------------------------------------------------
(* A step of the producer that writes nothing.                             *)
LEMMA QuietPush ==
    ASSUME NEW p, NEW c, Holds(p, c), Loads(p), Idles(c), entries' = entries,
           pc[p] \in {"idle", "load_phead", "load_allocated", "check_consumed", "check_reserved"},
           pc'[p] \in {"idle", "load_phead", "load_allocated", "add_allocated",
                       "check_consumed", "check_reserved", "max_committed"},
           NEW h, head'[p] = h,
           pc'[p] \notin {"idle", "load_phead"} => h = Phead,
           pc'[p] = "add_allocated" => Allocated(h.i).i < BlockSize,
           pc'[p] \in {"check_consumed", "check_reserved", "max_committed"} =>
               Allocated(h.i).i = BlockSize,
           \A b \in Blocks : pc'[p] = "max_committed" /\ After(h) = b =>
               /\ AtMost(FromParts(h.v, BlockSize), Consumed(b))
               /\ \A s \in Slots : <<b, s>> \in view'[p].slots
    PROVE  WeakInv'
<1>0. /\ Lone(p, c) /\ TypeOK /\ MemoryInv /\ p \in Threads /\ c \in Threads /\ p # c
      /\ Memory /\ MemoryInv' /\ \A w \in Words : Same(w)
      /\ view[p].slots \subseteq view'[p].slots /\ view'[c].slots = view[c].slots
  BY Parts, WordNames DEF Loads, Memory
<1>1. /\ Phead' = Phead
      /\ \A b \in Blocks : /\ Allocated(b)' = Allocated(b) /\ Committed(b)' = Committed(b)
                           /\ Reserved(b)' = Reserved(b) /\ Consumed(b)' = Consumed(b)
  BY <1>0, SameLast, WordNames DEF Phead, Allocated, Committed, Reserved, Consumed
<1>2. ConsumerKnows(c)' /\ \A b \in Blocks : ConsumerBlock(c, b)'
  BY <1>0, ConsumerKept, WordNames
<1>3. Latest(p, <<"phead", 0>>)' /\ \A b \in Blocks : Latest(p, <<"allocated", b>>)'
  <2>1. Latest(p, <<"phead", 0>>) /\ \A b \in Blocks : Latest(p, <<"allocated", b>>)
    BY Facts DEF ProducerKnows, ProducerBlock
  <2>2. QED
    BY <1>0, <2>1, LatestKept, WordNames
<1>4. ProducerKnows(p)'
  <2>1. pc'[p] \notin {"max_allocated", "max_phead"}
    OBVIOUS
  <2>2. Block(p)' = h.i
    BY DEF Block, Ring!Block
  <2>3. Phead.i \in Blocks
    BY Facts, HeadLemma
  <2>4. pc'[p] = "add_allocated" => Allocated(Block(p))'.i < BlockSize
    BY <1>1, <2>2, <2>3
  <2>5. pc'[p] \in {"check_consumed", "check_reserved", "max_committed"} =>
            Allocated(Block(p))'.i = BlockSize
    BY <1>1, <2>2, <2>3
  <2>6. QED
    BY <1>1, <1>3, <2>1, <2>4, <2>5 DEF ProducerKnows
<1>5. ASSUME NEW b \in Blocks
      PROVE  ProducerBlock(p, b)'
  <2>1. ProducerBlock(p, b)
    BY Facts
  <2>2. PushedTo(p)' = PushedTo(p)
    BY <1>1 DEF PushedTo
  <2>3. /\ ~ At(p, {"produce", "commit"}, b) /\ ~ Opens(p, "max_allocated", b)
        /\ ~ At(p, {"produce", "commit"}, b)' /\ ~ Opens(p, "max_allocated", b)'
    BY DEF At, Opens
  <2>4. Opens(p, "max_committed", b)' => pc'[p] = "max_committed" /\ After(h) = b
    BY DEF Opens, NextBlock, Ring!NextBlock, After
  <2>5. QED
    BY <1>1, <1>3, <2>1, <2>2, <2>3, <2>4 DEF ProducerBlock
<1>6. ASSUME NEW b \in Blocks
      PROVE  /\ Leads(b)'
             /\ \A s \in Slots : EntryHeld(b, s)' /\ ProducerSees(p, b, s)' /\ ConsumerSees(c, b, s)'
  <2>1. Leads(b)'
    BY <1>1, Facts DEF Leads
  <2>2. ASSUME NEW s \in Slots
        PROVE  EntryHeld(b, s)'
    <3>1. EntryHeld(b, s)
      BY Facts
    <3>2. Slot(c)' = Slot(c) /\ pc'[c] = pc[c]
      BY IdlesLemma DEF Idles
    <3>3. Filled(b, s)' <=> Filled(b, s)
      BY <1>0, <1>1, <3>2 DEF Filled, Lone
    <3>4. QED
      BY <1>1, <3>1, <3>3 DEF EntryHeld
  <2>3. ASSUME NEW s \in Slots
        PROVE  ProducerSees(p, b, s)'
    <3>1. ProducerSees(p, b, s)
      BY Facts
    <3>2. entries[b][s] = -1 => Carried(p, "consumed", b, s)'
      BY <1>0, <3>1, CarriedKept, WordNames DEF ProducerSees
    <3>3. pc'[p] # "produce" /\ ~ Opens(p, "max_allocated", b)'
      BY DEF Opens
    <3>4. Opens(p, "max_committed", b)' => pc'[p] = "max_committed" /\ After(h) = b
      BY DEF Opens, NextBlock, Ring!NextBlock, After
    <3>5. QED
      BY <1>0, <1>1, <3>1, <3>2, <3>3, <3>4 DEF ProducerSees
  <2>4. ASSUME NEW s \in Slots
        PROVE  ConsumerSees(c, b, s)'
    <3>1. ConsumerSees(c, b, s)
      BY Facts
    <3>2. entries[b][s] # -1 => Carried(c, "committed", b, s)'
      BY <1>0, <3>1, CarriedKept, WordNames DEF ConsumerSees
    <3>3. Slot(c)' = Slot(c) /\ pc'[c] = pc[c]
      BY IdlesLemma DEF Idles
    <3>4. QED
      BY <1>0, <3>1, <3>2, <3>3 DEF ConsumerSees
  <2>5. QED
    BY <2>1, <2>2, <2>3, <2>4
<1>7. QED
  BY <1>0, <1>2, <1>4, <1>5, <1>6, Assemble
-----------------------------------------------------------------------------
(* The words of a block that hold what the ring is doing.                  *)
LEMMA NextLemma ==
    ASSUME NEW p, NEW c, Holds(p, c)
    PROVE  /\ Phead.v \in Nat /\ Phead.i \in Blocks /\ Chead.v \in Nat /\ Chead.i \in Blocks
           /\ After(Phead) \in Blocks /\ After(Phead) # Phead.i
           /\ After(Chead) \in Blocks /\ After(Chead) # Chead.i
           /\ pc[p] \notin {"max_phead"} => Allocated(After(Phead)) = FromParts(Phead.v, BlockSize)
           /\ pc[c] \notin {"max_chead"} => Reserved(After(Chead)) = FromParts(Chead.v, BlockSize)
           /\ \A b \in Blocks : /\ Consumed(b).i <= BlockSize
                                /\ AtMost(Consumed(b), Committed(b))
                                /\ AtMost(Reserved(b), Committed(b))
                                /\ Consumed(b).i < BlockSize => Consumed(b).v = Committed(b).v
<1>0. /\ Lone(p, c) /\ TypeOK /\ MemoryInv /\ p \in Threads /\ c \in Threads
      /\ Phead \in Heads /\ Chead \in Heads
  BY Parts, Facts
<1>1. /\ Phead.v \in Nat /\ Phead.i \in Blocks /\ Chead.v \in Nat /\ Chead.i \in Blocks
      /\ After(Phead) \in Blocks /\ After(Phead) # Phead.i
      /\ After(Chead) \in Blocks /\ After(Chead) # Chead.i
      /\ VersionAt(After(Phead), Phead) = Phead.v /\ VersionAt(After(Chead), Chead) = Chead.v
  BY <1>0, HeadLemma
<1>2. \A f \in Pair : f = FromParts(f.v, f.i)
  BY DEF Pair, FromParts
<1>3. ASSUME pc[p] # "max_phead"
      PROVE  Allocated(After(Phead)) = FromParts(Phead.v, BlockSize)
  <2>1. ComeTo(Allocated(After(Phead)), After(Phead), Phead) /\ Allocated(After(Phead)) \in Pair
    BY <1>1, <1>3, Facts DEF ProducerBlock, PushedTo
  <2>2. QED
    BY <1>1, <1>2, <2>1 DEF ComeTo
<1>4. ASSUME pc[c] # "max_chead"
      PROVE  Reserved(After(Chead)) = FromParts(Chead.v, BlockSize)
  <2>1. ComeTo(Reserved(After(Chead)), After(Chead), Chead) /\ Reserved(After(Chead)) \in Pair
    BY <1>1, <1>4, Facts DEF ConsumerBlock, PoppedTo
  <2>2. QED
    BY <1>1, <1>2, <2>1 DEF ComeTo
<1>5. ASSUME NEW b \in Blocks
      PROVE  /\ Consumed(b).i <= BlockSize
             /\ AtMost(Consumed(b), Committed(b))
             /\ AtMost(Reserved(b), Committed(b))
             /\ Consumed(b).i < BlockSize => Consumed(b).v = Committed(b).v
  <2>1. /\ ConsumerBlock(c, b) /\ Leads(b) /\ Reserved(b) \in Pair /\ Consumed(b) \in Pair
        /\ Committed(b) \in Pair /\ seen[c] \in Pair /\ Opening(c) = FromParts(head[c].v + 1, 0)
        /\ Opening(c) \in Pair
    BY <1>0, Facts
  <2>2. Known(c, <<"committed", b>>) \in Pair /\ AtMost(Known(c, <<"committed", b>>), Committed(b))
    BY <1>0, KnownLemma, WordNames DEF Committed
  <2>3. AtMost(Reserved(b), Committed(b))
    BY <2>1, <2>2, AtMostIsOrder DEF ConsumerBlock
  <2>4. CASE At(c, {"consume", "release"}, b)
    BY <2>1, <2>3, <2>4 DEF ConsumerBlock, FromParts, AtMost, Pair, Leads
  <2>5. CASE ~ At(c, {"consume", "release"}, b) /\ Opens(c, "reset_reserved", b)
    <3>1. AtMost(Opening(c), Committed(b))
      BY <2>1, <2>2, <2>5, AtMostIsOrder DEF ConsumerBlock
    <3>2. Consumed(b) = Opening(c) /\ Consumed(b).i = 0
      BY <2>1, <2>5 DEF ConsumerBlock, FromParts
    <3>3. QED
      BY <2>1, <2>3, <3>1, <3>2 DEF Leads
  <2>6. CASE ~ At(c, {"consume", "release"}, b) /\ ~ Opens(c, "reset_reserved", b)
    <3>1. Consumed(b) = Reserved(b) /\ Reserved(b).i <= BlockSize
      BY <2>1, <2>6 DEF ConsumerBlock
    <3>2. QED
      BY <2>1, <2>3, <3>1 DEF Leads
  <2>7. QED
    BY <2>4, <2>5, <2>6
<1>6. QED
  BY <1>1, <1>3, <1>4, <1>5

(* The types of the locals.                                                *)
LEMMA Locals ==
    ASSUME NEW p, NEW c, Holds(p, c)
    PROVE  /\ head = [head EXCEPT ![p] = head[p]] /\ head = [head EXCEPT ![c] = head[c]]
           /\ seen = [seen EXCEPT ![p] = seen[p]] /\ seen = [seen EXCEPT ![c] = seen[c]]
           /\ mark \in [Consumers -> Pair]
           /\ entries \in [Blocks -> [Slots -> Nat \cup {-1}]]
           /\ Zero \in Heads /\ Zero \in Pair
<1>1. Ring!TypeOK
  BY Parts DEF TypeOK
<1>2. Zero \in Heads /\ Zero \in Pair
  BY DEF Zero, FromParts, Heads, Pair, Blocks
<1>3. QED
  BY <1>1, <1>2, RingNames DEF Ring!TypeOK, Ring!Absent

(* QuietPush with the locals given by the step.                            *)
LEMMA QuietPushStep ==
    ASSUME NEW p, NEW c, Holds(p, c), Loads(p), NEW x, NEW h \in Heads, NEW s \in Pair, Moves(p, x, h, s),
           entries' = entries,
           pc[p] \in {"idle", "load_phead", "load_allocated", "check_consumed", "check_reserved"},
           x \in {"idle", "load_phead", "load_allocated", "add_allocated",
                  "check_consumed", "check_reserved", "max_committed"},
           x \notin {"idle", "load_phead"} => h = Phead,
           x = "add_allocated" => Allocated(h.i).i < BlockSize,
           x \in {"check_consumed", "check_reserved", "max_committed"} => Allocated(h.i).i = BlockSize,
           x = "max_committed" =>
               /\ AtMost(FromParts(h.v, BlockSize), Consumed(After(h)))
               /\ \A k \in Slots : <<After(h), k>> \in view'[p].slots
    PROVE  Holds(p, c)'
<1>0. Lone(p, c) /\ TypeOK /\ MemoryInv /\ p \in Threads /\ c \in Threads /\ p # c
  BY Parts, WordNames
<1>1. pc'[p] = x /\ head'[p] = h /\ Idles(c)
  BY <1>0, MovesTo
<1>2. WeakInv'
  BY <1>1, QuietPush
<1>3. TypeOK'
  <2>1. Phead' = Phead /\ Chead' = Chead /\ Memory
    BY <1>0, SameLast, WordNames DEF Phead, Chead, Loads
  <2>2. x \in Ring!ProducerSteps /\ p \notin Consumers
    BY <1>0 DEF Ring!ProducerSteps, Lone
  <2>3. Phead \in Heads /\ Chead \in Heads
    BY <1>0, Facts
  <2>4. QED
    BY <1>0, <2>1, <2>2, <2>3, Locals, MovesLemma
<1>4. QED
  BY <1>0, <1>2, <1>3 DEF Holds, Lone

(* The loads of a push, one by one.                                        *)
LEMMA StartPushKeeps ==
    ASSUME NEW p, NEW c, Holds(p, c), StartPush(p)
    PROVE  Holds(p, c)'
<1>0. Lone(p, c) /\ TypeOK /\ MemoryInv /\ p \in Threads
  BY Parts
<1>1. Loads(p)
  BY <1>0, LocalLemma DEF StartPush, Local
<1>2. pc[p] = "idle" /\ Moves(p, "load_phead", head[p], seen[p]) /\ entries' = entries
  BY Locals DEF StartPush, Ring!StartPush, Ring!Goto, Moves
<1>3. head[p] \in Heads /\ seen[p] \in Pair
  BY <1>0, Facts
<1>4. QED
  BY <1>1, <1>2, <1>3, QuietPushStep

(* The producer finds the last phead.                                      *)
LEMMA LoadPheadKeeps ==
    ASSUME NEW p, NEW c, Holds(p, c), LoadPhead(p)
    PROVE  Holds(p, c)'
<1> DEFINE w == <<"phead", 0>>
<1>0. Lone(p, c) /\ p \in Threads /\ w \in Words /\ Phead \in Heads /\ seen[p] \in Pair /\ Latest(p, w)
  BY Parts, Facts, WordNames DEF ProducerKnows
<1>1. PICK k \in DOMAIN mem[w] : Load(p, "load_phead", w, k, FALSE) /\ Loading(w, k)!LoadPhead(p)
  BY DEF LoadPhead
<1>2. Loads(p) /\ pc[p] = "load_phead" /\ mem[w][k].value = Phead
  BY <1>0, <1>1, LoadEffect DEF Phead
<1>3. Moves(p, "load_allocated", Phead, seen[p]) /\ entries' = entries
  <2>1. Found("phead", 0, w, k) = Phead
    BY <1>2 DEF Found
  <2>2. QED
    BY <1>1, <2>1, Locals DEF Loading!LoadPhead, Loading!Goto, Moves
<1>4. QED
  BY <1>0, <1>2, <1>3, QuietPushStep

(* The producer finds the last allocated of its block.                     *)
LEMMA LoadAllocatedKeeps ==
    ASSUME NEW p, NEW c, Holds(p, c), LoadAllocated(p)
    PROVE  Holds(p, c)'
<1> DEFINE w == <<"allocated", Block(p)>>
<1>0. /\ Lone(p, c) /\ p \in Threads /\ Block(p) \in Blocks /\ Block(p) = head[p].i /\ w \in Words
      /\ head[p] \in Heads /\ seen[p] \in Pair /\ Latest(p, w) /\ Allocated(Block(p)) \in Pair
      /\ Allocated(Block(p)).i <= BlockSize
  BY Parts, Facts, WordNames DEF ProducerBlock
<1>1. PICK k \in DOMAIN mem[w] : Load(p, "load_allocated", w, k, FALSE) /\ Loading(w, k)!LoadAllocated(p)
  BY DEF LoadAllocated
<1>2. Loads(p) /\ pc[p] = "load_allocated" /\ mem[w][k].value = Allocated(Block(p))
  <2>1. Load(p, "load_allocated", w, k, FALSE) /\ w \in Words /\ Latest(p, w)
    BY <1>0, <1>1
  <2>2. Allocated(Block(p)) = Last(w)
    BY DEF Allocated
  <2> HIDE DEF w
  <2>3. Loads(p) /\ pc[p] = "load_allocated" /\ mem[w][k].value = Last(w)
    BY <1>0, <1>1, <2>1, LoadEffect
  <2>4. QED
    BY <2>2, <2>3
<1>3. Found("allocated", Block(p), w, k) = Allocated(Block(p)) /\ head[p] = Phead
  BY <1>2, Facts DEF Found, ProducerKnows
<1>4. CASE Allocated(Block(p)).i >= BlockSize
  <2>1. Moves(p, "check_consumed", head[p], seen[p]) /\ entries' = entries
    BY <1>0, <1>1, <1>3, <1>4, Locals
    DEF Loading!LoadAllocated, Loading!Goto, Loading!BlockDone, Loading!Block, Moves
  <2>2. Allocated(head[p].i).i = BlockSize
    BY <1>0, <1>4 DEF Pair
  <2>3. QED
    BY <1>0, <1>2, <1>3, <2>1, <2>2, QuietPushStep
<1>5. CASE ~ (Allocated(Block(p)).i >= BlockSize)
  <2>1. Moves(p, "add_allocated", head[p], seen[p]) /\ entries' = entries
    BY <1>0, <1>1, <1>3, <1>5, Locals
    DEF Loading!LoadAllocated, Loading!Goto, Loading!BlockDone, Loading!Block, Moves
  <2>2. Allocated(head[p].i).i < BlockSize
    BY <1>0, <1>5 DEF Pair
  <2>3. QED
    BY <1>0, <1>2, <1>3, <2>1, <2>2, QuietPushStep
<1>6. QED
  BY <1>4, <1>5

(* What the producer finds in consumed: the next block is occupied, or it  *)
(* is empty and the producer comes after all reads of it.                  *)
LEMMA CheckConsumedKeeps ==
    ASSUME NEW p, NEW c, Holds(p, c), CheckConsumed(p)
    PROVE  Holds(p, c)'
<1> DEFINE n == NextBlock(p)
           w == <<"consumed", n>>
           h == head[p]
<1>0. /\ Lone(p, c) /\ TypeOK /\ MemoryInv /\ p \in Threads /\ Block(p) \in Blocks /\ Block(p) = h.i
      /\ n \in Blocks /\ n = After(h) /\ w \in Words
      /\ h \in Heads /\ seen[p] \in Pair /\ Consumed(n) \in Pair
  BY Parts, Facts, WordNames
<1>1. PICK k \in DOMAIN mem[w] : Load(p, "check_consumed", w, k, TRUE) /\ Loading(w, k)!CheckConsumed(p)
  BY DEF CheckConsumed
<1> DEFINE found == mem[w][k].value
<1>2. /\ Loads(p) /\ pc[p] = "check_consumed" /\ found \in Pair /\ AtMost(found, Consumed(n))
      /\ view[p].at[w] <= k /\ mem[w][k].view.slots \subseteq view'[p].slots
  BY <1>0, <1>1, LoadEffect DEF Consumed
<1>3. /\ h = Phead /\ Allocated(h.i).i = BlockSize
  BY <1>0, <1>2, Facts DEF ProducerKnows
<1>4. Found("consumed", n, w, k) = found /\ Loading(w, k)!NextBlock(p) = n
  BY DEF Found, Loading!NextBlock, NextBlock, Ring!NextBlock
<1>5. Loading(w, k)!NextOccupied(p) <=> found.v < h.v \/ (found.v = h.v /\ found.i # BlockSize)
  BY <1>0, <1>4 DEF Loading!NextOccupied
<1>6. CASE Loading(w, k)!NextOccupied(p)
  <2>1. Moves(p, "check_reserved", h, found) /\ entries' = entries
    BY <1>0, <1>1, <1>4, <1>6, Locals DEF Loading!CheckConsumed, Loading!Goto, Moves
  <2>2. QED
    BY <1>0, <1>2, <1>3, <2>1, QuietPushStep
<1>7. CASE ~ Loading(w, k)!NextOccupied(p)
  <2>1. Moves(p, "max_committed", h, seen[p]) /\ entries' = entries
    BY <1>0, <1>1, <1>4, <1>7, Locals DEF Loading!CheckConsumed, Loading!Goto, Moves
  <2>2. /\ Committed(n) = FromParts(h.v, BlockSize) /\ Leads(n)
        /\ AtMost(Consumed(n), Committed(n)) /\ h.v \in Nat
    <3>1. Allocated(n) = FromParts(h.v, BlockSize)
      BY <1>0, <1>2, <1>3, NextLemma
    <3>2. ProducerBlock(p, n) /\ Leads(n) /\ AtMost(Consumed(n), Committed(n))
      BY <1>0, Facts, NextLemma
    <3>3. Committed(n) = Allocated(n)
      BY <1>2, <3>2 DEF ProducerBlock, At, Opens
    <3>4. QED
      BY <1>0, <3>1, <3>2, <3>3, HeadLemma
  <2>3. /\ found.v = h.v /\ found.i = BlockSize
        /\ Consumed(n).v = h.v /\ Consumed(n).i = BlockSize
    BY <1>0, <1>2, <1>5, <1>7, <2>2 DEF AtMost, FromParts, Pair
  <2>4. ASSUME NEW s \in Slots
        PROVE  <<n, s>> \in view'[p].slots
    <3>1. ~ Filled(n, s)
      BY <2>2, <2>3 DEF Filled, FromParts, Slots
    <3>2. entries[n][s] = -1
      BY <1>0, <3>1, Facts DEF EntryHeld
    <3>3. Carried(p, "consumed", n, s)
      BY <1>0, <3>2, Facts DEF ProducerSees
    <3>4. <<n, s>> \in mem[w][k].view.slots \cup view[p].slots
      BY <1>2, <2>3, <3>3 DEF Carried, Consumed, Slots
    <3>5. QED
      BY <1>2, <3>4 DEF Loads
  <2>5. AtMost(FromParts(h.v, BlockSize), Consumed(n))
    BY <2>3 DEF AtMost, FromParts
  <2>6. QED
    BY <1>0, <1>2, <1>3, <2>1, <2>4, <2>5, QuietPushStep
<1>8. QED
  BY <1>6, <1>7

(* A push that is refused returns.                                         *)
LEMMA CheckReservedKeeps ==
    ASSUME NEW p, NEW c, Holds(p, c), CheckReserved(p)
    PROVE  Holds(p, c)'
<1> DEFINE w == <<"reserved", NextBlock(p)>>
<1>0. Lone(p, c) /\ p \in Threads /\ w \in Words /\ p \notin Consumers
  BY Parts, Facts, WordNames DEF Lone
<1>1. PICK k \in DOMAIN mem[w] :
          /\ Load(p, "check_reserved", w, k, FALSE)
          /\ Loading(w, k)!ReportFull(p) \/ Loading(w, k)!ReportBusyPush(p)
  BY DEF CheckReserved
<1>2. Loads(p) /\ pc[p] = "check_reserved"
  BY <1>0, <1>1, LoadEffect
<1>3. Moves(p, "idle", Zero, Zero) /\ entries' = entries
  <2>1. Loading(w, k)!Return(p) /\ entries' = entries
    BY <1>1 DEF Loading!ReportFull, Loading!ReportBusyPush
  <2>2. QED
    BY <2>1, Locals DEF Loading!Return, Loading!Leave, Loading!Goto, Loading!Zero, Loading!FromParts,
                        Zero, FromParts, Moves
<1>4. QED
  BY <1>2, <1>3, Locals, QuietPushStep
-----------------------------------------------------------------------------
(* What the invariant needs of an update.                                  *)
LEMMA UpdateEffect ==
    ASSUME NEW p, NEW c, Holds(p, c),
           NEW t \in Threads, NEW word \in Words, NEW after \in Pair, AtMost(Last(word), after),
           NEW step, NEW release \in BOOLEAN, Update(t, step, word, after, release)
    PROVE  /\ Writes(t, word, after) /\ Memory /\ pc[t] = step
           /\ \A w \in Words \ {word} : Same(w) /\ Last(w)' = Last(w)
           /\ Last(word)' = after /\ Latest(t, word)'
           /\ Same(word) \/ \E x \in Pair : Grown(word, x)
           /\ \A u \in Threads : view'[u].slots = view[u].slots
           /\ after # Last(word) /\ release =>
                  view[t].slots \subseteq mem'[word][Len(mem[word]) + 1].view.slots
<1>0. Lone(p, c) /\ TypeOK /\ MemoryInv
  BY Parts
<1>1. /\ Writes(t, word, after) /\ Memory /\ pc[t] = step
      /\ after # Last(word) /\ release =>
             view[t].slots \subseteq mem'[word][Len(mem[word]) + 1].view.slots
  BY <1>0, UpdateLemma DEF Writes, Memory, Update
<1>2. \A w \in Words \ {word} : Same(w) /\ Last(w)' = Last(w)
  BY <1>0, <1>1, SameLast DEF Writes
<1>3. QED
  BY <1>1, <1>2 DEF Writes, Latest

(* A step of t writes x to the word and leaves the others.                 *)
Puts(t, name, d, x) ==
    /\ Memory /\ Writes(t, <<name, d>>, x)
    /\ \A w \in Words : Latest(t, w) => Latest(t, w)'
    /\ \A u \in Threads : view'[u].slots = view[u].slots
    /\ Phead' = IF name = "phead" THEN x ELSE Phead
    /\ Chead' = IF name = "chead" THEN x ELSE Chead
    /\ name # "phead" => Same(<<"phead", 0>>)
    /\ name # "chead" => Same(<<"chead", 0>>)
    /\ \A b \in Blocks :
           /\ Allocated(b)' = IF name = "allocated" /\ b = d THEN x ELSE Allocated(b)
           /\ Committed(b)' = IF name = "committed" /\ b = d THEN x ELSE Committed(b)
           /\ Reserved(b)' = IF name = "reserved" /\ b = d THEN x ELSE Reserved(b)
           /\ Consumed(b)' = IF name = "consumed" /\ b = d THEN x ELSE Consumed(b)
           /\ ~ (name = "allocated" /\ b = d) => Same(<<"allocated", b>>)
           /\ ~ (name = "committed" /\ b = d) => Same(<<"committed", b>>)
           /\ ~ (name = "reserved" /\ b = d) => Same(<<"reserved", b>>)
           /\ ~ (name = "consumed" /\ b = d) => Same(<<"consumed", b>>)
           /\ Same(<<"committed", b>>) \/ \E y \in Pair : Grown(<<"committed", b>>, y)
           /\ Consumed(b)' \in Pair /\ AtMost(Consumed(b), Consumed(b)')

(* An update leaves its value in the word and all others as they were.     *)
LEMMA Wrote ==
    ASSUME NEW p, NEW c, Holds(p, c),
           NEW t \in Threads, NEW name, NEW d, <<name, d>> \in Words,
           NEW x \in Pair, AtMost(Last(<<name, d>>), x),
           NEW step, NEW release \in BOOLEAN, Update(t, step, <<name, d>>, x, release)
    PROVE  /\ Puts(t, name, d, x)
           /\ x # Last(<<name, d>>) /\ release =>
                  view[t].slots \subseteq mem'[<<name, d>>][Len(mem[<<name, d>>]) + 1].view.slots
<1> DEFINE word == <<name, d>>
<1>0. Lone(p, c) /\ TypeOK /\ MemoryInv /\ \A b \in Blocks : Consumed(b) \in Pair
  BY Parts, Facts
<1>1. /\ Writes(t, word, x) /\ Memory /\ pc[t] = step
      /\ \A w \in Words : w # word => Same(w) /\ Last(w)' = Last(w)
      /\ Last(word)' = x /\ Latest(t, word)'
      /\ Same(word) \/ \E y \in Pair : Grown(word, y)
      /\ \A u \in Threads : view'[u].slots = view[u].slots
      /\ x # Last(word) /\ release =>
             view[t].slots \subseteq mem'[word][Len(mem[word]) + 1].view.slots
  <2> HIDE DEF word
  <2>1. word \in Words /\ AtMost(Last(word), x) /\ Update(t, step, word, x, release)
    BY DEF word
  <2>2. QED
    BY <2>1, UpdateEffect
<1>2. \A w \in Words : Latest(t, w) => Latest(t, w)'
  BY <1>0, <1>1, LatestKept
<1>3. \A w \in Words : /\ Same(w) \/ \E y \in Pair : Grown(w, y)
                       /\ Last(w)' = IF w = word THEN x ELSE Last(w)
                       /\ w # word => Same(w)
  BY <1>1
<1>4. /\ Phead' = IF name = "phead" THEN x ELSE Phead
      /\ Chead' = IF name = "chead" THEN x ELSE Chead
      /\ name # "phead" => Same(<<"phead", 0>>)
      /\ name # "chead" => Same(<<"chead", 0>>)
  <2>1. <<"phead", 0>> \in Words /\ <<"chead", 0>> \in Words
    BY <1>0, WordNames
  <2>2. name \in {"phead", "chead"} => d = 0
    BY DEF Words
  <2>3. QED
    BY <1>3, <2>1, <2>2 DEF Phead, Chead
<1>5. ASSUME NEW b \in Blocks
      PROVE  /\ Allocated(b)' = IF name = "allocated" /\ b = d THEN x ELSE Allocated(b)
             /\ Committed(b)' = IF name = "committed" /\ b = d THEN x ELSE Committed(b)
             /\ Reserved(b)' = IF name = "reserved" /\ b = d THEN x ELSE Reserved(b)
             /\ Consumed(b)' = IF name = "consumed" /\ b = d THEN x ELSE Consumed(b)
             /\ ~ (name = "allocated" /\ b = d) => Same(<<"allocated", b>>)
             /\ ~ (name = "committed" /\ b = d) => Same(<<"committed", b>>)
             /\ ~ (name = "reserved" /\ b = d) => Same(<<"reserved", b>>)
             /\ ~ (name = "consumed" /\ b = d) => Same(<<"consumed", b>>)
             /\ Same(<<"committed", b>>) \/ \E y \in Pair : Grown(<<"committed", b>>, y)
  <2>1. /\ <<"allocated", b>> \in Words /\ <<"committed", b>> \in Words
        /\ <<"reserved", b>> \in Words /\ <<"consumed", b>> \in Words
    BY <1>0, WordNames
  <2>2. QED
    BY <1>3, <2>1 DEF Allocated, Committed, Reserved, Consumed
<1>6. ASSUME NEW b \in Blocks
      PROVE  Consumed(b)' \in Pair /\ AtMost(Consumed(b), Consumed(b)')
  <2>1. CASE name = "consumed" /\ b = d
    BY <1>5, <2>1 DEF Consumed
  <2>2. CASE ~ (name = "consumed" /\ b = d)
    BY <1>0, <1>5, <2>2, AtMostIsOrder
  <2>3. QED
    BY <2>1, <2>2
<1>7. QED
  BY <1>1, <1>2, <1>4, <1>5, <1>6 DEF Puts

(* A slot of the present version is handed out.                            *)
LEMMA AddAllocatedKeeps ==
    ASSUME NEW p, NEW c, Holds(p, c), AddAllocated(p)
    PROVE  Holds(p, c)'
<1> DEFINE n == Block(p)
           w == <<"allocated", n>>
           f == Allocated(n)
           x == FromParts(f.v, f.i + 1)
<1>0. /\ Lone(p, c) /\ TypeOK /\ MemoryInv /\ p \in Threads /\ c \in Threads /\ p # c /\ p \notin Consumers
      /\ n \in Blocks /\ n = head[p].i /\ w \in Words
      /\ head[p] \in Heads /\ seen[p] \in Pair /\ f \in Pair /\ pc[p] = "add_allocated"
      /\ Phead \in Heads /\ Chead \in Heads
  BY Parts, Facts, WordNames DEF Lone, AddAllocated, FetchAdd, Update
<1>1. head[p] = Phead /\ f.i < BlockSize
  BY <1>0, Facts DEF ProducerKnows
<1>2. Incr(IndexSpan, Last(w)) = x /\ x \in Pair /\ AtMost(f, x) /\ x.v = f.v /\ x.i = f.i + 1
  BY <1>0, <1>1 DEF Incr, FromParts, Pair, Allocated, AtMost
<1> HIDE DEF x
<1>3. /\ Memory /\ \A u \in Words : Latest(p, u) => Latest(p, u)'
      /\ \A u \in Threads : view'[u].slots = view[u].slots
      /\ Phead' = Phead /\ Chead' = Chead
      /\ \A b \in Blocks : /\ Committed(b)' = Committed(b) /\ Same(<<"committed", b>>)
                           /\ Reserved(b)' = Reserved(b) /\ Consumed(b)' = Consumed(b)
                           /\ Same(<<"consumed", b>>) /\ Same(<<"reserved", b>>)
                           /\ Allocated(b)' = IF b = n THEN x ELSE Allocated(b)
      /\ Same(<<"chead", 0>>)
  <2>1. Update(p, "add_allocated", w, x, FALSE) /\ AtMost(Last(w), x)
    BY <1>2 DEF AddAllocated, FetchAdd, Allocated
  <2>2. Puts(p, "allocated", n, x)
    BY <1>0, <1>2, <2>1, Wrote
  <2>3. QED
    BY <2>2 DEF Puts
<1>4. Moves(p, "produce", head[p], f) /\ entries' = entries
  <2>1. [b \in Blocks |-> Last(<<"allocated", b>>)][Ring!Block(p)] = f /\ Ring!Block(p) = n
    BY <1>0 DEF Allocated, Block
  <2>2. ~ Ring!BlockDone(f)
    BY <1>0, <1>1 DEF Ring!BlockDone, Pair
  <2>3. QED
    BY <2>1, <2>2, Locals DEF AddAllocated, Ring!AddAllocated, Ring!Goto, Moves
<1>5. /\ pc'[p] = "produce" /\ head'[p] = head[p] /\ seen'[p] = f /\ Block(p)' = n
      /\ Slot(p)' = <<n, f.i>> /\ Idles(c)
  BY <1>0, <1>4, MovesTo
<1>7. ConsumerKnows(c)' /\ \A b \in Blocks : ConsumerBlock(c, b)'
  BY <1>0, <1>3, <1>5, ConsumerKept
<1>8. Latest(p, <<"phead", 0>>)' /\ \A b \in Blocks : Latest(p, <<"allocated", b>>)'
  <2>1. Latest(p, <<"phead", 0>>) /\ \A b \in Blocks : Latest(p, <<"allocated", b>>)
    BY Facts DEF ProducerKnows, ProducerBlock
  <2>2. QED
    BY <1>0, <1>3, <2>1, WordNames
<1>9. ProducerKnows(p)'
  BY <1>1, <1>3, <1>5, <1>8 DEF ProducerKnows
<1>10. ASSUME NEW b \in Blocks
       PROVE  ProducerBlock(p, b)'
  <2>1. ProducerBlock(p, b) /\ PushedTo(p)' = PushedTo(p)
    BY <1>0, <1>3, <1>5, Facts DEF PushedTo
  <2>2. /\ ~ At(p, {"produce", "commit"}, b) /\ ~ Opens(p, "max_allocated", b)
        /\ ~ Opens(p, "max_allocated", b)' /\ ~ Opens(p, "max_committed", b)'
        /\ At(p, {"produce", "commit"}, b)' <=> b = n
    BY <1>0, <1>5 DEF At, Opens
  <2>3. CASE b = n
    <3>1. n = Phead.i /\ PushedTo(p) = Phead
      BY <1>0, <1>1 DEF PushedTo
    <3>2. ComeTo(x, b, Phead)
      BY <1>2, <2>1, <2>3, <3>1 DEF ProducerBlock, ComeTo
    <3>3. x.i <= BlockSize /\ Committed(b) = f /\ x = FromParts(f.v, f.i + 1)
      BY <1>0, <1>1, <1>2, <2>1, <2>2, <2>3 DEF ProducerBlock, FromParts, Pair, x
    <3>4. QED
      BY <1>3, <1>5, <1>8, <2>1, <2>2, <2>3, <3>1, <3>2, <3>3 DEF ProducerBlock
  <2>4. CASE b # n
    BY <1>3, <1>8, <2>1, <2>2, <2>4 DEF ProducerBlock
  <2>5. QED
    BY <2>3, <2>4
<1>11. ASSUME NEW b \in Blocks
       PROVE  /\ Leads(b)'
              /\ \A s \in Slots : EntryHeld(b, s)' /\ ProducerSees(p, b, s)' /\ ConsumerSees(c, b, s)'
  <2>1. Leads(b)'
    BY <1>3, Facts DEF Leads
  <2>2. ASSUME NEW s \in Slots
        PROVE  EntryHeld(b, s)'
    <3>1. EntryHeld(b, s)
      BY Facts
    <3>2. Slot(c)' = Slot(c) /\ pc'[c] = pc[c]
      BY <1>5, IdlesLemma DEF Idles
    <3>3. Filled(b, s)' <=> Filled(b, s)
      BY <1>0, <1>3, <1>5, <3>2 DEF Filled, Lone
    <3>4. QED
      BY <1>3, <1>4, <3>1, <3>3 DEF EntryHeld
  <2>3. ASSUME NEW s \in Slots
        PROVE  ProducerSees(p, b, s)'
    <3>1. ProducerSees(p, b, s)
      BY Facts
    <3>2. entries[b][s] = -1 => Carried(p, "consumed", b, s)'
      BY <1>0, <1>3, <3>1, CarriedKept, WordNames DEF ProducerSees
    <3>3. ~ Opens(p, "max_allocated", b)' /\ ~ Opens(p, "max_committed", b)'
      BY <1>5 DEF Opens
    <3>4. Allocated(b)'.i <= s \/ Slot(p)' = <<b, s>> => Allocated(b).i <= s
      <4>1. Allocated(b)'.i <= s => Allocated(b).i <= s
        <5>1. Allocated(b)' = (IF b = n THEN x ELSE Allocated(b)) /\ f.i \in Nat
          BY <1>0, <1>3 DEF Pair
        <5>2. QED
          BY <1>2, <5>1 DEF Slots
      <4>2. Slot(p)' = <<b, s>> => Allocated(b).i <= s
        <5>1. Slot(p)' = <<b, s>> => b = n /\ s = f.i
          BY <1>5
        <5>2. QED
          BY <5>1 DEF Slots
      <4>3. QED
        BY <4>1, <4>2
    <3>5. QED
      BY <1>0, <1>3, <1>4, <3>1, <3>2, <3>3, <3>4 DEF ProducerSees
  <2>4. ASSUME NEW s \in Slots
        PROVE  ConsumerSees(c, b, s)'
    <3>1. ConsumerSees(c, b, s)
      BY Facts
    <3>2. entries[b][s] # -1 => Carried(c, "committed", b, s)'
      BY <1>0, <1>3, <3>1, CarriedKept, WordNames DEF ConsumerSees
    <3>3. Slot(c)' = Slot(c) /\ pc'[c] = pc[c]
      BY <1>5, IdlesLemma DEF Idles
    <3>4. QED
      BY <1>0, <1>3, <1>4, <3>1, <3>2, <3>3 DEF ConsumerSees
  <2>5. QED
    BY <2>1, <2>2, <2>3, <2>4
<1>12. WeakInv'
  BY <1>0, <1>3, <1>7, <1>9, <1>10, <1>11, Assemble DEF Memory
<1>13. TypeOK'
  <2>1. "produce" \in Ring!ProducerSteps
    BY DEF Ring!ProducerSteps
  <2>2. QED
    BY <1>0, <1>3, <1>3, <1>4, <2>1, Locals, MovesLemma
<1>14. QED
  BY <1>0, <1>12, <1>13 DEF Holds, Lone

(* What a write of the producer leaves the consumer, and what consumed     *)
(* carries.                                                                *)
LEMMA PushPuts ==
    ASSUME NEW p, NEW c, Holds(p, c), NEW name \in {"phead", "allocated", "committed"}, NEW d, NEW x,
           Puts(p, name, d, x), Idles(c), entries' = entries,
           \A s \in Slots : name = "committed" /\ d \in Blocks /\ entries[d][s] # -1 =>
               Carried(c, "committed", d, s)'
    PROVE  /\ ConsumerKnows(c)'
           /\ \A b \in Blocks :
                  /\ ConsumerBlock(c, b)'
                  /\ \A s \in Slots : /\ ConsumerSees(c, b, s)'
                                      /\ entries[b][s] = -1 => Carried(p, "consumed", b, s)'
<1>0. Lone(p, c) /\ TypeOK /\ MemoryInv /\ p \in Threads /\ c \in Threads /\ p # c
  BY Parts, WordNames
<1>1. /\ Memory /\ \A u \in Threads : view'[u].slots = view[u].slots
      /\ Same(<<"chead", 0>>)
      /\ \A b \in Blocks : /\ Same(<<"reserved", b>>) /\ Same(<<"consumed", b>>)
                           /\ ~ (name = "committed" /\ b = d) => Same(<<"committed", b>>)
                           /\ Same(<<"committed", b>>) \/ \E y \in Pair : Grown(<<"committed", b>>, y)
  BY DEF Puts
<1>2. ConsumerKnows(c)' /\ \A b \in Blocks : ConsumerBlock(c, b)'
  BY <1>0, <1>1, ConsumerKept
<1>3. ASSUME NEW b \in Blocks, NEW s \in Slots
      PROVE  /\ ConsumerSees(c, b, s)'
             /\ entries[b][s] = -1 => Carried(p, "consumed", b, s)'
  <2>1. ConsumerSees(c, b, s) /\ ProducerSees(p, b, s)
    BY Facts
  <2>2. entries[b][s] # -1 => Carried(c, "committed", b, s)'
    <3>1. CASE name = "committed" /\ b = d
      BY <3>1
    <3>2. CASE ~ (name = "committed" /\ b = d)
      BY <1>0, <1>1, <2>1, <3>2, CarriedKept, WordNames DEF ConsumerSees
    <3>3. QED
      BY <3>1, <3>2
  <2>3. entries[b][s] = -1 => Carried(p, "consumed", b, s)'
    BY <1>0, <1>1, <2>1, CarriedKept, WordNames DEF ProducerSees
  <2>4. Slot(c)' = Slot(c) /\ pc'[c] = pc[c]
    BY IdlesLemma DEF Idles
  <2>5. QED
    BY <1>0, <1>1, <2>1, <2>2, <2>3, <2>4 DEF ConsumerSees
<1>4. QED
  BY <1>2, <1>3

(* The producer opens the next block: committed first,                     *)
LEMMA MaxCommittedKeeps ==
    ASSUME NEW p, NEW c, Holds(p, c), MaxCommitted(p)
    PROVE  Holds(p, c)'
<1> DEFINE h == head[p]
           n == NextBlock(p)
           w == <<"committed", n>>
           x == Opening(p)
<1>0. /\ Lone(p, c) /\ TypeOK /\ MemoryInv /\ p \in Threads /\ c \in Threads /\ p # c /\ p \notin Consumers
      /\ n \in Blocks /\ n = After(h) /\ w \in Words /\ x \in Pair /\ x = FromParts(h.v + 1, 0)
      /\ h \in Heads /\ seen[p] \in Pair /\ pc[p] = "max_committed"
      /\ Phead \in Heads /\ Chead \in Heads
  BY Parts, Facts, WordNames DEF Lone, MaxCommitted, FetchMax, Update
<1>1. /\ h = Phead /\ Opens(p, "max_committed", n) /\ h.v \in Nat
  BY <1>0, Facts, HeadLemma DEF ProducerKnows, Opens
<1>2. /\ Committed(n) = FromParts(h.v, BlockSize) /\ Allocated(n) = FromParts(h.v, BlockSize)
      /\ Consumed(n).v = h.v /\ Consumed(n).i = BlockSize
      /\ x.v = h.v + 1 /\ x.i = 0
  <2>1. /\ ProducerBlock(p, n) /\ Allocated(n) = FromParts(h.v, BlockSize)
        /\ AtMost(Consumed(n), Committed(n)) /\ Consumed(n) \in Pair /\ Consumed(n).i <= BlockSize
    BY <1>0, <1>1, Facts, NextLemma
  <2>2. Committed(n) = Allocated(n) /\ AtMost(FromParts(h.v, BlockSize), Consumed(n))
    BY <1>0, <1>1, <2>1 DEF ProducerBlock, At, Opens
  <2>3. Consumed(n).v = h.v /\ Consumed(n).i = BlockSize
    BY <1>1, <2>1, <2>2 DEF AtMost, FromParts, Pair
  <2>4. QED
    BY <1>0, <2>1, <2>2, <2>3 DEF FromParts
<1>3. Puts(p, "committed", n, x)
  <2>1. Last(w) = FromParts(h.v, BlockSize) /\ AtMost(Last(w), x) /\ MaxPair(Last(w), x) = x
    BY <1>0, <1>1, <1>2 DEF Committed, AtMost, MaxPair, FromParts
  <2>2. Update(p, "max_committed", w, x, FALSE)
    BY <2>1 DEF MaxCommitted, FetchMax, Opening
  <2>3. QED
    BY <1>0, <2>1, <2>2, Wrote
<1>4. Moves(p, "max_allocated", h, seen[p]) /\ entries' = entries
  BY Locals DEF MaxCommitted, Ring!MaxCommitted, Ring!Goto, Moves
<1>5. /\ pc'[p] = "max_allocated" /\ head'[p] = h /\ seen'[p] = seen[p] /\ Block(p)' = h.i
      /\ NextBlock(p)' = n /\ Opening(p)' = x /\ Idles(c)
  BY <1>0, <1>4, MovesTo
<1> HIDE DEF x, n
<1>6. /\ Memory /\ \A u \in Words : Latest(p, u) => Latest(p, u)'
      /\ \A u \in Threads : view'[u].slots = view[u].slots
      /\ Phead' = Phead /\ Chead' = Chead
      /\ \A b \in Blocks : /\ Committed(b)' = IF b = n THEN x ELSE Committed(b)
                           /\ Allocated(b)' = Allocated(b)
                           /\ Reserved(b)' = Reserved(b) /\ Consumed(b)' = Consumed(b)
  BY <1>3 DEF Puts
<1>7. \A s \in Slots : entries[n][s] = -1
  <2>1. \A s \in Slots : ~ Filled(n, s)
    BY <1>2 DEF Filled, FromParts, Slots
  <2>2. QED
    BY <1>0, <2>1, Facts DEF EntryHeld
<1>8. /\ ConsumerKnows(c)'
      /\ \A b \in Blocks : /\ ConsumerBlock(c, b)'
                           /\ \A s \in Slots : /\ ConsumerSees(c, b, s)'
                                               /\ entries[b][s] = -1 => Carried(p, "consumed", b, s)'
  BY <1>3, <1>4, <1>5, <1>7, PushPuts
<1>9. Latest(p, <<"phead", 0>>)' /\ \A b \in Blocks : Latest(p, <<"allocated", b>>)'
  BY <1>0, <1>6, Facts, WordNames DEF ProducerKnows, ProducerBlock
<1>10. ProducerKnows(p)'
  <2>1. Allocated(Block(p)).i = BlockSize /\ Block(p) = h.i /\ Block(p) \in Blocks
    BY <1>0, Facts DEF ProducerKnows
  <2>2. QED
    BY <1>1, <1>5, <1>6, <1>9, <2>1 DEF ProducerKnows
<1>11. ASSUME NEW b \in Blocks
       PROVE  ProducerBlock(p, b)'
  <2>1. ProducerBlock(p, b) /\ PushedTo(p)' = PushedTo(p)
    BY <1>0, <1>5, <1>6, Facts DEF PushedTo
  <2>2. /\ ~ At(p, {"produce", "commit"}, b) /\ ~ Opens(p, "max_allocated", b)
        /\ ~ At(p, {"produce", "commit"}, b)' /\ ~ Opens(p, "max_committed", b)'
        /\ Opens(p, "max_allocated", b)' <=> b = n
        /\ Opens(p, "max_committed", b) <=> b = n
    BY <1>0, <1>5 DEF At, Opens, n
  <2>3. QED
    BY <1>5, <1>6, <1>9, <2>1, <2>2 DEF ProducerBlock
<1>12. ASSUME NEW b \in Blocks
       PROVE  /\ Leads(b)'
              /\ \A s \in Slots : EntryHeld(b, s)' /\ ProducerSees(p, b, s)'
  <2>1. Leads(b)'
    BY <1>2, <1>6, Facts DEF Leads
  <2>2. ASSUME NEW s \in Slots
        PROVE  EntryHeld(b, s)'
    <3>1. EntryHeld(b, s)
      BY Facts
    <3>2. Slot(c)' = Slot(c) /\ pc'[c] = pc[c]
      BY <1>5, IdlesLemma DEF Idles
    <3>3. CASE b = n
      <4>1. ~ Filled(b, s)'
        BY <1>0, <1>2, <1>5, <1>6, <3>3 DEF Filled, Slots, Lone
      <4>2. QED
        BY <1>4, <1>7, <3>3, <4>1 DEF EntryHeld
    <3>4. CASE b # n
      <4>1. Filled(b, s)' <=> Filled(b, s)
        BY <1>0, <1>5, <1>6, <3>2, <3>4 DEF Filled, Lone
      <4>2. QED
        BY <1>4, <1>6, <3>1, <3>4, <4>1 DEF EntryHeld
    <3>5. QED
      BY <3>3, <3>4
  <2>3. ASSUME NEW s \in Slots
        PROVE  ProducerSees(p, b, s)'
    <3>1. ProducerSees(p, b, s)
      BY Facts
    <3>2. /\ ~ Opens(p, "max_committed", b)' /\ pc'[p] # "produce"
          /\ Opens(p, "max_allocated", b)' => Opens(p, "max_committed", b)
      BY <1>0, <1>5 DEF Opens, n
    <3>3. QED
      BY <1>0, <1>4, <1>6, <1>8, <3>1, <3>2 DEF ProducerSees
  <2>4. QED
    BY <2>1, <2>2, <2>3
<1>13. WeakInv'
  BY <1>0, <1>6, <1>8, <1>10, <1>11, <1>12, Assemble DEF Memory
<1>14. TypeOK'
  <2>1. "max_allocated" \in Ring!ProducerSteps
    BY DEF Ring!ProducerSteps
  <2>2. QED
    BY <1>0, <1>4, <1>6, <2>1, Locals, MovesLemma
<1>15. QED
  BY <1>0, <1>13, <1>14 DEF Holds, Lone

(* then allocated,                                                         *)
LEMMA MaxAllocatedKeeps ==
    ASSUME NEW p, NEW c, Holds(p, c), MaxAllocated(p)
    PROVE  Holds(p, c)'
<1> DEFINE h == head[p]
           n == NextBlock(p)
           w == <<"allocated", n>>
           x == Opening(p)
<1>0. /\ Lone(p, c) /\ TypeOK /\ MemoryInv /\ p \in Threads /\ c \in Threads /\ p # c /\ p \notin Consumers
      /\ n \in Blocks /\ n = After(h) /\ w \in Words /\ x \in Pair /\ x = FromParts(h.v + 1, 0)
      /\ h \in Heads /\ seen[p] \in Pair /\ pc[p] = "max_allocated"
      /\ Phead \in Heads /\ Chead \in Heads
  BY Parts, Facts, WordNames DEF Lone, MaxAllocated, FetchMax, Update
<1>1. /\ h = Phead /\ Opens(p, "max_allocated", n) /\ h.v \in Nat
  BY <1>0, Facts, HeadLemma DEF ProducerKnows, Opens
<1>2. /\ Allocated(n) = FromParts(h.v, BlockSize)
      /\ x.v = h.v + 1 /\ x.i = 0
  BY <1>0, <1>1, NextLemma DEF FromParts
<1>3. Puts(p, "allocated", n, x)
  <2>1. Last(w) = FromParts(h.v, BlockSize) /\ AtMost(Last(w), x) /\ MaxPair(Last(w), x) = x
    BY <1>0, <1>1, <1>2 DEF Allocated, AtMost, MaxPair, FromParts
  <2>2. Update(p, "max_allocated", w, x, FALSE)
    BY <2>1 DEF MaxAllocated, FetchMax, Opening
  <2>3. QED
    BY <1>0, <2>1, <2>2, Wrote
<1>4. Moves(p, "max_phead", h, seen[p]) /\ entries' = entries
  BY Locals DEF MaxAllocated, Ring!MaxAllocated, Ring!Goto, Moves
<1>5. /\ pc'[p] = "max_phead" /\ head'[p] = h /\ seen'[p] = seen[p] /\ Block(p)' = h.i
      /\ NextBlock(p)' = n /\ Opening(p)' = x /\ Idles(c)
  BY <1>0, <1>4, MovesTo
<1> HIDE DEF x, n
<1>6. /\ Memory /\ \A u \in Words : Latest(p, u) => Latest(p, u)'
      /\ \A u \in Threads : view'[u].slots = view[u].slots
      /\ Phead' = Phead /\ Chead' = Chead
      /\ \A b \in Blocks : /\ Allocated(b)' = IF b = n THEN x ELSE Allocated(b)
                           /\ Committed(b)' = Committed(b)
                           /\ Reserved(b)' = Reserved(b) /\ Consumed(b)' = Consumed(b)
  BY <1>3 DEF Puts
<1>7. /\ ConsumerKnows(c)'
      /\ \A b \in Blocks : /\ ConsumerBlock(c, b)'
                           /\ \A s \in Slots : /\ ConsumerSees(c, b, s)'
                                               /\ entries[b][s] = -1 => Carried(p, "consumed", b, s)'
  BY <1>3, <1>4, <1>5, PushPuts
<1>8. Latest(p, <<"phead", 0>>)' /\ \A b \in Blocks : Latest(p, <<"allocated", b>>)'
  BY <1>0, <1>6, Facts, WordNames DEF ProducerKnows, ProducerBlock
<1>9. Allocated(Block(p)).i = BlockSize /\ Block(p) = h.i /\ Block(p) \in Blocks /\ h.i # n
  <2>1. Allocated(Block(p)).i = BlockSize /\ Block(p) = h.i /\ Block(p) \in Blocks
    BY <1>0, Facts DEF ProducerKnows
  <2>2. QED
    BY <1>0, <2>1, HeadLemma DEF n
<1>10. ProducerKnows(p)'
  BY <1>1, <1>5, <1>6, <1>8, <1>9 DEF ProducerKnows
<1>11. ASSUME NEW b \in Blocks
       PROVE  ProducerBlock(p, b)'
  <2>1. /\ ProducerBlock(p, b) /\ PushedTo(p) = Phead
        /\ PushedTo(p)' = VersionIncAdd(NumBlocks, Phead)
    BY <1>0, <1>5, <1>6, Facts DEF PushedTo
  <2>2. /\ ~ At(p, {"produce", "commit"}, b) /\ ~ Opens(p, "max_committed", b)
        /\ ~ At(p, {"produce", "commit"}, b)' /\ ~ Opens(p, "max_committed", b)'
        /\ ~ Opens(p, "max_allocated", b)'
        /\ Opens(p, "max_allocated", b) <=> b = n
    BY <1>0, <1>5 DEF At, Opens, n
  <2>3. /\ VersionIncAdd(NumBlocks, Phead).i = n
        /\ VersionAt(b, VersionIncAdd(NumBlocks, Phead)) = IF b = n THEN h.v + 1 ELSE VersionAt(b, Phead)
    BY <1>0, <1>1, HeadLemma DEF n
  <2>4. ComeTo(Allocated(b)', b, VersionIncAdd(NumBlocks, Phead))
    <3>1. CASE b = n
      BY <1>2, <1>6, <2>3, <3>1 DEF ComeTo
    <3>2. CASE b # n
      <4>1. ComeTo(Allocated(b), b, Phead)
        BY <2>1 DEF ProducerBlock
      <4>2. Allocated(b).i = BlockSize
        BY <1>1, <1>9, <3>2, <4>1 DEF ComeTo
      <4>3. QED
        BY <1>6, <2>3, <3>2, <4>1, <4>2 DEF ComeTo
    <3>3. QED
      BY <3>1, <3>2
  <2>5. Committed(b)' = Allocated(b)' /\ Allocated(b)'.i <= BlockSize
    BY <1>2, <1>6, <2>1, <2>2 DEF ProducerBlock, x
  <2>6. ComeTo(Allocated(b), b, PushedTo(p))'
    BY <2>1, <2>4 DEF ComeTo
  <2>7. QED
    BY <1>5, <1>8, <2>2, <2>5, <2>6 DEF ProducerBlock
<1>12. ASSUME NEW b \in Blocks
       PROVE  /\ Leads(b)'
              /\ \A s \in Slots : EntryHeld(b, s)' /\ ProducerSees(p, b, s)'
  <2>1. Leads(b)'
    BY <1>6, Facts DEF Leads
  <2>2. ASSUME NEW s \in Slots
        PROVE  EntryHeld(b, s)'
    <3>1. EntryHeld(b, s)
      BY Facts
    <3>2. Slot(c)' = Slot(c) /\ pc'[c] = pc[c]
      BY <1>5, IdlesLemma DEF Idles
    <3>3. Filled(b, s)' <=> Filled(b, s)
      BY <1>0, <1>5, <1>6, <3>2 DEF Filled, Lone
    <3>4. QED
      BY <1>4, <1>6, <3>1, <3>3 DEF EntryHeld
  <2>3. ASSUME NEW s \in Slots
        PROVE  ProducerSees(p, b, s)'
    <3>1. ProducerSees(p, b, s)
      BY Facts
    <3>2. /\ ~ Opens(p, "max_committed", b)' /\ pc'[p] # "produce" /\ ~ Opens(p, "max_allocated", b)'
          /\ b = n => Opens(p, "max_allocated", b)
      BY <1>0, <1>5 DEF Opens, n
    <3>3. QED
      BY <1>0, <1>4, <1>6, <1>7, <3>1, <3>2 DEF ProducerSees
  <2>4. QED
    BY <2>1, <2>2, <2>3
<1>13. WeakInv'
  BY <1>0, <1>6, <1>7, <1>10, <1>11, <1>12, Assemble DEF Memory
<1>14. TypeOK'
  <2>1. "max_phead" \in Ring!ProducerSteps
    BY DEF Ring!ProducerSteps
  <2>2. QED
    BY <1>0, <1>4, <1>6, <2>1, Locals, MovesLemma
<1>15. QED
  BY <1>0, <1>13, <1>14 DEF Holds, Lone

(* and then it moves the head.                                             *)
LEMMA MaxPheadKeeps ==
    ASSUME NEW p, NEW c, Holds(p, c), MaxPhead(p)
    PROVE  Holds(p, c)'
<1> DEFINE w == <<"phead", 0>>
           x == VersionIncAdd(NumBlocks, Phead)
<1>0. /\ Lone(p, c) /\ TypeOK /\ MemoryInv /\ p \in Threads /\ c \in Threads /\ p # c /\ p \notin Consumers
      /\ w \in Words /\ pc[p] = "max_phead" /\ Phead \in Heads /\ Chead \in Heads
  BY Parts, Facts, WordNames DEF Lone, MaxPhead, FetchMax, Update
<1>1. head[p] = Phead
  BY <1>0, Facts DEF ProducerKnows
<1>2. x \in Heads /\ x \in Pair /\ MaxPair(Phead, x) = x /\ AtMost(Phead, x)
  <2>1. x \in Heads /\ MaxPair(Phead, x) = x
    BY <1>0, HeadLemma
  <2>2. x \in Pair /\ Phead \in Pair
    BY <1>0, <2>1, HeadLemma
  <2>3. QED
    BY <2>1, <2>2, MaxPairLemma
<1>3. Puts(p, "phead", 0, x)
  <2>1. Update(p, "max_phead", w, x, FALSE)
    BY <1>1, <1>2 DEF MaxPhead, FetchMax, Phead
  <2>2. AtMost(Last(w), x)
    BY <1>2 DEF Phead
  <2>3. QED
    BY <1>0, <1>2, <2>1, <2>2, Wrote
<1>4. Moves(p, "load_phead", Zero, Zero) /\ entries' = entries
  BY Locals DEF MaxPhead, Ring!MaxPhead, Ring!Leave, Ring!Goto, Ring!Zero, Ring!FromParts,
                Zero, FromParts, Moves
<1>5. pc'[p] = "load_phead" /\ Idles(c)
  BY <1>0, <1>4, MovesTo
<1> HIDE DEF x
<1>6. /\ Memory /\ \A u \in Words : Latest(p, u) => Latest(p, u)'
      /\ \A u \in Threads : view'[u].slots = view[u].slots
      /\ Phead' = x /\ Chead' = Chead
      /\ \A b \in Blocks : /\ Allocated(b)' = Allocated(b) /\ Committed(b)' = Committed(b)
                           /\ Reserved(b)' = Reserved(b) /\ Consumed(b)' = Consumed(b)
  BY <1>3 DEF Puts
<1>7. /\ ConsumerKnows(c)'
      /\ \A b \in Blocks : /\ ConsumerBlock(c, b)'
                           /\ \A s \in Slots : /\ ConsumerSees(c, b, s)'
                                               /\ entries[b][s] = -1 => Carried(p, "consumed", b, s)'
  BY <1>3, <1>4, <1>5, PushPuts
<1>8. ProducerKnows(p)'
  BY <1>0, <1>5, <1>6, Facts DEF ProducerKnows
<1>9. ASSUME NEW b \in Blocks
      PROVE  /\ ProducerBlock(p, b)' /\ Leads(b)'
             /\ \A s \in Slots : EntryHeld(b, s)' /\ ProducerSees(p, b, s)'
  <2>1. /\ ProducerBlock(p, b) /\ PushedTo(p) = PushedTo(p)' /\ <<"allocated", b>> \in Words
    BY <1>0, <1>5, <1>6, Facts, WordNames DEF PushedTo, x
  <2>2. /\ ~ At(p, {"produce", "commit"}, b) /\ ~ Opens(p, "max_allocated", b)
        /\ ~ At(p, {"produce", "commit"}, b)' /\ ~ Opens(p, "max_committed", b)'
        /\ ~ Opens(p, "max_allocated", b)'
    BY <1>0, <1>5 DEF At, Opens
  <2>3. ProducerBlock(p, b)'
    BY <1>6, <2>1, <2>2 DEF ProducerBlock
  <2>4. Leads(b)'
    BY <1>6, Facts DEF Leads
  <2>5. ASSUME NEW s \in Slots
        PROVE  EntryHeld(b, s)' /\ ProducerSees(p, b, s)'
    <3>1. EntryHeld(b, s) /\ ProducerSees(p, b, s)
      BY Facts
    <3>2. Slot(c)' = Slot(c) /\ pc'[c] = pc[c]
      BY <1>5, IdlesLemma DEF Idles
    <3>3. Filled(b, s)' <=> Filled(b, s)
      BY <1>0, <1>5, <1>6, <3>2 DEF Filled, Lone
    <3>4. EntryHeld(b, s)'
      BY <1>4, <1>6, <3>1, <3>3 DEF EntryHeld
    <3>5. ProducerSees(p, b, s)'
      BY <1>0, <1>4, <1>5, <1>6, <1>7, <2>2, <3>1 DEF ProducerSees
    <3>6. QED
      BY <3>4, <3>5
  <2>6. QED
    BY <2>3, <2>4, <2>5
<1>10. WeakInv'
  BY <1>0, <1>6, <1>7, <1>8, <1>9, Assemble DEF Memory
<1>11. TypeOK'
  <2>1. "load_phead" \in Ring!ProducerSteps
    BY DEF Ring!ProducerSteps
  <2>2. QED
    BY <1>0, <1>2, <1>4, <1>6, <2>1, Locals, MovesLemma
<1>12. QED
  BY <1>0, <1>10, <1>11 DEF Holds, Lone
-----------------------------------------------------------------------------
(* An access changes no word and no position in one.                       *)
Accesses(t) ==
    /\ mem' \in [Words -> Seq(Values)] /\ view' \in [Threads -> Views] /\ MemoryInv'
    /\ Phead' = Phead /\ Chead' = Chead
    /\ \A b \in Blocks : /\ Allocated(b)' = Allocated(b) /\ Committed(b)' = Committed(b)
                         /\ Reserved(b)' = Reserved(b) /\ Consumed(b)' = Consumed(b)
    /\ \A u \in Threads, w \in Words : /\ Latest(u, w) => Latest(u, w)'
                                       /\ Known(u, w)' = Known(u, w)
    /\ Slot(t) \in view'[t].slots
    /\ \A u \in Threads : \A a \in view[u].slots : a # Slot(t) => a \in view'[u].slots
    /\ \A name : \A u \in Threads, b \in Blocks, s \in Slots :
           <<name, b>> \in Words /\ <<b, s>> # Slot(t) /\ Carried(u, name, b, s) => Carried(u, name, b, s)'

(* What the invariant needs of an access.                                  *)
LEMMA AccessEffect ==
    ASSUME NEW p, NEW c, Holds(p, c), NEW t \in Threads, NEW step,
           Slot(t) \in Blocks \X Slots, Access(t, step)
    PROVE  Accesses(t)
<1>0. Lone(p, c) /\ TypeOK /\ MemoryInv
  BY Parts
<1>1. /\ mem' \in [Words -> Seq(Values)] /\ view' \in [Threads -> Views]
      /\ MemoryInv'
      /\ \A w \in Words : Same(w)
      /\ \A u \in Threads, w \in Words : view'[u].at[w] = view[u].at[w]
      /\ view'[t].slots = view[t].slots \cup {Slot(t)}
      /\ \A u \in Threads \ {t} : view'[u].slots = view[u].slots \ {Slot(t)}
      /\ \A w \in Words : \A k \in 1 .. Len(mem[w]) :
             mem'[w][k].view.slots = mem[w][k].view.slots \ {Slot(t)}
  BY <1>0, AccessLemma
<1>2. \A w \in Words : Last(w)' = Last(w) /\ Len(mem'[w]) = Len(mem[w])
  BY <1>0, <1>1, SameLast
<1>3. /\ Phead' = Phead /\ Chead' = Chead
      /\ \A b \in Blocks : /\ Allocated(b)' = Allocated(b) /\ Committed(b)' = Committed(b)
                           /\ Reserved(b)' = Reserved(b) /\ Consumed(b)' = Consumed(b)
  BY <1>0, <1>2, WordNames DEF Phead, Chead, Allocated, Committed, Reserved, Consumed
<1>4. ASSUME NEW u \in Threads, NEW w \in Words
      PROVE  (Latest(u, w) => Latest(u, w)') /\ Known(u, w)' = Known(u, w)
  <2>1. view[u].at[w] \in 1 .. Len(mem[w])
    BY <1>0, KnownLemma
  <2>2. QED
    BY <1>1, <1>2, <2>1 DEF Latest, Known, Same
<1>5. /\ Slot(t) \in view'[t].slots
      /\ \A u \in Threads : \A a \in view[u].slots : a # Slot(t) => a \in view'[u].slots
  BY <1>1
<1>6. ASSUME NEW u \in Threads, NEW name, NEW b \in Blocks, NEW s \in Slots,
             <<name, b>> \in Words, <<b, s>> # Slot(t), Carried(u, name, b, s)
      PROVE  Carried(u, name, b, s)'
  <2> DEFINE w == <<name, b>>
  <2>1. w \in Words /\ DOMAIN mem[w] = 1 .. Len(mem[w]) /\ DOMAIN mem'[w] = 1 .. Len(mem[w])
    BY <1>0, <1>1, <1>2, <1>6, WordLemma, LenProperties
  <2>2. ASSUME NEW k \in DOMAIN mem'[w], view'[u].at[w] <= k,
               mem'[w][k].value.v = Last(w)'.v, s < mem'[w][k].value.i
        PROVE  <<b, s>> \in mem'[w][k].view.slots \cup view'[u].slots
    <3>1. k \in DOMAIN mem[w] /\ k \in 1 .. Len(mem[w])
      BY <2>1, <2>2
    <3>2. mem'[w][k].value = mem[w][k].value /\ mem'[w][k].view.slots = mem[w][k].view.slots \ {Slot(t)}
      BY <1>1, <2>1, <3>1 DEF Same
    <3>3. view[u].at[w] <= k /\ mem[w][k].value.v = Last(w).v /\ s < mem[w][k].value.i
      BY <1>1, <1>2, <2>1, <2>2, <3>2
    <3>4. <<b, s>> \in mem[w][k].view.slots \cup view[u].slots
      BY <1>6, <3>1, <3>3 DEF Carried
    <3>5. QED
      BY <1>5, <1>6, <3>2, <3>4
  <2>3. QED
    BY <2>2 DEF Carried
<1>7. QED
  BY <1>1, <1>3, <1>4, <1>5, <1>6 DEF Accesses

(* The slot is free and nobody else's: those the consumer has to itself    *)
(* are committed ones, and the producer's is the first that is not.        *)
LEMMA ProduceKeeps ==
    ASSUME NEW p, NEW c, Holds(p, c), Produce(p)
    PROVE  Holds(p, c)'
<1> DEFINE n == Block(p)
           f == seen[p]
<1>0. /\ Lone(p, c) /\ TypeOK /\ MemoryInv /\ p \in Threads /\ c \in Threads /\ p # c /\ p \notin Consumers
      /\ n \in Blocks /\ n = head[p].i /\ f \in Pair /\ head[p] \in Heads /\ pc[p] = "produce"
      /\ Phead \in Heads /\ Chead \in Heads /\ head[p] = Phead
      /\ Slot(p) = <<n, f.i>> /\ At(p, {"produce", "commit"}, n)
  BY Parts, Facts, WordNames DEF Lone, Produce, Access, ProducerKnows, Slot, At
<1>1. /\ Allocated(n) = FromParts(f.v, f.i + 1) /\ Committed(n) = f
      /\ f.i \in Slots /\ f.v \in Nat
  <2>1. /\ Allocated(n) = FromParts(f.v, f.i + 1) /\ Committed(n) = f
        /\ Allocated(n).i <= BlockSize
    BY <1>0, Facts DEF ProducerBlock
  <2>2. QED
    BY <1>0, <2>1 DEF FromParts, Slots, Pair
<1>2. Accesses(p)
  <2>1. Slot(p) \in Blocks \X Slots /\ Access(p, "produce")
    BY <1>0, <1>1 DEF Produce
  <2>2. QED
    BY <1>0, <2>1, AccessEffect
<1>3. /\ Moves(p, "commit", head[p], f)
      /\ entries' = [entries EXCEPT ![n][f.i] = f.v]
  BY <1>0, Locals DEF Produce, Ring!Produce, Ring!Goto, Moves, Block
<1>4. /\ pc'[p] = "commit" /\ head'[p] = head[p] /\ seen'[p] = f /\ Block(p)' = n
      /\ Slot(p)' = <<n, f.i>> /\ Idles(c)
  BY <1>0, <1>3, MovesTo
<1>5. /\ entries \in [Blocks -> [Slots -> Nat \cup {-1}]]
      /\ entries'[n][f.i] = f.v
      /\ \A b \in Blocks, s \in Slots : <<b, s>> # <<n, f.i>> => entries'[b][s] = entries[b][s]
  BY <1>0, <1>1, <1>3, Locals
<1>6. entries' \in [Blocks -> [Slots -> Nat \cup {-1}]]
  BY <1>0, <1>1, <1>3, <1>5
<1>7. /\ Slot(c)' = Slot(c) /\ pc'[c] = pc[c] /\ seen'[c] = seen[c] /\ head'[c] = head[c]
      /\ Block(c)' = Block(c) /\ NextBlock(c)' = NextBlock(c) /\ Opening(c)' = Opening(c)
      /\ \A steps, b : At(c, steps, b)' = At(c, steps, b)
      /\ \A step, b : Opens(c, step, b)' = Opens(c, step, b)
  BY <1>4, IdlesLemma DEF Idles
<1>8. ConsumerKnows(c)' /\ \A b \in Blocks : ConsumerBlock(c, b)'
  <2>1. ConsumerKnows(c) /\ Block(c) \in Blocks /\ \A b \in Blocks : ConsumerBlock(c, b)
    BY <1>0, Facts
  <2>2. PoppedTo(c)' = PoppedTo(c)
    BY <1>2, <1>7 DEF PoppedTo, Accesses
  <2>3. /\ <<"chead", 0>> \in Words
        /\ \A b \in Blocks : <<"committed", b>> \in Words /\ <<"reserved", b>> \in Words
    BY <1>0, WordNames
  <2>4. ConsumerKnows(c)'
    BY <1>0, <1>2, <1>7, <2>1, <2>3 DEF ConsumerKnows, Accesses
  <2>5. ASSUME NEW b \in Blocks
        PROVE  ConsumerBlock(c, b)'
    BY <1>0, <1>2, <1>7, <2>1, <2>2, <2>3 DEF ConsumerBlock, Accesses
  <2>6. QED
    BY <2>4, <2>5
<1>9. ProducerKnows(p)' /\ \A b \in Blocks : ProducerBlock(p, b)'
  <2>1. ProducerKnows(p) /\ \A b \in Blocks : ProducerBlock(p, b)
    BY <1>0, Facts
  <2>2. PushedTo(p)' = PushedTo(p)
    BY <1>0, <1>2, <1>4 DEF PushedTo, Accesses
  <2>3. <<"phead", 0>> \in Words /\ \A b \in Blocks : <<"allocated", b>> \in Words
    BY <1>0, WordNames
  <2>4. ProducerKnows(p)'
    BY <1>0, <1>2, <1>4, <2>1, <2>3 DEF ProducerKnows, Accesses
  <2>5. ASSUME NEW b \in Blocks
        PROVE  ProducerBlock(p, b)'
    <3>1. /\ ~ Opens(p, "max_allocated", b) /\ ~ Opens(p, "max_allocated", b)'
          /\ ~ Opens(p, "max_committed", b)'
          /\ At(p, {"produce", "commit"}, b) <=> b = n
          /\ At(p, {"produce", "commit"}, b)' <=> b = n
      BY <1>0, <1>4 DEF Opens, At
    <3>2. QED
      BY <1>0, <1>2, <1>4, <2>1, <2>2, <2>3, <3>1 DEF ProducerBlock, Accesses
  <2>6. QED
    BY <2>4, <2>5
(* What the consumer may be doing is behind the slot.                      *)
<1>10. Committed(n).v = Consumed(n).v =>
           /\ Consumed(n).i <= f.i
           /\ ~ (pc[c] = "release" /\ Slot(c) = <<n, f.i>>)
  <2>1. ConsumerBlock(c, n) /\ AtMost(Consumed(n), Committed(n)) /\ AtMost(Reserved(n), Committed(n))
    BY <1>0, Facts, NextLemma
  <2>2. Consumed(n) \in Pair /\ Reserved(n) \in Pair /\ seen[c] \in Pair
    BY <1>0, Facts
  <2>3. Committed(n).v = Consumed(n).v => Consumed(n).i <= f.i
    BY <1>1, <2>1, <2>2 DEF AtMost, Pair
  <2>4. ASSUME pc[c] = "release", Slot(c) = <<n, f.i>>, Committed(n).v = Consumed(n).v
        PROVE  FALSE
    <3>1. At(c, {"consume", "release"}, n) /\ seen[c].i = f.i
      BY <2>4 DEF At, Slot
    <3>2. Reserved(n) = FromParts(seen[c].v, seen[c].i + 1) /\ Consumed(n) = seen[c]
      BY <2>1, <3>1 DEF ConsumerBlock
    <3>3. QED
      BY <1>0, <1>1, <2>1, <2>2, <2>4, <3>1, <3>2 DEF AtMost, FromParts, Pair
  <2>5. QED
    BY <2>3, <2>4
<1>11. pc[c] \in {"load_allocated", "max_reserved", "consume"} => Slot(c) # <<n, f.i>>
  <2>1. SUFFICES ASSUME pc[c] \in {"load_allocated", "max_reserved", "consume"}, Slot(c) = <<n, f.i>>
                 PROVE  FALSE
    OBVIOUS
  <2>2. /\ ConsumerBlock(c, n) /\ AtMost(Reserved(n), Committed(n))
        /\ Consumed(n).i < BlockSize => Consumed(n).v = Committed(n).v
        /\ ConsumerKnows(c) /\ Reserved(n) \in Pair /\ seen[c] \in Pair
        /\ <<"committed", n>> \in Words
    BY <1>0, Facts, NextLemma, WordNames
  <2>3. Block(c) = n /\ seen[c].i = f.i
    BY <2>1 DEF Slot
  <2>4. CASE pc[c] = "consume"
    <3>1. At(c, {"consume", "release"}, n)
      BY <2>3, <2>4 DEF At
    <3>2. /\ Reserved(n) = FromParts(seen[c].v, seen[c].i + 1) /\ Consumed(n) = seen[c]
          /\ Reserved(n).i <= BlockSize
      BY <2>2, <3>1 DEF ConsumerBlock
    <3>3. QED
      BY <1>0, <1>1, <2>2, <2>3, <3>2 DEF AtMost, FromParts, Pair, Slots
  <2>5. CASE pc[c] \in {"load_allocated", "max_reserved"}
    <3>1. ~ At(c, {"consume", "release"}, n) /\ ~ Opens(c, "reset_reserved", n)
      BY <2>5 DEF At, Opens
    <3>2. /\ Reserved(n) = seen[c] /\ Consumed(n) = Reserved(n) /\ seen[c].i < BlockSize
          /\ AtMost(FromParts(seen[c].v, seen[c].i + 1), Known(c, <<"committed", n>>))
      BY <2>2, <2>3, <2>5, <3>1 DEF ConsumerBlock, ConsumerKnows
    <3>3. Known(c, <<"committed", n>>) \in Pair /\ AtMost(Known(c, <<"committed", n>>), Committed(n))
      BY <1>0, <2>2, KnownLemma DEF Committed
    <3>4. QED
      BY <1>0, <1>1, <2>2, <2>3, <3>2, <3>3 DEF AtMost, FromParts, Pair, Slots
  <2>6. QED
    BY <2>1, <2>4, <2>5
<1>12. ASSUME NEW b \in Blocks
       PROVE  Leads(b)' /\ \A s \in Slots : EntryHeld(b, s)' /\ ProducerSees(p, b, s)' /\ ConsumerSees(c, b, s)'
  <2>1. Leads(b)'
    BY <1>2, Facts DEF Leads, Accesses
  <2>2. ASSUME NEW s \in Slots
        PROVE  EntryHeld(b, s)' /\ ProducerSees(p, b, s)' /\ ConsumerSees(c, b, s)'
    <3>1. EntryHeld(b, s) /\ ProducerSees(p, b, s) /\ ConsumerSees(c, b, s)
      BY Facts
    <3>2. /\ <<"committed", b>> \in Words /\ <<"consumed", b>> \in Words
      BY <1>0, WordNames
    <3>3. CASE <<b, s>> = <<n, f.i>>
      <4>1. b = n /\ s = f.i
        BY <3>3
      <4>2. Filled(b, s)'
        BY <1>0, <1>2, <1>4, <1>7, <1>10, <4>1 DEF Filled, Accesses, Lone
      <4>3. EntryHeld(b, s)'
        BY <1>1, <1>2, <1>5, <4>1, <4>2 DEF EntryHeld, Accesses
      <4>4. entries'[b][s] # -1
        BY <1>1, <1>5, <4>1
      <4>5. ProducerSees(p, b, s)'
        BY <1>0, <1>2, <4>1, <4>4 DEF ProducerSees, Accesses
      <4>6. Carried(c, "committed", b, s)'
        <5>1. ASSUME NEW k \in DOMAIN mem'[<<"committed", b>>],
                     mem'[<<"committed", b>>][k].value.v = Committed(b).v
              PROVE  ~ (s < mem'[<<"committed", b>>][k].value.i)
          <6>1. /\ mem'[<<"committed", b>>] \in Seq(Values) /\ mem'[<<"committed", b>>] # <<>>
                /\ Last(<<"committed", b>>)' = Committed(b)
            BY <1>2, <3>2 DEF Accesses, MemoryInv, Committed
          <6>2. LET l == Len(mem'[<<"committed", b>>])
                IN  l \in DOMAIN mem'[<<"committed", b>>] /\ k <= l
            BY <6>1, EmptySeq, LenProperties
          <6>3. /\ AtMost(mem'[<<"committed", b>>][k].value, Committed(b))
                /\ mem'[<<"committed", b>>][k].value \in Pair
            <7>1. mem'[<<"committed", b>>][k] \in Values
              BY <6>1, ElementOfSeq, LenProperties
            <7>2. AtMost(mem'[<<"committed", b>>][k].value, Last(<<"committed", b>>)')
              BY <1>2, <3>2, <6>2 DEF Accesses, MemoryInv, Last
            <7>3. QED
              BY <6>1, <7>1, <7>2 DEF Values
          <6>4. QED
            BY <1>1, <4>1, <5>1, <6>3 DEF AtMost, Pair, Slots
        <5>2. Last(<<"committed", b>>)' = Committed(b)
          BY <1>2 DEF Accesses, Committed
        <5>3. QED
          BY <5>1, <5>2 DEF Carried
      <4>7. ConsumerSees(c, b, s)'
        BY <1>7, <1>11, <4>1, <4>4, <4>6 DEF ConsumerSees
      <4>8. QED
        BY <4>3, <4>5, <4>7
    <3>4. CASE <<b, s>> # <<n, f.i>>
      <4>1. entries'[b][s] = entries[b][s]
        BY <1>5, <3>4
      <4>2. Filled(b, s)' <=> Filled(b, s)
        BY <1>0, <1>2, <1>4, <1>7, <3>4 DEF Filled, Accesses, Lone
      <4>3. EntryHeld(b, s)'
        BY <1>2, <3>1, <4>1, <4>2 DEF EntryHeld, Accesses
      <4>4. /\ ~ Opens(p, "max_allocated", b)' /\ ~ Opens(p, "max_committed", b)' /\ pc'[p] # "produce"
            /\ <<b, s>> \in view[p].slots => <<b, s>> \in view'[p].slots
            /\ <<b, s>> \in view[c].slots => <<b, s>> \in view'[c].slots
            /\ Carried(p, "consumed", b, s) => Carried(p, "consumed", b, s)'
            /\ Carried(c, "committed", b, s) => Carried(c, "committed", b, s)'
        <5>1. ~ Opens(p, "max_allocated", b)' /\ ~ Opens(p, "max_committed", b)' /\ pc'[p] # "produce"
          BY <1>4 DEF Opens
        <5>2. <<b, s>> # Slot(p)
          BY <1>0, <3>4
        <5>3. /\ <<b, s>> \in view[p].slots => <<b, s>> \in view'[p].slots
              /\ <<b, s>> \in view[c].slots => <<b, s>> \in view'[c].slots
          BY <1>0, <1>2, <5>2 DEF Accesses
        <5>4. /\ Carried(p, "consumed", b, s) => Carried(p, "consumed", b, s)'
              /\ Carried(c, "committed", b, s) => Carried(c, "committed", b, s)'
          BY <1>0, <1>2, <3>2, <5>2 DEF Accesses
        <5>5. QED
          BY <5>1, <5>3, <5>4
      <4>5. ProducerSees(p, b, s)'
        BY <1>2, <3>1, <4>1, <4>4 DEF ProducerSees, Accesses
      <4>6. ConsumerSees(c, b, s)'
        BY <1>7, <3>1, <4>1, <4>4 DEF ConsumerSees
      <4>7. QED
        BY <4>3, <4>5, <4>6
    <3>5. QED
      BY <3>3, <3>4
  <2>3. QED
    BY <2>1, <2>2
<1>13. WeakInv'
  BY <1>0, <1>2, <1>8, <1>9, <1>12, Assemble DEF Accesses
<1>14. TypeOK'
  <2>1. "commit" \in Ring!ProducerSteps
    BY DEF Ring!ProducerSteps
  <2>2. QED
    BY <1>0, <1>2, <1>3, <1>6, <2>1, Locals, TypesKept DEF Accesses
<1>15. QED
  BY <1>0, <1>13, <1>14 DEF Holds, Lone

(* What is committed is released with everything the producer comes after. *)
LEMMA CommitKeeps ==
    ASSUME NEW p, NEW c, Holds(p, c), Commit(p)
    PROVE  Holds(p, c)'
<1> DEFINE n == Block(p)
           w == <<"committed", n>>
           f == seen[p]
           x == FromParts(f.v, f.i + 1)
<1>0. /\ Lone(p, c) /\ TypeOK /\ MemoryInv /\ p \in Threads /\ c \in Threads /\ p # c /\ p \notin Consumers
      /\ n \in Blocks /\ n = head[p].i /\ w \in Words /\ f \in Pair /\ pc[p] = "commit"
      /\ Phead \in Heads /\ Chead \in Heads /\ Slot(p) = <<n, f.i>> /\ At(p, {"produce", "commit"}, n)
      /\ c \in Loaders(w)
  BY Parts, Facts, WordNames DEF Lone, Commit, FetchAdd, Update, Slot, At
<1>1. /\ Allocated(n) = x /\ Committed(n) = f /\ f.i < BlockSize /\ x.v = f.v /\ x.i = f.i + 1
      /\ x \in Pair /\ f.i \in Nat
  <2>1. Allocated(n) = x /\ Committed(n) = f /\ Allocated(n).i <= BlockSize
    BY <1>0, Facts DEF ProducerBlock
  <2>2. QED
    BY <1>0, <2>1 DEF FromParts, Pair
<1>2. Incr(IndexSpan, Last(w)) = x /\ AtMost(Last(w), x) /\ Last(w) = f /\ x # f
  BY <1>0, <1>1 DEF Incr, FromParts, Pair, Committed, AtMost
<1> HIDE DEF x
<1>3. /\ Puts(p, "committed", n, x)
      /\ view[p].slots \subseteq mem'[w][Len(mem[w]) + 1].view.slots
  <2>1. Update(p, "commit", w, x, TRUE)
    BY <1>2 DEF Commit, FetchAdd
  <2>2. QED
    BY <1>0, <1>1, <1>2, <2>1, Wrote
<1>4. Moves(p, "idle", Zero, Zero) /\ entries' = entries
  BY Locals DEF Commit, Ring!Commit, Ring!Return, Ring!Leave, Ring!Goto, Ring!Zero, Ring!FromParts,
                Zero, FromParts, Moves
<1>5. pc'[p] = "idle" /\ Idles(c)
  BY <1>0, <1>4, MovesTo
<1> HIDE DEF n
<1>6. /\ Memory /\ \A u \in Words : Latest(p, u) => Latest(p, u)'
      /\ \A u \in Threads : view'[u].slots = view[u].slots
      /\ Phead' = Phead /\ Chead' = Chead
      /\ \A b \in Blocks : /\ Committed(b)' = IF b = n THEN x ELSE Committed(b)
                           /\ Allocated(b)' = Allocated(b)
                           /\ Reserved(b)' = Reserved(b) /\ Consumed(b)' = Consumed(b)
  BY <1>3 DEF Puts
<1>7. ASSUME NEW b \in Blocks, b = n, NEW s \in Slots, entries[b][s] # -1
      PROVE  Carried(c, "committed", b, s)'
  <2>1. ConsumerSees(c, b, s) /\ ProducerSees(p, b, s)
    BY <1>0, Facts
  <2>2. Carried(c, "committed", b, s) /\ <<b, s>> \in view[p].slots
    BY <1>7, <2>1 DEF ConsumerSees, ProducerSees
  <2>3. Writes(p, w, x) /\ s \in Nat
    BY <1>3 DEF Puts, Slots
  <2>4. x.v = Last(w).v /\ <<b, s>> \in mem'[w][Len(mem[w]) + 1].view.slots
    BY <1>1, <1>2, <1>3, <1>7, <2>2
  <2>5. \/ x.v > Last(w).v /\ x.i = 0
        \/ /\ x.v = Last(w).v
           /\ x # Last(w) => <<b, s>> \in mem'[w][Len(mem[w]) + 1].view.slots
    BY <2>4
  <2>6. QED
    BY <1>0, <1>1, <1>2, <1>7, <2>2, <2>3, <2>5, CarriedWritten
<1>8. /\ ConsumerKnows(c)'
      /\ \A b \in Blocks : /\ ConsumerBlock(c, b)'
                           /\ \A s \in Slots : /\ ConsumerSees(c, b, s)'
                                               /\ entries[b][s] = -1 => Carried(p, "consumed", b, s)'
  BY <1>3, <1>4, <1>5, <1>7, PushPuts
<1>9. ProducerKnows(p)'
  BY <1>0, <1>5, <1>6, Facts, WordNames DEF ProducerKnows
<1>10. ASSUME NEW b \in Blocks
       PROVE  /\ ProducerBlock(p, b)' /\ Leads(b)'
              /\ \A s \in Slots : EntryHeld(b, s)' /\ ProducerSees(p, b, s)'
  <2>1. /\ ProducerBlock(p, b) /\ PushedTo(p) = PushedTo(p)' /\ <<"allocated", b>> \in Words
    BY <1>0, <1>5, <1>6, Facts, WordNames DEF PushedTo
  <2>2. /\ At(p, {"produce", "commit"}, b) <=> b = n
        /\ ~ Opens(p, "max_allocated", b)
        /\ ~ At(p, {"produce", "commit"}, b)' /\ ~ Opens(p, "max_committed", b)'
        /\ ~ Opens(p, "max_allocated", b)'
    BY <1>0, <1>5 DEF At, Opens, n
  <2>3. ProducerBlock(p, b)'
    <3>1. Committed(b)' = Allocated(b)
      BY <1>1, <1>6, <2>1, <2>2 DEF ProducerBlock
    <3>2. QED
      BY <1>6, <2>1, <2>2, <3>1 DEF ProducerBlock
  <2>4. Leads(b)'
    BY <1>1, <1>6, Facts DEF Leads
  <2>5. ASSUME NEW s \in Slots
        PROVE  EntryHeld(b, s)' /\ ProducerSees(p, b, s)'
    <3>1. EntryHeld(b, s) /\ ProducerSees(p, b, s)
      BY Facts
    <3>2. Slot(c)' = Slot(c) /\ pc'[c] = pc[c]
      BY <1>5, IdlesLemma DEF Idles
    <3>3. Filled(b, s)' <=> Filled(b, s)
      <4>1. /\ (\E q \in Producers : pc[q] = "commit" /\ Slot(q) = <<b, s>>) <=> b = n /\ s = f.i
            /\ ~ \E q \in Producers : pc'[q] = "commit" /\ Slot(q)' = <<b, s>>
        BY <1>0, <1>5 DEF Lone
      <4>2. s < Committed(b)'.i <=> s < Committed(b).i \/ (b = n /\ s = f.i)
        BY <1>1, <1>6 DEF Slots
      <4>3. Committed(b)'.v = Committed(b).v
        BY <1>1, <1>6
      <4>4. (\E d \in Consumers : pc'[d] = "release" /\ Slot(d)' = <<b, s>>)
                <=> \E d \in Consumers : pc[d] = "release" /\ Slot(d) = <<b, s>>
        BY <1>0, <3>2 DEF Lone
      <4>5. QED
        BY <1>6, <4>1, <4>2, <4>3, <4>4 DEF Filled
    <3>4. EntryHeld(b, s)'
      BY <1>1, <1>4, <1>6, <3>1, <3>3 DEF EntryHeld
    <3>5. ProducerSees(p, b, s)'
      BY <1>0, <1>4, <1>5, <1>6, <1>8, <2>2, <3>1 DEF ProducerSees
    <3>6. QED
      BY <3>4, <3>5
  <2>6. QED
    BY <2>3, <2>4, <2>5
<1>11. WeakInv'
  BY <1>0, <1>6, <1>8, <1>9, <1>10, Assemble DEF Memory
<1>12. TypeOK'
  <2>1. "idle" \in Ring!ProducerSteps
    BY DEF Ring!ProducerSteps
  <2>2. QED
    BY <1>0, <1>4, <1>6, <2>1, Locals, MovesLemma
<1>13. QED
  BY <1>0, <1>11, <1>12 DEF Holds, Lone
-----------------------------------------------------------------------------
(* A step of the consumer that writes nothing.                             *)
LEMMA QuietPop ==
    ASSUME NEW p, NEW c, Holds(p, c), Loads(c), Idles(p), entries' = entries,
           pc[c] \in {"idle", "load_chead", "load_reserved", "load_committed", "load_allocated",
                      "check_committed"},
           NEW x \in {"idle", "load_chead", "load_reserved", "load_committed", "load_allocated",
                      "max_reserved", "check_committed", "max_consumed"},
           NEW h \in Heads, NEW f \in Pair, pc'[c] = x, head'[c] = h, seen'[c] = f,
           x \notin {"idle", "load_chead"} => h = Chead,
           x \in {"load_committed", "load_allocated", "max_reserved"} => Reserved(h.i) = f /\ f.i < BlockSize,
           x \in {"load_allocated", "max_reserved"} =>
               /\ AtMost(FromParts(f.v, f.i + 1), Known(c, <<"committed", h.i>>)')
               /\ <<h.i, f.i>> \in view'[c].slots,
           x \in {"check_committed", "max_consumed"} => Reserved(h.i).i = BlockSize,
           x = "max_consumed" =>
               AtMost(FromParts(h.v + 1, 0), Known(c, <<"committed", After(h)>>)')
    PROVE  WeakInv'
<1>0. /\ Lone(p, c) /\ TypeOK /\ MemoryInv /\ p \in Threads /\ c \in Threads /\ p # c
      /\ Memory /\ MemoryInv' /\ \A w \in Words : Same(w)
      /\ view[c].slots \subseteq view'[c].slots /\ view'[p].slots = view[p].slots
  BY Parts, WordNames DEF Loads, Memory
<1>1. /\ Phead' = Phead /\ Chead' = Chead
      /\ \A b \in Blocks : /\ Allocated(b)' = Allocated(b) /\ Committed(b)' = Committed(b)
                           /\ Reserved(b)' = Reserved(b) /\ Consumed(b)' = Consumed(b)
  BY <1>0, SameLast, WordNames DEF Phead, Chead, Allocated, Committed, Reserved, Consumed
<1>2. /\ Block(c)' = h.i /\ NextBlock(c)' = After(h) /\ Opening(c)' = FromParts(h.v + 1, 0)
      /\ Slot(c)' = <<h.i, f.i>>
  BY RingNames DEF Block, Ring!Block, NextBlock, Ring!NextBlock, After, Opening, Ring!Opening, Slot
<1>3. /\ Slot(p)' = Slot(p) /\ pc'[p] = pc[p]
      /\ \A steps, b : At(p, steps, b)' = At(p, steps, b)
      /\ \A step, b : Opens(p, step, b)' = Opens(p, step, b)
  BY IdlesLemma DEF Idles
<1>4. ProducerKnows(p)' /\ \A b \in Blocks : ProducerBlock(p, b)'
  <2>1. \A b \in Blocks : Consumed(b)' \in Pair /\ AtMost(Consumed(b), Consumed(b)')
    BY <1>1, Facts, AtMostIsOrder
  <2>2. QED
    BY <1>0, <2>1, ProducerKept, WordNames
<1>5. Latest(c, <<"chead", 0>>)' /\ \A b \in Blocks : Latest(c, <<"reserved", b>>)'
  <2>1. Latest(c, <<"chead", 0>>) /\ \A b \in Blocks : Latest(c, <<"reserved", b>>)
    BY Facts DEF ConsumerKnows, ConsumerBlock
  <2>2. QED
    BY <1>0, <2>1, LatestKept, WordNames
<1>6. h.i \in Blocks /\ h.v \in Nat
  BY HeadLemma
<1>7. ConsumerKnows(c)'
  <2>1. x \in {"load_committed", "load_allocated", "max_reserved"} =>
            Reserved(Block(c))' = f /\ f.i < BlockSize
    BY <1>1, <1>2, <1>6
  <2>2. x \in {"load_allocated", "max_reserved"} =>
            AtMost(FromParts(f.v, f.i + 1), Known(c, <<"committed", Block(c)>>)')
    BY <1>2
  <2>3. x \in {"check_committed", "max_consumed"} => Reserved(Block(c))'.i = BlockSize
    BY <1>1, <1>2, <1>6
  <2>4. QED
    BY <1>1, <1>5, <2>1, <2>2, <2>3 DEF ConsumerKnows
<1>8. ASSUME NEW b \in Blocks
      PROVE  ConsumerBlock(c, b)'
  <2>1. ConsumerBlock(c, b) /\ Reserved(b) \in Pair /\ <<"committed", b>> \in Words
    BY <1>0, Facts, WordNames
  <2>2. PoppedTo(c)' = PoppedTo(c)
    BY <1>1 DEF PoppedTo
  <2>3. /\ ~ At(c, {"consume", "release"}, b) /\ ~ Opens(c, "reset_reserved", b)
        /\ ~ At(c, {"consume", "release"}, b)' /\ ~ Opens(c, "reset_reserved", b)'
    BY DEF At, Opens
  <2>4. AtMost(Reserved(b), Known(c, <<"committed", b>>)')
    <3>1. /\ Known(c, <<"committed", b>>) \in Pair /\ Known(c, <<"committed", b>>)' \in Pair
          /\ AtMost(Known(c, <<"committed", b>>), Known(c, <<"committed", b>>)')
      BY <1>0, <2>1, KnownLemma, KnownOnward
    <3>2. AtMost(Reserved(b), Known(c, <<"committed", b>>))
      BY <2>1 DEF ConsumerBlock
    <3>3. QED
      BY <2>1, <3>1, <3>2, AtMostIsOrder
  <2>5. Opens(c, "max_consumed", b)' => AtMost(Opening(c)', Known(c, <<"committed", b>>)')
    BY <1>2 DEF Opens
  <2>6. QED
    BY <1>1, <1>5, <2>1, <2>2, <2>3, <2>4, <2>5 DEF ConsumerBlock
<1>9. ASSUME NEW b \in Blocks
      PROVE  /\ Leads(b)'
             /\ \A s \in Slots : EntryHeld(b, s)' /\ ProducerSees(p, b, s)' /\ ConsumerSees(c, b, s)'
  <2>1. Leads(b)'
    BY <1>1, Facts DEF Leads
  <2>2. ASSUME NEW s \in Slots
        PROVE  EntryHeld(b, s)'
    <3>1. EntryHeld(b, s)
      BY Facts
    <3>2. Filled(b, s)' <=> Filled(b, s)
      BY <1>0, <1>1, <1>3 DEF Filled, Lone
    <3>3. QED
      BY <1>1, <3>1, <3>2 DEF EntryHeld
  <2>3. ASSUME NEW s \in Slots
        PROVE  ProducerSees(p, b, s)'
    <3>1. ProducerSees(p, b, s)
      BY Facts
    <3>2. entries[b][s] = -1 => Carried(p, "consumed", b, s)'
      BY <1>0, <3>1, CarriedKept, WordNames DEF ProducerSees
    <3>3. QED
      BY <1>0, <1>1, <1>3, <3>1, <3>2 DEF ProducerSees
  <2>4. ASSUME NEW s \in Slots
        PROVE  ConsumerSees(c, b, s)'
    <3>1. ConsumerSees(c, b, s)
      BY Facts
    <3>2. entries[b][s] # -1 => Carried(c, "committed", b, s)'
      BY <1>0, <3>1, CarriedKept, WordNames DEF ConsumerSees
    <3>3. pc'[c] \in {"load_allocated", "max_reserved", "consume"} /\ Slot(c)' = <<b, s>> =>
              <<b, s>> \in view'[c].slots
      BY <1>2
    <3>4. QED
      BY <1>0, <3>1, <3>2, <3>3 DEF ConsumerSees
  <2>5. QED
    BY <2>1, <2>2, <2>3, <2>4
<1>10. QED
  BY <1>0, <1>4, <1>7, <1>8, <1>9, Assemble

(* QuietPop with the locals given by the step.                             *)
LEMMA QuietPopStep ==
    ASSUME NEW p, NEW c, Holds(p, c), Loads(c), entries' = entries,
           pc[c] \in {"idle", "load_chead", "load_reserved", "load_committed", "load_allocated",
                      "check_committed"},
           NEW x \in {"idle", "load_chead", "load_reserved", "load_committed", "load_allocated",
                      "max_reserved", "check_committed", "max_consumed"},
           NEW h \in Heads, NEW f \in Pair, Moves(c, x, h, f),
           x \notin {"idle", "load_chead"} => h = Chead,
           x \in {"load_committed", "load_allocated", "max_reserved"} => Reserved(h.i) = f /\ f.i < BlockSize,
           x \in {"load_allocated", "max_reserved"} =>
               /\ AtMost(FromParts(f.v, f.i + 1), Known(c, <<"committed", h.i>>)')
               /\ <<h.i, f.i>> \in view'[c].slots,
           x \in {"check_committed", "max_consumed"} => Reserved(h.i).i = BlockSize,
           x = "max_consumed" =>
               AtMost(FromParts(h.v + 1, 0), Known(c, <<"committed", After(h)>>)')
    PROVE  Holds(p, c)'
<1>0. Lone(p, c) /\ TypeOK /\ MemoryInv /\ p \in Threads /\ c \in Threads /\ p # c
  BY Parts, WordNames
<1>1. pc'[c] = x /\ head'[c] = h /\ seen'[c] = f /\ Idles(p)
  BY <1>0, MovesTo
<1>2. WeakInv'
  BY <1>1, QuietPop
<1>3. TypeOK'
  <2>1. Phead' = Phead /\ Chead' = Chead /\ Memory
    BY <1>0, SameLast, WordNames DEF Phead, Chead, Loads
  <2>2. x \in Ring!ConsumerSteps /\ c \notin Producers
    BY <1>0 DEF Ring!ConsumerSteps, Lone
  <2>3. Phead \in Heads /\ Chead \in Heads
    BY <1>0, Facts
  <2>4. QED
    BY <1>0, <2>1, <2>2, <2>3, Locals, MovesLemma
<1>4. QED
  BY <1>0, <1>2, <1>3 DEF Holds, Lone

(* The loads of a pop, one by one.                                         *)
LEMMA StartPopKeeps ==
    ASSUME NEW p, NEW c, Holds(p, c), StartPop(c)
    PROVE  Holds(p, c)'
<1>0. Lone(p, c) /\ TypeOK /\ MemoryInv /\ c \in Threads
  BY Parts
<1>1. Loads(c)
  BY <1>0, LocalLemma DEF StartPop, Local
<1>2. pc[c] = "idle" /\ Moves(c, "load_chead", head[c], seen[c]) /\ entries' = entries
  BY Locals DEF StartPop, Ring!StartPop, Ring!Goto, Moves
<1>3. head[c] \in Heads /\ seen[c] \in Pair
  BY <1>0, Facts
<1>4. QED
  BY <1>1, <1>2, <1>3, QuietPopStep

(* The consumer finds the last chead.                                      *)
LEMMA LoadCheadKeeps ==
    ASSUME NEW p, NEW c, Holds(p, c), LoadChead(c)
    PROVE  Holds(p, c)'
<1> DEFINE w == <<"chead", 0>>
<1>0. Lone(p, c) /\ c \in Threads /\ w \in Words /\ Chead \in Heads /\ seen[c] \in Pair /\ Latest(c, w)
  BY Parts, Facts, WordNames DEF ConsumerKnows
<1>1. PICK k \in DOMAIN mem[w] : Load(c, "load_chead", w, k, FALSE) /\ Loading(w, k)!LoadChead(c)
  BY DEF LoadChead
<1>2. Loads(c) /\ pc[c] = "load_chead" /\ mem[w][k].value = Chead
  BY <1>0, <1>1, LoadEffect DEF Chead
<1>3. Moves(c, "load_reserved", Chead, seen[c]) /\ entries' = entries
  <2>1. Found("chead", 0, w, k) = Chead
    BY <1>2 DEF Found
  <2>2. QED
    BY <1>1, <2>1, Locals DEF Loading!LoadChead, Loading!Goto, Moves
<1>4. QED
  BY <1>0, <1>2, <1>3, QuietPopStep

(* The consumer finds the last reserved of its block.                      *)
LEMMA LoadReservedKeeps ==
    ASSUME NEW p, NEW c, Holds(p, c), LoadReserved(c)
    PROVE  Holds(p, c)'
<1> DEFINE n == Block(c)
           w == <<"reserved", n>>
<1>0. /\ Lone(p, c) /\ c \in Threads /\ n \in Blocks /\ n = head[c].i /\ w \in Words
      /\ head[c] \in Heads /\ seen[c] \in Pair /\ Latest(c, w) /\ Reserved(n) \in Pair
      /\ Reserved(n).i <= BlockSize
  BY Parts, Facts, WordNames DEF ConsumerBlock
<1>1. PICK k \in DOMAIN mem[w] : Load(c, "load_reserved", w, k, FALSE) /\ Loading(w, k)!LoadReserved(c)
  BY DEF LoadReserved
<1>2. Loads(c) /\ pc[c] = "load_reserved" /\ mem[w][k].value = Reserved(n)
  BY <1>0, <1>1, LoadEffect DEF Reserved
<1>3. Found("reserved", n, w, k) = Reserved(n) /\ head[c] = Chead
  BY <1>2, Facts DEF Found, ConsumerKnows
<1>4. CASE Reserved(n).i >= BlockSize
  <2>1. Moves(c, "check_committed", head[c], seen[c]) /\ entries' = entries
    BY <1>0, <1>1, <1>3, <1>4, Locals
    DEF Loading!LoadReserved, Loading!Goto, Loading!BlockDone, Loading!Block, Moves
  <2>2. Reserved(head[c].i).i = BlockSize
    BY <1>0, <1>4 DEF Pair
  <2>3. QED
    BY <1>0, <1>2, <1>3, <2>1, <2>2, QuietPopStep
<1>5. CASE ~ (Reserved(n).i >= BlockSize)
  <2>1. Moves(c, "load_committed", head[c], Reserved(n)) /\ entries' = entries
    BY <1>0, <1>1, <1>3, <1>5, Locals
    DEF Loading!LoadReserved, Loading!Goto, Loading!BlockDone, Loading!Block, Moves
  <2>2. Reserved(head[c].i) = Reserved(n) /\ Reserved(n).i < BlockSize
    BY <1>0, <1>5 DEF Pair
  <2>3. QED
    BY <1>0, <1>2, <1>3, <2>1, <2>2, QuietPopStep
<1>6. QED
  BY <1>4, <1>5

(* The committed word the consumer finds may be old, but it counts a slot  *)
(* that is written and not read, and carries the producer's write of it.   *)
LEMMA LoadCommittedKeeps ==
    ASSUME NEW p, NEW c, Holds(p, c), LoadCommitted(c)
    PROVE  Holds(p, c)'
<1>1. PICK d \in Blocks, h \in Heads, f \in Pair : d = Block(c) /\ h = head[c] /\ f = seen[c]
  BY Parts, Facts
<1> DEFINE w == <<"committed", d>>
<1>2. /\ Lone(p, c) /\ c \in Threads /\ w \in Words /\ c \notin Producers /\ d = h.i
  BY <1>1, Parts, Facts, WordNames DEF Lone
<1>3. PICK k \in DOMAIN mem[w] :
          /\ Load(c, "load_committed", w, k, TRUE)
          /\ Loading(w, k)!ReportEmptyBlock(c) \/ Loading(w, k)!LoadCommitted(c)
  BY <1>1 DEF LoadCommitted
<1> DEFINE found == mem[w][k].value
<1>4. /\ Loads(c) /\ pc[c] = "load_committed" /\ found \in Pair /\ AtMost(found, Committed(d))
      /\ view[c].at[w] <= k /\ mem[w][k].view.slots \subseteq view'[c].slots
      /\ AtMost(Known(c, w), found) /\ AtMost(found, Known(c, w)') /\ Known(c, w)' \in Pair
      /\ Known(c, w) \in Pair
  <2>1. Known(c, w) \in Pair
    BY <1>2, Parts, KnownLemma
  <2>2. QED
    BY <1>2, <1>3, <2>1, LoadEffect DEF Committed
<1>5. /\ Reserved(d) = f /\ f.i < BlockSize /\ h = Chead
  BY <1>1, <1>4, Facts DEF ConsumerKnows
<1>6. Found("committed", d, w, k) = found /\ Loading(w, k)!Block(c) = d
  BY <1>1, <1>2 DEF Found, Loading!Block
<1>7. CASE Loading(w, k)!ReportEmptyBlock(c)
  <2>1. Moves(c, "idle", Zero, Zero) /\ entries' = entries
    BY <1>7, Locals
    DEF Loading!ReportEmptyBlock, Loading!Return, Loading!Leave, Loading!Goto, Loading!Zero,
        Loading!FromParts, Zero, FromParts, Moves
  <2>2. QED
    BY <1>4, <2>1, Locals, QuietPopStep
<1>8. CASE Loading(w, k)!LoadCommitted(c)
  <2>1. /\ entries' = entries /\ found.i # f.i
        /\ \/ Moves(c, "max_reserved", h, f)
           \/ Moves(c, "load_allocated", h, f)
    <3>1. /\ entries' = entries /\ found.i # f.i
          /\ head' = head /\ seen' = seen
          /\ mark' = [mark EXCEPT ![c] = found]
          /\ \/ pc' = [pc EXCEPT ![c] = "max_reserved"]
             \/ pc' = [pc EXCEPT ![c] = "load_allocated"]
      BY <1>1, <1>6, <1>8 DEF Loading!LoadCommitted, Loading!Goto
    <3>2. mark' \in [Consumers -> Pair]
      BY <1>4, <3>1, Locals
    <3>3. QED
      BY <1>1, <3>1, <3>2, Locals DEF Moves
  <2>2. /\ ConsumerBlock(c, d)
        /\ Consumed(d).i < BlockSize => Consumed(d).v = Committed(d).v
        /\ Committed(d) \in Pair /\ EntryHeld(d, f.i) /\ ConsumerSees(c, d, f.i) /\ f.i \in Slots
    <3>1. f.i \in Slots
      BY <1>5 DEF Pair, Slots
    <3>2. QED
      BY <3>1, Facts, NextLemma
  <2>3. ~ At(c, {"consume", "release"}, d) /\ ~ Opens(c, "reset_reserved", d)
    BY <1>4 DEF At, Opens
  <2>4. Consumed(d) = f /\ Committed(d).v = f.v /\ AtMost(f, Known(c, w))
    BY <1>5, <2>2, <2>3 DEF ConsumerBlock
  <2>5. AtMost(f, found)
    BY <1>4, <2>4, AtMostIsOrder
  <2>6. found.v = f.v /\ f.i < found.i /\ found.i <= Committed(d).i
    BY <1>4, <2>1, <2>2, <2>4, <2>5 DEF AtMost, Pair
  <2>7. AtMost(FromParts(f.v, f.i + 1), Known(c, w)')
    <3>1. FromParts(f.v, f.i + 1) \in Pair /\ AtMost(FromParts(f.v, f.i + 1), found)
      BY <1>4, <2>6 DEF FromParts, Pair, AtMost
    <3>2. QED
      BY <1>4, <3>1, AtMostIsOrder
  <2>8. entries[d][f.i] # -1
    <3>1. ~ \E e \in Consumers : pc[e] = "release"
      BY <1>2, <1>4 DEF Lone
    <3>2. Filled(d, f.i)
      BY <1>4, <2>2, <2>4, <2>6, <3>1 DEF Filled, Pair
    <3>3. QED
      BY <2>2, <3>2 DEF EntryHeld, Pair
  <2>9. <<d, f.i>> \in view'[c].slots
    <3>1. Carried(c, "committed", d, f.i)
      BY <2>2, <2>8 DEF ConsumerSees
    <3>2. <<d, f.i>> \in mem[w][k].view.slots \cup view[c].slots
      BY <1>4, <2>4, <2>6, <3>1 DEF Carried, Committed
    <3>3. QED
      BY <1>4, <3>2 DEF Loads
  <2>10. Reserved(h.i) = f
    BY <1>2, <1>5
  <2>11. QED
    BY <1>2, <1>4, <1>5, <2>1, <2>7, <2>9, <2>10, QuietPopStep
<1>9. QED
  BY <1>3, <1>7, <1>8

(* Whatever it finds of allocated, it knows no more after than before.     *)
LEMMA CheckAllocatedKeeps ==
    ASSUME NEW p, NEW c, Holds(p, c), CheckAllocated(c)
    PROVE  Holds(p, c)'
<1>1. PICK d \in Blocks, h \in Heads, f \in Pair : d = Block(c) /\ h = head[c] /\ f = seen[c]
  BY Parts, Facts
<1> DEFINE w == <<"allocated", d>>
           u == <<"committed", d>>
<1>2. /\ Lone(p, c) /\ TypeOK /\ MemoryInv /\ c \in Threads /\ w \in Words /\ u \in Words /\ d = h.i
  BY <1>1, Parts, Facts, WordNames
<1>3. PICK k \in DOMAIN mem[w] :
          /\ Load(c, "load_allocated", w, k, FALSE)
          /\ Loading(w, k)!ReportBusyPop(c) \/ Loading(w, k)!CheckAllocated(c)
  BY <1>1 DEF CheckAllocated
<1>4. Loads(c) /\ pc[c] = "load_allocated"
  BY <1>2, <1>3, LoadEffect
<1>5. CASE Loading(w, k)!ReportBusyPop(c)
  <2>1. Moves(c, "idle", Zero, Zero) /\ entries' = entries
    BY <1>5, Locals
    DEF Loading!ReportBusyPop, Loading!Return, Loading!Leave, Loading!Goto, Loading!Zero,
        Loading!FromParts, Zero, FromParts, Moves
  <2>2. QED
    BY <1>4, <2>1, Locals, QuietPopStep
<1>6. CASE Loading(w, k)!CheckAllocated(c)
  <2>1. Moves(c, "max_reserved", h, f) /\ entries' = entries
    BY <1>1, <1>6, Locals DEF Loading!CheckAllocated, Loading!Goto, Moves
  <2>2. /\ Reserved(d) = f /\ f.i < BlockSize /\ h = Chead
        /\ AtMost(FromParts(f.v, f.i + 1), Known(c, u))
    BY <1>1, <1>4, Facts DEF ConsumerKnows
  <2>3. AtMost(FromParts(f.v, f.i + 1), Known(c, u)')
    <3>1. /\ Known(c, u) \in Pair /\ Known(c, u)' \in Pair /\ AtMost(Known(c, u), Known(c, u)')
      BY <1>2, <1>4, KnownLemma, KnownOnward DEF Loads
    <3>2. FromParts(f.v, f.i + 1) \in Pair
      BY DEF FromParts, Pair
    <3>3. QED
      BY <2>2, <3>1, <3>2, AtMostIsOrder
  <2>4. <<d, f.i>> \in view'[c].slots
    <3>1. f.i \in Slots /\ Slot(c) = <<d, f.i>>
      BY <1>1, <2>2 DEF Pair, Slots, Slot
    <3>2. <<d, f.i>> \in view[c].slots
      BY <1>4, <3>1, Facts DEF ConsumerSees
    <3>3. QED
      BY <1>4, <3>2 DEF Loads
  <2>5. Reserved(h.i) = f
    BY <1>2, <2>2
  <2>6. QED
    BY <1>2, <1>4, <2>1, <2>2, <2>3, <2>4, <2>5, QuietPopStep
<1>7. QED
  BY <1>3, <1>5, <1>6

(* A consumer that goes on has found the next block opened.                *)
LEMMA CheckCommittedKeeps ==
    ASSUME NEW p, NEW c, Holds(p, c), CheckCommitted(c)
    PROVE  Holds(p, c)'
<1>1. PICK d \in Blocks, h \in Heads, f \in Pair : d = NextBlock(c) /\ h = head[c] /\ f = seen[c]
  BY Parts, Facts
<1> DEFINE w == <<"committed", d>>
<1>2. /\ Lone(p, c) /\ TypeOK /\ MemoryInv /\ c \in Threads /\ w \in Words /\ d = After(h) /\ Block(c) = h.i
  BY <1>1, Parts, Facts, WordNames
<1>3. PICK k \in DOMAIN mem[w] :
          /\ Load(c, "check_committed", w, k, TRUE)
          /\ Loading(w, k)!ReportEmptyRing(c) \/ Loading(w, k)!CheckCommitted(c)
  BY <1>1 DEF CheckCommitted
<1> DEFINE found == mem[w][k].value
<1>4. /\ Loads(c) /\ pc[c] = "check_committed" /\ found \in Pair
      /\ AtMost(found, Known(c, w)') /\ Known(c, w)' \in Pair
  BY <1>2, <1>3, LoadEffect
<1>5. CASE Loading(w, k)!ReportEmptyRing(c)
  <2>1. Moves(c, "idle", Zero, Zero) /\ entries' = entries
    BY <1>5, Locals
    DEF Loading!ReportEmptyRing, Loading!Return, Loading!Leave, Loading!Goto, Loading!Zero,
        Loading!FromParts, Zero, FromParts, Moves
  <2>2. QED
    BY <1>4, <2>1, Locals, QuietPopStep
<1>6. CASE Loading(w, k)!CheckCommitted(c)
  <2>1. Found("committed", d, w, k) = found /\ Loading(w, k)!NextBlock(c) = d
    BY <1>1 DEF Found, Loading!NextBlock, NextBlock, Ring!NextBlock
  <2>2. Moves(c, "max_consumed", h, f) /\ entries' = entries /\ found.v = h.v + 1
    BY <1>1, <1>6, <2>1, Locals DEF Loading!CheckCommitted, Loading!Goto, Moves
  <2>3. h = Chead /\ Reserved(h.i).i = BlockSize
    BY <1>1, <1>2, <1>4, Facts DEF ConsumerKnows
  <2>4. AtMost(FromParts(h.v + 1, 0), Known(c, w)')
    <3>1. FromParts(h.v + 1, 0) \in Pair /\ AtMost(FromParts(h.v + 1, 0), found)
      BY <1>4, <2>2, HeadLemma DEF FromParts, Pair, AtMost
    <3>2. QED
      BY <1>4, <3>1, AtMostIsOrder
  <2>5. QED
    BY <1>2, <1>4, <2>2, <2>3, <2>4, QuietPopStep
<1>7. QED
  BY <1>3, <1>5, <1>6
-----------------------------------------------------------------------------
(* What a write of the consumer leaves the producer, and what committed    *)
(* carries.                                                                *)
LEMMA PopPuts ==
    ASSUME NEW p, NEW c, Holds(p, c), NEW name \in {"chead", "reserved", "consumed"}, NEW d, NEW x,
           Puts(c, name, d, x), Idles(p), entries' = entries,
           \A s \in Slots : name = "consumed" /\ d \in Blocks /\ entries[d][s] = -1 =>
               Carried(p, "consumed", d, s)'
    PROVE  /\ ProducerKnows(p)'
           /\ \A b \in Blocks :
                  /\ ProducerBlock(p, b)'
                  /\ \A s \in Slots : /\ ProducerSees(p, b, s)'
                                      /\ entries[b][s] # -1 => Carried(c, "committed", b, s)'
                  /\ \A f \in Pair : AtMost(f, Known(c, <<"committed", b>>)) =>
                                         AtMost(f, Known(c, <<"committed", b>>)')
<1>0. Lone(p, c) /\ TypeOK /\ MemoryInv /\ p \in Threads /\ c \in Threads /\ p # c
  BY Parts, WordNames
<1>1. /\ Memory /\ \A u \in Threads : view'[u].slots = view[u].slots
      /\ Same(<<"phead", 0>>)
      /\ \A b \in Blocks : /\ Same(<<"allocated", b>>) /\ Same(<<"committed", b>>)
                           /\ Allocated(b)' = Allocated(b)
                           /\ ~ (name = "consumed" /\ b = d) => Same(<<"consumed", b>>)
                           /\ Consumed(b)' \in Pair /\ AtMost(Consumed(b), Consumed(b)')
  BY DEF Puts
<1>2. ProducerKnows(p)' /\ \A b \in Blocks : ProducerBlock(p, b)'
  BY <1>0, <1>1, ProducerKept
<1>3. /\ Slot(p)' = Slot(p) /\ pc'[p] = pc[p]
      /\ \A step, b : Opens(p, step, b)' = Opens(p, step, b)
  BY IdlesLemma DEF Idles
<1>4. ASSUME NEW b \in Blocks, NEW s \in Slots
      PROVE  /\ ProducerSees(p, b, s)'
             /\ entries[b][s] # -1 => Carried(c, "committed", b, s)'
  <2>1. ConsumerSees(c, b, s) /\ ProducerSees(p, b, s)
    BY Facts
  <2>2. entries[b][s] = -1 => Carried(p, "consumed", b, s)'
    <3>1. CASE name = "consumed" /\ b = d
      BY <3>1
    <3>2. CASE ~ (name = "consumed" /\ b = d)
      BY <1>0, <1>1, <2>1, <3>2, CarriedKept, WordNames DEF ProducerSees
    <3>3. QED
      BY <3>1, <3>2
  <2>3. entries[b][s] # -1 => Carried(c, "committed", b, s)'
    BY <1>0, <1>1, <2>1, CarriedKept, WordNames DEF ConsumerSees
  <2>4. QED
    BY <1>0, <1>1, <1>3, <2>1, <2>2, <2>3 DEF ProducerSees
<1>5. ASSUME NEW b \in Blocks, NEW f \in Pair, AtMost(f, Known(c, <<"committed", b>>))
      PROVE  AtMost(f, Known(c, <<"committed", b>>)')
  <2>1. <<"committed", b>> \in Words
    BY <1>0, WordNames
  <2>2. /\ Known(c, <<"committed", b>>) \in Pair /\ Known(c, <<"committed", b>>)' \in Pair
        /\ AtMost(Known(c, <<"committed", b>>), Known(c, <<"committed", b>>)')
    BY <1>0, <1>1, <2>1, KnownLemma, KnownOnward
  <2>3. QED
    BY <1>5, <2>2, AtMostIsOrder
<1>6. QED
  BY <1>2, <1>4, <1>5

(* The consumer reserves the slot it saw, as nobody else reserves.         *)
LEMMA MaxReservedKeeps ==
    ASSUME NEW p, NEW c, Holds(p, c), MaxReserved(c)
    PROVE  Holds(p, c)'
<1>1. PICK d \in Blocks, h \in Heads, f \in Pair : d = Block(c) /\ h = head[c] /\ f = seen[c]
  BY Parts, Facts
<1> DEFINE w == <<"reserved", d>>
           x == FromParts(f.v, f.i + 1)
<1>2. /\ Lone(p, c) /\ TypeOK /\ MemoryInv /\ p \in Threads /\ c \in Threads /\ p # c /\ c \notin Producers
      /\ d = h.i /\ w \in Words /\ pc[c] = "max_reserved" /\ Phead \in Heads /\ Chead \in Heads
      /\ Slot(c) = <<d, f.i>>
  BY <1>1, Parts, Facts, WordNames DEF Lone, MaxReserved, FetchMax, Update, Slot
<1>3. /\ Reserved(d) = f /\ f.i < BlockSize /\ h = Chead
      /\ AtMost(x, Known(c, <<"committed", d>>))
  BY <1>1, <1>2, Facts DEF ConsumerKnows
<1>4. /\ x \in Pair /\ x.v = f.v /\ x.i = f.i + 1 /\ AtMost(f, x)
      /\ Incr(IndexSpan, f) = x /\ MaxPair(f, x) = x
  BY <1>3 DEF FromParts, Pair, AtMost, MaxPair, Incr
<1> HIDE DEF x
<1>5. Puts(c, "reserved", d, x)
  <2>1. Last(w) = f
    BY <1>3 DEF Reserved
  <2>2. Update(c, "max_reserved", w, x, FALSE)
    BY <1>1, <1>4, <2>1 DEF MaxReserved, FetchMax
  <2>3. QED
    BY <1>2, <1>4, <2>1, <2>2, Wrote
<1>6. Moves(c, "consume", h, f) /\ entries' = entries
  <2>1. [b \in Blocks |-> Last(<<"reserved", b>>)][Ring!Block(c)] = f
    BY <1>1, <1>3 DEF Reserved, Block
  <2>2. QED
    BY <1>1, <2>1, Locals DEF MaxReserved, Ring!MaxReserved, Ring!Goto, Moves
<1>7. /\ pc'[c] = "consume" /\ head'[c] = h /\ seen'[c] = f /\ Block(c)' = d
      /\ Slot(c)' = <<d, f.i>> /\ Idles(p)
  BY <1>2, <1>6, MovesTo
<1>8. /\ Memory /\ \A u \in Words : Latest(c, u) => Latest(c, u)'
      /\ \A u \in Threads : view'[u].slots = view[u].slots
      /\ Phead' = Phead /\ Chead' = Chead
      /\ \A b \in Blocks : /\ Reserved(b)' = IF b = d THEN x ELSE Reserved(b)
                           /\ Allocated(b)' = Allocated(b)
                           /\ Committed(b)' = Committed(b) /\ Consumed(b)' = Consumed(b)
  BY <1>5 DEF Puts
<1>9. /\ ProducerKnows(p)'
      /\ \A b \in Blocks :
             /\ ProducerBlock(p, b)'
             /\ \A s \in Slots : /\ ProducerSees(p, b, s)'
                                 /\ entries[b][s] # -1 => Carried(c, "committed", b, s)'
             /\ \A g \in Pair : AtMost(g, Known(c, <<"committed", b>>)) =>
                                    AtMost(g, Known(c, <<"committed", b>>)')
  BY <1>5, <1>6, <1>7, PopPuts
<1>10. Latest(c, <<"chead", 0>>)' /\ \A b \in Blocks : Latest(c, <<"reserved", b>>)'
  BY <1>2, <1>8, Facts, WordNames DEF ConsumerKnows, ConsumerBlock
<1>11. ConsumerKnows(c)'
  BY <1>3, <1>7, <1>8, <1>10 DEF ConsumerKnows
<1>12. ASSUME NEW b \in Blocks
       PROVE  ConsumerBlock(c, b)'
  <2>1. ConsumerBlock(c, b) /\ PoppedTo(c)' = PoppedTo(c) /\ PoppedTo(c) = Chead /\ Reserved(b) \in Pair
    BY <1>2, <1>7, <1>8, Facts DEF PoppedTo
  <2>2. /\ ~ At(c, {"consume", "release"}, b) /\ ~ Opens(c, "reset_reserved", b)
        /\ ~ Opens(c, "reset_reserved", b)' /\ ~ Opens(c, "max_consumed", b)'
        /\ At(c, {"consume", "release"}, b)' <=> b = d
    BY <1>2, <1>7 DEF At, Opens
  <2>3. CASE b = d
    <3>1. ComeTo(Reserved(b), b, PoppedTo(c))'
      BY <1>2, <1>3, <1>4, <1>8, <2>1, <2>3 DEF ConsumerBlock, ComeTo
    <3>2. AtMost(Reserved(b)', Known(c, <<"committed", b>>)')
      BY <1>3, <1>4, <1>8, <1>9, <2>3
    <3>3. /\ Reserved(b)' = FromParts(f.v, f.i + 1) /\ Reserved(b)'.i <= BlockSize
          /\ Consumed(b)' = f
      BY <1>3, <1>4, <1>8, <2>1, <2>2, <2>3 DEF ConsumerBlock, Pair, x
    <3>4. QED
      BY <1>7, <1>10, <2>2, <2>3, <3>1, <3>2, <3>3 DEF ConsumerBlock
  <2>4. CASE b # d
    <3>1. AtMost(Reserved(b), Known(c, <<"committed", b>>)')
      BY <1>9, <2>1 DEF ConsumerBlock
    <3>2. QED
      BY <1>8, <1>10, <2>1, <2>2, <2>4, <3>1 DEF ConsumerBlock
  <2>5. QED
    BY <2>3, <2>4
<1>13. ASSUME NEW b \in Blocks
       PROVE  /\ Leads(b)'
              /\ \A s \in Slots : EntryHeld(b, s)' /\ ConsumerSees(c, b, s)'
  <2>1. Leads(b)'
    BY <1>8, Facts DEF Leads
  <2>2. ASSUME NEW s \in Slots
        PROVE  EntryHeld(b, s)' /\ ConsumerSees(c, b, s)'
    <3>1. EntryHeld(b, s) /\ ConsumerSees(c, b, s)
      BY Facts
    <3>2. Slot(p)' = Slot(p) /\ pc'[p] = pc[p]
      BY <1>7, IdlesLemma DEF Idles
    <3>3. Filled(b, s)' <=> Filled(b, s)
      BY <1>2, <1>7, <1>8, <3>2 DEF Filled, Lone
    <3>4. EntryHeld(b, s)'
      BY <1>6, <1>8, <3>1, <3>3 DEF EntryHeld
    <3>5. ConsumerSees(c, b, s)'
      BY <1>2, <1>6, <1>7, <1>8, <1>9, <3>1 DEF ConsumerSees
    <3>6. QED
      BY <3>4, <3>5
  <2>3. QED
    BY <2>1, <2>2
<1>14. WeakInv'
  BY <1>2, <1>8, <1>9, <1>11, <1>12, <1>13, Assemble DEF Memory
<1>15. TypeOK'
  <2>1. "consume" \in Ring!ConsumerSteps
    BY DEF Ring!ConsumerSteps
  <2>2. QED
    BY <1>2, <1>6, <1>8, <2>1, Locals, MovesLemma
<1>16. QED
  BY <1>2, <1>14, <1>15 DEF Holds, Lone

(* The next block is opened for reading: consumed goes to the version that *)
(* committed is already in.                                                *)
LEMMA MaxConsumedKeeps ==
    ASSUME NEW p, NEW c, Holds(p, c), MaxConsumed(c)
    PROVE  Holds(p, c)'
<1>1. PICK n \in Blocks, h \in Heads, f \in Pair, x \in Pair :
          n = NextBlock(c) /\ h = head[c] /\ f = seen[c] /\ x = Opening(c)
  BY Parts, Facts
<1> DEFINE w == <<"consumed", n>>
<1>2. /\ Lone(p, c) /\ TypeOK /\ MemoryInv /\ p \in Threads /\ c \in Threads /\ p # c /\ c \notin Producers
      /\ n = After(h) /\ x = FromParts(h.v + 1, 0) /\ w \in Words /\ pc[c] = "max_consumed"
      /\ Phead \in Heads /\ Chead \in Heads /\ p \in Loaders(w)
  BY <1>1, Parts, Facts, WordNames DEF Lone, MaxConsumed, FetchMax, Update
<1>3. /\ h = Chead /\ Opens(c, "max_consumed", n) /\ h.v \in Nat
      /\ Reserved(Block(c)).i = BlockSize /\ Block(c) = h.i /\ h.i \in Blocks
  BY <1>1, <1>2, Facts, HeadLemma DEF ConsumerKnows, Opens
<1>4. /\ Reserved(n) = FromParts(h.v, BlockSize) /\ Consumed(n) = FromParts(h.v, BlockSize)
      /\ x.v = h.v + 1 /\ x.i = 0 /\ Committed(n).v = h.v + 1
  <2>1. ConsumerBlock(c, n) /\ Leads(n) /\ Reserved(n) = FromParts(h.v, BlockSize) /\ Committed(n) \in Pair
    BY <1>2, <1>3, Facts, NextLemma
  <2>2. Consumed(n) = Reserved(n) /\ AtMost(x, Known(c, <<"committed", n>>))
    BY <1>1, <1>2, <1>3, <2>1 DEF ConsumerBlock, At, Opens
  <2>3. /\ Known(c, <<"committed", n>>) \in Pair
        /\ AtMost(Known(c, <<"committed", n>>), Committed(n))
    BY <1>2, KnownLemma, WordNames DEF Committed
  <2>4. AtMost(x, Committed(n))
    BY <2>1, <2>2, <2>3, AtMostIsOrder
  <2>5. Committed(n).v = h.v + 1
    BY <1>2, <1>3, <2>1, <2>2, <2>4 DEF AtMost, FromParts, Pair, Leads
  <2>6. QED
    BY <1>2, <2>1, <2>2, <2>5 DEF FromParts
<1>5. Puts(c, "consumed", n, x)
  <2>1. Last(w) = FromParts(h.v, BlockSize) /\ AtMost(Last(w), x) /\ MaxPair(Last(w), x) = x
    BY <1>2, <1>3, <1>4 DEF Consumed, AtMost, MaxPair, FromParts
  <2>2. Update(c, "max_consumed", w, x, FALSE)
    BY <1>1, <2>1 DEF MaxConsumed, FetchMax, Opening
  <2>3. QED
    BY <1>2, <2>1, <2>2, Wrote
<1>6. Moves(c, "reset_reserved", h, f) /\ entries' = entries
  BY <1>1, Locals DEF MaxConsumed, Ring!MaxConsumed, Ring!Goto, Moves
<1>7. /\ pc'[c] = "reset_reserved" /\ head'[c] = h /\ seen'[c] = f /\ Block(c)' = h.i
      /\ NextBlock(c)' = n /\ Opening(c)' = x /\ Idles(p)
  BY <1>2, <1>6, MovesTo
<1>8. /\ Memory /\ \A u \in Words : Latest(c, u) => Latest(c, u)'
      /\ \A u \in Threads : view'[u].slots = view[u].slots
      /\ Phead' = Phead /\ Chead' = Chead /\ Writes(c, w, x)
      /\ \A b \in Blocks : /\ Consumed(b)' = IF b = n THEN x ELSE Consumed(b)
                           /\ Allocated(b)' = Allocated(b)
                           /\ Committed(b)' = Committed(b) /\ Reserved(b)' = Reserved(b)
  BY <1>5 DEF Puts
<1>9. ASSUME NEW s \in Slots, entries[n][s] = -1
      PROVE  Carried(p, "consumed", n, s)'
  <2>1. Carried(p, "consumed", n, s)
    BY <1>9, Facts DEF ProducerSees
  <2>2. /\ s \in Nat /\ Last(w) = FromParts(h.v, BlockSize) /\ AtMost(Last(w), x)
        /\ x.v > Last(w).v /\ x.i = 0
    BY <1>2, <1>3, <1>4 DEF Slots, Consumed, AtMost, FromParts
  <2>3. QED
    BY <1>2, <1>8, <2>1, <2>2, CarriedWritten
<1>10. /\ ProducerKnows(p)'
       /\ \A b \in Blocks :
              /\ ProducerBlock(p, b)'
              /\ \A s \in Slots : /\ ProducerSees(p, b, s)'
                                  /\ entries[b][s] # -1 => Carried(c, "committed", b, s)'
              /\ \A g \in Pair : AtMost(g, Known(c, <<"committed", b>>)) =>
                                     AtMost(g, Known(c, <<"committed", b>>)')
  BY <1>5, <1>6, <1>7, <1>9, PopPuts
<1>11. Latest(c, <<"chead", 0>>)' /\ \A b \in Blocks : Latest(c, <<"reserved", b>>)'
  BY <1>2, <1>8, Facts, WordNames DEF ConsumerKnows, ConsumerBlock
<1>12. ConsumerKnows(c)'
  BY <1>3, <1>7, <1>8, <1>11 DEF ConsumerKnows
<1>13. ASSUME NEW b \in Blocks
       PROVE  ConsumerBlock(c, b)'
  <2>1. ConsumerBlock(c, b) /\ PoppedTo(c)' = PoppedTo(c) /\ Reserved(b) \in Pair
    BY <1>2, <1>7, <1>8, Facts DEF PoppedTo
  <2>2. /\ ~ At(c, {"consume", "release"}, b) /\ ~ Opens(c, "reset_reserved", b)
        /\ ~ At(c, {"consume", "release"}, b)' /\ ~ Opens(c, "max_consumed", b)'
        /\ Opens(c, "reset_reserved", b)' <=> b = n
    BY <1>2, <1>7 DEF At, Opens
  <2>3. AtMost(Reserved(b), Known(c, <<"committed", b>>)')
    BY <1>10, <2>1 DEF ConsumerBlock
  <2>4. b = n => AtMost(x, Known(c, <<"committed", b>>)')
    BY <1>1, <1>3, <1>10, <2>1 DEF ConsumerBlock
  <2>5. QED
    BY <1>7, <1>8, <1>11, <2>1, <2>2, <2>3, <2>4 DEF ConsumerBlock
<1>14. ASSUME NEW b \in Blocks
       PROVE  /\ Leads(b)'
              /\ \A s \in Slots : EntryHeld(b, s)' /\ ConsumerSees(c, b, s)'
  <2>1. Leads(b)'
    BY <1>4, <1>8, Facts DEF Leads
  <2>2. ASSUME NEW s \in Slots
        PROVE  EntryHeld(b, s)' /\ ConsumerSees(c, b, s)'
    <3>1. EntryHeld(b, s) /\ ConsumerSees(c, b, s)
      BY Facts
    <3>2. Slot(p)' = Slot(p) /\ pc'[p] = pc[p]
      BY <1>7, IdlesLemma DEF Idles
    <3>3. Filled(b, s)' <=> Filled(b, s)
      <4>1. CASE b = n
        BY <1>2, <1>3, <1>4, <1>7, <1>8, <3>2, <4>1 DEF Filled, Lone, FromParts, Slots
      <4>2. CASE b # n
        BY <1>2, <1>7, <1>8, <3>2, <4>2 DEF Filled, Lone
      <4>3. QED
        BY <4>1, <4>2
    <3>4. EntryHeld(b, s)'
      BY <1>6, <1>8, <3>1, <3>3 DEF EntryHeld
    <3>5. ConsumerSees(c, b, s)'
      BY <1>2, <1>6, <1>7, <1>8, <1>10, <3>1 DEF ConsumerSees
    <3>6. QED
      BY <3>4, <3>5
  <2>3. QED
    BY <2>1, <2>2
<1>15. WeakInv'
  BY <1>2, <1>8, <1>10, <1>12, <1>13, <1>14, Assemble DEF Memory
<1>16. TypeOK'
  <2>1. "reset_reserved" \in Ring!ConsumerSteps
    BY DEF Ring!ConsumerSteps
  <2>2. QED
    BY <1>2, <1>6, <1>8, <2>1, Locals, MovesLemma
<1>17. QED
  BY <1>2, <1>15, <1>16 DEF Holds, Lone

(* The block is in its new version, and so are the slots to be reserved.   *)
LEMMA ResetReservedKeeps ==
    ASSUME NEW p, NEW c, Holds(p, c), ResetReserved(c)
    PROVE  Holds(p, c)'
<1>1. PICK n \in Blocks, h \in Heads, f \in Pair, x \in Pair :
          n = NextBlock(c) /\ h = head[c] /\ f = seen[c] /\ x = Opening(c)
  BY Parts, Facts
<1> DEFINE w == <<"reserved", n>>
           y == VersionIncAdd(NumBlocks, h)
<1>2. /\ Lone(p, c) /\ TypeOK /\ MemoryInv /\ p \in Threads /\ c \in Threads /\ p # c /\ c \notin Producers
      /\ n = After(h) /\ x = FromParts(h.v + 1, 0) /\ w \in Words /\ pc[c] = "reset_reserved"
      /\ Phead \in Heads /\ Chead \in Heads
  BY <1>1, Parts, Facts, WordNames DEF Lone, ResetReserved, FetchMax, Update
<1>3. /\ h = Chead /\ Opens(c, "reset_reserved", n) /\ h.v \in Nat
      /\ Reserved(Block(c)).i = BlockSize /\ Block(c) = h.i /\ h.i \in Blocks /\ n # h.i
  BY <1>1, <1>2, Facts, HeadLemma DEF ConsumerKnows, Opens
<1>4. /\ Reserved(n) = FromParts(h.v, BlockSize) /\ Consumed(n) = x
      /\ x.v = h.v + 1 /\ x.i = 0 /\ AtMost(x, Known(c, <<"committed", n>>))
  <2>1. ConsumerBlock(c, n) /\ Reserved(n) = FromParts(h.v, BlockSize)
    BY <1>2, <1>3, Facts, NextLemma
  <2>2. Consumed(n) = x /\ AtMost(x, Known(c, <<"committed", n>>))
    BY <1>1, <1>2, <1>3, <2>1 DEF ConsumerBlock, At
  <2>3. QED
    BY <1>2, <2>1, <2>2 DEF FromParts
<1>5. Puts(c, "reserved", n, x)
  <2>1. Last(w) = FromParts(h.v, BlockSize) /\ AtMost(Last(w), x) /\ MaxPair(Last(w), x) = x
    BY <1>2, <1>3, <1>4 DEF Reserved, AtMost, MaxPair, FromParts
  <2>2. Update(c, "reset_reserved", w, x, FALSE)
    BY <1>1, <2>1 DEF ResetReserved, FetchMax, Opening
  <2>3. QED
    BY <1>2, <2>1, <2>2, Wrote
<1>6. Moves(c, "max_chead", h, f) /\ entries' = entries
  BY <1>1, Locals DEF ResetReserved, Ring!ResetReserved, Ring!Goto, Moves
<1>7. /\ pc'[c] = "max_chead" /\ head'[c] = h /\ seen'[c] = f /\ Block(c)' = h.i
      /\ NextBlock(c)' = n /\ Opening(c)' = x /\ Idles(p)
  BY <1>2, <1>6, MovesTo
<1>8. /\ Memory /\ \A u \in Words : Latest(c, u) => Latest(c, u)'
      /\ \A u \in Threads : view'[u].slots = view[u].slots
      /\ Phead' = Phead /\ Chead' = Chead
      /\ \A b \in Blocks : /\ Reserved(b)' = IF b = n THEN x ELSE Reserved(b)
                           /\ Allocated(b)' = Allocated(b)
                           /\ Committed(b)' = Committed(b) /\ Consumed(b)' = Consumed(b)
  BY <1>5 DEF Puts
<1>9. /\ ProducerKnows(p)'
      /\ \A b \in Blocks :
             /\ ProducerBlock(p, b)'
             /\ \A s \in Slots : /\ ProducerSees(p, b, s)'
                                 /\ entries[b][s] # -1 => Carried(c, "committed", b, s)'
             /\ \A g \in Pair : AtMost(g, Known(c, <<"committed", b>>)) =>
                                    AtMost(g, Known(c, <<"committed", b>>)')
  BY <1>5, <1>6, <1>7, PopPuts
<1>10. Latest(c, <<"chead", 0>>)' /\ \A b \in Blocks : Latest(c, <<"reserved", b>>)'
  BY <1>2, <1>8, Facts, WordNames DEF ConsumerKnows, ConsumerBlock
<1>11. ConsumerKnows(c)'
  BY <1>3, <1>7, <1>8, <1>10 DEF ConsumerKnows
<1>12. ASSUME NEW b \in Blocks
       PROVE  ConsumerBlock(c, b)'
  <2>1. ConsumerBlock(c, b) /\ PoppedTo(c)' = y /\ PoppedTo(c) = h /\ Reserved(b) \in Pair
    BY <1>2, <1>3, <1>7, <1>8, Facts DEF PoppedTo
  <2>2. /\ ~ At(c, {"consume", "release"}, b)
        /\ ~ At(c, {"consume", "release"}, b)' /\ ~ Opens(c, "max_consumed", b)'
        /\ ~ Opens(c, "reset_reserved", b)'
        /\ Opens(c, "reset_reserved", b) <=> b = n
    BY <1>1, <1>2, <1>7 DEF At, Opens
  <2>3. y.i = n /\ VersionAt(b, y) = IF b = n THEN h.v + 1 ELSE VersionAt(b, h)
    BY <1>2, HeadLemma
  <2> HIDE DEF y
  <2>4. ComeTo(Reserved(b)', b, y)
    <3>1. CASE b = n
      BY <1>4, <1>8, <2>3, <3>1 DEF ComeTo
    <3>2. CASE b # n
      <4>1. ComeTo(Reserved(b), b, h)
        BY <2>1 DEF ConsumerBlock
      <4>2. Reserved(b).i = BlockSize
        BY <1>3, <3>2, <4>1 DEF ComeTo
      <4>3. QED
        BY <1>8, <2>3, <3>2, <4>1, <4>2 DEF ComeTo
    <3>3. QED
      BY <3>1, <3>2
  <2>5. /\ Consumed(b)' = Reserved(b)' /\ Reserved(b)'.i <= BlockSize
        /\ AtMost(Reserved(b)', Known(c, <<"committed", b>>)')
    <3>1. CASE b = n
      BY <1>4, <1>8, <1>9, <3>1
    <3>2. CASE b # n
      BY <1>8, <1>9, <2>1, <2>2, <3>2 DEF ConsumerBlock
    <3>3. QED
      BY <3>1, <3>2
  <2>6. ComeTo(Reserved(b), b, PoppedTo(c))'
    BY <2>1, <2>4 DEF ComeTo
  <2>7. QED
    BY <1>7, <1>10, <2>2, <2>5, <2>6 DEF ConsumerBlock
<1>13. ASSUME NEW b \in Blocks
       PROVE  /\ Leads(b)'
              /\ \A s \in Slots : EntryHeld(b, s)' /\ ConsumerSees(c, b, s)'
  <2>1. Leads(b)'
    BY <1>8, Facts DEF Leads
  <2>2. ASSUME NEW s \in Slots
        PROVE  EntryHeld(b, s)' /\ ConsumerSees(c, b, s)'
    <3>1. EntryHeld(b, s) /\ ConsumerSees(c, b, s)
      BY Facts
    <3>2. Slot(p)' = Slot(p) /\ pc'[p] = pc[p]
      BY <1>7, IdlesLemma DEF Idles
    <3>3. Filled(b, s)' <=> Filled(b, s)
      BY <1>2, <1>7, <1>8, <3>2 DEF Filled, Lone
    <3>4. EntryHeld(b, s)'
      BY <1>6, <1>8, <3>1, <3>3 DEF EntryHeld
    <3>5. ConsumerSees(c, b, s)'
      BY <1>2, <1>6, <1>7, <1>8, <1>9, <3>1 DEF ConsumerSees
    <3>6. QED
      BY <3>4, <3>5
  <2>3. QED
    BY <2>1, <2>2
<1>14. WeakInv'
  BY <1>2, <1>8, <1>9, <1>11, <1>12, <1>13, Assemble DEF Memory
<1>15. TypeOK'
  <2>1. "max_chead" \in Ring!ConsumerSteps
    BY DEF Ring!ConsumerSteps
  <2>2. QED
    BY <1>2, <1>6, <1>8, <2>1, Locals, MovesLemma
<1>16. QED
  BY <1>2, <1>14, <1>15 DEF Holds, Lone

(* The head moves to the block that has been opened.                       *)
LEMMA MaxCheadKeeps ==
    ASSUME NEW p, NEW c, Holds(p, c), MaxChead(c)
    PROVE  Holds(p, c)'
<1> DEFINE w == <<"chead", 0>>
           x == VersionIncAdd(NumBlocks, Chead)
<1>0. /\ Lone(p, c) /\ TypeOK /\ MemoryInv /\ p \in Threads /\ c \in Threads /\ p # c /\ c \notin Producers
      /\ w \in Words /\ pc[c] = "max_chead" /\ Phead \in Heads /\ Chead \in Heads
  BY Parts, Facts, WordNames DEF Lone, MaxChead, FetchMax, Update
<1>1. head[c] = Chead
  BY <1>0, Facts DEF ConsumerKnows
<1>2. x \in Heads /\ x \in Pair /\ MaxPair(Chead, x) = x /\ AtMost(Chead, x)
  <2>1. x \in Heads /\ MaxPair(Chead, x) = x
    BY <1>0, HeadLemma
  <2>2. x \in Pair /\ Chead \in Pair
    BY <1>0, <2>1, HeadLemma
  <2>3. QED
    BY <2>1, <2>2, MaxPairLemma
<1>3. Puts(c, "chead", 0, x)
  <2>1. Update(c, "max_chead", w, x, FALSE)
    BY <1>1, <1>2 DEF MaxChead, FetchMax, Chead
  <2>2. AtMost(Last(w), x)
    BY <1>2 DEF Chead
  <2>3. QED
    BY <1>0, <1>2, <2>1, <2>2, Wrote
<1>4. Moves(c, "load_chead", Zero, Zero) /\ entries' = entries
  BY Locals DEF MaxChead, Ring!MaxChead, Ring!Leave, Ring!Goto, Ring!Zero, Ring!FromParts,
                Zero, FromParts, Moves
<1>5. pc'[c] = "load_chead" /\ Idles(p)
  BY <1>0, <1>4, MovesTo
<1> HIDE DEF x
<1>6. /\ Memory /\ \A u \in Words : Latest(c, u) => Latest(c, u)'
      /\ \A u \in Threads : view'[u].slots = view[u].slots
      /\ Phead' = Phead /\ Chead' = x
      /\ \A b \in Blocks : /\ Allocated(b)' = Allocated(b) /\ Committed(b)' = Committed(b)
                           /\ Reserved(b)' = Reserved(b) /\ Consumed(b)' = Consumed(b)
  BY <1>3 DEF Puts
<1>7. /\ ProducerKnows(p)'
      /\ \A b \in Blocks :
             /\ ProducerBlock(p, b)'
             /\ \A s \in Slots : /\ ProducerSees(p, b, s)'
                                 /\ entries[b][s] # -1 => Carried(c, "committed", b, s)'
             /\ \A g \in Pair : AtMost(g, Known(c, <<"committed", b>>)) =>
                                    AtMost(g, Known(c, <<"committed", b>>)')
  BY <1>3, <1>4, <1>5, PopPuts
<1>8. ConsumerKnows(c)'
  BY <1>0, <1>5, <1>6, Facts DEF ConsumerKnows
<1>9. ASSUME NEW b \in Blocks
      PROVE  /\ ConsumerBlock(c, b)' /\ Leads(b)'
             /\ \A s \in Slots : EntryHeld(b, s)' /\ ConsumerSees(c, b, s)'
  <2>1. /\ ConsumerBlock(c, b) /\ PoppedTo(c) = PoppedTo(c)' /\ <<"reserved", b>> \in Words
        /\ Reserved(b) \in Pair
    BY <1>0, <1>5, <1>6, Facts, WordNames DEF PoppedTo, x
  <2>2. /\ ~ At(c, {"consume", "release"}, b) /\ ~ Opens(c, "reset_reserved", b)
        /\ ~ At(c, {"consume", "release"}, b)' /\ ~ Opens(c, "max_consumed", b)'
        /\ ~ Opens(c, "reset_reserved", b)'
    BY <1>0, <1>5 DEF At, Opens
  <2>3. ConsumerBlock(c, b)'
    <3>1. AtMost(Reserved(b), Known(c, <<"committed", b>>)')
      BY <1>7, <2>1 DEF ConsumerBlock
    <3>2. QED
      BY <1>6, <2>1, <2>2, <3>1 DEF ConsumerBlock
  <2>4. Leads(b)'
    BY <1>6, Facts DEF Leads
  <2>5. ASSUME NEW s \in Slots
        PROVE  EntryHeld(b, s)' /\ ConsumerSees(c, b, s)'
    <3>1. EntryHeld(b, s) /\ ConsumerSees(c, b, s)
      BY Facts
    <3>2. Slot(p)' = Slot(p) /\ pc'[p] = pc[p]
      BY <1>5, IdlesLemma DEF Idles
    <3>3. Filled(b, s)' <=> Filled(b, s)
      BY <1>0, <1>5, <1>6, <3>2 DEF Filled, Lone
    <3>4. EntryHeld(b, s)'
      BY <1>4, <1>6, <3>1, <3>3 DEF EntryHeld
    <3>5. ConsumerSees(c, b, s)'
      BY <1>0, <1>4, <1>5, <1>6, <1>7, <3>1 DEF ConsumerSees
    <3>6. QED
      BY <3>4, <3>5
  <2>6. QED
    BY <2>3, <2>4, <2>5
<1>10. WeakInv'
  BY <1>0, <1>6, <1>7, <1>8, <1>9, Assemble DEF Memory
<1>11. TypeOK'
  <2>1. "load_chead" \in Ring!ConsumerSteps
    BY DEF Ring!ConsumerSteps
  <2>2. QED
    BY <1>0, <1>2, <1>4, <1>6, <2>1, Locals, MovesLemma
<1>12. QED
  BY <1>0, <1>10, <1>11 DEF Holds, Lone

(* The slot is full and nobody else's: the producer has committed it, and  *)
(* is given no slot of the block before the consumer has released it.      *)
LEMMA ConsumeKeeps ==
    ASSUME NEW p, NEW c, Holds(p, c), Consume(c)
    PROVE  Holds(p, c)'
<1>1. PICK n \in Blocks, h \in Heads, f \in Pair : n = Block(c) /\ h = head[c] /\ f = seen[c]
  BY Parts, Facts
<1>2. /\ Lone(p, c) /\ TypeOK /\ MemoryInv /\ p \in Threads /\ c \in Threads /\ p # c /\ c \notin Producers
      /\ n = h.i /\ pc[c] = "consume" /\ Phead \in Heads /\ Chead \in Heads /\ h = Chead
      /\ Slot(c) = <<n, f.i>> /\ At(c, {"consume", "release"}, n)
      /\ \A b \in Blocks : <<"committed", b>> \in Words /\ <<"consumed", b>> \in Words
  BY <1>1, Parts, Facts, WordNames DEF Lone, Consume, Access, ConsumerKnows, Slot, At
<1>3. /\ Reserved(n) = FromParts(f.v, f.i + 1) /\ Consumed(n) = f
      /\ f.i \in Slots /\ f.v \in Nat /\ Committed(n).v = f.v /\ f.i < Committed(n).i
  <2>1. /\ Reserved(n) = FromParts(f.v, f.i + 1) /\ Consumed(n) = f /\ Reserved(n).i <= BlockSize
    BY <1>1, <1>2, Facts DEF ConsumerBlock
  <2>2. f.i \in Slots /\ f.v \in Nat /\ f.i < BlockSize /\ f.i \in Nat
    BY <2>1 DEF FromParts, Slots, Pair
  <2>3. Committed(n).v = f.v /\ AtMost(Reserved(n), Committed(n)) /\ Committed(n) \in Pair
    BY <2>1, <2>2, Facts, NextLemma
  <2>4. f.i < Committed(n).i
    BY <2>1, <2>2, <2>3 DEF AtMost, FromParts, Pair
  <2>5. QED
    BY <2>1, <2>2, <2>3, <2>4
<1>4. Accesses(c)
  <2>1. Slot(c) \in Blocks \X Slots /\ Access(c, "consume")
    BY <1>2, <1>3 DEF Consume
  <2>2. QED
    BY <1>2, <2>1, AccessEffect
<1>5. /\ Moves(c, "release", h, f)
      /\ entries' = [entries EXCEPT ![n][f.i] = -1]
  BY <1>1, Locals DEF Consume, Ring!Consume, Ring!Goto, Moves, Block, Ring!Absent
<1>6. /\ pc'[c] = "release" /\ head'[c] = h /\ seen'[c] = f /\ Block(c)' = n
      /\ Slot(c)' = <<n, f.i>> /\ Idles(p)
  BY <1>2, <1>5, MovesTo
<1>7. /\ entries'[n][f.i] = -1
      /\ \A b \in Blocks, s \in Slots : <<b, s>> # <<n, f.i>> => entries'[b][s] = entries[b][s]
      /\ entries' \in [Blocks -> [Slots -> Nat \cup {-1}]]
  <2>1. entries \in [Blocks -> [Slots -> Nat \cup {-1}]]
    BY Locals
  <2>2. QED
    BY <1>3, <1>5, <2>1
<1>8. /\ Slot(p)' = Slot(p) /\ pc'[p] = pc[p] /\ seen'[p] = seen[p] /\ head'[p] = head[p]
      /\ Block(p)' = Block(p) /\ NextBlock(p)' = NextBlock(p) /\ Opening(p)' = Opening(p)
      /\ \A steps, b : At(p, steps, b)' = At(p, steps, b)
      /\ \A step, b : Opens(p, step, b)' = Opens(p, step, b)
  BY <1>6, IdlesLemma DEF Idles
<1>9. ProducerKnows(p)' /\ \A b \in Blocks : ProducerBlock(p, b)'
  <2>1. ProducerKnows(p) /\ Block(p) \in Blocks /\ \A b \in Blocks : ProducerBlock(p, b)
    BY <1>2, Facts
  <2>2. PushedTo(p)' = PushedTo(p)
    BY <1>4, <1>8 DEF PushedTo, Accesses
  <2>3. <<"phead", 0>> \in Words /\ \A b \in Blocks : <<"allocated", b>> \in Words
    BY <1>2, WordNames
  <2>4. ProducerKnows(p)'
    BY <1>2, <1>4, <1>8, <2>1, <2>3 DEF ProducerKnows, Accesses
  <2>5. ASSUME NEW b \in Blocks
        PROVE  ProducerBlock(p, b)'
    BY <1>2, <1>4, <1>8, <2>1, <2>2, <2>3 DEF ProducerBlock, Accesses
  <2>6. QED
    BY <2>4, <2>5
<1>10. ConsumerKnows(c)' /\ \A b \in Blocks : ConsumerBlock(c, b)'
  <2>1. ConsumerKnows(c) /\ \A b \in Blocks : ConsumerBlock(c, b)
    BY <1>2, Facts
  <2>2. PoppedTo(c)' = PoppedTo(c)
    BY <1>2, <1>4, <1>6 DEF PoppedTo, Accesses
  <2>3. /\ <<"chead", 0>> \in Words
        /\ \A b \in Blocks : <<"committed", b>> \in Words /\ <<"reserved", b>> \in Words
    BY <1>2, WordNames
  <2>4. ConsumerKnows(c)'
    BY <1>2, <1>4, <1>6, <2>1, <2>3 DEF ConsumerKnows, Accesses
  <2>5. ASSUME NEW b \in Blocks
        PROVE  ConsumerBlock(c, b)'
    <3>1. /\ ~ Opens(c, "reset_reserved", b) /\ ~ Opens(c, "reset_reserved", b)'
          /\ ~ Opens(c, "max_consumed", b)'
          /\ At(c, {"consume", "release"}, b) <=> b = n
          /\ At(c, {"consume", "release"}, b)' <=> b = n
      BY <1>1, <1>2, <1>6 DEF Opens, At
    <3>2. QED
      BY <1>1, <1>2, <1>4, <1>6, <2>1, <2>2, <2>3, <3>1 DEF ConsumerBlock, Accesses
  <2>6. QED
    BY <2>4, <2>5
<1>11. /\ ~ (Allocated(n).i <= f.i)
       /\ ~ (pc[p] = "produce" /\ Slot(p) = <<n, f.i>>)
       /\ ~ Opens(p, "max_committed", n) /\ ~ Opens(p, "max_allocated", n)
  <2>1. /\ ProducerBlock(p, n) /\ ProducerKnows(p) /\ seen[p] \in Pair /\ head[p] \in Heads
        /\ Allocated(n) \in Pair /\ Committed(n) \in Pair
        /\ Opening(p) = FromParts(head[p].v + 1, 0) /\ NextBlock(p) = After(head[p])
    BY <1>2, Facts
  <2>2. ~ Opens(p, "max_allocated", n)
    <3>1. SUFFICES ASSUME Opens(p, "max_allocated", n) PROVE FALSE
      OBVIOUS
    <3>2. Committed(n) = Opening(p)
      BY <2>1, <3>1 DEF ProducerBlock, At, Opens
    <3>3. QED
      BY <1>3, <2>1, <3>2 DEF FromParts, Pair
  <2>3. ~ Opens(p, "max_committed", n)
    <3>1. SUFFICES ASSUME Opens(p, "max_committed", n) PROVE FALSE
      OBVIOUS
    <3>2. pc[p] = "max_committed" /\ n = After(head[p]) /\ head[p] = Phead
      BY <2>1, <3>1 DEF Opens, ProducerKnows
    <3>3. Allocated(n) = FromParts(head[p].v, BlockSize)
      BY <3>2, NextLemma
    <3>4. /\ Committed(n) = Allocated(n)
          /\ AtMost(FromParts(head[p].v, BlockSize), Consumed(n))
      BY <2>1, <3>1, <3>2 DEF ProducerBlock, At, Opens
    <3>5. QED
      BY <1>3, <3>3, <3>4 DEF AtMost, FromParts, Slots
  <2>4. CASE At(p, {"produce", "commit"}, n)
    <3>1. Allocated(n) = FromParts(seen[p].v, seen[p].i + 1) /\ Committed(n) = seen[p]
      BY <2>1, <2>4 DEF ProducerBlock
    <3>2. QED
      BY <1>3, <2>1, <2>2, <2>3, <3>1 DEF FromParts, Pair, Slots, Slot
  <2>5. CASE ~ At(p, {"produce", "commit"}, n)
    <3>1. Committed(n) = Allocated(n) /\ ~ (pc[p] = "produce" /\ Slot(p) = <<n, f.i>>)
      BY <2>1, <2>2, <2>5 DEF ProducerBlock, At, Slot
    <3>2. QED
      BY <1>3, <2>1, <2>2, <2>3, <3>1 DEF Pair, Slots
  <2>6. QED
    BY <2>4, <2>5
<1>12. ASSUME NEW b \in Blocks
       PROVE  Leads(b)' /\ \A s \in Slots : EntryHeld(b, s)' /\ ProducerSees(p, b, s)' /\ ConsumerSees(c, b, s)'
  <2>1. Leads(b)'
    BY <1>4, Facts DEF Leads, Accesses
  <2>2. ASSUME NEW s \in Slots
        PROVE  EntryHeld(b, s)' /\ ProducerSees(p, b, s)' /\ ConsumerSees(c, b, s)'
    <3>1. EntryHeld(b, s) /\ ProducerSees(p, b, s) /\ ConsumerSees(c, b, s)
      BY Facts
    <3>2. /\ <<"committed", b>> \in Words /\ <<"consumed", b>> \in Words
      BY <1>2
    <3>3. CASE <<b, s>> = <<n, f.i>>
      <4>1. b = n /\ s = f.i
        BY <3>3
      <4>2. ~ Filled(b, s)'
        BY <1>2, <1>3, <1>4, <1>6, <4>1 DEF Filled, Accesses, Lone
      <4>3. EntryHeld(b, s)'
        BY <1>7, <4>1, <4>2 DEF EntryHeld
      <4>4. entries'[b][s] = -1
        BY <1>7, <4>1
      <4>5. ConsumerSees(c, b, s)'
        BY <1>2, <1>4, <4>1, <4>4 DEF ConsumerSees, Accesses
      <4>6. Carried(p, "consumed", b, s)'
        <5>1. ASSUME NEW k \in DOMAIN mem'[<<"consumed", b>>],
                     mem'[<<"consumed", b>>][k].value.v = f.v
              PROVE  ~ (s < mem'[<<"consumed", b>>][k].value.i)
          <6>1. /\ mem'[<<"consumed", b>>] \in Seq(Values) /\ mem'[<<"consumed", b>>] # <<>>
                /\ Last(<<"consumed", b>>)' = f
            BY <1>3, <1>4, <3>2, <4>1 DEF Accesses, MemoryInv, Consumed
          <6>2. LET l == Len(mem'[<<"consumed", b>>])
                IN  l \in DOMAIN mem'[<<"consumed", b>>] /\ k <= l
            BY <6>1, EmptySeq, LenProperties
          <6>3. /\ AtMost(mem'[<<"consumed", b>>][k].value, f)
                /\ mem'[<<"consumed", b>>][k].value \in Pair
            <7>1. mem'[<<"consumed", b>>][k] \in Values
              BY <6>1, ElementOfSeq, LenProperties
            <7>2. AtMost(mem'[<<"consumed", b>>][k].value, Last(<<"consumed", b>>)')
              BY <1>4, <3>2, <6>2 DEF Accesses, MemoryInv, Last
            <7>3. QED
              BY <6>1, <7>1, <7>2 DEF Values
          <6>4. QED
            BY <1>3, <4>1, <5>1, <6>3 DEF AtMost, Pair, Slots
        <5>2. Last(<<"consumed", b>>)' = f
          BY <1>3, <1>4, <4>1 DEF Accesses, Consumed
        <5>3. QED
          BY <5>1, <5>2 DEF Carried
      <4>7. ProducerSees(p, b, s)'
        BY <1>4, <1>8, <1>11, <4>1, <4>4, <4>6 DEF ProducerSees, Accesses
      <4>8. QED
        BY <4>3, <4>5, <4>7
    <3>4. CASE <<b, s>> # <<n, f.i>>
      <4>1. entries'[b][s] = entries[b][s]
        BY <1>7, <3>4
      <4>2. Filled(b, s)' <=> Filled(b, s)
        BY <1>2, <1>4, <1>6, <1>8, <3>4 DEF Filled, Accesses, Lone
      <4>3. EntryHeld(b, s)'
        BY <1>4, <3>1, <4>1, <4>2 DEF EntryHeld, Accesses
      <4>4. /\ <<b, s>> \in view[p].slots => <<b, s>> \in view'[p].slots
            /\ <<b, s>> \in view[c].slots => <<b, s>> \in view'[c].slots
            /\ Carried(p, "consumed", b, s) => Carried(p, "consumed", b, s)'
            /\ Carried(c, "committed", b, s) => Carried(c, "committed", b, s)'
        <5>1. <<b, s>> # Slot(c)
          BY <1>2, <3>4
        <5>2. /\ <<b, s>> \in view[p].slots => <<b, s>> \in view'[p].slots
              /\ <<b, s>> \in view[c].slots => <<b, s>> \in view'[c].slots
          BY <1>2, <1>4, <5>1 DEF Accesses
        <5>3. /\ Carried(p, "consumed", b, s) => Carried(p, "consumed", b, s)'
              /\ Carried(c, "committed", b, s) => Carried(c, "committed", b, s)'
          BY <1>2, <1>4, <3>2, <5>1 DEF Accesses
        <5>4. QED
          BY <5>2, <5>3
      <4>5. ProducerSees(p, b, s)'
        BY <1>4, <1>8, <3>1, <4>1, <4>4 DEF ProducerSees, Accesses
      <4>6. ConsumerSees(c, b, s)'
        BY <1>6, <3>1, <4>1, <4>4 DEF ConsumerSees
      <4>7. QED
        BY <4>3, <4>5, <4>6
    <3>5. QED
      BY <3>3, <3>4
  <2>3. QED
    BY <2>1, <2>2
<1>13. WeakInv'
  BY <1>2, <1>4, <1>9, <1>10, <1>12, Assemble DEF Accesses
<1>14. TypeOK'
  <2>1. "release" \in Ring!ConsumerSteps
    BY DEF Ring!ConsumerSteps
  <2>2. QED
    BY <1>2, <1>4, <1>5, <1>7, <2>1, Locals, TypesKept DEF Accesses
<1>15. QED
  BY <1>2, <1>13, <1>14 DEF Holds, Lone

(* What is consumed is released with everything the consumer comes after.  *)
LEMMA ReleaseKeeps ==
    ASSUME NEW p, NEW c, Holds(p, c), Release(c)
    PROVE  Holds(p, c)'
<1>1. PICK n \in Blocks, h \in Heads, f \in Pair : n = Block(c) /\ h = head[c] /\ f = seen[c]
  BY Parts, Facts
<1> DEFINE w == <<"consumed", n>>
           x == FromParts(f.v, f.i + 1)
<1>2. /\ Lone(p, c) /\ TypeOK /\ MemoryInv /\ p \in Threads /\ c \in Threads /\ p # c /\ c \notin Producers
      /\ n = h.i /\ w \in Words /\ pc[c] = "release" /\ Phead \in Heads /\ Chead \in Heads
      /\ Slot(c) = <<n, f.i>> /\ At(c, {"consume", "release"}, n) /\ p \in Loaders(w)
  BY <1>1, Parts, Facts, WordNames DEF Lone, Release, FetchAdd, Update, Slot, At
<1>3. /\ Reserved(n) = x /\ Consumed(n) = f /\ f.i < BlockSize /\ x.v = f.v /\ x.i = f.i + 1
      /\ x \in Pair /\ f.i \in Nat /\ Committed(n).v = f.v
  <2>1. Reserved(n) = x /\ Consumed(n) = f /\ Reserved(n).i <= BlockSize
    BY <1>1, <1>2, Facts DEF ConsumerBlock
  <2>2. f.i < BlockSize /\ x.v = f.v /\ x.i = f.i + 1 /\ x \in Pair /\ f.i \in Nat
    BY <2>1 DEF FromParts, Pair
  <2>3. Committed(n).v = f.v
    BY <2>1, <2>2, NextLemma
  <2>4. QED
    BY <2>1, <2>2, <2>3
<1>4. Incr(IndexSpan, Last(w)) = x /\ AtMost(Last(w), x) /\ Last(w) = f /\ x # f
  BY <1>2, <1>3 DEF Incr, FromParts, Pair, Consumed, AtMost
<1> HIDE DEF x
<1>5. /\ Puts(c, "consumed", n, x)
      /\ view[c].slots \subseteq mem'[w][Len(mem[w]) + 1].view.slots
  <2>1. Update(c, "release", w, x, TRUE)
    BY <1>1, <1>4 DEF Release, FetchAdd
  <2>2. QED
    BY <1>2, <1>3, <1>4, <2>1, Wrote
<1>6. Moves(c, "idle", Zero, Zero) /\ entries' = entries
  BY Locals DEF Release, Ring!Release, Ring!Return, Ring!Leave, Ring!Goto, Ring!Zero, Ring!FromParts,
                Zero, FromParts, Moves
<1>7. pc'[c] = "idle" /\ Idles(p)
  BY <1>2, <1>6, MovesTo
<1>8. /\ Memory /\ \A u \in Words : Latest(c, u) => Latest(c, u)'
      /\ \A u \in Threads : view'[u].slots = view[u].slots
      /\ Phead' = Phead /\ Chead' = Chead /\ Writes(c, w, x)
      /\ \A b \in Blocks : /\ Consumed(b)' = IF b = n THEN x ELSE Consumed(b)
                           /\ Allocated(b)' = Allocated(b)
                           /\ Committed(b)' = Committed(b) /\ Reserved(b)' = Reserved(b)
  BY <1>5 DEF Puts
<1>9. ASSUME NEW s \in Slots, entries[n][s] = -1
      PROVE  Carried(p, "consumed", n, s)'
  <2>1. ConsumerSees(c, n, s) /\ ProducerSees(p, n, s)
    BY <1>2, Facts
  <2>2. Carried(p, "consumed", n, s) /\ <<n, s>> \in view[c].slots
    BY <1>9, <2>1 DEF ConsumerSees, ProducerSees
  <2>3. s \in Nat
    BY DEF Slots
  <2>4. x.v = Last(w).v /\ <<n, s>> \in mem'[w][Len(mem[w]) + 1].view.slots
    BY <1>3, <1>4, <1>5, <2>2
  <2>5. \/ x.v > Last(w).v /\ x.i = 0
        \/ /\ x.v = Last(w).v
           /\ x # Last(w) => <<n, s>> \in mem'[w][Len(mem[w]) + 1].view.slots
    BY <2>4
  <2>6. QED
    BY <1>2, <1>3, <1>4, <1>8, <2>2, <2>3, <2>5, CarriedWritten
<1>10. /\ ProducerKnows(p)'
       /\ \A b \in Blocks :
              /\ ProducerBlock(p, b)'
              /\ \A s \in Slots : /\ ProducerSees(p, b, s)'
                                  /\ entries[b][s] # -1 => Carried(c, "committed", b, s)'
              /\ \A g \in Pair : AtMost(g, Known(c, <<"committed", b>>)) =>
                                     AtMost(g, Known(c, <<"committed", b>>)')
  BY <1>5, <1>6, <1>7, <1>9, PopPuts
<1>11. ConsumerKnows(c)'
  BY <1>2, <1>7, <1>8, Facts, WordNames DEF ConsumerKnows
<1>12. ASSUME NEW b \in Blocks
       PROVE  /\ ConsumerBlock(c, b)' /\ Leads(b)'
              /\ \A s \in Slots : EntryHeld(b, s)' /\ ConsumerSees(c, b, s)'
  <2>1. /\ ConsumerBlock(c, b) /\ PoppedTo(c) = PoppedTo(c)' /\ <<"reserved", b>> \in Words
        /\ Reserved(b) \in Pair
    BY <1>2, <1>7, <1>8, Facts, WordNames DEF PoppedTo
  <2>2. /\ At(c, {"consume", "release"}, b) <=> b = n
        /\ ~ Opens(c, "reset_reserved", b)
        /\ ~ At(c, {"consume", "release"}, b)' /\ ~ Opens(c, "max_consumed", b)'
        /\ ~ Opens(c, "reset_reserved", b)'
    BY <1>1, <1>2, <1>7 DEF At, Opens
  <2>3. ConsumerBlock(c, b)'
    <3>1. Consumed(b)' = Reserved(b)
      BY <1>3, <1>8, <2>1, <2>2 DEF ConsumerBlock
    <3>2. AtMost(Reserved(b), Known(c, <<"committed", b>>)')
      BY <1>10, <2>1 DEF ConsumerBlock
    <3>3. QED
      BY <1>8, <2>1, <2>2, <3>1, <3>2 DEF ConsumerBlock
  <2>4. Leads(b)'
    BY <1>3, <1>8, Facts DEF Leads
  <2>5. ASSUME NEW s \in Slots
        PROVE  EntryHeld(b, s)' /\ ConsumerSees(c, b, s)'
    <3>1. EntryHeld(b, s) /\ ConsumerSees(c, b, s)
      BY Facts
    <3>2. Slot(p)' = Slot(p) /\ pc'[p] = pc[p]
      BY <1>7, IdlesLemma DEF Idles
    <3>3. Filled(b, s)' <=> Filled(b, s)
      <4>1. /\ (\E d \in Consumers : pc[d] = "release" /\ Slot(d) = <<b, s>>) <=> b = n /\ s = f.i
            /\ ~ \E d \in Consumers : pc'[d] = "release" /\ Slot(d)' = <<b, s>>
        BY <1>2, <1>7 DEF Lone
      <4>2. Consumed(b)'.v = Consumed(b).v
        BY <1>3, <1>8
      <4>3. Consumed(b)'.i <= s <=> Consumed(b).i <= s /\ ~ (b = n /\ s = f.i)
        BY <1>3, <1>8 DEF Slots
      <4>4. (\E q \in Producers : pc'[q] = "commit" /\ Slot(q)' = <<b, s>>)
                <=> \E q \in Producers : pc[q] = "commit" /\ Slot(q) = <<b, s>>
        BY <1>2, <3>2 DEF Lone
      <4>5. QED
        BY <1>8, <4>1, <4>2, <4>3, <4>4 DEF Filled
    <3>4. EntryHeld(b, s)'
      BY <1>6, <1>8, <3>1, <3>3 DEF EntryHeld
    <3>5. ConsumerSees(c, b, s)'
      BY <1>2, <1>6, <1>7, <1>8, <1>10, <3>1 DEF ConsumerSees
    <3>6. QED
      BY <3>4, <3>5
  <2>6. QED
    BY <2>3, <2>4, <2>5
<1>13. WeakInv'
  BY <1>2, <1>8, <1>10, <1>11, <1>12, Assemble DEF Memory
<1>14. TypeOK'
  <2>1. "idle" \in Ring!ConsumerSteps
    BY DEF Ring!ConsumerSteps
  <2>2. QED
    BY <1>2, <1>6, <1>8, <2>1, Locals, MovesLemma
<1>15. QED
  BY <1>2, <1>13, <1>14 DEF Holds, Lone
-----------------------------------------------------------------------------
(* Every word has the one value it was made with, and every slot is free.  *)
LEMMA InitHolds ==
    ASSUME NEW p, NEW c, Lone(p, c), Init
    PROVE  Holds(p, c)
<1>1. /\ Threads = {p, c} /\ p \in Producers /\ c \in Consumers /\ p # c
      /\ \A b \in Blocks : /\ <<"allocated", b>> \in Words /\ <<"committed", b>> \in Words
                           /\ <<"reserved", b>> \in Words /\ <<"consumed", b>> \in Words
      /\ <<"phead", 0>> \in Words /\ <<"chead", 0>> \in Words
  BY WordNames
<1>2. /\ Zero \in Heads /\ Zero \in Pair /\ Zero.v = 0 /\ Zero.i = 0
      /\ FromParts(0, BlockSize) \in Pair /\ FromParts(0, BlockSize).v = 0
      /\ FromParts(0, BlockSize).i = BlockSize /\ Nothing \in Views
      /\ [Nothing EXCEPT !.slots = Blocks \X Slots] \in Views
      /\ [Nothing EXCEPT !.slots = Blocks \X Slots].slots = Blocks \X Slots
      /\ \A w \in Words : /\ [Nothing EXCEPT !.slots = Blocks \X Slots].at[w] = 1
                          /\ Nothing.at[w] = 1
  BY DEF Zero, FromParts, Heads, Pair, Blocks, Nothing, Views
<1> DEFINE all == [Nothing EXCEPT !.slots = Blocks \X Slots]
           first(w) == IF w[2] = 0 THEN Zero ELSE FromParts(0, BlockSize)
<1>3. ASSUME NEW w \in Words
      PROVE  /\ first(w) \in Pair
             /\ mem[w] = <<[value |-> first(w), view |-> Nothing]>>
             /\ mem[w] \in Seq(Values) /\ mem[w] # <<>> /\ Len(mem[w]) = 1 /\ DOMAIN mem[w] = {1}
             /\ mem[w][1].value = first(w) /\ mem[w][1].view = Nothing
             /\ Last(w) = first(w)
  BY <1>2 DEF Init, Made, Values, Last
<1>4. /\ view = [t \in Threads |-> all] /\ all \in Views
      /\ \A t \in Threads : view[t].slots = Blocks \X Slots /\ \A w \in Words : view[t].at[w] = 1
  BY <1>2 DEF Init
<1> HIDE DEF all
<1>5. /\ Phead = Zero /\ Chead = Zero
      /\ \A b \in Blocks : LET x == IF b = 0 THEN Zero ELSE FromParts(0, BlockSize)
                           IN  /\ Allocated(b) = x /\ Committed(b) = x
                               /\ Reserved(b) = x /\ Consumed(b) = x
  BY <1>1, <1>3 DEF Phead, Chead, Allocated, Committed, Reserved, Consumed
<1>6. TypeOK
  <2>1. mem \in [Words -> Seq(Values)] /\ view \in [Threads -> Views]
    BY <1>3, <1>4 DEF Init
  <2>2. \A w \in Words : Last(w) \in Pair
    BY <1>3
  <2>3. /\ [b \in Blocks |-> Last(<<"allocated", b>>)] \in [Blocks -> Pair]
        /\ [b \in Blocks |-> Last(<<"committed", b>>)] \in [Blocks -> Pair]
        /\ [b \in Blocks |-> Last(<<"reserved", b>>)] \in [Blocks -> Pair]
        /\ [b \in Blocks |-> Last(<<"consumed", b>>)] \in [Blocks -> Pair]
    BY <1>1, <2>2
  <2>4. "idle" \in Ring!ProducerSteps /\ "idle" \in Ring!ConsumerSteps
    BY DEF Ring!ProducerSteps, Ring!ConsumerSteps
  <2>5. /\ entries \in [Blocks -> [Slots -> Nat \cup {Ring!Absent}]]
        /\ pc \in [Threads -> Ring!ProducerSteps \cup Ring!ConsumerSteps]
        /\ \A q \in Producers : pc[q] \in Ring!ProducerSteps
        /\ \A d \in Consumers : pc[d] \in Ring!ConsumerSteps
        /\ head \in [Threads -> Heads] /\ seen \in [Threads -> Pair]
        /\ mark \in [Consumers -> Pair]
    BY <1>2, <2>4 DEF Init, Ring!Absent, Threads
  <2>6. Ring!TypeOK
    BY <1>2, <1>5, <2>3, <2>5, RingNames DEF Ring!TypeOK, Heads, Phead, Chead
  <2>7. QED
    BY <2>1, <2>6 DEF TypeOK
<1>7. MemoryInv
  <2>1. ASSUME NEW w \in Words
        PROVE  AtMost(mem[w][1].value, mem[w][1].value)
    <3>1. mem[w][1].value \in Pair
      BY <1>3
    <3>2. QED
      BY <3>1, AtMostIsOrder
  <2>2. /\ \A w \in Words : mem[w] # <<>> /\ Len(mem[w]) = 1 /\ DOMAIN mem[w] = {1}
        /\ \A w, u \in Words : mem[u][1].view.at[w] = 1
        /\ \A t \in Threads : \A w \in Words : view[t].at[w] = 1
    BY <1>2, <1>3, <1>4
  <2> HIDE DEF first
  <2>3. ASSUME NEW w \in Words
        PROVE  /\ \A t \in Threads : view[t].at[w] <= Len(mem[w])
               /\ \A u \in Words : \A k \in DOMAIN mem[u] : mem[u][k].view.at[w] <= Len(mem[w])
               /\ \A k, l \in DOMAIN mem[w] : AtMost(mem[w][k].value, mem[w][l].value)
    <3>1. \A u \in Words : \A k \in DOMAIN mem[u] : k = 1
      BY <2>2
    <3>2. QED
      BY <2>1, <2>2, <3>1
  <2>4. QED
    BY <2>2, <2>3 DEF MemoryInv
<1>8. \A t \in Threads, w \in Words : Latest(t, w) /\ Known(t, w) = Last(w)
  BY <1>3, <1>4 DEF Latest, Known, Last
<1>9. \A t \in Threads : pc[t] = "idle"
  BY DEF Init
<1>10. ProducerKnows(p) /\ ConsumerKnows(c)
  BY <1>1, <1>8, <1>9 DEF ProducerKnows, ConsumerKnows
<1>11. ASSUME NEW b \in Blocks
       PROVE  /\ Leads(b) /\ ProducerBlock(p, b) /\ ConsumerBlock(c, b)
              /\ \A s \in Slots : EntryHeld(b, s) /\ ProducerSees(p, b, s) /\ ConsumerSees(c, b, s)
  <2> DEFINE x == IF b = 0 THEN Zero ELSE FromParts(0, BlockSize)
  <2>1. /\ Allocated(b) = x /\ Committed(b) = x /\ Reserved(b) = x /\ Consumed(b) = x
        /\ x \in Pair /\ x.v = 0 /\ x.i <= BlockSize /\ AtMost(x, x)
    BY <1>2, <1>5, AtMostIsOrder
  <2>2. ComeTo(x, b, Zero)
    BY <1>2 DEF ComeTo, VersionAt, Blocks
  <2> HIDE DEF x
  <2>3. PushedTo(p) = Zero /\ PoppedTo(c) = Zero
    BY <1>1, <1>5, <1>9 DEF PushedTo, PoppedTo
  <2>4. /\ \A t \in Threads : \A step : step # "idle" => ~ Opens(t, step, b)
        /\ ~ At(p, {"produce", "commit"}, b) /\ ~ At(c, {"consume", "release"}, b)
    BY <1>1, <1>9 DEF Opens, At
  <2>5. Leads(b)
    BY <2>1 DEF Leads
  <2>6. ProducerBlock(p, b)
    BY <1>1, <1>8, <2>1, <2>2, <2>3, <2>4 DEF ProducerBlock
  <2>7. ConsumerBlock(c, b)
    <3>1. Known(c, <<"committed", b>>) = x
      BY <1>1, <1>8, <2>1 DEF Committed
    <3>2. QED
      BY <1>1, <1>8, <2>1, <2>2, <2>3, <2>4, <3>1 DEF ConsumerBlock
  <2>8. ASSUME NEW s \in Slots
        PROVE  EntryHeld(b, s) /\ ProducerSees(p, b, s) /\ ConsumerSees(c, b, s)
    <3>1. entries[b][s] = -1 /\ <<b, s>> \in view[p].slots /\ <<b, s>> \in view[c].slots
      BY <1>1, <1>4 DEF Init
    <3>2. ~ Filled(b, s)
      <4>1. ~ \E q \in Producers : pc[q] = "commit" /\ Slot(q) = <<b, s>>
        BY <1>9 DEF Threads
      <4>2. s < x.i => ~ (x.i <= s)
        BY <2>1 DEF Slots, Pair
      <4>3. QED
        BY <2>1, <4>1, <4>2 DEF Filled
    <3>3. Carried(p, "consumed", b, s)
      BY <3>1 DEF Carried
    <3>4. QED
      BY <3>1, <3>2, <3>3 DEF EntryHeld, ProducerSees, ConsumerSees
  <2>9. QED
    BY <2>5, <2>6, <2>7, <2>8
<1>12. WeakInv
  <2>1. (\A q \in Producers : q = p) /\ (\A d \in Consumers : d = c)
    BY DEF Lone
  <2>2. QED
    BY <1>7, <1>10, <1>11, <2>1 DEF WeakInv
<1>13. QED
  BY <1>6, <1>12 DEF Holds

(* No step breaks the invariant.                                           *)
LEMMA NextKeeps ==
    ASSUME NEW p, NEW c, Holds(p, c), [Next]_vars
    PROVE  Holds(p, c)'
<1>1. CASE UNCHANGED vars
  <2>1. /\ Lone(p, c) /\ TypeOK /\ MemoryInv /\ p \in Threads /\ c \in Threads
        /\ UNCHANGED <<mem, view, entries, pc, head, seen, mark>>
    BY <1>1, Parts DEF vars
  <2>2. Loads(p) /\ Idles(p) /\ Idles(c)
    BY <2>1, LocalLemma DEF Idles
  <2>3. Memory /\ \A w \in Words : Same(w) /\ Last(w)' = Last(w)
    BY <2>1, <2>2, SameLast DEF Loads
  <2>4. /\ Phead' = Phead /\ Chead' = Chead
        /\ \A b \in Blocks : /\ Allocated(b)' = Allocated(b) /\ Committed(b)' = Committed(b)
                             /\ Reserved(b)' = Reserved(b) /\ Consumed(b)' = Consumed(b)
                             /\ Consumed(b) \in Pair /\ AtMost(Consumed(b), Consumed(b))
    <3>1. \A b \in Blocks : Consumed(b) \in Pair /\ AtMost(Consumed(b), Consumed(b))
      BY Facts, AtMostIsOrder
    <3>2. QED
      BY <2>1, <2>3, <3>1, WordNames
         DEF Phead, Chead, Allocated, Committed, Reserved, Consumed
  <2>5. /\ ConsumerKnows(c)' /\ ProducerKnows(p)'
        /\ \A b \in Blocks : ConsumerBlock(c, b)' /\ ProducerBlock(p, b)'
    <3>1. /\ Same(<<"phead", 0>>) /\ Same(<<"chead", 0>>)
          /\ \A b \in Blocks : /\ Same(<<"allocated", b>>) /\ Same(<<"committed", b>>)
                               /\ Same(<<"reserved", b>>) /\ Same(<<"consumed", b>>)
      BY <2>1, <2>3, WordNames
    <3>2. \A b \in Blocks : Consumed(b)' \in Pair /\ AtMost(Consumed(b), Consumed(b)')
      BY <2>4
    <3>3. ConsumerKnows(c)' /\ \A b \in Blocks : ConsumerBlock(c, b)'
      BY <2>2, <2>3, <3>1, ConsumerKept
    <3>4. ProducerKnows(p)' /\ \A b \in Blocks : ProducerBlock(p, b)'
      BY <2>2, <2>3, <3>1, <3>2, ProducerKept
    <3>5. QED
      BY <3>3, <3>4
  <2>6. ASSUME NEW b \in Blocks
        PROVE  /\ Leads(b)'
               /\ \A s \in Slots : EntryHeld(b, s)' /\ ProducerSees(p, b, s)' /\ ConsumerSees(c, b, s)'
    <3>1. Leads(b)'
      BY <2>4, Facts DEF Leads
    <3>2. ASSUME NEW s \in Slots
          PROVE  EntryHeld(b, s)' /\ ProducerSees(p, b, s)' /\ ConsumerSees(c, b, s)'
      <4>1. EntryHeld(b, s) /\ ProducerSees(p, b, s) /\ ConsumerSees(c, b, s)
        BY Facts
      <4>2. /\ Slot(p)' = Slot(p) /\ Slot(c)' = Slot(c)
            /\ \A step : Opens(p, step, b)' = Opens(p, step, b)
        BY <2>2, IdlesLemma
      <4>3. Filled(b, s)' <=> Filled(b, s)
        BY <2>1, <2>4, <4>2 DEF Filled, Lone
      <4>4. EntryHeld(b, s)'
        BY <2>1, <2>4, <4>1, <4>3 DEF EntryHeld
      <4>5. /\ Carried(p, "consumed", b, s) => Carried(p, "consumed", b, s)'
            /\ Carried(c, "committed", b, s) => Carried(c, "committed", b, s)'
        BY <2>1, <2>3, CarriedKept, WordNames
      <4>6. ProducerSees(p, b, s)' /\ ConsumerSees(c, b, s)'
        BY <2>1, <2>4, <4>1, <4>2, <4>5 DEF ProducerSees, ConsumerSees
      <4>7. QED
        BY <4>4, <4>6
    <3>3. QED
      BY <3>1, <3>2
  <2>7. WeakInv'
    BY <2>1, <2>3, <2>5, <2>6, Assemble DEF Memory
  <2>8. Phead' \in Heads /\ Chead' \in Heads /\ Moves(p, pc[p], head[p], seen[p])
    <3>1. Ring!TypeOK
      BY <2>1 DEF TypeOK
    <3>2. QED
      BY <2>1, <2>4, <3>1, Facts, Locals, RingNames DEF Moves, Ring!TypeOK
  <2>9. TypeOK'
    <3>1. /\ Ring!TypeOK /\ p \in Producers /\ p \notin Consumers
          /\ head[p] \in Heads /\ seen[p] \in Pair
      BY <2>1, Facts DEF TypeOK, Lone
    <3>2. pc[p] \in Ring!ProducerSteps
      BY <3>1 DEF Ring!TypeOK
    <3>3. QED
      BY <2>1, <2>3, <2>8, <3>1, <3>2, Locals, MovesLemma
  <2>10. QED
    BY <2>1, <2>7, <2>9 DEF Holds, Lone
<1>2. CASE Push(p)
  BY <1>2, StartPushKeeps, LoadPheadKeeps, LoadAllocatedKeeps, AddAllocatedKeeps, CheckConsumedKeeps,
     CheckReservedKeeps, MaxCommittedKeeps, MaxAllocatedKeeps, MaxPheadKeeps, ProduceKeeps, CommitKeeps
     DEF Push
<1>3. CASE Pop(c)
  BY <1>3, StartPopKeeps, LoadCheadKeeps, LoadReservedKeeps, LoadCommittedKeeps, CheckAllocatedKeeps,
     MaxReservedKeeps, CheckCommittedKeeps, MaxConsumedKeeps, ResetReservedKeeps, MaxCheadKeeps,
     ConsumeKeeps, ReleaseKeeps
     DEF Pop
<1>4. CASE Next
  <2>1. Push(p) \/ Pop(c)
    BY <1>4, Parts DEF Next, Lone
  <2>2. QED
    BY <1>2, <1>3, <2>1
<1>5. QED
  BY <1>1, <1>4

(* Each thread comes after the last access to the slot it is given.        *)
LEMMA NoRace ==
    ASSUME NEW p, NEW c, Holds(p, c)
    PROVE  RaceFree
<1>1. /\ Threads = {p, c} /\ seen[p] \in Pair /\ seen[c] \in Pair
      /\ Block(p) \in Blocks /\ Block(c) \in Blocks
  BY Facts
<1>2. ASSUME pc[p] = "produce"
      PROVE  Slot(p) \in view[p].slots
  <2>1. Allocated(Block(p)) = FromParts(seen[p].v, seen[p].i + 1) /\ Allocated(Block(p)).i <= BlockSize
    BY <1>1, <1>2, Facts DEF ProducerBlock, At
  <2>2. seen[p].i \in Slots
    BY <1>1, <2>1 DEF FromParts, Pair, Slots
  <2>3. ProducerSees(p, Block(p), seen[p].i)
    BY <1>1, <2>2, Facts
  <2>4. QED
    BY <1>2, <2>3 DEF ProducerSees, Slot
<1>3. ASSUME pc[c] = "consume"
      PROVE  Slot(c) \in view[c].slots
  <2>1. Reserved(Block(c)) = FromParts(seen[c].v, seen[c].i + 1) /\ Reserved(Block(c)).i <= BlockSize
    BY <1>1, <1>3, Facts DEF ConsumerBlock, At
  <2>2. seen[c].i \in Slots
    BY <1>1, <2>1 DEF FromParts, Pair, Slots
  <2>3. ConsumerSees(c, Block(c), seen[c].i)
    BY <1>1, <2>2, Facts
  <2>4. QED
    BY <1>3, <2>3 DEF ConsumerSees, Slot
<1>4. pc[p] # "consume" /\ pc[c] # "produce"
  <2>1. Ring!TypeOK /\ p \in Producers /\ c \in Consumers
    BY Parts, Facts DEF TypeOK
  <2>2. pc[p] \in Ring!ProducerSteps /\ pc[c] \in Ring!ConsumerSteps
    BY <2>1 DEF Ring!TypeOK
  <2>3. QED
    BY <2>2 DEF Ring!ProducerSteps, Ring!ConsumerSteps
<1>5. QED
  BY <1>1, <1>2, <1>3, <1>4 DEF RaceFree
-----------------------------------------------------------------------------
(* One thread pushes and one thread pops.                                  *)
OneEach == \E p, c : Lone(p, c)

(* mpmc/block.rs and mpmc/fifo_inner.rs: each word is written by one of    *)
(* the two threads only, and a value the other finds, however old, carries *)
(* the accesses it counts.                                                 *)
THEOREM WeakInvariant == OneEach => (Spec => []WeakInv)
<1> SUFFICES ASSUME OneEach PROVE Spec => []WeakInv
  OBVIOUS
<1>1. PICK p, c : Lone(p, c)
  BY DEF OneEach
<1>2. Init => Holds(p, c)
  BY <1>1, InitHolds
<1>3. Holds(p, c) /\ [Next]_vars => Holds(p, c)'
  BY NextKeeps
<1>4. Holds(p, c) => WeakInv
  BY DEF Holds
<1>5. QED
  BY <1>2, <1>3, <1>4, PTL DEF Spec

(* mpmc/block.rs:116 and mpmc/entries.rs, Drop: with one producer and one  *)
(* consumer the Release on commit and on release, and the Acquire of the   *)
(* loads that find them, leave no access to a slot unordered.              *)
THEOREM RaceFreedom == OneEach => (Spec => []RaceFree)
<1> SUFFICES ASSUME OneEach PROVE Spec => []RaceFree
  OBVIOUS
<1>1. PICK p, c : Lone(p, c)
  BY DEF OneEach
<1>2. Init => Holds(p, c)
  BY <1>1, InitHolds
<1>3. Holds(p, c) /\ [Next]_vars => Holds(p, c)'
  BY NextKeeps
<1>4. Holds(p, c) => RaceFree
  BY NoRace
<1>5. QED
  BY <1>2, <1>3, <1>4, PTL DEF Spec
=============================================================================
