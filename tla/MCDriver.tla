------------------------------ MODULE MCDriver ------------------------------
(* Programs of src/bin small enough for TLC.                               *)
EXTENDS Driver, TLC

CONSTANTS p1, t1, t2, c1

OnePerLayer == p1 :> 0 @@ t1 :> 1 @@ c1 :> 2
TwoTransformers == p1 :> 0 @@ t1 :> 1 @@ t2 :> 1 @@ c1 :> 2

(* The layers are declared as in paella_1_buffer_dyn; variadic_perf has    *)
(* AtomicHead in all three, which for one thread does the same in fewer    *)
(* steps.  variadic_perf goes round the ring, paella fills it; the         *)
(* transformer of a third program may drop its entries unused, and any     *)
(* thread of a fourth may panic.                                           *)
SmallPrograms == {VariadicPerf(Capacity + 1), PaellaPerf(Capacity),
                  [VariadicPerf(BlockSize + 1) EXCEPT !.careless = {t1}],
                  [VariadicPerf(BlockSize + 1) EXCEPT !.fragile = Threads]}
=============================================================================
