------------------------------ MODULE GemmRing -------------------------------
(***************************************************************************)
(* The ring of stages between the loader and the consumer of a GEMM, the   *)
(* tiles that go through it, and what the kernel is to compute.            *)
(* A problem is one of GemmScheduler, with stages (kNumStages) and the     *)
(* numbers of its warps.                                                   *)
(***************************************************************************)
EXTENDS GemmScheduler, KernelSteps

Peer(cta) == Xor1(cta)
Ctas(p) == 0 .. p.sms - 1
Wgs(p) == 0 .. p.wgs - 1

Full(cta, s) == <<cta, "full", s>>
Empty(cta, s) == <<cta, "empty", s>>
Store(cta) == <<cta, "store">> \* the storing warps meet
SmemA(cta, s) == <<cta, "A", s>>
SmemB(cta, s) == <<cta, "B", s>>
SmemD(cta, w) == <<cta, "D", w>>
Accum(cta, w) == <<cta, "accum", w>>
Out(rows, n, w) == <<Gmem, "D", rows, n, w>>

\* The data a K block of a block of D multiplies, and their product.
TileA(p, b, k) == <<"A", RowsOf(p, b), KOf(p, b, k)>>
TileB(p, b, k) == <<"B", ColsOf(p, b), KOf(p, b, k)>>
Partial(b, k) == <<"partial", b.group, b.m, b.n, k>>
Result(b) == <<"result", b.group, b.m, b.n>>

\* stage_idx and phase after advance_pipeline has run `it` times.
Stage(p, it) == it % p.stages
Phase(p, it) == (it \div p.stages) % 2

\* The K blocks of a CTA, in order: block, K block within it.
KBlocks(p, cta) ==
  FlattenSeq([i \in 1 .. Len(Blocks(p, cta)) |->
    LET b == Blocks(p, cta)[i]
    IN  [k \in 1 .. b.k |-> [b |-> b, k |-> k - 1]]])

\* The K blocks before the i-th block of a CTA.
ItBefore(p, cta, i) == SumOver(1 .. i, LAMBDA j : Blocks(p, cta)[j].k)

\* The cells of the output, each block in the given parts, with the results
\* asked for.
Results(p, parts) ==
  [c \in { Out(OutRowsOf(p, o), o.n, w) : o \in Outputs(p), w \in parts } |->
     LET o == CHOOSE x \in Outputs(p) : \E w \in parts : c = Out(OutRowsOf(p, x), x.n, w)
     IN  Result(o)]
=============================================================================
