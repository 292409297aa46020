--------------------------- MODULE Sm90Fp8Gemm1D2D ---------------------------
(***************************************************************************)
(* The FP8 GEMM kernel of Hopper with scaling factors of A along K, copied *)
(* with A, and scaling factors of B per block, which the math warps fetch  *)
(* themselves: smem_sfb holds those of one block of D, all K blocks of it, *)
(* and is overwritten at the start of the next.                            *)
(* `waves` is BLOCK_M / WAVE_BLOCK_M; `valid` gives the rows of blocks     *)
(* whose second warpgroup has rows to compute (is_computation_valid).      *)
(***************************************************************************)
EXTENDS Sm90GemmRing

SmemSFA(cta, s) == <<cta, "SFA", s>>
SmemSFB(cta, w) == <<cta, "SFB", w>>
Meet(cta) == <<cta, "meet">>
ScalesA(p, b, k) == <<"SFA", RowsOf(p, b), k>>
ScalesB(p, b) == <<"SFB", ColsOf(p, b)>>

Barriers(p) ==
  [b \in { Full(c, s) : c \in Ctas(p), s \in 0 .. p.stages - 1 }
         \cup { Empty(c, s) : c \in Ctas(p), s \in 0 .. p.stages - 1 }
         \cup { Store(c) : c \in Ctas(p) } \cup { Meet(c) : c \in Ctas(p) } |->
     CASE b[2] = "full" -> 1
       [] b[2] = "empty" -> p.mc * p.wgs
       [] b[2] \in {"store", "meet"} -> p.wgs]

\* A K block: wait for the stage, copy A with its scales, and B.
LoaderStep(p, cta, it) ==
  LET s == Stage(p, it)
      x == KBlocks(p, cta)[it + 1]
      both == x.b.multicast /\ p.mc > 1
  IN  [wait |-> {<<Empty(cta, s), 1 - Phase(p, it)>>},
       load |-> Copy(p, cta, p.onA /\ both, LAMBDA c : SmemA(c, s), s, TileA(p, x.b, x.k))
                \cup Copy(p, cta, p.onA /\ both, LAMBDA c : SmemSFA(c, s), s,
                          ScalesA(p, x.b, x.k))
                \cup Copy(p, cta, ~p.onA /\ both, LAMBDA c : SmemB(c, s), s, TileB(p, x.b, x.k)),
       arrive |-> {<<Full(cta, s), 3>>}] @@ Nop
Loader(p, cta) ==
  [it \in 1 .. Len(KBlocks(p, cta)) |-> LoaderStep(p, cta, it - 1)] \o FinalWaits(p, cta)

\* Fault: a warpgroup goes on with its own part of the scales in place.
FetchScales_Alone(p, cta, w, i) ==
  <<[write |-> {<<SmemSFB(cta, w), ScalesB(p, Blocks(p, cta)[i + 1])>>}] @@ Nop>>
\* The start of the i-th block: the warps fetch the scales of B, and meet.
FetchScales(p, cta, w, i) ==
  <<[write |-> {<<SmemSFB(cta, w), ScalesB(p, Blocks(p, cta)[i + 1])>>},
     arrive |-> {<<Meet(cta), 0>>}] @@ Nop,
    [wait |-> {<<Meet(cta), i % 2>>}] @@ Nop>>

Computes(p, b, w) == w = 0 \/ b.m \in p.valid

\* A wave: read the scales, multiply, wait; release the stage after the last
\* one; promote.
Wave(p, cta, w, x, s, v, waits) ==
  LET r == IF v = p.waves - 1 THEN Release(p, cta, x.b, s) ELSE <<Nop>>
  IN  <<[wait |-> waits,
         read |-> {<<SmemSFA(cta, s), ScalesA(p, x.b, x.k)>>},
         issue |-> <<Group("mma", {<<SmemA(cta, s), TileA(p, x.b, x.k)>>,
                                   <<SmemB(cta, s), TileB(p, x.b, x.k)>>},
                           {<<Accum(cta, w), Partial(x.b, x.k)>>}, {})>>] @@ Nop>>
      \o <<[drain |-> {<<"mma", 0>>}] @@ r[1]>> \o Tail(r)
      \o <<[read |-> {<<Accum(cta, w), Partial(x.b, x.k)>>}] @@ Nop>>

\* A K block: read the scales of B, wait for the stage, the waves.  Without
\* rows to compute, a warpgroup releases the stages as they come.
MathSteps(p, cta, w, it) ==
  LET s == Stage(p, it)
      x == KBlocks(p, cta)[it + 1]
      full == {<<Full(cta, s), Phase(p, it)>>}
      r == Release(p, cta, x.b, s)
  IN  IF ~Computes(p, x.b, w) THEN <<[wait |-> full] @@ r[1]>> \o Tail(r)
      ELSE <<[read |-> { <<SmemSFB(cta, v), ScalesB(p, x.b)>> : v \in Wgs(p) }] @@ Nop>>
           \o FlattenSeq([v \in 1 .. p.waves |->
                            Wave(p, cta, w, x, s, v - 1, IF v = 1 THEN full ELSE {})])

\* The end of a block, as in the BF16 kernel.
Epilogue(p, cta, w, i) ==
  LET b == Blocks(p, cta)[i + 1]
      meet == {<<Store(cta), 0>>}
  IN  <<[drain |-> IF w = 0 THEN {<<"store", 0>>} ELSE {}, arrive |-> meet] @@ Nop,
        [wait |-> {<<Store(cta), 0>>}, write |-> {<<SmemD(cta, w), Result(b)>>},
         arrive |-> meet] @@ Nop,
        [wait |-> {<<Store(cta), 1>>},
         issue |-> IF w # 0 THEN <<>>
                   ELSE <<Group("store", { <<SmemD(cta, v), Result(b)>> : v \in Wgs(p) },
                                { <<Out(OutRowsOf(p, b), b.n, v), Result(b)>> : v \in Wgs(p) },
                                {})>>] @@ Nop>>

Math(p, cta, w) ==
  FlattenSeq([i \in 1 .. Len(Blocks(p, cta)) |->
    FetchScales(p, cta, w, i - 1)
    \o FlattenSeq([k \in 1 .. Blocks(p, cta)[i].k |->
                     MathSteps(p, cta, w, ItBefore(p, cta, i - 1) + k - 1)])
    \o Epilogue(p, cta, w, i - 1)])

Fp8Gemm1D2D(p) == Kernel(Barriers(p), Programs(p, Loader, Math), <<>>, Results(p, Wgs(p)))
=============================================================================
