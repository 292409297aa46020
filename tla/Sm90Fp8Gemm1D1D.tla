--------------------------- MODULE Sm90Fp8Gemm1D1D ---------------------------
(***************************************************************************)
(* The FP8 GEMM kernel of Hopper with scaling factors along K for both     *)
(* operands, copied with them.  It accumulates into D in global memory:    *)
(* the outputs of a K-grouped problem are apart, so every result is        *)
(* written once.  The actors of a CTA are warps here, not warpgroups: of   *)
(* each warpgroup the first warp, which issues the store of its rows, and  *)
(* one of the others.  That a copy takes the tensor map of its group when  *)
(* it is issued is assumed.                                                *)
(***************************************************************************)
EXTENDS Sm90GemmRing

SmemSFA(cta, s) == <<cta, "SFA", s>>
SmemSFB(cta, s) == <<cta, "SFB", s>>
Scales(rows, b, k) == <<"SF", rows, b.sfStart + k>>

\* The arrivals of the m-barriers; named barrier math_wg_idx joins the warps
\* of a warpgroup.
Barriers(p) ==
  [b \in { Full(c, s) : c \in Ctas(p), s \in 0 .. p.stages - 1 }
         \cup { Empty(c, s) : c \in Ctas(p), s \in 0 .. p.stages - 1 }
         \cup { Store(c) : c \in Ctas(p) } |->
     CASE b[2] = "full" -> 1
       [] b[2] = "empty" -> p.mc * p.wgs
       [] b[2] = "store" -> p.wgs]

\* A K block: wait for the stage, copy the operands and their scales.
LoaderStep(p, cta, it) ==
  LET s == Stage(p, it)
      x == KBlocks(p, cta)[it + 1]
      both == x.b.multicast /\ p.mc > 1
  IN  [wait |-> {<<Empty(cta, s), 1 - Phase(p, it)>>},
       load |-> Copy(p, cta, p.onA /\ both, LAMBDA c : SmemSFA(c, s), s,
                     Scales(RowsOf(p, x.b), x.b, x.k))
                \cup Copy(p, cta, ~p.onA /\ both, LAMBDA c : SmemSFB(c, s), s,
                          Scales(ColsOf(p, x.b), x.b, x.k))
                \cup Copy(p, cta, p.onA /\ both, LAMBDA c : SmemA(c, s), s, TileA(p, x.b, x.k))
                \cup Copy(p, cta, ~p.onA /\ both, LAMBDA c : SmemB(c, s), s, TileB(p, x.b, x.k)),
       arrive |-> {<<Full(cta, s), 4>>}] @@ Nop
Loader(p, cta) ==
  [it \in 1 .. Len(KBlocks(p, cta)) |-> LoaderStep(p, cta, it - 1)] \o FinalWaits(p, cta)

\* A K block: wait for the stage, read the scales, multiply, wait for the
\* group, release the stage, and promote with the scales read before.
MathSteps(p, cta, w, it) ==
  LET s == Stage(p, it)
      x == KBlocks(p, cta)[it + 1]
      r == Release(p, cta, x.b, s)
  IN  <<[wait |-> {<<Full(cta, s), Phase(p, it)>>},
         read |-> {<<SmemSFA(cta, s), Scales(RowsOf(p, x.b), x.b, x.k)>>,
                   <<SmemSFB(cta, s), Scales(ColsOf(p, x.b), x.b, x.k)>>},
         issue |-> <<Group("mma", {<<SmemA(cta, s), TileA(p, x.b, x.k)>>,
                                   <<SmemB(cta, s), TileB(p, x.b, x.k)>>},
                           {<<Accum(cta, w), Partial(x.b, x.k)>>}, {})>>] @@ Nop>>
      \o <<[drain |-> {<<"mma", 0>>}] @@ r[1]>> \o Tail(r)
      \o <<[read |-> {<<Accum(cta, w), Partial(x.b, x.k)>>}] @@ Nop>>

\* The end of a block: the first warp waits for its last store, the warps meet,
\* write their rows, meet, and the first one issues the store.
Epilogue(p, cta, w, i) ==
  LET b == Blocks(p, cta)[i + 1]
      meet == {<<Store(cta), 0>>}
  IN  <<[drain |-> IF w = 0 THEN {<<"store", 0>>} ELSE {}, arrive |-> meet] @@ Nop,
        [wait |-> {<<Store(cta), 0>>}, write |-> {<<SmemD(cta, w), Result(b)>>},
         arrive |-> meet] @@ Nop,
        [wait |-> {<<Store(cta), 1>>},
         issue |-> IF w # 0 THEN <<>>
                   ELSE <<Group("store", { <<SmemD(cta, v), Result(b)>> : v \in Wgs(p) },
                                { <<Out(OutRowsOf(p, b), b.n, v), Result(b)>> : v \in Wgs(p) },
                                {})>>] @@ Nop>>

Fp8Gemm1D1D(p) ==
  Kernel(Barriers(p),
         Programs(p, Loader, LAMBDA q, c, w : MathProgram(q, c, w, MathSteps, Epilogue)),
         <<>>, Results(p, Wgs(p)))
=============================================================================
