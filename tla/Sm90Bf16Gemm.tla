---------------------------- MODULE Sm90Bf16Gemm -----------------------------
(***************************************************************************)
(* The BF16 GEMM kernel of Hopper.  The named barrier of its epilogue      *)
(* counts the storing warpgroups.                                          *)
(***************************************************************************)
EXTENDS Sm90GemmRing

\* The arrivals the m-barriers are initialised for; the named barrier of the
\* storing threads counts their warpgroups.
Barriers(p) ==
  [b \in { Full(c, s) : c \in Ctas(p), s \in 0 .. p.stages - 1 }
         \cup { Empty(c, s) : c \in Ctas(p), s \in 0 .. p.stages - 1 }
         \cup { Store(c) : c \in Ctas(p) } |->
     CASE b[2] = "full" -> 1
       [] b[2] = "empty" -> p.mc * p.wgs
       [] b[2] = "store" -> p.wgs]

\* A K block: wait for the stage, copy A and B, and arrive announcing both.
LoaderStep(p, cta, it) ==
  LET s == Stage(p, it)
      x == KBlocks(p, cta)[it + 1]
  IN  [wait |-> {<<Empty(cta, s), 1 - Phase(p, it)>>},
       load |-> Copy(p, cta, p.onA /\ x.b.multicast /\ p.mc > 1, LAMBDA c : SmemA(c, s), s,
                     TileA(p, x.b, x.k))
                \cup Copy(p, cta, ~p.onA /\ x.b.multicast /\ p.mc > 1, LAMBDA c : SmemB(c, s), s,
                          TileB(p, x.b, x.k)),
       arrive |-> {<<Full(cta, s), 2>>}] @@ Nop

Loader(p, cta) ==
  [it \in 1 .. Len(KBlocks(p, cta)) |-> LoaderStep(p, cta, it - 1)] \o FinalWaits(p, cta)

\* A K block: wait for the stage, one wgmma group, wait for it, release.
MathSteps(p, cta, w, it) ==
  LET s == Stage(p, it)
      x == KBlocks(p, cta)[it + 1]
      r == Release(p, cta, x.b, s)
  IN  <<[wait |-> {<<Full(cta, s), Phase(p, it)>>},
         issue |-> <<Group("mma", {<<SmemA(cta, s), TileA(p, x.b, x.k)>>,
                                   <<SmemB(cta, s), TileB(p, x.b, x.k)>>},
                                  {<<Accum(cta, w), Partial(x.b, x.k)>>}, {})>>] @@ Nop>>
      \o <<[drain |-> {<<"mma", 0>>}] @@ r[1]>> \o Tail(r)

\* The end of the i-th block: the threads that issue stores (of the first
\* warpgroup) wait for the last store to have read smem_d, all meet, write
\* their rows of D, meet again, and the first issue the store.
Epilogue(p, cta, w, i) ==
  LET b == Blocks(p, cta)[i + 1]
      meet == {<<Store(cta), 0>>}
  IN  <<[drain |-> IF w = 0 THEN {<<"store", 0>>} ELSE {}, arrive |-> meet] @@ Nop,
        [wait |-> {<<Store(cta), 0>>},
         read |-> {<<Accum(cta, w), Partial(b, b.k - 1)>>},
         write |-> {<<SmemD(cta, w), Result(b)>>},
         arrive |-> meet] @@ Nop,
        [wait |-> {<<Store(cta), 1>>},
         issue |-> IF w # 0 THEN <<>>
                   ELSE <<Group("store", { <<SmemD(cta, v), Result(b)>> : v \in Wgs(p) },
                                { <<Out(OutRowsOf(p, b), b.n, v), Result(b)>> : v \in Wgs(p) },
                                {})>>] @@ Nop>>

Bf16Gemm(p) ==
  Kernel(Barriers(p),
         Programs(p, Loader, LAMBDA q, c, w : MathProgram(q, c, w, MathSteps, Epilogue)),
         <<>>, Results(p, Wgs(p)))
=============================================================================
