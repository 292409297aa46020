---------------------------- MODULE Sm90GemmRing -----------------------------
(***************************************************************************)
(* What the GEMM kernels of Hopper have in common.  A loader thread per    *)
(* CTA fills a ring of stages with blocks of A and B, the math warpgroups  *)
(* multiply them and store the block of D through shared memory.  The two  *)
(* CTAs of a cluster may share the loads of A or of B: the first one       *)
(* copies into both, so a stage is empty when the math warpgroups of both  *)
(* have released it.                                                       *)
(* The warps of a math warpgroup are an actor together; p.wgs is how many  *)
(* warpgroups there are.                                                   *)
(***************************************************************************)
EXTENDS GemmRing

\* tma::copy: alone, a CTA copies into its own stage; with multicast the first
\* CTA of the cluster copies into the stages of both, announcing to both.
Copy(p, cta, multicast, buffer(_), s, tile) ==
  IF ~multicast THEN {<<buffer(cta), tile, Full(cta, s)>>}
  ELSE IF cta % 2 = 1 THEN {}
  ELSE { <<buffer(c), tile, Full(c, s)>> : c \in {cta, Peer(cta)} }

\* With multicast the CTA stays until its stages are released once more, by
\* the warpgroups of both CTAs.
FinalWaits(p, cta) ==
  IF p.mc = 1 THEN <<>>
  ELSE LET n == Len(KBlocks(p, cta))
       IN  [i \in 1 .. p.stages |->
              [wait |-> {<<Empty(cta, Stage(p, n + i - 1)), 1 - Phase(p, n + i - 1)>>}] @@ Nop]

\* empty_barrier_arrive: at the CTAs of the cluster, or twice at the own one
\* when the peer has no block.
Release(p, cta, b, s) ==
  IF p.mc = 1 THEN <<[arrive |-> {<<Empty(cta, s), 0>>}] @@ Nop>>
  ELSE IF b.alive
    THEN <<[arrive |-> {<<Empty(cta, s), 0>>, <<Empty(Peer(cta), s), 0>>}] @@ Nop>>
    ELSE [i \in 1 .. 2 |-> [arrive |-> {<<Empty(cta, s), 0>>}] @@ Nop]

\* The math warpgroup w: the K blocks of each block, then its epilogue.
MathProgram(p, cta, w, steps(_, _, _, _), epilogue(_, _, _, _)) ==
  FlattenSeq([i \in 1 .. Len(Blocks(p, cta)) |->
    FlattenSeq([k \in 1 .. Blocks(p, cta)[i].k |->
                  steps(p, cta, w, ItBefore(p, cta, i - 1) + k - 1)])
    \o epilogue(p, cta, w, i - 1)])

\* A kernel of a loader and math warpgroups per CTA.
Programs(p, loader(_, _), math(_, _, _)) ==
  [a \in { <<c, "load">> : c \in Ctas(p) }
         \cup { <<c, "math", w>> : c \in Ctas(p), w \in Wgs(p) } |->
     IF a[2] = "load" THEN loader(p, a[1]) ELSE math(p, a[1], a[3])]
=============================================================================
