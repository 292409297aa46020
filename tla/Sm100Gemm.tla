------------------------------ MODULE Sm100Gemm ------------------------------
(***************************************************************************)
(* The GEMM kernels of Blackwell.  A TMA thread fills a ring of stages, an *)
(* MMA thread issues tensor core instructions that accumulate in tensor    *)
(* memory and whose commits arrive at m-barriers, and epilogue warps move  *)
(* an accumulator through shared memory to D while the next one is built.  *)
(* In a cluster of two CTAs the first one, the leader, issues for both:    *)
(* each CTA loads its rows of A and its half of B (or the reverse), the    *)
(* MMA reads the stages of both and writes the tensor memory of both.      *)
(* The FP8 / FP4 kernel has scaling factors, which a warp transposes in    *)
(* their stage before the MMA thread copies them to tensor memory; that    *)
(* copy and the MMAs execute in order, so only its source is modelled.     *)
(*                                                                         *)
(* Of a problem: accums (kNumEpilogueStages), wgs (epilogue warps), stores *)
(* per block and storeStages (kNumTMAStoreStages), sfLoads (K blocks per   *)
(* scaling factor load), util (whether kTensorCoreUtilControl < 100).      *)
(***************************************************************************)
EXTENDS GemmRing

Leader(p, cta) == cta - (cta % p.mc)
Cluster(p, cta) == Leader(p, cta) .. Leader(p, cta) + p.mc - 1

WithSF(cta, s) == <<cta, "with_sf_full", s>>
TmemFull(cta, t) == <<cta, "tmem_full", t>>
TmemEmpty(cta, t) == <<cta, "tmem_empty", t>>
TensorCore(cta) == <<cta, "tensor_core_full">>
Exit(p, cta) == <<Gmem, "exit", Leader(p, cta)>> \* the cluster meets at the end
SmemSFA(cta, s) == <<cta, "SFA", s>>
SmemSFB(cta, s) == <<cta, "SFB", s>>
Tmem(cta, t) == <<cta, "tmem", t>>
SmemCD(cta, t, w) == <<cta, "CD", t, w>>

\* The rank-th part of an operand the CTAs of a cluster split.
Part(p, tile, split, cta) == IF p.mc > 1 /\ split THEN tile \o <<cta % p.mc>> ELSE tile
PartA(p, cta, b, k) == Part(p, TileA(p, b, k), p.onA, cta)
PartB(p, cta, b, k) == Part(p, TileB(p, b, k), ~p.onA, cta)
\* Scaling factors are loaded for sfLoads K blocks at once; transposed, they
\* are another content.
ScalesA(p, b, k) == <<"SFA", RowsOf(p, b), b.sfStart + k \div p.sfLoads>>
ScalesB(p, b, k) == <<"SFB", ColsOf(p, b), b.sfStart + k \div p.sfLoads>>
Transposed(tile) == <<"transposed">> \o tile

\* current_iter % kNumEpilogueStages and its phase.
AccumStage(p, i) == i % p.accums
AccumPhase(p, i) == (i \div p.accums) % 2

-----------------------------------------------------------------------------
\* The arrivals the m-barriers of the kernels are initialised for; 0 for those
\* a kernel does not have.
Bf16Barriers(p, b) ==
  CASE b[2] = "full" -> p.mc
    [] b[2] \in {"empty", "tmem_full", "tensor_core_full"} -> 1
    [] b[2] = "tmem_empty" -> p.mc * p.wgs
    [] b[2] = "store" -> p.wgs
    [] b[2] = "exit" -> (p.mc * (p.wgs + 1)) + 1
    [] OTHER -> 0
Fp8Barriers(p, b) ==
  CASE b[2] \in {"full", "empty", "tmem_full"} -> 1
    [] b[2] = "with_sf_full" -> p.mc
    [] b[2] = "tmem_empty" -> p.mc * p.wgs
    [] b[2] = "store" -> p.wgs
    [] b[2] = "exit" -> (p.mc * (p.wgs + 2)) + 1
    [] OTHER -> 0
BarrierNames(p) ==
  UNION { { Full(c, s), Empty(c, s), WithSF(c, s) } : c \in Ctas(p), s \in 0 .. p.stages - 1 }
  \cup UNION { { TmemFull(c, t), TmemEmpty(c, t) } : c \in Ctas(p), t \in 0 .. p.accums - 1 }
  \cup UNION { { Store(c), Exit(p, c), TensorCore(c) } : c \in Ctas(p) }

\* The last synchronisation of all threads of the cluster.
Leave(p, cta) == <<[arrive |-> {<<Exit(p, cta), 0>>}] @@ Nop,
                   [wait |-> {<<Exit(p, cta), 0>>}] @@ Nop>>

-----------------------------------------------------------------------------
\* The TMA thread of the BF16 kernel: a 2-CTA copy announces its bytes to the
\* leader, which expects those of both; the other CTA arrives there as well.
Bf16LoaderStep(p, cta, it) ==
  LET s == Stage(p, it)
      x == KBlocks(p, cta)[it + 1]
      full == Full(Leader(p, cta), s)
  IN  [wait |-> {<<Empty(cta, s), 1 - Phase(p, it)>>},
       load |-> {<<SmemA(cta, s), PartA(p, cta, x.b, x.k), full>>,
                 <<SmemB(cta, s), PartB(p, cta, x.b, x.k), full>>},
       arrive |-> {<<full, IF cta = Leader(p, cta) THEN 2 * p.mc ELSE 0>>}] @@ Nop
Bf16Loader(p, cta) ==
  [it \in 1 .. Len(KBlocks(p, cta)) |-> Bf16LoaderStep(p, cta, it - 1)]

\* The TMA thread of the FP8 kernel announces to its own CTA.
Fp8LoaderStep(p, cta, it) ==
  LET s == Stage(p, it)
      x == KBlocks(p, cta)[it + 1]
      full == Full(cta, s)
      sf == x.k % p.sfLoads = 0
  IN  [wait |-> {<<Empty(cta, s), 1 - Phase(p, it)>>},
       load |-> {<<SmemA(cta, s), PartA(p, cta, x.b, x.k), full>>,
                 <<SmemB(cta, s), PartB(p, cta, x.b, x.k), full>>}
                \cup IF ~sf THEN {}
                     ELSE {<<SmemSFA(cta, s), ScalesA(p, x.b, x.k), full>>,
                           <<SmemSFB(cta, s), ScalesB(p, x.b, x.k), full>>},
       arrive |-> {<<full, IF sf THEN 4 ELSE 2>>}] @@ Nop
Fp8Loader(p, cta) ==
  [it \in 1 .. Len(KBlocks(p, cta)) |-> Fp8LoaderStep(p, cta, it - 1)]

\* The transposer warp: wait for the stage, transpose its scaling factors in
\* place where it has some, arrive at the leader.
TransposerStep(p, cta, it) ==
  LET s == Stage(p, it)
      x == KBlocks(p, cta)[it + 1]
      sf == {<<SmemSFA(cta, s), ScalesA(p, x.b, x.k)>>, <<SmemSFB(cta, s), ScalesB(p, x.b, x.k)>>}
  IN  [wait |-> {<<Full(cta, s), Phase(p, it)>>},
       read |-> IF x.k % p.sfLoads = 0 THEN sf ELSE {},
       write |-> IF x.k % p.sfLoads = 0 THEN { <<r[1], Transposed(r[2])>> : r \in sf } ELSE {},
       arrive |-> {<<WithSF(Leader(p, cta), s), 0>>}] @@ Nop
Transposer(p, cta) ==
  [it \in 1 .. Len(KBlocks(p, cta)) |-> TransposerStep(p, cta, it - 1)]

-----------------------------------------------------------------------------
\* The block of CTA c that the leader's it-th K block multiplies with its own.
BlockOf(p, c, it) == KBlocks(p, c)[it + 1].b

\* An MMA on the stages of the cluster: its commit releases the stage in every
\* CTA, that of the last K block also hands over the accumulators.
Mma(p, cta, it, i, reads) ==
  LET s == Stage(p, it)
      x == KBlocks(p, cta)[it + 1]
      t == AccumStage(p, i)
      last == x.k = x.b.k - 1
  IN  Group("mma",
        reads
        \cup { <<SmemA(c, s), PartA(p, c, BlockOf(p, c, it), x.k)>> : c \in Cluster(p, cta) }
        \cup { <<SmemB(c, s), PartB(p, c, BlockOf(p, c, it), x.k)>> : c \in Cluster(p, cta) },
        { <<Tmem(c, t), Partial(BlockOf(p, c, it), x.k)>> : c \in Cluster(p, cta) },
        { Empty(c, s) : c \in Cluster(p, cta) }
        \cup IF last THEN { TmemFull(c, t) : c \in Cluster(p, cta) } ELSE {})

\* A K block of the MMA thread, which waits for the accumulators at the first
\* one of a block.
MmaStep(p, cta, it, i, full(_), reads) ==
  [wait |-> {<<full(Stage(p, it)), Phase(p, it)>>}
            \cup IF KBlocks(p, cta)[it + 1].k # 0 THEN {}
                 ELSE {<<TmemEmpty(cta, AccumStage(p, i)), 1 - AccumPhase(p, i)>>},
   issue |-> <<Mma(p, cta, it, i, reads)>>] @@ Nop

\* For utilisation control, another commit that is waited for at once.
Relax(p, cta, it) ==
  IF ~p.util THEN <<>>
  ELSE <<[issue |-> <<Group("mma", {}, {}, {TensorCore(cta)})>>] @@ Nop,
         [wait |-> {<<TensorCore(cta), it % 2>>}] @@ Nop>>

\* With two CTAs the leader waits for the last accumulators to be read.
LastAccums(p, cta) ==
  LET n == Len(Blocks(p, cta))
  IN  IF p.mc = 1 \/ n = 0 THEN <<>>
      ELSE <<[wait |-> {<<TmemEmpty(cta, AccumStage(p, n - 1)), AccumPhase(p, n - 1)>>}] @@ Nop>>

Bf16MmaIssuer(p, cta) ==
  FlattenSeq([i \in 1 .. Len(Blocks(p, cta)) |->
    FlattenSeq([k \in 1 .. Blocks(p, cta)[i].k |->
      LET it == ItBefore(p, cta, i - 1) + k - 1
      IN  <<MmaStep(p, cta, it, i - 1, LAMBDA s : Full(cta, s), {})>> \o Relax(p, cta, it)])])
  \o LastAccums(p, cta)

\* The scaling factors a K block has copied to tensor memory.
Fp8Scales(p, cta, it) ==
  LET s == Stage(p, it)
      k == KBlocks(p, cta)[it + 1].k
  IN  IF k % p.sfLoads # 0 THEN {}
      ELSE UNION { {<<SmemSFA(c, s), Transposed(ScalesA(p, BlockOf(p, c, it), k))>>,
                    <<SmemSFB(c, s), Transposed(ScalesB(p, BlockOf(p, c, it), k))>>}
                     : c \in Cluster(p, cta) }
Fp8MmaIssuer(p, cta) ==
  FlattenSeq([i \in 1 .. Len(Blocks(p, cta)) |->
    [k \in 1 .. Blocks(p, cta)[i].k |->
      LET it == ItBefore(p, cta, i - 1) + k - 1
      IN  MmaStep(p, cta, it, i - 1, LAMBDA s : WithSF(cta, s), Fp8Scales(p, cta, it))]])
  \o LastAccums(p, cta)

-----------------------------------------------------------------------------
\* sm100_store_cd for the n-th store of a CTA: the warp that issues stores
\* waits until the buffer is free, the warps meet, move their rows from tensor
\* memory to it, give the accumulators back at the last store of the block,
\* meet, and the first warp issues the store.
StoreCD(p, cta, w, i, n, waits) ==
  LET b == Blocks(p, cta)[i + 1]
      part == n % p.stores
      t == n % p.storeStages
      meet == {<<Store(cta), 0>>}
  IN  <<[wait |-> waits,
         drain |-> IF w = 0 THEN {<<"store", p.storeStages - 1>>} ELSE {},
         arrive |-> meet] @@ Nop,
        [wait |-> {<<Store(cta), 0>>},
         read |-> {<<Tmem(cta, AccumStage(p, i)), Partial(b, b.k - 1)>>},
         write |-> {<<SmemCD(cta, t, w), Result(b) \o <<part>>>>},
         arrive |-> meet \cup IF part # p.stores - 1 THEN {}
                              ELSE {<<TmemEmpty(Leader(p, cta), AccumStage(p, i)), 0>>}] @@ Nop,
        [wait |-> {<<Store(cta), 1>>},
         issue |-> IF w # 0 THEN <<>>
                   ELSE <<Group("store",
                            { <<SmemCD(cta, t, v), Result(b) \o <<part>>>> : v \in Wgs(p) },
                            {<<Out(OutRowsOf(p, b), b.n, part), Result(b)>>}, {})>>] @@ Nop>>

\* An epilogue warp: for every block, wait for its accumulators and store them.
EpilogueWarp(p, cta, w) ==
  FlattenSeq([i \in 1 .. Len(Blocks(p, cta)) |->
    FlattenSeq([s \in 1 .. p.stores |->
      StoreCD(p, cta, w, i - 1, ((i - 1) * p.stores) + s - 1,
              IF s > 1 THEN {}
              ELSE {<<TmemFull(cta, AccumStage(p, i - 1)), AccumPhase(p, i - 1)>>})])])

Gemm(p, barriers(_, _), roles, program(_, _)) ==
  Kernel([b \in { x \in BarrierNames(p) : barriers(p, x) > 0 } |-> barriers(p, b)],
         [a \in { <<c, r>> : c \in Ctas(p), r \in roles }
                \cup { <<Leader(p, c), "mma">> : c \in Ctas(p) }
                \cup { <<c, "epilogue", w>> : c \in Ctas(p), w \in Wgs(p) } |->
            (IF a[2] = "epilogue" THEN EpilogueWarp(p, a[1], a[3]) ELSE program(a[1], a[2]))
            \o Leave(p, a[1])],
         <<>>, Results(p, 0 .. p.stores - 1))

Bf16Gemm(p) ==
  Gemm(p, Bf16Barriers, {"load"},
       LAMBDA cta, r : IF r = "load" THEN Bf16Loader(p, cta) ELSE Bf16MmaIssuer(p, cta))
Fp8Gemm(p) ==
  Gemm(p, Fp8Barriers, {"load", "transpose"},
       LAMBDA cta, r : CASE r = "load" -> Fp8Loader(p, cta)
                         [] r = "transpose" -> Transposer(p, cta)
                         [] r = "mma" -> Fp8MmaIssuer(p, cta))
=============================================================================
