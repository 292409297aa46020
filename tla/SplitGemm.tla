------------------------------ MODULE SplitGemm ------------------------------
(***************************************************************************)
(* The kernels that split the K blocks of an output block over CTAs: the   *)
(* einsum bmk,bnk->mn, whose CTAs add their sums into D, and the GEMM      *)
(* before the norm of a hyper connection, which keeps the sum of every     *)
(* split and also sums the squares of A.  Both exist for Hopper and for    *)
(* Blackwell; a CTA has one output block, hence one accumulator.           *)
(* A fragment of A held in registers is a fresh variable in every          *)
(* iteration and not modelled.                                             *)
(*                                                                         *)
(* Of a problem: m, n, k (blocks of an output and K blocks to sum), smCount*)
(* (SMs of the device), splits, stages, castStages, stores, storeStages,   *)
(* wgs (math warpgroups).                                                  *)
(***************************************************************************)
EXTENDS GemmRing

MinOf(a, b) == IF a < b THEN a ELSE b

TmemFull(cta) == <<cta, "tmem_full">>
FullCast(cta, c) == <<cta, "full_cast", c>>
EmptyCast(cta, c) == <<cta, "empty_cast", c>>
Tmem(cta) == <<cta, "tmem">>
TmemCast(cta, c) == <<cta, "cast", c>>
SmemCD(cta, t, w) == <<cta, "CD", t, w>>
Sum(b) == <<"sum", b.m, b.n, b.first>> \* of the K blocks of the CTA
Added(m, n, k) == <<Gmem, "added", m, n, k>> \* how often a K block went into D
OutSplit(m, split) == <<Gmem, "D", m, split>>
Squares(m, split) == <<Gmem, "sqr_sum", m, split>>

\* The host's kSplitFactor, K blocks per CTA such that every SM has one.
SplitFactor(p) ==
  LET rows == p.smCount \div (p.m * p.n)
  IN  CeilDiv(p.k, IF rows > 1 THEN rows ELSE 1)
EinsumCtas(p) == 0 .. (p.m * p.n * CeilDiv(p.k, SplitFactor(p))) - 1
PrenormCtas(p) == 0 .. (p.splits * p.m) - 1

\* The output block and the K blocks of a CTA of the einsum.
EinsumBlock(p, cta) ==
  LET mn == cta % (p.m * p.n)
      first == (cta \div (p.m * p.n)) * SplitFactor(p)
  IN  [m |-> mn \div p.n, n |-> mn % p.n, first |-> first,
       count |-> MinOf(SplitFactor(p), p.k - first)]

\* Those of a CTA of the GEMM: the first splits get one K block more.
PrenormBlock(p, cta) ==
  LET split == cta % p.splits
      per == p.k \div p.splits
      remain == p.k % p.splits
  IN  [m |-> cta \div p.splits, n |-> 0, first |-> (split * per) + MinOf(split, remain),
       count |-> per + (IF split < remain THEN 1 ELSE 0), split |-> split]

SplitA(b, s) == <<"A", b.m, b.first + s>>
SplitB(b, s) == <<"B", b.n, b.first + s>>

\* The loader thread of all four: wait for the stage, copy A and B, announce.
Loader(p, cta, b) ==
  [i \in 1 .. b.count |->
     LET s == Stage(p, i - 1)
     IN  [wait |-> {<<Empty(cta, s), 1 - Phase(p, i - 1)>>},
          load |-> {<<SmemA(cta, s), SplitA(b, i - 1), Full(cta, s)>>,
                    <<SmemB(cta, s), SplitB(b, i - 1), Full(cta, s)>>},
          arrive |-> {<<Full(cta, s), 2>>}] @@ Nop]

\* A kernel of these: m-barriers in `once` expect one arrival, those in `many`
\* one per math warpgroup; every K block counts once per warpgroup in `adds`.
Split(p, once, many, prog, adds, outs) ==
  LET ks == { Added(m, n, k) \o <<w>> : m \in 0 .. p.m - 1, n \in 0 .. p.n - 1,
                                        k \in 0 .. p.k - 1, w \in adds }
  IN  Kernel([x \in once \cup many |-> IF x \in once THEN 1 ELSE p.wgs], prog,
             [c \in ks |-> 0],
             [c \in ks |-> 1] @@ [c \in { o[1] : o \in outs } |->
                                    (CHOOSE o \in outs : o[1] = c)[2]])
\* Every K block of the CTA is in the sum, once.
Count(b, w) == { <<Added(b.m, b.n, k) \o <<w>>, 1>> : k \in b.first .. b.first + b.count - 1 }
Rings(p, ctas, bars(_, _)) == UNION { { bars(c, s) : s \in 0 .. p.stages - 1 } : c \in ctas }
Outs(p, ctas) ==
  UNION { LET b == PrenormBlock(p, c)
          IN  {<<OutSplit(b.m, b.split), Sum(b)>>, <<Squares(b.m, b.split), Sum(b)>>} : c \in ctas }

-----------------------------------------------------------------------------
\* Hopper, einsum: a wgmma group per stage, waited for; then atomic adds.
Sm90EinsumMath(p, cta, w, b) ==
  FlattenSeq([i \in 1 .. b.count |->
    LET s == Stage(p, i - 1)
    IN  <<[wait |-> {<<Full(cta, s), Phase(p, i - 1)>>},
           issue |-> <<Group("mma", {<<SmemA(cta, s), SplitA(b, i - 1)>>,
                                     <<SmemB(cta, s), SplitB(b, i - 1)>>},
                                    {<<Accum(cta, w), Sum(b)>>}, {})>>] @@ Nop,
          [drain |-> {<<"mma", 0>>}, arrive |-> {<<Empty(cta, s), 0>>}] @@ Nop>>])
  \o <<[read |-> {<<Accum(cta, w), Sum(b)>>}, add |-> Count(b, w)] @@ Nop>>

Sm90Einsum(p) ==
  LET C == EinsumCtas(p)
  IN  Split(p, Rings(p, C, Full), Rings(p, C, Empty),
            [a \in { <<c, "load", 0>> : c \in C } \cup { <<c, "math", w>> : c \in C, w \in Wgs(p) } |->
               LET b == EinsumBlock(p, a[1])
               IN  IF a[2] = "load" THEN Loader(p, a[1], b) ELSE Sm90EinsumMath(p, a[1], a[3], b)],
            Wgs(p), {})

-----------------------------------------------------------------------------
\* Fault: the stage in use is given back, not the one before.
Sm90PrenormStep_Early(p, cta, b, i) ==
  LET s == Stage(p, i)
  IN  [drain |-> {<<"mma", 0>>},
       arrive |-> IF i = 0 THEN {} ELSE {<<Empty(cta, s), 0>>},
       issue |-> <<Group("mma", {<<SmemB(cta, s), SplitB(b, i)>>}, {<<Accum(cta, 0), Sum(b)>>}, {})>>]
      @@ Nop
\* Hopper, GEMM before the norm: once the group before has retired its stage is
\* given back and the next group issued, with A in registers.
Sm90PrenormStep(p, cta, b, i) ==
  LET s == Stage(p, i)
  IN  [drain |-> {<<"mma", 0>>},
       arrive |-> IF i = 0 THEN {} ELSE {<<Empty(cta, Stage(p, i - 1)), 0>>},
       issue |-> <<Group("mma", {<<SmemB(cta, s), SplitB(b, i)>>}, {<<Accum(cta, 0), Sum(b)>>}, {})>>]
      @@ Nop

\* The math warpgroup: the K loop, the squares, the sums through shared memory.
Sm90PrenormMath(p, cta, b) ==
  FlattenSeq([i \in 1 .. b.count |->
    LET s == Stage(p, i - 1)
    IN  <<[wait |-> {<<Full(cta, s), Phase(p, i - 1)>>},
           read |-> {<<SmemA(cta, s), SplitA(b, i - 1)>>}] @@ Nop,
          Sm90PrenormStep(p, cta, b, i - 1)>>])
  \o <<[write |-> {<<Squares(b.m, b.split), Sum(b)>>}] @@ Nop,
       [drain |-> {<<"mma", 0>>}, read |-> {<<Accum(cta, 0), Sum(b)>>},
        arrive |-> {<<Empty(cta, Stage(p, b.count - 1)), 0>>},
        write |-> {<<SmemCD(cta, 0, 0), Sum(b)>>}, add |-> Count(b, 0)] @@ Nop,
       [issue |-> <<Group("store", {<<SmemCD(cta, 0, 0), Sum(b)>>},
                          {<<OutSplit(b.m, b.split), Sum(b)>>}, {})>>] @@ Nop>>

\* The loader also waits for every stage to be given back once more.
Sm90Prenorm(p) ==
  LET C == PrenormCtas(p)
      last(cta, b) == [i \in 1 .. p.stages |->
                         [wait |-> {<<Empty(cta, Stage(p, b.count + i - 1)),
                                      1 - Phase(p, b.count + i - 1)>>}] @@ Nop]
  IN  Split(p, Rings(p, C, Full) \cup Rings(p, C, Empty), {},
            [a \in C \X {"load", "math"} |->
               LET b == PrenormBlock(p, a[1])
               IN  IF a[2] = "load" THEN Loader(p, a[1], b) \o last(a[1], b)
                                    ELSE Sm90PrenormMath(p, a[1], b)],
            {0}, Outs(p, C))

-----------------------------------------------------------------------------
\* Blackwell, einsum: the MMA thread commits every stage, in the end the
\* accumulator.
Sm100EinsumMma(p, cta, b) ==
  [i \in 1 .. b.count |->
    LET s == Stage(p, i - 1)
    IN  [wait |-> {<<Full(cta, s), Phase(p, i - 1)>>},
         issue |-> <<Group("mma", {<<SmemA(cta, s), SplitA(b, i - 1)>>,
                                   <<SmemB(cta, s), SplitB(b, i - 1)>>},
                                  {<<Tmem(cta), Sum(b)>>},
                                  {Empty(cta, s)} \cup IF i < b.count THEN {} ELSE {TmemFull(cta)})>>]
        @@ Nop]

\* Once all buffers are in use, the issuing thread waits for the oldest store
\* and the warps meet.
StoreWait(p, cta, w, s) ==
  IF s < p.storeStages THEN <<>>
  ELSE <<[drain |-> IF w = 0 THEN {<<"store", p.storeStages - 1>>} ELSE {},
          arrive |-> {<<Store(cta), 0>>}] @@ Nop,
         [wait |-> {<<Store(cta), (s + s - p.storeStages) % 2>>}] @@ Nop>>

\* Then every warp moves its rows of tensor memory to the buffer, they meet,
\* and the first one issues the reducing store; the sums it adds are counted
\* with the last one.  All warps of the CTA do this when their role is over.
Sm100EinsumStore(p, cta, w, b, s) ==
  LET t == s % p.storeStages
      met == IF s < p.storeStages THEN s ELSE s + s - p.storeStages + 1
  IN  StoreWait(p, cta, w, s)
      \o <<[read |-> {<<Tmem(cta), Sum(b)>>},
            write |-> {<<SmemCD(cta, t, w), Sum(b) \o <<s>>>>},
            arrive |-> {<<Store(cta), 0>>}] @@ Nop,
           [wait |-> {<<Store(cta), met % 2>>},
            issue |-> IF w # 0 THEN <<>>
                      ELSE <<Group("store", { <<SmemCD(cta, t, v), Sum(b) \o <<s>>>> : v \in Wgs(p) },
                                   {}, {})>>,
            add |-> IF w = 0 /\ s = p.stores - 1 THEN Count(b, 0) ELSE {}] @@ Nop>>
Sm100EinsumEpilogue(p, cta, w, b) ==
  <<[wait |-> {<<TmemFull(cta), 0>>}] @@ Nop>>
  \o FlattenSeq([s \in 1 .. p.stores |-> Sm100EinsumStore(p, cta, w, b, s - 1)])

\* The first warp loads, the second issues the MMAs; p.wgs counts the warps.
Sm100Einsum(p) ==
  LET C == EinsumCtas(p)
  IN  Split(p, Rings(p, C, Full) \cup Rings(p, C, Empty) \cup { TmemFull(c) : c \in C },
            { Store(c) : c \in C },
            [a \in { <<c, "warp", w>> : c \in C, w \in Wgs(p) } |->
               LET b == EinsumBlock(p, a[1])
               IN  (CASE a[3] = 0 -> Loader(p, a[1], b)
                      [] a[3] = 1 -> Sm100EinsumMma(p, a[1], b)
                      [] OTHER -> <<>>)
                   \o Sm100EinsumEpilogue(p, a[1], a[3], b)],
            {0}, {})

-----------------------------------------------------------------------------
\* Blackwell, GEMM before the norm: other warps cast A into a ring of tensor
\* memory, which the MMA multiplies with B in shared memory.
Sm100PrenormCast(p, cta, b) ==
  FlattenSeq([i \in 1 .. b.count |->
    LET s == Stage(p, i - 1)
        c == (i - 1) % p.castStages
        phase == ((i - 1) \div p.castStages) % 2
    IN  <<[wait |-> {<<Full(cta, s), Phase(p, i - 1)>>},
           read |-> {<<SmemA(cta, s), SplitA(b, i - 1)>>}] @@ Nop,
          [wait |-> {<<EmptyCast(cta, c), 1 - phase>>},
           write |-> {<<TmemCast(cta, c), SplitA(b, i - 1)>>},
           arrive |-> {<<FullCast(cta, c), 0>>}] @@ Nop>>])
  \o <<[write |-> {<<Squares(b.m, b.split), Sum(b)>>}] @@ Nop>>

\* The MMA thread gives back the cast and the stage with one group.
Sm100PrenormMma(p, cta, b) ==
  [i \in 1 .. b.count |->
    LET s == Stage(p, i - 1)
        c == (i - 1) % p.castStages
    IN  [wait |-> {<<FullCast(cta, c), ((i - 1) \div p.castStages) % 2>>},
         issue |-> <<Group("mma", {<<TmemCast(cta, c), SplitA(b, i - 1)>>,
                                   <<SmemB(cta, s), SplitB(b, i - 1)>>},
                                  {<<Tmem(cta), Sum(b)>>},
                                  {EmptyCast(cta, c), Empty(cta, s)}
                                  \cup IF i < b.count THEN {} ELSE {TmemFull(cta)})>>] @@ Nop]

\* The epilogue, by the first p.wgs warps, two of which have loaded and issued.
Sm100PrenormEpilogue(p, cta, w, b) ==
  <<[wait |-> {<<TmemFull(cta), 0>>}, read |-> {<<Tmem(cta), Sum(b)>>},
     write |-> {<<SmemCD(cta, 0, w), Sum(b)>>}, arrive |-> {<<Store(cta), 0>>}] @@ Nop,
    [wait |-> {<<Store(cta), 0>>},
     issue |-> IF w # 0 THEN <<>>
               ELSE <<Group("store", { <<SmemCD(cta, 0, v), Sum(b)>> : v \in Wgs(p) },
                            {<<OutSplit(b.m, b.split), Sum(b)>>}, {})>>,
     add |-> IF w = 0 THEN Count(b, 0) ELSE {}] @@ Nop>>

Sm100Prenorm(p) ==
  LET C == PrenormCtas(p)
  IN  Split(p, Rings(p, C, Full) \cup Rings(p, C, Empty) \cup { TmemFull(c) : c \in C }
               \cup UNION { { FullCast(c, s), EmptyCast(c, s) } : c \in C, s \in 0 .. p.castStages - 1 },
            { Store(c) : c \in C },
            [a \in { <<c, "cast", 0>> : c \in C } \cup { <<c, "warp", w>> : c \in C, w \in Wgs(p) } |->
               LET b == PrenormBlock(p, a[1])
               IN  CASE a[2] = "cast" -> Sm100PrenormCast(p, a[1], b)
                     [] OTHER -> (CASE a[3] = 0 -> Loader(p, a[1], b)
                                    [] a[3] = 1 -> Sm100PrenormMma(p, a[1], b)
                                    [] OTHER -> <<>>)
                                 \o Sm100PrenormEpilogue(p, a[1], a[3], b)],
            {0}, Outs(p, C))
=============================================================================
