----------------------------- MODULE Sm90MegaMoe -----------------------------
(***************************************************************************)
(* The blocks of one CTA of the split MXFP4 / int4 kernels, of which one   *)
(* runs all L1 blocks and the next all L2 blocks.  They have no task list  *)
(* and no flags between tasks; what they vary is who decodes the weights   *)
(* and how the sums are drained:                                           *)
(*   decode = "registers": the swapped kernels; every math warpgroup       *)
(*     decodes its own fragments from words it has read at the start       *)
(*   decode = "math": the two math warpgroups decode a row per thread into *)
(*     shared memory and meet                                              *)
(*   decode = "loaders": the four warps that do not compute, the two       *)
(*     loaders among them, wait for the stage and decode its rows          *)
(* Coefficients of the weights lie beside the packed words, scales of the  *)
(* activations beside A, so that a loop that reads them after a wait must  *)
(* still hold the stage.                                                   *)
(*                                                                         *)
(* A problem is one of FusedTask with `decode`; all its tasks have one l2. *)
(***************************************************************************)
EXTENDS FusedTask

Dequant(s) == <<Cta, "dequant", s>>  \* dequant_barriers
SmemCDSwap(w) == <<Cta, "cd_fp32", w>> \* smem_cd_swap_l1_fp32
Decoders == 0 .. 2 \* loader A, loader B, the idle warps

\* The barriers: a decoded stage is announced by one thread.
SplitBarriers(p) ==
  [b \in UNION { {Full(s), Empty(s), Dequant(s)} : s \in 0 .. p.stages - 1 } \cup {Meet, Decoding} |->
     CASE b[2] = "full" -> 2
       [] b[2] = "dequant" -> 1
       [] b = Decoding -> IF p.decode = "loaders" THEN Cardinality(Decoders) ELSE p.wgs
       [] OTHER -> p.wgs]

-----------------------------------------------------------------------------
\* dequant_loaded_b_stage for decoder v: wait for the stage, decode its rows,
\* meet, and one thread announces them.
DequantLoadedStage(p, i, x, v) ==
  LET s == Slot(p, i, x)
      t == p.tasks[i]
  IN  IF p.decode # "loaders" THEN <<>>
      ELSE <<[wait |-> WaitFull(p, i, x),
              read |-> {<<Packed(s), Weights(t, x)>>},
              write |-> {<<SmemB(p, s, v), Decoded(t, x, 0)>>},
              arrive |-> {<<Decoding, 0>>}] @@ Nop,
             [wait |-> {<<Decoding, It(p, i, x) % 2>>},
              arrive |-> IF v = 0 THEN {<<Dequant(s), 0>>} ELSE {}] @@ Nop>>

\* Loader A: activations and their scales.
SplitLoadA(p, i, x) ==
  LET s == Slot(p, i, x)
  IN  <<[wait |-> {<<Empty(s), 1 - Parity(p, i, x)>>},
         load |-> {<<SmemA(s), Acts(p.tasks[i], x), Full(s)>>},
         arrive |-> {<<Full(s), 1>>}] @@ Nop>> \o DequantLoadedStage(p, i, x, 0)
\* Loader B: packed weights and their coefficients.
SplitLoadB(p, i, x) ==
  LET s == Slot(p, i, x)
  IN  <<[wait |-> {<<Empty(s), 1 - Parity(p, i, x)>>},
         load |-> {<<Packed(s), Weights(p.tasks[i], x), Full(s)>>},
         arrive |-> {<<Full(s), 1>>}] @@ Nop>> \o DequantLoadedStage(p, i, x, 1)
IdleWarps(p, i, x) == DequantLoadedStage(p, i, x, 2)

\* for_each_selected_block, and the K blocks of each.
Stages(p, Of(_, _, _)) ==
  FlattenSeq([i \in 1 .. Len(p.tasks) |->
    FlattenSeq([x \in 1 .. p.tasks[i].n |-> Of(p, i, x - 1)])])

-----------------------------------------------------------------------------
\* A math warpgroup decodes its rows of a stage and meets the other.
MathDecode(p, i, x, w) ==
  LET s == Slot(p, i, x)
  IN  <<[wait |-> WaitFull(p, i, x),
         read |-> {<<Packed(s), Weights(p.tasks[i], x)>>},
         write |-> {<<SmemB(p, s, w), Decoded(p.tasks[i], x, 0)>>},
         arrive |-> {<<Decoding, 0>>}] @@ Nop,
        [wait |-> {<<Decoding, It(p, i, x) % 2>>}] @@ Nop>>

\* wait_and_dequant_b_stage; of the loop that decodes ahead, only the first
\* stage of a block is not yet decoded.
Prepare(p, i, x, w) ==
  CASE p.decode = "registers" -> <<[wait |-> WaitFull(p, i, x)] @@ Nop>>
    [] p.decode = "loaders" -> <<[wait |-> {<<Dequant(Slot(p, i, x)), Parity(p, i, x)>>}] @@ Nop>>
    [] p.decode = "math" /\ p.tasks[i].loop = "shadow" /\ x > 0 ->
         <<[wait |-> WaitFull(p, i, x)] @@ Nop>>
    [] OTHER -> MathDecode(p, i, x, w)

\* What is read at the start of a stage: activation scales, and by the swapped
\* kernels packed words and coefficients.
Capturing(p, i, x, w) ==
  LET s == Slot(p, i, x)
      t == p.tasks[i]
  IN  [read |-> {<<SmemA(s), Acts(t, x)>>}
                \cup IF p.swap THEN {<<Packed(s), Weights(t, x)>>} ELSE {},
       write |-> IF p.swap THEN {<<Words(w), Weights(t, x)>>} ELSE {}] @@ Nop
Coefficients(p, i, x) == {<<Packed(Slot(p, i, x)), Weights(p.tasks[i], x)>>}

\* A commit group over K32 step b of a stage into sum u: on a fragment decoded
\* for it from the captured words, or on the decoded rows.
Batch(p, i, x, w, b, u) ==
  LET t == p.tasks[i]
      s == Slot(p, i, x)
      rows == IF p.swap THEN {<<Frag(w, b), Decoded(t, x, b)>>}
              ELSE { <<SmemB(p, s, v), Decoded(t, x, 0)>> :
                       v \in IF p.decode = "loaders" THEN Decoders ELSE {w} }
  IN  [read |-> IF p.swap THEN {<<Words(w), Weights(t, x)>>} ELSE {},
       write |-> IF p.swap THEN rows ELSE {},
       issue |-> <<Group("mma", rows \cup {<<SmemA(s), Acts(t, x)>>},
                         {<<Accum(w, u), Sum(t, x, b)>>}, {})>>] @@ Nop

\* Wait until n groups are in flight and promote sum u, last added to by b.
PromoteBatch(p, i, x, w, n, b, u) ==
  [drain |-> Drain(n), read |-> {<<Accum(w, u), Sum(p.tasks[i], x, b)>>}] @@ Nop

\* Four groups with sums of their own, drained one after the other; the stage
\* is given back behind the last wait, before the last promotion.
ProgressiveDrain(p, i, x, w) ==
  [b \in 1 .. 4 |-> Batch(p, i, x, w, b - 1, b - 1)]
  \o [b \in 1 .. 3 |-> PromoteBatch(p, i, x, w, 4 - b, b - 1, b - 1)]
  \o <<[drain |-> Drain(0), arrive |-> Release(p, i, x)] @@ Nop,
       PromoteBatch(p, i, x, w, 0, 3, 3)>>

\* One sum over the four (relative scales, integers), given back before it is
\* promoted from registers.
ChainedSum(p, i, x, w) ==
  [b \in 1 .. 4 |-> Batch(p, i, x, w, b - 1, 0)]
  \o <<[drain |-> Drain(0), arrive |-> Release(p, i, x)] @@ Nop, PromoteBatch(p, i, x, w, 0, 3, 0)>>

\* L2: a sum for each of the two scales of the activations.
HalfSums(p, i, x, w) ==
  [b \in 1 .. 4 |-> Batch(p, i, x, w, b - 1, (b - 1) \div 2)]
  \o <<PromoteBatch(p, i, x, w, 2, 1, 0),
       [drain |-> Drain(0), arrive |-> Release(p, i, x)] @@ Nop,
       PromoteBatch(p, i, x, w, 0, 3, 1)>>

-----------------------------------------------------------------------------
\* The kernels that are not swapped read coefficients at the promotion and
\* give the stage back after it.
\* Each of n groups is waited for and promoted: four K32 steps, or the two
\* halves of the integer L2 kernel.
GroupByGroup(p, i, x, w, n) ==
  FlattenSeq([b \in 1 .. n |->
    <<Batch(p, i, x, w, b - 1, 0),
      [read |-> Coefficients(p, i, x) \cup {<<Accum(w, 0), Sum(p.tasks[i], x, b - 1)>>}]
        @@ PromoteBatch(p, i, x, w, 0, b - 1, 0)>>])
  \o <<[arrive |-> Release(p, i, x)] @@ Nop>>

\* One group for the stage; with DG_W4A8_INT_SHADOW the next stage is decoded
\* while it runs.
OneGroup(p, i, x, w) ==
  LET t == p.tasks[i]
  IN  <<Batch(p, i, x, w, 0, 0)>>
      \o (IF t.loop = "shadow" /\ x + 1 < t.n THEN MathDecode(p, i, x + 1, w) ELSE <<>>)
      \o <<[read |-> Coefficients(p, i, x) \cup {<<Accum(w, 0), Sum(t, x, 0)>>},
            arrive |-> Release(p, i, x)] @@ PromoteBatch(p, i, x, w, 0, 0, 0)>>

\* Fault: the last stage is given back like the others.
WholeSum_ReleaseLast(p, i, x, w, n) ==
  FlattenSeq([b \in 1 .. n |->
    <<Batch(p, i, x, w, b - 1, 0), PromoteBatch(p, i, x, w, 0, b - 1, 0)>>])
  \o <<[arrive |-> Release(p, i, x)] @@ Nop>>
  \o (IF x + 1 < p.tasks[i].n THEN <<>> ELSE <<[read |-> Coefficients(p, i, x)] @@ Nop>>)
\* QoQ: the coefficient of a row is the same in all stages and is read once,
\* from the last one, which is held until then.
WholeSum(p, i, x, w, n) ==
  FlattenSeq([b \in 1 .. n |->
    <<Batch(p, i, x, w, b - 1, 0), PromoteBatch(p, i, x, w, 0, b - 1, 0)>>])
  \o (IF x + 1 < p.tasks[i].n THEN <<[arrive |-> Release(p, i, x)] @@ Nop>>
      ELSE <<[read |-> Coefficients(p, i, x), arrive |-> Release(p, i, x)] @@ Nop>>)

StageLoop(p, i, x, w) ==
  LET t == p.tasks[i]
  IN  Prepare(p, i, x, w) \o <<Capturing(p, i, x, w)>>
      \o (CASE t.loop = "progressive" -> ProgressiveDrain(p, i, x, w)
            [] t.loop = "chained" -> ChainedSum(p, i, x, w)
            [] t.loop = "halves" -> HalfSums(p, i, x, w)
            [] t.loop = "groups" -> GroupByGroup(p, i, x, w, IF p.ints THEN 2 ELSE 4)
            [] t.loop \in {"one", "shadow"} -> OneGroup(p, i, x, w)
            [] t.loop = "whole" -> WholeSum(p, i, x, w, IF t.l2 THEN 2 ELSE 1))

-----------------------------------------------------------------------------
\* All warpgroups have met for the k-th time in the epilogue of the i-th block.
EpilogueMeets(p) == IF ~p.tasks[1].l2 /\ p.swap THEN 2 ELSE 1
AllMet(p, i, k) == {<<Meet, (((i - 1) * EpilogueMeets(p)) + k - 1) % 2>>}

\* The first warpgroup stores the block of L1 output and waits until the store
\* is complete; the others go on to their next block.
StoreBlock(p, i, w, k) ==
  LET t == p.tasks[i]
  IN  <<[wait |-> AllMet(p, i, k),
         issue |-> IF w # 0 THEN <<>>
                   ELSE <<Group("store", { <<SmemCD(v), Task("act", t)>> : v \in Wgs(p) },
                                {<<L1Out(t.m, t.nb), Task("l1_out", t)>>}, {})>>] @@ Nop,
        [drain |-> IF w = 0 THEN {<<"store", 0>>} ELSE {}] @@ Nop>>

\* Swapped L1: results in FP32, then token by token maxima, scales and
\* quantised results, which lie apart from the former.
SwapEpilogueL1(p, i, w) ==
  LET t == p.tasks[i]
  IN  <<[write |-> {<<SmemCDSwap(w), Task("fp32", t)>>}, arrive |-> ToMeet] @@ Nop,
        [wait |-> AllMet(p, i, 1),
         read |-> { <<SmemCDSwap(v), Task("fp32", t)>> : v \in Wgs(p) },
         write |-> {<<SmemCD(w), Task("act", t)>>}
                   \cup IF w = 0 THEN {<<L2SF(t.m, t.nb), Task("l2_sf", t)>>} ELSE {},
         arrive |-> ToMeet] @@ Nop>>
      \o StoreBlock(p, i, w, 2)

\* L1: a warpgroup has the maxima of its rows in its registers.
SplitEpilogueL1(p, i, w) ==
  LET t == p.tasks[i]
  IN  <<[write |-> {<<SmemCD(w), Task("act", t)>>}
                   \cup IF w = 0 THEN {<<L2SF(t.m, t.nb), Task("l2_sf", t)>>} ELSE {},
         arrive |-> ToMeet] @@ Nop>>
      \o StoreBlock(p, i, w, 1)

\* L2: rows through shared memory to the ranks of their tokens.
SplitEpilogueL2(p, i, w) ==
  LET t == p.tasks[i]
  IN  <<[write |-> {<<SmemCD(w), Task("row", t)>>}] @@ Nop,
        [read |-> {<<SmemCD(w), Task("row", t)>>},
         write |-> {<<CombineRow(t, w), Task("row", t)>>},
         arrive |-> ToMeet] @@ Nop,
        [wait |-> AllMet(p, i, 1)] @@ Nop>>

SplitMath(p, w) ==
  FlattenSeq([i \in 1 .. Len(p.tasks) |->
    FlattenSeq([x \in 1 .. p.tasks[i].n |-> StageLoop(p, i, x - 1, w)])
    \o (CASE p.tasks[i].l2 -> SplitEpilogueL2(p, i, w)
          [] p.swap -> SwapEpilogueL1(p, i, w)
          [] OTHER -> SplitEpilogueL1(p, i, w))])

\* At the end every block is written.
SplitBlocks(p) ==
  LET blocks == { p.tasks[i] : i \in 1 .. Len(p.tasks) }
  IN  Kernel(SplitBarriers(p),
             [a \in {<<Cta, "load_a">>, <<Cta, "load_b">>, <<Cta, "idle">>}
                    \cup { <<Cta, "math", w>> : w \in Wgs(p) } |->
                CASE a[2] = "load_a" -> Stages(p, SplitLoadA)
                  [] a[2] = "load_b" -> Stages(p, SplitLoadB)
                  [] a[2] = "idle" -> Stages(p, IdleWarps)
                  [] a[2] = "math" -> SplitMath(p, a[3])],
             <<>>,
             [c \in UNION { IF t.l2 THEN { CombineRow(t, w) : w \in Wgs(p) }
                            ELSE {L1Out(t.m, t.nb), L2SF(t.m, t.nb)} : t \in blocks } |->
                LET t == CHOOSE x \in blocks : c \in {L1Out(x.m, x.nb), L2SF(x.m, x.nb)}
                                                     \cup { CombineRow(x, w) : w \in Wgs(p) }
                IN  Task(IF c[2] = "combine" THEN "row" ELSE c[2], t)])
=============================================================================
