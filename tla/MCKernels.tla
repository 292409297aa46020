------------------------------ MODULE MCKernels ------------------------------
EXTENDS KernelMachine

Bf16 == INSTANCE Sm90Bf16Gemm
Fp8Both == INSTANCE Sm90Fp8Gemm1D1D
Fp8Block == INSTANCE Sm90Fp8Gemm1D2D

Blackwell == INSTANCE Sm100Gemm

Split == INSTANCE SplitGemm

Problem == [type |-> "Normal", m |-> 1, n |-> 1, k |-> 2, layout |-> <<>>,
            blockM |-> 1, blockK |-> 1, kAlign |-> 1, sfSpan |-> 1, mc |-> 1, onA |-> FALSE,
            sms |-> 1, per |-> 2, fixOdd |-> TRUE, stages |-> 2, wgs |-> 1,
            waves |-> 1, valid |-> {},
            accums |-> 2, stores |-> 1, storeStages |-> 2, sfLoads |-> 2, util |-> FALSE,
            smCount |-> 1, splits |-> 1, castStages |-> 2]

\* Rows of two blocks, none and one, behind a partial block; and along K.
RowSums == [Problem EXCEPT !.type = "MGroupedContiguousWithPsumLayout", !.layout = <<3, 4, 5>>,
                           !.blockM = 2, !.k = 1]
KSums == [Problem EXCEPT !.type = "KGroupedContiguousWithPsumLayout", !.layout = <<1, 2, 4>>,
                         !.kAlign = 2, !.fixOdd = FALSE]

ASSUME PsumLayouts == Bf16!WellFormed(RowSums) /\ Blackwell!WellFormed(KSums)

Sm90Kernels ==
  "sm90_bf16_alone" :> Bf16!Bf16Gemm([Problem EXCEPT !.n = 2, !.wgs = 2])
  @@ "sm90_bf16_cluster" :>
       Bf16!Bf16Gemm([Problem EXCEPT !.sms = 2, !.mc = 2, !.m = 3])
  @@ "sm90_bf16_contiguous" :>
       Bf16!Bf16Gemm([Problem EXCEPT !.type = "MGroupedContiguous", !.layout = <<0, 0, 0, 1>>,
                                     !.sms = 2, !.mc = 2, !.m = 4, !.k = 1])
  @@ "sm90_bf16_row_sums" :> Bf16!Bf16Gemm(RowSums)
  @@ "sm90_fp8_k_grouped" :>
       Fp8Both!Fp8Gemm1D1D([Problem EXCEPT !.type = "KGroupedContiguous", !.layout = <<2, 0, 1>>,
                                           !.wgs = 2])
  @@ "sm90_fp8_masked" :>
       Fp8Block!Fp8Gemm1D2D([Problem EXCEPT !.type = "MGroupedMasked", !.layout = <<2, 0, 1>>,
                                            !.blockM = 2, !.wgs = 2, !.waves = 2, !.valid = {0},
                                            !.k = 1])

Sm100Kernels ==
  "sm100_bf16_alone" :>
       Blackwell!Bf16Gemm([Problem EXCEPT !.m = 3, !.wgs = 2, !.fixOdd = FALSE, !.util = TRUE])
  @@ "sm100_bf16_cluster" :>
       Blackwell!Bf16Gemm([Problem EXCEPT !.m = 4, !.sms = 2, !.mc = 2, !.fixOdd = FALSE,
                                          !.accums = 1])
  @@ "sm100_fp8_alone" :>
       Blackwell!Fp8Gemm([Problem EXCEPT !.k = 3, !.wgs = 2, !.stores = 3, !.fixOdd = FALSE])
  @@ "sm100_fp8_cluster" :>
       Blackwell!Fp8Gemm([Problem EXCEPT !.m = 2, !.sms = 2, !.mc = 2, !.fixOdd = FALSE])
  @@ "sm100_bf16_k_sums" :> Blackwell!Bf16Gemm(KSums)

SplitKernels ==
  "sm90_einsum" :> Split!Sm90Einsum([Problem EXCEPT !.k = 3, !.wgs = 2])
  @@ "sm90_einsum_split" :> Split!Sm90Einsum([Problem EXCEPT !.k = 3, !.smCount = 2])
  @@ "sm90_prenorm" :> Split!Sm90Prenorm([Problem EXCEPT !.k = 4])
  @@ "sm90_prenorm_split" :> Split!Sm90Prenorm([Problem EXCEPT !.k = 3, !.splits = 2])
  @@ "sm100_einsum" :>
       Split!Sm100Einsum([Problem EXCEPT !.k = 3, !.wgs = 3, !.stores = 4])
  @@ "sm100_prenorm" :>
       Split!Sm100Prenorm([Problem EXCEPT !.k = 4, !.stages = 3, !.wgs = 3])

Mqa == INSTANCE MqaLogits

MqaProblem == [starts |-> <<0>>, ends |-> <<8>>, blockQ |-> 1, splitKV |-> 4, blockKV |-> 4,
               kvTokens |-> 16, lens |-> <<>>, tokens |-> <<>>, splitsPerChunk |-> 2,
               sms |-> 1, qStages |-> 2, stages |-> 2, accums |-> 2, wgs |-> 1, lanes |-> 2,
               fp4 |-> FALSE]

MqaKernels ==
  "sm90_mqa" :> Mqa!Sm90Mqa([MqaProblem EXCEPT !.starts = <<0, 0, 3, 9, 6>>, !.ends = <<4, 6, 8, 9, 14>>,
                                               !.blockQ = 2, !.wgs = 2])
  @@ "sm90_paged" :> Mqa!Sm90PagedMqa([MqaProblem EXCEPT !.lens = <<5, 0, 5>>, !.wgs = 2, !.splitKV = 8])
  @@ "sm90_paged_lanes" :> Mqa!Sm90PagedMqa([MqaProblem EXCEPT !.lens = <<13, 5>>])
  @@ "sm90_paged_two" :> Mqa!Sm90PagedMqa([MqaProblem EXCEPT !.lens = <<5, 4>>, !.sms = 2])
  @@ "sm90_paged_shares" :> Mqa!Sm90PagedShares([MqaProblem EXCEPT !.lens = <<17, 0, 30, 9>>, !.wgs = 2,
                                                  !.splitKV = 8, !.sms = 3])
  @@ "sm100_mqa_fp8" :> Mqa!Sm100Mqa([MqaProblem EXCEPT !.starts = <<0, 3, 9, 6>>, !.ends = <<9, 8, 9, 14>>])
  @@ "sm100_mqa_fp4" :> Mqa!Sm100Mqa([MqaProblem EXCEPT !.starts = <<0, 3, 6>>, !.ends = <<9, 8, 14>>,
                                            !.fp4 = TRUE])
  @@ "sm100_paged" :> Mqa!Sm100PagedMqa([MqaProblem EXCEPT !.lens = <<0, 13>>, !.tokens = <<2, 2>>])
  @@ "sm100_paged_shares" :> Mqa!Sm100PagedShares([MqaProblem EXCEPT !.lens = <<17, 0, 30, 9>>,
                                                  !.tokens = <<1, 2, 3, 2>>, !.sms = 5])

Fused == INSTANCE FusedTask

FusedProblem == [stages |-> 2, wgs |-> 2, frags |-> 2, prefetch |-> FALSE, half |-> FALSE,
                 swap |-> TRUE, split |-> FALSE, twoSlots |-> FALSE, tasks |-> <<>>]
L1(loop, n, nb) == [l2 |-> FALSE, loop |-> loop, n |-> n, m |-> 0, nb |-> nb]
L2(loop, n, nb) == [l2 |-> TRUE, loop |-> loop, n |-> n, m |-> 0, nb |-> nb]

FusedKernels ==
  "fused_single" :>
    Fused!FusedTasks([FusedProblem EXCEPT !.stages = 3,
                        !.tasks = <<L1("single", 3, 0), L1("single", 1, 1), L2("single", 2, 0)>>])
  @@ "fused_half" :>
    Fused!FusedTasks([FusedProblem EXCEPT !.half = TRUE, !.stages = 3,
                        !.tasks = <<L1("single", 3, 0), L1("single", 2, 1), L2("single", 2, 0)>>])
  @@ "fused_lagged" :>
    Fused!FusedTasks([FusedProblem EXCEPT !.stages = 3, !.wgs = 1,
                        !.tasks = <<L1("lagged", 3, 0), L1("lagged", 2, 1), L2("drained", 2, 0)>>])
  @@ "fused_prefetch" :>
    Fused!FusedTasks([FusedProblem EXCEPT !.stages = 2, !.wgs = 1, !.prefetch = TRUE,
                        !.tasks = <<L1("lagged", 3, 0), L1("lagged", 1, 1), L2("drained", 2, 0)>>])
  @@ "fused_three_buffers" :>
    Fused!FusedTasks([FusedProblem EXCEPT !.stages = 3, !.frags = 3,
                        !.tasks = <<L1("rotating", 3, 0), L2("drained", 1, 0)>>])
  @@ "fused_four_buffers" :>
    Fused!FusedTasks([FusedProblem EXCEPT !.stages = 3, !.wgs = 1, !.frags = 4,
                        !.tasks = <<L1("rotating", 4, 0), L1("rotating", 1, 1)>>])
  @@ "fused_interleaved" :>
    Fused!FusedTasks([FusedProblem EXCEPT !.stages = 2, !.wgs = 1,
                        !.tasks = <<L1("interleaved", 3, 0), L2("drained", 1, 0)>>])
  @@ "fused_pipelined" :>
    Fused!FusedTasks([FusedProblem EXCEPT !.twoSlots = TRUE, !.wgs = 1,
                        !.tasks = <<L1("pipelined", 3, 0), L2("serial", 1, 0)>>])
  @@ "fused_split" :>
    Fused!FusedTasks([FusedProblem EXCEPT !.twoSlots = TRUE, !.swap = FALSE, !.split = TRUE,
                        !.tasks = <<L1("serial", 3, 0), L1("serial", 1, 1), L2("serial", 2, 0)>>])

Split90 == INSTANCE Sm90MegaMoe

SplitProblem == [decode |-> "registers", ints |-> FALSE] @@ FusedProblem

\* The kernels of the split MXFP4 / int4 path.
SplitMoeKernels ==
  "moe_l1_progressive" :>
    Split90!SplitBlocks([SplitProblem EXCEPT !.tasks = <<L1("progressive", 2, 0), L1("progressive", 1, 1)>>])
  @@ "moe_l1_chained" :>
    Split90!SplitBlocks([SplitProblem EXCEPT !.tasks = <<L1("chained", 2, 0), L1("chained", 1, 1)>>])
  @@ "moe_l2_halves" :>
    Split90!SplitBlocks([SplitProblem EXCEPT !.tasks = <<L2("halves", 2, 0), L2("halves", 1, 1)>>])
  @@ "moe_l1_math" :>
    Split90!SplitBlocks([SplitProblem EXCEPT !.swap = FALSE, !.decode = "math",
                           !.tasks = <<L1("shadow", 3, 0), L1("one", 2, 1)>>])
  @@ "moe_l1_whole" :>
    Split90!SplitBlocks([SplitProblem EXCEPT !.swap = FALSE, !.decode = "math",
                           !.tasks = <<L1("whole", 3, 0), L1("whole", 2, 1)>>])
  @@ "moe_l2_ints" :>
    Split90!SplitBlocks([SplitProblem EXCEPT !.swap = FALSE, !.decode = "math", !.ints = TRUE,
                           !.tasks = <<L2("groups", 2, 0), L2("whole", 2, 1)>>])
  @@ "moe_loaders" :>
    Split90!SplitBlocks([SplitProblem EXCEPT !.swap = FALSE, !.decode = "loaders", !.wgs = 1,
                           !.tasks = <<L1("groups", 2, 0), L1("groups", 1, 1)>>])

Moe100 == INSTANCE Sm100Bf16MegaMoe

MoeProblem == [routes |-> <<{0}>>, experts |-> 1, perWave |-> 1, blockM |-> 2, ring |-> 1,
               l1n |-> 2, l2n |-> 2, l1k |-> 1, l2k |-> 1, stages |-> 2, accums |-> 2, wgs |-> 1,
               storeStages |-> 2, chunks |-> 1, parts |-> 1]

\* The Blackwell kernels of a rank: experts that take turns in one ring slot,
\* rows pulled in chunks, and a ring of more rows than an expert has.
Moe100Kernels ==
  "moe100_laps" :>
    Moe100!Fp8MegaMoe([MoeProblem EXCEPT !.stages = 1, !.routes = <<{0, 1}>>, !.experts = 2])
  @@ "moe100_chunks" :>
    Moe100!Fp8MegaMoe([MoeProblem EXCEPT !.stages = 1, !.chunks = 2, !.l1k = 2, !.parts = 2])
  @@ "moe100_bf16" :>
    Moe100!Bf16MegaMoe([MoeProblem EXCEPT !.stages = 1, !.blockM = 4, !.routes = <<{0}, {0}, {0}>>])

Launches == INSTANCE SplitLaunch

\* Two launches: two rows of a block, with a result combined in parts; a token
\* that goes to both of two experts.
LaunchKernels ==
  "moe_launches" :>
    Launches!SplitLaunches([MoeProblem EXCEPT !.routes = <<{0}, {0}>>, !.parts = 2])
  @@ "moe_launches_experts" :>
    Launches!SplitLaunches([MoeProblem EXCEPT !.routes = <<{0, 1}, {1}>>, !.experts = 2, !.parts = 2, !.ring = 2,
                              !.stages = 1])

B200 == INSTANCE B200MegaMoe
B200Fp4 == INSTANCE B200Fp4MegaMoe

\* Every block has a place of its own.
PoolProblem == [MoeProblem EXCEPT !.ring = 2, !.stages = 1] @@ [mode |-> "push", splits |-> FALSE]

\* Rows that are pulled; rows that are pushed, to one of two experts, with a
\* loader that starts early and a combine in parts; one token in two rows.
B200Kernels ==
  "b200_pull" :> B200!B200Fp8MegaMoe([PoolProblem EXCEPT !.mode = "pull"])
  @@ "b200_static" :>
    B200!B200Fp8MegaMoe([PoolProblem EXCEPT !.mode = "static", !.routes = <<{1}>>, !.experts = 2,
                           !.perWave = 2, !.blockM = 1, !.parts = 2, !.splits = TRUE])
  @@ "b200_fp4_pull" :> B200Fp4!B200Fp4MegaMoe([PoolProblem EXCEPT !.mode = "pull"])
  @@ "b200_fp4_push" :> B200Fp4!B200Fp4MegaMoe([PoolProblem EXCEPT !.routes = <<{0}, {0}>>])

Router == INSTANCE RouterFrontend

RouterProblem == [routers |-> 2, tokens |-> 2]

\* The three ways the CTAs of a router launch meet.
RouterKernels ==
  "router_ticket" :> Router!TicketRouter(RouterProblem)
  @@ "router_last" :> Router!LastArriverRouter(RouterProblem)
  @@ "router_poll" :> Router!PollingRouter([routers |-> 3, tokens |-> 1])

MCKernels ==
  LET all == Sm90Kernels @@ Sm100Kernels @@ SplitKernels @@ MqaKernels @@ FusedKernels @@ SplitMoeKernels
             @@ LaunchKernels @@ Moe100Kernels @@ B200Kernels @@ RouterKernels
  IN  all
=============================================================================
