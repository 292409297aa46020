---------------------------- MODULE MegaMoeCluster ----------------------------
(***************************************************************************)
(* One rank of the Blackwell MegaMoE kernels, on one cluster of two CTAs:  *)
(* the routed tokens, the pool blocks they form, the blocks of work and    *)
(* their order, and the names of what the warps share.                     *)
(*                                                                         *)
(* A row of the pool is one (token, expert) pair.  L1 multiplies a pool    *)
(* block with the first weights of its expert, L2 the result with the      *)
(* second; the two CTAs take adjacent N blocks of the same M block, their  *)
(* loaders half of its rows and the rows of their own N block, and the     *)
(* leader issues the MMAs for both.                                        *)
(*                                                                         *)
(* A problem is a record with                                              *)
(*   routes:  routes[i]: the experts token i - 1 is routed to              *)
(*   experts: kNumExpertsPerRank      perWave: kNumExpertsPerWave          *)
(*   blockM:  BLOCK_M; a store block is one row of it                      *)
(*   ring:    kNumRingBlocks                                               *)
(*   l1n, l2n: N blocks                l1k, l2k: K blocks                  *)
(*   stages:  kNumStages               accums: kNumEpilogueStages          *)
(*   wgs:     epilogue warpgroups      storeStages: kNumTMAStoreStages     *)
(*   chunks:  of a row that is pulled  parts:  of a result row combined    *)
(***************************************************************************)
EXTENDS KernelSteps, FiniteSetsExt

CtaPair == 0 .. 1
Lead == 0 \* is_leader_cta
Wgs(p) == 0 .. p.wgs - 1
Experts(p) == 0 .. p.experts - 1
Tokens(p) == 0 .. Len(p.routes) - 1

CeilDiv(a, b) == (a + b - 1) \div b

-----------------------------------------------------------------------------
\* The tokens of an expert, in the order of their source indices.
Rows(p, e) == SelectSeq([i \in 1 .. Len(p.routes) |-> i - 1], LAMBDA t : e \in p.routes[t + 1])
NumBlocks(p, e) == CeilDiv(Len(Rows(p, e)), p.blockM)
\* get_pool_block_offset
PoolBlockOffset(p, e) == MapThenSumSet(LAMBDA x : NumBlocks(p, x), 0 .. e - 1)

\* Row i of expert e in the pool.
PoolRow(p, e, i) ==
  [expert |-> e, token |-> Rows(p, e)[i + 1],
   pool |-> PoolBlockOffset(p, e) + i \div p.blockM, row |-> i % p.blockM,
   last |-> i + 1 = Len(Rows(p, e))]
\* All rows, in the order of the pull loop's token index.
PoolRows(p) ==
  FlattenSeq([x \in 1 .. p.experts |->
    [i \in 1 .. Len(Rows(p, x - 1)) |-> PoolRow(p, x - 1, i - 1)]])
BlockRows(p, b) == { r \in ToSet(PoolRows(p)) : r.pool = b.pool }
\* get_valid_m
ValidM(p, b) == Cardinality(BlockRows(p, b))

Ring(p, pool) == pool % p.ring
Lap(p, pool) == pool \div p.ring

\* The blocks of an expert in one phase: all pairs of N blocks of a pool block
\* before the next; CTA c has the c-th of a pair.
ExpertBlocks(p, e, l2) ==
  LET pairs == (IF l2 THEN p.l2n ELSE p.l1n) \div 2
  IN  [j \in 1 .. NumBlocks(p, e) * pairs |->
         [l2 |-> l2, expert |-> e, pool |-> PoolBlockOffset(p, e) + (j - 1) \div pairs,
          pair |-> (j - 1) % pairs, k |-> IF l2 THEN p.l2k ELSE p.l1k]]
\* for_each_block: all L1 blocks of a wave of experts, then its L2 blocks.
Blocks(p) ==
  FlattenSeq([w \in 1 .. CeilDiv(p.experts, p.perWave) |->
    LET wave == [x \in 1 .. p.perWave |-> ((w - 1) * p.perWave) + x - 1]
    IN  FlattenSeq([x \in 1 .. p.perWave |-> ExpertBlocks(p, wave[x], FALSE)])
        \o FlattenSeq([x \in 1 .. p.perWave |-> ExpertBlocks(p, wave[x], TRUE)])])
NBlock(b, c) == (2 * b.pair) + c

\* stage_idx and phase at K block k of the i-th block.
It(bs, i, k) == MapThenSumSet(LAMBDA j : bs[j].k, 1 .. i - 1) + k
Slot(p, it) == it % p.stages
Parity(p, it) == (it \div p.stages) % 2
\* accum_stage_idx and accum_phase of the i-th block.
AccumStage(p, i) == (i - 1) % p.accums
AccumPhase(p, i) == ((i - 1) \div p.accums) % 2

-----------------------------------------------------------------------------
\* m-barriers
PullBar(c) == <<c, "dispatch">>
Full(s) == <<Lead, "full", s>> \* only the leader's is used
Empty(c, s) == <<c, "empty", s>>
TmemFull(c, t) == <<c, "tmem_full", t>>
TmemEmpty(t) == <<Lead, "tmem_empty", t>>
EpilogueFull(c) == <<c, "epilogue">>         \* kEpilogueFullBarrierIdx
WithEpilogue(c) == <<c, "with_epilogue">>    \* kDispatchWithEpilogueBarrierIdx
CombineBar(c, i) == <<c, "combine", i>>

\* counters
L1Full(p, b) == <<Gmem, "l1_full", Ring(p, b)>>
L1Empty(p, b) == <<Gmem, "l1_empty", Ring(p, b)>>
L2Full(p, b) == <<Gmem, "l2_full", Ring(p, b)>>
L2Empty(p, b) == <<Gmem, "l2_empty", Ring(p, b)>>
GridEpilogue == <<Gmem, "grid">> \* the barrier before the combine

\* cells; the stages, staging buffers and pull buffers of a CTA lie in the
\* memory the combine uses again.
PullBuffer(c) == <<c, "pull">>
SmemA(c, s) == <<c, "A", s>>
SmemB(c, s) == <<c, "B", s>>
SmemD(c, j) == <<c, "D", j>>
L1Stage(p, c, w, j) == SmemD(c, (p.storeStages * w) + j)
L2Stage(p, c, w) == { SmemD(c, (4 * w) + j) : j \in 0 .. 3 }
Tmem(c, t) == <<c, "tmem", t>>
CombineLoad(p, c, i) == IF i = 0 THEN PullBuffer(c) ELSE SmemA(c, 0)
CombineStore(p, c) == SmemB(c, 0)

L1Row(p, b, r, h) == <<Gmem, "l1", Ring(p, b), r, h>>
L1Weight(p, b, r) == <<Gmem, "l1_weight", Ring(p, b), r>>
L1Out(p, b, n, r) == <<Gmem, "l1_out", Ring(p, b), n, r>>
Metadata(b, r) == <<Gmem, "metadata", b, r>> \* of the whole pool, not the ring
CombineRow(t, e, n) == <<Gmem, "combine", t, e, n>>
Output(t, h) == <<Gmem, "y", t, h>>

\* contents
Token(x, h) == <<"token", x.token, h>>
Weight(x) == <<"weight", x.token, x.expert>>
Source(x) == <<"source", x.token, x.expert>>
Acts(b, c, k) == <<"acts", b.l2, b.pool, c, k>>
Weights(b, c, k) == <<"weights", b.l2, b.expert, NBlock(b, c), k>>
Sum(b, c, k) == <<"sum", b.l2, b.pool, NBlock(b, c), k>>
Activated(x, n) == <<"activated", x.token, x.expert, n>>
Result(x, n) == <<"result", x.token, x.expert, n>>
Staged(b, n, r) == <<"staged", b.l2, b.pool, n, r>>
Reduced(t, h) == <<"reduced", t, h>>
Freed == <<"freed">>

RowAt(p, b, r) == CHOOSE x \in BlockRows(p, b) : x.row = r
=============================================================================
