----------------------------- MODULE TaskCounts -----------------------------
(***************************************************************************)
(* The arithmetic a producer does once per launch, before it claims tasks  *)
(* (InterleavedMegaMoEScheduler::fetch_expert_recv_count and               *)
(* get_num_l1_warmup_waves): which L1 and L2 tasks of the launch are cut   *)
(* into K splits, how many task indices that makes, how many rounds of     *)
(* L1-only claims come first, and which task an index stands for.          *)
(***************************************************************************)
EXTENDS Integers

CONSTANTS NumSMs,              \* kNumSMs: CTAs, one producer each
          NumMBlocks,          \* num_total_m_blocks of this launch
          NumL1BlockNs,        \* kNumL1BlockNs: L1 tasks of an M block
          NumL2BlockNs,        \* kNumL2BlockNs: L2 tasks of an M block
          NumL1KSplits,        \* kNumL1KSplits
          NumL2KSplits,        \* kNumL2KSplits
          MaxSplitKPoolBlocks  \* kMaxSplitKPoolBlocks

ASSUME TaskCountsAssumption ==
  /\ NumSMs \in Nat \ {0}
  /\ NumMBlocks \in Nat
  /\ NumL1BlockNs \in Nat \ {0}
  /\ NumL2BlockNs \in Nat \ {0}
  /\ NumL1KSplits \in Nat \ {0}
  /\ NumL2KSplits \in Nat \ {0}
  /\ MaxSplitKPoolBlocks \in Nat

Larger(a, b) == IF a >= b THEN a ELSE b
Smaller(a, b) == IF a <= b THEN a ELSE b
CeilDiv(a, b) == (a + b - 1) \div b

\* get_num_l1_warmup_waves
MinWarmupWaves ==
  IF NumMBlocks <= 0 THEN 0
  ELSE LET firstL2Wave == CeilDiv(CeilDiv(NumSMs, NumL2BlockNs) * NumL1BlockNs,
                                  NumSMs)
           moreL1PerBlock == IF NumL1BlockNs > NumL2BlockNs
                               THEN NumL1BlockNs - NumL2BlockNs ELSE 0
           interleave == CeilDiv(NumL1BlockNs + (NumMBlocks - 1) * moreL1PerBlock,
                                 NumSMs) + 1
       IN  Larger(firstL2Wave, interleave)

\* A tail of `tail` tasks is split when its splits fit one wave of CTAs and
\* the launch fits the partial-sum scratch.
Splits(splits, tail) ==
  IF /\ splits > 1
     /\ NumMBlocks <= MaxSplitKPoolBlocks
     /\ tail > 0
     /\ tail * splits <= NumSMs
    THEN splits ELSE 1

L1Tasks == NumMBlocks * NumL1BlockNs
L1Tail == L1Tasks % NumSMs
L1Splits == Splits(NumL1KSplits, L1Tail)
L1SplitBase == IF L1Splits > 1 THEN L1Tasks - L1Tail ELSE L1Tasks
L1Indices == L1SplitBase + (L1Tasks - L1SplitBase) * L1Splits

\* num_l1_warmup_waves: one more with a split tail, never more than there are.
WarmupWaves ==
  Smaller(MinWarmupWaves + (IF L1Splits > 1 THEN 1 ELSE 0),
          CeilDiv(L1Indices, NumSMs))

L2Tasks == NumMBlocks * NumL2BlockNs
L1LastWave == L1Indices % NumSMs
L2FirstBatch == IF L1LastWave = 0 THEN 0 ELSE NumSMs - L1LastWave
L2Tail == IF L2Tasks <= L2FirstBatch THEN L2Tasks
          ELSE (L2Tasks - L2FirstBatch) % NumSMs
L2Splits == Splits(NumL2KSplits, L2Tail)
L2SplitBase == IF L2Splits > 1 THEN L2Tasks - L2Tail ELSE L2Tasks
\* Fault: the K splits of the tail are not counted.
L2Indices_Unsplit == L2Tasks
L2Indices == L2SplitBase + (L2Tasks - L2SplitBase) * L2Splits

\* get_num_l1_task_indices: indices that cover the first n L1 tasks.
L1IndicesFor(n) ==
  IF n <= L1SplitBase THEN n ELSE L1SplitBase + (n - L1SplitBase) * L1Splits

\* The task an index stands for: [phase, full task index, split, of splits].
L1TaskOf(idx) ==
  IF idx < L1SplitBase
    THEN [phase |-> 1, full |-> idx, split |-> 0, of |-> 1]
    ELSE [phase |-> 1, full |-> L1SplitBase + (idx - L1SplitBase) \div L1Splits,
          split |-> (idx - L1SplitBase) % L1Splits, of |-> L1Splits]

L2TaskOf(idx) ==
  IF idx < L2SplitBase
    THEN [phase |-> 2, full |-> idx, split |-> 0, of |-> 1]
    ELSE [phase |-> 2, full |-> L2SplitBase + (idx - L2SplitBase) \div L2Splits,
          split |-> (idx - L2SplitBase) % L2Splits, of |-> L2Splits]

\* create_task: the (dense) M block and the N block of a full task.
BlockOf(task) ==
  task.full \div (IF task.phase = 1 THEN NumL1BlockNs ELSE NumL2BlockNs)
NBlockOf(task) ==
  task.full % (IF task.phase = 1 THEN NumL1BlockNs ELSE NumL2BlockNs)

\* Fault: the M blocks before this one are enough.
Required_OwnBlock(task) == L1IndicesFor(BlockOf(task) * NumL1BlockNs)
\* L1 indices that must have been claimed before an L2 task is published:
\* num_required_l1_tasks.
Required(task) == L1IndicesFor((BlockOf(task) + 1) * NumL1BlockNs)

\* All tasks of the launch: every (M block, N block) of both layers, a tail
\* task once per K split.
Pieces(phase, tasks, base, splits) ==
  { [phase |-> phase, full |-> f, split |-> 0, of |-> 1] : f \in 0 .. base - 1 }
  \cup
  { [phase |-> phase, full |-> f, split |-> s, of |-> splits] :
      f \in base .. tasks - 1, s \in 0 .. splits - 1 }
AllTasks == Pieces(1, L1Tasks, L1SplitBase, L1Splits) \cup
            Pieces(2, L2Tasks, L2SplitBase, L2Splits)
=============================================================================
