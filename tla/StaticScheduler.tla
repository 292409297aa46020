--------------------------- MODULE StaticScheduler ---------------------------
(***************************************************************************)
(* MegaMoEScheduler, the static scheduler of the fused kernel: every warp  *)
(* role of every CTA runs the same deterministic enumeration of the blocks *)
(* and keeps the ones that fall to its CTA.  Experts are taken in waves;   *)
(* all L1 blocks of a wave come before its L2 blocks, and CTA c takes      *)
(* blocks c, c + NumSMs, ... of the whole sequence, which the code keeps   *)
(* as one running index that is reduced by the size of every expert it     *)
(* passes and carried from phase to phase and from wave to wave.           *)
(*                                                                         *)
(* The enumeration is thread-local; a CTA runs the block it found before   *)
(* it looks for the next, and an L2 block waits for the L1 N blocks of its *)
(* M block, which other CTAs may run.                                      *)
(***************************************************************************)
EXTENDS Integers, FiniteSetsExt

CONSTANTS NumSMs,       \* kNumSMs
          NumExperts,   \* kNumExpertsPerRank
          PerWave,      \* kNumExpertsPerWave
          NumL1BlockNs, \* kNumL1BlockNs
          NumL2BlockNs, \* kNumL2BlockNs
          BlockM,       \* BLOCK_M
          MaxTokens     \* bound: tokens of an expert

ASSUME StaticSchedulerAssumption ==
  /\ NumSMs \in Nat \ {0}
  /\ PerWave \in Nat \ {0}
  /\ NumExperts \in Nat \ {0} /\ NumExperts % PerWave = 0
  /\ NumL1BlockNs \in Nat \ {0} /\ NumL2BlockNs \in Nat \ {0}
  /\ BlockM \in Nat \ {0} /\ MaxTokens \in Nat

SMs == 0 .. NumSMs - 1
Experts == 0 .. NumExperts - 1

VARIABLES
  tokens,  \* stored_num_tokens_per_expert, fetched once and the same everywhere
  phase,   \* phase[c]: next_phase
  expert,  \* expert[c]: current_local_expert_idx
  offset,  \* offset[c]: current_pool_block_offset
  block,   \* block[c]: block_idx
  waveEnd, \* waveEnd[c]: wave_end_expert_idx of the fetch loop
  pc,      \* pc[c]: "next", "scan", "run" or "done"
  task,    \* task[c]: the block it runs
  ready,   \* L1 blocks announced: <<pool block, n>>
  ran      \* history: ran[c]: blocks CTA c has taken

schedVars == <<phase, expert, offset, block, waveEnd>>
vars == <<tokens, schedVars, pc, task, ready, ran>>

CeilDiv(a, b) == (a + b - 1) \div b
MBlocks(e) == CeilDiv(tokens[e], BlockM)
BlockNs(p) == IF p = 1 THEN NumL1BlockNs ELSE NumL2BlockNs

\* get_pool_block_offset: the sum of the M blocks of the experts before, as the
\* number of these blocks.
BlocksBefore(e) ==
  { b \in (0 .. e - 1) \X (0 .. CeilDiv(MaxTokens, BlockM) - 1) : b[2] < MBlocks(b[1]) }
PoolBlockOffset(e) == Cardinality(BlocksBefore(e))

AlignUp(a, b) == CeilDiv(a, b) * b
AlignDown(a, b) == (a \div b) * b

NoTask == [phase |-> 0]

Init ==
  /\ tokens \in [Experts -> 0 .. MaxTokens]
  /\ phase = [c \in SMs |-> 1]
  /\ expert = [c \in SMs |-> 0]
  /\ offset = [c \in SMs |-> 0]
  /\ block = [c \in SMs |-> c]
  /\ waveEnd = [c \in SMs |-> 0]
  /\ pc = [c \in SMs |-> "next"]
  /\ task = [c \in SMs |-> NoTask]
  /\ ready = {}
  /\ ran = [c \in SMs |-> 0]

-----------------------------------------------------------------------------
\* get_next_block: the head of its loop and of fetch_next_l1/l2_block.
NextBlock(c) ==
  /\ pc[c] = "next"
  /\ IF expert[c] >= NumExperts
       THEN pc' = [pc EXCEPT ![c] = "done"] /\ UNCHANGED waveEnd
       ELSE /\ pc' = [pc EXCEPT ![c] = "scan"]
            /\ waveEnd' = [waveEnd EXCEPT ![c] = AlignUp(expert[c] + 1, PerWave)]
  /\ UNCHANGED <<tokens, phase, expert, offset, block, task, ready, ran>>

\* The index lies in the current expert.
Here(c) == block[c] < MBlocks(expert[c]) * BlockNs(phase[c])

Found(c) ==
  /\ pc[c] = "scan" /\ expert[c] < waveEnd[c] /\ Here(c)
  /\ LET m == block[c] \div BlockNs(phase[c])
     IN  task' = [task EXCEPT ![c] =
           [phase |-> phase[c], expert |-> expert[c], m |-> m,
            n     |-> block[c] - m * BlockNs(phase[c]),
            pool  |-> offset[c] + m,
            valid |-> Min({tokens[expert[c]] - m * BlockM, BlockM})]]
  /\ block' = [block EXCEPT ![c] = @ + NumSMs]
  /\ ran' = [ran EXCEPT ![c] = @ + 1]
  /\ pc' = [pc EXCEPT ![c] = "run"]
  /\ UNCHANGED <<tokens, phase, expert, offset, waveEnd, ready>>

\* Fault: the index is not reduced by the blocks passed.
AdvanceExpert_KeepIndex(c) ==
  /\ pc[c] = "scan" /\ expert[c] < waveEnd[c] /\ ~Here(c)
  /\ offset' = [offset EXCEPT ![c] = @ + MBlocks(expert[c])]
  /\ expert' = [expert EXCEPT ![c] = @ + 1]
  /\ UNCHANGED <<tokens, phase, block, waveEnd, pc, task, ready, ran>>
\* It lies behind: advance_expert_idx.
AdvanceExpert(c) ==
  /\ pc[c] = "scan" /\ expert[c] < waveEnd[c] /\ ~Here(c)
  /\ block' = [block EXCEPT ![c] = @ - MBlocks(expert[c]) * BlockNs(phase[c])]
  /\ offset' = [offset EXCEPT ![c] = @ + MBlocks(expert[c])]
  /\ expert' = [expert EXCEPT ![c] = @ + 1]
  /\ UNCHANGED <<tokens, phase, waveEnd, pc, task, ready, ran>>

\* Fault: the L2 pass starts where the L1 pass ended.
TurnToL2_NoReturn(c) ==
  /\ pc[c] = "scan" /\ expert[c] >= waveEnd[c] /\ phase[c] = 1
  /\ phase' = [phase EXCEPT ![c] = 2]
  /\ pc' = [pc EXCEPT ![c] = "next"]
  /\ UNCHANGED <<tokens, expert, offset, block, waveEnd, task, ready, ran>>
\* Fault: the pool offset stays behind the wave.
TurnToL2_OldOffset(c) ==
  /\ pc[c] = "scan" /\ expert[c] >= waveEnd[c] /\ phase[c] = 1
  /\ phase' = [phase EXCEPT ![c] = 2]
  /\ expert' = [expert EXCEPT ![c] = AlignDown(@ - 1, PerWave)]
  /\ pc' = [pc EXCEPT ![c] = "next"]
  /\ UNCHANGED <<tokens, offset, block, waveEnd, task, ready, ran>>
\* The L1 blocks of the wave are all passed: set_expert_idx to its first expert.
TurnToL2(c) ==
  /\ pc[c] = "scan" /\ expert[c] >= waveEnd[c] /\ phase[c] = 1
  /\ phase' = [phase EXCEPT ![c] = 2]
  /\ LET first == AlignDown(expert[c] - 1, PerWave)
     IN  /\ expert' = [expert EXCEPT ![c] = first]
         /\ offset' = [offset EXCEPT ![c] = PoolBlockOffset(first)]
  /\ pc' = [pc EXCEPT ![c] = "next"]
  /\ UNCHANGED <<tokens, block, waveEnd, task, ready, ran>>

TurnToL1(c) ==
  /\ pc[c] = "scan" /\ expert[c] >= waveEnd[c] /\ phase[c] = 2
  /\ phase' = [phase EXCEPT ![c] = 1]
  /\ pc' = [pc EXCEPT ![c] = "next"]
  /\ UNCHANGED <<tokens, expert, offset, block, waveEnd, task, ready, ran>>

\* The block is run: an L1 block announces its N block, an L2 block waits for
\* all of its M block.
Run(c) ==
  /\ pc[c] = "run"
  /\ LET t == task[c]
     IN  /\ t.phase = 2 => \A n \in 0 .. NumL1BlockNs - 1 : <<t.pool, n>> \in ready
         /\ ready' = IF t.phase = 1 THEN ready \cup {<<t.pool, t.n>>} ELSE ready
  /\ task' = [task EXCEPT ![c] = NoTask]
  /\ pc' = [pc EXCEPT ![c] = "next"]
  /\ UNCHANGED <<tokens, schedVars, ran>>

Done == \A c \in SMs : pc[c] = "done"
Finished == Done /\ UNCHANGED vars

Step(c) == \/ NextBlock(c) \/ Found(c) \/ AdvanceExpert(c)
           \/ TurnToL2(c) \/ TurnToL1(c) \/ Run(c)

Next == (\E c \in SMs : Step(c)) \/ Finished

Spec == Init /\ [][Next]_vars

\* The warps of a resident CTA keep running.
FairSpec == Spec /\ \A c \in SMs : WF_vars(Step(c))
-----------------------------------------------------------------------------
\* The place of a block in the sequence all CTAs share.
Position(t) ==
  LET first == AlignDown(t.expert, PerWave)
      before == PoolBlockOffset(first) * (NumL1BlockNs + NumL2BlockNs)
      inWave == PoolBlockOffset(t.expert) - PoolBlockOffset(first)
      waveL1 == (PoolBlockOffset(first + PerWave) - PoolBlockOffset(first)) * NumL1BlockNs
  IN  before + (IF t.phase = 1 THEN 0 ELSE waveL1)
             + (inWave + t.m) * BlockNs(t.phase) + t.n

\* The running index does deal out the sequence in turn: the k-th block a CTA
\* takes is block c + k * NumSMs, across experts, phases and waves.  Load is
\* thus balanced to one block, no two CTAs run the same block, and a CTA that
\* is done has left none of its share.
InTurn ==
  \A c \in SMs :
    /\ pc[c] = "run" => Position(task[c]) = c + (ran[c] - 1) * NumSMs
    /\ pc[c] = "done" =>
         c + ran[c] * NumSMs >= PoolBlockOffset(NumExperts) * (NumL1BlockNs + NumL2BlockNs)

\* A block reads and writes the pool block that lies behind those of the
\* experts before, with the rows the expert has there, however the offset was
\* kept up to date.
PoolBlockRight ==
  \A c \in SMs : pc[c] = "run" =>
    LET t == task[c]
    IN  /\ t.pool = PoolBlockOffset(t.expert) + t.m
        /\ t.valid \in 1 .. BlockM
        /\ t.m * BlockM + t.valid <= tokens[t.expert]
        /\ t.valid < BlockM => t.m * BlockM + t.valid = tokens[t.expert]

\* Every launch ends: an L2 block only ever waits for blocks that come before
\* it in the sequence.
LaunchEnds == <>Done
=============================================================================
