------------------------ MODULE InterleavedScheduler ------------------------
(***************************************************************************)
(* The dynamic task scheduler of the fused kernel, on one GPU: how L1 and  *)
(* L2 tasks are claimed, handed from the producer warp of a CTA to its     *)
(* activation loader and math warps, and finished.                         *)
(*                                                                         *)
(* Per CTA three actors run: the B loader, which is also the task producer *)
(* (claim_next_task, publish_task, load_b_task), the A loader              *)
(* (get_published_task, load_a_task) and the math warps (run_math_task).   *)
(* They share a two-slot task mailbox and a ring of NumStages pipeline     *)
(* stages; a stage is ready for the math warps when both loaders filled    *)
(* it.  CTAs share the two claim counters, the L1 readiness mask of each M *)
(* block and the flags of the K-split tasks.                               *)
(*                                                                         *)
(* The tokens of the launch are taken to be in the pool (PushDispatch.tla  *)
(* models how they get there).  The eight math warps are one actor: they   *)
(* meet at a CTA barrier in every task.                                    *)
(***************************************************************************)
EXTENDS TaskCounts, Sequences, FiniteSets

CONSTANTS NumStages,        \* kNumStages: pipeline stages of a CTA
          L1KStages,        \* K stages of an unsplit L1 task
          L2KStages,        \* K stages of an unsplit L2 task
          KBlocksPerStage,  \* kKBlocksPerStage
          L1PerL2KBlock,    \* kNumL1BlocksPerL2KBlock
          L2KPerL1Block     \* kNumL2KBlocksPerL1Block

SMs == 0 .. NumSMs - 1
MBlocks == 0 .. NumMBlocks - 1
NumScheduleStages == 2      \* kNumScheduleStages: slots of the task mailbox
WavesDone == -1             \* kNumL1WavesDone
None == [phase |-> 0, full |-> 0, split |-> 0, of |-> 1]  \* BlockPhase::None

ASSUME SchedulerAssumption ==
  /\ NumStages \in Nat \ {0}
  /\ KBlocksPerStage \in Nat \ {0}
  /\ L1PerL2KBlock \in Nat \ {0}
  /\ L2KPerL1Block \in Nat \ {0}
  \* every split of a task has a K stage of its own
  /\ L1KStages \in Nat /\ L1KStages >= NumL1KSplits
  /\ L2KStages \in Nat /\ L2KStages >= NumL2KSplits
  \* the L1 N blocks of an M block are exactly the K extent of its L2 tasks
  /\ L2KStages * KBlocksPerStage * L1PerL2KBlock = NumL1BlockNs * L2KPerL1Block

VARIABLES
  l1Count,   \* the L1 task counter
  l2Count,   \* the L2 task counter
  warmup,    \* warmup[c]: the producer's num_l1_warmup_waves
  gate,      \* gate[c]: the L2 task whose gate the producer spins on, or None
  mail,      \* mail[c]: the tasks published so far, oldest first
  released,  \* released[c]: mailbox slots the math warps have released
  bAt,       \* bAt[c]: next K stage the B loader fills: [task, stage]
  aAt,       \* aAt[c]: the same for the A loader
  mathAt,    \* mathAt[c]: next K stage the math warps consume
  bFilled,   \* bFilled[c]: stages B has filled and math not yet consumed
  aFilled,   \* aFilled[c]: the same for A
  ready,     \* ready[b]: L1 N blocks of M block b in its readiness mask
  flag       \* flag[t]: arrivals at the K-split flag of a full task

roleVars == <<released, bAt, aAt, mathAt, bFilled, aFilled, ready, flag>>
claimVars == <<l1Count, l2Count, warmup, gate, mail>>
vars == <<claimVars, roleVars>>

\* get_split_k_num_stages: the last splits take the extra stages.
SplitStages(total, task) ==
  (total \div task.of) +
    (IF task.split + (total % task.of) >= task.of THEN 1 ELSE 0)
KStages(task) ==
  SplitStages(IF task.phase = 1 THEN L1KStages ELSE L2KStages, task)
\* get_split_k_block_begin, in stages.
FirstStage(task) ==
  LET total == IF task.phase = 1 THEN L1KStages ELSE L2KStages
      long  == task.split + (total % task.of) - task.of
  IN  task.split * (total \div task.of) + (IF long > 0 THEN long ELSE 0)

\* The L1 N blocks that feed K stage s of an L2 task (`need`).
Need(task, s) ==
  LET firstKb == (FirstStage(task) + s) * KBlocksPerStage
      lastKb  == firstKb + KBlocksPerStage - 1
  IN  (firstKb \div L2KPerL1Block) * L1PerL2KBlock ..
      (lastKb \div L2KPerL1Block) * L1PerL2KBlock + L1PerL2KBlock - 1

FlagSlots == {1} \X (L1SplitBase .. L1Tasks - 1) \cup
             {2} \X (L2SplitBase .. L2Tasks - 1)
Slot(task) == <<task.phase, task.full>>

Begin == [task |-> 1, stage |-> 0]

Init ==
  /\ l1Count = 0
  /\ l2Count = 0
  /\ warmup = [c \in SMs |-> WarmupWaves]
  /\ gate = [c \in SMs |-> None]
  /\ mail = [c \in SMs |-> <<>>]
  /\ released = [c \in SMs |-> 0]
  /\ bAt = [c \in SMs |-> Begin]
  /\ aAt = [c \in SMs |-> Begin]
  /\ mathAt = [c \in SMs |-> Begin]
  /\ bFilled = [c \in SMs |-> 0]
  /\ aFilled = [c \in SMs |-> 0]
  /\ ready = [b \in MBlocks |-> {}]
  /\ flag = [s \in FlagSlots |-> 0]

-----------------------------------------------------------------------------
\* The task a cursor points at has been published and is not the sentinel.
HasTask(c, at) ==
  at.task <= Len(mail[c]) /\ mail[c][at.task] # None

Advance(c, at) ==
  IF at.stage + 1 < KStages(mail[c][at.task])
    THEN [at EXCEPT !.stage = @ + 1]
    ELSE [task |-> at.task + 1, stage |-> 0]

Stopped(c) == Len(mail[c]) > 0 /\ mail[c][Len(mail[c])] = None

\* Fault: the producer does not wait for a free mailbox slot.
CanClaim_NoSlotWait(c) ==
  /\ ~Stopped(c)
  /\ gate[c] = None
  /\ bAt[c].task = Len(mail[c]) + 1

\* wait_task_slot_empty: the producer has loaded everything it published and
\* the slot of the task before the previous one has been released.
CanClaim(c) ==
  /\ ~Stopped(c)
  /\ gate[c] = None
  /\ bAt[c].task = Len(mail[c]) + 1
  /\ Len(mail[c]) - released[c] < NumScheduleStages

Publish(c, task) == mail' = [mail EXCEPT ![c] = Append(@, task)]

\* An L1 claim: in the warm-up, and once after every L2 claim, until the L1
\* indices run out.
ClaimL1(c) ==
  /\ CanClaim(c)
  /\ warmup[c] > 0
  /\ l1Count' = l1Count + 1
  /\ IF l1Count < L1Indices
       THEN /\ warmup' = [warmup EXCEPT ![c] = @ - 1]
            /\ Publish(c, L1TaskOf(l1Count))
       ELSE /\ warmup' = [warmup EXCEPT ![c] = WavesDone]
            /\ UNCHANGED mail
  /\ UNCHANGED <<l2Count, gate, roleVars>>

\* An L2 claim; past the last index the producer publishes the sentinel.
ClaimL2(c) ==
  /\ CanClaim(c)
  /\ warmup[c] <= 0
  /\ l2Count' = l2Count + 1
  /\ IF l2Count < L2Indices
       THEN /\ warmup' = [warmup EXCEPT ![c] = IF @ = WavesDone THEN @ ELSE 1]
            /\ gate' = [gate EXCEPT ![c] = L2TaskOf(l2Count)]
            /\ UNCHANGED mail
       ELSE /\ Publish(c, None)
            /\ UNCHANGED <<warmup, gate>>
  /\ UNCHANGED <<l1Count, roleVars>>

\* The producer holds an L2 task back until every L1 task of its M block has
\* been claimed by somebody.
GateOpen_Always(task) == TRUE
GateOpen(task) == l1Count >= Required(task)

PassGate(c) ==
  /\ gate[c] # None
  /\ GateOpen(gate[c])
  /\ Publish(c, gate[c])
  /\ gate' = [gate EXCEPT ![c] = None]
  /\ UNCHANGED <<l1Count, l2Count, warmup, roleVars>>

\* B loader: the next K stage of weights, when a ring slot is free.
LoadB(c) ==
  /\ HasTask(c, bAt[c])
  /\ bFilled[c] < NumStages
  /\ bFilled' = [bFilled EXCEPT ![c] = @ + 1]
  /\ bAt' = [bAt EXCEPT ![c] = Advance(c, @)]
  /\ UNCHANGED <<claimVars, released, aAt, mathAt, aFilled, ready, flag>>

\* A loader: an L2 stage waits for the L1 N blocks that produce its K range.
LoadA(c) ==
  /\ HasTask(c, aAt[c])
  /\ aFilled[c] < NumStages
  /\ LET task == mail[c][aAt[c].task]
     IN  task.phase = 2 => Need(task, aAt[c].stage) \subseteq ready[BlockOf(task)]
  /\ aFilled' = [aFilled EXCEPT ![c] = @ + 1]
  /\ aAt' = [aAt EXCEPT ![c] = Advance(c, @)]
  /\ UNCHANGED <<claimVars, released, bAt, mathAt, bFilled, ready, flag>>

\* All K stages of the task under mathAt have been consumed.
InEpilogue(c) ==
  /\ HasTask(c, mathAt[c])
  /\ mathAt[c].stage = KStages(mail[c][mathAt[c].task])

\* Math warps: consume a stage.  At the first stage of a task they give its
\* mailbox slot back (release_task_info).
Consume(c) ==
  /\ HasTask(c, mathAt[c])
  /\ ~InEpilogue(c)
  /\ aFilled[c] > 0
  /\ bFilled[c] > 0
  /\ aFilled' = [aFilled EXCEPT ![c] = @ - 1]
  /\ bFilled' = [bFilled EXCEPT ![c] = @ - 1]
  /\ released' = [released EXCEPT ![c] = IF mathAt[c].stage = 0 THEN @ + 1 ELSE @]
  /\ mathAt' = [mathAt EXCEPT ![c].stage = @ + 1]
  /\ UNCHANGED <<claimVars, bAt, aAt, ready, flag>>

NextTask(c) == mathAt' = [mathAt EXCEPT ![c] = [task |-> @.task + 1, stage |-> 0]]

\* A K split other than the last stores its partial sums and counts itself
\* in on the flag; it runs no epilogue.
PublishPartial(c) ==
  /\ InEpilogue(c)
  /\ LET task == mail[c][mathAt[c].task]
     IN  /\ task.split + 1 < task.of
         /\ flag' = [flag EXCEPT ![Slot(task)] = @ + 1]
  /\ NextTask(c)
  /\ UNCHANGED <<claimVars, released, bAt, aAt, bFilled, aFilled, ready>>

\* Fault: the finisher leaves the flag as it found it.
Finish_NoReset(c) ==
  /\ InEpilogue(c)
  /\ LET task == mail[c][mathAt[c].task]
     IN  /\ task.split + 1 = task.of
         /\ task.of > 1 => flag[Slot(task)] = task.of - 1
         /\ IF task.phase = 1
              THEN ready' = [ready EXCEPT ![BlockOf(task)] = @ \cup {NBlockOf(task)}]
              ELSE UNCHANGED ready
  /\ NextTask(c)
  /\ UNCHANGED <<claimVars, released, bAt, aAt, bFilled, aFilled, flag>>
\* Fault: the finisher does not wait for the other splits.
Finish_NoWait(c) ==
  /\ InEpilogue(c)
  /\ LET task == mail[c][mathAt[c].task]
     IN  /\ task.split + 1 = task.of
         /\ IF task.of = 1 THEN UNCHANGED flag
            ELSE flag' = [flag EXCEPT ![Slot(task)] = 0]
         /\ IF task.phase = 1
              THEN ready' = [ready EXCEPT ![BlockOf(task)] = @ \cup {NBlockOf(task)}]
              ELSE UNCHANGED ready
  /\ NextTask(c)
  /\ UNCHANGED <<claimVars, released, bAt, aAt, bFilled, aFilled>>

\* The last split (or an unsplit task) waits for the others, resets the flag
\* and runs the epilogue; an L1 task then announces its N block.
Finish(c) ==
  /\ InEpilogue(c)
  /\ LET task == mail[c][mathAt[c].task]
     IN  /\ task.split + 1 = task.of
         /\ IF task.of = 1 THEN UNCHANGED flag
            ELSE /\ flag[Slot(task)] = task.of - 1
                 /\ flag' = [flag EXCEPT ![Slot(task)] = 0]
         /\ IF task.phase = 1
              THEN ready' = [ready EXCEPT ![BlockOf(task)] = @ \cup {NBlockOf(task)}]
              ELSE UNCHANGED ready
  /\ NextTask(c)
  /\ UNCHANGED <<claimVars, released, bAt, aAt, bFilled, aFilled>>

Exited(c) == Stopped(c) /\ mathAt[c].task = Len(mail[c])

Finished == (\A c \in SMs : Exited(c)) /\ UNCHANGED vars

ProducerStep(c) == ClaimL1(c) \/ ClaimL2(c) \/ PassGate(c) \/ LoadB(c)
MathStep(c) == Consume(c) \/ PublishPartial(c) \/ Finish(c)

Next == \/ \E c \in SMs : ProducerStep(c) \/ LoadA(c) \/ MathStep(c)
        \/ Finished

Spec == Init /\ [][Next]_vars

\* Each warp role of a resident CTA keeps being scheduled.
FairSpec == Spec /\ \A c \in SMs : /\ WF_vars(ProducerStep(c))
                                   /\ WF_vars(LoadA(c))
                                   /\ WF_vars(MathStep(c))
-----------------------------------------------------------------------------
\* The places a task has been handed to: a mailbox position or a gate.
Holders(task) ==
  { p \in SMs \X (1 .. L1Indices + L2Indices + 1) :
      p[2] <= Len(mail[p[1]]) /\ mail[p[1]][p[2]] = task }
  \cup { <<c, 0>> : c \in {d \in SMs : gate[d] = task} }

\* No task is given out twice, and when all producers have stopped none was
\* forgotten: the split tail, the counters and the sentinel agree.
EveryTaskOnce ==
  \A task \in AllTasks :
    /\ Cardinality(Holders(task)) <= 1
    /\ (\A c \in SMs : Stopped(c)) => Cardinality(Holders(task)) = 1

\* The dependency order that rules out a cycle of CTAs waiting for each
\* other: an L1 task queued behind an L2 task belongs to a later M block, so
\* nothing the L2 task (or an earlier one) reads is stuck behind it.
NoL1BehindItsReader ==
  \A c \in SMs : \A i, j \in 1 .. Len(mail[c]) :
    (i < j /\ mail[c][i].phase = 2 /\ mail[c][j].phase = 1)
      => BlockOf(mail[c][j]) > BlockOf(mail[c][i])

\* A slot of the task mailbox is overwritten only after the A loader has
\* read the payload in it: the math warps, which give the slot back, cannot
\* have started on a task the A loader has not.
PayloadRead ==
  \A c \in SMs : Len(mail[c]) > NumScheduleStages =>
    LET overwritten == Len(mail[c]) - NumScheduleStages
    IN  \/ aAt[c].task > overwritten
        \/ aAt[c].task = overwritten /\ aAt[c].stage > 0

\* Once a bit of the readiness mask is set, all K splits of that L1 task are
\* summed: none is still queued or running anywhere.
MaskMeansComplete ==
  \A c \in SMs : \A i \in 1 .. Len(mail[c]) :
    (mail[c][i].phase = 1 /\ NBlockOf(mail[c][i]) \in ready[BlockOf(mail[c][i])])
      => mathAt[c].task > i

\* The launch leaves every K-split flag at zero for the next one.
FlagsReset == (\A c \in SMs : Exited(c)) => \A s \in FlagSlots : flag[s] = 0

\* Every launch ends: no cycle between the gates, the mailboxes, the L1
\* readiness waits and the K-split waits.
LaunchEnds == <>(\A c \in SMs : Exited(c))
=============================================================================
