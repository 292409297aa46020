------------------------------- MODULE StreamK -------------------------------
(***************************************************************************)
(* A launch in stream-K mode on one GPU: how the producers claim unit      *)
(* ranges and publish them segment by segment, and how the math warps of   *)
(* several CTAs put a tile together.                                       *)
(*                                                                         *)
(* Every contributor of a tile writes its partial sums to a scratch slot   *)
(* of its worker, then draws a ticket on the tile's counter; the one that  *)
(* draws the last ticket resets the counter, sums all slots and runs the   *)
(* epilogue.  Nobody waits for another contributor.  As in                 *)
(* InterleavedScheduler.tla a two-slot mailbox lies between producer and   *)
(* math warps and an L2 segment waits for the L1 N blocks it reads; here   *)
(* the GEMM of a segment, its waits included, is one step.                 *)
(*                                                                         *)
(* Stream-K cuts the (task, K unit) pairs of a phase, numbered task by     *)
(* task, into one contiguous range per worker.  Every warp must agree on   *)
(* who contributes to a tile, in which order, and where the partial sums   *)
(* are: get_streamk_range, its inverse get_streamk_worker_of_unit,         *)
(* make_streamk_segment and the slot rule of the reduction.                *)
(***************************************************************************)
EXTENDS Integers, Sequences, FiniteSets

CONSTANTS NumSMs,            \* kNumSMs: workers of a phase
          NumMBlocks,        \* num_total_m_blocks
          NumL1BlockNs,      \* kNumL1BlockNs
          NumL2BlockNs,      \* kNumL2BlockNs
          L1Units,           \* kNumL1StreamKUnitsPerTask
          L2Units,           \* kNumL2StreamKUnitsPerTask
          KBlocksPerStage,   \* kKBlocksPerStage: K blocks of a unit
          L1PerL2KBlock,     \* kNumL1BlocksPerL2KBlock
          L2KPerL1Block,     \* kNumL2KBlocksPerL1Block
          Lookahead          \* unreleased tasks the producer may have published:
                             \* both mailbox slots, or 1 when the weights of a
                             \* segment do not fit the stage ring

ASSUME PartitionAssumption == NumSMs \in Nat \ {0}

Workers == 0 .. NumSMs - 1
SMs == Workers
MBlocks == 0 .. NumMBlocks - 1
NumScheduleStages == 2
None == [phase |-> 0]     \* the sentinel task

Phases == {1, 2}
BlockNs(phase) == IF phase = 1 THEN NumL1BlockNs ELSE NumL2BlockNs
PerTask(phase) == IF phase = 1 THEN L1Units ELSE L2Units
NumTasks(phase) == NumMBlocks * BlockNs(phase)
\* sk_num_l1_units, sk_num_l2_units
Units(phase) == NumTasks(phase) * PerTask(phase)

ASSUME StreamKAssumption ==
  /\ NumMBlocks \in Nat \ {0}
  /\ NumL1BlockNs \in Nat \ {0} /\ NumL2BlockNs \in Nat \ {0}
  /\ L1Units \in Nat \ {0} /\ L2Units \in Nat \ {0}
  /\ KBlocksPerStage \in Nat \ {0}
  /\ Lookahead \in 1 .. NumScheduleStages
  /\ L1PerL2KBlock \in Nat \ {0} /\ L2KPerL1Block \in Nat \ {0}
  \* streamk_active: the L1 tasks leave CTAs idle
  /\ NumMBlocks * NumL1BlockNs < NumSMs
  \* the L1 N blocks of an M block are the K extent of its L2 tasks
  /\ L2Units * KBlocksPerStage * L1PerL2KBlock = NumL1BlockNs * L2KPerL1Block

-----------------------------------------------------------------------------
Base(units) == units \div NumSMs
Rem(units) == units % NumSMs
Lesser(a, b) == IF a <= b THEN a ELSE b

\* Fault: the workers after the long ones start too early.
RangeBegin_NoRem(units, w) == w * Base(units)
\* get_streamk_range: the first Rem workers own one unit more.
RangeBegin(units, w) == w * Base(units) + Lesser(w, Rem(units))
RangeEnd(units, w) ==
  RangeBegin(units, w) + Base(units) + (IF w < Rem(units) THEN 1 ELSE 0)

\* get_streamk_worker_of_unit
WorkerOf(units, u) ==
  LET long == Rem(units) * (Base(units) + 1)
  IN  IF u < long THEN u \div (Base(units) + 1)
                  ELSE Rem(units) + (u - long) \div Base(units)

\* make_streamk_segment: the part of worker w's range, from unit u on, that
\* lies in the task of u.  Contributors of the task are numbered from `first`.
Segment(phase, units, perTask, w, u, end) ==
  LET task  == u \div perTask
      from  == u % perTask
      first == WorkerOf(units, task * perTask)
      last  == WorkerOf(units, task * perTask + perTask - 1)
  IN  [phase |-> phase, task |-> task, from |-> from,
       to |-> Lesser(perTask, from + (end - u)),
       first |-> first, split |-> w - first, of |-> last - first + 1]

\* Fault: a worker has one slot.
SlotOf_One(first, c) == <<first + c, 0>>
\* The scratch slot of contributor c of a tile: a worker that starts the tile
\* uses its slot 0, one that starts in the middle of it slot 1.
SlotOf(first, c) == <<first + c, IF c = 0 THEN 0 ELSE 1>>

-----------------------------------------------------------------------------
VARIABLES
  taskCount, \* taskCount[p]: the claim counter of phase p
  state,     \* state[c]: sk_state
  worker,    \* worker[c]: sk_worker_idx
  unit,      \* unit[c]: sk_unit
  unitEnd,   \* unitEnd[c]: sk_unit_end
  mail,      \* mail[c]: published, not yet released tasks, oldest first
  math,      \* math[c]: [pc, seg]: what the math warps do
  scratch,   \* scratch[p][slot]: whose partial sums the slot holds: [task, split]
  counter,   \* counter[p][t]: contributors that have drawn a ticket
  ready,     \* ready[b]: L1 N blocks in the readiness mask of M block b
  finished   \* history: finished[p][t]: epilogues run for the task

producerVars == <<taskCount, state, worker, unit, unitEnd>>
tileVars == <<scratch, counter, ready, finished>>
vars == <<producerVars, mail, math, tileVars>>

Nothing == [task |-> -1, split |-> -1]
Slots == Workers \X {0, 1}
NoSegment == [pc |-> "get", seg |-> None]

Init ==
  /\ taskCount = [p \in Phases |-> 0]
  /\ state = [c \in SMs |-> 0]
  /\ worker = [c \in SMs |-> 0]
  /\ unit = [c \in SMs |-> 0]
  /\ unitEnd = [c \in SMs |-> 0]
  /\ mail = [c \in SMs |-> <<>>]
  /\ math = [c \in SMs |-> NoSegment]
  /\ scratch = [p \in Phases |-> [s \in Slots |-> Nothing]]
  /\ counter = [p \in Phases |-> [t \in 0 .. NumTasks(p) - 1 |-> 0]]
  /\ ready = [b \in MBlocks |-> {}]
  /\ finished = [p \in Phases |-> [t \in 0 .. NumTasks(p) - 1 |-> 0]]

-----------------------------------------------------------------------------
\* claim_next_streamk_task runs once a mailbox slot is free and the producer,
\* which also loads the weights, has loaded those of what it published.
CanProduce(c) == Len(mail[c]) < Lookahead

\* States 0 and 2: claim a worker index of the phase; past the last one the
\* producer skips the phase.
ClaimRange(c) ==
  /\ CanProduce(c)
  /\ state[c] \in {0, 2}
  /\ LET p == IF state[c] = 2 THEN 2 ELSE 1
         w == taskCount[p]
     IN  /\ taskCount' = [taskCount EXCEPT ![p] = @ + 1]
         /\ worker' = [worker EXCEPT ![c] = w]
         /\ IF w < NumSMs
              THEN /\ unit' = [unit EXCEPT ![c] = RangeBegin(Units(p), w)]
                   /\ unitEnd' = [unitEnd EXCEPT ![c] = RangeEnd(Units(p), w)]
                   /\ state' = [state EXCEPT ![c] = @ + 1]
              ELSE /\ state' = [state EXCEPT ![c] = @ + 2]
                   /\ UNCHANGED <<unit, unitEnd>>
  /\ UNCHANGED <<mail, math, tileVars>>

\* States 1 and 3: publish the next segment of the range, or end the phase.
NextSegment(c) ==
  /\ CanProduce(c)
  /\ state[c] \in {1, 3}
  /\ LET p == IF state[c] = 3 THEN 2 ELSE 1
         seg == Segment(p, Units(p), PerTask(p), worker[c], unit[c], unitEnd[c])
     IN  IF unit[c] < unitEnd[c]
           THEN /\ mail' = [mail EXCEPT ![c] = Append(@, seg)]
                /\ unit' = [unit EXCEPT ![c] = @ + (seg.to - seg.from)]
                /\ UNCHANGED state
           ELSE /\ state' = [state EXCEPT ![c] = @ + 1]
                /\ UNCHANGED <<mail, unit>>
  /\ UNCHANGED <<taskCount, worker, unitEnd, math, tileVars>>

\* State 4: the sentinel, once.
Stop(c) ==
  /\ CanProduce(c)
  /\ state[c] = 4
  /\ mail' = [mail EXCEPT ![c] = Append(@, None)]
  /\ state' = [state EXCEPT ![c] = 5]
  /\ UNCHANGED <<taskCount, worker, unit, unitEnd, math, tileVars>>

-----------------------------------------------------------------------------
BlockOf(seg) == seg.task \div BlockNs(seg.phase)
NBlockOf(seg) == seg.task % BlockNs(seg.phase)

\* Fault: one K block too many is waited for.
Need_PastEnd(seg) ==
  LET firstKb == seg.from * KBlocksPerStage
      lastKb  == seg.to * KBlocksPerStage
  IN  (firstKb \div L2KPerL1Block) * L1PerL2KBlock ..
      (lastKb \div L2KPerL1Block) * L1PerL2KBlock + L1PerL2KBlock - 1
\* The L1 N blocks that feed the K units of an L2 segment.
Need(seg) ==
  LET firstKb == seg.from * KBlocksPerStage
      lastKb  == seg.to * KBlocksPerStage - 1
  IN  (firstKb \div L2KPerL1Block) * L1PerL2KBlock ..
      (lastKb \div L2KPerL1Block) * L1PerL2KBlock + L1PerL2KBlock - 1

\* The GEMM of the oldest published segment; its mailbox slot is released.
\* The only contributor of a tile goes straight to the epilogue.
Gemm(c) ==
  /\ math[c].pc = "get"
  /\ mail[c] # <<>> /\ Head(mail[c]) # None
  /\ LET seg == Head(mail[c])
     IN  /\ seg.phase = 2 => Need(seg) \subseteq ready[BlockOf(seg)]
         /\ math' = [math EXCEPT ![c] =
                       [pc |-> IF seg.of > 1 THEN "store" ELSE "epilogue", seg |-> seg]]
  /\ mail' = [mail EXCEPT ![c] = Tail(@)]
  /\ UNCHANGED <<producerVars, tileVars>>

StorePartial(c) ==
  /\ math[c].pc = "store"
  /\ LET seg == math[c].seg
     IN  scratch' = [scratch EXCEPT ![seg.phase][SlotOf(seg.first, seg.split)] =
                       [task |-> seg.task, split |-> seg.split]]
  /\ math' = [math EXCEPT ![c].pc = "ticket"]
  /\ UNCHANGED <<producerVars, mail, counter, ready, finished>>

\* Fault: the first contributor takes itself for the last.
TakeTicket_First(c) ==
  /\ math[c].pc = "ticket"
  /\ LET seg == math[c].seg
         ticket == counter[seg.phase][seg.task]
     IN  /\ counter' = [counter EXCEPT ![seg.phase][seg.task] = @ + 1]
         /\ math' = [math EXCEPT ![c] =
                       IF ticket = 0 THEN [@ EXCEPT !.pc = "reset"] ELSE NoSegment]
  /\ UNCHANGED <<producerVars, mail, scratch, ready, finished>>
\* Thread 0 draws the ticket; whoever does not draw the last one is done.
TakeTicket(c) ==
  /\ math[c].pc = "ticket"
  /\ LET seg == math[c].seg
         ticket == counter[seg.phase][seg.task]
     IN  /\ counter' = [counter EXCEPT ![seg.phase][seg.task] = @ + 1]
         /\ math' = [math EXCEPT ![c] =
                       IF ticket = seg.of - 1 THEN [@ EXCEPT !.pc = "reset"]
                                              ELSE NoSegment]
  /\ UNCHANGED <<producerVars, mail, scratch, ready, finished>>

ResetCounter(c) ==
  /\ math[c].pc = "reset"
  /\ LET seg == math[c].seg
     IN  counter' = [counter EXCEPT ![seg.phase][seg.task] = 0]
  /\ math' = [math EXCEPT ![c].pc = "epilogue"]
  /\ UNCHANGED <<producerVars, mail, scratch, ready, finished>>

\* The sum over the slots and the epilogue; an L1 tile is then announced.
Epilogue(c) ==
  /\ math[c].pc = "epilogue"
  /\ LET seg == math[c].seg
     IN  /\ finished' = [finished EXCEPT ![seg.phase][seg.task] = @ + 1]
         /\ IF seg.phase = 1
              THEN ready' = [ready EXCEPT ![BlockOf(seg)] = @ \cup {NBlockOf(seg)}]
              ELSE UNCHANGED ready
  /\ math' = [math EXCEPT ![c] = NoSegment]
  /\ UNCHANGED <<producerVars, mail, scratch, counter>>

Exited(c) == math[c] = NoSegment /\ mail[c] # <<>> /\ Head(mail[c]) = None

Finished == (\A c \in SMs : Exited(c)) /\ UNCHANGED vars

ProducerStep(c) == ClaimRange(c) \/ NextSegment(c) \/ Stop(c)
MathStep(c) == \/ Gemm(c)
               \/ StorePartial(c)
               \/ TakeTicket(c)
               \/ ResetCounter(c)
               \/ Epilogue(c)

Next == (\E c \in SMs : ProducerStep(c) \/ MathStep(c)) \/ Finished

Spec == Init /\ [][Next]_vars

\* Both warp roles of a resident CTA keep being scheduled.
FairSpec == Spec /\ \A c \in SMs : WF_vars(ProducerStep(c)) /\ WF_vars(MathStep(c))
-----------------------------------------------------------------------------
\* The one that sums a tile finds in every contributor's slot that
\* contributor's partial sums of this very tile: none missing, none already
\* overwritten by a later segment of the same worker.
SlotsHold ==
  \A c \in SMs : math[c].pc = "epilogue" =>
    LET seg == math[c].seg
    IN  \A k \in 0 .. seg.of - 1 : k # seg.split =>
          scratch[seg.phase][SlotOf(seg.first, k)] = [task |-> seg.task, split |-> k]

\* The segments handed out so far.
Handed == { seg \in { math[c].seg : c \in SMs } \cup
                    UNION { { mail[c][i] : i \in 1 .. Len(mail[c]) } : c \in SMs } :
            seg # None }

\* Segments of one tile in flight at the same time agree on its contributors
\* and cover disjoint units of it.
SegmentsAgree ==
  \A a, b \in Handed : (a # b /\ a.phase = b.phase /\ a.task = b.task) =>
    /\ a.first = b.first /\ a.of = b.of
    /\ a.split # b.split
    /\ a.split < b.split => a.to <= b.from

\* Shared tiles in flight never use one scratch slot: a worker starts at most
\* one tile that it does not complete (slot 0) and continues at most one that
\* another worker started (slot 1), so two slots per worker are enough.
SlotsApart ==
  \A a, b \in Handed :
    (/\ a.phase = b.phase /\ a.of > 1 /\ b.of > 1
     /\ SlotOf(a.first, a.split) = SlotOf(b.first, b.split))
      => a.task = b.task /\ a.split = b.split

\* At the end every tile of both phases has been finished exactly once and
\* every counter is back at zero.
TilesOnce ==
  (\A c \in SMs : Exited(c)) =>
    \A p \in Phases : \A t \in 0 .. NumTasks(p) - 1 :
      finished[p][t] = 1 /\ counter[p][t] = 0

\* Every launch ends: the readiness waits of L2 segments never close a cycle.
LaunchEnds == <>(\A c \in SMs : Exited(c))
=============================================================================
