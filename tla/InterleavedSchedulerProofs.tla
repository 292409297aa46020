--------------------- MODULE InterleavedSchedulerProofs ---------------------
(***************************************************************************)
(* Proofs about the dynamic task scheduler, for any number of CTAs, M and  *)
(* N blocks, K splits and pipeline stages.  In this order:                 *)
(*   the order in which the producers hand out dependent tasks;            *)
(*   every task is handed out once: the claim counters number the tasks,   *)
(*     and what was claimed stands in one mailbox or at one gate;          *)
(*   the K-split flags count the splits that are through, so that a bit of *)
(*     a readiness mask means a complete sum and no flag is left set;      *)
(*   the A loader has read a task before its mailbox slot is reused.       *)
(***************************************************************************)
EXTENDS InterleavedScheduler, FiniteSetTheorems, TLAPS

Task == [phase : {0, 1, 2}, full : Int, split : Int, of : Int]

\* What the order rests on: every L2 task in a mailbox has passed its gate,
\* so the L1 counter is past all L1 tasks of its M block.
PastGate == \A c \in SMs : \A i \in 1 .. Len(mail[c]) :
              mail[c][i].phase = 2 => l1Count >= Required(mail[c][i])

Inv == /\ l1Count \in Int
       /\ l2Count \in Int
       /\ mail \in [SMs -> Seq(Task)]
       /\ gate \in [SMs -> Task]
       /\ \A c \in SMs : gate[c] # None => gate[c].phase = 2
       /\ PastGate
       /\ NoL1BehindItsReader

-----------------------------------------------------------------------------
\* Whole multiples of a divisor survive the division.
LEMMA DivAtLeast ==
  ASSUME NEW d \in Nat \ {0}, NEW a \in Int, NEW k \in Int, a >= k * d
  PROVE  a \div d \in Int /\ a \div d >= k
<1> DEFINE q == a \div d
           m == a % d
<1>1. q \in Int /\ m \in Int /\ a = d * q + m /\ m < d
  OBVIOUS
<1>2. SUFFICES ASSUME q < k PROVE FALSE
  BY <1>1
<1> HIDE DEF q, m
<1>3. q + 1 <= k
  BY <1>1, <1>2
<1>4. PICK e \in Nat : k = q + 1 + e
  <2>1. k - (q + 1) \in Nat
    BY <1>1, <1>3
  <2> QED
    BY <2>1, <1>1
<1>5. k * d = q * d + d + e * d
  BY <1>1, <1>4
<1>6. e * d \in Nat
  BY <1>4
<1>7. q * d = d * q /\ d * q \in Int
  BY <1>1
<1> QED
  BY <1>1, <1>5, <1>6, <1>7

LEMMA SplitType == L1Splits \in Nat \ {0} /\ L1SplitBase \in Int
<1>1. L1Splits \in Nat \ {0}
  BY TaskCountsAssumption DEF L1Splits, Splits
<1>2. L1Tasks \in Int
  BY TaskCountsAssumption DEF L1Tasks
<1>3. L1Tail \in Int
  BY <1>2, TaskCountsAssumption DEF L1Tail
<1> QED
  BY <1>1, <1>2, <1>3 DEF L1SplitBase

LEMMA L2SplitType == L2Splits \in Nat \ {0} /\ L2SplitBase \in Int
<1>1. L2Splits \in Nat \ {0}
  BY TaskCountsAssumption DEF L2Splits, Splits
<1>2. L1Tasks \in Int /\ L2Tasks \in Int
  BY TaskCountsAssumption DEF L1Tasks, L2Tasks
<1>3. L1Indices \in Int
  BY <1>2, SplitType DEF L1Indices
<1>4. L1LastWave \in Int
  BY <1>3, TaskCountsAssumption DEF L1LastWave
<1>5. L2FirstBatch \in Int
  BY <1>4, TaskCountsAssumption DEF L2FirstBatch
<1>6. L2Tail \in Int
  BY <1>2, <1>5, TaskCountsAssumption DEF L2Tail
<1> QED
  BY <1>1, <1>2, <1>6 DEF L2SplitBase

\* The index map is a Galois connection: an index at or past the indices of
\* the first n full tasks stands for full task n or a later one.
LEMMA L1TaskPast ==
  ASSUME NEW n \in Int, NEW x \in Int, x >= L1IndicesFor(n)
  PROVE  L1TaskOf(x) \in Task /\ L1TaskOf(x).phase = 1 /\ L1TaskOf(x).full >= n
<1> USE SplitType
<1> DEFINE y == x - L1SplitBase
<1>1. y \in Int /\ y \div L1Splits \in Int /\ y % L1Splits \in Int
  OBVIOUS
<1>2. L1TaskOf(x) \in Task /\ L1TaskOf(x).phase = 1
  BY <1>1 DEF L1TaskOf, Task
<1>3. CASE x < L1SplitBase
  <2>1. n <= L1SplitBase
    <3>1. SUFFICES ASSUME n > L1SplitBase PROVE FALSE
      OBVIOUS
    <3>2. n - L1SplitBase \in Nat
      BY <3>1
    <3>3. (n - L1SplitBase) * L1Splits \in Nat
      BY <3>2
    <3> QED
      BY <3>1, <3>3, <1>3 DEF L1IndicesFor
  <2> QED
    BY <2>1, <1>2, <1>3 DEF L1IndicesFor, L1TaskOf
<1>4. CASE x >= L1SplitBase
  <2>1. L1TaskOf(x).full = L1SplitBase + y \div L1Splits
    BY <1>1, <1>4 DEF L1TaskOf
  <2>2. CASE n <= L1SplitBase
    <3>1. y \div L1Splits >= 0
      BY <1>1, <1>4, DivAtLeast
    <3> QED
      BY <1>1, <1>2, <2>1, <2>2, <3>1
  <2>3. CASE n > L1SplitBase
    <3>1. y >= (n - L1SplitBase) * L1Splits
      BY <2>3 DEF L1IndicesFor
    <3>2. y \div L1Splits >= n - L1SplitBase
      BY <1>1, <3>1, DivAtLeast
    <3> QED
      BY <1>1, <1>2, <2>1, <3>2
  <2> QED
    BY <2>2, <2>3
<1> QED
  BY <1>3, <1>4

\* An L1 task claimed when the gate of an L2 task is open belongs to a later
\* M block than that L2 task.
LEMMA LaterBlock ==
  ASSUME NEW reader \in Task, reader.phase = 2,
         NEW x \in Int, x >= Required(reader)
  PROVE  BlockOf(L1TaskOf(x)) > BlockOf(reader)
<1> DEFINE b == BlockOf(reader)
<1>1. b \in Int
  BY TaskCountsAssumption DEF BlockOf, Task
<1>2. (b + 1) * NumL1BlockNs \in Int
  BY <1>1, TaskCountsAssumption
<1>3. /\ L1TaskOf(x) \in Task
      /\ L1TaskOf(x).phase = 1
      /\ L1TaskOf(x).full >= (b + 1) * NumL1BlockNs
  BY <1>2, L1TaskPast DEF Required
<1>4. BlockOf(L1TaskOf(x)) = L1TaskOf(x).full \div NumL1BlockNs
  BY <1>3 DEF BlockOf
<1>5. L1TaskOf(x).full \in Int
  BY <1>3 DEF Task
<1>6. L1TaskOf(x).full \div NumL1BlockNs >= b + 1
  BY <1>1, <1>3, <1>5, DivAtLeast, TaskCountsAssumption
<1>7. L1TaskOf(x).full \div NumL1BlockNs \in Int
  BY <1>5, TaskCountsAssumption
<1> QED
  BY <1>1, <1>4, <1>6, <1>7

\* A mailbox grows only at its end.
LEMMA AppendFacts ==
  ASSUME NEW m \in Seq(Task), NEW t \in Task
  PROVE  /\ Append(m, t) \in Seq(Task)
         /\ Len(m) \in Nat
         /\ Len(Append(m, t)) = Len(m) + 1
         /\ \A i \in 1 .. Len(m) : Append(m, t)[i] = m[i] /\ m[i] \in Task
         /\ Append(m, t)[Len(m) + 1] = t
  OBVIOUS

LEMMA RequiredType == ASSUME NEW t \in Task PROVE Required(t) \in Int
<1>1. BlockOf(t) \in Int
  BY TaskCountsAssumption DEF BlockOf, Task
<1>2. (BlockOf(t) + 1) * NumL1BlockNs \in Int
  BY <1>1, TaskCountsAssumption
<1> QED
  BY <1>2, SplitType DEF Required, L1IndicesFor

\* Publishing a task that is not an L1 task: an L2 task past its gate, or
\* the sentinel.
LEMMA PublishReader ==
  ASSUME Inv, NEW c \in SMs, NEW t \in Task, t.phase # 1,
         t.phase = 2 => l1Count >= Required(t),
         Publish(c, t), l1Count' = l1Count
  PROVE  mail' \in [SMs -> Seq(Task)] /\ PastGate' /\ NoL1BehindItsReader'
<1> USE DEF Inv, Publish
<1>1. /\ mail'[c] = Append(mail[c], t)
      /\ \A d \in SMs : d # c => mail'[d] = mail[d]
  OBVIOUS
<1>2. mail' \in [SMs -> Seq(Task)]
  BY AppendFacts
<1>3. ASSUME NEW d \in SMs, NEW i \in 1 .. Len(mail'[d])
      PROVE  \/ i \in 1 .. Len(mail[d]) /\ mail'[d][i] = mail[d][i]
             \/ d = c /\ i = Len(mail[d]) + 1 /\ mail'[d][i] = t
  BY <1>1, AppendFacts
<1>4. PastGate'
  <2>1. SUFFICES ASSUME NEW d \in SMs, NEW i \in 1 .. Len(mail'[d]),
                        mail'[d][i].phase = 2
                 PROVE  l1Count >= Required(mail'[d][i])
    BY DEF PastGate, Required, BlockOf
  <2> QED
    BY <1>3, <2>1 DEF PastGate
<1>5. NoL1BehindItsReader'
  <2>1. SUFFICES ASSUME NEW d \in SMs, NEW i \in 1 .. Len(mail'[d]),
                        NEW j \in 1 .. Len(mail'[d]), i < j,
                        mail'[d][i].phase = 2, mail'[d][j].phase = 1
                 PROVE  BlockOf(mail'[d][j]) > BlockOf(mail'[d][i])
    BY DEF NoL1BehindItsReader, BlockOf
  <2>2. j \in 1 .. Len(mail[d]) /\ mail'[d][j] = mail[d][j]
    BY <1>3, <2>1
  <2>3. i \in 1 .. Len(mail[d]) /\ mail'[d][i] = mail[d][i]
    BY <1>2, <1>3, <2>1, <2>2
  <2> QED
    BY <2>1, <2>2, <2>3 DEF NoL1BehindItsReader
<1> QED
  BY <1>2, <1>4, <1>5

\* Claiming an L1 task and publishing it.
LEMMA PublishWriter ==
  ASSUME Inv, NEW c \in SMs, l1Count' = l1Count + 1,
         mail' = [mail EXCEPT ![c] = Append(@, L1TaskOf(l1Count))]
  PROVE  mail' \in [SMs -> Seq(Task)] /\ PastGate' /\ NoL1BehindItsReader'
<1> USE DEF Inv
<1> DEFINE t == L1TaskOf(l1Count)
<1>0. t \in Task /\ t.phase = 1
  BY SplitType DEF L1TaskOf, Task
<1> HIDE DEF t
<1>1. /\ mail'[c] = Append(mail[c], t)
      /\ \A d \in SMs : d # c => mail'[d] = mail[d]
  BY DEF t
<1>2. mail' \in [SMs -> Seq(Task)]
  BY <1>0, AppendFacts DEF t
<1>3. ASSUME NEW d \in SMs, NEW i \in 1 .. Len(mail'[d])
      PROVE  \/ /\ i \in 1 .. Len(mail[d])
                /\ mail'[d][i] = mail[d][i]
                /\ mail[d][i] \in Task
             \/ d = c /\ i = Len(mail[d]) + 1 /\ mail'[d][i] = t
  BY <1>0, <1>1, AppendFacts
<1>4. PastGate'
  <2>1. SUFFICES ASSUME NEW d \in SMs, NEW i \in 1 .. Len(mail'[d]),
                        mail'[d][i].phase = 2
                 PROVE  l1Count + 1 >= Required(mail'[d][i])
    BY DEF PastGate, Required, BlockOf
  <2>2. i \in 1 .. Len(mail[d]) /\ mail'[d][i] = mail[d][i] /\ mail[d][i] \in Task
    BY <1>0, <1>3, <2>1
  <2>3. l1Count >= Required(mail[d][i]) /\ Required(mail[d][i]) \in Int
    BY <2>1, <2>2, RequiredType DEF PastGate
  <2> QED
    BY <2>2, <2>3
<1>5. NoL1BehindItsReader'
  <2>1. SUFFICES ASSUME NEW d \in SMs, NEW i \in 1 .. Len(mail'[d]),
                        NEW j \in 1 .. Len(mail'[d]), i < j,
                        mail'[d][i].phase = 2, mail'[d][j].phase = 1
                 PROVE  BlockOf(mail'[d][j]) > BlockOf(mail'[d][i])
    BY DEF NoL1BehindItsReader, BlockOf
  <2>2. i \in 1 .. Len(mail[d]) /\ mail'[d][i] = mail[d][i] /\ mail[d][i] \in Task
    BY <1>0, <1>3, <2>1
  <2>3. CASE j \in 1 .. Len(mail[d]) /\ mail'[d][j] = mail[d][j]
    BY <2>1, <2>2, <2>3 DEF NoL1BehindItsReader
  <2>4. CASE mail'[d][j] = t
    <3>1. l1Count >= Required(mail[d][i])
      BY <2>1, <2>2 DEF PastGate
    <3> QED
      BY <2>1, <2>2, <2>4, <3>1, LaterBlock DEF t
  <2> QED
    BY <1>3, <2>3, <2>4
<1> QED
  BY <1>2, <1>4, <1>5

-----------------------------------------------------------------------------
LEMMA InitInv == Init => Inv
<1> SUFFICES ASSUME Init PROVE Inv
  OBVIOUS
<1>1. None \in Task
  BY DEF None, Task
<1>2. mail \in [SMs -> Seq(Task)] /\ \A c \in SMs : Len(mail[c]) = 0
  BY DEF Init
<1>3. PastGate /\ NoL1BehindItsReader
  BY <1>2 DEF PastGate, NoL1BehindItsReader
<1> QED
  BY <1>1, <1>2, <1>3 DEF Init, Inv

\* Steps that leave the counters, the gates and the mailboxes alone.
LEMMA Unmoved ==
  ASSUME Inv, UNCHANGED <<l1Count, l2Count, gate, mail>>
  PROVE  Inv'
  BY DEF Inv, PastGate, NoL1BehindItsReader, Required, BlockOf

\* The strengthened invariant is inductive.
LEMMA StepInv == Inv /\ [Next]_vars => Inv'
<1> SUFFICES ASSUME Inv, [Next]_vars PROVE Inv'
  OBVIOUS
<1> USE DEF Inv
<1>1. ASSUME NEW c \in SMs, ClaimL1(c) PROVE Inv'
  <2>1. l1Count' = l1Count + 1 /\ l2Count' = l2Count /\ gate' = gate
    BY <1>1 DEF ClaimL1
  <2>2. CASE l1Count < L1Indices
    <3>1. mail' = [mail EXCEPT ![c] = Append(@, L1TaskOf(l1Count))]
      BY <1>1, <2>2 DEF ClaimL1, Publish
    <3>2. mail' \in [SMs -> Seq(Task)] /\ PastGate' /\ NoL1BehindItsReader'
      BY <2>1, <3>1, PublishWriter
    <3> QED
      BY <2>1, <3>2
  <2>3. CASE ~(l1Count < L1Indices)
    <3>1. mail' = mail
      BY <1>1, <2>3 DEF ClaimL1
    <3>2. NoL1BehindItsReader'
      BY <3>1 DEF NoL1BehindItsReader, BlockOf
    <3>3. PastGate'
      <4>1. SUFFICES ASSUME NEW d \in SMs, NEW i \in 1 .. Len(mail[d]),
                            mail[d][i].phase = 2
                     PROVE  l1Count + 1 >= Required(mail[d][i])
        BY <2>1, <3>1 DEF PastGate, Required, BlockOf
      <4>2. mail[d][i] \in Task
        OBVIOUS
      <4> QED
        BY <4>1, <4>2, RequiredType DEF PastGate
    <3> QED
      BY <2>1, <3>1, <3>2, <3>3
  <2> QED
    BY <2>2, <2>3
<1>2. ASSUME NEW c \in SMs, ClaimL2(c) PROVE Inv'
  <2>1. l1Count' = l1Count /\ l2Count' = l2Count + 1
    BY <1>2 DEF ClaimL2
  <2>2. CASE l2Count < L2Indices
    <3>1. mail' = mail /\ gate' = [gate EXCEPT ![c] = L2TaskOf(l2Count)]
      BY <1>2, <2>2 DEF ClaimL2
    <3>2. L2TaskOf(l2Count) \in Task /\ L2TaskOf(l2Count).phase = 2
      BY L2SplitType DEF L2TaskOf, Task
    <3>3. PastGate' /\ NoL1BehindItsReader'
      BY <2>1, <3>1 DEF PastGate, NoL1BehindItsReader, Required, BlockOf
    <3> QED
      BY <2>1, <3>1, <3>2, <3>3
  <2>3. CASE ~(l2Count < L2Indices)
    <3>1. Publish(c, None) /\ gate' = gate
      BY <1>2, <2>3 DEF ClaimL2
    <3>2. None \in Task /\ None.phase = 0
      BY DEF None, Task
    <3>3. mail' \in [SMs -> Seq(Task)] /\ PastGate' /\ NoL1BehindItsReader'
      BY <2>1, <3>1, <3>2, PublishReader
    <3> QED
      BY <2>1, <3>1, <3>3
  <2> QED
    BY <2>2, <2>3
<1>3. ASSUME NEW c \in SMs, PassGate(c) PROVE Inv'
  <2>1. /\ l1Count' = l1Count /\ l2Count' = l2Count
        /\ gate[c] # None
        /\ l1Count >= Required(gate[c])
        /\ Publish(c, gate[c])
        /\ gate' = [gate EXCEPT ![c] = None]
    BY <1>3 DEF PassGate, GateOpen
  <2>2. gate[c] \in Task /\ gate[c].phase = 2
    BY <2>1
  <2>3. None \in Task
    BY DEF None, Task
  <2>4. mail' \in [SMs -> Seq(Task)] /\ PastGate' /\ NoL1BehindItsReader'
    BY <2>1, <2>2, PublishReader
  <2> QED
    BY <2>1, <2>2, <2>3, <2>4
<1>4. ASSUME NEW c \in SMs, LoadB(c) \/ LoadA(c) \/ MathStep(c) PROVE Inv'
  <2>1. UNCHANGED claimVars
    BY <1>4 DEF LoadB, LoadA, MathStep, Consume, PublishPartial, Finish
  <2> QED
    BY <2>1, Unmoved DEF claimVars
<1>5. CASE UNCHANGED vars
  BY <1>5, Unmoved DEF vars, claimVars
<1>6. CASE Finished
  BY <1>5, <1>6 DEF Finished
<1> QED
  BY <1>1, <1>2, <1>3, <1>4, <1>5, <1>6 DEF Next, ProducerStep

\* No L1 task is ever queued behind an L2 task that depends on it, directly
\* or through a task of the same or an earlier M block.
THEOREM DependencyOrder == Spec => []NoL1BehindItsReader
<1>1. Inv => NoL1BehindItsReader
  BY DEF Inv
<1> QED
  BY <1>1, InitInv, StepInv, PTL DEF Spec

\* The gate itself: whatever an L2 task in a mailbox reads has been claimed.
THEOREM GatesHold == Spec => []PastGate
<1>1. Inv => PastGate
  BY DEF Inv
<1> QED
  BY <1>1, InitInv, StepInv, PTL DEF Spec
-----------------------------------------------------------------------------
(***************************************************************************)
(* Task indices.  Both layers number their tasks the same way, so the      *)
(* facts about the numbering are stated once, for phase p.                 *)
(***************************************************************************)
BaseOf(p) == IF p = 1 THEN L1SplitBase ELSE L2SplitBase
SplitsOf(p) == IF p = 1 THEN L1Splits ELSE L2Splits
TasksOf(p) == IF p = 1 THEN L1Tasks ELSE L2Tasks
IndicesOf(p) == IF p = 1 THEN L1Indices ELSE L2Indices
TaskAt(p, x) == IF p = 1 THEN L1TaskOf(x) ELSE L2TaskOf(x)

\* The index a task was claimed under.
Index(t) ==
  IF t.full < BaseOf(t.phase) THEN t.full
  ELSE BaseOf(t.phase) + (t.full - BaseOf(t.phase)) * SplitsOf(t.phase) + t.split

\* Division with remainder, and its uniqueness.
LEMMA DivMod ==
  ASSUME NEW d \in Nat \ {0}, NEW a \in Int
  PROVE  /\ a \div d \in Int /\ a % d \in Int
         /\ a = (a \div d) * d + (a % d)
         /\ 0 <= a % d /\ a % d < d
<1> DEFINE q == a \div d
           m == a % d
<1>1. q \in Int /\ m \in Int /\ a = d * q + m /\ m < d
  OBVIOUS
<1>2. 0 <= m
  OBVIOUS
<1> HIDE DEF q, m
<1>3. d * q = q * d
  BY <1>1
<1>4. q \in Int /\ m \in Int /\ a = q * d + m /\ 0 <= m /\ m < d
  BY <1>1, <1>2, <1>3
<1> QED
  BY <1>4 DEF q, m

LEMMA Distribute ==
  ASSUME NEW n \in Int, NEW f \in Int, NEW e \in Int, NEW k \in Int, k = f + e
  PROVE  k * n = f * n + e * n /\ f * n \in Int /\ e * n \in Int
  OBVIOUS

LEMMA DivBelow ==
  ASSUME NEW d \in Nat \ {0}, NEW a \in Int, NEW k \in Int, a < k * d
  PROVE  a \div d < k
<1> DEFINE q == a \div d
           m == a % d
<1>1. q \in Int /\ m \in Int /\ a = q * d + m /\ 0 <= m
  BY DivMod
<1>2. SUFFICES ASSUME q >= k PROVE FALSE
  BY <1>1
<1> HIDE DEF q, m
<1>3. PICK e \in Nat : q = k + e
  <2>1. q - k \in Nat
    BY <1>1, <1>2
  <2> QED
    BY <2>1, <1>1
<1>4. q * d = k * d + e * d /\ e * d \in Nat /\ k * d \in Int
  BY <1>1, <1>3
<1> QED
  BY <1>1, <1>4

LEMMA DivUnique ==
  ASSUME NEW d \in Nat \ {0}, NEW f \in Int, NEW s \in 0 .. d - 1
  PROVE  (f * d + s) \div d = f /\ (f * d + s) % d = s
<1> DEFINE a == f * d + s
           q == a \div d
           m == a % d
<1>1. a \in Int /\ f * d \in Int /\ f * d <= a
  OBVIOUS
<1>2. (f + 1) * d = f * d + d
  OBVIOUS
<1>3. a < (f + 1) * d
  BY <1>1, <1>2
<1>4. q < f + 1
  BY <1>1, <1>3, DivBelow
<1>5. q >= f /\ q \in Int
  BY <1>1, DivAtLeast
<1>6. q = f
  BY <1>4, <1>5
<1>7. a = q * d + m /\ m \in Int
  BY <1>1, DivMod
<1> HIDE DEF q, m
<1>8. a = f * d + m
  BY <1>6, <1>7
<1>9. m = s
  BY <1>1, <1>7, <1>8
<1> QED
  BY <1>6, <1>9 DEF q, m

\* The remainder of a natural number is no larger than the number.
LEMMA ModBelow ==
  ASSUME NEW d \in Nat \ {0}, NEW a \in Nat
  PROVE  a % d \in 0 .. a
<1> DEFINE q == a \div d
           m == a % d
<1>1. q \in Int /\ m \in Int /\ a = q * d + m /\ 0 <= m
  BY DivMod
<1>2. q >= 0
  BY DivAtLeast
<1> HIDE DEF q, m
<1>3. q * d \in Nat
  BY <1>1, <1>2
<1>4. m \in 0 .. a
  BY <1>1, <1>3
<1> QED
  BY <1>4 DEF m

LEMMA SplitsFacts ==
  ASSUME NEW n \in Nat \ {0}, NEW tail \in Nat
  PROVE  Splits(n, tail) \in 1 .. n
  BY DEF Splits

LEMMA CountFacts ==
  ASSUME NEW p \in {1, 2}
  PROVE  /\ BaseOf(p) \in Nat /\ TasksOf(p) \in Nat
         /\ BaseOf(p) <= TasksOf(p)
         /\ SplitsOf(p) \in Nat \ {0}
         /\ SplitsOf(p) = 1 => BaseOf(p) = TasksOf(p)
         /\ IndicesOf(p) = BaseOf(p) + (TasksOf(p) - BaseOf(p)) * SplitsOf(p)
         /\ IndicesOf(p) \in Nat
         /\ SplitsOf(p) <= (IF p = 1 THEN NumL1KSplits ELSE NumL2KSplits)
<1>1. L1Tasks \in Nat /\ L2Tasks \in Nat
  BY TaskCountsAssumption DEF L1Tasks, L2Tasks
<1>2. L1Tail \in 0 .. L1Tasks
  BY <1>1, ModBelow, TaskCountsAssumption DEF L1Tail
<1>3. L1Splits \in 1 .. NumL1KSplits
  BY <1>2, SplitsFacts, TaskCountsAssumption DEF L1Splits
<1>4. L1SplitBase \in 0 .. L1Tasks /\ (L1Splits = 1 => L1SplitBase = L1Tasks)
  BY <1>1, <1>2, <1>3 DEF L1SplitBase
<1>5. L1Tasks - L1SplitBase \in Nat
  BY <1>1, <1>4
<1>6. (L1Tasks - L1SplitBase) * L1Splits \in Nat
  BY <1>3, <1>5
<1>7. L1Indices \in Nat
  BY <1>4, <1>6 DEF L1Indices
<1>8. L1LastWave \in 0 .. NumSMs - 1
  BY <1>7, DivMod, TaskCountsAssumption DEF L1LastWave
<1>9. L2FirstBatch \in Nat
  BY <1>8, TaskCountsAssumption DEF L2FirstBatch
<1>10. L2Tail \in 0 .. L2Tasks
  <2>1. CASE L2Tasks <= L2FirstBatch
    BY <2>1, <1>1 DEF L2Tail
  <2>2. CASE ~(L2Tasks <= L2FirstBatch)
    <3>1. L2Tasks - L2FirstBatch \in Nat /\ L2Tasks - L2FirstBatch <= L2Tasks
      BY <2>2, <1>1, <1>9
    <3>2. (L2Tasks - L2FirstBatch) % NumSMs \in 0 .. (L2Tasks - L2FirstBatch)
      BY <3>1, ModBelow, TaskCountsAssumption
    <3> QED
      BY <2>2, <3>1, <3>2, <1>1 DEF L2Tail
  <2> QED
    BY <2>1, <2>2
<1>11. L2Splits \in 1 .. NumL2KSplits
  BY <1>10, SplitsFacts, TaskCountsAssumption DEF L2Splits
<1>12. L2SplitBase \in 0 .. L2Tasks /\ (L2Splits = 1 => L2SplitBase = L2Tasks)
  BY <1>1, <1>10, <1>11 DEF L2SplitBase
<1>13. L2Tasks - L2SplitBase \in Nat
  BY <1>1, <1>12
<1>14. (L2Tasks - L2SplitBase) * L2Splits \in Nat
  BY <1>11, <1>13
<1>15. L2Indices \in Nat
  BY <1>12, <1>14 DEF L2Indices
<1>16. CASE p = 1
  BY <1>1, <1>3, <1>4, <1>7, <1>16, TaskCountsAssumption
     DEF BaseOf, TasksOf, SplitsOf, IndicesOf, L1Indices
<1>17. CASE p = 2
  BY <1>1, <1>11, <1>12, <1>15, <1>17, TaskCountsAssumption
     DEF BaseOf, TasksOf, SplitsOf, IndicesOf, L2Indices
<1> QED
  BY <1>16, <1>17

LEMMA Excess ==
  ASSUME NEW k \in Int, NEW m \in Int, m <= k
  PROVE  \E e \in Nat : k = m + e
<1>1. k - m \in Nat /\ k = m + (k - m)
  OBVIOUS
<1> QED
  BY <1>1

\* What it means to be a task of the launch.
LEMMA AllTasksFacts ==
  ASSUME NEW t
  PROVE  t \in AllTasks <=>
           \E p \in {1, 2} :
             \/ \E f \in 0 .. BaseOf(p) - 1 :
                  t = [phase |-> p, full |-> f, split |-> 0, of |-> 1]
             \/ \E f \in BaseOf(p) .. TasksOf(p) - 1 :
                \E s \in 0 .. SplitsOf(p) - 1 :
                  t = [phase |-> p, full |-> f, split |-> s, of |-> SplitsOf(p)]
  BY DEF AllTasks, Pieces, BaseOf, TasksOf, SplitsOf

LEMMA TaskFields ==
  ASSUME NEW t \in AllTasks
  PROVE  /\ t.phase \in {1, 2} /\ t \in Task /\ t # None
         /\ t = [phase |-> t.phase, full |-> t.full, split |-> t.split, of |-> t.of]
         /\ t.full \in 0 .. TasksOf(t.phase) - 1
         /\ t.full < BaseOf(t.phase) => t.split = 0 /\ t.of = 1
         /\ t.full >= BaseOf(t.phase) =>
              t.split \in 0 .. SplitsOf(t.phase) - 1 /\ t.of = SplitsOf(t.phase)
         /\ t.of \in Nat \ {0} /\ t.split \in 0 .. t.of - 1
<1>1. PICK p \in {1, 2} :
             \/ \E f \in 0 .. BaseOf(p) - 1 :
                  t = [phase |-> p, full |-> f, split |-> 0, of |-> 1]
             \/ \E f \in BaseOf(p) .. TasksOf(p) - 1 :
                \E s \in 0 .. SplitsOf(p) - 1 :
                  t = [phase |-> p, full |-> f, split |-> s, of |-> SplitsOf(p)]
  BY AllTasksFacts
<1>2. /\ BaseOf(p) \in Nat /\ TasksOf(p) \in Nat /\ BaseOf(p) <= TasksOf(p)
      /\ SplitsOf(p) \in Nat \ {0}
  BY CountFacts
<1>3. CASE \E f \in 0 .. BaseOf(p) - 1 :
             t = [phase |-> p, full |-> f, split |-> 0, of |-> 1]
  BY <1>2, <1>3 DEF Task, None
<1>4. CASE \E f \in BaseOf(p) .. TasksOf(p) - 1 : \E s \in 0 .. SplitsOf(p) - 1 :
             t = [phase |-> p, full |-> f, split |-> s, of |-> SplitsOf(p)]
  BY <1>2, <1>4 DEF Task, None
<1> QED
  BY <1>1, <1>3, <1>4

\* An index below the count stands for a task of the launch, and for one
\* with that index.
LEMMA TaskAtIndex ==
  ASSUME NEW p \in {1, 2}, NEW x \in 0 .. IndicesOf(p) - 1
  PROVE  /\ TaskAt(p, x) \in AllTasks
         /\ TaskAt(p, x).phase = p
         /\ Index(TaskAt(p, x)) = x
<1> DEFINE b == BaseOf(p)
           n == SplitsOf(p)
<1>1. /\ b \in Nat /\ TasksOf(p) \in Nat /\ b <= TasksOf(p) /\ n \in Nat \ {0}
      /\ IndicesOf(p) = b + (TasksOf(p) - b) * n
      /\ IndicesOf(p) \in Nat
  BY CountFacts
<1>2. TaskAt(p, x) = IF x < b
         THEN [phase |-> p, full |-> x, split |-> 0, of |-> 1]
         ELSE [phase |-> p, full |-> b + (x - b) \div n,
               split |-> (x - b) % n, of |-> n]
  BY DEF TaskAt, L1TaskOf, L2TaskOf, BaseOf, SplitsOf
<1>5. \A t : t.phase = p =>
        Index(t) = IF t.full < b THEN t.full ELSE b + (t.full - b) * n + t.split
  BY DEF Index
<1>6. n \in Nat \ {0}
  BY <1>1
<1> HIDE DEF b, n
<1>3. CASE x < b
  <2>1. TaskAt(p, x) \in AllTasks
    BY <1>1, <1>2, <1>3, AllTasksFacts DEF b
  <2> QED
    BY <1>2, <1>3, <1>5, <2>1
<1>4. CASE x >= b
  <2> DEFINE y == x - b
             q == y \div n
             m == y % n
  <2>1. y \in Nat /\ y \in Int
    BY <1>1, <1>4
  <2> HIDE DEF y
  <2>2. q \in Int /\ m \in Int /\ y = q * n + m /\ 0 <= m /\ m < n
    BY <1>6, <2>1, DivMod
  <2>3. q >= 0
    BY <1>1, <2>1, DivAtLeast
  <2>4. y < (TasksOf(p) - b) * n /\ TasksOf(p) - b \in Int
    BY <1>1 DEF y
  <2>5. q < TasksOf(p) - b
    BY <1>1, <2>1, <2>4, DivBelow
  <2>6. TaskAt(p, x) = [phase |-> p, full |-> b + q, split |-> m, of |-> n]
    BY <1>1, <1>2, <1>4 DEF y
  <2> HIDE DEF q, m
  <2>7. b + q \in b .. TasksOf(p) - 1 /\ m \in 0 .. n - 1
    BY <1>1, <2>2, <2>3, <2>5
  <2>8. TaskAt(p, x) \in AllTasks
    BY <2>6, <2>7, AllTasksFacts DEF b, n
  <2> DEFINE t == TaskAt(p, x)
  <2>9. t.phase = p /\ t.full - b = q /\ t.split = m /\ ~(t.full < b)
    BY <1>1, <2>2, <2>3, <2>6
  <2> HIDE DEF t
  <2>10. Index(t) = b + q * n + m
    BY <1>5, <2>9
  <2>11. b + q * n + m = x
    BY <1>1, <1>4, <2>2 DEF y
  <2> QED
    BY <2>8, <2>9, <2>10, <2>11 DEF t
<1> QED
  BY <1>1, <1>3, <1>4

\* Conversely a task is the one its index stands for: no two tasks share one.
LEMMA IndexOfTask ==
  ASSUME NEW t \in AllTasks
  PROVE  /\ Index(t) \in 0 .. IndicesOf(t.phase) - 1
         /\ TaskAt(t.phase, Index(t)) = t
<1> DEFINE p == t.phase
           b == BaseOf(p)
           n == SplitsOf(p)
<1>0. p \in {1, 2}
  BY TaskFields
<1>1. /\ b \in Nat /\ TasksOf(p) \in Nat /\ b <= TasksOf(p) /\ n \in Nat \ {0}
      /\ IndicesOf(p) = b + (TasksOf(p) - b) * n
      /\ IndicesOf(p) \in Nat
  BY <1>0, CountFacts
<1>2. \A x \in Int : TaskAt(p, x) = IF x < b
         THEN [phase |-> p, full |-> x, split |-> 0, of |-> 1]
         ELSE [phase |-> p, full |-> b + (x - b) \div n,
               split |-> (x - b) % n, of |-> n]
  BY <1>0 DEF TaskAt, L1TaskOf, L2TaskOf, BaseOf, SplitsOf
<1>3. /\ t = [phase |-> p, full |-> t.full, split |-> t.split, of |-> t.of]
      /\ t.full \in 0 .. TasksOf(p) - 1
      /\ t.full < b => t.split = 0 /\ t.of = 1
      /\ t.full >= b => t.split \in 0 .. n - 1 /\ t.of = n
  BY TaskFields
<1>8. n \in Nat \ {0}
  BY <1>1
<1>6. Index(t) = IF t.full < b THEN t.full ELSE b + (t.full - b) * n + t.split
  BY DEF Index
<1> HIDE DEF p, b, n
<1>4. CASE t.full < b
  <2>1. Index(t) = t.full
    BY <1>4, <1>6
  <2>2. TasksOf(p) - b \in Nat
    BY <1>1
  <2>3. (TasksOf(p) - b) * n \in Nat
    BY <1>1, <2>2
  <2>4. Index(t) \in 0 .. IndicesOf(p) - 1
    BY <1>1, <1>3, <1>4, <2>1, <2>3
  <2>5. TaskAt(p, t.full) = [phase |-> p, full |-> t.full, split |-> 0, of |-> 1]
    BY <1>2, <1>3, <1>4
  <2> QED
    BY <1>3, <1>4, <2>1, <2>4, <2>5
<1>5. CASE t.full >= b
  <2> DEFINE f == t.full - b
             s == t.split
  <2>1. f \in Nat /\ f + 1 <= TasksOf(p) - b /\ s \in 0 .. n - 1
    BY <1>1, <1>3, <1>5
  <2>2. Index(t) = b + f * n + s
    BY <1>1, <1>3, <1>5, <1>6
  <2>13. b + f = t.full /\ b + f + 1 <= TasksOf(p)
    BY <1>1, <1>3, <1>5
  <2> HIDE DEF s, f
  <2>3. f * n \in Nat /\ (f + 1) * n = f * n + n
    BY <1>1, <2>1
  <2>14. TasksOf(p) - b \in Int /\ f + 1 \in Int
    BY <1>1, <2>1
  <2>4. PICK e \in Nat : TasksOf(p) - b = f + 1 + e
    BY <2>1, <2>14, Excess
  <2>5. (TasksOf(p) - b) * n = (f + 1) * n + e * n /\ e * n \in Nat
    <3>1. e * n \in Nat
      BY <1>1
    <3> QED
      BY <1>1, <2>4, <3>1, <2>14, Distribute
  <2>6. Index(t) \in 0 .. IndicesOf(p) - 1 /\ Index(t) - b = f * n + s
    BY <1>1, <2>1, <2>2, <2>3, <2>5
  <2>7. Index(t) >= b
    BY <1>1, <2>1, <2>2, <2>3
  <2>8. (f * n + s) \div n = f /\ (f * n + s) % n = s
    BY <1>8, <2>1, DivUnique
  <2>9. TaskAt(p, Index(t)) = [phase |-> p, full |-> b + f, split |-> s, of |-> n]
    <3>1. Index(t) \in Int /\ ~(Index(t) < b)
      BY <1>1, <2>6, <2>7
    <3>2. TaskAt(p, Index(t)) = [phase |-> p, full |-> b + (Index(t) - b) \div n,
                                 split |-> (Index(t) - b) % n, of |-> n]
      BY <1>2, <3>1
    <3> QED
      BY <2>6, <2>8, <3>2
  <2>10. t = [phase |-> p, full |-> b + f, split |-> s, of |-> n]
    BY <1>1, <1>3, <1>5, <2>13 DEF s
  <2> QED
    BY <2>6, <2>9, <2>10
<1>7. Index(t) \in 0 .. IndicesOf(p) - 1 /\ TaskAt(p, Index(t)) = t
  BY <1>1, <1>3, <1>4, <1>5
<1> QED
  BY <1>7 DEF p
-----------------------------------------------------------------------------
(***************************************************************************)
(* No task is handed out twice or forgotten.  A task is handed out at a    *)
(* spot of a CTA: its gate (spot 0) or a position of its mailbox.          *)
(***************************************************************************)
Claimed(p) == IF p = 1 THEN l1Count ELSE l2Count
At(c, i) == IF i = 0 THEN gate[c] ELSE mail[c][i]
Spots(c) == 0 .. Len(mail[c])

\* What stands at a spot has been claimed.
Known ==
  \A c \in SMs : \A i \in Spots(c) :
    At(c, i) # None =>
      At(c, i) \in AllTasks /\ Index(At(c, i)) < Claimed(At(c, i).phase)

\* No task stands at two spots.
Distinct ==
  \A c, d \in SMs : \A i \in Spots(c) : \A j \in Spots(d) :
    (At(c, i) # None /\ At(c, i) = At(d, j)) => c = d /\ i = j

\* What has been claimed stands at a spot.
Covered ==
  \A t \in AllTasks : Index(t) < Claimed(t.phase) =>
    \E c \in SMs : \E i \in Spots(c) : At(c, i) = t

\* The sentinel ends a mailbox, and only after all L2 tasks were claimed.
Sentinel ==
  \A c \in SMs : \A i \in 1 .. Len(mail[c]) :
    mail[c][i] = None =>
      i = Len(mail[c]) /\ l2Count >= L2Indices /\ gate[c] = None

\* A mailbox is no longer than the tasks claimed so far, plus the sentinel.
Pending(c) == IF gate[c] = None THEN 0 ELSE 1
Ended(c) == IF Stopped(c) THEN 1 ELSE 0
Handed == Smaller(l1Count, L1Indices) + Smaller(l2Count, L2Indices)
Counted == \A c \in SMs : Len(mail[c]) + Pending(c) <= Handed + Ended(c)

OnceInv == /\ Inv
           /\ l1Count \in Nat /\ l2Count \in Nat
           /\ Known /\ Distinct /\ Covered /\ Sentinel /\ Counted

\* Claiming the next task of phase p and putting it at spot k of CTA c; no
\* other spot changes but an empty gate.
LEMMA HandOut ==
  ASSUME OnceInv, NEW p \in {1, 2}, Claimed(p) < IndicesOf(p),
         NEW t, t = TaskAt(p, Claimed(p)), NEW c \in SMs, NEW k \in Spots(c)',
         At(c, k)' = t,
         Claimed(p)' = Claimed(p) + 1, Claimed(3 - p)' = Claimed(3 - p),
         \A d \in SMs : \A i \in Spots(d)' : (d # c \/ i # k) =>
           i \in Spots(d) /\ At(d, i)' = At(d, i),
         \A d \in SMs : \A i \in Spots(d) : At(d, i) # None =>
           i \in Spots(d)' /\ At(d, i)' = At(d, i) /\ (d # c \/ i # k)
  PROVE  Known' /\ Distinct' /\ Covered'
<1>1. Claimed(p) \in 0 .. IndicesOf(p) - 1 /\ \A q \in {1, 2} : Claimed(q) \in Nat
  BY CountFacts DEF OnceInv, Claimed
<1>2. t \in AllTasks /\ t.phase = p /\ Index(t) = Claimed(p) /\ t # None
  BY <1>1, TaskAtIndex, TaskFields
<1>3. \A q \in {1, 2} : Claimed(q)' \in Nat /\ Claimed(q) <= Claimed(q)'
  BY <1>1
<1>4. \A u \in AllTasks : u.phase \in {1, 2} /\ Index(u) \in Nat
  BY IndexOfTask, TaskFields, CountFacts
<1>5. ASSUME NEW d \in SMs, NEW i \in Spots(d), At(d, i) # None
      PROVE  At(d, i) # t
  <2>1. At(d, i) \in AllTasks /\ Index(At(d, i)) < Claimed(At(d, i).phase)
    BY <1>5 DEF OnceInv, Known
  <2> QED
    BY <1>1, <1>2, <2>1
<1>6. Known'
  <2>1. SUFFICES ASSUME NEW d \in SMs, NEW i \in Spots(d)', At(d, i)' # None
                 PROVE  /\ At(d, i)' \in AllTasks
                        /\ Index(At(d, i)') < Claimed(At(d, i).phase)'
    BY DEF Known, Index, BaseOf, SplitsOf, Claimed
  <2>2. CASE d = c /\ i = k
    BY <1>1, <1>2, <2>2
  <2>3. CASE d # c \/ i # k
    <3>1. i \in Spots(d) /\ At(d, i)' = At(d, i)
      BY <2>3
    <3>2. At(d, i) \in AllTasks /\ Index(At(d, i)) < Claimed(At(d, i).phase)
      BY <2>1, <3>1 DEF OnceInv, Known
    <3>3. Index(At(d, i)) \in Nat /\ At(d, i).phase \in {1, 2}
      BY <1>4, <3>2
    <3> QED
      BY <1>1, <1>3, <3>1, <3>2, <3>3
  <2> QED
    BY <2>2, <2>3
<1>7. Distinct'
  <2>1. SUFFICES ASSUME NEW d \in SMs, NEW e \in SMs,
                        NEW i \in Spots(d)', NEW j \in Spots(e)',
                        At(d, i)' # None, At(d, i)' = At(e, j)'
                 PROVE  d = e /\ i = j
    BY DEF Distinct
  <2>2. CASE (d # c \/ i # k) /\ (e # c \/ j # k)
    <3>1. /\ i \in Spots(d) /\ At(d, i)' = At(d, i)
          /\ j \in Spots(e) /\ At(e, j)' = At(e, j)
      BY <2>2
    <3>2. At(d, i) # None /\ At(d, i) = At(e, j)
      BY <2>1, <3>1
    <3>3. Distinct
      BY DEF OnceInv
    <3> QED
      BY <3>1, <3>2, <3>3 DEF Distinct
  <2>3. CASE (d = c /\ i = k) /\ (e # c \/ j # k)
    <3>1. j \in Spots(e) /\ At(e, j)' = At(e, j) /\ At(e, j) = t
      BY <2>1, <2>3
    <3> QED
      BY <1>2, <1>5, <3>1
  <2>4. CASE (d # c \/ i # k) /\ (e = c /\ j = k)
    <3>1. i \in Spots(d) /\ At(d, i)' = At(d, i) /\ At(d, i) = t
      BY <2>1, <2>4
    <3> QED
      BY <1>2, <1>5, <3>1
  <2> QED
    BY <2>2, <2>3, <2>4
<1>8. Covered'
  <2>1. SUFFICES ASSUME NEW u \in AllTasks, Index(u) < Claimed(u.phase)'
                 PROVE  \E d \in SMs : \E i \in Spots(d)' : At(d, i)' = u
    BY DEF Covered, Index, BaseOf, SplitsOf, Claimed
  <2>2. CASE Index(u) < Claimed(u.phase)
    <3>1. PICK d \in SMs : \E i \in Spots(d) : At(d, i) = u
      BY <2>2 DEF OnceInv, Covered
    <3>2. PICK i \in Spots(d) : At(d, i) = u
      BY <3>1
    <3>3. u # None
      BY TaskFields
    <3> QED
      BY <3>2, <3>3
  <2>3. CASE ~(Index(u) < Claimed(u.phase))
    <3>1. u.phase = p /\ Index(u) = Claimed(p)
      BY <1>1, <1>4, <2>1, <2>3
    <3>2. u = t
      BY <3>1, IndexOfTask
    <3> QED
      BY <3>2
  <2> QED
    BY <2>2, <2>3
<1> QED
  BY <1>6, <1>7, <1>8


\* Appending to the mailbox of c: the spots are the old ones and one more.
LEMMA AppendSpots ==
  ASSUME Inv, NEW c \in SMs, NEW t \in Task, Publish(c, t),
         NEW n, n = Len(mail[c])
  PROVE  /\ n \in Nat
         /\ Len(mail[c])' = n + 1
         /\ mail[c]'[n + 1] = t
         /\ \A d \in SMs : d # c => mail[d]' = mail[d]
         /\ \A i \in 1 .. n : mail[c]'[i] = mail[c][i]
         /\ At(c, n + 1)' = t
         /\ n + 1 \in Spots(c)'
         /\ \A d \in SMs : \A i \in Spots(d)' :
              \/ i \in Spots(d) /\ (i # 0 => At(d, i)' = At(d, i))
                   /\ (d = c => i # n + 1)
              \/ d = c /\ i = n + 1
         /\ \A d \in SMs : \A i \in Spots(d) :
              /\ i \in Spots(d)' /\ (i # 0 => At(d, i)' = At(d, i))
              /\ (d = c => i # n + 1)
<1>1. mail[c] \in Seq(Task)
  BY DEF Inv
<1>2. /\ mail'[c] = Append(mail[c], t)
      /\ \A d \in SMs : d # c => mail'[d] = mail[d]
  BY DEF Publish, Inv
<1>3. /\ n \in Nat /\ Len(mail'[c]) = n + 1 /\ mail'[c][n + 1] = t
      /\ \A i \in 1 .. n : mail'[c][i] = mail[c][i]
  BY <1>1, <1>2, AppendFacts
<1>4. \A d \in SMs : Len(mail[d]) \in Nat
  BY DEF Inv
<1>5. At(c, n + 1)' = t /\ n + 1 \in Spots(c)'
  BY <1>3 DEF At, Spots
<1>6. ASSUME NEW d \in SMs, NEW i \in Spots(d)'
      PROVE  \/ i \in Spots(d) /\ (i # 0 => At(d, i)' = At(d, i))
                  /\ (d = c => i # n + 1)
             \/ d = c /\ i = n + 1
  <2>1. CASE d # c
    BY <1>2, <2>1 DEF Spots, At
  <2>2. CASE d = c
    BY <1>3, <2>2 DEF Spots, At
  <2> QED
    BY <2>1, <2>2
<1>7. ASSUME NEW d \in SMs, NEW i \in Spots(d)
      PROVE  /\ i \in Spots(d)' /\ (i # 0 => At(d, i)' = At(d, i))
             /\ (d = c => i # n + 1)
  <2>1. CASE d # c
    BY <1>2, <2>1 DEF Spots, At
  <2>2. CASE d = c
    BY <1>3, <2>2 DEF Spots, At
  <2> QED
    BY <2>1, <2>2
<1> QED
  BY <1>2, <1>3, <1>5, <1>6, <1>7

\* Steps that hand out no new task: every spot that holds a task keeps it,
\* or the task moves from spot k to spot m of c.
LEMMA SameTasks ==
  ASSUME OnceInv,
         \A q \in {1, 2} : Claimed(q)' \in Nat /\ Claimed(q)' >= Claimed(q)
           /\ (Claimed(q)' > Claimed(q) => Claimed(q) >= IndicesOf(q)),
         NEW c \in SMs, NEW k, NEW m,
         k \in Spots(c) => m \in Spots(c)' /\ At(c, m)' = At(c, k),
         \A d \in SMs : \A i \in Spots(d)' : At(d, i)' # None =>
           \/ i \in Spots(d) /\ At(d, i)' = At(d, i) /\ ~(d = c /\ (i = k \/ i = m))
           \/ d = c /\ i = m /\ k \in Spots(c),
         \A d \in SMs : \A i \in Spots(d) : At(d, i) # None =>
           \/ i \in Spots(d)' /\ At(d, i)' = At(d, i)
           \/ d = c /\ i = k
  PROVE  Known' /\ Distinct' /\ Covered'
<1>1. \A q \in {1, 2} : Claimed(q) \in Nat
  BY DEF OnceInv, Claimed
<1>2. \A u \in AllTasks : /\ u.phase \in {1, 2}
                          /\ Index(u) \in Nat
                          /\ Index(u) < IndicesOf(u.phase)
                          /\ IndicesOf(u.phase) \in Nat
                          /\ u # None
  BY IndexOfTask, TaskFields, CountFacts
\* Where a task stood before the step.
<1>3. ASSUME NEW d \in SMs, NEW i \in Spots(d)', At(d, i)' # None
      PROVE  \/ i \in Spots(d) /\ At(d, i)' = At(d, i) /\ ~(d = c /\ (i = k \/ i = m))
             \/ d = c /\ i = m /\ k \in Spots(d) /\ At(d, i)' = At(d, k)
  BY <1>3
<1>4. Known'
  <2>1. SUFFICES ASSUME NEW d \in SMs, NEW i \in Spots(d)', At(d, i)' # None
                 PROVE  /\ At(d, i)' \in AllTasks
                        /\ Index(At(d, i)') < Claimed(At(d, i).phase)'
    BY DEF Known, Index, BaseOf, SplitsOf, Claimed
  <2>2. PICK j \in Spots(d) : At(d, i)' = At(d, j)
    BY <1>3, <2>1
  <2>3. At(d, j) \in AllTasks /\ Index(At(d, j)) < Claimed(At(d, j).phase)
    BY <2>1, <2>2 DEF OnceInv, Known
  <2>4. Index(At(d, j)) \in Nat /\ At(d, j).phase \in {1, 2}
    BY <1>2, <2>3
  <2> QED
    BY <1>1, <2>2, <2>3, <2>4
<1>5. Distinct'
  <2>1. SUFFICES ASSUME NEW d \in SMs, NEW e \in SMs,
                        NEW i \in Spots(d)', NEW j \in Spots(e)',
                        At(d, i)' # None, At(d, i)' = At(e, j)'
                 PROVE  d = e /\ i = j
    BY DEF Distinct
  <2>2. Distinct
    BY DEF OnceInv
  <2>3. \/ i \in Spots(d) /\ At(d, i)' = At(d, i) /\ ~(d = c /\ (i = k \/ i = m))
        \/ d = c /\ i = m /\ k \in Spots(d) /\ At(d, i)' = At(d, k)
    BY <1>3, <2>1
  <2>4. \/ j \in Spots(e) /\ At(e, j)' = At(e, j) /\ ~(e = c /\ (j = k \/ j = m))
        \/ e = c /\ j = m /\ k \in Spots(e) /\ At(e, j)' = At(e, k)
    BY <1>3, <2>1
  <2>5. \A x \in Spots(d) : \A y \in Spots(e) :
          At(d, i)' = At(d, x) /\ At(e, j)' = At(e, y) => d = e /\ x = y
    BY <2>1, <2>2 DEF Distinct
  <2> QED
    BY <2>3, <2>4, <2>5
<1>6. Covered'
  <2>1. SUFFICES ASSUME NEW u \in AllTasks, Index(u) < Claimed(u.phase)'
                 PROVE  \E d \in SMs : \E i \in Spots(d)' : At(d, i)' = u
    BY DEF Covered, Index, BaseOf, SplitsOf, Claimed
  <2>2. Index(u) < Claimed(u.phase)
    BY <1>1, <1>2, <2>1
  <2>3. PICK d \in SMs : \E i \in Spots(d) : At(d, i) = u
    BY <2>2 DEF OnceInv, Covered
  <2>4. PICK i \in Spots(d) : At(d, i) = u
    BY <2>3
  <2> QED
    BY <1>2, <2>4
<1> QED
  BY <1>4, <1>5, <1>6

LEMMA PendingType == \A c : Pending(c) \in {0, 1} /\ Ended(c) \in {0, 1}
  BY DEF Pending, Ended

LEMMA NoSentinel ==
  ASSUME OnceInv, NEW c \in SMs, ~Stopped(c)
  PROVE  \A i \in 1 .. Len(mail[c]) : mail[c][i] # None
  BY DEF OnceInv, Inv, Sentinel, Stopped

\* The end of the mailboxes when c, not yet stopped, publishes t.
LEMMA PublishEnds ==
  ASSUME OnceInv, NEW c \in SMs, ~Stopped(c), NEW t \in Task, Publish(c, t),
         t = None => l2Count' >= L2Indices /\ gate'[c] = None,
         \A d \in SMs : d # c => gate'[d] = gate[d],
         l2Count' \in Nat, l2Count' >= l2Count
  PROVE  /\ Sentinel'
         /\ Stopped(c)' <=> t = None
         /\ \A d \in SMs : d # c => (Stopped(d)' <=> Stopped(d))
<1> DEFINE n == Len(mail[c])
<1>0. Inv
  BY DEF OnceInv
<1>1. /\ n \in Nat
      /\ Len(mail'[c]) = n + 1
      /\ mail'[c][n + 1] = t
      /\ \A d \in SMs : d # c => mail'[d] = mail[d]
      /\ \A i \in 1 .. n : mail'[c][i] = mail[c][i]
  BY <1>0, AppendSpots
<1>2. L2Indices \in Nat
  BY CountFacts DEF IndicesOf
<1>3. \A i \in 1 .. n : mail'[c][i] # None
  BY <1>1, NoSentinel
<1> HIDE DEF n
<1>4. Sentinel'
  <2>1. SUFFICES ASSUME NEW d \in SMs, NEW i \in 1 .. Len(mail'[d]),
                        mail'[d][i] = None
                 PROVE  /\ i = Len(mail'[d])
                        /\ l2Count' >= L2Indices
                        /\ gate'[d] = None
    BY DEF Sentinel
  <2>2. CASE d = c
    BY <1>1, <1>3, <2>1, <2>2
  <2>3. CASE d # c
    BY <1>1, <1>2, <2>1, <2>3 DEF OnceInv, Sentinel
  <2> QED
    BY <2>2, <2>3
<1>5. Stopped(c)' <=> t = None
  BY <1>1 DEF Stopped
<1>6. \A d \in SMs : d # c => (Stopped(d)' <=> Stopped(d))
  BY <1>1 DEF Stopped
<1> QED
  BY <1>4, <1>5, <1>6

LEMMA InitOnce == Init => OnceInv
<1> SUFFICES ASSUME Init PROVE OnceInv
  OBVIOUS
<1>1. /\ l1Count = 0 /\ l2Count = 0
      /\ \A c \in SMs : gate[c] = None /\ Len(mail[c]) = 0
  BY DEF Init
<1>2. \A c \in SMs : Spots(c) = {0} /\ At(c, 0) = None
  BY <1>1 DEF Spots, At
<1>3. Known /\ Distinct /\ Sentinel
  BY <1>1, <1>2 DEF Known, Distinct, Sentinel
<1>4. Covered
  <2>1. \A t \in AllTasks : t.phase \in {1, 2} /\ Index(t) \in Nat
    BY IndexOfTask, TaskFields, CountFacts
  <2> QED
    BY <1>1, <2>1 DEF Covered, Claimed
<1>5. Counted
  <2>1. L1Indices \in Nat /\ L2Indices \in Nat
    BY CountFacts DEF IndicesOf
  <2>2. Smaller(0, L1Indices) = 0 /\ Smaller(0, L2Indices) = 0
    BY <2>1 DEF Smaller
  <2> QED
    <3>1. Handed = 0 /\ \A c \in SMs : Pending(c) = 0 /\ Len(mail[c]) = 0
      BY <1>1, <2>2 DEF Handed, Pending
    <3> QED
      BY <3>1, PendingType DEF Counted
<1> QED
  BY <1>1, <1>3, <1>4, <1>5, InitInv DEF OnceInv

\* Steps that leave the counters, the gates and the mailboxes alone.
LEMMA UnmovedOnce ==
  ASSUME OnceInv, UNCHANGED <<l1Count, l2Count, gate, mail>>
  PROVE  OnceInv'
<1>1. Inv'
  BY Unmoved DEF OnceInv
<1>2. /\ \A c \in SMs : Spots(c)' = Spots(c) /\ (Stopped(c)' <=> Stopped(c))
      /\ \A c \in SMs, i \in Nat : At(c, i)' = At(c, i)
  BY DEF Spots, At, Stopped
<1>3. Known' /\ Distinct' /\ Covered'
  BY DEF OnceInv, Known, Distinct, Covered, Spots, At, Claimed, Index, BaseOf, SplitsOf
<1>4. Sentinel' /\ Counted'
  BY <1>2 DEF OnceInv, Sentinel, Counted, Stopped, Pending, Ended, Handed
<1> QED
  BY <1>1, <1>3, <1>4 DEF OnceInv

\* An L1 claim that gets a task.
LEMMA ClaimL1Task ==
  ASSUME OnceInv, NEW c \in SMs, ClaimL1(c), l1Count < L1Indices
  PROVE  Known' /\ Distinct' /\ Covered' /\ Sentinel' /\ Counted'
<1> DEFINE t == L1TaskOf(l1Count)
<1>0. PICK n : n = Len(mail[c])
  OBVIOUS
<1>1. /\ Inv /\ l1Count \in Nat /\ l2Count \in Nat
      /\ l1Count' = l1Count + 1 /\ l2Count' = l2Count /\ gate' = gate
      /\ gate[c] = None /\ ~Stopped(c) /\ Publish(c, t)
  BY DEF OnceInv, ClaimL1, CanClaim
<1>2. L1Indices \in Nat /\ L2Indices \in Nat /\ IndicesOf(1) = L1Indices
  BY CountFacts DEF IndicesOf
<1>3. t = TaskAt(1, Claimed(1)) /\ t \in AllTasks
  BY <1>1, <1>2, TaskAtIndex DEF TaskAt, Claimed
<1> HIDE DEF t
<1>4. t \in Task /\ t # None
  BY <1>3, TaskFields
<1>5. /\ n \in Nat
      /\ At(c, n + 1)' = t
      /\ n + 1 \in Spots(c)'
      /\ Len(mail[c])' = n + 1
      /\ \A d \in SMs : d # c => mail[d]' = mail[d]
      /\ \A d \in SMs : \A i \in Spots(d)' :
           \/ i \in Spots(d) /\ (i # 0 => At(d, i)' = At(d, i))
                /\ (d = c => i # n + 1)
           \/ d = c /\ i = n + 1
      /\ \A d \in SMs : \A i \in Spots(d) :
           /\ i \in Spots(d)' /\ (i # 0 => At(d, i)' = At(d, i))
           /\ (d = c => i # n + 1)
  BY <1>0, <1>1, <1>4, AppendSpots
<1>6. \A d \in SMs : At(d, 0)' = At(d, 0)
  BY <1>1 DEF At
<1>7. Known' /\ Distinct' /\ Covered'
  <2>1. Claimed(1) < IndicesOf(1)
    BY <1>2 DEF Claimed
  <2>2. Claimed(1)' = Claimed(1) + 1 /\ Claimed(3 - 1)' = Claimed(3 - 1)
    BY <1>1 DEF Claimed
  <2>3. \A d \in SMs : \A i \in Spots(d)' : (d # c \/ i # n + 1) =>
          i \in Spots(d) /\ At(d, i)' = At(d, i)
    BY <1>5, <1>6
  <2>4. \A d \in SMs : \A i \in Spots(d) : At(d, i) # None =>
          i \in Spots(d)' /\ At(d, i)' = At(d, i) /\ (d # c \/ i # n + 1)
    BY <1>5, <1>6
  <2> QED
    BY <1>3, <1>5, <2>1, <2>2, <2>3, <2>4, HandOut
<1>8. /\ Sentinel'
      /\ ~Stopped(c)'
      /\ \A d \in SMs : d # c => (Stopped(d)' <=> Stopped(d))
  BY <1>1, <1>4, PublishEnds
<1>10. Handed' = Handed + 1 /\ Handed \in Nat
  BY <1>1, <1>2 DEF Smaller, Handed
<1>11. \A d \in SMs : Pending(d)' = Pending(d) /\ Ended(d)' = Ended(d)
  <2>1. \A d \in SMs : Stopped(d)' <=> Stopped(d)
    BY <1>1, <1>8
  <2> QED
    BY <1>1, <2>1 DEF Pending, Ended
<1>9. Counted'
  <2>1. SUFFICES ASSUME NEW d \in SMs
                 PROVE  Len(mail'[d]) + Pending(d)' <= Handed' + Ended(d)'
    BY DEF Counted
  <2>2. Len(mail[d]) + Pending(d) <= Handed + Ended(d)
    BY DEF OnceInv, Counted
  <2>3. Len(mail[d]) \in Nat
    BY <1>1 DEF Inv
  <2>4. CASE d = c
    BY <1>0, <1>5, <1>10, <1>11, <2>2, <2>4, PendingType
  <2>5. CASE d # c
    <3>1. mail'[d] = mail[d]
      BY <1>1, <1>5, <1>8, <2>5
    <3> QED
      BY <1>10, <1>11, <2>2, <2>3, <3>1, PendingType
  <2> QED
    BY <2>4, <2>5
<1> QED
  BY <1>7, <1>8, <1>9

\* An L1 claim past the last index.
LEMMA ClaimL1None ==
  ASSUME OnceInv, NEW c \in SMs, ClaimL1(c), ~(l1Count < L1Indices)
  PROVE  Known' /\ Distinct' /\ Covered' /\ Sentinel' /\ Counted'
<1>1. /\ l1Count \in Nat /\ l2Count \in Nat
      /\ l1Count' = l1Count + 1 /\ l2Count' = l2Count /\ gate' = gate
      /\ mail' = mail
  BY DEF OnceInv, ClaimL1
<1>2. L1Indices \in Nat /\ L2Indices \in Nat /\ IndicesOf(1) = L1Indices
  BY CountFacts DEF IndicesOf
<1>3. /\ \A d \in SMs : Spots(d)' = Spots(d)
      /\ \A d \in SMs : \A i \in Spots(d) : At(d, i)' = At(d, i)
  BY <1>1 DEF Spots, At
<1>4. \A q \in {1, 2} : Claimed(q)' \in Nat /\ Claimed(q)' >= Claimed(q)
        /\ (Claimed(q)' > Claimed(q) => Claimed(q) >= IndicesOf(q))
  BY <1>1, <1>2 DEF Claimed
<1>5. \A d \in SMs : -1 \notin Spots(d)
  BY DEF Spots
<1>6. Known' /\ Distinct' /\ Covered'
  BY <1>3, <1>4, <1>5, SameTasks
<1>7. Sentinel'
  BY <1>1 DEF OnceInv, Sentinel
<1>8. Handed' = Handed
  BY <1>1, <1>2 DEF Handed, Smaller
<1>9. \A d \in SMs : Pending(d)' = Pending(d) /\ Ended(d)' = Ended(d)
  BY <1>1 DEF Pending, Ended, Stopped
<1>10. Counted'
  BY <1>1, <1>8, <1>9 DEF OnceInv, Counted
<1> QED
  BY <1>6, <1>7, <1>10

\* An L2 claim that gets a task: it stands at the gate.
LEMMA ClaimL2Task ==
  ASSUME OnceInv, NEW c \in SMs, ClaimL2(c), l2Count < L2Indices
  PROVE  Known' /\ Distinct' /\ Covered' /\ Sentinel' /\ Counted'
<1> DEFINE t == L2TaskOf(l2Count)
<1>1. /\ Inv /\ l1Count \in Nat /\ l2Count \in Nat
      /\ l2Count' = l2Count + 1 /\ l1Count' = l1Count /\ mail' = mail
      /\ gate[c] = None /\ ~Stopped(c) /\ gate' = [gate EXCEPT ![c] = t]
  BY DEF OnceInv, ClaimL2, CanClaim
<1>2. L1Indices \in Nat /\ L2Indices \in Nat /\ IndicesOf(2) = L2Indices
  BY CountFacts DEF IndicesOf
<1>3. t = TaskAt(2, Claimed(2)) /\ t \in AllTasks
  BY <1>1, <1>2, TaskAtIndex DEF TaskAt, Claimed
<1> HIDE DEF t
<1>4. t \in Task /\ t # None
  BY <1>3, TaskFields
<1>5. gate'[c] = t /\ \A d \in SMs : d # c => gate'[d] = gate[d]
  BY <1>1 DEF Inv
<1>6. /\ At(c, 0)' = t
      /\ \A d \in SMs : Spots(d)' = Spots(d) /\ 0 \in Spots(d)
      /\ \A d \in SMs : \A i \in Spots(d) : (d # c \/ i # 0) => At(d, i)' = At(d, i)
      /\ At(c, 0) = None
  BY <1>1, <1>5 DEF Spots, At, Inv
<1>7. Known' /\ Distinct' /\ Covered'
  <2>1. Claimed(2) < IndicesOf(2)
    BY <1>2 DEF Claimed
  <2>2. Claimed(2)' = Claimed(2) + 1 /\ Claimed(3 - 2)' = Claimed(3 - 2)
    BY <1>1 DEF Claimed
  <2>3. \A d \in SMs : \A i \in Spots(d)' : (d # c \/ i # 0) =>
          i \in Spots(d) /\ At(d, i)' = At(d, i)
    BY <1>6
  <2>4. \A d \in SMs : \A i \in Spots(d) : At(d, i) # None =>
          i \in Spots(d)' /\ At(d, i)' = At(d, i) /\ (d # c \/ i # 0)
    BY <1>6
  <2>5. 0 \in Spots(c)'
    BY <1>6
  <2> QED
    BY <1>3, <1>6, <2>1, <2>2, <2>3, <2>4, <2>5, HandOut
<1>8. Sentinel'
  <2>1. SUFFICES ASSUME NEW d \in SMs, NEW i \in 1 .. Len(mail[d]), mail[d][i] = None
                 PROVE  i = Len(mail[d]) /\ l2Count + 1 >= L2Indices /\ gate'[d] = None
    BY <1>1 DEF Sentinel
  <2>2. d # c
    BY <1>1, <2>1, NoSentinel
  <2> QED
    BY <1>1, <1>2, <1>5, <2>1, <2>2 DEF OnceInv, Sentinel
<1>9. Counted'
  <2>1. Handed' = Handed + 1 /\ Handed \in Nat
    BY <1>1, <1>2 DEF Handed, Smaller
  <2>2. \A d \in SMs : Ended(d)' = Ended(d) /\ (d # c => Pending(d)' = Pending(d))
    BY <1>1, <1>5 DEF Ended, Stopped, Pending
  <2>3. Pending(c) = 0
    BY <1>1 DEF Pending
  <2>4. \A d \in SMs : Len(mail[d]) \in Nat /\ Len(mail[d]) + Pending(d) <= Handed + Ended(d)
    BY <1>1 DEF Inv, OnceInv, Counted
  <2>5. \A d \in SMs : Pending(d) \in {0, 1} /\ Pending(d)' \in {0, 1} /\ Ended(d) \in {0, 1}
    BY DEF Pending, Ended
  <2>6. ASSUME NEW d \in SMs
        PROVE  Len(mail[d]) + Pending(d)' <= Handed' + Ended(d)'
    BY <2>1, <2>2, <2>3, <2>4, <2>5
  <2> QED
    BY <1>1, <2>6 DEF Counted
<1> QED
  BY <1>7, <1>8, <1>9

\* An L2 claim past the last index: the producer stops.
LEMMA ClaimL2None ==
  ASSUME OnceInv, NEW c \in SMs, ClaimL2(c), ~(l2Count < L2Indices)
  PROVE  Known' /\ Distinct' /\ Covered' /\ Sentinel' /\ Counted'
<1>0. PICK n : n = Len(mail[c])
  OBVIOUS
<1>1. /\ Inv /\ l1Count \in Nat /\ l2Count \in Nat
      /\ l2Count' = l2Count + 1 /\ l1Count' = l1Count /\ gate' = gate
      /\ gate[c] = None /\ ~Stopped(c) /\ Publish(c, None) /\ None \in Task
  BY DEF OnceInv, ClaimL2, CanClaim, None, Task
<1>2. L1Indices \in Nat /\ L2Indices \in Nat /\ IndicesOf(2) = L2Indices
  BY CountFacts DEF IndicesOf
<1>3. /\ n \in Nat
      /\ At(c, n + 1)' = None
      /\ Len(mail[c])' = n + 1
      /\ \A d \in SMs : d # c => mail[d]' = mail[d]
      /\ \A d \in SMs : \A i \in Spots(d)' :
           \/ i \in Spots(d) /\ (i # 0 => At(d, i)' = At(d, i))
                /\ (d = c => i # n + 1)
           \/ d = c /\ i = n + 1
      /\ \A d \in SMs : \A i \in Spots(d) :
           /\ i \in Spots(d)' /\ (i # 0 => At(d, i)' = At(d, i))
           /\ (d = c => i # n + 1)
  BY <1>0, <1>1, AppendSpots
<1>4. \A d \in SMs : At(d, 0)' = At(d, 0)
  BY <1>1 DEF At
<1>5. \A q \in {1, 2} : Claimed(q)' \in Nat /\ Claimed(q)' >= Claimed(q)
        /\ (Claimed(q)' > Claimed(q) => Claimed(q) >= IndicesOf(q))
  BY <1>1, <1>2 DEF Claimed
<1>6. \A d \in SMs : -1 \notin Spots(d) /\ -1 \notin Spots(d)'
  BY DEF Spots
<1>7. Known' /\ Distinct' /\ Covered'
  <2>1. \A d \in SMs : \A i \in Spots(d)' : At(d, i)' # None =>
           i \in Spots(d) /\ At(d, i)' = At(d, i) /\ ~(d = c /\ (i = -1 \/ i = -1))
    BY <1>3, <1>4, <1>6
  <2>2. \A d \in SMs : \A i \in Spots(d) : At(d, i) # None =>
           i \in Spots(d)' /\ At(d, i)' = At(d, i)
    BY <1>3, <1>4
  <2> QED
    BY <1>5, <1>6, <2>1, <2>2, SameTasks
<1>8. /\ Sentinel'
      /\ Stopped(c)'
      /\ \A d \in SMs : d # c => (Stopped(d)' <=> Stopped(d))
  <2>1. l2Count' >= L2Indices /\ gate'[c] = None /\ l2Count' \in Nat /\ l2Count' >= l2Count
    BY <1>1, <1>2
  <2> QED
    BY <1>1, <2>1, PublishEnds
<1>9. Counted'
  <2>1. Handed' = Handed /\ Handed \in Nat
    BY <1>1, <1>2 DEF Handed, Smaller
  <2>2. /\ \A d \in SMs : Pending(d)' = Pending(d) /\ (d # c => Ended(d)' = Ended(d))
        /\ Ended(c)' = Ended(c) + 1
    BY <1>1, <1>8 DEF Ended, Pending
  <2>3. \A d \in SMs : Len(mail[d]) \in Nat /\ Len(mail[d]) + Pending(d) <= Handed + Ended(d)
    BY <1>1 DEF Inv, OnceInv, Counted
  <2>4. ASSUME NEW d \in SMs
        PROVE  Len(mail'[d]) + Pending(d)' <= Handed' + Ended(d)'
    <3>1. CASE d = c
      BY <1>0, <1>3, <2>1, <2>2, <2>3, <3>1, PendingType
    <3>2. CASE d # c
      BY <1>3, <2>1, <2>2, <2>3, <3>2
    <3> QED
      BY <3>1, <3>2
  <2> QED
    BY <2>4 DEF Counted
<1> QED
  BY <1>7, <1>8, <1>9

\* The task at an open gate moves to the end of the mailbox.
LEMMA PassGateOnce ==
  ASSUME OnceInv, NEW c \in SMs, PassGate(c)
  PROVE  Known' /\ Distinct' /\ Covered' /\ Sentinel' /\ Counted'
<1>0. PICK n : n = Len(mail[c])
  OBVIOUS
<1>1. PICK t : t = gate[c]
  OBVIOUS
<1>2. /\ Inv /\ l1Count \in Nat /\ l2Count \in Nat
      /\ l2Count' = l2Count /\ l1Count' = l1Count
      /\ t # None /\ t \in Task /\ Publish(c, t)
      /\ gate' = [gate EXCEPT ![c] = None]
  BY <1>1 DEF OnceInv, Inv, PassGate
<1>3. gate'[c] = None /\ \A d \in SMs : d # c => gate'[d] = gate[d]
  BY <1>2 DEF Inv
<1>4. L1Indices \in Nat /\ L2Indices \in Nat
  BY CountFacts DEF IndicesOf
<1>5. ~Stopped(c)
  BY <1>1, <1>2 DEF OnceInv, Inv, Sentinel, Stopped
<1>6. /\ n \in Nat
      /\ At(c, n + 1)' = t
      /\ n + 1 \in Spots(c)'
      /\ Len(mail[c])' = n + 1
      /\ \A d \in SMs : d # c => mail[d]' = mail[d]
      /\ \A d \in SMs : \A i \in Spots(d)' :
           \/ i \in Spots(d) /\ (i # 0 => At(d, i)' = At(d, i))
                /\ (d = c => i # n + 1)
           \/ d = c /\ i = n + 1
      /\ \A d \in SMs : \A i \in Spots(d) :
           /\ i \in Spots(d)' /\ (i # 0 => At(d, i)' = At(d, i))
           /\ (d = c => i # n + 1)
  BY <1>0, <1>2, AppendSpots
<1>7. /\ \A d \in SMs : d # c => At(d, 0)' = At(d, 0)
      /\ At(c, 0)' = None /\ At(c, 0) = t /\ 0 \in Spots(c)
  BY <1>0, <1>1, <1>3, <1>6 DEF At, Spots
<1>8. \A q \in {1, 2} : Claimed(q)' \in Nat /\ Claimed(q)' >= Claimed(q)
        /\ (Claimed(q)' > Claimed(q) => Claimed(q) >= IndicesOf(q))
  BY <1>2 DEF Claimed
<1>9. Known' /\ Distinct' /\ Covered'
  <2>1. 0 \in Spots(c) => n + 1 \in Spots(c)' /\ At(c, n + 1)' = At(c, 0)
    BY <1>6, <1>7
  <2>2. \A d \in SMs : \A i \in Spots(d)' : At(d, i)' # None =>
           \/ i \in Spots(d) /\ At(d, i)' = At(d, i) /\ ~(d = c /\ (i = 0 \/ i = n + 1))
           \/ d = c /\ i = n + 1 /\ 0 \in Spots(c)
    BY <1>6, <1>7
  <2>3. \A d \in SMs : \A i \in Spots(d) : At(d, i) # None =>
           \/ i \in Spots(d)' /\ At(d, i)' = At(d, i)
           \/ d = c /\ i = 0
    BY <1>6, <1>7
  <2> QED
    BY <1>8, <2>1, <2>2, <2>3, SameTasks
<1>10. /\ Sentinel'
       /\ ~Stopped(c)'
       /\ \A d \in SMs : d # c => (Stopped(d)' <=> Stopped(d))
  BY <1>2, <1>3, <1>5, PublishEnds
<1>11. Counted'
  <2>1. Handed' = Handed /\ Handed \in Nat
    BY <1>2, <1>4 DEF Handed, Smaller
  <2>2. /\ \A d \in SMs : Ended(d)' = Ended(d) /\ (d # c => Pending(d)' = Pending(d))
        /\ Pending(c) = 1 /\ Pending(c)' = 0
    BY <1>1, <1>2, <1>3, <1>5, <1>10 DEF Ended, Pending
  <2>3. \A d \in SMs : Len(mail[d]) \in Nat /\ Len(mail[d]) + Pending(d) <= Handed + Ended(d)
    BY <1>2 DEF Inv, OnceInv, Counted
  <2>4. ASSUME NEW d \in SMs
        PROVE  Len(mail'[d]) + Pending(d)' <= Handed' + Ended(d)'
    <3>1. CASE d = c
      BY <1>0, <1>6, <2>1, <2>2, <2>3, <3>1, PendingType
    <3>2. CASE d # c
      BY <1>6, <2>1, <2>2, <2>3, <3>2
    <3> QED
      BY <3>1, <3>2
  <2> QED
    BY <2>4 DEF Counted
<1> QED
  BY <1>9, <1>10, <1>11

LEMMA StepOnce == OnceInv /\ [Next]_vars => OnceInv'
<1> SUFFICES ASSUME OnceInv, [Next]_vars PROVE OnceInv'
  OBVIOUS
<1>1. Inv'
  BY StepInv DEF OnceInv
<1>2. ASSUME NEW c \in SMs, ClaimL1(c) PROVE OnceInv'
  <2>1. l1Count' \in Nat /\ l2Count' \in Nat
    BY <1>2 DEF OnceInv, ClaimL1
  <2> QED
    BY <1>1, <1>2, <2>1, ClaimL1Task, ClaimL1None DEF OnceInv
<1>3. ASSUME NEW c \in SMs, ClaimL2(c) PROVE OnceInv'
  <2>1. l1Count' \in Nat /\ l2Count' \in Nat
    BY <1>3 DEF OnceInv, ClaimL2
  <2> QED
    BY <1>1, <1>3, <2>1, ClaimL2Task, ClaimL2None DEF OnceInv
<1>4. ASSUME NEW c \in SMs, PassGate(c) PROVE OnceInv'
  <2>1. l1Count' \in Nat /\ l2Count' \in Nat
    BY <1>4 DEF OnceInv, PassGate
  <2> QED
    BY <1>1, <1>4, <2>1, PassGateOnce DEF OnceInv
<1>5. ASSUME NEW c \in SMs, LoadB(c) \/ LoadA(c) \/ MathStep(c) PROVE OnceInv'
  <2>1. UNCHANGED claimVars
    BY <1>5 DEF LoadB, LoadA, MathStep, Consume, PublishPartial, Finish
  <2> QED
    BY <2>1, UnmovedOnce DEF claimVars
<1>6. CASE UNCHANGED vars
  BY <1>6, UnmovedOnce DEF vars, claimVars
<1>7. CASE Finished
  BY <1>6, <1>7 DEF Finished
<1> QED
  BY <1>2, <1>3, <1>4, <1>5, <1>6, <1>7 DEF Next, ProducerStep

\* A holder is a spot that holds the task.
LEMMA HolderSpot ==
  ASSUME OnceInv, NEW t \in AllTasks, NEW h \in Holders(t)
  PROVE  \E c \in SMs : \E i \in Spots(c) : h = <<c, i>> /\ At(c, i) = t
<1>1. L1Indices \in Nat /\ L2Indices \in Nat
  BY CountFacts DEF IndicesOf
<1>2. \A c \in SMs : Len(mail[c]) \in Nat
  BY DEF OnceInv, Inv
<1>3. CASE h \in { p \in SMs \X (1 .. L1Indices + L2Indices + 1) :
                     p[2] <= Len(mail[p[1]]) /\ mail[p[1]][p[2]] = t }
  <2>1. PICK c \in SMs : \E i \in 1 .. L1Indices + L2Indices + 1 : h = <<c, i>>
    BY <1>3
  <2>2. PICK i \in 1 .. L1Indices + L2Indices + 1 : h = <<c, i>>
    BY <2>1
  <2>3. i <= Len(mail[c]) /\ mail[c][i] = t
    BY <1>3, <2>2
  <2> QED
    BY <1>1, <1>2, <2>2, <2>3 DEF Spots, At
<1>4. CASE h \in { <<c, 0>> : c \in {d \in SMs : gate[d] = t} }
  BY <1>2, <1>4 DEF Spots, At
<1> QED
  BY <1>3, <1>4 DEF Holders

LEMMA OneHolder ==
  ASSUME OnceInv, NEW t \in AllTasks
  PROVE  Cardinality(Holders(t)) <= 1 /\ (Holders(t) # {} => Cardinality(Holders(t)) = 1)
<1>1. t # None
  BY TaskFields
<1>2. ASSUME NEW h \in Holders(t), NEW g \in Holders(t) PROVE h = g
  <2>1. PICK c \in SMs : \E i \in Spots(c) : h = <<c, i>> /\ At(c, i) = t
    BY HolderSpot
  <2>2. PICK i \in Spots(c) : h = <<c, i>> /\ At(c, i) = t
    BY <2>1
  <2>3. PICK d \in SMs : \E j \in Spots(d) : g = <<d, j>> /\ At(d, j) = t
    BY HolderSpot
  <2>4. PICK j \in Spots(d) : g = <<d, j>> /\ At(d, j) = t
    BY <2>3
  <2>5. c = d /\ i = j
    BY <1>1, <2>2, <2>4 DEF OnceInv, Distinct
  <2> QED
    BY <2>2, <2>4, <2>5
<1>3. CASE Holders(t) = {}
  BY <1>3, FS_EmptySet
<1>4. CASE Holders(t) # {}
  <2>1. PICK h : h \in Holders(t)
    BY <1>4
  <2>2. Holders(t) = {h}
    BY <1>2, <2>1
  <2> QED
    <3>1. Cardinality({h}) = 1
      BY FS_Singleton, Zenon
    <3>2. Cardinality(Holders(t)) = 1
      BY <2>2, <3>1, Zenon
    <3> QED
      BY <3>2
<1> QED
  BY <1>3, <1>4

\* The last L2 task of the launch reads the last M block: its gate asks for
\* every L1 index.
LEMMA LastReader ==
  ASSUME NumMBlocks > 0
  PROVE  \E u \in AllTasks : u.phase = 2 /\ Required(u) = L1Indices
<1> DEFINE f == L2Tasks - 1
           u == IF f < BaseOf(2)
                  THEN [phase |-> 2, full |-> f, split |-> 0, of |-> 1]
                  ELSE [phase |-> 2, full |-> f, split |-> 0, of |-> SplitsOf(2)]
<1>1. /\ BaseOf(2) \in Nat /\ TasksOf(2) \in Nat /\ SplitsOf(2) \in Nat \ {0}
      /\ TasksOf(2) = L2Tasks
  BY CountFacts DEF TasksOf
<1>2. /\ L1SplitBase \in Nat /\ L1Tasks \in Nat /\ L1SplitBase <= L1Tasks
      /\ L1Splits \in Nat \ {0}
  BY CountFacts DEF BaseOf, TasksOf, SplitsOf
<1>3. f = (NumMBlocks - 1) * NumL2BlockNs + (NumL2BlockNs - 1)
  <2>1. NumMBlocks * NumL2BlockNs = (NumMBlocks - 1) * NumL2BlockNs + 1 * NumL2BlockNs
    BY TaskCountsAssumption, Distribute
  <2>2. (NumMBlocks - 1) * NumL2BlockNs \in Int
    BY TaskCountsAssumption
  <2> QED
    BY <2>1, <2>2, TaskCountsAssumption DEF L2Tasks
<1>4. f \div NumL2BlockNs = NumMBlocks - 1
  <2>1. NumL2BlockNs \in Nat \ {0} /\ NumMBlocks - 1 \in Int
        /\ NumL2BlockNs - 1 \in 0 .. NumL2BlockNs - 1
    BY TaskCountsAssumption
  <2> HIDE DEF f
  <2> QED
    BY <1>3, <2>1, DivUnique
<1>5. f \in 0 .. TasksOf(2) - 1
  <2>1. (NumMBlocks - 1) * NumL2BlockNs \in Nat
    <3>1. NumMBlocks - 1 \in Nat /\ NumL2BlockNs \in Nat
      BY TaskCountsAssumption
    <3> QED
      BY <3>1
  <2>2. f >= 0
    BY <1>3, <2>1, TaskCountsAssumption
  <2> QED
    BY <1>1, <2>2
<1> HIDE DEF f
<1>6. u \in AllTasks
  BY <1>1, <1>5, AllTasksFacts
<1>7. u.phase = 2 /\ u.full = f
  OBVIOUS
<1> HIDE DEF u
<1>8. BlockOf(u) = NumMBlocks - 1
  BY <1>4, <1>7 DEF BlockOf
<1>9. Required(u) = L1IndicesFor(L1Tasks)
  <2>1. (BlockOf(u) + 1) = NumMBlocks
    BY <1>8, TaskCountsAssumption
  <2> QED
    BY <2>1, Zenon DEF Required, L1Tasks
<1>10. L1IndicesFor(L1Tasks) = L1Indices
  <2>1. CASE L1Tasks <= L1SplitBase
    BY <1>2, <2>1 DEF L1IndicesFor, L1Indices
  <2>2. CASE ~(L1Tasks <= L1SplitBase)
    BY <2>2 DEF L1IndicesFor, L1Indices
  <2> QED
    BY <2>1, <2>2
<1> QED
  BY <1>6, <1>7, <1>9, <1>10

\* When every producer has stopped, every task is in a mailbox.
LEMMA AllInMail ==
  ASSUME OnceInv, \A c \in SMs : Stopped(c), NEW t \in AllTasks
  PROVE  \E c \in SMs : \E i \in 1 .. Len(mail[c]) : mail[c][i] = t
<1>1. Inv
  BY DEF OnceInv
<1>2. \A c \in SMs : gate[c] = None /\ l2Count >= L2Indices
  BY <1>1 DEF OnceInv, Inv, Sentinel, Stopped
<1>3. 0 \in SMs
  BY TaskCountsAssumption DEF SMs
<1>4. L1Indices \in Nat /\ L2Indices \in Nat /\ l1Count \in Nat /\ l2Count \in Nat
  BY CountFacts DEF IndicesOf, OnceInv
<1>5. \A u \in AllTasks : /\ u.phase \in {1, 2}
                          /\ Index(u) \in 0 .. IndicesOf(u.phase) - 1
                          /\ u # None
  BY TaskFields, IndexOfTask
<1>6. ASSUME NEW u \in AllTasks, Index(u) < Claimed(u.phase)
      PROVE  \E c \in SMs : \E i \in 1 .. Len(mail[c]) : mail[c][i] = u
  <2>1. PICK c \in SMs : \E i \in Spots(c) : At(c, i) = u
    BY <1>6 DEF OnceInv, Covered
  <2>2. PICK i \in Spots(c) : At(c, i) = u
    BY <2>1
  <2>3. i # 0
    BY <1>2, <1>5, <2>2 DEF At
  <2>4. i \in 1 .. Len(mail[c]) /\ mail[c][i] = u
    BY <1>1, <2>2, <2>3 DEF At, Spots, Inv
  <2> QED
    BY <2>4
<1>7. \A u \in AllTasks : u.phase = 2 => Index(u) < Claimed(u.phase)
  BY <1>2, <1>3, <1>4, <1>5 DEF Claimed, IndicesOf
<1>8. CASE t.phase = 2
  BY <1>6, <1>7, <1>8
<1>9. CASE t.phase = 1
  <2>1. NumMBlocks > 0
    <3>1. t.full \in 0 .. L1Tasks - 1
      BY <1>9, TaskFields DEF TasksOf
    <3>2. NumMBlocks = 0 => L1Tasks = 0
      BY TaskCountsAssumption DEF L1Tasks
    <3> QED
      BY <3>1, <3>2, TaskCountsAssumption
  <2>2. PICK u \in AllTasks : u.phase = 2 /\ Required(u) = L1Indices
    BY <2>1, LastReader
  <2>3. PICK c \in SMs : \E i \in 1 .. Len(mail[c]) : mail[c][i] = u
    BY <1>6, <1>7, <2>2
  <2>4. l1Count >= Required(u)
    BY <1>1, <2>2, <2>3 DEF Inv, PastGate
  <2>5. Index(t) < Claimed(t.phase)
    BY <1>4, <1>5, <1>9, <2>2, <2>4 DEF Claimed, IndicesOf
  <2> QED
    BY <1>6, <2>5
<1> QED
  BY <1>5, <1>8, <1>9

LEMMA OnceImplies == OnceInv => EveryTaskOnce
<1> SUFFICES ASSUME OnceInv, NEW t \in AllTasks
             PROVE  /\ Cardinality(Holders(t)) <= 1
                    /\ (\A c \in SMs : Stopped(c)) => Cardinality(Holders(t)) = 1
  BY DEF EveryTaskOnce
<1>1. ASSUME \A c \in SMs : Stopped(c) PROVE Holders(t) # {}
  <2>1. PICK c \in SMs : \E i \in 1 .. Len(mail[c]) : mail[c][i] = t
    BY <1>1, AllInMail
  <2>2. PICK i \in 1 .. Len(mail[c]) : mail[c][i] = t
    BY <2>1
  <2>3. Len(mail[c]) \in Nat
    BY DEF OnceInv, Inv
  <2>4. Len(mail[c]) <= L1Indices + L2Indices + 1
    <3>1. L1Indices \in Nat /\ L2Indices \in Nat /\ l1Count \in Nat /\ l2Count \in Nat
      BY CountFacts DEF IndicesOf, OnceInv
    <3>2. Handed <= L1Indices + L2Indices /\ Handed \in Nat
      BY <3>1 DEF Handed, Smaller
    <3>3. Len(mail[c]) + Pending(c) <= Handed + Ended(c)
      BY DEF OnceInv, Counted
    <3> QED
      BY <2>3, <3>1, <3>2, <3>3, PendingType
  <2>5. i \in 1 .. L1Indices + L2Indices + 1 /\ i <= Len(mail[c])
    <3>1. L1Indices \in Nat /\ L2Indices \in Nat
      BY CountFacts DEF IndicesOf
    <3> QED
      BY <2>3, <2>4, <3>1
  <2>6. <<c, i>> \in Holders(t)
    BY <2>2, <2>5 DEF Holders
  <2> QED
    BY <2>6
<1> QED
  BY <1>1, OneHolder

\* No task of the launch is handed to two CTAs, or twice to one, and when all
\* producers have stopped none was forgotten: the counters, the numbering of
\* the K splits, the gates and the sentinel agree for every launch geometry.
THEOREM TasksHandedOnce == Spec => []EveryTaskOnce
<1> QED
  BY InitOnce, StepOnce, OnceImplies, PTL DEF Spec
-----------------------------------------------------------------------------
(***************************************************************************)
(* The K-split flags and the readiness masks.  A flag counts the splits of *)
(* its task that the math warps have passed; the finisher, which waits for *)
(* all the others, puts it back to zero.                                   *)
(***************************************************************************)
\* The math warps of some CTA have finished task t.
Passed(t) ==
  \E c \in SMs : \E i \in 1 .. Len(mail[c]) : i < mathAt[c].task /\ mail[c][i] = t

Part(s, k) == [phase |-> s[1], full |-> s[2], split |-> k, of |-> SplitsOf(s[1])]
LastPart(s) == SplitsOf(s[1]) - 1
PassedParts(s) == { k \in 0 .. LastPart(s) - 1 : Passed(Part(s, k)) }

FlagCounts ==
  \A s \in FlagSlots :
    IF Passed(Part(s, LastPart(s)))
      THEN flag[s] = 0 /\ PassedParts(s) = 0 .. LastPart(s) - 1
      ELSE flag[s] = Cardinality(PassedParts(s))

Masked ==
  \A t \in AllTasks :
    t.phase = 1 /\ NBlockOf(t) \in ready[BlockOf(t)] => Passed(t)

Cursor == [task : Nat \ {0}, stage : Nat]

FlagInv == /\ OnceInv
           /\ mathAt \in [SMs -> Cursor]
           /\ \A c \in SMs : mathAt[c].task <= Len(mail[c]) + 1
           /\ flag \in [FlagSlots -> Nat]
           /\ ready \in [MBlocks -> SUBSET Int]
           /\ FlagCounts
           /\ Masked

LEMMA SlotFacts ==
  ASSUME NEW s \in FlagSlots
  PROVE  /\ s[1] \in {1, 2}
         /\ s[2] \in BaseOf(s[1]) .. TasksOf(s[1]) - 1
         /\ s = <<s[1], s[2]>>
         /\ SplitsOf(s[1]) \in Nat /\ SplitsOf(s[1]) > 1
         /\ LastPart(s) \in Nat \ {0}
         /\ \A k \in 0 .. LastPart(s) : Part(s, k) \in AllTasks
<1>1. /\ s[1] \in {1, 2}
      /\ s[2] \in BaseOf(s[1]) .. TasksOf(s[1]) - 1
      /\ s = <<s[1], s[2]>>
  BY DEF FlagSlots, BaseOf, TasksOf
<1>2. /\ BaseOf(s[1]) \in Nat /\ TasksOf(s[1]) \in Nat
      /\ SplitsOf(s[1]) \in Nat \ {0}
      /\ SplitsOf(s[1]) = 1 => BaseOf(s[1]) = TasksOf(s[1])
  BY <1>1, CountFacts
<1>3. SplitsOf(s[1]) \in Nat /\ SplitsOf(s[1]) > 1 /\ LastPart(s) \in Nat \ {0}
  BY <1>1, <1>2 DEF LastPart
<1>4. \A k \in 0 .. LastPart(s) : Part(s, k) \in AllTasks
  BY <1>1, <1>2, <1>3, AllTasksFacts DEF Part, LastPart
<1> QED
  BY <1>1, <1>3, <1>4

\* A task with several splits is a part of its slot; one with a single split
\* has no slot.
LEMMA TaskSlot ==
  ASSUME NEW t \in AllTasks
  PROVE  /\ t.of > 1 => /\ Slot(t) \in FlagSlots
                        /\ t = Part(Slot(t), t.split)
                        /\ t.split \in 0 .. LastPart(Slot(t))
                        /\ t.of = LastPart(Slot(t)) + 1
         /\ t.of = 1 => t.full < BaseOf(t.phase)
         /\ \A s \in FlagSlots : \A k \in 0 .. LastPart(s) :
              t = Part(s, k) => t.of > 1 /\ s = Slot(t) /\ k = t.split
<1>1. /\ t.phase \in {1, 2}
      /\ t = [phase |-> t.phase, full |-> t.full, split |-> t.split, of |-> t.of]
      /\ t.full \in 0 .. TasksOf(t.phase) - 1
      /\ t.full < BaseOf(t.phase) => t.split = 0 /\ t.of = 1
      /\ t.full >= BaseOf(t.phase) =>
           t.split \in 0 .. SplitsOf(t.phase) - 1 /\ t.of = SplitsOf(t.phase)
      /\ t.of \in Nat \ {0}
  BY TaskFields
<1>2. /\ BaseOf(t.phase) \in Nat /\ TasksOf(t.phase) \in Nat
      /\ SplitsOf(t.phase) \in Nat \ {0}
      /\ SplitsOf(t.phase) = 1 => BaseOf(t.phase) = TasksOf(t.phase)
  BY <1>1, CountFacts
<1>3. ASSUME t.of > 1
      PROVE  /\ Slot(t) \in FlagSlots
             /\ t = Part(Slot(t), t.split)
             /\ t.split \in 0 .. LastPart(Slot(t))
             /\ t.of = LastPart(Slot(t)) + 1
  <2>1. /\ t.full \in BaseOf(t.phase) .. TasksOf(t.phase) - 1
        /\ t.split \in 0 .. SplitsOf(t.phase) - 1 /\ t.of = SplitsOf(t.phase)
    BY <1>1, <1>2, <1>3
  <2>2. Slot(t) \in FlagSlots
    BY <1>1, <2>1 DEF Slot, FlagSlots, BaseOf, TasksOf
  <2>3. LastPart(Slot(t)) = SplitsOf(t.phase) - 1
    BY DEF LastPart, Slot
  <2>4. t = Part(Slot(t), t.split)
    BY <1>1, <2>1 DEF Part, Slot
  <2> QED
    BY <1>2, <2>1, <2>2, <2>3, <2>4
<1>4. t.of = 1 => t.full < BaseOf(t.phase)
  BY <1>1, <1>2
<1>5. ASSUME NEW s \in FlagSlots, NEW k \in 0 .. LastPart(s), t = Part(s, k)
      PROVE  t.of > 1 /\ s = Slot(t) /\ k = t.split
  BY <1>5, SlotFacts DEF Part, Slot
<1> QED
  BY <1>3, <1>4, <1>5

\* The M block of an L1 task exists, and its place in it tells which it is.
LEMMA L1Place ==
  ASSUME NEW t \in AllTasks, t.phase = 1
  PROVE  /\ BlockOf(t) \in MBlocks /\ NBlockOf(t) \in Int
         /\ t.full = BlockOf(t) * NumL1BlockNs + NBlockOf(t)
<1>1. t.full \in Int /\ t.full >= 0 /\ t.full < NumMBlocks * NumL1BlockNs
  <2>1. t.full \in 0 .. L1Tasks - 1 /\ L1Tasks \in Nat
    BY TaskFields, CountFacts DEF TasksOf
  <2> QED
    BY <2>1 DEF L1Tasks
<1>2. BlockOf(t) = t.full \div NumL1BlockNs /\ NBlockOf(t) = t.full % NumL1BlockNs
  BY DEF BlockOf, NBlockOf
<1>3. t.full \div NumL1BlockNs >= 0 /\ t.full \div NumL1BlockNs < NumMBlocks
  <2>1. t.full >= 0 * NumL1BlockNs
    BY <1>1, TaskCountsAssumption
  <2> QED
    BY <1>1, <2>1, DivAtLeast, DivBelow, TaskCountsAssumption
<1>4. /\ t.full \div NumL1BlockNs \in Int /\ t.full % NumL1BlockNs \in Int
      /\ t.full = (t.full \div NumL1BlockNs) * NumL1BlockNs + (t.full % NumL1BlockNs)
  BY <1>1, DivMod, TaskCountsAssumption
<1>5. BlockOf(t) \in MBlocks
  BY <1>2, <1>3, <1>4, TaskCountsAssumption DEF MBlocks
<1>6. NBlockOf(t) \in Int /\ t.full = BlockOf(t) * NumL1BlockNs + NBlockOf(t)
  BY <1>2, <1>4, Zenon
<1> QED
  BY <1>5, <1>6

\* Publishing does not pass a task.
LEMMA PassedAppend ==
  ASSUME FlagInv, NEW c \in SMs, NEW t \in Task, Publish(c, t), mathAt' = mathAt
  PROVE  /\ \A u : Passed(u)' <=> Passed(u)
         /\ \A d \in SMs : mathAt[d].task <= Len(mail'[d]) + 1
<1> DEFINE n == Len(mail[c])
<1>0. Inv
  BY DEF FlagInv, OnceInv
<1>1. /\ n \in Nat
      /\ Len(mail'[c]) = n + 1
      /\ \A d \in SMs : d # c => mail'[d] = mail[d]
      /\ \A i \in 1 .. n : mail'[c][i] = mail[c][i]
  BY <1>0, AppendSpots
<1>2. \A d \in SMs : mathAt[d].task \in Nat /\ mathAt[d].task <= Len(mail[d]) + 1
  BY DEF FlagInv, Cursor
<1>3. mathAt[c].task <= n + 1
  BY <1>2
<1> HIDE DEF n
<1>4. \A d \in SMs : \A i \in 1 .. Len(mail[d]) :
        i \in 1 .. Len(mail'[d]) /\ mail'[d][i] = mail[d][i]
  BY <1>1 DEF n
<1>5. \A d \in SMs : \A i \in 1 .. Len(mail'[d]) :
        i < mathAt[d].task => i \in 1 .. Len(mail[d])
  BY <1>1, <1>2, <1>3 DEF n
<1>6. ASSUME NEW u PROVE Passed(u)' <=> Passed(u)
  <2>1. Passed(u)' <=> \E d \in SMs : \E i \in 1 .. Len(mail'[d]) :
                         i < mathAt[d].task /\ mail'[d][i] = u
    BY DEF Passed
  <2> QED
    BY <1>4, <1>5, <2>1 DEF Passed
<1>7. \A d \in SMs : mathAt[d].task <= Len(mail'[d]) + 1
  BY <1>1, <1>2, <1>3 DEF n
<1> QED
  BY <1>6, <1>7

\* Finishing a task passes it, and it had not been passed.
LEMMA PassedNext ==
  ASSUME FlagInv, NEW c \in SMs, InEpilogue(c), NextTask(c), mail' = mail,
         NEW t, t = mail[c][mathAt[c].task]
  PROVE  /\ t \in AllTasks /\ ~Passed(t)
         /\ \A u : Passed(u)' <=> Passed(u) \/ u = t
         /\ mathAt' \in [SMs -> Cursor]
         /\ \A d \in SMs : mathAt'[d].task <= Len(mail[d]) + 1
<1>1. /\ mathAt \in [SMs -> Cursor] /\ mail \in [SMs -> Seq(Task)]
      /\ Known /\ Distinct
  BY DEF FlagInv, OnceInv, Inv
<1> DEFINE k == mathAt[c].task
<1>2. k \in 1 .. Len(mail[c]) /\ t # None /\ k \in Nat /\ Len(mail[c]) \in Nat
  BY <1>1 DEF InEpilogue, HasTask, Cursor
<1>3. t \in AllTasks
  <2>1. k \in Spots(c) /\ At(c, k) = t
    BY <1>2 DEF Spots, At
  <2> QED
    BY <1>1, <1>2, <2>1 DEF Known
<1>4. ~Passed(t)
  <2>1. SUFFICES ASSUME NEW d \in SMs, NEW i \in 1 .. Len(mail[d]),
                        i < mathAt[d].task, mail[d][i] = t
                 PROVE  FALSE
    BY DEF Passed
  <2>2. i \in Spots(d) /\ At(d, i) = t /\ k \in Spots(c) /\ At(c, k) = t
    BY <1>1, <1>2, <2>1 DEF Spots, At
  <2>3. d = c /\ i = k
    BY <1>1, <1>2, <2>2 DEF Distinct
  <2> QED
    BY <1>2, <2>1, <2>3
<1>5. /\ mathAt'[c].task = k + 1
      /\ \A d \in SMs : d # c => mathAt'[d] = mathAt[d]
      /\ mathAt' \in [SMs -> Cursor]
  BY <1>1, <1>2 DEF NextTask, Cursor
<1>6. ASSUME NEW u PROVE Passed(u)' <=> Passed(u) \/ u = t
  <2>1. Passed(u)' <=> \E d \in SMs : \E i \in 1 .. Len(mail[d]) :
                         i < mathAt'[d].task /\ mail[d][i] = u
    BY DEF Passed
  <2>2. \A d \in SMs : \A i \in 1 .. Len(mail[d]) :
          i < mathAt'[d].task <=> i < mathAt[d].task \/ (d = c /\ i = k)
    BY <1>1, <1>2, <1>5 DEF Cursor
  <2> QED
    BY <1>2, <2>1, <2>2 DEF Passed
<1>7. \A d \in SMs : mathAt'[d].task <= Len(mail[d]) + 1
  <2>1. \A d \in SMs : mathAt[d].task <= Len(mail[d]) + 1
    BY DEF FlagInv
  <2> QED
    BY <1>2, <1>5, <2>1
<1> QED
  BY <1>3, <1>4, <1>5, <1>6, <1>7

\* Steps that finish no task keep the flags and the masks right.
LEMMA FlagsUnmoved ==
  ASSUME FlagInv, OnceInv', UNCHANGED <<flag, ready>>,
         mathAt' \in [SMs -> Cursor],
         \A c \in SMs : mathAt'[c].task <= Len(mail'[c]) + 1,
         \A u : Passed(u)' <=> Passed(u)
  PROVE  FlagInv'
<1>1. \A s \in FlagSlots :
        /\ PassedParts(s)' = PassedParts(s)
        /\ Passed(Part(s, LastPart(s)))' <=> Passed(Part(s, LastPart(s)))
  BY DEF PassedParts, LastPart, Part, SplitsOf
<1>2. FlagCounts'
  <2>1. SUFFICES ASSUME NEW s \in FlagSlots
                 PROVE  IF Passed(Part(s, LastPart(s)))'
                          THEN flag'[s] = 0 /\ PassedParts(s)' = 0 .. LastPart(s) - 1
                          ELSE flag'[s] = Cardinality(PassedParts(s)')
    BY DEF FlagCounts, LastPart, SplitsOf
  <2>2. FlagCounts
    BY DEF FlagInv
  <2> QED
    BY <1>1, <2>2 DEF FlagCounts
<1>3. Masked'
  BY DEF FlagInv, Masked, BlockOf, NBlockOf
<1> QED
  BY <1>2, <1>3 DEF FlagInv

LEMMA FlagsPartial ==
  ASSUME FlagInv, OnceInv', NEW c \in SMs, PublishPartial(c)
  PROVE  FlagInv'
<1>1. PICK t : t = mail[c][mathAt[c].task]
  OBVIOUS
<1>2. /\ t.split + 1 < t.of /\ flag' = [flag EXCEPT ![Slot(t)] = @ + 1]
      /\ InEpilogue(c) /\ NextTask(c) /\ mail' = mail /\ ready' = ready
  BY <1>1 DEF PublishPartial, claimVars
<1>3. /\ t \in AllTasks /\ ~Passed(t)
      /\ \A u : Passed(u)' <=> Passed(u) \/ u = t
      /\ mathAt' \in [SMs -> Cursor]
      /\ \A d \in SMs : mathAt'[d].task <= Len(mail[d]) + 1
  BY <1>1, <1>2, PassedNext
<1>4. t.of \in Nat /\ t.split \in Nat /\ t.of > 1
  BY <1>2, <1>3, TaskFields
<1> DEFINE z == Slot(t)
<1>5. /\ z \in FlagSlots /\ t = Part(z, t.split)
      /\ t.split \in 0 .. LastPart(z) - 1 /\ LastPart(z) \in Nat \ {0}
  BY <1>2, <1>3, <1>4, TaskSlot, SlotFacts
<1>6. \A s \in FlagSlots : \A k \in 0 .. LastPart(s) :
        t = Part(s, k) => s = z /\ k = t.split
  BY <1>3, TaskSlot
<1> HIDE DEF z
<1>7. FlagCounts /\ flag \in [FlagSlots -> Nat]
  BY DEF FlagInv
<1>8. FlagCounts'
  <2>1. SUFFICES ASSUME NEW s \in FlagSlots
                 PROVE  IF Passed(Part(s, LastPart(s)))'
                          THEN flag'[s] = 0 /\ PassedParts(s)' = 0 .. LastPart(s) - 1
                          ELSE flag'[s] = Cardinality(PassedParts(s)')
    BY DEF FlagCounts, LastPart, SplitsOf
  <2>2. PassedParts(s)' = { k \in 0 .. LastPart(s) - 1 :
                              Passed(Part(s, k)) \/ Part(s, k) = t }
    BY <1>3 DEF PassedParts, LastPart, Part, SplitsOf
  <2>3. Passed(Part(s, LastPart(s)))' <=>
          Passed(Part(s, LastPart(s))) \/ Part(s, LastPart(s)) = t
    BY <1>3 DEF LastPart, Part, SplitsOf
  <2>4. LastPart(s) \in Nat \ {0}
    BY SlotFacts
  <2>5. Part(s, LastPart(s)) # t
    BY <1>5, <1>6, <2>4
  <2>6. CASE s # z
    <3>1. PassedParts(s)' = PassedParts(s)
      BY <1>6, <2>2, <2>4, <2>6 DEF PassedParts
    <3>2. flag'[s] = flag[s]
      BY <1>2, <1>7, <2>6 DEF z
    <3> QED
      BY <1>7, <2>3, <2>5, <3>1, <3>2 DEF FlagCounts
  <2>7. CASE s = z
    <3>1. t.split \notin PassedParts(s)
      BY <1>3, <1>5, <2>7 DEF PassedParts
    <3>2. ~Passed(Part(s, LastPart(s)))
      BY <1>5, <1>7, <2>7, <3>1 DEF FlagCounts
    <3>3. PassedParts(s)' = PassedParts(s) \cup {t.split}
      BY <1>5, <1>6, <2>2, <2>4, <2>7 DEF PassedParts
    <3>4. IsFiniteSet(PassedParts(s))
      <4>1. PassedParts(s) \in SUBSET (0 .. LastPart(s) - 1)
        BY DEF PassedParts
      <4>2. IsFiniteSet(0 .. LastPart(s) - 1)
        BY <2>4, FS_Interval
      <4> QED
        BY <4>1, <4>2, FS_Subset
    <3>5. Cardinality(PassedParts(s) \cup {t.split}) = Cardinality(PassedParts(s)) + 1
      BY <3>1, <3>4, FS_AddElement
    <3>6. flag'[s] = flag[s] + 1
      BY <1>2, <1>7, <2>7 DEF z
    <3>7. flag[s] = Cardinality(PassedParts(s))
      BY <1>7, <3>2 DEF FlagCounts
    <3> QED
      BY <2>3, <2>5, <3>2, <3>3, <3>5, <3>6, <3>7
  <2> QED
    BY <2>6, <2>7
<1>9. Masked'
  BY <1>2, <1>3 DEF FlagInv, Masked, BlockOf, NBlockOf
<1>10. flag' \in [FlagSlots -> Nat]
  BY <1>2, <1>5, <1>7 DEF z
<1> QED
  BY <1>2, <1>3, <1>8, <1>9, <1>10 DEF FlagInv

\* The finisher of a task with K splits has waited for all the others.
LEMMA AllPartsPassed ==
  ASSUME FlagInv, NEW z \in FlagSlots, ~Passed(Part(z, LastPart(z))),
         flag[z] = LastPart(z)
  PROVE  PassedParts(z) = 0 .. LastPart(z) - 1
<1>1. LastPart(z) \in Nat \ {0}
  BY SlotFacts
<1>2. IsFiniteSet(0 .. LastPart(z) - 1) /\ Cardinality(0 .. LastPart(z) - 1) = LastPart(z)
  BY <1>1, FS_Interval
<1>3. PassedParts(z) \in SUBSET (0 .. LastPart(z) - 1)
  BY DEF PassedParts
<1>4. Cardinality(PassedParts(z)) = LastPart(z)
  BY DEF FlagInv, FlagCounts
<1> QED
  BY <1>2, <1>3, <1>4, FS_Subset

LEMMA FlagsFinish ==
  ASSUME FlagInv, OnceInv', NEW c \in SMs, Finish(c)
  PROVE  FlagInv'
<1>1. PICK t : t = mail[c][mathAt[c].task]
  OBVIOUS
<1>2. /\ t.split + 1 = t.of
      /\ InEpilogue(c) /\ NextTask(c) /\ mail' = mail
      /\ IF t.of = 1 THEN flag' = flag
         ELSE flag[Slot(t)] = t.of - 1 /\ flag' = [flag EXCEPT ![Slot(t)] = 0]
      /\ IF t.phase = 1
           THEN ready' = [ready EXCEPT ![BlockOf(t)] = @ \cup {NBlockOf(t)}]
           ELSE ready' = ready
  BY <1>1 DEF Finish, claimVars
<1>3. /\ t \in AllTasks /\ ~Passed(t)
      /\ \A u : Passed(u)' <=> Passed(u) \/ u = t
      /\ mathAt' \in [SMs -> Cursor]
      /\ \A d \in SMs : mathAt'[d].task <= Len(mail[d]) + 1
  BY <1>1, <1>2, PassedNext
<1>4. t.of \in Nat \ {0} /\ t.split \in Nat
  BY <1>3, TaskFields
<1>5. FlagCounts /\ flag \in [FlagSlots -> Nat]
  BY DEF FlagInv
<1> DEFINE z == Slot(t)
<1>6. t.of # 1 => /\ z \in FlagSlots /\ t = Part(z, LastPart(z))
                  /\ PassedParts(z) = 0 .. LastPart(z) - 1
                  /\ LastPart(z) \in Nat \ {0}
  <2>1. SUFFICES ASSUME t.of # 1
                 PROVE  /\ z \in FlagSlots /\ t = Part(z, LastPart(z))
                        /\ PassedParts(z) = 0 .. LastPart(z) - 1
                        /\ LastPart(z) \in Nat \ {0}
    OBVIOUS
  <2>2. t.of > 1
    BY <1>4, <2>1
  <2>3. /\ z \in FlagSlots /\ t = Part(z, t.split) /\ t.of = LastPart(z) + 1
        /\ LastPart(z) \in Nat \ {0}
    BY <1>3, <2>2, TaskSlot, SlotFacts
  <2>4. t.split = LastPart(z) /\ flag[z] = LastPart(z)
    BY <1>2, <1>4, <2>1, <2>3
  <2> HIDE DEF z
  <2>5. t = Part(z, LastPart(z))
    BY <2>3, <2>4
  <2>6. PassedParts(z) = 0 .. LastPart(z) - 1
    BY <1>3, <2>3, <2>4, <2>5, AllPartsPassed
  <2> QED
    BY <2>3, <2>5, <2>6
<1>7. \A s \in FlagSlots : \A k \in 0 .. LastPart(s) :
        t = Part(s, k) => t.of # 1 /\ s = z /\ k = t.split
  BY <1>3, <1>4, TaskSlot
<1>8. FlagCounts'
  <2>1. SUFFICES ASSUME NEW s \in FlagSlots
                 PROVE  IF Passed(Part(s, LastPart(s)))'
                          THEN flag'[s] = 0 /\ PassedParts(s)' = 0 .. LastPart(s) - 1
                          ELSE flag'[s] = Cardinality(PassedParts(s)')
    BY DEF FlagCounts, LastPart, SplitsOf
  <2>2. PassedParts(s)' = { k \in 0 .. LastPart(s) - 1 :
                              Passed(Part(s, k)) \/ Part(s, k) = t }
    BY <1>3 DEF PassedParts, LastPart, Part, SplitsOf
  <2>3. Passed(Part(s, LastPart(s)))' <=>
          Passed(Part(s, LastPart(s))) \/ Part(s, LastPart(s)) = t
    BY <1>3 DEF LastPart, Part, SplitsOf
  <2>4. LastPart(s) \in Nat \ {0}
    BY SlotFacts
  <2>5. CASE t.of = 1 \/ s # z
    <3>1. \A k \in 0 .. LastPart(s) : Part(s, k) # t
      BY <1>7, <2>5
    <3>2. PassedParts(s)' = PassedParts(s)
      BY <2>2, <2>4, <3>1 DEF PassedParts
    <3>3. Part(s, LastPart(s)) # t
      BY <2>4, <3>1
    <3>4. flag'[s] = flag[s]
      BY <1>2, <1>5, <2>5
    <3> QED
      BY <1>5, <2>3, <3>2, <3>3, <3>4 DEF FlagCounts
  <2>6. CASE t.of # 1 /\ s = z
    <3>1. Part(s, LastPart(s)) = t /\ PassedParts(s) = 0 .. LastPart(s) - 1
      BY <1>6, <2>6
    <3>2. PassedParts(s)' = 0 .. LastPart(s) - 1
      BY <2>2, <3>1 DEF PassedParts
    <3>3. flag'[s] = 0
      BY <1>2, <1>5, <2>6
    <3> QED
      BY <2>3, <3>1, <3>2, <3>3
  <2> QED
    BY <2>5, <2>6
<1>9. Masked'
  <2>1. SUFFICES ASSUME NEW u \in AllTasks, u.phase = 1,
                        NBlockOf(u) \in ready'[BlockOf(u)]
                 PROVE  Passed(u)'
    BY DEF Masked, BlockOf, NBlockOf
  <2>2. CASE NBlockOf(u) \in ready[BlockOf(u)]
    BY <1>3, <2>1, <2>2 DEF FlagInv, Masked
  <2>3. CASE NBlockOf(u) \notin ready[BlockOf(u)]
    <3>1. ready \in [MBlocks -> SUBSET Int]
      BY DEF FlagInv
    <3>2. t.phase = 1
      BY <1>2, <2>1, <2>3
    <3>3. BlockOf(u) \in MBlocks /\ BlockOf(t) \in MBlocks
      BY <1>3, <2>1, <3>2, L1Place
    <3>4. BlockOf(u) = BlockOf(t) /\ NBlockOf(u) = NBlockOf(t)
      BY <1>2, <2>1, <2>3, <3>1, <3>2, <3>3
    <3>5. u.full = t.full
      BY <1>3, <2>1, <3>2, <3>4, L1Place
    <3>6. CASE t.of = 1
      <4>1. t.full < BaseOf(1)
        BY <1>3, <3>2, <3>6, TaskSlot
      <4>2. /\ u = [phase |-> 1, full |-> t.full, split |-> 0, of |-> 1]
            /\ t = [phase |-> 1, full |-> t.full, split |-> 0, of |-> 1]
        <5>1. /\ u = [phase |-> u.phase, full |-> u.full, split |-> u.split, of |-> u.of]
              /\ u.full < BaseOf(u.phase) => u.split = 0 /\ u.of = 1
          BY TaskFields
        <5>2. /\ t = [phase |-> t.phase, full |-> t.full, split |-> t.split, of |-> t.of]
              /\ t.full < BaseOf(t.phase) => t.split = 0 /\ t.of = 1
          BY <1>3, TaskFields
        <5> QED
          BY <2>1, <3>2, <3>5, <4>1, <5>1, <5>2
      <4> QED
        BY <1>3, <4>2
    <3>7. CASE t.of # 1
      <4>1. z \in FlagSlots /\ t = Part(z, LastPart(z))
            /\ PassedParts(z) = 0 .. LastPart(z) - 1 /\ LastPart(z) \in Nat \ {0}
        BY <1>6, <3>7
      <4>2. z = <<1, t.full>>
        BY <3>2 DEF Slot
      <4>3. u.of > 1 /\ Slot(u) = z
        <5>1. z[1] = 1 /\ z[2] = t.full
          BY <4>2
        <5>2. t.full >= BaseOf(1) /\ SplitsOf(1) > 1
          BY <4>1, <5>1, SlotFacts, CountFacts
        <5>3. u.of = SplitsOf(1)
          BY <2>1, <3>5, <5>2, TaskFields, CountFacts
        <5> QED
          BY <2>1, <3>5, <4>2, <5>2, <5>3 DEF Slot
      <4>4. u = Part(z, u.split) /\ u.split \in 0 .. LastPart(z)
        BY <4>3, TaskSlot
      <4>5. CASE u.split = LastPart(z)
        BY <1>3, <4>1, <4>4, <4>5
      <4>6. CASE u.split # LastPart(z)
        <5>1. u.split \in PassedParts(z)
          BY <4>1, <4>4, <4>6
        <5>2. Passed(Part(z, u.split))
          BY <5>1 DEF PassedParts
        <5> QED
          BY <1>3, <4>4, <5>2
      <4> QED
        BY <4>5, <4>6
    <3> QED
      BY <3>6, <3>7
  <2> QED
    BY <2>2, <2>3
<1>10. flag' \in [FlagSlots -> Nat]
  BY <1>2, <1>5, <1>6
<1>11. ready' \in [MBlocks -> SUBSET Int]
  <2>1. ready \in [MBlocks -> SUBSET Int]
    BY DEF FlagInv
  <2>2. t.phase = 1 => BlockOf(t) \in MBlocks /\ NBlockOf(t) \in Int
    BY <1>3, L1Place
  <2> QED
    BY <1>2, <2>1, <2>2
<1> QED
  BY <1>2, <1>3, <1>8, <1>9, <1>10, <1>11 DEF FlagInv

LEMMA InitFlags == Init => FlagInv
<1> SUFFICES ASSUME Init PROVE FlagInv
  OBVIOUS
<1>1. OnceInv
  BY InitOnce
<1>2. /\ mathAt \in [SMs -> Cursor]
      /\ flag \in [FlagSlots -> Nat]
      /\ ready \in [MBlocks -> SUBSET Int]
      /\ \A c \in SMs : mathAt[c].task <= Len(mail[c]) + 1 /\ Len(mail[c]) = 0
  BY DEF Init, Begin, Cursor
<1>3. \A u : ~Passed(u)
  BY <1>2 DEF Passed
<1>4. FlagCounts
  <2>1. SUFFICES ASSUME NEW s \in FlagSlots PROVE flag[s] = Cardinality(PassedParts(s))
    BY <1>3 DEF FlagCounts
  <2>2. PassedParts(s) = {}
    BY <1>3 DEF PassedParts
  <2>3. flag[s] = 0
    BY DEF Init
  <2> QED
    BY <2>2, <2>3, FS_EmptySet
<1>5. Masked
  <2>1. \A t \in AllTasks : t.phase = 1 => ready[BlockOf(t)] = {}
    BY L1Place DEF Init
  <2> QED
    BY <2>1 DEF Masked
<1> QED
  BY <1>1, <1>2, <1>4, <1>5 DEF FlagInv

LEMMA StepFlags == FlagInv /\ [Next]_vars => FlagInv'
<1> SUFFICES ASSUME FlagInv, [Next]_vars PROVE FlagInv'
  OBVIOUS
<1>1. OnceInv'
  BY StepOnce DEF FlagInv
<1>2. /\ mathAt \in [SMs -> Cursor] /\ Inv
      /\ \A c \in SMs : mathAt[c].task <= Len(mail[c]) + 1
  BY DEF FlagInv, OnceInv
\* Steps that touch neither the mailboxes nor the task the math warps are on.
<1>3. ASSUME UNCHANGED <<mail, mathAt, flag, ready>> PROVE FlagInv'
  <2>1. \A u : Passed(u)' <=> Passed(u)
    BY <1>3 DEF Passed
  <2>2. mathAt' \in [SMs -> Cursor] /\ \A c \in SMs : mathAt'[c].task <= Len(mail'[c]) + 1
    BY <1>2, <1>3
  <2> QED
    BY <1>1, <1>3, <2>1, <2>2, FlagsUnmoved
\* Steps that publish.
<1>4. ASSUME NEW c \in SMs, NEW t \in Task, Publish(c, t),
             UNCHANGED <<mathAt, flag, ready>>
      PROVE  FlagInv'
  <2>1. /\ \A u : Passed(u)' <=> Passed(u)
        /\ \A d \in SMs : mathAt[d].task <= Len(mail'[d]) + 1
    BY <1>4, PassedAppend
  <2> QED
    BY <1>1, <1>2, <1>4, <2>1, FlagsUnmoved
<1>5. ASSUME NEW c \in SMs, ClaimL1(c) PROVE FlagInv'
  <2>1. UNCHANGED <<mathAt, flag, ready>> /\ (mail' = mail \/ Publish(c, L1TaskOf(l1Count)))
    BY <1>5 DEF ClaimL1, roleVars
  <2>2. L1TaskOf(l1Count) \in Task
    BY SplitType, <1>2 DEF L1TaskOf, Task, Inv
  <2> QED
    BY <1>3, <1>4, <2>1, <2>2
<1>6. ASSUME NEW c \in SMs, ClaimL2(c) PROVE FlagInv'
  <2>1. UNCHANGED <<mathAt, flag, ready>> /\ (mail' = mail \/ Publish(c, None))
    BY <1>6 DEF ClaimL2, roleVars
  <2>2. None \in Task
    BY DEF None, Task
  <2> QED
    BY <1>3, <1>4, <2>1, <2>2
<1>7. ASSUME NEW c \in SMs, PassGate(c) PROVE FlagInv'
  <2>1. UNCHANGED <<mathAt, flag, ready>> /\ Publish(c, gate[c]) /\ gate[c] \in Task
    BY <1>2, <1>7 DEF PassGate, roleVars, Inv
  <2> QED
    BY <1>4, <2>1
<1>8. ASSUME NEW c \in SMs, LoadB(c) \/ LoadA(c) PROVE FlagInv'
  <2>1. UNCHANGED <<mail, mathAt, flag, ready>>
    BY <1>8 DEF LoadB, LoadA, claimVars
  <2> QED
    BY <1>3, <2>1
<1>9. ASSUME NEW c \in SMs, Consume(c) PROVE FlagInv'
  <2>1. /\ UNCHANGED <<mail, flag, ready>>
        /\ mathAt' = [mathAt EXCEPT ![c].stage = @ + 1]
    BY <1>9 DEF Consume, claimVars
  <2>2. mathAt' \in [SMs -> Cursor] /\ \A d \in SMs : mathAt'[d].task = mathAt[d].task
    BY <1>2, <2>1 DEF Cursor
  <2>3. \A u : Passed(u)' <=> Passed(u)
    BY <2>1, <2>2 DEF Passed
  <2>4. \A d \in SMs : mathAt'[d].task <= Len(mail'[d]) + 1
    BY <1>2, <2>1, <2>2
  <2> QED
    BY <1>1, <2>1, <2>2, <2>3, <2>4, FlagsUnmoved
<1>10. CASE UNCHANGED vars
  BY <1>3, <1>10 DEF vars, claimVars, roleVars
<1>11. CASE Finished
  BY <1>10, <1>11 DEF Finished
<1> QED
  BY <1>1, <1>5, <1>6, <1>7, <1>8, <1>9, <1>10, <1>11, FlagsPartial, FlagsFinish
     DEF Next, ProducerStep, MathStep

LEMMA FlagsImply == FlagInv => MaskMeansComplete /\ FlagsReset
<1> SUFFICES ASSUME FlagInv PROVE MaskMeansComplete /\ FlagsReset
  OBVIOUS
<1>1. OnceInv /\ Inv /\ Known /\ Distinct
  BY DEF FlagInv, OnceInv
<1>2. MaskMeansComplete
  <2>1. SUFFICES ASSUME NEW c \in SMs, NEW i \in 1 .. Len(mail[c]), mail[c][i].phase = 1,
                        NBlockOf(mail[c][i]) \in ready[BlockOf(mail[c][i])]
                 PROVE  mathAt[c].task > i
    BY DEF MaskMeansComplete
  <2> DEFINE t == mail[c][i]
  <2>2. t # None /\ i \in Spots(c) /\ At(c, i) = t
    BY <2>1, <1>1 DEF None, Spots, At, Inv
  <2>3. t \in AllTasks
    BY <1>1, <2>2 DEF Known
  <2>4. Passed(t)
    BY <2>1, <2>3 DEF FlagInv, Masked
  <2> HIDE DEF t
  <2>5. PICK d \in SMs : \E j \in 1 .. Len(mail[d]) : j < mathAt[d].task /\ mail[d][j] = t
    BY <2>4 DEF Passed
  <2>6. PICK j \in 1 .. Len(mail[d]) : j < mathAt[d].task /\ mail[d][j] = t
    BY <2>5
  <2>7. j \in Spots(d) /\ At(d, j) = t
    BY <1>1, <2>6 DEF Spots, At, Inv
  <2>8. c = d /\ i = j
    BY <1>1, <2>2, <2>7 DEF Distinct
  <2>9. mathAt[c].task \in Nat
    BY DEF FlagInv, Cursor
  <2> QED
    BY <2>6, <2>8, <2>9
<1>3. FlagsReset
  <2>1. SUFFICES ASSUME \A c \in SMs : Exited(c), NEW s \in FlagSlots
                 PROVE  flag[s] = 0
    BY DEF FlagsReset
  <2> DEFINE t == Part(s, LastPart(s))
  <2>2. t \in AllTasks
    BY SlotFacts
  <2>3. t # None
    BY <2>2, TaskFields
  <2> HIDE DEF t
  <2>4. \A c \in SMs : Stopped(c)
    BY <2>1 DEF Exited
  <2>5. PICK c \in SMs : \E i \in 1 .. Len(mail[c]) : mail[c][i] = t
    BY <1>1, <2>2, <2>4, AllInMail
  <2>6. PICK i \in 1 .. Len(mail[c]) : mail[c][i] = t
    BY <2>5
  <2>7. i < mathAt[c].task
    BY <1>1, <2>1, <2>3, <2>6 DEF Exited, Stopped, Inv
  <2>8. Passed(t)
    BY <2>6, <2>7 DEF Passed
  <2> QED
    BY <2>8 DEF t, FlagInv, FlagCounts
<1> QED
  BY <1>2, <1>3

\* A bit of a readiness mask is set only when every K split of its L1 task has
\* been added up.
THEOREM MasksMeanComplete == Spec => []MaskMeansComplete
<1> QED
  BY InitFlags, StepFlags, FlagsImply, PTL DEF Spec

\* A launch that ends leaves every K-split flag at zero for the next one.
THEOREM FlagsLeftClean == Spec => []FlagsReset
<1> QED
  BY InitFlags, StepFlags, FlagsImply, PTL DEF Spec
-----------------------------------------------------------------------------
(***************************************************************************)
(* The task mailbox.  The A loader is ahead of the math warps by exactly   *)
(* the stages in the ring, counted from the start of the launch; the       *)
(* counting function S gives the stages before each task of a mailbox m.   *)
(***************************************************************************)
Counts(m, S) ==
  /\ S \in [1 .. Len(m) + 1 -> Nat]
  /\ \A i \in 1 .. Len(m) : S[i + 1] = S[i] + KStages(m[i])
  /\ \A i, j \in 1 .. Len(m) + 1 : i < j => S[i + 1] <= S[j]

\* A loader at a, math warps at x, r slots released, f stages in the ring, p
\* tasks at the gate: how these agree for one CTA with mailbox m.
InStep(m, a, x, r, f, p) ==
  /\ a \in Cursor /\ x \in Cursor /\ r \in Nat /\ f \in Nat
  /\ a.task <= Len(m) + 1 /\ x.task <= Len(m) + 1
  /\ a.task <= Len(m) => a.stage < KStages(m[a.task])
  /\ x.task <= Len(m) => x.stage <= KStages(m[x.task])
  /\ a.task = Len(m) + 1 => a.stage = 0
  /\ x.task = Len(m) + 1 => x.stage = 0
  /\ r = x.task - 1 + (IF x.stage > 0 THEN 1 ELSE 0)
  /\ Len(m) + p <= r + NumScheduleStages
  /\ \E S : Counts(m, S) /\ S[x.task] + x.stage + f = S[a.task] + a.stage

Staged(m) == m \in Seq(Task) /\ \A i \in 1 .. Len(m) : KStages(m[i]) \in Nat \ {0}

MailboxInv ==
  /\ OnceInv
  /\ aAt \in [SMs -> Cursor] /\ mathAt \in [SMs -> Cursor]
  /\ aFilled \in [SMs -> Nat] /\ released \in [SMs -> Nat]
  /\ \A c \in SMs :
       InStep(mail[c], aAt[c], mathAt[c], released[c], aFilled[c], Pending(c))

\* Every task of a mailbox, and the sentinel, has a K stage.
LEMMA StagesType ==
  ASSUME NEW t \in AllTasks \cup {None}
  PROVE  KStages(t) \in Nat \ {0}
<1> DEFINE total == IF t.phase = 1 THEN L1KStages ELSE L2KStages
<1>1. total \in Nat /\ t.of \in Nat \ {0} /\ total >= t.of
  <2>1. CASE t = None
    BY <2>1, SchedulerAssumption, TaskCountsAssumption DEF None
  <2>2. CASE t \in AllTasks
    <3>1. /\ t.phase \in {1, 2} /\ t.of \in Nat \ {0}
          /\ t.of = 1 \/ t.of = SplitsOf(t.phase)
      BY <2>2, TaskFields, CountFacts
    <3>2. SplitsOf(t.phase) \in Nat /\
          SplitsOf(t.phase) <= (IF t.phase = 1 THEN NumL1KSplits ELSE NumL2KSplits)
      BY <3>1, CountFacts
    <3> QED
      BY <3>1, <3>2, SchedulerAssumption, TaskCountsAssumption
  <2> QED
    BY <2>1, <2>2
<1> HIDE DEF total
<1>2. total \div t.of \in Int /\ total \div t.of >= 1
  <2>1. total >= 1 * t.of /\ total \in Int
    BY <1>1
  <2> QED
    BY <1>1, <2>1, DivAtLeast
<1>3. KStages(t) = SplitStages(total, t)
  BY DEF KStages, total
<1>4. KStages(t) = (total \div t.of) +
                   (IF t.split + (total % t.of) >= t.of THEN 1 ELSE 0)
  BY <1>3 DEF SplitStages
<1> HIDE DEF SplitStages
<1> QED
  BY <1>2, <1>4

LEMMA MailStaged ==
  ASSUME OnceInv, NEW c \in SMs
  PROVE  Staged(mail[c]) /\ \A i \in 1 .. Len(mail[c]) : mail[c][i] \in AllTasks \cup {None}
<1>1. mail[c] \in Seq(Task)
  BY DEF OnceInv, Inv
<1>2. ASSUME NEW i \in 1 .. Len(mail[c]) PROVE mail[c][i] \in AllTasks \cup {None}
  <2>1. i \in Spots(c) /\ At(c, i) = mail[c][i]
    BY <1>1 DEF Spots, At
  <2> QED
    BY <2>1 DEF OnceInv, Known
<1> QED
  BY <1>1, <1>2, StagesType DEF Staged

\* Publishing a task, with room for it: from the gate, or directly.
LEMMA InStepAppend ==
  ASSUME NEW m, Staged(m), NEW a, NEW x, NEW r, NEW f, NEW p \in {0, 1},
         InStep(m, a, x, r, f, p), NEW t \in Task, KStages(t) \in Nat \ {0},
         p = 1 \/ Len(m) - r < NumScheduleStages
  PROVE  InStep(Append(m, t), a, x, r, f, 0)
<1> DEFINE n == Len(m)
           w == Append(m, t)
<1>1. /\ w \in Seq(Task) /\ n \in Nat /\ Len(w) = n + 1
      /\ \A i \in 1 .. n : w[i] = m[i]
      /\ w[n + 1] = t
  BY AppendFacts DEF Staged
<1>2. PICK S : Counts(m, S) /\ S[x.task] + x.stage + f = S[a.task] + a.stage
  BY DEF InStep
<1> DEFINE Z == [i \in 1 .. n + 2 |-> IF i = n + 2 THEN S[n + 1] + KStages(t) ELSE S[i]]
<1> HIDE DEF w, n
<1>3. /\ S \in [1 .. n + 1 -> Nat]
      /\ \A i \in 1 .. n : S[i + 1] = S[i] + KStages(m[i])
      /\ \A i, j \in 1 .. n + 1 : i < j => S[i + 1] <= S[j]
  BY <1>2 DEF Counts, n
<1>4. /\ Z \in [1 .. n + 2 -> Nat]
      /\ \A i \in 1 .. n + 1 : Z[i] = S[i]
      /\ Z[n + 2] = S[n + 1] + KStages(t)
  BY <1>1, <1>3
<1> HIDE DEF Z
<1>5. \A i \in 1 .. n + 1 : Z[i + 1] = Z[i] + KStages(w[i])
  <2>1. ASSUME NEW i \in 1 .. n + 1 PROVE Z[i + 1] = Z[i] + KStages(w[i])
    <3>1. CASE i = n + 1
      BY <1>1, <1>4, <3>1
    <3>2. CASE i # n + 1
      BY <1>1, <1>3, <1>4, <3>2
    <3> QED
      BY <3>1, <3>2
  <2> QED
    BY <2>1
<1>6. \A i, j \in 1 .. n + 2 : i < j => Z[i + 1] <= Z[j]
  <2>1. ASSUME NEW i \in 1 .. n + 2, NEW j \in 1 .. n + 2, i < j PROVE Z[i + 1] <= Z[j]
    <3>1. CASE j # n + 2
      BY <1>1, <1>3, <1>4, <2>1, <3>1
    <3>2. CASE j = n + 2 /\ i = n + 1
      BY <1>1, <1>4, <3>2
    <3>3. CASE j = n + 2 /\ i < n + 1
      <4>1. S[i + 1] <= S[n + 1] /\ S[i + 1] \in Nat /\ S[n + 1] \in Nat
        BY <1>1, <1>3, <3>3
      <4> QED
        BY <1>1, <1>4, <3>3, <4>1
    <3> QED
      BY <1>1, <2>1, <3>1, <3>2, <3>3
  <2> QED
    BY <2>1
<1>7. Counts(w, Z)
  BY <1>1, <1>4, <1>5, <1>6 DEF Counts
<1>8. /\ a \in Cursor /\ x \in Cursor /\ r \in Nat /\ f \in Nat
      /\ a.task <= n + 1 /\ x.task <= n + 1
      /\ a.task <= n => a.stage < KStages(m[a.task])
      /\ x.task <= n => x.stage <= KStages(m[x.task])
      /\ a.task = n + 1 => a.stage = 0
      /\ x.task = n + 1 => x.stage = 0
      /\ r = x.task - 1 + (IF x.stage > 0 THEN 1 ELSE 0)
      /\ n + p <= r + NumScheduleStages
      /\ a.task \in Nat \ {0} /\ x.task \in Nat \ {0}
  BY DEF InStep, n, Cursor
<1>9. Z[a.task] = S[a.task] /\ Z[x.task] = S[x.task]
  <2>1. a.task \in 1 .. n + 1 /\ x.task \in 1 .. n + 1
    BY <1>1, <1>8
  <2> QED
    BY <1>4, <2>1
<1>10. Z[x.task] + x.stage + f = Z[a.task] + a.stage
  BY <1>2, <1>9
<1>11. /\ a.task <= n + 1 => a.stage < KStages(w[a.task])
       /\ x.task <= n + 1 => x.stage <= KStages(w[x.task])
  <2>2. a.task # n + 1 => a.stage < KStages(w[a.task])
    BY <1>1, <1>8
  <2>3. x.task = n + 1 => x.stage <= KStages(w[x.task])
    BY <1>1, <1>8
  <2>4. x.task # n + 1 => x.stage <= KStages(w[x.task])
    BY <1>1, <1>8
  <2>5. a.task = n + 1 => a.stage < KStages(w[a.task])
    BY <1>1, <1>8
  <2> QED
    BY <2>2, <2>3, <2>4, <2>5
<1>12. (n + 1) + 0 <= r + NumScheduleStages
  BY <1>1, <1>8 DEF NumScheduleStages, n
<1>13. InStep(w, a, x, r, f, 0)
  BY <1>1, <1>7, <1>8, <1>10, <1>11, <1>12 DEF InStep
<1> QED
  BY <1>13 DEF w

\* A loader goes from a to b; the math warps consume a stage, from x to y.
Filled(m, a, b) ==
  /\ a.task <= Len(m)
  /\ IF a.stage + 1 < KStages(m[a.task])
       THEN b.task = a.task /\ b.stage = a.stage + 1
       ELSE b.task = a.task + 1 /\ b.stage = 0
Taken(m, x, y, f, r, q) ==
  /\ x.task <= Len(m) /\ x.stage # KStages(m[x.task]) /\ f > 0
  /\ y.task = x.task /\ y.stage = x.stage + 1
  /\ q = IF x.stage = 0 THEN r + 1 ELSE r

\* The A loader fills a stage.
LEMMA InStepLoad ==
  ASSUME NEW m, Staged(m), NEW a \in Cursor, NEW x \in Cursor,
         NEW r \in Nat, NEW f \in Nat, NEW p \in {0, 1},
         InStep(m, a, x, r, f, p), NEW b \in Cursor, Filled(m, a, b)
  PROVE  InStep(m, b, x, r, f + 1, p)
<1> DEFINE n == Len(m)
           k == a.task
<1>0. a \in Cursor /\ x \in Cursor /\ Len(m) \in Nat /\ f \in Nat
  BY DEF InStep, Staged
<1>1. /\ a \in Cursor /\ n \in Nat /\ k \in 1 .. n /\ a.stage \in Nat /\ f \in Nat
      /\ a.stage < KStages(m[k]) /\ x.task \in 1 .. n + 1 /\ x.stage \in Nat
      /\ \A i \in 1 .. n : KStages(m[i]) \in Nat \ {0}
  <2>1. k \in 1 .. n /\ a.stage \in Nat /\ x.task \in Nat \ {0} /\ x.stage \in Nat
    BY <1>0 DEF Cursor, Filled
  <2>2. a.stage < KStages(m[k]) /\ x.task <= n + 1
    BY <2>1 DEF InStep
  <2>3. \A i \in 1 .. n : KStages(m[i]) \in Nat \ {0}
    BY DEF Staged
  <2> QED
    BY <1>0, <2>1, <2>2, <2>3
<1>2. PICK S : Counts(m, S) /\ S[x.task] + x.stage + f = S[k] + a.stage
  BY DEF InStep
<1>3. /\ S[k + 1] = S[k] + KStages(m[k])
      /\ S[k] \in Nat /\ S[x.task] \in Nat /\ S[k + 1] \in Nat
  <2>1. S \in [1 .. n + 1 -> Nat] /\ \A i \in 1 .. n : S[i + 1] = S[i] + KStages(m[i])
    BY <1>2 DEF Counts
  <2>2. k \in 1 .. n + 1 /\ k + 1 \in 1 .. n + 1
    BY <1>1
  <2> QED
    BY <1>1, <2>1, <2>2
<1>8. x.stage \in Nat /\ a.stage \in Nat /\ f \in Nat /\ KStages(m[k]) \in Nat
  BY <1>1
<1> HIDE DEF n, k
<1>4. b \in Cursor
  OBVIOUS
<1>5. S[x.task] + x.stage + (f + 1) = S[b.task] + b.stage
  <2>1. CASE a.stage + 1 < KStages(m[k])
    <3>1. b.task = k /\ b.stage = a.stage + 1
      BY <2>1 DEF Filled, k
    <3>2. S[b.task] = S[k]
      BY <3>1
    <3>4. S[x.task] \in Nat /\ S[k] \in Nat /\ x.stage \in Nat /\ a.stage \in Nat
      BY <1>3, <1>8
    <3>5. S[x.task] + x.stage + f = S[k] + a.stage
      BY <1>2
    <3>3. S[x.task] + x.stage + (f + 1) = S[k] + (a.stage + 1)
      BY <3>4, <3>5
    <3> QED
      BY <3>1, <3>2, <3>3, Zenon
  <2>2. CASE ~(a.stage + 1 < KStages(m[k]))
    <3>1. b.task = k + 1 /\ b.stage = 0
      BY <2>2 DEF Filled, k
    <3>2. a.stage + 1 = KStages(m[k])
      BY <1>1, <2>2
    <3>3. S[b.task] = S[k + 1]
      BY <3>1
    <3>4. S[x.task] + x.stage + (f + 1) = (S[k] + KStages(m[k])) + 0
      BY <1>2, <1>3, <1>8, <3>2
    <3> QED
      BY <1>3, <3>1, <3>3, <3>4, Zenon
  <2> QED
    BY <2>1, <2>2
<1>6. /\ b.task <= n + 1
      /\ b.task <= n => b.stage < KStages(m[b.task])
      /\ b.task = n + 1 => b.stage = 0
  <2>1. CASE a.stage + 1 < KStages(m[k])
    <3>1. b.task = k /\ b.stage = a.stage + 1
      BY <2>1 DEF Filled, k
    <3> QED
      BY <1>1, <2>1, <3>1
  <2>2. CASE ~(a.stage + 1 < KStages(m[k]))
    <3>1. b.task = k + 1 /\ b.stage = 0
      BY <2>2 DEF Filled, k
    <3>2. k + 1 <= n => KStages(m[k + 1]) > 0
      BY <1>1
    <3> QED
      BY <1>1, <3>1, <3>2
  <2> QED
    BY <2>1, <2>2
<1>7. f + 1 \in Nat
  BY <1>1
<1> QED
  BY <1>2, <1>4, <1>5, <1>6, <1>7 DEF InStep, n

\* The math warps consume a stage of their task.
LEMMA InStepConsume ==
  ASSUME NEW m, Staged(m), NEW a \in Cursor, NEW x \in Cursor,
         NEW r \in Nat, NEW f \in Nat, NEW p \in {0, 1},
         InStep(m, a, x, r, f, p), NEW y \in Cursor, NEW q \in Nat,
         Taken(m, x, y, f, r, q)
  PROVE  InStep(m, a, y, q, f - 1, p)
<1> DEFINE n == Len(m)
<1>1. /\ x \in Cursor /\ n \in Nat /\ x.task \in 1 .. n /\ x.stage \in Nat /\ f \in Nat
      /\ x.stage <= KStages(m[x.task]) /\ r \in Nat /\ a.task \in 1 .. n + 1
      /\ a.stage \in Nat
      /\ KStages(m[x.task]) \in Nat
      /\ r = x.task - 1 + (IF x.stage > 0 THEN 1 ELSE 0)
      /\ x.stage < KStages(m[x.task]) /\ f > 0
      /\ q = IF x.stage = 0 THEN r + 1 ELSE r
  BY DEF InStep, Cursor, Staged, Taken
<1>2. PICK S : Counts(m, S) /\ S[x.task] + x.stage + f = S[a.task] + a.stage
  BY DEF InStep
<1>3. S[x.task] \in Nat /\ S[a.task] \in Nat
  BY <1>1, <1>2 DEF Counts
<1>10. x.stage \in Nat /\ a.stage \in Nat /\ f \in Nat
  BY <1>1
<1>4. y \in Cursor /\ y.task = x.task /\ y.stage = x.stage + 1
  BY DEF Taken
<1>5. f - 1 \in Nat /\ q \in Nat /\ q >= r
  BY <1>1
<1>6. S[y.task] + y.stage + (f - 1) = S[a.task] + a.stage
  <2>1. S[y.task] = S[x.task]
    BY <1>4
  <2>3. S[x.task] \in Nat /\ S[a.task] \in Nat /\ x.stage \in Nat /\ a.stage \in Nat
    BY <1>3, <1>10
  <2>4. S[x.task] + x.stage + f = S[a.task] + a.stage
    BY <1>2
  <2>2. S[x.task] + (x.stage + 1) + (f - 1) = S[a.task] + a.stage
    BY <2>3, <2>4
  <2> QED
    BY <1>4, <2>1, <2>2, Zenon
<1>7. q = y.task - 1 + (IF y.stage > 0 THEN 1 ELSE 0)
  BY <1>1, <1>4
<1>8. y.stage <= KStages(m[y.task]) /\ y.task <= n /\ y.task # n + 1
  BY <1>1, <1>4
<1>9. n + p <= q + NumScheduleStages
  <2>1. n + p <= r + NumScheduleStages
    BY DEF InStep
  <2>2. q = r \/ q = r + 1
    BY <1>1
  <2> QED
    BY <1>1, <2>1, <2>2 DEF NumScheduleStages
<1> HIDE DEF n
<1> QED
  BY <1>1, <1>2, <1>4, <1>5, <1>6, <1>7, <1>8, <1>9 DEF InStep, n

\* The math warps go on to the next task.
LEMMA InStepNext ==
  ASSUME NEW m, Staged(m), NEW a \in Cursor, NEW x \in Cursor,
         NEW r \in Nat, NEW f \in Nat, NEW p \in {0, 1},
         InStep(m, a, x, r, f, p), x.task <= Len(m),
         x.stage = KStages(m[x.task]),
         NEW y \in Cursor, y.task = x.task + 1, y.stage = 0
  PROVE  InStep(m, a, y, r, f, p)
<1> DEFINE n == Len(m)
<1>1. /\ x \in Cursor /\ n \in Nat /\ x.task \in 1 .. n /\ x.stage \in Nat /\ f \in Nat
      /\ r \in Nat /\ a.task \in 1 .. n + 1
      /\ a.stage \in Nat
      /\ \A i \in 1 .. n : KStages(m[i]) \in Nat \ {0}
      /\ r = x.task - 1 + (IF x.stage > 0 THEN 1 ELSE 0)
  BY DEF InStep, Cursor, Staged
<1>2. PICK S : Counts(m, S) /\ S[x.task] + x.stage + f = S[a.task] + a.stage
  BY DEF InStep
<1>3. /\ S[x.task] \in Nat /\ S[a.task] \in Nat /\ S[x.task + 1] \in Nat
      /\ S[x.task + 1] = S[x.task] + x.stage
  <2>1. S \in [1 .. n + 1 -> Nat] /\ \A i \in 1 .. n : S[i + 1] = S[i] + KStages(m[i])
    BY <1>2 DEF Counts
  <2>2. x.task \in 1 .. n + 1 /\ x.task + 1 \in 1 .. n + 1
    BY <1>1
  <2> QED
    BY <1>1, <2>1, <2>2
<1>4. y \in Cursor /\ y.task = x.task + 1 /\ y.stage = 0
  BY <1>1 DEF Cursor
<1>5. S[y.task] + y.stage + f = S[a.task] + a.stage
  BY <1>1, <1>2, <1>3, <1>4
<1>6. x.stage > 0
  BY <1>1
<1>7. r = y.task - 1 + (IF y.stage > 0 THEN 1 ELSE 0)
  BY <1>1, <1>4, <1>6
<1>8. y.task <= n + 1 /\ (y.task <= n => y.stage <= KStages(m[y.task]))
  BY <1>1, <1>4
<1> HIDE DEF n
<1> QED
  BY <1>1, <1>2, <1>4, <1>5, <1>7, <1>8 DEF InStep, n

\* An L2 task taken to the gate when a mailbox slot is free.
LEMMA InStepGate ==
  ASSUME NEW m, NEW a, NEW x, NEW r, NEW f, m \in Seq(Task),
         InStep(m, a, x, r, f, 0), Len(m) - r < NumScheduleStages,
         NEW p \in {0, 1}
  PROVE  InStep(m, a, x, r, f, p)
<1>1. Len(m) + p <= r + NumScheduleStages
  <2>1. Len(m) \in Nat /\ r \in Nat
    BY DEF InStep
  <2> QED
    BY <2>1 DEF NumScheduleStages
<1> QED
  BY <1>1 DEF InStep

\* A step of CTA c leaves the mailboxes of the others alone.
LEMMA MailboxAt ==
  ASSUME MailboxInv, OnceInv', NEW c \in SMs,
         aAt' \in [SMs -> Cursor], mathAt' \in [SMs -> Cursor],
         aFilled' \in [SMs -> Nat], released' \in [SMs -> Nat],
         \A d \in SMs : d # c =>
           /\ mail'[d] = mail[d] /\ gate'[d] = gate[d] /\ aAt'[d] = aAt[d]
           /\ mathAt'[d] = mathAt[d] /\ released'[d] = released[d]
           /\ aFilled'[d] = aFilled[d],
         InStep(mail'[c], aAt'[c], mathAt'[c], released'[c], aFilled'[c], Pending(c)')
  PROVE  MailboxInv'
<1>1. ASSUME NEW d \in SMs
      PROVE  InStep(mail'[d], aAt'[d], mathAt'[d], released'[d], aFilled'[d], Pending(d)')
  <2>1. CASE d = c
    BY <2>1
  <2>2. CASE d # c
    <3>1. Pending(d)' = Pending(d)
      BY <2>2 DEF Pending
    <3>2. InStep(mail[d], aAt[d], mathAt[d], released[d], aFilled[d], Pending(d))
      BY DEF MailboxInv
    <3> QED
      BY <2>2, <3>1, <3>2
  <2> QED
    BY <2>1, <2>2
<1> QED
  BY <1>1 DEF MailboxInv

LEMMA InitMailbox == Init => MailboxInv
<1> SUFFICES ASSUME Init PROVE MailboxInv
  OBVIOUS
<1>1. OnceInv
  BY InitOnce
<1>2. /\ aAt \in [SMs -> Cursor] /\ mathAt \in [SMs -> Cursor]
      /\ aFilled \in [SMs -> Nat] /\ released \in [SMs -> Nat]
  BY DEF Init, Begin, Cursor
<1>3. ASSUME NEW c \in SMs
      PROVE  InStep(mail[c], aAt[c], mathAt[c], released[c], aFilled[c], Pending(c))
  <2>1. /\ mail[c] = <<>> /\ Len(mail[c]) = 0 /\ aAt[c] = Begin /\ mathAt[c] = Begin
        /\ released[c] = 0 /\ aFilled[c] = 0 /\ Pending(c) = 0
    BY DEF Init, Pending
  <2>2. Begin \in Cursor /\ Begin.task = 1 /\ Begin.stage = 0
    BY DEF Begin, Cursor
  <2>3. Counts(mail[c], [i \in 1 .. 1 |-> 0])
    BY <2>1 DEF Counts
  <2>4. \E S : Counts(mail[c], S) /\ S[1] + 0 + 0 = S[1] + 0
    BY <2>3
  <2> QED
    BY <2>1, <2>2, <2>4 DEF InStep, NumScheduleStages
<1> QED
  BY <1>1, <1>2, <1>3 DEF MailboxInv

\* The producer of CTA c publishes a task or the sentinel.
LEMMA MailboxPublish ==
  ASSUME MailboxInv, OnceInv', NEW c \in SMs, UNCHANGED roleVars,
         NEW t \in AllTasks \cup {None}, t \in Task, Publish(c, t),
         gate'[c] = None, \A d \in SMs : d # c => gate'[d] = gate[d],
         gate[c] # None \/ Len(mail[c]) - released[c] < NumScheduleStages
  PROVE  MailboxInv'
<1>1. /\ OnceInv /\ mail \in [SMs -> Seq(Task)]
      /\ InStep(mail[c], aAt[c], mathAt[c], released[c], aFilled[c], Pending(c))
      /\ aAt \in [SMs -> Cursor] /\ mathAt \in [SMs -> Cursor]
      /\ aFilled \in [SMs -> Nat] /\ released \in [SMs -> Nat]
  BY DEF MailboxInv, OnceInv, Inv
<1>2. /\ mail'[c] = Append(mail[c], t)
      /\ \A d \in SMs : d # c => mail'[d] = mail[d]
      /\ Pending(c)' = 0
  BY <1>1 DEF Publish, Pending
<1>3. Pending(c) \in {0, 1} /\ (gate[c] # None => Pending(c) = 1)
  BY DEF Pending
<1>4. Staged(mail[c]) /\ KStages(t) \in Nat \ {0}
  BY <1>1, MailStaged, StagesType
<1>5. InStep(Append(mail[c], t), aAt[c], mathAt[c], released[c], aFilled[c], 0)
  BY <1>1, <1>3, <1>4, InStepAppend
<1>6. UNCHANGED <<aAt, mathAt, released, aFilled>>
  BY DEF roleVars
<1> QED
  BY <1>1, <1>2, <1>5, <1>6, MailboxAt

\* The A loader of CTA c fills a stage.
LEMMA MailboxLoad ==
  ASSUME MailboxInv, OnceInv', NEW c \in SMs, LoadA(c)
  PROVE  MailboxInv'
<1>1. /\ OnceInv /\ mail \in [SMs -> Seq(Task)]
      /\ InStep(mail[c], aAt[c], mathAt[c], released[c], aFilled[c], Pending(c))
      /\ aAt \in [SMs -> Cursor] /\ mathAt \in [SMs -> Cursor]
      /\ aFilled \in [SMs -> Nat] /\ released \in [SMs -> Nat]
  BY DEF MailboxInv, OnceInv, Inv
<1>2. /\ aAt' = [aAt EXCEPT ![c] = Advance(c, @)]
      /\ aFilled' = [aFilled EXCEPT ![c] = @ + 1]
      /\ UNCHANGED <<mail, gate, mathAt, released>>
      /\ aAt[c].task <= Len(mail[c])
  BY DEF LoadA, claimVars, HasTask
<1>3. Staged(mail[c]) /\ Pending(c) \in {0, 1} /\ Pending(c)' = Pending(c)
  BY <1>1, <1>2, MailStaged DEF Pending
<1> DEFINE b == Advance(c, aAt[c])
<1>4. b \in Cursor /\ Filled(mail[c], aAt[c], b)
  <2>1. aAt[c] \in Cursor /\ aAt[c].task \in Nat \ {0} /\ aAt[c].stage \in Nat
    BY <1>1 DEF Cursor
  <2>2. CASE aAt[c].stage + 1 < KStages(mail[c][aAt[c].task])
    <3>1. b = [aAt[c] EXCEPT !.stage = @ + 1]
      BY <2>2 DEF Advance
    <3> QED
      BY <1>2, <2>1, <2>2, <3>1 DEF Cursor, Filled
  <2>3. CASE ~(aAt[c].stage + 1 < KStages(mail[c][aAt[c].task]))
    <3>1. b = [task |-> aAt[c].task + 1, stage |-> 0]
      BY <2>3 DEF Advance
    <3> QED
      BY <1>2, <2>1, <2>3, <3>1 DEF Cursor, Filled
  <2> QED
    BY <2>2, <2>3
<1> HIDE DEF b
<1>5. InStep(mail[c], b, mathAt[c], released[c], aFilled[c] + 1, Pending(c))
  BY <1>1, <1>2, <1>3, <1>4, InStepLoad
<1>6. aAt' = [aAt EXCEPT ![c] = b]
  BY <1>2 DEF b
<1>7. /\ aAt'[c] = b /\ aFilled'[c] = aFilled[c] + 1
      /\ aAt' \in [SMs -> Cursor] /\ aFilled' \in [SMs -> Nat]
      /\ \A d \in SMs : d # c => aAt'[d] = aAt[d] /\ aFilled'[d] = aFilled[d]
  BY <1>1, <1>2, <1>4, <1>6
<1> QED
  BY <1>1, <1>2, <1>3, <1>5, <1>7, MailboxAt

\* The math warps of CTA c consume a stage.
LEMMA MailboxConsume ==
  ASSUME MailboxInv, OnceInv', NEW c \in SMs, Consume(c)
  PROVE  MailboxInv'
<1>1. /\ OnceInv /\ mail \in [SMs -> Seq(Task)]
      /\ InStep(mail[c], aAt[c], mathAt[c], released[c], aFilled[c], Pending(c))
      /\ aAt \in [SMs -> Cursor] /\ mathAt \in [SMs -> Cursor]
      /\ aFilled \in [SMs -> Nat] /\ released \in [SMs -> Nat]
  BY DEF MailboxInv, OnceInv, Inv
<1> DEFINE x == mathAt[c]
           y == [x EXCEPT !.stage = @ + 1]
           q == IF x.stage = 0 THEN released[c] + 1 ELSE released[c]
<1>2. /\ mathAt' = [mathAt EXCEPT ![c] = y]
      /\ aFilled' = [aFilled EXCEPT ![c] = @ - 1]
      /\ released' = [released EXCEPT ![c] = q]
      /\ UNCHANGED <<mail, gate, aAt>>
      /\ x.task <= Len(mail[c]) /\ x.stage # KStages(mail[c][x.task])
      /\ aFilled[c] > 0
  BY DEF Consume, claimVars, HasTask, InEpilogue
<1>3. Staged(mail[c]) /\ Pending(c) \in {0, 1} /\ Pending(c)' = Pending(c)
  BY <1>1, <1>2, MailStaged DEF Pending
<1>4. x \in Cursor /\ y \in Cursor /\ q \in Nat /\ Taken(mail[c], x, y, aFilled[c], released[c], q)
  <2>1. x \in Cursor /\ released[c] \in Nat
    BY <1>1
  <2> HIDE DEF x
  <2>2. y \in Cursor /\ y.task = x.task /\ y.stage = x.stage + 1
    BY <2>1 DEF Cursor
  <2>3. q \in Nat
    BY <2>1
  <2> HIDE DEF y
  <2> QED
    BY <1>2, <2>1, <2>2, <2>3 DEF Taken, q
<1> HIDE DEF x, y, q
<1>5. InStep(mail[c], aAt[c], x, released[c], aFilled[c], Pending(c))
  BY <1>1 DEF x
<1>6. InStep(mail[c], aAt[c], y, q, aFilled[c] - 1, Pending(c))
  <2>1. aAt[c] \in Cursor /\ released[c] \in Nat /\ aFilled[c] \in Nat
    BY <1>1
  <2> QED
    BY <1>2, <1>3, <1>4, <1>5, <2>1, InStepConsume
<1>7. /\ mathAt'[c] = y /\ aFilled'[c] = aFilled[c] - 1 /\ released'[c] = q
      /\ mathAt' \in [SMs -> Cursor] /\ aFilled' \in [SMs -> Nat]
      /\ released' \in [SMs -> Nat]
      /\ \A d \in SMs : d # c => /\ mathAt'[d] = mathAt[d] /\ aFilled'[d] = aFilled[d]
                                 /\ released'[d] = released[d]
  BY <1>1, <1>2, <1>4
<1> QED
  BY <1>1, <1>2, <1>3, <1>6, <1>7, MailboxAt

\* The math warps of CTA c go on to the next task.
LEMMA MailboxNext ==
  ASSUME MailboxInv, OnceInv', NEW c \in SMs, InEpilogue(c), NextTask(c),
         UNCHANGED <<mail, gate, aAt, aFilled, released>>
  PROVE  MailboxInv'
<1>1. /\ OnceInv /\ mail \in [SMs -> Seq(Task)]
      /\ InStep(mail[c], aAt[c], mathAt[c], released[c], aFilled[c], Pending(c))
      /\ aAt \in [SMs -> Cursor] /\ mathAt \in [SMs -> Cursor]
      /\ aFilled \in [SMs -> Nat] /\ released \in [SMs -> Nat]
  BY DEF MailboxInv, OnceInv, Inv
<1> DEFINE x == mathAt[c]
           y == [task |-> x.task + 1, stage |-> 0]
<1>2. /\ mathAt' = [mathAt EXCEPT ![c] = y]
      /\ x.task <= Len(mail[c]) /\ x.stage = KStages(mail[c][x.task])
  BY DEF NextTask, HasTask, InEpilogue
<1>3. Staged(mail[c]) /\ Pending(c) \in {0, 1} /\ Pending(c)' = Pending(c)
  BY <1>1, MailStaged DEF Pending
<1>4. x \in Cursor /\ y \in Cursor /\ y.task = x.task + 1 /\ y.stage = 0
  BY <1>1 DEF Cursor
<1> HIDE DEF x, y
<1>5. InStep(mail[c], aAt[c], x, released[c], aFilled[c], Pending(c))
  BY <1>1 DEF x
<1>6. InStep(mail[c], aAt[c], y, released[c], aFilled[c], Pending(c))
  <2>1. aAt[c] \in Cursor /\ released[c] \in Nat /\ aFilled[c] \in Nat
    BY <1>1
  <2> QED
    BY <1>2, <1>3, <1>4, <1>5, <2>1, InStepNext
<1>7. /\ mathAt'[c] = y /\ mathAt' \in [SMs -> Cursor]
      /\ \A d \in SMs : d # c => mathAt'[d] = mathAt[d]
  BY <1>1, <1>2, <1>4
<1> QED
  BY <1>1, <1>3, <1>6, <1>7, MailboxAt

LEMMA MailboxUnmoved ==
  ASSUME MailboxInv, OnceInv', UNCHANGED <<mail, gate, aAt, mathAt, aFilled, released>>
  PROVE  MailboxInv'
<1>1. \A c \in SMs : Pending(c)' = Pending(c)
  BY DEF Pending
<1> QED
  BY <1>1 DEF MailboxInv

LEMMA MailboxClaimL1 ==
  ASSUME MailboxInv, OnceInv', NEW c \in SMs, ClaimL1(c)
  PROVE  MailboxInv'
<1>1. UNCHANGED <<roleVars, gate>> /\ gate[c] = None
      /\ Len(mail[c]) - released[c] < NumScheduleStages
  BY DEF ClaimL1, CanClaim
<1>2. CASE l1Count < L1Indices
  <2>1. Publish(c, L1TaskOf(l1Count))
    BY <1>2 DEF ClaimL1
  <2>2. l1Count \in 0 .. IndicesOf(1) - 1
    BY <1>2, CountFacts DEF MailboxInv, OnceInv, IndicesOf
  <2>3. L1TaskOf(l1Count) \in AllTasks
    BY <2>2, TaskAtIndex DEF TaskAt
  <2>4. L1TaskOf(l1Count) \in Task
    BY <2>3, TaskFields
  <2> QED
    BY <1>1, <2>1, <2>3, <2>4, MailboxPublish
<1>3. CASE ~(l1Count < L1Indices)
  <2>1. mail' = mail
    BY <1>3 DEF ClaimL1
  <2> QED
    BY <1>1, <2>1, MailboxUnmoved DEF roleVars
<1> QED
  BY <1>2, <1>3

LEMMA MailboxClaimL2 ==
  ASSUME MailboxInv, OnceInv', NEW c \in SMs, ClaimL2(c)
  PROVE  MailboxInv'
<1>1. UNCHANGED roleVars /\ gate[c] = None
      /\ Len(mail[c]) - released[c] < NumScheduleStages
  BY DEF ClaimL2, CanClaim
<1>2. CASE l2Count < L2Indices
  <2>1. mail' = mail /\ gate' = [gate EXCEPT ![c] = L2TaskOf(l2Count)]
    BY <1>2 DEF ClaimL2
  <2>2. /\ InStep(mail[c], aAt[c], mathAt[c], released[c], aFilled[c], Pending(c))
        /\ mail \in [SMs -> Seq(Task)] /\ gate \in [SMs -> Task]
        /\ aAt \in [SMs -> Cursor] /\ mathAt \in [SMs -> Cursor]
        /\ aFilled \in [SMs -> Nat] /\ released \in [SMs -> Nat]
    BY DEF MailboxInv, OnceInv, Inv
  <2>3. Pending(c) = 0
    BY <1>1 DEF Pending
  <2>4. Pending(c)' \in {0, 1}
    BY DEF Pending
  <2>5. InStep(mail[c], aAt[c], mathAt[c], released[c], aFilled[c], Pending(c)')
    BY <1>1, <2>2, <2>3, <2>4, InStepGate
  <2>6. \A d \in SMs : d # c => gate'[d] = gate[d]
    BY <2>1, <2>2
  <2>7. UNCHANGED <<aAt, mathAt, aFilled, released>>
    BY <1>1 DEF roleVars
  <2> QED
    BY <2>1, <2>2, <2>5, <2>6, <2>7, MailboxAt
<1>3. CASE ~(l2Count < L2Indices)
  <2>1. Publish(c, None) /\ gate' = gate
    BY <1>3 DEF ClaimL2
  <2>2. None \in Task
    BY DEF None, Task
  <2> QED
    BY <1>1, <2>1, <2>2, MailboxPublish
<1> QED
  BY <1>2, <1>3

LEMMA MailboxPassGate ==
  ASSUME MailboxInv, OnceInv', NEW c \in SMs, PassGate(c)
  PROVE  MailboxInv'
<1>1. /\ UNCHANGED roleVars /\ gate[c] # None /\ Publish(c, gate[c])
      /\ gate' = [gate EXCEPT ![c] = None]
  BY DEF PassGate
<1>2. gate \in [SMs -> Task] /\ mail \in [SMs -> Seq(Task)] /\ Known
  BY DEF MailboxInv, OnceInv, Inv
<1>3. gate[c] \in AllTasks
  <2>1. 0 \in Spots(c) /\ At(c, 0) = gate[c]
    BY <1>2 DEF Spots, At
  <2> QED
    BY <1>1, <1>2, <2>1 DEF Known
<1>4. gate'[c] = None /\ \A d \in SMs : d # c => gate'[d] = gate[d]
  BY <1>1, <1>2
<1> QED
  BY <1>1, <1>2, <1>3, <1>4, MailboxPublish

LEMMA StepMailbox == MailboxInv /\ [Next]_vars => MailboxInv'
<1> SUFFICES ASSUME MailboxInv, [Next]_vars PROVE MailboxInv'
  OBVIOUS
<1>1. OnceInv'
  BY StepOnce DEF MailboxInv
<1>2. ASSUME NEW c \in SMs, LoadB(c) PROVE MailboxInv'
  BY <1>1, <1>2, MailboxUnmoved DEF LoadB, claimVars
<1>3. ASSUME NEW c \in SMs, PublishPartial(c) \/ Finish(c) PROVE MailboxInv'
  <2>1. InEpilogue(c) /\ NextTask(c) /\ UNCHANGED <<mail, gate, aAt, aFilled, released>>
    BY <1>3 DEF PublishPartial, Finish, claimVars
  <2> QED
    BY <1>1, <2>1, MailboxNext
<1>4. CASE UNCHANGED vars
  BY <1>1, <1>4, MailboxUnmoved DEF vars, claimVars, roleVars
<1>5. CASE Finished
  BY <1>4, <1>5 DEF Finished
<1> QED
  BY <1>1, <1>2, <1>3, <1>4, <1>5, MailboxClaimL1, MailboxClaimL2, MailboxPassGate,
     MailboxLoad, MailboxConsume DEF Next, ProducerStep, MathStep

\* An A loader still at or before task o has filled no stage of a later one.
LEMMA LoaderPast ==
  ASSUME NEW m, Staged(m), NEW a, NEW x, NEW r, NEW f, NEW p \in {0, 1},
         InStep(m, a, x, r, f, p), NEW o \in Nat, Len(m) = o + NumScheduleStages,
         o > 0
  PROVE  a.task > o \/ (a.task = o /\ a.stage > 0)
<1>1. PICK S : Counts(m, S) /\ S[x.task] + x.stage + f = S[a.task] + a.stage
  BY DEF InStep
<1>2. /\ a.task \in Nat /\ a.stage \in Nat /\ x.task \in Nat /\ x.stage \in Nat
      /\ 1 <= a.task /\ 1 <= x.task /\ r \in Nat /\ f \in Nat
      /\ a.task <= o + 3 /\ x.task <= o + 3
      /\ r = x.task - 1 + (IF x.stage > 0 THEN 1 ELSE 0)
      /\ o + 2 + p <= r + 2
  BY DEF InStep, Cursor, NumScheduleStages
<1>3. ASSUME NEW i \in 1 .. o + 2
      PROVE  /\ S[i] \in Nat /\ S[i + 1] \in Nat /\ KStages(m[i]) \in Nat \ {0}
             /\ S[i + 1] = S[i] + KStages(m[i])
  <2>1. i \in 1 .. Len(m) /\ i \in 1 .. Len(m) + 1 /\ i + 1 \in 1 .. Len(m) + 1
    BY DEF NumScheduleStages
  <2> QED
    BY <1>1, <2>1 DEF Counts, Staged
<1>4. ASSUME NEW i \in 1 .. o + 2, NEW j \in 1 .. o + 3, i < j
      PROVE  S[i + 1] <= S[j] /\ S[j] \in Nat
  <2>1. i \in 1 .. Len(m) + 1 /\ j \in 1 .. Len(m) + 1
    BY DEF NumScheduleStages
  <2> QED
    BY <1>1, <1>4, <2>1 DEF Counts
<1>5. o \in 1 .. o + 2 /\ a.task \in 1 .. o + 3 /\ x.task \in 1 .. o + 3
  BY <1>2
<1>6. S[o] \in Nat /\ S[x.task] \in Nat /\ S[a.task] \in Nat
  <2>1. \A j \in 1 .. o + 3 : j \in 1 .. Len(m) + 1
    BY DEF NumScheduleStages
  <2> QED
    BY <1>1, <1>5, <2>1 DEF Counts
\* The math warps are past the first stage of task o.
<1>7. x.task > o \/ (x.task = o /\ x.stage > 0)
  BY <1>2
<1>8. S[o] < S[x.task] + x.stage
  <2>1. CASE x.task > o
    <3>1. S[o + 1] <= S[x.task]
      BY <1>4, <1>5, <2>1
    <3>2. S[o + 1] = S[o] + KStages(m[o]) /\ KStages(m[o]) \in Nat \ {0}
      BY <1>3, <1>5
    <3>3. S[o] < S[x.task]
      BY <1>6, <3>1, <3>2
    <3>4. x.stage \in Nat
      BY <1>2
    <3> QED
      BY <1>6, <3>3, <3>4
  <2>2. CASE x.task = o /\ x.stage > 0
    BY <1>2, <1>6, <2>2
  <2> QED
    BY <1>7, <2>1, <2>2
<1>9. S[o] < S[a.task] + a.stage
  BY <1>1, <1>2, <1>6, <1>8
<1>10. ASSUME a.task < o PROVE FALSE
  <2>1. a.task \in 1 .. o + 2 /\ a.task <= Len(m)
    BY <1>2, <1>10 DEF NumScheduleStages
  <2>2. S[a.task + 1] <= S[o]
    BY <1>4, <1>5, <1>10, <2>1
  <2>3. S[a.task + 1] = S[a.task] + KStages(m[a.task]) /\ KStages(m[a.task]) \in Nat
    BY <1>3, <2>1
  <2>4. a.stage < KStages(m[a.task])
    BY <2>1 DEF InStep
  <2> QED
    BY <1>2, <1>6, <1>9, <2>2, <2>3, <2>4
<1>11. CASE a.task = o
  <2>1. a.stage # 0
    BY <1>6, <1>9, <1>11
  <2> QED
    BY <1>2, <1>11, <2>1
<1> QED
  BY <1>2, <1>10, <1>11

HasRead(m, a) ==
  Len(m) > NumScheduleStages =>
    \/ a.task > Len(m) - NumScheduleStages
    \/ a.task = Len(m) - NumScheduleStages /\ a.stage > 0

LEMMA LoaderRead ==
  ASSUME NEW m, Staged(m), NEW a, NEW x, NEW r, NEW f, NEW p \in {0, 1},
         InStep(m, a, x, r, f, p)
  PROVE  HasRead(m, a)
<1> SUFFICES ASSUME Len(m) > NumScheduleStages
             PROVE  \/ a.task > Len(m) - NumScheduleStages
                    \/ a.task = Len(m) - NumScheduleStages /\ a.stage > 0
  BY DEF HasRead
<1> DEFINE o == Len(m) - NumScheduleStages
<1>1. o \in Nat /\ o > 0 /\ Len(m) = o + NumScheduleStages
  BY DEF Staged, NumScheduleStages
<1> HIDE DEF o
<1>2. a.task > o \/ (a.task = o /\ a.stage > 0)
  BY <1>1, LoaderPast
<1> QED
  BY <1>2 DEF o

LEMMA MailboxImplies == MailboxInv => PayloadRead
<1> SUFFICES ASSUME MailboxInv PROVE PayloadRead
  OBVIOUS
<1>1. ASSUME NEW c \in SMs PROVE HasRead(mail[c], aAt[c])
  <2>1. InStep(mail[c], aAt[c], mathAt[c], released[c], aFilled[c], Pending(c))
    BY DEF MailboxInv
  <2>2. Pending(c) \in {0, 1} /\ Staged(mail[c])
    BY MailStaged DEF MailboxInv, Pending
  <2> QED
    BY <2>1, <2>2, LoaderRead
<1> QED
  BY <1>1 DEF PayloadRead, HasRead

\* The producer overwrites a mailbox slot only after the A loader has read
\* the task in it, although it waits for the math warps only
\* (wait_task_slot_empty): in every launch, for any number of stages.
THEOREM PayloadsRead == Spec => []PayloadRead
<1> QED
  BY InitMailbox, StepMailbox, MailboxImplies, PTL DEF Spec
=============================================================================
