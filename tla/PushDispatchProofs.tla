------------------------- MODULE PushDispatchProofs -------------------------
(***************************************************************************)
(* Proof, for any number of ranks, CTAs, experts, rows, launches and any   *)
(* wrap of the DONE words, with and without DONE flags, that the pool a    *)
(* rank works on is the launch's and that all words are back in place      *)
(* between launches.                                                       *)
(***************************************************************************)
EXTENDS PushDispatch, FiniteSetTheorems, TLAPS

CtaStates == {"push", "signal", "barrier1", "publish", "join", "grid", "barrier3", "exited"}
MathStates == {"start", "poll", "work", "done"}
Slots == 0 .. PoolRows - 1

TypeInv ==
  /\ doneFlags \in BOOLEAN
  /\ recvCount \in [Ranks -> [Experts -> Nat]]
  /\ recvFinal \in [Ranks -> [Experts -> BOOLEAN]]
  /\ arrivals \in [Ranks -> [Experts -> Nat]]
  /\ pool \in [Ranks -> [Experts -> [Slots -> Nat \X Nat \X Nat]]]
  /\ doneCount \in [Ranks -> 0 .. DoneMod - 1]
  /\ epoch \in [Ranks -> 0 .. DoneMod - 1]
  /\ ctaArrival \in [Ranks -> Nat]
  /\ nvSignals \in [Ranks -> Nat]
  /\ launch \in [Ranks -> Nat]
  /\ routing \in [Ranks -> [Rows -> (Ranks \X Experts) \cup {NoExpert}]]
  /\ row \in [Ranks -> [Rows -> Nat \cup {Todo, Stored}]]
  /\ pc \in [Ranks -> [SMs -> CtaStates]]
  /\ toSignal \in [Ranks -> SUBSET Ranks]
  /\ target \in [Ranks -> [SMs -> Int]]
  /\ math \in [Ranks -> [SMs -> MathStates]]
  /\ counts \in [Ranks -> [SMs -> [Experts -> Nat]]]
  /\ \A r \in Ranks, i \in Rows : row[r][i] # Stored => routing[r][i] \in Ranks \X Experts

-----------------------------------------------------------------------------
(***************************************************************************)
(* Where the CTAs of a rank, and the ranks, can be.                        *)
(***************************************************************************)
AllIn(r, states) == \A sm \in SMs : pc[r][sm] \in states
NonePushes(r) == \A sm \in SMs : pc[r][sm] # "push"

\* The stages of a launch, as the grid syncs order them.
StageInv(r) ==
  /\ \A sm \in SMs :
       /\ pc[r][sm] \in {"grid", "barrier3", "exited"} => math[r][sm] = "done"
       /\ pc[r][sm] \in {"barrier3", "exited"} => AllIn(r, {"grid", "barrier3", "exited"})
       /\ pc[r][sm] = "exited" => AllIn(r, {"barrier3", "exited"})
       /\ pc[r][sm] = "signal" => doneFlags /\ NonePushes(r)
       /\ pc[r][sm] = "barrier1" => ~doneFlags
       /\ pc[r][sm] # "push" => CtaPushed(r, sm)
  /\ ~doneFlags => toSignal[r] = {}

\* The arrival ticket counts the CTAs that have pushed.
ArrivalInv(r) ==
  ctaArrival[r] = IF NonePushes(r) \/ ~doneFlags THEN 0
                  ELSE Cardinality({sm \in SMs : pc[r][sm] # "push"})

\* The barriers a rank has signalled tell where it is.
SignalInv(r) ==
  /\ nvSignals[r] <= Barrier3(r) /\ Barrier3(r) <= nvSignals[r] + BarriersPerLaunch
  /\ nvSignals[r] = Barrier3(r) => AllIn(r, {"barrier3", "exited"})
  /\ ~doneFlags /\ nvSignals[r] >= Barrier1(r) => NonePushes(r)
  /\ pc[r][0] = "exited" => \A q \in Ranks : nvSignals[q] >= Barrier3(r)

\* No rank is more than one launch ahead, and only of ranks that are through.
SkewInv ==
  \A r, q \in Ranks : launch[r] > launch[q] =>
    launch[r] = launch[q] + 1 /\ nvSignals[q] = Barrier3(q)

ControlInv ==
  /\ \A r \in Ranks : StageInv(r) /\ ArrivalInv(r) /\ SignalInv(r)
  /\ SkewInv

-----------------------------------------------------------------------------
(***************************************************************************)
(* When a rank learns that its rows are there.                             *)
(***************************************************************************)
\* Rank q has pushed its rows of this launch and sent r its DONE.
Sent(q, r) == NonePushes(q) /\ r \notin toSignal[q]

Complete(r) ==
  \A q \in Ranks :
    \/ launch[q] > launch[r]
    \/ /\ launch[q] = launch[r] /\ Sent(q, r)
       /\ \A i \in Rows : row[q][i] = Stored

Cleaned(r, sm) == pc[r][sm] \in {"barrier3", "exited"}
Owner(e) == (e % (NumSMs - 1)) + 1

LearnInv(r) ==
  /\ \A sm \in SMs :
       /\ math[r][sm] \in {"work", "done"} => Complete(r)
       /\ ~doneFlags /\ pc[r][sm] = "publish" => Complete(r)
  /\ \A e \in Experts :
       /\ recvFinal[r][e] => Complete(r)
       /\ Cleaned(r, Owner(e)) => ~recvFinal[r][e] /\ arrivals[r][e] = 0

\* The launch whose DONE a rank's epoch stands for, and who has sent it.
EpochLaunch(r) == IF Cleaned(r, 0) THEN launch[r] + 1 ELSE launch[r]
SentTo(r) == {q \in Ranks : launch[q] = EpochLaunch(r) /\ Sent(q, r)}

DoneInv(r) ==
  doneFlags =>
    /\ epoch[r] = (FirstEpoch + EpochLaunch(r) - 1) % DoneMod
    /\ doneCount[r] =
         (NumRanks * (FirstEpoch + EpochLaunch(r) - 1) + Cardinality(SentTo(r))) % DoneMod
    /\ \A sm \in SMs : math[r][sm] = "poll" =>
         target[r][sm] = (NumRanks * (FirstEpoch + launch[r])) % DoneMod

WordInv == \A r \in Ranks : LearnInv(r) /\ DoneInv(r)

-----------------------------------------------------------------------------
(***************************************************************************)
(* The pool of an expert: its positions and the rows that hold them.       *)
(***************************************************************************)
CountLaunch(q, e) == IF Cleaned(q, Owner(e)) THEN launch[q] + 1 ELSE launch[q]

\* The rows whose ticket the count of expert e of rank q stands for.
Taken(q, e) ==
  { p \in Ranks \X Rows : /\ launch[p[1]] = CountLaunch(q, e)
                          /\ routing[p[1]][p[2]] = <<q, e>>
                          /\ row[p[1]][p[2]] # Todo }

\* Row p lies at position s, and nobody is about to write there.
LiesAt(q, e, p, s) ==
  /\ s < recvCount[q][e]
  /\ row[p[1]][p[2]] = Stored
  /\ pool[q][e][s] = <<launch[p[1]], p[1], p[2]>>
  /\ \A o \in Taken(q, e) : row[o[1]][o[2]] # s

PositionInv(q, e) ==
  /\ recvCount[q][e] = Cardinality(Taken(q, e))
  /\ \A p \in Taken(q, e) :
       \/ row[p[1]][p[2]] \in 0 .. recvCount[q][e] - 1
       \/ \E s \in Slots : LiesAt(q, e, p, s)
  /\ \A s \in 0 .. recvCount[q][e] - 1 :
       \E p \in Taken(q, e) : row[p[1]][p[2]] = s \/ (s \in Slots /\ LiesAt(q, e, p, s))
  /\ \A p, o \in Taken(q, e) :
       row[p[1]][p[2]] = row[o[1]][o[2]] => p = o \/ row[p[1]][p[2]] = Stored

WorkInv(r) ==
  \A sm \in SMs : math[r][sm] = "work" => counts[r][sm] = recvCount[r]

PoolInv ==
  /\ \A q \in Ranks, e \in Experts : PositionInv(q, e)
  /\ \A r \in Ranks : WorkInv(r)

-----------------------------------------------------------------------------
(***************************************************************************)
(* Types.                                                                  *)
(***************************************************************************)
PushFacts ==
  /\ NumRanks \in Nat \ {0} /\ NumSMs \in Nat /\ NumSMs > 1
  /\ NumExperts \in Nat \ {0} /\ NumExperts <= NumSMs
  /\ NumRows \in Nat /\ PoolRows \in Nat
  /\ Routings \subseteq [Rows -> (Ranks \X Experts) \cup {NoExpert}]
  /\ DoneMod \in Nat /\ DoneMod > 2 * NumRanks
  /\ FirstEpoch \in 0 .. DoneMod - 1
  /\ Ranks \subseteq Nat /\ SMs \subseteq Nat /\ Experts \subseteq SMs /\ Rows \subseteq Nat
  /\ 0 \in SMs

LEMMA PushFactsHold == PushFacts
BY PushAssumption DEF PushFacts, PoolRows, Ranks, SMs, Experts, Rows

LEMMA ModRange ==
  ASSUME NEW a \in Int PROVE a % DoneMod \in 0 .. DoneMod - 1
BY PushFactsHold DEF PushFacts

LEMMA InitType == Init => TypeInv
<1> SUFFICES ASSUME Init PROVE TypeInv
  OBVIOUS
<1> USE PushFactsHold DEF Init, PushFacts, Todo, Stored
<1>1. (NumRanks * FirstEpoch) % DoneMod \in 0 .. DoneMod - 1
  <2>1. NumRanks * FirstEpoch \in Int
    OBVIOUS
  <2> QED
    BY <2>1, ModRange
<1>2. /\ doneFlags \in BOOLEAN
      /\ recvCount \in [Ranks -> [Experts -> Nat]]
      /\ recvFinal \in [Ranks -> [Experts -> BOOLEAN]]
      /\ arrivals \in [Ranks -> [Experts -> Nat]]
  OBVIOUS
<1>3. pool \in [Ranks -> [Experts -> [Slots -> Nat \X Nat \X Nat]]]
  BY DEF Slots, Empty
<1>4. /\ doneCount \in [Ranks -> 0 .. DoneMod - 1]
      /\ epoch \in [Ranks -> 0 .. DoneMod - 1]
      /\ ctaArrival \in [Ranks -> Nat]
      /\ nvSignals \in [Ranks -> Nat]
      /\ launch \in [Ranks -> Nat]
  BY <1>1
<1>5. /\ routing \in [Ranks -> [Rows -> (Ranks \X Experts) \cup {NoExpert}]]
      /\ row \in [Ranks -> [Rows -> Nat \cup {Todo, Stored}]]
      /\ pc \in [Ranks -> [SMs -> CtaStates]]
      /\ toSignal \in [Ranks -> SUBSET Ranks]
  BY DEF CtaStates
<1>6. /\ target \in [Ranks -> [SMs -> Int]]
      /\ math \in [Ranks -> [SMs -> MathStates]]
      /\ counts \in [Ranks -> [SMs -> [Experts -> Nat]]]
  BY DEF MathStates
<1> QED
  BY <1>2, <1>3, <1>4, <1>5, <1>6 DEF TypeInv

LEMMA TargetType ==
  ASSUME TypeInv, NEW r \in Ranks PROVE DoneTarget(r) \in 0 .. DoneMod - 1
<1>1. NumRanks * (epoch[r] + 1) \in Int
  BY PushFactsHold DEF TypeInv, PushFacts
<1> QED
  BY <1>1, ModRange DEF DoneTarget

\* A row written into the pool.
LEMMA Placed ==
  ASSUME NEW S, NEW f \in [Ranks -> [Experts -> [Slots -> S]]],
         NEW q, NEW e, NEW s, NEW v \in S
  PROVE  [f EXCEPT ![q][e][s] = v] \in [Ranks -> [Experts -> [Slots -> S]]]
<1>1. [f EXCEPT ![q][e][s] = v] = [f EXCEPT ![q] = [f[q] EXCEPT ![e] = [f[q][e] EXCEPT ![s] = v]]]
  OBVIOUS
<1>2. CASE q \in Ranks /\ e \in Experts
  <2>1. f[q][e] \in [Slots -> S] /\ f[q] \in [Experts -> [Slots -> S]]
    BY <1>2
  <2>2. [f[q][e] EXCEPT ![s] = v] \in [Slots -> S]
    BY <2>1
  <2>3. PICK g \in [Slots -> S] : g = [f[q][e] EXCEPT ![s] = v]
    BY <2>2
  <2>4. [f[q] EXCEPT ![e] = g] \in [Experts -> [Slots -> S]]
    BY <2>1
  <2>5. PICK h \in [Experts -> [Slots -> S]] : h = [f[q] EXCEPT ![e] = g]
    BY <2>4
  <2>6. [f EXCEPT ![q] = h] \in [Ranks -> [Experts -> [Slots -> S]]]
    OBVIOUS
  <2> QED
    BY <1>1, <2>3, <2>5, <2>6
<1>3. CASE q \notin Ranks
  BY <1>1, <1>3
<1>4. CASE q \in Ranks /\ e \notin Experts
  <2>1. f[q] \in [Experts -> [Slots -> S]]
    BY <1>4
  <2>2. PICK g : g = [f[q][e] EXCEPT ![s] = v]
    OBVIOUS
  <2>3. [f[q] EXCEPT ![e] = g] = f[q]
    BY <1>4, <2>1
  <2>4. [f EXCEPT ![q] = f[q]] = f
    OBVIOUS
  <2> QED
    BY <1>1, <2>2, <2>3, <2>4
<1> QED
  BY <1>2, <1>3, <1>4

LEMMA NextType == TypeInv /\ [Next]_vars => TypeInv'
<1> SUFFICES ASSUME TypeInv, [Next]_vars PROVE TypeInv'
  OBVIOUS
<1> USE DEF TypeInv
<1>1. CASE UNCHANGED vars
  BY <1>1 DEF vars, poolVars, wordVars, launchVars, dispatchVars, mathVars
<1>2. ASSUME NEW r \in Ranks, Launch(r) PROVE TypeInv'
  <2>1. PICK t \in Routings : routing' = [routing EXCEPT ![r] = t]
    BY <1>2 DEF Launch
  <2>2. routing' \in [Ranks -> [Rows -> (Ranks \X Experts) \cup {NoExpert}]]
    BY <2>1, PushFactsHold DEF PushFacts
  <2>3. launch' \in [Ranks -> Nat]
    BY <1>2 DEF Launch
  <2>4. row' = [row EXCEPT ![r] = [i \in Rows |-> IF routing'[r][i] = NoExpert THEN Stored ELSE Todo]]
    BY <1>2 DEF Launch
  <2>5. row' \in [Ranks -> [Rows -> Nat \cup {Todo, Stored}]]
    BY <2>4
  <2>6. \A q \in Ranks, i \in Rows : row'[q][i] # Stored => routing'[q][i] \in Ranks \X Experts
    BY <2>1, <2>2, <2>4
  <2>7. pc' \in [Ranks -> [SMs -> CtaStates]] /\ math' \in [Ranks -> [SMs -> MathStates]]
    BY <1>2 DEF Launch, CtaStates, MathStates
  <2> QED
    BY <1>2, <2>2, <2>3, <2>5, <2>6, <2>7 DEF Launch, poolVars, wordVars
<1>3. ASSUME NEW r \in Ranks, SignalBarrier1(r) \/ SignalBarrier3(r) PROVE TypeInv'
  <2>1. nvSignals' = [nvSignals EXCEPT ![r] = @ + 1]
    BY <1>3 DEF SignalBarrier1, SignalBarrier3, SendSignals
  <2> QED
    BY <1>3, <2>1 DEF SignalBarrier1, SignalBarrier3, SendSignals, poolVars, launchVars, dispatchVars, mathVars
<1>4. ASSUME NEW r \in Ranks, NEW i \in Rows, TakeTicket(r, i) PROVE TypeInv'
  <2>1. PICK q \in Ranks, e \in Experts : routing[r][i] = <<q, e>>
    BY <1>4 DEF TakeTicket, Todo, Stored
  <2>2. /\ row' = [row EXCEPT ![r][i] = recvCount[q][e]]
        /\ recvCount' = [recvCount EXCEPT ![q][e] = @ + 1]
    BY <1>4, <2>1 DEF TakeTicket
  <2>3. recvCount[q][e] \in Nat
    OBVIOUS
  <2>4. row' \in [Ranks -> [Rows -> Nat \cup {Todo, Stored}]]
    BY <2>2, <2>3
  <2>5. recvCount' \in [Ranks -> [Experts -> Nat]]
    BY <2>2
  <2>6. ASSUME NEW p \in Ranks, NEW j \in Rows, row'[p][j] # Stored
        PROVE  routing[p][j] \in Ranks \X Experts
    <3>1. CASE p = r /\ j = i
      <4>1. <<q, e>> \in Ranks \X Experts
        OBVIOUS
      <4>2. routing[p][j] = <<q, e>>
        BY <2>1, <3>1
      <4> QED
        BY <4>1, <4>2, Zenon
    <3>2. CASE ~(p = r /\ j = i)
      <4>1. row'[p][j] = row[p][j]
        BY <2>2, <3>2
      <4> QED
        BY <2>6, <4>1
    <3> QED
      BY <3>1, <3>2
  <2> QED
    BY <1>4, <2>4, <2>5, <2>6 DEF TakeTicket, wordVars, launchVars, mathVars
<1>5. ASSUME NEW r \in Ranks, NEW i \in Rows, StoreRow(r, i) PROVE TypeInv'
  <2>1. PICK q, e, s : q = routing[r][i][1] /\ e = routing[r][i][2] /\ s = row[r][i]
    OBVIOUS
  <2>2. pool' = [pool EXCEPT ![q][e][s] = <<launch[r], r, i>>] /\ row' = [row EXCEPT ![r][i] = Stored]
    BY <1>5, <2>1 DEF StoreRow
  <2>3. <<launch[r], r, i>> \in Nat \X Nat \X Nat
    BY PushFactsHold DEF PushFacts
  <2>4. pool' \in [Ranks -> [Experts -> [Slots -> Nat \X Nat \X Nat]]]
    BY <2>2, <2>3, Placed
  <2>5. row' \in [Ranks -> [Rows -> Nat \cup {Todo, Stored}]]
    BY <2>2
  <2>6. \A p \in Ranks, j \in Rows : row'[p][j] # Stored => routing[p][j] \in Ranks \X Experts
    BY <2>2
  <2> QED
    BY <1>5, <2>4, <2>5, <2>6 DEF StoreRow, wordVars, launchVars, mathVars
<1>6. ASSUME NEW r \in Ranks, NEW sm \in SMs, DispatchStep(r, sm) PROVE TypeInv'
  <2>1. CASE CtaArrive(r, sm)
    <3>1. pc' \in [Ranks -> [SMs -> CtaStates]]
      BY <2>1 DEF CtaArrive, Goto, CtaStates
    <3>2. ctaArrival' \in [Ranks -> Nat]
      BY <2>1 DEF CtaArrive
    <3>3. toSignal' \in [Ranks -> SUBSET Ranks]
      BY <2>1 DEF CtaArrive
    <3> QED
      BY <2>1, <3>1, <3>2, <3>3 DEF CtaArrive, poolVars, launchVars, mathVars
  <2>2. ASSUME NEW q \in Ranks, SignalDone(r, sm, q) PROVE TypeInv'
    <3>1. pc' \in [Ranks -> [SMs -> CtaStates]]
      BY <2>2 DEF SignalDone, Goto, CtaStates
    <3>2. toSignal' \in [Ranks -> SUBSET Ranks]
      BY <2>2 DEF SignalDone
    <3>3. (doneCount[q] + 1) % DoneMod \in 0 .. DoneMod - 1
      BY ModRange
    <3>4. doneCount' \in [Ranks -> 0 .. DoneMod - 1]
      BY <2>2, <3>3 DEF SignalDone
    <3> QED
      BY <2>2, <3>1, <3>2, <3>4 DEF SignalDone, poolVars, launchVars, mathVars
  <2>3. CASE EnterBarrier1(r, sm) \/ LeaveBarrier1(r, sm) \/ EnterGridSync(r, sm) \/ LeaveBarrier3(r, sm)
    <3>1. pc' \in [Ranks -> [SMs -> CtaStates]]
      <4>1. \E where \in CtaStates : pc' = [pc EXCEPT ![r][sm] = where]
        BY <2>3 DEF EnterBarrier1, LeaveBarrier1, EnterGridSync, LeaveBarrier3, Goto, CtaStates
      <4> QED
        BY <4>1
    <3> QED
      BY <2>3, <3>1 DEF EnterBarrier1, LeaveBarrier1, EnterGridSync, LeaveBarrier3, poolVars,
         wordVars, launchVars, mathVars
  <2>4. CASE Publish(r, sm)
    <3>1. pc' \in [Ranks -> [SMs -> CtaStates]]
      BY <2>4 DEF Publish, Goto, CtaStates
    <3>2. recvFinal' \in [Ranks -> [Experts -> BOOLEAN]] /\ arrivals' \in [Ranks -> [Experts -> Nat]]
      <4>1. CASE sm \in Experts
        <5>1. /\ recvFinal' = [recvFinal EXCEPT ![r][sm] = TRUE]
              /\ arrivals' = [arrivals EXCEPT ![r][sm] = @ + recvCount[r][sm]]
          BY <2>4, <4>1 DEF Publish
        <5>2. recvFinal' \in [Ranks -> [Experts -> BOOLEAN]]
          BY <5>1
        <5>3. recvCount[r][sm] \in Nat /\ arrivals[r][sm] \in Nat
          BY <4>1
        <5>4. PICK n \in Nat : n = arrivals[r][sm] + recvCount[r][sm]
          BY <5>3
        <5>5. arrivals' = [arrivals EXCEPT ![r][sm] = n]
          BY <5>1, <5>4
        <5>6. arrivals' \in [Ranks -> [Experts -> Nat]]
          BY <5>5
        <5> QED
          BY <5>2, <5>6
      <4>2. CASE sm \notin Experts
        BY <2>4, <4>2 DEF Publish
      <4> QED
        BY <4>1, <4>2
    <3> QED
      BY <2>4, <3>1, <3>2 DEF Publish, wordVars, launchVars, mathVars
  <2>5. CASE Cleanup(r, sm)
    <3>1. pc' \in [Ranks -> [SMs -> CtaStates]]
      BY <2>5 DEF Cleanup, Goto, CtaStates
    <3>2. CASE sm = 0
      <4>1. (epoch[r] + 1) % DoneMod \in 0 .. DoneMod - 1
        BY ModRange
      <4>2. epoch' \in [Ranks -> 0 .. DoneMod - 1]
        BY <2>5, <3>2, <4>1 DEF Cleanup
      <4> QED
        BY <2>5, <3>1, <3>2, <4>2 DEF Cleanup, launchVars, mathVars
    <3>3. CASE sm # 0
      <4> DEFINE mine == OwnedExperts(sm)
      <4>1. /\ recvCount' = [recvCount EXCEPT ![r] = [e \in Experts |-> IF e \in mine THEN 0 ELSE recvCount[r][e]]]
            /\ recvFinal' = [recvFinal EXCEPT ![r] = [e \in Experts |-> e \notin mine /\ recvFinal[r][e]]]
            /\ arrivals' = [arrivals EXCEPT ![r] = [e \in Experts |-> IF e \in mine THEN 0 ELSE arrivals[r][e]]]
            /\ UNCHANGED epoch
        BY <2>5, <3>3 DEF Cleanup
      <4> HIDE DEF mine
      <4>2. recvCount' \in [Ranks -> [Experts -> Nat]]
        BY <4>1
      <4>3. recvFinal' \in [Ranks -> [Experts -> BOOLEAN]]
        BY <4>1
      <4>4. arrivals' \in [Ranks -> [Experts -> Nat]]
        BY <4>1
      <4> QED
        BY <2>5, <3>1, <4>1, <4>2, <4>3, <4>4 DEF Cleanup, launchVars, mathVars
    <3> QED
      BY <3>2, <3>3
  <2> QED
    BY <1>6, <2>1, <2>2, <2>3, <2>4, <2>5 DEF DispatchStep
<1>7. ASSUME NEW r \in Ranks, NEW sm \in SMs, MathStep(r, sm) PROVE TypeInv'
  <2>1. math' \in [Ranks -> [SMs -> MathStates]]
    <3>1. \E where \in MathStates : math' = [math EXCEPT ![r][sm] = where]
      BY <1>7 DEF MathStep, ReadTarget, FetchCounts, FinishTasks, MathStates
    <3> QED
      BY <3>1
  <2>2. CASE ReadTarget(r, sm)
    <3>1. target' \in [Ranks -> [SMs -> Int]]
      <4>1. DoneTarget(r) \in Int
        BY TargetType
      <4> QED
        BY <2>2, <4>1 DEF ReadTarget
    <3> QED
      BY <2>1, <2>2, <3>1 DEF ReadTarget, poolVars, wordVars, launchVars, dispatchVars
  <2>3. CASE FetchCounts(r, sm)
    <3>1. target' \in [Ranks -> [SMs -> Int]] /\ counts' \in [Ranks -> [SMs -> [Experts -> Nat]]]
      BY <2>3 DEF FetchCounts
    <3> QED
      BY <2>1, <2>3, <3>1 DEF FetchCounts, poolVars, wordVars, launchVars, dispatchVars
  <2>4. CASE FinishTasks(r, sm)
    <3>1. counts' \in [Ranks -> [SMs -> [Experts -> Nat]]]
      BY <2>4 DEF FinishTasks
    <3> QED
      BY <2>1, <2>4, <3>1 DEF FinishTasks, poolVars, wordVars, launchVars, dispatchVars
  <2> QED
    BY <1>7, <2>2, <2>3, <2>4 DEF MathStep
<1> QED
  BY <1>1, <1>2, <1>3, <1>4, <1>5, <1>6, <1>7 DEF Next, RankStep, RowStep, Finished

-----------------------------------------------------------------------------
(***************************************************************************)
(* Where the ranks can be: ControlInv.                                     *)
(***************************************************************************)
LEMMA BarrierFacts ==
  ASSUME TypeInv, NEW r \in Ranks
  PROVE  /\ BarriersPerLaunch \in {1, 2} /\ Barrier1(r) \in Int /\ Barrier3(r) \in Nat
         /\ doneFlags => BarriersPerLaunch = 1 /\ Barrier3(r) = launch[r]
         /\ ~doneFlags => /\ BarriersPerLaunch = 2 /\ Barrier3(r) = launch[r] + launch[r]
                          /\ Barrier1(r) = Barrier3(r) - 1
BY DEF TypeInv, BarriersPerLaunch, Barrier1, Barrier3

LEMMA BarriersStand ==
  ASSUME TypeInv, doneFlags' = doneFlags, NEW q \in Ranks, launch'[q] = launch[q]
  PROVE  /\ BarriersPerLaunch' = BarriersPerLaunch
         /\ Barrier1(q)' = Barrier1(q) /\ Barrier3(q)' = Barrier3(q)
BY DEF BarriersPerLaunch, Barrier1, Barrier3

LEMMA InitControl == Init => ControlInv
<1> SUFFICES ASSUME Init PROVE ControlInv
  OBVIOUS
<1> USE PushFactsHold DEF Init, PushFacts
<1>1. TypeInv
  BY InitType
<1>2. ASSUME NEW r \in Ranks PROVE StageInv(r) /\ ArrivalInv(r) /\ SignalInv(r)
  <2>1. NonePushes(r) /\ AllIn(r, {"barrier3", "exited"}) /\ \A sm \in SMs : CtaPushed(r, sm)
    BY DEF NonePushes, AllIn, CtaPushed
  <2>2. StageInv(r)
    BY <2>1 DEF StageInv, AllIn
  <2>3. ArrivalInv(r)
    BY <2>1 DEF ArrivalInv
  <2>4. \A q \in Ranks : Barrier3(q) = 0 /\ nvSignals[q] = 0
    BY <1>1, BarrierFacts
  <2>5. SignalInv(r)
    BY <1>1, <2>1, <2>4, BarrierFacts DEF SignalInv
  <2> QED
    BY <2>2, <2>3, <2>5
<1>3. SkewInv
  BY DEF SkewInv
<1> QED
  BY <1>2, <1>3 DEF ControlInv

\* A step of rank r leaves the others where they are.
LEMMA ControlOfOne ==
  ASSUME TypeInv, TypeInv', ControlInv, NEW r \in Ranks, doneFlags' = doneFlags,
         \A q \in Ranks \ {r} :
           /\ pc'[q] = pc[q] /\ math'[q] = math[q] /\ row'[q] = row[q]
           /\ toSignal'[q] = toSignal[q] /\ ctaArrival'[q] = ctaArrival[q]
           /\ launch'[q] = launch[q] /\ nvSignals'[q] = nvSignals[q],
         nvSignals'[r] >= nvSignals[r],
         StageInv(r)', ArrivalInv(r)', SignalInv(r)', SkewInv'
  PROVE  ControlInv'
<1>1. ASSUME NEW q \in Ranks \ {r} PROVE StageInv(q)' /\ ArrivalInv(q)' /\ SignalInv(q)'
  <2>1. StageInv(q) /\ ArrivalInv(q) /\ SignalInv(q)
    BY DEF ControlInv
  <2>2. StageInv(q)'
    BY <2>1 DEF StageInv, AllIn, NonePushes, CtaPushed
  <2>3. NonePushes(q)' <=> NonePushes(q)
    BY DEF NonePushes
  <2>4. ArrivalInv(q)'
    BY <2>1, <2>3 DEF ArrivalInv
  <2>5. /\ BarriersPerLaunch' = BarriersPerLaunch
        /\ Barrier1(q)' = Barrier1(q) /\ Barrier3(q)' = Barrier3(q)
    BY BarriersStand
  <2>6. \A p \in Ranks : nvSignals'[p] >= nvSignals[p]
    <3>1. ASSUME NEW p \in Ranks \ {r} PROVE nvSignals'[p] >= nvSignals[p]
      BY DEF TypeInv
    <3> QED
      BY <3>1
  <2>7. pc'[q][0] = "exited" => \A p \in Ranks : nvSignals'[p] >= Barrier3(q)
    <3>1. SUFFICES ASSUME pc[q][0] = "exited", NEW p \in Ranks
                   PROVE  nvSignals'[p] >= Barrier3(q)
      OBVIOUS
    <3>2. nvSignals[p] >= Barrier3(q)
      BY <2>1, <3>1 DEF SignalInv
    <3>3. nvSignals[p] \in Nat /\ nvSignals'[p] \in Nat /\ Barrier3(q) \in Nat
      BY BarrierFacts DEF TypeInv
    <3> QED
      BY <2>6, <3>2, <3>3
  <2>8. SignalInv(q)'
    BY <2>1, <2>3, <2>5, <2>7 DEF SignalInv, AllIn
  <2> QED
    BY <2>2, <2>4, <2>8
<1> QED
  BY <1>1 DEF ControlInv

\* No launch starts and no barrier is signalled.
LEMMA SkewStands ==
  ASSUME TypeInv, SkewInv, doneFlags' = doneFlags, launch' = launch, nvSignals' = nvSignals
  PROVE  SkewInv'
BY BarriersStand DEF SkewInv

\* The signals of rank r stand while it stays behind the same barriers.
LEMMA SignalsStand ==
  ASSUME TypeInv, NEW r \in Ranks, SignalInv(r), doneFlags' = doneFlags, launch' = launch,
         nvSignals' = nvSignals,
         AllIn(r, {"barrier3", "exited"}) => AllIn(r, {"barrier3", "exited"})',
         NonePushes(r) => NonePushes(r)',
         pc'[r][0] = "exited" => \A q \in Ranks : nvSignals[q] >= Barrier3(r)
  PROVE  SignalInv(r)'
<1>1. /\ BarriersPerLaunch' = BarriersPerLaunch
      /\ Barrier1(r)' = Barrier1(r) /\ Barrier3(r)' = Barrier3(r)
  BY BarriersStand
<1> QED
  BY <1>1 DEF SignalInv

\* The arrival ticket stands when nobody stops pushing.
LEMMA ArrivalStands ==
  ASSUME NEW r \in Ranks, ArrivalInv(r), doneFlags' = doneFlags,
         ctaArrival'[r] = ctaArrival[r],
         \A sm \in SMs : pc'[r][sm] = "push" <=> pc[r][sm] = "push"
  PROVE  ArrivalInv(r)'
<1>1. NonePushes(r)' <=> NonePushes(r)
  BY DEF NonePushes
<1>2. {sm \in SMs : pc'[r][sm] # "push"} = {sm \in SMs : pc[r][sm] # "push"}
  OBVIOUS
<1> QED
  BY <1>1, <1>2 DEF ArrivalInv

\* The others of ControlOfOne for a step that moves one CTA of rank r.
OthersStand(r) ==
  /\ doneFlags' = doneFlags /\ launch' = launch
  /\ \A q \in Ranks \ {r} :
       /\ pc'[q] = pc[q] /\ math'[q] = math[q] /\ row'[q] = row[q]
       /\ toSignal'[q] = toSignal[q] /\ ctaArrival'[q] = ctaArrival[q]

LEMMA ControlOfRank ==
  ASSUME TypeInv, TypeInv', ControlInv, NEW r \in Ranks, OthersStand(r),
         nvSignals' = nvSignals,
         StageInv(r)', ArrivalInv(r)', SignalInv(r)'
  PROVE  ControlInv'
<1>1. SkewInv'
  BY SkewStands DEF ControlInv, OthersStand
<1>2. nvSignals'[r] >= nvSignals[r]
  BY DEF TypeInv
<1> QED
  BY <1>1, <1>2, ControlOfOne DEF OthersStand

LEMMA RowControl ==
  ASSUME TypeInv, TypeInv', ControlInv, NEW r \in Ranks, NEW i \in Rows, RowStep(r, i)
  PROVE  ControlInv'
<1>1. /\ row[r][i] # Stored
      /\ \A q \in Ranks, j \in Rows : q # r \/ j # i => row'[q][j] = row[q][j]
  <2>1. row[r][i] # Stored
    BY PushFactsHold DEF RowStep, TakeTicket, StoreRow, Todo, Stored, PushFacts
  <2>2. \E v : row' = [row EXCEPT ![r][i] = v]
    BY DEF RowStep, TakeTicket, StoreRow
  <2> QED
    BY <2>1, <2>2 DEF TypeInv
<1>2. UNCHANGED <<wordVars, launchVars, pc, toSignal, mathVars>>
  BY DEF RowStep, TakeTicket, StoreRow
<1>3. \A q \in Ranks \ {r} : row'[q] = row[q]
  BY <1>1 DEF TypeInv
<1>4. OthersStand(r) /\ nvSignals' = nvSignals /\ ctaArrival' = ctaArrival
      /\ launch' = launch /\ pc' = pc /\ math' = math /\ toSignal' = toSignal /\ doneFlags' = doneFlags
  BY <1>2, <1>3 DEF OthersStand, wordVars, launchVars, mathVars
<1>5. StageInv(r) /\ ArrivalInv(r) /\ SignalInv(r)
  BY DEF ControlInv
<1>6. \A sm \in SMs : CtaPushed(r, sm) => CtaPushed(r, sm)'
  BY <1>1 DEF CtaPushed
<1>7. StageInv(r)'
  BY <1>4, <1>5, <1>6 DEF StageInv, AllIn, NonePushes
<1>8. ArrivalInv(r)'
  BY <1>4, <1>5, ArrivalStands
<1>9. SignalInv(r)'
  BY <1>4, <1>5, SignalsStand DEF AllIn, NonePushes, SignalInv
<1> QED
  BY <1>4, <1>7, <1>8, <1>9, ControlOfRank

LEMMA MathControl ==
  ASSUME TypeInv, TypeInv', ControlInv, NEW r \in Ranks, NEW sm \in SMs, MathStep(r, sm)
  PROVE  ControlInv'
<1>1. /\ math[r][sm] # "done"
      /\ \A q \in Ranks, x \in SMs : q # r \/ x # sm => math'[q][x] = math[q][x]
  BY DEF MathStep, ReadTarget, FetchCounts, FinishTasks, TypeInv
<1>2. UNCHANGED <<poolVars, wordVars, launchVars, dispatchVars>>
  BY DEF MathStep, ReadTarget, FetchCounts, FinishTasks
<1>3. \A q \in Ranks \ {r} : math'[q] = math[q]
  BY <1>1 DEF TypeInv
<1>4. OthersStand(r) /\ nvSignals' = nvSignals /\ ctaArrival' = ctaArrival
      /\ launch' = launch /\ pc' = pc /\ row' = row /\ toSignal' = toSignal /\ doneFlags' = doneFlags
  BY <1>2, <1>3 DEF OthersStand, wordVars, launchVars, dispatchVars
<1>5. StageInv(r) /\ ArrivalInv(r) /\ SignalInv(r)
  BY DEF ControlInv
<1>6. \A x \in SMs : math[r][x] = "done" => math'[r][x] = "done"
  BY <1>1
<1>7. StageInv(r)'
  BY <1>4, <1>5, <1>6 DEF StageInv, AllIn, NonePushes, CtaPushed
<1>8. ArrivalInv(r)'
  BY <1>4, <1>5, ArrivalStands
<1>9. SignalInv(r)'
  BY <1>4, <1>5, SignalsStand DEF AllIn, NonePushes, SignalInv
<1> QED
  BY <1>4, <1>7, <1>8, <1>9, ControlOfRank

\* The last CTA to arrive is the one that finds all others counted.
LEMMA ArrivalCount ==
  ASSUME TypeInv, NEW r \in Ranks, ArrivalInv(r), doneFlags, NEW sm \in SMs, pc[r][sm] = "push"
  PROVE  /\ ctaArrival[r] = NumSMs - 1 <=> \A x \in SMs : x # sm => pc[r][x] # "push"
         /\ Cardinality({x \in SMs : x = sm \/ pc[r][x] # "push"}) = ctaArrival[r] + 1
<1> DEFINE Arrived == {x \in SMs : pc[r][x] # "push"}
<1>1. IsFiniteSet(SMs) /\ Cardinality(SMs) = NumSMs
  <2>1. 0 \in Int /\ NumSMs - 1 \in Int /\ NumSMs \in Nat /\ NumSMs > 1
    BY PushFactsHold DEF PushFacts
  <2>2. IsFiniteSet(0 .. NumSMs - 1)
        /\ Cardinality(0 .. NumSMs - 1) = IF 0 > NumSMs - 1 THEN 0 ELSE (NumSMs - 1) - 0 + 1
    BY <2>1, FS_Interval
  <2> QED
    BY <2>1, <2>2 DEF SMs
<1>2. Arrived \subseteq SMs /\ sm \in SMs \ Arrived
  OBVIOUS
<1>3. ctaArrival[r] = Cardinality(Arrived)
  BY DEF ArrivalInv, NonePushes
<1> DEFINE Rest == SMs \ {sm}
<1>4. IsFiniteSet(Rest) /\ Cardinality(Rest) = NumSMs - 1
  BY <1>1, FS_RemoveElement
<1>5. IsFiniteSet(Arrived) /\ Arrived \subseteq Rest
  BY <1>1, <1>2, FS_Subset
<1>6. Cardinality(Arrived) = Cardinality(Rest) <=> Arrived = Rest
  BY <1>4, <1>5, FS_Subset
<1>7. Arrived = Rest <=> \A x \in SMs : x # sm => pc[r][x] # "push"
  OBVIOUS
<1>8. {x \in SMs : x = sm \/ pc[r][x] # "push"} = Arrived \cup {sm}
  OBVIOUS
<1>9. Cardinality(Arrived \cup {sm}) = Cardinality(Arrived) + 1
  BY <1>2, <1>5, FS_AddElement
<1> QED
  BY <1>3, <1>4, <1>6, <1>7, <1>8, <1>9

LEMMA ArriveControl ==
  ASSUME TypeInv, TypeInv', ControlInv, NEW r \in Ranks, NEW sm \in SMs,
         CtaArrive(r, sm) \/ EnterBarrier1(r, sm)
  PROVE  ControlInv'
<1>1. StageInv(r) /\ ArrivalInv(r) /\ SignalInv(r)
  BY DEF ControlInv
<1>2. PICK to \in {"signal", "publish", "barrier1"} : pc' = [pc EXCEPT ![r][sm] = to]
  BY DEF CtaArrive, EnterBarrier1, Goto
<1>3. /\ pc[r][sm] = "push" /\ pc'[r][sm] = to
      /\ \A x \in SMs : x # sm => pc'[r][x] = pc[r][x]
      /\ \A q \in Ranks \ {r} : pc'[q] = pc[q]
  BY <1>2 DEF CtaArrive, EnterBarrier1, TypeInv
<1>4. /\ doneFlags' = doneFlags /\ launch' = launch /\ nvSignals' = nvSignals
      /\ math' = math /\ row' = row /\ CtaPushed(r, sm)
      /\ \A q \in Ranks \ {r} : toSignal'[q] = toSignal[q] /\ ctaArrival'[q] = ctaArrival[q]
  BY DEF CtaArrive, EnterBarrier1, launchVars, mathVars, wordVars, TypeInv
<1>5. OthersStand(r)
  BY <1>3, <1>4 DEF OthersStand
<1>6. SignalInv(r)'
  <2>2. ~AllIn(r, {"barrier3", "exited"}) /\ ~NonePushes(r)
    BY <1>3 DEF AllIn, NonePushes
  <2>3. pc[r][0] # "exited"
    BY <1>1, <1>3, PushFactsHold DEF StageInv, AllIn, PushFacts
  <2>4. pc'[r][0] # "exited"
    BY <1>3, <2>3, PushFactsHold DEF PushFacts
  <2> QED
    BY <1>1, <1>4, <2>2, <2>4, SignalsStand
<1>7. CASE CtaArrive(r, sm)
  <2>1. doneFlags
    BY <1>7 DEF CtaArrive
  <2>2. ctaArrival[r] = NumSMs - 1 <=> \A x \in SMs : x # sm => pc[r][x] # "push"
    BY <1>1, <1>3, <2>1, ArrivalCount
  <2>3. Cardinality({x \in SMs : x = sm \/ pc[r][x] # "push"}) = ctaArrival[r] + 1
    BY <1>1, <1>3, <2>1, ArrivalCount
  <2>4. {x \in SMs : pc'[r][x] # "push"} = {x \in SMs : x = sm \/ pc[r][x] # "push"}
    BY <1>2, <1>3
  <2>5. NonePushes(r)' <=> \A x \in SMs : x # sm => pc[r][x] # "push"
    BY <1>2, <1>3 DEF NonePushes
  <2>6. CASE ctaArrival[r] = NumSMs - 1
    <3>1. ctaArrival'[r] = 0 /\ to = "signal"
      BY <1>2, <1>3, <1>7, <2>6 DEF CtaArrive, Goto, TypeInv
    <3>2. NonePushes(r)'
      BY <2>2, <2>5, <2>6
    <3>3. ArrivalInv(r)'
      BY <3>1, <3>2 DEF ArrivalInv
    <3>4. StageInv(r)'
      BY <1>1, <1>3, <1>4, <2>1, <3>1, <3>2 DEF StageInv, AllIn, NonePushes, CtaPushed
    <3> QED
      BY <1>4, <1>5, <1>6, <3>3, <3>4, ControlOfRank
  <2>7. CASE ctaArrival[r] # NumSMs - 1
    <3>1. ctaArrival'[r] = ctaArrival[r] + 1 /\ to = "publish"
      BY <1>2, <1>3, <1>7, <2>7 DEF CtaArrive, Goto, TypeInv
    <3>2. ~NonePushes(r)'
      BY <2>2, <2>5, <2>7
    <3>3. ArrivalInv(r)'
      BY <1>4, <2>1, <2>3, <2>4, <3>1, <3>2 DEF ArrivalInv
    <3>4. StageInv(r)'
      BY <1>1, <1>3, <1>4, <2>1, <3>1 DEF StageInv, AllIn, NonePushes, CtaPushed
    <3> QED
      BY <1>4, <1>5, <1>6, <3>3, <3>4, ControlOfRank
  <2> QED
    BY <2>6, <2>7
<1>8. CASE EnterBarrier1(r, sm)
  <2>1. ~doneFlags /\ to = "barrier1" /\ toSignal' = toSignal /\ ctaArrival' = ctaArrival
    BY <1>2, <1>3, <1>8 DEF EnterBarrier1, Goto, wordVars, TypeInv
  <2>2. ArrivalInv(r)'
    BY <1>1, <1>4, <2>1 DEF ArrivalInv
  <2>3. StageInv(r)'
    BY <1>1, <1>3, <1>4, <2>1 DEF StageInv, AllIn, NonePushes, CtaPushed
  <2> QED
    BY <1>4, <1>5, <1>6, <2>2, <2>3, ControlOfRank
<1> QED
  BY <1>7, <1>8

\* The later moves of a CTA, none of them from "push".
LaterMove(r, sm) ==
  \/ \E q \in Ranks : SignalDone(r, sm, q)
  \/ LeaveBarrier1(r, sm) \/ Publish(r, sm)
  \/ EnterGridSync(r, sm) \/ Cleanup(r, sm) \/ LeaveBarrier3(r, sm)

LEMMA LaterFacts ==
  ASSUME TypeInv, NEW r \in Ranks, NEW sm \in SMs, LaterMove(r, sm)
  PROVE  \E to \in CtaStates \ {"push"} :
           /\ pc[r][sm] # "push" /\ pc'[r][sm] = to
           /\ \A x \in SMs : x # sm => pc'[r][x] = pc[r][x]
           /\ \A q \in Ranks \ {r} : pc'[q] = pc[q] /\ toSignal'[q] = toSignal[q]
           /\ \A q \in Ranks : toSignal'[q] \subseteq toSignal[q]
           /\ doneFlags' = doneFlags /\ launch' = launch /\ routing' = routing
           /\ nvSignals' = nvSignals /\ math' = math /\ row' = row
           /\ ctaArrival' = ctaArrival /\ pool' = pool /\ counts' = counts /\ target' = target
           /\ <<pc[r][sm], to>> \in
                {<<"signal", "signal">>, <<"signal", "publish">>, <<"barrier1", "publish">>,
                 <<"publish", "join">>, <<"join", "grid">>, <<"grid", "barrier3">>,
                 <<"barrier3", "exited">>}
           /\ to = "grid" => math[r][sm] = "done"
           /\ to = "barrier3" => AllIn(r, {"grid", "barrier3", "exited"})
           /\ to = "exited" =>
                /\ AllIn(r, {"barrier3", "exited"})
                /\ sm = 0 => \A q \in Ranks : nvSignals[q] >= Barrier3(r)
<1> DEFINE Move(from, to) ==
      /\ pc[r][sm] = from /\ pc' = [pc EXCEPT ![r][sm] = to]
      /\ to = "grid" => math[r][sm] = "done"
      /\ to = "barrier3" => AllIn(r, {"grid", "barrier3", "exited"})
      /\ to = "exited" =>
           /\ AllIn(r, {"barrier3", "exited"})
           /\ sm = 0 => \A q \in Ranks : nvSignals[q] >= Barrier3(r)
<1>0. \/ Move("signal", "signal") \/ Move("signal", "publish") \/ Move("barrier1", "publish")
      \/ Move("publish", "join") \/ Move("join", "grid") \/ Move("grid", "barrier3")
      \/ Move("barrier3", "exited")
  <2>1. ASSUME NEW q \in Ranks, SignalDone(r, sm, q)
        PROVE  Move("signal", "signal") \/ Move("signal", "publish")
    BY <2>1 DEF SignalDone, Goto
  <2>2. LeaveBarrier1(r, sm) => Move("barrier1", "publish")
    BY DEF LeaveBarrier1, Goto
  <2>3. Publish(r, sm) => Move("publish", "join")
    BY DEF Publish, Goto
  <2>4. EnterGridSync(r, sm) => Move("join", "grid")
    BY DEF EnterGridSync, Goto
  <2>5. Cleanup(r, sm) => Move("grid", "barrier3")
    BY DEF Cleanup, GridPassed, AllIn, Goto
  <2>6. LeaveBarrier3(r, sm) => Move("barrier3", "exited")
    BY DEF LeaveBarrier3, Entered, AllIn, Goto
  <2> QED
    BY <2>1, <2>2, <2>3, <2>4, <2>5, <2>6 DEF LaterMove
<1>1. PICK from \in CtaStates, to \in CtaStates \ {"push"} :
        Move(from, to) /\
        <<from, to>> \in
             {<<"signal", "signal">>, <<"signal", "publish">>, <<"barrier1", "publish">>,
              <<"publish", "join">>, <<"join", "grid">>, <<"grid", "barrier3">>,
              <<"barrier3", "exited">>}
  <2> HIDE DEF Move
  <2> QED
    BY <1>0 DEF CtaStates
<1>2. /\ pc[r][sm] # "push" /\ pc'[r][sm] = to
      /\ \A x \in SMs : x # sm => pc'[r][x] = pc[r][x]
      /\ \A q \in Ranks \ {r} : pc'[q] = pc[q]
  BY <1>1 DEF TypeInv
<1>3. /\ \A q \in Ranks \ {r} : toSignal'[q] = toSignal[q]
      /\ \A q \in Ranks : toSignal'[q] \subseteq toSignal[q]
  <2>1. CASE \E q \in Ranks : SignalDone(r, sm, q)
    BY <2>1 DEF SignalDone, TypeInv
  <2>2. CASE ~\E q \in Ranks : SignalDone(r, sm, q)
    <3>1. toSignal' = toSignal
      BY <2>2 DEF LaterMove, LeaveBarrier1, Publish, EnterGridSync, Cleanup, LeaveBarrier3
    <3> QED
      BY <3>1
  <2> QED
    BY <2>1, <2>2
<1>4. /\ doneFlags' = doneFlags /\ launch' = launch /\ routing' = routing
      /\ nvSignals' = nvSignals /\ math' = math /\ row' = row
      /\ ctaArrival' = ctaArrival /\ pool' = pool /\ counts' = counts /\ target' = target
  BY DEF LaterMove, SignalDone, LeaveBarrier1, Publish, EnterGridSync, Cleanup, LeaveBarrier3,
     poolVars, wordVars, launchVars, mathVars
<1> QED
  BY <1>1, <1>2, <1>3, <1>4

LEMMA LaterControl ==
  ASSUME TypeInv, TypeInv', ControlInv, NEW r \in Ranks, NEW sm \in SMs, LaterMove(r, sm)
  PROVE  ControlInv'
<1>1. StageInv(r) /\ ArrivalInv(r) /\ SignalInv(r)
  BY DEF ControlInv
<1>2. PICK to \in CtaStates \ {"push"} :
           /\ pc[r][sm] # "push" /\ pc'[r][sm] = to
           /\ \A x \in SMs : x # sm => pc'[r][x] = pc[r][x]
           /\ \A q \in Ranks \ {r} : pc'[q] = pc[q] /\ toSignal'[q] = toSignal[q]
           /\ \A q \in Ranks : toSignal'[q] \subseteq toSignal[q]
           /\ doneFlags' = doneFlags /\ launch' = launch
           /\ nvSignals' = nvSignals /\ math' = math /\ row' = row
           /\ ctaArrival' = ctaArrival
           /\ <<pc[r][sm], to>> \in
                {<<"signal", "signal">>, <<"signal", "publish">>, <<"barrier1", "publish">>,
                 <<"publish", "join">>, <<"join", "grid">>, <<"grid", "barrier3">>,
                 <<"barrier3", "exited">>}
           /\ to = "grid" => math[r][sm] = "done"
           /\ to = "barrier3" => AllIn(r, {"grid", "barrier3", "exited"})
           /\ to = "exited" =>
                /\ AllIn(r, {"barrier3", "exited"})
                /\ sm = 0 => \A q \in Ranks : nvSignals[q] >= Barrier3(r)
  BY LaterFacts
<1>3. OthersStand(r)
  BY <1>2 DEF OthersStand
<1>4. \A x \in SMs : pc'[r][x] = "push" <=> pc[r][x] = "push"
  BY <1>2
<1>5. NonePushes(r)' <=> NonePushes(r)
  BY <1>4 DEF NonePushes
<1>6. ArrivalInv(r)'
  BY <1>1, <1>2, <1>4, ArrivalStands
<1>7. \A x \in SMs : CtaPushed(r, x)' <=> CtaPushed(r, x)
  BY <1>2 DEF CtaPushed
<1>8. StageInv(r)'
  <2>1. ASSUME NEW x \in SMs
        PROVE  /\ pc'[r][x] \in {"grid", "barrier3", "exited"} => math[r][x] = "done"
               /\ pc'[r][x] \in {"barrier3", "exited"} => AllIn(r, {"grid", "barrier3", "exited"})'
               /\ pc'[r][x] = "exited" => AllIn(r, {"barrier3", "exited"})'
    <3>1. pc'[r][x] \in {"grid", "barrier3", "exited"} => math[r][x] = "done"
      BY <1>1, <1>2 DEF StageInv
    <3>2. AllIn(r, {"grid", "barrier3", "exited"}) => AllIn(r, {"grid", "barrier3", "exited"})'
      BY <1>2 DEF AllIn
    <3>3. AllIn(r, {"barrier3", "exited"}) => AllIn(r, {"barrier3", "exited"})'
      BY <1>2 DEF AllIn
    <3>4. pc'[r][x] \in {"barrier3", "exited"} => AllIn(r, {"grid", "barrier3", "exited"})
      BY <1>1, <1>2 DEF StageInv
    <3>5. pc'[r][x] = "exited" => AllIn(r, {"barrier3", "exited"})
      BY <1>1, <1>2 DEF StageInv
    <3> QED
      BY <3>1, <3>2, <3>3, <3>4, <3>5
  <2>2. ASSUME NEW x \in SMs
        PROVE  /\ pc'[r][x] = "signal" => doneFlags /\ NonePushes(r)
               /\ pc'[r][x] = "barrier1" => ~doneFlags
               /\ pc'[r][x] # "push" => CtaPushed(r, x)
    BY <1>1, <1>2 DEF StageInv
  <2>3. ~doneFlags => toSignal'[r] = {}
    BY <1>1, <1>2 DEF StageInv
  <2> QED
    BY <1>2, <1>5, <1>7, <2>1, <2>2, <2>3 DEF StageInv
<1>9. SignalInv(r)'
  <2>1. AllIn(r, {"barrier3", "exited"}) => AllIn(r, {"barrier3", "exited"})'
    BY <1>2 DEF AllIn
  <2>2. pc'[r][0] = "exited" => \A q \in Ranks : nvSignals[q] >= Barrier3(r)
    BY <1>1, <1>2, PushFactsHold DEF SignalInv, PushFacts
  <2> QED
    BY <1>1, <1>2, <1>5, <2>1, <2>2, SignalsStand
<1> QED
  BY <1>2, <1>3, <1>6, <1>8, <1>9, ControlOfRank

LEMMA SignalControl ==
  ASSUME TypeInv, TypeInv', ControlInv, NEW r \in Ranks, SignalBarrier1(r) \/ SignalBarrier3(r)
  PROVE  ControlInv'
<1>1. StageInv(r) /\ ArrivalInv(r) /\ SignalInv(r)
  BY DEF ControlInv
<1>2. /\ nvSignals' = [nvSignals EXCEPT ![r] = @ + 1]
      /\ UNCHANGED <<poolVars, launchVars, dispatchVars, mathVars, ctaArrival>>
  BY DEF SignalBarrier1, SignalBarrier3, SendSignals
<1>3. /\ doneFlags' = doneFlags /\ launch' = launch /\ pc' = pc /\ math' = math /\ row' = row
      /\ toSignal' = toSignal /\ ctaArrival' = ctaArrival
      /\ nvSignals'[r] = nvSignals[r] + 1 /\ nvSignals[r] \in Nat
      /\ \A q \in Ranks \ {r} : nvSignals'[q] = nvSignals[q]
  BY <1>2 DEF launchVars, dispatchVars, mathVars, TypeInv
<1>4. /\ BarriersPerLaunch' = BarriersPerLaunch
      /\ \A q \in Ranks : Barrier1(q)' = Barrier1(q) /\ Barrier3(q)' = Barrier3(q)
  BY <1>3, BarriersStand DEF BarriersPerLaunch
<1>5. \/ /\ ~doneFlags /\ nvSignals[r] = Barrier1(r) - 1 /\ AllIn(r, {"barrier1", "exited"})
         /\ pc[r][0] = "barrier1"
      \/ /\ nvSignals[r] = Barrier3(r) - 1 /\ AllIn(r, {"barrier3", "exited"})
         /\ pc[r][0] = "barrier3"
  BY DEF SignalBarrier1, SignalBarrier3, SendSignals, Entered, AllIn
<1>6. NonePushes(r)
  BY <1>5 DEF AllIn, NonePushes
<1>7. nvSignals'[r] <= Barrier3(r) /\ nvSignals[r] # Barrier3(r)
  BY <1>3, <1>5, BarrierFacts
<1>8. StageInv(r)'
  BY <1>1, <1>3 DEF StageInv, AllIn, NonePushes, CtaPushed
<1>9. ArrivalInv(r)'
  BY <1>1, <1>3, ArrivalStands
<1>10. SignalInv(r)'
  <2>1. nvSignals'[r] = Barrier3(r) => AllIn(r, {"barrier3", "exited"})
    BY <1>3, <1>5, BarrierFacts
  <2>2. pc[r][0] # "exited"
    BY <1>5
  <2>3. Barrier3(r) <= nvSignals'[r] + BarriersPerLaunch
    BY <1>1, <1>3, BarrierFacts DEF SignalInv
  <2> QED
    BY <1>3, <1>4, <1>6, <1>7, <2>1, <2>2, <2>3 DEF SignalInv, AllIn, NonePushes
<1>11. SkewInv'
  <2>1. ASSUME NEW p \in Ranks, NEW q \in Ranks, launch[p] > launch[q]
        PROVE  launch[p] = launch[q] + 1 /\ nvSignals'[q] = Barrier3(q)
    BY <1>3, <1>7, <2>1 DEF ControlInv, SkewInv
  <2> QED
    BY <1>3, <1>4, <2>1 DEF SkewInv
<1> QED
  BY <1>3, <1>8, <1>9, <1>10, <1>11, ControlOfOne

LEMMA LaunchFacts ==
  ASSUME TypeInv, ControlInv, NEW r \in Ranks, Launch(r)
  PROVE  /\ AllIn(r, {"exited"}) /\ \A sm \in SMs : math[r][sm] = "done"
         /\ nvSignals[r] = Barrier3(r)
         /\ \A q \in Ranks : launch[q] = launch[r] => nvSignals[q] = Barrier3(q)
         /\ \A q \in Ranks : launch[q] >= launch[r] /\ launch[q] <= launch[r] + 1
         /\ launch'[r] = launch[r] + 1
         /\ \A sm \in SMs : pc'[r][sm] = "push" /\ math'[r][sm] = "start"
         /\ \A q \in Ranks \ {r} : /\ launch'[q] = launch[q] /\ routing'[q] = routing[q]
                                   /\ row'[q] = row[q] /\ pc'[q] = pc[q] /\ math'[q] = math[q]
         /\ \A i \in Rows : row'[r][i] = IF routing'[r][i] = NoExpert THEN Stored ELSE Todo
         /\ doneFlags' = doneFlags /\ nvSignals' = nvSignals /\ ctaArrival' = ctaArrival
         /\ toSignal' = toSignal
<1>1. AllIn(r, {"exited"}) /\ \A sm \in SMs : math[r][sm] = "done"
  BY DEF Launch, Idle, AllIn
<1>2. \A q \in Ranks : nvSignals[q] >= Barrier3(r)
  BY <1>1, PushFactsHold DEF ControlInv, SignalInv, AllIn, PushFacts
<1>3. ASSUME NEW q \in Ranks
      PROVE  /\ launch[q] = launch[r] => nvSignals[q] = Barrier3(q)
             /\ launch[q] >= launch[r] /\ launch[q] <= launch[r] + 1
  <2>1. nvSignals[q] <= Barrier3(q) /\ nvSignals[q] >= Barrier3(r)
    BY <1>2 DEF ControlInv, SignalInv
  <2>2. launch[q] \in Nat /\ launch[r] \in Nat /\ nvSignals[q] \in Nat
    BY DEF TypeInv
  <2>3. launch[q] >= launch[r] /\ (launch[q] = launch[r] => nvSignals[q] = Barrier3(q))
    <3>1. CASE doneFlags
      BY <2>1, <2>2, <3>1, BarrierFacts
    <3>2. CASE ~doneFlags
      BY <2>1, <2>2, <3>2, BarrierFacts
    <3> QED
      BY <3>1, <3>2
  <2>4. launch[q] <= launch[r] + 1
    BY <2>2 DEF ControlInv, SkewInv
  <2> QED
    BY <2>3, <2>4
<1>4. launch'[r] = launch[r] + 1 /\ \A q \in Ranks \ {r} : launch'[q] = launch[q]
  BY DEF Launch, TypeInv
<1>5. /\ \A sm \in SMs : pc'[r][sm] = "push" /\ math'[r][sm] = "start"
      /\ \A q \in Ranks \ {r} : pc'[q] = pc[q] /\ math'[q] = math[q]
  BY DEF Launch, TypeInv
<1>6. /\ \A i \in Rows : row'[r][i] = IF routing'[r][i] = NoExpert THEN Stored ELSE Todo
      /\ \A q \in Ranks \ {r} : row'[q] = row[q]
  <2>1. row' = [row EXCEPT ![r] = [i \in Rows |-> IF routing'[r][i] = NoExpert THEN Stored ELSE Todo]]
    BY DEF Launch
  <2> QED
    BY <2>1 DEF TypeInv
<1>7. \A q \in Ranks \ {r} : routing'[q] = routing[q]
  <2>1. PICK t : routing' = [routing EXCEPT ![r] = t]
    BY DEF Launch
  <2> QED
    BY <2>1 DEF TypeInv
<1>8. /\ doneFlags' = doneFlags /\ nvSignals' = nvSignals /\ ctaArrival' = ctaArrival
      /\ toSignal' = toSignal
  BY DEF Launch, wordVars
<1> QED
  BY <1>1, <1>3, <1>4, <1>5, <1>6, <1>7, <1>8

LEMMA LaunchControl ==
  ASSUME TypeInv, TypeInv', ControlInv, NEW r \in Ranks, Launch(r)
  PROVE  ControlInv'
<1>1. /\ AllIn(r, {"exited"})
      /\ nvSignals[r] = Barrier3(r)
      /\ \A q \in Ranks : launch[q] = launch[r] => nvSignals[q] = Barrier3(q)
      /\ \A q \in Ranks : launch[q] >= launch[r] /\ launch[q] <= launch[r] + 1
      /\ launch'[r] = launch[r] + 1
      /\ \A sm \in SMs : pc'[r][sm] = "push" /\ math'[r][sm] = "start"
      /\ \A q \in Ranks \ {r} : /\ launch'[q] = launch[q] /\ row'[q] = row[q]
                                /\ pc'[q] = pc[q] /\ math'[q] = math[q]
      /\ doneFlags' = doneFlags /\ nvSignals' = nvSignals /\ ctaArrival' = ctaArrival
      /\ toSignal' = toSignal
  BY LaunchFacts
<1>2. StageInv(r) /\ ArrivalInv(r) /\ SignalInv(r)
  BY DEF ControlInv
<1>3. BarriersPerLaunch' = BarriersPerLaunch
  BY <1>1 DEF BarriersPerLaunch
<1>4. Barrier3(r)' = Barrier3(r) + BarriersPerLaunch /\ Barrier3(r) \in Nat /\ BarriersPerLaunch \in {1, 2}
  <2>1. launch[r] \in Nat /\ launch'[r] \in Nat
    BY DEF TypeInv
  <2>2. Barrier3(r)' = BarriersPerLaunch * launch'[r]
    BY <1>3 DEF Barrier3
  <2>3. CASE doneFlags
    BY <1>1, <2>1, <2>2, <2>3, BarrierFacts
  <2>4. CASE ~doneFlags
    BY <1>1, <2>1, <2>2, <2>4, BarrierFacts
  <2> QED
    BY <2>3, <2>4, BarrierFacts
<1>5. NonePushes(r)
  BY <1>1 DEF NonePushes, AllIn
<1>6. StageInv(r)'
  BY <1>1, <1>2 DEF StageInv, AllIn, NonePushes
<1>7. ArrivalInv(r)'
  <2>1. ctaArrival[r] = 0
    BY <1>2, <1>5 DEF ArrivalInv
  <2>2. {sm \in SMs : pc'[r][sm] # "push"} = {}
    BY <1>1
  <2>3. Cardinality({sm \in SMs : pc'[r][sm] # "push"}) = 0
    BY <2>2, FS_EmptySet
  <2> QED
    BY <1>1, <2>1, <2>3 DEF ArrivalInv
<1>8. SignalInv(r)'
  <2>1. Barrier1(r)' = Barrier3(r)' - 1 \/ doneFlags
    BY <1>1, <1>3 DEF Barrier1, Barrier3, BarriersPerLaunch
  <2>2. ~doneFlags => BarriersPerLaunch = 2
    BY DEF BarriersPerLaunch
  <2>3. ~doneFlags => ~(nvSignals[r] >= Barrier1(r)')
    BY <1>1, <1>4, <2>1, <2>2
  <2>4. pc'[r][0] # "exited"
    BY <1>1, PushFactsHold DEF PushFacts
  <2>5. nvSignals[r] <= Barrier3(r)' /\ Barrier3(r)' <= nvSignals[r] + BarriersPerLaunch
        /\ nvSignals[r] # Barrier3(r)'
    BY <1>1, <1>4
  <2> QED
    BY <1>1, <1>3, <2>3, <2>4, <2>5 DEF SignalInv
<1>9. SkewInv'
  <2>1. ASSUME NEW p \in Ranks, NEW q \in Ranks, launch'[p] > launch'[q]
        PROVE  launch'[p] = launch'[q] + 1 /\ nvSignals'[q] = Barrier3(q)'
    <3>1. launch[p] \in Nat /\ launch[q] \in Nat /\ launch[r] \in Nat
      BY DEF TypeInv
    <3>2. q # r
      BY <1>1, <2>1, <3>1
    <3>3. Barrier3(q)' = Barrier3(q) /\ launch'[q] = launch[q]
      BY <1>1, <3>2, BarriersStand
    <3>4. CASE p = r
      <4>1. launch[q] = launch[r]
        BY <1>1, <2>1, <3>1, <3>3, <3>4
      <4> QED
        BY <1>1, <3>3, <3>4, <4>1
    <3>5. CASE p # r
      BY <1>1, <2>1, <3>3, <3>5 DEF ControlInv, SkewInv
    <3> QED
      BY <3>4, <3>5
  <2> QED
    BY <2>1 DEF SkewInv
<1>10. nvSignals'[r] >= nvSignals[r]
  BY <1>1 DEF TypeInv
<1> QED
  BY <1>1, <1>6, <1>7, <1>8, <1>9, <1>10, ControlOfOne

LEMMA StutterStands ==
  ASSUME TypeInv, UNCHANGED vars PROVE ControlInv' <=> ControlInv
BY DEF vars, poolVars, wordVars, launchVars, dispatchVars, mathVars, ControlInv, SkewInv,
   StageInv, ArrivalInv, SignalInv, AllIn, NonePushes, CtaPushed, Barrier1, Barrier3,
   BarriersPerLaunch

LEMMA NextControl == TypeInv /\ ControlInv /\ [Next]_vars => ControlInv'
<1> SUFFICES ASSUME TypeInv, ControlInv, [Next]_vars PROVE ControlInv'
  OBVIOUS
<1>1. TypeInv'
  BY NextType
<1>2. CASE UNCHANGED vars
  BY <1>2, StutterStands
<1>3. ASSUME NEW r \in Ranks, RankStep(r) PROVE ControlInv'
  BY <1>1, <1>3, LaunchControl, SignalControl DEF RankStep
<1>4. ASSUME NEW r \in Ranks, NEW i \in Rows, RowStep(r, i) PROVE ControlInv'
  BY <1>1, <1>4, RowControl
<1>5. ASSUME NEW r \in Ranks, NEW sm \in SMs, DispatchStep(r, sm) PROVE ControlInv'
  BY <1>1, <1>5, ArriveControl, LaterControl DEF DispatchStep, LaterMove
<1>6. ASSUME NEW r \in Ranks, NEW sm \in SMs, MathStep(r, sm) PROVE ControlInv'
  BY <1>1, <1>6, MathControl
<1> QED
  BY <1>2, <1>3, <1>4, <1>5, <1>6 DEF Next, Finished

-----------------------------------------------------------------------------
(***************************************************************************)
(* Counting up to the wrap.                                                *)
(***************************************************************************)
LEMMA Remainder ==
  ASSUME NEW q \in Int, NEW d \in Nat \ {0}, NEW r \in 0 .. d - 1
  PROVE  (q * d + r) % d = r
<1>1. PICK a \in Int : a = q * d + r
  OBVIOUS
<1>2. PICK k \in Int, m \in Int : k = a \div d /\ m = a % d /\ a = d * k + m /\ 0 <= m /\ m < d
  BY <1>1
<1>3. PICK j \in Int : j = q - k
  OBVIOUS
<1>4. j * d = m - r
  <2>1. q = k + j
    BY <1>3
  <2>2. PICK x, y \in Int : x = k * d /\ y = j * d
    OBVIOUS
  <2>3. (k + j) * d = k * d + j * d /\ d * k = k * d
    OBVIOUS
  <2>4. a = (x + y) + r /\ a = x + m
    BY <1>1, <1>2, <2>1, <2>2, <2>3
  <2>5. y = m - r
    BY <2>4
  <2> QED
    BY <2>2, <2>5
<1>5. j = 0
  <2>1. m - r < d /\ 0 - d < m - r
    BY <1>2
  <2>2. CASE j >= 1
    <3>1. PICK x \in Nat : j = 1 + x
      <4>1. j - 1 \in Nat /\ j = 1 + (j - 1)
        BY <2>2
      <4> QED
        BY <4>1
    <3>2. j * d = d + x * d /\ x * d \in Nat
      BY <3>1
    <3> QED
      BY <1>2, <1>4, <2>1, <3>2
  <2>3. CASE j <= -1
    <3>1. PICK x \in Nat : j = -1 - x
      <4>1. -1 - j \in Nat /\ j = -1 - (-1 - j)
        BY <2>3
      <4> QED
        BY <4>1
    <3>2. j * d = (0 - d) - x * d /\ x * d \in Nat
      BY <3>1
    <3> QED
      BY <1>2, <1>4, <2>1, <3>2
  <2> QED
    BY <2>2, <2>3
<1>6. m = r
  BY <1>2, <1>4, <1>5
<1> QED
  BY <1>1, <1>2, <1>6

\* Whole turns do not count.
LEMMA ModTurns ==
  ASSUME NEW a \in Int, NEW k \in Int
  PROVE  (a + k * DoneMod) % DoneMod = a % DoneMod
<1>1. PICK M \in Nat \ {0} : M = DoneMod
  BY PushFactsHold DEF PushFacts
<1>2. PICK q \in Int, m \in 0 .. M - 1 : m = a % M /\ a = M * q + m
  BY <1>1
<1>3. ((q + k) * M + m) % M = m
  BY <1>1, <1>2, Remainder
<1>4. (q + k) * M + m = a + k * M
  <2>1. (q + k) * M = q * M + k * M /\ M * q = q * M /\ q * M \in Int /\ k * M \in Int
    OBVIOUS
  <2> QED
    BY <1>2, <2>1
<1> QED
  BY <1>1, <1>2, <1>3, <1>4

LEMMA ModReduced ==
  ASSUME NEW a \in Int
  PROVE  \E k \in Int : a % DoneMod = a + k * DoneMod
<1>1. PICK M \in Nat \ {0} : M = DoneMod
  BY PushFactsHold DEF PushFacts
<1>2. PICK q \in Int, m \in Int : m = a % M /\ a = M * q + m
  BY <1>1
<1>3. (0 - q) * M = 0 - M * q /\ M * q \in Int
  BY <1>1
<1>4. m = a + (0 - q) * M
  <2>1. PICK y \in Int : y = M * q
    BY <1>3
  <2>2. a = y + m /\ (0 - q) * M = 0 - y
    BY <1>2, <1>3, <2>1
  <2> QED
    BY <1>2, <2>2
<1>5. a % DoneMod = a + (0 - q) * DoneMod
  BY <1>1, <1>2, <1>4
<1>6. 0 - q \in Int
  OBVIOUS
<1> QED
  BY <1>5, <1>6

LEMMA ModSum ==
  ASSUME NEW a \in Int, NEW b \in Int
  PROVE  ((a % DoneMod) + b) % DoneMod = (a + b) % DoneMod
<1>1. PICK k \in Int : a % DoneMod = a + k * DoneMod
  BY ModReduced
<1>2. DoneMod \in Nat
  BY PushFactsHold DEF PushFacts
<1>3. (a % DoneMod) + b = (a + b) + k * DoneMod
  BY <1>1, <1>2
<1> QED
  BY <1>3, ModTurns

LEMMA ModDifference ==
  ASSUME NEW a \in Int, NEW b \in Int
  PROVE  ((a % DoneMod) - (b % DoneMod)) % DoneMod = (a - b) % DoneMod
<1>1. PICK k \in Int : a % DoneMod = a + k * DoneMod
  BY ModReduced
<1>2. PICK j \in Int : b % DoneMod = b + j * DoneMod
  BY ModReduced
<1>3. PICK M \in Nat : M = DoneMod
  BY PushFactsHold DEF PushFacts
<1>4. (k - j) * M = k * M - j * M /\ k * M \in Int /\ j * M \in Int
  OBVIOUS
<1>5. (a % DoneMod) - (b % DoneMod) = (a - b) + (k - j) * DoneMod
  BY <1>1, <1>2, <1>3, <1>4
<1> QED
  BY <1>5, ModTurns

\* The target computed from the wrapped epoch.
LEMMA TargetTurns ==
  ASSUME NEW x \in Int
  PROVE  (NumRanks * ((x % DoneMod) + 1)) % DoneMod = (NumRanks * (x + 1)) % DoneMod
<1>1. PICK k \in Int : x % DoneMod = x + k * DoneMod
  BY ModReduced
<1>2. PICK M, n \in Nat : M = DoneMod /\ n = NumRanks
  BY PushFactsHold DEF PushFacts
<1>3. n * ((x + k * M) + 1) = n * (x + 1) + (n * k) * M
  OBVIOUS
<1>4. PICK y, z \in Int : y = n * (x + 1) /\ z = n * k
  OBVIOUS
<1>5. (y + z * DoneMod) % DoneMod = y % DoneMod
  BY ModTurns
<1>6. NumRanks * ((x % DoneMod) + 1) = y + z * DoneMod
  BY <1>1, <1>2, <1>3, <1>4
<1> QED
  BY <1>2, <1>4, <1>5, <1>6

\* The DONE count reaches the target with the last rank's signal: fewer signals
\* leave it less than half a turn behind.
LEMMA DoneReached ==
  ASSUME NEW e \in Int, NEW k \in 0 .. NumRanks,
         ~DoneBehind((NumRanks * (e - 1) + k) % DoneMod, (NumRanks * e) % DoneMod)
  PROVE  k = NumRanks
<1>1. PICK M, n \in Nat : M = DoneMod /\ n = NumRanks /\ M > n + n
  BY PushFactsHold DEF PushFacts
<1>2. PICK y \in Int : y = n * e /\ n * (e - 1) = y - n
  OBVIOUS
<1>3. ((((y - n) + k) % M) - (y % M)) % M = ((y - n) + k - y) % M
  <2>1. PICK x \in Int : x = (y - n) + k
    BY <1>1
  <2>2. ((x % DoneMod) - (y % DoneMod)) % DoneMod = (x - y) % DoneMod
    BY ModDifference
  <2> QED
    BY <1>1, <2>1, <2>2
<1>4. (y - n) + k - y = k - n
  BY <1>1
<1>5. SUFFICES ASSUME k # n PROVE FALSE
  BY <1>1
<1>6. (k - n) % M = M + k - n
  <2>1. M + k - n \in 0 .. M - 1 /\ M \in Nat \ {0}
    BY <1>1, <1>5
  <2>2. PICK z \in 0 .. M - 1 : z = M + k - n
    BY <2>1
  <2>3. ((-1) * M + z) % M = z
    BY <2>1, Remainder
  <2>4. (-1) * M + z = k - n
    BY <1>1, <2>2
  <2> QED
    BY <2>2, <2>3, <2>4
<1>7. 2 * (M + k - n) >= M
  BY <1>1
<1>8. DoneBehind((NumRanks * (e - 1) + k) % DoneMod, (NumRanks * e) % DoneMod)
  BY <1>1, <1>2, <1>3, <1>4, <1>6, <1>7 DEF DoneBehind
<1> QED
  BY <1>8

-----------------------------------------------------------------------------
(***************************************************************************)
(* What the ranks learn, and the words they learn it from: WordInv.        *)
(***************************************************************************)
\* A rank that has pushed its rows has for the rest of the launch.
Progress(q) ==
  \/ launch'[q] > launch[q]
  \/ /\ launch'[q] = launch[q]
     /\ NonePushes(q) => NonePushes(q)' /\ toSignal'[q] \subseteq toSignal[q]
     /\ \A i \in Rows : row[q][i] = Stored => row'[q][i] = Stored

LEMMA StepProgress ==
  ASSUME TypeInv, ControlInv, [Next]_vars, NEW q \in Ranks
  PROVE  Progress(q)
<1>1. CASE UNCHANGED vars
  BY <1>1 DEF Progress, NonePushes, vars, launchVars, dispatchVars
<1>2. ASSUME NEW r \in Ranks, Launch(r) PROVE Progress(q)
  <2>1. /\ launch'[r] = launch[r] + 1
        /\ \A p \in Ranks \ {r} : launch'[p] = launch[p] /\ row'[p] = row[p] /\ pc'[p] = pc[p]
        /\ toSignal' = toSignal
    BY <1>2, LaunchFacts
  <2>2. CASE q = r
    <3>1. launch[q] \in Nat
      BY DEF TypeInv
    <3> QED
      BY <2>1, <2>2, <3>1 DEF Progress
  <2>3. CASE q # r
    BY <2>1, <2>3 DEF Progress, NonePushes
  <2> QED
    BY <2>2, <2>3
<1>3. ASSUME NEW r \in Ranks, SignalBarrier1(r) \/ SignalBarrier3(r) PROVE Progress(q)
  BY <1>3 DEF SignalBarrier1, SignalBarrier3, SendSignals, launchVars, dispatchVars, Progress, NonePushes
<1>4. ASSUME NEW r \in Ranks, NEW i \in Rows, RowStep(r, i) PROVE Progress(q)
  <2>1. row[r][i] # Stored /\ \E v : row' = [row EXCEPT ![r][i] = v]
    BY <1>4, PushFactsHold DEF RowStep, TakeTicket, StoreRow, Todo, Stored, PushFacts
  <2>2. \A j \in Rows : row[q][j] = Stored => row'[q][j] = Stored
    BY <2>1 DEF TypeInv
  <2>3. launch' = launch /\ pc' = pc /\ toSignal' = toSignal
    BY <1>4 DEF RowStep, TakeTicket, StoreRow, launchVars
  <2> QED
    BY <2>2, <2>3 DEF Progress, NonePushes
<1>5. ASSUME NEW r \in Ranks, NEW sm \in SMs, CtaArrive(r, sm) \/ EnterBarrier1(r, sm)
      PROVE  Progress(q)
  <2>1. /\ pc[r][sm] = "push" /\ launch' = launch /\ row' = row
        /\ \E to : pc' = [pc EXCEPT ![r][sm] = to]
    BY <1>5 DEF CtaArrive, EnterBarrier1, launchVars, Goto
  <2>2. CASE q = r
    BY <2>1, <2>2 DEF Progress, NonePushes
  <2>3. CASE q # r
    <3>1. pc'[q] = pc[q]
      BY <2>1, <2>3 DEF TypeInv
    <3>2. toSignal'[q] = toSignal[q]
      BY <1>5, <2>3 DEF CtaArrive, EnterBarrier1, TypeInv
    <3> QED
      BY <2>1, <3>1, <3>2 DEF Progress, NonePushes
  <2> QED
    BY <2>2, <2>3
<1>6. ASSUME NEW r \in Ranks, NEW sm \in SMs, LaterMove(r, sm) PROVE Progress(q)
  <2>1. PICK to \in CtaStates \ {"push"} :
           /\ pc[r][sm] # "push" /\ pc'[r][sm] = to
           /\ \A x \in SMs : x # sm => pc'[r][x] = pc[r][x]
           /\ \A p \in Ranks \ {r} : pc'[p] = pc[p]
           /\ \A p \in Ranks : toSignal'[p] \subseteq toSignal[p]
           /\ launch' = launch /\ row' = row
    BY <1>6, LaterFacts
  <2>2. NonePushes(q) => NonePushes(q)'
    BY <2>1 DEF NonePushes
  <2> QED
    BY <2>1, <2>2 DEF Progress
<1>7. ASSUME NEW r \in Ranks, NEW sm \in SMs, MathStep(r, sm) PROVE Progress(q)
  BY <1>7 DEF MathStep, ReadTarget, FetchCounts, FinishTasks, launchVars, dispatchVars, Progress, NonePushes
<1> QED
  BY <1>1, <1>2, <1>3, <1>4, <1>5, <1>6, <1>7
  DEF Next, RankStep, DispatchStep, LaterMove, Finished

\* What a rank has learned stays true until it launches again.
LEMMA CompleteStands ==
  ASSUME TypeInv, TypeInv', ControlInv, [Next]_vars, NEW r \in Ranks, Complete(r),
         launch'[r] = launch[r]
  PROVE  Complete(r)'
<1>1. ASSUME NEW q \in Ranks
      PROVE  \/ launch'[q] > launch'[r]
             \/ /\ launch'[q] = launch'[r] /\ Sent(q, r)'
                /\ \A i \in Rows : row'[q][i] = Stored
  <2>1. Progress(q)
    BY StepProgress
  <2>2. launch[q] \in Nat /\ launch[r] \in Nat /\ launch'[q] \in Nat
    BY DEF TypeInv
  <2>3. \/ launch[q] > launch[r]
        \/ /\ launch[q] = launch[r] /\ Sent(q, r)
           /\ \A i \in Rows : row[q][i] = Stored
    BY DEF Complete
  <2>4. CASE launch'[q] > launch[q]
    BY <2>2, <2>3, <2>4
  <2>5. CASE ~(launch'[q] > launch[q])
    <3>1. /\ launch'[q] = launch[q]
          /\ NonePushes(q) => NonePushes(q)' /\ toSignal'[q] \subseteq toSignal[q]
          /\ \A i \in Rows : row[q][i] = Stored => row'[q][i] = Stored
      BY <2>1, <2>5 DEF Progress
    <3>2. CASE launch[q] > launch[r]
      BY <3>1, <3>2
    <3>3. CASE launch[q] = launch[r]
      <4>1. Sent(q, r) /\ \A i \in Rows : row[q][i] = Stored
        BY <2>2, <2>3, <3>3
      <4> QED
        BY <3>1, <3>3, <4>1 DEF Sent
    <3> QED
      BY <2>3, <3>2, <3>3
  <2> QED
    BY <2>4, <2>5
<1> QED
  BY <1>1 DEF Complete

\* A rank none of whose CTAs pushes has stored all its rows.
LEMMA RowsStored ==
  ASSUME TypeInv, NEW q \in Ranks, StageInv(q), NonePushes(q), NEW i \in Rows
  PROVE  row[q][i] = Stored
<1>1. i % NumSMs \in SMs
  <2>1. PICK n \in Nat \ {0} : n = NumSMs
    BY PushFactsHold DEF PushFacts
  <2>2. i \in Nat
    BY PushFactsHold DEF PushFacts
  <2>3. i % n \in 0 .. n - 1
    BY <2>1, <2>2
  <2> QED
    BY <2>1, <2>3 DEF SMs
<1> QED
  BY <1>1 DEF StageInv, NonePushes, CtaPushed

\* A CTA of rank r that is not through the tasks keeps the rank's CTAs from the
\* cleanup.
LEMMA NotCleaned ==
  ASSUME NEW r \in Ranks, StageInv(r), NEW sm \in SMs,
         pc[r][sm] \notin {"grid", "barrier3", "exited"} \/ math[r][sm] # "done",
         NEW x \in SMs
  PROVE  ~Cleaned(r, x)
BY DEF Cleaned, StageInv, AllIn

LEMMA Owners ==
  ASSUME NEW e \in Experts
  PROVE  Owner(e) \in SMs /\ Owner(e) # 0 /\ \A sm \in SMs : sm # 0 => (e \in OwnedExperts(sm) <=> Owner(e) = sm)
<1>1. PICK n \in Nat \ {0} : n = NumSMs - 1
  BY PushFactsHold DEF PushFacts
<1>2. e \in Nat /\ NumSMs = n + 1
  BY <1>1, PushFactsHold DEF PushFacts, SMs
<1>3. PICK m \in 0 .. n - 1 : m = e % n
  BY <1>1, <1>2
<1>4. Owner(e) = m + 1
  BY <1>1, <1>3 DEF Owner
<1>5. ASSUME NEW sm \in SMs PROVE e \in OwnedExperts(sm) <=> Owner(e) = sm
  BY <1>1, <1>2, <1>3, <1>4 DEF OwnedExperts, SMs
<1> QED
  BY <1>2, <1>3, <1>4, <1>5 DEF SMs

LEMMA InitWord == Init => WordInv
<1> SUFFICES ASSUME Init, NEW r \in Ranks PROVE LearnInv(r) /\ DoneInv(r)
  BY DEF WordInv
<1> USE PushFactsHold DEF Init, PushFacts
<1>1. \A q \in Ranks : NonePushes(q) /\ toSignal[q] = {}
  BY DEF NonePushes
<1>2. Complete(r)
  BY <1>1 DEF Complete, Sent
<1>3. LearnInv(r)
  BY <1>2 DEF LearnInv
<1>4. EpochLaunch(r) = 1
  BY DEF EpochLaunch, Cleaned
<1>5. SentTo(r) = {}
  BY <1>4 DEF SentTo
<1>6. Cardinality(SentTo(r)) = 0
  BY <1>5, FS_EmptySet
<1>7. FirstEpoch % DoneMod = FirstEpoch
  <2>1. PICK m \in Nat \ {0} : m = DoneMod
    OBVIOUS
  <2>2. (0 * m + FirstEpoch) % m = FirstEpoch
    BY <2>1, Remainder
  <2>3. 0 * m + FirstEpoch = FirstEpoch
    BY <2>1
  <2> QED
    BY <2>1, <2>2, <2>3
<1>8. FirstEpoch + EpochLaunch(r) - 1 = FirstEpoch
  BY <1>4
<1>9. NumRanks * FirstEpoch + 0 = NumRanks * FirstEpoch
  OBVIOUS
<1>10. DoneInv(r)
  BY <1>6, <1>7, <1>8, <1>9 DEF DoneInv
<1> QED
  BY <1>3, <1>10

LEMMA LearnStands ==
  ASSUME NEW r \in Ranks, LearnInv(r), doneFlags' = doneFlags, Complete(r) => Complete(r)',
         \A sm \in SMs :
           /\ math'[r][sm] \in {"work", "done"} =>
                math[r][sm] \in {"work", "done"} \/ Complete(r)
           /\ ~doneFlags /\ pc'[r][sm] = "publish" => pc[r][sm] = "publish" \/ Complete(r),
         \A e \in Experts :
           /\ recvFinal'[r][e] => recvFinal[r][e] \/ Complete(r)
           /\ Cleaned(r, Owner(e))' => ~recvFinal'[r][e] /\ arrivals'[r][e] = 0
  PROVE  LearnInv(r)'
<1>1. \A sm \in SMs :
        /\ math'[r][sm] \in {"work", "done"} => Complete(r)'
        /\ ~doneFlags /\ pc'[r][sm] = "publish" => Complete(r)'
  BY DEF LearnInv
<1>2. \A e \in Experts : recvFinal'[r][e] => Complete(r)'
  BY DEF LearnInv
<1> QED
  BY <1>1, <1>2 DEF LearnInv, Owner

LEMMA DoneStands ==
  ASSUME NEW r \in Ranks, DoneInv(r), doneFlags' = doneFlags,
         epoch'[r] = epoch[r], doneCount'[r] = doneCount[r],
         EpochLaunch(r)' = EpochLaunch(r),
         \A q \in Ranks : (launch'[q] = EpochLaunch(r) /\ Sent(q, r)')
                            <=> (launch[q] = EpochLaunch(r) /\ Sent(q, r)),
         \A sm \in SMs : math'[r][sm] = "poll" =>
           math[r][sm] = "poll" /\ target'[r][sm] = target[r][sm] /\ launch'[r] = launch[r]
  PROVE  DoneInv(r)'
<1>1. SentTo(r)' = SentTo(r)
  BY DEF SentTo
<1>2. SUFFICES ASSUME doneFlags PROVE DoneInv(r)'
  BY DEF DoneInv
<1>3. /\ epoch'[r] = (FirstEpoch + EpochLaunch(r)' - 1) % DoneMod
      /\ doneCount'[r] =
           (NumRanks * (FirstEpoch + EpochLaunch(r)' - 1) + Cardinality(SentTo(r)')) % DoneMod
  BY <1>1, <1>2 DEF DoneInv
<1>4. \A sm \in SMs : math'[r][sm] = "poll" =>
        target'[r][sm] = (NumRanks * (FirstEpoch + launch'[r])) % DoneMod
  BY <1>2 DEF DoneInv
<1> QED
  BY <1>3, <1>4 DEF DoneInv

\* A step of rank r that sends nothing: nothing changes for the others.
LEMMA WordOfOne ==
  ASSUME TypeInv, TypeInv', ControlInv, WordInv, [Next]_vars, NEW r \in Ranks,
         doneFlags' = doneFlags, launch' = launch,
         \A p \in Ranks \ {r} :
           /\ recvFinal'[p] = recvFinal[p] /\ arrivals'[p] = arrivals[p]
           /\ epoch'[p] = epoch[p] /\ doneCount'[p] = doneCount[p]
           /\ pc'[p] = pc[p] /\ math'[p] = math[p] /\ target'[p] = target[p]
           /\ \A q \in Ranks : doneFlags => (Sent(q, p)' <=> Sent(q, p)),
         LearnInv(r)', DoneInv(r)'
  PROVE  WordInv'
<1>1. ASSUME NEW p \in Ranks \ {r} PROVE LearnInv(p)' /\ DoneInv(p)'
  <2>1. Complete(p) => Complete(p)'
    BY CompleteStands
  <2>2. LearnInv(p) /\ DoneInv(p)
    BY DEF WordInv
  <2>3. \A sm \in SMs : Cleaned(p, sm)' <=> Cleaned(p, sm)
    BY DEF Cleaned
  <2>4. \A e \in Experts : Owner(e) \in SMs /\ Owner(e)' = Owner(e)
    BY Owners DEF Owner
  <2>5. LearnInv(p)'
    <3>1. \A e \in Experts : Cleaned(p, Owner(e))' => Cleaned(p, Owner(e))
      BY DEF Cleaned, Owner
    <3>2. \A e \in Experts : Cleaned(p, Owner(e))' => ~recvFinal'[p][e] /\ arrivals'[p][e] = 0
      BY <2>2, <3>1 DEF LearnInv
    <3> QED
      BY <2>1, <2>2, <3>2, LearnStands
  <2>6. EpochLaunch(p)' = EpochLaunch(p)
    BY <2>3, PushFactsHold DEF EpochLaunch, PushFacts
  <2>7. DoneInv(p)'
    <3>1. CASE ~doneFlags
      BY <3>1 DEF DoneInv
    <3>2. CASE doneFlags
      BY <2>2, <2>6, <3>2, DoneStands
    <3> QED
      BY <3>1, <3>2
  <2> QED
    BY <2>5, <2>7
<1> QED
  BY <1>1 DEF WordInv

\* A step that moves no CTA and touches none of the words.
LEMMA WordUntouched ==
  ASSUME TypeInv, TypeInv', ControlInv, WordInv, [Next]_vars,
         UNCHANGED <<doneFlags, launch, recvFinal, arrivals, epoch, doneCount, pc, toSignal, math, target>>
  PROVE  WordInv'
<1>1. \A q, p \in Ranks : Sent(q, p)' <=> Sent(q, p)
  BY DEF Sent, NonePushes
<1>2. PICK r \in Ranks : TRUE
  BY PushFactsHold DEF PushFacts, Ranks
<1>3. LearnInv(r) /\ DoneInv(r)
  BY DEF WordInv
<1>4. Complete(r) => Complete(r)'
  BY CompleteStands
<1>5. \A e \in Experts : Cleaned(r, Owner(e))' => Cleaned(r, Owner(e))
  BY DEF Cleaned, Owner
<1>6. \A e \in Experts : Cleaned(r, Owner(e))' => ~recvFinal'[r][e] /\ arrivals'[r][e] = 0
  BY <1>3, <1>5 DEF LearnInv
<1>7. LearnInv(r)'
  BY <1>3, <1>4, <1>6, LearnStands
<1>8. EpochLaunch(r)' = EpochLaunch(r)
  BY DEF EpochLaunch, Cleaned
<1>9. DoneInv(r)'
  BY <1>1, <1>3, <1>8, DoneStands
<1> QED
  BY <1>1, <1>7, <1>9, WordOfOne

LEMMA RowWord ==
  ASSUME TypeInv, TypeInv', ControlInv, WordInv, [Next]_vars,
         NEW r \in Ranks, NEW i \in Rows, RowStep(r, i)
  PROVE  WordInv'
<1>1. UNCHANGED <<doneFlags, launch, recvFinal, arrivals, epoch, doneCount, pc, toSignal, math, target>>
  BY DEF RowStep, TakeTicket, StoreRow, wordVars, launchVars, mathVars
<1> QED
  BY <1>1, WordUntouched

LEMMA SignalWord ==
  ASSUME TypeInv, TypeInv', ControlInv, WordInv, [Next]_vars,
         NEW r \in Ranks, SignalBarrier1(r) \/ SignalBarrier3(r)
  PROVE  WordInv'
<1>1. UNCHANGED <<doneFlags, launch, recvFinal, arrivals, epoch, doneCount, pc, toSignal, math, target>>
  BY DEF SignalBarrier1, SignalBarrier3, SendSignals, poolVars, launchVars, dispatchVars, mathVars
<1> QED
  BY <1>1, WordUntouched

LEMMA ArriveWord ==
  ASSUME TypeInv, TypeInv', ControlInv, ControlInv', WordInv, [Next]_vars,
         NEW r \in Ranks, NEW sm \in SMs, CtaArrive(r, sm) \/ EnterBarrier1(r, sm)
  PROVE  WordInv'
<1>1. /\ StageInv(r) /\ ArrivalInv(r) /\ LearnInv(r) /\ DoneInv(r)
  BY DEF ControlInv, WordInv
<1>2. PICK to \in {"signal", "publish", "barrier1"} : pc' = [pc EXCEPT ![r][sm] = to]
  BY DEF CtaArrive, EnterBarrier1, Goto
<1>3. /\ pc[r][sm] = "push" /\ pc'[r][sm] = to
      /\ \A x \in SMs : x # sm => pc'[r][x] = pc[r][x]
      /\ \A q \in Ranks \ {r} : pc'[q] = pc[q]
  BY <1>2 DEF CtaArrive, EnterBarrier1, TypeInv
<1>4. /\ doneFlags' = doneFlags /\ launch' = launch /\ recvFinal' = recvFinal
      /\ arrivals' = arrivals /\ epoch' = epoch /\ doneCount' = doneCount
      /\ math' = math /\ target' = target
      /\ \A q \in Ranks \ {r} : toSignal'[q] = toSignal[q]
  BY DEF CtaArrive, EnterBarrier1, launchVars, mathVars, wordVars, poolVars, TypeInv
<1>5. ~NonePushes(r)
  BY <1>3 DEF NonePushes
<1>6. doneFlags => \A p \in Ranks : ~Sent(r, p)'
  <2>1. SUFFICES ASSUME doneFlags, NEW p \in Ranks PROVE ~Sent(r, p)'
    OBVIOUS
  <2>2. CtaArrive(r, sm)
    BY <2>1 DEF EnterBarrier1
  <2>3. ctaArrival[r] = NumSMs - 1 <=> \A x \in SMs : x # sm => pc[r][x] # "push"
    BY <1>1, <1>3, <2>1, ArrivalCount
  <2>4. CASE ctaArrival[r] = NumSMs - 1
    <3>1. toSignal'[r] = Ranks
      BY <2>2, <2>4 DEF CtaArrive, TypeInv
    <3> QED
      BY <3>1 DEF Sent
  <2>5. CASE ctaArrival[r] # NumSMs - 1
    <3>1. PICK x \in SMs : x # sm /\ pc[r][x] = "push"
      BY <2>3, <2>5
    <3>2. ~NonePushes(r)'
      BY <1>3, <3>1 DEF NonePushes
    <3> QED
      BY <3>2 DEF Sent
  <2> QED
    BY <2>4, <2>5
<1>7. doneFlags => \A q, p \in Ranks : Sent(q, p)' <=> Sent(q, p)
  <2>1. SUFFICES ASSUME doneFlags, NEW q \in Ranks, NEW p \in Ranks
                 PROVE  Sent(q, p)' <=> Sent(q, p)
    OBVIOUS
  <2>2. CASE q = r
    BY <1>5, <1>6, <2>1, <2>2 DEF Sent
  <2>3. CASE q # r
    BY <1>3, <1>4, <2>3 DEF Sent, NonePushes
  <2> QED
    BY <2>2, <2>3
<1>8. \A x \in SMs : ~Cleaned(r, x) /\ ~Cleaned(r, x)'
  <2>1. \A x \in SMs : ~Cleaned(r, x)
    BY <1>1, <1>3, NotCleaned
  <2> QED
    BY <1>2, <1>3, <2>1 DEF Cleaned
<1>9. LearnInv(r)'
  <2>1. Complete(r) => Complete(r)'
    BY <1>4, CompleteStands
  <2>2. \A e \in Experts : ~Cleaned(r, Owner(e))'
    BY <1>8, Owners DEF Owner, Cleaned
  <2>3. ~doneFlags => to = "barrier1"
    BY <1>2, <1>3 DEF CtaArrive, EnterBarrier1, Goto, TypeInv
  <2> QED
    BY <1>1, <1>3, <1>4, <2>1, <2>2, <2>3, LearnStands
<1>10. EpochLaunch(r)' = EpochLaunch(r)
  BY <1>4, <1>8, PushFactsHold DEF EpochLaunch, PushFacts
<1>11. DoneInv(r)'
  <2>1. CASE ~doneFlags
    BY <1>4, <2>1 DEF DoneInv
  <2>2. CASE doneFlags
    BY <1>1, <1>4, <1>7, <1>10, <2>2, DoneStands
  <2> QED
    BY <2>1, <2>2
<1> QED
  BY <1>3, <1>4, <1>7, <1>9, <1>11, WordOfOne

\* A DONE signal on its way belongs to the launch its receiver waits in.
LEMMA SignalAwaited ==
  ASSUME TypeInv, ControlInv, WordInv, NEW p \in Ranks, NEW q \in Ranks,
         NEW sm \in SMs, pc[p][sm] = "signal", q \in toSignal[p]
  PROVE  launch[p] = EpochLaunch(q)
<1>1. StageInv(p) /\ StageInv(q) /\ SignalInv(p) /\ SignalInv(q) /\ LearnInv(q)
  BY DEF ControlInv, WordInv
<1>2. launch[p] \in Nat /\ launch[q] \in Nat
  BY DEF TypeInv
<1>3. nvSignals[p] # Barrier3(p)
  BY <1>1 DEF SignalInv, AllIn
<1>4. ~(launch[q] > launch[p])
  BY <1>3 DEF ControlInv, SkewInv
<1>5. CASE launch[q] = launch[p]
  <2>1. ~Complete(q)
    BY <1>2, <1>5 DEF Complete, Sent
  <2>2. 0 \in SMs /\ math[q][0] # "done"
    BY <1>1, <2>1, PushFactsHold DEF LearnInv, PushFacts
  <2>3. ~Cleaned(q, 0)
    BY <1>1, <2>2, NotCleaned
  <2> QED
    BY <1>5, <2>3 DEF EpochLaunch
<1>6. CASE launch[p] > launch[q]
  <2>1. launch[p] = launch[q] + 1 /\ nvSignals[q] = Barrier3(q)
    BY <1>6 DEF ControlInv, SkewInv
  <2>2. Cleaned(q, 0)
    BY <1>1, <2>1, PushFactsHold DEF SignalInv, AllIn, Cleaned, PushFacts
  <2> QED
    BY <2>1, <2>2 DEF EpochLaunch
<1> QED
  BY <1>2, <1>4, <1>5, <1>6

LEMMA RanksFinite == IsFiniteSet(Ranks) /\ Cardinality(Ranks) = NumRanks
<1>1. 0 \in Int /\ NumRanks - 1 \in Int /\ NumRanks \in Nat /\ NumRanks > 0
  BY PushFactsHold DEF PushFacts
<1>2. IsFiniteSet(0 .. NumRanks - 1)
      /\ Cardinality(0 .. NumRanks - 1) = IF 0 > NumRanks - 1 THEN 0 ELSE (NumRanks - 1) - 0 + 1
  BY <1>1, FS_Interval
<1> QED
  BY <1>1, <1>2 DEF Ranks

LEMMA SentFinite ==
  ASSUME NEW r \in Ranks
  PROVE  /\ IsFiniteSet(SentTo(r)) /\ Cardinality(SentTo(r)) \in 0 .. NumRanks
         /\ Cardinality(SentTo(r)) = NumRanks => SentTo(r) = Ranks
<1>1. SentTo(r) \subseteq Ranks
  BY DEF SentTo
<1>2. IsFiniteSet(SentTo(r)) /\ Cardinality(SentTo(r)) <= Cardinality(Ranks)
      /\ (Cardinality(SentTo(r)) = Cardinality(Ranks) => SentTo(r) = Ranks)
  BY <1>1, RanksFinite, FS_Subset
<1>3. Cardinality(SentTo(r)) \in Nat
  BY <1>2, FS_CardinalityType
<1> QED
  BY <1>2, <1>3, RanksFinite, PushFactsHold DEF PushFacts

LEMMA EpochLaunchType ==
  ASSUME TypeInv, NEW r \in Ranks
  PROVE  /\ EpochLaunch(r) \in Nat /\ launch[r] \in Nat
         /\ NumRanks * (FirstEpoch + EpochLaunch(r) - 1) \in Int
         /\ FirstEpoch + EpochLaunch(r) - 1 \in Int /\ FirstEpoch + launch[r] \in Int
<1>1. launch[r] \in Nat
  BY DEF TypeInv
<1>2. PICK n \in Nat : n = EpochLaunch(r)
  BY <1>1 DEF EpochLaunch
<1>3. PICK f, m \in Nat : f = FirstEpoch /\ m = NumRanks
  BY PushFactsHold DEF PushFacts
<1>4. m * (f + n - 1) \in Int /\ f + n - 1 \in Int
  OBVIOUS
<1> QED
  BY <1>1, <1>2, <1>3, <1>4

LEMMA DoneWord ==
  ASSUME TypeInv, TypeInv', ControlInv, ControlInv', WordInv, [Next]_vars,
         NEW r \in Ranks, NEW sm \in SMs, NEW q \in Ranks, SignalDone(r, sm, q)
  PROVE  WordInv'
<1>1. PICK to \in {"signal", "publish"} : pc' = [pc EXCEPT ![r][sm] = to]
  BY DEF SignalDone, Goto
<1>2. /\ pc[r][sm] = "signal" /\ pc'[r][sm] = to /\ q \in toSignal[r]
      /\ \A x \in SMs : x # sm => pc'[r][x] = pc[r][x]
      /\ \A p \in Ranks \ {r} : pc'[p] = pc[p] /\ toSignal'[p] = toSignal[p]
      /\ toSignal'[r] = toSignal[r] \ {q}
      /\ doneCount'[q] = (doneCount[q] + 1) % DoneMod
      /\ \A p \in Ranks \ {q} : doneCount'[p] = doneCount[p]
  BY <1>1 DEF SignalDone, TypeInv
<1>3. /\ doneFlags' = doneFlags /\ launch' = launch /\ recvFinal' = recvFinal
      /\ arrivals' = arrivals /\ epoch' = epoch /\ math' = math /\ target' = target
  BY DEF SignalDone, launchVars, mathVars, poolVars
<1>4. StageInv(r) /\ doneFlags /\ NonePushes(r) /\ NonePushes(r)'
  <2>1. StageInv(r)
    BY DEF ControlInv
  <2>2. doneFlags /\ NonePushes(r)
    BY <1>2, <2>1 DEF StageInv
  <2>3. NonePushes(r)'
    BY <1>1, <1>2, <2>2 DEF NonePushes
  <2> QED
    BY <2>1, <2>2, <2>3
<1>5. \A p \in Ranks, x \in SMs : Cleaned(p, x)' <=> Cleaned(p, x)
  BY <1>1, <1>2 DEF Cleaned
<1>6. \A p \in Ranks : EpochLaunch(p)' = EpochLaunch(p)
  BY <1>3, <1>5, PushFactsHold DEF EpochLaunch, PushFacts
<1>7. ASSUME NEW p \in Ranks PROVE LearnInv(p)'
  <2>1. LearnInv(p)
    BY DEF WordInv
  <2>2. Complete(p) => Complete(p)'
    BY <1>3, CompleteStands
  <2>3. \A e \in Experts : Cleaned(p, Owner(e))' => ~recvFinal'[p][e] /\ arrivals'[p][e] = 0
    <3>1. \A e \in Experts : Cleaned(p, Owner(e))' <=> Cleaned(p, Owner(e))
      BY <1>5, Owners DEF Cleaned, Owner
    <3> QED
      BY <1>3, <2>1, <3>1 DEF LearnInv
  <2> QED
    BY <1>3, <1>4, <2>1, <2>2, <2>3, LearnStands
<1>8. ASSUME NEW p \in Ranks PROVE DoneInv(p)'
  <2>1. DoneInv(p)
    BY DEF WordInv
  <2>2. \A o \in Ranks : o # r \/ p # q => (Sent(o, p)' <=> Sent(o, p))
    BY <1>2, <1>4 DEF Sent, NonePushes
  <2>3. CASE p # q
    BY <1>2, <1>3, <1>6, <2>1, <2>2, <2>3, DoneStands
  <2>4. CASE p = q
    <3>1. Sent(r, q)' /\ ~Sent(r, q)
      BY <1>2, <1>4 DEF Sent
    <3>2. launch[r] = EpochLaunch(q)
      BY <1>2, SignalAwaited
    <3>3. SentTo(q)' = SentTo(q) \cup {r} /\ r \notin SentTo(q)
      BY <1>3, <1>6, <2>2, <2>4, <3>1, <3>2 DEF SentTo
    <3>4. PICK k \in Nat : k = Cardinality(SentTo(q))
      BY SentFinite
    <3>5. Cardinality(SentTo(q)') = k + 1
      BY <3>3, <3>4, SentFinite, FS_AddElement
    <3>6. PICK y \in Int : y = NumRanks * (FirstEpoch + EpochLaunch(q) - 1)
      BY EpochLaunchType
    <3>7. doneCount[q] = (y + k) % DoneMod
      BY <1>4, <2>1, <2>4, <3>4, <3>6 DEF DoneInv
    <3>8. doneCount'[q] = ((y + k) + 1) % DoneMod
      BY <1>2, <3>7, ModSum
    <3>9. doneCount'[q] = (NumRanks * (FirstEpoch + EpochLaunch(q)' - 1) + Cardinality(SentTo(q)')) % DoneMod
      <4>1. (y + k) + 1 = y + (k + 1)
        OBVIOUS
      <4> QED
        BY <1>6, <3>5, <3>6, <3>8, <4>1
    <3>10. epoch'[q] = (FirstEpoch + EpochLaunch(q)' - 1) % DoneMod
      BY <1>3, <1>4, <1>6, <2>1, <2>4 DEF DoneInv
    <3>11. \A x \in SMs : math'[q][x] = "poll" =>
             target'[q][x] = (NumRanks * (FirstEpoch + launch'[q])) % DoneMod
      BY <1>3, <1>4, <2>1, <2>4 DEF DoneInv
    <3> QED
      BY <2>4, <3>9, <3>10, <3>11 DEF DoneInv
  <2> QED
    BY <2>3, <2>4
<1> QED
  BY <1>7, <1>8 DEF WordInv

\* The DONE target a rank computes is that of its launch.
LEMMA TargetRight ==
  ASSUME TypeInv, NEW r \in Ranks, DoneInv(r), doneFlags, EpochLaunch(r) = launch[r]
  PROVE  DoneTarget(r) = (NumRanks * (FirstEpoch + launch[r])) % DoneMod
<1>1. PICK x \in Int : x = FirstEpoch + launch[r] - 1
  BY EpochLaunchType
<1>2. epoch[r] = x % DoneMod
  BY <1>1 DEF DoneInv
<1>3. x + 1 = FirstEpoch + launch[r]
  BY <1>1, EpochLaunchType, PushFactsHold DEF PushFacts
<1>4. (NumRanks * ((x % DoneMod) + 1)) % DoneMod = (NumRanks * (x + 1)) % DoneMod
  BY TargetTurns
<1> QED
  BY <1>2, <1>3, <1>4 DEF DoneTarget

\* Once the DONE count has reached the target, all rows are there.
LEMMA DoneComplete ==
  ASSUME TypeInv, ControlInv, NEW r \in Ranks, DoneInv(r), doneFlags,
         EpochLaunch(r) = launch[r],
         ~DoneBehind(doneCount[r], (NumRanks * (FirstEpoch + launch[r])) % DoneMod)
  PROVE  Complete(r)
<1>1. PICK e \in Int : e = FirstEpoch + launch[r]
  BY EpochLaunchType
<1>2. PICK k \in 0 .. NumRanks : k = Cardinality(SentTo(r))
  BY SentFinite
<1>3. doneCount[r] = (NumRanks * (e - 1) + k) % DoneMod
  <2>1. FirstEpoch + EpochLaunch(r) - 1 = e - 1
    BY <1>1, EpochLaunchType, PushFactsHold DEF PushFacts
  <2>2. doneCount[r] = (NumRanks * (FirstEpoch + EpochLaunch(r) - 1) + Cardinality(SentTo(r))) % DoneMod
    BY DEF DoneInv
  <2> QED
    BY <1>2, <2>1, <2>2
<1>4. ~DoneBehind((NumRanks * (e - 1) + k) % DoneMod, (NumRanks * e) % DoneMod)
  BY <1>1, <1>3
<1>5. k = NumRanks
  BY <1>4, DoneReached
<1>6. SentTo(r) = Ranks
  BY <1>2, <1>5, SentFinite
<1>7. ASSUME NEW q \in Ranks
      PROVE  /\ launch[q] = launch[r] /\ Sent(q, r)
             /\ \A i \in Rows : row[q][i] = Stored
  <2>1. launch[q] = launch[r] /\ Sent(q, r)
    BY <1>6 DEF SentTo
  <2>2. StageInv(q)
    BY DEF ControlInv
  <2>3. \A i \in Rows : row[q][i] = Stored
    BY <2>1, <2>2, RowsStored DEF Sent
  <2> QED
    BY <2>1, <2>3
<1> QED
  BY <1>7 DEF Complete

\* So they are behind NVLink barrier #1.
LEMMA BarrierComplete ==
  ASSUME TypeInv, ControlInv, NEW r \in Ranks, ~doneFlags,
         \A q \in Ranks : nvSignals[q] >= Barrier1(r)
  PROVE  Complete(r)
<1>1. ASSUME NEW q \in Ranks, ~(launch[q] > launch[r])
      PROVE  /\ launch[q] = launch[r] /\ Sent(q, r)
             /\ \A i \in Rows : row[q][i] = Stored
  <2>1. launch[q] \in Nat /\ launch[r] \in Nat /\ nvSignals[q] \in Nat
    BY DEF TypeInv
  <2>2. StageInv(q) /\ SignalInv(q)
    BY DEF ControlInv
  <2>3. launch[q] = launch[r]
    <3>1. nvSignals[q] <= Barrier3(q) /\ nvSignals[q] >= Barrier1(r)
      BY <2>2 DEF SignalInv
    <3>2. /\ Barrier3(q) = launch[q] + launch[q]
          /\ Barrier3(r) = launch[r] + launch[r] /\ Barrier1(r) = Barrier3(r) - 1
      BY BarrierFacts
    <3> QED
      BY <1>1, <2>1, <3>1, <3>2
  <2>4. Barrier1(q) = Barrier1(r)
    BY <2>3 DEF Barrier1
  <2>5. NonePushes(q)
    BY <2>2, <2>4 DEF SignalInv
  <2>6. Sent(q, r)
    BY <2>2, <2>5 DEF Sent, StageInv
  <2> QED
    BY <2>2, <2>3, <2>5, <2>6, RowsStored
<1> QED
  BY <1>1 DEF Complete

LEMMA MathWord ==
  ASSUME TypeInv, TypeInv', ControlInv, ControlInv', WordInv, [Next]_vars,
         NEW r \in Ranks, NEW sm \in SMs, MathStep(r, sm)
  PROVE  WordInv'
<1>1. StageInv(r) /\ LearnInv(r) /\ DoneInv(r)
  BY DEF ControlInv, WordInv
<1>2. /\ doneFlags' = doneFlags /\ launch' = launch /\ recvFinal' = recvFinal
      /\ arrivals' = arrivals /\ epoch' = epoch /\ doneCount' = doneCount
      /\ pc' = pc /\ toSignal' = toSignal
  BY DEF MathStep, ReadTarget, FetchCounts, FinishTasks, launchVars, poolVars, wordVars, dispatchVars
<1>3. /\ math[r][sm] # "done"
      /\ \A q \in Ranks, x \in SMs : q # r \/ x # sm => math'[q][x] = math[q][x] /\ target'[q][x] = target[q][x]
  BY DEF MathStep, ReadTarget, FetchCounts, FinishTasks, TypeInv
<1>4. \A p \in Ranks \ {r} : math'[p] = math[p] /\ target'[p] = target[p]
  BY <1>3 DEF TypeInv
<1>5. \A q, p \in Ranks : Sent(q, p)' <=> Sent(q, p)
  BY <1>2 DEF Sent, NonePushes
<1>6. ~Cleaned(r, 0)
  BY <1>1, <1>3, NotCleaned, PushFactsHold DEF PushFacts
<1>7. EpochLaunch(r) = launch[r] /\ EpochLaunch(r)' = EpochLaunch(r)
  BY <1>2, <1>6 DEF EpochLaunch, Cleaned
<1>8. Complete(r) => Complete(r)'
  BY <1>2, CompleteStands
<1>9. math'[r][sm] \in {"work", "done"} => Complete(r)
  <2>1. CASE ReadTarget(r, sm)
    BY <2>1 DEF ReadTarget, TypeInv
  <2>2. CASE FetchCounts(r, sm)
    <3>1. CASE doneFlags
      <4>1. target[r][sm] = (NumRanks * (FirstEpoch + launch[r])) % DoneMod
        BY <1>1, <2>2, <3>1 DEF FetchCounts, DoneInv
      <4> QED
        BY <1>1, <1>7, <2>2, <3>1, <4>1, DoneComplete DEF FetchCounts
    <3>2. CASE ~doneFlags
      <4>1. 0 \in Experts
        BY PushFactsHold DEF PushFacts, Experts
      <4> QED
        BY <1>1, <2>2, <3>2, <4>1 DEF FetchCounts, LearnInv
    <3> QED
      BY <3>1, <3>2
  <2>3. CASE FinishTasks(r, sm)
    BY <1>1, <2>3 DEF FinishTasks, LearnInv
  <2> QED
    BY <2>1, <2>2, <2>3 DEF MathStep
<1>10. LearnInv(r)'
  <2>1. \A e \in Experts : Cleaned(r, Owner(e))' => ~recvFinal'[r][e] /\ arrivals'[r][e] = 0
    BY <1>1, <1>2 DEF LearnInv, Cleaned, Owner
  <2>2. \A x \in SMs : math'[r][x] \in {"work", "done"} => math[r][x] \in {"work", "done"} \/ Complete(r)
    BY <1>3, <1>9
  <2> QED
    BY <1>1, <1>2, <1>8, <2>1, <2>2, LearnStands
<1>11. DoneInv(r)'
  <2>1. SUFFICES ASSUME doneFlags PROVE DoneInv(r)'
    BY <1>2 DEF DoneInv
  <2>2. SentTo(r)' = SentTo(r)
    BY <1>2, <1>5, <1>7 DEF SentTo
  <2>3. ASSUME NEW x \in SMs, math'[r][x] = "poll"
        PROVE  target'[r][x] = (NumRanks * (FirstEpoch + launch[r])) % DoneMod
    <3>1. CASE x = sm
      <4>1. ReadTarget(r, sm)
        BY <2>3, <3>1 DEF MathStep, FetchCounts, FinishTasks, TypeInv
      <4>2. target'[r][sm] = DoneTarget(r)
        BY <4>1 DEF ReadTarget, TypeInv
      <4> QED
        BY <1>1, <1>7, <2>1, <3>1, <4>2, TargetRight
    <3>2. CASE x # sm
      BY <1>1, <1>3, <2>1, <2>3, <3>2 DEF DoneInv
    <3> QED
      BY <3>1, <3>2
  <2> QED
    BY <1>1, <1>2, <1>7, <2>1, <2>2, <2>3 DEF DoneInv
<1> QED
  BY <1>2, <1>4, <1>5, <1>10, <1>11, WordOfOne

\* The moves of a CTA between its DONE signals and its exit.
WaitMove(r, sm) ==
  \/ LeaveBarrier1(r, sm) \/ Publish(r, sm)
  \/ EnterGridSync(r, sm) \/ Cleanup(r, sm) \/ LeaveBarrier3(r, sm)

LEMMA WaitWord ==
  ASSUME TypeInv, TypeInv', ControlInv, ControlInv', WordInv, [Next]_vars,
         NEW r \in Ranks, NEW sm \in SMs, WaitMove(r, sm)
  PROVE  WordInv'
<1>1. StageInv(r) /\ SignalInv(r) /\ LearnInv(r) /\ DoneInv(r)
  BY DEF ControlInv, WordInv
<1>2. PICK to \in CtaStates \ {"push"} :
           /\ pc[r][sm] # "push" /\ pc'[r][sm] = to
           /\ \A x \in SMs : x # sm => pc'[r][x] = pc[r][x]
           /\ \A p \in Ranks \ {r} : pc'[p] = pc[p]
           /\ doneFlags' = doneFlags /\ launch' = launch
           /\ math' = math /\ target' = target
           /\ <<pc[r][sm], to>> \in
                {<<"signal", "signal">>, <<"signal", "publish">>, <<"barrier1", "publish">>,
                 <<"publish", "join">>, <<"join", "grid">>, <<"grid", "barrier3">>,
                 <<"barrier3", "exited">>}
  BY LaterFacts DEF WaitMove, LaterMove
<1>3. toSignal' = toSignal /\ doneCount' = doneCount
  BY DEF WaitMove, LeaveBarrier1, Publish, EnterGridSync, Cleanup, LeaveBarrier3, wordVars
<1>4. \A p \in Ranks \ {r} :
        recvFinal'[p] = recvFinal[p] /\ arrivals'[p] = arrivals[p] /\ epoch'[p] = epoch[p]
  BY DEF WaitMove, LeaveBarrier1, Publish, EnterGridSync, Cleanup, LeaveBarrier3, wordVars, poolVars, TypeInv
<1>5. \A p \in Ranks : NonePushes(p)' <=> NonePushes(p)
  BY <1>2 DEF NonePushes
<1>6. \A q, p \in Ranks : Sent(q, p)' <=> Sent(q, p)
  BY <1>3, <1>5 DEF Sent
<1>7. Complete(r) => Complete(r)'
  BY <1>2, CompleteStands
<1>8. \A x \in SMs : x # sm => (Cleaned(r, x)' <=> Cleaned(r, x))
  BY <1>2 DEF Cleaned
<1>9. \A e \in Experts : Owner(e) \in SMs /\ Owner(e) # 0 /\ Owner(e)' = Owner(e)
  BY Owners DEF Owner
<1>10. CASE LeaveBarrier1(r, sm) \/ EnterGridSync(r, sm) \/ LeaveBarrier3(r, sm)
  <2>1. recvFinal' = recvFinal /\ arrivals' = arrivals /\ epoch' = epoch
    BY <1>10 DEF LeaveBarrier1, EnterGridSync, LeaveBarrier3, poolVars, wordVars
  <2>2. Cleaned(r, sm)' <=> Cleaned(r, sm)
    BY <1>10 DEF LeaveBarrier1, EnterGridSync, LeaveBarrier3, Cleaned, Goto, TypeInv
  <2>3. \A x \in SMs : Cleaned(r, x)' <=> Cleaned(r, x)
    BY <1>8, <2>2
  <2>4. \A x \in SMs : ~doneFlags /\ pc'[r][x] = "publish" => pc[r][x] = "publish" \/ Complete(r)
    <3>1. SUFFICES ASSUME ~doneFlags, to = "publish" PROVE Complete(r)
      BY <1>2
    <3>2. LeaveBarrier1(r, sm)
      BY <1>2, <1>10, <3>1 DEF EnterGridSync, LeaveBarrier3
    <3> QED
      BY <3>1, <3>2, BarrierComplete DEF LeaveBarrier1
  <2>5. \A e \in Experts : Cleaned(r, Owner(e))' => ~recvFinal'[r][e] /\ arrivals'[r][e] = 0
    <3>1. ASSUME NEW e \in Experts, pc'[r][Owner(e)] \in {"barrier3", "exited"}
          PROVE  ~recvFinal'[r][e] /\ arrivals'[r][e] = 0
      <4>1. Cleaned(r, Owner(e))
        BY <1>9, <2>3, <3>1 DEF Cleaned
      <4> QED
        BY <1>1, <2>1, <4>1 DEF LearnInv
    <3> QED
      BY <1>9, <3>1 DEF Cleaned
  <2>6. LearnInv(r)'
    BY <1>1, <1>2, <1>7, <2>1, <2>4, <2>5, LearnStands
  <2>7. EpochLaunch(r)' = EpochLaunch(r)
    BY <1>2, <2>3, PushFactsHold DEF EpochLaunch, PushFacts
  <2>8. DoneInv(r)'
    BY <1>1, <1>2, <1>3, <1>6, <2>1, <2>7, DoneStands
  <2> QED
    BY <1>2, <1>3, <1>4, <1>6, <2>6, <2>8, WordOfOne
<1>11. CASE Publish(r, sm)
  <2>1. epoch' = epoch /\ pc[r][sm] = "publish" /\ to = "join"
    BY <1>2, <1>11 DEF Publish, wordVars, Goto, TypeInv
  <2>2. \A x \in SMs : ~Cleaned(r, x)
    BY <1>1, <2>1, NotCleaned
  <2>3. \A x \in SMs : ~Cleaned(r, x)'
    BY <1>2, <2>1, <2>2 DEF Cleaned
  <2>4. EpochLaunch(r)' = EpochLaunch(r) /\ EpochLaunch(r) = launch[r]
    BY <1>2, <2>2, <2>3, PushFactsHold DEF EpochLaunch, PushFacts
  <2>5. sm \in Experts => Complete(r)
    <3>1. SUFFICES ASSUME sm \in Experts PROVE Complete(r)
      OBVIOUS
    <3>2. CASE doneFlags
      <4>1. ~DoneBehind(doneCount[r], DoneTarget(r))
        BY <1>11, <3>1, <3>2 DEF Publish
      <4> QED
        BY <1>1, <2>4, <3>2, <4>1, TargetRight, DoneComplete
    <3>3. CASE ~doneFlags
      BY <1>1, <2>1, <3>3 DEF LearnInv
    <3> QED
      BY <3>2, <3>3
  <2>6. \A e \in Experts : recvFinal'[r][e] => recvFinal[r][e] \/ Complete(r)
    <3>1. CASE sm \in Experts
      BY <2>5, <3>1
    <3>2. CASE sm \notin Experts
      BY <1>11, <3>2 DEF Publish
    <3> QED
      BY <3>1, <3>2
  <2>7. \A e \in Experts : ~Cleaned(r, Owner(e))'
    BY <1>9, <2>3 DEF Cleaned
  <2>8. \A x \in SMs : pc'[r][x] = "publish" => pc[r][x] = "publish"
    BY <1>2, <2>1
  <2>9. LearnInv(r)'
    BY <1>1, <1>2, <1>7, <2>6, <2>7, <2>8, LearnStands
  <2>10. DoneInv(r)'
    BY <1>1, <1>2, <1>3, <1>6, <2>1, <2>4, DoneStands
  <2> QED
    BY <1>2, <1>3, <1>4, <1>6, <2>9, <2>10, WordOfOne
<1>12. CASE Cleanup(r, sm)
  <2>1. /\ pc[r][sm] = "grid" /\ to = "barrier3" /\ \A x \in SMs : math[r][x] = "done"
    <3>1. pc[r][sm] = "grid" /\ AllIn(r, {"grid", "barrier3", "exited"}) /\ to = "barrier3"
      BY <1>2, <1>12 DEF Cleanup, GridPassed, AllIn, Goto, TypeInv
    <3> QED
      BY <1>1, <3>1 DEF StageInv, AllIn
  <2>2. Complete(r)
    BY <1>1, <2>1 DEF LearnInv
  <2>3. \A e \in Experts : Cleaned(r, Owner(e))' => ~recvFinal'[r][e] /\ arrivals'[r][e] = 0
    <3>1. ASSUME NEW e \in Experts, pc'[r][Owner(e)] \in {"barrier3", "exited"}
          PROVE  ~recvFinal'[r][e] /\ arrivals'[r][e] = 0
      <4>1. CASE sm = 0
        <5>1. Cleaned(r, Owner(e))
          BY <1>8, <1>9, <3>1, <4>1 DEF Cleaned
        <5>2. recvFinal' = recvFinal /\ arrivals' = arrivals
          BY <1>12, <4>1 DEF Cleanup
        <5> QED
          BY <1>1, <5>1, <5>2 DEF LearnInv
      <4>2. CASE sm # 0
        <5>1. /\ recvFinal'[r][e] = (e \notin OwnedExperts(sm) /\ recvFinal[r][e])
              /\ arrivals'[r][e] = IF e \in OwnedExperts(sm) THEN 0 ELSE arrivals[r][e]
          BY <1>12, <4>2 DEF Cleanup, TypeInv
        <5>2. CASE Owner(e) = sm
          <6>1. e \in OwnedExperts(sm)
            BY <4>2, <5>2, Owners
          <6> QED
            BY <5>1, <6>1
        <5>3. CASE Owner(e) # sm
          <6>1. Cleaned(r, Owner(e))
            BY <1>8, <1>9, <3>1, <5>3 DEF Cleaned
          <6> QED
            BY <1>1, <5>1, <6>1 DEF LearnInv
        <5> QED
          BY <5>2, <5>3
      <4> QED
        BY <4>1, <4>2
    <3> QED
      BY <1>9, <3>1 DEF Cleaned
  <2>4. \A x \in SMs : pc'[r][x] = "publish" => pc[r][x] = "publish"
    BY <1>2, <2>1
  <2>5. LearnInv(r)'
    BY <1>1, <1>2, <1>7, <2>2, <2>3, <2>4, LearnStands
  <2>6. DoneInv(r)'
    <3>1. CASE sm # 0
      <4>1. epoch' = epoch
        BY <1>12, <3>1 DEF Cleanup
      <4>2. EpochLaunch(r)' = EpochLaunch(r)
        BY <1>2, <1>8, <3>1, PushFactsHold DEF EpochLaunch, PushFacts
      <4> QED
        BY <1>1, <1>2, <1>3, <1>6, <4>1, <4>2, DoneStands
    <3>2. CASE sm = 0
      <4>1. SUFFICES ASSUME doneFlags PROVE DoneInv(r)'
        BY <1>2 DEF DoneInv
      <4>2. epoch'[r] = (epoch[r] + 1) % DoneMod
        BY <1>12, <3>2, <4>1 DEF Cleanup, TypeInv
      <4>3. EpochLaunch(r) = launch[r] /\ EpochLaunch(r)' = launch[r] + 1
        BY <1>2, <2>1, <3>2 DEF EpochLaunch, Cleaned
      <4>4. SentTo(r) = Ranks
        <5>1. nvSignals[r] # Barrier3(r)
          BY <1>1, <2>1 DEF SignalInv, AllIn
        <5>2. ASSUME NEW q \in Ranks PROVE launch[q] = launch[r] /\ Sent(q, r)
          <6>1. ~(launch[q] > launch[r])
            BY <5>1 DEF ControlInv, SkewInv
          <6> QED
            BY <2>2, <6>1 DEF Complete
        <5> QED
          BY <4>3, <5>2 DEF SentTo
      <4>5. SentTo(r)' = {}
        <5>1. ASSUME NEW q \in Ranks PROVE launch'[q] # launch[r] + 1
          <6>1. launch[q] = launch[r] /\ launch[r] \in Nat
            BY <4>3, <4>4, EpochLaunchType DEF SentTo
          <6> QED
            BY <1>2, <6>1
        <5> QED
          BY <4>3, <5>1 DEF SentTo
      <4>6. Cardinality(SentTo(r)) = NumRanks /\ Cardinality(SentTo(r)') = 0
        BY <4>4, <4>5, RanksFinite, FS_EmptySet
      <4>7. PICK n, f \in Nat : n = NumRanks /\ f = FirstEpoch
        BY PushFactsHold DEF PushFacts
      <4>8. PICK l \in Nat : l = launch[r]
        BY EpochLaunchType
      <4>9. PICK x, y \in Int : x = f + l - 1 /\ y = n * (f + l)
        BY <4>7, <4>8
      <4>10. epoch[r] = x % DoneMod /\ doneCount[r] = (n * x + n) % DoneMod
        BY <1>1, <4>1, <4>3, <4>6, <4>7, <4>8, <4>9 DEF DoneInv
      <4>11. f + EpochLaunch(r)' - 1 = f + l /\ x + 1 = f + l
        BY <4>3, <4>7, <4>8, <4>9
      <4>12. epoch'[r] = (FirstEpoch + EpochLaunch(r)' - 1) % DoneMod
        BY <4>2, <4>7, <4>9, <4>10, <4>11, ModSum
      <4>13. n * x + n = y + 0
        <5>1. n * x + n = n * (x + 1)
          BY <4>9
        <5> QED
          BY <4>9, <4>11, <5>1
      <4>14. doneCount'[r] = (NumRanks * (FirstEpoch + EpochLaunch(r)' - 1) + Cardinality(SentTo(r)')) % DoneMod
        BY <1>3, <4>6, <4>7, <4>9, <4>10, <4>11, <4>13
      <4>15. \A x2 \in SMs : math'[r][x2] # "poll"
        BY <1>2, <2>1
      <4> QED
        BY <4>12, <4>14, <4>15 DEF DoneInv
    <3> QED
      BY <3>1, <3>2
  <2> QED
    BY <1>2, <1>3, <1>4, <1>6, <2>5, <2>6, WordOfOne
<1> QED
  BY <1>10, <1>11, <1>12 DEF WaitMove

LEMMA LaunchWord ==
  ASSUME TypeInv, TypeInv', ControlInv, ControlInv', WordInv, [Next]_vars,
         NEW r \in Ranks, Launch(r)
  PROVE  WordInv'
<1>1. /\ AllIn(r, {"exited"}) /\ \A sm \in SMs : math[r][sm] = "done"
      /\ \A q \in Ranks : launch[q] = launch[r] => nvSignals[q] = Barrier3(q)
      /\ \A q \in Ranks : launch[q] >= launch[r] /\ launch[q] <= launch[r] + 1
      /\ launch'[r] = launch[r] + 1
      /\ \A sm \in SMs : pc'[r][sm] = "push" /\ math'[r][sm] = "start"
      /\ \A q \in Ranks \ {r} : launch'[q] = launch[q] /\ pc'[q] = pc[q] /\ math'[q] = math[q]
      /\ doneFlags' = doneFlags /\ toSignal' = toSignal
  BY LaunchFacts
<1>2. /\ recvFinal' = recvFinal /\ arrivals' = arrivals /\ epoch' = epoch
      /\ doneCount' = doneCount /\ target' = target
  BY DEF Launch, poolVars, wordVars
<1>3. ~NonePushes(r)'
  BY <1>1, PushFactsHold DEF NonePushes, PushFacts
<1>4. \A q \in Ranks : launch[q] \in Nat /\ EpochLaunch(q) \in Nat
  BY EpochLaunchType
<1>5. \A sm \in SMs : Cleaned(r, sm) /\ ~Cleaned(r, sm)'
  BY <1>1 DEF AllIn, Cleaned
<1>6. EpochLaunch(r) = launch[r] + 1 /\ EpochLaunch(r)' = launch[r] + 1
  BY <1>1, <1>5, PushFactsHold DEF EpochLaunch, PushFacts
<1>7. \A e \in Experts : Owner(e) \in SMs /\ Owner(e)' = Owner(e)
  BY Owners DEF Owner
<1>8. ASSUME NEW p \in Ranks PROVE LearnInv(p)'
  <2>1. LearnInv(p)
    BY DEF WordInv
  <2>2. CASE p = r
    <3>1. \A e \in Experts : ~recvFinal[r][e]
      BY <1>5, <1>7, <2>1, <2>2 DEF LearnInv
    <3>2. \A e \in Experts : ~Cleaned(r, Owner(e))'
      BY <1>5, <1>7 DEF Cleaned
    <3> QED
      BY <1>1, <1>2, <2>2, <3>1, <3>2 DEF LearnInv
  <2>3. CASE p # r
    <3>1. Complete(p) => Complete(p)'
      BY <1>1, <2>3, CompleteStands
    <3>2. pc'[p] = pc[p] /\ math'[p] = math[p]
      BY <1>1, <2>3
    <3>3. \A e \in Experts : Cleaned(p, Owner(e))' => ~recvFinal'[p][e] /\ arrivals'[p][e] = 0
      BY <1>2, <1>7, <2>1, <3>2 DEF LearnInv, Cleaned
    <3> QED
      BY <1>1, <1>2, <2>1, <3>1, <3>2, <3>3, LearnStands
  <2> QED
    BY <2>2, <2>3
<1>9. ASSUME NEW p \in Ranks PROVE DoneInv(p)'
  <2>1. EpochLaunch(p)' = EpochLaunch(p)
    <3>1. CASE p = r
      BY <1>6, <3>1
    <3>2. CASE p # r
      BY <1>1, <3>2 DEF EpochLaunch, Cleaned
    <3> QED
      BY <3>1, <3>2
  <2>2. EpochLaunch(p) > launch[r]
    <3>1. CASE launch[p] = launch[r]
      <4>1. SignalInv(p) /\ nvSignals[p] = Barrier3(p)
        BY <1>1, <3>1 DEF ControlInv
      <4>2. Cleaned(p, 0)
        BY <4>1, PushFactsHold DEF SignalInv, AllIn, Cleaned, PushFacts
      <4> QED
        BY <1>4, <3>1, <4>2 DEF EpochLaunch
    <3>2. CASE launch[p] # launch[r]
      <4>1. launch[p] > launch[r]
        BY <1>1, <1>4, <3>2
      <4> QED
        BY <1>4, <4>1 DEF EpochLaunch
    <3> QED
      BY <3>1, <3>2
  <2>3. ASSUME NEW q \in Ranks
        PROVE  (launch'[q] = EpochLaunch(p) /\ Sent(q, p)') <=> (launch[q] = EpochLaunch(p) /\ Sent(q, p))
    <3>1. CASE q = r
      BY <1>3, <1>4, <2>2, <3>1 DEF Sent
    <3>2. CASE q # r
      BY <1>1, <3>2 DEF Sent, NonePushes
    <3> QED
      BY <3>1, <3>2
  <2>4. \A sm \in SMs : math'[p][sm] = "poll" => math[p][sm] = "poll" /\ launch'[p] = launch[p]
    BY <1>1
  <2>5. DoneInv(p)
    BY DEF WordInv
  <2> QED
    BY <1>1, <1>2, <2>1, <2>3, <2>4, <2>5, DoneStands
<1> QED
  BY <1>8, <1>9 DEF WordInv

LEMMA NextWord ==
  ASSUME TypeInv, TypeInv', ControlInv, ControlInv', WordInv, [Next]_vars
  PROVE  WordInv'
<1>1. CASE UNCHANGED vars
  <2>1. UNCHANGED <<doneFlags, launch, recvFinal, arrivals, epoch, doneCount, pc, toSignal, math, target>>
    BY <1>1 DEF vars, poolVars, wordVars, launchVars, dispatchVars, mathVars
  <2> QED
    BY <2>1, WordUntouched
<1>2. ASSUME NEW r \in Ranks, RankStep(r) PROVE WordInv'
  BY <1>2, LaunchWord, SignalWord DEF RankStep
<1>3. ASSUME NEW r \in Ranks, NEW i \in Rows, RowStep(r, i) PROVE WordInv'
  BY <1>3, RowWord
<1>4. ASSUME NEW r \in Ranks, NEW sm \in SMs, DispatchStep(r, sm) PROVE WordInv'
  <2>1. ASSUME NEW q \in Ranks, SignalDone(r, sm, q) PROVE WordInv'
    BY <2>1, DoneWord
  <2> QED
    BY <1>4, <2>1, ArriveWord, WaitWord DEF DispatchStep, WaitMove
<1>5. ASSUME NEW r \in Ranks, NEW sm \in SMs, MathStep(r, sm) PROVE WordInv'
  BY <1>5, MathWord
<1> QED
  BY <1>1, <1>2, <1>3, <1>4, <1>5 DEF Next, Finished

-----------------------------------------------------------------------------
(***************************************************************************)
(* The positions of the pool and the rows that hold them: PoolInv.         *)
(***************************************************************************)
LEMMA TakenFinite ==
  ASSUME NEW q, NEW e
  PROVE  IsFiniteSet(Taken(q, e)) /\ Cardinality(Taken(q, e)) \in Nat
<1>1. IsFiniteSet(Rows)
  <2>1. 0 \in Int /\ NumRows - 1 \in Int
    BY PushFactsHold DEF PushFacts
  <2> QED
    BY <2>1, FS_Interval DEF Rows
<1>2. IsFiniteSet(Ranks \X Rows)
  BY <1>1, RanksFinite, FS_Product
<1>3. Taken(q, e) \subseteq Ranks \X Rows
  BY DEF Taken
<1> QED
  BY <1>2, <1>3, FS_Subset, FS_CardinalityType

\* The rows of an expert keep their positions.
LEMMA PositionStands ==
  ASSUME NEW q, NEW e, PositionInv(q, e),
         recvCount'[q][e] = recvCount[q][e], pool'[q][e] = pool[q][e],
         Taken(q, e)' = Taken(q, e),
         \A p \in Taken(q, e) :
           row'[p[1]][p[2]] = row[p[1]][p[2]] /\ launch'[p[1]] = launch[p[1]]
  PROVE  PositionInv(q, e)'
<1>1. ASSUME NEW p \in Taken(q, e), NEW s PROVE LiesAt(q, e, p, s)' <=> LiesAt(q, e, p, s)
  BY DEF LiesAt
<1> QED
  BY <1>1 DEF PositionInv, Slots

\* A step that touches no count, no pool and no row.
LEMMA PoolUntouched ==
  ASSUME PoolInv, UNCHANGED <<recvCount, pool, row, routing, launch>>,
         \A q \in Ranks, e \in Experts : CountLaunch(q, e)' = CountLaunch(q, e),
         \A r \in Ranks : WorkInv(r)'
  PROVE  PoolInv'
<1>1. ASSUME NEW q \in Ranks, NEW e \in Experts PROVE PositionInv(q, e)'
  <2>1. Taken(q, e)' = Taken(q, e)
    BY DEF Taken
  <2>2. PositionInv(q, e)
    BY DEF PoolInv
  <2> QED
    BY <2>1, <2>2, PositionStands
<1> QED
  BY <1>1 DEF PoolInv

LEMMA InitPool == Init => PoolInv
<1> SUFFICES ASSUME Init PROVE PoolInv
  OBVIOUS
<1>1. ASSUME NEW q \in Ranks, NEW e \in Experts PROVE PositionInv(q, e)
  <2>1. CountLaunch(q, e) = 1
    BY Owners DEF Init, CountLaunch, Cleaned
  <2>2. Taken(q, e) = {}
    BY <2>1 DEF Init, Taken
  <2>3. recvCount[q][e] = 0
    BY DEF Init
  <2> QED
    BY <2>2, <2>3, FS_EmptySet DEF PositionInv
<1>2. \A r \in Ranks : WorkInv(r)
  BY DEF Init, WorkInv
<1> QED
  BY <1>1, <1>2 DEF PoolInv

\* While a CTA of rank r is not through its tasks no rank is a launch ahead.
LEMMA NobodyAhead ==
  ASSUME TypeInv, ControlInv, NEW r \in Ranks, NEW sm \in SMs,
         pc[r][sm] \notin {"barrier3", "exited"} \/ math[r][sm] # "done"
  PROVE  \A q \in Ranks : launch[q] <= launch[r]
<1>1. StageInv(r) /\ SignalInv(r)
  BY DEF ControlInv
<1>2. nvSignals[r] # Barrier3(r)
  BY <1>1 DEF StageInv, SignalInv, AllIn
<1>3. ASSUME NEW q \in Ranks PROVE ~(launch[q] > launch[r])
  BY <1>2 DEF ControlInv, SkewInv
<1>4. \A q \in Ranks : launch[q] \in Nat
  BY DEF TypeInv
<1> QED
  BY <1>3, <1>4

\* A row that is still to be stored belongs to the launch its expert's count
\* stands for, and nobody works from that count yet.
LEMMA TicketLaunch ==
  ASSUME TypeInv, ControlInv, WordInv, NEW r \in Ranks, NEW i \in Rows,
         row[r][i] # Stored, NEW q \in Ranks, NEW e \in Experts
  PROVE  /\ launch[r] = CountLaunch(q, e)
         /\ \A sm \in SMs : math[q][sm] # "work"
<1>1. StageInv(r) /\ SignalInv(r) /\ StageInv(q) /\ SignalInv(q) /\ LearnInv(q)
  BY DEF ControlInv, WordInv
<1>2. launch[r] \in Nat /\ launch[q] \in Nat
  BY DEF TypeInv
<1>3. ~NonePushes(r)
  BY <1>1, RowsStored
<1>4. Owner(e) \in SMs
  BY Owners
<1>5. ~(launch[q] > launch[r])
  <2>1. nvSignals[r] # Barrier3(r)
    BY <1>1, <1>3 DEF SignalInv, AllIn, NonePushes
  <2> QED
    BY <2>1 DEF ControlInv, SkewInv
<1>6. CASE launch[r] > launch[q]
  <2>1. launch[r] = launch[q] + 1 /\ nvSignals[q] = Barrier3(q)
    BY <1>6 DEF ControlInv, SkewInv
  <2>2. \A sm \in SMs : Cleaned(q, sm)
    BY <1>1, <2>1 DEF SignalInv, AllIn, Cleaned
  <2>3. \A sm \in SMs : math[q][sm] = "done"
    BY <1>1, <2>2 DEF StageInv, Cleaned
  <2> QED
    BY <1>4, <2>1, <2>2, <2>3 DEF CountLaunch
<1>7. CASE launch[r] = launch[q]
  <2>1. ~Complete(q)
    BY <1>2, <1>7 DEF Complete
  <2>2. \A sm \in SMs : math[q][sm] \notin {"work", "done"}
    BY <1>1, <2>1 DEF LearnInv
  <2>3. ~Cleaned(q, Owner(e))
    BY <1>1, <1>4, <2>2 DEF StageInv, Cleaned
  <2> QED
    BY <1>7, <2>2, <2>3 DEF CountLaunch
<1> QED
  BY <1>2, <1>5, <1>6, <1>7

LEMMA TakePool ==
  ASSUME TypeInv, TypeInv', ControlInv, WordInv, PoolInv,
         NEW r \in Ranks, NEW i \in Rows, TakeTicket(r, i)
  PROVE  PoolInv'
<1>1. PICK q \in Ranks, e \in Experts : routing[r][i] = <<q, e>>
  BY DEF TakeTicket, TypeInv, Todo, Stored
<1>2. PICK n \in Nat : n = recvCount[q][e]
  BY DEF TypeInv
<1>3. /\ row[r][i] = Todo
      /\ row' = [row EXCEPT ![r][i] = n]
      /\ recvCount' = [recvCount EXCEPT ![q][e] = n + 1]
      /\ UNCHANGED <<pool, routing, launch, pc, math, counts>>
  BY <1>1, <1>2 DEF TakeTicket, launchVars, mathVars
<1>4. /\ row'[r][i] = n /\ recvCount'[q][e] = n + 1
      /\ \A p \in Ranks, j \in Rows : <<p, j>> # <<r, i>> => row'[p][j] = row[p][j]
      /\ \A x \in Ranks, y \in Experts : <<x, y>> # <<q, e>> => recvCount'[x][y] = recvCount[x][y]
  BY <1>3 DEF TypeInv
<1>5. /\ launch[r] = CountLaunch(q, e) /\ \A sm \in SMs : math[q][sm] # "work"
  BY <1>3, TicketLaunch DEF Todo, Stored
<1>6. \A x, y : CountLaunch(x, y)' = CountLaunch(x, y)
  BY <1>3 DEF CountLaunch, Cleaned, Owner
<1>7. \A x \in Ranks, y \in Experts : PositionInv(x, y)
  BY DEF PoolInv
<1>8. ASSUME NEW x \in Ranks, NEW y \in Experts, <<x, y>> # <<q, e>> PROVE PositionInv(x, y)'
  <2>1. \A p \in Ranks \X Rows : routing[p[1]][p[2]] = <<x, y>> => row'[p[1]][p[2]] = row[p[1]][p[2]]
    BY <1>1, <1>4, <1>8
  <2>2. Taken(x, y)' = Taken(x, y)
    BY <1>3, <1>6, <2>1 DEF Taken
  <2>3. \A p \in Taken(x, y) : row'[p[1]][p[2]] = row[p[1]][p[2]]
    BY <2>1 DEF Taken
  <2> QED
    BY <1>3, <1>4, <1>7, <1>8, <2>2, <2>3, PositionStands
<1>9. PositionInv(q, e)'
  <2> DEFINE new == <<r, i>>
  <2>1. new \in Ranks \X Rows /\ new[1] = r /\ new[2] = i
    OBVIOUS
  <2>2. new \notin Taken(q, e)
    BY <1>3 DEF Taken
  <2>3. \A p \in Ranks \X Rows : p # new => row'[p[1]][p[2]] = row[p[1]][p[2]]
    BY <1>4
  <2>4. row'[new[1]][new[2]] = n /\ n # Todo
    BY <1>4 DEF Todo
  <2>5. Taken(q, e)' = Taken(q, e) \cup {new}
    <3>1. ASSUME NEW p \in Ranks \X Rows
          PROVE  p \in Taken(q, e)' <=> p \in Taken(q, e) \/ p = new
      <4>1. CASE p = new
        BY <1>1, <1>3, <1>5, <1>6, <2>1, <2>4, <4>1 DEF Taken
      <4>2. CASE p # new
        BY <1>3, <1>6, <2>3, <4>2 DEF Taken
      <4> QED
        BY <4>1, <4>2
    <3>2. Taken(q, e)' \subseteq Ranks \X Rows /\ Taken(q, e) \subseteq Ranks \X Rows
      BY DEF Taken
    <3> QED
      BY <2>1, <3>1, <3>2
  <2>6. PositionInv(q, e)
    BY <1>7
  <2>7. recvCount'[q][e] = Cardinality(Taken(q, e)')
    <3>1. Cardinality(Taken(q, e)) = n
      BY <1>2, <2>6 DEF PositionInv
    <3>2. Cardinality(Taken(q, e) \cup {new}) = n + 1
      BY <2>2, <3>1, TakenFinite, FS_AddElement
    <3> QED
      BY <1>4, <2>5, <3>2
  <2>8. \A p \in Taken(q, e) : p \in Ranks \X Rows /\ p # new
    BY <2>2 DEF Taken
  <2>9. ASSUME NEW p \in Taken(q, e), NEW s \in Nat, LiesAt(q, e, p, s) PROVE LiesAt(q, e, p, s)'
    <3>1. s < n /\ row[p[1]][p[2]] = Stored
      BY <1>2, <2>9 DEF LiesAt
    <3>2. pool'[q][e][s] = <<launch'[p[1]], p[1], p[2]>> /\ row'[p[1]][p[2]] = Stored
      BY <1>3, <2>3, <2>8, <2>9 DEF LiesAt
    <3>3. \A o \in Taken(q, e)' : row'[o[1]][o[2]] # s
      <4>1. \A o \in Taken(q, e) : row'[o[1]][o[2]] # s
        BY <2>3, <2>8, <2>9 DEF LiesAt
      <4> QED
        BY <2>4, <2>5, <3>1, <4>1
    <3> QED
      BY <1>4, <3>1, <3>2, <3>3 DEF LiesAt
  <2>10. \A p \in Taken(q, e) : \/ row[p[1]][p[2]] \in 0 .. n - 1
                                \/ \E s \in Slots : LiesAt(q, e, p, s)
    BY <1>2, <2>6 DEF PositionInv
  <2>11. Slots \subseteq Nat /\ Slots' = Slots
    BY PushFactsHold DEF PushFacts, Slots
  <2>12. ASSUME NEW p \in Taken(q, e)'
         PROVE  \/ row'[p[1]][p[2]] \in 0 .. n
                \/ \E s \in Slots : LiesAt(q, e, p, s)'
    <3>1. CASE p = new
      BY <2>4, <3>1
    <3>2. CASE p \in Taken(q, e)
      <4>1. CASE row[p[1]][p[2]] \in 0 .. n - 1
        BY <2>3, <2>8, <3>2, <4>1
      <4>2. CASE \E s \in Slots : LiesAt(q, e, p, s)
        BY <2>9, <2>11, <3>2, <4>2
      <4> QED
        BY <2>10, <3>2, <4>1, <4>2
    <3> QED
      BY <2>5, <3>1, <3>2
  <2>13. ASSUME NEW s \in 0 .. n
         PROVE  \E p \in Taken(q, e)' : row'[p[1]][p[2]] = s \/ (s \in Slots /\ LiesAt(q, e, p, s)')
    <3>1. CASE s = n
      BY <2>4, <2>5, <3>1
    <3>2. CASE s # n
      <4>1. PICK p \in Taken(q, e) : row[p[1]][p[2]] = s \/ (s \in Slots /\ LiesAt(q, e, p, s))
        BY <1>2, <2>6, <3>2 DEF PositionInv
      <4>2. row'[p[1]][p[2]] = s \/ (s \in Slots /\ LiesAt(q, e, p, s)')
        BY <2>3, <2>8, <2>9, <4>1
      <4> QED
        BY <2>5, <4>2
    <3> QED
      BY <3>1, <3>2
  <2>14. ASSUME NEW p \in Taken(q, e)', NEW o \in Taken(q, e)', row'[p[1]][p[2]] = row'[o[1]][o[2]]
         PROVE  p = o \/ row'[p[1]][p[2]] = Stored
    <3>1. \A x \in Taken(q, e) : row'[x[1]][x[2]] # n
      <4>1. \A x \in Taken(q, e) : row[x[1]][x[2]] \in 0 .. n - 1 \/ row[x[1]][x[2]] = Stored
        BY <2>10 DEF LiesAt
      <4> QED
        BY <2>3, <2>8, <4>1 DEF Stored
    <3>2. CASE p = new \/ o = new
      BY <2>4, <2>5, <2>14, <3>1, <3>2
    <3>3. CASE p \in Taken(q, e) /\ o \in Taken(q, e)
      BY <2>3, <2>6, <2>8, <2>14, <3>3 DEF PositionInv
    <3> QED
      BY <2>5, <3>2, <3>3
  <2>15. recvCount'[q][e] - 1 = n
    BY <1>4
  <2> QED
    BY <2>7, <2>11, <2>12, <2>13, <2>14, <2>15 DEF PositionInv
<1>10. ASSUME NEW x \in Ranks PROVE WorkInv(x)'
  <2>1. CASE x = q
    BY <1>3, <1>5, <2>1 DEF WorkInv
  <2>2. CASE x # q
    <3>1. recvCount'[x] = recvCount[x]
      BY <1>3, <2>2 DEF TypeInv
    <3> QED
      BY <1>3, <3>1 DEF PoolInv, WorkInv
  <2> QED
    BY <2>1, <2>2
<1>11. ASSUME NEW x \in Ranks, NEW y \in Experts PROVE PositionInv(x, y)'
  BY <1>8, <1>9
<1> QED
  BY <1>10, <1>11 DEF PoolInv

LEMMA StorePool ==
  ASSUME TypeInv, TypeInv', ControlInv, WordInv, PoolInv,
         NEW r \in Ranks, NEW i \in Rows, StoreRow(r, i)
  PROVE  PoolInv'
<1>1. PICK n \in 0 .. PoolRows - 1 : n = row[r][i]
  BY DEF StoreRow
<1>2. n \in Slots /\ n \in Nat /\ n # Todo /\ n # Stored /\ Slots' = Slots /\ Slots \subseteq Nat
  BY PushFactsHold DEF PushFacts, Slots, Todo, Stored
<1>3. PICK q \in Ranks, e \in Experts : routing[r][i] = <<q, e>>
  BY <1>1, <1>2 DEF TypeInv
<1>4. /\ row' = [row EXCEPT ![r][i] = Stored]
      /\ pool' = [pool EXCEPT ![q][e][n] = <<launch[r], r, i>>]
      /\ UNCHANGED <<recvCount, routing, launch, pc, math, counts>>
  BY <1>1, <1>3 DEF StoreRow, launchVars, mathVars
<1>5. /\ row'[r][i] = Stored
      /\ \A p \in Ranks, j \in Rows : <<p, j>> # <<r, i>> => row'[p][j] = row[p][j]
  BY <1>4 DEF TypeInv
<1>6. /\ \A x \in Ranks, y \in Experts : <<x, y>> # <<q, e>> => pool'[x][y] = pool[x][y]
      /\ pool'[q][e] = [pool[q][e] EXCEPT ![n] = <<launch[r], r, i>>]
  <2>1. pool' = [pool EXCEPT ![q] = [pool[q] EXCEPT ![e] = [pool[q][e] EXCEPT ![n] = <<launch[r], r, i>>]]]
    BY <1>4
  <2>2. PICK g : g = [pool[q][e] EXCEPT ![n] = <<launch[r], r, i>>]
    OBVIOUS
  <2> QED
    BY <2>1, <2>2 DEF TypeInv
<1>7. /\ pool'[q][e][n] = <<launch[r], r, i>>
      /\ \A s \in Slots : s # n => pool'[q][e][s] = pool[q][e][s]
  BY <1>2, <1>6 DEF TypeInv
<1>8. launch[r] = CountLaunch(q, e)
  BY <1>1, <1>2, TicketLaunch
<1>9. \A x, y : CountLaunch(x, y)' = CountLaunch(x, y)
  BY <1>4 DEF CountLaunch, Cleaned, Owner
<1>10. \A x \in Ranks, y \in Experts : PositionInv(x, y)
  BY DEF PoolInv
<1>11. \A x \in Ranks, y \in Experts : Taken(x, y)' = Taken(x, y)
  <2>1. \A p \in Ranks \X Rows : row'[p[1]][p[2]] # Todo <=> row[p[1]][p[2]] # Todo
    BY <1>1, <1>2, <1>5 DEF Todo, Stored
  <2> QED
    BY <1>4, <1>9, <2>1 DEF Taken
<1>12. ASSUME NEW x \in Ranks, NEW y \in Experts, <<x, y>> # <<q, e>> PROVE PositionInv(x, y)'
  <2>1. \A p \in Ranks \X Rows : routing[p[1]][p[2]] = <<x, y>> => row'[p[1]][p[2]] = row[p[1]][p[2]]
    BY <1>3, <1>5, <1>12
  <2>2. \A p \in Taken(x, y) : row'[p[1]][p[2]] = row[p[1]][p[2]]
    BY <2>1 DEF Taken
  <2> QED
    BY <1>4, <1>6, <1>10, <1>11, <1>12, <2>2, PositionStands
<1>13. PositionInv(q, e)'
  <2> DEFINE new == <<r, i>>
  <2>1. new \in Ranks \X Rows /\ new[1] = r /\ new[2] = i
    OBVIOUS
  <2>2. new \in Taken(q, e)
    BY <1>1, <1>2, <1>3, <1>8, <2>1 DEF Taken
  <2>3. /\ row[new[1]][new[2]] = n /\ row'[new[1]][new[2]] = Stored
        /\ \A p \in Taken(q, e) : p # new => row'[p[1]][p[2]] = row[p[1]][p[2]]
    BY <1>1, <1>5, <2>1 DEF Taken
  <2>4. PositionInv(q, e)
    BY <1>10
  <2>5. PICK c \in Nat : c = recvCount[q][e] /\ c = recvCount'[q][e]
    BY <1>4 DEF TypeInv
  <2>6. n < c
    <3>1. n \in 0 .. c - 1
      BY <1>2, <2>2, <2>3, <2>4, <2>5 DEF PositionInv, LiesAt
    <3> QED
      BY <2>5, <3>1
  <2>7. ASSUME NEW p \in Taken(q, e), row[p[1]][p[2]] = n PROVE p = new
    BY <1>2, <2>2, <2>3, <2>4, <2>7 DEF PositionInv
  <2>8. LiesAt(q, e, new, n)'
    <3>1. \A o \in Taken(q, e)' : row'[o[1]][o[2]] # n
      BY <1>2, <1>11, <2>3, <2>7
    <3>2. pool'[q][e][n] = <<launch'[new[1]], new[1], new[2]>>
      BY <1>4, <1>7, <2>1
    <3> QED
      BY <2>3, <2>5, <2>6, <3>1, <3>2 DEF LiesAt
  <2>9. ASSUME NEW p \in Taken(q, e), NEW s \in Slots, LiesAt(q, e, p, s) PROVE LiesAt(q, e, p, s)'
    <3>1. s # n /\ p # new
      BY <1>2, <2>2, <2>3, <2>9 DEF LiesAt
    <3>2. pool'[q][e][s] = <<launch'[p[1]], p[1], p[2]>> /\ row'[p[1]][p[2]] = Stored
      BY <1>4, <1>7, <2>3, <2>9, <3>1 DEF LiesAt
    <3>3. \A o \in Taken(q, e)' : row'[o[1]][o[2]] # s
      <4>1. \A o \in Taken(q, e) : row[o[1]][o[2]] # s
        BY <2>9 DEF LiesAt
      <4>2. s # Stored
        BY <1>2 DEF Stored
      <4> QED
        BY <1>11, <2>3, <4>1, <4>2
    <3> QED
      BY <1>4, <2>9, <3>2, <3>3 DEF LiesAt
  <2>10. ASSUME NEW p \in Taken(q, e)
         PROVE  \/ row'[p[1]][p[2]] \in 0 .. c - 1
                \/ \E s \in Slots : LiesAt(q, e, p, s)'
    <3>1. CASE p = new
      BY <1>2, <2>8, <3>1
    <3>2. CASE p # new
      <4>1. \/ row[p[1]][p[2]] \in 0 .. c - 1
            \/ \E s \in Slots : LiesAt(q, e, p, s)
        BY <2>4, <2>5 DEF PositionInv
      <4>2. CASE row[p[1]][p[2]] \in 0 .. c - 1
        BY <2>3, <3>2, <4>2
      <4>3. CASE \E s \in Slots : LiesAt(q, e, p, s)
        BY <2>9, <4>3
      <4> QED
        BY <4>1, <4>2, <4>3
    <3> QED
      BY <3>1, <3>2
  <2>11. ASSUME NEW s \in 0 .. c - 1
         PROVE  \E p \in Taken(q, e) : row'[p[1]][p[2]] = s \/ (s \in Slots /\ LiesAt(q, e, p, s)')
    <3>1. CASE s = n
      BY <1>2, <2>2, <2>8, <3>1
    <3>2. CASE s # n
      <4>1. PICK p \in Taken(q, e) : row[p[1]][p[2]] = s \/ (s \in Slots /\ LiesAt(q, e, p, s))
        BY <2>4, <2>5 DEF PositionInv
      <4>2. CASE row[p[1]][p[2]] = s
        <5>1. p # new
          BY <2>3, <3>2, <4>2
        <5> QED
          BY <2>3, <4>2, <5>1
      <4>3. CASE s \in Slots /\ LiesAt(q, e, p, s)
        BY <2>9, <4>3
      <4> QED
        BY <4>1, <4>2, <4>3
    <3> QED
      BY <3>1, <3>2
  <2>12. ASSUME NEW p \in Taken(q, e), NEW o \in Taken(q, e), row'[p[1]][p[2]] = row'[o[1]][o[2]]
         PROVE  p = o \/ row'[p[1]][p[2]] = Stored
    <3>1. CASE p = new \/ o = new
      BY <2>3, <2>12, <3>1
    <3>2. CASE p # new /\ o # new
      BY <2>3, <2>4, <2>12, <3>2 DEF PositionInv
    <3> QED
      BY <3>1, <3>2
  <2>13. recvCount'[q][e] = Cardinality(Taken(q, e))
    BY <2>4, <2>5 DEF PositionInv
  <2> QED
    BY <1>2, <1>11, <2>5, <2>10, <2>11, <2>12, <2>13 DEF PositionInv
<1>14. \A x \in Ranks : WorkInv(x)'
  BY <1>4 DEF PoolInv, WorkInv
<1>15. ASSUME NEW x \in Ranks, NEW y \in Experts PROVE PositionInv(x, y)'
  BY <1>12, <1>13
<1> QED
  BY <1>14, <1>15 DEF PoolInv

LEMMA LaunchPool ==
  ASSUME TypeInv, TypeInv', ControlInv, PoolInv, NEW r \in Ranks, Launch(r)
  PROVE  PoolInv'
<1>1. /\ AllIn(r, {"exited"})
      /\ \A q \in Ranks : launch[q] = launch[r] => nvSignals[q] = Barrier3(q)
      /\ \A q \in Ranks : launch[q] >= launch[r]
      /\ launch'[r] = launch[r] + 1
      /\ \A sm \in SMs : pc'[r][sm] = "push" /\ math'[r][sm] = "start"
      /\ \A q \in Ranks \ {r} : /\ launch'[q] = launch[q] /\ routing'[q] = routing[q]
                                /\ row'[q] = row[q] /\ pc'[q] = pc[q] /\ math'[q] = math[q]
      /\ \A i \in Rows : row'[r][i] = IF routing'[r][i] = NoExpert THEN Stored ELSE Todo
  BY LaunchFacts
<1>2. recvCount' = recvCount /\ pool' = pool /\ counts' = counts
  BY DEF Launch, poolVars
<1>3. \A q \in Ranks : launch[q] \in Nat
  BY DEF TypeInv
<1>4. ASSUME NEW q \in Ranks, NEW e \in Experts
      PROVE  CountLaunch(q, e)' = CountLaunch(q, e) /\ CountLaunch(q, e) > launch[r]
  <2>1. Owner(e) \in SMs /\ Owner(e)' = Owner(e)
    BY Owners DEF Owner
  <2>2. CASE q = r
    BY <1>1, <1>3, <2>1, <2>2 DEF CountLaunch, Cleaned, AllIn
  <2>3. CASE q # r
    <3>1. CountLaunch(q, e)' = CountLaunch(q, e)
      BY <1>1, <2>1, <2>3 DEF CountLaunch, Cleaned
    <3>2. CASE launch[q] = launch[r]
      <4>1. Cleaned(q, Owner(e))
        BY <1>1, <2>1, <3>2 DEF ControlInv, SignalInv, AllIn, Cleaned
      <4> QED
        BY <1>3, <3>1, <3>2, <4>1 DEF CountLaunch
    <3>3. CASE launch[q] # launch[r]
      BY <1>1, <1>3, <3>1, <3>3 DEF CountLaunch
    <3> QED
      BY <3>2, <3>3
  <2> QED
    BY <2>2, <2>3
<1>5. ASSUME NEW q \in Ranks, NEW e \in Experts PROVE PositionInv(q, e)'
  <2>1. \A p \in Taken(q, e) : p \in Ranks \X Rows /\ p[1] \in Ranks \ {r}
    BY <1>3, <1>4 DEF Taken
  <2>2. \A p \in Taken(q, e) : row'[p[1]][p[2]] = row[p[1]][p[2]] /\ launch'[p[1]] = launch[p[1]]
    BY <1>1, <2>1
  <2>3. ASSUME NEW p \in Ranks \X Rows PROVE p \in Taken(q, e)' <=> p \in Taken(q, e)
    <3>1. CASE p[1] = r
      <4>1. <<q, e>> # NoExpert
        BY PushFactsHold DEF NoExpert, PushFacts
      <4>2. ~(routing'[r][p[2]] = <<q, e>> /\ row'[r][p[2]] # Todo)
        BY <1>1, <4>1
      <4> QED
        BY <2>1, <3>1, <4>2 DEF Taken
    <3>2. CASE p[1] # r
      BY <1>1, <1>4, <3>2 DEF Taken
    <3> QED
      BY <3>1, <3>2
  <2>4. Taken(q, e)' = Taken(q, e)
    BY <2>3 DEF Taken
  <2>5. PositionInv(q, e)
    BY DEF PoolInv
  <2> QED
    BY <1>2, <2>2, <2>4, <2>5, PositionStands
<1>6. ASSUME NEW q \in Ranks PROVE WorkInv(q)'
  <2>1. \A sm \in SMs : math'[q][sm] = "work" => math[q][sm] = "work"
    BY <1>1
  <2> QED
    BY <1>2, <2>1 DEF PoolInv, WorkInv
<1> QED
  BY <1>5, <1>6 DEF PoolInv

\* The cleanup leaves the experts of a CTA with nothing taken for the next launch.
LEMMA CleanupPool ==
  ASSUME TypeInv, TypeInv', ControlInv, PoolInv,
         NEW r \in Ranks, NEW sm \in SMs, Cleanup(r, sm)
  PROVE  PoolInv'
<1>1. /\ pc[r][sm] = "grid" /\ AllIn(r, {"grid", "barrier3", "exited"})
      /\ pc' = [pc EXCEPT ![r][sm] = "barrier3"]
      /\ UNCHANGED <<pool, row, routing, launch, math, counts>>
  BY DEF Cleanup, GridPassed, AllIn, Goto, launchVars, mathVars
<1>2. \A x \in SMs : math[r][x] = "done"
  BY <1>1 DEF ControlInv, StageInv, AllIn
<1>3. \A q \in Ranks : launch[q] <= launch[r] /\ launch[q] \in Nat
  BY <1>1, NobodyAhead DEF TypeInv
<1>4. \A q \in Ranks \ {r} : recvCount'[q] = recvCount[q] /\ pc'[q] = pc[q]
  BY <1>1 DEF Cleanup, TypeInv
<1>5. pc'[r][sm] = "barrier3" /\ \A x \in SMs : x # sm => pc'[r][x] = pc[r][x]
  BY <1>1 DEF TypeInv
<1>6. ASSUME NEW e \in Experts
      PROVE  recvCount'[r][e] = IF Owner(e) = sm THEN 0 ELSE recvCount[r][e]
  <2>1. CASE sm = 0
    BY <2>1, Owners DEF Cleanup
  <2>2. CASE sm # 0
    <3>1. recvCount'[r][e] = IF e \in OwnedExperts(sm) THEN 0 ELSE recvCount[r][e]
      BY <2>2 DEF Cleanup, TypeInv
    <3> QED
      BY <2>2, <3>1, Owners
  <2> QED
    BY <2>1, <2>2
<1>7. ASSUME NEW q \in Ranks, NEW e \in Experts PROVE PositionInv(q, e)'
  <2>1. Owner(e) \in SMs /\ Owner(e)' = Owner(e)
    BY Owners DEF Owner
  <2>2. CASE q = r /\ Owner(e) = sm
    <3>1. CountLaunch(q, e)' = launch[r] + 1
      BY <1>1, <1>5, <2>1, <2>2 DEF CountLaunch, Cleaned
    <3>2. \A p \in Ranks : launch'[p] # launch[r] + 1
      BY <1>1, <1>3
    <3>3. Taken(q, e)' = {}
      BY <3>1, <3>2 DEF Taken
    <3>4. recvCount'[q][e] = 0
      BY <1>6, <2>2
    <3> QED
      BY <3>3, <3>4, FS_EmptySet DEF PositionInv
  <2>3. CASE ~(q = r /\ Owner(e) = sm)
    <3>1. recvCount'[q][e] = recvCount[q][e]
      BY <1>4, <1>6, <2>3
    <3>2. CountLaunch(q, e)' = CountLaunch(q, e)
      BY <1>1, <1>4, <1>5, <2>1, <2>3 DEF CountLaunch, Cleaned
    <3>3. Taken(q, e)' = Taken(q, e)
      BY <1>1, <3>2 DEF Taken
    <3>4. PositionInv(q, e)
      BY DEF PoolInv
    <3> QED
      BY <1>1, <3>1, <3>3, <3>4, PositionStands
  <2> QED
    BY <2>2, <2>3
<1>8. ASSUME NEW q \in Ranks PROVE WorkInv(q)'
  <2>1. CASE q = r
    BY <1>1, <1>2, <2>1 DEF WorkInv
  <2>2. CASE q # r
    BY <1>1, <1>4, <2>2 DEF PoolInv, WorkInv
  <2> QED
    BY <2>1, <2>2
<1> QED
  BY <1>7, <1>8 DEF PoolInv

\* The other steps of a CTA leave the counts, the pool and the rows alone.
LEMMA CtaPool ==
  ASSUME TypeInv, PoolInv, NEW r \in Ranks, NEW sm \in SMs,
         \/ CtaArrive(r, sm) \/ \E q \in Ranks : SignalDone(r, sm, q)
         \/ EnterBarrier1(r, sm) \/ LeaveBarrier1(r, sm) \/ Publish(r, sm)
         \/ EnterGridSync(r, sm) \/ LeaveBarrier3(r, sm)
  PROVE  PoolInv'
<1> DEFINE Move(to) == /\ pc' = [pc EXCEPT ![r][sm] = to]
                       /\ to \in {"barrier3", "exited"} <=> pc[r][sm] \in {"barrier3", "exited"}
<1>1. UNCHANGED <<recvCount, pool, row, routing, launch, math, counts>>
  BY DEF CtaArrive, SignalDone, EnterBarrier1, LeaveBarrier1, Publish, EnterGridSync,
     LeaveBarrier3, poolVars, launchVars, mathVars
<1>2. \A q \in Ranks, x \in SMs : Cleaned(q, x)' <=> Cleaned(q, x)
  <2>1. CtaArrive(r, sm) => Move("signal") \/ Move("publish")
    BY DEF CtaArrive, Goto
  <2>2. (\E q \in Ranks : SignalDone(r, sm, q)) => Move("signal") \/ Move("publish")
    BY DEF SignalDone, Goto
  <2>3. /\ EnterBarrier1(r, sm) => Move("barrier1")
        /\ LeaveBarrier1(r, sm) => Move("publish")
        /\ Publish(r, sm) => Move("join")
        /\ EnterGridSync(r, sm) => Move("grid")
        /\ LeaveBarrier3(r, sm) => Move("exited")
    BY DEF EnterBarrier1, LeaveBarrier1, Publish, EnterGridSync, LeaveBarrier3, Goto
  <2>4. PICK to : Move(to)
    BY <2>1, <2>2, <2>3
  <2> QED
    BY <2>4 DEF Cleaned, TypeInv
<1>3. ASSUME NEW q \in Ranks, NEW e \in Experts PROVE CountLaunch(q, e)' = CountLaunch(q, e)
  <2>1. Owner(e) \in SMs /\ Owner(e)' = Owner(e)
    BY Owners DEF Owner
  <2> QED
    BY <1>1, <1>2, <2>1 DEF CountLaunch, Cleaned
<1>4. \A q \in Ranks : WorkInv(q)'
  BY <1>1 DEF PoolInv, WorkInv
<1> QED
  BY <1>1, <1>3, <1>4, PoolUntouched

LEMMA MathPool ==
  ASSUME TypeInv, PoolInv, NEW r \in Ranks, NEW sm \in SMs, MathStep(r, sm)
  PROVE  PoolInv'
<1>1. UNCHANGED <<recvCount, pool, row, routing, launch, pc>>
  BY DEF MathStep, ReadTarget, FetchCounts, FinishTasks, poolVars, launchVars, dispatchVars
<1>2. \A q \in Ranks, e \in Experts : CountLaunch(q, e)' = CountLaunch(q, e)
  BY <1>1 DEF CountLaunch, Cleaned, Owner
<1>3. /\ \A q \in Ranks, x \in SMs : <<q, x>> # <<r, sm>> =>
           math'[q][x] = math[q][x] /\ counts'[q][x] = counts[q][x]
      /\ math'[r][sm] = "work" => counts'[r][sm] = recvCount[r]
  BY DEF MathStep, ReadTarget, FetchCounts, FinishTasks, TypeInv
<1>4. ASSUME NEW q \in Ranks PROVE WorkInv(q)'
  BY <1>1, <1>3 DEF PoolInv, WorkInv
<1> QED
  BY <1>1, <1>2, <1>4, PoolUntouched

LEMMA NextPool ==
  ASSUME TypeInv, TypeInv', ControlInv, WordInv, PoolInv, [Next]_vars
  PROVE  PoolInv'
<1>1. ASSUME UNCHANGED <<recvCount, pool, row, routing, launch, pc, math, counts>> PROVE PoolInv'
  <2>1. \A q \in Ranks, e \in Experts : CountLaunch(q, e)' = CountLaunch(q, e)
    BY <1>1 DEF CountLaunch, Cleaned, Owner
  <2>2. \A q \in Ranks : WorkInv(q)'
    BY <1>1 DEF PoolInv, WorkInv
  <2> QED
    BY <1>1, <2>1, <2>2, PoolUntouched
<1>2. CASE UNCHANGED vars
  BY <1>1, <1>2 DEF vars, poolVars, launchVars, dispatchVars, mathVars
<1>3. ASSUME NEW r \in Ranks, RankStep(r) PROVE PoolInv'
  <2>1. CASE SignalBarrier1(r) \/ SignalBarrier3(r)
    BY <1>1, <2>1 DEF SignalBarrier1, SignalBarrier3, SendSignals, poolVars, launchVars,
       dispatchVars, mathVars
  <2> QED
    BY <1>3, <2>1, LaunchPool DEF RankStep
<1>4. ASSUME NEW r \in Ranks, NEW i \in Rows, RowStep(r, i) PROVE PoolInv'
  BY <1>4, TakePool, StorePool DEF RowStep
<1>5. ASSUME NEW r \in Ranks, NEW sm \in SMs, DispatchStep(r, sm) PROVE PoolInv'
  BY <1>5, CtaPool, CleanupPool DEF DispatchStep
<1>6. ASSUME NEW r \in Ranks, NEW sm \in SMs, MathStep(r, sm) PROVE PoolInv'
  BY <1>6, MathPool
<1> QED
  BY <1>2, <1>3, <1>4, <1>5, <1>6 DEF Next, Finished

-----------------------------------------------------------------------------
(***************************************************************************)
(* What the invariant says of the pool and of the words.                   *)
(***************************************************************************)
Inv == TypeInv /\ ControlInv /\ WordInv /\ PoolInv

LEMMA InvHolds == Spec => []Inv
<1>1. Init => Inv
  BY InitType, InitControl, InitWord, InitPool DEF Inv
<1>2. Inv /\ [Next]_vars => Inv'
  <2>1. SUFFICES ASSUME Inv, [Next]_vars PROVE Inv'
    OBVIOUS
  <2>2. TypeInv'
    BY <2>1, NextType DEF Inv
  <2>3. ControlInv'
    BY <2>1, NextControl DEF Inv
  <2>4. WordInv'
    BY <2>1, <2>2, <2>3, NextWord DEF Inv
  <2>5. PoolInv'
    BY <2>1, <2>2, NextPool DEF Inv
  <2> QED
    BY <2>2, <2>3, <2>4, <2>5 DEF Inv
<1> QED
  BY <1>1, <1>2, PTL DEF Spec

\* The rows of a launch are told apart by rank and row.
LEMMA RoutedCount ==
  ASSUME NEW B, B \subseteq Ranks \X Rows, IsFiniteSet(B), NEW n
  PROVE  Cardinality({<<n, p[1], p[2]>> : p \in B}) = Cardinality(B)
<1> DEFINE T == {<<n, p[1], p[2]>> : p \in B}
           f == [p \in B |-> <<n, p[1], p[2]>>]
<1>1. f \in [B -> T] /\ \A t \in T : \E p \in B : f[p] = t
  OBVIOUS
<1>2. ASSUME NEW p \in B, NEW o \in B, f[p] = f[o] PROVE p = o
  BY <1>2
<1>3. f \in Bijection(B, T)
  BY <1>1, <1>2 DEF Bijection, Injection, Surjection, IsInjective
<1>4. ExistsBijection(B, T)
  BY <1>3 DEF ExistsBijection
<1> QED
  BY <1>4, FS_Bijection

LEMMA PoolOfWork ==
  ASSUME Inv, NEW r \in Ranks, NEW sm \in SMs, math[r][sm] = "work"
  PROVE  /\ \A q \in Ranks : launch[q] = launch[r]
         /\ \A e \in Experts :
              /\ counts[r][sm][e] = Cardinality(Routed(r, e))
              /\ { pool[r][e][s] : s \in 0 .. counts[r][sm][e] - 1 } = Routed(r, e)
<1> USE DEF Inv
<1>1. Complete(r) /\ counts[r][sm] = recvCount[r] /\ StageInv(r)
  BY DEF WordInv, LearnInv, PoolInv, WorkInv, ControlInv
<1>2. ASSUME NEW q \in Ranks
      PROVE  launch[q] = launch[r] /\ \A i \in Rows : row[q][i] = Stored
  <2>1. launch[q] <= launch[r] /\ launch[q] \in Nat /\ launch[r] \in Nat
    BY NobodyAhead DEF TypeInv
  <2> QED
    BY <1>1, <2>1 DEF Complete
<1>3. ASSUME NEW e \in Experts
      PROVE  /\ recvCount[r][e] = Cardinality(Routed(r, e))
             /\ { pool[r][e][s] : s \in 0 .. recvCount[r][e] - 1 } = Routed(r, e)
  <2>1. CountLaunch(r, e) = launch[r]
    <3>1. Owner(e) \in SMs
      BY Owners
    <3> QED
      BY <1>1, <3>1, NotCleaned DEF CountLaunch
  <2>2. Taken(r, e) = {x \in Ranks \X Rows : launch[x[1]] = launch[r] /\ routing[x[1]][x[2]] = <<r, e>>}
    BY <1>2, <2>1 DEF Taken, Todo, Stored
  <2>3. Routed(r, e) = {<<launch[r], p[1], p[2]>> : p \in Taken(r, e)}
    BY <2>2 DEF Routed
  <2>4. Taken(r, e) \subseteq Ranks \X Rows
    BY DEF Taken
  <2>5. PositionInv(r, e)
    BY DEF PoolInv
  <2>6. recvCount[r][e] = Cardinality(Routed(r, e))
    BY <2>3, <2>4, <2>5, TakenFinite, RoutedCount DEF PositionInv
  <2>7. PICK c \in Nat : c = recvCount[r][e]
    BY DEF TypeInv
  <2>8. \A p \in Taken(r, e) :
          row[p[1]][p[2]] = Stored /\ launch[p[1]] = launch[r] /\ Stored \notin 0 .. c - 1
    BY <1>2, <2>4, <2>7 DEF Stored
  <2>9. ASSUME NEW s \in 0 .. c - 1 PROVE pool[r][e][s] \in Routed(r, e)
    <3>1. PICK p \in Taken(r, e) : row[p[1]][p[2]] = s \/ LiesAt(r, e, p, s)
      BY <2>5, <2>7 DEF PositionInv
    <3>2. LiesAt(r, e, p, s)
      BY <2>8, <3>1
    <3> QED
      BY <2>3, <2>8, <3>2 DEF LiesAt
  <2>10. ASSUME NEW p \in Taken(r, e)
         PROVE  \E s \in 0 .. c - 1 : pool[r][e][s] = <<launch[r], p[1], p[2]>>
    <3>1. PICK s \in Slots : LiesAt(r, e, p, s)
      BY <2>5, <2>7, <2>8 DEF PositionInv
    <3>2. s \in 0 .. c - 1
      BY <2>7, <3>1, PushFactsHold DEF LiesAt, Slots, PushFacts
    <3> QED
      BY <2>8, <3>1, <3>2 DEF LiesAt
  <2>11. { pool[r][e][s] : s \in 0 .. c - 1 } = Routed(r, e)
    BY <2>3, <2>9, <2>10
  <2> QED
    BY <2>6, <2>7, <2>11
<1> QED
  BY <1>1, <1>2, <1>3

\* While a CTA works from the counts it fetched (fetch_expert_recv_count), all
\* ranks are in its launch and the pool of each expert holds, at exactly the
\* positions below the count, exactly the rows the routers sent to the expert:
\* no row is late, lost, overwritten, or left from another launch.
THEOREM PoolIsLaunch == Spec => []PoolMatchesCounts
<1>1. Inv => PoolMatchesCounts
  BY PoolOfWork DEF PoolMatchesCounts
<1> QED
  BY <1>1, InvHolds, PTL

\* The epoch may be reduced before the target is computed from it.
LEMMA EpochTurns ==
  ASSUME NEW x \in Int
  PROVE  (NumRanks * x) % DoneMod = (NumRanks * (x % DoneMod)) % DoneMod
<1>1. PICK k \in Int : x % DoneMod = x + k * DoneMod
  BY ModReduced
<1>2. PICK M, n \in Nat : M = DoneMod /\ n = NumRanks
  BY PushFactsHold DEF PushFacts
<1>3. n * (x + k * M) = n * x + (n * k) * M
  OBVIOUS
<1>4. PICK y, z \in Int : y = n * x /\ z = n * k
  OBVIOUS
<1>5. (y + z * DoneMod) % DoneMod = y % DoneMod
  BY ModTurns
<1>6. NumRanks * (x % DoneMod) = y + z * DoneMod
  BY <1>1, <1>2, <1>3, <1>4
<1> QED
  BY <1>2, <1>4, <1>5, <1>6

LEMMA WordsOfIdle ==
  ASSUME Inv, \A q \in Ranks : Idle(q) /\ launch[q] = launch[0], NEW r \in Ranks
  PROVE  /\ \A e \in Experts :
              recvCount[r][e] = 0 /\ ~recvFinal[r][e] /\ arrivals[r][e] = 0
         /\ ctaArrival[r] = 0
         /\ doneFlags => doneCount[r] = (NumRanks * epoch[r]) % DoneMod
<1> USE DEF Inv
<1>1. \A sm \in SMs : pc[r][sm] = "exited" /\ Cleaned(r, sm)
  BY DEF Idle, Cleaned
<1>2. launch[r] \in Nat /\ 0 \in Ranks /\ \A q \in Ranks : launch[q] = launch[r]
  BY PushFactsHold DEF TypeInv, PushFacts, Ranks
<1>3. LearnInv(r) /\ DoneInv(r) /\ ArrivalInv(r)
  BY DEF WordInv, ControlInv
<1>4. ASSUME NEW e \in Experts
      PROVE  recvCount[r][e] = 0 /\ ~recvFinal[r][e] /\ arrivals[r][e] = 0
  <2>1. Cleaned(r, Owner(e))
    BY <1>1, Owners
  <2>2. CountLaunch(r, e) = launch[r] + 1
    BY <2>1 DEF CountLaunch
  <2>3. Taken(r, e) = {}
    BY <1>2, <2>2 DEF Taken
  <2>4. recvCount[r][e] = 0
    BY <2>3, FS_EmptySet DEF PoolInv, PositionInv
  <2> QED
    BY <1>3, <2>1, <2>4 DEF LearnInv
<1>5. ctaArrival[r] = 0
  BY <1>1, <1>3 DEF ArrivalInv, NonePushes
<1>6. ASSUME doneFlags PROVE doneCount[r] = (NumRanks * epoch[r]) % DoneMod
  <2>1. EpochLaunch(r) = launch[r] + 1
    BY <1>1, PushFactsHold DEF EpochLaunch, PushFacts
  <2>2. SentTo(r) = {}
    BY <1>2, <2>1 DEF SentTo
  <2>3. PICK x \in Int : x = FirstEpoch + EpochLaunch(r) - 1
    BY EpochLaunchType
  <2>4. NumRanks * x + Cardinality(SentTo(r)) = NumRanks * x
    BY <2>2, <2>3, FS_EmptySet, EpochLaunchType
  <2>5. doneCount[r] = (NumRanks * x) % DoneMod /\ epoch[r] = x % DoneMod
    BY <1>3, <1>6, <2>3, <2>4 DEF DoneInv
  <2> QED
    BY <2>5, EpochTurns
<1> QED
  BY <1>4, <1>5, <1>6

\* Between launches every word is where the next launch needs it: the expert
\* counts, their completeness words and the published arrivals cleared by
\* cleanup_workspace, the CTA arrival ticket reset, and, with DONE flags, the
\* DONE count one launch short of the target the advanced epoch stands for,
\* wherever the 32-bit words have wrapped.
THEOREM WordsClean == Spec => []CleanAtStart
<1>1. Inv => CleanAtStart
  BY WordsOfIdle DEF CleanAtStart
<1> QED
  BY <1>1, InvHolds, PTL
=============================================================================
