---------------------------- MODULE PushDispatch ----------------------------
(***************************************************************************)
(* Push dispatch of the fused kernel: how routed rows reach the pool of    *)
(* the rank that owns their expert, how that rank learns that all rows of  *)
(* the launch are there, and how the words involved are made ready for the *)
(* next launch.                                                            *)
(*                                                                         *)
(* A dispatch warp takes a ticket on the destination's per-expert count    *)
(* and writes the row at that position.  With doneFlags the last CTA of a  *)
(* rank to finish pushing adds 1 to every rank's DONE count, and readers   *)
(* wait for NumRanks * (epoch + 1); otherwise NVLink barrier #1 separates  *)
(* pushes from readers.  The task producer of every CTA then takes the     *)
(* counts, the GEMM tasks read the pool, and after a grid sync the         *)
(* dispatch warps clean up and meet in NVLink barrier #3.                  *)
(*                                                                         *)
(* The GEMM work of a CTA between fetching the counts and its last task is *)
(* the state "work"; grid_sync and the NVLink barrier are used at the      *)
(* level of what they promise.                                             *)
(***************************************************************************)
EXTENDS Integers, FiniteSets

CONSTANTS NumRanks,    \* kNumRanks
          NumSMs,      \* kNumSMs
          NumExperts,  \* kNumExpertsPerRank
          NumRows,     \* routed (token, top-k slot) rows of a rank, at most
          Routings,    \* what the router may return: row -> <<rank, expert>> or NoExpert
          FirstEpoch,  \* push epoch the ranks have reached when the model starts
          MaxLaunches, \* bound: launches of a rank from there
          DoneMod      \* the DONE count and the epoch wrap here (2^32)

Ranks == 0 .. NumRanks - 1
SMs == 0 .. NumSMs - 1
Experts == 0 .. NumExperts - 1
Rows == 0 .. NumRows - 1
NoExpert == <<-1, -1>>
Empty == <<0, 0, 0>>
Todo == -1
Stored == -2
\* kPushBlocksPerExpert * BLOCK_M, sized for every row of every rank.
PoolRows == NumRanks * NumRows

ASSUME PushAssumption ==
  /\ NumRanks \in Nat \ {0}
  /\ NumSMs \in Nat /\ NumSMs > 1   \* DG_STATIC_ASSERT(kNumSMs > 1)
  /\ NumExperts \in Nat \ {0} /\ NumExperts <= NumSMs
  /\ NumRows \in Nat
  /\ Routings \subseteq [Rows -> (Ranks \X Experts) \cup {NoExpert}]
  /\ MaxLaunches \in Nat
  /\ DoneMod \in Nat /\ DoneMod > 2 * NumRanks
  /\ FirstEpoch \in 0 .. DoneMod - 1

VARIABLES
  doneFlags,  \* kPushDoneFlags: the build this behaviour is about
  recvCount,  \* recvCount[r][e]: low word of expert_recv_count_sum
  recvFinal,  \* recvFinal[r][e]: its completeness high word
  arrivals,   \* arrivals[r][e]: published l1_arrival_count of the expert's blocks
  pool,       \* pool[r][e][slot]: <<launch, source rank, row>> or Empty
  doneCount,  \* doneCount[r]: push DONE count
  epoch,      \* epoch[r]: push epoch
  ctaArrival, \* ctaArrival[r]: push CTA arrival ticket word
  nvSignals,  \* nvSignals[r]: NVLink barriers whose signals r has sent
  launch,     \* launch[r]: launches started on r
  routing,    \* routing[r]: this launch's top-k result on r
  row,        \* row[r][i]: Todo, Stored, or the ticket (slot) it holds
  pc,         \* pc[r][sm]: where the CTA's dispatch warps are
  toSignal,   \* toSignal[r]: ranks the last CTA still has to send DONE to
  target,     \* target[r][sm]: DONE target the producer computed
  math,       \* math[r][sm]: "start", "poll", "work", "done"
  counts      \* counts[r][sm]: the counts the producer fetched

poolVars == <<recvCount, recvFinal, arrivals, pool>>
wordVars == <<doneCount, epoch, ctaArrival, nvSignals>>
launchVars == <<doneFlags, launch, routing>>
dispatchVars == <<row, pc, toSignal>>
mathVars == <<target, math, counts>>
vars == <<poolVars, wordVars, launchVars, dispatchVars, mathVars>>

Init ==
  /\ doneFlags \in BOOLEAN
  /\ recvCount = [r \in Ranks |-> [e \in Experts |-> 0]]
  /\ recvFinal = [r \in Ranks |-> [e \in Experts |-> FALSE]]
  /\ arrivals = [r \in Ranks |-> [e \in Experts |-> 0]]
  /\ pool = [r \in Ranks |-> [e \in Experts |-> [s \in 0 .. PoolRows - 1 |-> Empty]]]
  /\ doneCount = [r \in Ranks |-> (NumRanks * FirstEpoch) % DoneMod]
  /\ epoch = [r \in Ranks |-> FirstEpoch]
  /\ ctaArrival = [r \in Ranks |-> 0]
  /\ nvSignals = [r \in Ranks |-> 0]
  /\ launch = [r \in Ranks |-> 0]
  /\ routing = [r \in Ranks |-> [i \in Rows |-> NoExpert]]
  /\ row = [r \in Ranks |-> [i \in Rows |-> Stored]]
  /\ pc = [r \in Ranks |-> [sm \in SMs |-> "exited"]]
  /\ toSignal = [r \in Ranks |-> {}]
  /\ target = [r \in Ranks |-> [sm \in SMs |-> 0]]
  /\ math = [r \in Ranks |-> [sm \in SMs |-> "done"]]
  /\ counts = [r \in Ranks |-> [sm \in SMs |-> [e \in Experts |-> 0]]]

-----------------------------------------------------------------------------
Goto(r, sm, where) == pc' = [pc EXCEPT ![r][sm] = where]

\* static_cast<int>(count) - target < 0
DoneBehind(count, goal) ==
  LET d == (count - goal) % DoneMod
  IN  2 * d >= DoneMod
DoneTarget(r) == (NumRanks * (epoch[r] + 1)) % DoneMod

\* The previous kernel on the stream is over.  Its combine warps are done when
\* every rank's math tasks are, which barrier #3 implies.
Idle(r) == \A sm \in SMs : pc[r][sm] = "exited" /\ math[r][sm] = "done"

Launch(r) ==
  /\ Idle(r)
  /\ launch[r] < MaxLaunches
  /\ launch' = [launch EXCEPT ![r] = @ + 1]
  /\ routing' \in { [routing EXCEPT ![r] = t] : t \in Routings }
  /\ row' = [row EXCEPT ![r] = [i \in Rows |->
               IF routing'[r][i] = NoExpert THEN Stored ELSE Todo]]
  /\ pc' = [pc EXCEPT ![r] = [sm \in SMs |-> "push"]]
  /\ math' = [math EXCEPT ![r] = [sm \in SMs |-> "start"]]
  /\ UNCHANGED <<doneFlags, poolVars, wordVars, toSignal, target, counts>>

\* Lane 0: atomic_add_sys on the destination expert's count.
TakeTicket(r, i) ==
  /\ row[r][i] = Todo
  /\ LET q == routing[r][i][1]
         e == routing[r][i][2]
     IN  /\ row' = [row EXCEPT ![r][i] = recvCount[q][e]]
         /\ recvCount' = [recvCount EXCEPT ![q][e] = @ + 1]
  /\ UNCHANGED <<recvFinal, arrivals, pool, wordVars, launchVars, pc, toSignal,
                 mathVars>>

\* The warp stores row, scales, weight and metadata at the ticket's slot.
StoreRow(r, i) ==
  /\ row[r][i] \in 0 .. PoolRows - 1   \* else the device assertion traps
  /\ LET q == routing[r][i][1]
         e == routing[r][i][2]
     IN  pool' = [pool EXCEPT ![q][e][row[r][i]] = <<launch[r], r, i>>]
  /\ row' = [row EXCEPT ![r][i] = Stored]
  /\ UNCHANGED <<recvCount, recvFinal, arrivals, wordVars, launchVars, pc,
                 toSignal, mathVars>>

\* The CTA's dispatch warps have issued all their rows.
CtaPushed(r, sm) == \A i \in Rows : i % NumSMs = sm => row[r][i] = Stored

\* Fault: the last CTA does not reset the ticket.
CtaArrive_NoReset(r, sm) ==
  /\ doneFlags
  /\ pc[r][sm] = "push"
  /\ CtaPushed(r, sm)
  /\ LET last == ctaArrival[r] = NumSMs - 1
     IN  /\ ctaArrival' = [ctaArrival EXCEPT ![r] = @ + 1]
         /\ toSignal' = [toSignal EXCEPT ![r] = IF last THEN Ranks ELSE @]
         /\ Goto(r, sm, IF last THEN "signal" ELSE "publish")
  /\ UNCHANGED <<poolVars, doneCount, epoch, nvSignals, launchVars, row, mathVars>>

\* CTA arrival ticket; the last CTA resets it and turns to the DONE signals.
\* One step suffices: every CTA has drawn its ticket, and draws the next one
\* in the next launch.
CtaArrive(r, sm) ==
  /\ doneFlags
  /\ pc[r][sm] = "push"
  /\ CtaPushed(r, sm)
  /\ LET last == ctaArrival[r] = NumSMs - 1
     IN  /\ ctaArrival' = [ctaArrival EXCEPT ![r] = IF last THEN 0 ELSE @ + 1]
         /\ toSignal' = [toSignal EXCEPT ![r] = IF last THEN Ranks ELSE @]
         /\ Goto(r, sm, IF last THEN "signal" ELSE "publish")
  /\ UNCHANGED <<poolVars, doneCount, epoch, nvSignals, launchVars, row, mathVars>>

\* One lane of the last CTA's warp 0 per destination, in any order.
SignalDone(r, sm, q) ==
  /\ pc[r][sm] = "signal"
  /\ q \in toSignal[r]
  /\ toSignal' = [toSignal EXCEPT ![r] = @ \ {q}]
  /\ doneCount' = [doneCount EXCEPT ![q] = (@ + 1) % DoneMod]
  /\ Goto(r, sm, IF toSignal[r] = {q} THEN "publish" ELSE "signal")
  /\ UNCHANGED <<poolVars, epoch, ctaArrival, nvSignals, launchVars, row, mathVars>>

\* Without DONE flags: NVLink barrier #1, prologue and epilogue.
EnterBarrier1(r, sm) ==
  /\ ~doneFlags
  /\ pc[r][sm] = "push"
  /\ CtaPushed(r, sm)
  /\ Goto(r, sm, "barrier1")
  /\ UNCHANGED <<poolVars, wordVars, launchVars, row, toSignal, mathVars>>

\* Each NVLink barrier opens with a grid sync (the prologue), after which CTA 0
\* signals the n-th barrier to every rank.
Entered(r, barrier) == \A sm \in SMs : pc[r][sm] \in {barrier, "exited"}
SendSignals(r, barrier, n) ==
  /\ nvSignals[r] = n - 1
  /\ pc[r][0] = barrier
  /\ Entered(r, barrier)
  /\ nvSignals' = [nvSignals EXCEPT ![r] = @ + 1]
  /\ UNCHANGED <<poolVars, doneCount, epoch, ctaArrival, launchVars,
                 dispatchVars, mathVars>>

BarriersPerLaunch == IF doneFlags THEN 1 ELSE 2
Barrier1(r) == BarriersPerLaunch * launch[r] - 1
Barrier3(r) == BarriersPerLaunch * launch[r]

SignalBarrier1(r) ==
  ~doneFlags /\ launch[r] > 0 /\ SendSignals(r, "barrier1", Barrier1(r))

LeaveBarrier1(r, sm) ==
  /\ pc[r][sm] = "barrier1"
  /\ \A q \in Ranks : nvSignals[q] >= Barrier1(r)
  /\ Goto(r, sm, "publish")
  /\ UNCHANGED <<poolVars, wordVars, launchVars, row, toSignal, mathVars>>

\* SM e's dispatch warp 0 finalises expert e's count and publishes its L1
\* arrival counts; with DONE flags it waits for all ranks' DONE first.
Publish(r, sm) ==
  /\ pc[r][sm] = "publish"
  /\ IF sm \in Experts
       THEN /\ doneFlags => ~DoneBehind(doneCount[r], DoneTarget(r))
            /\ recvFinal' = [recvFinal EXCEPT ![r][sm] = TRUE]
            /\ arrivals' = [arrivals EXCEPT ![r][sm] = @ + recvCount[r][sm]]
       ELSE UNCHANGED <<recvFinal, arrivals>>
  /\ Goto(r, sm, "join")
  /\ UNCHANGED <<recvCount, pool, wordVars, launchVars, row, toSignal, mathVars>>

-----------------------------------------------------------------------------
\* The task producer computes the DONE target once.
ReadTarget(r, sm) ==
  /\ math[r][sm] = "start"
  /\ math' = [math EXCEPT ![r][sm] = "poll"]
  /\ target' = [target EXCEPT ![r][sm] = DoneTarget(r)]
  /\ UNCHANGED <<poolVars, wordVars, launchVars, dispatchVars, counts>>

\* fetch_expert_recv_count: after DONE, or once all counts are final.
FetchCounts(r, sm) ==
  /\ math[r][sm] = "poll"
  /\ IF doneFlags THEN ~DoneBehind(doneCount[r], target[r][sm])
                  ELSE \A e \in Experts : recvFinal[r][e]
  /\ counts' = [counts EXCEPT ![r][sm] = recvCount[r]]
  /\ math' = [math EXCEPT ![r][sm] = "work"]
  /\ target' = [target EXCEPT ![r][sm] = 0]   \* dead from here on
  /\ UNCHANGED <<poolVars, wordVars, launchVars, dispatchVars>>

\* The CTA's last GEMM task ends; its math warps joined after the publisher.
FinishTasks(r, sm) ==
  /\ math[r][sm] = "work"
  /\ pc[r][sm] = "join"
  /\ math' = [math EXCEPT ![r][sm] = "done"]
  /\ counts' = [counts EXCEPT ![r][sm] = [e \in Experts |-> 0]]   \* dead from here on
  /\ UNCHANGED <<poolVars, wordVars, launchVars, dispatchVars, target>>

-----------------------------------------------------------------------------
\* The dispatch warps learn that the CTA's tasks are done and enter the grid
\* sync in front of the cleanup.
EnterGridSync(r, sm) ==
  /\ pc[r][sm] = "join"
  /\ math[r][sm] = "done"
  /\ Goto(r, sm, "grid")
  /\ UNCHANGED <<poolVars, wordVars, launchVars, row, toSignal, mathVars>>

GridPassed(r) == \A sm \in SMs : pc[r][sm] \in {"grid", "barrier3", "exited"}

\* cleanup_workspace: CTA 0 advances the epoch, the others share the experts.
OwnedExperts(sm) == { e \in Experts : e % (NumSMs - 1) = sm - 1 }

\* Fault: only the epoch is advanced.
Cleanup_EpochOnly(r, sm) ==
  /\ pc[r][sm] = "grid"
  /\ GridPassed(r)
  /\ epoch' = [epoch EXCEPT ![r] = IF sm = 0 /\ doneFlags THEN (@ + 1) % DoneMod ELSE @]
  /\ Goto(r, sm, "barrier3")
  /\ UNCHANGED <<poolVars, doneCount, ctaArrival, nvSignals, launchVars, row,
                 toSignal, mathVars>>
Cleanup(r, sm) ==
  /\ pc[r][sm] = "grid"
  /\ GridPassed(r)
  /\ IF sm = 0
       THEN /\ epoch' = [epoch EXCEPT ![r] = IF doneFlags THEN (@ + 1) % DoneMod ELSE @]
            /\ UNCHANGED <<recvCount, recvFinal, arrivals>>
       ELSE LET mine == OwnedExperts(sm)
            IN  /\ recvCount' = [recvCount EXCEPT ![r] =
                                   [e \in Experts |-> IF e \in mine THEN 0 ELSE @[e]]]
                /\ recvFinal' = [recvFinal EXCEPT ![r] =
                                   [e \in Experts |-> e \notin mine /\ @[e]]]
                /\ arrivals' = [arrivals EXCEPT ![r] =
                                   [e \in Experts |-> IF e \in mine THEN 0 ELSE @[e]]]
                /\ UNCHANGED epoch
  /\ Goto(r, sm, "barrier3")
  /\ UNCHANGED <<pool, doneCount, ctaArrival, nvSignals, launchVars, row,
                 toSignal, mathVars>>

SignalBarrier3(r) ==
  launch[r] > 0 /\ SendSignals(r, "barrier3", Barrier3(r))

\* Barrier #3 has no epilogue: after the grid sync only CTA 0 waits for the
\* other ranks.  Fault: it does not wait.
LeaveBarrier3_NoWait(r, sm) ==
  /\ pc[r][sm] = "barrier3"
  /\ Entered(r, "barrier3")
  /\ sm = 0 => nvSignals[r] >= Barrier3(r)
  /\ Goto(r, sm, "exited")
  /\ UNCHANGED <<poolVars, wordVars, launchVars, row, toSignal, mathVars>>
LeaveBarrier3(r, sm) ==
  /\ pc[r][sm] = "barrier3"
  /\ Entered(r, "barrier3")
  /\ sm = 0 => \A q \in Ranks : nvSignals[q] >= Barrier3(r)
  /\ Goto(r, sm, "exited")
  /\ UNCHANGED <<poolVars, wordVars, launchVars, row, toSignal, mathVars>>

Finished ==
  (\A r \in Ranks : launch[r] = MaxLaunches /\ Idle(r)) /\ UNCHANGED vars

RowStep(r, i) == TakeTicket(r, i) \/ StoreRow(r, i)
DispatchStep(r, sm) == \/ CtaArrive(r, sm)
                       \/ \E q \in Ranks : SignalDone(r, sm, q)
                       \/ EnterBarrier1(r, sm)
                       \/ LeaveBarrier1(r, sm)
                       \/ Publish(r, sm)
                       \/ EnterGridSync(r, sm)
                       \/ Cleanup(r, sm)
                       \/ LeaveBarrier3(r, sm)
MathStep(r, sm) == ReadTarget(r, sm) \/ FetchCounts(r, sm) \/ FinishTasks(r, sm)
RankStep(r) == \/ Launch(r)
               \/ SignalBarrier1(r)
               \/ SignalBarrier3(r)

Next == \/ \E r \in Ranks : RankStep(r)
        \/ \E r \in Ranks, i \in Rows : RowStep(r, i)
        \/ \E r \in Ranks, sm \in SMs : DispatchStep(r, sm) \/ MathStep(r, sm)
        \/ Finished

Spec == Init /\ [][Next]_vars

\* Every warp of a resident CTA keeps being scheduled; a host keeps launching.
FairSpec ==
  /\ Spec
  /\ \A r \in Ranks :
       /\ WF_vars(RankStep(r))
       /\ \A i \in Rows : WF_vars(RowStep(r, i))
       /\ \A sm \in SMs : WF_vars(DispatchStep(r, sm)) /\ WF_vars(MathStep(r, sm))
-----------------------------------------------------------------------------
\* The rows of this launch that the routers of all ranks send to an expert.
Routed(r, e) ==
  { <<launch[r], p[1], p[2]>> : p \in
      { x \in Ranks \X Rows : launch[x[1]] = launch[r]
                              /\ routing[x[1]][x[2]] = <<r, e>> } }

\* While a CTA works from the counts it fetched, the pool holds at exactly
\* those positions exactly the rows routed to this rank in this launch, by
\* ranks that are all in this launch: none late, none lost, none left over
\* from the previous launch or pushed ahead for the next one.
PoolMatchesCounts ==
  \A r \in Ranks, sm \in SMs : math[r][sm] = "work" =>
    /\ \A q \in Ranks : launch[q] = launch[r]
    /\ \A e \in Experts :
         /\ counts[r][sm][e] = Cardinality(Routed(r, e))
         /\ { pool[r][e][s] : s \in 0 .. counts[r][sm][e] - 1 } = Routed(r, e)

\* Between launches every word is back where the next launch needs it: counts
\* and arrivals at zero, the arrival ticket at zero, and the DONE count exactly
\* one launch (NumRanks signals) short of the next target.
CleanAtStart ==
  (\A q \in Ranks : Idle(q) /\ launch[q] = launch[0]) => \A r \in Ranks :
    /\ \A e \in Experts :
         recvCount[r][e] = 0 /\ ~recvFinal[r][e] /\ arrivals[r][e] = 0
    /\ ctaArrival[r] = 0
    /\ doneFlags => doneCount[r] = (NumRanks * epoch[r]) % DoneMod

\* Nobody is left waiting: every launch of every rank ends.
LaunchesComplete ==
  <>(\A r \in Ranks : launch[r] = MaxLaunches /\ Idle(r))
=============================================================================
