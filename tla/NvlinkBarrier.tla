---------------------------- MODULE NvlinkBarrier ----------------------------
(***************************************************************************)
(* fused_comm::nvlink_barrier: the barrier of all CTAs of all ranks, used  *)
(* two or three times per launch of the fused MoE kernel.                  *)
(*                                                                         *)
(* Each rank has a launch counter word and two signal words that its peers *)
(* add to over NVLink.  CTA 0 of a rank takes phase and sign from the low  *)
(* two bits of its own counter, adds +1 or -1 to that phase's word of      *)
(* every rank (one thread per destination, in any order), bumps the        *)
(* counter, and spins until its own word reaches NumRanks or 0.  Around    *)
(* that sits an optional grid_sync of the rank's CTAs before (prologue)    *)
(* and after (epilogue); the fast epilogue replaces the latter by a word   *)
(* CTA 0 publishes and the others compare with a value they read when the  *)
(* kernel started.                                                         *)
(*                                                                         *)
(* grid_sync is used at the level of what it promises (GridSync.tla shows  *)
(* it): a CTA returns from its n-th call once all CTAs have made theirs.   *)
(***************************************************************************)
EXTENDS Integers, Sequences, FiniteSets

CONSTANTS NumRanks,    \* kNumRanks
          NumSMs,      \* kNumSMs: CTAs of a rank
          DoneMod,     \* the done-count word wraps here (2^32 in the code)
          MaxBarriers, \* bound: barriers of a rank
          Setups       \* the runs of the kernel considered, each a record of
                       \*   sites: the nvlink_barrier calls of one launch, in
                       \*     order, each [prologue, epilogue, fast : BOOLEAN]
                       \*   launches: bound, kernel launches of a rank
                       \*   before, done: what earlier launches left: the
                       \*     barriers they made, and the done word
                       \*   mayStall: ranks that may stop making progress
                       \*   timeouts: whether the 30 s timeout of the wait
                       \*     is modelled

Ranks == 0 .. NumRanks - 1
SMs == 0 .. NumSMs - 1

Call == [prologue : BOOLEAN, epilogue : BOOLEAN, fast : BOOLEAN]

ASSUME NvlinkAssumption ==
  /\ NumRanks \in Nat \ {0}
  /\ NumSMs \in Nat \ {0}
  /\ DoneMod \in Nat
  /\ MaxBarriers \in Nat
  /\ \A s \in Setups :
       /\ s.sites \in Seq(Call)
       /\ Len(s.sites) >= 1
       \* DG_DEVICE_ASSERT(!fast_epilogue || (sync_prologue && sync_epilogue))
       /\ \A i \in 1 .. Len(s.sites) :
            s.sites[i].fast => s.sites[i].prologue /\ s.sites[i].epilogue
       /\ DoneMod > 2 * Len(s.sites)
       /\ s.launches \in Nat /\ s.launches * Len(s.sites) <= MaxBarriers
       /\ s.before \in Nat /\ s.done \in 0 .. DoneMod - 1
       /\ s.mayStall \subseteq Ranks
       /\ s.timeouts \in BOOLEAN

VARIABLES
  setup,       \* the element of Setups this behaviour is about
  counter,     \* counter[r]: low two bits of the NVLink barrier counter
  signal,      \* signal[r][phase]: r's two signal words
  doneCount,   \* doneCount[r]: the fast epilogue's completion word
  doneBase,    \* doneBase[r][sm]: nvl_done_base, read at kernel start
  gridCalls,   \* gridCalls[r][sm]: grid_sync calls entered so far
  pc,          \* pc[r][sm]: where the CTA is
  site,        \* site[r][sm]: the barrier it is at or about to enter
  launch,      \* launch[r][sm]: the launch it runs or ran last
  sent,        \* sent[r][q]: signals thread q of r's CTA 0 has issued
  passed       \* passed[r]: barriers whose arrival r's CTA 0 has observed

ctaVars == <<setup, doneCount, doneBase, gridCalls, site, launch>>
vars == <<setup, counter, signal, doneCount, doneBase, gridCalls, pc, site,
          launch, sent, passed>>

Locations == {"exited",        \* no kernel running on this CTA slot
              "entry",         \* about to call nvlink_barrier
              "prologue",      \* inside the leading grid_sync
              "signal",        \* CTA 0: threads send the signals
              "wait",          \* CTA 0: spinning on its signal word
              "call_epilogue", \* CTA 0: about to enter the trailing grid_sync
              "epilogue",      \* inside the trailing grid_sync
              "done_word",     \* spinning on the fast epilogue's word
              "trapped"}       \* the timeout trap killed the rank's kernel

Sites == setup.sites
At(r, sm) == Sites[site[r][sm]]
Phase(status) == status % 2        \* signal_phase = status & 1
Negative(status) == status \div 2  \* signal_sign  = status >> 1
Step(status) == IF Negative(status) = 1 THEN -1 ELSE 1
\* Fault: the own signal is not counted in the target.
Target_PeersOnly(status) == IF Negative(status) = 1 THEN 0 ELSE NumRanks - 1
Target(status) == IF Negative(status) = 1 THEN 0 ELSE NumRanks

\* Fault: <= turned to < by one: the word of the previous barrier is enough.
Behind_OffByOne(done, base, ordinal) ==
  LET d == (done - base) % DoneMod
  IN  (IF 2 * d >= DoneMod THEN d - DoneMod ELSE d) < ordinal - 1
\* Fault: the two words compared without the wrapping subtraction.
Behind_NoWrap(done, base, ordinal) == done < base + ordinal

\* static_cast<int32_t>(done - base) < static_cast<int32_t>(ordinal)
Behind(done, base, ordinal) ==
  LET d == (done - base) % DoneMod
  IN  (IF 2 * d >= DoneMod THEN d - DoneMod ELSE d) < ordinal

\* After m signals of a rank, whether it counts in the word of the phase.
Counts(m, phase) == IF phase = 0 THEN m % 4 \in {1, 2} ELSE m % 4 \in {2, 3}

\* Nobody resets the words between launches: they are what the barriers of
\* earlier launches, of whatever kernels, left (0 in a new workspace).  sent
\* and passed count from here.
Init ==
  /\ setup \in Setups
  /\ counter = [r \in Ranks |-> setup.before % 4]
  /\ signal = [r \in Ranks |-> [p \in {0, 1} |->
                  IF Counts(setup.before, p) THEN NumRanks ELSE 0]]
  /\ doneCount = [r \in Ranks |-> setup.done]
  /\ doneBase = [r \in Ranks |-> [sm \in SMs |-> setup.done]]
  /\ gridCalls = [r \in Ranks |-> [sm \in SMs |-> 0]]
  /\ pc = [r \in Ranks |-> [sm \in SMs |-> "exited"]]
  /\ site = [r \in Ranks |-> [sm \in SMs |-> 1]]
  /\ launch = [r \in Ranks |-> [sm \in SMs |-> 0]]
  /\ sent = [r \in Ranks |-> [q \in Ranks |-> 0]]
  /\ passed = [r \in Ranks |-> 0]

-----------------------------------------------------------------------------
Goto(r, sm, where) == pc' = [pc EXCEPT ![r][sm] = where]

\* Leaving a barrier: on to the next call, or out of the kernel.
Return(r, sm) ==
  LET last == site[r][sm] = Len(Sites)
  IN  /\ Goto(r, sm, IF last THEN "exited" ELSE "entry")
      /\ site' = [site EXCEPT ![r][sm] = IF last THEN 1 ELSE @ + 1]

\* What follows the cross-rank part, for a CTA that owes no further wait.
AfterSignals(r, sm) ==
  IF At(r, sm).fast
    THEN /\ IF sm = 0 THEN Return(r, sm)
                      ELSE Goto(r, sm, "done_word") /\ UNCHANGED site
    ELSE IF At(r, sm).epilogue
           THEN Goto(r, sm, "call_epilogue") /\ UNCHANGED site
           ELSE Return(r, sm)

\* After the prologue CTA 0 turns to the signals, the others skip them.
AfterPrologue(r, sm) ==
  IF sm = 0 THEN Goto(r, sm, "signal") /\ UNCHANGED site
            ELSE AfterSignals(r, sm)

\* A kernel starts on the rank's stream after the previous one has ended on
\* every CTA; its CTAs come up one by one, each reading the done count.
Start(r, sm) ==
  /\ pc[r][sm] = "exited"
  /\ launch[r][sm] < setup.launches
  /\ \A other \in SMs :
       \/ launch[r][other] = launch[r][sm] + 1
       \/ launch[r][other] = launch[r][sm] /\ pc[r][other] = "exited"
  /\ launch' = [launch EXCEPT ![r][sm] = @ + 1]
  /\ doneBase' = [doneBase EXCEPT ![r][sm] = doneCount[r]]
  /\ Goto(r, sm, "entry")
  /\ UNCHANGED <<setup, counter, signal, doneCount, gridCalls, site, sent,
                 passed>>

\* The leading grid_sync is entered, or skipped when the call has none.
Enter(r, sm) ==
  /\ pc[r][sm] = "entry"
  /\ IF At(r, sm).prologue
       THEN /\ gridCalls' = [gridCalls EXCEPT ![r][sm] = @ + 1]
            /\ Goto(r, sm, "prologue") /\ UNCHANGED site
       ELSE AfterPrologue(r, sm) /\ UNCHANGED gridCalls
  /\ UNCHANGED <<setup, counter, signal, doneCount, doneBase, launch, sent,
                 passed>>

GridComplete(r, sm) ==
  \A other \in SMs : gridCalls[r][sm] <= gridCalls[r][other]

LeavePrologue(r, sm) ==
  /\ pc[r][sm] = "prologue"
  /\ GridComplete(r, sm)
  /\ AfterPrologue(r, sm)
  /\ UNCHANGED <<setup, counter, signal, doneCount, doneBase, gridCalls,
                 launch,
                 sent, passed>>

\* Thread q of CTA 0: red_add_rel_sys on rank q's word of the current phase.
Signal(r, q) ==
  /\ pc[r][0] = "signal"
  /\ sent[r][q] = passed[r]
  /\ signal' = [signal EXCEPT ![q][Phase(counter[r])] = @ + Step(counter[r])]
  /\ sent' = [sent EXCEPT ![r][q] = @ + 1]
  /\ UNCHANGED <<counter, pc, passed, ctaVars>>

\* sync_scope(), then thread 0: red_add(counter_ptr, 1).
UpdateStatus(r) ==
  /\ pc[r][0] = "signal"
  /\ \A q \in Ranks : sent[r][q] = passed[r] + 1
  /\ counter' = [counter EXCEPT ![r] = (@ + 1) % 4]
  /\ Goto(r, 0, "wait")
  /\ UNCHANGED <<signal, sent, passed, ctaVars>>

\* The status CTA 0 read before it bumped the counter.
Status(r) == (counter[r] + 3) % 4

Arrived(r) == signal[r][Phase(Status(r))] = Target(Status(r))

\* The poll that sees the target; with the fast epilogue the same thread
\* then publishes done_base + done_ordinal.
Observe(r) ==
  /\ pc[r][0] = "wait"
  /\ Arrived(r)
  /\ passed' = [passed EXCEPT ![r] = @ + 1]
  /\ IF At(r, 0).fast
       THEN doneCount' = [doneCount EXCEPT ![r] =
                            (doneBase[r][0] + site[r][0]) % DoneMod]
       ELSE UNCHANGED doneCount
  /\ AfterSignals(r, 0)
  /\ UNCHANGED <<setup, counter, signal, doneBase, gridCalls, launch, sent>>

\* Fault: the wait of CTA 0 never gives up.
Timeout_Never(r) == FALSE /\ UNCHANGED vars
\* "NVLink barrier timeout": the device assertion ends the rank's kernel.
Timeout(r) ==
  /\ setup.timeouts
  /\ pc[r][0] = "wait"
  /\ ~Arrived(r)
  /\ pc' = [pc EXCEPT ![r] = [sm \in SMs |-> IF pc[r][sm] = "exited"
                                             THEN "exited" ELSE "trapped"]]
  /\ UNCHANGED <<counter, signal, sent, passed, ctaVars>>

SeeDone(r, sm) ==
  /\ pc[r][sm] = "done_word"
  /\ ~Behind(doneCount[r], doneBase[r][sm], site[r][sm])
  /\ Return(r, sm)
  /\ UNCHANGED <<setup, counter, signal, doneCount, doneBase, gridCalls,
                 launch,
                 sent, passed>>

EnterEpilogue(r, sm) ==
  /\ pc[r][sm] = "call_epilogue"
  /\ gridCalls' = [gridCalls EXCEPT ![r][sm] = @ + 1]
  /\ Goto(r, sm, "epilogue")
  /\ UNCHANGED <<setup, counter, signal, doneCount, doneBase, site, launch,
                 sent,
                 passed>>

LeaveEpilogue(r, sm) ==
  /\ pc[r][sm] = "epilogue"
  /\ GridComplete(r, sm)
  /\ Return(r, sm)
  /\ UNCHANGED <<setup, counter, signal, doneCount, doneBase, gridCalls,
                 launch,
                 sent, passed>>

Trapped(r) == pc[r][0] = "trapped"

AllDone(r) ==
  \A sm \in SMs : launch[r][sm] = setup.launches /\ pc[r][sm] = "exited"

Finished == (\A r \in Ranks : AllDone(r) \/ Trapped(r)) /\ UNCHANGED vars

CtaStep(r, sm) == \/ Start(r, sm)
                  \/ Enter(r, sm)
                  \/ LeavePrologue(r, sm)
                  \/ SeeDone(r, sm)
                  \/ EnterEpilogue(r, sm)
                  \/ LeaveEpilogue(r, sm)

LeaderStep(r) == \/ \E q \in Ranks : Signal(r, q)
                 \/ UpdateStatus(r)
                 \/ Observe(r)
                 \/ Timeout(r)

Next == \/ \E r \in Ranks, sm \in SMs : CtaStep(r, sm)
        \/ \E r \in Ranks : LeaderStep(r)
        \/ Finished

Spec == Init /\ [][Next]_vars

\* CTAs of a launch are co-resident and keep being scheduled, except on the
\* ranks assumed to stall.
Healthy(r) == r \notin setup.mayStall

FairSpec == /\ Spec
            /\ \A r \in Ranks :
                 /\ \A sm \in SMs : WF_vars(Healthy(r) /\ CtaStep(r, sm))
                 /\ WF_vars(Healthy(r) /\ LeaderStep(r))
-----------------------------------------------------------------------------
\* Barriers the CTA has returned from, and those it has entered.
returned(r, sm) ==
  IF launch[r][sm] = 0 THEN 0
  ELSE IF pc[r][sm] = "exited" THEN launch[r][sm] * Len(Sites)
  ELSE (launch[r][sm] - 1) * Len(Sites) + site[r][sm] - 1
entered(r, sm) ==
  returned(r, sm) + (IF pc[r][sm] \in {"exited", "entry"} THEN 0 ELSE 1)

\* A call that returned waited for everybody: CTA 0 always does, the other
\* CTAs when the call has an epilogue; and for all CTAs of the peers when
\* the call has a prologue, for the peers' CTA 0 otherwise.
NoEarlyReturn ==
  \A r, q \in Ranks, sm, other \in SMs :
    LET k == returned(r, sm)
        s == Sites[((k - 1) % Len(Sites)) + 1]
    IN  (k > 0 /\ (sm = 0 \/ s.epilogue) /\ (other = 0 \/ s.prologue))
          => entered(q, other) >= k

\* Barriers whose signals the rank has begun to send.
arrivals == [r \in Ranks |-> IF \E q \in Ranks : sent[r][q] > passed[r]
                              THEN passed[r] + 1 ELSE passed[r]]

\* The CTA 0s of the ranks synchronise like one abstract barrier.
CrossRank == INSTANCE AbstractBarrier
               WITH Parties <- Ranks,
                    MaxRounds <- MaxBarriers,
                    arrived <- arrivals,
                    left <- passed

ImplementsBarrier == CrossRank!Safe

\* Without stalls or timeouts every launch on every rank runs to its end.  A
\* rank that stalls does not leave a healthy rank spinning for ever, though only
\* CTA 0's wait has a timeout: that trap ends the whole kernel.
RanksEnd ==
  \A r \in Ranks : <>(AllDone(r) \/ Trapped(r) \/ ~Healthy(r))
=============================================================================
