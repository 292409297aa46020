------------------------------ MODULE GridSync ------------------------------
(***************************************************************************)
(* fused_comm::grid_sync: the sense-reversing barrier of the CTAs of one   *)
(* GPU on a single 32-bit word.  CTA 0 adds FinishSumTag - (NumSMs - 1),   *)
(* every other CTA adds 1, so a full round adds exactly FinishSumTag and   *)
(* flips the top bit; a CTA spins until the top bit differs from the one   *)
(* its own atomic add returned.  The word is never reset: the next call,   *)
(* and the next launch, start from whatever the last one left.             *)
(* One CTA is one process: thread 0 does the atomics between two           *)
(* sync_scope() barriers of the CTA's threads.                             *)
(***************************************************************************)
EXTENDS Naturals

CONSTANTS NumSMs,        \* kNumSMs: CTAs that take part
          FinishSumTag,  \* kFinishSumTag: the top bit (0x80000000 in the code)
          MaxSyncs       \* bound: grid_sync calls of a CTA

TagFits ==
  /\ NumSMs \in Nat \ {0}
  /\ FinishSumTag \in Nat
  /\ NumSMs <= FinishSumTag
  /\ MaxSyncs \in Nat
ASSUME GridSyncAssumption == TagFits

SMs == 0 .. NumSMs - 1

VARIABLES count,     \* the shared word, modulo 2 * FinishSumTag
          oldValue,  \* what the CTA's atomic add returned
          pc,        \* "run" outside grid_sync, "spin" inside
          syncs      \* how many calls the CTA has returned from

vars == <<count, oldValue, pc, syncs>>

Tag(word) == word \div FinishSumTag

\* Faults for the mutation checks: CTA 0 adds one too many, so the tag flips
\* while a CTA is missing; CTA 0 leaves no room for itself.
Increment_OneTooMany(sm) == IF sm = 0 THEN FinishSumTag - (NumSMs - 2) ELSE 1
Increment_OneTooFew(sm) == IF sm = 0 THEN FinishSumTag - NumSMs ELSE 1

Increment(sm) == IF sm = 0 THEN FinishSumTag - (NumSMs - 1) ELSE 1

\* An earlier launch may have left the tag set, never a partial sum.
Init == /\ count \in {0, FinishSumTag}
        /\ oldValue = [sm \in SMs |-> 0]
        /\ pc = [sm \in SMs |-> "run"]
        /\ syncs = [sm \in SMs |-> 0]

\* Fault: the CTA polls with a stale old value.
Arrive_StaleOld(sm) == /\ pc[sm] = "run"
                       /\ syncs[sm] < MaxSyncs
                       /\ count' = (count + Increment(sm)) % (2 * FinishSumTag)
                       /\ pc' = [pc EXCEPT ![sm] = "spin"]
                       /\ UNCHANGED <<oldValue, syncs>>

\* sync_scope(); old_value = atomic_add_rel(count_ptr, ...)
Arrive(sm) == /\ pc[sm] = "run"
              /\ syncs[sm] < MaxSyncs
              /\ oldValue' = [oldValue EXCEPT ![sm] = count]
              /\ count' = (count + Increment(sm)) % (2 * FinishSumTag)
              /\ pc' = [pc EXCEPT ![sm] = "spin"]
              /\ UNCHANGED syncs

\* The poll that sees the flipped tag ends the spin; sync_scope()
Leave(sm) == /\ pc[sm] = "spin"
             /\ Tag(count) # Tag(oldValue[sm])
             /\ pc' = [pc EXCEPT ![sm] = "run"]
             /\ syncs' = [syncs EXCEPT ![sm] = @ + 1]
             /\ UNCHANGED <<count, oldValue>>

AllReturned == \A sm \in SMs : syncs[sm] = MaxSyncs

\* The kernel has no further grid_sync: nothing is left to do.
Finished == AllReturned /\ UNCHANGED vars

Next == (\E sm \in SMs : Arrive(sm) \/ Leave(sm)) \/ Finished

Spec == Init /\ [][Next]_vars

\* Every resident CTA keeps being scheduled (the grid is one wave of
\* co-resident CTAs), so neither an arrival nor a satisfied poll waits forever.
FairSpec == Spec /\ \A sm \in SMs : WF_vars(Arrive(sm)) /\ WF_vars(Leave(sm))

-----------------------------------------------------------------------------
arrivals == [sm \in SMs |-> syncs[sm] + (IF pc[sm] = "spin" THEN 1 ELSE 0)]

\* The grid sync word stays a 32-bit word: a tag bit and a count below it, for
\* however many calls, although nothing ever resets it.
TypeOK == /\ count \in 0 .. 2 * FinishSumTag - 1
          /\ oldValue \in [SMs -> 0 .. 2 * FinishSumTag - 1]
          /\ pc \in [SMs -> {"run", "spin"}]
          /\ syncs \in [SMs -> 0 .. MaxSyncs]

\* No CTA returns from its k-th grid_sync before every CTA has entered its
\* k-th: what every caller relies on when it reads what other CTAs wrote.
NoEarlyReturn == \A p, q \in SMs : syncs[p] <= arrivals[q]

\* Between two rounds the word holds the bare tag, so the partial sums of a
\* round cannot leak into the next call or the next launch.
WordReusable == (\A p, q \in SMs : arrivals[p] = arrivals[q])
                  => count \in {0, FinishSumTag}

\* grid_sync implements the abstract barrier over the CTAs.
GridBarrier == INSTANCE AbstractBarrier
                 WITH Parties <- SMs, MaxRounds <- MaxSyncs,
                      arrived <- arrivals, left <- syncs

ImplementsBarrier == GridBarrier!Spec
=============================================================================
