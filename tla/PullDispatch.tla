---------------------------- MODULE PullDispatch ----------------------------
(***************************************************************************)
(* Pull dispatch of the fused kernel, the default for larger batches.  The *)
(* CTAs of a rank count their rows per expert, stake out disjoint ranges   *)
(* of the per-expert order with an atomic add, and write the indices of    *)
(* their rows to the rank that owns the expert.  After a grid sync the     *)
(* counts are broadcast, NVLink barrier #1 follows, and every dispatch     *)
(* warp pulls the rows whose positions fall to it and adds 1 to the        *)
(* arrival count of their block of the pool.  The loaders of a block wait  *)
(* for that count to reach the block's rows.                               *)
(*                                                                         *)
(* The end of the launch is modelled for both combines: with FineCombine   *)
(* the dispatch warps clean up behind a grid sync of their own, without it *)
(* behind NVLink barrier #2 of the epilogue warps.  grid_sync and the      *)
(* NVLink barrier are used at the level of what they promise; the dispatch *)
(* warps of a CTA act as one, and a block is one task.                     *)
(***************************************************************************)
EXTENDS Integers, FiniteSets, FiniteSetsExt

CONSTANTS NumSMs,   \* kNumSMs
          BlockM,   \* BLOCK_M
          MaxRanks, \* bound of the setups
          Setups,   \* the kernels and workloads considered, each a record of
                    \*   ranks, experts: kNumRanks, kNumExpertsPerRank
                    \*   rows: routed (token, top-k slot) rows of a rank, at most
                    \*   routings: what the router may return, each
                    \*     row -> <<rank, expert>> or NoExpert
                    \*   lean, bcast, fine, single: kLeanRouting,
                    \*     kDistributedExpertBcast, kFineCombine,
                    \*     kSingleActiveDispatchWarp
                    \*   lanes: threads of a warp (32)
                    \*   launches: bound, launches of a rank
          Searches  \* the rows of each rank that the search below is asked about

-----------------------------------------------------------------------------
(***************************************************************************)
(* Which row a position of an expert's pool region is filled with.  No     *)
(* table of it exists: every warp computes it from the number of rows each *)
(* rank sends, taking one row of every rank that still has some, in the    *)
(* order of the ranks, round after round.  The code runs through the       *)
(* rounds in groups of equal length; PositionOf, the reference it is       *)
(* compared with, counts the rows in front of a given one.  `count` gives  *)
(* the rows of each rank.                                                  *)
(***************************************************************************)
Fewer(a, b) == IF a <= b THEN a ELSE b

\* The k-th smallest member of S, from 0 (ballot, popc and fns).
Nth(S, k) == CHOOSE q \in S : Cardinality({ p \in S : p < q }) = k

\* Fault: the ranks that have no more rows are still counted in the round.
SourceOf_AllRanks(count, position) ==
  LET ranks == Cardinality(DOMAIN count)
  IN  <<position % ranks, position \div ranks>>
\* A group of rounds, in which the same ranks take part: `left` rows remain with
\* each rank after `done` rounds, and the position is `slot` places further on.
Active(left) == { q \in DOMAIN left : left[q] > 0 }
Length(left) == Min({ left[q] : q \in Active(left) })
InGroup(g) == g.slot < Length(g.left) * Cardinality(Active(g.left))
NextGroup(g) ==
  LET length == Length(g.left)
  IN  [left |-> [q \in DOMAIN g.left |-> g.left[q] - Fewer(g.left[q], length)],
       done |-> g.done + length,
       slot |-> g.slot - length * Cardinality(Active(g.left))]

\* The pull loop: on to the group of the position.  A group uses up the rows of
\* a rank, so that there are no more groups than ranks.
SourceOf(count, position) ==
  LET Groups == [left : [DOMAIN count -> Nat], done : Nat, slot : Nat]
      next[g \in Groups] == IF InGroup(g) THEN g ELSE NextGroup(g)
      group[k \in 0 .. Cardinality(DOMAIN count)] ==
        IF k = 0 THEN [left |-> count, done |-> 0, slot |-> position]
                 ELSE next[group[k - 1]]
      row[g \in Groups] == LET n == Cardinality(Active(g.left))
                           IN  <<Nth(Active(g.left), g.slot % n), g.done + (g.slot \div n)>>
  IN  row[group[Cardinality(DOMAIN count)]]

\* counts[0] + ... + counts[n - 1]
SumTo(counts, n) ==
  LET sum[k \in 0 .. n] == IF k = 0 THEN 0 ELSE sum[k - 1] + counts[k - 1]
  IN  sum[n]

\* Row k of rank q comes after all rows of earlier rounds and the rows of this
\* round of the ranks before.
PositionOf(count, q, k) ==
  SumTo([p \in DOMAIN count |-> Fewer(count[p], k)], Cardinality(DOMAIN count))
    + Cardinality({ p \in DOMAIN count : p < q /\ count[p] > k })
-----------------------------------------------------------------------------
VARIABLES
  setup,     \* the element of Setups this behaviour is about
  sendCount, \* sendCount[r][x]: expert_send_count: [n, ctas], low and high word
  srcIndex,  \* srcIndex[r][e][q][k]: the indices rank q wrote for expert e of r
  recvCount, \* recvCount[r][e][q]: expert_recv_count
  recvSum,   \* recvSum[r][e]: expert_recv_count_sum: [n, ctas]
  arrivals,  \* arrivals[r][b]: l1_arrival_count
  pool,      \* pool[r][p]: <<launch, source rank, row>> or Empty
  claimed,   \* claimed[r]: the task counter
  nvSignals, \* nvSignals[r]: NVLink barriers whose signals r has sent
  launch,    \* launch[r]: launches started on r
  routing,   \* routing[r]: this launch's top-k result on r
  pc,        \* pc[r][sm]: where the dispatch warp of the CTA is
  todo,      \* todo[r][sm]: rows still to write, or experts still to broadcast
  slot,      \* slot[r][sm][x]: smem_expert_count
  seen,      \* seen[r][sm]: the counts the dispatch warp fetched
  token,     \* token[r][sm]: token_idx, the position it pulls
  math,      \* math[r][sm]: what the loaders and math warps of the CTA do
  known,     \* known[r][sm]: the counts its task producer fetched
  task,      \* task[r][sm]: the block they are at
  loaded     \* history: loaded[r]: blocks whose rows have been read

NumRanks == setup.ranks
NumExperts == setup.experts
NumRows == setup.rows
FineCombine == setup.fine

Ranks == 0 .. NumRanks - 1
SMs == 0 .. NumSMs - 1
Experts == 0 .. NumExperts - 1
AllExperts == Ranks \X Experts
Rows == 0 .. NumRows - 1
NoExpert == <<-1, -1>>
NoRow == -1
Empty == <<0, 0, 0>>
PoolRows == NumRanks * NumRows + NumExperts * BlockM
Blocks == 0 .. (PoolRows \div BlockM)

ASSUME PullAssumption ==
  /\ NumSMs \in Nat /\ NumSMs > 1   \* DG_STATIC_ASSERT(kNumSMs > 1)
  /\ BlockM \in Nat \ {0}
  /\ \A count \in Searches : /\ IsFiniteSet(DOMAIN count)
                              /\ count \in [0 .. Cardinality(DOMAIN count) - 1 -> Nat]
  /\ \A s \in Setups :
       LET experts == (0 .. s.ranks - 1) \X (0 .. s.experts - 1)
       IN  /\ s.ranks \in 1 .. MaxRanks
           /\ s.experts \in Nat \ {0} /\ s.rows \in Nat
           /\ s.routings \subseteq [0 .. s.rows - 1 -> experts \cup {NoExpert}]
           /\ {s.lean, s.bcast, s.fine, s.single} \subseteq BOOLEAN
           /\ s.lanes \in Nat \ {0}
           \* What the plans with one active warp rely on: see CleanupOffset.
           /\ s.single => s.ranks * s.rows <= BlockM * s.lanes
           /\ s.launches \in Nat

countVars == <<sendCount, srcIndex, recvCount, recvSum>>
poolVars == <<arrivals, pool>>
launchVars == <<setup, launch, routing>>
pullVars == <<slot, seen, token>>
mathVars == <<claimed, math, known, task, loaded>>
vars == <<countVars, poolVars, nvSignals, launchVars, pc, todo, pullVars, mathVars>>

Zero == [n |-> 0, ctas |-> 0]
NoCounts == [e \in Experts |-> 0]

Init ==
  /\ setup \in Setups
  /\ sendCount = [r \in Ranks |-> [x \in AllExperts |-> Zero]]
  /\ srcIndex = [r \in Ranks |->
       [e \in Experts |-> [q \in Ranks |-> [k \in Rows |-> NoRow]]]]
  /\ recvCount = [r \in Ranks |-> [e \in Experts |-> [q \in Ranks |-> 0]]]
  /\ recvSum = [r \in Ranks |-> [e \in Experts |-> Zero]]
  /\ arrivals = [r \in Ranks |-> [b \in Blocks |-> 0]]
  /\ pool = [r \in Ranks |-> [p \in 0 .. PoolRows - 1 |-> Empty]]
  /\ claimed = [r \in Ranks |-> 0]
  /\ nvSignals = [r \in Ranks |-> 0]
  /\ launch = [r \in Ranks |-> 0]
  /\ routing = [r \in Ranks |-> [i \in Rows |-> NoExpert]]
  /\ pc = [r \in Ranks |-> [sm \in SMs |-> "exited"]]
  /\ todo = [r \in Ranks |-> [sm \in SMs |-> {}]]
  /\ slot = [r \in Ranks |-> [sm \in SMs |-> [x \in AllExperts |-> 0]]]
  /\ seen = [r \in Ranks |-> [sm \in SMs |-> NoCounts]]
  /\ token = [r \in Ranks |-> [sm \in SMs |-> 0]]
  /\ math = [r \in Ranks |-> [sm \in SMs |-> "done"]]
  /\ known = [r \in Ranks |-> [sm \in SMs |-> NoCounts]]
  /\ task = [r \in Ranks |-> [sm \in SMs |-> 0]]
  /\ loaded = [r \in Ranks |-> {}]

-----------------------------------------------------------------------------
Goto(r, sm, where) == pc' = [pc EXCEPT ![r][sm] = where]

Idle(r) == \A sm \in SMs : pc[r][sm] = "exited" /\ math[r][sm] = "done"

\* The rows of CTA sm, and how many of them go to expert x.
RowsOf(r, sm) == { i \in Rows : i % NumSMs = sm /\ routing[r][i] # NoExpert }
CountOf(r, sm, x) == Cardinality({ i \in RowsOf(r, sm) : routing[r][i] = x })

\* The previous kernel on the stream is over.
Launch(r) ==
  /\ Idle(r)
  /\ launch[r] < setup.launches
  /\ launch' = [launch EXCEPT ![r] = @ + 1]
  /\ routing' \in { [routing EXCEPT ![r] = t] : t \in setup.routings }
  /\ pc' = [pc EXCEPT ![r] = [sm \in SMs |-> "stake"]]
  /\ math' = [math EXCEPT ![r] = [sm \in SMs |-> "start"]]
  /\ loaded' = [loaded EXCEPT ![r] = {}]
  /\ UNCHANGED <<setup, countVars, poolVars, nvSignals, todo, pullVars, claimed,
                 known, task>>

\* Fault: the old value of the count is not taken as the start of the range.
StakeOut_FromZero(r, sm) ==
  /\ pc[r][sm] = "stake"
  /\ sendCount' = [sendCount EXCEPT ![r] =
       [x \in AllExperts |->
          [n |-> @[x].n + CountOf(r, sm, x),
           ctas |-> IF setup.lean THEN 0 ELSE @[x].ctas + 1]]]
  /\ slot' = [slot EXCEPT ![r][sm] = [x \in AllExperts |-> 0]]
  /\ todo' = [todo EXCEPT ![r][sm] = RowsOf(r, sm)]
  /\ Goto(r, sm, "write")
  /\ UNCHANGED <<srcIndex, recvCount, recvSum, poolVars, nvSignals, launchVars,
                 seen, token, mathVars>>
\* Count the CTA's rows, and add the counts to the rank's; the old values are
\* where the CTA's ranges start.  (The additions to different experts are
\* separate atomics, which commute.)
StakeOut(r, sm) ==
  /\ pc[r][sm] = "stake"
  /\ sendCount' = [sendCount EXCEPT ![r] =
       [x \in AllExperts |->
          [n |-> @[x].n + CountOf(r, sm, x),
           ctas |-> IF setup.lean THEN 0 ELSE @[x].ctas + 1]]]
  /\ slot' = [slot EXCEPT ![r][sm] = [x \in AllExperts |-> sendCount[r][x].n]]
  /\ todo' = [todo EXCEPT ![r][sm] = RowsOf(r, sm)]
  /\ Goto(r, sm, "write")
  /\ UNCHANGED <<srcIndex, recvCount, recvSum, poolVars, nvSignals, launchVars,
                 seen, token, mathVars>>

\* The index of a row is written to the next slot of the CTA's range.
WriteIndex(r, sm, i) ==
  /\ pc[r][sm] = "write" /\ i \in todo[r][sm]
  /\ LET x == routing[r][i]
         s == slot[r][sm][x]
     IN  /\ srcIndex' = [srcIndex EXCEPT ![x[1]][x[2]][r][s] = i]
         /\ slot' = [slot EXCEPT ![r][sm][x] = @ + 1]
  /\ todo' = [todo EXCEPT ![r][sm] = @ \ {i}]
  /\ UNCHANGED <<sendCount, recvCount, recvSum, poolVars, nvSignals, launchVars,
                 pc, seen, token, mathVars>>

Written(r, sm) == pc[r][sm] # "stake" /\ (pc[r][sm] = "write" => todo[r][sm] = {})

\* Fault: the counts are broadcast before all CTAs have added theirs.
LeaveGridSync_NoWait(r, sm) ==
  /\ pc[r][sm] = "write" /\ todo[r][sm] = {}
  /\ slot' = [slot EXCEPT ![r][sm] = [x \in AllExperts |-> 0]]   \* dead from here on
  /\ todo' = [todo EXCEPT ![r][sm] =
       { x \in AllExperts : IF setup.bcast
                              THEN (x[1] * NumExperts + x[2]) % NumSMs = sm
                              ELSE sm = 0 }]
  /\ Goto(r, sm, "broadcast")
  /\ UNCHANGED <<countVars, poolVars, nvSignals, launchVars, seen, token,
                 mathVars>>
\* All CTAs have written their indices.  The broadcast is shared by all CTAs or
\* left to CTA 0.
LeaveGridSync(r, sm) ==
  /\ pc[r][sm] = "write" /\ todo[r][sm] = {}
  /\ \A o \in SMs : Written(r, o)
  /\ slot' = [slot EXCEPT ![r][sm] = [x \in AllExperts |-> 0]]   \* dead from here on
  /\ todo' = [todo EXCEPT ![r][sm] =
       { x \in AllExperts : IF setup.bcast
                              THEN (x[1] * NumExperts + x[2]) % NumSMs = sm
                              ELSE sm = 0 }]
  /\ Goto(r, sm, "broadcast")
  /\ UNCHANGED <<countVars, poolVars, nvSignals, launchVars, seen, token,
                 mathVars>>

\* broadcast_expert_status: the rank's count, and the addition to the sum with
\* the arrivals of its CTAs in the high word.
Broadcast(r, sm, x) ==
  /\ pc[r][sm] = "broadcast" /\ x \in todo[r][sm]
  /\ LET sent == sendCount[r][x]
     IN  /\ recvCount' = [recvCount EXCEPT ![x[1]][x[2]][r] = sent.n]
         /\ recvSum' = [recvSum EXCEPT ![x[1]][x[2]] =
              [n |-> @.n + sent.n,
               ctas |-> @.ctas + (IF setup.lean THEN NumSMs ELSE sent.ctas)]]
  /\ todo' = [todo EXCEPT ![r][sm] = @ \ {x}]
  /\ UNCHANGED <<sendCount, srcIndex, poolVars, nvSignals, launchVars, pc,
                 pullVars, mathVars>>
-----------------------------------------------------------------------------
BarriersPerLaunch == IF FineCombine THEN 2 ELSE 3
Barrier(r, k) == BarriersPerLaunch * (launch[r] - 1) + k
AllSignalled(n) == \A q \in Ranks : nvSignals[q] >= n

\* CTA 0 signals the n-th barrier to every rank, behind the prologue if any.
SendSignals(r, n) ==
  /\ nvSignals[r] = n - 1
  /\ nvSignals' = [nvSignals EXCEPT ![r] = @ + 1]
  /\ UNCHANGED <<countVars, poolVars, launchVars, pc, todo, pullVars, mathVars>>

Published(r, sm) == pc[r][sm] = "broadcast" /\ todo[r][sm] = {}

\* Barrier #1 has a prologue only if every CTA has something to publish.
Signal1(r) ==
  /\ launch[r] > 0
  /\ \A sm \in SMs : sm = 0 \/ setup.bcast => Published(r, sm)
  /\ SendSignals(r, Barrier(r, 1))

LeaveBarrier1(r, sm) ==
  /\ Published(r, sm)
  /\ AllSignalled(Barrier(r, 1))
  /\ Goto(r, sm, "fetch")
  /\ UNCHANGED <<countVars, poolVars, nvSignals, launchVars, todo, pullVars,
                 mathVars>>

\* fetch_expert_recv_count spins until the high words are complete.
Complete(r) == \A e \in Experts : recvSum[r][e].ctas = NumSMs * NumRanks
Counts(r) == [e \in Experts |-> recvSum[r][e].n]


\* Every dispatch warp takes the counts, whether or not it has rows to pull.
FetchCounts(r, sm) ==
  /\ pc[r][sm] = "fetch"
  /\ Complete(r)
  /\ seen' = [seen EXCEPT ![r][sm] = Counts(r)]
  /\ token' = [token EXCEPT ![r][sm] = sm]
  /\ Goto(r, sm, "pull")
  /\ UNCHANGED <<countVars, poolVars, nvSignals, launchVars, todo, slot,
                 mathVars>>

CeilDiv(a, b) == (a + b - 1) \div b
\* Rows of the experts before e, and where e's blocks of the pool start.
FirstToken(counts, e) == SumTo(counts, e)
FirstBlock(counts, e) == SumTo([f \in Experts |-> CeilDiv(counts[f], BlockM)], e)

\* The expert the position falls to, and the position within the expert.
Target(r, sm) ==
  LET e == CHOOSE f \in Experts : token[r][sm] \in
             FirstToken(seen[r][sm], f) .. FirstToken(seen[r][sm], f + 1) - 1
  IN  [expert |-> e, index |-> token[r][sm] - FirstToken(seen[r][sm], e)]
InRange(r, sm) == token[r][sm] < FirstToken(seen[r][sm], NumExperts)

\* Find the source of the row and copy it to the pool.  (Were the counts of the
\* ranks gone, the search would go round for ever.)
PullRow(r, sm) ==
  /\ pc[r][sm] = "pull" /\ InRange(r, sm)
  /\ Target(r, sm).index < SumTo(recvCount[r][Target(r, sm).expert], NumRanks)
  /\ LET t == Target(r, sm)
         src == SourceOf(recvCount[r][t.expert], t.index)
         q == src[1]
         i == srcIndex[r][t.expert][q][src[2]]
         p == FirstBlock(seen[r][sm], t.expert) * BlockM + t.index
     IN  pool' = [pool EXCEPT ![r][p] = <<launch[q], q, i>>]
  /\ Goto(r, sm, "arrive")
  /\ UNCHANGED <<countVars, arrivals, nvSignals, launchVars, todo, pullVars,
                 mathVars>>

\* The row has landed: count it, and go on with the next one.
CountArrival(r, sm) ==
  /\ pc[r][sm] = "arrive"
  /\ LET t == Target(r, sm)
         b == FirstBlock(seen[r][sm], t.expert) + t.index \div BlockM
     IN  arrivals' = [arrivals EXCEPT ![r][b] = @ + 1]
  /\ token' = [token EXCEPT ![r][sm] = @ + NumSMs]
  /\ Goto(r, sm, "pull")
  /\ UNCHANGED <<countVars, pool, nvSignals, launchVars, todo, slot, seen,
                 mathVars>>
-----------------------------------------------------------------------------
\* Fault: the counts are taken without looking at their high words.
StartTasks_NoPoll(r, sm) ==
  /\ math[r][sm] = "start"
  /\ known' = [known EXCEPT ![r][sm] = Counts(r)]
  /\ math' = [math EXCEPT ![r][sm] = "claim"]
  /\ UNCHANGED <<countVars, poolVars, nvSignals, launchVars, pc, todo, pullVars,
                 claimed, task, loaded>>
\* The task producer fetches the counts, at any time of the launch.
StartTasks(r, sm) ==
  /\ math[r][sm] = "start"
  /\ Complete(r)
  /\ known' = [known EXCEPT ![r][sm] = Counts(r)]
  /\ math' = [math EXCEPT ![r][sm] = "claim"]
  /\ UNCHANGED <<countVars, poolVars, nvSignals, launchVars, pc, todo, pullVars,
                 claimed, task, loaded>>

\* A block is claimed; after the last one the CTA's math warps, which joined
\* the dispatch warps after barrier #1, are done or enter NVLink barrier #2.
ClaimBlock(r, sm) ==
  /\ math[r][sm] = "claim"
  /\ IF claimed[r] < FirstBlock(known[r][sm], NumExperts)
       THEN /\ math' = [math EXCEPT ![r][sm] = "load"]
            /\ task' = [task EXCEPT ![r][sm] = claimed[r]]
            /\ UNCHANGED known
       ELSE /\ pc[r][sm] \in {"fetch", "pull", "arrive"}
            /\ math' = [math EXCEPT ![r][sm] = IF FineCombine THEN "done" ELSE "barrier2"]
            /\ task' = [task EXCEPT ![r][sm] = 0]
            /\ known' = [known EXCEPT ![r][sm] = NoCounts]   \* dead from here on
  /\ claimed' = [claimed EXCEPT ![r] = @ + 1]
  /\ UNCHANGED <<countVars, poolVars, nvSignals, launchVars, pc, todo,
                 pullVars, loaded>>

\* The rows of a block: valid_m.
ExpertOf(counts, b) ==
  CHOOSE e \in Experts : b \in FirstBlock(counts, e) .. FirstBlock(counts, e + 1) - 1
ValidM(counts, b) ==
  LET e == ExpertOf(counts, b)
  IN  Fewer(counts[e] - (b - FirstBlock(counts, e)) * BlockM, BlockM)

\* The loader of the block finds the arrival count complete and reads the rows.
LoadBlock(r, sm) ==
  /\ math[r][sm] = "load"
  /\ arrivals[r][task[r][sm]] = ValidM(known[r][sm], task[r][sm])
  /\ loaded' = [loaded EXCEPT ![r] = @ \cup {task[r][sm]}]
  /\ math' = [math EXCEPT ![r][sm] = "claim"]
  /\ UNCHANGED <<countVars, poolVars, nvSignals, launchVars, pc, todo,
                 pullVars, claimed, known, task>>

\* Barrier #2 has a prologue and an epilogue.
Signal2(r) ==
  /\ launch[r] > 0 /\ ~FineCombine
  /\ \A sm \in SMs : math[r][sm] = "barrier2"
  /\ SendSignals(r, Barrier(r, 2))

LeaveBarrier2(r, sm) ==
  /\ math[r][sm] = "barrier2"
  /\ AllSignalled(Barrier(r, 2))
  /\ math' = [math EXCEPT ![r][sm] = "done"]
  /\ UNCHANGED <<countVars, poolVars, nvSignals, launchVars, pc, todo, pullVars,
                 claimed, known, task, loaded>>
-----------------------------------------------------------------------------
\* The dispatch warps learn that the CTA's math warps are through, with
\* FineCombine from the mailbox, else from a barrier within the CTA.
Join(r, sm) ==
  /\ pc[r][sm] = "pull" /\ ~InRange(r, sm)
  /\ math[r][sm] = "done"
  /\ Goto(r, sm, IF FineCombine THEN "grid2" ELSE "cleanup")
  /\ UNCHANGED <<countVars, poolVars, nvSignals, launchVars, todo, pullVars,
                 mathVars>>

LeaveGridSync2(r, sm) ==
  /\ pc[r][sm] = "grid2"
  /\ \A o \in SMs : pc[r][o] \in {"grid2", "cleanup", "barrier3", "exited"}
  /\ Goto(r, sm, "cleanup")
  /\ UNCHANGED <<countVars, poolVars, nvSignals, launchVars, todo, pullVars,
                 mathVars>>

NumDispatchWarps == 2
\* Fault: the warp that clears the blocks has never fetched the counts.
CleanupOffset_Unfetched(r, sm, e, w) == FirstBlock(IF w > 0 THEN NoCounts ELSE seen[r][sm], e)
\* get_pool_block_offset of warp w: a warp that was not active in the pull loop
\* has not fetched the counts, and what it computes is 0.
CleanupOffset(r, sm, e, w) ==
  FirstBlock(IF setup.single /\ w > 0 THEN NoCounts ELSE seen[r][sm], e)

\* The threads of both warps share the blocks of an expert.
Cleared(r, sm, e) ==
  { CleanupOffset(r, sm, e, (j \div setup.lanes) % NumDispatchWarps) + j :
      j \in 0 .. CeilDiv(recvSum[r][e].n, BlockM) - 1 }

\* cleanup_workspace: CTA 0 zeroes the send counts and the task counter, the
\* others share the experts.
Cleanup(r, sm) ==
  /\ pc[r][sm] = "cleanup"
  /\ IF sm = 0
       THEN /\ sendCount' = [sendCount EXCEPT ![r] = [x \in AllExperts |-> Zero]]
            /\ claimed' = [claimed EXCEPT ![r] = 0]
            /\ UNCHANGED <<recvCount, recvSum, arrivals>>
       ELSE LET mine == { e \in Experts : e % (NumSMs - 1) = sm - 1 }
                blocks == UNION { Cleared(r, sm, e) : e \in mine }
            IN  /\ recvSum' = [recvSum EXCEPT ![r] =
                     [e \in Experts |-> IF e \in mine THEN Zero ELSE @[e]]]
                /\ recvCount' = [recvCount EXCEPT ![r] =
                     [e \in Experts |-> IF e \in mine THEN [q \in Ranks |-> 0] ELSE @[e]]]
                /\ arrivals' = [arrivals EXCEPT ![r] =
                     [b \in Blocks |-> IF b \in blocks THEN 0 ELSE @[b]]]
                /\ UNCHANGED <<sendCount, claimed>>
  /\ seen' = [seen EXCEPT ![r][sm] = NoCounts]   \* dead from here on
  /\ token' = [token EXCEPT ![r][sm] = 0]
  /\ Goto(r, sm, "barrier3")
  /\ UNCHANGED <<srcIndex, pool, nvSignals, launchVars, todo, slot, math,
                 known, task, loaded>>

\* Barrier #3 has a prologue and no epilogue: only CTA 0 waits for the others.
InBarrier3(r) == \A sm \in SMs : pc[r][sm] \in {"barrier3", "exited"}
Signal3(r) ==
  /\ launch[r] > 0
  /\ pc[r][0] = "barrier3" /\ InBarrier3(r)
  /\ SendSignals(r, Barrier(r, BarriersPerLaunch))

LeaveBarrier3(r, sm) ==
  /\ pc[r][sm] = "barrier3" /\ InBarrier3(r)
  /\ sm = 0 => AllSignalled(Barrier(r, BarriersPerLaunch))
  /\ Goto(r, sm, "exited")
  /\ UNCHANGED <<countVars, poolVars, nvSignals, launchVars, todo, pullVars,
                 mathVars>>

Finished ==
  (\A r \in Ranks : launch[r] = setup.launches /\ Idle(r)) /\ UNCHANGED vars

DispatchStep(r, sm) ==
  \/ StakeOut(r, sm)
  \/ \E i \in Rows : WriteIndex(r, sm, i)
  \/ LeaveGridSync(r, sm)
  \/ \E x \in AllExperts : Broadcast(r, sm, x)
  \/ LeaveBarrier1(r, sm)
  \/ FetchCounts(r, sm) \/ PullRow(r, sm) \/ CountArrival(r, sm)
  \/ Join(r, sm) \/ LeaveGridSync2(r, sm) \/ Cleanup(r, sm) \/ LeaveBarrier3(r, sm)
MathStep(r, sm) == \/ StartTasks(r, sm) \/ ClaimBlock(r, sm) \/ LoadBlock(r, sm)
                   \/ LeaveBarrier2(r, sm)
RankStep(r) == Launch(r) \/ Signal1(r) \/ Signal2(r) \/ Signal3(r)

Next == \/ \E r \in Ranks : RankStep(r)
        \/ \E r \in Ranks, sm \in SMs : DispatchStep(r, sm) \/ MathStep(r, sm)
        \/ Finished

Spec == Init /\ [][Next]_vars

\* Every warp of a resident CTA keeps being scheduled; a host keeps launching.
FairSpec ==
  /\ Spec
  /\ \A r \in 0 .. MaxRanks - 1 :
       /\ WF_vars(r \in Ranks /\ RankStep(r))
       /\ \A sm \in SMs : /\ WF_vars(r \in Ranks /\ DispatchStep(r, sm))
                          /\ WF_vars(r \in Ranks /\ MathStep(r, sm))
-----------------------------------------------------------------------------
\* The pull loop names, for every position of an expert's region and whatever
\* the ranks send, an existing row, and the very row that the position belongs
\* to: rows and positions correspond one to one.  No variable matters: it is
\* evaluated in the initial states only.
SourceRight ==
  (\A r \in Ranks : launch[r] = 0) =>
  \A count \in Searches :
    \A position \in 0 .. SumTo(count, Cardinality(DOMAIN count)) - 1 :
      LET src == SourceOf(count, position)
      IN  /\ src[1] \in DOMAIN count /\ src[2] \in 0 .. count[src[1]] - 1
          /\ PositionOf(count, src[1], src[2]) = position

\* The rows of this launch that the routers of all ranks send to an expert.
Routed(r, e) ==
  { <<launch[r], p[1], p[2]>> : p \in
      { x \in Ranks \X Rows : /\ launch[x[1]] = launch[r]
                              /\ routing[x[1]][x[2]] = <<r, e>> } }
TrueCounts(r) == [e \in Experts |-> Cardinality(Routed(r, e))]

\* A block that a loader has read holds, from then on until the launch is over,
\* rows of its own expert and of this launch, all of them there when it was
\* read, and no row lies in two places: the positions that the warps computed
\* independently of each other are a bijection.
BlocksHold ==
  \A r \in Ranks : (loaded[r] # {} /\ \E sm \in SMs : math[r][sm] # "done") =>
    LET counts == TrueCounts(r)
        places == { p \in 0 .. PoolRows - 1 :
                      \E b \in loaded[r] :
                        p \in b * BlockM .. b * BlockM + ValidM(counts, b) - 1 }
    IN  /\ \A p \in places : pool[r][p] \in Routed(r, ExpertOf(counts, p \div BlockM))
        /\ \A p, o \in places : pool[r][p] = pool[r][o] => p = o

\* The rows of a rank are all loaded by the time its math warps are through.
AllLoaded ==
  \A r \in Ranks : (/\ launch[r] > 0 /\ nvSignals[r] < Barrier(r, BarriersPerLaunch)
                    /\ \A sm \in SMs : math[r][sm] \in {"done", "barrier2"}) =>
    loaded[r] = 0 .. FirstBlock(TrueCounts(r), NumExperts) - 1

\* Nobody is left waiting: every launch of every rank ends.
LaunchesComplete ==
  <>(\A r \in Ranks : launch[r] = setup.launches /\ Idle(r))
=============================================================================
