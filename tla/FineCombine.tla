---------------------------- MODULE FineCombine ----------------------------
(***************************************************************************)
(* The end of a launch with the fine-grained combine (kFineCombine): how   *)
(* the L2 tasks tell the source ranks of their rows that an output slice   *)
(* has arrived, how the epilogue warps of every CTA share out the tokens   *)
(* to reduce, and how the words involved are made ready for the next       *)
(* launch.                                                                 *)
(*                                                                         *)
(* Thread 0 of the epilogue warps posts each finished L2 task, and last a  *)
(* DONE entry, to the CTA's mailbox ring.  The CTA's dispatch warp 0, the  *)
(* signaller, turns an entry into one addition per row to the counter of   *)
(* the row's source token.  Each epilogue warp draws tokens from the       *)
(* ticket word of this launch's parity and reduces a token once its        *)
(* counter has reached the number of its slices.  After DONE and a grid    *)
(* sync of the dispatch warps SM 0 prepares the ticket word and the parity *)
(* of the next launch.                                                     *)
(*                                                                         *)
(* Which CTA executes which task is drawn at the launch.  A CTA's tasks    *)
(* contain CTA-wide barriers of the epilogue warps; a CTA without a task   *)
(* passes none.  GEMM work, and reduction of a token, are one step each.   *)
(***************************************************************************)
EXTENDS Integers, FiniteSets

CONSTANTS NumSMs,      \* kNumSMs
          RingSize,    \* kSM90FineCombineRingSize
          SeqMod,      \* the mailbox sequence words wrap here (2^32)
          FirstSeq,    \* mailbox sequence reached when the model starts
          Tasks,       \* the L2 tasks of a launch
          MaxLaunches, \* bound: launches of a rank
          MaxRanks, MaxWarps,  \* bounds of the setups
          Setups       \* the workloads considered, each a record of
                       \*   ranks, warps: kNumRanks, kNumEpilogueWarps
                       \*   tokens: num_tokens of a rank
                       \*   rowsOf: task -> its rows, {<<source rank, token>>}
                       \*   placements: the schedules of a launch, each
                       \*     task -> <<rank, CTA>> executing it

VARIABLES
  setup,     \* the element of Setups this behaviour is about
  arrival,   \* arrival[r][t]: combine arrival counter of token t
  ticket,    \* ticket[r][p]: the ticket word of parity p
  epoch,     \* epoch[r]: combine epoch, of which only the parity is used
  produced,  \* produced[r][c]: mailbox word 0
  consumed,  \* consumed[r][c]: mailbox word 1
  ring,      \* ring[r][c][i]: entry slots of the mailbox
  launch,    \* launch[r]: launches started
  todo,      \* todo[r][c]: tasks the CTA has yet to execute in this launch
  posting,   \* posting[r][c]: executed, not yet posted: a task, Done or "none"
  sig,       \* sig[r][c]: the signaller: "poll", "rows", "grid", "barrier3", "exited"
  rows,      \* rows[r][c]: rows of the entry it still has to signal
  warp,      \* warp[r][c][w]: "start", "math", "peek", "claim", "wait", "exited"
  parity,    \* parity[r][c][w]: the warp's combine_ticket_parity
  token,     \* token[r][c][w]: the warp's token_idx
  landed,    \* history: (task, row) slices stored at their source this launch
  reduced    \* history: reduced[r][t]: times token t was reduced this launch

NumRanks == setup.ranks
NumTokens == setup.tokens
RowsOf == setup.rowsOf

Ranks == 0 .. NumRanks - 1
SMs == 0 .. NumSMs - 1
Warps == 0 .. setup.warps - 1
Tokens == 0 .. NumTokens - 1
Done == "done"   \* kSM90FineCombineDoneEntry

ASSUME CombineAssumption ==
  /\ NumSMs \in Nat \ {0, 1}
  \* `consumed & (RingSize - 1)` indexes the ring across the wrap
  /\ RingSize \in Nat \ {0} /\ SeqMod \in Nat /\ SeqMod % RingSize = 0
  /\ SeqMod > RingSize
  /\ FirstSeq \in 0 .. SeqMod - 1
  /\ IsFiniteSet(Tasks) /\ Done \notin Tasks /\ "none" \notin Tasks
  /\ MaxLaunches \in Nat
  /\ \A s \in Setups :
       LET ranks == 0 .. s.ranks - 1
       IN  /\ s.ranks \in 1 .. MaxRanks
           /\ s.warps \in 1 .. MaxWarps
           /\ s.tokens \in Nat
           /\ s.rowsOf \in [Tasks ->   \* valid_m > 0
                (SUBSET (ranks \X (0 .. s.tokens - 1))) \ {{}}]
           /\ s.placements \in (SUBSET [Tasks -> ranks \X SMs]) \ {{}}
           \* the rank that owns the task's expert executes it
           /\ \A p, q \in s.placements, k \in Tasks : p[k][1] = q[k][1]

wordVars == <<arrival, ticket, epoch>>
boxVars == <<produced, consumed, ring>>
sigVars == <<sig, rows>>
warpVars == <<warp, parity, token>>
historyVars == <<landed, reduced>>
vars == <<setup, wordVars, boxVars, launch, todo, posting, sigVars, warpVars,
          historyVars>>

PerCta(x) == [r \in Ranks |-> [c \in SMs |-> x]]
PerWarp(x) == PerCta([w \in Warps |-> x])
PerToken(x) == [r \in Ranks |-> [t \in Tokens |-> x]]

\* The other parity's ticket word is as an earlier launch left it.
Init ==
  /\ setup \in Setups
  /\ arrival = PerToken(0)
  /\ ticket = [r \in Ranks |-> [p \in {0, 1} |-> IF p = 0 THEN 0 ELSE NumTokens]]
  /\ epoch = [r \in Ranks |-> 0]
  /\ produced = PerCta(FirstSeq)
  /\ consumed = PerCta(FirstSeq)
  /\ ring = PerCta([i \in 0 .. RingSize - 1 |-> Done])
  /\ launch = [r \in Ranks |-> 0]
  /\ todo = PerCta({})
  /\ posting = PerCta("none")
  /\ sig = PerCta("exited")
  /\ rows = PerCta({})
  /\ warp = PerWarp("exited")
  /\ parity = PerWarp(0)
  /\ token = PerWarp(0)
  /\ landed = [r \in Ranks |-> {}]
  /\ reduced = PerToken(1)

-----------------------------------------------------------------------------
Idle(r) == \A c \in SMs : /\ sig[r][c] = "exited"
                           /\ \A w \in Warps : warp[r][c][w] = "exited"

Launch(r) ==
  /\ Idle(r)
  /\ launch[r] < MaxLaunches
  /\ launch' = [launch EXCEPT ![r] = @ + 1]
  /\ \E place \in setup.placements :
       todo' = [todo EXCEPT ![r] =
                  [c \in SMs |-> {k \in Tasks : place[k] = <<r, c>>}]]
  /\ sig' = [sig EXCEPT ![r] = [c \in SMs |-> "poll"]]
  /\ warp' = [warp EXCEPT ![r] = [c \in SMs |-> [w \in Warps |-> "start"]]]
  /\ landed' = [landed EXCEPT ![r] = {}]
  /\ reduced' = [reduced EXCEPT ![r] = [t \in Tokens |-> 0]]
  /\ UNCHANGED <<setup, wordVars, boxVars, posting, rows, parity, token>>

\* A warp reads the epoch at the start of its role.
ReadEpoch(r, c, w) ==
  /\ warp[r][c][w] = "start"
  /\ parity' = [parity EXCEPT ![r][c][w] = epoch[r]]
  /\ warp' = [warp EXCEPT ![r][c][w] = "math"]
  /\ UNCHANGED <<wordVars, boxVars, setup, launch, todo, posting, sigVars, token,
                 historyVars>>

\* Fault: a task does not hold up the CTA's other epilogue warps.
RunTask_OneWarp(r, c) ==
  /\ warp[r][c][0] = "math"
  /\ posting[r][c] = "none"
  /\ \A q \in Ranks : launch[q] >= launch[r]
  /\ \E k \in todo[r][c] :
       /\ todo' = [todo EXCEPT ![r][c] = @ \ {k}]
       /\ posting' = [posting EXCEPT ![r][c] = k]
       /\ landed' = [q \in Ranks |->
                       landed[q] \cup {<<k, row>> : row \in {x \in RowsOf[k] : x[1] = q}}]
  /\ UNCHANGED <<wordVars, boxVars, setup, launch, sigVars, warpVars, reduced>>
\* The epilogue warps execute an L2 task and store its output rows at their
\* source ranks.  Its inputs exist: every rank has entered this launch.
RunTask(r, c) ==
  /\ \A w \in Warps : warp[r][c][w] = "math"
  /\ posting[r][c] = "none"
  /\ \A q \in Ranks : launch[q] >= launch[r]
  /\ \E k \in todo[r][c] :
       /\ todo' = [todo EXCEPT ![r][c] = @ \ {k}]
       /\ posting' = [posting EXCEPT ![r][c] = k]
       /\ landed' = [q \in Ranks |->
                       landed[q] \cup {<<k, row>> : row \in {x \in RowsOf[k] : x[1] = q}}]
  /\ UNCHANGED <<wordVars, boxVars, setup, launch, sigVars, warpVars, reduced>>

\* signal_combine_arrivals, and the DONE entry: thread 0 waits for a free
\* slot, fills it and advances the sequence.  Fault: it takes a slot too many.
RoomInRing_OneMore(r, c) == (produced[r][c] - consumed[r][c]) % SeqMod <= RingSize
RoomInRing(r, c) == (produced[r][c] - consumed[r][c]) % SeqMod < RingSize

Post(r, c, entry) ==
  /\ RoomInRing(r, c)
  /\ ring' = [ring EXCEPT ![r][c][produced[r][c] % RingSize] = entry]
  /\ produced' = [produced EXCEPT ![r][c] = (@ + 1) % SeqMod]
  /\ UNCHANGED consumed

PostTask(r, c) ==
  /\ posting[r][c] \in Tasks
  /\ Post(r, c, posting[r][c])
  /\ posting' = [posting EXCEPT ![r][c] = "none"]
  /\ UNCHANGED <<wordVars, setup, launch, todo, sigVars, warpVars, historyVars>>

\* A warp leaves the task loop when the CTA has no task left; warp 0, which
\* posts the CTA's tasks, posts DONE before it goes on.
LeaveTaskLoop(r, c, w) ==
  /\ warp[r][c][w] = "math"
  /\ todo[r][c] = {}
  /\ IF w = 0 THEN posting[r][c] = "none" /\ Post(r, c, Done)
              ELSE UNCHANGED boxVars
  /\ warp' = [warp EXCEPT ![r][c][w] = "peek"]
  /\ UNCHANGED <<wordVars, setup, launch, todo, posting, sigVars, parity, token,
                 historyVars>>

-----------------------------------------------------------------------------
\* The signaller takes the next entry; DONE ends its loop.
TakeEntry(r, c) ==
  /\ sig[r][c] = "poll"
  /\ produced[r][c] # consumed[r][c]
  /\ LET entry == ring[r][c][consumed[r][c] % RingSize]
     IN  IF entry = Done
           THEN /\ sig' = [sig EXCEPT ![r][c] = "grid"]
                /\ consumed' = [consumed EXCEPT ![r][c] = (@ + 1) % SeqMod]
                /\ UNCHANGED rows
           ELSE /\ sig' = [sig EXCEPT ![r][c] = "rows"]
                /\ rows' = [rows EXCEPT ![r][c] = RowsOf[entry]]
                /\ UNCHANGED consumed
  /\ UNCHANGED <<wordVars, produced, ring, setup, launch, todo, posting, warpVars,
                 historyVars>>

\* One lane per row: add 1 to the source token's counter.
SignalRow(r, c) ==
  /\ sig[r][c] = "rows"
  /\ \E row \in rows[r][c] :
       /\ arrival' = [arrival EXCEPT ![row[1]][row[2]] = @ + 1]
       /\ rows' = [rows EXCEPT ![r][c] = @ \ {row}]
  /\ UNCHANGED <<ticket, epoch, boxVars, setup, launch, todo, posting, sig, warpVars,
                 historyVars>>

\* All lanes done: the slot is given back.
EndEntry(r, c) ==
  /\ sig[r][c] = "rows"
  /\ rows[r][c] = {}
  /\ consumed' = [consumed EXCEPT ![r][c] = (@ + 1) % SeqMod]
  /\ sig' = [sig EXCEPT ![r][c] = "poll"]
  /\ UNCHANGED <<wordVars, produced, ring, setup, launch, todo, posting, rows, warpVars,
                 historyVars>>

\* cleanup_workspace after the dispatch grid sync: SM 0 zeroes the next
\* launch's ticket word and bumps the epoch.
\* One step suffices: nobody uses that ticket word between the two stores,
\* for an epoch read there still selects the other word.
\* Fault: it zeroes the word of the launch that is still running.
Cleanup_OwnTicket(r, c) ==
  /\ sig[r][c] = "grid"
  /\ \A d \in SMs : sig[r][d] \in {"grid", "barrier3", "exited"}
  /\ IF c = 0
       THEN /\ ticket' = [ticket EXCEPT ![r][epoch[r]] = 0]
            /\ epoch' = [epoch EXCEPT ![r] = 1 - @]
       ELSE UNCHANGED <<ticket, epoch>>
  /\ sig' = [sig EXCEPT ![r][c] = "barrier3"]
  /\ UNCHANGED <<arrival, boxVars, setup, launch, todo, posting, rows, warpVars,
                 historyVars>>
Cleanup(r, c) ==
  /\ sig[r][c] = "grid"
  /\ \A d \in SMs : sig[r][d] \in {"grid", "barrier3", "exited"}
  /\ IF c = 0
       THEN /\ ticket' = [ticket EXCEPT ![r][1 - epoch[r]] = 0]
            /\ epoch' = [epoch EXCEPT ![r] = 1 - @]
       ELSE UNCHANGED <<ticket, epoch>>
  /\ sig' = [sig EXCEPT ![r][c] = "barrier3"]
  /\ UNCHANGED <<arrival, boxVars, setup, launch, todo, posting, rows, warpVars,
                 historyVars>>

\* NVLink barrier #3: a grid sync, then CTA 0 meets the other ranks' CTA 0.
InBarrier3(r) == \A d \in SMs : sig[r][d] \in {"barrier3", "exited"}
Signalled3(q, n) == launch[q] > n \/ (launch[q] = n /\ InBarrier3(q))
LeaveBarrier3(r, c) ==
  /\ sig[r][c] = "barrier3"
  /\ InBarrier3(r)
  /\ c = 0 => \A q \in Ranks : Signalled3(q, launch[r])
  /\ sig' = [sig EXCEPT ![r][c] = "exited"]
  /\ UNCHANGED <<wordVars, boxVars, setup, launch, todo, posting, rows, warpVars,
                 historyVars>>

-----------------------------------------------------------------------------
\* next_combine_token: a plain look at the ticket word, then the claim.
Peek(r, c, w) ==
  /\ warp[r][c][w] = "peek"
  /\ warp' = [warp EXCEPT ![r][c][w] =
                IF ticket[r][parity[r][c][w]] < NumTokens THEN "claim" ELSE "exited"]
  /\ UNCHANGED <<wordVars, boxVars, setup, launch, todo, posting, sigVars, parity, token,
                 historyVars>>

Claim(r, c, w) ==
  /\ warp[r][c][w] = "claim"
  /\ LET p == parity[r][c][w]
     IN  /\ ticket' = [ticket EXCEPT ![r][p] = @ + 1]
         /\ IF ticket[r][p] < NumTokens
              THEN /\ token' = [token EXCEPT ![r][c][w] = ticket[r][p]]
                   /\ warp' = [warp EXCEPT ![r][c][w] = "wait"]
              ELSE /\ warp' = [warp EXCEPT ![r][c][w] = "exited"]
                   /\ UNCHANGED token
  /\ UNCHANGED <<arrival, epoch, boxVars, setup, launch, todo, posting, sigVars, parity,
                 historyVars>>

\* popc(valid top-k slots) * kNumRoutedL2BlockNs: the slices of a token.
Slices(r, t) == {k \in Tasks : <<r, t>> \in RowsOf[k]}

\* The counter has reached the token's slices: reset it and reduce.  One step
\* suffices: all of this launch's signals are in, and the next launch's wait for
\* this rank to end its own.  The word is the token's, read by this warp alone.
\* Fault: one slice fewer is waited for.
Reduce_OneFewer(r, c, w) ==
  /\ warp[r][c][w] = "wait"
  /\ LET t == token[r][c][w]
     IN  /\ arrival[r][t] >= Cardinality(Slices(r, t)) - 1
         /\ arrival' = [arrival EXCEPT ![r][t] = 0]
         /\ reduced' = [reduced EXCEPT ![r][t] = @ + 1]
  /\ warp' = [warp EXCEPT ![r][c][w] = "peek"]
  /\ UNCHANGED <<ticket, epoch, boxVars, setup, launch, todo, posting, sigVars, parity,
                 token, landed>>
Reduce(r, c, w) ==
  /\ warp[r][c][w] = "wait"
  /\ LET t == token[r][c][w]
     IN  /\ arrival[r][t] = Cardinality(Slices(r, t))
         /\ arrival' = [arrival EXCEPT ![r][t] = 0]
         /\ reduced' = [reduced EXCEPT ![r][t] = @ + 1]
  /\ warp' = [warp EXCEPT ![r][c][w] = "peek"]
  /\ UNCHANGED <<ticket, epoch, boxVars, setup, launch, todo, posting, sigVars, parity,
                 token, landed>>

Finished == (\A r \in Ranks : launch[r] = MaxLaunches /\ Idle(r)) /\ UNCHANGED vars

WarpStep(r, c, w) == \/ ReadEpoch(r, c, w)
                     \/ LeaveTaskLoop(r, c, w)
                     \/ Peek(r, c, w)
                     \/ Claim(r, c, w)
                     \/ Reduce(r, c, w)
TaskStep(r, c) == RunTask(r, c) \/ PostTask(r, c)
SignallerStep(r, c) == \/ TakeEntry(r, c)
                       \/ SignalRow(r, c)
                       \/ EndEntry(r, c)
                       \/ Cleanup(r, c)
                       \/ LeaveBarrier3(r, c)

Next == \/ \E r \in Ranks : Launch(r)
        \/ \E r \in Ranks, c \in SMs : TaskStep(r, c) \/ SignallerStep(r, c)
        \/ \E r \in Ranks, c \in SMs, w \in Warps : WarpStep(r, c, w)
        \/ Finished

Spec == Init /\ [][Next]_vars

\* The warps of resident CTAs keep being scheduled and the host keeps
\* launching.
FairSpec ==
  /\ Spec
  /\ \A r \in 0 .. MaxRanks - 1 :
       /\ WF_vars(r \in Ranks /\ Launch(r))
       /\ \A c \in SMs :
            /\ WF_vars(r \in Ranks /\ TaskStep(r, c))
            /\ WF_vars(r \in Ranks /\ SignallerStep(r, c))
            /\ \A w \in 0 .. MaxWarps - 1 :
                 WF_vars(r \in Ranks /\ w \in Warps /\ WarpStep(r, c, w))
-----------------------------------------------------------------------------
\* A token is reduced only when every slice of it was stored in this launch.
ReducedComplete ==
  \A r \in Ranks, t \in Tokens : reduced[r][t] > 0 /\ launch[r] > 0 =>
    \A k \in Slices(r, t) : <<k, <<r, t>> >> \in landed[r]

\* Each token is reduced exactly once per launch: the ticket words, the
\* parity and the counters of successive launches never mix.
TokensOnce ==
  \A r \in Ranks, t \in Tokens :
    /\ reduced[r][t] <= 1
    /\ Idle(r) => reduced[r][t] = 1

\* What the comments of the kernel say of the cleanup: SM 0 bumps the epoch
\* only after every epilogue warp of the rank has read it.
EpochReadBeforeBump ==
  \A r \in Ranks : (\E c \in SMs, w \in Warps : warp[r][c][w] = "start")
    => sig[r][0] \notin {"barrier3", "exited"}

\* Every launch ends: every warp gets past its waits.
LaunchesComplete == <>(\A r \in Ranks : launch[r] = MaxLaunches /\ Idle(r))
=============================================================================
