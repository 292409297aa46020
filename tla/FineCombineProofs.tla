-------------------------- MODULE FineCombineProofs --------------------------
(***************************************************************************)
(* Proof that every token of a launch is reduced once, after all slices of *)
(* it have arrived, for any number of ranks, CTAs, warps, tasks, tokens,   *)
(* launches, ring size and wrap of the mailbox words, where every CTA with *)
(* more than one epilogue warp has a task in every launch.                 *)
(***************************************************************************)
EXTENDS FineCombine, FiniteSetTheorems, TLAPS

\* What the code relies on without saying so: a CTA without a task passes no
\* barrier that makes its epilogue warps read the epoch before thread 0 posts
\* DONE.
NoIdleCta ==
  \A s \in Setups :
    s.warps = 1 \/ \A place \in s.placements, r \in 0 .. s.ranks - 1, c \in SMs :
                     \E k \in Tasks : place[k] = <<r, c>>

SigStates == {"poll", "rows", "grid", "barrier3", "exited"}
WarpStates == {"start", "math", "peek", "claim", "wait", "exited"}
Slots == 0 .. RingSize - 1
Rows == Ranks \X Tokens

TypeInv ==
  /\ setup \in Setups
  /\ arrival \in [Ranks -> [Tokens -> Nat]]
  /\ ticket \in [Ranks -> [{0, 1} -> Nat]]
  /\ epoch \in [Ranks -> {0, 1}]
  /\ produced \in [Ranks -> [SMs -> 0 .. SeqMod - 1]]
  /\ consumed \in [Ranks -> [SMs -> 0 .. SeqMod - 1]]
  /\ ring \in [Ranks -> [SMs -> [Slots -> Tasks \cup {Done}]]]
  /\ launch \in [Ranks -> Nat]
  /\ todo \in [Ranks -> [SMs -> SUBSET Tasks]]
  /\ posting \in [Ranks -> [SMs -> Tasks \cup {"none"}]]
  /\ sig \in [Ranks -> [SMs -> SigStates]]
  /\ rows \in [Ranks -> [SMs -> SUBSET Rows]]
  /\ warp \in [Ranks -> [SMs -> [Warps -> WarpStates]]]
  /\ parity \in [Ranks -> [SMs -> [Warps -> {0, 1}]]]
  /\ token \in [Ranks -> [SMs -> [Warps -> Nat]]]
  /\ landed \in [Ranks -> SUBSET (Tasks \X Rows)]
  /\ reduced \in [Ranks -> [Tokens -> Nat]]

-----------------------------------------------------------------------------
(***************************************************************************)
(* The mailbox of a CTA, and where its warps and the ranks can be.         *)
(***************************************************************************)
\* The entries posted and not given back, oldest first.
Held(r, c) == (produced[r][c] - consumed[r][c]) % SeqMod
Entry(r, c, j) == ring[r][c][(consumed[r][c] + j) % RingSize]

\* The signaller of the CTA works from the oldest entry.
Signals(r, c) == sig[r][c] \in {"poll", "rows"}
InLoop(r, c) == warp[r][c][0] \in {"start", "math"}

CtaInv(r, c) ==
  /\ Held(r, c) <= RingSize
  /\ \A i, j \in 0 .. Held(r, c) - 1 : Entry(r, c, i) = Entry(r, c, j) => i = j
  /\ \A j \in 0 .. Held(r, c) - 1 : Entry(r, c, j) = Done => j = Held(r, c) - 1 /\ ~InLoop(r, c)
  /\ \A j \in 0 .. Held(r, c) - 1 : Entry(r, c, j) # posting[r][c] /\ Entry(r, c, j) \notin todo[r][c]
  /\ posting[r][c] \notin todo[r][c]
  /\ sig[r][c] = "rows" =>
       Held(r, c) > 0 /\ Entry(r, c, 0) \in Tasks /\ rows[r][c] \subseteq RowsOf[Entry(r, c, 0)]
  /\ ~InLoop(r, c) => todo[r][c] = {} /\ posting[r][c] = "none"
  /\ ~Signals(r, c) => Held(r, c) = 0 /\ ~InLoop(r, c)
  /\ (\E w \in Warps : warp[r][c][w] = "start") => todo[r][c] # {} \/ setup.warps = 1

\* The stages of a launch, as the grid syncs order them.
StageInv(r) ==
  \A c \in SMs :
    /\ sig[r][c] \in {"barrier3", "exited"} => \A d \in SMs : ~Signals(r, d)
    /\ sig[r][c] = "exited" => InBarrier3(r)

\* The tasks a CTA has in hand, and who has one.
Has(r, c, k) ==
  \/ k \in todo[r][c] \/ posting[r][c] = k
  \/ \E j \in 0 .. Held(r, c) - 1 : Entry(r, c, j) = k

Home(k) == (CHOOSE place \in setup.placements : TRUE)[k][1]

TaskInv(r) ==
  \A c, d \in SMs, k \in Tasks : Has(r, c, k) => Home(k) = r /\ (Has(r, d, k) => c = d)

\* A rank is one launch ahead only of ranks that are through, and has not begun.
SkewInv(r) ==
  /\ sig[r][0] = "exited" => \A q \in Ranks : Signalled3(q, launch[r])
  /\ \A q \in Ranks : launch[r] > launch[q] =>
       /\ launch[r] = launch[q] + 1 /\ InBarrier3(q)
       /\ \A k \in Tasks : Home(k) = r => \E c \in SMs : k \in todo[r][c]

ControlInv ==
  \A r \in Ranks :
    /\ \A c \in SMs : CtaInv(r, c)
    /\ StageInv(r) /\ TaskInv(r) /\ SkewInv(r)

-----------------------------------------------------------------------------
(***************************************************************************)
(* The slices of a token.                                                  *)
(***************************************************************************)
\* CTA c of rank r has yet to signal the row of task k.
Open(r, c, k, row) ==
  \/ k \in todo[r][c] \/ posting[r][c] = k
  \/ \E j \in 0 .. Held(r, c) - 1 :
       Entry(r, c, j) = k /\ (j = 0 /\ sig[r][c] = "rows" => row \in rows[r][c])

Awaited(r, t) ==
  { k \in Slices(r, t) :
      \/ launch[Home(k)] < launch[r]
      \/ /\ launch[Home(k)] = launch[r]
         /\ \E c \in SMs : Open(Home(k), c, k, <<r, t>>) }

\* The counter of a token and the slices it waits for make up its slices.
ArrivalInv(r) ==
  \A t \in Tokens :
    IF reduced[r][t] = 0
      THEN arrival[r][t] + Cardinality(Awaited(r, t)) = Cardinality(Slices(r, t))
      ELSE arrival[r][t] = 0 /\ Awaited(r, t) = {}

\* What has been executed lies at its source.
LandedInv(r) ==
  launch[r] > 0 =>
    \A t \in Tokens : \A k \in Slices(r, t) :
      \/ launch[Home(k)] < launch[r]
      \/ launch[Home(k)] = launch[r] /\ \E c \in SMs : k \in todo[Home(k)][c]
      \/ <<k, <<r, t>> >> \in landed[r]

SliceInv == \A r \in Ranks : ArrivalInv(r) /\ LandedInv(r)

-----------------------------------------------------------------------------
(***************************************************************************)
(* The ticket words.                                                       *)
(***************************************************************************)
Cleaned(r) == sig[r][0] \in {"barrier3", "exited"}
Current(r) == IF Cleaned(r) THEN 1 - epoch[r] ELSE epoch[r]
Waits(r, c, w, t) == warp[r][c][w] = "wait" /\ token[r][c][w] = t

WarpInv(r) ==
  \A c \in SMs, w \in Warps :
    /\ warp[r][c][w] \in {"math", "peek", "claim", "wait"} => parity[r][c][w] = Current(r)
    /\ warp[r][c][w] = "exited" => ticket[r][Current(r)] >= NumTokens
    /\ warp[r][c][w] = "wait" => token[r][c][w] \in Tokens

\* Tokens below the ticket word have been drawn, each by one warp.
DrawnInv(r) ==
  \A t \in Tokens :
    IF t < ticket[r][Current(r)]
      THEN \/ reduced[r][t] = 1 /\ \A c \in SMs, w \in Warps : ~Waits(r, c, w, t)
           \/ /\ reduced[r][t] = 0
              /\ \E c \in SMs, w \in Warps :
                   /\ Waits(r, c, w, t)
                   /\ \A d \in SMs, v \in Warps : Waits(r, d, v, t) => d = c /\ v = w
      ELSE reduced[r][t] = 0 /\ \A c \in SMs, w \in Warps : ~Waits(r, c, w, t)

RankTicketInv(r) ==
  /\ Cleaned(r) => ticket[r][epoch[r]] = 0
  /\ WarpInv(r) /\ DrawnInv(r)

TicketInv == \A r \in Ranks : RankTicketInv(r)

-----------------------------------------------------------------------------
(***************************************************************************)
(* Types.                                                                  *)
(***************************************************************************)
LEMMA SetupFacts ==
  ASSUME setup \in Setups
  PROVE  /\ NumSMs \in Nat /\ 0 \in SMs /\ 0 \in Ranks
         /\ setup.warps \in Nat \ {0} /\ 0 \in Warps
         /\ NumTokens \in Nat /\ Tokens \subseteq Nat
         /\ RowsOf \in [Tasks -> SUBSET Rows]
         /\ setup.placements \in (SUBSET [Tasks -> Ranks \X SMs]) \ {{}}
         /\ \A p, q \in setup.placements, k \in Tasks : p[k][1] = q[k][1]
<1>1. /\ setup.ranks \in Int /\ setup.ranks >= 1
      /\ setup.warps \in Int /\ setup.warps >= 1
      /\ NumTokens \in Nat
  BY CombineAssumption DEF NumTokens
<1>2. RowsOf \in [Tasks -> SUBSET Rows]
  BY CombineAssumption DEF RowsOf, Rows, Ranks, Tokens, NumRanks, NumTokens
<1>3. /\ setup.placements \in (SUBSET [Tasks -> Ranks \X SMs]) \ {{}}
      /\ \A p, q \in setup.placements, k \in Tasks : p[k][1] = q[k][1]
  BY CombineAssumption DEF Ranks, NumRanks
<1>4. NumSMs \in Nat \ {0}
  BY CombineAssumption
<1> QED
  BY <1>1, <1>2, <1>3, <1>4 DEF SMs, Ranks, Warps, Tokens, NumRanks

LEMMA RingFacts ==
  /\ RingSize \in Nat \ {0} /\ SeqMod \in Nat \ {0} /\ RingSize < SeqMod
  /\ SeqMod % RingSize = 0 /\ FirstSeq \in 0 .. SeqMod - 1
  /\ IsFiniteSet(Tasks) /\ Done \notin Tasks /\ "none" \notin Tasks /\ Done # "none"
BY CombineAssumption DEF Done

\* A behaviour is about one workload.
LEMMA SetupStands ==
  ASSUME setup' = setup
  PROVE  /\ Ranks' = Ranks /\ Warps' = Warps /\ Tokens' = Tokens /\ RowsOf' = RowsOf
         /\ NumTokens' = NumTokens /\ Rows' = Rows /\ SMs' = SMs
BY DEF Ranks, Warps, Tokens, RowsOf, NumTokens, NumRanks, Rows

LEMMA SlotRange ==
  ASSUME NEW a \in Int PROVE a % RingSize \in Slots
BY RingFacts DEF Slots

LEMMA SeqRange ==
  ASSUME NEW a \in Int PROVE a % SeqMod \in 0 .. SeqMod - 1
BY RingFacts

LEMMA InitType == Init => TypeInv
<1> SUFFICES ASSUME Init PROVE TypeInv
  OBVIOUS
<1> USE DEF Init
<1>1. setup \in Setups
  OBVIOUS
<1>2. /\ arrival \in [Ranks -> [Tokens -> Nat]]
      /\ ticket \in [Ranks -> [{0, 1} -> Nat]]
      /\ epoch \in [Ranks -> {0, 1}]
      /\ reduced \in [Ranks -> [Tokens -> Nat]]
  BY <1>1, SetupFacts DEF PerToken
<1>3. /\ produced \in [Ranks -> [SMs -> 0 .. SeqMod - 1]]
      /\ consumed \in [Ranks -> [SMs -> 0 .. SeqMod - 1]]
      /\ ring \in [Ranks -> [SMs -> [Slots -> Tasks \cup {Done}]]]
  BY RingFacts DEF PerCta, Slots
<1>4. /\ launch \in [Ranks -> Nat]
      /\ todo \in [Ranks -> [SMs -> SUBSET Tasks]]
      /\ posting \in [Ranks -> [SMs -> Tasks \cup {"none"}]]
      /\ sig \in [Ranks -> [SMs -> SigStates]]
      /\ rows \in [Ranks -> [SMs -> SUBSET Rows]]
  BY DEF PerCta, SigStates
<1>5. /\ warp \in [Ranks -> [SMs -> [Warps -> WarpStates]]]
      /\ parity \in [Ranks -> [SMs -> [Warps -> {0, 1}]]]
      /\ token \in [Ranks -> [SMs -> [Warps -> Nat]]]
      /\ landed \in [Ranks -> SUBSET (Tasks \X Rows)]
  BY DEF PerWarp, PerCta, WarpStates
<1> QED
  BY <1>1, <1>2, <1>3, <1>4, <1>5 DEF TypeInv

LEMMA PostType ==
  ASSUME TypeInv, NEW r \in Ranks, NEW c \in SMs, NEW e \in Tasks \cup {Done}, Post(r, c, e)
  PROVE  /\ ring' \in [Ranks -> [SMs -> [Slots -> Tasks \cup {Done}]]]
         /\ produced' \in [Ranks -> [SMs -> 0 .. SeqMod - 1]]
         /\ consumed' = consumed
<1>1. PICK i \in Slots : i = produced[r][c] % RingSize
  BY SlotRange DEF TypeInv
<1>2. PICK n \in 0 .. SeqMod - 1 : n = (produced[r][c] + 1) % SeqMod
  BY SeqRange DEF TypeInv
<1>3. ring' = [ring EXCEPT ![r][c][i] = e] /\ produced' = [produced EXCEPT ![r][c] = n]
  BY <1>1, <1>2 DEF Post
<1>4. PICK f \in [Slots -> Tasks \cup {Done}] : f = [ring[r][c] EXCEPT ![i] = e]
  <2>1. ring[r][c] \in [Slots -> Tasks \cup {Done}]
    BY DEF TypeInv
  <2> QED
    BY <2>1
<1>5. ring' = [ring EXCEPT ![r][c] = f]
  BY <1>3, <1>4
<1>6. ring' \in [Ranks -> [SMs -> [Slots -> Tasks \cup {Done}]]]
  BY <1>5 DEF TypeInv
<1>7. produced' \in [Ranks -> [SMs -> 0 .. SeqMod - 1]]
  BY <1>3 DEF TypeInv
<1> QED
  BY <1>6, <1>7 DEF Post

LEMMA NextType == TypeInv /\ [Next]_vars => TypeInv'
<1> SUFFICES ASSUME TypeInv, [Next]_vars PROVE TypeInv'
  OBVIOUS
<1> USE SetupFacts DEF TypeInv
<1>1. CASE UNCHANGED vars
  BY <1>1, SetupStands DEF vars, wordVars, boxVars, sigVars, warpVars, historyVars
<1>2. ASSUME NEW r \in Ranks, Launch(r) PROVE TypeInv'
  <2>1. setup' = setup /\ UNCHANGED <<wordVars, boxVars, posting, rows, parity, token>>
    BY <1>2 DEF Launch
  <2>2. launch' \in [Ranks -> Nat] /\ sig' \in [Ranks -> [SMs -> SigStates]]
    BY <1>2 DEF Launch, SigStates
  <2>3. todo' \in [Ranks -> [SMs -> SUBSET Tasks]]
    BY <1>2 DEF Launch
  <2>4. warp' \in [Ranks -> [SMs -> [Warps -> WarpStates]]]
    BY <1>2 DEF Launch, WarpStates
  <2>5. landed' \in [Ranks -> SUBSET (Tasks \X Rows)] /\ reduced' \in [Ranks -> [Tokens -> Nat]]
    BY <1>2 DEF Launch
  <2> QED
    BY <2>1, <2>2, <2>3, <2>4, <2>5, SetupStands DEF wordVars, boxVars
<1>3. ASSUME NEW r \in Ranks, NEW c \in SMs, TaskStep(r, c) PROVE TypeInv'
  <2>1. CASE RunTask(r, c)
    <3>1. setup' = setup /\ UNCHANGED <<wordVars, boxVars, launch, sigVars, warpVars, reduced>>
      BY <2>1 DEF RunTask
    <3>2. PICK k \in todo[r][c] :
            /\ todo' = [todo EXCEPT ![r][c] = @ \ {k}]
            /\ posting' = [posting EXCEPT ![r][c] = k]
            /\ landed' = [q \in Ranks |->
                            landed[q] \cup {<<k, row>> : row \in {x \in RowsOf[k] : x[1] = q}}]
      BY <2>1 DEF RunTask
    <3>3. k \in Tasks
      BY <3>2
    <3>4. todo' \in [Ranks -> [SMs -> SUBSET Tasks]]
      BY <3>2
    <3>5. posting' \in [Ranks -> [SMs -> Tasks \cup {"none"}]]
      BY <3>2, <3>3
    <3>6. landed' \in [Ranks -> SUBSET (Tasks \X Rows)]
      <4>1. RowsOf[k] \subseteq Rows
        BY <3>3
      <4>2. \A q \in Ranks : {<<k, row>> : row \in {x \in RowsOf[k] : x[1] = q}} \subseteq Tasks \X Rows
        BY <4>1, <3>3
      <4> QED
        BY <3>2, <4>2
    <3> QED
      BY <3>1, <3>4, <3>5, <3>6, SetupStands DEF wordVars, boxVars, sigVars, warpVars
  <2>2. CASE PostTask(r, c)
    <3>1. setup' = setup /\ UNCHANGED <<wordVars, launch, todo, sigVars, warpVars, historyVars, consumed>>
      BY <2>2 DEF PostTask, Post
    <3>2. posting' \in [Ranks -> [SMs -> Tasks \cup {"none"}]]
      BY <2>2 DEF PostTask
    <3>3. ring' \in [Ranks -> [SMs -> [Slots -> Tasks \cup {Done}]]]
      BY <2>2, PostType DEF PostTask
    <3>4. produced' \in [Ranks -> [SMs -> 0 .. SeqMod - 1]]
      BY <2>2, PostType DEF PostTask
    <3> QED
      BY <3>1, <3>2, <3>3, <3>4, SetupStands DEF wordVars, sigVars, warpVars, historyVars
  <2> QED
    BY <1>3, <2>1, <2>2 DEF TaskStep
<1>4. ASSUME NEW r \in Ranks, NEW c \in SMs, SignallerStep(r, c) PROVE TypeInv'
  <2>1. CASE TakeEntry(r, c)
    <3>1. setup' = setup
          /\ UNCHANGED <<wordVars, produced, ring, launch, todo, posting, warpVars, historyVars>>
      BY <2>1 DEF TakeEntry
    <3>2. PICK e \in Tasks \cup {Done} : e = ring[r][c][consumed[r][c] % RingSize]
      BY SlotRange
    <3>3. PICK n \in 0 .. SeqMod - 1 : n = (consumed[r][c] + 1) % SeqMod
      BY SeqRange
    <3>4. CASE e = Done
      <4>1. /\ sig' = [sig EXCEPT ![r][c] = "grid"] /\ rows' = rows
            /\ consumed' = [consumed EXCEPT ![r][c] = n]
        BY <2>1, <3>2, <3>3, <3>4 DEF TakeEntry
      <4> QED
        BY <3>1, <4>1, SetupStands DEF wordVars, warpVars, historyVars, SigStates
    <3>5. CASE e \in Tasks
      <4>1. /\ sig' = [sig EXCEPT ![r][c] = "rows"] /\ consumed' = consumed
            /\ rows' = [rows EXCEPT ![r][c] = RowsOf[e]] /\ RowsOf[e] \in SUBSET Rows
        BY <2>1, <3>2, <3>5, RingFacts DEF TakeEntry
      <4> QED
        BY <3>1, <4>1, SetupStands DEF wordVars, warpVars, historyVars, SigStates
    <3> QED
      BY <3>4, <3>5
  <2>2. CASE SignalRow(r, c)
    <3>1. setup' = setup
          /\ UNCHANGED <<ticket, epoch, boxVars, launch, todo, posting, sig, warpVars, historyVars>>
      BY <2>2 DEF SignalRow
    <3>2. arrival' \in [Ranks -> [Tokens -> Nat]] /\ rows' \in [Ranks -> [SMs -> SUBSET Rows]]
      BY <2>2 DEF SignalRow, Rows
    <3> QED
      BY <3>1, <3>2, SetupStands DEF boxVars, warpVars, historyVars
  <2>3. CASE EndEntry(r, c)
    <3>1. setup' = setup
          /\ UNCHANGED <<wordVars, produced, ring, launch, todo, posting, rows, warpVars, historyVars>>
      BY <2>3 DEF EndEntry
    <3>2. sig' \in [Ranks -> [SMs -> SigStates]]
      BY <2>3 DEF EndEntry, SigStates
    <3>3. consumed' \in [Ranks -> [SMs -> 0 .. SeqMod - 1]]
      <4>1. (consumed[r][c] + 1) % SeqMod \in 0 .. SeqMod - 1
        BY SeqRange
      <4> QED
        BY <4>1, <2>3 DEF EndEntry
    <3> QED
      BY <3>1, <3>2, <3>3, SetupStands DEF wordVars, warpVars, historyVars
  <2>4. CASE Cleanup(r, c)
    <3>1. setup' = setup
          /\ UNCHANGED <<arrival, boxVars, launch, todo, posting, rows, warpVars, historyVars>>
      BY <2>4 DEF Cleanup
    <3>2. sig' \in [Ranks -> [SMs -> SigStates]]
      BY <2>4 DEF Cleanup, SigStates
    <3>3. epoch' \in [Ranks -> {0, 1}]
      <4>1. PICK p \in {0, 1} : p = 1 - epoch[r]
        <5>1. epoch[r] \in {0, 1}
          OBVIOUS
        <5> QED
          BY <5>1
      <4>2. epoch' = epoch \/ epoch' = [epoch EXCEPT ![r] = p]
        BY <2>4, <4>1 DEF Cleanup
      <4> QED
        BY <4>2
    <3>4. ticket' \in [Ranks -> [{0, 1} -> Nat]]
      <4>1. ticket' = ticket \/ ticket' = [ticket EXCEPT ![r][1 - epoch[r]] = 0]
        BY <2>4 DEF Cleanup
      <4>2. PICK f \in [{0, 1} -> Nat] : f = [ticket[r] EXCEPT ![1 - epoch[r]] = 0]
        <5>1. ticket[r] \in [{0, 1} -> Nat]
          OBVIOUS
        <5> QED
          BY <5>1
      <4>3. ticket' = ticket \/ ticket' = [ticket EXCEPT ![r] = f]
        BY <4>1, <4>2
      <4> QED
        BY <4>3
    <3> QED
      BY <3>1, <3>2, <3>3, <3>4, SetupStands DEF boxVars, warpVars, historyVars
  <2>5. CASE LeaveBarrier3(r, c)
    <3>1. setup' = setup
          /\ UNCHANGED <<wordVars, boxVars, launch, todo, posting, rows, warpVars, historyVars>>
      BY <2>5 DEF LeaveBarrier3
    <3>2. sig' \in [Ranks -> [SMs -> SigStates]]
      BY <2>5 DEF LeaveBarrier3, SigStates
    <3> QED
      BY <3>1, <3>2, SetupStands DEF wordVars, boxVars, warpVars, historyVars
  <2> QED
    BY <1>4, <2>1, <2>2, <2>3, <2>4, <2>5 DEF SignallerStep
<1>5. ASSUME NEW r \in Ranks, NEW c \in SMs, NEW w \in Warps, WarpStep(r, c, w) PROVE TypeInv'
  <2>1. CASE ReadEpoch(r, c, w)
    <3>1. setup' = setup
          /\ UNCHANGED <<wordVars, boxVars, launch, todo, posting, sigVars, token, historyVars>>
      BY <2>1 DEF ReadEpoch
    <3>2. warp' \in [Ranks -> [SMs -> [Warps -> WarpStates]]]
      BY <2>1 DEF ReadEpoch, WarpStates
    <3>3. parity' \in [Ranks -> [SMs -> [Warps -> {0, 1}]]]
      <4>1. epoch[r] \in {0, 1}
        OBVIOUS
      <4> QED
        BY <2>1, <4>1 DEF ReadEpoch
    <3> QED
      BY <3>1, <3>2, <3>3, SetupStands DEF wordVars, boxVars, sigVars, historyVars
  <2>2. CASE LeaveTaskLoop(r, c, w)
    <3>1. setup' = setup
          /\ UNCHANGED <<wordVars, launch, todo, posting, sigVars, parity, token, historyVars, consumed>>
      BY <2>2 DEF LeaveTaskLoop, Post, boxVars
    <3>2. warp' \in [Ranks -> [SMs -> [Warps -> WarpStates]]]
      BY <2>2 DEF LeaveTaskLoop, WarpStates
    <3>3. ring' \in [Ranks -> [SMs -> [Slots -> Tasks \cup {Done}]]]
      BY <2>2, PostType DEF LeaveTaskLoop, boxVars
    <3>4. produced' \in [Ranks -> [SMs -> 0 .. SeqMod - 1]]
      BY <2>2, PostType DEF LeaveTaskLoop, boxVars
    <3> QED
      BY <3>1, <3>2, <3>3, <3>4, SetupStands DEF wordVars, sigVars, historyVars
  <2>3. CASE Peek(r, c, w)
    <3>1. setup' = setup
          /\ UNCHANGED <<wordVars, boxVars, launch, todo, posting, sigVars, parity, token, historyVars>>
      BY <2>3 DEF Peek
    <3>2. warp' \in [Ranks -> [SMs -> [Warps -> WarpStates]]]
      BY <2>3 DEF Peek, WarpStates
    <3> QED
      BY <3>1, <3>2, SetupStands DEF wordVars, boxVars, sigVars, historyVars
  <2>4. CASE Claim(r, c, w)
    <3>1. setup' = setup
          /\ UNCHANGED <<arrival, epoch, boxVars, launch, todo, posting, sigVars, parity, historyVars>>
      BY <2>4 DEF Claim
    <3>2. PICK p \in {0, 1} : p = parity[r][c][w]
      OBVIOUS
    <3>3. PICK n \in Nat : n = ticket[r][p]
      BY <3>2
    <3>4. ticket' = [ticket EXCEPT ![r][p] = n + 1]
      BY <2>4, <3>2, <3>3 DEF Claim
    <3>5. /\ token' = [token EXCEPT ![r][c][w] = n] \/ token' = token
          /\ \/ warp' = [warp EXCEPT ![r][c][w] = "wait"]
             \/ warp' = [warp EXCEPT ![r][c][w] = "exited"]
      BY <2>4, <3>2, <3>3 DEF Claim
    <3>6. warp' \in [Ranks -> [SMs -> [Warps -> WarpStates]]]
      <4>1. CASE warp' = [warp EXCEPT ![r][c][w] = "wait"]
        BY <4>1 DEF WarpStates
      <4>2. CASE warp' = [warp EXCEPT ![r][c][w] = "exited"]
        BY <4>2 DEF WarpStates
      <4> QED
        BY <3>5, <4>1, <4>2
    <3>7. token' \in [Ranks -> [SMs -> [Warps -> Nat]]]
      <4>1. CASE token' = [token EXCEPT ![r][c][w] = n]
        BY <4>1
      <4> QED
        BY <3>5, <4>1
    <3>8. ticket' \in [Ranks -> [{0, 1} -> Nat]]
      BY <3>4
    <3> QED
      BY <3>1, <3>6, <3>7, <3>8, SetupStands DEF boxVars, sigVars, historyVars
  <2>5. CASE Reduce(r, c, w)
    <3>1. setup' = setup
          /\ UNCHANGED <<ticket, epoch, boxVars, launch, todo, posting, sigVars, parity, token, landed>>
      BY <2>5 DEF Reduce
    <3>2. warp' \in [Ranks -> [SMs -> [Warps -> WarpStates]]]
      BY <2>5 DEF Reduce, WarpStates
    <3>3. arrival' \in [Ranks -> [Tokens -> Nat]] /\ reduced' \in [Ranks -> [Tokens -> Nat]]
      <4>1. PICK t \in Nat : t = token[r][c][w]
        OBVIOUS
      <4>2. /\ arrival' = [arrival EXCEPT ![r][t] = 0]
            /\ reduced' = [reduced EXCEPT ![r][t] = @ + 1]
        BY <2>5, <4>1 DEF Reduce
      <4>3. PICK f, g \in [Tokens -> Nat] :
              f = [arrival[r] EXCEPT ![t] = 0] /\ g = [reduced[r] EXCEPT ![t] = @ + 1]
        <5>1. PICK a, d \in [Tokens -> Nat] : a = arrival[r] /\ d = reduced[r]
          OBVIOUS
        <5>2. [a EXCEPT ![t] = 0] \in [Tokens -> Nat]
          OBVIOUS
        <5>3. [d EXCEPT ![t] = @ + 1] \in [Tokens -> Nat]
          BY \A m \in Nat : m + 1 \in Nat
        <5> QED
          BY <5>1, <5>2, <5>3
      <4>4. arrival' = [arrival EXCEPT ![r] = f] /\ reduced' = [reduced EXCEPT ![r] = g]
        BY <4>2, <4>3
      <4> QED
        BY <4>4
    <3> QED
      BY <3>1, <3>2, <3>3, SetupStands DEF boxVars, sigVars
  <2> QED
    BY <1>5, <2>1, <2>2, <2>3, <2>4, <2>5 DEF WarpStep
<1> QED
  BY <1>1, <1>2, <1>3, <1>4, <1>5 DEF Next, Finished

-----------------------------------------------------------------------------
(***************************************************************************)
(* The mailbox ring.  The sequence words wrap at a multiple of the ring    *)
(* size, so a wrap does not disturb the slots.                             *)
(***************************************************************************)
LEMMA Remainder ==
  ASSUME NEW q \in Int, NEW d \in Nat \ {0}, NEW r \in 0 .. d - 1
  PROVE  (q * d + r) % d = r
<1>1. PICK a \in Int : a = q * d + r
  OBVIOUS
<1>2. PICK k \in Int, m \in Int : k = a \div d /\ m = a % d /\ a = d * k + m /\ 0 <= m /\ m < d
  BY <1>1
<1>3. PICK j \in Int : j = q - k
  OBVIOUS
<1>4. j * d = m - r
  <2>1. q = k + j
    BY <1>3
  <2>2. PICK x, y \in Int : x = k * d /\ y = j * d
    OBVIOUS
  <2>3. (k + j) * d = k * d + j * d /\ d * k = k * d
    OBVIOUS
  <2>4. a = (x + y) + r /\ a = x + m
    BY <1>1, <1>2, <2>1, <2>2, <2>3
  <2>5. y = m - r
    BY <2>4
  <2> QED
    BY <2>2, <2>5
<1>5. j = 0
  <2>1. m - r < d /\ 0 - d < m - r
    BY <1>2
  <2>2. CASE j >= 1
    <3>1. PICK x \in Nat : j = 1 + x
      <4>1. j - 1 \in Nat /\ j = 1 + (j - 1)
        BY <2>2
      <4> QED
        BY <4>1
    <3>2. j * d = d + x * d /\ x * d \in Nat
      BY <3>1
    <3> QED
      BY <1>2, <1>4, <2>1, <3>2
  <2>3. CASE j <= -1
    <3>1. PICK x \in Nat : j = -1 - x
      <4>1. -1 - j \in Nat /\ j = -1 - (-1 - j)
        BY <2>3
      <4> QED
        BY <4>1
    <3>2. j * d = (0 - d) - x * d /\ x * d \in Nat
      BY <3>1
    <3> QED
      BY <1>2, <1>4, <2>1, <3>2
  <2> QED
    BY <2>2, <2>3
<1>6. m = r
  BY <1>2, <1>4, <1>5
<1> QED
  BY <1>1, <1>2, <1>6

\* Whole turns do not count.
LEMMA ModTurns ==
  ASSUME NEW d \in Nat \ {0}, NEW a \in Int, NEW k \in Int
  PROVE  (a + k * d) % d = a % d
<1>1. PICK q \in Int, m \in 0 .. d - 1 : m = a % d /\ a = d * q + m
  OBVIOUS
<1>2. ((q + k) * d + m) % d = m
  BY <1>1, Remainder
<1>3. (q + k) * d + m = a + k * d
  <2>1. (q + k) * d = q * d + k * d /\ d * q = q * d /\ q * d \in Int /\ k * d \in Int
    OBVIOUS
  <2> QED
    BY <1>1, <2>1
<1> QED
  BY <1>1, <1>2, <1>3

\* A turn of the sequence words is a number of turns of the ring.
LEMMA RingTurns ==
  ASSUME NEW a \in Int
  PROVE  (a + SeqMod) % RingSize = a % RingSize
<1>1. PICK d \in Nat \ {0} : d = RingSize
  BY RingFacts
<1>2. PICK k \in Int : SeqMod = d * k
  <2>1. SeqMod \in Int /\ SeqMod % d = 0
    BY <1>1, RingFacts
  <2> QED
    BY <2>1
<1>3. d * k = k * d
  OBVIOUS
<1> QED
  BY <1>1, <1>2, <1>3, ModTurns

LEMMA SlotsDiffer ==
  ASSUME NEW a \in Int, NEW b \in Int, a < b, b < a + RingSize
  PROVE  a % RingSize # b % RingSize
<1>1. PICK d \in Nat \ {0} : d = RingSize
  BY RingFacts
<1>2. SUFFICES ASSUME a % d = b % d PROVE FALSE
  BY <1>1
<1>3. PICK q \in Int, m \in 0 .. d - 1 : m = a % d /\ a = d * q + m
  OBVIOUS
<1>4. PICK e \in 1 .. d - 1 : b = a + e
  <2>1. b - a \in 1 .. d - 1 /\ b = a + (b - a)
    BY <1>1
  <2> QED
    BY <2>1
<1>5. d * q = q * d /\ q * d \in Int /\ (q + 1) * d = q * d + d
  OBVIOUS
<1>6. CASE m + e < d
  <2>1. m + e \in 0 .. d - 1
    BY <1>6
  <2>2. (q * d + (m + e)) % d = m + e
    BY <2>1, Remainder
  <2>3. b = q * d + (m + e)
    BY <1>3, <1>4, <1>5
  <2> QED
    BY <1>2, <1>3, <2>2, <2>3
<1>7. CASE m + e >= d
  <2>1. (m + e) - d \in 0 .. d - 1
    BY <1>7
  <2>2. ((q + 1) * d + ((m + e) - d)) % d = (m + e) - d
    BY <2>1, Remainder
  <2>3. b = (q + 1) * d + ((m + e) - d)
    BY <1>3, <1>4, <1>5
  <2> QED
    BY <1>2, <1>3, <2>2, <2>3
<1> QED
  BY <1>6, <1>7

\* The sequence words without remainders.
LEMMA SeqNext ==
  ASSUME NEW p \in 0 .. SeqMod - 1
  PROVE  (p + 1) % SeqMod = IF p + 1 = SeqMod THEN 0 ELSE p + 1
<1>1. PICK d \in Nat \ {0} : d = SeqMod
  BY RingFacts
<1>2. CASE p + 1 = d
  <2>1. (1 * d + 0) % d = 0
    BY Remainder
  <2> QED
    BY <1>1, <1>2, <2>1
<1>3. CASE p + 1 # d
  <2>1. (0 * d + (p + 1)) % d = p + 1
    <3>1. p + 1 \in 0 .. d - 1
      BY <1>1, <1>3
    <3> QED
      BY <3>1, Remainder
  <2> QED
    BY <1>1, <1>3, <2>1
<1> QED
  BY <1>2, <1>3

LEMMA SeqDistance ==
  ASSUME NEW p \in 0 .. SeqMod - 1, NEW q \in 0 .. SeqMod - 1
  PROVE  (p - q) % SeqMod = IF p >= q THEN p - q ELSE p - q + SeqMod
<1>1. PICK d \in Nat \ {0} : d = SeqMod
  BY RingFacts
<1>2. CASE p >= q
  <2>1. (0 * d + (p - q)) % d = p - q
    <3>1. p - q \in 0 .. d - 1
      BY <1>1, <1>2
    <3> QED
      BY <3>1, Remainder
  <2> QED
    BY <1>1, <1>2, <2>1
<1>3. CASE p < q
  <2>1. ((-1) * d + (p - q + d)) % d = p - q + d
    <3>1. p - q + d \in 0 .. d - 1
      BY <1>1, <1>3
    <3> QED
      BY <3>1, Remainder
  <2>2. (-1) * d + (p - q + d) = p - q
    BY <1>1
  <2> QED
    BY <1>1, <1>3, <2>1, <2>2
<1> QED
  BY <1>2, <1>3

LEMMA HeldFacts ==
  ASSUME TypeInv, NEW r \in Ranks, NEW c \in SMs
  PROVE  /\ Held(r, c) \in Nat
         /\ Held(r, c) = 0 <=> produced[r][c] = consumed[r][c]
         /\ Entry(r, c, 0) = ring[r][c][consumed[r][c] % RingSize]
         /\ \A j \in Nat : Entry(r, c, j) \in Tasks \cup {Done}
<1>1. produced[r][c] \in 0 .. SeqMod - 1 /\ consumed[r][c] \in 0 .. SeqMod - 1
  BY DEF TypeInv
<1>2. Held(r, c) \in Nat /\ (Held(r, c) = 0 <=> produced[r][c] = consumed[r][c])
  <2>1. PICK p, q \in 0 .. SeqMod - 1 : p = produced[r][c] /\ q = consumed[r][c]
    BY <1>1
  <2>2. Held(r, c) = IF p >= q THEN p - q ELSE p - q + SeqMod
    BY <2>1, SeqDistance DEF Held
  <2> QED
    BY <2>1, <2>2, RingFacts
<1>3. \A j \in Nat : Entry(r, c, j) \in Tasks \cup {Done}
  BY <1>1, SlotRange DEF Entry, TypeInv
<1>4. consumed[r][c] + 0 = consumed[r][c]
  BY <1>1
<1> QED
  BY <1>2, <1>3, <1>4 DEF Entry

\* The mailboxes of the other CTAs.
OtherBoxesStand(r, c) ==
  \A q \in Ranks, d \in SMs : q # r \/ d # c =>
    /\ Held(q, d)' = Held(q, d)
    /\ \A j \in Nat : Entry(q, d, j)' = Entry(q, d, j)

LEMMA BoxesStand ==
  ASSUME UNCHANGED boxVars, NEW r, NEW c
  PROVE  Held(r, c)' = Held(r, c) /\ \A j : Entry(r, c, j)' = Entry(r, c, j)
BY DEF boxVars, Held, Entry

\* A posted entry is the youngest.
LEMMA PostFacts ==
  ASSUME TypeInv, NEW r \in Ranks, NEW c \in SMs, NEW e, Post(r, c, e)
  PROVE  /\ Held(r, c) < RingSize /\ Held(r, c)' = Held(r, c) + 1
         /\ \A j \in 0 .. Held(r, c) - 1 : Entry(r, c, j)' = Entry(r, c, j)
         /\ \A j \in Nat : j = Held(r, c) => Entry(r, c, j)' = e
         /\ OtherBoxesStand(r, c)
<1>1. PICK p, q \in 0 .. SeqMod - 1 : p = produced[r][c] /\ q = consumed[r][c]
  BY DEF TypeInv
<1>2. /\ produced'[r][c] = (IF p + 1 = SeqMod THEN 0 ELSE p + 1) /\ consumed'[r][c] = q
      /\ ring'[r][c] = [ring[r][c] EXCEPT ![p % RingSize] = e]
  BY <1>1, SeqNext DEF Post, TypeInv
<1>3. Held(r, c) = IF p >= q THEN p - q ELSE p - q + SeqMod
  BY <1>1, SeqDistance DEF Held
<1>4. Held(r, c) < RingSize
  BY DEF Post, RoomInRing, Held
<1>5. PICK h \in Nat : h = Held(r, c)
  BY HeldFacts
<1>6. Held(r, c)' = h + 1
  <2>1. produced'[r][c] \in 0 .. SeqMod - 1
    BY <1>2, RingFacts
  <2>2. Held(r, c)' = IF produced'[r][c] >= q THEN produced'[r][c] - q
                      ELSE produced'[r][c] - q + SeqMod
    BY <1>2, <2>1, SeqDistance DEF Held
  <2> QED
    BY <1>2, <1>3, <1>4, <1>5, <2>2, RingFacts
<1>7. (q + h) % RingSize = p % RingSize
  <2>1. q + h = p \/ q + h = p + SeqMod
    BY <1>3, <1>5, RingFacts
  <2> QED
    BY <2>1, RingTurns
<1>8. p % RingSize \in Slots /\ ring[r][c] \in [Slots -> Tasks \cup {Done}]
  BY SlotRange DEF TypeInv
<1>9. \A j \in 0 .. h - 1 : Entry(r, c, j)' = Entry(r, c, j)
  <2>1. TAKE j \in 0 .. h - 1
  <2>2. (q + j) % RingSize # (q + h) % RingSize
    <3>1. q + j \in Int /\ q + h \in Int /\ q + j < q + h /\ q + h < (q + j) + RingSize
      BY <1>4, <1>5, RingFacts
    <3> QED
      BY <3>1, SlotsDiffer
  <2> QED
    BY <1>1, <1>2, <1>7, <1>8, <2>2 DEF Entry
<1>10. \A j \in Nat : j = h => Entry(r, c, j)' = e
  BY <1>1, <1>2, <1>7, <1>8 DEF Entry
<1>11. OtherBoxesStand(r, c)
  BY DEF OtherBoxesStand, Post, Held, Entry, TypeInv
<1> QED
  BY <1>4, <1>5, <1>6, <1>9, <1>10, <1>11

\* The oldest entry is given back.
LEMMA TakeFacts ==
  ASSUME TypeInv, NEW r \in Ranks, NEW c \in SMs, Held(r, c) > 0,
         produced' = produced, ring' = ring,
         consumed' = [consumed EXCEPT ![r][c] = (@ + 1) % SeqMod]
  PROVE  /\ Held(r, c)' = Held(r, c) - 1
         /\ \A j \in 0 .. Held(r, c) - 2 : Entry(r, c, j)' = Entry(r, c, j + 1)
         /\ OtherBoxesStand(r, c)
<1>1. PICK p, q \in 0 .. SeqMod - 1 : p = produced[r][c] /\ q = consumed[r][c]
  BY DEF TypeInv
<1>2. consumed'[r][c] = (IF q + 1 = SeqMod THEN 0 ELSE q + 1)
  BY <1>1, SeqNext DEF TypeInv
<1>3. Held(r, c) = IF p >= q THEN p - q ELSE p - q + SeqMod
  BY <1>1, SeqDistance DEF Held
<1>4. PICK n \in 0 .. SeqMod - 1 : n = consumed'[r][c]
  BY <1>2, RingFacts
<1>5. Held(r, c)' = IF p >= n THEN p - n ELSE p - n + SeqMod
  BY <1>1, <1>4, SeqDistance DEF Held
<1>6. Held(r, c)' = Held(r, c) - 1
  BY <1>2, <1>3, <1>4, <1>5, RingFacts
<1>7. \A j \in 0 .. Held(r, c) - 2 : Entry(r, c, j)' = Entry(r, c, j + 1)
  <2>1. TAKE j \in 0 .. Held(r, c) - 2
  <2>2. j \in Int
    BY HeldFacts
  <2>3. (q + (j + 1)) % RingSize = (n + j) % RingSize
    <3>1. q + (j + 1) = n + j \/ q + (j + 1) = (n + j) + SeqMod
      BY <1>2, <1>4, <2>2, RingFacts
    <3> QED
      BY <2>2, <3>1, RingTurns
  <2> QED
    BY <1>1, <1>4, <2>3 DEF Entry
<1>8. OtherBoxesStand(r, c)
  BY DEF OtherBoxesStand, Held, Entry, TypeInv
<1> QED
  BY <1>6, <1>7, <1>8

-----------------------------------------------------------------------------
(***************************************************************************)
(* ControlInv: steps of one CTA.                                           *)
(***************************************************************************)
CtaStands(q, d) ==
  /\ Held(q, d)' = Held(q, d)
  /\ \A j \in Nat : Entry(q, d, j)' = Entry(q, d, j)
  /\ todo'[q][d] = todo[q][d] /\ posting'[q][d] = posting[q][d]
  /\ sig'[q][d] = sig[q][d] /\ rows'[q][d] = rows[q][d] /\ warp'[q][d] = warp[q][d]

OthersStand(r, c) == \A q \in Ranks, d \in SMs : q # r \/ d # c => CtaStands(q, d)

\* How the signaller of a CTA moves on.
SignallerMoves(r, c) ==
  /\ ~Signals(r, c) => sig'[r][c] \notin {"poll", "rows"}
  /\ sig[r][c] \in {"barrier3", "exited"} => sig'[r][c] \in {"barrier3", "exited"}
  /\ sig'[r][c] \in {"barrier3", "exited"} =>
       sig[r][c] \in {"barrier3", "exited"} \/ \A d \in SMs : ~Signals(r, d)
  /\ sig'[r][c] = "exited" =>
       \/ sig[r][c] = "exited"
       \/ InBarrier3(r) /\ (c = 0 => \A q \in Ranks : Signalled3(q, launch[r]))

\* What ControlInv needs of a step of CTA c of rank r.
LocalStep(r, c) ==
  /\ setup' = setup /\ launch' = launch
  /\ OthersStand(r, c)
  /\ CtaInv(r, c)'
  /\ \A k \in Tasks : Has(r, c, k)' => Has(r, c, k)
  /\ SignallerMoves(r, c)
  /\ todo'[r][c] = todo[r][c] \/ \A q \in Ranks : launch[q] >= launch[r]

LEMMA CtaFacts ==
  ASSUME TypeInv, NEW r \in Ranks, NEW c \in SMs, CtaStands(r, c), setup' = setup
  PROVE  /\ CtaInv(r, c) => CtaInv(r, c)'
         /\ \A k : Has(r, c, k)' <=> Has(r, c, k)
         /\ \A k, row : Open(r, c, k, row)' <=> Open(r, c, k, row)
<1>1. PICK h \in Nat : h = Held(r, c) /\ h = Held(r, c)'
  BY HeldFacts DEF CtaStands
<1>2. \A j \in 0 .. h - 1 : Entry(r, c, j)' = Entry(r, c, j)
  BY DEF CtaStands
<1>3. h > 0 => Entry(r, c, 0)' = Entry(r, c, 0)
  BY <1>1 DEF CtaStands
<1>4. Warps' = Warps /\ RowsOf' = RowsOf /\ setup' = setup
  BY SetupStands
<1>5. CtaInv(r, c) => CtaInv(r, c)'
  BY <1>1, <1>2, <1>3, <1>4 DEF CtaStands, CtaInv, InLoop, Signals
<1>6. \A k : Has(r, c, k)' <=> Has(r, c, k)
  BY <1>1, <1>2 DEF CtaStands, Has
<1>7. \A k, row : Open(r, c, k, row)' <=> Open(r, c, k, row)
  BY <1>1, <1>2 DEF CtaStands, Open
<1> QED
  BY <1>5, <1>6, <1>7

LEMMA LocalControl ==
  ASSUME TypeInv, ControlInv, NEW r \in Ranks, NEW c \in SMs, LocalStep(r, c)
  PROVE  ControlInv'
<1>1. Ranks' = Ranks /\ SMs' = SMs /\ setup' = setup /\ launch' = launch
  BY SetupStands DEF LocalStep
<1>2. \A q \in Ranks, d \in SMs : CtaInv(q, d)'
  BY CtaFacts DEF LocalStep, OthersStand, ControlInv
<1>3. \A q \in Ranks, d \in SMs, k \in Tasks : Has(q, d, k)' => Has(q, d, k)
  BY CtaFacts DEF LocalStep, OthersStand
<1>4. \A q \in Ranks, d \in SMs : q # r \/ d # c => sig'[q][d] = sig[q][d] /\ todo'[q][d] = todo[q][d]
  BY DEF LocalStep, OthersStand, CtaStands
<1>5. \A q \in Ranks : InBarrier3(q) => InBarrier3(q)'
  BY <1>4 DEF LocalStep, SignallerMoves, InBarrier3
<1>6. \A q \in Ranks, n \in Nat : Signalled3(q, n) => Signalled3(q, n)'
  BY <1>1, <1>5 DEF Signalled3
<1>7. ASSUME NEW q \in Ranks PROVE StageInv(q)'
  <2>1. \A d \in SMs : sig'[q][d] \in {"poll", "rows"} => Signals(q, d)
    BY <1>4 DEF LocalStep, SignallerMoves, Signals
  <2>2. StageInv(q)
    BY DEF ControlInv
  <2>3. \A d \in SMs : sig'[q][d] \in {"barrier3", "exited"} => \A e \in SMs : ~Signals(q, e)
    BY <1>4, <2>2 DEF LocalStep, SignallerMoves, StageInv
  <2>4. \A d \in SMs : sig'[q][d] = "exited" => InBarrier3(q)
    BY <1>4, <2>2 DEF LocalStep, SignallerMoves, StageInv
  <2> QED
    BY <1>1, <1>5, <2>1, <2>3, <2>4 DEF StageInv, Signals
<1>8. ASSUME NEW q \in Ranks PROVE TaskInv(q)'
  <2>1. \A k : Home(k)' = Home(k)
    BY <1>1 DEF Home
  <2> QED
    BY <1>1, <1>3, <2>1 DEF TaskInv, ControlInv
<1>9. ASSUME NEW q \in Ranks PROVE SkewInv(q)'
  <2>1. SkewInv(q) /\ launch[q] \in Nat
    BY DEF ControlInv, TypeInv
  <2>2. sig'[q][0] = "exited" => \A p \in Ranks : Signalled3(p, launch[q])
    <3>1. 0 \in SMs
      BY SetupFacts DEF TypeInv
    <3> QED
      BY <1>4, <2>1, <3>1 DEF LocalStep, SignallerMoves, SkewInv
  <2>3. sig'[q][0] = "exited" => \A p \in Ranks : Signalled3(p, launch[q])'
    <3>1. PICK n \in Nat : n = launch[q]
      BY <2>1
    <3>2. sig'[q][0] = "exited" => \A p \in Ranks : Signalled3(p, n)'
      BY <1>6, <2>2, <3>1
    <3> QED
      BY <1>1, <3>1, <3>2 DEF Signalled3
  <2>4. ASSUME NEW p \in Ranks, launch[q] > launch[p]
        PROVE  /\ launch[q] = launch[p] + 1 /\ InBarrier3(p)'
               /\ \A k \in Tasks : Home(k)' = q => \E d \in SMs : k \in todo'[q][d]
    <3>1. \A d \in SMs : todo'[q][d] = todo[q][d]
      <4>1. launch[p] \in Nat /\ launch[q] \in Nat
        BY DEF TypeInv
      <4> QED
        BY <1>4, <2>4, <4>1 DEF LocalStep
    <3>2. \A k : Home(k)' = Home(k)
      BY <1>1 DEF Home
    <3> QED
      BY <1>5, <2>1, <2>4, <3>1, <3>2 DEF SkewInv
  <2> QED
    BY <1>1, <2>3, <2>4 DEF SkewInv
<1> QED
  BY <1>1, <1>2, <1>7, <1>8, <1>9 DEF ControlInv

\* What is left to signal stays so.
OpenStands(r, c) ==
  \A k \in Tasks : \A row \in RowsOf[k] : Open(r, c, k, row)' <=> Open(r, c, k, row)

\* Only a warp moves.
LEMMA WarpMoves ==
  ASSUME TypeInv, ControlInv, NEW r \in Ranks, NEW c \in SMs, NEW w \in Warps,
         NEW x \in WarpStates \ {"start"},
         setup' = setup, launch' = launch, UNCHANGED boxVars, UNCHANGED sigVars,
         todo' = todo, posting' = posting,
         warp' = [warp EXCEPT ![r][c][w] = x],
         warp[r][c][w] \in {"start", "math"} <=> x = "math"
  PROVE  LocalStep(r, c) /\ OpenStands(r, c)
<1>1. \A q \in Ranks, d \in SMs : Held(q, d)' = Held(q, d) /\ \A j : Entry(q, d, j)' = Entry(q, d, j)
  BY BoxesStand
<1>2. /\ \A v \in Warps : warp'[r][c][v] = IF v = w THEN x ELSE warp[r][c][v]
      /\ \A q \in Ranks, d \in SMs : q # r \/ d # c => warp'[q][d] = warp[q][d]
  BY DEF TypeInv
<1>3. OthersStand(r, c)
  BY <1>1, <1>2 DEF OthersStand, CtaStands, sigVars
<1>4. InLoop(r, c)' <=> InLoop(r, c)
  <2>1. 0 \in Warps /\ warp'[r][c][0] = IF 0 = w THEN x ELSE warp[r][c][0]
    BY <1>2, SetupFacts DEF TypeInv
  <2> QED
    BY <2>1 DEF InLoop
<1>5. Warps' = Warps /\ RowsOf' = RowsOf /\ setup.warps' = setup.warps
  BY SetupStands
<1>6. CtaInv(r, c)'
  <2>1. CtaInv(r, c)
    BY DEF ControlInv
  <2> QED
    BY <1>1, <1>2, <1>4, <1>5, <2>1 DEF CtaInv, Signals, sigVars
<1>7. \A k : (Has(r, c, k)' <=> Has(r, c, k)) /\ \A row : Open(r, c, k, row)' <=> Open(r, c, k, row)
  BY <1>1 DEF Has, Open, sigVars
<1>8. SignallerMoves(r, c)
  BY DEF SignallerMoves, Signals, sigVars
<1> QED
  BY <1>3, <1>6, <1>7, <1>8 DEF LocalStep, OpenStands

LEMMA WarpStepControl ==
  ASSUME TypeInv, ControlInv, NEW r \in Ranks, NEW c \in SMs, NEW w \in Warps,
         ReadEpoch(r, c, w) \/ Peek(r, c, w) \/ Claim(r, c, w) \/ Reduce(r, c, w)
  PROVE  LocalStep(r, c) /\ OpenStands(r, c)
<1>1. setup' = setup /\ launch' = launch /\ UNCHANGED boxVars /\ UNCHANGED sigVars
      /\ todo' = todo /\ posting' = posting
  BY DEF ReadEpoch, Peek, Claim, Reduce
<1>2. PICK x \in WarpStates \ {"start"} :
        /\ warp' = [warp EXCEPT ![r][c][w] = x]
        /\ warp[r][c][w] \in {"start", "math"} <=> x = "math"
  <2>1. CASE ReadEpoch(r, c, w)
    BY <2>1 DEF ReadEpoch, WarpStates
  <2>2. CASE Peek(r, c, w)
    <3>1. PICK x \in {"claim", "exited"} : warp' = [warp EXCEPT ![r][c][w] = x]
      BY <2>2 DEF Peek
    <3> QED
      BY <2>2, <3>1 DEF Peek, WarpStates
  <2>3. CASE Claim(r, c, w)
    <3>1. \/ warp' = [warp EXCEPT ![r][c][w] = "wait"]
          \/ warp' = [warp EXCEPT ![r][c][w] = "exited"]
      BY <2>3 DEF Claim
    <3>2. PICK x \in {"wait", "exited"} : warp' = [warp EXCEPT ![r][c][w] = x]
      BY <3>1
    <3> QED
      BY <2>3, <3>2 DEF Claim, WarpStates
  <2>4. CASE Reduce(r, c, w)
    <3>1. warp[r][c][w] = "wait" /\ warp' = [warp EXCEPT ![r][c][w] = "peek"]
      BY <2>4 DEF Reduce
    <3>2. PICK x \in {"peek"} : warp' = [warp EXCEPT ![r][c][w] = x]
      BY <3>1
    <3> QED
      BY <3>1, <3>2 DEF WarpStates
  <2> QED
    BY <2>1, <2>2, <2>3, <2>4
<1> QED
  BY <1>1, <1>2, WarpMoves

LEMMA LeaveTaskLoopControl ==
  ASSUME TypeInv, ControlInv, NEW r \in Ranks, NEW c \in SMs, NEW w \in Warps,
         LeaveTaskLoop(r, c, w)
  PROVE  LocalStep(r, c) /\ OpenStands(r, c)
<1>1. /\ setup' = setup /\ launch' = launch /\ UNCHANGED sigVars
      /\ todo' = todo /\ posting' = posting
      /\ warp' = [warp EXCEPT ![r][c][w] = "peek"]
      /\ warp[r][c][w] = "math" /\ todo[r][c] = {}
      /\ w = 0 => posting[r][c] = "none"
  BY DEF LeaveTaskLoop
<1>2. /\ \A v \in Warps : warp'[r][c][v] = IF v = w THEN "peek" ELSE warp[r][c][v]
      /\ \A q \in Ranks, d \in SMs : q # r \/ d # c => warp'[q][d] = warp[q][d]
  BY <1>1 DEF TypeInv
<1>3. Warps' = Warps /\ RowsOf' = RowsOf /\ setup.warps' = setup.warps
  BY <1>1, SetupStands
<1>4. CtaInv(r, c)
  BY DEF ControlInv
<1>5. 0 \in Warps
  BY SetupFacts DEF TypeInv
<1>6. SignallerMoves(r, c)
  BY <1>1 DEF SignallerMoves, Signals, sigVars
<1>7. CASE w = 0
  <2>1. Post(r, c, Done) /\ posting[r][c] = "none"
    BY <1>7 DEF LeaveTaskLoop
  <2>2. InLoop(r, c) /\ ~InLoop(r, c)'
    BY <1>1, <1>2, <1>5, <1>7 DEF InLoop
  <2>3. PICK h \in Nat : h = Held(r, c)
    BY HeldFacts
  <2>4. /\ h < RingSize /\ Held(r, c)' = h + 1
        /\ \A j \in 0 .. h - 1 : Entry(r, c, j)' = Entry(r, c, j)
        /\ Entry(r, c, h)' = Done
        /\ OtherBoxesStand(r, c)
    BY <2>1, <2>3, PostFacts
  <2>5. \A j \in 0 .. h - 1 : Entry(r, c, j) # Done
    BY <1>4, <2>2, <2>3 DEF CtaInv
  <2>6. Signals(r, c) /\ Signals(r, c)'
    BY <1>1, <1>4, <2>2 DEF CtaInv, Signals, sigVars
  <2>7. CtaInv(r, c)'
    <3>1. \A i, j \in 0 .. h : Entry(r, c, i)' = Entry(r, c, j)' => i = j
      BY <1>4, <2>3, <2>4, <2>5 DEF CtaInv
    <3>2. \A j \in 0 .. h : Entry(r, c, j)' = Done => j = h
      BY <2>3, <2>4, <2>5
    <3>3. \A j \in 0 .. h : Entry(r, c, j)' # posting'[r][c] /\ Entry(r, c, j)' \notin todo'[r][c]
      BY <1>1, <1>4, <2>1, <2>3, <2>4, RingFacts DEF CtaInv
    <3>4. sig'[r][c] = "rows" =>
            h + 1 > 0 /\ Entry(r, c, 0)' \in Tasks /\ rows'[r][c] \subseteq RowsOf[Entry(r, c, 0)']
      BY <1>1, <1>4, <2>3, <2>4 DEF CtaInv, sigVars
    <3>5. (\E v \in Warps : warp'[r][c][v] = "start") => todo'[r][c] # {} \/ setup.warps = 1
      BY <1>1, <1>2, <1>4 DEF CtaInv
    <3>6. RingSize \in Nat
      BY RingFacts
    <3> QED
      BY <1>1, <1>3, <2>1, <2>2, <2>3, <2>4, <2>6, <3>1, <3>2, <3>3, <3>4, <3>5, <3>6 DEF CtaInv
  <2>8. \A k \in Tasks : /\ Has(r, c, k)' => Has(r, c, k)
                         /\ \A row : Open(r, c, k, row)' <=> Open(r, c, k, row)
    BY <1>1, <2>3, <2>4, RingFacts DEF Has, Open, sigVars
  <2>9. OthersStand(r, c)
    BY <1>1, <1>2, <2>4 DEF OthersStand, OtherBoxesStand, CtaStands, sigVars
  <2> QED
    BY <1>1, <1>6, <2>7, <2>8, <2>9 DEF LocalStep, OpenStands
<1>8. CASE w # 0
  <2>1. UNCHANGED boxVars
    BY <1>8 DEF LeaveTaskLoop
  <2>2. \A q \in Ranks, d \in SMs : Held(q, d)' = Held(q, d) /\ \A j : Entry(q, d, j)' = Entry(q, d, j)
    BY <2>1, BoxesStand
  <2>3. InLoop(r, c)' <=> InLoop(r, c)
    BY <1>2, <1>5, <1>8 DEF InLoop
  <2>4. CtaInv(r, c)'
    BY <1>1, <1>2, <1>3, <1>4, <2>2, <2>3 DEF CtaInv, Signals, sigVars
  <2>5. \A k : (Has(r, c, k)' <=> Has(r, c, k)) /\ \A row : Open(r, c, k, row)' <=> Open(r, c, k, row)
    BY <1>1, <2>2 DEF Has, Open, sigVars
  <2>6. OthersStand(r, c)
    BY <1>1, <1>2, <2>2 DEF OthersStand, CtaStands, sigVars
  <2> QED
    BY <1>1, <1>6, <2>4, <2>5, <2>6 DEF LocalStep, OpenStands
<1> QED
  BY <1>7, <1>8

LEMMA RunTaskControl ==
  ASSUME TypeInv, ControlInv, NEW r \in Ranks, NEW c \in SMs, RunTask(r, c)
  PROVE  LocalStep(r, c) /\ OpenStands(r, c)
<1>1. /\ setup' = setup /\ launch' = launch
      /\ UNCHANGED boxVars /\ UNCHANGED sigVars /\ warp' = warp
      /\ \A w \in Warps : warp[r][c][w] = "math"
      /\ \A q \in Ranks : launch[q] >= launch[r]
      /\ posting[r][c] = "none"
  BY DEF RunTask, warpVars
<1>2. PICK k \in todo[r][c] :
        todo' = [todo EXCEPT ![r][c] = @ \ {k}] /\ posting' = [posting EXCEPT ![r][c] = k]
  BY DEF RunTask
<1>3. /\ todo'[r][c] = todo[r][c] \ {k} /\ posting'[r][c] = k /\ k \in Tasks
      /\ \A q \in Ranks, d \in SMs : q # r \/ d # c =>
           todo'[q][d] = todo[q][d] /\ posting'[q][d] = posting[q][d]
  BY <1>2 DEF TypeInv
<1>4. \A q \in Ranks, d \in SMs : Held(q, d)' = Held(q, d) /\ \A j : Entry(q, d, j)' = Entry(q, d, j)
  BY <1>1, BoxesStand
<1>5. OthersStand(r, c)
  BY <1>1, <1>3, <1>4 DEF OthersStand, CtaStands, sigVars
<1>6. InLoop(r, c) /\ InLoop(r, c)'
  BY <1>1, SetupFacts DEF InLoop, TypeInv
<1>7. Warps' = Warps /\ RowsOf' = RowsOf
  BY <1>1, SetupStands
<1>8. CtaInv(r, c)'
  <2>1. CtaInv(r, c)
    BY DEF ControlInv
  <2> QED
    BY <1>1, <1>3, <1>4, <1>6, <1>7, <2>1 DEF CtaInv, Signals, sigVars
<1>9. ASSUME NEW x \in Tasks
      PROVE  /\ Has(r, c, x)' <=> Has(r, c, x)
             /\ \A row : Open(r, c, x, row)' <=> Open(r, c, x, row)
  <2>1. x \in todo'[r][c] \/ posting'[r][c] = x <=> x \in todo[r][c] \/ posting[r][c] = x
    BY <1>1, <1>3, RingFacts
  <2> QED
    BY <1>1, <1>4, <2>1 DEF Has, Open, sigVars
<1>10. SignallerMoves(r, c)
  BY <1>1 DEF SignallerMoves, Signals, sigVars
<1> QED
  BY <1>1, <1>5, <1>8, <1>9, <1>10 DEF LocalStep, OpenStands

LEMMA PostTaskControl ==
  ASSUME TypeInv, ControlInv, NEW r \in Ranks, NEW c \in SMs, PostTask(r, c)
  PROVE  LocalStep(r, c) /\ OpenStands(r, c)
<1>1. /\ setup' = setup /\ launch' = launch /\ UNCHANGED sigVars /\ warp' = warp /\ todo' = todo
      /\ posting' = [posting EXCEPT ![r][c] = "none"]
  BY DEF PostTask, warpVars
<1>2. PICK k \in Tasks : k = posting[r][c]
  BY DEF PostTask
<1>3. /\ posting'[r][c] = "none"
      /\ \A q \in Ranks, d \in SMs : q # r \/ d # c => posting'[q][d] = posting[q][d]
  BY <1>1 DEF TypeInv
<1>4. PICK h \in Nat : h = Held(r, c)
  BY HeldFacts
<1>5. /\ h < RingSize /\ Held(r, c)' = h + 1
      /\ \A j \in 0 .. h - 1 : Entry(r, c, j)' = Entry(r, c, j)
      /\ Entry(r, c, h)' = k
      /\ OtherBoxesStand(r, c)
  BY <1>2, <1>4, PostFacts DEF PostTask
<1>6. CtaInv(r, c)
  BY DEF ControlInv
<1>7. InLoop(r, c) /\ InLoop(r, c)' /\ Signals(r, c) /\ Signals(r, c)'
  <2>1. InLoop(r, c)
    BY <1>2, <1>6, RingFacts DEF CtaInv
  <2>2. Signals(r, c)
    BY <1>6, <2>1 DEF CtaInv
  <2> QED
    BY <1>1, <2>1, <2>2 DEF InLoop, Signals, sigVars
<1>8. \A j \in 0 .. h - 1 : Entry(r, c, j) # k /\ Entry(r, c, j) # Done
  BY <1>2, <1>4, <1>6, <1>7 DEF CtaInv
<1>9. sig[r][c] = "rows" => h > 0
  BY <1>4, <1>6 DEF CtaInv
<1>10. CtaInv(r, c)'
  <2>1. \A i, j \in 0 .. h : Entry(r, c, i)' = Entry(r, c, j)' => i = j
    BY <1>4, <1>5, <1>6, <1>8 DEF CtaInv
  <2>2. \A j \in 0 .. h : Entry(r, c, j)' # Done
    BY <1>4, <1>5, <1>8, RingFacts
  <2>3. \A j \in 0 .. h : Entry(r, c, j)' # posting'[r][c] /\ Entry(r, c, j)' \notin todo'[r][c]
    <3>1. TAKE j \in 0 .. h
    <3>2. CASE j = h
      BY <1>1, <1>2, <1>3, <1>5, <1>6, <3>2, RingFacts DEF CtaInv
    <3>3. CASE j # h
      <4>1. j \in 0 .. h - 1 /\ j \in Nat
        BY <1>4, <3>3
      <4>2. Entry(r, c, j)' = Entry(r, c, j) /\ Entry(r, c, j) \in Tasks \cup {Done}
        BY <1>5, <4>1, HeldFacts
      <4>3. Entry(r, c, j) \notin todo[r][c]
        BY <1>4, <1>6, <4>1 DEF CtaInv
      <4> QED
        BY <1>1, <1>3, <4>2, <4>3, RingFacts
    <3> QED
      BY <3>2, <3>3
  <2>4. sig'[r][c] = "rows" =>
          h + 1 > 0 /\ Entry(r, c, 0)' \in Tasks /\ rows'[r][c] \subseteq RowsOf[Entry(r, c, 0)']
    <3>1. h > 0 => Entry(r, c, 0)' = Entry(r, c, 0)
      BY <1>4, <1>5
    <3> QED
      BY <1>1, <1>4, <1>6, <1>9, <3>1 DEF CtaInv, sigVars
  <2>5. posting'[r][c] \notin todo'[r][c]
    <3>1. todo[r][c] \subseteq Tasks
      BY DEF TypeInv
    <3> QED
      BY <1>1, <1>3, <3>1, RingFacts
  <2>6. (\E v \in Warps : warp'[r][c][v] = "start") => todo'[r][c] # {} \/ setup.warps = 1
    BY <1>1, <1>6 DEF CtaInv
  <2>7. RingSize \in Nat /\ Warps' = Warps /\ RowsOf' = RowsOf
    BY <1>1, RingFacts, SetupStands
  <2> QED
    BY <1>1, <1>4, <1>5, <1>7, <2>1, <2>2, <2>3, <2>4, <2>5, <2>6, <2>7 DEF CtaInv
<1>11. ASSUME NEW x \in Tasks
       PROVE  /\ Has(r, c, x)' => Has(r, c, x)
              /\ \A row : Open(r, c, x, row)' <=> Open(r, c, x, row)
  <2>1. x # "none"
    BY RingFacts
  <2>2. Has(r, c, x)' => Has(r, c, x)
    BY <1>1, <1>2, <1>3, <1>4, <1>5, <2>1 DEF Has
  <2>3. ASSUME NEW row PROVE Open(r, c, x, row)' <=> Open(r, c, x, row)
    <3>1. CASE x = k
      <4>1. Open(r, c, x, row)
        BY <1>2, <3>1 DEF Open
      <4>2. Open(r, c, x, row)'
        BY <1>1, <1>4, <1>5, <1>9, <3>1 DEF Open, sigVars
      <4> QED
        BY <4>1, <4>2
    <3>2. CASE x # k
      BY <1>1, <1>2, <1>3, <1>4, <1>5, <2>1, <3>2 DEF Open, sigVars
    <3> QED
      BY <3>1, <3>2
  <2> QED
    BY <2>2, <2>3
<1>12. OthersStand(r, c)
  BY <1>1, <1>3, <1>5 DEF OthersStand, OtherBoxesStand, CtaStands, sigVars
<1>13. SignallerMoves(r, c)
  BY <1>1 DEF SignallerMoves, Signals, sigVars
<1> QED
  BY <1>1, <1>10, <1>11, <1>12, <1>13 DEF LocalStep, OpenStands

LEMMA TakeEntryControl ==
  ASSUME TypeInv, ControlInv, NEW r \in Ranks, NEW c \in SMs, TakeEntry(r, c)
  PROVE  LocalStep(r, c) /\ OpenStands(r, c)
<1>1. /\ setup' = setup /\ launch' = launch /\ warp' = warp /\ todo' = todo /\ posting' = posting
      /\ produced' = produced /\ ring' = ring
      /\ sig[r][c] = "poll" /\ produced[r][c] # consumed[r][c]
  BY DEF TakeEntry, warpVars
<1>2. PICK h \in Nat : h = Held(r, c) /\ h > 0
  BY <1>1, HeldFacts
<1>3. PICK e \in Tasks \cup {Done} : e = Entry(r, c, 0) /\ e = ring[r][c][consumed[r][c] % RingSize]
  BY HeldFacts
<1>4. CtaInv(r, c)
  BY DEF ControlInv
<1>5. Warps' = Warps /\ RowsOf' = RowsOf
  BY <1>1, SetupStands
<1>6. CASE e = Done
  <2>1. /\ sig' = [sig EXCEPT ![r][c] = "grid"] /\ rows' = rows
        /\ consumed' = [consumed EXCEPT ![r][c] = (@ + 1) % SeqMod]
    BY <1>3, <1>6 DEF TakeEntry
  <2>2. h = 1 /\ ~InLoop(r, c)
    BY <1>2, <1>3, <1>4, <1>6 DEF CtaInv
  <2>3. Held(r, c)' = 0 /\ OtherBoxesStand(r, c)
    <3>1. Held(r, c) > 0 /\ Held(r, c) - 1 = 0
      BY <1>2, <2>2
    <3> QED
      BY <1>1, <2>1, <3>1, TakeFacts
  <2>4. /\ sig'[r][c] = "grid"
        /\ \A q \in Ranks, d \in SMs : q # r \/ d # c => sig'[q][d] = sig[q][d]
    BY <2>1 DEF TypeInv
  <2>5. CtaInv(r, c)'
    <3>1. RingSize \in Nat
      BY RingFacts
    <3>2. ~InLoop(r, c)'
      BY <1>1, <2>2 DEF InLoop
    <3>3. \A j \in 0 .. 0 - 1 : FALSE
      OBVIOUS
    <3> QED
      BY <1>1, <1>4, <1>5, <2>2, <2>3, <2>4, <3>1, <3>2, <3>3 DEF CtaInv, Signals
  <2>6. ASSUME NEW k \in Tasks
        PROVE  /\ Has(r, c, k)' <=> Has(r, c, k)
               /\ \A row : Open(r, c, k, row)' <=> Open(r, c, k, row)
    <3>1. k # Done
      BY RingFacts
    <3>2. \A j \in 0 .. h - 1 : Entry(r, c, j) # k
      BY <1>3, <1>6, <2>2, <3>1
    <3>3. \A j \in 0 .. 0 - 1 : FALSE
      OBVIOUS
    <3> QED
      BY <1>1, <1>2, <2>3, <3>2, <3>3 DEF Has, Open
  <2>7. OthersStand(r, c)
    BY <1>1, <2>1, <2>3, <2>4 DEF OthersStand, OtherBoxesStand, CtaStands
  <2>8. SignallerMoves(r, c)
    BY <1>1, <2>4 DEF SignallerMoves, Signals
  <2> QED
    BY <1>1, <2>5, <2>6, <2>7, <2>8 DEF LocalStep, OpenStands
<1>7. CASE e \in Tasks
  <2>1. /\ sig' = [sig EXCEPT ![r][c] = "rows"] /\ rows' = [rows EXCEPT ![r][c] = RowsOf[e]]
        /\ consumed' = consumed
    BY <1>3, <1>7, RingFacts DEF TakeEntry
  <2>2. \A q \in Ranks, d \in SMs : Held(q, d)' = Held(q, d) /\ \A j : Entry(q, d, j)' = Entry(q, d, j)
    BY <1>1, <2>1, BoxesStand DEF boxVars
  <2>3. /\ sig'[r][c] = "rows" /\ rows'[r][c] = RowsOf[e]
        /\ \A q \in Ranks, d \in SMs : q # r \/ d # c =>
             sig'[q][d] = sig[q][d] /\ rows'[q][d] = rows[q][d]
    BY <2>1 DEF TypeInv
  <2>4. InLoop(r, c)' <=> InLoop(r, c)
    BY <1>1 DEF InLoop
  <2>5. CtaInv(r, c)'
    BY <1>1, <1>2, <1>3, <1>4, <1>5, <1>7, <2>2, <2>3, <2>4 DEF CtaInv, Signals
  <2>6. ASSUME NEW k \in Tasks
        PROVE  /\ Has(r, c, k)' <=> Has(r, c, k)
               /\ \A row \in RowsOf[k] : Open(r, c, k, row)' <=> Open(r, c, k, row)
    BY <1>1, <1>3, <2>2, <2>3 DEF Has, Open
  <2>7. OthersStand(r, c)
    BY <1>1, <2>2, <2>3 DEF OthersStand, CtaStands
  <2>8. SignallerMoves(r, c)
    BY <1>1, <2>3 DEF SignallerMoves, Signals
  <2> QED
    BY <1>1, <2>5, <2>6, <2>7, <2>8 DEF LocalStep, OpenStands
<1> QED
  BY <1>6, <1>7

LEMMA EndEntryControl ==
  ASSUME TypeInv, ControlInv, NEW r \in Ranks, NEW c \in SMs, EndEntry(r, c)
  PROVE  LocalStep(r, c) /\ OpenStands(r, c)
<1>1. /\ setup' = setup /\ launch' = launch /\ warp' = warp /\ todo' = todo /\ posting' = posting
      /\ produced' = produced /\ ring' = ring /\ rows' = rows
      /\ consumed' = [consumed EXCEPT ![r][c] = (@ + 1) % SeqMod]
      /\ sig' = [sig EXCEPT ![r][c] = "poll"]
      /\ sig[r][c] = "rows" /\ rows[r][c] = {}
  BY DEF EndEntry, warpVars
<1>2. CtaInv(r, c)
  BY DEF ControlInv
<1>3. PICK h \in Nat : h = Held(r, c) /\ h > 0
  BY <1>1, <1>2, HeldFacts DEF CtaInv
<1>4. /\ Held(r, c)' = h - 1 /\ OtherBoxesStand(r, c)
      /\ \A j \in 0 .. h - 2 : Entry(r, c, j)' = Entry(r, c, j + 1)
  BY <1>1, <1>3, TakeFacts
<1>5. /\ sig'[r][c] = "poll"
      /\ \A q \in Ranks, d \in SMs : q # r \/ d # c => sig'[q][d] = sig[q][d]
  BY <1>1 DEF TypeInv
<1>6. Warps' = Warps /\ RowsOf' = RowsOf
  BY <1>1, SetupStands
<1>7. InLoop(r, c)' <=> InLoop(r, c)
  BY <1>1 DEF InLoop
<1>8. CtaInv(r, c)'
  <2>1. h - 1 <= RingSize /\ RingSize \in Nat
    BY <1>2, <1>3, RingFacts DEF CtaInv
  <2>2. \A i, j \in 0 .. h - 2 : Entry(r, c, i)' = Entry(r, c, j)' => i = j
    BY <1>2, <1>3, <1>4 DEF CtaInv
  <2>3. \A j \in 0 .. h - 2 : Entry(r, c, j)' = Done => j = h - 2 /\ ~InLoop(r, c)
    BY <1>2, <1>3, <1>4 DEF CtaInv
  <2>4. \A j \in 0 .. h - 2 : Entry(r, c, j)' # posting[r][c] /\ Entry(r, c, j)' \notin todo[r][c]
    BY <1>2, <1>3, <1>4 DEF CtaInv
  <2>5. h - 1 - 1 = h - 2
    BY <1>3
  <2> QED
    BY <1>1, <1>2, <1>3, <1>4, <1>5, <1>6, <1>7, <2>1, <2>2, <2>3, <2>4, <2>5 DEF CtaInv, Signals
<1>9. ASSUME NEW k \in Tasks
      PROVE  /\ Has(r, c, k)' => Has(r, c, k)
             /\ \A row : Open(r, c, k, row)' <=> Open(r, c, k, row)
  <2>1. h - 1 - 1 = h - 2
    BY <1>3
  <2>2. (\E j \in 0 .. h - 2 : Entry(r, c, j)' = k) <=> \E j \in 1 .. h - 1 : Entry(r, c, j) = k
    <3>1. ASSUME NEW j \in 0 .. h - 2, Entry(r, c, j)' = k
          PROVE  \E i \in 1 .. h - 1 : Entry(r, c, i) = k
      BY <1>3, <1>4, <3>1
    <3>2. ASSUME NEW i \in 1 .. h - 1, Entry(r, c, i) = k
          PROVE  \E j \in 0 .. h - 2 : Entry(r, c, j)' = k
      <4>1. PICK j \in 0 .. h - 2 : i = j + 1
        <5>1. i - 1 \in 0 .. h - 2 /\ i = (i - 1) + 1
          BY <1>3
        <5> QED
          BY <5>1
      <4> QED
        BY <1>4, <3>2, <4>1
    <3> QED
      BY <3>1, <3>2
  <2>3. Has(r, c, k)' => Has(r, c, k)
    BY <1>1, <1>3, <1>4, <2>1, <2>2 DEF Has
  <2>4. ASSUME NEW row PROVE Open(r, c, k, row)' <=> Open(r, c, k, row)
    <3>1. Open(r, c, k, row)' <=>
            k \in todo[r][c] \/ posting[r][c] = k \/ \E j \in 0 .. h - 2 : Entry(r, c, j)' = k
      BY <1>1, <1>4, <1>5, <2>1 DEF Open
    <3>2. Open(r, c, k, row) <=>
            k \in todo[r][c] \/ posting[r][c] = k \/ \E j \in 1 .. h - 1 : Entry(r, c, j) = k
      BY <1>1, <1>3 DEF Open
    <3> QED
      BY <2>2, <3>1, <3>2
  <2> QED
    BY <2>3, <2>4
<1>10. OthersStand(r, c)
  BY <1>1, <1>4, <1>5 DEF OthersStand, OtherBoxesStand, CtaStands
<1>11. SignallerMoves(r, c)
  BY <1>1, <1>5 DEF SignallerMoves, Signals
<1> QED
  BY <1>1, <1>8, <1>9, <1>10, <1>11 DEF LocalStep, OpenStands

\* The signaller has signalled a row of its oldest entry.
RowSignalled(r, c, row) ==
  /\ arrival' = [arrival EXCEPT ![row[1]][row[2]] = @ + 1]
  /\ Entry(r, c, 0) \in Tasks /\ row \in RowsOf[Entry(r, c, 0)]
  /\ Open(r, c, Entry(r, c, 0), row)
  /\ \A k \in Tasks : \A x \in RowsOf[k] :
       Open(r, c, k, x)' <=> Open(r, c, k, x) /\ ~(k = Entry(r, c, 0) /\ x = row)

LEMMA SignalRowControl ==
  ASSUME TypeInv, ControlInv, NEW r \in Ranks, NEW c \in SMs, SignalRow(r, c)
  PROVE  LocalStep(r, c) /\ \E row \in Rows : RowSignalled(r, c, row)
<1>1. /\ setup' = setup /\ launch' = launch /\ UNCHANGED boxVars /\ warp' = warp
      /\ todo' = todo /\ posting' = posting /\ sig' = sig /\ sig[r][c] = "rows"
  BY DEF SignalRow, warpVars
<1>2. PICK row \in rows[r][c] :
        /\ arrival' = [arrival EXCEPT ![row[1]][row[2]] = @ + 1]
        /\ rows' = [rows EXCEPT ![r][c] = @ \ {row}]
  BY DEF SignalRow
<1>3. /\ rows'[r][c] = rows[r][c] \ {row} /\ row \in Rows
      /\ \A q \in Ranks, d \in SMs : q # r \/ d # c => rows'[q][d] = rows[q][d]
  BY <1>2 DEF TypeInv
<1>4. \A q \in Ranks, d \in SMs : Held(q, d)' = Held(q, d) /\ \A j : Entry(q, d, j)' = Entry(q, d, j)
  BY <1>1, BoxesStand
<1>5. CtaInv(r, c)
  BY DEF ControlInv
<1>6. PICK h \in Nat : h = Held(r, c) /\ h > 0
  BY <1>1, <1>5, HeldFacts DEF CtaInv
<1>7. CtaInv(r, c)'
  <2>1. Warps' = Warps /\ RowsOf' = RowsOf
    BY <1>1, SetupStands
  <2>2. InLoop(r, c)' <=> InLoop(r, c)
    BY <1>1 DEF InLoop
  <2> QED
    BY <1>1, <1>3, <1>4, <1>5, <2>1, <2>2 DEF CtaInv, Signals
<1>8. \A k : Has(r, c, k)' <=> Has(r, c, k)
  BY <1>1, <1>4 DEF Has
<1>9. PICK e \in Tasks : e = Entry(r, c, 0) /\ rows[r][c] \subseteq RowsOf[e]
  BY <1>1, <1>5 DEF CtaInv
<1>10. /\ e \notin todo[r][c] /\ posting[r][c] # e
       /\ \A j \in 0 .. h - 1 : Entry(r, c, j) = e => j = 0
  BY <1>5, <1>6, <1>9 DEF CtaInv
<1>11. \A j \in 0 .. h - 1 : j = 0 \/ Entry(r, c, j) # e
  BY <1>10
<1>12. \A k, x : Open(r, c, k, x) <=>
         \/ k \in todo[r][c] \/ posting[r][c] = k
         \/ k = e /\ x \in rows[r][c]
         \/ \E j \in 1 .. h - 1 : Entry(r, c, j) = k
  <2>1. TAKE k, x
  <2>2. 0 \in 0 .. h - 1 /\ \A j \in 0 .. h - 1 : j = 0 \/ j \in 1 .. h - 1
    BY <1>6
  <2>3. \A j \in 1 .. h - 1 : j \in 0 .. h - 1 /\ j # 0
    BY <1>6
  <2> QED
    BY <1>1, <1>6, <1>9, <2>2, <2>3 DEF Open
<1>13. \A k, x : Open(r, c, k, x)' <=>
         \/ k \in todo[r][c] \/ posting[r][c] = k
         \/ k = e /\ x \in rows[r][c] \ {row}
         \/ \E j \in 1 .. h - 1 : Entry(r, c, j) = k
  <2>1. TAKE k, x
  <2>2. 0 \in 0 .. h - 1 /\ \A j \in 0 .. h - 1 : j = 0 \/ j \in 1 .. h - 1
    BY <1>6
  <2>3. \A j \in 1 .. h - 1 : j \in 0 .. h - 1 /\ j # 0
    BY <1>6
  <2> QED
    BY <1>1, <1>3, <1>4, <1>6, <1>9, <2>2, <2>3 DEF Open
<1>14. \A j \in 1 .. h - 1 : Entry(r, c, j) # e
  BY <1>6, <1>10
<1>15. RowSignalled(r, c, row)
  BY <1>2, <1>9, <1>10, <1>12, <1>13, <1>14 DEF RowSignalled
<1>16. OthersStand(r, c)
  BY <1>1, <1>3, <1>4 DEF OthersStand, CtaStands
<1>17. SignallerMoves(r, c)
  BY <1>1 DEF SignallerMoves, Signals
<1> QED
  BY <1>1, <1>3, <1>7, <1>8, <1>15, <1>16, <1>17 DEF LocalStep

LEMMA CleanupControl ==
  ASSUME TypeInv, ControlInv, NEW r \in Ranks, NEW c \in SMs, Cleanup(r, c) \/ LeaveBarrier3(r, c)
  PROVE  LocalStep(r, c) /\ OpenStands(r, c)
<1>1. /\ setup' = setup /\ launch' = launch /\ UNCHANGED boxVars /\ warp' = warp
      /\ todo' = todo /\ posting' = posting /\ rows' = rows
      /\ sig[r][c] \in {"grid", "barrier3"}
  BY DEF Cleanup, LeaveBarrier3, warpVars
<1>2. PICK s \in {"barrier3", "exited"} : sig' = [sig EXCEPT ![r][c] = s]
  BY DEF Cleanup, LeaveBarrier3
<1>3. /\ sig'[r][c] = s /\ s \in {"barrier3", "exited"}
      /\ \A q \in Ranks, d \in SMs : q # r \/ d # c => sig'[q][d] = sig[q][d]
  BY <1>2 DEF TypeInv
<1>4. \A q \in Ranks, d \in SMs : Held(q, d)' = Held(q, d) /\ \A j : Entry(q, d, j)' = Entry(q, d, j)
  BY <1>1, BoxesStand
<1>5. CtaInv(r, c)'
  <2>1. Warps' = Warps /\ RowsOf' = RowsOf
    BY <1>1, SetupStands
  <2>2. InLoop(r, c)' <=> InLoop(r, c)
    BY <1>1 DEF InLoop
  <2>3. CtaInv(r, c)
    BY DEF ControlInv
  <2> QED
    BY <1>1, <1>3, <1>4, <2>1, <2>2, <2>3 DEF CtaInv, Signals
<1>6. \A k : (Has(r, c, k)' <=> Has(r, c, k)) /\ \A row : Open(r, c, k, row)' <=> Open(r, c, k, row)
  BY <1>1, <1>3, <1>4 DEF Has, Open
<1>7. SignallerMoves(r, c)
  <2>1. CASE Cleanup(r, c)
    <3>1. sig'[r][c] = "barrier3"
      BY <2>1 DEF Cleanup, TypeInv
    <3>2. \A d \in SMs : ~Signals(r, d)
      BY <2>1 DEF Cleanup, Signals
    <3> QED
      BY <1>1, <3>1, <3>2 DEF SignallerMoves, Signals
  <2>2. CASE LeaveBarrier3(r, c)
    BY <1>1, <1>3, <2>2 DEF LeaveBarrier3, SignallerMoves, Signals
  <2> QED
    BY <2>1, <2>2
<1>8. OthersStand(r, c)
  BY <1>1, <1>3, <1>4 DEF OthersStand, CtaStands
<1> QED
  BY <1>1, <1>5, <1>6, <1>7, <1>8 DEF LocalStep, OpenStands

-----------------------------------------------------------------------------
(***************************************************************************)
(* ControlInv: launches.                                                   *)
(***************************************************************************)
LEMMA InitControl == Init => ControlInv
<1> SUFFICES ASSUME Init PROVE ControlInv
  OBVIOUS
<1>1. TypeInv
  BY InitType
<1>2. \A r \in Ranks, c \in SMs :
        /\ produced[r][c] = consumed[r][c]
        /\ todo[r][c] = {} /\ posting[r][c] = "none" /\ sig[r][c] = "exited"
        /\ \A w \in Warps : warp[r][c][w] = "exited"
  BY DEF Init, PerCta, PerWarp
<1>3. \A r \in Ranks, c \in SMs : Held(r, c) = 0 /\ ~InLoop(r, c) /\ ~Signals(r, c)
  BY <1>1, <1>2, HeldFacts, SetupFacts DEF InLoop, Signals, TypeInv
<1>4. \A j \in 0 .. 0 - 1 : FALSE
  OBVIOUS
<1>5. ASSUME NEW r \in Ranks, NEW c \in SMs PROVE CtaInv(r, c)
  BY <1>2, <1>3, <1>4, RingFacts DEF CtaInv
<1>6. \A r \in Ranks : InBarrier3(r) /\ StageInv(r)
  BY <1>2, <1>3 DEF InBarrier3, StageInv
<1>7. \A r \in Ranks, c \in SMs, k \in Tasks : ~Has(r, c, k)
  BY <1>2, <1>3, <1>4, RingFacts DEF Has
<1>8. \A r \in Ranks : TaskInv(r)
  BY <1>7 DEF TaskInv
<1>9. \A r \in Ranks : SkewInv(r)
  BY <1>6 DEF Init, SkewInv, Signalled3
<1> QED
  BY <1>5, <1>6, <1>8, <1>9 DEF ControlInv

\* A rank whose CTAs have left has nothing in hand, and no rank is behind it.
LEMMA IdleFacts ==
  ASSUME TypeInv, ControlInv, NEW r \in Ranks, Idle(r)
  PROVE  /\ \A c \in SMs : /\ Held(r, c) = 0 /\ todo[r][c] = {} /\ posting[r][c] = "none"
                           /\ \A k \in Tasks : ~Has(r, c, k) /\ \A row : ~Open(r, c, k, row)
         /\ \A q \in Ranks : /\ launch[q] = launch[r] \/ launch[q] = launch[r] + 1
                             /\ launch[q] = launch[r] => InBarrier3(q)
<1>1. ASSUME NEW c \in SMs
      PROVE  Held(r, c) = 0 /\ todo[r][c] = {} /\ posting[r][c] = "none"
  BY DEF Idle, ControlInv, CtaInv, Signals
<1>2. \A j \in 0 .. 0 - 1 : FALSE
  OBVIOUS
<1>3. \A c \in SMs, k \in Tasks : ~Has(r, c, k) /\ \A row : ~Open(r, c, k, row)
  BY <1>1, <1>2, RingFacts DEF Has, Open
<1>4. ASSUME NEW q \in Ranks
      PROVE  /\ launch[q] = launch[r] \/ launch[q] = launch[r] + 1
             /\ launch[q] = launch[r] => InBarrier3(q)
  <2>1. 0 \in SMs /\ launch[q] \in Nat /\ launch[r] \in Nat
    BY SetupFacts DEF TypeInv
  <2>2. Signalled3(q, launch[r])
    BY <2>1 DEF Idle, ControlInv, SkewInv
  <2>3. launch[q] > launch[r] => launch[q] = launch[r] + 1
    BY DEF ControlInv, SkewInv
  <2> QED
    BY <2>1, <2>2, <2>3 DEF Signalled3
<1> QED
  BY <1>1, <1>3, <1>4

LEMMA LaunchFacts ==
  ASSUME NoIdleCta, TypeInv, ControlInv, NEW r \in Ranks, Launch(r)
  PROVE  /\ setup' = setup /\ UNCHANGED wordVars /\ parity' = parity /\ token' = token
         /\ launch'[r] = launch[r] + 1
         /\ \A q \in Ranks : q # r => /\ launch'[q] = launch[q]
                                      /\ \A d \in SMs : CtaStands(q, d)
         /\ \A c \in SMs : /\ Held(r, c)' = 0 /\ posting'[r][c] = "none" /\ sig'[r][c] = "poll"
                           /\ todo'[r][c] # {} \/ setup.warps = 1
                           /\ \A w \in Warps : warp'[r][c][w] = "start"
         /\ \A k \in Tasks, c \in SMs : k \in todo'[r][c] => Home(k) = r
         /\ \A k \in Tasks : Home(k) = r => \E c \in SMs : k \in todo'[r][c]
         /\ \A k \in Tasks, c, d \in SMs : k \in todo'[r][c] /\ k \in todo'[r][d] => c = d
<1>1. /\ setup' = setup /\ UNCHANGED wordVars /\ UNCHANGED boxVars /\ parity' = parity /\ token' = token
      /\ posting' = posting /\ rows' = rows
      /\ launch' = [launch EXCEPT ![r] = @ + 1]
      /\ sig' = [sig EXCEPT ![r] = [c \in SMs |-> "poll"]]
      /\ warp' = [warp EXCEPT ![r] = [c \in SMs |-> [w \in Warps |-> "start"]]]
      /\ Idle(r)
  BY DEF Launch
<1>2. PICK place \in setup.placements :
        todo' = [todo EXCEPT ![r] = [c \in SMs |-> {k \in Tasks : place[k] = <<r, c>>}]]
  BY DEF Launch
<1>3. /\ launch'[r] = launch[r] + 1
      /\ \A q \in Ranks : q # r => launch'[q] = launch[q]
  BY <1>1 DEF TypeInv
<1>4. \A q \in Ranks, d \in SMs : Held(q, d)' = Held(q, d) /\ \A j : Entry(q, d, j)' = Entry(q, d, j)
  BY <1>1, BoxesStand
<1>5. \A q \in Ranks : q # r => \A d \in SMs : CtaStands(q, d)
  BY <1>1, <1>2, <1>4 DEF CtaStands, TypeInv
<1>6. \A c \in SMs : /\ Held(r, c)' = 0 /\ posting'[r][c] = "none" /\ sig'[r][c] = "poll"
                     /\ \A w \in Warps : warp'[r][c][w] = "start"
  BY <1>1, <1>4, IdleFacts DEF TypeInv
<1>7. \A c \in SMs : todo'[r][c] = {k \in Tasks : place[k] = <<r, c>>}
  BY <1>2 DEF TypeInv
<1>8. place \in [Tasks -> Ranks \X SMs]
  BY <1>2, SetupFacts DEF TypeInv
<1>9. \A k \in Tasks : Home(k) = place[k][1]
  <2>1. PICK p \in setup.placements : p = CHOOSE x \in setup.placements : TRUE
    BY <1>2
  <2>2. \A k \in Tasks : p[k][1] = place[k][1]
    BY <1>2, SetupFacts DEF TypeInv
  <2> QED
    BY <2>1, <2>2 DEF Home
<1>10. \A c \in SMs : todo'[r][c] # {} \/ setup.warps = 1
  <2>1. TAKE c \in SMs
  <2>2. setup.warps = 1 \/ \E k \in Tasks : place[k] = <<r, c>>
    BY <1>2 DEF NoIdleCta, TypeInv, Ranks, NumRanks
  <2> QED
    BY <1>7, <2>2
<1>11. \A k \in Tasks, c \in SMs : k \in todo'[r][c] => Home(k) = r
  BY <1>7, <1>9
<1>12. \A k \in Tasks : Home(k) = r => \E c \in SMs : k \in todo'[r][c]
  <2>1. TAKE k \in Tasks
  <2>2. HAVE Home(k) = r
  <2>3. place[k] \in Ranks \X SMs
    BY <1>8
  <2>4. PICK c \in SMs : place[k] = <<r, c>>
    BY <1>9, <2>2, <2>3
  <2> QED
    BY <1>7, <2>4
<1>13. \A k \in Tasks, c, d \in SMs : k \in todo'[r][c] /\ k \in todo'[r][d] => c = d
  BY <1>7
<1> QED
  BY <1>1, <1>3, <1>5, <1>6, <1>10, <1>11, <1>12, <1>13

LEMMA LaunchControl ==
  ASSUME NoIdleCta, TypeInv, ControlInv, NEW r \in Ranks, Launch(r)
  PROVE  ControlInv'
<1>1. Ranks' = Ranks /\ SMs' = SMs /\ Warps' = Warps /\ setup' = setup
  BY LaunchFacts, SetupStands
<1>2. \A j \in 0 .. 0 - 1 : FALSE
  OBVIOUS
<1>3. \A k : Home(k)' = Home(k)
  BY <1>1 DEF Home
<1>4. \A c \in SMs : InLoop(r, c)' /\ Signals(r, c)'
  <2>1. 0 \in Warps
    BY SetupFacts DEF TypeInv
  <2> QED
    BY <2>1, LaunchFacts DEF InLoop, Signals
<1>5. ASSUME NEW q \in Ranks, NEW d \in SMs PROVE CtaInv(q, d)'
  <2>1. CASE q = r
    <3>1. /\ Held(r, d)' = 0 /\ posting'[r][d] = "none" /\ sig'[r][d] = "poll"
          /\ todo'[r][d] # {} \/ setup.warps = 1
      BY LaunchFacts
    <3>2. RingSize \in Nat
      BY RingFacts
    <3>3. posting'[r][d] \notin todo'[r][d]
      <4>1. todo'[r][d] \subseteq Tasks
        <5>1. TypeInv'
          BY NextType DEF Next
        <5> QED
          BY <1>1, <5>1 DEF TypeInv
      <4> QED
        BY <3>1, <4>1, RingFacts
    <3> QED
      BY <1>1, <1>2, <1>4, <2>1, <3>1, <3>2, <3>3 DEF CtaInv
  <2>2. CASE q # r
    BY <2>2, LaunchFacts, CtaFacts DEF ControlInv
  <2> QED
    BY <2>1, <2>2
<1>6. ASSUME NEW q \in Ranks PROVE StageInv(q)'
  <2>1. CASE q = r
    BY <1>1, <2>1, LaunchFacts DEF StageInv
  <2>2. CASE q # r
    <3>1. \A d \in SMs : sig'[q][d] = sig[q][d]
      BY <2>2, LaunchFacts DEF CtaStands
    <3> QED
      BY <1>1, <3>1 DEF StageInv, ControlInv, Signals, InBarrier3
  <2> QED
    BY <2>1, <2>2
<1>7. ASSUME NEW q \in Ranks PROVE TaskInv(q)'
  <2>1. CASE q = r
    <3>1. \A c \in SMs, k \in Tasks : Has(r, c, k)' => k \in todo'[r][c]
      BY <1>2, LaunchFacts, RingFacts DEF Has
    <3>2. \A c, d \in SMs, k \in Tasks :
            Has(r, c, k)' => Home(k) = r /\ (Has(r, d, k)' => c = d)
      BY <3>1, LaunchFacts
    <3> QED
      BY <1>1, <1>3, <2>1, <3>2 DEF TaskInv
  <2>2. CASE q # r
    <3>1. \A c \in SMs, k \in Tasks : Has(q, c, k)' <=> Has(q, c, k)
      BY <2>2, LaunchFacts, CtaFacts
    <3> QED
      BY <1>1, <1>3, <3>1 DEF TaskInv, ControlInv
  <2> QED
    BY <2>1, <2>2
<1>8. \A q \in Ranks : launch[q] \in Nat
  BY DEF TypeInv
<1>9. Idle(r)
  BY DEF Launch
<1>10. \A q \in Ranks, n \in Nat : Signalled3(q, n) => Signalled3(q, n)'
  <2>1. TAKE q \in Ranks, n \in Nat
  <2>2. CASE q = r
    BY <1>8, <2>2, LaunchFacts DEF Signalled3
  <2>3. CASE q # r
    <3>1. \A d \in SMs : sig'[q][d] = sig[q][d]
      BY <2>3, LaunchFacts DEF CtaStands
    <3> QED
      BY <1>1, <2>3, <3>1, LaunchFacts DEF Signalled3, InBarrier3
  <2> QED
    BY <2>2, <2>3
<1>11. ASSUME NEW q \in Ranks PROVE SkewInv(q)'
  <2>1. 0 \in SMs
    BY SetupFacts DEF TypeInv
  <2>2. CASE q = r
    <3>1. sig'[r][0] # "exited"
      BY <2>1, LaunchFacts
    <3>2. ASSUME NEW p \in Ranks, launch'[r] > launch'[p]
          PROVE  /\ launch'[r] = launch'[p] + 1 /\ InBarrier3(p)'
                 /\ \A k \in Tasks : Home(k)' = r => \E d \in SMs : k \in todo'[r][d]
      <4>1. p # r
        BY <1>8, <3>2, LaunchFacts
      <4>2. launch[p] = launch[r] /\ InBarrier3(p)
        BY <1>8, <1>9, <3>2, <4>1, LaunchFacts, IdleFacts
      <4>3. \A d \in SMs : sig'[p][d] = sig[p][d]
        BY <4>1, LaunchFacts DEF CtaStands
      <4> QED
        BY <1>1, <1>3, <4>1, <4>2, <4>3, LaunchFacts DEF InBarrier3
    <3> QED
      BY <1>1, <2>2, <3>1, <3>2 DEF SkewInv
  <2>3. CASE q # r
    <3>1. SkewInv(q) /\ launch'[q] = launch[q]
      BY <2>3, LaunchFacts DEF ControlInv
    <3>2. \A d \in SMs : sig'[q][d] = sig[q][d] /\ todo'[q][d] = todo[q][d]
      BY <2>3, LaunchFacts DEF CtaStands
    <3>3. sig'[q][0] = "exited" => \A p \in Ranks : Signalled3(p, launch[q])'
      <4>1. PICK n \in Nat : n = launch[q]
        BY <1>8
      <4>2. sig'[q][0] = "exited" => \A p \in Ranks : Signalled3(p, n)'
        BY <1>10, <2>1, <3>1, <3>2, <4>1 DEF SkewInv
      <4> QED
        BY <3>1, <4>1, <4>2 DEF Signalled3
    <3>4. ASSUME NEW p \in Ranks, launch'[q] > launch'[p]
          PROVE  /\ launch'[q] = launch'[p] + 1 /\ InBarrier3(p)'
                 /\ \A k \in Tasks : Home(k)' = q => \E d \in SMs : k \in todo'[q][d]
      <4>1. p # r
        BY <1>8, <1>9, <3>1, <3>4, LaunchFacts, IdleFacts
      <4>2. \A d \in SMs : sig'[p][d] = sig[p][d]
        BY <4>1, LaunchFacts DEF CtaStands
      <4>3. launch'[p] = launch[p]
        BY <4>1, LaunchFacts
      <4> QED
        BY <1>1, <1>3, <3>1, <3>2, <3>4, <4>2, <4>3 DEF SkewInv, InBarrier3
    <3> QED
      BY <1>1, <3>3, <3>4 DEF SkewInv
  <2> QED
    BY <2>2, <2>3
<1> QED
  BY <1>1, <1>5, <1>6, <1>7, <1>11 DEF ControlInv

LEMMA StutterControl ==
  ASSUME TypeInv, ControlInv, UNCHANGED vars
  PROVE  \A r \in Ranks, c \in SMs : LocalStep(r, c) /\ OpenStands(r, c)
<1>1. /\ setup' = setup /\ launch' = launch /\ UNCHANGED boxVars /\ UNCHANGED sigVars
      /\ todo' = todo /\ posting' = posting /\ warp' = warp
  BY DEF vars, warpVars
<1>2. \A q \in Ranks, d \in SMs : CtaStands(q, d)
  BY <1>1, BoxesStand DEF CtaStands, sigVars
<1>3. \A q \in Ranks, d \in SMs : CtaInv(q, d)' /\ \A k : Has(q, d, k)' => Has(q, d, k)
  BY <1>1, <1>2, CtaFacts DEF ControlInv
<1>4. \A q \in Ranks, d \in SMs : SignallerMoves(q, d)
  BY <1>1 DEF SignallerMoves, Signals, sigVars
<1>5. \A q \in Ranks, d \in SMs : OpenStands(q, d)
  BY <1>1, <1>2, CtaFacts DEF OpenStands
<1> QED
  BY <1>1, <1>2, <1>3, <1>4, <1>5 DEF LocalStep, OthersStand

LEMMA NextControl == NoIdleCta /\ TypeInv /\ ControlInv /\ [Next]_vars => ControlInv'
<1> SUFFICES ASSUME NoIdleCta, TypeInv, ControlInv, [Next]_vars PROVE ControlInv'
  OBVIOUS
<1>1. CASE UNCHANGED vars
  <2>1. 0 \in Ranks /\ 0 \in SMs
    BY SetupFacts DEF TypeInv
  <2> QED
    BY <1>1, <2>1, StutterControl, LocalControl
<1>2. ASSUME NEW r \in Ranks, Launch(r) PROVE ControlInv'
  BY <1>2, LaunchControl
<1>3. ASSUME NEW r \in Ranks, NEW c \in SMs, TaskStep(r, c) PROVE ControlInv'
  BY <1>3, RunTaskControl, PostTaskControl, LocalControl DEF TaskStep
<1>4. ASSUME NEW r \in Ranks, NEW c \in SMs, SignallerStep(r, c) PROVE ControlInv'
  BY <1>4, TakeEntryControl, SignalRowControl, EndEntryControl, CleanupControl, LocalControl
     DEF SignallerStep
<1>5. ASSUME NEW r \in Ranks, NEW c \in SMs, NEW w \in Warps, WarpStep(r, c, w) PROVE ControlInv'
  BY <1>5, WarpStepControl, LeaveTaskLoopControl, LocalControl DEF WarpStep
<1> QED
  BY <1>1, <1>2, <1>3, <1>4, <1>5 DEF Next, Finished

\* Where every CTA with several epilogue warps has a task, DONE follows the
\* last read of the epoch.
LEMMA EpochRead == TypeInv /\ ControlInv => EpochReadBeforeBump
<1> SUFFICES ASSUME TypeInv, ControlInv, NEW r \in Ranks, NEW c \in SMs, NEW w \in Warps,
                    warp[r][c][w] = "start", Cleaned(r)
             PROVE  FALSE
  BY DEF EpochReadBeforeBump, Cleaned
<1>1. 0 \in SMs /\ 0 \in Warps
  BY SetupFacts DEF TypeInv
<1>2. ~Signals(r, c)
  BY <1>1 DEF Cleaned, ControlInv, StageInv
<1>3. ~InLoop(r, c) /\ todo[r][c] = {}
  BY <1>2 DEF ControlInv, CtaInv
<1>4. setup.warps = 1
  BY <1>3 DEF ControlInv, CtaInv
<1>5. w = 0
  BY <1>4 DEF Warps
<1> QED
  BY <1>3, <1>5 DEF InLoop

-----------------------------------------------------------------------------
(***************************************************************************)
(* TicketInv.                                                              *)
(***************************************************************************)
LEMMA InitTicket == Init => TicketInv
<1> SUFFICES ASSUME Init, NEW r \in Ranks PROVE RankTicketInv(r)
  BY DEF TicketInv
<1>1. /\ \A c \in SMs : sig[r][c] = "exited" /\ \A w \in Warps : warp[r][c][w] = "exited"
      /\ epoch[r] = 0 /\ ticket[r][0] = 0 /\ ticket[r][1] = NumTokens
      /\ \A t \in Tokens : reduced[r][t] = 1
  BY DEF Init, PerCta, PerWarp, PerToken
<1>2. 0 \in SMs /\ NumTokens \in Nat
  BY SetupFacts DEF Init
<1>3. Cleaned(r) /\ Current(r) = 1
  BY <1>1, <1>2 DEF Cleaned, Current
<1>4. WarpInv(r)
  BY <1>1, <1>2, <1>3 DEF WarpInv
<1>5. DrawnInv(r)
  BY <1>1, <1>2, <1>3 DEF DrawnInv, Waits, Tokens
<1> QED
  BY <1>1, <1>4, <1>5 DEF RankTicketInv

LEMMA TicketStands ==
  ASSUME TypeInv, TicketInv, NEW r \in Ranks, setup' = setup,
         ticket'[r] = ticket[r], epoch'[r] = epoch[r], parity'[r] = parity[r],
         warp'[r] = warp[r], token'[r] = token[r], reduced'[r] = reduced[r],
         Cleaned(r)' <=> Cleaned(r)
  PROVE  RankTicketInv(r)'
<1>1. Tokens' = Tokens /\ Warps' = Warps /\ NumTokens' = NumTokens
  BY SetupStands
<1>2. Current(r)' = Current(r)
  BY DEF Current
<1>3. \A c, w, t : Waits(r, c, w, t)' <=> Waits(r, c, w, t)
  BY DEF Waits
<1>4. RankTicketInv(r)
  BY DEF TicketInv
<1>5. WarpInv(r)'
  BY <1>1, <1>2, <1>4 DEF RankTicketInv, WarpInv
<1>6. DrawnInv(r)'
  BY <1>1, <1>2, <1>3, <1>4 DEF RankTicketInv, DrawnInv
<1> QED
  BY <1>4, <1>5, <1>6 DEF RankTicketInv

\* A warp moves on without a token.
LEMMA WarpTicket ==
  ASSUME TypeInv, TicketInv, NEW r \in Ranks, NEW c \in SMs, NEW w \in Warps,
         NEW x \in WarpStates \ {"wait"},
         setup' = setup, ticket' = ticket, epoch' = epoch, sig' = sig, token' = token,
         reduced' = reduced, warp' = [warp EXCEPT ![r][c][w] = x],
         \A q \in Ranks : q # r => parity'[q] = parity[q],
         \A d \in SMs, v \in Warps : d # c \/ v # w => parity'[r][d][v] = parity[r][d][v],
         warp[r][c][w] # "wait",
         x \in {"math", "peek", "claim"} => parity'[r][c][w] = Current(r),
         x = "exited" => ticket[r][Current(r)] >= NumTokens
  PROVE  TicketInv'
<1>1. Tokens' = Tokens /\ Warps' = Warps /\ NumTokens' = NumTokens /\ Ranks' = Ranks /\ SMs' = SMs
  BY SetupStands
<1>2. /\ \A d \in SMs, v \in Warps : warp'[r][d][v] = IF d = c /\ v = w THEN x ELSE warp[r][d][v]
      /\ \A q \in Ranks : q # r => warp'[q] = warp[q]
  BY DEF TypeInv
<1>3. ASSUME NEW q \in Ranks, q # r PROVE RankTicketInv(q)'
  <2>1. Cleaned(q)' <=> Cleaned(q)
    BY DEF Cleaned
  <2> QED
    BY <1>2, <1>3, <2>1, TicketStands
<1>4. RankTicketInv(r)
  BY DEF TicketInv
<1>5. (Cleaned(r)' <=> Cleaned(r)) /\ Current(r)' = Current(r)
  BY DEF Cleaned, Current
<1>6. \A d \in SMs, v \in Warps : \A t : Waits(r, d, v, t)' <=> Waits(r, d, v, t)
  BY <1>2 DEF Waits
<1>7. WarpInv(r)'
  BY <1>1, <1>2, <1>4, <1>5 DEF RankTicketInv, WarpInv
<1>8. DrawnInv(r)'
  BY <1>1, <1>4, <1>5, <1>6 DEF RankTicketInv, DrawnInv
<1> QED
  BY <1>1, <1>3, <1>4, <1>5, <1>7, <1>8 DEF TicketInv, RankTicketInv

LEMMA ClaimTicket ==
  ASSUME TypeInv, TicketInv, NEW r \in Ranks, NEW c \in SMs, NEW w \in Warps, Claim(r, c, w)
  PROVE  TicketInv'
<1>1. /\ setup' = setup /\ epoch' = epoch /\ sig' = sig /\ parity' = parity /\ reduced' = reduced
      /\ warp[r][c][w] = "claim"
  BY DEF Claim, sigVars, historyVars
<1>2. Tokens' = Tokens /\ Warps' = Warps /\ NumTokens' = NumTokens /\ Ranks' = Ranks /\ SMs' = SMs
  BY <1>1, SetupStands
<1>3. RankTicketInv(r)
  BY DEF TicketInv
<1>4. parity[r][c][w] = Current(r)
  BY <1>1, <1>3 DEF RankTicketInv, WarpInv
<1>5. PICK p \in {0, 1} : p = Current(r)
  BY <1>4 DEF TypeInv
<1>6. PICK n \in Nat : n = ticket[r][p]
  BY DEF TypeInv
<1>7. ticket' = [ticket EXCEPT ![r][p] = n + 1]
  BY <1>4, <1>5, <1>6 DEF Claim
<1>8. /\ ticket'[r][p] = n + 1
      /\ \A m \in {0, 1} : m # p => ticket'[r][m] = ticket[r][m]
      /\ \A q \in Ranks : q # r => ticket'[q] = ticket[q]
  BY <1>7 DEF TypeInv
<1>9. (Cleaned(r)' <=> Cleaned(r)) /\ Current(r)' = p /\ NumTokens \in Nat
  BY <1>1, <1>5, SetupFacts DEF Cleaned, Current, TypeInv
<1>10. Cleaned(r)' => ticket'[r][epoch'[r]] = 0
  <2>1. epoch[r] \in {0, 1}
    BY DEF TypeInv
  <2>2. Cleaned(r) => epoch[r] # p
    BY <1>5, <2>1 DEF Current
  <2> QED
    BY <1>1, <1>3, <1>8, <1>9, <2>1, <2>2 DEF RankTicketInv
<1>11. CASE n < NumTokens
  <2>1. /\ token' = [token EXCEPT ![r][c][w] = n]
        /\ warp' = [warp EXCEPT ![r][c][w] = "wait"]
    BY <1>4, <1>5, <1>6, <1>11 DEF Claim
  <2>2. /\ \A d \in SMs, v \in Warps :
             /\ warp'[r][d][v] = IF d = c /\ v = w THEN "wait" ELSE warp[r][d][v]
             /\ token'[r][d][v] = IF d = c /\ v = w THEN n ELSE token[r][d][v]
        /\ \A q \in Ranks : q # r => warp'[q] = warp[q] /\ token'[q] = token[q]
    BY <2>1 DEF TypeInv
  <2>3. ASSUME NEW q \in Ranks, q # r PROVE RankTicketInv(q)'
    <3>1. Cleaned(q)' <=> Cleaned(q)
      BY <1>1 DEF Cleaned
    <3> QED
      BY <1>1, <1>8, <2>2, <2>3, <3>1, TicketStands
  <2>4. \A d \in SMs, v \in Warps, t \in Nat :
          Waits(r, d, v, t)' <=> IF d = c /\ v = w THEN t = n ELSE Waits(r, d, v, t)
    BY <2>2 DEF Waits
  <2>5. WarpInv(r)'
    <3>1. n \in Tokens
      BY <1>9, <1>11 DEF Tokens
    <3> QED
      BY <1>1, <1>2, <1>3, <1>4, <1>5, <1>6, <1>8, <1>9, <2>2, <3>1 DEF RankTicketInv, WarpInv
  <2>6. ASSUME NEW t \in Tokens
        PROVE  IF t < n + 1
          THEN \/ reduced[r][t] = 1 /\ \A d \in SMs, v \in Warps : ~Waits(r, d, v, t)'
               \/ /\ reduced[r][t] = 0
                  /\ \E d \in SMs, v \in Warps :
                       /\ Waits(r, d, v, t)'
                       /\ \A e \in SMs, u \in Warps : Waits(r, e, u, t)' => e = d /\ u = v
          ELSE reduced[r][t] = 0 /\ \A d \in SMs, v \in Warps : ~Waits(r, d, v, t)'
    <3>1. t \in Nat
      BY SetupFacts DEF TypeInv
    <3>2. CASE t = n
      <4>1. reduced[r][t] = 0 /\ \A d \in SMs, v \in Warps : ~Waits(r, d, v, t)
        BY <1>3, <1>5, <1>6, <3>1, <3>2 DEF RankTicketInv, DrawnInv
      <4>2. \A e \in SMs, u \in Warps : Waits(r, e, u, t)' <=> e = c /\ u = w
        BY <2>4, <3>1, <3>2, <4>1
      <4> QED
        BY <3>2, <4>1, <4>2
    <3>3. CASE t # n
      <4>1. t < n + 1 <=> t < n
        BY <3>1, <3>3
      <4>2. ~Waits(r, c, w, t)
        BY <1>1 DEF Waits
      <4>3. \A d \in SMs, v \in Warps : Waits(r, d, v, t)' <=> Waits(r, d, v, t)
        BY <2>4, <3>1, <3>3, <4>2
      <4>4. IF t < n
              THEN \/ reduced[r][t] = 1 /\ \A d \in SMs, v \in Warps : ~Waits(r, d, v, t)
                   \/ /\ reduced[r][t] = 0
                      /\ \E d \in SMs, v \in Warps :
                           /\ Waits(r, d, v, t)
                           /\ \A e \in SMs, u \in Warps : Waits(r, e, u, t) => e = d /\ u = v
              ELSE reduced[r][t] = 0 /\ \A d \in SMs, v \in Warps : ~Waits(r, d, v, t)
        BY <1>3, <1>5, <1>6 DEF RankTicketInv, DrawnInv
      <4> QED
        BY <4>1, <4>3, <4>4
    <3> QED
      BY <3>2, <3>3
  <2>7. DrawnInv(r)'
    BY <1>1, <1>2, <1>8, <1>9, <2>6 DEF DrawnInv
  <2> QED
    BY <1>2, <1>10, <2>3, <2>5, <2>7 DEF TicketInv, RankTicketInv
<1>12. CASE n >= NumTokens
  <2>1. token' = token /\ warp' = [warp EXCEPT ![r][c][w] = "exited"]
    BY <1>4, <1>5, <1>6, <1>9, <1>12 DEF Claim
  <2>2. /\ \A d \in SMs, v \in Warps :
             warp'[r][d][v] = IF d = c /\ v = w THEN "exited" ELSE warp[r][d][v]
        /\ \A q \in Ranks : q # r => warp'[q] = warp[q]
    BY <2>1 DEF TypeInv
  <2>3. ASSUME NEW q \in Ranks, q # r PROVE RankTicketInv(q)'
    <3>1. Cleaned(q)' <=> Cleaned(q)
      BY <1>1 DEF Cleaned
    <3> QED
      BY <1>1, <1>8, <2>1, <2>2, <2>3, <3>1, TicketStands
  <2>4. \A d \in SMs, v \in Warps : \A t : Waits(r, d, v, t)' <=> Waits(r, d, v, t)
    BY <1>1, <2>1, <2>2 DEF Waits
  <2>5. WarpInv(r)'
    BY <1>1, <1>2, <1>3, <1>4, <1>5, <1>6, <1>8, <1>9, <1>12, <2>1, <2>2 DEF RankTicketInv, WarpInv
  <2>6. \A t \in Tokens : t < n /\ t < n + 1
    BY <1>9, <1>12 DEF Tokens
  <2>7. DrawnInv(r)'
    BY <1>1, <1>2, <1>3, <1>5, <1>6, <1>8, <1>9, <2>4, <2>6 DEF RankTicketInv, DrawnInv
  <2> QED
    BY <1>2, <1>10, <2>3, <2>5, <2>7 DEF TicketInv, RankTicketInv
<1> QED
  BY <1>9, <1>11, <1>12

LEMMA ReduceTicket ==
  ASSUME TypeInv, TicketInv, NEW r \in Ranks, NEW c \in SMs, NEW w \in Warps, Reduce(r, c, w)
  PROVE  TicketInv'
<1>1. /\ setup' = setup /\ epoch' = epoch /\ sig' = sig /\ parity' = parity /\ ticket' = ticket
      /\ token' = token /\ warp[r][c][w] = "wait"
      /\ warp' = [warp EXCEPT ![r][c][w] = "peek"]
  BY DEF Reduce, sigVars
<1>2. Tokens' = Tokens /\ Warps' = Warps /\ NumTokens' = NumTokens /\ Ranks' = Ranks /\ SMs' = SMs
  BY <1>1, SetupStands
<1>3. RankTicketInv(r)
  BY DEF TicketInv
<1>4. parity[r][c][w] = Current(r)
  BY <1>1, <1>3 DEF RankTicketInv, WarpInv
<1>5. PICK z \in Tokens : z = token[r][c][w]
  BY <1>1, <1>3 DEF RankTicketInv, WarpInv
<1>6. reduced' = [reduced EXCEPT ![r][z] = @ + 1]
  BY <1>5 DEF Reduce
<1>7. Waits(r, c, w, z)
  BY <1>1, <1>5 DEF Waits
<1>8. /\ z < ticket[r][Current(r)] /\ reduced[r][z] = 0
      /\ \A d \in SMs, v \in Warps : Waits(r, d, v, z) => d = c /\ v = w
  BY <1>3, <1>7 DEF RankTicketInv, DrawnInv
<1>9. /\ reduced'[r][z] = 1
      /\ \A t \in Tokens : t # z => reduced'[r][t] = reduced[r][t]
      /\ \A q \in Ranks : q # r => reduced'[q] = reduced[q]
  <2>1. reduced[r] \in [Tokens -> Nat]
    BY DEF TypeInv
  <2>2. reduced[r][z] + 1 = 1
    BY <1>8
  <2> QED
    BY <1>6, <2>1, <2>2 DEF TypeInv
<1>10. /\ \A d \in SMs, v \in Warps : warp'[r][d][v] = IF d = c /\ v = w THEN "peek" ELSE warp[r][d][v]
       /\ \A q \in Ranks : q # r => warp'[q] = warp[q]
  BY <1>1 DEF TypeInv
<1>11. ASSUME NEW q \in Ranks, q # r PROVE RankTicketInv(q)'
  <2>1. Cleaned(q)' <=> Cleaned(q)
    BY <1>1 DEF Cleaned
  <2> QED
    BY <1>1, <1>9, <1>10, <1>11, <2>1, TicketStands
<1>12. (Cleaned(r)' <=> Cleaned(r)) /\ Current(r)' = Current(r)
  BY <1>1 DEF Cleaned, Current
<1>13. \A d \in SMs, v \in Warps : \A t :
         Waits(r, d, v, t)' <=> Waits(r, d, v, t) /\ ~(d = c /\ v = w)
  BY <1>1, <1>10 DEF Waits
<1>14. WarpInv(r)'
  BY <1>1, <1>2, <1>3, <1>4, <1>10, <1>12 DEF RankTicketInv, WarpInv
<1>15. ASSUME NEW t \in Tokens
       PROVE  IF t < ticket[r][Current(r)]
         THEN \/ reduced'[r][t] = 1 /\ \A d \in SMs, v \in Warps : ~Waits(r, d, v, t)'
              \/ /\ reduced'[r][t] = 0
                 /\ \E d \in SMs, v \in Warps :
                      /\ Waits(r, d, v, t)'
                      /\ \A e \in SMs, u \in Warps : Waits(r, e, u, t)' => e = d /\ u = v
         ELSE reduced'[r][t] = 0 /\ \A d \in SMs, v \in Warps : ~Waits(r, d, v, t)'
  <2>1. CASE t = z
    BY <1>8, <1>9, <1>13, <2>1
  <2>2. CASE t # z
    <3>1. ~Waits(r, c, w, t)
      BY <1>5, <2>2 DEF Waits
    <3>2. \A d \in SMs, v \in Warps : Waits(r, d, v, t)' <=> Waits(r, d, v, t)
      BY <1>13, <3>1
    <3>3. reduced'[r][t] = reduced[r][t]
      BY <1>9, <2>2
    <3>4. IF t < ticket[r][Current(r)]
            THEN \/ reduced[r][t] = 1 /\ \A d \in SMs, v \in Warps : ~Waits(r, d, v, t)
                 \/ /\ reduced[r][t] = 0
                    /\ \E d \in SMs, v \in Warps :
                         /\ Waits(r, d, v, t)
                         /\ \A e \in SMs, u \in Warps : Waits(r, e, u, t) => e = d /\ u = v
            ELSE reduced[r][t] = 0 /\ \A d \in SMs, v \in Warps : ~Waits(r, d, v, t)
      BY <1>3 DEF RankTicketInv, DrawnInv
    <3> QED
      BY <3>2, <3>3, <3>4
  <2> QED
    BY <2>1, <2>2
<1>16. DrawnInv(r)'
  BY <1>1, <1>2, <1>12, <1>15 DEF DrawnInv
<1> QED
  BY <1>1, <1>2, <1>3, <1>11, <1>12, <1>14, <1>16 DEF TicketInv, RankTicketInv

LEMMA CleanupTicket ==
  ASSUME TypeInv, TicketInv, NEW r \in Ranks, NEW c \in SMs, Cleanup(r, c)
  PROVE  TicketInv'
<1>1. /\ setup' = setup /\ parity' = parity /\ token' = token /\ warp' = warp /\ reduced' = reduced
      /\ sig[r][c] = "grid" /\ sig' = [sig EXCEPT ![r][c] = "barrier3"]
  BY DEF Cleanup, warpVars, historyVars
<1>2. Tokens' = Tokens /\ Warps' = Warps /\ NumTokens' = NumTokens /\ Ranks' = Ranks /\ SMs' = SMs
  BY <1>1, SetupStands
<1>3. /\ sig'[r][c] = "barrier3"
      /\ \A q \in Ranks, d \in SMs : q # r \/ d # c => sig'[q][d] = sig[q][d]
  BY <1>1 DEF TypeInv
<1>4. 0 \in SMs
  BY SetupFacts DEF TypeInv
<1>5. CASE c # 0
  <2>1. ticket' = ticket /\ epoch' = epoch
    BY <1>5 DEF Cleanup
  <2>2. \A q \in Ranks : Cleaned(q)' <=> Cleaned(q)
    BY <1>3, <1>4, <1>5 DEF Cleaned
  <2> QED
    BY <1>1, <1>2, <2>1, <2>2, TicketStands DEF TicketInv
<1>6. CASE c = 0
  <2>1. PICK p \in {0, 1} : p = epoch[r]
    BY DEF TypeInv
  <2>2. PICK m \in {0, 1} : m = 1 - p
    OBVIOUS
  <2>3. ticket' = [ticket EXCEPT ![r][m] = 0] /\ epoch' = [epoch EXCEPT ![r] = m]
    BY <1>6, <2>1, <2>2 DEF Cleanup
  <2>4. /\ ticket'[r][m] = 0 /\ ticket'[r][p] = ticket[r][p] /\ epoch'[r] = m
        /\ \A q \in Ranks : q # r => ticket'[q] = ticket[q] /\ epoch'[q] = epoch[q]
    BY <2>2, <2>3 DEF TypeInv
  <2>5. ASSUME NEW q \in Ranks, q # r PROVE RankTicketInv(q)'
    <3>1. Cleaned(q)' <=> Cleaned(q)
      BY <1>3, <1>4, <2>5 DEF Cleaned
    <3> QED
      BY <1>1, <2>4, <2>5, <3>1, TicketStands
  <2>6. Current(r) = p
    BY <1>1, <1>6, <2>1 DEF Current, Cleaned
  <2>7. Cleaned(r)' /\ Current(r)' = p
    <3>1. Cleaned(r)'
      BY <1>3, <1>6 DEF Cleaned
    <3>2. 1 - m = p
      BY <2>2
    <3> QED
      BY <2>4, <3>1, <3>2 DEF Current
  <2>8. RankTicketInv(r)
    BY DEF TicketInv
  <2>9. WarpInv(r)'
    BY <1>1, <1>2, <2>4, <2>6, <2>7, <2>8 DEF RankTicketInv, WarpInv
  <2>10. \A d, v, t : Waits(r, d, v, t)' <=> Waits(r, d, v, t)
    BY <1>1 DEF Waits
  <2>11. DrawnInv(r)'
    BY <1>1, <1>2, <2>4, <2>6, <2>7, <2>8, <2>10 DEF RankTicketInv, DrawnInv
  <2> QED
    BY <1>2, <2>4, <2>5, <2>9, <2>11 DEF TicketInv, RankTicketInv
<1> QED
  BY <1>5, <1>6

LEMMA LaunchTicket ==
  ASSUME NoIdleCta, TypeInv, ControlInv, TicketInv, NEW r \in Ranks, Launch(r)
  PROVE  TicketInv'
<1>1. /\ setup' = setup /\ ticket' = ticket /\ epoch' = epoch /\ parity' = parity /\ token' = token
      /\ reduced' = [reduced EXCEPT ![r] = [t \in Tokens |-> 0]]
      /\ Idle(r)
  BY DEF Launch, wordVars
<1>2. Tokens' = Tokens /\ Warps' = Warps /\ NumTokens' = NumTokens /\ Ranks' = Ranks /\ SMs' = SMs
  BY <1>1, SetupStands
<1>3. 0 \in SMs /\ Tokens \subseteq Nat
  BY SetupFacts DEF TypeInv
<1>4. /\ \A t \in Tokens : reduced'[r][t] = 0
      /\ \A q \in Ranks : q # r => reduced'[q] = reduced[q]
  BY <1>1 DEF TypeInv
<1>5. ASSUME NEW q \in Ranks, q # r PROVE RankTicketInv(q)'
  <2>1. warp'[q] = warp[q] /\ sig'[q] = sig[q]
    BY <1>5 DEF Launch, TypeInv
  <2>2. Cleaned(q)' <=> Cleaned(q)
    BY <2>1 DEF Cleaned
  <2> QED
    BY <1>1, <1>4, <1>5, <2>1, <2>2, TicketStands
<1>6. ticket[r][epoch[r]] = 0
  BY <1>1, <1>3 DEF Idle, Cleaned, TicketInv, RankTicketInv
<1>7. ~Cleaned(r)' /\ Current(r)' = epoch[r]
  BY <1>1, <1>3, LaunchFacts DEF Cleaned, Current
<1>8. \A d \in SMs, v \in Warps : warp'[r][d][v] = "start"
  BY LaunchFacts
<1>9. \A d \in SMs, v \in Warps : \A t : ~Waits(r, d, v, t)'
  BY <1>8 DEF Waits
<1>10. WarpInv(r)'
  BY <1>2, <1>8 DEF WarpInv
<1>11. DrawnInv(r)'
  BY <1>1, <1>2, <1>3, <1>4, <1>6, <1>7, <1>9 DEF DrawnInv
<1> QED
  BY <1>2, <1>5, <1>7, <1>10, <1>11 DEF TicketInv, RankTicketInv

\* The parity a warp reads is that of this launch: nobody has cleaned up yet.
LEMMA ReadEpochTicket ==
  ASSUME TypeInv, ControlInv, TicketInv, NEW r \in Ranks, NEW c \in SMs, NEW w \in Warps,
         ReadEpoch(r, c, w)
  PROVE  TicketInv'
<1>1. /\ setup' = setup /\ ticket' = ticket /\ epoch' = epoch /\ sig' = sig /\ token' = token
      /\ reduced' = reduced /\ warp[r][c][w] = "start"
      /\ warp' = [warp EXCEPT ![r][c][w] = "math"]
      /\ parity' = [parity EXCEPT ![r][c][w] = epoch[r]]
  BY DEF ReadEpoch, wordVars, sigVars, historyVars
<1>2. /\ parity'[r][c][w] = epoch[r]
      /\ \A q \in Ranks : q # r => parity'[q] = parity[q]
      /\ \A d \in SMs, v \in Warps : d # c \/ v # w => parity'[r][d][v] = parity[r][d][v]
  BY <1>1 DEF TypeInv
<1>3. Current(r) = epoch[r]
  BY <1>1, EpochRead DEF EpochReadBeforeBump, Current, Cleaned
<1>4. PICK x \in {"math"} : warp' = [warp EXCEPT ![r][c][w] = x]
  BY <1>1
<1>5. x \in WarpStates \ {"wait"} /\ x # "exited" /\ warp[r][c][w] # "wait"
  BY <1>1, <1>4 DEF WarpStates
<1> QED
  BY <1>1, <1>2, <1>3, <1>4, <1>5, WarpTicket

\* Leaving the task loop, and the look at the ticket word.
LEMMA PeekTicket ==
  ASSUME TypeInv, TicketInv, NEW r \in Ranks, NEW c \in SMs, NEW w \in Warps,
         LeaveTaskLoop(r, c, w) \/ Peek(r, c, w)
  PROVE  TicketInv'
<1>1. /\ setup' = setup /\ ticket' = ticket /\ epoch' = epoch /\ sig' = sig /\ token' = token
      /\ reduced' = reduced /\ parity' = parity
      /\ warp[r][c][w] \in {"math", "peek"}
  BY DEF LeaveTaskLoop, Peek, wordVars, sigVars, historyVars
<1>2. parity[r][c][w] = Current(r)
  BY <1>1 DEF TicketInv, RankTicketInv, WarpInv
<1>3. PICK x \in {"peek", "claim", "exited"} :
        /\ warp' = [warp EXCEPT ![r][c][w] = x]
        /\ x = "exited" => ~(ticket[r][Current(r)] < NumTokens)
  <2>1. CASE LeaveTaskLoop(r, c, w)
    <3>1. warp' = [warp EXCEPT ![r][c][w] = "peek"]
      BY <2>1 DEF LeaveTaskLoop
    <3>2. PICK x \in {"peek"} : warp' = [warp EXCEPT ![r][c][w] = x]
      BY <3>1
    <3> QED
      BY <3>2
  <2>2. CASE Peek(r, c, w)
    <3>1. CASE ticket[r][Current(r)] < NumTokens
      <4>1. PICK x \in {"claim"} : warp' = [warp EXCEPT ![r][c][w] = x]
        BY <1>2, <2>2, <3>1 DEF Peek
      <4> QED
        BY <4>1
    <3>2. CASE ~(ticket[r][Current(r)] < NumTokens)
      <4>1. PICK x \in {"exited"} : warp' = [warp EXCEPT ![r][c][w] = x]
        BY <1>2, <2>2, <3>2 DEF Peek
      <4> QED
        BY <3>2, <4>1
    <3> QED
      BY <3>1, <3>2
  <2> QED
    BY <2>1, <2>2
<1>4. x \in WarpStates \ {"wait"} /\ warp[r][c][w] # "wait"
  BY <1>1, <1>3 DEF WarpStates
<1>5. x = "exited" => ticket[r][Current(r)] >= NumTokens
  <2>1. PICK p \in {0, 1} : p = Current(r)
    BY <1>2 DEF TypeInv
  <2>2. ticket[r][p] \in Nat /\ NumTokens \in Nat
    BY SetupFacts DEF TypeInv
  <2> QED
    BY <1>3, <2>1, <2>2
<1> QED
  BY <1>1, <1>2, <1>3, <1>4, <1>5, WarpTicket

LEMMA NextTicket ==
  NoIdleCta /\ TypeInv /\ ControlInv /\ TicketInv /\ [Next]_vars => TicketInv'
<1> SUFFICES ASSUME NoIdleCta, TypeInv, ControlInv, TicketInv, [Next]_vars PROVE TicketInv'
  OBVIOUS
<1>1. 0 \in SMs
  BY SetupFacts DEF TypeInv
<1>2. ASSUME setup' = setup, ticket' = ticket, epoch' = epoch, UNCHANGED warpVars, reduced' = reduced,
             \A q \in Ranks : Cleaned(q)' <=> Cleaned(q)
      PROVE  TicketInv'
  BY <1>2, SetupStands, TicketStands DEF TicketInv, warpVars
<1>3. CASE UNCHANGED vars
  <2>1. \A q \in Ranks : Cleaned(q)' <=> Cleaned(q)
    BY <1>3 DEF vars, sigVars, Cleaned
  <2> QED
    BY <1>2, <1>3, <2>1 DEF vars, wordVars, historyVars
<1>4. ASSUME NEW r \in Ranks, Launch(r) PROVE TicketInv'
  BY <1>4, LaunchTicket
<1>5. ASSUME NEW r \in Ranks, NEW c \in SMs, TaskStep(r, c) PROVE TicketInv'
  <2>1. setup' = setup /\ ticket' = ticket /\ epoch' = epoch /\ UNCHANGED warpVars
        /\ reduced' = reduced /\ sig' = sig
    BY <1>5 DEF TaskStep, RunTask, PostTask, wordVars, sigVars, historyVars
  <2> QED
    BY <1>2, <2>1 DEF Cleaned
<1>6. ASSUME NEW r \in Ranks, NEW c \in SMs, SignallerStep(r, c) PROVE TicketInv'
  <2>1. CASE Cleanup(r, c)
    BY <2>1, CleanupTicket
  <2>2. CASE ~Cleanup(r, c)
    <3>1. /\ setup' = setup /\ ticket' = ticket /\ epoch' = epoch /\ UNCHANGED warpVars
          /\ reduced' = reduced
      BY <1>6, <2>2
         DEF SignallerStep, TakeEntry, SignalRow, EndEntry, LeaveBarrier3, wordVars, historyVars
    <3>2. \/ sig' = sig
          \/ sig[r][c] \in {"poll", "rows"}
             /\ \E s \in {"grid", "rows", "poll"} : sig' = [sig EXCEPT ![r][c] = s]
          \/ sig[r][c] = "barrier3" /\ sig' = [sig EXCEPT ![r][c] = "exited"]
      <4>1. CASE TakeEntry(r, c)
        <5>1. /\ sig[r][c] = "poll"
              /\ \/ sig' = [sig EXCEPT ![r][c] = "grid"]
                 \/ sig' = [sig EXCEPT ![r][c] = "rows"]
          BY <4>1 DEF TakeEntry
        <5> QED
          BY <5>1
      <4>2. CASE SignalRow(r, c)
        BY <4>2 DEF SignalRow
      <4>3. CASE EndEntry(r, c)
        BY <4>3 DEF EndEntry
      <4>4. CASE LeaveBarrier3(r, c)
        BY <4>4 DEF LeaveBarrier3
      <4> QED
        BY <1>6, <2>2, <4>1, <4>2, <4>3, <4>4 DEF SignallerStep
    <3>3. \A q \in Ranks : Cleaned(q)' <=> Cleaned(q)
      <4>1. CASE sig' = sig
        BY <4>1 DEF Cleaned
      <4>2. ASSUME sig[r][c] \in {"poll", "rows"}, NEW s \in {"grid", "rows", "poll"},
                   sig' = [sig EXCEPT ![r][c] = s]
            PROVE  \A q \in Ranks : Cleaned(q)' <=> Cleaned(q)
        BY <1>1, <4>2 DEF Cleaned, TypeInv
      <4>3. CASE sig[r][c] = "barrier3" /\ sig' = [sig EXCEPT ![r][c] = "exited"]
        BY <1>1, <4>3 DEF Cleaned, TypeInv
      <4> QED
        BY <3>2, <4>1, <4>2, <4>3
    <3> QED
      BY <1>2, <3>1, <3>3
  <2> QED
    BY <2>1, <2>2
<1>7. ASSUME NEW r \in Ranks, NEW c \in SMs, NEW w \in Warps, WarpStep(r, c, w) PROVE TicketInv'
  BY <1>7, ReadEpochTicket, PeekTicket, ClaimTicket, ReduceTicket DEF WarpStep
<1> QED
  BY <1>3, <1>4, <1>5, <1>6, <1>7 DEF Next, Finished

-----------------------------------------------------------------------------
(***************************************************************************)
(* SliceInv.                                                               *)
(***************************************************************************)
LEMMA HomeFacts ==
  ASSUME TypeInv
  PROVE  /\ \A k \in Tasks : Home(k) \in Ranks
         /\ \A r, t : Slices(r, t) \subseteq Tasks /\ Awaited(r, t) \subseteq Slices(r, t)
         /\ \A r, t : IsFiniteSet(Slices(r, t)) /\ IsFiniteSet(Awaited(r, t))
         /\ \A r, t : \A k \in Slices(r, t) : <<r, t>> \in RowsOf[k]
<1>1. PICK p \in setup.placements : p = CHOOSE place \in setup.placements : TRUE
  <2>1. setup.placements # {}
    BY SetupFacts DEF TypeInv
  <2>2. (CHOOSE place \in setup.placements : TRUE) \in setup.placements
    BY <2>1
  <2> QED
    BY <2>2
<1>2. p \in [Tasks -> Ranks \X SMs]
  BY <1>1, SetupFacts DEF TypeInv
<1>3. \A k \in Tasks : Home(k) \in Ranks
  BY <1>1, <1>2 DEF Home
<1>4. \A r, t : Slices(r, t) \subseteq Tasks /\ Awaited(r, t) \subseteq Slices(r, t)
  BY DEF Slices, Awaited
<1>5. \A r, t : IsFiniteSet(Slices(r, t)) /\ IsFiniteSet(Awaited(r, t))
  BY <1>4, RingFacts, FS_Subset
<1> QED
  BY <1>3, <1>4, <1>5 DEF Slices

LEMMA IdleReduced ==
  ASSUME TypeInv, TicketInv, NEW r \in Ranks, Idle(r), NEW t \in Tokens
  PROVE  reduced[r][t] = 1
<1>1. 0 \in SMs /\ 0 \in Warps /\ NumTokens \in Nat /\ t \in Nat
  BY SetupFacts DEF TypeInv
<1>2. PICK p \in {0, 1} : p = Current(r)
  BY DEF Current, TypeInv
<1>3. ticket[r][p] \in Nat /\ ticket[r][p] >= NumTokens
  BY <1>1, <1>2 DEF Idle, TicketInv, RankTicketInv, WarpInv, TypeInv
<1>4. t < ticket[r][p]
  BY <1>1, <1>3 DEF Tokens
<1> QED
  BY <1>2, <1>4 DEF Idle, TicketInv, RankTicketInv, DrawnInv, Waits

\* Only a signal changes what a token waits for.
LEMMA AwaitedStands ==
  ASSUME TypeInv, NEW r \in Ranks, NEW c \in SMs, LocalStep(r, c), OpenStands(r, c)
  PROVE  \A q, t : Slices(q, t)' = Slices(q, t) /\ Awaited(q, t)' = Awaited(q, t)
<1>1. setup' = setup /\ launch' = launch /\ RowsOf' = RowsOf
  BY SetupStands DEF LocalStep
<1>2. TAKE q, t
<1>3. Slices(q, t)' = Slices(q, t)
  BY <1>1 DEF Slices
<1>4. ASSUME NEW k \in Slices(q, t)
      PROVE  (\E d \in SMs : Open(Home(k), d, k, <<q, t>>)') <=> \E d \in SMs : Open(Home(k), d, k, <<q, t>>)
  <2>1. k \in Tasks /\ <<q, t>> \in RowsOf[k] /\ Home(k) \in Ranks
    BY HomeFacts
  <2>2. \A d \in SMs : Open(Home(k), d, k, <<q, t>>)' <=> Open(Home(k), d, k, <<q, t>>)
    <3>1. TAKE d \in SMs
    <3>2. PICK h \in Ranks : h = Home(k)
      BY <2>1
    <3>3. Open(h, d, k, <<q, t>>)' <=> Open(h, d, k, <<q, t>>)
      <4>1. CASE h = r /\ d = c
        BY <2>1, <4>1 DEF OpenStands
      <4>2. CASE h # r \/ d # c
        BY <1>1, <4>2, CtaFacts DEF LocalStep, OthersStand
      <4> QED
        BY <4>1, <4>2
    <3>4. Home(k)' = Home(k)
      BY <1>1 DEF Home
    <3> QED
      BY <3>2, <3>3, <3>4
  <2> QED
    BY <2>2
<1>5. \A k : Home(k)' = Home(k)
  BY <1>1 DEF Home
<1>6. Awaited(q, t)' = Awaited(q, t)
  BY <1>1, <1>3, <1>4, <1>5 DEF Awaited
<1> QED
  BY <1>3, <1>6

LEMMA ArrivalStands ==
  ASSUME TypeInv, SliceInv, setup' = setup, arrival' = arrival, reduced' = reduced,
         \A q, t : Slices(q, t)' = Slices(q, t) /\ Awaited(q, t)' = Awaited(q, t)
  PROVE  \A q \in Ranks : ArrivalInv(q)'
<1>1. Tokens' = Tokens
  BY SetupStands
<1> QED
  BY <1>1 DEF SliceInv, ArrivalInv

\* A step that runs a task stores all its rows.
StoresWhatItRuns(r, c) ==
  /\ \A q \in Ranks : landed[q] \subseteq landed'[q]
  /\ \A k \in Tasks : k \in todo[r][c] /\ k \notin todo'[r][c] =>
       \A q \in Ranks, t \in Tokens : <<q, t>> \in RowsOf[k] => <<k, <<q, t>> >> \in landed'[q]

LEMMA LandedLocal ==
  ASSUME TypeInv, SliceInv, NEW r \in Ranks, NEW c \in SMs, LocalStep(r, c), StoresWhatItRuns(r, c)
  PROVE  \A q \in Ranks : LandedInv(q)'
<1>1. setup' = setup /\ launch' = launch /\ RowsOf' = RowsOf /\ Tokens' = Tokens
  BY SetupStands DEF LocalStep
<1>2. \A q, t : Slices(q, t)' = Slices(q, t)
  BY <1>1 DEF Slices
<1>3. \A k : Home(k)' = Home(k)
  BY <1>1 DEF Home
<1>4. TAKE q \in Ranks
<1>5. ASSUME launch[q] > 0, NEW t \in Tokens, NEW k \in Slices(q, t)
      PROVE  \/ launch[Home(k)] < launch[q]
             \/ launch[Home(k)] = launch[q] /\ \E d \in SMs : k \in todo'[Home(k)][d]
             \/ <<k, <<q, t>> >> \in landed'[q]
  <2>1. /\ k \in Tasks /\ <<q, t>> \in RowsOf[k] /\ Home(k) \in Ranks
        /\ landed[q] \subseteq landed'[q]
    BY HomeFacts DEF StoresWhatItRuns
  <2>2. \/ launch[Home(k)] < launch[q]
        \/ launch[Home(k)] = launch[q] /\ \E d \in SMs : k \in todo[Home(k)][d]
        \/ <<k, <<q, t>> >> \in landed[q]
    BY <1>5 DEF SliceInv, LandedInv
  <2>3. ASSUME NEW d \in SMs, k \in todo[Home(k)][d], k \notin todo'[Home(k)][d]
        PROVE  <<k, <<q, t>> >> \in landed'[q]
    <3>1. Home(k) = r /\ d = c
      BY <2>1, <2>3 DEF LocalStep, OthersStand, CtaStands
    <3> QED
      BY <2>1, <2>3, <3>1 DEF StoresWhatItRuns
  <2> QED
    BY <2>1, <2>2, <2>3
<1> QED
  BY <1>1, <1>2, <1>3, <1>5 DEF LandedInv

\* A step that neither signals, nor runs a task, nor reduces a token.
LEMMA SliceStands ==
  ASSUME TypeInv, ControlInv, SliceInv, NEW r \in Ranks, NEW c \in SMs,
         LocalStep(r, c), OpenStands(r, c),
         arrival' = arrival, reduced' = reduced, StoresWhatItRuns(r, c)
  PROVE  SliceInv'
<1>1. setup' = setup /\ Ranks' = Ranks
  BY SetupStands DEF LocalStep
<1>2. \A q \in Ranks : ArrivalInv(q)'
  BY <1>1, AwaitedStands, ArrivalStands
<1>3. \A q \in Ranks : LandedInv(q)'
  BY LandedLocal
<1> QED
  BY <1>1, <1>2, <1>3 DEF SliceInv

LEMMA SameStored ==
  ASSUME landed' = landed, todo' = todo, NEW r, NEW c
  PROVE  StoresWhatItRuns(r, c)
BY DEF StoresWhatItRuns

LEMMA RunTaskSlice ==
  ASSUME TypeInv, ControlInv, SliceInv, NEW r \in Ranks, NEW c \in SMs, RunTask(r, c)
  PROVE  SliceInv'
<1>1. arrival' = arrival /\ reduced' = reduced
  BY DEF RunTask, wordVars
<1>2. PICK k \in todo[r][c] :
        /\ todo' = [todo EXCEPT ![r][c] = @ \ {k}]
        /\ landed' = [q \in Ranks |->
                        landed[q] \cup {<<k, row>> : row \in {x \in RowsOf[k] : x[1] = q}}]
  BY DEF RunTask
<1>3. todo'[r][c] = todo[r][c] \ {k}
  BY <1>2 DEF TypeInv
<1>4. ASSUME NEW q \in Ranks, NEW t \in Tokens, <<q, t>> \in RowsOf[k]
      PROVE  <<k, <<q, t>> >> \in landed'[q]
  <2>1. <<q, t>> \in {x \in RowsOf[k] : x[1] = q}
    BY <1>4
  <2>2. <<k, <<q, t>> >> \in {<<k, row>> : row \in {x \in RowsOf[k] : x[1] = q}}
    BY <2>1
  <2> QED
    BY <1>2, <2>2
<1>5. \A q \in Ranks : landed[q] \subseteq landed'[q]
  BY <1>2
<1>6. StoresWhatItRuns(r, c)
  BY <1>3, <1>4, <1>5 DEF StoresWhatItRuns
<1> QED
  BY <1>1, <1>6, RunTaskControl, SliceStands

LEMMA ReduceSlice ==
  ASSUME TypeInv, ControlInv, TicketInv, SliceInv,
         NEW r \in Ranks, NEW c \in SMs, NEW w \in Warps, Reduce(r, c, w)
  PROVE  SliceInv'
<1>1. setup' = setup /\ todo' = todo /\ landed' = landed
  BY DEF Reduce
<1>2. Ranks' = Ranks /\ Tokens' = Tokens
  BY <1>1, SetupStands
<1>3. LocalStep(r, c) /\ OpenStands(r, c)
  BY WarpStepControl
<1>4. \A q \in Ranks : LandedInv(q)'
  BY <1>1, <1>3, SameStored, LandedLocal
<1>5. PICK z \in Tokens : z = token[r][c][w]
  BY DEF Reduce, TicketInv, RankTicketInv, WarpInv
<1>6. /\ arrival[r][z] = Cardinality(Slices(r, z))
      /\ arrival' = [arrival EXCEPT ![r][z] = 0]
      /\ reduced' = [reduced EXCEPT ![r][z] = @ + 1]
  BY <1>5 DEF Reduce
<1>7. \A q, t : Slices(q, t)' = Slices(q, t) /\ Awaited(q, t)' = Awaited(q, t)
  BY <1>3, AwaitedStands
<1>8. ASSUME NEW q \in Ranks PROVE ArrivalInv(q)'
  <2>1. ArrivalInv(q)
    BY DEF SliceInv
  <2>2. ASSUME NEW t \in Tokens
        PROVE  IF reduced'[q][t] = 0
                 THEN arrival'[q][t] + Cardinality(Awaited(q, t)) = Cardinality(Slices(q, t))
                 ELSE arrival'[q][t] = 0 /\ Awaited(q, t) = {}
    <3>1. CASE q = r /\ t = z
      <4>1. reduced[r][z] \in Nat /\ reduced'[r][z] = reduced[r][z] + 1 /\ arrival'[r][z] = 0
        BY <1>6 DEF TypeInv
      <4>2. Awaited(r, z) = {}
        <5>1. CASE reduced[r][z] = 0
          <6>1. PICK n, m \in Nat : n = Cardinality(Slices(r, z)) /\ m = Cardinality(Awaited(r, z))
            BY HomeFacts, FS_CardinalityType
          <6>2. m = 0
            BY <1>6, <2>1, <3>1, <5>1, <6>1 DEF ArrivalInv
          <6> QED
            BY <6>1, <6>2, HomeFacts, FS_EmptySet
        <5>2. CASE reduced[r][z] # 0
          BY <2>1, <3>1, <5>2 DEF ArrivalInv
        <5> QED
          BY <5>1, <5>2
      <4> QED
        BY <3>1, <4>1, <4>2
    <3>2. CASE ~(q = r /\ t = z)
      <4>1. reduced'[q][t] = reduced[q][t] /\ arrival'[q][t] = arrival[q][t]
        BY <1>6, <3>2 DEF TypeInv
      <4> QED
        BY <2>1, <4>1 DEF ArrivalInv
    <3> QED
      BY <3>1, <3>2
  <2> QED
    BY <1>2, <1>7, <2>2 DEF ArrivalInv
<1> QED
  BY <1>2, <1>4, <1>8 DEF SliceInv

\* The slice a signal is about was awaited, and only it no longer is.
LEMMA SignalAwaited ==
  ASSUME TypeInv, ControlInv, NEW r \in Ranks, NEW c \in SMs, NEW row \in Rows,
         sig[r][c] = "rows", LocalStep(r, c), RowSignalled(r, c, row)
  PROVE  /\ Entry(r, c, 0) \in Awaited(row[1], row[2])
         /\ \A q, t : Slices(q, t)' = Slices(q, t)
         /\ \A q, t : Awaited(q, t)' = IF <<q, t>> = row THEN Awaited(q, t) \ {Entry(r, c, 0)}
                                                         ELSE Awaited(q, t)
<1>1. setup' = setup /\ launch' = launch /\ RowsOf' = RowsOf
  BY SetupStands DEF LocalStep
<1>2. PICK e \in Tasks : e = Entry(r, c, 0) /\ row \in RowsOf[e] /\ Open(r, c, e, row)
  BY DEF RowSignalled
<1>3. PICK q0 \in Ranks, t0 \in Tokens : row = <<q0, t0>>
  BY DEF Rows
<1>4. \A q, t : Slices(q, t)' = Slices(q, t)
  BY <1>1 DEF Slices
<1>5. \A k : Home(k)' = Home(k)
  BY <1>1 DEF Home
<1>6. Has(r, c, e)
  <2>1. Held(r, c) \in Nat /\ Held(r, c) > 0
    BY HeldFacts DEF ControlInv, CtaInv
  <2> QED
    BY <1>2, <2>1 DEF Has
<1>7. Home(e) = r /\ \A d \in SMs : Has(r, d, e) => d = c
  BY <1>6 DEF ControlInv, TaskInv
<1>8. \A d \in SMs : \A x : Open(r, d, e, x) => d = c
  BY <1>7 DEF Open, Has
<1>9. launch[q0] = launch[r]
  <2>1. launch[q0] \in Nat /\ launch[r] \in Nat
    BY DEF TypeInv
  <2>2. ~(launch[r] > launch[q0])
    <3>1. SUFFICES ASSUME launch[r] > launch[q0] PROVE FALSE
      OBVIOUS
    <3>2. PICK d \in SMs : e \in todo[r][d]
      BY <1>7, <3>1 DEF ControlInv, SkewInv
    <3>3. d = c
      BY <1>7, <3>2 DEF Has
    <3>4. Held(r, c) \in Nat /\ Held(r, c) > 0 /\ CtaInv(r, c)
      BY HeldFacts DEF ControlInv, CtaInv
    <3>5. Entry(r, c, 0) \notin todo[r][c]
      BY <3>4 DEF CtaInv
    <3> QED
      BY <1>2, <3>2, <3>3, <3>5
  <2>3. ~(launch[q0] > launch[r])
    BY DEF ControlInv, SkewInv, InBarrier3
  <2> QED
    BY <2>1, <2>2, <2>3
<1>10. e \in Awaited(q0, t0)
  BY <1>2, <1>3, <1>7, <1>9 DEF Awaited, Slices
<1>11. ASSUME NEW q, NEW t, NEW k \in Slices(q, t)
       PROVE  (\E d \in SMs : Open(Home(k), d, k, <<q, t>>)')
                <=> (\E d \in SMs : Open(Home(k), d, k, <<q, t>>)) /\ ~(k = e /\ <<q, t>> = row)
  <2>1. k \in Tasks /\ <<q, t>> \in RowsOf[k]
    BY HomeFacts
  <2>2. PICK h \in Ranks : h = Home(k)
    BY <2>1, HomeFacts
  <2>3. ASSUME NEW d \in SMs
        PROVE  Open(h, d, k, <<q, t>>)' <=> Open(h, d, k, <<q, t>>) /\ ~(k = e /\ <<q, t>> = row)
    <3>1. CASE h = r /\ d = c
      BY <1>2, <2>1, <3>1 DEF RowSignalled
    <3>2. CASE h # r \/ d # c
      <4>1. Open(h, d, k, <<q, t>>)' <=> Open(h, d, k, <<q, t>>)
        BY <1>1, <3>2, CtaFacts DEF LocalStep, OthersStand
      <4>2. k = e => ~Open(h, d, k, <<q, t>>)
        BY <1>7, <1>8, <2>2, <3>2
      <4> QED
        BY <4>1, <4>2
    <3> QED
      BY <3>1, <3>2
  <2>4. \A d \in SMs : Open(Home(k), d, k, <<q, t>>)' <=> Open(h, d, k, <<q, t>>)'
    BY <1>5, <2>2
  <2> QED
    BY <2>2, <2>3, <2>4
<1>12. ASSUME NEW q, NEW t
       PROVE  Awaited(q, t)' = IF <<q, t>> = row THEN Awaited(q, t) \ {e} ELSE Awaited(q, t)
  <2>1. CASE <<q, t>> = row
    <3>1. q = q0 /\ t = t0
      BY <1>3, <2>1
    <3>2. ASSUME NEW k \in Slices(q, t)
          PROVE  k \in Awaited(q, t)' <=> k \in Awaited(q, t) /\ k # e
      <4>1. k \in Awaited(q, t) <=>
              \/ launch[Home(k)] < launch[q]
              \/ launch[Home(k)] = launch[q] /\ \E d \in SMs : Open(Home(k), d, k, <<q, t>>)
        BY DEF Awaited
      <4>2. k \in Awaited(q, t)' <=>
              \/ launch[Home(k)] < launch[q]
              \/ launch[Home(k)] = launch[q] /\ \E d \in SMs : Open(Home(k), d, k, <<q, t>>)'
        BY <1>1, <1>4, <1>5 DEF Awaited
      <4>3. k = e => ~(launch[Home(k)] < launch[q])
        <5>1. launch[q] \in Nat
          BY <3>1 DEF TypeInv
        <5> QED
          BY <1>7, <1>9, <3>1, <5>1
      <4> QED
        BY <1>11, <2>1, <4>1, <4>2, <4>3
    <3> QED
      BY <1>4, <2>1, <3>2, HomeFacts DEF Awaited
  <2>2. CASE <<q, t>> # row
    BY <1>1, <1>4, <1>5, <1>11, <2>2 DEF Awaited
  <2> QED
    BY <2>1, <2>2
<1> QED
  BY <1>2, <1>3, <1>4, <1>10, <1>12

LEMMA SignalRowSlice ==
  ASSUME TypeInv, ControlInv, SliceInv, NEW r \in Ranks, NEW c \in SMs, SignalRow(r, c)
  PROVE  SliceInv'
<1>1. /\ setup' = setup /\ todo' = todo /\ landed' = landed /\ reduced' = reduced
      /\ sig[r][c] = "rows"
  BY DEF SignalRow, historyVars
<1>2. Ranks' = Ranks /\ Tokens' = Tokens
  BY <1>1, SetupStands
<1>3. LocalStep(r, c)
  BY SignalRowControl
<1>4. PICK row \in Rows : RowSignalled(r, c, row)
  BY SignalRowControl
<1>5. PICK q0 \in Ranks, t0 \in Tokens : row = <<q0, t0>>
  BY DEF Rows
<1>6. PICK e : e = Entry(r, c, 0)
  OBVIOUS
<1>7. /\ e \in Awaited(q0, t0)
      /\ \A q, t : Slices(q, t)' = Slices(q, t)
      /\ \A q, t : Awaited(q, t)' = IF <<q, t>> = row THEN Awaited(q, t) \ {e} ELSE Awaited(q, t)
  BY <1>1, <1>3, <1>4, <1>5, <1>6, SignalAwaited
<1>8. arrival' = [arrival EXCEPT ![q0][t0] = @ + 1]
  BY <1>4, <1>5 DEF RowSignalled
<1>9. \A q \in Ranks : LandedInv(q)'
  BY <1>1, <1>3, SameStored, LandedLocal
<1>10. ASSUME NEW q \in Ranks, NEW t \in Tokens
       PROVE  IF reduced[q][t] = 0
                THEN arrival'[q][t] + Cardinality(Awaited(q, t)') = Cardinality(Slices(q, t))
                ELSE arrival'[q][t] = 0 /\ Awaited(q, t)' = {}
  <2>1. IF reduced[q][t] = 0
          THEN arrival[q][t] + Cardinality(Awaited(q, t)) = Cardinality(Slices(q, t))
          ELSE arrival[q][t] = 0 /\ Awaited(q, t) = {}
    BY DEF SliceInv, ArrivalInv
  <2>2. CASE q = q0 /\ t = t0
    <3>1. Awaited(q, t)' = Awaited(q, t) \ {e} /\ e \in Awaited(q, t)
      BY <1>5, <1>7, <2>2
    <3>2. reduced[q][t] = 0
      BY <2>1, <3>1
    <3>3. arrival[q][t] \in Nat /\ arrival'[q][t] = arrival[q][t] + 1
      BY <1>8, <2>2 DEF TypeInv
    <3>4. PICK n, m \in Nat : n = Cardinality(Slices(q, t)) /\ m = Cardinality(Awaited(q, t))
      BY HomeFacts, FS_CardinalityType
    <3>5. Cardinality(Awaited(q, t) \ {e}) = m - 1
      BY <3>1, <3>4, HomeFacts, FS_RemoveElement
    <3> QED
      BY <2>1, <3>1, <3>2, <3>3, <3>4, <3>5
  <2>3. CASE ~(q = q0 /\ t = t0)
    <3>1. Awaited(q, t)' = Awaited(q, t)
      BY <1>5, <1>7, <2>3
    <3>2. arrival'[q][t] = arrival[q][t]
      BY <1>8, <2>3 DEF TypeInv
    <3> QED
      BY <2>1, <3>1, <3>2
  <2> QED
    BY <2>2, <2>3
<1>11. \A q \in Ranks : ArrivalInv(q)'
  BY <1>1, <1>2, <1>7, <1>10 DEF ArrivalInv
<1> QED
  BY <1>2, <1>9, <1>11 DEF SliceInv

LEMMA InitSlice == Init => SliceInv
<1> SUFFICES ASSUME Init PROVE SliceInv
  OBVIOUS
<1>1. TypeInv /\ ControlInv
  BY InitType, InitControl
<1>2. \A r \in Ranks : launch[r] = 0 /\ Idle(r)
  BY DEF Init, Idle, PerCta, PerWarp
<1>3. \A r \in Ranks, t \in Tokens : arrival[r][t] = 0 /\ reduced[r][t] = 1
  BY DEF Init, PerToken
<1>4. \A r \in Ranks, t \in Tokens : Awaited(r, t) = {}
  <2>1. SUFFICES ASSUME NEW r \in Ranks, NEW t \in Tokens, NEW k \in Awaited(r, t) PROVE FALSE
    OBVIOUS
  <2>2. k \in Tasks /\ Home(k) \in Ranks
    BY <1>1, HomeFacts
  <2>3. \E d \in SMs : Open(Home(k), d, k, <<r, t>>)
    BY <1>2, <2>2 DEF Awaited
  <2> QED
    BY <1>1, <1>2, <2>2, <2>3, IdleFacts
<1>5. \A r \in Ranks : ArrivalInv(r)
  BY <1>3, <1>4 DEF ArrivalInv
<1>6. \A r \in Ranks : LandedInv(r)
  BY <1>2 DEF LandedInv
<1> QED
  BY <1>5, <1>6 DEF SliceInv

\* The tokens of a rank that starts a launch wait for all their slices; those
\* of the others for the same as before.
LEMMA LaunchAwaited ==
  ASSUME NoIdleCta, TypeInv, ControlInv, NEW r \in Ranks, Launch(r), NEW q \in Ranks, NEW t \in Tokens
  PROVE  /\ Slices(q, t)' = Slices(q, t)
         /\ Awaited(q, t)' = IF q = r THEN Slices(q, t) ELSE Awaited(q, t)
<1>1. setup' = setup /\ RowsOf' = RowsOf
  BY LaunchFacts, SetupStands
<1>2. Slices(q, t)' = Slices(q, t)
  BY <1>1 DEF Slices
<1>3. \A k : Home(k)' = Home(k)
  BY <1>1 DEF Home
<1>4. \A p \in Ranks : launch[p] \in Nat
  BY DEF TypeInv
<1>5. Idle(r) /\ launch'[r] = launch[r] + 1 /\ \A p \in Ranks : p # r => launch'[p] = launch[p]
  <2>1. Idle(r)
    BY DEF Launch
  <2> QED
    BY <2>1, LaunchFacts
<1>6. ASSUME NEW k \in Slices(q, t)
      PROVE  k \in Awaited(q, t)' <=> q = r \/ k \in Awaited(q, t)
  <2>1. k \in Tasks /\ <<q, t>> \in RowsOf[k]
    BY HomeFacts
  <2>2. PICK h \in Ranks : h = Home(k)
    BY <2>1, HomeFacts
  <2>3. k \in Awaited(q, t) <=>
          \/ launch[h] < launch[q]
          \/ launch[h] = launch[q] /\ \E d \in SMs : Open(h, d, k, <<q, t>>)
    BY <2>2 DEF Awaited
  <2>4. k \in Awaited(q, t)' <=>
          \/ launch'[h] < launch'[q]
          \/ launch'[h] = launch'[q] /\ \E d \in SMs : Open(h, d, k, <<q, t>>)'
    BY <1>2, <1>3, <2>2 DEF Awaited
  <2>5. CASE h = r
    <3>1. PICK d \in SMs : k \in todo'[r][d]
      <4>1. \A x \in Tasks : Home(x) = r => \E e \in SMs : x \in todo'[r][e]
        BY LaunchFacts
      <4> QED
        BY <2>1, <2>2, <2>5, <4>1
    <3>2. Open(h, d, k, <<q, t>>)'
      BY <2>5, <3>1 DEF Open
    <3>3. \A e \in SMs : ~Open(h, e, k, <<q, t>>)
      BY <1>5, <2>1, <2>5, IdleFacts
    <3>4. CASE q = r
      BY <2>4, <2>5, <3>2, <3>4
    <3>5. CASE q # r
      <4>1. launch[q] = launch[r] \/ launch[q] = launch[r] + 1
        BY <1>5, IdleFacts
      <4> QED
        BY <1>4, <1>5, <2>3, <2>4, <2>5, <3>2, <3>3, <3>5, <4>1
    <3> QED
      BY <3>4, <3>5
  <2>6. CASE h # r
    <3>1. \A d \in SMs : (Open(h, d, k, <<q, t>>)' <=> Open(h, d, k, <<q, t>>)) /\ todo'[h][d] = todo[h][d]
      BY <1>1, <2>6, LaunchFacts, CtaFacts DEF CtaStands
    <3>2. CASE q = r
      <4>1. launch[h] = launch[r] \/ launch[h] = launch[r] + 1
        BY <1>5, IdleFacts
      <4>2. CASE launch[h] = launch[r]
        BY <1>4, <1>5, <2>4, <2>6, <3>2, <4>2
      <4>3. CASE launch[h] = launch[r] + 1
        <5>1. PICK d \in SMs : k \in todo[h][d]
          BY <1>4, <2>1, <2>2, <4>3 DEF ControlInv, SkewInv
        <5>2. Open(h, d, k, <<q, t>>)
          BY <5>1 DEF Open
        <5> QED
          BY <1>5, <2>4, <2>6, <3>1, <3>2, <4>3, <5>2
      <4> QED
        BY <4>1, <4>2, <4>3
    <3>3. CASE q # r
      BY <1>5, <2>3, <2>4, <2>6, <3>1, <3>3
    <3> QED
      BY <3>2, <3>3
  <2> QED
    BY <2>5, <2>6
<1>7. Awaited(q, t)' \subseteq Slices(q, t) /\ Awaited(q, t) \subseteq Slices(q, t)
  BY <1>2 DEF Awaited
<1> QED
  BY <1>2, <1>6, <1>7

LEMMA LaunchSlice ==
  ASSUME NoIdleCta, TypeInv, ControlInv, TicketInv, SliceInv, NEW r \in Ranks, Launch(r)
  PROVE  SliceInv'
<1>1. /\ setup' = setup /\ arrival' = arrival
      /\ reduced' = [reduced EXCEPT ![r] = [t \in Tokens |-> 0]]
      /\ landed' = [landed EXCEPT ![r] = {}]
      /\ Idle(r)
  BY DEF Launch, wordVars
<1>2. Ranks' = Ranks /\ Tokens' = Tokens
  BY <1>1, SetupStands
<1>3. /\ \A t \in Tokens : reduced'[r][t] = 0
      /\ \A q \in Ranks : q # r => reduced'[q] = reduced[q] /\ landed'[q] = landed[q]
  BY <1>1 DEF TypeInv
<1>4. \A q \in Ranks : launch[q] \in Nat
  BY DEF TypeInv
<1>5. launch'[r] = launch[r] + 1 /\ \A q \in Ranks : q # r => launch'[q] = launch[q]
  BY LaunchFacts
<1>6. ASSUME NEW q \in Ranks PROVE ArrivalInv(q)'
  <2>1. ASSUME NEW t \in Tokens
        PROVE  IF reduced'[q][t] = 0
                 THEN arrival[q][t] + Cardinality(Awaited(q, t)') = Cardinality(Slices(q, t)')
                 ELSE arrival[q][t] = 0 /\ Awaited(q, t)' = {}
    <3>1. IF reduced[q][t] = 0
            THEN arrival[q][t] + Cardinality(Awaited(q, t)) = Cardinality(Slices(q, t))
            ELSE arrival[q][t] = 0 /\ Awaited(q, t) = {}
      BY DEF SliceInv, ArrivalInv
    <3>2. CASE q = r
      <4>1. arrival[r][t] = 0
        BY <1>1, <3>1, <3>2, IdleReduced
      <4>2. Awaited(q, t)' = Slices(q, t) /\ Slices(q, t)' = Slices(q, t)
        BY <3>2, LaunchAwaited
      <4>3. Cardinality(Slices(q, t)) \in Nat
        BY HomeFacts, FS_CardinalityType
      <4> QED
        BY <1>3, <3>2, <4>1, <4>2, <4>3
    <3>3. CASE q # r
      BY <1>3, <3>1, <3>3, LaunchAwaited
    <3> QED
      BY <3>2, <3>3
  <2> QED
    BY <1>1, <1>2, <2>1 DEF ArrivalInv
<1>7. \A k : Home(k)' = Home(k)
  BY <1>1 DEF Home
<1>8. ASSUME NEW q \in Ranks PROVE LandedInv(q)'
  <2>1. ASSUME launch'[q] > 0, NEW t \in Tokens, NEW k \in Slices(q, t)
        PROVE  \/ launch'[Home(k)] < launch'[q]
               \/ launch'[Home(k)] = launch'[q] /\ \E d \in SMs : k \in todo'[Home(k)][d]
               \/ <<k, <<q, t>> >> \in landed'[q]
    <3>1. k \in Tasks
      BY HomeFacts
    <3>2. PICK h \in Ranks : h = Home(k)
      BY <3>1, HomeFacts
    <3>3. CASE h = r
      <4>1. \E d \in SMs : k \in todo'[r][d]
        <5>1. \A x \in Tasks : Home(x) = r => \E e \in SMs : x \in todo'[r][e]
          BY LaunchFacts
        <5> QED
          BY <3>1, <3>2, <3>3, <5>1
      <4>2. launch[q] = launch[r] \/ launch[q] = launch[r] + 1
        BY <1>1, IdleFacts
      <4>3. CASE q = r
        BY <3>2, <3>3, <4>1, <4>3
      <4>4. CASE q # r /\ launch[q] = launch[r] + 1
        BY <1>5, <3>2, <3>3, <4>1, <4>4
      <4>5. CASE q # r /\ launch[q] = launch[r]
        <5>1. launch[q] > 0
          BY <1>5, <2>1, <4>5
        <5>2. \A d \in SMs : k \notin todo[r][d]
          BY <1>1, <3>1, IdleFacts
        <5>3. <<k, <<q, t>> >> \in landed[q]
          <6>1. \/ launch[h] < launch[q]
                \/ launch[h] = launch[q] /\ \E d \in SMs : k \in todo[h][d]
                \/ <<k, <<q, t>> >> \in landed[q]
            BY <2>1, <3>2, <5>1 DEF SliceInv, LandedInv
          <6>2. ~(launch[h] < launch[q])
            BY <1>4, <3>3, <4>5
          <6> QED
            BY <3>3, <5>2, <6>1, <6>2
        <5> QED
          BY <1>3, <4>5, <5>3
      <4> QED
        BY <4>2, <4>3, <4>4, <4>5
    <3>4. CASE h # r
      <4>1. \A d \in SMs : todo'[h][d] = todo[h][d]
        BY <3>4, LaunchFacts DEF CtaStands
      <4>2. CASE q = r
        <5>1. launch[h] = launch[r] \/ launch[h] = launch[r] + 1
          BY <1>1, IdleFacts
        <5>2. CASE launch[h] = launch[r]
          BY <1>4, <1>5, <3>2, <3>4, <4>2, <5>2
        <5>3. CASE launch[h] = launch[r] + 1
          <6>1. \E d \in SMs : k \in todo[h][d]
            BY <1>4, <3>1, <3>2, <5>3 DEF ControlInv, SkewInv
          <6> QED
            BY <1>5, <3>2, <3>4, <4>1, <4>2, <5>3, <6>1
        <5> QED
          BY <5>1, <5>2, <5>3
      <4>3. CASE q # r
        <5>1. launch[q] > 0
          BY <1>5, <2>1, <4>3
        <5>2. \/ launch[h] < launch[q]
              \/ launch[h] = launch[q] /\ \E d \in SMs : k \in todo[h][d]
              \/ <<k, <<q, t>> >> \in landed[q]
          BY <2>1, <3>2, <5>1 DEF SliceInv, LandedInv
        <5> QED
          BY <1>3, <1>5, <3>2, <3>4, <4>1, <4>3, <5>2
      <4> QED
        BY <4>2, <4>3
    <3> QED
      BY <3>3, <3>4
  <2>2. \A t \in Tokens : Slices(q, t)' = Slices(q, t)
    BY LaunchAwaited
  <2> QED
    BY <1>2, <1>7, <2>1, <2>2 DEF LandedInv
<1> QED
  BY <1>2, <1>6, <1>8 DEF SliceInv

LEMMA NextSlice ==
  NoIdleCta /\ TypeInv /\ ControlInv /\ TicketInv /\ SliceInv /\ [Next]_vars => SliceInv'
<1> SUFFICES ASSUME NoIdleCta, TypeInv, ControlInv, TicketInv, SliceInv, [Next]_vars PROVE SliceInv'
  OBVIOUS
<1>1. CASE UNCHANGED vars
  <2>1. 0 \in Ranks /\ 0 \in SMs
    BY SetupFacts DEF TypeInv
  <2>2. arrival' = arrival /\ reduced' = reduced /\ landed' = landed /\ todo' = todo
    BY <1>1 DEF vars, wordVars, historyVars
  <2> QED
    BY <1>1, <2>1, <2>2, StutterControl, SameStored, SliceStands
<1>2. ASSUME NEW r \in Ranks, Launch(r) PROVE SliceInv'
  BY <1>2, LaunchSlice
<1>3. ASSUME NEW r \in Ranks, NEW c \in SMs, TaskStep(r, c) PROVE SliceInv'
  <2>1. CASE RunTask(r, c)
    BY <2>1, RunTaskSlice
  <2>2. CASE PostTask(r, c)
    <3>1. arrival' = arrival /\ reduced' = reduced /\ landed' = landed /\ todo' = todo
      BY <2>2 DEF PostTask, wordVars, historyVars
    <3> QED
      BY <2>2, <3>1, PostTaskControl, SameStored, SliceStands
  <2> QED
    BY <1>3, <2>1, <2>2 DEF TaskStep
<1>4. ASSUME NEW r \in Ranks, NEW c \in SMs, SignallerStep(r, c) PROVE SliceInv'
  <2>1. CASE SignalRow(r, c)
    BY <2>1, SignalRowSlice
  <2>2. CASE TakeEntry(r, c) \/ EndEntry(r, c) \/ Cleanup(r, c) \/ LeaveBarrier3(r, c)
    <3>1. arrival' = arrival /\ reduced' = reduced /\ landed' = landed /\ todo' = todo
      BY <2>2 DEF TakeEntry, EndEntry, Cleanup, LeaveBarrier3, wordVars, historyVars
    <3>2. LocalStep(r, c) /\ OpenStands(r, c)
      BY <2>2, TakeEntryControl, EndEntryControl, CleanupControl
    <3> QED
      BY <3>1, <3>2, SameStored, SliceStands
  <2> QED
    BY <1>4, <2>1, <2>2 DEF SignallerStep
<1>5. ASSUME NEW r \in Ranks, NEW c \in SMs, NEW w \in Warps, WarpStep(r, c, w) PROVE SliceInv'
  <2>1. CASE Reduce(r, c, w)
    BY <2>1, ReduceSlice
  <2>2. CASE ReadEpoch(r, c, w) \/ LeaveTaskLoop(r, c, w) \/ Peek(r, c, w) \/ Claim(r, c, w)
    <3>1. arrival' = arrival /\ reduced' = reduced /\ landed' = landed /\ todo' = todo
      BY <2>2 DEF ReadEpoch, LeaveTaskLoop, Peek, Claim, wordVars, historyVars
    <3>2. LocalStep(r, c) /\ OpenStands(r, c)
      BY <2>2, WarpStepControl, LeaveTaskLoopControl
    <3> QED
      BY <3>1, <3>2, SameStored, SliceStands
  <2> QED
    BY <1>5, <2>1, <2>2 DEF WarpStep
<1> QED
  BY <1>1, <1>2, <1>3, <1>4, <1>5 DEF Next, Finished

-----------------------------------------------------------------------------
(***************************************************************************)
(* The theorems.                                                           *)
(***************************************************************************)
CombineInv == TypeInv /\ ControlInv /\ TicketInv /\ SliceInv

LEMMA CombineInvariant ==
  ASSUME NoIdleCta PROVE Spec => []CombineInv
<1>1. Init => CombineInv
  BY InitType, InitControl, InitTicket, InitSlice DEF CombineInv
<1>2. CombineInv /\ [Next]_vars => CombineInv'
  BY NextType, NextControl, NextTicket, NextSlice DEF CombineInv
<1> QED
  BY <1>1, <1>2, PTL DEF Spec

\* A token is reduced only when all its slices of this launch have been stored
\* at its source rank.
THEOREM SlicesPresent ==
  ASSUME NoIdleCta PROVE Spec => []ReducedComplete
<1>1. CombineInv => ReducedComplete
  <2> SUFFICES ASSUME CombineInv, NEW r \in Ranks, NEW t \in Tokens,
                      reduced[r][t] > 0, launch[r] > 0, NEW k \in Slices(r, t)
               PROVE  <<k, <<r, t>> >> \in landed[r]
    BY DEF ReducedComplete
  <2>1. Awaited(r, t) = {}
    BY DEF CombineInv, SliceInv, ArrivalInv
  <2>2. k \in Tasks /\ Home(k) \in Ranks
    BY HomeFacts DEF CombineInv
  <2>3. ~(launch[Home(k)] < launch[r])
    BY <2>1 DEF Awaited
  <2>4. launch[Home(k)] = launch[r] => \A d \in SMs : k \notin todo[Home(k)][d]
    BY <2>1 DEF Awaited, Open
  <2> QED
    BY <2>3, <2>4 DEF CombineInv, SliceInv, LandedInv
<1> QED
  BY <1>1, CombineInvariant, PTL

\* Each token is reduced once in every launch: no two warps draw the same one,
\* and the warps leave when all are done.
THEOREM ReducedOnce ==
  ASSUME NoIdleCta PROVE Spec => []TokensOnce
<1>1. CombineInv => TokensOnce
  <2> SUFFICES ASSUME CombineInv, NEW r \in Ranks, NEW t \in Tokens
               PROVE  reduced[r][t] <= 1 /\ (Idle(r) => reduced[r][t] = 1)
    BY DEF TokensOnce
  <2>1. reduced[r][t] = 0 \/ reduced[r][t] = 1
    BY DEF CombineInv, TicketInv, RankTicketInv, DrawnInv
  <2>2. Idle(r) => reduced[r][t] = 1
    BY IdleReduced DEF CombineInv
  <2> QED
    BY <2>1, <2>2
<1> QED
  BY <1>1, CombineInvariant, PTL

\* What the comments of the kernel say of the cleanup holds where every CTA with
\* several epilogue warps executes a task.
THEOREM EpochReadFirst ==
  ASSUME NoIdleCta PROVE Spec => []EpochReadBeforeBump
<1>1. CombineInv => EpochReadBeforeBump
  BY EpochRead DEF CombineInv
<1> QED
  BY <1>1, CombineInvariant, PTL
=============================================================================
