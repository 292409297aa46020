----------------------------- MODULE B200MegaMoe ------------------------------
(***************************************************************************)
(* sm100_fp8_fp4_mega_moe of the B200 delivery: the pool holds every block *)
(* (p.ring is its size), a bit per N block tells L2 that L1 is done, and   *)
(* there are two ways to the rows.                                         *)
(*                                                                         *)
(* pull   the dispatch warps fetch the rows, as in Sm100MegaMoe            *)
(* push   the dispatch warps send their rows to the pools of the experts.  *)
(*        The last one of a rank signals DONE to all ranks; a warp of each *)
(*        CTA waits for it and hands it on in shared memory.  The CTA with *)
(*        the rank's last L2 task has its dispatch warp signal DONE2, and  *)
(*        both targets follow from an epoch that every role reads when it  *)
(*        starts and SM 0 bumps at the end.                                *)
(* static push, and the loader of weights starts on an expert as soon as   *)
(*        its live count is positive.                                      *)
(*                                                                         *)
(* This is one rank of one cluster: its own signals are all there are.     *)
(* Rows come in the order of their tokens, one of those their tickets can  *)
(* give; static slots are those of a grid whose half is whole clusters.    *)
(* Problems have in addition  mode: "pull", "push" or "static",            *)
(*                            splits: kNumCombineSplits > 0                *)
(***************************************************************************)
EXTENDS Sm100MegaMoe

Push(p) == p.mode # "pull"

Epoch == <<Gmem, "epoch">>
RecvCount(e) == <<Gmem, "recv_count", e>> \* grows row by row under push
RowsPushed == <<Gmem, "push_cta_arrival">>
PushDone == <<Gmem, "push_done">>
TasksDone == <<Gmem, "l2_task_arrival">>
L2Done == <<Gmem, "l2_done">>
L1Arrival(b) == <<Gmem, "l1_arrival", b>>
MaskBit(b, n) == <<Gmem, "l2_arrival_mask", b, n>>
DoneFlag(c) == <<c, "done_flag">> \* smem_done_bcast[64]
Mailbox(c) == <<c, "mailbox">>    \* smem_done_bcast[63]

\* smem_cd: a TMA store stage holds the rows of all warpgroups.
StageL1(p, c, w, j) == SmemD(c, (p.wgs * j) + w)

Total(p) == p.l2n * Cardinality(PoolBlocks(p))

\* The epoch is read when a role starts; it is still the old one.
OldEpoch(p) == IF Push(p) THEN {<<Epoch, 0>>} ELSE {}
EnterRole(p) == IF Push(p) THEN <<[until |-> OldEpoch(p)] @@ Nop>> ELSE <<>>
\* Fault: the counts are taken as they are.
FetchCounts_Live(p, c) == EnterRole(p)
\* A task role, once the counts are final.
FetchCounts(p, c) ==
  IF Push(p) THEN <<[until |-> OldEpoch(p) \cup {<<DoneFlag(c), 1>>}] @@ Nop>> ELSE <<>>

-----------------------------------------------------------------------------
\* Push.  The routed rows in the order of tokens and slots, in contiguous
\* shares; the row's place in the pool is the one its ticket gives.
SourceRows(p) ==
  FlattenSeq([i \in 1 .. Len(p.routes) |->
    LET slots == SlotsOf(p, i - 1)
    IN  [j \in 1 .. Len(slots) |->
          CHOOSE x \in ToSet(PoolRows(p)) : x.token = i - 1 /\ x.expert = slots[j]]])
Share(p, c) ==
  LET rows == SourceRows(p)
      per == CeilDiv(Len(rows), 2)
  IN  SubSeq(rows, (c * per) + 1, Min({(c + 1) * per, Len(rows)}))

\* The first row is loaded while the tickets of all are taken.
Tickets(p, c) ==
  { <<RecvCount(e), Cardinality({ j \in DOMAIN Share(p, c) : Share(p, c)[j].expert = e })>> :
      e \in { x.expert : x \in ToSet(Share(p, c)) } }
PushRow(p, c, j) ==
  LET x == Share(p, c)[j]
  IN  <<LoadChunk(c, x, 0)>>
      \o (IF j = 1 THEN <<[add |-> Tickets(p, c)] @@ Nop>> ELSE <<>>)
      \o <<StoreChunk(p, c, x, 0, j - 1),
           [drain |-> {<<"store", 0>>},
            write |-> {<<L1SF(p, x.pool, x.row), Scale(x, -1)>>,
                       <<L1Weight(p, x.pool, x.row), Weight(x)>>,
                       <<Metadata(x.pool, x.row), Source(x)>>}] @@ Nop>>
\* The last warp with rows to arrive resets the count of them and signals
\* DONE; without any row SM 0 does.
RowsArrive(p, c) ==
  LET pushers == { d \in CtaPair : Share(p, d) # <<>> }
      reset == <<RowsPushed, -Cardinality(pushers)>>
  IN  CASE pushers = {} -> IF c = 0 THEN <<[add |-> {<<PushDone, 1>>}] @@ Nop>> ELSE <<>>
        [] c \in pushers -> <<[ticket |-> <<RowsPushed, Cardinality(pushers), 1>>] @@ Nop,
                              [add |-> {reset, <<PushDone, 1>>}] @@ Nop>>
        [] OTHER -> <<>>
\* DONE acquired, handed on; then for the mailbox, or for DONE2 of another CTA.
Signals(c) ==
  <<[until |-> {<<PushDone, 1>>}, add |-> {<<DoneFlag(c), 1>>}] @@ Nop,
    [poll |-> <<Mailbox(c), L2Done, 1>>] @@ Nop,
    [add |-> {<<L2Done, 1>>}] @@ Nop>>

\* Pull: a row counts when it is stored, the padding does not.
PoolPullRow(p, c, x, q) ==
  <<LoadChunk(c, x, 0),
    [write |-> {<<L1SF(p, x.pool, x.row), Scale(x, -1)>>, <<L1Weight(p, x.pool, x.row), Weight(x)>>,
                <<Metadata(x.pool, x.row), Source(x)>>}] @@ StoreChunk(p, c, x, 0, q),
    [drain |-> {<<"store", 0>>}, add |-> {<<L1Arrival(x.pool), 1>>}] @@ Nop>>

\* SM 0 bumps the epoch, SM 1 clears what the launch counted.
PoolCleanup(p, c) ==
  IF c = 0 THEN IF Push(p) THEN <<[add |-> {<<Epoch, 1>>}] @@ Nop>> ELSE <<>>
  ELSE <<[add |-> { <<MaskBit(b, n), -1>> : b \in PoolBlocks(p), n \in 0 .. p.l1n - 1 }
                  \cup IF Push(p) THEN { <<RecvCount(e), -Len(Rows(p, e))>> : e \in Experts(p) }
                       ELSE { <<L1Arrival(b), -ValidM(p, [pool |-> b])>> : b \in PoolBlocks(p) }] @@ Nop>>
PoolDispatch(p, c) ==
  (IF Push(p)
     THEN EnterRole(p) \o FlattenSeq([j \in 1 .. Len(Share(p, c)) |-> PushRow(p, c, j)])
          \o RowsArrive(p, c) \o MeetEpilogue(c, 1) \o Signals(c)
     ELSE MeetEpilogue(c, 1) \o PullRows(p, c, PoolPullRow))
  \o MeetEpilogue(c, 2) \o PoolCleanup(p, c)

-----------------------------------------------------------------------------
\* Fault: L2 starts with the first N block.
PoolArrived_First(p, b) ==
  IF b.l2 THEN {<<MaskBit(b.pool, 0), 1>>}
  ELSE IF Push(p) THEN {} ELSE {<<L1Arrival(b.pool), ValidM(p, b)>>}
\* The whole block is there: the rows behind DONE or counted, for L2 all bits.
PoolArrived(p, b) ==
  IF b.l2 THEN { <<MaskBit(b.pool, n), 1>> : n \in 0 .. p.l1n - 1 }
  ELSE IF Push(p) THEN {} ELSE {<<L1Arrival(b.pool), ValidM(p, b)>>}
PoolLoadActs(p, c, b, k, it) ==
  [LoadActs(p, c, b, k, it) EXCEPT !.until = IF k = 0 THEN PoolArrived(p, b) ELSE {}]

\* for_each_static_slot: both phases, every expert, the blocks of each, 0 for an
\* expert without any.
StaticSlots(p) ==
  LET bs == Blocks(p)
      Of(l2, e) == { i \in DOMAIN bs : bs[i].l2 = l2 /\ bs[i].expert = e }
      Slots(l2, e) == IF Of(l2, e) = {} THEN <<0>> ELSE SetToSortSeq(Of(l2, e), <)
  IN  FlattenSeq([x \in 1 .. 2 * p.experts |->
        LET e == (x - 1) % p.experts
            s == Slots(x > p.experts, e)
        IN  [j \in DOMAIN s |-> [expert |-> e, block |-> s[j]]]])
\* The loader of weights waits for a count of the expert; an empty one is known
\* to be once DONE is there.
Live(x, steps) == <<[poll |-> <<RecvCount(x.expert), PushDone, steps>>] @@ Nop>>
StaticWeights(p, c) ==
  LET bs == Blocks(p)
      slots == StaticSlots(p)
      Stream(i) == IF i = 0 THEN <<>>
                   ELSE [k \in 1 .. bs[i].k |-> LoadWeights(p, c, bs[i], k - 1, It(bs, i, k - 1))]
  IN  FlattenSeq([j \in DOMAIN slots |->
        LET stream == Stream(slots[j].block) IN Live(slots[j], Len(stream)) \o stream])
\* Otherwise it waits for DONE itself.
PoolLoadWeights(p, c) ==
  IF p.mode = "static" THEN StaticWeights(p, c)
  ELSE (IF Push(p) THEN <<[until |-> {<<PushDone, 1>>}] @@ Nop>> ELSE <<>>)
       \o KBlocks(p, LAMBDA b, k, it : LoadWeights(p, c, b, k, it))

-----------------------------------------------------------------------------
PoolStoreL1(p, c, i, b, w, s) ==
  LET n == NBlock(b, c)
      x == RowAt(p, b, StoredRows(p, b, w)[s])
      buffer == StageL1(p, c, w, (s - 1) % p.storeStages)
      last == AllValid(p, b, w) /\ s = p.blockM \div p.wgs
  IN  <<[read |-> SumsOf(p, c, i, b) \cup {<<L1Weight(p, b.pool, x.row), Weight(x)>>},
         arrive |-> Release(p, i, last)] @@ Nop,
        [drain |-> {<<"store", p.storeStages - 1>>},
         write |-> {<<buffer, Staged(b, n, x.row)>>, <<L2SF(p, b.pool, n, x.row), Scale(x, n)>>},
         issue |-> <<Group("store", {<<buffer, Staged(b, n, x.row)>>},
                           {<<L1Out(p, b.pool, n, x.row), Activated(x, n)>>}, {})>>] @@ Nop>>
\* L1: no slot to wait for, and the bit of the N block when it is stored.
PoolEpilogueL1(p, c, i, b, w) ==
  <<[wait |-> {<<TmemFull(c, AccumStage(p, i)), AccumPhase(p, i)>>}] @@ Nop>>
  \o FlattenSeq([s \in 1 .. Len(StoredRows(p, b, w)) |-> PoolStoreL1(p, c, i, b, w, s)])
  \o (IF AllValid(p, b, w) THEN <<>> ELSE <<[arrive |-> Release(p, i, TRUE)] @@ Nop>>)
  \o <<[drain |-> {<<"store", 0>>}, arrive |-> {<<EpilogueFull(c), 0>>}] @@ Nop,
       [wait |-> EpiloguesMeet(c, i),
        add |-> IF w = 0 THEN {<<MaskBit(b.pool, NBlock(b, c)), 1>>} ELSE {}] @@ Nop>>
\* L2: the rank's last task goes to the mailbox of its CTA.
PoolEpilogueL2(p, c, i, b, w) ==
  <<[wait |-> {<<TmemFull(c, AccumStage(p, i)), AccumPhase(p, i)>>}] @@ Nop>>
  \o FlattenSeq([s \in 1 .. Len(StoredRows(p, b, w)) |-> StoreL2(p, c, i, b, w, s)])
  \o (IF AllValid(p, b, w) THEN <<>> ELSE <<[arrive |-> Release(p, i, TRUE)] @@ Nop>>)
  \o <<[arrive |-> {<<EpilogueFull(c), 0>>}] @@ Nop, [wait |-> EpiloguesMeet(c, i)] @@ Nop>>
  \o IF w # 0 \/ ~Push(p) THEN <<>>
     ELSE <<[ticket |-> <<TasksDone, Total(p), 1>>] @@ Nop,
            [add |-> {<<TasksDone, -Total(p)>>, <<Mailbox(c), 1>>}] @@ Nop>>

\* All L2 tasks are done: DONE2, by SM 0 if there is none, or the grid barrier.
CombineGate(p, c, w) ==
  LET n == Len(Blocks(p))
  IN  (IF Push(p) /\ n = 0 /\ c = 0 /\ w = 0 THEN <<[add |-> {<<L2Done, 1>>}] @@ Nop>> ELSE <<>>)
      \o IF Push(p)
           THEN <<[least |-> IF w = 0 THEN {<<L2Done, 1>>} ELSE {}, arrive |-> {<<EpilogueFull(c), 0>>}] @@ Nop,
                  [wait |-> EpiloguesMeet(c, n + 1)] @@ Nop>>
           ELSE <<[arrive |-> {<<EpilogueFull(c), 0>>}] @@ Nop,
                  [wait |-> EpiloguesMeet(c, n + 1), add |-> IF w = 0 THEN {<<GridEpilogue, 1>>} ELSE {}] @@ Nop,
                  [until |-> {<<GridEpilogue, Cardinality(CtaPair)>>}] @@ Nop>>
\* With splits a warp takes every second part, of any token.
SplitCombine(p, c) ==
  LET items == SelectSeq([i \in 1 .. Len(p.routes) * p.parts |-> i - 1], LAMBDA x : x % 2 = c)
      token(j) == items[j] \div p.parts
      before(j) == MapThenSumSet(LAMBDA x : Len(SlotsOf(p, token(x))), 1 .. j - 1)
  IN  FlattenSeq([j \in 1 .. Len(items) |-> CombinePart(p, c, token(j), items[j] % p.parts, before(j))])
\* Tensor memory is given back after the combine.
PoolEpilogue(p, c, w) ==
  LET bs == Blocks(p)
  IN  MeetEpilogue(c, 1) \o FetchCounts(p, c)
      \o FlattenSeq([i \in 1 .. Len(bs) |->
           IF bs[i].l2 THEN PoolEpilogueL2(p, c, i, bs[i], w) ELSE PoolEpilogueL1(p, c, i, bs[i], w)])
      \o CombineGate(p, c, w) \o MeetEpilogue(c, 2)
      \o IF w # 0 THEN <<>>
         ELSE (IF p.splits THEN SplitCombine(p, c) ELSE Combine(p, c))
              \o <<[write |-> { <<Tmem(c, t), Freed>> : t \in 0 .. p.accums - 1 }] @@ Nop>>

\* What is zero before a launch and must be after it.
PoolCounters(p) ==
  { MaskBit(b, n) : b \in PoolBlocks(p), n \in 0 .. p.l1n - 1 }
  \cup IF Push(p) THEN { RecvCount(e) : e \in Experts(p) } \cup {RowsPushed, TasksDone}
       ELSE { L1Arrival(b) : b \in PoolBlocks(p) }
B200Fp8MegaMoe(p) ==
  Kernel(Barriers(p),
    [a \in Actors(p) |->
       CASE a[2] = "dispatch" -> PoolDispatch(p, a[1])
         [] a[2] = "load_a" ->
              FetchCounts(p, a[1]) \o KBlocks(p, LAMBDA b, k, it : PoolLoadActs(p, a[1], b, k, it))
         [] a[2] = "load_b" -> EnterRole(p) \o PoolLoadWeights(p, a[1])
         [] a[2] = "mma" -> FetchCounts(p, a[1]) \o MmaIssuer(p)
         [] a[2] = "epilogue" -> PoolEpilogue(p, a[1], a[3])],
    [f \in PoolCounters(p) \cup {GridEpilogue, Epoch, PushDone, L2Done}
           \cup { DoneFlag(c) : c \in CtaPair } \cup { Mailbox(c) : c \in CtaPair } |-> 0],
    [x \in { Output(t, h) : t \in Tokens(p), h \in 0 .. p.parts - 1 } |-> Reduced(x[3], x[4])]
    @@ [f \in PoolCounters(p) |-> 0]
    @@ (IF Push(p) THEN (Epoch :> 1 @@ PushDone :> 1 @@ L2Done :> 1) ELSE <<>>))
=============================================================================
