--------------------------- MODULE B200Fp4MegaMoe ----------------------------
(***************************************************************************)
(* sm100_fp4_fp4_mega_moe of the B200 delivery: both operands are packed   *)
(* FP4, L1 and L2 have K blocks of their own width, both CTAs' weights     *)
(* count in full at the leader's barrier, and L2 waits for a count of N    *)
(* blocks where the FP8 build has a bit per block.  The signals are those  *)
(* of B200MegaMoe.  The half-N tiles, which the delivery dropped, are left *)
(* out.                                                                    *)
(***************************************************************************)
EXTENDS B200MegaMoe

\* The low word of the block's l2_arrival_mask.
L1Done(b) == <<Gmem, "l1_blocks_done", b>>

-----------------------------------------------------------------------------
\* One pushed row: packed values, scales in the layout of the tensor cores,
\* weight and source; the first load of a warp overlaps all its tickets.
Fp4PushRow(p, c, j) ==
  LET x == Share(p, c)[j]
  IN  (IF j = 1 THEN <<LoadChunk(c, x, 0), [add |-> Tickets(p, c)] @@ Nop>> ELSE <<LoadChunk(c, x, 0)>>)
      \o <<StoreChunk(p, c, x, 0, j - 1),
           [drain |-> {<<"store", 0>>},
            write |-> {<<L1SF(p, x.pool, x.row), Scale(x, -1)>>,
                       <<L1Weight(p, x.pool, x.row), Weight(x)>>,
                       <<Metadata(x.pool, x.row), Source(x)>>}] @@ Nop>>
\* Who has rows counts them; the warp that completes the count clears it and
\* signals DONE.
Fp4RowsArrive(p, c) ==
  LET senders == { d \in CtaPair : Len(Share(p, d)) > 0 }
  IN  CASE senders = {} /\ c = 0 -> <<[add |-> {<<PushDone, 1>>}] @@ Nop>>
        [] c \in senders ->
             <<[ticket |-> <<RowsPushed, Cardinality(senders), 1>>] @@ Nop,
               [add |-> {<<RowsPushed, -Cardinality(senders)>>, <<PushDone, 1>>}] @@ Nop>>
        [] OTHER -> <<>>
\* DONE handed on to the roles of the CTA.
Fp4HandOn(c) == <<[until |-> {<<PushDone, 1>>}, add |-> {<<DoneFlag(c), 1>>}] @@ Nop>>
\* DONE2 for the epilogue of the CTA, unless another CTA sent it.
Fp4Mailbox(c) == <<[poll |-> <<Mailbox(c), L2Done, 1>>] @@ Nop, [add |-> {<<L2Done, 1>>}] @@ Nop>>

\* One pulled row.
Fp4PullRow(p, c, x, q) ==
  <<LoadChunk(c, x, 0),
    [write |-> {<<L1SF(p, x.pool, x.row), Scale(x, -1)>>, <<L1Weight(p, x.pool, x.row), Weight(x)>>,
                <<Metadata(x.pool, x.row), Source(x)>>}] @@ StoreChunk(p, c, x, 0, q),
    [drain |-> {<<"store", 0>>}, add |-> {<<L1Arrival(x.pool), 1>>}] @@ Nop>>

\* SM 0 moves the epoch, SM 1 clears the counts of experts and blocks.
Fp4Cleanup(p, c) ==
  LET blocks == { <<L1Done(b), -p.l1n>> : b \in PoolBlocks(p) }
      counts == IF Push(p) THEN { <<RecvCount(e), -Len(Rows(p, e))>> : e \in Experts(p) }
                ELSE { <<L1Arrival(b), -ValidM(p, [pool |-> b])>> : b \in PoolBlocks(p) }
  IN  CASE c # 0 -> <<[add |-> blocks \cup counts] @@ Nop>>
        [] c = 0 /\ Push(p) -> <<[add |-> {<<Epoch, 1>>}] @@ Nop>>
        [] OTHER -> <<>>
Fp4Dispatch(p, c) ==
  (IF Push(p)
     THEN EnterRole(p) \o FlattenSeq([j \in 1 .. Len(Share(p, c)) |-> Fp4PushRow(p, c, j)])
          \o Fp4RowsArrive(p, c) \o MeetEpilogue(c, 1) \o Fp4HandOn(c) \o Fp4Mailbox(c)
     ELSE MeetEpilogue(c, 1) \o PullRows(p, c, Fp4PullRow))
  \o MeetEpilogue(c, 2) \o Fp4Cleanup(p, c)

-----------------------------------------------------------------------------
\* Fault: one N block short.
Fp4Arrived_Early(p, b) ==
  IF b.l2 THEN {<<L1Done(b.pool), p.l1n - 1>>}
  ELSE IF Push(p) THEN {} ELSE {<<L1Arrival(b.pool), ValidM(p, b)>>}
\* L1 has all rows, behind DONE or by their count, L2 all N blocks of L1.
Fp4Arrived(p, b) ==
  IF b.l2 THEN {<<L1Done(b.pool), p.l1n>>}
  ELSE IF Push(p) THEN {} ELSE {<<L1Arrival(b.pool), ValidM(p, b)>>}
Fp4LoadActs(p, c, b, k, it) ==
  LET s == Slot(p, it)
  IN  [wait |-> {<<Empty(c, s), 1 - Parity(p, it)>>},
       least |-> IF k = 0 THEN Fp4Arrived(p, b) ELSE {},
       load |-> {<<SmemA(c, s), Acts(b, c, k), Full(s), ActsFrom(p, b, c, k) \cup ScalesFrom(p, b, k)>>},
       arrive |-> {<<Full(s), IF c = Lead THEN 2 ELSE 0>>}] @@ Nop
Fp4LoadWeights(p, c, b, k, it) ==
  LET s == Slot(p, it)
  IN  [wait |-> {<<Empty(c, s), 1 - Parity(p, it)>>},
       load |-> {<<SmemB(c, s), Weights(b, c, k), Full(s)>>},
       arrive |-> {<<Full(s), IF c = Lead THEN 2 ELSE 0>>}] @@ Nop
\* The loader of weights starts behind DONE, with static slots on an expert as
\* soon as that has a row.
Fp4WeightLoader(p, c) ==
  LET bs == Blocks(p)
      Stream(i) == IF i = 0 THEN <<>>
                   ELSE [k \in 1 .. bs[i].k |-> Fp4LoadWeights(p, c, bs[i], k - 1, It(bs, i, k - 1))]
      OfSlot(x) == Live(x, Len(Stream(x.block))) \o Stream(x.block)
      slots == StaticSlots(p)
  IN  CASE p.mode = "pull" -> FlattenSeq([i \in 1 .. Len(bs) |-> Stream(i)])
        [] p.mode = "push" -> <<[until |-> OldEpoch(p) \cup {<<PushDone, 1>>}] @@ Nop>>
                              \o FlattenSeq([i \in 1 .. Len(bs) |-> Stream(i)])
        [] OTHER -> EnterRole(p) \o FlattenSeq([j \in DOMAIN slots |-> OfSlot(slots[j])])

\* Scale planes go to tensor memory in order with the MMAs; both N blocks of
\* the pair, of both CTAs.
Fp4Operands(b, k, s) ==
  { <<SmemA(c, s), Acts(b, c, k)>> : c \in CtaPair } \cup { <<SmemB(c, s), Weights(b, c, k)>> : c \in CtaPair }
Fp4MmaIssuer(p) ==
  LET bs == Blocks(p)
  IN  FlattenSeq([i \in 1 .. Len(bs) |->
        [k \in 1 .. bs[i].k |->
           LET it == It(bs, i, k - 1)
           IN  MmaStep(p, i, bs[i], k - 1, it, Fp4Operands(bs[i], k - 1, Slot(p, it)))]])
      \o LastRead(p)

-----------------------------------------------------------------------------
\* A store block of L1: packed pairs of columns, and their scale bytes.
Fp4StoreL1(p, c, i, b, w, s) ==
  LET n == NBlock(b, c)
      x == RowAt(p, b, StoredRows(p, b, w)[s])
      tile == <<StageL1(p, c, w, (s - 1) % p.storeStages), Staged(b, n, x.row)>>
  IN  <<[read |-> SumsOf(p, c, i, b) \cup {<<L1Weight(p, b.pool, x.row), Weight(x)>>},
         arrive |-> Release(p, i, AllValid(p, b, w) /\ s = p.blockM \div p.wgs)] @@ Nop,
        [drain |-> {<<"store", p.storeStages - 1>>},
         write |-> {tile, <<L2SF(p, b.pool, n, x.row), Scale(x, n)>>},
         issue |-> <<Group("store", {tile}, {<<L1Out(p, b.pool, n, x.row), Activated(x, n)>>}, {})>>] @@ Nop>>
\* What the epilogue does first and last with the sums of a block.
Fp4Sums(p, c, i) == <<[wait |-> {<<TmemFull(c, AccumStage(p, i)), AccumPhase(p, i)>>}] @@ Nop>>
Fp4Break(p, i, b, w) == IF AllValid(p, b, w) THEN <<>> ELSE <<[arrive |-> Release(p, i, TRUE)] @@ Nop>>
Fp4EpilogueL1(p, c, i, b, w) ==
  Fp4Sums(p, c, i)
  \o FlattenSeq([s \in 1 .. Len(StoredRows(p, b, w)) |-> Fp4StoreL1(p, c, i, b, w, s)])
  \o Fp4Break(p, i, b, w)
  \o <<[drain |-> {<<"store", 0>>}, arrive |-> {<<EpilogueFull(c), 0>>}] @@ Nop,
       [wait |-> EpiloguesMeet(c, i), add |-> IF w = 0 THEN {<<L1Done(b.pool), 1>>} ELSE {}] @@ Nop>>
\* A store block of L2, through shared memory to the rows' ranks.
Fp4StoreL2(p, c, i, b, w, s) ==
  LET n == NBlock(b, c)
      x == RowAt(p, b, StoredRows(p, b, w)[s])
      tile == { <<d, Staged(b, n, x.row)>> : d \in L2Stage(p, c, w) }
  IN  <<[read |-> SumsOf(p, c, i, b), write |-> tile,
         arrive |-> Release(p, i, AllValid(p, b, w) /\ s = p.blockM \div p.wgs)] @@ Nop,
        [read |-> tile \cup {<<Metadata(b.pool, x.row), Source(x)>>},
         write |-> {<<CombineRow(x.token, x.expert, n), Result(x, n)>>}] @@ Nop>>
\* The last L2 task of the rank is put into the mailbox.
Fp4TaskDone(p, c) ==
  <<[ticket |-> <<TasksDone, Total(p), 1>>] @@ Nop,
    [add |-> {<<TasksDone, -Total(p)>>, <<Mailbox(c), 1>>}] @@ Nop>>
Fp4EpilogueL2(p, c, i, b, w) ==
  Fp4Sums(p, c, i)
  \o FlattenSeq([s \in 1 .. Len(StoredRows(p, b, w)) |-> Fp4StoreL2(p, c, i, b, w, s)])
  \o Fp4Break(p, i, b, w)
  \o <<[arrive |-> {<<EpilogueFull(c), 0>>}] @@ Nop, [wait |-> EpiloguesMeet(c, i)] @@ Nop>>
  \o IF w = 0 /\ Push(p) THEN Fp4TaskDone(p, c) ELSE <<>>

\* Before the combine: DONE2 acquired by one warpgroup, or the grid barrier.
Fp4Gate(p, c, w) ==
  LET n == Len(Blocks(p))
      signal == Push(p) /\ n = 0 /\ c = 0 /\ w = 0
      acquired == IF Push(p) /\ w = 0 THEN {<<L2Done, 1>>} ELSE {}
  IN  (IF signal THEN <<[add |-> {<<L2Done, 1>>}] @@ Nop>> ELSE <<>>)
      \o <<[least |-> acquired, arrive |-> {<<EpilogueFull(c), 0>>}] @@ Nop,
           [wait |-> EpiloguesMeet(c, n + 1),
            add |-> IF ~Push(p) /\ w = 0 THEN {<<GridEpilogue, 1>>} ELSE {}] @@ Nop>>
      \o IF Push(p) THEN <<>> ELSE <<[until |-> {<<GridEpilogue, Cardinality(CtaPair)>>}] @@ Nop>>
\* An epilogue warpgroup from the first meeting to the combine, after which
\* tensor memory is given back.
Fp4Epilogue(p, c, w) ==
  LET bs == Blocks(p)
  IN  MeetEpilogue(c, 1) \o FetchCounts(p, c)
      \o FlattenSeq([i \in 1 .. Len(bs) |->
           IF bs[i].l2 THEN Fp4EpilogueL2(p, c, i, bs[i], w) ELSE Fp4EpilogueL1(p, c, i, bs[i], w)])
      \o Fp4Gate(p, c, w) \o MeetEpilogue(c, 2)
      \o IF w # 0 THEN <<>>
         ELSE (IF p.splits THEN SplitCombine(p, c) ELSE Combine(p, c))
              \o <<[write |-> { <<Tmem(c, t), Freed>> : t \in 0 .. p.accums - 1 }] @@ Nop>>

-----------------------------------------------------------------------------
Fp4Counters(p) ==
  { L1Done(b) : b \in PoolBlocks(p) }
  \cup IF Push(p) THEN { RecvCount(e) : e \in Experts(p) } \cup {RowsPushed, TasksDone}
       ELSE { L1Arrival(b) : b \in PoolBlocks(p) }
B200Fp4MegaMoe(p) ==
  Kernel(Barriers(p),
    [a \in Actors(p) |->
       CASE a[2] = "dispatch" -> Fp4Dispatch(p, a[1])
         [] a[2] = "load_a" ->
              FetchCounts(p, a[1]) \o KBlocks(p, LAMBDA b, k, it : Fp4LoadActs(p, a[1], b, k, it))
         [] a[2] = "load_b" -> Fp4WeightLoader(p, a[1])
         [] a[2] = "mma" -> FetchCounts(p, a[1]) \o Fp4MmaIssuer(p)
         [] a[2] = "epilogue" -> Fp4Epilogue(p, a[1], a[3])],
    [f \in Fp4Counters(p) \cup {GridEpilogue, Epoch, PushDone, L2Done}
           \cup UNION { {DoneFlag(c), Mailbox(c)} : c \in CtaPair } |-> 0],
    [x \in { Output(t, h) : t \in Tokens(p), h \in 0 .. p.parts - 1 } |-> Reduced(x[3], x[4])]
    @@ [f \in Fp4Counters(p) |-> 0]
    @@ (IF Push(p) THEN (Epoch :> 1 @@ PushDone :> 1 @@ L2Done :> 1) ELSE <<>>))
=============================================================================
