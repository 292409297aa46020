----------------------------- MODULE SplitLaunch -----------------------------
(***************************************************************************)
(* The two launches of the split MXFP4 / int4 kernels, around the blocks   *)
(* that Sm90MegaMoe is about.  The L1 kernel quantises the activations,    *)
(* routes the tokens, counts and announces them, pulls the rows into the   *)
(* pool and multiplies them; the L2 kernel multiplies its output, combines *)
(* and clears the workspace.  Nothing in the L2 kernel waits for a row:    *)
(* it is launched behind the L1 kernel, without the dependent launch that  *)
(* would let it start early.                                               *)
(*                                                                         *)
(* One rank of two CTAs in clusters of one, whose dispatch warps, loaders  *)
(* and math warpgroup are an actor each in either kernel.  With one rank   *)
(* an NVLink barrier is its grid syncs.  A block has one K block, p.chunks *)
(* is 1 and p.experts at most p.parts.  Every CTA has a block of L2: the   *)
(* loader of one that has none may still be fetching the counts when they  *)
(* are cleared.                                                            *)
(***************************************************************************)
EXTENDS Sm100MegaMoe

\* Counters: arrivals at the grid syncs of the dispatch and of the math warps,
\* actors of the L1 kernel that have returned, and the high half of the words
\* of get_expert_recv_count_sum_ptr, the CTAs whose rows are counted.
GridDispatch == <<Gmem, "grid_dispatch">>
Returned == <<Gmem, "returned">>
RecvSum(e) == <<Gmem, "recv_sum", e>>

\* Cells: the low half of the same word; the CTAs' shares of a send count,
\* which is their sum; what the tokens look like on their own rank.
RecvRows(e) == <<Gmem, "recv_rows", e>>
RecvCount(e) == <<Gmem, "recv_count", e>>
SendShare(e, c) == <<Gmem, "send", e, c>>
Input(t) == <<Gmem, "x", t>>
TopK(t) == <<Gmem, "topk", t>>
SrcTokenTopK(x) == <<Gmem, "src", x.pool, x.row>>
\* Router logits lie in the output tensor until it is written, without gaps.
Scratch(p, t, e) == LET i == (t * p.experts) + e IN Output(i \div p.parts, i % p.parts)

Logit(t, e) == <<"logit", t, e>>
Selected(t) == <<"selected", t>>
Counted(n) == <<"counted", n>>

\* The tokens of CTA c that go to expert e.
Share(p, e, c) == Len(SelectSeq(TokensOf(p, c), LAMBDA t : e \in p.routes[t + 1]))

\* m-barriers of a launch; a loader announces a stage, the math frees it.
StageFull(l2, c, s) == <<c, "full", l2, s>>
StageEmpty(l2, c, s) == <<c, "empty", l2, s>>
LaunchBarriers(p) ==
  [b \in UNION { {PullBar(c), WithEpilogue(c), CombineBar(c, 0), CombineBar(c, 1)}
                 \cup UNION { {StageFull(l2, c, s), StageEmpty(l2, c, s)} :
                                l2 \in BOOLEAN, s \in 0 .. p.stages - 1 } : c \in CtaPair } |->
     IF b[2] = "with_epilogue" THEN 2 ELSE 1]

\* grid_sync: every CTA arrives for the k-th time before one goes on.
GridSync(counter, k) == <<[add |-> {<<counter, 1>>}] @@ Nop,
                          [least |-> {<<counter, k * Cardinality(CtaPair)>>}] @@ Nop>>

\* fetch_expert_recv_count: all rows of every expert have been counted.
FetchCounts(p) ==
  <<[until |-> { <<RecvSum(e), Cardinality(CtaPair)>> : e \in Experts(p) },
     read |-> { <<RecvRows(e), Counted(Len(Rows(p, e)))>> : e \in Experts(p) }] @@ Nop>>

-----------------------------------------------------------------------------
\* Dispatch warps of the L1 kernel.  A token belongs to the CTA that also
\* combines it, a (token, expert) pair to every second CTA.
QuantiseInput(p, c) ==
  <<[write |-> { <<Input(t), Token([token |-> t], 0)>> : t \in ToSet(TokensOf(p, c)) }] @@ Nop>>
RouterLogits(p, c) ==
  LET pairs == { x \in Tokens(p) \X Experts(p) : ((x[1] * p.experts) + x[2]) % 2 = c }
  IN  <<[write |-> { <<Scratch(p, x[1], x[2]), Logit(x[1], x[2])>> : x \in pairs }] @@ Nop>>
SelectTopK(p, c) ==
  <<[read |-> { <<Scratch(p, t, e), Logit(t, e)>> : t \in ToSet(TokensOf(p, c)), e \in Experts(p) },
     write |-> { <<TopK(t), Selected(t)>> : t \in ToSet(TokensOf(p, c)) }] @@ Nop>>

\* read_topk_idx, the count of each expert and its atomic add.
StakeOut(p, c) ==
  <<[read |-> { <<TopK(t), Selected(t)>> : t \in ToSet(TokensOf(p, c)) },
     write |-> { <<SendShare(e, c), Counted(Share(p, e, c))>> : e \in Experts(p) }] @@ Nop>>
\* Where a row comes from goes to the slot that was staked out for it, of
\* whose possible orders this is that of the tokens.
WriteSources(p, c) ==
  <<[read |-> { <<TopK(t), Selected(t)>> : t \in ToSet(TokensOf(p, c)) },
     write |-> { <<SrcTokenTopK(x), Source(x)>> :
                   x \in { y \in ToSet(PoolRows(p)) : y.token % 2 = c } }] @@ Nop>>

\* Fault: the counts are announced before all CTAs have staked out theirs.
AnnounceCounts_NoGridSync(p, c, k) ==
  IF c # 0 THEN GridSync(GridDispatch, k)
  ELSE <<[read |-> { <<SendShare(x[1], x[2]), Counted(Share(p, x[1], x[2]))>> : x \in Experts(p) \X CtaPair },
          write |-> { <<RecvCount(e), Counted(Len(Rows(p, e)))>> : e \in Experts(p) }] @@ Nop,
         [write |-> { <<RecvRows(e), Counted(Len(Rows(p, e)))>> : e \in Experts(p) },
          add |-> { <<RecvSum(e), Cardinality(CtaPair)>> : e \in Experts(p) }] @@ Nop>>
       \o GridSync(GridDispatch, k)
\* Behind the k-th grid sync SM 0 reads the send counts, stores them for the
\* pull loop and adds them to the words the schedulers wait for.
AnnounceCounts(p, c, k) ==
  GridSync(GridDispatch, k)
  \o (IF c # 0 THEN <<>>
      ELSE <<[read |-> { <<SendShare(x[1], x[2]), Counted(Share(p, x[1], x[2]))>> : x \in Experts(p) \X CtaPair },
              write |-> { <<RecvCount(e), Counted(Len(Rows(p, e)))>> : e \in Experts(p) }] @@ Nop,
             [write |-> { <<RecvRows(e), Counted(Len(Rows(p, e)))>> : e \in Experts(p) },
              add |-> { <<RecvSum(e), Cardinality(CtaPair)>> : e \in Experts(p) }] @@ Nop>>)

\* One row, the q-th of the warp: its source, the row through the buffer,
\* scales and weight, and when the store is complete the arrival.
PullRowSplit(p, c, x, q) ==
  <<[read |-> {<<RecvCount(x.expert), Counted(Len(Rows(p, x.expert)))>>, <<SrcTokenTopK(x), Source(x)>>,
               <<TopK(x.token), Selected(x.token)>>, <<Input(x.token), Token(x, 0)>>},
     load |-> {<<PullBuffer(c), Token(x, 0), PullBar(c), {<<Input(x.token), Token(x, 0)>>}>>},
     write |-> {<<L1SF(p, x.pool, x.row), Scale(x, -1)>>, <<L1Weight(p, x.pool, x.row), Weight(x)>>},
     arrive |-> {<<PullBar(c), 1>>}] @@ Nop,
    [write |-> {<<Metadata(x.pool, x.row), Source(x)>>}] @@ StoreChunk(p, c, x, 0, q),
    [drain |-> {<<"store", 0>>}, add |-> {<<L1Full(p, x.pool), 1>>}] @@ Nop>>

DispatchL1(p, c) ==
  QuantiseInput(p, c) \o GridSync(GridDispatch, 1)
  \o RouterLogits(p, c) \o GridSync(GridDispatch, 2)
  \o SelectTopK(p, c) \o GridSync(GridDispatch, 3)
  \o StakeOut(p, c) \o WriteSources(p, c) \o AnnounceCounts(p, c, 4)
  \o GridSync(GridDispatch, 5) \* of NVLink barrier 1, which has no prologue
  \o MeetEpilogue(c, 1) \o FetchCounts(p) \o PullRows(p, c, PullRowSplit)

-----------------------------------------------------------------------------
\* The blocks of a launch, N fastest; CTA c takes every second one.
PhaseBlocks(p, l2) ==
  FlattenSeq([x \in 1 .. p.experts |->
    LET ns == IF l2 THEN p.l2n ELSE p.l1n
    IN  [j \in 1 .. NumBlocks(p, x - 1) * ns |->
           [l2 |-> l2, expert |-> x - 1, pool |-> PoolBlockOffset(p, x - 1) + (j - 1) \div ns,
            n |-> (j - 1) % ns]]])
OwnBlocks(p, l2, c) ==
  LET bs == PhaseBlocks(p, l2) IN [j \in 1 .. CeilDiv(Len(bs) - c, 2) |-> bs[(2 * j) - 1 + c]]

\* What a loader copies for a block; the output of L1 is complete.
TileOf(b) == <<"tile", b.l2, b.pool>>
RowsFrom(p, b) ==
  UNION { IF b.l2 THEN UNION { {<<L1Out(p, b.pool, n, x.row), Activated(x, n)>>,
                                <<L2SF(p, b.pool, n, x.row), Scale(x, n)>>} : n \in 0 .. p.l1n - 1 }
          ELSE {<<L1Row(p, b.pool, x.row, 0), Token(x, 0)>>, <<L1SF(p, b.pool, x.row), Scale(x, -1)>>}
            : x \in BlockRows(p, b) }
LoadBlock(p, c, b, it) ==
  <<[until |-> IF b.l2 THEN {} ELSE {<<L1Full(p, b.pool), ValidM(p, b)>>}] @@ Nop,
    [wait |-> {<<StageEmpty(b.l2, c, Slot(p, it)), 1 - Parity(p, it)>>},
     load |-> {<<SmemA(c, Slot(p, it)), TileOf(b), StageFull(b.l2, c, Slot(p, it)), RowsFrom(p, b)>>},
     arrive |-> {<<StageFull(b.l2, c, Slot(p, it)), 1>>}] @@ Nop>>
LoadBlocks(p, l2, c) ==
  LET bs == OwnBlocks(p, l2, c)
  IN  FetchCounts(p) \o FlattenSeq([i \in 1 .. Len(bs) |-> LoadBlock(p, c, bs[i], i - 1)])

\* The product of a stage goes through shared memory, of L1 to the pool by a
\* store that is waited for, of L2 row by row to where the rows came from.
ProductOf(b) == <<"product", b.l2, b.pool, b.n>>
StoreBlockL1(p, c, b) ==
  LET rows == BlockRows(p, b)
  IN  <<[read |-> { <<L1Weight(p, x.pool, x.row), Weight(x)>> : x \in rows },
         write |-> {<<SmemD(c, 0), ProductOf(b)>>}
                   \cup { <<L2SF(p, x.pool, b.n, x.row), Scale(x, b.n)>> : x \in rows },
         issue |-> <<Group("store", {<<SmemD(c, 0), ProductOf(b)>>},
                           { <<L1Out(p, x.pool, b.n, x.row), Activated(x, b.n)>> : x \in rows }, {})>>] @@ Nop,
        [drain |-> {<<"store", 0>>}] @@ Nop>>
ScatterBlockL2(p, c, b) ==
  LET rows == BlockRows(p, b)
  IN  <<[write |-> {<<SmemD(c, 0), ProductOf(b)>>}] @@ Nop,
        [read |-> {<<SmemD(c, 0), ProductOf(b)>>}
                  \cup { <<Metadata(x.pool, x.row), Source(x)>> : x \in rows },
         write |-> { <<CombineRow(x.token, x.expert, b.n), Result(x, b.n)>> : x \in rows }] @@ Nop>>
MultiplyBlock(p, c, b, it) ==
  <<[wait |-> {<<StageFull(b.l2, c, Slot(p, it)), Parity(p, it)>>},
     read |-> {<<SmemA(c, Slot(p, it)), TileOf(b)>>},
     arrive |-> {<<StageEmpty(b.l2, c, Slot(p, it)), 0>>}] @@ Nop>>
  \o (IF b.l2 THEN ScatterBlockL2(p, c, b) ELSE StoreBlockL1(p, c, b))
MultiplyBlocks(p, l2, c) ==
  LET bs == OwnBlocks(p, l2, c)
  IN  FetchCounts(p) \o FlattenSeq([i \in 1 .. Len(bs) |-> MultiplyBlock(p, c, bs[i], i - 1)])

-----------------------------------------------------------------------------
\* cleanup_workspace: SM 0 the send counts, the other CTAs the received ones
\* and the arrivals of the blocks these say there are.
CleanupSplit(p, c) ==
  IF c = 0
  THEN <<[write |-> { <<SendShare(e, d), Counted(0)>> : e \in Experts(p), d \in CtaPair }] @@ Nop>>
  ELSE <<[read |-> { <<RecvRows(e), Counted(Len(Rows(p, e)))>> : e \in Experts(p) },
          write |-> { <<RecvRows(e), Counted(0)>> : e \in Experts(p) },
          add |-> { <<RecvSum(e), -Cardinality(CtaPair)>> : e \in Experts(p) }] @@ Nop,
         [add |-> { <<L1Full(p, b.pool), -ValidM(p, b)>> : b \in ToSet(PhaseBlocks(p, FALSE)) }] @@ Nop>>

\* The dispatch warps of the L2 kernel wait for the epilogue and clean up;
\* NVLink barrier 3 has no epilogue.
DispatchL2(p, c) ==
  FetchCounts(p) \o MeetEpilogue(c, 2) \o MeetEpilogue(c, 3)
  \o CleanupSplit(p, c) \o GridSync(GridDispatch, 6)

\* NVLink barrier 2 has both grid syncs.
CombineSplit(p, c) ==
  GridSync(GridEpilogue, 1) \o GridSync(GridEpilogue, 2) \o MeetEpilogue(c, 3)
  \o <<[read |-> { <<TopK(t), Selected(t)>> : t \in ToSet(TokensOf(p, c)) }] @@ Nop>>
  \o Combine(p, c)

\* The L2 kernel starts when every actor of the L1 kernel has returned.
LaunchActors == CtaPair \X {"dispatch", "load", "math"}
NextLaunch == <<[add |-> {<<Returned, 1>>}] @@ Nop,
                [least |-> {<<Returned, Cardinality(LaunchActors)>>}] @@ Nop>>

SplitCounters(p) == { RecvSum(e) : e \in Experts(p) }
                    \cup { L1Full(p, b.pool) : b \in ToSet(PhaseBlocks(p, FALSE)) }
\* At the end every token is combined and the workspace is clear again.
SplitLaunches(p) ==
  Kernel(LaunchBarriers(p),
    [a \in LaunchActors |->
       CASE a[2] = "dispatch" -> DispatchL1(p, a[1]) \o NextLaunch \o DispatchL2(p, a[1])
         [] a[2] = "load" -> LoadBlocks(p, FALSE, a[1]) \o NextLaunch \o LoadBlocks(p, TRUE, a[1])
         [] a[2] = "math" -> MeetEpilogue(a[1], 1) \o MultiplyBlocks(p, FALSE, a[1]) \o NextLaunch
                             \o MeetEpilogue(a[1], 2) \o MultiplyBlocks(p, TRUE, a[1]) \o CombineSplit(p, a[1])],
    [f \in SplitCounters(p) \cup {GridDispatch, GridEpilogue, Returned} |-> 0],
    [x \in { Output(t, h) : t \in Tokens(p), h \in 0 .. p.parts - 1 } |-> Reduced(x[3], x[4])]
    @@ [f \in SplitCounters(p) |-> 0]
    @@ [x \in { SendShare(e, c) : e \in Experts(p), c \in CtaPair } |-> Counted(0)])
=============================================================================
