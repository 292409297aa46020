----------------------------- MODULE Sm100MegaMoe -----------------------------
(***************************************************************************)
(* sm100_fp8_fp4_mega_moe: what the warps of the two CTAs of a cluster do, *)
(* from the pull of the routed rows to the combined output.                *)
(*                                                                         *)
(* Pool blocks live in a ring of slots: the dispatch warps fill a slot     *)
(* when all L1 blocks of its previous owner are done (l1_empty), L1 writes *)
(* its output into the slot when all L2 blocks of the previous owner have  *)
(* been multiplied (l2_empty), and the loaders wait for whole blocks by    *)
(* counts that grow from lap to lap (l1_full, l2_full).  The host sizes    *)
(* the ring so that a wave of experts fits.                                *)
(*                                                                         *)
(* A warpgroup is one actor: the warps within it are kept in step by       *)
(* named barriers around every use of shared memory.                       *)
(***************************************************************************)
EXTENDS MegaMoeCluster

L1SF(p, b, r) == <<Gmem, "l1_sf", Ring(p, b), r>>
L2SF(p, b, n, r) == <<Gmem, "l2_sf", Ring(p, b), n, r>>
Scale(x, n) == <<"scale", x.token, x.expert, n>>

\* Arrivals: a full barrier gets one of each loader of each CTA, a tmem_empty
\* barrier those of the epilogues of both.
Barriers(p) ==
  [b \in UNION { { PullBar(c), EpilogueFull(c), WithEpilogue(c), CombineBar(c, 0), CombineBar(c, 1) }
                   \cup { Empty(c, s) : s \in 0 .. p.stages - 1 }
                   \cup { TmemFull(c, t) : t \in 0 .. p.accums - 1 } : c \in CtaPair }
         \cup { Full(s) : s \in 0 .. p.stages - 1 } \cup { TmemEmpty(t) : t \in 0 .. p.accums - 1 } |->
     CASE b[2] = "full" -> 4
       [] b[2] = "tmem_empty" -> 2 * p.wgs
       [] b[2] = "epilogue" -> p.wgs
       [] b[2] = "with_epilogue" -> p.wgs + 1
       [] OTHER -> 1]

\* The dispatch warps and the epilogue of a CTA meet, for the k-th time.
MeetEpilogue(c, k) == <<[arrive |-> {<<WithEpilogue(c), 0>>}] @@ Nop,
                        [wait |-> {<<WithEpilogue(c), (k - 1) % 2>>}] @@ Nop>>

-----------------------------------------------------------------------------
\* The source rank's row h-th chunk into the pull buffer.
LoadChunk(c, x, h) ==
  [load |-> {<<PullBuffer(c), Token(x, h), PullBar(c)>>}, arrive |-> {<<PullBar(c), 1>>}] @@ Nop
\* issue_and_wait_pull_store; q chunks came through the buffer before.
StoreChunk(p, c, x, h, q) ==
  [wait |-> {<<PullBar(c), q % 2>>},
   issue |-> <<Group("store", {<<PullBuffer(c), Token(x, h)>>},
                     {<<L1Row(p, x.pool, x.row, h), Token(x, h)>>}, {})>>] @@ Nop

\* Fault: the slot is filled although its last owner may still be read.
RingFree_Always(p, x) == {}
\* Wait for the slot: all L1 N blocks of its previous owners are done.
RingFree(p, x) ==
  IF Lap(p, x.pool) = 0 THEN {} ELSE {<<L1Empty(p, x.pool), Lap(p, x.pool) * p.l1n>>}

\* One row: chunk by chunk through one buffer, scales, weight and source,
\* and the arrival, in which the last row of an expert stands for the padding.
PullRow(p, c, x, q) ==
  <<[least |-> RingFree(p, x)] @@ LoadChunk(c, x, 0)>>
  \o FlattenSeq([h \in 1 .. p.chunks - 1 |->
       <<StoreChunk(p, c, x, h - 1, q + h - 1), [drain |-> {<<"store", 0>>}] @@ LoadChunk(c, x, h)>>])
  \o <<[write |-> {<<L1SF(p, x.pool, x.row), Scale(x, -1)>>,
                   <<L1Weight(p, x.pool, x.row), Weight(x)>>,
                   <<Metadata(x.pool, x.row), Source(x)>>}]
         @@ StoreChunk(p, c, x, p.chunks - 1, q + p.chunks - 1),
       [drain |-> {<<"store", 0>>},
        add |-> {<<L1Full(p, x.pool), IF x.last THEN p.blockM - x.row ELSE 1>>}] @@ Nop>>

\* The warp takes every second row of the pool.
PullRows(p, c, Row(_, _, _, _)) ==
  LET rows == PoolRows(p)
  IN  FlattenSeq([j \in 1 .. CeilDiv(Len(rows) - c, 2) |->
        Row(p, c, rows[(2 * j) - 1 + c], (j - 1) * p.chunks)])

\* The last value of a counter of a ring slot, which the cleanup resets.
PoolBlocks(p) == { x.pool : x \in ToSet(PoolRows(p)) }
Owners(p, slot) == Cardinality({ b \in PoolBlocks(p) : Ring(p, b) = slot })
RingCounters(p) == { f \in UNION { {L1Full(p, s), L1Empty(p, s), L2Full(p, s), L2Empty(p, s)} :
                                     s \in 0 .. p.ring - 1 } : Owners(p, f[3]) > 0 }
LastCount(p, f) == Owners(p, f[3]) * (CASE f[2] = "l1_full" -> p.blockM
                                        [] f[2] \in {"l1_empty", "l2_full"} -> p.l1n
                                        [] f[2] = "l2_empty" -> p.l2n)
\* SM 1 clears the counters of all blocks of the rank, once the epilogues are
\* past their barrier.
Cleanup(p, c) ==
  IF c = 0 THEN <<>>
  ELSE <<[add |-> { <<f, -LastCount(p, f)>> : f \in RingCounters(p) }] @@ Nop>>

Dispatch(p, c, Row(_, _, _, _)) ==
  MeetEpilogue(c, 1) \o PullRows(p, c, Row) \o MeetEpilogue(c, 2) \o Cleanup(p, c)

-----------------------------------------------------------------------------
\* The rows of a block a CTA loads: half of the valid ones, from its offset.
LoadedRows(p, b, c) ==
  LET half == CeilDiv(ValidM(p, b), 2)
  IN  { x \in BlockRows(p, b) : x.row \in (c * half) .. ((c * half) + (p.blockM \div 2) - 1) }
\* The chunks of a row K block k lies in, the N blocks whose output it is.
ChunksOf(p, k) == { h \in 0 .. p.chunks - 1 : h * p.l1k < (k + 1) * p.chunks /\ k * p.chunks < (h + 1) * p.l1k }
OutputsOf(k) == {2 * k, (2 * k) + 1}

ActsFrom(p, b, c, k) ==
  UNION { IF b.l2 THEN { <<L1Out(p, b.pool, n, x.row), Activated(x, n)>> : n \in OutputsOf(k) }
          ELSE { <<L1Row(p, b.pool, x.row, h), Token(x, h)>> : h \in ChunksOf(p, k) }
            : x \in LoadedRows(p, b, c) }
\* Scales are loaded for the whole block by both.
ScalesFrom(p, b, k) ==
  UNION { IF b.l2 THEN { <<L2SF(p, b.pool, n, x.row), Scale(x, n)>> : n \in OutputsOf(k) }
          ELSE {<<L1SF(p, b.pool, x.row), Scale(x, -1)>>} : x \in BlockRows(p, b) }

\* Fault: the counts of the first lap.
Arrived_FirstLap(p, b) ==
  IF b.l2 THEN <<L2Full(p, b.pool), p.l1n>> ELSE <<L1Full(p, b.pool), p.blockM>>
\* The entire block has arrived, its owner's lap included.
Arrived(p, b) ==
  IF b.l2 THEN <<L2Full(p, b.pool), p.l1n * (Lap(p, b.pool) + 1)>>
  ELSE <<L1Full(p, b.pool), p.blockM * (Lap(p, b.pool) + 1)>>

\* The loader of activations: its copies are announced to the leader, which
\* expects those of both CTAs; the other arrives without bytes.
LoadActs(p, c, b, k, it) ==
  LET s == Slot(p, it)
  IN  [wait |-> {<<Empty(c, s), 1 - Parity(p, it)>>},
       until |-> IF k = 0 THEN {Arrived(p, b)} ELSE {},
       load |-> {<<SmemA(c, s), Acts(b, c, k), Full(s), ActsFrom(p, b, c, k) \cup ScalesFrom(p, b, k)>>},
       arrive |-> {<<Full(s), IF c = Lead THEN 2 ELSE 0>>}] @@ Nop
\* The loader of weights.
LoadWeights(p, c, b, k, it) ==
  LET s == Slot(p, it)
  IN  [wait |-> {<<Empty(c, s), 1 - Parity(p, it)>>},
       load |-> {<<SmemB(c, s), Weights(b, c, k), Full(s)>>},
       arrive |-> {<<Full(s), IF c = Lead THEN 2 ELSE 0>>}] @@ Nop

\* A role that takes a step per K block of every block.
KBlocks(p, Step(_, _, _)) ==
  LET bs == Blocks(p)
  IN  FlattenSeq([i \in 1 .. Len(bs) |-> [k \in 1 .. bs[i].k |-> Step(bs[i], k - 1, It(bs, i, k - 1))]])

-----------------------------------------------------------------------------
\* An MMA of the leader on the stages of both CTAs; its commit releases the
\* stage in both, that of the last K block hands the sums to both epilogues.
Mma(p, i, b, k, s, operands) ==
  Group("mma", operands,
        { <<Tmem(c, AccumStage(p, i)), Sum(b, c, k)>> : c \in CtaPair },
        { Empty(c, s) : c \in CtaPair }
        \cup IF k + 1 < b.k THEN {} ELSE { TmemFull(c, AccumStage(p, i)) : c \in CtaPair })
MmaStep(p, i, b, k, it, operands) ==
  [wait |-> {<<Full(Slot(p, it)), Parity(p, it)>>}
            \cup IF k > 0 THEN {} ELSE {<<TmemEmpty(AccumStage(p, i)), 1 - AccumPhase(p, i)>>},
   issue |-> <<Mma(p, i, b, k, Slot(p, it), operands)>>] @@ Nop
\* Scales are copied to tensor memory in order with the MMAs.
Operands(b, k, s) ==
  UNION { {<<SmemA(c, s), Acts(b, c, k)>>, <<SmemB(c, s), Weights(b, c, k)>>} : c \in CtaPair }

\* Before its barriers go, the leader waits for the last sums to be read.
LastRead(p) ==
  LET n == Len(Blocks(p))
  IN  IF n = 0 THEN <<>> ELSE <<[wait |-> {<<TmemEmpty(AccumStage(p, n)), AccumPhase(p, n)>>}] @@ Nop>>
MmaIssuer(p) ==
  LET bs == Blocks(p)
  IN  FlattenSeq([i \in 1 .. Len(bs) |->
        [k \in 1 .. bs[i].k |->
           LET it == It(bs, i, k - 1)
           IN  MmaStep(p, i, bs[i], k - 1, it, Operands(bs[i], k - 1, Slot(p, it)))]])
      \o LastRead(p)

-----------------------------------------------------------------------------
\* The epilogue's warpgroups meet; they do once per block before.
EpiloguesMeet(c, k) == {<<EpilogueFull(c), (k - 1) % 2>>}
SumsOf(p, c, i, b) == {<<Tmem(c, AccumStage(p, i)), Sum(b, c, b.k - 1)>>}
Release(p, i, yes) == IF yes THEN {<<TmemEmpty(AccumStage(p, i)), 0>>} ELSE {}

\* The rows of warpgroup w that hold a token, in order: the loop breaks at the
\* first one that does not.
StoredRows(p, b, w) ==
  SelectSeq([j \in 1 .. p.blockM \div p.wgs |-> (w * (p.blockM \div p.wgs)) + j - 1],
            LAMBDA r : r < ValidM(p, b))
AllValid(p, b, w) == Len(StoredRows(p, b, w)) = p.blockM \div p.wgs

\* Of L1, the s-th store block of a warpgroup: SwiGLU with the row's weight,
\* then through the s-th staging buffer when its previous store has read it.
StoreL1(p, c, i, b, w, s) ==
  LET n == NBlock(b, c)
      x == RowAt(p, b, StoredRows(p, b, w)[s])
      buffer == L1Stage(p, c, w, (s - 1) % p.storeStages)
      last == AllValid(p, b, w) /\ s = p.blockM \div p.wgs
  IN  <<[read |-> SumsOf(p, c, i, b) \cup {<<L1Weight(p, b.pool, x.row), Weight(x)>>},
         arrive |-> Release(p, i, last)] @@ Nop,
        [drain |-> {<<"store", p.storeStages - 1>>},
         write |-> {<<buffer, Staged(b, n, x.row)>>, <<L2SF(p, b.pool, n, x.row), Scale(x, n)>>},
         issue |-> <<Group("store", {<<buffer, Staged(b, n, x.row)>>},
                           {<<L1Out(p, b.pool, n, x.row), Activated(x, n)>>}, {})>>] @@ Nop>>

\* An L1 block: the sums, a slot L2 has done with, and when all stores are
\* complete the block is announced to L2 and the slot to the dispatch.
EpilogueL1(p, c, i, b, w) ==
  <<[wait |-> {<<TmemFull(c, AccumStage(p, i)), AccumPhase(p, i)>>},
     until |-> {<<L2Empty(p, b.pool), p.l2n * Lap(p, b.pool)>>}] @@ Nop>>
  \o FlattenSeq([s \in 1 .. Len(StoredRows(p, b, w)) |-> StoreL1(p, c, i, b, w, s)])
  \o (IF AllValid(p, b, w) THEN <<>> ELSE <<[arrive |-> Release(p, i, TRUE)] @@ Nop>>)
  \o <<[drain |-> {<<"store", 0>>}, arrive |-> {<<EpilogueFull(c), 0>>}] @@ Nop,
       [wait |-> EpiloguesMeet(c, i),
        add |-> IF w # 0 THEN {} ELSE {<<L2Full(p, b.pool), 1>>, <<L1Empty(p, b.pool), 1>>}] @@ Nop>>

\* Of L2: rows through shared memory to the ranks they came from.
StoreL2(p, c, i, b, w, s) ==
  LET n == NBlock(b, c)
      x == RowAt(p, b, StoredRows(p, b, w)[s])
      last == AllValid(p, b, w) /\ s = p.blockM \div p.wgs
  IN  <<[read |-> SumsOf(p, c, i, b), arrive |-> Release(p, i, last),
         write |-> { <<d, Staged(b, n, x.row)>> : d \in L2Stage(p, c, w) }] @@ Nop,
        [read |-> { <<d, Staged(b, n, x.row)>> : d \in L2Stage(p, c, w) }
                  \cup {<<Metadata(b.pool, x.row), Source(x)>>},
         write |-> {<<CombineRow(x.token, x.expert, n), Result(x, n)>>}] @@ Nop>>
\* An L2 block: its operands are consumed as soon as its sums are there.
EpilogueL2(p, c, i, b, w) ==
  <<[wait |-> {<<TmemFull(c, AccumStage(p, i)), AccumPhase(p, i)>>},
     add |-> IF w # 0 THEN {} ELSE {<<L2Empty(p, b.pool), 1>>}] @@ Nop>>
  \o FlattenSeq([s \in 1 .. Len(StoredRows(p, b, w)) |-> StoreL2(p, c, i, b, w, s)])
  \o (IF AllValid(p, b, w) THEN <<>> ELSE <<[arrive |-> Release(p, i, TRUE)] @@ Nop>>)
  \o <<[arrive |-> {<<EpilogueFull(c), 0>>}] @@ Nop, [wait |-> EpiloguesMeet(c, i)] @@ Nop>>

-----------------------------------------------------------------------------
\* The grid barrier of the epilogues; tensor memory is given back before it.
GridBarrier(p, c, w) ==
  LET n == Len(Blocks(p))
  IN  <<[write |-> IF w = 0 THEN { <<Tmem(c, t), Freed>> : t \in 0 .. p.accums - 1 } ELSE {},
         arrive |-> {<<EpilogueFull(c), 0>>}] @@ Nop,
        [wait |-> EpiloguesMeet(c, n + 1), add |-> IF w = 0 THEN {<<GridEpilogue, 1>>} ELSE {}] @@ Nop,
        [until |-> {<<GridEpilogue, Cardinality(CtaPair)>>}] @@ Nop>>

\* The slots of a token, and of part h of its result the N blocks.
SlotsOf(p, t) == SetToSortSeq(p.routes[t + 1], LAMBDA x, y : x < y)
PartOf(p, h) == { n \in 0 .. p.l2n - 1 : (n * p.parts) \div p.l2n = h }
Part(t, e, h) == <<"part", t, e, h>>
LoadPart(p, c, t, j, h, buffer) ==
  LET e == SlotsOf(p, t)[j]
  IN  [load |-> {<<CombineLoad(p, c, buffer), Part(t, e, h), CombineBar(c, buffer),
                   { <<CombineRow(t, e, n), Result([token |-> t, expert |-> e], n)>> : n \in PartOf(p, h) }>>},
       arrive |-> {<<CombineBar(c, buffer), 1>>}] @@ Nop

\* Part h of token t: the next slot is loaded while one is accumulated; q
\* slots have been accumulated before.
CombinePart(p, c, t, h, q) ==
  LET n == Len(SlotsOf(p, t))
  IN  (IF n = 0 THEN <<>> ELSE <<LoadPart(p, c, t, 1, h, q % 2)>>)
      \o FlattenSeq([j \in 1 .. n |->
           (IF j = n THEN <<>> ELSE <<LoadPart(p, c, t, j + 1, h, (q + j) % 2)>>)
           \o <<[wait |-> {<<CombineBar(c, (q + j - 1) % 2), ((q + j - 1) \div 2) % 2>>},
                 read |-> {<<CombineLoad(p, c, (q + j - 1) % 2), Part(t, SlotsOf(p, t)[j], h)>>}] @@ Nop>>])
      \o <<[drain |-> {<<"store", 0>>},
            write |-> {<<CombineStore(p, c), Reduced(t, h)>>},
            issue |-> <<Group("store", {<<CombineStore(p, c), Reduced(t, h)>>},
                              {<<Output(t, h), Reduced(t, h)>>}, {})>>] @@ Nop>>
\* The combining warp of a CTA takes every second token.
TokensOf(p, c) == SelectSeq([i \in 1 .. Len(p.routes) |-> i - 1], LAMBDA t : t % 2 = c)
SlotsBefore(p, c, j) == p.parts * MapThenSumSet(LAMBDA x : Len(SlotsOf(p, TokensOf(p, c)[x])), 1 .. j - 1)
Combine(p, c) ==
  FlattenSeq([j \in 1 .. Len(TokensOf(p, c)) |->
    LET t == TokensOf(p, c)[j]
    IN  FlattenSeq([h \in 1 .. p.parts |->
          CombinePart(p, c, t, h - 1, SlotsBefore(p, c, j) + ((h - 1) * Len(SlotsOf(p, t))))])])

\* An epilogue warpgroup, of which the first has the combining warp.
Epilogue(p, c, w, L1(_, _, _, _, _), L2(_, _, _, _, _)) ==
  LET bs == Blocks(p)
  IN  MeetEpilogue(c, 1)
      \o FlattenSeq([i \in 1 .. Len(bs) |->
           IF bs[i].l2 THEN L2(p, c, i, bs[i], w) ELSE L1(p, c, i, bs[i], w)])
      \o GridBarrier(p, c, w) \o MeetEpilogue(c, 2)
      \o (IF w = 0 THEN Combine(p, c) ELSE <<>>)

Actors(p) == UNION { {<<c, "dispatch">>, <<c, "load_a">>, <<c, "load_b">>}
                     \cup { <<c, "epilogue", w>> : w \in Wgs(p) } : c \in CtaPair }
             \cup {<<Lead, "mma">>}
\* At the end every token is combined and every counter of the ring reset.
Results(p) == [x \in { Output(t, h) : t \in Tokens(p), h \in 0 .. p.parts - 1 } |-> Reduced(x[3], x[4])]
              @@ [f \in RingCounters(p) |-> 0]
\* A kernel of this build from what its roles do for a row and for a block.
RankKernel(p, prog) ==
  Kernel(Barriers(p), prog, [f \in RingCounters(p) \cup {GridEpilogue} |-> 0], Results(p))

Fp8MegaMoe(p) ==
  RankKernel(p,
    [a \in Actors(p) |->
       CASE a[2] = "dispatch" -> Dispatch(p, a[1], PullRow)
         [] a[2] = "load_a" -> KBlocks(p, LAMBDA b, k, it : LoadActs(p, a[1], b, k, it))
         [] a[2] = "load_b" -> KBlocks(p, LAMBDA b, k, it : LoadWeights(p, a[1], b, k, it))
         [] a[2] = "mma" -> MmaIssuer(p)
         [] a[2] = "epilogue" -> Epilogue(p, a[1], a[3], EpilogueL1, EpilogueL2)])
=============================================================================
