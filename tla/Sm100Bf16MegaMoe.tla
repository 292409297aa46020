--------------------------- MODULE Sm100Bf16MegaMoe ---------------------------
(***************************************************************************)
(* sm100_bf16_mega_moe: the build of the kernel without scales.  A row is  *)
(* its values and its weight, a stage A and B alone, the output of L1 is   *)
(* as wide as that of L2, so that a warpgroup's staging buffers for the    *)
(* two lie in the same place.  The rest is that of Sm100MegaMoe.           *)
(***************************************************************************)
EXTENDS Sm100MegaMoe

\* smem_d.l2[w] is smem_d.l1[w].
Bf16L2Stage(p, c, w) == { L1Stage(p, c, w, j) : j \in 0 .. p.storeStages - 1 }

-----------------------------------------------------------------------------
\* One row: chunk by chunk, its weight and source beside the last of them.
Bf16PullRow(p, c, x, q) ==
  <<[least |-> RingFree(p, x)] @@ LoadChunk(c, x, 0)>>
  \o FlattenSeq([h \in 1 .. p.chunks - 1 |->
       <<StoreChunk(p, c, x, h - 1, q + h - 1), [drain |-> {<<"store", 0>>}] @@ LoadChunk(c, x, h)>>])
  \o <<[write |-> {<<L1Weight(p, x.pool, x.row), Weight(x)>>, <<Metadata(x.pool, x.row), Source(x)>>}]
         @@ StoreChunk(p, c, x, p.chunks - 1, q + p.chunks - 1),
       [drain |-> {<<"store", 0>>},
        add |-> {<<L1Full(p, x.pool), IF x.last THEN p.blockM - x.row ELSE 1>>}] @@ Nop>>

Bf16LoadActs(p, c, b, k, it) ==
  LET s == Slot(p, it)
  IN  [wait |-> {<<Empty(c, s), 1 - Parity(p, it)>>},
       until |-> IF k = 0 THEN {Arrived(p, b)} ELSE {},
       load |-> {<<SmemA(c, s), Acts(b, c, k), Full(s), ActsFrom(p, b, c, k)>>},
       arrive |-> {<<Full(s), IF c = Lead THEN 2 ELSE 0>>}] @@ Nop
\* Both CTAs' weights have the same size: the leader expects twice its own.
Bf16LoadWeights(p, c, b, k, it) ==
  LET s == Slot(p, it)
  IN  [wait |-> {<<Empty(c, s), 1 - Parity(p, it)>>},
       load |-> {<<SmemB(c, s), Weights(b, c, k), Full(s)>>},
       arrive |-> {<<Full(s), IF c = Lead THEN 2 ELSE 0>>}] @@ Nop

\* The leader's MMAs: sums, stages of both CTAs, no scales.
Bf16MmaStep(p, i, b, k, it) ==
  LET s == Slot(p, it)
      t == AccumStage(p, i)
  IN  [wait |-> {<<Full(s), Parity(p, it)>>} \cup IF k > 0 THEN {} ELSE {<<TmemEmpty(t), 1 - AccumPhase(p, i)>>},
       issue |-> <<Group("mma",
                         { <<SmemA(c, s), Acts(b, c, k)>> : c \in CtaPair }
                         \cup { <<SmemB(c, s), Weights(b, c, k)>> : c \in CtaPair },
                         { <<Tmem(c, t), Sum(b, c, k)>> : c \in CtaPair },
                         { Empty(c, s) : c \in CtaPair }
                         \cup IF k + 1 = b.k THEN { TmemFull(c, t) : c \in CtaPair } ELSE {})>>] @@ Nop
Bf16MmaIssuer(p) ==
  LET bs == Blocks(p)
  IN  FlattenSeq([i \in 1 .. Len(bs) |->
        [k \in 1 .. bs[i].k |-> Bf16MmaStep(p, i, bs[i], k - 1, It(bs, i, k - 1))]])
      \o LastRead(p)

-----------------------------------------------------------------------------
\* An L1 block: no maxima to exchange, the activated rows as they are.
Bf16StoreL1(p, c, i, b, w, s) ==
  LET n == NBlock(b, c)
      x == RowAt(p, b, StoredRows(p, b, w)[s])
      buffer == L1Stage(p, c, w, (s - 1) % p.storeStages)
      last == AllValid(p, b, w) /\ s = p.blockM \div p.wgs
  IN  <<[read |-> SumsOf(p, c, i, b) \cup {<<L1Weight(p, b.pool, x.row), Weight(x)>>},
         arrive |-> Release(p, i, last)] @@ Nop,
        [drain |-> {<<"store", p.storeStages - 1>>},
         write |-> {<<buffer, Staged(b, n, x.row)>>},
         issue |-> <<Group("store", {<<buffer, Staged(b, n, x.row)>>},
                           {<<L1Out(p, b.pool, n, x.row), Activated(x, n)>>}, {})>>] @@ Nop>>
Bf16EpilogueL1(p, c, i, b, w) ==
  LET rows == StoredRows(p, b, w)
  IN  <<[wait |-> {<<TmemFull(c, AccumStage(p, i)), AccumPhase(p, i)>>},
         until |-> {<<L2Empty(p, b.pool), p.l2n * Lap(p, b.pool)>>}] @@ Nop>>
      \o FlattenSeq([s \in 1 .. Len(rows) |-> Bf16StoreL1(p, c, i, b, w, s)])
      \o (IF AllValid(p, b, w) THEN <<>> ELSE <<[arrive |-> Release(p, i, TRUE)] @@ Nop>>)
      \o <<[drain |-> {<<"store", 0>>}, arrive |-> {<<EpilogueFull(c), 0>>}] @@ Nop,
           [wait |-> EpiloguesMeet(c, i),
            add |-> IF w # 0 THEN {} ELSE {<<L2Full(p, b.pool), 1>>, <<L1Empty(p, b.pool), 1>>}] @@ Nop>>

Bf16StoreL2(p, c, i, b, w, s) ==
  LET n == NBlock(b, c)
      x == RowAt(p, b, StoredRows(p, b, w)[s])
      rows == { <<d, Staged(b, n, x.row)>> : d \in Bf16L2Stage(p, c, w) }
  IN  <<[read |-> SumsOf(p, c, i, b), write |-> rows,
         arrive |-> Release(p, i, AllValid(p, b, w) /\ s = p.blockM \div p.wgs)] @@ Nop,
        [read |-> rows \cup {<<Metadata(b.pool, x.row), Source(x)>>},
         write |-> {<<CombineRow(x.token, x.expert, n), Result(x, n)>>}] @@ Nop>>
Bf16EpilogueL2(p, c, i, b, w) ==
  LET rows == StoredRows(p, b, w)
  IN  <<[wait |-> {<<TmemFull(c, AccumStage(p, i)), AccumPhase(p, i)>>},
         add |-> IF w # 0 THEN {} ELSE {<<L2Empty(p, b.pool), 1>>}] @@ Nop>>
      \o FlattenSeq([s \in 1 .. Len(rows) |-> Bf16StoreL2(p, c, i, b, w, s)])
      \o (IF AllValid(p, b, w) THEN <<>> ELSE <<[arrive |-> Release(p, i, TRUE)] @@ Nop>>)
      \o <<[arrive |-> {<<EpilogueFull(c), 0>>}] @@ Nop, [wait |-> EpiloguesMeet(c, i)] @@ Nop>>

Bf16MegaMoe(p) ==
  RankKernel(p,
    [a \in Actors(p) |->
       CASE a[2] = "dispatch" -> Dispatch(p, a[1], Bf16PullRow)
         [] a[2] = "load_a" -> KBlocks(p, LAMBDA b, k, it : Bf16LoadActs(p, a[1], b, k, it))
         [] a[2] = "load_b" -> KBlocks(p, LAMBDA b, k, it : Bf16LoadWeights(p, a[1], b, k, it))
         [] a[2] = "mma" -> Bf16MmaIssuer(p)
         [] a[2] = "epilogue" -> Epilogue(p, a[1], a[3], Bf16EpilogueL1, Bf16EpilogueL2)])
=============================================================================
