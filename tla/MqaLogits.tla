------------------------------ MODULE MqaLogits ------------------------------
(***************************************************************************)
(* The kernels that compute the logits of multi-query attention, queries   *)
(* against keys, weighted and summed over the heads.  Queries with their   *)
(* weights go through one ring, KV blocks with their scales through        *)
(* another; both are refilled while the tasks of the CTA (MqaScheduler)    *)
(* go on.                                                                  *)
(* On Hopper a loader warp fills both rings, with a paged cache one loader *)
(* per math warpgroup, each with a KV ring of its own.  On Blackwell one   *)
(* warp fills each ring, one issues the MMAs into a ring of accumulators   *)
(* in tensor memory, and the math warpgroups take turns at these.          *)
(*                                                                         *)
(* Of a problem, besides those of MqaScheduler: qStages, stages            *)
(* (kNumKVStages), accums (kNumTmemStages), wgs, lanes (block indices a    *)
(* loader keeps), fp4.  The tile of a split of pages is one cell.          *)
(***************************************************************************)
EXTENDS GemmRing
S == INSTANCE MqaScheduler

FullQ(cta, s) == <<cta, "full_q", s>>
EmptyQ(cta, s) == <<cta, "empty_q", s>>
FullKV(cta, g, s) == <<cta, "full_kv", g, s>> \* g: kv_group_idx
EmptyKV(cta, g, s) == <<cta, "empty_kv", g, s>>
TmemFull(cta, t) == <<cta, "full_tmem", t>>
TmemEmpty(cta, t) == <<cta, "empty_tmem", t>>
SmemQ(cta, s) == <<cta, "q", s>>
SmemSFQ(cta, s) == <<cta, "sf_q", s>>
SmemW(cta, s) == <<cta, "weights", s>>
SmemKV(cta, g, s) == <<cta, "kv", g, s>>
SmemSFKV(cta, g, s) == <<cta, "sf_kv", g, s>>
Tmem(cta, t) == <<cta, "tmem", t>>

Query(q) == <<"Q", q>>
SFQuery(q) == <<"SFQ", q>>
Weights(q) == <<"W", q>>
Keys(k) == <<"KV", k>>
SFKeys(k) == <<"SFKV", k>>
Transposed(tile) == <<"transposed">> \o tile
Dots(q, k, w) == <<"dots", q, k, w>>
Logits(q, k, w) == <<Gmem, "logits", q, k, w>> \* how often they were written

QStage(p, i) == i % p.qStages
QPhase(p, i) == (i \div p.qStages) % 2

\* The k-th KV block of a task, and those of a CTA in order.
Split(t, k) == <<t.ctx, t.base + (k - 1) * t.step>>
KVBlocks(tasks) ==
  FlattenSeq([i \in 1 .. Len(tasks) |-> [k \in 1 .. tasks[i].n |-> Split(tasks[i], k)]])
KVBefore(tasks, i) == SumOver(1 .. i, LAMBDA j : tasks[j].n)

\* What the logits of a problem are, each written once.
Expected(keys) == [c \in keys |-> 1]
Zero(keys) == [c \in keys |-> 0]

LoadQ(cta, s, q) ==
  [load |-> {<<SmemQ(cta, s), Query(q), FullQ(cta, s)>>, <<SmemW(cta, s), Weights(q), FullQ(cta, s)>>},
   arrive |-> {<<FullQ(cta, s), 2>>}] @@ Nop
LoadKV(cta, g, s, k) ==
  [load |-> {<<SmemKV(cta, g, s), Keys(k), FullKV(cta, g, s)>>,
             <<SmemSFKV(cta, g, s), SFKeys(k), FullKV(cta, g, s)>>},
   arrive |-> {<<FullKV(cta, g, s), 2>>}] @@ Nop

-----------------------------------------------------------------------------
\* Hopper, contiguous KV.  The loader is one task ahead with the queries: it
\* starts with the first, and in every task waits for the stage after.
Sm90Loader(p, cta, tasks) ==
  (IF tasks = <<>> THEN <<>> ELSE <<LoadQ(cta, 0, tasks[1].q)>>)
  \o FlattenSeq([i \in 1 .. Len(tasks) |->
       LET s == QStage(p, i)
           wait == {<<EmptyQ(cta, s), 1 - QPhase(p, i)>>}
       IN  <<IF i < Len(tasks) THEN [LoadQ(cta, s, tasks[i + 1].q) EXCEPT !.wait = wait]
                               ELSE [wait |-> wait] @@ Nop>>
           \o [k \in 1 .. tasks[i].n |->
                 LET it == KVBefore(tasks, i - 1) + k - 1
                 IN  [LoadKV(cta, 0, Stage(p, it), Split(tasks[i], k)) EXCEPT
                        !.wait = {<<EmptyKV(cta, 0, Stage(p, it)), 1 - Phase(p, it)>>}]]])

\* A math warpgroup: per task the weights, per KV block one wgmma group, the
\* logits; then the queries are given back.
Sm90Math(p, cta, w, tasks) ==
  FlattenSeq([i \in 1 .. Len(tasks) |->
    LET s == QStage(p, i - 1)
        q == tasks[i].q
    IN  <<[wait |-> {<<FullQ(cta, s), QPhase(p, i - 1)>>},
           read |-> {<<SmemW(cta, s), Weights(q)>>}] @@ Nop>>
        \o FlattenSeq([k \in 1 .. tasks[i].n |->
             LET it == KVBefore(tasks, i - 1) + k - 1
                 kv == Split(tasks[i], k)
                 t == Stage(p, it)
             IN  <<[wait |-> {<<FullKV(cta, 0, t), Phase(p, it)>>},
                    read |-> {<<SmemSFKV(cta, 0, t), SFKeys(kv)>>},
                    issue |-> <<Group("mma", {<<SmemKV(cta, 0, t), Keys(kv)>>, <<SmemQ(cta, s), Query(q)>>},
                                      {<<Accum(cta, w), Dots(q, kv, w)>>}, {})>>] @@ Nop,
                   [drain |-> {<<"mma", 0>>}, arrive |-> {<<EmptyKV(cta, 0, t), 0>>}] @@ Nop,
                   [read |-> {<<Accum(cta, w), Dots(q, kv, w)>>},
                    add |-> {<<Logits(q, kv, w), 1>>}] @@ Nop>>])
        \o <<[arrive |-> {<<EmptyQ(cta, s), 0>>}] @@ Nop>>])

\* The logits of all tasks together: every KV block of every query block.
ContiguousLogits(p) ==
  UNION { LET b == S!ContiguousBlock(p, i)
          IN  { Logits(b.q, Split(b, k), w) : k \in 1 .. b.n, w \in Wgs(p) }
            : i \in 0 .. S!CeilDiv(Len(p.starts), p.blockQ) - 1 }

Sm90Mqa(p) ==
  Kernel([b \in { FullQ(c, s) : c \in Ctas(p), s \in 0 .. p.qStages - 1 }
                \cup { EmptyQ(c, s) : c \in Ctas(p), s \in 0 .. p.qStages - 1 }
                \cup { FullKV(c, 0, s) : c \in Ctas(p), s \in 0 .. p.stages - 1 }
                \cup { EmptyKV(c, 0, s) : c \in Ctas(p), s \in 0 .. p.stages - 1 } |->
            IF b[2] \in {"full_q", "full_kv"} THEN 1 ELSE p.wgs],
         [a \in { <<c, "load">> : c \in Ctas(p) } \cup { <<c, "math", w>> : c \in Ctas(p), w \in Wgs(p) } |->
            LET tasks == S!ContiguousTasks(p, a[1])
            IN  IF a[2] = "load" THEN Sm90Loader(p, a[1], tasks)
                                 ELSE Sm90Math(p, a[1], a[3], tasks)],
         Zero(ContiguousLogits(p)), Expected(ContiguousLogits(p)))

-----------------------------------------------------------------------------
\* Hopper, paged.  A warpgroup takes every wgs-th block of a request; past its
\* end pool block 0 stands in.
PageOf(t, kv) == IF kv < t.num THEN Keys(<<t.q, kv>>) ELSE Keys(<<Gmem, 0>>)

\* Where the loader of a group last read block indices, at or before task i:
\* at the first task, at a new request, or when its lanes are used up.
Refreshed(p, tasks, i) ==
  LET start == Max({ j \in 1 .. i : j = 1 \/ tasks[j].kv = 0 })
  IN  i - ((i - start) % p.lanes)
CachedPage(p, g, tasks, i) ==
  LET r == Refreshed(p, tasks, i)
  IN  PageOf(tasks[r], tasks[r].kv + g + (i - r) * p.wgs)

\* The query is not the one of the task before.
NewQuery(tasks, i) == i = 1 \/ tasks[i].q # tasks[i - 1].q
QueriesUpTo(tasks, i) == Cardinality({ j \in 1 .. i : NewQuery(tasks, j) })

\* Fault: the next query is fetched whether or not it is the SM's.
Prefetches_Always(p, cta, tasks, i) == NewQuery(tasks, i) /\ tasks[i].q + 1 < Len(p.lens)
\* prefetch_q
Prefetches(p, cta, tasks, i) == NewQuery(tasks, i) /\ S!Exists(p, cta, tasks[i].q + 1)

\* The loader of a group.  They all follow the queries, the first fetches them.
PagedLoader(p, cta, g, tasks) ==
  LET issued(s, q) == IF g = 0 THEN LoadQ(cta, s, q) ELSE Nop
  IN  (IF tasks = <<>> THEN <<>> ELSE <<issued(0, tasks[1].q)>>)
      \o FlattenSeq([i \in 1 .. Len(tasks) |->
           LET it == Cardinality({ j \in 1 .. i - 1 : Prefetches(p, cta, tasks, j) }) + 1
               s == Stage(p, i - 1)
               page == CachedPage(p, g, tasks, i)
           IN  (IF ~Prefetches(p, cta, tasks, i) THEN <<>>
                ELSE <<[issued(QStage(p, it), tasks[i].q + 1) EXCEPT
                          !.wait = {<<EmptyQ(cta, QStage(p, it)), 1 - QPhase(p, it)>>}]>>)
               \o <<[wait |-> {<<EmptyKV(cta, g, s), 1 - Phase(p, i - 1)>>},
                     load |-> {<<SmemKV(cta, g, s), page, FullKV(cta, g, s)>>,
                               <<SmemSFKV(cta, g, s), <<"SF", page>>, FullKV(cta, g, s)>>},
                     arrive |-> {<<FullKV(cta, g, s), 2>>}] @@ Nop>>])

\* Math warpgroup g.  The last query is never given back: no one waits for it.
PagedMath(p, cta, g, tasks) ==
  FlattenSeq([i \in 1 .. Len(tasks) |->
    LET n == QueriesUpTo(tasks, i) - 1
        t == tasks[i]
        kv == t.kv + g
        s == Stage(p, i - 1)
        page == PageOf(t, kv)
        dots == Dots(t.q, kv, g)
    IN  (IF ~NewQuery(tasks, i) THEN <<>>
         ELSE (IF n = 0 THEN <<>> ELSE <<[arrive |-> {<<EmptyQ(cta, QStage(p, n - 1)), 0>>}] @@ Nop>>)
              \o <<[wait |-> {<<FullQ(cta, QStage(p, n)), QPhase(p, n)>>},
                    read |-> {<<SmemW(cta, QStage(p, n)), Weights(t.q)>>}] @@ Nop>>)
        \o <<[wait |-> {<<FullKV(cta, g, s), Phase(p, i - 1)>>},
              issue |-> <<Group("mma", {<<SmemKV(cta, g, s), page>>, <<SmemQ(cta, QStage(p, n)), Query(t.q)>>},
                                {<<Accum(cta, g), dots>>}, {})>>] @@ Nop,
             [read |-> {<<SmemSFKV(cta, g, s), <<"SF", page>>>>}] @@ Nop,
             [drain |-> {<<"mma", 0>>}, arrive |-> {<<EmptyKV(cta, g, s), 0>>}] @@ Nop,
             [read |-> {<<Accum(cta, g), dots>>},
              add |-> IF kv < t.num THEN {<<Logits(t.q, kv, g), 1>>} ELSE {}] @@ Nop>>])

\* The logits that are asked for: those of the pages of each context.
PagedLogits(p) ==
  UNION { { Logits(r - 1, kv, kv % p.wgs) : kv \in 0 .. S!NumKV(p, r - 1) - 1 }
            : r \in DOMAIN p.lens }

Sm90PagedMqa(p) ==
  Kernel([b \in { FullQ(c, s) : c \in Ctas(p), s \in 0 .. p.qStages - 1 }
                \cup { EmptyQ(c, s) : c \in Ctas(p), s \in 0 .. p.qStages - 1 }
                \cup { FullKV(c, g, s) : c \in Ctas(p), g \in Wgs(p), s \in 0 .. p.stages - 1 }
                \cup { EmptyKV(c, g, s) : c \in Ctas(p), g \in Wgs(p), s \in 0 .. p.stages - 1 } |->
            IF b[2] = "empty_q" THEN p.wgs ELSE 1],
         [a \in { <<c, "load", g>> : c \in Ctas(p), g \in Wgs(p) }
                \cup { <<c, "math", g>> : c \in Ctas(p), g \in Wgs(p) } |->
            LET tasks == S!Sm90Tasks(p, a[1])
            IN  IF a[2] = "load" THEN PagedLoader(p, a[1], a[3], tasks)
                                 ELSE PagedMath(p, a[1], a[3], tasks)],
         Zero(PagedLogits(p)), Expected(PagedLogits(p)))

-----------------------------------------------------------------------------
\* Blackwell.  A task: query block q, base, n splits.
BlackwellQLoader(p, cta, tasks) ==
  [i \in 1 .. Len(tasks) |->
     LET s == QStage(p, i - 1)
         q == tasks[i].q
     IN  [wait |-> {<<EmptyQ(cta, s), 1 - QPhase(p, i - 1)>>},
          load |-> {<<SmemQ(cta, s), Query(q), FullQ(cta, s)>>, <<SmemW(cta, s), Weights(q), FullQ(cta, s)>>}
                   \cup (IF p.fp4 THEN {<<SmemSFQ(cta, s), SFQuery(q), FullQ(cta, s)>>} ELSE {}),
          arrive |-> {<<FullQ(cta, s), IF p.fp4 THEN 3 ELSE 2>>}] @@ Nop]

BlackwellKVLoader(p, cta, tasks) ==
  LET blocks == KVBlocks(tasks)
  IN  [i \in 1 .. Len(blocks) |->
         [LoadKV(cta, 0, Stage(p, i - 1), blocks[i]) EXCEPT
            !.wait = {<<EmptyKV(cta, 0, Stage(p, i - 1)), 1 - Phase(p, i - 1)>>}]]

\* The MMA warp.  FP4 scale factors are first transposed in shared memory, in
\* place, and the commit after the MMAs gives the KV stage back.
BlackwellMma(p, cta, tasks) ==
  FlattenSeq([i \in 1 .. Len(tasks) |->
    LET s == QStage(p, i - 1)
        q == tasks[i].q
        sfq == {<<SmemSFQ(cta, s), Transposed(SFQuery(q))>>}
    IN  <<[wait |-> {<<FullQ(cta, s), QPhase(p, i - 1)>>},
           read |-> IF p.fp4 THEN {<<SmemSFQ(cta, s), SFQuery(q)>>} ELSE {},
           write |-> IF p.fp4 THEN sfq ELSE {}] @@ Nop>>
        \o FlattenSeq([k \in 1 .. tasks[i].n |->
             LET it == KVBefore(tasks, i - 1) + k - 1
                 t == Stage(p, it)
                 kv == Split(tasks[i], k)
                 sfkv == {<<SmemSFKV(cta, 0, t), Transposed(SFKeys(kv))>>}
             IN  <<[wait |-> {<<FullKV(cta, 0, t), Phase(p, it)>>},
                    read |-> IF p.fp4 THEN {<<SmemSFKV(cta, 0, t), SFKeys(kv)>>} ELSE {},
                    write |-> IF p.fp4 THEN sfkv ELSE {}] @@ Nop>>
                 \o [w \in 1 .. p.wgs |->
                      LET n == it * p.wgs + w - 1
                          u == n % p.accums
                      IN  [wait |-> {<<TmemEmpty(cta, u), 1 - ((n \div p.accums) % 2)>>},
                           issue |-> <<Group("mma",
                             {<<SmemKV(cta, 0, t), Keys(kv)>>, <<SmemQ(cta, s), Query(q)>>}
                               \cup (IF p.fp4 /\ w = 1 THEN sfkv ELSE {})
                               \cup (IF p.fp4 /\ w = 1 /\ k = 1 THEN sfq ELSE {}),
                             {<<Tmem(cta, u), Dots(q, kv, w - 1)>>},
                             {TmemFull(cta, u)}
                               \cup (IF p.fp4 /\ w = p.wgs THEN {EmptyKV(cta, 0, t)} ELSE {}))>>] @@ Nop]])
        \o <<[arrive |-> {<<EmptyQ(cta, s), 0>>}] @@ Nop>>])

\* Fault: an FP8 KV block is given back when its scales have been read.
KVFreed_WithScales(p, cta, t) == {<<EmptyKV(cta, 0, t), 0>>}
\* What is given back with the scales: nothing, the MMA still reads the block.
KVFreed(p, cta, t) == {}

\* Math warpgroup w.  It reads FP8 scales itself and keeps their KV stage until
\* the MMA is done.
BlackwellMath(p, cta, w, tasks) ==
  FlattenSeq([i \in 1 .. Len(tasks) |->
    LET s == QStage(p, i - 1)
        q == tasks[i].q
    IN  <<[wait |-> {<<FullQ(cta, s), QPhase(p, i - 1)>>},
           read |-> {<<SmemW(cta, s), Weights(q)>>}] @@ Nop>>
        \o FlattenSeq([k \in 1 .. tasks[i].n |->
             LET it == KVBefore(tasks, i - 1) + k - 1
                 n == it * p.wgs + w
                 t == Stage(p, it)
                 u == n % p.accums
                 kv == Split(tasks[i], k)
                 early == KVFreed(p, cta, t)
             IN  (IF p.fp4 THEN <<>>
                  ELSE <<[wait |-> {<<FullKV(cta, 0, t), Phase(p, it)>>},
                          read |-> {<<SmemSFKV(cta, 0, t), SFKeys(kv)>>}, arrive |-> early] @@ Nop>>)
                 \o <<[wait |-> {<<TmemFull(cta, u), (n \div p.accums) % 2>>},
                       arrive |-> IF p.fp4 \/ early # {} THEN {} ELSE {<<EmptyKV(cta, 0, t), 0>>}] @@ Nop,
                      [read |-> {<<Tmem(cta, u), Dots(q, kv, w)>>},
                       arrive |-> {<<TmemEmpty(cta, u), 0>>},
                       add |-> {<<Logits(q, kv, w), 1>>}] @@ Nop>>])
        \o <<[arrive |-> {<<EmptyQ(cta, s), 0>>}] @@ Nop>>])

BlackwellMqa(p, tasksOf(_), wanted) ==
  Kernel([b \in { FullQ(c, s) : c \in Ctas(p), s \in 0 .. p.qStages - 1 }
                \cup { EmptyQ(c, s) : c \in Ctas(p), s \in 0 .. p.qStages - 1 }
                \cup { FullKV(c, 0, s) : c \in Ctas(p), s \in 0 .. p.stages - 1 }
                \cup { EmptyKV(c, 0, s) : c \in Ctas(p), s \in 0 .. p.stages - 1 }
                \cup { TmemFull(c, u) : c \in Ctas(p), u \in 0 .. p.accums - 1 }
                \cup { TmemEmpty(c, u) : c \in Ctas(p), u \in 0 .. p.accums - 1 } |->
            CASE b[2] = "empty_q" -> p.wgs + 1
              [] b[2] = "empty_kv" /\ ~p.fp4 -> p.wgs
              [] OTHER -> 1],
         [a \in { <<c, r>> : c \in Ctas(p), r \in {"q", "kv", "issue"} }
                \cup { <<c, "math", w>> : c \in Ctas(p), w \in Wgs(p) } |->
            LET tasks == tasksOf(a[1])
            IN  CASE a[2] = "q" -> BlackwellQLoader(p, a[1], tasks)
                  [] a[2] = "kv" -> BlackwellKVLoader(p, a[1], tasks)
                  [] a[2] = "issue" -> BlackwellMma(p, a[1], tasks)
                  [] a[2] = "math" -> BlackwellMath(p, a[1], a[3], tasks)],
         Zero(wanted), Expected(wanted))

Sm100Mqa(p) == BlackwellMqa(p, LAMBDA cta : S!ContiguousTasks(p, cta), ContiguousLogits(p))

\* Every split of a context, for every block of its queries.
Sm100PagedLogits(p) ==
  UNION { { Logits(<<r, b>>, <<r, k>>, w) :
              b \in 0 .. S!QBlocks(p, r) - 1, k \in 0 .. S!NumSplits(p, r) - 1, w \in Wgs(p) }
            : r \in 0 .. Len(p.lens) - 1 }
Sm100PagedMqa(p) == BlackwellMqa(p, LAMBDA cta : S!Sm100Tasks(p, cta), Sm100PagedLogits(p))

-----------------------------------------------------------------------------
\* Only the shares: what the SMs compute, each task in one step.
Shares(p, written(_), wanted) ==
  Kernel(<<>>, [a \in { <<c, "math">> : c \in Ctas(p) } |->
                 [i \in 1 .. Len(written(a[1])) |-> [add |-> { <<l, 1>> : l \in written(a[1])[i] }] @@ Nop]],
         Zero(wanted), Expected(wanted))
Sm90PagedShares(p) ==
  Shares(p, LAMBDA c : LET tasks == S!Sm90Tasks(p, c)
                       IN  [i \in 1 .. Len(tasks) |->
                              { Logits(tasks[i].q, tasks[i].kv + g, g) :
                                  g \in { g \in Wgs(p) : tasks[i].kv + g < tasks[i].num } }],
         PagedLogits(p))
Sm100PagedShares(p) ==
  Shares(p, LAMBDA c : LET tasks == S!Sm100Tasks(p, c)
                       IN  [i \in 1 .. Len(tasks) |->
                              { Logits(tasks[i].q, Split(tasks[i], k), w) :
                                  k \in 1 .. tasks[i].n, w \in Wgs(p) }],
         Sm100PagedLogits(p))
=============================================================================
