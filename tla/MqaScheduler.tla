---------------------------- MODULE MqaScheduler ----------------------------
(***************************************************************************)
(* Which part of the logits an SM computes: the schedulers of the MQA      *)
(* logits kernels and, for a paged KV cache, the metadata kernels that cut *)
(* the work into one range per SM.                                         *)
(* A contiguous problem has blocks of queries: starts and ends (the KV     *)
(* range of each query), blockQ, splitKV, kvTokens.  A paged one has       *)
(* requests of tokens[r] queries with a context of lens[r] tokens; pieces  *)
(* of splitKV tokens are handed out, on Hopper wgs blocks each.            *)
(* Query blocks, requests and KV blocks count from 0.                      *)
(***************************************************************************)
EXTENDS Integers, Sequences, FiniteSetsExt

CeilDiv(a, b) == (a + b - 1) \div b
MinOf(a, b) == IF a < b THEN a ELSE b

-----------------------------------------------------------------------------
\* load_schedule: the KV range of a block of queries, its start aligned to 4.
ContiguousBlock(p, i) ==
  LET rows == { 1 + MinOf((i * p.blockQ) + t, Len(p.starts) - 1) : t \in 0 .. p.blockQ - 1 }
      start == Min({ MinOf(p.starts[q], p.kvTokens) : q \in rows })
      end == Max({ MinOf(p.ends[q], p.kvTokens) : q \in rows })
      base == (start \div 4) * 4
  IN  [q |-> i, ctx |-> "kv", base |-> base, step |-> p.splitKV,
       n |-> CeilDiv(end - base, p.splitKV)]

\* next_q_block: an SM takes every sms-th block.
ContiguousTasks(p, sm) ==
  LET blocks == CeilDiv(Len(p.starts), p.blockQ)
      mine == IF sm < blocks THEN CeilDiv(blocks - sm, p.sms) ELSE 0
  IN  [i \in 1 .. mine |-> ContiguousBlock(p, sm + (i - 1) * p.sms)]

-----------------------------------------------------------------------------
\* The work of the first r requests, and the request that owns a unit.
Prefix(work, r) == MapThenSumSet(LAMBDA i : work[i], 1 .. r)
Owner(work, unit) == Cardinality({ r \in DOMAIN work : Prefix(work, r) <= unit })

Splits(p) == [r \in DOMAIN p.lens |-> CeilDiv(p.lens[r], p.splitKV)]

\* sm90_paged_mqa_logits_metadata: where an SM starts.  The last ones get one
\* piece more.  (next_n is 1 or 2, hence one atom per request.)
Sm90Start(p, sm) ==
  LET total == Prefix(Splits(p), Len(p.lens))
      pivot == p.sms - (total % p.sms)
      unit == sm * (total \div p.sms) + (IF sm > pivot THEN sm - pivot ELSE 0)
      r == Owner(Splits(p), unit)
  IN  IF sm = p.sms THEN [r |-> Len(p.lens), split |-> 0]
      ELSE [r |-> r, split |-> unit - Prefix(Splits(p), r)]

\* exist_q_atom_idx
Exists(p, sm, r) ==
  LET end == Sm90Start(p, sm + 1)
  IN  r < end.r \/ (r = end.r /\ 0 < end.split)

NumKV(p, r) == CeilDiv(p.lens[r + 1], p.blockKV)

\* fetch_next_task: on by one piece; at the end of a context on to the next
\* request, whose length is read if it is the SM's.
Sm90Next(p, sm, t) ==
  IF t.kv + p.wgs < t.num THEN [t EXCEPT !.kv = @ + p.wgs]
  ELSE [q |-> t.q + 1, kv |-> 0,
        num |-> IF Exists(p, sm, t.q + 1) THEN NumKV(p, t.q + 1) ELSE t.num]

\* The tasks of an SM, until it is where the next one starts.
Sm90Tasks(p, sm) ==
  LET start == Sm90Start(p, sm)
      end == Sm90Start(p, sm + 1)
      most == Len(p.lens) + Prefix(Splits(p), Len(p.lens))
      walk[i \in 0 .. most] ==
        IF i = 0 THEN [q |-> start.r, kv |-> start.split * p.wgs, num |-> NumKV(p, start.r)]
        ELSE Sm90Next(p, sm, walk[i - 1])
      ended(i) == walk[i].q = end.r /\ walk[i].kv = end.split * p.wgs
      n == Min({ i \in 0 .. most : ended(i) })
  IN  [i \in 1 .. n |-> walk[i - 1]]

-----------------------------------------------------------------------------
\* RequestInfo: the blocks of at most blockQ tokens of a request.
QBlocks(p, r) == CeilDiv(p.tokens[r + 1], p.blockQ)
NumSplits(p, r) == Splits(p)[r + 1]

\* sm100_paged_mqa_logits_metadata: the work of a request is its splits times
\* its tokens, the first SMs get one unit more, and a start within a split is
\* moved back to its beginning.
Sm100Start(p, sm) ==
  LET work == [r \in DOMAIN p.lens |-> Splits(p)[r] * p.tokens[r]]
      total == Prefix(work, Len(p.lens))
      unit == sm * (total \div p.sms) + MinOf(sm, total % p.sms)
      r == Owner(work, unit)
  IN  IF r < Len(p.lens)
        THEN [r |-> r, split |-> (unit - Prefix(work, r)) \div p.tokens[r + 1]]
        ELSE [r |-> r, split |-> 0]

Sm100Upper(p, w) == IF w.r = w.end.r THEN w.end.split ELSE NumSplits(p, w.r)

\* The splits of the task at w: all that remain, or a chunk when several query
\* blocks take turns.
Sm100Chunk(p, w) ==
  LET remaining == Sm100Upper(p, w) - w.base
  IN  IF QBlocks(p, w.r) = 1 THEN remaining ELSE MinOf(remaining, p.splitsPerChunk)

\* next_q_block: the next query block; after the last one the next chunk;
\* after the last chunk the next request, unless it is another SM's.
Sm100Next(p, w) ==
  LET base == w.base + Sm100Chunk(p, w)
  IN  IF w.done THEN w
      ELSE IF w.qb + 1 < QBlocks(p, w.r) THEN [w EXCEPT !.qb = @ + 1]
      ELSE IF base < Sm100Upper(p, w) THEN [w EXCEPT !.qb = 0, !.base = base]
      ELSE IF w.r = w.end.r \/ w.r + 1 >= Len(p.lens) THEN [w EXCEPT !.done = TRUE]
      ELSE [w EXCEPT !.qb = 0, !.base = 0, !.r = @ + 1,
                     !.done = w.r + 1 = w.end.r /\ w.end.split = 0]

Sm100Tasks(p, sm) ==
  LET start == Sm100Start(p, sm)
      end == Sm100Start(p, sm + 1)
      most == MapThenSumSet(LAMBDA r : QBlocks(p, r) * (NumSplits(p, r) + 1), 0 .. Len(p.lens) - 1)
      walk[i \in 0 .. most] ==
        IF i = 0 THEN [r |-> start.r, qb |-> 0, base |-> start.split, end |-> end,
                       done |-> start.r >= Len(p.lens)
                                \/ (start.r = end.r /\ start.split >= end.split)]
        ELSE Sm100Next(p, walk[i - 1])
      n == Min({ i \in 0 .. most : walk[i].done })
  IN  [i \in 1 .. n |-> [q |-> <<walk[i - 1].r, walk[i - 1].qb>>, ctx |-> walk[i - 1].r,
                         base |-> walk[i - 1].base, step |-> 1, n |-> Sm100Chunk(p, walk[i - 1])]]
=============================================================================
