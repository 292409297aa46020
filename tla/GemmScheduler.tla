---------------------------- MODULE GemmScheduler ----------------------------
(***************************************************************************)
(* The static block scheduler of the plain GEMM kernels: which blocks of   *)
(* the output a CTA computes, in which order, for every kind of grouping.  *)
(* A problem p is a record: type (of the GEMM), m, n and k (in blocks),    *)
(* layout (the grouped layout), blockM, blockK, mc (CTAs of a cluster that *)
(* share loads), onA (whether they share A), sms, per (blocks along the    *)
(* primary dimension kept together), fixOdd (SM90).                        *)
(* Nothing is stored: next_block_idx determines the block, and the sums    *)
(* the code carries from block to block are sums over the groups before.   *)
(***************************************************************************)
EXTENDS Integers, Sequences, FiniteSetsExt

CeilDiv(a, b) == (a + b - 1) \div b
Align(a, b) == b * CeilDiv(a, b)
Xor1(a) == IF a % 2 = 0 THEN a + 1 ELSE a - 1

Groups(p) == 1 .. Len(p.layout)
KGrouped(p) == p.type \in {"KGroupedContiguous", "KGroupedContiguousWithPsumLayout"}
SumOver(S, f(_)) == MapThenSumSet(f, S)

\* Where the rows of an expert start and end under the psum layout: its end is
\* given, its start is the end of the one before, aligned to blocks.
PsumEnd(p, g) == p.layout[g]
PsumStart(p, g) == IF g = 1 THEN 0 ELSE Align(p.layout[g - 1], p.blockM)

\* Where the K range of a group starts: after the groups before, or at the
\* aligned end of the one before.
KStart(p, g) ==
  IF p.type = "KGroupedContiguousWithPsumLayout"
    THEN IF g = 1 THEN 0 ELSE Align(p.layout[g - 1], p.kAlign)
    ELSE SumOver(1 .. g - 1, LAMBDA h : p.layout[h])
KShape(p, g) == IF p.type = "KGroupedContiguousWithPsumLayout"
                  THEN p.layout[g] - KStart(p, g)
                  ELSE p.layout[g]
\* A psum layout, as build_psum_layout_from_ks makes it: no group ends before
\* its aligned start, an empty one ends there.  The code subtracts unsigned; a
\* layout that breaks this wraps and is not modelled.
WellFormed(p) ==
  \A g \in Groups(p) :
    /\ p.type = "KGroupedContiguousWithPsumLayout" => KStart(p, g) <= p.layout[g]
    /\ p.type = "MGroupedContiguousWithPsumLayout" => PsumStart(p, g) <= PsumEnd(p, g)

\* The rows of scaling factors of the groups before, kSFKSpan of K each.
SFStart(p, g) == SumOver(1 .. g - 1, LAMBDA h : CeilDiv(KShape(p, h), p.sfSpan))

\* The rows of blocks of a group, and where they start.
MBlocks(p, g) ==
  CASE p.type = "MGroupedMasked" -> CeilDiv(p.layout[g], p.blockM)
    [] p.type = "MGroupedContiguousWithPsumLayout" ->
         CeilDiv(PsumEnd(p, g) - PsumStart(p, g), p.blockM)
    [] KGrouped(p) -> IF KShape(p, g) > 0 THEN p.m ELSE 0
    [] OTHER -> p.m
FirstM(p, g) == IF p.type = "MGroupedContiguousWithPsumLayout"
                  THEN PsumStart(p, g) \div p.blockM ELSE 0

\* Whether the groups of the problem are scheduled one after the other; the
\* rows of a contiguous layout name their group themselves.
Consecutive(p) == p.type \notin {"Normal", "MGroupedContiguous"}
Spans(p) == IF Consecutive(p) THEN Groups(p) ELSE {1}
BlocksBefore(p, g) == SumOver({ h \in Spans(p) : h < g }, LAMBDA h : MBlocks(p, h) * p.n)
NumBlocks(p) == SumOver(Spans(p), LAMBDA h : MBlocks(p, h) * p.n)

\* Fault: the last group is taken to be as wide as the others.
SwizzledBlock_FullGroup(p, rows, idx) ==
  LET perGroup == (IF p.onA THEN rows ELSE p.n) * p.per
      first == (idx \div perGroup) * p.per
      i == idx % perGroup
  IN  [m |-> IF p.onA THEN i \div p.per ELSE first + (i % p.per),
       n |-> IF p.onA THEN first + (i % p.per) ELSE i \div p.per,
       inGroup |-> p.per]
\* get_swizzled_block_idx: groups of `per` blocks along the primary dimension,
\* row after row.  On SM90 a group of odd size is split, the CTAs of a cluster
\* share the loads of the even part only.
SwizzledBlock(p, rows, idx) ==
  LET primary == IF p.onA THEN p.n ELSE rows
      secondary == IF p.onA THEN rows ELSE p.n
      perGroup == secondary * p.per
      first0 == (idx \div perGroup) * p.per
      size0 == IF p.per < primary - first0 THEN p.per ELSE primary - first0
      i0 == idx % perGroup
      odd == p.fixOdd /\ p.mc > 1 /\ size0 % 2 # 0
      even == i0 < Xor1(size0) * secondary
      size == IF ~odd THEN size0 ELSE IF even THEN Xor1(size0) ELSE 1
      first == IF odd /\ ~even THEN first0 + Xor1(size0) ELSE first0
      i == IF odd /\ ~even THEN i0 - Xor1(size0) * secondary ELSE i0
  IN  [m |-> IF p.onA THEN i \div size ELSE first + (i % size),
       n |-> IF p.onA THEN first + (i % size) ELSE i \div size,
       inGroup |-> size]

\* The group of a row of blocks: max(0, layout) under the contiguous layout.
GroupOfRow(p, m) == IF p.layout[m + 1] > 0 THEN p.layout[m + 1] ELSE 0

\* is_peer_cta_alive; only the ungrouped cases ever clear it.
PeerAlive(p, idx) ==
  Consecutive(p) \/ p.n % p.mc = 0 \/ p.m % p.mc = 0 \/ Xor1(idx) < NumBlocks(p)

\* is_tma_multicast_valid: the peer must exist, and need the same weights.
MulticastValid(p, b) ==
  /\ b.inGroup # 1
  /\ p.type = "MGroupedContiguous" /\ ~p.onA =>
       p.layout[b.m + 1] = p.layout[Xor1(b.m) + 1]

\* get_next_block: the block of next_block_idx.
Block(p, idx) ==
  LET g == CHOOSE h \in Spans(p) : /\ BlocksBefore(p, h) <= idx
                                   /\ idx < BlocksBefore(p, h) + MBlocks(p, h) * p.n
      i == idx - BlocksBefore(p, g)
      b == IF p.type # "Batched" THEN SwizzledBlock(p, MBlocks(p, g), i)
           ELSE [m |-> IF p.onA THEN i \div p.n ELSE i % p.m,
                 n |-> IF p.onA THEN i % p.n ELSE i \div p.m,
                 inGroup |-> 1]
  IN  [m |-> b.m + FirstM(p, g), n |-> b.n,
       group |-> CASE p.type = "Normal" -> 0
                   [] p.type = "MGroupedContiguous" -> GroupOfRow(p, b.m)
                   [] OTHER -> g - 1,
       k |-> IF KGrouped(p) THEN CeilDiv(KShape(p, g), p.blockK) ELSE p.k,
       kStart |-> IF KGrouped(p) THEN KStart(p, g) ELSE 0,
       sfStart |-> IF KGrouped(p) THEN SFStart(p, g) ELSE 0,
       alive |-> PeerAlive(p, idx),
       multicast |-> MulticastValid(p, b)]

\* The blocks of a CTA, in order.
Blocks(p, cta) ==
  LET mine == { it \in 0 .. NumBlocks(p) : it * p.sms + cta < NumBlocks(p) }
  IN  [i \in 1 .. Cardinality(mine) |-> Block(p, (i - 1) * p.sms + cta)]

\* get_global_idx: what the coordinates of a block select.  A masked layout
\* has a region of rows per expert, a batch its own matrices, the K groups
\* their own range of K and their own output.
RowsOf(p, b) ==
  <<IF p.type \in {"MGroupedMasked", "Batched"} THEN b.group ELSE 0, b.m>>
ColsOf(p, b) == <<IF KGrouped(p) THEN 0 ELSE b.group, b.n>>
KOf(p, b, k) == b.kStart + k * p.blockK
OutRowsOf(p, b) == <<IF KGrouped(p) THEN b.group ELSE RowsOf(p, b)[1], b.m>>

\* The output a problem asks for: every row of blocks of every group with
\* every column of blocks.
Outputs(p) ==
  UNION { { [m |-> FirstM(p, g) + m, n |-> n,
             group |-> CASE p.type = "Normal" -> 0
                         [] p.type = "MGroupedContiguous" -> GroupOfRow(p, m)
                         [] OTHER -> g - 1]
              : m \in 0 .. MBlocks(p, g) - 1, n \in 0 .. p.n - 1 } : g \in Spans(p) }
=============================================================================
