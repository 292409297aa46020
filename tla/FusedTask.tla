------------------------------ MODULE FusedTask ------------------------------
(***************************************************************************)
(* The tasks of one CTA of the fused kernel, from the loads of their       *)
(* operands to the results the rest of the grid waits for.  Loader A waits *)
(* until the blocks an L2 task reads are ready and copies activations and  *)
(* their scales, loader B copies packed weights; the math warpgroups       *)
(* decode the weights, into registers (fragments) or into shared memory,   *)
(* issue wgmma groups, promote their sums, and write the results through   *)
(* shared memory.                                                          *)
(*                                                                         *)
(* A stage may be given back only when the last group that reads it has    *)
(* retired, and a fragment buffer overwritten only when its last reader    *)
(* has: the loops get both from warpgroup_wait<n>, which leaves n groups   *)
(* in flight.  Which tasks a CTA gets, and when, is the subject of         *)
(* InterleavedScheduler.                                                   *)
(*                                                                         *)
(* A problem is a record with                                              *)
(*   stages:   kNumStages          wgs: math warpgroups                    *)
(*   frags:    kFragBufs of the inline-s2 loop ("rotating")                *)
(*   prefetch: kQIS2Prefetch, kRFPrefetchPacked                            *)
(*   half:     kHalfTileTasks: each warpgroup takes one K block of a stage *)
(*   swap:     kSwapABRequested    split: kSplitMDecodedWeightReuse        *)
(*   twoSlots: kDoubleBufferDecodedB                                       *)
(*   tasks:    a sequence of [l2, loop, n (stages), m, nb (its block)]     *)
(***************************************************************************)
EXTENDS KernelSteps, FiniteSetsExt

Wgs(p) == 0 .. p.wgs - 1
Cta == 0

Full(s) == <<Cta, "full", s>>
Empty(s) == <<Cta, "empty", s>>
Meet == <<Cta, "epilogue">>   \* kEpilogueFullBarrierIdx
Reduce == <<Cta, "ksplit">>   \* kKSplitReduceBarrierIdx
Decoding == <<Cta, "decode">> \* kSplitMDecodeBarrierIdx

SmemA(s) == <<Cta, "A", s>> \* with its scales
Packed(s) == <<Cta, "packed", s>>
Frag(w, b) == <<Cta, "frag", w, b>>
FragStep(w, b, k) == <<Cta, "frag", w, b, k>>
Words(w) == <<Cta, "pf_w", w>>
SmemB(p, s, w) == <<Cta, "B", IF p.twoSlots THEN s % 2 ELSE s, w>>
Accum(w, u) == <<Cta, "accum", w, u>>
SharedSF(w) == <<Cta, "cd_sf", w>>
SmemCD(w) == <<Cta, "CD", w>>
KSplit == <<Cta, "ksplit_reduce">>

L1Out(m, nb) == <<Gmem, "l1_out", m, nb>>
L2SF(m, nb) == <<Gmem, "l2_sf", m, nb>>
L1Ready(m, nb) == <<Gmem, "l1_ready", m, nb>>
CombineRow(t, w) == <<Gmem, "combine", t.m, t.nb, w>>
Signal(t) == <<Gmem, "signal", t.m, t.nb>>

\* The contents: activations and weights of stage x of a task, one K block (or
\* half) of them decoded, the sum up to it, and results.
Acts(t, x) == <<"acts", t.l2, t.m, x>>
Weights(t, x) == <<"weights", t.l2, t.nb, x>>
Decoded(t, x, u) == <<"decoded", t.l2, t.nb, x, u>>
Stale == <<"stale">>
Sum(t, x, u) == <<"sum", t.l2, t.m, t.nb, x, u>>
Task(kind, t) == <<kind, t.l2, t.m, t.nb>>

\* stage_idx and phase at stage x of the i-th task.
It(p, i, x) == MapThenSumSet(LAMBDA j : p.tasks[j].n, 1 .. i - 1) + x
Slot(p, i, x) == It(p, i, x) % p.stages
Parity(p, i, x) == (It(p, i, x) \div p.stages) % 2
WaitFull(p, i, x) == {<<Full(Slot(p, i, x)), Parity(p, i, x)>>}
Release(p, i, x) == {<<Empty(Slot(p, i, x)), 0>>}

-----------------------------------------------------------------------------
\* load_a_task: a stage of an L2 task waits for the L1 block that produced it.
LoadA(p, i, x) ==
  LET t == p.tasks[i]
      s == Slot(p, i, x)
      sources == {<<L1Out(t.m, x), <<"l1_out", t.m, x>>>>, <<L2SF(t.m, x), <<"l2_sf", t.m, x>>>>}
  IN  [wait |-> {<<Empty(s), 1 - Parity(p, i, x)>>},
       until |-> IF t.l2 THEN {<<L1Ready(t.m, x), 1>>} ELSE {},
       read |-> IF t.l2 THEN sources ELSE {},
       load |-> {<<SmemA(s), Acts(t, x), Full(s)>>},
       arrive |-> {<<Full(s), 1>>}] @@ Nop

\* load_b_task
LoadB(p, i, x) ==
  LET s == Slot(p, i, x)
  IN  [wait |-> {<<Empty(s), 1 - Parity(p, i, x)>>},
       load |-> {<<Packed(s), Weights(p.tasks[i], x), Full(s)>>},
       arrive |-> {<<Full(s), 1>>}] @@ Nop

Loader(p, load(_, _, _)) ==
  FlattenSeq([i \in 1 .. Len(p.tasks) |->
    [x \in 1 .. p.tasks[i].n |-> load(p, i, x - 1)]])

-----------------------------------------------------------------------------
\* decode_stage_rf: unit u of stage x into a fragment buffer.
Decode(p, i, x, u, frag) ==
  [read |-> {<<Packed(Slot(p, i, x)), Weights(p.tasks[i], x)>>},
   write |-> {<<frag, Decoded(p.tasks[i], x, u)>>}] @@ Nop
\* Past the last stage the loops that must not branch decode whatever is in
\* the next slot; it is never issued.
DecodeStale(frag) == [write |-> {<<frag, Stale>>}] @@ Nop

\* issue_stage_rf: one commit group on a fragment buffer and the activations.
Issue(p, i, w, x, u, frag, acc) ==
  [issue |-> <<Group("mma", {<<frag, Decoded(p.tasks[i], x, u)>>,
                             <<SmemA(Slot(p, i, x)), Acts(p.tasks[i], x)>>},
                            {<<Accum(w, acc), Sum(p.tasks[i], x, u)>>}, {})>>] @@ Nop

\* warpgroup_wait<n>
Drain(n) == {<<"mma", n>>}
\* promote_stage_rf: the sum of a unit, scaled with the stage's activation
\* scales.
Promote(p, i, w, x, u, acc) == {<<SmemA(Slot(p, i, x)), Acts(p.tasks[i], x)>>,
                               <<Accum(w, acc), Sum(p.tasks[i], x, u)>>}
\* capture_act_scale: the scales of an inline-s2 task are read at its start.
Capture(p, i) == {<<SmemA(Slot(p, i, 0)), Acts(p.tasks[i], 0)>>}

\* One unit per stage, two fragment buffers: issue, decode the next stage,
\* drain, promote, release.  Of a half tile, warpgroup w takes unit w.
SingleLoop(p, i, w) ==
  LET n == p.tasks[i].n
      u == IF p.half THEN w ELSE 0
  IN  <<[wait |-> WaitFull(p, i, 0)] @@ Decode(p, i, 0, u, Frag(w, 0))>>
      \o FlattenSeq([j \in 1 .. n |->
           LET x == j - 1
               next == [wait |-> WaitFull(p, i, x + 1)] @@ Decode(p, i, x + 1, u, Frag(w, (x + 1) % 2))
           IN  <<Issue(p, i, w, x, u, Frag(w, x % 2), 0)>>
               \o (IF j < n THEN <<next>> ELSE <<>>)
               \o <<[drain |-> Drain(0), read |-> Promote(p, i, w, x, u, 0),
                     arrive |-> Release(p, i, x)] @@ Nop>>])

\* Two units per stage, promoted stage by stage.
DrainedLoop(p, i, w) ==
  LET t == p.tasks[i]
      Load(x) == [wait |-> WaitFull(p, i, x),
                  read |-> {<<Packed(Slot(p, i, x)), Weights(t, x)>>},
                  write |-> {<<Words(w), Weights(t, x)>>}] @@ Nop
      FromWords(x) == [drain |-> Drain(1), read |-> {<<Words(w), Weights(t, x)>>},
                       write |-> {<<Frag(w, 0), Decoded(t, x, 0)>>}] @@ Nop
      Next(x) == IF p.prefetch THEN <<Load(x), FromWords(x)>>
                 ELSE <<[wait |-> WaitFull(p, i, x), drain |-> Drain(1)]
                          @@ Decode(p, i, x, 0, Frag(w, 0))>>
  IN  <<[wait |-> WaitFull(p, i, 0)] @@ Decode(p, i, 0, 0, Frag(w, 0))>>
      \o FlattenSeq([j \in 1 .. t.n |->
           LET x == j - 1
           IN  <<Issue(p, i, w, x, 0, Frag(w, 0), 0), Decode(p, i, x, 1, Frag(w, 1)),
                 Issue(p, i, w, x, 1, Frag(w, 1), 1)>>
               \o (IF j < t.n THEN Next(x + 1) ELSE <<>>)
               \o <<[drain |-> Drain(0),
                     read |-> Promote(p, i, w, x, 0, 0) \cup Promote(p, i, w, x, 1, 1),
                     arrive |-> Release(p, i, x)] @@ Nop>>])

\* The inline-s2 loop with two fragment buffers: the tensor cores lag one
\* group behind the decoding, the stage before is released behind the first
\* wait, and the task's sum is promoted once.
LaggedLoop(p, i, w) ==
  LET t == p.tasks[i]
      ToWords(x) == [read |-> {<<Packed(Slot(p, i, x)), Weights(t, x)>>},
                     write |-> {<<Words(w), Weights(t, x)>>}] @@ Nop
      FromWords(x, u, b) == [read |-> {<<Words(w), Weights(t, x)>>},
                             write |-> {<<Frag(w, b), Decoded(t, x, u)>>}] @@ Nop
      Free(x) == [drain |-> Drain(1), arrive |-> IF x = 0 THEN {} ELSE Release(p, i, x - 1)]
      Second(x) == IF p.prefetch
                     THEN <<ToWords(x), Free(x) @@ FromWords(x, 1, 1)>>
                     ELSE <<Free(x) @@ Decode(p, i, x, 1, Frag(w, 1))>>
      Next(x) == IF x = t.n THEN <<[drain |-> Drain(1)] @@ DecodeStale(Frag(w, 0))>>
                 ELSE IF p.prefetch
                   THEN <<[wait |-> WaitFull(p, i, x)] @@ ToWords(x),
                          [drain |-> Drain(1)] @@ FromWords(x, 0, 0)>>
                   ELSE <<[drain |-> Drain(1), wait |-> WaitFull(p, i, x)]
                            @@ Decode(p, i, x, 0, Frag(w, 0))>>
  IN  <<[wait |-> WaitFull(p, i, 0), read |-> Capture(p, i)] @@ Nop,
        Decode(p, i, 0, 0, Frag(w, 0))>>
      \o FlattenSeq([j \in 1 .. t.n |->
           <<Issue(p, i, w, j - 1, 0, Frag(w, 0), 0)>> \o Second(j - 1)
           \o <<Issue(p, i, w, j - 1, 1, Frag(w, 1), 0)>> \o Next(j)])
      \o <<[drain |-> Drain(0), read |-> {<<Accum(w, 0), Sum(t, t.n - 1, 1)>>},
            arrive |-> Release(p, i, t.n - 1)] @@ Nop>>

-----------------------------------------------------------------------------
\* maybe_release: block n is about to be decoded, so the group of block
\* n - frags has retired; if it was the second of its stage, that is released.
MaybeRelease(p, i, n) ==
  LET retired == n - p.frags
  IN  IF retired >= 0 /\ retired % 2 = 1 THEN Release(p, i, retired \div 2) ELSE {}
\* The stages of a task of n stages released before its last stage is over.
Released(p, n) ==
  { r \in 0 .. n - 1 : \E b \in (2 * r + p.frags + 1) .. 2 * n - 1 :
                          b = 2 * r + 1 + p.frags }

\* The inline-s2 loop with three or four fragment buffers in rotation; the
\* stages still held at the end of the task are released after the last wait.
RotatingLoop(p, i, w) ==
  LET t == p.tasks[i]
      Buf(n) == Frag(w, n % p.frags)
      Free(n) == [drain |-> Drain(p.frags - 1), arrive |-> MaybeRelease(p, i, n)]
  IN  <<[wait |-> WaitFull(p, i, 0), read |-> Capture(p, i)] @@ Nop,
        Decode(p, i, 0, 0, Buf(0))>>
      \o FlattenSeq([j \in 1 .. t.n |->
           LET x == j - 1
           IN  <<Issue(p, i, w, x, 0, Buf(2 * x), 0),
                 Free(2 * x + 1) @@ Decode(p, i, x, 1, Buf(2 * x + 1)),
                 Issue(p, i, w, x, 1, Buf(2 * x + 1), 0)>>
               \o IF j = t.n THEN <<>>
                  ELSE <<Free(2 * j) @@ Nop,
                         [wait |-> WaitFull(p, i, j)] @@ Decode(p, i, j, 0, Buf(2 * j))>>])
      \o <<[drain |-> Drain(0), read |-> {<<Accum(w, 0), Sum(t, t.n - 1, 1)>>},
            arrive |-> UNION { Release(p, i, r) : r \in (0 .. t.n - 1) \ Released(p, t.n) }] @@ Nop>>

\* The inline-s2 loop issued step by step: each K32 step of a block is a group
\* of its own, and the same step of the next block is decoded behind wait<4>.
KSteps == 4
InterleavedLoop(p, i, w) ==
  LET t == p.tasks[i]
      Act(x) == {<<SmemA(Slot(p, i, x)), Acts(t, x)>>}
      Start(x, u, k) ==
        [wait |-> IF u = 1 /\ k = 0 /\ x < t.n - 1 THEN WaitFull(p, i, x + 1) ELSE {},
         issue |-> <<Group("mma", Act(x) \cup {<<FragStep(w, u, k), Decoded(t, x, u)>>},
                           {<<Accum(w, 0), Sum(t, x, u)>>}, {})>>] @@ Nop
      Target(x, u) == IF u = 0 THEN <<x, 1>> ELSE <<x + 1, 0>>
      Refill(x, u, k) ==
        LET d == Target(x, u)
        IN  [drain |-> Drain(KSteps),
             arrive |-> IF u = 0 /\ x > 0 /\ k = KSteps - 1 THEN Release(p, i, x - 1) ELSE {}]
            @@ IF d[1] = t.n THEN DecodeStale(FragStep(w, 0, k))
               ELSE Decode(p, i, d[1], d[2], FragStep(w, 1 - u, k))
      Block(x, u) == FlattenSeq([k \in 1 .. KSteps |-> <<Start(x, u, k - 1), Refill(x, u, k - 1)>>])
  IN  <<[wait |-> WaitFull(p, i, 0), read |-> Capture(p, i) \cup {<<Packed(Slot(p, i, 0)), Weights(t, 0)>>},
         write |-> { <<FragStep(w, 0, k), Decoded(t, 0, 0)>> : k \in 0 .. KSteps - 1 }] @@ Nop>>
      \o FlattenSeq([j \in 1 .. t.n |-> Block(j - 1, 0) \o Block(j - 1, 1)])
      \o <<[drain |-> Drain(0), read |-> {<<Accum(w, 0), Sum(t, t.n - 1, 1)>>},
            arrive |-> Release(p, i, t.n - 1)] @@ Nop>>

-----------------------------------------------------------------------------
\* decode_b_stage: a warpgroup decodes its rows of a stage, or, of a split
\* block, half of the rows both need, and then meets the other.
DecodeB(p, i, x, w) ==
  [read |-> {<<Packed(Slot(p, i, x)), Weights(p.tasks[i], x)>>},
   write |-> {<<SmemB(p, Slot(p, i, x), w), Decoded(p.tasks[i], x, 0)>>},
   arrive |-> IF p.split THEN {<<Decoding, 0>>} ELSE {}] @@ Nop
\* The rows warpgroup w multiplies, and the barrier to pass before.
RowsB(p, i, x, w) ==
  { <<SmemB(p, Slot(p, i, x), v), Decoded(p.tasks[i], x, 0)>> : v \in IF p.split THEN Wgs(p) ELSE {w} }
AllDecoded(p, i, x) == IF p.split THEN {<<Decoding, It(p, i, x) % 2>>} ELSE {}

\* One group on the decoded rows.
IssueB(p, i, w, x) ==
  [issue |-> <<Group("mma", RowsB(p, i, x, w) \cup {<<SmemA(Slot(p, i, x)), Acts(p.tasks[i], x)>>},
                            {<<Accum(w, 0), Sum(p.tasks[i], x, 0)>>}, {})>>] @@ Nop

\* The pipelined loop: the next stage is decoded while this one is multiplied.
PipelinedLoop(p, i, w) ==
  LET n == p.tasks[i].n
  IN  <<[wait |-> WaitFull(p, i, 0)] @@ DecodeB(p, i, 0, w)>>
      \o FlattenSeq([j \in 1 .. n |->
           <<IssueB(p, i, w, j - 1)>>
           \o (IF j < n THEN <<[wait |-> WaitFull(p, i, j)] @@ DecodeB(p, i, j, w)>> ELSE <<>>)
           \o <<[drain |-> Drain(0), read |-> Promote(p, i, w, j - 1, 0, 0),
                 arrive |-> Release(p, i, j - 1)] @@ Nop>>])

\* The serial loop: decode, multiply, drain.  The swapped kernels multiply
\* their rows in two halves and read the scales behind each; the others read
\* them ahead, and an L2 task of a split block has two scale groups.
SerialLoop(p, i, w) ==
  LET t == p.tasks[i]
      twice == p.swap \/ (p.split /\ t.l2)
      Scales(x) == {<<SmemA(Slot(p, i, x)), Acts(t, x)>>}
      Multiply(x, first, last) ==
        <<[wait |-> IF first THEN AllDecoded(p, i, x) ELSE {},
           read |-> IF first /\ ~p.swap THEN Scales(x) ELSE {}] @@ IssueB(p, i, w, x),
          [drain |-> Drain(0),
           read |-> {<<Accum(w, 0), Sum(t, x, 0)>>} \cup (IF p.swap THEN Scales(x) ELSE {}),
           arrive |-> IF last THEN Release(p, i, x) ELSE {}] @@ Nop>>
  IN  FlattenSeq([j \in 1 .. t.n |->
        <<[wait |-> WaitFull(p, i, j - 1)] @@ DecodeB(p, i, j - 1, w)>>
        \o (IF twice THEN Multiply(j - 1, TRUE, FALSE) \o Multiply(j - 1, FALSE, TRUE)
                     ELSE Multiply(j - 1, TRUE, TRUE))])

-----------------------------------------------------------------------------
\* How often the warpgroups meet in the epilogue of a task.
Meets(p, i) == CASE p.tasks[i].l2 -> 1 [] p.swap -> 4 [] OTHER -> 3
MeetBase(p, i) == MapThenSumSet(LAMBDA j : Meets(p, j), 1 .. i - 1)
Met(p, i, k) == {<<Meet, (MeetBase(p, i) + k - 1) % 2>>}
ToMeet == {<<Meet, 0>>}

\* The warpgroups that hold results: of a half tile only the first.
Holders(p) == IF p.half THEN {0} ELSE Wgs(p)
IfHolder(p, w, S) == IF w \in Holders(p) THEN S ELSE {}

\* The second warpgroup of a half tile hands its sums to the first.
HandOff(p, i, w) ==
  IF ~p.half THEN <<>>
  ELSE <<[write |-> IF w = 0 THEN {} ELSE {<<KSplit, Task("half", p.tasks[i])>>},
          arrive |-> {<<Reduce, 0>>}] @@ Nop,
         [wait |-> {<<Reduce, (i - 1) % 2>>},
          read |-> IF w = 0 THEN {<<KSplit, Task("half", p.tasks[i])>>} ELSE {}] @@ Nop>>

\* The block of L1 output: the first warpgroup stores it from shared memory,
\* waits until the store is complete, all meet, and its readers are told.
StoreL1(p, i, w, k) ==
  LET t == p.tasks[i]
      source == { <<SmemCD(v), Task("act", t)>> : v \in Holders(p) }
  IN  <<[wait |-> Met(p, i, k),
         issue |-> IF w # 0 THEN <<>>
                   ELSE <<Group("store", source,
                                {<<L1Out(t.m, t.nb), <<"l1_out", t.m, t.nb>>>>}, {})>>] @@ Nop,
        [drain |-> IF w = 0 THEN {<<"store", 0>>} ELSE {}, arrive |-> ToMeet] @@ Nop,
        [wait |-> Met(p, i, k + 1),
         add |-> IF w = 0 THEN {<<L1Ready(t.m, t.nb), 1>>} ELSE {}] @@ Nop>>

\* The epilogue of a swapped L1 task: maxima of each warpgroup, one scale by
\* the first, quantised results, the store.
EpilogueL1Swap(p, i, w) ==
  LET t == p.tasks[i]
      maxima == { <<SharedSF(v), Task("amax", t)>> : v \in Holders(p) }
  IN  <<[write |-> IfHolder(p, w, {<<SharedSF(w), Task("amax", t)>>}), arrive |-> ToMeet] @@ Nop,
        [wait |-> Met(p, i, 1),
         read |-> IF w = 0 THEN maxima ELSE {},
         write |-> IF w = 0 THEN {<<SharedSF(0), Task("sf_inv", t)>>,
                                  <<L2SF(t.m, t.nb), <<"l2_sf", t.m, t.nb>>>>} ELSE {},
         arrive |-> ToMeet] @@ Nop,
        [wait |-> Met(p, i, 2),
         read |-> IfHolder(p, w, {<<SharedSF(0), Task("sf_inv", t)>>}),
         write |-> IfHolder(p, w, {<<SmemCD(w), Task("act", t)>>}),
         arrive |-> ToMeet] @@ Nop>>
      \o StoreL1(p, i, w, 3)

\* Of the other L1 tasks: everyone reads the maxima it needs, its own of a split
\* block, and scales its results; the scale is written with them.
EpilogueL1(p, i, w) ==
  LET t == p.tasks[i]
      maxima == { <<SharedSF(v), Task("amax", t)>> : v \in IF p.split THEN {w} ELSE Wgs(p) }
  IN  <<[write |-> {<<SharedSF(w), Task("amax", t)>>}, arrive |-> ToMeet] @@ Nop,
        [wait |-> Met(p, i, 1),
         read |-> maxima,
         write |-> {<<SmemCD(w), Task("act", t)>>}
                   \cup IF w = 0 THEN {<<L2SF(t.m, t.nb), <<"l2_sf", t.m, t.nb>>>>} ELSE {},
         arrive |-> ToMeet] @@ Nop>>
      \o StoreL1(p, i, w, 2)

\* The epilogue of an L2 task scatters its rows, a swapped one through shared
\* memory; all meet, and the combine is told.
EpilogueL2(p, i, w) ==
  LET t == p.tasks[i]
      rows == IfHolder(p, w, {<<CombineRow(t, w), Task("row", t)>>})
      staged == IfHolder(p, w, {<<SmemCD(w), Task("row", t)>>})
  IN  (IF p.swap THEN <<[write |-> staged] @@ Nop,
                        [read |-> staged, write |-> rows, arrive |-> ToMeet] @@ Nop>>
       ELSE <<[write |-> rows, arrive |-> ToMeet] @@ Nop>>)
      \o <<[wait |-> Met(p, i, 1), add |-> IF w = 0 THEN {<<Signal(t), 1>>} ELSE {}] @@ Nop>>

KLoop(p, i, w) ==
  LET loop == p.tasks[i].loop
  IN  CASE loop = "single" -> SingleLoop(p, i, w)
        [] loop = "drained" -> DrainedLoop(p, i, w)
        [] loop = "lagged" -> LaggedLoop(p, i, w)
        [] loop = "rotating" -> RotatingLoop(p, i, w)
        [] loop = "interleaved" -> InterleavedLoop(p, i, w)
        [] loop = "pipelined" -> PipelinedLoop(p, i, w)
        [] loop = "serial" -> SerialLoop(p, i, w)

MathWarpgroup(p, w) ==
  FlattenSeq([i \in 1 .. Len(p.tasks) |->
    KLoop(p, i, w) \o HandOff(p, i, w)
    \o (CASE p.tasks[i].l2 -> EpilogueL2(p, i, w)
          [] p.swap -> EpilogueL1Swap(p, i, w)
          [] OTHER -> EpilogueL1(p, i, w))])

\* The arrivals the m-barriers are initialised for, and the warpgroups of the
\* named barriers.
Barriers(p) ==
  [b \in { Full(s) : s \in 0 .. p.stages - 1 } \cup { Empty(s) : s \in 0 .. p.stages - 1 }
         \cup {Meet, Reduce, Decoding} |-> IF b[2] = "full" THEN 2 ELSE p.wgs]

TasksOf(p, l2) == { p.tasks[i] : i \in { j \in 1 .. Len(p.tasks) : p.tasks[j].l2 = l2 } }
Flags(p) == { L1Ready(t.m, t.nb) : t \in TasksOf(p, FALSE) } \cup { Signal(t) : t \in TasksOf(p, TRUE) }

\* At the end every block of both phases is written and announced, once.
FusedTasks(p) ==
  LET rows == [c \in { CombineRow(t, w) : t \in TasksOf(p, TRUE), w \in Holders(p) } |->
                 LET t == CHOOSE x \in TasksOf(p, TRUE) : \E w \in Holders(p) : c = CombineRow(x, w)
                 IN  Task("row", t)]
  IN  Kernel(Barriers(p),
             [a \in {<<Cta, "load_a">>, <<Cta, "load_b">>}
                    \cup { <<Cta, "math", w>> : w \in Wgs(p) } |->
                CASE a[2] = "load_a" -> Loader(p, LoadA)
                  [] a[2] = "load_b" -> Loader(p, LoadB)
                  [] a[2] = "math" -> MathWarpgroup(p, a[3])],
             [c \in Flags(p) |-> 0],
             [c \in Flags(p) |-> 1] @@ rows)
=============================================================================
