---------------------------- MODULE StreamKProofs ----------------------------
(***************************************************************************)
(* Proof, for any number of workers, tiles and K units, that the stream-K  *)
(* ranges partition the units of a phase, that the warps agree on the      *)
(* contributors of a tile and on where their partial sums lie, that every  *)
(* sum finds all of them, and that every tile is finished exactly once.    *)
(***************************************************************************)
EXTENDS StreamK, FiniteSetTheorems, TLAPS

-----------------------------------------------------------------------------
\* Division with remainder.
LEMMA Division ==
  ASSUME NEW a \in Int, NEW d \in Nat \ {0}
  PROVE  /\ a \div d \in Int /\ a % d \in Nat
         /\ a = d * (a \div d) + (a % d)
         /\ a % d < d
  OBVIOUS

\* A larger integer times a natural number is at least as large.
LEMMA TimesMonotone ==
  ASSUME NEW a \in Int, NEW b \in Int, NEW d \in Nat, a <= b
  PROVE  a * d \in Int /\ b * d \in Int /\ a * d <= b * d
<1>1. PICK e \in Nat : b = a + e
  <2>1. b - a \in Nat
    OBVIOUS
  <2> QED
    BY <2>1
<1>2. b * d = a * d + e * d /\ e * d \in Nat /\ a * d \in Int
  BY <1>1
<1> QED
  BY <1>2

\* ... and conversely.
LEMMA TimesCancel ==
  ASSUME NEW a \in Int, NEW b \in Int, NEW d \in Nat, a * d < b * d
  PROVE  a < b
<1>1. SUFFICES ASSUME b <= a PROVE FALSE
  OBVIOUS
<1>2. b * d <= a * d /\ a * d \in Int /\ b * d \in Int
  BY <1>1, TimesMonotone
<1> QED
  BY <1>2

LEMMA BaseRem ==
  ASSUME NEW units \in Nat
  PROVE  /\ Base(units) \in Nat
         /\ Rem(units) \in Nat
         /\ units = NumSMs * Base(units) + Rem(units)
         /\ Rem(units) < NumSMs
<1>1. NumSMs \in Nat \ {0}
  BY PartitionAssumption
<1> DEFINE q == units \div NumSMs
           m == units % NumSMs
<1>2. q \in Int /\ m \in Nat /\ units = NumSMs * q + m /\ m < NumSMs
  BY <1>1, Division
<1>3. q >= 0
  BY <1>1
<1> QED
  BY <1>2, <1>3 DEF Base, Rem

\* The ranges are integers, and a worker's range ends where the next begins.
LEMMA RangesAdjacent ==
  ASSUME NEW units \in Nat, NEW w \in Nat
  PROVE  /\ RangeBegin(units, w) \in Nat
         /\ RangeEnd(units, w) \in Nat
         /\ RangeBegin(units, w) <= RangeEnd(units, w)
         /\ RangeEnd(units, w) = RangeBegin(units, w + 1)
<1> DEFINE B == Base(units)
           R == Rem(units)
<1>1. B \in Nat /\ R \in Nat
  BY BaseRem
<1> HIDE DEF B, R
<1>2. w * B \in Nat /\ (w + 1) * B = w * B + B
  BY <1>1
<1>3. RangeBegin(units, w) = w * B + Lesser(w, R)
  BY DEF RangeBegin, B, R
<1>4. RangeBegin(units, w + 1) = (w + 1) * B + Lesser(w + 1, R)
  BY DEF RangeBegin, B, R
<1>5. RangeEnd(units, w) = RangeBegin(units, w) + B + (IF w < R THEN 1 ELSE 0)
  BY DEF RangeEnd, B, R
<1> QED
  BY <1>1, <1>2, <1>3, <1>4, <1>5 DEF Lesser

\* A worker with a smaller index owns smaller units.
LEMMA RangesOrdered ==
  ASSUME NEW units \in Nat, NEW v \in Nat, NEW w \in Nat, v < w
  PROVE  RangeEnd(units, v) <= RangeBegin(units, w)
<1> DEFINE B == Base(units)
           R == Rem(units)
<1>1. B \in Nat /\ R \in Nat
  BY BaseRem
<1>2. RangeEnd(units, v) = RangeBegin(units, v + 1)
  BY RangesAdjacent
<1>3. RangeBegin(units, v + 1) = (v + 1) * B + Lesser(v + 1, R)
  BY DEF RangeBegin
<1>4. RangeBegin(units, w) = w * B + Lesser(w, R)
  BY DEF RangeBegin
<1> HIDE DEF B, R
<1>5. (v + 1) * B <= w * B /\ (v + 1) * B \in Int /\ w * B \in Int
  BY <1>1, TimesMonotone
<1>6. Lesser(v + 1, R) <= Lesser(w, R)
  BY <1>1 DEF Lesser
<1>7. Lesser(v + 1, R) \in Int /\ Lesser(w, R) \in Int
  BY <1>1 DEF Lesser
<1> QED
  BY <1>2, <1>3, <1>4, <1>5, <1>6, <1>7

\* get_streamk_worker_of_unit inverts get_streamk_range.
LEMMA OwnerOfUnit ==
  ASSUME NEW units \in Nat, NEW u \in 0 .. units - 1
  PROVE  /\ WorkerOf(units, u) \in Workers
         /\ RangeBegin(units, WorkerOf(units, u)) <= u
         /\ u < RangeEnd(units, WorkerOf(units, u))
<1> DEFINE B == Base(units)
           R == Rem(units)
           N == NumSMs
           long == R * (B + 1)
           W == WorkerOf(units, u)
<1>1. /\ B \in Nat /\ R \in Nat /\ N \in Nat \ {0}
      /\ units = N * B + R /\ R < N
  BY BaseRem, PartitionAssumption
<1>2. W = IF u < long THEN u \div (B + 1) ELSE R + (u - long) \div B
  BY DEF WorkerOf
<1>3. \A w : /\ RangeBegin(units, w) = w * B + Lesser(w, R)
             /\ RangeEnd(units, w) =
                  RangeBegin(units, w) + B + (IF w < R THEN 1 ELSE 0)
  BY DEF RangeBegin, RangeEnd
<1>4. long \in Nat /\ long = R * B + R
  <2> HIDE DEF B, R
  <2> QED
    BY <1>1
<1>5. SUFFICES W \in Int /\ 0 <= W /\ W < N
               /\ W * B + Lesser(W, R) <= u
               /\ u < W * B + Lesser(W, R) + B + (IF W < R THEN 1 ELSE 0)
  BY <1>1, <1>3 DEF Workers
<1>6. CASE u < long
  <2> DEFINE q == u \div (B + 1)
             m == u % (B + 1)
  <2> HIDE DEF B, R, N
  <2>1. B + 1 \in Nat \ {0} /\ u \in Int
    BY <1>1
  <2>2. q \in Int /\ m \in Nat /\ u = (B + 1) * q + m /\ m < B + 1
    BY <2>1, Division
  <2>3. q >= 0
    BY <2>1
  <2>4. W = q
    BY <1>2, <1>6
  <2> HIDE DEF q, m, W
  <2>5. (B + 1) * q = q * B + q /\ q * B \in Int
    BY <2>2, <1>1
  <2>6. q * (B + 1) = q * B + q
    BY <2>2, <1>1
  <2>7. q * (B + 1) < R * (B + 1)
    BY <1>1, <1>6, <2>2, <2>5, <2>6
  <2>8. q < R
    BY <1>1, <2>1, <2>2, <2>7, TimesCancel
  <2> QED
    BY <1>1, <2>2, <2>3, <2>4, <2>5, <2>8 DEF Lesser
<1>7. CASE u >= long
  <2> DEFINE r == u - long
             q == r \div B
             m == r % B
  <2>1. r \in Nat
    BY <1>4, <1>7
  <2> HIDE DEF B, R, N
  <2>2. (N - R) * B = N * B - R * B /\ N * B \in Int /\ R * B \in Int
    BY <1>1
  <2>3. r < (N - R) * B
    BY <1>1, <1>4, <2>2
  <2>4. B # 0
    BY <1>1, <2>1, <2>3
  <2>5. B \in Nat \ {0} /\ r \in Int
    BY <1>1, <2>1, <2>4
  <2> HIDE DEF r
  <2>6. q \in Int /\ m \in Nat /\ r = B * q + m /\ m < B
    BY <2>5, Division
  <2>7. q >= 0
    BY <2>1, <2>5
  <2>8. W = R + q
    BY <1>2, <1>4, <1>7 DEF r
  <2> HIDE DEF q, m, W
  <2>9. q * B = B * q /\ q * B \in Int
    BY <1>1, <2>6
  <2>10. q * B < (N - R) * B /\ N - R \in Int
    BY <1>1, <2>2, <2>3, <2>6, <2>9
  <2>11. q < N - R
    BY <1>1, <2>6, <2>10, TimesCancel
  <2>12. W * B = R * B + q * B
    BY <1>1, <2>6, <2>8
  <2>13. u = R * B + R + q * B + m
    BY <1>4, <2>6, <2>9 DEF r
  <2>14. W >= R /\ W \in Int /\ 0 <= W /\ W < N
    BY <1>1, <2>6, <2>7, <2>8, <2>11
  <2>15. Lesser(W, R) = R
    BY <1>1, <2>14 DEF Lesser
  <2> QED
    BY <1>1, <2>2, <2>6, <2>9, <2>12, <2>13, <2>14, <2>15
<1> QED
  BY <1>4, <1>6, <1>7

\* No unit has two owners.
LEMMA OneOwner ==
  ASSUME NEW units \in Nat, NEW v \in Nat, NEW w \in Nat, NEW u \in Int,
         RangeBegin(units, v) <= u, u < RangeEnd(units, v),
         RangeBegin(units, w) <= u, u < RangeEnd(units, w)
  PROVE  v = w
<1>1. v < w => RangeEnd(units, v) <= RangeBegin(units, w)
  BY RangesOrdered
<1>2. w < v => RangeEnd(units, w) <= RangeBegin(units, v)
  BY RangesOrdered
<1>3. /\ RangeBegin(units, v) \in Nat /\ RangeEnd(units, v) \in Nat
      /\ RangeBegin(units, w) \in Nat /\ RangeEnd(units, w) \in Nat
  BY RangesAdjacent
<1> QED
  BY <1>1, <1>2, <1>3

-----------------------------------------------------------------------------
SegmentRecord == [phase : Phases, task : Nat, from : Nat, to : Nat,
                  first : Int, split : Int, of : Int]

\* The segment is what worker w owns of its task, all of it.
WholePart(seg, w) ==
  LET U == Units(seg.phase)
      L == PerTask(seg.phase)
      start == seg.task * L
  IN  /\ start + L <= U
      /\ seg.from < seg.to /\ seg.to <= L
      /\ seg.from = 0 \/ start + seg.from = RangeBegin(U, w)
      /\ seg.to = L \/ start + seg.to = RangeEnd(U, w)
      /\ RangeBegin(U, w) <= start + seg.from
      /\ start + seg.to <= RangeEnd(U, w)
      /\ seg.first = WorkerOf(U, start)
      /\ seg.split = w - seg.first
      /\ seg.of = WorkerOf(U, start + L - 1) - seg.first + 1

SoundSegments ==
  { seg \in SegmentRecord : \E w \in Workers : WholePart(seg, w) }
Tasks == SoundSegments \cup {None}
Pcs == {"get", "store", "ticket", "reset", "epilogue"}
MathStates == [pc : Pcs, seg : Tasks]

\* The producer of c is inside the range of its worker, at a task's start if
\* not at the start of the range.
InRange(c, p) ==
  LET U == Units(p)
  IN  /\ worker[c] \in Workers
      /\ unitEnd[c] = RangeEnd(U, worker[c])
      /\ unit[c] \in RangeBegin(U, worker[c]) .. unitEnd[c]
      /\ \/ unit[c] = RangeBegin(U, worker[c])
         \/ unit[c] = unitEnd[c]
         \/ unit[c] % PerTask(p) = 0

IInv ==
  /\ taskCount \in [Phases -> Nat]
  /\ state \in [SMs -> 0 .. 5]
  /\ worker \in [SMs -> Nat]
  /\ unit \in [SMs -> Nat]
  /\ unitEnd \in [SMs -> Nat]
  /\ mail \in [SMs -> Seq(Tasks)]
  /\ math \in [SMs -> MathStates]
  /\ \A c \in SMs : /\ state[c] = 1 => InRange(c, 1)
                    /\ state[c] = 3 => InRange(c, 2)

LEMMA Sizes ==
  ASSUME NEW p \in Phases
  PROVE  /\ PerTask(p) \in Nat \ {0}
         /\ NumTasks(p) \in Nat
         /\ Units(p) \in Nat
         /\ Units(p) = NumTasks(p) * PerTask(p)
<1>1. PerTask(p) \in Nat \ {0} /\ BlockNs(p) \in Nat /\ NumMBlocks \in Nat
  BY StreamKAssumption DEF PerTask, BlockNs
<1>2. NumTasks(p) \in Nat
  BY <1>1 DEF NumTasks
<1> QED
  BY <1>1, <1>2 DEF Units

\* make_streamk_segment returns all that the worker owns of the task of unit u
\* and the producer then stands at the start of the next task or at the end.
LEMMA SegmentSound ==
  ASSUME NEW p \in Phases, NEW w \in Workers, NEW u \in Nat,
         RangeBegin(Units(p), w) <= u, u < RangeEnd(Units(p), w),
         u = RangeBegin(Units(p), w) \/ u % PerTask(p) = 0
  PROVE  LET end == RangeEnd(Units(p), w)
             seg == Segment(p, Units(p), PerTask(p), w, u, end)
             next == u + (seg.to - seg.from)
         IN  /\ seg \in SoundSegments
             /\ next \in u .. end
             /\ next = end \/ next % PerTask(p) = 0
<1> DEFINE U == Units(p)
           L == PerTask(p)
           T == NumTasks(p)
           end == RangeEnd(U, w)
           seg == Segment(p, U, L, w, u, end)
           t == u \div L
           from == u % L
<1>1. L \in Nat \ {0} /\ U \in Nat /\ T \in Nat /\ U = T * L
  BY Sizes
<1>2. w \in Nat /\ w + 1 <= NumSMs /\ NumSMs \in Nat \ {0}
  BY PartitionAssumption DEF Workers
<1>3. end \in Nat /\ RangeBegin(U, w) \in Nat
  BY <1>1, <1>2, RangesAdjacent
<1>4. end <= U
  <2>1. end = RangeBegin(U, w + 1)
    BY <1>1, <1>2, RangesAdjacent
  <2>2. RangeBegin(U, NumSMs) = U
    BY <1>1, <1>2, BaseRem DEF RangeBegin, Lesser
  <2>3. CASE w + 1 = NumSMs
    BY <1>1, <2>1, <2>2, <2>3
  <2>4. CASE w + 1 < NumSMs
    <3>1. RangeEnd(U, w + 1) <= RangeBegin(U, NumSMs)
      BY <1>1, <1>2, <2>4, RangesOrdered
    <3>2. RangeBegin(U, w + 1) <= RangeEnd(U, w + 1)
          /\ RangeEnd(U, w + 1) \in Nat /\ RangeBegin(U, w + 1) \in Nat
      BY <1>1, <1>2, RangesAdjacent
    <3> QED
      BY <1>1, <2>1, <2>2, <3>1, <3>2
  <2> QED
    BY <1>2, <2>3, <2>4
<1>5. t \in Int /\ from \in Nat /\ u = L * t + from /\ from < L
  <2> HIDE DEF L
  <2>1. L \in Nat \ {0} /\ u \in Int
    BY <1>1
  <2> QED
    BY <2>1, Division
<1>6. t >= 0 /\ t * L = L * t /\ t * L \in Nat
  <2> HIDE DEF L
  <2>1. t >= 0
    BY <1>1
  <2> HIDE DEF t
  <2>2. t \in Nat
    BY <1>5, <2>1
  <2> QED
    BY <1>1, <2>1, <2>2
<1>7. seg = [phase |-> p, task |-> t, from |-> from,
             to |-> Lesser(L, from + (end - u)),
             first |-> WorkerOf(U, t * L),
             split |-> w - WorkerOf(U, t * L),
             of |-> WorkerOf(U, t * L + L - 1) - WorkerOf(U, t * L) + 1]
  BY DEF Segment
<1> HIDE DEF U, L, T, seg, t, from, end
<1>8. t < T
  <2>1. t * L < T * L
    BY <1>1, <1>3, <1>4, <1>5, <1>6 DEF end, U
  <2> QED
    BY <1>1, <1>5, <2>1, TimesCancel
<1>9. t * L + L <= U
  <2>1. (t + 1) * L <= T * L /\ (t + 1) * L = t * L + L
    BY <1>1, <1>5, <1>8, TimesMonotone
  <2> QED
    BY <1>1, <2>1
<1>10. WorkerOf(U, t * L) \in Int /\ WorkerOf(U, t * L + L - 1) \in Int
  <2>1. t * L \in 0 .. U - 1 /\ t * L + L - 1 \in 0 .. U - 1
    BY <1>1, <1>6, <1>9
  <2>2. WorkerOf(U, t * L) \in Workers /\ WorkerOf(U, t * L + L - 1) \in Workers
    BY <1>1, <2>1, OwnerOfUnit
  <2> QED
    BY <2>2, <1>2 DEF Workers
<1>11. seg.to \in Nat /\ seg.from < seg.to /\ seg.to <= L
       /\ (seg.to = L \/ seg.to = from + (end - u))
       /\ seg.to <= from + (end - u)
  BY <1>1, <1>3, <1>5, <1>7 DEF Lesser, end, U
<1>12. seg \in SegmentRecord
  BY <1>2, <1>5, <1>6, <1>7, <1>10, <1>11 DEF SegmentRecord
<1>13. from = 0 \/ t * L + from = RangeBegin(U, w)
  BY <1>5, <1>6 DEF from, L, U
<1>14. WholePart(seg, w)
  <2>1. seg.phase = p /\ seg.task = t /\ seg.from = from
    BY <1>7
  <2>2. Units(seg.phase) = U /\ PerTask(seg.phase) = L
    BY <2>1 DEF U, L
  <2>3. seg.to = L \/ t * L + seg.to = end
    BY <1>1, <1>3, <1>5, <1>6, <1>11
  <2>4. t * L + seg.to <= end
    BY <1>1, <1>3, <1>5, <1>6, <1>11
  <2>5. RangeBegin(U, w) <= t * L + from
    BY <1>5, <1>6 DEF U
  <2>6. /\ seg.first = WorkerOf(U, t * L)
        /\ seg.split = w - seg.first
        /\ seg.of = WorkerOf(U, t * L + L - 1) - seg.first + 1
    BY <1>7
  <2> QED
    BY <1>9, <1>11, <1>13, <2>1, <2>2, <2>3, <2>4, <2>5, <2>6 DEF WholePart, end
<1>15. u + (seg.to - seg.from) \in u .. end
  BY <1>3, <1>5, <1>7, <1>11
<1>16. u + (seg.to - seg.from) = end \/ (u + (seg.to - seg.from)) % L = 0
  <2>1. CASE seg.to = from + (end - u)
    BY <1>3, <1>5, <1>7, <2>1
  <2>2. CASE seg.to = L
    <3>1. u + (seg.to - seg.from) = L * (t + 1)
      BY <1>1, <1>5, <1>7, <2>2
    <3>2. (L * (t + 1)) % L = 0
      BY <1>1, <1>5
    <3> QED
      BY <3>1, <3>2
  <2> QED
    BY <1>11, <2>1, <2>2
<1> QED
  BY <1>12, <1>14, <1>15, <1>16 DEF SoundSegments, seg, end, U, L

\* Two parts of one tile agree on it and are parts of different workers.
LEMMA PartsAgree ==
  ASSUME NEW a \in SoundSegments, NEW b \in SoundSegments,
         a.phase = b.phase, a.task = b.task, a # b
  PROVE  /\ a.first = b.first /\ a.of = b.of
         /\ a.split # b.split
         /\ a.split < b.split => a.to <= b.from
<1>1. PICK v \in Workers : WholePart(a, v)
  BY DEF SoundSegments
<1>2. PICK w \in Workers : WholePart(b, w)
  BY DEF SoundSegments
<1>3. a \in SegmentRecord /\ b \in SegmentRecord
  BY DEF SoundSegments
<1> DEFINE U == Units(a.phase)
           L == PerTask(a.phase)
           start == a.task * L
<1>4. v \in Nat /\ w \in Nat
  BY PartitionAssumption DEF Workers
<1>5. U \in Nat /\ L \in Nat \ {0} /\ start \in Nat
  <2>1. a.phase \in Phases /\ a.task \in Nat
    BY <1>3 DEF SegmentRecord
  <2>2. U \in Nat /\ L \in Nat \ {0}
    BY <2>1, Sizes
  <2> HIDE DEF L
  <2> QED
    BY <2>1, <2>2
<1>6. /\ a.from \in Nat /\ a.to \in Nat /\ b.from \in Nat /\ b.to \in Nat
      /\ a.first \in Int /\ a.split \in Int /\ b.first \in Int /\ b.split \in Int
  BY <1>3 DEF SegmentRecord
<1>7. /\ a.from < a.to /\ a.to <= L
      /\ a.from = 0 \/ start + a.from = RangeBegin(U, v)
      /\ a.to = L \/ start + a.to = RangeEnd(U, v)
      /\ RangeBegin(U, v) <= start + a.from
      /\ start + a.to <= RangeEnd(U, v)
      /\ a.first = WorkerOf(U, start)
      /\ a.split = v - a.first
      /\ a.of = WorkerOf(U, start + L - 1) - a.first + 1
  BY <1>1 DEF WholePart
<1>8. /\ b.from < b.to /\ b.to <= L
      /\ b.from = 0 \/ start + b.from = RangeBegin(U, w)
      /\ b.to = L \/ start + b.to = RangeEnd(U, w)
      /\ RangeBegin(U, w) <= start + b.from
      /\ start + b.to <= RangeEnd(U, w)
      /\ b.first = WorkerOf(U, start)
      /\ b.split = w - b.first
      /\ b.of = WorkerOf(U, start + L - 1) - b.first + 1
  BY <1>2 DEF WholePart
<1> HIDE DEF U, L, start
<1>9. /\ RangeBegin(U, v) \in Nat /\ RangeEnd(U, v) \in Nat
      /\ RangeBegin(U, w) \in Nat /\ RangeEnd(U, w) \in Nat
  BY <1>4, <1>5, RangesAdjacent
<1>10. a.first = b.first /\ a.of = b.of
  BY <1>7, <1>8
<1>11. v # w
  <2>1. SUFFICES ASSUME v = w PROVE FALSE
    OBVIOUS
  <2>2. a.from = b.from
    BY <1>5, <1>6, <1>7, <1>8, <1>9, <2>1
  <2>3. a.to = b.to
    BY <1>5, <1>6, <1>7, <1>8, <1>9, <2>1
  <2>4. a.split = b.split
    BY <1>7, <1>8, <1>10, <2>1
  <2>5. a = b
    BY <1>3, <1>10, <2>2, <2>3, <2>4 DEF SegmentRecord
  <2> QED
    BY <2>5
<1>12. a.split # b.split
  BY <1>4, <1>6, <1>7, <1>8, <1>10, <1>11
<1>13. ASSUME a.split < b.split PROVE a.to <= b.from
  <2>1. v < w
    BY <1>4, <1>6, <1>7, <1>8, <1>10, <1>13
  <2>2. RangeEnd(U, v) <= RangeBegin(U, w)
    BY <1>4, <1>5, <2>1, RangesOrdered
  <2> QED
    BY <1>5, <1>6, <1>7, <1>8, <1>9, <2>2
<1> QED
  BY <1>10, <1>12, <1>13

\* Two shared tiles of a phase never put partial sums in the same slot: a
\* worker starts at most one tile it does not complete and continues at most
\* one that another worker started.
LEMMA SlotsDisjoint ==
  ASSUME NEW a \in SoundSegments, NEW b \in SoundSegments,
         a.phase = b.phase, a.of > 1, b.of > 1,
         SlotOf(a.first, a.split) = SlotOf(b.first, b.split)
  PROVE  a.task = b.task /\ a.split = b.split
<1>1. PICK v \in Workers : WholePart(a, v)
  BY DEF SoundSegments
<1>2. PICK w \in Workers : WholePart(b, w)
  BY DEF SoundSegments
<1>3. a \in SegmentRecord /\ b \in SegmentRecord
  BY DEF SoundSegments
<1> DEFINE U == Units(a.phase)
           L == PerTask(a.phase)
<1>4. v \in Nat /\ w \in Nat
  BY PartitionAssumption DEF Workers
<1>5. U \in Nat /\ L \in Nat \ {0} /\ a.task \in Nat /\ b.task \in Nat
  <2>1. a.phase \in Phases /\ a.task \in Nat /\ b.task \in Nat
    BY <1>3 DEF SegmentRecord
  <2> QED
    BY <2>1, Sizes
<1>6. /\ a.first \in Int /\ a.split \in Int /\ a.of \in Int
      /\ b.first \in Int /\ b.split \in Int /\ b.of \in Int
  BY <1>3 DEF SegmentRecord
<1>7. a.split = v - a.first /\ b.split = w - b.first
  BY <1>1, <1>2 DEF WholePart
<1>8. v = w /\ (a.split = 0 <=> b.split = 0)
  <2>1. a.first + a.split = b.first + b.split
    BY DEF SlotOf
  <2>2. (IF a.split = 0 THEN 0 ELSE 1) = (IF b.split = 0 THEN 0 ELSE 1)
    BY DEF SlotOf
  <2> QED
    BY <1>4, <1>6, <1>7, <2>1, <2>2
\* The same for a and b: where worker v begins and ends relative to the tile.
<1>9. ASSUME NEW s \in SoundSegments, s.phase = a.phase, s.of > 1, WholePart(s, v)
      PROVE  /\ s.task \in Nat
             /\ s.task * L \in Nat
             /\ RangeBegin(U, v) \in Nat /\ RangeEnd(U, v) \in Nat
             /\ s.task * L < RangeEnd(U, v)
             /\ s.task * L + L > RangeBegin(U, v)
             /\ s.split = 0 => /\ RangeBegin(U, v) <= s.task * L
                               /\ RangeEnd(U, v) < s.task * L + L
             /\ s.split # 0 => s.task * L < RangeBegin(U, v)
  <2> DEFINE start == s.task * L
             last == start + L - 1
  <2>1. s \in SegmentRecord
    BY <1>9 DEF SoundSegments
  <2>2. /\ s.task \in Nat /\ s.from \in Nat /\ s.to \in Nat
        /\ s.first \in Int /\ s.split \in Int /\ s.of \in Int
    BY <2>1 DEF SegmentRecord
  <2>3. start \in Nat
    <3> HIDE DEF L
    <3> QED
      BY <1>5, <2>2
  <2>4. /\ start + L <= U
        /\ s.from < s.to /\ s.to <= L
        /\ RangeBegin(U, v) <= start + s.from
        /\ start + s.to <= RangeEnd(U, v)
        /\ s.first = WorkerOf(U, start)
        /\ s.split = v - s.first
        /\ s.of = WorkerOf(U, last) - s.first + 1
    BY <1>9 DEF WholePart
  <2> HIDE DEF U, L, start
  <2>5. RangeBegin(U, v) \in Nat /\ RangeEnd(U, v) \in Nat
    BY <1>4, <1>5, RangesAdjacent
  <2>6. start \in 0 .. U - 1 /\ last \in 0 .. U - 1
    BY <1>5, <2>3, <2>4
  <2>7. /\ s.first \in Workers
        /\ RangeBegin(U, s.first) <= start /\ start < RangeEnd(U, s.first)
        /\ WorkerOf(U, last) \in Workers
        /\ RangeBegin(U, WorkerOf(U, last)) <= last
        /\ last < RangeEnd(U, WorkerOf(U, last))
    BY <1>5, <2>4, <2>6, OwnerOfUnit
  <2>8. s.first \in Nat /\ WorkerOf(U, last) \in Nat
    BY <2>7, PartitionAssumption DEF Workers
  <2>9. start < RangeEnd(U, v) /\ start + L > RangeBegin(U, v)
    BY <1>5, <2>2, <2>3, <2>4, <2>5
  <2>10. ASSUME s.split = 0 PROVE RangeBegin(U, v) <= start /\ RangeEnd(U, v) < start + L
    <3>1. s.first = v
      BY <1>4, <2>2, <2>4, <2>10
    <3>2. v < WorkerOf(U, last)
      BY <1>4, <1>9, <2>2, <2>4, <2>8, <3>1
    <3>3. RangeEnd(U, v) <= RangeBegin(U, WorkerOf(U, last))
      BY <1>4, <1>5, <2>8, <3>2, RangesOrdered
    <3>4. RangeBegin(U, WorkerOf(U, last)) \in Nat
      BY <1>5, <2>8, RangesAdjacent
    <3> QED
      BY <1>5, <2>3, <2>5, <2>7, <3>1, <3>3, <3>4
  <2>11. ASSUME s.split # 0 PROVE start < RangeBegin(U, v)
    <3>1. v # s.first
      BY <1>4, <2>2, <2>4, <2>11
    <3>2. start >= RangeEnd(U, v) \/ start < RangeBegin(U, v)
      BY <1>4, <1>5, <2>3, <2>5, <2>7, <2>8, <3>1, OneOwner
    <3> QED
      BY <2>3, <2>5, <2>9, <3>2
  <2> QED
    BY <2>2, <2>3, <2>5, <2>9, <2>10, <2>11 DEF start
\* Whole tiles apart, both tiles cannot straddle the same end of the range.
<1>10. ASSUME NEW x \in Nat, NEW y \in Nat, x < y PROVE x * L + L <= y * L
  <2> HIDE DEF L
  <2>1. (x + 1) * L <= y * L /\ (x + 1) * L = x * L + L
    BY <1>5, <1>10, TimesMonotone
  <2> QED
    BY <2>1
<1> HIDE DEF U, L
<1>11. WholePart(a, v) /\ WholePart(b, v)
  BY <1>1, <1>2, <1>8
<1>12. ~(a.task < b.task)
  BY <1>5, <1>8, <1>9, <1>10, <1>11
<1>13. ~(b.task < a.task)
  BY <1>5, <1>8, <1>9, <1>10, <1>11
<1>14. a.task = b.task
  BY <1>5, <1>12, <1>13
<1>15. a.first = b.first
  BY <1>1, <1>2, <1>14 DEF WholePart
<1> QED
  BY <1>7, <1>8, <1>14, <1>15

-----------------------------------------------------------------------------
LEMMA MailboxFacts ==
  ASSUME NEW S, NEW m \in Seq(S), NEW x \in S
  PROVE  /\ Append(m, x) \in Seq(S)
         /\ m # <<>> => Head(m) \in S /\ Tail(m) \in Seq(S)
  OBVIOUS

LEMMA MathStateFacts ==
  /\ NoSegment \in MathStates
  /\ \A m \in MathStates : \A pc \in Pcs : [m EXCEPT !.pc = pc] \in MathStates
  /\ \A t \in Tasks : \A pc \in Pcs : [pc |-> pc, seg |-> t] \in MathStates
<1>1. NoSegment \in MathStates
  <2>1. None \in Tasks
    BY DEF Tasks
  <2>2. "get" \in Pcs
    BY DEF Pcs
  <2> QED
    BY <2>1, <2>2 DEF MathStates, NoSegment
<1>2. ASSUME NEW m \in MathStates, NEW pc \in Pcs
      PROVE  [m EXCEPT !.pc = pc] \in MathStates
  BY DEF MathStates
<1>3. ASSUME NEW t \in Tasks, NEW pc \in Pcs
      PROVE  [pc |-> pc, seg |-> t] \in MathStates
  BY DEF MathStates
<1> QED
  BY <1>1, <1>2, <1>3

LEMMA InitInv == Init => IInv
<1> SUFFICES ASSUME Init PROVE IInv
  OBVIOUS
<1>1. mail \in [SMs -> Seq(Tasks)]
  BY DEF Init
<1>2. math \in [SMs -> MathStates]
  BY MathStateFacts DEF Init
<1>3. \A c \in SMs : state[c] # 1 /\ state[c] # 3
  BY DEF Init
<1> QED
  BY <1>1, <1>2, <1>3 DEF Init, IInv

LEMMA ClaimInv == ASSUME IInv, NEW c \in SMs, ClaimRange(c) PROVE IInv'
<1> USE DEF IInv
<1>p. PICK p \in Phases : p = IF state[c] = 2 THEN 2 ELSE 1
  BY DEF Phases
<1>1. PICK w \in Nat : w = taskCount[p]
  OBVIOUS
<1>2. /\ taskCount' = [taskCount EXCEPT ![p] = @ + 1]
      /\ worker' = [worker EXCEPT ![c] = w]
      /\ mail' = mail /\ math' = math
      /\ state[c] \in {0, 2}
  BY <1>p, <1>1 DEF ClaimRange, tileVars
<1>3. CASE w < NumSMs
  <2>1. /\ unit' = [unit EXCEPT ![c] = RangeBegin(Units(p), w)]
        /\ unitEnd' = [unitEnd EXCEPT ![c] = RangeEnd(Units(p), w)]
        /\ state' = [state EXCEPT ![c] = @ + 1]
    BY <1>p, <1>1, <1>3 DEF ClaimRange
  <2>2. Units(p) \in Nat
    BY <1>1, Sizes
  <2>3. /\ RangeBegin(Units(p), w) \in Nat /\ RangeEnd(Units(p), w) \in Nat
        /\ RangeBegin(Units(p), w) <= RangeEnd(Units(p), w)
    BY <1>1, <2>2, RangesAdjacent
  <2>4. w \in Workers
    BY <1>1, <1>3, PartitionAssumption DEF Workers
  <2>5. state'[c] = (IF p = 2 THEN 3 ELSE 1)
    BY <1>p, <1>2, <2>1
  <2>6. /\ worker'[c] = w
        /\ unit'[c] = RangeBegin(Units(p), w)
        /\ unitEnd'[c] = RangeEnd(Units(p), w)
    BY <1>2, <2>1
  <2>7. InRange(c, p)'
    BY <2>3, <2>4, <2>6 DEF InRange
  <2>8. \A d \in SMs : /\ state'[d] = 1 => InRange(d, 1)'
                       /\ state'[d] = 3 => InRange(d, 2)'
    <3> TAKE d \in SMs
    <3>1. CASE d = c
      BY <1>p, <2>5, <2>7, <3>1
    <3>2. CASE d # c
      <4>1. /\ state'[d] = state[d] /\ worker'[d] = worker[d]
            /\ unit'[d] = unit[d] /\ unitEnd'[d] = unitEnd[d]
        BY <1>2, <2>1, <3>2
      <4> QED
        BY <4>1 DEF InRange
    <3> QED
      BY <3>1, <3>2
  <2>9. state' \in [SMs -> 0 .. 5]
    BY <1>2, <2>1
  <2> QED
    BY <1>1, <1>2, <2>1, <2>3, <2>8, <2>9
<1>4. CASE ~(w < NumSMs)
  <2>1. /\ state' = [state EXCEPT ![c] = @ + 2]
        /\ UNCHANGED <<unit, unitEnd>>
    BY <1>p, <1>1, <1>4 DEF ClaimRange
  <2>2. state' \in [SMs -> 0 .. 5] /\ state'[c] \in {2, 4}
    BY <1>2, <2>1
  <2>3. \A d \in SMs : /\ state'[d] = 1 => InRange(d, 1)'
                       /\ state'[d] = 3 => InRange(d, 2)'
    <3> TAKE d \in SMs
    <3>1. CASE d = c
      BY <2>2, <3>1
    <3>2. CASE d # c
      <4>1. /\ state'[d] = state[d] /\ worker'[d] = worker[d]
            /\ unit'[d] = unit[d] /\ unitEnd'[d] = unitEnd[d]
        BY <1>2, <2>1, <3>2
      <4> QED
        BY <4>1 DEF InRange
    <3> QED
      BY <3>1, <3>2
  <2> QED
    BY <1>1, <1>2, <2>1, <2>2, <2>3
<1> QED
  BY <1>3, <1>4

LEMMA NextSegmentInv == ASSUME IInv, NEW c \in SMs, NextSegment(c) PROVE IInv'
<1> USE DEF IInv
<1>1. PICK p \in Phases : p = IF state[c] = 3 THEN 2 ELSE 1
  BY DEF Phases
<1>e. PICK end : end = RangeEnd(Units(p), worker[c])
  OBVIOUS
<1>s. PICK seg :
        seg = Segment(p, Units(p), PerTask(p), worker[c], unit[c], unitEnd[c])
  OBVIOUS
<1>n. PICK next : next = unit[c] + (seg.to - seg.from)
  OBVIOUS
<1>2. /\ taskCount' = taskCount /\ worker' = worker /\ unitEnd' = unitEnd
      /\ math' = math
      /\ state[c] \in {1, 3}
  BY DEF NextSegment, tileVars
<1>3. InRange(c, p)
  BY <1>1, <1>2
<1>4. CASE unit[c] < unitEnd[c]
  <2>1. /\ mail' = [mail EXCEPT ![c] = Append(@, seg)]
        /\ unit' = [unit EXCEPT ![c] = next]
        /\ state' = state
    BY <1>1, <1>s, <1>n, <1>4 DEF NextSegment
  <2>2. /\ worker[c] \in Workers /\ unitEnd[c] = end /\ unit[c] \in Nat
        /\ RangeBegin(Units(p), worker[c]) <= unit[c] /\ unit[c] < end
        /\ unit[c] = RangeBegin(Units(p), worker[c]) \/ unit[c] % PerTask(p) = 0
        /\ end \in Nat /\ RangeBegin(Units(p), worker[c]) \in Nat
    <3>1. worker[c] \in Nat /\ unit[c] \in Nat /\ Units(p) \in Nat
      BY <1>1, Sizes
    <3>2. end \in Nat /\ RangeBegin(Units(p), worker[c]) \in Nat
      BY <1>e, <3>1, RangesAdjacent
    <3> QED
      BY <1>e, <1>3, <1>4, <3>1, <3>2 DEF InRange
  <2>3. seg = Segment(p, Units(p), PerTask(p), worker[c], unit[c], end)
    BY <1>s, <2>2
  <2>4. /\ seg \in SoundSegments
        /\ unit[c] + (seg.to - seg.from) \in unit[c] .. end
        /\ \/ unit[c] + (seg.to - seg.from) = end
           \/ (unit[c] + (seg.to - seg.from)) % PerTask(p) = 0
    BY <1>e, <2>2, <2>3, SegmentSound
  <2>5. /\ next \in unit[c] .. end
        /\ next = end \/ next % PerTask(p) = 0
    BY <1>n, <2>4
  <2>6. next \in Nat
    BY <2>2, <2>5
  <2>7. mail' \in [SMs -> Seq(Tasks)]
    <3>1. seg \in Tasks
      BY <2>4 DEF Tasks
    <3>2. Append(mail[c], seg) \in Seq(Tasks)
      BY <3>1, MailboxFacts
    <3> QED
      BY <2>1, <3>2
  <2>8. unit' \in [SMs -> Nat]
    BY <2>1, <2>6
  <2>9. InRange(c, p)'
    <3>1. worker'[c] = worker[c] /\ unitEnd'[c] = end /\ unit'[c] = next
      BY <1>2, <2>1, <2>2
    <3>2. next \in RangeBegin(Units(p), worker[c]) .. end
      BY <2>2, <2>5
    <3> QED
      BY <1>e, <2>2, <2>5, <3>1, <3>2 DEF InRange
  <2>10. \A d \in SMs : /\ state'[d] = 1 => InRange(d, 1)'
                        /\ state'[d] = 3 => InRange(d, 2)'
    <3> TAKE d \in SMs
    <3>1. CASE d = c
      BY <1>1, <1>2, <2>1, <2>9, <3>1
    <3>2. CASE d # c
      <4>1. /\ state'[d] = state[d] /\ worker'[d] = worker[d]
            /\ unit'[d] = unit[d] /\ unitEnd'[d] = unitEnd[d]
        BY <1>2, <2>1, <3>2
      <4> QED
        BY <4>1 DEF InRange
    <3> QED
      BY <3>1, <3>2
  <2> QED
    BY <1>2, <2>1, <2>7, <2>8, <2>10
<1>5. CASE ~(unit[c] < unitEnd[c])
  <2>1. /\ state' = [state EXCEPT ![c] = @ + 1]
        /\ UNCHANGED <<mail, unit>>
    BY <1>5 DEF NextSegment
  <2>2. state' \in [SMs -> 0 .. 5] /\ state'[c] \in {2, 4}
    BY <1>2, <2>1
  <2>3. \A d \in SMs : /\ state'[d] = 1 => InRange(d, 1)'
                       /\ state'[d] = 3 => InRange(d, 2)'
    <3> TAKE d \in SMs
    <3>1. CASE d = c
      BY <2>2, <3>1
    <3>2. CASE d # c
      <4>1. /\ state'[d] = state[d] /\ worker'[d] = worker[d]
            /\ unit'[d] = unit[d] /\ unitEnd'[d] = unitEnd[d]
        BY <1>2, <2>1, <3>2
      <4> QED
        BY <4>1 DEF InRange
    <3> QED
      BY <3>1, <3>2
  <2> QED
    BY <1>2, <2>1, <2>2, <2>3
<1> QED
  BY <1>4, <1>5

LEMMA StopInv == ASSUME IInv, NEW c \in SMs, Stop(c) PROVE IInv'
<1> USE DEF IInv
<1>1. /\ mail' = [mail EXCEPT ![c] = Append(@, None)]
      /\ state' = [state EXCEPT ![c] = 5]
      /\ UNCHANGED <<taskCount, worker, unit, unitEnd, math>>
  BY DEF Stop, tileVars
<1>2. Append(mail[c], None) \in Seq(Tasks)
  BY MailboxFacts DEF Tasks
<1>3. mail' \in [SMs -> Seq(Tasks)]
  BY <1>1, <1>2
<1>4. \A d \in SMs : /\ state'[d] = 1 => InRange(d, 1)'
                     /\ state'[d] = 3 => InRange(d, 2)'
  BY <1>1 DEF InRange
<1> QED
  BY <1>1, <1>3, <1>4

\* The math warps drop segments and change what they do with one, no more.
LEMMA MathInv == ASSUME IInv, NEW c \in SMs, MathStep(c) PROVE IInv'
<1> USE DEF IInv
<1>1. UNCHANGED producerVars
  BY DEF MathStep, Gemm, StorePartial, TakeTicket, ResetCounter, Epilogue
<1>2. /\ mail' \in [SMs -> Seq(Tasks)]
      /\ math' \in [SMs -> MathStates]
  <2>1. CASE Gemm(c)
    <3>1. /\ mail[c] # <<>>
          /\ mail' = [mail EXCEPT ![c] = Tail(@)]
          /\ math' = [math EXCEPT ![c] =
                        [pc |-> IF Head(mail[c]).of > 1 THEN "store" ELSE "epilogue",
                         seg |-> Head(mail[c])]]
      BY <2>1 DEF Gemm
    <3>2. /\ Head(mail[c]) \in Tasks
          /\ Tail(mail[c]) \in Seq(Tasks)
      BY <3>1, MailboxFacts
    <3>3. (IF Head(mail[c]).of > 1 THEN "store" ELSE "epilogue") \in Pcs
      BY DEF Pcs
    <3>4. [pc |-> IF Head(mail[c]).of > 1 THEN "store" ELSE "epilogue",
           seg |-> Head(mail[c])] \in MathStates
      BY <3>2, <3>3, MathStateFacts
    <3> QED
      BY <3>1, <3>2, <3>4
  <2>2. CASE StorePartial(c)
    <3>1. mail' = mail /\ math' = [math EXCEPT ![c] = [math[c] EXCEPT !.pc = "ticket"]]
      BY <2>2 DEF StorePartial
    <3>2. [math[c] EXCEPT !.pc = "ticket"] \in MathStates
      BY MathStateFacts DEF Pcs
    <3> QED
      BY <3>1, <3>2
  <2>3. CASE TakeTicket(c)
    <3>1. PICK m : /\ m = NoSegment \/ m = [math[c] EXCEPT !.pc = "reset"]
                   /\ mail' = mail /\ math' = [math EXCEPT ![c] = m]
      BY <2>3 DEF TakeTicket
    <3>2. m \in MathStates
      BY <3>1, MathStateFacts DEF Pcs
    <3> QED
      BY <3>1, <3>2
  <2>4. CASE ResetCounter(c)
    <3>1. mail' = mail /\ math' = [math EXCEPT ![c] = [math[c] EXCEPT !.pc = "epilogue"]]
      BY <2>4 DEF ResetCounter
    <3>2. [math[c] EXCEPT !.pc = "epilogue"] \in MathStates
      BY MathStateFacts DEF Pcs
    <3> QED
      BY <3>1, <3>2
  <2>5. CASE Epilogue(c)
    BY <2>5, MathStateFacts DEF Epilogue
  <2> QED
    BY <2>1, <2>2, <2>3, <2>4, <2>5 DEF MathStep
<1> QED
  BY <1>1, <1>2 DEF producerVars, InRange

LEMMA StepInv == IInv /\ [Next]_vars => IInv'
<1> SUFFICES ASSUME IInv, [Next]_vars PROVE IInv'
  OBVIOUS
<1>1. CASE \E c \in SMs : ProducerStep(c)
  BY <1>1, ClaimInv, NextSegmentInv, StopInv DEF ProducerStep
<1>2. CASE \E c \in SMs : MathStep(c)
  BY <1>2, MathInv
<1>3. CASE UNCHANGED vars
  BY <1>3 DEF vars, producerVars, IInv, InRange
<1> QED
  BY <1>1, <1>2, <1>3 DEF Next, Finished

LEMMA HandedSound == ASSUME IInv, NEW a \in Handed PROVE a \in SoundSegments
<1>1. a # None
  BY DEF Handed
<1>2. CASE a \in { math[c].seg : c \in SMs }
  BY <1>1, <1>2 DEF IInv, Tasks, MathStates
<1>3. CASE a \in UNION { { mail[c][i] : i \in 1 .. Len(mail[c]) } : c \in SMs }
  <2>1. PICK c \in SMs : a \in { mail[c][i] : i \in 1 .. Len(mail[c]) }
    BY <1>3
  <2>2. PICK i \in 1 .. Len(mail[c]) : a = mail[c][i]
    BY <2>1
  <2>3. mail[c] \in Seq(Tasks)
    BY DEF IInv
  <2>4. mail[c][i] \in Tasks
    BY <2>2, <2>3
  <2> QED
    BY <1>1, <2>2, <2>4 DEF Tasks
<1> QED
  BY <1>2, <1>3 DEF Handed

\* Segments of one tile in flight agree on how many workers contribute to it
\* and on their numbering, and cover disjoint units of it, in the order of
\* their numbers (make_streamk_segment, get_streamk_worker_of_unit).
THEOREM ContributorsAgree == Spec => []SegmentsAgree
<1>1. IInv => SegmentsAgree
  BY HandedSound, PartsAgree DEF SegmentsAgree
<1> QED
  BY <1>1, InitInv, StepInv, PTL DEF Spec

\* Two scratch slots per worker are enough: no two shared tiles in flight put
\* partial sums in the same slot (the reduction in the math warps).
THEOREM SlotsNeverShared == Spec => []SlotsApart
<1>1. IInv => SlotsApart
  BY HandedSound, SlotsDisjoint DEF SlotsApart
<1> QED
  BY <1>1, InitInv, StepInv, PTL DEF Spec

-----------------------------------------------------------------------------
(***************************************************************************)
(* Where each part of a tile is: not yet published, in a mailbox, with the *)
(* math warps of a CTA, or done.  The parts are numbered by their workers. *)
(***************************************************************************)
Owner(s) == s.first + s.split
StartOf(s) == s.task * PerTask(s.phase) + s.from

Tile(p, t) == { s \in SoundSegments : s.phase = p /\ s.task = t }
FirstOf(p, t) == WorkerOf(Units(p), t * PerTask(p))
LastOf(p, t) == WorkerOf(Units(p), t * PerTask(p) + PerTask(p) - 1)
Of(p, t) == LastOf(p, t) - FirstOf(p, t) + 1

\* The units of a tile, and the workers that own the first and the last one.
LEMMA TileUnits ==
  ASSUME NEW p \in Phases, NEW t \in Nat,
         t * PerTask(p) + PerTask(p) <= Units(p)
  PROVE  /\ t * PerTask(p) \in Nat
         /\ FirstOf(p, t) \in Nat /\ LastOf(p, t) \in Nat
         /\ FirstOf(p, t) < NumSMs /\ LastOf(p, t) < NumSMs /\ NumSMs \in Nat \ {0}
         /\ RangeBegin(Units(p), FirstOf(p, t)) <= t * PerTask(p)
         /\ t * PerTask(p) < RangeEnd(Units(p), FirstOf(p, t))
         /\ RangeBegin(Units(p), LastOf(p, t)) <= t * PerTask(p) + PerTask(p) - 1
         /\ t * PerTask(p) + PerTask(p) - 1 < RangeEnd(Units(p), LastOf(p, t))
         /\ FirstOf(p, t) <= LastOf(p, t)
<1> DEFINE L == PerTask(p)
           U == Units(p)
           f == FirstOf(p, t)
           l == LastOf(p, t)
<1>1. L \in Nat \ {0} /\ U \in Nat /\ NumSMs \in Nat \ {0}
  BY Sizes, PartitionAssumption
<1>2. t * L \in Nat
  <2> HIDE DEF L
  <2> QED
    BY <1>1
<1>3. t * L \in 0 .. U - 1 /\ t * L + L - 1 \in 0 .. U - 1
  <2> HIDE DEF L, U
  <2>1. t * L + L <= U
    BY DEF L, U
  <2> QED
    BY <1>1, <1>2, <2>1
<1>4. /\ f \in Workers /\ RangeBegin(U, f) <= t * L /\ t * L < RangeEnd(U, f)
      /\ l \in Workers /\ RangeBegin(U, l) <= t * L + L - 1 /\ t * L + L - 1 < RangeEnd(U, l)
  BY <1>1, <1>3, OwnerOfUnit DEF FirstOf, LastOf
<1>5. f \in Nat /\ l \in Nat /\ f < NumSMs /\ l < NumSMs
  BY <1>1, <1>4 DEF Workers
<1>6. f <= l
  <2>1. l < f => RangeEnd(U, l) <= RangeBegin(U, f)
    BY <1>1, <1>5, RangesOrdered
  <2>2. RangeEnd(U, l) \in Nat /\ RangeBegin(U, f) \in Nat
    BY <1>1, <1>5, RangesAdjacent
  <2> HIDE DEF L, U, f, l
  <2> QED
    BY <1>1, <1>2, <1>4, <1>5, <2>1, <2>2
<1> QED
  BY <1>1, <1>2, <1>4, <1>5, <1>6

\* What a part says of itself.
LEMMA PartFacts ==
  ASSUME NEW s \in SoundSegments
  PROVE  /\ s.phase \in Phases /\ s.task \in Nat /\ s.from \in Nat /\ s.to \in Nat
         /\ s.first \in Nat /\ s.split \in Int /\ s.of \in Int
         /\ s.first = FirstOf(s.phase, s.task) /\ s.of = Of(s.phase, s.task)
         /\ Owner(s) \in Workers /\ WholePart(s, Owner(s))
         /\ s.task < NumTasks(s.phase)
         /\ StartOf(s) \in Nat
         /\ s.split \in 0 .. s.of - 1
<1>1. PICK w \in Workers : WholePart(s, w)
  BY DEF SoundSegments
<1>2. /\ s.phase \in Phases /\ s.task \in Nat /\ s.from \in Nat /\ s.to \in Nat
      /\ s.first \in Int /\ s.split \in Int /\ s.of \in Int
  BY DEF SoundSegments, SegmentRecord
<1>3. w \in Nat /\ NumSMs \in Nat \ {0} /\ w < NumSMs
  BY PartitionAssumption DEF Workers
<1>4. Owner(s) = w
  BY <1>1, <1>2, <1>3 DEF Owner, WholePart
<1> DEFINE p == s.phase
           t == s.task
           L == PerTask(p)
           U == Units(p)
           f == FirstOf(p, t)
           l == LastOf(p, t)
<1>5. /\ s.first = f /\ s.of = Of(p, t) /\ s.split = w - f
      /\ t * L + L <= U
      /\ s.from < s.to /\ s.to <= L
      /\ RangeBegin(U, w) <= t * L + s.from
      /\ t * L + s.to <= RangeEnd(U, w)
  BY <1>1 DEF WholePart, Of, FirstOf, LastOf
<1>6. /\ t * L \in Nat /\ f \in Nat /\ l \in Nat
      /\ t * L < RangeEnd(U, f) /\ RangeBegin(U, l) <= t * L + L - 1
  BY <1>2, <1>5, TileUnits
<1>7. L \in Nat \ {0} /\ U \in Nat /\ NumTasks(p) \in Nat /\ U = NumTasks(p) * L
  BY <1>2, Sizes
<1>8. t < NumTasks(p)
  <2>1. t * L < NumTasks(p) * L
    <3> HIDE DEF L, U
    <3> QED
      BY <1>5, <1>6, <1>7
  <2>2. L \in Nat
    BY <1>7
  <2> QED
    BY <1>2, <1>7, <2>1, <2>2, TimesCancel
<1>9. StartOf(s) \in Nat
  <2>1. StartOf(s) = t * L + s.from
    BY DEF StartOf
  <2> QED
    BY <1>2, <1>6, <2>1
<1>10. f <= w /\ w <= l
  <2>1. w < f => RangeEnd(U, w) <= RangeBegin(U, f)
    BY <1>3, <1>6, <1>7, RangesOrdered
  <2>2. l < w => RangeEnd(U, l) <= RangeBegin(U, w)
    BY <1>3, <1>6, <1>7, RangesOrdered
  <2>3. /\ RangeEnd(U, w) \in Nat /\ RangeBegin(U, w) \in Nat
        /\ RangeEnd(U, l) \in Nat /\ RangeBegin(U, f) \in Nat
    BY <1>3, <1>6, <1>7, RangesAdjacent
  <2>4. RangeBegin(U, f) <= t * L /\ t * L + L - 1 < RangeEnd(U, l)
    BY <1>2, <1>5, TileUnits
  <2> HIDE DEF L, U, f, l
  <2>5. t * L < RangeEnd(U, w) /\ RangeBegin(U, w) <= t * L + L - 1
    BY <1>2, <1>5, <1>6, <1>7, <2>3
  <2> QED
    BY <1>3, <1>6, <1>7, <2>1, <2>2, <2>3, <2>4, <2>5
<1>11. s.split \in 0 .. s.of - 1
  <2>1. s.of = l - f + 1
    BY <1>5 DEF Of
  <2> HIDE DEF L, U, f, l
  <2> QED
    BY <1>3, <1>5, <1>6, <1>10, <2>1
<1> QED
  BY <1>1, <1>2, <1>4, <1>5, <1>6, <1>8, <1>9, <1>11

\* A worker has one part of a tile.
LEMMA OnePart ==
  ASSUME NEW a \in SoundSegments, NEW b \in SoundSegments,
         a.phase = b.phase, a.task = b.task, Owner(a) = Owner(b)
  PROVE  a = b
<1>1. SUFFICES ASSUME a # b PROVE FALSE
  OBVIOUS
<1>2. a.first = b.first /\ a.split # b.split
  BY <1>1, PartsAgree
<1>3. a.first \in Nat /\ a.split \in Int /\ b.split \in Int
  BY PartFacts
<1>4. a.first + a.split = a.first + b.split
  BY <1>2 DEF Owner
<1> QED
  BY <1>2, <1>3, <1>4

\* Each of the workers from the first to the last one has a part.
LEMMA EveryPart ==
  ASSUME NEW p \in Phases, NEW t \in Nat, t * PerTask(p) + PerTask(p) <= Units(p),
         NEW k \in 0 .. Of(p, t) - 1
  PROVE  \E s \in Tile(p, t) : s.split = k
<1> DEFINE L == PerTask(p)
           U == Units(p)
           f == FirstOf(p, t)
           l == LastOf(p, t)
           w == f + k
           start == t * L
           from == IF RangeBegin(U, w) <= start THEN 0 ELSE RangeBegin(U, w) - start
           to == IF RangeEnd(U, w) >= start + L THEN L ELSE RangeEnd(U, w) - start
           s == [phase |-> p, task |-> t, from |-> from, to |-> to,
                 first |-> f, split |-> k, of |-> Of(p, t)]
<1>1. /\ start \in Nat /\ f \in Nat /\ l \in Nat /\ f < NumSMs /\ l < NumSMs
      /\ NumSMs \in Nat \ {0}
      /\ RangeBegin(U, f) <= start /\ start < RangeEnd(U, f)
      /\ RangeBegin(U, l) <= start + L - 1 /\ start + L - 1 < RangeEnd(U, l)
      /\ f <= l
  BY TileUnits
<1>2. L \in Nat \ {0} /\ U \in Nat
  BY Sizes
<1>3. Of(p, t) = l - f + 1
  BY DEF Of
<1>4. start + L <= U
  OBVIOUS
<1> HIDE DEF L, U, f, l, start
<1>5. w \in Nat /\ f <= w /\ w <= l /\ k \in Nat /\ w \in Workers
  <2>1. w \in Nat /\ f <= w /\ w <= l /\ k \in Nat
    BY <1>1, <1>3
  <2> QED
    BY <1>1, <2>1 DEF Workers
<1> HIDE DEF w
<1>6. /\ RangeBegin(U, w) \in Nat /\ RangeEnd(U, w) \in Nat /\ RangeBegin(U, w) <= RangeEnd(U, w)
      /\ RangeBegin(U, f) \in Nat /\ RangeEnd(U, f) \in Nat
      /\ RangeBegin(U, l) \in Nat /\ RangeEnd(U, l) \in Nat
  BY <1>1, <1>2, <1>5, RangesAdjacent
\* Ranges are only empty beyond those that hold units.
<1>7. RangeBegin(U, w) < RangeEnd(U, w)
  <2>1. /\ RangeEnd(U, w) = RangeBegin(U, w) + Base(U) + (IF w < Rem(U) THEN 1 ELSE 0)
        /\ RangeEnd(U, l) = RangeBegin(U, l) + Base(U) + (IF l < Rem(U) THEN 1 ELSE 0)
    BY DEF RangeEnd
  <2>2. Base(U) \in Nat /\ Rem(U) \in Nat
    BY <1>2, BaseRem
  <2>3. RangeBegin(U, l) < RangeEnd(U, l)
    BY <1>1, <1>2, <1>6
  <2>4. Base(U) >= 1 \/ l < Rem(U)
    BY <1>6, <2>1, <2>2, <2>3
  <2> QED
    BY <1>1, <1>5, <1>6, <2>1, <2>2, <2>4
<1>8. RangeBegin(U, w) < start + L
  <2>1. CASE w = l
    BY <1>1, <1>2, <1>6, <2>1
  <2>2. CASE w # l
    <3>1. RangeEnd(U, w) <= RangeBegin(U, l)
      BY <1>1, <1>2, <1>5, <2>2, RangesOrdered
    <3> QED
      BY <1>1, <1>2, <1>6, <3>1
  <2> QED
    BY <2>1, <2>2
<1>9. start < RangeEnd(U, w)
  <2>1. CASE w = f
    BY <1>1, <2>1
  <2>2. CASE w # f
    <3>1. RangeEnd(U, f) <= RangeBegin(U, w)
      BY <1>1, <1>2, <1>5, <2>2, RangesOrdered
    <3> QED
      BY <1>1, <1>2, <1>6, <3>1
  <2> QED
    BY <2>1, <2>2
<1>10. /\ from \in Nat /\ to \in Nat /\ from < to /\ to <= L
       /\ from = 0 \/ start + from = RangeBegin(U, w)
       /\ to = L \/ start + to = RangeEnd(U, w)
       /\ RangeBegin(U, w) <= start + from
       /\ start + to <= RangeEnd(U, w)
  BY <1>1, <1>2, <1>6, <1>7, <1>8, <1>9
<1> HIDE DEF from, to
<1>11. s \in SegmentRecord
  <2>1. Of(p, t) \in Int
    BY <1>1, <1>3
  <2> QED
    BY <1>1, <1>5, <1>10, <2>1 DEF SegmentRecord
<1>12. WholePart(s, w)
  <2>1. /\ s.phase = p /\ s.task = t /\ s.from = from /\ s.to = to /\ s.first = f
        /\ s.split = k /\ s.of = Of(p, t)
    OBVIOUS
  <2> HIDE DEF s
  <2>2. Units(s.phase) = U /\ PerTask(s.phase) = L /\ s.task * PerTask(s.phase) = start
    BY <2>1 DEF U, L, start
  <2>3. s.first = WorkerOf(U, start)
    BY <2>1 DEF f, FirstOf, U, start, L
  <2>4. s.split = w - s.first
    BY <1>1, <1>5, <2>1 DEF w
  <2>5. s.of = WorkerOf(U, start + L - 1) - s.first + 1
    BY <1>3, <2>1 DEF l, LastOf, U, start, L
  <2> QED
    BY <1>4, <1>10, <2>1, <2>2, <2>3, <2>4, <2>5 DEF WholePart
<1>13. s \in Tile(p, t)
  BY <1>5, <1>11, <1>12 DEF SoundSegments, Tile
<1>14. s.split = k
  OBVIOUS
<1> QED
  BY <1>13, <1>14

\* So their number is what make_streamk_segment says.
LEMMA TileSize ==
  ASSUME NEW p \in Phases, NEW t \in 0 .. NumTasks(p) - 1
  PROVE  /\ t * PerTask(p) + PerTask(p) <= Units(p)
         /\ Of(p, t) \in Nat /\ Of(p, t) >= 1
         /\ IsFiniteSet(Tile(p, t)) /\ Cardinality(Tile(p, t)) = Of(p, t)
<1>1. t \in Nat /\ t * PerTask(p) + PerTask(p) <= Units(p)
  <2>1. /\ PerTask(p) \in Nat \ {0} /\ NumTasks(p) \in Nat
        /\ Units(p) = NumTasks(p) * PerTask(p)
    BY Sizes
  <2>2. t \in Nat /\ t + 1 <= NumTasks(p)
    BY <2>1
  <2>3. (t + 1) * PerTask(p) <= NumTasks(p) * PerTask(p)
    BY <2>1, <2>2, TimesMonotone
  <2>4. (t + 1) * PerTask(p) = t * PerTask(p) + PerTask(p)
    BY <2>1, <2>2
  <2> QED
    BY <2>1, <2>2, <2>3, <2>4
<1>2. Of(p, t) \in Nat /\ Of(p, t) >= 1
  <2>1. FirstOf(p, t) \in Nat /\ LastOf(p, t) \in Nat /\ FirstOf(p, t) <= LastOf(p, t)
    BY <1>1, TileUnits
  <2> QED
    BY <2>1 DEF Of
<1> DEFINE K == 0 .. Of(p, t) - 1
           T == Tile(p, t)
           g == [s \in T |-> s.split]
<1>3. \A s \in T : s.split \in K
  BY PartFacts DEF Tile
<1>4. \A a, b \in T : a.split = b.split => a = b
  BY PartsAgree DEF Tile
<1>5. \A k \in K : \E s \in T : s.split = k
  BY <1>1, EveryPart
<1> HIDE DEF K, T
<1>6. g \in Injection(T, K) /\ g \in Surjection(T, K)
  BY <1>3, <1>4, <1>5 DEF Injection, Surjection, IsInjective
<1>7. IsFiniteSet(K) /\ Cardinality(K) = Of(p, t)
  <2>1. 0 \in Int /\ Of(p, t) - 1 \in Int
    BY <1>2
  <2> QED
    BY <1>2, <2>1, FS_Interval DEF K
<1>8. IsFiniteSet(T) /\ Cardinality(T) = Cardinality(K)
  BY <1>6, <1>7, FS_Injection
<1> QED
  BY <1>1, <1>2, <1>7, <1>8 DEF T

-----------------------------------------------------------------------------
\* CTA c works on the range of worker[c] in phase p.
Claimed(c, p) == state[c] = 2 * p - 1
Past(p) == { c \in SMs : state[c] >= 2 * p - 1 }

\* Not yet published: nobody has claimed the worker's range, or the one who did
\* has not come so far.
Pending(s) ==
  \/ Owner(s) >= taskCount[s.phase]
  \/ \E c \in SMs : Claimed(c, s.phase) /\ worker[c] = Owner(s) /\ unit[c] <= StartOf(s)

\* Segment s is in place i of CTA c: 0 is the math warps', the others are the
\* mailbox's.
PlaceAt(c, i) == IF i = 0 THEN math[c].seg ELSE mail[c][i]
Holds(c, i, s) == i \in 0 .. Len(mail[c]) /\ PlaceAt(c, i) = s
InMath(c, pc, s) == math[c].pc = pc /\ math[c].seg = s

Queued(s) == Pending(s) \/ \E c \in SMs : \E i \in Nat \ {0} : Holds(c, i, s)
Unstored(s) == Queued(s) \/ \E c \in SMs : InMath(c, "store", s)
Early(s) == Unstored(s) \/ \E c \in SMs : InMath(c, "ticket", s)

Left(p, t) == { s \in Tile(p, t) : Early(s) }
Late(c, p, t) ==
  math[c].pc \in {"reset", "epilogue"} /\ math[c].seg.phase = p /\ math[c].seg.task = t

\* Each CTA claims one worker index of a phase.
Claims ==
  /\ \A p \in Phases : taskCount[p] = Cardinality(Past(p))
  /\ \A p \in Phases : \A c \in SMs : Claimed(c, p) => worker[c] < taskCount[p]
  /\ \A p \in Phases : \A c, d \in SMs :
       Claimed(c, p) /\ Claimed(d, p) /\ worker[c] = worker[d] => c = d

\* A part is in one place, and published when it is in one.
OnePlace ==
  \A s \in SoundSegments : \A c \in SMs : \A i \in Nat : Holds(c, i, s) =>
    /\ ~Pending(s)
    /\ \A d \in SMs : \A j \in Nat : Holds(d, j, s) => d = c /\ j = i

MathOk ==
  \A c \in SMs : /\ math[c].pc = "get" <=> math[c].seg = None
                 /\ math[c].pc \in {"store", "ticket", "reset"} => math[c].seg.of > 1

\* Nothing is published behind the sentinel.
Sentinel ==
  \A c \in SMs : \A i \in 1 .. Len(mail[c]) :
    mail[c][i] = None => i = Len(mail[c]) /\ state[c] = 5

\* Stored partial sums stay: no other part of the launch has their slot.
Kept ==
  \A s \in SoundSegments : s.of > 1 /\ ~Unstored(s) =>
    scratch[s.phase][SlotOf(s.first, s.split)] = [task |-> s.task, split |-> s.split]

\* The counter of a tile has the tickets of the parts that have none left to
\* draw, until the one that drew the last resets it and finishes the tile.
TileAt(p, t) ==
  \/ /\ Left(p, t) # {} /\ finished[p][t] = 0
     /\ counter[p][t] = Of(p, t) - Cardinality(Left(p, t))
     /\ \A c \in SMs : ~Late(c, p, t)
  \/ /\ Left(p, t) = {} /\ finished[p][t] = 0
     /\ \E c \in SMs :
          /\ Late(c, p, t)
          /\ \A d \in SMs : Late(d, p, t) => d = c
          /\ counter[p][t] = IF math[c].pc = "reset" THEN Of(p, t) ELSE 0
  \/ /\ Left(p, t) = {} /\ finished[p][t] = 1 /\ counter[p][t] = 0
     /\ \A c \in SMs : ~Late(c, p, t)
Tiles == \A p \in Phases : \A t \in 0 .. NumTasks(p) - 1 : TileAt(p, t)

\* A number for each task of each phase.
PerTile(f) ==
  /\ f = [p \in Phases |-> f[p]]
  /\ \A p \in Phases : f[p] \in [0 .. NumTasks(p) - 1 -> Int]

TileInv ==
  /\ IInv
  /\ PerTile(counter) /\ PerTile(finished)
  /\ scratch \in [Phases -> [Slots -> [task : Int, split : Int]]]
  /\ Claims /\ OnePlace /\ MathOk /\ Sentinel /\ Kept /\ Tiles

\* At the sum all other parts of the tile are stored.
LEMMA SumHolds == TileInv => SlotsHold
<1> SUFFICES ASSUME TileInv, NEW c \in SMs, math[c].pc = "epilogue",
                    NEW k \in 0 .. math[c].seg.of - 1, k # math[c].seg.split
             PROVE  scratch[math[c].seg.phase][SlotOf(math[c].seg.first, k)] =
                      [task |-> math[c].seg.task, split |-> k]
  BY DEF SlotsHold
<1>1. PICK seg : seg = math[c].seg
  OBVIOUS
<1>2. seg \in SoundSegments
  <2>1. seg # None
    BY <1>1 DEF TileInv, MathOk
  <2>2. seg \in Tasks
    BY <1>1 DEF TileInv, IInv, MathStates
  <2> QED
    BY <2>1, <2>2 DEF Tasks
<1>3. PICK p \in Phases : p = seg.phase
  BY <1>2, PartFacts
<1>4. PICK t \in 0 .. NumTasks(p) - 1 : t = seg.task
  <2>1. seg.task \in Nat /\ seg.task < NumTasks(p) /\ NumTasks(p) \in Nat
    BY <1>2, <1>3, PartFacts, Sizes
  <2> QED
    BY <2>1
<1>5. Late(c, p, t)
  BY <1>1, <1>3, <1>4 DEF Late
<1>6. Left(p, t) = {}
  BY <1>5 DEF TileInv, Tiles, TileAt
<1>7. /\ seg.first = FirstOf(p, t) /\ seg.of = Of(p, t) /\ seg.of \in Int
      /\ seg.split \in 0 .. seg.of - 1
  BY <1>2, <1>3, <1>4, PartFacts
<1>8. t \in Nat /\ t * PerTask(p) + PerTask(p) <= Units(p)
  BY TileSize
<1>9. PICK s \in Tile(p, t) : s.split = k
  <2>1. k \in 0 .. Of(p, t) - 1
    BY <1>1, <1>7
  <2> QED
    BY <1>8, <2>1, EveryPart
<1>10. s \in SoundSegments /\ s.phase = p /\ s.task = t
  BY <1>9 DEF Tile
<1>11. s.first = FirstOf(p, t) /\ s.of = Of(p, t)
  BY <1>10, PartFacts
<1>12. ~Unstored(s)
  BY <1>6, <1>9 DEF Left, Early
<1>13. s.of > 1
  <2>1. k \in Int /\ 0 <= k /\ k <= seg.of - 1 /\ k # seg.split
    BY <1>1, <1>7
  <2> QED
    BY <1>7, <1>11, <2>1
<1>14. scratch[s.phase][SlotOf(s.first, s.split)] = [task |-> s.task, split |-> s.split]
  BY <1>10, <1>12, <1>13 DEF TileInv, Kept
<1> QED
  BY <1>1, <1>3, <1>4, <1>7, <1>9, <1>10, <1>11, <1>14

\* When all CTAs have exited, no part is left anywhere.
LEMMA EndDone == TileInv => TilesOnce
<1> SUFFICES ASSUME TileInv, \A c \in SMs : Exited(c), NEW p \in Phases,
                    NEW t \in 0 .. NumTasks(p) - 1
             PROVE  finished[p][t] = 1 /\ counter[p][t] = 0
  BY DEF TilesOnce
<1>1. ASSUME NEW c \in SMs
      PROVE  /\ state[c] = 5 /\ math[c].pc = "get" /\ math[c].seg = None
             /\ Len(mail[c]) = 1 /\ mail[c][1] = None
  <2>1. /\ math[c] = NoSegment /\ mail[c] # <<>> /\ Head(mail[c]) = None
        /\ mail[c] \in Seq(Tasks)
    BY DEF Exited, TileInv, IInv
  <2>2. 1 \in 1 .. Len(mail[c]) /\ mail[c][1] = None
    BY <2>1
  <2>3. 1 = Len(mail[c]) /\ state[c] = 5
    BY <2>2 DEF TileInv, Sentinel
  <2> QED
    BY <2>1, <2>2, <2>3 DEF NoSegment
<1>2. ASSUME NEW s \in SoundSegments PROVE ~Early(s)
  <2>1. s # None
    <3>1. s \in SegmentRecord
      BY DEF SoundSegments
    <3>2. s.phase # 0
      BY PartFacts DEF Phases
    <3> QED
      BY <3>2 DEF None
  <2>2. \A c \in SMs, pc \in {"store", "ticket"} : ~InMath(c, pc, s)
    BY <1>1 DEF InMath
  <2>3. \A c \in SMs : \A i \in Nat \ {0} : ~Holds(c, i, s)
    BY <1>1, <2>1 DEF Holds, PlaceAt
  <2>4. ~Pending(s)
    <3>1. s.phase \in Phases /\ Owner(s) \in Workers
      BY PartFacts
    <3>2. \A c \in SMs : ~Claimed(c, s.phase)
      BY <1>1, <3>1 DEF Claimed, Phases
    <3>3. Past(s.phase) = SMs
      BY <1>1, <3>1 DEF Past, Phases
    <3>4. Cardinality(SMs) = NumSMs
      BY FS_Interval, PartitionAssumption DEF SMs, Workers
    <3>5. taskCount[s.phase] = NumSMs
      BY <3>1, <3>3, <3>4 DEF TileInv, Claims
    <3>6. Owner(s) < NumSMs
      BY <3>1, PartitionAssumption DEF Workers
    <3> QED
      BY <3>1, <3>2, <3>5, <3>6, PartitionAssumption DEF Pending, Workers
  <2> QED
    BY <2>2, <2>3, <2>4 DEF Early, Unstored, Queued
<1>3. Left(p, t) = {}
  BY <1>2 DEF Left, Tile
<1>4. \A c \in SMs : ~Late(c, p, t)
  BY <1>1 DEF Late
<1> QED
  BY <1>3, <1>4 DEF TileInv, Tiles, TileAt

LEMMA NotNone == ASSUME NEW s \in SoundSegments PROVE s # None
<1>1. s.phase # 0
  BY PartFacts DEF Phases
<1> QED
  BY <1>1 DEF None

LEMMA TileBounds ==
  ASSUME NEW s \in SoundSegments
  PROVE  /\ s.phase \in Phases /\ s.task \in 0 .. NumTasks(s.phase) - 1
         /\ s \in Tile(s.phase, s.task)
<1>1. s.phase \in Phases /\ s.task \in Nat /\ s.task < NumTasks(s.phase) /\ NumTasks(s.phase) \in Nat
  BY PartFacts, Sizes
<1> QED
  BY <1>1 DEF Tile

LEMMA InitTile == Init => TileInv
<1> SUFFICES ASSUME Init PROVE TileInv
  OBVIOUS
<1>1. IInv
  BY InitInv
<1>2. ASSUME NEW p \in Phases, NEW t \in 0 .. NumTasks(p) - 1
      PROVE  counter[p][t] = 0 /\ finished[p][t] = 0
  BY DEF Init
<1>3. PerTile(counter) /\ PerTile(finished)
  BY DEF Init, PerTile
<1>4. scratch \in [Phases -> [Slots -> [task : Int, split : Int]]]
  BY DEF Init, Nothing
<1>5. ASSUME NEW c \in SMs
      PROVE  /\ state[c] = 0 /\ math[c].pc = "get" /\ math[c].seg = None
             /\ mail[c] = <<>> /\ Len(mail[c]) = 0
  BY DEF Init, NoSegment
<1>6. \A p \in Phases : taskCount[p] = 0
  BY DEF Init
<1>7. ASSUME NEW s \in SoundSegments
      PROVE  Pending(s) /\ \A c \in SMs : \A i \in Nat : ~Holds(c, i, s)
  <2>1. Pending(s)
    <3>1. s.phase \in Phases /\ Owner(s) \in Workers
      BY PartFacts
    <3> QED
      BY <1>6, <3>1, PartitionAssumption DEF Pending, Workers
  <2>2. \A c \in SMs : \A i \in Nat : ~Holds(c, i, s)
    BY <1>5, NotNone DEF Holds, PlaceAt
  <2> QED
    BY <2>1, <2>2
<1>8. Claims
  <2>1. \A p \in Phases, c \in SMs : ~Claimed(c, p) /\ c \notin Past(p)
    BY <1>5 DEF Claimed, Past, Phases
  <2>2. \A p \in Phases : Past(p) = {}
    BY <2>1 DEF Past
  <2> QED
    BY <1>6, <2>1, <2>2, FS_EmptySet DEF Claims
<1>9. OnePlace
  BY <1>7 DEF OnePlace
<1>10. MathOk /\ Sentinel
  BY <1>5 DEF MathOk, Sentinel
<1>11. \A s \in SoundSegments : Unstored(s) /\ Early(s)
  BY <1>7 DEF Unstored, Queued, Early
<1>12. Kept
  BY <1>11 DEF Kept
<1>13. Tiles
  <2>1. SUFFICES ASSUME NEW p \in Phases, NEW t \in 0 .. NumTasks(p) - 1 PROVE TileAt(p, t)
    BY DEF Tiles
  <2>2. Left(p, t) = Tile(p, t)
    BY <1>11 DEF Left, Tile
  <2>3. Of(p, t) \in Nat /\ Of(p, t) >= 1 /\ Cardinality(Tile(p, t)) = Of(p, t)
    BY TileSize
  <2>4. Left(p, t) # {}
    BY <2>2, <2>3, FS_EmptySet
  <2>5. counter[p][t] = Of(p, t) - Cardinality(Left(p, t))
    BY <1>2, <2>2, <2>3
  <2>6. \A c \in SMs : ~Late(c, p, t)
    BY <1>5 DEF Late
  <2> QED
    BY <1>2, <2>4, <2>5, <2>6 DEF TileAt
<1> QED
  BY <1>1, <1>3, <1>4, <1>8, <1>9, <1>10, <1>12, <1>13 DEF TileInv

-----------------------------------------------------------------------------
\* What no step of a producer touches.
LEMMA PartsKept ==
  ASSUME TileInv, math' = math, UNCHANGED tileVars,
         \A s \in SoundSegments : Queued(s)' <=> Queued(s)
  PROVE  /\ PerTile(counter)' /\ PerTile(finished)'
         /\ scratch' \in [Phases -> [Slots -> [task : Int, split : Int]]]
         /\ MathOk' /\ Kept' /\ Tiles'
<1>1. counter' = counter /\ finished' = finished /\ scratch' = scratch
  BY DEF tileVars
<1>2. ASSUME NEW s \in SoundSegments
      PROVE  (Unstored(s)' <=> Unstored(s)) /\ (Early(s)' <=> Early(s))
  BY DEF Unstored, Early, InMath
<1>3. Kept'
  BY <1>1, <1>2 DEF TileInv, Kept
<1>4. Tiles'
  <2>1. ASSUME NEW p \in Phases, NEW t \in 0 .. NumTasks(p) - 1 PROVE TileAt(p, t)'
    <3>1. Left(p, t)' = Left(p, t)
      BY <1>2 DEF Left, Tile
    <3>2. \A c \in SMs : Late(c, p, t)' <=> Late(c, p, t)
      BY DEF Late
    <3>3. TileAt(p, t)
      BY DEF TileInv, Tiles
    <3> QED
      BY <1>1, <3>1, <3>2, <3>3 DEF TileAt
  <2> QED
    BY <2>1 DEF Tiles
<1>5. PerTile(counter)' /\ PerTile(finished)'
  BY <1>1 DEF TileInv, PerTile
<1>6. MathOk'
  BY DEF TileInv, MathOk
<1> QED
  BY <1>1, <1>3, <1>4, <1>5, <1>6 DEF TileInv

LEMMA PastFinite ==
  ASSUME NEW p
  PROVE  IsFiniteSet(Past(p)) /\ Cardinality(Past(p)) \in Nat
<1>1. IsFiniteSet(SMs)
  BY FS_Interval, PartitionAssumption DEF SMs, Workers
<1>2. Past(p) \in SUBSET SMs
  BY DEF Past
<1> QED
  BY <1>1, <1>2, FS_Subset, FS_CardinalityType

LEMMA ClaimTile == ASSUME TileInv, NEW c \in SMs, ClaimRange(c) PROVE TileInv'
<1>1. IInv /\ IInv'
  BY ClaimInv DEF TileInv
<1>2. PICK p \in Phases : p = IF state[c] = 2 THEN 2 ELSE 1
  BY DEF Phases
<1>3. PICK w \in Nat : w = taskCount[p]
  BY <1>1 DEF IInv
<1>4. /\ taskCount' = [taskCount EXCEPT ![p] = w + 1]
      /\ worker' = [worker EXCEPT ![c] = w]
      /\ mail' = mail /\ math' = math /\ UNCHANGED tileVars
      /\ state[c] = 2 * p - 2
  BY <1>2, <1>3 DEF ClaimRange, tileVars
<1>5. /\ w < NumSMs => /\ unit' = [unit EXCEPT ![c] = RangeBegin(Units(p), w)]
                       /\ state' = [state EXCEPT ![c] = 2 * p - 1]
      /\ ~(w < NumSMs) => unit' = unit /\ state' = [state EXCEPT ![c] = 2 * p]
  BY <1>2, <1>3, <1>4 DEF ClaimRange
<1>6. /\ taskCount \in [Phases -> Nat] /\ state \in [SMs -> 0 .. 5]
      /\ worker \in [SMs -> Nat] /\ unit \in [SMs -> Nat]
  BY <1>1 DEF IInv
<1>7. /\ taskCount'[p] = w + 1
      /\ \A q \in Phases : q # p => taskCount'[q] = taskCount[q]
      /\ worker'[c] = w
      /\ state'[c] \in {2 * p - 1, 2 * p}
      /\ \A d \in SMs : d # c => /\ worker'[d] = worker[d] /\ state'[d] = state[d]
                                 /\ unit'[d] = unit[d]
  BY <1>4, <1>5, <1>6
<1>8. ASSUME NEW q \in Phases
      PROVE  /\ ~Claimed(c, q)
             /\ q # p => ~Claimed(c, q)'
             /\ Claimed(c, q)' => q = p /\ w < NumSMs
             /\ \A d \in SMs : d # c => (Claimed(d, q)' <=> Claimed(d, q))
  <2>1. ~Claimed(c, q)
    BY <1>4 DEF Claimed, Phases
  <2>2. q # p => ~Claimed(c, q)'
    BY <1>7 DEF Claimed, Phases
  <2>3. Claimed(c, q)' => w < NumSMs
    <3>1. ASSUME ~(w < NumSMs) PROVE ~Claimed(c, q)'
      <4>1. state'[c] = 2 * p
        BY <1>5, <1>6, <3>1
      <4> QED
        BY <4>1 DEF Claimed, Phases
    <3> QED
      BY <3>1
  <2>4. \A d \in SMs : d # c => (Claimed(d, q)' <=> Claimed(d, q))
    BY <1>7 DEF Claimed
  <2> QED
    BY <2>1, <2>2, <2>3, <2>4
<1>9. ASSUME NEW s \in SoundSegments PROVE Pending(s)' <=> Pending(s)
  <2>1. /\ s.phase \in Phases /\ Owner(s) \in Nat /\ Owner(s) < NumSMs /\ StartOf(s) \in Nat
        /\ WholePart(s, Owner(s))
    BY PartFacts, PartitionAssumption DEF Workers
  <2>2. CASE s.phase # p
    <3>1. ~Claimed(c, s.phase) /\ ~Claimed(c, s.phase)'
      BY <1>8, <2>1, <2>2
    <3>2. \A d \in SMs : d # c => (Claimed(d, s.phase)' <=> Claimed(d, s.phase))
      BY <1>8, <2>1
    <3>3. taskCount'[s.phase] = taskCount[s.phase]
      BY <1>7, <2>1, <2>2
    <3> QED
      BY <1>7, <3>1, <3>2, <3>3 DEF Pending
  <2>3. CASE s.phase = p /\ Owner(s) = w
    <3>1. Pending(s)
      BY <1>3, <2>1, <2>3 DEF Pending
    <3>2. state'[c] = 2 * p - 1 /\ unit'[c] = RangeBegin(Units(p), w)
      BY <1>5, <1>6, <2>1, <2>3
    <3>3. RangeBegin(Units(p), w) <= StartOf(s)
      BY <2>1, <2>3 DEF WholePart, StartOf
    <3>4. Pending(s)'
      BY <1>7, <2>3, <3>2, <3>3 DEF Pending, Claimed
    <3> QED
      BY <3>1, <3>4
  <2>4. CASE s.phase = p /\ Owner(s) # w
    <3>1. Owner(s) >= taskCount'[p] <=> Owner(s) >= taskCount[p]
      BY <1>3, <1>7, <2>1, <2>4
    <3>2. ~Claimed(c, p) /\ worker'[c] # Owner(s)
      BY <1>7, <1>8, <2>4
    <3>3. \A d \in SMs : d # c => (Claimed(d, p)' <=> Claimed(d, p))
      BY <1>8
    <3> QED
      BY <1>7, <2>4, <3>1, <3>2, <3>3 DEF Pending
  <2> QED
    BY <2>2, <2>3, <2>4
<1>10. ASSUME NEW s, NEW d, NEW i PROVE Holds(d, i, s)' <=> Holds(d, i, s)
  BY <1>4 DEF Holds, PlaceAt
<1>11. \A s \in SoundSegments : Queued(s)' <=> Queued(s)
  BY <1>9, <1>10 DEF Queued
<1>12. Claims'
  <2>1. ASSUME NEW q \in Phases PROVE taskCount'[q] = Cardinality(Past(q)')
    <3>1. taskCount[q] = Cardinality(Past(q))
      BY DEF TileInv, Claims
    <3>2. CASE q = p
      <4>1. c \notin Past(p)
        BY <1>4 DEF Past, Phases
      <4>2. Past(p)' = Past(p) \cup {c}
        BY <1>7 DEF Past, Phases
      <4>3. Cardinality(Past(p)') = Cardinality(Past(p)) + 1
        BY <4>1, <4>2, PastFinite, FS_AddElement
      <4> QED
        BY <1>3, <1>7, <3>1, <3>2, <4>3
    <3>3. CASE q # p
      <4>1. state'[c] >= 2 * q - 1 <=> state[c] >= 2 * q - 1
        BY <1>4, <1>7, <3>3 DEF Phases
      <4>2. Past(q)' = Past(q)
        BY <1>7, <4>1 DEF Past
      <4> QED
        BY <1>7, <3>1, <3>3, <4>2
    <3> QED
      BY <3>2, <3>3
  <2>2. ASSUME NEW q \in Phases, NEW d \in SMs, Claimed(d, q)' PROVE worker'[d] < taskCount'[q]
    <3>1. CASE d = c
      <4>1. q = p
        BY <1>8, <2>2, <3>1
      <4> QED
        BY <1>3, <1>7, <3>1, <4>1
    <3>2. CASE d # c
      <4>1. worker[d] < taskCount[q] /\ worker'[d] = worker[d]
        BY <1>7, <1>8, <2>2, <3>2 DEF TileInv, Claims
      <4>2. taskCount'[q] >= taskCount[q] /\ taskCount[q] \in Nat /\ worker[d] \in Nat /\
            taskCount'[q] \in Nat
        <5>1. CASE q = p
          BY <1>3, <1>6, <1>7, <5>1
        <5>2. CASE q # p
          BY <1>6, <1>7, <5>2
        <5> QED
          BY <5>1, <5>2
      <4> QED
        BY <4>1, <4>2
    <3> QED
      BY <3>1, <3>2
  <2>3. ASSUME NEW q \in Phases, NEW d \in SMs, NEW e \in SMs, Claimed(d, q)', Claimed(e, q)',
               worker'[d] = worker'[e]
        PROVE  d = e
    <3>1. CASE d # c /\ e # c
      BY <1>7, <1>8, <2>3, <3>1 DEF TileInv, Claims
    <3>2. CASE d = c /\ e # c
      <4>1. q = p /\ Claimed(e, q) /\ worker[e] = w
        BY <1>7, <1>8, <2>3, <3>2
      <4>2. worker[e] < taskCount[p]
        BY <4>1 DEF TileInv, Claims
      <4> QED
        BY <1>3, <4>1, <4>2
    <3>3. CASE d # c /\ e = c
      <4>1. q = p /\ Claimed(d, q) /\ worker[d] = w
        BY <1>7, <1>8, <2>3, <3>3
      <4>2. worker[d] < taskCount[p]
        BY <4>1 DEF TileInv, Claims
      <4> QED
        BY <1>3, <4>1, <4>2
    <3> QED
      BY <3>1, <3>2, <3>3
  <2> QED
    BY <2>1, <2>2, <2>3 DEF Claims
<1>13. OnePlace'
  BY <1>9, <1>10 DEF TileInv, OnePlace
<1>14. Sentinel'
  <2>1. SUFFICES ASSUME NEW d \in SMs, NEW i \in 1 .. Len(mail[d]), mail[d][i] = None
                 PROVE  i = Len(mail[d]) /\ state'[d] = 5
    BY <1>4 DEF Sentinel
  <2>2. i = Len(mail[d]) /\ state[d] = 5
    BY <2>1 DEF TileInv, Sentinel
  <2>3. d # c
    BY <1>4, <2>2 DEF Phases
  <2> QED
    BY <1>7, <2>2, <2>3
<1>15. /\ PerTile(counter)' /\ PerTile(finished)'
       /\ scratch' \in [Phases -> [Slots -> [task : Int, split : Int]]]
       /\ MathOk' /\ Kept' /\ Tiles'
  BY <1>4, <1>11, PartsKept
<1> QED
  BY <1>1, <1>12, <1>13, <1>14, <1>15 DEF TileInv

\* No step but ClaimRange gives a worker index away.
LEMMA ClaimsKept ==
  ASSUME TileInv, taskCount' = taskCount, worker' = worker,
         \A q \in Phases : \A d \in SMs :
           /\ Claimed(d, q)' => Claimed(d, q)
           /\ state'[d] >= 2 * q - 1 <=> state[d] >= 2 * q - 1
  PROVE  Claims'
<1>1. \A q \in Phases : Past(q)' = Past(q)
  BY DEF Past
<1> QED
  BY <1>1 DEF TileInv, Claims

\* The units of a part lie in its worker's range.
LEMMA PartInRange ==
  ASSUME NEW s \in SoundSegments
  PROVE  /\ s.from < s.to
         /\ StartOf(s) \in Nat
         /\ RangeEnd(Units(s.phase), Owner(s)) \in Nat
         /\ StartOf(s) < RangeEnd(Units(s.phase), Owner(s))
<1>1. /\ s.phase \in Phases /\ s.task \in Nat /\ s.from \in Nat /\ s.to \in Nat
      /\ WholePart(s, Owner(s)) /\ StartOf(s) \in Nat /\ Owner(s) \in Workers
  BY PartFacts
<1>2. RangeEnd(Units(s.phase), Owner(s)) \in Nat
  <2>1. Units(s.phase) \in Nat /\ Owner(s) \in Nat
    BY <1>1, Sizes, PartitionAssumption DEF Workers
  <2> QED
    BY <2>1, RangesAdjacent
<1>3. s.from < s.to /\ s.task * PerTask(s.phase) + s.to <= RangeEnd(Units(s.phase), Owner(s))
  BY <1>1 DEF WholePart
<1>4. s.task * PerTask(s.phase) \in Nat
  <2>1. PerTask(s.phase) \in Nat
    BY <1>1, Sizes
  <2> QED
    BY <1>1, <2>1
<1>5. StartOf(s) = s.task * PerTask(s.phase) + s.from
  BY DEF StartOf
<1> QED
  BY <1>1, <1>2, <1>3, <1>4, <1>5

\* Parts of different tiles lie one behind the other.
LEMMA PartsInOrder ==
  ASSUME NEW a \in SoundSegments, NEW b \in SoundSegments, a.phase = b.phase, a.task < b.task
  PROVE  StartOf(a) + (a.to - a.from) <= StartOf(b)
<1>1. /\ a.phase \in Phases /\ a.task \in Nat /\ a.from \in Nat /\ a.to \in Nat
      /\ b.task \in Nat /\ b.from \in Nat /\ WholePart(a, Owner(a))
  BY PartFacts
<1> DEFINE L == PerTask(a.phase)
<1>2. L \in Nat
  BY <1>1, Sizes
<1>3. a.to <= L
  BY <1>1 DEF WholePart
<1>4. StartOf(a) = a.task * L + a.from /\ StartOf(b) = b.task * L + b.from
  BY DEF StartOf
<1> HIDE DEF L
<1>5. (a.task + 1) * L <= b.task * L /\ a.task * L \in Nat /\ b.task * L \in Nat
  BY <1>1, <1>2, TimesMonotone
<1>6. (a.task + 1) * L = a.task * L + L
  BY <1>1, <1>2
<1> QED
  BY <1>1, <1>2, <1>3, <1>4, <1>5, <1>6

\* The segment that NextSegment publishes.
LEMMA Published ==
  ASSUME IInv, NEW c \in SMs, NextSegment(c), unit[c] < unitEnd[c]
  PROVE  \E seg \in SoundSegments :
           /\ Claimed(c, seg.phase)
           /\ Owner(seg) = worker[c] /\ StartOf(seg) = unit[c]
           /\ mail' = [mail EXCEPT ![c] = Append(@, seg)]
           /\ unit' = [unit EXCEPT ![c] = unit[c] + (seg.to - seg.from)]
<1>1. PICK p \in Phases : p = IF state[c] = 3 THEN 2 ELSE 1
  BY DEF Phases
<1>2. PICK seg : seg = Segment(p, Units(p), PerTask(p), worker[c], unit[c], unitEnd[c])
  OBVIOUS
<1>3. PICK u : u = unit[c]
  OBVIOUS
<1>4. PICK w : w = worker[c]
  OBVIOUS
<1>5. /\ mail' = [mail EXCEPT ![c] = Append(@, seg)]
      /\ unit' = [unit EXCEPT ![c] = unit[c] + (seg.to - seg.from)]
      /\ state[c] \in {1, 3}
  BY <1>1, <1>2 DEF NextSegment
<1>6. InRange(c, p)
  BY <1>1, <1>5 DEF IInv
<1>7. /\ w \in Workers /\ unitEnd[c] = RangeEnd(Units(p), w) /\ u \in Nat
      /\ RangeBegin(Units(p), w) <= u /\ u < RangeEnd(Units(p), w)
      /\ u = RangeBegin(Units(p), w) \/ u % PerTask(p) = 0
  <2>1. Units(p) \in Nat /\ w \in Nat
    BY <1>4, Sizes DEF IInv
  <2>2. RangeBegin(Units(p), w) \in Nat /\ RangeEnd(Units(p), w) \in Nat
    BY <2>1, RangesAdjacent
  <2> QED
    BY <1>3, <1>4, <1>6, <2>1, <2>2 DEF InRange, IInv
<1>8. seg \in SoundSegments
  BY <1>2, <1>3, <1>4, <1>7, SegmentSound
<1>9. /\ seg.phase = p /\ seg.task = u \div PerTask(p) /\ seg.from = u % PerTask(p)
      /\ seg.first = WorkerOf(Units(p), (u \div PerTask(p)) * PerTask(p))
      /\ seg.split = w - seg.first
  BY <1>2, <1>3, <1>4 DEF Segment
<1>10. Owner(seg) = w
  <2>1. seg.first \in Nat /\ w \in Int
    BY <1>7, <1>8, PartFacts, PartitionAssumption DEF Workers
  <2> QED
    BY <1>9, <2>1 DEF Owner
<1>11. StartOf(seg) = u
  <2>1. PerTask(p) \in Nat \ {0}
    BY Sizes
  <2>2. PICK L \in Nat \ {0} : L = PerTask(p)
    BY <2>1
  <2>3. u = L * (u \div L) + (u % L) /\ u \div L \in Int /\ u % L \in Nat
    BY <1>7, Division
  <2>4. StartOf(seg) = (u \div L) * L + (u % L)
    BY <1>9, <2>2 DEF StartOf
  <2>5. (u \div L) * L = L * (u \div L)
    BY <2>3
  <2> QED
    BY <2>3, <2>4, <2>5
<1>12. Claimed(c, p)
  BY <1>1, <1>5 DEF Claimed
<1> QED
  BY <1>3, <1>4, <1>5, <1>8, <1>9, <1>10, <1>11, <1>12

LEMMA PublishTile ==
  ASSUME TileInv, NEW c \in SMs, NextSegment(c), unit[c] < unitEnd[c] PROVE TileInv'
<1>1. IInv /\ IInv'
  BY NextSegmentInv DEF TileInv
<1>2. PICK seg \in SoundSegments :
        /\ Claimed(c, seg.phase)
        /\ Owner(seg) = worker[c] /\ StartOf(seg) = unit[c]
        /\ mail' = [mail EXCEPT ![c] = Append(@, seg)]
        /\ unit' = [unit EXCEPT ![c] = unit[c] + (seg.to - seg.from)]
  BY <1>1, Published
<1>3. /\ taskCount' = taskCount /\ worker' = worker /\ state' = state /\ math' = math
      /\ UNCHANGED tileVars /\ state[c] \in {1, 3}
  BY DEF NextSegment
<1>4. unit \in [SMs -> Nat] /\ mail \in [SMs -> Seq(Tasks)] /\ taskCount \in [Phases -> Nat]
      /\ worker \in [SMs -> Nat]
  BY <1>1 DEF IInv
<1>5. seg.phase \in Phases /\ seg.from \in Nat /\ seg.to \in Nat /\ seg.from < seg.to /\ seg # None
  BY PartFacts, PartInRange, NotNone
<1>6. \A d \in SMs : \A q : Claimed(d, q)' <=> Claimed(d, q)
  BY <1>3 DEF Claimed
<1>7. /\ unit'[c] = StartOf(seg) + (seg.to - seg.from)
      /\ \A d \in SMs : d # c => unit'[d] = unit[d]
  BY <1>2, <1>4
<1>8. Pending(seg)
  <2>1. StartOf(seg) \in Nat
    BY PartFacts
  <2>2. unit[c] <= StartOf(seg)
    BY <1>2, <2>1
  <2> QED
    BY <1>2, <2>2 DEF Pending
<1>9. ~Pending(seg)'
  <2>1. worker[c] < taskCount[seg.phase]
    BY <1>2, <1>5 DEF TileInv, Claims
  <2>2. ~(Owner(seg) >= taskCount'[seg.phase])
    BY <1>2, <1>3, <1>4, <1>5, <2>1
  <2>3. ~(unit'[c] <= StartOf(seg))
    <3>1. StartOf(seg) \in Nat
      BY PartFacts
    <3> QED
      BY <1>5, <1>7, <3>1
  <2>4. ASSUME NEW d \in SMs, Claimed(d, seg.phase), worker[d] = Owner(seg) PROVE d = c
    BY <1>2, <1>5, <2>4 DEF TileInv, Claims
  <2> QED
    BY <1>3, <1>6, <2>2, <2>3, <2>4 DEF Pending
<1>10. ASSUME NEW s \in SoundSegments, s # seg PROVE Pending(s)' <=> Pending(s)
  <2>1. ASSUME s.phase = seg.phase, Owner(s) = Owner(seg)
        PROVE  unit'[c] <= StartOf(s) <=> unit[c] <= StartOf(s)
    <3>1. s.task # seg.task
      BY <1>10, <2>1, OnePart
    <3>2. s.task \in Nat /\ seg.task \in Nat /\ StartOf(s) \in Nat /\ StartOf(seg) \in Nat
          /\ s.from \in Nat /\ s.to \in Nat /\ s.from < s.to
      BY PartFacts, PartInRange
    <3>3. CASE s.task < seg.task
      <4>1. StartOf(s) + (s.to - s.from) <= StartOf(seg)
        BY <2>1, <3>3, PartsInOrder
      <4> QED
        BY <1>2, <1>5, <1>7, <3>2, <4>1
    <3>4. CASE seg.task < s.task
      <4>1. StartOf(seg) + (seg.to - seg.from) <= StartOf(s)
        BY <2>1, <3>4, PartsInOrder
      <4> QED
        BY <1>2, <1>5, <1>7, <3>2, <4>1
    <3> QED
      BY <3>1, <3>2, <3>3, <3>4
  <2>2. CASE s.phase = seg.phase /\ Owner(s) = Owner(seg)
    BY <1>3, <1>6, <1>7, <2>1, <2>2 DEF Pending
  <2>3. CASE s.phase = seg.phase /\ Owner(s) # Owner(seg)
    <3>1. worker[c] # Owner(s)
      BY <1>2, <2>3
    <3> QED
      BY <1>3, <1>6, <1>7, <3>1 DEF Pending
  <2>4. CASE s.phase # seg.phase
    <3>1. ~Claimed(c, s.phase)
      <4>1. s.phase \in Phases
        BY PartFacts
      <4> QED
        BY <1>2, <1>5, <2>4, <4>1 DEF Claimed, Phases
    <3> QED
      BY <1>3, <1>6, <1>7, <3>1 DEF Pending
  <2> QED
    BY <2>2, <2>3, <2>4
<1>11. mail'[c] = Append(mail[c], seg) /\ \A d \in SMs : d # c => mail'[d] = mail[d]
  BY <1>2, <1>4
<1>12. PICK n \in Nat : n = Len(mail[c])
  BY <1>4
<1>13. /\ Len(mail'[c]) = n + 1
       /\ mail'[c][n + 1] = seg
       /\ \A i \in 1 .. n : mail'[c][i] = mail[c][i]
  <2>1. mail[c] \in Seq(Tasks)
    BY <1>4
  <2> QED
    BY <1>11, <1>12, <2>1
<1>14. ASSUME NEW d \in SMs, NEW i \in Nat, NEW s
       PROVE  Holds(d, i, s)' <=> Holds(d, i, s) \/ (d = c /\ i = n + 1 /\ s = seg)
  <2>1. CASE d # c
    BY <1>3, <1>11, <2>1 DEF Holds, PlaceAt
  <2>2. CASE d = c /\ i = n + 1
    <3>1. ~Holds(d, i, s)
      BY <1>12, <2>2 DEF Holds
    <3>2. Holds(d, i, s)' <=> s = seg
      BY <1>12, <1>13, <2>2 DEF Holds, PlaceAt
    <3> QED
      BY <2>2, <3>1, <3>2
  <2>3. CASE d = c /\ i # n + 1
    <3>1. i \in 0 .. Len(mail'[c]) <=> i \in 0 .. n
      BY <1>12, <1>13, <2>3
    <3>2. i \in 0 .. n => PlaceAt(c, i)' = PlaceAt(c, i)
      <4>1. CASE i = 0
        BY <1>3, <4>1 DEF PlaceAt
      <4>2. CASE i # 0
        BY <1>13, <4>2 DEF PlaceAt
      <4> QED
        BY <4>1, <4>2
    <3> QED
      BY <1>12, <2>3, <3>1, <3>2 DEF Holds
  <2> QED
    BY <2>1, <2>2, <2>3
<1>15. ASSUME NEW s \in SoundSegments PROVE Queued(s)' <=> Queued(s)
  <2>1. CASE s = seg
    <3>1. n + 1 \in Nat \ {0} /\ Holds(c, n + 1, seg)'
      BY <1>12, <1>14
    <3> QED
      BY <1>8, <2>1, <3>1 DEF Queued
  <2>2. CASE s # seg
    <3>1. \A d \in SMs : \A i \in Nat : Holds(d, i, s)' <=> Holds(d, i, s)
      BY <1>14, <2>2
    <3> QED
      BY <1>10, <2>2, <3>1 DEF Queued
  <2> QED
    BY <2>1, <2>2
<1>16. OnePlace'
  <2>1. SUFFICES ASSUME NEW s \in SoundSegments, NEW d \in SMs, NEW i \in Nat, Holds(d, i, s)'
                 PROVE  /\ ~Pending(s)'
                        /\ \A e \in SMs : \A j \in Nat : Holds(e, j, s)' => e = d /\ j = i
    BY DEF OnePlace
  <2>2. CASE s = seg
    <3>1. \A e \in SMs : \A j \in Nat : ~Holds(e, j, seg)
      BY <1>8 DEF TileInv, OnePlace
    <3>2. d = c /\ i = n + 1
      BY <1>14, <2>1, <2>2, <3>1
    <3>3. \A e \in SMs : \A j \in Nat : Holds(e, j, seg)' => e = c /\ j = n + 1
      BY <1>14, <3>1
    <3> QED
      BY <1>9, <2>2, <3>2, <3>3
  <2>3. CASE s # seg
    <3>1. \A e \in SMs : \A j \in Nat : Holds(e, j, s)' <=> Holds(e, j, s)
      BY <1>14, <2>3
    <3>2. Holds(d, i, s)
      BY <2>1, <3>1
    <3>3. ~Pending(s) /\ \A e \in SMs : \A j \in Nat : Holds(e, j, s) => e = d /\ j = i
      BY <3>2 DEF TileInv, OnePlace
    <3> QED
      BY <1>10, <2>3, <3>1, <3>3
  <2> QED
    BY <2>2, <2>3
<1>17. Sentinel'
  <2>1. SUFFICES ASSUME NEW d \in SMs, NEW i \in 1 .. Len(mail'[d]), mail'[d][i] = None
                 PROVE  i = Len(mail'[d]) /\ state'[d] = 5
    BY DEF Sentinel
  <2>2. CASE d = c
    <3>1. i # n + 1
      BY <1>5, <1>13, <2>1, <2>2
    <3>2. i \in 1 .. n
      BY <1>12, <1>13, <2>2, <3>1
    <3>3. mail[c][i] = None /\ i \in 1 .. Len(mail[c])
      BY <1>12, <1>13, <2>1, <2>2, <3>2
    <3>4. state[c] = 5
      BY <3>3 DEF TileInv, Sentinel
    <3> QED
      BY <1>3, <3>4
  <2>3. CASE d # c
    <3>1. mail'[d] = mail[d] /\ state' = state
      BY <1>3, <1>11, <2>3
    <3> QED
      BY <2>1, <3>1 DEF TileInv, Sentinel
  <2> QED
    BY <2>2, <2>3
<1>18. Claims'
  <2>1. \A q \in Phases : \A d \in SMs :
          /\ Claimed(d, q)' => Claimed(d, q)
          /\ state'[d] >= 2 * q - 1 <=> state[d] >= 2 * q - 1
    BY <1>3, <1>6
  <2> QED
    BY <1>3, <2>1, ClaimsKept
<1>19. /\ PerTile(counter)' /\ PerTile(finished)'
       /\ scratch' \in [Phases -> [Slots -> [task : Int, split : Int]]]
       /\ MathOk' /\ Kept' /\ Tiles'
  BY <1>3, <1>15, PartsKept
<1> QED
  BY <1>1, <1>16, <1>17, <1>18, <1>19 DEF TileInv

LEMMA RangeEndTile ==
  ASSUME TileInv, NEW c \in SMs, NextSegment(c), ~(unit[c] < unitEnd[c]) PROVE TileInv'
<1>1. IInv /\ IInv'
  BY NextSegmentInv DEF TileInv
<1>2. PICK p \in Phases : p = IF state[c] = 3 THEN 2 ELSE 1
  BY DEF Phases
<1>3. /\ taskCount' = taskCount /\ worker' = worker /\ unit' = unit /\ math' = math
      /\ mail' = mail /\ UNCHANGED tileVars
      /\ state[c] = 2 * p - 1 /\ state' = [state EXCEPT ![c] = 2 * p]
  BY <1>2 DEF NextSegment
<1>4. state \in [SMs -> 0 .. 5] /\ unit \in [SMs -> Nat] /\ worker \in [SMs -> Nat]
  BY <1>1 DEF IInv
<1>5. state'[c] = 2 * p /\ \A d \in SMs : d # c => state'[d] = state[d]
  BY <1>3, <1>4
<1>6. ASSUME NEW q \in Phases, NEW d \in SMs
      PROVE  /\ Claimed(d, q)' => Claimed(d, q)
             /\ d # c => (Claimed(d, q)' <=> Claimed(d, q))
             /\ ~Claimed(c, q)'
             /\ state'[d] >= 2 * q - 1 <=> state[d] >= 2 * q - 1
  <2>1. CASE d # c
    BY <1>5, <2>1 DEF Claimed, Phases
  <2>2. CASE d = c
    BY <1>3, <1>5, <2>2 DEF Claimed, Phases
  <2>3. ~Claimed(c, q)'
    BY <1>5 DEF Claimed, Phases
  <2> QED
    BY <2>1, <2>2, <2>3
<1>7. Claims'
  BY <1>3, <1>6, ClaimsKept
<1>8. ASSUME NEW s \in SoundSegments PROVE Pending(s)' <=> Pending(s)
  <2>1. s.phase \in Phases
    BY PartFacts
  <2>2. ASSUME Claimed(c, s.phase), worker[c] = Owner(s) PROVE ~(unit[c] <= StartOf(s))
    <3>1. s.phase = p
      BY <1>3, <2>1, <2>2 DEF Claimed, Phases
    <3>2. InRange(c, p)
      <4>1. CASE p = 1
        BY <1>1, <1>3, <4>1 DEF IInv
      <4>2. CASE p = 2
        BY <1>1, <1>3, <4>2 DEF IInv
      <4> QED
        BY <4>1, <4>2 DEF Phases
    <3>3. unitEnd[c] = RangeEnd(Units(p), Owner(s))
      BY <2>2, <3>2 DEF InRange
    <3>4. StartOf(s) \in Nat /\ StartOf(s) < unitEnd[c] /\ unitEnd[c] \in Nat
      BY <3>1, <3>3, PartInRange
    <3> QED
      BY <1>4, <3>4
  <2> QED
    BY <1>3, <1>6, <2>1, <2>2 DEF Pending
<1>9. \A s, d, i : Holds(d, i, s)' <=> Holds(d, i, s)
  BY <1>3 DEF Holds, PlaceAt
<1>10. \A s \in SoundSegments : Queued(s)' <=> Queued(s)
  BY <1>8, <1>9 DEF Queued
<1>11. OnePlace'
  BY <1>8, <1>9 DEF TileInv, OnePlace
<1>12. Sentinel'
  <2>1. SUFFICES ASSUME NEW d \in SMs, NEW i \in 1 .. Len(mail[d]), mail[d][i] = None
                 PROVE  i = Len(mail[d]) /\ state'[d] = 5
    BY <1>3 DEF Sentinel
  <2>2. i = Len(mail[d]) /\ state[d] = 5
    BY <2>1 DEF TileInv, Sentinel
  <2>3. d # c
    BY <1>3, <2>2 DEF Phases
  <2> QED
    BY <1>5, <2>2, <2>3
<1>13. /\ PerTile(counter)' /\ PerTile(finished)'
       /\ scratch' \in [Phases -> [Slots -> [task : Int, split : Int]]]
       /\ MathOk' /\ Kept' /\ Tiles'
  BY <1>3, <1>10, PartsKept
<1> QED
  BY <1>1, <1>7, <1>11, <1>12, <1>13 DEF TileInv

LEMMA StopTile == ASSUME TileInv, NEW c \in SMs, Stop(c) PROVE TileInv'
<1>1. IInv /\ IInv'
  BY StopInv DEF TileInv
<1>2. /\ taskCount' = taskCount /\ worker' = worker /\ unit' = unit /\ math' = math
      /\ mail' = [mail EXCEPT ![c] = Append(@, None)] /\ UNCHANGED tileVars
      /\ state[c] = 4 /\ state' = [state EXCEPT ![c] = 5]
  BY DEF Stop
<1>3. state \in [SMs -> 0 .. 5] /\ mail \in [SMs -> Seq(Tasks)]
  BY <1>1 DEF IInv
<1>4. state'[c] = 5 /\ \A d \in SMs : d # c => state'[d] = state[d]
  BY <1>2, <1>3
<1>5. ASSUME NEW q \in Phases, NEW d \in SMs
      PROVE  /\ Claimed(d, q)' <=> Claimed(d, q)
             /\ state'[d] >= 2 * q - 1 <=> state[d] >= 2 * q - 1
  <2>1. CASE d # c
    BY <1>4, <2>1 DEF Claimed
  <2>2. CASE d = c
    BY <1>2, <1>4, <2>2 DEF Claimed, Phases
  <2> QED
    BY <2>1, <2>2
<1>6. Claims'
  BY <1>2, <1>5, ClaimsKept
<1>7. ASSUME NEW s \in SoundSegments PROVE Pending(s)' <=> Pending(s)
  <2>1. s.phase \in Phases
    BY PartFacts
  <2> QED
    BY <1>2, <1>5, <2>1 DEF Pending
<1>8. mail'[c] = Append(mail[c], None) /\ \A d \in SMs : d # c => mail'[d] = mail[d]
  BY <1>2, <1>3
<1>9. PICK n \in Nat : n = Len(mail[c])
  BY <1>3
<1>10. /\ Len(mail'[c]) = n + 1
       /\ mail'[c][n + 1] = None
       /\ \A i \in 1 .. n : mail'[c][i] = mail[c][i]
  <2>1. mail[c] \in Seq(Tasks)
    BY <1>3
  <2> QED
    BY <1>8, <1>9, <2>1
<1>11. ASSUME NEW d \in SMs, NEW i \in Nat, NEW s, s # None
       PROVE  Holds(d, i, s)' <=> Holds(d, i, s)
  <2>1. CASE d # c
    BY <1>2, <1>8, <2>1 DEF Holds, PlaceAt
  <2>2. CASE d = c /\ i = n + 1
    BY <1>9, <1>10, <1>11, <2>2 DEF Holds, PlaceAt
  <2>3. CASE d = c /\ i # n + 1
    <3>1. i \in 0 .. Len(mail'[c]) <=> i \in 0 .. n
      BY <1>9, <1>10, <2>3
    <3>2. i \in 0 .. n => PlaceAt(c, i)' = PlaceAt(c, i)
      <4>1. CASE i = 0
        BY <1>2, <4>1 DEF PlaceAt
      <4>2. CASE i # 0
        BY <1>10, <4>2 DEF PlaceAt
      <4> QED
        BY <4>1, <4>2
    <3> QED
      BY <1>9, <2>3, <3>1, <3>2 DEF Holds
  <2> QED
    BY <2>1, <2>2, <2>3
<1>12. ASSUME NEW s \in SoundSegments
       PROVE  \A d \in SMs : \A i \in Nat : Holds(d, i, s)' <=> Holds(d, i, s)
  BY <1>11, NotNone
<1>13. \A s \in SoundSegments : Queued(s)' <=> Queued(s)
  BY <1>7, <1>12 DEF Queued
<1>14. OnePlace'
  BY <1>7, <1>12 DEF TileInv, OnePlace
<1>15. Sentinel'
  <2>1. SUFFICES ASSUME NEW d \in SMs, NEW i \in 1 .. Len(mail'[d]), mail'[d][i] = None
                 PROVE  i = Len(mail'[d]) /\ state'[d] = 5
    BY DEF Sentinel
  <2>2. CASE d = c
    <3>1. CASE i = n + 1
      BY <1>4, <1>10, <2>2, <3>1
    <3>2. CASE i # n + 1
      <4>1. i \in 1 .. n
        BY <1>9, <1>10, <2>2, <3>2
      <4>2. mail[c][i] = None /\ i \in 1 .. Len(mail[c])
        BY <1>9, <1>10, <2>1, <2>2, <4>1
      <4>3. state[c] = 5
        BY <4>2 DEF TileInv, Sentinel
      <4> QED
        BY <1>2, <4>3
    <3> QED
      BY <3>1, <3>2
  <2>3. CASE d # c
    <3>1. mail'[d] = mail[d] /\ state'[d] = state[d]
      BY <1>4, <1>8, <2>3
    <3> QED
      BY <2>1, <3>1 DEF TileInv, Sentinel
  <2> QED
    BY <2>2, <2>3
<1>16. /\ PerTile(counter)' /\ PerTile(finished)'
       /\ scratch' \in [Phases -> [Slots -> [task : Int, split : Int]]]
       /\ MathOk' /\ Kept' /\ Tiles'
  BY <1>2, <1>13, PartsKept
<1> QED
  BY <1>1, <1>6, <1>14, <1>15, <1>16 DEF TileInv

-----------------------------------------------------------------------------
\* A tile of which a step disturbs nothing.
LEMMA TileSame ==
  ASSUME NEW p, NEW t, TileAt(p, t),
         Left(p, t)' = Left(p, t),
         counter'[p][t] = counter[p][t], finished'[p][t] = finished[p][t],
         \A d \in SMs : /\ Late(d, p, t)' <=> Late(d, p, t)
                        /\ Late(d, p, t) => math'[d] = math[d]
  PROVE  TileAt(p, t)'
<1>1. CASE Left(p, t) # {}
  BY <1>1 DEF TileAt
<1>2. CASE Left(p, t) = {} /\ \E c \in SMs : Late(c, p, t)
  <2>1. finished[p][t] = 0
    BY <1>2 DEF TileAt
  <2>2. PICK c \in SMs :
          /\ Late(c, p, t)
          /\ \A d \in SMs : Late(d, p, t) => d = c
          /\ counter[p][t] = IF math[c].pc = "reset" THEN Of(p, t) ELSE 0
    BY <1>2 DEF TileAt
  <2>3. Late(c, p, t)' /\ math'[c] = math[c] /\ \A d \in SMs : Late(d, p, t)' => d = c
    BY <2>2
  <2>4. counter'[p][t] = IF math'[c].pc = "reset" THEN Of(p, t) ELSE 0
    BY <2>2, <2>3
  <2> QED
    BY <1>2, <2>1, <2>3, <2>4 DEF TileAt
<1>3. CASE Left(p, t) = {} /\ ~\E c \in SMs : Late(c, p, t)
  BY <1>3 DEF TileAt
<1> QED
  BY <1>1, <1>2, <1>3

\* The same for a tile's parts: what Early tells.
LEMMA LeftSame ==
  ASSUME NEW p, NEW t, \A s \in Tile(p, t) : Early(s)' <=> Early(s)
  PROVE  Left(p, t)' = Left(p, t)
BY DEF Left, Tile

LEMMA LeftSize ==
  ASSUME NEW p \in Phases, NEW t \in 0 .. NumTasks(p) - 1
  PROVE  /\ IsFiniteSet(Left(p, t)) /\ Cardinality(Left(p, t)) \in Nat
         /\ Left(p, t) = {} <=> Cardinality(Left(p, t)) = 0
<1>1. IsFiniteSet(Tile(p, t)) /\ Left(p, t) \in SUBSET Tile(p, t)
  BY TileSize DEF Left
<1>2. IsFiniteSet(Left(p, t))
  BY <1>1, FS_Subset
<1> QED
  BY <1>2, FS_CardinalityType, FS_EmptySet

\* The part the math warps of c are at.
LEMMA AtMath ==
  ASSUME TileInv, NEW c \in SMs, math[c].pc # "get"
  PROVE  /\ math[c].seg \in SoundSegments
         /\ Holds(c, 0, math[c].seg)
         /\ ~Pending(math[c].seg)
         /\ \A d \in SMs : \A j \in Nat : Holds(d, j, math[c].seg) => d = c /\ j = 0
         /\ ~Queued(math[c].seg)
<1>1. PICK s : s = math[c].seg
  OBVIOUS
<1>2. s \in SoundSegments
  <2>1. s # None /\ s \in Tasks
    BY <1>1 DEF TileInv, MathOk, IInv, MathStates
  <2> QED
    BY <2>1 DEF Tasks
<1>3. Holds(c, 0, s)
  <2>1. Len(mail[c]) \in Nat
    BY DEF TileInv, IInv
  <2> QED
    BY <1>1, <2>1 DEF Holds, PlaceAt
<1>4. /\ ~Pending(s)
      /\ \A d \in SMs : \A j \in Nat : Holds(d, j, s) => d = c /\ j = 0
  BY <1>2, <1>3 DEF TileInv, OnePlace
<1>5. ~Queued(s)
  BY <1>4 DEF Queued
<1> QED
  BY <1>1, <1>2, <1>3, <1>4, <1>5

\* Nobody else is at it.
LEMMA AloneAtMath ==
  ASSUME TileInv, NEW c \in SMs, math[c].pc # "get", NEW d \in SMs, d # c, NEW pc
  PROVE  ~InMath(d, pc, math[c].seg)
<1>1. \A j \in Nat : ~Holds(d, j, math[c].seg)
  BY AtMath
<1>2. 0 \in 0 .. Len(mail[d])
  <2>1. Len(mail[d]) \in Nat
    BY DEF TileInv, IInv
  <2> QED
    BY <2>1
<1> QED
  BY <1>1, <1>2 DEF InMath, Holds, PlaceAt

\* What a step of the math warps that takes no segment leaves alone.
LEMMA MathKeeps ==
  ASSUME TileInv, NEW c \in SMs, math[c].pc # "get",
         UNCHANGED <<producerVars, mail>>,
         math' \in [SMs -> MathStates],
         math'[c].seg \in {math[c].seg, None},
         \A d \in SMs : d # c => math'[d] = math[d]
  PROVE  /\ Claims' /\ OnePlace' /\ Sentinel'
         /\ \A s \in SoundSegments : Queued(s)' <=> Queued(s)
         /\ \A d \in SMs : \A pc, s : d # c => (InMath(d, pc, s)' <=> InMath(d, pc, s))
         /\ \A d \in SMs : \A p, t : d # c => (Late(d, p, t)' <=> Late(d, p, t))
<1>1. /\ taskCount' = taskCount /\ state' = state /\ worker' = worker
      /\ unit' = unit /\ unitEnd' = unitEnd /\ mail' = mail
  BY DEF producerVars
<1>2. \A d, q : Claimed(d, q)' <=> Claimed(d, q)
  BY <1>1 DEF Claimed
<1>3. Claims'
  BY <1>1, <1>2, ClaimsKept
<1>4. \A s : Pending(s)' <=> Pending(s)
  BY <1>1, <1>2 DEF Pending
<1>5. ASSUME NEW s \in SoundSegments, NEW d \in SMs, NEW i \in Nat
      PROVE  /\ Holds(d, i, s)' => Holds(d, i, s)
             /\ i # 0 => (Holds(d, i, s)' <=> Holds(d, i, s))
  <2>1. CASE i # 0
    BY <1>1, <2>1 DEF Holds, PlaceAt
  <2>2. CASE i = 0 /\ d # c
    BY <1>1, <2>2 DEF Holds, PlaceAt
  <2>3. CASE i = 0 /\ d = c
    BY <1>1, <2>3, NotNone DEF Holds, PlaceAt
  <2> QED
    BY <2>1, <2>2, <2>3
<1>6. \A s \in SoundSegments : Queued(s)' <=> Queued(s)
  BY <1>4, <1>5 DEF Queued
<1>7. OnePlace'
  BY <1>4, <1>5 DEF TileInv, OnePlace
<1>8. Sentinel'
  BY <1>1 DEF TileInv, Sentinel
<1> QED
  BY <1>3, <1>6, <1>7, <1>8 DEF InMath, Late

Updated(f, p, t, v) == [f EXCEPT ![p][t] = v]

LEMMA PerTileUpdated ==
  ASSUME NEW f, PerTile(f), NEW p \in Phases, NEW t \in 0 .. NumTasks(p) - 1, NEW v \in Int
  PROVE  /\ PerTile(Updated(f, p, t, v))
         /\ Updated(f, p, t, v)[p][t] = v
         /\ \A q \in Phases : \A u \in 0 .. NumTasks(q) - 1 :
              ~(q = p /\ u = t) => Updated(f, p, t, v)[q][u] = f[q][u]
<1>1. f = [q \in Phases |-> f[q]] /\ \A q \in Phases : f[q] \in [0 .. NumTasks(q) - 1 -> Int]
  BY DEF PerTile
<1> DEFINE g == Updated(f, p, t, v)
<1>2. g = [q \in Phases |-> IF q = p THEN [f[p] EXCEPT ![t] = v] ELSE f[q]]
  BY <1>1 DEF Updated
<1> HIDE DEF g
<1>3. g[p] = [f[p] EXCEPT ![t] = v] /\ \A q \in Phases : q # p => g[q] = f[q]
  BY <1>2
<1>4. g[p] \in [0 .. NumTasks(p) - 1 -> Int] /\ g[p][t] = v
      /\ \A u \in 0 .. NumTasks(p) - 1 : u # t => g[p][u] = f[p][u]
  BY <1>1, <1>3
<1>5. g = [q \in Phases |-> g[q]]
  BY <1>2, <1>3
<1>6. \A q \in Phases : g[q] \in [0 .. NumTasks(q) - 1 -> Int]
  BY <1>1, <1>3, <1>4
<1>7. PerTile(g)
  BY <1>5, <1>6 DEF PerTile
<1>8. \A q \in Phases : \A u \in 0 .. NumTasks(q) - 1 :
        ~(q = p /\ u = t) => g[q][u] = f[q][u]
  BY <1>3, <1>4
<1> QED
  BY <1>4, <1>7, <1>8 DEF g

LEMMA StoreTile == ASSUME TileInv, NEW c \in SMs, StorePartial(c) PROVE TileInv'
<1>1. IInv /\ IInv'
  BY MathInv DEF TileInv, MathStep
<1>2. PICK seg : seg = math[c].seg
  OBVIOUS
<1>3. /\ math[c].pc = "store"
      /\ math' = [math EXCEPT ![c] = [math[c] EXCEPT !.pc = "ticket"]]
      /\ scratch' = [scratch EXCEPT ![seg.phase][SlotOf(seg.first, seg.split)] =
                       [task |-> seg.task, split |-> seg.split]]
      /\ UNCHANGED <<producerVars, mail>> /\ counter' = counter /\ finished' = finished
  BY <1>2 DEF StorePartial
<1>4. math \in [SMs -> MathStates] /\ math' \in [SMs -> MathStates]
  BY <1>1 DEF IInv
<1>5. math'[c].pc = "ticket" /\ math'[c].seg = seg /\ \A d \in SMs : d # c => math'[d] = math[d]
  BY <1>2, <1>3, <1>4 DEF MathStates
<1>6. /\ Claims' /\ OnePlace' /\ Sentinel'
      /\ \A s \in SoundSegments : Queued(s)' <=> Queued(s)
      /\ \A d \in SMs : \A pc, s : d # c => (InMath(d, pc, s)' <=> InMath(d, pc, s))
      /\ \A d \in SMs : \A p, t : d # c => (Late(d, p, t)' <=> Late(d, p, t))
  BY <1>2, <1>3, <1>4, <1>5, MathKeeps
<1>7. seg \in SoundSegments /\ ~Queued(seg) /\ seg.of > 1
  BY <1>2, <1>3, AtMath DEF TileInv, MathOk
<1>8. \A d \in SMs : \A pc : d # c => ~InMath(d, pc, seg)
  BY <1>2, <1>3, AloneAtMath
<1>9. ASSUME NEW s \in SoundSegments
      PROVE  /\ Unstored(s)' <=> Unstored(s) /\ s # seg
             /\ Early(s)' <=> Early(s)
  <2>1. ~InMath(c, "store", s)' /\ (InMath(c, "ticket", s)' <=> s = seg)
    BY <1>5 DEF InMath
  <2>2. ~InMath(c, "ticket", s) /\ (InMath(c, "store", s) <=> s = seg)
    BY <1>2, <1>3 DEF InMath
  <2>3. CASE s = seg
    <3>1. Unstored(s) /\ ~Unstored(s)'
      BY <1>6, <1>7, <1>8, <2>1, <2>2, <2>3 DEF Unstored
    <3>2. Early(s) /\ Early(s)'
      BY <2>1, <2>3, <3>1 DEF Early
    <3> QED
      BY <2>3, <3>1, <3>2
  <2>4. CASE s # seg
    <3>1. Unstored(s)' <=> Unstored(s)
      BY <1>6, <2>1, <2>2, <2>4 DEF Unstored
    <3>2. Early(s)' <=> Early(s)
      BY <1>6, <2>1, <2>2, <2>4, <3>1 DEF Early
    <3> QED
      BY <2>4, <3>1, <3>2
  <2> QED
    BY <2>3, <2>4
<1>10. /\ seg.phase \in Phases /\ SlotOf(seg.first, seg.split) \in Slots
       /\ [task |-> seg.task, split |-> seg.split] \in [task : Int, split : Int]
  <2>1. seg.phase \in Phases /\ seg.task \in Nat /\ seg.split \in Int /\ Owner(seg) \in Workers
    BY <1>7, PartFacts
  <2>2. SlotOf(seg.first, seg.split) = <<Owner(seg), IF seg.split = 0 THEN 0 ELSE 1>>
    BY DEF SlotOf, Owner
  <2> QED
    BY <2>1, <2>2 DEF Slots
<1>11. /\ scratch \in [Phases -> [Slots -> [task : Int, split : Int]]]
       /\ scratch' \in [Phases -> [Slots -> [task : Int, split : Int]]]
       /\ scratch'[seg.phase][SlotOf(seg.first, seg.split)] = [task |-> seg.task, split |-> seg.split]
       /\ \A p \in Phases : \A x \in Slots :
            ~(p = seg.phase /\ x = SlotOf(seg.first, seg.split)) => scratch'[p][x] = scratch[p][x]
  <2>1. scratch \in [Phases -> [Slots -> [task : Int, split : Int]]]
    BY DEF TileInv
  <2> QED
    BY <1>3, <1>10, <2>1
<1>12. Kept'
  <2>1. SUFFICES ASSUME NEW s \in SoundSegments, s.of > 1, ~Unstored(s)'
                 PROVE  scratch'[s.phase][SlotOf(s.first, s.split)] =
                          [task |-> s.task, split |-> s.split]
    BY DEF Kept
  <2>2. CASE s = seg
    BY <1>11, <2>2
  <2>3. CASE s # seg
    <3>1. scratch[s.phase][SlotOf(s.first, s.split)] = [task |-> s.task, split |-> s.split]
      BY <1>9, <2>1, <2>3 DEF TileInv, Kept
    <3>2. CASE s.phase = seg.phase /\ SlotOf(s.first, s.split) = SlotOf(seg.first, seg.split)
      <4>1. s.task = seg.task /\ s.split = seg.split
        BY <1>7, <2>1, <3>2, SlotsDisjoint
      <4> QED
        BY <1>11, <3>2, <4>1
    <3>3. CASE ~(s.phase = seg.phase /\ SlotOf(s.first, s.split) = SlotOf(seg.first, seg.split))
      <4>1. s.phase \in Phases /\ Owner(s) \in Workers
        BY PartFacts
      <4>2. SlotOf(s.first, s.split) = <<Owner(s), IF s.split = 0 THEN 0 ELSE 1>>
        BY DEF SlotOf, Owner
      <4>3. SlotOf(s.first, s.split) \in Slots
        BY <4>1, <4>2 DEF Slots
      <4> QED
        BY <1>11, <3>1, <3>3, <4>1, <4>3
    <3> QED
      BY <3>2, <3>3
  <2> QED
    BY <2>2, <2>3
<1>13. Tiles'
  <2>1. ASSUME NEW p \in Phases, NEW t \in 0 .. NumTasks(p) - 1 PROVE TileAt(p, t)'
    <3>1. TileAt(p, t)
      BY DEF TileInv, Tiles
    <3>2. Left(p, t)' = Left(p, t)
      BY <1>9, LeftSame DEF Tile
    <3>3. ~Late(c, p, t) /\ ~Late(c, p, t)'
      BY <1>3, <1>5 DEF Late
    <3>4. \A d \in SMs : /\ Late(d, p, t)' <=> Late(d, p, t)
                         /\ Late(d, p, t) => math'[d] = math[d]
      BY <1>5, <1>6, <3>3
    <3> QED
      BY <1>3, <3>1, <3>2, <3>4, TileSame
  <2> QED
    BY <2>1 DEF Tiles
<1>14. MathOk'
  <2>1. ASSUME NEW d \in SMs
        PROVE  /\ math'[d].pc = "get" <=> math'[d].seg = None
               /\ math'[d].pc \in {"store", "ticket", "reset"} => math'[d].seg.of > 1
    <3>1. CASE d = c
      BY <1>5, <1>7, <3>1, NotNone
    <3>2. CASE d # c
      BY <1>5, <3>2 DEF TileInv, MathOk
    <3> QED
      BY <3>1, <3>2
  <2> QED
    BY <2>1 DEF MathOk
<1>15. PerTile(counter)' /\ PerTile(finished)'
  BY <1>3 DEF TileInv, PerTile
<1> QED
  BY <1>1, <1>6, <1>11, <1>12, <1>13, <1>14, <1>15 DEF TileInv

LEMMA ResetTile == ASSUME TileInv, NEW c \in SMs, ResetCounter(c) PROVE TileInv'
<1>1. IInv /\ IInv'
  BY MathInv DEF TileInv, MathStep
<1>2. PICK seg : seg = math[c].seg
  OBVIOUS
<1>3. /\ math[c].pc = "reset"
      /\ math' = [math EXCEPT ![c] = [math[c] EXCEPT !.pc = "epilogue"]]
      /\ counter' = [counter EXCEPT ![seg.phase][seg.task] = 0]
      /\ UNCHANGED <<producerVars, mail>> /\ scratch' = scratch /\ finished' = finished
  BY <1>2 DEF ResetCounter
<1>4. math \in [SMs -> MathStates] /\ math' \in [SMs -> MathStates]
  BY <1>1 DEF IInv
<1>5. math'[c].pc = "epilogue" /\ math'[c].seg = seg
      /\ \A d \in SMs : d # c => math'[d] = math[d]
  BY <1>2, <1>3, <1>4 DEF MathStates
<1>6. /\ Claims' /\ OnePlace' /\ Sentinel'
      /\ \A s \in SoundSegments : Queued(s)' <=> Queued(s)
      /\ \A d \in SMs : \A pc, s : d # c => (InMath(d, pc, s)' <=> InMath(d, pc, s))
      /\ \A d \in SMs : \A p, t : d # c => (Late(d, p, t)' <=> Late(d, p, t))
  BY <1>2, <1>3, <1>4, <1>5, MathKeeps
<1>7. seg \in SoundSegments
  BY <1>2, <1>3, AtMath
<1>8. seg.phase \in Phases /\ seg.task \in 0 .. NumTasks(seg.phase) - 1
  BY <1>7, TileBounds
<1>9. ASSUME NEW s \in SoundSegments
      PROVE  (Unstored(s)' <=> Unstored(s)) /\ (Early(s)' <=> Early(s))
  <2>1. /\ ~InMath(c, "store", s) /\ ~InMath(c, "ticket", s)
        /\ ~InMath(c, "store", s)' /\ ~InMath(c, "ticket", s)'
    BY <1>3, <1>5 DEF InMath
  <2>2. Unstored(s)' <=> Unstored(s)
    BY <1>6, <2>1 DEF Unstored
  <2> QED
    BY <1>6, <2>1, <2>2 DEF Early
<1>10. /\ PerTile(counter')
       /\ counter'[seg.phase][seg.task] = 0
       /\ \A p \in Phases : \A t \in 0 .. NumTasks(p) - 1 :
            ~(p = seg.phase /\ t = seg.task) => counter'[p][t] = counter[p][t]
  <2>1. PerTile(counter) /\ 0 \in Int
    BY DEF TileInv
  <2>2. counter' = Updated(counter, seg.phase, seg.task, 0)
    BY <1>3 DEF Updated
  <2> QED
    BY <1>8, <2>1, <2>2, PerTileUpdated
<1>11. Tiles'
  <2>1. ASSUME NEW p \in Phases, NEW t \in 0 .. NumTasks(p) - 1 PROVE TileAt(p, t)'
    <3>1. TileAt(p, t)
      BY DEF TileInv, Tiles
    <3>2. Left(p, t)' = Left(p, t)
      BY <1>9, LeftSame DEF Tile
    <3>3. /\ Late(c, p, t) <=> p = seg.phase /\ t = seg.task
          /\ Late(c, p, t)' <=> p = seg.phase /\ t = seg.task
      BY <1>2, <1>3, <1>5 DEF Late
    <3>4. CASE p = seg.phase /\ t = seg.task
      <4>1. Left(p, t) = {} /\ finished[p][t] = 0 /\ \A d \in SMs : Late(d, p, t) => d = c
        BY <3>1, <3>3, <3>4 DEF TileAt
      <4>2. \A d \in SMs : Late(d, p, t)' => d = c
        BY <1>6, <4>1
      <4> QED
        BY <1>3, <1>5, <1>10, <3>2, <3>3, <3>4, <4>1, <4>2 DEF TileAt
    <3>5. CASE ~(p = seg.phase /\ t = seg.task)
      <4>1. \A d \in SMs : /\ Late(d, p, t)' <=> Late(d, p, t)
                           /\ Late(d, p, t) => math'[d] = math[d]
        BY <1>5, <1>6, <3>3, <3>5
      <4> QED
        BY <1>3, <1>10, <3>1, <3>2, <3>5, <4>1, TileSame
    <3> QED
      BY <3>4, <3>5
  <2> QED
    BY <2>1 DEF Tiles
<1>12. MathOk'
  <2>1. ASSUME NEW d \in SMs
        PROVE  /\ math'[d].pc = "get" <=> math'[d].seg = None
               /\ math'[d].pc \in {"store", "ticket", "reset"} => math'[d].seg.of > 1
    <3>1. CASE d = c
      BY <1>5, <1>7, <3>1, NotNone
    <3>2. CASE d # c
      BY <1>5, <3>2 DEF TileInv, MathOk
    <3> QED
      BY <3>1, <3>2
  <2> QED
    BY <2>1 DEF MathOk
<1>13. PerTile(finished)' /\ PerTile(counter)'
  BY <1>3, <1>10 DEF TileInv, PerTile
<1>14. Kept'
  BY <1>3, <1>9 DEF TileInv, Kept
<1> QED
  BY <1>1, <1>3, <1>6, <1>11, <1>12, <1>13, <1>14 DEF TileInv

LEMMA EpilogueTile == ASSUME TileInv, NEW c \in SMs, Epilogue(c) PROVE TileInv'
<1>1. IInv /\ IInv'
  BY MathInv DEF TileInv, MathStep
<1>2. PICK seg : seg = math[c].seg
  OBVIOUS
<1>3. /\ math[c].pc = "epilogue"
      /\ math' = [math EXCEPT ![c] = NoSegment]
      /\ finished' = [finished EXCEPT ![seg.phase][seg.task] = @ + 1]
      /\ UNCHANGED <<producerVars, mail>> /\ scratch' = scratch /\ counter' = counter
  BY <1>2 DEF Epilogue
<1>4. math \in [SMs -> MathStates] /\ math' \in [SMs -> MathStates]
  BY <1>1 DEF IInv
<1>5. math'[c].pc = "get" /\ math'[c].seg = None
      /\ \A d \in SMs : d # c => math'[d] = math[d]
  BY <1>3, <1>4 DEF NoSegment
<1>6. /\ Claims' /\ OnePlace' /\ Sentinel'
      /\ \A s \in SoundSegments : Queued(s)' <=> Queued(s)
      /\ \A d \in SMs : \A pc, s : d # c => (InMath(d, pc, s)' <=> InMath(d, pc, s))
      /\ \A d \in SMs : \A p, t : d # c => (Late(d, p, t)' <=> Late(d, p, t))
  BY <1>3, <1>4, <1>5, MathKeeps
<1>7. seg \in SoundSegments
  BY <1>2, <1>3, AtMath
<1>8. seg.phase \in Phases /\ seg.task \in 0 .. NumTasks(seg.phase) - 1
  BY <1>7, TileBounds
<1>9. ASSUME NEW s \in SoundSegments
      PROVE  (Unstored(s)' <=> Unstored(s)) /\ (Early(s)' <=> Early(s))
  <2>1. /\ ~InMath(c, "store", s) /\ ~InMath(c, "ticket", s)
        /\ ~InMath(c, "store", s)' /\ ~InMath(c, "ticket", s)'
    BY <1>3, <1>5 DEF InMath
  <2>2. Unstored(s)' <=> Unstored(s)
    BY <1>6, <2>1 DEF Unstored
  <2> QED
    BY <1>6, <2>1, <2>2 DEF Early
\* The tile was unfinished, and this CTA alone had it.
<1>10. /\ Left(seg.phase, seg.task) = {} /\ finished[seg.phase][seg.task] = 0
       /\ counter[seg.phase][seg.task] = 0
       /\ \A d \in SMs : Late(d, seg.phase, seg.task) => d = c
  <2>1. Late(c, seg.phase, seg.task)
    BY <1>2, <1>3 DEF Late
  <2>2. TileAt(seg.phase, seg.task)
    BY <1>8 DEF TileInv, Tiles
  <2>3. PICK e \in SMs :
          /\ Late(e, seg.phase, seg.task)
          /\ \A d \in SMs : Late(d, seg.phase, seg.task) => d = e
          /\ counter[seg.phase][seg.task] =
               IF math[e].pc = "reset" THEN Of(seg.phase, seg.task) ELSE 0
    BY <2>1, <2>2 DEF TileAt
  <2>4. c = e
    BY <2>1, <2>3
  <2>5. math[e].pc # "reset"
    BY <1>3, <2>4
  <2>6. Left(seg.phase, seg.task) = {} /\ finished[seg.phase][seg.task] = 0
    BY <2>1, <2>2 DEF TileAt
  <2> QED
    BY <2>3, <2>4, <2>5, <2>6
<1>11. /\ PerTile(finished')
       /\ finished'[seg.phase][seg.task] = 1
       /\ \A p \in Phases : \A t \in 0 .. NumTasks(p) - 1 :
            ~(p = seg.phase /\ t = seg.task) => finished'[p][t] = finished[p][t]
  <2>1. PerTile(finished) /\ 1 \in Int
    BY DEF TileInv
  <2>2. finished' = Updated(finished, seg.phase, seg.task, 1)
    BY <1>3, <1>10 DEF Updated
  <2> QED
    BY <1>8, <2>1, <2>2, PerTileUpdated
<1>12. Tiles'
  <2>1. ASSUME NEW p \in Phases, NEW t \in 0 .. NumTasks(p) - 1 PROVE TileAt(p, t)'
    <3>1. TileAt(p, t)
      BY DEF TileInv, Tiles
    <3>2. Left(p, t)' = Left(p, t)
      BY <1>9, LeftSame DEF Tile
    <3>3. ~Late(c, p, t)' /\ (Late(c, p, t) <=> p = seg.phase /\ t = seg.task)
      BY <1>2, <1>3, <1>5 DEF Late
    <3>4. CASE p = seg.phase /\ t = seg.task
      <4>1. \A d \in SMs : ~Late(d, p, t)'
        BY <1>6, <1>10, <3>3, <3>4
      <4> QED
        BY <1>3, <1>10, <1>11, <3>2, <3>4, <4>1 DEF TileAt
    <3>5. CASE ~(p = seg.phase /\ t = seg.task)
      <4>1. \A d \in SMs : /\ Late(d, p, t)' <=> Late(d, p, t)
                           /\ Late(d, p, t) => math'[d] = math[d]
        BY <1>5, <1>6, <3>3, <3>5
      <4> QED
        BY <1>3, <1>11, <3>1, <3>2, <3>5, <4>1, TileSame
    <3> QED
      BY <3>4, <3>5
  <2> QED
    BY <2>1 DEF Tiles
<1>13. MathOk'
  <2>1. ASSUME NEW d \in SMs
        PROVE  /\ math'[d].pc = "get" <=> math'[d].seg = None
               /\ math'[d].pc \in {"store", "ticket", "reset"} => math'[d].seg.of > 1
    <3>1. CASE d = c
      BY <1>5, <3>1
    <3>2. CASE d # c
      BY <1>5, <3>2 DEF TileInv, MathOk
    <3> QED
      BY <3>1, <3>2
  <2> QED
    BY <2>1 DEF MathOk
<1>14. PerTile(finished)' /\ PerTile(counter)'
  BY <1>3, <1>11 DEF TileInv, PerTile
<1>15. Kept'
  BY <1>3, <1>9 DEF TileInv, Kept
<1> QED
  BY <1>1, <1>3, <1>6, <1>12, <1>13, <1>14, <1>15 DEF TileInv

LEMMA TicketTile == ASSUME TileInv, NEW c \in SMs, TakeTicket(c) PROVE TileInv'
<1>1. IInv /\ IInv'
  BY MathInv DEF TileInv, MathStep
<1>2. PICK seg : seg = math[c].seg
  OBVIOUS
<1>3. PICK n : n = Cardinality(Left(seg.phase, seg.task))
  OBVIOUS
<1>4. PICK ticket : ticket = counter[seg.phase][seg.task]
  OBVIOUS
<1>5. /\ math[c].pc = "ticket"
      /\ math' = [math EXCEPT ![c] =
                    IF ticket = seg.of - 1 THEN [math[c] EXCEPT !.pc = "reset"] ELSE NoSegment]
      /\ counter' = [counter EXCEPT ![seg.phase][seg.task] = @ + 1]
      /\ UNCHANGED <<producerVars, mail>> /\ scratch' = scratch /\ finished' = finished
  BY <1>2, <1>4 DEF TakeTicket
<1>6. math \in [SMs -> MathStates] /\ math' \in [SMs -> MathStates]
  BY <1>1 DEF IInv
<1>7. /\ ticket = seg.of - 1 => math'[c].pc = "reset" /\ math'[c].seg = seg
      /\ ticket # seg.of - 1 => math'[c].pc = "get" /\ math'[c].seg = None
      /\ \A d \in SMs : d # c => math'[d] = math[d]
  BY <1>2, <1>5, <1>6 DEF MathStates, NoSegment
<1>8. math'[c].seg \in {seg, None} /\ math'[c].pc \notin {"store", "ticket", "epilogue"}
  BY <1>7
<1>9. /\ Claims' /\ OnePlace' /\ Sentinel'
      /\ \A s \in SoundSegments : Queued(s)' <=> Queued(s)
      /\ \A d \in SMs : \A pc, s : d # c => (InMath(d, pc, s)' <=> InMath(d, pc, s))
      /\ \A d \in SMs : \A p, t : d # c => (Late(d, p, t)' <=> Late(d, p, t))
  BY <1>2, <1>5, <1>6, <1>7, <1>8, MathKeeps
<1>10. seg \in SoundSegments /\ ~Queued(seg) /\ seg.of > 1
  BY <1>2, <1>5, AtMath DEF TileInv, MathOk
<1>11. /\ seg.phase \in Phases /\ seg.task \in 0 .. NumTasks(seg.phase) - 1
       /\ seg \in Tile(seg.phase, seg.task)
  BY <1>10, TileBounds
<1>12. \A d \in SMs : \A pc : d # c => ~InMath(d, pc, seg)
  BY <1>2, <1>5, AloneAtMath
<1>13. ASSUME NEW s \in SoundSegments
       PROVE  /\ Unstored(s)' <=> Unstored(s)
              /\ Early(s)' <=> Early(s) /\ s # seg
              /\ Early(seg)
  <2>1. ~InMath(c, "store", s)' /\ ~InMath(c, "ticket", s)'
    BY <1>8 DEF InMath
  <2>2. ~InMath(c, "store", s) /\ (InMath(c, "ticket", s) <=> s = seg)
    BY <1>2, <1>5 DEF InMath
  <2>3. Unstored(s)' <=> Unstored(s)
    BY <1>9, <2>1, <2>2 DEF Unstored
  <2>4. Early(seg)
    <3>1. InMath(c, "ticket", seg)
      BY <1>2, <1>5 DEF InMath
    <3> QED
      BY <3>1 DEF Early
  <2>5. CASE s = seg
    <3>1. ~Unstored(s)'
      BY <1>9, <1>10, <1>12, <2>1, <2>5 DEF Unstored
    <3>2. ~Early(s)'
      BY <1>9, <1>12, <2>1, <2>5, <3>1 DEF Early
    <3> QED
      BY <2>3, <2>4, <2>5, <3>2
  <2>6. CASE s # seg
    <3>1. Early(s)' <=> Early(s)
      BY <1>9, <2>1, <2>2, <2>3, <2>6 DEF Early
    <3> QED
      BY <2>3, <2>4, <2>6, <3>1
  <2> QED
    BY <2>5, <2>6
\* Its part was one of those left, so nobody has finished the tile.
<1>14. /\ seg \in Left(seg.phase, seg.task) /\ finished[seg.phase][seg.task] = 0
       /\ ticket = seg.of - n
       /\ \A d \in SMs : ~Late(d, seg.phase, seg.task)
  <2>1. seg \in Left(seg.phase, seg.task)
    BY <1>10, <1>11, <1>13 DEF Left
  <2>2. TileAt(seg.phase, seg.task)
    BY <1>11 DEF TileInv, Tiles
  <2>3. seg.of = Of(seg.phase, seg.task)
    BY <1>10, PartFacts
  <2>4. Left(seg.phase, seg.task) # {}
    BY <2>1
  <2>5. /\ finished[seg.phase][seg.task] = 0
        /\ counter[seg.phase][seg.task] = Of(seg.phase, seg.task) - Cardinality(Left(seg.phase, seg.task))
        /\ \A d \in SMs : ~Late(d, seg.phase, seg.task)
    BY <2>2, <2>4 DEF TileAt
  <2> QED
    BY <1>3, <1>4, <2>1, <2>3, <2>5
<1>15. /\ Left(seg.phase, seg.task)' = Left(seg.phase, seg.task) \ {seg}
       /\ n \in Nat /\ Cardinality(Left(seg.phase, seg.task)') = n - 1
       /\ n - 1 \in Nat
       /\ Left(seg.phase, seg.task)' = {} <=> n = 1
  <2>1. Left(seg.phase, seg.task)' = Left(seg.phase, seg.task) \ {seg}
    BY <1>13 DEF Left, Tile
  <2>2. IsFiniteSet(Left(seg.phase, seg.task)) /\ n \in Nat
    BY <1>3, <1>11, LeftSize
  <2>3. /\ IsFiniteSet(Left(seg.phase, seg.task) \ {seg})
        /\ Cardinality(Left(seg.phase, seg.task) \ {seg}) = n - 1
    BY <1>3, <1>14, <2>2, FS_RemoveElement
  <2>4. n - 1 \in Nat
    BY <2>3, FS_CardinalityType
  <2>5. Left(seg.phase, seg.task) \ {seg} = {} <=> n - 1 = 0
    BY <2>3, FS_EmptySet
  <2> QED
    BY <2>1, <2>2, <2>3, <2>4, <2>5
<1>16. /\ seg.of \in Int /\ seg.of = Of(seg.phase, seg.task)
  BY <1>10, PartFacts
<1>17. /\ PerTile(counter')
       /\ counter'[seg.phase][seg.task] = ticket + 1
       /\ \A p \in Phases : \A t \in 0 .. NumTasks(p) - 1 :
            ~(p = seg.phase /\ t = seg.task) => counter'[p][t] = counter[p][t]
  <2>1. PerTile(counter) /\ ticket + 1 \in Int
    BY <1>14, <1>15, <1>16 DEF TileInv
  <2>2. counter' = Updated(counter, seg.phase, seg.task, ticket + 1)
    BY <1>4, <1>5 DEF Updated
  <2> QED
    BY <1>11, <2>1, <2>2, PerTileUpdated
<1>18. TileAt(seg.phase, seg.task)'
  <2>1. \A d \in SMs : d # c => ~Late(d, seg.phase, seg.task)'
    BY <1>9, <1>14
  <2>2. CASE n = 1
    <3>1. ticket = seg.of - 1
      BY <1>14, <2>2
    <3>2. math'[c].pc = "reset" /\ math'[c].seg = seg
      BY <1>7, <3>1
    <3>3. Late(c, seg.phase, seg.task)'
      BY <3>2 DEF Late
    <3>4. counter'[seg.phase][seg.task] = Of(seg.phase, seg.task)
      BY <1>16, <1>17, <3>1
    <3>5. Left(seg.phase, seg.task)' = {}
      BY <1>15, <2>2
    <3>6. finished'[seg.phase][seg.task] = 0
      BY <1>5, <1>14
    <3> QED
      BY <2>1, <3>2, <3>3, <3>4, <3>5, <3>6 DEF TileAt
  <2>3. CASE n # 1
    <3>1. ticket # seg.of - 1
      BY <1>14, <1>15, <1>16, <2>3
    <3>2. ~Late(c, seg.phase, seg.task)'
      BY <1>7, <3>1 DEF Late
    <3>3. counter'[seg.phase][seg.task] = seg.of - (n - 1)
      BY <1>14, <1>15, <1>16, <1>17
    <3>4. counter'[seg.phase][seg.task] =
            Of(seg.phase, seg.task) - Cardinality(Left(seg.phase, seg.task)')
      BY <1>15, <1>16, <3>3
    <3>5. Left(seg.phase, seg.task)' # {}
      BY <1>15, <2>3
    <3>6. finished'[seg.phase][seg.task] = 0
      BY <1>5, <1>14
    <3> QED
      BY <2>1, <3>2, <3>4, <3>5, <3>6 DEF TileAt
  <2> QED
    BY <2>2, <2>3
<1>19. Tiles'
  <2>1. ASSUME NEW p \in Phases, NEW t \in 0 .. NumTasks(p) - 1,
               ~(p = seg.phase /\ t = seg.task)
        PROVE  TileAt(p, t)'
    <3>1. TileAt(p, t)
      BY DEF TileInv, Tiles
    <3>2. Left(p, t)' = Left(p, t)
      <4>1. \A s \in Tile(p, t) : Early(s)' <=> Early(s)
        BY <1>13, <2>1 DEF Tile
      <4> QED
        BY <4>1, LeftSame
    <3>3. ~Late(c, p, t)' /\ ~Late(c, p, t)
      BY <1>2, <1>5, <1>7, <2>1 DEF Late
    <3>4. \A d \in SMs : /\ Late(d, p, t)' <=> Late(d, p, t)
                         /\ Late(d, p, t) => math'[d] = math[d]
      BY <1>7, <1>9, <3>3
    <3> QED
      BY <1>5, <1>17, <2>1, <3>1, <3>2, <3>4, TileSame
  <2> QED
    BY <1>18, <2>1 DEF Tiles
<1>20. MathOk'
  <2>1. ASSUME NEW d \in SMs
        PROVE  /\ math'[d].pc = "get" <=> math'[d].seg = None
               /\ math'[d].pc \in {"store", "ticket", "reset"} => math'[d].seg.of > 1
    <3>1. CASE d = c
      BY <1>7, <1>10, <3>1, NotNone
    <3>2. CASE d # c
      BY <1>7, <3>2 DEF TileInv, MathOk
    <3> QED
      BY <3>1, <3>2
  <2> QED
    BY <2>1 DEF MathOk
<1>21. PerTile(finished)' /\ PerTile(counter)'
  BY <1>5, <1>17 DEF TileInv, PerTile
<1>22. Kept'
  BY <1>5, <1>13 DEF TileInv, Kept
<1> QED
  BY <1>1, <1>5, <1>9, <1>19, <1>20, <1>21, <1>22 DEF TileInv

\* A tile of one part.
LEMMA SinglePart ==
  ASSUME NEW seg \in SoundSegments, ~(seg.of > 1)
  PROVE  seg.of = 1 /\ Tile(seg.phase, seg.task) = {seg}
<1>1. seg.split \in 0 .. seg.of - 1 /\ seg.of \in Int /\ seg.of = Of(seg.phase, seg.task)
  BY PartFacts
<1>2. seg.of = 1 /\ seg.split = 0
  BY <1>1
<1>3. ASSUME NEW s \in Tile(seg.phase, seg.task) PROVE s = seg
  <2>1. s \in SoundSegments /\ s.phase = seg.phase /\ s.task = seg.task
    BY DEF Tile
  <2>2. s.of = Of(s.phase, s.task) /\ s.split \in 0 .. s.of - 1
    BY <2>1, PartFacts
  <2>3. s.of = 1
    BY <1>1, <1>2, <2>1, <2>2
  <2>4. s.split = 0
    BY <2>2, <2>3
  <2> QED
    BY <1>2, <2>1, <2>4, PartsAgree
<1>4. seg \in Tile(seg.phase, seg.task)
  BY TileBounds
<1> QED
  BY <1>2, <1>3, <1>4

LEMMA GemmTile == ASSUME TileInv, NEW c \in SMs, Gemm(c) PROVE TileInv'
<1>1. IInv /\ IInv'
  BY MathInv DEF TileInv, MathStep
<1>2. PICK seg : seg = Head(mail[c])
  OBVIOUS
<1>3. PICK n \in Nat : n = Len(mail[c])
  BY <1>1 DEF IInv
<1>4. PICK pc : pc = IF seg.of > 1 THEN "store" ELSE "epilogue"
  OBVIOUS
<1>5. /\ math[c].pc = "get" /\ mail[c] # <<>> /\ seg # None
      /\ math' = [math EXCEPT ![c] = [pc |-> pc, seg |-> seg]]
      /\ mail' = [mail EXCEPT ![c] = Tail(@)]
      /\ UNCHANGED producerVars
      /\ scratch' = scratch /\ counter' = counter /\ finished' = finished
  BY <1>2, <1>4 DEF Gemm, tileVars
<1>6. mail \in [SMs -> Seq(Tasks)] /\ math \in [SMs -> MathStates]
  BY <1>1 DEF IInv
<1>7. /\ math'[c].pc = pc /\ math'[c].seg = seg /\ mail'[c] = Tail(mail[c])
      /\ \A d \in SMs : d # c => math'[d] = math[d] /\ mail'[d] = mail[d]
  BY <1>5, <1>6
<1>8. /\ n >= 1 /\ seg = mail[c][1] /\ seg \in Tasks
      /\ Len(mail'[c]) = n - 1
      /\ \A i \in 1 .. n - 1 : mail'[c][i] = mail[c][i + 1]
  <2>1. PICK m \in Seq(Tasks) : m = mail[c]
    BY <1>6
  <2>2. n = Len(m) /\ n >= 1 /\ seg = m[1] /\ mail'[c] = Tail(m)
    BY <1>2, <1>3, <1>5, <1>7, <2>1
  <2>3. Len(Tail(m)) = n - 1 /\ \A i \in 1 .. n - 1 : Tail(m)[i] = m[i + 1]
    BY <2>1, <2>2
  <2>4. m[1] \in Tasks
    BY <2>1, <2>2
  <2> QED
    BY <2>1, <2>2, <2>3, <2>4
<1>9. seg \in SoundSegments
  BY <1>5, <1>8 DEF Tasks
<1>10. math[c].seg = None
  BY <1>5 DEF TileInv, MathOk
<1>11. ASSUME NEW d \in SMs, NEW i \in Nat, NEW s \in SoundSegments
       PROVE  /\ d # c => (Holds(d, i, s)' <=> Holds(d, i, s))
              /\ Holds(c, i, s)' <=> Holds(c, i + 1, s)
              /\ ~Holds(c, 0, s)
  <2>1. d # c => (Holds(d, i, s)' <=> Holds(d, i, s))
    BY <1>7 DEF Holds, PlaceAt
  <2>2. ~Holds(c, 0, s)
    BY <1>10, NotNone DEF Holds, PlaceAt
  <2>3. CASE i = 0
    <3>1. Holds(c, 0, s)' <=> s = seg
      BY <1>7, <1>8 DEF Holds, PlaceAt
    <3>2. Holds(c, 1, s) <=> s = seg
      BY <1>3, <1>8 DEF Holds, PlaceAt
    <3> QED
      BY <2>1, <2>2, <2>3, <3>1, <3>2
  <2>4. CASE i # 0
    <3>1. i \in 0 .. Len(mail'[c]) <=> i + 1 \in 0 .. Len(mail[c])
      BY <1>3, <1>8
    <3>2. i \in 0 .. Len(mail'[c]) => PlaceAt(c, i)' = PlaceAt(c, i + 1)
      BY <1>8, <2>4 DEF PlaceAt
    <3> QED
      BY <2>1, <2>2, <3>1, <3>2 DEF Holds
  <2> QED
    BY <2>3, <2>4
<1>12. /\ taskCount' = taskCount /\ state' = state /\ worker' = worker
       /\ unit' = unit /\ unitEnd' = unitEnd
  BY <1>5 DEF producerVars
<1>13. \A d, q : Claimed(d, q)' <=> Claimed(d, q)
  BY <1>12 DEF Claimed
<1>14. Claims'
  BY <1>12, <1>13, ClaimsKept
<1>15. \A s : Pending(s)' <=> Pending(s)
  BY <1>12, <1>13 DEF Pending
<1>16. OnePlace'
  <2>1. SUFFICES ASSUME NEW s \in SoundSegments, NEW d \in SMs, NEW i \in Nat, Holds(d, i, s)',
                        NEW e \in SMs, NEW j \in Nat
                 PROVE  ~Pending(s)' /\ (Holds(e, j, s)' => e = d /\ j = i)
    BY DEF OnePlace
  <2>2. PICK k \in Nat : Holds(d, k, s) /\ k = IF d = c THEN i + 1 ELSE i
    BY <1>11, <2>1
  <2>3. ~Pending(s) /\ \A x \in SMs : \A y \in Nat : Holds(x, y, s) => x = d /\ y = k
    BY <2>2 DEF TileInv, OnePlace
  <2>4. ASSUME Holds(e, j, s)' PROVE e = d /\ j = i
    <3>1. PICK l \in Nat : Holds(e, l, s) /\ l = IF e = c THEN j + 1 ELSE j
      BY <1>11, <2>4
    <3> QED
      BY <2>2, <2>3, <3>1
  <2> QED
    BY <1>15, <2>3, <2>4
<1>17. /\ Holds(c, 1, seg) /\ ~Pending(seg)
       /\ \A d \in SMs : \A j \in Nat : Holds(d, j, seg) => d = c /\ j = 1
  <2>1. Holds(c, 1, seg)
    BY <1>3, <1>8 DEF Holds, PlaceAt
  <2> QED
    BY <1>9, <2>1 DEF TileInv, OnePlace
<1>18. ASSUME NEW s \in SoundSegments PROVE Queued(s)' <=> Queued(s) /\ s # seg
  <2>1. CASE s = seg
    <3>1. \A d \in SMs : \A i \in Nat \ {0} : ~Holds(d, i, seg)'
      <4> TAKE d \in SMs
      <4> TAKE i \in Nat \ {0}
      <4>1. i + 1 \in Nat /\ i + 1 # 1
        OBVIOUS
      <4>2. d # c => ~Holds(d, i, seg)
        BY <1>17
      <4>3. ~Holds(c, i + 1, seg)
        BY <1>17, <4>1
      <4> QED
        BY <1>9, <1>11, <4>2, <4>3
    <3> QED
      BY <1>15, <1>17, <2>1, <3>1 DEF Queued
  <2>2. CASE s # seg
    <3>1. ASSUME NEW d \in SMs, NEW i \in Nat \ {0}, Holds(d, i, s)' PROVE Queued(s)
      <4>1. i + 1 \in Nat \ {0} /\ i \in Nat
        OBVIOUS
      <4>2. Holds(d, i, s) \/ (d = c /\ Holds(c, i + 1, s))
        BY <1>11, <3>1, <4>1
      <4> QED
        BY <4>1, <4>2 DEF Queued
    <3>2. ASSUME NEW d \in SMs, NEW i \in Nat \ {0}, Holds(d, i, s) PROVE Queued(s)'
      <4>1. CASE d # c
        <5>1. Holds(d, i, s)'
          BY <1>11, <3>2, <4>1
        <5> QED
          BY <5>1 DEF Queued
      <4>2. CASE d = c
        <5>1. i # 1
          BY <1>8, <2>2, <3>2, <4>2 DEF Holds, PlaceAt
        <5>2. PICK k \in Nat \ {0} : i = k + 1
          <6>1. i - 1 \in Nat \ {0} /\ i = (i - 1) + 1
            BY <5>1
          <6> QED
            BY <6>1
        <5>3. Holds(c, k, s)'
          BY <1>11, <3>2, <4>2, <5>2
        <5> QED
          BY <5>3 DEF Queued
      <4> QED
        BY <4>1, <4>2
    <3>3. Queued(s)' => Queued(s)
      BY <1>15, <3>1 DEF Queued
    <3>4. Queued(s) => Queued(s)'
      BY <1>15, <3>2 DEF Queued
    <3> QED
      BY <2>2, <3>3, <3>4
  <2> QED
    BY <2>1, <2>2
<1>19. Queued(seg)
  BY <1>17 DEF Queued
<1>20. \A d \in SMs : \A x : ~InMath(d, x, seg)
  <2>1. ASSUME NEW d \in SMs, NEW x, InMath(d, x, seg) PROVE FALSE
    <3>1. Len(mail[d]) \in Nat
      BY <1>6
    <3>2. Holds(d, 0, seg)
      BY <2>1, <3>1 DEF InMath, Holds, PlaceAt
    <3> QED
      BY <1>17, <3>2
  <2> QED
    BY <2>1
<1>21. /\ \A d \in SMs : \A x, s : d # c => (InMath(d, x, s)' <=> InMath(d, x, s))
       /\ \A d \in SMs : \A p, t : d # c => (Late(d, p, t)' <=> Late(d, p, t))
  BY <1>7 DEF InMath, Late
\* A part to be stored is still ahead of the store; one alone in its tile has
\* nothing to store.
<1>22. ASSUME NEW s \in SoundSegments
       PROVE  /\ Unstored(s)' <=> Unstored(s) /\ (s = seg => seg.of > 1)
              /\ Early(s)' <=> Early(s) /\ (s = seg => seg.of > 1)
              /\ Early(seg)
  <2>1. ~InMath(c, "store", s) /\ ~InMath(c, "ticket", s)
    BY <1>5 DEF InMath
  <2>2. ~InMath(c, "ticket", s)' /\ (InMath(c, "store", s)' <=> s = seg /\ seg.of > 1)
    BY <1>4, <1>7 DEF InMath
  <2>3. Unstored(seg) /\ Early(seg)
    BY <1>19 DEF Unstored, Early
  <2>4. Unstored(s)' <=> Unstored(s) /\ (s = seg => seg.of > 1)
    <3>1. CASE s = seg
      BY <1>18, <1>20, <1>21, <2>2, <2>3, <3>1 DEF Unstored
    <3>2. CASE s # seg
      BY <1>18, <1>21, <2>1, <2>2, <3>2 DEF Unstored
    <3> QED
      BY <3>1, <3>2
  <2>5. Early(s)' <=> Early(s) /\ (s = seg => seg.of > 1)
    <3>1. CASE s = seg
      BY <1>20, <1>21, <2>2, <2>3, <2>4, <3>1 DEF Early
    <3>2. CASE s # seg
      BY <1>21, <2>1, <2>2, <2>4, <3>2 DEF Early
    <3> QED
      BY <3>1, <3>2
  <2> QED
    BY <2>3, <2>4, <2>5
<1>23. /\ seg.phase \in Phases /\ seg.task \in 0 .. NumTasks(seg.phase) - 1
       /\ seg \in Tile(seg.phase, seg.task)
  BY <1>9, TileBounds
<1>24. \A p, t : ~Late(c, p, t)
  BY <1>5 DEF Late
<1>25. Tiles'
  <2>1. ASSUME NEW p \in Phases, NEW t \in 0 .. NumTasks(p) - 1 PROVE TileAt(p, t)'
    <3>1. TileAt(p, t)
      BY DEF TileInv, Tiles
    <3>2. CASE seg.of > 1 \/ ~(p = seg.phase /\ t = seg.task)
      <4>1. \A s \in Tile(p, t) : Early(s)' <=> Early(s)
        BY <1>22, <3>2 DEF Tile
      <4>2. Left(p, t)' = Left(p, t)
        BY <4>1, LeftSame
      <4>3. ~Late(c, p, t)'
        BY <1>4, <1>7, <3>2 DEF Late
      <4>4. \A d \in SMs : /\ Late(d, p, t)' <=> Late(d, p, t)
                           /\ Late(d, p, t) => math'[d] = math[d]
        BY <1>7, <1>21, <1>24, <4>3
      <4> QED
        BY <1>5, <3>1, <4>2, <4>4, TileSame
    <3>3. CASE ~(seg.of > 1) /\ p = seg.phase /\ t = seg.task
      <4>1. seg.of = 1 /\ Tile(p, t) = {seg} /\ Of(p, t) = 1
        BY <1>9, <3>3, SinglePart, PartFacts
      <4>2. Early(seg) /\ ~Early(seg)'
        BY <1>9, <1>22, <3>3
      <4>3. Left(p, t) = {seg} /\ Left(p, t)' = {}
        BY <4>1, <4>2 DEF Left, Tile
      <4>4. Cardinality({seg}) = 1
        BY FS_Singleton, Zenon
      <4>5. Left(p, t) # {}
        BY <4>3
      <4>6. /\ finished[p][t] = 0
            /\ counter[p][t] = Of(p, t) - Cardinality(Left(p, t))
            /\ \A d \in SMs : ~Late(d, p, t)
        BY <3>1, <4>5 DEF TileAt
      <4>7. Cardinality(Left(p, t)) = 1
        BY <4>3, <4>4
      <4>8. counter'[p][t] = 0 /\ finished'[p][t] = 0
        BY <1>5, <4>1, <4>6, <4>7
      <4>9. pc = "epilogue"
        BY <1>4, <3>3
      <4>10. Late(c, p, t)' /\ math'[c].pc # "reset"
        BY <1>7, <3>3, <4>9 DEF Late
      <4>11. \A d \in SMs : Late(d, p, t)' => d = c
        BY <1>21, <4>6
      <4> QED
        BY <4>3, <4>8, <4>10, <4>11 DEF TileAt
    <3> QED
      BY <3>2, <3>3
  <2> QED
    BY <2>1 DEF Tiles
<1>26. MathOk'
  <2>1. ASSUME NEW d \in SMs
        PROVE  /\ math'[d].pc = "get" <=> math'[d].seg = None
               /\ math'[d].pc \in {"store", "ticket", "reset"} => math'[d].seg.of > 1
    <3>1. CASE d = c
      <4>1. pc \in {"store", "epilogue"} /\ (pc = "store" => seg.of > 1)
        BY <1>4
      <4> QED
        BY <1>5, <1>7, <3>1, <4>1
    <3>2. CASE d # c
      BY <1>7, <3>2 DEF TileInv, MathOk
    <3> QED
      BY <3>1, <3>2
  <2> QED
    BY <2>1 DEF MathOk
<1>27. Kept'
  <2>1. ASSUME NEW s \in SoundSegments, s.of > 1 PROVE Unstored(s)' <=> Unstored(s)
    BY <1>22, <2>1
  <2> QED
    BY <1>5, <2>1 DEF TileInv, Kept
<1>28. Sentinel'
  <2>1. SUFFICES ASSUME NEW d \in SMs, NEW i \in 1 .. Len(mail'[d]), mail'[d][i] = None
                 PROVE  i = Len(mail'[d]) /\ state'[d] = 5
    BY DEF Sentinel
  <2>2. CASE d = c
    <3>1. i \in 1 .. n - 1 /\ i + 1 \in 1 .. Len(mail[c])
      BY <1>3, <1>8, <2>2
    <3>2. mail[c][i + 1] = None
      BY <1>8, <2>1, <2>2, <3>1
    <3>3. i + 1 = Len(mail[c]) /\ state[c] = 5
      BY <3>1, <3>2 DEF TileInv, Sentinel
    <3>4. i = n - 1
      BY <1>3, <3>1, <3>3
    <3> QED
      BY <1>8, <1>12, <2>2, <3>3, <3>4
  <2>3. CASE d # c
    <3>1. mail'[d] = mail[d] /\ state' = state
      BY <1>7, <1>12, <2>3
    <3> QED
      BY <2>1, <3>1 DEF TileInv, Sentinel
  <2> QED
    BY <2>2, <2>3
<1>29. PerTile(finished)' /\ PerTile(counter)'
  BY <1>5 DEF TileInv, PerTile
<1> QED
  BY <1>1, <1>5, <1>14, <1>16, <1>25, <1>26, <1>27, <1>28, <1>29 DEF TileInv

LEMMA StepTile == TileInv /\ [Next]_vars => TileInv'
<1> SUFFICES ASSUME TileInv, [Next]_vars PROVE TileInv'
  OBVIOUS
<1>1. CASE \E c \in SMs : ProducerStep(c)
  <2>1. PICK c \in SMs : ProducerStep(c)
    BY <1>1
  <2>2. CASE ClaimRange(c)
    BY <2>2, ClaimTile
  <2>3. CASE NextSegment(c)
    BY <2>3, PublishTile, RangeEndTile
  <2>4. CASE Stop(c)
    BY <2>4, StopTile
  <2> QED
    BY <2>1, <2>2, <2>3, <2>4 DEF ProducerStep
<1>2. CASE \E c \in SMs : MathStep(c)
  <2>1. PICK c \in SMs : MathStep(c)
    BY <1>2
  <2> QED
    BY <2>1, GemmTile, StoreTile, TicketTile, ResetTile, EpilogueTile DEF MathStep
<1>3. CASE UNCHANGED vars
  <2>1. /\ UNCHANGED <<taskCount, state, worker, unit, unitEnd>>
        /\ UNCHANGED <<mail, math, scratch, counter, finished>> /\ UNCHANGED tileVars
    BY <1>3 DEF vars, producerVars, tileVars
  <2>2. IInv'
    BY <1>3, StepInv DEF TileInv
  <2>3. \A d, i, s : Holds(d, i, s)' <=> Holds(d, i, s)
    BY <2>1 DEF Holds, PlaceAt
  <2>4. \A s : Pending(s)' <=> Pending(s)
    BY <2>1 DEF Pending, Claimed
  <2>5. \A s \in SoundSegments : Queued(s)' <=> Queued(s)
    BY <2>3, <2>4 DEF Queued
  <2>6. Claims'
    BY <2>1, ClaimsKept DEF Claimed
  <2>7. OnePlace'
    BY <2>3, <2>4 DEF TileInv, OnePlace
  <2>8. Sentinel'
    BY <2>1 DEF TileInv, Sentinel
  <2> QED
    BY <2>1, <2>2, <2>5, <2>6, <2>7, <2>8, PartsKept DEF TileInv
<1> QED
  BY <1>1, <1>2, <1>3 DEF Next, Finished

\* At every sum each other contributor's slot holds that contributor's partial
\* sums of this very tile: the ticket order makes the sum last, and no later
\* segment of the launch has the slot (the reduction in the math warps).
THEOREM SumsComplete == Spec => []SlotsHold
BY InitTile, StepTile, SumHolds, PTL DEF Spec

\* Once all CTAs have exited, every tile of both phases has been finished
\* exactly once and every ticket counter is back at zero for the next launch.
THEOREM TilesFinishedOnce == Spec => []TilesOnce
BY InitTile, StepTile, EndDone, PTL DEF Spec
=============================================================================
