----------------------- MODULE StaticSchedulerProofs -----------------------
(***************************************************************************)
(* Proof, for any number of CTAs, experts, waves, block shapes and tokens, *)
(* that the running index of the static scheduler deals out the blocks of  *)
(* the launch in turn and that every block is given its own pool block.    *)
(***************************************************************************)
EXTENDS StaticScheduler, FiniteSetTheorems, TLAPS

-----------------------------------------------------------------------------
\* Division with remainder.
LEMMA Division ==
  ASSUME NEW a \in Int, NEW d \in Nat \ {0}
  PROVE  /\ a \div d \in Int /\ a % d \in Nat
         /\ a = d * (a \div d) + (a % d)
         /\ a % d < d
  OBVIOUS

LEMMA TimesMonotone ==
  ASSUME NEW a \in Int, NEW b \in Int, NEW d \in Nat, a <= b
  PROVE  a * d \in Int /\ b * d \in Int /\ a * d <= b * d
<1>1. PICK e \in Nat : b = a + e
  <2>1. b - a \in Nat
    OBVIOUS
  <2> QED
    BY <2>1
<1>2. b * d = a * d + e * d /\ e * d \in Nat /\ a * d \in Int
  BY <1>1
<1> QED
  BY <1>2

LEMMA TimesCancel ==
  ASSUME NEW a \in Int, NEW b \in Int, NEW d \in Nat, a * d < b * d
  PROVE  a < b
<1>1. SUFFICES ASSUME b <= a PROVE FALSE
  OBVIOUS
<1>2. b * d <= a * d /\ a * d \in Int /\ b * d \in Int
  BY <1>1, TimesMonotone
<1> QED
  BY <1>2

\* A quotient is known by a multiple just below.
LEMMA Quotient ==
  ASSUME NEW q \in Int, NEW r \in Nat, NEW d \in Nat \ {0}, r < d
  PROVE  (q * d + r) \div d = q
<1>1. PICK a \in Int : a = q * d + r
  OBVIOUS
<1>2. PICK k \in Int : k = a \div d
  BY <1>1
<1>3. PICK m \in Nat : m = a % d
  BY <1>1
<1>4. a = d * k + m /\ m < d
  BY <1>1, <1>2, <1>3, Division
<1>5. d * k = k * d /\ k * d \in Int /\ q * d \in Int
  OBVIOUS
<1>6. (k + 1) * d = k * d + d /\ (q + 1) * d = q * d + d
  OBVIOUS
<1>7. q * d < (k + 1) * d /\ k * d < (q + 1) * d
  BY <1>1, <1>4, <1>5, <1>6
<1>8. q < k + 1 /\ k < q + 1
  BY <1>7, TimesCancel
<1> QED
  BY <1>1, <1>2, <1>8

\* Rounding up: m blocks of b fit below a if m is smaller.
LEMMA CeilFacts ==
  ASSUME NEW a \in Nat, NEW b \in Nat \ {0}
  PROVE  /\ CeilDiv(a, b) \in Nat
         /\ \A m \in Nat : m < CeilDiv(a, b) <=> m * b < a
<1>1. PICK k \in Int : k = CeilDiv(a, b)
  BY DEF CeilDiv
<1>2. PICK r \in Nat : a + b - 1 = b * k + r /\ r < b
  <2>1. PICK x \in Int : x = a + b - 1
    OBVIOUS
  <2>2. PICK r \in Nat : r = x % b
    BY <2>1
  <2>3. x = b * k + r /\ r < b
    BY <1>1, <2>1, <2>2, Division DEF CeilDiv
  <2> QED
    BY <2>1, <2>3
<1>3. b * k = k * b /\ k * b \in Int
  OBVIOUS
<1>4. k >= 0
  <2>1. 0 * b < (k + 1) * b
    <3>1. (k + 1) * b = k * b + b
      OBVIOUS
    <3> QED
      BY <1>2, <1>3, <3>1
  <2>2. 0 < k + 1
    BY <2>1, TimesCancel
  <2> QED
    BY <2>2
<1>5. ASSUME NEW m \in Nat PROVE m < k <=> m * b < a
  <2>1. m * b \in Nat /\ (m + 1) * b = m * b + b
    OBVIOUS
  <2>2. ASSUME m < k PROVE m * b < a
    <3>1. (m + 1) * b <= k * b
      BY <2>2, TimesMonotone
    <3> QED
      BY <1>2, <1>3, <2>1, <3>1
  <2>3. ASSUME ~(m < k) PROVE ~(m * b < a)
    <3>1. k * b <= m * b
      BY <2>3, TimesMonotone
    <3> QED
      BY <1>2, <1>3, <2>1, <3>1
  <2> QED
    BY <2>2, <2>3
<1> QED
  BY <1>1, <1>4, <1>5

-----------------------------------------------------------------------------
Widths ==
  /\ NumSMs \in Nat \ {0} /\ PerWave \in Nat \ {0} /\ NumExperts \in Nat \ {0}
  /\ BlockM \in Nat \ {0} /\ MaxTokens \in Nat
  /\ \A p \in {1, 2} : BlockNs(p) \in Nat \ {0}
  /\ BlockNs(1) = NumL1BlockNs /\ BlockNs(2) = NumL2BlockNs

LEMMA WidthsHold == Widths
BY StaticSchedulerAssumption DEF Widths, BlockNs

Counted == tokens \in [Experts -> 0 .. MaxTokens]

LEMMA MBlocksFacts ==
  ASSUME Counted, NEW e \in Experts
  PROVE  /\ MBlocks(e) \in Nat
         /\ MBlocks(e) <= CeilDiv(MaxTokens, BlockM)
         /\ CeilDiv(MaxTokens, BlockM) \in Nat
         /\ \A m \in Nat : m < MBlocks(e) <=> m * BlockM < tokens[e]
<1>1. tokens[e] \in Nat /\ tokens[e] <= MaxTokens /\ MaxTokens \in Nat /\ BlockM \in Nat \ {0}
  BY WidthsHold DEF Counted, Widths
<1>2. PICK k \in Nat : k = MBlocks(e)
  BY <1>1, CeilFacts DEF MBlocks
<1>3. PICK x \in Nat : x = CeilDiv(MaxTokens, BlockM)
  BY <1>1, CeilFacts
<1>4. \A m \in Nat : m < k <=> m * BlockM < tokens[e]
  BY <1>1, <1>2, CeilFacts DEF MBlocks
<1>5. x < k <=> x * BlockM < tokens[e]
  BY <1>4
<1>6. x < x <=> x * BlockM < MaxTokens
  BY <1>1, <1>3, CeilFacts
<1>7. x * BlockM \in Nat
  BY <1>1
<1>8. k <= x
  BY <1>1, <1>5, <1>6, <1>7
<1> QED
  BY <1>2, <1>3, <1>4, <1>8

\* The offset of the next expert's blocks: behind those of this one.
LEMMA Offsets ==
  ASSUME Counted
  PROVE  /\ \A e \in 0 .. NumExperts : PoolBlockOffset(e) \in Nat
         /\ PoolBlockOffset(0) = 0
         /\ \A e \in Experts : PoolBlockOffset(e + 1) = PoolBlockOffset(e) + MBlocks(e)
<1> DEFINE Most == CeilDiv(MaxTokens, BlockM)
<1>1. ASSUME NEW e \in 0 .. NumExperts
      PROVE  IsFiniteSet(BlocksBefore(e)) /\ PoolBlockOffset(e) \in Nat
  <2>1. Most \in Nat
    BY WidthsHold, CeilFacts DEF Widths
  <2>2. IsFiniteSet(0 .. e - 1) /\ IsFiniteSet(0 .. Most - 1)
    <3>1. 0 \in Int /\ e - 1 \in Int /\ Most - 1 \in Int
      BY <2>1, WidthsHold DEF Widths
    <3> QED
      BY <3>1, FS_Interval
  <2>3. IsFiniteSet((0 .. e - 1) \X (0 .. Most - 1))
    BY <2>2, FS_Product
  <2>4. BlocksBefore(e) \in SUBSET ((0 .. e - 1) \X (0 .. Most - 1))
    BY DEF BlocksBefore
  <2>5. IsFiniteSet(BlocksBefore(e))
    BY <2>3, <2>4, FS_Subset
  <2> QED
    BY <2>5, FS_CardinalityType DEF PoolBlockOffset
<1>2. PoolBlockOffset(0) = 0
  <2>1. BlocksBefore(0) = {}
    BY DEF BlocksBefore
  <2> QED
    BY <2>1, FS_EmptySet DEF PoolBlockOffset
<1>3. ASSUME NEW e \in Experts
      PROVE  PoolBlockOffset(e + 1) = PoolBlockOffset(e) + MBlocks(e)
  <2>1. e \in 0 .. NumExperts /\ e \in Nat
    BY WidthsHold DEF Experts, Widths
  <2>2. MBlocks(e) \in Nat /\ MBlocks(e) <= Most /\ Most \in Nat
    BY MBlocksFacts
  <2> DEFINE Mine == {e} \X (0 .. MBlocks(e) - 1)
  <2>3. /\ IsFiniteSet({e}) /\ Cardinality({e}) = 1
    BY FS_Singleton, Zenon
  <2>4. IsFiniteSet(0 .. MBlocks(e) - 1) /\ Cardinality(0 .. MBlocks(e) - 1) = MBlocks(e)
    <3>1. 0 \in Int /\ MBlocks(e) - 1 \in Int
      BY <2>2
    <3>2. PICK k \in Nat : k = MBlocks(e)
      BY <2>2
    <3>3. IsFiniteSet(0 .. k - 1) /\ Cardinality(0 .. k - 1) = IF 0 > k - 1 THEN 0 ELSE (k - 1) - 0 + 1
      BY FS_Interval
    <3> QED
      BY <3>2, <3>3
  <2>5. IsFiniteSet(Mine) /\ Cardinality(Mine) = MBlocks(e)
    <3>1. IsFiniteSet(Mine) /\ Cardinality(Mine) = Cardinality({e}) * Cardinality(0 .. MBlocks(e) - 1)
      BY <2>3, <2>4, FS_Product
    <3>2. Cardinality(Mine) = 1 * MBlocks(e)
      BY <2>3, <2>4, <3>1
    <3> QED
      BY <2>2, <3>1, <3>2
  <2>6. BlocksBefore(e + 1) = BlocksBefore(e) \cup Mine
    <3>1. ASSUME NEW b \in BlocksBefore(e + 1) PROVE b \in BlocksBefore(e) \cup Mine
      <4>1. PICK f \in 0 .. e, m \in 0 .. Most - 1 : b = <<f, m>> /\ m < MBlocks(f)
        BY <2>1 DEF BlocksBefore
      <4>2. CASE f = e
        BY <2>2, <4>1, <4>2
      <4>3. CASE f # e
        <5>1. f \in 0 .. e - 1
          BY <2>1, <4>1, <4>3
        <5> QED
          BY <4>1, <5>1 DEF BlocksBefore
      <4> QED
        BY <4>2, <4>3
    <3>2. ASSUME NEW b \in BlocksBefore(e) PROVE b \in BlocksBefore(e + 1)
      <4>1. PICK f \in 0 .. e - 1, m \in 0 .. Most - 1 : b = <<f, m>> /\ m < MBlocks(f)
        BY DEF BlocksBefore
      <4>2. f \in 0 .. (e + 1) - 1
        BY <2>1
      <4> QED
        BY <4>1, <4>2 DEF BlocksBefore
    <3>3. ASSUME NEW b \in Mine PROVE b \in BlocksBefore(e + 1)
      <4>1. PICK m \in 0 .. MBlocks(e) - 1 : b = <<e, m>>
        OBVIOUS
      <4>2. e \in 0 .. (e + 1) - 1 /\ m \in 0 .. Most - 1 /\ m < MBlocks(e)
        BY <2>1, <2>2
      <4> QED
        BY <4>1, <4>2 DEF BlocksBefore
    <3> QED
      BY <3>1, <3>2, <3>3
  <2>7. BlocksBefore(e) \cap Mine = {}
    BY <2>1 DEF BlocksBefore
  <2> HIDE DEF Mine
  <2>8. Cardinality(BlocksBefore(e) \cup Mine) =
          Cardinality(BlocksBefore(e)) + Cardinality(Mine) - Cardinality(BlocksBefore(e) \cap Mine)
    BY <1>1, <2>1, <2>5, FS_Union
  <2>9. Cardinality(BlocksBefore(e) \cap Mine) = 0
    BY <2>7, FS_EmptySet
  <2>10. PoolBlockOffset(e) \in Nat
    BY <1>1, <2>1
  <2>11. PoolBlockOffset(e + 1) = PoolBlockOffset(e) + Cardinality(Mine) - 0
    BY <2>6, <2>8, <2>9 DEF PoolBlockOffset
  <2> QED
    BY <2>2, <2>5, <2>10, <2>11
<1> QED
  BY <1>1, <1>2, <1>3

-----------------------------------------------------------------------------
(***************************************************************************)
(* The invariant: Head is the place in the sequence of the first block of  *)
(* the expert a CTA is at, and the running index counts from there.        *)
(***************************************************************************)
Offset(e) == PoolBlockOffset(e)
WaveBlocks(first) == Offset(first + PerWave) - Offset(first)
Head(p, e, first) ==
  Offset(first) * (NumL1BlockNs + NumL2BlockNs)
    + (IF p = 1 THEN 0 ELSE WaveBlocks(first) * NumL1BlockNs)
    + (Offset(e) - Offset(first)) * BlockNs(p)

\* What CTA c holds: phase p, expert e, pool offset o, index b, the end w of its
\* wave, pc q, and r blocks taken.  `first` is the first expert of the wave it is
\* in; between two waves, of the next one.
InWave(c, first, p, e, b, w, q, r) ==
  /\ first % PerWave = 0
  /\ IF q = "scan"
       THEN w = first + PerWave /\ w <= NumExperts /\ e \in first .. w
       ELSE /\ e \in first .. first + PerWave - 1
            /\ e = NumExperts => p = 1 /\ first = NumExperts
  /\ c + r * NumSMs = Head(p, e, first) + b

Holds(c, p, e, o, b, w, q, r) ==
  /\ p \in {1, 2} /\ e \in 0 .. NumExperts /\ b \in Nat /\ r \in Nat
  /\ o = Offset(e)
  /\ q \in {"next", "scan", "run", "done"}
  /\ q = "run" => e < NumExperts
  /\ q = "done" => e = NumExperts
  /\ \E first \in 0 .. NumExperts : InWave(c, first, p, e, b, w, q, r)

\* Block t is the last of the r blocks CTA c has taken.
BlockRight(c, t, r) ==
  /\ Position(t) = c + (r - 1) * NumSMs
  /\ t.pool = Offset(t.expert) + t.m
  /\ t.valid \in 1 .. BlockM
  /\ t.m * BlockM + t.valid <= tokens[t.expert]
  /\ t.valid < BlockM => t.m * BlockM + t.valid = tokens[t.expert]

Enumerates(c) ==
  Holds(c, phase[c], expert[c], offset[c], block[c], waveEnd[c], pc[c], ran[c])

EnumInv ==
  /\ Counted
  /\ DOMAIN phase = SMs /\ DOMAIN expert = SMs /\ DOMAIN offset = SMs
  /\ DOMAIN block = SMs /\ DOMAIN waveEnd = SMs /\ DOMAIN pc = SMs
  /\ DOMAIN task = SMs /\ DOMAIN ran = SMs
  /\ \A c \in SMs : Enumerates(c)
  /\ \A c \in SMs : pc[c] = "run" => BlockRight(c, task[c], ran[c])

LEMMA InitEnum == Init => EnumInv
<1> SUFFICES ASSUME Init PROVE EnumInv
  OBVIOUS
<1>1. Counted
  BY DEF Init, Counted
<1>2. ASSUME NEW c \in SMs PROVE Enumerates(c)
  <2>1. /\ phase[c] = 1 /\ expert[c] = 0 /\ offset[c] = 0 /\ block[c] = c /\ ran[c] = 0
        /\ pc[c] = "next" /\ c \in Nat
    BY DEF Init, SMs
  <2>2. Offset(0) = 0 /\ Widths /\ 0 \in 0 .. NumExperts
    BY <1>1, Offsets, WidthsHold DEF Offset, Widths
  <2>3. Head(1, 0, 0) = 0
    BY <2>2 DEF Head, Widths
  <2>4. \A w : InWave(c, 0, 1, 0, c, w, "next", 0)
    BY <2>1, <2>2, <2>3 DEF InWave, Widths
  <2>5. \A w : Holds(c, 1, 0, 0, c, w, "next", 0)
    BY <2>1, <2>2, <2>4 DEF Holds, Widths
  <2> QED
    BY <2>1, <2>5 DEF Enumerates
<1> QED
  BY <1>1, <1>2 DEF EnumInv, Init

\* The sequence is fixed with the counts.
LEMMA SameSequence ==
  ASSUME tokens' = tokens
  PROVE  /\ \A c, p, e, o, b, w, q, r :
              Holds(c, p, e, o, b, w, q, r)' <=> Holds(c, p, e, o, b, w, q, r)
         /\ \A c, t, r : BlockRight(c, t, r)' <=> BlockRight(c, t, r)
<1>1. \A e : MBlocks(e)' = MBlocks(e)
  BY DEF MBlocks
<1>2. ASSUME NEW e PROVE BlocksBefore(e)' = BlocksBefore(e)
  BY <1>1 DEF BlocksBefore
<1>3. \A e : PoolBlockOffset(e)' = PoolBlockOffset(e)
  BY <1>2 DEF PoolBlockOffset
<1>4. \A e : Offset(e)' = Offset(e)
  BY <1>3 DEF Offset
<1>5. \A p, e, first : Head(p, e, first)' = Head(p, e, first)
  BY <1>4 DEF Head, WaveBlocks
<1>6. \A c, first, p, e, b, w, q, r :
        InWave(c, first, p, e, b, w, q, r)' <=> InWave(c, first, p, e, b, w, q, r)
  BY <1>5 DEF InWave
<1>7. \A t : Position(t)' = Position(t)
  BY <1>3 DEF Position
<1>8. \A c, t, r : BlockRight(c, t, r)' <=> BlockRight(c, t, r)
  BY <1>4, <1>7 DEF BlockRight
<1>9. ASSUME NEW c, NEW p, NEW e, NEW o, NEW b, NEW w, NEW q, NEW r
      PROVE  Holds(c, p, e, o, b, w, q, r)' <=> Holds(c, p, e, o, b, w, q, r)
  BY <1>4, <1>6 DEF Holds
<1> QED
  BY <1>8, <1>9

\* A step of CTA c leaves the other CTAs alone.
LEMMA StepOfOne ==
  ASSUME EnumInv, tokens' = tokens, NEW c \in SMs,
         DOMAIN phase' = SMs, DOMAIN expert' = SMs, DOMAIN offset' = SMs,
         DOMAIN block' = SMs, DOMAIN waveEnd' = SMs, DOMAIN pc' = SMs,
         DOMAIN task' = SMs, DOMAIN ran' = SMs,
         \A d \in SMs \ {c} :
           /\ phase'[d] = phase[d] /\ expert'[d] = expert[d] /\ offset'[d] = offset[d]
           /\ block'[d] = block[d] /\ waveEnd'[d] = waveEnd[d] /\ pc'[d] = pc[d]
           /\ task'[d] = task[d] /\ ran'[d] = ran[d],
         Holds(c, phase'[c], expert'[c], offset'[c], block'[c], waveEnd'[c], pc'[c], ran'[c]),
         pc'[c] = "run" => BlockRight(c, task'[c], ran'[c])
  PROVE  EnumInv'
<1>1. Counted'
  BY DEF EnumInv, Counted
<1>2. ASSUME NEW d \in SMs
      PROVE  Enumerates(d)' /\ (pc'[d] = "run" => BlockRight(d, task[d], ran[d])')
  <2>1. PICK p, e, o, b, w, q, t, r :
          /\ p = phase'[d] /\ e = expert'[d] /\ o = offset'[d] /\ b = block'[d]
          /\ w = waveEnd'[d] /\ q = pc'[d] /\ t = task'[d] /\ r = ran'[d]
    OBVIOUS
  <2>2. Holds(d, p, e, o, b, w, q, r) /\ (q = "run" => BlockRight(d, t, r))
    <3>1. CASE d = c
      BY <2>1, <3>1
    <3>2. CASE d # c
      BY <2>1, <3>2 DEF EnumInv, Enumerates
    <3> QED
      BY <3>1, <3>2
  <2>3. Holds(d, p, e, o, b, w, q, r)' /\ (q = "run" => BlockRight(d, t, r)')
    BY <2>2, SameSequence
  <2> QED
    BY <2>1, <2>3 DEF Enumerates
<1> QED
  BY <1>1, <1>2 DEF EnumInv

-----------------------------------------------------------------------------
\* The wave of an expert, found by rounding its index down or up.
LEMMA WaveOf ==
  ASSUME NEW first \in Nat, first % PerWave = 0, NEW e \in first .. first + PerWave - 1
  PROVE  /\ AlignDown(e, PerWave) = first
         /\ AlignUp(e + 1, PerWave) = first + PerWave
         /\ (first + PerWave) % PerWave = 0
         /\ first < NumExperts => first + PerWave <= NumExperts
<1>1. PICK W \in Nat \ {0} : W = PerWave
  BY WidthsHold DEF Widths
<1>2. PICK q \in Int : q = first \div W
  BY <1>1
<1>3. first = q * W
  <2>1. PICK x \in Nat : x = first % W
    BY <1>1
  <2>2. first = W * q + x /\ x = 0
    BY <1>1, <1>2, <2>1, Division
  <2>3. W * q = q * W
    OBVIOUS
  <2> QED
    BY <2>2, <2>3
<1>4. PICK r \in Nat : e = first + r /\ r < W
  <2>1. e - first \in Nat /\ e - first < W /\ e = first + (e - first)
    BY <1>1
  <2> QED
    BY <2>1
<1>5. e \div W = q
  <2>1. (q * W + r) \div W = q
    BY <1>4, Quotient
  <2> QED
    BY <1>3, <1>4, <2>1
<1>6. q + 1 \in Int /\ (q + 1) * W = first + W
  BY <1>3
<1>7. (e + W) \div W = q + 1
  <2>1. ((q + 1) * W + r) \div W = q + 1
    BY <1>4, <1>6, Quotient
  <2>2. (q + 1) * W + r = e + W
    BY <1>4, <1>6
  <2> QED
    BY <2>1, <2>2
<1>8. AlignDown(e, PerWave) = first
  BY <1>1, <1>3, <1>5 DEF AlignDown
<1>9. AlignUp(e + 1, PerWave) = first + PerWave
  <2>1. (e + 1) + W - 1 = e + W
    BY <1>1
  <2> QED
    BY <1>1, <1>6, <1>7, <2>1 DEF AlignUp, CeilDiv
<1>10. (first + PerWave) % PerWave = 0
  <2>1. PICK a \in Nat : a = first + W
    BY <1>1
  <2>2. a \div W = q + 1
    <3>1. ((q + 1) * W + 0) \div W = q + 1
      BY <1>1, <1>6, Quotient
    <3>2. (q + 1) * W + 0 = a
      BY <1>6, <2>1
    <3> QED
      BY <3>1, <3>2
  <2>3. PICK x \in Nat : x = a % W
    BY <1>1, <2>1
  <2>4. a = W * (q + 1) + x
    BY <1>1, <1>6, <2>1, <2>2, <2>3, Division
  <2>5. W * (q + 1) = (q + 1) * W
    BY <1>6
  <2>6. x = 0
    BY <1>6, <2>1, <2>4, <2>5
  <2> QED
    BY <1>1, <2>1, <2>3, <2>6
<1>11. first < NumExperts => first + PerWave <= NumExperts
  <2>1. SUFFICES ASSUME first < NumExperts PROVE first + W <= NumExperts
    BY <1>1
  <2>2. PICK N \in Nat : N = NumExperts /\ N % W = 0
    BY <1>1, StaticSchedulerAssumption
  <2>3. PICK k \in Int : k = N \div W
    BY <1>1, <2>2
  <2>4. N = k * W
    <3>1. PICK x \in Nat : x = N % W
      BY <1>1, <2>2
    <3>2. N = W * k + x /\ x = 0
      BY <1>1, <2>2, <2>3, <3>1, Division
    <3>3. W * k = k * W
      OBVIOUS
    <3> QED
      BY <3>2, <3>3
  <2>5. q < k
    BY <1>3, <2>1, <2>2, <2>4, TimesCancel
  <2>6. (q + 1) * W <= k * W
    BY <2>5, <1>6, TimesMonotone
  <2> QED
    BY <1>6, <2>2, <2>4, <2>6
<1> QED
  BY <1>8, <1>9, <1>10, <1>11

\* Head moves on with the blocks of the expert passed, from the L1 pass of a wave
\* to its L2 pass, and on to the next wave.
LEMMA HeadMoves ==
  ASSUME Counted, NEW first \in 0 .. NumExperts, first + PerWave <= NumExperts
  PROVE  /\ \A p \in {1, 2}, e \in Experts :
              /\ Head(p, e, first) \in Int
              /\ Head(p, e + 1, first) = Head(p, e, first) + MBlocks(e) * BlockNs(p)
         /\ Head(1, first + PerWave, first) = Head(2, first, first)
         /\ Head(2, first + PerWave, first) = Head(1, first + PerWave, first + PerWave)
<1>1. PICK n1, n2 \in Nat : n1 = BlockNs(1) /\ n2 = BlockNs(2) /\ n1 = NumL1BlockNs /\ n2 = NumL2BlockNs
  BY WidthsHold DEF Widths
<1>2. PICK f, g \in Nat : f = Offset(first) /\ g = Offset(first + PerWave)
  <2>1. first + PerWave \in 0 .. NumExperts
    BY WidthsHold DEF Widths
  <2> QED
    BY <2>1, Offsets DEF Offset
<1>3. PICK before \in Int : before = f * (n1 + n2)
  BY <1>2
<1>4. PICK skip \in Int : skip = (g - f) * n1
  BY <1>2
<1>5. \A e : /\ Head(1, e, first) = before + 0 + (Offset(e) - f) * n1
             /\ Head(2, e, first) = before + skip + (Offset(e) - f) * n2
  BY <1>1, <1>2, <1>3, <1>4 DEF Head, WaveBlocks
<1>6. ASSUME NEW p \in {1, 2}, NEW e \in Experts
      PROVE  /\ Head(p, e, first) \in Int
             /\ Head(p, e + 1, first) = Head(p, e, first) + MBlocks(e) * BlockNs(p)
  <2>1. PICK x \in Nat : x = Offset(e)
    BY WidthsHold, Offsets DEF Offset, Experts, Widths
  <2>2. PICK m \in Nat : m = MBlocks(e)
    BY MBlocksFacts
  <2>3. Offset(e + 1) = x + m
    BY <2>1, <2>2, Offsets DEF Offset
  <2>4. PICK k \in Nat : k = BlockNs(p)
    BY <1>1
  <2>5. PICK s \in Int : \A d : Head(p, d, first) = before + s + (Offset(d) - f) * k
    <3>1. CASE p = 1
      BY <1>1, <1>5, <2>4, <3>1
    <3>2. CASE p = 2
      BY <1>1, <1>5, <2>4, <3>2
    <3> QED
      BY <3>1, <3>2
  <2>6. (x + m - f) * k = (x - f) * k + m * k
    OBVIOUS
  <2>7. (x - f) * k \in Int /\ m * k \in Int
    OBVIOUS
  <2>8. Head(p, e, first) = before + s + (x - f) * k
    BY <2>1, <2>5
  <2>9. Head(p, e + 1, first) = before + s + (x + m - f) * k
    BY <2>3, <2>5
  <2> QED
    BY <2>2, <2>4, <2>6, <2>7, <2>8, <2>9
<1>7. Head(1, first + PerWave, first) = Head(2, first, first)
  <2>1. Head(1, first + PerWave, first) = before + 0 + skip
    BY <1>2, <1>4, <1>5
  <2>2. Head(2, first, first) = before + skip + (f - f) * n2
    BY <1>2, <1>5
  <2>3. (f - f) * n2 = 0
    OBVIOUS
  <2> QED
    BY <2>1, <2>2, <2>3
<1>8. Head(2, first + PerWave, first) = Head(1, first + PerWave, first + PerWave)
  <2>1. Head(2, first + PerWave, first) = before + skip + (g - f) * n2
    BY <1>2, <1>5
  <2>2. Head(1, first + PerWave, first + PerWave) = g * (n1 + n2) + 0 + (g - g) * n1
    BY <1>1, <1>2 DEF Head
  <2>3. (g - g) * n1 = 0
    OBVIOUS
  <2>4. g * (n1 + n2) = f * (n1 + n2) + (g - f) * n1 + (g - f) * n2
    OBVIOUS
  <2>5. (g - f) * n2 \in Int /\ g * (n1 + n2) \in Int
    OBVIOUS
  <2> QED
    BY <1>3, <1>4, <2>1, <2>2, <2>3, <2>4, <2>5
<1> QED
  BY <1>6, <1>7, <1>8

-----------------------------------------------------------------------------
(***************************************************************************)
(* The steps of one CTA, on what it holds.                                 *)
(***************************************************************************)
\* The wave of a CTA that scans.
LEMMA Scanning ==
  ASSUME NEW c, NEW p, NEW e, NEW o, NEW b, NEW w, NEW r,
         Holds(c, p, e, o, b, w, "scan", r)
  PROVE  \E first \in 0 .. NumExperts :
           /\ first % PerWave = 0 /\ w = first + PerWave /\ w <= NumExperts
           /\ e \in first .. w
           /\ c + r * NumSMs = Head(p, e, first) + b
BY DEF Holds, InWave

LEMMA FetchStarts ==
  ASSUME NEW c, NEW p, NEW e, NEW o, NEW b, NEW w, NEW r, e < NumExperts,
         Holds(c, p, e, o, b, w, "next", r)
  PROVE  Holds(c, p, e, o, b, AlignUp(e + 1, PerWave), "scan", r)
<1>1. PICK first \in 0 .. NumExperts : InWave(c, first, p, e, b, w, "next", r)
  BY DEF Holds
<1>2. first % PerWave = 0 /\ e \in first .. first + PerWave - 1 /\ c + r * NumSMs = Head(p, e, first) + b
  BY <1>1 DEF InWave
<1>3. first \in Nat /\ first < NumExperts /\ e \in 0 .. NumExperts /\ PerWave \in Nat \ {0}
  BY <1>2, WidthsHold DEF Holds, Widths
<1>4. AlignUp(e + 1, PerWave) = first + PerWave /\ first + PerWave <= NumExperts
  BY <1>2, <1>3, WaveOf
<1>5. e \in first .. first + PerWave
  BY <1>2, <1>3
<1>6. InWave(c, first, p, e, b, AlignUp(e + 1, PerWave), "scan", r)
  BY <1>2, <1>4, <1>5 DEF InWave
<1> QED
  BY <1>6 DEF Holds

LEMMA FetchEnds ==
  ASSUME NEW c, NEW p, NEW e, NEW o, NEW b, NEW w, NEW r, e >= NumExperts,
         Holds(c, p, e, o, b, w, "next", r)
  PROVE  Holds(c, p, e, o, b, w, "done", r)
<1>1. e = NumExperts
  BY WidthsHold DEF Holds, Widths
<1> QED
  BY <1>1 DEF Holds, InWave

LEMMA BlockEnds ==
  ASSUME NEW c, NEW p, NEW e, NEW o, NEW b, NEW w, NEW r,
         Holds(c, p, e, o, b, w, "run", r)
  PROVE  Holds(c, p, e, o, b, w, "next", r)
BY DEF Holds, InWave

LEMMA ExpertPassed ==
  ASSUME Counted, NEW c, NEW p, NEW e, NEW o, NEW b, NEW w, NEW r,
         Holds(c, p, e, o, b, w, "scan", r), e < w, ~(b < MBlocks(e) * BlockNs(p))
  PROVE  Holds(c, p, e + 1, o + MBlocks(e), b - MBlocks(e) * BlockNs(p), w, "scan", r)
<1>1. PICK first \in 0 .. NumExperts :
        /\ first % PerWave = 0 /\ w = first + PerWave /\ w <= NumExperts
        /\ e \in first .. w
        /\ c + r * NumSMs = Head(p, e, first) + b
  BY Scanning
<1>2. /\ p \in {1, 2} /\ b \in Nat /\ r \in Nat /\ o = Offset(e) /\ e \in Experts
      /\ NumExperts \in Nat /\ PerWave \in Nat
  BY <1>1, WidthsHold DEF Holds, Experts, Widths
<1>3. PICK m \in Nat : m = MBlocks(e)
  BY <1>2, MBlocksFacts
<1>4. PICK k \in Nat : k = BlockNs(p)
  BY <1>2, WidthsHold DEF Widths
<1>5. PICK y \in Nat : y = m * k
  BY <1>3, <1>4
<1>6. b - y \in Nat
  BY <1>2, <1>3, <1>4, <1>5
<1>7. /\ Head(p, e, first) \in Int
      /\ Head(p, e + 1, first) = Head(p, e, first) + y
  BY <1>1, <1>2, <1>3, <1>4, <1>5, HeadMoves
<1>8. c + r * NumSMs = Head(p, e + 1, first) + (b - y)
  BY <1>1, <1>2, <1>7
<1>9. e + 1 \in first .. w /\ e + 1 \in 0 .. NumExperts
  BY <1>1, <1>2
<1>10. Offset(e + 1) = o + m
  BY <1>2, <1>3, Offsets DEF Offset
<1>11. InWave(c, first, p, e + 1, b - y, w, "scan", r)
  BY <1>1, <1>8, <1>9 DEF InWave
<1>12. Holds(c, p, e + 1, o + m, b - y, w, "scan", r)
  BY <1>2, <1>6, <1>9, <1>10, <1>11 DEF Holds
<1> QED
  BY <1>3, <1>4, <1>5, <1>12

LEMMA L1Passed ==
  ASSUME Counted, NEW c, NEW e, NEW o, NEW b, NEW w, NEW r,
         Holds(c, 1, e, o, b, w, "scan", r), e >= w
  PROVE  LET first == AlignDown(e - 1, PerWave)
         IN  Holds(c, 2, first, PoolBlockOffset(first), b, w, "next", r)
<1>1. PICK first \in 0 .. NumExperts :
        /\ first % PerWave = 0 /\ w = first + PerWave /\ w <= NumExperts
        /\ e \in first .. w
        /\ c + r * NumSMs = Head(1, e, first) + b
  BY Scanning
<1>2. PerWave \in Nat \ {0} /\ NumExperts \in Nat
  BY WidthsHold DEF Widths
<1>3. first \in Nat /\ e = first + PerWave /\ e - 1 \in first .. first + PerWave - 1
  BY <1>1, <1>2
<1>4. AlignDown(e - 1, PerWave) = first
  BY <1>1, <1>3, WaveOf
<1>5. c + r * NumSMs = Head(2, first, first) + b
  BY <1>1, <1>3, HeadMoves
<1>6. first \in first .. first + PerWave - 1 /\ first # NumExperts
  BY <1>1, <1>2
<1>7. InWave(c, first, 2, first, b, w, "next", r)
  BY <1>1, <1>5, <1>6 DEF InWave
<1>8. Holds(c, 2, first, PoolBlockOffset(first), b, w, "next", r)
  BY <1>7 DEF Holds, Offset
<1> QED
  BY <1>4, <1>8

LEMMA L2Passed ==
  ASSUME Counted, NEW c, NEW e, NEW o, NEW b, NEW w, NEW r,
         Holds(c, 2, e, o, b, w, "scan", r), e >= w
  PROVE  Holds(c, 1, e, o, b, w, "next", r)
<1>1. PICK first \in 0 .. NumExperts :
        /\ first % PerWave = 0 /\ w = first + PerWave /\ w <= NumExperts
        /\ e \in first .. w
        /\ c + r * NumSMs = Head(2, e, first) + b
  BY Scanning
<1>2. PerWave \in Nat \ {0} /\ NumExperts \in Nat
  BY WidthsHold DEF Widths
<1>3. first \in Nat /\ e = first + PerWave /\ first \in first .. first + PerWave - 1
  BY <1>1, <1>2
<1>4. e % PerWave = 0
  BY <1>1, <1>3, WaveOf
<1>5. c + r * NumSMs = Head(1, e, e) + b
  BY <1>1, <1>3, HeadMoves
<1>6. e \in 0 .. NumExperts /\ e \in e .. e + PerWave - 1
  BY <1>1, <1>2, <1>3
<1>7. InWave(c, e, 1, e, b, w, "next", r)
  BY <1>4, <1>5, <1>6 DEF InWave
<1> QED
  BY <1>6, <1>7 DEF Holds

\* The block found lies at the CTA's place in the sequence.
LEMMA BlockFound ==
  ASSUME Counted, NEW c \in SMs, NEW p, NEW e, NEW o, NEW b, NEW w, NEW r,
         Holds(c, p, e, o, b, w, "scan", r), e < w, b < MBlocks(e) * BlockNs(p),
         NEW m, m = b \div BlockNs(p), NEW t,
         t = [phase |-> p, expert |-> e, m |-> m, n |-> b - m * BlockNs(p),
              pool |-> o + m, valid |-> Min({tokens[e] - m * BlockM, BlockM})]
  PROVE  /\ Holds(c, p, e, o, b + NumSMs, w, "run", r + 1)
         /\ BlockRight(c, t, r + 1)
<1>1. PICK first \in 0 .. NumExperts :
        /\ first % PerWave = 0 /\ w = first + PerWave /\ w <= NumExperts
        /\ e \in first .. w
        /\ c + r * NumSMs = Head(p, e, first) + b
  BY Scanning
<1>2. /\ p \in {1, 2} /\ b \in Nat /\ r \in Nat /\ o = Offset(e) /\ e \in Experts
      /\ NumExperts \in Nat /\ PerWave \in Nat \ {0} /\ NumSMs \in Nat /\ c \in Nat
  BY <1>1, WidthsHold DEF Holds, Experts, Widths, SMs
<1>3. PICK z \in Int : z = Head(p, e, first)
  BY <1>1, <1>2, HeadMoves
<1>4. PICK y \in Nat : y = r * NumSMs
  BY <1>2
<1>5. (r + 1) * NumSMs = y + NumSMs /\ (r + 1) - 1 = r
  BY <1>2, <1>4
<1>6. Holds(c, p, e, o, b + NumSMs, w, "run", r + 1)
  <2>1. c + (r + 1) * NumSMs = Head(p, e, first) + (b + NumSMs)
    BY <1>1, <1>2, <1>3, <1>4, <1>5
  <2>2. e \in first .. first + PerWave - 1 /\ e < NumExperts /\ e # NumExperts
    BY <1>1, <1>2
  <2>3. InWave(c, first, p, e, b + NumSMs, w, "run", r + 1)
    BY <1>1, <2>1, <2>2 DEF InWave
  <2>4. b + NumSMs \in Nat /\ r + 1 \in Nat
    BY <1>2
  <2> QED
    BY <2>2, <2>3, <2>4 DEF Holds
<1>7. PICK k \in Nat \ {0} : k = BlockNs(p)
  BY <1>2, WidthsHold DEF Widths
<1>8. PICK n \in Nat : b = k * m + n /\ n < k /\ m \in Int
  <2>1. PICK n \in Nat : n = b % k
    BY <1>2, <1>7
  <2>2. b \in Int /\ m = b \div k
    BY <1>2, <1>7
  <2>3. m \in Int /\ b = k * m + n /\ n < k
    BY <2>1, <2>2, Division
  <2> QED
    BY <2>3
<1>9. k * m = m * k /\ m * k \in Int /\ (m + 1) * k = m * k + k
  BY <1>8
<1>10. m \in Nat
  <2>1. 0 * k < (m + 1) * k
    BY <1>2, <1>8, <1>9
  <2>2. 0 < m + 1
    BY <1>8, <2>1, TimesCancel
  <2> QED
    BY <1>8, <2>2
<1>11. m < MBlocks(e) /\ m * BlockM < tokens[e]
  <2>1. MBlocks(e) \in Nat
    BY <1>2, MBlocksFacts
  <2>2. PICK l \in Nat : l = MBlocks(e)
    BY <2>1
  <2>3. m * k < l * k
    <3>1. l * k \in Int /\ b < l * k
      BY <1>7, <2>2
    <3> QED
      BY <1>2, <1>8, <1>9, <3>1
  <2>4. m < l
    BY <1>8, <2>3, TimesCancel
  <2> QED
    BY <1>2, <1>10, <2>2, <2>4, MBlocksFacts
<1>12. PICK v : v = Min({tokens[e] - m * BlockM, BlockM})
  OBVIOUS
<1>13. PICK u, a \in Nat : u = tokens[e] /\ a = m * BlockM
  BY <1>2, <1>10, WidthsHold DEF Counted, Widths
<1>14. BlockM \in Nat \ {0}
  BY WidthsHold DEF Widths
<1>15. v = IF u - a < BlockM THEN u - a ELSE BlockM
  <2>1. v = CHOOSE x \in {u - a, BlockM} : \A x2 \in {u - a, BlockM} : x <= x2
    BY <1>12, <1>13 DEF Min
  <2>2. \E x \in {u - a, BlockM} : \A x2 \in {u - a, BlockM} : x <= x2
    BY <1>13, <1>14
  <2>3. v \in {u - a, BlockM} /\ \A x2 \in {u - a, BlockM} : v <= x2
    BY <2>1, <2>2, Zenon
  <2> QED
    BY <1>13, <1>14, <2>3
<1>16. /\ v \in 1 .. BlockM /\ a + v <= u
       /\ v < BlockM => a + v = u
  BY <1>11, <1>13, <1>14, <1>15
<1>17. /\ t.phase = p /\ t.expert = e /\ t.m = m /\ t.n = b - m * k
       /\ t.pool = o + m /\ t.valid = v
  BY <1>7, <1>12
<1>18. Position(t) = c + ((r + 1) - 1) * NumSMs
  <2>1. AlignDown(e, PerWave) = first
    <3>1. first \in Nat /\ e \in first .. first + PerWave - 1
      BY <1>1, <1>2
    <3> QED
      BY <1>1, <3>1, WaveOf
  <2>2. PICK f, x, g \in Nat : /\ f = PoolBlockOffset(first) /\ x = PoolBlockOffset(e)
                               /\ g = PoolBlockOffset(first + PerWave)
    <3>1. first \in 0 .. NumExperts /\ e \in 0 .. NumExperts /\ first + PerWave \in 0 .. NumExperts
      BY <1>1, <1>2
    <3> QED
      BY <3>1, Offsets
  <2>3. PICK n1, n2 \in Nat : n1 = NumL1BlockNs /\ n2 = NumL2BlockNs
    BY StaticSchedulerAssumption
  <2>4. PICK i, j \in Int : i = f * (n1 + n2) /\ j = (g - f) * n1
    BY <2>2, <2>3
  <2>5. PICK s \in Int : s = IF p = 1 THEN 0 ELSE j
    OBVIOUS
  <2>6. Head(p, e, first) = i + s + (x - f) * k
    BY <1>7, <2>2, <2>3, <2>4, <2>5 DEF Head, WaveBlocks, Offset
  <2>7. Position(t) = i + s + ((x - f) + m) * k + (b - m * k)
    BY <1>7, <1>17, <2>1, <2>2, <2>3, <2>4, <2>5 DEF Position
  <2>8. ((x - f) + m) * k = (x - f) * k + m * k /\ (x - f) * k \in Int
    BY <1>10
  <2>9. Position(t) = Head(p, e, first) + b
    BY <1>2, <1>9, <2>6, <2>7, <2>8
  <2> QED
    BY <1>1, <1>5, <2>9
<1>19. BlockRight(c, t, r + 1)
  BY <1>2, <1>13, <1>16, <1>17, <1>18 DEF BlockRight
<1> QED
  BY <1>6, <1>19

-----------------------------------------------------------------------------
LEMMA NextEnum == EnumInv /\ [Next]_vars => EnumInv'
<1> SUFFICES ASSUME EnumInv, [Next]_vars PROVE EnumInv'
  OBVIOUS
<1> DEFINE Same(d) ==
      /\ phase'[d] = phase[d] /\ expert'[d] = expert[d] /\ offset'[d] = offset[d]
      /\ block'[d] = block[d] /\ waveEnd'[d] = waveEnd[d] /\ pc'[d] = pc[d]
      /\ task'[d] = task[d] /\ ran'[d] = ran[d]
<1> DEFINE Domains ==
      /\ DOMAIN phase' = SMs /\ DOMAIN expert' = SMs /\ DOMAIN offset' = SMs
      /\ DOMAIN block' = SMs /\ DOMAIN waveEnd' = SMs /\ DOMAIN pc' = SMs
      /\ DOMAIN task' = SMs /\ DOMAIN ran' = SMs
<1>1. CASE UNCHANGED vars
  BY <1>1, SameSequence DEF EnumInv, Enumerates, Counted, vars, schedVars
<1>2. ASSUME NEW c \in SMs, Step(c) PROVE EnumInv'
  <2>1. Counted /\ Enumerates(c) /\ (pc[c] = "run" => BlockRight(c, task[c], ran[c]))
    BY DEF EnumInv
  <2>2. tokens' = tokens /\ Domains /\ \A d \in SMs \ {c} : Same(d)
    <3>1. CASE NextBlock(c)
      BY <3>1 DEF NextBlock, EnumInv
    <3>2. CASE Found(c)
      BY <3>2 DEF Found, EnumInv
    <3>3. CASE AdvanceExpert(c)
      BY <3>3 DEF AdvanceExpert, EnumInv
    <3>4. CASE TurnToL2(c)
      BY <3>4 DEF TurnToL2, EnumInv
    <3>5. CASE TurnToL1(c)
      BY <3>5 DEF TurnToL1, EnumInv
    <3>6. CASE Run(c)
      BY <3>6 DEF Run, EnumInv, schedVars
    <3> QED
      BY <1>2, <3>1, <3>2, <3>3, <3>4, <3>5, <3>6 DEF Step
  <2>3. /\ Holds(c, phase'[c], expert'[c], offset'[c], block'[c], waveEnd'[c], pc'[c], ran'[c])
        /\ pc'[c] = "run" => BlockRight(c, task'[c], ran'[c])
    <3>1. CASE NextBlock(c)
      <4>1. /\ phase'[c] = phase[c] /\ expert'[c] = expert[c] /\ offset'[c] = offset[c]
            /\ block'[c] = block[c] /\ ran'[c] = ran[c] /\ pc[c] = "next"
        BY <3>1 DEF NextBlock
      <4>2. CASE expert[c] >= NumExperts
        <5>1. waveEnd'[c] = waveEnd[c] /\ pc'[c] = "done"
          BY <3>1, <4>2 DEF NextBlock, EnumInv
        <5> QED
          BY <2>1, <4>1, <4>2, <5>1, FetchEnds DEF Enumerates
      <4>3. CASE ~(expert[c] >= NumExperts)
        <5>1. waveEnd'[c] = AlignUp(expert[c] + 1, PerWave) /\ pc'[c] = "scan"
          BY <3>1, <4>3 DEF NextBlock, EnumInv
        <5>2. expert[c] < NumExperts
          BY <2>1, <4>3, WidthsHold DEF Enumerates, Holds, Widths
        <5> QED
          BY <2>1, <4>1, <5>1, <5>2, FetchStarts DEF Enumerates
      <4> QED
        BY <4>2, <4>3
    <3>2. CASE Found(c)
      <4>1. PICK m : m = block[c] \div BlockNs(phase[c])
        OBVIOUS
      <4>2. /\ phase'[c] = phase[c] /\ expert'[c] = expert[c] /\ offset'[c] = offset[c]
            /\ block'[c] = block[c] + NumSMs /\ ran'[c] = ran[c] + 1
            /\ waveEnd'[c] = waveEnd[c] /\ pc[c] = "scan" /\ pc'[c] = "run"
            /\ expert[c] < waveEnd[c] /\ Here(c)
            /\ task'[c] = [phase |-> phase[c], expert |-> expert[c], m |-> m,
                           n |-> block[c] - m * BlockNs(phase[c]), pool |-> offset[c] + m,
                           valid |-> Min({tokens[expert[c]] - m * BlockM, BlockM})]
        BY <3>2, <4>1 DEF Found, EnumInv
      <4> QED
        BY <2>1, <4>1, <4>2, BlockFound DEF Enumerates, Here
    <3>3. CASE AdvanceExpert(c)
      <4>1. /\ phase'[c] = phase[c] /\ expert'[c] = expert[c] + 1
            /\ offset'[c] = offset[c] + MBlocks(expert[c])
            /\ block'[c] = block[c] - MBlocks(expert[c]) * BlockNs(phase[c])
            /\ ran'[c] = ran[c] /\ waveEnd'[c] = waveEnd[c]
            /\ pc[c] = "scan" /\ pc'[c] = "scan"
            /\ expert[c] < waveEnd[c] /\ ~Here(c)
        BY <3>3 DEF AdvanceExpert, EnumInv
      <4> QED
        BY <2>1, <4>1, ExpertPassed DEF Enumerates, Here
    <3>4. CASE TurnToL2(c)
      <4>1. PICK first : first = AlignDown(expert[c] - 1, PerWave)
        OBVIOUS
      <4>2. /\ phase[c] = 1 /\ phase'[c] = 2 /\ expert'[c] = first
            /\ offset'[c] = PoolBlockOffset(first) /\ block'[c] = block[c]
            /\ ran'[c] = ran[c] /\ waveEnd'[c] = waveEnd[c]
            /\ pc[c] = "scan" /\ pc'[c] = "next" /\ expert[c] >= waveEnd[c]
        BY <3>4, <4>1 DEF TurnToL2, EnumInv
      <4> QED
        BY <2>1, <4>1, <4>2, L1Passed DEF Enumerates
    <3>5. CASE TurnToL1(c)
      <4>1. /\ phase[c] = 2 /\ phase'[c] = 1 /\ expert'[c] = expert[c]
            /\ offset'[c] = offset[c] /\ block'[c] = block[c]
            /\ ran'[c] = ran[c] /\ waveEnd'[c] = waveEnd[c]
            /\ pc[c] = "scan" /\ pc'[c] = "next" /\ expert[c] >= waveEnd[c]
        BY <3>5 DEF TurnToL1, EnumInv
      <4> QED
        BY <2>1, <4>1, L2Passed DEF Enumerates
    <3>6. CASE Run(c)
      <4>1. /\ phase'[c] = phase[c] /\ expert'[c] = expert[c] /\ offset'[c] = offset[c]
            /\ block'[c] = block[c] /\ ran'[c] = ran[c] /\ waveEnd'[c] = waveEnd[c]
            /\ pc[c] = "run" /\ pc'[c] = "next"
        BY <3>6 DEF Run, EnumInv, schedVars
      <4> QED
        BY <2>1, <4>1, BlockEnds DEF Enumerates
    <3> QED
      BY <1>2, <3>1, <3>2, <3>3, <3>4, <3>5, <3>6 DEF Step
  <2> QED
    BY <2>2, <2>3, StepOfOne
<1> QED
  BY <1>1, <1>2 DEF Next, Finished

LEMMA EnumRight == EnumInv => InTurn /\ PoolBlockRight
<1> SUFFICES ASSUME EnumInv PROVE InTurn /\ PoolBlockRight
  OBVIOUS
<1>1. Counted
  BY DEF EnumInv
<1>2. ASSUME NEW c \in SMs, pc[c] = "done"
      PROVE  c + ran[c] * NumSMs >= PoolBlockOffset(NumExperts) * (NumL1BlockNs + NumL2BlockNs)
  <2>1. PICK E \in Nat : E = NumExperts
    BY WidthsHold DEF Widths
  <2>2. Holds(c, phase[c], expert[c], offset[c], block[c], waveEnd[c], "done", ran[c])
    BY <1>2 DEF EnumInv, Enumerates
  <2>3. PICK first : InWave(c, first, phase[c], expert[c], block[c], waveEnd[c], "done", ran[c])
    BY <2>2 DEF Holds
  <2>4. expert[c] = E /\ phase[c] = 1 /\ first = E /\ block[c] \in Nat
    BY <2>1, <2>2, <2>3 DEF Holds, InWave
  <2>5. c + ran[c] * NumSMs = Head(1, E, E) + block[c]
    BY <2>3, <2>4 DEF InWave
  <2>6. PICK f, n1, n2 \in Nat : f = PoolBlockOffset(E) /\ n1 = NumL1BlockNs /\ n2 = NumL2BlockNs
    BY <1>1, <2>1, Offsets, StaticSchedulerAssumption
  <2>7. PICK z \in Nat : z = f * (n1 + n2)
    BY <2>6
  <2>8. Head(1, E, E) = z + 0 + (f - f) * n1 /\ (f - f) * n1 = 0
    BY <2>6, <2>7 DEF Head, Offset, BlockNs
  <2>9. Head(1, E, E) = z
    BY <2>7, <2>8
  <2>10. c + ran[c] * NumSMs >= z
    <3>1. c + ran[c] * NumSMs = z + block[c]
      BY <2>5, <2>9
    <3>2. z + block[c] >= z
      BY <2>4, <2>7
    <3> QED
      BY <3>1, <3>2
  <2> QED
    BY <2>1, <2>6, <2>7, <2>10
<1> QED
  BY <1>2 DEF EnumInv, BlockRight, InTurn, PoolBlockRight, Offset

-----------------------------------------------------------------------------
\* The running index deals the blocks of the launch out in turn: the k-th block a
\* CTA takes is block c + k * NumSMs of the sequence all CTAs share, across
\* experts, both passes of a wave and all waves, and a CTA that is done has left
\* none of its share.  About get_next_block and the fetch loops, for any number of
\* CTAs, experts, waves and blocks.
THEOREM DealtInTurn == Spec => []InTurn
<1>1. Init /\ [][Next]_vars => []EnumInv
  BY InitEnum, NextEnum, PTL
<1>2. []EnumInv => []InTurn
  BY EnumRight, PTL
<1> QED
  BY <1>1, <1>2, PTL DEF Spec

\* Every block is run on the pool block behind those of the experts before, with
\* the rows its expert has there, although the offset is kept by addition and set
\* back at every turn to L2.  About advance_expert_idx, set_expert_idx and the
\* rows a block is told are valid.
THEOREM PoolBlocksRight == Spec => []PoolBlockRight
<1>1. Init /\ [][Next]_vars => []EnumInv
  BY InitEnum, NextEnum, PTL
<1>2. []EnumInv => []PoolBlockRight
  BY EnumRight, PTL
<1> QED
  BY <1>1, <1>2, PTL DEF Spec
=============================================================================
