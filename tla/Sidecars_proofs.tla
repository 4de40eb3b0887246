--------------------------- MODULE Sidecars_proofs ---------------------------
(* What the tools leave under a final name is whole, what their records claim     *)
(* together is so, and on the release none of them fails: for any tensors, in any *)
(* order of the tools, and whichever of them are killed. And the crosscheck's      *)
(* verdict is true of any two files.                                              *)
EXTENDS Sidecars, Crosscheck, Numbers

----------------------------------------------------------------------------
(* The codec. *)

\* The place of a weight: its byte, and the digit in it.
LEMMA WeightPlace ==
    ASSUME NEW w \in Weights
    PROVE  /\ w \div 5 \in Slots /\ w % 5 \in 0..4 /\ w = 5 * (w \div 5) + (w % 5)
           /\ w \div 5 = FULL_CODE_SLOTS => w % 5 \in 0..2
  BY SlotsAssumption DEF Weights, BLOCK_SIZE, Slots

\* The powers of three.
LEMMA Powers ==
    /\ Power[0] = 1 /\ Power[1] = 3 /\ Power[2] = 9 /\ Power[3] = 27 /\ Power[4] = 81
  BY DEF Power

\* Five ternary digits fit a byte and come back out of it.
LEMMA FiveDigits ==
    ASSUME NEW a \in Trit, NEW b \in Trit, NEW c \in Trit, NEW d \in Trit, NEW e \in Trit,
           NEW n, n = Digits5(a, b, c, d, e)
    PROVE  /\ n \in 0..242
           /\ d = 0 /\ e = 0 => n \in 0..26
           /\ (n \div Power[0]) % 3 = a /\ (n \div Power[1]) % 3 = b
           /\ (n \div Power[2]) % 3 = c /\ (n \div Power[3]) % 3 = d
           /\ (n \div Power[4]) % 3 = e
  <1>1. PICK m \in Nat : m = a + 3 * b + 9 * c + 27 * d + 81 * e
    BY DEF Trit
  <1>2. m \in 0..242 /\ (d = 0 /\ e = 0 => m \in 0..26)
    BY <1>1 DEF Trit
  <1>3. n = m
    BY <1>1, <1>2 DEF Digits5
  <1>4. /\ (m \div 1) % 3 = a /\ (m \div 3) % 3 = b /\ (m \div 9) % 3 = c
        /\ (m \div 27) % 3 = d /\ (m \div 81) % 3 = e
    BY <1>1, <1>2 DEF Trit
  <1> QED
    BY <1>2, <1>3, <1>4, Powers

\* A byte of ternary weights is legal and decodes to them.
LEMMA SlotRoundTrip ==
    ASSUME NEW codes, Ternary(codes), NEW s \in Slots
    PROVE  /\ EncodeSlot(codes, s) \in 0..MaxCode(s)
           /\ \A i \in 0..4 : (s = FULL_CODE_SLOTS => i < 3) =>
                 (EncodeSlot(codes, s) \div Power[i]) % 3 = codes[5 * s + i]
  <1>1. \A i \in 0..4 : (s = FULL_CODE_SLOTS => i < 3) => 5 * s + i \in Weights
    BY SlotsAssumption DEF Slots, Weights, BLOCK_SIZE
  <1>2. \A i \in 0..4 : (s = FULL_CODE_SLOTS => i < 3) => codes[5 * s + i] \in Trit
    BY <1>1 DEF Ternary
  <1>3. 0 \in Trit
    BY DEF Trit
  <1>4. codes[5 * s + 0] \in Trit /\ codes[5 * s + 1] \in Trit /\ codes[5 * s + 2] \in Trit
    BY <1>2
  <1>5. CASE s = FULL_CODE_SLOTS
    <2>1. EncodeSlot(codes, s) = Digits5(codes[5 * s + 0], codes[5 * s + 1], codes[5 * s + 2], 0, 0)
      BY <1>5 DEF EncodeSlot
    <2>2. PICK a, b, c : a = codes[5 * s + 0] /\ b = codes[5 * s + 1] /\ c = codes[5 * s + 2]
      OBVIOUS
    <2>3. PICK n : n = EncodeSlot(codes, s)
      OBVIOUS
    <2>4. /\ n \in 0..26 /\ (n \div Power[0]) % 3 = a /\ (n \div Power[1]) % 3 = b
          /\ (n \div Power[2]) % 3 = c
      <3>1. a \in Trit /\ b \in Trit /\ c \in Trit
        BY <1>4, <2>2
      <3>2. n = Digits5(a, b, c, 0, 0)
        BY <2>1, <2>2, <2>3
      <3> QED
        BY <1>3, <3>1, <3>2, FiveDigits, SMTT(30)
    <2>5. MaxCode(s) = 26
      BY <1>5 DEF MaxCode
    <2>6. \A i \in 0..4 : i < 3 => i = 0 \/ i = 1 \/ i = 2
      OBVIOUS
    <2> QED
      BY <1>5, <2>2, <2>3, <2>4, <2>5, <2>6
  <1>6. CASE s # FULL_CODE_SLOTS
    <2>1. EncodeSlot(codes, s) = Digits5(codes[5 * s + 0], codes[5 * s + 1], codes[5 * s + 2],
                                         codes[5 * s + 3], codes[5 * s + 4])
      BY <1>6 DEF EncodeSlot
    <2>2. PICK a, b, c, d, e : /\ a = codes[5 * s + 0] /\ b = codes[5 * s + 1]
                               /\ c = codes[5 * s + 2] /\ d = codes[5 * s + 3]
                               /\ e = codes[5 * s + 4]
      OBVIOUS
    <2>3. PICK n : n = EncodeSlot(codes, s)
      OBVIOUS
    <2>4. /\ n \in 0..242 /\ (n \div Power[0]) % 3 = a /\ (n \div Power[1]) % 3 = b
          /\ (n \div Power[2]) % 3 = c /\ (n \div Power[3]) % 3 = d /\ (n \div Power[4]) % 3 = e
      <3>1. codes[5 * s + 3] \in Trit /\ codes[5 * s + 4] \in Trit
        BY <1>2, <1>6
      <3>2. a \in Trit /\ b \in Trit /\ c \in Trit /\ d \in Trit /\ e \in Trit
        BY <1>4, <2>2, <3>1
      <3>3. n = Digits5(a, b, c, d, e)
        BY <2>1, <2>2, <2>3
      <3> QED
        BY <3>2, <3>3, FiveDigits, SMTT(30)
    <2>5. MaxCode(s) = 242
      BY <1>6 DEF MaxCode
    <2>6. \A i \in 0..4 : i = 0 \/ i = 1 \/ i = 2 \/ i = 3 \/ i = 4
      OBVIOUS
    <2> QED
      BY <2>2, <2>3, <2>4, <2>5, <2>6
  <1> QED
    BY <1>5, <1>6

\* A block of ternary weights is legal and decodes to them.
LEMMA RoundTrip ==
    ASSUME NEW codes, Ternary(codes), codes = [w \in Weights |-> codes[w]], NEW scale
    PROVE  /\ Legal(EncodeTq1(scale, codes)) /\ DecodeTq1(EncodeTq1(scale, codes)) = codes
           /\ EncodeTq1(scale, codes).scale = scale
           /\ \A s \in Slots : EncodeTq1(scale, codes).code[s] \in Nat
           /\ EncodeTq1(scale, codes).code = [s \in Slots |-> EncodeTq1(scale, codes).code[s]]
           /\ EncodeTq1(scale, codes) = [scale |-> EncodeTq1(scale, codes).scale,
                                         code |-> EncodeTq1(scale, codes).code]
  <1> DEFINE block == EncodeTq1(scale, codes)
  <1>1. /\ block.scale = scale /\ block.code = [s \in Slots |-> EncodeSlot(codes, s)]
        /\ block = [scale |-> block.scale, code |-> block.code]
    BY DEF EncodeTq1
  <1>2. \A s \in Slots : block.code[s] = EncodeSlot(codes, s)
    BY <1>1
  <1>3. \A s \in Slots : block.code[s] \in 0..MaxCode(s)
    BY <1>2, SlotRoundTrip
  <1>4. \A s \in Slots : MaxCode(s) \in Nat
    BY DEF MaxCode
  <1>5. ASSUME NEW w \in Weights
        PROVE  (block.code[w \div 5] \div Power[w % 5]) % 3 = codes[w]
    <2>1. PICK s, i : s = w \div 5 /\ i = w % 5
      OBVIOUS
    <2>2. s \in Slots /\ i \in 0..4 /\ w = 5 * s + i /\ (s = FULL_CODE_SLOTS => i < 3)
      BY <2>1, WeightPlace
    <2>3. (EncodeSlot(codes, s) \div Power[i]) % 3 = codes[5 * s + i]
      BY <2>2, SlotRoundTrip
    <2> QED
      BY <1>2, <2>1, <2>2, <2>3
  <1> HIDE DEF block
  <1>6. DecodeTq1(block) = codes
    BY <1>5 DEF DecodeTq1
  <1>7. Legal(block)
    BY <1>3, <1>4 DEF Legal
  <1> QED
    BY <1>1, <1>2, <1>3, <1>4, <1>6, <1>7 DEF block

\* The two table entries of a byte are its digits.
LEMMA SplitByte ==
    ASSUME NEW p \in 0..242, NEW i \in 0..4
    PROVE  LutDigit(p, i) = (p \div Power[i]) % 3
  <1>1. PICK h : h = (p * 57) \div 512
    OBVIOUS
  <1>2. h = p \div 9
    BY <1>1
  <1>3. High(p) = h /\ Low(p) = p - 9 * h
    BY <1>1 DEF High, Low
  <1>4. (p - 9 * h) % 3 = p % 3 /\ ((p - 9 * h) \div 3) % 3 = (p \div 3) % 3
    BY <1>2
  <1>5. h % 3 = (p \div 9) % 3 /\ (h \div 3) % 3 = (p \div 27) % 3 /\ (h \div 9) % 3 = (p \div 81) % 3
    BY <1>2
  <1>6. p \div 1 = p /\ h \div 1 = h /\ (p - 9 * h) \div 1 = p - 9 * h
    BY <1>2
  <1>7. i = 0 \/ i = 1 \/ i = 2 \/ i = 3 \/ i = 4
    OBVIOUS
  <1> QED
    BY <1>3, <1>4, <1>5, <1>6, <1>7, Powers DEF LutDigit

\* A legal block is read by a kernel as it is decoded.
LEMMA LutIsDecode ==
    ASSUME NEW block, Legal(block), \A s \in Slots : block.code[s] \in Nat
    PROVE  LutWeights(block) = DecodeTq1(block)
  <1>1. ASSUME NEW w \in Weights, w \div 5 # FULL_CODE_SLOTS
        PROVE  LutDigit(block.code[w \div 5], w % 5) = (block.code[w \div 5] \div Power[w % 5]) % 3
    <2>1. PICK s, i : s = w \div 5 /\ i = w % 5
      OBVIOUS
    <2>2. s \in Slots /\ i \in 0..4 /\ s # FULL_CODE_SLOTS
      BY <1>1, <2>1, WeightPlace
    <2>3. block.code[s] \in Nat /\ block.code[s] <= 242
      BY <2>2 DEF Legal, MaxCode
    <2>4. PICK p \in 0..242 : p = block.code[s]
      BY <2>3
    <2> QED
      BY <2>1, <2>2, <2>4, SplitByte
  <1> QED
    BY <1>1 DEF LutWeights, DecodeTq1

\* Blocks of the same bytes are read as the same.
LEMMA SameBytes ==
    ASSUME NEW a, NEW b, \A s \in Slots : a.code[s] = b.code[s]
    PROVE  /\ LutWeights(a) = LutWeights(b)
           /\ Legal(a) <=> Legal(b)
  <1>1. \A w \in Weights : w \div 5 \in Slots
    BY WeightPlace
  <1>2. \A w \in Weights : a.code[w \div 5] = b.code[w \div 5]
    BY <1>1
  <1>3. LutWeights(a) = LutWeights(b)
    BY <1>2 DEF LutWeights
  <1> QED
    BY <1>3 DEF Legal

\* Two bits are a weight or the fourth symbol; in the release they are weights.
LEMMA ReleaseCodes ==
    ASSUME NEW t \in Names, NEW c \in CellsOf(t)
    PROVE  /\ Ternary(DecodeQ2(Release.q2[t][c]))
           /\ DecodeQ2(Release.q2[t][c]) = [w \in Weights |-> DecodeQ2(Release.q2[t][c])[w]]
  BY ReleaseAssumption DEF TernaryModel, DecodeQ2

\* What the packer makes of the release holds it.
LEMMA EncodedHolds ==
    ASSUME NEW t \in Names
    PROVE  /\ HoldsRelease(Encoded(Release, t), t)
           /\ \A c \in CellsOf(t) : /\ Legal(Encoded(Release, t)[c])
                                    /\ DecodeTq1(Encoded(Release, t)[c]) = DecodeQ2(Release.q2[t][c])
  <1> SUFFICES ASSUME NEW c \in CellsOf(t)
               PROVE  /\ Legal(Encoded(Release, t)[c])
                      /\ DecodeTq1(Encoded(Release, t)[c]) = DecodeQ2(Release.q2[t][c])
                      /\ LutWeights(Encoded(Release, t)[c]) = DecodeQ2(Release.q2[t][c])
                      /\ Encoded(Release, t)[c].scale = Release.q2[t][c].scale
    BY DEF HoldsRelease
  <1>1. PICK codes : codes = DecodeQ2(Release.q2[t][c])
    OBVIOUS
  <1>2. PICK scale, block : scale = Release.q2[t][c].scale /\ block = EncodeTq1(scale, codes)
    OBVIOUS
  <1>3. /\ Legal(block) /\ DecodeTq1(block) = codes /\ block.scale = scale
        /\ \A s \in Slots : block.code[s] \in Nat
    <2>1. Ternary(codes) /\ codes = [w \in Weights |-> codes[w]]
      BY <1>1, ReleaseCodes
    <2>2. /\ Legal(EncodeTq1(scale, codes)) /\ DecodeTq1(EncodeTq1(scale, codes)) = codes
          /\ EncodeTq1(scale, codes).scale = scale
          /\ \A s \in Slots : EncodeTq1(scale, codes).code[s] \in Nat
      BY <2>1, RoundTrip
    <2> QED
      BY <1>2, <2>2
  <1>4. LutWeights(block) = codes
    BY <1>3, LutIsDecode
  <1>5. Encoded(Release, t)[c] = block
    BY <1>1, <1>2 DEF Encoded
  <1> QED
    BY <1>1, <1>2, <1>3, <1>4, <1>5

----------------------------------------------------------------------------
(* Where things lie in the files. *)

\* An aligned offset is one, and no smaller.
LEMMA AlignsUp ==
    ASSUME NEW v \in Nat
    PROVE  AlignUp(v) \in Nat /\ AlignUp(v) >= v /\ AlignUp(v) % ALIGNMENT = 0
  <1> DEFINE d == ALIGNMENT
  <1>1. d \in Nat \ {0}
    BY AlignmentAssumption
  <1>2. PICK n \in Nat : n = v + d - 1
    BY <1>1
  <1>3. PICK q \in Nat, r \in 0..d - 1 : n = q * d + r /\ q = n \div d
    BY <1>1, DivMod
  <1>4. AlignUp(v) = q * d
    BY <1>1, <1>2, <1>3 DEF AlignUp
  <1>5. q * d \in Nat /\ q * d + 0 \in Nat /\ (q * d + 0) % d = 0
    BY <1>1, DivModUnique
  <1>6. q * d >= v
    BY <1>1, <1>2, <1>3, <1>5
  <1> QED
    BY <1>4, <1>5, <1>6

\* Where a tensor stands in the GGUF.
IndexOf(t) == CHOOSE i \in 1..Len(TensorOrder) : TensorOrder[i] = t

\* A tensor has one place in the order.
LEMMA Order ==
    /\ Len(TensorOrder) \in Nat
    /\ \A i \in 1..Len(TensorOrder) : TensorOrder[i] \in Names /\ IndexOf(TensorOrder[i]) = i
    /\ \A t \in Names : IndexOf(t) \in 1..Len(TensorOrder) /\ TensorOrder[IndexOf(t)] = t
  <1>1. /\ TensorOrder \in Seq(Names) /\ ToSet(TensorOrder) = Names /\ IsInjective(TensorOrder)
    BY TensorsAssumption
  <1>2. Len(TensorOrder) \in Nat /\ DOMAIN TensorOrder = 1..Len(TensorOrder)
    BY <1>1
  <1>3. \A i, j \in 1..Len(TensorOrder) : TensorOrder[i] = TensorOrder[j] => i = j
    BY <1>1, <1>2 DEF IsInjective
  <1>4. \A t \in Names : \E i \in 1..Len(TensorOrder) : TensorOrder[i] = t
    BY <1>1, <1>2 DEF ToSet
  <1>5. \A t \in Names : IndexOf(t) \in 1..Len(TensorOrder) /\ TensorOrder[IndexOf(t)] = t
    BY <1>4 DEF IndexOf
  <1>6. \A i \in 1..Len(TensorOrder) : TensorOrder[i] \in Names
    BY <1>1
  <1> QED
    BY <1>2, <1>3, <1>5, <1>6

\* The sizes of a tensor.
LEMMA Sizes ==
    ASSUME NEW t \in Names
    PROVE  /\ Shape[t].rows \in Nat \ {0} /\ Shape[t].groups \in Nat \ {0}
           /\ GroupsOf(t) \in Nat /\ BLOCK_BYTES \in Nat /\ GroupsOf(t) * BLOCK_BYTES \in Nat
  <1>1. Shape[t].rows \in Nat \ {0} /\ Shape[t].groups \in Nat \ {0}
    BY TensorsAssumption
  <1>2. GroupsOf(t) \in Nat
    BY <1>1 DEF GroupsOf
  <1>3. BLOCK_BYTES \in Nat
    BY SlotsAssumption DEF BLOCK_BYTES, CODE_SLOTS
  <1> QED
    BY <1>1, <1>2, <1>3

\* A recursive function on the places of the tensors exists if its step has a value.
Placing(f, V, first, next) ==
    /\ f \in [1..Len(TensorOrder) -> V]
    /\ f = [i \in 1..Len(TensorOrder) |-> IF i = 1 THEN first ELSE next[<<i, f[i - 1]>>]]

\* It is built place after place.
LEMMA PlacingExists ==
    ASSUME NEW V, NEW first \in V, NEW next \in [(1..Len(TensorOrder)) \X V -> V]
    PROVE  \E f : Placing(f, V, first, next)
  <1> DEFINE n == Len(TensorOrder)
             op == [p \in (1..n) \X V |-> IF p[1] = 1 THEN first ELSE next[p]]
  <1>1. n \in Nat
    BY Order
  <1>2. op \in [(1..n) \X V -> V]
    OBVIOUS
  <1>3. PICK g \in [0..n -> V] : Steps(g, n, first, op)
    <2> HIDE DEF n, op
    <2> QED
      BY <1>1, <1>2, StepsExist
  <1> DEFINE f == [i \in 1..n |-> g[i]]
  <1>4. ASSUME NEW i \in 1..n
        PROVE  g[i] = IF i = 1 THEN first ELSE next[<<i, g[i - 1]>>]
    <2>1. i - 1 \in 0..n
      BY <1>1
    <2>2. g[i] = op[<<i, g[i - 1]>>] /\ g[i - 1] \in V
      <3> HIDE DEF op, n
      <3> QED
        BY <1>3, <2>1 DEF Steps
    <2> QED
      BY <2>2
  <1>5. f \in [1..n -> V]
    BY <1>1
  <1>6. ASSUME NEW i \in 1..n
        PROVE  f[i] = IF i = 1 THEN first ELSE next[<<i, f[i - 1]>>]
    <2>1. i # 1 => i - 1 \in 1..n
      BY <1>1
    <2> QED
      BY <1>4, <2>1
  <1>7. Placing(f, V, first, next)
    <2> HIDE DEF f
    <2> QED
      BY <1>5, <1>6 DEF Placing
  <1> QED
    BY <1>7

\* The bytes of the i-th tensor of a sidecar.
Extent(i) == GroupsOf(TensorOrder[i]) * BLOCK_BYTES

\* The tensors of a sidecar lie one behind the other, each aligned.
LEMMA PackedOffsets ==
    /\ \A i \in 1..Len(TensorOrder) :
           PackedOffset[i] \in Nat /\ Extent(i) \in Nat /\ PackedOffset[i] % ALIGNMENT = 0
    /\ \A i \in 1..Len(TensorOrder) :
           PackedOffset[i] = AlignUp(IF i = 1 THEN HEADER_BYTES ELSE PackedOffset[i - 1] + Extent(i - 1))
  <1> DEFINE n == Len(TensorOrder)
             next == [p \in (1..n) \X Nat |-> AlignUp(p[2] + Extent(p[1] - 1))]
             first == AlignUp(HEADER_BYTES)
             fun(f) == f = [i \in 1..n |-> AlignUp(IF i = 1 THEN HEADER_BYTES
                                                   ELSE f[i - 1] + Extent(i - 1))]
  <1>1. n \in Nat
    BY Order
  <1>2. \A i \in 1..n : Extent(i) \in Nat
    BY Order, Sizes DEF Extent
  <1>3. first \in Nat /\ first % ALIGNMENT = 0
    BY AlignsUp, AlignmentAssumption
  <1> DEFINE nexts == [p \in (1..n) \X Nat |-> IF p[1] = 1 THEN 0 ELSE next[p]]
  <1>4. nexts \in [(1..n) \X Nat -> Nat]
    <2>1. ASSUME NEW p \in (1..n) \X Nat, p[1] # 1
          PROVE  AlignUp(p[2] + Extent(p[1] - 1)) \in Nat
      <3>1. p[1] - 1 \in 1..n /\ p[2] \in Nat
        BY <1>1, <2>1
      <3>2. p[2] + Extent(p[1] - 1) \in Nat
        BY <1>2, <3>1
      <3> QED
        BY <3>2, AlignsUp
    <2> QED
      BY <2>1
  <1>5. PICK f : Placing(f, Nat, first, nexts)
    <2> HIDE DEF nexts, first, next
    <2> QED
      BY <1>3, <1>4, PlacingExists
  <1>6. f \in [1..n -> Nat]
    BY <1>5 DEF Placing
  <1>7. \A i \in 1..n : f[i] = AlignUp(IF i = 1 THEN HEADER_BYTES ELSE f[i - 1] + Extent(i - 1))
    <2> SUFFICES ASSUME NEW i \in 1..n
                 PROVE  f[i] = AlignUp(IF i = 1 THEN HEADER_BYTES ELSE f[i - 1] + Extent(i - 1))
      OBVIOUS
    <2>1. f[i] = IF i = 1 THEN first ELSE nexts[<<i, f[i - 1]>>]
      <3> HIDE DEF first, nexts
      <3> QED
        BY <1>5 DEF Placing
    <2>2. i # 1 => f[i - 1] \in Nat
      BY <1>1, <1>6
    <2>3. i # 1 => nexts[<<i, f[i - 1]>>] = AlignUp(f[i - 1] + Extent(i - 1))
      BY <2>2
    <2> QED
      BY <2>1, <2>3
  <1>8. fun(f)
    BY <1>6, <1>7
  <1>9. PackedOffset = CHOOSE g : fun(g)
    BY DEF PackedOffset, Extent
  <1>10. fun(PackedOffset)
    <2> HIDE DEF fun
    <2> QED
      BY <1>8, <1>9, Zenon
  <1> DEFINE P == {i \in 1..n : PackedOffset[i] \in Nat}
  <1>11. \A i \in 1..n :
             PackedOffset[i] = AlignUp(IF i = 1 THEN HEADER_BYTES ELSE PackedOffset[i - 1] + Extent(i - 1))
    BY <1>10
  <1>12. \A i \in 1..n : PackedOffset[i] \in Nat
    <2>1. CASE n = 0
      BY <2>1
    <2>2. CASE n # 0
      <3>1. 1 \in P
        BY <1>1, <1>3, <1>11, <2>2
      <3>2. ASSUME NEW k \in 1..n - 1, k \in P
            PROVE  k + 1 \in P
        <4>1. k + 1 \in 1..n /\ k + 1 # 1 /\ (k + 1) - 1 = k /\ k \in 1..n
          BY <1>1
        <4>2. PackedOffset[k + 1] = AlignUp(PackedOffset[k] + Extent(k))
          BY <1>11, <4>1
        <4>3. PackedOffset[k] + Extent(k) \in Nat
          BY <1>2, <3>2, <4>1
        <4> QED
          BY <4>1, <4>2, <4>3, AlignsUp
      <3>3. \A k \in 1..n : k \in P
        <4> HIDE DEF P, n
        <4> QED
          BY <1>1, <3>1, <3>2, UpTo
      <3> QED
        BY <3>3
    <2> QED
      BY <2>1, <2>2
  <1>13. ASSUME NEW i \in 1..n
         PROVE  PackedOffset[i] % ALIGNMENT = 0
    <2>1. PICK v \in Nat : PackedOffset[i] = AlignUp(v)
      <3>1. i = 1 => PackedOffset[i] = AlignUp(HEADER_BYTES) /\ HEADER_BYTES \in Nat
        BY <1>11, AlignmentAssumption
      <3>2. i # 1 => /\ PackedOffset[i] = AlignUp(PackedOffset[i - 1] + Extent(i - 1))
                     /\ i - 1 \in 1..n
        BY <1>1, <1>11
      <3>3. i # 1 => PackedOffset[i - 1] + Extent(i - 1) \in Nat
        BY <1>2, <1>12, <3>2
      <3> QED
        BY <3>1, <3>2, <3>3
    <2> QED
      BY <2>1, AlignsUp
  <1> QED
    BY <1>2, <1>11, <1>12, <1>13

\* What a reader of a sidecar goes by.
Manifest ==
    [t \in Names |->
        [logical |-> Logical(Release, t), scales |-> ScaleBits(Release, t),
         payload |-> Encoded(Release, t),
         offset |-> PackedOffset[IndexOf(t)], bytes |-> GroupsOf(t) * BLOCK_BYTES]]

\* The manifest follows the last tensor.
ManifestOffset == PackedOffset[LastPacked] + GroupsOf(TensorOrder[LastPacked]) * BLOCK_BYTES

\* A tensor ends before the manifest begins.
LEMMA BeforeManifest ==
    ASSUME NEW i \in 1..Len(TensorOrder)
    PROVE  PackedOffset[i] + Extent(i) <= ManifestOffset
  <1> DEFINE n == Len(TensorOrder)
             P == {k \in i..n : PackedOffset[i] + Extent(i) <= PackedOffset[k] + Extent(k)}
  <1>1. n \in Nat /\ i \in Nat /\ i >= 1 /\ i <= n
    BY Order
  <1>2. \A k \in 1..n : PackedOffset[k] \in Nat /\ Extent(k) \in Nat
    BY PackedOffsets
  <1>3. i \in P
    BY <1>1, <1>2
  <1>4. ASSUME NEW k \in i..n - 1, k \in P
        PROVE  k + 1 \in P
    <2>1. k \in 1..n /\ k + 1 \in i..n /\ k + 1 \in 1..n /\ k + 1 # 1 /\ (k + 1) - 1 = k
      BY <1>1
    <2>2. PackedOffset[k + 1] = AlignUp(PackedOffset[k] + Extent(k))
      BY <2>1, PackedOffsets
    <2>3. PackedOffset[k] + Extent(k) \in Nat
      BY <1>2, <2>1
    <2>4. PackedOffset[k + 1] >= PackedOffset[k] + Extent(k)
      BY <2>2, <2>3, AlignsUp
    <2>5. PackedOffset[i] + Extent(i) <= PackedOffset[k] + Extent(k)
      BY <1>4
    <2>6. /\ PackedOffset[k + 1] \in Nat /\ Extent(k + 1) \in Nat /\ PackedOffset[k] \in Nat
          /\ Extent(k) \in Nat /\ PackedOffset[i] \in Nat /\ Extent(i) \in Nat
      BY <1>1, <1>2, <2>1
    <2>7. PackedOffset[i] + Extent(i) <= PackedOffset[k + 1] + Extent(k + 1)
      BY <2>4, <2>5, <2>6, SMTT(30)
    <2> QED
      BY <2>1, <2>7
  <1>5. \A k \in i..n : k \in P
    <2> HIDE DEF P, n
    <2> QED
      BY <1>1, <1>3, <1>4, UpTo
  <1>6. n \in i..n
    BY <1>1
  <1> QED
    BY <1>5, <1>6 DEF ManifestOffset, LastPacked, Extent

\* Whoever has that manifest can be read.
LEMMA CanBeRead ==
    ASSUME NEW file, file.sealed, file.manifest = Manifest, file.manifest_offset = ManifestOffset
    PROVE  ReadSidecar(file)
  <1> DEFINE here(i) == file.manifest[TensorOrder[i]]
             before(i) == IF i = 1 THEN HEADER_BYTES
                          ELSE LET last == here(i - 1) IN last.offset + last.bytes
  <1>1. \A i \in 1..Len(TensorOrder) :
            /\ here(i).offset = PackedOffset[i] /\ here(i).bytes = Extent(i)
            /\ here(i).bytes = GroupsOf(TensorOrder[i]) * BLOCK_BYTES
    BY Order DEF Manifest, Extent
  <1>2. \A i \in 1..Len(TensorOrder) : PackedOffset[i] = AlignUp(before(i))
    <2> SUFFICES ASSUME NEW i \in 1..Len(TensorOrder)
                 PROVE  PackedOffset[i] = AlignUp(before(i))
      OBVIOUS
    <2>1. i # 1 => i - 1 \in 1..Len(TensorOrder)
      BY Order
    <2>2. before(i) = IF i = 1 THEN HEADER_BYTES ELSE PackedOffset[i - 1] + Extent(i - 1)
      BY <1>1, <2>1
    <2> HIDE DEF before
    <2> QED
      BY <2>2, PackedOffsets
  <1>3. ASSUME NEW i \in 1..Len(TensorOrder)
        PROVE  /\ here(i).offset % ALIGNMENT = 0 /\ here(i).offset >= AlignUp(before(i))
               /\ here(i).bytes = GroupsOf(TensorOrder[i]) * BLOCK_BYTES
               /\ here(i).offset + here(i).bytes <= file.manifest_offset
    <2>1. /\ here(i).offset = PackedOffset[i] /\ here(i).bytes = Extent(i)
          /\ PackedOffset[i] = AlignUp(before(i))
      BY <1>1, <1>2
    <2>2. PackedOffset[i] \in Nat /\ PackedOffset[i] % ALIGNMENT = 0
      BY PackedOffsets
    <2>3. PackedOffset[i] + Extent(i) <= file.manifest_offset
      BY BeforeManifest
    <2>4. here(i).bytes = GroupsOf(TensorOrder[i]) * BLOCK_BYTES
      BY <1>1
    <2> HIDE DEF here, before
    <2> QED
      BY <2>1, <2>2, <2>3, <2>4
  <1> QED
    BY <1>3 DEF ReadSidecar

\* The extents of a tensor in a reordered file.
Layouts ==
    [tiles : Nat, groups : Nat, rows : Nat, codes_offset : Nat, codes_bytes : Nat,
     scales_offset : Nat, scales_bytes : Nat, end : Nat]

\* The extents of one tensor follow each other.
LEMMA LayoutOf ==
    ASSUME NEW rows \in Nat \ {0}, NEW groups \in Nat \ {0}, NEW start \in Nat
    PROVE  LET here == TensorLayout(rows, groups, start, M_TILE)
           IN  /\ here \in Layouts
               /\ start <= here.codes_offset
               /\ here.codes_offset + here.codes_bytes <= here.scales_offset
  <1> DEFINE tiles == Tiles(rows, M_TILE)
             padded == tiles * M_TILE
             codes_offset == AlignUp(start)
             codes_bytes == padded * groups * CODE_SLOTS
             scales_offset == AlignUp(codes_offset + codes_bytes)
             scales_bytes == padded * groups * 2
  <1>1. tiles \in Nat
    BY CeilingCovers, TensorsAssumption DEF Tiles
  <1>2. M_TILE \in Nat /\ CODE_SLOTS \in Nat
    BY TensorsAssumption, SlotsAssumption DEF CODE_SLOTS
  <1>3. padded \in Nat
    <2> HIDE DEF tiles
    <2> QED
      BY <1>1, <1>2
  <1>4. padded * groups \in Nat
    <2> HIDE DEF padded
    <2> QED
      BY <1>3
  <1>5. codes_bytes \in Nat /\ scales_bytes \in Nat
    <2>1. PICK m \in Nat : m = padded * groups
      BY <1>4
    <2>2. m * CODE_SLOTS \in Nat /\ m * 2 \in Nat
      BY <1>2, <2>1
    <2> QED
      BY <2>1, <2>2
  <1>6. codes_offset \in Nat /\ codes_offset >= start
    BY AlignsUp
  <1> HIDE DEF codes_offset, codes_bytes, scales_bytes
  <1>7. codes_offset + codes_bytes \in Nat
    BY <1>5, <1>6
  <1>8. scales_offset \in Nat /\ scales_offset >= codes_offset + codes_bytes
    BY <1>7, AlignsUp
  <1> HIDE DEF scales_offset
  <1>9. scales_offset + scales_bytes \in Nat
    BY <1>5, <1>8
  <1>10. TensorLayout(rows, groups, start, M_TILE)
             = [tiles |-> Tiles(rows, M_TILE), groups |-> groups, rows |-> rows,
                codes_offset |-> codes_offset, codes_bytes |-> codes_bytes,
                scales_offset |-> scales_offset, scales_bytes |-> scales_bytes,
                end |-> scales_offset + scales_bytes]
    BY DEF TensorLayout, codes_offset, codes_bytes, scales_offset, scales_bytes
  <1> QED
    BY <1>1, <1>5, <1>6, <1>8, <1>9, <1>10 DEF Layouts

\* The tensors of a reordered file lie one behind the other.
LayoutAt(i, start) ==
    TensorLayout(Shape[TensorOrder[i]].rows, Shape[TensorOrder[i]].groups, start, M_TILE)

\* Those of every tensor follow those of the tensor before.
LEMMA ReorderedLayouts ==
    \A i \in 1..Len(TensorOrder) :
        /\ ReorderedLayout[i] \in Layouts
        /\ ReorderedLayout[i]
               = LayoutAt(i, IF i = 1 THEN HEADER_BYTES ELSE ReorderedLayout[i - 1].end)
        /\ ReorderedLayout[i].codes_offset + ReorderedLayout[i].codes_bytes
               <= ReorderedLayout[i].scales_offset
        /\ i > 1 => ReorderedLayout[i - 1].end <= ReorderedLayout[i].codes_offset
  <1> DEFINE n == Len(TensorOrder)
             next == [p \in (1..n) \X Layouts |-> LayoutAt(p[1], p[2].end)]
             fun(f) == f = [i \in 1..n |-> LayoutAt(i, IF i = 1 THEN HEADER_BYTES ELSE f[i - 1].end)]
  <1>1. n \in Nat
    BY Order
  <1>2. ASSUME NEW i \in 1..n, NEW start \in Nat
        PROVE  /\ LayoutAt(i, start) \in Layouts
               /\ start <= LayoutAt(i, start).codes_offset
               /\ LayoutAt(i, start).codes_offset + LayoutAt(i, start).codes_bytes
                      <= LayoutAt(i, start).scales_offset
    <2>1. TensorOrder[i] \in Names
      BY Order
    <2>2. Shape[TensorOrder[i]].rows \in Nat \ {0} /\ Shape[TensorOrder[i]].groups \in Nat \ {0}
      BY <2>1, Sizes
    <2> QED
      BY <2>2, LayoutOf DEF LayoutAt
  <1>3. HEADER_BYTES \in Nat
    BY AlignmentAssumption
  <1>4. CASE n = 0
    BY <1>4
  <1>5. CASE n # 0
    <2> DEFINE first == LayoutAt(1, HEADER_BYTES)
    <2>1. 1 \in 1..n
      BY <1>1, <1>5
    <2>2. first \in Layouts
      BY <1>2, <1>3, <2>1
    <2>3. next \in [(1..n) \X Layouts -> Layouts]
      <3>1. \A p \in (1..n) \X Layouts : p[1] \in 1..n /\ p[2].end \in Nat
        BY DEF Layouts
      <3> QED
        BY <1>2, <3>1
    <2>4. PICK f : Placing(f, Layouts, first, next)
      <3> HIDE DEF first, next
      <3> QED
        BY <2>2, <2>3, PlacingExists
    <2>5. f \in [1..n -> Layouts]
      BY <2>4 DEF Placing
    <2>6. fun(f)
      <3>1. ASSUME NEW i \in 1..n
            PROVE  f[i] = LayoutAt(i, IF i = 1 THEN HEADER_BYTES ELSE f[i - 1].end)
        <4>1. f[i] = IF i = 1 THEN first ELSE next[<<i, f[i - 1]>>]
          <5> HIDE DEF first, next
          <5> QED
            BY <2>4 DEF Placing
        <4>2. i # 1 => f[i - 1] \in Layouts
          BY <1>1, <2>5
        <4> QED
          BY <4>1, <4>2
      <3> QED
        BY <2>5, <3>1
    <2>7. ReorderedLayout = CHOOSE g : fun(g)
      BY DEF ReorderedLayout, LayoutAt
    <2>8. fun(ReorderedLayout)
      <3> HIDE DEF fun
      <3> QED
        BY <2>6, <2>7, Zenon
    <2>9. \A i \in 1..n : ReorderedLayout[i]
              = LayoutAt(i, IF i = 1 THEN HEADER_BYTES ELSE ReorderedLayout[i - 1].end)
      BY <2>8
    <2> DEFINE P == {i \in 1..n : ReorderedLayout[i] \in Layouts}
    <2>10. 1 \in P
      BY <2>1, <2>2, <2>9
    <2>11. ASSUME NEW k \in 1..n - 1, k \in P
           PROVE  k + 1 \in P
      <3>1. k + 1 \in 1..n /\ k + 1 # 1 /\ (k + 1) - 1 = k
        BY <1>1
      <3>2. ReorderedLayout[k + 1] = LayoutAt(k + 1, ReorderedLayout[k].end)
        BY <2>9, <3>1
      <3>3. ReorderedLayout[k].end \in Nat
        BY <2>11 DEF Layouts
      <3> QED
        BY <1>2, <3>1, <3>2, <3>3
    <2>12. \A k \in 1..n : k \in P
      <3> HIDE DEF P, n
      <3> QED
        BY <1>1, <2>10, <2>11, UpTo
    <2>13. ASSUME NEW i \in 1..n
           PROVE  /\ ReorderedLayout[i].codes_offset + ReorderedLayout[i].codes_bytes
                         <= ReorderedLayout[i].scales_offset
                  /\ i > 1 => ReorderedLayout[i - 1].end <= ReorderedLayout[i].codes_offset
      <3>1. PICK start : start = IF i = 1 THEN HEADER_BYTES ELSE ReorderedLayout[i - 1].end
        OBVIOUS
      <3>2. start \in Nat
        <4>1. i # 1 => i - 1 \in 1..n
          BY <1>1
        <4>2. i # 1 => ReorderedLayout[i - 1] \in Layouts
          BY <2>12, <4>1
        <4> QED
          BY <1>3, <3>1, <4>2 DEF Layouts
      <3>3. ReorderedLayout[i] = LayoutAt(i, start)
        BY <2>9, <3>1
      <3>4. i > 1 => start = ReorderedLayout[i - 1].end
        BY <3>1
      <3> QED
        BY <1>2, <3>2, <3>3, <3>4
    <2> HIDE DEF fun, next, first
    <2> QED
      BY <2>9, <2>12, <2>13
  <1> QED
    BY <1>4, <1>5

\* The extents of a reordered file.
Extents == [t \in Names |-> ReorderedLayout[IndexOf(t)]]

\* No two of them overlap.
Apart(manifest) ==
    \A i \in 1..Len(TensorOrder) :
        LET here == manifest[TensorOrder[i]]
        IN  /\ here.codes_offset + here.codes_bytes <= here.scales_offset
            /\ i < Len(TensorOrder) => here.end <= manifest[TensorOrder[i + 1]].codes_offset

\* The extents that the reorder writes do not overlap.
LEMMA ExtentsApart == Apart(Extents)
  <1> SUFFICES ASSUME NEW i \in 1..Len(TensorOrder)
               PROVE  LET here == Extents[TensorOrder[i]]
                      IN  /\ here.codes_offset + here.codes_bytes <= here.scales_offset
                          /\ i < Len(TensorOrder) =>
                                 here.end <= Extents[TensorOrder[i + 1]].codes_offset
    BY DEF Apart
  <1>1. \A j \in 1..Len(TensorOrder) : Extents[TensorOrder[j]] = ReorderedLayout[j]
    BY Order DEF Extents
  <1>2. i < Len(TensorOrder) => /\ i + 1 \in 1..Len(TensorOrder) /\ i + 1 > 1 /\ (i + 1) - 1 = i
    BY Order
  <1>3. i < Len(TensorOrder) => ReorderedLayout[i].end <= ReorderedLayout[i + 1].codes_offset
    BY <1>2, ReorderedLayouts
  <1> QED
    BY <1>1, <1>2, <1>3, ReorderedLayouts

----------------------------------------------------------------------------
(* The reordered arrays of a tensor. *)

\* What the reorder writes of a tensor.
Reordered(blocks, t) ==
    [codes |-> ReorderCodes(blocks, Shape[t].rows, Shape[t].groups, M_TILE),
     scales |-> ReorderScales(blocks, Shape[t].rows, Shape[t].groups, M_TILE, ZeroScale)]

\* A place <<tile, group, row>> has a row of the tensor.
Inside(t, p) == p[3] \in RowsIn(p[1], Shape[t].rows, M_TILE)

\* The places of a tensor in the reordered file.
PlacesOf(t) == ScalePlaces(Shape[t].rows, Shape[t].groups, M_TILE)

\* The block that belongs into a place, and what is there.
BlockAt(blocks, p) == blocks[<<p[1] * M_TILE + p[3], p[2]>>]
CodeAt(out, p, s) == out.codes[<<p[1], p[2], s, p[3]>>]

\* out holds the blocks, reordered, and silent padding.
Copies(out, blocks, t) ==
    \A p \in PlacesOf(t) :
        /\ Inside(t, p) => /\ out.scales[p] = BlockAt(blocks, p).scale
                           /\ \A s \in Slots : CodeAt(out, p, s) = BlockAt(blocks, p).code[s]
        /\ ~Inside(t, p) => /\ out.scales[p] = ZeroScale
                            /\ \A s \in Slots : CodeAt(out, p, s) = 0

\* What the reorder writes is a copy of the blocks.
LEMMA ReorderCopies ==
    ASSUME NEW t, NEW blocks
    PROVE  /\ Copies(Reordered(blocks, t), blocks, t)
           /\ DOMAIN Reordered(blocks, t).codes = CodePlaces(Shape[t].rows, Shape[t].groups, M_TILE)
  <1> DEFINE out == Reordered(blocks, t)
             all == CodePlaces(Shape[t].rows, Shape[t].groups, M_TILE)
  <1>1. /\ out.scales = [p \in PlacesOf(t) |-> IF Inside(t, p) THEN BlockAt(blocks, p).scale
                                              ELSE ZeroScale]
        /\ out.codes = [q \in all |-> IF q[4] \in RowsIn(q[1], Shape[t].rows, M_TILE)
                                      THEN blocks[<<q[1] * M_TILE + q[4], q[2]>>].code[q[3]]
                                      ELSE 0]
    BY DEF Reordered, ReorderScales, ReorderCodes, Inside, BlockAt, PlacesOf
  <1>2. ASSUME NEW p \in PlacesOf(t), NEW s \in Slots
        PROVE  CodeAt(out, p, s) = IF Inside(t, p) THEN BlockAt(blocks, p).code[s] ELSE 0
    <2>1. <<p[1], p[2], s, p[3]>> \in all
      BY DEF PlacesOf, ScalePlaces, CodePlaces
    <2> HIDE DEF out, all
    <2> QED
      BY <1>1, <2>1 DEF CodeAt, Inside, BlockAt
  <1> HIDE DEF out
  <1> QED
    BY <1>1, <1>2 DEF Copies, out

\* The places of a reordered file are those of the tensor's cells and the padding.
LEMMA PlaceOfCell ==
    ASSUME NEW t \in Names, NEW c \in CellsOf(t)
    PROVE  LET p == <<c[1] \div M_TILE, c[2], c[1] % M_TILE>>
           IN  /\ p \in PlacesOf(t) /\ Inside(t, p)
               /\ <<p[1] * M_TILE + p[3], p[2]>> = c
  <1> DEFINE rows == Shape[t].rows
             groups == Shape[t].groups
             i == c[1] \div M_TILE
             r == c[1] % M_TILE
  <1>1. rows \in Nat \ {0} /\ groups \in Nat \ {0} /\ M_TILE \in Nat \ {0}
    BY Sizes, TensorsAssumption
  <1>2. c[1] \in 0..rows - 1 /\ c[2] \in 0..groups - 1 /\ c = <<c[1], c[2]>>
    BY DEF CellsOf, Cells
  <1>3. i \in 0..Tiles(rows, M_TILE) - 1
    <2> HIDE DEF rows
    <2> QED
      BY <1>1, <1>2, BlocksStart DEF Tiles
  <1>4. r \in 0..M_TILE - 1 /\ i \in Nat /\ c[1] = i * M_TILE + r
    <2>1. PICK x \in Nat, d \in Nat \ {0} : x = c[1] /\ d = M_TILE
      BY <1>1, <1>2
    <2>2. x \div d \in Nat /\ x % d \in 0..d - 1 /\ x = (x \div d) * d + (x % d)
      BY DivMod
    <2> QED
      BY <2>1, <2>2
  <1>5. r \in RowsIn(i, rows, M_TILE)
    <2> HIDE DEF rows, i, r
    <2> QED
      BY <1>1, <1>2, <1>4 DEF RowsIn
  <1> HIDE DEF i, r
  <1> QED
    BY <1>2, <1>3, <1>4, <1>5 DEF PlacesOf, ScalePlaces, Inside, i, r

\* And a place that is no padding has a cell of the tensor.
LEMMA CellOfPlace ==
    ASSUME NEW t \in Names, NEW p \in PlacesOf(t), Inside(t, p)
    PROVE  <<p[1] * M_TILE + p[3], p[2]>> \in CellsOf(t)
  <1>1. /\ p[1] \in 0..Tiles(Shape[t].rows, M_TILE) - 1 /\ p[2] \in 0..Shape[t].groups - 1
        /\ p[3] \in 0..M_TILE - 1 /\ p[1] * M_TILE + p[3] < Shape[t].rows
    BY DEF PlacesOf, ScalePlaces, Inside, RowsIn
  <1>2. M_TILE \in Nat \ {0} /\ Shape[t].rows \in Nat
    BY Sizes, TensorsAssumption
  <1>3. p[1] \in Nat /\ p[3] \in Nat
    BY <1>1, <1>2
  <1>4. p[1] * M_TILE \in Nat
    BY <1>2, <1>3
  <1> QED
    BY <1>1, <1>2, <1>3, <1>4 DEF CellsOf, Cells

\* Read back, a copy of what holds the release holds it.
LEMMA RestoreHolds ==
    ASSUME NEW t \in Names, NEW out, NEW blocks, Copies(out, blocks, t), HoldsRelease(blocks, t),
           DOMAIN out.codes = CodePlaces(Shape[t].rows, Shape[t].groups, M_TILE)
    PROVE  /\ HoldsRelease(Restore(out.codes, out.scales, Shape[t].rows, Shape[t].groups, M_TILE), t)
           /\ \A x \in DOMAIN out.codes :
                  x[4] \notin RowsIn(x[1], Shape[t].rows, M_TILE) => out.codes[x] = 0
  <1> DEFINE back == Restore(out.codes, out.scales, Shape[t].rows, Shape[t].groups, M_TILE)
  <1>1. ASSUME NEW c \in CellsOf(t)
        PROVE  /\ Legal(back[c]) /\ LutWeights(back[c]) = DecodeQ2(Release.q2[t][c])
               /\ back[c].scale = Release.q2[t][c].scale
    <2>1. PICK p : p = <<c[1] \div M_TILE, c[2], c[1] % M_TILE>>
      OBVIOUS
    <2>2. p \in PlacesOf(t) /\ Inside(t, p) /\ BlockAt(blocks, p) = blocks[c]
      BY <2>1, PlaceOfCell DEF BlockAt
    <2>3. /\ out.scales[p] = blocks[c].scale
          /\ \A s \in Slots : CodeAt(out, p, s) = blocks[c].code[s]
      BY <2>2 DEF Copies
    <2>4. back[c].scale = out.scales[p] /\ \A s \in Slots : back[c].code[s] = CodeAt(out, p, s)
      BY <2>1 DEF Restore, CodeAt, CellsOf
    <2>5. \A s \in Slots : back[c].code[s] = blocks[c].code[s]
      BY <2>3, <2>4
    <2> HIDE DEF back
    <2>6. LutWeights(back[c]) = LutWeights(blocks[c]) /\ (Legal(back[c]) <=> Legal(blocks[c]))
      BY <2>5, SameBytes
    <2> QED
      BY <2>3, <2>4, <2>6 DEF HoldsRelease
  <1>2. ASSUME NEW x \in DOMAIN out.codes, x[4] \notin RowsIn(x[1], Shape[t].rows, M_TILE)
        PROVE  out.codes[x] = 0
    <2>1. x \in CodePlaces(Shape[t].rows, Shape[t].groups, M_TILE)
      OBVIOUS
    <2>2. x = <<x[1], x[2], x[3], x[4]>> /\ x[3] \in Slots
      BY <2>1 DEF CodePlaces
    <2>3. PICK p : p = <<x[1], x[2], x[4]>>
      OBVIOUS
    <2>4. p \in PlacesOf(t) /\ ~Inside(t, p)
      BY <1>2, <2>1, <2>3 DEF CodePlaces, PlacesOf, ScalePlaces, Inside
    <2>5. CodeAt(out, p, x[3]) = 0
      BY <2>2, <2>4 DEF Copies
    <2> QED
      BY <2>2, <2>3, <2>5 DEF CodeAt
  <1> HIDE DEF back
  <1> QED
    BY <1>1, <1>2 DEF HoldsRelease, back

\* The verifier of the reordered file looks at every place.
LEMMA TilesAreCopied ==
    ASSUME NEW t, TilesMatch(t)
    PROVE  Copies(reordered.tensors[t], sidecar.tensors[t], t)
  <1> SUFFICES ASSUME NEW p \in PlacesOf(t)
               PROVE  /\ Inside(t, p) =>
                            /\ reordered.tensors[t].scales[p] = BlockAt(sidecar.tensors[t], p).scale
                            /\ \A s \in Slots : CodeAt(reordered.tensors[t], p, s)
                                                    = BlockAt(sidecar.tensors[t], p).code[s]
                      /\ ~Inside(t, p) =>
                            /\ reordered.tensors[t].scales[p] = ZeroScale
                            /\ \A s \in Slots : CodeAt(reordered.tensors[t], p, s) = 0
    BY DEF Copies
  <1>1. /\ p[1] \in 0..Tiles(Shape[t].rows, M_TILE) - 1 /\ p[2] \in 0..Shape[t].groups - 1
        /\ p[3] \in 0..M_TILE - 1 /\ p = <<p[1], p[2], p[3]>>
    BY DEF PlacesOf, ScalePlaces
  <1>2. PICK i, g, r : i = p[1] /\ g = p[2] /\ r = p[3]
    OBVIOUS
  <1>3. /\ i \in 0..Tiles(Shape[t].rows, M_TILE) - 1 /\ g \in 0..Shape[t].groups - 1
        /\ r \in 0..M_TILE - 1 /\ p = <<i, g, r>>
    BY <1>1, <1>2
  <1> DEFINE out == reordered.tensors[t]
  <1>4. IF r \in RowsIn(i, Shape[t].rows, M_TILE)
        THEN LET block == sidecar.tensors[t][<<i * M_TILE + r, g>>]
             IN  /\ out.scales[<<i, g, r>>] = block.scale
                 /\ \A s \in Slots : out.codes[<<i, g, s, r>>] = block.code[s]
        ELSE /\ out.scales[<<i, g, r>>] = ZeroScale
             /\ \A s \in Slots : out.codes[<<i, g, s, r>>] = 0
    BY <1>3 DEF TilesMatch
  <1>5. Inside(t, p) <=> r \in RowsIn(i, Shape[t].rows, M_TILE)
    BY <1>2 DEF Inside
  <1>6. /\ BlockAt(sidecar.tensors[t], p) = sidecar.tensors[t][<<i * M_TILE + r, g>>]
        /\ \A s \in Slots : CodeAt(out, p, s) = out.codes[<<i, g, s, r>>]
    BY <1>2 DEF BlockAt, CodeAt
  <1> QED
    BY <1>3, <1>4, <1>5, <1>6

\* And passes a copy of legal blocks.
LEMMA CopiesMatch ==
    ASSUME NEW t \in Names, Copies(reordered.tensors[t], sidecar.tensors[t], t),
           \A c \in CellsOf(t) : Legal(sidecar.tensors[t][c])
    PROVE  TilesMatch(t)
  <1> DEFINE out == reordered.tensors[t]
  <1> SUFFICES ASSUME NEW i \in 0..Tiles(Shape[t].rows, M_TILE) - 1,
                      NEW g \in 0..Shape[t].groups - 1, NEW r \in 0..M_TILE - 1
               PROVE  IF r \in RowsIn(i, Shape[t].rows, M_TILE)
                      THEN LET block == sidecar.tensors[t][<<i * M_TILE + r, g>>]
                           IN  /\ out.scales[<<i, g, r>>] = block.scale
                               /\ \A s \in Slots : /\ out.codes[<<i, g, s, r>>] = block.code[s]
                                                   /\ out.codes[<<i, g, s, r>>] <= MaxCode(s)
                      ELSE /\ out.scales[<<i, g, r>>] = ZeroScale
                           /\ \A s \in Slots : out.codes[<<i, g, s, r>>] = 0
    BY DEF TilesMatch
  <1>1. PICK p : p = <<i, g, r>>
    OBVIOUS
  <1>2. p \in PlacesOf(t) /\ (Inside(t, p) <=> r \in RowsIn(i, Shape[t].rows, M_TILE))
    BY <1>1 DEF PlacesOf, ScalePlaces, Inside
  <1>3. Inside(t, p) => Legal(BlockAt(sidecar.tensors[t], p))
    BY <1>2, CellOfPlace DEF BlockAt
  <1> QED
    BY <1>1, <1>2, <1>3 DEF Copies, BlockAt, CodeAt, Legal

----------------------------------------------------------------------------
(* What the files, the writer and the records are. *)

\* The sidecar that the packer makes of the release.
Genuine ==
    [sealed |-> TRUE, source |-> Release, tensors |-> [t \in Names |-> Encoded(Release, t)],
     manifest |-> Manifest, manifest_offset |-> ManifestOffset]

\* The blocks of a tensor, whatever byte of them is damaged.
IsBlocks(blocks, t) ==
    /\ DOMAIN blocks = CellsOf(t) /\ blocks = [c \in CellsOf(t) |-> blocks[c]]
    /\ \A c \in CellsOf(t) :
        /\ blocks[c] = [scale |-> blocks[c].scale, code |-> blocks[c].code]
        /\ blocks[c].code \in [Slots -> Nat]

\* A complete sidecar, of the release, whatever byte of its blocks is damaged.
IsSidecar(file) ==
    /\ file = [sealed |-> file.sealed, source |-> Release, tensors |-> file.tensors,
               manifest |-> Manifest, manifest_offset |-> ManifestOffset]
    /\ file.sealed
    /\ file.tensors = [t \in Names |-> file.tensors[t]]
    /\ \A t \in Names : IsBlocks(file.tensors[t], t)

\* The arrays of a reordered tensor.
IsArrays(out, t) ==
    /\ out = [codes |-> out.codes, scales |-> out.scales]
    /\ LET all == CodePlaces(Shape[t].rows, Shape[t].groups, M_TILE)
       IN  DOMAIN out.codes = all /\ out.codes = [q \in all |-> out.codes[q]]

\* A complete reordered sidecar.
IsReordered(file) ==
    /\ file = [sealed |-> file.sealed, source |-> file.source, hashed |-> file.hashed,
               tensors |-> file.tensors, manifest |-> Extents]
    /\ file.sealed
    /\ file.tensors = [t \in Names |-> file.tensors[t]]
    /\ \A t \in Names : IsArrays(file.tensors[t], t)

\* A complete GGUF with the sidecar's blocks, its other tensors the release's.
IsGguf(file) ==
    /\ file = [sealed |-> file.sealed, plain |-> Release.plain, tensors |-> file.tensors]
    /\ file.sealed
    /\ file.tensors = [t \in Names |-> file.tensors[t]]

\* Under a final name there is a complete file.
FilesAre ==
    /\ Present(sidecar) => IsSidecar(sidecar)
    /\ Present(reordered) => IsReordered(reordered)
    /\ Present(gguf) => IsGguf(gguf)

\* The source that the running reorder names.
NamesSource(out) == out.source = IF out.hashed THEN sidecar ELSE Genuine

\* The temporary file of a writer has the tensors that are no longer to do, each as its
\* input has it, which does not change while the writer runs.
Partial(out) ==
    /\ job.todo \in Seq(Names)
    /\ out.tensors = [t \in DOMAIN out.tensors |-> Content(t)]
    /\ DOMAIN out.tensors \cup ToSet(job.todo) = Names
    /\ job.tool = "pack" =>
        out = [sealed |-> out.sealed, source |-> Release, tensors |-> out.tensors]
    /\ job.tool = "reorder" =>
        /\ out = [sealed |-> out.sealed, source |-> out.source, hashed |-> out.hashed,
                  tensors |-> out.tensors]
        /\ NamesSource(out)
    /\ job.tool = "convert" =>
        out = [sealed |-> out.sealed, plain |-> Release.plain, tensors |-> out.tensors]

\* And when it is sealed it is the finished file.
Finished(out) ==
    /\ job.tool = "pack" => out = Genuine
    /\ job.tool = "reorder" =>
        /\ out = [sealed |-> TRUE, source |-> out.source, hashed |-> out.hashed,
                  tensors |-> [t \in Names |-> Reordered(sidecar.tensors[t], t)],
                  manifest |-> Extents]
        /\ NamesSource(out)
    /\ job.tool = "convert" =>
        out = [sealed |-> TRUE, plain |-> Release.plain,
               tensors |-> [t \in Names |-> sidecar.tensors[t]]]

\* The writer that runs, and what its stage says of its temporary file.
JobIs ==
    AtRest \/
    /\ job = [tool |-> job.tool, stage |-> job.stage, todo |-> job.todo, out |-> job.out]
    /\ job.tool \in {"pack", "reorder", "convert"}
    /\ job.stage \in {"write", "sealed", "published"}
    /\ job.tool = "pack" => model = Release /\ Present(audit)
    /\ job.tool # "pack" => Present(sidecar)
    /\ job.stage = "write" => Partial(job.out)
    /\ job.stage = "sealed" => Finished(job.out)
    /\ job.stage = "published" => job.tool = "pack" /\ sidecar = Genuine

\* While no byte is damaged all files and records are those of the release.
Undamaged ==
    /\ model = Release
    /\ Present(sidecar) => sidecar = Genuine
    /\ Present(reordered) => /\ reordered.source = Genuine
                             /\ \A t \in Names :
                                 Copies(reordered.tensors[t], Genuine.tensors[t], t)
    /\ Present(gguf) => \A t \in Names : gguf.tensors[t] = Genuine.tensors[t]
    /\ Present(audit) => /\ audit.pass
                         /\ audit.tensors = [t \in Names |-> [logical |-> Logical(Release, t),
                                                              scales |-> ScaleBits(Release, t)]]
    /\ Present(verified) => verified.pass /\ verified.sidecar = Genuine
    /\ Present(reverified) => reverified.pass

\* What a record says was so when it was written.
RecordsAre ==
    /\ Present(packed) => packed.sidecar = Genuine
    /\ PassedModel => \A t \in Names : HoldsRelease(verified.sidecar.tensors[t], t)
    /\ Present(traversal) =>
        (traversal.hashed => \A t \in Names : HoldsRelease(traversal.sidecar.tensors[t], t))
    /\ Present(distributed) =>
        /\ \A t \in Names : HoldsRelease(distributed.of.tensors[t], t)
        /\ distributed.of.plain = Release.plain

\* The inductive invariant.
IInv ==
    /\ damage \in Nat /\ raised = {}
    /\ FilesAre /\ JobIs /\ RecordsAre
    /\ damage = 0 => Undamaged

\* A file is the reorder of the sidecar that it names.
Follows(file) == \A t \in Names : Copies(file.tensors[t], file.source.tensors[t], t)

\* With one damage at most: a reordered file follows its source, or has been damaged itself,
\* and then no sidecar has; and one that passed its verification follows its source.
Lineage ==
    /\ Present(reordered) /\ reordered.hashed =>
        \/ Follows(reordered)
        \/ damage > 0 /\ reordered.source = Genuine /\ (Present(sidecar) => sidecar = Genuine)
    /\ Present(reverified) =>
        (reverified.pass /\ reverified.of.hashed =>
            /\ reverified.source = reverified.of.source /\ Follows(reverified.of)
            /\ \A t \in Names : IsArrays(reverified.of.tensors[t], t))

----------------------------------------------------------------------------
(* Lemmas on them. *)

\* The packer's blocks are blocks, and its sidecar a sidecar.
LEMMA GenuineIs ==
    /\ IsSidecar(Genuine) /\ Genuine.source = Release
    /\ \A t \in Names : /\ Genuine.tensors[t] = Encoded(Release, t)
                        /\ HoldsRelease(Genuine.tensors[t], t)
  <1>1. ASSUME NEW t \in Names
        PROVE  IsBlocks(Encoded(Release, t), t)
    <2> DEFINE blocks == Encoded(Release, t)
    <2>1. DOMAIN blocks = CellsOf(t) /\ blocks = [c \in CellsOf(t) |-> blocks[c]]
      BY DEF Encoded
    <2>2. ASSUME NEW c \in CellsOf(t)
          PROVE  /\ blocks[c] = [scale |-> blocks[c].scale, code |-> blocks[c].code]
                 /\ blocks[c].code \in [Slots -> Nat]
      <3>1. PICK codes, scale : /\ codes = DecodeQ2(Release.q2[t][c])
                                /\ scale = Release.q2[t][c].scale
        OBVIOUS
      <3>2. PICK block : block = EncodeTq1(scale, codes)
        OBVIOUS
      <3>3. /\ block = [scale |-> block.scale, code |-> block.code]
            /\ block.code = [s \in Slots |-> block.code[s]] /\ \A s \in Slots : block.code[s] \in Nat
        <4>1. Ternary(codes) /\ codes = [w \in Weights |-> codes[w]]
          BY <3>1, ReleaseCodes
        <4> QED
          BY <3>2, <4>1, RoundTrip
      <3>4. blocks[c] = block
        BY <3>1, <3>2 DEF Encoded
      <3>5. block.code \in [Slots -> Nat]
        BY ONLY <3>3
      <3> QED
        BY <3>3, <3>4, <3>5
    <2> QED
      BY <2>1, <2>2 DEF IsBlocks
  <1>2. \A t \in Names : Genuine.tensors[t] = Encoded(Release, t)
    BY DEF Genuine
  <1>3. IsSidecar(Genuine) /\ Genuine.source = Release
    BY <1>1, <1>2 DEF IsSidecar, Genuine
  <1> QED
    BY <1>2, <1>3, EncodedHolds

\* A sidecar can be read.
LEMMA SidecarReads ==
    ASSUME NEW file, IsSidecar(file)
    PROVE  ReadSidecar(file) /\ file.source = Release /\ file.manifest = Manifest
  BY CanBeRead DEF IsSidecar

\* Reordered arrays are arrays.
LEMMA ReorderedIs ==
    ASSUME NEW t, NEW blocks
    PROVE  IsArrays(Reordered(blocks, t), t)
  BY DEF IsArrays, Reordered, ReorderCodes

\* A byte of a sidecar changes, and it is a sidecar still.
LEMMA SidecarDamaged ==
    ASSUME NEW file, IsSidecar(file), NEW u, NEW c, NEW s, NEW b \in Nat
    PROVE  IsSidecar([file EXCEPT !.tensors[u][c].code[s] = b])
  <1> DEFINE new == [file EXCEPT !.tensors[u][c].code[s] = b]
             was == file.tensors
             now == [was EXCEPT ![u][c].code[s] = b]
  <1>1. /\ new = [sealed |-> file.sealed, source |-> Release, tensors |-> now,
                  manifest |-> Manifest, manifest_offset |-> ManifestOffset]
        /\ was = [t \in Names |-> was[t]]
    <2>1. /\ file = [sealed |-> file.sealed, source |-> Release, tensors |-> was,
                     manifest |-> Manifest, manifest_offset |-> ManifestOffset]
          /\ was = [t \in Names |-> was[t]]
      BY DEF IsSidecar
    <2>2. ASSUME NEW x
          PROVE  [file EXCEPT !.tensors = x] =
                    [sealed |-> file.sealed, source |-> Release, tensors |-> x,
                     manifest |-> Manifest, manifest_offset |-> ManifestOffset]
      BY <2>1
    <2> QED
      BY <2>1, <2>2
  <1>2. now = [t \in Names |-> IF t = u THEN [was[t] EXCEPT ![c].code[s] = b] ELSE was[t]]
    BY <1>1
  <1>3. ASSUME NEW t \in Names
        PROVE  IsBlocks(now[t], t)
    <2>1. IsBlocks(was[t], t)
      BY DEF IsSidecar
    <2>2. CASE t # u
      BY <1>2, <2>1, <2>2
    <2>3. CASE t = u
      <3> DEFINE old == was[t]
                 blocks == [old EXCEPT ![c].code[s] = b]
      <3>1. now[t] = blocks
        BY <1>2, <2>3
      <3>2. /\ DOMAIN old = CellsOf(t) /\ old = [x \in CellsOf(t) |-> old[x]]
            /\ \A x \in CellsOf(t) :
                /\ old[x] = [scale |-> old[x].scale, code |-> old[x].code]
                /\ old[x].code \in [Slots -> Nat]
        BY <2>1 DEF IsBlocks
      <3> HIDE DEF old
      <3>3. blocks = [x \in CellsOf(t) |-> IF x = c THEN [old[x] EXCEPT !.code[s] = b] ELSE old[x]]
        BY <3>2
      <3>4. ASSUME NEW x \in CellsOf(t)
            PROVE  /\ blocks[x] = [scale |-> blocks[x].scale, code |-> blocks[x].code]
                   /\ blocks[x].code \in [Slots -> Nat]
        <4>1. PICK f, e : f \in [Slots -> Nat] /\ old[x] = [scale |-> e, code |-> f]
          BY <3>2
        <4>2. [old[x] EXCEPT !.code[s] = b] = [scale |-> e, code |-> [f EXCEPT ![s] = b]]
          BY <4>1
        <4>3. [f EXCEPT ![s] = b] \in [Slots -> Nat]
          BY <4>1
        <4>4. blocks[x] = IF x = c THEN [scale |-> e, code |-> [f EXCEPT ![s] = b]] ELSE old[x]
          BY <3>3, <4>2
        <4> HIDE DEF blocks
        <4> QED
          BY <4>1, <4>3, <4>4
      <3> HIDE DEF blocks
      <3> QED
        BY <3>1, <3>3, <3>4 DEF IsBlocks
    <2> QED
      BY <2>2, <2>3
  <1> HIDE DEF now, new
  <1>4. now = [t \in Names |-> now[t]]
    BY <1>2
  <1>5. IsSidecar(new)
    BY <1>1, <1>3, <1>4 DEF IsSidecar
  <1> QED
    BY <1>5 DEF new

\* A code of a reordered file changes, and it has its shape still.
LEMMA ReorderedDamaged ==
    ASSUME NEW file, IsReordered(file), NEW u, NEW place, NEW b
    PROVE  LET new == [file EXCEPT !.tensors[u].codes[place] = b]
           IN  IsReordered(new) /\ new.source = file.source /\ new.hashed = file.hashed
  <1> DEFINE new == [file EXCEPT !.tensors[u].codes[place] = b]
             was == file.tensors
             now == [was EXCEPT ![u].codes[place] = b]
  <1>1. /\ new = [sealed |-> file.sealed, source |-> file.source, hashed |-> file.hashed,
                  tensors |-> now, manifest |-> Extents]
        /\ was = [t \in Names |-> was[t]]
    <2>1. /\ file = [sealed |-> file.sealed, source |-> file.source, hashed |-> file.hashed,
                     tensors |-> was, manifest |-> Extents]
          /\ was = [t \in Names |-> was[t]]
      BY DEF IsReordered
    <2>2. ASSUME NEW x
          PROVE  [file EXCEPT !.tensors = x] =
                    [sealed |-> file.sealed, source |-> file.source, hashed |-> file.hashed,
                     tensors |-> x, manifest |-> Extents]
      BY <2>1
    <2> QED
      BY <2>1, <2>2
  <1>2. now = [t \in Names |-> IF t = u THEN [was[t] EXCEPT !.codes[place] = b] ELSE was[t]]
    BY <1>1
  <1>3. ASSUME NEW t \in Names
        PROVE  IsArrays(now[t], t)
    <2>1. IsArrays(was[t], t)
      BY DEF IsReordered
    <2> DEFINE all == CodePlaces(Shape[t].rows, Shape[t].groups, M_TILE)
    <2>2. PICK f, e : was[t] = [codes |-> f, scales |-> e] /\ DOMAIN f = all /\ f = [q \in all |-> f[q]]
      BY <2>1 DEF IsArrays
    <2>3. [was[t] EXCEPT !.codes[place] = b] = [codes |-> [f EXCEPT ![place] = b], scales |-> e]
      BY <2>2
    <2>4. now[t] = IF t = u THEN [codes |-> [f EXCEPT ![place] = b], scales |-> e] ELSE was[t]
      BY <1>2, <2>3
    <2>5. [f EXCEPT ![place] = b] = [q \in all |-> IF q = place THEN b ELSE f[q]]
      BY <2>2
    <2> HIDE DEF now, all
    <2>6. CASE t = u
      <3>1. now[t].codes = [q \in all |-> IF q = place THEN b ELSE f[q]]
        BY <2>4, <2>5, <2>6
      <3>2. now[t] = [codes |-> now[t].codes, scales |-> now[t].scales]
        BY <2>4, <2>6
      <3> QED
        BY <3>1, <3>2 DEF IsArrays, all
    <2> QED
      BY <2>1, <2>4, <2>6
  <1> HIDE DEF now, new
  <1>4. now = [t \in Names |-> now[t]]
    BY <1>2
  <1>5. IsReordered(new) /\ new.source = file.source /\ new.hashed = file.hashed
    BY <1>1, <1>3, <1>4 DEF IsReordered
  <1> QED
    BY <1>5 DEF new

\* A damaged GGUF has its shape still as well.
LEMMA GgufDamaged ==
    ASSUME NEW file, IsGguf(file), NEW u, NEW c, NEW s, NEW b
    PROVE  IsGguf([file EXCEPT !.tensors[u][c].code[s] = b])
  <1> DEFINE new == [file EXCEPT !.tensors[u][c].code[s] = b]
             was == file.tensors
             now == [was EXCEPT ![u][c].code[s] = b]
  <1>1. /\ new = [sealed |-> file.sealed, plain |-> Release.plain, tensors |-> now]
        /\ was = [t \in Names |-> was[t]] /\ file.sealed
    <2>1. /\ file = [sealed |-> file.sealed, plain |-> Release.plain, tensors |-> was]
          /\ was = [t \in Names |-> was[t]]
      BY DEF IsGguf
    <2>2. ASSUME NEW x
          PROVE  [file EXCEPT !.tensors = x] =
                    [sealed |-> file.sealed, plain |-> Release.plain, tensors |-> x]
      BY <2>1
    <2>3. file.sealed
      BY DEF IsGguf
    <2> QED
      BY <2>1, <2>2, <2>3
  <1>2. now = [t \in Names |-> now[t]]
    BY <1>1
  <1> HIDE DEF now, new
  <1>3. IsGguf(new)
    BY <1>1, <1>2 DEF IsGguf
  <1> QED
    BY <1>3 DEF new

----------------------------------------------------------------------------
(* The steps of the writers. *)

\* A step of a writer that publishes nothing leaves all but the writer as it was.
LEMMA KeptParts ==
    ASSUME IInv, UNCHANGED <<files, records, damage>>
    PROVE  /\ FilesAre' /\ RecordsAre' /\ damage' \in Nat
           /\ (damage = 0 => Undamaged)'
  <1>1. FilesAre'
    BY DEF IInv, FilesAre, files
  <1>2. RecordsAre'
    BY DEF IInv, RecordsAre, PassedModel, records
  <1>3. damage' \in Nat /\ (damage = 0 => Undamaged)'
    BY DEF IInv, Undamaged, files, records
  <1> QED
    BY <1>1, <1>2, <1>3

\* An exception is recorded before any damage only.
LEMMA RaiseStep ==
    ASSUME IInv, damage # 0, NEW tool, Raise(tool)
    PROVE  IInv'
  <1>1. /\ UNCHANGED <<files, records, damage>> /\ job' = Idle /\ raised' = {}
    BY DEF Raise, IInv
  <1>2. JobIs'
    BY <1>1 DEF JobIs, AtRest
  <1> QED
    BY <1>1, <1>2, KeptParts DEF IInv

\* A writer that begins has written nothing and has every tensor to do.
LEMMA BeginStep ==
    ASSUME IInv, NEW tool \in {"pack", "reorder", "convert"}, NEW out, Begin(tool, out),
           out.tensors = << >>,
           tool = "pack" =>
               /\ model = Release /\ Present(audit)
               /\ out = [sealed |-> out.sealed, source |-> Release, tensors |-> out.tensors],
           tool # "pack" => Present(sidecar),
           tool = "reorder" =>
               /\ out = [sealed |-> out.sealed, source |-> out.source, hashed |-> out.hashed,
                         tensors |-> out.tensors]
               /\ NamesSource(out),
           tool = "convert" =>
               out = [sealed |-> out.sealed, plain |-> Release.plain, tensors |-> out.tensors]
    PROVE  IInv'
  <1>1. /\ job' = [tool |-> tool, stage |-> "write", todo |-> TensorOrder, out |-> out]
        /\ UNCHANGED <<files, records, damage>> /\ raised' = {}
    BY DEF Begin, IInv
  <1>2. /\ job'.tool = tool /\ job'.stage = "write" /\ job'.todo = TensorOrder /\ job'.out = out
        /\ model' = model /\ sidecar' = sidecar /\ audit' = audit
    BY <1>1 DEF files, records
  <1>3. Partial(job.out)'
    <2>1. /\ TensorOrder \in Seq(Names) /\ ToSet(TensorOrder) = Names
      BY TensorsAssumption
    <2>2. DOMAIN out.tensors = {}
      OBVIOUS
    <2>3. out.tensors = [t \in DOMAIN out.tensors |-> Content(t)']
      BY <2>2
    <2> QED
      BY <1>2, <2>1, <2>2, <2>3 DEF Partial, NamesSource
  <1>4. JobIs'
    BY <1>1, <1>2, <1>3 DEF JobIs, Present
  <1> QED
    BY <1>1, <1>4, KeptParts DEF IInv

\* The packer begins on the release only.
LEMMA PackStartStep == IInv /\ PackStart => IInv'
  <1> SUFFICES ASSUME IInv, PackStart PROVE IInv'
    OBVIOUS
  <1> DEFINE out == [sealed |-> FALSE, source |-> model, tensors |-> << >>]
  <1>1. CASE audit.pass /\ model = Release
    <2>1. Begin("pack", out) /\ Present(audit)
      BY <1>1 DEF PackStart
    <2>2. out.tensors = << >> /\ out = [sealed |-> out.sealed, source |-> Release, tensors |-> out.tensors]
      BY <1>1
    <2> HIDE DEF out
    <2> QED
      BY <1>1, <2>1, <2>2, BeginStep
  <1>2. CASE ~(audit.pass /\ model = Release)
    <2>1. Raise("pack") /\ damage # 0
      BY <1>2 DEF PackStart, IInv, Undamaged
    <2> QED
      BY <2>1, RaiseStep
  <1> QED
    BY <1>1, <1>2

\* The reorder names the sidecar it hashed, or the one of the packing record.
LEMMA ReorderStartStep == ASSUME NEW from_record \in BOOLEAN, IInv, ReorderStart(from_record) PROVE IInv'
  <1> DEFINE out == [sealed |-> FALSE, source |-> SourceOfReorder(from_record),
                     hashed |-> ~from_record, tensors |-> << >>]
  <1>1. Present(sidecar) /\ ReadSidecar(sidecar)
    BY SidecarReads DEF ReorderStart, IInv, FilesAre
  <1>2. Begin("reorder", out)
    BY <1>1 DEF ReorderStart
  <1>3. /\ out.tensors = << >>
        /\ out = [sealed |-> out.sealed, source |-> out.source, hashed |-> out.hashed,
                  tensors |-> out.tensors]
    OBVIOUS
  <1>4. NamesSource(out)
    <2>1. from_record => packed.sidecar = Genuine
      BY DEF ReorderStart, IInv, RecordsAre
    <2> QED
      BY <2>1 DEF NamesSource, SourceOfReorder
  <1> HIDE DEF out
  <1> QED
    BY <1>1, <1>2, <1>3, <1>4, BeginStep

\* The converter has the model before it that the sidecar names.
LEMMA ConvertStartStep ==
    ASSUME NEW skip_hash \in BOOLEAN, IInv, ConvertStart(skip_hash)
    PROVE  IInv'
  <1> DEFINE out == [sealed |-> FALSE, plain |-> model.plain, tensors |-> << >>]
  <1>1. Present(sidecar) /\ ReadSidecar(sidecar) /\ sidecar.source = Release
    BY SidecarReads DEF ConvertStart, IInv, FilesAre
  <1>2. CASE ConvertReads(skip_hash)
    <2>1. Begin("convert", out) /\ model = Release
      BY <1>1, <1>2 DEF ConvertStart, ConvertReads
    <2>2. /\ out.tensors = << >>
          /\ out = [sealed |-> out.sealed, plain |-> Release.plain, tensors |-> out.tensors]
      BY <2>1
    <2> HIDE DEF out
    <2> QED
      BY <1>1, <2>1, <2>2, BeginStep
  <1>3. CASE ~ConvertReads(skip_hash)
    <2>1. Raise("convert") /\ damage # 0
      BY <1>1, <1>3 DEF ConvertStart, ConvertReads, IInv, Undamaged
    <2> QED
      BY <2>1, RaiseStep
  <1> QED
    BY <1>2, <1>3

\* While nothing is damaged the packer finds in the model what the audit found.
LEMMA NotRefused ==
    ASSUME IInv, damage = 0, Present(audit), NEW t \in Names
    PROVE  ~PackRefuses(t)
  <1>1. /\ model = Release
        /\ audit.tensors[t].logical = Logical(Release, t)
        /\ audit.tensors[t].scales = ScaleBits(Release, t)
    BY DEF IInv, Undamaged
  <1>2. \A c \in CellsOf(t) : Ternary(DecodeQ2(Release.q2[t][c]))
    BY ReleaseCodes
  <1> QED
    BY <1>1, <1>2 DEF PackRefuses

\* One more tensor is in the temporary file.
LEMMA WriteTensorStep == IInv /\ WriteTensor => IInv'
  <1> SUFFICES ASSUME IInv, WriteTensor PROVE IInv'
    OBVIOUS
  <1> DEFINE t == Head(job.todo)
             out == job.out
             tensors == With(out.tensors, t, Content(t))
  <1>1. /\ job.stage = "write" /\ job.todo # << >> /\ job # Idle
        /\ job = [tool |-> job.tool, stage |-> job.stage, todo |-> job.todo, out |-> out]
        /\ Partial(out) /\ job.tool \in {"pack", "reorder", "convert"}
        /\ job.tool = "pack" => model = Release /\ Present(audit)
        /\ job.tool # "pack" => Present(sidecar)
    BY DEF WriteTensor, IInv, JobIs, AtRest
  <1>2. job.todo \in Seq(Names) /\ t \in Names
    BY <1>1 DEF Partial
  <1>3. CASE job.tool = "pack" /\ PackRefuses(t)
    <2>1. Raise("pack") /\ damage # 0
      BY <1>1, <1>2, <1>3, NotRefused DEF WriteTensor
    <2> QED
      BY <2>1, RaiseStep
  <1>4. CASE ~(job.tool = "pack" /\ PackRefuses(t))
    <2>1. /\ job' = [job EXCEPT !.todo = Tail(job.todo), !.out.tensors = tensors]
          /\ UNCHANGED <<files, records, damage, raised>>
      BY <1>4 DEF WriteTensor
    <2>2. PICK todo, next, new : /\ todo = Tail(job.todo) /\ next = tensors
                                 /\ new = [out EXCEPT !.tensors = next]
      OBVIOUS
    <2>3. /\ job' = [tool |-> job.tool, stage |-> job.stage, todo |-> todo, out |-> new]
          /\ sidecar' = sidecar /\ model' = model /\ audit' = audit
      <3>1. ASSUME NEW a, NEW b, NEW c, NEW d, NEW x
            PROVE  [[tool |-> a, stage |-> b, todo |-> c, out |-> d] EXCEPT !.todo = todo, !.out = x]
                      = [tool |-> a, stage |-> b, todo |-> todo, out |-> x]
        <4>1. [[tool |-> a, stage |-> b, todo |-> c, out |-> d] EXCEPT !.todo = todo]
                  = [tool |-> a, stage |-> b, todo |-> todo, out |-> d]
          OBVIOUS
        <4>2. [[tool |-> a, stage |-> b, todo |-> todo, out |-> d] EXCEPT !.out = x]
                  = [tool |-> a, stage |-> b, todo |-> todo, out |-> x]
          OBVIOUS
        <4> QED
          BY <4>1, <4>2
      <3>2. PICK a, b, c, d : a = job.tool /\ b = job.stage /\ c = job.todo /\ d = out
        OBVIOUS
      <3>3. job = [tool |-> a, stage |-> b, todo |-> c, out |-> d]
        BY <1>1, <3>2
      <3>4. job' = [[job EXCEPT !.todo = todo] EXCEPT !.out = new]
        BY <2>1, <2>2, <3>2, <3>3
      <3> QED
        BY <2>1, <3>1, <3>2, <3>3, <3>4 DEF files, records
    <2>4. /\ job'.tool = job.tool /\ job'.stage = "write" /\ job'.todo = todo /\ job'.out = new
          /\ job' = [tool |-> job'.tool, stage |-> job'.stage, todo |-> job'.todo,
                     out |-> job'.out]
      BY <1>1, <2>3
    <2>5. \A u : Content(u)' = Content(u)
      BY <2>3, <2>4 DEF Content
    <2>6. todo \in Seq(Names) /\ ToSet(job.todo) = {t} \cup ToSet(todo)
      <3>1. ASSUME NEW s \in Seq(Names), s # << >>
            PROVE  Tail(s) \in Seq(Names) /\ ToSet(s) = {Head(s)} \cup ToSet(Tail(s))
        <4>1. /\ Len(s) \in Nat /\ Len(s) > 0 /\ Len(Tail(s)) = Len(s) - 1
              /\ \A i \in 1..Len(s) - 1 : Tail(s)[i] = s[i + 1]
          BY <3>1
        <4>2. \A i \in 2..Len(s) : i - 1 \in 1..Len(Tail(s)) /\ Tail(s)[i - 1] = s[i]
          BY <4>1
        <4>3. \A i \in 1..Len(Tail(s)) : i + 1 \in 1..Len(s)
          BY <4>1
        <4>4. \A i \in 1..Len(s) : i = 1 \/ i \in 2..Len(s)
          BY <4>1
        <4>5. 1 \in 1..Len(s) /\ Head(s) = s[1]
          BY <3>1, <4>1
        <4>6. DOMAIN s = 1..Len(s) /\ DOMAIN Tail(s) = 1..Len(Tail(s)) /\ Tail(s) \in Seq(Names)
          BY <3>1
        <4>7. ASSUME NEW v
              PROVE  v \in ToSet(s) <=> v = s[1] \/ v \in ToSet(Tail(s))
          <5>1. ASSUME NEW i \in 1..Len(s), v = s[i]
                PROVE  v = s[1] \/ v \in ToSet(Tail(s))
            BY <4>2, <4>4, <4>6, <5>1 DEF ToSet
          <5>2. ASSUME NEW i \in 1..Len(Tail(s)), v = Tail(s)[i]
                PROVE  v \in ToSet(s)
            BY <4>1, <4>3, <4>6, <5>2 DEF ToSet
          <5>3. v = s[1] => v \in ToSet(s)
            BY <4>5, <4>6 DEF ToSet
          <5> QED
            BY <4>6, <5>1, <5>2, <5>3 DEF ToSet
        <4> QED
          BY <4>5, <4>6, <4>7
      <3> QED
        BY <1>1, <1>2, <2>2, <3>1
    <2>7. /\ DOMAIN next = DOMAIN out.tensors \cup {t}
          /\ next = [u \in DOMAIN next |-> Content(u)]
      <3>1. next = [u \in DOMAIN out.tensors \cup {t} |->
                        IF u = t THEN Content(t) ELSE out.tensors[u]]
        BY <2>2 DEF With
      <3>2. out.tensors = [u \in DOMAIN out.tensors |-> Content(u)]
        BY <1>1 DEF Partial
      <3>3. ASSUME NEW u \in DOMAIN out.tensors
            PROVE  out.tensors[u] = Content(u)
        BY <3>2
      <3> HIDE DEF out
      <3>4. next = [u \in DOMAIN out.tensors \cup {t} |-> Content(u)]
        BY <3>1, <3>3
      <3> QED
        BY <3>4
    <2> HIDE DEF t, tensors
    <2>8. /\ new.tensors = next
          /\ job.tool = "pack" =>
                new = [sealed |-> new.sealed, source |-> Release, tensors |-> new.tensors]
          /\ job.tool = "reorder" =>
                /\ new = [sealed |-> new.sealed, source |-> new.source, hashed |-> new.hashed,
                          tensors |-> new.tensors]
                /\ NamesSource(new)
          /\ job.tool = "convert" =>
                new = [sealed |-> new.sealed, plain |-> Release.plain, tensors |-> new.tensors]
      <3>1. CASE job.tool = "pack"
        <4>1. out = [sealed |-> out.sealed, source |-> Release, tensors |-> out.tensors]
          BY <1>1, <3>1 DEF Partial
        <4> HIDE DEF out
        <4> QED
          BY <2>2, <3>1, <4>1
      <3>2. CASE job.tool = "reorder"
        <4>1. /\ out = [sealed |-> out.sealed, source |-> out.source, hashed |-> out.hashed,
                        tensors |-> out.tensors]
              /\ NamesSource(out)
          BY <1>1, <3>2 DEF Partial
        <4> HIDE DEF out
        <4>2. new.source = out.source /\ new.hashed = out.hashed
          BY <2>2, <4>1
        <4> QED
          BY <2>2, <3>2, <4>1, <4>2 DEF NamesSource
      <3>3. CASE job.tool = "convert"
        <4>1. out = [sealed |-> out.sealed, plain |-> Release.plain, tensors |-> out.tensors]
          BY <1>1, <3>3 DEF Partial
        <4> HIDE DEF out
        <4> QED
          BY <2>2, <3>3, <4>1
      <3> QED
        BY <1>1, <3>1, <3>2, <3>3
    <2>9. Partial(job.out)'
      <3>1. DOMAIN next \cup ToSet(todo) = Names
        BY <1>1, <2>6, <2>7 DEF Partial
      <3>2. new.tensors = [u \in DOMAIN new.tensors |-> Content(u)']
        BY <2>5, <2>7, <2>8
      <3> QED
        BY <2>3, <2>4, <2>6, <2>8, <3>1, <3>2 DEF Partial, NamesSource
    <2>10. JobIs'
      BY <1>1, <2>3, <2>4, <2>9 DEF JobIs, Present
    <2> QED
      BY <2>1, <2>10, KeptParts DEF IInv
  <1> QED
    BY <1>3, <1>4

\* A file is sealed when it has every tensor.
LEMMA SealStep == IInv /\ Seal => IInv'
  <1> SUFFICES ASSUME IInv, Seal PROVE IInv'
    OBVIOUS
  <1> DEFINE out == job.out
  <1>1. /\ job.stage = "write" /\ job.todo = << >> /\ job # Idle
        /\ job = [tool |-> job.tool, stage |-> job.stage, todo |-> job.todo, out |-> out]
        /\ Partial(out) /\ job.tool \in {"pack", "reorder", "convert"}
        /\ job.tool = "pack" => model = Release /\ Present(audit)
        /\ job.tool # "pack" => Present(sidecar)
        /\ job' = [job EXCEPT !.stage = "sealed", !.out = Sealed(out)]
        /\ UNCHANGED <<files, records, damage, raised>>
    BY DEF Seal, IInv, JobIs, AtRest
  <1>2. out.tensors = [t \in Names |-> Content(t)]
    <2>1. ToSet(job.todo) = {}
      BY <1>1 DEF ToSet
    <2>2. DOMAIN out.tensors = Names
      BY <1>1, <2>1 DEF Partial
    <2> QED
      BY <1>1, <2>2 DEF Partial
  <1>3. PICK new : new = Sealed(out)
    OBVIOUS
  <1>4. /\ job' = [tool |-> job.tool, stage |-> "sealed", todo |-> job.todo, out |-> new]
        /\ sidecar' = sidecar /\ model' = model /\ audit' = audit
    <2>1. ASSUME NEW a, NEW b, NEW c, NEW d, NEW r, r = [tool |-> a, stage |-> b, todo |-> c, out |-> d]
          PROVE  [r EXCEPT !.stage = "sealed", !.out = new]
                    = [tool |-> a, stage |-> "sealed", todo |-> c, out |-> new]
      <3>1. [r EXCEPT !.stage = "sealed"] = [tool |-> a, stage |-> "sealed", todo |-> c, out |-> d]
        BY <2>1
      <3>2. [[tool |-> a, stage |-> "sealed", todo |-> c, out |-> d] EXCEPT !.out = new]
                = [tool |-> a, stage |-> "sealed", todo |-> c, out |-> new]
        OBVIOUS
      <3> QED
        BY <3>1, <3>2
    <2> QED
      BY <1>1, <1>3, <2>1 DEF files, records
  <1>5. /\ job'.tool = job.tool /\ job'.stage = "sealed" /\ job'.out = new
        /\ job' = [tool |-> job'.tool, stage |-> job'.stage, todo |-> job'.todo, out |-> job'.out]
    BY <1>4
  <1>6. CASE job.tool = "pack"
    <2>1. \A t \in Names : Content(t) = Encoded(Release, t)
      BY <1>1, <1>6 DEF Content
    <2>2. out.tensors = [t \in Names |-> Encoded(Release, t)] /\ out.source = Release
      BY <1>1, <1>2, <1>6, <2>1 DEF Partial
    <2>3. PackManifest = Manifest
      <3>1. \A t \in Names : out.tensors[t] = Encoded(Release, t)
        BY <2>2
      <3> QED
        BY <1>1, <1>6, <3>1 DEF PackManifest, Manifest, IndexOf
    <2>4. new = Genuine
      <3>1. new = [sealed |-> TRUE, source |-> out.source, tensors |-> out.tensors,
                   manifest |-> PackManifest, manifest_offset |-> ManifestOffset]
        BY <1>3, <1>6 DEF Sealed, ManifestOffset
      <3> QED
        BY <2>2, <2>3, <3>1 DEF Genuine
    <2> QED
      BY <1>1, <1>4, <1>5, <1>6, <2>4, KeptParts DEF IInv, JobIs, Finished
  <1>7. CASE job.tool = "reorder"
    <2>1. \A t \in Names : Content(t) = Reordered(sidecar.tensors[t], t)
      BY <1>7 DEF Content, Reordered
    <2>2. out.tensors = [t \in Names |-> Reordered(sidecar.tensors[t], t)] /\ NamesSource(out)
      BY <1>1, <1>2, <1>7, <2>1 DEF Partial
    <2>3. ReorderManifest = Extents
      BY DEF ReorderManifest, Extents, IndexOf
    <2>4. new = [sealed |-> TRUE, source |-> out.source, hashed |-> out.hashed,
                 tensors |-> out.tensors, manifest |-> Extents]
      BY <1>3, <1>7, <2>3 DEF Sealed
    <2> HIDE DEF out
    <2>5. new.source = out.source /\ new.hashed = out.hashed
      BY <2>4
    <2>6. Finished(job.out)'
      BY <1>4, <1>5, <1>7, <2>2, <2>4, <2>5 DEF Finished, NamesSource
    <2> QED
      BY <1>1, <1>4, <1>5, <1>7, <2>6, KeptParts DEF IInv, JobIs, Present
  <1>8. CASE job.tool = "convert"
    <2>1. \A t \in Names : Content(t) = sidecar.tensors[t]
      BY <1>8 DEF Content
    <2>2. /\ out.tensors = [t \in Names |-> sidecar.tensors[t]]
          /\ out = [sealed |-> out.sealed, plain |-> Release.plain, tensors |-> out.tensors]
      BY <1>1, <1>2, <1>8, <2>1 DEF Partial
    <2> HIDE DEF out
    <2>3. new = [out EXCEPT !.sealed = TRUE]
      BY <1>3, <1>8 DEF Sealed
    <2>4. new = [sealed |-> TRUE, plain |-> Release.plain, tensors |-> out.tensors]
      <3>1. ASSUME NEW yes
            PROVE  [out EXCEPT !.sealed = yes]
                      = [sealed |-> yes, plain |-> Release.plain, tensors |-> out.tensors]
        BY <2>2
      <3> QED
        BY <2>3, <3>1
    <2>5. Finished(job.out)'
      BY <1>4, <1>5, <1>8, <2>2, <2>4 DEF Finished
    <2> QED
      BY <1>1, <1>4, <1>5, <1>8, <2>5, KeptParts DEF IInv, JobIs, Present
  <1> QED
    BY <1>1, <1>6, <1>7, <1>8

\* A killed writer leaves no trace.
LEMMA KillStep == IInv /\ Kill => IInv'
  BY KeptParts DEF Kill, IInv, JobIs, AtRest

\* The file that takes the final name is complete.
LEMMA PublishStep == IInv /\ Publish => IInv'
  <1> SUFFICES ASSUME IInv, Publish PROVE IInv'
    OBVIOUS
  <1> DEFINE out == job.out
  <1>1. /\ job.stage = "sealed" /\ job # Idle /\ Finished(out)
        /\ job = [tool |-> job.tool, stage |-> job.stage, todo |-> job.todo, out |-> out]
        /\ job.tool \in {"pack", "reorder", "convert"}
        /\ job.tool = "pack" => model = Release /\ Present(audit)
        /\ job.tool # "pack" => Present(sidecar)
        /\ FilesAre /\ RecordsAre /\ raised = {} /\ damage \in Nat /\ (damage = 0 => Undamaged)
    BY DEF Publish, Ready, IInv, JobIs, AtRest
  <1>2. /\ sidecar' = IF job.tool = "pack" THEN out ELSE sidecar
        /\ reordered' = IF job.tool = "reorder" THEN out ELSE reordered
        /\ gguf' = IF job.tool = "convert" THEN out ELSE gguf
        /\ job' = IF job.tool = "pack" THEN [job EXCEPT !.stage = "published"] ELSE Idle
        /\ UNCHANGED <<model, records, damage, raised>>
    BY DEF Publish
  <1>3. RecordsAre' /\ raised' = {} /\ damage' \in Nat
    BY <1>1, <1>2 DEF RecordsAre, PassedModel, records
  <1>4. CASE job.tool = "pack"
    <2>1. /\ sidecar' = Genuine /\ reordered' = reordered /\ gguf' = gguf
          /\ model' = Release /\ audit' = audit
      BY <1>1, <1>2, <1>4 DEF Finished, records
    <2>2. FilesAre'
      BY <1>1, <2>1, GenuineIs DEF FilesAre
    <2>3. JobIs'
      <3>1. job' = [tool |-> job.tool, stage |-> "published", todo |-> job.todo, out |-> out]
        BY <1>1, <1>2, <1>4
      <3>2. /\ job'.tool = job.tool /\ job'.stage = "published"
            /\ job' = [tool |-> job'.tool, stage |-> job'.stage, todo |-> job'.todo,
                       out |-> job'.out]
        BY <3>1
      <3> QED
        BY <1>1, <1>4, <2>1, <3>2 DEF JobIs, Present
    <2>4. (damage = 0 => Undamaged)'
      BY <1>1, <1>2, <2>1 DEF Undamaged, records
    <2> QED
      BY <1>3, <2>2, <2>3, <2>4 DEF IInv
  <1>5. CASE job.tool = "reorder"
    <2>1. /\ sidecar' = sidecar /\ reordered' = out /\ gguf' = gguf /\ model' = model
          /\ Present(sidecar) /\ job' = Idle
      BY <1>1, <1>2, <1>5
    <2>2. /\ out = [sealed |-> TRUE, source |-> out.source, hashed |-> out.hashed,
                    tensors |-> [t \in Names |-> Reordered(sidecar.tensors[t], t)],
                    manifest |-> Extents]
          /\ NamesSource(out)
      BY <1>1, <1>5 DEF Finished
    <2> HIDE DEF out
    <2>3. /\ out = [sealed |-> out.sealed, source |-> out.source, hashed |-> out.hashed,
                    tensors |-> out.tensors, manifest |-> Extents]
          /\ out.sealed /\ out.tensors = [t \in Names |-> out.tensors[t]]
          /\ \A t \in Names : out.tensors[t] = Reordered(sidecar.tensors[t], t)
      BY <2>2
    <2>4. IsReordered(out)
      BY <2>3, ReorderedIs DEF IsReordered
    <2>5. FilesAre'
      BY <1>1, <2>1, <2>4 DEF FilesAre
    <2>6. (damage = 0 => Undamaged)'
      <3> SUFFICES ASSUME damage = 0 PROVE Undamaged'
        BY <1>2
      <3>1. Undamaged /\ sidecar = Genuine /\ out.source = Genuine
        BY <1>1, <2>1, <2>2 DEF Undamaged, NamesSource
      <3>2. \A t \in Names : Copies(out.tensors[t], Genuine.tensors[t], t)
        BY <2>3, <3>1, ReorderCopies
      <3> QED
        BY <1>2, <2>1, <3>1, <3>2 DEF Undamaged, records
    <2> QED
      BY <1>3, <2>1, <2>5, <2>6 DEF IInv, JobIs, AtRest
  <1>6. CASE job.tool = "convert"
    <2>1. /\ sidecar' = sidecar /\ reordered' = reordered /\ gguf' = out /\ model' = model
          /\ Present(sidecar) /\ job' = Idle
      BY <1>1, <1>2, <1>6
    <2>2. out = [sealed |-> TRUE, plain |-> Release.plain,
                 tensors |-> [t \in Names |-> sidecar.tensors[t]]]
      BY <1>1, <1>6 DEF Finished
    <2> HIDE DEF out
    <2>3. IsGguf(out) /\ \A t \in Names : out.tensors[t] = sidecar.tensors[t]
      BY <2>2 DEF IsGguf
    <2>4. FilesAre'
      BY <1>1, <2>1, <2>3 DEF FilesAre
    <2>5. (damage = 0 => Undamaged)'
      BY <1>1, <1>2, <2>1, <2>3 DEF Undamaged, records
    <2> QED
      BY <1>3, <2>1, <2>4, <2>5 DEF IInv, JobIs, AtRest
  <1> QED
    BY <1>1, <1>4, <1>5, <1>6

\* The record of the packing is written of the file just published.
LEMMA RecordStep == IInv /\ Record => IInv'
  <1> SUFFICES ASSUME IInv, Record PROVE IInv'
    OBVIOUS
  <1>1. sidecar = Genuine /\ packed' = [sidecar |-> sidecar] /\ job' = Idle
    BY DEF Record, IInv, JobIs, AtRest
  <1>2. packed'.sidecar = Genuine
    BY <1>1
  <1>3. /\ UNCHANGED <<files, audit, verified, reverified, traversal, distributed, damage, raised>>
    BY DEF Record
  <1>4. FilesAre'
    BY <1>3 DEF IInv, FilesAre, files
  <1>5. RecordsAre'
    BY <1>2, <1>3 DEF IInv, RecordsAre, PassedModel
  <1>6. (damage = 0 => Undamaged)' /\ damage' \in Nat /\ raised' = {}
    BY <1>3 DEF IInv, Undamaged, files
  <1> QED
    BY <1>1, <1>4, <1>5, <1>6 DEF IInv, JobIs, AtRest

----------------------------------------------------------------------------
(* The steps of the readers. *)

\* A tool that only reads leaves the files as they were.
LEMMA ReadingKeeps ==
    ASSUME IInv, AtRest, UNCHANGED <<files, job, damage, raised>>
    PROVE  FilesAre' /\ JobIs' /\ raised' = {} /\ damage' \in Nat
  BY DEF IInv, FilesAre, JobIs, AtRest, files

\* The audit of an undamaged model finds the release.
LEMMA InspectStep == IInv /\ Inspect => IInv'
  <1> SUFFICES ASSUME IInv, Inspect PROVE IInv'
    OBVIOUS
  <1>1. /\ AtRest /\ UNCHANGED <<files, job, damage, raised>>
        /\ UNCHANGED <<packed, verified, reverified, traversal, distributed>>
        /\ audit' = [pass |-> TernaryModel(model),
                     tensors |-> [t \in Names |-> [logical |-> Logical(model, t),
                                                   scales |-> ScaleBits(model, t)]]]
    BY DEF Inspect
  <1>2. RecordsAre'
    BY <1>1 DEF IInv, RecordsAre, PassedModel
  <1>3. (damage = 0 => Undamaged)'
    <2> SUFFICES ASSUME damage = 0 PROVE Undamaged'
      BY <1>1
    <2>1. Undamaged
      BY DEF IInv
    <2>2. /\ audit'.pass
          /\ audit'.tensors = [t \in Names |-> [logical |-> Logical(Release, t),
                                                scales |-> ScaleBits(Release, t)]]
      BY <1>1, <2>1, ReleaseAssumption DEF Undamaged
    <2> QED
      BY <1>1, <2>1, <2>2 DEF Undamaged, files
  <1> QED
    BY <1>1, <1>2, <1>3, ReadingKeeps DEF IInv

\* The blocks that pass the verification hold the release.
LEMMA VerifiedHolds ==
    ASSUME NEW t \in Names, IsBlocks(sidecar.tensors[t], t), model = Release, VerifyReads(t),
           Logical(model, t) = Unpacked(t), ScaleBits(model, t) = PackedScales(t)
    PROVE  HoldsRelease(sidecar.tensors[t], t)
  <1> SUFFICES ASSUME NEW c \in CellsOf(t)
               PROVE  LET block == sidecar.tensors[t][c]
                      IN  /\ Legal(block) /\ LutWeights(block) = DecodeQ2(Release.q2[t][c])
                          /\ block.scale = Release.q2[t][c].scale
    BY DEF HoldsRelease
  <1>1. PICK block : block = sidecar.tensors[t][c]
    OBVIOUS
  <1>2. Legal(block) /\ \A s \in Slots : block.code[s] \in Nat
    BY <1>1 DEF VerifyReads, IsBlocks
  <1>3. LutWeights(block) = DecodeTq1(block)
    BY <1>2, LutIsDecode
  <1>4. Logical(model, t)[c] = DecodeQ2(Release.q2[t][c]) /\ Unpacked(t)[c] = DecodeTq1(block)
    BY <1>1 DEF Logical, Unpacked
  <1>5. ScaleBits(model, t)[c] = Release.q2[t][c].scale /\ PackedScales(t)[c] = block.scale
    BY <1>1 DEF ScaleBits, PackedScales
  <1> QED
    BY <1>1, <1>2, <1>3, <1>4, <1>5

\* What the packer made of the release passes.
LEMMA GenuinePasses ==
    ASSUME model = Release, sidecar = Genuine, NEW t \in Names
    PROVE  /\ VerifyReads(t)
           /\ Logical(model, t) = Unpacked(t) /\ ScaleBits(model, t) = PackedScales(t)
  <1>1. sidecar.tensors[t] = Encoded(Release, t) /\ sidecar.manifest = Manifest
    BY GenuineIs DEF Genuine
  <1>2. /\ Manifest[t].logical = Logical(Release, t) /\ Manifest[t].scales = ScaleBits(Release, t)
        /\ Manifest[t].payload = Encoded(Release, t)
    BY DEF Manifest
  <1>3. \A c \in CellsOf(t) : /\ Legal(Encoded(Release, t)[c])
                              /\ DecodeTq1(Encoded(Release, t)[c]) = DecodeQ2(Release.q2[t][c])
                              /\ Encoded(Release, t)[c].scale = Release.q2[t][c].scale
    BY EncodedHolds DEF HoldsRelease
  <1>4. VerifyReads(t)
    BY <1>1, <1>2, <1>3 DEF VerifyReads
  <1>5. Logical(model, t) = Unpacked(t)
    BY <1>1, <1>3 DEF Logical, Unpacked
  <1>6. ScaleBits(model, t) = PackedScales(t)
    BY <1>1, <1>3 DEF ScaleBits, PackedScales
  <1> QED
    BY <1>4, <1>5, <1>6

\* A passing verification says that the sidecar holds the release.
LEMMA VerifyModelStep == IInv /\ VerifyModel => IInv'
  <1> SUFFICES ASSUME IInv, VerifyModel PROVE IInv'
    OBVIOUS
  <1> DEFINE Reads == /\ model = Release /\ ReadSidecar(sidecar) /\ sidecar.source = model
                      /\ \A t \in Names : VerifyReads(t)
             Same == \A t \in Names : /\ Logical(model, t) = Unpacked(t)
                                      /\ ScaleBits(model, t) = PackedScales(t)
  <1>1. /\ AtRest /\ Present(sidecar) /\ IsSidecar(sidecar)
        /\ ReadSidecar(sidecar) /\ sidecar.source = Release
    BY SidecarReads DEF VerifyModel, IInv, FilesAre
  <1>2. damage = 0 => Reads /\ Same /\ sidecar = Genuine
    <2> SUFFICES ASSUME damage = 0 PROVE Reads /\ Same /\ sidecar = Genuine
      OBVIOUS
    <2>1. model = Release /\ sidecar = Genuine
      BY <1>1 DEF IInv, Undamaged
    <2> QED
      BY <1>1, <2>1, GenuinePasses
  <1>3. CASE Reads
    <2>1. /\ verified' = [pass |-> Same, sidecar |-> sidecar]
          /\ UNCHANGED <<files, audit, packed, reverified, traversal, distributed,
                         job, damage, raised>>
      BY <1>3 DEF VerifyModel
    <2>2. (verified'.pass <=> Same) /\ verified'.sidecar = sidecar
      BY <2>1
    <2>3. Same => \A t \in Names : HoldsRelease(sidecar.tensors[t], t)
      BY <1>1, <1>3, VerifiedHolds DEF IsSidecar
    <2> HIDE DEF Same, Reads
    <2>4. RecordsAre'
      BY <2>1, <2>2, <2>3 DEF IInv, RecordsAre, PassedModel
    <2>5. (damage = 0 => Undamaged)'
      BY <1>2, <2>1, <2>2 DEF IInv, Undamaged, files
    <2> QED
      BY <1>1, <2>1, <2>4, <2>5, ReadingKeeps DEF IInv
  <1>4. CASE ~Reads
    <2>1. Raise("verify")
      BY <1>4 DEF VerifyModel
    <2> HIDE DEF Same, Reads
    <2> QED
      BY <1>2, <1>4, <2>1, RaiseStep
  <1> QED
    BY <1>3, <1>4

\* Of undamaged files the reorder passes its verification.
LEMMA VerifyReorderedStep == IInv /\ VerifyReordered => IInv'
  <1> SUFFICES ASSUME IInv, VerifyReordered PROVE IInv'
    OBVIOUS
  <1> DEFINE Same == \A t \in Names : TilesMatch(t)
  <1>1. /\ AtRest /\ Present(sidecar) /\ Present(reordered) /\ ReadSidecar(sidecar)
        /\ reordered.sealed
    BY SidecarReads DEF VerifyReordered, IInv, FilesAre, IsReordered
  <1>2. damage = 0 => Same
    <2> SUFFICES ASSUME damage = 0, NEW t \in Names PROVE TilesMatch(t)
      OBVIOUS
    <2>1. sidecar = Genuine /\ Copies(reordered.tensors[t], Genuine.tensors[t], t)
      BY <1>1 DEF IInv, Undamaged
    <2>2. \A c \in CellsOf(t) : Legal(Genuine.tensors[t][c])
      BY GenuineIs DEF HoldsRelease
    <2> QED
      BY <2>1, <2>2, CopiesMatch
  <1>3. /\ reverified' = [pass |-> Same, source |-> reordered.source, of |-> reordered]
        /\ UNCHANGED <<files, audit, packed, verified, traversal, distributed,
                       job, damage, raised>>
    BY <1>1 DEF VerifyReordered
  <1>4. reverified'.pass <=> Same
    BY <1>3
  <1> HIDE DEF Same
  <1>5. RecordsAre'
    BY <1>3 DEF IInv, RecordsAre, PassedModel
  <1>6. (damage = 0 => Undamaged)'
    BY <1>2, <1>3, <1>4 DEF IInv, Undamaged, files
  <1> QED
    BY <1>1, <1>3, <1>5, <1>6, ReadingKeeps DEF IInv

\* The traversal is accepted of undamaged files, and built of a verified sidecar.
LEMMA BuildTraversalStep ==
    ASSUME NEW skip_hashes \in BOOLEAN, IInv, BuildTraversal(skip_hashes)
    PROVE  IInv'
  <1>1. /\ AtRest /\ Present(sidecar) /\ Present(audit) /\ Present(verified)
        /\ ReadSidecar(sidecar) /\ sidecar.source = Release /\ sidecar.manifest = Manifest
    BY SidecarReads DEF BuildTraversal, IInv, FilesAre
  <1>2. damage = 0 => TraversalAccepts(skip_hashes)
    <2> SUFFICES ASSUME damage = 0 PROVE TraversalAccepts(skip_hashes)
      OBVIOUS
    <2>1. /\ model = Release /\ sidecar = Genuine
          /\ audit.tensors = [t \in Names |-> [logical |-> Logical(Release, t),
                                               scales |-> ScaleBits(Release, t)]]
          /\ verified.pass /\ verified.sidecar = Genuine
      BY <1>1 DEF IInv, Undamaged
    <2>2. ASSUME NEW t \in ToSet(LaunchOrder)
          PROVE  /\ audit.tensors[t].logical = sidecar.manifest[t].logical
                 /\ audit.tensors[t].logical = Logical(verified.sidecar.source, t)
                 /\ audit.tensors[t].scales = sidecar.manifest[t].scales
                 /\ audit.tensors[t].scales = ScaleBits(verified.sidecar.source, t)
      <3>1. t \in Names
        BY LaunchAssumption
      <3>2. Manifest[t].logical = Logical(Release, t) /\ Manifest[t].scales = ScaleBits(Release, t)
        BY <3>1 DEF Manifest
      <3> QED
        BY <1>1, <2>1, <3>1, <3>2
    <2> QED
      BY <1>1, <2>1, <2>2, LaunchAssumption, StreamAssumption DEF TraversalAccepts
  <1>3. CASE TraversalAccepts(skip_hashes)
    <2>1. PICK rows : /\ traversal' = [hashed |-> ~skip_hashes, sidecar |-> sidecar, rows |-> rows]
                      /\ UNCHANGED <<files, audit, packed, verified, reverified, distributed,
                                     job, damage, raised>>
      BY <1>3 DEF BuildTraversal
    <2>2. /\ traversal'.hashed <=> ~skip_hashes
          /\ traversal'.sidecar = sidecar
      BY <2>1
    <2>3. ~skip_hashes => \A t \in Names : HoldsRelease(sidecar.tensors[t], t)
      BY <1>1, <1>3 DEF TraversalAccepts, IInv, RecordsAre, PassedModel
    <2>4. RecordsAre'
      BY <2>1, <2>2, <2>3 DEF IInv, RecordsAre, PassedModel
    <2>5. (damage = 0 => Undamaged)'
      BY <2>1 DEF IInv, Undamaged, files
    <2> QED
      BY <1>1, <2>1, <2>4, <2>5, ReadingKeeps DEF IInv
  <1>4. CASE ~TraversalAccepts(skip_hashes)
    <2>1. Raise("traversal")
      BY <1>4 DEF BuildTraversal
    <2> QED
      BY <1>2, <1>4, <2>1, RaiseStep
  <1> QED
    BY <1>3, <1>4

\* A GGUF whose payload is the manifest's holds the release, and so does its rest.
LEMMA VerifyDistributedStep == IInv /\ VerifyDistributed => IInv'
  <1> SUFFICES ASSUME IInv, VerifyDistributed PROVE IInv'
    OBVIOUS
  <1> DEFINE Same == /\ ReadSidecar(sidecar)
                     /\ \A t \in Names : gguf.tensors[t] = sidecar.manifest[t].payload
                     /\ gguf.plain = model.plain
  <1>1. /\ AtRest /\ Present(sidecar) /\ Present(gguf) /\ IsGguf(gguf)
        /\ ReadSidecar(sidecar) /\ sidecar.manifest = Manifest
        /\ \A t \in Names : Manifest[t].payload = Encoded(Release, t)
    BY SidecarReads DEF VerifyDistributed, IInv, FilesAre, Manifest
  <1>2. gguf.plain = Release.plain
    BY <1>1 DEF IsGguf
  <1>3. damage = 0 => Same
    <2>1. damage = 0 => /\ model = Release /\ \A t \in Names : gguf.tensors[t] = Genuine.tensors[t]
      BY <1>1 DEF IInv, Undamaged
    <2> QED
      BY <1>1, <1>2, <2>1, GenuineIs
  <1>4. CASE Same
    <2>1. /\ distributed' = [pass |-> TRUE, of |-> gguf]
          /\ UNCHANGED <<files, audit, packed, verified, reverified, traversal,
                         job, damage, raised>>
      BY <1>4 DEF VerifyDistributed
    <2>2. distributed'.of = gguf
      BY <2>1
    <2>3. \A t \in Names : HoldsRelease(gguf.tensors[t], t)
      BY <1>1, <1>4, EncodedHolds
    <2>4. RecordsAre'
      BY <1>2, <2>1, <2>2, <2>3 DEF IInv, RecordsAre, PassedModel
    <2>5. (damage = 0 => Undamaged)'
      BY <2>1 DEF IInv, Undamaged, files
    <2> QED
      BY <1>1, <2>1, <2>4, <2>5, ReadingKeeps DEF IInv
  <1>5. CASE ~Same
    <2>1. Raise("distributed")
      BY <1>5 DEF VerifyDistributed
    <2> QED
      BY <1>3, <1>5, <2>1, RaiseStep
  <1> QED
    BY <1>4, <1>5

----------------------------------------------------------------------------
(* The environment, and the theorems. *)

\* A damaged byte leaves the files in their shapes.
LEMMA DamageStep == ASSUME NEW d \in Damages, IInv, Damage(d) PROVE IInv'
  <1> DEFINE place == <<d.cell[1] \div M_TILE, d.cell[2], d.slot, d.cell[1] % M_TILE>>
  <1>1. /\ AtRest /\ damage' = damage + 1 /\ UNCHANGED <<records, job, raised>>
        /\ FilesAre /\ RecordsAre /\ damage \in Nat /\ raised = {}
    BY DEF Damage, IInv
  <1>2. d.file \in {"model", "plain", "sidecar", "reordered", "gguf"} /\ d.byte \in Nat
    BY DamageAssumption DEF Byte
  <1>3. RecordsAre' /\ JobIs' /\ raised' = {} /\ damage' \in Nat /\ damage' # 0
    BY <1>1 DEF RecordsAre, PassedModel, JobIs, AtRest, records
  <1>4. FilesAre'
    <2>1. CASE d.file \in {"model", "plain"}
      <3>1. sidecar' = sidecar /\ reordered' = reordered /\ gguf' = gguf
        BY <2>1 DEF Damage
      <3> QED
        BY <1>1, <3>1 DEF FilesAre
    <2>2. CASE d.file = "sidecar"
      <3>1. /\ Present(sidecar) /\ reordered' = reordered /\ gguf' = gguf
            /\ sidecar' = [sidecar EXCEPT !.tensors[d.tensor][d.cell].code[d.slot] = d.byte]
        BY <2>2 DEF Damage
      <3>2. IsSidecar(sidecar')
        BY <1>1, <1>2, <3>1, SidecarDamaged DEF FilesAre
      <3> QED
        BY <1>1, <3>1, <3>2 DEF FilesAre
    <2>3. CASE d.file = "reordered"
      <3>1. /\ Present(reordered) /\ sidecar' = sidecar /\ gguf' = gguf
            /\ reordered' = [reordered EXCEPT !.tensors[d.tensor].codes[place] = d.byte]
        BY <2>3 DEF Damage
      <3> HIDE DEF place
      <3>2. IsReordered(reordered')
        BY <1>1, <3>1, ReorderedDamaged DEF FilesAre
      <3> QED
        BY <1>1, <3>1, <3>2 DEF FilesAre
    <2>4. CASE d.file = "gguf"
      <3>1. /\ Present(gguf) /\ sidecar' = sidecar /\ reordered' = reordered
            /\ gguf' = [gguf EXCEPT !.tensors[d.tensor][d.cell].code[d.slot] = d.byte]
        BY <2>4 DEF Damage
      <3>2. IsGguf(gguf')
        BY <1>1, <3>1, GgufDamaged DEF FilesAre
      <3> QED
        BY <1>1, <3>1, <3>2 DEF FilesAre
    <2> QED
      BY <1>2, <2>1, <2>2, <2>3, <2>4
  <1> QED
    BY <1>3, <1>4 DEF IInv

\* The model that is downloaded again is the release.
LEMMA DownloadStep == IInv /\ Download => IInv'
  <1> SUFFICES ASSUME IInv, Download PROVE IInv'
    OBVIOUS
  <1>1. /\ AtRest /\ model # Release /\ model' = Release
        /\ UNCHANGED <<sidecar, reordered, gguf, records, job, damage, raised>>
    BY DEF Download
  <1>2. FilesAre' /\ RecordsAre' /\ JobIs'
    BY <1>1 DEF IInv, FilesAre, RecordsAre, PassedModel, JobIs, AtRest, records
  <1>3. damage # 0
    BY <1>1 DEF IInv, Undamaged
  <1> QED
    BY <1>1, <1>2, <1>3 DEF IInv

\* It holds at the start.
LEMMA InitIInv == Init => IInv
  BY DEF Init, IInv, FilesAre, JobIs, AtRest, RecordsAre, PassedModel, Undamaged, Present

\* It holds while nothing happens.
LEMMA StutterIInv == IInv /\ UNCHANGED vars => IInv'
  <1> SUFFICES ASSUME IInv, UNCHANGED vars PROVE IInv'
    OBVIOUS
  <1>1. UNCHANGED <<files, records, job, damage, raised>>
    BY DEF vars
  <1>2. JobIs'
    BY <1>1 DEF IInv, JobIs, AtRest, Partial, Finished, NamesSource, Content, files, records
  <1> QED
    BY <1>1, <1>2, KeptParts DEF IInv

\* And every step keeps it.
LEMMA NextIInv == IInv /\ [Next]_vars => IInv'
  BY InspectStep, PackStartStep, ReorderStartStep, ConvertStartStep, WriteTensorStep, SealStep,
     PublishStep, RecordStep, KillStep, VerifyModelStep, VerifyReorderedStep,
     BuildTraversalStep, VerifyDistributedStep, DamageStep, DownloadStep, StutterIInv DEF Next

\* The invariant that the three properties rest on: what is under a final name is complete,
\* a temporary file has what its writer's input has, a record says what was so, and while
\* nothing is damaged everything is the release's (the tools of src/bonsai_tq1).
THEOREM Inductive == Spec => []IInv
  BY InitIInv, NextIInv, PTL DEF Spec

\* Under a final name there is nothing but a complete file, the sidecar was made of the
\* release, and the extents of a file keep apart (pack_model, lut23_reorder, convert_gguf).
THEOREM PublishedWhole == Spec => []PublishedIsWhole
  <1>1. IInv => PublishedIsWhole
    <2> SUFFICES ASSUME IInv PROVE PublishedIsWhole
      OBVIOUS
    <2>1. Whole(sidecar) /\ Whole(reordered) /\ Whole(gguf)
      BY DEF IInv, FilesAre, Whole, IsSidecar, IsReordered, IsGguf
    <2>2. Present(sidecar) => sidecar.source = Release /\ ReadSidecar(sidecar)
      BY SidecarReads DEF IInv, FilesAre
    <2>3. Present(reordered) => Apart(reordered.manifest)
      <3>1. Present(reordered) => reordered.manifest = Extents
        BY DEF IInv, FilesAre, IsReordered
      <3> QED
        BY <3>1, ExtentsApart
    <2> QED
      BY <2>1, <2>2, <2>3 DEF PublishedIsWhole, Apart
  <1> QED
    BY <1>1, Inductive, PTL

\* While nothing is damaged no tool fails and every verdict is a pass, in any order of the
\* tools and whichever of them are killed.
THEOREM SoundChain == Spec => []SoundChainPasses
  <1>1. IInv => SoundChainPasses
    BY DEF IInv, Undamaged, SoundChainPasses
  <1> QED
    BY <1>1, Inductive, PTL

\* The steps that change a file of weights, or the verification of the reorder.
LEMMA LineageFrame ==
    ASSUME [Next]_vars
    PROVE  \/ Publish
           \/ VerifyReordered
           \/ \E d \in Damages : Damage(d)
           \/ UNCHANGED <<sidecar, reordered, reverified, damage>>
  <1> USE DEF files, records
  <1>1. CASE Inspect
    BY <1>1 DEF Inspect
  <1>2. CASE PackStart
    BY <1>2 DEF PackStart, Begin, Raise
  <1>3. CASE \E from_record \in BOOLEAN : ReorderStart(from_record)
    BY <1>3 DEF ReorderStart, Begin, Raise
  <1>4. CASE \E skip_hash \in BOOLEAN : ConvertStart(skip_hash)
    BY <1>4 DEF ConvertStart, Begin, Raise
  <1>5. CASE WriteTensor
    BY <1>5 DEF WriteTensor, Raise
  <1>6. CASE Seal \/ Record \/ Kill
    BY <1>6 DEF Seal, Record, Kill
  <1>7. CASE VerifyModel
    BY <1>7 DEF VerifyModel, Raise
  <1>8. CASE \E skip_hashes \in BOOLEAN : BuildTraversal(skip_hashes)
    BY <1>8 DEF BuildTraversal, Raise
  <1>9. CASE VerifyDistributed
    BY <1>9 DEF VerifyDistributed, Raise
  <1>10. CASE Download
    BY <1>10 DEF Download
  <1>11. CASE UNCHANGED vars
    BY <1>11 DEF vars
  <1> QED
    BY <1>1, <1>2, <1>3, <1>4, <1>5, <1>6, <1>7, <1>8, <1>9, <1>10, <1>11 DEF Next

\* With one damage at most the lineage is kept.
LEMMA LineageStep ==
    ASSUME MAX_DAMAGE <= 1, IInv, Lineage, [Next]_vars
    PROVE  Lineage'
  <1>1. CASE Publish
    <2>1. /\ job.tool \in {"pack", "reorder", "convert"} /\ Finished(job.out)
          /\ sidecar' = IF job.tool = "pack" THEN job.out ELSE sidecar
          /\ reordered' = IF job.tool = "reorder" THEN job.out ELSE reordered
          /\ reverified' = reverified /\ damage' = damage
      BY <1>1 DEF Publish, Ready, IInv, JobIs, AtRest, records
    <2>2. CASE job.tool = "reorder"
      <3> DEFINE out == job.out
      <3>1. /\ out = [sealed |-> TRUE, source |-> out.source, hashed |-> out.hashed,
                      tensors |-> [t \in Names |-> Reordered(sidecar.tensors[t], t)],
                      manifest |-> Extents]
            /\ NamesSource(out)
        BY <2>1, <2>2 DEF Finished
      <3> HIDE DEF out
      <3>2. \A t \in Names : out.tensors[t] = Reordered(sidecar.tensors[t], t)
        BY <3>1
      <3>3. out.hashed => out.source = sidecar
        BY <3>1 DEF NamesSource
      <3>4. out.hashed => Follows(out)
        BY <3>2, <3>3, ReorderCopies DEF Follows
      <3>5. reordered' = out
        BY <2>1, <2>2 DEF out
      <3> QED
        BY <2>1, <3>4, <3>5 DEF Lineage
    <2>3. CASE job.tool # "reorder"
      <3>1. sidecar' = sidecar \/ sidecar' = Genuine
        BY <2>1, <2>3 DEF Finished
      <3> QED
        BY <2>1, <2>3, <3>1 DEF Lineage
    <2> QED
      BY <2>2, <2>3
  <1>2. CASE VerifyReordered
    <2> DEFINE Same == \A t \in Names : TilesMatch(t)
    <2>1. /\ Present(sidecar) /\ Present(reordered) /\ ReadSidecar(sidecar)
          /\ IsReordered(reordered) /\ reordered.sealed
      BY <1>2, SidecarReads DEF VerifyReordered, IInv, FilesAre, IsReordered
    <2>2. /\ reverified' = [pass |-> Same, source |-> reordered.source, of |-> reordered]
          /\ UNCHANGED <<files, damage>>
      BY <1>2, <2>1 DEF VerifyReordered
    <2>3. /\ reverified'.pass <=> Same
          /\ reverified'.source = reordered.source /\ reverified'.of = reordered
      BY <2>2
    <2>4. Same => \A t \in Names : Copies(reordered.tensors[t], sidecar.tensors[t], t)
      BY TilesAreCopied
    <2> HIDE DEF Same
    <2>5. Same /\ reordered.hashed => Follows(reordered)
      BY <2>1, <2>4 DEF Lineage, Follows
    <2>6. \A t \in Names : IsArrays(reordered.tensors[t], t)
      BY <2>1 DEF IsReordered
    <2> QED
      BY <2>2, <2>3, <2>5, <2>6 DEF Lineage, files
  <1>3. ASSUME NEW d \in Damages, Damage(d)
        PROVE  Lineage'
    <2>1. damage = 0 /\ damage' > 0 /\ Undamaged /\ FilesAre /\ reverified' = reverified
      <3>1. damage < MAX_DAMAGE /\ damage' = damage + 1 /\ UNCHANGED records
        BY <1>3 DEF Damage
      <3>2. damage \in Nat /\ FilesAre /\ (damage = 0 => Undamaged)
        BY DEF IInv
      <3>3. MAX_DAMAGE \in Nat
        BY DamageAssumption
      <3>4. damage = 0 /\ damage' > 0
        BY <3>1, <3>2, <3>3
      <3> QED
        BY <3>1, <3>2, <3>4 DEF records
    <2>2. Present(reordered) => /\ reordered.source = Genuine /\ Follows(reordered)
                                /\ IsReordered(reordered)
      BY <2>1 DEF Undamaged, Follows, FilesAre
    <2>3. CASE d.file = "reordered"
      <3> DEFINE place == <<d.cell[1] \div M_TILE, d.cell[2], d.slot, d.cell[1] % M_TILE>>
      <3>1. /\ Present(reordered) /\ sidecar' = sidecar
            /\ reordered' = [reordered EXCEPT !.tensors[d.tensor].codes[place] = d.byte]
        BY <1>3, <2>3 DEF Damage
      <3> HIDE DEF place
      <3>2. reordered'.source = Genuine
        BY <2>2, <3>1, ReorderedDamaged
      <3>3. Present(sidecar) => sidecar = Genuine
        BY <2>1 DEF Undamaged
      <3> QED
        BY <2>1, <3>1, <3>2, <3>3 DEF Lineage
    <2>4. CASE d.file # "reordered"
      <3>1. reordered' = reordered
        <4>1. d.file \in {"model", "plain", "sidecar", "gguf"}
          BY <2>4, DamageAssumption
        <4> QED
          BY <1>3, <4>1 DEF Damage
      <3> QED
        BY <2>1, <2>2, <3>1 DEF Lineage
    <2> QED
      BY <2>3, <2>4
  <1>4. CASE UNCHANGED <<sidecar, reordered, reverified, damage>>
    BY <1>4 DEF Lineage
  <1> QED
    BY <1>1, <1>2, <1>3, <1>4, LineageFrame

\* A reorder that follows a sidecar holds what the sidecar holds.
LEMMA FollowsHolds ==
    ASSUME NEW file, Follows(file), \A t \in Names : IsArrays(file.tensors[t], t),
           \A t \in Names : HoldsRelease(file.source.tensors[t], t)
    PROVE  ReorderedHoldsRelease(file)
  <1> SUFFICES ASSUME NEW t \in Names
               PROVE  LET out == file.tensors[t]
                          rows == Shape[t].rows
                      IN  /\ HoldsRelease(Restore(out.codes, out.scales, rows, Shape[t].groups, M_TILE), t)
                          /\ \A x \in DOMAIN out.codes :
                              x[4] \notin RowsIn(x[1], rows, M_TILE) => out.codes[x] = 0
    BY DEF ReorderedHoldsRelease
  <1>1. /\ Copies(file.tensors[t], file.source.tensors[t], t)
        /\ DOMAIN file.tensors[t].codes = CodePlaces(Shape[t].rows, Shape[t].groups, M_TILE)
    BY DEF Follows, IsArrays
  <1> QED
    BY <1>1, RestoreHolds

\* With one damage at most, whenever it happens, and whichever tools are killed or run
\* again: a sidecar that passed verification, the reordered file whose verification names
\* it, the sidecar of a hashed traversal and a GGUF that passed hold the release
\* (verify_model, lut23_reorder, v2_traversal, verify_distributed_gguf).
THEOREM Evidence ==
    ASSUME MAX_DAMAGE <= 1
    PROVE  Spec => []EvidenceComposes
  <1>1. Init => Lineage
    BY DEF Init, Lineage, Present
  <1>2. IInv /\ Lineage /\ [Next]_vars => Lineage'
    BY LineageStep
  <1>3. IInv /\ Lineage => EvidenceComposes
    <2> SUFFICES ASSUME IInv, Lineage PROVE EvidenceComposes
      OBVIOUS
    <2>1. ASSUME PassedModel, Present(reverified), reverified.pass, reverified.of.hashed,
                 reverified.source = verified.sidecar
          PROVE  ReorderedHoldsRelease(reverified.of)
      <3>1. /\ Follows(reverified.of) /\ reverified.of.source = verified.sidecar
            /\ \A t \in Names : IsArrays(reverified.of.tensors[t], t)
        BY <2>1 DEF Lineage
      <3>2. \A t \in Names : HoldsRelease(verified.sidecar.tensors[t], t)
        BY <2>1 DEF IInv, RecordsAre
      <3> QED
        BY <3>1, <3>2, FollowsHolds
    <2> QED
      BY <2>1 DEF IInv, RecordsAre, EvidenceComposes
  <1> QED
    BY <1>1, <1>2, <1>3, Inductive, PTL DEF Spec

----------------------------------------------------------------------------
(* The crosscheck. *)

\* The order of an axis, as pairs of places.
Pairs(order, length) == {<<i, order[i]>> : i \in 0..length - 1}

\* The value heads of the two programs, and what stands for a head in the other.
LEMMA HeadsFit ==
    /\ Repeat \in Nat \ {0} /\ VALUE_HEADS = KEY_HEADS * Repeat
    /\ \A k \in 0..KEY_HEADS - 1, n \in 0..Repeat - 1 :
          /\ k * Repeat + n \in Heads
          /\ HeadOrder[k * Repeat + n] = n * KEY_HEADS + k
    /\ \A h \in Heads : \E k \in 0..KEY_HEADS - 1, n \in 0..Repeat - 1 : h = k * Repeat + n
  <1>1. /\ VALUE_HEADS \in Nat \ {0} /\ KEY_HEADS \in Nat \ {0}
        /\ VALUE_HEADS % KEY_HEADS = 0
    BY HeadLayoutAssumption
  <1>2. Repeat \in Nat \ {0} /\ VALUE_HEADS = Repeat * KEY_HEADS
    BY <1>1, Divides DEF Repeat
  <1>3. VALUE_HEADS = KEY_HEADS * Repeat
    BY <1>1, <1>2, Z3
  <1>4. ASSUME NEW k \in 0..KEY_HEADS - 1, NEW n \in 0..Repeat - 1
        PROVE  /\ k * Repeat + n \in Heads
               /\ HeadOrder[k * Repeat + n] = n * KEY_HEADS + k
    <2>1. k * Repeat + n \in 0..KEY_HEADS * Repeat - 1
      BY <1>1, <1>2, BlockBelow
    <2>2. (k * Repeat + n) \div Repeat = k /\ (k * Repeat + n) % Repeat = n
      BY <1>1, <1>2, DivModUnique
    <2>3. k * Repeat + n \in Heads
      BY <1>3, <2>1 DEF Heads
    <2> QED
      BY <2>2, <2>3 DEF HeadOrder
  <1>5. ASSUME NEW h \in Heads
        PROVE  \E k \in 0..KEY_HEADS - 1, n \in 0..Repeat - 1 : h = k * Repeat + n
    <2>1. h \in Nat /\ h < KEY_HEADS * Repeat
      BY <1>1, <1>3 DEF Heads
    <2>2. /\ h \div Repeat \in 0..KEY_HEADS - 1 /\ h % Repeat \in 0..Repeat - 1
          /\ h = (h \div Repeat) * Repeat + (h % Repeat)
      BY <1>1, <1>2, <2>1, QuotientBelow, DivMod
    <2> QED
      BY <2>2
  <1> QED
    BY <1>2, <1>3, <1>4, <1>5

\* The place of slot o of a head behind the first ones.
LEMMA SlotOfHead ==
    ASSUME NEW length \in Nat, NEW slots \in Nat \ {0}, VALUE_HEADS * slots <= length,
           NEW h \in Heads, NEW o \in 0..slots - 1
    PROVE  LET first == length - VALUE_HEADS * slots
               i == first + h * slots + o
           IN  /\ first \in Nat /\ i \in 0..length - 1 /\ ~(i < first)
               /\ OrderOf(length, slots)[i] = first + HeadOrder[h] * slots + o
  <1>1. VALUE_HEADS \in Nat \ {0} /\ VALUE_HEADS * slots \in Nat
    BY HeadLayoutAssumption, Z3
  <1> DEFINE first == length - VALUE_HEADS * slots
  <1>2. first \in Nat /\ length = first + VALUE_HEADS * slots
    BY <1>1
  <1>3. h * slots + o \in 0..VALUE_HEADS * slots - 1
    BY <1>1, BlockBelow DEF Heads
  <1>4. (h * slots + o) \div slots = h /\ (h * slots + o) % slots = o
    <2>1. h \in Nat
      BY <1>1 DEF Heads
    <2> QED
      BY <2>1, DivModUnique
  <1> DEFINE j == h * slots + o
             i == first + h * slots + o
  <1>5. j \in Nat /\ h * slots \in Nat
    BY <1>3, Z3 DEF Heads
  <1>6. i = first + j /\ i \in 0..length - 1 /\ ~(i < first) /\ i - first = j
    BY <1>1, <1>2, <1>3, <1>5
  <1>7. OrderOf(length, slots)[i] = first + HeadOrder[j \div slots] * slots + (j % slots)
    <2> HIDE DEF j, i
    <2> QED
      BY <1>6 DEF OrderOf
  <1> QED
    BY <1>2, <1>4, <1>6, <1>7

\* Below the value heads, and of every value head, the order is that of the places the two
\* programs keep the same weights at.
LEMMA OrderIsPairs ==
    ASSUME NEW length \in Nat, NEW slots \in Nat \ {0}, VALUE_HEADS * slots <= length
    PROVE  PlacePairs(length, slots) = Pairs(OrderOf(length, slots), length)
  <1> DEFINE first == length - VALUE_HEADS * slots
             order == OrderOf(length, slots)
  <1>1. /\ VALUE_HEADS \in Nat \ {0} /\ VALUE_HEADS * slots \in Nat
        /\ KEY_HEADS \in Nat \ {0} /\ Repeat \in Nat \ {0}
    BY HeadLayoutAssumption, HeadsFit, Z3
  <1>2. first \in Nat /\ length = first + VALUE_HEADS * slots
    BY <1>1
  <1>3. \A i \in 0..first - 1 : i \in 0..length - 1 /\ order[i] = i
    BY <1>1, <1>2 DEF OrderOf
  <1>4. ASSUME NEW k \in 0..KEY_HEADS - 1, NEW n \in 0..Repeat - 1, NEW o \in 0..slots - 1
        PROVE  LET i == first + (k * Repeat + n) * slots + o
               IN  i \in 0..length - 1 /\ order[i] = first + (n * KEY_HEADS + k) * slots + o
    <2>1. PICK h \in Heads : h = k * Repeat + n /\ HeadOrder[h] = n * KEY_HEADS + k
      BY HeadsFit
    <2>2. /\ first + h * slots + o \in 0..length - 1
          /\ order[first + h * slots + o] = first + HeadOrder[h] * slots + o
      BY SlotOfHead
    <2> QED
      BY <2>1, <2>2
  <1>5. ASSUME NEW i \in 0..length - 1, ~(i < first)
        PROVE  \E k \in 0..KEY_HEADS - 1, n \in 0..Repeat - 1, o \in 0..slots - 1 :
                   i = first + (k * Repeat + n) * slots + o
    <2>1. i - first \in Nat /\ i - first < VALUE_HEADS * slots
      BY <1>1, <1>2, <1>5
    <2>2. PICK j \in Nat : j = i - first
      BY <2>1
    <2>3. /\ j \div slots \in 0..VALUE_HEADS - 1 /\ j % slots \in 0..slots - 1
          /\ j = (j \div slots) * slots + (j % slots)
      BY <1>1, <2>1, <2>2, QuotientBelow, DivMod
    <2>4. PICK h \in Heads, o \in 0..slots - 1 : j = h * slots + o
      BY <2>3 DEF Heads
    <2>5. PICK k \in 0..KEY_HEADS - 1, n \in 0..Repeat - 1 : h = k * Repeat + n
      BY HeadsFit
    <2>6. h * slots \in Nat
      BY <1>1, Z3 DEF Heads
    <2>7. i = first + h * slots + o
      BY <1>2, <2>2, <2>4, <2>6
    <2> QED
      BY <2>5, <2>7
  <1> HIDE DEF order
  <1>6. PlacePairs(length, slots) =
            {<<i, i>> : i \in 0..first - 1}
            \cup {<<first + (k * Repeat + n) * slots + o, first + (n * KEY_HEADS + k) * slots + o>> :
                    k \in 0..KEY_HEADS - 1, n \in 0..Repeat - 1, o \in 0..slots - 1}
    BY DEF PlacePairs
  <1> HIDE DEF first
  <1>7. ASSUME NEW x \in PlacePairs(length, slots)
        PROVE  x \in Pairs(order, length)
    <2>1. CASE x \in {<<i, i>> : i \in 0..first - 1}
      BY <1>3, <2>1 DEF Pairs
    <2>2. ASSUME NEW k \in 0..KEY_HEADS - 1, NEW n \in 0..Repeat - 1, NEW o \in 0..slots - 1,
                 x = <<first + (k * Repeat + n) * slots + o, first + (n * KEY_HEADS + k) * slots + o>>
          PROVE  x \in Pairs(order, length)
      <3>1. PICK i \in 0..length - 1 : /\ i = first + (k * Repeat + n) * slots + o
                                       /\ order[i] = first + (n * KEY_HEADS + k) * slots + o
        BY <1>4
      <3>2. x = <<i, order[i]>>
        BY <2>2, <3>1
      <3> QED
        BY <3>2 DEF Pairs
    <2> QED
      BY <1>6, <2>1, <2>2
  <1>8. ASSUME NEW i \in 0..length - 1
        PROVE  <<i, order[i]>> \in PlacePairs(length, slots)
    <2>1. CASE i < first
      <3>1. i \in 0..first - 1
        BY <1>2, <2>1
      <3> QED
        BY <1>3, <1>6, <3>1
    <2>2. CASE ~(i < first)
      <3>1. PICK k \in 0..KEY_HEADS - 1, n \in 0..Repeat - 1, o \in 0..slots - 1 :
                i = first + (k * Repeat + n) * slots + o
        BY <1>5, <2>2
      <3>2. order[i] = first + (n * KEY_HEADS + k) * slots + o
        BY <1>4, <3>1
      <3>3. <<i, order[i]>> = <<first + (k * Repeat + n) * slots + o,
                                first + (n * KEY_HEADS + k) * slots + o>>
        BY <3>1, <3>2
      <3> QED
        BY <1>6, <3>3
    <2> QED
      BY <2>1, <2>2
  <1> QED
    BY <1>7, <1>8 DEF Pairs, order

\* An order stays on its axis.
LEMMA OrderInside ==
    ASSUME NEW length \in Nat, NEW slots \in Nat \ {0}, VALUE_HEADS * slots <= length,
           NEW i \in 0..length - 1
    PROVE  OrderOf(length, slots)[i] \in 0..length - 1
  <1> DEFINE first == length - VALUE_HEADS * slots
  <1>1. /\ VALUE_HEADS \in Nat \ {0} /\ VALUE_HEADS * slots \in Nat
        /\ KEY_HEADS \in Nat \ {0} /\ Repeat \in Nat \ {0}
    BY HeadLayoutAssumption, HeadsFit, Z3
  <1>2. first \in Nat /\ length = first + VALUE_HEADS * slots
    BY <1>1
  <1>3. <<i, OrderOf(length, slots)[i]>> \in PlacePairs(length, slots)
    BY OrderIsPairs DEF Pairs
  <1>4. CASE OrderOf(length, slots)[i] = i
    BY <1>4
  <1>5. ASSUME NEW k \in 0..KEY_HEADS - 1, NEW n \in 0..Repeat - 1, NEW o \in 0..slots - 1,
               OrderOf(length, slots)[i] = first + (n * KEY_HEADS + k) * slots + o
        PROVE  OrderOf(length, slots)[i] \in 0..length - 1
    <2>1. n * KEY_HEADS + k \in 0..Repeat * KEY_HEADS - 1
      BY <1>1, BlockBelow
    <2>2. Repeat * KEY_HEADS = VALUE_HEADS
      BY <1>1, HeadsFit, Z3
    <2>3. PICK h \in 0..VALUE_HEADS - 1 : h = n * KEY_HEADS + k
      BY <2>1, <2>2
    <2>4. h * slots + o \in 0..VALUE_HEADS * slots - 1
      BY <1>1, BlockBelow
    <2>5. h * slots \in Nat
      BY <1>1, Z3
    <2> QED
      BY <1>1, <1>2, <1>5, <2>3, <2>4, <2>5
  <1> HIDE DEF first
  <1>6. PlacePairs(length, slots) =
            {<<j, j>> : j \in 0..first - 1}
            \cup {<<first + (k * Repeat + n) * slots + o, first + (n * KEY_HEADS + k) * slots + o>> :
                    k \in 0..KEY_HEADS - 1, n \in 0..Repeat - 1, o \in 0..slots - 1}
    BY DEF PlacePairs, first
  <1> QED
    BY <1>3, <1>4, <1>5, <1>6

\* An axis that stays, or is one of slots of the value heads behind others.
Reorders(order, pairs, length) ==
    \/ order = [i \in 0..length - 1 |-> i] /\ pairs = Straight(length)
    \/ \E slots \in Nat \ {0} :
          /\ VALUE_HEADS * slots <= length
          /\ order = OrderOf(length, slots) /\ pairs = PlacePairs(length, slots)

\* So are both axes of every tensor.
LEMMA AxisOrders ==
    ASSUME NEW t \in DOMAIN Census
    PROVE  /\ Reorders(RowOrder(t), RowPairs(t), Census[t].rows)
           /\ Reorders(ColumnOrder(t), GroupPairs(t), Census[t].groups)
  <1> DEFINE rows == Census[t].rows
             groups == Census[t].groups
             unit == Census[t].unit
  <1>1. rows \in Nat /\ groups \in Nat
    BY CensusAssumption
  <1>2. VALUE_HEAD_DIM \in Nat \ {0} /\ VALUE_HEADS \in Nat \ {0}
    BY HeadLayoutAssumption
  <1>3. CASE Census[t].axis = "rows"
    <2>1. PICK slots \in Nat \ {0} : slots = SlotsPerHead(unit)
      BY <1>2 DEF SlotsPerHead
    <2>2. VALUE_HEADS * slots <= rows
      <3>1. rows >= BlockLength(unit)
        BY <1>3, CensusAssumption
      <3>2. VALUE_HEADS * slots \in Nat
        BY <1>2, Z3
      <3> QED
        BY <1>1, <2>1, <3>1, <3>2 DEF BlockLength
    <2>3. RowPairs(t) = PlacePairs(rows, slots) /\ RowOrder(t) = OrderOf(rows, slots)
      BY <1>3, <2>1 DEF RowPairs, RowOrder, SourceOrder, SlotsPerHead
    <2>4. GroupPairs(t) = Straight(groups) /\ ColumnOrder(t) = [g \in 0..groups - 1 |-> g]
      BY <1>3 DEF GroupPairs, ColumnOrder
    <2> QED
      BY <2>2, <2>3, <2>4 DEF Reorders
  <1>4. CASE Census[t].axis = "columns"
    <2>1. VALUE_HEAD_DIM % BLOCK_SIZE = 0 /\ BLOCK_SIZE \in Nat \ {0}
      BY <1>4, CensusAssumption, SlotsAssumption DEF BLOCK_SIZE
    <2>2. PICK slots \in Nat \ {0} : slots = VALUE_HEAD_DIM \div BLOCK_SIZE
      <3>1. VALUE_HEAD_DIM \in Nat /\ VALUE_HEAD_DIM > 0
        BY <1>2
      <3>2. VALUE_HEAD_DIM \div BLOCK_SIZE \in Nat /\ VALUE_HEAD_DIM \div BLOCK_SIZE > 0
        BY <2>1, <3>1, Divides
      <3> QED
        BY <3>2
    <2>3. VALUE_HEADS * slots <= groups
      <3>1. groups >= VALUE_HEADS * slots
        BY <1>4, <2>2, CensusAssumption
      <3>2. VALUE_HEADS * slots \in Nat
        BY <1>2, Z3
      <3> QED
        BY <1>1, <3>1, <3>2
    <2>4. GroupPairs(t) = PlacePairs(groups, slots) /\ ColumnOrder(t) = OrderOf(groups, slots)
      BY <1>4, <2>2 DEF GroupPairs, ColumnOrder, GroupSourceOrder
    <2>5. RowPairs(t) = Straight(rows) /\ RowOrder(t) = [r \in 0..rows - 1 |-> r]
      BY <1>4 DEF RowPairs, RowOrder
    <2> QED
      BY <2>3, <2>4, <2>5 DEF Reorders
  <1>5. CASE Census[t].axis # "rows" /\ Census[t].axis # "columns"
    BY <1>5 DEF RowPairs, GroupPairs, RowOrder, ColumnOrder, Reorders
  <1> QED
    BY <1>3, <1>4, <1>5

\* Such an order is that of the places of the same weights, and stays on its axis.
LEMMA ReordersFit ==
    ASSUME NEW length \in Nat, NEW order, NEW pairs, Reorders(order, pairs, length)
    PROVE  /\ pairs = Pairs(order, length)
           /\ \A i \in 0..length - 1 : order[i] \in 0..length - 1
  <1>1. CASE order = [i \in 0..length - 1 |-> i] /\ pairs = Straight(length)
    BY <1>1 DEF Straight, Pairs
  <1>2. ASSUME NEW slots \in Nat \ {0}, VALUE_HEADS * slots <= length,
               order = OrderOf(length, slots), pairs = PlacePairs(length, slots)
        PROVE  /\ pairs = Pairs(order, length)
               /\ \A i \in 0..length - 1 : order[i] \in 0..length - 1
    BY <1>2, OrderIsPairs, OrderInside
  <1> QED
    BY <1>1, <1>2 DEF Reorders

\* The orders of rows and groups, with the places the two programs keep the same weights at.
LEMMA OrdersArePairs ==
    ASSUME NEW t \in DOMAIN Census
    PROVE  /\ Census[t].rows \in Nat \ {0} /\ Census[t].groups \in Nat \ {0}
           /\ RowPairs(t) = Pairs(RowOrder(t), Census[t].rows)
           /\ GroupPairs(t) = Pairs(ColumnOrder(t), Census[t].groups)
           /\ \A r \in 0..Census[t].rows - 1 : RowOrder(t)[r] \in 0..Census[t].rows - 1
           /\ \A g \in 0..Census[t].groups - 1 : ColumnOrder(t)[g] \in 0..Census[t].groups - 1
  <1>1. Census[t].rows \in Nat \ {0} /\ Census[t].groups \in Nat \ {0}
    BY CensusAssumption
  <1> QED
    BY <1>1, AxisOrders, ReordersFit

\* The chunks of an axis: whole steps up to a boundary, and all of the rest.
StepsTo(b, step) ==
    [i \in 1..(b + step - 1) \div step |-> [begin |-> (i - 1) * step, end |-> Min({i * step, b})]]

RestFrom(b, rows) == IF b < rows THEN <<[begin |-> b, end |-> rows]>> ELSE << >>

Chunk == [begin : Nat, end : Nat]

\* The places of a chunk.
InChunk(chunk) == chunk.begin..chunk.end - 1

\* The steps up to a boundary hold what is below it, and nothing else.
LEMMA StepsFill ==
    ASSUME NEW b \in Nat, NEW step \in Nat \ {0}
    PROVE  /\ StepsTo(b, step) \in Seq(Chunk)
           /\ \A i \in DOMAIN StepsTo(b, step) : InChunk(StepsTo(b, step)[i]) \subseteq 0..b - 1
           /\ \A r \in 0..b - 1 : \E i \in DOMAIN StepsTo(b, step) : r \in InChunk(StepsTo(b, step)[i])
  <1> DEFINE n == (b + step - 1) \div step
  <1>1. n \in Nat /\ (b = 0 => n = 0)
    <2>1. b + step - 1 \in Nat
      OBVIOUS
    <2>2. n \in Nat
      BY <2>1, DivMod
    <2>3. b = 0 => (b + step - 1) \div step \in 0..1 - 1
      BY <2>1, QuotientBelow
    <2> QED
      BY <2>2, <2>3
  <1>2. ASSUME NEW i \in 1..n
        PROVE  /\ (i - 1) * step \in Nat /\ i * step \in Nat
               /\ i * step = (i - 1) * step + step
               /\ Min({i * step, b}) \in Nat
               /\ Min({i * step, b}) <= i * step /\ Min({i * step, b}) <= b
               /\ (Min({i * step, b}) = i * step \/ Min({i * step, b}) = b)
    <2>1. i - 1 \in Nat /\ i \in Nat
      BY <1>1
    <2>2. (i - 1) * step \in Nat /\ i * step \in Nat /\ i * step = (i - 1) * step + step
      BY <2>1, Z3
    <2>3. \A e \in Nat : /\ Min({e, b}) \in {e, b} /\ Min({e, b}) <= e /\ Min({e, b}) <= b
      <3> TAKE e \in Nat
      <3>1. \E x \in {e, b} : \A y \in {e, b} : x <= y
        OBVIOUS
      <3> QED
        BY <3>1, SMT DEF Min
    <2> QED
      BY <2>2, <2>3
  <1> DEFINE s == StepsTo(b, step)
  <1>3. s = [i \in 1..n |-> [begin |-> (i - 1) * step, end |-> Min({i * step, b})]]
    BY DEF StepsTo
  <1> HIDE DEF n, s
  <1>4. s \in Seq(Chunk) /\ DOMAIN s = 1..n
    <2>1. s \in [1..n -> Chunk]
      BY <1>2, <1>3 DEF Chunk
    <2>2. \A m \in Nat : \A f \in [1..m -> Chunk] : f \in Seq(Chunk) /\ DOMAIN f = 1..m
      OBVIOUS
    <2> QED
      BY <1>1, <2>1, <2>2
  <1>5. ASSUME NEW i \in DOMAIN s
        PROVE  InChunk(s[i]) \subseteq 0..b - 1
    <2>1. i \in 1..n
      BY <1>4
    <2>2. s[i].begin = (i - 1) * step /\ s[i].end = Min({i * step, b})
      BY <1>3, <2>1
    <2>3. s[i].begin \in Nat /\ s[i].end \in Nat /\ s[i].end <= b
      BY <1>2, <2>1, <2>2
    <2>4. \A begin \in Nat, end \in Nat : end <= b => begin..end - 1 \subseteq 0..b - 1
      OBVIOUS
    <2> QED
      BY <2>3, <2>4 DEF InChunk
  <1>6. ASSUME NEW r \in 0..b - 1
        PROVE  \E i \in DOMAIN s : r \in InChunk(s[i])
    <2> DEFINE q == r \div step
    <2>1. b \in Nat \ {0} /\ r \in Nat
      OBVIOUS
    <2>2. q \in Nat /\ r % step \in 0..step - 1 /\ r = q * step + (r % step)
      BY <2>1, DivMod
    <2>3. q \in 0..n - 1
      BY <2>1, BlocksStart DEF n
    <2> HIDE DEF q
    <2>4. PICK i \in 1..n : i = q + 1
      BY <2>3, <1>1
    <2>5. (i - 1) * step = q * step
      BY <2>2, <2>4
    <2>6. r \in (i - 1) * step..Min({i * step, b}) - 1
      BY <1>2, <2>1, <2>2, <2>5
    <2>7. s[i].begin = (i - 1) * step /\ s[i].end = Min({i * step, b})
      BY <1>3
    <2> QED
      BY <1>4, <2>6, <2>7 DEF InChunk
  <1> QED
    BY <1>4, <1>5, <1>6 DEF s

\* Every row is in a chunk, and a chunk has no others.
LEMMA ChunksCover ==
    ASSUME NEW t \in DOMAIN Census
    PROVE  /\ \A i \in DOMAIN RowChunks(t) : InChunk(RowChunks(t)[i]) \subseteq 0..Census[t].rows - 1
           /\ \A r \in 0..Census[t].rows - 1 :
                 \E i \in DOMAIN RowChunks(t) : r \in InChunk(RowChunks(t)[i])
  <1> DEFINE chunks == RowChunks(t)
  <1>1. PICK rows \in Nat \ {0} : rows = Census[t].rows
    BY CensusAssumption
  <1>2. PICK step \in Nat \ {0} : step = Max({1, WEIGHTS_PER_CHUNK \div ColumnsOf(t)})
    <2>1. BLOCK_SIZE \in Nat \ {0} /\ Census[t].groups \in Nat \ {0}
      BY SlotsAssumption, CensusAssumption DEF BLOCK_SIZE
    <2>2. ColumnsOf(t) \in Nat \ {0}
      BY <2>1, Z3 DEF ColumnsOf
    <2>3. WEIGHTS_PER_CHUNK \div ColumnsOf(t) \in Nat
      BY <2>2, CensusAssumption, DivMod
    <2>4. \A e \in Nat : Max({1, e}) \in Nat \ {0}
      <3> TAKE e \in Nat
      <3>1. \E x \in {1, e} : \A y \in {1, e} : x >= y
        OBVIOUS
      <3>2. Max({1, e}) \in {1, e} /\ Max({1, e}) >= 1
        BY <3>1, SMT DEF Max
      <3> QED
        BY <3>2
    <2> QED
      BY <2>3, <2>4
  <1>3. PICK b \in 0..rows : b = Boundary(t)
    <2>1. VALUE_HEADS \in Nat /\ VALUE_HEAD_DIM \in Nat
      BY HeadLayoutAssumption
    <2>2. BlockLength(Census[t].unit) \in Nat
      BY <2>1, Z3 DEF BlockLength, SlotsPerHead
    <2>3. Census[t].axis = "rows" => rows >= BlockLength(Census[t].unit)
      BY <1>1, CensusAssumption
    <2> QED
      BY <1>1, <2>2, <2>3 DEF Boundary
  <1>4. chunks = StepsTo(b, step) \o RestFrom(b, rows)
    BY <1>1, <1>2, <1>3 DEF RowChunks, StepsTo, RestFrom
  <1> DEFINE s == StepsTo(b, step)
             e == RestFrom(b, rows)
  <1>5. /\ s \in Seq(Chunk)
        /\ \A i \in DOMAIN s : InChunk(s[i]) \subseteq 0..b - 1
        /\ \A r \in 0..b - 1 : \E i \in DOMAIN s : r \in InChunk(s[i])
    <2>1. b \in Nat
      BY <1>3
    <2> QED
      BY <2>1, StepsFill
  <1>6. /\ e \in Seq(Chunk)
        /\ b < rows => DOMAIN e = 1..1 /\ e[1] = [begin |-> b, end |-> rows]
        /\ ~(b < rows) => e = << >> /\ DOMAIN e = {}
    <2>1. b \in Nat /\ rows \in Nat
      BY <1>3
    <2>2. CASE b < rows
      <3>1. e = <<[begin |-> b, end |-> rows]>>
        BY <2>2 DEF RestFrom
      <3>2. [begin |-> b, end |-> rows] \in Chunk
        BY <2>1 DEF Chunk
      <3> HIDE DEF e
      <3> QED
        BY <2>2, <3>1, <3>2
    <2>3. CASE ~(b < rows)
      <3>1. e = << >>
        BY <2>3 DEF RestFrom
      <3> HIDE DEF e
      <3> QED
        BY <2>3, <3>1
    <2> QED
      BY <2>2, <2>3
  <1> HIDE DEF chunks, s, e
  <1>7. /\ \A i \in DOMAIN chunks : \/ i \in DOMAIN s /\ chunks[i] = s[i]
                                    \/ \E j \in DOMAIN e : chunks[i] = e[j]
        /\ \A i \in DOMAIN s : i \in DOMAIN chunks /\ chunks[i] = s[i]
        /\ \A j \in DOMAIN e : \E i \in DOMAIN chunks : chunks[i] = e[j]
    <2>1. chunks = s \o e /\ s \in Seq(Chunk) /\ e \in Seq(Chunk)
      BY <1>4, <1>5, <1>6 DEF s, e
    <2>2. /\ Len(s) \in Nat /\ DOMAIN s = 1..Len(s) /\ Len(e) \in Nat /\ DOMAIN e = 1..Len(e)
          /\ DOMAIN chunks = 1..Len(s) + Len(e)
          /\ \A i \in 1..Len(s) + Len(e) :
                chunks[i] = IF i <= Len(s) THEN s[i] ELSE e[i - Len(s)]
      BY <2>1
    <2>3. \A j \in DOMAIN e : j + Len(s) \in DOMAIN chunks /\ chunks[j + Len(s)] = e[j]
      BY <2>2
    <2>4. \A i \in DOMAIN chunks : i \notin DOMAIN s => i - Len(s) \in DOMAIN e /\ chunks[i] = e[i - Len(s)]
      BY <2>2
    <2> QED
      BY <2>2, <2>3, <2>4
  <1>8. \A j \in DOMAIN e : InChunk(e[j]) \subseteq 0..rows - 1
    BY <1>3, <1>6 DEF InChunk
  <1>9. ASSUME NEW i \in DOMAIN chunks
        PROVE  InChunk(chunks[i]) \subseteq 0..rows - 1
    BY <1>3, <1>5, <1>7, <1>8
  <1>10. ASSUME NEW r \in 0..rows - 1
         PROVE  \E i \in DOMAIN chunks : r \in InChunk(chunks[i])
    <2>1. CASE r < b
      BY <1>3, <1>5, <1>7, <2>1
    <2>2. CASE ~(r < b)
      <3>1. b < rows
        BY <1>3, <2>2
      <3>2. 1 \in DOMAIN e /\ r \in InChunk(e[1])
        BY <1>3, <1>6, <2>2, <3>1 DEF InChunk
      <3> QED
        BY <1>7, <3>2
    <2> QED
      BY <2>1, <2>2
  <1> QED
    BY <1>1, <1>9, <1>10 DEF chunks

\* What the chunks find bad is what is bad in the tensor.
LEMMA AgreesByRow ==
    ASSUME NEW source, NEW t \in DOMAIN Census, NEW module
    PROVE  Agrees(source, t, module)
               <=> \A r \in 0..Census[t].rows - 1 : RowAgrees(source, t, module, r)
  <1>1. \A i \in DOMAIN RowChunks(t) :
            BadRows(source, t, module, RowChunks(t)[i])
                = {r \in InChunk(RowChunks(t)[i]) : ~RowAgrees(source, t, module, r)}
    BY DEF BadRows, InChunk
  <1> QED
    BY <1>1, ChunksCover DEF Agrees

\* The chunks find a tensor identical exactly when it is.
LEMMA AgreesIsSame ==
    ASSUME NEW t \in DOMAIN Census, NEW module
    PROVE  Agrees(Gguf, t, module) <=> SameTensor(t, module)
  <1> DEFINE rows == Census[t].rows
             groups == Census[t].groups
             Fits(r, rr, g, gg) ==
                LET block == Gguf[t][rr, gg]
                    codes == DecodeQ2(block)
                IN  /\ \A w \in Weights : codes[w] = module.codes[r, g * BLOCK_SIZE + w]
                    /\ block.scale = module.scales[r, g]
                    /\ module.biases[r, g] = IF module.scales[r, g] = NaN THEN NaN
                                             ELSE 0 - module.scales[r, g]
  <1>1. \A r, g : GroupAgrees(Gguf, t, module, r, g)
                      <=> Fits(r, RowOrder(t)[r], g, ColumnOrder(t)[g])
    BY DEF GroupAgrees, SourceBlock
  <1>2. SameTensor(t, module)
            <=> \A r \in RowPairs(t), g \in GroupPairs(t) : Fits(r[1], r[2], g[1], g[2])
    BY DEF SameTensor
  <1> HIDE DEF Fits
  <1>3. Agrees(Gguf, t, module)
            <=> \A r \in 0..rows - 1 : \A g \in 0..groups - 1 : GroupAgrees(Gguf, t, module, r, g)
    BY AgreesByRow DEF RowAgrees
  <1>4. \A r \in 0..rows - 1 : <<r, RowOrder(t)[r]>> \in RowPairs(t)
    BY OrdersArePairs DEF Pairs
  <1>5. \A g \in 0..groups - 1 : <<g, ColumnOrder(t)[g]>> \in GroupPairs(t)
    BY OrdersArePairs DEF Pairs
  <1>6. \A r \in RowPairs(t) : r[1] \in 0..rows - 1 /\ r[2] = RowOrder(t)[r[1]]
    BY OrdersArePairs DEF Pairs
  <1>7. \A g \in GroupPairs(t) : g[1] \in 0..groups - 1 /\ g[2] = ColumnOrder(t)[g[1]]
    BY OrdersArePairs DEF Pairs
  <1>8. ASSUME Agrees(Gguf, t, module)
        PROVE  SameTensor(t, module)
    BY <1>1, <1>2, <1>3, <1>6, <1>7, <1>8
  <1>9. ASSUME SameTensor(t, module)
        PROVE  Agrees(Gguf, t, module)
    <2>1. ASSUME NEW r \in 0..rows - 1, NEW g \in 0..groups - 1
          PROVE  Fits(r, RowOrder(t)[r], g, ColumnOrder(t)[g])
      <3>1. PICK x \in RowPairs(t) : x = <<r, RowOrder(t)[r]>>
        BY <1>4
      <3>2. PICK y \in GroupPairs(t) : y = <<g, ColumnOrder(t)[g]>>
        BY <1>5
      <3>3. Fits(x[1], x[2], y[1], y[2])
        BY <1>2, <1>9
      <3> QED
        BY <3>1, <3>2, <3>3
    <2> QED
      BY <1>1, <1>3, <2>1
  <1> QED
    BY <1>8, <1>9

\* The values a function takes on a finite set are finitely many.
LEMMA ImageFinite ==
    ASSUME NEW S, IsFiniteSet(S), NEW f
    PROVE  IsFiniteSet({f[x] : x \in S})
  <1> DEFINE T == {f[x] : x \in S}
             onto == [x \in S |-> f[x]]
  <1>1. onto \in Surjection(S, T)
    BY DEF Surjection
  <1> QED
    BY <1>1, FS_Surjection

\* A finite set of numbers has a largest.
LEMMA MaxOfFinite ==
    ASSUME NEW S, IsFiniteSet(S), S \subseteq Nat, S # {}
    PROVE  Max(S) \in S /\ \A x \in S : x <= Max(S)
  <1> DEFINE self == [x \in S |-> x]
  <1>1. Summable(self, S) /\ \A x \in S : self[x] = x /\ x \in Nat
    BY DEF Summable
  <1> HIDE DEF self
  <1>2. PICK n \in Nat : n = SumFunctionOnSet(self, S)
    BY <1>1, SumLaws
  <1>3. ASSUME NEW x \in S
        PROVE  x <= n
    <2>1. /\ Summable(self, S \ {x})
          /\ SumFunctionOnSet(self, S) = self[x] + SumFunctionOnSet(self, S \ {x})
      BY <1>1, SumLaws
    <2>2. SumFunctionOnSet(self, S \ {x}) \in Nat
      BY <2>1, SumLaws
    <2> QED
      BY <1>1, <1>2, <2>1, <2>2
  <1> DEFINE P == {n - x : x \in S}
  <1>4. P \subseteq Nat /\ P # {}
    <2>1. \A x \in S : n - x \in Nat
      BY <1>1, <1>3
    <2> QED
      BY <2>1
  <1> HIDE DEF P
  <1>5. PICK d \in P : \A m \in P : d <= m
    BY <1>4, LeastNumber
  <1>6. PICK x \in S : d = n - x
    BY <1>5 DEF P
  <1>7. \A y \in S : n - y \in P
    BY DEF P
  <1>8. \A y \in S : x >= y
    BY <1>1, <1>5, <1>6, <1>7
  <1> QED
    BY <1>1, <1>6, <1>8 DEF Max

\* The gaps of some rows are finitely many.
LEMMA GapsFinite ==
    ASSUME NEW source, NEW t \in DOMAIN Census, NEW module, NEW rows \in SUBSET (0..Census[t].rows - 1)
    PROVE  IsFiniteSet(Gaps(source, t, module, rows))
  <1> DEFINE groups == 0..Census[t].groups - 1
             places == rows \X (groups \X Weights)
             gap == [p \in places |-> WeightGap(source, t, module, p[1], p[2][1], p[2][2])]
  <1>1. Census[t].rows \in Nat /\ Census[t].groups \in Nat /\ BLOCK_SIZE \in Nat
    BY CensusAssumption, SlotsAssumption DEF BLOCK_SIZE
  <1>2. IsFiniteSet(rows) /\ IsFiniteSet(groups) /\ IsFiniteSet(Weights)
    <2>1. \A n \in Nat : IsFiniteSet(0..n - 1)
      BY FS_Interval
    <2> QED
      BY <1>1, <2>1, FS_Subset DEF Weights
  <1>3. IsFiniteSet(places)
    <2>1. IsFiniteSet(groups \X Weights)
      BY <1>2, FS_Product
    <2> QED
      BY <1>2, <2>1, FS_Product
  <1>4. Gaps(source, t, module, rows) = {gap[p] : p \in places}
    <2>1. \A r \in rows, g \in groups, w \in Weights :
              /\ <<r, <<g, w>>>> \in places
              /\ gap[<<r, <<g, w>>>>] = WeightGap(source, t, module, r, g, w)
      OBVIOUS
    <2>2. \A p \in places :
              /\ p[1] \in rows /\ p[2][1] \in groups /\ p[2][2] \in Weights
              /\ gap[p] = WeightGap(source, t, module, p[1], p[2][1], p[2][2])
      OBVIOUS
    <2> HIDE DEF places, gap
    <2> DEFINE value(r, g, w) == WeightGap(source, t, module, r, g, w)
    <2>3. Gaps(source, t, module, rows)
              = {value(r, g, w) : r \in rows, g \in groups, w \in Weights}
      BY DEF Gaps
    <2> HIDE DEF value, groups
    <2>4. ASSUME NEW p \in places
          PROVE  gap[p] \in Gaps(source, t, module, rows)
      <3>1. /\ p[1] \in rows /\ p[2][1] \in groups /\ p[2][2] \in Weights
            /\ gap[p] = value(p[1], p[2][1], p[2][2])
        BY <2>2 DEF value
      <3>2. PICK r \in rows, g \in groups, w \in Weights : gap[p] = value(r, g, w)
        BY <3>1
      <3>3. value(r, g, w) \in {value(rr, gg, ww) : rr \in rows, gg \in groups, ww \in Weights}
        OBVIOUS
      <3> QED
        BY <2>3, <3>2, <3>3
    <2>5. ASSUME NEW x \in Gaps(source, t, module, rows)
          PROVE  x \in {gap[p] : p \in places}
      <3>1. PICK r \in rows, g \in groups, w \in Weights : x = value(r, g, w)
        BY <2>3
      <3>2. <<r, <<g, w>>>> \in places /\ gap[<<r, <<g, w>>>>] = x
        BY <2>1, <3>1 DEF value
      <3> QED
        BY <3>2
    <2> QED
      BY <2>4, <2>5
  <1> HIDE DEF places, gap
  <1> QED
    BY <1>3, <1>4, ImageFinite

\* The codes of a block are numbers.
LEMMA CodesAreNumbers ==
    ASSUME NEW block, \A i \in 0..BLOCK_SIZE \div 4 - 1 : block.quants[i] \in Byte
    PROVE  \A w \in Weights : DecodeQ2(block)[w] \in Int
  <1> TAKE w \in Weights
  <1>1. BLOCK_SIZE \in Nat /\ BLOCK_SIZE % 4 = 0
    BY SlotsAssumption DEF BLOCK_SIZE
  <1>2. w \div 4 \in 0..BLOCK_SIZE \div 4 - 1 /\ w % 4 \in 0..3
    BY <1>1 DEF Weights
  <1>3. PICK byte \in Byte : byte = block.quants[w \div 4]
    BY <1>2
  <1>4. PICK unit \in Nat \ {0} : unit = <<1, 4, 16, 64>>[(w % 4) + 1]
    <2>1. PICK k \in 0..3 : k = w % 4
      BY <1>2
    <2>2. k = 0 \/ k = 1 \/ k = 2 \/ k = 3
      OBVIOUS
    <2> QED
      BY <2>1, <2>2
  <1>5. byte \div unit \in Nat
    BY DivMod DEF Byte
  <1>6. (byte \div unit) % 4 \in Int
    BY <1>5
  <1> QED
    BY <1>3, <1>4, <1>6 DEF DecodeQ2

\* The chunks find a plain tensor the same exactly when it is.
LEMMA PlainIsSame ==
    ASSUME NEW t \in DOMAIN Census, NEW module
    PROVE  PlainAgrees(Gguf, t, module) <=> SamePlain(t, module)
  <1> DEFINE rows == Census[t].rows
             Fits(r, rr) ==
                LET value == IF Census[t].logged THEN LogNegate[Gguf[t][rr]] ELSE Gguf[t][rr]
                IN  value = module[r] \/ {value, module[r]} = {0, NegativeZero}
  <1>1. PlainAgrees(Gguf, t, module) <=> \A r \in 0..rows - 1 : Fits(r, RowOrder(t)[r])
    BY DEF PlainAgrees, PlainValue
  <1>2. SamePlain(t, module) <=> \A r \in RowPairs(t) : Fits(r[1], r[2])
    BY DEF SamePlain
  <1> HIDE DEF Fits
  <1>3. ASSUME SamePlain(t, module), NEW r \in 0..rows - 1
        PROVE  Fits(r, RowOrder(t)[r])
    <2>1. PICK x \in RowPairs(t) : x = <<r, RowOrder(t)[r]>>
      BY OrdersArePairs DEF Pairs
    <2>2. Fits(x[1], x[2])
      BY <1>2, <1>3
    <2> QED
      BY <2>1, <2>2
  <1>4. \A r \in RowPairs(t) : r[1] \in 0..rows - 1 /\ r[2] = RowOrder(t)[r[1]]
    BY OrdersArePairs DEF Pairs
  <1> QED
    BY <1>1, <1>2, <1>3, <1>4

\* The difference of a weight: what the two files dequantise to at places that correspond.
Difference(t, module, r, rr, g, gg, w) ==
    (DecodeQ2(Gguf[t][rr, gg])[w] - 1) * Gguf[t][rr, gg].scale
        - (module.codes[r, g * BLOCK_SIZE + w] * module.scales[r, g] + module.biases[r, g])

\* Where all is finite it is a number, zero where the encodings agree.
LEMMA DifferenceOf ==
    ASSUME NEW t \in DOMAIN Census, NEW module, HoldsNumbers(t, module), FiniteTensor(t, module),
           NEW r \in 0..Census[t].rows - 1, NEW g \in 0..Census[t].groups - 1, NEW w \in Weights
    PROVE  LET d == Difference(t, module, r, RowOrder(t)[r], g, ColumnOrder(t)[g], w)
           IN  /\ d \in Int
               /\ WeightGap(Gguf, t, module, r, g, w) = IF d < 0 THEN 0 - d ELSE d
               /\ GroupAgrees(Gguf, t, module, r, g) => d = 0
  <1>1. PICK rr \in 0..Census[t].rows - 1 : rr = RowOrder(t)[r]
    BY OrdersArePairs
  <1>2. PICK gg \in 0..Census[t].groups - 1 : gg = ColumnOrder(t)[g]
    BY OrdersArePairs
  <1>3. <<r, rr>> \in RowPairs(t) /\ <<g, gg>> \in GroupPairs(t)
    BY <1>1, <1>2, OrdersArePairs DEF Pairs
  <1> DEFINE block == Gguf[t][rr, gg]
             scale == module.scales[r, g]
             bias == module.biases[r, g]
             code == module.codes[r, g * BLOCK_SIZE + w]
             source == DecodeQ2(block)[w]
  <1>4. block.scale # NaN /\ scale # NaN /\ bias # NaN
    BY <1>3, Zenon DEF FiniteTensor
  <1>5. block.scale \in Int /\ scale \in Int /\ bias \in Int
    BY <1>4 DEF HoldsNumbers
  <1>6. code \in Int
    BY DEF HoldsNumbers
  <1>7. source \in Int
    <2>1. \A i \in 0..BLOCK_SIZE \div 4 - 1 : block.quants[i] \in Byte
      BY DEF HoldsNumbers
    <2> QED
      BY <2>1, CodesAreNumbers
  <1> DEFINE d == (source - 1) * block.scale - (code * scale + bias)
  <1>8. SourceBlock(Gguf, t, r, g) = block
    BY <1>1, <1>2 DEF SourceBlock
  <1>9. WeightGap(Gguf, t, module, r, g, w) = IF d < 0 THEN 0 - d ELSE d
    BY <1>4, <1>8 DEF WeightGap
  <1>10. GroupAgrees(Gguf, t, module, r, g) => source = code /\ block.scale = scale /\ bias = 0 - scale
    BY <1>4, <1>8 DEF GroupAgrees
  <1>11. Difference(t, module, r, RowOrder(t)[r], g, ColumnOrder(t)[g], w) = d
    BY <1>1, <1>2 DEF Difference
  <1>12. /\ d \in Int
         /\ source = code /\ block.scale = scale /\ bias = 0 - scale => d = 0
    <2>1. \A c, b \in Int : (c - 1) * b - (c * b + (0 - b)) = 0
      BY Z3
    <2>2. \A c, b, e, f, h \in Int : (c - 1) * b - (e * f + h) \in Int
      BY Z3
    <2> HIDE DEF block, scale, bias, code, source
    <2> QED
      BY <1>5, <1>6, <1>7, <2>1, <2>2
  <1> QED
    BY <1>9, <1>10, <1>11, <1>12

\* Within the bound in every chunk, the weights are within it everywhere.
LEMMA WithinIsClose ==
    ASSUME NEW t \in DOMAIN Census, NEW module, HoldsNumbers(t, module), FiniteTensor(t, module),
           Within(Gguf, t, module)
    PROVE  CloseTensor(t, module)
  <1> DEFINE rows == Census[t].rows
             groups == Census[t].groups
             d(r, g, w) == Difference(t, module, r, RowOrder(t)[r], g, ColumnOrder(t)[g], w)
             gap(r, g, w) == WeightGap(Gguf, t, module, r, g, w)
  <1>1. \A r \in 0..rows - 1, g \in 0..groups - 1, w \in Weights :
            /\ d(r, g, w) \in Int
            /\ gap(r, g, w) = IF d(r, g, w) < 0 THEN 0 - d(r, g, w) ELSE d(r, g, w)
            /\ GroupAgrees(Gguf, t, module, r, g) => d(r, g, w) = 0
    BY DifferenceOf
  <1>2. MAX_WEIGHT_DIFFERENCE \in Nat /\ NaN \notin Nat
    BY CensusAssumption, ContentsAssumption
  <1>3. ASSUME NEW r \in 0..rows - 1, NEW g \in 0..groups - 1, NEW w \in Weights
        PROVE  d(r, g, w) \in (0 - MAX_WEIGHT_DIFFERENCE)..MAX_WEIGHT_DIFFERENCE
    <2>1. CASE RowAgrees(Gguf, t, module, r)
      <3>1. d(r, g, w) = 0
        BY <1>1, <2>1 DEF RowAgrees
      <3> QED
        BY <1>2, <3>1
    <2>2. CASE ~RowAgrees(Gguf, t, module, r)
      <3>1. PICK i \in DOMAIN RowChunks(t) : r \in InChunk(RowChunks(t)[i])
        BY ChunksCover
      <3> DEFINE chunk == RowChunks(t)[i]
                 bad == BadRows(Gguf, t, module, chunk)
                 gaps == Gaps(Gguf, t, module, bad)
      <3>2. r \in bad /\ bad \in SUBSET (0..rows - 1)
        BY <2>2, <3>1, ChunksCover DEF BadRows, InChunk
      <3>3. ChunkGap(Gguf, t, module, chunk) = IF NaN \in gaps THEN 0 ELSE Max(gaps \cup {0})
        BY DEF ChunkGap
      <3>4. ChunkGap(Gguf, t, module, chunk) <= MAX_WEIGHT_DIFFERENCE
        BY DEF Within
      <3> HIDE DEF bad
      <3>5. gaps = {gap(x, y, z) : x \in bad, y \in 0..groups - 1, z \in Weights}
        BY DEF Gaps
      <3>6. IsFiniteSet(gaps)
        BY <3>2, GapsFinite
      <3> HIDE DEF gap, d, gaps, groups, rows
      <3>7. gaps \subseteq Nat
        <4>1. \A x \in bad, y \in 0..groups - 1, z \in Weights : gap(x, y, z) \in Nat
          BY <1>1, <3>2
        <4> QED
          BY <3>5, <4>1
      <3>8. gap(r, g, w) \in gaps
        BY <3>2, <3>5
      <3>9. PICK all : all = gaps \cup {0} /\ IsFiniteSet(all)
        <4>1. IsFiniteSet({0})
          BY FS_Singleton
        <4>2. IsFiniteSet(gaps \cup {0})
          BY <3>6, <4>1, FS_Union
        <4> QED
          BY <4>2
      <3>10. all \subseteq Nat /\ gap(r, g, w) \in all
        BY <3>7, <3>8, <3>9
      <3>11. PICK top \in Nat : top = Max(all) /\ gap(r, g, w) <= top
        BY <3>9, <3>10, MaxOfFinite
      <3>12. gap(r, g, w) <= MAX_WEIGHT_DIFFERENCE /\ gap(r, g, w) \in Nat
        <4>1. NaN \notin gaps
          BY <1>2, <3>7
        <4>2. top <= MAX_WEIGHT_DIFFERENCE
          BY <3>3, <3>4, <3>9, <3>11, <4>1
        <4>3. gap(r, g, w) \in Nat
          BY <3>10
        <4> QED
          BY <1>2, <3>11, <4>2, <4>3
      <3> QED
        BY <1>1, <1>2, <3>12
    <2> QED
      BY <2>1, <2>2
  <1>4. CloseTensor(t, module)
            <=> \A r \in RowPairs(t), g \in GroupPairs(t) : \A w \in Weights :
                    Difference(t, module, r[1], r[2], g[1], g[2], w)
                        \in (0 - MAX_WEIGHT_DIFFERENCE)..MAX_WEIGHT_DIFFERENCE
    BY DEF CloseTensor, Difference
  <1>5. \A r \in RowPairs(t) : r[1] \in 0..rows - 1 /\ r[2] = RowOrder(t)[r[1]]
    BY OrdersArePairs DEF Pairs
  <1>6. \A g \in GroupPairs(t) : g[1] \in 0..groups - 1 /\ g[2] = ColumnOrder(t)[g[1]]
    BY OrdersArePairs DEF Pairs
  <1> QED
    BY <1>3, <1>4, <1>5, <1>6

\* What was checked is a checkpoint, with the verdict on it.
CheckedInv ==
    \/ checked = NotChecked
    \/ \E checkpoint \in Checkpoints :
          checked = [checkpoint |-> checkpoint, verdict |-> Verdict(Gguf, checkpoint)]

\* The verdict on any checkpoint that can be read.
LEMMA VerdictSound ==
    ASSUME NEW checkpoint \in Checkpoints, Readable(Gguf, checkpoint)
    PROVE  LET verdict == Verdict(Gguf, checkpoint)
               module(t) == checkpoint[ModuleOf[t]]
           IN  /\ verdict.identical <=> \A t \in Quantised : SameTensor(t, module(t))
               /\ verdict.plain <=> \A t \in Plain : SamePlain(t, module(t))
               /\ verdict.pass =>
                   \A t \in Quantised : FiniteTensor(t, module(t)) => CloseTensor(t, module(t))
  <1> DEFINE module(t) == checkpoint[ModuleOf[t]]
             verdict == Verdict(Gguf, checkpoint)
  <1>1. Quantised \subseteq DOMAIN Census /\ Plain \subseteq DOMAIN Census
    BY DEF Quantised, Plain
  <1>2. \A t \in DOMAIN Census : ModuleOf[t] \in DOMAIN checkpoint
    BY DEF Readable, MapAccepted
  <1>3. \A t \in Quantised : HoldsNumbers(t, module(t))
    BY <1>1, <1>2, ContentsAssumption
  <1>4. /\ verdict.identical <=> \A t \in Quantised : Agrees(Gguf, t, module(t))
        /\ verdict.plain <=> \A t \in Plain : PlainAgrees(Gguf, t, module(t))
        /\ verdict.pass => \A t \in Quantised : Within(Gguf, t, module(t))
    BY DEF Verdict
  <1> HIDE DEF verdict, module
  <1>5. \A t \in Quantised : Agrees(Gguf, t, module(t)) <=> SameTensor(t, module(t))
    BY <1>1, AgreesIsSame
  <1>6. \A t \in Plain : PlainAgrees(Gguf, t, module(t)) <=> SamePlain(t, module(t))
    BY <1>1, PlainIsSame
  <1>7. ASSUME verdict.pass, NEW t \in Quantised, FiniteTensor(t, module(t))
        PROVE  CloseTensor(t, module(t))
    BY <1>1, <1>3, <1>4, <1>7, WithinIsClose
  <1>8. /\ verdict.identical <=> \A t \in Quantised : SameTensor(t, module(t))
        /\ verdict.plain <=> \A t \in Plain : SamePlain(t, module(t))
        /\ verdict.pass =>
            \A t \in Quantised : FiniteTensor(t, module(t)) => CloseTensor(t, module(t))
    BY <1>4, <1>5, <1>6, <1>7
  <1> QED
    BY <1>8 DEF verdict, module

\* Whatever the two files hold, whatever the chunk size: the crosscheck calls the comparison
\* identical exactly when every code, scale and bias stands where the other program reads it
\* for the same value head, and a pass bounds the difference of every weight.
THEOREM Crosschecked == CheckSpec => []CrosscheckSound
  <1>1. CheckInit => CheckedInv
    BY DEF CheckInit, CheckedInv
  <1>2. CheckedInv /\ [Check]_checked => CheckedInv'
    BY DEF CheckedInv, Check
  <1>3. CheckedInv => CrosscheckSound
    <2> SUFFICES ASSUME CheckedInv, checked # NotChecked, ~checked.verdict.raised
                 PROVE  CrosscheckSound
      BY DEF CrosscheckSound
    <2>1. PICK checkpoint \in Checkpoints :
              checked = [checkpoint |-> checkpoint, verdict |-> Verdict(Gguf, checkpoint)]
      BY DEF CheckedInv
    <2>2. checked.checkpoint = checkpoint /\ checked.verdict = Verdict(Gguf, checkpoint)
      BY <2>1
    <2>3. Readable(Gguf, checkpoint)
      BY <2>2 DEF Verdict
    <2> QED
      BY <2>2, <2>3, VerdictSound DEF CrosscheckSound
  <1> QED
    BY <1>1, <1>2, <1>3, PTL DEF CheckSpec
=============================================================================
