------------------------------ MODULE Tq1Codec ------------------------------
(***************************************************************************)
(* The blocks of format.py.  A Q2_0 block is a scale and two bits a        *)
(* weight, a TQ1_G128 block the same scale and five weights a byte, the    *)
(* last three in a tail byte.  The kernels never decode: they split a byte *)
(* and look both halves up (tq1_lut23_streamk.cu, reference.py).           *)
(* A scale is two bytes that nothing interprets: a value of its own.       *)
(***************************************************************************)
EXTENDS Naturals

CONSTANT FULL_CODE_SLOTS    \* bytes of five weights in a block (25)

\* Q2_0 packs four weights a byte, so the weights of a block must fill its bytes.
ASSUME SlotsAssumption ==
    FULL_CODE_SLOTS \in Nat /\ (5 * FULL_CODE_SLOTS + 3) % 4 = 0

BLOCK_SIZE == 5 * FULL_CODE_SLOTS + 3
CODE_SLOTS == FULL_CODE_SLOTS + 1
BLOCK_BYTES == CODE_SLOTS + 2
SOURCE_BLOCK_BYTES == BLOCK_SIZE \div 4 + 2

Slots == 0..FULL_CODE_SLOTS
Weights == 0..BLOCK_SIZE - 1
Byte == 0..255
Trit == 0..2

\* POWERS5; POWERS3 is its beginning.
Power == [i \in 0..4 |-> <<1, 3, 9, 27, 81>>[i + 1]]

MaxCode(slot) == IF slot = FULL_CODE_SLOTS THEN 26 ELSE 242

\* The four values that two bits can take, of which the third power has no meaning.
DecodeQ2(block) ==
    [w \in Weights |-> (block.quants[w \div 4] \div <<1, 4, 16, 64>>[(w % 4) + 1]) % 4]

Ternary(codes) == \A w \in Weights : codes[w] \in Trit

\* Five digits in base 3, the first the least; cut to a byte as astype(uint8) does.
Digits5(d0, d1, d2, d3, d4) == (d0 + 3 * d1 + 9 * d2 + 27 * d3 + 81 * d4) % 256

EncodeSlot(codes, slot) ==
    LET d(i) == codes[5 * slot + i]
    IN  IF slot = FULL_CODE_SLOTS THEN Digits5(d(0), d(1), d(2), 0, 0)
        ELSE Digits5(d(0), d(1), d(2), d(3), d(4))

\* Mutant: the tail starts one weight early.
EncodeOverlapping(scale, codes) ==
    [scale |-> scale,
     code |-> [s \in Slots |->
         IF s = FULL_CODE_SLOTS
         THEN Digits5(codes[5 * s - 1], codes[5 * s], codes[5 * s + 1], 0, 0)
         ELSE EncodeSlot(codes, s)]]

EncodeTq1(scale, codes) ==
    [scale |-> scale, code |-> [s \in Slots |-> EncodeSlot(codes, s)]]

DecodeTq1(block) ==
    [w \in Weights |-> (block.code[w \div 5] \div Power[w % 5]) % 3]

\* What decode_tq1_blocks checks first: a byte beyond the range decodes as well as any
\* other (243 to the same weights as 0), but a kernel would look it up past its tables.
Legal(block) == \A s \in Slots : block.code[s] <= MaxCode(s)

----------------------------------------------------------------------------
(* The split of a byte into an index of nine entries and one of twenty-seven. *)

High(p) == (p * 57) \div 512
Low(p) == p - 9 * High(p)

\* The digit of weight i that the table entries of a byte stand for: an entry's index
\* is its own digits.
LutDigit(p, i) ==
    IF i < 2 THEN (Low(p) \div Power[i]) % 3 ELSE (High(p) \div Power[i - 2]) % 3

\* The weights of a block as the kernel reads them; only a legal block stays in the tables.
LutWeights(block) ==
    [w \in Weights |->
        IF w \div 5 = FULL_CODE_SLOTS THEN (block.code[w \div 5] \div Power[w % 5]) % 3
        ELSE LutDigit(block.code[w \div 5], w % 5)]
=============================================================================
