----------------------------- MODULE HeadOrder -----------------------------
(***************************************************************************)
(* naming.py: which value head of the GGUF fills which place of the mlx-lm *)
(* checkpoint.  llama.cpp walks the repeats and then the key heads, mlx-lm *)
(* the key heads and then the repeats.                                     *)
(***************************************************************************)
EXTENDS Naturals

CONSTANTS
    KEY_HEADS, VALUE_HEADS, VALUE_HEAD_DIM   \* HeadLayout, from the checkpoint's config

ASSUME HeadLayoutAssumption ==
    /\ KEY_HEADS \in Nat \ {0} /\ VALUE_HEADS \in Nat \ {0} /\ VALUE_HEAD_DIM \in Nat \ {0}
    /\ VALUE_HEADS % KEY_HEADS = 0

Heads == 0..VALUE_HEADS - 1
Repeat == VALUE_HEADS \div KEY_HEADS

\* Mutant: the same mapping in the other direction.
GgufPlace == [h \in Heads |-> (h % KEY_HEADS) * Repeat + (h \div KEY_HEADS)]

\* Indexed by the place in mlx-lm: the head of the GGUF that belongs there.
HeadOrder == [j \in Heads |-> (j % Repeat) * KEY_HEADS + (j \div Repeat)]

SlotsPerHead(unit) == IF unit = "head" THEN 1 ELSE VALUE_HEAD_DIM

BlockLength(unit) == VALUE_HEADS * SlotsPerHead(unit)

\* An axis of whole slots, of which the last ones are the value heads; the slots before
\* them belong to the queries and keys, and stay.
OrderOf(length, per_head) ==
    LET first == length - VALUE_HEADS * per_head
        head(i) == (i - first) \div per_head
    IN  [i \in 0..length - 1 |->
            IF i < first THEN i
            ELSE first + HeadOrder[head(i)] * per_head + ((i - first) % per_head)]

SourceOrder(length, unit) == OrderOf(length, SlotsPerHead(unit))

\* The same in groups of weights, which a packed row can be reordered in only when a
\* head is a whole number of them.
GroupSourceOrder(length, group_size) ==
    OrderOf(length, VALUE_HEAD_DIM \div group_size)
=============================================================================
