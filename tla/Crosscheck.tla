----------------------------- MODULE Crosscheck -----------------------------
(***************************************************************************)
(* crosscheck.py: do a GGUF and an mlx-lm checkpoint hold the same         *)
(* weights?  Both are functions from tensor names to contents; a tensor of *)
(* the GGUF is a matrix of Q2_0 blocks, one of the checkpoint has codes by *)
(* row and column and scales and biases by row and group.  A plain tensor  *)
(* is a value a row in both.                                               *)
(* Scales, biases and values are integers or NaN, which stands for every   *)
(* FP16 value that is not finite; no scale is zero.                        *)
(***************************************************************************)
EXTENDS Tq1Codec, HeadOrder, Integers, Sequences, FiniteSets, FiniteSetsExt

CONSTANTS
    Census,                 \* GGUF name -> [layer, rows, groups, quantised, axis, unit, logged]
    ModuleOf,               \* GGUF name -> name in the checkpoint
    WEIGHTS_PER_CHUNK,      \* --weights-per-chunk
    MAX_WEIGHT_DIFFERENCE,  \* --max-weight-difference
    NaN,
    NegativeZero,           \* -0.0, next to 0
    LogNegate,              \* value -> log(-value), the transform of ssm_a
    Gguf,                   \* the GGUF: name -> contents
    Checkpoints             \* the checkpoints it is compared with: name -> contents

Quantised == {t \in DOMAIN Census : Census[t].quantised}
ColumnsOf(t) == Census[t].groups * BLOCK_SIZE

\* An axis that is reordered has room for the value heads, and one that is packed in groups
\* has whole groups for each; anything else is refused (HeadLayout._order, row_chunks).
ASSUME CensusAssumption ==
    /\ WEIGHTS_PER_CHUNK \in Nat \ {0} /\ MAX_WEIGHT_DIFFERENCE \in Nat
    /\ \A t \in DOMAIN Census :
          /\ Census[t].rows \in Nat \ {0} /\ Census[t].groups \in Nat \ {0}
          /\ Census[t].axis = "rows" => Census[t].rows >= BlockLength(Census[t].unit)
          /\ Census[t].axis = "columns" =>
                /\ VALUE_HEAD_DIM % BLOCK_SIZE = 0
                /\ Census[t].groups >= VALUE_HEADS * (VALUE_HEAD_DIM \div BLOCK_SIZE)

\* What the arrays of either file can hold.
HoldsNumbers(t, module) ==
    \A r \in 0..Census[t].rows - 1 : \A g \in 0..Census[t].groups - 1 :
        /\ {Gguf[t][r, g].scale, module.scales[r, g], module.biases[r, g]} \subseteq Int \cup {NaN}
        /\ \A i \in 0..BLOCK_SIZE \div 4 - 1 : Gguf[t][r, g].quants[i] \in Byte
        /\ \A w \in Weights : module.codes[r, g * BLOCK_SIZE + w] \in Int

ASSUME ContentsAssumption ==
    /\ NaN \notin Int
    /\ \A checkpoint \in Checkpoints : \A t \in Quantised :
          ModuleOf[t] \in DOMAIN checkpoint => HoldsNumbers(t, checkpoint[ModuleOf[t]])

\* Where the reordered part of the rows begins; everything is split before it, nothing after.
Boundary(t) ==
    IF Census[t].axis = "rows" THEN Census[t].rows - BlockLength(Census[t].unit)
    ELSE Census[t].rows

\* Mutant: what does not fill a chunk is left out.
WholeChunks(t) ==
    LET step == Max({1, WEIGHTS_PER_CHUNK \div ColumnsOf(t)})
        before == Boundary(t) \div step
    IN  [i \in 1..before |-> [begin |-> (i - 1) * step, end |-> i * step]]
        \o (IF Boundary(t) < Census[t].rows
            THEN <<[begin |-> Boundary(t), end |-> Census[t].rows]>> ELSE << >>)

RowChunks(t) ==
    LET step == Max({1, WEIGHTS_PER_CHUNK \div ColumnsOf(t)})
        before == (Boundary(t) + step - 1) \div step
    IN  [i \in 1..before |-> [begin |-> (i - 1) * step, end |-> Min({i * step, Boundary(t)})]]
        \o (IF Boundary(t) < Census[t].rows
            THEN <<[begin |-> Boundary(t), end |-> Census[t].rows]>> ELSE << >>)

RowOrder(t) ==
    IF Census[t].axis = "rows" THEN SourceOrder(Census[t].rows, Census[t].unit)
    ELSE [r \in 0..Census[t].rows - 1 |-> r]

\* The reduction axis is reordered in whole groups.
ColumnOrder(t) ==
    IF Census[t].axis = "columns" THEN GroupSourceOrder(Census[t].groups, BLOCK_SIZE)
    ELSE [g \in 0..Census[t].groups - 1 |-> g]

\* A chunk whose rows come from outside it cannot be compared: the check is given up.
SelfContained(t) ==
    \A i \in DOMAIN RowChunks(t) :
        LET chunk == RowChunks(t)[i]
        IN  \A r \in chunk.begin..chunk.end - 1 : RowOrder(t)[r] \in chunk.begin..chunk.end - 1

SourceBlock(gguf, t, r, g) == gguf[t][RowOrder(t)[r], ColumnOrder(t)[g]]

\* A group agrees when codes and scales are equal and the bias is the scale negated.
GroupAgrees(gguf, t, module, r, g) ==
    LET block == SourceBlock(gguf, t, r, g)
        codes == DecodeQ2(block)
    IN  /\ \A w \in Weights : codes[w] = module.codes[r, g * BLOCK_SIZE + w]
        /\ block.scale = module.scales[r, g]
        /\ module.biases[r, g] = IF module.scales[r, g] = NaN THEN NaN ELSE 0 - module.scales[r, g]

RowAgrees(gguf, t, module, r) ==
    \A g \in 0..Census[t].groups - 1 : GroupAgrees(gguf, t, module, r, g)

BadRows(gguf, t, module, chunk) ==
    {r \in chunk.begin..chunk.end - 1 : ~RowAgrees(gguf, t, module, r)}

\* (code - 1) * scale against code * scale + bias.
WeightGap(gguf, t, module, r, g, w) ==
    LET block == SourceBlock(gguf, t, r, g)
        scale == module.scales[r, g]
        bias == module.biases[r, g]
        gap == (DecodeQ2(block)[w] - 1) * block.scale
               - (module.codes[r, g * BLOCK_SIZE + w] * scale + bias)
    IN  IF NaN \in {block.scale, scale, bias} THEN NaN ELSE IF gap < 0 THEN 0 - gap ELSE gap

Gaps(gguf, t, module, rows) ==
    {WeightGap(gguf, t, module, r, g, w) : r \in rows, g \in 0..Census[t].groups - 1, w \in Weights}

\* numpy's maximum is NaN when one of the values is; Python's max(a, NaN) is a. So a chunk
\* with a weight that is not finite adds nothing to the largest gap.
ChunkGap(gguf, t, module, chunk) ==
    LET gaps == Gaps(gguf, t, module, BadRows(gguf, t, module, chunk))
    IN  IF NaN \in gaps THEN 0 ELSE Max(gaps \cup {0})

Agrees(gguf, t, module) ==
    \A i \in DOMAIN RowChunks(t) : BadRows(gguf, t, module, RowChunks(t)[i]) = {}

Within(gguf, t, module) ==
    \A i \in DOMAIN RowChunks(t) :
        ChunkGap(gguf, t, module, RowChunks(t)[i]) <= MAX_WEIGHT_DIFFERENCE

\* The tensors of a layer that counts and shapes do not tell apart.
Rivals(t) ==
    {u \in Quantised \ {t} :
        /\ Census[u].layer = Census[t].layer
        /\ Census[u].rows = Census[t].rows
        /\ Census[u].groups = Census[t].groups}

\* mlx-lm stores ssm_a as its logarithm; what is not finite then ends the check.
PlainValue(gguf, t, r) ==
    LET value == gguf[t][RowOrder(t)[r]] IN IF Census[t].logged THEN LogNegate[value] ELSE value

Plain == DOMAIN Census \ Quantised

PlainReadable(gguf, t, module) ==
    \A r \in 0..Census[t].rows - 1 : NaN \notin {PlainValue(gguf, t, r), module[r]}

\* Equal, or zeros of different sign.
PlainAgrees(gguf, t, module) ==
    \A r \in 0..Census[t].rows - 1 :
        \/ PlainValue(gguf, t, r) = module[r]
        \/ {PlainValue(gguf, t, r), module[r]} = {0, NegativeZero}

\* A name map that sends two tensors to one name, or to names the checkpoint lacks.
MapAccepted(checkpoint) ==
    /\ \A t, u \in DOMAIN Census : ModuleOf[t] = ModuleOf[u] => t = u
    /\ {ModuleOf[t] : t \in DOMAIN Census} = DOMAIN checkpoint

Readable(gguf, checkpoint) ==
    /\ MapAccepted(checkpoint)
    /\ \A t \in Quantised : SelfContained(t)
    /\ \A t \in Plain : PlainReadable(gguf, t, checkpoint[ModuleOf[t]])

Verdict(gguf, checkpoint) ==
    LET identical == \A t \in Quantised : Agrees(gguf, t, checkpoint[ModuleOf[t]])
        within == \A t \in Quantised : Within(gguf, t, checkpoint[ModuleOf[t]])
        plain == \A t \in Plain : PlainAgrees(gguf, t, checkpoint[ModuleOf[t]])
        telling == \A t \in Quantised : \A u \in Rivals(t) :
                       ~Agrees(gguf, t, checkpoint[ModuleOf[u]])
    IN  IF Readable(gguf, checkpoint)
        THEN [raised |-> FALSE, identical |-> identical, plain |-> plain,
              pass |-> within /\ plain /\ telling]
        ELSE [raised |-> TRUE, identical |-> FALSE, plain |-> FALSE, pass |-> FALSE]

----------------------------------------------------------------------------

VARIABLE checked    \* the comparison that was made: [checkpoint, verdict]

NotChecked == [unchecked |-> TRUE]

CheckInit == checked = NotChecked

Check ==
    /\ checked = NotChecked
    /\ \E checkpoint \in Checkpoints :
        checked' = [checkpoint |-> checkpoint, verdict |-> Verdict(Gguf, checkpoint)]

CheckSpec == CheckInit /\ [][Check]_checked

----------------------------------------------------------------------------
(* The property. It knows nothing of orders or chunks, only where either program keeps  *)
(* the value head of key head k that is its repeat n.                                   *)

\* A pair of places of the same weights: of a row of the checkpoint, and of the GGUF.
PlacePairs(length, slots) ==
    LET first == length - VALUE_HEADS * slots
    IN  {<<i, i>> : i \in 0..first - 1}
        \cup {<<first + (k * Repeat + n) * slots + o, first + (n * KEY_HEADS + k) * slots + o>> :
                k \in 0..KEY_HEADS - 1, n \in 0..Repeat - 1, o \in 0..slots - 1}

Straight(length) == {<<i, i>> : i \in 0..length - 1}

RowPairs(t) ==
    IF Census[t].axis = "rows"
    THEN PlacePairs(Census[t].rows, IF Census[t].unit = "head" THEN 1 ELSE VALUE_HEAD_DIM)
    ELSE Straight(Census[t].rows)

GroupPairs(t) ==
    IF Census[t].axis = "columns"
    THEN PlacePairs(Census[t].groups, VALUE_HEAD_DIM \div BLOCK_SIZE)
    ELSE Straight(Census[t].groups)

SameTensor(t, module) ==
    \A r \in RowPairs(t), g \in GroupPairs(t) :
        LET block == Gguf[t][r[2], g[2]]
            scale == module.scales[r[1], g[1]]
            codes == DecodeQ2(block)
        IN  /\ \A w \in Weights : codes[w] = module.codes[r[1], g[1] * BLOCK_SIZE + w]
            /\ block.scale = scale
            /\ module.biases[r[1], g[1]] = IF scale = NaN THEN NaN ELSE 0 - scale

\* Every weight of the tensor is finite on both sides, and within the bound.
CloseTensor(t, module) ==
    \A r \in RowPairs(t), g \in GroupPairs(t) :
        LET block == Gguf[t][r[2], g[2]]
            scale == module.scales[r[1], g[1]]
            bias == module.biases[r[1], g[1]]
            codes == DecodeQ2(block)
        IN  \A w \in Weights :
                (codes[w] - 1) * block.scale
                    - (module.codes[r[1], g[1] * BLOCK_SIZE + w] * scale + bias)
                \in (0 - MAX_WEIGHT_DIFFERENCE)..MAX_WEIGHT_DIFFERENCE

FiniteTensor(t, module) ==
    \A r \in RowPairs(t), g \in GroupPairs(t) :
        NaN \notin {Gguf[t][r[2], g[2]].scale, module.scales[r[1], g[1]], module.biases[r[1], g[1]]}

SamePlain(t, module) ==
    \A r \in RowPairs(t) :
        LET value == IF Census[t].logged THEN LogNegate[Gguf[t][r[2]]] ELSE Gguf[t][r[2]]
        IN  value = module[r[1]] \/ {value, module[r[1]]} = {0, NegativeZero}

\* The comparison is called identical exactly when it is: every code, scale and bias of
\* the checkpoint is that of the value head both programs mean, through every chunk, and a
\* pass means that no weight is further off than the bound, as long as all are finite.
CrosscheckSound ==
    checked # NotChecked /\ ~checked.verdict.raised =>
        LET checkpoint == checked.checkpoint
            verdict == checked.verdict
            module(t) == checkpoint[ModuleOf[t]]
        IN  /\ verdict.identical <=> \A t \in Quantised : SameTensor(t, module(t))
            /\ verdict.plain <=> \A t \in Plain : SamePlain(t, module(t))
            /\ verdict.pass =>
                \A t \in Quantised : FiniteTensor(t, module(t)) => CloseTensor(t, module(t))
=============================================================================
