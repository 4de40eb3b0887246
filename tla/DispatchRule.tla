---------------------------- MODULE DispatchRule ----------------------------
(* Which kernel, in which configuration, runs a product (modules.py): by the     *)
(* rows of the tensor, its groups and the number of activation rows.             *)
EXTENDS MetalConfig, Lists, SequencesExt

CONSTANTS
    SPLIT_K_THREADGROUPS,   \* the grid a split is to reach (800)
    GPU_CORES,              \* 40
    GEMM_MIN_WAVES,         \* passes over the cores for the GEMM to run (2)
    GEMM_WIDE_BLOCK_WAVES,  \* and for a wide row block (3)
    GEMM_MIN_BATCH,         \* 16
    GEMM_LARGE_MIN_BATCH,   \* 32
    LUT23_MAX_BATCH_TILE    \* 4

ASSUME RuleAssumption ==
    {SPLIT_K_THREADGROUPS, GPU_CORES, GEMM_MIN_WAVES, GEMM_WIDE_BLOCK_WAVES,
     GEMM_MIN_BATCH, GEMM_LARGE_MIN_BATCH, LUT23_MAX_BATCH_TILE} \subseteq Nat \ {0}

----------------------------------------------------------------------------
\* The configurations. k_chunks is 128 / k_block.
LUT23_THREADS == 256

Lut23(batch_tile, padded_lut) ==
    [kernel |-> "lut", threads |-> LUT23_THREADS, batch_tile |-> batch_tile,
     padded_lut |-> padded_lut, k_split |-> 1]

LUT23_SINGLE == Lut23(1, TRUE)
LUT23_PAIR == Lut23(2, FALSE)
LUT23_BATCHED == Lut23(4, FALSE)

Gemm(batch_block, row_block, k_chunks, simd_rows, simd_columns, registers) ==
    [kernel |-> "gemm", batch_block |-> batch_block, row_block |-> row_block,
     k_chunks |-> k_chunks, simd_rows |-> simd_rows, simd_columns |-> simd_columns,
     direct_fragments |-> registers, direct_epilogue |-> registers,
     threadgroup_table |-> registers]

\* The ladders, widest row block first: the order in which they are walked.
GEMM_LADDER_SMALL_BATCH == <<Gemm(16, 128, 2, 2, 4, FALSE), Gemm(16, 32, 4, 2, 2, TRUE)>>
GEMM_LADDER_LARGE_BATCH == <<Gemm(32, 64, 4, 1, 2, TRUE), Gemm(32, 32, 4, 1, 2, TRUE)>>

----------------------------------------------------------------------------
\* The threadgroups that a tiling of the GEMM offers.
Threadgroups(l, b, c) == CeilDiv(l.rows, c.row_block) * CeilDiv(b, c.batch_block)

Ladder(b) == IF b >= GEMM_LARGE_MIN_BATCH THEN GEMM_LADDER_LARGE_BATCH
             ELSE GEMM_LADDER_SMALL_BATCH

\* A row block divides the tile, unless there is one tile.
LegalRungs(l, b) ==
    Sift(Ladder(b), {c \in ToSet(Ladder(b)) : Tiles(l) = 1 \/ l.tile % c.row_block = 0})

\* The GEMM runs where its narrowest tiling fills the machine.
UsesGemm(l, b) ==
    LET legal == LegalRungs(l, b)
    IN  /\ b >= GEMM_MIN_BATCH
        /\ legal # <<>>
        /\ Threadgroups(l, b, Last(legal)) >= GEMM_MIN_WAVES * GPU_CORES

\* The first legal rung that offers enough waves, or the last one.
SelectGemm(l, b) ==
    LET legal == LegalRungs(l, b)
        full == Sift(legal, {c \in ToSet(legal) :
                    Threadgroups(l, b, c) >= GEMM_WIDE_BLOCK_WAVES * GPU_CORES})
    IN  IF full = <<>> THEN Last(legal) ELSE Head(full)

SelectLut23Tile(l, b) ==
    IF l.tile < LUT23_THREADS \/ b < 2 THEN LUT23_SINGLE
    ELSE IF b < LUT23_MAX_BATCH_TILE THEN LUT23_PAIR ELSE LUT23_BATCHED

Budget(groups, tgs) ==
    LET share == Least(SPLIT_K_THREADGROUPS \div tgs, groups)
    IN  IF share >= 1 THEN share ELSE 1

\* Mutant: the budget itself, whether it divides or not.
RaggedSplit(groups, tgs) == Budget(groups, tgs)

\* The largest divisor of the groups within the budget.
LargestSplit(groups, tgs) ==
    CHOOSE s \in 1..Budget(groups, tgs) :
        /\ groups % s = 0
        /\ \A r \in 1..Budget(groups, tgs) : groups % r = 0 => r <= s

\* Mutant: the split is computed from the row tiles alone.
SelectLut23ByRows(l, b) ==
    [SelectLut23Tile(l, b) EXCEPT !.k_split = LargestSplit(l.groups, Tiles(l))]

SelectLut23(l, b) ==
    LET base == SelectLut23Tile(l, b)
    IN  [base EXCEPT !.k_split =
            LargestSplit(l.groups, Tiles(l) * CeilDiv(b, base.batch_tile))]

Select(l, b) == IF UsesGemm(l, b) THEN SelectGemm(l, b) ELSE SelectLut23(l, b)
=============================================================================
