---------------------------- MODULE MetalConfig ----------------------------
(* The packed layout of a tensor, the configurations of the Metal kernels and *)
(* what the host checks before it dispatches one (layout.py, kernels.py).     *)
EXTENDS Integers, Sequences

CONSTANTS
    PREFERRED_TILE, \* rows of a tile, where it divides the rows (256)
    MATRIX_TILE,    \* edge of the matrices that the matrix units multiply (8)
    SIMD_WIDTH      \* threads of a simdgroup (32)

ASSUME ConfigAssumption == {PREFERRED_TILE, MATRIX_TILE, SIMD_WIDTH} \subseteq Nat \ {0}

CeilDiv(a, b) == (a + b - 1) \div b
Least(a, b) == IF a <= b THEN a ELSE b

\* No row is ever padded: a tile of the preferred size, or one tile of all rows.
SelectTile(rows) == IF rows % PREFERRED_TILE = 0 THEN PREFERRED_TILE ELSE rows

LayoutOf(rows, groups) ==
    [rows |-> rows, groups |-> groups, tile |-> SelectTile(rows)]

Tiles(layout) == layout.rows \div layout.tile

----------------------------------------------------------------------------
\* A MatmulConfig has kernel "lut", a GemmConfig has kernel "gemm". The size of the
\* threadgroup memory, the padding of the tables and safe_clamp are left out;
\* k_chunks is 128 / k_block.

Threads(config) ==
    IF config.kernel = "lut" THEN config.threads
    ELSE config.simd_rows * config.simd_columns * SIMD_WIDTH

\* GemmConfig.__post_init__
WellFormed(config) ==
    config.kernel = "gemm" =>
        /\ config.threadgroup_table => config.direct_fragments
        /\ config.batch_block % (config.simd_rows * MATRIX_TILE) = 0
        /\ config.row_block % (config.simd_columns * MATRIX_TILE) = 0
        /\ ~config.direct_fragments =>
               Threads(config) % Least(Threads(config), config.row_block) = 0

\* Mutant: a row block may straddle two tiles.
AcceptsStraddling(layout, config) ==
    /\ WellFormed(config)
    /\ config.kernel = "lut" => layout.groups % config.k_split = 0

\* The checks of tq1_matmul and of tq1_gemm: a split divides the groups of a row,
\* and a row block never straddles two tiles.
Accepts(layout, config) ==
    /\ WellFormed(config)
    /\ config.kernel = "lut" => layout.groups % config.k_split = 0
    /\ config.kernel = "gemm" /\ Tiles(layout) > 1 => layout.tile % config.row_block = 0

Splits(config) == IF config.kernel = "lut" THEN config.k_split ELSE 1

\* The threadgroups of a dispatch: x over the rows, y over the batch, z over K.
Grid(layout, batch, config) ==
    IF config.kernel = "lut"
    THEN [x : 0..Tiles(layout) - 1, y : 0..CeilDiv(batch, config.batch_tile) - 1,
          z : 0..config.k_split - 1]
    ELSE [x : 0..CeilDiv(layout.rows, config.row_block) - 1,
          y : 0..CeilDiv(batch, config.batch_block) - 1, z : {0}]
=============================================================================
