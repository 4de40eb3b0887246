---------------------------- MODULE Lut23Layout ----------------------------
(***************************************************************************)
(* lut23_reorder.py: where a tensor's codes and scales lie in the          *)
(* reordered sidecar, and the permutation that puts one code slot of a     *)
(* tile of rows side by side.  A tensor is a matrix of blocks, indexed by  *)
(* row and group.                                                          *)
(***************************************************************************)
EXTENDS Tq1Codec

CONSTANTS
    ALIGNMENT,      \* 256
    HEADER_BYTES    \* 256

ASSUME AlignmentAssumption == ALIGNMENT \in Nat \ {0} /\ HEADER_BYTES \in Nat

Cells(rows, groups) == (0..rows - 1) \X (0..groups - 1)

\* Mutant: rounded the other way.
AlignDown(value) == (value \div ALIGNMENT) * ALIGNMENT

AlignUp(value) == ((value + ALIGNMENT - 1) \div ALIGNMENT) * ALIGNMENT

Tiles(rows, tile) == (rows + tile - 1) \div tile

TensorLayout(rows, groups, start, tile) ==
    LET padded == Tiles(rows, tile) * tile
        codes_offset == AlignUp(start)
        codes_bytes == padded * groups * CODE_SLOTS
        scales_offset == AlignUp(codes_offset + codes_bytes)
        scales_bytes == padded * groups * 2
    IN  [tiles |-> Tiles(rows, tile), groups |-> groups, rows |-> rows,
         codes_offset |-> codes_offset, codes_bytes |-> codes_bytes,
         scales_offset |-> scales_offset, scales_bytes |-> scales_bytes,
         end |-> scales_offset + scales_bytes]

\* The rows of a tile that the tensor has; the others are padding.
RowsIn(index, rows, tile) == {r \in 0..tile - 1 : index * tile + r < rows}

\* A code lies at <<tile, group, slot, row>>, a scale at <<tile, group, row>>.
CodePlaces(rows, groups, tile) ==
    (0..Tiles(rows, tile) - 1) \X (0..groups - 1) \X Slots \X (0..tile - 1)

ScalePlaces(rows, groups, tile) ==
    (0..Tiles(rows, tile) - 1) \X (0..groups - 1) \X (0..tile - 1)

\* Mutant: the last tile is filled from the row before.
ReorderShifted(blocks, rows, groups, tile) ==
    [p \in CodePlaces(rows, groups, tile) |->
        IF p[4] \in RowsIn(p[1], rows, tile)
        THEN blocks[IF p[1] > 0 THEN p[1] * tile + p[4] - 1 ELSE p[4], p[2]].code[p[3]] ELSE 0]

ReorderCodes(blocks, rows, groups, tile) ==
    [p \in CodePlaces(rows, groups, tile) |->
        IF p[4] \in RowsIn(p[1], rows, tile)
        THEN blocks[p[1] * tile + p[4], p[2]].code[p[3]] ELSE 0]

\* The padding of the scales is zero as well.
ReorderScales(blocks, rows, groups, tile, zero) ==
    [p \in ScalePlaces(rows, groups, tile) |->
        IF p[3] \in RowsIn(p[1], rows, tile)
        THEN blocks[p[1] * tile + p[3], p[2]].scale ELSE zero]

Restore(codes, scales, rows, groups, tile) ==
    [c \in Cells(rows, groups) |->
        [scale |-> scales[c[1] \div tile, c[2], c[1] % tile],
         code |-> [s \in Slots |-> codes[c[1] \div tile, c[2], s, c[1] % tile]]]]
=============================================================================
