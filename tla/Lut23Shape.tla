------------------------------ MODULE Lut23Shape ------------------------------
(***************************************************************************)
(* Geometry and exact values of a LUT23 matrix-vector product              *)
(* (cuda/tq1_lut23_streamk.cu): how a row of groups is cut into chunks,    *)
(* and in which order its terms are added.                                 *)
(*                                                                         *)
(* Float addition does not associate, so the value of a row is the ORDER   *)
(* of the additions.  <<n, g>> stands for scale * group_sum of group g     *)
(* against the activation of launch n; a partial sum is the sequence of    *)
(* such terms that fmaf folded, and a row is the sequence of partial sums  *)
(* that the reduction folded.                                              *)
(***************************************************************************)
EXTENDS Integers, Sequences

CONSTANTS
  Rows,             \* output rows of the tensor
  Groups,           \* 128-weight groups of a row (columns / TQ1_BLOCK_SIZE)
  GroupsPerChunk,   \* the admissible K chunks, in groups (the code's 4, 8, 16)
  MaxLaunches       \* bound on the launches of a behaviour

ASSUME RowsAssumption == Rows \in Nat \ {0}
ASSUME GroupsAssumption == Groups \in Nat \ {0}
ASSUME ChunkAssumption == GroupsPerChunk \subseteq (Nat \ {0})
ASSUME LaunchAssumption == MaxLaunches \in Nat

RowIds == 0..Rows-1
Unset == << >>

\* Chunks of a row: the ceiling of Groups / k.
ChunksOf(k) == (Groups + k - 1) \div k

\* One past the last group of chunk c: min(first_group + k, groups).
FinalGroup(k, c) == IF (c + 1) * k <= Groups THEN (c + 1) * k ELSE Groups

\* The partial sum of chunk c (counted from 0): its groups in increasing order.
ExactPartial(n, k, c) ==
  [i \in 1..(FinalGroup(k, c) - c * k) |-> <<n, c * k + i - 1>>]

\* The value of every row: the partial sums in chunk order.
ExactRow(n, k) == [c \in 1..ChunksOf(k) |-> ExactPartial(n, k, c - 1)]

=============================================================================
