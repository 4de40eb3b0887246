----------------------------- MODULE Candidates -----------------------------
(* The configurations that the benchmarks measure: what a sweep may run, and how   *)
(* its candidates relate to the rule that ships (bench_in_situ.py,                 *)
(* bench_split_k.py).                                                              *)
EXTENDS DispatchRule, FiniteSets

\* bench_split_k: no swept split has a larger grid.
MAX_THREADGROUPS == 2560

\* The thresholds against the rungs that are swept: a rung of a ladder is within a
\* step of each batch it ships at, below the GEMM's batch only the shallowest block of
\* the sweep fills, and a split that ships is among those that are swept.
ASSUME CandidatesAssumption ==
    /\ GEMM_MIN_BATCH \in 8..16 /\ GEMM_LARGE_MIN_BATCH >= 16
    /\ SPLIT_K_THREADGROUPS <= MAX_THREADGROUPS

\* A tiling of the sweep; k_chunks is 128 / k_block.
Rung(batch_block, row_block, k_chunks, simd_rows, simd_columns, fragments, epilogue, table) ==
    [kernel |-> "gemm", batch_block |-> batch_block, row_block |-> row_block,
     k_chunks |-> k_chunks, simd_rows |-> simd_rows, simd_columns |-> simd_columns,
     direct_fragments |-> fragments, direct_epilogue |-> epilogue,
     threadgroup_table |-> table]

LADDER ==
    <<Rung(8, 32, 4, 1, 2, TRUE, TRUE, TRUE), Rung(8, 128, 2, 1, 4, FALSE, FALSE, FALSE),
      Rung(8, 256, 4, 1, 8, FALSE, FALSE, FALSE), Rung(16, 32, 4, 2, 2, TRUE, TRUE, TRUE),
      Rung(16, 128, 2, 2, 4, FALSE, FALSE, FALSE), Rung(32, 32, 4, 1, 2, TRUE, TRUE, TRUE),
      Rung(32, 64, 4, 1, 2, TRUE, TRUE, TRUE), Rung(32, 128, 4, 1, 4, TRUE, FALSE, FALSE),
      Rung(64, 64, 4, 2, 2, TRUE, FALSE, FALSE), Rung(64, 128, 4, 2, 4, TRUE, FALSE, FALSE),
      Rung(128, 32, 4, 4, 2, TRUE, TRUE, FALSE), Rung(128, 128, 4, 4, 4, TRUE, FALSE, FALSE),
      Rung(128, 256, 4, 4, 8, TRUE, TRUE, FALSE)>>

\* The key a candidate is recorded under: coarser than the configuration.
BlockName(c) == IF c.kernel = "gemm" THEN <<c.batch_block, c.row_block>> ELSE <<"lut23">>

Fits(l, c) == Tiles(l) = 1 \/ l.tile % c.row_block = 0

\* One step past the batch stays in: there lies the boundary of the ladders.
Relevant(b, c) == c.batch_block <= 2 * b

\* keep-one: every legal tiling, LUT23 last.
LadderCandidates(l, b) ==
    Sift(LADDER, {c \in ToSet(LADDER) : Relevant(b, c) /\ Fits(l, c)})
        \o <<SelectLut23(l, b)>>

\* Mutant: a bucket at every batch, also where the ladders have one.
EveryBucketBlocks(b) ==
    LET blocks == {c.batch_block : c \in {d \in ToSet(LADDER) : d.batch_block <= b}}
    IN  {m \in blocks : \A n \in blocks : n <= m}

\* The deepest batch block of the sweep that a batch below the GEMM's can fill.
BucketBlocks(b) ==
    LET blocks == {c.batch_block : c \in {d \in ToSet(LADDER) : d.batch_block <= b}}
    IN  IF b >= GEMM_MIN_BATCH THEN {} ELSE {m \in blocks : \A n \in blocks : n <= m}

\* whole-pass: what the rule chooses between. The ladder is picked by batch, without
\* the GEMM's floor on the batch, and below it the bucket's rungs go in front.
DecisionRungs(b) ==
    Sift(LADDER, {c \in ToSet(LADDER) : c.batch_block \in BucketBlocks(b)})
        \o Ladder(b)

DecisionCandidates(l, b) ==
    Sift(DecisionRungs(b), {c \in ToSet(DecisionRungs(b)) : Fits(l, c)})
        \o <<SelectLut23(l, b)>>

\* The threadgroups of a dispatch, whichever kernel it is.
DispatchThreadgroups(l, b, c) ==
    IF c.kernel = "gemm" THEN Threadgroups(l, b, c)
    ELSE Tiles(l) * CeilDiv(b, c.batch_tile) * c.k_split

\* The shapes that a bucket keyed on occupancy moves onto c.
BucketMembers(census, b, c, least) ==
    Sift(census, {s \in ToSet(census) :
        Fits(s.layout, c) /\ DispatchThreadgroups(s.layout, b, c) >= least})

\* bench_split_k: the splits that are swept. One is always among them.
LegalSplits(groups, tgs) ==
    {k \in 1..groups : groups % k = 0 /\ (k = 1 \/ tgs * k <= MAX_THREADGROUPS)}

----------------------------------------------------------------------------
Once(c, options) == Cardinality({i \in DOMAIN options : options[i] = c}) = 1

Distinct(options) ==
    \A i, j \in DOMAIN options : BlockName(options[i]) = BlockName(options[j]) => i = j

\* Every sweep measures what ships, once, under a name of its own, and measures
\* nothing that the kernel refuses: otherwise a delta would have no reference, or two
\* candidates would be recorded as one. The sweep of splits includes the split that
\* the rule takes.
SweepsWhatShips(l, b) ==
    LET base == SelectLut23Tile(l, b)
    IN  /\ \A options \in {LadderCandidates(l, b), DecisionCandidates(l, b)} :
              /\ Once(Select(l, b), options)
              /\ Distinct(options)
              /\ \A c \in ToSet(options) : Accepts(l, c)
        /\ SelectLut23(l, b).k_split
              \in LegalSplits(l.groups, Tiles(l) * CeilDiv(b, base.batch_tile))
=============================================================================
