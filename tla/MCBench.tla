------------------------------ MODULE MCBench ------------------------------
(* Three shapes of the model, with fewer layers; two other processes.             *)
EXTENDS Benchmarks

\* One tick in 24: one is too much of a short window, two of a long one.
MCShare == [part |-> 1, of |-> 24]

\* One shape that is always one tile, and two of several tiles with rows and columns
\* that the rule treats differently.
MCCensus ==
    <<[label |-> "in_proj_a", layout |-> LayoutOf(48, 40), count |-> 2],
      [label |-> "q_proj", layout |-> LayoutOf(12288, 40), count |-> 1],
      [label |-> "down_proj", layout |-> LayoutOf(5120, 136), count |-> 1]>>

\* As the census says; a layer too few; as many in all, but another shape's.
MCModels == {<<2, 1, 1>>, <<2, 1, 0>>, <<1, 2, 1>>}

\* Below the batch where the matrix units take over, and from it on.
MCBatches == <<8, 16>>

MCArm == Rung(8, 32, 4, 1, 2, TRUE, TRUE, TRUE)

\* A configuration of each kernel, and the same tiling in another form.
MCVariants == <<LUT23_BATCHED, MCArm, [MCArm EXCEPT !.threadgroup_table = FALSE]>>

\* A batch that the tiling's batch block divides, and one that it does not.
MCCases == <<[layout |-> LayoutOf(12288, 40), batch |-> 8],
             [layout |-> LayoutOf(12288, 40), batch |-> 12]>>
=============================================================================
