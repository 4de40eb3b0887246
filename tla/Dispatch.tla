------------------------------ MODULE Dispatch ------------------------------
(* A layer of the model (modules.py) that is called with more and more activation *)
(* rows, one at a time: what the choice of a kernel does from one batch to the    *)
(* next is as much of a question as whether the kernel accepts it.                *)
EXTENDS Candidates

CONSTANTS
    Layouts,                \* the layouts of the tensors
    MAX_BATCH               \* bound: the largest number of activation rows

ASSUME DispatchAssumption == MAX_BATCH \in Nat \ {0}

ASSUME LayoutsAssumption ==
    \A l \in Layouts :
        l.rows \in Nat \ {0} /\ l.groups \in Nat \ {0} /\ l = LayoutOf(l.rows, l.groups)

VARIABLES
    layout,     \* the layout of the layer's tensor
    batch,      \* the activation rows of the last call
    config      \* the configuration it was dispatched with

vars == <<layout, batch, config>>

----------------------------------------------------------------------------
Init == layout \in Layouts /\ batch = 1 /\ config = Select(layout, 1)

Call ==
    /\ batch < MAX_BATCH
    /\ batch' = batch + 1
    /\ config' = Select(layout, batch')
    /\ UNCHANGED layout

Spec == Init /\ [][Call]_vars

----------------------------------------------------------------------------
\* No layer's product is refused: whatever the tensor and the batch, the kernel
\* that select_gemm or select_lut23 chooses accepts the layout (a split that
\* divides the groups, a row block that straddles no tiles).
DispatchAccepted == Accepts(layout, config)

\* No separate bound on the partial sums of a split is needed (modules.py:310): the
\* ceiling on the grid bounds them by a constant number of tiles, at every batch.
PartialSumsBounded ==
    config.kernel = "lut" /\ config.k_split > 1 =>
        config.k_split * batch * layout.rows
            <= SPLIT_K_THREADGROUPS * layout.tile * config.batch_tile

\* Every sweep of bench_in_situ.py and bench_split_k.py measures what the layer is
\* dispatched with, at every batch.
ShippedIsMeasured == SweepsWhatShips(layout, batch)
=============================================================================
