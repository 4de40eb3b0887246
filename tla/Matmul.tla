------------------------------- MODULE Matmul -------------------------------
(* What packed_matmul promises its caller (modules.py): every call is answered  *)
(* with x @ W.T, every element of it the whole row of the weight against the    *)
(* very sample, summed in an order that the configuration alone determines.     *)
(*                                                                              *)
(* Float addition does not associate: an element is the sequence of the partial *)
(* sums that are added up at the end, and a partial sum is the row, the sample  *)
(* and the sequence of the K steps that went into it.                           *)
EXTENDS MetalConfig

CONSTANTS
    Shapes,     \* rows and 128-weight groups of the tensors
    Batches,    \* numbers of activation rows
    Configs,    \* configurations of the kernels
    None

VARIABLES
    call,       \* the last call, [layout, batch, config], or None
    answer      \* its answer, or None

Calls ==
    {c \in [layout : {LayoutOf(s[1], s[2]) : s \in Shapes}, batch : Batches, config : Configs] :
        Accepts(c.layout, c.config)}

\* The K steps of a row: its groups, or the pieces of them that are staged at once.
KSteps(c) == IF c.config.kernel = "lut" THEN c.layout.groups
             ELSE c.layout.groups * c.config.k_chunks

\* A split cuts the steps into pieces of one length.
Piece(c, i) ==
    LET size == KSteps(c) \div Splits(c.config)
    IN  [n \in 1..size |-> (i - 1) * size + n - 1]

Exact(c) ==
    [e \in (0..c.batch - 1) \X (0..c.layout.rows - 1) |->
        [i \in 1..Splits(c.config) |->
            [sample |-> e[1], row |-> e[2], steps |-> Piece(c, i)]]]

Init == call = None /\ answer = None

Call(c) ==
    /\ call # None => answer # None
    /\ call' = c
    /\ answer' = None

Answer ==
    /\ call # None /\ answer = None
    /\ answer' = Exact(call)
    /\ UNCHANGED call

Next == (\E c \in Calls : Call(c)) \/ Answer

Spec == Init /\ [][Next]_<<call, answer>>
=============================================================================
