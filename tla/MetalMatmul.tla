----------------------------- MODULE MetalMatmul -----------------------------
(* The Metal matmul kernels at work: the LUT23 kernel with its split of K and    *)
(* the six forms of the GEMM (kernels.py). A dispatch is a grid of threadgroups, *)
(* a threadgroup is a set of threads that meet at barriers and share one         *)
(* allocation.                                                                   *)
(*                                                                               *)
(* Threadgroups share nothing but the output, where no address is written twice  *)
(* (OneWriter), so they run one after the other here, in any order. A simdgroup  *)
(* of the GEMM acts as one thread: its threads run the matrix units together.    *)
EXTENDS MetalConfig, FiniteSets

CONSTANTS Shapes, Batches, Configs, None,
    Garbage     \* what is read where nobody wrote what is expected

VARIABLES
    call,       \* the call, [layout, batch, config], or None
    left,       \* the threadgroups of its dispatch that have not started
    at,         \* the threadgroup that runs, its place in the grid
    pc,         \* by thread: the piece of the kernel that is next
    step,       \* by thread: the K step that is next
    strip,      \* by thread: the strip of the epilogue that is next
    acc,        \* by thread: the K steps that its accumulators hold, in order
    stage,      \* by thread: what it last put into its share of the allocation
    trits,      \* by thread: whether its share of the trit table is there
    out,        \* the stores to the output buffer
    answer      \* what the caller gets, or None

vars == <<call, left, at, pc, step, strip, acc, stage, trits, out, answer>>

Abstract == INSTANCE Matmul WITH call <- call, answer <- answer

\* Sizes are positive, options are on or off; None is no call, no threadgroup and no
\* answer.
ASSUME MetalAssumption ==
    /\ Shapes \subseteq (Nat \ {0}) \X (Nat \ {0}) /\ Batches \subseteq Nat \ {0}
    /\ \A c \in Configs :
          \/ /\ c.kernel = "lut"
             /\ {c.threads, c.batch_tile, c.k_split} \subseteq Nat \ {0}
          \/ /\ c.kernel = "gemm"
             /\ {c.batch_block, c.row_block, c.simd_rows, c.simd_columns, c.k_chunks}
                   \subseteq Nat \ {0}
             /\ {c.direct_fragments, c.direct_epilogue, c.threadgroup_table} \subseteq BOOLEAN
    /\ None \notin Abstract!Calls /\ None \notin [x : Nat, y : Nat, z : Nat]
    /\ \A c \in Abstract!Calls : Abstract!Exact(c) # None

----------------------------------------------------------------------------
Layout == call.layout
Config == call.config
Lut == Config.kernel = "lut"
Lanes == 0..(IF Lut THEN Config.threads ELSE Config.simd_rows * Config.simd_columns) - 1

\* A barriered loop stages a step in the allocation, a direct form in registers.
Staged == Lut \/ ~Config.direct_fragments
Table == ~Lut /\ Config.threadgroup_table
Strips == IF Lut \/ Config.direct_epilogue THEN 0
          ELSE Config.batch_block \div (Config.simd_rows * MATRIX_TILE)

\* The K steps of threadgroup g are FirstStep(g) .. LastStep(g) - 1.
GroupsPerChunk == CeilDiv(Layout.groups, Config.k_split)
FirstStep(g) == IF Lut THEN g.z * GroupsPerChunk ELSE 0
LastStep(g) == IF Lut THEN Least(Layout.groups, FirstStep(g) + GroupsPerChunk)
               ELSE Layout.groups * Config.k_chunks

Epilogue(i) ==
    IF Strips = 0 THEN IF i = 0 THEN "write" ELSE "done"
    ELSE IF i < Strips THEN "strip_guard" ELSE "done"

\* Mutant: nothing guards the reads of one step against the fill of the next.
LoopUnguarded(g, s) ==
    IF s < LastStep(g) THEN IF Staged THEN "fill" ELSE "read" ELSE Epilogue(0)

Loop(g, s) ==
    IF s < LastStep(g) THEN IF Staged THEN "guard" ELSE "read" ELSE Epilogue(0)

Barriers == {"table_sync", "guard", "filled", "strip_guard", "stored"}

Decoded(s) == [what |-> "step", number |-> s, steps |-> <<>>]
Strip(i, steps) == [what |-> "strip", number |-> i, steps |-> steps]
Nothing == [what |-> "nothing", number |-> 0, steps |-> <<>>]

Idle == \A t \in Lanes : pc[t] = "done"

----------------------------------------------------------------------------
Init ==
    /\ call = None /\ answer = None /\ at = None
    /\ left = {} /\ out = {}
    /\ pc = <<>> /\ step = <<>> /\ strip = <<>> /\ acc = <<>> /\ stage = <<>> /\ trits = <<>>

\* tq1_matmul, tq1_gemm: the checks passed, the grid is dispatched.
Call(c) ==
    /\ call # None => answer # None
    /\ call' = c
    /\ answer' = None
    /\ left' = Grid(c.layout, c.batch, c.config)
    /\ at' = None
    /\ out' = {}
    /\ pc' = [t \in Lanes' |-> "done"]
    /\ step' = [t \in Lanes' |-> 0]
    /\ strip' = step'
    /\ acc' = [t \in Lanes' |-> <<>>]
    /\ stage' = [t \in Lanes' |-> Nothing]
    /\ trits' = [t \in Lanes' |-> FALSE]

\* Mutant: a thread that has no row or no sample leaves at once.
BeginEarlyExit(g) ==
    /\ g \in left /\ Idle
    /\ left' = left \ {g}
    /\ at' = g
    /\ pc' = [t \in Lanes |->
                IF Lut /\ t >= Layout.tile THEN "done"
                ELSE IF Table THEN "table" ELSE Loop(g, FirstStep(g))]
    /\ step' = [t \in Lanes |-> FirstStep(g)]
    /\ strip' = [t \in Lanes |-> 0]
    /\ acc' = [t \in Lanes |-> <<>>]
    /\ stage' = [t \in Lanes |-> Nothing]
    /\ trits' = [t \in Lanes |-> FALSE]
    /\ UNCHANGED <<call, out, answer>>

\* A threadgroup starts, with nothing in its memory.
Begin(g) ==
    /\ g \in left /\ Idle
    /\ left' = left \ {g}
    /\ at' = g
    /\ pc' = [t \in Lanes |-> IF Table THEN "table" ELSE Loop(g, FirstStep(g))]
    /\ step' = [t \in Lanes |-> FirstStep(g)]
    /\ strip' = [t \in Lanes |-> 0]
    /\ acc' = [t \in Lanes |-> <<>>]
    /\ stage' = [t \in Lanes |-> Nothing]
    /\ trits' = [t \in Lanes |-> FALSE]
    /\ UNCHANGED <<call, out, answer>>

FillTable(t) ==
    /\ pc[t] = "table"
    /\ trits' = [trits EXCEPT ![t] = TRUE]
    /\ pc' = [pc EXCEPT ![t] = "table_sync"]
    /\ UNCHANGED <<call, left, at, step, strip, acc, stage, out, answer>>

\* A thread builds its entries of the tables, or decodes its weights of the tile.
Fill(t) ==
    /\ pc[t] = "fill"
    /\ stage' = [stage EXCEPT ![t] = Decoded(step[t])]
    /\ pc' = [pc EXCEPT ![t] = "filled"]
    /\ UNCHANGED <<call, left, at, step, strip, acc, trits, out, answer>>

\* What a thread adds up comes from what all threads staged.
Settled(t) ==
    /\ Staged => \A u \in Lanes : stage[u] = Decoded(step[t])
    /\ Table => \A u \in Lanes : trits[u]

Read(t) ==
    /\ pc[t] = "read"
    /\ acc' = [acc EXCEPT ![t] = Append(@, IF Settled(t) THEN step[t] ELSE Garbage)]
    /\ step' = [step EXCEPT ![t] = @ + 1]
    /\ pc' = [pc EXCEPT ![t] = Loop(at, step[t] + 1)]
    /\ UNCHANGED <<call, left, at, strip, stage, trits, out, answer>>

\* A barrier lets the threads through when all have arrived at it.
Barrier ==
    /\ \E b \in Barriers :
        /\ \A t \in Lanes : pc[t] = b
        /\ pc' = [t \in Lanes |->
                    CASE b = "table_sync" -> Loop(at, step[t])
                      [] b = "guard" -> "fill"
                      [] b = "filled" -> "read"
                      [] b = "strip_guard" -> "store"
                      [] b = "stored" -> "write"]
    /\ UNCHANGED <<call, left, at, step, strip, acc, stage, trits, out, answer>>

\* The accumulators of a strip go into the allocation that held the tiles.
Store(t) ==
    /\ pc[t] = "store"
    /\ stage' = [stage EXCEPT ![t] = Strip(strip[t], acc[t])]
    /\ pc' = [pc EXCEPT ![t] = "stored"]
    /\ UNCHANGED <<call, left, at, step, strip, acc, trits, out, answer>>

----------------------------------------------------------------------------
\* The output of a dispatch: [split][sample][row].
Addr(z, m, n) == (z * call.batch + m) * Layout.rows + n
Addresses == 0..Splits(Config) * call.batch * Layout.rows - 1

\* A threadgroup of the GEMM reads its rows from the tile that its first one is in.
Element(m, n, steps) ==
    [sample |-> m,
     row |-> IF Lut \/ n \div Layout.tile = (at.x * Config.row_block) \div Layout.tile
             THEN n ELSE Garbage,
     steps |-> steps]

\* Mutant: a sample past the end is not discarded.
LutStoresUnbounded(t) ==
    {[at |-> Addr(at.z, m, at.x * Layout.tile + r),
      value |-> Element(m, at.x * Layout.tile + r, acc[t])] :
        m \in at.y * Config.batch_tile..(at.y + 1) * Config.batch_tile - 1,
        r \in {r \in 0..Layout.tile - 1 : r % Config.threads = t}}

\* A thread has the rows of the tile that are its own modulo the threads, for
\* every sample of the batch tile.
LutStores(t) ==
    {[at |-> Addr(at.z, m, at.x * Layout.tile + r),
      value |-> Element(m, at.x * Layout.tile + r, acc[t])] :
        m \in {s \in 0..call.batch - 1 : s \div Config.batch_tile = at.y},
        r \in {r \in 0..Layout.tile - 1 : r % Config.threads = t}}

\* The bounds are compiled out where the blocks divide the rows and the batch.
InBounds(m, n) ==
    /\ call.batch % Config.batch_block = 0 \/ m < call.batch
    /\ Layout.rows % Config.row_block = 0 \/ n < Layout.rows

\* The part of the output block that simdgroup t multiplies.
RowsPerSimd == Config.row_block \div Config.simd_columns
SamplesPerSimd == Config.batch_block \div Config.simd_rows
OwnSamples(t) ==
    LET first == at.y * Config.batch_block + (t \div Config.simd_columns) * SamplesPerSimd
    IN  first..first + SamplesPerSimd - 1
OwnRows(t) ==
    LET first == at.x * Config.row_block + (t % Config.simd_columns) * RowsPerSimd
    IN  first..first + RowsPerSimd - 1

DirectStores(t) ==
    {[at |-> Addr(0, e[1], e[2]), value |-> Element(e[1], e[2], acc[t])] :
        e \in {e \in OwnSamples(t) \X OwnRows(t) : InBounds(e[1], e[2])}}

\* The cells of strip i that the threads of simdgroup t write back: the place of a
\* cell in the output, and the simdgroup whose accumulators are in it.
StripCells(t, i) ==
    LET Cell(idx) ==
            LET flat == idx \div Config.row_block
                n == idx % Config.row_block
                sgm == flat \div MATRIX_TILE
            IN  [m |-> at.y * Config.batch_block + sgm * SamplesPerSimd
                            + i * MATRIX_TILE + (flat % MATRIX_TILE),
                 n |-> at.x * Config.row_block + n,
                 from |-> sgm * Config.simd_columns + n \div RowsPerSimd]
        Mine == {idx \in 0..Config.simd_rows * MATRIX_TILE * Config.row_block - 1 :
                    (idx \div SIMD_WIDTH) % Cardinality(Lanes) = t}
    IN  {c \in {Cell(idx) : idx \in Mine} : InBounds(c.m, c.n)}

Stored(u, i) ==
    IF stage[u] = Strip(i, stage[u].steps) THEN stage[u].steps ELSE <<Garbage>>

StripStores(t, i) ==
    {[at |-> Addr(0, c.m, c.n), value |-> Element(c.m, c.n, Stored(c.from, i))] :
        c \in StripCells(t, i)}

Stores(t) ==
    IF Lut THEN LutStores(t)
    ELSE IF Config.direct_epilogue THEN DirectStores(t) ELSE StripStores(t, strip[t])

Write(t) ==
    /\ pc[t] = "write"
    /\ out' = out \union Stores(t)
    /\ strip' = [strip EXCEPT ![t] = @ + 1]
    /\ pc' = [pc EXCEPT ![t] = Epilogue(strip[t] + 1)]
    /\ UNCHANGED <<call, left, at, step, acc, stage, trits, answer>>

\* The dispatch is over; the parts of a split are summed in the order of K.
ValueAt(a) ==
    IF \E s \in out : s.at = a THEN (CHOOSE s \in out : s.at = a).value ELSE Garbage

Answer ==
    /\ answer = None /\ left = {} /\ Idle
    /\ answer' = [e \in (0..call.batch - 1) \X (0..Layout.rows - 1) |->
                    [i \in 1..Splits(Config) |-> ValueAt(Addr(i - 1, e[1], e[2]))]]
    /\ UNCHANGED <<call, left, at, pc, step, strip, acc, stage, trits, out>>

Step(t) == FillTable(t) \/ Fill(t) \/ Read(t) \/ Store(t) \/ Write(t)

Run ==
    /\ call # None
    /\ (\E g \in left : Begin(g)) \/ (\E t \in Lanes : Step(t)) \/ Barrier \/ Answer

Next == (\E c \in Abstract!Calls : Call(c)) \/ Run

\* The GPU completes what it was given.
Spec == Init /\ [][Next]_vars /\ WF_vars(Run)

----------------------------------------------------------------------------
\* The allocation is shared by all threads, by every K step and by the epilogue: a
\* thread that reads it finds there what all threads put there for this very step
\* or strip, and never what a faster thread put there for the next (the barriers
\* of the group loop, of the table fill and of the staged epilogue).
StageRaceFree ==
    call # None => \A t \in Lanes :
        /\ pc[t] = "read" => Settled(t)
        /\ pc[t] = "write" /\ Strips > 0 =>
                \A u \in Lanes : stage[u].what = "strip" /\ stage[u].number = strip[t]

\* A barrier that a thread can skip is undefined in Metal: the threads that wait
\* wait at one barrier, of one step and one strip, and no thread is through while
\* another waits, though threads have no row, no sample or no weight of their own.
BarrierUniform ==
    call # None => \A t, u \in Lanes : pc[t] \in Barriers =>
        /\ pc[u] # "done"
        /\ pc[u] \in Barriers => pc[u] = pc[t] /\ step[u] = step[t] /\ strip[u] = strip[t]

\* No thread stores outside the output, or at an address another store went to,
\* also where the batch or the rows leave a block short.
OneWriter ==
    call # None => \A t \in Lanes : pc[t] = "write" =>
        \A s \in Stores(t) : s.at \in Addresses /\ \A o \in out : o.at # s.at

\* Every kernel, in every form, computes what packed_matmul promises: the whole row
\* against the very sample, summed in an order that does not vary between runs.
ImplementsMatmul == Abstract!Spec

\* No dispatch hangs at its barriers.
Answered == call # None ~> answer # None
=============================================================================
