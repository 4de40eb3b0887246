-------------------------- MODULE MetalMatmul_proofs --------------------------
(* Every form of the Metal kernels computes the product, for tensors, batches and *)
(* configurations of any size, and however the threads of a threadgroup run       *)
(* between their barriers.                                                        *)
EXTENDS MetalMatmul, Numbers, SequenceTheorems

\* The threadgroups of the call.
Blocks == Grid(Layout, call.batch, Config)

\* Where a thread can be.
Places == {"table", "table_sync", "guard", "fill", "filled", "read",
           "strip_guard", "store", "stored", "write", "done"}

\* The epilogue writes strip by strip, or everything at once.
Turns == IF Strips = 0 THEN 1 ELSE Strips

\* The steps of a threadgroup begin and end.
First == FirstStep(at)
Last == LastStep(at)

\* The types of the variables, once a call has been made.
TypeOK ==
    /\ call = None => Init
    /\ call # None =>
        /\ call \in Abstract!Calls
        /\ left \subseteq Blocks
        /\ at \in (Blocks \ left) \union {None}
        /\ pc \in [Lanes -> Places]
        /\ step \in [Lanes -> Nat] /\ strip \in [Lanes -> Nat]
        /\ DOMAIN acc = Lanes /\ DOMAIN stage = Lanes /\ DOMAIN trits = Lanes
        \* Nothing has started yet.
        /\ at = None => left = Blocks /\ Idle

\* Where a thread can be, with which step and strip.
Course(t) ==
    /\ step[t] \in First..Last
    /\ pc[t] \in {"table", "table_sync"} => Table /\ step[t] = First
    /\ pc[t] \in {"guard", "fill", "filled"} => Staged
    /\ pc[t] \in {"guard", "fill", "filled", "read"} => step[t] < Last
    /\ pc[t] \in {"table", "table_sync", "guard", "fill", "filled", "read"} => strip[t] = 0
    /\ pc[t] \in {"strip_guard", "store", "stored"} => Strips > 0
    /\ pc[t] \in {"strip_guard", "store", "stored", "write"} =>
           step[t] = Last /\ strip[t] < Turns
    /\ pc[t] = "done" => step[t] = Last /\ strip[t] = Turns

\* The tile of the step before is still in its place.
KeepsTile(t) ==
    \/ pc[t] = "guard"
    \/ pc[t] = "strip_guard" /\ strip[t] = 0
    \/ pc[t] \in {"write", "done"} /\ Strips = 0

\* What its share of the allocation holds.
Holding(t) ==
    /\ Table /\ pc[t] # "table" => trits[t]
    /\ Staged /\ pc[t] \in {"filled", "read"} => stage[t] = Decoded(step[t])
    /\ Staged /\ step[t] > First /\ KeepsTile(t) =>
           stage[t] = Decoded(step[t] - 1)
    /\ Strips > 0 /\ pc[t] \in {"stored", "write"} => stage[t] = Strip(strip[t], acc[t])
    /\ Strips > 0 /\ pc[t] \in {"strip_guard", "done"} /\ strip[t] > 0 =>
           stage[t] = Strip(strip[t] - 1, acc[t])

\* The steps from a up to b.
StepsFrom(a, b) == [n \in 1..b - a |-> a + n - 1]

\* The accumulators have the steps behind the thread, in order.
Summed(t) == acc[t] = StepsFrom(First, step[t])

\* The barriers that a thread has behind it.
Passed(t) ==
    IF pc[t] \in {"table", "table_sync"} THEN 0
    ELSE 1 + (IF Staged
              THEN 2 * (step[t] - First) + (CASE pc[t] \in {"fill", "filled"} -> 1
                                              [] pc[t] = "read" -> 2
                                              [] OTHER -> 0)
              ELSE 0)
           + (IF Strips > 0
              THEN 2 * strip[t] + (CASE pc[t] \in {"store", "stored"} -> 1
                                     [] pc[t] = "write" -> 2
                                     [] OTHER -> 0)
              ELSE 0)

\* What is known of one thread.
Thread(t) == Course(t) /\ Holding(t) /\ Summed(t)

\* All threads have passed the same number of barriers.
InStep == \A t, u \in Lanes : Passed(t) = Passed(u)

\* What is known of the threads of a threadgroup that runs.
Running == at # None => InStep /\ \A t \in Lanes : Thread(t)

----------------------------------------------------------------------------
\* A cell of the output is [split, sample, row]: which threadgroup stores it, in
\* which turn, and which of its threads.
Cells == (0..Splits(Config) - 1) \X (0..call.batch - 1) \X (0..Layout.rows - 1)

\* The threadgroup that stores a cell.
Owner(c) ==
    IF Lut THEN [x |-> c[3] \div Layout.tile, y |-> c[2] \div Config.batch_tile, z |-> c[1]]
    ELSE [x |-> c[3] \div Config.row_block, y |-> c[2] \div Config.batch_block, z |-> 0]

\* Inside the block: the row of simdgroups, and the sample within it.
SimdRow(c) == (c[2] % Config.batch_block) \div SamplesPerSimd
\* The sample of a cell, in the block of its row of simdgroups.
SampleOf(c) == (c[2] % Config.batch_block) % SamplesPerSimd

\* The strip that a cell is in.
Turn(c) == IF Strips = 0 THEN 0 ELSE SampleOf(c) \div MATRIX_TILE

\* The place of a cell in the allocation that stages its strip.
Slot(c) == (SimdRow(c) * MATRIX_TILE + (SampleOf(c) % MATRIX_TILE)) * Config.row_block
               + (c[3] % Config.row_block)

\* The thread that stores a cell.
Lane(c) ==
    IF Lut THEN (c[3] % Layout.tile) % Config.threads
    ELSE IF Config.direct_epilogue
    THEN SimdRow(c) * Config.simd_columns + (c[3] % Config.row_block) \div RowsPerSimd
    ELSE (Slot(c) \div SIMD_WIDTH) % Cardinality(Lanes)

\* What belongs into it.
Right(c) ==
    [at |-> Addr(c[1], c[2], c[3]),
     value |-> [sample |-> c[2], row |-> c[3], steps |-> Abstract!Piece(call, c[1] + 1)]]

\* Whether a cell should have been stored by now.
Written(c) ==
    at # None /\ Owner(c) \notin left /\ (Owner(c) = at => strip[Lane(c)] > Turn(c))

\* Exactly those cells are stored, with what belongs into them.
Output == call # None => out = {Right(c) : c \in {d \in Cells : Written(d)}}

\* The inductive invariant.
IInv == TypeOK /\ (call # None => Running) /\ Output

----------------------------------------------------------------------------
(* What a call that was accepted is like. *)

\* Sizes.
Positive == Nat \ {0}

\* for_tensor: a layout has tiles of one size, that make up its rows.
LEMMA CallShape ==
    ASSUME call \in Abstract!Calls
    PROVE  /\ Layout.rows \in Positive /\ Layout.groups \in Positive
           /\ Layout.tile \in Positive /\ Tiles(Layout) \in Positive
           /\ Layout.rows = Tiles(Layout) * Layout.tile
           /\ call.batch \in Positive
           /\ Config \in Configs /\ Accepts(Layout, Config)
  <1>1. PICK s \in Shapes : Layout = LayoutOf(s[1], s[2])
    BY DEF Abstract!Calls, Layout, Abstract!LayoutOf, LayoutOf, Abstract!SelectTile, SelectTile
  <1>2. s[1] \in Positive /\ s[2] \in Positive
    BY MetalAssumption DEF Positive
  <1>3. /\ Layout.rows = s[1] /\ Layout.groups = s[2]
        /\ Layout.tile = SelectTile(s[1])
    BY <1>1 DEF LayoutOf
  <1>4. SelectTile(s[1]) \in Positive /\ s[1] % SelectTile(s[1]) = 0
    <2>1. CASE s[1] % PREFERRED_TILE = 0
      BY <2>1, ConfigAssumption DEF SelectTile, Positive
    <2>2. CASE s[1] % PREFERRED_TILE # 0
      <3>1. s[1] = 1 * s[1] + 0 /\ 0 \in 0..s[1] - 1
        BY <1>2 DEF Positive
      <3>2. s[1] % s[1] = 0
        BY <1>2, <3>1, DivModUnique DEF Positive
      <3> QED
        BY <1>2, <2>2, <3>2 DEF SelectTile
    <2> QED
      BY <2>1, <2>2
  <1>5. /\ Tiles(Layout) \in Positive
        /\ Layout.rows = Tiles(Layout) * Layout.tile
    <2> DEFINE rows == s[1]
               tile == SelectTile(s[1])
    <2>1. rows \in Nat /\ rows > 0 /\ tile \in Nat \ {0} /\ rows % tile = 0
      BY <1>2, <1>4 DEF Positive
    <2>2. Tiles(Layout) = rows \div tile /\ Layout.rows = rows /\ Layout.tile = tile
      BY <1>3 DEF Tiles
    <2> HIDE DEF rows, tile
    <2>3. rows \div tile \in Nat /\ rows = (rows \div tile) * tile /\ rows \div tile > 0
      BY <2>1, Divides
    <2> QED
      BY <2>2, <2>3 DEF Positive
  <1>6. call.batch \in Positive /\ Config \in Configs
    BY MetalAssumption DEF Abstract!Calls, Config, Positive
  <1>7. Accepts(Layout, Config)
    BY DEF Abstract!Calls, Layout, Config, Abstract!Accepts, Accepts, Abstract!WellFormed, WellFormed,
           Abstract!Threads, Threads, Abstract!Least, Least, Abstract!Tiles, Tiles
  <1> QED
    BY <1>2, <1>3, <1>4, <1>5, <1>6, <1>7

\* MatmulConfig and GemmConfig: the sizes and options of a configuration.
LEMMA LutShape ==
    ASSUME call \in Abstract!Calls, Lut
    PROVE  /\ Config.threads \in Positive /\ Config.batch_tile \in Positive
           /\ Config.k_split \in Positive /\ Layout.groups % Config.k_split = 0
  BY CallShape, MetalAssumption DEF Lut, Positive, Accepts

\* The sizes of a GEMM that the host accepted.
LEMMA GemmShape ==
    ASSUME call \in Abstract!Calls, ~Lut
    PROVE  /\ Config.kernel = "gemm"
           /\ Config.batch_block \in Positive /\ Config.row_block \in Positive
           /\ Config.simd_rows \in Positive /\ Config.simd_columns \in Positive
           /\ Config.k_chunks \in Positive
           /\ Config.direct_fragments \in BOOLEAN /\ Config.direct_epilogue \in BOOLEAN
           /\ Config.threadgroup_table \in BOOLEAN
           /\ Config.threadgroup_table => Config.direct_fragments
           /\ Config.batch_block % (Config.simd_rows * MATRIX_TILE) = 0
           /\ Config.row_block % (Config.simd_columns * MATRIX_TILE) = 0
           /\ Tiles(Layout) > 1 => Layout.tile % Config.row_block = 0
  <1>1. Config \in Configs /\ Accepts(Layout, Config)
    BY CallShape
  <1>2. /\ Config.kernel = "gemm"
        /\ {Config.batch_block, Config.row_block, Config.simd_rows, Config.simd_columns,
            Config.k_chunks} \subseteq Nat \ {0}
        /\ {Config.direct_fragments, Config.direct_epilogue, Config.threadgroup_table}
              \subseteq BOOLEAN
    BY <1>1, MetalAssumption DEF Lut
  <1> QED
    BY <1>1, <1>2 DEF Accepts, WellFormed, Positive

\* How many threads a threadgroup has.
Width == IF Lut THEN Config.threads ELSE Config.simd_rows * Config.simd_columns

\* How many threads a threadgroup has.
LEMMA LaneCount ==
    ASSUME call \in Abstract!Calls
    PROVE  Lanes = 0..Width - 1 /\ Width \in Positive /\ Cardinality(Lanes) = Width
  <1>1. Width \in Positive
    <2>1. CASE Lut
      BY <2>1, LutShape DEF Width
    <2>2. CASE ~Lut
      BY <2>2, GemmShape, Z3 DEF Width, Positive
    <2> QED
      BY <2>1, <2>2
  <1>2. Lanes = 0..Width - 1
    BY DEF Lanes, Width
  <1>3. Cardinality(0..Width - 1) = Width
    <2>1. 0 <= Width - 1
      BY <1>1 DEF Positive
    <2>2. Cardinality(0..Width - 1) = (Width - 1) - 0 + 1
      BY <1>1, <2>1, FS_Interval DEF Positive
    <2> QED
      BY <1>1, <2>2 DEF Positive
  <1> QED
    BY <1>1, <1>2, <1>3

\* An epilogue in strips: every simdgroup has its samples in whole strips.
LEMMA StripShape ==
    ASSUME call \in Abstract!Calls
    PROVE  /\ Strips \in Nat /\ Turns \in Positive
           /\ Strips = 0 <=> Lut \/ Config.direct_epilogue
           /\ Strips > 0 => Turns = Strips
           /\ Strips = 0 => Turns = 1
  <1>1. CASE Lut \/ Config.direct_epilogue
    BY <1>1 DEF Strips, Turns, Positive
  <1>2. CASE ~(Lut \/ Config.direct_epilogue)
    <2>1. Strips = Config.batch_block \div (Config.simd_rows * MATRIX_TILE)
      BY <1>2 DEF Strips
    <2>2. Config.simd_rows * MATRIX_TILE \in Positive
      BY <1>2, GemmShape, ConfigAssumption, Z3 DEF Positive
    <2>3. Strips \in Positive
      BY <1>2, <2>1, <2>2, GemmShape, Divides DEF Positive
    <2> QED
      BY <1>2, <2>3 DEF Turns, Positive
  <1> QED
    BY <1>1, <1>2

\* A barriered loop has no table of its own.
LEMMA FormShape ==
    ASSUME call \in Abstract!Calls
    PROVE  Staged \in BOOLEAN /\ Table \in BOOLEAN /\ ~(Staged /\ Table)
  BY GemmShape DEF Staged, Table

\* The threadgroups of a split have the steps of K among them, piece by piece.
LEMMA PieceOfBlock ==
    ASSUME call \in Abstract!Calls, NEW g \in Blocks
    PROVE  /\ FirstStep(g) \in Nat /\ LastStep(g) \in Nat /\ FirstStep(g) < LastStep(g)
           /\ StepsFrom(FirstStep(g), LastStep(g)) = Abstract!Piece(call, g.z + 1)
  <1>1. CASE Lut
    <2> DEFINE size == Layout.groups \div Config.k_split
               k == Config.k_split
    <2>1. k \in Positive /\ size \in Positive /\ Layout.groups = size * k
      <3> DEFINE groups == Layout.groups
      <3>1. k \in Nat \ {0} /\ groups \in Nat /\ groups > 0 /\ groups % k = 0
        BY <1>1, LutShape, CallShape DEF Positive
      <3>2. size = groups \div k
        OBVIOUS
      <3> HIDE DEF k, groups, size
      <3>3. groups \div k \in Nat /\ groups = (groups \div k) * k /\ groups \div k > 0
        BY <3>1, Divides
      <3>4. k \in Positive /\ size \in Positive /\ groups = size * k
        BY <3>1, <3>2, <3>3 DEF Positive
      <3> QED
        BY <3>4 DEF groups
    <2>2. g.z \in 0..k - 1
      BY <1>1 DEF Blocks, Grid, Lut
    <2>3. GroupsPerChunk = size
      <3>1. k - 1 \in 0..k - 1
        BY <2>1 DEF Positive
      <3>2. (size * k + (k - 1)) \div k = size
        BY <2>1, <3>1, DivModUnique DEF Positive
      <3>3. size * k + (k - 1) = size * k + k - 1
        BY <2>1, Z3 DEF Positive
      <3> HIDE DEF size
      <3> QED
        BY <2>1, <3>2, <3>3 DEF GroupsPerChunk, CeilDiv
    <2> HIDE DEF size
    <2>4. FirstStep(g) = g.z * size /\ FirstStep(g) \in Nat
      BY <1>1, <2>1, <2>2, <2>3, Z3 DEF FirstStep, Positive
    <2>5. FirstStep(g) + size <= Layout.groups
      <3>1. g.z * size + size <= k * size
        BY <2>1, <2>2, NextMultiple DEF Positive
      <3>2. k * size = size * k
        BY <2>1, Z3 DEF Positive
      <3> QED
        BY <2>1, <2>4, <3>1, <3>2
    <2>6. LastStep(g) = FirstStep(g) + size
      BY <1>1, <2>1, <2>3, <2>4, <2>5, CallShape DEF LastStep, Least, Positive
    <2>7. Abstract!Piece(call, g.z + 1) = [n \in 1..size |-> g.z * size + n - 1]
      <3>1. /\ Abstract!KSteps(call) = Layout.groups
            /\ Abstract!Splits(call.config) = k
        BY <1>1 DEF Abstract!KSteps, Abstract!Splits, Lut, Layout, Config
      <3>2. Layout.groups \div k = size /\ (g.z + 1) - 1 = g.z
        BY <2>2 DEF size
      <3> HIDE DEF k
      <3> QED
        BY <3>1, <3>2 DEF Abstract!Piece
    <2>8. (FirstStep(g) + size) - FirstStep(g) = size
      BY <2>1, <2>4 DEF Positive
    <2> QED
      BY <2>1, <2>4, <2>6, <2>7, <2>8 DEF StepsFrom, Positive
  <1>2. CASE ~Lut
    <2> DEFINE size == Layout.groups * Config.k_chunks
    <2>1. size \in Positive
      BY <1>2, CallShape, GemmShape, Z3 DEF Positive
    <2>2. g.z = 0 /\ FirstStep(g) = 0 /\ LastStep(g) = size
      BY <1>2 DEF Blocks, Grid, Lut, FirstStep, LastStep
    <2>3. /\ Abstract!KSteps(call) = size
          /\ Abstract!Splits(call.config) = 1
      BY <1>2 DEF Abstract!KSteps, Abstract!Splits, Lut, Layout, Config
    <2> HIDE DEF size
    <2>4. size \div 1 = size
      BY <2>1 DEF Positive
    <2>5. Abstract!Piece(call, g.z + 1) = [n \in 1..size |-> (1 - 1) * size + n - 1]
      BY <2>2, <2>3, <2>4 DEF Abstract!Piece
    <2>6. StepsFrom(0, size) = [n \in 1..size |-> (1 - 1) * size + n - 1]
      BY <2>1 DEF StepsFrom, Positive
    <2> QED
      BY <2>1, <2>2, <2>5, <2>6 DEF Positive
  <1> QED
    BY <1>1, <1>2

----------------------------------------------------------------------------
(* Threads between barriers. *)

\* A threadgroup of a call runs.
Started == call # None /\ at # None

\* The steps of the threadgroup that runs.
LEMMA Bounds ==
    ASSUME TypeOK, Started
    PROVE  /\ call \in Abstract!Calls /\ at \in Blocks
           /\ First \in Nat /\ Last \in Nat /\ First < Last
           /\ Strips \in Nat /\ Turns \in Nat \ {0}
           /\ Strips > 0 => Turns = Strips
           /\ Strips = 0 => Turns = 1
           /\ Staged \in BOOLEAN /\ Table \in BOOLEAN /\ ~(Staged /\ Table)
  <1>1. call \in Abstract!Calls /\ at \in Blocks
    BY DEF TypeOK, Started
  <1> QED
    BY <1>1, PieceOfBlock, StripShape, FormShape DEF First, Last, Positive

\* A thread that has anything left to do belongs to a threadgroup that has started.
LEMMA BusyStarted ==
    ASSUME TypeOK, call # None, NEW t \in Lanes, pc[t] # "done"
    PROVE  Started
  BY DEF TypeOK, Started, Idle

\* A thread that reads is behind the barrier that all threads have filled for it: the
\* step of whichever thread is ahead or behind is the same.
LEMMA ReaderSeesAll ==
    ASSUME TypeOK, Started, Running, NEW t \in Lanes, pc[t] = "read"
    PROVE  Settled(t)
  <1>1. /\ First \in Nat /\ Last \in Nat /\ First < Last /\ Strips \in Nat /\ Turns \in Nat \ {0}
        /\ Strips > 0 => Turns = Strips
        /\ Strips = 0 => Turns = 1
        /\ \A u \in Lanes : pc[u] \in Places /\ step[u] \in Nat /\ strip[u] \in Nat
    BY Bounds DEF TypeOK, Started
  <1>2. \A u \in Lanes : Course(u) /\ Holding(u) /\ Passed(u) = Passed(t)
    BY DEF Started, Running, Thread, InStep
  <1>3. ASSUME Staged, NEW u \in Lanes
        PROVE  stage[u] = Decoded(step[t])
    <2>1. /\ step[t] \in Nat /\ strip[t] = 0
          /\ Passed(t) = 1 + (2 * (step[t] - First) + 2)
      BY <1>1, <1>2, <1>3 DEF Course, Passed
    <2>2. Passed(u) = 3 + 2 * (step[t] - First)
      BY <1>1, <1>2, <2>1
    <2>3. /\ pc[u] \in Places /\ step[u] \in Nat /\ strip[u] \in Nat /\ Course(u)
      BY <1>1, <1>2
    <2>4. pc[u] \notin {"table", "table_sync"}
      BY <1>1, <2>1, <2>2 DEF Passed
    <2>5. CASE pc[u] = "read"
      <3>1. step[u] = step[t]
        BY <1>1, <1>3, <2>1, <2>2, <2>3, <2>5 DEF Passed, Course
      <3> QED
        BY <1>2, <1>3, <2>5, <3>1 DEF Holding
    <2>6. CASE pc[u] \in {"fill", "filled", "store", "stored"}
      BY <1>1, <1>3, <2>1, <2>2, <2>3, <2>6 DEF Passed, Course
    <2>7. CASE pc[u] \in {"guard", "strip_guard", "write", "done"}
      <3>1. step[u] = step[t] + 1 /\ (Strips > 0 => strip[u] = 0 /\ pc[u] # "write")
        <4>1. step[u] <= Last /\ step[t] < Last /\ (pc[u] # "guard" => step[u] = Last)
          BY <1>1, <1>2, <2>3, <2>7 DEF Course
        <4>2. CASE Strips = 0
          BY <1>1, <1>3, <2>1, <2>2, <2>3, <2>7, <4>1, <4>2 DEF Passed
        <4>3. CASE Strips > 0
          <5>1. PICK w \in {0, 2} : /\ Passed(u) = 1 + (2 * (step[u] - First)) + (2 * strip[u] + w)
                                    /\ pc[u] = "write" <=> w = 2
            BY <1>1, <1>3, <2>3, <2>7, <4>3 DEF Passed
          <5>2. step[u] + strip[u] <= step[t] + 1 /\ (w = 2 => step[u] + strip[u] = step[t])
                    /\ (w = 0 => step[u] + strip[u] = step[t] + 1)
            BY <1>1, <2>1, <2>2, <2>3, <5>1
          <5>3. pc[u] = "guard" => strip[u] = 0 /\ w = 0
            BY <2>3, <5>1 DEF Course
          <5> QED
            BY <1>1, <2>1, <2>3, <4>1, <5>1, <5>2, <5>3
        <4> QED
          BY <1>1, <4>2, <4>3
      <3>2. step[u] > First /\ step[u] - 1 = step[t]
        BY <1>1, <1>2, <2>1, <3>1 DEF Course
      <3>3. KeepsTile(u)
        BY <1>1, <2>3, <2>7, <3>1 DEF KeepsTile, Course
      <3> QED
        BY <1>2, <1>3, <3>2, <3>3 DEF Holding
    <2> QED
      BY <2>3, <2>4, <2>5, <2>6, <2>7 DEF Places
  <1>4. ASSUME Table, NEW u \in Lanes
        PROVE  trits[u]
    <2>1. Passed(t) # 0
      BY <1>1, <1>2 DEF Passed, Course
    <2>2. pc[u] # "table"
      BY <1>2, <2>1 DEF Passed
    <2> QED
      BY <1>2, <1>4, <2>2 DEF Holding
  <1> QED
    BY <1>3, <1>4 DEF Settled

\* A thread that writes a strip back finds it whole, whoever is ahead or behind.
LEMMA WriterSeesAll ==
    ASSUME TypeOK, Started, Running, NEW t \in Lanes, pc[t] = "write", Strips > 0,
           NEW u \in Lanes
    PROVE  stage[u] = Strip(strip[t], acc[u]) /\ acc[u] = StepsFrom(First, Last)
  <1>1. /\ First \in Nat /\ Last \in Nat /\ First < Last /\ Strips \in Nat /\ Turns = Strips
        /\ \A v \in Lanes : pc[v] \in Places /\ step[v] \in Nat /\ strip[v] \in Nat
    BY Bounds DEF TypeOK, Started
  <1>2. \A v \in Lanes : Course(v) /\ Holding(v) /\ Summed(v) /\ Passed(v) = Passed(t)
    BY DEF Started, Running, Thread, InStep
  <1>3. step[t] = Last /\ strip[t] < Strips
    BY <1>1, <1>2 DEF Course
  <1>4. Passed(t) = IF Staged THEN 3 + 2 * (Last - First) + 2 * strip[t] ELSE 3 + 2 * strip[t]
    BY <1>1, <1>3 DEF Passed
  <1>5. pc[u] \in Places /\ step[u] \in Nat /\ strip[u] \in Nat /\ Course(u) /\ Passed(u) = Passed(t)
    BY <1>1, <1>2
  <1>6. pc[u] \notin {"table", "table_sync"}
    BY <1>1, <1>4, <1>5 DEF Passed
  <1>7. ASSUME pc[u] \in {"guard", "fill", "filled", "read"}
        PROVE  FALSE
    <2>1. strip[u] = 0 /\ First <= step[u] /\ step[u] < Last /\ 0 <= strip[t]
      BY <1>1, <1>5, <1>7 DEF Course
    <2>2. CASE Staged
      <3>1. Passed(u) <= 3 + 2 * (step[u] - First)
        BY <1>1, <1>5, <1>7, <2>1, <2>2 DEF Passed
      <3> QED
        BY <1>1, <1>4, <1>5, <2>1, <2>2, <3>1
    <2>3. CASE ~Staged
      <3>1. Passed(u) = 1
        BY <1>1, <1>5, <1>7, <2>1, <2>3 DEF Passed
      <3> QED
        BY <1>1, <1>4, <1>5, <2>1, <2>3, <3>1
    <2> QED
      BY <2>2, <2>3
  <1>8. step[u] = Last
    BY <1>5, <1>6, <1>7 DEF Places, Course
  <1>9. pc[u] \notin {"store", "stored"}
    BY <1>1, <1>3, <1>4, <1>5, <1>8 DEF Passed
  <1>10. CASE pc[u] = "write"
    <2>1. strip[u] = strip[t]
      <3>1. Passed(u) = IF Staged THEN 3 + 2 * (Last - First) + 2 * strip[u] ELSE 3 + 2 * strip[u]
        BY <1>1, <1>5, <1>8, <1>10 DEF Passed
      <3> QED
        BY <1>1, <1>4, <1>5, <3>1
    <2> QED
      BY <1>2, <1>8, <1>10, <2>1 DEF Holding, Summed
  <1>11. CASE pc[u] \in {"strip_guard", "done"}
    <2>1. strip[u] = strip[t] + 1
      BY <1>1, <1>4, <1>5, <1>8, <1>11 DEF Passed
    <2>2. strip[u] > 0 /\ strip[u] - 1 = strip[t]
      BY <1>1, <2>1
    <2> QED
      BY <1>2, <1>8, <1>11, <2>2 DEF Holding, Summed
  <1> QED
    BY <1>5, <1>6, <1>7, <1>9, <1>10, <1>11 DEF Places

----------------------------------------------------------------------------
(* Steps of one thread. *)

\* While a call runs, its shape is what it was.
LEMMA SameCall ==
    ASSUME call' = call
    PROVE  /\ Lanes' = Lanes /\ Layout' = Layout /\ Config' = Config /\ Lut' = Lut
           /\ Staged' = Staged /\ Table' = Table /\ Strips' = Strips /\ Turns' = Turns
           /\ Blocks' = Blocks /\ Cells' = Cells
           /\ \A g : FirstStep(g)' = FirstStep(g) /\ LastStep(g)' = LastStep(g)
  <1>1. Layout' = Layout /\ Config' = Config
    BY DEF Layout, Config
  <1>2. Lut' = Lut
    BY <1>1 DEF Lut
  <1>3. Lanes' = Lanes /\ Staged' = Staged /\ Table' = Table /\ Strips' = Strips
    BY <1>1, <1>2 DEF Lanes, Staged, Table, Strips
  <1>4. Turns' = Turns /\ Blocks' = Blocks /\ Cells' = Cells
    BY <1>1, <1>3 DEF Turns, Blocks, Cells
  <1>5. \A g : FirstStep(g)' = FirstStep(g) /\ LastStep(g)' = LastStep(g)
    BY <1>1, <1>2 DEF FirstStep, LastStep, GroupsPerChunk
  <1> QED
    BY <1>1, <1>2, <1>3, <1>4, <1>5

\* What is known of a thread rests on its own variables.
LEMMA Untouched ==
    ASSUME UNCHANGED <<call, at>>, NEW u,
           UNCHANGED <<pc[u], step[u], strip[u], acc[u], stage[u], trits[u]>>
    PROVE  Thread(u)' = Thread(u) /\ Passed(u)' = Passed(u)
  <1>1. /\ Staged' = Staged /\ Table' = Table /\ Strips' = Strips /\ Turns' = Turns
        /\ First' = First /\ Last' = Last
    BY SameCall DEF First, Last
  <1>2. Course(u)' = Course(u) /\ Summed(u)' = Summed(u) /\ Passed(u)' = Passed(u)
    BY <1>1 DEF Course, Summed, Passed
  <1>3. Holding(u)' = Holding(u)
    BY <1>1 DEF Holding, KeepsTile
  <1> QED
    BY <1>2, <1>3 DEF Thread

\* A step of one thread passes no barrier and leaves the other threads alone.
LEMMA OneMoves ==
    ASSUME TypeOK, Started, Running, NEW t \in Lanes, UNCHANGED <<call, left, at>>,
           pc' \in [Lanes -> Places], step' \in [Lanes -> Nat], strip' \in [Lanes -> Nat],
           DOMAIN acc' = Lanes, DOMAIN stage' = Lanes, DOMAIN trits' = Lanes,
           \A u \in Lanes \ {t} :
               UNCHANGED <<pc[u], step[u], strip[u], acc[u], stage[u], trits[u]>>,
           Thread(t)', Passed(t)' = Passed(t)
    PROVE  TypeOK' /\ Running'
  <1>1. Lanes' = Lanes /\ Blocks' = Blocks
    BY SameCall
  <1>2. TypeOK'
    BY <1>1 DEF TypeOK, Started
  <1>3. \A u \in Lanes : Thread(u)' /\ Passed(u)' = Passed(u)
    BY Untouched DEF Running, Started
  <1> QED
    BY <1>1, <1>2, <1>3 DEF Running, InStep, Started

\* A thread fills its part of the table.
LEMMA FillTableStep ==
    ASSUME TypeOK, call # None, Running, NEW t \in Lanes, FillTable(t)
    PROVE  TypeOK' /\ Running'
  <1>1. Started
    BY BusyStarted DEF FillTable
  <1>2. /\ pc[t] = "table" /\ pc'[t] = "table_sync" /\ trits'[t] = TRUE
        /\ UNCHANGED <<call, left, at, step, strip, acc, stage>>
        /\ pc' \in [Lanes -> Places] /\ DOMAIN trits' = Lanes
        /\ \A u \in Lanes \ {t} : pc'[u] = pc[u] /\ trits'[u] = trits[u]
    BY <1>1 DEF FillTable, TypeOK, Started, Places
  <1>3. Course(t) /\ Holding(t) /\ Summed(t)
    BY <1>1 DEF Running, Thread, Started
  <1>4. /\ Staged' = Staged /\ Table' = Table /\ Strips' = Strips /\ Turns' = Turns
        /\ First' = First /\ Last' = Last
    BY <1>2, SameCall DEF First, Last
  <1>5. Course(t)' /\ Summed(t)' /\ Passed(t)' = Passed(t)
    BY <1>2, <1>3, <1>4 DEF Course, Summed, Passed
  <1>6. Holding(t)'
    BY <1>2, <1>4 DEF Holding, KeepsTile
  <1> QED
    BY <1>1, <1>2, <1>5, <1>6, OneMoves DEF Thread, TypeOK, Started

\* A thread fills its part of the tile.
LEMMA FillStep ==
    ASSUME TypeOK, call # None, Running, NEW t \in Lanes, Fill(t)
    PROVE  TypeOK' /\ Running'
  <1>1. Started
    BY BusyStarted DEF Fill
  <1>2. /\ pc[t] = "fill" /\ pc'[t] = "filled" /\ stage'[t] = Decoded(step[t])
        /\ UNCHANGED <<call, left, at, step, strip, acc, trits>>
        /\ pc' \in [Lanes -> Places] /\ DOMAIN stage' = Lanes
        /\ \A u \in Lanes \ {t} : pc'[u] = pc[u] /\ stage'[u] = stage[u]
    BY <1>1 DEF Fill, TypeOK, Started, Places
  <1>3. Course(t) /\ Holding(t) /\ Summed(t)
    BY <1>1 DEF Running, Thread, Started
  <1>4. /\ Staged' = Staged /\ Table' = Table /\ Strips' = Strips /\ Turns' = Turns
        /\ First' = First /\ Last' = Last /\ Decoded(step[t])' = Decoded(step[t])
    BY <1>2, SameCall DEF First, Last, Decoded
  <1>5. Course(t)' /\ Summed(t)' /\ Passed(t)' = Passed(t)
    BY <1>2, <1>3, <1>4 DEF Course, Summed, Passed
  <1>6. Holding(t)'
    BY <1>2, <1>3, <1>4 DEF Holding, KeepsTile
  <1> QED
    BY <1>1, <1>2, <1>5, <1>6, OneMoves DEF Thread, TypeOK, Started

\* The accumulators of a strip go into the allocation.
LEMMA StoreStep ==
    ASSUME TypeOK, call # None, Running, NEW t \in Lanes, Store(t)
    PROVE  TypeOK' /\ Running'
  <1>1. Started
    BY BusyStarted DEF Store
  <1>2. /\ pc[t] = "store" /\ pc'[t] = "stored" /\ stage'[t] = Strip(strip[t], acc[t])
        /\ UNCHANGED <<call, left, at, step, strip, acc, trits>>
        /\ pc' \in [Lanes -> Places] /\ DOMAIN stage' = Lanes
        /\ \A u \in Lanes \ {t} : pc'[u] = pc[u] /\ stage'[u] = stage[u]
    BY <1>1 DEF Store, TypeOK, Started, Places
  <1>3. Course(t) /\ Holding(t) /\ Summed(t)
    BY <1>1 DEF Running, Thread, Started
  <1>4. /\ Staged' = Staged /\ Table' = Table /\ Strips' = Strips /\ Turns' = Turns
        /\ First' = First /\ Last' = Last
    BY <1>2, SameCall DEF First, Last
  <1>5. Course(t)' /\ Summed(t)' /\ Passed(t)' = Passed(t)
    BY <1>2, <1>3, <1>4 DEF Course, Summed, Passed
  <1>6. Holding(t)'
    BY <1>2, <1>3, <1>4 DEF Holding, KeepsTile, Strip
  <1> QED
    BY <1>1, <1>2, <1>5, <1>6, OneMoves DEF Thread, TypeOK, Started

\* One more step of K.
LEMMA AppendStep ==
    ASSUME NEW a \in Nat, NEW b \in Nat, a <= b
    PROVE  Append(StepsFrom(a, b), b) = StepsFrom(a, b + 1)
  <1> DEFINE n == b - a
             s == [i \in 1..n |-> a + i - 1]
  <1>1. n \in Nat /\ (b + 1) - a = n + 1 /\ a + (n + 1) - 1 = b
    OBVIOUS
  <1>2. s \in Seq(Nat) /\ Len(s) = n
    <2>1. \A i \in 1..n : a + i - 1 \in Nat
      OBVIOUS
    <2> QED
      BY <1>1, <2>1
  <1>3. StepsFrom(a, b) = s /\ StepsFrom(a, b + 1) = [i \in 1..n + 1 |-> a + i - 1]
    BY <1>1 DEF StepsFrom
  <1>4. Append(s, b) \in Seq(Nat) /\ Len(Append(s, b)) = n + 1
    BY <1>1, <1>2
  <1>5. \A i \in 1..n + 1 : Append(s, b)[i] = a + i - 1
    BY <1>1, <1>2
  <1> HIDE DEF n, s
  <1>6. Append(s, b) = [i \in 1..n + 1 |-> a + i - 1]
    <2>1. Append(s, b) \in [1..n + 1 -> Nat]
      BY <1>4, LenProperties
    <2> QED
      BY <1>5, <2>1
  <1> QED
    BY <1>3, <1>6

\* A thread adds a step to its accumulators.
LEMMA ReadStep ==
    ASSUME TypeOK, call # None, Running, NEW t \in Lanes, Read(t)
    PROVE  TypeOK' /\ Running'
  <1>1. Started
    BY BusyStarted DEF Read
  <1>2. /\ First \in Nat /\ Last \in Nat /\ First < Last /\ Strips \in Nat /\ Turns \in Nat \ {0}
        /\ Strips > 0 => Turns = Strips
        /\ Strips = 0 => Turns = 1
        /\ Staged \in BOOLEAN /\ Table \in BOOLEAN /\ step[t] \in Nat
    BY <1>1, Bounds DEF TypeOK, Started
  <1>3. Course(t) /\ Holding(t) /\ Summed(t)
    BY <1>1 DEF Running, Thread, Started
  <1>4. pc[t] = "read" /\ step[t] < Last /\ First <= step[t] /\ strip[t] = 0
    BY <1>2, <1>3 DEF Read, Course
  <1>5. /\ UNCHANGED <<call, left, at, strip, stage, trits>>
        /\ step' = [step EXCEPT ![t] = step[t] + 1] /\ step'[t] = step[t] + 1
        /\ pc' = [pc EXCEPT ![t] = Loop(at, step[t] + 1)] /\ pc'[t] = Loop(at, step[t] + 1)
        /\ acc' = [acc EXCEPT ![t] = Append(acc[t], step[t])] /\ acc'[t] = Append(acc[t], step[t])
    <2>1. Settled(t)
      BY <1>1, <1>4, ReaderSeesAll
    <2> QED
      BY <1>1, <2>1 DEF Read, TypeOK, Started
  <1>6. Loop(at, step[t] + 1) =
            IF step[t] + 1 < Last THEN IF Staged THEN "guard" ELSE "read"
            ELSE IF Strips = 0 THEN "write" ELSE "strip_guard"
    BY <1>2 DEF Loop, Last, Epilogue
  <1>7. /\ pc' \in [Lanes -> Places] /\ step' \in [Lanes -> Nat] /\ DOMAIN acc' = Lanes
        /\ \A u \in Lanes \ {t} : UNCHANGED <<pc[u], step[u], acc[u]>>
    <2>1. Loop(at, step[t] + 1) \in Places /\ step[t] + 1 \in Nat
      BY <1>2, <1>6 DEF Places
    <2> QED
      BY <1>1, <1>5, <2>1 DEF TypeOK, Started
  <1>8. /\ Staged' = Staged /\ Table' = Table /\ Strips' = Strips /\ Turns' = Turns
        /\ First' = First /\ Last' = Last
    BY <1>5, SameCall DEF First, Last
  <1>9. Course(t)'
    BY <1>2, <1>4, <1>5, <1>6, <1>8 DEF Course
  <1>10. Summed(t)'
    <2>1. Append(StepsFrom(First, step[t]), step[t]) = StepsFrom(First, step[t] + 1)
      BY <1>2, <1>4, AppendStep
    <2>2. acc'[t] = StepsFrom(First, step[t] + 1)
      BY <1>3, <1>5, <2>1 DEF Summed
    <2>3. StepsFrom(First, step[t])' = StepsFrom(First, step[t] + 1)
      BY <1>5, <1>8 DEF StepsFrom
    <2> QED
      BY <2>2, <2>3 DEF Summed
  <1>11. Holding(t)'
    <2>1. Decoded((step[t] + 1) - 1) = Decoded(step[t])
      BY <1>2
    <2>2. Decoded(step[t] - 1)' = Decoded(step[t])
      BY <1>5, <2>1 DEF Decoded
    <2> QED
      BY <1>2, <1>3, <1>4, <1>5, <1>6, <1>8, <2>2 DEF Holding, KeepsTile
  <1>12. Passed(t)' = Passed(t)
    <2>1. CASE Staged
      <3>1. Passed(t) = 1 + (2 * (step[t] - First) + 2)
        BY <1>2, <1>4, <2>1 DEF Passed
      <3>2. /\ step'[t] = step[t] + 1 /\ strip'[t] = 0
            /\ pc'[t] \in {"guard", "write", "strip_guard"}
            /\ Strips > 0 => pc'[t] \in {"guard", "strip_guard"}
        BY <1>2, <1>4, <1>5, <1>6, <2>1
      <3>3. Staged' /\ First' = First /\ Strips' = Strips
        BY <1>8, <2>1
      <3>4. Passed(t)' = 1 + 2 * (step'[t] - First')
        BY <1>2, <3>2, <3>3 DEF Passed
      <3> QED
        BY <1>2, <3>1, <3>2, <3>3, <3>4
    <2>2. CASE ~Staged
      BY <1>2, <1>4, <1>5, <1>6, <1>8, <2>2 DEF Passed
    <2> QED
      BY <1>2, <2>1, <2>2
  <1> QED
    BY <1>1, <1>5, <1>7, <1>9, <1>10, <1>11, <1>12, OneMoves DEF Thread, TypeOK, Started

\* A thread stores cells.
LEMMA WriteStep ==
    ASSUME TypeOK, call # None, Running, NEW t \in Lanes, Write(t)
    PROVE  TypeOK' /\ Running'
  <1>1. Started
    BY BusyStarted DEF Write
  <1>2. /\ First \in Nat /\ Last \in Nat /\ First < Last /\ Strips \in Nat /\ Turns \in Nat \ {0}
        /\ Strips > 0 => Turns = Strips
        /\ Strips = 0 => Turns = 1
        /\ Staged \in BOOLEAN /\ Table \in BOOLEAN /\ step[t] \in Nat /\ strip[t] \in Nat
    BY <1>1, Bounds DEF TypeOK, Started
  <1>3. Course(t) /\ Holding(t) /\ Summed(t)
    BY <1>1 DEF Running, Thread, Started
  <1>4. pc[t] = "write" /\ step[t] = Last /\ strip[t] < Turns
    BY <1>2, <1>3 DEF Write, Course
  <1>5. /\ UNCHANGED <<call, left, at, step, acc, stage, trits>>
        /\ strip' = [strip EXCEPT ![t] = strip[t] + 1] /\ strip'[t] = strip[t] + 1
        /\ pc' = [pc EXCEPT ![t] = Epilogue(strip[t] + 1)] /\ pc'[t] = Epilogue(strip[t] + 1)
    BY <1>1 DEF Write, TypeOK, Started
  <1>6. Epilogue(strip[t] + 1) = IF strip[t] + 1 < Turns THEN "strip_guard" ELSE "done"
    BY <1>2, <1>4 DEF Epilogue
  <1>7. /\ pc' \in [Lanes -> Places] /\ strip' \in [Lanes -> Nat]
        /\ \A u \in Lanes \ {t} : UNCHANGED <<pc[u], strip[u]>>
    <2>1. Epilogue(strip[t] + 1) \in Places /\ strip[t] + 1 \in Nat
      BY <1>2, <1>6 DEF Places
    <2> QED
      BY <1>1, <1>5, <2>1 DEF TypeOK, Started
  <1>8. /\ Staged' = Staged /\ Table' = Table /\ Strips' = Strips /\ Turns' = Turns
        /\ First' = First /\ Last' = Last
    BY <1>5, SameCall DEF First, Last
  <1>9. Course(t)' /\ Summed(t)'
    <2>1. Course(t)'
      BY <1>2, <1>4, <1>5, <1>6, <1>8 DEF Course
    <2>2. Summed(t)'
      BY <1>3, <1>5, <1>8 DEF Summed
    <2> QED
      BY <2>1, <2>2
  <1>10. Holding(t)'
    <2>1. /\ (strip[t] + 1) - 1 = strip[t]
          /\ Decoded(step[t] - 1)' = Decoded(step[t] - 1)
          /\ Strip(strip[t] - 1, acc[t])' = Strip(strip[t], acc[t])
      BY <1>2, <1>5 DEF Decoded, Strip
    <2>2. Table => trits[t]
      BY <1>3, <1>4 DEF Holding
    <2>3. CASE Strips = 0
      BY <1>2, <1>3, <1>4, <1>5, <1>6, <1>8, <2>1, <2>2, <2>3 DEF Holding, KeepsTile
    <2>4. CASE Strips > 0
      BY <1>2, <1>3, <1>4, <1>5, <1>6, <1>8, <2>1, <2>2, <2>4 DEF Holding, KeepsTile
    <2> QED
      BY <1>2, <2>3, <2>4
  <1>11. Passed(t)' = Passed(t)
    <2>1. CASE Strips = 0
      BY <1>2, <1>4, <1>5, <1>6, <1>8, <2>1 DEF Passed
    <2>2. CASE Strips > 0
      BY <1>2, <1>4, <1>5, <1>6, <1>8, <2>2 DEF Passed
    <2> QED
      BY <1>2, <2>1, <2>2
  <1> QED
    BY <1>1, <1>5, <1>7, <1>9, <1>10, <1>11, OneMoves DEF Thread, TypeOK, Started

----------------------------------------------------------------------------
(* Steps of all threads, and of the host. *)

\* A place in the grid.
LEMMA BlockShape ==
    ASSUME call \in Abstract!Calls
    PROVE  Blocks \subseteq [x : Nat, y : Nat, z : Nat]
  <1>1. CASE Lut
    <2>1. Blocks = [x : 0..Tiles(Layout) - 1, y : 0..CeilDiv(call.batch, Config.batch_tile) - 1,
                    z : 0..Config.k_split - 1]
      BY <1>1 DEF Blocks, Grid, Lut
    <2> QED
      BY <2>1
  <1>2. CASE ~Lut
    <2>1. Blocks = [x : 0..CeilDiv(Layout.rows, Config.row_block) - 1,
                    y : 0..CeilDiv(call.batch, Config.batch_block) - 1, z : {0}]
      BY <1>2 DEF Blocks, Grid, Lut
    <2> QED
      BY <2>1
  <1> QED
    BY <1>1, <1>2

\* All threads pass one barrier, the one that they have all come to.
LEMMA BarrierStep ==
    ASSUME TypeOK, call # None, Running, Barrier
    PROVE  TypeOK' /\ Running'
  <1>1. PICK b \in Barriers :
            /\ \A t \in Lanes : pc[t] = b
            /\ pc' = [t \in Lanes |->
                        CASE b = "table_sync" -> Loop(at, step[t])
                          [] b = "guard" -> "fill"
                          [] b = "filled" -> "read"
                          [] b = "strip_guard" -> "store"
                          [] b = "stored" -> "write"]
    BY DEF Barrier
  <1>2. UNCHANGED <<call, left, at, step, strip, acc, stage, trits>>
    BY DEF Barrier
  <1>3. Started
    <2>1. 0 \in Lanes
      BY LaneCount DEF TypeOK, Positive
    <2>2. pc[0] # "done"
      BY <1>1, <2>1 DEF Barriers
    <2> QED
      BY <2>1, <2>2, BusyStarted
  <1>4. /\ First \in Nat /\ Last \in Nat /\ First < Last /\ Strips \in Nat /\ Turns \in Nat \ {0}
        /\ Strips > 0 => Turns = Strips
        /\ Strips = 0 => Turns = 1
        /\ Staged \in BOOLEAN /\ Table \in BOOLEAN /\ ~(Staged /\ Table)
    BY <1>3, Bounds
  <1>5. /\ Staged' = Staged /\ Table' = Table /\ Strips' = Strips /\ Turns' = Turns
        /\ First' = First /\ Last' = Last /\ Lanes' = Lanes /\ Blocks' = Blocks
    BY <1>2, SameCall DEF First, Last
  <1>6. ASSUME NEW t \in Lanes
        PROVE  Thread(t)' /\ Passed(t)' = Passed(t) + 1 /\ pc'[t] \in Places
    <2>1. Course(t) /\ Holding(t) /\ Summed(t) /\ pc[t] = b
      BY <1>1, <1>3 DEF Running, Started, Thread
    <2>2. step[t] \in Nat /\ strip[t] \in Nat
      BY <1>3 DEF TypeOK, Started
    <2>3. Summed(t)'
      BY <1>2, <1>5, <2>1 DEF Summed
    <2>4. /\ Decoded(step[t])' = Decoded(step[t])
          /\ Decoded(step[t] - 1)' = Decoded(step[t] - 1)
          /\ Strip(strip[t], acc[t])' = Strip(strip[t], acc[t])
          /\ Strip(strip[t] - 1, acc[t])' = Strip(strip[t] - 1, acc[t])
      BY <1>2 DEF Decoded, Strip
    <2>5. CASE b = "table_sync"
      <3>1. Table /\ ~Staged /\ step[t] = First /\ strip[t] = 0
        BY <1>4, <2>1, <2>5 DEF Course
      <3>2. pc'[t] = "read"
        BY <1>1, <1>4, <2>5, <3>1 DEF Loop, Last, First
      <3>3. Course(t)'
        BY <1>2, <1>4, <1>5, <2>1, <3>1, <3>2 DEF Course
      <3>4. Holding(t)'
        BY <1>2, <1>5, <2>1, <2>5, <3>1, <3>2 DEF Holding, KeepsTile
      <3>5. Passed(t) = 0 /\ Passed(t)' = 1
        BY <1>2, <1>4, <1>5, <2>1, <2>5, <3>1, <3>2 DEF Passed
      <3> QED
        BY <2>3, <3>2, <3>3, <3>4, <3>5 DEF Thread, Places
    <2>6. CASE b = "guard"
      <3>1. pc'[t] = "fill" /\ Staged /\ ~Table /\ strip[t] = 0
        BY <1>1, <1>4, <2>1, <2>6 DEF Course
      <3>2. Course(t)'
        BY <1>2, <1>4, <1>5, <2>1, <2>6, <3>1 DEF Course
      <3>3. Holding(t)'
        BY <1>2, <1>5, <2>1, <2>6, <3>1 DEF Holding, KeepsTile
      <3>4. Passed(t)' = Passed(t) + 1
        <4>1. Passed(t) = 1 + 2 * (step[t] - First)
          BY <1>4, <2>1, <2>2, <2>6, <3>1 DEF Passed
        <4>2. Passed(t)' = 1 + (2 * (step[t] - First) + 1)
          BY <1>2, <1>4, <1>5, <2>2, <3>1 DEF Passed
        <4> QED
          BY <1>4, <2>2, <4>1, <4>2
      <3> QED
        BY <2>3, <3>1, <3>2, <3>3, <3>4 DEF Thread, Places
    <2>7. CASE b = "filled"
      <3>1. pc'[t] = "read" /\ Staged /\ ~Table /\ strip[t] = 0
        BY <1>1, <1>4, <2>1, <2>7 DEF Course
      <3>2. Course(t)'
        BY <1>2, <1>4, <1>5, <2>1, <2>7, <3>1 DEF Course
      <3>3. Holding(t)'
        BY <1>2, <1>5, <2>1, <2>4, <2>7, <3>1 DEF Holding, KeepsTile
      <3>4. Passed(t)' = Passed(t) + 1
        <4>1. Passed(t) = 1 + (2 * (step[t] - First) + 1)
          BY <1>4, <2>1, <2>2, <2>7, <3>1 DEF Passed
        <4>2. Passed(t)' = 1 + (2 * (step[t] - First) + 2)
          BY <1>2, <1>4, <1>5, <2>2, <3>1 DEF Passed
        <4> QED
          BY <1>4, <2>2, <4>1, <4>2
      <3> QED
        BY <2>3, <3>1, <3>2, <3>3, <3>4 DEF Thread, Places
    <2>8. CASE b = "strip_guard"
      <3>1. pc'[t] = "store" /\ Strips > 0
        BY <1>1, <2>1, <2>8 DEF Course
      <3>2. Course(t)'
        BY <1>2, <1>4, <1>5, <2>1, <2>8, <3>1 DEF Course
      <3>3. Holding(t)'
        BY <1>2, <1>5, <2>1, <2>8, <3>1 DEF Holding, KeepsTile
      <3>4. Passed(t)' = Passed(t) + 1
        <4> DEFINE staged == IF Staged THEN 2 * (step[t] - First) ELSE 0
        <4>1. Passed(t) = 1 + staged + 2 * strip[t]
          BY <1>4, <2>1, <2>2, <2>8, <3>1 DEF Passed
        <4>2. Passed(t)' = 1 + staged + (2 * strip[t] + 1)
          BY <1>2, <1>4, <1>5, <2>2, <3>1 DEF Passed
        <4>3. staged \in Int
          BY <1>4, <2>2
        <4> QED
          BY <1>4, <2>2, <4>1, <4>2, <4>3
      <3> QED
        BY <2>3, <3>1, <3>2, <3>3, <3>4 DEF Thread, Places
    <2>9. CASE b = "stored"
      <3>1. pc'[t] = "write" /\ Strips > 0
        BY <1>1, <2>1, <2>9 DEF Course
      <3>2. Course(t)'
        BY <1>2, <1>4, <1>5, <2>1, <2>9, <3>1 DEF Course
      <3>3. Holding(t)'
        BY <1>2, <1>4, <1>5, <2>1, <2>4, <2>9, <3>1 DEF Holding, KeepsTile
      <3>4. Passed(t)' = Passed(t) + 1
        <4> DEFINE staged == IF Staged THEN 2 * (step[t] - First) ELSE 0
        <4>1. Passed(t) = 1 + staged + (2 * strip[t] + 1)
          BY <1>4, <2>1, <2>2, <2>9, <3>1 DEF Passed
        <4>2. Passed(t)' = 1 + staged + (2 * strip[t] + 2)
          BY <1>2, <1>4, <1>5, <2>2, <3>1 DEF Passed
        <4>3. staged \in Int
          BY <1>4, <2>2
        <4> QED
          BY <1>4, <2>2, <4>1, <4>2, <4>3
      <3> QED
        BY <2>3, <3>1, <3>2, <3>3, <3>4 DEF Thread, Places
    <2> QED
      BY <2>5, <2>6, <2>7, <2>8, <2>9 DEF Barriers
  <1>7. TypeOK'
    <2>1. pc' \in [Lanes -> Places]
      BY <1>1, <1>6
    <2> QED
      BY <1>2, <1>3, <1>5, <2>1 DEF TypeOK, Started
  <1>8. Running'
    <2>1. \A t, u \in Lanes : Passed(t) = Passed(u)
      BY <1>3 DEF Running, InStep, Started
    <2>2. \A t, u \in Lanes : Passed(t)' = Passed(u)'
      BY <1>6, <2>1
    <2> QED
      BY <1>5, <1>6, <2>2 DEF Running, InStep
  <1> QED
    BY <1>7, <1>8

\* A threadgroup starts with nothing summed.
LEMMA BeginStep ==
    ASSUME TypeOK, call # None, NEW g \in left, Begin(g)
    PROVE  TypeOK' /\ Running'
  <1>1. /\ call \in Abstract!Calls /\ g \in Blocks /\ call' = call
        /\ at' = g /\ left' = left \ {g} /\ left \subseteq Blocks
    BY DEF TypeOK, Begin
  <1>2. /\ Lanes' = Lanes /\ Staged' = Staged /\ Table' = Table /\ Strips' = Strips /\ Turns' = Turns
        /\ First' = FirstStep(g) /\ Last' = LastStep(g) /\ Blocks' = Blocks
    BY <1>1, SameCall DEF First, Last
  <1>3. /\ FirstStep(g) \in Nat /\ LastStep(g) \in Nat /\ FirstStep(g) < LastStep(g)
        /\ Turns \in Nat \ {0} /\ Staged \in BOOLEAN /\ Table \in BOOLEAN /\ ~(Staged /\ Table)
    BY <1>1, PieceOfBlock, StripShape, FormShape DEF Positive
  <1>4. PICK p \in {"table", "guard", "read"} :
            /\ pc' = [t \in Lanes |-> p]
            /\ p = "table" <=> Table
            /\ p = "guard" => Staged
            /\ p = "read" => ~Staged
    <2>1. Loop(g, FirstStep(g)) = IF Staged THEN "guard" ELSE "read"
      BY <1>3 DEF Loop
    <2> QED
      BY <1>3, <2>1 DEF Begin
  <1>5. /\ step' = [t \in Lanes |-> FirstStep(g)] /\ strip' = [t \in Lanes |-> 0]
        /\ acc' = [t \in Lanes |-> <<>>]
        /\ stage' = [t \in Lanes |-> Nothing]
        /\ trits' = [t \in Lanes |-> FALSE]
    BY DEF Begin
  <1>6. TypeOK'
    <2>1. g # None
      <3>1. g \in [x : Nat, y : Nat, z : Nat]
        BY <1>1, BlockShape
      <3> QED
        BY <3>1, MetalAssumption
    <2> QED
      BY <1>1, <1>2, <1>3, <1>4, <1>5, <2>1 DEF TypeOK, Places
  <1>7. StepsFrom(FirstStep(g), FirstStep(g)) = <<>>
    <2>1. 1..FirstStep(g) - FirstStep(g) = {}
      BY <1>3
    <2> QED
      BY <2>1 DEF StepsFrom
  <1>8. ASSUME NEW t \in Lanes
        PROVE  Thread(t)' /\ Passed(t)' = IF p = "table" THEN 0 ELSE 1
    <2>1. /\ pc'[t] = p /\ step'[t] = FirstStep(g) /\ strip'[t] = 0 /\ acc'[t] = <<>>
      BY <1>4, <1>5
    <2>2. Course(t)'
      BY <1>2, <1>3, <1>4, <2>1 DEF Course
    <2>3. Holding(t)'
      BY <1>2, <1>3, <1>4, <2>1 DEF Holding, KeepsTile
    <2>4. Summed(t)'
      <3>1. StepsFrom(First, step[t])' = <<>>
        BY <1>2, <1>7, <2>1 DEF StepsFrom
      <3> QED
        BY <2>1, <3>1 DEF Summed
    <2>5. Passed(t)' = IF p = "table" THEN 0 ELSE 1
      BY <1>2, <1>3, <1>4, <2>1 DEF Passed
    <2> QED
      BY <2>2, <2>3, <2>4, <2>5 DEF Thread
  <1>9. Running'
    BY <1>2, <1>8 DEF Running, InStep
  <1> QED
    BY <1>6, <1>9

\* A call begins with a grid of threadgroups, none of which has started.
LEMMA CallStep ==
    ASSUME NEW c \in Abstract!Calls, Call(c)
    PROVE  TypeOK' /\ Running' /\ at' = None /\ out' = {} /\ call' # None
  <1>1. /\ call' = c /\ c # None /\ at' = None /\ out' = {}
        /\ pc' = [t \in Lanes' |-> "done"]
        /\ step' = [t \in Lanes' |-> 0] /\ strip' = step'
        /\ DOMAIN acc' = Lanes' /\ DOMAIN stage' = Lanes' /\ DOMAIN trits' = Lanes'
    BY MetalAssumption DEF Call
  <1>2. left' = Blocks'
    BY <1>1 DEF Call, Blocks, Layout, Config
  <1>3. Idle'
    BY <1>1 DEF Idle
  <1>4. TypeOK'
    BY <1>1, <1>2, <1>3 DEF TypeOK, Places
  <1>5. Running'
    BY <1>1 DEF Running
  <1> QED
    BY <1>1, <1>4, <1>5

----------------------------------------------------------------------------
(* Which thread of which threadgroup stores which cell of the output. *)

\* How a block of the GEMM is cut up among its simdgroups.
LEMMA SimdShape ==
    ASSUME call \in Abstract!Calls, ~Lut
    PROVE  /\ SamplesPerSimd \in Positive /\ RowsPerSimd \in Positive
           /\ Config.batch_block = Config.simd_rows * SamplesPerSimd
           /\ Config.row_block = Config.simd_columns * RowsPerSimd
           /\ Strips > 0 => SamplesPerSimd = Strips * MATRIX_TILE
  <1> DEFINE BB == Config.batch_block
             RB == Config.row_block
             SR == Config.simd_rows
             SC == Config.simd_columns
             q == MATRIX_TILE
             d == SR * q
             e == SC * q
  <1>1. /\ BB \in Nat \ {0} /\ RB \in Nat \ {0} /\ SR \in Nat \ {0} /\ SC \in Nat \ {0}
        /\ q \in Nat \ {0} /\ BB % d = 0 /\ RB % e = 0
    BY GemmShape, ConfigAssumption DEF Positive
  <1>2. /\ SamplesPerSimd = BB \div SR /\ RowsPerSimd = RB \div SC
        /\ Strips > 0 => Strips = BB \div d
    BY DEF SamplesPerSimd, RowsPerSimd, Strips
  <1> HIDE DEF BB, RB, SR, SC, q
  <1>3. d \in Nat \ {0} /\ e \in Nat \ {0} /\ Makes(SR, q, d) /\ Makes(SC, q, e)
    BY <1>1, Z3 DEF Makes
  <1> HIDE DEF d, e
  <1>4. PICK b \in Nat : b = BB \div d /\ BB = b * d
    BY <1>1, <1>3, Divides
  <1>5. PICK c \in Nat : c = RB \div e /\ RB = c * e
    BY <1>1, <1>3, Divides
  <1>6. b * q \in Nat /\ BB \div SR = b * q /\ BB = SR * (b * q)
    <2>1. BB \in Nat
      BY <1>1
    <2>2. PartsOf(SR, q, b, BB)
      BY <1>1, <1>3, <1>4, <2>1, PartOfBlock, Zenon
    <2> QED
      BY <2>2 DEF PartsOf
  <1>7. c * q \in Nat /\ RB \div SC = c * q /\ RB = SC * (c * q)
    <2>1. RB \in Nat
      BY <1>1
    <2>2. PartsOf(SC, q, c, RB)
      BY <1>1, <1>3, <1>5, <2>1, PartOfBlock, Zenon
    <2> QED
      BY <2>2 DEF PartsOf
  <1>8. b * q # 0 /\ c * q # 0
    <2>1. (b * q = 0 => SR * (b * q) = 0) /\ (c * q = 0 => SC * (c * q) = 0)
      BY <1>1, Z3
    <2> QED
      BY <1>1, <1>6, <1>7, <2>1
  <1> QED
    BY <1>2, <1>4, <1>6, <1>7, <1>8 DEF BB, RB, SR, SC, q, Positive

\* The address of a cell tells which cell it is, and lies in the output.
LEMMA AddressOfCell ==
    ASSUME call \in Abstract!Calls, NEW c \in Cells
    PROVE  /\ Addr(c[1], c[2], c[3]) \in Addresses
           /\ c = <<(Addr(c[1], c[2], c[3]) \div Layout.rows) \div call.batch,
                    (Addr(c[1], c[2], c[3]) \div Layout.rows) % call.batch,
                    Addr(c[1], c[2], c[3]) % Layout.rows>>
  <1> DEFINE B == call.batch
             R == Layout.rows
             S == Splits(Config)
  <1>1. B \in Nat \ {0} /\ R \in Nat \ {0} /\ S \in Nat \ {0}
    <2>1. S \in Nat \ {0}
      BY LutShape DEF Splits, Lut, Positive
    <2> QED
      BY <2>1, CallShape DEF Positive
  <1>2. PICK z \in 0..S - 1, m \in 0..B - 1, n \in 0..R - 1 : c = <<z, m, n>>
    BY DEF Cells
  <1>3. Addr(z, m, n) = (z * B + m) * R + n
    BY DEF Addr
  <1>4. Addresses = 0..S * B * R - 1
    BY DEF Addresses
  <1> HIDE DEF B, R, S
  <1>5. z * B + m \in 0..S * B - 1 /\ S * B \in Nat
    <2>1. z * B + m \in 0..S * B - 1
      BY <1>1, BlockBelow
    <2> QED
      BY <1>1, <2>1, Z3
  <1>6. (z * B + m) * R + n \in 0..(S * B) * R - 1
    BY <1>1, <1>5, BlockBelow
  <1>7. /\ ((z * B + m) * R + n) \div R = z * B + m /\ ((z * B + m) * R + n) % R = n
        /\ (z * B + m) \div B = z /\ (z * B + m) % B = m
    BY <1>1, <1>5, DivModUnique
  <1> QED
    BY <1>2, <1>3, <1>4, <1>6, <1>7 DEF B, R

\* Two stores meet at one address only if they are about one cell.
LEMMA AddressInjective ==
    ASSUME call \in Abstract!Calls, NEW c \in Cells, NEW d \in Cells, Right(c).at = Right(d).at
    PROVE  c = d
  <1>1. Addr(c[1], c[2], c[3]) = Addr(d[1], d[2], d[3])
    BY DEF Right
  <1> DEFINE Cell(a) == <<(a \div Layout.rows) \div call.batch, (a \div Layout.rows) % call.batch,
                          a % Layout.rows>>
  <1>2. c = Cell(Addr(c[1], c[2], c[3])) /\ d = Cell(Addr(d[1], d[2], d[3]))
    BY AddressOfCell
  <1> HIDE DEF Cell
  <1> QED
    BY <1>1, <1>2

\* Every cell has its threadgroup.
LEMMA OwnerInGrid ==
    ASSUME call \in Abstract!Calls, NEW c \in Cells
    PROVE  Owner(c) \in Blocks
  <1> DEFINE B == call.batch
             R == Layout.rows
  <1>1. PICK z \in 0..Splits(Config) - 1, m \in 0..B - 1, n \in 0..R - 1 : c = <<z, m, n>>
    BY DEF Cells
  <1>2. B \in Nat \ {0} /\ R \in Nat \ {0}
    BY CallShape DEF Positive
  <1>3. CASE Lut
    <2> DEFINE T == Layout.tile
               k == Config.batch_tile
    <2>1. T \in Nat \ {0} /\ k \in Nat \ {0} /\ Tiles(Layout) \in Nat /\ R = Tiles(Layout) * T
      BY <1>3, CallShape, LutShape DEF Positive
    <2>2. Blocks = [x : 0..Tiles(Layout) - 1, y : 0..((B + k - 1) \div k) - 1, z : 0..Config.k_split - 1]
      BY <1>3 DEF Blocks, Grid, Lut, CeilDiv
    <2>3. Owner(c) = [x |-> n \div T, y |-> m \div k, z |-> z] /\ z \in 0..Config.k_split - 1
      BY <1>1, <1>3 DEF Owner, Splits, Lut
    <2> HIDE DEF T, k, B, R
    <2>4. n \div T \in 0..Tiles(Layout) - 1
      <3>1. n \in Nat /\ n < Tiles(Layout) * T
        BY <1>2, <2>1
      <3> QED
        BY <2>1, <3>1, QuotientBelow
    <2>5. m \div k \in 0..((B + k - 1) \div k) - 1
      BY <1>2, <2>1, BlocksStart
    <2> QED
      BY <2>2, <2>3, <2>4, <2>5
  <1>4. CASE ~Lut
    <2> DEFINE RB == Config.row_block
               BB == Config.batch_block
    <2>1. RB \in Nat \ {0} /\ BB \in Nat \ {0}
      BY <1>4, GemmShape DEF Positive
    <2>2. Blocks = [x : 0..((R + RB - 1) \div RB) - 1, y : 0..((B + BB - 1) \div BB) - 1, z : {0}]
      BY <1>4 DEF Blocks, Grid, Lut, CeilDiv
    <2>3. Owner(c) = [x |-> n \div RB, y |-> m \div BB, z |-> 0]
      BY <1>1, <1>4 DEF Owner
    <2> HIDE DEF RB, BB, B, R
    <2>4. n \div RB \in 0..((R + RB - 1) \div RB) - 1
      BY <1>2, <2>1, BlocksStart
    <2>5. m \div BB \in 0..((B + BB - 1) \div BB) - 1
      BY <1>2, <2>1, BlocksStart
    <2> QED
      BY <2>2, <2>3, <2>4, <2>5
  <1> QED
    BY <1>3, <1>4

\* The cells that thread t of threadgroup g stores in its turn i.
Own(g, t, i) == {c \in Cells : Owner(c) = g /\ Lane(c) = t /\ Turn(c) = i}

\* What a thread has summed is what belongs into the cells.
Complete(t) == acc[t] = Abstract!Piece(call, at.z + 1)

\* The LUT23 kernel: the rows of a tile modulo the threads, the samples of a batch tile.
LEMMA LutStoresOwn ==
    ASSUME call \in Abstract!Calls, at \in Blocks, Lut, NEW t \in Lanes, Complete(t)
    PROVE  LutStores(t) = {Right(c) : c \in Own(at, t, 0)}
  <1> DEFINE T == Layout.tile
             k == Config.batch_tile
             w == Config.threads
             full == Abstract!Piece(call, at.z + 1)
  <1>1. /\ T \in Nat \ {0} /\ k \in Nat \ {0} /\ w \in Nat \ {0}
        /\ Tiles(Layout) \in Nat /\ Layout.rows = Tiles(Layout) * T
    BY CallShape, LutShape DEF Positive
  <1>2. /\ at.x \in 0..Tiles(Layout) - 1 /\ at.z \in 0..Splits(Config) - 1
        /\ at = [x |-> at.x, y |-> at.y, z |-> at.z]
    BY DEF Blocks, Grid, Lut, Splits
  <1>3. acc[t] = full
    BY DEF Complete
  <1>4. \A m, n : Element(m, n, full) = [sample |-> m, row |-> n, steps |-> full]
    BY DEF Element
  <1>5. \A m, n : Right(<<at.z, m, n>>) = [at |-> Addr(at.z, m, n), value |-> Element(m, n, acc[t])]
    BY <1>3, <1>4 DEF Right
  <1>6. \A c : Turn(c) = 0
    BY DEF Turn, Strips
  <1>7. ASSUME NEW s \in LutStores(t)
        PROVE  \E c \in Own(at, t, 0) : s = Right(c)
    <2>1. PICK m \in 0..call.batch - 1, r \in 0..T - 1 :
              /\ m \div k = at.y /\ r % w = t
              /\ s = [at |-> Addr(at.z, m, at.x * T + r),
                      value |-> Element(m, at.x * T + r, acc[t])]
      BY <1>7 DEF LutStores
    <2> DEFINE n == at.x * T + r
               c == <<at.z, m, n>>
    <2>2. n \in 0..Tiles(Layout) * T - 1 /\ n \div T = at.x /\ n % T = r
      <3>1. at.x \in Nat
        BY <1>1, <1>2
      <3> QED
        BY <1>1, <1>2, <3>1, BlockBelow, DivModUnique
    <2>3. s = Right(c)
      BY <1>5, <2>1
    <2> HIDE DEF n
    <2>4. c \in Cells
      BY <1>1, <1>2, <2>2 DEF Cells
    <2>5. Owner(c) = at /\ Lane(c) = t
      BY <1>2, <2>1, <2>2 DEF Owner, Lane
    <2> QED
      BY <1>6, <2>3, <2>4, <2>5 DEF Own
  <1>8. ASSUME NEW c \in Own(at, t, 0)
        PROVE  Right(c) \in LutStores(t)
    <2>1. /\ c \in Cells /\ Owner(c) = at /\ Lane(c) = t
      BY <1>8 DEF Own
    <2>2. PICK z \in 0..Splits(Config) - 1, m \in 0..call.batch - 1, n \in 0..Layout.rows - 1 :
              c = <<z, m, n>>
      BY <2>1 DEF Cells
    <2>3. at.z = z /\ at.y = m \div k /\ at.x = n \div T /\ (n % T) % w = t
      BY <2>1, <2>2 DEF Owner, Lane
    <2> DEFINE r == n % T
    <2>4. r \in 0..T - 1 /\ n = at.x * T + r /\ r % w = t
      <3>1. n \in Nat
        BY <1>1
      <3> QED
        BY <1>1, <2>3, <3>1, DivMod
    <2> HIDE DEF r
    <2>5. Right(c) = [at |-> Addr(at.z, m, at.x * T + r),
                      value |-> Element(m, at.x * T + r, acc[t])]
      BY <1>5, <2>2, <2>3, <2>4
    <2> QED
      BY <2>3, <2>4, <2>5 DEF LutStores
  <1> QED
    BY <1>7, <1>8

\* The place of a threadgroup of the GEMM.
LEMMA GemmPlace ==
    ASSUME call \in Abstract!Calls, ~Lut, at \in Blocks
    PROVE  /\ at = [x |-> at.x, y |-> at.y, z |-> 0] /\ at.z = 0
           /\ at.x \in 0..((Layout.rows + Config.row_block - 1) \div Config.row_block) - 1
           /\ at.y \in 0..((call.batch + Config.batch_block - 1) \div Config.batch_block) - 1
           /\ at.x \in Nat /\ at.y \in Nat
  <1>1. Blocks = [x : 0..CeilDiv(Layout.rows, Config.row_block) - 1,
                  y : 0..CeilDiv(call.batch, Config.batch_block) - 1, z : {0}]
    BY DEF Blocks, Grid, Lut
  <1> QED
    BY <1>1 DEF CeilDiv

\* tq1_gemm: a row block never straddles two tiles.
LEMMA OneTile ==
    ASSUME call \in Abstract!Calls, ~Lut, NEW x \in Nat, NEW r \in 0..Config.row_block - 1,
           x * Config.row_block + r < Layout.rows
    PROVE  (x * Config.row_block + r) \div Layout.tile = (x * Config.row_block) \div Layout.tile
  <1>1. PICK RB \in Nat \ {0} : RB = Config.row_block
    BY GemmShape DEF Positive
  <1>2. PICK T \in Nat \ {0} : T = Layout.tile
    BY CallShape DEF Positive
  <1>3. PICK k \in Nat \ {0} : k = Tiles(Layout)
    BY CallShape DEF Positive
  <1>4. (k > 1 => T % RB = 0) /\ r \in 0..RB - 1
    BY <1>1, <1>2, <1>3, GemmShape
  <1>5. x * RB + r < k * T
    BY <1>1, <1>2, <1>3, CallShape
  <1>6. (x * RB + r) \div T = (x * RB) \div T
    BY <1>4, <1>5, PartInTile, ZenonT(60)
  <1> QED
    BY <1>1, <1>2, <1>6

\* A cell of the block: its simdgroup, its sample and its row.
LEMMA CellOfBlock ==
    ASSUME call \in Abstract!Calls, ~Lut, at \in Blocks, NEW c \in Cells, Owner(c) = at
    PROVE  /\ c = <<0, c[2], c[3]>> /\ c[2] \in 0..call.batch - 1 /\ c[3] \in 0..Layout.rows - 1
           /\ SimdRow(c) \in 0..Config.simd_rows - 1
           /\ SampleOf(c) \in 0..SamplesPerSimd - 1
           /\ c[2] = at.y * Config.batch_block + (SimdRow(c) * SamplesPerSimd + SampleOf(c))
           /\ c[3] % Config.row_block \in 0..Config.row_block - 1
           /\ c[3] = at.x * Config.row_block + (c[3] % Config.row_block)
           /\ InBounds(c[2], c[3])
  <1>1. PICK m \in 0..call.batch - 1, n \in 0..Layout.rows - 1 : c = <<0, m, n>>
    <2>1. Splits(Config) = 1
      BY DEF Splits, Lut
    <2> QED
      BY <2>1 DEF Cells
  <1>2. PICK BB \in Nat \ {0} : BB = Config.batch_block
    BY GemmShape DEF Positive
  <1>3. PICK RB \in Nat \ {0} : RB = Config.row_block
    BY GemmShape DEF Positive
  <1>4. PICK SR \in Nat \ {0} : SR = Config.simd_rows
    BY GemmShape DEF Positive
  <1>5. PICK SPS \in Nat \ {0} : SPS = SamplesPerSimd /\ Makes(SR, SPS, BB)
    BY <1>2, <1>4, SimdShape DEF Positive, Makes
  <1>6. m \in Nat /\ n \in Nat
    OBVIOUS
  <1>7. m \div BB = at.y /\ n \div RB = at.x
    BY <1>1, <1>2, <1>3 DEF Owner
  <1>8. SimdRow(c) = (m % BB) \div SPS /\ SampleOf(c) = (m % BB) % SPS
    BY <1>1, <1>2, <1>5 DEF SimdRow, SampleOf
  <1>9. SplitAt(SR, SPS, BB, m)
    BY <1>5, <1>6, NestedSplit, Zenon
  <1>10. n % RB \in 0..RB - 1 /\ n = (n \div RB) * RB + (n % RB)
    BY <1>6, DivMod
  <1>11. m = at.y * BB + (SimdRow(c) * SPS + SampleOf(c))
    BY <1>7, <1>8, <1>9 DEF SplitAt
  <1>12. InBounds(m, n)
    <2>1. m < call.batch /\ n < Layout.rows
      BY CallShape DEF Positive
    <2> QED
      BY <2>1 DEF InBounds
  <1> QED
    BY <1>1, <1>2, <1>3, <1>4, <1>5, <1>7, <1>8, <1>9, <1>10, <1>11, <1>12 DEF SplitAt

\* Within the bounds, every place of the block is a cell of its own: where the bounds
\* are compiled out, the blocks come out even.
LEMMA PlaceOfBlock ==
    ASSUME call \in Abstract!Calls, ~Lut, at \in Blocks,
           NEW s \in 0..Config.simd_rows - 1, NEW j \in 0..SamplesPerSimd - 1,
           NEW r \in 0..Config.row_block - 1,
           NEW m, m = at.y * Config.batch_block + (s * SamplesPerSimd + j),
           NEW n, n = at.x * Config.row_block + r, InBounds(m, n)
    PROVE  /\ <<0, m, n>> \in Cells /\ Owner(<<0, m, n>>) = at
           /\ SimdRow(<<0, m, n>>) = s /\ SampleOf(<<0, m, n>>) = j
           /\ n % Config.row_block = r
           /\ \A steps : Element(m, n, steps) = [sample |-> m, row |-> n, steps |-> steps]
  <1> DEFINE c == <<0, m, n>>
  <1>1. PICK BB \in Nat \ {0} : BB = Config.batch_block
    BY GemmShape DEF Positive
  <1>2. PICK RB \in Nat \ {0} : RB = Config.row_block
    BY GemmShape DEF Positive
  <1>3. PICK SR \in Nat \ {0} : SR = Config.simd_rows
    BY GemmShape DEF Positive
  <1>4. PICK SPS \in Nat \ {0} : SPS = SamplesPerSimd /\ Makes(SR, SPS, BB)
    BY <1>1, <1>3, SimdShape DEF Positive, Makes
  <1>5. PICK B \in Nat \ {0} : B = call.batch
    BY CallShape DEF Positive
  <1>6. PICK R \in Nat \ {0} : R = Layout.rows
    BY CallShape DEF Positive
  <1>7. PICK x \in Nat : x = at.x /\ x \in 0..((R + RB - 1) \div RB) - 1
    BY <1>2, <1>6, GemmPlace
  <1>8. PICK y \in Nat : y = at.y /\ y \in 0..((B + BB - 1) \div BB) - 1
    BY <1>1, <1>5, GemmPlace
  <1>9. s \in 0..SR - 1 /\ j \in 0..SPS - 1 /\ r \in 0..RB - 1
    BY <1>2, <1>3, <1>4
  <1>10. PICK e \in Nat : /\ e = s * SPS + j /\ e \in 0..BB - 1
                          /\ y * BB + e \in Nat
                          /\ (y * BB + e) \div BB = y /\ (y * BB + e) % BB = e
                          /\ e \div SPS = s /\ e % SPS = j
    <2>1. NestedAt(SR, SPS, BB, y, s, j)
      BY <1>4, <1>9, Nested, Zenon
    <2> QED
      BY <2>1 DEF NestedAt
  <1>11. m = y * BB + e
    BY <1>1, <1>4, <1>8, <1>10
  <1>12. n = x * RB + r
    BY <1>2, <1>7
  <1>13. n \in Nat /\ n \div RB = x /\ n % RB = r
    <2>1. x * RB + r \in Nat /\ (x * RB + r) \div RB = x /\ (x * RB + r) % RB = r
      BY <1>9, DivModUnique
    <2> QED
      BY <1>12, <2>1
  <1>14. (B % BB = 0 \/ m < B) /\ (R % RB = 0 \/ n < R)
    BY <1>1, <1>2, <1>5, <1>6 DEF InBounds
  <1>15. m < B
    <2>1. B % BB = 0 => y * BB + e < B
      BY <1>8, <1>10, FullBlocks
    <2> QED
      BY <1>11, <1>14, <2>1
  <1>16. n < R
    <2>1. R % RB = 0 => x * RB + r < R
      BY <1>7, <1>9, FullBlocks
    <2> QED
      BY <1>12, <1>14, <2>1
  <1>17. c \in Cells
    <2>1. m \in 0..call.batch - 1 /\ n \in 0..Layout.rows - 1
      BY <1>5, <1>6, <1>10, <1>11, <1>13, <1>15, <1>16
    <2>2. 0 \in 0..Splits(Config) - 1
      BY DEF Splits, Lut
    <2> QED
      BY <2>1, <2>2 DEF Cells
  <1>18. Owner(c) = at
    <2>1. Owner(c) = [x |-> n \div RB, y |-> m \div BB, z |-> 0]
      BY <1>1, <1>2 DEF Owner
    <2> QED
      BY <1>7, <1>8, <1>10, <1>11, <1>13, <2>1, GemmPlace
  <1>19. SimdRow(c) = s /\ SampleOf(c) = j
    BY <1>1, <1>4, <1>10, <1>11 DEF SimdRow, SampleOf
  <1>20. n \div Layout.tile = (at.x * Config.row_block) \div Layout.tile
    BY <1>2, <1>6, <1>7, <1>9, <1>12, <1>16, OneTile
  <1>21. \A steps : Element(m, n, steps) = [sample |-> m, row |-> n, steps |-> steps]
    BY <1>20 DEF Element
  <1> QED
    BY <1>2, <1>13, <1>17, <1>18, <1>19, <1>21

\* The simdgroups stand in rows and columns.
LEMMA SimdgroupPlace ==
    ASSUME call \in Abstract!Calls, ~Lut
    PROVE  /\ \A t \in Lanes :
                 /\ t \in Nat
                 /\ t \div Config.simd_columns \in 0..Config.simd_rows - 1
                 /\ t % Config.simd_columns \in 0..Config.simd_columns - 1
                 /\ t = (t \div Config.simd_columns) * Config.simd_columns
                            + (t % Config.simd_columns)
           /\ \A i \in 0..Config.simd_rows - 1, k \in 0..Config.simd_columns - 1 :
                 /\ i * Config.simd_columns + k \in Lanes
                 /\ (i * Config.simd_columns + k) \div Config.simd_columns = i
                 /\ (i * Config.simd_columns + k) % Config.simd_columns = k
  <1>1. PICK SR \in Nat \ {0} : SR = Config.simd_rows
    BY GemmShape DEF Positive
  <1>2. PICK SC \in Nat \ {0} : SC = Config.simd_columns
    BY GemmShape DEF Positive
  <1>3. Lanes = 0..SR * SC - 1
    BY <1>1, <1>2 DEF Lanes
  <1>4. ASSUME NEW t \in Lanes
        PROVE  /\ t \in Nat /\ t \div SC \in 0..SR - 1 /\ t % SC \in 0..SC - 1
               /\ t = (t \div SC) * SC + (t % SC)
    <2>1. t \in Nat /\ t < SR * SC
      <3>1. SR * SC \in Nat
        BY Z3
      <3> QED
        BY <1>3, <3>1
    <2>2. t \div SC \in 0..SR - 1
      BY <2>1, QuotientBelow
    <2>3. t % SC \in 0..SC - 1 /\ t = (t \div SC) * SC + (t % SC)
      BY <2>1, DivMod
    <2> QED
      BY <2>1, <2>2, <2>3
  <1>5. ASSUME NEW i \in 0..SR - 1, NEW k \in 0..SC - 1
        PROVE  i * SC + k \in Lanes /\ (i * SC + k) \div SC = i /\ (i * SC + k) % SC = k
    <2>1. i * SC + k \in 0..SR * SC - 1
      BY BlockBelow
    <2>2. (i * SC + k) \div SC = i /\ (i * SC + k) % SC = k
      BY DivModUnique
    <2> QED
      BY <1>3, <2>1, <2>2
  <1> QED
    BY <1>1, <1>2, <1>4, <1>5

\* The rows of a block belong to the columns of simdgroups, column by column.
LEMMA ColumnOfRow ==
    ASSUME call \in Abstract!Calls, ~Lut
    PROVE  /\ \A r \in 0..Config.row_block - 1 :
                 /\ r \div RowsPerSimd \in 0..Config.simd_columns - 1
                 /\ r % RowsPerSimd \in 0..RowsPerSimd - 1
                 /\ r = (r \div RowsPerSimd) * RowsPerSimd + (r % RowsPerSimd)
           /\ \A k \in 0..Config.simd_columns - 1, l \in 0..RowsPerSimd - 1 :
                 /\ k * RowsPerSimd + l \in 0..Config.row_block - 1
                 /\ (k * RowsPerSimd + l) \div RowsPerSimd = k
  <1>1. PICK SC \in Nat \ {0} : SC = Config.simd_columns
    BY GemmShape DEF Positive
  <1>2. PICK W \in Nat \ {0} : W = RowsPerSimd
    BY SimdShape DEF Positive
  <1>3. Config.row_block = SC * W
    BY <1>1, <1>2, SimdShape
  <1>4. ASSUME NEW r \in 0..SC * W - 1
        PROVE  /\ r \div W \in 0..SC - 1 /\ r % W \in 0..W - 1
               /\ r = (r \div W) * W + (r % W)
    <2>1. r \in Nat /\ r < SC * W
      <3>1. SC * W \in Nat
        BY Z3
      <3> QED
        BY <3>1
    <2>2. r \div W \in 0..SC - 1
      BY <2>1, QuotientBelow
    <2>3. r % W \in 0..W - 1 /\ r = (r \div W) * W + (r % W)
      BY <2>1, DivMod
    <2> QED
      BY <2>2, <2>3
  <1>5. ASSUME NEW k \in 0..SC - 1, NEW l \in 0..W - 1
        PROVE  k * W + l \in 0..SC * W - 1 /\ (k * W + l) \div W = k
    <2>1. k * W + l \in 0..SC * W - 1
      BY BlockBelow
    <2>2. (k * W + l) \div W = k
      BY DivModUnique
    <2> QED
      BY <2>1, <2>2
  <1> QED
    BY <1>1, <1>2, <1>3, <1>4, <1>5

\* A simdgroup that stores its fragments itself has the cells it multiplied.
LEMMA DirectStoresOwn ==
    ASSUME call \in Abstract!Calls, at \in Blocks, ~Lut, Config.direct_epilogue,
           NEW t \in Lanes, Complete(t)
    PROVE  DirectStores(t) = {Right(c) : c \in Own(at, t, 0)}
  <1>1. PICK SC \in Nat \ {0} : SC = Config.simd_columns
    BY GemmShape DEF Positive
  <1>2. PICK W \in Nat \ {0} : W = RowsPerSimd
    BY SimdShape DEF Positive
  <1>3. PICK P \in Nat \ {0} : P = SamplesPerSimd
    BY SimdShape DEF Positive
  <1>4. PICK X \in Nat : X = at.x * Config.row_block
    BY GemmPlace, GemmShape, Z3 DEF Positive
  <1>5. PICK Y \in Nat : Y = at.y * Config.batch_block
    BY GemmPlace, GemmShape, Z3 DEF Positive
  <1>6. PICK i \in Nat, k \in Nat :
            /\ i \in 0..Config.simd_rows - 1 /\ k \in 0..Config.simd_columns - 1
            /\ i = t \div SC /\ k = t % SC /\ t = i * SC + k
    <2>1. /\ t \div SC \in 0..Config.simd_rows - 1 /\ t % SC \in 0..Config.simd_columns - 1
          /\ t = (t \div SC) * SC + (t % SC)
      BY <1>1, SimdgroupPlace
    <2>2. Config.simd_rows \in Nat /\ Config.simd_columns \in Nat
      BY GemmShape DEF Positive
    <2>3. t \div SC \in Nat /\ t % SC \in Nat
      BY <2>1, <2>2
    <2> QED
      BY <2>1, <2>3
  <1>7. i * P \in Nat /\ k * W \in Nat
    BY Z3
  <1>8. OwnSamples(t) = Y + i * P..(Y + i * P) + P - 1
    BY <1>1, <1>3, <1>5, <1>6 DEF OwnSamples
  <1>9. OwnRows(t) = X + k * W..(X + k * W) + W - 1
    BY <1>1, <1>2, <1>4, <1>6 DEF OwnRows
  <1>10. acc[t] = Abstract!Piece(call, 1)
    BY GemmPlace DEF Complete
  <1>11. \A c : Turn(c) = 0
    BY DEF Turn, Strips
  <1>12. ASSUME NEW s \in DirectStores(t)
         PROVE  \E c \in Own(at, t, 0) : s = Right(c)
    <2>1. PICK m \in OwnSamples(t), n \in OwnRows(t) :
              /\ InBounds(m, n)
              /\ s = [at |-> Addr(0, m, n), value |-> Element(m, n, acc[t])]
      BY <1>12 DEF DirectStores
    <2>2. PICK j \in 0..P - 1 : m = Y + (i * P + j)
      <3>1. m - (Y + i * P) \in 0..P - 1 /\ m = Y + (i * P + (m - (Y + i * P)))
        BY <1>7, <1>8, <2>1
      <3> QED
        BY <3>1
    <2>3. PICK l \in 0..W - 1 : n = X + (k * W + l)
      <3>1. n - (X + k * W) \in 0..W - 1 /\ n = X + (k * W + (n - (X + k * W)))
        BY <1>7, <1>9, <2>1
      <3> QED
        BY <3>1
    <2>4. PICK r \in 0..Config.row_block - 1 : r = k * W + l /\ r \div W = k
      <3>1. k * W + l \in 0..Config.row_block - 1 /\ (k * W + l) \div W = k
        BY <1>2, <1>6, ColumnOfRow
      <3> QED
        BY <3>1
    <2> DEFINE c == <<0, m, n>>
    <2>5. /\ c \in Cells /\ Owner(c) = at /\ SimdRow(c) = i /\ n % Config.row_block = r
          /\ Element(m, n, acc[t]) = [sample |-> m, row |-> n, steps |-> acc[t]]
      <3>1. PICK a \in 0..Config.simd_rows - 1 : a = i
        BY <1>6
      <3>2. m = Y + (a * P + j)
        BY <2>2, <3>1
      <3>3. j \in 0..SamplesPerSimd - 1
        BY <1>3
      <3>4. m = at.y * Config.batch_block + (a * SamplesPerSimd + j)
        BY <1>3, <1>5, <3>2
      <3>5. n = at.x * Config.row_block + r
        BY <1>4, <2>3, <2>4
      <3>6. /\ c \in Cells /\ Owner(c) = at /\ SimdRow(c) = a /\ n % Config.row_block = r
            /\ \A steps : Element(m, n, steps) = [sample |-> m, row |-> n, steps |-> steps]
        BY <2>1, <3>3, <3>4, <3>5, PlaceOfBlock
      <3> QED
        BY <3>1, <3>6
    <2>6. Lane(c) = t
      BY <1>1, <1>2, <1>6, <2>4, <2>5 DEF Lane
    <2>7. s = Right(c)
      BY <1>10, <2>1, <2>5 DEF Right
    <2> QED
      BY <1>11, <2>5, <2>6, <2>7 DEF Own
  <1>13. ASSUME NEW c \in Own(at, t, 0)
         PROVE  Right(c) \in DirectStores(t)
    <2>1. c \in Cells /\ Owner(c) = at /\ Lane(c) = t
      BY <1>13 DEF Own
    <2>2. PICK m, n : c = <<0, m, n>> /\ m = c[2] /\ n = c[3] /\ InBounds(m, n)
      BY <2>1, CellOfBlock
    <2>3. PICK a \in 0..Config.simd_rows - 1, j \in 0..P - 1 :
              m = Y + (a * P + j) /\ a = SimdRow(c) /\ j = SampleOf(c)
      BY <1>3, <1>5, <2>1, <2>2, CellOfBlock
    <2>4. PICK r \in 0..Config.row_block - 1 : n = X + r /\ r = n % Config.row_block
      BY <1>4, <2>1, <2>2, CellOfBlock
    <2>5. PICK b \in 0..SC - 1, l \in 0..W - 1 : r = b * W + l /\ b = r \div W
      BY <1>1, <1>2, ColumnOfRow
    <2>6. t = a * SC + b
      BY <1>1, <1>2, <2>1, <2>2, <2>3, <2>4, <2>5 DEF Lane
    <2>7. a = i /\ b = k
      <3>1. b \in 0..Config.simd_columns - 1
        BY <1>1
      <3>2. (a * SC + b) \div SC = a /\ (a * SC + b) % SC = b
        BY <1>1, <3>1, SimdgroupPlace
      <3> QED
        BY <1>6, <2>6, <3>2
    <2>8. m \in OwnSamples(t) /\ n \in OwnRows(t)
      <3>1. m = Y + (i * P + j) /\ n = X + (k * W + l)
        BY <2>3, <2>4, <2>5, <2>7
      <3> QED
        BY <1>7, <1>8, <1>9, <3>1
    <2>9. Element(m, n, acc[t]) = [sample |-> m, row |-> n, steps |-> acc[t]]
      <3>1. j \in 0..SamplesPerSimd - 1
        BY <1>3
      <3>2. m = at.y * Config.batch_block + (a * SamplesPerSimd + j)
        BY <1>3, <1>5, <2>3
      <3>3. n = at.x * Config.row_block + r
        BY <1>4, <2>4
      <3>4. \A steps : Element(m, n, steps) = [sample |-> m, row |-> n, steps |-> steps]
        BY <2>2, <3>1, <3>2, <3>3, PlaceOfBlock
      <3> QED
        BY <3>4
    <2>10. Right(c) = [at |-> Addr(0, m, n), value |-> Element(m, n, acc[t])]
      BY <1>10, <2>2, <2>9 DEF Right
    <2>11. <<m, n>> \in {e \in OwnSamples(t) \X OwnRows(t) : InBounds(e[1], e[2])}
      BY <2>2, <2>8
    <2> QED
      BY <2>10, <2>11 DEF DirectStores
  <1> QED
    BY <1>12, <1>13

\* The index of a place in the staged strip: its row of simdgroups, its sample in the
\* matrix and its row of the block.
SlotOf(s, k, r) == (s * MATRIX_TILE + k) * Config.row_block + r
\* The places of the allocation that stages a strip.
Slots == 0..Config.simd_rows * MATRIX_TILE * Config.row_block - 1

\* A place is its row of simdgroups, its sample and its row.
SlotIs(idx, s, k, r) ==
    /\ idx \in Slots /\ idx % Config.row_block = r
    /\ (idx \div Config.row_block) \div MATRIX_TILE = s
    /\ (idx \div Config.row_block) % MATRIX_TILE = k

\* A place determines the three.
LEMMA SlotDigits ==
    ASSUME call \in Abstract!Calls, ~Lut
    PROVE  /\ \A idx \in Slots :
                 \E s \in 0..Config.simd_rows - 1, k \in 0..MATRIX_TILE - 1,
                    r \in 0..Config.row_block - 1 : idx = SlotOf(s, k, r)
           /\ \A s \in 0..Config.simd_rows - 1, k \in 0..MATRIX_TILE - 1,
                 r \in 0..Config.row_block - 1 : SlotIs(SlotOf(s, k, r), s, k, r)
  <1>1. PICK SR \in Nat \ {0} : SR = Config.simd_rows
    BY GemmShape DEF Positive
  <1>2. PICK RB \in Nat \ {0} : RB = Config.row_block
    BY GemmShape DEF Positive
  <1>3. PICK q \in Nat \ {0} : q = MATRIX_TILE
    BY ConfigAssumption
  <1>4. PICK h \in Nat : h = SR * q
    BY Z3
  <1>5. PICK z \in Nat : z = h * RB
    BY Z3
  <1>6. Slots = 0..z - 1
    BY <1>1, <1>2, <1>3, <1>4, <1>5 DEF Slots
  <1>7. \A s, k, r : SlotOf(s, k, r) = (s * q + k) * RB + r
    BY <1>2, <1>3 DEF SlotOf
  <1>8. ASSUME NEW idx \in 0..z - 1
        PROVE  \E s \in 0..SR - 1, k \in 0..q - 1, r \in 0..RB - 1 : idx = (s * q + k) * RB + r
    <2>1. idx \in Nat /\ idx < h * RB
      BY <1>5
    <2>2. PICK f \in 0..h - 1, r \in 0..RB - 1 : idx = f * RB + r
      <3>1. idx \div RB \in 0..h - 1
        BY <2>1, QuotientBelow
      <3>2. idx % RB \in 0..RB - 1 /\ idx = (idx \div RB) * RB + (idx % RB)
        BY <2>1, DivMod
      <3> QED
        BY <3>1, <3>2
    <2>3. f \in Nat /\ f < SR * q
      BY <1>4
    <2>4. f \div q \in 0..SR - 1
      BY <2>3, QuotientBelow
    <2>5. f % q \in 0..q - 1 /\ f = (f \div q) * q + (f % q)
      BY <2>3, DivMod
    <2> QED
      BY <2>2, <2>4, <2>5
  <1>9. ASSUME NEW s \in 0..SR - 1, NEW k \in 0..q - 1, NEW r \in 0..RB - 1
        PROVE  /\ (s * q + k) * RB + r \in 0..z - 1
               /\ ((s * q + k) * RB + r) % RB = r
               /\ (((s * q + k) * RB + r) \div RB) \div q = s
               /\ (((s * q + k) * RB + r) \div RB) % q = k
    <2>1. PICK f \in 0..h - 1 : f = s * q + k
      <3>1. s * q + k \in 0..SR * q - 1
        BY BlockBelow
      <3> QED
        BY <1>4, <3>1
    <2>2. f * RB + r \in 0..h * RB - 1
      BY BlockBelow
    <2>3. (f * RB + r) \div RB = f /\ (f * RB + r) % RB = r
      BY DivModUnique
    <2>4. (s * q + k) \div q = s /\ (s * q + k) % q = k
      BY DivModUnique
    <2>5. ((f * RB + r) \div RB) \div q = s /\ ((f * RB + r) \div RB) % q = k
      BY <2>1, <2>3, <2>4
    <2> QED
      BY <1>5, <2>1, <2>2, <2>3, <2>5
  <1>10. ASSUME NEW idx \in Slots
         PROVE  \E s \in 0..Config.simd_rows - 1, k \in 0..MATRIX_TILE - 1,
                   r \in 0..Config.row_block - 1 : idx = SlotOf(s, k, r)
    <2>1. PICK s \in 0..SR - 1, k \in 0..q - 1, r \in 0..RB - 1 : idx = (s * q + k) * RB + r
      BY <1>6, <1>8
    <2>2. s \in 0..Config.simd_rows - 1 /\ k \in 0..MATRIX_TILE - 1 /\ r \in 0..Config.row_block - 1
      BY <1>1, <1>2, <1>3
    <2>3. idx = SlotOf(s, k, r)
      BY <1>7, <2>1
    <2> QED
      BY <2>2, <2>3
  <1>11. ASSUME NEW s \in 0..Config.simd_rows - 1, NEW k \in 0..MATRIX_TILE - 1,
                NEW r \in 0..Config.row_block - 1
         PROVE  SlotIs(SlotOf(s, k, r), s, k, r)
    <2>1. s \in 0..SR - 1 /\ k \in 0..q - 1 /\ r \in 0..RB - 1
      BY <1>1, <1>2, <1>3
    <2>2. /\ (s * q + k) * RB + r \in 0..z - 1
          /\ ((s * q + k) * RB + r) % RB = r
          /\ (((s * q + k) * RB + r) \div RB) \div q = s
          /\ (((s * q + k) * RB + r) \div RB) % q = k
      BY <1>9, <2>1
    <2> QED
      BY <1>2, <1>3, <1>6, <1>7, <2>2 DEF SlotIs
  <1> QED
    BY <1>10, <1>11

\* The cell that a place of strip i is for.
Placed(s, k, r, i) ==
    [m |-> at.y * Config.batch_block + s * SamplesPerSimd + i * MATRIX_TILE + k,
     n |-> at.x * Config.row_block + r,
     from |-> s * Config.simd_columns + r \div RowsPerSimd]

\* The cells that a thread stores from a strip.
LEMMA StripCellsAre ==
    ASSUME call \in Abstract!Calls, ~Lut, NEW t, NEW i
    PROVE  /\ \A c \in StripCells(t, i) :
                 \E s \in 0..Config.simd_rows - 1, k \in 0..MATRIX_TILE - 1,
                    r \in 0..Config.row_block - 1 :
                        /\ c = Placed(s, k, r, i) /\ InBounds(c.m, c.n)
                        /\ (SlotOf(s, k, r) \div SIMD_WIDTH) % Cardinality(Lanes) = t
           /\ \A s \in 0..Config.simd_rows - 1, k \in 0..MATRIX_TILE - 1,
                 r \in 0..Config.row_block - 1 :
                    /\ InBounds(Placed(s, k, r, i).m, Placed(s, k, r, i).n)
                    /\ (SlotOf(s, k, r) \div SIMD_WIDTH) % Cardinality(Lanes) = t
                    => Placed(s, k, r, i) \in StripCells(t, i)
  <1> DEFINE Cell(idx) ==
                 [m |-> at.y * Config.batch_block
                            + ((idx \div Config.row_block) \div MATRIX_TILE) * SamplesPerSimd
                            + i * MATRIX_TILE + ((idx \div Config.row_block) % MATRIX_TILE),
                  n |-> at.x * Config.row_block + (idx % Config.row_block),
                  from |-> ((idx \div Config.row_block) \div MATRIX_TILE) * Config.simd_columns
                               + (idx % Config.row_block) \div RowsPerSimd]
             Mine == {idx \in Slots : (idx \div SIMD_WIDTH) % Cardinality(Lanes) = t}
  <1>1. StripCells(t, i) = {c \in {Cell(idx) : idx \in Mine} : InBounds(c.m, c.n)}
    BY DEF StripCells, Slots
  <1>2. ASSUME NEW s \in 0..Config.simd_rows - 1, NEW k \in 0..MATRIX_TILE - 1,
               NEW r \in 0..Config.row_block - 1
        PROVE  Cell(SlotOf(s, k, r)) = Placed(s, k, r, i) /\ SlotOf(s, k, r) \in Slots
    <2>1. SlotIs(SlotOf(s, k, r), s, k, r)
      BY SlotDigits, Zenon
    <2> QED
      BY <2>1 DEF SlotIs, Placed
  <1> HIDE DEF Cell
  <1>3. ASSUME NEW c \in StripCells(t, i)
        PROVE  \E s \in 0..Config.simd_rows - 1, k \in 0..MATRIX_TILE - 1,
                  r \in 0..Config.row_block - 1 :
                      /\ c = Placed(s, k, r, i) /\ InBounds(c.m, c.n)
                      /\ (SlotOf(s, k, r) \div SIMD_WIDTH) % Cardinality(Lanes) = t
    <2>1. PICK idx \in Mine : c = Cell(idx) /\ InBounds(c.m, c.n)
      BY <1>1
    <2>2. PICK s \in 0..Config.simd_rows - 1, k \in 0..MATRIX_TILE - 1,
               r \in 0..Config.row_block - 1 : idx = SlotOf(s, k, r)
      BY <2>1, SlotDigits
    <2> QED
      BY <1>2, <2>1, <2>2
  <1>4. ASSUME NEW s \in 0..Config.simd_rows - 1, NEW k \in 0..MATRIX_TILE - 1,
               NEW r \in 0..Config.row_block - 1,
               InBounds(Placed(s, k, r, i).m, Placed(s, k, r, i).n),
               (SlotOf(s, k, r) \div SIMD_WIDTH) % Cardinality(Lanes) = t
        PROVE  Placed(s, k, r, i) \in StripCells(t, i)
    <2>1. SlotOf(s, k, r) \in Mine /\ Cell(SlotOf(s, k, r)) = Placed(s, k, r, i)
      BY <1>2, <1>4
    <2> HIDE DEF Mine
    <2> QED
      BY <1>1, <1>4, <2>1
  <1> QED
    BY <1>3, <1>4

\* The strip as it was staged gives every cell what belongs into it.
LEMMA PlacedIsRight ==
    ASSUME call \in Abstract!Calls, at \in Blocks, ~Lut, ~Config.direct_epilogue,
           NEW i \in 0..Strips - 1,
           \A u \in Lanes : stage[u] = Strip(i, Abstract!Piece(call, 1)),
           NEW s \in 0..Config.simd_rows - 1, NEW k \in 0..MATRIX_TILE - 1,
           NEW r \in 0..Config.row_block - 1,
           NEW c, c = Placed(s, k, r, i), InBounds(c.m, c.n)
    PROVE  /\ <<0, c.m, c.n>> \in Cells /\ Owner(<<0, c.m, c.n>>) = at
           /\ Turn(<<0, c.m, c.n>>) = i
           /\ Lane(<<0, c.m, c.n>>) = (SlotOf(s, k, r) \div SIMD_WIDTH) % Cardinality(Lanes)
           /\ Right(<<0, c.m, c.n>>) =
                  [at |-> Addr(0, c.m, c.n), value |-> Element(c.m, c.n, Stored(c.from, i))]
  <1>1. PICK q \in Nat \ {0} : q = MATRIX_TILE
    BY ConfigAssumption
  <1>2. PICK N \in Nat \ {0} : N = Strips
    BY StripShape
  <1>3. PICK P \in Nat \ {0} : P = SamplesPerSimd /\ P = N * q
    BY <1>1, <1>2, SimdShape DEF Positive
  <1>4. PICK X \in Nat : X = at.x * Config.row_block
    BY GemmPlace, GemmShape, Z3 DEF Positive
  <1>5. PICK Y \in Nat : Y = at.y * Config.batch_block
    BY GemmPlace, GemmShape, Z3 DEF Positive
  <1>6. i \in 0..N - 1 /\ k \in 0..q - 1
    BY <1>1, <1>2
  <1>7. PICK j \in 0..P - 1 : j = i * q + k /\ j \div q = i /\ j % q = k
    <2>1. i * q + k \in 0..N * q - 1
      BY <1>6, BlockBelow
    <2>2. i \in Nat
      BY <1>6
    <2>3. (i * q + k) \div q = i /\ (i * q + k) % q = k
      BY <1>6, <2>2, DivModUnique
    <2> QED
      BY <1>3, <2>1, <2>3
  <1>8. PICK S \in Nat : S = s * P
    BY <1>3, GemmShape, Z3 DEF Positive
  <1>9. c.m = Y + (S + j)
    <2>1. c.m = Y + S + i * q + k
      BY <1>1, <1>3, <1>5, <1>8 DEF Placed
    <2>2. i * q \in Nat /\ k \in Nat /\ j = i * q + k
      BY <1>6, <1>7, Z3
    <2> QED
      BY <2>1, <2>2
  <1>10. c.n = X + r
    BY <1>4 DEF Placed
  <1> DEFINE d == <<0, c.m, c.n>>
  <1>11. /\ d \in Cells /\ Owner(d) = at
         /\ SimdRow(d) = s /\ SampleOf(d) = j
         /\ c.n % Config.row_block = r
         /\ \A steps : Element(c.m, c.n, steps) = [sample |-> c.m, row |-> c.n, steps |-> steps]
    <2>1. j \in 0..SamplesPerSimd - 1
      BY <1>3, <1>7
    <2>2. c.m = at.y * Config.batch_block + (s * SamplesPerSimd + j)
      BY <1>3, <1>5, <1>8, <1>9
    <2>3. c.n = at.x * Config.row_block + r
      BY <1>4, <1>10
    <2> QED
      BY <2>1, <2>2, <2>3, PlaceOfBlock
  <1>12. Turn(d) = i
    BY <1>1, <1>2, <1>7, <1>11 DEF Turn
  <1>13. Lane(d) = (SlotOf(s, k, r) \div SIMD_WIDTH) % Cardinality(Lanes)
    <2>1. Slot(d) = SlotOf(s, k, r)
      BY <1>1, <1>7, <1>11 DEF Slot, SlotOf
    <2> QED
      BY <2>1 DEF Lane
  <1>14. c.from \in Lanes
    <2>1. r \div RowsPerSimd \in 0..Config.simd_columns - 1
      BY ColumnOfRow
    <2>2. s * Config.simd_columns + (r \div RowsPerSimd) \in Lanes
      BY <2>1, SimdgroupPlace
    <2> QED
      BY <2>2 DEF Placed
  <1>15. Stored(c.from, i) = Abstract!Piece(call, 1)
    BY <1>14 DEF Stored, Strip
  <1>16. Right(d) = [at |-> Addr(0, c.m, c.n), value |-> Element(c.m, c.n, Stored(c.from, i))]
    BY <1>11, <1>15 DEF Right
  <1> QED
    BY <1>11, <1>12, <1>13, <1>16

\* Through the allocation, a simdgroup stores cells that others multiplied.
LEMMA StripStoresOwn ==
    ASSUME call \in Abstract!Calls, at \in Blocks, ~Lut, ~Config.direct_epilogue,
           NEW t \in Lanes, NEW i \in 0..Strips - 1,
           \A u \in Lanes : stage[u] = Strip(i, Abstract!Piece(call, 1))
    PROVE  StripStores(t, i) = {Right(c) : c \in Own(at, t, i)}
  <1>1. ASSUME NEW w \in StripStores(t, i)
        PROVE  \E c \in Own(at, t, i) : w = Right(c)
    <2>1. PICK c \in StripCells(t, i) :
              w = [at |-> Addr(0, c.m, c.n), value |-> Element(c.m, c.n, Stored(c.from, i))]
      BY <1>1 DEF StripStores
    <2>2. PICK s \in 0..Config.simd_rows - 1, k \in 0..MATRIX_TILE - 1,
               r \in 0..Config.row_block - 1 :
                  /\ c = Placed(s, k, r, i) /\ InBounds(c.m, c.n)
                  /\ (SlotOf(s, k, r) \div SIMD_WIDTH) % Cardinality(Lanes) = t
      BY StripCellsAre
    <2>3. /\ <<0, c.m, c.n>> \in Cells /\ Owner(<<0, c.m, c.n>>) = at
          /\ Turn(<<0, c.m, c.n>>) = i
          /\ Lane(<<0, c.m, c.n>>) = (SlotOf(s, k, r) \div SIMD_WIDTH) % Cardinality(Lanes)
          /\ Right(<<0, c.m, c.n>>) =
                 [at |-> Addr(0, c.m, c.n), value |-> Element(c.m, c.n, Stored(c.from, i))]
      BY <2>2, PlacedIsRight
    <2>4. <<0, c.m, c.n>> \in Own(at, t, i) /\ w = Right(<<0, c.m, c.n>>)
      BY <2>1, <2>2, <2>3 DEF Own
    <2> QED
      BY <2>4
  <1>2. ASSUME NEW c \in Own(at, t, i)
        PROVE  Right(c) \in StripStores(t, i)
    <2>1. c \in Cells /\ Owner(c) = at /\ Lane(c) = t /\ Turn(c) = i
      BY <1>2 DEF Own
    <2>2. PICK q \in Nat \ {0} : q = MATRIX_TILE
      BY ConfigAssumption
    <2>3. PICK P \in Nat \ {0} : P = SamplesPerSimd
      BY SimdShape DEF Positive
    <2>4. PICK X \in Nat : X = at.x * Config.row_block
      BY GemmPlace, GemmShape, Z3 DEF Positive
    <2>5. PICK Y \in Nat : Y = at.y * Config.batch_block
      BY GemmPlace, GemmShape, Z3 DEF Positive
    <2>6. PICK m, n : c = <<0, m, n>> /\ m = c[2] /\ n = c[3] /\ InBounds(m, n)
      BY <2>1, CellOfBlock
    <2>7. PICK s \in 0..Config.simd_rows - 1, j \in 0..P - 1 :
              m = Y + (s * P + j) /\ s = SimdRow(c) /\ j = SampleOf(c)
      BY <2>1, <2>3, <2>5, <2>6, CellOfBlock
    <2>8. PICK r \in 0..Config.row_block - 1 : n = X + r /\ r = n % Config.row_block
      BY <2>1, <2>4, <2>6, CellOfBlock
    <2>9. PICK k \in 0..MATRIX_TILE - 1 : j = i * q + k /\ k = j % q
      <3>1. i = j \div q
        BY <2>1, <2>2, <2>7, StripShape DEF Turn
      <3>2. j \in Nat
        OBVIOUS
      <3>3. j % q \in 0..q - 1 /\ j = (j \div q) * q + (j % q)
        BY <3>2, DivMod
      <3> QED
        BY <2>2, <3>1, <3>3
    <2> DEFINE e == Placed(s, k, r, i)
    <2>10. e.m = m /\ e.n = n
      <3>1. PICK S \in Nat : S = s * P
        BY GemmShape, Z3 DEF Positive
      <3>2. i * q \in Nat /\ k \in Nat
        BY <2>2, StripShape, Z3
      <3>3. e.m = Y + S + i * q + k
        BY <2>2, <2>3, <2>5, <3>1 DEF Placed
      <3>4. m = Y + (S + (i * q + k))
        BY <2>7, <2>9, <3>1
      <3>5. e.m = m
        BY <3>2, <3>3, <3>4
      <3> QED
        BY <2>4, <2>8, <3>5 DEF Placed
    <2>11. (SlotOf(s, k, r) \div SIMD_WIDTH) % Cardinality(Lanes) = t
      <3>1. Slot(c) = SlotOf(s, k, r)
        BY <2>2, <2>6, <2>7, <2>8, <2>9 DEF Slot, SlotOf
      <3> QED
        BY <2>1, <3>1 DEF Lane
    <2>12. e \in StripCells(t, i)
      BY <2>6, <2>10, <2>11, StripCellsAre
    <2>13. Right(c) = [at |-> Addr(0, e.m, e.n), value |-> Element(e.m, e.n, Stored(e.from, i))]
      <3>1. InBounds(e.m, e.n)
        BY <2>6, <2>10
      <3>2. Right(<<0, e.m, e.n>>) =
                [at |-> Addr(0, e.m, e.n), value |-> Element(e.m, e.n, Stored(e.from, i))]
        BY <3>1, PlacedIsRight
      <3> QED
        BY <2>6, <2>10, <3>2
    <2> QED
      BY <2>12, <2>13 DEF StripStores
  <1> QED
    BY <1>1, <1>2

\* A thread that writes stores its cells of this turn, and into each what belongs there.
LEMMA StoresOwn ==
    ASSUME TypeOK, Started, Running, NEW t \in Lanes, pc[t] = "write"
    PROVE  Stores(t) = {Right(c) : c \in Own(at, t, strip[t])}
  <1>1. /\ call \in Abstract!Calls /\ at \in Blocks /\ strip[t] \in Nat
        /\ Course(t) /\ Summed(t)
    BY Bounds DEF TypeOK, Started, Running, Thread
  <1>2. StepsFrom(First, Last) = Abstract!Piece(call, at.z + 1)
    BY <1>1, PieceOfBlock DEF First, Last
  <1>3. step[t] = Last /\ strip[t] < Turns /\ Complete(t)
    BY <1>1, <1>2 DEF Course, Summed, Complete
  <1>4. CASE Lut \/ Config.direct_epilogue
    <2>1. strip[t] = 0
      BY <1>1, <1>3, <1>4, StripShape DEF Positive
    <2>2. CASE Lut
      BY <1>1, <1>3, <2>1, <2>2, LutStoresOwn DEF Stores
    <2>3. CASE ~Lut
      BY <1>1, <1>3, <1>4, <2>1, <2>3, DirectStoresOwn DEF Stores
    <2> QED
      BY <2>2, <2>3
  <1>5. CASE ~(Lut \/ Config.direct_epilogue)
    <2>1. Strips > 0 /\ Turns = Strips /\ Strips \in Nat
      BY <1>1, <1>5, StripShape
    <2>2. at.z + 1 = 1
      BY <1>1, <1>5, GemmPlace
    <2>3. \A u \in Lanes : stage[u] = Strip(strip[t], Abstract!Piece(call, 1))
      BY <1>2, <2>1, <2>2, WriterSeesAll
    <2>4. strip[t] \in 0..Strips - 1
      BY <1>1, <1>3, <2>1
    <2>5. StripStores(t, strip[t]) = {Right(c) : c \in Own(at, t, strip[t])}
      BY <1>1, <1>5, <2>3, <2>4, StripStoresOwn
    <2> QED
      BY <1>5, <2>5 DEF Stores
  <1> QED
    BY <1>4, <1>5

\* Every cell has its thread, and its turn comes.
LEMMA LaneAndTurn ==
    ASSUME call \in Abstract!Calls, NEW c \in Cells
    PROVE  Lane(c) \in Lanes /\ Turn(c) \in 0..Turns - 1
  <1>1. PICK m \in Nat, n \in Nat : m = c[2] /\ n = c[3]
    BY DEF Cells
  <1>2. CASE Lut
    <2>1. PICK T \in Nat \ {0} : T = Layout.tile
      BY CallShape DEF Positive
    <2>2. PICK w \in Nat \ {0} : w = Config.threads
      BY <1>2, LutShape DEF Positive
    <2>3. n % T \in Nat
      BY DivMod
    <2>4. (n % T) % w \in 0..w - 1
      BY <2>3, DivMod
    <2>5. Turn(c) = 0 /\ Turns = 1
      BY <1>2 DEF Turn, Turns, Strips
    <2> QED
      BY <1>1, <1>2, <2>1, <2>2, <2>4, <2>5 DEF Lane, Lanes
  <1>3. CASE ~Lut
    <2>1. PICK BB \in Nat \ {0} : BB = Config.batch_block
      BY <1>3, GemmShape DEF Positive
    <2>2. PICK SR \in Nat \ {0} : SR = Config.simd_rows
      BY <1>3, GemmShape DEF Positive
    <2>3. PICK P \in Nat \ {0} : P = SamplesPerSimd /\ Makes(SR, P, BB)
      BY <1>3, <2>1, <2>2, SimdShape DEF Positive, Makes
    <2>4. PICK RB \in Nat \ {0} : RB = Config.row_block
      BY <1>3, GemmShape DEF Positive
    <2>5. PICK q \in Nat \ {0} : q = MATRIX_TILE
      BY ConfigAssumption
    <2>6. SplitAt(SR, P, BB, m)
      BY <2>3, NestedSplit, Zenon
    <2>7. PICK s \in 0..SR - 1, j \in 0..P - 1 : s = SimdRow(c) /\ j = SampleOf(c)
      BY <1>1, <2>1, <2>3, <2>6 DEF SimdRow, SampleOf, SplitAt
    <2>8. PICK r \in 0..RB - 1 : r = n % RB
      BY DivMod
    <2>9. Turn(c) \in 0..Turns - 1
      <3>1. CASE Strips = 0
        BY <3>1 DEF Turn, Turns
      <3>2. CASE Strips # 0
        <4>1. PICK N \in Nat \ {0} : N = Strips
          BY <3>2, StripShape
        <4>2. P = N * q
          BY <1>3, <2>3, <2>5, <4>1, SimdShape
        <4>3. j \in Nat /\ j < N * q
          BY <4>2
        <4>4. j \div q \in 0..N - 1
          BY <4>3, QuotientBelow
        <4> QED
          BY <2>5, <2>7, <3>2, <4>1, <4>4 DEF Turn, Turns
      <3> QED
        BY <3>1, <3>2
    <2>10. Lane(c) \in Lanes
      <3>1. CASE Config.direct_epilogue
        <4>1. r \in 0..Config.row_block - 1 /\ s \in 0..Config.simd_rows - 1
          BY <2>2, <2>4
        <4>2. r \div RowsPerSimd \in 0..Config.simd_columns - 1
          BY <1>3, <4>1, ColumnOfRow
        <4>3. s * Config.simd_columns + (r \div RowsPerSimd) \in Lanes
          BY <1>3, <4>1, <4>2, SimdgroupPlace
        <4> QED
          BY <1>1, <1>3, <2>4, <2>7, <2>8, <3>1, <4>3 DEF Lane
      <3>2. CASE ~Config.direct_epilogue
        <4>1. PICK W \in Nat \ {0} : W = Cardinality(Lanes) /\ Lanes = 0..W - 1
          BY LaneCount DEF Positive
        <4>2. PICK k \in 0..q - 1 : k = j % q
          <5>1. j \in Nat
            OBVIOUS
          <5> QED
            BY <5>1, DivMod
        <4>3. PICK z \in Nat : z = Slot(c)
          <5>1. PICK f \in Nat : f = s * q + k
            BY Z3
          <5>2. f * RB + r \in Nat
            BY Z3
          <5>3. Slot(c) = f * RB + r
            BY <1>1, <2>4, <2>5, <2>7, <2>8, <4>2, <5>1 DEF Slot
          <5> QED
            BY <5>2, <5>3
        <4>4. PICK v \in Nat \ {0} : v = SIMD_WIDTH
          BY ConfigAssumption
        <4>5. z \div v \in Nat
          BY DivMod
        <4>6. (z \div v) % W \in 0..W - 1
          BY <4>5, DivMod
        <4> QED
          BY <1>3, <3>2, <4>1, <4>3, <4>4, <4>6 DEF Lane
      <3> QED
        BY <3>1, <3>2
    <2> QED
      BY <2>9, <2>10
  <1> QED
    BY <1>2, <1>3

\* When a threadgroup is finished, its cells are there; before the first, none is.
LEMMA FinishedIsWritten ==
    ASSUME TypeOK, call # None, Running, Idle, NEW c \in Cells
    PROVE  Written(c) <=> Owner(c) \notin left
  <1>1. call \in Abstract!Calls
    BY DEF TypeOK
  <1>2. Owner(c) \in Blocks /\ Lane(c) \in Lanes /\ Turn(c) \in 0..Turns - 1 /\ Turns \in Nat
    BY <1>1, OwnerInGrid, LaneAndTurn, StripShape DEF Positive
  <1>3. CASE at = None
    BY <1>2, <1>3 DEF Written, TypeOK
  <1>4. CASE at # None
    <2>1. strip[Lane(c)] = Turns
      BY <1>2, <1>4 DEF Running, Thread, Course, Idle
    <2> QED
      BY <1>2, <1>4, <2>1 DEF Written
  <1> QED
    BY <1>3, <1>4

----------------------------------------------------------------------------
(* The output. *)

\* What belongs into a cell is decided by the call.
LEMMA SameCells ==
    ASSUME call' = call
    PROVE  /\ \A c : Owner(c)' = Owner(c) /\ Lane(c)' = Lane(c) /\ Turn(c)' = Turn(c)
           /\ \A c : Right(c)' = Right(c)
  <1>1. /\ Lanes' = Lanes /\ Layout' = Layout /\ Config' = Config /\ Lut' = Lut
        /\ Strips' = Strips
    BY SameCall
  <1>2. SamplesPerSimd' = SamplesPerSimd /\ RowsPerSimd' = RowsPerSimd
    BY <1>1 DEF SamplesPerSimd, RowsPerSimd
  <1>3. ASSUME NEW c
        PROVE  Owner(c)' = Owner(c) /\ SimdRow(c)' = SimdRow(c) /\ SampleOf(c)' = SampleOf(c)
    BY <1>1, <1>2 DEF Owner, SimdRow, SampleOf
  <1>4. ASSUME NEW c
        PROVE  Slot(c)' = Slot(c) /\ Turn(c)' = Turn(c)
    BY <1>1, <1>3 DEF Slot, Turn
  <1>5. ASSUME NEW c
        PROVE  Lane(c)' = Lane(c)
    BY <1>1, <1>2, <1>3, <1>4 DEF Lane
  <1>6. ASSUME NEW c
        PROVE  Right(c)' = Right(c)
    <2>1. Addr(c[1], c[2], c[3])' = Addr(c[1], c[2], c[3])
      BY <1>1 DEF Addr
    <2>2. Abstract!Piece(call, c[1] + 1)' = Abstract!Piece(call, c[1] + 1)
      OBVIOUS
    <2> QED
      BY <2>1, <2>2 DEF Right
  <1> QED
    BY <1>3, <1>4, <1>5, <1>6

\* A step that stores nothing and starts no threadgroup.
LEMMA OutputStays ==
    ASSUME Output, call # None, UNCHANGED <<call, left, at, strip, out>>
    PROVE  Output'
  <1>1. Cells' = Cells
    BY SameCall
  <1>2. \A c : Written(c)' = Written(c) /\ Right(c)' = Right(c)
    BY SameCells DEF Written
  <1> QED
    BY <1>1, <1>2 DEF Output

\* A turn of a thread adds its cells of this turn.
LEMMA OutputWrite ==
    ASSUME TypeOK, call # None, Running, Output, NEW t \in Lanes, Write(t)
    PROVE  Output'
  <1>1. Started
    BY BusyStarted DEF Write
  <1>2. /\ call \in Abstract!Calls /\ at \in Blocks \ left /\ at # None
        /\ strip \in [Lanes -> Nat]
    BY <1>1 DEF TypeOK, Started
  <1>3. /\ out' = out \union {Right(c) : c \in Own(at, t, strip[t])}
        /\ UNCHANGED <<call, left, at>>
        /\ strip' = [strip EXCEPT ![t] = strip[t] + 1]
    BY <1>1, StoresOwn DEF Write
  <1>4. Cells' = Cells /\ \A c : Right(c)' = Right(c)
    BY <1>3, SameCall, SameCells
  <1>5. ASSUME NEW c \in Cells
        PROVE  Written(c)' <=> Written(c) \/ c \in Own(at, t, strip[t])
    <2>1. Owner(c)' = Owner(c) /\ Lane(c)' = Lane(c) /\ Turn(c)' = Turn(c)
      BY <1>3, SameCells
    <2>2. Lane(c) \in Lanes /\ Turn(c) \in Nat
      BY <1>2, LaneAndTurn
    <2>3. CASE Owner(c) # at
      BY <1>2, <1>3, <2>1, <2>3 DEF Written, Own
    <2>4. CASE Owner(c) = at /\ Lane(c) # t
      BY <1>2, <1>3, <2>1, <2>2, <2>4 DEF Written, Own
    <2>5. CASE Owner(c) = at /\ Lane(c) = t
      <3>1. strip'[t] = strip[t] + 1 /\ strip[t] \in Nat
        BY <1>2, <1>3
      <3>2. strip[t] + 1 > Turn(c) <=> strip[t] > Turn(c) \/ Turn(c) = strip[t]
        BY <2>2, <3>1
      <3> QED
        BY <1>2, <1>3, <2>1, <2>5, <3>1, <3>2 DEF Written, Own
    <2> QED
      BY <2>3, <2>4, <2>5
  <1>6. Own(at, t, strip[t]) \subseteq Cells
    BY DEF Own
  <1>7. out' = {Right(c) : c \in {d \in Cells : Written(d)'}}
    BY <1>2, <1>3, <1>5, <1>6 DEF Output
  <1> QED
    BY <1>3, <1>4, <1>7 DEF Output

\* A threadgroup starts when the one before it is through.
LEMMA OutputBegin ==
    ASSUME TypeOK, call # None, Running, Output, NEW g \in left, Begin(g)
    PROVE  Output'
  <1>1. /\ call \in Abstract!Calls /\ left \subseteq Blocks
        /\ UNCHANGED <<call, out>> /\ at' = g /\ left' = left \ {g} /\ Idle
        /\ strip' = [t \in Lanes |-> 0]
    BY DEF TypeOK, Begin
  <1>2. g # None
    <2>1. g \in [x : Nat, y : Nat, z : Nat]
      BY <1>1, BlockShape
    <2> QED
      BY <2>1, MetalAssumption
  <1>3. Cells' = Cells /\ \A c : Right(c)' = Right(c)
    BY <1>1, SameCall, SameCells
  <1>4. ASSUME NEW c \in Cells
        PROVE  Written(c)' <=> Written(c)
    <2>1. Owner(c)' = Owner(c) /\ Lane(c)' = Lane(c) /\ Turn(c)' = Turn(c)
      BY <1>1, SameCells
    <2>2. Lane(c) \in Lanes /\ Turn(c) \in Nat
      BY <1>1, LaneAndTurn
    <2>3. ~(strip'[Lane(c)] > Turn(c))
      BY <1>1, <2>2
    <2>4. Written(c)' <=> Owner(c) \notin left
      BY <1>1, <1>2, <2>1, <2>3 DEF Written
    <2>5. Written(c) <=> Owner(c) \notin left
      BY <1>1, FinishedIsWritten
    <2> QED
      BY <2>4, <2>5
  <1> QED
    BY <1>1, <1>3, <1>4 DEF Output

----------------------------------------------------------------------------
(* The invariant. *)

\* Nothing has been called yet.
LEMMA InitIInv ==
    ASSUME Init
    PROVE  IInv
  BY DEF Init, IInv, TypeOK, Output

\* A call begins with nothing stored.
LEMMA CallIInv ==
    ASSUME NEW c \in Abstract!Calls, Call(c)
    PROVE  IInv'
  <1>1. TypeOK' /\ Running' /\ at' = None /\ out' = {}
    BY CallStep
  <1>2. \A d : ~Written(d)'
    BY <1>1 DEF Written
  <1>3. Output'
    BY <1>1, <1>2 DEF Output
  <1> QED
    BY <1>1, <1>3 DEF IInv

\* Every step of a thread keeps the invariant.
LEMMA StepIInv ==
    ASSUME IInv, call # None, NEW t \in Lanes, Step(t)
    PROVE  IInv'
  <1>1. TypeOK /\ Running /\ Output
    BY DEF IInv
  <1>2. CASE FillTable(t)
    <2>1. TypeOK' /\ Running'
      BY <1>1, <1>2, FillTableStep
    <2>2. Output'
      BY <1>1, <1>2, OutputStays DEF FillTable
    <2> QED
      BY <2>1, <2>2 DEF IInv
  <1>3. CASE Fill(t)
    <2>1. TypeOK' /\ Running'
      BY <1>1, <1>3, FillStep
    <2>2. Output'
      BY <1>1, <1>3, OutputStays DEF Fill
    <2> QED
      BY <2>1, <2>2 DEF IInv
  <1>4. CASE Read(t)
    <2>1. TypeOK' /\ Running'
      BY <1>1, <1>4, ReadStep
    <2>2. Output'
      BY <1>1, <1>4, OutputStays DEF Read
    <2> QED
      BY <2>1, <2>2 DEF IInv
  <1>5. CASE Store(t)
    <2>1. TypeOK' /\ Running'
      BY <1>1, <1>5, StoreStep
    <2>2. Output'
      BY <1>1, <1>5, OutputStays DEF Store
    <2> QED
      BY <2>1, <2>2 DEF IInv
  <1>6. CASE Write(t)
    BY <1>1, <1>6, WriteStep, OutputWrite DEF IInv
  <1> QED
    BY <1>2, <1>3, <1>4, <1>5, <1>6 DEF Step

\* Every step keeps the invariant.
LEMMA NextIInv ==
    ASSUME IInv, [Next]_vars
    PROVE  IInv'
  <1>1. TypeOK /\ (call # None => Running) /\ Output
    BY DEF IInv
  <1>2. CASE UNCHANGED vars
    <2>1. UNCHANGED <<call, left, at, pc, step, strip, acc, stage, trits, out, answer>>
      BY <1>2 DEF vars
    <2>2. CASE call = None
      BY <1>1, <2>1, <2>2 DEF IInv, TypeOK, Init, Output
    <2>3. CASE call # None
      <3>1. Lanes' = Lanes /\ Blocks' = Blocks
        BY <2>1, SameCall
      <3>2. TypeOK'
        BY <1>1, <2>1, <2>3, <3>1 DEF TypeOK, Idle
      <3>3. \A t \in Lanes : Thread(t)' = Thread(t) /\ Passed(t)' = Passed(t)
        BY <2>1, Untouched
      <3>4. Running'
        BY <1>1, <2>1, <2>3, <3>1, <3>3 DEF Running, InStep
      <3>5. Output'
        BY <1>1, <2>1, <2>3, OutputStays
      <3> QED
        BY <3>2, <3>4, <3>5 DEF IInv
    <2> QED
      BY <2>2, <2>3
  <1>3. CASE \E c \in Abstract!Calls : Call(c)
    BY <1>3, CallIInv
  <1>4. CASE Run
    <2>1. call # None /\ Running
      BY <1>1, <1>4 DEF Run
    <2>2. CASE \E g \in left : Begin(g)
      BY <1>1, <2>1, <2>2, BeginStep, OutputBegin DEF IInv
    <2>3. CASE \E t \in Lanes : Step(t)
      BY <2>1, <2>3, StepIInv
    <2>4. CASE Barrier
      <3>1. TypeOK' /\ Running'
        BY <1>1, <2>1, <2>4, BarrierStep
      <3>2. Output'
        BY <1>1, <2>1, <2>4, OutputStays DEF Barrier
      <3> QED
        BY <3>1, <3>2 DEF IInv
    <2>5. CASE Answer
      <3>1. UNCHANGED <<call, left, at, pc, step, strip, acc, stage, trits, out>>
        BY <2>5 DEF Answer
      <3>2. Lanes' = Lanes /\ Blocks' = Blocks
        BY <3>1, SameCall
      <3>3. TypeOK'
        BY <1>1, <2>1, <3>1, <3>2 DEF TypeOK, Idle
      <3>4. \A t \in Lanes : Thread(t)' = Thread(t) /\ Passed(t)' = Passed(t)
        BY <3>1, Untouched
      <3>5. Running'
        BY <2>1, <3>1, <3>2, <3>4 DEF Running, InStep
      <3>6. Output'
        BY <1>1, <2>1, <3>1, OutputStays
      <3> QED
        BY <3>3, <3>5, <3>6 DEF IInv
    <2> QED
      BY <1>4, <2>2, <2>3, <2>4, <2>5 DEF Run
  <1> QED
    BY <1>2, <1>3, <1>4 DEF Next

\* Threads keep in step, what they hold is what their place says, and the output is
\* made of the right cells: in every run of every configuration.
THEOREM Inductive == Spec => []IInv
  <1>1. Init => IInv
    BY InitIInv
  <1>2. IInv /\ [Next]_vars => IInv'
    BY NextIInv
  <1> QED
    BY <1>1, <1>2, PTL DEF Spec

\* Variables keep their types.
THEOREM TypeCorrect == Spec => []TypeOK
  <1>1. IInv => TypeOK
    BY DEF IInv
  <1> QED
    BY <1>1, Inductive, PTL

----------------------------------------------------------------------------
(* What follows from it. *)

\* What a thread reads is what all threads staged for this step or strip: the barriers
\* of the kernels are enough, whatever the sizes.
LEMMA NothingRaces ==
    ASSUME IInv
    PROVE  StageRaceFree
  <1>1. SUFFICES ASSUME call # None, NEW t \in Lanes
                 PROVE  /\ pc[t] = "read" => Settled(t)
                        /\ pc[t] = "write" /\ Strips > 0 =>
                               \A u \in Lanes : /\ stage[u].what = "strip"
                                                /\ stage[u].number = strip[t]
    BY DEF StageRaceFree
  <1>2. TypeOK /\ Running
    BY <1>1 DEF IInv
  <1>3. pc[t] = "read" => Settled(t)
    BY <1>1, <1>2, BusyStarted, ReaderSeesAll
  <1>4. ASSUME pc[t] = "write", Strips > 0, NEW u \in Lanes
        PROVE  stage[u].what = "strip" /\ stage[u].number = strip[t]
    <2>1. stage[u] = Strip(strip[t], acc[u])
      BY <1>1, <1>2, <1>4, BusyStarted, WriterSeesAll
    <2> QED
      BY <2>1 DEF Strip
  <1> QED
    BY <1>3, <1>4

\* StageRaceFree: a reader finds in the allocation what every thread put there for this
\* step or strip.
THEOREM NoRace == Spec => []StageRaceFree
  <1>1. IInv => StageRaceFree
    BY NothingRaces
  <1> QED
    BY <1>1, Inductive, PTL

\* Threads that wait wait at one barrier, and none has left: no barrier is in code that
\* some threads skip.
LEMMA BarriersMeet ==
    ASSUME IInv
    PROVE  BarrierUniform
  <1>1. SUFFICES ASSUME call # None, NEW t \in Lanes, NEW u \in Lanes, pc[t] \in Barriers
                 PROVE  /\ pc[u] # "done"
                        /\ pc[u] \in Barriers =>
                               pc[u] = pc[t] /\ step[u] = step[t] /\ strip[u] = strip[t]
    BY DEF BarrierUniform
  <1>2. TypeOK /\ Running
    BY <1>1 DEF IInv
  <1>3. Started
    BY <1>1, <1>2, BusyStarted DEF Barriers
  <1>4. /\ First \in Nat /\ Last \in Nat /\ First < Last /\ Strips \in Nat /\ Turns \in Nat \ {0}
        /\ Strips > 0 => Turns = Strips
        /\ Strips = 0 => Turns = 1
        /\ Staged \in BOOLEAN /\ Table \in BOOLEAN /\ ~(Staged /\ Table)
    BY <1>2, <1>3, Bounds
  <1>5. PICK p \in Nat : p = IF Staged THEN 2 * (Last - First) ELSE 0
    BY <1>4
  <1>6. ASSUME NEW v \in Lanes
        PROVE  /\ step[v] \in Nat /\ strip[v] \in Nat
               /\ pc[v] = "table_sync" =>
                      Passed(v) = 0 /\ step[v] = First /\ strip[v] = 0
               /\ pc[v] = "guard" =>
                      /\ Passed(v) = 1 + 2 * (step[v] - First)
                      /\ Staged /\ First <= step[v] /\ step[v] < Last /\ strip[v] = 0
               /\ pc[v] = "filled" =>
                      /\ Passed(v) = 2 + 2 * (step[v] - First)
                      /\ Staged /\ First <= step[v] /\ step[v] < Last /\ strip[v] = 0
               /\ pc[v] = "strip_guard" =>
                      Passed(v) = 1 + p + 2 * strip[v] /\ step[v] = Last /\ strip[v] < Strips
               /\ pc[v] = "stored" =>
                      Passed(v) = 2 + p + 2 * strip[v] /\ step[v] = Last /\ strip[v] < Strips
               /\ pc[v] = "done" => Passed(v) = 1 + p + 2 * Strips
    <2>1. Course(v) /\ step[v] \in Nat /\ strip[v] \in Nat
      BY <1>2, <1>3 DEF Running, Thread, TypeOK, Started
    <2>2. pc[v] = "table_sync" => Passed(v) = 0 /\ step[v] = First /\ strip[v] = 0
      BY <2>1 DEF Passed, Course
    <2>3. CASE pc[v] = "guard"
      BY <1>4, <2>1, <2>3 DEF Passed, Course
    <2>4. CASE pc[v] = "filled"
      BY <1>4, <2>1, <2>4 DEF Passed, Course
    <2>5. CASE pc[v] = "strip_guard"
      BY <1>4, <1>5, <2>1, <2>5 DEF Passed, Course
    <2>6. CASE pc[v] = "stored"
      BY <1>4, <1>5, <2>1, <2>6 DEF Passed, Course
    <2>7. CASE pc[v] = "done"
      <3>1. step[v] = Last /\ strip[v] = Turns
        BY <2>1, <2>7 DEF Course
      <3>2. CASE Strips = 0
        BY <1>4, <1>5, <2>1, <2>7, <3>1, <3>2 DEF Passed
      <3>3. CASE Strips > 0
        BY <1>4, <1>5, <2>1, <2>7, <3>1, <3>3 DEF Passed
      <3> QED
        BY <1>4, <3>2, <3>3
    <2> QED
      BY <2>1, <2>2, <2>3, <2>4, <2>5, <2>6, <2>7
  <1>7. Passed(t) = Passed(u)
    BY <1>2, <1>3 DEF Running, InStep, Started
  <1>8. pc[u] # "done"
    BY <1>1, <1>4, <1>5, <1>6, <1>7 DEF Barriers
  <1>9. ASSUME pc[u] \in Barriers
        PROVE  pc[u] = pc[t] /\ step[u] = step[t] /\ strip[u] = strip[t]
    <2> DEFINE Behind(v) == pc[v] \in {"guard", "filled", "strip_guard", "stored"}
    <2>1. Behind(t) => Passed(t) > 0
      BY <1>4, <1>5, <1>6
    <2>2. Behind(u) => Passed(u) > 0
      BY <1>4, <1>5, <1>6
    <2>3. CASE pc[t] = "table_sync" \/ pc[u] = "table_sync"
      <3>1. pc[t] = "table_sync" /\ pc[u] = "table_sync"
        BY <1>1, <1>6, <1>7, <1>9, <2>3, <2>1, <2>2 DEF Barriers
      <3> QED
        BY <1>6, <3>1
    <2>4. CASE pc[t] = "guard"
      BY <1>4, <1>5, <1>6, <1>7, <1>9, <2>4 DEF Barriers
    <2>5. CASE pc[t] = "filled"
      BY <1>4, <1>5, <1>6, <1>7, <1>9, <2>5 DEF Barriers
    <2>6. CASE pc[t] = "strip_guard"
      <3>1. pc[u] # "guard"
        BY <1>4, <1>5, <1>6, <1>7, <2>6
      <3>2. pc[u] # "filled"
        BY <1>4, <1>5, <1>6, <1>7, <2>6
      <3>3. pc[u] # "stored"
        BY <1>4, <1>5, <1>6, <1>7, <2>6
      <3>4. pc[u] = "strip_guard" => strip[u] = strip[t] /\ step[u] = step[t]
        BY <1>4, <1>5, <1>6, <1>7, <2>6
      <3>5. pc[u] # "table_sync"
        BY <1>6, <1>7, <2>6, <2>1
      <3> QED
        BY <1>9, <2>6, <3>1, <3>2, <3>3, <3>4, <3>5 DEF Barriers
    <2>7. CASE pc[t] = "stored"
      BY <1>4, <1>5, <1>6, <1>7, <1>9, <2>7 DEF Barriers
    <2> QED
      BY <1>1, <2>3, <2>4, <2>5, <2>6, <2>7 DEF Barriers
  <1> QED
    BY <1>8, <1>9

\* BarrierUniform: all threads that wait do so at the same barrier, and none has left.
THEOREM BarriersAreUniform == Spec => []BarrierUniform
  <1>1. IInv => BarrierUniform
    BY BarriersMeet
  <1> QED
    BY <1>1, Inductive, PTL

\* Every store goes into the output, and to a cell that nothing was stored to before.
LEMMA NoCellTwice ==
    ASSUME IInv
    PROVE  OneWriter
  <1>1. SUFFICES ASSUME call # None, NEW t \in Lanes, pc[t] = "write", NEW s \in Stores(t)
                 PROVE  s.at \in Addresses /\ \A o \in out : o.at # s.at
    BY DEF OneWriter
  <1>2. TypeOK /\ Running /\ Output /\ Started /\ call \in Abstract!Calls
    BY <1>1, BusyStarted DEF IInv, TypeOK
  <1>3. PICK c \in Own(at, t, strip[t]) : s = Right(c)
    BY <1>1, <1>2, StoresOwn
  <1>4. c \in Cells /\ Owner(c) = at /\ Lane(c) = t /\ Turn(c) = strip[t]
    BY <1>3 DEF Own
  <1>5. s.at \in Addresses
    BY <1>2, <1>3, <1>4, AddressOfCell DEF Right
  <1>6. ASSUME NEW o \in out, o.at = s.at
        PROVE  FALSE
    <2>1. PICK d \in Cells : Written(d) /\ o = Right(d)
      BY <1>1, <1>2 DEF Output
    <2>2. d = c
      BY <1>2, <1>3, <1>4, <1>6, <2>1, AddressInjective
    <2>3. strip[t] > strip[t] /\ strip[t] \in Nat
      BY <1>2, <1>4, <2>1, <2>2 DEF Written, TypeOK, Started
    <2> QED
      BY <2>3
  <1> QED
    BY <1>5, <1>6

\* OneWriter: no cell of the output is stored twice, and none outside it.
THEOREM EveryCellHasOneWriter == Spec => []OneWriter
  <1>1. IInv => OneWriter
    BY NoCellTwice
  <1> QED
    BY <1>1, Inductive, PTL

\* The answer of a finished dispatch is the product.
LEMMA AnswerIsExact ==
    ASSUME IInv, call # None, Answer
    PROVE  answer' = Abstract!Exact(call)
  <1>1. TypeOK /\ Running /\ Output /\ Idle /\ left = {} /\ call \in Abstract!Calls
    BY DEF IInv, Answer, TypeOK
  <1>2. ASSUME NEW c \in Cells
        PROVE  ValueAt(Addr(c[1], c[2], c[3])) = Right(c).value
    <2>1. Written(c)
      BY <1>1, FinishedIsWritten
    <2>2. Right(c) \in out /\ Right(c).at = Addr(c[1], c[2], c[3])
      BY <1>1, <2>1 DEF Output, Right
    <2> DEFINE a == Addr(c[1], c[2], c[3])
               o == CHOOSE s \in out : s.at = a
    <2>3. o \in out /\ o.at = a
      BY <2>2
    <2>4. ValueAt(a) = o.value
      BY <2>2 DEF ValueAt
    <2> HIDE DEF o
    <2>5. PICK d \in Cells : o = Right(d)
      BY <1>1, <2>3 DEF Output
    <2>6. d = c
      BY <1>1, <2>2, <2>3, <2>5, AddressInjective
    <2> QED
      BY <2>4, <2>5, <2>6
  <1>3. Splits(Config) = Abstract!Splits(call.config) /\ Splits(Config) \in Nat
    BY <1>1, LutShape DEF Splits, Abstract!Splits, Config, Lut, Positive
  <1>4. ASSUME NEW e \in (0..call.batch - 1) \X (0..Layout.rows - 1), NEW i \in 1..Splits(Config)
        PROVE  ValueAt(Addr(i - 1, e[1], e[2])) =
                   [sample |-> e[1], row |-> e[2], steps |-> Abstract!Piece(call, i)]
    <2> DEFINE c == <<i - 1, e[1], e[2]>>
    <2>1. i - 1 \in 0..Splits(Config) - 1 /\ (i - 1) + 1 = i
      BY <1>3
    <2>2. c \in Cells
      BY <2>1 DEF Cells
    <2>3. ValueAt(Addr(i - 1, e[1], e[2])) = Right(c).value
      BY <1>2, <2>2
    <2> QED
      BY <2>1, <2>3 DEF Right
  <1>5. answer' = [e \in (0..call.batch - 1) \X (0..Layout.rows - 1) |->
                      [i \in 1..Splits(Config) |->
                          [sample |-> e[1], row |-> e[2], steps |-> Abstract!Piece(call, i)]]]
    BY <1>4 DEF Answer
  <1> QED
    BY <1>3, <1>5 DEF Abstract!Exact, Layout

\* Every configuration of every kernel implements the product: its calls and its answers
\* are those of Matmul, its other steps change neither.
THEOREM Implements == Spec => ImplementsMatmul
  <1>1. Init => Abstract!Init
    BY DEF Init, Abstract!Init
  <1>2. IInv /\ [Next]_vars => [Abstract!Next]_<<call, answer>>
    <2> SUFFICES ASSUME IInv, [Next]_vars
                 PROVE  [Abstract!Next]_<<call, answer>>
      OBVIOUS
    <2>1. CASE UNCHANGED vars
      BY <2>1 DEF vars
    <2>2. ASSUME NEW c \in Abstract!Calls, Call(c)
          PROVE  Abstract!Call(c)
      BY <2>2 DEF Call, Abstract!Call
    <2>3. ASSUME call # None, Answer
          PROVE  Abstract!Answer
      BY <2>3, AnswerIsExact DEF Answer, Abstract!Answer
    <2>4. ASSUME NEW g \in left, Begin(g)
          PROVE  UNCHANGED <<call, answer>>
      BY <2>4 DEF Begin
    <2>5. ASSUME NEW t \in Lanes, Step(t)
          PROVE  UNCHANGED <<call, answer>>
      BY <2>5 DEF Step, FillTable, Fill, Read, Store, Write
    <2>6. ASSUME Barrier
          PROVE  UNCHANGED <<call, answer>>
      BY <2>6 DEF Barrier
    <2> QED
      BY <2>1, <2>2, <2>3, <2>4, <2>5, <2>6 DEF Next, Run, Abstract!Next
  <1> QED
    BY <1>1, <1>2, Inductive, PTL DEF Spec, ImplementsMatmul, Abstract!Spec
=============================================================================
