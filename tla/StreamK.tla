------------------------------ MODULE StreamK ------------------------------
(***************************************************************************)
(* The stream-K LUT23 kernel of cuda/tq1_lut23_streamk.cu, thread by       *)
(* thread.  A launch is a grid of blocks, one per (tile, chunk): blockIdx  *)
(* is numbered tile * chunks + chunk.  The threads of a block              *)
(*   - fill together the lookup table of a group, each thread its share,   *)
(*     into one of two shared buffers, with one barrier per group;         *)
(*   - add the group of their own row to `partial`, reading the shares of  *)
(*     all the threads;                                                    *)
(*   - store `partial` in the workspace, fence, meet at a barrier, and     *)
(*     thread 0 counts the block in on the counter of its tile;            *)
(*   - in the block that counts in last, sum the tile's workspace in chunk *)
(*     order, store the output row, meet again, and thread 0 clears the    *)
(*     counter for the next launch.                                        *)
(* Blocks become resident in any order, at most Resident at a time, and    *)
(* run to completion.  A store to the workspace is seen by other blocks at *)
(* the latest when its thread has passed __threadfence.                    *)
(***************************************************************************)
EXTENDS Lut23Shape, FiniteSets

CONSTANTS
  MTile,      \* threads of a block = rows of a tile (LUT23_M_TILE)
  Resident    \* blocks that the device holds at once

ASSUME MTileAssumption == MTile \in Nat \ {0}
ASSUME ResidentAssumption == Resident \in Nat \ {0}

Tiles == 0..((Rows + MTile - 1) \div MTile - 1)
ChunkIds == UNION {0..(ChunksOf(k) - 1) : k \in GroupsPerChunk}
Block == Tiles \X ChunkIds
Threads == 0..(MTile - 1)
Buffers == 0..1

VARIABLES
  launch,      \* launches so far; the last one is in flight or answered
  gpc,         \* groups per chunk of the last launch
  output,      \* output of the last launch, Unset where nothing is stored yet
  pc,          \* pc[b][t]: where thread t of block b is
  lut,         \* lut[b][i][t]: t's share of buffer i, as <<launch, group>>
  slot,        \* slot[b][t]: shares of the table that t has read for its group
  clean,       \* clean[b][t]: every share read so far belonged to that group
  partial,     \* partial[b][t]: the terms that fmaf has added
  unflushed,   \* {<<b, t>>}: workspace stores that other blocks may not see
  workspace,   \* workspace[b][t]: the partial sum the other blocks see
  counter,     \* tile_counters
  final,       \* final[b]: the shared final_chunk
  result       \* result[b][t]: the partial sums that the reduction has added

tableVars == <<lut, slot, clean, partial>>
publishVars == <<unflushed, workspace>>
countVars == <<counter, final>>
answerVars == <<result, output>>
hostVars == <<launch, gpc>>
vars == <<launch, gpc, output, pc, lut, slot, clean, partial, unflushed,
          workspace, counter, final, result>>

Garbage == <<0, 0>>
Barriers == {"sync_lut", "sync_stored", "sync_counted", "sync_output"}
PCs == Barriers \cup {"queued", "build", "consume", "store", "fence", "count",
                      "test", "reduce", "reset", "done"}

Row(b, t) == b[1] * MTile + t
First(b) == b[2] * gpc
\* The loop variable `group`: one term is added to partial in each iteration.
Group(b, t) == First(b) + Len(partial[b][t])
HasGroup(b, t) == Group(b, t) < FinalGroup(gpc, b[2])
\* Mutant: one table instead of two.
SingleBuffer(b, t) == 0
\* lut[local_group & 1]
Buffer(b, t) == Len(partial[b][t]) % 2

\* The blocks of a launch with chunks of k groups.
Grid(k) == Tiles \X (0..(ChunksOf(k) - 1))

Running(b) == \E t \in Threads : pc[b][t] \notin {"queued", "done"}
GridDone == \A b \in Block, t \in Threads : pc[b][t] = "done"

Goto(b, t, place) == pc' = [pc EXCEPT ![b][t] = place]

\* Every thread of every block starts a launch with its own copy of v.
PerThread(v) == [b \in Block |-> [t \in Threads |-> v]]
FreshTables == [b \in Block |-> [i \in Buffers |-> [t \in Threads |-> Garbage]]]

Init ==
  /\ launch = 0
  /\ gpc \in GroupsPerChunk
  /\ output = [r \in RowIds |-> Unset]
  /\ pc = PerThread("done")
  /\ lut = FreshTables
  /\ slot = PerThread(0)
  /\ clean = PerThread(TRUE)
  /\ partial = PerThread(<< >>)
  /\ final = [b \in Block |-> "unset"]
  /\ result = PerThread(<< >>)
  /\ unflushed = {}
  /\ workspace = PerThread(<< >>)
  /\ counter = [i \in Tiles |-> 0]

-----------------------------------------------------------------------------
\* The host enqueues a launch; the stream starts it after the one before.  The
\* counters were zeroed once, when they were allocated, and the workspace still
\* holds the partial sums of the launch before.
Launch(k) ==
  /\ launch < MaxLaunches
  /\ GridDone
  /\ launch' = launch + 1
  /\ gpc' = k
  /\ output' = [r \in RowIds |-> Unset]
  /\ pc' = [b \in Block |->
             [t \in Threads |-> IF b \in Grid(k) THEN "queued" ELSE "done"]]
  /\ lut' = FreshTables
  /\ slot' = PerThread(0)
  /\ clean' = PerThread(TRUE)
  /\ partial' = PerThread(<< >>)
  /\ final' = [b \in Block |-> "unset"]
  /\ result' = PerThread(<< >>)
  /\ UNCHANGED <<unflushed, workspace, counter>>

\* The device makes a queued block resident.
Schedule(b) ==
  /\ \A t \in Threads : pc[b][t] = "queued"
  /\ Cardinality({d \in Block : Running(d)}) < Resident
  /\ pc' = [pc EXCEPT ![b] =
             [t \in Threads |-> IF HasGroup(b, t) THEN "build" ELSE "store"]]
  /\ UNCHANGED <<hostVars, answerVars, tableVars, publishVars, countVars>>

\* compute_lut23: t writes its own entries of the table of its next group.
Build(b, t) ==
  /\ pc[b][t] = "build"
  /\ lut' = [lut EXCEPT ![b][Buffer(b, t)][t] = <<launch, Group(b, t)>>]
  /\ Goto(b, t, "sync_lut")
  /\ UNCHANGED <<hostVars, answerVars, slot, clean, partial, publishVars,
                 countVars>>

\* consume_code: one more share of the table read.
Consume(b, t) ==
  /\ pc[b][t] = "consume"
  /\ slot[b][t] < MTile
  /\ clean' = [clean EXCEPT ![b][t] =
       @ /\ lut[b][Buffer(b, t)][slot[b][t]] = <<launch, Group(b, t)>>]
  /\ slot' = [slot EXCEPT ![b][t] = @ + 1]
  /\ UNCHANGED <<hostVars, answerVars, pc, lut, partial, publishVars, countVars>>

\* partial = fmaf(scale, group_sum, partial), and on to the next group.
Accumulate(b, t) ==
  /\ pc[b][t] = "consume"
  /\ slot[b][t] = MTile
  /\ partial' = [partial EXCEPT ![b][t] = Append(@,
       IF clean[b][t] THEN <<launch, Group(b, t)>> ELSE Garbage)]
  /\ slot' = [slot EXCEPT ![b][t] = 0]
  /\ clean' = [clean EXCEPT ![b][t] = TRUE]
  /\ Goto(b, t, IF Group(b, t) + 1 < FinalGroup(gpc, b[2]) THEN "build"
                                                          ELSE "store")
  /\ UNCHANGED <<hostVars, answerVars, lut, publishVars, countVars>>

StorePartial(b, t) ==
  /\ pc[b][t] = "store"
  /\ unflushed' = unflushed \cup {<<b, t>>}
  /\ Goto(b, t, "fence")
  /\ UNCHANGED <<hostVars, answerVars, tableVars, workspace, countVars>>

\* The memory system makes a store visible to the other blocks.
Flush(b, t) ==
  /\ <<b, t>> \in unflushed
  /\ unflushed' = unflushed \ {<<b, t>>}
  /\ workspace' = [workspace EXCEPT ![b][t] = partial[b][t]]
  /\ UNCHANGED <<hostVars, answerVars, tableVars, countVars, pc>>

\* Mutant: the fence is left out.
NoFence(b, t) ==
  /\ pc[b][t] = "fence"
  /\ Goto(b, t, "sync_stored")
  /\ UNCHANGED <<hostVars, answerVars, tableVars, publishVars, countVars>>

\* __threadfence
Fence(b, t) ==
  /\ pc[b][t] = "fence"
  /\ <<b, t>> \notin unflushed
  /\ Goto(b, t, "sync_stored")
  /\ UNCHANGED <<hostVars, answerVars, tableVars, publishVars, countVars>>

\* Mutant: the last block is recognised one too early.
CountOffByOne(b, t) ==
  /\ pc[b][t] = "count"
  /\ final' = [final EXCEPT ![b] =
       IF counter[b[1]] >= ChunksOf(gpc) - 2 THEN "yes" ELSE "no"]
  /\ counter' = [counter EXCEPT ![b[1]] = @ + 1]
  /\ Goto(b, t, "sync_counted")
  /\ UNCHANGED <<hostVars, answerVars, tableVars, publishVars>>

\* Thread 0: atomicAdd on the counter of the tile, which returns the old value.
Count(b, t) ==
  /\ pc[b][t] = "count"
  /\ final' = [final EXCEPT ![b] =
       IF counter[b[1]] = ChunksOf(gpc) - 1 THEN "yes" ELSE "no"]
  /\ counter' = [counter EXCEPT ![b[1]] = @ + 1]
  /\ Goto(b, t, "sync_counted")
  /\ UNCHANGED <<hostVars, answerVars, tableVars, publishVars>>

\* if (final_chunk): a value nobody has written reads as anything.
Test(b, t) ==
  /\ pc[b][t] = "test"
  /\ \/ final[b] # "no" /\ Goto(b, t, "reduce")
     \/ final[b] # "yes" /\ Goto(b, t, "done")
  /\ UNCHANGED <<hostVars, answerVars, tableVars, publishVars, countVars>>

\* Mutant: the reduction starts at the block's own chunk.
ReduceFromOwn(b, t) ==
  /\ pc[b][t] = "reduce"
  /\ Len(result[b][t]) < ChunksOf(gpc)
  /\ result' = [result EXCEPT ![b][t] = Append(@,
       workspace[<<b[1], (b[2] + Len(result[b][t])) % ChunksOf(gpc)>>][t])]
  /\ UNCHANGED <<hostVars, output, tableVars, publishVars, countVars, pc>>

\* result += workspace[...]: the next chunk of the tile, in chunk order.
Reduce(b, t) ==
  /\ pc[b][t] = "reduce"
  /\ Len(result[b][t]) < ChunksOf(gpc)
  /\ result' = [result EXCEPT ![b][t] =
       Append(@, workspace[<<b[1], Len(result[b][t])>>][t])]
  /\ UNCHANGED <<hostVars, output, tableVars, publishVars, countVars, pc>>

\* Mutant: no barrier between the stores of a tile and the reset of its counter.
WriteWithoutBarrier(b, t) ==
  /\ pc[b][t] = "reduce"
  /\ Len(result[b][t]) = ChunksOf(gpc)
  /\ output' = IF Row(b, t) < Rows
               THEN [output EXCEPT ![Row(b, t)] = result[b][t]]
               ELSE output
  /\ Goto(b, t, IF t = 0 THEN "reset" ELSE "done")
  /\ UNCHANGED <<hostVars, result, tableVars, publishVars, countVars>>

\* if (row < rows) output[row] = result
WriteOutput(b, t) ==
  /\ pc[b][t] = "reduce"
  /\ Len(result[b][t]) = ChunksOf(gpc)
  /\ output' = IF Row(b, t) < Rows
               THEN [output EXCEPT ![Row(b, t)] = result[b][t]]
               ELSE output
  /\ Goto(b, t, "sync_output")
  /\ UNCHANGED <<hostVars, result, tableVars, publishVars, countVars>>

\* Mutant: the counter is brought down by one count too many.
SubtractTooMuch(b, t) ==
  /\ pc[b][t] = "reset"
  /\ counter' = [counter EXCEPT ![b[1]] = @ - (ChunksOf(gpc) + 1)]
  /\ Goto(b, t, "done")
  /\ UNCHANGED <<hostVars, answerVars, tableVars, publishVars, final>>

\* Mutant: the counter is left as it is.
ForgetReset(b, t) ==
  /\ pc[b][t] = "reset"
  /\ Goto(b, t, "done")
  /\ UNCHANGED <<hostVars, answerVars, tableVars, publishVars, countVars>>

\* Thread 0: atomicExch(&tile_counters[tile], 0u)
Reset(b, t) ==
  /\ pc[b][t] = "reset"
  /\ counter' = [counter EXCEPT ![b[1]] = 0]
  /\ Goto(b, t, "done")
  /\ UNCHANGED <<hostVars, answerVars, tableVars, publishVars, final>>

\* Mutant: no barrier between the write and the reads of final_chunk.
TestAtOnce(t, place) ==
  CASE place = "sync_lut" -> "consume"
    [] place = "sync_stored" -> IF t = 0 THEN "count" ELSE "test"
    [] place = "sync_counted" -> "test"
    [] place = "sync_output" -> IF t = 0 THEN "reset" ELSE "done"

\* Where a thread goes on after a __syncthreads; `tid == 0` sits behind two.
AfterBarrier(t, place) ==
  CASE place = "sync_lut" -> "consume"
    [] place = "sync_stored" -> IF t = 0 THEN "count" ELSE "sync_counted"
    [] place = "sync_counted" -> "test"
    [] place = "sync_output" -> IF t = 0 THEN "reset" ELSE "done"

\* __syncthreads: a block leaves a barrier when all its threads stand at one.
Barrier(b) ==
  /\ \A t \in Threads : pc[b][t] \in Barriers
  /\ pc' = [pc EXCEPT ![b] = [t \in Threads |-> AfterBarrier(t, pc[b][t])]]
  /\ UNCHANGED <<hostVars, answerVars, tableVars, publishVars, countVars>>

ThreadStep(b, t) ==
  \/ Build(b, t) \/ Consume(b, t) \/ Accumulate(b, t)
  \/ StorePartial(b, t) \/ Fence(b, t) \/ Count(b, t) \/ Test(b, t)
  \/ Reduce(b, t) \/ WriteOutput(b, t) \/ Reset(b, t)

Next ==
  \/ \E k \in GroupsPerChunk : Launch(k)
  \/ \E b \in Block : Schedule(b) \/ Barrier(b)
  \/ \E b \in Block, t \in Threads : Flush(b, t) \/ ThreadStep(b, t)

\* The device runs resident blocks, makes queued blocks resident when there is
\* room, and stores reach the memory; nothing obliges the host to launch.
Fairness ==
  \A b \in Block :
    /\ WF_vars(Schedule(b)) /\ WF_vars(Barrier(b))
    /\ \A t \in Threads : WF_vars(ThreadStep(b, t)) /\ WF_vars(Flush(b, t))

Spec == Init /\ [][Next]_vars
FairSpec == Spec /\ Fairness

-----------------------------------------------------------------------------
\* What every variable ranges over.
Term == Int \X Int
TypeOK ==
  /\ launch \in 0..MaxLaunches
  /\ gpc \in GroupsPerChunk
  /\ output \in [RowIds -> Seq(Seq(Term))]
  /\ pc \in [Block -> [Threads -> PCs]]
  /\ lut \in [Block -> [Buffers -> [Threads -> Term]]]
  /\ slot \in [Block -> [Threads -> 0..MTile]]
  /\ clean \in [Block -> [Threads -> BOOLEAN]]
  /\ partial \in [Block -> [Threads -> Seq(Term)]]
  /\ unflushed \subseteq Block \X Threads
  /\ workspace \in [Block -> [Threads -> Seq(Term)]]
  /\ counter \in [Tiles -> Nat]
  /\ final \in [Block -> {"unset", "yes", "no"}]
  /\ result \in [Block -> [Threads -> Seq(Seq(Term))]]

\* A barrier is uniform: while a thread of a block waits, no other thread of the
\* block has exited or waits at another __syncthreads or for another group
\* (`final_chunk` and the loop bounds must be the same for the whole block).
BarrierUniform ==
  \A b \in Block, t, u \in Threads :
    pc[b][t] \in Barriers =>
      /\ pc[b][u] # "done"
      /\ pc[b][u] \in Barriers => /\ pc[b][u] = pc[b][t]
                                 /\ Len(partial[b][u]) = Len(partial[b][t])

\* Double buffering with one barrier per group is race free: no thread writes its
\* share of the table of the next group into the buffer that another thread of
\* the block is still reading.
TableRaceFree ==
  \A b \in Block, t, u \in Threads :
    pc[b][t] = "build" /\ pc[b][u] = "consume" => Buffer(b, t) # Buffer(b, u)

\* When a thread reduces, the workspace it reads holds, for every chunk of its
\* tile, the exact partial sum of THIS launch: __threadfence, the barrier and the
\* atomicAdd together order every block's stores before the last block's loads.
ReducerSeesAll ==
  \A b \in Block, t \in Threads :
    pc[b][t] = "reduce" =>
      \A c \in 0..(ChunksOf(gpc) - 1) :
        workspace[<<b[1], c>>][t] = ExactPartial(launch, gpc, c)

\* At most one block of a tile believes that it counted in last.
OneReducer ==
  \A b, d \in Block :
    b[1] = d[1] /\ final[b] = "yes" /\ final[d] = "yes" => b = d

\* A launch leaves every tile counter at zero: the host clears them only once,
\* when it allocates them, and the next launch may cut the rows differently.
CountersClear == GridDone => \A i \in Tiles : counter[i] = 0

\* A counter is cleared only when its tile is answered: every row of the tile that
\* exists is stored and no store to its workspace is on its way.
ClearedWhenAnswered ==
  [][\A i \in Tiles :
       counter[i] > 0 /\ counter'[i] = 0 =>
         /\ \A t \in Threads :
              Row(<<i, 0>>, t) < Rows => output[Row(<<i, 0>>, t)] # Unset
         /\ \A e \in unflushed : e[1][1] # i]_vars

\* The kernel answers every launch as Gemv promises: each row stored once per
\* launch, with the exact sum in the fixed order, before the next launch starts.
Promise == INSTANCE Gemv WITH launch <- launch, gpc <- gpc, output <- output
ImplementsGemv == Promise!Spec

\* Every launch is answered, however few blocks the device holds at once: a block
\* never waits for another block.
Answered == (launch > 0) ~> (\A r \in RowIds : output[r] # Unset)
=============================================================================
