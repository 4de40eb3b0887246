----------------------------- MODULE StreamKInv -----------------------------
(***************************************************************************)
(* The inductive invariant of StreamK, in named parts.  Its centre is      *)
(* InStep: all threads of a block have passed the same number of barriers, *)
(* which turns what thread 0 has done into a fact about every thread, and  *)
(* makes the two table buffers a race-free pair.  Counting makes the block *)
(* that counts in last unique, and Published and Stored carry the exact    *)
(* values from the registers over the workspace to the output.             *)
(***************************************************************************)
EXTENDS StreamK

\* Groups of a block's chunk: the iterations of its loop.
GroupsOf(b) == FinalGroup(gpc, b[2]) - First(b)

\* The blocks of the launch in flight or answered.
Active == IF launch = 0 THEN {} ELSE Grid(gpc)

\* Barriers that thread t of an active block has passed.
Passed(b, t) ==
  CASE pc[b][t] \in {"queued", "build", "sync_lut"} -> Len(partial[b][t])
    [] pc[b][t] = "consume" -> Len(partial[b][t]) + 1
    [] pc[b][t] \in {"store", "fence", "sync_stored"} -> GroupsOf(b)
    [] pc[b][t] \in {"count", "sync_counted"} -> GroupsOf(b) + 1
    [] pc[b][t] \in {"test", "reduce", "sync_output"} -> GroupsOf(b) + 2
    [] pc[b][t] = "reset" -> GroupsOf(b) + 3
    [] pc[b][t] = "done" -> IF final[b] = "yes" THEN GroupsOf(b) + 3
                                               ELSE GroupsOf(b) + 2

InStep == \A b \in Active : \A t, u \in Threads : Passed(b, t) = Passed(b, u)

\* Thread 0 has added the block to the counter of its tile.
CountedPlaces ==
  {"sync_counted", "test", "reduce", "sync_output", "reset", "done"}
CountedIn(b) == pc[b][0] \in CountedPlaces

\* Blocks outside the grid do nothing.
Idle ==
  /\ \A b \in Block \ Active, t \in Threads : pc[b][t] = "done"
  /\ \A b \in Block \ Active : final[b] = "unset"
  /\ unflushed \subseteq Active \X Threads

\* The loop: which terms have been added, and how far the place in the code says.
Terms ==
  \A b \in Active, t \in Threads :
    /\ Len(partial[b][t]) <= GroupsOf(b)
    /\ \A i \in 1..Len(partial[b][t]) :
         partial[b][t][i] = <<launch, First(b) + i - 1>>
    /\ pc[b][t] = "queued" => Len(partial[b][t]) = 0
    /\ pc[b][t] \in {"build", "sync_lut", "consume"}
         => Len(partial[b][t]) < GroupsOf(b)
    /\ pc[b][t] \notin {"queued", "build", "sync_lut", "consume"}
         => Len(partial[b][t]) = GroupsOf(b)

\* The table: built shares stay until every thread has read them.
Table ==
  \A b \in Active, t \in Threads :
    /\ clean[b][t]
    /\ pc[b][t] = "sync_lut"
         => lut[b][Buffer(b, t)][t] = <<launch, Group(b, t)>>
    /\ pc[b][t] = "consume"
         => \A u \in Threads : lut[b][Buffer(b, t)][u] = <<launch, Group(b, t)>>

\* The workspace: a thread past the fence has published its partial sum.
Published ==
  /\ \A e \in unflushed : pc[e[1]][e[2]] = "fence"
  /\ \A b \in Active, t \in Threads :
       pc[b][t] \notin {"queued", "build", "sync_lut", "consume", "store"}
         => <<b, t>> \in unflushed \/ workspace[b][t] = partial[b][t]

\* final_chunk is set with the count and says what it is said to say.
FinalSet ==
  \A b \in Active :
    /\ final[b] # "unset" <=> CountedIn(b)
    /\ \A t \in Threads :
         /\ pc[b][t] \in {"count", "reset"} => t = 0
         /\ pc[b][t] \in {"reduce", "sync_output", "reset"} => final[b] = "yes"
         /\ pc[b][t] = "done" => final[b] # "unset"

TileChunks == 0..(ChunksOf(gpc) - 1)
CountedChunks(i) == {c \in TileChunks : CountedIn(<<i, c>>)}
Cleared(i) == \E c \in TileChunks : /\ final[<<i, c>>] = "yes"
                                    /\ pc[<<i, c>>][0] = "done"

\* The tile counters: one block of a tile is last, after all the others.
Counting ==
  IF launch = 0 THEN \A i \in Tiles : counter[i] = 0
  ELSE \A i \in Tiles :
    /\ counter[i] = IF Cleared(i) THEN 0 ELSE Cardinality(CountedChunks(i))
    /\ CountedChunks(i) = TileChunks
         <=> \E c \in TileChunks : final[<<i, c>>] = "yes"
    /\ \A c, d \in TileChunks :
         final[<<i, c>>] = "yes" /\ final[<<i, d>>] = "yes" => c = d

\* The reduction adds exact partial sums in chunk order.
Reduced ==
  \A b \in Active, t \in Threads :
    /\ pc[b][t] = "reduce" =>
         /\ Len(result[b][t]) <= ChunksOf(gpc)
         /\ \A c \in 1..Len(result[b][t]) :
              result[b][t][c] = ExactPartial(launch, gpc, c - 1)
    /\ pc[b][t] \notin {"reduce", "sync_output", "reset", "done"}
         => result[b][t] = << >>

\* A row is stored by the reducing block of its tile, and by no other.
StoredPlaces == {"sync_output", "reset", "done"}
StoredBy(b, t) == final[b] = "yes" /\ pc[b][t] \in StoredPlaces

Stored ==
  launch > 0 =>
    \A i \in Tiles, t \in Threads :
      Row(<<i, 0>>, t) < Rows =>
        output[Row(<<i, 0>>, t)] =
          IF \E c \in TileChunks : StoredBy(<<i, c>>, t)
          THEN ExactRow(launch, gpc) ELSE Unset

IInv ==
  /\ TypeOK /\ Idle /\ InStep /\ Terms /\ Table /\ Published /\ FinalSet
  /\ Counting /\ Reduced /\ Stored
=============================================================================
