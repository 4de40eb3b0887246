--------------------------- MODULE StreamK_proofs ---------------------------
(***************************************************************************)
(* Proofs about StreamK for every geometry, number of launches and device. *)
(***************************************************************************)
EXTENDS StreamKInv, TLAPS, FiniteSetTheorems

-----------------------------------------------------------------------------
(* Arithmetic of the geometry. *)

\* What the integer quotient of a natural number is bounded by: a = q * k + rest.
LEMMA DivFact == ASSUME NEW a \in Nat, NEW k \in Nat \ {0}
  PROVE a \div k \in Nat /\ (a \div k) * k <= a /\ a < (a \div k) * k + k
OBVIOUS

\* Two groups in a row use two different buffers.
LEMMA Parity ==
  \A n \in Nat : n % 2 \in 0..1 /\ (n + 1) % 2 # n % 2
OBVIOUS

\* A row has at least one chunk; its chunks cover its groups, and none is empty.
LEMMA ChunkCount == ASSUME NEW k \in GroupsPerChunk
  PROVE /\ ChunksOf(k) \in Nat \ {0}
        /\ \A c \in 0..(ChunksOf(k) - 1) : c * k < Groups /\ c * k \in Nat
<1>1. k \in Nat \ {0} /\ Groups \in Nat \ {0} BY ChunkAssumption, GroupsAssumption
<1>2. ChunksOf(k) \in Nat /\ ChunksOf(k) * k <= Groups + k - 1 /\ Groups + k - 1 < ChunksOf(k) * k + k
  BY <1>1, DivFact DEF ChunksOf
<1>3. ChunksOf(k) # 0 BY <1>1, <1>2
<1>4. ASSUME NEW c \in 0..(ChunksOf(k) - 1) PROVE c * k < Groups /\ c * k \in Nat
  <2>1. c \in Nat /\ c + 1 <= ChunksOf(k) BY <1>2
  <2>2. (c + 1) * k <= ChunksOf(k) * k BY <1>1, <1>2, <2>1
  <2>3. (c + 1) * k = c * k + k BY <1>1, <2>1
  <2> QED BY <1>1, <1>2, <2>1, <2>2, <2>3
<1> QED BY <1>2, <1>3, <1>4

\* Different threads of different tiles own different rows (row = tile * M_TILE + tid).
LEMMA RowInjective == ASSUME NEW i \in Nat, NEW j \in Nat, NEW t \in Threads, NEW u \in Threads,
   i * MTile + t = j * MTile + u
  PROVE i = j /\ t = u
<1>1. MTile \in Nat \ {0} /\ t \in Nat /\ u \in Nat /\ t < MTile /\ u < MTile BY MTileAssumption DEF Threads
<1>2. ASSUME NEW p \in Nat, NEW q \in Nat, p < q PROVE p * MTile + MTile <= q * MTile
  <2>1. p + 1 <= q BY <1>2
  <2>2. (p + 1) * MTile <= q * MTile BY <1>1, <2>1
  <2>3. (p + 1) * MTile = p * MTile + MTile BY <1>1
  <2> QED BY <2>2, <2>3
<1>4. ~(i < j) /\ ~(j < i)
  <2>1. i * MTile \in Nat /\ j * MTile \in Nat BY <1>1
  <2>2. CASE i < j BY <1>2, <1>1, <2>1, <2>2
  <2>3. CASE j < i BY <1>2, <1>1, <2>1, <2>3
  <2> QED BY <2>2, <2>3
<1>5. i = j BY <1>4
<1>6. i * MTile \in Nat BY <1>1
<1> QED BY <1>1, <1>5, <1>6

\* Blocks are pairs of a tile and a chunk, and every grid is made of blocks.
LEMMA BlockFacts ==
  /\ Tiles \subseteq Nat
  /\ ChunkIds \subseteq Nat
  /\ \A b \in Block : b[1] \in Tiles /\ b[2] \in ChunkIds /\ b = <<b[1], b[2]>>
  /\ \A k \in GroupsPerChunk : Grid(k) \subseteq Block
  /\ \A k \in GroupsPerChunk, i \in Tiles, c \in Nat :
       c < ChunksOf(k) => <<i, c>> \in Grid(k)
  /\ \A k \in GroupsPerChunk : \A b \in Grid(k) : b[2] \in Nat /\ b[2] < ChunksOf(k)
<1>1. Tiles \subseteq Nat BY DEF Tiles
<1>2. \A k \in GroupsPerChunk : ChunksOf(k) \in Nat BY ChunkCount
<1>3. ChunkIds \subseteq Nat BY <1>2 DEF ChunkIds
<1>4. \A k \in GroupsPerChunk : 0..(ChunksOf(k) - 1) \subseteq ChunkIds BY DEF ChunkIds
<1>5. \A b \in Block : b[1] \in Tiles /\ b[2] \in ChunkIds /\ b = <<b[1], b[2]>>
  BY DEF Block
<1>6. \A k \in GroupsPerChunk : Grid(k) \subseteq Block BY <1>4 DEF Block, Grid
<1>7. \A k \in GroupsPerChunk, i \in Tiles, c \in Nat :
        c < ChunksOf(k) => <<i, c>> \in Grid(k)
  BY <1>2 DEF Grid
<1>8. \A k \in GroupsPerChunk : \A b \in Grid(k) : b[2] \in Nat /\ b[2] < ChunksOf(k)
  BY <1>2 DEF Grid
<1> QED BY <1>1, <1>3, <1>5, <1>6, <1>7, <1>8

\* The expressions of a typed state are numbers.
LEMMA NumberFacts ==
  ASSUME TypeOK, NEW b \in Block, NEW t \in Threads
  PROVE  /\ gpc \in Nat \ {0} /\ First(b) \in Nat
         /\ Len(partial[b][t]) \in Nat /\ Group(b, t) \in Nat
         /\ Buffer(b, t) \in Buffers /\ <<launch, Group(b, t)>> \in Term
         /\ Row(b, t) \in Nat /\ Garbage \in Term /\ t \in Nat
<1>1. gpc \in Nat \ {0} BY ChunkAssumption DEF TypeOK
<1>2. b[1] \in Nat /\ b[2] \in Nat BY BlockFacts
<1>3. First(b) \in Nat BY <1>1, <1>2 DEF First
<1>4. Len(partial[b][t]) \in Nat
  <2>1. partial[b][t] \in Seq(Term) BY DEF TypeOK
  <2> QED BY <2>1
<1>5. Group(b, t) \in Nat BY <1>3, <1>4 DEF Group
<1>6. Buffer(b, t) \in Buffers BY <1>4, Parity DEF Buffer, Buffers
<1>7. t \in Nat /\ MTile \in Nat BY MTileAssumption DEF Threads
<1>8. Row(b, t) \in Nat BY <1>2, <1>7 DEF Row
<1>9. launch \in Int BY LaunchAssumption DEF TypeOK
<1> QED BY <1>1, <1>3, <1>4, <1>5, <1>6, <1>7, <1>8, <1>9 DEF Term, Garbage

\* The iterations of a block's loop are a number.
LEMMA GroupsInt ==
  ASSUME TypeOK, NEW b \in Block
  PROVE  GroupsOf(b) \in Int
<1>1. gpc \in Nat /\ b[2] \in Nat BY ChunkAssumption, BlockFacts DEF TypeOK
<1>2. (b[2] + 1) * gpc \in Nat /\ b[2] * gpc \in Nat BY <1>1
<1> QED BY <1>2, GroupsAssumption DEF GroupsOf, First, FinalGroup

-----------------------------------------------------------------------------
(* Types. *)

\* What every variable ranges over holds initially.
LEMMA InitTypeOK == Init => TypeOK
<1> SUFFICES ASSUME Init PROVE TypeOK OBVIOUS
<1>1. Unset \in Seq(Seq(Term)) /\ << >> \in Seq(Term) /\ Garbage \in Term
  BY DEF Unset, Garbage, Term
<1>2. 0 \in 0..MaxLaunches /\ 0 \in 0..MTile BY LaunchAssumption, MTileAssumption
<1> QED
  BY <1>1, <1>2 DEF Init, TypeOK, PerThread, FreshTables, PCs

\* A step that moves one thread keeps the places of all threads.
LEMMA GotoTyped ==
  ASSUME TypeOK, NEW b \in Block, NEW t \in Threads, NEW place \in PCs,
         Goto(b, t, place)
  PROVE  pc' \in [Block -> [Threads -> PCs]]
BY DEF TypeOK, Goto

\* ... and is kept by every step.
LEMMA NextTypeOK == TypeOK /\ [Next]_vars => TypeOK'
<1> SUFFICES ASSUME TypeOK, [Next]_vars PROVE TypeOK' OBVIOUS
<1> USE DEF hostVars, answerVars, tableVars, publishVars, countVars
<1> DEFINE PcTyped == pc' \in [Block -> [Threads -> PCs]]
<1>0. {"build", "consume", "store", "fence", "count", "test", "reduce", "reset",
       "done", "sync_lut", "sync_stored", "sync_counted", "sync_output"} \subseteq PCs
  BY DEF PCs, Barriers
<1>1. ASSUME NEW k \in GroupsPerChunk, Launch(k) PROVE TypeOK'
  <2>1. Unset \in Seq(Seq(Term)) /\ << >> \in Seq(Term) /\ Garbage \in Term
    BY DEF Unset, Garbage, Term
  <2>2. launch' \in 0..MaxLaunches /\ 0 \in 0..MTile
    BY <1>1, LaunchAssumption, MTileAssumption DEF Launch, TypeOK
  <2> QED BY <1>1, <2>1, <2>2 DEF Launch, PerThread, FreshTables, PCs, TypeOK
<1>2. ASSUME NEW b \in Block, Schedule(b) PROVE TypeOK'
  BY <1>2 DEF Schedule, PCs, TypeOK
<1>3. ASSUME NEW b \in Block, Barrier(b) PROVE TypeOK'
  <2>1. \A t \in Threads : AfterBarrier(t, pc[b][t]) \in PCs
    BY <1>3 DEF Barrier, Barriers, AfterBarrier, PCs
  <2> QED BY <1>3, <2>1 DEF Barrier, TypeOK
<1>4. ASSUME NEW b \in Block, NEW t \in Threads, Build(b, t) PROVE TypeOK'
  <2>1. PcTyped BY <1>4, <1>0, GotoTyped DEF Build
  <2> QED BY <1>4, <2>1, NumberFacts DEF Build, TypeOK
<1>5. ASSUME NEW b \in Block, NEW t \in Threads, Consume(b, t) PROVE TypeOK'
  <2>1. slot[b][t] + 1 \in 0..MTile BY <1>5, MTileAssumption DEF Consume, TypeOK
  <2>2. \A x, y : \A e \in BOOLEAN : (e /\ x = y) \in BOOLEAN OBVIOUS
  <2> QED BY <1>5, <2>1, <2>2 DEF Consume, TypeOK
<1>6. ASSUME NEW b \in Block, NEW t \in Threads, Accumulate(b, t) PROVE TypeOK'
  <2> DEFINE term == IF clean[b][t] THEN <<launch, Group(b, t)>> ELSE Garbage
  <2>1. PcTyped BY <1>6, <1>0, GotoTyped DEF Accumulate
  <2>2. term \in Term BY NumberFacts
  <2>3. Append(partial[b][t], term) \in Seq(Term) BY <2>2 DEF TypeOK
  <2>4. 0 \in 0..MTile BY MTileAssumption
  <2> QED BY <1>6, <2>1, <2>3, <2>4 DEF Accumulate, TypeOK
<1>7. ASSUME NEW b \in Block, NEW t \in Threads, StorePartial(b, t) PROVE TypeOK'
  <2>1. PcTyped BY <1>7, <1>0, GotoTyped DEF StorePartial
  <2>2. unflushed' \subseteq Block \X Threads BY <1>7 DEF StorePartial, TypeOK
  <2> QED BY <1>7, <2>1, <2>2 DEF StorePartial, TypeOK
<1>8. ASSUME NEW b \in Block, NEW t \in Threads, Flush(b, t) PROVE TypeOK'
  <2>1. partial[b][t] \in Seq(Term) BY DEF TypeOK
  <2>2. workspace' \in [Block -> [Threads -> Seq(Term)]]
    BY <1>8, <2>1 DEF Flush, TypeOK
  <2>3. unflushed' \subseteq Block \X Threads BY <1>8 DEF Flush, TypeOK
  <2> QED BY <1>8, <2>2, <2>3 DEF Flush, TypeOK
<1>9. ASSUME NEW b \in Block, NEW t \in Threads, Fence(b, t) PROVE TypeOK'
  <2>1. PcTyped BY <1>9, <1>0, GotoTyped DEF Fence
  <2> QED BY <1>9, <2>1 DEF Fence, TypeOK
<1>10. ASSUME NEW b \in Block, NEW t \in Threads, Count(b, t) PROVE TypeOK'
  <2>1. PcTyped BY <1>10, <1>0, GotoTyped DEF Count
  <2>2. b[1] \in Tiles BY BlockFacts
  <2>3. counter' \in [Tiles -> Nat] BY <1>10, <2>2 DEF Count, TypeOK
  <2> QED BY <1>10, <2>1, <2>3 DEF Count, TypeOK
<1>11. ASSUME NEW b \in Block, NEW t \in Threads, Test(b, t) PROVE TypeOK'
  <2>1. PcTyped BY <1>11, <1>0, GotoTyped DEF Test
  <2> QED BY <1>11, <2>1 DEF Test, TypeOK
<1>12. ASSUME NEW b \in Block, NEW t \in Threads, Reduce(b, t) PROVE TypeOK'
  <2> DEFINE d == <<b[1], Len(result[b][t])>>
  <2>1. result[b][t] \in Seq(Seq(Term)) BY DEF TypeOK
  <2>2. d \in Block
    <3>1. gpc \in GroupsPerChunk BY DEF TypeOK
    <3>2. Len(result[b][t]) \in Nat BY <2>1
    <3>3. Len(result[b][t]) < ChunksOf(gpc) BY <1>12 DEF Reduce
    <3> QED BY <3>1, <3>2, <3>3, BlockFacts
  <2>3. workspace[d][t] \in Seq(Term) BY <2>2 DEF TypeOK
  <2>4. Append(result[b][t], workspace[d][t]) \in Seq(Seq(Term)) BY <2>1, <2>3
  <2> QED BY <1>12, <2>4 DEF Reduce, TypeOK
<1>13. ASSUME NEW b \in Block, NEW t \in Threads, WriteOutput(b, t) PROVE TypeOK'
  <2>1. PcTyped BY <1>13, <1>0, GotoTyped DEF WriteOutput
  <2>2. output' \in [RowIds -> Seq(Seq(Term))] BY <1>13 DEF WriteOutput, TypeOK
  <2> QED BY <1>13, <2>1, <2>2 DEF WriteOutput, TypeOK
<1>14. ASSUME NEW b \in Block, NEW t \in Threads, Reset(b, t) PROVE TypeOK'
  <2>1. PcTyped BY <1>14, <1>0, GotoTyped DEF Reset
  <2> QED BY <1>14, <2>1 DEF Reset, TypeOK
<1>15. CASE UNCHANGED vars BY <1>15 DEF vars, TypeOK
<1> QED BY <1>1, <1>2, <1>3, <1>4, <1>5, <1>6, <1>7, <1>8, <1>9, <1>10, <1>11,
           <1>12, <1>13, <1>14, <1>15 DEF Next, ThreadStep

\* Type correctness of the kernel: no thread ever leaves its places, reads a share
\* or a chunk that does not exist, or counts below zero.
THEOREM TypeCorrect == Spec => []TypeOK
<1>1. Init => TypeOK BY InitTypeOK
<1>2. TypeOK /\ [Next]_vars => TypeOK' BY NextTypeOK
<1> QED BY <1>1, <1>2, PTL DEF Spec

-----------------------------------------------------------------------------
(* The inductive invariant: what a step leaves alone. *)

\* The blocks of a launch, and the stores on their way, are typed.
LEMMA ActiveFacts ==
  ASSUME TypeOK
  PROVE  /\ Active \subseteq Block
         /\ 0 \in Threads
         /\ launch > 0 => \A i \in Tiles, c \in TileChunks : <<i, c>> \in Active
         /\ launch = 0 \/ launch > 0
         /\ \A e \in unflushed : e[1] \in Block /\ e[2] \in Threads /\ e = <<e[1], e[2]>>
<1>1. Active \subseteq Block BY BlockFacts DEF Active, TypeOK
<1>2. 0 \in Threads BY MTileAssumption DEF Threads
<1>3. launch > 0 => \A i \in Tiles, c \in TileChunks : <<i, c>> \in Active
  BY DEF Active, Grid, TileChunks
<1>4. launch = 0 \/ launch > 0 BY LaunchAssumption DEF TypeOK
<1>5. \A e \in unflushed : e[1] \in Block /\ e[2] \in Threads /\ e = <<e[1], e[2]>>
  BY DEF TypeOK
<1> QED BY <1>1, <1>2, <1>3, <1>4, <1>5

\* The barriers that a thread has passed say where it is, roughly.
LEMMA PassedFacts ==
  ASSUME TypeOK, Terms, NEW b \in Active, NEW t \in Threads
  PROVE  /\ Passed(b, t) \in Int /\ GroupsOf(b) \in Int
         /\ pc[b][t] \in {"queued", "build", "sync_lut", "consume", "store", "fence",
                          "sync_stored"} <=> Passed(b, t) <= GroupsOf(b)
         /\ pc[b][t] \in {"count", "sync_counted"} <=> Passed(b, t) = GroupsOf(b) + 1
         /\ pc[b][t] \in {"test", "reduce", "sync_output", "reset", "done"}
              <=> Passed(b, t) >= GroupsOf(b) + 2
         /\ pc[b][t] \in {"sync_stored", "store", "fence"} => Passed(b, t) = GroupsOf(b)
         /\ pc[b][t] \in {"queued", "build", "sync_lut"} =>
              Passed(b, t) < GroupsOf(b) \/ pc[b][t] = "queued"
         /\ pc[b][t] \in {"test", "reduce", "sync_output"} => Passed(b, t) = GroupsOf(b) + 2
         /\ pc[b][t] = "reset" => Passed(b, t) = GroupsOf(b) + 3
<1> DEFINE n == GroupsOf(b)
           len == Len(partial[b][t])
<1>1. n \in Int /\ len \in Nat
  <2>1. b \in Block BY ActiveFacts
  <2> QED BY <2>1, GroupsInt, NumberFacts
<1>2. /\ len <= n /\ pc[b][t] \in PCs
      /\ pc[b][t] \in {"build", "sync_lut", "consume"} => len < n
  <2>1. pc[b][t] \in PCs
    <3>1. b \in Block BY ActiveFacts
    <3> QED BY <3>1 DEF TypeOK
  <2> QED BY <2>1 DEF Terms
<1> HIDE DEF n, len
<1>3. CASE pc[b][t] \in {"queued", "build", "sync_lut"}
  <2>1. Passed(b, t) = len BY <1>3 DEF Passed, len
  <2> QED BY <1>1, <1>2, <1>3, <2>1 DEF n
<1>4. CASE pc[b][t] = "consume"
  <2>1. Passed(b, t) = len + 1 BY <1>4 DEF Passed, len
  <2> QED BY <1>1, <1>2, <1>4, <2>1 DEF n
<1>5. CASE pc[b][t] \in {"store", "fence", "sync_stored"}
  <2>1. Passed(b, t) = n BY <1>5 DEF Passed, n
  <2> QED BY <1>1, <1>5, <2>1 DEF n
<1>6. CASE pc[b][t] \in {"count", "sync_counted"}
  <2>1. Passed(b, t) = n + 1 BY <1>6 DEF Passed, n
  <2> QED BY <1>1, <1>6, <2>1 DEF n
<1>7. CASE pc[b][t] \in {"test", "reduce", "sync_output"}
  <2>1. Passed(b, t) = n + 2 BY <1>7 DEF Passed, n
  <2> QED BY <1>1, <1>7, <2>1 DEF n
<1>8. CASE pc[b][t] = "reset"
  <2>1. Passed(b, t) = n + 3 BY <1>8 DEF Passed, n
  <2> QED BY <1>1, <1>8, <2>1 DEF n
<1>9. CASE pc[b][t] = "done"
  <2>1. Passed(b, t) = n + 2 \/ Passed(b, t) = n + 3 BY <1>9 DEF Passed, n
  <2> QED BY <1>1, <1>9, <2>1 DEF n
<1>10. \/ pc[b][t] \in {"queued", "build", "sync_lut"}
       \/ pc[b][t] = "consume"
       \/ pc[b][t] \in {"store", "fence", "sync_stored"}
       \/ pc[b][t] \in {"count", "sync_counted"}
       \/ pc[b][t] \in {"test", "reduce", "sync_output"}
       \/ pc[b][t] = "reset" \/ pc[b][t] = "done"
  BY <1>2 DEF PCs, Barriers
<1> QED BY <1>3, <1>4, <1>5, <1>6, <1>7, <1>8, <1>9, <1>10

\* Counting depends on which blocks have counted in and on the last block.
LEMMA KeepCounting ==
  ASSUME IInv, UNCHANGED <<launch, gpc, counter, final>>,
         \A d \in Active : /\ CountedIn(d)' <=> CountedIn(d)
                           /\ final[d] = "yes" =>
                                (pc'[d][0] = "done" <=> pc[d][0] = "done")
  PROVE  Counting'
<1>1. CASE launch = 0 BY <1>1 DEF IInv, Counting
<1>2. CASE launch > 0
  <2>1. TileChunks' = TileChunks BY DEF TileChunks, ChunksOf
  <2>2. \A i \in Tiles, c \in TileChunks : <<i, c>> \in Active
    BY <1>2, ActiveFacts DEF IInv
  <2>3. \A i \in Tiles : CountedChunks(i)' = CountedChunks(i)
    BY <2>1, <2>2 DEF CountedChunks
  <2>4. \A i \in Tiles : Cleared(i)' = Cleared(i) BY <2>1, <2>2 DEF Cleared
  <2> QED BY <1>2, <2>1, <2>3, <2>4 DEF IInv, Counting
<1> QED BY <1>1, <1>2, ActiveFacts DEF IInv

\* Stored depends on which threads have stored their row.
LEMMA KeepStored ==
  ASSUME IInv, UNCHANGED <<launch, gpc, output>>,
         \A d \in Active, u \in Threads : StoredBy(d, u)' <=> StoredBy(d, u)
  PROVE  Stored'
<1> SUFFICES ASSUME launch > 0 PROVE Stored' BY DEF Stored
<1>1. TileChunks' = TileChunks BY DEF TileChunks, ChunksOf
<1>2. \A i \in Tiles, c \in TileChunks : <<i, c>> \in Active BY ActiveFacts DEF IInv
<1>3. ExactRow(launch, gpc)' = ExactRow(launch, gpc)
  BY DEF ExactRow, ExactPartial, ChunksOf, FinalGroup
<1> QED BY <1>1, <1>2, <1>3 DEF IInv, Stored, Row

\* A thread moves on between two barriers, neither counting in nor storing a row.
LEMMA MoveFrame ==
  ASSUME IInv, NEW b \in Block, NEW t \in Threads, NEW q \in PCs \ {"count", "reset"},
         Goto(b, t, q), UNCHANGED <<launch, gpc, counter, final, output>>,
         pc[b][t] # "done",
         unflushed' \subseteq unflushed \cup {<<b, t>>},
         \A d \in Block, u \in Threads :
           <<d, u>> # <<b, t>> => partial'[d][u] = partial[d][u],
         Passed(b, t)' = Passed(b, t),
         pc[b][t] \in CountedPlaces <=> q \in CountedPlaces,
         final[b] = "yes" => /\ q # "done"
                             /\ pc[b][t] \in StoredPlaces <=> q \in StoredPlaces,
         q \in {"reduce", "sync_output"} => final[b] = "yes",
         q = "done" => final[b] # "unset"
  PROVE  /\ b \in Active /\ Active' = Active
         /\ \A d \in Block, u \in Threads :
              pc'[d][u] = IF d = b /\ u = t THEN q ELSE pc[d][u]
         /\ Idle' /\ InStep' /\ FinalSet' /\ Counting' /\ Stored'
<1>0. TypeOK BY DEF IInv
<1>1. b \in Active BY DEF IInv, Idle
<1>2. Active' = Active /\ Active \subseteq Block BY <1>0, ActiveFacts DEF Active, Grid, ChunksOf
<1>3. \A d \in Block, u \in Threads :
        pc'[d][u] = IF d = b /\ u = t THEN q ELSE pc[d][u]
  BY <1>0 DEF Goto, TypeOK
<1>4. Idle' BY <1>1, <1>2, <1>3 DEF IInv, Idle
<1>5. \A d \in Active, u \in Threads : Passed(d, u)' = Passed(d, u)
  <2> SUFFICES ASSUME NEW d \in Active, NEW u \in Threads PROVE Passed(d, u)' = Passed(d, u)
    OBVIOUS
  <2>1. CASE d = b /\ u = t BY <2>1
  <2>2. CASE <<d, u>> # <<b, t>>
    <3>1. pc'[d][u] = pc[d][u] /\ partial'[d][u] = partial[d][u]
      BY <1>2, <1>3, <2>2
    <3>2. GroupsOf(d)' = GroupsOf(d) BY DEF GroupsOf, FinalGroup, First
    <3> QED BY <3>1, <3>2 DEF Passed
  <2> QED BY <2>1, <2>2
<1>6. InStep' BY <1>2, <1>5 DEF IInv, InStep
<1>7. \A d \in Block : CountedIn(d)' <=> CountedIn(d)
  BY <1>0, <1>3, ActiveFacts DEF CountedIn
<1>8. FinalSet' BY <1>0, <1>2, <1>3, <1>7 DEF IInv, FinalSet
<1>9. Counting'
  <2>1. \A d \in Active : final[d] = "yes" => (pc'[d][0] = "done" <=> pc[d][0] = "done")
    BY <1>0, <1>2, <1>3, ActiveFacts
  <2> QED BY <1>2, <1>7, <2>1, KeepCounting
<1>10. Stored'
  <2>1. \A d \in Active, u \in Threads : StoredBy(d, u)' <=> StoredBy(d, u)
    BY <1>2, <1>3 DEF StoredBy
  <2> QED BY <2>1, KeepStored
<1> QED BY <1>1, <1>2, <1>3, <1>4, <1>6, <1>8, <1>9, <1>10

-----------------------------------------------------------------------------
(* The inductive invariant, thread by thread. *)

\* The places of the kernel; only thread 0 stands at "count" or "reset".
LEMMA PlaceFacts ==
  /\ {"sync_lut", "build", "store", "fence", "sync_stored", "reduce", "done",
      "sync_output"} \subseteq PCs \ {"count", "reset"}
  /\ {"count", "reset", "test", "consume", "queued", "sync_counted"} \subseteq PCs
BY DEF PCs, Barriers

\* Exact values depend on the launch and its chunks alone.
LEMMA ShapeKept ==
  ASSUME UNCHANGED <<launch, gpc>>
  PROVE  /\ ChunksOf(gpc)' = ChunksOf(gpc) /\ ExactRow(launch, gpc)' = ExactRow(launch, gpc)
         /\ \A c : ExactPartial(launch, gpc, c)' = ExactPartial(launch, gpc, c)
         /\ \A d : First(d)' = First(d) /\ GroupsOf(d)' = GroupsOf(d)
BY DEF ExactRow, ExactPartial, ChunksOf, FinalGroup, First, GroupsOf

\* A thread that stays where it is has passed the same barriers as before.
LEMMA PassedKept ==
  ASSUME NEW b, NEW t, UNCHANGED gpc, pc'[b][t] = pc[b][t],
         partial'[b][t] = partial[b][t], final'[b] = final[b]
  PROVE  Passed(b, t)' = Passed(b, t)
BY DEF Passed, GroupsOf, First, FinalGroup

\* Filling a share of the table disturbs nobody: no thread reads that buffer.
LEMMA BuildStep ==
  ASSUME IInv, NEW b \in Block, NEW t \in Threads, Build(b, t)
  PROVE  IInv'
<1> USE DEF hostVars, answerVars, tableVars, publishVars, countVars
<1>0. TypeOK /\ TypeOK' /\ Active \subseteq Block
  BY NextTypeOK, ActiveFacts DEF Next, ThreadStep, IInv
<1>1. Passed(b, t)' = Passed(b, t) BY <1>0 DEF Build, Passed, Goto, TypeOK
<1>2. /\ b \in Active /\ Active' = Active
      /\ \A d \in Block, u \in Threads :
           pc'[d][u] = IF d = b /\ u = t THEN "sync_lut" ELSE pc[d][u]
      /\ Idle' /\ InStep' /\ FinalSet' /\ Counting' /\ Stored'
  BY <1>1, MoveFrame, PlaceFacts DEF Build, CountedPlaces, StoredPlaces
<1>3. \A d \in Block, u \in Threads :
        Group(d, u)' = Group(d, u) /\ Buffer(d, u)' = Buffer(d, u)
  BY DEF Build, First, Group, Buffer
<1>4. Terms' BY <1>0, <1>2, ShapeKept DEF Build, IInv, Terms
<1>5. Table'
  <2>1. \A d \in Block, i \in Buffers, u \in Threads :
          lut'[d][i][u] = IF d = b /\ i = Buffer(b, t) /\ u = t
                          THEN <<launch, Group(b, t)>> ELSE lut[d][i][u]
    <3>1. lut \in [Block -> [Buffers -> [Threads -> Term]]] BY <1>0 DEF TypeOK
    <3>2. lut' = [lut EXCEPT ![b][Buffer(b, t)][t] = <<launch, Group(b, t)>>]
      BY DEF Build
    <3>3. Buffer(b, t) \in Buffers BY <1>0, NumberFacts
    <3> QED BY <3>1, <3>2, <3>3
  <2>2. \A u \in Threads : pc[b][u] = "consume" => Buffer(b, u) # Buffer(b, t)
    <3> SUFFICES ASSUME NEW u \in Threads, pc[b][u] = "consume"
                 PROVE  Buffer(b, u) # Buffer(b, t)
      OBVIOUS
    <3>1. Len(partial[b][t]) = Len(partial[b][u]) + 1
      BY <1>2 DEF IInv, InStep, Passed, Build
    <3> QED BY <3>1, Parity, NumberFacts, <1>0 DEF Buffer
  <2>3. \A d \in Block, u \in Threads : Buffer(d, u) \in Buffers BY <1>0, NumberFacts
  <2> QED BY <1>0, <1>2, <1>3, <2>1, <2>2, <2>3 DEF Build, IInv, Table
<1>6. Published' BY <1>0, <1>2, ActiveFacts DEF Build, IInv, Published
<1>7. Reduced' BY <1>0, <1>2, ShapeKept DEF Build, IInv, Reduced
<1> QED BY <1>0, <1>2, <1>4, <1>5, <1>6, <1>7 DEF IInv

\* Reading a share of the table finds the group it was built for.
LEMMA ConsumeStep ==
  ASSUME IInv, NEW b \in Block, NEW t \in Threads, Consume(b, t)
  PROVE  IInv'
<1> USE DEF hostVars, answerVars, tableVars, publishVars, countVars
<1>0. TypeOK /\ TypeOK' /\ Active \subseteq Block
  BY NextTypeOK, ActiveFacts DEF Next, ThreadStep, IInv
<1>1. b \in Active BY DEF IInv, Idle, Consume
<1>2. UNCHANGED <<launch, gpc, output, pc, lut, partial, unflushed, workspace, counter,
                  final, result>>
  BY DEF Consume
<1>3. clean'[b][t]
  <2>1. slot[b][t] \in Threads
    <3>1. slot[b][t] \in 0..MTile BY <1>0 DEF TypeOK
    <3> QED BY <3>1, MTileAssumption DEF Consume, Threads
  <2>2. clean[b][t] /\ lut[b][Buffer(b, t)][slot[b][t]] = <<launch, Group(b, t)>>
    BY <1>1, <2>1 DEF Consume, IInv, Table
  <2> QED BY <1>0, <2>2 DEF Consume, TypeOK
<1>4. Table'
  <2>1. \A d \in Active, u \in Threads : clean'[d][u]
    <3>1. clean \in [Block -> [Threads -> BOOLEAN]] BY <1>0 DEF TypeOK
    <3>2. \A d \in Active, u \in Threads : clean[d][u] BY DEF IInv, Table
    <3>3. \A d \in Block, u \in Threads :
            <<d, u>> # <<b, t>> => clean'[d][u] = clean[d][u]
      BY <3>1 DEF Consume
    <3> QED BY <1>0, <1>3, <3>2, <3>3
  <2>2. Active' = Active BY <1>2 DEF Active, Grid, ChunksOf
  <2>3. \A d \in Block, u \in Threads :
          Group(d, u)' = Group(d, u) /\ Buffer(d, u)' = Buffer(d, u)
    BY <1>2 DEF First, Group, Buffer
  <2> QED BY <1>0, <1>2, <2>1, <2>2, <2>3 DEF IInv, Table
<1>5. Active' = Active BY <1>2 DEF Active, Grid, ChunksOf
<1>6. Idle' BY <1>2, <1>5 DEF IInv, Idle
<1>7. InStep'
  <2>1. \A d \in Active, u \in Threads : Passed(d, u)' = Passed(d, u)
    BY <1>2, ShapeKept DEF Passed
  <2> QED BY <1>5, <2>1 DEF IInv, InStep
<1>8. Terms' BY <1>2, <1>5, ShapeKept DEF IInv, Terms
<1>9. Published' BY <1>2, <1>5 DEF IInv, Published
<1>10. FinalSet' BY <1>2, <1>5 DEF IInv, FinalSet, CountedIn
<1>11. Counting' BY <1>2, KeepCounting DEF CountedIn
<1>12. Reduced' BY <1>2, <1>5, ShapeKept DEF IInv, Reduced
<1>13. Stored' BY <1>2, KeepStored DEF StoredBy
<1> QED BY <1>0, <1>4, <1>6, <1>7, <1>8, <1>9, <1>10, <1>11, <1>12, <1>13 DEF IInv

\* Adding the term of a group keeps the terms in group order, and no barrier is passed.
LEMMA AccumulateStep ==
  ASSUME IInv, NEW b \in Block, NEW t \in Threads, Accumulate(b, t)
  PROVE  IInv'
<1> USE DEF hostVars, answerVars, tableVars, publishVars, countVars
<1> DEFINE more == Group(b, t) + 1 < FinalGroup(gpc, b[2])
           q == IF more THEN "build" ELSE "store"
<1>0. TypeOK /\ TypeOK' /\ Active \subseteq Block
  BY NextTypeOK, ActiveFacts DEF Next, ThreadStep, IInv
<1>1. b \in Active BY DEF IInv, Idle, Accumulate
<1>2. /\ \A d \in Block, u \in Threads :
           partial'[d][u] = IF d = b /\ u = t
                            THEN Append(partial[b][t], <<launch, Group(b, t)>>)
                            ELSE partial[d][u]
      /\ \A d \in Block, u \in Threads : clean'[d][u] = clean[d][u]
  <2>1. clean[b][t] = TRUE BY <1>0, <1>1 DEF IInv, Table, TypeOK
  <2>2. \A d \in Block, u \in Threads :
          partial'[d][u] = IF d = b /\ u = t
                           THEN Append(partial[b][t], <<launch, Group(b, t)>>)
                           ELSE partial[d][u]
    <3>1. partial \in [Block -> [Threads -> Seq(Term)]] BY <1>0 DEF TypeOK
    <3> QED BY <2>1, <3>1 DEF Accumulate
  <2>3. \A d \in Block, u \in Threads :
          clean'[d][u] = IF d = b /\ u = t THEN TRUE ELSE clean[d][u]
    <3>1. clean \in [Block -> [Threads -> BOOLEAN]] BY <1>0 DEF TypeOK
    <3> QED BY <3>1 DEF Accumulate
  <2> QED BY <2>1, <2>2, <2>3
<1>3. /\ Len(partial'[b][t]) = Len(partial[b][t]) + 1
      /\ \A i \in 1..Len(partial'[b][t]) : partial'[b][t][i] = <<launch, First(b) + i - 1>>
      /\ Len(partial[b][t]) \in Nat
  <2> DEFINE p == partial[b][t]
             x == <<launch, Group(b, t)>>
  <2>1. p \in Seq(Term) /\ x \in Term
    <3>1. p \in Seq(Term) BY <1>0 DEF TypeOK
    <3>2. x \in Term BY <1>0, NumberFacts
    <3> QED BY <3>1, <3>2
  <2>2. \A i \in 1..Len(partial[b][t]) : partial[b][t][i] = <<launch, First(b) + i - 1>>
    BY <1>1 DEF IInv, Terms
  <2>3. First(b) \in Nat BY <1>0, NumberFacts
  <2>4. partial'[b][t] = Append(p, x) BY <1>2
  <2>5. /\ Len(Append(p, x)) = Len(p) + 1 /\ Len(p) \in Nat
        /\ \A i \in 1..Len(p) : Append(p, x)[i] = p[i]
        /\ Append(p, x)[Len(p) + 1] = x
    BY <2>1
  <2>6. x = <<launch, First(b) + (Len(p) + 1) - 1>> BY <2>3, <2>5 DEF Group
  <2>7. ASSUME NEW i \in 1..(Len(p) + 1)
        PROVE  Append(p, x)[i] = <<launch, First(b) + i - 1>>
    <3>1. CASE i \in 1..Len(p) BY <2>2, <2>5, <3>1
    <3>2. CASE i = Len(p) + 1 BY <2>5, <2>6, <3>2
    <3>3. i \in 1..Len(p) \/ i = Len(p) + 1 BY <2>5
    <3> QED BY <3>1, <3>2, <3>3
  <2> HIDE DEF x
  <2> QED BY <2>4, <2>5, <2>7
<1>4. /\ more <=> Len(partial[b][t]) + 1 < GroupsOf(b)
      /\ Len(partial[b][t]) < GroupsOf(b) /\ GroupsOf(b) \in Int
  <2>1. FinalGroup(gpc, b[2]) \in Int
    <3>1. gpc \in Nat /\ b[2] \in Nat BY <1>0, NumberFacts, BlockFacts
    <3>2. (b[2] + 1) * gpc \in Nat BY <3>1
    <3> QED BY <3>2, GroupsAssumption DEF FinalGroup
  <2>2. First(b) \in Nat BY <1>0, NumberFacts
  <2>3. Len(partial[b][t]) < GroupsOf(b) BY <1>1 DEF IInv, Terms, Accumulate
  <2> QED BY <1>3, <2>1, <2>2, <2>3 DEF GroupsOf, Group
<1>5. pc'[b][t] = q BY <1>0 DEF Accumulate, Goto, TypeOK
<1>6. Passed(b, t)' = Passed(b, t)
  <2>1. GroupsOf(b)' = GroupsOf(b) BY ShapeKept DEF Accumulate
  <2>2. Passed(b, t) = Len(partial[b][t]) + 1 BY DEF Passed, Accumulate
  <2>3. CASE more BY <2>1, <2>2, <2>3, <1>3, <1>5 DEF Passed
  <2>4. CASE ~more
    <3>1. GroupsOf(b) = Len(partial[b][t]) + 1 BY <1>3, <1>4, <2>4
    <3> QED BY <2>1, <2>2, <2>4, <3>1, <1>5 DEF Passed
  <2> QED BY <2>3, <2>4
<1>7. /\ Active' = Active
      /\ \A d \in Block, u \in Threads :
           pc'[d][u] = IF d = b /\ u = t THEN q ELSE pc[d][u]
      /\ Idle' /\ InStep' /\ FinalSet' /\ Counting' /\ Stored'
  <2>1. q \in PCs \ {"count", "reset"} /\ q \notin CountedPlaces /\ q \notin StoredPlaces
        /\ q \notin {"reduce", "sync_output", "done"}
    BY PlaceFacts DEF CountedPlaces, StoredPlaces
  <2>2. pc[b][t] \notin CountedPlaces /\ pc[b][t] \notin StoredPlaces /\ pc[b][t] # "done"
    BY DEF Accumulate, CountedPlaces, StoredPlaces
  <2>3. \A d \in Block, u \in Threads :
          <<d, u>> # <<b, t>> => partial'[d][u] = partial[d][u]
    BY <1>2
  <2> QED BY <1>6, <2>1, <2>2, <2>3, MoveFrame DEF Accumulate
<1>8. Terms'
  <2> SUFFICES ASSUME NEW d \in Active, NEW u \in Threads
               PROVE (/\ Len(partial[d][u]) <= GroupsOf(d)
                      /\ \A i \in 1..Len(partial[d][u]) :
                           partial[d][u][i] = <<launch, First(d) + i - 1>>
                      /\ pc[d][u] = "queued" => Len(partial[d][u]) = 0
                      /\ pc[d][u] \in {"build", "sync_lut", "consume"}
                           => Len(partial[d][u]) < GroupsOf(d)
                      /\ pc[d][u] \notin {"queued", "build", "sync_lut", "consume"}
                           => Len(partial[d][u]) = GroupsOf(d))'
    BY <1>7 DEF Terms
  <2>0. UNCHANGED <<launch, gpc>> BY DEF Accumulate
  <2>1. CASE d = b /\ u = t
    BY <2>0, <2>1, <1>0, <1>3, <1>4, <1>7, ShapeKept
  <2>2. CASE ~(d = b /\ u = t)
    <3>1. partial'[d][u] = partial[d][u] /\ pc'[d][u] = pc[d][u]
      <4>1. partial'[d][u] = partial[d][u] BY <2>2, <1>0, <1>2
      <4>2. pc \in [Block -> [Threads -> PCs]] BY <1>0 DEF TypeOK
      <4> QED BY <1>0, <2>2, <4>1, <4>2 DEF Accumulate, Goto
    <3>2. First(d)' = First(d) /\ GroupsOf(d)' = GroupsOf(d) /\ launch' = launch
      BY <2>0, ShapeKept
    <3> QED BY <3>1, <3>2, <1>7 DEF IInv, Terms
  <2> QED BY <2>1, <2>2
<1>9. Table'
  <2>1. \A d \in Block, u \in Threads : ~(d = b /\ u = t) =>
          Group(d, u)' = Group(d, u) /\ Buffer(d, u)' = Buffer(d, u)
    <3>1. UNCHANGED <<launch, gpc>> BY DEF Accumulate
    <3> QED BY <1>2, <3>1 DEF First, Group, Buffer
  <2>2. q \notin {"sync_lut", "consume"} OBVIOUS
  <2> QED BY <1>0, <1>2, <1>7, <2>1, <2>2 DEF Accumulate, IInv, Table
<1>10. Published'
  <2>1. q \in {"build", "store"} OBVIOUS
  <2> QED BY <1>0, <1>2, <1>7, <2>1, ActiveFacts DEF Accumulate, IInv, Published
<1>11. Reduced'
  <2>1. q \in {"build", "store"} OBVIOUS
  <2> QED BY <1>0, <1>7, <2>1, ShapeKept DEF Accumulate, IInv, Reduced
<1> QED BY <1>0, <1>7, <1>8, <1>9, <1>10, <1>11 DEF IInv

\* The store to the workspace is on its way until the fence.
LEMMA StorePartialStep ==
  ASSUME IInv, NEW b \in Block, NEW t \in Threads, StorePartial(b, t)
  PROVE  IInv'
<1> USE DEF hostVars, answerVars, tableVars, publishVars, countVars
<1>0. TypeOK /\ TypeOK' /\ Active \subseteq Block
  BY NextTypeOK, ActiveFacts DEF Next, ThreadStep, IInv
<1>1. Passed(b, t)' = Passed(b, t)
  BY <1>0, ShapeKept DEF StorePartial, Passed, Goto, TypeOK
<1>2. /\ b \in Active /\ Active' = Active
      /\ \A d \in Block, u \in Threads :
           pc'[d][u] = IF d = b /\ u = t THEN "fence" ELSE pc[d][u]
      /\ Idle' /\ InStep' /\ FinalSet' /\ Counting' /\ Stored'
  BY <1>1, MoveFrame, PlaceFacts DEF StorePartial, CountedPlaces, StoredPlaces
<1>3. \A d \in Block, u \in Threads :
        Group(d, u)' = Group(d, u) /\ Buffer(d, u)' = Buffer(d, u)
  BY DEF StorePartial, First, Group, Buffer
<1>4. Terms' BY <1>0, <1>2, ShapeKept DEF StorePartial, IInv, Terms
<1>5. Table' BY <1>0, <1>2, <1>3 DEF StorePartial, IInv, Table
<1>6. Published' BY <1>0, <1>2, ActiveFacts DEF StorePartial, IInv, Published
<1>7. Reduced' BY <1>0, <1>2, ShapeKept DEF StorePartial, IInv, Reduced
<1> QED BY <1>0, <1>2, <1>4, <1>5, <1>6, <1>7 DEF IInv

\* A thread past the fence has published its partial sum.
LEMMA FenceStep ==
  ASSUME IInv, NEW b \in Block, NEW t \in Threads, Fence(b, t)
  PROVE  IInv'
<1> USE DEF hostVars, answerVars, tableVars, publishVars, countVars
<1>0. TypeOK /\ TypeOK' /\ Active \subseteq Block
  BY NextTypeOK, ActiveFacts DEF Next, ThreadStep, IInv
<1>1. Passed(b, t)' = Passed(b, t)
  BY <1>0, ShapeKept DEF Fence, Passed, Goto, TypeOK
<1>2. /\ b \in Active /\ Active' = Active
      /\ \A d \in Block, u \in Threads :
           pc'[d][u] = IF d = b /\ u = t THEN "sync_stored" ELSE pc[d][u]
      /\ Idle' /\ InStep' /\ FinalSet' /\ Counting' /\ Stored'
  BY <1>1, MoveFrame, PlaceFacts DEF Fence, CountedPlaces, StoredPlaces
<1>3. \A d \in Block, u \in Threads :
        Group(d, u)' = Group(d, u) /\ Buffer(d, u)' = Buffer(d, u)
  BY DEF Fence, First, Group, Buffer
<1>4. Terms' BY <1>0, <1>2, ShapeKept DEF Fence, IInv, Terms
<1>5. Table' BY <1>0, <1>2, <1>3 DEF Fence, IInv, Table
<1>6. Published' BY <1>0, <1>2, ActiveFacts DEF Fence, IInv, Published
<1>7. Reduced' BY <1>0, <1>2, ShapeKept DEF Fence, IInv, Reduced
<1> QED BY <1>0, <1>2, <1>4, <1>5, <1>6, <1>7 DEF IInv

\* A store that becomes visible publishes the partial sum of its thread.
LEMMA FlushStep ==
  ASSUME IInv, NEW b \in Block, NEW t \in Threads, Flush(b, t)
  PROVE  IInv'
<1> USE DEF hostVars, answerVars, tableVars, publishVars, countVars
<1>0. TypeOK /\ TypeOK' /\ Active \subseteq Block
  BY NextTypeOK, ActiveFacts DEF Next, IInv
<1>1. UNCHANGED <<launch, gpc, output, pc, lut, slot, clean, partial, counter, final,
                  result>>
  BY DEF Flush
<1>2. Active' = Active BY <1>1 DEF Active, Grid, ChunksOf
<1>3. Idle' BY <1>1, <1>2 DEF IInv, Idle, Flush
<1>4. InStep'
  <2>1. \A d \in Active, u \in Threads : Passed(d, u)' = Passed(d, u)
    BY <1>1, ShapeKept DEF Passed
  <2> QED BY <1>2, <2>1 DEF IInv, InStep
<1>5. Terms' BY <1>1, <1>2, ShapeKept DEF IInv, Terms
<1>6. Table'
  <2>1. \A d \in Block, u \in Threads :
          Group(d, u)' = Group(d, u) /\ Buffer(d, u)' = Buffer(d, u)
    BY <1>1 DEF First, Group, Buffer
  <2> QED BY <1>0, <1>1, <1>2, <2>1 DEF IInv, Table
<1>7. Published'
  <2>1. \A d \in Block, u \in Threads :
          workspace'[d][u] = IF d = b /\ u = t THEN partial[b][t] ELSE workspace[d][u]
    <3>1. workspace \in [Block -> [Threads -> Seq(Term)]] BY <1>0 DEF TypeOK
    <3> QED BY <3>1 DEF Flush
  <2> QED BY <1>0, <1>1, <1>2, <2>1, ActiveFacts DEF Flush, IInv, Published
<1>8. FinalSet' BY <1>1, <1>2 DEF IInv, FinalSet, CountedIn
<1>9. Counting' BY <1>1, KeepCounting DEF CountedIn
<1>10. Reduced' BY <1>1, <1>2, ShapeKept DEF IInv, Reduced
<1>11. Stored' BY <1>1, KeepStored DEF StoredBy
<1> QED BY <1>0, <1>3, <1>4, <1>5, <1>6, <1>7, <1>8, <1>9, <1>10, <1>11 DEF IInv

\* A thread reduces when final_chunk says so, and exits when it does not.
LEMMA TestStep ==
  ASSUME IInv, NEW b \in Block, NEW t \in Threads, Test(b, t)
  PROVE  IInv'
<1> USE DEF hostVars, answerVars, tableVars, publishVars, countVars
<1> DEFINE q == IF final[b] = "yes" THEN "reduce" ELSE "done"
<1>0. TypeOK /\ TypeOK' /\ Active \subseteq Block
  BY NextTypeOK, ActiveFacts DEF Next, ThreadStep, IInv
<1>1. b \in Active BY DEF IInv, Idle, Test
\* Thread 0 stands where t stands, beyond its count: final_chunk is written.
<1>2. final[b] \in {"yes", "no"}
  <2>1. Passed(b, 0) = Passed(b, t) BY <1>1, <1>0, ActiveFacts DEF IInv, InStep
  <2>2. Passed(b, t) = GroupsOf(b) + 2 BY DEF Test, Passed
  <2>3. 0 \in Threads /\ Terms BY <1>0, ActiveFacts DEF IInv
  <2>4. pc[b][0] \in {"test", "reduce", "sync_output", "reset", "done"}
    BY <1>0, <1>1, <2>1, <2>2, <2>3, PassedFacts
  <2>5. CountedIn(b) BY <2>4 DEF CountedIn, CountedPlaces
  <2> QED BY <1>0, <1>1, <2>5 DEF IInv, FinalSet, TypeOK
<1>3. Goto(b, t, q) BY <1>2 DEF Test
<1>4. Passed(b, t)' = Passed(b, t)
  BY <1>0, <1>2, <1>3, ShapeKept DEF Test, Passed, Goto, TypeOK
<1>5. /\ Active' = Active
      /\ \A d \in Block, u \in Threads :
           pc'[d][u] = IF d = b /\ u = t THEN q ELSE pc[d][u]
      /\ Idle' /\ InStep' /\ FinalSet' /\ Counting' /\ Stored'
  BY <1>1, <1>2, <1>3, <1>4, MoveFrame, PlaceFacts DEF Test, CountedPlaces, StoredPlaces
<1>6. \A d \in Block, u \in Threads :
        Group(d, u)' = Group(d, u) /\ Buffer(d, u)' = Buffer(d, u)
  BY DEF Test, First, Group, Buffer
<1>7. Terms' BY <1>0, <1>5, ShapeKept DEF Test, IInv, Terms
<1>8. Table' BY <1>0, <1>5, <1>6 DEF Test, IInv, Table
<1>9. Published' BY <1>0, <1>5, ActiveFacts DEF Test, IInv, Published
<1>10. Reduced'
  <2>1. result[b][t] = << >> BY <1>1 DEF Test, IInv, Reduced
  <2>2. ChunksOf(gpc) >= 0 BY <1>0, ChunkCount DEF TypeOK
  <2> QED BY <1>0, <1>5, <2>1, <2>2, ShapeKept DEF Test, IInv, Reduced
<1> QED BY <1>0, <1>5, <1>7, <1>8, <1>9, <1>10 DEF IInv

\* When a thread reduces, every chunk of its tile is in the workspace, exactly.
LEMMA ReducerSees ==
  ASSUME IInv, NEW b \in Block, NEW t \in Threads, pc[b][t] = "reduce",
         NEW c \in TileChunks
  PROVE  workspace[<<b[1], c>>][t] = ExactPartial(launch, gpc, c)
<1> DEFINE d == <<b[1], c>>
<1>0. TypeOK /\ Active \subseteq Block /\ 0 \in Threads BY ActiveFacts DEF IInv
<1>1. b \in Active /\ final[b] = "yes" BY DEF IInv, Idle, FinalSet
<1>2. launch > 0 BY <1>0, <1>1, ActiveFacts DEF Active
<1>3. b[1] \in Tiles /\ b[2] \in TileChunks /\ b = <<b[1], b[2]>>
  <2>1. b \in Grid(gpc) BY <1>1, <1>2 DEF Active
  <2> QED BY <2>1 DEF Grid, TileChunks
<1>4. d \in Active BY <1>0, <1>2, <1>3, ActiveFacts
<1>5. CountedIn(d)
  <2>1. CountedChunks(b[1]) = TileChunks BY <1>1, <1>2, <1>3 DEF IInv, Counting
  <2> QED BY <2>1 DEF CountedChunks
<1>6. pc[d][t] \notin {"queued", "build", "sync_lut", "consume", "store", "fence"}
  <2>1. Passed(d, 0) = Passed(d, t) BY <1>0, <1>4 DEF IInv, InStep
  <2>2. Terms BY DEF IInv
  <2>3. pc[d][0] # "queued" /\ Passed(d, 0) >= GroupsOf(d) + 1
    BY <1>0, <1>4, <1>5, <2>2, PassedFacts DEF CountedIn, CountedPlaces
  <2> QED BY <1>0, <1>4, <2>1, <2>2, <2>3, PassedFacts
<1>7. workspace[d][t] = partial[d][t]
  <2>1. <<d, t>> \notin unflushed BY <1>6 DEF IInv, Published
  <2> QED BY <1>4, <1>6, <2>1 DEF IInv, Published
<1>8. partial[d][t] = ExactPartial(launch, gpc, c)
  <2>1. /\ partial[d][t] \in Seq(Term) /\ Len(partial[d][t]) = GroupsOf(d)
        /\ \A i \in 1..GroupsOf(d) : partial[d][t][i] = <<launch, First(d) + i - 1>>
    <3>1. partial[d][t] \in Seq(Term) BY <1>0, <1>4 DEF TypeOK
    <3>2. Terms BY DEF IInv
    <3>3. Len(partial[d][t]) = GroupsOf(d) BY <3>2, <1>4, <1>6 DEF Terms
    <3>4. \A i \in 1..Len(partial[d][t]) :
            partial[d][t][i] = <<launch, First(d) + i - 1>>
      BY <3>2, <1>4 DEF Terms
    <3> QED BY <3>1, <3>3, <3>4
  <2>2. First(d) = c * gpc /\ GroupsOf(d) = FinalGroup(gpc, c) - c * gpc
    BY DEF First, GroupsOf
  <2>3. GroupsOf(d) \in Nat BY <2>1
  <2>4. ExactPartial(launch, gpc, c) =
          [i \in 1..GroupsOf(d) |-> <<launch, First(d) + i - 1>>]
    BY <2>2 DEF ExactPartial
  <2>5. DOMAIN partial[d][t] = 1..GroupsOf(d) BY <2>1
  <2>6. partial[d][t] = [i \in DOMAIN partial[d][t] |-> partial[d][t][i]] BY <2>1
  <2> HIDE DEF d
  <2> QED BY <2>1, <2>4, <2>5, <2>6
<1> QED BY <1>7, <1>8

\* The reduction adds the exact partial sum of the next chunk.
LEMMA ReduceStep ==
  ASSUME IInv, NEW b \in Block, NEW t \in Threads, Reduce(b, t)
  PROVE  IInv'
<1> USE DEF hostVars, tableVars, publishVars, countVars
<1> DEFINE len == Len(result[b][t])
           x == workspace[<<b[1], len>>][t]
<1>0. TypeOK /\ TypeOK' /\ Active \subseteq Block
  BY NextTypeOK, ActiveFacts DEF Next, ThreadStep, IInv
<1>1. UNCHANGED <<launch, gpc, output, pc, lut, slot, clean, partial, unflushed, workspace,
                  counter, final>>
  BY DEF Reduce
<1>2. Active' = Active BY <1>1 DEF Active, Grid, ChunksOf
<1>3. b \in Active /\ pc[b][t] = "reduce" BY DEF IInv, Idle, Reduce
<1>4. Idle' BY <1>1, <1>2 DEF IInv, Idle
<1>5. InStep'
  <2>1. \A d \in Active, u \in Threads : Passed(d, u)' = Passed(d, u)
    BY <1>1, ShapeKept DEF Passed
  <2> QED BY <1>2, <2>1 DEF IInv, InStep
<1>6. Terms' BY <1>1, <1>2, ShapeKept DEF IInv, Terms
<1>7. Table'
  <2>1. \A d \in Block, u \in Threads :
          Group(d, u)' = Group(d, u) /\ Buffer(d, u)' = Buffer(d, u)
    BY <1>1 DEF First, Group, Buffer
  <2> QED BY <1>0, <1>1, <1>2, <2>1 DEF IInv, Table
<1>8. Published' BY <1>1, <1>2 DEF IInv, Published
<1>9. FinalSet' BY <1>1, <1>2 DEF IInv, FinalSet, CountedIn
<1>10. Counting' BY <1>1, KeepCounting DEF CountedIn
<1>11. Reduced'
  <2> DEFINE longer == Append(result[b][t], x)
  <2>1. result[b][t] \in Seq(Seq(Term)) /\ len \in Nat /\ ChunksOf(gpc) \in Nat
    BY <1>0, ChunkCount DEF TypeOK
  <2>2. len \in TileChunks BY <2>1 DEF Reduce, TileChunks
  <2>3. x = ExactPartial(launch, gpc, len) BY <1>3, <2>2, ReducerSees
  <2>4. \A d \in Block, u \in Threads :
          result'[d][u] = IF d = b /\ u = t THEN longer ELSE result[d][u]
    BY <1>0 DEF Reduce, TypeOK
  <2>5. \A c \in 1..len : result[b][t][c] = ExactPartial(launch, gpc, c - 1)
    BY <1>3 DEF IInv, Reduced
  <2>6. /\ Len(longer) = len + 1
        /\ \A c \in 1..len : longer[c] = result[b][t][c]
        /\ longer[len + 1] = x
    BY <2>1
  <2> HIDE DEF len, x, longer
  <2>7. ASSUME NEW c \in 1..(len + 1)
        PROVE  longer[c] = ExactPartial(launch, gpc, c - 1)
    <3>1. CASE c \in 1..len BY <2>5, <2>6, <3>1
    <3>2. CASE c = len + 1
      <4>1. c - 1 = len BY <2>1, <3>2
      <4> QED BY <2>3, <2>6, <3>2, <4>1
    <3> QED BY <2>1, <3>1, <3>2
  <2>8. len + 1 <= ChunksOf(gpc) BY <2>1 DEF Reduce, len
  <2>9. ASSUME NEW d \in Active, NEW u \in Threads
        PROVE  (/\ pc[d][u] = "reduce" =>
                    /\ Len(result[d][u]) <= ChunksOf(gpc)
                    /\ \A c \in 1..Len(result[d][u]) :
                         result[d][u][c] = ExactPartial(launch, gpc, c - 1)
                /\ pc[d][u] \notin {"reduce", "sync_output", "reset", "done"}
                    => result[d][u] = << >>)'
    <3>1. CASE d = b /\ u = t
      BY <1>0, <1>1, <1>3, <2>4, <2>6, <2>7, <2>8, <3>1, ShapeKept
    <3>2. CASE ~(d = b /\ u = t)
      BY <1>0, <1>1, <2>4, <3>2, ShapeKept DEF IInv, Reduced
    <3> QED BY <3>1, <3>2
  <2> QED BY <1>2, <2>9 DEF Reduced
<1>12. Stored' BY <1>1, KeepStored DEF StoredBy
<1> QED BY <1>0, <1>4, <1>5, <1>6, <1>7, <1>8, <1>9, <1>10, <1>11, <1>12 DEF IInv

\* What WriteOutput stores is the exact row.
LEMMA ResultExact ==
  ASSUME IInv, NEW b \in Block, NEW t \in Threads, pc[b][t] = "reduce",
         Len(result[b][t]) = ChunksOf(gpc)
  PROVE  result[b][t] = ExactRow(launch, gpc)
<1>1. b \in Active BY DEF IInv, Idle
<1>2. result[b][t] \in Seq(Seq(Term)) BY DEF IInv, TypeOK
<1>3. \A c \in 1..ChunksOf(gpc) : result[b][t][c] = ExactPartial(launch, gpc, c - 1)
  BY <1>1 DEF IInv, Reduced
<1>4. DOMAIN result[b][t] = 1..ChunksOf(gpc) BY <1>2
<1>5. result[b][t] = [c \in DOMAIN result[b][t] |-> result[b][t][c]] BY <1>2
<1> QED BY <1>3, <1>4, <1>5 DEF ExactRow

\* The reducing block stores the exact row, and nobody else stores it.
LEMMA WriteOutputStep ==
  ASSUME IInv, NEW b \in Block, NEW t \in Threads, WriteOutput(b, t)
  PROVE  IInv'
<1> USE DEF hostVars, tableVars, publishVars, countVars
<1>0. TypeOK /\ TypeOK' /\ Active \subseteq Block
  BY NextTypeOK, ActiveFacts DEF Next, ThreadStep, IInv
<1>1. UNCHANGED <<launch, gpc, lut, slot, clean, partial, unflushed, workspace, counter,
                  final, result>>
  BY DEF WriteOutput
<1>2. Active' = Active BY <1>1 DEF Active, Grid, ChunksOf
<1>3. b \in Active /\ pc[b][t] = "reduce" /\ final[b] = "yes"
  BY DEF IInv, Idle, FinalSet, WriteOutput
<1>4. \A d \in Block, u \in Threads :
        pc'[d][u] = IF d = b /\ u = t THEN "sync_output" ELSE pc[d][u]
  BY <1>0 DEF WriteOutput, Goto, TypeOK
<1>5. Idle' BY <1>1, <1>2, <1>3, <1>4 DEF IInv, Idle
<1>6. InStep'
  <2>1. Passed(b, t)' = GroupsOf(b) + 2 /\ Passed(b, t) = GroupsOf(b) + 2
    BY <1>1, <1>3, <1>4, ShapeKept DEF Passed
  <2>2. \A d \in Active, u \in Threads : pc'[d][u] = pc[d][u] => Passed(d, u)' = Passed(d, u)
    BY <1>1, ShapeKept DEF Passed
  <2>3. \A d \in Active, u \in Threads : Passed(d, u)' = Passed(d, u)
    BY <1>0, <1>4, <2>1, <2>2
  <2> QED BY <1>2, <2>3 DEF IInv, InStep
<1>7. Terms' BY <1>0, <1>1, <1>2, <1>3, <1>4, ShapeKept DEF IInv, Terms
<1>8. Table'
  <2>1. \A d \in Block, u \in Threads :
          Group(d, u)' = Group(d, u) /\ Buffer(d, u)' = Buffer(d, u)
    BY <1>1 DEF First, Group, Buffer
  <2> QED BY <1>0, <1>1, <1>2, <1>4, <2>1 DEF IInv, Table
<1>9. Published' BY <1>0, <1>1, <1>2, <1>3, <1>4, ActiveFacts DEF IInv, Published
<1>10. \A d \in Block : CountedIn(d)' <=> CountedIn(d)
  BY <1>0, <1>3, <1>4, ActiveFacts DEF CountedIn, CountedPlaces
<1>11. FinalSet' BY <1>0, <1>1, <1>2, <1>3, <1>4, <1>10 DEF IInv, FinalSet
<1>12. Counting'
  <2>1. \A d \in Active : pc'[d][0] = "done" <=> pc[d][0] = "done"
    BY <1>0, <1>3, <1>4, ActiveFacts
  <2> QED BY <1>0, <1>1, <1>10, <2>1, KeepCounting
<1>13. Reduced' BY <1>0, <1>1, <1>2, <1>3, <1>4, ShapeKept DEF IInv, Reduced
<1>14. Stored'
  <2>1. launch > 0 BY <1>0, <1>3, ActiveFacts DEF Active
  <2>2. b[1] \in Tiles /\ b[2] \in TileChunks /\ b = <<b[1], b[2]>>
    <3>1. b \in Grid(gpc) BY <1>3, <2>1 DEF Active
    <3> QED BY <3>1 DEF Grid, TileChunks
  <2>3. TileChunks' = TileChunks /\ ExactRow(launch, gpc)' = ExactRow(launch, gpc)
    BY <1>1, ShapeKept DEF TileChunks, ChunksOf
  <2>4. \A i \in Tiles, c \in TileChunks : <<i, c>> \in Active
    BY <1>0, <2>1, ActiveFacts
  <2>5. result[b][t] = ExactRow(launch, gpc) BY <1>3, ResultExact DEF WriteOutput
  <2> SUFFICES ASSUME NEW i \in Tiles, NEW u \in Threads, Row(<<i, 0>>, u) < Rows
               PROVE  output'[Row(<<i, 0>>, u)] =
                        IF \E c \in TileChunks : StoredBy(<<i, c>>, u)'
                        THEN ExactRow(launch, gpc) ELSE Unset
    BY <2>3 DEF Stored, Row
  <2>6. Row(<<i, 0>>, u) \in RowIds
    <3>1. i \in Nat /\ u \in Nat /\ MTile \in Nat
      BY BlockFacts, MTileAssumption DEF Threads
    <3>2. i * MTile \in Nat BY <3>1
    <3> QED BY <3>1, <3>2, RowsAssumption DEF Row, RowIds
  <2>7. CASE i = b[1] /\ u = t
    <3>1. StoredBy(b, t)' BY <1>1, <1>3, <1>4 DEF StoredBy, StoredPlaces
    <3>2. Row(<<i, 0>>, u) = Row(b, t) BY <2>7 DEF Row
    <3>3. output'[Row(b, t)] = ExactRow(launch, gpc)
      BY <1>0, <2>5, <2>6, <3>2 DEF WriteOutput, TypeOK
    <3> QED BY <2>2, <2>7, <3>1, <3>2, <3>3
  <2>8. CASE ~(i = b[1] /\ u = t)
    <3>1. Row(<<i, 0>>, u) # Row(b, t)
      <4>1. i \in Nat /\ b[1] \in Nat BY <2>2, BlockFacts
      <4> QED BY <2>8, <4>1, RowInjective DEF Row
    <3>2. output'[Row(<<i, 0>>, u)] = output[Row(<<i, 0>>, u)]
      BY <1>0, <2>6, <3>1 DEF WriteOutput, TypeOK
    <3>3. \A c \in TileChunks : StoredBy(<<i, c>>, u)' <=> StoredBy(<<i, c>>, u)
      BY <1>0, <1>1, <1>4, <2>2, <2>4, <2>8 DEF StoredBy
    <3> QED BY <2>1, <3>2, <3>3 DEF IInv, Stored
  <2> QED BY <2>7, <2>8
<1> QED BY <1>0, <1>5, <1>6, <1>7, <1>8, <1>9, <1>11, <1>12, <1>13, <1>14 DEF IInv

\* A tile has finitely many chunks; a block that counts in is one more.
LEMMA ChunksFinite ==
  ASSUME TypeOK
  PROVE  /\ ChunksOf(gpc) \in Nat \ {0}
         /\ IsFiniteSet(TileChunks) /\ Cardinality(TileChunks) = ChunksOf(gpc)
         /\ \A S \in SUBSET TileChunks :
              /\ IsFiniteSet(S) /\ Cardinality(S) \in Nat
              /\ Cardinality(S) = ChunksOf(gpc) <=> S = TileChunks
              /\ \A c \in TileChunks \ S :
                   Cardinality(S \cup {c}) = Cardinality(S) + 1
<1>1. ChunksOf(gpc) \in Nat \ {0} BY ChunkCount DEF TypeOK
<1>2. IsFiniteSet(TileChunks) /\ Cardinality(TileChunks) = ChunksOf(gpc)
  <2>1. 0 \in Int /\ ChunksOf(gpc) - 1 \in Int BY <1>1
  <2>2. IsFiniteSet(TileChunks) BY <2>1, FS_Interval DEF TileChunks
  <2>3. Cardinality(TileChunks) =
          IF 0 > ChunksOf(gpc) - 1 THEN 0 ELSE ChunksOf(gpc) - 1 - 0 + 1
    BY <2>1, FS_Interval DEF TileChunks
  <2> QED BY <1>1, <2>2, <2>3
<1>3. ASSUME NEW S \in SUBSET TileChunks
      PROVE  /\ IsFiniteSet(S) /\ Cardinality(S) \in Nat
             /\ Cardinality(S) = ChunksOf(gpc) <=> S = TileChunks
             /\ \A c \in TileChunks \ S : Cardinality(S \cup {c}) = Cardinality(S) + 1
  <2>1. IsFiniteSet(S) /\ Cardinality(S) \in Nat
    BY <1>2, FS_Subset, FS_CardinalityType
  <2>2. Cardinality(S) = ChunksOf(gpc) <=> S = TileChunks BY <1>2, FS_Subset
  <2>3. \A c \in TileChunks \ S : Cardinality(S \cup {c}) = Cardinality(S) + 1
    BY <2>1, FS_AddElement
  <2> QED BY <2>1, <2>2, <2>3
<1> QED BY <1>1, <1>2, <1>3

\* Counting a block in: the last one, and only the last, sets final_chunk.
LEMMA CountStep ==
  ASSUME IInv, NEW b \in Block, NEW t \in Threads, Count(b, t)
  PROVE  IInv'
<1> USE DEF hostVars, answerVars, tableVars, publishVars
<1>0. TypeOK /\ TypeOK' /\ Active \subseteq Block /\ 0 \in Threads /\ Terms
  BY NextTypeOK, ActiveFacts DEF Next, ThreadStep, IInv
<1>1. UNCHANGED <<launch, gpc, output, lut, slot, clean, partial, unflushed, workspace,
                  result>>
  BY DEF Count
<1>2. Active' = Active BY <1>1 DEF Active, Grid, ChunksOf
<1>3. b \in Active /\ t = 0 /\ pc[b][0] = "count"
  BY DEF IInv, Idle, FinalSet, Count
<1>4. \A d \in Block, u \in Threads :
        pc'[d][u] = IF d = b /\ u = 0 THEN "sync_counted" ELSE pc[d][u]
  <2>1. pc \in [Block -> [Threads -> PCs]] BY <1>0 DEF TypeOK
  <2> QED BY <1>3, <2>1 DEF Count, Goto
<1>5. \A d \in Block : d # b => final'[d] = final[d] BY <1>0 DEF Count, TypeOK
<1>6. final'[b] = IF counter[b[1]] = ChunksOf(gpc) - 1 THEN "yes" ELSE "no"
  BY <1>0 DEF Count, TypeOK
\* No thread of the block is beyond the count.
<1>7. \A u \in Threads : pc[b][u] \in {"count", "sync_counted"}
  <2>1. \A u \in Threads : Passed(b, u) = GroupsOf(b) + 1
    BY <1>0, <1>3, PassedFacts DEF IInv, InStep
  <2> QED BY <1>0, <1>3, <2>1, PassedFacts
<1>8. Idle' BY <1>1, <1>2, <1>3, <1>4, <1>5 DEF IInv, Idle
<1>9. InStep'
  <2>1. \A u \in Threads : Passed(b, u)' = GroupsOf(b) + 1
    <3>1. \A u \in Threads : pc'[b][u] \in {"count", "sync_counted"}
      BY <1>3, <1>4, <1>7
    <3> QED BY <1>1, <3>1, ShapeKept DEF Passed
  <2>2. \A d \in Active, u \in Threads : d # b => Passed(d, u)' = Passed(d, u)
    BY <1>0, <1>1, <1>4, <1>5, PassedKept
  <2> QED BY <1>2, <2>1, <2>2 DEF IInv, InStep
<1>10. Terms' BY <1>0, <1>1, <1>2, <1>3, <1>4, ShapeKept DEF IInv, Terms
<1>11. Table'
  <2>1. \A d \in Block, u \in Threads :
          Group(d, u)' = Group(d, u) /\ Buffer(d, u)' = Buffer(d, u)
    BY <1>1 DEF First, Group, Buffer
  <2> QED BY <1>0, <1>1, <1>2, <1>4, <2>1 DEF IInv, Table
<1>12. Published' BY <1>0, <1>1, <1>2, <1>3, <1>4, ActiveFacts DEF IInv, Published
<1>13. \A d \in Block : CountedIn(d)' <=> CountedIn(d) \/ d = b
  BY <1>0, <1>3, <1>4 DEF CountedIn, CountedPlaces
<1>14. ~CountedIn(b) /\ final[b] = "unset"
  BY <1>0, <1>3 DEF CountedIn, CountedPlaces, IInv, FinalSet
<1>15. FinalSet'
  <2> SUFFICES ASSUME NEW d \in Active
               PROVE (/\ final[d] # "unset" <=> CountedIn(d)
                      /\ \A u \in Threads :
                           /\ pc[d][u] \in {"count", "reset"} => u = 0
                           /\ pc[d][u] \in {"reduce", "sync_output", "reset"}
                                => final[d] = "yes"
                           /\ pc[d][u] = "done" => final[d] # "unset")'
    BY <1>2 DEF FinalSet
  <2>1. CASE d = b BY <1>0, <1>3, <1>4, <1>6, <1>7, <1>13, <2>1 DEF IInv, FinalSet
  <2>2. CASE d # b BY <1>0, <1>4, <1>5, <1>13, <2>2 DEF IInv, FinalSet
  <2> QED BY <2>1, <2>2
<1>16. launch > 0 /\ launch' > 0 /\ b[1] \in Tiles /\ b[2] \in TileChunks /\ b = <<b[1], b[2]>>
  <2>1. launch > 0 BY <1>0, <1>3, ActiveFacts DEF Active
  <2> QED BY <1>0, <1>1, <1>3, <2>1, BlockFacts, ChunkCount DEF Active, TileChunks, TypeOK
<1>17. TileChunks' = TileChunks /\ ExactRow(launch, gpc)' = ExactRow(launch, gpc)
  BY <1>1, ShapeKept DEF TileChunks, ChunksOf
<1>18. \A i \in Tiles, c \in TileChunks : <<i, c>> \in Active
  BY <1>0, <1>16, ActiveFacts
<1>19. Counting'
  <2> DEFINE i == b[1]
             S == CountedChunks(i)
  <2>1. S \in SUBSET TileChunks /\ b[2] \notin S /\ CountedChunks(i)' = S \cup {b[2]}
    BY <1>0, <1>13, <1>14, <1>16, <1>17, <1>18 DEF CountedChunks
  <2>2. ~Cleared(i) /\ \A c \in TileChunks : final[<<i, c>>] # "yes"
    <3>1. CountedChunks(i) # TileChunks /\ i \in Tiles BY <1>16, <2>1
    <3>2. \A c \in TileChunks : final[<<i, c>>] # "yes"
      BY <1>16, <3>1 DEF IInv, Counting
    <3> QED BY <3>2 DEF Cleared
  <2>3. counter[i] = Cardinality(S) BY <1>16, <2>2 DEF IInv, Counting
  <2>4. counter'[i] = Cardinality(S \cup {b[2]})
    <3>1. counter'[i] = counter[i] + 1 BY <1>0, <1>16 DEF Count, TypeOK
    <3> QED BY <1>0, <1>16, <2>1, <2>3, <3>1, ChunksFinite
  <2>5. S \cup {b[2]} = TileChunks <=> final'[b] = "yes"
    <3>1. S \cup {b[2]} \in SUBSET TileChunks BY <1>16, <2>1
    <3>2. Cardinality(S \cup {b[2]}) = Cardinality(S) + 1 /\ Cardinality(S) \in Nat
      BY <1>0, <1>16, <2>1, ChunksFinite
    <3>3. Cardinality(S \cup {b[2]}) = ChunksOf(gpc) <=> S \cup {b[2]} = TileChunks
      BY <1>0, <3>1, ChunksFinite
    <3>4. ChunksOf(gpc) \in Nat BY <1>0, ChunksFinite
    <3> QED BY <1>6, <2>3, <3>2, <3>3, <3>4
  <2>6. \A c \in TileChunks : final'[<<i, c>>] = "yes" => c = b[2]
    BY <1>0, <1>5, <1>18, <1>16, <2>2
  <2>7. ~Cleared(i)'
    <3>1. pc'[b][0] # "done" BY <1>0, <1>3, <1>4
    <3> QED BY <1>16, <1>17, <2>6, <3>1 DEF Cleared
  <2>8. ASSUME NEW j \in Tiles, j # i
        PROVE  /\ counter'[j] = counter[j]
               /\ CountedChunks(j)' = CountedChunks(j)
               /\ Cleared(j)' <=> Cleared(j)
               /\ \A c \in TileChunks : final'[<<j, c>>] = final[<<j, c>>]
    <3>1. \A c \in TileChunks : <<j, c>> \in Block /\ <<j, c>> # b
      BY <1>0, <1>16, <1>18, <2>8
    <3>2. counter'[j] = counter[j] BY <1>0, <1>16, <2>8 DEF Count, TypeOK
    <3>3. CountedChunks(j)' = CountedChunks(j)
      BY <1>13, <1>17, <3>1 DEF CountedChunks
    <3>4. Cleared(j)' <=> Cleared(j)
      BY <1>0, <1>4, <1>5, <1>17, <3>1 DEF Cleared
    <3> QED BY <1>5, <3>1, <3>2, <3>3, <3>4
  <2> SUFFICES ASSUME NEW j \in Tiles
               PROVE (/\ counter[j] = IF Cleared(j) THEN 0
                                      ELSE Cardinality(CountedChunks(j))
                      /\ CountedChunks(j) = TileChunks
                           <=> \E c \in TileChunks : final[<<j, c>>] = "yes"
                      /\ \A c, d \in TileChunks :
                           final[<<j, c>>] = "yes" /\ final[<<j, d>>] = "yes" => c = d)'
    BY <1>1, <1>16 DEF Counting
  <2>9. CASE j = i
    <3>1. counter'[j] = Cardinality(CountedChunks(j)') BY <2>1, <2>4, <2>9
    <3>2. CountedChunks(j)' = TileChunks <=> \E c \in TileChunks : final'[<<j, c>>] = "yes"
      BY <1>16, <2>1, <2>5, <2>6, <2>9
    <3> QED BY <1>17, <2>6, <2>7, <2>9, <3>1, <3>2
  <2>10. CASE j # i
    BY <1>16, <1>17, <2>8, <2>10 DEF IInv, Counting
  <2> QED BY <2>9, <2>10
<1>20. Reduced' BY <1>0, <1>1, <1>2, <1>3, <1>4, ShapeKept DEF IInv, Reduced
<1>21. Stored'
  <2>1. \A d \in Active, u \in Threads : StoredBy(d, u)' <=> StoredBy(d, u)
    <3>1. \A u \in Threads : ~StoredBy(b, u)' /\ ~StoredBy(b, u)
      BY <1>0, <1>3, <1>4, <1>7 DEF StoredBy, StoredPlaces
    <3>2. \A d \in Active, u \in Threads : d # b => StoredBy(d, u)' <=> StoredBy(d, u)
      BY <1>0, <1>4, <1>5 DEF StoredBy
    <3> QED BY <1>3, <3>1, <3>2
  <2> QED BY <1>1, <2>1, KeepStored
<1> QED BY <1>0, <1>8, <1>9, <1>10, <1>11, <1>12, <1>15, <1>19, <1>20, <1>21 DEF IInv

\* Clearing the counter leaves the tile cleared, and the others as they are.
LEMMA ResetStep ==
  ASSUME IInv, NEW b \in Block, NEW t \in Threads, Reset(b, t)
  PROVE  IInv'
<1> USE DEF hostVars, answerVars, tableVars, publishVars
<1>0. TypeOK /\ TypeOK' /\ Active \subseteq Block /\ 0 \in Threads
  BY NextTypeOK, ActiveFacts DEF Next, ThreadStep, IInv
<1>1. UNCHANGED <<launch, gpc, output, lut, slot, clean, partial, unflushed, workspace,
                  final, result>>
  BY DEF Reset
<1>2. Active' = Active BY <1>1 DEF Active, Grid, ChunksOf
<1>3. b \in Active /\ t = 0 /\ pc[b][0] = "reset" /\ final[b] = "yes"
  BY DEF IInv, Idle, FinalSet, Reset
<1>4. \A d \in Block, u \in Threads :
        pc'[d][u] = IF d = b /\ u = 0 THEN "done" ELSE pc[d][u]
  <2>1. pc \in [Block -> [Threads -> PCs]] BY <1>0 DEF TypeOK
  <2> QED BY <1>3, <2>1 DEF Reset, Goto
<1>5. Idle'
  <2>1. Idle BY DEF IInv
  <2>2. \A d \in Block \ Active, u \in Threads : pc'[d][u] = "done"
    <3>1. \A d \in Block \ Active, u \in Threads : pc[d][u] = "done" BY <2>1 DEF Idle
    <3>2. \A d \in Block \ Active : d # b BY <1>3
    <3> QED BY <1>4, <3>1, <3>2
  <2>3. \A d \in Block \ Active : final'[d] = "unset" BY <1>1, <2>1 DEF Idle
  <2>4. unflushed' \subseteq Active \X Threads BY <1>1, <2>1 DEF Idle
  <2> QED BY <1>2, <2>2, <2>3, <2>4 DEF Idle
<1>6. InStep'
  <2>1. Passed(b, 0)' = GroupsOf(b) + 3 /\ Passed(b, 0) = GroupsOf(b) + 3
    BY <1>0, <1>1, <1>3, <1>4, ShapeKept DEF Passed
  <2>2. \A d \in Active, u \in Threads :
          pc'[d][u] = pc[d][u] => Passed(d, u)' = Passed(d, u)
    BY <1>1, ShapeKept DEF Passed
  <2>3. \A d \in Active, u \in Threads : Passed(d, u)' = Passed(d, u)
    BY <1>0, <1>4, <2>1, <2>2
  <2> QED BY <1>2, <2>3 DEF IInv, InStep
<1>7. Terms' BY <1>0, <1>1, <1>2, <1>3, <1>4, ShapeKept DEF IInv, Terms
<1>8. Table'
  <2>1. \A d \in Block, u \in Threads :
          Group(d, u)' = Group(d, u) /\ Buffer(d, u)' = Buffer(d, u)
    BY <1>1 DEF First, Group, Buffer
  <2> QED BY <1>0, <1>1, <1>2, <1>4, <2>1 DEF IInv, Table
<1>9. Published' BY <1>0, <1>1, <1>2, <1>3, <1>4, ActiveFacts DEF IInv, Published
<1>10. \A d \in Block : CountedIn(d)' <=> CountedIn(d)
  BY <1>0, <1>3, <1>4 DEF CountedIn, CountedPlaces
<1>11. FinalSet' BY <1>0, <1>1, <1>2, <1>3, <1>4, <1>10 DEF IInv, FinalSet
<1>12. Counting'
  <2>1. launch > 0 /\ launch' > 0 /\ b[1] \in Tiles /\ b[2] \in TileChunks /\ b = <<b[1], b[2]>>
    <3>1. launch > 0 BY <1>0, <1>3, ActiveFacts DEF Active
    <3> QED BY <1>0, <1>1, <1>3, <3>1, BlockFacts, ChunkCount
            DEF Active, TileChunks, TypeOK
  <2>2. TileChunks' = TileChunks BY <1>1 DEF TileChunks, ChunksOf
  <2>3. \A i \in Tiles, c \in TileChunks : <<i, c>> \in Block
    BY <1>0, <2>1, ActiveFacts
  <2>4. \A i \in Tiles : CountedChunks(i)' = CountedChunks(i)
    BY <1>10, <2>2, <2>3 DEF CountedChunks
  <2>5. Cleared(b[1])' BY <1>0, <1>1, <1>3, <1>4, <2>1, <2>2 DEF Cleared
  <2>6. counter'[b[1]] = 0 BY <1>0, <2>1 DEF Reset, TypeOK
  <2>7. ASSUME NEW i \in Tiles, i # b[1]
        PROVE  counter'[i] = counter[i] /\ (Cleared(i)' <=> Cleared(i))
    <3>1. \A c \in TileChunks : <<i, c>> \in Block /\ <<i, c>> # b BY <2>1, <2>3, <2>7
    <3>2. Cleared(i)' <=> Cleared(i) BY <1>0, <1>1, <1>4, <2>2, <3>1 DEF Cleared
    <3> QED BY <1>0, <2>1, <2>7, <3>2 DEF Reset, TypeOK
  <2> QED BY <1>1, <2>1, <2>2, <2>4, <2>5, <2>6, <2>7 DEF IInv, Counting
<1>13. Reduced' BY <1>0, <1>1, <1>2, <1>3, <1>4, ShapeKept DEF IInv, Reduced
<1>14. Stored'
  <2>1. \A d \in Active, u \in Threads : StoredBy(d, u)' <=> StoredBy(d, u)
    BY <1>0, <1>1, <1>3, <1>4 DEF StoredBy, StoredPlaces
  <2> QED BY <1>1, <2>1, KeepStored
<1> QED BY <1>0, <1>5, <1>6, <1>7, <1>8, <1>9, <1>11, <1>12, <1>13, <1>14 DEF IInv

-----------------------------------------------------------------------------
(* The inductive invariant, block by block and launch by launch. *)

\* All threads of a block pass a barrier together.
LEMMA BarrierStep ==
  ASSUME IInv, NEW b \in Block, Barrier(b)
  PROVE  IInv'
<1> USE DEF hostVars, answerVars, tableVars, publishVars, countVars
<1>0. TypeOK /\ TypeOK' /\ Active \subseteq Block /\ 0 \in Threads /\ Terms
  BY NextTypeOK, ActiveFacts DEF Next, IInv
<1>1. UNCHANGED <<launch, gpc, output, lut, slot, clean, partial, unflushed, workspace,
                  counter, final, result>>
  BY DEF Barrier
<1>2. Active' = Active BY <1>1 DEF Active, Grid, ChunksOf
<1>3. b \in Active
  <2>1. pc[b][0] # "done" BY <1>0 DEF Barrier, Barriers
  <2> QED BY <1>0, <2>1 DEF IInv, Idle
<1>4. \A d \in Block, u \in Threads :
        pc'[d][u] = IF d = b THEN AfterBarrier(u, pc[b][u]) ELSE pc[d][u]
  BY <1>0 DEF Barrier, TypeOK
\* From each barrier on to the next place.
<1>5. \A u \in Threads :
        \/ pc[b][u] = "sync_lut" /\ pc'[b][u] = "consume"
        \/ pc[b][u] = "sync_stored" /\ u = 0 /\ pc'[b][u] = "count"
        \/ pc[b][u] = "sync_stored" /\ u # 0 /\ pc'[b][u] = "sync_counted"
        \/ pc[b][u] = "sync_counted" /\ pc'[b][u] = "test"
        \/ pc[b][u] = "sync_output" /\ u = 0 /\ pc'[b][u] = "reset"
        \/ pc[b][u] = "sync_output" /\ u # 0 /\ pc'[b][u] = "done"
  BY <1>4 DEF Barrier, Barriers, AfterBarrier
<1>6. \A u \in Threads : pc[b][u] = "sync_output" => final[b] = "yes"
  BY <1>3 DEF IInv, FinalSet
<1>7. Idle' BY <1>1, <1>2, <1>3, <1>4 DEF IInv, Idle
<1>8. InStep'
  <2>1. \A u \in Threads : Passed(b, u)' = Passed(b, u) + 1
    <3> SUFFICES ASSUME NEW u \in Threads PROVE Passed(b, u)' = Passed(b, u) + 1
      OBVIOUS
    <3>1. GroupsOf(b)' = GroupsOf(b) /\ GroupsOf(b) \in Int
      BY <1>0, <1>1, <1>3, ShapeKept, PassedFacts
    <3>2. CASE pc[b][u] = "sync_lut" /\ pc'[b][u] = "consume"
      BY <1>1, <3>2 DEF Passed
    <3>3. CASE pc[b][u] = "sync_stored" /\ pc'[b][u] \in {"count", "sync_counted"}
      BY <3>1, <3>3 DEF Passed
    <3>4. CASE pc[b][u] = "sync_counted" /\ pc'[b][u] = "test"
      BY <3>1, <3>4 DEF Passed
    <3>5. CASE pc[b][u] = "sync_output" /\ pc'[b][u] \in {"reset", "done"}
      BY <1>1, <1>6, <3>1, <3>5 DEF Passed
    <3> QED BY <1>5, <3>2, <3>3, <3>4, <3>5
  <2>2. \A d \in Active, u \in Threads : d # b => Passed(d, u)' = Passed(d, u)
    BY <1>0, <1>1, <1>4, PassedKept
  <2> QED BY <1>2, <1>3, <2>1, <2>2 DEF IInv, InStep
<1>9. Terms'
  <2> SUFFICES ASSUME NEW d \in Active, NEW u \in Threads
               PROVE (/\ Len(partial[d][u]) <= GroupsOf(d)
                      /\ \A i \in 1..Len(partial[d][u]) :
                           partial[d][u][i] = <<launch, First(d) + i - 1>>
                      /\ pc[d][u] = "queued" => Len(partial[d][u]) = 0
                      /\ pc[d][u] \in {"build", "sync_lut", "consume"}
                           => Len(partial[d][u]) < GroupsOf(d)
                      /\ pc[d][u] \notin {"queued", "build", "sync_lut", "consume"}
                           => Len(partial[d][u]) = GroupsOf(d))'
    BY <1>2 DEF Terms
  <2>1. CASE d = b BY <2>1, <1>1, <1>5, ShapeKept DEF IInv, Terms
  <2>2. CASE d # b BY <2>2, <1>0, <1>1, <1>4, ShapeKept DEF IInv, Terms
  <2> QED BY <2>1, <2>2
<1>10. Table'
  <2>1. \A d \in Block, u \in Threads :
          Group(d, u)' = Group(d, u) /\ Buffer(d, u)' = Buffer(d, u)
    BY <1>1 DEF First, Group, Buffer
  <2>2. ASSUME NEW t \in Threads, pc'[b][t] = "consume", NEW u \in Threads
        PROVE  lut[b][Buffer(b, t)][u] = <<launch, Group(b, t)>>
    <3>1. pc[b][t] = "sync_lut" BY <1>5, <2>2
    <3>2. Passed(b, u) = Passed(b, t) BY <1>3 DEF IInv, InStep
    <3>3. Passed(b, u) < GroupsOf(b) BY <1>0, <1>3, <3>1, <3>2, PassedFacts
    <3>4. pc[b][u] = "sync_lut"
      <4>1. pc[b][u] \in {"queued", "build", "sync_lut", "consume", "store", "fence",
                          "sync_stored"}
        BY <1>0, <1>3, <3>3, PassedFacts
      <4>2. pc[b][u] # "sync_stored" BY <1>0, <1>3, <3>3, PassedFacts
      <4> QED BY <1>5, <4>1, <4>2
    <3>5. Len(partial[b][u]) = Len(partial[b][t]) BY <3>1, <3>2, <3>4 DEF Passed
    <3>6. lut[b][Buffer(b, u)][u] = <<launch, Group(b, u)>>
      BY <1>3, <3>4 DEF IInv, Table
    <3> QED BY <3>5, <3>6 DEF Group, Buffer
  <2> SUFFICES ASSUME NEW d \in Active, NEW t \in Threads
               PROVE (/\ clean[d][t]
                      /\ pc[d][t] = "sync_lut"
                           => lut[d][Buffer(d, t)][t] = <<launch, Group(d, t)>>
                      /\ pc[d][t] = "consume"
                           => \A u \in Threads :
                                lut[d][Buffer(d, t)][u] = <<launch, Group(d, t)>>)'
    BY <1>2 DEF Table
  <2>3. CASE d = b
    <3>1. clean[d][t] BY DEF IInv, Table
    <3>2. pc'[d][t] # "sync_lut" BY <1>5, <2>3
    <3> QED BY <1>0, <1>1, <2>1, <2>2, <2>3, <3>1, <3>2
  <2>4. CASE d # b BY <1>0, <1>1, <1>4, <2>1, <2>4 DEF IInv, Table
  <2> QED BY <2>3, <2>4
<1>11. Published'
  <2>1. \A e \in unflushed : e[1] # b
    BY <1>0, <1>5, ActiveFacts DEF IInv, Published
  <2>2. \A e \in unflushed' : pc'[e[1]][e[2]] = "fence"
    BY <1>0, <1>1, <1>4, <2>1, ActiveFacts DEF IInv, Published
  <2>3. ASSUME NEW d \in Active, NEW u \in Threads,
               pc'[d][u] \notin {"queued", "build", "sync_lut", "consume", "store"}
        PROVE  <<d, u>> \in unflushed' \/ workspace'[d][u] = partial'[d][u]
    <3>1. pc[d][u] \notin {"queued", "build", "sync_lut", "consume", "store"}
      <4>1. CASE d = b BY <1>5, <2>3, <4>1
      <4>2. CASE d # b BY <1>0, <1>4, <2>3, <4>2
      <4> QED BY <4>1, <4>2
    <3> QED BY <1>1, <3>1 DEF IInv, Published
  <2> QED BY <1>2, <2>2, <2>3 DEF Published
<1>12. \A d \in Block : CountedIn(d)' <=> CountedIn(d)
  <2>1. CountedIn(b)' <=> CountedIn(b)
    <3>1. Passed(b, 0) # GroupsOf(b) + 1 \/ pc[b][0] = "sync_counted"
      BY <1>0, <1>3, <1>5, PassedFacts
    <3> QED BY <1>0, <1>5 DEF CountedIn, CountedPlaces
  <2> QED BY <1>0, <1>4, <2>1 DEF CountedIn
<1>13. FinalSet'
  <2> SUFFICES ASSUME NEW d \in Active
               PROVE (/\ final[d] # "unset" <=> CountedIn(d)
                      /\ \A u \in Threads :
                           /\ pc[d][u] \in {"count", "reset"} => u = 0
                           /\ pc[d][u] \in {"reduce", "sync_output", "reset"}
                                => final[d] = "yes"
                           /\ pc[d][u] = "done" => final[d] # "unset")'
    BY <1>2 DEF FinalSet
  <2>1. CASE d = b BY <1>0, <1>1, <1>5, <1>6, <1>12, <2>1 DEF IInv, FinalSet
  <2>2. CASE d # b BY <1>0, <1>1, <1>4, <1>12, <2>2 DEF IInv, FinalSet
  <2> QED BY <2>1, <2>2
<1>14. Counting'
  <2>1. \A d \in Active : pc'[d][0] = "done" <=> pc[d][0] = "done"
    <3>1. pc'[b][0] # "done" /\ pc[b][0] # "done" BY <1>0, <1>5
    <3> QED BY <1>0, <1>4, <3>1
  <2> QED BY <1>0, <1>1, <1>12, <2>1, KeepCounting
<1>15. Reduced'
  <2>1. \A u \in Threads : pc'[b][u] # "reduce"
          /\ (pc'[b][u] \notin {"reduce", "sync_output", "reset", "done"}
               => pc[b][u] \notin {"reduce", "sync_output", "reset", "done"})
    BY <1>5
  <2> QED BY <1>0, <1>1, <1>2, <1>4, <2>1, ShapeKept DEF IInv, Reduced
<1>16. Stored'
  <2>1. \A u \in Threads : StoredBy(b, u)' <=> StoredBy(b, u)
    BY <1>1, <1>5 DEF StoredBy, StoredPlaces
  <2>2. \A d \in Active, u \in Threads : StoredBy(d, u)' <=> StoredBy(d, u)
    BY <1>0, <1>1, <1>4, <2>1 DEF StoredBy
  <2> QED BY <1>1, <2>2, KeepStored
<1> QED BY <1>0, <1>7, <1>8, <1>9, <1>10, <1>11, <1>13, <1>14, <1>15, <1>16 DEF IInv

\* Every chunk of a grid has a group.
LEMMA ChunkHasGroup ==
  ASSUME TypeOK, NEW b \in Active
  PROVE  GroupsOf(b) \in Nat \ {0}
<1>1. b \in Grid(gpc) /\ gpc \in GroupsPerChunk BY DEF Active, TypeOK
<1>2. b[2] \in 0..(ChunksOf(gpc) - 1)
  <2>1. b[2] \in Nat /\ b[2] < ChunksOf(gpc) /\ ChunksOf(gpc) \in Nat
    BY <1>1, BlockFacts, ChunkCount
  <2> QED BY <2>1
<1>3. b[2] * gpc < Groups /\ b[2] * gpc \in Nat BY <1>1, <1>2, ChunkCount
<1>4. gpc \in Nat \ {0} /\ b[2] \in Nat BY <1>1, <1>2, ChunkAssumption
<1>5. (b[2] + 1) * gpc = b[2] * gpc + gpc BY <1>4
<1> QED BY <1>3, <1>4, <1>5, GroupsAssumption DEF GroupsOf, FinalGroup, First

\* A block that becomes resident starts its loop, or skips it if it has no group.
LEMMA ScheduleStep ==
  ASSUME IInv, NEW b \in Block, Schedule(b)
  PROVE  IInv'
<1> USE DEF hostVars, answerVars, tableVars, publishVars, countVars
<1>0. TypeOK /\ TypeOK' /\ Active \subseteq Block /\ 0 \in Threads /\ Terms
  BY NextTypeOK, ActiveFacts DEF Next, IInv
<1>1. UNCHANGED <<launch, gpc, output, lut, slot, clean, partial, unflushed, workspace,
                  counter, final, result>>
  BY DEF Schedule
<1>2. Active' = Active BY <1>1 DEF Active, Grid, ChunksOf
<1>3. b \in Active
  <2>1. pc[b][0] # "done" BY <1>0 DEF Schedule
  <2> QED BY <1>0, <2>1 DEF IInv, Idle
<1>4. \A u \in Threads : HasGroup(b, u)
  <2> SUFFICES ASSUME NEW u \in Threads PROVE HasGroup(b, u) OBVIOUS
  <2>1. Len(partial[b][u]) = 0 BY <1>3 DEF IInv, Terms, Schedule
  <2>2. GroupsOf(b) > 0 BY <1>0, <1>3, ChunkHasGroup
  <2>3. First(b) \in Nat BY <1>0, NumberFacts
  <2>4. FinalGroup(gpc, b[2]) \in Int
    <3>1. gpc \in Nat /\ b[2] \in Nat BY <1>0, NumberFacts, BlockFacts
    <3>2. (b[2] + 1) * gpc \in Nat BY <3>1
    <3> QED BY <3>2, GroupsAssumption DEF FinalGroup
  <2> QED BY <2>1, <2>2, <2>3, <2>4 DEF HasGroup, Group, GroupsOf
<1>5. \A u \in Threads : pc[b][u] = "queued" /\ pc'[b][u] = "build"
  BY <1>0, <1>4 DEF Schedule, TypeOK
<1>6. \A d \in Block, u \in Threads :
        pc'[d][u] = IF d = b THEN "build" ELSE pc[d][u]
  BY <1>0, <1>5 DEF Schedule, TypeOK
<1>7. Idle' BY <1>1, <1>2, <1>3, <1>6 DEF IInv, Idle
<1>8. InStep'
  <2>1. \A d \in Active, u \in Threads : d # b => Passed(d, u)' = Passed(d, u)
    BY <1>0, <1>1, <1>6, PassedKept
  <2>2. \A u \in Threads : Passed(b, u)' = Passed(b, u)
    BY <1>1, <1>5 DEF Passed
  <2> QED BY <1>2, <2>1, <2>2 DEF IInv, InStep
<1>9. Terms'
  <2>1. \A u \in Threads : Len(partial[b][u]) = 0 BY <1>3, <1>5 DEF IInv, Terms
  <2>2. GroupsOf(b) > 0 BY <1>0, <1>3, ChunkHasGroup
  <2> QED BY <1>0, <1>1, <1>2, <1>6, <2>1, <2>2, ShapeKept DEF IInv, Terms
<1>10. Table'
  <2>1. \A d \in Block, u \in Threads :
          Group(d, u)' = Group(d, u) /\ Buffer(d, u)' = Buffer(d, u)
    BY <1>1 DEF First, Group, Buffer
  <2> QED BY <1>0, <1>1, <1>2, <1>6, <2>1 DEF IInv, Table
<1>11. Published'
  BY <1>0, <1>1, <1>2, <1>5, <1>6, ActiveFacts DEF IInv, Published
<1>12. \A d \in Block : CountedIn(d)' <=> CountedIn(d)
  BY <1>0, <1>5, <1>6 DEF CountedIn, CountedPlaces
<1>13. FinalSet' BY <1>0, <1>1, <1>2, <1>6, <1>12 DEF IInv, FinalSet
<1>14. Counting'
  <2>1. \A d \in Active : pc'[d][0] = "done" <=> pc[d][0] = "done"
    BY <1>0, <1>5, <1>6
  <2> QED BY <1>0, <1>1, <1>12, <2>1, KeepCounting
<1>15. Reduced' BY <1>0, <1>1, <1>2, <1>5, <1>6, ShapeKept DEF IInv, Reduced
<1>16. Stored'
  <2>1. \A d \in Active, u \in Threads : StoredBy(d, u)' <=> StoredBy(d, u)
    BY <1>0, <1>1, <1>5, <1>6 DEF StoredBy, StoredPlaces
  <2> QED BY <1>1, <2>1, KeepStored
<1> QED BY <1>0, <1>7, <1>8, <1>9, <1>10, <1>11, <1>13, <1>14, <1>15, <1>16 DEF IInv

\* When the grid is done, every tile has been cleared.
LEMMA DoneCleared ==
  ASSUME IInv, GridDone
  PROVE  /\ \A i \in Tiles : counter[i] = 0
         /\ launch > 0 => \A i \in Tiles : \E c \in TileChunks : final[<<i, c>>] = "yes"
<1>0. TypeOK /\ Active \subseteq Block /\ 0 \in Threads BY ActiveFacts DEF IInv
<1>1. CASE launch = 0 BY <1>1 DEF IInv, Counting
<1>2. CASE launch > 0
  <2> SUFFICES ASSUME NEW i \in Tiles
               PROVE counter[i] = 0 /\ \E c \in TileChunks : final[<<i, c>>] = "yes"
    BY <1>2
  <2>1. \A c \in TileChunks : <<i, c>> \in Block /\ pc[<<i, c>>][0] = "done"
    BY <1>0, <1>2, ActiveFacts DEF GridDone
  <2>2. CountedChunks(i) = TileChunks
    BY <2>1 DEF CountedChunks, CountedIn, CountedPlaces
  <2>3. PICK c \in TileChunks : final[<<i, c>>] = "yes"
    BY <1>2, <2>2 DEF IInv, Counting
  <2>4. Cleared(i) BY <2>1, <2>3 DEF Cleared
  <2> QED BY <1>2, <2>3, <2>4 DEF IInv, Counting
<1> QED BY <1>0, <1>1, <1>2, ActiveFacts

\* The next launch starts from clear counters and an idle grid.
LEMMA LaunchStep ==
  ASSUME IInv, NEW k \in GroupsPerChunk, Launch(k)
  PROVE  IInv'
<1>0. TypeOK /\ TypeOK' /\ 0 \in Threads
  BY NextTypeOK, ActiveFacts DEF Next, IInv
<1>1. /\ launch' = launch + 1 /\ gpc' = k /\ launch' > 0
      /\ UNCHANGED <<unflushed, workspace, counter>>
  BY <1>0, LaunchAssumption DEF Launch, TypeOK
<1>2. Active' = Grid(k) /\ Grid(k) \subseteq Block
  BY <1>1, BlockFacts DEF Active, Grid, ChunksOf
<1>3. \A d \in Block, u \in Threads :
        /\ pc'[d][u] = IF d \in Grid(k) THEN "queued" ELSE "done"
        /\ clean'[d][u] /\ partial'[d][u] = << >> /\ result'[d][u] = << >>
  BY DEF Launch, PerThread
<1>4. \A d \in Block : final'[d] = "unset" BY DEF Launch
<1>5. unflushed = {}
  BY <1>0, ActiveFacts DEF Launch, GridDone, IInv, Published
<1>6. Idle'
  <2>1. \A d \in Block \ Active' : final'[d] = "unset" BY <1>4
  <2>2. \A d \in Block \ Active', u \in Threads : pc'[d][u] = "done" BY <1>2, <1>3
  <2>3. unflushed' = {} BY <1>1, <1>5
  <2>4. Block' = Block /\ Threads' = Threads
    BY DEF Block, Threads, Tiles, ChunkIds, ChunksOf
  <2> QED BY <2>1, <2>2, <2>3, <2>4 DEF Idle
<1>7. InStep'
  <2>1. \A d \in Active', u \in Threads : Passed(d, u)' = 0
    BY <1>2, <1>3 DEF Passed
  <2> QED BY <2>1 DEF InStep
<1>8. Terms'
  <2>1. \A d \in Active' : GroupsOf(d)' \in Nat
    <3>1. \A d \in Active' : d[2] \in 0..(ChunksOf(k) - 1) BY <1>2 DEF Grid
    <3> SUFFICES ASSUME NEW d \in Active' PROVE GroupsOf(d)' \in Nat OBVIOUS
    <3>2. d[2] * k < Groups /\ d[2] * k \in Nat /\ d[2] \in Nat /\ k \in Nat
      BY <3>1, ChunkCount, ChunkAssumption
    <3>3. (d[2] + 1) * k = d[2] * k + k BY <3>2
    <3> QED BY <1>1, <3>2, <3>3, GroupsAssumption DEF GroupsOf, FinalGroup, First
  <2> QED BY <1>2, <1>3, <2>1 DEF Terms
<1>9. Table' BY <1>2, <1>3 DEF Table
<1>10. Published' BY <1>1, <1>2, <1>3, <1>5 DEF Published
<1>11. FinalSet' BY <1>0, <1>2, <1>3, <1>4 DEF FinalSet, CountedIn, CountedPlaces
<1>12. TileChunks' = 0..(ChunksOf(k) - 1) /\ ChunksOf(k) \in Nat \ {0}
  BY <1>1, ChunkCount DEF TileChunks, ChunksOf
<1>13. \A i \in Tiles, c \in TileChunks' : <<i, c>> \in Grid(k) /\ <<i, c>> \in Block
  BY <1>2, <1>12 DEF Grid
<1>14. Counting'
  <2>1. \A i \in Tiles : CountedChunks(i)' = {}
    BY <1>0, <1>3, <1>13 DEF CountedChunks, CountedIn, CountedPlaces
  <2>2. \A i \in Tiles : ~Cleared(i)' BY <1>4, <1>13 DEF Cleared
  <2>3. \A i \in Tiles : counter'[i] = 0 BY <1>1, DoneCleared DEF Launch
  <2>4. TileChunks' # {}
    <3>1. 0 \in TileChunks' BY <1>12
    <3> QED BY <3>1
  <2>5. \A i \in Tiles : \A c \in TileChunks' : final'[<<i, c>>] # "yes"
    BY <1>4, <1>13
  <2> QED BY <1>1, <2>1, <2>2, <2>3, <2>4, <2>5, FS_EmptySet DEF Counting
<1>15. Reduced' BY <1>2, <1>3 DEF Reduced
<1>16. Stored'
  <2>1. \A i \in Tiles, u \in Threads : \A c \in TileChunks' : ~StoredBy(<<i, c>>, u)'
    BY <1>4, <1>13 DEF StoredBy
  <2>2. \A i \in Tiles, u \in Threads :
          Row(<<i, 0>>, u)' < Rows => output'[Row(<<i, 0>>, u)'] = Unset
    <3> SUFFICES ASSUME NEW i \in Tiles, NEW u \in Threads, Row(<<i, 0>>, u)' < Rows
                 PROVE  output'[Row(<<i, 0>>, u)'] = Unset
      OBVIOUS
    <3>1. i \in Nat /\ u \in Nat /\ MTile \in Nat
      BY BlockFacts, MTileAssumption DEF Threads
    <3>2. i * MTile \in Nat BY <3>1
    <3>3. Row(<<i, 0>>, u)' \in RowIds BY <3>1, <3>2, RowsAssumption DEF Row, RowIds
    <3> QED BY <3>3 DEF Launch
  <2> QED BY <2>1, <2>2 DEF Stored
<1> QED BY <1>0, <1>6, <1>7, <1>8, <1>9, <1>10, <1>11, <1>14, <1>15, <1>16 DEF IInv

\* The inductive invariant holds before the first launch.
LEMMA InitIInv == Init => IInv
<1> SUFFICES ASSUME Init PROVE IInv OBVIOUS
<1>1. TypeOK BY InitTypeOK
<1>2. launch = 0 /\ Active = {} BY DEF Init, Active
<1>3. Idle BY <1>2 DEF Init, Idle, PerThread
<1>4. InStep /\ Terms /\ Table /\ Published /\ FinalSet /\ Reduced
  BY <1>2 DEF Init, InStep, Terms, Table, Published, FinalSet, Reduced
<1>5. Counting BY <1>2 DEF Init, Counting
<1>6. Stored BY <1>2 DEF Stored
<1> QED BY <1>1, <1>3, <1>4, <1>5, <1>6 DEF IInv

\* The inductive invariant depends on the variables alone.
LEMMA StutterStep == IInv /\ UNCHANGED vars => IInv'
<1> SUFFICES ASSUME IInv, UNCHANGED vars PROVE IInv' OBVIOUS
<1> USE DEF vars
<1>0. TypeOK' BY NextTypeOK DEF IInv
<1>1. Active' = Active BY DEF Active, Grid, ChunksOf
<1>2. Idle' BY <1>1 DEF IInv, Idle
<1>3. InStep'
  <2>1. \A d \in Active, u \in Threads : Passed(d, u)' = Passed(d, u)
    BY ShapeKept DEF Passed
  <2> QED BY <1>1, <2>1 DEF IInv, InStep
<1>4. Terms' BY <1>1, ShapeKept DEF IInv, Terms
<1>5. Table'
  <2>1. \A d : \A u : Group(d, u)' = Group(d, u) /\ Buffer(d, u)' = Buffer(d, u)
    BY DEF Group, Buffer, First
  <2> QED BY <1>1, <2>1 DEF IInv, Table
<1>6. Published' BY <1>1 DEF IInv, Published
<1>7. FinalSet' BY <1>1 DEF IInv, FinalSet, CountedIn
<1>8. Counting' BY KeepCounting DEF CountedIn
<1>9. Reduced' BY <1>1, ShapeKept DEF IInv, Reduced
<1>10. Stored' BY KeepStored DEF StoredBy
<1> QED BY <1>0, <1>2, <1>3, <1>4, <1>5, <1>6, <1>7, <1>8, <1>9, <1>10 DEF IInv

\* The inductive invariant is kept by every step.
LEMMA NextIInv == IInv /\ [Next]_vars => IInv'
BY LaunchStep, ScheduleStep, BarrierStep, FlushStep, BuildStep, ConsumeStep,
   AccumulateStep, StorePartialStep, FenceStep, CountStep, TestStep, ReduceStep,
   WriteOutputStep, ResetStep, StutterStep DEF Next, ThreadStep

\* The inductive invariant holds of every behaviour of the kernel.
THEOREM Inductive == Spec => []IInv
BY InitIInv, NextIInv, PTL DEF Spec

-----------------------------------------------------------------------------
(* What follows from the inductive invariant. *)

\* No thread writes the table that another thread of its block is reading.
THEOREM TableIsRaceFree == Spec => []TableRaceFree
<1>1. IInv => TableRaceFree
  <2> SUFFICES ASSUME IInv, NEW b \in Block, NEW t \in Threads, NEW u \in Threads,
                      pc[b][t] = "build", pc[b][u] = "consume"
               PROVE  Buffer(b, t) # Buffer(b, u)
    BY DEF TableRaceFree
  <2>1. b \in Active BY DEF IInv, Idle
  <2>2. Len(partial[b][t]) = Len(partial[b][u]) + 1
    BY <2>1 DEF IInv, InStep, Passed
  <2>3. TypeOK BY DEF IInv
  <2> QED BY <2>2, <2>3, Parity, NumberFacts DEF Buffer
<1> QED BY <1>1, Inductive, PTL

\* All threads of a block wait at the same __syncthreads, and none has exited.
THEOREM BarrierIsUniform == Spec => []BarrierUniform
<1>1. IInv => BarrierUniform
  <2> SUFFICES ASSUME IInv, NEW b \in Block, NEW t \in Threads, NEW u \in Threads,
                      pc[b][t] \in Barriers
               PROVE  /\ pc[b][u] # "done"
                      /\ pc[b][u] \in Barriers =>
                           /\ pc[b][u] = pc[b][t]
                           /\ Len(partial[b][u]) = Len(partial[b][t])
    BY DEF BarrierUniform
  <2>0. TypeOK /\ Terms BY DEF IInv
  <2>1. b \in Active BY DEF IInv, Idle, Barriers
  <2>2. Passed(b, t) = Passed(b, u) BY <2>1 DEF IInv, InStep
  <2>3. pc[b][u] # "done"
    <3> SUFFICES ASSUME pc[b][u] = "done" PROVE FALSE OBVIOUS
    <3>1. pc[b][t] = "sync_output" /\ Passed(b, t) = GroupsOf(b) + 2
      BY <2>0, <2>1, <2>2, PassedFacts DEF Barriers
    <3>2. final[b] = "yes" BY <2>1, <3>1 DEF IInv, FinalSet
    <3>3. Passed(b, u) = GroupsOf(b) + 3 BY <3>2 DEF Passed
    <3>4. GroupsOf(b) \in Int BY <2>0, <2>1, PassedFacts
    <3>5. GroupsOf(b) + 2 = GroupsOf(b) + 3 BY <2>2, <3>1, <3>3
    <3> HIDE DEF GroupsOf
    <3>6. \A n \in Int : n + 2 # n + 3 OBVIOUS
    <3> QED BY <3>4, <3>5, <3>6
  <2>4. ASSUME pc[b][u] \in Barriers
        PROVE  pc[b][u] = pc[b][t] /\ Len(partial[b][u]) = Len(partial[b][t])
    <3>1. pc[b][u] = pc[b][t] BY <2>0, <2>1, <2>2, <2>4, PassedFacts DEF Barriers
    <3>2. CASE pc[b][t] = "sync_lut" BY <2>2, <3>1, <3>2 DEF Passed
    <3>3. CASE pc[b][t] # "sync_lut"
      BY <2>1, <3>1, <3>3 DEF IInv, Terms, Barriers
    <3> QED BY <3>1, <3>2, <3>3
  <2> QED BY <2>3, <2>4
<1> QED BY <1>1, Inductive, PTL

\* The block that reduces a tile sees the exact partial sums of all its chunks.
THEOREM ReducerSeesEverything == Spec => []ReducerSeesAll
<1>1. IInv => ReducerSeesAll BY ReducerSees DEF ReducerSeesAll, TileChunks
<1> QED BY <1>1, Inductive, PTL

\* At most one block of a tile counts in last.
THEOREM OneReducerPerTile == Spec => []OneReducer
<1>1. IInv => OneReducer
  <2> SUFFICES ASSUME IInv, NEW b \in Block, NEW d \in Block, b[1] = d[1],
                      final[b] = "yes", final[d] = "yes"
               PROVE  b = d
    BY DEF OneReducer
  <2>0. TypeOK BY DEF IInv
  <2>1. \A e \in Block : final[e] = "yes" => e \in Active BY DEF IInv, Idle
  <2>2. launch > 0 BY <2>0, <2>1, ActiveFacts DEF Active
  <2>3. \A e \in Active : e[1] \in Tiles /\ e[2] \in TileChunks /\ e = <<e[1], e[2]>>
    BY <2>0, <2>2, ActiveFacts, BlockFacts, ChunkCount DEF Active, TileChunks, TypeOK
  <2>4. b[2] = d[2] BY <2>1, <2>2, <2>3 DEF IInv, Counting
  <2> QED BY <2>1, <2>3, <2>4
<1> QED BY <1>1, Inductive, PTL

\* Every launch leaves all the tile counters at zero.
THEOREM CountersAreClear == Spec => []CountersClear
<1>1. IInv => CountersClear BY DoneCleared DEF CountersClear
<1> QED BY <1>1, Inductive, PTL

\* A row of at least one chunk is not the unset value.
LEMMA ExactIsSet ==
  ASSUME TypeOK
  PROVE  ExactRow(launch, gpc) # Unset
<1>1. ChunksOf(gpc) \in Nat \ {0} BY ChunkCount DEF TypeOK
<1>2. 1 \in DOMAIN ExactRow(launch, gpc) BY <1>1 DEF ExactRow
<1>3. DOMAIN Unset = {} BY DEF Unset
<1> QED BY <1>2, <1>3

\* A counter goes back to zero only when its tile is answered and at rest.
LEMMA ResetAnswers ==
  ASSUME IInv, NEW b \in Block, NEW t \in Threads, Reset(b, t)
  PROVE  /\ \A u \in Threads :
              Row(<<b[1], 0>>, u) < Rows => output[Row(<<b[1], 0>>, u)] # Unset
         /\ \A e \in unflushed : e[1][1] # b[1]
<1>0. TypeOK /\ Terms /\ Active \subseteq Block /\ 0 \in Threads
  BY ActiveFacts DEF IInv
<1>1. b \in Active /\ final[b] = "yes" /\ pc[b][t] = "reset"
  BY DEF IInv, Idle, FinalSet, Reset
<1>2. launch > 0 BY <1>0, <1>1, ActiveFacts DEF Active
<1>3. ASSUME NEW d \in Active
      PROVE  d[1] \in Tiles /\ d[2] \in TileChunks /\ d = <<d[1], d[2]>>
  <2>1. d \in Block /\ d \in Grid(gpc) /\ gpc \in GroupsPerChunk
    BY <1>0, <1>2 DEF Active, TypeOK
  <2>2. d[2] \in Nat /\ d[2] < ChunksOf(gpc) /\ ChunksOf(gpc) \in Nat
    BY <2>1, BlockFacts, ChunkCount
  <2> QED BY <2>1, <2>2, BlockFacts DEF TileChunks
<1>4. ASSUME NEW u \in Threads PROVE StoredBy(b, u)
  <2>1. Passed(b, u) = GroupsOf(b) + 3 /\ GroupsOf(b) \in Int
    BY <1>0, <1>1, PassedFacts DEF IInv, InStep
  <2>2. pc[b][u] \in {"test", "reduce", "sync_output", "reset", "done"}
    BY <1>0, <1>1, <2>1, PassedFacts
  <2>3. \A n \in Int : n + 2 # n + 3 OBVIOUS
  <2>4. pc[b][u] \notin {"test", "reduce", "sync_output"}
    BY <1>0, <1>1, <2>1, <2>3, PassedFacts
  <2> QED BY <1>1, <2>2, <2>4 DEF StoredBy, StoredPlaces
<1>5. ASSUME NEW u \in Threads, Row(<<b[1], 0>>, u) < Rows
      PROVE  output[Row(<<b[1], 0>>, u)] # Unset
  <2>1. StoredBy(<<b[1], b[2]>>, u) BY <1>1, <1>3, <1>4
  <2>2. output[Row(<<b[1], 0>>, u)] = ExactRow(launch, gpc)
    BY <1>1, <1>2, <1>3, <1>5, <2>1 DEF IInv, Stored
  <2> QED BY <1>0, <2>2, ExactIsSet
<1>6. ASSUME NEW e \in unflushed, e[1][1] = b[1] PROVE FALSE
  <2> DEFINE d == e[1]
  <2>1. d \in Active /\ e[2] \in Threads BY <1>0, ActiveFacts DEF IInv, Idle
  <2>2. pc[d][e[2]] = "fence" BY DEF IInv, Published
  <2>3. CountedIn(d)
    <3>1. CountedChunks(b[1]) = TileChunks BY <1>1, <1>2, <1>3 DEF IInv, Counting
    <3>2. d = <<b[1], d[2]>> /\ d[2] \in TileChunks BY <1>3, <1>6, <2>1
    <3> QED BY <3>1, <3>2 DEF CountedChunks
  <2>4. Passed(d, 0) >= GroupsOf(d) + 1
    BY <1>0, <2>1, <2>3, PassedFacts DEF CountedIn, CountedPlaces
  <2>5. Passed(d, 0) = Passed(d, e[2]) BY <1>0, <2>1 DEF IInv, InStep
  <2>6. Passed(d, e[2]) = GroupsOf(d) /\ GroupsOf(d) \in Int
    BY <1>0, <2>1, <2>2, PassedFacts
  <2>7. \A n \in Int : ~(n >= n + 1) OBVIOUS
  <2> HIDE DEF d
  <2> QED BY <2>4, <2>5, <2>6, <2>7
<1> QED BY <1>5, <1>6

\* A tile counter is cleared only when its tile is answered.
THEOREM ClearsWhenAnswered == Spec => ClearedWhenAnswered
<1> DEFINE Answer == \A i \in Tiles :
             counter[i] > 0 /\ counter'[i] = 0 =>
               /\ \A t \in Threads :
                    Row(<<i, 0>>, t) < Rows => output[Row(<<i, 0>>, t)] # Unset
               /\ \A e \in unflushed : e[1][1] # i
<1>1. IInv /\ [Next]_vars => [Answer]_vars
  <2> SUFFICES ASSUME IInv, [Next]_vars PROVE Answer \/ UNCHANGED vars OBVIOUS
  <2>0. TypeOK BY DEF IInv
  <2>1. CASE UNCHANGED counter
    BY <2>1
  <2>2. ASSUME NEW b \in Block, NEW t \in Threads, Count(b, t) PROVE Answer
    <3>1. \A i \in Tiles : counter[i] \in Nat BY <2>0 DEF TypeOK
    <3>2. \A i \in Tiles : counter'[i] = counter[i] \/ counter'[i] = counter[i] + 1
      BY <2>0, <2>2 DEF Count, TypeOK
    <3>3. \A i \in Tiles : counter[i] > 0 => counter'[i] # 0 BY <3>1, <3>2
    <3> QED BY <3>3
  <2>3. ASSUME NEW b \in Block, NEW t \in Threads, Reset(b, t) PROVE Answer
    <3>1. \A i \in Tiles : i # b[1] => counter'[i] = counter[i]
      BY <2>0, <2>3 DEF Reset, TypeOK
    <3> QED BY <2>3, <3>1, ResetAnswers
  <2>4. ASSUME NEW k \in GroupsPerChunk, Launch(k) PROVE UNCHANGED counter
    BY <2>4 DEF Launch
  <2>5. ASSUME NEW b \in Block, Schedule(b) \/ Barrier(b) PROVE UNCHANGED counter
    BY <2>5 DEF Schedule, Barrier, countVars
  <2>6. ASSUME NEW b \in Block, NEW t \in Threads,
               \/ Flush(b, t) \/ Build(b, t) \/ Consume(b, t) \/ Accumulate(b, t)
               \/ StorePartial(b, t) \/ Fence(b, t)
        PROVE  UNCHANGED counter
    BY <2>6 DEF Flush, Build, Consume, Accumulate, StorePartial, Fence, countVars
  <2>7. ASSUME NEW b \in Block, NEW t \in Threads,
               Test(b, t) \/ Reduce(b, t) \/ WriteOutput(b, t)
        PROVE  UNCHANGED counter
    BY <2>7 DEF Test, Reduce, WriteOutput, countVars
  <2> HIDE DEF Answer
  <2> QED BY <2>1, <2>2, <2>3, <2>4, <2>5, <2>6, <2>7 DEF Next, ThreadStep
<1> QED BY <1>1, Inductive, PTL DEF Spec, ClearedWhenAnswered

-----------------------------------------------------------------------------
(* The kernel implements Gemv. *)

\* Every row belongs to a thread of a tile.
LEMMA RowOfThread ==
  ASSUME NEW r \in RowIds
  PROVE  \E i \in Tiles, t \in Threads : r = Row(<<i, 0>>, t)
<1>1. r \in Nat /\ r < Rows /\ Rows \in Nat \ {0} /\ MTile \in Nat \ {0}
  BY RowsAssumption, MTileAssumption DEF RowIds
<1> DEFINE i == r \div MTile
           n == (Rows + MTile - 1) \div MTile
<1>2. i \in Nat /\ i * MTile <= r /\ r < i * MTile + MTile BY <1>1, DivFact
<1>3. n \in Nat /\ Rows + MTile - 1 < n * MTile + MTile
  <2>1. Rows + MTile - 1 \in Nat BY <1>1
  <2> QED BY <1>1, <2>1, DivFact
<1> HIDE DEF i, n
<1>4. i < n
  <2> SUFFICES ASSUME n <= i PROVE FALSE BY <1>2, <1>3
  <2>1. n * MTile <= i * MTile BY <1>1, <1>2, <1>3
  <2>2. n * MTile \in Nat /\ i * MTile \in Nat BY <1>1, <1>2, <1>3
  <2> QED BY <1>1, <1>2, <1>3, <2>1, <2>2
<1>5. i \in Tiles BY <1>2, <1>3, <1>4 DEF Tiles, n
<1>6. i * MTile \in Nat BY <1>1, <1>2
<1>7. r - i * MTile \in Threads BY <1>1, <1>2, <1>6 DEF Threads
<1>8. r = i * MTile + (r - i * MTile) BY <1>1, <1>6
<1> QED BY <1>5, <1>7, <1>8 DEF Row

\* Gemv reads the geometry as the kernel does.
LEMMA PromiseShape ==
  /\ Promise!RowIds = RowIds /\ Promise!Unset = Unset
  /\ \A n, k : Promise!ExactRow(n, k) = ExactRow(n, k)
BY DEF Promise!RowIds, RowIds, Promise!Unset, Unset, Promise!ExactRow, ExactRow,
   Promise!ExactPartial, ExactPartial, Promise!ChunksOf, ChunksOf, Promise!FinalGroup,
   FinalGroup

\* The kernel keeps every promise of Gemv: each launch stores each row once, with the
\* exact value in the fixed order, before the next launch begins.
THEOREM KernelImplementsGemv == Spec => ImplementsGemv
<1>1. Init => Promise!Init BY PromiseShape DEF Init, Promise!Init
<1>2. IInv /\ [Next]_vars => [Promise!Next]_(Promise!vars)
  <2> SUFFICES ASSUME IInv, [Next]_vars PROVE [Promise!Next]_(Promise!vars) OBVIOUS
  <2>0. TypeOK BY DEF IInv
  <2>1. ASSUME NEW k \in GroupsPerChunk, Launch(k) PROVE Promise!Launch(k)
    <3>1. ASSUME launch > 0, NEW r \in RowIds PROVE output[r] # Unset
      <4>1. PICK i \in Tiles, t \in Threads : r = Row(<<i, 0>>, t) BY RowOfThread
      <4>2. PICK c \in TileChunks : final[<<i, c>>] = "yes"
        BY <2>1, <3>1, DoneCleared DEF Launch
      <4>3. <<i, c>> \in Block BY <2>0, <3>1, ActiveFacts
      <4>4. StoredBy(<<i, c>>, t)
        BY <2>1, <4>2, <4>3 DEF Launch, GridDone, StoredBy, StoredPlaces
      <4>5. r < Rows BY RowsAssumption DEF RowIds
      <4>6. output[r] = ExactRow(launch, gpc)
        BY <3>1, <4>1, <4>4, <4>5 DEF IInv, Stored
      <4> QED BY <2>0, <4>6, ExactIsSet
    <3> QED BY <2>1, <3>1, PromiseShape DEF Launch, Promise!Launch
  <2>2. ASSUME NEW b \in Block, NEW t \in Threads, WriteOutput(b, t)
        PROVE  \/ Promise!Store(Row(b, t)) /\ Row(b, t) \in RowIds
               \/ UNCHANGED Promise!vars
    <3>1. CASE ~(Row(b, t) < Rows)
      BY <3>1, <2>2 DEF WriteOutput, hostVars, Promise!vars
    <3>2. CASE Row(b, t) < Rows
      <4>1. b \in Active /\ final[b] = "yes" /\ pc[b][t] = "reduce"
        BY <2>2 DEF IInv, Idle, FinalSet, WriteOutput
      <4>2. launch > 0 BY <2>0, <4>1, ActiveFacts DEF Active
      <4>3. b[1] \in Tiles /\ b[2] \in TileChunks /\ b = <<b[1], b[2]>>
        BY <2>0, <4>1, <4>2, BlockFacts, ChunkCount DEF Active, TileChunks, TypeOK
      <4>4. \A c \in TileChunks : ~StoredBy(<<b[1], c>>, t)
        <5>1. \A c \in TileChunks : final[<<b[1], c>>] = "yes" => c = b[2]
          BY <4>1, <4>2, <4>3 DEF IInv, Counting
        <5>2. ~StoredBy(b, t) BY <4>1 DEF StoredBy, StoredPlaces
        <5> QED BY <4>3, <5>1, <5>2 DEF StoredBy
      <4>5. Row(<<b[1], 0>>, t) = Row(b, t) BY DEF Row
      <4>6. output[Row(b, t)] = Unset
        BY <3>2, <4>2, <4>3, <4>4, <4>5 DEF IInv, Stored
      <4>7. output' = [output EXCEPT ![Row(b, t)] = ExactRow(launch, gpc)]
        BY <2>2, <3>2, <4>1, ResultExact DEF WriteOutput
      <4>8. Row(b, t) \in RowIds
        <5>1. Row(b, t) \in Nat BY <2>0, NumberFacts
        <5> QED BY <3>2, <5>1, RowsAssumption DEF RowIds
      <4> QED BY <2>2, <4>2, <4>6, <4>7, <4>8, PromiseShape
           DEF WriteOutput, hostVars, Promise!Store
    <3> QED BY <3>1, <3>2
  <2>3. CASE UNCHANGED <<launch, gpc, output>> BY <2>3 DEF Promise!vars
  <2>4. ASSUME NEW b \in Block, Schedule(b) \/ Barrier(b)
        PROVE  UNCHANGED <<launch, gpc, output>>
    BY <2>4 DEF Schedule, Barrier, hostVars, answerVars
  <2>5. ASSUME NEW b \in Block, NEW t \in Threads,
               \/ Flush(b, t) \/ Build(b, t) \/ Consume(b, t) \/ Accumulate(b, t)
               \/ StorePartial(b, t) \/ Fence(b, t)
        PROVE  UNCHANGED <<launch, gpc, output>>
    BY <2>5 DEF Flush, Build, Consume, Accumulate, StorePartial, Fence, hostVars, answerVars
  <2>6. ASSUME NEW b \in Block, NEW t \in Threads,
               Count(b, t) \/ Test(b, t) \/ Reduce(b, t) \/ Reset(b, t)
        PROVE  UNCHANGED <<launch, gpc, output>>
    BY <2>6 DEF Count, Test, Reduce, Reset, hostVars, answerVars
  <2>7. CASE UNCHANGED vars BY <2>3, <2>7 DEF vars
  <2> QED
    BY <2>1, <2>2, <2>3, <2>4, <2>5, <2>6, <2>7, PromiseShape
    DEF Next, ThreadStep, Promise!Next
<1> QED BY <1>1, <1>2, Inductive, PTL DEF Spec, ImplementsGemv, Promise!Spec
=============================================================================
