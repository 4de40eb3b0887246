--------------------------- MODULE Dispatch_proofs ---------------------------
(* No product of a layer is refused, for every set of layouts, every batch and   *)
(* every value of the thresholds.                                                *)
EXTENDS Dispatch, Numbers

\* The sizes the ladders are multiples of: those of the matrix units and of a
\* simdgroup. The preferred tile and the thresholds may be anything.
HardwareSizes == MATRIX_TILE = 8 /\ SIMD_WIDTH = 32

\* Ceiling division of positive numbers is positive (kernels.py math.ceil).
LEMMA CeilDivPositive ==
    ASSUME NEW a \in Nat \ {0}, NEW b \in Nat \ {0}
    PROVE  CeilDiv(a, b) \in Nat \ {0}
  BY Z3 DEF CeilDiv

\* A layout has tiles, of one size, that make up its rows (select_tile).
LEMMA TilesExact ==
    ASSUME NEW l \in Layouts
    PROVE  /\ l.groups \in Nat \ {0} /\ l.tile \in Nat \ {0} /\ Tiles(l) \in Nat \ {0}
           /\ l.rows = Tiles(l) * l.tile
  <1>1. l.rows \in Nat \ {0} /\ l.groups \in Nat \ {0} /\ l.tile = SelectTile(l.rows)
    BY LayoutsAssumption DEF LayoutOf
  <1>2. l.tile \in Nat \ {0} /\ l.rows % l.tile = 0
    BY <1>1, ConfigAssumption DEF SelectTile
  <1> QED
    BY <1>1, <1>2, Z3 DEF Tiles

\* largest_split always finds a split: one divides every number of groups, and
\* the budget is never below one (modules.py largest_split).
LEMMA SplitDivides ==
    ASSUME NEW g \in Nat \ {0}, NEW tgs \in Nat \ {0}
    PROVE  /\ LargestSplit(g, tgs) \in Nat \ {0} /\ LargestSplit(g, tgs) <= Budget(g, tgs)
           /\ g % LargestSplit(g, tgs) = 0
  <1> DEFINE B == Budget(g, tgs)
             D == {d \in 0..B - 1 : g % (B - d) = 0}
  <1>1. B \in Nat \ {0}
    <2>1. SPLIT_K_THREADGROUPS \div tgs \in Nat
      BY RuleAssumption
    <2> QED
      BY <2>1 DEF Budget, Least
  <1> HIDE DEF B
  <1>2. D \subseteq Nat /\ D # {}
    <2>1. B - 1 \in 0..B - 1 /\ g % (B - (B - 1)) = 0
      BY <1>1
    <2> QED
      BY <1>1, <2>1
  \* The largest divisor is the one at the least distance from the budget.
  <1>3. PICK d \in D : \A e \in D : d <= e
    BY <1>2, LeastNumber
  <1>4. d \in 0..B - 1 /\ g % (B - d) = 0
    BY <1>3
  <1>5. B - d \in 1..B /\ g % (B - d) = 0
    BY <1>1, <1>4
  <1>6. ASSUME NEW r \in 1..B, g % r = 0
        PROVE  r <= B - d
    <2>1. B - r \in D
      <3>1. B - (B - r) = r /\ B - r \in 0..B - 1
        BY <1>1, <1>6
      <3> QED
        BY <3>1, <1>6
    <2>2. d <= B - r
      BY <2>1, <1>3
    <2> QED
      BY <2>2, <1>1, <1>4, <1>6
  <1>7. \E s \in 1..B : g % s = 0 /\ \A r \in 1..B : g % r = 0 => r <= s
    BY <1>5, <1>6
  <1>8. LargestSplit(g, tgs) \in 1..B /\ g % LargestSplit(g, tgs) = 0
    BY <1>7 DEF LargestSplit, B
  <1>9. LargestSplit(g, tgs) \in Nat \ {0} /\ LargestSplit(g, tgs) <= B
    BY <1>1, <1>8
  <1> QED
    BY <1>8, <1>9 DEF B

\* What the two ladders are (modules.py:165-190).
LEMMA RungShape ==
    ASSUME NEW b
    PROVE  /\ Ladder(b) \in Seq(ToSet(Ladder(b)))
           /\ \A c \in ToSet(Ladder(b)) : c.kernel = "gemm" /\ c.batch_block \in {16, 32}
  <1>1. Len(Ladder(b)) = 2 /\ DOMAIN Ladder(b) = 1..2 /\ Ladder(b) = [i \in 1..2 |-> Ladder(b)[i]]
    BY DEF Ladder, GEMM_LADDER_SMALL_BATCH, GEMM_LADDER_LARGE_BATCH
  <1>2. \A i \in 1..2 : Ladder(b)[i].kernel = "gemm" /\ Ladder(b)[i].batch_block \in {16, 32}
    BY DEF Ladder, GEMM_LADDER_SMALL_BATCH, GEMM_LADDER_LARGE_BATCH, Gemm
  <1>3. ToSet(Ladder(b)) = {Ladder(b)[i] : i \in 1..2}
    BY <1>1 DEF ToSet
  <1>4. Ladder(b) \in [1..2 -> ToSet(Ladder(b))]
    BY <1>1, <1>3
  <1>5. Ladder(b) \in Seq(ToSet(Ladder(b)))
    BY <1>4, SeqDef
  <1> QED
    BY <1>2, <1>3, <1>5

\* GemmConfig.__post_init__ raises for none of the rungs.
LEMMA RungsWellFormed ==
    ASSUME HardwareSizes, NEW b, NEW c \in ToSet(Ladder(b))
    PROVE  WellFormed(c)
  <1>1. \A i \in 1..2 : WellFormed(GEMM_LADDER_SMALL_BATCH[i])
    BY DEF HardwareSizes, WellFormed, Threads, Least, Gemm, GEMM_LADDER_SMALL_BATCH
  <1>2. \A i \in 1..2 : WellFormed(GEMM_LADDER_LARGE_BATCH[i])
    BY DEF HardwareSizes, WellFormed, Threads, Least, Gemm, GEMM_LADDER_LARGE_BATCH
  <1>3. DOMAIN Ladder(b) = 1..2
    BY DEF Ladder, GEMM_LADDER_SMALL_BATCH, GEMM_LADDER_LARGE_BATCH
  <1>4. PICK i \in 1..2 : c = Ladder(b)[i]
    BY <1>3 DEF ToSet
  <1> QED
    BY <1>1, <1>2, <1>4 DEF Ladder

\* A walk down a ladder that has a legal rung ends at one of those.
LEMMA GemmChosen ==
    ASSUME NEW l, NEW b, LegalRungs(l, b) # <<>>
    PROVE  /\ SelectGemm(l, b) \in ToSet(Ladder(b))
           /\ Tiles(l) = 1 \/ l.tile % SelectGemm(l, b).row_block = 0
  <1> DEFINE S == ToSet(Ladder(b))
             fits == {c \in S : Tiles(l) = 1 \/ l.tile % c.row_block = 0}
             legal == LegalRungs(l, b)
             many == {c \in ToSet(legal) :
                         Threadgroups(l, b, c) >= GEMM_WIDE_BLOCK_WAVES * GPU_CORES}
             full == Sift(legal, many)
  <1>1. Ladder(b) \in Seq(S)
    BY RungShape
  <1>2. legal = Sift(Ladder(b), fits)
    BY DEF LegalRungs
  <1>3. SelectGemm(l, b) = IF full = <<>> THEN legal[Len(legal)] ELSE full[1]
    BY DEF SelectGemm, Last, Head
  <1> HIDE DEF legal, many, full, fits, S
  <1>4. legal \in Seq(S) /\ \A k \in 1..Len(legal) : legal[k] \in fits
    BY <1>1, <1>2, SiftIs DEF Sifted
  <1>5. full \in Seq(S) /\ \A k \in 1..Len(full) : \E i \in 1..Len(legal) : full[k] = legal[i]
    BY <1>4, SiftIs DEF Sifted, full
  <1>6. SelectGemm(l, b) \in fits
    <2>1. CASE full = <<>>
      <3>1. Len(legal) \in 1..Len(legal)
        BY <1>4 DEF legal
      <3> QED
        BY <1>3, <1>4, <2>1, <3>1
    <2>2. CASE full # <<>>
      <3>1. 1 \in 1..Len(full)
        BY <1>5, <2>2
      <3> QED
        BY <1>3, <1>4, <1>5, <2>2, <3>1
    <2> QED
      BY <2>1, <2>2
  <1> QED
    BY <1>6 DEF fits, S

\* tq1_gemm accepts what select_gemm returns.
LEMMA GemmAccepted ==
    ASSUME HardwareSizes, NEW l \in Layouts, NEW b, LegalRungs(l, b) # <<>>
    PROVE  Accepts(l, SelectGemm(l, b))
  <1>1. /\ SelectGemm(l, b) \in ToSet(Ladder(b))
        /\ Tiles(l) = 1 \/ l.tile % SelectGemm(l, b).row_block = 0
    BY GemmChosen
  <1>2. WellFormed(SelectGemm(l, b)) /\ SelectGemm(l, b).kernel = "gemm"
    BY <1>1, RungsWellFormed, RungShape
  <1> QED
    BY <1>1, <1>2, TilesExact DEF Accepts

\* tq1_matmul accepts what select_lut23 returns.
LEMMA Lut23Accepted ==
    ASSUME NEW l \in Layouts, NEW b \in Nat \ {0}
    PROVE  Accepts(l, SelectLut23(l, b))
  <1> DEFINE base == SelectLut23Tile(l, b)
             split == LargestSplit(l.groups, Tiles(l) * CeilDiv(b, base.batch_tile))
  <1>1. base \in {LUT23_SINGLE, LUT23_PAIR, LUT23_BATCHED}
    BY DEF SelectLut23Tile
  <1>2. /\ base.batch_tile \in Nat \ {0}
        /\ [base EXCEPT !.k_split = split].k_split = split
        /\ [base EXCEPT !.k_split = split].kernel = "lut"
    BY <1>1 DEF LUT23_SINGLE, LUT23_PAIR, LUT23_BATCHED, Lut23
  <1>3. Tiles(l) * CeilDiv(b, base.batch_tile) \in Nat \ {0}
    <2>1. Tiles(l) \in Nat \ {0} /\ CeilDiv(b, base.batch_tile) \in Nat \ {0}
      BY <1>2, TilesExact, CeilDivPositive
    <2> QED
      BY <2>1, Z3
  <1>4. l.groups % split = 0
    BY <1>3, TilesExact, SplitDivides
  <1>5. SelectLut23(l, b) = [base EXCEPT !.k_split = split]
    BY DEF SelectLut23
  <1> QED
    BY <1>2, <1>4, <1>5 DEF Accepts, WellFormed

\* A layer keeps its tensor and is called with at least one activation row.
TypeOK == layout \in Layouts /\ batch \in Nat \ {0} /\ config = Select(layout, batch)

\* The configuration is the one chosen for the batch of the last call.
THEOREM TypeCorrect == Spec => []TypeOK
  <1>1. Init => TypeOK
    BY DEF Init, TypeOK
  <1>2. TypeOK /\ [Call]_vars => TypeOK'
    <2> SUFFICES ASSUME TypeOK, [Call]_vars PROVE TypeOK'
      OBVIOUS
    <2>1. CASE Call
      BY <2>1 DEF TypeOK, Call
    <2>2. CASE UNCHANGED vars
      BY <2>2 DEF TypeOK, vars
    <2> QED
      BY <2>1, <2>2
  <1> QED
    BY <1>1, <1>2, PTL DEF Spec

\* packed_matmul never gets a FormatError from the kernel it chose: whatever the
\* tensors, the batch and the thresholds, the split divides the groups, the row
\* block straddles no tiles and the configuration is one that can be built.
THEOREM DispatchIsAccepted ==
    ASSUME HardwareSizes
    PROVE  Spec => []DispatchAccepted
  <1>1. TypeOK => DispatchAccepted
    <2> SUFFICES ASSUME TypeOK PROVE DispatchAccepted
      OBVIOUS
    <2>1. CASE UsesGemm(layout, batch)
      BY <2>1, GemmAccepted DEF TypeOK, DispatchAccepted, Select, UsesGemm
    <2>2. CASE ~UsesGemm(layout, batch)
      BY <2>2, Lut23Accepted DEF TypeOK, DispatchAccepted, Select
    <2> QED
      BY <2>1, <2>2
  <1> QED
    BY <1>1, TypeCorrect, PTL

----------------------------------------------------------------------------

\* The samples fit into the batch tiles that the grid has for them.
LEMMA CeilDivCovers ==
    ASSUME NEW a \in Nat \ {0}, NEW b \in Nat \ {0}
    PROVE  a <= CeilDiv(a, b) * b
  BY Z3 DEF CeilDiv

\* A quotient times its divisor is no more than what was divided.
LEMMA QuotientWithin ==
    ASSUME NEW n \in Nat, NEW d \in Nat \ {0}
    PROVE  n \div d \in Nat /\ (n \div d) * d <= n
  BY Z3

\* A split that is one keeps the grid below its ceiling (modules.py:305-317).
LEMMA SplitWithinCeiling ==
    ASSUME NEW g \in Nat \ {0}, NEW tgs \in Nat \ {0}, LargestSplit(g, tgs) > 1
    PROVE  LargestSplit(g, tgs) * tgs <= SPLIT_K_THREADGROUPS
  <1> DEFINE split == LargestSplit(g, tgs)
             share == SPLIT_K_THREADGROUPS \div tgs
  <1>1. split \in Nat /\ split <= Budget(g, tgs)
    BY SplitDivides
  <1>2. SPLIT_K_THREADGROUPS \in Nat /\ share \in Nat /\ share * tgs <= SPLIT_K_THREADGROUPS
    BY RuleAssumption, QuotientWithin
  <1> HIDE DEF share
  <1>3. Budget(g, tgs) = IF Least(share, g) >= 1 THEN Least(share, g) ELSE 1
    BY DEF Budget, share
  <1> HIDE DEF split
  <1>4. split > 1
    BY DEF split
  <1>5. split <= share
    BY <1>1, <1>2, <1>3, <1>4 DEF Least
  <1>6. split * tgs <= share * tgs /\ split * tgs \in Nat /\ share * tgs \in Nat
    BY <1>1, <1>2, <1>5, ProductMonotone
  <1> QED
    BY <1>2, <1>6 DEF split

\* The workspace of a split holds at most a constant number of tiles, whatever the tensor
\* and the batch: the ceiling on the grid bounds it.
THEOREM PartialSumsAreBounded == Spec => []PartialSumsBounded
  <1>1. ASSUME TypeOK, config.kernel = "lut", config.k_split > 1
        PROVE  config.k_split * batch * layout.rows
                   <= SPLIT_K_THREADGROUPS * layout.tile * config.batch_tile
    <2> DEFINE base == SelectLut23Tile(layout, batch)
               tiles == Tiles(layout)
               groups == CeilDiv(batch, base.batch_tile)
               split == LargestSplit(layout.groups, tiles * groups)
    <2>1. batch \in Nat \ {0} /\ layout \in Layouts
      BY <1>1 DEF TypeOK
    <2>2. config = SelectLut23(layout, batch)
      <3>1. UsesGemm(layout, batch) => SelectGemm(layout, batch).kernel = "gemm"
        BY GemmChosen, RungShape DEF UsesGemm
      <3> QED
        BY <1>1, <3>1 DEF TypeOK, Select
    <2>3. base \in {LUT23_SINGLE, LUT23_PAIR, LUT23_BATCHED}
      BY DEF SelectLut23Tile
    <2>4. base.batch_tile \in Nat \ {0} /\ config.batch_tile = base.batch_tile /\ config.k_split = split
      BY <2>2, <2>3 DEF SelectLut23, LUT23_SINGLE, LUT23_PAIR, LUT23_BATCHED, Lut23
    <2>5. /\ layout.groups \in Nat \ {0} /\ layout.tile \in Nat \ {0} /\ tiles \in Nat \ {0}
          /\ layout.rows = tiles * layout.tile
      BY <2>1, TilesExact
    <2>6. groups \in Nat \ {0} /\ batch <= groups * base.batch_tile
      BY <2>1, <2>4, CeilDivPositive, CeilDivCovers
    <2>7. tiles * groups \in Nat \ {0}
      BY <2>5, <2>6, Z3
    <2>8. split \in Nat /\ split * (tiles * groups) <= SPLIT_K_THREADGROUPS
      BY <1>1, <2>4, <2>5, <2>7, SplitDivides, SplitWithinCeiling
    <2>9. SPLIT_K_THREADGROUPS \in Nat
      BY RuleAssumption
    <2> HIDE DEF base, tiles, groups, split
    <2> DEFINE t == layout.tile
               b == base.batch_tile
    <2>10. t \in Nat /\ b \in Nat
      BY <2>4, <2>5
    <2> HIDE DEF t, b
    <2>11. (split * (tiles * groups)) * (t * b) <= SPLIT_K_THREADGROUPS * (t * b)
      <3>1. t * b \in Nat /\ split * (tiles * groups) \in Nat
        BY <2>7, <2>8, <2>10, Z3
      <3> QED
        BY <2>8, <2>9, <3>1, ProductMonotone
    <2>12. batch * (split * (tiles * t)) <= (groups * b) * (split * (tiles * t))
      <3>1. split * (tiles * t) \in Nat /\ groups * b \in Nat /\ batch <= groups * b
        BY <2>5, <2>6, <2>8, <2>10, Z3 DEF b
      <3> QED
        BY <2>1, <3>1, ProductMonotone
    <2>13. (groups * b) * (split * (tiles * t)) = (split * (tiles * groups)) * (t * b)
      BY <2>5, <2>6, <2>8, <2>10, Z3
    <2>14. batch * (split * (tiles * t)) = split * batch * (tiles * t)
      BY <2>1, <2>5, <2>8, <2>10, Z3
    <2>15. SPLIT_K_THREADGROUPS * (t * b) = SPLIT_K_THREADGROUPS * t * b
      BY <2>9, <2>10, Z3
    <2>16. split * batch * (tiles * t) <= SPLIT_K_THREADGROUPS * t * b
      <3>1. /\ batch * (split * (tiles * t)) \in Int
            /\ (groups * b) * (split * (tiles * t)) \in Int
            /\ SPLIT_K_THREADGROUPS * (t * b) \in Int
        BY <2>1, <2>5, <2>6, <2>8, <2>9, <2>10, Z3
      <3> QED
        BY <2>11, <2>12, <2>13, <2>14, <2>15, <3>1
    <2> QED
      BY <2>4, <2>5, <2>16 DEF t, b
  <1>2. TypeOK => PartialSumsBounded
    BY <1>1 DEF PartialSumsBounded
  <1> QED
    BY <1>2, TypeCorrect, PTL

----------------------------------------------------------------------------
(* What the sweeps measure. *)

\* The rungs of the sweep: the kernel takes each of them, and no two have one name.
LEMMA SweptRungs ==
    /\ LADDER \in Seq(ToSet(LADDER)) /\ Len(LADDER) = 13
    /\ \A i \in 1..13 : /\ LADDER[i].kernel = "gemm"
                        /\ LADDER[i].batch_block \in {8, 16, 32, 64, 128}
    /\ \A i, j \in 1..13 : BlockName(LADDER[i]) = BlockName(LADDER[j]) => i = j
  <1>1. LADDER \in Seq(ToSet(LADDER)) /\ Len(LADDER) = 13
    <2>1. /\ DOMAIN LADDER = 1..13 /\ Len(LADDER) = 13
          /\ LADDER = [i \in 1..13 |-> LADDER[i]]
      BY DEF LADDER
    <2>2. \A i \in 1..13 : LADDER[i] \in ToSet(LADDER)
      BY <2>1 DEF ToSet
    <2>3. LADDER \in [1..13 -> ToSet(LADDER)]
      BY <2>1, <2>2
    <2> HIDE DEF ToSet
    <2> QED
      BY <2>1, <2>3, SeqDef
  <1>2. \A i \in 1..13 : LADDER[i].kernel = "gemm" /\ LADDER[i].batch_block \in {8, 16, 32, 64, 128}
    BY DEF LADDER, Rung
  <1> DEFINE code == [i \in 1..13 |-> 1000 * LADDER[i].batch_block + LADDER[i].row_block]
  <1>3. \A i, j \in 1..13 : code[i] = code[j] => i = j
    BY DEF LADDER, Rung
  <1>4. ASSUME NEW i \in 1..13, NEW j \in 1..13, BlockName(LADDER[i]) = BlockName(LADDER[j])
        PROVE  i = j
    <2>1. /\ LADDER[i].batch_block = LADDER[j].batch_block
          /\ LADDER[i].row_block = LADDER[j].row_block
      BY <1>2, <1>4 DEF BlockName
    <2>2. code[i] = code[j]
      BY <2>1
    <2> QED
      BY <1>3, <2>2
  <1> QED
    BY <1>1, <1>2, <1>4

\* GemmConfig.__post_init__ raises for no rung of the sweep.
LEMMA SweptRungsWellFormed ==
    ASSUME HardwareSizes, NEW i \in 1..13
    PROVE  WellFormed(LADDER[i])
  BY DEF HardwareSizes, WellFormed, Threads, Least, LADDER, Rung

\* e is in s.
In(e, s) == \E i \in 1..Len(s) : s[i] = e

\* That the names of a list are distinct, in the words of Numbers.
LEMMA DistinctIsApart ==
    ASSUME NEW T, NEW s \in Seq(T), NEW name, name = [c \in T |-> BlockName(c)]
    PROVE  Distinct(s) <=> NamesApart(s, name)
  <1>1. DOMAIN s = 1..Len(s) /\ \A i \in 1..Len(s) : s[i] \in T
    OBVIOUS
  <1>2. \A i \in 1..Len(s) : name[s[i]] = BlockName(s[i])
    BY <1>1
  <1> QED
    BY <1>1, <1>2 DEF Distinct, NamesApart

\* Two lists of distinct names that share none are one such list.
LEMMA JoinDistinct ==
    ASSUME NEW T, NEW s \in Seq(T), NEW t \in Seq(T), Distinct(s), Distinct(t),
           \A i \in 1..Len(s) : \A j \in 1..Len(t) : BlockName(s[i]) # BlockName(t[j])
    PROVE  Distinct(s \o t)
  <1> PICK name : name = [c \in T |-> BlockName(c)]
    OBVIOUS
  <1>1. \A i \in 1..Len(s) : \A j \in 1..Len(t) : name[s[i]] # name[t[j]]
    <2>1. /\ \A i \in 1..Len(s) : name[s[i]] = BlockName(s[i])
          /\ \A j \in 1..Len(t) : name[t[j]] = BlockName(t[j])
      OBVIOUS
    <2> QED
      BY <2>1
  <1>2. NamesApart(s, name) /\ NamesApart(t, name)
    BY DistinctIsApart
  <1>3. s \o t \in Seq(T)
    BY JoinHas
  <1>4. NamesApart(s \o t, name)
    BY <1>1, <1>2, JoinApart
  <1> QED
    BY <1>3, <1>4, DistinctIsApart

\* What is kept of a list of distinct names.
LEMMA SiftDistinct ==
    ASSUME NEW T, NEW list \in Seq(T), NEW keep, Distinct(list)
    PROVE  Distinct(Sift(list, keep))
  <1> PICK name : name = [c \in T |-> BlockName(c)]
    OBVIOUS
  <1>1. NamesApart(list, name)
    BY DistinctIsApart
  <1>2. Sift(list, keep) \in Seq(T) /\ NamesApart(Sift(list, keep), name)
    BY <1>1, SiftIs, SiftApart
  <1> QED
    BY <1>2, DistinctIsApart

\* Where names are distinct, what is in a list is in it once.
LEMMA InOnce ==
    ASSUME NEW T, NEW s \in Seq(T), NEW e, In(e, s), Distinct(s)
    PROVE  Once(e, s)
  <1>1. PICK i \in 1..Len(s) : s[i] = e
    BY DEF In
  <1>2. DOMAIN s = 1..Len(s)
    OBVIOUS
  <1>3. {k \in DOMAIN s : s[k] = e} = {i}
    BY <1>1, <1>2 DEF Distinct
  <1> QED
    BY <1>3, FS_Singleton DEF Once

\* A ladder has rungs of distinct names.
LEMMA LadderDistinct == ASSUME NEW b PROVE Distinct(Ladder(b))
  <1>1. DOMAIN Ladder(b) = 1..2
    BY DEF Ladder, GEMM_LADDER_SMALL_BATCH, GEMM_LADDER_LARGE_BATCH
  <1>2. /\ Ladder(b)[1].kernel = "gemm" /\ Ladder(b)[2].kernel = "gemm"
        /\ Ladder(b)[1].row_block # Ladder(b)[2].row_block
    BY DEF Ladder, GEMM_LADDER_SMALL_BATCH, GEMM_LADDER_LARGE_BATCH, Gemm
  <1>3. BlockName(Ladder(b)[1]) # BlockName(Ladder(b)[2])
    BY <1>2 DEF BlockName
  <1>4. \A i \in 1..2 : i = 1 \/ i = 2
    OBVIOUS
  <1> QED
    BY <1>1, <1>3, <1>4 DEF Distinct

\* A batch that is not the GEMM's fills the shallowest block of the sweep alone.
LEMMA BucketIsShallow ==
    ASSUME NEW b \in Nat \ {0}, NEW m \in BucketBlocks(b)
    PROVE  m = 8
  <1>1. b < GEMM_MIN_BATCH /\ GEMM_MIN_BATCH \in 8..16
    BY RuleAssumption, CandidatesAssumption DEF BucketBlocks
  <1>2. PICK c \in ToSet(LADDER) : m = c.batch_block /\ c.batch_block <= b
    BY <1>1 DEF BucketBlocks
  <1>3. PICK i \in 1..13 : c = LADDER[i]
    BY <1>2, SweptRungs DEF ToSet
  <1>4. m \in {8, 16, 32, 64, 128}
    BY <1>2, <1>3, SweptRungs
  <1> QED
    BY <1>1, <1>2, <1>4

\* The rungs that the rule chooses between are those of its ladder, and of the sweep's
\* where that has a bucket: the kernel takes each of them, and no two have one name.
LEMMA DecisionRungsAre ==
    ASSUME HardwareSizes, NEW b \in Nat \ {0}
    PROVE  \E T : /\ DecisionRungs(b) \in Seq(T) /\ Distinct(DecisionRungs(b))
                  /\ \A c \in T : c.kernel = "gemm" /\ WellFormed(c)
                  /\ \A c \in ToSet(Ladder(b)) : In(c, DecisionRungs(b))
  <1> DEFINE keep == {c \in ToSet(LADDER) : c.batch_block \in BucketBlocks(b)}
             bucket == Sift(LADDER, keep)
             walk == Ladder(b)
             T == ToSet(LADDER) \cup ToSet(walk)
  <1>1. LADDER \in Seq(T) /\ walk \in Seq(T)
    <2>1. LADDER \in Seq(ToSet(LADDER)) /\ ToSet(LADDER) \subseteq T
      BY SweptRungs
    <2>2. walk \in Seq(ToSet(walk)) /\ ToSet(walk) \subseteq T
      BY RungShape
    <2> HIDE DEF T, walk
    <2> QED
      BY <2>1, <2>2, SeqMonotonic
  <1>2. Distinct(LADDER)
    BY SweptRungs DEF Distinct
  <1>3. bucket \in Seq(T) /\ Sifted(bucket, LADDER, keep, 13) /\ Distinct(bucket)
    <2>1. LADDER \in Seq(T) /\ Len(LADDER) = 13
      BY <1>1, SweptRungs
    <2> HIDE DEF T, keep
    <2>2. bucket \in Seq(T) /\ Sifted(bucket, LADDER, keep, Len(LADDER))
      BY <2>1, SiftIs
    <2>3. Distinct(bucket)
      BY <1>2, <2>1, SiftDistinct
    <2> QED
      BY <2>1, <2>2, <2>3
  <1>4. /\ Distinct(walk) /\ \A c \in ToSet(walk) : In(c, walk)
        /\ \A i \in 1..Len(walk) : walk[i].batch_block \in {16, 32} /\ walk[i] \in ToSet(walk)
    <2>1. walk \in Seq(ToSet(walk)) /\ \A c \in ToSet(walk) : c.batch_block \in {16, 32}
      BY RungShape
    <2> HIDE DEF walk
    <2>2. DOMAIN walk = 1..Len(walk)
      BY <2>1
    <2>3. \A i \in 1..Len(walk) : walk[i] \in ToSet(walk)
      BY <2>1
    <2>4. \A c \in ToSet(walk) : In(c, walk)
      BY <2>2 DEF ToSet, In
    <2>5. Distinct(walk)
      BY LadderDistinct DEF walk
    <2> QED
      BY <2>1, <2>3, <2>4, <2>5
  <1>5. \A c \in T : c.kernel = "gemm" /\ WellFormed(c)
    <2>1. ASSUME NEW c \in ToSet(LADDER)
          PROVE  c.kernel = "gemm" /\ WellFormed(c)
      <3>1. PICK i \in 1..13 : c = LADDER[i]
        BY <2>1, SweptRungs DEF ToSet
      <3> QED
        BY <3>1, SweptRungs, SweptRungsWellFormed
    <2> QED
      BY <2>1, RungShape, RungsWellFormed
  <1>6. \A i \in 1..Len(bucket) : bucket[i].batch_block = 8 /\ bucket[i] \in ToSet(LADDER)
    <2>1. \A i \in 1..Len(bucket) : bucket[i] \in keep
      BY <1>3 DEF Sifted
    <2> HIDE DEF bucket
    <2> QED
      BY <2>1, BucketIsShallow
  <1> HIDE DEF bucket, walk, keep
  <1>7. \A i \in 1..Len(bucket) : \A j \in 1..Len(walk) : BlockName(bucket[i]) # BlockName(walk[j])
    <2>1. ASSUME NEW i \in 1..Len(bucket), NEW j \in 1..Len(walk)
          PROVE  BlockName(bucket[i]) # BlockName(walk[j])
      <3>1. bucket[i].kernel = "gemm" /\ walk[j].kernel = "gemm"
        BY <1>4, <1>5, <1>6
      <3>2. bucket[i].batch_block # walk[j].batch_block
        BY <1>4, <1>6
      <3> QED
        BY <3>1, <3>2 DEF BlockName
    <2> QED
      BY <2>1
  <1> HIDE DEF T
  <1>8. bucket \o walk \in Seq(T) /\ Distinct(bucket \o walk)
    BY <1>1, <1>3, <1>4, <1>7, JoinHas, JoinDistinct
  <1>9. \A c \in ToSet(walk) : In(c, bucket \o walk)
    <2>1. ASSUME NEW c \in ToSet(walk)
          PROVE  In(c, bucket \o walk)
      <3>1. PICK j \in 1..Len(walk) : walk[j] = c
        BY <1>4 DEF In
      <3>2. /\ Len(bucket) + j \in 1..Len(bucket \o walk)
            /\ (bucket \o walk)[Len(bucket) + j] = c
        BY <1>1, <1>3, <3>1, JoinHas
      <3> QED
        BY <3>2 DEF In
    <2> QED
      BY <2>1
  <1>10. DecisionRungs(b) = bucket \o walk
    BY DEF DecisionRungs, bucket, keep, walk
  <1> QED
    BY <1>5, <1>8, <1>9, <1>10 DEF walk

\* The rungs that fit a tensor, and the configuration of LUT23 behind them: the kernel
\* takes each, no two have one name, and what ships is among them if it is kept.
LEMMA OptionsAre ==
    ASSUME NEW l \in Layouts, NEW b \in Nat \ {0}, NEW T, NEW rungs \in Seq(T), NEW keep,
           Distinct(rungs), \A c \in T : c.kernel = "gemm" /\ WellFormed(c),
           \A c \in keep : Fits(l, c),
           UsesGemm(l, b) => In(Select(l, b), rungs) /\ Select(l, b) \in keep
    PROVE  LET options == Sift(rungs, keep) \o <<SelectLut23(l, b)>>
           IN  /\ Once(Select(l, b), options) /\ Distinct(options)
               /\ \A c \in ToSet(options) : Accepts(l, c)
  <1> DEFINE kept == Sift(rungs, keep)
             lut == SelectLut23(l, b)
             last == <<lut>>
             options == kept \o last
             U == T \cup {lut}
  <1>1. kept \in Seq(T) /\ Sifted(kept, rungs, keep, Len(rungs)) /\ Distinct(kept)
    BY SiftIs, SiftDistinct
  <1>2. lut.kernel = "lut" /\ Accepts(l, lut)
    <2>1. SelectLut23Tile(l, b) \in {LUT23_SINGLE, LUT23_PAIR, LUT23_BATCHED}
      BY DEF SelectLut23Tile
    <2>2. lut.kernel = "lut"
      BY <2>1 DEF SelectLut23, LUT23_SINGLE, LUT23_PAIR, LUT23_BATCHED, Lut23
    <2> QED
      BY <2>2, Lut23Accepted
  <1>3. ASSUME NEW i \in 1..Len(kept)
        PROVE  kept[i].kernel = "gemm" /\ Accepts(l, kept[i])
    <2>1. kept[i] \in T /\ kept[i] \in keep
      BY <1>1 DEF Sifted
    <2>2. kept[i].kernel = "gemm" /\ WellFormed(kept[i]) /\ Fits(l, kept[i])
      BY <2>1
    <2> QED
      BY <2>2 DEF Accepts, Fits
  <1> HIDE DEF kept, lut
  <1>4. last \in Seq({lut}) /\ Len(last) = 1 /\ last[1] = lut /\ Distinct(last)
    BY DEF Distinct
  <1>5. \A i \in 1..Len(kept) : \A j \in 1..Len(last) : BlockName(kept[i]) # BlockName(last[j])
    <2>1. ASSUME NEW i \in 1..Len(kept)
          PROVE  BlockName(kept[i]) # BlockName(lut)
      BY <1>2, <1>3 DEF BlockName
    <2>2. \A j \in 1..Len(last) : last[j] = lut
      BY <1>4
    <2> QED
      BY <2>1, <2>2
  <1>6. kept \in Seq(U) /\ last \in Seq(U)
    <2>1. T \subseteq U /\ {lut} \subseteq U
      OBVIOUS
    <2> HIDE DEF U, last
    <2> QED
      BY <1>1, <1>4, <2>1, SeqMonotonic
  <1> HIDE DEF U, last
  <1>7. options \in Seq(U) /\ Distinct(options)
    BY <1>1, <1>4, <1>5, <1>6, JoinHas, JoinDistinct
  <1>8. /\ \A i \in 1..Len(kept) : i \in 1..Len(options) /\ options[i] = kept[i]
        /\ Len(kept) + 1 \in 1..Len(options) /\ options[Len(kept) + 1] = lut
        /\ \A k \in 1..Len(options) : k \in 1..Len(kept) \/ k = Len(kept) + 1
    <2>1. \A j \in 1..Len(last) : j = 1
      BY <1>4
    <2>2. 1 \in 1..Len(last)
      BY <1>4
    <2>3. \A j \in 1..Len(last) : /\ Len(kept) + j \in 1..Len(options)
                                  /\ options[Len(kept) + j] = last[j]
      BY <1>6, JoinHas
    <2>4. /\ \A i \in 1..Len(kept) : i \in 1..Len(options) /\ options[i] = kept[i]
          /\ \A k \in 1..Len(options) : \/ k \in 1..Len(kept)
                                        \/ \E j \in 1..Len(last) : k = Len(kept) + j
      BY <1>6, JoinHas
    <2> HIDE DEF options
    <2> QED
      BY <1>4, <2>1, <2>2, <2>3, <2>4
  <1> HIDE DEF options
  <1>9. \A c \in ToSet(options) : Accepts(l, c)
    <2>1. DOMAIN options = 1..Len(options)
      BY <1>7
    <2> QED
      BY <1>2, <1>3, <1>8, <2>1 DEF ToSet
  <1>10. In(Select(l, b), options)
    <2>1. CASE UsesGemm(l, b)
      <3>1. PICK i \in 1..Len(rungs) : rungs[i] = Select(l, b)
        BY <2>1 DEF In
      <3>2. \E k \in 1..Len(kept) : kept[k] = Select(l, b)
        BY <1>1, <2>1, <3>1 DEF Sifted
      <3> QED
        BY <1>8, <3>2 DEF In
    <2>2. CASE ~UsesGemm(l, b)
      BY <1>8, <2>2 DEF In, Select, lut
    <2> QED
      BY <2>1, <2>2
  <1>11. Once(Select(l, b), options)
    BY <1>7, <1>10, InOnce
  <1> QED
    BY <1>7, <1>9, <1>11 DEF options, kept, last, lut

\* Every rung that the rule may ship is swept, and not filtered out as too deep for the
\* batches it ships at.
LEMMA ShippedIsSwept ==
    ASSUME NEW l \in Layouts, NEW b \in Nat \ {0}, UsesGemm(l, b)
    PROVE  /\ Select(l, b) \in ToSet(Ladder(b)) /\ Fits(l, Select(l, b))
           /\ In(Select(l, b), LADDER) /\ Relevant(b, Select(l, b))
  <1>1. Select(l, b) = SelectGemm(l, b) /\ b >= GEMM_MIN_BATCH /\ LegalRungs(l, b) # <<>>
    BY DEF Select, UsesGemm
  <1>2. Select(l, b) \in ToSet(Ladder(b)) /\ Fits(l, Select(l, b))
    BY <1>1, GemmChosen DEF Fits
  <1>3. PICK k \in 1..2 : Select(l, b) = Ladder(b)[k]
    <2>1. DOMAIN Ladder(b) = 1..2
      BY DEF Ladder, GEMM_LADDER_SMALL_BATCH, GEMM_LADDER_LARGE_BATCH
    <2> QED
      BY <1>2, <2>1 DEF ToSet
  <1>4. GEMM_MIN_BATCH \in 8..16 /\ GEMM_LARGE_MIN_BATCH >= 16 /\ GEMM_LARGE_MIN_BATCH \in Nat
    BY RuleAssumption, CandidatesAssumption
  <1>5. /\ Gemm(16, 128, 2, 2, 4, FALSE) = LADDER[5] /\ Gemm(16, 32, 4, 2, 2, TRUE) = LADDER[4]
        /\ Gemm(32, 64, 4, 1, 2, TRUE) = LADDER[7] /\ Gemm(32, 32, 4, 1, 2, TRUE) = LADDER[6]
    BY DEF LADDER, Rung, Gemm
  <1>6. \E i \in 1..13 : LADDER[i] = Select(l, b)
    <2>1. 5 \in 1..13 /\ 4 \in 1..13 /\ 7 \in 1..13 /\ 6 \in 1..13
      OBVIOUS
    <2>2. /\ GEMM_LADDER_SMALL_BATCH[1] = LADDER[5] /\ GEMM_LADDER_SMALL_BATCH[2] = LADDER[4]
          /\ GEMM_LADDER_LARGE_BATCH[1] = LADDER[7] /\ GEMM_LADDER_LARGE_BATCH[2] = LADDER[6]
      BY <1>5 DEF GEMM_LADDER_SMALL_BATCH, GEMM_LADDER_LARGE_BATCH
    <2>3. k = 1 \/ k = 2
      OBVIOUS
    <2>4. Select(l, b) \in {LADDER[4], LADDER[5], LADDER[6], LADDER[7]}
      BY <1>3, <2>2, <2>3 DEF Ladder
    <2> QED
      BY <2>1, <2>4
  <1>7. Select(l, b).batch_block <= 2 * b
    <2>1. CASE b >= GEMM_LARGE_MIN_BATCH
      <3>1. Select(l, b).batch_block = 32
        BY <1>3, <2>1 DEF Ladder, GEMM_LADDER_LARGE_BATCH, Gemm
      <3> QED
        BY <1>4, <2>1, <3>1
    <2>2. CASE ~(b >= GEMM_LARGE_MIN_BATCH)
      <3>1. Select(l, b).batch_block = 16
        BY <1>3, <2>2 DEF Ladder, GEMM_LADDER_SMALL_BATCH, Gemm
      <3> QED
        BY <1>1, <1>4, <3>1
    <2> QED
      BY <2>1, <2>2
  <1> QED
    BY <1>2, <1>6, <1>7, SweptRungs DEF In, Relevant

\* bench_split_k.py sweeps the split that largest_split takes: it divides the groups, and
\* unless it is one it stays below the rule's ceiling, which is below the sweep's.
LEMMA SplitIsSwept ==
    ASSUME NEW g \in Nat \ {0}, NEW tgs \in Nat \ {0}
    PROVE  LargestSplit(g, tgs) \in LegalSplits(g, tgs)
  <1> DEFINE k == LargestSplit(g, tgs)
  <1>1. k \in Nat \ {0} /\ k <= Budget(g, tgs) /\ g % k = 0
    BY SplitDivides
  <1>2. Budget(g, tgs) <= g
    <2>1. SPLIT_K_THREADGROUPS \div tgs \in Nat
      BY RuleAssumption, QuotientWithin
    <2> QED
      BY <2>1 DEF Budget, Least
  <1>3. k > 1 => k * tgs <= SPLIT_K_THREADGROUPS
    BY SplitWithinCeiling
  <1> HIDE DEF k
  <1>4. Budget(g, tgs) \in Nat
    <2>1. SPLIT_K_THREADGROUPS \div tgs \in Nat
      BY RuleAssumption, QuotientWithin
    <2> QED
      BY <2>1 DEF Budget, Least
  <1>5. k \in 1..g
    BY <1>1, <1>2, <1>4
  <1>6. k = 1 \/ tgs * k <= MAX_THREADGROUPS
    <2>1. SPLIT_K_THREADGROUPS \in Nat /\ SPLIT_K_THREADGROUPS <= MAX_THREADGROUPS
      BY RuleAssumption, CandidatesAssumption
    <2>2. k * tgs = tgs * k /\ k * tgs \in Nat
      BY <1>1, Z3
    <2> QED
      BY <1>1, <1>3, <2>1, <2>2 DEF MAX_THREADGROUPS
  <1> QED
    BY <1>1, <1>5, <1>6 DEF LegalSplits, k

\* Every sweep measures what a layer is dispatched with, once and under a name of its own,
\* and measures nothing that the kernel refuses: for every set of tensors, every batch and
\* all thresholds within the assumption of Candidates. decision_candidates never raises
\* that two candidates would record as one, and the sweep of splits has the rule's.
THEOREM ShippedIsAlwaysMeasured ==
    ASSUME HardwareSizes
    PROVE  Spec => []ShippedIsMeasured
  <1>1. ASSUME NEW l \in Layouts, NEW b \in Nat \ {0}
        PROVE  SweepsWhatShips(l, b)
    <2> DEFINE Good(options) ==
                   /\ Once(Select(l, b), options) /\ Distinct(options)
                   /\ \A c \in ToSet(options) : Accepts(l, c)
    <2>1. Good(LadderCandidates(l, b))
      <3> DEFINE keep == {c \in ToSet(LADDER) : Relevant(b, c) /\ Fits(l, c)}
      <3>1. LADDER \in Seq(ToSet(LADDER)) /\ Len(LADDER) = 13 /\ DOMAIN LADDER = 1..13
        BY SweptRungs
      <3>2. Distinct(LADDER)
        BY <3>1, SweptRungs DEF Distinct
      <3>3. ASSUME NEW c \in ToSet(LADDER)
            PROVE  c.kernel = "gemm" /\ WellFormed(c)
        <4>1. PICK i \in 1..13 : c = LADDER[i]
          BY <3>1 DEF ToSet
        <4> QED
          BY <4>1, SweptRungs, SweptRungsWellFormed
      <3>4. UsesGemm(l, b) => In(Select(l, b), LADDER) /\ Select(l, b) \in keep
        BY <3>1, ShippedIsSwept DEF In, ToSet
      <3>5. \A c \in keep : Fits(l, c)
        OBVIOUS
      <3> DEFINE T == ToSet(LADDER)
      <3>6. LADDER \in Seq(T) /\ \A c \in T : c.kernel = "gemm" /\ WellFormed(c)
        BY <3>1, <3>3
      <3>7. LadderCandidates(l, b) = Sift(LADDER, keep) \o <<SelectLut23(l, b)>>
        BY DEF LadderCandidates
      <3> HIDE DEF keep, T
      <3> QED
        BY <3>2, <3>4, <3>5, <3>6, <3>7, OptionsAre
    <2>2. Good(DecisionCandidates(l, b))
      <3> DEFINE rungs == DecisionRungs(b)
                 keep == {c \in ToSet(rungs) : Fits(l, c)}
      <3>1. PICK T : /\ rungs \in Seq(T) /\ Distinct(rungs)
                     /\ \A c \in T : c.kernel = "gemm" /\ WellFormed(c)
                     /\ \A c \in ToSet(Ladder(b)) : In(c, rungs)
        BY DecisionRungsAre
      <3> HIDE DEF rungs
      <3>2. DOMAIN rungs = 1..Len(rungs)
        BY <3>1
      <3>3. UsesGemm(l, b) => In(Select(l, b), rungs) /\ Select(l, b) \in keep
        BY <3>1, <3>2, ShippedIsSwept DEF In, ToSet
      <3>4. \A c \in keep : Fits(l, c)
        OBVIOUS
      <3>5. DecisionCandidates(l, b) = Sift(rungs, keep) \o <<SelectLut23(l, b)>>
        BY DEF DecisionCandidates, rungs
      <3> HIDE DEF keep
      <3> QED
        BY <3>1, <3>3, <3>4, <3>5, OptionsAre
    <2>3. SelectLut23(l, b).k_split
              \in LegalSplits(l.groups, Tiles(l) * CeilDiv(b, SelectLut23Tile(l, b).batch_tile))
      <3> DEFINE base == SelectLut23Tile(l, b)
                 tgs == Tiles(l) * CeilDiv(b, base.batch_tile)
                 split == LargestSplit(l.groups, tgs)
      <3>1. base \in {LUT23_SINGLE, LUT23_PAIR, LUT23_BATCHED}
        BY DEF SelectLut23Tile
      <3>2. base.batch_tile \in Nat \ {0} /\ [base EXCEPT !.k_split = split].k_split = split
        BY <3>1 DEF LUT23_SINGLE, LUT23_PAIR, LUT23_BATCHED, Lut23
      <3>3. Tiles(l) \in Nat \ {0} /\ CeilDiv(b, base.batch_tile) \in Nat \ {0}
        BY <3>2, TilesExact, CeilDivPositive
      <3>4. tgs \in Nat \ {0} /\ l.groups \in Nat \ {0}
        BY <3>3, TilesExact, Z3
      <3>5. split \in LegalSplits(l.groups, tgs)
        BY <3>4, SplitIsSwept
      <3> QED
        BY <3>2, <3>5 DEF SelectLut23
    <2> HIDE DEF Good
    <2>4. \A options \in {LadderCandidates(l, b), DecisionCandidates(l, b)} : Good(options)
      BY <2>1, <2>2
    <2> QED
      BY <2>3, <2>4 DEF SweepsWhatShips, Good
  <1>2. TypeOK => ShippedIsMeasured
    BY <1>1 DEF TypeOK, ShippedIsMeasured
  <1> QED
    BY <1>2, TypeCorrect, PTL
=============================================================================
