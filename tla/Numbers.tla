------------------------------- MODULE Numbers -------------------------------
(* Facts about numbers and lists that the proofs rest on: least elements,         *)
(* quotients and remainders, what the folds of the community modules compute, and *)
(* what is kept of a list. A fold is a recursive function on the subsets of what  *)
(* is folded: that it exists, and what it returns, is proved by the least set at  *)
(* which it would go wrong.                                                       *)
EXTENDS Integers, Lists, FiniteSetsExt, Functions, FiniteSetTheorems,
        SequenceTheorems, WellFoundedInduction, TLAPS

\* A product of numbers is a number, and grows with its factors.
LEMMA ProductMonotone ==
    ASSUME NEW a \in Nat, NEW b \in Nat, NEW c \in Nat, a <= b
    PROVE  a * c <= b * c /\ a * c \in Nat /\ b * c \in Nat
  BY Z3

\* Quotient and remainder make up what was divided.
LEMMA DivMod ==
    ASSUME NEW a \in Nat, NEW d \in Nat \ {0}
    PROVE  /\ a \div d \in Nat /\ a % d \in 0..d - 1
           /\ a = (a \div d) * d + (a % d)
  BY Z3

\* One more multiple is out of the reach of a remainder.
LEMMA NextMultiple ==
    ASSUME NEW p \in Nat, NEW q \in Nat, p < q, NEW d \in Nat \ {0}
    PROVE  p * d + d <= q * d
  <1>1. (p + 1) * d <= q * d
    BY ProductMonotone
  <1>2. (p + 1) * d = p * d + d
    BY Z3
  <1> QED
    BY <1>1, <1>2

\* They are the only ones.
LEMMA DivModUnique ==
    ASSUME NEW d \in Nat \ {0}, NEW q \in Nat, NEW r \in 0..d - 1
    PROVE  /\ q * d + r \in Nat
           /\ (q * d + r) \div d = q /\ (q * d + r) % d = r
  <1> DEFINE a == q * d + r
             p == a \div d
             s == a % d
  <1>1. a \in Nat /\ q * d \in Nat /\ r \in Nat
    BY Z3
  <1> HIDE DEF a
  <1>2. p \in Nat /\ s \in 0..d - 1 /\ a = p * d + s
    BY <1>1, DivMod
  <1> HIDE DEF p, s
  <1>3. p * d \in Nat
    BY <1>2, Z3
  <1>4. ~(p < q)
    <2>1. p < q => p * d + d <= q * d
      BY <1>2, NextMultiple
    <2> QED
      BY <1>1, <1>2, <1>3, <2>1 DEF a
  <1>5. ~(q < p)
    <2>1. q < p => q * d + d <= p * d
      BY <1>2, NextMultiple
    <2> QED
      BY <1>1, <1>2, <1>3, <2>1 DEF a
  <1>6. p = q
    BY <1>2, <1>4, <1>5
  <1>7. s = r
    BY <1>1, <1>2, <1>3, <1>6 DEF a
  <1> QED
    BY <1>1, <1>6, <1>7 DEF a, p, s

\* What lies below a multiple has a smaller quotient.
LEMMA QuotientBelow ==
    ASSUME NEW a \in Nat, NEW d \in Nat \ {0}, NEW n \in Nat, a < n * d
    PROVE  a \div d \in 0..n - 1
  <1>1. a \div d \in Nat /\ a % d \in 0..d - 1 /\ a = (a \div d) * d + (a % d)
    BY DivMod
  <1>2. ~(n <= a \div d)
    <2>1. n <= a \div d => n * d <= (a \div d) * d
      BY <1>1, ProductMonotone
    <2>2. (a \div d) * d \in Nat /\ n * d \in Nat
      BY <1>1, Z3
    <2> QED
      BY <1>1, <2>1, <2>2
  <1> QED
    BY <1>1, <1>2

\* The k-th block of d is below n blocks, if k is.
LEMMA BlockBelow ==
    ASSUME NEW d \in Nat \ {0}, NEW n \in Nat, NEW k \in 0..n - 1, NEW r \in 0..d - 1
    PROVE  k * d + r \in 0..n * d - 1
  <1>1. k \in Nat /\ k < n /\ k * d \in Nat /\ n * d \in Nat
    BY Z3
  <1>2. k * d + d <= n * d
    BY <1>1, NextMultiple
  <1> QED
    BY <1>1, <1>2

\* What divides evenly is its quotient times the divisor.
LEMMA Divides ==
    ASSUME NEW a \in Nat, NEW d \in Nat \ {0}, a % d = 0
    PROVE  a \div d \in Nat /\ a = (a \div d) * d /\ (a > 0 => a \div d > 0)
  <1>1. a \div d \in Nat /\ a = (a \div d) * d + (a % d)
    BY DivMod
  <1>2. (a \div d) * d \in Nat /\ (a \div d = 0 => (a \div d) * d = 0)
    BY <1>1, Z3
  <1> QED
    BY <1>1, <1>2

\* Rounded up, the blocks of a division cover what is divided, and none starts behind it.
LEMMA CeilingCovers ==
    ASSUME NEW a \in Nat \ {0}, NEW d \in Nat \ {0}
    PROVE  /\ (a + d - 1) \div d \in Nat \ {0}
           /\ a <= ((a + d - 1) \div d) * d
           /\ ((a + d - 1) \div d) * d < a + d
  <1> DEFINE n == a + d - 1
             q == n \div d
             r == n % d
  <1>1. n \in Nat
    OBVIOUS
  <1>2. q \in Nat /\ r \in 0..d - 1 /\ n = q * d + r
    BY <1>1, DivMod
  <1> HIDE DEF q, r
  <1>3. q * d \in Nat /\ (q = 0 => q * d = 0)
    BY <1>2, Z3
  <1> QED
    BY <1>2, <1>3 DEF q

\* A full block of a division that comes out even ends within what is divided.
LEMMA FullBlocks ==
    ASSUME NEW a \in Nat \ {0}, NEW d \in Nat \ {0}, a % d = 0,
           NEW k \in 0..((a + d - 1) \div d) - 1, NEW r \in 0..d - 1
    PROVE  k * d + r < a
  <1> DEFINE q == a \div d
  <1>1. q \in Nat /\ a = q * d
    BY Divides
  <1> HIDE DEF q
  <1>2. (q * d + (d - 1)) \div d = q
    <2>1. d - 1 \in 0..d - 1
      OBVIOUS
    <2> QED
      BY <1>1, <2>1, DivModUnique
  <1>3. a + d - 1 = q * d + (d - 1)
    BY <1>1
  <1>4. k \in 0..q - 1
    BY <1>2, <1>3
  <1>5. k * d + r \in 0..q * d - 1
    BY <1>1, <1>4, BlockBelow
  <1> QED
    BY <1>1, <1>5

\* No block starts behind what is divided, and every element is in a block.
LEMMA BlocksStart ==
    ASSUME NEW a \in Nat \ {0}, NEW d \in Nat \ {0}
    PROVE  /\ \A k \in 0..((a + d - 1) \div d) - 1 : k * d \in Nat /\ k * d < a
           /\ \A e \in 0..a - 1 : e \div d \in 0..((a + d - 1) \div d) - 1
  <1> DEFINE n == (a + d - 1) \div d
  <1>1. n \in Nat \ {0} /\ a <= n * d /\ n * d < a + d
    BY CeilingCovers
  <1> HIDE DEF n
  <1>2. n * d \in Nat
    BY <1>1, Z3
  <1>3. ASSUME NEW k \in 0..n - 1
        PROVE  k * d \in Nat /\ k * d < a
    <2>1. k \in Nat /\ k < n
      BY <1>1
    <2>2. k * d \in Nat
      BY <2>1, Z3
    <2>3. k * d + d <= n * d
      BY <1>1, <2>1, NextMultiple
    <2> QED
      BY <1>1, <1>2, <2>2, <2>3
  <1>4. ASSUME NEW e \in 0..a - 1
        PROVE  e \div d \in 0..n - 1
    <2>1. e \in Nat /\ e < n * d
      BY <1>1, <1>2
    <2> QED
      BY <1>1, <2>1, QuotientBelow
  <1> QED
    BY <1>3, <1>4 DEF n

----------------------------------------------------------------------------
(* Blocks of d elements, each of p parts of q elements. The provers find the     *)
(* numbers that such a lemma is about where what it says has a name.             *)

\* An element of d is p parts of q.
Makes(p, q, d) == d = p * q

\* A number is its block y, its part i and its place j.
NestedAt(p, q, d, y, i, j) ==
    /\ i * q + j \in 0..d - 1 /\ y * d + (i * q + j) \in Nat
    /\ (y * d + (i * q + j)) \div d = y /\ (y * d + (i * q + j)) % d = i * q + j
    /\ (i * q + j) \div q = i /\ (i * q + j) % q = j

\* Every number splits in one way into its block, its part and its place.
SplitAt(p, q, d, a) ==
    /\ a \div d \in Nat /\ a % d \in 0..d - 1 /\ a = (a \div d) * d + (a % d)
    /\ (a % d) \div q \in 0..p - 1 /\ (a % d) % q \in 0..q - 1
    /\ a % d = ((a % d) \div q) * q + ((a % d) % q)

\* Each of the p parts of b blocks has b times q elements.
PartsOf(p, q, b, a) == b * q \in Nat /\ a \div p = b * q /\ a = p * (b * q)

\* Put together, block, part and place are found again.
LEMMA Nested ==
    ASSUME NEW p \in Nat \ {0}, NEW q \in Nat \ {0}, NEW d \in Nat \ {0}, Makes(p, q, d),
           NEW y \in Nat, NEW i \in 0..p - 1, NEW j \in 0..q - 1
    PROVE  NestedAt(p, q, d, y, i, j)
  <1> DEFINE r == i * q + j
  <1>1. r \in 0..d - 1
    BY BlockBelow DEF Makes
  <1>2. r \div q = i /\ r % q = j
    BY DivModUnique, SMTT(30)
  <1> HIDE DEF r
  <1>3. y * d + r \in Nat /\ (y * d + r) \div d = y /\ (y * d + r) % d = r
    BY <1>1, DivModUnique
  <1> QED
    BY <1>1, <1>2, <1>3 DEF r, NestedAt

\* Every number has its block, its part and its place.
LEMMA NestedSplit ==
    ASSUME NEW p \in Nat \ {0}, NEW q \in Nat \ {0}, NEW d \in Nat \ {0}, Makes(p, q, d),
           NEW a \in Nat
    PROVE  SplitAt(p, q, d, a)
  <1> DEFINE r == a % d
  <1>1. a \div d \in Nat /\ r \in 0..d - 1 /\ a = (a \div d) * d + r
    BY DivMod
  <1> HIDE DEF r
  <1>2. r \in Nat /\ r < p * q
    BY <1>1 DEF Makes
  <1>3. r \div q \in 0..p - 1 /\ r % q \in 0..q - 1 /\ r = (r \div q) * q + (r % q)
    BY <1>2, QuotientBelow, DivMod
  <1> QED
    BY <1>1, <1>3 DEF r, SplitAt

\* Cut into p parts, b blocks have b times q elements in each.
LEMMA PartOfBlock ==
    ASSUME NEW p \in Nat \ {0}, NEW q \in Nat \ {0}, NEW d \in Nat \ {0}, Makes(p, q, d),
           NEW b \in Nat, NEW a \in Nat, a = b * d
    PROVE  PartsOf(p, q, b, a)
  <1> DEFINE e == b * q
  <1>1. b * d = e * p + 0 /\ e * p = p * e /\ e \in Nat
    BY Z3 DEF Makes
  <1> HIDE DEF e
  <1>2. 0 \in 0..p - 1
    OBVIOUS
  <1>3. (e * p + 0) \div p = e
    BY <1>1, <1>2, DivModUnique
  <1>4. a = e * p + 0 /\ a = p * e /\ a \div p = e
    BY <1>1, <1>3
  <1> QED
    BY <1>1, <1>4 DEF e, PartsOf

\* Where tiles of T are cut into parts of R, or where there is one tile only, what is
\* in a part is in the tile that the part begins in.
LEMMA PartInTile ==
    ASSUME NEW T \in Nat \ {0}, NEW R \in Nat \ {0}, NEW k \in Nat \ {0},
           k > 1 => T % R = 0,
           NEW x \in Nat, NEW r \in 0..R - 1, x * R + r < k * T
    PROVE  (x * R + r) \div T = (x * R) \div T
  <1>1. PICK n \in Nat : n = x * R
    BY Z3
  <1>2. CASE k = 1
    <2>1. n + r < 1 * T /\ n < 1 * T /\ n + r \in Nat
      BY <1>1, <1>2
    <2>2. n \div T \in 0..1 - 1
      BY <2>1, QuotientBelow
    <2>3. (n + r) \div T \in 0..1 - 1
      BY <2>1, QuotientBelow
    <2> QED
      BY <1>1, <2>2, <2>3
  <1>3. CASE k > 1
    <2>1. PICK b \in Nat \ {0} : T = b * R
      <3>1. T % R = 0 /\ T > 0
        BY <1>3
      <3>2. PICK b \in Nat : b = T \div R
        BY DivMod
      <3>3. T = b * R /\ b > 0
        BY <3>1, <3>2, Divides
      <3> QED
        BY <3>3
    <2> DEFINE InPart(e) == (x * R + e) \div T = x \div b
    <2>2. ASSUME NEW e \in 0..R - 1
          PROVE  InPart(e)
      <3>1. PICK y \in Nat, i \in 0..b - 1 : y = x \div b /\ x = y * b + i
        BY DivMod
      <3>2. Makes(b, R, T)
        BY <2>1 DEF Makes
      <3>3. NestedAt(b, R, T, y, i, e)
        BY <3>2, Nested, Zenon
      <3>4. x * R = y * T + i * R
        BY <2>1, <3>1, Z3
      <3>5. x * R + e = y * T + (i * R + e)
        <4>1. y * T \in Nat /\ i * R \in Nat /\ e \in Nat
          BY Z3
        <4> QED
          BY <3>4, <4>1
      <3> QED
        BY <3>1, <3>3, <3>5 DEF NestedAt
    <2> HIDE DEF InPart
    <2>3. 0 \in 0..R - 1
      OBVIOUS
    <2>4. InPart(r) /\ InPart(0)
      BY <2>2, <2>3
    <2>5. x * R + 0 = x * R
      BY <1>1
    <2> QED
      BY <2>4, <2>5 DEF InPart
  <1> QED
    BY <1>2, <1>3

----------------------------------------------------------------------------
\* A set of numbers that is not empty has a least one.
LEMMA LeastNumber ==
    ASSUME NEW P, P \subseteq Nat, P # {}
    PROVE  \E n \in P : \A m \in P : n <= m
  <1>1. PICK n \in P : \A m \in P : ~(<<m, n>> \in OpToRel(<, Nat))
    BY NatLessThanWellFounded, WFMin
  <1>2. ASSUME NEW m \in P
        PROVE  n <= m
    <2>1. m \in Nat /\ n \in Nat
      OBVIOUS
    <2>2. m < n => <<m, n>> \in OpToRel(<, Nat)
      BY <2>1, Zenon DEF OpToRel
    <2>3. ~(m < n)
      BY <1>1, <2>2
    <2> QED
      BY <2>1, <2>3
  <1> QED
    BY <1>2

\* What holds of a number and of the next one after each that it holds of, holds from
\* there on. (Induction, for a set of numbers.)
LEMMA UpTo ==
    ASSUME NEW a \in Nat, NEW n \in Nat, NEW P, a \in P,
           \A k \in a..n - 1 : k \in P => k + 1 \in P
    PROVE  \A k \in a..n : k \in P
  <1> DEFINE Fails == {k \in a..n : k \notin P}
  <1> SUFFICES ASSUME Fails # {} PROVE FALSE
    OBVIOUS
  <1>1. Fails \subseteq Nat
    OBVIOUS
  <1> HIDE DEF Fails
  <1>2. PICK k \in Fails : \A j \in Fails : k <= j
    BY <1>1, LeastNumber
  <1>3. k \in a..n /\ k \notin P /\ k # a
    BY <1>2 DEF Fails
  <1>4. k - 1 \in a..n - 1 /\ k - 1 \notin P
    BY <1>3
  <1>5. k - 1 \in Fails
    BY <1>4 DEF Fails
  <1> QED
    BY <1>2, <1>3, <1>5

----------------------------------------------------------------------------
\* iter folds the subsets of S: from base, one element after the other is taken out
\* with `pick` and taken in with `op`.
FoldsUp(iter, S, base, pick, op) ==
    \A s \in SUBSET S :
        iter[s] = IF s = {} THEN base ELSE op[<<pick[s], iter[s \ {pick[s]}]>>]

\* The same for the subsets of at most n elements.
FoldsTo(iter, S, base, pick, op, n) ==
    \A s \in SUBSET S :
        Cardinality(s) <= n =>
            iter[s] = IF s = {} THEN base ELSE op[<<pick[s], iter[s \ {pick[s]}]>>]

\* pick takes an element of every subset that has one.
Picks(pick, S) == \A s \in SUBSET S : s # {} => pick[s] \in s

\* A set without one of its elements is one smaller.
LEMMA Smaller ==
    ASSUME NEW S, IsFiniteSet(S), NEW s \in SUBSET S, NEW x \in s
    PROVE  /\ s \ {x} \in SUBSET S
           /\ Cardinality(s) \in Nat /\ Cardinality(s) > 0
           /\ Cardinality(s \ {x}) = Cardinality(s) - 1
  <1>1. IsFiniteSet(s)
    BY FS_Subset
  <1>2. Cardinality(s) \in Nat
    BY <1>1, FS_CardinalityType
  <1>3. Cardinality(s \ {x}) = Cardinality(s) - 1
    BY <1>1, FS_RemoveElement
  <1>4. Cardinality(s) # 0
    BY <1>1, FS_EmptySet
  <1> QED
    BY <1>2, <1>3, <1>4

\* A fold over the subsets of a finite set exists: if one up to some size did not, there would be
\* a least size, and the fold of the size below extends to it.
LEMMA FoldExists ==
    ASSUME NEW S, IsFiniteSet(S), NEW V, NEW base \in V, NEW pick, Picks(pick, S),
           NEW op \in [S \X V -> V]
    PROVE  \E iter \in [SUBSET S -> V] : FoldsUp(iter, S, base, pick, op)
  <1> DEFINE Fails == {n \in Nat : ~\E iter \in [SUBSET S -> V] : FoldsTo(iter, S, base, pick, op, n)}
  <1>0. \A s \in SUBSET S : IsFiniteSet(s) /\ Cardinality(s) \in Nat /\ Cardinality(s) <= Cardinality(S)
    BY FS_Subset, FS_CardinalityType
  <1>a. \A s \in SUBSET S : Cardinality(s) = 0 => s = {}
    BY <1>0, FS_EmptySet
  <1>1. 0 \notin Fails
    <2> DEFINE iter == [s \in SUBSET S |-> base]
    <2>1. iter \in [SUBSET S -> V]
      OBVIOUS
    <2>2. FoldsTo(iter, S, base, pick, op, 0)
      <3>1. ASSUME NEW s \in SUBSET S, Cardinality(s) <= 0 PROVE s = {}
        BY <1>0, <1>a, <3>1
      <3> QED
        BY <3>1 DEF FoldsTo
    <2> QED
      BY <2>1, <2>2
  <1>2. ASSUME NEW n \in Nat, n \notin Fails
        PROVE  n + 1 \notin Fails
    <2>1. PICK iter \in [SUBSET S -> V] : FoldsTo(iter, S, base, pick, op, n)
      BY <1>2
    <2> DEFINE more == [s \in SUBSET S |->
                  IF Cardinality(s) = n + 1 THEN op[<<pick[s], iter[s \ {pick[s]}]>>] ELSE iter[s]]
    <2>2. \A s \in SUBSET S : Cardinality(s) = n + 1 => s # {}
      <3>1. Cardinality({}) # n + 1
        BY FS_EmptySet
      <3> QED
        BY <3>1
    <2>3. \A s \in SUBSET S : s # {} => pick[s] \in s /\ pick[s] \in S
      BY DEF Picks
    <2>4. \A s \in SUBSET S :
              s # {} => /\ s \ {pick[s]} \in SUBSET S
                        /\ Cardinality(s \ {pick[s]}) = Cardinality(s) - 1
      BY <2>3, Smaller
    <2>5. more \in [SUBSET S -> V]
      <3>1. ASSUME NEW s \in SUBSET S, Cardinality(s) = n + 1
            PROVE op[<<pick[s], iter[s \ {pick[s]}]>>] \in V
        <4>1. pick[s] \in S /\ iter[s \ {pick[s]}] \in V
          BY <2>2, <2>3, <2>4, <3>1
        <4> QED
          BY <4>1
      <3> QED
        BY <3>1
    <2>6. ASSUME NEW s \in SUBSET S, Cardinality(s) <= n + 1
          PROVE more[s] = IF s = {} THEN base ELSE op[<<pick[s], more[s \ {pick[s]}]>>]
      <3>1. CASE s = {}
        <4>1. Cardinality(s) = 0
          BY <3>1, FS_EmptySet
        <4>2. more[s] = iter[s] /\ iter[s] = base
          BY <4>1, <2>1, <3>1 DEF FoldsTo
        <4> QED
          BY <4>2, <3>1
      <3>2. CASE s # {}
        <4>0. Cardinality(s) \in Nat
          BY <1>0
        <4>1. s \ {pick[s]} \in SUBSET S /\ Cardinality(s \ {pick[s]}) = Cardinality(s) - 1
          BY <3>2, <2>4
        <4>2. more[s \ {pick[s]}] = iter[s \ {pick[s]}]
          BY <4>0, <4>1, <2>6
        <4>3. more[s] = op[<<pick[s], iter[s \ {pick[s]}]>>]
          BY <4>0, <2>1, <2>6, <3>2 DEF FoldsTo
        <4> QED
          BY <3>2, <4>2, <4>3
      <3> QED
        BY <3>1, <3>2
    <2> HIDE DEF more
    <2> QED
      BY <2>5, <2>6 DEF FoldsTo
  <1>3. Fails = {}
    <2> SUFFICES ASSUME Fails # {} PROVE FALSE
      OBVIOUS
    <2>0. Fails \subseteq Nat
      OBVIOUS
    <2> HIDE DEF Fails
    <2>1. PICK n \in Fails : \A m \in Fails : n <= m
      BY <2>0, LeastNumber
    <2>2. n # 0 /\ n \in Nat
      BY <1>1, <2>0
    <2>3. n - 1 \in Nat /\ n - 1 \notin Fails
      BY <2>1, <2>2
    <2>4. (n - 1) + 1 \notin Fails
      BY <1>2, <2>3
    <2> QED
      BY <2>2, <2>4
  <1>4. Cardinality(S) \in Nat
    BY FS_CardinalityType
  <1>5. PICK iter \in [SUBSET S -> V] : FoldsTo(iter, S, base, pick, op, Cardinality(S))
    BY <1>3, <1>4
  <1>6. FoldsUp(iter, S, base, pick, op)
    BY <1>0, <1>5 DEF FoldsTo, FoldsUp
  <1> QED
    BY <1>5, <1>6

\* Of numbers up to n there is a largest.
LEMMA MaxOf ==
    ASSUME NEW n \in Nat, NEW s \in SUBSET (1..n), s # {}
    PROVE  Max(s) \in s /\ \A y \in s : y <= Max(s)
  <1> DEFINE P == {n - x : x \in s}
  <1>1. P \subseteq Nat /\ P # {}
    <2>1. PICK x \in s : TRUE
      OBVIOUS
    <2>2. n - x \in P
      BY <2>1
    <2>3. \A y \in s : n - y \in Nat
      OBVIOUS
    <2> QED
      BY <2>2, <2>3
  <1> HIDE DEF P
  <1>2. PICK d \in P : \A m \in P : d <= m
    BY <1>1, LeastNumber
  <1>3. PICK x \in s : d = n - x
    BY <1>2 DEF P
  <1>4. \A y \in s : n - y \in P
    BY DEF P
  <1>5. \A y \in s : x >= y
    BY <1>2, <1>3, <1>4
  <1> QED
    BY <1>3, <1>5 DEF Max

\* From 1 to k, it is k.
LEMMA MaxUpTo ==
    ASSUME NEW n \in Nat, NEW k \in 1..n
    PROVE  /\ 1..k \in SUBSET (1..n) /\ 1..k # {}
           /\ Max(1..k) = k /\ (1..k) \ {Max(1..k)} = 1..k - 1
  <1>1. 1..k \in SUBSET (1..n) /\ k \in 1..k
    OBVIOUS
  <1>2. Max(1..k) \in 1..k /\ k <= Max(1..k)
    BY <1>1, MaxOf
  <1>3. Max(1..k) = k
    BY <1>2
  <1>4. (1..k) \ {k} = 1..k - 1
    OBVIOUS
  <1> QED
    BY <1>1, <1>3, <1>4

\* A value for every number up to n, each computed from the one before.
Steps(f, n, first, op) ==
    f[0] = first /\ \A k \in 1..n : f[k] = op[<<k, f[k - 1]>>]

\* Such a sequence of values exists, as a fold over the numbers that takes the largest out first.
LEMMA StepsExist ==
    ASSUME NEW n \in Nat, NEW V, NEW first \in V, NEW op \in [(1..n) \X V -> V]
    PROVE  \E f \in [0..n -> V] : Steps(f, n, first, op)
  <1> DEFINE S == 1..n
             pick == [s \in SUBSET S |-> Max(s)]
  <1>1. Picks(pick, S) /\ IsFiniteSet(S)
    <2>1. ASSUME NEW s \in SUBSET S, s # {}
          PROVE  pick[s] \in s
      BY <2>1, MaxOf
    <2>2. IsFiniteSet(S)
      BY FS_Interval
    <2> HIDE DEF pick
    <2> QED
      BY <2>1, <2>2 DEF Picks
  <1>2. PICK iter \in [SUBSET S -> V] : FoldsUp(iter, S, first, pick, op)
    BY <1>1, FoldExists
  <1> DEFINE f == [k \in 0..n |-> iter[1..k]]
  <1>3. f \in [0..n -> V]
    <2>1. \A k \in 0..n : 1..k \in SUBSET S
      OBVIOUS
    <2> QED
      BY <2>1
  <1>4. f[0] = first
    <2>1. 1..0 = {} /\ {} \in SUBSET S
      OBVIOUS
    <2>2. iter[{}] = first
      BY <1>2, <2>1 DEF FoldsUp
    <2> QED
      BY <2>1, <2>2
  <1>5. ASSUME NEW k \in 1..n
        PROVE  f[k] = op[<<k, f[k - 1]>>]
    <2>1. pick[1..k] = k /\ 1..k \in SUBSET S /\ 1..k # {} /\ (1..k) \ {k} = 1..k - 1
      BY MaxUpTo
    <2> HIDE DEF pick
    <2>2. iter[1..k] = op[<<k, iter[1..k - 1]>>]
      BY <1>2, <2>1 DEF FoldsUp
    <2>3. k \in 0..n /\ k - 1 \in 0..n
      OBVIOUS
    <2> QED
      BY <2>2, <2>3
  <1> HIDE DEF f
  <1> QED
    BY <1>3, <1>4, <1>5 DEF Steps

----------------------------------------------------------------------------
\* The element that the community modules fold first.
Some(s) == CHOOSE x \in s : TRUE

\* iter adds up f over every subset of S.
AddsUp(iter, f, S) ==
    iter = [s \in SUBSET S |-> IF s = {} THEN 0 ELSE f[Some(s)] + iter[s \ {Some(s)}]]

\* The function by which the community modules define a sum.
Total(f, S) == CHOOSE iter : AddsUp(iter, f, S)

\* What a sum is, by its definition.
LEMMA SumDef == \A f, S : SumFunctionOnSet(f, S) = Total(f, S)[S]
  BY SMT DEF SumFunctionOnSet, FoldFunctionOnSet, MapThenFoldSet, AddsUp, Some, Total

\* A set that is not empty has the element chosen.
LEMMA SomeOf == \A s : s # {} => Some(s) \in s
  BY Zenon DEF Some

\* That function exists, if the set is finite and the values are numbers.
LEMMA TotalAddsUp ==
    ASSUME NEW S, IsFiniteSet(S), NEW f, \A x \in S : f[x] \in Nat
    PROVE  /\ AddsUp(Total(f, S), f, S)
           /\ Total(f, S) \in [SUBSET S -> Nat]
  <1> DEFINE pick == [s \in SUBSET S |-> Some(s)]
             op == [p \in S \X Nat |-> f[p[1]] + p[2]]
  <1>1. Picks(pick, S)
    BY SomeOf DEF Picks
  <1>2. op \in [S \X Nat -> Nat]
    OBVIOUS
  <1>3. 0 \in Nat
    OBVIOUS
  <1> HIDE DEF pick, op
  <1>4. PICK iter \in [SUBSET S -> Nat] : FoldsUp(iter, S, 0, pick, op)
    BY <1>1, <1>2, <1>3, FoldExists
  <1>5. ASSUME NEW s \in SUBSET S
        PROVE  iter[s] = IF s = {} THEN 0 ELSE f[Some(s)] + iter[s \ {Some(s)}]
    <2>1. CASE s = {}
      BY <1>4, <2>1 DEF FoldsUp
    <2>2. CASE s # {}
      <3>1. pick[s] = Some(s) /\ Some(s) \in S
        BY <2>2, SomeOf DEF pick
      <3>2. iter[s \ {Some(s)}] \in Nat
        OBVIOUS
      <3>3. op[<<Some(s), iter[s \ {Some(s)}]>>] = f[Some(s)] + iter[s \ {Some(s)}]
        BY <3>1, <3>2 DEF op
      <3> QED
        BY <1>4, <2>2, <3>1, <3>3 DEF FoldsUp
    <2> QED
      BY <2>1, <2>2
  <1>6. AddsUp(iter, f, S)
    BY <1>5 DEF AddsUp
  <1>7. AddsUp(Total(f, S), f, S)
    BY <1>6, Zenon DEF Total
  <1>8. ASSUME NEW it, AddsUp(it, f, S)
        PROVE  it \in [SUBSET S -> Nat]
    <2> DEFINE Off == {Cardinality(s) : s \in {u \in SUBSET S : it[u] \notin Nat}}
    <2>0. \A s \in SUBSET S : IsFiniteSet(s) /\ Cardinality(s) \in Nat
      BY FS_Subset, FS_CardinalityType
    <2>1. Off \subseteq Nat
      BY <2>0
    <2>2. Off = {}
      <3> SUFFICES ASSUME Off # {} PROVE FALSE
        OBVIOUS
      <3>1. PICK n \in Off : \A m \in Off : n <= m
        BY <2>1, LeastNumber
      <3>2. PICK s \in SUBSET S : it[s] \notin Nat /\ n = Cardinality(s)
        OBVIOUS
      <3>3. it[s] = IF s = {} THEN 0 ELSE f[Some(s)] + it[s \ {Some(s)}]
        BY <1>8 DEF AddsUp
      <3>4. s # {} /\ Some(s) \in s
        BY <3>2, <3>3, SomeOf
      <3>5. /\ s \ {Some(s)} \in SUBSET S /\ Cardinality(s) \in Nat
            /\ Cardinality(s \ {Some(s)}) = Cardinality(s) - 1
        BY <3>4, Smaller
      <3>6. it[s \ {Some(s)}] \in Nat
        <4> SUFFICES ASSUME it[s \ {Some(s)}] \notin Nat PROVE FALSE
          OBVIOUS
        <4>1. Cardinality(s \ {Some(s)}) \in Off
          BY <3>5
        <4> HIDE DEF Off
        <4> QED
          BY <3>1, <3>2, <3>5, <4>1
      <3>7. f[Some(s)] \in Nat
        BY <3>4
      <3> QED
        BY <3>2, <3>3, <3>4, <3>6, <3>7
    <2>3. \A s \in SUBSET S : it[s] \in Nat
      BY <2>2
    <2> QED
      BY <1>8, <2>3 DEF AddsUp
  <1> QED
    BY <1>7, <1>8

\* Two functions are the same on a set.
Agree(f, g, S) == \A x \in S : f[x] = g[x]

\* Two such functions over a set and a part of it, for values that agree on the part.
Alike(i, f, S, j, g, T) ==
    IsFiniteSet(S) /\ T \subseteq S /\ AddsUp(i, f, S) /\ AddsUp(j, g, T) /\ Agree(f, g, T)

\* The sum of a subset depends on its elements only, not on the set that it is part of.
LEMMA SumOfPart ==
    ASSUME NEW i, NEW f, NEW S, NEW j, NEW g, NEW T, Alike(i, f, S, j, g, T)
    PROVE  Agree(i, j, SUBSET T)
  <1> USE DEF Alike, Agree
  <1> DEFINE Off == {Cardinality(s) : s \in {u \in SUBSET T : i[u] # j[u]}}
  <1>0. IsFiniteSet(T)
    BY FS_Subset
  <1>1. \A s \in SUBSET T : IsFiniteSet(s) /\ Cardinality(s) \in Nat
    BY <1>0, FS_Subset, FS_CardinalityType
  <1>2. Off \subseteq Nat
    BY <1>1
  <1>3. Off = {}
    <2> SUFFICES ASSUME Off # {} PROVE FALSE
      OBVIOUS
    <2>1. PICK n \in Off : \A m \in Off : n <= m
      BY <1>2, LeastNumber
    <2>2. PICK s \in SUBSET T : i[s] # j[s] /\ n = Cardinality(s)
      OBVIOUS
    <2>3. /\ i[s] = IF s = {} THEN 0 ELSE f[Some(s)] + i[s \ {Some(s)}]
          /\ j[s] = IF s = {} THEN 0 ELSE g[Some(s)] + j[s \ {Some(s)}]
      BY DEF AddsUp
    <2>4. s # {} /\ Some(s) \in s /\ f[Some(s)] = g[Some(s)]
      BY <2>2, <2>3, SomeOf
    <2>5. /\ s \ {Some(s)} \in SUBSET T /\ Cardinality(s) \in Nat
          /\ Cardinality(s \ {Some(s)}) = Cardinality(s) - 1
      BY <1>0, <2>4, Smaller
    <2>6. i[s \ {Some(s)}] # j[s \ {Some(s)}]
      BY <2>2, <2>3, <2>4
    <2>7. Cardinality(s \ {Some(s)}) \in Off
      BY <2>5, <2>6
    <2> HIDE DEF Off
    <2> QED
      BY <2>1, <2>2, <2>5, <2>7
  <1> QED
    BY <1>3

\* Any element may be taken out first.
Adder(i, f, S) ==
    /\ IsFiniteSet(S) /\ \A x \in S : f[x] \in Nat
    /\ i \in [SUBSET S -> Nat] /\ AddsUp(i, f, S)

\* Whichever element is taken out first, the sum is the same.
AnyOrder(i, f, S) == \A s \in SUBSET S : \A x \in s : i[s] = f[x] + i[s \ {x}]

\* A sum does not depend on the order: by the least number of elements for which it would.
LEMMA AnyFirst ==
    ASSUME NEW i, NEW f, NEW S, Adder(i, f, S)
    PROVE  AnyOrder(i, f, S)
  <1>hyp. /\ IsFiniteSet(S) /\ \A x \in S : f[x] \in Nat
        /\ i \in [SUBSET S -> Nat] /\ AddsUp(i, f, S)
    BY DEF Adder
  <1> DEFINE Off == {Cardinality(s) : s \in {u \in SUBSET S : \E x \in u : i[u] # f[x] + i[u \ {x}]}}
  <1>1. \A s \in SUBSET S : IsFiniteSet(s) /\ Cardinality(s) \in Nat
    BY <1>hyp, FS_Subset, FS_CardinalityType
  <1>2. Off \subseteq Nat
    BY <1>1
  <1>3. Off = {}
    <2> SUFFICES ASSUME Off # {} PROVE FALSE
      OBVIOUS
    <2>1. PICK n \in Off : \A m \in Off : n <= m
      BY <1>2, LeastNumber
    <2>2. PICK s \in SUBSET S : n = Cardinality(s) /\ \E x \in s : i[s] # f[x] + i[s \ {x}]
      OBVIOUS
    <2>3. PICK x \in s : i[s] # f[x] + i[s \ {x}]
      BY <2>2
    <2> DEFINE y == Some(s)
    <2>4. y \in s
      BY SomeOf
    <2>5. i[s] = f[y] + i[s \ {y}]
      BY <1>hyp DEF AddsUp
    <2> HIDE DEF y
    <2>6. x # y
      BY <2>3, <2>5
    <2>7. /\ \A z \in s : /\ s \ {z} \in SUBSET S /\ Cardinality(s \ {z}) < n
      <3> SUFFICES ASSUME NEW z \in s PROVE s \ {z} \in SUBSET S /\ Cardinality(s \ {z}) < n
        OBVIOUS
      <3> QED
        BY <1>hyp, <2>2, Smaller
    <2>8. ASSUME NEW u \in SUBSET S, Cardinality(u) < n
          PROVE \A z \in u : i[u] = f[z] + i[u \ {z}]
      <3> SUFFICES ASSUME NEW z \in u, i[u] # f[z] + i[u \ {z}] PROVE FALSE
        OBVIOUS
      <3>1. Cardinality(u) \in Off /\ Cardinality(u) \in Nat /\ n \in Nat
        BY <1>1, <1>2
      <3> HIDE DEF Off
      <3> QED
        BY <2>1, <2>8, <3>1
    <2>9. i[s \ {y}] = f[x] + i[(s \ {y}) \ {x}]
      <3>1. x \in s \ {y}
        BY <2>6
      <3> QED
        BY <2>4, <2>7, <2>8, <3>1
    <2>10. i[s \ {x}] = f[y] + i[(s \ {x}) \ {y}]
      <3>1. y \in s \ {x}
        BY <2>4, <2>6
      <3> QED
        BY <2>7, <2>8, <3>1
    <2>11. (s \ {x}) \ {y} = (s \ {y}) \ {x}
      OBVIOUS
    <2>12. i[(s \ {y}) \ {x}] \in Nat /\ f[x] \in Nat /\ f[y] \in Nat
      BY <1>hyp, <2>4
    <2>13. i[s \ {x}] = f[y] + i[(s \ {y}) \ {x}]
      BY <2>10, <2>11
    <2> DEFINE a == i[(s \ {y}) \ {x}]
    <2>14. /\ i[s] = f[y] + (f[x] + a) /\ i[s \ {x}] = f[y] + a /\ i[s] # f[x] + i[s \ {x}]
           /\ a \in Nat /\ f[x] \in Nat /\ f[y] \in Nat
      BY <2>3, <2>5, <2>9, <2>12, <2>13
    <2> HIDE DEF a
    <2> QED
      BY <2>14
  <1> QED
    BY <1>3 DEF AnyOrder

\* What sums are taken of.
Summable(f, S) == IsFiniteSet(S) /\ \A x \in S : f[x] \in Nat

\* A sum depends on the values only.
LEMMA SumCongruence ==
    ASSUME NEW f, NEW g, NEW S, Summable(f, S), Agree(f, g, S)
    PROVE  SumFunctionOnSet(f, S) = SumFunctionOnSet(g, S)
  <1>1. AddsUp(Total(f, S), f, S) /\ AddsUp(Total(g, S), g, S)
    <2>1. \A x \in S : f[x] \in Nat /\ g[x] \in Nat
      BY DEF Summable, Agree
    <2> QED
      BY <2>1, TotalAddsUp DEF Summable
  <1>2. Agree(Total(f, S), Total(g, S), SUBSET S)
    <2>1. Alike(Total(f, S), f, S, Total(g, S), g, S)
      BY <1>1 DEF Alike, Summable
    <2> QED
      BY <2>1, SumOfPart
  <1> QED
    BY <1>2, SumDef DEF Agree

\* The sum of nothing is 0, a sum is a number, and any element can be split off.
LEMMA SumLaws ==
    ASSUME NEW f, NEW S, Summable(f, S)
    PROVE  /\ SumFunctionOnSet(f, S) \in Nat
           /\ S = {} => SumFunctionOnSet(f, S) = 0
           /\ \A x \in S : /\ Summable(f, S \ {x})
                           /\ SumFunctionOnSet(f, S) = f[x] + SumFunctionOnSet(f, S \ {x})
  <1>1. AddsUp(Total(f, S), f, S) /\ Total(f, S) \in [SUBSET S -> Nat]
    BY TotalAddsUp DEF Summable
  <1>2. SumFunctionOnSet(f, S) = Total(f, S)[S]
    BY SumDef
  <1>3. S = {} => Total(f, S)[S] = 0
    BY <1>1 DEF AddsUp
  <1>4. ASSUME NEW x \in S
        PROVE  /\ Summable(f, S \ {x})
               /\ SumFunctionOnSet(f, S) = f[x] + SumFunctionOnSet(f, S \ {x})
    <2>1. IsFiniteSet(S \ {x}) /\ S \ {x} \subseteq S /\ Summable(f, S \ {x})
      BY FS_RemoveElement DEF Summable
    <2>2. AddsUp(Total(f, S \ {x}), f, S \ {x})
      BY <2>1, TotalAddsUp DEF Summable
    <2>3. Total(f, S)[S \ {x}] = Total(f, S \ {x})[S \ {x}]
      <3>1. Alike(Total(f, S), f, S, Total(f, S \ {x}), f, S \ {x})
        BY <1>1, <2>1, <2>2 DEF Alike, Agree, Summable
      <3>2. Agree(Total(f, S), Total(f, S \ {x}), SUBSET (S \ {x}))
        BY <3>1, SumOfPart
      <3> QED
        BY <3>2 DEF Agree
    <2>4. AnyOrder(Total(f, S), f, S)
      <3>1. Adder(Total(f, S), f, S)
        BY <1>1 DEF Adder, Summable
      <3> QED
        BY <3>1, AnyFirst
    <2>5. SumFunctionOnSet(f, S \ {x}) = Total(f, S \ {x})[S \ {x}]
      BY SumDef
    <2> QED
      BY <1>2, <2>1, <2>3, <2>4, <2>5 DEF AnyOrder
  <1> QED
    BY <1>1, <1>2, <1>3, <1>4

\* One of the values grows by one, and so does the sum.
LEMMA SumOneMore ==
    ASSUME NEW f, NEW g, NEW S, Summable(f, S), NEW x \in S, g[x] = f[x] + 1,
           Agree(f, g, S \ {x})
    PROVE  Summable(g, S) /\ SumFunctionOnSet(g, S) = SumFunctionOnSet(f, S) + 1
  <1>1. Summable(g, S)
    BY DEF Summable, Agree
  <1>2. /\ SumFunctionOnSet(f, S) = f[x] + SumFunctionOnSet(f, S \ {x})
        /\ SumFunctionOnSet(g, S) = g[x] + SumFunctionOnSet(g, S \ {x})
        /\ Summable(f, S \ {x})
    BY <1>1, SumLaws
  <1>3. SumFunctionOnSet(f, S \ {x}) = SumFunctionOnSet(g, S \ {x})
    BY <1>2, SumCongruence
  <1>4. SumFunctionOnSet(f, S \ {x}) \in Nat /\ f[x] \in Nat
    BY <1>2, SumLaws DEF Summable
  <1> QED
    BY <1>1, <1>2, <1>3, <1>4

\* One value less makes the sum no greater.
LEMMA SumWithout ==
    ASSUME NEW f, NEW S, Summable(f, S), NEW x
    PROVE  /\ Summable(f, S \ {x})
           /\ SumFunctionOnSet(f, S \ {x}) <= SumFunctionOnSet(f, S)
  <1>1. CASE x \in S
    <2>1. /\ Summable(f, S \ {x}) /\ f[x] \in Nat
          /\ SumFunctionOnSet(f, S) = f[x] + SumFunctionOnSet(f, S \ {x})
      BY <1>1, SumLaws DEF Summable
    <2>2. SumFunctionOnSet(f, S \ {x}) \in Nat
      BY <2>1, SumLaws
    <2> QED
      BY <2>1, <2>2
  <1>2. CASE x \notin S
    <2>1. S \ {x} = S /\ SumFunctionOnSet(f, S) \in Nat
      BY <1>2, SumLaws
    <2> QED
      BY <2>1
  <1> QED
    BY <1>1, <1>2

\* The sum of zeros is zero.
LEMMA SumOfZeros ==
    ASSUME NEW f, NEW S, IsFiniteSet(S), \A x \in S : f[x] = 0
    PROVE  SumFunctionOnSet(f, S) = 0
  <1> DEFINE total == [s \in SUBSET S |-> 0]
  <1>1. AddsUp(total, f, S)
    <2>1. \A s \in SUBSET S : s # {} => f[Some(s)] = 0 /\ s \ {Some(s)} \in SUBSET S
      BY SomeOf
    <2>2. \A s \in SUBSET S :
              total[s] = IF s = {} THEN 0 ELSE f[Some(s)] + total[s \ {Some(s)}]
      BY <2>1
    <2> QED
      BY <2>2 DEF AddsUp
  <1>2. AddsUp(Total(f, S), f, S)
    <2>1. \A x \in S : f[x] \in Nat
      OBVIOUS
    <2> QED
      BY <2>1, TotalAddsUp
  <1>3. Agree(total, Total(f, S), SUBSET S)
    <2>1. Alike(total, f, S, Total(f, S), f, S)
      BY <1>1, <1>2 DEF Alike, Agree
    <2> HIDE DEF total
    <2> QED
      BY <2>1, SumOfPart
  <1>4. Total(f, S)[S] = 0
    BY <1>3 DEF Agree
  <1> QED
    BY <1>4, SumDef

\* The sum of a sequence of numbers, one by one.
LEMMA SumUpTo ==
    ASSUME NEW n \in Nat, NEW f, \A i \in 1..n : f[i] \in Nat
    PROVE  /\ \A k \in 0..n : SumFunctionOnSet(f, 1..k) \in Nat
           /\ SumFunctionOnSet(f, 1..0) = 0
           /\ \A k \in 0..n - 1 :
                 SumFunctionOnSet(f, 1..k + 1) = SumFunctionOnSet(f, 1..k) + f[k + 1]
  <1>1. ASSUME NEW k \in 0..n
        PROVE  Summable(f, 1..k)
    <2>1. IsFiniteSet(1..k)
      BY FS_Interval
    <2>2. \A i \in 1..k : i \in 1..n
      OBVIOUS
    <2> QED
      BY <2>1, <2>2 DEF Summable
  <1>2. ASSUME NEW k \in 0..n
        PROVE  SumFunctionOnSet(f, 1..k) \in Nat
    BY <1>1, SumLaws
  <1>3. SumFunctionOnSet(f, 1..0) = 0
    <2>1. Summable(f, 1..0) /\ 1..0 = {}
      BY <1>1
    <2> QED
      BY <2>1, SumLaws
  <1>4. ASSUME NEW k \in 0..n - 1
        PROVE  SumFunctionOnSet(f, 1..k + 1) = SumFunctionOnSet(f, 1..k) + f[k + 1]
    <2>1. k + 1 \in 0..n /\ k + 1 \in 1..k + 1 /\ k + 1 \in 1..n /\ k \in 0..n
          /\ (1..k + 1) \ {k + 1} = 1..k
      OBVIOUS
    <2>2. PICK S : S = 1..k + 1
      OBVIOUS
    <2>3. PICK x : x = k + 1
      OBVIOUS
    <2>4. Summable(f, S) /\ x \in S
      BY <1>1, <2>1, <2>2, <2>3
    <2>5. SumFunctionOnSet(f, S) = f[x] + SumFunctionOnSet(f, S \ {x})
      BY <2>4, SumLaws
    <2>6. PICK R : R = 1..k
      OBVIOUS
    <2>7. SumFunctionOnSet(f, R) \in Nat /\ f[x] \in Nat
      BY <1>2, <2>1, <2>3, <2>6
    <2>8. S \ {x} = R
      BY <2>1, <2>2, <2>3, <2>6
    <2>9. SumFunctionOnSet(f, S) = SumFunctionOnSet(f, R) + f[x]
      <3>1. SumFunctionOnSet(f, S) = f[x] + SumFunctionOnSet(f, R)
        BY <2>5, <2>8
      <3> QED
        BY <2>7, <3>1
    <2> QED
      BY <2>2, <2>3, <2>6, <2>9
  <1> QED
    BY <1>2, <1>3, <1>4

----------------------------------------------------------------------------
\* f is what is kept of each beginning of a list.
SiftsUpTo(f, list, keep) ==
    f = [n \in 0..Len(list) |->
            IF n = 0 THEN <<>>
            ELSE IF list[n] \in keep THEN Append(f[n - 1], list[n]) ELSE f[n - 1]]

\* What is kept of a list, by its definition.
LEMMA SiftDef ==
    \A list, keep : Sift(list, keep) = (CHOOSE f : SiftsUpTo(f, list, keep))[Len(list)]
  BY SMT DEF Sift, SiftsUpTo

\* That function exists.
LEMMA SiftExists ==
    ASSUME NEW T, NEW list \in Seq(T), NEW keep
    PROVE  \E f \in [0..Len(list) -> Seq(T)] :
               /\ Sift(list, keep) = f[Len(list)] /\ f[0] = <<>>
               /\ \A n \in 1..Len(list) :
                      f[n] = IF list[n] \in keep THEN Append(f[n - 1], list[n]) ELSE f[n - 1]
  <1> DEFINE N == Len(list)
             op == [x \in (1..N) \X Seq(T) |->
                        IF list[x[1]] \in keep THEN Append(x[2], list[x[1]]) ELSE x[2]]
  <1>1. N \in Nat /\ \A n \in 1..N : list[n] \in T
    OBVIOUS
  <1>2. op \in [(1..N) \X Seq(T) -> Seq(T)]
    BY <1>1
  <1>3. <<>> \in Seq(T)
    OBVIOUS
  <1>4. PICK g \in [0..N -> Seq(T)] : Steps(g, N, <<>>, op)
    <2> HIDE DEF op, N
    <2> QED
      BY <1>1, <1>2, <1>3, StepsExist
  <1>5. ASSUME NEW n \in 1..N
        PROVE  g[n] = IF list[n] \in keep THEN Append(g[n - 1], list[n]) ELSE g[n - 1]
    <2>1. g[n] = op[<<n, g[n - 1]>>] /\ g[n - 1] \in Seq(T)
      <3>1. n - 1 \in 0..N
        BY <1>1
      <3> HIDE DEF op, N
      <3> QED
        BY <1>4, <3>1 DEF Steps
    <2>2. op[<<n, g[n - 1]>>]
              = IF list[n] \in keep THEN Append(g[n - 1], list[n]) ELSE g[n - 1]
      BY <2>1
    <2> HIDE DEF op
    <2> QED
      BY <2>1, <2>2
  <1>6. g[0] = <<>>
    BY <1>4 DEF Steps
  <1>7. SiftsUpTo(g, list, keep)
    <2>1. ASSUME NEW n \in 0..N
          PROVE  g[n] = IF n = 0 THEN <<>>
                        ELSE IF list[n] \in keep THEN Append(g[n - 1], list[n]) ELSE g[n - 1]
      <3>1. n = 0 \/ n \in 1..N
        BY <1>1
      <3> QED
        BY <1>5, <1>6, <3>1
    <2>2. g = [n \in 0..N |-> g[n]]
      OBVIOUS
    <2> QED
      BY <2>1, <2>2 DEF SiftsUpTo
  <1> DEFINE f == CHOOSE h : SiftsUpTo(h, list, keep)
  <1>8. SiftsUpTo(f, list, keep) /\ Sift(list, keep) = f[N]
    BY <1>7, SiftDef, Zenon
  <1> HIDE DEF f
  <1>9. \A n \in 0..N : f[n] = IF n = 0 THEN <<>>
                        ELSE IF list[n] \in keep THEN Append(f[n - 1], list[n]) ELSE f[n - 1]
    BY <1>8 DEF SiftsUpTo
  <1> DEFINE P == {n \in 0..N : f[n] = g[n]}
  <1>10. \A n \in 0..N : n \in P
    <2>1. 0 \in P
      BY <1>1, <1>6, <1>9
    <2>2. ASSUME NEW k \in 0..N - 1, k \in P
          PROVE  k + 1 \in P
      <3>1. k + 1 \in 1..N /\ (k + 1) - 1 = k /\ f[k] = g[k]
        BY <1>1, <2>2
      <3>2. f[k + 1] = g[k + 1]
        BY <1>5, <1>9, <3>1
      <3> QED
        BY <3>1, <3>2
    <2> HIDE DEF P
    <2> QED
      BY <1>1, <2>1, <2>2, UpTo
  <1>11. Sift(list, keep) = g[N]
    BY <1>1, <1>8, <1>10
  <1> QED
    BY <1>5, <1>6, <1>11

\* Nothing is in a list twice.
OneEach(s) == \A j, k \in 1..Len(s) : s[j] = s[k] => j = k

\* s is what is kept of the first n members of a list.
Sifted(s, list, keep, n) ==
    /\ \A k \in 1..Len(s) : s[k] \in keep /\ \E i \in 1..n : s[k] = list[i]
    /\ \A i \in 1..n : list[i] \in keep => \E k \in 1..Len(s) : s[k] = list[i]
    /\ OneEach(list) => OneEach(s)

\* One more member of the list is kept or not.
LEMMA SiftedOneMore ==
    ASSUME NEW T, NEW list \in Seq(T), NEW keep, NEW n \in 1..Len(list),
           NEW s \in Seq(T), Sifted(s, list, keep, n - 1)
    PROVE  Sifted(IF list[n] \in keep THEN Append(s, list[n]) ELSE s, list, keep, n)
  <1>1. \A i \in 1..n : i = n \/ i \in 1..n - 1
    OBVIOUS
  <1>2. CASE list[n] \notin keep
    <2>1. \A k \in 1..Len(s) : s[k] \in keep /\ \E i \in 1..n : s[k] = list[i]
      BY DEF Sifted
    <2>2. \A i \in 1..n : list[i] \in keep => \E k \in 1..Len(s) : s[k] = list[i]
      BY <1>1, <1>2 DEF Sifted
    <2> QED
      BY <1>2, <2>1, <2>2 DEF Sifted
  <1>3. CASE list[n] \in keep
    <2> DEFINE t == Append(s, list[n])
    <2>1. /\ Len(s) \in Nat /\ Len(t) = Len(s) + 1 /\ t[Len(t)] = list[n]
          /\ \A k \in 1..Len(s) : t[k] = s[k]
      OBVIOUS
    <2>2. \A k \in 1..Len(t) : k = Len(t) \/ k \in 1..Len(s)
      BY <2>1
    <2> HIDE DEF t
    <2>3. \A k \in 1..Len(t) : t[k] \in keep /\ \E i \in 1..n : t[k] = list[i]
      <3>1. \A k \in 1..Len(s) : s[k] \in keep /\ \E i \in 1..n : s[k] = list[i]
        BY DEF Sifted
      <3> QED
        BY <1>3, <2>1, <2>2, <3>1
    <2>4. \A i \in 1..n : list[i] \in keep => \E k \in 1..Len(t) : t[k] = list[i]
      <3>1. \A i \in 1..n - 1 : list[i] \in keep => \E k \in 1..Len(s) : s[k] = list[i]
        BY DEF Sifted
      <3>2. Len(t) \in 1..Len(t) /\ \A k \in 1..Len(s) : k \in 1..Len(t)
        BY <2>1
      <3> QED
        BY <1>1, <2>1, <3>1, <3>2
    <2>5. ASSUME OneEach(list), NEW j \in 1..Len(t), NEW k \in 1..Len(t), t[j] = t[k]
          PROVE  j = k
      <3>1. \A m \in 1..Len(s) : s[m] # list[n]
        <4>1. ASSUME NEW m \in 1..Len(s), s[m] = list[n]
              PROVE  FALSE
          <5>1. PICK i \in 1..n - 1 : s[m] = list[i]
            BY DEF Sifted
          <5>2. i \in 1..Len(list) /\ i # n
            OBVIOUS
          <5> QED
            BY <2>5, <4>1, <5>1, <5>2 DEF OneEach
        <4> QED
          BY <4>1
      <3>2. \A a, b \in 1..Len(s) : s[a] = s[b] => a = b
        BY <2>5 DEF Sifted, OneEach
      <3> QED
        BY <2>1, <2>2, <2>5, <3>1, <3>2
    <2>6. Sifted(t, list, keep, n)
      BY <2>3, <2>4, <2>5 DEF Sifted, OneEach
    <2> QED
      BY <1>3, <2>6 DEF t
  <1> QED
    BY <1>2, <1>3

\* What is kept of a list: members of it, each of those to keep, and none twice unless it
\* is in the list twice.
LEMMA SiftIs ==
    ASSUME NEW T, NEW list \in Seq(T), NEW keep
    PROVE  Sift(list, keep) \in Seq(T) /\ Sifted(Sift(list, keep), list, keep, Len(list))
  <1> DEFINE N == Len(list)
  <1>1. PICK f \in [0..N -> Seq(T)] :
            /\ Sift(list, keep) = f[N] /\ f[0] = <<>>
            /\ \A n \in 1..N :
                   f[n] = IF list[n] \in keep THEN Append(f[n - 1], list[n]) ELSE f[n - 1]
    BY SiftExists
  <1>2. N \in Nat
    OBVIOUS
  <1> DEFINE P == {n \in 0..N : Sifted(f[n], list, keep, n)}
  <1>3. 0 \in P
    <2>1. Sifted(<<>>, list, keep, 0)
      BY DEF Sifted, OneEach
    <2> QED
      BY <1>1, <1>2, <2>1
  <1>4. ASSUME NEW k \in 0..N - 1, k \in P
        PROVE  k + 1 \in P
    <2>1. k + 1 \in 1..N /\ (k + 1) - 1 = k /\ k + 1 \in 0..N /\ f[k] \in Seq(T)
      BY <1>2
    <2>2. Sifted(f[k], list, keep, k)
      BY <1>4
    <2>3. Sifted(f[k + 1], list, keep, k + 1)
      BY <1>1, <2>1, <2>2, SiftedOneMore
    <2> QED
      BY <2>1, <2>3
  <1> HIDE DEF P
  <1>5. \A n \in 0..N : n \in P
    BY <1>2, <1>3, <1>4, UpTo
  <1>6. N \in P /\ N \in 0..N
    BY <1>2, <1>5
  <1> QED
    BY <1>1, <1>6 DEF P

\* One list behind another has the members of both.
LEMMA JoinHas ==
    ASSUME NEW T, NEW s \in Seq(T), NEW t \in Seq(T)
    PROVE  /\ s \o t \in Seq(T) /\ Len(s \o t) = Len(s) + Len(t)
           /\ \A i \in 1..Len(s) : i \in 1..Len(s \o t) /\ (s \o t)[i] = s[i]
           /\ \A j \in 1..Len(t) : /\ Len(s) + j \in 1..Len(s \o t)
                                   /\ (s \o t)[Len(s) + j] = t[j]
           /\ \A k \in 1..Len(s \o t) : \/ k \in 1..Len(s)
                                        \/ \E j \in 1..Len(t) : k = Len(s) + j
  <1>1. Len(s) \in Nat /\ Len(t) \in Nat
    OBVIOUS
  <1>2. /\ s \o t \in Seq(T) /\ Len(s \o t) = Len(s) + Len(t)
        /\ \A k \in 1..Len(s) + Len(t) :
               (s \o t)[k] = IF k <= Len(s) THEN s[k] ELSE t[k - Len(s)]
    BY ConcatProperties
  <1>3. ASSUME NEW j \in 1..Len(t)
        PROVE  /\ Len(s) + j \in 1..Len(s) + Len(t) /\ ~(Len(s) + j <= Len(s))
               /\ (Len(s) + j) - Len(s) = j
    BY <1>1
  <1>4. ASSUME NEW k \in 1..Len(s) + Len(t), k \notin 1..Len(s)
        PROVE  \E j \in 1..Len(t) : k = Len(s) + j
    <2>1. k - Len(s) \in 1..Len(t) /\ k = Len(s) + (k - Len(s))
      BY <1>1, <1>4
    <2> QED
      BY <2>1
  <1>5. \A i \in 1..Len(s) : i \in 1..Len(s) + Len(t) /\ i <= Len(s)
    BY <1>1
  <1> QED
    BY <1>2, <1>3, <1>4, <1>5

\* The members of a list have names of their own.
NamesApart(s, name) == \A i, j \in 1..Len(s) : name[s[i]] = name[s[j]] => i = j

\* So have those of two such lists, if no name is in both.
LEMMA JoinApart ==
    ASSUME NEW T, NEW s \in Seq(T), NEW t \in Seq(T), NEW name, NamesApart(s, name), NamesApart(t, name),
           \A i \in 1..Len(s) : \A j \in 1..Len(t) : name[s[i]] # name[t[j]]
    PROVE  NamesApart(s \o t, name)
  <1> DEFINE both == s \o t
             N == Len(s \o t)
  <1>1. /\ \A i \in 1..Len(s) : both[i] = s[i]
        /\ \A j \in 1..Len(t) : both[Len(s) + j] = t[j]
        /\ \A k \in 1..N : k \in 1..Len(s) \/ \E j \in 1..Len(t) : k = Len(s) + j
    <2>1. /\ \A i \in 1..Len(s) : (s \o t)[i] = s[i]
          /\ \A j \in 1..Len(t) : (s \o t)[Len(s) + j] = t[j]
      BY JoinHas
    <2>2. \A k \in 1..Len(s \o t) : \/ k \in 1..Len(s)
                                    \/ \E j \in 1..Len(t) : k = Len(s) + j
      BY JoinHas
    <2> QED
      BY <2>1, <2>2
  <1> HIDE DEF both, N
  <1> SUFFICES ASSUME NEW i \in 1..N, NEW j \in 1..N, name[both[i]] = name[both[j]]
               PROVE  i = j
    BY DEF NamesApart, both, N
  <1>2. CASE i \in 1..Len(s) /\ j \in 1..Len(s)
    BY <1>1, <1>2 DEF NamesApart
  <1>3. CASE i \in 1..Len(s) /\ j \notin 1..Len(s)
    <2>1. PICK n \in 1..Len(t) : j = Len(s) + n
      BY <1>1, <1>3
    <2>2. name[s[i]] = name[t[n]]
      BY <1>1, <1>3, <2>1
    <2> QED
      BY <1>3, <2>2
  <1>4. CASE i \notin 1..Len(s) /\ j \in 1..Len(s)
    <2>1. PICK m \in 1..Len(t) : i = Len(s) + m
      BY <1>1, <1>4
    <2>2. name[s[j]] = name[t[m]]
      BY <1>1, <1>4, <2>1
    <2> QED
      BY <1>4, <2>2
  <1>5. CASE i \notin 1..Len(s) /\ j \notin 1..Len(s)
    <2>1. PICK m \in 1..Len(t) : i = Len(s) + m
      BY <1>1, <1>5
    <2>2. PICK n \in 1..Len(t) : j = Len(s) + n
      BY <1>1, <1>5
    <2>3. name[t[m]] = name[t[n]]
      BY <1>1, <2>1, <2>2
    <2> QED
      BY <2>1, <2>2, <2>3 DEF NamesApart
  <1> QED
    BY <1>2, <1>3, <1>4, <1>5

\* And what is kept of such a list.
LEMMA SiftApart ==
    ASSUME NEW T, NEW list \in Seq(T), NEW keep, NEW name, NamesApart(list, name)
    PROVE  NamesApart(Sift(list, keep), name)
  <1> DEFINE s == Sift(list, keep)
  <1>1. Sifted(s, list, keep, Len(list))
    BY SiftIs
  <1> HIDE DEF s
  <1>2. OneEach(s)
    BY <1>1 DEF Sifted, OneEach, NamesApart
  <1>3. ASSUME NEW i \in 1..Len(s), NEW j \in 1..Len(s), name[s[i]] = name[s[j]]
        PROVE  i = j
    <2>1. PICK m \in 1..Len(list) : s[i] = list[m]
      BY <1>1 DEF Sifted
    <2>2. PICK n \in 1..Len(list) : s[j] = list[n]
      BY <1>1 DEF Sifted
    <2>3. m = n
      BY <1>3, <2>1, <2>2 DEF NamesApart
    <2> QED
      BY <1>2, <1>3, <2>1, <2>2, <2>3 DEF OneEach
  <1> QED
    BY <1>3 DEF NamesApart, s
=============================================================================
