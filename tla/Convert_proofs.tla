--------------------------- MODULE Convert_proofs ---------------------------
(* An artifact is written whole, and what is verified is what is loaded, for any  *)
(* model, any source, any budget and any number of runs.                          *)
EXTENDS Convert, Numbers

----------------------------------------------------------------------------
(* Sequences of sequences. *)

\* f puts the sequences together, one after the other.
Flat(f, seqs) ==
    f = [i \in 1..Len(seqs) |-> IF i = 1 THEN seqs[i] ELSE f[i - 1] \o seqs[i]]

\* How the community modules define it.
LEMMA FlattenIs == \A seqs : Len(seqs) # 0 => FlattenSeq(seqs) = (CHOOSE f : Flat(f, seqs))[Len(seqs)]
  BY SMT DEF FlattenSeq, Flat

\* Such a function exists.
LEMMA Flattens ==
    ASSUME NEW S, NEW seqs \in Seq(Seq(S)), seqs # <<>>
    PROVE  \E f : Flat(f, seqs) /\ FlattenSeq(seqs) = f[Len(seqs)]
  <1> DEFINE n == Len(seqs)
             op == [x \in (1..n) \X Seq(S) |->
                        IF x[1] = 1 THEN seqs[1] ELSE x[2] \o seqs[x[1]]]
  <1>1. n \in Nat /\ n # 0
    OBVIOUS
  <1>2. op \in [(1..n) \X Seq(S) -> Seq(S)]
    OBVIOUS
  <1>3. <<>> \in Seq(S)
    OBVIOUS
  <1>4. PICK g \in [0..n -> Seq(S)] : Steps(g, n, <<>>, op)
    <2> HIDE DEF op, n
    <2> QED
      BY <1>1, <1>2, <1>3, StepsExist
  <1> DEFINE f == [i \in 1..n |-> g[i]]
  <1>5. ASSUME NEW i \in 1..n
        PROVE  f[i] = IF i = 1 THEN seqs[i] ELSE f[i - 1] \o seqs[i]
    <2>1. g[i] = op[<<i, g[i - 1]>>] /\ g[i - 1] \in Seq(S)
      <3>1. i - 1 \in 0..n
        BY <1>1
      <3> HIDE DEF op, n, f
      <3> QED
        BY <1>4, <3>1 DEF Steps
    <2>2. op[<<i, g[i - 1]>>] = IF i = 1 THEN seqs[1] ELSE g[i - 1] \o seqs[i]
      BY <2>1
    <2>3. i # 1 => i - 1 \in 1..n
      OBVIOUS
    <2> HIDE DEF op
    <2> QED
      BY <2>1, <2>2, <2>3
  <1>6. Flat(f, seqs)
    <2>1. f = [i \in 1..n |-> f[i]]
      OBVIOUS
    <2> HIDE DEF f
    <2> QED
      BY <1>5, <2>1 DEF Flat
  <1>7. Flat((CHOOSE h : Flat(h, seqs)), seqs)
    BY <1>6, Zenon
  <1> QED
    BY <1>1, <1>7, FlattenIs
----------------------------------------------------------------------------
(* The order of the arrays. *)

\* The arrays that there could be.
Array == ToSet(Tensors) \X {"codes", "scales", "plain"}

\* The arrays that a tensor is stored as.
OfTensor(t) == IF t \in Quantised THEN {<<t, "codes">>, <<t, "scales">>} ELSE {<<t, "plain">>}

\* a occurs in s.
OneOf(s, a) == \E i \in 1..Len(s) : s[i] = a

\* Nothing occurs in s twice.
Distinct(s) == \A i, j \in 1..Len(s) : s[i] = s[j] => i = j

\* The scales of a tensor are the array behind its codes.
ScalesFollow(s) ==
    \A i \in 1..Len(s) : s[i][2] = "codes" => i < Len(s) /\ s[i + 1] = <<s[i][1], "scales">>

\* s holds the arrays of the first k tensors, each once.
Ordered(k, s) ==
    /\ s \in Seq(Array) /\ Distinct(s) /\ ScalesFollow(s)
    /\ \A a : OneOf(s, a) <=> \E j \in 1..k : a \in OfTensor(Tensors[j])

\* The tensors are a sequence without repetitions.
LEMMA TensorsAre ==
    /\ Tensors \in Seq(ToSet(Tensors)) /\ Len(Tensors) \in Nat /\ Len(Tensors) # 0
    /\ \A i \in 1..Len(Tensors) : Tensors[i] \in ToSet(Tensors)
    /\ \A i, j \in 1..Len(Tensors) : Tensors[i] = Tensors[j] => i = j
    /\ ToSet(Tensors) = {Tensors[i] : i \in 1..Len(Tensors)}
  <1>1. Tensors \in Seq(ToSet(Tensors)) /\ Tensors # <<>> /\ IsInjective(Tensors)
    BY PlanAssumption
  <1>2. DOMAIN Tensors = 1..Len(Tensors)
    BY <1>1
  <1>3. \A i, j \in 1..Len(Tensors) : Tensors[i] = Tensors[j] => i = j
    BY <1>1, <1>2 DEF IsInjective
  <1>4. ToSet(Tensors) = {Tensors[i] : i \in 1..Len(Tensors)}
    BY <1>2 DEF ToSet
  <1> HIDE DEF ToSet
  <1> QED
    BY <1>1, <1>3, <1>4

\* A tensor is stored as its codes and its scales, or as it is.
LEMMA ArraysOfTensor ==
    ASSUME NEW t \in ToSet(Tensors)
    PROVE  /\ ArraysOf(t) \in Seq(Array) /\ Len(ArraysOf(t)) \in {1, 2}
           /\ OfTensor(t) \subseteq Array
           /\ t \in Quantised => /\ Len(ArraysOf(t)) = 2
                                 /\ ArraysOf(t)[1] = <<t, "codes">> /\ ArraysOf(t)[2] = <<t, "scales">>
           /\ t \notin Quantised => Len(ArraysOf(t)) = 1 /\ ArraysOf(t)[1] = <<t, "plain">>
  <1>1. {<<t, "codes">>, <<t, "scales">>, <<t, "plain">>} \subseteq Array
    BY DEF Array
  <1>2. CASE t \in Quantised
    <2>1. ArraysOf(t) = << <<t, "codes">>, <<t, "scales">> >>
      BY <1>2 DEF ArraysOf
    <2>2. OfTensor(t) = {<<t, "codes">>, <<t, "scales">>}
      BY <1>2 DEF OfTensor
    <2> QED
      BY <1>1, <1>2, <2>1, <2>2
  <1>3. CASE t \notin Quantised
    <2>1. ArraysOf(t) = << <<t, "plain">> >>
      BY <1>3 DEF ArraysOf
    <2>2. OfTensor(t) = {<<t, "plain">>}
      BY <1>3 DEF OfTensor
    <2> QED
      BY <1>1, <1>3, <2>1, <2>2
  <1> QED
    BY <1>2, <1>3

\* One more tensor.
LEMMA OrderedGrows ==
    ASSUME NEW k \in Nat, k < Len(Tensors), NEW s, Ordered(k, s)
    PROVE  Ordered(k + 1, s \o ArraysOf(Tensors[k + 1]))
  <1> DEFINE t == Tensors[k + 1]
             x == ArraysOf(t)
             n == Len(s)
  <1>1. /\ t \in ToSet(Tensors) /\ k + 1 \in 1..Len(Tensors)
        /\ \A j \in 1..k : Tensors[j] # t /\ Tensors[j] \in ToSet(Tensors)
    BY TensorsAre
  <1>2. /\ x \in Seq(Array) /\ Len(x) \in {1, 2}
        /\ t \in Quantised => Len(x) = 2 /\ x[1] = <<t, "codes">> /\ x[2] = <<t, "scales">>
        /\ t \notin Quantised => Len(x) = 1 /\ x[1] = <<t, "plain">>
    BY <1>1, ArraysOfTensor
  <1>3. s \in Seq(Array) /\ n \in Nat
    BY DEF Ordered
  <1> HIDE DEF x, n
  <1>4. \A i \in 1..n : s[i] \in Array /\ s[i][1] # t
    <2> SUFFICES ASSUME NEW i \in 1..n PROVE s[i] \in Array /\ s[i][1] # t
      OBVIOUS
    <2>1. s[i] \in Array /\ OneOf(s, s[i])
      BY <1>3 DEF OneOf, n
    <2>2. PICK j \in 1..k : s[i] \in OfTensor(Tensors[j])
      BY <2>1 DEF Ordered
    <2>3. s[i][1] = Tensors[j]
      BY <2>2 DEF OfTensor
    <2> QED
      BY <1>1, <2>1, <2>3
  <1>5. PICK y : y = s \o x
    OBVIOUS
  <1>6. /\ y \in Seq(Array) /\ Len(y) = n + Len(x)
        /\ \A i \in 1..n : y[i] = s[i]
        /\ \A i \in 1..Len(x) : y[n + i] = x[i]
    BY <1>2, <1>3, <1>5 DEF n
  <1>7. \A i \in 1..Len(y) : i \in 1..n \/ (i - n \in 1..Len(x) /\ y[i] = x[i - n])
    <2> SUFFICES ASSUME NEW i \in 1..Len(y), i \notin 1..n
                 PROVE  i - n \in 1..Len(x) /\ y[i] = x[i - n]
      OBVIOUS
    <2>1. Len(x) \in Nat
      BY <1>2
    <2>2. i - n \in 1..Len(x) /\ n + (i - n) = i
      BY <1>3, <1>6, <2>1
    <2> QED
      BY <1>6, <2>2
  <1>8. \A i \in 1..Len(x) : x[i][1] = t
    BY <1>2
  <1>9. Distinct(y)
    <2> SUFFICES ASSUME NEW i \in 1..Len(y), NEW j \in 1..Len(y), y[i] = y[j] PROVE i = j
      BY DEF Distinct
    <2>1. CASE i \in 1..n /\ j \in 1..n
      BY <1>6, <2>1 DEF Ordered, Distinct, n
    <2>2. CASE i \in 1..n /\ j \notin 1..n
      <3>1. y[i] = s[i] /\ s[i][1] # t
        BY <1>4, <1>6, <2>2
      <3>2. y[j] = x[j - n] /\ x[j - n][1] = t
        BY <1>7, <1>8, <2>2
      <3> QED
        BY <3>1, <3>2
    <2>3. CASE i \notin 1..n /\ j \in 1..n
      <3>1. y[j] = s[j] /\ s[j][1] # t
        BY <1>4, <1>6, <2>3
      <3>2. y[i] = x[i - n] /\ x[i - n][1] = t
        BY <1>7, <1>8, <2>3
      <3> QED
        BY <3>1, <3>2
    <2>4. CASE i \notin 1..n /\ j \notin 1..n
      <3>1. /\ i - n \in 1..Len(x) /\ j - n \in 1..Len(x) /\ x[i - n] = x[j - n]
        BY <1>7, <2>4
      <3>2. ASSUME NEW e \in 1..Len(x), NEW f \in 1..Len(x), x[e] = x[f]
            PROVE  e = f
        <4>1. CASE t \in Quantised
          <5>1. e \in {1, 2} /\ f \in {1, 2}
            BY <1>2, <3>2, <4>1
          <5>2. x[1] # x[2]
            BY <1>2, <4>1
          <5> QED
            BY <3>2, <5>1, <5>2
        <4>2. CASE t \notin Quantised
          BY <1>2, <3>2, <4>2
        <4> QED
          BY <4>1, <4>2
      <3>3. i - n = j - n
        BY <3>1, <3>2
      <3> QED
        BY <1>3, <3>3
    <2> QED
      BY <2>1, <2>2, <2>3, <2>4
  <1>10. ScalesFollow(y)
    <2> SUFFICES ASSUME NEW i \in 1..Len(y), y[i][2] = "codes"
                 PROVE  i < Len(y) /\ y[i + 1] = <<y[i][1], "scales">>
      BY DEF ScalesFollow
    <2>1. CASE i \in 1..n
      <3>1. i < n /\ s[i + 1] = <<s[i][1], "scales">>
        BY <1>6, <2>1 DEF Ordered, ScalesFollow, n
      <3>2. i + 1 \in 1..n
        BY <1>3, <3>1
      <3> QED
        BY <1>2, <1>3, <1>6, <3>1, <3>2, SMTT(30)
    <2>2. CASE i \notin 1..n
      <3>1. i - n \in 1..Len(x) /\ x[i - n][2] = "codes"
        BY <1>7, <2>2
      <3>2. i - n = 1 /\ Len(x) = 2 /\ x[2] = <<t, "scales">>
        <4>1. PICK j \in 1..Len(x) : j = i - n
          BY <3>1
        <4>2. x[j][2] = "codes" /\ (j = 1 \/ j = 2)
          BY <1>2, <3>1, <4>1
        <4>3. t \in Quantised
          <5>1. t \notin Quantised => j = 1 /\ x[1] = <<t, "plain">>
            BY <1>2, <4>1
          <5> QED
            BY <4>2, <5>1
        <4>4. j # 2
          BY <1>2, <4>2, <4>3
        <4> QED
          BY <1>2, <4>1, <4>2, <4>3, <4>4
      <3>3. i = n + 1 /\ y[n + 2] = <<t, "scales">> /\ y[i][1] = t
        BY <1>2, <1>3, <1>6, <1>8, <3>2
      <3>4. i < Len(y) /\ i + 1 = n + 2
        BY <1>3, <1>6, <3>2, <3>3
      <3> QED
        BY <3>3, <3>4
    <2> QED
      BY <2>1, <2>2
  <1>11. ASSUME NEW a
         PROVE  OneOf(y, a) <=> \E j \in 1..k + 1 : a \in OfTensor(Tensors[j])
    <2>1. OneOf(y, a) <=> OneOf(s, a) \/ OneOf(x, a)
      <3>1. \A i \in 1..n : i \in 1..Len(y) /\ y[i] = s[i]
        BY <1>2, <1>3, <1>6
      <3>2. \A i \in 1..Len(x) : n + i \in 1..Len(y) /\ y[n + i] = x[i]
        BY <1>2, <1>3, <1>6
      <3> QED
        BY <1>7, <3>1, <3>2, ZenonT(60) DEF OneOf, n
    <2>2. OneOf(x, a) <=> a \in OfTensor(t)
      <3>1. CASE t \in Quantised
        <4>1. OneOf(x, a) <=> \E i \in 1..2 : x[i] = a
          BY <1>2, <3>1 DEF OneOf
        <4>2. 1..2 = {1, 2}
          OBVIOUS
        <4> QED
          BY <1>2, <3>1, <4>1, <4>2 DEF OfTensor
      <3>2. CASE t \notin Quantised
        <4>1. OneOf(x, a) <=> \E i \in 1..1 : x[i] = a
          BY <1>2, <3>2 DEF OneOf
        <4>2. 1..1 = {1}
          OBVIOUS
        <4> QED
          BY <1>2, <3>2, <4>1, <4>2 DEF OfTensor
      <3> QED
        BY <3>1, <3>2
    <2>3. OneOf(s, a) <=> \E j \in 1..k : a \in OfTensor(Tensors[j])
      BY DEF Ordered
    <2>4. \A j : j \in 1..k + 1 <=> j \in 1..k \/ j = k + 1
      OBVIOUS
    <2> QED
      BY <2>1, <2>2, <2>3, <2>4
  <1> QED
    BY <1>5, <1>6, <1>9, <1>10, <1>11 DEF x, Ordered

\* The plan holds the arrays of every tensor, each once.
LEMMA PlanIsOrdered == Ordered(Len(Tensors), PlanTensors)
  <1> DEFINE m == Len(Tensors)
             seqs == [i \in 1..m |-> ArraysOf(Tensors[i])]
  <1>1. m \in Nat /\ m # 0 /\ \A i \in 1..m : Tensors[i] \in ToSet(Tensors)
    BY TensorsAre
  <1>2. /\ seqs \in Seq(Seq(Array)) /\ seqs # <<>> /\ Len(seqs) = m
        /\ \A i \in 1..m : seqs[i] = ArraysOf(Tensors[i])
    <2>1. \A i \in 1..m : ArraysOf(Tensors[i]) \in Seq(Array)
      BY <1>1, ArraysOfTensor
    <2> HIDE DEF m
    <2> QED
      BY <1>1, <2>1
  <1>3. PlanTensors = FlattenSeq(seqs)
    BY DEF PlanTensors
  <1> HIDE DEF seqs, m
  <1>4. PICK f : Flat(f, seqs) /\ PlanTensors = f[m]
    BY <1>2, <1>3, Flattens
  <1>5. /\ f[1] = ArraysOf(Tensors[1])
        /\ \A k \in 2..m : f[k] = f[k - 1] \o ArraysOf(Tensors[k])
    <2>1. \A k \in 1..m : f[k] = IF k = 1 THEN seqs[k] ELSE f[k - 1] \o seqs[k]
      BY <1>2, <1>4 DEF Flat
    <2>2. 1 \in 1..m /\ \A k \in 2..m : k \in 1..m /\ k # 1
      BY <1>1
    <2> QED
      BY <1>2, <2>1, <2>2
  <1> DEFINE P == {k \in 1..m : Ordered(k, f[k])}
  <1>6. 1 \in P
    <2>1. Ordered(0, <<>>)
      <3>1. \A a : ~OneOf(<<>>, a)
        BY DEF OneOf
      <3> QED
        BY <3>1 DEF Ordered, Distinct, ScalesFollow
    <2>2. Ordered(1, <<>> \o ArraysOf(Tensors[1]))
      <3>1. 0 < Len(Tensors) /\ 0 + 1 = 1
        BY <1>1 DEF m
      <3> QED
        BY <2>1, <3>1, OrderedGrows
    <2>3. <<>> \o ArraysOf(Tensors[1]) = ArraysOf(Tensors[1])
      BY <1>1, ArraysOfTensor
    <2> QED
      BY <1>1, <1>5, <2>2, <2>3
  <1>7. ASSUME NEW k \in 1..m - 1, k \in P
        PROVE  k + 1 \in P
    <2>1. k \in Nat /\ k < Len(Tensors) /\ Ordered(k, f[k])
      BY <1>1, <1>7 DEF m
    <2>2. Ordered(k + 1, f[k] \o ArraysOf(Tensors[k + 1]))
      BY <2>1, OrderedGrows
    <2>3. k + 1 \in 1..m /\ k + 1 \in 2..m /\ (k + 1) - 1 = k
      BY <1>1
    <2>4. f[k + 1] = f[k] \o ArraysOf(Tensors[k + 1])
      BY <1>5, <2>3
    <2> QED
      BY <2>2, <2>3, <2>4
  <1> HIDE DEF P
  <1>8. m \in P
    <2>1. \A k \in 1..m : k \in P
      BY <1>1, <1>6, <1>7, UpTo
    <2> QED
      BY <1>1, <2>1
  <1> QED
    BY <1>4, <1>8 DEF P, m

\* What the proofs below use of it.
LEMMA PlanFacts ==
    /\ PlanTensors \in Seq(Arrays) /\ Len(PlanTensors) \in Nat /\ Len(PlanTensors) # 0
    /\ Distinct(PlanTensors) /\ ScalesFollow(PlanTensors)
    /\ Arrays = {PlanTensors[i] : i \in 1..Len(PlanTensors)}
    /\ Arrays = UNION {OfTensor(t) : t \in ToSet(Tensors)}
  <1> DEFINE P == PlanTensors
  <1>1. Ordered(Len(Tensors), P)
    BY PlanIsOrdered
  <1>2. P \in Seq(Array) /\ Distinct(P) /\ ScalesFollow(P)
    BY <1>1 DEF Ordered
  <1>3. Arrays = {P[i] : i \in 1..Len(P)}
    <2>1. DOMAIN P = 1..Len(P)
      BY <1>2
    <2> QED
      BY <2>1 DEF Arrays, ToSet
  <1>4. \A a : OneOf(P, a) <=> \E t \in ToSet(Tensors) : a \in OfTensor(t)
    <2>1. ToSet(Tensors) = {Tensors[i] : i \in 1..Len(Tensors)}
      BY TensorsAre
    <2> QED
      BY <1>1, <2>1 DEF Ordered
  <1>5. \A a : OneOf(P, a) <=> a \in Arrays
    BY <1>3 DEF OneOf
  <1>6. Arrays = UNION {OfTensor(t) : t \in ToSet(Tensors)}
    BY <1>4, <1>5
  <1> HIDE DEF P
  <1>7. P \in Seq(Arrays)
    BY <1>2, <1>3
  <1>8. Len(P) # 0
    <2>1. Tensors[1] \in ToSet(Tensors)
      BY TensorsAre
    <2>2. PICK a : a \in OfTensor(Tensors[1])
      BY DEF OfTensor
    <2>3. OneOf(P, a)
      BY <1>4, <2>1, <2>2
    <2> QED
      BY <1>2, <2>3 DEF OneOf
  <1>9. Len(P) \in Nat
    BY <1>2
  <1> QED
    BY <1>2, <1>3, <1>6, <1>7, <1>8, <1>9 DEF P
----------------------------------------------------------------------------
(* The shards. *)

\* c tells how many arrays the first shards hold: together they are the first k of the
\* plan, in order, and none is empty but a first one.
Cuts(c, shards, k) ==
    /\ c \in [0..Len(shards) -> Nat] /\ c[0] = 0 /\ c[Len(shards)] = k
    /\ \A i \in 1..Len(shards) :
          /\ c[i] = c[i - 1] + Len(shards[i]) /\ c[i] <= k
          /\ Len(shards) > 1 \/ k > 0 => Len(shards[i]) > 0
          /\ \A j \in 1..Len(shards[i]) : shards[i][j] = PlanTensors[c[i - 1] + j]

\* A plan of the first k arrays.
Cut(shards, k) ==
    shards \in Seq(Seq(Arrays)) /\ Len(shards) > 0 /\ \E c : Cuts(c, shards, k)

\* One more array is placed.
LEMMA PlaceCuts ==
    ASSUME NEW shards, NEW k \in Nat, Cut(shards, k), k < Len(PlanTensors), NEW budget
    PROVE  Cut(Place(shards, PlanTensors[k + 1], budget), k + 1)
  <1> DEFINE a == PlanTensors[k + 1]
             n == Len(shards)
  <1>1. a \in Arrays
    BY PlanFacts
  <1>2. /\ shards \in Seq(Seq(Arrays)) /\ n \in Nat /\ n > 0
        /\ \A i \in 1..n : shards[i] \in Seq(Arrays) /\ Len(shards[i]) \in Nat
    BY DEF Cut
  <1>3. PICK c : Cuts(c, shards, k)
    BY DEF Cut
  <1>4. Last(shards) = shards[n]
    BY DEF Last
  <1> HIDE DEF a
  <1>5. CASE /\ Last(shards) # <<>>
             /\ Place(shards, a, budget) = Append(shards, <<a>>)
    <2> DEFINE next == Append(shards, <<a>>)
               d == [i \in 0..n + 1 |-> IF i <= n THEN c[i] ELSE k + 1]
    <2>1. /\ next \in Seq(Seq(Arrays)) /\ Len(next) = n + 1
          /\ \A i \in 1..n : next[i] = shards[i]
          /\ next[n + 1] = <<a>>
      BY <1>1, <1>2
    <2> HIDE DEF next
    <2>2. k > 0
      <3>1. shards[n] # <<>> /\ n \in 1..n
        BY <1>2, <1>4, <1>5
      <3>2. Len(shards[n]) > 0
        BY <1>2, <3>1
      <3>3. c[n] = c[n - 1] + Len(shards[n]) /\ c[n] = k /\ c[n - 1] \in Nat
        <4>1. n - 1 \in 0..n
          BY <1>2
        <4> QED
          BY <1>3, <3>1, <4>1 DEF Cuts
      <3> QED
        BY <1>2, <3>2, <3>3
    <2>3. /\ d \in [0..n + 1 -> Nat] /\ d[0] = 0 /\ d[n + 1] = k + 1
          /\ \A i \in 0..n : d[i] = c[i]
      BY <1>2, <1>3 DEF Cuts
    <2> HIDE DEF d
    <2>4. ASSUME NEW i \in 1..n + 1
          PROVE  /\ d[i] = d[i - 1] + Len(next[i]) /\ d[i] <= k + 1
                 /\ Len(next[i]) > 0
                 /\ \A j \in 1..Len(next[i]) : next[i][j] = PlanTensors[d[i - 1] + j]
      <3>1. CASE i \in 1..n
        <4>1. i - 1 \in 0..n /\ i \in 0..n
          BY <1>2, <3>1
        <4>2. d[i] = c[i] /\ d[i - 1] = c[i - 1] /\ next[i] = shards[i]
          BY <2>1, <2>3, <3>1, <4>1
        <4>3. /\ c[i] = c[i - 1] + Len(shards[i]) /\ c[i] <= k /\ Len(shards[i]) > 0
              /\ \A j \in 1..Len(shards[i]) : shards[i][j] = PlanTensors[c[i - 1] + j]
              /\ c[i] \in Nat
          BY <1>2, <1>3, <2>2, <3>1, <4>1 DEF Cuts
        <4> QED
          BY <4>2, <4>3
      <3>2. CASE i = n + 1
        <4>1. d[i] = k + 1 /\ d[i - 1] = k /\ next[i] = <<a>> /\ Len(<<a>>) = 1
          <5>1. i - 1 = n /\ n \in 0..n
            BY <1>2, <3>2
          <5> QED
            BY <1>3, <2>1, <2>3, <3>2, <5>1 DEF Cuts
        <4>2. \A j \in 1..1 : <<a>>[j] = PlanTensors[k + j]
          BY DEF a
        <4> QED
          BY <4>1, <4>2
      <3> QED
        BY <1>2, <3>1, <3>2
    <2>5. Cuts(d, next, k + 1)
      BY <2>1, <2>3, <2>4 DEF Cuts
    <2>6. Cut(next, k + 1)
      BY <1>2, <2>1, <2>5 DEF Cut
    <2> QED
      BY <1>5, <2>6 DEF next, a
  <1>6. CASE Place(shards, a, budget) = [shards EXCEPT ![n] = Append(@, a)]
    <2> DEFINE next == [shards EXCEPT ![n] = Append(@, a)]
               d == [c EXCEPT ![n] = k + 1]
    <2>1. /\ next \in Seq(Seq(Arrays)) /\ Len(next) = n
          /\ \A i \in 1..n - 1 : next[i] = shards[i]
          /\ next[n] = Append(shards[n], a)
      <3>1. n \in 1..n /\ Append(shards[n], a) \in Seq(Arrays) /\ DOMAIN shards = 1..n
        BY <1>1, <1>2
      <3>2. shards \in [1..n -> Seq(Arrays)] /\ \A i \in 1..n - 1 : i \in 1..n /\ i # n
        BY <1>2
      <3>3. /\ next \in [1..n -> Seq(Arrays)] /\ next[n] = Append(shards[n], a)
            /\ \A i \in 1..n - 1 : next[i] = shards[i]
        <4> HIDE DEF n
        <4> QED
          BY <3>1, <3>2
      <3> HIDE DEF next, n
      <3>4. next \in Seq(Seq(Arrays)) /\ Len(next) = n
        BY <1>2, <3>3
      <3> QED
        BY <3>3, <3>4
    <2> HIDE DEF next
    <2>2. /\ d \in [0..n -> Nat] /\ d[0] = 0 /\ d[n] = k + 1
          /\ \A i \in 0..n - 1 : d[i] = c[i]
      BY <1>2, <1>3 DEF Cuts
    <2> HIDE DEF d
    <2>3. c[n] = k /\ c[n] = c[n - 1] + Len(shards[n]) /\ c[n - 1] \in Nat
      <3>1. n \in 1..n /\ n - 1 \in 0..n
        BY <1>2
      <3> QED
        BY <1>3, <3>1 DEF Cuts
    <2>4. ASSUME NEW i \in 1..n
          PROVE  /\ d[i] = d[i - 1] + Len(next[i]) /\ d[i] <= k + 1
                 /\ Len(next[i]) > 0
                 /\ \A j \in 1..Len(next[i]) : next[i][j] = PlanTensors[d[i - 1] + j]
      <3>1. CASE i \in 1..n - 1
        <4>1. i - 1 \in 0..n - 1 /\ i \in 0..n - 1 /\ i \in 1..n
          BY <1>2, <3>1
        <4>2. d[i] = c[i] /\ d[i - 1] = c[i - 1] /\ next[i] = shards[i]
          BY <2>1, <2>2, <3>1, <4>1
        <4>3. /\ c[i] = c[i - 1] + Len(shards[i]) /\ c[i] <= k /\ c[i] \in Nat
              /\ \A j \in 1..Len(shards[i]) : shards[i][j] = PlanTensors[c[i - 1] + j]
          <5>1. i \in 0..n
            BY <1>2, <4>1
          <5> QED
            BY <1>3, <4>1, <5>1 DEF Cuts
        <4>4. Len(shards[i]) > 0
          <5>1. n > 1
            BY <1>2, <3>1
          <5> QED
            BY <1>3, <4>1, <5>1 DEF Cuts
        <4> QED
          BY <4>2, <4>3, <4>4
      <3>2. CASE i = n
        <4>1. d[i] = k + 1 /\ d[i - 1] = c[n - 1] /\ next[i] = Append(shards[n], a)
          <5>1. i - 1 \in 0..n - 1
            BY <1>2, <3>2
          <5> QED
            BY <2>1, <2>2, <3>2, <5>1
        <4>2. PICK s \in Seq(Arrays) : s = shards[n]
          BY <1>2
        <4>3. /\ Len(Append(s, a)) = Len(s) + 1
              /\ \A j \in 1..Len(s) : Append(s, a)[j] = s[j]
              /\ Append(s, a)[Len(s) + 1] = a
          BY <1>1
        <4>4. \A j \in 1..Len(s) : s[j] = PlanTensors[c[n - 1] + j]
          <5>1. n \in 1..n
            BY <1>2
          <5> QED
            BY <1>3, <4>2, <5>1 DEF Cuts
        <4>5. a = PlanTensors[c[n - 1] + (Len(s) + 1)]
          <5>1. c[n - 1] + (Len(s) + 1) = k + 1
            BY <2>3, <4>2
          <5> QED
            BY <5>1 DEF a
        <4>6. Len(s) \in Nat
          OBVIOUS
        <4>7. \A j \in 1..Len(s) + 1 : Append(s, a)[j] = PlanTensors[c[n - 1] + j]
          BY <4>3, <4>4, <4>5, <4>6
        <4>8. d[i] = d[i - 1] + Len(next[i]) /\ d[i] <= k + 1 /\ Len(next[i]) > 0
          <5>1. d[i] = k + 1 /\ d[i - 1] = c[n - 1] /\ Len(next[i]) = Len(s) + 1
            BY <4>1, <4>2, <4>3
          <5>2. k = c[n - 1] + Len(s) /\ c[n - 1] \in Nat
            BY <2>3, <4>2
          <5> QED
            BY <4>6, <5>1, <5>2, SMTT(30)
        <4> QED
          BY <4>1, <4>2, <4>3, <4>7, <4>8
      <3> QED
        BY <1>2, <3>1, <3>2
    <2>5. Cuts(d, next, k + 1)
      BY <2>1, <2>2, <2>4 DEF Cuts
    <2>6. Cut(next, k + 1)
      BY <1>2, <2>1, <2>5 DEF Cut
    <2> QED
      BY <1>6, <2>6 DEF next, a
  <1>7. \/ Last(shards) # <<>> /\ Place(shards, a, budget) = Append(shards, <<a>>)
        \/ Place(shards, a, budget) = [shards EXCEPT ![n] = Append(@, a)]
    BY DEF Place
  <1> QED
    BY <1>5, <1>6, <1>7 DEF a

\* f places the arrays of a set of places in order.
Placed(f, S, budget) ==
    f = [s \in SUBSET S |-> IF s = {} THEN << <<>> >>
                            ELSE Place(f[s \ {Max(s)}], PlanTensors[Max(s)], budget)]

\* What the greedy plan is, by its definition.
LEMMA PlanShardsIs ==
    \A budget : PlanShards(budget) = (CHOOSE f : Placed(f, DOMAIN PlanTensors, budget))[DOMAIN PlanTensors]
  BY SMT DEF PlanShards, FoldLeft, MapThenFoldSet, Placed

\* Placing an array gives shards again.
LEMMA PlaceType ==
    ASSUME NEW shards \in Seq(Seq(Arrays)), shards # <<>>, NEW a \in Arrays, NEW budget
    PROVE  Place(shards, a, budget) \in Seq(Seq(Arrays)) /\ Place(shards, a, budget) # <<>>
  <1> DEFINE n == Len(shards)
  <1>1. /\ n \in Nat /\ n > 0 /\ shards \in [1..n -> Seq(Arrays)] /\ n \in 1..n
        /\ shards[n] \in Seq(Arrays)
    OBVIOUS
  <1>2. CASE Place(shards, a, budget) = Append(shards, <<a>>)
    BY <1>2
  <1>3. CASE Place(shards, a, budget) = [shards EXCEPT ![n] = Append(@, a)]
    <2>1. Append(shards[n], a) \in Seq(Arrays)
      BY <1>1
    <2>2. PICK next : next = [shards EXCEPT ![n] = Append(@, a)]
      OBVIOUS
    <2> HIDE DEF n
    <2>3. next \in [1..n -> Seq(Arrays)]
      BY <1>1, <2>1, <2>2
    <2>4. next \in Seq(Seq(Arrays)) /\ Len(next) = n
      BY <1>1, <2>3
    <2> QED
      BY <1>1, <1>3, <2>2, <2>4 DEF n
  <1> QED
    BY <1>2, <1>3 DEF Place

\* The shards of a plan hold all its arrays.
LEMMA PlanIsCut ==
    ASSUME NEW budget
    PROVE  Cut(PlanShards(budget), Len(PlanTensors))
  <1> DEFINE N == Len(PlanTensors)
             S == 1..N
             V == Seq(Seq(Arrays)) \ {<<>>}
             pick == [s \in SUBSET S |-> Max(s)]
             op == [x \in S \X V |-> Place(x[2], PlanTensors[x[1]], budget)]
  <1>1. N \in Nat /\ N # 0 /\ DOMAIN PlanTensors = S /\ \A i \in S : PlanTensors[i] \in Arrays
    BY PlanFacts
  <1>2. IsFiniteSet(S)
    BY <1>1, FS_Interval
  <1>3. ASSUME NEW s \in SUBSET S, s # {}
        PROVE  pick[s] \in s /\ pick[s] = Max(s)
    BY <1>1, <1>3, MaxOf
  <1>4. op \in [S \X V -> V]
    <2>1. ASSUME NEW i \in S, NEW v \in V
          PROVE  Place(v, PlanTensors[i], budget) \in V
      BY <1>1, PlaceType
    <2> HIDE DEF S, V
    <2> QED
      BY <2>1
  <1>5. << <<>> >> \in V
    OBVIOUS
  <1>6. \A x \in S, v \in V : op[<<x, v>>] = Place(v, PlanTensors[x], budget)
    OBVIOUS
  <1> HIDE DEF op, pick, V, S, N
  <1>7. PICK g \in [SUBSET S -> V] : FoldsUp(g, S, << <<>> >>, pick, op)
    <2>1. Picks(pick, S)
      BY <1>3 DEF Picks
    <2> QED
      BY <1>2, <1>4, <1>5, <2>1, FoldExists
  <1>8. Placed(g, S, budget)
    <2>1. ASSUME NEW s \in SUBSET S
          PROVE  g[s] = IF s = {} THEN << <<>> >>
                        ELSE Place(g[s \ {Max(s)}], PlanTensors[Max(s)], budget)
      <3>1. CASE s = {}
        BY <1>7, <3>1 DEF FoldsUp
      <3>2. CASE s # {}
        <4>1. pick[s] = Max(s) /\ Max(s) \in S /\ s \ {Max(s)} \in SUBSET S
          BY <1>3, <3>2
        <4>2. g[s \ {Max(s)}] \in V
          BY <4>1
        <4>3. g[s] = op[<<Max(s), g[s \ {Max(s)}]>>]
          BY <1>7, <3>2, <4>1 DEF FoldsUp
        <4> QED
          BY <1>6, <3>2, <4>1, <4>2, <4>3
      <3> QED
        BY <3>1, <3>2
    <2>2. g = [s \in SUBSET S |-> g[s]]
      OBVIOUS
    <2> QED
      BY <2>1, <2>2 DEF Placed
  <1>9. PICK f : Placed(f, S, budget) /\ PlanShards(budget) = f[S]
    <2>1. Placed((CHOOSE f : Placed(f, S, budget)), S, budget)
      BY <1>8, Zenon
    <2> QED
      BY <1>1, <2>1, PlanShardsIs
  <1> DEFINE P == {k \in 0..N : Cut(f[1..k], k)}
  <1>10. 0 \in P
    <2>1. f[1..0] = << <<>> >>
      <3>1. 1..0 = {} /\ {} \in SUBSET S
        OBVIOUS
      <3> QED
        BY <1>9, <3>1 DEF Placed
    <2>2. Cuts([i \in 0..1 |-> 0], << <<>> >>, 0)
      BY DEF Cuts
    <2>3. Cut(<< <<>> >>, 0)
      BY <2>2 DEF Cut
    <2> QED
      BY <1>1, <2>1, <2>3
  <1>11. ASSUME NEW k \in 0..N - 1, k \in P
         PROVE  k + 1 \in P
    <2>1. k \in Nat /\ k < N /\ k + 1 \in 1..N /\ k + 1 \in 0..N
      BY <1>1
    <2>2. /\ 1..k + 1 \in SUBSET S /\ 1..k + 1 # {} /\ Max(1..k + 1) = k + 1
          /\ (1..k + 1) \ {k + 1} = 1..k
      <3>1. /\ 1..k + 1 \in SUBSET (1..N) /\ 1..k + 1 # {} /\ Max(1..k + 1) = k + 1
            /\ (1..k + 1) \ {Max(1..k + 1)} = 1..(k + 1) - 1
        BY <1>1, <2>1, MaxUpTo
      <3>2. (k + 1) - 1 = k
        BY <2>1
      <3> QED
        BY <3>1, <3>2 DEF S
    <2>3. f[1..k + 1] = Place(f[1..k], PlanTensors[k + 1], budget)
      BY <1>9, <2>2 DEF Placed
    <2>4. Cut(f[1..k], k)
      BY <1>11
    <2>5. Cut(Place(f[1..k], PlanTensors[k + 1], budget), k + 1)
      BY <2>1, <2>4, PlaceCuts DEF N
    <2> QED
      BY <2>1, <2>3, <2>5
  <1> HIDE DEF P
  <1>12. N \in P
    <2>1. \A k \in 0..N : k \in P
      BY <1>1, <1>10, <1>11, UpTo
    <2> QED
      BY <1>1, <2>1
  <1> QED
    BY <1>9, <1>12 DEF P, S, N
----------------------------------------------------------------------------
(* The invariant. *)

\* The plans that a run may follow.
Plans == {PlanShards(b) : b \in Budgets}

\* The steps of a run of convert, and those of it after the last shard, with what
\* has been written before each.
Sharding == {"open", "fill", "replace", "size"}
Complete == {"manifest", "done"}
Accompanied == Complete \union {"model", "model_open"}
Configured == Accompanied \union {"companions", "companions_open"}
Indexed == Configured \union {"config"}
Checked == Indexed \union {"index", "index_open"}
Converting == Sharding \union {"check"} \union Checked
Regenerating == {"regenerate", "regenerate_open", "record"}

\* A file that is being written.
Parts == [holds : Seq(Arrays), data : Seq(Sources)]

\* The types of the variables.
Types ==
    /\ shard \in [ShardNames -> Shards \union {NoFile}]
    /\ file = [k \in Supports |-> file[k]]
    /\ pc \in Converting \union Regenerating \union {"rest", "refused"}
    /\ source \in Sources
    /\ produced \in [DOMAIN produced -> {source}]
    /\ tmp \in Parts \union {NoFile}
    /\ unsynced \in [shards : SUBSET ShardNames, files : SUBSET Supports]
    /\ runs \in Nat /\ powerLosses \in Nat /\ damage \in Nat

\* A run of convert is at a shard of its plan.
AtWork ==
    pc \in Converting =>
        plan \in Plans /\ at \in 1..Len(plan) /\ (pc \notin Sharding => at = Len(plan))

\* A shard that is not on the disk yet has not replaced another.
Unsynced ==
    unsynced.shards # {} => tmp # NoFile /\ pc \in {"fill", "rest"} /\ unsynced.shards = {Name}

\* All of s are x.
Of(s, x) == \A i \in 1..Len(s) : s[i] = x

\* What is written is of this run's source.
Filled ==
    pc \in {"fill", "replace"} =>
        /\ tmp # NoFile /\ tmp.holds = plan[at] /\ Len(tmp.data) <= Len(tmp.holds)
        /\ Of(tmp.data, source)
        /\ pc = "replace" => Whole(tmp)

\* A file in place is whole, and of some plan.
Stored(f) ==
    /\ Whole(shard[f])
    /\ damage = 0 => shard[f].data \in Seq(Sources)
    /\ \E p \in Plans : \E i \in 1..Len(p) : f = ShardName(i, Len(p)) /\ shard[f].holds = p[i]

\* A shard in place is whole, and what is being written is of this run.
Safe ==
    Types /\ AtWork /\ Unsynced /\ Filled /\ \A f \in Present : Stored(f)

\* What this run has put in place: shard i.
Made(i) ==
    LET f == ShardName(i, Len(plan))
    IN  /\ shard[f] # NoFile /\ shard[f].holds = plan[i]
        /\ (pc = "done" => damage = 0) => Of(shard[f].data, source)

\* The shards behind a run are of its source.
MadeSoFar ==
    pc \in Converting =>
        /\ \A i \in 1..at - 1 : Made(i)
        /\ pc \notin {"open", "fill", "replace"} => Made(at)

\* How many arrays the first shards of the plan hold.
Starts == CHOOSE c : Cuts(c, plan, Len(PlanTensors))

\* How many have been written.
Put ==
    IF pc = "open" THEN Starts[at - 1]
    ELSE IF pc = "fill" THEN Starts[at - 1] + Len(tmp.data)
    ELSE Starts[at]

\* The first arrays of the plan that are called x, by their tensors.
Called(k, x) == {t \in ToSet(Tensors) : \E i \in 1..k : PlanTensors[i] = <<t, x>>}

\* What waits after the first k arrays: the scales, if the last of them are codes.
Waiting(k) == IF k > 0 /\ PlanTensors[k][2] = "codes" THEN {PlanTensors[k + 1]} ELSE {}

\* The cache holds the scales of the tensor whose codes were the last to be written, or nothing.
Resident ==
    /\ pc \in Sharding \union {"check"} =>
        /\ Cuts(Starts, plan, Len(PlanTensors))
        /\ DOMAIN produced = Waiting(Put)
        /\ converted = Called(Put, "codes")
        /\ copied = Called(Put, "plain")
    /\ \E t \in ToSet(Tensors) : \A a \in DOMAIN produced : a[1] = t
    /\ pc # "refused"

\* What the run has written besides.
Written ==
    /\ pc \in Indexed => file["index"] = [weight_map |-> WeightMap, total |-> Weight(PlanTensors)]
    /\ pc \in Configured => file["config"] = source
    /\ pc \in Accompanied => file["companions"] = source
    /\ pc \in Complete => file["model_file"] = "emitted"

\* Until something else has happened to the directory than one run.
FirstRun ==
    runs <= 1 /\ powerLosses = 0 =>
        /\ pc \notin Regenerating
        /\ runs = 0 => pc = "rest" /\ Present = {} /\ \A k \in Supports : file[k] = NoFile
        /\ file["manifest"] = NoFile \/ pc = "done"
        /\ runs = 1 => Present \subseteq Names(plan)
----------------------------------------------------------------------------
(* Files are whole. *)

\* A plan is a sequence of shards with names of their own, and cuts the arrays in order.
LEMMA PlanFits ==
    ASSUME NEW p \in Plans
    PROVE  /\ p \in Seq(Seq(Arrays)) /\ Len(p) \in Nat /\ Len(p) > 0
           /\ \A i \in 1..Len(p) :
                 p[i] \in Seq(Arrays) /\ Len(p[i]) \in Nat /\ ShardName(i, Len(p)) \in ShardNames
           /\ Cut(p, Len(PlanTensors))
  <1>1. PICK b \in Budgets : p = PlanShards(b)
    BY DEF Plans
  <1>2. Cut(p, Len(PlanTensors))
    BY <1>1, PlanIsCut
  <1>3. p \in Seq(Seq(Arrays)) /\ Len(p) \in Nat /\ Len(p) > 0
    BY <1>2 DEF Cut
  <1>4. \A i \in 1..Len(p) : p[i] \in Seq(Arrays) /\ Len(p[i]) \in Nat
    BY <1>3
  <1>5. \A i \in 1..Len(p) : ShardName(i, Len(p)) \in ShardNames
    BY <1>1 DEF ShardNames, Names
  <1> QED
    BY <1>2, <1>3, <1>4, <1>5

\* Two shards of one name have the same place in plans of one length.
LEMMA NamesDiffer ==
    ASSUME NEW i, NEW n, NEW j, NEW m, ShardName(i, n) = ShardName(j, m)
    PROVE  i = j /\ n = m
  BY DEF ShardName

\* What has been written of a file can stand in for the file.
LEMMA PartsAreShards == Parts \subseteq Shards /\ NoFile \notin Parts
  <1>1. Seq(Sources) \subseteq Seq(Sources \union {Damaged})
    OBVIOUS
  <1> QED
    BY <1>1, DirAssumption DEF Parts, Shards

\* The shard a run is at.
LEMMA NameOfShard ==
    ASSUME Types, AtWork, pc \in Converting
    PROVE  /\ Name \in ShardNames /\ plan[at] \in Seq(Arrays) /\ Len(plan[at]) \in Nat
           /\ Len(plan) \in Nat /\ at \in Nat /\ at >= 1 /\ at <= Len(plan)
  <1>1. plan \in Plans /\ at \in 1..Len(plan)
    BY DEF AtWork
  <1> QED
    BY <1>1, PlanFits DEF Name

\* In an empty directory everything is whole.
LEMMA SafeInit == Init => Safe
  <1> SUFFICES ASSUME Init PROVE Safe
    OBVIOUS
  <1>1. Present = {}
    BY DEF Init, Present
  <1>2. Types
    <2>1. produced \in [DOMAIN produced -> {source}]
      BY DEF Init
    <2>2. unsynced \in [shards : SUBSET ShardNames, files : SUBSET Supports]
      BY DEF Init, Synced
    <2> QED
      BY <2>1, <2>2 DEF Init, Types
  <1> QED
    BY <1>1, <1>2 DEF Init, Safe, AtWork, Unsynced, Filled, Synced, Converting, Sharding, Checked,
          Indexed, Configured, Accompanied, Complete

\* Nothing but a file is written, and perhaps put among those that are not on the disk.
WritesFile ==
    \/ OpenIndex \/ WriteIndex \/ WriteConfig \/ OpenCompanions \/ CopyCompanions
    \/ OpenModelFile \/ WriteModelFile \/ WriteManifest
    \/ ReopenModelFile \/ RewriteModelFile \/ RewriteManifest

\* The steps in which a file is written.
Passes(from, to) ==
    \/ from \in Checked \ {"done"} /\ to \in Checked
    \/ from \in Regenerating /\ to \in Regenerating \union {"rest"}

\* A step that writes a file leaves shards, temporary file and caches alone.
LEMMA FileStep ==
    ASSUME Types, WritesFile
    PROVE  /\ Passes(pc, pc')
           /\ shard' = shard /\ tmp' = tmp /\ memory' = memory /\ counts' = counts
           /\ file' = [k \in Supports |-> file'[k]]
           /\ unsynced' \in [shards : SUBSET ShardNames, files : SUBSET Supports]
           /\ unsynced'.shards = unsynced.shards
  <1>1. ASSUME NEW k \in Supports, NEW from, NEW to, Empty(k, from, to), Passes(from, to)
        PROVE  /\ Passes(pc, pc')
               /\ shard' = shard /\ tmp' = tmp /\ memory' = memory /\ counts' = counts
               /\ file' = [i \in Supports |-> file'[i]]
               /\ unsynced' = unsynced
    <2>1. file' = [i \in Supports |-> IF i = k THEN Torn ELSE file[i]]
      BY <1>1 DEF Empty, Types
    <2> QED
      BY <1>1, <2>1 DEF Empty
  <1>2. ASSUME NEW k \in Supports, NEW content, NEW from, NEW to, Write(k, content, from, to),
               Passes(from, to)
        PROVE  /\ Passes(pc, pc')
               /\ shard' = shard /\ tmp' = tmp /\ memory' = memory /\ counts' = counts
               /\ file' = [i \in Supports |-> file'[i]]
               /\ unsynced' \in [shards : SUBSET ShardNames, files : SUBSET Supports]
               /\ unsynced'.shards = unsynced.shards
    <2>1. file' = [i \in Supports |-> IF i = k THEN content ELSE file[i]]
      BY <1>2 DEF Write, Types
    <2>2. unsynced' = [shards |-> unsynced.shards, files |-> unsynced.files \union {k}]
      BY <1>2 DEF Write, Types
    <2>3. unsynced.shards \subseteq ShardNames /\ unsynced.files \subseteq Supports
      BY DEF Types
    <2>4. unsynced.files \union {k} \in SUBSET Supports
      BY <2>3
    <2>5. unsynced' \in [shards : SUBSET ShardNames, files : SUBSET Supports]
      BY <2>2, <2>3, <2>4
    <2>6. unsynced'.shards = unsynced.shards
      BY <2>2
    <2>7. file' = [i \in Supports |-> file'[i]]
      BY <2>1
    <2>8. pc = from /\ pc' = to /\ shard' = shard /\ tmp' = tmp /\ memory' = memory /\ counts' = counts
      BY <1>2 DEF Write
    <2> QED
      BY <1>2, <2>5, <2>6, <2>7, <2>8
  <1> USE DEF Passes, Checked, Indexed, Configured, Accompanied, Complete, Regenerating
  <1>3. {"index", "config", "companions", "model_file", "manifest"} \subseteq Supports
    BY DEF Supports
  <1>4. unsynced \in [shards : SUBSET ShardNames, files : SUBSET Supports]
    BY DEF Types
  <1>5. CASE OpenIndex \/ OpenCompanions \/ OpenModelFile \/ ReopenModelFile
    BY <1>1, <1>3, <1>4, <1>5 DEF OpenIndex, OpenCompanions, OpenModelFile, ReopenModelFile
  <1>6. CASE WriteIndex \/ WriteConfig \/ CopyCompanions
    BY <1>2, <1>3, <1>6 DEF WriteIndex, WriteConfig, CopyCompanions
  <1>7. CASE WriteModelFile \/ WriteManifest
    BY <1>2, <1>3, <1>7 DEF WriteModelFile, WriteManifest
  <1>8. CASE RewriteModelFile \/ RewriteManifest
    BY <1>2, <1>3, <1>8 DEF RewriteModelFile, RewriteManifest
  <1> QED
    BY <1>5, <1>6, <1>7, <1>8 DEF WritesFile

\* One more array of this run's source is written.
LEMMA OneMorePut ==
    ASSUME Types, AtWork, Filled, Filling, PutArray(source)
    PROVE  /\ tmp' \in Parts /\ tmp'.holds = plan[at] /\ tmp.data \in Seq(Sources)
           /\ Len(tmp'.data) = Len(tmp.data) + 1 /\ Len(tmp'.data) <= Len(tmp'.holds)
           /\ Of(tmp'.data, source)
           /\ Len(tmp.data) \in Nat /\ Len(tmp.data) < Len(plan[at])
           /\ NextArray = plan[at][Len(tmp.data) + 1]
  <1>1. pc = "fill" /\ tmp # NoFile /\ tmp \in Parts /\ source \in Sources
    BY DEF Filling, Filled, Types
  <1>2. /\ tmp = [holds |-> tmp.holds, data |-> tmp.data]
        /\ tmp.holds \in Seq(Arrays) /\ tmp.data \in Seq(Sources)
    BY <1>1 DEF Parts
  <1>3. /\ tmp.holds = plan[at] /\ Len(tmp.data) <= Len(tmp.holds) /\ Of(tmp.data, source)
        /\ Len(tmp.data) # Len(tmp.holds)
    BY <1>1 DEF Filled, Filling, Whole
  <1>4. tmp' = [holds |-> tmp.holds, data |-> Append(tmp.data, source)]
    BY <1>2 DEF PutArray
  <1>5. PICK d \in Seq(Sources) : d = tmp.data
    BY <1>2
  <1>6. /\ Append(d, source) \in Seq(Sources) /\ Len(Append(d, source)) = Len(d) + 1
        /\ \A i \in 1..Len(d) : Append(d, source)[i] = d[i]
        /\ Append(d, source)[Len(d) + 1] = source
        /\ Len(d) \in Nat
    BY <1>1
  <1>7. Of(Append(d, source), source)
    BY <1>3, <1>5, <1>6 DEF Of
  <1>8. Len(tmp.holds) \in Nat
    BY <1>2
  <1>9. tmp' \in Parts
    BY <1>2, <1>4, <1>5, <1>6 DEF Parts
  <1> QED
    BY <1>2, <1>3, <1>4, <1>5, <1>6, <1>7, <1>8, <1>9 DEF NextArray

\* An array that is put is of this run's source.
LEMMA SafeFill ==
    ASSUME Safe, FillCached \/ FillBuilt \/ FillCopied
    PROVE  /\ PutArray(source) /\ Filling /\ shard' = shard /\ file' = file /\ pc' = pc
           /\ unsynced' = unsynced /\ counts' = counts /\ plan' = plan /\ at' = at
           /\ source' = source
           /\ produced' \in [DOMAIN produced' -> {source}]
  <1>1. CASE FillCached
    <2>1. produced[NextArray] = source /\ NextArray \in DOMAIN produced
      BY <1>1 DEF Safe, Types, FillCached
    <2>2. produced' \in [DOMAIN produced \ {NextArray} -> {source}]
      BY <1>1 DEF Safe, Types, FillCached, WithoutKey
    <2> QED
      BY <1>1, <2>1, <2>2 DEF FillCached, dir, counts
  <1>2. CASE FillBuilt
    <2> DEFINE t == NextArray[1]
    <2>1. BytesOf(t) = source
      BY <1>2 DEF FillBuilt, BytesOf
    <2>2. produced' \in [(DOMAIN produced \union ToSet(ArraysOf(t))) \ {NextArray} -> {source}]
      <3>1. produced' = [a \in (DOMAIN produced \union ToSet(ArraysOf(t))) \ {NextArray} |->
                            IF a \in ToSet(ArraysOf(t)) THEN BytesOf(t) ELSE produced[a]]
        BY <1>2 DEF FillBuilt
      <3>2. \A a \in DOMAIN produced : produced[a] = source
        BY DEF Safe, Types
      <3> HIDE DEF t
      <3> QED
        BY <2>1, <3>1, <3>2
    <2> QED
      BY <1>2, <2>1, <2>2 DEF FillBuilt, dir, counts
  <1>3. CASE FillCopied
    BY <1>3 DEF FillCopied, dir, counts, Safe, Types
  <1> QED
    BY <1>1, <1>2, <1>3

\* Every step keeps the shards whole.
LEMMA SafeStep == Safe /\ [Next]_vars => Safe'
  <1> SUFFICES ASSUME Safe, [Next]_vars PROVE Safe'
    OBVIOUS
  <1> USE DEF dir, counts, memory
  <1>0. Types /\ AtWork /\ Unsynced /\ Filled /\ (\A f \in Present : Stored(f))
    BY DEF Safe
  <1>a. ASSUME shard' = shard, damage' = damage
        PROVE  \A f \in Present' : Stored(f)'
    BY <1>0, <1>a DEF Present, Stored, Whole
  <1>b. /\ unsynced.shards \subseteq ShardNames /\ unsynced.files \subseteq Supports
        /\ unsynced = [shards |-> unsynced.shards, files |-> unsynced.files]
    BY <1>0 DEF Types
  <1>1. ASSUME NEW s \in Sources, NEW b \in Budgets, NEW bad \in SUBSET Quantised, Start(s, b, bad)
        PROVE  Safe'
    <2>1. plan' \in Plans /\ at' = 1 /\ pc' = "open"
      BY <1>1 DEF Start, Plans
    <2>2. at' \in 1..Len(plan')
      BY <2>1, PlanFits
    <2>3. Types'
      <3>1. produced' \in [DOMAIN produced' -> {source'}]
        BY <1>1 DEF Start
      <3>2. unsynced' \in [shards : SUBSET ShardNames, files : SUBSET Supports]
        BY <1>1 DEF Start, Synced
      <3>3. runs' \in Nat
        BY <1>0, <1>1 DEF Start, Types
      <3> QED
        BY <1>0, <1>1, <3>1, <3>2, <3>3 DEF Start, Types, Converting, Sharding
    <2>4. AtWork'
      BY <2>1, <2>2 DEF AtWork, Sharding
    <2>5. Unsynced' /\ Filled'
      BY <1>1, <2>1 DEF Start, Synced, Unsynced, Filled
    <2> QED
      BY <1>1, <1>a, <2>3, <2>4, <2>5 DEF Start, Safe
  <1>2. ASSUME Open
        PROVE  Safe'
    <2>1. pc = "open" /\ pc' = "fill" /\ at' = at /\ plan' = plan /\ source' = source
      BY <1>2 DEF Open
    <2>2. Name \in ShardNames /\ plan[at] \in Seq(Arrays)
      BY <1>0, <2>1, NameOfShard DEF Converting, Sharding
    <2>3. tmp' \in Parts /\ tmp' # NoFile /\ tmp'.holds = plan[at] /\ tmp'.data = <<>>
      <3>1. tmp' = [holds |-> plan[at], data |-> <<>>]
        BY <1>2 DEF Open
      <3>2. <<>> \in Seq(Sources)
        OBVIOUS
      <3>3. tmp' \in Parts
        BY <2>2, <3>1, <3>2 DEF Parts
      <3> QED
        BY <3>1, <3>3, PartsAreShards
    <2>4. unsynced' = [shards |-> {Name}, files |-> unsynced.files]
      <3>1. unsynced.shards = {}
        BY <1>0, <2>1 DEF Unsynced
      <3> QED
        BY <1>2, <1>b, <3>1 DEF Open
    <2>5. Types'
      <3>1. unsynced' \in [shards : SUBSET ShardNames, files : SUBSET Supports]
        BY <1>b, <2>2, <2>4
      <3> QED
        BY <1>0, <1>2, <2>1, <2>3, <3>1 DEF Open, Types, Converting, Sharding
    <2>6. AtWork'
      BY <1>0, <2>1 DEF AtWork, Converting, Sharding
    <2>7. Unsynced'
      BY <2>1, <2>3, <2>4 DEF Unsynced, Name
    <2>8. Filled'
      <3>1. Len(plan[at]) >= 0
        BY <2>2
      <3> QED
        BY <2>1, <2>3, <3>1 DEF Filled, Of
    <2> QED
      BY <1>2, <1>a, <2>5, <2>6, <2>7, <2>8 DEF Open, Safe
  <1>3. ASSUME FillCached \/ FillBuilt \/ FillCopied
        PROVE  Safe'
    <2>1. /\ PutArray(source) /\ Filling /\ shard' = shard /\ file' = file /\ pc' = pc
          /\ unsynced' = unsynced /\ counts' = counts /\ plan' = plan /\ at' = at
          /\ source' = source
          /\ produced' \in [DOMAIN produced' -> {source}]
      BY <1>3, SafeFill
    <2>2. /\ tmp' \in Parts /\ tmp'.holds = plan[at]
          /\ Len(tmp'.data) <= Len(tmp'.holds) /\ Of(tmp'.data, source)
      BY <1>0, <2>1, OneMorePut
    <2>3. pc = "fill" /\ tmp' # NoFile
      BY <2>1, <2>2, PartsAreShards DEF Filling
    <2>4. Types'
      BY <1>0, <2>1, <2>2 DEF Types
    <2>5. AtWork'
      BY <1>0, <2>1 DEF AtWork
    <2>6. Unsynced'
      BY <1>0, <2>1, <2>3 DEF Unsynced, Name
    <2>7. Filled'
      BY <2>1, <2>2, <2>3 DEF Filled
    <2> QED
      BY <1>a, <2>1, <2>4, <2>5, <2>6, <2>7 DEF Safe
  <1>4. ASSUME Sync
        PROVE  Safe'
    <2>1. /\ pc = "fill" /\ pc' = "replace" /\ Whole(tmp) /\ at' = at
          /\ plan' = plan /\ source' = source /\ tmp' = tmp
      BY <1>4 DEF Sync
    <2>2. unsynced' = [shards |-> unsynced.shards \ {Name}, files |-> unsynced.files]
      BY <1>4, <1>b DEF Sync
    <2>3. unsynced'.shards = {}
      BY <1>0, <2>2 DEF Unsynced
    <2>4. Types'
      <3>1. unsynced' \in [shards : SUBSET ShardNames, files : SUBSET Supports]
        BY <1>b, <2>2
      <3> QED
        BY <1>0, <1>4, <2>1, <3>1 DEF Sync, Types, Converting, Sharding
    <2>5. AtWork'
      BY <1>0, <2>1 DEF AtWork, Converting, Sharding
    <2>6. Unsynced' /\ Filled'
      BY <1>0, <2>1, <2>3 DEF Unsynced, Filled, Whole
    <2> QED
      BY <1>4, <1>a, <2>4, <2>5, <2>6 DEF Sync, Safe
  <1>5. ASSUME Replace
        PROVE  Safe'
    <2>1. pc = "replace" /\ pc' = "size" /\ at' = at /\ plan' = plan /\ source' = source /\ tmp' = NoFile
          /\ shard' = [shard EXCEPT ![Name] = tmp] /\ unsynced' = unsynced /\ damage' = damage
      BY <1>5 DEF Replace
    <2>2. Name \in ShardNames /\ plan \in Plans /\ at \in 1..Len(plan)
      BY <1>0, <2>1, NameOfShard DEF AtWork, Converting, Sharding
    <2>3. tmp \in Parts /\ tmp # NoFile /\ tmp.holds = plan[at] /\ Whole(tmp)
      BY <1>0, <2>1 DEF Filled, Types
    <2>4. Types'
      <3>1. shard' \in [ShardNames -> Shards \union {NoFile}]
        BY <1>0, <2>1, <2>3, PartsAreShards DEF Types
      <3> QED
        BY <1>0, <1>5, <2>1, <3>1 DEF Replace, Types, Converting, Sharding
    <2>5. AtWork'
      BY <1>0, <2>1 DEF AtWork, Converting, Sharding
    <2>6. Unsynced' /\ Filled'
      BY <1>0, <2>1 DEF Unsynced, Filled
    <2>7. ASSUME NEW f \in Present'
          PROVE  Stored(f)'
      <3>1. f \in ShardNames /\ shard'[f] # NoFile /\ DOMAIN shard = ShardNames
        BY <1>0, <2>1, <2>7 DEF Present, Types
      <3>2. CASE f = Name
        <4>1. shard'[f] = tmp
          BY <2>1, <3>1, <3>2
        <4>2. tmp.data \in Seq(Sources)
          BY <2>3 DEF Parts
        <4> QED
          BY <2>2, <2>3, <3>2, <4>1, <4>2 DEF Stored, Whole, Name
      <3>3. CASE f # Name
        <4>1. shard'[f] = shard[f] /\ f \in Present
          BY <2>1, <3>1, <3>3 DEF Present
        <4> QED
          BY <1>0, <2>1, <4>1 DEF Stored, Whole
      <3> QED
        BY <3>2, <3>3
    <2> QED
      BY <2>4, <2>5, <2>6, <2>7 DEF Safe
  <1>6. ASSUME Abort
        PROVE  Safe'
    <2>1. pc' = "rest" /\ tmp' = NoFile /\ pc \in InShard /\ shard' = shard /\ damage' = damage
      BY <1>6 DEF Abort
    <2>2. unsynced' = [shards |-> unsynced.shards \ {Name}, files |-> unsynced.files]
      BY <1>6, <1>b DEF Abort
    <2>3. unsynced'.shards = {}
      BY <1>0, <2>2 DEF Unsynced
    <2>4. Types'
      <3>1. unsynced' \in [shards : SUBSET ShardNames, files : SUBSET Supports]
        BY <1>b, <2>2
      <3> QED
        BY <1>0, <1>6, <2>1, <3>1 DEF Abort, Types
    <2>5. AtWork'
      BY <2>1 DEF AtWork, Converting, Sharding, Checked, Indexed, Configured, Accompanied, Complete
    <2>6. Unsynced' /\ Filled'
      BY <2>1, <2>3 DEF Unsynced, Filled
    <2> QED
      BY <1>a, <2>1, <2>4, <2>5, <2>6 DEF Safe
  <1>7. ASSUME CheckSize
        PROVE  Safe'
    <2>1. /\ pc = "size" /\ shard' = shard /\ damage' = damage /\ plan' = plan /\ tmp' = tmp
          /\ unsynced' = unsynced
          /\ \/ pc' = "refused" /\ at' = at
             \/ pc' = "open" /\ at < Len(plan) /\ at' = at + 1
             \/ pc' = "check" /\ ~(at < Len(plan)) /\ at' = at
      BY <1>7 DEF CheckSize
    <2>2. at \in Nat /\ at >= 1 /\ at <= Len(plan) /\ Len(plan) \in Nat /\ plan \in Plans
      BY <1>0, <2>1, NameOfShard DEF Converting, Sharding, AtWork
    <2>3. Types'
      BY <1>0, <1>7, <2>1 DEF CheckSize, Types, Converting, Sharding
    <2>4. AtWork'
      <3>1. at' \in 1..Len(plan') /\ (pc' = "check" => at' = Len(plan'))
        BY <2>1, <2>2
      <3> QED
        BY <2>1, <2>2, <3>1
        DEF AtWork, Converting, Sharding, Checked, Indexed, Configured, Accompanied, Complete
    <2>5. Unsynced' /\ Filled'
      BY <1>0, <2>1 DEF Unsynced, Filled
    <2> QED
      BY <1>a, <2>1, <2>3, <2>4, <2>5 DEF Safe
  <1>8. ASSUME Check
        PROVE  Safe'
    <2>1. /\ pc = "check" /\ pc' \in {"index", "refused"} /\ shard' = shard
          /\ damage' = damage /\ plan' = plan /\ tmp' = tmp /\ at' = at /\ unsynced' = unsynced
      BY <1>8 DEF Check
    <2>2. Types'
      BY <1>0, <1>8, <2>1 DEF Check, Types, Converting, Checked
    <2>3. AtWork' /\ Unsynced' /\ Filled'
      BY <1>0, <2>1
      DEF AtWork, Unsynced, Filled, Converting, Sharding, Checked, Indexed, Configured, Accompanied, Complete
    <2> QED
      BY <1>a, <2>1, <2>2, <2>3 DEF Safe
  <1>9. ASSUME WritesFile
        PROVE  Safe'
    <2>1. /\ Passes(pc, pc')
          /\ shard' = shard /\ tmp' = tmp /\ memory' = memory /\ counts' = counts
          /\ file' = [k \in Supports |-> file'[k]]
          /\ unsynced' \in [shards : SUBSET ShardNames, files : SUBSET Supports]
          /\ unsynced'.shards = unsynced.shards
      BY <1>0, <1>9, FileStep
    <2>2. Types'
      BY <1>0, <2>1 DEF Types, Passes, Converting
    <2>3. AtWork' /\ Unsynced' /\ Filled'
      BY <1>0, <2>1 DEF AtWork, Unsynced, Filled, Passes, Converting, Sharding, Checked, Indexed, Configured,
            Accompanied, Complete, Regenerating
    <2> QED
      BY <1>a, <2>1, <2>2, <2>3 DEF Safe
  <1>10. ASSUME Regenerate
         PROVE  Safe'
    <2>1. /\ pc' = "regenerate" /\ shard' = shard /\ damage' = damage /\ tmp' = tmp /\ unsynced' = Synced
          /\ runs' \in Nat
      BY <1>0, <1>10 DEF Regenerate, Types
    <2>2. Synced \in [shards : SUBSET ShardNames, files : SUBSET Supports]
      BY DEF Synced
    <2>3. Types'
      BY <1>0, <1>10, <2>1, <2>2 DEF Regenerate, Types, Regenerating
    <2>4. AtWork' /\ Unsynced' /\ Filled'
      BY <2>1
      DEF AtWork, Unsynced, Filled, Synced, Converting, Sharding, Checked, Indexed,
          Configured, Accompanied, Complete
    <2> QED
      BY <1>a, <2>1, <2>3, <2>4 DEF Safe
  <1>11. ASSUME Kill
         PROVE  Safe'
    <2>1. /\ pc' = "rest" /\ shard' = shard /\ damage' = damage /\ tmp' = tmp /\ unsynced' = unsynced
          /\ plan' = plan /\ at' = at
      BY <1>11 DEF Kill
    <2>2. Types'
      BY <1>0, <1>11, <2>1 DEF Kill, Types
    <2>3. AtWork' /\ Filled'
      BY <2>1 DEF AtWork, Filled, Converting, Sharding, Checked, Indexed, Configured, Accompanied, Complete
    <2>4. Unsynced'
      BY <1>0, <2>1 DEF Unsynced, Name
    <2> QED
      BY <1>a, <2>1, <2>2, <2>3, <2>4 DEF Safe
  <1>12. ASSUME PowerLoss
         PROVE  Safe'
    <2>1. pc' = "rest" /\ tmp' = NoFile /\ unsynced' = Synced /\ damage' = damage /\ powerLosses' \in Nat
      BY <1>0, <1>12 DEF PowerLoss, Types
    <2>2. shard' = shard
      <3>1. \A f \in ShardNames : ~(f \in unsynced.shards /\ f \in Present /\ (tmp = NoFile \/ f # Name))
        BY <1>0 DEF Unsynced
      <3>2. shard = [f \in ShardNames |-> shard[f]]
        BY <1>0 DEF Types
      <3>3. PICK keep \in 0..Len(PlanTensors) :
               shard' = [f \in ShardNames |->
                        IF f \in unsynced.shards /\ f \in Present /\ (tmp = NoFile \/ f # Name)
                        THEN [shard[f] EXCEPT !.data = SubSeq(@, 1, Min({keep, Len(@)}))]
                        ELSE shard[f]]
        BY <1>12 DEF PowerLoss
      <3> QED
        BY <3>1, <3>2, <3>3
    <2>3. file' = [k \in Supports |-> file'[k]]
      BY <1>12 DEF PowerLoss
    <2>4. Synced \in [shards : SUBSET ShardNames, files : SUBSET Supports]
      BY DEF Synced
    <2>5. Types'
      BY <1>0, <1>12, <2>1, <2>2, <2>3, <2>4 DEF PowerLoss, Types
    <2>6. AtWork' /\ Unsynced' /\ Filled'
      BY <2>1
      DEF AtWork, Unsynced, Filled, Synced, Converting, Sharding, Checked, Indexed,
          Configured, Accompanied, Complete
    <2> QED
      BY <1>a, <2>1, <2>2, <2>5, <2>6 DEF Safe
  <1>13. ASSUME NEW f \in Present, NEW i \in DOMAIN shard[f].data, Damage(f, i)
         PROVE  Safe'
    <2>1. pc' = pc /\ tmp' = tmp /\ unsynced' = unsynced /\ damage' = damage + 1 /\ pc \in Idle
          /\ plan' = plan /\ at' = at /\ source' = source
      BY <1>13 DEF Damage
    <2>2. f \in ShardNames /\ shard[f] \in Shards /\ shard[f] # NoFile
      BY <1>0 DEF Present, Types
    <2> DEFINE d == [shard[f].data EXCEPT ![i] = Damaged]
               s == [holds |-> shard[f].holds, data |-> d]
    <2>3. d \in Seq(Sources \union {Damaged}) /\ Len(d) = Len(shard[f].data)
      BY <2>2 DEF Shards
    <2> HIDE DEF d
    <2>4. shard' = [shard EXCEPT ![f] = s]
      <3>1. shard' = [shard EXCEPT ![f] = [shard[f] EXCEPT !.data = [shard[f].data EXCEPT ![i] = Damaged]]]
        BY <1>13 DEF Damage
      <3>2. [shard[f] EXCEPT !.data = d] = s
        BY <2>2 DEF Shards
      <3> QED
        BY <3>1, <3>2 DEF d
    <2>5. s \in Shards
      BY <2>2, <2>3 DEF Shards
    <2> HIDE DEF s
    <2>6. Types'
      <3>1. shard' \in [ShardNames -> Shards \union {NoFile}]
        BY <1>0, <2>4, <2>5 DEF Types
      <3>2. damage' \in Nat
        BY <1>0, <2>1 DEF Types
      <3> QED
        BY <1>0, <1>13, <2>1, <3>1, <3>2 DEF Damage, Types
    <2>7. AtWork' /\ Filled' /\ Unsynced'
      BY <1>0, <2>1 DEF AtWork, Filled, Unsynced, Name
    <2>8. ASSUME NEW g \in Present'
          PROVE  Stored(g)'
      <3>1. g \in ShardNames /\ shard'[g] # NoFile /\ DOMAIN shard = ShardNames /\ damage' # 0
        BY <1>0, <2>1, <2>4, <2>8 DEF Present, Types
      <3>2. CASE g = f
        <4>1. shard'[g] = s /\ s.holds = shard[f].holds /\ Len(s.data) = Len(shard[f].data)
          BY <2>3, <2>4, <3>1, <3>2 DEF s
        <4> QED
          BY <1>0, <3>1, <3>2, <4>1 DEF Stored, Whole
      <3>3. CASE g # f
        <4>1. shard'[g] = shard[g] /\ g \in Present
          BY <2>4, <3>1, <3>3 DEF Present
        <4> QED
          BY <1>0, <3>1, <4>1 DEF Stored, Whole
      <3> QED
        BY <3>2, <3>3
    <2> QED
      BY <2>6, <2>7, <2>8 DEF Safe
  <1>14. ASSUME UNCHANGED vars
         PROVE  Safe'
    <2>1. Types' /\ AtWork' /\ Unsynced' /\ Filled'
      BY <1>0, <1>14 DEF vars, Types, AtWork, Unsynced, Name, Filled, Whole
    <2> QED
      BY <1>14, <1>a, <2>1 DEF vars, Safe
  <1> QED
    BY <1>1, <1>2, <1>3, <1>4, <1>5, <1>6, <1>7, <1>8, <1>9, <1>10, <1>11, <1>12, <1>13, <1>14
       DEF Next, WritesFile

\* The shards are whole in every reachable state.
LEMMA AlwaysSafe == Spec => []Safe
  BY SafeInit, SafeStep, PTL DEF Spec

\* A file in place is complete (write_shard), wherever the program or the power
\* stopped, and holds no array with another digest than the sidecar's.
THEOREM ShardsAreWhole == Spec => []ShardsWhole
  <1>1. ASSUME Safe PROVE ShardsWhole
    <2> SUFFICES ASSUME NEW f \in Present
                 PROVE  Whole(shard[f]) /\ (damage = 0 => Damaged \notin ToSet(shard[f].data))
      BY DEF ShardsWhole
    <2>1. Stored(f)
      BY <1>1 DEF Safe
    <2>2. ASSUME NEW d \in Seq(Sources)
          PROVE  Damaged \notin ToSet(d)
      BY DirAssumption DEF ToSet
    <2> QED
      BY <2>1, <2>2 DEF Stored
  <1> QED
    BY <1>1, AlwaysSafe, PTL

----------------------------------------------------------------------------
(* What this run has made. *)

\* Nothing that it made is touched.
LEMMA MadeStays ==
    ASSUME MadeSoFar, shard' = shard, plan' = plan, at' = at, source' = source,
           pc' \in Converting => pc \in Converting \ {"done"},
           pc' \notin {"open", "fill", "replace"} => pc \notin {"open", "fill", "replace"}
    PROVE  MadeSoFar'
  <1> SUFFICES ASSUME pc' \in Converting
               PROVE  /\ \A i \in 1..at - 1 : Made(i)'
                      /\ pc' \notin {"open", "fill", "replace"} => Made(at)'
    BY DEF MadeSoFar
  <1>1. ASSUME NEW i, Made(i)
        PROVE  Made(i)'
    BY <1>1 DEF Made, Of
  <1> QED
    BY <1>1 DEF MadeSoFar

\* Every step keeps what a run has made.
LEMMA MadeStep == Safe /\ MadeSoFar /\ [Next]_vars => MadeSoFar'
  <1> SUFFICES ASSUME Safe, MadeSoFar, [Next]_vars PROVE MadeSoFar'
    OBVIOUS
  <1> USE DEF dir, counts, memory
  <1>0. Types /\ AtWork /\ Filled /\ Unsynced
    BY DEF Safe
  <1>a. Converting = {"open", "fill", "replace", "size", "check", "index", "index_open", "config",
                      "companions", "companions_open", "model", "model_open", "manifest", "done"}
    BY DEF Converting, Sharding, Checked, Indexed, Configured, Accompanied, Complete
  <1>1. ASSUME NEW s \in Sources, NEW b \in Budgets, NEW bad \in SUBSET Quantised, Start(s, b, bad)
        PROVE  MadeSoFar'
    BY <1>1 DEF Start, MadeSoFar
  <1>2. CASE Open
    BY <1>2, <1>a, MadeStays DEF Open
  <1>3. CASE FillCached \/ FillBuilt \/ FillCopied
    <2>1. Filling /\ shard' = shard /\ pc' = pc /\ plan' = plan /\ at' = at /\ source' = source
      BY <1>3, SafeFill
    <2> QED
      BY <1>a, <2>1, MadeStays DEF Filling
  <1>4. CASE Sync
    BY <1>4, <1>a, MadeStays DEF Sync
  <1>5. CASE Replace
    <2>1. /\ pc = "replace" /\ pc' = "size" /\ at' = at /\ plan' = plan /\ source' = source
          /\ shard' = [shard EXCEPT ![Name] = tmp] /\ damage' = damage
      BY <1>5 DEF Replace
    <2>2. Name \in ShardNames /\ at \in Nat /\ DOMAIN shard = ShardNames
      BY <1>0, <1>a, <2>1, NameOfShard DEF Types
    <2>3. tmp # NoFile /\ tmp.holds = plan[at] /\ Of(tmp.data, source)
      BY <1>0, <2>1 DEF Filled
    <2>4. Made(at)'
      BY <2>1, <2>2, <2>3 DEF Made, Name, Of
    <2>5. ASSUME NEW i \in 1..at - 1
          PROVE  Made(i)'
      <3>1. Made(i) /\ ShardName(i, Len(plan)) # Name
        BY <1>a, <2>1, <2>2, NamesDiffer DEF MadeSoFar, Name
      <3>2. shard'[ShardName(i, Len(plan))] = shard[ShardName(i, Len(plan))]
        BY <2>1, <2>2, <3>1
      <3> QED
        BY <2>1, <3>1, <3>2 DEF Made, Of
    <2> QED
      BY <2>1, <2>4, <2>5 DEF MadeSoFar
  <1>6. CASE CheckSize
    <2>1. /\ pc = "size" /\ shard' = shard /\ plan' = plan /\ source' = source
          /\ \/ pc' = "refused" /\ at' = at
             \/ pc' = "open" /\ at' = at + 1
             \/ pc' = "check" /\ at' = at
      BY <1>6 DEF CheckSize
    <2>2. CASE pc' = "open" /\ at' = at + 1
      <3>1. at \in Nat /\ at >= 1
        BY <1>0, <1>a, <2>1, NameOfShard
      <3>2. \A i \in 1..at' - 1 : i \in 1..at - 1 \/ i = at
        BY <2>2, <3>1
      <3>3. \A i \in 1..at' - 1 : Made(i)
        BY <1>a, <2>1, <3>2 DEF MadeSoFar
      <3>4. \A i \in 1..at' - 1 : Made(i)'
        BY <2>1, <2>2, <3>3 DEF Made, Of
      <3> QED
        BY <2>2, <3>4 DEF MadeSoFar
    <2> QED
      BY <1>a, <2>1, <2>2, MadeStays
  <1>7. CASE Check
    BY <1>7, <1>a, MadeStays DEF Check
  <1>8. CASE WritesFile
    <2>1. Passes(pc, pc') /\ shard' = shard /\ memory' = memory
      BY <1>0, <1>8, FileStep
    <2>2. /\ pc' \in Converting => pc \in Converting \ {"done"}
          /\ pc \notin {"open", "fill", "replace"}
      BY <2>1
      DEF Passes, Checked, Indexed, Configured, Accompanied, Complete, Converting, Regenerating, Sharding
    <2> QED
      BY <2>1, <2>2, MadeStays
  <1>9. CASE Regenerate \/ Abort \/ Kill \/ PowerLoss
    BY <1>9, <1>a DEF Regenerate, Abort, Kill, PowerLoss, MadeSoFar
  <1>10. ASSUME NEW f \in Present, NEW j \in DOMAIN shard[f].data, Damage(f, j)
         PROVE  MadeSoFar'
    <2>1. pc' = pc /\ damage' = damage + 1 /\ pc \in Idle /\ plan' = plan /\ at' = at /\ damage \in Nat
      BY <1>0, <1>10 DEF Damage, Types
    <2>2. shard' = [shard EXCEPT ![f] = [shard[f] EXCEPT !.data = [shard[f].data EXCEPT ![j] = Damaged]]]
      BY <1>10 DEF Damage
    <2>3. f \in ShardNames /\ DOMAIN shard = ShardNames /\ shard[f] \in Shards /\ shard[f] # NoFile
      BY <1>0 DEF Present, Types
    <2>4. \E x : shard'[f] = [holds |-> shard[f].holds, data |-> x]
      BY <2>2, <2>3 DEF Shards
    <2>5. shard'[f].holds = shard[f].holds
      BY <2>4
    <2>6. shard' \in [ShardNames -> Shards \union {NoFile}]
      <3>1. Safe'
        BY SafeStep
      <3> QED
        BY <3>1 DEF Safe, Types
    <2>7. shard'[f] # NoFile
      <3>1. shard'[f].data = [shard[f].data EXCEPT ![j] = Damaged]
        BY <2>2, <2>3 DEF Shards
      <3> DEFINE d == [shard[f].data EXCEPT ![j] = Damaged]
      <3>2. d \in Seq(Sources \union {Damaged})
        BY <2>3 DEF Shards
      <3> HIDE DEF d
      <3>3. shard'[f] = [holds |-> shard[f].holds, data |-> d]
        BY <2>2, <2>3 DEF Shards, d
      <3>4. shard'[f] \in Shards
        BY <2>3, <3>2, <3>3 DEF Shards
      <3> QED
        BY <3>4, DirAssumption
    <2>8. ASSUME NEW i, Made(i), pc = "done"
          PROVE  Made(i)'
      <3>1. CASE ShardName(i, Len(plan)) = f
        BY <2>1, <2>5, <2>7, <2>8, <3>1 DEF Made
      <3>2. CASE ShardName(i, Len(plan)) # f
        <4>1. shard'[ShardName(i, Len(plan))] = shard[ShardName(i, Len(plan))]
          BY <2>2, <3>2
        <4> QED
          BY <2>1, <2>8, <4>1 DEF Made
      <3> QED
        BY <3>1, <3>2
    <2>9. pc \in Converting => pc = "done"
      BY <1>a, <2>1 DEF Idle
    <2> QED
      BY <1>a, <2>1, <2>8, <2>9 DEF MadeSoFar
  <1>11. CASE UNCHANGED vars
    <2>1. shard' = shard /\ plan' = plan /\ at' = at /\ source' = source /\ pc' = pc /\ damage' = damage
      BY <1>11 DEF vars
    <2>2. ASSUME NEW i, Made(i)
          PROVE  Made(i)'
      BY <2>1, <2>2 DEF Made, Of
    <2> QED
      BY <2>1, <2>2 DEF MadeSoFar
  <1> QED
    BY <1>1, <1>2, <1>3, <1>4, <1>5, <1>6, <1>7, <1>8, <1>9, <1>10, <1>11 DEF Next, WritesFile

----------------------------------------------------------------------------
(* One tensor is resident. *)

\* The next array is the one that waits, or nothing waits and it is the first of its
\* tensor.
LEMMA NextInPlan ==
    ASSUME NEW k \in Nat, k < Len(PlanTensors), NEW a, a = PlanTensors[k + 1]
    PROVE  /\ a \in Arrays /\ a[1] \in ToSet(Tensors)
           /\ a \in Waiting(k) => a = <<a[1], "scales">> /\ Waiting(k) = {a}
           /\ a \notin Waiting(k) =>
                 /\ Waiting(k) = {}
                 /\ a[1] \in Quantised => a = <<a[1], "codes">>
                 /\ a[1] \notin Quantised => a = <<a[1], "plain">>
  <1> DEFINE P == PlanTensors
             n == Len(P)
  <1>1. /\ n \in Nat /\ Distinct(P) /\ ScalesFollow(P)
        /\ \A i \in 1..n : P[i] \in Arrays
        /\ \A x \in Arrays : \E i \in 1..n : P[i] = x
        /\ \A x : x \in Arrays <=> \E t \in ToSet(Tensors) : x \in OfTensor(t)
    <2>1. /\ n \in Nat /\ Distinct(P) /\ ScalesFollow(P)
          /\ Arrays = {P[i] : i \in 1..n} /\ Arrays = UNION {OfTensor(t) : t \in ToSet(Tensors)}
      BY PlanFacts
    <2> HIDE DEF P, n
    <2> QED
      BY <2>1
  <1>2. a = P[k + 1] /\ k + 1 \in 1..n
    BY <1>1
  <1>3. k > 0 => k \in 1..n
    BY <1>1
  <1>4. Waiting(k) = IF k > 0 /\ P[k][2] = "codes" THEN {a} ELSE {}
    BY DEF Waiting
  <1> HIDE DEF P, n
  <1>5. PICK t \in ToSet(Tensors) : a \in OfTensor(t)
    BY <1>1, <1>2
  <1>6. a[1] = t /\ (t \in Quantised => a = <<t, "codes">> \/ a = <<t, "scales">>)
        /\ (t \notin Quantised => a = <<t, "plain">>)
    BY <1>5 DEF OfTensor
  <1>7. ASSUME a \in Waiting(k)
        PROVE  a = <<a[1], "scales">>
    <2>1. k > 0 /\ P[k][2] = "codes"
      BY <1>4, <1>7
    <2>2. P[k + 1] = <<P[k][1], "scales">>
      BY <1>1, <1>3, <2>1 DEF ScalesFollow, n
    <2> QED
      BY <1>2, <2>2
  <1>8. ASSUME t \in Quantised, a = <<t, "scales">>
        PROVE  a \in Waiting(k)
    <2>1. <<t, "codes">> \in Arrays
      BY <1>1, <1>5, <1>8 DEF OfTensor
    <2>2. PICK i \in 1..n : P[i] = <<t, "codes">>
      BY <1>1, <2>1
    <2>3. P[i][2] = "codes" /\ P[i][1] = t
      BY <2>2
    <2>4. i < n /\ P[i + 1] = <<t, "scales">>
      BY <1>1, <2>3 DEF ScalesFollow, n
    <2>5. i + 1 \in 1..n
      BY <1>1, <2>4
    <2>6. i + 1 = k + 1
      BY <1>1, <1>2, <1>8, <2>4, <2>5 DEF Distinct, n
    <2>7. i = k
      BY <2>6
    <2> QED
      BY <1>4, <2>3, <2>7
  <1> QED
    BY <1>1, <1>2, <1>4, <1>5, <1>6, <1>7, <1>8

\* At the end nothing waits, and every tensor has been called what it is stored as.
LEMMA AtTheEnd ==
    /\ Waiting(Len(PlanTensors)) = {}
    /\ Called(Len(PlanTensors), "codes") = Quantised
    /\ Called(Len(PlanTensors), "plain") = ToSet(Tensors) \ Quantised
  <1> DEFINE P == PlanTensors
             n == Len(P)
  <1>1. /\ n \in Nat /\ n # 0 /\ ScalesFollow(P)
        /\ Arrays = {P[i] : i \in 1..n} /\ Arrays = UNION {OfTensor(t) : t \in ToSet(Tensors)}
    BY PlanFacts
  <1>2. Waiting(n) = {}
    <2>1. n \in 1..n
      BY <1>1
    <2>2. P[n][2] # "codes"
      BY <1>1, <2>1 DEF ScalesFollow
    <2> QED
      BY <2>2 DEF Waiting
  <1> HIDE DEF P, n
  <1>3. ASSUME NEW t, NEW x
        PROVE  (\E i \in 1..n : P[i] = <<t, x>>) <=> \E u \in ToSet(Tensors) : <<t, x>> \in OfTensor(u)
    BY <1>1
  <1>4. ASSUME NEW t \in ToSet(Tensors)
        PROVE  /\ (\E u \in ToSet(Tensors) : <<t, "codes">> \in OfTensor(u)) <=> t \in Quantised
               /\ (\E u \in ToSet(Tensors) : <<t, "plain">> \in OfTensor(u)) <=> t \notin Quantised
    BY DEF OfTensor
  <1>5. Quantised \subseteq ToSet(Tensors)
    BY PlanAssumption
  <1> QED
    BY <1>2, <1>3, <1>4, <1>5 DEF Called, P, n

\* What waits are arrays of one tensor.
LEMMA WaitingOfOne ==
    ASSUME NEW k \in Nat, k <= Len(PlanTensors)
    PROVE  \E t \in ToSet(Tensors) : \A a \in Waiting(k) : a[1] = t
  <1>1. CASE Waiting(k) = {}
    <2>1. Tensors[1] \in ToSet(Tensors)
      BY TensorsAre
    <2> QED
      BY <1>1, <2>1
  <1>2. CASE Waiting(k) # {}
    <2>1. Waiting(k) = {PlanTensors[k + 1]}
      BY <1>2 DEF Waiting
    <2>2. k # Len(PlanTensors)
      BY <1>2, AtTheEnd
    <2>3. k < Len(PlanTensors)
      BY <2>2, PlanFacts
    <2>4. PlanTensors[k + 1][1] \in ToSet(Tensors)
      BY <2>3, NextInPlan
    <2> QED
      BY <2>1, <2>4
  <1> QED
    BY <1>1, <1>2

\* The cut of the plan that a run follows exists.
LEMMA StartsOf ==
    ASSUME NEW p \in Plans
    PROVE  Cuts((CHOOSE c : Cuts(c, p, Len(PlanTensors))), p, Len(PlanTensors))
  BY PlanFits, Zenon DEF Cut

\* How much has been written is a place in the plan of arrays.
LEMMA PutIsPlace ==
    ASSUME Safe, pc \in Sharding \union {"check"}, Cuts(Starts, plan, Len(PlanTensors))
    PROVE  /\ Put \in Nat /\ Put <= Len(PlanTensors)
           /\ Starts[at - 1] \in Nat /\ Starts[at] = Starts[at - 1] + Len(plan[at])
           /\ Starts[at] <= Len(PlanTensors)
           /\ pc = "check" => Put = Len(PlanTensors)
           /\ pc = "fill" => Put = Starts[at - 1] + Len(tmp.data)
           /\ Filling => /\ Put < Len(PlanTensors)
                         /\ NextArray = PlanTensors[Put + 1]
  <1>1. Types /\ AtWork /\ Filled /\ pc \in Converting
    BY DEF Safe, Converting, Checked
  <1>2. /\ plan[at] \in Seq(Arrays) /\ Len(plan[at]) \in Nat /\ Len(plan) \in Nat
        /\ at \in Nat /\ at >= 1 /\ at <= Len(plan)
    BY <1>1, NameOfShard
  <1>3. at - 1 \in 0..Len(plan) /\ at \in 0..Len(plan) /\ at \in 1..Len(plan)
    BY <1>2
  <1>4. /\ Starts[at - 1] \in Nat /\ Starts[at] \in Nat
        /\ Starts[at] = Starts[at - 1] + Len(plan[at]) /\ Starts[at] <= Len(PlanTensors)
        /\ \A j \in 1..Len(plan[at]) : plan[at][j] = PlanTensors[Starts[at - 1] + j]
        /\ Starts[Len(plan)] = Len(PlanTensors)
    BY <1>3 DEF Cuts
  <1>5. Len(PlanTensors) \in Nat
    BY PlanFacts
  <1>6. CASE pc = "open"
    BY <1>2, <1>4, <1>5, <1>6 DEF Put, Filling
  <1>7. CASE pc = "fill"
    <2>1. /\ tmp # NoFile /\ tmp.holds = plan[at] /\ Len(tmp.data) <= Len(tmp.holds)
          /\ tmp \in Parts
      BY <1>1, <1>7 DEF Filled, Types
    <2>2. Len(tmp.data) \in Nat
      BY <2>1 DEF Parts
    <2>3. Put = Starts[at - 1] + Len(tmp.data)
      BY <1>7 DEF Put
    <2>4. Filling => Len(tmp.data) + 1 \in 1..Len(plan[at])
      BY <1>2, <2>1, <2>2 DEF Filling, Whole
    <2>5. Filling => NextArray = PlanTensors[Put + 1]
      <3> SUFFICES ASSUME Filling PROVE NextArray = PlanTensors[Put + 1]
        OBVIOUS
      <3>1. NextArray = plan[at][Len(tmp.data) + 1]
        BY <2>1 DEF NextArray
      <3>2. plan[at][Len(tmp.data) + 1] = PlanTensors[Starts[at - 1] + (Len(tmp.data) + 1)]
        BY <1>4, <2>4
      <3>3. ASSUME NEW x \in Nat, NEW y \in Nat
            PROVE  x + (y + 1) = (x + y) + 1
        OBVIOUS
      <3>4. Starts[at - 1] + (Len(tmp.data) + 1) = Put + 1
        BY <1>4, <2>2, <2>3, <3>3
      <3> QED
        BY <3>1, <3>2, <3>4
    <2>6. Put \in Nat /\ Put <= Len(PlanTensors) /\ (Filling => Put < Len(PlanTensors))
      <3>1. ASSUME NEW x \in Nat, NEW y \in Nat, NEW m \in Nat, NEW n \in Nat, y <= m, x + m <= n
            PROVE  x + y \in Nat /\ x + y <= n /\ (y + 1 \in 1..m => x + y < n)
        BY <3>1
      <3>2. /\ Starts[at - 1] \in Nat /\ Len(plan[at]) \in Nat /\ Len(PlanTensors) \in Nat
            /\ Len(tmp.data) <= Len(plan[at]) /\ Starts[at - 1] + Len(plan[at]) <= Len(PlanTensors)
        BY <1>2, <1>4, <1>5, <2>1
      <3>3. /\ Starts[at - 1] + Len(tmp.data) \in Nat
            /\ Starts[at - 1] + Len(tmp.data) <= Len(PlanTensors)
            /\ Len(tmp.data) + 1 \in 1..Len(plan[at])
                 => Starts[at - 1] + Len(tmp.data) < Len(PlanTensors)
        BY <2>2, <3>1, <3>2
      <3> QED
        BY <2>3, <2>4, <3>3
    <2> QED
      BY <1>4, <1>7, <2>3, <2>5, <2>6
  <1>8. CASE pc \notin {"open", "fill"}
    <2>1. pc = "check" => at = Len(plan)
      BY <1>1 DEF AtWork, Sharding
    <2> QED
      BY <1>2, <1>4, <1>5, <1>8, <2>1 DEF Put, Filling
  <1> QED
    BY <1>6, <1>7, <1>8

\* The arrays that a tensor is built from at once.
LEMMA BothArrays ==
    ASSUME NEW t \in Quantised
    PROVE  ToSet(ArraysOf(t)) = {<<t, "codes">>, <<t, "scales">>}
  <1>1. ArraysOf(t) = << <<t, "codes">>, <<t, "scales">> >>
    BY DEF ArraysOf
  <1>2. ASSUME NEW x, NEW y
        PROVE  ToSet(<<x, y>>) = {x, y}
    BY DEF ToSet
  <1> QED
    BY <1>1, <1>2

\* An array that is put takes its own scales from the cache, or leaves its sibling's there.
LEMMA ResidentFill ==
    ASSUME Safe, Resident, FillCached \/ FillBuilt \/ FillCopied
    PROVE  Resident'
  <1>1. /\ PutArray(source) /\ Filling /\ pc' = pc /\ plan' = plan /\ at' = at
    BY SafeFill
  <1>2. pc = "fill" /\ pc \in Sharding \union {"check"}
    BY <1>1 DEF Filling, Sharding
  <1>3. /\ Cuts(Starts, plan, Len(PlanTensors))
        /\ DOMAIN produced = Waiting(Put)
        /\ converted = Called(Put, "codes")
        /\ copied = Called(Put, "plain")
    BY <1>2 DEF Resident
  <1>4. /\ Put \in Nat /\ Put < Len(PlanTensors) /\ NextArray = PlanTensors[Put + 1]
        /\ Starts[at - 1] \in Nat /\ Put = Starts[at - 1] + Len(tmp.data)
    BY <1>1, <1>2, <1>3, PutIsPlace
  <1>5. Starts' = Starts
    BY <1>1 DEF Starts
  <1>6. Put' = Put + 1
    <2>1. Len(tmp'.data) = Len(tmp.data) + 1 /\ Len(tmp.data) \in Nat
      BY <1>1, OneMorePut DEF Safe
    <2>2. Put' = Starts[at - 1] + Len(tmp'.data)
      BY <1>1, <1>2, <1>5 DEF Put
    <2>3. ASSUME NEW x \in Nat, NEW y \in Nat
          PROVE  x + (y + 1) = (x + y) + 1
      OBVIOUS
    <2> QED
      BY <1>4, <2>1, <2>2, <2>3
  <1> DEFINE a == NextArray
             t == a[1]
  <1>7. /\ a \in Arrays /\ t \in ToSet(Tensors)
        /\ a \in Waiting(Put) => a = <<t, "scales">> /\ Waiting(Put) = {a}
        /\ a \notin Waiting(Put) =>
              /\ Waiting(Put) = {}
              /\ t \in Quantised => a = <<t, "codes">>
              /\ t \notin Quantised => a = <<t, "plain">>
    BY <1>4, NextInPlan
  <1>8. /\ Called(Put + 1, "codes") = IF a = <<t, "codes">> THEN Called(Put, "codes") \union {t}
                                      ELSE Called(Put, "codes")
        /\ Called(Put + 1, "plain") = IF a = <<t, "plain">> THEN Called(Put, "plain") \union {t}
                                      ELSE Called(Put, "plain")
    <2>1. \A i : i \in 1..Put + 1 <=> i \in 1..Put \/ i = Put + 1
      BY <1>4
    <2> HIDE DEF a
    <2>2. ASSUME NEW x, NEW u
          PROVE  u \in Called(Put + 1, x) <=> u \in Called(Put, x) \/ a = <<u, x>>
      <3>1. a = <<u, x>> => u \in ToSet(Tensors)
        BY <1>7
      <3>2. (\E i \in 1..Put + 1 : PlanTensors[i] = <<u, x>>)
              <=> (\E i \in 1..Put : PlanTensors[i] = <<u, x>>) \/ PlanTensors[Put + 1] = <<u, x>>
        BY <2>1
      <3>3. a = PlanTensors[Put + 1]
        BY <1>4 DEF a
      <3> QED
        BY <3>1, <3>2, <3>3, ZenonT(60) DEF Called
    <2>3. \A u, x : a = <<u, x>> => u = a[1]
      OBVIOUS
    <2> QED
      BY <2>2, <2>3
  <1>9. Waiting(Put + 1) = IF a = <<t, "codes">> THEN {<<t, "scales">>} ELSE {}
    <2>1. Waiting(Put + 1) = IF a[2] = "codes" THEN {PlanTensors[(Put + 1) + 1]} ELSE {}
      BY <1>4 DEF Waiting
    <2>2. CASE a[2] = "codes"
      <3>1. Put + 1 \in 1..Len(PlanTensors)
        BY <1>4, PlanFacts, SMTT(30)
      <3>2. PlanTensors[(Put + 1) + 1] = <<t, "scales">>
        BY <1>4, <2>2, <3>1, PlanFacts DEF ScalesFollow
      <3>3. a = <<t, "codes">>
        BY <1>7, <2>2
      <3> QED
        BY <2>1, <2>2, <3>2, <3>3
    <2>3. CASE a[2] # "codes"
      BY <2>1, <2>3
    <2> QED
      BY <2>2, <2>3
  <1> HIDE DEF a
  <1>10. /\ DOMAIN produced' = Waiting(Put + 1)
         /\ converted' = Called(Put + 1, "codes") /\ copied' = Called(Put + 1, "plain")
    <2>1. CASE FillCached
      <3>1. a \in DOMAIN produced /\ converted' = converted /\ copied' = copied
            /\ DOMAIN produced' = DOMAIN produced \ {a}
        BY <2>1 DEF FillCached, WithoutKey, a
      <3>2. a = <<t, "scales">> /\ a # <<t, "codes">> /\ a # <<t, "plain">>
        BY <1>3, <1>7, <3>1
      <3> QED
        BY <1>3, <1>7, <1>8, <1>9, <3>1, <3>2
    <2>2. CASE FillBuilt
      <3>1. /\ a \notin DOMAIN produced /\ t \in Quantised
            /\ converted' = converted \union {t} /\ copied' = copied
            /\ DOMAIN produced' = (DOMAIN produced \union ToSet(ArraysOf(t))) \ {a}
        BY <2>2 DEF FillBuilt, a
      <3>2. a = <<t, "codes">> /\ a # <<t, "plain">> /\ DOMAIN produced = {}
        BY <1>3, <1>7, <3>1
      <3>3. ToSet(ArraysOf(t)) = {a, <<t, "scales">>} /\ a # <<t, "scales">>
        BY <3>1, <3>2, BothArrays
      <3>4. DOMAIN produced' = {<<t, "scales">>}
        BY <3>1, <3>2, <3>3
      <3>5. DOMAIN produced' = Waiting(Put + 1)
        BY <1>9, <3>2, <3>4
      <3>6. converted' = Called(Put + 1, "codes")
        BY <1>3, <1>8, <3>1, <3>2
      <3>7. copied' = Called(Put + 1, "plain")
        BY <1>3, <1>8, <3>1, <3>2
      <3> QED
        BY <3>5, <3>6, <3>7
    <2>3. CASE FillCopied
      <3>1. /\ a \notin DOMAIN produced /\ t \notin Quantised
            /\ converted' = converted /\ copied' = copied \union {t} /\ produced' = produced
        BY <2>3 DEF FillCopied, a
      <3>2. a = <<t, "plain">> /\ a # <<t, "codes">> /\ DOMAIN produced = {}
        BY <1>3, <1>7, <3>1
      <3> QED
        BY <1>3, <1>8, <1>9, <3>1, <3>2, SMTT(30)
    <2> QED
      BY <2>1, <2>2, <2>3
  <1>11. \E u \in ToSet(Tensors) : \A x \in Waiting(Put + 1) : x[1] = u
    <2>1. Put + 1 \in Nat /\ Put + 1 <= Len(PlanTensors)
      BY <1>4, PlanFacts, SMTT(30)
    <2> QED
      BY <2>1, WaitingOfOne
  <1> QED
    BY <1>1, <1>2, <1>3, <1>5, <1>6, <1>10, <1>11 DEF Resident

\* The state of the cache does not change, nor how much has been written.
LEMMA ResidentStays ==
    ASSUME Resident, produced' = produced, pc' # "refused",
           pc' \in Sharding \union {"check"} =>
               /\ pc \in Sharding \union {"check"}
               /\ Put' = Put /\ plan' = plan /\ converted' = converted /\ copied' = copied
    PROVE  Resident'
  <1>1. plan' = plan => Starts' = Starts
    BY DEF Starts
  <1> QED
    BY <1>1 DEF Resident

\* Every step keeps the cache at one tensor.
LEMMA ResidentStep == Safe /\ MadeSoFar /\ Resident /\ [Next]_vars => Resident'
  <1> SUFFICES ASSUME Safe, MadeSoFar, Resident, [Next]_vars PROVE Resident'
    OBVIOUS
  <1> USE DEF dir, counts, memory
  <1>0. Types /\ AtWork /\ Filled
    BY DEF Safe
  <1>a. Sharding \union {"check"} = {"open", "fill", "replace", "size", "check"}
    BY DEF Sharding
  <1>b. Converting = {"open", "fill", "replace", "size", "check", "index", "index_open", "config",
                      "companions", "companions_open", "model", "model_open", "manifest", "done"}
    BY DEF Converting, Sharding, Checked, Indexed, Configured, Accompanied, Complete
  <1>c. pc \in Sharding \union {"check"} => Cuts(Starts, plan, Len(PlanTensors))
    BY DEF Resident
  <1>d. plan' = plan => Starts' = Starts
    BY DEF Starts
  <1>1. ASSUME NEW s \in Sources, NEW b \in Budgets, NEW bad \in SUBSET Quantised, Start(s, b, bad)
        PROVE  Resident'
    <2>1. /\ plan' \in Plans /\ at' = 1 /\ pc' = "open"
          /\ produced' = <<>> /\ converted' = {} /\ copied' = {}
      BY <1>1 DEF Start, Plans
    <2>2. Cuts(Starts', plan', Len(PlanTensors))
      BY <2>1, StartsOf DEF Starts
    <2>3. Put' = 0
      BY <2>1, <2>2 DEF Put, Cuts
    <2>4. Waiting(0) = {} /\ Called(0, "codes") = {} /\ Called(0, "plain") = {}
      BY DEF Waiting, Called
    <2>5. Tensors[1] \in ToSet(Tensors)
      BY TensorsAre
    <2>6. DOMAIN produced' = {}
      BY <2>1
    <2> QED
      BY <2>1, <2>2, <2>3, <2>4, <2>5, <2>6 DEF Resident
  <1>2. CASE Open
    <2>1. /\ pc = "open" /\ pc' = "fill" /\ tmp' = [holds |-> plan[at], data |-> <<>>]
          /\ plan' = plan /\ at' = at /\ produced' = produced /\ converted' = converted /\ copied' = copied
      BY <1>2 DEF Open
    <2>2. Starts[at - 1] \in Nat
      BY <1>a, <1>c, <2>1, PutIsPlace
    <2>3. Put' = Put
      <3>1. Put' = Starts[at - 1] + Len(<<>>) /\ Put = Starts[at - 1]
        BY <1>d, <2>1 DEF Put
      <3>2. Len(<<>>) = 0
        OBVIOUS
      <3> QED
        BY <2>2, <3>1, <3>2
    <2> QED
      BY <1>a, <2>1, <2>3, ResidentStays
  <1>3. CASE FillCached \/ FillBuilt \/ FillCopied
    BY <1>3, ResidentFill
  <1>4. CASE Sync
    <2>1. /\ pc = "fill" /\ Whole(tmp) /\ pc' = "replace"
          /\ plan' = plan /\ at' = at /\ produced' = produced /\ converted' = converted /\ copied' = copied
      BY <1>4 DEF Sync
    <2>2. Put = Starts[at - 1] + Len(tmp.data) /\ Starts[at] = Starts[at - 1] + Len(plan[at])
      BY <1>a, <1>c, <2>1, PutIsPlace
    <2>3. Len(tmp.data) = Len(plan[at])
      BY <1>0, <2>1 DEF Filled, Whole
    <2>4. Put' = Put
      BY <1>d, <2>1, <2>2, <2>3 DEF Put
    <2> QED
      BY <1>a, <2>1, <2>4, ResidentStays
  <1>5. CASE Replace
    <2>1. /\ pc = "replace" /\ pc' = "size"
          /\ plan' = plan /\ at' = at /\ produced' = produced /\ converted' = converted /\ copied' = copied
      BY <1>5 DEF Replace
    <2>2. Put' = Put
      BY <1>d, <2>1 DEF Put
    <2> QED
      BY <1>a, <2>1, <2>2, ResidentStays
  <1>6. CASE CheckSize
    <2>1. /\ pc = "size" /\ plan' = plan /\ produced' = produced /\ converted' = converted /\ copied' = copied
          /\ \/ pc' = "refused" /\ SizeOf(shard[Name]) # Weight(plan[at])
             \/ pc' = "open" /\ at' = at + 1
             \/ pc' = "check" /\ at' = at
      BY <1>6 DEF CheckSize
    <2>2. SizeOf(shard[Name]) = Weight(plan[at])
      <3>1. Name \in ShardNames /\ plan[at] \in Seq(Arrays)
        BY <1>0, <1>b, <2>1, NameOfShard
      <3>2. Made(at)
        BY <1>b, <2>1 DEF MadeSoFar
      <3>3. shard[Name] # NoFile /\ shard[Name].holds = plan[at]
        BY <3>2 DEF Made, Name
      <3>4. Name \in Present
        BY <1>0, <3>1, <3>3 DEF Present, Types
      <3>5. Whole(shard[Name])
        BY <3>4 DEF Safe, Stored
      <3>6. ASSUME NEW x \in Seq(Arrays)
            PROVE  SubSeq(x, 1, Len(x)) = x
        OBVIOUS
      <3> QED
        BY <3>1, <3>3, <3>5, <3>6 DEF SizeOf, Whole
    <2>3. Put' = Put
      <3>1. at \in Nat
        BY <1>0, <1>b, <2>1, NameOfShard
      <3>2. CASE pc' = "open" /\ at' = at + 1
        <4>1. at' - 1 = at
          BY <3>1, <3>2
        <4> QED
          BY <1>d, <2>1, <3>2, <4>1 DEF Put
      <3>3. CASE pc' = "check" /\ at' = at
        BY <1>d, <2>1, <3>3 DEF Put
      <3> QED
        BY <2>1, <2>2, <3>2, <3>3
    <2> QED
      BY <1>a, <2>1, <2>2, <2>3, ResidentStays
  <1>7. CASE Check
    <2>1. /\ pc = "check" /\ produced' = produced
          /\ pc' = IF produced = <<>> /\ converted = Quantised /\ copied = ToSet(Tensors) \ Quantised
                   THEN "index" ELSE "refused"
      BY <1>7 DEF Check
    <2>2. Put = Len(PlanTensors)
      BY <1>a, <1>c, <2>1, PutIsPlace
    <2>3. /\ DOMAIN produced = {} /\ converted = Quantised /\ copied = ToSet(Tensors) \ Quantised
      BY <1>a, <2>1, <2>2, AtTheEnd DEF Resident
    <2>4. produced = <<>>
      <3>1. produced = [x \in {} |-> produced[x]]
        BY <1>0, <2>3 DEF Types
      <3> QED
        BY <3>1
    <2>5. pc' = "index"
      BY <2>1, <2>3, <2>4
    <2> QED
      BY <1>a, <2>1, <2>5, ResidentStays
  <1>8. CASE WritesFile
    <2>1. Passes(pc, pc') /\ memory' = memory
      BY <1>0, <1>8, FileStep
    <2>2. pc' \notin {"open", "fill", "replace", "size", "check", "refused"}
      BY <2>1 DEF Passes, Checked, Indexed, Configured, Accompanied, Complete, Regenerating
    <2> QED
      BY <1>a, <2>1, <2>2, ResidentStays
  <1>9. CASE Regenerate \/ Abort \/ Kill \/ PowerLoss
    <2>1. pc' \in {"regenerate", "rest"} /\ produced' = produced
      BY <1>9 DEF Regenerate, Abort, Kill, PowerLoss
    <2> QED
      BY <1>a, <2>1, ResidentStays
  <1>10. ASSUME NEW f \in Present, NEW j \in DOMAIN shard[f].data, Damage(f, j)
         PROVE  Resident'
    <2>1. pc' = pc /\ pc \in Idle /\ produced' = produced
      BY <1>10 DEF Damage
    <2>2. pc' \notin Sharding \union {"check"} /\ pc' # "refused"
      BY <1>a, <2>1 DEF Idle, Resident
    <2> QED
      BY <2>1, <2>2, ResidentStays
  <1>11. CASE UNCHANGED vars
    <2>1. /\ pc' = pc /\ plan' = plan /\ at' = at /\ tmp' = tmp /\ produced' = produced
          /\ converted' = converted /\ copied' = copied
      BY <1>11 DEF vars
    <2>2. Put' = Put /\ pc # "refused"
      BY <1>d, <2>1 DEF Put, Resident
    <2> QED
      BY <2>1, <2>2, ResidentStays
  <1> QED
    BY <1>1, <1>2, <1>3, <1>4, <1>5, <1>6, <1>7, <1>8, <1>9, <1>10, <1>11 DEF Next, WritesFile

\* Holds of every reachable state.
LEMMA AlwaysResident == Spec => [](Safe /\ MadeSoFar /\ Resident)
  <1>1. Init => Safe
    BY SafeInit
  <1>2. Init => MadeSoFar /\ Resident
    <2> SUFFICES ASSUME Init PROVE MadeSoFar /\ Resident
      OBVIOUS
    <2>1. pc = "rest" /\ DOMAIN produced = {}
      BY DEF Init
    <2>2. Tensors[1] \in ToSet(Tensors)
      BY TensorsAre
    <2> QED
      BY <2>1, <2>2 DEF MadeSoFar, Resident, Converting, Sharding, Checked, Indexed, Configured,
            Accompanied, Complete
  <1> QED
    BY <1>1, <1>2, SafeStep, MadeStep, ResidentStep, PTL DEF Spec

\* The cache of convert holds arrays of one tensor (shard_writer.py), also of one
\* whose codes and scales are in different shards.
THEOREM OneResident == Spec => []OneTensorResident
  <1>1. ASSUME Resident PROVE OneTensorResident
    <2>1. PICK t \in ToSet(Tensors) : \A a \in DOMAIN produced : a[1] = t
      BY <1>1 DEF Resident
    <2> DEFINE owners == {a[1] : a \in DOMAIN produced}
    <2>2. owners \subseteq {t}
      BY <2>1
    <2>3. IsFiniteSet({t}) /\ Cardinality({t}) = 1
      BY FS_Singleton
    <2> HIDE DEF owners
    <2>4. Cardinality(owners) <= 1
      BY <2>2, <2>3, FS_Subset
    <2> QED
      BY <2>4 DEF OneTensorResident, owners
  <1> QED
    BY <1>1, AlwaysResident, PTL

\* No run is refused by the assertions of convert about what it has written.
THEOREM NoneIsRefused == Spec => []ChecksPass
  <1>1. Resident => ChecksPass
    BY DEF Resident, ChecksPass
  <1> QED
    BY <1>1, AlwaysResident, PTL

----------------------------------------------------------------------------
(* Each array is in one shard. *)

\* The first shards hold no more than all but the last of them hold together with it.
LEMMA CutsGrow ==
    ASSUME NEW p \in Seq(Seq(Arrays)), NEW c, NEW k \in Nat, Cuts(c, p, k)
    PROVE  \A i, j \in 0..Len(p) : i <= j => c[i] <= c[j]
  <1> DEFINE n == Len(p)
  <1>1. n \in Nat /\ \A i \in 0..n : c[i] \in Nat
    <2>1. n \in Nat
      OBVIOUS
    <2>2. c \in [0..n -> Nat]
      BY DEF Cuts
    <2> HIDE DEF n
    <2> QED
      BY <2>1, <2>2
  <1>2. \A i \in 1..n : c[i - 1] <= c[i]
    <2> SUFFICES ASSUME NEW i \in 1..n PROVE c[i - 1] <= c[i]
      OBVIOUS
    <2>1. c[i] = c[i - 1] + Len(p[i]) /\ Len(p[i]) \in Nat
      BY DEF Cuts
    <2>2. i - 1 \in 0..n
      OBVIOUS
    <2>3. ASSUME NEW x \in Nat, NEW y \in Nat
          PROVE  x <= x + y
      OBVIOUS
    <2> HIDE DEF n
    <2>4. c[i - 1] \in Nat
      BY <1>1, <2>2
    <2> QED
      BY <2>1, <2>3, <2>4
  <1> HIDE DEF n
  <1> SUFFICES ASSUME NEW i \in 0..n, NEW j \in 0..n, i <= j PROVE c[i] <= c[j]
    BY DEF n
  <1> DEFINE Q == {m \in i..n : c[i] <= c[m]}
  <1>3. i \in Nat /\ i \in Q
    BY <1>1
  <1>4. ASSUME NEW m \in i..n - 1, m \in Q
        PROVE  m + 1 \in Q
    <2>1. m + 1 \in i..n /\ m + 1 \in 1..n /\ m \in 0..n /\ m + 1 \in 0..n /\ (m + 1) - 1 = m
      BY <1>1, <1>3
    <2>2. c[m] <= c[m + 1]
      BY <1>2, <2>1
    <2>3. c[i] <= c[m] /\ c[i] \in Nat /\ c[m] \in Nat /\ c[m + 1] \in Nat
      BY <1>1, <1>4, <2>1
    <2> QED
      BY <2>1, <2>2, <2>3
  <1> HIDE DEF Q
  <1>5. \A m \in i..n : m \in Q
    BY <1>1, <1>3, <1>4, UpTo
  <1>6. j \in i..n
    BY <1>1
  <1> QED
    BY <1>5, <1>6 DEF Q

\* No array is in two shards of a plan, or in one twice.
LEMMA HeldOnce ==
    ASSUME NEW p \in Plans, NEW i \in 1..Len(p), NEW j \in 1..Len(p), NEW a,
           Contains(p[i], a), Contains(p[j], a)
    PROVE  i = j
  <1> DEFINE k == Len(PlanTensors)
  <1>1. p \in Seq(Seq(Arrays)) /\ Len(p) \in Nat /\ k \in Nat /\ Distinct(PlanTensors)
    BY PlanFits, PlanFacts
  <1>2. PICK c : Cuts(c, p, k)
    BY PlanFits DEF Cut
  <1>3. \A m, h \in 0..Len(p) : m <= h => c[m] <= c[h]
    BY <1>1, <1>2, CutsGrow
  <1> HIDE DEF k
  <1>4. ASSUME NEW m \in 1..Len(p), Contains(p[m], a)
        PROVE  \E x \in 1..k : c[m - 1] < x /\ x <= c[m] /\ PlanTensors[x] = a
    <2>1. PICK y \in 1..Len(p[m]) : p[m][y] = a
      BY <1>4 DEF Contains
    <2>2. /\ c[m] = c[m - 1] + Len(p[m]) /\ c[m] <= k /\ Len(p[m]) \in Nat
          /\ p[m][y] = PlanTensors[c[m - 1] + y]
      <3>1. p[m] \in Seq(Arrays) /\ Len(p[m]) \in Nat
        BY <1>1
      <3>2. c[m] = c[m - 1] + Len(p[m]) /\ c[m] <= k
        BY <1>2 DEF Cuts
      <3>3. p[m][y] = PlanTensors[c[m - 1] + y]
        BY <1>2 DEF Cuts
      <3> QED
        BY <3>1, <3>2, <3>3
    <2>3. c[m - 1] \in Nat
      <3>1. m - 1 \in 0..Len(p)
        BY <1>1
      <3> QED
        BY <1>2, <3>1 DEF Cuts
    <2>4. ASSUME NEW low \in Nat, NEW high, NEW l \in Nat, high = low + l, high <= k, y \in 1..l
          PROVE  low + y \in 1..k /\ low < low + y /\ low + y <= high
      BY <1>1, <2>4
    <2>5. /\ c[m - 1] + y \in 1..k /\ c[m - 1] < c[m - 1] + y /\ c[m - 1] + y <= c[m]
      BY <2>1, <2>2, <2>3, <2>4
    <2> QED
      BY <2>1, <2>2, <2>5
  <1>5. PICK x \in 1..k : c[i - 1] < x /\ x <= c[i] /\ PlanTensors[x] = a
    BY <1>4
  <1>6. PICK y \in 1..k : c[j - 1] < y /\ y <= c[j] /\ PlanTensors[y] = a
    BY <1>4
  <1>7. x = y
    BY <1>1, <1>5, <1>6 DEF Distinct, k
  <1>8. /\ i - 1 \in 0..Len(p) /\ j - 1 \in 0..Len(p) /\ i \in 0..Len(p) /\ j \in 0..Len(p)
    BY <1>1
  <1>9. c[i - 1] \in Nat /\ c[j - 1] \in Nat /\ c[i] \in Nat /\ c[j] \in Nat
    BY <1>2, <1>8 DEF Cuts
  <1>10. i <= j - 1 => c[i] <= c[j - 1]
    BY <1>3, <1>8
  <1>11. j <= i - 1 => c[j] <= c[i - 1]
    BY <1>3, <1>8
  <1>12. ASSUME NEW low \in Nat, NEW high \in Nat, low < x, x <= high
         PROVE  ~(high <= low)
    BY <1>12
  <1>13. ~(i <= j - 1)
    BY <1>5, <1>6, <1>7, <1>9, <1>10, <1>12
  <1>14. ~(j <= i - 1)
    BY <1>5, <1>6, <1>7, <1>9, <1>11, <1>12
  <1> QED
    BY <1>1, <1>13, <1>14

\* Every array is in a shard of a plan.
LEMMA HeldSomewhere ==
    ASSUME NEW p \in Plans, NEW a \in Arrays
    PROVE  \E i \in 1..Len(p) : Contains(p[i], a)
  <1> DEFINE k == Len(PlanTensors)
             n == Len(p)
  <1>1. p \in Seq(Seq(Arrays)) /\ n \in Nat /\ k \in Nat
    BY PlanFits, PlanFacts
  <1>2. PICK c : Cuts(c, p, k)
    BY PlanFits DEF Cut
  <1>3. PICK x \in 1..k : PlanTensors[x] = a
    BY PlanFacts
  <1>4. c[0] = 0 /\ c[n] = k /\ \A m \in 0..n : c[m] \in Nat
    BY <1>2 DEF Cuts
  <1> DEFINE P == {m \in Nat : m \in 0..n /\ x <= c[m]}
  <1>5. P \subseteq Nat /\ n \in P
    BY <1>1, <1>3, <1>4
  <1> HIDE DEF P
  <1>6. PICK i \in P : \A m \in P : i <= m
    BY <1>5, LeastNumber
  <1>7. i \in Nat /\ i \in 0..n /\ x <= c[i]
    BY <1>6 DEF P
  <1>8. i # 0
    BY <1>1, <1>3, <1>4, <1>7
  <1>9. i \in 1..n /\ i - 1 \in 0..n /\ i - 1 \in Nat /\ i - 1 \notin P
    BY <1>1, <1>6, <1>7, <1>8
  <1>10. c[i - 1] < x /\ c[i - 1] \in Nat
    <2>1. c[i - 1] \in Nat /\ ~(x <= c[i - 1])
      BY <1>4, <1>9 DEF P
    <2> HIDE DEF n, k
    <2> QED
      BY <1>1, <1>3, <2>1
  <1>11. /\ c[i] = c[i - 1] + Len(p[i]) /\ Len(p[i]) \in Nat
         /\ \A y \in 1..Len(p[i]) : p[i][y] = PlanTensors[c[i - 1] + y]
    BY <1>1, <1>2, <1>9 DEF Cuts
  <1>12. x - c[i - 1] \in 1..Len(p[i]) /\ c[i - 1] + (x - c[i - 1]) = x
    <2>1. ASSUME NEW low \in Nat, NEW high, NEW l \in Nat, high = low + l, low < x, x <= high
          PROVE  x - low \in 1..l /\ low + (x - low) = x
      <3> HIDE DEF k
      <3> QED
        BY <1>1, <1>3, <2>1
    <2> QED
      BY <1>7, <1>10, <1>11, <2>1
  <1>13. p[i][x - c[i - 1]] = a
    BY <1>3, <1>11, <1>12
  <1> QED
    BY <1>9, <1>12, <1>13 DEF Contains

\* Where an array is in a file that holds it.
LEMMA PositionOf ==
    ASSUME NEW f, NEW a, Contains(shard[f].holds, a), Len(shard[f].holds) \in Nat
    PROVE  Position(f, a) \in 1..Len(shard[f].holds)
  <1> DEFINE I == {i \in 1..Len(shard[f].holds) : shard[f].holds[i] = a}
  <1>1. I # {} /\ I \subseteq Nat
    BY DEF Contains
  <1>2. PICK i \in I : \A j \in I : i <= j
    BY <1>1, LeastNumber
  <1>3. Position(f, a) = IF I # {} THEN Min(I) ELSE 0
    BY DEF Position, SelectInSeq
  <1> HIDE DEF I
  <1>4. Min(I) \in I
    BY <1>2 DEF Min
  <1> QED
    BY <1>1, <1>3, <1>4 DEF I

----------------------------------------------------------------------------
(* The other files. *)

\* Truncating a file changes that file only.
LEMMA EmptyStep ==
    ASSUME Types, NEW k \in Supports, NEW from, NEW to, Empty(k, from, to)
    PROVE  /\ pc = from /\ pc' = to /\ file'[k] = Torn
           /\ \A j \in Supports \ {k} : file'[j] = file[j]
           /\ shard' = shard /\ plan' = plan /\ source' = source /\ runs' = runs
           /\ powerLosses' = powerLosses
  BY DEF Empty, Types, memory, counts

\* Writing a file changes that file only.
LEMMA WriteStep ==
    ASSUME Types, NEW k \in Supports, NEW content, NEW from, NEW to, Write(k, content, from, to)
    PROVE  /\ pc = from /\ pc' = to /\ file'[k] = content
           /\ \A j \in Supports \ {k} : file'[j] = file[j]
           /\ shard' = shard /\ plan' = plan /\ source' = source /\ runs' = runs
           /\ powerLosses' = powerLosses
  BY DEF Write, Types, memory, counts

\* Which file each step leaves alone that is not its own.
LEMMA FileSteps ==
    ASSUME Types, WritesFile
    PROVE  /\ shard' = shard /\ plan' = plan /\ source' = source /\ runs' = runs
           /\ powerLosses' = powerLosses
           /\ \/ /\ pc = "index" /\ pc' = "index_open"
                 /\ file'["manifest"] = file["manifest"]
              \/ /\ pc = "index_open" /\ pc' = "config"
                 /\ file'["index"] = [weight_map |-> WeightMap, total |-> Weight(PlanTensors)]
                 /\ file'["manifest"] = file["manifest"]
              \/ /\ pc = "config" /\ pc' = "companions" /\ file'["config"] = source
                 /\ \A j \in Supports \ {"config"} : file'[j] = file[j]
              \/ /\ pc = "companions" /\ pc' = "companions_open"
                 /\ \A j \in Supports \ {"companions"} : file'[j] = file[j]
              \/ /\ pc = "companions_open" /\ pc' = "model" /\ file'["companions"] = source
                 /\ \A j \in Supports \ {"companions"} : file'[j] = file[j]
              \/ /\ pc = "model" /\ pc' = "model_open"
                 /\ \A j \in Supports \ {"model_file"} : file'[j] = file[j]
              \/ /\ pc = "model_open" /\ pc' = "manifest" /\ file'["model_file"] = "emitted"
                 /\ \A j \in Supports \ {"model_file"} : file'[j] = file[j]
              \/ /\ pc = "manifest" /\ pc' = "done"
                 /\ file'["manifest"] = [f \in Names(plan) |-> SizeOf(shard[f])]
                 /\ \A j \in Supports \ {"manifest"} : file'[j] = file[j]
              \/ pc \in Regenerating /\ pc' \in Regenerating \union {"rest"}
  <1>1. Supports = {"index", "config", "companions", "model_file", "manifest"}
    BY DEF Supports
  <1>2. CASE OpenIndex
    BY <1>1, <1>2, EmptyStep DEF OpenIndex
  <1>3. CASE WriteIndex
    BY <1>1, <1>3, WriteStep DEF WriteIndex
  <1>4. CASE WriteConfig
    BY <1>1, <1>4, WriteStep DEF WriteConfig
  <1>5. CASE OpenCompanions
    BY <1>1, <1>5, EmptyStep DEF OpenCompanions
  <1>6. CASE CopyCompanions
    BY <1>1, <1>6, WriteStep DEF CopyCompanions
  <1>7. CASE OpenModelFile
    BY <1>1, <1>7, EmptyStep DEF OpenModelFile
  <1>8. CASE WriteModelFile
    BY <1>1, <1>8, WriteStep DEF WriteModelFile
  <1>9. CASE WriteManifest
    BY <1>1, <1>9, WriteStep DEF WriteManifest
  <1>10. CASE ReopenModelFile
    BY <1>1, <1>10, EmptyStep DEF ReopenModelFile, Regenerating
  <1>11. CASE RewriteModelFile
    BY <1>1, <1>11, WriteStep DEF RewriteModelFile, Regenerating
  <1>12. CASE RewriteManifest
    BY <1>1, <1>12, WriteStep DEF RewriteManifest, Regenerating
  <1> QED
    BY <1>2, <1>3, <1>4, <1>5, <1>6, <1>7, <1>8, <1>9, <1>10, <1>11, <1>12 DEF WritesFile

\* Every step keeps what the run has written.
LEMMA WrittenStep == Types /\ Written /\ [Next]_vars => Written'
  <1> SUFFICES ASSUME Types, Written, [Next]_vars PROVE Written'
    OBVIOUS
  <1> USE DEF dir, memory, counts
  <1>a. /\ Indexed = {"config", "companions", "companions_open", "model", "model_open", "manifest", "done"}
        /\ Configured = {"companions", "companions_open", "model", "model_open", "manifest", "done"}
        /\ Accompanied = {"model", "model_open", "manifest", "done"}
        /\ Complete = {"manifest", "done"}
    BY DEF Indexed, Configured, Accompanied, Complete
  <1>b. ASSUME pc' \notin Indexed
        PROVE  Written'
    BY <1>a, <1>b DEF Written
  <1>c. ASSUME plan' = plan
        PROVE  WeightMap' = WeightMap
    BY <1>c DEF WeightMap
  <1>d. ASSUME file' = file, plan' = plan, source' = source, pc' = pc
        PROVE  Written'
    BY <1>c, <1>d DEF Written
  <1>1. ASSUME NEW s \in Sources, NEW b \in Budgets, NEW bad \in SUBSET Quantised, Start(s, b, bad)
        PROVE  Written'
    BY <1>1, <1>a, <1>b DEF Start
  <1>2. CASE Open \/ Sync \/ Replace \/ Abort \/ Regenerate \/ Kill \/ PowerLoss
    BY <1>2, <1>a, <1>b DEF Open, Sync, Replace, Abort, Regenerate, Kill, PowerLoss
  <1>3. CASE FillCached \/ FillBuilt \/ FillCopied
    BY <1>3, <1>a, <1>b DEF FillCached, FillBuilt, FillCopied, Filling
  <1>4. CASE CheckSize
    BY <1>4, <1>a, <1>b DEF CheckSize
  <1>5. CASE Check
    BY <1>5, <1>a, <1>b DEF Check
  <1>6. CASE WritesFile
    <2>1. plan' = plan /\ source' = source
      BY <1>6, FileSteps
    <2>2. WeightMap' = WeightMap
      BY <1>c, <2>1
    <2>3. Supports = {"index", "config", "companions", "model_file", "manifest"}
      BY DEF Supports
    <2>4. \/ /\ pc = "index" /\ pc' = "index_open"
          \/ /\ pc = "index_open" /\ pc' = "config"
             /\ file'["index"] = [weight_map |-> WeightMap, total |-> Weight(PlanTensors)]
          \/ /\ pc = "config" /\ pc' = "companions" /\ file'["config"] = source
             /\ file'["index"] = file["index"]
          \/ /\ pc = "companions" /\ pc' = "companions_open"
             /\ file'["index"] = file["index"] /\ file'["config"] = file["config"]
          \/ /\ pc = "companions_open" /\ pc' = "model" /\ file'["companions"] = source
             /\ file'["index"] = file["index"] /\ file'["config"] = file["config"]
          \/ /\ pc = "model" /\ pc' = "model_open"
             /\ file'["index"] = file["index"] /\ file'["config"] = file["config"]
             /\ file'["companions"] = file["companions"]
          \/ /\ pc = "model_open" /\ pc' = "manifest" /\ file'["model_file"] = "emitted"
             /\ file'["index"] = file["index"] /\ file'["config"] = file["config"]
             /\ file'["companions"] = file["companions"]
          \/ /\ pc = "manifest" /\ pc' = "done" /\ file'["model_file"] = file["model_file"]
             /\ file'["index"] = file["index"] /\ file'["config"] = file["config"]
             /\ file'["companions"] = file["companions"]
          \/ pc' \in Regenerating \union {"rest"}
      BY <1>6, <2>3, FileSteps
    <2>5. CASE pc' \in Regenerating \union {"rest"} \/ pc' = "index_open"
      BY <1>a, <1>b, <2>5 DEF Regenerating
    <2>6. CASE pc' \in Indexed
      BY <1>a, <2>1, <2>2, <2>4, <2>6 DEF Written, Regenerating
    <2> QED
      BY <1>b, <2>6
  <1>7. ASSUME NEW f \in Present, NEW j \in DOMAIN shard[f].data, Damage(f, j)
        PROVE  Written'
    BY <1>7, <1>d DEF Damage
  <1>8. CASE UNCHANGED vars
    BY <1>8, <1>d DEF vars
  <1> QED
    BY <1>1, <1>2, <1>3, <1>4, <1>5, <1>6, <1>7, <1>8 DEF Next, WritesFile

\* Every step of the first run keeps the manifest for the end.
LEMMA FirstRunStep == Safe /\ FirstRun /\ [Next]_vars => FirstRun'
  <1> SUFFICES ASSUME Safe, FirstRun, [Next]_vars, runs' <= 1, powerLosses' = 0
               PROVE  /\ pc' \notin Regenerating
                      /\ runs' = 0 => pc' = "rest" /\ Present' = {} /\ \A k \in Supports : file'[k] = NoFile
                      /\ file'["manifest"] = NoFile \/ pc' = "done"
                      /\ runs' = 1 => Present' \subseteq Names(plan')
    BY DEF FirstRun
  <1> USE DEF dir, memory, counts
  <1>0. Types /\ AtWork
    BY DEF Safe
  <1>a. runs \in Nat /\ powerLosses \in Nat /\ "manifest" \in Supports
    BY <1>0 DEF Types, Supports
  <1>b. Regenerating = {"regenerate", "regenerate_open", "record"}
    BY DEF Regenerating
  <1>c. ASSUME runs' = runs, powerLosses' = powerLosses
        PROVE  /\ pc \notin Regenerating
               /\ runs = 0 => pc = "rest" /\ Present = {} /\ \A k \in Supports : file[k] = NoFile
               /\ file["manifest"] = NoFile \/ pc = "done"
               /\ runs = 1 => Present \subseteq Names(plan)
    BY <1>c DEF FirstRun
  <1>d. ASSUME shard' = shard
        PROVE  Present' = Present
    BY <1>d DEF Present
  <1>1. ASSUME NEW s \in Sources, NEW b \in Budgets, NEW bad \in SUBSET Quantised, Start(s, b, bad)
        PROVE  /\ pc' \notin Regenerating
               /\ runs' = 0 => pc' = "rest" /\ Present' = {} /\ \A k \in Supports : file'[k] = NoFile
               /\ file'["manifest"] = NoFile \/ pc' = "done"
               /\ runs' = 1 => Present' \subseteq Names(plan')
    <2>1. /\ runs' = runs + 1 /\ powerLosses' = powerLosses /\ file' = file /\ shard' = shard
          /\ pc' = "open"
      BY <1>1 DEF Start
    <2>2. runs = 0 /\ powerLosses = 0
      BY <1>a, <2>1
    <2>3. Present = {} /\ file["manifest"] = NoFile
      BY <1>a, <2>2 DEF FirstRun
    <2> QED
      BY <1>b, <1>d, <2>1, <2>2, <2>3
  <1>2. CASE Regenerate
    <2>1. runs' = runs + 1 /\ powerLosses' = powerLosses /\ Parses("manifest")
      BY <1>2 DEF Regenerate
    <2>2. runs = 0 /\ powerLosses = 0
      BY <1>a, <2>1
    <2>3. file["manifest"] = NoFile
      BY <1>a, <2>2 DEF FirstRun
    <2> QED
      BY <2>1, <2>3 DEF Parses
  <1>3. CASE PowerLoss
    BY <1>3, <1>a DEF PowerLoss
  <1>4. ASSUME \/ Open \/ Sync \/ Abort \/ CheckSize \/ Check \/ Kill
               \/ FillCached \/ FillBuilt \/ FillCopied
        PROVE  /\ pc' \notin Regenerating
               /\ runs' = 0 => pc' = "rest" /\ Present' = {} /\ \A k \in Supports : file'[k] = NoFile
               /\ file'["manifest"] = NoFile \/ pc' = "done"
               /\ runs' = 1 => Present' \subseteq Names(plan')
    <2>1. /\ runs' = runs /\ powerLosses' = powerLosses /\ file' = file /\ shard' = shard /\ plan' = plan
          /\ pc \notin {"rest", "done"} /\ pc' \notin Regenerating
      <3>1. CASE Open \/ Sync \/ Abort
        BY <1>b, <3>1 DEF Open, Sync, Abort, InShard
      <3>2. CASE CheckSize \/ Check
        BY <1>b, <3>2 DEF CheckSize, Check
      <3>3. CASE Kill
        BY <1>b, <3>3 DEF Kill, Idle
      <3>4. CASE FillCached \/ FillBuilt \/ FillCopied
        <4>1. Filling /\ shard' = shard /\ file' = file /\ pc' = pc /\ counts' = counts /\ plan' = plan
          BY <3>4, SafeFill
        <4> QED
          BY <1>b, <4>1 DEF Filling
      <3> QED
        BY <1>4, <3>1, <3>2, <3>3, <3>4
    <2> QED
      BY <1>c, <1>d, <2>1
  <1>5. CASE Replace
    <2>1. /\ runs' = runs /\ powerLosses' = powerLosses /\ file' = file /\ plan' = plan /\ pc = "replace"
          /\ pc' = "size" /\ shard' = [shard EXCEPT ![Name] = tmp]
      BY <1>5 DEF Replace
    <2>2. Present' \subseteq Present \union {Name}
      BY <1>0, <2>1 DEF Present, Types
    <2>3. Name \in Names(plan)
      <3>1. at \in 1..Len(plan)
        BY <1>0, <2>1 DEF AtWork, Converting, Sharding
      <3> QED
        BY <3>1 DEF Name, Names
    <2> QED
      BY <1>b, <1>c, <2>1, <2>2, <2>3
  <1>6. CASE WritesFile
    <2>1. /\ runs' = runs /\ powerLosses' = powerLosses /\ plan' = plan /\ shard' = shard
      BY <1>0, <1>6, FileSteps
    <2>2. /\ pc \notin Regenerating
          /\ runs = 0 => pc = "rest" /\ Present = {} /\ \A k \in Supports : file[k] = NoFile
          /\ file["manifest"] = NoFile \/ pc = "done"
          /\ runs = 1 => Present \subseteq Names(plan)
      BY <1>c, <2>1
    <2>3. /\ pc \notin {"rest", "done"} /\ pc' \notin Regenerating
          /\ file'["manifest"] = file["manifest"] \/ pc' = "done"
      <3>1. Supports = {"index", "config", "companions", "model_file", "manifest"}
        BY DEF Supports
      <3> QED
        BY <1>0, <1>6, <1>b, <2>2, <3>1, FileSteps
    <2> QED
      BY <1>d, <2>1, <2>2, <2>3
  <1>7. ASSUME NEW f \in Present, NEW j \in DOMAIN shard[f].data, Damage(f, j)
        PROVE  /\ pc' \notin Regenerating
               /\ runs' = 0 => pc' = "rest" /\ Present' = {} /\ \A k \in Supports : file'[k] = NoFile
               /\ file'["manifest"] = NoFile \/ pc' = "done"
               /\ runs' = 1 => Present' \subseteq Names(plan')
    <2>1. /\ runs' = runs /\ powerLosses' = powerLosses /\ file' = file /\ plan' = plan /\ pc' = pc
          /\ shard' = [shard EXCEPT ![f].data[j] = Damaged]
      BY <1>7 DEF Damage
    <2>2. Present' \subseteq Present
      BY <2>1 DEF Present
    <2>3. runs # 0
      BY <1>c, <2>1
    <2> QED
      BY <1>c, <2>1, <2>2, <2>3
  <1>8. CASE UNCHANGED vars
    <2>1. /\ runs' = runs /\ powerLosses' = powerLosses /\ file' = file
          /\ shard' = shard /\ plan' = plan /\ pc' = pc
      BY <1>8 DEF vars
    <2> QED
      BY <1>c, <1>d, <2>1
  <1> QED
    BY <1>1, <1>2, <1>3, <1>4, <1>5, <1>6, <1>7, <1>8 DEF Next, WritesFile

\* The invariant of a directory and of what is at work in it.
Inv == Safe /\ MadeSoFar /\ Resident /\ Written /\ FirstRun

\* Every reachable state satisfies it.
THEOREM ConvertInvariant == Spec => []Inv
  <1>1. Init => Inv
    <2> SUFFICES ASSUME Init PROVE Inv
      OBVIOUS
    <2>1. Safe
      BY SafeInit
    <2>2. pc = "rest" /\ DOMAIN produced = {} /\ Present = {} /\ runs = 0
          /\ \A k \in Supports : file[k] = NoFile
      BY DEF Init, Present
    <2>3. Tensors[1] \in ToSet(Tensors)
      BY TensorsAre
    <2>4. MadeSoFar /\ Resident /\ Written
      BY <2>2, <2>3 DEF MadeSoFar, Resident, Written, Converting, Sharding, Checked, Indexed,
            Configured, Accompanied, Complete
    <2>5. FirstRun
      BY <2>2 DEF FirstRun, Supports, Regenerating
    <2> QED
      BY <2>1, <2>4, <2>5 DEF Inv
  <1>2. Inv /\ [Next]_vars => Inv'
    <2>1. Safe => Types
      BY DEF Safe
    <2> QED
      BY <2>1, SafeStep, MadeStep, ResidentStep, WrittenStep, FirstRunStep DEF Inv
  <1> QED
    BY <1>1, <1>2, PTL DEF Spec

\* What is read of a file that is whole.
LEMMA ReadOf ==
    ASSUME Types, NEW f, NEW a, Holds(f, a), Whole(shard[f])
    PROVE  /\ Position(f, a) \in 1..Len(shard[f].holds)
           /\ CanRead(f, a) /\ Position(f, a) \in 1..Len(shard[f].data)
  <1>1. f \in Present /\ Contains(shard[f].holds, a)
    BY DEF Holds
  <1>2. shard[f] \in Shards
    BY <1>1 DEF Present, Types
  <1>3. Len(shard[f].holds) \in Nat /\ Len(shard[f].data) = Len(shard[f].holds)
    BY <1>2 DEF Shards, Whole
  <1>4. Position(f, a) \in 1..Len(shard[f].holds)
    BY <1>1, <1>3, PositionOf
  <1> QED
    BY <1>3, <1>4 DEF CanRead

\* A directory in which the shards of one plan are, all of one source.
LEMMA LoadsWhatWasMade ==
    ASSUME Safe, NEW p \in Plans, NEW s \in Sources, Present \subseteq Names(p), file["config"] = s,
           \A i \in 1..Len(p) : /\ shard[ShardName(i, Len(p))] # NoFile
                                /\ shard[ShardName(i, Len(p))].holds = p[i]
                                /\ Of(shard[ShardName(i, Len(p))].data, s)
    PROVE  LoadsExactly(s)
  <1>1. Types /\ \A f \in Present : Whole(shard[f])
    BY DEF Safe, Stored
  <1>2. ASSUME NEW i \in 1..Len(p)
        PROVE  ShardName(i, Len(p)) \in Present
    BY <1>1, PlanFits DEF Present, Types
  <1>3. ASSUME NEW f \in Present
        PROVE  Of(shard[f].data, s) /\ \E i \in 1..Len(p) : shard[f].holds = p[i]
    BY DEF Names
  <1>4. Parses("config")
    BY DirAssumption DEF Parses
  <1>5. ASSUME NEW a \in Arrays
        PROVE  \E f \in Present : Holds(f, a)
    <2>1. PICK i \in 1..Len(p) : Contains(p[i], a)
      BY HeldSomewhere
    <2> QED
      BY <1>2, <2>1 DEF Holds
  <1>6. UNION {ToSet(shard[f].holds) : f \in Present} = Arrays
    <2>1. ASSUME NEW f \in Present
          PROVE  ToSet(shard[f].holds) \subseteq Arrays
      <3>1. PICK x \in Seq(Arrays) : shard[f].holds = x
        BY <1>3, PlanFits
      <3> QED
        BY <3>1 DEF ToSet
    <2>2. ASSUME NEW a \in Arrays
          PROVE  \E f \in Present : a \in ToSet(shard[f].holds)
      <3>1. PICK f \in Present : Holds(f, a)
        BY <1>5
      <3>2. shard[f].holds \in Seq(Arrays)
        BY <1>3, PlanFits
      <3>3. PICK i \in 1..Len(shard[f].holds) : shard[f].holds[i] = a
        BY <3>1 DEF Holds, Contains
      <3>4. i \in DOMAIN shard[f].holds
        BY <3>2, <3>3
      <3> QED
        BY <3>3, <3>4 DEF ToSet
    <2> QED
      BY <2>1, <2>2
  <1>7. ASSUME NEW a \in Arrays
        PROVE  Loadable(a) = {s}
    <2>1. ASSUME NEW f \in Present, Holds(f, a)
          PROVE  Read(f, a) = s
      BY <1>1, <1>3, <2>1, ReadOf DEF Read, Of
    <2>2. PICK f \in Present : Holds(f, a)
      BY <1>5
    <2> QED
      BY <2>1, <2>2 DEF Loadable
  <1> QED
    BY <1>1, <1>4, <1>6, <1>7 DEF LoadsExactly, LoaderAccepts

\* In a directory that one run has worked on and no loss of power, the manifest is
\* there only if everything else is (convert writes it last).
THEOREM ManifestIsLast == Spec => []ManifestComesLast
  <1>1. ASSUME Inv PROVE ManifestComesLast
    <2> SUFFICES ASSUME runs = 1, powerLosses = 0, Parses("manifest")
                 PROVE  /\ ModelBuilds
                        /\ file["companions"] = source /\ file["config"] = source
                        /\ damage = 0 => LoadsExactly(source)
      BY DEF ManifestComesLast
    <2>1. Safe /\ MadeSoFar /\ Written /\ FirstRun
      BY <1>1 DEF Inv
    <2>2. pc = "done" /\ Present \subseteq Names(plan)
      BY <2>1 DEF FirstRun, Parses
    <2>3. file["companions"] = source /\ file["config"] = source /\ file["model_file"] = "emitted"
      BY <2>1, <2>2 DEF Written, Configured, Accompanied, Complete
    <2>4. pc \in Converting /\ pc \notin Sharding
      BY <2>2 DEF Converting, Sharding, Checked, Indexed, Configured, Accompanied, Complete
    <2>5. plan \in Plans /\ at = Len(plan) /\ at \in 1..Len(plan) /\ source \in Sources
      BY <2>1, <2>4 DEF Safe, AtWork, Types
    <2>6. ASSUME damage = 0
          PROVE  LoadsExactly(source)
      <3>1. \A i \in 1..Len(plan) : i \in 1..at - 1 \/ i = at
        BY <2>5, PlanFits
      <3>2. \A i \in 1..Len(plan) : Made(i)
        BY <2>1, <2>2, <2>4, <3>1 DEF MadeSoFar
      <3>3. \A i \in 1..Len(plan) : /\ shard[ShardName(i, Len(plan))] # NoFile
                                    /\ shard[ShardName(i, Len(plan))].holds = plan[i]
                                    /\ Of(shard[ShardName(i, Len(plan))].data, source)
        BY <2>6, <3>2 DEF Made
      <3> QED
        BY <2>1, <2>2, <2>3, <2>5, <3>3, LoadsWhatWasMade
    <2>7. ModelBuilds
      BY <2>3, DirAssumption DEF ModelBuilds
    <2> QED
      BY <2>3, <2>6, <2>7
  <1> QED
    BY <1>1, ConvertInvariant, PTL

\* What verify.py passes for a source is what the loader gets, if every run has the
\* same budget: MCConvertBudgets.cfg shows that it must.
THEOREM VerifiedLoads ==
    ASSUME \A b1, b2 \in Budgets : PlanShards(b1) = PlanShards(b2)
    PROVE  Spec => []VerifiedIsLoaded
  <1>1. ASSUME Inv PROVE VerifiedIsLoaded
    <2> SUFFICES ASSUME NEW s \in Sources, VerifyPasses(s)
                 PROVE  LoadsExactly(s)
      BY DEF VerifiedIsLoaded
    <2>1. Types /\ \A f \in Present : Stored(f)
      BY <1>1 DEF Inv, Safe
    <2>2. IndexHonest /\ StructureComplete /\ WeightsExact(s)
      BY DEF VerifyPasses
    <2>3. \A a \in Arrays : Holds(Owner(a), a) /\ CanRead(Owner(a), a) /\ Read(Owner(a), a) = s
      BY <2>2 DEF IndexHonest, StructureComplete, WeightsExact
    <2>4. ASSUME NEW f \in Present, NEW g \in Present, NEW a \in Arrays, Holds(f, a), Holds(g, a)
          PROVE  f = g
      <3>1. PICK p \in Plans : \E i \in 1..Len(p) : f = ShardName(i, Len(p)) /\ shard[f].holds = p[i]
        BY <2>1 DEF Stored
      <3>2. PICK i \in 1..Len(p) : f = ShardName(i, Len(p)) /\ shard[f].holds = p[i]
        BY <3>1
      <3>3. PICK q \in Plans : \E j \in 1..Len(q) : g = ShardName(j, Len(q)) /\ shard[g].holds = q[j]
        BY <2>1 DEF Stored
      <3>4. PICK j \in 1..Len(q) : g = ShardName(j, Len(q)) /\ shard[g].holds = q[j]
        BY <3>3
      <3>5. p = q
        BY DEF Plans
      <3>6. i = j
        BY <2>4, <3>2, <3>4, <3>5, HeldOnce DEF Holds
      <3> QED
        BY <3>2, <3>4, <3>5, <3>6
    <2>5. \A f \in Present : Whole(shard[f])
      BY <2>1 DEF Stored
    <2>6. UNION {ToSet(shard[f].holds) : f \in Present} = Arrays
      <3>1. ASSUME NEW f \in Present
            PROVE  shard[f].holds \in Seq(Arrays)
        BY <2>1 DEF Present, Types, Shards
      <3>2. ASSUME NEW x \in Seq(Arrays)
            PROVE  ToSet(x) \subseteq Arrays
        BY DEF ToSet
      <3>3. ASSUME NEW a \in Arrays
            PROVE  Owner(a) \in Present /\ a \in ToSet(shard[Owner(a)].holds)
        <4>1. PICK f \in Present : f = Owner(a) /\ Contains(shard[f].holds, a)
          BY <2>3 DEF Holds
        <4>2. shard[f].holds \in Seq(Arrays)
          BY <3>1
        <4>3. PICK i \in 1..Len(shard[f].holds) : shard[f].holds[i] = a
          BY <4>1 DEF Contains
        <4>4. i \in DOMAIN shard[f].holds
          BY <4>2, <4>3
        <4> QED
          BY <4>1, <4>3, <4>4 DEF ToSet
      <3> QED
        BY <3>1, <3>2, <3>3
    <2>7. ASSUME NEW a \in Arrays
          PROVE  Loadable(a) = {s}
      <3>1. Owner(a) \in Present
        BY <2>3 DEF Holds
      <3>2. \A f \in Present : Holds(f, a) => f = Owner(a)
        BY <2>3, <2>4, <3>1
      <3> QED
        BY <2>3, <3>1, <3>2 DEF Loadable
    <2>8. Parses("config")
      BY <2>2 DEF StructureComplete
    <2> QED
      BY <2>5, <2>6, <2>7, <2>8 DEF LoadsExactly, LoaderAccepts
  <1> QED
    BY <1>1, ConvertInvariant, PTL

----------------------------------------------------------------------------
(* The sizes. *)

\* The sizes of the arrays of the plan.
PlanBytes == [i \in 1..Len(PlanTensors) |-> Bytes[PlanTensors[i]]]

\* The bytes of a plan's arrays are numbers.
LEMMA PlanBytesAre ==
    /\ Len(PlanTensors) \in Nat /\ \A i \in 1..Len(PlanTensors) : PlanBytes[i] \in Nat
    /\ Weight(PlanTensors) = SumFunctionOnSet(PlanBytes, 1..Len(PlanTensors))
  <1>1. /\ Len(PlanTensors) \in Nat /\ \A i \in 1..Len(PlanTensors) : PlanTensors[i] \in Arrays
    BY PlanFacts
  <1>2. \A a \in Arrays : Bytes[a] \in Nat
    BY PlanAssumption
  <1>3. \A i \in 1..Len(PlanTensors) : PlanBytes[i] \in Nat
    BY <1>1, <1>2 DEF PlanBytes
  <1>4. Weight(PlanTensors) = SumFunctionOnSet(PlanBytes, DOMAIN PlanBytes)
    BY DEF Weight, SumFunction, PlanBytes
  <1>5. DOMAIN PlanBytes = 1..Len(PlanTensors)
    BY DEF PlanBytes
  <1> QED
    BY <1>1, <1>3, <1>4, <1>5

\* m arrays of the plan, after the first k, weigh what they add to those.
LEMMA WeightAdds ==
    ASSUME NEW s \in Seq(Arrays), NEW k \in Nat, k + Len(s) <= Len(PlanTensors),
           \A j \in 1..Len(s) : s[j] = PlanTensors[k + j]
    PROVE  /\ Weight(s) \in Nat
           /\ SumFunctionOnSet(PlanBytes, 1..k + Len(s))
                = SumFunctionOnSet(PlanBytes, 1..k) + Weight(s)
  <1> DEFINE m == Len(s)
             n == Len(PlanTensors)
             v == [i \in 1..m |-> Bytes[s[i]]]
             Sum(j) == SumFunctionOnSet(v, 1..j)
             All(j) == SumFunctionOnSet(PlanBytes, 1..j)
  <1>1. m \in Nat /\ n \in Nat /\ \A i \in 1..n : PlanBytes[i] \in Nat
    BY PlanBytesAre
  <1>2. k + m <= n
    OBVIOUS
  <1>3. ASSUME NEW j \in 1..m
        PROVE  v[j] = PlanBytes[k + j] /\ k + j \in 1..n
    <2>1. k + j \in 1..n
      BY <1>1, <1>2
    <2> QED
      BY <2>1 DEF PlanBytes
  <1>4. Weight(s) = Sum(m)
    BY DEF Weight, SumFunction
  <1> HIDE DEF m, n, v
  <1>5. \A j \in 1..m : v[j] \in Nat
    BY <1>1, <1>3
  <1>6. /\ \A j \in 0..m : Sum(j) \in Nat
        /\ Sum(0) = 0
        /\ \A j \in 0..m - 1 : Sum(j + 1) = Sum(j) + v[j + 1]
    BY <1>1, <1>5, SumUpTo
  <1>7. /\ \A j \in 0..n : All(j) \in Nat
        /\ \A j \in 0..n - 1 : All(j + 1) = All(j) + PlanBytes[j + 1]
    BY <1>1, SumUpTo
  <1> HIDE DEF Sum, All
  <1> DEFINE P == {j \in 0..m : All(k + j) = All(k) + Sum(j)}
  <1>8. k \in 0..n /\ All(k) \in Nat
    BY <1>1, <1>2, <1>7
  <1>9. 0 \in P
    <2>1. k + 0 = k /\ All(k) + 0 = All(k)
      BY <1>8
    <2> QED
      BY <1>1, <1>6, <2>1
  <1>10. ASSUME NEW j \in 0..m - 1, j \in P
         PROVE  j + 1 \in P
    <2>1. j + 1 \in 1..m /\ j + 1 \in 0..m /\ j \in 0..m /\ k + j \in 0..n - 1 /\ (k + j) + 1 = k + (j + 1)
      BY <1>1, <1>2
    <2>2. All(k + (j + 1)) = All(k + j) + PlanBytes[k + (j + 1)]
      BY <1>7, <2>1
    <2>3. PlanBytes[k + (j + 1)] = v[j + 1]
      BY <1>3, <2>1
    <2>4. All(k + j) = All(k) + Sum(j) /\ Sum(j + 1) = Sum(j) + v[j + 1]
      BY <1>6, <1>10
    <2>5. Sum(j) \in Nat /\ v[j + 1] \in Nat
      BY <1>5, <1>6, <2>1
    <2>6. ASSUME NEW x \in Nat, NEW y \in Nat, NEW z \in Nat
          PROVE  (x + y) + z = x + (y + z)
      OBVIOUS
    <2>7. All(k + (j + 1)) = All(k) + Sum(j + 1)
      BY <1>8, <2>2, <2>3, <2>4, <2>5, <2>6
    <2> QED
      BY <2>1, <2>7
  <1> HIDE DEF P
  <1>11. \A j \in 0..m : j \in P
    BY <1>1, <1>9, <1>10, UpTo
  <1>12. m \in P
    BY <1>1, <1>11
  <1>13. Sum(m) \in Nat
    BY <1>1, <1>6
  <1> QED
    BY <1>4, <1>12, <1>13 DEF P, All, m

\* The shards of a plan weigh what its arrays do.
LEMMA ShardsAddUp ==
    ASSUME NEW p \in Plans, NEW sizes,
           \A i \in 1..Len(p) : sizes[ShardName(i, Len(p))] = Weight(p[i])
    PROVE  SumFunctionOnSet(sizes, Names(p)) = Weight(PlanTensors)
  <1> DEFINE n == Len(p)
             k == Len(PlanTensors)
             First(j) == {ShardName(i, n) : i \in 1..j}
             All(j) == SumFunctionOnSet(PlanBytes, 1..j)
  <1>1. p \in Seq(Seq(Arrays)) /\ n \in Nat /\ k \in Nat /\ \A i \in 1..n : p[i] \in Seq(Arrays)
    BY PlanFits, PlanFacts
  <1>2. PICK c : Cuts(c, p, k)
    BY PlanFits DEF Cut
  <1>3. c[0] = 0 /\ c[n] = k /\ \A m \in 0..n : c[m] \in Nat
    BY <1>2 DEF Cuts
  <1>4. All(0) = 0 /\ \A j \in 0..k : All(j) \in Nat
    BY PlanBytesAre, SumUpTo
  <1>5. ASSUME NEW i \in 1..n
        PROVE  Weight(p[i]) \in Nat /\ All(c[i]) = All(c[i - 1]) + Weight(p[i])
               /\ sizes[ShardName(i, n)] = Weight(p[i])
    <2>1. i - 1 \in 0..n /\ p[i] \in Seq(Arrays)
      BY <1>1
    <2>2. /\ c[i] = c[i - 1] + Len(p[i]) /\ c[i] <= k /\ c[i - 1] \in Nat
          /\ \A j \in 1..Len(p[i]) : p[i][j] = PlanTensors[c[i - 1] + j]
      BY <1>2, <1>3, <2>1 DEF Cuts
    <2>3. PICK x : x = c[i - 1]
      OBVIOUS
    <2>4. PICK s : s = p[i]
      OBVIOUS
    <2>5. /\ s \in Seq(Arrays) /\ x \in Nat /\ x + Len(s) <= Len(PlanTensors)
          /\ \A j \in 1..Len(s) : s[j] = PlanTensors[x + j]
      BY <2>1, <2>2, <2>3, <2>4
    <2> HIDE DEF k, n
    <2>6. /\ Weight(s) \in Nat
          /\ SumFunctionOnSet(PlanBytes, 1..x + Len(s)) = SumFunctionOnSet(PlanBytes, 1..x) + Weight(s)
      BY <2>5, WeightAdds
    <2>7. c[i] = x + Len(s)
      BY <2>2, <2>3, <2>4
    <2> QED
      BY <2>3, <2>4, <2>6, <2>7 DEF n
  <1> HIDE DEF n, k, All
  <1> DEFINE P == {j \in 0..n : /\ Summable(sizes, First(j))
                                /\ SumFunctionOnSet(sizes, First(j)) = All(c[j])}
  <1>6. 0 \in P
    <2>1. First(0) = {}
      OBVIOUS
    <2>2. Summable(sizes, {})
      BY FS_EmptySet DEF Summable
    <2>3. SumFunctionOnSet(sizes, {}) = 0
      BY <2>2, SumLaws
    <2> HIDE DEF First
    <2>4. Summable(sizes, First(0)) /\ SumFunctionOnSet(sizes, First(0)) = 0
      BY <2>1, <2>2, <2>3
    <2>5. All(c[0]) = 0
      BY <1>3, <1>4
    <2>6. 0 \in 0..n
      BY <1>1
    <2> QED
      BY <2>4, <2>5, <2>6
  <1>7. ASSUME NEW j \in 0..n - 1, j \in P
        PROVE  j + 1 \in P
    <2> DEFINE x == ShardName(j + 1, n)
    <2>1. j + 1 \in 1..n /\ j + 1 \in 0..n /\ (j + 1) - 1 = j /\ j \in 0..n
      BY <1>1
    <2>2. First(j + 1) = First(j) \union {x} /\ x \notin First(j)
      <3>1. \A i : i \in 1..j + 1 <=> i \in 1..j \/ i = j + 1
        OBVIOUS
      <3>2. \A i \in 1..j : i # j + 1
        OBVIOUS
      <3>3. \A i \in 1..j : ShardName(i, n) # x
        BY <3>2, NamesDiffer
      <3> QED
        BY <3>1, <3>3
    <2>3. Weight(p[j + 1]) \in Nat /\ All(c[j + 1]) = All(c[j]) + Weight(p[j + 1])
          /\ sizes[x] = Weight(p[j + 1])
      BY <1>5, <2>1
    <2>4. Summable(sizes, First(j)) /\ SumFunctionOnSet(sizes, First(j)) = All(c[j])
      BY <1>7
    <2> HIDE DEF First, x
    <2>5. Summable(sizes, First(j + 1))
      <3>1. IsFiniteSet(First(j) \union {x})
        BY <2>4, FS_AddElement DEF Summable
      <3> QED
        BY <2>2, <2>3, <2>4, <3>1 DEF Summable
    <2>6. x \in First(j + 1) /\ First(j + 1) \ {x} = First(j)
      BY <2>2
    <2>7. SumFunctionOnSet(sizes, First(j + 1)) = sizes[x] + SumFunctionOnSet(sizes, First(j + 1) \ {x})
      BY <2>5, <2>6, SumLaws
    <2>8. SumFunctionOnSet(sizes, First(j)) \in Nat
      BY <2>4, SumLaws
    <2>9. SumFunctionOnSet(sizes, First(j + 1)) = All(c[j + 1])
      <3>1. SumFunctionOnSet(sizes, First(j + 1)) = sizes[x] + SumFunctionOnSet(sizes, First(j))
        BY <2>6, <2>7
      <3>2. SumFunctionOnSet(sizes, First(j + 1)) = SumFunctionOnSet(sizes, First(j)) + Weight(p[j + 1])
        BY <2>3, <2>8, <3>1
      <3> QED
        BY <2>3, <2>4, <3>2
    <2> QED
      BY <2>1, <2>5, <2>9
  <1> HIDE DEF P
  <1>8. \A j \in 0..n : j \in P
    BY <1>1, <1>6, <1>7, UpTo
  <1>9. n \in P
    BY <1>1, <1>8
  <1>10. Names(p) = First(n)
    BY DEF Names, n
  <1> HIDE DEF First
  <1> QED
    BY <1>3, <1>9, <1>10, PlanBytesAre DEF P, All, k

\* The shard that the index names for an array.
LEMMA IndexNames ==
    ASSUME plan \in Plans
    PROVE  /\ DOMAIN WeightMap = Arrays
           /\ \A a \in Arrays : \E i \in 1..Len(plan) :
                 WeightMap[a] = ShardName(i, Len(plan)) /\ Contains(plan[i], a)
           /\ {WeightMap[a] : a \in Arrays} = Names(plan)
  <1>1. /\ plan \in Seq(Seq(Arrays)) /\ Len(plan) \in Nat /\ DOMAIN plan = 1..Len(plan)
        /\ \A i \in 1..Len(plan) : plan[i] \in Seq(Arrays)
    BY PlanFits
  <1>2. ASSUME NEW a \in Arrays
        PROVE  \E i \in 1..Len(plan) : WeightMap[a] = ShardName(i, Len(plan)) /\ Contains(plan[i], a)
    <2> DEFINE i == CHOOSE i \in DOMAIN plan : Contains(plan[i], a)
    <2>1. i \in 1..Len(plan) /\ Contains(plan[i], a)
      BY <1>1, HeldSomewhere
    <2>2. WeightMap[a] = ShardName(i, Len(plan))
      BY DEF WeightMap
    <2> HIDE DEF i
    <2> QED
      BY <2>1, <2>2
  <1>3. ASSUME NEW i \in 1..Len(plan)
        PROVE  \E a \in Arrays : WeightMap[a] = ShardName(i, Len(plan))
    <2>1. Len(plan[i]) > 0
      <3>1. PICK c : Cuts(c, plan, Len(PlanTensors))
        BY PlanFits DEF Cut
      <3>2. Len(PlanTensors) > 0
        BY PlanFacts
      <3> QED
        BY <3>1, <3>2 DEF Cuts
    <2>2. PICK x \in Seq(Arrays) : x = plan[i]
      BY <1>1
    <2>3. x[1] \in Arrays /\ Contains(x, x[1])
      BY <2>1, <2>2 DEF Contains
    <2>4. PICK j \in 1..Len(plan) : WeightMap[x[1]] = ShardName(j, Len(plan)) /\ Contains(plan[j], x[1])
      BY <1>2, <2>3
    <2>5. j = i
      BY <2>2, <2>3, <2>4, HeldOnce
    <2> QED
      BY <2>3, <2>4, <2>5
  <1>4. DOMAIN WeightMap = Arrays
    BY DEF WeightMap
  <1> QED
    BY <1>2, <1>3, <1>4 DEF Names

\* A run that ends with its manifest leaves what verify.py passes for its source.
THEOREM CompletedPass == Spec => CompletedVerifies
  <1>1. ASSUME Inv, [Next]_vars, pc = "manifest", pc' = "done"
        PROVE  VerifyPasses(source)'
    <2> USE DEF dir, memory, counts
    <2>1. Safe /\ MadeSoFar /\ Written /\ Types /\ AtWork
      BY <1>1 DEF Inv, Safe
    <2>2. WriteManifest
      <3>1. ~(\E s \in Sources, b \in Budgets, bad \in SUBSET Quantised : Start(s, b, bad))
        BY <1>1 DEF Start
      <3>2. ~(Open \/ FillCached \/ FillBuilt \/ FillCopied \/ Sync \/ Replace \/ Abort)
        BY <1>1 DEF Open, FillCached, FillBuilt, FillCopied, Filling, Sync, Replace, Abort
      <3>3. ~(CheckSize \/ Check \/ Regenerate \/ Kill \/ PowerLoss)
        BY <1>1 DEF CheckSize, Check, Regenerate, Kill, PowerLoss
      <3>4. ~(\E f \in Present : \E i \in DOMAIN shard[f].data : Damage(f, i))
        BY <1>1 DEF Damage
      <3>5. ~(UNCHANGED vars)
        BY <1>1 DEF vars
      <3>6. ~(OpenIndex \/ WriteIndex \/ WriteConfig \/ OpenCompanions \/ CopyCompanions)
        BY <1>1 DEF OpenIndex, WriteIndex, WriteConfig, OpenCompanions, CopyCompanions, Empty, Write
      <3>7. ~(OpenModelFile \/ WriteModelFile \/ ReopenModelFile \/ RewriteModelFile \/ RewriteManifest)
        BY <1>1 DEF OpenModelFile, WriteModelFile, ReopenModelFile, RewriteModelFile, RewriteManifest,
              Empty, Write
      <3> QED
        BY <1>1, <3>1, <3>2, <3>3, <3>4, <3>5, <3>6, <3>7 DEF Next
    <2>3. /\ shard' = shard /\ source' = source
          /\ file'["manifest"] = [f \in Names(plan) |-> SizeOf(shard[f])]
          /\ \A j \in Supports \ {"manifest"} : file'[j] = file[j]
      BY <1>1, <2>1, <2>2, FileSteps DEF WritesFile, Regenerating
    <2>4. Supports = {"index", "config", "companions", "model_file", "manifest"}
      BY DEF Supports
    <2>5. pc \in Converting /\ pc \notin Sharding
      BY <1>1 DEF Converting, Sharding, Checked, Indexed, Configured, Accompanied, Complete
    <2>6. plan \in Plans /\ at = Len(plan) /\ at \in 1..Len(plan) /\ source \in Sources
      BY <2>1, <2>5 DEF AtWork, Types
    <2>7. /\ file'["index"] = [weight_map |-> WeightMap, total |-> Weight(PlanTensors)]
          /\ file'["config"] = source /\ file'["model_file"] = "emitted"
      BY <1>1, <2>1, <2>3, <2>4 DEF Written, Indexed, Configured, Accompanied, Complete
    <2>8. ASSUME NEW i \in 1..Len(plan)
          PROVE  /\ ShardName(i, Len(plan)) \in Present
                 /\ shard[ShardName(i, Len(plan))].holds = plan[i]
                 /\ Of(shard[ShardName(i, Len(plan))].data, source)
                 /\ Whole(shard[ShardName(i, Len(plan))])
                 /\ plan[i] \in Seq(Arrays)
      <3>1. i \in 1..at - 1 \/ i = at
        BY <2>6, PlanFits
      <3>2. Made(i)
        BY <1>1, <2>1, <2>5, <3>1 DEF MadeSoFar
      <3>3. ShardName(i, Len(plan)) \in Present /\ plan[i] \in Seq(Arrays)
        BY <2>1, <2>6, <3>2, PlanFits DEF Made, Present, Types
      <3> QED
        BY <1>1, <2>1, <3>2, <3>3 DEF Made, Safe, Stored
    <2>9. /\ DOMAIN WeightMap = Arrays
          /\ \A a \in Arrays : \E i \in 1..Len(plan) :
                WeightMap[a] = ShardName(i, Len(plan)) /\ Contains(plan[i], a)
          /\ {WeightMap[a] : a \in Arrays} = Names(plan)
      BY <2>6, IndexNames
    <2>10. ASSUME NEW a \in Arrays
           PROVE  /\ Holds(WeightMap[a], a)
                  /\ CanRead(WeightMap[a], a) /\ Read(WeightMap[a], a) = source
      <3>1. PICK i \in 1..Len(plan) : WeightMap[a] = ShardName(i, Len(plan)) /\ Contains(plan[i], a)
        BY <2>9
      <3>2. Holds(WeightMap[a], a)
        BY <2>8, <3>1 DEF Holds
      <3>3. CanRead(WeightMap[a], a) /\ Position(WeightMap[a], a) \in 1..Len(shard[WeightMap[a]].data)
        BY <2>1, <2>8, <3>1, <3>2, ReadOf
      <3> QED
        BY <2>8, <3>1, <3>2, <3>3 DEF Read, Of
    <2>11. ASSUME NEW i \in 1..Len(plan)
           PROVE  SizeOf(shard[ShardName(i, Len(plan))]) = Weight(plan[i]) /\ Weight(plan[i]) \in Nat
      <3>1. PICK x \in Seq(Arrays) : x = plan[i]
        BY <2>8
      <3>2. SubSeq(x, 1, Len(x)) = x
        OBVIOUS
      <3>3. SizeOf(shard[ShardName(i, Len(plan))]) = Weight(x)
        BY <2>8, <3>1, <3>2 DEF SizeOf, Whole
      <3>4. Weight(x) \in Nat
        <4>1. PICK c : Cuts(c, plan, Len(PlanTensors))
          BY <2>6, PlanFits DEF Cut
        <4>2. PICK k : k = c[i - 1]
          OBVIOUS
        <4>3. i - 1 \in 0..Len(plan)
          BY <2>6, PlanFits
        <4>4. /\ k \in Nat /\ k + Len(x) <= Len(PlanTensors)
              /\ \A j \in 1..Len(x) : x[j] = PlanTensors[k + j]
          BY <3>1, <4>1, <4>2, <4>3 DEF Cuts
        <4> QED
          BY <4>4, WeightAdds
      <3> QED
        BY <3>1, <3>3, <3>4
    <2> DEFINE sizes == [f \in Names(plan) |-> SizeOf(shard[f])]
    <2>12. /\ sizes \in [Names(plan) -> Nat]
           /\ SumFunctionOnSet(sizes, Names(plan)) = Weight(PlanTensors)
      <3>1. \A f \in Names(plan) : \E i \in 1..Len(plan) : f = ShardName(i, Len(plan))
        BY DEF Names
      <3>2. \A i \in 1..Len(plan) : ShardName(i, Len(plan)) \in Names(plan)
        BY DEF Names
      <3>3. \A i \in 1..Len(plan) : sizes[ShardName(i, Len(plan))] = Weight(plan[i])
        BY <2>11, <3>2
      <3>4. sizes \in [Names(plan) -> Nat]
        BY <2>11, <3>1
      <3> HIDE DEF sizes
      <3>5. SumFunctionOnSet(sizes, Names(plan)) = Weight(PlanTensors)
        BY <2>6, <3>3, ShardsAddUp
      <3> QED
        BY <3>4, <3>5
    <2>13. PICK b \in Budgets : plan = PlanShards(b)
      BY <2>6 DEF Plans
    <2>14. WeightMap \in [Arrays -> ShardNames] /\ Weight(PlanTensors) \in Nat
      <3>1. \A a \in Arrays : WeightMap[a] \in ShardNames
        BY <2>6, <2>9, PlanFits
      <3>2. WeightMap = [a \in Arrays |-> WeightMap[a]]
        BY DEF WeightMap
      <3>3. Weight(PlanTensors) \in Nat
        <4>1. PICK n \in Nat : n = Len(PlanTensors)
          BY PlanBytesAre
        <4>2. n \in 0..n /\ \A i \in 1..n : PlanBytes[i] \in Nat
          BY <4>1, PlanBytesAre
        <4>3. SumFunctionOnSet(PlanBytes, 1..n) \in Nat
          BY <4>2, SumUpTo
        <4> QED
          BY <4>1, <4>3, PlanBytesAre
      <3> QED
        BY <3>1, <3>2, <3>3
    <2>15. Parses("index")' /\ Parses("config")' /\ Parses("manifest")' /\ file'["model_file"] # NoFile
      <3>1. file'["index"] \in [weight_map : [Arrays -> ShardNames], total : Nat]
        BY <2>7, <2>14
      <3>2. file'["manifest"] \in [Names(PlanShards(b)) -> Nat]
        BY <2>3, <2>12, <2>13
      <3>3. file'["index"] \notin {NoFile, Torn}
        BY <3>1, WrittenAssumption
      <3>4. file'["manifest"] \notin {NoFile, Torn}
        BY <3>2, WrittenAssumption
      <3> QED
        BY <2>6, <2>7, <3>3, <3>4, DirAssumption DEF Parses
    <2>16. PICK index : index = WeightMap
      OBVIOUS
    <2>17. file'["index"].weight_map = index /\ file'["index"].total = Weight(PlanTensors)
      BY <2>7, <2>16
    <2>18. /\ DOMAIN index = Arrays /\ {index[a] : a \in Arrays} = Names(plan)
           /\ \A a \in Arrays : /\ Holds(index[a], a)
                                /\ CanRead(index[a], a) /\ Read(index[a], a) = source
      BY <2>9, <2>10, <2>16
    <2> HIDE DEF sizes
    <2>19. IndexHonest'
      BY <2>3, <2>15, <2>17, <2>18 DEF IndexHonest, Owner, Holds, Present
    <2>20. WeightsExact(source)'
      <3> SUFFICES ASSUME NEW a \in Arrays
                   PROVE  (CanRead(Owner(a), a) /\ Read(Owner(a), a) = source)'
        BY DEF WeightsExact
      <3>1. PICK f : f = index[a]
        OBVIOUS
      <3>2. CanRead(f, a) /\ Read(f, a) = source
        BY <2>18, <3>1
      <3>3. Owner(a)' = f
        BY <2>17, <3>1 DEF Owner
      <3>4. CanRead(f, a)' /\ Read(f, a)' = source'
        BY <2>3, <3>2 DEF CanRead, Read, Holds, Present, Position, SelectInSeq
      <3> QED
        BY <3>3, <3>4 DEF CanRead, Read, Holds, Position, SelectInSeq
    <2>21. Named' = Names(plan)
      BY <2>17, <2>18 DEF Named, Owner
    <2>22. Unclaimed' = {}
      <3>1. ASSUME NEW f \in Names(plan)
            PROVE  ToSet(shard[f].holds) \subseteq Arrays
        <4>1. PICK i \in 1..Len(plan) : f = ShardName(i, Len(plan))
          BY DEF Names
        <4>2. PICK x \in Seq(Arrays) : shard[f].holds = x
          BY <2>8, <4>1
        <4> QED
          BY <4>2 DEF ToSet
      <3>2. Unclaimed' = (UNION {ToSet(shard[f].holds) : f \in Names(plan)}) \ Arrays
        BY <2>3, <2>17, <2>18, <2>21 DEF Unclaimed
      <3> QED
        BY <3>1, <3>2
    <2>23. StructureComplete'
      <3>1. [f \in Named' |-> SizeOf(shard'[f])] = sizes
        BY <2>3, <2>21 DEF sizes
      <3>2. file'["manifest"] = sizes
        BY <2>3 DEF sizes
      <3> QED
        BY <2>12, <2>15, <2>17, <2>18, <2>21, <2>22, <3>1, <3>2 DEF StructureComplete, SizeOf
    <2> QED
      BY <2>19, <2>20, <2>23 DEF VerifyPasses
  <1>2. Inv /\ [Next]_vars => (pc = "manifest" /\ pc' = "done" => VerifyPasses(source)')
    BY <1>1
  <1> QED
    BY <1>2, ConvertInvariant, PTL DEF Spec, CompletedVerifies
=============================================================================
