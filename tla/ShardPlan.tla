------------------------------ MODULE ShardPlan ------------------------------
(* Which arrays an MLX artifact holds, in which order, and in which safetensors *)
(* file each of them goes: everything the writer knows before it has a byte.    *)
EXTENDS Naturals, SequencesExt

CONSTANTS
    Tensors,    \* the model's tensors, a sequence in the order of the sidecar
    Quantised,  \* those that are stored as codes and scales
    Bytes       \* the size of each array

\* A tensor is stored as one array or as two; an array is named by both.
ArraysOf(t) == IF t \in Quantised THEN << <<t, "codes">>, <<t, "scales">> >>
                                  ELSE << <<t, "plain">> >>

\* Mutant: the codes of all tensors first, then the scales.
CodesThenScales ==
    FlattenSeq([i \in 1..Len(Tensors) |-> <<Head(ArraysOf(Tensors[i]))>>])
    \o FlattenSeq([i \in 1..Len(Tensors) |-> Tail(ArraysOf(Tensors[i]))])

PlanTensors == FlattenSeq([i \in 1..Len(Tensors) |-> ArraysOf(Tensors[i])])

Arrays == ToSet(PlanTensors)

Weight(arrays) == SumFunction([i \in 1..Len(arrays) |-> Bytes[arrays[i]]])

\* The current shard takes one more array, unless that breaks the budget of a
\* shard that holds something already.
Place(shards, a, budget) ==
    IF Last(shards) # <<>> /\ Weight(Last(shards)) + Bytes[a] > budget
    THEN Append(shards, <<a>>)
    ELSE [shards EXCEPT ![Len(shards)] = Append(@, a)]

PlanShards(budget) ==
    FoldLeft(LAMBDA shards, a : Place(shards, a, budget), << <<>> >>, PlanTensors)

\* model-i-of-n.safetensors; the name of a lone shard has no other form either.
ShardName(i, n) == <<i, n>>

Names(shards) == {ShardName(i, Len(shards)) : i \in 1..Len(shards)}

ASSUME PlanAssumption ==
    /\ Tensors \in Seq(ToSet(Tensors)) /\ IsInjective(Tensors)
    /\ Quantised \subseteq ToSet(Tensors)
    /\ Tensors # <<>>
    /\ \A a \in Arrays : Bytes[a] \in Nat
=============================================================================
