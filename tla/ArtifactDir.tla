---------------------------- MODULE ArtifactDir ----------------------------
(* The artifact directory, and its two readers: verify.py, which decides whether *)
(* the directory holds the model it claims to hold, and the loader of mlx_lm,    *)
(* which puts whatever it finds there on the GPU.                                *)
(*                                                                               *)
(* The bytes of an array are named by the source they were packed from, or are   *)
(* Damaged. The fixed bytes of a safetensors header are not counted.             *)
EXTENDS ShardPlan, FiniteSets

CONSTANTS
    Sources,    \* the models an artifact is packed from
    NoFile, Torn, Damaged

VARIABLES
    shard,      \* safetensors file -> NoFile, or its header and data
    file        \* the other files, by what they are for

dir == <<shard, file>>

Supports == {"index", "config", "companions", "model_file", "manifest"}

\* A safetensors file: the arrays its header lists, and the data of a prefix of
\* them (of all, unless the file is cut off).
Shards == [holds : Seq(Arrays), data : Seq(Sources \union {Damaged})]

\* Nothing else looks like a missing or a torn file, or like a damaged array.
ASSUME DirAssumption ==
    /\ Damaged \notin Sources
    /\ NoFile \notin Shards
    /\ {NoFile, Torn} \intersect (Sources \union {"emitted"}) = {}

Whole(s) == Len(s.data) = Len(s.holds)

SizeOf(s) == Weight(SubSeq(s.holds, 1, Len(s.data)))

Present == {f \in DOMAIN shard : shard[f] # NoFile}

Holds(f, a) == f \in Present /\ Contains(shard[f].holds, a)

\* What reading an array of a file returns; an array past the end of the file
\* is an error.
Position(f, a) == SelectInSeq(shard[f].holds, LAMBDA x : x = a)
CanRead(f, a) == Holds(f, a) /\ Position(f, a) <= Len(shard[f].data)
Read(f, a) == shard[f].data[Position(f, a)]

Parses(k) == file[k] \notin {NoFile, Torn}

----------------------------------------------------------------------------
\* verify.py. The reader finds an array through the index and nothing else.

Owner(a) == file["index"].weight_map[a]

Named == {Owner(a) : a \in DOMAIN file["index"].weight_map}

IndexHonest ==
    /\ Parses("index")
    /\ \A a \in DOMAIN file["index"].weight_map : Holds(Owner(a), a)

Unclaimed ==
    (UNION {ToSet(shard[f].holds) : f \in Named}) \ DOMAIN file["index"].weight_map

StructureComplete ==
    LET sizes == [f \in Named |-> SizeOf(shard[f])]
    IN  /\ DOMAIN file["index"].weight_map = Arrays
        /\ Unclaimed = {}
        /\ Parses("config")
        /\ file["model_file"] # NoFile
        /\ Parses("manifest")
        /\ file["manifest"] = sizes
        /\ file["index"].total = SumFunctionOnSet(sizes, Named)

\* Mutant: the sizes are compared, the elements are not.
SizesOnly(source) == \A a \in Arrays : CanRead(Owner(a), a)

\* Every array, element by element, against the sidecar, the GGUF and the
\* official checkpoint of the source it is verified against.
WeightsExact(source) ==
    \A a \in Arrays : CanRead(Owner(a), a) /\ Read(Owner(a), a) = source

VerifyPasses(source) == IndexHonest /\ StructureComplete /\ WeightsExact(source)

----------------------------------------------------------------------------
\* The loader: every model*.safetensors of the directory, in an order nobody
\* states, into one dictionary; where two files hold an array, the later wins.

Loadable(a) == {Read(f, a) : f \in {g \in Present : Holds(g, a)}}

LoaderAccepts ==
    /\ Parses("config")
    /\ \A f \in Present : Whole(shard[f])
    /\ UNION {ToSet(shard[f].holds) : f \in Present} = Arrays

\* The imported model_file builds the modules the arrays are put into.
ModelBuilds == file["model_file"] \notin {NoFile, Torn}

LoadsExactly(source) == LoaderAccepts /\ \A a \in Arrays : Loadable(a) = {source}
=============================================================================
