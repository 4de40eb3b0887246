------------------------------- MODULE Convert -------------------------------
(* convert.py packs a source into an artifact directory: it plans the shards,   *)
(* fills each of them one array at a time, and writes the other files, the      *)
(* manifest last. model_file.py regenerates one of those. Either may be killed  *)
(* at any step, the power may fail, and either may be run again, with the same  *)
(* or with another source, over what an earlier run left in the directory.      *)
EXTENDS ArtifactDir

CONSTANTS
    Budgets,        \* the values of --max-shard-bytes
    MaxRuns,        \* bounds: how often either program is started,
    MaxPowerLosses, \*   how often the power fails,
    MaxDamage       \*   and how many arrays rot in the finished directory

VARIABLES
    pc,         \* the next step of the program; an Idle value between runs
    source,     \* what the sidecar and the checkpoint of this run hold
    corrupt,    \* tensors whose bytes in the sidecar do not hash to its manifest
    plan,       \* the shards of this run
    at,         \* the shard being written
    tmp,        \* its temporary file
    produced,   \* arrays built and not written yet: the cache of convert()
    converted,  \* the quantised tensors built so far
    copied,     \* the plain tensors read so far
    unsynced,   \* the shards and the other files whose data is not on the disk yet
    runs, powerLosses, damage

memory == <<source, corrupt, plan, at, produced, converted, copied>>
counts == <<runs, powerLosses, damage>>
vars == <<dir, pc, memory, tmp, unsynced, counts>>

Idle == {"rest", "done", "refused"}
InShard == {"open", "fill", "replace"}
ShardNames == UNION {Names(PlanShards(b)) : b \in Budgets}

Synced == [shards |-> {}, files |-> {}]

Init ==
    /\ shard = [f \in ShardNames |-> NoFile]
    /\ file = [k \in Supports |-> NoFile]
    /\ pc = "rest"
    /\ source \in Sources
    /\ corrupt = {}
    /\ plan = <<>>
    /\ at = 0
    /\ tmp = NoFile
    /\ produced = <<>>
    /\ converted = {}
    /\ copied = {}
    /\ unsynced = Synced
    /\ runs = 0 /\ powerLosses = 0 /\ damage = 0

\* What an earlier run wrote has reached the disk by the time the next one starts.
Start(s, budget, bad) ==
    /\ pc \in Idle
    /\ runs < MaxRuns
    /\ runs' = runs + 1
    /\ source' = s
    /\ corrupt' = bad
    /\ plan' = PlanShards(budget)
    /\ at' = 1
    /\ pc' = "open"
    /\ produced' = <<>> /\ converted' = {} /\ copied' = {}
    /\ unsynced' = Synced
    /\ UNCHANGED <<dir, tmp, powerLosses, damage>>

----------------------------------------------------------------------------
\* write_shard

Name == ShardName(at, Len(plan))

\* A temporary file left by a killed run is truncated.
Open ==
    /\ pc = "open"
    /\ pc' = "fill"
    /\ tmp' = [holds |-> plan[at], data |-> <<>>]
    /\ unsynced' = [unsynced EXCEPT !.shards = @ \union {Name}]
    /\ UNCHANGED <<dir, memory, counts>>

Filling == pc = "fill" /\ ~Whole(tmp)

NextArray == tmp.holds[Len(tmp.data) + 1]

BytesOf(t) == IF t \in corrupt THEN Damaged ELSE source

PutArray(bytes) == tmp' = [tmp EXCEPT !.data = Append(@, bytes)]

WithoutKey(a) == [x \in DOMAIN produced \ {a} |-> produced[x]]

\* Mutant: the array stays in the cache.
FillKept ==
    /\ Filling
    /\ NextArray \in DOMAIN produced
    /\ PutArray(produced[NextArray])
    /\ UNCHANGED <<dir, pc, memory, unsynced, counts>>

\* The array was built together with its sibling: it is taken out of the cache.
FillCached ==
    /\ Filling
    /\ NextArray \in DOMAIN produced
    /\ PutArray(produced[NextArray])
    /\ produced' = WithoutKey(NextArray)
    /\ UNCHANGED <<dir, pc, source, corrupt, plan, at, converted, copied, unsynced, counts>>

\* Both arrays of a quantised tensor are built at once, from blocks whose digest
\* is compared with the sidecar's manifest first; one of them stays in the cache.
FillBuilt ==
    LET t == NextArray[1]
    IN  /\ Filling
        /\ NextArray \notin DOMAIN produced
        /\ t \in Quantised
        /\ t \notin corrupt
        /\ PutArray(BytesOf(t))
        /\ produced' = [a \in (DOMAIN produced \union ToSet(ArraysOf(t))) \ {NextArray} |->
                            IF a \in ToSet(ArraysOf(t)) THEN BytesOf(t) ELSE produced[a]]
        /\ converted' = converted \union {t}
        /\ UNCHANGED <<dir, pc, source, corrupt, plan, at, copied, unsynced, counts>>

FillCopied ==
    LET t == NextArray[1]
    IN  /\ Filling
        /\ NextArray \notin DOMAIN produced
        /\ t \notin Quantised
        /\ PutArray(source)
        /\ copied' = copied \union {t}
        /\ UNCHANGED <<dir, pc, source, corrupt, plan, at, produced, converted, unsynced, counts>>

\* Mutant: no fsync before the file is renamed.
SyncForgotten ==
    /\ pc = "fill"
    /\ Whole(tmp)
    /\ pc' = "replace"
    /\ UNCHANGED <<dir, memory, tmp, unsynced, counts>>

\* fsync
Sync ==
    /\ pc = "fill"
    /\ Whole(tmp)
    /\ pc' = "replace"
    /\ unsynced' = [unsynced EXCEPT !.shards = @ \ {Name}]
    /\ UNCHANGED <<dir, memory, tmp, counts>>

Replace ==
    /\ pc = "replace"
    /\ pc' = "size"
    /\ shard' = [shard EXCEPT ![Name] = tmp]
    /\ tmp' = NoFile
    /\ UNCHANGED <<file, memory, unsynced, counts>>

\* The digest of a tensor is wrong, or the user interrupts: write_shard removes
\* the temporary file and the program ends.
Abort ==
    /\ pc \in InShard
    /\ pc' = "rest"
    /\ tmp' = NoFile
    /\ unsynced' = [unsynced EXCEPT !.shards = @ \ {Name}]
    /\ UNCHANGED <<dir, memory, counts>>

----------------------------------------------------------------------------
\* convert(), after each shard and after the last

CheckSize ==
    /\ pc = "size"
    /\ IF SizeOf(shard[Name]) # Weight(plan[at])
       THEN pc' = "refused" /\ at' = at
       ELSE IF at < Len(plan) THEN pc' = "open" /\ at' = at + 1
                              ELSE pc' = "check" /\ at' = at
    /\ UNCHANGED <<dir, source, corrupt, plan, tmp, produced, converted, copied, unsynced, counts>>

Check ==
    /\ pc = "check"
    /\ pc' = IF /\ produced = <<>>
                /\ converted = Quantised
                /\ copied = ToSet(Tensors) \ Quantised
             THEN "index" ELSE "refused"
    /\ UNCHANGED <<dir, memory, tmp, unsynced, counts>>

WeightMap ==
    [a \in Arrays |-> ShardName(CHOOSE i \in DOMAIN plan : Contains(plan[i], a), Len(plan))]

\* Each file is opened, which empties it, and then written, except for the two
\* that are replaced by a finished sibling: config and manifest.
Empty(k, from, to) ==
    /\ pc = from
    /\ pc' = to
    /\ file' = [file EXCEPT ![k] = Torn]
    /\ UNCHANGED <<shard, memory, tmp, unsynced, counts>>

Write(k, content, from, to) ==
    /\ pc = from
    /\ pc' = to
    /\ file' = [file EXCEPT ![k] = content]
    /\ unsynced' = [unsynced EXCEPT !.files = @ \union {k}]
    /\ UNCHANGED <<shard, memory, tmp, counts>>

OpenIndex == Empty("index", "index", "index_open")

\* Mutant: the size of the last shard for the size of them all.
TotalOfLast ==
    Write("index", [weight_map |-> WeightMap, total |-> Weight(plan[at])],
          "index_open", "config")

WriteIndex ==
    Write("index", [weight_map |-> WeightMap, total |-> Weight(PlanTensors)],
          "index_open", "config")

\* Mutant: the manifest is written before the companions and the model_file.
ManifestAtOnce == Write("config", source, "config", "manifest")

WriteConfig == Write("config", source, "config", "companions")

OpenCompanions == Empty("companions", "companions", "companions_open")

CopyCompanions == Write("companions", source, "companions_open", "model")

OpenModelFile == Empty("model_file", "model", "model_open")

WriteModelFile == Write("model_file", "emitted", "model_open", "manifest")

\* The comparison of the packed bytes with the canonical ones before it always holds:
\* a layout has 26 bytes of codes and two of scale for each group, and pads no tile.
WriteManifest ==
    Write("manifest", [f \in Names(plan) |-> SizeOf(shard[f])], "manifest", "done")

\* An index or a manifest is neither missing nor torn.
ASSUME WrittenAssumption ==
    \A absent \in {NoFile, Torn} :
        /\ absent \notin [weight_map : [Arrays -> ShardNames], total : Nat]
        /\ \A b \in Budgets : absent \notin [Names(PlanShards(b)) -> Nat]

----------------------------------------------------------------------------
\* model_file.regenerate(): the same file again, and its record in the manifest,
\* of which only the shard sizes are modelled.

Regenerate ==
    /\ pc \in Idle
    /\ runs < MaxRuns
    /\ Parses("config") /\ Parses("manifest")
    /\ runs' = runs + 1
    /\ pc' = "regenerate"
    /\ unsynced' = Synced
    /\ UNCHANGED <<dir, memory, tmp, powerLosses, damage>>

ReopenModelFile == Empty("model_file", "regenerate", "regenerate_open")

RewriteModelFile == Write("model_file", "emitted", "regenerate_open", "record")

RewriteManifest == Write("manifest", file["manifest"], "record", "rest")

----------------------------------------------------------------------------
\* What may happen to a run, and to the directory

Kill ==
    /\ pc \notin Idle
    /\ pc' = "rest"
    /\ UNCHANGED <<dir, memory, tmp, unsynced, counts>>

\* A file in place whose data never reached the disk is cut off at any point.
PowerLoss ==
    /\ powerLosses < MaxPowerLosses
    /\ powerLosses' = powerLosses + 1
    /\ pc' = "rest"
    /\ \E lost \in SUBSET unsynced.files :
           file' = [k \in Supports |-> IF k \in lost THEN Torn ELSE file[k]]
    /\ \E keep \in 0..Len(PlanTensors) :
           shard' = [f \in ShardNames |->
                        IF f \in unsynced.shards /\ f \in Present /\ (tmp = NoFile \/ f # Name)
                        THEN [shard[f] EXCEPT !.data = SubSeq(@, 1, Min({keep, Len(@)}))]
                        ELSE shard[f]]
    /\ tmp' = NoFile
    /\ unsynced' = Synced
    /\ UNCHANGED <<memory, runs, damage>>

Damage(f, i) ==
    /\ pc \in Idle
    /\ damage < MaxDamage
    /\ damage' = damage + 1
    /\ shard' = [shard EXCEPT ![f].data[i] = Damaged]
    /\ UNCHANGED <<file, pc, memory, tmp, unsynced, runs, powerLosses>>

----------------------------------------------------------------------------

Next ==
    \/ \E s \in Sources, b \in Budgets, bad \in SUBSET Quantised : Start(s, b, bad)
    \/ Open \/ FillCached \/ FillBuilt \/ FillCopied \/ Sync \/ Replace \/ Abort
    \/ CheckSize \/ Check
    \/ OpenIndex \/ WriteIndex \/ WriteConfig \/ OpenCompanions \/ CopyCompanions
    \/ OpenModelFile \/ WriteModelFile \/ WriteManifest
    \/ Regenerate \/ ReopenModelFile \/ RewriteModelFile \/ RewriteManifest
    \/ Kill \/ PowerLoss
    \/ \E f \in Present : \E i \in DOMAIN shard[f].data : Damage(f, i)

Spec == Init /\ [][Next]_vars

----------------------------------------------------------------------------

\* A shard is complete or absent (write_shard), whatever was killed and wherever
\* the power failed; and unless something rots in place it holds no array whose
\* blocks did not have the digest the sidecar records.
ShardsWhole ==
    \A f \in Present : /\ Whole(shard[f])
                       /\ damage = 0 => Damaged \notin ToSet(shard[f].data)

\* "Only one tensor is resident at a time" (shard_writer.py): the cache never
\* holds arrays of two tensors, also when the two arrays of a tensor are in
\* different shards.
OneTensorResident == Cardinality({a[1] : a \in DOMAIN produced}) <= 1

\* The checks of convert() after the shards, of sizes, of arrays never written and
\* of tensors not converted, are assertions: no run is refused by them.
ChecksPass == pc # "refused"

\* A run that ends with its manifest leaves an artifact that verify.py passes for
\* the source of that run, whatever the directory held before.
CompletedVerifies ==
    [][pc = "manifest" /\ pc' = "done" => VerifyPasses(source)']_vars

\* What verify.py passes for a source is what the loader gets, array for array,
\* although one reads through the index and the other takes every shard it finds,
\* and although a run over the directory may have ended anywhere.
VerifiedIsLoaded ==
    pc \in Idle => \A s \in Sources : VerifyPasses(s) => LoadsExactly(s)

\* The manifest comes last: in a directory that was empty before the run, and with
\* no loss of power, it is there only if everything else is there too.
ManifestComesLast ==
    runs = 1 /\ powerLosses = 0 /\ Parses("manifest") =>
        /\ ModelBuilds
        /\ file["companions"] = source /\ file["config"] = source
        /\ damage = 0 => LoadsExactly(source)

----------------------------------------------------------------------------
\* What is said of the artifact and does not hold.

\* "It runs over every byte of every tensor at load time" (packing.py, of the scan
\* for codes beyond the lookup tables): the loader takes no damaged codes.
CodesScannedAtLoad ==
    pc \in Idle /\ LoaderAccepts /\ ModelBuilds =>
        \A a \in Arrays : a[2] = "codes" => Damaged \notin Loadable(a)

\* "A checkpoint can hold perfect tensors and still be unloadable ... Both are
\* failures, so both are checked here" (verify_structure): what verify.py passes
\* has a model_file from which the modules can be built.
VerifiedIsLoadable ==
    pc \in Idle => \A s \in Sources : VerifyPasses(s) => ModelBuilds
=============================================================================
