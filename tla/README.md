# Ternel in TLA+

Ternel packs the ternary weights of a 27B language model into 28-byte blocks
(`TQ1_G128`: 128 weights, a raw FP16 scale and 26 base-3 bytes), proves file against
file that nothing was lost, and executes the packed bytes directly, on CUDA first and
on Metal through MLX later. This directory holds models of the parts of that system in
which order, concurrency or a crash decide whether the result is right, the TLC
configurations that check them, and machine-checked proofs about them. Paths such as
`convert.py` are under `src/ternel_mlx/` or `src/bonsai_tq1/` of the repository; `.cu`
files are under `cuda/`.

## The system and its parts

    GGUF --inspect/pack--> sidecar --reorder--> LUT23 sidecar --> CUDA kernels (V0, V1,
     |                        |                                   stream-K), benchmarks
     |                        +--convert--> MLX artifact --verify--> pass or fail
     +--runner.py drives the            (shards, index, config,       |
        CUDA stages, gate by gate        model_file, manifest)        +--mlx_lm loads it
                                                                         into PackedLinear,
                                                                         Metal kernels

| part | state it keeps | operations | what is hard about it | what makes it correct |
| --- | --- | --- | --- | --- |
| stream-K kernel (`tq1_lut23_streamk.cu`) | two shared tables, a register per thread, a global workspace, a counter per tile that outlives launches | launch; build, consume, store, fence, count, reduce, write, reset | threads between barriers, stores in flight between blocks, blocks that wait for a place, counters reused by the next launch | no race, one reducer that sees everything, the same bits whatever the schedule, clean counters |
| artifact writer (`convert.py`, `shard_writer.py`, `model_file.py`) | a directory of shards and six other files, a cache of built arrays | plan, write a shard, write the rest, regenerate one file | kills, loss of power, a second run over the first's leavings, two arrays built at once and written apart | shards whole or absent, at most one tensor in memory, a manifest that means completion |
| verifier and loader (`verify.py`, `mlx_lm`) | none of their own: two readers of that directory | read through the index; glob every shard | they do not look at the same files | what verifies is what is loaded |
| gated runner (`runner.py`, `cuda_reporting.py`) | a result file per stage | seven stages, each cached, `--force` | a stage redone under the cached results of later stages, kills, other processes on the GPU | nothing passes a gate it did not pass, a verdict rests on valid numbers |
| Metal kernels and dispatch (`kernels.py`, `modules.py`) | threadgroup tables, partial sums per K chunk | LUT23 product, staged GEMM, row gather, choice of configuration | two barriers per group, a split that must divide, a row block that must not straddle tiles | the sum is the whole row in a fixed order for every choice the dispatch makes |
| codec, reorder, names (`format.py`, `lut23_reorder.py`, `packing.py`, `layout.py`, `naming.py`) | none | encode, decode, permute, compare | boundaries of bytes, direction of permutations | lossless, inverse to each other |
| GPU gate and benchmarks (`environment.py`, `bench_*.py`) | usage counters, pinned layers, samples of a probe | sample, time, void, retry; pin, unpin | processes that come and go between samples, pins left behind, a thread beside a subprocess | what is reported was timed alone and on the configuration it names |
| sidecar tools (`pack_model.py`, `verify_model.py`, `lut23_reorder.py`, `v2_traversal.py`, `convert_gguf.py`) | four files of weights and the JSON records beside them | audit, pack, verify, reorder, convert, build a traversal | a record outlives the file it is about; kills between header, rename and record; hashes skipped | records that agree describe one and the same model |
| crosscheck (`crosscheck.py`) | none | compare a GGUF with a checkpoint, chunk by chunk | a permutation that chunks must not cut; what is not finite | a pass means equal |
| gates of the MLX port (`kernel_gate.py`, `graph_gate.py`, `baseline_fidelity.py`) | none | compare one computation with another | floating-point agreement | out of scope of these models |

The parts meet in files (the sidecar, the artifact directory, the results of the stages)
and, on the GPU, in buffers that several launches share. `PROJECT.json` lists every part
with its status, and every hazard with its line and the properties that guard it.

## Plan

Built, in this order:

1. `Lut23Shape`, `Gemv`, `StreamK`, `StreamKInv`, `StreamK_proofs`: the only code with
   real concurrency between threads, against the abstract matrix-vector product.
2. `ShardPlan`, `ArtifactDir`, `Convert`: the shipped artifact, its writer, its verifier
   and its loader.
3. `Runner`: the pipeline of gates with its cached results.
4. `MetalConfig`, `Matmul`, `MetalMatmul`: the Metal kernels, thread by thread, against
   the abstract product.
5. `Dispatch`, `Dispatch_proofs`: the choice of a kernel and what the kernels accept.

6. `Lists`, `Candidates`, `GpuGate`, `Harness`, `SoloRounds`, `InSitu`, `OpSweep`, `Benchmarks`: the
   benchmark programs beside processes that come and go.
7. `Tq1Codec`, `Lut23Layout`, `Sidecars`: the files of weights, the tools that make and
   check them, and the evidence they leave.
8. `HeadOrder`, `Crosscheck`: two checkpoints of the same weights, compared.

9. `Runner_proofs`, `Numbers`, `MetalMatmul_proofs`, `Dispatch_proofs`, `Convert_proofs`,
   `Benchmarks_proofs`, `Sidecars_proofs`: the proofs, in the order in which the properties matter.

Every property of the passing runs but the two of liveness, `Answered` and `Ends`, is
proved; see "What is only model-checked".

| run | module | bounds | about |
| --- | --- | --- | --- |
| `streamk` | `MCStreamK` | 1 tile, 2 threads, 3 groups, chunks of 1 or 2, 2 launches, 2 resident blocks | races, reduction, refinement |
| `streamk_tiles` | `MCStreamK` | 2 tiles with a padded row, chunks of 2, 1 resident block, fairness | inductive invariant, every launch answered |
| `convert` | `MCConvert` | 3 tensors, 2 shards, 2 sources, 3 runs, 1 loss of power, 1 damaged array | the directory through crashes and reruns |
| `stale_shards` | `MCConvert` | the same with 2 budgets, 2 runs | finding |
| `load_scan` | `MCConvert` | 1 run, 1 damaged array | finding |
| `torn_model_file` | `MCConvert` | 2 runs | finding |
| `runner` | `Runner` | 3 calls of any stage, with and without `--force`, 1 visitor | gates and forced runs |
| `shared_gpu` | `Runner` | 2 calls of `all`, 1 visitor | finding |
| `metal` | `MCMetal` | 3 tensors, 2 batches, 2 LUT23 and 8 GEMM configurations, 2 threads | barriers, stores, refinement, liveness of every kernel form |
| `dispatch` | `MCDispatch` | 12 tensors, batches 1 to 130, the real thresholds | the choice is accepted, partial sums bounded |
| `bench` | `MCBench` | 7 programs, 2 visitors, 3 shapes, batches 8 and 16, 2 rounds of 2 attempts, fairness | what is reported was timed alone, paired, and on what it names |
| `sidecars` | `MCSidecars` | 4 tensors in 2 layers, 1 damaged byte; 23 checkpoints | evidence about the files of weights; the crosscheck |

## The modules
### The stream-K kernel (`StreamK`, `Gemv`, `Lut23Shape`)

`cuda/tq1_lut23_streamk.cu` multiplies a packed matrix by a vector. A launch is a
grid of blocks, one per (tile of rows, chunk of groups). The threads of a block fill
together a lookup table for a group of 128 weights, add the group of their own row,
store the partial sum of their chunk in a global workspace, and the block that counts
in last on the counter of its tile sums the workspace in chunk order and stores the
rows. `StreamK` has one action per step of a thread between two points where another
thread can notice a difference:

| code | action |
| --- | --- |
| `launch_specialized`, host side | `Launch(k)` |
| device makes a queued block resident (external) | `Schedule(b)` |
| `compute_lut23`, a thread's share of a table | `Build` |
| `consume_code` and the table reads of a group | `Consume`, one per share |
| `partial = fmaf(...)`, next group | `Accumulate` |
| `workspace[...] = partial` / store becomes visible / `__threadfence` | `StorePartial` / `Flush` / `Fence` |
| `atomicAdd` on the tile counter by thread 0 | `Count` |
| `if (final_chunk)` | `Test` |
| `result += workspace[...]` | `Reduce`, one per chunk |
| `output[row] = result` | `WriteOutput` |
| `atomicExch(&tile_counters[tile], 0)` | `Reset` |
| `__syncthreads` | `Barrier`, `AfterBarrier` |

Numbers are abstracted to what the result depends on: a term is the pair of the launch
whose activation it used and its group, a partial sum is the sequence of terms in the
order in which they were added, a row is the sequence of partial sums. Equality of two
such values is bit equality of the floats whatever the rounding, so "the answer does not
depend on the schedule" is an ordinary equation. A value read from a table while it
held another group, or never written, is `Garbage`, and it poisons every sum it enters.
A read of the shared `final_chunk` before it is written is a choice between both values.
The workspace is indexed by (tile, chunk): launches with different chunk counts place a
pair at different addresses, but every launch writes each cell of its own before it reads
it (`ReducerSeesAll`), so which stale value a cell held does not matter.

`Gemv` is what the caller is promised: launches on a stream are answered one after the
other, and every row is stored exactly once per launch, with the value that the inputs
and the chunk size determine.

*Bounds.* `MCStreamK.cfg`: one tile of two threads, three groups cut into chunks of one
(three blocks) or two (two blocks, the second short), two launches whose chunk size may
differ, two blocks resident. Two threads are enough for every race between two threads
of a block; three blocks for a first, a middle and a last to count in; a second launch
for everything that one launch may leave behind. `MCStreamKTiles.cfg`: two tiles, the
second with a thread that has no row, one block resident, under fairness.

*Fairness.* Weak fairness of each thread, of each barrier, of the arrival of each store
and of making a queued block resident: resident blocks run to completion, and CUDA gives
nothing more (in particular no order among blocks, and no progress of a block that is not
resident). Nothing obliges the host to launch.
### The artifact (`ShardPlan`, `ArtifactDir`, `Convert`)

`ShardPlan` is what the writer knows before it has a byte: the arrays of the model in
order, codes and scales of a tensor side by side, and their greedy distribution over
shards of at most `--max-shard-bytes`. `ArtifactDir` is the directory and what its two
readers make of it: `VerifyPasses(source)` is `verify.py`, which finds every array
through the index, and `Loadable`, `LoaderAccepts` and `LoadsExactly(source)` are the
loader of `mlx_lm`, which takes every `model*.safetensors` it finds and lets the later
file win. `Convert` writes the directory:

| code | action |
| --- | --- |
| `convert()` up to the first shard | `Start(s, budget, bad)` |
| `write_shard`: open the temporary, one array at a time, `fsync_file`, `os.replace`, its `except` | `Open`; `FillCached`, `FillBuilt`, `FillCopied`; `Sync`; `Replace`; `Abort` |
| the size assertion after a shard, the assertions after the last | `CheckSize`, `Check` |
| `write_index`, `artifact_config`, `copy_companions`, `write_model_file`, the manifest | `OpenIndex`, `WriteIndex`, `WriteConfig`, `OpenCompanions`, `CopyCompanions`, `OpenModelFile`, `WriteModelFile`, `WriteManifest` |
| `model_file.regenerate` | `Regenerate`, `ReopenModelFile`, `RewriteModelFile`, `RewriteManifest` |
| SIGKILL; the power; bytes that change on the disk | `Kill`, `PowerLoss`, `Damage` |

The comparison of bytes before the manifest (`convert.py:427-431`) is not modelled: by the
layout it compares 28 bytes per group with 28 bytes per group, and always holds.

A file written in place is two actions, the truncation and the write, so that a kill may
come between them; a file written beside its name and renamed is one. A write is not on
the disk until it is synced; a loss of power cuts off any set of unsynced files anywhere.
`write_json_atomic` renames without a sync, so config and manifest are among them. What
is written by one run is taken to be on the disk when the next begins, and renames are
taken to reach the disk in order.

The bytes of an array are abstracted to the source they were packed from: packing is a
function of the source, and whether an array came from the right one is all that
verification asks. The three legs of `verify.py` (sidecar, GGUF, official checkpoint) are
one comparison with that source.

What the runs show. `convert`: whatever is killed or cut off, and over whatever an
earlier run left, a shard is whole or absent (`ShardsWhole`); the cache never holds
arrays of two tensors although a shard may end between two arrays of one
(`OneTensorResident`); the assertions never fire (`ChecksPass`); a run that reaches its
manifest verifies (`CompletedVerifies`), also over leavings; in a fresh directory the
manifest implies everything else (`ManifestComesLast`); and with one shard budget what
verifies is what is loaded (`VerifiedIsLoaded`).

- `stale_shards` shows that the budget matters. Convert in one shard, then convert in two
  (or the reverse): the shards of the first run stay, `verify.py` follows the index and
  passes, and the loader takes both generations, in whichever order the glob gives them.
- `load_scan`: `packing.py` says that the scan for illegal code bytes "runs over every
  byte of every tensor at load time"; it runs when the artifact is written and when it is
  verified, and the loader takes what it finds.
- `torn_model_file`: `regenerate` and a second `convert` truncate the model file in place.
  Killed there, they leave a file that `verify.py` counts as present (it asks whether the
  file exists), so a directory can verify and not load.

`Convert_proofs` proves all six properties of the run for any model, sources, budgets and
number of runs; see "What is proved". Named assumptions say what the names of the model
stand for: a tensor occurs once and has at least one byte per array (`PlanAssumption`); a
damaged array is of no source, a missing or cut off file is neither a shard nor a source
(`DirAssumption`); an index or a manifest is not a cut off file (`WrittenAssumption`).

*Bounds.* Three tensors, two of them quantised with a plain one between; a budget of
eight lets the shard end between the codes and the scales of the last tensor, which is
the one case in which the cache lives across a shard. Two sources so that a mixture can
be told from either; three runs, so that a complete run can follow two broken ones; one
loss of power and one damaged array, since each property is about the first. No fairness:
nothing here says that a conversion finishes.
### The gated experiment (`Runner`)

`runner.py` leads through download, audit, pack, verify, measure and report. Every stage
leaves a file that later calls take for the stage, unless `--force` names it. A call may
be of any stage, which then runs its prerequisites too; `--force` reaches the stage that
was named and, for `all`, every stage. `Runner` has one action for each step of a call,
from the code of `_audit`, `_pack`, `_verify`, `_cuda` and `_reports`: `Download`,
`Audit`, `PackSidecar` and `RecordPacking` or `KeepSidecar`, `Verify`, `CaptureBefore`,
`Measure(k)` or `Reuse(k)` for the bridge, V0 and V1, `CaptureAfter`, `Reports`.
The order of the steps is `Place`, and `Advance` goes to the first of the call's steps
that lies ahead. `InvalidExperiment` is `Invalidate`, an exception that nobody catches is `Crash`. `Kill`
ends a call anywhere; `KillWriting` ends it while a benchmark, which writes its result in
place, has written half of it. `Arrive` and `Leave` are other processes on the GPU.

Of a result the model keeps the run that made it and one bit: whether the gate passed,
the packing is lossless, the numbers are right, the GPU was idle. How fast a kernel is
decides the text of the verdict but opens no gate here, and is left out. When the
numerics of a benchmark fail it writes `inf`, which `json.loads` refuses: hence
`Parses(k)` of a V0 or V1 whose bit is false.

What the runs show. `runner`: the verdict of a forced run of all stages rests on nothing
that an earlier run left (`ForcedVerdictIsFresh`), and such a run recovers from every
leaving of a killed one (`ForcedRunRecovers`); no sequence of calls measures anything
unless audit and verification passed and the GPU was found idle in this call
(`MeasuredBehindGates`), and none turns wrong numbers into a passing verdict
(`WrongNumbersNeverPass`).

- `shared_gpu`: the second capture finds another process on the GPU and the run is
  declared invalid, but its timings stay. The next call takes them from the disk, finds
  the GPU idle before and after, and passes on timings that the first call had voided.

*Bounds.* Three calls: one to leave something behind, one to redo part of it, one to
judge. One visitor, at any time and for as long as it likes. No fairness. *Not covered:*
`ForcedVerdictIsFresh` is about forced runs. A run without force may take a sidecar and a
packing record that a kill between the two left apart; `_pack` does not compare them.

`Runner_proofs` proves all four properties of the run `runner`, for any number of calls
and visitors.


### The Metal kernels (`MetalConfig`, `Matmul`, `MetalMatmul`)

`Matmul` says what `packed_matmul` promises: every call is answered with the product,
and an element of it is the whole row against the very sample, summed in an order that
follows from the configuration alone. Float addition does not associate, so an element
is the sequence of its partial sums, and a partial sum the sequence of the K steps that
went into it. The order is part of the promise because greedy decoding must be
repeatable bit for bit.

`MetalMatmul` runs the kernels of `kernels.py`. `Call` is a dispatch that passed the
checks of `tq1_matmul` or `tq1_gemm` (`Accepts` in `MetalConfig`) and lays out the grid.
A threadgroup begins (`Begin`) and its threads go on in any order through the pieces of
the kernel, each one an action: copy the trit table (`FillTable`), fill the allocation
with the step's tables or tiles (`Fill`), add the step up (`Read`), put a strip of
accumulators over the tiles (`Store`), store elements (`Write`). `Barrier` lets the
threads on when all have arrived at the same one. `Answer` sums the parts of a split.
The same actions make up the LUT23 kernel and the six forms of the GEMM: `_gemm_source`
puts a kernel together from pieces, and `Loop`, `Epilogue` and `Staged` say which pieces
a form has.

What is abstract: the contents of the allocation are the number of the step or strip
that each thread last put there. Reading anything else than what the step needs yields
`Garbage`, which no exact element has. A simdgroup of the GEMM is one thread, since it
executes the matrix instructions together. Threadgroups run one after the other, in any
order: they share only the output, and `OneWriter` shows that no address of it is
written twice.

What the run `metal` shows, for all forms: a reader of the allocation finds there what
every thread put there for this step (`StageRaceFree`); no thread skips a barrier others
wait at, though threads without rows leave the row loop early (`BarrierUniform`); stores
stay in the output and meet no other store, with blocks that overhang the rows or the
batch too (`OneWriter`); the answer is the exact product (`ImplementsMatmul`, which
needs all of the host's checks: without the one on row blocks a block that straddles two
tiles reads the codes of another group); every call is answered (`Answered`).

*Bounds.* Tiles of 2 rows with tensors of 1, 3 (one odd tile) and 4 rows (two tiles), 2
groups, 2 or 3 samples against blocks of 2, splits of 1 and 2, 1 or 2 K steps per group,
2 simdgroups side by side and one above the other, 1 or 2 strips: each block divides and
does not divide what it covers. The edge of the matrix units and the width of a
simdgroup are 1; they only scale the blocks. `MetalMatmul_proofs` proves everything but
`Answered` for blocks, tensors and batches of any size. *Fairness.* The GPU completes a dispatch,
as every caller of `mx.eval` relies on.

### The choice of a kernel (`DispatchRule`, `Candidates`, `Dispatch`)

`Select`, in `DispatchRule`, is `select_gemm` and `select_lut23` with their ladders and thresholds: the GEMM
where its narrowest legal tiling fills the cores, else LUT23 with the largest split of K
that divides the groups and keeps the grid under its ceiling. A behaviour is a layer
that is called with one more activation row each time. `dispatch` runs it on the
model's nine shapes and on three it does not have (rows that no block divides, a prime
number of groups, one group), to batch 130, past every threshold.

`DispatchAccepted` relates the choice to the checks of the kernels, which are written
elsewhere: no product is ever refused. `PartialSumsBounded` is the comment above
`SPLIT_K_THREADGROUPS` made exact: the partial sums of a split never take more than the
ceiling's worth of tiles, at any batch, so they need no bound of their own. Both are
proved for every layout, batch and threshold. A ladder is a sequence, as in the code, whose
first legal rung is the widest; what a comprehension keeps of a list is `Sift`, in `Lists`
(`SelectSeq` as a function that the provers can expand).

`Candidates` is what the benchmarks sweep: thirteen tilings filtered by shape and batch, the
tilings of a decision, the members of an occupancy bucket, the splits of K. The sweeps are
lists of their own, kept beside the rule by hand. `ShippedIsMeasured` says that for every
shape and batch they hold what the rule ships, exactly once and under a name of its own,
and nothing a kernel refuses: otherwise a difference would have no reference, or two
candidates would be recorded as one. That this is so depends on the thresholds.
`CandidatesAssumption` says of them what is needed, and `Dispatch_proofs` proves the
property from that: the GEMM starts at a batch of 8 to 16, the large ladder at 16 or more
(so that a rung that ships is within `relevant`'s step of the batch, and `bucket_block`
adds only rungs of 8, which no ladder has), and the grid of a split that ships is within
what `bench_split_k` sweeps. The thresholds of `modules.py` are 16, 32, and 800 against
2560; a change that leaves this range is one that has to look at the sweeps again.

### The benchmarks (`GpuGate`, `Harness`, `SoloRounds`, `InSitu`, `OpSweep`, `Benchmarks`)

`GpuGate` is the gate of `environment.py`: the usage counters the driver keeps for each
client are sampled before and after a block (`OpenWindow`, `CloseWindow`), and the block
is void if processes other than the benchmark took more than a share of the time. Other
processes arrive, work and leave at any moment (`Arrive`, `Work`, `Leave`, and within a
`Tick`). The child that runs a model is a client too: the parent samples after it has
gone, so it is in neither sample. `Harness` is what the programs share: a step, readings,
an outcome, the order of the arms of a trial.

| program | module | actions |
| --- | --- | --- |
| `bench_model.py isolated` | `SoloRounds` | `StartArm`, `SoloTrial`, `SoloExits`, `KeepArm`; `VoidRound`, `GiveUp`; `Poll`, `Sleep`, `PollEnds` (`await_quiet_gpu`); `Collect`, `ReportModels` |
| `bench_model.py paired` | `SoloRounds` | the probes as above; `StartBlock`, `PairedTrial`, `EndBlock`, `ReportModels` |
| `bench_in_situ.py`, its three modes | `InSitu` | `LoadModel`, `Warm`, `Compile`, `TakeReference`, `TakeVariant`, `CountDiffers`, `Summarise` |
| `bench_ops.py`, `bench_split_k.py` | `OpSweep` | `StartSweep`; `CompileVariant`, `EndJit` (`measure_jit_cost`); `StartCase`, `CheckVariant`, `WarmArms`, `PlanInner`, `TimePair`, `TimeRound`, `EndCase`; `CallGather` (`measure_get_rows`); `EndSweep` |

`Benchmarks` runs one of the programs beside the other processes.

In `OpSweep` `libraries` counts the samples that each compiled library has run. A library
is what `tq1_matmul` and `tq1_gemm` hand MLX as a template (`Library`): the kernel with its
configuration, the groups of a row, the tile and, for the GEMM, whether its blocks divide
the rows and the batch. So the cases of a sweep may share libraries, and one variant may
have several. `Ran` is what a call, a warm-up or a sample adds. MLX's own kernels, those of
the baseline and of the links of a chain, are left out, and so are the errors that only
a broken clock, a reference of zeros or a wrong number of bytes raise. `plan_inner` warms
and estimates arm by arm; `WarmArms` warms them all and `PlanInner` then estimates.

What the run `bench` shows. A block is voided only by work that others did within it
(`VoidsDeserved`), and is void if the processes that were there throughout took too much
together (`ResidentsVoid`). Results of an isolated run stay paired by round and attempt,
whichever arm was hit (`RoundsPaired`). A difference that `bench_in_situ` files was made
by the moved layers alone, against a reference that runs what ships, and by as many
layers as the census says (`PairsComparable`). No candidate has the better place in a
trial (`PlacesSpread`). Warm, then measured (`WarmThenMeasured`): what the block of compile
times takes as cold is compiled by that very call, and no other sample, nor an estimate
that a count of calls is chosen from, pays for a library or for its first runs, whichever
libraries the cases before have compiled. Every program ends, also when a visitor never leaves (`Ends`).

Where the code falls short of what it says, and the properties are stated around it:

- `ResidentsVoid` speaks of processes that are in both samples. One that comes after the
  first or goes before the second is not counted (`environment.py`, the loop over the
  intersection), whatever it takes: a block it slowed is kept.
- `bench_split_k.py` refuses a variant whose error is `> tolerance`. A result that is not a
  number compares as false and is timed, though the comment above the check (line 204) says
  that "a kernel made fast by being wrong does not get to post a number"; `bench_ops.py` asks
  whether the error is within. `Refused` has both.
- `bench_ops.py:30-31` says that "every case is correctness-checked against the numpy LUT23
  reference before it is timed, so a kernel that has been made fast by being wrong cannot
  post a number". That holds of its matmul cases (lines 508-521) only. `measure_get_rows`
  calls the gather, times it and reports its speedup, and compares it with nothing
  (`CallGather` has no comparison), and `measure_jit_cost` reports times of kernels before
  any of them was compared. No property claims what the sentence says.
- `measure_jit_cost` says that a ragged tiling "still compiles the same library", and that in
  another dtype it would leave every library that the sweep uses "uncounted and cold".
  The groups, the tile and the two `FIT` flags are template parameters as well
  (`kernels.py:1256-1257`, `1341-1350`): the probe of 512 by 256 at batch 512 compiles
  libraries that no case uses, and never a ragged one, whose cold start
  `kernels.py:1320-1321` says the sweep reports. Those that the cases use
  are compiled when a case checks them, off the clock. That is why the warm-up that
  `WarmThenMeasured` asks for has to be the case's own.

`Benchmarks_proofs` proves all of them but `Ends` for any bounds. It assumes only what the
census, the variants and the arguments are: of the sweeps that the variants differ, that one
of them runs on any tensor and that there is a warm-up (`SweepAssumption`; both
programs have one), and of the tilings in place (`SituAssumption`) shapes with labels of their own, none of
them `bucket`, positive batches, and a bucket that moves its shapes onto a rung of the
sweep. That every list of a sweep can be measured is proved from it: the list is not empty,
no two of its candidates have one name (so the FormatError of `decision_candidates` is
never raised), and nothing is measured by a stub in its place.

*Bounds.* Two visitors of one tick each (as long as they stay) tell what one client takes
from what all of them take; one tick in 24 is the limit
(`MAX_FOREIGN_SHARE`), so that one visitor voids a
short block and it takes two to void one of the longer blocks of `bench_in_situ`. Two rounds of two
attempts hold the case of a round that is voided on its second arm and measured again.
One poll past the first is enough for a wait to end both ways. For the sweeps three variants, two of them the same tiling in two forms; two cases that share
the library of LUT23 but not those of the GEMM, whose batch block divides one batch and not
the other; two numbers of tokens and two samples of warm-up. Three shapes, one of a
single tile; batches 8 and 16 lie below and on the batch at which the GEMM starts;
models with the census's layers, with one too few, and with as many in all but of
another shape. *Fairness.* Weak fairness of the program's own steps; none of the other
processes owes anything. Each step of the program is a call that returns; a child that
hangs is outside the model.

### The files of weights (`Tq1Codec`, `Lut23Layout`, `Sidecars`)

`Tq1Codec` is `format.py`: two bits a weight in, five weights a byte out, three in a tail
byte, and the check of the range, because a byte beyond it decodes as well as any other
but lies past the tables of a kernel. `LutWeights` is how the kernels read a block. It
never decodes: it splits a byte by a multiplication and a shift and looks both halves up.
`Lut23Layout` is the permutation of `lut23_reorder.py`, its inverse, and the layout of
the file. `Sidecars` runs the tools.

| code | action |
| --- | --- |
| `inspect_model` | `Inspect` |
| `pack_model`, `lut23_reorder reorder`, `convert_gguf`: what each refuses, then tensor by tensor into a temporary file, the header over its placeholder, the rename | `PackStart`, `ReorderStart`, `ConvertStart`; `WriteTensor`; `Seal`; `Publish` |
| the packer's record, hashed from what it renamed | `Record` |
| `verify_model`, `lut23_reorder verify`, `v2_traversal`, `verify_distributed_gguf` | `VerifyModel`, `VerifyReordered`, `BuildTraversal`, `VerifyDistributed` |
| SIGKILL; a byte that goes bad; a new download | `Kill`, `Damage`, `Download` |

The tools are commands started by hand, so they may run in any order and any number of
times; only one runs at once. A digest is the value it is taken of. A reader is one
step: it shares its files with no writer that runs.

What the run `sidecars` shows. Records are files that outlive what they are about, and
several options let a tool take a record's word for a file (`--packing-result`,
`--skip-source-hash`, `--skip-file-hashes`). `EvidenceComposes` says what the records
together still mean, whatever was damaged, killed, redone or downloaded again in
between: a sidecar that passed, a reordered file whose passing verification names it, the
sidecar of a traversal built with hashes, a GGUF that passed, hold the codes and scales
of the release, as the kernels read them. `SoundChainPasses` is the other direction: on
undamaged files, no order of the tools and no kill makes one of them fail.
`PublishedIsWhole`: under a final name there is never anything but a complete file.

All three are proved for any tensors (`Sidecars_proofs`). The named assumptions say what
the tools take for granted of their input: `TensorsAssumption` (a name once, sizes
positive), `ReleaseAssumption` (the release is bytes, and ternary), `LaunchAssumption` (its
tensors are those that the launches read, and the embedding), `StreamAssumption` (they are as
many as a pass launches, and each begins at a multiple of the alignment in both streams:
`v2_traversal` refuses anything else), `DamageAssumption` (what a
byte becomes is a byte), `AlignmentAssumption` and `SlotsAssumption`.

Two things it does not say. A reorder whose source hash came from the packing record
names that sidecar even if another lies at the path, so a verification of it is excluded.
And two coordinated damages could pass where one cannot: a payload and its digest.

*Bounds.* Blocks of eight weights with one byte of five and a tail of three, so both
kinds of byte occur; tiles of two rows and a tensor of three, so that the last tile is
padded; a recurrent and an attention layer, the head and the embedding, listed in another
order than that of the launches. One damaged byte, at nine places: a legal and an illegal
code in the sidecar and the reordered file, padding, the GGUF, and in the model a ternary
byte, a fourth symbol, and a tensor that is not quantised. *Not covered:* a loss of
power. `convert_gguf` renames without a sync; the packer and the reorder sync first.
Nothing is claimed to finish, and the run has no fairness.

### The crosscheck (`HeadOrder`, `Crosscheck`)

`HeadOrder` is the permutation of value heads in `naming.py`: the GGUF walks repeats and
then key heads, the checkpoint key heads and then repeats, and the mapping is its own
inverse only where there are as many of one as of the other. `Crosscheck` is
`crosscheck.py`, action `Check`: the chunks that every matrix is read in, the orders of
rows and groups, the comparison of codes, scales and biases, the largest gap, the plain
tensors with `ssm_a` as its logarithm, the rivals (tensors of one layer and shape that
only their contents tell apart) and the verdict. `CrosscheckSound` compares the verdict
with a definition that knows nothing of chunks or orders: pairs of places that are of the
same key head and repeat. It is checked on 23 checkpoints: the same weights; heads left
in the GGUF's order, rivals exchanged or equal, a name missing; a code, a scale, a bias
or a value changed in every place where a chunk begins or ends; values that are not
finite, and zeros of either sign. Two key heads with three repeats each make the
permutation differ from its inverse. The check shares no state with the sidecar tools, so
it is made in the run `sidecars` before the first of them; `CheckSpec` is the check alone,
and `Crosschecked` in `Sidecars_proofs` proves `CheckSpec => []CrosscheckSound` for any
two files. It assumes what the code refuses otherwise (`CensusAssumption`: positive rows,
columns and budget, room for the value heads on an axis that is reordered, whole groups
for each on a packed one) and that arrays hold numbers or NaN (`ContentsAssumption`).

One clause has a condition: a pass bounds the gap *if all values are finite*. The largest
gap is kept as `max(largest, chunk)`, and Python's `max` of a number and NaN, in that
order, is the number; a chunk with a weight that is not finite adds nothing, although the
help text of `--max-weight-difference` promises the largest gap a tensor may show and
still pass. The comparison of the stored values is not affected: it reports such a tensor
as not identical.
## What is proved

`StreamK_proofs` proves, for any number of rows, threads per block, groups, chunk sizes,
launches and resident blocks:

- `TypeCorrect`, and `Inductive`: the invariant `IInv` of `StreamKInv` holds in every
  reachable state;
- `TableIsRaceFree`, `BarrierIsUniform`, `ReducerSeesEverything`, `OneReducerPerTile`,
  `CountersAreClear` and `ClearsWhenAnswered`: the safety properties of the runs;
- `KernelImplementsGemv`: every step of the kernel is a step of `Gemv` or a stutter, so
  each launch stores each row once, with the exact value in the fixed order.

*Assumptions.* Rows, groups, threads per block and resident blocks are positive numbers,
chunk sizes are a set of positive numbers, launches are a number; each is a named
ASSUME. They are what the host code checks or computes before it launches.

*Argument.* None of the properties is inductive. The invariant rests on `InStep`: all
threads of a block have passed the same number of barriers. It turns what is known of one
thread into knowledge of the others: while a thread reads a table, the next table may be
built but it lies in the other buffer, and the one after it needs a barrier that the
reader has not reached. `Terms` says how far each register has come and with what;
`Table` that a share, once built, stays until all have read it; `Published` that behind
the fence the workspace holds the exact partial sums of the chunk; `Counting` that the
counter of a tile is the number of its blocks that have counted, until the last of them
clears it, so the one that sees the count complete knows that every other is past its
fence; `Stored` carries the values to the output. There is one lemma per action, and
under it one step per part of the invariant that the action can disturb; `NextIInv`
collects them.

TLC checked each of these formulas first, `IInv` as an invariant of `streamk_tiles`.

`MetalMatmul_proofs` proves, for tensors, batches and configurations of any size and any
number of calls:

- `Inductive`: the invariant `IInv` (below), with `TypeCorrect` as its first part;
- `NoRace`, `BarriersAreUniform` and `EveryCellHasOneWriter`: the safety properties of the
  run;
- `Implements`: every step of the kernels is a step of `Matmul` or a stutter.

*Assumptions.* `MetalAssumption` and `ConfigAssumption`: shapes and batches are positive
numbers; a configuration has the fields of `MatmulConfig` or `GemmConfig` with positive
sizes; the matrix units and the simdgroup are at least one wide. That it suits the
tensor is not assumed: it is the guard of `Call`, the checks that the host makes.

*Argument.* The invariant has three parts. `Course` says where a thread can be and with
which step and strip, for all forms of the kernel at once; `Passed` counts the barriers
behind it as a function of that place alone, and `InStep` says that the counts agree.
From one thread's place this gives every other's, up to the piece between two barriers:
while one reads a tile, nobody is at a `Fill` of the next, because the barrier between
them counts for both. `Holding` says what a thread's share of the allocation contains,
`Summed` which steps its accumulators have. `Output` says exactly which cells are
stored, with what: those of finished threadgroups, and those of the current one whose
`Lane`, the thread that owns them, is past their `Turn`, the strip that they are in.
`Owner` and `Lane` compute the one writer of a cell from its position, the inverse of
what the kernel computes from the thread's number; `Numbers` holds the arithmetic of
quotients and remainders that this takes (blocks that overhang, strips within blocks,
pieces of K). That a call is answered with the exact product is `Output` with no
threadgroup left. TLC checked `IInv` on the bounds of the run `metal` first.

`Runner_proofs` proves, for any number of calls of any stages, killed anywhere, and any
visitors at the GPU: `FreshVerdict`, `RecoveryByForce`, `GatesBeforeMeasuring` and
`WrongNumbersAreSeen`. The invariant is what a run knows at each step (`Gates`: behind
the audit it passed, behind the capture the GPU was idle in this call), what a forced
run of all stages has written itself by then (`Fresh`), and that its verdict is the last
thing it writes (`Concluded`). The steps of a call are ordered by `Place`; that `Advance`
goes to the least step ahead and skips none is `NextStep`.

`Dispatch_proofs` proves `DispatchIsAccepted`: for every set of layouts, every batch and
all values of the thresholds, `Spec => []DispatchAccepted`. It assumes that the matrix
units are 8 wide and a simdgroup 32 (`HardwareSizes`), of which the ladders are multiples,
that the constants are positive and that layouts are made by `for_tensor`. The lemmas
follow the code: `SplitDivides`, that the search of `largest_split` ends at a divisor
(one divides everything and the budget is never below one; the largest divisor is the
least element of the distances from the budget, by the well-founded order of the
numbers); `WalkStops`, that a walk down a ladder ends at one of its rungs;
`RungsWellFormed`, that `GemmConfig.__post_init__` raises for none of them; and
`GemmAccepted` and `Lut23Accepted`, one per kernel. `PartialSumsAreBounded` proves
`Spec => []PartialSumsBounded` from the same lemmas: a split above one is within its
budget, the budget times the grid is within the ceiling, and the grid's threadgroups
cover the batch. `ShippedIsAlwaysMeasured` proves `Spec => []ShippedIsMeasured`, also from
`CandidatesAssumption` (see "The choice of a kernel"). `Sift` returns members of its list,
all of those to keep, and none twice if none is there twice (`SiftIs`); `LadderDistinct`
and `DecisionRungsAre` say that the rungs of the two sweeps have names of their own, so
what is kept of them has (`SiftDistinct`, `JoinDistinct`), with LUT23 behind. What ships is
a rung of the ladder of its batch (`GemmChosen`) and each of those is in both sweeps
(`SweptRungs`), or it is LUT23 (`ShippedIsSwept`); that its split is swept is arithmetic on
the two ceilings (`SplitIsSwept`).

`Convert_proofs` proves, for any model, any sources and budgets, and any number of runs,
kills, losses of power and damaged arrays:

- `ConvertInvariant`: the invariant `Inv` holds in every reachable state;
- `ShardsAreWhole`, `OneResident`, `NoneIsRefused`, `ManifestIsLast`, `VerifiedLoads`: the
  invariants of the run `convert`;
- `CompletedPass`: the action property, that the step which completes a run leaves a
  directory that passes verification, over whatever earlier runs left.

*Assumptions.* The named ones (see "The artifact"). `VerifiedLoads` also assumes that all
budgets give the same plan, as they do in that run. It is needed: `stale_shards` is the
counterexample without it.

*Argument.* What a plan is comes first. `PlanShards` folds the arrays into shards;
`PlanIsCut` shows, by the number of arrays placed so far, that any such fold cuts the
sequence of arrays in order and leaves none out, and that no shard but a first one is
empty. From this follow that each array is in exactly one shard (`HeldOnce`,
`HeldSomewhere`) and that the weights of the shards add up to the weight of all
(`ShardsAddUp`). The invariant has five parts. `Safe`: a file in place is a whole shard of
some plan, and unless an array was damaged, of sources alone; a shard that is not yet on
the disk has not replaced another. `MadeSoFar`: the shards behind a run are of its own
source. `Resident`: `Put` counts the arrays written so far along the whole plan, across the
ends of shards; the cache holds what is `Waiting` at that count, which is the scales of the
tensor whose codes were the last to be written, or nothing. `OneResident` and
`NoneIsRefused` are consequences. `Written` and `FirstRun` say which of the other files a
run has behind it. `CompletedPass` puts them together: the index of the run names every
array, what it names is there and adds up to the total that it states, and every array is
of the run's source, read through the index.

`Benchmarks_proofs` proves, for any number of visitors, rounds, attempts, shapes, batches
and variants, and whichever of the seven programs runs: `VoidIsDeserved`,
`ResidentsAreSeen`, `Pairing`, `WarmBeforeMeasured`, `Spreading` and `Comparable`, from the
invariant of `Inductive`.
`GateInv`: as long as a block is open, the clients that the gate will difference are the
visitors that were there throughout, and what they gained is what they worked. Child and
benchmark are never among them: the one is gone when a sample is taken (`ChildGone`), the
other is left out. What the residents took is part of what was stolen, since a tick has
at most one visitor. `SoloInv`: what is kept is as long as the rounds are many, for both
arms, and an attempt that is voided leaves nothing. `SweepInv`: the
jit block has compiled the libraries of the probes before its turn and nothing else, and
these differ because the variants do and a list that is sifted from theirs keeps them
apart (`ProbesDiffer`); from the warm-up of a case to its end every library that
it measures is compiled and has run its warm-up. `SituInv`: the readings of a
block of `bench_in_situ` are those of its trials so far, each candidate at the place that
the rotation gives it (`ReadInv`), and the two passes of a pair are what `InPlace` makes of
nothing and of the candidate's moves (`PairInv`). `Spreading` rests on the
arithmetic of the rotation: two trials that are fewer apart than there are candidates
turn a list by different amounts (`TurnsDiffer`, `SlotsDiffer`), and on `AllMeasurable`:
in every mode, for every batch and shape, the list is one to measure, with names of its
own (`CandidatesNamed` for the candidates, behind them the control of `keep-one`;
`MembersApart` for the members of a bucket, behind the bucket itself). It assumes that
benchmark, child and visitors are different processes, that the limit is a share
(`GateAssumption`), and of the variants, the census and the thresholds what
`SweepAssumption`, `SituAssumption` and `CandidatesAssumption` say.

`Sidecars_proofs` proves, for any tensors of any size in any order, and any tools started
and killed in any order: `PublishedWhole`, `SoundChain` and, for one damage at most (with
two it is false: a reordered file and its source may go bad in the same place),
`Evidence`.

*Assumptions.* The named ones (see "The files of weights").

*Argument.* First the codec: five ternary digits in a byte come out of it again
(`FiveDigits`), so a packed block decodes to its weights (`RoundTrip`), and the split of a
byte by a multiplication and a shift, as the kernels do it, is the same decoding for every
legal byte (`SplitByte`, `LutIsDecode`). Then the layouts: offsets and extents are
recursive functions over the order of the tensors, which exist (`PlacingExists`); they are
aligned, in order and before the manifest (`PackedOffsets`, `BeforeManifest`,
`ReorderedLayouts`). Then the permutation: a cell has one place and a place that is no
padding one cell (`PlaceOfCell`, `CellOfPlace`), so what is a copy of a sidecar's blocks,
place by place, is restored to them (`RestoreHolds`), and the verification tile by tile
says that it is one (`TilesAreCopied`). The invariant `IInv` says what a temporary file
holds at each stage, that files in place are complete and every record was true of what it
is about, and that before any damage all of this is the release's own; one lemma per
action keeps it. `Lineage` is the part that needs the bound: a reordered file follows the
sidecar it names, or has been damaged itself, and then no sidecar has.

The same module proves `Crosschecked`. The check goes by chunks and by orders that it
computes with quotients and remainders; the property by pairs of places. `OrderIsPairs`
shows that the order of an axis and the pairs are the same relation (a value head is a
key head and a repeat in exactly one way, `HeadsFit`), `ReordersFit` that it stays on the
axis, `ChunksCover` that each row is in a chunk and a chunk has no others. So what no
chunk finds bad is the same everywhere (`AgreesIsSame`, `PlainIsSame`). For the bound,
`GapsFinite` and `MaxOfFinite` give the largest gap of a chunk, and `WithinIsClose` has
two cases: a weight in a row found bad has a gap below that one, and in a row that agrees
(code - 1) * scale and code * scale - scale are equal.

`Numbers` has the lemmas about numbers and sums that these proofs share: division,
induction over the numbers as the least element of a set of them, and from it that folds
over finite sets exist, that sums do not depend on the order, and how they change with one
value; and about lists: what `Sift` keeps, by the same induction, and what it and a
concatenation preserve.

## What is only model-checked

- `Answered` and `Ends`: liveness under fairness is beyond the proof system.
- The findings: each is a counterexample.

## What is not modelled, and why

- Floating point. Values are compared as expressions; that the kernels agree with a
  reference to some tolerance is what `kernel_gate.py`, `graph_gate.py` and
  `baseline_fidelity.py` measure. They are sequential programs whose only question is that
  tolerance.
- Statistics. The bootstrap, medians and intervals of `stats.py`, `v2_reporting.py` and
  `lut23_reporting.py` are arithmetic on numbers that `Benchmarks` takes as given.
- The text that is emitted (`model_file.py`'s source, reports).
- The later drivers (`run_lut23_primary.py`, `run_v2_benchmark.py`, the profilers): each
  runs commands in a fixed order and stops at the first that fails; what those commands
  leave behind is in `Runner` and `Sidecars`.
- Of the sidecar tools: the TSV that joins two records for the CUDA benchmark, the bytes
  of headers and JSON, and the size checks of the packing gate, which one damaged byte
  cannot move.
- Network reads, which fail at once and are never retried.
- What the tables of a kernel contain: scales and the arithmetic on them. (The split of a
  byte into the entries of two tables is in `Tq1Codec`.)
- Vendored code (`patches/`), generated results and reports, command lines.
