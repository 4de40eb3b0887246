------------------------------ MODULE OpSweep ------------------------------
(* The sweeps over single operations (bench_ops.py, bench_split_k.py). The first   *)
(* times what it costs to compile each variant, then every variant of every case,  *)
(* each against the baseline, then the gather of the embedding, all of it gated.   *)
(* The second checks and warms before the gate of a case and times all its splits  *)
(* in turn.                                                                        *)
(*                                                                                 *)
(* MLX compiles a library when a kernel is first called with a template, and its   *)
(* first runs are not like the later ones. (External.) MLX's own kernels, those of *)
(* the baseline, are left out: they are warmed along with the others.              *)
EXTENDS Harness, Candidates

CONSTANTS
    Variants,       \* bench_ops: the configurations, in order
    Cases,          \* the cases, in order: [layout, batch]
    GATHERS,        \* how many numbers of tokens are gathered
    TRIALS,         \* trials per arm
    WARMUP_SAMPLES  \* untimed samples per arm

\* The variants differ, and one of them runs on any tensor.
ASSUME SweepAssumption ==
    /\ Variants \in Seq(ToSet(Variants)) /\ IsInjective(Variants)
    /\ \E c \in ToSet(Variants) : c.kernel = "lut"
    /\ Cases \in Seq(ToSet(Cases))
    /\ \A i \in DOMAIN Cases : Cases[i].layout.groups \in Nat \ {0}
    /\ GATHERS \in Nat \ {0}
    /\ TRIALS \in Nat \ {0} /\ WARMUP_SAMPLES \in Nat \ {0}

VARIABLES
    libraries,  \* the compiled libraries, and the samples that each has run
    turn        \* the case, the variant and the trial that are at hand

sweepVars == <<libraries, turn>>

Sweeps == {"ops", "split_k"}

----------------------------------------------------------------------------
\* What a library is compiled for: the kernel with its configuration, the groups of a
\* row, the tile, and for the GEMM whether its blocks divide the rows and the batch.
Library(l, b, c) ==
    [config |-> c, groups |-> l.groups, tile |-> l.tile,
     fits |-> IF c.kernel = "gemm"
              THEN <<l.rows % c.row_block = 0, b % c.batch_block = 0>> ELSE <<>>]

\* Variant.supports
Runnable(l) == Sift(Variants, {c \in ToSet(Variants) : c.kernel = "gemm" => Fits(l, c)})

\* The splits of a case, in ascending order.
SplitsOf(l, b) ==
    LET base == SelectLut23Tile(l, b)
        splits == Sift([k \in 1..l.groups |-> k],
                       LegalSplits(l.groups, Tiles(l) * CeilDiv(b, base.batch_tile)))
    IN  [i \in DOMAIN splits |-> [base EXCEPT !.k_split = splits[i]]]

LibrariesOf(l, b, configs) == [i \in DOMAIN configs |-> Library(l, b, configs[i])]

\* The tensor of the jit block.
Probes == LibrariesOf(LayoutOf(512, 2), 512, Runnable(LayoutOf(512, 2)))

\* The embedding's gather, whatever the number of tokens.
Gather == Library(LayoutOf(248320, 40), 1, [kernel |-> "get_rows"])

\* What is measured of each case, and after the cases the gather.
SeriesOf ==
    [p \in Sweeps |-> [n \in DOMAIN Cases |->
        LET l == Cases[n].layout
            b == Cases[n].batch
        IN  LibrariesOf(l, b, IF p = "ops" THEN Runnable(l) ELSE SplitsOf(l, b))]]

Gathering == turn.case > Len(Cases)

Measured == IF Gathering THEN <<Gather>> ELSE SeriesOf[program][turn.case]

Sections == Len(Cases) + (IF program = "ops" THEN GATHERS ELSE 0)

\* The libraries once each of these has run n more samples.
Ran(arms, n) ==
    [lib \in DOMAIN libraries \cup ToSet(arms) |->
        (IF lib \in DOMAIN libraries THEN libraries[lib] ELSE 0)
            + (IF lib \in ToSet(arms) THEN n ELSE 0)]

\* If one element of the kernel's result is not a number, the largest error is none.
Errors == {"within", "over", "nan"}

\* bench_ops refuses what is not within the bound, bench_split_k what is over it: no
\* comparison holds of what is not a number.
Refused(error) == IF program = "ops" THEN error # "within" ELSE error = "over"

SweepInit ==
    /\ libraries = [lib \in {} |-> 0]
    /\ turn = [case |-> 0, variant |-> 1, trial |-> 0]

----------------------------------------------------------------------------
StartSweep ==
    /\ program \in Sweeps /\ At("start")
    /\ IF program = "ops" THEN OpenWindow /\ UNCHANGED usage /\ Go("jit")
       ELSE UNCHANGED gateVars /\ Go("next")
    /\ UNCHANGED <<readings, sweepVars>>

\* measure_jit_cost: a cold call and a warm one, both on the clock, of every variant.
CompileVariant ==
    /\ At("jit") /\ turn.variant \in DOMAIN Probes
    /\ Tick(Self)
    /\ libraries' = Ran(<<Probes[turn.variant]>>, 2)
    /\ turn' = [turn EXCEPT !.variant = @ + 1]
    /\ UNCHANGED harnessVars

\* The gate closes; a voided block ends the program.
CloseBlock(next) ==
    /\ CloseWindow(Contended)
    /\ IF Contended THEN End("void") ELSE Go(next) /\ UNCHANGED readings

EndJit ==
    /\ At("jit") /\ turn.variant \notin DOMAIN Probes
    /\ CloseBlock("next")
    /\ UNCHANGED sweepVars

\* The next case, or the next number of tokens: these share one block.
StartCase ==
    /\ At("next") /\ turn.case < Sections
    /\ IF program = "ops" /\ turn.case <= Len(Cases) THEN OpenWindow /\ UNCHANGED usage
       ELSE UNCHANGED gateVars
    /\ turn' = [case |-> turn.case + 1, variant |-> 1, trial |-> 0]
    /\ Go("check")
    /\ UNCHANGED <<readings, libraries>>

\* The first call of a variant is compared with the reference.
CheckVariant ==
    /\ At("check") /\ ~Gathering /\ turn.variant \in DOMAIN Measured
    /\ libraries' = Ran(<<Measured[turn.variant]>>, 1)
    /\ \E error \in Errors :
          IF Refused(error) THEN End("failed") /\ UNCHANGED turn
          ELSE /\ turn' = [turn EXCEPT !.variant = @ + 1]
               /\ UNCHANGED harnessVars
    /\ UNCHANGED gateVars

\* measure_get_rows: the first call of the gather is compared with nothing.
CallGather ==
    /\ At("check") /\ Gathering /\ turn.variant \in DOMAIN Measured
    /\ libraries' = Ran(Measured, 1)
    /\ turn' = [turn EXCEPT !.variant = @ + 1]
    /\ UNCHANGED <<gateVars, harnessVars>>

\* Mutant: what has been called is warm.
WarmedNew == Ran(Sift(Measured, ToSet(Measured) \ DOMAIN libraries), WARMUP_SAMPLES)

Warmed == Ran(Measured, WARMUP_SAMPLES)

\* Every arm runs untimed; bench_split_k opens its gate after that.
WarmArms ==
    /\ At("check") /\ turn.variant \notin DOMAIN Measured
    /\ libraries' = Warmed
    /\ turn' = [turn EXCEPT !.variant = 1]
    /\ IF program = "ops" THEN UNCHANGED gateVars /\ Go("plan")
       ELSE OpenWindow /\ UNCHANGED usage /\ Go("timed")
    /\ UNCHANGED readings

\* plan_inner: one sample of each arm; the fastest says how many calls a sample of
\* this case takes.
PlanInner ==
    /\ At("plan")
    /\ libraries' = Ran(Measured, 1)
    /\ Go("timed")
    /\ UNCHANGED <<gateVars, readings, turn>>

\* measure_pair: the baseline and the variant, alternating, after a warm-up.
TimePair ==
    /\ program = "ops" /\ At("timed") /\ turn.variant \in DOMAIN Measured
    /\ Tick(Self)
    /\ libraries' = Ran(<<Measured[turn.variant]>>,
                        1 + (IF turn.trial = 0 THEN WARMUP_SAMPLES ELSE 0))
    /\ readings' = (IF turn.trial = 0 THEN <<>> ELSE readings) \o
          [i \in 1..2 |-> [trial |-> turn.trial, place |-> i, name |-> Order(turn.trial)[i]]]
    /\ turn' = IF turn.trial + 1 < TRIALS THEN [turn EXCEPT !.trial = @ + 1]
               ELSE [turn EXCEPT !.variant = @ + 1, !.trial = 0]
    /\ UNCHANGED <<program, step, outcome>>

\* Round-robin: every split of a trial before the next trial. A sample is one of the
\* calls at once and one of them in a chain, here as in the warm-up.
TimeRound ==
    /\ program = "split_k" /\ At("timed") /\ turn.trial < TRIALS
    /\ Tick(Self)
    /\ libraries' = Ran(Measured, 1)
    /\ readings' = (IF turn.trial = 0 THEN <<>> ELSE readings) \o
          [i \in DOMAIN Measured |-> [trial |-> turn.trial, place |-> i, name |-> Measured[i].config]]
    /\ turn' = [turn EXCEPT !.trial = @ + 1]
    /\ UNCHANGED <<program, step, outcome>>

TimedAll == IF program = "ops" THEN turn.variant \notin DOMAIN Measured ELSE turn.trial = TRIALS

\* The last number of tokens ends the block of the gather.
EndCase ==
    /\ program \in Sweeps /\ At("timed") /\ TimedAll
    /\ IF Gathering /\ turn.case < Sections
       THEN UNCHANGED <<gateVars, readings>> /\ Go("next")
       ELSE CloseBlock("next")
    /\ UNCHANGED sweepVars

\* The document: what the jit block, the cases and the gather were timed at.
EndSweep ==
    /\ At("next") /\ turn.case = Sections
    /\ End("reported")
    /\ UNCHANGED <<gateVars, sweepVars>>

SweepNext ==
    \/ StartSweep \/ CompileVariant \/ EndJit \/ StartCase \/ CheckVariant \/ CallGather
    \/ WarmArms \/ PlanInner \/ TimePair \/ TimeRound \/ EndCase \/ EndSweep

----------------------------------------------------------------------------
\* The libraries that a step runs.
RunBy == {lib \in DOMAIN libraries' :
                lib \notin DOMAIN libraries \/ libraries'[lib] # libraries[lib]}

\* "Warm, then measured": what the jit block times as cold is compiled by that very
\* call, and no other sample pays for a library. Whatever variants were compiled, on
\* other tensors or batches, when a count is chosen or a number taken each library that
\* runs has its warm-up behind it.
WarmThenMeasured ==
    [][\A lib \in RunBy :
          /\ step = "jit" => lib \notin DOMAIN libraries
          /\ step \in {"plan", "timed"} =>
                lib \in DOMAIN libraries /\ libraries[lib] >= WARMUP_SAMPLES]_libraries
=============================================================================
