------------------------------ MODULE Harness ------------------------------
(* What the benchmark programs have in common: a process that goes from step to   *)
(* step, takes readings within gated blocks, and reports or fails.                *)
EXTENDS GpuGate, Sequences

VARIABLES
    program,    \* which benchmark runs
    step,       \* where it is
    outcome,    \* "running", "reported", "void" or "failed"
    readings    \* the readings of the current series: [trial, place, name]

harnessVars == <<program, step, outcome, readings>>

Programs == {"isolated", "paired", "keep-one", "whole-pass", "bucket", "ops", "split_k"}

HarnessInit(programs) ==
    /\ program \in programs
    /\ step = "start"
    /\ outcome = "running"
    /\ readings = <<>>

At(s) == outcome = "running" /\ step = s

\* An exception nobody answers: the program ends, and nothing is written.
End(result) == outcome' = result /\ step' = "ended" /\ UNCHANGED <<program, readings>>

Go(s) == step' = s /\ UNCHANGED <<program, outcome>>

\* Mutant: always the same arm first.
FixedOrder(trial) == <<"candidate", "reference">>

\* The arm that goes first alternates, so drift within a trial favours neither.
Order(trial) ==
    IF trial % 2 = 0 THEN <<"candidate", "reference">> ELSE <<"reference", "candidate">>

\* The candidates in the order of a trial: each moves one place up.
Rotate(work, index) ==
    LET position == index % Len(work)
    IN  SubSeq(work, position + 1, Len(work)) \o SubSeq(work, 1, position)

File(trial, place, name) ==
    readings' = Append(readings, [trial |-> trial, place |-> place, name |-> name])

----------------------------------------------------------------------------
\* Drift within a trial lands on every candidate alike: in any stretch of as many
\* trials as there are candidates, none is measured twice in the same place. (A sweep
\* of splits measures in a fixed order and makes no such claim.)
PlacesSpread ==
    program # "split_k" =>
        LET names == {readings[i].name : i \in DOMAIN readings}
        IN  \A i, j \in DOMAIN readings :
                /\ readings[i].name = readings[j].name
                /\ readings[i].place = readings[j].place
                /\ readings[j].trial - readings[i].trial < Cardinality(names)
                => readings[i].trial >= readings[j].trial

\* Every benchmark ends, whatever other processes do on the GPU.
Ends == <>(outcome # "running")
=============================================================================
