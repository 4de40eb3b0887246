----------------------------- MODULE SoloRounds -----------------------------
(* The benchmark of whole models (bench_model.py). "isolated" runs each arm in a   *)
(* process of its own, round by round, and measures a round again that shared the  *)
(* GPU. "paired" probes each model alone, then loads both and times them trial by  *)
(* trial; a block that shared the GPU ends it.                                     *)
EXTENDS Harness

CONSTANTS
    ROUNDS,             \* rounds of an isolated run, trials of a paired one
    ROUND_ATTEMPTS,     \* how often a round is tried
    MAX_POLLS           \* bound: samples that fit before the deadline of a wait

ASSUME SoloAssumption == ROUNDS > 1 /\ ROUND_ATTEMPTS > 0 /\ MAX_POLLS > 0

VARIABLES
    round,      \* the round or trial, from 0
    attempt,    \* the attempt at the round
    produced,   \* what the arms of this attempt have produced: arm -> [round, attempt]
    collected,  \* what is kept: for each arm its results in order
    polls       \* samples taken while waiting for a quiet GPU

soloVars == <<round, attempt, produced, collected, polls>>

Arms == {"candidate", "reference"}

SoloInit ==
    /\ round = 0
    /\ attempt = 1
    /\ produced = [a \in {} |-> 0]
    /\ collected = [a \in Arms |-> <<>>]
    /\ polls = 0

\* Place of the next arm of the round.
Turn == Cardinality(DOMAIN produced) + 1

----------------------------------------------------------------------------
\* run_solo and run_probe: the gate is opened, and the model runs in a child.
StartArm ==
    /\ program \in {"isolated", "paired"} /\ At("start")
    /\ round < ROUNDS /\ Turn <= 2
    /\ OpenWindow
    /\ usage' = With(usage, Child, 0)
    /\ Go("solo")
    /\ UNCHANGED <<readings, soloVars>>

SoloTrial ==
    /\ At("solo") /\ window.ticks < 2
    /\ Tick(Child)
    /\ UNCHANGED <<harnessVars, soloVars>>

\* The parent goes on when the child has gone. A child that failed ends the run.
SoloExits ==
    /\ At("solo")
    /\ usage' = Restrict(usage, DOMAIN usage \ {Child})
    /\ IF window.ticks = 2 THEN Go("exited") /\ UNCHANGED readings ELSE End("failed")
    /\ UNCHANGED <<window, stayed, soloVars>>

KeepArm ==
    /\ At("exited") /\ ~Contended
    /\ CloseWindow(FALSE)
    /\ produced' = With(produced, Order(round)[Turn], [round |-> round, attempt |-> attempt])
    /\ Go("start")
    /\ UNCHANGED <<readings, round, attempt, collected, polls>>

\* Mutant: the arm that was not hit is kept.
VoidArm ==
    /\ program = "isolated" /\ At("exited")
    /\ Contended /\ attempt < ROUND_ATTEMPTS
    /\ CloseWindow(TRUE)
    /\ polls' = 0
    /\ Go("wait")
    /\ UNCHANGED <<readings, round, attempt, produced, collected>>

\* Both arms of a voided round are thrown away, and the program waits.
VoidRound ==
    /\ program = "isolated" /\ At("exited")
    /\ Contended /\ attempt < ROUND_ATTEMPTS
    /\ CloseWindow(TRUE)
    /\ produced' = [a \in {} |-> 0]
    /\ polls' = 0
    /\ Go("wait")
    /\ UNCHANGED <<readings, round, attempt, collected>>

\* The last attempt was voided too, or the run has no second one.
GiveUp ==
    /\ At("exited") /\ Contended
    /\ program = "paired" \/ attempt = ROUND_ATTEMPTS
    /\ CloseWindow(TRUE)
    /\ End(IF program = "paired" THEN "void" ELSE "failed")
    /\ UNCHANGED soloVars

Collect ==
    /\ program = "isolated" /\ At("start") /\ Turn = 3
    /\ collected' = [a \in Arms |-> Append(collected[a], produced[a])]
    /\ readings' = readings \o
            [i \in 1..2 |-> [trial |-> round, place |-> i, name |-> Order(round)[i]]]
    /\ round' = round + 1
    /\ attempt' = 1
    /\ produced' = [a \in {} |-> 0]
    /\ UNCHANGED <<gateVars, program, step, outcome, polls>>

----------------------------------------------------------------------------
\* await_quiet_gpu: samples with a sleep between them, until others are off the GPU
\* or the deadline has passed.
Poll ==
    /\ At("wait") /\ ~window.open
    /\ OpenWindow
    /\ UNCHANGED <<usage, harnessVars, soloVars>>

Sleep ==
    /\ At("wait") /\ window.ticks = 0
    /\ \E others \in {{}} \cup {{v} : v \in Visitors} : TickFor(others)
    /\ UNCHANGED <<harnessVars, soloVars>>

\* Mutant: no deadline.
PollEndsQuiet ==
    /\ At("wait")
    /\ CloseWindow(Contended)
    /\ IF Contended
       THEN UNCHANGED <<attempt, step>>
       ELSE attempt' = attempt + 1 /\ step' = "start"
    /\ UNCHANGED <<program, outcome, readings, round, produced, collected, polls>>

PollEnds ==
    /\ At("wait")
    /\ CloseWindow(Contended)
    /\ IF Contended /\ polls < MAX_POLLS
       THEN polls' = polls + 1 /\ UNCHANGED <<attempt, step>>
       ELSE attempt' = attempt + 1 /\ step' = "start" /\ UNCHANGED polls
    /\ UNCHANGED <<program, outcome, readings, round, produced, collected>>

----------------------------------------------------------------------------
\* A paired run has probed both models and has loaded them, if they load and agree on
\* the prompt, and times them in one block.
StartBlock ==
    /\ program = "paired" /\ At("start")
    /\ Turn = 3 /\ round < ROUNDS
    /\ \/ OpenWindow /\ Go("timing") /\ UNCHANGED readings
       \/ End("failed") /\ UNCHANGED <<window, stayed>>
    /\ UNCHANGED <<usage, soloVars>>

\* measure_workload: both arms, alternating.
PairedTrial ==
    /\ At("timing") /\ round < ROUNDS
    /\ Tick(Self)
    /\ readings' = readings \o
            [i \in 1..2 |-> [trial |-> round, place |-> i, name |-> Order(round)[i]]]
    /\ collected' = [a \in Arms |-> Append(collected[a], [round |-> round, attempt |-> 1])]
    /\ round' = round + 1
    /\ UNCHANGED <<program, step, outcome, attempt, produced, polls>>

\* An arm that answered differently from trial to trial ends the program before the
\* gate has closed.
EndBlock ==
    /\ At("timing") /\ round = ROUNDS
    /\ \/ End("failed") /\ UNCHANGED <<window, stayed>>
       \/ /\ CloseWindow(Contended)
          /\ IF Contended THEN End("void") ELSE Go("start") /\ UNCHANGED readings
    /\ UNCHANGED <<usage, soloVars>>

\* Isolated arms are compared when all rounds are in: they must have had one prompt,
\* and each must have answered the same in every round.
ReportModels ==
    /\ program \in {"isolated", "paired"} /\ At("start") /\ round = ROUNDS
    /\ \/ End("reported")
       \/ program = "isolated" /\ End("failed")
    /\ UNCHANGED <<gateVars, soloVars>>

SoloNext ==
    \/ StartArm \/ SoloTrial \/ SoloExits \/ KeepArm \/ VoidRound \/ GiveUp \/ Collect
    \/ Poll \/ Sleep \/ PollEnds
    \/ StartBlock \/ PairedTrial \/ EndBlock \/ ReportModels

----------------------------------------------------------------------------
\* What is reported stays paired: the arms have as many results, and each is paired
\* with one of the same round and the same attempt, however many attempts were voided
\* and whichever arm they hit.
RoundsPaired ==
    /\ Len(collected["candidate"]) = Len(collected["reference"])
    /\ \A i \in DOMAIN collected["candidate"] :
           /\ collected["candidate"][i] = collected["reference"][i]
           /\ collected["candidate"][i].round = i - 1
=============================================================================
