----------------------------- MODULE Benchmarks -----------------------------
(* The benchmark programs on a GPU that they do not have to themselves: one of    *)
(* them runs, and other processes come, work and go at any time.                  *)
EXTENDS SoloRounds, InSitu, OpSweep

CONSTANT Running        \* the programs that are run

ASSUME RunningAssumption == Running \subseteq Programs

vars == <<gateVars, harnessVars, soloVars, situVars, sweepVars>>

Init ==
    /\ GateInit
    /\ HarnessInit(Running)
    /\ SoloInit
    /\ SituInit
    /\ SweepInit

\* A step of the program itself.
Run ==
    \/ SoloNext /\ UNCHANGED <<situVars, sweepVars>>
    \/ SituNext /\ UNCHANGED <<soloVars, sweepVars>>
    \/ SweepNext /\ UNCHANGED <<soloVars, situVars>>

\* Another process does something of its own, while the benchmark runs.
Others ==
    /\ outcome = "running"
    /\ \E v \in Visitors : Visit(v)
    /\ UNCHANGED <<harnessVars, soloVars, situVars, sweepVars>>

Next == Run \/ Others

\* The program goes on; the others owe nothing.
Spec == Init /\ [][Next]_vars /\ WF_vars(Run)
=============================================================================
