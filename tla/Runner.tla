------------------------------- MODULE Runner -------------------------------
(* runner.py, the gated experiment: download, audit, pack, verify, measure on the *)
(* GPU, report. Every stage leaves a file, and a later run takes that file for    *)
(* the stage unless it is told to redo it. A run may be killed at any step, and   *)
(* other processes may come to the GPU and leave it at any time.                  *)
(*                                                                                *)
(* A file is named by what it holds. Of its contents the run that wrote it is     *)
(* kept, and one bit: the gate passed, the packing is lossless, the bridge or the *)
(* kernel computes what it should, the GPU is idle, the verdict is a pass.        *)
EXTENDS Naturals

CONSTANTS
    Arguments,      \* the stages the program is called with
    MaxRuns,        \* bounds: calls of the program,
    MaxArrivals,    \*   and arrivals of other processes at the GPU
    NoFile, Torn

\* The choices of the argument parser; a file is none of its markers.
ASSUME RunnerAssumption ==
    /\ Arguments \subseteq {"download", "audit", "pack", "verify", "cuda", "reports", "all"}
    /\ MaxRuns \in Nat /\ MaxArrivals \in Nat
    /\ {NoFile, Torn} \cap [run : Nat, ok : BOOLEAN] = {} /\ NoFile # Torn

VARIABLES
    pc,             \* the next step; "rest" or "crashed" between runs
    stage, force,   \* the arguments of this run
    run,            \* its number
    model,          \* whether the GGUF is there
    gate,           \* whether the weights of that GGUF pass Gate 1
    disk,           \* the other files
    others,         \* other processes compute on the GPU
    arrivals,
    invalid         \* history: runs that were declared an INVALID_EXPERIMENT

call == <<stage, force, run>>
gpu == <<others, arrivals>>
vars == <<pc, call, model, gate, disk, gpu, invalid>>

Files == {"audit", "sidecar", "packing", "verification", "bridge", "v0", "v1",
          "before", "after", "analysis", "run_status"}

Measured == {"bridge", "v0", "v1"}

Result(ok) == [run |-> run, ok |-> ok]

Exists(k) == disk[k] # NoFile

\* A file whose writing was cut off does not parse, and neither does the result of a
\* benchmark whose numerics fail: its ratios are infinite, and written as inf.
Parses(k) == disk[k] \notin {NoFile, Torn} /\ (k \in {"v0", "v1"} => disk[k].ok)

----------------------------------------------------------------------------
\* main: which steps a call consists of, and in which order

Place == [download |-> 1, audit |-> 2, pack |-> 3, packing |-> 4, verify |-> 5, before |-> 6,
          bridge |-> 7, v0 |-> 8, v1 |-> 9, after |-> 10, reports |-> 11]

Steps == DOMAIN Place

Part(step) == CASE step \in {"pack", "packing"} -> "pack"
                [] step \in {"before", "bridge", "v0", "v1", "after"} -> "cuda"
                [] OTHER -> step

\* Mutant: cuda does not ask for the verification.
CudaUnverified(part) == IF part = "verify" THEN {"verify", "all"}
                        ELSE IF part = "audit" THEN {"audit", "pack", "verify", "cuda", "all"}
                        ELSE IF part = "pack" THEN {"pack", "verify", "cuda", "all"}
                        ELSE {part, "all"}

\* The stages of which a part of the program is a prerequisite, or which are it.
RunsIn(part) == CASE part = "audit" -> {"audit", "pack", "verify", "cuda", "all"}
                  [] part = "pack" -> {"pack", "verify", "cuda", "all"}
                  [] part = "verify" -> {"verify", "cuda", "all"}
                  [] OTHER -> {part, "all"}

StepsOf(arg) == {s \in Steps : arg \in RunsIn(Part(s))}

First(steps) == CHOOSE s \in steps : \A t \in steps : Place[s] <= Place[t]

Advance ==
    LET ahead == {s \in StepsOf(stage) : Place[s] > Place[pc]}
    IN  IF ahead = {} THEN "rest" ELSE First(ahead)

\* Mutant: the stage that was asked for is the only one redone.
ForcedAlone(part) == force /\ stage = part

\* --force reaches the stage that was asked for, not its prerequisites.
Forced(part) == force /\ stage \in {part, "all"}

Idle == pc \in {"rest", "crashed"}

Init ==
    /\ pc = "rest"
    /\ stage \in Arguments
    /\ force = FALSE
    /\ run = 0
    /\ model = FALSE
    /\ gate \in BOOLEAN
    /\ disk = [k \in Files |-> NoFile]
    /\ others = FALSE
    /\ arrivals = 0
    /\ invalid = {}

Start(arg, f) ==
    /\ Idle
    /\ run < MaxRuns
    /\ run' = run + 1
    /\ stage' = arg
    /\ force' = f
    /\ pc' = First(StepsOf(arg))
    /\ UNCHANGED <<model, gate, disk, gpu, invalid>>

\* InvalidExperiment, which main catches and leaves on record. Nothing clears it.
Invalidate(files) ==
    /\ disk' = [files EXCEPT !["run_status"] = Result(FALSE)]
    /\ invalid' = invalid \union {run}
    /\ pc' = "rest"

\* An exception nobody catches.
Crash ==
    /\ pc' = "crashed"
    /\ UNCHANGED <<disk, invalid>>

----------------------------------------------------------------------------
\* The stages before the GPU

Download ==
    /\ pc = "download"
    /\ model' = TRUE
    /\ pc' = Advance
    /\ UNCHANGED <<call, gate, disk, gpu, invalid>>

Audit ==
    LET audit == IF Forced("audit") \/ ~Exists("audit") THEN Result(gate) ELSE disk["audit"]
        files == [disk EXCEPT !["audit"] = audit]
    IN  /\ pc = "audit"
        /\ model' = TRUE
        /\ IF audit.ok THEN /\ disk' = files
                            /\ pc' = Advance
                            /\ UNCHANGED invalid
                       ELSE Invalidate(files)
        /\ UNCHANGED <<call, gate, gpu>>

MustPack == Forced("pack") \/ ~Exists("sidecar") \/ ~Exists("packing")

\* The sidecar is replaced at once. Whether the encoder of this run is lossless is
\* not known before it is verified.
PackSidecar ==
    /\ pc = "pack"
    /\ MustPack
    /\ \E lossless \in BOOLEAN : disk' = [disk EXCEPT !["sidecar"] = Result(lossless)]
    /\ pc' = "packing"
    /\ UNCHANGED <<call, model, gate, gpu, invalid>>

RecordPacking ==
    /\ pc = "packing"
    /\ disk' = [disk EXCEPT !["packing"] = Result(TRUE)]
    /\ pc' = Advance
    /\ UNCHANGED <<call, model, gate, gpu, invalid>>

KeepSidecar ==
    /\ pc = "pack"
    /\ ~MustPack
    /\ pc' = IF stage = "pack" THEN "rest" ELSE "verify"
    /\ UNCHANGED <<call, model, gate, disk, gpu, invalid>>

Verify ==
    LET verification == IF Forced("verify") \/ ~Exists("verification")
                        THEN Result(disk["sidecar"].ok)
                        ELSE disk["verification"]
        files == [disk EXCEPT !["verification"] = verification]
    IN  /\ pc = "verify"
        /\ IF verification.ok THEN /\ disk' = files
                                   /\ pc' = Advance
                                   /\ UNCHANGED invalid
                              ELSE Invalidate(files)
        /\ UNCHANGED <<call, model, gate, gpu>>

----------------------------------------------------------------------------
\* _cuda

\* The environment is written before it is judged.
Capture(k) ==
    LET files == [disk EXCEPT ![k] = Result(~others)]
    IN  /\ pc = k
        /\ IF others THEN Invalidate(files)
                     ELSE /\ disk' = files
                          /\ pc' = Advance
                          /\ UNCHANGED invalid
        /\ UNCHANGED <<call, model, gate, gpu>>

CaptureBefore == Capture("before")
CaptureAfter == Capture("after")

\* Mutant: --force does not reach the measurements.
MeasureOnce(k) == ~Exists(k)

MustMeasure(k) == Forced("cuda") \/ ~Exists(k)

\* A program that finds wrong numbers writes its result and returns an error.
Measure(k) ==
    /\ pc = k
    /\ MustMeasure(k)
    /\ \E right \in BOOLEAN :
           /\ disk' = [disk EXCEPT ![k] = Result(right)]
           /\ pc' = IF right THEN Advance ELSE "crashed"
    /\ UNCHANGED <<call, model, gate, gpu, invalid>>

\* What an earlier run measured is read; but for v1, which only the reports read.
Reuse(k) ==
    /\ pc = k
    /\ ~MustMeasure(k)
    /\ IF k # "v1" /\ ~Parses(k) THEN Crash
       ELSE IF k = "bridge" /\ ~disk[k].ok THEN Invalidate(disk)
       ELSE pc' = Advance /\ UNCHANGED <<disk, invalid>>
    /\ UNCHANGED <<call, model, gate, gpu>>

Inputs == {"audit", "verification", "v0", "v1", "bridge", "after"}

TimingValid == disk["after"].ok /\ (Exists("before") => disk["before"].ok)

\* Mutant: the bridge is not looked at.
BridgeForgotten == TimingValid /\ disk["audit"].ok /\ disk["verification"].ok /\ disk["v1"].ok

\* The verdict of analyze_cuda. How fast the kernel is does not matter here.
Passes == TimingValid /\ disk["bridge"].ok /\ disk["audit"].ok
          /\ disk["verification"].ok /\ disk["v1"].ok

Reports ==
    /\ pc = "reports"
    /\ IF \A k \in Inputs : Parses(k)
       THEN /\ disk' = [disk EXCEPT !["analysis"] = Result(Passes)]
            /\ pc' = "rest"
            /\ UNCHANGED invalid
       ELSE Crash
    /\ UNCHANGED <<call, model, gate, gpu>>

----------------------------------------------------------------------------

\* Also an error that nobody catches and that leaves every file as it was.
Kill ==
    /\ ~Idle
    /\ pc' = "rest"
    /\ UNCHANGED <<call, model, gate, disk, gpu, invalid>>

\* The programs that measure write their results in place.
KillWriting ==
    /\ pc \in Measured
    /\ MustMeasure(pc)
    /\ disk' = [disk EXCEPT ![pc] = Torn]
    /\ pc' = "rest"
    /\ UNCHANGED <<call, model, gate, gpu, invalid>>

Arrive ==
    /\ ~others
    /\ arrivals < MaxArrivals
    /\ others' = TRUE
    /\ arrivals' = arrivals + 1
    /\ UNCHANGED <<pc, call, model, gate, disk, invalid>>

Leave ==
    /\ others
    /\ others' = FALSE
    /\ UNCHANGED <<pc, call, model, gate, disk, arrivals, invalid>>

Next ==
    \/ \E arg \in Arguments, f \in BOOLEAN : Start(arg, f)
    \/ Download \/ Audit \/ PackSidecar \/ RecordPacking \/ KeepSidecar \/ Verify
    \/ CaptureBefore \/ CaptureAfter \/ Reports
    \/ \E k \in Measured : Measure(k) \/ Reuse(k)
    \/ Kill \/ KillWriting \/ Arrive \/ Leave

Spec == Init /\ [][Next]_vars

----------------------------------------------------------------------------

Good(k) == Parses(k) /\ disk[k].ok

\* A verdict given by a forced run of all stages rests on nothing an earlier run has
\* left on the disk; and if it is a pass, the sidecar on the disk is lossless.
ForcedVerdictIsFresh ==
    Idle /\ force /\ stage = "all" /\ Exists("analysis") /\ disk["analysis"].run = run =>
        /\ \A k \in Inputs \union {"sidecar", "packing", "before"} : disk[k].run = run
        /\ disk["analysis"].ok => disk["sidecar"].ok

\* A forced run of all stages recovers from whatever killed runs left behind: only
\* numbers that are wrong in this very run make it stop with an error.
ForcedRunRecovers ==
    pc = "crashed" /\ force /\ stage = "all" =>
        \E k \in Measured : disk[k] = Result(FALSE)

\* "Gated": nothing is measured on the GPU unless the audit and the verification on
\* record passed and this very run found the GPU idle before it began.
MeasuredBehindGates ==
    [][\A k \in Measured : disk'[k] # disk[k] =>
           /\ Good("audit")
           /\ Good("verification")
           /\ disk["before"] = Result(TRUE)]_vars

\* A kernel or a bridge whose numbers are wrong is never part of a passing verdict,
\* whichever run measured them and whichever run gives the verdict.
WrongNumbersNeverPass ==
    [][disk'["analysis"] # disk["analysis"] /\ disk'["analysis"].ok =>
           \A k \in Measured : Good(k)]_vars

----------------------------------------------------------------------------
\* What is said of the experiment and does not hold.

\* "CUDA correctness/timing must run on an idle target" (runner.py): timings of a run
\* that was declared invalid, because the GPU turned out to be shared, are not part
\* of a passing verdict.
InvalidTimingsNeverPass ==
    [][disk'["analysis"] # disk["analysis"] /\ disk'["analysis"].ok =>
           disk["v1"].run \notin invalid]_vars
=============================================================================
