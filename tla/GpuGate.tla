------------------------------ MODULE GpuGate ------------------------------
(* The gate around everything that is timed (environment.py): the counters that   *)
(* the GPU's driver keeps for each client are sampled before and after, and the   *)
(* block is void if other processes took too much of the time in between.         *)
(*                                                                                *)
(* Time is counted in ticks, one per reading of a benchmark. Other processes come, *)
(* go and work when they like; one that comes is never one that has been sampled.  *)
EXTENDS Naturals, FiniteSets, FiniteSetsExt, Functions

CONSTANTS
    Visitors,       \* other processes
    Self,           \* the benchmark
    Child,          \* the process that it runs a model in
    MAX_UNITS,      \* bound: ticks that a visitor works before it leaves
    MAX_FOREIGN_SHARE   \* what others may take of a block: [part, of]

ASSUME GateAssumption ==
    /\ Self \notin Visitors /\ Child \notin Visitors /\ Self # Child
    /\ MAX_UNITS \in Nat
    /\ MAX_FOREIGN_SHARE.part \in Nat /\ MAX_FOREIGN_SHARE.of \in Nat \ {0}

VARIABLES
    usage,      \* the registered clients, and the ticks that each has worked
    window,     \* the last block: its first sample, and what came of it
    stayed      \* history: what each visitor has worked that was there throughout

gateVars == <<usage, window, stayed>>

Clients == Visitors \cup {Self, Child}

----------------------------------------------------------------------------
Gain(before, after, c) == IF after[c] > before[c] THEN after[c] - before[c] ELSE 0

\* Mutant: the benchmark itself is counted.
AllClients(before, after) == DOMAIN before \cap DOMAIN after

\* A process that is not in both samples is not counted.
ForeignClients(before, after) == (DOMAIN before \cap DOMAIN after) \ {Self}

\* Mutant: what the busiest of them took.
BusiestTicks(before, after) ==
    Max({0} \cup {Gain(before, after, c) : c \in ForeignClients(before, after)})

\* What others took of the window, all together.
ForeignTicks(before, after) ==
    SumFunction([c \in ForeignClients(before, after) |-> Gain(before, after, c)])

Over(foreign, ticks) == foreign * MAX_FOREIGN_SHARE.of > MAX_FOREIGN_SHARE.part * ticks

Contended == Over(ForeignTicks(window.before, usage), window.ticks)

----------------------------------------------------------------------------
NoSample == [c \in {} |-> 0]

\* A mapping with one more entry.
With(f, key, value) ==
    [k \in DOMAIN f \cup {key} |-> IF k = key THEN value ELSE f[k]]

GateInit ==
    /\ usage = [c \in {Self} |-> 0]
    /\ window = [open |-> FALSE, before |-> NoSample, ticks |-> 0, stolen |-> 0,
                 void |-> FALSE]
    /\ stayed = [v \in {} |-> 0]

\* The first sample.
OpenWindow ==
    /\ ~window.open
    /\ window' = [open |-> TRUE, before |-> usage, ticks |-> 0, stolen |-> 0,
                  void |-> FALSE]
    /\ stayed' = [v \in DOMAIN usage \cap Visitors |-> 0]

\* A tick of the window: the clients in `workers` get their share of the GPU.
TickFor(workers) ==
    /\ window.open /\ workers \subseteq DOMAIN usage
    /\ \A c \in workers \cap Visitors : usage[c] < MAX_UNITS
    /\ usage' = [c \in DOMAIN usage |-> IF c \in workers THEN usage[c] + 1 ELSE usage[c]]
    /\ stayed' = [v \in DOMAIN stayed |-> IF v \in workers THEN stayed[v] + 1 ELSE stayed[v]]
    /\ window' = [window EXCEPT !.ticks = @ + 1,
                                   !.stolen = @ + Cardinality(workers \cap Visitors)]

\* A tick of the benchmark, whose work another process may hold up.
Tick(worker) ==
    \E others \in {{}} \cup {{v} : v \in Visitors} : TickFor(others \cup {worker})

\* The second sample. A block that is voided raises GpuContentionError.
CloseWindow(void) ==
    /\ window.open /\ window.ticks > 0
    /\ window' = [window EXCEPT !.open = FALSE, !.before = NoSample, !.void = void]
    /\ UNCHANGED <<usage, stayed>>

----------------------------------------------------------------------------
\* A process opens its first Metal client: its counter is new. (External.)
Arrive(v) ==
    /\ v \notin DOMAIN usage \cup DOMAIN window.before
    /\ usage' = With(usage, v, 0)
    /\ UNCHANGED <<window, stayed>>

\* A process ends: its client leaves the registry with it. (External.)
Leave(v) ==
    /\ v \in DOMAIN usage
    /\ usage' = Restrict(usage, DOMAIN usage \ {v})
    /\ stayed' = IF window.open THEN Restrict(stayed, DOMAIN stayed \ {v}) ELSE stayed
    /\ UNCHANGED window

\* A process works between two blocks. (External.)
Work(v) ==
    /\ v \in DOMAIN usage /\ ~window.open
    /\ usage[v] < MAX_UNITS
    /\ usage' = [usage EXCEPT ![v] = @ + 1]
    /\ UNCHANGED <<window, stayed>>

Visit(v) == Arrive(v) \/ Leave(v) \/ Work(v)

----------------------------------------------------------------------------
\* A block is voided only if others did take more of its time than is allowed: never
\* for the benchmark's own work, its child's, or work from before the block.
VoidsDeserved == window.void => Over(window.stolen, window.ticks)

\* A block is kept only if the processes that were there from its first sample to its
\* last took no more than is allowed, all together. (One that comes or goes within the
\* block is in one sample only: what it takes goes unseen.)
ResidentsVoid ==
    ~window.open /\ window.ticks > 0
        /\ Over(SumFunction(stayed), window.ticks)
    => window.void
=============================================================================
