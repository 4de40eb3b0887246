-------------------------- MODULE Benchmarks_proofs --------------------------
(* What the benchmarks report was timed alone, paired, and on what it names, for  *)
(* any number of visitors, rounds, attempts, shapes, batches and variants.        *)
EXTENDS Benchmarks, Numbers

----------------------------------------------------------------------------
(* The gate. *)

\* Ticks are counted for clients; what is counted for a block is counted in it.
Counters == UNION {[C -> Nat] : C \in SUBSET Clients}

\* The types of the gate's variables.
GateTypeOK ==
    /\ usage \in Counters /\ IsFiniteSet(DOMAIN usage)
    /\ window \in [open : BOOLEAN, before : Counters, ticks : Nat, stolen : Nat, void : BOOLEAN]
    /\ stayed \in Counters /\ IsFiniteSet(DOMAIN stayed) /\ DOMAIN stayed \subseteq Visitors

\* The child is there only while it runs.
ChildGone == Child \in DOMAIN usage => step = "solo"

\* While a block is open, the history is of those that the gate will difference, and it
\* is what they gained.
Counted ==
    window.open =>
        /\ ForeignClients(window.before, usage) = DOMAIN stayed
        /\ \A v \in DOMAIN stayed : usage[v] = window.before[v] + stayed[v]

\* A block is judged by what its residents took.
Judged ==
    IF window.open THEN ~window.void
    ELSE /\ window.void => window.ticks > 0
         /\ window.ticks > 0 => (window.void <=> Over(SumFunction(stayed), window.ticks))

\* What the gate knows of those that were there throughout, and what they took is part of what was stolen.
GateInv ==
    /\ GateTypeOK /\ Counted /\ Judged
    /\ window.open => Child \notin DOMAIN window.before
    /\ SumFunction(stayed) <= window.stolen

\* A counter is a function of its clients.
LEMMA CounterIsFunction ==
    ASSUME NEW f \in Counters
    PROVE  /\ DOMAIN f \subseteq Clients /\ f \in [DOMAIN f -> Nat]
           /\ f = [c \in DOMAIN f |-> f[c]]
  BY DEF Counters

\* A function of some clients is a counter.
LEMMA CounterOf ==
    ASSUME NEW C, C \subseteq Clients, NEW f \in [C -> Nat]
    PROVE  f \in Counters
  BY DEF Counters

\* A counter can be added up.
LEMMA SumOfCounter ==
    ASSUME NEW f \in Counters, IsFiniteSet(DOMAIN f)
    PROVE  Summable(f, DOMAIN f) /\ SumFunction(f) \in Nat
  <1>1. Summable(f, DOMAIN f)
    BY CounterIsFunction DEF Summable
  <1>2. SumFunction(f) = SumFunctionOnSet(f, DOMAIN f)
    BY DEF SumFunction
  <1> QED
    BY <1>1, <1>2, SumLaws

\* What the gate differences is what the residents took.
LEMMA ForeignIsStayed ==
    ASSUME GateInv, window.open
    PROVE  ForeignTicks(window.before, usage) = SumFunction(stayed)
  <1>1. ForeignClients(window.before, usage) = DOMAIN stayed
    BY DEF GateInv, Counted
  <1>2. \A v \in DOMAIN stayed : Gain(window.before, usage, v) = stayed[v]
    <2> SUFFICES ASSUME NEW v \in DOMAIN stayed
                 PROVE  Gain(window.before, usage, v) = stayed[v]
      OBVIOUS
    <2>1. usage[v] = window.before[v] + stayed[v]
      BY DEF GateInv, Counted
    <2>2. v \in DOMAIN window.before
      BY <1>1 DEF ForeignClients
    <2>3. window.before[v] \in Nat /\ stayed[v] \in Nat
      BY <2>2, CounterIsFunction DEF GateInv, GateTypeOK
    <2> QED
      BY <2>1, <2>3 DEF Gain
  <1>3. [c \in DOMAIN stayed |-> Gain(window.before, usage, c)] = stayed
    BY <1>2, CounterIsFunction DEF GateInv, GateTypeOK
  <1> QED
    BY <1>1, <1>3 DEF ForeignTicks

----------------------------------------------------------------------------
\* The first sample: nothing has been taken yet. (The child may come with it.)
LEMMA Opens ==
    ASSUME GateInv, OpenWindow, Child \notin DOMAIN usage,
           usage' = usage \/ usage' = With(usage, Child, 0)
    PROVE  GateInv'
  <1> DEFINE residents == DOMAIN usage \cap Visitors
  <1>1. /\ window' = [open |-> TRUE, before |-> usage, ticks |-> 0, stolen |-> 0, void |-> FALSE]
        /\ stayed' = [v \in residents |-> 0]
    BY DEF OpenWindow
  <1>2. DOMAIN usage \subseteq Clients /\ usage \in [DOMAIN usage -> Nat] /\ IsFiniteSet(DOMAIN usage)
    BY CounterIsFunction DEF GateInv, GateTypeOK
  <1>3. /\ usage' \in Counters /\ IsFiniteSet(DOMAIN usage')
        /\ DOMAIN usage \subseteq DOMAIN usage' /\ DOMAIN usage' \subseteq DOMAIN usage \cup {Child}
        /\ \A c \in DOMAIN usage : usage'[c] = usage[c]
    <2>1. CASE usage' = usage
      BY <1>2, <2>1 DEF GateInv, GateTypeOK
    <2>2. CASE usage' = With(usage, Child, 0)
      <3>1. usage' = [c \in DOMAIN usage \cup {Child} |-> IF c = Child THEN 0 ELSE usage[c]]
        BY <2>2 DEF With
      <3>2. DOMAIN usage \cup {Child} \subseteq Clients
        BY <1>2 DEF Clients
      <3>3. usage' \in [DOMAIN usage \cup {Child} -> Nat]
        BY <1>2, <3>1
      <3>4. IsFiniteSet(DOMAIN usage \cup {Child})
        BY <1>2, FS_AddElement
      <3> QED
        BY <3>1, <3>2, <3>3, <3>4, CounterOf
    <2> QED
      BY <2>1, <2>2
  <1>4. IsFiniteSet(residents) /\ residents \subseteq Visitors /\ residents \subseteq Clients
    BY <1>2, FS_Subset DEF Clients
  <1>5. stayed' \in Counters /\ DOMAIN stayed' = residents
    <2>1. stayed' \in [residents -> Nat]
      BY <1>1
    <2> QED
      BY <1>4, <2>1, CounterOf
  <1>6. GateTypeOK'
    BY <1>1, <1>2, <1>3, <1>4, <1>5 DEF GateTypeOK, GateInv
  <1>7. ForeignClients(usage, usage') = residents
    BY <1>2, <1>3, GateAssumption DEF ForeignClients, Clients
  <1>8. Counted'
    BY <1>1, <1>2, <1>3, <1>5, <1>7 DEF Counted
  <1>9. Judged' /\ Child \notin DOMAIN window'.before
    BY <1>1 DEF Judged
  <1>10. SumFunction(stayed') = 0
    <2>1. SumFunction(stayed') = SumFunctionOnSet(stayed', residents)
      BY <1>5 DEF SumFunction
    <2>2. IsFiniteSet(residents) /\ \A v \in residents : stayed'[v] = 0
      BY <1>1, <1>4
    <2> QED
      BY <2>1, <2>2, SumOfZeros
  <1> QED
    BY <1>1, <1>6, <1>8, <1>9, <1>10 DEF GateInv
\* The clients that work in a tick: at most one of them is a visitor.
OneVisitor(workers) ==
    \/ workers \cap Visitors = {} /\ Cardinality(workers \cap Visitors) = 0
    \/ \E v \in Visitors : workers \cap Visitors = {v} /\ Cardinality(workers \cap Visitors) = 1

\* A tick adds to what the residents took no more than it adds to what was stolen.
LEMMA Ticks ==
    ASSUME GateInv, NEW workers, OneVisitor(workers), TickFor(workers)
    PROVE  GateInv'
  <1>1. /\ window.open
        /\ usage' = [c \in DOMAIN usage |-> IF c \in workers THEN usage[c] + 1 ELSE usage[c]]
        /\ stayed' = [v \in DOMAIN stayed |-> IF v \in workers THEN stayed[v] + 1 ELSE stayed[v]]
        /\ window' = [window EXCEPT !.ticks = @ + 1,
                                       !.stolen = @ + Cardinality(workers \cap Visitors)]
    BY DEF TickFor
  <1>2. /\ DOMAIN usage \subseteq Clients /\ \A c \in DOMAIN usage : usage[c] \in Nat
        /\ DOMAIN stayed \subseteq Clients /\ \A v \in DOMAIN stayed : stayed[v] \in Nat
    BY CounterIsFunction DEF GateInv, GateTypeOK
  <1>3. PICK n \in Nat : n = Cardinality(workers \cap Visitors)
    BY DEF OneVisitor
  <1>4. /\ usage' \in Counters /\ DOMAIN usage' = DOMAIN usage
        /\ stayed' \in Counters /\ DOMAIN stayed' = DOMAIN stayed
    <2>1. usage' \in [DOMAIN usage -> Nat] /\ stayed' \in [DOMAIN stayed -> Nat]
      BY <1>1, <1>2
    <2> QED
      BY <1>2, <2>1, CounterOf
  <1>5. /\ window' \in [open : BOOLEAN, before : Counters, ticks : Nat, stolen : Nat, void : BOOLEAN]
        /\ window'.open = window.open /\ window'.before = window.before
        /\ window'.void = window.void /\ window'.stolen = window.stolen + n
    <2>1. window' = [window EXCEPT !.ticks = @ + 1, !.stolen = @ + n]
      BY <1>1, <1>3
    <2>2. /\ window \in [open : BOOLEAN, before : Counters, ticks : Nat, stolen : Nat,
                         void : BOOLEAN]
          /\ window.ticks + 1 \in Nat /\ window.stolen + n \in Nat
      BY DEF GateInv, GateTypeOK
    <2> QED
      BY <2>1, <2>2
  <1>6. GateTypeOK'
    BY <1>4, <1>5 DEF GateInv, GateTypeOK
  <1>7. ForeignClients(window.before, usage) = DOMAIN stayed
    BY <1>1 DEF GateInv, Counted
  <1>8. Counted'
    <2>1. ForeignClients(window'.before, usage') = DOMAIN stayed'
      BY <1>4, <1>5, <1>7 DEF ForeignClients
    <2>2. ASSUME NEW v \in DOMAIN stayed'
          PROVE  usage'[v] = window'.before[v] + stayed'[v]
      <3>1. v \in DOMAIN stayed /\ v \in DOMAIN usage /\ v \in DOMAIN window.before
        BY <1>4, <1>7 DEF ForeignClients
      <3>2. usage[v] = window.before[v] + stayed[v]
        BY <1>1, <3>1 DEF GateInv, Counted
      <3>3. window.before[v] \in Nat
        BY <3>1, CounterIsFunction DEF GateInv, GateTypeOK
      <3> QED
        BY <1>1, <1>2, <1>5, <3>1, <3>2, <3>3
    <2> QED
      BY <2>1, <2>2 DEF Counted
  <1>9. SumFunction(stayed') <= SumFunction(stayed) + n
    <2>1. /\ Summable(stayed, DOMAIN stayed) /\ SumFunction(stayed) \in Nat
          /\ SumFunction(stayed) = SumFunctionOnSet(stayed, DOMAIN stayed)
          /\ SumFunction(stayed') = SumFunctionOnSet(stayed', DOMAIN stayed)
      BY <1>4, SumOfCounter DEF SumFunction, GateInv, GateTypeOK
    <2>2. DOMAIN stayed \subseteq Visitors
      BY DEF GateInv, GateTypeOK
    <2>3. CASE DOMAIN stayed \cap workers = {}
      <3>1. Agree(stayed, stayed', DOMAIN stayed)
        BY <1>1, <2>3 DEF Agree
      <3> QED
        BY <2>1, <3>1, SumCongruence
    <2>4. CASE DOMAIN stayed \cap workers # {}
      <3>1. PICK v \in DOMAIN stayed : v \in workers
        BY <2>4
      <3>2. workers \cap Visitors = {v} /\ n = 1
        BY <1>3, <2>2, <3>1 DEF OneVisitor
      <3>3. stayed'[v] = stayed[v] + 1 /\ Agree(stayed, stayed', DOMAIN stayed \ {v})
        BY <1>1, <2>2, <3>1, <3>2 DEF Agree
      <3>4. SumFunctionOnSet(stayed', DOMAIN stayed) = SumFunctionOnSet(stayed, DOMAIN stayed) + 1
        BY <2>1, <3>1, <3>3, SumOneMore
      <3> QED
        BY <2>1, <3>2, <3>4
    <2> QED
      BY <2>3, <2>4
  <1>10. SumFunction(stayed') <= window'.stolen
    <2>1. SumFunction(stayed) \in Nat /\ SumFunction(stayed') \in Nat /\ window.stolen \in Nat
      BY <1>6, SumOfCounter DEF GateInv, GateTypeOK
    <2> QED
      BY <1>5, <1>9, <2>1 DEF GateInv
  <1> QED
    BY <1>1, <1>5, <1>6, <1>8, <1>10 DEF GateInv, Judged

\* Every tick of a benchmark is one with at most one visitor in it.
LEMMA OneAtATime ==
    ASSUME NEW others \in {{}} \cup {{v} : v \in Visitors}
    PROVE  /\ OneVisitor(others)
           /\ OneVisitor(others \cup {Self}) /\ OneVisitor(others \cup {Child})
  <1>1. \/ others = {}
        \/ \E v \in Visitors : others = {v}
    OBVIOUS
  <1>2. /\ others \cap Visitors = others
        /\ (others \cup {Self}) \cap Visitors = others
        /\ (others \cup {Child}) \cap Visitors = others
    BY <1>1, GateAssumption
  <1>3. \/ others = {} /\ Cardinality(others) = 0
        \/ \E v \in Visitors : others = {v} /\ Cardinality(others) = 1
    BY <1>1, FS_EmptySet, FS_Singleton
  <1> QED
    BY <1>2, <1>3 DEF OneVisitor

\* The gate is right about the residents when it closes.
LEMMA Closes ==
    ASSUME GateInv, CloseWindow(Contended)
    PROVE  GateInv'
  <1>1. /\ window.open /\ window.ticks > 0
        /\ window' = [window EXCEPT !.open = FALSE, !.before = NoSample, !.void = Contended]
        /\ usage' = usage /\ stayed' = stayed
    BY DEF CloseWindow
  <1>2. Contended = Over(SumFunction(stayed), window.ticks)
    BY <1>1, ForeignIsStayed DEF Contended
  <1>3. NoSample \in Counters
    <2>1. {} \subseteq Clients /\ NoSample \in [{} -> Nat]
      BY DEF NoSample
    <2> QED
      BY <2>1, CounterOf
  <1>4. Contended \in BOOLEAN
    BY DEF Contended, Over
  <1>5. /\ window' \in [open : BOOLEAN, before : Counters, ticks : Nat, stolen : Nat, void : BOOLEAN]
        /\ ~window'.open /\ window'.void = Contended
        /\ window'.ticks = window.ticks /\ window'.stolen = window.stolen
    BY <1>1, <1>3, <1>4 DEF GateInv, GateTypeOK
  <1>6. Judged'
    BY <1>1, <1>2, <1>4, <1>5 DEF Judged
  <1> QED
    BY <1>1, <1>5, <1>6 DEF GateInv, GateTypeOK, Counted

\* A client leaves: one that was a resident is none any more.
Gone(c) ==
    /\ usage' = Restrict(usage, DOMAIN usage \ {c})
    /\ stayed' = IF window.open THEN Restrict(stayed, DOMAIN stayed \ {c}) ELSE stayed
    /\ UNCHANGED window

\* Whoever leaves takes his ticks with him, from the history too.
LEMMA Departs ==
    ASSUME GateInv, NEW c, Gone(c)
    PROVE  GateInv'
  <1>1. /\ usage' = [k \in DOMAIN usage \ {c} |-> usage[k]] /\ window' = window
        /\ IF window.open THEN stayed' = [k \in DOMAIN stayed \ {c} |-> stayed[k]]
                          ELSE stayed' = stayed
    BY DEF Gone, Restrict
  <1>2. /\ DOMAIN usage \subseteq Clients /\ \A k \in DOMAIN usage : usage[k] \in Nat
        /\ DOMAIN stayed \subseteq Clients /\ \A k \in DOMAIN stayed : stayed[k] \in Nat
    BY CounterIsFunction DEF GateInv, GateTypeOK
  <1>3. usage' \in Counters /\ DOMAIN usage' = DOMAIN usage \ {c} /\ IsFiniteSet(DOMAIN usage')
    <2>1. usage' \in [DOMAIN usage \ {c} -> Nat] /\ DOMAIN usage \ {c} \subseteq Clients
      BY <1>1, <1>2
    <2>2. IsFiniteSet(DOMAIN usage \ {c})
      BY FS_RemoveElement DEF GateInv, GateTypeOK
    <2> QED
      BY <1>1, <2>1, <2>2, CounterOf
  <1>4. CASE ~window.open
    BY <1>1, <1>3, <1>4 DEF GateInv, GateTypeOK, Counted, Judged
  <1>5. CASE window.open
    <2>1. stayed' = [k \in DOMAIN stayed \ {c} |-> stayed[k]]
      BY <1>1, <1>5
    <2>2. /\ stayed' \in Counters /\ DOMAIN stayed' = DOMAIN stayed \ {c}
          /\ IsFiniteSet(DOMAIN stayed')
      <3>1. stayed' \in [DOMAIN stayed \ {c} -> Nat] /\ DOMAIN stayed \ {c} \subseteq Clients
        BY <1>2, <2>1
      <3>2. IsFiniteSet(DOMAIN stayed \ {c})
        BY FS_RemoveElement DEF GateInv, GateTypeOK
      <3> QED
        BY <2>1, <3>1, <3>2, CounterOf
    <2>3. GateTypeOK'
      BY <1>1, <1>3, <2>2 DEF GateInv, GateTypeOK
    <2>4. Counted'
      <3>1. /\ ForeignClients(window.before, usage) = DOMAIN stayed
            /\ \A v \in DOMAIN stayed : usage[v] = window.before[v] + stayed[v]
        BY <1>5 DEF GateInv, Counted
      <3>2. ForeignClients(window.before, usage') = DOMAIN stayed \ {c}
        BY <1>3, <3>1 DEF ForeignClients
      <3>3. DOMAIN stayed \subseteq DOMAIN usage
        BY <3>1 DEF ForeignClients
      <3> QED
        BY <1>1, <2>1, <2>2, <3>1, <3>2, <3>3 DEF Counted
    <2>5. SumFunction(stayed') <= SumFunction(stayed)
      <3>1. /\ Summable(stayed, DOMAIN stayed)
            /\ SumFunction(stayed) = SumFunctionOnSet(stayed, DOMAIN stayed)
            /\ SumFunction(stayed') = SumFunctionOnSet(stayed', DOMAIN stayed \ {c})
        BY <2>2, SumOfCounter DEF SumFunction, GateInv, GateTypeOK
      <3>2. /\ Summable(stayed, DOMAIN stayed \ {c})
            /\ SumFunctionOnSet(stayed, DOMAIN stayed \ {c}) <= SumFunctionOnSet(stayed, DOMAIN stayed)
        BY <3>1, SumWithout
      <3>3. Agree(stayed, stayed', DOMAIN stayed \ {c})
        BY <2>1 DEF Agree
      <3>4. SumFunctionOnSet(stayed, DOMAIN stayed \ {c})
                = SumFunctionOnSet(stayed', DOMAIN stayed \ {c})
        BY <3>2, <3>3, SumCongruence
      <3> QED
        BY <3>1, <3>2, <3>4
    <2>6. SumFunction(stayed') <= window'.stolen
      <3>1. SumFunction(stayed) \in Nat /\ SumFunction(stayed') \in Nat /\ window.stolen \in Nat
        BY <2>3, SumOfCounter DEF GateInv, GateTypeOK
      <3> QED
        BY <1>1, <2>5, <3>1 DEF GateInv
    <2> QED
      BY <1>1, <1>5, <2>3, <2>4, <2>6 DEF GateInv, Judged
  <1> QED
    BY <1>4, <1>5

\* The child of a solo run was not there at the first sample, and is no resident.
LEMMA ChildLeaves ==
    ASSUME GateInv, usage' = Restrict(usage, DOMAIN usage \ {Child}), UNCHANGED <<window, stayed>>
    PROVE  GateInv'
  <1>1. Child \notin DOMAIN stayed /\ stayed = [k \in DOMAIN stayed |-> stayed[k]]
    BY GateAssumption, CounterIsFunction DEF GateInv, GateTypeOK
  <1>2. Restrict(stayed, DOMAIN stayed \ {Child}) = stayed
    <2>1. DOMAIN stayed \ {Child} = DOMAIN stayed
      BY <1>1
    <2> QED
      BY <1>1, <2>1 DEF Restrict
  <1>3. Gone(Child)
    BY <1>2 DEF Gone
  <1> QED
    BY <1>3, Departs

\* Visitors come and go, and work between the blocks.
LEMMA Visits ==
    ASSUME GateInv, NEW v \in Visitors, Visit(v)
    PROVE  GateInv'
  <1>1. CASE Arrive(v)
    <2>1. /\ v \notin DOMAIN usage /\ v \notin DOMAIN window.before
          /\ usage' = [c \in DOMAIN usage \cup {v} |-> IF c = v THEN 0 ELSE usage[c]]
          /\ window' = window /\ stayed' = stayed
      BY <1>1 DEF Arrive, With
    <2>2. /\ DOMAIN usage \subseteq Clients /\ \A k \in DOMAIN usage : usage[k] \in Nat
          /\ IsFiniteSet(DOMAIN usage)
      BY CounterIsFunction DEF GateInv, GateTypeOK
    <2>3. usage' \in Counters /\ IsFiniteSet(DOMAIN usage')
      <3>1. usage' \in [DOMAIN usage \cup {v} -> Nat] /\ DOMAIN usage \cup {v} \subseteq Clients
        BY <2>1, <2>2 DEF Clients
      <3>2. IsFiniteSet(DOMAIN usage \cup {v})
        BY <2>2, FS_AddElement
      <3> QED
        BY <2>1, <3>1, <3>2, CounterOf
    <2>4. GateTypeOK'
      BY <2>1, <2>3 DEF GateInv, GateTypeOK
    <2>5. Counted'
      <3> SUFFICES ASSUME window.open
                   PROVE  /\ ForeignClients(window.before, usage') = DOMAIN stayed
                          /\ \A k \in DOMAIN stayed : usage'[k] = window.before[k] + stayed[k]
        BY <2>1 DEF Counted
      <3>1. /\ ForeignClients(window.before, usage) = DOMAIN stayed
            /\ \A k \in DOMAIN stayed : usage[k] = window.before[k] + stayed[k]
        BY DEF GateInv, Counted
      <3>2. ForeignClients(window.before, usage') = DOMAIN stayed
        BY <2>1, <3>1 DEF ForeignClients
      <3>3. \A k \in DOMAIN stayed : k \in DOMAIN usage
        BY <3>1 DEF ForeignClients
      <3> QED
        BY <2>1, <3>1, <3>2, <3>3
    <2> QED
      BY <2>1, <2>4, <2>5 DEF GateInv, Judged
  <1>2. CASE Leave(v)
    <2>1. Gone(v)
      BY <1>2 DEF Leave, Gone
    <2> QED
      BY <2>1, Departs
  <1>3. CASE Work(v)
    <2>1. /\ v \in DOMAIN usage /\ ~window.open
          /\ usage' = [usage EXCEPT ![v] = @ + 1] /\ window' = window /\ stayed' = stayed
      BY <1>3 DEF Work
    <2>2. usage' \in Counters /\ DOMAIN usage' = DOMAIN usage
      <3>1. DOMAIN usage \subseteq Clients /\ \A k \in DOMAIN usage : usage[k] \in Nat
        BY CounterIsFunction DEF GateInv, GateTypeOK
      <3>2. usage' \in [DOMAIN usage -> Nat]
        BY <2>1, <3>1, CounterIsFunction DEF GateInv, GateTypeOK
      <3> QED
        BY <2>1, <3>1, <3>2, CounterOf
    <2> QED
      BY <2>1, <2>2 DEF GateInv, GateTypeOK, Counted, Judged
  <1> QED
    BY <1>1, <1>2, <1>3 DEF Visit

\* What a program does to the gate.
GateStep ==
    \/ UNCHANGED gateVars
    \/ OpenWindow /\ Child \notin DOMAIN usage /\ (usage' = usage \/ usage' = With(usage, Child, 0))
    \/ \E others \in {{}} \cup {{v} : v \in Visitors} :
           TickFor(others) \/ TickFor(others \cup {Self}) \/ TickFor(others \cup {Child})
    \/ CloseWindow(Contended)
    \/ usage' = Restrict(usage, DOMAIN usage \ {Child}) /\ UNCHANGED <<window, stayed>>
    \/ \E v \in Visitors : Visit(v)

\* A step that leaves the gate alone, or is one of its own, keeps what it knows.
LEMMA GateHolds ==
    ASSUME GateInv, GateStep
    PROVE  GateInv'
  <1>1. CASE UNCHANGED gateVars
    BY <1>1 DEF gateVars, GateInv, GateTypeOK, Counted, Judged
  <1>2. CASE OpenWindow /\ Child \notin DOMAIN usage
             /\ (usage' = usage \/ usage' = With(usage, Child, 0))
    BY <1>2, Opens
  <1>3. ASSUME NEW others \in {{}} \cup {{v} : v \in Visitors},
               TickFor(others) \/ TickFor(others \cup {Self}) \/ TickFor(others \cup {Child})
        PROVE  GateInv'
    BY <1>3, Ticks, OneAtATime
  <1>4. CASE CloseWindow(Contended)
    BY <1>4, Closes
  <1>5. CASE usage' = Restrict(usage, DOMAIN usage \ {Child}) /\ UNCHANGED <<window, stayed>>
    BY <1>5, ChildLeaves
  <1>6. CASE \E v \in Visitors : Visit(v)
    BY <1>6, Visits
  <1> QED
    BY <1>1, <1>2, <1>3, <1>4, <1>5, <1>6 DEF GateStep
\* The window opens where no child runs.
LEMMA OpensAlone ==
    ASSUME ChildGone, step # "solo", OpenWindow, UNCHANGED usage \/ usage' = With(usage, Child, 0)
    PROVE  GateStep
  BY DEF ChildGone, GateStep

\* A tick moves no client.
LEMMA TickIsGateStep ==
    ASSUME Tick(Self) \/ Tick(Child)
           \/ \E others \in {{}} \cup {{v} : v \in Visitors} : TickFor(others)
    PROVE  GateStep /\ DOMAIN usage' = DOMAIN usage
  <1>1. PICK others \in {{}} \cup {{v} : v \in Visitors} :
            TickFor(others) \/ TickFor(others \cup {Self}) \/ TickFor(others \cup {Child})
    BY DEF Tick
  <1>2. DOMAIN usage' = DOMAIN usage
    BY <1>1 DEF TickFor
  <1> QED
    BY <1>1, <1>2 DEF GateStep

\* A block closes on what the gate says of it.
LEMMA ClosesAsContended ==
    ASSUME \/ CloseWindow(Contended)
           \/ Contended /\ CloseWindow(TRUE)
           \/ ~Contended /\ CloseWindow(FALSE)
    PROVE  GateStep /\ usage' = usage
  <1>1. Contended \in BOOLEAN
    BY DEF Contended, Over
  <1>2. CASE CloseWindow(Contended)
    BY <1>2 DEF GateStep, CloseWindow
  <1>3. CASE Contended /\ CloseWindow(TRUE)
    <2>1. Contended = TRUE
      BY <1>1, <1>3
    <2> QED
      BY <1>3, <2>1 DEF GateStep, CloseWindow
  <1>4. CASE ~Contended /\ CloseWindow(FALSE)
    <2>1. Contended = FALSE
      BY <1>1, <1>4
    <2> QED
      BY <1>4, <2>1 DEF GateStep, CloseWindow
  <1> QED
    BY <1>2, <1>3, <1>4

\* Whatever the programs do, they do to the gate what it is made for.
LEMMA SoloAndGate ==
    ASSUME ChildGone, SoloNext
    PROVE  GateStep /\ ChildGone'
  <1>1. CASE StartArm
    <2>1. step # "solo" /\ step' = "solo" /\ OpenWindow /\ usage' = With(usage, Child, 0)
      BY <1>1 DEF StartArm, At, Go
    <2> QED
      BY <2>1, OpensAlone DEF ChildGone
  <1>2. CASE SoloTrial
    <2>1. step = "solo" /\ step' = step /\ Tick(Child)
      BY <1>2 DEF SoloTrial, At, harnessVars
    <2> QED
      BY <2>1, TickIsGateStep DEF ChildGone
  <1>3. CASE SoloExits
    <2>1. usage' = Restrict(usage, DOMAIN usage \ {Child}) /\ UNCHANGED <<window, stayed>>
      BY <1>3 DEF SoloExits
    <2>2. Child \notin DOMAIN usage'
      BY <2>1 DEF Restrict
    <2> QED
      BY <2>1, <2>2 DEF ChildGone, GateStep
  <1>4. CASE KeepArm \/ VoidRound \/ GiveUp
    <2>1. step = "exited" /\ GateStep /\ usage' = usage
      BY <1>4, ClosesAsContended DEF KeepArm, VoidRound, GiveUp, At
    <2> QED
      BY <2>1 DEF ChildGone
  <1>5. CASE Collect \/ ReportModels
    <2>1. step = "start" /\ UNCHANGED gateVars
      BY <1>5 DEF Collect, ReportModels, At
    <2> QED
      BY <2>1 DEF ChildGone, GateStep, gateVars
  <1>6. CASE Poll
    <2>1. step = "wait" /\ OpenWindow /\ usage' = usage
      BY <1>6 DEF Poll, At
    <2> QED
      BY <2>1, OpensAlone DEF ChildGone
  <1>7. CASE Sleep
    <2>1. step = "wait" /\ GateStep /\ DOMAIN usage' = DOMAIN usage
      BY <1>7, TickIsGateStep DEF Sleep, At
    <2> QED
      BY <2>1 DEF ChildGone
  <1>8. CASE PollEnds
    <2>1. step = "wait" /\ GateStep /\ usage' = usage
      BY <1>8, ClosesAsContended DEF PollEnds, At
    <2> QED
      BY <2>1 DEF ChildGone
  <1>9. CASE StartBlock
    <2>1. step = "start" /\ usage' = usage /\ (OpenWindow \/ UNCHANGED <<window, stayed>>)
      BY <1>9 DEF StartBlock, At
    <2>2. GateStep
      BY <2>1, OpensAlone DEF GateStep, gateVars
    <2> QED
      BY <2>1, <2>2 DEF ChildGone
  <1>10. CASE PairedTrial
    <2>1. step = "timing" /\ GateStep /\ DOMAIN usage' = DOMAIN usage
      BY <1>10, TickIsGateStep DEF PairedTrial, At
    <2> QED
      BY <2>1 DEF ChildGone
  <1>11. CASE EndBlock
    <2>1. step = "timing" /\ usage' = usage /\ (CloseWindow(Contended) \/ UNCHANGED <<window, stayed>>)
      BY <1>11 DEF EndBlock, At
    <2>2. GateStep
      BY <2>1 DEF GateStep, gateVars
    <2> QED
      BY <2>1, <2>2 DEF ChildGone
  <1> QED
    BY <1>1, <1>2, <1>3, <1>4, <1>5, <1>6, <1>7, <1>8, <1>9, <1>10, <1>11 DEF SoloNext

\* The steps of bench_in_situ, as the gate sees them.
LEMMA SituAndGate ==
    ASSUME ChildGone, SituNext
    PROVE  GateStep /\ ChildGone'
  <1>1. CASE LoadModel \/ Warm \/ CountDiffers
    <2>1. step # "solo" /\ UNCHANGED gateVars
      BY <1>1 DEF LoadModel, Warm, CountDiffers, At
    <2> QED
      BY <2>1 DEF ChildGone, GateStep, gateVars
  <1>2. CASE Compile
    <2>1. step = "compile" /\ OpenWindow /\ usage' = usage
      BY <1>2 DEF Compile, At
    <2> QED
      BY <2>1, OpensAlone DEF ChildGone
  <1>3. CASE TakeReference \/ TakeVariant
    <2>1. step # "solo" /\ Tick(Self)
      BY <1>3 DEF TakeReference, TakeVariant, At
    <2> QED
      BY <2>1, TickIsGateStep DEF ChildGone
  <1>4. CASE Summarise
    <2>1. step = "reference" /\ CloseWindow(Contended)
      BY <1>4 DEF Summarise, At
    <2> QED
      BY <2>1, ClosesAsContended DEF ChildGone
  <1> QED
    BY <1>1, <1>2, <1>3, <1>4 DEF SituNext

\* The steps of the two sweeps, as the gate sees them.
LEMMA SweepAndGate ==
    ASSUME ChildGone, SweepNext
    PROVE  GateStep /\ ChildGone'
  <1>1. CASE StartSweep \/ StartCase \/ WarmArms
    <2>1. \/ step # "solo" /\ OpenWindow /\ usage' = usage
          \/ step # "solo" /\ UNCHANGED gateVars
      BY <1>1 DEF StartSweep, StartCase, WarmArms, At
    <2> QED
      BY <2>1, OpensAlone DEF ChildGone, GateStep, gateVars
  <1>2. CASE CheckVariant \/ CallGather \/ PlanInner \/ EndSweep
    <2>1. step # "solo" /\ UNCHANGED gateVars
      BY <1>2 DEF CheckVariant, CallGather, PlanInner, EndSweep, At
    <2> QED
      BY <2>1 DEF ChildGone, GateStep, gateVars
  <1>3. CASE CompileVariant \/ TimePair \/ TimeRound
    <2>1. step # "solo" /\ Tick(Self)
      BY <1>3 DEF CompileVariant, TimePair, TimeRound, At
    <2> QED
      BY <2>1, TickIsGateStep DEF ChildGone
  <1>4. CASE EndJit \/ EndCase
    <2>1. /\ step # "solo"
          /\ CloseWindow(Contended) \/ UNCHANGED gateVars
      BY <1>4 DEF EndJit, EndCase, CloseBlock, At
    <2>2. CASE CloseWindow(Contended)
      BY <2>1, <2>2, ClosesAsContended DEF ChildGone
    <2>3. CASE UNCHANGED gateVars
      BY <2>1, <2>3 DEF ChildGone, GateStep, gateVars
    <2> QED
      BY <2>1, <2>2, <2>3
  <1> QED
    BY <1>1, <1>2, <1>3, <1>4 DEF SweepNext

\* Every step keeps what the gate knows.
LEMMA GateAlways ==
    ASSUME GateInv, ChildGone, [Next]_vars
    PROVE  GateInv' /\ ChildGone'
  <1>1. GateStep /\ ChildGone'
    <2>1. CASE SoloNext
      BY <2>1, SoloAndGate
    <2>2. CASE SituNext
      BY <2>2, SituAndGate
    <2>3. CASE SweepNext
      BY <2>3, SweepAndGate
    <2>4. CASE Others
      <3>1. PICK v \in Visitors : Visit(v)
        BY <2>4 DEF Others
      <3>2. Child \in DOMAIN usage' => Child \in DOMAIN usage
        <4>1. v # Child
          BY GateAssumption
        <4> QED
          BY <3>1, <4>1 DEF Visit, Arrive, Leave, Work, With, Restrict
      <3>3. step' = step
        BY <2>4 DEF Others, harnessVars
      <3> QED
        BY <3>1, <3>2, <3>3 DEF GateStep, ChildGone
    <2>5. CASE UNCHANGED vars
      BY <2>5 DEF vars, gateVars, harnessVars, GateStep, ChildGone
    <2> QED
      BY <2>1, <2>2, <2>3, <2>4, <2>5 DEF Next, Run
  <1> QED
    BY <1>1, GateHolds

\* Before the first block the gate knows nothing.
LEMMA GateInitially == Init => GateInv /\ ChildGone
  <1> SUFFICES ASSUME GateInit PROVE GateInv /\ ChildGone
    BY DEF Init
  <1> USE DEF GateInit
  <1>1. usage \in [{Self} -> Nat] /\ {Self} \subseteq Clients
    BY DEF Clients
  <1>2. stayed \in [{} -> Nat] /\ {} \subseteq Clients /\ NoSample \in [{} -> Nat]
    BY DEF NoSample
  <1>3. GateTypeOK
    <2>1. usage \in Counters /\ stayed \in Counters /\ NoSample \in Counters
      BY <1>1, <1>2, CounterOf
    <2>2. IsFiniteSet({Self}) /\ IsFiniteSet({})
      BY FS_Singleton, FS_EmptySet
    <2> QED
      BY <2>1, <2>2 DEF GateTypeOK
  <1>4. SumFunction(stayed) = 0
    <2>1. DOMAIN stayed = {} /\ SumFunction(stayed) = SumFunctionOnSet(stayed, {})
      BY DEF SumFunction
    <2>2. Summable(stayed, {})
      BY FS_EmptySet DEF Summable
    <2> QED
      BY <2>1, <2>2, SumLaws
  <1> QED
    BY <1>3, <1>4, GateAssumption DEF GateInv, Counted, Judged, ChildGone
----------------------------------------------------------------------------
(* Whole models. *)

\* A result of a round, and the attempt it is of.
Results == [round : Nat, attempt : Nat]

\* What is kept is in order of the rounds, and the same for both arms.
Kept ==
    /\ collected \in [Arms -> Seq(Results)]
    /\ \A a \in Arms : /\ Len(collected[a]) = round
                       /\ \A i \in 1..round : collected[a][i].round = i - 1
    /\ collected["candidate"] = collected["reference"]

\* An attempt at a round runs its arms in their order; one that is voided leaves nothing.
InTurn ==
    /\ DOMAIN produced \in {{}, {Order(round)[1]}, Arms}
    /\ program = "isolated" =>
           \A a \in DOMAIN produced : produced[a] = [round |-> round, attempt |-> attempt]
    /\ step \in {"solo", "exited"} => DOMAIN produced # Arms
    /\ step = "wait" => DOMAIN produced = {}
    /\ step = "timing" => program = "paired" /\ DOMAIN produced = Arms

\* What the rounds have kept, and where the current one is.
SoloInv == round \in Nat /\ attempt \in Nat /\ Kept /\ InTurn

\* The place of the next arm tells which have run.
LEMMA TurnIs ==
    ASSUME InTurn, round \in Nat
    PROVE  /\ Order(round) \in {<<"candidate", "reference">>, <<"reference", "candidate">>}
           /\ Turn \in 1..3
           /\ Turn = 1 <=> DOMAIN produced = {}
           /\ Turn = 2 <=> DOMAIN produced = {Order(round)[1]}
           /\ Turn = 3 <=> DOMAIN produced = Arms
  <1>1. Order(round) \in {<<"candidate", "reference">>, <<"reference", "candidate">>}
    BY DEF Order
  <1>2. Cardinality({}) = 0 /\ \A x : Cardinality({x}) = 1
    BY FS_EmptySet, FS_Singleton
  <1>3. Cardinality(Arms) = 2
    <2>1. Arms = {"candidate"} \cup {"reference"} /\ "reference" \notin {"candidate"}
      BY DEF Arms
    <2>2. IsFiniteSet({"candidate"}) /\ Cardinality({"candidate"}) = 1
      BY FS_Singleton
    <2> QED
      BY <2>1, <2>2, FS_AddElement
  <1>4. /\ DOMAIN produced \in {{}, {Order(round)[1]}, Arms}
        /\ {} # {Order(round)[1]} /\ {} # Arms /\ {Order(round)[1]} # Arms
    <2>1. "candidate" \in Arms /\ "reference" \in Arms /\ "candidate" # "reference"
      BY DEF Arms
    <2> QED
      BY <2>1 DEF InTurn
  <1>5. CASE DOMAIN produced = {}
    BY <1>1, <1>2, <1>4, <1>5 DEF Turn
  <1>6. CASE DOMAIN produced = {Order(round)[1]}
    <2>1. Turn = 2
      <3>1. Cardinality({Order(round)[1]}) = 1
        BY <1>2, Zenon
      <3> QED
        BY <1>6, <3>1 DEF Turn
    <2> QED
      BY <1>1, <1>4, <1>6, <2>1
  <1>7. CASE DOMAIN produced = Arms
    <2>1. Turn = 3
      BY <1>3, <1>7 DEF Turn
    <2> QED
      BY <1>1, <1>4, <1>7, <2>1
  <1> QED
    BY <1>4, <1>5, <1>6, <1>7

\* One more round is kept.
LEMMA KeepsOneMore ==
    ASSUME SoloInv, NEW result \in Results, result.round = round,
           collected' = [a \in Arms |-> Append(collected[a], result)],
           round' = round + 1
    PROVE  Kept'
  <1>1. ASSUME NEW a \in Arms
        PROVE  /\ collected'[a] \in Seq(Results) /\ Len(collected'[a]) = round'
               /\ \A i \in 1..round' : collected'[a][i].round = i - 1
    <2>1. PICK s \in Seq(Results) : s = collected[a]
      BY DEF SoloInv, Kept
    <2>2. Len(s) = round /\ round \in Nat /\ \A i \in 1..round : s[i].round = i - 1
      BY <2>1 DEF SoloInv, Kept
    <2>3. collected'[a] = Append(s, result)
      BY <2>1
    <2>4. /\ Append(s, result) \in Seq(Results) /\ Len(Append(s, result)) = round + 1
          /\ \A i \in 1..round : Append(s, result)[i] = s[i]
          /\ Append(s, result)[round + 1] = result
      BY <2>2
    <2>5. \A i \in 1..round + 1 : i \in 1..round \/ i = round + 1
      BY <2>2
    <2>6. \A i \in 1..round + 1 : Append(s, result)[i].round = i - 1
      <3> SUFFICES ASSUME NEW i \in 1..round + 1 PROVE Append(s, result)[i].round = i - 1
        OBVIOUS
      <3>1. CASE i \in 1..round
        BY <2>2, <2>4, <3>1
      <3>2. CASE i = round + 1
        BY <2>2, <2>4, <3>2
      <3> QED
        BY <2>5, <3>1, <3>2
    <2> QED
      BY <2>3, <2>4, <2>6
  <1>2. collected'["candidate"] = collected'["reference"]
    BY DEF Arms, SoloInv, Kept
  <1> QED
    BY <1>1, <1>2 DEF Kept

\* No round has begun.
LEMMA SoloInitially == Init => SoloInv
  <1> SUFFICES ASSUME Init PROVE SoloInv
    OBVIOUS
  <1>1. /\ round = 0 /\ attempt = 1 /\ produced = [a \in {} |-> 0]
        /\ collected = [a \in Arms |-> <<>>] /\ step = "start"
    BY DEF Init, SoloInit, HarnessInit
  <1>2. <<>> \in Seq(Results) /\ Len(<<>>) = 0
    OBVIOUS
  <1>3. Kept
    BY <1>1, <1>2 DEF Kept, Arms
  <1> QED
    BY <1>1, <1>3 DEF SoloInv, InTurn

\* Every step keeps the rounds paired.
LEMMA SoloAlways ==
    ASSUME SoloInv, [Next]_vars
    PROVE  SoloInv'
  <1> DEFINE Same == UNCHANGED <<round, attempt, collected>>
  <1>1. round \in Nat /\ attempt \in Nat /\ Kept /\ InTurn
    BY DEF SoloInv
  <1>2. \/ UNCHANGED soloVars /\ UNCHANGED <<program, step>>
        \/ UNCHANGED soloVars /\ program' = program
           /\ step' \notin {"solo", "exited", "wait", "timing"}
        => SoloInv'
    BY <1>1 DEF soloVars, SoloInv, Kept, InTurn
  <1>3. CASE UNCHANGED vars \/ Others
    BY <1>2, <1>3 DEF vars, harnessVars, Others
  <1>4. CASE SituNext /\ UNCHANGED <<soloVars, sweepVars>>
    <2>1. program' = program /\ step' \notin {"solo", "exited", "wait", "timing"}
      BY <1>4 DEF SituNext, LoadModel, Warm, Compile, TakeReference, TakeVariant, CountDiffers,
         Summarise, At, Go, End
    <2> QED
      BY <1>2, <1>4, <2>1
  <1>5. CASE SweepNext /\ UNCHANGED <<soloVars, situVars>>
    <2>1. program' = program /\ step' \notin {"solo", "exited", "wait", "timing"}
      BY <1>5 DEF SweepNext, StartSweep, CompileVariant, EndJit, StartCase, CheckVariant, CallGather,
         WarmArms, PlanInner, TimePair, TimeRound, EndCase, EndSweep, CloseBlock, At, Go, End,
         harnessVars
    <2> QED
      BY <1>2, <1>5, <2>1
  <1>6. CASE StartArm
    <2>1. UNCHANGED soloVars /\ program' = program /\ step' = "solo" /\ Turn <= 2
      BY <1>6 DEF StartArm, Go
    <2>2. DOMAIN produced # Arms
      BY <1>1, <2>1, TurnIs
    <2> QED
      BY <1>1, <2>1, <2>2 DEF soloVars, SoloInv, Kept, InTurn
  <1>7. CASE SoloTrial \/ Poll \/ Sleep
    BY <1>2, <1>7 DEF SoloTrial, Poll, Sleep, harnessVars
  <1>8. CASE SoloExits
    <2>1. /\ UNCHANGED soloVars /\ program' = program /\ step = "solo"
          /\ step' \in {"exited", "ended"}
      BY <1>8 DEF SoloExits, At, Go, End
    <2> QED
      BY <1>1, <2>1 DEF soloVars, SoloInv, Kept, InTurn
  <1>9. CASE KeepArm
    <2>1. /\ UNCHANGED <<round, attempt, collected>> /\ program' = program
          /\ step = "exited" /\ step' = "start"
          /\ produced' = With(produced, Order(round)[Turn], [round |-> round, attempt |-> attempt])
      BY <1>9 DEF KeepArm, At, Go
    <2>2. \/ DOMAIN produced = {} /\ Turn = 1
          \/ DOMAIN produced = {Order(round)[1]} /\ Turn = 2
      BY <1>1, <2>1, TurnIs DEF InTurn
    <2>3. /\ DOMAIN produced' = DOMAIN produced \cup {Order(round)[Turn]}
          /\ produced'[Order(round)[Turn]] = [round |-> round, attempt |-> attempt]
          /\ \A a \in DOMAIN produced' :
                a # Order(round)[Turn] => a \in DOMAIN produced /\ produced'[a] = produced[a]
      BY <2>1 DEF With
    <2>4. DOMAIN produced' = {Order(round)[1]} \/ DOMAIN produced' = Arms
      BY <1>1, <2>2, <2>3, TurnIs DEF Arms
    <2> QED
      BY <1>1, <2>1, <2>3, <2>4 DEF SoloInv, Kept, InTurn
  <1>10. CASE VoidRound
    <2>1. /\ UNCHANGED <<round, attempt, collected>> /\ program' = program
          /\ step' = "wait" /\ DOMAIN produced' = {}
      BY <1>10 DEF VoidRound, Go
    <2>2. {} # Arms
      BY DEF Arms
    <2> QED
      BY <1>1, <2>1, <2>2 DEF SoloInv, Kept, InTurn
  <1>11. CASE GiveUp \/ ReportModels
    <2>1. UNCHANGED soloVars /\ program' = program /\ step' = "ended"
      BY <1>11 DEF GiveUp, ReportModels, End
    <2> QED
      BY <1>2, <2>1
  <1>12. CASE Collect
    <2>1. /\ program = "isolated" /\ Turn = 3 /\ program' = program
          /\ step = "start" /\ step' = step
          /\ collected' = [a \in Arms |-> Append(collected[a], produced[a])]
          /\ round' = round + 1 /\ attempt' = 1 /\ DOMAIN produced' = {}
      BY <1>12 DEF Collect, At
    <2>2. PICK result \in Results : result = [round |-> round, attempt |-> attempt]
      BY <1>1 DEF Results
    <2>3. \A a \in Arms : produced[a] = result
      BY <1>1, <2>1, <2>2, TurnIs DEF InTurn
    <2>4. collected' = [a \in Arms |-> Append(collected[a], result)]
      BY <2>1, <2>3
    <2>5. Kept'
      BY <2>1, <2>2, <2>4, KeepsOneMore
    <2> QED
      BY <1>1, <2>1, <2>5 DEF SoloInv, InTurn
  <1>13. CASE PollEnds
    <2>1. /\ UNCHANGED <<round, produced, collected>> /\ program' = program
          /\ step = "wait" /\ attempt' \in Nat /\ step' \in {"wait", "start"}
      BY <1>1, <1>13 DEF PollEnds, At
    <2> QED
      BY <1>1, <2>1 DEF SoloInv, Kept, InTurn
  <1>14. CASE StartBlock
    <2>1. /\ UNCHANGED soloVars /\ program = "paired" /\ program' = program
          /\ Turn = 3 /\ step' \in {"timing", "ended"}
      BY <1>14 DEF StartBlock, Go, End
    <2>2. DOMAIN produced = Arms
      BY <1>1, <2>1, TurnIs
    <2> QED
      BY <1>1, <2>1, <2>2 DEF soloVars, SoloInv, Kept, InTurn
  <1>15. CASE PairedTrial
    <2>1. /\ UNCHANGED <<attempt, produced, step, program>> /\ step = "timing"
          /\ collected' = [a \in Arms |-> Append(collected[a], [round |-> round, attempt |-> 1])]
          /\ round' = round + 1
      BY <1>15 DEF PairedTrial, At
    <2>2. [round |-> round, attempt |-> 1] \in Results
      BY <1>1 DEF Results
    <2>3. Kept'
      BY <2>1, <2>2, KeepsOneMore
    <2> QED
      BY <1>1, <2>1, <2>3 DEF SoloInv, InTurn
  <1>16. CASE EndBlock
    <2>1. UNCHANGED soloVars /\ program' = program /\ step' \in {"start", "ended"}
      BY <1>16 DEF EndBlock, Go, End
    <2> QED
      BY <1>2, <2>1
  <1> QED
    BY <1>3, <1>4, <1>5, <1>6, <1>7, <1>8, <1>9, <1>10, <1>11, <1>12, <1>13, <1>14, <1>15, <1>16
    DEF Next, Run, SoloNext
----------------------------------------------------------------------------
(* The lists of a sweep. *)

\* A list to measure: it is not empty, everything in it has a name of its own (a second
\* candidate of a name is refused), and nothing is measured by a stub in its place.
Measurable(items) ==
    /\ items \in Seq(ToSet(items)) /\ items # <<>>
    /\ \A i, j \in DOMAIN items : items[i].name = items[j].name => i = j
    /\ \A i \in DOMAIN items :
           /\ items[i].on \in {"packed", "affine"}
           /\ \A k \in DOMAIN items[i].moves : items[i].moves[k] # Stub

\* A list of configurations, no two of which have one name.
NamedRungs(s, T) == s \in Seq(T) /\ NamesApart(s, [c \in T |-> BlockName(c)])

\* The rungs of the sweep have names of their own.
LEMMA SweptRungs ==
    /\ NamedRungs(LADDER, ToSet(LADDER))
    /\ \A c \in ToSet(LADDER) :
           c.kernel = "gemm" /\ c.batch_block \in {8, 16, 32, 64, 128}
  <1>1. /\ DOMAIN LADDER = 1..13 /\ Len(LADDER) = 13
        /\ LADDER = [i \in 1..13 |-> LADDER[i]]
    BY DEF LADDER
  <1>2. ToSet(LADDER) = {LADDER[i] : i \in 1..13}
    BY <1>1 DEF ToSet
  <1>3. \A i \in 1..13 : LADDER[i].kernel = "gemm" /\ LADDER[i].batch_block \in {8, 16, 32, 64, 128}
    BY DEF LADDER, Rung
  <1>4. LADDER \in [1..13 -> ToSet(LADDER)]
    BY <1>1, <1>2
  <1>5. LADDER \in Seq(ToSet(LADDER))
    BY <1>4, SeqDef
  <1> DEFINE code == [i \in 1..13 |-> 1000 * LADDER[i].batch_block + LADDER[i].row_block]
  <1>6. \A i, j \in 1..13 : code[i] = code[j] => i = j
    BY DEF LADDER, Rung
  <1>7. ASSUME NEW i \in 1..13, NEW j \in 1..13, BlockName(LADDER[i]) = BlockName(LADDER[j])
        PROVE  i = j
    <2>1. /\ LADDER[i].batch_block = LADDER[j].batch_block
          /\ LADDER[i].row_block = LADDER[j].row_block
      BY <1>3, <1>7 DEF BlockName
    <2>2. code[i] = code[j]
      BY <2>1
    <2> QED
      BY <1>6, <2>2
  <1>8. \A i \in 1..13 : [c \in ToSet(LADDER) |-> BlockName(c)][LADDER[i]] = BlockName(LADDER[i])
    BY <1>4
  <1>9. NamesApart(LADDER, [c \in ToSet(LADDER) |-> BlockName(c)])
    BY <1>1, <1>7, <1>8 DEF NamesApart
  <1>10. \A c \in ToSet(LADDER) : c.kernel = "gemm" /\ c.batch_block \in {8, 16, 32, 64, 128}
    BY <1>2, <1>3
  <1> QED
    BY <1>5, <1>9, <1>10 DEF NamedRungs

\* So have those of a ladder of the rule (modules.py:165-190).
LEMMA LadderRungs ==
    ASSUME NEW b
    PROVE  /\ NamedRungs(Ladder(b), ToSet(Ladder(b)))
           /\ \A c \in ToSet(Ladder(b)) : c.kernel = "gemm" /\ c.batch_block \in {16, 32}
  <1>1. Len(Ladder(b)) = 2 /\ DOMAIN Ladder(b) = 1..2 /\ Ladder(b) = [i \in 1..2 |-> Ladder(b)[i]]
    BY DEF Ladder, GEMM_LADDER_SMALL_BATCH, GEMM_LADDER_LARGE_BATCH
  <1>2. /\ \A i \in 1..2 : Ladder(b)[i].kernel = "gemm" /\ Ladder(b)[i].batch_block \in {16, 32}
        /\ Ladder(b)[1].row_block # Ladder(b)[2].row_block
    BY DEF Ladder, GEMM_LADDER_SMALL_BATCH, GEMM_LADDER_LARGE_BATCH, Gemm
  <1>3. ToSet(Ladder(b)) = {Ladder(b)[i] : i \in 1..2}
    BY <1>1 DEF ToSet
  <1>4. Ladder(b) \in [1..2 -> ToSet(Ladder(b))]
    BY <1>1, <1>3
  <1>5. Ladder(b) \in Seq(ToSet(Ladder(b)))
    BY <1>4, SeqDef
  <1>6. BlockName(Ladder(b)[1]) # BlockName(Ladder(b)[2])
    BY <1>2 DEF BlockName
  <1>7. \A i \in 1..2 : /\ [c \in ToSet(Ladder(b)) |-> BlockName(c)][Ladder(b)[i]] = BlockName(Ladder(b)[i])
                        /\ i = 1 \/ i = 2
    BY <1>4
  <1>8. NamesApart(Ladder(b), [c \in ToSet(Ladder(b)) |-> BlockName(c)])
    BY <1>1, <1>6, <1>7 DEF NamesApart
  <1> QED
    BY <1>2, <1>3, <1>5, <1>8 DEF NamedRungs

\* A list of distinct names is one whatever set its members are taken from.
LEMMA NamedIn ==
    ASSUME NEW T, NEW U, NEW s, NamedRungs(s, T), T \subseteq U
    PROVE  NamedRungs(s, U)
  <1>1. s \in Seq(U)
    BY SeqMonotonic DEF NamedRungs
  <1>2. \A i \in 1..Len(s) : s[i] \in T
    BY DEF NamedRungs
  <1>3. \A i \in 1..Len(s) : [c \in T |-> BlockName(c)][s[i]] = [c \in U |-> BlockName(c)][s[i]]
    BY <1>2
  <1> QED
    BY <1>1, <1>3 DEF NamedRungs, NamesApart

\* Two such lists that share no name are one.
LEMMA NamedBehind ==
    ASSUME NEW T, NEW s, NEW t, NamedRungs(s, T), NamedRungs(t, T),
           \A i \in 1..Len(s) : \A j \in 1..Len(t) : BlockName(s[i]) # BlockName(t[j])
    PROVE  NamedRungs(s \o t, T)
  <1> PICK name : name = [c \in T |-> BlockName(c)]
    OBVIOUS
  <1>1. s \in Seq(T) /\ t \in Seq(T) /\ NamesApart(s, name) /\ NamesApart(t, name)
    BY DEF NamedRungs
  <1>2. /\ \A i \in 1..Len(s) : name[s[i]] = BlockName(s[i])
        /\ \A j \in 1..Len(t) : name[t[j]] = BlockName(t[j])
    BY <1>1
  <1>3. \A i \in 1..Len(s) : \A j \in 1..Len(t) : name[s[i]] # name[t[j]]
    BY <1>2
  <1>4. s \o t \in Seq(T)
    BY <1>1, JoinHas
  <1>5. NamesApart(s \o t, name)
    BY <1>1, <1>3, JoinApart
  <1> QED
    BY <1>4, <1>5 DEF NamedRungs

\* What is kept of a list of distinct names.
LEMMA NamedSift ==
    ASSUME NEW T, NEW s, NEW keep, NamedRungs(s, T)
    PROVE  /\ NamedRungs(Sift(s, keep), T)
           /\ \A i \in 1..Len(Sift(s, keep)) : Sift(s, keep)[i] \in keep
  <1>1. s \in Seq(T)
    BY DEF NamedRungs
  <1> QED
    BY <1>1, SiftIs, SiftApart DEF NamedRungs, Sifted

\* A batch that is not the GEMM's fills the shallowest block of the sweep alone.
LEMMA BucketIsShallow ==
    ASSUME NEW b \in Nat \ {0}, NEW m \in BucketBlocks(b)
    PROVE  m = 8
  <1>1. b < GEMM_MIN_BATCH /\ GEMM_MIN_BATCH \in 8..16
    BY RuleAssumption, CandidatesAssumption DEF BucketBlocks
  <1>2. PICK c \in ToSet(LADDER) : m = c.batch_block /\ c.batch_block <= b
    BY <1>1 DEF BucketBlocks
  <1>3. m \in {8, 16, 32, 64, 128}
    BY <1>2, SweptRungs
  <1> QED
    BY <1>1, <1>2, <1>3

\* What the rule chooses between has names of its own: the bucket's rungs are in front of
\* the ladder of another block (bench_in_situ.py:297 never raises).
LEMMA DecisionNamed ==
    ASSUME NEW b \in Nat \ {0}
    PROVE  NamedRungs(DecisionRungs(b), ToSet(LADDER) \cup ToSet(Ladder(b)))
  <1> DEFINE T == ToSet(LADDER) \cup ToSet(Ladder(b))
             keep == {c \in ToSet(LADDER) : c.batch_block \in BucketBlocks(b)}
             bucket == Sift(LADDER, keep)
             walk == Ladder(b)
  <1>1. NamedRungs(bucket, ToSet(LADDER)) /\ \A i \in 1..Len(bucket) : bucket[i] \in keep
    <2>1. NamedRungs(LADDER, ToSet(LADDER))
      BY SweptRungs
    <2> HIDE DEF keep
    <2> QED
      BY <2>1, NamedSift
  <1>2. NamedRungs(walk, ToSet(walk))
    BY LadderRungs
  <1>3. NamedRungs(bucket, T) /\ NamedRungs(walk, T)
    BY <1>1, <1>2, NamedIn
  <1>4. \A i \in 1..Len(bucket) : bucket[i].kernel = "gemm" /\ bucket[i].batch_block = 8
    <2>1. \A c \in keep : c.kernel = "gemm" /\ c.batch_block = 8
      BY SweptRungs, BucketIsShallow
    <2> HIDE DEF keep, bucket
    <2> QED
      BY <1>1, <2>1
  <1>5. \A j \in 1..Len(walk) : walk[j].kernel = "gemm" /\ walk[j].batch_block # 8
    <2>1. \A j \in 1..Len(walk) : walk[j] \in ToSet(walk)
      BY <1>2 DEF NamedRungs
    <2> QED
      BY <2>1, LadderRungs
  <1>6. DecisionRungs(b) = bucket \o walk
    BY DEF DecisionRungs
  <1> HIDE DEF bucket, walk, T
  <1>7. \A i \in 1..Len(bucket) : \A j \in 1..Len(walk) : BlockName(bucket[i]) # BlockName(walk[j])
    BY <1>4, <1>5 DEF BlockName
  <1>8. NamedRungs(bucket \o walk, T)
    BY <1>3, <1>7, NamedBehind
  <1> QED
    BY <1>6, <1>8 DEF T, walk

\* A list of candidates: of distinct names, of configurations that a layer can be pinned
\* to, and none of them the control.
Candidate(c) == c.kernel \in {"gemm", "lut"}

\* The rungs that a sweep keeps, and LUT23 behind them, are such a list.
LEMMA OptionsNamed ==
    ASSUME NEW l, NEW b, NEW rungs, NEW T, NamedRungs(rungs, T), \A c \in T : c.kernel = "gemm",
           NEW keep
    PROVE  \E U : /\ NamedRungs(Sift(rungs, keep) \o <<SelectLut23(l, b)>>, U)
                  /\ Sift(rungs, keep) \o <<SelectLut23(l, b)>> # <<>>
                  /\ \A c \in U : Candidate(c)
  <1> DEFINE lut == SelectLut23(l, b)
             last == <<lut>>
             U == T \cup {lut}
             kept == Sift(rungs, keep)
  <1>1. lut.kernel = "lut"
    <2>1. SelectLut23Tile(l, b) \in {LUT23_SINGLE, LUT23_PAIR, LUT23_BATCHED}
      BY DEF SelectLut23Tile
    <2> QED
      BY <2>1 DEF SelectLut23, LUT23_SINGLE, LUT23_PAIR, LUT23_BATCHED, Lut23
  <1> HIDE DEF lut
  <1>2. last \in Seq(U) /\ Len(last) = 1 /\ last[1] = lut
    OBVIOUS
  <1>3. NamedRungs(last, U)
    BY <1>2 DEF NamedRungs, NamesApart
  <1>4. NamedRungs(kept, T)
    BY NamedSift
  <1>5. NamedRungs(kept, U)
    BY <1>4, NamedIn
  <1>6. \A i \in 1..Len(kept) : kept[i].kernel = "gemm"
    BY <1>4 DEF NamedRungs
  <1> HIDE DEF kept, last
  <1>7. \A i \in 1..Len(kept) : \A j \in 1..Len(last) : BlockName(kept[i]) # BlockName(last[j])
    <2>1. \A j \in 1..Len(last) : last[j] = lut
      BY <1>2
    <2> QED
      BY <1>1, <1>6, <2>1 DEF BlockName
  <1>8. \A c \in U : Candidate(c)
    BY <1>1 DEF Candidate
  <1> HIDE DEF U
  <1>9. NamedRungs(kept \o last, U)
    BY <1>3, <1>5, <1>7, NamedBehind
  <1>10. kept \o last # <<>>
    <2>1. kept \in Seq(U) /\ last \in Seq(U)
      BY <1>2, <1>5 DEF NamedRungs
    <2>2. Len(kept \o last) = Len(kept) + Len(last)
      BY <2>1, JoinHas
    <2>3. Len(kept) \in Nat
      BY <2>1
    <2> QED
      BY <1>2, <2>2, <2>3
  <1> QED
    BY <1>8, <1>9, <1>10 DEF kept, last, lut

\* What a sweep of one shape measures.
LEMMA CandidatesNamed ==
    ASSUME NEW l, NEW b \in Nat \ {0}, NEW options \in {LadderCandidates(l, b), DecisionCandidates(l, b)}
    PROVE  \E T : NamedRungs(options, T) /\ options # <<>> /\ \A c \in T : Candidate(c)
  <1>1. CASE options = LadderCandidates(l, b)
    <2> DEFINE keep == {c \in ToSet(LADDER) : Relevant(b, c) /\ Fits(l, c)}
    <2>1. options = Sift(LADDER, keep) \o <<SelectLut23(l, b)>>
      BY <1>1 DEF LadderCandidates
    <2> HIDE DEF keep
    <2> QED
      BY <2>1, SweptRungs, OptionsNamed
  <1>2. CASE options = DecisionCandidates(l, b)
    <2> DEFINE keep == {c \in ToSet(DecisionRungs(b)) : Fits(l, c)}
    <2>1. options = Sift(DecisionRungs(b), keep) \o <<SelectLut23(l, b)>>
      BY <1>2 DEF DecisionCandidates
    <2>2. \A c \in ToSet(LADDER) \cup ToSet(Ladder(b)) : c.kernel = "gemm"
      BY SweptRungs, LadderRungs
    <2> HIDE DEF keep
    <2>3. PICK rungs, T : rungs = DecisionRungs(b) /\ T = ToSet(LADDER) \cup ToSet(Ladder(b))
      OBVIOUS
    <2>4. NamedRungs(rungs, T) /\ \A c \in T : c.kernel = "gemm"
      BY <2>2, <2>3, DecisionNamed
    <2> QED
      BY <2>1, <2>3, <2>4, OptionsNamed
  <1> QED
    BY <1>1, <1>2

\* An item that no stub is measured in place of.
Unstubbed(x) ==
    x.on \in {"packed", "affine"} /\ \A k \in DOMAIN x.moves : x.moves[k] # Stub

LEMMA ItemUnstubbed ==
    ASSUME NEW name, NEW shapes, NEW config, config.kernel # "stub", NEW on \in {"packed", "affine"}
    PROVE  Unstubbed(Item(name, shapes, config, on)) /\ Item(name, shapes, config, on).name = name
  <1>1. config # Stub
    BY DEF Stub
  <1> QED
    BY <1>1 DEF Unstubbed, Item

\* A list of such items with names of their own can be measured.
LEMMA MeasurableIs ==
    ASSUME NEW T, NEW items \in Seq(T), items # <<>>,
           NamesApart(items, [x \in T |-> x.name]), \A x \in T : Unstubbed(x)
    PROVE  Measurable(items)
  <1>1. PICK n \in Nat : items \in [1..n -> T] /\ Len(items) = n /\ DOMAIN items = 1..n
    BY SeqDef
  <1>2. \A i \in 1..n : items[i] \in T /\ items[i] \in ToSet(items)
    BY <1>1 DEF ToSet
  <1>3. items \in [1..n -> ToSet(items)]
    BY <1>1, <1>2
  <1>4. items \in Seq(ToSet(items))
    BY <1>3, SeqDef
  <1>5. \A i \in 1..n : [x \in T |-> x.name][items[i]] = items[i].name
    BY <1>2
  <1>6. \A i, j \in 1..n : items[i].name = items[j].name => i = j
    BY <1>1, <1>5 DEF NamesApart
  <1>7. \A i \in 1..n : Unstubbed(items[i])
    BY <1>2
  <1> QED
    BY <1>1, <1>4, <1>6, <1>7 DEF Measurable, Unstubbed

\* A function on the first numbers is a list.
LEMMA ListOf ==
    ASSUME NEW n \in Nat, NEW T, NEW f \in [1..n -> T]
    PROVE  f \in Seq(T) /\ Len(f) = n
  <1>1. f \in Seq(T)
    BY SeqDef
  <1>2. DOMAIN f = 1..n
    OBVIOUS
  <1> QED
    BY <1>1, <1>2, LenProperties

\* The candidates of a shape are such a list, and the control is not among them.
LEMMA NamedItems ==
    ASSUME NEW s, NEW T, NEW options, NamedRungs(options, T), options # <<>>,
           \A c \in T : Candidate(c)
    PROVE  LET items == Named(s, options)
               U == {Item(BlockName(c), {s}, c, "packed") : c \in T}
           IN  /\ items \in Seq(U) /\ items # <<>>
               /\ NamesApart(items, [x \in U |-> x.name])
               /\ \A x \in U : Unstubbed(x) /\ x.name # <<"affine">>
  <1> DEFINE items == Named(s, options)
             item(c) == Item(BlockName(c), {s}, c, "packed")
             U == {item(c) : c \in T}
  <1>1. PICK n \in Nat : n = Len(options) /\ options \in [1..n -> T] /\ DOMAIN options = 1..n
    <2>1. options \in Seq(T)
      BY DEF NamedRungs
    <2> QED
      BY <2>1, LenProperties
  <1>2. n # 0
    <2>1. CASE n = 0
      <3>1. options \in Seq(T) /\ Len(options) = 0
        BY <1>1, <2>1 DEF NamedRungs
      <3>2. options = <<>>
        BY <3>1, EmptySeq
      <3> QED
        BY <3>2
    <2> QED
      BY <2>1
  <1>3. \A c \in T : Unstubbed(item(c)) /\ item(c).name = BlockName(c)
    BY ItemUnstubbed DEF Candidate
  <1>4. \A c \in T : BlockName(c) # <<"affine">>
    BY DEF BlockName
  <1>5. items = [i \in 1..n |-> item(options[i])]
    BY <1>1 DEF Named
  <1> HIDE DEF items, item
  <1>6. \A i \in 1..n : options[i] \in T /\ items[i] = item(options[i]) /\ items[i] \in U
    BY <1>1, <1>5
  <1>7. items \in [1..n -> U]
    BY <1>5, <1>6
  <1> HIDE DEF U
  <1>8. items \in Seq(U) /\ Len(items) = n
    BY <1>7, ListOf
  <1>9. items # <<>>
    BY <1>2, <1>8
  <1>10. \A x \in U : Unstubbed(x) /\ x.name # <<"affine">>
    BY <1>3, <1>4 DEF U
  <1>11. NamesApart(items, [x \in U |-> x.name])
    <2> PICK name : name = [x \in U |-> x.name]
      OBVIOUS
    <2>1. \A i \in 1..n : name[items[i]] = BlockName(options[i])
      BY <1>3, <1>6
    <2>2. \A i \in 1..n : [c \in T |-> BlockName(c)][options[i]] = BlockName(options[i])
      BY <1>6
    <2>3. \A i, j \in 1..n : BlockName(options[i]) = BlockName(options[j]) => i = j
      BY <1>1, <2>2 DEF NamedRungs, NamesApart
    <2>4. \A i, j \in 1..n : name[items[i]] = name[items[j]] => i = j
      BY <2>1, <2>3
    <2> QED
      BY <1>8, <2>4 DEF NamesApart
  <1> QED
    BY <1>8, <1>9, <1>10, <1>11 DEF items, U, item

\* keep-one: the candidates of a shape, and the control.
LEMMA KeepOneMeasurable ==
    ASSUME NEW n \in DOMAIN BATCHES, NEW s, BATCHES[n] \in Nat \ {0}
    PROVE  Measurable(KeepOneItems(n, s))
  <1> PICK l, b, options : /\ l = Census[s].layout /\ b = BATCHES[n]
                           /\ options = LadderCandidates(l, b)
    OBVIOUS
  <1> DEFINE control == Item(<<"affine">>, {s}, Loaded, "affine")
  <1>1. PICK T : NamedRungs(options, T) /\ options # <<>> /\ \A c \in T : Candidate(c)
    BY CandidatesNamed
  <1>2. PICK items, U :
            /\ items = Named(s, options) /\ items \in Seq(U)
            /\ NamesApart(items, [x \in U |-> x.name])
            /\ \A x \in U : Unstubbed(x) /\ x.name # <<"affine">>
    BY <1>1, NamedItems
  <1>3. Unstubbed(control) /\ control.name = <<"affine">>
    BY ItemUnstubbed DEF Loaded
  <1> HIDE DEF control
  <1> DEFINE V == U \cup {control}
  <1> PICK last, name : last = <<control>> /\ name = [x \in V |-> x.name]
    OBVIOUS
  <1>4. last \in Seq(V) /\ Len(last) = 1 /\ last[1] = control /\ items \in Seq(V)
    <2>1. items \in Seq(V)
      BY <1>2, SeqMonotonic
    <2> QED
      BY <2>1
  <1>5. NamesApart(last, name)
    BY <1>4 DEF NamesApart
  <1>6. \A i \in 1..Len(items) : items[i] \in U /\ name[items[i]] = items[i].name
    BY <1>2
  <1>7. NamesApart(items, name)
    <2> PICK old : old = [x \in U |-> x.name]
      OBVIOUS
    <2>1. \A i \in 1..Len(items) : old[items[i]] = name[items[i]]
      BY <1>6
    <2>2. NamesApart(items, old)
      BY <1>2
    <2> QED
      BY <2>1, <2>2 DEF NamesApart
  <1>8. \A i \in 1..Len(items) : \A j \in 1..Len(last) : name[items[i]] # name[last[j]]
    <2>1. name[control] = <<"affine">>
      BY <1>3
    <2>2. \A i \in 1..Len(items) : name[items[i]] # <<"affine">>
      BY <1>2, <1>6
    <2>3. \A j \in 1..Len(last) : last[j] = control
      BY <1>4
    <2> QED
      BY <2>1, <2>2, <2>3
  <1>9. \A x \in V : Unstubbed(x)
    BY <1>2, <1>3
  <1> PICK W : W = V
    OBVIOUS
  <1>10. items \in Seq(W) /\ last \in Seq(W)
    BY <1>4
  <1>11. NamesApart(items \o last, name)
    BY <1>5, <1>7, <1>8, <1>10, JoinApart
  <1>12. items \o last \in Seq(W) /\ Len(items \o last) = Len(items) + Len(last)
    BY <1>10, JoinHas
  <1>13. Len(items \o last) # 0
    BY <1>4, <1>10, <1>12
  <1>14. items \o last # <<>>
    BY <1>13
  <1>15. Measurable(items \o last)
    BY <1>9, <1>11, <1>12, <1>14, MeasurableIs
  <1>16. KeepOneItems(n, s) = Append(items, control)
    BY <1>2 DEF KeepOneItems, control
  <1>17. Append(items, control) = items \o last
    BY <1>10, <1>4, AppendIsConcat
  <1> QED
    BY <1>15, <1>16, <1>17

\* whole-pass: the candidates of a shape.
LEMMA WholePassMeasurable ==
    ASSUME NEW n \in DOMAIN BATCHES, NEW s, BATCHES[n] \in Nat \ {0}
    PROVE  Measurable(WholePassItems(n, s))
  <1> PICK l, b, options : /\ l = Census[s].layout /\ b = BATCHES[n]
                           /\ options = DecisionCandidates(l, b)
    OBVIOUS
  <1>1. PICK T : NamedRungs(options, T) /\ options # <<>> /\ \A c \in T : Candidate(c)
    BY CandidatesNamed
  <1>2. PICK items, U :
            /\ items = Named(s, options) /\ items \in Seq(U) /\ items # <<>>
            /\ NamesApart(items, [x \in U |-> x.name])
            /\ \A x \in U : Unstubbed(x)
    BY <1>1, NamedItems
  <1>3. Measurable(items)
    BY <1>2, MeasurableIs
  <1> QED
    BY <1>2, <1>3 DEF WholePassItems

\* The shapes that a bucket moves are shapes of the census, each of them once.
LEMMA MembersApart ==
    ASSUME NEW n \in DOMAIN BATCHES
    PROVE  LET T == ToSet(Census)
           IN  /\ Members[n] \in Seq(T)
               /\ NamesApart(Members[n], [m \in T |-> m.label])
               /\ \A m \in T : m.label # "bucket"
  <1> PICK T : T = ToSet(Census)
    OBVIOUS
  <1> PICK label : label = [m \in T |-> m.label]
    OBVIOUS
  <1>1. Census \in Seq(T)
    BY SituAssumption
  <1>2. DOMAIN Census = 1..Len(Census) /\ \A i \in 1..Len(Census) : Census[i] \in T
    BY <1>1
  <1>3. \A i \in 1..Len(Census) : label[Census[i]] = Census[i].label
    BY <1>2
  <1>4. NamesApart(Census, label)
    BY <1>2, <1>3, SituAssumption DEF NamesApart
  <1> PICK keep : Members[n] = Sift(Census, keep)
    BY DEF Members, BucketMembers
  <1>5. Sift(Census, keep) \in Seq(T)
    BY <1>1, SiftIs
  <1>6. NamesApart(Sift(Census, keep), label)
    BY <1>1, <1>4, SiftApart
  <1>7. \A m \in T : m.label # "bucket"
    BY SituAssumption DEF ToSet
  <1> QED
    BY <1>5, <1>6, <1>7

\* bucket: all of its shapes at once, and each of them alone.
LEMMA BucketMeasurable ==
    ASSUME NEW n \in DOMAIN BATCHES
    PROVE  Measurable(BucketItems(n))
  <1> PICK members, T : members = Members[n] /\ T = ToSet(Census)
    OBVIOUS
  <1> PICK label : label = [m \in T |-> m.label]
    OBVIOUS
  <1>1. /\ members \in Seq(T) /\ NamesApart(members, label)
        /\ \A m \in T : m.label # "bucket"
    BY MembersApart
  <1> DEFINE all == Item(<<"bucket">>, MembersAt({m.label : m \in ToSet(members)}), ARM, "packed")
             alone(m) == Item(<<m.label>>, MembersAt({m.label}), ARM, "packed")
             rest == [i \in DOMAIN members |-> alone(members[i])]
             V == {all} \cup {alone(m) : m \in T}
  <1>2. ARM.kernel # "stub"
    BY SituAssumption, SweptRungs
  <1>3. Unstubbed(all) /\ all.name = <<"bucket">>
    BY <1>2, ItemUnstubbed
  <1>4. \A m \in T : Unstubbed(alone(m)) /\ alone(m).name = <<m.label>>
    BY <1>2, ItemUnstubbed
  <1>5. BucketItems(n) = <<all>> \o rest
    BY DEF BucketItems
  <1> HIDE DEF all, alone
  <1>6. PICK k \in Nat : k = Len(members) /\ DOMAIN members = 1..k
    BY <1>1, LenProperties
  <1>7. \A i \in 1..k : members[i] \in T /\ rest[i] = alone(members[i]) /\ rest[i] \in V
    BY <1>1, <1>6
  <1>8. rest \in [1..k -> V]
    BY <1>6, <1>7
  <1> PICK first : first = <<all>>
    OBVIOUS
  <1>9. first \in Seq(V) /\ Len(first) = 1 /\ first[1] = all
    OBVIOUS
  <1>10. \A x \in V : Unstubbed(x)
    BY <1>3, <1>4
  <1> HIDE DEF V, rest
  <1>11. rest \in Seq(V) /\ Len(rest) = k
    BY <1>8, ListOf
  <1> PICK name : name = [x \in V |-> x.name]
    OBVIOUS
  <1>12. all \in V /\ name[all] = <<"bucket">>
    BY <1>3 DEF V
  <1>13. \A i \in 1..k : name[rest[i]] = <<members[i].label>>
    BY <1>4, <1>7
  <1>14. NamesApart(first, name)
    BY <1>9 DEF NamesApart
  <1>15. NamesApart(rest, name)
    <2>1. \A i \in 1..k : label[members[i]] = members[i].label
      BY <1>7
    <2>2. \A i, j \in 1..k : members[i].label = members[j].label => i = j
      BY <1>1, <1>6, <2>1 DEF NamesApart
    <2>3. \A i, j \in 1..k : name[rest[i]] = name[rest[j]] => i = j
      BY <1>13, <2>2
    <2> QED
      BY <1>11, <2>3 DEF NamesApart
  <1>16. \A i \in 1..Len(first) : \A j \in 1..Len(rest) : name[first[i]] # name[rest[j]]
    <2>1. \A i \in 1..Len(first) : name[first[i]] = <<"bucket">>
      BY <1>9, <1>12
    <2>2. \A j \in 1..k : members[j].label # "bucket"
      BY <1>1, <1>7
    <2>3. \A j \in 1..k : name[rest[j]] # <<"bucket">>
      BY <1>13, <2>2
    <2> QED
      BY <1>11, <2>1, <2>3
  <1>17. NamesApart(first \o rest, name)
    BY <1>9, <1>11, <1>14, <1>15, <1>16, JoinApart
  <1>18. first \o rest \in Seq(V) /\ Len(first \o rest) = Len(first) + Len(rest)
    BY <1>9, <1>11, JoinHas
  <1>19. Len(first \o rest) # 0
    BY <1>9, <1>11, <1>18
  <1>20. first \o rest # <<>>
    BY <1>19
  <1>21. Measurable(first \o rest)
    BY <1>10, <1>17, <1>18, <1>20, MeasurableIs
  <1> QED
    BY <1>5, <1>21

\* The census and the batches are lists of one member or more.
LEMMA CensusIs ==
    /\ Len(Census) \in Nat \ {0} /\ Shapes = 1..Len(Census)
    /\ Len(BATCHES) \in Nat \ {0} /\ DOMAIN BATCHES = 1..Len(BATCHES)
    /\ \A n \in DOMAIN BATCHES : BATCHES[n] \in Nat \ {0}
  <1>1. Census \in Seq(ToSet(Census)) /\ Census # <<>>
    BY SituAssumption
  <1>2. BATCHES \in Seq(Nat \ {0}) /\ BATCHES # <<>>
    BY SituAssumption
  <1>3. Len(Census) \in Nat \ {0} /\ DOMAIN Census = 1..Len(Census)
    BY <1>1
  <1> QED
    BY <1>2, <1>3 DEF Shapes

\* Each list of a sweep can be measured.
LEMMA AllMeasurable ==
    ASSUME NEW mode \in Modes, NEW n \in DOMAIN BATCHES, NEW s \in 1..Blocks(mode)
    PROVE  Measurable(ItemsOf[mode][n][s])
  <1>1. BATCHES[n] \in Nat \ {0}
    BY CensusIs
  <1>2. CASE mode = "keep-one"
    <2>1. ItemsOf[mode][n][s] = KeepOneItems(n, s)
      BY <1>2 DEF ItemsOf
    <2> QED
      BY <1>1, <2>1, KeepOneMeasurable
  <1>3. CASE mode = "whole-pass"
    <2>1. ItemsOf[mode][n][s] = WholePassItems(n, s)
      BY <1>3 DEF ItemsOf
    <2> QED
      BY <1>1, <2>1, WholePassMeasurable
  <1>4. CASE mode = "bucket"
    <2>1. ItemsOf[mode][n][s] = BucketItems(n)
      BY <1>4 DEF ItemsOf
    <2> QED
      BY <2>1, BucketMeasurable
  <1> QED
    BY <1>2, <1>3, <1>4 DEF Modes

----------------------------------------------------------------------------
(* Where a candidate is measured. *)

\* What readings say when every trial measures both arms, in the order of the trial.
ArmReadings == {[trial |-> t, place |-> p, name |-> Order(t)[p]] : t \in Nat, p \in 1..2}

\* What readings say when every trial measures a list, turned one further each time.
ListReadings(items) ==
    {[trial |-> t, place |-> p, name |-> Rotate(items, t - 1)[p].name] :
        t \in Nat \ {0}, p \in 1..Len(items)}

\* No candidate is twice in a place, in any stretch of as many trials as there are candidates.
SpreadIn(series) ==
    LET names == {series[i].name : i \in DOMAIN series}
    IN  \A i, j \in DOMAIN series :
            /\ series[i].name = series[j].name
            /\ series[i].place = series[j].place
            /\ series[j].trial - series[i].trial < Cardinality(names)
            => series[i].trial >= series[j].trial

\* There are at most as many names as there are things to name.
LEMMA NamesBounded ==
    ASSUME NEW names, NEW n \in Nat, NEW f, \A x \in names : \E k \in 1..n : x = f[k]
    PROVE  Cardinality(names) \in 0..n
  <1> DEFINE hit == {k \in 1..n : f[k] \in names}
             g == [k \in hit |-> f[k]]
  <1>1. IsFiniteSet(hit) /\ Cardinality(hit) <= n /\ Cardinality(hit) \in Nat
    <2>1. IsFiniteSet(1..n) /\ Cardinality(1..n) = n
      BY FS_Interval
    <2> QED
      BY <2>1, FS_Subset, FS_CardinalityType
  <1>2. g \in Surjection(hit, names)
    BY DEF Surjection
  <1>3. IsFiniteSet(names) /\ Cardinality(names) <= Cardinality(hit)
    BY <1>1, <1>2, FS_Surjection
  <1> QED
    BY <1>1, <1>3, FS_CardinalityType

\* What a list that is turned index times has in place p.
Slot(n, index, p) ==
    IF p <= n - (index % n) THEN (index % n) + p ELSE (index % n) + p - n

\* Where a turned list has what.
LEMMA RotateAt ==
    ASSUME NEW S, NEW work \in Seq(S), NEW index \in Nat, NEW p \in 1..Len(work)
    PROVE  /\ Slot(Len(work), index, p) \in 1..Len(work)
           /\ Rotate(work, index)[p] = work[Slot(Len(work), index, p)]
  <1> DEFINE n == Len(work)
  <1>1. n \in Nat \ {0} /\ n = Len(work) /\ p \in 1..n
    OBVIOUS
  <1> HIDE DEF n
  <1>2. PICK q \in 0..n - 1 : q = index % n
    BY <1>1, DivMod
  <1> DEFINE front == SubSeq(work, q + 1, n)
             back == SubSeq(work, 1, q)
  <1>5. /\ front \in Seq(S) /\ Len(front) = n - q
        /\ back \in Seq(S) /\ Len(back) = q
        /\ \A i \in 1..n - q : front[i] = work[q + i]
        /\ \A i \in 1..q : back[i] = work[i]
    <2>1. /\ front \in Seq(S) /\ Len(front) = n - q
          /\ \A i \in 1..n - q : front[i] = work[q + i]
      BY <1>1, <1>2
    <2>2. /\ back \in Seq(S) /\ Len(back) = q
          /\ \A i \in 1..q : back[i] = work[i]
      BY <1>1, <1>2
    <2> QED
      BY <2>1, <2>2
  <1>6. Rotate(work, index) = front \o back
    BY <1>1, <1>2 DEF Rotate
  <1> HIDE DEF front, back
  <1>7. \A i \in 1..n : (front \o back)[i] = IF i <= n - q THEN front[i] ELSE back[i - (n - q)]
    BY <1>1, <1>2, <1>5
  <1>8. Slot(n, index, p) = IF p <= n - q THEN q + p ELSE q + p - n
    BY <1>1, <1>2 DEF Slot
  <1>9. CASE p <= n - q
    BY <1>1, <1>2, <1>5, <1>6, <1>7, <1>8, <1>9
  <1>10. CASE ~(p <= n - q)
    <2>1. p - (n - q) \in 1..q /\ p - (n - q) = q + p - n
      BY <1>1, <1>2, <1>10
    <2>2. (front \o back)[p] = back[p - (n - q)]
      BY <1>1, <1>7, <1>10
    <2>3. back[p - (n - q)] = work[p - (n - q)]
      BY <1>5, <2>1
    <2>4. Slot(n, index, p) = p - (n - q)
      BY <1>8, <1>10, <2>1
    <2>5. Rotate(work, index)[p] = work[p - (n - q)]
      BY <1>6, <2>2, <2>3
    <2>6. p - (n - q) \in 1..n
      BY <1>1, <1>2, <2>1
    <2> QED
      BY <1>1, <2>4, <2>5, <2>6
  <1> QED
    BY <1>1, <1>9, <1>10

\* Two turns that are less than a whole round apart are different.
LEMMA TurnsDiffer ==
    ASSUME NEW n \in Nat \ {0}, NEW k \in Nat, NEW l \in Nat, k < l, l - k < n
    PROVE  k % n # l % n
  <1> SUFFICES ASSUME k % n = l % n PROVE FALSE
    OBVIOUS
  <1>1. /\ k \div n \in Nat /\ k % n \in 0..n - 1 /\ k = (k \div n) * n + (k % n)
        /\ l \div n \in Nat /\ l = (l \div n) * n + (l % n)
    BY DivMod
  <1> DEFINE a == k \div n
             b == l \div n
             r == k % n
  <1> HIDE DEF a, b, r
  <1>2. /\ a \in Nat /\ b \in Nat /\ r \in 0..n - 1 /\ k = a * n + r /\ l = b * n + r
        /\ a * n \in Nat /\ b * n \in Nat
    BY <1>1, ProductMonotone DEF a, b, r
  <1>3. CASE b > a
    <2>1. a * n + n <= b * n
      BY <1>2, <1>3, NextMultiple
    <2> QED
      BY <1>2, <2>1
  <1>4. CASE b <= a
    <2>1. b * n <= a * n
      BY <1>2, <1>4, ProductMonotone
    <2> QED
      BY <1>2, <2>1
  <1> QED
    BY <1>2, <1>3, <1>4

\* Nor has a turned list the same in the same place.
LEMMA SlotsDiffer ==
    ASSUME NEW n \in Nat \ {0}, NEW k \in Nat, NEW l \in Nat, k < l, l - k < n, NEW p \in 1..n
    PROVE  Slot(n, k, p) # Slot(n, l, p)
  <1> DEFINE q == k % n
             r == l % n
  <1>1. q # r /\ q \in 0..n - 1 /\ r \in 0..n - 1
    BY TurnsDiffer, DivMod
  <1>2. /\ Slot(n, k, p) = IF p <= n - q THEN q + p ELSE q + p - n
        /\ Slot(n, l, p) = IF p <= n - r THEN r + p ELSE r + p - n
    BY DEF Slot
  <1> HIDE DEF q, r
  <1> QED
    BY <1>1, <1>2

\* A trial that turns the list spreads what is on it.
LEMMA ListSpreads ==
    ASSUME NEW items, Measurable(items), NEW series \in Seq(ListReadings(items))
    PROVE  SpreadIn(series)
  <1>1. PICK S : items \in Seq(S)
    BY DEF Measurable
  <1>2. PICK n \in Nat \ {0} : n = Len(items)
    BY <1>1 DEF Measurable
  <1>3. \A i, j \in 1..n : items[i].name = items[j].name => i = j
    BY <1>1, <1>2 DEF Measurable
  <1>4. ASSUME NEW i \in DOMAIN series
        PROVE  /\ series[i].trial \in Nat \ {0} /\ series[i].place \in 1..n
               /\ series[i].name = Rotate(items, series[i].trial - 1)[series[i].place].name
    <2>1. series[i] \in ListReadings(items)
      BY <1>4
    <2> QED
      BY <1>2, <2>1 DEF ListReadings
  <1>5. ASSUME NEW i \in DOMAIN series
        PROVE  \E t \in Nat, p \in 1..n :
                   /\ series[i].trial = t + 1 /\ series[i].place = p
                   /\ Slot(n, t, p) \in 1..n /\ series[i].name = items[Slot(n, t, p)].name
    <2>1. PICK t \in Nat, p \in 1..n : t = series[i].trial - 1 /\ p = series[i].place
      BY <1>4, <1>5
    <2>2. series[i].trial = t + 1 /\ series[i].name = Rotate(items, t)[p].name
      BY <1>4, <1>5, <2>1
    <2>3. p \in 1..Len(items)
      BY <1>2
    <2>4. /\ Slot(Len(items), t, p) \in 1..Len(items)
          /\ Rotate(items, t)[p] = items[Slot(Len(items), t, p)]
      BY <1>1, <2>3, RotateAt
    <2> QED
      BY <1>2, <2>1, <2>2, <2>4
  <1> DEFINE names == {series[i].name : i \in DOMAIN series}
  <1>6. Cardinality(names) \in 0..n
    <2> DEFINE nameOf == [k \in 1..n |-> items[k].name]
    <2>1. \A x \in names : \E k \in 1..n : x = nameOf[k]
      <3> SUFFICES ASSUME NEW i \in DOMAIN series
                   PROVE  \E k \in 1..n : series[i].name = nameOf[k]
        OBVIOUS
      <3>1. PICK t \in Nat, p \in 1..n :
                Slot(n, t, p) \in 1..n /\ series[i].name = items[Slot(n, t, p)].name
        BY <1>5
      <3>2. series[i].name = nameOf[Slot(n, t, p)]
        BY <3>1
      <3> QED
        BY <3>1, <3>2
    <2> HIDE DEF nameOf, names
    <2> QED
      BY <2>1, NamesBounded
  <1> HIDE DEF names
  <1>7. ASSUME NEW i \in DOMAIN series, NEW j \in DOMAIN series,
               series[i].name = series[j].name, series[i].place = series[j].place,
               series[j].trial - series[i].trial < Cardinality(names),
               series[i].trial < series[j].trial
        PROVE  FALSE
    <2>1. PICK t \in Nat, p \in 1..n :
              /\ series[i].trial = t + 1 /\ series[i].place = p
              /\ Slot(n, t, p) \in 1..n /\ series[i].name = items[Slot(n, t, p)].name
      BY <1>5
    <2>2. PICK u \in Nat, q \in 1..n :
              /\ series[j].trial = u + 1 /\ series[j].place = q
              /\ Slot(n, u, q) \in 1..n /\ series[j].name = items[Slot(n, u, q)].name
      BY <1>5
    <2>3. p = q /\ Slot(n, t, p) = Slot(n, u, q)
      BY <1>3, <1>7, <2>1, <2>2
    <2>4. t < u /\ u - t < n
      BY <1>6, <1>7, <2>1, <2>2
    <2> QED
      BY <2>3, <2>4, SlotsDiffer
  <1>8. \A i \in DOMAIN series : series[i].trial \in Nat
    BY <1>4
  <1> QED
    BY <1>7, <1>8 DEF SpreadIn, names

\* So does the order of two arms that alternates.
LEMMA ArmsSpread ==
    ASSUME NEW series \in Seq(ArmReadings)
    PROVE  SpreadIn(series)
  <1>1. ASSUME NEW i \in DOMAIN series
        PROVE  \E t \in Nat, p \in 1..2 :
                   series[i].trial = t /\ series[i].place = p /\ series[i].name = Order(t)[p]
    <2>1. series[i] \in ArmReadings
      BY <1>1
    <2> QED
      BY <2>1 DEF ArmReadings
  <1>2. \A t \in Nat : /\ Order(t) = <<"candidate", "reference">> \/ Order(t) = <<"reference", "candidate">>
                       /\ \A p \in 1..2 : Order(t)[p] # Order(t + 1)[p]
    <2> SUFFICES ASSUME NEW t \in Nat
                 PROVE  /\ Order(t) = <<"candidate", "reference">> \/ Order(t) = <<"reference", "candidate">>
                        /\ \A p \in 1..2 : Order(t)[p] # Order(t + 1)[p]
      OBVIOUS
    <2>1. CASE t % 2 = 0
      <3>1. (t + 1) % 2 # 0
        BY <2>1
      <3> QED
        BY <2>1, <3>1 DEF Order
    <2>2. CASE t % 2 # 0
      <3>1. (t + 1) % 2 = 0
        BY <2>2
      <3> QED
        BY <2>2, <3>1 DEF Order
    <2> QED
      BY <2>1, <2>2
  <1> DEFINE names == {series[i].name : i \in DOMAIN series}
  <1>3. Cardinality(names) \in 0..2
    <2> DEFINE nameOf == <<"candidate", "reference">>
    <2>1. \A x \in names : \E k \in 1..2 : x = nameOf[k]
      <3> SUFFICES ASSUME NEW i \in DOMAIN series
                   PROVE  series[i].name \in {"candidate", "reference"}
        BY nameOf[1] = "candidate" /\ nameOf[2] = "reference"
      <3>1. PICK t \in Nat, p \in 1..2 : series[i].name = Order(t)[p]
        BY <1>1
      <3>2. CASE Order(t) = <<"candidate", "reference">>
        <4>1. Order(t)[1] = "candidate" /\ Order(t)[2] = "reference"
          BY <3>2
        <4> QED
          BY <3>1, <4>1
      <3>3. CASE Order(t) = <<"reference", "candidate">>
        <4>1. Order(t)[2] = "candidate" /\ Order(t)[1] = "reference"
          BY <3>3
        <4> QED
          BY <3>1, <4>1
      <3> QED
        BY <1>2, <3>2, <3>3
    <2> HIDE DEF nameOf, names
    <2> QED
      BY <2>1, NamesBounded
  <1> HIDE DEF names
  <1>4. ASSUME NEW i \in DOMAIN series, NEW j \in DOMAIN series,
               series[i].name = series[j].name, series[i].place = series[j].place,
               series[j].trial - series[i].trial < Cardinality(names),
               series[i].trial < series[j].trial
        PROVE  FALSE
    <2>1. PICK t \in Nat, p \in 1..2 :
              series[i].trial = t /\ series[i].place = p /\ series[i].name = Order(t)[p]
      BY <1>1
    <2>2. PICK u \in Nat, q \in 1..2 :
              series[j].trial = u /\ series[j].place = q /\ series[j].name = Order(u)[q]
      BY <1>1
    <2>3. p = q /\ t < u
      BY <1>4, <2>1, <2>2
    <2>4. u - t < 2
      BY <1>3, <1>4, <2>1, <2>2
    <2>5. u = t + 1
      BY <2>3, <2>4
    <2>6. Order(t)[p] = Order(u)[p]
      BY <1>4, <2>1, <2>2, <2>3
    <2> QED
      BY <1>2, <2>5, <2>6
  <1>5. \A i \in DOMAIN series : series[i].trial \in Nat
    BY <1>1
  <1> QED
    BY <1>4, <1>5 DEF SpreadIn, names

----------------------------------------------------------------------------
(* The tilings timed in place. *)

\* Every program keeps to steps of its own.
OwnSteps ==
    /\ program \in Programs
    /\ step \in {"warm", "compile", "reference", "variant"} => program \in Modes
    /\ step \in {"solo", "exited", "wait", "timing"} => program \in {"isolated", "paired"}
    /\ step \in {"jit", "next", "check", "plan", "timed"} => program \in Sweeps

\* Where the sweep is, there is something to measure.
PlaceInv ==
    /\ place \in [batch : Nat, block : Nat, round : Nat, turn : Nat]
    /\ program \in Modes =>
           /\ place.batch \in DOMAIN BATCHES /\ place.block \in 1..Blocks(program)
           /\ place.round > 0 /\ place.turn \in 1..Len(Items)
    /\ place.turn # 1 \/ step = "variant" => place.round <= SITU_ROUNDS

\* What is read is of what is measured, in the order of its trial.
ReadInv ==
    /\ turn \in [case : Nat, variant : Nat, trial : Nat]
    /\ program \in {"isolated", "paired", "ops"} => readings \in Seq(ArmReadings)
    /\ program \in Modes =>
           \E items : /\ Measurable(items) /\ readings \in Seq(ListReadings(items))
                      /\ step \in {"reference", "variant"} => items = Items

\* A pass that moved layers is paired with one that did not, and moved what it counted.
PairInv ==
    /\ DOMAIN layers = {"packed", "affine"}
    /\ pair.variant # <<>> =>
           /\ program \in Modes /\ step \in {"reference", "ended"}
           /\ pair.reference = InPlace(Nothing)
           /\ \E moves : /\ moves = pair.item.moves /\ \A k \in DOMAIN moves : moves[k] # Stub
                         /\ pair.variant = InPlace(moves)
                         /\ Layers(Takes(moves)) = CensusLayers(Takes(moves))
    /\ step = "variant" => pair = [NoPair EXCEPT !.reference = InPlace(Nothing)]

\* Where a sweep is, what it has read, and what it has paired.
SituInv == OwnSteps /\ PlaceInv /\ ReadInv /\ PairInv

\* What is measured is a list to measure, and so is what is being measured now.
LEMMA CurrentIs ==
    ASSUME PlaceInv, program \in Modes
    PROVE  /\ Measurable(Items) /\ Len(Items) \in Nat \ {0}
           /\ CurrentItem.on \in {"packed", "affine"}
           /\ \A k \in DOMAIN CurrentItem.moves : CurrentItem.moves[k] # Stub
           /\ [trial |-> place.round, place |-> place.turn, name |-> CurrentItem.name]
                 \in ListReadings(Items)
  <1>1. Measurable(Items)
    BY AllMeasurable DEF PlaceInv, Items
  <1>2. PICK S : Items \in Seq(S)
    BY <1>1 DEF Measurable
  <1>3. PICK n \in Nat \ {0} : n = Len(Items)
    BY <1>1, <1>2 DEF Measurable
  <1>4. PICK t \in Nat, p \in 1..n : t = place.round - 1 /\ p = place.turn
    BY <1>3 DEF PlaceInv
  <1>5. PICK k \in 1..n : Rotate(Items, t)[p] = Items[k]
    <2>1. PICK items \in Seq(S) : items = Items
      BY <1>2
    <2>2. n = Len(items) /\ p \in 1..Len(items)
      BY <1>3, <2>1
    <2>3. /\ Slot(Len(items), t, p) \in 1..Len(items)
          /\ Rotate(items, t)[p] = items[Slot(Len(items), t, p)]
      BY <2>2, RotateAt
    <2> QED
      BY <2>1, <2>2, <2>3
  <1>6. CurrentItem = Items[k]
    BY <1>4, <1>5 DEF CurrentItem
  <1>7. /\ CurrentItem.on \in {"packed", "affine"}
        /\ \A l \in DOMAIN CurrentItem.moves : CurrentItem.moves[l] # Stub
    BY <1>1, <1>2, <1>3, <1>6 DEF Measurable
  <1>8. [trial |-> place.round, place |-> place.turn, name |-> CurrentItem.name] \in ListReadings(Items)
    <2>1. place.round \in Nat \ {0} /\ place.turn \in 1..Len(Items)
      BY DEF PlaceInv
    <2> QED
      BY <2>1 DEF ListReadings, CurrentItem
  <1> QED
    BY <1>1, <1>3, <1>7, <1>8

\* Nothing is measured yet.
LEMMA SituInitially == Init => SituInv
  <1> SUFFICES ASSUME Init PROVE SituInv
    OBVIOUS
  <1>1. /\ step = "start" /\ readings = <<>> /\ turn = [case |-> 0, variant |-> 1, trial |-> 0]
        /\ place = [batch |-> 1, block |-> 1, round |-> 1, turn |-> 1] /\ pair = NoPair
    BY DEF Init, HarnessInit, SituInit, SweepInit
  <1>2. OwnSteps /\ PairInv
    <2>1. DOMAIN layers = {"packed", "affine"} /\ program \in Programs
      BY RunningAssumption DEF Init, SituInit, HarnessInit
    <2> QED
      BY <1>1, <2>1 DEF OwnSteps, PairInv, NoPair
  <1>3. ASSUME program \in Modes
        PROVE  /\ 1 \in DOMAIN BATCHES /\ 1 \in 1..Blocks(program) /\ 1 \in 1..Len(Items)
               /\ Measurable(Items)
    <2>1. 1 \in DOMAIN BATCHES /\ 1 \in 1..Blocks(program)
      BY CensusIs DEF Blocks
    <2>2. Measurable(Items)
      BY <1>1, <1>3, <2>1, AllMeasurable DEF Items
    <2>3. Len(Items) \in Nat \ {0}
      BY <2>2 DEF Measurable
    <2> QED
      BY <2>1, <2>2, <2>3
  <1>4. PlaceInv
    BY <1>1, <1>3 DEF PlaceInv
  <1>5. <<>> \in Seq(ArmReadings) /\ <<>> \in Seq(ListReadings(Items))
    OBVIOUS
  <1>6. ReadInv
    BY <1>1, <1>3, <1>5 DEF ReadInv
  <1> QED
    BY <1>2, <1>4, <1>6 DEF SituInv

\* A trial of both arms is read in its order.
LEMMA TwoMore ==
    ASSUME NEW series \in Seq(ArmReadings), NEW t \in Nat
    PROVE  series \o [i \in 1..2 |-> [trial |-> t, place |-> i, name |-> Order(t)[i]]]
              \in Seq(ArmReadings)
  <1> DEFINE more == [i \in 1..2 |-> [trial |-> t, place |-> i, name |-> Order(t)[i]]]
  <1>1. \A i \in 1..2 : [trial |-> t, place |-> i, name |-> Order(t)[i]] \in ArmReadings
    BY DEF ArmReadings
  <1>2. more \in Seq(ArmReadings)
    BY <1>1
  <1> HIDE DEF more
  <1>3. series \o more \in Seq(ArmReadings)
    BY <1>2
  <1> QED
    BY <1>3 DEF more

\* A program that is no sweep in place goes its own way, and reads its arms.
LEMMA Elsewhere ==
    ASSUME SituInv, UNCHANGED <<program, situVars>>, program \notin Modes,
           step' \notin {"warm", "compile", "reference", "variant"},
           step' \in {"solo", "exited", "wait", "timing"} => program \in {"isolated", "paired"},
           step' \in {"jit", "next", "check", "plan", "timed"} => program \in Sweeps,
           turn' \in [case : Nat, variant : Nat, trial : Nat],
           program # "split_k" => readings' \in Seq(ArmReadings)
    PROVE  SituInv'
  <1>1. OwnSteps'
    BY DEF SituInv, OwnSteps
  <1>2. PlaceInv'
    BY DEF SituInv, PlaceInv, situVars
  <1>3. ReadInv'
    BY DEF SituInv, ReadInv, situVars
  <1>4. PairInv'
    BY DEF SituInv, PairInv, situVars
  <1> QED
    BY <1>1, <1>2, <1>3, <1>4 DEF SituInv

\* A step of bench_model.
LEMMA SoloAndSitu ==
    ASSUME SituInv, round \in Nat, SoloNext, UNCHANGED <<situVars, sweepVars>>
    PROVE  SituInv'
  <1>1. /\ program \in {"isolated", "paired"} /\ program' = program
        /\ step' \in {"start", "solo", "exited", "wait", "timing", "ended"}
        /\ \/ readings' = readings
           \/ readings' = readings \o
                 [i \in 1..2 |-> [trial |-> round, place |-> i, name |-> Order(round)[i]]]
    <2>1. CASE StartArm \/ SoloTrial \/ SoloExits
      BY <2>1 DEF StartArm, SoloTrial, SoloExits, At, Go, End, harnessVars, SituInv, OwnSteps
    <2>2. CASE KeepArm \/ VoidRound \/ GiveUp
      BY <2>2 DEF KeepArm, VoidRound, GiveUp, At, Go, End, SituInv, OwnSteps
    <2>3. CASE Collect
      BY <2>3 DEF Collect, At
    <2>4. CASE Poll \/ Sleep \/ PollEnds
      BY <2>4 DEF Poll, Sleep, PollEnds, At, harnessVars, SituInv, OwnSteps
    <2>5. CASE StartBlock \/ EndBlock \/ ReportModels
      BY <2>5 DEF StartBlock, EndBlock, ReportModels, At, Go, End, SituInv, OwnSteps
    <2>6. CASE PairedTrial
      BY <2>6 DEF PairedTrial, At, SituInv, OwnSteps
    <2> QED
      BY <2>1, <2>2, <2>3, <2>4, <2>5, <2>6 DEF SoloNext
  <1>2. readings \in Seq(ArmReadings) /\ turn \in [case : Nat, variant : Nat, trial : Nat]
    BY <1>1 DEF SituInv, ReadInv
  <1>3. PICK series \in Seq(ArmReadings) : series = readings
    BY <1>2
  <1>4. series \o [i \in 1..2 |-> [trial |-> round, place |-> i, name |-> Order(round)[i]]]
           \in Seq(ArmReadings)
    BY TwoMore
  <1>5. readings' \in Seq(ArmReadings)
    BY <1>1, <1>3, <1>4
  <1>6. program \notin Modes
    BY <1>1 DEF Modes
  <1> QED
    BY <1>1, <1>2, <1>5, <1>6, Elsewhere DEF sweepVars

\* A step of bench_ops or bench_split_k.
LEMMA SweepAndSitu ==
    ASSUME SituInv, SweepNext, UNCHANGED <<soloVars, situVars>>
    PROVE  SituInv'
  <1>1. /\ program \in Sweeps /\ program' = program
        /\ step' \in {"jit", "next", "check", "plan", "timed", "ended"}
    <2>1. CASE StartSweep
      BY <2>1 DEF StartSweep, Go
    <2>2. CASE CompileVariant \/ CheckVariant \/ CallGather
      BY <2>2 DEF CompileVariant, CheckVariant, CallGather, At, End, harnessVars, SituInv, OwnSteps
    <2>3. CASE EndJit \/ EndCase \/ EndSweep
      BY <2>3 DEF EndJit, EndCase, EndSweep, CloseBlock, At, Go, End, SituInv, OwnSteps
    <2>4. CASE StartCase \/ WarmArms \/ PlanInner
      BY <2>4 DEF StartCase, WarmArms, PlanInner, At, Go, SituInv, OwnSteps
    <2>5. CASE TimePair \/ TimeRound
      BY <2>5 DEF TimePair, TimeRound, At, SituInv, OwnSteps
    <2> QED
      BY <2>1, <2>2, <2>3, <2>4, <2>5 DEF SweepNext
  <1>2. /\ turn \in [case : Nat, variant : Nat, trial : Nat]
        /\ program # "split_k" => readings \in Seq(ArmReadings)
    BY <1>1 DEF SituInv, ReadInv, Sweeps
  <1>3. /\ turn' \in [case : Nat, variant : Nat, trial : Nat]
        /\ program # "split_k" => readings' \in Seq(ArmReadings)
    <2>1. CASE StartSweep \/ EndJit \/ EndCase \/ EndSweep
      BY <1>2, <2>1 DEF StartSweep, EndJit, EndCase, EndSweep, CloseBlock, Go, End, sweepVars
    <2>2. CASE CompileVariant \/ CheckVariant \/ CallGather
      <3>1. readings' = readings /\ (turn' = turn \/ turn' = [turn EXCEPT !.variant = @ + 1])
        BY <2>2 DEF CompileVariant, CheckVariant, CallGather, End, harnessVars
      <3> QED
        BY <1>2, <3>1
    <2>5. CASE StartCase \/ WarmArms \/ PlanInner
      <3>1. /\ readings' = readings
            /\ \/ turn' = [case |-> turn.case + 1, variant |-> 1, trial |-> 0]
               \/ turn' = [turn EXCEPT !.variant = 1]
               \/ turn' = turn
        BY <2>5 DEF StartCase, WarmArms, PlanInner
      <3> QED
        BY <1>2, <3>1
    <2>3. CASE TimePair
      <3>1. /\ program = "ops"
            /\ \/ turn' = [turn EXCEPT !.trial = @ + 1]
               \/ turn' = [turn EXCEPT !.variant = @ + 1, !.trial = 0]
        BY <2>3 DEF TimePair
      <3>7. turn' \in [case : Nat, variant : Nat, trial : Nat]
        <4>1. CASE turn' = [turn EXCEPT !.trial = @ + 1]
          BY <1>2, <4>1
        <4>2. CASE turn' = [turn EXCEPT !.variant = @ + 1, !.trial = 0]
          <5>1. turn' = [case |-> turn.case, variant |-> turn.variant + 1, trial |-> 0]
            BY <1>2, <4>2
          <5> QED
            BY <1>2, <5>1
        <4> QED
          BY <3>1, <4>1, <4>2
      <3>2. PICK series \in Seq(ArmReadings) : series = IF turn.trial = 0 THEN <<>> ELSE readings
        <4>1. readings \in Seq(ArmReadings) /\ <<>> \in Seq(ArmReadings)
          BY <1>2, <3>1
        <4> QED
          BY <4>1, Zenon
      <3>3. readings' = series \o [i \in 1..2 |-> [trial |-> turn.trial, place |-> i,
                                                  name |-> Order(turn.trial)[i]]]
        BY <2>3, <3>2 DEF TimePair
      <3>4. PICK t \in Nat : t = turn.trial
        BY <1>2
      <3>5. series \o [i \in 1..2 |-> [trial |-> t, place |-> i, name |-> Order(t)[i]]]
               \in Seq(ArmReadings)
        BY TwoMore
      <3>6. readings' \in Seq(ArmReadings)
        BY <3>3, <3>4, <3>5
      <3> QED
        BY <3>6, <3>7
    <2>4. CASE TimeRound
      BY <1>2, <2>4 DEF TimeRound
    <2> QED
      BY <2>1, <2>2, <2>3, <2>4, <2>5 DEF SweepNext
  <1>4. program \notin Modes
    BY <1>1 DEF Modes, Sweeps
  <1> QED
    BY <1>1, <1>3, <1>4, Elsewhere

\* A step of bench_in_situ.
LEMMA SituAndSitu ==
    ASSUME SituInv, SituNext, UNCHANGED <<soloVars, sweepVars>>
    PROVE  SituInv'
  <1>1. /\ program \in Modes /\ program' = program /\ turn' = turn
        /\ turn \in [case : Nat, variant : Nat, trial : Nat]
    <2>1. program \in Modes /\ program' = program
      BY DEF SituNext, LoadModel, Warm, Compile, TakeReference, TakeVariant, CountDiffers,
         Summarise, At, Go, End, SituInv, OwnSteps
    <2> QED
      BY <2>1 DEF sweepVars, SituInv, ReadInv
  <1>2. program \notin {"isolated", "paired", "ops"}
    BY <1>1 DEF Modes
  <1>3. OwnSteps'
    <2>1. step' \in {"warm", "compile", "reference", "variant", "ended"}
      BY DEF SituNext, LoadModel, Warm, Compile, TakeReference, TakeVariant, CountDiffers,
         Summarise, At, Go, End
    <2> QED
      BY <1>1, <2>1 DEF SituInv, OwnSteps
  <1>4. /\ PlaceInv /\ ReadInv /\ PairInv
        /\ Measurable(Items) /\ Len(Items) \in Nat \ {0}
    BY <1>1, CurrentIs DEF SituInv
  <1>5. PICK items : /\ Measurable(items) /\ readings \in Seq(ListReadings(items))
                     /\ step \in {"reference", "variant"} => items = Items
    BY <1>1, <1>4 DEF ReadInv
  <1>6. DOMAIN layers = {"packed", "affine"} /\ DOMAIN layers' = {"packed", "affine"}
    <2>1. DOMAIN layers' = DOMAIN layers
      BY DEF SituNext, LoadModel, Warm, Compile, TakeReference, TakeVariant, CountDiffers, Summarise
    <2> QED
      BY <1>4, <2>1 DEF PairInv
  <1>7. CASE LoadModel \/ Warm \/ CountDiffers
    <2>1. /\ place' = place /\ pair' = pair /\ readings' = readings
          /\ step' \in {"warm", "compile", "ended"}
          /\ step \in {"start", "warm", "variant"}
      BY <1>7 DEF LoadModel, Warm, CountDiffers, At, Go, End
    <2>2. pair.variant = <<>>
      BY <1>4, <2>1 DEF PairInv, NoPair
    <2>3. PlaceInv'
      BY <1>1, <1>4, <2>1 DEF PlaceInv, Items
    <2>4. ReadInv'
      BY <1>1, <1>2, <1>5, <2>1 DEF ReadInv
    <2>5. PairInv'
      BY <1>6, <2>1, <2>2 DEF PairInv
    <2> QED
      BY <1>3, <2>3, <2>4, <2>5 DEF SituInv
  <1>8. CASE Compile
    <2>1. /\ place' = place /\ pair' = pair /\ readings' = <<>>
          /\ step = "compile" /\ step' = "reference"
      BY <1>8 DEF Compile, At, Go
    <2>2. pair.variant = <<>>
      BY <1>4, <2>1 DEF PairInv
    <2>3. PlaceInv' /\ Items' = Items
      BY <1>1, <1>4, <2>1 DEF PlaceInv, Items
    <2>4. <<>> \in Seq(ListReadings(Items))
      OBVIOUS
    <2>5. ReadInv'
      BY <1>1, <1>2, <1>4, <2>1, <2>3, <2>4 DEF ReadInv
    <2>6. PairInv'
      BY <1>6, <2>1, <2>2 DEF PairInv
    <2> QED
      BY <1>3, <2>3, <2>5, <2>6 DEF SituInv
  <1>9. CASE TakeReference
    <2>1. /\ place' = place /\ readings' = readings /\ place.round <= SITU_ROUNDS
          /\ step = "reference" /\ step' = "variant"
          /\ layers' = [layers EXCEPT ![CurrentItem.on] = InPlace(Nothing)]
          /\ pair' = [NoPair EXCEPT !.reference = layers'[CurrentItem.on]]
      BY <1>9 DEF TakeReference, At, Go
    <2>2. layers'[CurrentItem.on] = InPlace(Nothing)
      BY <1>1, <1>4, <1>6, <2>1, CurrentIs
    <2>3. PlaceInv' /\ Items' = Items
      BY <1>1, <1>4, <2>1 DEF PlaceInv, Items
    <2>4. ReadInv'
      BY <1>1, <1>2, <1>5, <2>1, <2>3 DEF ReadInv
    <2>5. InPlace(Nothing)' = InPlace(Nothing)
      BY <1>1, <2>1 DEF InPlace, StubAllBut, PinAll, Shipped
    <2>6. pair' = [NoPair EXCEPT !.reference = InPlace(Nothing)'] /\ pair'.variant = <<>>
      BY <2>1, <2>2, <2>5 DEF NoPair
    <2>7. PairInv'
      BY <1>6, <2>1, <2>6 DEF PairInv
    <2> QED
      BY <1>3, <2>3, <2>4, <2>7 DEF SituInv
  <1>10. CASE TakeVariant
    <2> PICK item : item = CurrentItem
      OBVIOUS
    <2>1. /\ step = "variant" /\ step' = "reference" /\ model' = model
          /\ layers' = [layers EXCEPT ![item.on] = InPlace(item.moves)]
          /\ pair' = [pair EXCEPT !.item = item, !.variant = layers'[item.on]]
          /\ readings' = Append(readings,
                [trial |-> place.round, place |-> place.turn, name |-> item.name])
          /\ Layers(Takes(item.moves)) = CensusLayers(Takes(item.moves))
          /\ place' = IF place.turn < Len(Items) THEN [place EXCEPT !.turn = @ + 1]
                      ELSE [place EXCEPT !.turn = 1, !.round = @ + 1]
      BY <1>10 DEF TakeVariant, At, Go, File
    <2>2. /\ layers'[item.on] = InPlace(item.moves)
          /\ \A k \in DOMAIN item.moves : item.moves[k] # Stub
      BY <1>1, <1>4, <1>6, <2>1, CurrentIs
    <2>3. /\ place' \in [batch : Nat, block : Nat, round : Nat, turn : Nat]
          /\ place'.batch = place.batch /\ place'.block = place.block /\ place'.round > 0
          /\ place'.turn \in 1..Len(Items) /\ (place'.turn # 1 => place'.round <= SITU_ROUNDS)
      <3>1. /\ place \in [batch : Nat, block : Nat, round : Nat, turn : Nat]
            /\ place.turn \in 1..Len(Items) /\ place.round > 0 /\ place.round <= SITU_ROUNDS
        BY <1>1, <1>4, <2>1 DEF PlaceInv
      <3>2. PICK n \in Nat \ {0} : n = Len(Items)
        BY <1>4
      <3>3. CASE place.turn < n
        <4>1. place' = [place EXCEPT !.turn = @ + 1]
          BY <2>1, <3>2, <3>3
        <4> QED
          BY <3>1, <3>2, <3>3, <4>1
      <3>4. CASE ~(place.turn < n)
        <4>1. place' = [place EXCEPT !.turn = 1, !.round = @ + 1]
          BY <2>1, <3>2, <3>4
        <4>2. place' = [batch |-> place.batch, block |-> place.block,
                        round |-> place.round + 1, turn |-> 1]
          BY <3>1, <4>1
        <4> QED
          BY <3>1, <3>2, <4>2
      <3> QED
        BY <3>3, <3>4
    <2>4. Items' = Items
      BY <1>1, <2>3 DEF Items
    <2>5. PlaceInv'
      BY <1>1, <1>4, <2>1, <2>3, <2>4 DEF PlaceInv
    <2>6. ReadInv'
      <3>1. [trial |-> place.round, place |-> place.turn, name |-> item.name] \in ListReadings(Items)
        BY <1>1, <1>4, CurrentIs
      <3>2. readings \in Seq(ListReadings(Items))
        BY <1>5, <2>1
      <3>3. readings' \in Seq(ListReadings(Items))
        BY <2>1, <3>1, <3>2
      <3> QED
        BY <1>1, <1>2, <1>4, <2>4, <3>3 DEF ReadInv
    <2>7. /\ InPlace(Nothing)' = InPlace(Nothing)
          /\ InPlace(item.moves)' = InPlace(item.moves)
      BY <1>1, <2>3 DEF InPlace, StubAllBut, PinAll, Shipped
    <2>8. PairInv'
      <3>1. pair = [NoPair EXCEPT !.reference = InPlace(Nothing)]
        BY <1>4, <2>1 DEF PairInv
      <3>2. pair' = [item |-> item, reference |-> InPlace(Nothing), variant |-> InPlace(item.moves)]
        BY <2>1, <2>2, <3>1 DEF NoPair
      <3>3. Takes(item.moves)' = Takes(item.moves)
        BY <1>1, <2>3 DEF Takes, Shipped
      <3>4. Layers(Takes(item.moves))' = Layers(Takes(item.moves))
        BY <2>1, <3>3 DEF Layers
      <3>5. CensusLayers(Takes(item.moves))' = CensusLayers(Takes(item.moves))
        BY <3>3 DEF CensusLayers
      <3>6. pair'.variant = InPlace(item.moves)' /\ pair'.item.moves = item.moves
        BY <2>7, <3>2
      <3>7. pair'.reference = InPlace(Nothing)'
        BY <2>7, <3>2
      <3>8. Layers(Takes(item.moves))' = CensusLayers(Takes(item.moves))'
        BY <2>1, <3>4, <3>5
      <3> QED
        BY <1>1, <1>6, <2>1, <2>2, <3>6, <3>7, <3>8 DEF PairInv
    <2> QED
      BY <1>3, <2>5, <2>6, <2>8 DEF SituInv
  <1>11. CASE Summarise
    <2>1. /\ step = "reference" /\ readings' = readings /\ pair' = NoPair
          /\ place.round > SITU_ROUNDS /\ step' # "reference" /\ step' # "variant"
          /\ \/ place' = place
             \/ /\ place.block < Blocks(program)
                /\ place' = [place EXCEPT !.block = @ + 1, !.round = 1]
             \/ /\ place.batch < Len(BATCHES)
                /\ place' = [batch |-> place.batch + 1, block |-> 1, round |-> 1, turn |-> 1]
      BY <1>11 DEF Summarise, At, Go, End
    <2>2. PairInv'
      BY <1>6, <2>1 DEF PairInv, NoPair
    <2>3. ReadInv'
      BY <1>1, <1>2, <1>5, <2>1 DEF ReadInv
    <2>4. PlaceInv'
      <3>1. /\ place \in [batch : Nat, block : Nat, round : Nat, turn : Nat]
            /\ place.batch \in DOMAIN BATCHES /\ place.block \in 1..Blocks(program)
            /\ place.turn = 1
        <4>1. SITU_ROUNDS \in Nat
          BY SituAssumption
        <4> QED
          BY <1>1, <1>4, <2>1, <4>1 DEF PlaceInv
      <3>2. Blocks(program) \in Nat \ {0}
        BY CensusIs DEF Blocks
      <3>3. /\ place' \in [batch : Nat, block : Nat, round : Nat, turn : Nat]
            /\ place'.batch \in DOMAIN BATCHES /\ place'.block \in 1..Blocks(program)
            /\ place'.round > 0 /\ place'.turn = 1
        <4>1. CASE place' = place
          BY <1>1, <1>4, <3>1, <4>1 DEF PlaceInv
        <4>2. CASE /\ place.block < Blocks(program)
                   /\ place' = [place EXCEPT !.block = @ + 1, !.round = 1]
          <5>1. place' = [batch |-> place.batch, block |-> place.block + 1, round |-> 1,
                          turn |-> place.turn]
            BY <3>1, <4>2
          <5> QED
            BY <3>1, <3>2, <4>2, <5>1
        <4>3. CASE /\ place.batch < Len(BATCHES)
                   /\ place' = [batch |-> place.batch + 1, block |-> 1, round |-> 1, turn |-> 1]
          BY <3>1, <3>2, <4>3, CensusIs
        <4> QED
          BY <2>1, <4>1, <4>2, <4>3
      <3>4. Measurable(Items')
        BY <1>1, <3>3, AllMeasurable DEF Items
      <3>5. Len(Items') \in Nat \ {0}
        BY <3>4 DEF Measurable
      <3> QED
        BY <1>1, <2>1, <3>3, <3>5 DEF PlaceInv
    <2> QED
      BY <1>3, <2>2, <2>3, <2>4 DEF SituInv
  <1> QED
    BY <1>7, <1>8, <1>9, <1>10, <1>11 DEF SituNext

\* Every step of every program keeps what is measured apart.
LEMMA SituAlways ==
    ASSUME SituInv, round \in Nat, [Next]_vars
    PROVE  SituInv'
  <1>1. CASE UNCHANGED <<harnessVars, situVars, sweepVars>>
    <2>1. UNCHANGED <<program, step, readings, turn, place, layers, model, pair>>
      BY <1>1 DEF harnessVars, situVars, sweepVars
    <2>2. Items' = Items
      BY <2>1 DEF Items
    <2>3. InPlace(Nothing)' = InPlace(Nothing)
      BY <2>1 DEF InPlace, StubAllBut, PinAll, Shipped
    <2>4. PairInv'
      <3>1. ASSUME NEW moves
            PROVE  /\ InPlace(moves)' = InPlace(moves)
                   /\ Layers(Takes(moves))' = Layers(Takes(moves))
                   /\ CensusLayers(Takes(moves))' = CensusLayers(Takes(moves))
        <4>1. InPlace(moves)' = InPlace(moves)
          BY <2>1 DEF InPlace, StubAllBut, PinAll, Shipped
        <4>2. Takes(moves)' = Takes(moves)
          BY <2>1 DEF Takes, Shipped
        <4>3. Layers(Takes(moves))' = Layers(Takes(moves))
          BY <2>1, <4>2 DEF Layers
        <4>4. CensusLayers(Takes(moves))' = CensusLayers(Takes(moves))
          BY <4>2 DEF CensusLayers
        <4> QED
          BY <4>1, <4>3, <4>4
      <3> QED
        BY <2>1, <2>3, <3>1 DEF SituInv, PairInv
    <2>5. OwnSteps' /\ PlaceInv' /\ ReadInv'
      BY <2>1, <2>2 DEF SituInv, OwnSteps, PlaceInv, ReadInv
    <2> QED
      BY <2>4, <2>5 DEF SituInv
  <1>2. CASE UNCHANGED vars \/ Others
    BY <1>1, <1>2 DEF vars, Others
  <1> QED
    BY <1>2, SoloAndSitu, SituAndSitu, SweepAndSitu DEF Next, Run

----------------------------------------------------------------------------
(* The libraries of the sweeps. *)

\* A sweep starts with nothing compiled; the jit block has compiled what it has timed,
\* and nothing else; whatever is measured of a case has been warmed.
SweepInv ==
    /\ libraries \in [DOMAIN libraries -> Nat]
    /\ program \in Sweeps /\ step = "start" => DOMAIN libraries = {}
    /\ step = "jit" =>
           \A lib \in DOMAIN libraries :
               \E i \in DOMAIN Probes : i < turn.variant /\ lib = Probes[i]
    /\ step \in {"plan", "timed"} =>
           \A lib \in ToSet(Measured) :
               lib \in DOMAIN libraries /\ libraries[lib] >= WARMUP_SAMPLES

\* Nothing is compiled yet.
LEMMA SweepInitially == Init => SweepInv
  <1> SUFFICES ASSUME Init PROVE SweepInv
    OBVIOUS
  <1>1. libraries = [lib \in {} |-> 0] /\ step = "start"
    BY DEF Init, SweepInit, HarnessInit
  <1> QED
    BY <1>1 DEF SweepInv

\* No two libraries of the jit block are one: the variants differ, and so do those
\* that a tensor supports.
LEMMA ProbesDiffer ==
    ASSUME NEW i \in DOMAIN Probes, NEW j \in DOMAIN Probes, Probes[i] = Probes[j]
    PROVE  i = j
  <1> PICK probe : probe = LayoutOf(512, 2)
    OBVIOUS
  <1> PICK variants : variants = Runnable(probe)
    OBVIOUS
  <1> PICK T : T = ToSet(Variants)
    OBVIOUS
  <1> PICK name : name = [c \in T |-> c]
    OBVIOUS
  <1>1. Variants \in Seq(T) /\ IsInjective(Variants)
    BY SweepAssumption
  <1>2. NamesApart(Variants, name)
    <2>1. \A k \in 1..Len(Variants) : name[Variants[k]] = Variants[k]
      BY <1>1
    <2> QED
      BY <1>1, <2>1 DEF NamesApart, IsInjective
  <1> PICK keep : variants = Sift(Variants, keep)
    BY DEF Runnable
  <1>3. variants \in Seq(T)
    BY <1>1, SiftIs
  <1>4. NamesApart(variants, name)
    BY <1>1, <1>2, SiftApart
  <1>5. /\ DOMAIN Probes = DOMAIN variants
        /\ Probes[i].config = variants[i] /\ Probes[j].config = variants[j]
    BY DEF Probes, LibrariesOf, Library
  <1>6. variants[i] = variants[j] /\ i \in 1..Len(variants) /\ j \in 1..Len(variants)
    BY <1>3, <1>5
  <1> QED
    BY <1>4, <1>6 DEF NamesApart

\* What runs has run more, and nothing else has.
LEMMA RanIs ==
    ASSUME libraries \in [DOMAIN libraries -> Nat], NEW arms, NEW n \in Nat,
           libraries' = Ran(arms, n)
    PROVE  /\ libraries' \in [DOMAIN libraries' -> Nat]
           /\ DOMAIN libraries' = DOMAIN libraries \cup ToSet(arms)
           /\ \A lib \in DOMAIN libraries : libraries'[lib] >= libraries[lib]
           /\ \A lib \in ToSet(arms) : libraries'[lib] >= n
           /\ RunBy \subseteq ToSet(arms)
  <1> PICK S : S = ToSet(arms)
    OBVIOUS
  <1>1. libraries' = [lib \in DOMAIN libraries \cup S |->
                          (IF lib \in DOMAIN libraries THEN libraries[lib] ELSE 0)
                              + (IF lib \in S THEN n ELSE 0)]
    BY DEF Ran
  <1>2. \A lib \in DOMAIN libraries : libraries[lib] \in Nat
    OBVIOUS
  <1>3. \A lib \in DOMAIN libraries \ S : libraries'[lib] = libraries[lib]
    BY <1>1, <1>2
  <1>4. RunBy \subseteq S
    BY <1>1, <1>3 DEF RunBy
  <1> QED
    BY <1>1, <1>2, <1>4

\* The steps of the other programs are none of the sweeps'.
LEMMA OtherSteps ==
    ASSUME OwnSteps, SoloNext \/ SituNext
    PROVE  program \notin Sweeps /\ program' = program
  <1>1. CASE SoloNext
    <2>1. program \in {"isolated", "paired"} /\ program' = program
      <3>1. CASE StartArm \/ SoloTrial \/ SoloExits
        BY <3>1 DEF StartArm, SoloTrial, SoloExits, At, Go, End, harnessVars, OwnSteps
      <3>2. CASE KeepArm \/ VoidRound \/ GiveUp
        BY <3>2 DEF KeepArm, VoidRound, GiveUp, At, Go, End, OwnSteps
      <3>3. CASE Collect
        BY <3>3 DEF Collect, At
      <3>4. CASE Poll \/ Sleep \/ PollEnds
        BY <3>4 DEF Poll, Sleep, PollEnds, At, harnessVars, OwnSteps
      <3>5. CASE StartBlock \/ EndBlock \/ ReportModels
        BY <3>5 DEF StartBlock, EndBlock, ReportModels, At, Go, End, OwnSteps
      <3>6. CASE PairedTrial
        BY <3>6 DEF PairedTrial, At, OwnSteps
      <3> QED
        BY <1>1, <3>1, <3>2, <3>3, <3>4, <3>5, <3>6 DEF SoloNext
    <2> QED
      BY <2>1 DEF Sweeps
  <1>2. CASE SituNext
    <2>1. program \in Modes /\ program' = program
      BY <1>2 DEF SituNext, LoadModel, Warm, Compile, TakeReference, TakeVariant, CountDiffers,
         Summarise, At, Go, End, OwnSteps
    <2> QED
      BY <2>1 DEF Modes, Sweeps
  <1> QED
    BY <1>1, <1>2

\* A step of bench_ops or bench_split_k keeps what is known of the libraries, and what
\* it runs was new in the jit block, and warm wherever it is measured.
LEMMA SweepStep ==
    ASSUME SweepInv, OwnSteps, ReadInv, SweepNext
    PROVE  /\ SweepInv'
           /\ \A lib \in RunBy :
                 /\ step = "jit" => lib \notin DOMAIN libraries
                 /\ step \in {"plan", "timed"} =>
                       lib \in DOMAIN libraries /\ libraries[lib] >= WARMUP_SAMPLES
  <1> DEFINE Runs(arms) ==
                 \A lib \in ToSet(arms) :
                    /\ step = "jit" => lib \notin DOMAIN libraries
                    /\ step \in {"plan", "timed"} =>
                          lib \in DOMAIN libraries /\ libraries[lib] >= WARMUP_SAMPLES
  <1>1. /\ libraries \in [DOMAIN libraries -> Nat] /\ WARMUP_SAMPLES \in Nat
        /\ turn \in [case : Nat, variant : Nat, trial : Nat]
    BY SweepAssumption DEF SweepInv, ReadInv
  <1>2. libraries' = libraries => RunBy = {}
    BY DEF RunBy
  <1>3. CASE StartSweep
    <2>1. DOMAIN libraries = {} /\ libraries' = libraries /\ step' \in {"jit", "next"}
      BY <1>3 DEF StartSweep, At, Go, sweepVars, SweepInv
    <2> QED
      BY <1>1, <1>2, <2>1 DEF SweepInv
  <1>4. CASE CompileVariant
    <2> DEFINE probe == Probes[turn.variant]
    <2>1. /\ step = "jit" /\ step' = "jit" /\ turn.variant \in DOMAIN Probes
          /\ turn' = [turn EXCEPT !.variant = @ + 1]
          /\ libraries' = Ran(<<probe>>, 2)
      BY <1>4 DEF CompileVariant, At, harnessVars
    <2>2. ToSet(<<probe>>) = {probe}
      BY DEF ToSet
    <2>3. /\ libraries' \in [DOMAIN libraries' -> Nat]
          /\ DOMAIN libraries' = DOMAIN libraries \cup {probe} /\ RunBy \subseteq {probe}
      BY <1>1, <2>1, <2>2, RanIs
    <2>4. turn.variant \in Nat /\ turn'.variant = turn.variant + 1
      BY <1>1, <2>1
    <2>5. \A lib \in DOMAIN libraries :
              \E i \in DOMAIN Probes : i < turn.variant /\ lib = Probes[i]
      BY <2>1 DEF SweepInv
    <2>6. DOMAIN Probes \subseteq Nat
      <3>1. PICK T : Runnable(LayoutOf(512, 2)) \in Seq(T)
        <4>1. Variants \in Seq(ToSet(Variants))
          BY SweepAssumption
        <4> QED
          BY <4>1, SiftIs DEF Runnable
      <3>2. DOMAIN Probes = DOMAIN Runnable(LayoutOf(512, 2))
        BY DEF Probes, LibrariesOf
      <3> QED
        BY <3>1, <3>2
    <2>7. probe \notin DOMAIN libraries
      <3> SUFFICES ASSUME probe \in DOMAIN libraries PROVE FALSE
        OBVIOUS
      <3>1. PICK i \in DOMAIN Probes : i < turn.variant /\ probe = Probes[i]
        BY <2>5
      <3>2. i = turn.variant
        BY <2>1, <3>1, ProbesDiffer
      <3> QED
        BY <2>4, <3>1, <3>2
    <2>8. \A lib \in DOMAIN libraries' :
              \E i \in DOMAIN Probes : i < turn'.variant /\ lib = Probes[i]
      <3> SUFFICES ASSUME NEW lib \in DOMAIN libraries'
                   PROVE  \E i \in DOMAIN Probes : i < turn'.variant /\ lib = Probes[i]
        OBVIOUS
      <3>1. CASE lib \in DOMAIN libraries
        <4>1. PICK i \in DOMAIN Probes : i < turn.variant /\ lib = Probes[i]
          BY <2>5, <3>1
        <4>2. i \in Nat
          BY <2>6
        <4> QED
          BY <2>4, <4>1, <4>2
      <3>2. CASE lib = probe
        BY <2>1, <2>4, <3>2
      <3> QED
        BY <2>3, <3>1, <3>2
    <2>9. SweepInv'
      BY <2>1, <2>3, <2>8 DEF SweepInv
    <2> QED
      BY <2>1, <2>3, <2>7, <2>9
  <1>5. CASE EndJit \/ StartCase \/ EndCase \/ EndSweep
    <2>1. libraries' = libraries /\ step' \in {"next", "check", "ended"}
      BY <1>5 DEF EndJit, StartCase, EndCase, EndSweep, CloseBlock, Go, End, sweepVars
    <2> QED
      BY <1>1, <1>2, <2>1 DEF SweepInv
  <1>6. CASE CheckVariant \/ CallGather
    <2>1. PICK arms : libraries' = Ran(arms, 1)
      BY <1>6 DEF CheckVariant, CallGather
    <2>2. step = "check" /\ step' \in {"check", "ended"}
      BY <1>6 DEF CheckVariant, CallGather, At, End, harnessVars
    <2>3. libraries' \in [DOMAIN libraries' -> Nat]
      BY <1>1, <2>1, RanIs
    <2> QED
      BY <2>2, <2>3 DEF SweepInv
  <1>7. CASE WarmArms
    <2>1. /\ step = "check" /\ step' \in {"plan", "timed"} /\ program' = program
          /\ libraries' = Ran(Measured, WARMUP_SAMPLES)
          /\ turn' = [turn EXCEPT !.variant = 1]
      BY <1>7 DEF WarmArms, Warmed, At, Go
    <2>2. Measured' = Measured
      <3>1. turn'.case = turn.case
        BY <1>1, <2>1
      <3> QED
        BY <2>1, <3>1 DEF Measured, Gathering
    <2>3. /\ libraries' \in [DOMAIN libraries' -> Nat]
          /\ DOMAIN libraries' = DOMAIN libraries \cup ToSet(Measured)
          /\ \A lib \in ToSet(Measured) : libraries'[lib] >= WARMUP_SAMPLES
      BY <1>1, <2>1, RanIs
    <2> QED
      BY <2>1, <2>2, <2>3 DEF SweepInv
  <1>8. CASE PlanInner \/ TimePair \/ TimeRound
    <2>1. /\ step \in {"plan", "timed"} /\ step' = "timed" /\ program' = program
          /\ turn'.case = turn.case
      <3>1. CASE PlanInner
        BY <3>1 DEF PlanInner, At, Go
      <3>2. CASE TimePair
        BY <1>1, <3>2 DEF TimePair, At
      <3>3. CASE TimeRound
        BY <1>1, <3>3 DEF TimeRound, At
      <3> QED
        BY <1>8, <3>1, <3>2, <3>3
    <2>2. PICK arms :
              /\ ToSet(arms) \subseteq ToSet(Measured)
              /\ \E n \in Nat : libraries' = Ran(arms, n)
      <3>1. CASE PlanInner
        BY <3>1 DEF PlanInner
      <3>2. CASE TimePair
        <4>1. ToSet(<<Measured[turn.variant]>>) = {Measured[turn.variant]}
          BY DEF ToSet
        <4>2. Measured[turn.variant] \in ToSet(Measured)
          BY <3>2 DEF TimePair, ToSet
        <4>3. 1 + (IF turn.trial = 0 THEN WARMUP_SAMPLES ELSE 0) \in Nat
          BY <1>1
        <4>4. libraries' = Ran(<<Measured[turn.variant]>>,
                               1 + (IF turn.trial = 0 THEN WARMUP_SAMPLES ELSE 0))
          BY <3>2 DEF TimePair
        <4>5. ToSet(<<Measured[turn.variant]>>) \subseteq ToSet(Measured)
          BY <4>1, <4>2
        <4> QED
          BY <4>3, <4>4, <4>5
      <3>3. CASE TimeRound
        BY <3>3 DEF TimeRound
      <3> QED
        BY <1>8, <3>1, <3>2, <3>3
    <2>3. Measured' = Measured
      BY <2>1 DEF Measured, Gathering
    <2>4. \A lib \in ToSet(Measured) :
              lib \in DOMAIN libraries /\ libraries[lib] >= WARMUP_SAMPLES
      BY <2>1 DEF SweepInv
    <2>5. /\ libraries' \in [DOMAIN libraries' -> Nat]
          /\ DOMAIN libraries' = DOMAIN libraries \cup ToSet(arms)
          /\ \A lib \in DOMAIN libraries : libraries'[lib] >= libraries[lib]
          /\ RunBy \subseteq ToSet(arms)
      BY <1>1, <2>2, RanIs
    <2>6. \A lib \in ToSet(Measured) :
              lib \in DOMAIN libraries' /\ libraries'[lib] >= WARMUP_SAMPLES
      <3> SUFFICES ASSUME NEW lib \in ToSet(Measured)
                   PROVE  lib \in DOMAIN libraries' /\ libraries'[lib] >= WARMUP_SAMPLES
        OBVIOUS
      <3>1. lib \in DOMAIN libraries /\ libraries[lib] >= WARMUP_SAMPLES
        BY <2>4
      <3>2. lib \in DOMAIN libraries' /\ libraries'[lib] >= libraries[lib]
        BY <2>5, <3>1
      <3>3. libraries[lib] \in Nat /\ libraries'[lib] \in Nat
        BY <1>1, <2>5, <3>1, <3>2
      <3> QED
        BY <1>1, <3>1, <3>2, <3>3
    <2>7. SweepInv'
      BY <2>1, <2>3, <2>5, <2>6 DEF SweepInv
    <2> QED
      BY <2>1, <2>2, <2>4, <2>5, <2>7
  <1> QED
    BY <1>3, <1>4, <1>5, <1>6, <1>7, <1>8 DEF SweepNext

\* So does every other step, which runs none of them.
LEMMA SweepAlways ==
    ASSUME SweepInv, SituInv, SituInv', [Next]_vars
    PROVE  SweepInv'
  <1>1. OwnSteps /\ OwnSteps' /\ ReadInv
    BY DEF SituInv
  <1>2. CASE UNCHANGED <<harnessVars, sweepVars>>
    BY <1>2 DEF harnessVars, sweepVars, SweepInv, Measured, Gathering
  <1>3. CASE UNCHANGED vars \/ Others
    BY <1>2, <1>3 DEF vars, Others
  <1>4. CASE (SoloNext \/ SituNext) /\ UNCHANGED sweepVars
    <2>1. program' = program /\ program \notin Sweeps
      BY <1>1, <1>4, OtherSteps
    <2>2. step' \notin {"jit", "plan", "timed"}
      BY <1>1, <2>1 DEF OwnSteps
    <2>3. libraries' = libraries
      BY <1>4 DEF sweepVars
    <2> QED
      BY <2>1, <2>2, <2>3 DEF SweepInv
  <1>5. CASE SweepNext
    BY <1>1, <1>5, SweepStep
  <1> QED
    BY <1>3, <1>4, <1>5 DEF Next, Run

----------------------------------------------------------------------------
(* The benchmarks. *)

\* The inductive invariant.
Inv == GateInv /\ ChildGone /\ SoloInv /\ SituInv /\ SweepInv

\* The inductive invariant of all the programs, whichever runs, and whatever the other
\* processes on the GPU do.
THEOREM Inductive == Spec => []Inv
  <1>1. Init => Inv
    BY GateInitially, SweepInitially, SoloInitially, SituInitially DEF Inv
  <1>2. Inv /\ [Next]_vars => Inv'
    <2> SUFFICES ASSUME Inv, [Next]_vars PROVE Inv'
      OBVIOUS
    <2>1. round \in Nat
      BY DEF Inv, SoloInv
    <2>2. SituInv'
      BY <2>1, SituAlways DEF Inv
    <2>3. SweepInv'
      BY <2>2, SweepAlways DEF Inv
    <2> QED
      BY <2>2, <2>3, GateAlways, SoloAlways DEF Inv
  <1> QED
    BY <1>1, <1>2, PTL DEF Spec

\* A block that is voided did share the GPU: what others took of it, those included that
\* came and went meanwhile, is over what is allowed. What the gate counts, and throws
\* a block away for, never exceeds what they took (foreign_ticks).
THEOREM VoidIsDeserved == Spec => []VoidsDeserved
  <1>1. Inv => VoidsDeserved
    <2> SUFFICES ASSUME Inv, window.void PROVE Over(window.stolen, window.ticks)
      BY DEF VoidsDeserved
    <2>1. Over(SumFunction(stayed), window.ticks)
      BY DEF Inv, GateInv, Judged
    <2>2. /\ SumFunction(stayed) \in Nat /\ window.stolen \in Nat /\ window.ticks \in Nat
          /\ SumFunction(stayed) <= window.stolen
      BY SumOfCounter DEF Inv, GateInv, GateTypeOK
    <2>3. PICK part \in Nat, of \in Nat : part = MAX_FOREIGN_SHARE.part /\ of = MAX_FOREIGN_SHARE.of
      BY GateAssumption
    <2>4. SumFunction(stayed) * of <= window.stolen * of
      BY <2>2, <2>3, ProductMonotone
    <2>5. /\ SumFunction(stayed) * of \in Nat /\ window.stolen * of \in Nat
          /\ part * window.ticks \in Nat
      BY <2>2, <2>3, ProductMonotone
    <2> QED
      BY <2>1, <2>3, <2>4, <2>5 DEF Over
  <1> QED
    BY <1>1, Inductive, PTL

\* A block that its residents took too much of is voided (exclusive_gpu).
THEOREM ResidentsAreSeen == Spec => []ResidentsVoid
  <1>1. Inv => ResidentsVoid
    BY DEF Inv, GateInv, Judged, ResidentsVoid
  <1> QED
    BY <1>1, Inductive, PTL

\* However many attempts at a round are voided, and whichever arm they hit, what is
\* kept is paired (bench_model.py).
THEOREM Pairing == Spec => []RoundsPaired
  <1>1. Inv => RoundsPaired
    <2> SUFFICES ASSUME Kept, round \in Nat PROVE RoundsPaired
      BY DEF Inv, SoloInv
    <2>1. PICK s \in Seq(Results) : s = collected["candidate"] /\ s = collected["reference"]
      BY DEF Kept, Arms
    <2>2. Len(s) = round /\ \A i \in 1..round : s[i].round = i - 1
      BY <2>1 DEF Kept, Arms
    <2> QED
      BY <2>1, <2>2 DEF RoundsPaired
  <1> QED
    BY <1>1, Inductive, PTL

\* What the jit block times as cold is compiled by that very call, and nothing else that
\* is timed, or that a count is chosen from, pays for a library or for its first runs
\* (measure_jit_cost, warm_and_plan, bench_split_k.run).
THEOREM WarmBeforeMeasured == Spec => WarmThenMeasured
  <1> DEFINE Step ==
                 \A lib \in RunBy :
                    /\ step = "jit" => lib \notin DOMAIN libraries
                    /\ step \in {"plan", "timed"} =>
                          lib \in DOMAIN libraries /\ libraries[lib] >= WARMUP_SAMPLES
  <1>1. Inv /\ [Next]_vars => [Step]_libraries
    <2> SUFFICES ASSUME Inv, [Next]_vars, libraries' # libraries PROVE Step
      OBVIOUS
    <2>1. SweepNext
      BY DEF Next, Run, Others, vars, sweepVars
    <2> QED
      BY <2>1, SweepStep DEF Inv, SituInv
  <1> QED
    BY <1>1, Inductive, PTL DEF Spec, WarmThenMeasured

\* Drift within a trial lands on every candidate alike: no candidate is measured twice
\* in the same place, in any stretch of as many trials as there are candidates (rotate).
THEOREM Spreading == Spec => []PlacesSpread
  <1>1. SituInv => PlacesSpread
    <2> SUFFICES ASSUME SituInv, program \in Programs, program # "split_k"
                 PROVE  SpreadIn(readings)
      BY DEF PlacesSpread, SpreadIn, SituInv, OwnSteps
    <2>1. CASE program \in {"isolated", "paired", "ops"}
      <3>1. PICK series \in Seq(ArmReadings) : series = readings
        BY <2>1 DEF SituInv, ReadInv
      <3>2. SpreadIn(series)
        BY ArmsSpread
      <3> QED
        BY <3>1, <3>2
    <2>2. CASE program \in Modes
      <3>1. PICK items : Measurable(items) /\ readings \in Seq(ListReadings(items))
        BY <2>2 DEF SituInv, ReadInv
      <3>2. PICK series \in Seq(ListReadings(items)) : series = readings
        BY <3>1
      <3>3. SpreadIn(series)
        BY <3>1, ListSpreads
      <3> QED
        BY <3>2, <3>3
    <2> QED
      BY <2>1, <2>2 DEF Programs, Modes
  <1> QED
    BY <1>1, Inductive, PTL DEF Inv

\* What a candidate is charged with is the difference that its own layers make, as many
\* as the census says, and what it is compared with runs what it is said to run.
THEOREM Comparable == Spec => []PairsComparable
  <1>1. SituInv => PairsComparable
    <2> SUFFICES ASSUME SituInv, pair.variant # <<>> PROVE PairsComparable
      BY DEF PairsComparable
    <2>1. PICK moves :
              /\ pair.reference = InPlace(Nothing) /\ pair.variant = InPlace(moves)
              /\ moves = pair.item.moves /\ \A k \in DOMAIN moves : moves[k] # Stub
              /\ Layers(Takes(moves)) = CensusLayers(Takes(moves))
      BY DEF SituInv, PairInv
    <2>2. ASSUME NEW s \in Shapes
          PROVE  /\ pair.reference[s] = IF program = "keep-one" THEN Stub ELSE Shipped(s)
                 /\ pair.variant[s] = IF Key(s) \in DOMAIN moves THEN moves[Key(s)]
                                      ELSE pair.reference[s]
      BY <2>1 DEF InPlace, StubAllBut, PinAll, Nothing
    <2>3. {s \in Shapes : pair.variant[s] # pair.reference[s]} = Takes(moves)
      BY <2>1, <2>2 DEF Takes
    <2> QED
      BY <2>1, <2>2, <2>3 DEF PairsComparable
  <1> QED
    BY <1>1, Inductive, PTL DEF Inv
=============================================================================
