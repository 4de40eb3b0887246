-------------------------------- MODULE Gemv --------------------------------
(***************************************************************************)
(* What launch_tq1_lut23_smem_streamk promises its caller                  *)
(* (cuda/tq1_lut23_streamk.cu): launches on one stream are answered one    *)
(* after the other, and each launch stores every output row exactly once,  *)
(* with a value that depends on the inputs alone and not on the order in   *)
(* which blocks and threads happen to run.                                 *)
(***************************************************************************)
EXTENDS Lut23Shape

VARIABLES
  launch,   \* launches so far; the last one is in flight or answered
  gpc,      \* groups per chunk of the last launch
  output    \* output of the last launch, << >> where nothing is stored yet

Init ==
  /\ launch = 0
  /\ gpc \in GroupsPerChunk
  /\ output = [r \in RowIds |-> Unset]

\* A launch is accepted once the one before has stored all its rows.
Launch(k) ==
  /\ launch < MaxLaunches
  /\ launch > 0 => \A r \in RowIds : output[r] # Unset
  /\ launch' = launch + 1
  /\ gpc' = k
  /\ output' = [r \in RowIds |-> Unset]

Store(r) ==
  /\ launch > 0
  /\ output[r] = Unset
  /\ output' = [output EXCEPT ![r] = ExactRow(launch, gpc)]
  /\ UNCHANGED <<launch, gpc>>

Next == (\E k \in GroupsPerChunk : Launch(k)) \/ (\E r \in RowIds : Store(r))

vars == <<launch, gpc, output>>

Spec == Init /\ [][Next]_vars
=============================================================================
