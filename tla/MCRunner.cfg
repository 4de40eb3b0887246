\* Three calls, of any stage, each with or without --force.
CONSTANTS
  Arguments = {"download", "audit", "pack", "verify", "cuda", "reports", "all"}
  MaxRuns = 3
  MaxArrivals = 1
  NoFile = NoFile
  Torn = Torn
SPECIFICATION Spec
INVARIANTS ForcedVerdictIsFresh ForcedRunRecovers
PROPERTIES MeasuredBehindGates WrongNumbersNeverPass
CHECK_DEADLOCK FALSE
