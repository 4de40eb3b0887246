\* A second run is killed on its way.
CONSTANTS
  Tensors <- ThreeTensors
  Quantised <- TwoQuantised
  Bytes <- SmallBytes
  NoFile = NoFile
  Torn = Torn
  Damaged = Damaged
  Sources = {s1}
  Budgets <- Split
  MaxRuns = 2
  MaxPowerLosses = 0
  MaxDamage = 0
SPECIFICATION Spec
INVARIANTS VerifiedIsLoadable
CHECK_DEADLOCK FALSE
