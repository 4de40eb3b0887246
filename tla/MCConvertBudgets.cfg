\* Two budgets: a later run may write fewer or more shards than an earlier one.
CONSTANTS
  Tensors <- ThreeTensors
  Quantised <- TwoQuantised
  Bytes <- SmallBytes
  NoFile = NoFile
  Torn = Torn
  Damaged = Damaged
  Sources = {s1, s2}
  Budgets <- SplitOrNot
  MaxRuns = 2
  MaxPowerLosses = 0
  MaxDamage = 0
SPECIFICATION Spec
INVARIANTS VerifiedIsLoaded
CHECK_DEADLOCK FALSE
