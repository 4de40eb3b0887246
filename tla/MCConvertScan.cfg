\* An array rots in the finished artifact.
CONSTANTS
  Tensors <- ThreeTensors
  Quantised <- TwoQuantised
  Bytes <- SmallBytes
  NoFile = NoFile
  Torn = Torn
  Damaged = Damaged
  Sources = {s1}
  Budgets <- Split
  MaxRuns = 1
  MaxPowerLosses = 0
  MaxDamage = 1
SPECIFICATION Spec
INVARIANTS CodesScannedAtLoad
CHECK_DEADLOCK FALSE
