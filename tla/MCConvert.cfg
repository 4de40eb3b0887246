\* One budget, so that every run writes the same two shards, over each other.
CONSTANTS
  Tensors <- ThreeTensors
  Quantised <- TwoQuantised
  Bytes <- SmallBytes
  NoFile = NoFile
  Torn = Torn
  Damaged = Damaged
  Sources = {s1, s2}
  Budgets <- Split
  MaxRuns = 3
  MaxPowerLosses = 1
  MaxDamage = 1
SPECIFICATION Spec
INVARIANTS ShardsWhole OneTensorResident ChecksPass VerifiedIsLoaded ManifestComesLast
PROPERTIES CompletedVerifies
CHECK_DEADLOCK FALSE
