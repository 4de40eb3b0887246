\* Two launches on the same counters and workspace, each with its own K chunk; two
\* blocks resident at once.
CONSTANTS
  Rows = 2
  MTile = 2
  Groups = 3
  GroupsPerChunk <- OneAndTwo
  MaxLaunches = 2
  Resident = 2
SPECIFICATION Spec
INVARIANTS TypeOK BarrierUniform TableRaceFree ReducerSeesAll OneReducer CountersClear
PROPERTIES ClearedWhenAnswered ImplementsGemv
CHECK_DEADLOCK FALSE
