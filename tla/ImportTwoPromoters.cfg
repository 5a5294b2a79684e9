SPECIFICATION Spec
CONSTANTS
  Drafts = {d1}
  Operators = {op1}
  Workers = {w1, w2}
  ChunkSize = 1
  MaxRetries = 1
  MaxBatches = 1
  MaxTasks = 3
  Requests = {"queue", "review", "promote"}
  Faults = {"error"}
  NoHolder = NoHolder
SYMMETRY Symmetry
INVARIANT AtMostOneFinding
CHECK_DEADLOCK FALSE
