SPECIFICATION Spec
CONSTANTS
  Drafts = {d1}
  Operators = {op1, op2}
  Workers = {w1}
  ChunkSize = 1
  MaxRetries = 1
  MaxBatches = 1
  MaxTasks = 2
  Requests = {"queue", "review", "promote"}
  Faults = {}
  NoHolder = NoHolder
PROPERTY PromotedIsFinal
CHECK_DEADLOCK FALSE
