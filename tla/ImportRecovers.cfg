SPECIFICATION FairSpec
CONSTANTS
  Drafts = {d1, d2}
  Operators = {op1}
  Workers = {w1}
  ChunkSize = 1
  MaxRetries = 1
  MaxBatches = 1
  MaxTasks = 2
  Requests = {"get", "queue", "process", "review", "promote"}
  Faults = {"crash", "error", "draft_failure", "backlog"}
  NoHolder = NoHolder
INVARIANT AtMostOneFinding
PROPERTY QueuedEnds
PROPERTY PromotingEnds
CHECK_DEADLOCK FALSE
