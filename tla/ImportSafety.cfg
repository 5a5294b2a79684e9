SPECIFICATION Spec
CONSTANTS
  Drafts = {d1}
  Operators = {op1, op2}
  Workers = {w1}
  ChunkSize = 1
  MaxRetries = 1
  MaxBatches = 2
  MaxTasks = 2
  Requests = {"get", "queue", "review", "promote"}
  Faults = {"crash", "error", "draft_failure", "broker_down", "backlog"}
  NoHolder = NoHolder
SYMMETRY Symmetry
INVARIANT TypeOK
INVARIANT HumanGate
INVARIANT FindingsAreLinked
PROPERTY KeepsContract
PROPERTY ReanalysisSparesFindings
PROPERTY CompletedPromotesAll
PROPERTY DuplicatesAreOld
PROPERTY OverwritesAreOld
CHECK_DEADLOCK FALSE
