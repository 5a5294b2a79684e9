SPECIFICATION FairSpec
CONSTANTS
  Workers = {w1}
  Requests = {r1}
  ChunkCount <- Lengths
  MaxJobs = 2
INVARIANTS TypeOK RowsHaveVectors OneGeneration 
 
CHECK_DEADLOCK FALSE
