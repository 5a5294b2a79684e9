SPECIFICATION Spec
CONSTANTS
  Sessions = {s1}
  Workers = {w1}
  MaxVersions = 3
  MaxMajor = 2
  MaxMinor = 1
  MaxJobs = 2
PROPERTY IndexingKeepsGovernance
CHECK_DEADLOCK FALSE
