SPECIFICATION FairSpec
CONSTANTS
  Sessions = {s1}
  Workers = {w1}
  MaxVersions = 3
  MaxMajor = 2
  MaxMinor = 1
  MaxJobs = 2
INVARIANT TypeOK
INVARIANT OnePublished
INVARIANT NumbersUnique
INVARIANT LiveStatusIsBacked
PROPERTY IssuedIsFrozen
PROPERTY KeepsLedger
PROPERTY ProcessingEnds
CHECK_DEADLOCK FALSE
