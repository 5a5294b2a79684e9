SPECIFICATION FairSpec
CONSTANTS
  Keyed = {}
  Misusers = {}
  Keyless = {c1, c2}
  Writers = {w1}
  Durable = TRUE
  OldRegisters = {{}}
  Faults = {}
  NoOne = NoOne
INVARIANT TrailVerifies
CHECK_DEADLOCK FALSE
