SPECIFICATION FairSpec
CONSTANTS
  Keyed = {k1, k2, k3}
  Misusers = {k3}
  Keyless = {c1}
  Writers = {}
  Durable = TRUE
  OldRegisters = {{}, {2}}
  Faults = {"redis", "slow", "expire", "reject", "error"}
  NoOne = NoOne
INVARIANT TypeOK
INVARIANT NoForeignReplay
INVARIANT MintedIsFree
INVARIANT TrailVerifies
INVARIANT NoStandstill
PROPERTY KeepsPromise
PROPERTY RequestsEnd
CHECK_DEADLOCK FALSE
