CONSTANTS
  Binaries = {"old", "new"}
  Signals = {FALSE, TRUE}
  NoMemory = {FALSE, TRUE}
  MaxCalls = 4
SPECIFICATION FairSpec
INVARIANTS
  QuietBetweenCalls
  LossNeedsMishap
  LatchNeedsEvidence
  SpawnsBounded
PROPERTIES
  ServiceSpec
  CallsReturn
