CONSTANTS
  Binaries = {"new"}
  Signals = {TRUE}
  NoMemory = {FALSE}
  MaxCalls = 3
SPECIFICATION Spec
INVARIANT AnswersOwnCall
