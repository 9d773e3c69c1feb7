SPECIFICATION Spec
CONSTANTS
  h1 = h1
  b1 = b1
  Loop = Loop
  Http = {}
  Batch <- OneBatch
  Hygiene = TRUE
  Agent = FALSE
  QueryLimit = 1
  FlushEvery = 1
  MaxSession = 1
  MaxEpoch = 2
  MaxSeq = 2
  MaxFile = 1
INVARIANTS
  ActiveSessionIsKept
  DeletedWasDescribed
