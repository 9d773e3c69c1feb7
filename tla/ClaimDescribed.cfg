SPECIFICATION Spec
CONSTANTS
  h1 = h1
  b1 = b1
  Loop = Loop
  Http <- OneThread
  Batch = {}
  Hygiene = FALSE
  Agent = FALSE
  QueryLimit = 5
  FlushEvery = 5
  MaxSession = 1
  MaxEpoch = 2
  MaxSeq = 3
  MaxFile = 3
INVARIANT
  EveryFrameIsDescribed
