SPECIFICATION Spec
CONSTANTS
  h1 = h1
  b1 = b1
  Loop = Loop
  Http <- OneThread
  Batch = {}
  Hygiene = FALSE
  Agent = TRUE
  QueryLimit = 1
  FlushEvery = 5
  MaxSession = 1
  MaxEpoch = 2
  MaxSeq = 2
  MaxFile = 3
INVARIANTS
  TypeOK
  FramesInTheirFile
  ActiveSessionIsKept
  AtMostOneLateFrame
  CountsAtMostOneTooMany
