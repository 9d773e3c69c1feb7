SPECIFICATION Spec
CONSTANTS
  Panel = {p1, p2}
  MaxHistory = 3
  MaxRounds = 2
  MaxCalls = 2
INVARIANTS TypeOK OrphansOnlyAtHead RefusalsRunOut
PROPERTY EveryTurnEnds
