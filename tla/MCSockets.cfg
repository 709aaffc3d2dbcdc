CONSTANTS
  Sockets = {s1, s2}
  Ticker = Ticker
  Consumer = Consumer
  MaxInstances = 2
  MaxRevision = 1
  BreakDuration = 3
  RevealSeconds = 0
  ReturnSeconds = 1
  CycleLength = 2
  MaxInFlight = 1
  MaxRewards = 2
  MaxMoves = 1
SPECIFICATION EndsSpec
CHECK_DEADLOCK FALSE
SYMMETRY Symmetry
INVARIANTS
  OneGeneration
  NobodyIsBehind
  PageShowsTheRoom
  RitualFollowsBreak
PROPERTIES
  DeliveredInOrder
