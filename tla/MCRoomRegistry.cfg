\* The real window and block are 1 : 2, and so are these.
CONSTANTS
  Rooms = {r1, r2}
  Pins = {p, q}
  Requests = {c1, c2}
  Scheduler = Scheduler
  MaxRooms = 1
  MaxTokens = 2
  Ttl = 2
  MaxInstances = 2
  MaxGranted = 2
  Guessers = {g1, g2, g3}
  MaxAttempts = 5
  Window = 2
  BlockPeriods = 4
  MaxFaults = 1
  MaxCount = 10
SPECIFICATION GuardSpec
CHECK_DEADLOCK FALSE
SYMMETRY Symmetry
INVARIANTS
  PinOpensItsRoomOnly
  KeysLiveTogether
  IndexFollowsRooms
  GuessesAreBounded
  QuietStartsAfresh
