SPECIFICATION PageSpec
CONSTANTS
  SocketIds = {s1, s2}
  MaxInFlight = 2
  MaxRevision = 3
  MaxInstances = 2
  MaxFaults = 1
  Rooms = {r1, r2}
  Handles = {h1, h2, h3}
  Times = {"morning", "evening"}
  MaxOthers = 2
INVARIANTS
  OneWayForward
  RevealedOnce
  DialogsIsolate
  LastDragCounts
  OneCloudLoop
  PinIsForgotten
PROPERTIES
  EarnedIsRevealed
  PageCatchesUp
CHECK_DEADLOCK FALSE
