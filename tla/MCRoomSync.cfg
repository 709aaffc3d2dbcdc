CONSTANTS
  MinuteSeconds = 1
  MaxMinutes = 2
  DefaultMinutes = 2
  BreakDuration = 1
  Workers = {w1, w2}
  Clients = {c1}
  LockSeconds = 2
  CelestialPeriod = 9
  MaxAttempts = 2
  FirstSlot = 1
  MaxSlot = 4
  MaxInstances = 1
  MaxMessages = 2
  MaxFaults = 1
SPECIFICATION Spec
CHECK_DEADLOCK FALSE
SYMMETRY Symmetry
INVARIANTS
  TypeOK
PROPERTIES
  TimeIsKept
  ShowsOneCycle
  RewardIsEarned
