CONSTANTS
  MinuteSeconds = 1
  MaxMinutes = 1
  DefaultMinutes = 1
  BreakDuration = 1
  Workers = {w1, w2}
  Clients = {c1}
  LockSeconds = 2
  CelestialPeriod = 2
  MaxAttempts = 2
  FirstSlot = 1
  MaxSlot = 4
  MaxInstances = 1
  MaxMessages = 2
  MaxFaults = 0
SPECIFICATION Spec
CHECK_DEADLOCK FALSE
SYMMETRY Symmetry
PROPERTIES
  TickKeepsDeadline
