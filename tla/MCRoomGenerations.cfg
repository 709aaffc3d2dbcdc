CONSTANTS
  MinuteSeconds = 1
  MaxMinutes = 1
  DefaultMinutes = 1
  BreakDuration = 1
  Workers = {w1}
  Clients = {c1}
  LockSeconds = 2
  CelestialPeriod = 2
  MaxAttempts = 2
  FirstSlot = 1
  MaxSlot = 3
  MaxInstances = 2
  MaxMessages = 2
  MaxFaults = 1
SPECIFICATION UpgradeSpec
CHECK_DEADLOCK FALSE
SYMMETRY Symmetry
INVARIANTS
  RevisionIdentifiesState
  ReducerIsSound
PROPERTIES
  NoLostUpdate
  TickSecondsIncrease
  TickAccountsForTime
