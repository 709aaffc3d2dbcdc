CONSTANTS
  MinuteSeconds = 1
  MaxMinutes = 1
  DefaultMinutes = 1
  BreakDuration = 1
  Workers = {w1, w2}
  Clients = {c1}
  LockSeconds = 2
  CelestialPeriod = 2
  MaxAttempts = 2
  FirstSlot = 1
  MaxSlot = 3
  MaxInstances = 1
  MaxMessages = 1
  MaxFaults = 1
SPECIFICATION FairSpec
CHECK_DEADLOCK FALSE
PROPERTIES
  TimerCatchesUp
  MessageIsAnswered
