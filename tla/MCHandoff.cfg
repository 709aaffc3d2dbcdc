CONSTANTS
  w1 = w1
  w2 = w2
  s1 = s1
  s2 = s2
  s3 = s3
  Workers = {w1, w2}
  Sockets = {s1, s2}
  Home <- TwoOnOne
  MaxSubscriptions = 2
  MaxRevision = 1
  MaxFaults = 0
SPECIFICATION Spec
CHECK_DEADLOCK FALSE
INVARIANTS
  ServedIsCurrent
