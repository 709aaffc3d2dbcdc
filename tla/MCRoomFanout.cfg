CONSTANTS
  w1 = w1
  w2 = w2
  s1 = s1
  s2 = s2
  s3 = s3
  Workers = {w1, w2}
  Sockets = {s1, s2, s3}
  Home <- ThreeOnOne
  MaxSubscriptions = 2
  MaxRevision = 1
  MaxFaults = 1
SPECIFICATION Spec
CHECK_DEADLOCK FALSE
SYMMETRY Symmetry
INVARIANTS
  SubscribedIsCurrent
  NoSubscriptionIsLost
