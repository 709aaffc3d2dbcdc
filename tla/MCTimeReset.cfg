\* A single position and nobody else.
CONSTANTS
  Times = {noon}
  MaxInFlight = 2
  MaxOthers = 0
SPECIFICATION Spec
INVARIANT
  ResetReturnsToRealTime
