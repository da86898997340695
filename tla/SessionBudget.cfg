SPECIFICATION Spec
CONSTANTS
  parent = parent
  child = child
  Nobody = Nobody
  Agents = {parent, child}
  MaxMarkers = 3
  TurnCeiling = 4
  RequestCeiling = 4
  MaxAttempts = 2
  MaxSteps = 2
  MaxFaults = 2
  MaxCrashes = 1
SYMMETRY MCSymmetry
INVARIANTS
  CountAddsUp
  TurnsStand
  LockedOutForAReason
PROPERTIES
  AdmittedOnWholeCount
CHECK_DEADLOCK FALSE
