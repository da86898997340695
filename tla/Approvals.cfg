SPECIFICATION Spec
CONSTANTS
  u1 = u1
  u2 = u2
  Calls = {1, 2, 3, 4, 5}
  Runs = {1, 2}
  RunOf <- TwoRuns
  NeedsAsk = {1, 2, 3, 4}
  EachTime = {3, 4}
  ReadOnly = {5}
  Repeated = {2, 5}
  Modes = {"parallel", "serial"}
  Ceiling = 2
  Users <- TwoUsers
  MaxFaults = 1
SYMMETRY UserSymmetry
INVARIANTS
  DurableConsent
  AcknowledgedStands
  OpenQuestionIsAwaited
  SlotsExact
CHECK_DEADLOCK FALSE
