SPECIFICATION Spec
CONSTANTS
  c1 = c1
  k1 = k1
  k2 = k2
  Yes = Yes
  TimedOut = TimedOut
  NoAnswer = NoAnswer
  Nobody = Nobody
  Ticker = Ticker
  Answers = {Yes, TimedOut}
  AnswerOf <- MCAnswerOf
  Clients = {c1}
  Tasks = {k1, k2}
  MaxRuns = 2
  MaxQuestions = 2
  MaxLaunches = 5
  MaxFaults = 1
  MaxCrashes = 1
INVARIANTS
  OneDriverPerVersion
  AnswerStands
  OpenRunIsDriven
PROPERTIES
  TimesOutInTheEnd
CHECK_DEADLOCK FALSE
