SPECIFICATION FairSpec
CONSTANTS
  p1 = p1
  p2 = p2
  Passes <- OnePass
  MaxAssessments = 2
  MaxClock = 0
  MaxStops = 0
PROPERTIES
  FailingBasisIsHandled
CHECK_DEADLOCK FALSE
