SPECIFICATION FairSpec
CONSTANTS
  s1 = s1
  i1 = i1
  i2 = i2
  w1 = w1
  w2 = w2
  None = None
  Subjects <- OneSubject
  Inputs <- TwoInputs
  Closures <- OneOrBoth
  Lanes <- TwoLanes
  MaxAttempts = 2
  MaxVersion = 1
  MaxClock = 1
INVARIANTS
  StaleHasWork
  VerifiedIsShown
PROPERTIES
  NewerSupersedesOlder
  ImplementsAssessmentFeed
  PendingEnds
CHECK_DEADLOCK FALSE
