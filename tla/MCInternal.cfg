SPECIFICATION FairSpec
CONSTANTS
  q1 = q1
  q2 = q2
  p1 = p1
  p2 = p2
  first = first
  second = second
  other = other
  Foreign = Foreign
  Passes <- TwoPasses
  Plans <- TwoPlans
  Intents <- ChainAndOther
  Of <- OfPlans
  Needs <- SecondNeedsFirst
  Operation <- Moves
  MaxAttempts = 2
  MaxTrouble = 2
INVARIANTS
  OperationAppliedOnce
  RecordTellsTruth
  ChainIsOwn
  NoPlanIsStuck
PROPERTIES
  ClearPlanCompletes
CHECK_DEADLOCK FALSE
