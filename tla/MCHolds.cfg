SPECIFICATION Spec
CONSTANTS
  a1 = a1
  a2 = a2
  i1 = i1
  i2 = i2
  i3 = i3
  None = None
  Approvers <- TwoApprovers
  Intents <- ThreeIntents
  Plans <- TwoPlans
  Cost <- UnevenCost
  Limit <- TwoBudgets
  MaxAttempts = 2
  MaxTrouble = 2
INVARIANTS
  HoldsFit
  ApprovedIsFunded
PROPERTIES
  ImplementsBudgetLedger
SYMMETRY Interchangeable
