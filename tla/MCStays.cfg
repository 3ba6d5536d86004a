SPECIFICATION FairSpec
CONSTANTS
  book = book
  cancel = cancel
  s1 = s1
  s2 = s2
  None = None
  Foreign = Foreign
  Workers <- TwoServers
  Intents <- BookThenCancel
  Cancels <- CancelOnly
  Needs <- CancelNeedsBook
  LostAs <- TimeoutOnly
  MaxTrouble = 1
INVARIANTS
  NeverAskedTwice
  
  ReplacementFirst
  AppliedOnce
  OnOwnChanges
PROPERTIES
  
  SuccessIsApplied
  FoundOutcomeSettles
