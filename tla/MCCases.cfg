SPECIFICATION Spec
CONSTANTS
  p1 = p1
  p2 = p2
  Passes <- TwoPasses
  MaxAssessments = 2
  MaxClock = 1
  MaxStops = 1
SYMMETRY Interchangeable
INVARIANTS
  CoveredFailIsOpen
  ResolvedHasNoAttention
  PhaseMatchesOptions
  ApprovedOptionStands
PROPERTIES
  ResolvesOnlyRecovered
CHECK_DEADLOCK FALSE
