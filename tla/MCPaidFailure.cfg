SPECIFICATION Spec
CONSTANTS
  i1 = i1
  i2 = i2
  s1 = s1
  s2 = s2
  o1 = o1
  o2 = o2
  None = None
  Marker = Marker
  Intents <- OneIntent
  Workers <- OneServer
  Orders <- OneOrder
  LostAs <- AnyError
  MaxFaults = 1
INVARIANTS
  FailedAttemptNeverCharged
