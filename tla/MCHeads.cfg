SPECIFICATION Spec
CONSTANTS
  c1 = c1
  c2 = c2
  k1 = k1
  k2 = k2
  p1 = p1
  p2 = p2
  sc1 = sc1
  sc2 = sc2
  None = None
  Clients <- TwoClients
  Keys <- TwoKeys
  Payloads <- OnePayload
  Heads <- TwoHeads
  Scopes <- TwoScopes
  Existing <- TwoHeads
  MaxAttempts = 1
  MaxVersion = 1
CONSTRAINT OneKind
SYMMETRY Interchangeable
INVARIANTS
  NoLostUpdate
  HeadsNeverDeadlock
  NoWriteSkew
