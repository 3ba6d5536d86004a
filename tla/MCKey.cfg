SPECIFICATION FairSpec
CONSTANTS
  c1 = c1
  c2 = c2
  k1 = k1
  k2 = k2
  p1 = p1
  p2 = p2
  sc1 = sc1
  sc2 = sc2
  None = None
  Clients <- TwoClients
  Keys <- OneKey
  Payloads <- TwoPayloads
  Heads <- TwoHeads
  Scopes <- NoScope
  Existing <- OneHead
  MaxAttempts = 2
  MaxVersion = 2
INVARIANT
  AppliedOnce
PROPERTIES
  ImplementsAtomicCommands
  CallsEnd
