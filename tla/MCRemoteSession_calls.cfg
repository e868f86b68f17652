SPECIFICATION Spec
CONSTANTS
  Sessions = {s1, s2}
  Agents = {a1, a2}
  Calls = {c1, c2}
  Owners = {o1, o2}
  OwnerOf <- OneOwner
  NoOwner = NoOwner
  NoCall = NoCall
  MaxLost = 1
  o1 = o1
  o2 = o2
SYMMETRY Interchangeable
INVARIANTS
  OneActiveSession
  ClosedReleasesCallers
  CommandAccountedFor
PROPERTIES
  NoDeliveryAfterRevocation
  KeepsPromise
CHECK_DEADLOCK FALSE
