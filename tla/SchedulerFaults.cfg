\* Three models, one of them under two names; everything that can go wrong.
SPECIFICATION Spec
CONSTANTS
  tag = tag
  dig = dig
  other = other
  third = third
  None = None
  Requests = {r1, r2, r3}
  Unloads = {u1}
  Refs <- Names
  Locks <- Models
  LockOf <- LockOfName
  ContentOf <- LockOfName
  Asks <- Plain
  Backends = {b1, b2, b3, b4, b5, b6}
  MaxLoaded = 2
  MaxQueue = 2
  DefaultWindow = 2
  MaxShrinks = 0
  SplitNone = TRUE
  Oversized = {other, third}
  Impatient = {r1, r2, r3}
  Fragile = {tag}
SYMMETRY ClientsAndModels
INVARIANTS
  TypeOK
  LoadsExclude
  CapacityRespected
  ReservationsCovered
  QueueAccounted
  ClaimsNotLeaked
  OneBackendPerContent
PROPERTIES
  NeverReplaced
  ImplementsSlots
