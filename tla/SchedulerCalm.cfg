\* Clients stay, backends live, nobody unloads: eviction, retirement, reaper.
SPECIFICATION Spec
CONSTANTS
  tag = tag
  dig = dig
  other = other
  third = third
  None = None
  Requests = {r1, r2, r3}
  Unloads = {}
  Refs <- Models
  Locks <- Models
  LockOf <- LockOfModel
  ContentOf <- LockOfModel
  Asks <- Sized
  Backends = {b1, b2, b3, b4, b5, b6}
  MaxLoaded = 2
  MaxQueue = 2
  DefaultWindow = 2
  MaxShrinks = 1
  SplitNone = TRUE
  Oversized = {other, third}
  Impatient = {}
  Fragile = {}
SYMMETRY ClientsAndModels
INVARIANTS
  ReservationsExact
PROPERTIES
  NeverReplaced
  ServedUntilDone
