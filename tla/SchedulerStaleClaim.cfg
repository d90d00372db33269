\* An unload between two incarnations of a model.
SPECIFICATION Spec
CONSTANTS
  tag = tag
  dig = dig
  other = other
  third = third
  None = None
  Requests = {r1, r2, r3}
  Unloads = {u1}
  Refs = {tag, other}
  Locks = {tag, other}
  LockOf <- LockOfModel
  ContentOf <- LockOfModel
  Asks <- Plain
  Backends = {b1, b2, b3, b4, b5, b6}
  MaxLoaded = 1
  MaxQueue = 2
  DefaultWindow = 2
  MaxShrinks = 0
  SplitNone = TRUE
  Oversized = {}
  Impatient = {}
  Fragile = {}
SYMMETRY Clients
PROPERTIES
  ServedUntilDone
