\* One slot, loads that fail, crashes, num_ctx against steady traffic.
SPECIFICATION FairSpec
CONSTANTS
  tag = tag
  dig = dig
  other = other
  third = third
  None = None
  Requests = {r1, r2, r3}
  Unloads = {}
  Refs = {tag, other}
  Locks = {tag, other}
  LockOf <- LockOfModel
  ContentOf <- LockOfModel
  Asks <- Sized
  Backends = {b1, b2, b3, b4}
  MaxLoaded = 1
  MaxQueue = 2
  DefaultWindow = 2
  MaxShrinks = 1
  SplitNone = TRUE
  Oversized = {other}
  Impatient = {}
  Fragile = {tag}
PROPERTIES
  RetirementEnds
  CapacityWaitEnds
