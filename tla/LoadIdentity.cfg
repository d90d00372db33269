SPECIFICATION Spec
CONSTANTS
  latest = latest
  v9 = v9
  c1 = c1
  m1 = m1
  m2 = m2
  None = None
  Tasks = {t1, t2}
  Tags = {latest, v9}
  Latest = latest
  Contents = {c1}
  Published <- PublishedOne
  Mutexes = {m1, m2}
SYMMETRY
  Symmetry
INVARIANTS
  TypeOK
  OneMutexPerKey
  OneServerPerLock
  
PROPERTIES
  LoadLocksExclude
