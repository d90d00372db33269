\* A pull that finds a blob older than the grace period, and a sweep.
SPECIFICATION Spec
CONSTANTS
  a = a
  b = b
  m = m
  weights = weights
  config = config
  None = None
  Tasks = {t1}
  Commands = {}
  Removers = {rm1}
  Boot = boot
  Refs = {a}
  Manifests = {m}
  Layers <- LayersOf
  Config <- ConfigOf
  Upstream <- UpstreamOf
  Grace = 1
PROPERTY
  PullsKeepBlobs
