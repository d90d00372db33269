\* Pulls, copies, removals, sweeps and crashes in any order.
SPECIFICATION Spec
CONSTANTS
  a = a
  b = b
  m = m
  weights = weights
  config = config
  None = None
  Tasks = {t1}
  Commands = {c1}
  Removers = {rm1}
  Boot = boot
  Refs = {a, b}
  Manifests = {m}
  Layers <- LayersOf
  Config <- ConfigOf
  Upstream <- UpstreamOf
  Grace = 1
SYMMETRY
  Symmetry
INVARIANTS
  TypeOK
  OnlyRacesBreakTags
PROPERTIES
  SweepSparesTags
