CONSTANTS
  a = a
  b = b
  c = c
  None = None
  Hosts = {a, b, c}
  Origin = a
  MaxMaterials = 3
  MaxCrashes = 2
SPECIFICATION Spec
SYMMETRY Symmetry
INVARIANTS
  OneHolder
  HolderKnown
PROPERTIES
  FencedByOther
