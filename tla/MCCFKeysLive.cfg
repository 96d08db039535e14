CONSTANTS
  a = a
  b = b
  c = c
  None = None
  Hosts = {a, b}
  Origin = a
  MaxMaterials = 3
  MaxCrashes = 2
SPECIFICATION Spec
INVARIANTS
  InstallerStaysLive
