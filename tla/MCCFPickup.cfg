CONSTANTS
  a = a
  b = b
  k1 = k1
  None = None
  Hosts = {a, b}
  Origin = a
  Keys = {k1}
  Takers = {b}
  Reassigning = {b}
  MaxRevision = 2
SPECIFICATION Spec
INVARIANTS
  DeletedIsHeld
  FrozenOwner
  ImportedIsStored
PROPERTIES
  RejectedIsJunk
