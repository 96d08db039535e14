CONSTANTS
  w1 = w1
  w2 = w2
  ann = ann
  Count = 1
  Owner <- OneUser
  Workers = {w1}
  MaxPending = 1
  MaxMishaps = 0
SPECIFICATION Spec
INVARIANTS
  ReturnedIsUnsent
