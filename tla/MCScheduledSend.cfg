CONSTANTS
  w1 = w1
  w2 = w2
  ann = ann
  Count = 1
  Owner <- OneUser
  Workers = {w1, w2}
  MaxPending = 1
  MaxMishaps = 1
SPECIFICATION FairSpec
INVARIANTS
  SentAtMostOnce
  StatusHonest
PROPERTIES
  FinalStays
  EveryRowEnds
