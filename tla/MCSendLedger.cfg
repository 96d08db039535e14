CONSTANTS
  a = a
  b = b
  c = c
  d = d
  e = e
  Ids = {a, b, c, d, e}
  Hour = 2
  Day = 5
  MessagesPerHour = 2
  RecipientsPerDay = 5
  MaxRecipients = 3
  MaxNow = 7
SPECIFICATION Spec
SYMMETRY Symmetry
INVARIANTS
  QuotaKept
  WaitExact
CHECK_DEADLOCK FALSE
