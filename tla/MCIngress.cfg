CONSTANTS
  a1 = a1
  a2 = a2
  p1 = p1
  d1 = d1
  Deliveries = {d1}
  Addresses = {a1, a2}
  LastMailbox = 2
  First <- Owns
  Agents = {p1}
  MaxGeneration = 3
  Nobody = Nobody
SPECIFICATION FairSpec
INVARIANTS
  OneCopyEach
  FrozenOwnersOnly
  DiscardHonest
PROPERTIES
  ImportUnderAuthority
  TombstonesFinal
  RetiredLeavesPending
