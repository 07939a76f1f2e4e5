CONSTANTS
  i1 = i1
  s1 = s1
  s2 = s2
  s3 = s3
  h1 = h1
  h2 = h2
  None = None
  Items = {i1}
  Slots = {s1, s2, s3}
  Hosts = {h1, h2}
  HostOf <- ThreeSlots
  Recoveries = {"retry", "read_back"}
  InitialMax = 2
  Grant = 1
  Ceiling = 3
SPECIFICATION FairSpec
INVARIANTS
  TypeOK
  LedgerShape
  LockedCallbackOwnsRow
PROPERTIES
  UncertainNeedsReadBack
  AttemptEndsByOwnerOrReclaim
  SettledIsFinal
  WorkSettles
CHECK_DEADLOCK FALSE
