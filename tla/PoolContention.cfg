CONSTANTS
  Dispatch = {d1, d2, d3}
  Plain = {p1}
  Clients = {c1, c2, c3, c4, c5}
  Reserve = 2
  Limit = 2
  None = None
SPECIFICATION Spec
INVARIANTS
  PoolTypeOK
  AdmissionExact
  NoClientLeaks
  HolderNeverWaits
  NoStandstill
SYMMETRY AnyClient
