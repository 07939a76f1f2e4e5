CONSTANTS
  Dispatch = {d1, d2}
  Plain = {}
  Clients = {c1, c2, c3, c4}
  Reserve = 2
  Limit = 2
  None = None
SPECIFICATION FairSpec
PROPERTIES
  UnitsEnd
