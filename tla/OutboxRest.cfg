CONSTANTS
  f1 = f1
  s1 = s1
  s2 = s2
  h1 = h1
  h2 = h2
  metrics = metrics
  release = release
  None = None
  NoConsumer = NoConsumer
  Items = {f1}
  Slots = {s1, s2}
  Hosts = {h1, h2}
  HostOf <- TwoSlots
  Recoveries = {"retry"}
  InitialMax = 2
  Grant = 1
  Ceiling = 2
  Relays = {r1}
  Consumers = {metrics}
  Catalogue = {metrics}
  Registered <- HalfDeployed
  Transactional = {metrics}
  MaxRepeats = 2
SPECIFICATION FairOutbox
PROPERTIES
  FactsComeToRest
CHECK_DEADLOCK FALSE
