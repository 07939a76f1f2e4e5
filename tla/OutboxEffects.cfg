CONSTANTS
  f1 = f1
  s1 = s1
  s2 = s2
  h1 = h1
  h2 = h2
  metrics = metrics
  release = release
  None = None
  NoConsumer = NoConsumer
  Items = {f1}
  Slots = {s1, s2}
  Hosts = {h1, h2}
  HostOf <- TwoSlots
  Recoveries = {"retry"}
  InitialMax = 2
  Grant = 1
  Ceiling = 2
  Relays = {r1, r2}
  Consumers = {metrics, release}
  Catalogue = {metrics, release}
  Registered <- Rolling
  Transactional = {metrics}
  MaxRepeats = 2
SPECIFICATION OutboxSpec
INVARIANTS
  OutboxTypeOK
  ReceiptFollowsEffect
PROPERTIES
  KeepsPromise
CHECK_DEADLOCK FALSE
