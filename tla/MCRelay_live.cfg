\* As relay_pair with one message and no faults, under the fairness of the worker.
CONSTANTS
  a = a
  b = b
  x = x
  y = y
  p = p
  q = q
  Device = {a, b}
  Claims <- PairedClaims
  Socket <- TwoAndOne
  Message <- OneToA
  PushToken = {a}
  QueueCap = 1
  RateLimit = 1
  Faults = {}
  NoSocket = NoSocket
SPECIFICATION FairSpec
PROPERTIES
  StoredIsHandedOver
  MailContractHolds
CHECK_DEADLOCK FALSE
