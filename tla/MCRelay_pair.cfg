\* Two paired devices, a reconnects once, b sends two messages; every fault.
CONSTANTS
  a = a
  b = b
  x = x
  y = y
  p = p
  q = q
  Device = {a, b}
  Claims <- PairedClaims
  Socket <- TwoAndOne
  Message <- TwoToA
  PushToken = {}
  QueueCap = 1
  RateLimit = 1
  Faults = {"call", "reply", "expiry", "noise"}
  NoSocket = NoSocket
SPECIFICATION Spec
INVARIANTS
  PresenceMatchesTable
  OneCopy
  OnlyAddressee
PROPERTIES
  LossIsExplained
SYMMETRY Names
CHECK_DEADLOCK FALSE
