\* Two codes, two phones with well-formed ids, every fault.
CONSTANTS
  d1 = d1
  d2 = d2
  p1 = p1
  p2 = p2
  t1 = t1
  t2 = t2
  None = None
  Id <- AllIds
  WellFormed <- AllIds
  Desk = {d1, d2}
  Phone = {p1, p2}
  Token = {t1, t2}
  Faults = {"call", "reply"}
  UserMay = {"cancel", "leave", "unpair"}
SPECIFICATION Spec
INVARIANTS
  NoRival
  PairIsMutual
  HandedOutOnce
PROPERTIES
  StoredTogether
CHECK_DEADLOCK FALSE
