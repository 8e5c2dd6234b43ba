\* Two messages and three lost connections; fairness.
CONSTANTS
  m1 = m1
  m2 = m2
  Message <- TwoMessages
  MaxDelay = 2
  LastLoss = 3
SPECIFICATION PhoneFairSpec
INVARIANTS
  OneWayBack
PROPERTIES
  PhoneComesBack
CHECK_DEADLOCK FALSE
