SPECIFICATION Spec
CONSTANTS
  Clicks = {c1}
  Foreign = {m1}
  Threads = {t1}
  Workers = {w1, w2}
  MaxFaults = 3
  None = None
  c1 = c1
  m1 = m1
  t1 = t1
  w1 = w1
  w2 = w2
INVARIANTS
  TypeOK
  JournaledNotLost
  DuplicatesAreRedeliveries
PROPERTIES
  JournaledIsStored
  ImplementsClickLog
CHECK_DEADLOCK FALSE
