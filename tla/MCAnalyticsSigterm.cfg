SPECIFICATION Spec
CONSTANTS
  Clicks = {c1}
  Foreign = {m1}
  Threads = {t1}
  Workers = {w1}
  MaxFaults = 1
  None = None
  c1 = c1
  m1 = m1
  t1 = t1
  w1 = w1
PROPERTIES
  InFlightSettledAtExit
CHECK_DEADLOCK FALSE
