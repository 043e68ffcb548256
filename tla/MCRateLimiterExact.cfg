SPECIFICATION Spec
SYMMETRY LimiterSymmetry
CONSTANTS
  Requests = {r1, r2, r3, r4}
  Ips = {a}
  Limit = 2
  Window = 2
  MaxDelay = 1
  MaxTime = 5
  a = a
  r1 = r1
  r2 = r2
  r3 = r3
  r4 = r4
INVARIANTS
  ExactWindow
