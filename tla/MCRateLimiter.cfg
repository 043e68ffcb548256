SPECIFICATION Spec
SYMMETRY LimiterSymmetry
CONSTANTS
  Requests = {r1, r2, r3, r4}
  Ips = {a, b}
  Limit = 2
  Window = 3
  MaxDelay = 1
  MaxTime = 4
  a = a
  b = b
  r1 = r1
  r2 = r2
  r3 = r3
  r4 = r4
INVARIANTS
  TypeOK
  NoEarlyEviction
  WindowLimit
  NoSpuriousRejection
