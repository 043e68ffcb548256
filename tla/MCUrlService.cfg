SYMMETRY GetSymmetry
SPECIFICATION Spec
CONSTANTS
  Digits = 2
  Letters = 1
  MIN_LENGTH = 1
  LongUrls = {u1}
  Expiries = {0, 1}
  MaxId = 3
  MaxCodeLen = 1
  FirstIds = {2}
  TTL = 1
  MaxTime = 2
  Posts = {p1}
  Gets = {g1, g2}
  Null = Null
  u1 = u1
  p1 = p1
  g1 = g1
  g2 = g2
INVARIANTS
  TypeOK
  ClicksCountRedirects
  StatsTellOfEveryClick
  EventsAreRedirects
  CacheMatchesTable
  FreshReadsHonourExpiry
