SPECIFICATION Spec
CONSTANTS
  Digits = 2
  Letters = 1
  MIN_LENGTH = 1
  LongUrls = {u1}
  Expiries = {0}
  MaxId = 3
  MaxCodeLen = 1
  FirstIds = {2}
  TTL = 1
  MaxTime = 1
  Posts = {p1}
  Gets = {g1}
  Null = Null
  u1 = u1
  p1 = p1
  g1 = g1
INVARIANTS
  ExpiredIsGone
