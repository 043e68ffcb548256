SPECIFICATION Spec
CONSTANTS
  Digits = 2
  Letters = 1
  MIN_LENGTH = 1
  LongUrls = {u1, u2}
  Expiries = {}
  MaxId = 3
  MaxCodeLen = 1
  FirstIds = {2}
  TTL = 1
  MaxTime = 0
  Posts = {p1, p2}
  Gets = {g1}
  Null = Null
  u1 = u1
  u2 = u2
  p1 = p1
  g1 = g1
  p2 = p2
INVARIANTS
  RedirectGoesHome
PROPERTIES
  ReadYourWrites
  EveryGetAnswered
