SPECIFICATION ShortenSpec
CONSTANTS
  Digits = 2
  Letters = 1
  MIN_LENGTH = 1
  LongUrls = {u1}
  Expiries = {}
  MaxId = 5
  MaxCodeLen = 6
  FirstIds = {1}
  TTL = 1
  MaxTime = 0
  Posts = {p1, p2}
  Null = Null
  u1 = u1
  p1 = p1
  p2 = p2
INVARIANTS
  RepeatPostSucceeds
