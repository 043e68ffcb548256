SPECIFICATION Spec
CONSTANTS
  Digits = 1
  Letters = 1
  MIN_LENGTH = 1
  LongUrls = {u1, u2}
  Expiries = {}
  MaxId = 2
  MaxCodeLen = 1
  Workers = {w1, w2, w3}
  Posts = {p1, p2}
  MaxCrashes = 2
  Null = Null
  u1 = u1
  u2 = u2
  w1 = w1
  w2 = w2
  w3 = w3
  p1 = p1
  p2 = p2
INVARIANTS
  TypeOK
  CompleteSchemaIsSound
  ServingSchemaIsComplete
PROPERTIES
  SchemaCompleted
  EveryWorkerServes
