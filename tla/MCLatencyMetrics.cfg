SPECIFICATION Spec
SYMMETRY GetSymmetry
CONSTANTS
  Gets = {g1, g2, g3, g4}
  Latencies = {1, 2}
  MaxSamples = 2
  Percents = {50, 95, 99}
  g1 = g1
  g2 = g2
  g3 = g3
  g4 = g4
INVARIANTS
  TypeOK
  SamplesBounded
  NewestKept
  ReportedPercentiles
  HitRateErrsLow
