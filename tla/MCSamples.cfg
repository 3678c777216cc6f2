CONSTANTS
  DefaultProtocolVersion = 760
  a = a
  g1 = g1
  g2 = g2
  Ids = {a}
  Gens = {g1, g2}
  Callers = {}
  Targets <- MCTargets
  Null = Null
  Latencies = {1}
  Bursts <- MCBursts
  MaxTime = 2
  MaxMeasured = 2
SPECIFICATION SamplesSpec
INVARIANTS RowsAreMeasured MeasurementsStay NewestWithoutGaps BurstIsSummarized
