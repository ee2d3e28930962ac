SPECIFICATION Spec
CONSTANTS
  Workers = {w1, w2}
  BatchSize = 2
  MetricsInterval = 1
  MaxDrainGap = 3
  MaxBatches = 1
  MaxClock = 3
INVARIANTS
  Conservation
PROPERTIES
  LostOnlyAfterStall
  ChannelEmptied
