SPECIFICATION Spec
CONSTANTS
  Datagrams <- One
  BatchSize = 1
  Version = "draft14"
  RotationInterval = 2
  MaxJitter = 1
  MetricsInterval = 4
  MaxLag = 2
  MaxClock = 4
  MaxArrivals = 2
  MaxErrors = 0
INVARIANT MidpointInDelegation
