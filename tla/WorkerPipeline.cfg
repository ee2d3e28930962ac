SPECIFICATION Spec
CONSTANTS
  Datagrams <- AllKinds
  BatchSize = 2
  Version = "draft14"
  RotationInterval = 2
  MaxJitter = 1
  MetricsInterval = 1
  MaxLag = 1
  MaxClock = 1
  MaxArrivals = 3
  MaxErrors = 1
INVARIANTS
  TypeOK
  BatchDiscipline
  OneResponsePerRequest
  ProofsVerify
  SnapshotBalanced
