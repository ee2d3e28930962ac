SPECIFICATION Spec
CONSTANTS
  Datagrams <- Good
  BatchSize = 2
  Version = "draft08"
  RotationInterval = 2
  MaxJitter = 1
  MetricsInterval = 4
  MaxLag = 1
  MaxClock = 3
  MaxArrivals = 2
  MaxErrors = 1
INVARIANTS
  MidpointInDelegation
  ReplacementBeforeExpiry
PROPERTIES
  ImplementsService
  SocketDrained
  AcceptedIsAnswered
  ShutdownCompletes
  KeyReplaced
