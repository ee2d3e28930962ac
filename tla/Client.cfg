SPECIFICATION MainSpec
CONSTANTS
  Servers = {a, b, c}
  Honest = {a, b}
  Draft08 = {b}
  NumServers = 3
  Rounds = 1
  Mint = 0
  Maxt = 9
  Radius = 1
  Skews <- SkewsOfOne
  Midpoints = {0, 6}
  Radii = {1}
  U64 = 16
  MinTimestamp <- EarliestTimestamp
  MaxTimestamp = 5
  ViolationRetries = 1
  AllowUntrusted = FALSE
  SendReport = TRUE
  ReportRetries = 1
  StartTime = 2
  MaxTime = 3
  MaxAnswers = 3
  MaxForeign = 1
  MaxRequests = 2
  ClockMin = 0
INVARIANTS
  AcceptedIsFresh
  ChainUnbroken
  HonestNeverAccused
  SandwichedTimeIsBounded
  StoredReportsProveOrder
  SingleIsFresh
  ClockIsTrusted
PROPERTIES
  ProgramEnds
