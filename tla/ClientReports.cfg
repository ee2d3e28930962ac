SPECIFICATION MainSpec
CONSTANTS
  Servers = {a, b, c}
  Honest = {a, b}
  Draft08 = {}
  NumServers = 3
  Rounds = 1
  Mint = 0
  Maxt = 9
  Radius = 1
  Skews <- SkewsOfOne
  Midpoints = {5}
  Radii = {0, 1}
  U64 = 16
  MinTimestamp <- EarliestTimestamp
  MaxTimestamp = 6
  ViolationRetries = 0
  AllowUntrusted = FALSE
  SendReport = TRUE
  ReportRetries = 1
  StartTime = 2
  MaxTime = 3
  MaxAnswers = 3
  MaxForeign = 1
  MaxRequests = 0
  ClockMin = 0
INVARIANT ReportsAreAcceptable
