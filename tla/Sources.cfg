SPECIFICATION FairSpec
CONSTANTS
  Providers = {"sentinel", "splunk", "graph", "elastic"}
  Rows <- RowSet
  At <- RowTimes
  Records <- RecordSet
  RecordOf <- RecordOfRow
  BadRows = {2}
  Incidents = {2}
  Extra = {2}
  Lookback = 1
  Late = 1
  Limit = 1
  MaxPages = 2
  FirstClock = 2
  MaxClock = 4
  Intervals <- IntervalSet
  MaxEvents = 2
INVARIANTS
  TypeOK
  NothingPassed
  NewestKept
  OneWindowPerDecision
PROPERTIES
  EveryRowKept
CHECK_DEADLOCK FALSE
