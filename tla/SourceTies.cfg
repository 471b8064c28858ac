SPECIFICATION Spec
CONSTANTS
  Providers = {"elastic"}
  Rows <- RowSet
  At <- RowTimes
  Records <- RecordSet
  RecordOf <- RecordOfRow
  BadRows = {2}
  Incidents = {2}
  Extra = {2}
  Lookback = 1
  Late = 1
  Limit = 1
  MaxPages = 2
  FirstClock = 2
  MaxClock = 4
  Intervals <- IntervalSet
  MaxEvents = 0
INVARIANT
  CapNeverDrops
CHECK_DEADLOCK FALSE
