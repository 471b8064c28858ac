SPECIFICATION FairSpec
CONSTANTS
  e1 = e1  e2 = e2  e3 = e3  x = x  y = y
  Events = {e3}
  Alerts = {e3}
  Aliases = {x, y}
  AliasOf <- MCAliasOf
  MaxRevision = 2
  MaxAttempts = 2
  MaxFailures = 0
  MaxStops = 1
  NoEvent = NoEvent  NoItem = NoItem
PROPERTIES WaitsForOriginal
CHECK_DEADLOCK FALSE
