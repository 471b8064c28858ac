SPECIFICATION Spec
CONSTANTS
  e1 = e1  e2 = e2  e3 = e3  x = x  y = y
  Events = {e1, e2, e3}
  Alerts = {e1, e2, e3}
  Aliases = {x, y}
  AliasOf <- MCAliasOf
  MaxRevision = 1
  MaxAttempts = 2
  MaxFailures = 1
  MaxStops = 1
  NoEvent = NoEvent  NoItem = NoItem
INVARIANTS TypeOK CountsOnce
CHECK_DEADLOCK FALSE
