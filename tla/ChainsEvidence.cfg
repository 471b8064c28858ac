SPECIFICATION Spec
CONSTANTS
  HostIds = {"g", "h", "k"}
  UserIds = {"u", "w"}
  Ips = {"i"}
  Precedence <- Ranked
  Display <- Named
  Alerts <- AlertSet
  Histories <- HistorySet
  Floor = 2
  Benign = {"w"}
  Window = 2
  Graces = {0, 1}
  Threshold = 5
  Confirmation = 4
  LateExpiry = {}
  PolledSets = {{}}
  ChainRetention = 1
  PollChoices = {0}
  MaxStops = 0
INVARIANT
  EvidenceCounts
CHECK_DEADLOCK FALSE
