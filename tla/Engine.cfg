SPECIFICATION EngineSpec
CONSTANTS
  HostIds = {"g", "h", "k"}
  UserIds = {"u", "w"}
  Ips = {"i"}
  Precedence <- Ranked
  Display <- Named
  Alerts <- AlertSet
  Histories <- HistorySet
  Floor = 2
  Benign = {"w"}
  Window = 2
  Graces = {0, 1}
  Threshold = 5
  Confirmation = 4
  LateExpiry = {1}
  PolledSets = {{}, {3}}
  ChainRetention = 1
  PollChoices = {0, 1}
  MaxStops = 1
  Operations = {1, 2, 3}
  Doubles = {2}
  Apart = {3}
  MaxCuts = 3
  Nobody = 0
  Cycles = {"cycle"}
  Request = "request"
  Investigated = {1, 2}
  Room = 1
  Setups <- SetupChoices
  MaxEvidence <- EvidenceBounds
  MaxTurns = 1
  Models = {"a", "b"}
  DefaultModel = "a"
  MaxSaves = 3
  MaxSwitches = 1
  MaxCrashes = 1
  Hits = {1, 2, 3, 4}
  FiledAt <- HitTimes
  PageSize = 1
  Span = 1
  Slack = 1
  Retention = 0
  LastTime = 5
  MaxFaults = 1
  Pieces <- AllPieces
  Dossiers <- DossierSet
  KindOf <- KindMap
  Mails <- MailSet
  Addresses <- AddressSet
  Skipped <- SkippedSet
  Techniques <- Returned
  Canonical <- Spellings
  AiConfigs <- AiChoices
  Caps = {1, 3}
  Cuts = {15, 99}
INVARIANTS
  OneChain
  NeighboursTogether
  NeverReissued
  AuditTellsAll
  OpenOnlyIfBeginCut
  StaleIsMarked
  IndexMirrors
  RunsAsSaved
  OneEngine
  HostHasItsKey
  PollSkipsNothing
  NeighboursHeld
  SentInTokens
  AnswerStands
PROPERTIES
  OnlyGrow
  AnchorKeepsId
  StoreCatchesUp
  DocumentsCatchUp
CHECK_DEADLOCK FALSE
