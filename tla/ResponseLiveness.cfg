SPECIFICATION FairSpec
CONSTANTS
  a1 = a1  a2 = a2  ann = ann  rob = rob  eve = eve
  notify = notify  escalate = escalate  c1 = c1 c2 = c2
  Actions = {a1, a2}
  Analysts = {rob}
  Responders = {rob}
  Workflows = {notify}
  Required <- MCRequired
  Separated = {}
  Clusters = {c1, c2}
  Configs <- ShrinkingConfig
  MaxRevision = 2
  MaxStops = 1
  NoAction = NoAction  NoCluster = NoCluster  NoProposal = NoProposal
INVARIANTS UnmergedSentOnApprovedEvidence
PROPERTIES HandedOverSettles
CHECK_DEADLOCK FALSE
