SPECIFICATION Spec
CONSTANTS
  a1 = a1  a2 = a2  ann = ann  rob = rob  eve = eve
  notify = notify  escalate = escalate  c1 = c1 c2 = c2
  Actions = {a1, a2}
  Analysts = {ann, rob, eve}
  Responders = {rob, eve}
  Workflows = {notify, escalate}
  Required <- MCRequired
  Separated = {escalate}
  Clusters = {c1}
  Configs <- AnyConfig
  MaxRevision = 2
  MaxStops = 1
  NoAction = NoAction  NoCluster = NoCluster  NoProposal = NoProposal
SYMMETRY Symmetry
INVARIANTS TypeOK PairAgrees AtMostOneRequest WithdrawnNeverSent AuthorisedByEnough
  OneEffectPerKey DispatchingIsHeld
PROPERTIES OnlyLegalMoves DeliversOnce
CHECK_DEADLOCK FALSE
