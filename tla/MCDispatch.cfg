SPECIFICATION DispatchSpec
CONSTANTS
  lead = lead
  c1 = c1
  c2 = c2
  r1 = r1
  p1 = p1
  src = src
  e1 = e1
  e2 = e2
  d1 = d1
  software = software
  documents = documents
  none = none
  Attempts = {lead, c1, c2}
  Tasks <- MCTasks
  Runs = {r1}
  Projects = {p1}
  Paths = {src}
  TaskOf <- MCTaskOf
  RunOf <- MCRunOf
  ProjectOf <- MCProjectOf
  NumberOf <- MCNumberOf
  ReadOnly = {c2}
  Allowed <- MCAllowed
  Covers <- MCCovers
  MaxEpoch = 1
  Software = software
  Documents = documents
  NoParent = none
  ParentOf <- MCParentOf
  DepthOf <- MCDepthOf
  MaxChildren = 1
  Policies <- MCPolicies
  EstimateOf <- MCEstimateOf
  DocEstimate = 2
  EventRun <- MCEventRun
  Costs = {3}
  MaxRows = 2
INVARIANTS
  DispatchTypeOK
  DelegationBounded
  BilledOnce
PROPERTIES
  KeepsLedger
CHECK_DEADLOCK FALSE
