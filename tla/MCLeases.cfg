SPECIFICATION LeaseSpec
CONSTANTS
  w = w
  rv = rv
  v = v
  t1 = t1
  t2 = t2
  r1 = r1
  r2 = r2
  p1 = p1
  src = src
  srcApi = srcApi
  docs = docs
  Attempts <- MCAttempts
  Tasks <- MCTasks
  Runs <- MCRuns
  Projects = {p1}
  Paths <- MCPaths
  TaskOf <- MCTaskOf
  RunOf <- MCRunOf
  ProjectOf <- MCProjectOf
  NumberOf <- MCNumberOf
  ReadOnly = {rv}
  Allowed <- MCAllowed
  Covers <- MCCovers
  MaxEpoch = 3
INVARIANTS
  LeaseTypeOK
  OneActiveWriter
  SupersededHolderFenced
  WriterAcceptedFromItsLease
  AcceptedWritesDisjoint
