SPECIFICATION LifecycleSpec
CONSTANTS
  w = w
  t1 = t1
  r1 = r1
  q1 = q1
  q2 = q2
  c1 = c1
  p1 = p1
  src = src
  Attempts = {w}
  Tasks = {t1}
  Runs = {r1}
  Projects = {p1}
  Paths = {src}
  TaskOf <- MCTaskOf
  RunOf <- MCRunOf
  ProjectOf <- MCProjectOf
  NumberOf <- MCNumberOf
  ReadOnly = {}
  Allowed <- MCAllowed
  Covers <- MCCovers
  MaxEpoch = 2
  Questions = {}
  QuestionRun <- MCQuestionRun
  Callers = {}
  InjectedGuards <- MCInjected
  MaxRevision = 2
  MaxVersion = 6
INVARIANTS
  LifecycleTypeOK
PROPERTIES
  LeaseSpec
  ReviewKeepsCandidate
  RevisionFences
