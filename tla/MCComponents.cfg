SPECIFICATION SceneSpec
CONSTANTS
  Scenes = {"store", "continuity", "authority", "setup", "options", "console", "workbook", "reading", "editing", "evidence", "providers", "delivery", "repair", "packaging", "upgrade", "workspace"}
  a = a
  b = b
  q1 = q1
  q2 = q2
  k1 = k1
  k2 = k2
  k3 = k3
  g1 = g1
  g2 = g2
  cursor = cursor
  gemini = gemini
  agents = agents
  u1 = u1
  u2 = u2
  c1 = c1
  c2 = c2
  r1 = r1
  r2 = r2
  ra = ra
  rb = rb
  a1 = a1
  a2 = a2
  a3 = a3
  app = app
  web = web
  lowerF = lowerF
  upperF = upperF
  g = g
  x = x
  client = client
  \* StateStore
  Openers = {p1, p2, p3}
  Exclusive = {p1, p2}
  Latest = 1
  Effects = {e1}
  Material = {e1}
  MaxEvents = 2
  Nobody = Nobody
  \* Continuity
  Tasks = {a, b}
  Plans <- MCPlans
  Sessions = {s1, s2}
  Transitions <- MCTransitions
  NoTask = NoTask
  NoSession = NoSession
  \* Release and Authority
  Keys = {k1}
  Artifacts = {a, b}
  Grants = {g1, g2}
  GrantAction <- MCAction
  GrantFor <- MCFor
  Attested <- MCAttested
  Slots = {s1}
  NoArtifact = NoArtifact
  NoGrant = NoGrant
  Requests = {q1}
  RequestOf <- MCRequestOf
  Actors = {client, worker}
  Deciding = {client}
  \* Setup
  Hosts = {cursor, gemini}
  Plugged = {}
  StopHook = {}
  Owned = {gemini}
  Json = {cursor}
  Legacy = {cursor}
  SkillsRoot <- MCRoot
  NoRoot = NoRoot
  Selections <- MCSelections
  Options <- MCOptions
  Values = {Unset, v1}
  Unset = Unset
  Ours = Ours
  Untouched = Untouched
  NoRecord = NoRecord
  NoJob = NoJob
  MaxHalted = 0
  \* Console
  Tabs = {t1}
  Questions = {q1, q2}
  RequestKeys = {k1, k2, k3}
  Wants <- MCWants
  RunMessage = RunMessage
  MaxVersion = 2
  \* Workbook
  Cells = {1, 2, 3}
  ColumnOf <- MCColumns
  Contents <- MCContents
  Overrides <- MCOverrides
  NoValue = NoValue
  MaxEdits = 3
  \* Reading
  Uploads = {u1, u2}
  Citations <- MCCitations
  Files <- MCFiles
  RowsPerRange = 2
  MaxExpanded = 3
  NoBytes = NoBytes
  MaxDeaths = 1
  \* Editing
  Originals <- MCOriginals
  Blank = ""
  Rules = {"figures"}
  ValuesIn <- MCValuesIn
  DocxEdits <- MCDocxEdits
  Sections = {}
  Projects = {proj1, proj2}
  Pdfs <- MCPdfs
  MaxOutputs = 2
  NoDocument = NoDocument
  \* Evidence
  Issuers = {i1}
  TrustedIssuers = {i1}
  Candidates = {c1, c2}
  ArtifactOf <- MCArtifactOf
  RevisionOf <- MCRevisionOf
  Job = j1
  Digests = {a, b}
  NoKey = NoKey
  NoRow = NoRow
  MaxKeys = 2
  MaxMoves = 2
  MaxEnvelopes = 1
  \* Providers
  HostRuns = {r1, r2}
  AttemptOf <- MCAttemptOf
  ProviderOf <- MCProviderOf
  HostAttempts = {a1}
  Capabilities = {cap}
  Required = {cap}
  Lines <- MCLines
  NoRun = NoRun
  MaxUnread = 1
  MaxLines = 1
  \* Delivery
  Runs = {ra, rb}
  Attempts = {a1, a2, a3}
  Known = {a1, a2}
  NoAttempt = NoAttempt
  ByHand <- MCByHand
  RunOf <- MCRunOf
  TaskOf <- MCTaskOf
  Shapes <- MCShapes
  Diagnoses = {d1}
  Evidences = {none, e1}
  NoEvidence = none
  MaxRepairs = 1
  MaxCycles = 2
  \* Packaging
  Shipped = {f1}
  SettingsKeys = {theme, clientMode}
  OwnedKey = clientMode
  Given = {v1}
  Written = ours
  Migrations = {1}
  Nothing = Nothing
  NoPlan = NoPlan
  NoInstall = NoInstall
  Unread = Unread
  \* Workspace
  Paths = {lowerF, upperF, g, x}
  DirOf <- MCDirOf
  FoldOf <- MCFoldOf
  NamesOf <- MCNamesOf
  ExcludedNames = {"x", "bin/Debug"}
  Ignored = {upperF}
  Indexes <- MCIndexes
  Intended = Intended
  Nodes <- MCNodes
  NoEntry = NoEntry
  Committed <- MCCommitted
  Components = {app}
  TargetOf <- MCTargetOf
  TargetKinds = {web}
  Places = {"ws", "w1", "client"}
  Inside <- MCInside
  OwnedRoot = "ws"
  RegisteredRoots = {"client"}
  NoWalk = NoWalk
  MaxChanges = 2
  MaxCandidates = 1
VIEW SceneView
INVARIANTS
  SceneTypeOK
  MigratedOnce
  StreamContinuous
  DecisionsHold
  ResumesUnfinished
  PersonsValueKept
  AnswersStand
  ReadyIsRecalculated
  CompleteIsWhole
  ServedMeansSource
  PromotionIsEvidenced
  CompletedIsClean
  OneIntegrator
  SettingsAreTheirs
  SnapshotIsTheTree
CHECK_DEADLOCK FALSE
