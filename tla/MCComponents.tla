---------------------------- MODULE MCComponents ----------------------------
(***************************************************************************)
(* Thirteen components that share no state, each on a small instance of    *)
(* its own.  A behaviour picks one of them, its scene, and the others stay *)
(* as they began: the states are the disjoint union of the instances.      *)
(* Packaging has a scene for installs and one for upgrades, which share no *)
(* state either.                                                           *)
(***************************************************************************)
EXTENDS StateStore, Continuity, Authority, Setup, Console, Workbook, Reading,
        Editing, Evidence, Providers, Delivery, Packaging, Workspace, TLC

CONSTANTS
  Scenes,
  a, b, q1, q2, k1, k2, k3, g1, g2, cursor, gemini, agents, u1, u2, c1, c2,
  r1, r2, ra, rb, a1, a2, a3, app, web, lowerF, upperF, g, x, client

VARIABLE scene \* the component this behaviour is about

-----------------------------------------------------------------------------
(* The instances *)

\* Continuity: two ways to describe the work, one contained in the other, and
\* the shortest way of a run into NEEDS_REPAIR, out of it and to its end.
MCPlans == {<<a>>, <<a, b>>}
MCTransitions ==
  {<<"RECEIVED", "PAUSED">>, <<"PAUSED", "VERIFYING">>, <<"VERIFYING", "NEEDS_REPAIR">>,
   <<"NEEDS_REPAIR", "PAUSED">>, <<"NEEDS_REPAIR", "CANCELLED">>}

\* Authority: two grants of one request to deploy a.
MCAction == [grant \in Grants |-> "deploy"]
MCFor == [grant \in Grants |-> a]
MCRequestOf == [grant \in Grants |-> q1]
MCAttested == {<<k1, a>>}

\* Setup: a host with a key in a JSON file and one with a file of its own, which
\* keep their skills in one directory.
MCRoot == [h \in Hosts |-> agents]
MCSelections == {{cursor}, {cursor, gemini}}
MCOptions == {<<TRUE, TRUE>>, <<FALSE, TRUE>>}

\* Console: two posts about one question, and one to the run.
MCWants == k1 :> q1 @@ k2 :> q1 @@ k3 :> RunMessage

\* Workbook: columns A, B and AA, and eight contents to put in them.
MCColumns == <<<<1>>, <<2>>, <<1, 1>>>>
Literal(n, cached) == [node |-> [op |-> "number", args |-> <<>>, n |-> n], cached |-> cached]
Formula(op, args, cached) == [node |-> [op |-> op, args |-> args, n |-> 0], cached |-> cached]
MCContents ==
  {Literal(0, NoValue), Literal(5, NoValue), Formula("ref", <<2>>, NoValue), Formula("+", <<1, 2>>, 5),
   Formula("/", <<2, 3>>, NoValue), Formula("RANGE", <<1, 2>>, 5),
   Formula("external", <<>>, 5), Formula("unsupported", <<>>, NoValue)}
MCOverrides == {<<>>, <<0>>}

\* Reading: a workbook of three rows with an active member, and a PDF.
MCMember(name, type, rel) ==
  [name |-> name, path |-> name, extension |-> type, symlink |-> FALSE, ratio |-> 1,
   expanded |-> 1, target |-> rel]
Upload(declared, sniffed, members, sheet, count) ==
  [declared |-> declared, sniffed |-> sniffed, package |-> "sheet", large |-> FALSE,
   members |-> members, sheet |-> sheet, rows |-> count]
SheetFile == Upload("sheet", "zip", <<MCMember("plain", "xml", "data"), MCMember("other", "active", "none")>>, "S1", 3)
MCFiles == {SheetFile, Upload("pdf", "pdf", <<>>, "text layer", 1)}
Citation(upload, file, first, end, excerpt) ==
  [of |-> upload, bytes |-> file, first |-> first, last |-> end, excerpt |-> excerpt]
MCCitations ==
  {Citation(u1, SheetFile, 2, 4, NoBytes), Citation(u1, SheetFile, 2, 3, <<SheetFile, 3>>),
   Citation(u2, SheetFile, 1, 2, <<SheetFile, 3>>)}

\* Editing: a price repeated in a table and a revision, and one in a paragraph
\* written with attributes.
MCBlock(kind, text, attributes) == [kind |-> kind, text |-> text, attributes |-> attributes]
MCDocx(body, header, footer, notes, comments) ==
  [body |-> body, header |-> header, footer |-> footer, notes |-> notes, comments |-> comments, others |-> {"styles"}]
MCOriginals ==
  {MCDocx(<<MCBlock("revision", "price 100", FALSE), MCBlock("heading", "scope", FALSE), MCBlock("table", "price 100", FALSE)>>,
        <<"scope", "draft">>, <<>>, <<"note">>, <<"note">>),
   MCDocx(<<MCBlock("paragraph", "draft", FALSE), MCBlock("paragraph", "price 200", TRUE), MCBlock("paragraph", "price 200", FALSE)>>,
        <<>>, <<>>, <<"price 100">>, <<>>)}
MCValuesIn ==
  [text \in {"price 100", "price 200", "scope", "draft", "note", "dear 100", ""} |-> [rule \in {"figures"} |->
     CASE text \in {"price 100", "dear 100"} -> <<100>> [] text = "price 200" -> <<200>> [] OTHER -> <<>>]]
MCDocxEdits == {<<>>, <<"draft">>, <<"scope", "dear 100">>, 2 :> "price 200", 3 :> "draft", 1 :> "note"}
MCPdfs == {<<TRUE, FALSE>>, <<FALSE>>}

\* Evidence: two candidates, each of its own artifact and revision.
MCArtifactOf == c1 :> a @@ c2 :> b
MCRevisionOf == c1 :> 1 @@ c2 :> 2

\* Providers: a Claude and a Codex run of one attempt.
MCAttemptOf == [run \in HostRuns |-> a1]
MCProviderOf == r1 :> "claude" @@ r2 :> "codex"
MCLine(type, error) == [type |-> type, error |-> error, limit |-> FALSE, denied |-> FALSE]
MCLines == {MCLine("result", FALSE), MCLine("result", TRUE), MCLine("failed", FALSE)}

\* Delivery: two attempts of two tasks in one run, a second run, and an attempt
\* that the table does not have.
MCRunOf == [anAttempt \in Attempts |-> ra]
MCTaskOf == a1 :> "t1" @@ a2 :> "t2" @@ a3 :> "t1"
MCPlan(run, task, anAttempt) ==
  [run |-> run, task |-> task, attempt |-> anAttempt, tier |-> "high", list |-> {"integration", "security"}]
MCByHand == {MCPlan(ra, "t1", NoAttempt), MCPlan(ra, "t2", a1), MCPlan(rb, "t1", a1)}
MCShape(high, documents) == [high |-> high, data |-> FALSE, stacks |-> 1, documents |-> documents]
MCShapes == {MCShape(TRUE, TRUE)}

\* Workspace: two names that differ in case, and a file in the output directory of
\* a compiler.
MCDirOf == lowerF :> "root" @@ upperF :> "root" @@ g :> "bin/Debug" @@ x :> "root"
MCNamesOf == lowerF :> {"f"} @@ upperF :> {"F"} @@ g :> {"bin", "Debug", "g"} @@ x :> {"x"}
MCFoldOf == lowerF :> "f" @@ upperF :> "f" @@ g :> "g" @@ x :> "x"
MCNode(kind, escapes, content) == [kind |-> kind, escapes |-> escapes, bytes |-> content]
MCNodes == {MCNode("file", FALSE, 1), MCNode("file", TRUE, 2), MCNode("symlink", TRUE, 1), MCNode("symlink", FALSE, 2)}
MCCommitted == [path \in Paths |-> IF path \in {upperF, g} THEN NoEntry ELSE MCNode("file", FALSE, 1)]
MCIndexes == {MCCommitted,
              [MCCommitted EXCEPT ![lowerF] = NoEntry, ![upperF] = MCNode("file", FALSE, 1)],
              [MCCommitted EXCEPT ![upperF] = Intended]}
MCInside == "ws" :> {"ws"} @@ "w1" :> {"w1", "ws"} @@ "client" :> {"client"}
MCTargetOf == app :> web

-----------------------------------------------------------------------------
(* The scenes *)

SceneInit ==
  /\ scene \in Scenes
  /\ StoreInit /\ ContinuityInit /\ AuthorityInit /\ SetupInit /\ ConsoleInit /\ WorkbookInit
  /\ ReadingInit /\ EvidenceInit /\ ProvidersInit /\ DeliveryInit /\ WorkspaceInit
  /\ EditingInit /\ (scene # "editing" => original = CHOOSE d \in Originals : TRUE)
  /\ PackagingInit /\ (scene # "packaging" => placed = [f \in Shipped |-> Nothing])

StoreScene ==
  /\ scene = "store" /\ StoreNext
  /\ UNCHANGED <<scene, continuityVars, authorityVars, setupVars, consoleVars,
                 workbookVars, readingVars, editingVars, evidenceVars,
                 providerVars, deliveryVars, packagingVars, workspaceVars>>
ContinuityScene ==
  /\ scene = "continuity" /\ ContinuityNext
  /\ UNCHANGED <<scene, storeVars, authorityVars, setupVars, consoleVars,
                 workbookVars, readingVars, editingVars, evidenceVars,
                 providerVars, deliveryVars, packagingVars, workspaceVars>>
AuthorityScene ==
  /\ scene = "authority" /\ AuthorityNext
  /\ UNCHANGED <<scene, storeVars, continuityVars, setupVars, consoleVars,
                 workbookVars, readingVars, editingVars, evidenceVars,
                 providerVars, deliveryVars, packagingVars, workspaceVars>>
\* Both hosts with their settings, and one of them without, too.
SetupScene ==
  /\ SetupNext
  /\ \/ scene = "setup" /\ (job' # NoJob /\ job'.kind = "install" => job'.autonomy)
     \/ scene = "options" /\ (job' # NoJob => job'.hosts = {cursor})
  /\ UNCHANGED <<scene, storeVars, continuityVars, authorityVars, consoleVars,
                 workbookVars, readingVars, editingVars, evidenceVars,
                 providerVars, deliveryVars, packagingVars, workspaceVars>>
ConsoleScene ==
  /\ scene = "console" /\ ConsoleNext
  /\ UNCHANGED <<scene, storeVars, continuityVars, authorityVars, setupVars,
                 workbookVars, readingVars, editingVars, evidenceVars,
                 providerVars, deliveryVars, packagingVars, workspaceVars>>
WorkbookScene ==
  /\ scene = "workbook" /\ WorkbookNext
  /\ UNCHANGED <<scene, storeVars, continuityVars, authorityVars, setupVars,
                 consoleVars, readingVars, editingVars, evidenceVars,
                 providerVars, deliveryVars, packagingVars, workspaceVars>>
ReadingScene ==
  /\ scene = "reading" /\ ReadingNext
  /\ UNCHANGED <<scene, storeVars, continuityVars, authorityVars, setupVars,
                 consoleVars, workbookVars, editingVars, evidenceVars,
                 providerVars, deliveryVars, packagingVars, workspaceVars>>
EditingScene ==
  /\ scene = "editing" /\ EditingNext
  /\ UNCHANGED <<scene, storeVars, continuityVars, authorityVars, setupVars,
                 consoleVars, workbookVars, readingVars, evidenceVars,
                 providerVars, deliveryVars, packagingVars, workspaceVars>>
EvidenceScene ==
  /\ scene = "evidence" /\ EvidenceNext
  /\ UNCHANGED <<scene, storeVars, continuityVars, authorityVars, setupVars,
                 consoleVars, workbookVars, readingVars, editingVars,
                 providerVars, deliveryVars, packagingVars, workspaceVars>>
ProvidersScene ==
  /\ scene = "providers" /\ ProvidersNext
  /\ UNCHANGED <<scene, storeVars, continuityVars, authorityVars, setupVars,
                 consoleVars, workbookVars, readingVars, editingVars,
                 evidenceVars, deliveryVars, packagingVars, workspaceVars>>
\* No variable is of both, so that each is a scene of its own.
DeliveryScene ==
  /\ \/ scene = "delivery" /\ AssignNext
     \/ scene = "repair" /\ RepairNext
  /\ UNCHANGED <<scene, storeVars, continuityVars, authorityVars, setupVars,
                 consoleVars, workbookVars, readingVars, editingVars,
                 evidenceVars, providerVars, packagingVars, workspaceVars>>
PackagingScene ==
  /\ scene = "packaging" /\ InstallNext
  /\ UNCHANGED <<scene, storeVars, continuityVars, authorityVars, setupVars,
                 consoleVars, workbookVars, readingVars, editingVars,
                 evidenceVars, providerVars, deliveryVars, workspaceVars>>
UpgradeScene ==
  /\ scene = "upgrade" /\ UpgradeNext
  /\ UNCHANGED <<scene, storeVars, continuityVars, authorityVars, setupVars,
                 consoleVars, workbookVars, readingVars, editingVars,
                 evidenceVars, providerVars, deliveryVars, workspaceVars>>
WorkspaceScene ==
  /\ scene = "workspace" /\ WorkspaceNext
  /\ UNCHANGED <<scene, storeVars, continuityVars, authorityVars, setupVars,
                 consoleVars, workbookVars, readingVars, editingVars,
                 evidenceVars, providerVars, deliveryVars, packagingVars>>

SceneNext ==
  \/ StoreScene
  \/ ContinuityScene
  \/ AuthorityScene
  \/ SetupScene
  \/ ConsoleScene
  \/ WorkbookScene
  \/ ReadingScene
  \/ EditingScene
  \/ EvidenceScene
  \/ ProvidersScene
  \/ DeliveryScene
  \/ PackagingScene
  \/ UpgradeScene
  \/ WorkspaceScene

SceneSpec == SceneInit /\ [][SceneNext]_<<scene, storeVars, continuityVars, authorityVars, setupVars,
  consoleVars, workbookVars, readingVars, editingVars, evidenceVars, providerVars, deliveryVars,
  packagingVars, workspaceVars>>

\* What tells the states of a scene apart: the rest never changes in it.
SceneView ==
  <<scene, CASE scene = "store" -> storeVars
             [] scene = "continuity" -> continuityVars
             [] scene = "authority" -> authorityVars
             [] scene \in {"setup", "options"} -> setupVars
             [] scene = "console" -> consoleVars
             [] scene = "workbook" -> workbookVars
             [] scene = "reading" -> readingVars
             [] scene = "editing" -> editingVars
             [] scene = "evidence" -> evidenceVars
             [] scene = "providers" -> providerVars
             [] scene \in {"delivery", "repair"} -> deliveryVars
             [] scene \in {"packaging", "upgrade"} -> packagingVars
             [] scene = "workspace" -> workspaceVars>>

\* Whatever the component, its state stays what its module says it is.
SceneTypeOK ==
  /\ scene \in Scenes
  /\ scene = "store" => StoreTypeOK
  /\ scene = "continuity" => ContinuityTypeOK
  /\ scene = "authority" => AuthorityTypeOK
  /\ scene \in {"setup", "options"} => SetupTypeOK
  /\ scene = "console" => ConsoleTypeOK
  /\ scene = "workbook" => WorkbookTypeOK
  /\ scene = "reading" => ReadingTypeOK
  /\ scene = "editing" => EditingTypeOK
  /\ scene = "evidence" => EvidenceTypeOK
  /\ scene = "providers" => ProvidersTypeOK
  /\ scene \in {"delivery", "repair"} => DeliveryTypeOK
  /\ scene \in {"packaging", "upgrade"} => PackagingTypeOK
  /\ scene = "workspace" => WorkspaceTypeOK
=============================================================================
