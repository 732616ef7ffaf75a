----------------------------- MODULE HostProofs -----------------------------
(***************************************************************************)
(* Proofs about the parts that work on the person's own files and hosts: a *)
(* distribution and its upgrade (Packaging), a provider's process          *)
(* (Providers), the snapshot of a directory (Workspace), and cm install    *)
(* (Setup).                                                                *)
(***************************************************************************)
EXTENDS Packaging, Providers, Workspace, Setup, FiniteSetTheorems, SequenceTheorems, TLAPS

-----------------------------------------------------------------------------
(***************************************************************************)
(* Packaging                                                               *)
(***************************************************************************)

\* What the person set under another key than ours stands in the settings, and
\* what the process has read of them is a settings file.
ChosenInv ==
  /\ settings \in SettingsFiles \cup {Nothing} /\ settingsCopy \in SettingsFiles \cup {Nothing}
  /\ inHand \in SettingsFiles \cup {Nothing, Unread}
  /\ DOMAIN chosen \subseteq SettingsKeys
  /\ \A k \in DOMAIN chosen \ (overwritten \cup {OwnedKey}) :
       k \in Present(settings) /\ settings[k] = chosen[k]

\* An upgrade at a migration has applied every earlier one whole.
UpgradeInv ==
  /\ stateFile \in States
  /\ upgrading \in 0..(Cardinality(Migrations) + 1)
  /\ upgrading # 0 => stateCopy \in States /\ ~upgraded
  /\ stateCopy \in States \cup {Nothing}
  /\ \A m \in Migrations : m < upgrading => m \in stateFile.applied /\ m \notin stateFile.torn
  /\ upgraded => stateFile = [applied |-> Migrations, torn |-> {}]

LEMMA SettingsFile ==
  ASSUME NEW K, K \subseteq SettingsKeys, NEW f, f = [k \in K |-> f[k]],
         \A k \in K : f[k] \in Given \cup {Written}
  PROVE  f \in SettingsFiles /\ f # Nothing /\ Present(f) = K
<1>1. f \in [K -> Given \cup {Written}]
  OBVIOUS
<1>2. f \in SettingsFiles
  BY <1>1 DEF SettingsFiles
<1>3. f # Nothing
  BY <1>2, PackagingConstantsOK
<1>4. DOMAIN f = K
  BY <1>1
<1> QED BY <1>2, <1>3, <1>4 DEF Present

LEMMA PresentKeys ==
  ASSUME NEW f \in SettingsFiles \cup {Nothing}
  PROVE  /\ Present(f) \subseteq SettingsKeys
         /\ \A k \in Present(f) : f[k] \in Given \cup {Written}
         /\ f # Nothing => f \in SettingsFiles /\ DOMAIN f = Present(f)
<1>1. CASE f = Nothing
  BY <1>1 DEF Present
<1>2. CASE f # Nothing
  <2>1. PICK K \in SUBSET SettingsKeys : f \in [K -> Given \cup {Written}]
    BY <1>2 DEF SettingsFiles
  <2> QED BY <1>2, <2>1 DEF Present
<1> QED BY <1>1, <1>2

\* A write keeps every other key of the person that did not change since it was
\* read, if what is written has the keys that were read.
LEMMA OverwriteKeeps ==
  ASSUME ChosenInv, inHand # Unread, NEW file \in SettingsFiles \cup {Nothing}, Overwrite(file),
         \A k \in Present(inHand) \ {OwnedKey} : k \in Present(file) /\ file[k] = inHand[k],
         chosen' = chosen, settingsCopy' \in SettingsFiles \cup {Nothing},
         inHand' \in {inHand, Unread}
  PROVE  ChosenInv'
<1>1. settings' = file
  BY DEF Overwrite
<1>2. ASSUME NEW k \in DOMAIN chosen \ (overwritten' \cup {OwnedKey})
      PROVE  k \in Present(file) /\ file[k] = chosen[k]
  <2>1. k \notin overwritten /\ ValueOf(settings, k) = ValueOf(inHand, k)
    BY DEF Overwrite, ChosenInv
  <2>2. k \in Present(settings) /\ settings[k] = chosen[k]
    BY <2>1 DEF ChosenInv
  <2>3. settings[k] \in Given \cup {Written}
    BY <2>2, PresentKeys DEF ChosenInv
  <2>4. k \in Present(inHand) /\ inHand[k] = settings[k]
    BY <2>1, <2>2, <2>3, PackagingConstantsOK DEF ValueOf
  <2> QED BY <2>2, <2>4
<1> QED BY <1>1, <1>2 DEF ChosenInv, Present

LEMMA ChosenNext ==
  ASSUME ChosenInv, [PackagingNext]_packagingVars
  PROVE  ChosenInv'
<1> DEFINE Files == SettingsFiles \cup {Nothing}
<1>1. /\ Present(settings) \subseteq SettingsKeys /\ OwnedKey \in SettingsKeys
      /\ \A k \in Present(settings) : settings[k] \in Given \cup {Written}
      /\ settings # Nothing => DOMAIN settings = Present(settings)
      /\ settings \in Files /\ settingsCopy \in Files
  BY PresentKeys, PackagingConstantsOK DEF ChosenInv
<1>2. inHand # Unread =>
        /\ inHand \in Files /\ Present(inHand) \subseteq SettingsKeys
        /\ \A k \in Present(inHand) : inHand[k] \in Given \cup {Written}
  BY PresentKeys DEF ChosenInv
<1>3. ASSUME MergeSettings PROVE ChosenInv'
  <2> DEFINE K == Present(inHand) \cup {OwnedKey}
             new == [k \in K |-> IF k = OwnedKey THEN Written ELSE inHand[k]]
  <2>1. /\ inHand # Unread /\ Overwrite(new) /\ chosen' = chosen
        /\ settingsCopy' = settingsCopy /\ inHand' = Unread
    BY <1>3 DEF MergeSettings, Merged
  <2>2. new \in SettingsFiles /\ Present(new) = K
    BY <1>1, <1>2, <2>1, SettingsFile
  <2>3. \A k \in Present(inHand) \ {OwnedKey} : k \in K /\ new[k] = inHand[k]
    OBVIOUS
  <2> HIDE DEF K, new
  <2> QED BY <1>1, <2>1, <2>2, <2>3, OverwriteKeeps
<1>4. ASSUME UnmergeSettings PROVE ChosenInv'
  <2> DEFINE K == Present(inHand) \ {OwnedKey}
             new == [k \in K |-> inHand[k]]
  <2>1. /\ inHand # Unread /\ chosen' = chosen /\ settingsCopy' = settingsCopy
        /\ inHand' \in {inHand, Unread}
    BY <1>4 DEF UnmergeSettings, Uninstalled
  <2>2. new \in SettingsFiles /\ Present(new) = K /\ DOMAIN new = K
    BY <1>2, <2>1, SettingsFile
  <2>3. \/ DOMAIN new # {} /\ Overwrite(new)
        \/ DOMAIN new = {} /\ (Overwrite(Nothing) \/ Overwrite(settingsCopy))
        \/ UNCHANGED <<settings, overwritten>>
    BY <1>4 DEF UnmergeSettings, Unmerged
  <2>4. \A k \in K : new[k] = inHand[k]
    OBVIOUS
  <2> HIDE DEF new
  <2>5. CASE Overwrite(new)
    BY <1>1, <2>1, <2>2, <2>4, <2>5, OverwriteKeeps
  <2>6. CASE K = {} /\ Overwrite(Nothing)
    BY <1>1, <2>1, <2>6, OverwriteKeeps
  <2>7. CASE K = {} /\ Overwrite(settingsCopy)
    BY <1>1, <2>1, <2>7, OverwriteKeeps
  <2>8. CASE UNCHANGED <<settings, overwritten>>
    BY <2>1, <2>8 DEF ChosenInv, Present
  <2> QED BY <2>2, <2>3, <2>5, <2>6, <2>7, <2>8
<1>5. ASSUME NEW j \in SettingsKeys, NEW v \in Given, Sets(j, v) PROVE ChosenInv'
  <2> DEFINE K == Present(settings) \cup {j}
             new == [k \in K |-> IF k = j THEN v ELSE settings[k]]
             mineNow == [k \in DOMAIN chosen \cup {j} |-> IF k = j THEN v ELSE chosen[k]]
  <2>1. /\ settings' = new /\ chosen' = mineNow /\ overwritten' = overwritten \ {j}
        /\ settingsCopy' = settingsCopy /\ inHand' = inHand
    BY <1>5 DEF Sets
  <2>2. new \in SettingsFiles /\ Present(new) = K
    BY <1>1, SettingsFile
  <2>3. /\ DOMAIN mineNow \subseteq SettingsKeys
        /\ \A k \in DOMAIN mineNow \ ((overwritten \ {j}) \cup {OwnedKey}) : k \in K /\ new[k] = mineNow[k]
    BY DEF ChosenInv
  <2> HIDE DEF K, new, mineNow
  <2> QED BY <1>1, <2>1, <2>2, <2>3 DEF ChosenInv
<1>6. ASSUME NEW j \in SettingsKeys, TakesOut(j) PROVE ChosenInv'
  <2> DEFINE K == Present(settings) \ {j}
             new == [k \in K |-> settings[k]]
             mineNow == [k \in DOMAIN chosen \ {j} |-> chosen[k]]
  <2>1. settings # Nothing
    BY <1>6 DEF TakesOut, Present
  <2>2. /\ settings' = new /\ chosen' = mineNow /\ overwritten' = overwritten \ {j}
        /\ settingsCopy' = settingsCopy /\ inHand' = inHand
    BY <1>1, <1>6, <2>1 DEF TakesOut
  <2>3. new \in SettingsFiles /\ Present(new) = K
    BY <1>1, SettingsFile
  <2>4. /\ DOMAIN mineNow \subseteq SettingsKeys
        /\ \A k \in DOMAIN mineNow \ ((overwritten \ {j}) \cup {OwnedKey}) : k \in K /\ new[k] = mineNow[k]
    BY DEF ChosenInv
  <2> HIDE DEF K, new, mineNow
  <2> QED BY <1>1, <2>2, <2>3, <2>4 DEF ChosenInv
<1>7. ASSUME /\ UNCHANGED <<settings, overwritten, chosen>>
             /\ settingsCopy' \in {settingsCopy, settings, Nothing}
             /\ inHand' \in {inHand, settings, Unread}
      PROVE  ChosenInv'
  BY <1>1, <1>7 DEF ChosenInv, Present
<1>8. ASSUME NEW f \in Shipped,
             BackUp(f) \/ ApplyChange(f) \/ RemoveFile(f) \/ CopyBack(f) \/ RemoveCopy(f)
      PROVE  ChosenInv'
  BY <1>7, <1>8 DEF BackUp, ApplyChange, RemoveFile, CopyBack, RemoveCopy
<1>9. ASSUME \/ PlanInstall \/ ApproveInstall \/ Dropped \/ ReadSettings \/ CopySettings
             \/ BeginUninstall \/ ReadInstalled \/ RemoveSettingsCopy
      PROVE  ChosenInv'
  <2>1. /\ UNCHANGED <<settings, overwritten, chosen>>
        /\ settingsCopy' \in {settingsCopy, settings, Nothing}
        /\ inHand' \in {inHand, settings, Unread}
    BY <1>9
    DEF PlanInstall, ApproveInstall, Dropped, ReadSettings, CopySettings, BeginUninstall,
        ReadInstalled, RemoveSettingsCopy, Uninstalled
  <2> QED BY <1>7, <2>1
<1>10. ASSUME UpgradeNext PROVE ChosenInv'
  BY <1>7, <1>10
  DEF UpgradeNext, TakeSnapshot, ApplyMigration, MigrationFails, ActivateVersion,
      RestoreSnapshot, UpgradeKilled, installVars
<1>11. ASSUME UNCHANGED packagingVars PROVE ChosenInv'
  BY <1>7, <1>11 DEF packagingVars, installVars
<1> QED
  BY <1>3, <1>4, <1>5, <1>6, <1>8, <1>9, <1>10, <1>11 DEF PackagingNext, InstallNext, Uninstall

LEMMA UpgradeKeeps ==
  ASSUME UpgradeInv, [PackagingNext]_packagingVars
  PROVE  UpgradeInv'
<1> DEFINE n == Cardinality(Migrations)
<1>1. n \in Nat /\ Migrations = 1..n
  BY PackagingConstantsOK, FS_CardinalityType
<1>2. stateFile.applied \subseteq Migrations /\ stateFile.torn \subseteq Migrations
  BY DEF UpgradeInv, States
<1> HIDE DEF n
<1>3. upgrading \in 0..(n + 1)
  BY DEF UpgradeInv, n
<1>4. ASSUME TakeSnapshot PROVE UpgradeInv'
  <2>1. /\ upgrading' = 1 /\ stateFile' = stateFile /\ stateCopy' = stateFile
        /\ upgraded' = FALSE
    BY <1>4 DEF TakeSnapshot
  <2>2. \A m \in Migrations : ~(m < 1)
    BY <1>1
  <2>3. 1 \in 0..(n + 1)
    BY <1>1
  <2> QED BY <2>1, <2>2, <2>3 DEF UpgradeInv, n
<1>5. ASSUME ApplyMigration PROVE UpgradeInv'
  <2> DEFINE new == [applied |-> stateFile.applied \cup {upgrading},
                     torn |-> stateFile.torn \ {upgrading}]
  <2>1. /\ upgrading' = upgrading + 1 /\ stateFile' = new /\ stateCopy' = stateCopy
        /\ upgraded' = upgraded /\ upgrading \in 1..n
    BY <1>1, <1>5 DEF ApplyMigration
  <2>2. /\ new \in States /\ new.applied = stateFile.applied \cup {upgrading}
        /\ new.torn = stateFile.torn \ {upgrading}
    BY <1>1, <1>2, <2>1 DEF States
  <2> HIDE DEF new
  <2>3. /\ upgrading' \in 0..(n + 1) /\ upgrading # 0 /\ upgrading' # 0
        /\ \A m \in Migrations : m < upgrading' => m < upgrading \/ m = upgrading
    BY <1>1, <2>1
  <2> QED BY <2>1, <2>2, <2>3 DEF UpgradeInv, n
<1>6. ASSUME MigrationFails \/ RestoreSnapshot PROVE UpgradeInv'
  <2>1. stateCopy \in States /\ stateFile' = stateCopy /\ stateCopy' = stateCopy /\ upgrading' = 0
        /\ ~upgraded'
    BY <1>1, <1>6 DEF MigrationFails, RestoreSnapshot, RollbackSafe, UpgradeInv
  <2>2. (\A m \in Migrations : ~(m < 0)) /\ 0 \in 0..(n + 1)
    BY <1>1
  <2> QED BY <2>1, <2>2 DEF UpgradeInv, n
<1>7. ASSUME ActivateVersion PROVE UpgradeInv'
  <2>1. /\ upgrading = n + 1 /\ upgrading' = 0 /\ stateFile' = stateFile /\ stateCopy' = stateCopy
        /\ upgraded' = TRUE
    BY <1>7 DEF ActivateVersion, n
  <2>2. (\A m \in Migrations : m < n + 1 /\ ~(m < 0)) /\ 0 \in 0..(n + 1)
    BY <1>1
  <2>3. stateFile.applied = Migrations /\ stateFile.torn = {}
    BY <1>2, <2>1, <2>2 DEF UpgradeInv
  <2>4. stateFile = [applied |-> Migrations, torn |-> {}]
    BY <2>3 DEF UpgradeInv, States
  <2> QED BY <2>1, <2>2, <2>4 DEF UpgradeInv, n
<1>8. ASSUME NEW torn \in SUBSET Migrations, UpgradeKilled(torn) PROVE UpgradeInv'
  <2> DEFINE new == [stateFile EXCEPT !.torn = @ \cup torn]
  <2>1. new \in States
    BY <1>2 DEF UpgradeInv, States
  <2>2. /\ stateFile' = new /\ upgrading' = 0 /\ ~upgraded' /\ stateCopy' = stateCopy
    BY <1>8 DEF UpgradeKilled, UpgradeInv
  <2>3. (\A m \in Migrations : ~(m < 0)) /\ 0 \in 0..(n + 1)
    BY <1>1
  <2> QED BY <2>1, <2>2, <2>3 DEF UpgradeInv, n
<1>9. ASSUME InstallNext \/ UNCHANGED packagingVars PROVE UNCHANGED upgradeVars
  BY <1>9
  DEF InstallNext, PlanInstall, ApproveInstall, Dropped, BackUp, ApplyChange, ReadSettings,
      CopySettings, MergeSettings, Uninstall, BeginUninstall, RemoveFile, CopyBack, RemoveCopy,
      ReadInstalled, UnmergeSettings, RemoveSettingsCopy, TakesOut, Sets, packagingVars
<1>10. ASSUME UNCHANGED upgradeVars PROVE UpgradeInv'
  BY <1>10 DEF UpgradeInv, upgradeVars
<1> QED BY <1>4, <1>5, <1>6, <1>7, <1>8, <1>9, <1>10 DEF PackagingNext, UpgradeNext

\* However often the distribution is planned, applied half-way, installed over
\* itself or removed, the person's settings are theirs, but for a change that a
\* write does not know of; and an upgrade that says it succeeded has applied
\* every migration, none half.
THEOREM SettingsAreTheirsAlways == PackagingSpec => []SettingsAreTheirs
<1>1. PackagingInit => ChosenInv /\ UpgradeInv
  <2> SUFFICES ASSUME PackagingInit PROVE ChosenInv /\ UpgradeInv
    OBVIOUS
  <2>1. ChosenInv
    BY DEF PackagingInit, ChosenInv
  <2>2. Cardinality(Migrations) \in Nat /\ Migrations = 1..Cardinality(Migrations)
    BY PackagingConstantsOK, FS_CardinalityType
  <2>3. stateFile \in States
    BY DEF PackagingInit, States
  <2>4. UpgradeInv
    BY <2>2, <2>3 DEF PackagingInit, UpgradeInv
  <2> QED BY <2>1, <2>4
<1>2. ChosenInv /\ UpgradeInv => SettingsAreTheirs
  BY DEF ChosenInv, UpgradeInv, SettingsAreTheirs
<1> QED BY <1>1, <1>2, ChosenNext, UpgradeKeeps, PTL DEF PackagingSpec

-----------------------------------------------------------------------------
(***************************************************************************)
(* Providers                                                               *)
(***************************************************************************)

\* What a host of each kind may print, and what its lines become.
LinesOf(r) ==
  {line \in Lines : /\ line.type = "failed" => ProviderOf[r] = "codex"
                    /\ line.error \/ line.limit \/ line.denied =>
                         ProviderOf[r] = "claude" /\ line.type = "result"}
EventTypes == {"blocked", "usage", "session", "claim", "ended"}
HasEnded(r) == \E i \in DOMAIN events[r] : events[r][i] = "ended"

\* A run that has not ended has no `ended`; one that has ended is at its last
\* line, which says no more than its reason; and a codex turn that failed, or
\* was blocked, never becomes a completed one.
RunInv(r) ==
  /\ pc[r] \in {"idle", "detecting"} =>
       child[r] = "none" /\ pipe[r] = <<>> /\ events[r] = <<>>
  /\ pc[r] = "reading" => child[r] # "none"
  /\ pc[r] # "done" => ~HasEnded(r)
  /\ reason[r] = "completed_turn" => ~last[r].error /\ ~last[r].limit
  /\ ProviderOf[r] = "codex" /\ reason[r] = "completed_turn" =>
       \A i \in DOMAIN events[r] : events[r][i] # "blocked" \/ child[r] = "none"
  /\ HasEnded(r) =>
       /\ pipe[r] = <<>> /\ child[r] \in {"zero", "nonzero", "signal"}
       /\ \A i \in DOMAIN events[r] : events[r][i] = "ended" <=> i = Len(events[r])
       /\ reason[r] = "completed_turn" => child[r] = "zero"

RunTypeOK ==
  /\ pc \in [HostRuns -> {"idle", "detecting", "reading", "done"}]
  /\ child \in [HostRuns -> {"none", "running", "zero", "nonzero", "signal"}]
  /\ reason \in [HostRuns -> Reasons]
  /\ DOMAIN pipe = HostRuns /\ \A r \in HostRuns : pipe[r] \in Seq(LinesOf(r))
  /\ events \in [HostRuns -> Seq(EventTypes)]
  /\ last \in [HostRuns -> [type : {"session", "claim", "result", "failed", "unknown"},
                            error : BOOLEAN, limit : BOOLEAN, denied : BOOLEAN]]

RunsInv == RunTypeOK /\ \A r \in HostRuns : RunInv(r)

\* A line that is read leaves a reason that agrees with it, and events without `ended`.
LEMMA LineRead ==
  ASSUME NEW r \in HostRuns, NEW line \in LinesOf(r), RunsInv
  PROVE  /\ Normalised(line) \in Seq(EventTypes)
         /\ \A i \in DOMAIN Normalised(line) :
              /\ Normalised(line)[i] # "ended"
              /\ Normalised(line)[i] = "blocked" /\ ProviderOf[r] = "codex" => line.type = "failed"
         /\ EndAfter(r, line) \in Reasons
         /\ EndAfter(r, line) = "completed_turn" =>
              IF line.type \in {"result", "failed"} THEN ~line.error /\ ~line.limit
              ELSE reason[r] = "completed_turn"
         /\ ProviderOf[r] = "codex" /\ EndAfter(r, line) = "completed_turn" =>
              reason[r] = "completed_turn" /\ line.type # "failed"
<1>1. /\ line.type \in {"session", "claim", "result", "failed", "unknown"}
      /\ line.error \in BOOLEAN /\ line.limit \in BOOLEAN /\ line.denied \in BOOLEAN
      /\ line.type = "failed" => ProviderOf[r] = "codex"
      /\ line.error \/ line.limit \/ line.denied => ProviderOf[r] = "claude" /\ line.type = "result"
      /\ ProviderOf[r] \in {"claude", "codex"}
  BY ProvidersConstantsOK DEF LinesOf
<1>2. Normalised(line) \in {<<>>, <<"blocked">>, <<"usage">>, <<"session">>, <<"claim">>}
  BY <1>1 DEF Normalised
<1>3. /\ Normalised(line) \in Seq(EventTypes)
      /\ \A i \in DOMAIN Normalised(line) : Normalised(line)[i] # "ended"
  <2>1. \A e \in EventTypes \ {"ended"} :
          <<e>> \in Seq(EventTypes) /\ \A i \in DOMAIN <<e>> : <<e>>[i] # "ended"
    OBVIOUS
  <2>2. <<>> \in Seq(EventTypes) /\ DOMAIN <<>> = {}
    OBVIOUS
  <2>3. {"blocked", "usage", "session", "claim"} \subseteq EventTypes \ {"ended"}
    BY DEF EventTypes
  <2>4. Normalised(line) = <<>> \/ \E e \in EventTypes \ {"ended"} : Normalised(line) = <<e>>
    BY <1>2, <2>3
  <2> QED BY <2>1, <2>2, <2>4
<1>4. ASSUME NEW i \in DOMAIN Normalised(line), Normalised(line)[i] = "blocked",
             ProviderOf[r] = "codex"
      PROVE  line.type = "failed"
  BY <1>1, <1>4 DEF Normalised
<1>5. reason[r] \in Reasons
  BY DEF RunsInv, RunTypeOK
<1>6. /\ EndAfter(r, line) \in Reasons
      /\ EndAfter(r, line) = "completed_turn" =>
           IF line.type \in {"result", "failed"} THEN ~line.error /\ ~line.limit
           ELSE reason[r] = "completed_turn"
      /\ ProviderOf[r] = "codex" /\ EndAfter(r, line) = "completed_turn" =>
           reason[r] = "completed_turn" /\ line.type # "failed"
  BY <1>1, <1>5 DEF EndAfter, ClaudeEndReason, Reasons
<1> QED BY <1>3, <1>4, <1>6

LEMMA RunsInitInv == ProvidersInit => RunsInv
<1> SUFFICES ASSUME ProvidersInit PROVE RunsInv
  OBVIOUS
<1>1. /\ NoLine \in [type : {"session", "claim", "result", "failed", "unknown"},
                     error : BOOLEAN, limit : BOOLEAN, denied : BOOLEAN]
      /\ ~NoLine.error /\ ~NoLine.limit
  BY DEF NoLine
<1>2. \A S : <<>> \in Seq(S) /\ DOMAIN <<>> = {}
  OBVIOUS
<1>3. /\ pc = [r \in HostRuns |-> "idle"] /\ child = [r \in HostRuns |-> "none"]
      /\ reason = [r \in HostRuns |-> "completed_turn"]
      /\ pipe = [r \in HostRuns |-> <<>>] /\ events = [r \in HostRuns |-> <<>>]
      /\ last = [r \in HostRuns |-> NoLine]
  BY DEF ProvidersInit
<1> HIDE DEF NoLine
<1>4. RunTypeOK
  BY <1>1, <1>2, <1>3 DEF RunTypeOK, Reasons
<1>5. \A r \in HostRuns : RunInv(r)
  BY <1>1, <1>2, <1>3 DEF RunInv, HasEnded
<1> QED BY <1>4, <1>5 DEF RunsInv

\* Every step of a host, its adapter and the report keeps the runs so.
LEMMA RunsNextInv ==
  ASSUME RunsInv, [ProvidersNext]_providerVars
  PROVE  RunsInv'
<1> DEFINE Same(r) == /\ pc'[r] = pc[r] /\ child'[r] = child[r] /\ reason'[r] = reason[r]
                      /\ pipe'[r] = pipe[r] /\ events'[r] = events[r] /\ last'[r] = last[r]
<1>1. ASSUME NEW r \in HostRuns, Same(r) PROVE RunInv(r)'
  BY <1>1 DEF RunsInv, RunInv, HasEnded
<1>2. ASSUME NEW r \in HostRuns, RunTypeOK', RunInv(r)',
             \A q \in HostRuns : q # r => Same(q)
      PROVE  RunsInv'
  BY <1>1, <1>2 DEF RunsInv
<1>3. RunTypeOK /\ \A r \in HostRuns : RunInv(r)
  BY DEF RunsInv
<1> HIDE DEF Same
<1>4. ASSUME NEW r \in HostRuns, NEW line \in Lines, HostPrints(r, line) PROVE RunsInv'
  <2>1. /\ child[r] = "running" /\ pipe' = [pipe EXCEPT ![r] = Append(@, line)]
        /\ <<pc, child, reason, events, last>>' = <<pc, child, reason, events, last>>
        /\ line \in LinesOf(r)
    BY <1>4 DEF HostPrints, runVars, LinesOf
  <2>2. Append(pipe[r], line) \in Seq(LinesOf(r))
    BY <1>3, <2>1 DEF RunTypeOK
  <2>3. RunTypeOK'
    BY <1>3, <2>1, <2>2 DEF RunTypeOK
  <2>4. RunInv(r)'
    BY <1>3, <2>1 DEF RunInv, HasEnded
  <2>5. \A q \in HostRuns : q # r => Same(q)
    BY <1>3, <2>1 DEF RunTypeOK, Same
  <2> QED BY <1>2, <2>3, <2>4, <2>5
<1>5. ASSUME NEW r \in HostRuns, NEW how \in {"zero", "nonzero", "signal"}, HostExits(r, how)
      PROVE  RunsInv'
  <2>1. /\ child[r] = "running" /\ child' = [child EXCEPT ![r] = how]
        /\ <<pc, pipe, reason, events, last>>' = <<pc, pipe, reason, events, last>>
    BY <1>5 DEF HostExits, runVars
  <2>2. RunTypeOK'
    BY <1>3, <2>1 DEF RunTypeOK
  <2>3. RunInv(r)'
    BY <1>3, <2>1 DEF RunTypeOK, RunInv, HasEnded
  <2>4. \A q \in HostRuns : q # r => Same(q)
    BY <1>3, <2>1 DEF RunTypeOK, Same
  <2> QED BY <1>2, <2>2, <2>3, <2>4
<1>6. ASSUME NEW r \in HostRuns, StartRun(r) \/ Refused(r) PROVE RunsInv'
  <2>1. /\ pc[r] \in {"idle", "detecting"}
        /\ \/ pc' = [pc EXCEPT ![r] = "detecting"]
           \/ pc' = [pc EXCEPT ![r] = "done"]
        /\ <<child, pipe, reason, events, last>>' = <<child, pipe, reason, events, last>>
    BY <1>6 DEF StartRun, Refused, hostVars
  <2>2. RunTypeOK'
    BY <1>3, <2>1 DEF RunTypeOK
  <2>3. RunInv(r)'
    BY <1>3, <2>1 DEF RunTypeOK, RunInv, HasEnded
  <2>4. \A q \in HostRuns : q # r => Same(q)
    BY <1>3, <2>1 DEF RunTypeOK, Same
  <2> QED BY <1>2, <2>2, <2>3, <2>4
<1>7. ASSUME NEW r \in HostRuns, NotInstalled(r) PROVE RunsInv'
  <2>1. /\ pc[r] = "detecting" /\ pc' = [pc EXCEPT ![r] = "done"]
        /\ events' = [events EXCEPT ![r] = <<"blocked">>]
        /\ <<child, pipe, reason, last>>' = <<child, pipe, reason, last>>
    BY <1>7 DEF NotInstalled, hostVars
  <2>2. <<"blocked">> \in Seq(EventTypes) /\ \A i \in DOMAIN <<"blocked">> : <<"blocked">>[i] # "ended"
    BY DEF EventTypes
  <2>3. RunTypeOK'
    BY <1>3, <2>1, <2>2 DEF RunTypeOK
  <2>4. ~HasEnded(r)' /\ child'[r] = "none" /\ pc'[r] = "done"
    BY <1>3, <2>1, <2>2 DEF RunTypeOK, RunInv, HasEnded
  <2>5. RunInv(r)'
    BY <1>3, <2>1, <2>4 DEF RunInv
  <2>6. \A q \in HostRuns : q # r => Same(q)
    BY <1>3, <2>1 DEF RunTypeOK, Same
  <2> QED BY <1>2, <2>3, <2>5, <2>6
<1>8. ASSUME NEW r \in HostRuns, StartHostProcess(r) PROVE RunsInv'
  <2>1. /\ pc[r] = "detecting" /\ pc' = [pc EXCEPT ![r] = "reading"]
        /\ child' = [child EXCEPT ![r] = "running"]
        /\ <<pipe, reason, events, last>>' = <<pipe, reason, events, last>>
    BY <1>8 DEF StartHostProcess
  <2>2. RunTypeOK'
    BY <1>3, <2>1 DEF RunTypeOK
  <2>3. events[r] = <<>> /\ ~HasEnded(r)'
    BY <1>3, <2>1 DEF RunInv, HasEnded
  <2>4. RunInv(r)'
    BY <1>3, <2>1, <2>3 DEF RunTypeOK, RunInv
  <2>5. \A q \in HostRuns : q # r => Same(q)
    BY <1>3, <2>1 DEF RunTypeOK, Same
  <2> QED BY <1>2, <2>2, <2>4, <2>5
<1>9. ASSUME NEW r \in HostRuns, ReadLine(r) PROVE RunsInv'
  <2> DEFINE line == Head(pipe[r])
             more == Normalised(line)
             now == EndAfter(r, line)
             said == IF line.type \in {"result", "failed"} THEN line ELSE last[r]
  <2>1. /\ pc[r] = "reading" /\ pipe[r] # <<>> /\ pipe[r] \in Seq(LinesOf(r))
        /\ events[r] \in Seq(EventTypes)
    BY <1>3, <1>9 DEF ReadLine, RunTypeOK
  <2>2. line \in LinesOf(r) /\ Tail(pipe[r]) \in Seq(LinesOf(r))
    BY <2>1, HeadTailProperties
  <2>3. /\ more \in Seq(EventTypes)
        /\ \A i \in DOMAIN more : /\ more[i] # "ended"
                                  /\ more[i] = "blocked" /\ ProviderOf[r] = "codex" => line.type = "failed"
        /\ now \in Reasons
        /\ now = "completed_turn" =>
             IF line.type \in {"result", "failed"} THEN ~line.error /\ ~line.limit
             ELSE reason[r] = "completed_turn"
        /\ ProviderOf[r] = "codex" /\ now = "completed_turn" =>
             reason[r] = "completed_turn" /\ line.type # "failed"
    BY <2>2, LineRead
  <2>4. /\ reason' = [reason EXCEPT ![r] = now]
        /\ events' = [events EXCEPT ![r] = events[r] \o more]
        /\ last' = [last EXCEPT ![r] = said]
        /\ pipe' = [pipe EXCEPT ![r] = Tail(pipe[r])]
        /\ pc' = pc /\ child' = child
    BY <1>9 DEF ReadLine
  <2>5. said \in [type : {"session", "claim", "result", "failed", "unknown"},
                  error : BOOLEAN, limit : BOOLEAN, denied : BOOLEAN]
    BY <1>3, <2>2, ProvidersConstantsOK DEF RunTypeOK, LinesOf
  <2>6. now = "completed_turn" => ~said.error /\ ~said.limit
    BY <1>3, <2>3 DEF RunInv
  <2> HIDE DEF line, more, now, said
  <2>7. /\ events[r] \o more \in Seq(EventTypes)
        /\ \A i \in DOMAIN (events[r] \o more) :
             \/ i \in DOMAIN events[r] /\ (events[r] \o more)[i] = events[r][i]
             \/ \E j \in DOMAIN more : (events[r] \o more)[i] = more[j]
    <3>1. /\ events[r] \o more \in Seq(EventTypes)
          /\ Len(events[r] \o more) = Len(events[r]) + Len(more)
          /\ \A i \in 1 .. Len(events[r]) + Len(more) : (events[r] \o more)[i] =
               IF i <= Len(events[r]) THEN events[r][i] ELSE more[i - Len(events[r])]
      BY <2>1, <2>3, ConcatProperties
    <3>2. /\ Len(events[r]) \in Nat /\ DOMAIN events[r] = 1..Len(events[r])
          /\ Len(more) \in Nat /\ DOMAIN more = 1..Len(more)
          /\ DOMAIN (events[r] \o more) = 1..(Len(events[r]) + Len(more))
      BY <2>1, <2>3, <3>1, LenProperties
    <3>3. ASSUME NEW i \in 1..(Len(events[r]) + Len(more))
          PROVE  \/ i \in 1..Len(events[r]) /\ (events[r] \o more)[i] = events[r][i]
                 \/ i - Len(events[r]) \in 1..Len(more)
                    /\ (events[r] \o more)[i] = more[i - Len(events[r])]
      BY <3>1, <3>2
    <3> QED BY <3>1, <3>2, <3>3
  <2>8. RunTypeOK'
    BY <1>3, <2>2, <2>3, <2>4, <2>5, <2>7 DEF RunTypeOK
  <2>9. events'[r] = events[r] \o more /\ reason'[r] = now /\ last'[r] = said
    BY <1>3, <2>4 DEF RunTypeOK
  <2>10. ~HasEnded(r)'
    BY <1>3, <2>1, <2>3, <2>7, <2>9 DEF RunInv, HasEnded
  <2>11. ProviderOf[r] = "codex" /\ now = "completed_turn" =>
           \A i \in DOMAIN events'[r] : events'[r][i] # "blocked" \/ child'[r] = "none"
    BY <1>3, <2>3, <2>4, <2>7, <2>9 DEF RunInv
  <2>12. RunInv(r)'
    BY <1>3, <2>1, <2>4, <2>6, <2>9, <2>10, <2>11 DEF RunInv
  <2>13. \A q \in HostRuns : q # r => Same(q)
    BY <1>3, <2>4 DEF RunTypeOK, Same
  <2> QED BY <1>2, <2>8, <2>12, <2>13
<1>10. ASSUME NEW r \in HostRuns, End(r) PROVE RunsInv'
  <2>1. /\ pc[r] = "reading" /\ pipe[r] = <<>> /\ child[r] # "running" /\ child[r] # "none"
        /\ ~HasEnded(r) /\ child[r] \in {"none", "running", "zero", "nonzero", "signal"}
        /\ events[r] \in Seq(EventTypes)
    BY <1>3, <1>10 DEF End, RunInv, RunTypeOK
  <2>2. /\ pc' = [pc EXCEPT ![r] = "done"] /\ reason' = [reason EXCEPT ![r] = EndOf(r)]
        /\ events' = [events EXCEPT ![r] = Append(events[r], "ended")]
        /\ <<child, pipe, last>>' = <<child, pipe, last>>
    BY <1>10 DEF End, hostVars
  <2>3. /\ EndOf(r) \in Reasons
        /\ EndOf(r) = "completed_turn" => reason[r] = "completed_turn" /\ child[r] = "zero"
    BY <1>3, <2>1 DEF EndOf, RunTypeOK, Reasons
  <2>4. /\ Append(events[r], "ended") \in Seq(EventTypes)
        /\ Len(events[r]) \in Nat /\ DOMAIN events[r] = 1..Len(events[r])
        /\ Len(Append(events[r], "ended")) = Len(events[r]) + 1
        /\ DOMAIN Append(events[r], "ended") = 1..(Len(events[r]) + 1)
        /\ \A i \in 1..Len(events[r]) : Append(events[r], "ended")[i] = events[r][i]
        /\ Append(events[r], "ended")[Len(events[r]) + 1] = "ended"
    BY <2>1, LenProperties DEF EventTypes
  <2>5. RunTypeOK'
    BY <1>3, <2>2, <2>3, <2>4 DEF RunTypeOK
  <2>6. /\ events'[r] = Append(events[r], "ended") /\ reason'[r] = EndOf(r) /\ pc'[r] = "done"
    BY <1>3, <2>2 DEF RunTypeOK
  <2>7. \A i \in DOMAIN events'[r] : events'[r][i] = "ended" <=> i = Len(events'[r])
    BY <2>1, <2>4, <2>6 DEF HasEnded
  <2>8. ProviderOf[r] = "codex" /\ EndOf(r) = "completed_turn" =>
          \A i \in DOMAIN events'[r] : events'[r][i] # "blocked" \/ child'[r] = "none"
    BY <1>3, <2>2, <2>3, <2>4, <2>6 DEF RunInv
  <2>9. RunInv(r)'
    BY <1>3, <2>1, <2>2, <2>3, <2>6, <2>7, <2>8 DEF RunInv
  <2>10. \A q \in HostRuns : q # r => Same(q)
    BY <1>3, <2>2 DEF RunTypeOK, Same
  <2> QED BY <1>2, <2>5, <2>9, <2>10
<1>11. ASSUME \/ \E r \in HostRuns : Abort(r)
              \/ \E a \in HostAttempts : Cancel(a)
              \/ \E trusted, zero, parsed \in BOOLEAN, answered \in SUBSET Capabilities :
                   Discover(DetectHost(trusted, zero, parsed), Capabilities, answered)
              \/ UNCHANGED providerVars
       PROVE  RunsInv'
  <2>1. <<pc, child, reason, pipe, events, last>>' = <<pc, child, reason, pipe, events, last>>
    BY <1>11 DEF Abort, Cancel, Discover, providerVars, hostVars, runVars
  <2>2. RunTypeOK' /\ \A r \in HostRuns : Same(r)
    BY <1>3, <2>1 DEF RunTypeOK, Same
  <2> QED BY <1>1, <2>2 DEF RunsInv
<1> QED
  BY <1>4, <1>5, <1>6, <1>7, <1>8, <1>9, <1>10, <1>11 DEF ProvidersNext

\* Whatever a host prints, however it ends and whenever it is aborted: a run
\* that reports a completed turn was not killed, exited with zero and had no
\* failed turn last, and `ended` is the one last event of a run.
THEOREM CompletedIsCleanAlways == ProvidersSpec => []CompletedIsClean
<1>1. RunsInv => CompletedIsClean
  BY DEF RunsInv, RunInv, HasEnded, CompletedIsClean
<1> QED BY <1>1, RunsInitInv, RunsNextInv, PTL DEF ProvidersSpec

-----------------------------------------------------------------------------
(***************************************************************************)
(* Workspace                                                               *)
(***************************************************************************)

\* What a walk has taken down is not excluded, is no link that leaves the root and
\* has a name of its own.
EntriesSound(source) ==
  \A e \in source :
    /\ e.path \in Paths \ Excluded /\ (e.node.kind = "symlink" => ~e.node.escapes)
    /\ \A f \in source : FoldOf[e.path] = FoldOf[f.path] => e = f

\* What git does not name is as HEAD has it, or is one of the three it passes over.
PassedOver(t, git, p) ==
  \/ t[p] = Committed[p] \/ git.index[p] = Intended
  \/ git.index[p] = NoEntry /\ p \in Ignored
  \/ Committed[p] # NoEntry /\ t[p] # NoEntry /\ t[p].kind # Committed[p].kind

Taken == {walk.entries[i] : i \in DOMAIN walk.entries}

NodeRecords == [kind : {"file", "symlink"}, escapes : BOOLEAN, bytes : Nat]
Looks == [path : Paths \ Excluded, kind : {"file", "symlink"}]

\* What is to be looked at is in a directory that was seen, and one name at most is
\* between lstat and read.
WalkShape ==
  /\ walk.unseen \subseteq Directories /\ walk.unlisted \subseteq Directories \ walk.unseen
  /\ walk.todo \subseteq {p \in Paths \ Excluded : DirOf[p] \notin walk.unseen}
  /\ walk.looked \subseteq {l \in Looks : DirOf[l.path] \notin walk.unseen}
  /\ \A l, m \in walk.looked : l = m
  /\ \A l \in walk.looked, f \in Taken : FoldOf[f.path] # FoldOf[l.path]
  /\ walk.entries \in Seq([path : Paths, node : NodeRecords])

\* While nothing changes an entry is what the tree has there, a name looked at is
\* still what it was, and everything else in the tree is still to be reached.
WalkQuiet ==
  /\ \A e \in Taken : e = Entry(e.path, tree[e.path]) /\ tree[e.path] # NoEntry /\ ~e.node.escapes
  /\ \A l \in walk.looked : tree[l.path] # NoEntry /\ tree[l.path].kind = l.kind
  /\ \A p \in Paths : DirOf[p] \notin walk.unseen => ~Astray(p)
  /\ \A p \in TreeFiles \ Excluded :
       \/ DirOf[p] \in walk.unseen \cup walk.unlisted \/ p \in walk.todo
       \/ (\E l \in walk.looked : l.path = p) \/ Entry(p, tree[p]) \in Taken
  /\ walk.purpose = "onboard" /\ walk.git.answered =>
       \A p \in Paths \ Named(walk.git.lines) : PassedOver(tree, walk.git, p)

WalkInv == WalkShape /\ EntriesSound(Taken) /\ (quiet => WalkQuiet)

SnapshotInv ==
  /\ tree \in [Paths -> Nodes \cup {NoEntry}]
  /\ walk # NoWalk => WalkInv
  /\ SnapshotIsTheTree

\* The lines of a git status that answered.
LEMMA StatusSound ==
  ASSUME tree \in [Paths -> Nodes \cup {NoEntry}], NEW git \in GitStates, git.answered,
         NEW p \in Paths \ Named(git.lines)
  PROVE  PassedOver(tree, git, p)
<1> DEFINE State(i, pairs) ==
             [available |-> TRUE, answered |-> TRUE, index |-> i, lines |-> StatusLines(i, pairs)]
<1>1. PICK i \in Indexes : \E pairs \in Renames(i) : git = State(i, pairs)
  BY DEF GitStates
<1>2. PICK pairs \in Renames(i) : git = State(i, pairs)
  BY <1>1
<1>3. git.index = i /\ git.lines = StatusLines(i, pairs)
  BY <1>2
<1> HIDE DEF State
<1>4. p \in ToSet(<<p>>) /\ \A l \in git.lines : p \notin ToSet(l)
  BY DEF ToSet, Named
<1>5. p \notin Named(pairs)
  BY <1>3, <1>4 DEF Named, StatusLines
<1>6. ~Untracked(i, p) /\ ~Staged(i, p) /\ ~ModifiedTracked(i, p)
  <2>1. <<p>> \notin StatusLines(i, pairs)
    BY <1>3, <1>4
  <2> QED BY <1>5, <2>1 DEF StatusLines
<1>7. i[p] \in Nodes \cup {NoEntry, Intended} /\ tree[p] \in Nodes \cup {NoEntry}
  BY <1>1, WorkspaceConstantsOK
<1>8. CASE i[p] = NoEntry
  BY <1>3, <1>6, <1>8, WorkspaceConstantsOK DEF Untracked, Staged, PassedOver
<1>9. CASE i[p] \in Nodes
  <2>1. i[p] # Intended /\ i[p] # NoEntry /\ Committed[p] = i[p]
    BY <1>6, <1>9, WorkspaceConstantsOK DEF Staged
  <2> QED BY <1>3, <1>6, <2>1 DEF ModifiedTracked, Rewritten, PassedOver
<1> QED BY <1>3, <1>7, <1>8, <1>9 DEF PassedOver

\* A walk of a tree that nobody touched has all of it and nothing else.
LEMMA WalkIsTheTree ==
  ASSUME SnapshotInv, walk # NoWalk, walk.unseen = {}, ~Opening, walk.todo = {}
  PROVE  /\ BuildManifest(walk.entries) = Taken /\ EntriesSound(Taken)
         /\ quiet => Taken = BuildTree /\ \A e \in Taken : ~e.node.escapes
<1>1. /\ WalkInv /\ WalkShape /\ tree \in [Paths -> Nodes \cup {NoEntry}]
      /\ walk.unlisted = {} /\ walk.looked = {}
  BY DEF SnapshotInv, WalkInv, Opening
<1>2. BuildManifest(walk.entries) = Taken
  BY DEF BuildManifest, ToSet, Taken
<1>3. ASSUME quiet PROVE Taken = BuildTree
  <2>1. \A p \in TreeFiles \ Excluded : Entry(p, tree[p]) \in Taken
    BY <1>1, <1>3 DEF WalkInv, WalkQuiet
  <2>2. ASSUME NEW e \in Taken PROVE e \in BuildTree
    <3>1. e.path \in Paths \ Excluded /\ e = Entry(e.path, tree[e.path])
      BY <1>1, <1>3 DEF WalkInv, WalkQuiet, EntriesSound
    <3>2. tree[e.path] # NoEntry
      BY <1>1, <1>3 DEF WalkInv, WalkQuiet
    <3> QED BY <3>1, <3>2 DEF BuildTree, TreeFiles
  <2> QED BY <2>1, <2>2 DEF BuildTree
<1> QED BY <1>1, <1>2, <1>3 DEF WalkInv, WalkQuiet

\* What a walk knows while it neither moves nor is anything changed.
LEMMA WalkStays ==
  ASSUME SnapshotInv, UNCHANGED <<tree, walk, quiet>>
  PROVE  walk' # NoWalk => WalkInv'
<1>1. Taken' = Taken /\ TreeFiles' = TreeFiles /\ \A p : Astray(p)' = Astray(p)
  BY DEF Taken, TreeFiles, Astray
<1> QED BY <1>1 DEF SnapshotInv, WalkInv, WalkShape, WalkQuiet

\* lstat and readdir take nothing down.
LEMMA LookKeeps ==
  ASSUME SnapshotInv, walk' # NoWalk,
         \/ \E d \in Directories : SeeDirectory(d) \/ ListDirectory(d)
         \/ \E p \in Paths : LookAt(p)
  PROVE  WalkInv'
<1>1. /\ walk # NoWalk /\ WalkShape /\ EntriesSound(Taken) /\ (quiet => WalkQuiet)
      /\ tree \in [Paths -> Nodes \cup {NoEntry}] /\ tree' = tree /\ quiet' = quiet
  BY DEF SnapshotInv, WalkInv, SeeDirectory, ListDirectory, LookAt
<1>2. /\ TreeFiles' = TreeFiles /\ TreeFiles \subseteq Paths /\ \A p : Astray(p)' = Astray(p)
  BY <1>1 DEF TreeFiles, Astray
<1>3. ASSUME NEW d \in Directories, SeeDirectory(d) PROVE WalkInv'
  <2> DEFINE new == [walk EXCEPT !.unseen = @ \ {d}, !.unlisted = {d}]
  <2>1. /\ walk' = new /\ d \in walk.unseen /\ walk.unlisted = {} /\ walk.looked = {}
        /\ \A p \in Paths : DirOf[p] = d => ~Astray(p)
    BY <1>3 DEF SeeDirectory, Opening
  <2>2. /\ walk'.unseen = walk.unseen \ {d} /\ walk'.unlisted = {d} /\ walk'.todo = walk.todo
        /\ walk'.looked = walk.looked /\ walk'.entries = walk.entries
        /\ walk'.git = walk.git /\ walk'.purpose = walk.purpose
    BY <2>1
  <2> HIDE DEF new
  <2>3. Taken' = Taken
    BY <2>2 DEF Taken
  <2>4. WalkShape'
    BY <1>1, <2>1, <2>2, <2>3 DEF WalkShape
  <2>5. quiet' => WalkQuiet'
    BY <1>1, <1>2, <2>1, <2>2, <2>3 DEF WalkQuiet
  <2> QED BY <1>1, <2>3, <2>4, <2>5 DEF WalkInv
<1>4. ASSUME NEW d \in Directories, ListDirectory(d) PROVE WalkInv'
  <2> DEFINE new == [walk EXCEPT !.unlisted = @ \ {d},
                                 !.todo = @ \cup {p \in TreeFiles \ Excluded : DirOf[p] = d}]
  <2>1. walk' = new /\ d \in walk.unlisted
    BY <1>4 DEF ListDirectory
  <2>2. /\ walk'.unseen = walk.unseen /\ walk'.unlisted = walk.unlisted \ {d}
        /\ walk'.todo = walk.todo \cup {p \in TreeFiles \ Excluded : DirOf[p] = d}
        /\ walk'.looked = walk.looked /\ walk'.entries = walk.entries
        /\ walk'.git = walk.git /\ walk'.purpose = walk.purpose
    BY <2>1
  <2> HIDE DEF new
  <2>3. Taken' = Taken
    BY <2>2 DEF Taken
  <2>4. WalkShape'
    BY <1>1, <1>2, <2>1, <2>2, <2>3 DEF WalkShape
  <2>5. quiet' => WalkQuiet'
    BY <1>1, <1>2, <2>1, <2>2, <2>3 DEF WalkQuiet
  <2> QED BY <1>1, <2>3, <2>4, <2>5 DEF WalkInv
<1>5. ASSUME NEW p \in Paths, LookAt(p) PROVE WalkInv'
  <2> DEFINE l == [path |-> p, kind |-> tree[p].kind]
             new == [walk EXCEPT !.todo = @ \ {p}, !.looked = {l}]
  <2>1. /\ walk' = new /\ p \in walk.todo /\ walk.unlisted = {} /\ walk.looked = {}
        /\ tree[p] # NoEntry
    BY <1>5 DEF LookAt, Opening
  <2>2. /\ walk'.unseen = walk.unseen /\ walk'.unlisted = walk.unlisted
        /\ walk'.todo = walk.todo \ {p} /\ walk'.looked = {l} /\ walk'.entries = walk.entries
        /\ walk'.git = walk.git /\ walk'.purpose = walk.purpose
    BY <2>1
  <2>3. l.path = p /\ l.kind = tree[p].kind /\ l \in Looks /\ DirOf[p] \notin walk.unseen
    <3>1. tree[p] \in Nodes
      BY <1>1, <2>1
    <3>2. tree[p].kind \in {"file", "symlink"}
      BY <3>1, WorkspaceConstantsOK
    <3> QED BY <1>1, <2>1, <3>2 DEF Looks, WalkShape
  <2> HIDE DEF new, l
  <2>4. Taken' = Taken
    BY <2>2 DEF Taken
  <2>5. WalkShape'
    <3>1. \A f \in Taken : FoldOf[f.path] # FoldOf[p]
      BY <1>5, <2>1 DEF LookAt, Collides, Taken
    <3> QED BY <1>1, <2>1, <2>2, <2>3, <2>4, <3>1 DEF WalkShape
  <2>6. quiet' => WalkQuiet'
    BY <1>1, <1>2, <2>1, <2>2, <2>3, <2>4 DEF WalkQuiet
  <2> QED BY <1>1, <2>4, <2>5, <2>6 DEF WalkInv
<1> QED BY <1>3, <1>4, <1>5

\* A name that was looked at is read and taken down.
LEMMA ReadKeeps ==
  ASSUME SnapshotInv, NEW p \in Paths, NEW kind \in {"file", "symlink"}, ReadEntry(p, kind), walk' # NoWalk
  PROVE  WalkInv'
<1> DEFINE l == [path |-> p, kind |-> kind]
           node == [tree[p] EXCEPT !.kind = kind]
           e == Entry(p, node)
<1>1. /\ walk # NoWalk /\ WalkShape /\ EntriesSound(Taken) /\ (quiet => WalkQuiet)
      /\ tree \in [Paths -> Nodes \cup {NoEntry}] /\ tree' = tree /\ quiet' = quiet
      /\ l \in walk.looked /\ ~Unreadable(p, kind)
      /\ walk' = [walk EXCEPT !.looked = {}, !.entries = Append(@, e)]
  BY DEF SnapshotInv, WalkInv, ReadEntry
<1>2. /\ p \in Paths \ Excluded /\ DirOf[p] \notin walk.unseen
      /\ \A m \in walk.looked : m.path = p /\ m.kind = kind
      /\ \A f \in Taken : FoldOf[f.path] # FoldOf[p]
  BY <1>1 DEF WalkShape, Looks
<1>3. tree[p] \in NodeRecords /\ (kind = "symlink" => ~tree[p].escapes)
  BY <1>1, WorkspaceConstantsOK DEF Unreadable, NodeRecords
<1>4. /\ node \in NodeRecords /\ node.kind = kind /\ node.escapes = tree[p].escapes
      /\ tree[p].kind = kind => node = tree[p]
  BY <1>3 DEF NodeRecords
<1> HIDE DEF node
<1>5. e \in [path : Paths, node : NodeRecords] /\ e.path = p /\ e.node = node
  BY <1>2, <1>4 DEF Entry
<1>6. /\ walk'.unseen = walk.unseen /\ walk'.unlisted = walk.unlisted /\ walk'.todo = walk.todo
      /\ walk'.looked = {} /\ walk'.entries = Append(walk.entries, e)
      /\ walk'.git = walk.git /\ walk'.purpose = walk.purpose
  BY <1>1
<1>7. (tree[p].kind = kind) => e = Entry(p, tree[p])
  BY <1>4
<1> HIDE DEF e
<1>8. walk'.entries \in Seq([path : Paths, node : NodeRecords]) /\ Taken' = Taken \cup {e}
  <2>1. /\ walk.entries \in Seq([path : Paths, node : NodeRecords])
        /\ Len(walk.entries) \in Nat /\ DOMAIN walk.entries = 1..Len(walk.entries)
    BY <1>1, LenProperties DEF WalkShape
  <2>2. /\ Append(walk.entries, e) \in Seq([path : Paths, node : NodeRecords])
        /\ DOMAIN Append(walk.entries, e) = 1..(Len(walk.entries) + 1)
        /\ \A i \in 1..Len(walk.entries) : Append(walk.entries, e)[i] = walk.entries[i]
        /\ Append(walk.entries, e)[Len(walk.entries) + 1] = e
    BY <1>5, <2>1
  <2>3. /\ \A i \in 1..(Len(walk.entries) + 1) : i \in 1..Len(walk.entries) \/ i = Len(walk.entries) + 1
        /\ \A i \in 1..Len(walk.entries) : i \in 1..(Len(walk.entries) + 1)
        /\ Len(walk.entries) + 1 \in 1..(Len(walk.entries) + 1)
    BY <2>1
  <2>4. ASSUME NEW i \in 1..(Len(walk.entries) + 1)
        PROVE  Append(walk.entries, e)[i] \in Taken \cup {e}
    BY <2>1, <2>2, <2>3 DEF Taken
  <2>5. ASSUME NEW f \in Taken \cup {e}
        PROVE  \E i \in 1..(Len(walk.entries) + 1) : Append(walk.entries, e)[i] = f
    BY <2>1, <2>2, <2>3 DEF Taken
  <2>6. Taken' = {Append(walk.entries, e)[i] : i \in 1..(Len(walk.entries) + 1)}
    BY <1>6, <2>2 DEF Taken
  <2> QED BY <1>6, <2>2, <2>4, <2>5, <2>6
<1>9. EntriesSound(Taken')
  BY <1>1, <1>2, <1>3, <1>4, <1>5, <1>8 DEF EntriesSound
<1>10. WalkShape'
  BY <1>1, <1>6, <1>8 DEF WalkShape
<1>11. ASSUME quiet' PROVE WalkQuiet'
  <2>1. /\ TreeFiles' = TreeFiles /\ \A q : Astray(q)' = Astray(q)
    BY <1>1 DEF TreeFiles, Astray
  <2>2. WalkQuiet /\ tree[p] # NoEntry /\ tree[p].kind = kind /\ e = Entry(p, tree[p])
    BY <1>1, <1>7, <1>11 DEF WalkQuiet
  <2>3. ~tree[p].escapes
    BY <1>2, <1>3, <2>2 DEF WalkQuiet, Astray
  <2> QED BY <1>1, <1>2, <1>4, <1>5, <1>6, <1>8, <2>1, <2>2, <2>3 DEF WalkQuiet
<1> QED BY <1>8, <1>9, <1>10, <1>11 DEF WalkInv

LEMMA WalkNextInv ==
  ASSUME SnapshotInv, [WorkspaceNext]_workspaceVars
  PROVE  /\ tree' \in [Paths -> Nodes \cup {NoEntry}]
         /\ walk' # NoWalk => WalkInv'
<1> DEFINE T == [Paths -> Nodes \cup {NoEntry}]
<1>1. tree \in T
  BY DEF SnapshotInv
<1>2. ASSUME NEW purpose, NEW git, BeginWalk(purpose, git), purpose = "onboard" => git \in GitStates
      PROVE  tree' \in T /\ WalkInv'
  <2> DEFINE new == [purpose |-> purpose, git |-> git, unseen |-> Directories, unlisted |-> {},
                     todo |-> {}, looked |-> {}, entries |-> <<>>]
  <2>1. walk' = new /\ tree' = tree
    BY <1>2 DEF BeginWalk
  <2>2. /\ new.git = git /\ new.purpose = purpose /\ new.unseen = Directories /\ new.unlisted = {}
        /\ new.todo = {} /\ new.looked = {} /\ new.entries = <<>>
    OBVIOUS
  <2> HIDE DEF new
  <2>3. Taken' = {}
    BY <2>1, <2>2 DEF Taken
  <2>4. TreeFiles' \subseteq Paths /\ \A p \in Paths : DirOf[p] \in Directories
    BY DEF TreeFiles, Directories
  <2>5. walk'.purpose = "onboard" /\ walk'.git.answered =>
          \A p \in Paths \ Named(walk'.git.lines) : PassedOver(tree', walk'.git, p)
    BY <1>1, <1>2, <2>1, <2>2, StatusSound
  <2>6. WalkShape'
    BY <2>1, <2>2, <2>3 DEF WalkShape
  <2>7. WalkQuiet'
    BY <2>1, <2>2, <2>3, <2>4, <2>5 DEF WalkQuiet
  <2> QED BY <1>1, <2>1, <2>3, <2>6, <2>7 DEF WalkInv, EntriesSound
<1>3. ASSUME \/ \E d \in Directories : SeeDirectory(d) \/ ListDirectory(d)
             \/ \E p \in Paths : LookAt(p)
      PROVE  tree' \in T /\ (walk' # NoWalk => WalkInv')
  BY <1>1, <1>3, LookKeeps DEF SeeDirectory, ListDirectory, LookAt
<1>4. ASSUME NEW p \in Paths, NEW kind \in {"file", "symlink"}, ReadEntry(p, kind)
      PROVE  tree' \in T /\ (walk' # NoWalk => WalkInv')
  BY <1>1, <1>4, ReadKeeps DEF ReadEntry
<1>5. ASSUME Onboard \/ SealCandidate \/ WalkThrows PROVE tree' \in T /\ walk' = NoWalk
  BY <1>1, <1>5 DEF Onboard, SealCandidate, Walked, WalkThrows
<1>6. ASSUME NEW p \in Paths, NEW node \in Nodes \cup {NoEntry}, Change(p, node)
      PROVE  tree' \in T /\ (walk' # NoWalk => WalkInv')
  <2>1. walk' = walk /\ quiet' = FALSE /\ tree' = [tree EXCEPT ![p] = node]
    BY <1>6 DEF Change
  <2>2. Taken' = Taken
    BY <2>1 DEF Taken
  <2> QED BY <1>1, <2>1, <2>2 DEF SnapshotInv, WalkInv, WalkShape
<1>7. ASSUME \/ \E w \in Places : DisposeWorkspace(w)
             \/ \E c \in sealed :
                  \/ EvaluateComposite(c)
                  \/ \E k \in Components, t \in TargetKinds, s \in {"PASSED", "FAILED", "UNVERIFIED"} :
                       Observe(k, t, s, c)
             \/ UNCHANGED workspaceVars
      PROVE  UNCHANGED <<tree, walk, quiet>>
  BY <1>7 DEF DisposeWorkspace, EvaluateComposite, Observe, workspaceVars
<1> QED BY <1>1, <1>2, <1>3, <1>4, <1>5, <1>6, <1>7, WalkStays DEF WorkspaceNext

LEMMA SnapshotNextInv ==
  ASSUME SnapshotInv, [WorkspaceNext]_workspaceVars
  PROVE  SnapshotIsTheTree'
<1>1. SnapshotIsTheTree
  BY DEF SnapshotInv
<1>2. ASSUME SealCandidate PROVE SnapshotIsTheTree'
  <2> DEFINE new == [source |-> BuildManifest(walk.entries), artifact |-> BuildTree, quiet |-> quiet]
  <2>1. /\ walk # NoWalk /\ walk.unseen = {} /\ ~Opening /\ walk.todo = {}
        /\ sealed' = sealed \cup {new} /\ onboarded' = onboarded /\ disposed' = disposed
    BY <1>2 DEF SealCandidate, Walked
  <2>2. /\ new.source = Taken /\ EntriesSound(Taken) /\ new.quiet = quiet
        /\ quiet => new.source = new.artifact /\ \A e \in Taken : ~e.node.escapes
    BY <2>1, WalkIsTheTree
  <2> HIDE DEF new
  <2> QED BY <1>1, <2>1, <2>2 DEF SnapshotIsTheTree, EntriesSound
<1>3. ASSUME Onboard PROVE SnapshotIsTheTree'
  <2> DEFINE new == [git |-> walk.git, source |-> BuildManifest(walk.entries), quiet |-> quiet]
  <2>1. /\ walk # NoWalk /\ walk.purpose = "onboard" /\ walk.unseen = {} /\ ~Opening /\ walk.todo = {}
        /\ onboarded' = onboarded \cup {new} /\ sealed' = sealed /\ disposed' = disposed
    BY <1>3 DEF Onboard, Walked
  <2>2. /\ new.source = Taken /\ EntriesSound(Taken) /\ new.git = walk.git /\ new.quiet = quiet
        /\ quiet => Taken = BuildTree /\ \A e \in Taken : ~e.node.escapes
    BY <2>1, WalkIsTheTree
  <2> HIDE DEF new
  <2>3. ASSUME quiet, walk.git.answered, NEW p \in Paths \ (Named(walk.git.lines) \cup Excluded)
        PROVE  \/ AsCommitted(p, Taken) \/ walk.git.index[p] = Intended
               \/ walk.git.index[p] = NoEntry /\ p \in Ignored
               \/ Committed[p] # NoEntry /\ \E e \in Taken : e.path = p /\ e.node.kind # Committed[p].kind
    <3>1. PassedOver(tree, walk.git, p) /\ Taken = BuildTree
      BY <2>1, <2>2, <2>3 DEF SnapshotInv, WalkInv, WalkQuiet
    <3>2. ASSUME tree[p] # NoEntry PROVE Entry(p, tree[p]) \in Taken
      BY <2>3, <3>1, <3>2 DEF BuildTree, TreeFiles
    <3>3. Entry(p, tree[p]).path = p /\ Entry(p, tree[p]).node = tree[p]
      BY DEF Entry
    <3>4. ASSUME tree[p] = Committed[p] PROVE AsCommitted(p, Taken)
      BY <3>1, <3>2, <3>4 DEF AsCommitted, BuildTree, TreeFiles, Entry
    <3> QED BY <3>1, <3>2, <3>3, <3>4 DEF PassedOver
  <2> QED BY <1>1, <2>1, <2>2, <2>3 DEF SnapshotIsTheTree, EntriesSound
<1>4. ASSUME NEW w \in Places, DisposeWorkspace(w) PROVE SnapshotIsTheTree'
  <2>1. (disposed' \cap RegisteredRoots) = {}
    BY <1>1, <1>4 DEF DisposeWorkspace, SnapshotIsTheTree
  <2> QED BY <1>1, <1>4, <2>1 DEF DisposeWorkspace, SnapshotIsTheTree
<1>5. ASSUME <<sealed, onboarded, disposed>>' = <<sealed, onboarded, disposed>>
      PROVE  SnapshotIsTheTree'
  BY <1>1, <1>5 DEF SnapshotIsTheTree
<1>6. ASSUME \/ \E git \in GitStates : BeginWalk("onboard", git)
             \/ BeginWalk("seal", NoEntry) \/ WalkThrows
             \/ \E d \in Directories : SeeDirectory(d) \/ ListDirectory(d)
             \/ \E p \in Paths :
                  \/ LookAt(p) \/ \E kind \in {"file", "symlink"} : ReadEntry(p, kind)
                  \/ \E node \in Nodes \cup {NoEntry} : Change(p, node)
             \/ \E c \in sealed :
                  \/ EvaluateComposite(c)
                  \/ \E k \in Components, t \in TargetKinds, s \in {"PASSED", "FAILED", "UNVERIFIED"} :
                       Observe(k, t, s, c)
             \/ UNCHANGED workspaceVars
      PROVE  <<sealed, onboarded, disposed>>' = <<sealed, onboarded, disposed>>
  BY <1>6
  DEF BeginWalk, WalkThrows, SeeDirectory, ListDirectory, LookAt, ReadEntry, Change,
      EvaluateComposite, Observe, workspaceVars
<1> QED BY <1>2, <1>3, <1>4, <1>5, <1>6 DEF WorkspaceNext

\* In whatever order directories are listed and entries read: what is sealed or
\* onboarded of a tree at rest is that tree, no snapshot names a file outside
\* it or two that may be one, and no registered root is ever disposed of.
THEOREM SnapshotIsTheTreeAlways == WorkspaceSpec => []SnapshotIsTheTree
<1>1. WorkspaceInit => SnapshotInv
  BY WorkspaceConstantsOK DEF WorkspaceInit, SnapshotInv, SnapshotIsTheTree
<1>2. ASSUME SnapshotInv, [WorkspaceNext]_workspaceVars PROVE SnapshotInv'
  BY <1>2, WalkNextInv, SnapshotNextInv DEF SnapshotInv
<1>3. SnapshotInv => SnapshotIsTheTree
  BY DEF SnapshotInv
<1> QED BY <1>1, <1>2, <1>3, PTL DEF WorkspaceSpec

-----------------------------------------------------------------------------
(***************************************************************************)
(* Setup                                                                   *)
(***************************************************************************)

\* Where our value stands, someone knows the value the person had.
Settled(h) ==
  \/ setting[h] = mine[h]
  \/ setting[h] = Ours /\ record[h] # NoRecord /\ record[h].previous = mine[h]
  \/ setting[h] = Ours /\ (At("register") \/ At("record")) /\ Host = h /\ job.previous = mine[h]

\* The process is taking this host back.
TakingBack(h) == job # NoJob /\ job.step \in BackSteps /\ h \in job.hosts

\* What a host was installed with is there, except while the process is taking
\* the host back or has not put the new toolkit where the old one was.
Healthy(h) ==
  /\ ~TakingBack(h) =>
       /\ h \in rules
       /\ ~record[h].legacy /\ SkillsRoot[h] # NoRoot => SkillsRoot[h] \in skills
  /\ record[h].toolkit => launcher /\ (toolkit \/ At("rename"))

\* What is about to be put back is what the record says, and after that the
\* value is the person's own.
BackInv ==
  /\ job.step = "put_back" /\ job.previous # Untouched => job.previous = record[Host].previous
  /\ \/ job.step = "put_back" /\ job.previous = Untouched
     \/ job.step \in {"remove_skills", "remove_rules", "forget"}
     => (Host \notin lost => setting[Host] = mine[Host])

\* Which hosts the process still has before it, and what is done for the next.
JobInv ==
  /\ job.hosts # {}
  /\ job.step \in BackSteps \cup {"build"} => job.left = job.hosts \cap Installed
  /\ job.step \in BackSteps \ {"take_back"} => job.left # {}
  /\ job.step \in {"remove", "rename", "activate", "autonomy", "set", "register", "record"} =>
       /\ job.kind = "install" /\ job.left # {} /\ job.left \subseteq job.hosts
       /\ job.left \cap Installed = {}
  /\ job.step \in {"activate", "autonomy", "set", "register", "record"} /\ job.portable =>
       toolkit /\ launcher
  /\ job.step \in {"autonomy", "set", "register", "record"} =>
       Host \in rules /\ SkillsRoot[Host] \in skills \cup {NoRoot}
  /\ BackInv

SetupTypes ==
  /\ setting \in [Hosts -> Values \cup {Ours}] /\ mine \in [Hosts -> Values]
  /\ record \in [Hosts -> Records \cup {NoRecord}]
  /\ job \in Jobs \cup {NoJob}

SetupInv ==
  /\ SetupTypes
  /\ job # NoJob => JobInv
  /\ \A h \in Installed : record[h].legacy => record[h].previous = Untouched
  /\ \A h \in Hosts \ lost : Settled(h)
  /\ \A h \in Installed \ halted : Healthy(h)

LEMMA SetupInitInv == SetupInit => SetupInv
<1> SUFFICES ASSUME SetupInit PROVE SetupInv
  OBVIOUS
<1>1. Unset \in Values
  BY SetupConstantsOK
<1>2. Record(Untouched, TRUE, TRUE) \in Records
  BY DEF Record, Records
<1>3. SetupTypes
  BY <1>1, <1>2 DEF SetupInit, SetupTypes
<1>4. \A h \in Hosts : Settled(h)
  BY DEF SetupInit, Settled
<1>5. ASSUME NEW h \in Installed PROVE Healthy(h)
  <2>1. h \in Legacy /\ record[h] = Record(Untouched, TRUE, TRUE)
    BY <1>5 DEF Installed, SetupInit
  <2>2. record[h].legacy /\ Legacy # {}
    BY <2>1 DEF Record
  <2> QED BY <2>1, <2>2 DEF SetupInit, Healthy
<1>6. \A h \in Installed : record[h].previous = Untouched
  BY DEF Installed, SetupInit, Record
<1> QED BY <1>3, <1>4, <1>5, <1>6 DEF SetupInit, SetupInv

\* Going to a step changes nothing of the job but the step and who is left.
LEMMA GoesTo ==
  ASSUME job \in Jobs, NEW step \in Steps, NEW left \in SUBSET Hosts, Goto(step, left)
  PROVE  /\ job' \in Jobs /\ job' # NoJob /\ job'.step = step /\ job'.left = left
         /\ job'.kind = job.kind /\ job'.hosts = job.hosts /\ job'.autonomy = job.autonomy
         /\ job'.portable = job.portable /\ job'.previous = job.previous
<1>1. job' \in Jobs
  BY DEF Goto, Jobs
<1>2. job' # NoJob
  BY <1>1, SetupConstantsOK
<1>3. /\ job'.step = step /\ job'.left = left
      /\ job'.kind = job.kind /\ job'.hosts = job.hosts /\ job'.autonomy = job.autonomy
      /\ job'.portable = job.portable /\ job'.previous = job.previous
  BY DEF Goto, Jobs
<1> QED BY <1>1, <1>2, <1>3

\* The fields of a job at work, and of a record.
LEMMA JobFields ==
  ASSUME SetupTypes, job # NoJob
  PROVE  /\ job \in Jobs /\ job.kind \in {"install", "uninstall"} /\ job.hosts \subseteq Hosts
         /\ job.autonomy \in BOOLEAN /\ job.portable \in BOOLEAN /\ job.step \in Steps
         /\ job.left \subseteq Hosts /\ job.previous \in Values \cup {Ours, Untouched}
         /\ job.left # {} => Host \in job.left
<1>1. job \in Jobs
  BY DEF SetupTypes
<1>2. job.left # {} => Host \in job.left
  BY DEF Host
<1> QED BY <1>1, <1>2 DEF Jobs

\* A step that leaves settings and records alone leaves nobody's value unknown.
LEMMA SettledSame ==
  ASSUME <<setting, mine, record>>' = <<setting, mine, record>>, lost \subseteq lost',
         \A h \in Hosts \ lost : Settled(h),
         At("register") \/ At("record") =>
           /\ At("register")' \/ At("record")'
           /\ Host' = Host /\ job'.previous = job.previous
  PROVE  \A h \in Hosts \ lost' : Settled(h)'
BY DEF Settled

LEMMA StartKeeps ==
  ASSUME SetupInv, NEW kind \in {"install", "uninstall"}, NEW hosts \in Selections,
         NEW autonomy \in BOOLEAN, NEW portable \in BOOLEAN, Start(kind, hosts, autonomy, portable)
  PROVE  SetupInv'
<1> DEFINE new == [kind |-> kind, hosts |-> hosts, autonomy |-> autonomy, portable |-> portable,
                   step |-> IF kind = "install" /\ portable THEN "build" ELSE "take_back",
                   left |-> hosts \cap Installed, owned |-> FALSE, previous |-> Untouched]
<1>1. hosts # {} /\ hosts \subseteq Hosts
  <2>1. Selections \subseteq (SUBSET Hosts) \ {{}}
    BY SetupConstantsOK
  <2> QED BY <2>1
<1>2. /\ job = NoJob /\ job' = new
      /\ <<setting, rules, hooked, skills, record, mine, toolkit, launcher, lost, halted>>'
           = <<setting, rules, hooked, skills, record, mine, toolkit, launcher, lost, halted>>
  BY DEF Start, files
<1>3. /\ new \in Jobs /\ new.hosts = hosts /\ new.left = hosts \cap Installed
      /\ new.step \in {"build", "take_back"} /\ new.previous = Untouched
  BY <1>1 DEF Jobs, Steps, BackSteps
<1> HIDE DEF new
<1>4. new # NoJob
  BY <1>3, SetupConstantsOK
<1>5. SetupTypes' /\ Installed' = Installed
  BY <1>2, <1>3 DEF SetupInv, SetupTypes, Installed
<1>6. JobInv'
  BY <1>1, <1>2, <1>3, <1>5 DEF JobInv, BackInv, BackSteps
<1>7. \A h \in Hosts \ lost' : Settled(h)'
  BY <1>2, SettledSame DEF SetupInv, At
<1>8. \A h \in Installed' \ halted' : Healthy(h)'
  BY <1>2, <1>5 DEF SetupInv, Healthy, TakingBack, At
<1>9. \A h \in Installed' : record'[h].legacy => record'[h].previous = Untouched
  BY <1>2, <1>5 DEF SetupInv
<1> QED BY <1>5, <1>6, <1>7, <1>8, <1>9 DEF SetupInv

\* A build that fails, a process that is killed and one that has cleaned up are gone.
LEMMA OverKeeps ==
  ASSUME SetupInv, job # NoJob, job' = NoJob,
         <<setting, rules, skills, record, mine>>' = <<setting, rules, skills, record, mine>>,
         \/ At("build") /\ UNCHANGED <<toolkit, launcher, lost, halted>>
         \/ CleanUp \/ Killed
  PROVE  SetupInv'
<1>1. SetupTypes' /\ Installed' = Installed
  BY DEF SetupInv, SetupTypes, Installed
<1>2. JobInv /\ SetupTypes
  BY DEF SetupInv
<1>3. /\ job \in Jobs /\ lost \subseteq lost' /\ halted \subseteq halted'
  BY <1>2, JobFields DEF CleanUp, Killed
<1>4. ASSUME NEW h \in Hosts \ lost' PROVE Settled(h)'
  <2>1. Settled(h) /\ mine[h] \in Values
    BY <1>3 DEF SetupInv, SetupTypes
  <2>2. CASE At("register") \/ At("record")
    <3>1. Killed
      BY <2>2 DEF CleanUp, At
    <3>2. job.previous # Untouched => lost' = lost \cup {Host}
      BY <2>2, <3>1 DEF Killed, At
    <3>3. Host = h => job.previous # mine[h]
      BY <2>1, <3>2, SetupConstantsOK
    <3> QED BY <2>1, <3>3 DEF Settled
  <2>3. CASE ~(At("register") \/ At("record"))
    BY <2>1, <2>3 DEF Settled
  <2> QED BY <2>2, <2>3
<1>5. ASSUME NEW h \in Installed' \ halted' PROVE Healthy(h)'
  <2>1. h \in Installed /\ h \notin halted /\ Healthy(h) /\ ~TakingBack(h)' /\ ~At("rename")'
    BY <1>1, <1>3 DEF SetupInv, At, TakingBack
  <2>2. CASE At("build") /\ UNCHANGED <<toolkit, launcher, lost, halted>>
    BY <2>1, <2>2 DEF Healthy, At, TakingBack, BackSteps
  <2>3. CASE CleanUp
    <3>1. (launcher => launcher') /\ (toolkit => toolkit')
      BY <2>1, <2>3 DEF CleanUp, RemoveLaunchers
    <3>2. <<rules, skills, record>>' = <<rules, skills, record>> /\ ~At("rename")
      BY <2>3 DEF At, CleanUp
    <3> QED BY <2>1, <2>3, <3>1, <3>2 DEF Healthy, At, CleanUp, TakingBack, BackSteps
  <2>4. CASE Killed
    <3>1. h \notin job.hosts /\ job.step # "rename" /\ launcher' = launcher /\ toolkit' = toolkit
      BY <1>1, <2>1, <2>4 DEF Killed
    <3> QED BY <2>1, <3>1 DEF Healthy, At, TakingBack
  <2> QED BY <2>2, <2>3, <2>4
<1> QED BY <1>1, <1>4, <1>5 DEF SetupInv

\* Moving on with the same hosts.
LEMMA MovesOn ==
  ASSUME SetupInv, job # NoJob, job.step \in {"build", "take_back", "remove", "rename"},
         NEW step \in {"take_back", "clean_up", "remove", "rename", "activate"},
         NEW left \in SUBSET Hosts, Goto(step, left),
         <<setting, rules, skills, record, mine, lost, halted>>'
           = <<setting, rules, skills, record, mine, lost, halted>>,
         step = "take_back" => left = job.hosts \cap Installed,
         step \in {"remove", "rename", "activate"} =>
           job.kind = "install" /\ left # {} /\ left \subseteq job.hosts /\ left \cap Installed = {},
         step = "activate" /\ job.portable => toolkit' /\ launcher',
         job.step = "take_back" => job.hosts \cap Installed = {},
         launcher => launcher',
         step # "rename" /\ (toolkit \/ At("rename")) => toolkit'
  PROVE  SetupInv'
<1>1. /\ SetupTypes /\ JobInv /\ job \in Jobs /\ step \in Steps
  BY JobFields DEF SetupInv, Steps, BackSteps
<1>2. /\ job' \in Jobs /\ job' # NoJob /\ job'.step = step /\ job'.left = left
      /\ job'.kind = job.kind /\ job'.hosts = job.hosts /\ job'.autonomy = job.autonomy
      /\ job'.portable = job.portable /\ job'.previous = job.previous
  BY <1>1, GoesTo
<1>3. SetupTypes' /\ Installed' = Installed
  BY <1>1, <1>2 DEF SetupTypes, Installed
<1>4. JobInv'
  BY <1>1, <1>2, <1>3 DEF JobInv, BackInv, BackSteps
<1>5. \A h \in Hosts \ lost' : Settled(h)'
  BY SettledSame DEF SetupInv, At
<1>6. ASSUME NEW h \in Installed' \ halted' PROVE Healthy(h)'
  <2>1. h \in Installed /\ Healthy(h) /\ h \in Hosts
    BY <1>3 DEF SetupInv, Installed
  <2>2. ~TakingBack(h)
    BY <2>1 DEF TakingBack, BackSteps
  <2>3. At("rename")' <=> step = "rename"
    BY <1>2 DEF At
  <2> QED BY <2>1, <2>2, <2>3 DEF Healthy
<1> QED BY <1>2, <1>3, <1>4, <1>5, <1>6 DEF SetupInv

\* Taking a host back: another step, the same hosts before it and the same
\* records, and of the hosts that are not taken back nothing goes.
LEMMA BackGoesOn ==
  ASSUME SetupInv, job # NoJob, job.step \in BackSteps, job.left # {},
         job' \in Jobs, job' # NoJob, job'.step \in BackSteps \ {"take_back"},
         job'.left = job.left, job'.hosts = job.hosts,
         setting' \in [Hosts -> Values \cup {Ours}],
         <<record, mine, toolkit, launcher, halted>>' = <<record, mine, toolkit, launcher, halted>>,
         \A g \in Installed \ job.hosts :
           /\ g \in rules => g \in rules'
           /\ ~record[g].legacy /\ SkillsRoot[g] \in skills => SkillsRoot[g] \in skills',
         \A g \in Hosts \ lost' : Settled(g)',
         BackInv'
  PROVE  SetupInv'
<1>1. SetupTypes /\ JobInv
  BY DEF SetupInv
<1>2. SetupTypes' /\ Installed' = Installed
  BY <1>1 DEF SetupTypes, Installed
<1>3. JobInv'
  BY <1>1, <1>2 DEF JobInv, BackSteps
<1>4. ASSUME NEW g \in Installed' \ halted' PROVE Healthy(g)'
  <2>1. g \in Installed /\ Healthy(g) /\ ~At("rename") /\ (TakingBack(g) <=> g \in job.hosts)
    BY <1>2 DEF SetupInv, At, BackSteps, TakingBack
  <2>2. TakingBack(g)' <=> g \in job.hosts
    BY DEF TakingBack
  <2> QED BY <2>1, <2>2 DEF Healthy
<1>5. \A g \in Installed' : record'[g].legacy => record'[g].previous = Untouched
  BY <1>2 DEF SetupInv
<1> QED BY <1>2, <1>3, <1>4, <1>5 DEF SetupInv

\* Going to another step of taking a host back.
LEMMA GoesBack ==
  ASSUME job \in Jobs, NEW step \in BackSteps, NEW previous \in Values \cup {Ours, Untouched},
         \/ Goto(step, job.left) /\ previous = job.previous
         \/ job' = [job EXCEPT !.step = step, !.previous = previous]
  PROVE  /\ job' \in Jobs /\ job' # NoJob /\ job'.step = step /\ job'.left = job.left
         /\ job'.hosts = job.hosts /\ job'.previous = previous /\ Host' = Host
<1>1. step \in Steps
  BY DEF Steps
<1>2. /\ job' \in Jobs /\ job'.step = step /\ job'.left = job.left
      /\ job'.hosts = job.hosts /\ job'.previous = previous
  BY <1>1 DEF Goto, Jobs
<1> QED BY <1>2, SetupConstantsOK DEF Host

\* The host that is being taken back, and where its value is the person's own.
LEMMA HostTakenBack ==
  ASSUME SetupInv, job # NoJob, job.step \in BackSteps, job.left # {}
  PROVE  /\ Host \in Hosts /\ Host \in job.hosts /\ Host \in Installed
         /\ record[Host] # NoRecord /\ record[Host] \in Records
         /\ \A h \in Hosts \ lost : setting[h] = mine[h] \/
              (setting[h] = Ours /\ record[h] # NoRecord /\ record[h].previous = mine[h])
         /\ Host \notin lost /\ record[Host].previous = Untouched => setting[Host] = mine[Host]
<1>1. SetupTypes /\ JobInv
  BY DEF SetupInv
<1>2. Host \in job.left /\ job.left = job.hosts \cap Installed
  BY <1>1, JobFields DEF JobInv
<1>3. Host \in Hosts /\ Host \in Installed /\ record[Host] # NoRecord /\ record[Host] \in Records
  BY <1>1, <1>2 DEF Installed, SetupTypes
<1>4. \A h \in Hosts \ lost : setting[h] = mine[h] \/
        (setting[h] = Ours /\ record[h] # NoRecord /\ record[h].previous = mine[h])
  BY DEF SetupInv, Settled, At, BackSteps
<1>5. mine[Host] # Untouched
  BY <1>1, <1>3, SetupConstantsOK DEF SetupTypes
<1> QED BY <1>2, <1>3, <1>4, <1>5

LEMMA UnregisterKeeps ==
  ASSUME SetupInv, Unregister
  PROVE  SetupInv'
<1>1. /\ SetupTypes /\ job \in Jobs /\ job # NoJob /\ job.step = "take_back" /\ job.left # {}
      /\ job.previous \in Values \cup {Ours, Untouched}
  BY JobFields DEF SetupInv, Unregister, At
<1>2. /\ Host \in job.hosts /\ Host \in Installed
      /\ Host \notin lost /\ record[Host].previous = Untouched => setting[Host] = mine[Host]
  BY <1>1, HostTakenBack DEF BackSteps
<1>3. /\ <<setting, skills, record, mine, toolkit, launcher, lost, halted>>'
           = <<setting, skills, record, mine, toolkit, launcher, lost, halted>>
      /\ \/ record[Host].legacy /\ rules' = rules \ {Host} /\ Goto("forget", job.left)
         \/ rules' = rules /\ Goto("read_back", job.left)
  BY DEF Unregister
<1>4. PICK step \in {"forget", "read_back"} :
        Goto(step, job.left) /\ (step = "forget" => record[Host].legacy)
  BY <1>3
<1>5. /\ job' \in Jobs /\ job' # NoJob /\ job'.step = step /\ job'.left = job.left
      /\ job'.hosts = job.hosts /\ Host' = Host
  BY <1>1, <1>4, GoesBack DEF BackSteps
<1>6. \A g \in Hosts \ lost' : Settled(g)'
  BY <1>1, <1>3, SettledSame DEF SetupInv, At
<1>7. BackInv'
  <2>1. step = "forget" => record[Host].previous = Untouched
    BY <1>2, <1>4 DEF SetupInv
  <2> QED BY <1>2, <1>3, <1>5, <2>1 DEF BackInv
<1>8. \A g \in Installed \ job.hosts : g \in rules => g \in rules'
  BY <1>2, <1>3
<1> QED BY <1>1, <1>3, <1>5, <1>6, <1>7, <1>8, BackGoesOn DEF SetupTypes, BackSteps

LEMMA ReadBackKeeps ==
  ASSUME SetupInv, ReadBack
  PROVE  SetupInv'
<1>1. /\ SetupTypes /\ JobInv /\ job \in Jobs /\ job # NoJob /\ job.step = "read_back" /\ job.left # {}
  BY JobFields DEF SetupInv, ReadBack, At, JobInv, BackSteps
<1>2. /\ Host \in Hosts /\ record[Host] \in Records /\ record[Host] # NoRecord
      /\ \A h \in Hosts \ lost : setting[h] = mine[h] \/
           (setting[h] = Ours /\ record[h] # NoRecord /\ record[h].previous = mine[h])
      /\ Host \notin lost /\ record[Host].previous = Untouched => setting[Host] = mine[Host]
  BY <1>1, HostTakenBack DEF BackSteps
<1>3. /\ <<setting, rules, skills, record, mine, toolkit, launcher, halted>>'
           = <<setting, rules, skills, record, mine, toolkit, launcher, halted>>
      /\ job' = [job EXCEPT !.step = "put_back", !.previous = UnsetKey(Host)]
      /\ lost' = IF setting[Host] = Ours /\ ~parses[Host] /\ record[Host].previous # Untouched
                 THEN lost \cup {Host} ELSE lost
  BY DEF ReadBack, files
<1>4. UnsetKey(Host) \in Values \cup {Ours, Untouched}
  BY <1>2 DEF UnsetKey, Records
<1>5. /\ job' \in Jobs /\ job' # NoJob /\ job'.step = "put_back" /\ job'.left = job.left
      /\ job'.hosts = job.hosts /\ job'.previous = UnsetKey(Host) /\ Host' = Host
  BY <1>1, <1>3, <1>4, GoesBack DEF BackSteps
<1>6. \A g \in Hosts \ lost' : Settled(g)'
  BY <1>2, <1>3 DEF Settled
<1>7. BackInv'
  <2>1. UnsetKey(Host) # Untouched => UnsetKey(Host) = record[Host].previous
    BY DEF UnsetKey
  <2>2. UnsetKey(Host) = Untouched /\ Host \notin lost' => setting[Host] = mine[Host]
    BY <1>2, <1>3 DEF UnsetKey
  <2> QED BY <1>3, <1>5, <2>1, <2>2 DEF BackInv
<1> QED BY <1>1, <1>3, <1>5, <1>6, <1>7, BackGoesOn DEF SetupTypes, BackSteps

\* What a write over an edited value leaves: the host is in "lost" then.
LEMMA Writes ==
  ASSUME SetupTypes, NEW h \in Hosts, NEW value \in Values \cup {Ours}, NEW read,
         WriteSetting(h, value, read)
  PROVE  /\ setting' \in [Hosts -> Values \cup {Ours}]
         /\ \A g \in Hosts : setting'[g] = IF g = h THEN value ELSE setting[g]
         /\ lost \subseteq lost' /\ (h \notin lost' => setting[h] = read)
BY DEF WriteSetting, SetupTypes

LEMMA PutBackKeeps ==
  ASSUME SetupInv, PutBack
  PROVE  SetupInv'
<1>1. /\ SetupTypes /\ JobInv /\ job \in Jobs /\ job # NoJob /\ job.step = "put_back" /\ job.left # {}
      /\ job.previous \in Values \cup {Ours, Untouched}
  BY JobFields DEF SetupInv, PutBack, At, JobInv, BackSteps
<1>2. /\ Host \in Hosts
      /\ \A h \in Hosts \ lost : setting[h] = mine[h] \/
           (setting[h] = Ours /\ record[h] # NoRecord /\ record[h].previous = mine[h])
  BY <1>1, HostTakenBack DEF BackSteps
<1>3. /\ <<rules, skills, record, mine, toolkit, launcher, halted>>'
           = <<rules, skills, record, mine, toolkit, launcher, halted>>
      /\ job' = [job EXCEPT !.step = "remove_skills", !.previous = Untouched]
      /\ IF job.previous = Untouched THEN setting' = setting /\ lost' = lost
         ELSE WriteSetting(Host, job.previous, Ours)
  BY DEF PutBack
<1>4. /\ job' \in Jobs /\ job' # NoJob /\ job'.step = "remove_skills" /\ job'.left = job.left
      /\ job'.hosts = job.hosts /\ Host' = Host
  BY <1>1, <1>3, GoesBack DEF BackSteps
<1>5. /\ setting' \in [Hosts -> Values \cup {Ours}] /\ lost \subseteq lost'
      /\ \A g \in Hosts \ {Host} : setting'[g] = setting[g]
      /\ Host \notin lost' => setting'[Host] = mine[Host]
  <2>1. CASE job.previous = Untouched
    BY <1>1, <1>3, <2>1 DEF SetupTypes, JobInv, BackInv
  <2>2. CASE job.previous # Untouched
    <3>1. /\ setting' \in [Hosts -> Values \cup {Ours}] /\ lost \subseteq lost'
          /\ \A g \in Hosts : setting'[g] = IF g = Host THEN job.previous ELSE setting[g]
          /\ Host \notin lost' => setting[Host] = Ours
      BY <1>1, <1>2, <1>3, <2>2, Writes
    <3>2. job.previous = record[Host].previous
      BY <1>1, <2>2 DEF JobInv, BackInv
    <3>3. mine[Host] # Ours
      BY <1>1, <1>2, SetupConstantsOK DEF SetupTypes
    <3> QED BY <1>2, <3>1, <3>2, <3>3
  <2> QED BY <2>1, <2>2
<1>6. \A g \in Hosts \ lost' : Settled(g)'
  BY <1>2, <1>3, <1>5 DEF Settled
<1>7. BackInv'
  BY <1>3, <1>4, <1>5 DEF BackInv
<1> QED BY <1>1, <1>3, <1>4, <1>5, <1>6, <1>7, BackGoesOn DEF BackSteps

LEMMA RemovesKeep ==
  ASSUME SetupInv, RemoveSkills \/ RemoveRules
  PROVE  SetupInv'
<1>1. /\ SetupTypes /\ JobInv /\ job \in Jobs /\ job # NoJob /\ job.left # {}
      /\ job.step \in {"remove_skills", "remove_rules"} /\ job.previous \in Values \cup {Ours, Untouched}
  BY JobFields DEF SetupInv, RemoveSkills, RemoveRules, At, JobInv, BackSteps
<1>2. Host \in job.hosts
  BY <1>1, HostTakenBack DEF BackSteps
<1>3. /\ <<setting, record, mine, toolkit, launcher, lost, halted>>'
           = <<setting, record, mine, toolkit, launcher, lost, halted>>
      /\ rules' = rules \/ rules' = rules \ {Host}
      /\ skills' = skills \/ (~SharedStillNeeded(Host) /\ skills' = skills \ {SkillsRoot[Host]})
  BY DEF RemoveSkills, RemoveRules
<1>4. PICK step \in {"remove_rules", "forget"} : Goto(step, job.left)
  BY DEF RemoveSkills, RemoveRules
<1>5. /\ job' \in Jobs /\ job' # NoJob /\ job'.step = step /\ job'.left = job.left
      /\ job'.hosts = job.hosts /\ Host' = Host
  BY <1>1, <1>4, GoesBack DEF BackSteps
<1>6. \A g \in Hosts \ lost' : Settled(g)'
  BY <1>1, <1>3, SettledSame DEF SetupInv, At
<1>7. BackInv'
  BY <1>1, <1>3, <1>5 DEF JobInv, BackInv
<1>8. \A g \in Installed \ job.hosts :
        /\ g \in rules => g \in rules'
        /\ ~record[g].legacy /\ SkillsRoot[g] \in skills => SkillsRoot[g] \in skills'
  BY <1>2, <1>3 DEF SharedStillNeeded
<1> QED BY <1>1, <1>3, <1>5, <1>6, <1>7, <1>8, BackGoesOn DEF SetupTypes, BackSteps

\* The record goes when the value is the person's own again.
LEMMA ForgetKeeps ==
  ASSUME SetupInv, Forget
  PROVE  SetupInv'
<1> DEFINE h == Host
<1>1. /\ SetupTypes /\ JobInv /\ job \in Jobs /\ job # NoJob /\ job.step = "forget"
      /\ job.left = job.hosts \cap Installed /\ job.left # {}
  BY JobFields DEF SetupInv, Forget, At, JobInv, BackSteps
<1>2. /\ h \in Hosts /\ h \in job.hosts /\ record[h] # NoRecord /\ record[h] \in Records
      /\ \A g \in Hosts \ lost : setting[g] = mine[g] \/
           (setting[g] = Ours /\ record[g] # NoRecord /\ record[g].previous = mine[g])
  BY <1>1, HostTakenBack DEF BackSteps
<1>3. /\ record' = [record EXCEPT ![h] = NoRecord]
      /\ job' = [job EXCEPT !.step = "take_back", !.left = @ \ {h}, !.owned = @ \/ record[h].toolkit]
      /\ <<setting, rules, skills, mine, toolkit, launcher, lost, halted>>'
           = <<setting, rules, skills, mine, toolkit, launcher, lost, halted>>
  BY DEF Forget
<1>4. h \notin lost => setting[h] = mine[h]
  BY <1>1 DEF JobInv, BackInv
<1>5. Installed' = Installed \ {h}
  BY <1>1, <1>2, <1>3 DEF Installed, SetupTypes
<1>6. job' \in Jobs /\ job' # NoJob
  <2>1. record[h].toolkit \in BOOLEAN
    BY <1>2 DEF Records
  <2>2. job' \in Jobs
    BY <1>1, <1>3, <2>1 DEF Jobs, Steps, BackSteps
  <2> QED BY <2>2, SetupConstantsOK
<1>7. /\ job'.step = "take_back" /\ job'.left = job.left \ {h} /\ job'.hosts = job.hosts
  BY <1>1, <1>3 DEF Jobs
<1> HIDE DEF h
<1>8. SetupTypes'
  BY <1>1, <1>3, <1>6 DEF SetupTypes
<1>9. JobInv'
  BY <1>1, <1>5, <1>7 DEF JobInv, BackInv, BackSteps
<1>10. ASSUME NEW g \in Hosts \ lost' PROVE Settled(g)'
  <2>1. g # h => record'[g] = record[g]
    BY <1>1, <1>3 DEF SetupTypes
  <2> QED BY <1>2, <1>3, <1>4, <2>1 DEF Settled
<1>11. ASSUME NEW g \in Installed' \ halted' PROVE Healthy(g)'
  <2>1. g \in Installed /\ Healthy(g) /\ record'[g] = record[g]
    BY <1>1, <1>3, <1>5 DEF SetupInv, SetupTypes, Installed
  <2>2. ~At("rename") /\ (TakingBack(g)' <=> TakingBack(g))
    BY <1>1, <1>6, <1>7 DEF At, TakingBack, BackSteps
  <2> QED BY <1>3, <2>1, <2>2 DEF Healthy
<1>12. \A g \in Installed' : record'[g].legacy => record'[g].previous = Untouched
  BY <1>1, <1>3, <1>5 DEF SetupInv, SetupTypes, Installed
<1> QED BY <1>6, <1>8, <1>9, <1>10, <1>11, <1>12 DEF SetupInv

\* The rest of an install: one host after the other.
LEMMA ActivateKeeps ==
  ASSUME SetupInv, ActivateHost
  PROVE  SetupInv'
<1>1. /\ SetupTypes /\ JobInv /\ job \in Jobs /\ job # NoJob /\ job.step = "activate"
      /\ job.left # {} /\ job.left \subseteq Hosts /\ Host \in job.left
  BY JobFields DEF SetupInv, ActivateHost, At, JobInv
<1>2. /\ skills' = skills \cup ({SkillsRoot[Host]} \ {NoRoot}) /\ rules' = rules \cup {Host}
      /\ Goto("autonomy", job.left)
      /\ <<setting, record, mine, toolkit, launcher, lost, halted>>'
           = <<setting, record, mine, toolkit, launcher, lost, halted>>
  BY DEF ActivateHost
<1>3. /\ job' \in Jobs /\ job' # NoJob /\ job'.step = "autonomy" /\ job'.left = job.left
      /\ job'.kind = job.kind /\ job'.hosts = job.hosts /\ job'.autonomy = job.autonomy
      /\ job'.portable = job.portable /\ job'.previous = job.previous
  BY <1>1, <1>2, GoesTo DEF Steps
<1>4. SetupTypes' /\ Installed' = Installed /\ Host' = Host
  BY <1>1, <1>2, <1>3 DEF SetupTypes, Installed, Host
<1>5. JobInv'
  BY <1>1, <1>2, <1>3, <1>4 DEF JobInv, BackInv, BackSteps
<1>6. \A h \in Hosts \ lost' : Settled(h)'
  BY <1>1, <1>2, SettledSame DEF SetupInv, At
<1>7. \A h \in Installed' \ halted' : Healthy(h)'
  BY <1>1, <1>2, <1>3, <1>4 DEF SetupInv, Healthy, At, TakingBack, BackSteps
<1>8. \A h \in Installed' : record'[h].legacy => record'[h].previous = Untouched
  BY <1>2, <1>4 DEF SetupInv
<1> QED BY <1>4, <1>5, <1>6, <1>7, <1>8 DEF SetupInv

\* Reading the setting changes nothing.
LEMMA AutonomyKeeps ==
  ASSUME SetupInv, ApplyAutonomy
  PROVE  SetupInv'
<1> DEFINE was == IF job.autonomy THEN SetKey(Host) ELSE Untouched
<1>1. /\ SetupTypes /\ JobInv /\ job \in Jobs /\ job # NoJob /\ job.step = "autonomy"
      /\ job.left # {} /\ Host \in job.left /\ Host \in Hosts
  BY JobFields DEF SetupInv, ApplyAutonomy, At, JobInv
<1>2. /\ job' = [job EXCEPT !.step = "set", !.previous = was]
      /\ <<setting, rules, skills, record, mine, toolkit, launcher, lost, halted>>'
           = <<setting, rules, skills, record, mine, toolkit, launcher, lost, halted>>
  BY DEF ApplyAutonomy, files
<1>3. was \in Values \cup {Ours, Untouched}
  BY <1>1, SetupConstantsOK DEF SetupTypes, SetKey
<1> HIDE DEF was
<1>4. /\ job' \in Jobs /\ job'.step = "set" /\ job'.left = job.left
      /\ job'.kind = job.kind /\ job'.hosts = job.hosts /\ job'.portable = job.portable
  BY <1>1, <1>2, <1>3 DEF Jobs, Steps
<1>5. job' # NoJob
  BY <1>4, SetupConstantsOK
<1>6. SetupTypes' /\ Installed' = Installed /\ Host' = Host
  BY <1>1, <1>2, <1>4 DEF SetupTypes, Installed, Host
<1>7. JobInv'
  BY <1>1, <1>2, <1>4, <1>6 DEF JobInv, BackInv, BackSteps
<1>8. \A h \in Hosts \ lost' : Settled(h)'
  BY <1>1, <1>2, SettledSame DEF SetupInv, At
<1>9. \A h \in Installed' \ halted' : Healthy(h)'
  BY <1>1, <1>2, <1>4, <1>6 DEF SetupInv, Healthy, At, TakingBack, BackSteps
<1>10. \A h \in Installed' : record'[h].legacy => record'[h].previous = Untouched
  BY <1>2, <1>6 DEF SetupInv
<1> QED BY <1>6, <1>7, <1>8, <1>9, <1>10 DEF SetupInv

\* Writing it replaces what was read, or the host is in "lost".
LEMMA WriteAutonomyKeeps ==
  ASSUME SetupInv, WriteAutonomy
  PROVE  SetupInv'
<1>1. /\ SetupTypes /\ JobInv /\ job \in Jobs /\ job # NoJob /\ job.step = "set"
      /\ job.left # {} /\ job.left \in SUBSET Hosts /\ Host \in job.left /\ Host \in Hosts
      /\ Host \notin Installed
  BY JobFields DEF SetupInv, WriteAutonomy, At, JobInv
<1>2. /\ <<rules, skills, record, mine, toolkit, launcher, halted>>'
           = <<rules, skills, record, mine, toolkit, launcher, halted>>
      /\ Goto("register", job.left)
      /\ IF job.previous = Untouched THEN setting' = setting /\ lost' = lost
         ELSE WriteSetting(Host, Ours, job.previous)
  BY DEF WriteAutonomy
<1>3. /\ job' \in Jobs /\ job' # NoJob /\ job'.step = "register" /\ job'.left = job.left
      /\ job'.kind = job.kind /\ job'.hosts = job.hosts
      /\ job'.portable = job.portable /\ job'.previous = job.previous
  BY <1>1, <1>2, GoesTo DEF Steps
<1>4. /\ setting' \in [Hosts -> Values \cup {Ours}] /\ lost \subseteq lost'
      /\ \A g \in Hosts \ {Host} : setting'[g] = setting[g]
      /\ \/ setting'[Host] = setting[Host]
         \/ setting'[Host] = Ours /\ (Host \notin lost' => setting[Host] = job.previous)
  <2>1. CASE job.previous = Untouched
    BY <1>1, <1>2, <2>1 DEF SetupTypes
  <2>2. CASE job.previous # Untouched
    <3>1. WriteSetting(Host, Ours, job.previous)
      BY <1>2, <2>2
    <3> QED BY <1>1, <3>1, Writes
  <2> QED BY <2>1, <2>2
<1>5. SetupTypes' /\ Installed' = Installed /\ Host' = Host
  BY <1>1, <1>2, <1>3, <1>4 DEF SetupTypes, Installed, Host
<1>6. JobInv'
  BY <1>1, <1>2, <1>3, <1>5 DEF JobInv, BackInv, BackSteps
<1>7. ASSUME NEW g \in Hosts \ lost' PROVE Settled(g)'
  <2>1. /\ \/ setting[g] = mine[g]
           \/ setting[g] = Ours /\ record[g] # NoRecord /\ record[g].previous = mine[g]
        /\ mine' = mine /\ record' = record
    BY <1>1, <1>2, <1>4 DEF SetupInv, Settled, At
  <2>2. CASE setting'[g] = setting[g]
    BY <2>1, <2>2 DEF Settled
  <2>3. CASE setting'[g] # setting[g]
    <3>1. g = Host /\ setting'[g] = Ours /\ setting[g] = job.previous
      BY <1>4, <2>3
    <3>2. record[g] = NoRecord
      BY <1>1, <3>1 DEF Installed
    <3>3. At("register")'
      BY <1>3 DEF At
    <3> QED BY <1>3, <1>5, <2>1, <3>1, <3>2, <3>3 DEF Settled
  <2> QED BY <2>2, <2>3
<1>8. \A g \in Installed' \ halted' : Healthy(g)'
  BY <1>1, <1>2, <1>3, <1>5 DEF SetupInv, Healthy, At, TakingBack, BackSteps
<1>9. \A g \in Installed' : record'[g].legacy => record'[g].previous = Untouched
  BY <1>2, <1>5 DEF SetupInv
<1> QED BY <1>5, <1>6, <1>7, <1>8, <1>9 DEF SetupInv

LEMMA RegisterKeeps ==
  ASSUME SetupInv, Register
  PROVE  SetupInv'
<1>1. /\ SetupTypes /\ JobInv /\ job \in Jobs /\ job # NoJob /\ job.step = "register"
      /\ job.left \subseteq Hosts
  BY JobFields DEF SetupInv, Register, At
<1>2. /\ Goto("record", job.left)
      /\ <<setting, rules, skills, record, mine, toolkit, launcher, lost, halted>>'
           = <<setting, rules, skills, record, mine, toolkit, launcher, lost, halted>>
  BY DEF Register
<1>3. /\ job' \in Jobs /\ job' # NoJob /\ job'.step = "record" /\ job'.left = job.left
      /\ job'.kind = job.kind /\ job'.hosts = job.hosts /\ job'.autonomy = job.autonomy
      /\ job'.portable = job.portable /\ job'.previous = job.previous
  BY <1>1, <1>2, GoesTo DEF Steps
<1>4. SetupTypes' /\ Installed' = Installed /\ Host' = Host
  BY <1>1, <1>2, <1>3 DEF SetupTypes, Installed, Host
<1>5. JobInv'
  BY <1>1, <1>2, <1>3, <1>4 DEF JobInv, BackInv, BackSteps
<1>6. \A h \in Hosts \ lost' : Settled(h)'
  BY <1>1, <1>2, <1>3, <1>4, SettledSame DEF SetupInv, At
<1>7. \A h \in Installed' \ halted' : Healthy(h)'
  BY <1>1, <1>2, <1>3, <1>4 DEF SetupInv, Healthy, At, TakingBack, BackSteps
<1>8. \A h \in Installed' : record'[h].legacy => record'[h].previous = Untouched
  BY <1>2, <1>4 DEF SetupInv
<1> QED BY <1>4, <1>5, <1>6, <1>7, <1>8 DEF SetupInv

LEMMA WriteRecordKeeps ==
  ASSUME SetupInv, WriteRecord
  PROVE  SetupInv'
<1> DEFINE h == Host
           row == Record(job.previous, job.portable, FALSE)
<1>1. /\ SetupTypes /\ JobInv /\ job \in Jobs /\ job # NoJob /\ job.step = "record"
      /\ job.left # {} /\ h \in job.left /\ h \in Hosts /\ h \notin Installed
      /\ job.previous \in Values \cup {Ours, Untouched} /\ job.portable \in BOOLEAN
  BY JobFields DEF SetupInv, WriteRecord, At, JobInv
<1>2. /\ record' = [record EXCEPT ![h] = row] /\ halted' = halted \ {h}
      /\ <<setting, rules, skills, mine, toolkit, launcher, lost>>'
           = <<setting, rules, skills, mine, toolkit, launcher, lost>>
      /\ \/ job' = NoJob
         \/ /\ job.left # {h}
            /\ job' = [job EXCEPT !.step = "activate", !.left = @ \ {h}, !.previous = Untouched]
  BY DEF WriteRecord
<1>3. /\ row \in Records /\ row.previous = job.previous /\ row.toolkit = job.portable
      /\ row.legacy = FALSE
  BY <1>1 DEF Record, Records
<1>4. row # NoRecord
  BY <1>3, SetupConstantsOK
<1> HIDE DEF row
<1>5. job' # NoJob =>
        /\ job' \in Jobs /\ job'.step = "activate" /\ job'.left = job.left \ {h} /\ job'.left # {}
        /\ job'.kind = job.kind /\ job'.hosts = job.hosts /\ job'.portable = job.portable
  <2> SUFFICES ASSUME job' # NoJob
               PROVE  /\ job' \in Jobs /\ job'.step = "activate" /\ job'.left = job.left \ {h}
                      /\ job'.left # {} /\ job'.kind = job.kind /\ job'.hosts = job.hosts
                      /\ job'.portable = job.portable
    OBVIOUS
  <2>1. /\ job' = [job EXCEPT !.step = "activate", !.left = @ \ {h}, !.previous = Untouched]
        /\ job.left # {h}
    BY <1>2
  <2>2. job.left \ {h} # {} /\ job.left \ {h} \in SUBSET Hosts
    BY <1>1, <2>1 DEF Jobs
  <2>3. "activate" \in Steps /\ Untouched \in Values \cup {Ours, Untouched}
    BY DEF Steps
  <2> HIDE DEF h
  <2>4. job' \in Jobs
    BY <1>1, <2>1, <2>2, <2>3 DEF Jobs
  <2>5. /\ job'.step = "activate" /\ job'.left = job.left \ {h}
        /\ job'.kind = job.kind /\ job'.hosts = job.hosts /\ job'.portable = job.portable
    BY <1>1, <2>1 DEF Jobs
  <2> QED BY <2>2, <2>4, <2>5
<1> HIDE DEF h
<1>6. SetupTypes' /\ Installed' = Installed \cup {h}
  BY <1>1, <1>2, <1>3, <1>4, <1>5 DEF SetupTypes, Installed
<1>7. job' # NoJob => JobInv'
  BY <1>1, <1>2, <1>5, <1>6 DEF JobInv, BackInv, BackSteps
<1>8. ASSUME NEW g \in Hosts \ lost' PROVE Settled(g)'
  <2>1. Settled(g)
    BY <1>2 DEF SetupInv
  <2>2. CASE g # h
    <3>1. record'[g] = record[g]
      BY <1>1, <1>2, <2>2 DEF SetupTypes
    <3> QED BY <1>2, <2>1, <2>2, <3>1 DEF Settled, h
  <2>3. CASE g = h
    <3>1. record'[h] = row /\ record[h] = NoRecord
      BY <1>1, <1>2 DEF SetupTypes, Installed
    <3> QED BY <1>2, <1>3, <1>4, <2>1, <2>3, <3>1 DEF Settled, h
  <2> QED BY <2>2, <2>3
<1>9. ASSUME NEW g \in Installed' \ halted' PROVE Healthy(g)'
  <2>1. ~TakingBack(g) /\ ~At("rename") /\ ~TakingBack(g)' /\ ~At("rename")'
    BY <1>1, <1>5 DEF At, TakingBack, BackSteps
  <2>2. CASE g # h
    <3>1. g \in Installed \ halted /\ record'[g] = record[g]
      BY <1>1, <1>2, <1>6, <1>9, <2>2 DEF SetupTypes
    <3> QED BY <1>2, <2>1, <3>1 DEF SetupInv, Healthy
  <2>3. CASE g = h
    <3>1. record'[h] = row /\ h \in rules /\ SkillsRoot[h] \in skills \cup {NoRoot}
          /\ (job.portable => toolkit /\ launcher)
      BY <1>1, <1>2 DEF SetupTypes, JobInv, h
    <3> QED BY <1>2, <1>3, <2>1, <2>3, <3>1 DEF Healthy
  <2> QED BY <2>2, <2>3
<1>10. \A g \in Installed' : record'[g].legacy => record'[g].previous = Untouched
  <2>1. \A g \in Hosts : record'[g] = IF g = h THEN row ELSE record[g]
    BY <1>1, <1>2 DEF SetupTypes
  <2> QED BY <1>1, <1>3, <1>6, <2>1 DEF SetupInv, Installed
<1> QED BY <1>6, <1>7, <1>8, <1>9, <1>10 DEF SetupInv

\* The person's own edit is known to be theirs, whatever cm is at.
LEMMA EditKeeps ==
  ASSUME SetupInv, NEW h \in Hosts, NEW v \in Values, Edit(h, v)
  PROVE  SetupInv'
<1>1. /\ setting' = [setting EXCEPT ![h] = v] /\ mine' = [mine EXCEPT ![h] = v]
      /\ <<rules, skills, record, toolkit, launcher, job, halted>>'
           = <<rules, skills, record, toolkit, launcher, job, halted>>
      /\ lost' = lost \ {h}
  BY DEF Edit
<1>2. SetupTypes /\ SetupTypes' /\ Installed' = Installed /\ Host' = Host
  BY <1>1 DEF SetupInv, SetupTypes, Installed, Host
<1>3. \A g \in Hosts : /\ setting'[g] = (IF g = h THEN v ELSE setting[g])
                       /\ mine'[g] = (IF g = h THEN v ELSE mine[g])
  BY <1>1, <1>2 DEF SetupTypes
<1>4. job' # NoJob => JobInv'
  <2> SUFFICES ASSUME job # NoJob PROVE JobInv'
    BY <1>1
  <2>1. JobInv /\ job.step \in BackSteps \ {"take_back"} => Host \in Hosts
    BY <1>2, JobFields DEF SetupInv, JobInv
  <2>2. BackInv'
    BY <1>1, <1>2, <1>3, <2>1 DEF SetupInv, JobInv, BackInv, BackSteps
  <2> QED BY <1>1, <1>2, <2>2 DEF SetupInv, JobInv
<1>5. ASSUME NEW g \in Hosts \ lost' PROVE Settled(g)'
  <2>1. g # h => Settled(g)
    BY <1>1 DEF SetupInv
  <2> QED BY <1>1, <1>2, <1>3, <2>1 DEF Settled, At
<1>6. \A g \in Installed' \ halted' : Healthy(g)'
  BY <1>1, <1>2 DEF SetupInv, Healthy, At, TakingBack
<1>7. \A g \in Installed' : record'[g].legacy => record'[g].previous = Untouched
  BY <1>1, <1>2 DEF SetupInv
<1> QED BY <1>2, <1>4, <1>5, <1>6, <1>7 DEF SetupInv

LEMMA SetupNextInv ==
  ASSUME SetupInv, [SetupNext]_setupVars
  PROVE  SetupInv'
<1>1. ASSUME NEW hosts \in Selections, NEW option \in Options,
             Start("install", hosts, option[1], option[2])
      PROVE  SetupInv'
  <2>1. option[1] \in BOOLEAN /\ option[2] \in BOOLEAN
    BY SetupConstantsOK
  <2> QED BY <1>1, <2>1, StartKeeps
<1>2. ASSUME NEW hosts \in Selections, Start("uninstall", hosts, FALSE, FALSE) PROVE SetupInv'
  BY <1>2, StartKeeps
<1>3. ASSUME NEW fails \in BOOLEAN, Build(fails) PROVE SetupInv'
  <2>1. /\ job # NoJob /\ job.step = "build" /\ At("build")
        /\ <<setting, rules, skills, record, mine, toolkit, launcher, lost, halted>>'
             = <<setting, rules, skills, record, mine, toolkit, launcher, lost, halted>>
    BY <1>3 DEF Build, At, files
  <2>2. CASE fails
    BY <1>3, <2>1, <2>2, OverKeeps DEF Build
  <2>3. CASE ~fails
    <3>1. /\ Goto("take_back", job.left) /\ job.left = job.hosts \cap Installed
          /\ job.left \in SUBSET Hosts
      BY <1>3, <2>1, <2>3, JobFields DEF Build, SetupInv, JobInv
    <3>2. ~At("rename")
      BY <2>1 DEF At
    <3> QED BY <2>1, <3>1, <3>2, MovesOn
  <2> QED BY <2>2, <2>3
<1>4. ASSUME TakenBack PROVE SetupInv'
  <2>1. /\ job # NoJob /\ job.step = "take_back" /\ JobInv /\ SetupTypes
        /\ <<setting, rules, skills, record, mine, toolkit, launcher, lost, halted>>'
             = <<setting, rules, skills, record, mine, toolkit, launcher, lost, halted>>
        /\ job.hosts \in SUBSET Hosts /\ job.hosts \cap Installed = {} /\ job.hosts # {}
        /\ job.kind \in {"install", "uninstall"} /\ job.portable \in BOOLEAN
    BY <1>4, JobFields DEF TakenBack, At, files, SetupInv, JobInv, BackSteps
  <2>2. ~At("rename")
    BY <2>1 DEF At
  <2>3. \/ Goto("clean_up", job.hosts)
        \/ job.kind = "install" /\ Goto("remove", job.hosts)
        \/ job.kind = "install" /\ ~job.portable /\ Goto("activate", job.hosts)
    BY <1>4, <2>1 DEF TakenBack
  <2> QED BY <2>1, <2>2, <2>3, MovesOn
<1>5. ASSUME RemoveToolkit \/ RenameToolkit PROVE SetupInv'
  <2>1. /\ job # NoJob /\ job.step \in {"remove", "rename"} /\ JobInv /\ SetupTypes
        /\ <<setting, rules, skills, record, mine, lost, halted>>'
             = <<setting, rules, skills, record, mine, lost, halted>>
        /\ job.left \in SUBSET Hosts
    BY <1>5, JobFields DEF RemoveToolkit, RenameToolkit, At, files, SetupInv
  <2>3. \/ Goto("rename", job.left) /\ launcher' = launcher
        \/ Goto("activate", job.left) /\ toolkit' = TRUE /\ launcher' = TRUE
    BY <1>5 DEF RemoveToolkit, RenameToolkit, WriteLauncher
  <2>4. job.kind = "install" /\ job.left # {} /\ job.left \subseteq job.hosts /\ job.left \cap Installed = {}
    BY <2>1 DEF JobInv
  <2> QED BY <2>1, <2>3, <2>4, MovesOn
<1>6. ASSUME CleanUp \/ Killed PROVE SetupInv'
  <2>1. job # NoJob /\ job' = NoJob
        /\ <<setting, rules, skills, record, mine>>' = <<setting, rules, skills, record, mine>>
    BY <1>6 DEF CleanUp, Killed, At, files
  <2> QED BY <1>6, <2>1, OverKeeps
<1>7. ASSUME UNCHANGED <<setting, mine, rules, skills, record, toolkit, launcher, job, lost, halted>>
      PROVE  SetupInv'
  <2>1. /\ setting' = setting /\ mine' = mine /\ rules' = rules /\ skills' = skills
        /\ record' = record /\ toolkit' = toolkit /\ launcher' = launcher /\ job' = job
        /\ lost' = lost /\ halted' = halted
    BY <1>7
  <2> QED BY <2>1 DEF SetupInv, SetupTypes, JobInv, BackInv, Settled, Healthy, TakingBack, Installed, Host, At
<1>8. ASSUME NEW h \in Json, Comment(h) PROVE SetupInv'
  BY <1>7, <1>8 DEF Comment
<1>9. ASSUME TakeBack PROVE SetupInv'
  BY <1>9, UnregisterKeeps, ReadBackKeeps, PutBackKeeps, RemovesKeep, ForgetKeeps DEF TakeBack
<1>10. ASSUME UNCHANGED setupVars PROVE SetupInv'
  BY <1>7, <1>10 DEF setupVars
<1> QED
  BY <1>1, <1>2, <1>3, <1>4, <1>5, <1>6, <1>8, <1>9, <1>10, ActivateKeeps, AutonomyKeeps,
     WriteAutonomyKeeps, RegisterKeeps, WriteRecordKeeps, EditKeeps
  DEF SetupNext, Advance

\* Over any sequence of installs, uninstalls, edits and kills: where our value
\* stands, a record or the process at work knows the person's, and no host
\* loses what it was installed with to the install of another.
THEOREM PersonsValueKeptAlways == SetupSpec => []PersonsValueKept
<1>1. SetupInv => PersonsValueKept
  <2> SUFFICES ASSUME SetupInv PROVE PersonsValueKept
    OBVIOUS
  <2>1. \A h \in Hosts \ lost : Settled(h)
    BY DEF SetupInv
  <2>2. ASSUME job = NoJob, NEW finding \in Findings PROVE finding[2] \in halted
    <3>1. \A h \in Installed \ halted : Healthy(h) /\ ~TakingBack(h) /\ ~At("rename")
      BY <2>2 DEF SetupInv, At, TakingBack
    <3> QED BY <3>1 DEF Findings, Healthy
  <2> QED BY <2>1, <2>2 DEF PersonsValueKept, Settled
<1> QED BY <1>1, SetupInitInv, SetupNextInv, PTL DEF SetupSpec
\* Every install makes the toolkit, none was asked not to (--no-portable).
EveryoneHasToolkit == \A option \in Options : option[2]

\* The process will write a record, or has taken one back that names the toolkit.
AtWork == job # NoJob /\ job.step # "build" /\ (job.kind = "install" \/ job.owned)

\* A toolkit or a launcher that is there has a record, a process or a kill behind it.
LeftInv ==
  /\ \A h \in Installed : record[h].toolkit
  /\ job # NoJob => /\ job.kind = "install" => job.portable
                    /\ job.step = "clean_up" => job.kind = "uninstall"
  /\ toolkit \/ launcher => Installed # {} \/ halted # {} \/ AtWork

LEMMA LeftInitInv == SetupInit => LeftInv
<1> SUFFICES ASSUME SetupInit PROVE LeftInv OBVIOUS
<1>1. Installed = Legacy /\ \A h \in Installed : record[h].toolkit
  <2>1. Record(Untouched, TRUE, TRUE) \in Records /\ Legacy \subseteq Hosts /\ NoRecord \notin Records
    BY SetupConstantsOK DEF Record, Records
  <2> QED BY <2>1 DEF SetupInit, Installed, Record
<1> QED BY <1>1 DEF SetupInit, LeftInv

\* Going on at another step, with the records as they are.
LEMMA LeftGoesOn ==
  ASSUME SetupInv, LeftInv, job # NoJob, NEW step \in Steps \ {"build"}, NEW left \in SUBSET Hosts,
         NEW previous \in Values \cup {Ours, Untouched},
         \/ Goto(step, left)
         \/ job' = [job EXCEPT !.step = step, !.previous = previous],
         UNCHANGED <<record, halted>>,
         step = "clean_up" => job.kind = "uninstall",
         toolkit' \/ launcher' => toolkit \/ launcher \/ job.kind = "install"
  PROVE  LeftInv'
<1>1. /\ job' \in Jobs /\ job'.step = step /\ job'.kind = job.kind
      /\ job'.portable = job.portable /\ job'.owned = job.owned
  BY JobFields DEF SetupInv, Goto, Jobs
<1>2. job' # NoJob
  BY <1>1, SetupConstantsOK
<1>3. Installed' = Installed
  BY DEF Installed
<1> QED BY <1>1, <1>2, <1>3 DEF LeftInv, AtWork

LEMMA LeftNextInv ==
  ASSUME EveryoneHasToolkit, SetupInv, LeftInv, [SetupNext]_setupVars
  PROVE  LeftInv'
<1>1. ASSUME NEW kind \in {"install", "uninstall"}, NEW hosts \in Selections,
             NEW autonomy \in BOOLEAN, NEW portable \in BOOLEAN, Start(kind, hosts, autonomy, portable),
             kind = "install" => portable
      PROVE  LeftInv'
  <2> DEFINE new == [kind |-> kind, hosts |-> hosts, autonomy |-> autonomy, portable |-> portable,
                     step |-> IF kind = "install" /\ portable THEN "build" ELSE "take_back",
                     left |-> hosts \cap Installed, owned |-> FALSE, previous |-> Untouched]
  <2>1. /\ job' = new /\ new.kind = kind /\ new.portable = portable /\ new.step # "clean_up"
        /\ ~AtWork /\ UNCHANGED <<record, toolkit, launcher, halted>>
    BY <1>1 DEF Start, files, AtWork
  <2> HIDE DEF new
  <2>2. Installed' = Installed
    BY <2>1 DEF Installed
  <2> QED BY <1>1, <2>1, <2>2 DEF LeftInv
<1>2. ASSUME NEW fails \in BOOLEAN, Build(fails) PROVE LeftInv'
  <2>1. /\ job # NoJob /\ job.step = "build" /\ UNCHANGED <<record, toolkit, launcher, halted>>
        /\ job.left \in SUBSET Hosts /\ Installed' = Installed
    BY <1>2, JobFields DEF Build, At, files, SetupInv, Installed
  <2>2. CASE fails
    BY <1>2, <2>1, <2>2 DEF Build, LeftInv, AtWork
  <2>3. CASE ~fails
    <3>1. Goto("take_back", job.left) /\ "take_back" \in Steps \ {"build"} /\ Untouched \in Values \cup {Ours, Untouched}
      BY <1>2, <2>1, <2>3 DEF Build, Steps, BackSteps
    <3> QED BY <2>1, <3>1, LeftGoesOn
  <2> QED BY <2>2, <2>3
<1>3. CASE Forget
  <2> DEFINE h == Host
  <2>1. /\ job \in Jobs /\ job # NoJob /\ job.step = "forget" /\ job.left = job.hosts \cap Installed
        /\ h \in job.left /\ record' = [record EXCEPT ![h] = NoRecord]
        /\ job' = [job EXCEPT !.step = "take_back", !.left = @ \ {h}, !.owned = @ \/ record[h].toolkit]
        /\ record \in [Hosts -> Records \cup {NoRecord}]
    BY <1>3, JobFields DEF Forget, At, SetupInv, SetupTypes, JobInv, BackSteps
  <2> HIDE DEF h
  <2>2. h \in Installed /\ record[h].toolkit /\ h \in Hosts
    BY <2>1 DEF LeftInv, Installed
  <2>3. /\ job'.owned /\ job'.kind = job.kind /\ job'.portable = job.portable /\ job'.step = "take_back"
        /\ job' \in Jobs
    BY <2>1, <2>2 DEF Jobs, Steps, BackSteps
  <2>4. job' # NoJob
    BY <2>3, SetupConstantsOK
  <2>5. \A g \in Installed' : g \in Installed /\ record'[g] = record[g]
    BY <2>1, <2>2 DEF Installed
  <2> QED BY <2>1, <2>3, <2>4, <2>5 DEF LeftInv, AtWork
<1>4. CASE TakenBack
  <2>1. /\ job # NoJob /\ job.hosts \in SUBSET Hosts /\ job.kind \in {"install", "uninstall"}
        /\ UNCHANGED <<record, toolkit, launcher, halted>>
    BY <1>4, JobFields DEF TakenBack, At, files, SetupInv
  <2>2. \E step \in {"clean_up", "remove", "activate"} :
          Goto(step, job.hosts) /\ (step = "clean_up" => job.kind = "uninstall")
    BY <1>4, <2>1 DEF TakenBack
  <2> QED BY <2>1, <2>2, LeftGoesOn DEF Steps
<1>5. CASE CleanUp
  <2>1. /\ job # NoJob /\ job.step = "clean_up" /\ job' = NoJob /\ UNCHANGED <<record, halted>>
        /\ launcher' = (launcher /\ ~(Installed = {} /\ job.owned))
        /\ toolkit' = (toolkit /\ ~(Installed = {} /\ job.owned))
    BY <1>5 DEF CleanUp, RemoveLaunchers, At, files
  <2>2. Installed' = Installed /\ job.kind = "uninstall"
    BY <2>1 DEF Installed, LeftInv
  <2> QED BY <2>1, <2>2 DEF LeftInv, AtWork
<1>6. CASE RemoveToolkit \/ RenameToolkit \/ ActivateHost \/ WriteAutonomy \/ Register
  <2>1. /\ job # NoJob /\ job.left \in SUBSET Hosts /\ UNCHANGED <<record, halted>>
        /\ job.step \in {"remove", "rename", "activate", "set", "register"}
    BY <1>6, JobFields
    DEF RemoveToolkit, RenameToolkit, ActivateHost, WriteAutonomy, Register, At, files, SetupInv
  <2>2. job.kind = "install"
    BY <2>1 DEF SetupInv, JobInv
  <2>3. \E step \in {"rename", "activate", "autonomy", "register", "record"} : Goto(step, job.left)
    BY <1>6 DEF RemoveToolkit, RenameToolkit, ActivateHost, WriteAutonomy, Register
  <2> QED BY <2>1, <2>2, <2>3, LeftGoesOn DEF Steps
<1>7. CASE Unregister \/ RemoveSkills \/ RemoveRules
  <2>1. /\ job # NoJob /\ job.left \in SUBSET Hosts /\ UNCHANGED <<record, toolkit, launcher, halted>>
        /\ \E step \in {"forget", "read_back", "remove_rules"} : Goto(step, job.left)
    BY <1>7, JobFields DEF Unregister, RemoveSkills, RemoveRules, At, SetupInv
  <2> QED BY <2>1, LeftGoesOn DEF Steps, BackSteps
<1>15. CASE ReadBack \/ PutBack \/ ApplyAutonomy
  <2>1. /\ job # NoJob /\ job.left \in SUBSET Hosts /\ UNCHANGED <<record, toolkit, launcher, halted>>
        /\ SetupTypes /\ JobInv /\ Untouched \in Values \cup {Ours, Untouched}
    BY <1>15, JobFields DEF ReadBack, PutBack, ApplyAutonomy, At, files, SetupInv
  <2>2. \E step \in {"put_back", "remove_skills", "set"}, previous \in Values \cup {Ours, Untouched} :
          job' = [job EXCEPT !.step = step, !.previous = previous]
    <3>1. CASE ReadBack
      <4>1. record[Host] \in Records
        BY <2>1, <3>1, HostTakenBack DEF ReadBack, At, JobInv, BackSteps
      <4>2. UnsetKey(Host) \in Values \cup {Ours, Untouched}
        BY <4>1 DEF UnsetKey, Records
      <4> QED BY <3>1, <4>2 DEF ReadBack
    <3>2. CASE PutBack
      BY <2>1, <3>2 DEF PutBack
    <3>3. CASE ApplyAutonomy
      <4>1. Host \in Hosts
        BY <2>1, <3>3, JobFields DEF ApplyAutonomy, At, JobInv
      <4>2. SetKey(Host) \in Values \cup {Ours, Untouched}
        BY <2>1, <4>1, SetupConstantsOK DEF SetKey, SetupTypes
      <4> QED BY <2>1, <3>3, <4>2 DEF ApplyAutonomy
    <3> QED BY <1>15, <3>1, <3>2, <3>3
  <2> QED BY <2>1, <2>2, LeftGoesOn DEF Steps, BackSteps
<1>8. CASE WriteRecord
  <2> DEFINE h == Host
             new == Record(job.previous, job.portable, FALSE)
  <2>1. /\ job \in Jobs /\ job # NoJob /\ job.step = "record" /\ job.left \subseteq Hosts
        /\ job.previous \in Values \cup {Ours, Untouched}
        /\ record \in [Hosts -> Records \cup {NoRecord}]
        /\ record' = [record EXCEPT ![h] = new]
        /\ \/ job' = NoJob
           \/ job' = [job EXCEPT !.step = "activate", !.left = @ \ {h}, !.previous = Untouched]
    BY <1>8, JobFields DEF WriteRecord, At, SetupInv, SetupTypes
  <2>2. job.kind = "install" /\ job.portable = TRUE /\ h \in Hosts
    BY <2>1, JobFields DEF SetupInv, JobInv, LeftInv
  <2>3. new.toolkit /\ new \in Records
    BY <2>1, <2>2 DEF Record, Records
  <2> HIDE DEF h, new
  <2>4. h \in Installed' /\ record'[h].toolkit
    BY <2>1, <2>2, <2>3, SetupConstantsOK DEF Installed
  <2>5. \A g \in Installed' : g = h \/ (g \in Installed /\ record'[g] = record[g])
    BY <2>1, <2>2 DEF Installed
  <2>6. job' # NoJob => job'.kind = "install" /\ job'.portable /\ job'.step = "activate"
    BY <2>1, <2>2 DEF Jobs
  <2>7. \A g \in Installed' : record'[g].toolkit
    BY <2>4, <2>5 DEF LeftInv
  <2> QED BY <2>4, <2>6, <2>7 DEF LeftInv
<1>9. CASE Killed
  <2>1. job # NoJob /\ job' = NoJob /\ job.hosts \subseteq halted' /\ UNCHANGED <<record, toolkit, launcher>>
    BY <1>9 DEF Killed, files
  <2>2. job.hosts # {} /\ Installed' = Installed
    BY <2>1 DEF SetupInv, JobInv, Installed
  <2> QED BY <2>1, <2>2 DEF LeftInv
<1>10. ASSUME UNCHANGED <<record, toolkit, launcher, job, halted>> PROVE LeftInv'
  BY <1>10 DEF LeftInv, AtWork, Installed
<1>11. ASSUME NEW hosts \in Selections, NEW option \in Options,
              Start("install", hosts, option[1], option[2])
       PROVE  LeftInv'
  <2>1. option[1] \in BOOLEAN /\ option[2] \in BOOLEAN /\ option[2]
    BY SetupConstantsOK DEF EveryoneHasToolkit
  <2> QED BY <1>1, <1>11, <2>1
<1>12. ASSUME NEW hosts \in Selections, Start("uninstall", hosts, FALSE, FALSE) PROVE LeftInv'
  BY <1>1, <1>12
<1>13. ASSUME NEW h \in Hosts, NEW v \in Values, Edit(h, v) PROVE LeftInv'
  BY <1>10, <1>13 DEF Edit
<1>14. ASSUME NEW h \in Json, Comment(h) PROVE LeftInv'
  BY <1>10, <1>14 DEF Comment
<1> QED
  BY <1>2, <1>3, <1>4, <1>5, <1>6, <1>7, <1>8, <1>9, <1>10, <1>11, <1>12, <1>13, <1>14, <1>15
  DEF SetupNext, Advance, TakeBack, setupVars

\* setup.ts:8, once the last host is uninstalled and no process was killed on the
\* way, neither toolkit nor launcher is left, if every install makes the toolkit.
THEOREM NothingLeftBehindIfAllHaveToolkit ==
  ASSUME EveryoneHasToolkit
  PROVE  SetupSpec => []NothingLeftBehind
<1>1. SetupInit => SetupInv /\ LeftInv
  BY SetupInitInv, LeftInitInv
<1>2. SetupInv /\ LeftInv /\ [SetupNext]_setupVars => SetupInv' /\ LeftInv'
  BY SetupNextInv, LeftNextInv
<1>3. LeftInv => NothingLeftBehind
  BY DEF LeftInv, AtWork, NothingLeftBehind
<1> QED BY <1>1, <1>2, <1>3, PTL DEF SetupSpec
=============================================================================
