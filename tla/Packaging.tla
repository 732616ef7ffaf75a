----------------------------- MODULE Packaging -----------------------------
(***************************************************************************)
(* A provider distribution under an install root, and the upgrade of a     *)
(* controller's state file: packages/packaging/src/install.ts and          *)
(* upgrade.ts.  A plan is a dry run that is approved and then applied file *)
(* by file, the settings file of the host last; an uninstall goes the same *)
(* way back; an upgrade copies the state, migrates it and then activates.  *)
(* The person edits the settings at any time, between a read and a write   *)
(* of the process too, which may be killed between two writes.  Settings   *)
(* that do not parse end the process as a kill does.                       *)
(***************************************************************************)
EXTENDS Naturals, FiniteSets

CONSTANTS
  Shipped,           \* files of the distribution
  SettingsKeys, OwnedKey, \* keys of settings.json, and OWNED_SETTINGS_KEYS
  Given, Written,    \* values a person sets, and the one an install writes
  Migrations,        \* versions 1 .. n of an upgrade
  Nothing, NoPlan, NoInstall, Unread

SettingsFiles == UNION {[K -> Given \cup {Written}] : K \in SUBSET SettingsKeys}

ASSUME PackagingConstantsOK ==
  /\ Nothing \notin SettingsFiles \cup Given \cup {Written} /\ Unread \notin SettingsFiles \cup {Nothing}
  /\ OwnedKey \in SettingsKeys /\ Written \notin Given
  /\ IsFiniteSet(Migrations) /\ Migrations = 1 .. Cardinality(Migrations)

VARIABLES
  placed, copy,    \* [Shipped -> what is at the target, and at its .backup]
  settings, settingsCopy, \* settings.json and its .backup: a function on its keys, or Nothing
  chosen,          \* the keys the person set, and their values
  plan,            \* the plan in hand, with what applying it did so far
  removing,        \* what an uninstall still has to take back
  inHand,          \* the settings as the process has read them
  overwritten,     \* keys that changed between a read and the write of it
  installed,       \* the InstallRecord
  stateFile, stateCopy, \* state.sqlite and its snapshot: migrations applied, half applied
  upgrading,       \* the migration an upgrade is at, or 0
  upgraded         \* the last outcome was upgraded: true

installVars == <<placed, copy, settings, settingsCopy, plan, removing, inHand, overwritten, installed>>
upgradeVars == <<stateFile, stateCopy, upgrading, upgraded>>
packagingVars == <<installVars, upgradeVars, chosen>>

States == [applied : SUBSET Migrations, torn : SUBSET Migrations]
FileStates == {"theirs", "ours", Nothing}

PackagingTypeOK ==
  /\ placed \in [Shipped -> FileStates] /\ copy \in [Shipped -> FileStates]
  /\ settings \in SettingsFiles \cup {Nothing} /\ settingsCopy \in SettingsFiles \cup {Nothing}
  /\ inHand \in SettingsFiles \cup {Nothing, Unread} /\ overwritten \subseteq SettingsKeys
  /\ plan = NoPlan \/ plan.left \cup plan.backups \subseteq Shipped
  /\ removing = NoPlan \/ (plan = NoPlan /\ removing.copiedBack \subseteq removing.left)
  /\ installed = NoInstall \/ installed.backups \subseteq Shipped
  /\ stateFile \in States /\ stateCopy \in States \cup {Nothing}
  /\ upgrading \in 0 .. Cardinality(Migrations) + 1 /\ upgraded \in BOOLEAN

PackagingInit ==
  /\ placed \in [Shipped -> {"theirs", Nothing}] /\ copy = [f \in Shipped |-> Nothing]
  /\ settings = Nothing /\ settingsCopy = Nothing
  /\ chosen = [k \in {} |-> Written]
  /\ plan = NoPlan /\ removing = NoPlan /\ inHand = Unread /\ overwritten = {} /\ installed = NoInstall
  /\ stateFile = [applied |-> {}, torn |-> {}] /\ stateCopy = Nothing
  /\ upgrading = 0 /\ upgraded = FALSE

Present(file) == IF file = Nothing THEN {} ELSE DOMAIN file
ValueOf(file, k) == IF k \in Present(file) THEN file[k] ELSE Nothing

\* The settings are written from what was read of them before.
Overwrite(file) ==
  /\ settings' = file
  /\ overwritten' = overwritten \cup {k \in SettingsKeys : ValueOf(settings, k) # ValueOf(inHand, k)}

-----------------------------------------------------------------------------
(* Installing *)

\* The dry run looks at every target; what it finds is what will be done.
PlanInstall ==
  /\ plan = NoPlan /\ removing = NoPlan
  /\ plan' = [approved |-> FALSE, left |-> Shipped,
              replaces |-> {f \in Shipped : placed[f] # Nothing},
              preserves |-> Present(settings) \ {OwnedKey}, backups |-> {}, settings |-> "merge"]
  /\ UNCHANGED <<placed, copy, settings, settingsCopy, removing, inHand, overwritten, installed, upgradeVars, chosen>>

ApproveInstall ==
  /\ plan # NoPlan
  /\ plan' = [plan EXCEPT !.approved = TRUE]
  /\ UNCHANGED <<placed, copy, settings, settingsCopy, removing, inHand, overwritten, installed, upgradeVars, chosen>>

\* The plan is not applied, or the process is killed on its way through an
\* install or an uninstall.
Dropped ==
  /\ plan # NoPlan \/ removing # NoPlan
  /\ plan' = NoPlan /\ removing' = NoPlan /\ inHand' = Unread
  /\ UNCHANGED <<placed, copy, settings, settingsCopy, overwritten, installed, upgradeVars, chosen>>

\* A file the plan replaces is copied first, over an older copy of it.
BackUp(f) ==
  /\ plan # NoPlan /\ plan.approved /\ f \in plan.left \cap plan.replaces
  /\ copy' = [copy EXCEPT ![f] = placed[f]]
  /\ plan' = [plan EXCEPT !.backups = @ \cup {f}, !.replaces = @ \ {f}]
  /\ UNCHANGED <<placed, settings, settingsCopy, removing, inHand, overwritten, installed, upgradeVars, chosen>>

ApplyChange(f) ==
  /\ plan # NoPlan /\ plan.approved /\ f \in plan.left \ plan.replaces
  /\ placed' = [placed EXCEPT ![f] = "ours"]
  /\ plan' = [plan EXCEPT !.left = @ \ {f}]
  /\ UNCHANGED <<copy, settings, settingsCopy, removing, inHand, overwritten, installed, upgradeVars, chosen>>

\* The last change is the settings: read, then copied if they are there, then written.
ReadSettings ==
  /\ plan # NoPlan /\ plan.approved /\ plan.left = {} /\ inHand = Unread
  /\ inHand' = settings
  /\ UNCHANGED <<placed, copy, settings, settingsCopy, plan, removing, overwritten, installed, upgradeVars, chosen>>

CopySettings ==
  /\ plan # NoPlan /\ inHand # Unread /\ plan.settings = "merge"
  /\ settingsCopy' = IF settings # Nothing THEN settings ELSE settingsCopy
  /\ plan' = [plan EXCEPT !.settings = IF settings # Nothing THEN "copied" ELSE "new"]
  /\ UNCHANGED <<placed, copy, settings, removing, inHand, overwritten, installed, upgradeVars, chosen>>

\* The keys the plan listed, and ours.
MergedAsPlanned ==
  [k \in (plan.preserves \cap Present(inHand)) \cup {OwnedKey} |->
     IF k = OwnedKey THEN Written ELSE inHand[k]]

\* The file as it was read, not as it was when the plan was made.
Merged ==
  [k \in Present(inHand) \cup {OwnedKey} |-> IF k = OwnedKey THEN Written ELSE inHand[k]]

\* Only now does applyInstall return a record.
MergeSettings ==
  /\ plan # NoPlan /\ inHand # Unread /\ plan.settings \in {"copied", "new"}
  /\ Overwrite(Merged)
  /\ installed' = [backups |-> plan.backups, settings |-> plan.settings = "copied"]
  /\ plan' = NoPlan /\ inHand' = Unread
  /\ UNCHANGED <<placed, copy, settingsCopy, removing, upgradeVars, chosen>>

-----------------------------------------------------------------------------
(* Uninstalling *)

BeginUninstall ==
  /\ plan = NoPlan /\ removing = NoPlan /\ installed # NoInstall
  /\ removing' = [left |-> Shipped, copiedBack |-> {}, written |-> FALSE]
  /\ UNCHANGED <<placed, copy, settings, settingsCopy, plan, inHand, overwritten, installed, upgradeVars, chosen>>

\* A file without a copy goes.
RemoveFile(f) ==
  /\ removing # NoPlan /\ f \in removing.left \ installed.backups
  /\ placed' = [placed EXCEPT ![f] = Nothing]
  /\ removing' = [removing EXCEPT !.left = @ \ {f}]
  /\ UNCHANGED <<copy, settings, settingsCopy, plan, inHand, overwritten, installed, upgradeVars, chosen>>

\* A file with one comes back from it.  An uninstall that was killed has used up
\* the copy, and when it is repeated it ends here each time.
CopyBack(f) ==
  /\ removing # NoPlan /\ f \in (removing.left \cap installed.backups) \ removing.copiedBack
  /\ IF copy[f] = Nothing
     THEN removing' = NoPlan /\ UNCHANGED placed
     ELSE removing' = [removing EXCEPT !.copiedBack = @ \cup {f}] /\ placed' = [placed EXCEPT ![f] = copy[f]]
  /\ UNCHANGED <<copy, settings, settingsCopy, plan, inHand, overwritten, installed, upgradeVars, chosen>>

RemoveCopy(f) ==
  /\ removing # NoPlan /\ f \in removing.copiedBack
  /\ copy' = [copy EXCEPT ![f] = Nothing]
  /\ removing' = [removing EXCEPT !.left = @ \ {f}, !.copiedBack = @ \ {f}]
  /\ UNCHANGED <<placed, settings, settingsCopy, plan, inHand, overwritten, installed, upgradeVars, chosen>>

Uninstalled == removing' = NoPlan /\ installed' = NoInstall /\ inHand' = Unread

\* Then the settings, if they are still there.
ReadInstalled ==
  /\ removing # NoPlan /\ removing.left = {} /\ inHand = Unread
  /\ IF settings = Nothing THEN Uninstalled
     ELSE inHand' = settings /\ UNCHANGED <<removing, installed>>
  /\ UNCHANGED <<placed, copy, settings, settingsCopy, plan, overwritten, upgradeVars, chosen>>

Unmerged == [k \in Present(inHand) \ {OwnedKey} |-> inHand[k]]

\* Our key goes; a file with nothing else left goes too, or comes back as it was
\* copied, which fails when a killed uninstall has used up the copy.
UnmergeSettings ==
  /\ removing # NoPlan /\ inHand # Unread /\ ~removing.written
  /\ CASE DOMAIN Unmerged # {} -> Overwrite(Unmerged)
       [] DOMAIN Unmerged = {} /\ ~installed.settings -> Overwrite(Nothing)
       [] DOMAIN Unmerged = {} /\ installed.settings ->
            IF settingsCopy = Nothing THEN UNCHANGED <<settings, overwritten>> ELSE Overwrite(settingsCopy)
  /\ IF DOMAIN Unmerged = {} /\ installed.settings /\ settingsCopy = Nothing
     THEN removing' = NoPlan /\ inHand' = Unread /\ UNCHANGED installed
     ELSE IF installed.settings
     THEN removing' = [removing EXCEPT !.written = TRUE] /\ UNCHANGED <<inHand, installed>>
     ELSE Uninstalled
  /\ UNCHANGED <<placed, copy, settingsCopy, plan, upgradeVars, chosen>>

RemoveSettingsCopy ==
  /\ removing # NoPlan /\ removing.written
  /\ settingsCopy' = Nothing
  /\ Uninstalled
  /\ UNCHANGED <<placed, copy, settings, plan, overwritten, upgradeVars, chosen>>

Uninstall ==
  \/ BeginUninstall \/ ReadInstalled \/ UnmergeSettings \/ RemoveSettingsCopy
  \/ \E f \in Shipped : RemoveFile(f) \/ CopyBack(f) \/ RemoveCopy(f)

\* Between any two steps the person sets a key or takes one out, ours included.
Sets(k, v) ==
  /\ settings' = [j \in Present(settings) \cup {k} |-> IF j = k THEN v ELSE settings[j]]
  /\ chosen' = [j \in DOMAIN chosen \cup {k} |-> IF j = k THEN v ELSE chosen[j]]
  /\ overwritten' = overwritten \ {k}
  /\ UNCHANGED <<placed, copy, settingsCopy, plan, removing, inHand, installed, upgradeVars>>

TakesOut(k) ==
  /\ k \in Present(settings)
  /\ settings' = [j \in DOMAIN settings \ {k} |-> settings[j]]
  /\ chosen' = [j \in DOMAIN chosen \ {k} |-> chosen[j]]
  /\ overwritten' = overwritten \ {k}
  /\ UNCHANGED <<placed, copy, settingsCopy, plan, removing, inHand, installed, upgradeVars>>

-----------------------------------------------------------------------------
(* Upgrading *)

\* snapshot(): the copy is named by the version, so an earlier one goes.
TakeSnapshot ==
  /\ upgrading = 0
  /\ stateCopy' = stateFile /\ upgrading' = 1 /\ upgraded' = FALSE
  /\ UNCHANGED <<installVars, stateFile, chosen>>

ApplyMigration ==
  /\ upgrading \in Migrations
  /\ stateFile' = [applied |-> stateFile.applied \cup {upgrading},
                   torn |-> stateFile.torn \ {upgrading}]
  /\ upgrading' = upgrading + 1
  /\ UNCHANGED <<installVars, stateCopy, upgraded, chosen>>

\* The loop goes on with the next.
MigrationSkipped ==
  /\ upgrading \in Migrations
  /\ upgrading' = upgrading + 1
  /\ UNCHANGED <<installVars, stateFile, stateCopy, upgraded, chosen>>

\* A migration throws: the snapshot is copied back and the upgrade is over.
MigrationFails ==
  /\ upgrading \in Migrations
  /\ stateFile' = stateCopy /\ upgrading' = 0
  /\ UNCHANGED <<installVars, stateCopy, upgraded, chosen>>

ActivateVersion ==
  /\ upgrading = Cardinality(Migrations) + 1
  /\ upgraded' = TRUE /\ upgrading' = 0
  /\ UNCHANGED <<installVars, stateFile, stateCopy, chosen>>

\* Killed, in the middle of a migration maybe.
UpgradeKilled(torn) ==
  /\ upgrading # 0 /\ torn \subseteq {upgrading} \cap Migrations
  /\ stateFile' = [stateFile EXCEPT !.torn = @ \cup torn]
  /\ upgrading' = 0
  /\ UNCHANGED <<installVars, stateCopy, upgraded, chosen>>

\* cm rollback wants a snapshot, and asks assessRollback about no migration at all.
RollbackSafe == stateCopy # Nothing

RestoreSnapshot ==
  /\ upgrading = 0 /\ RollbackSafe
  /\ stateFile' = stateCopy /\ upgraded' = FALSE
  /\ UNCHANGED <<installVars, stateCopy, upgrading, chosen>>

InstallNext ==
  \/ PlanInstall \/ ApproveInstall \/ Dropped \/ Uninstall
  \/ \E f \in Shipped : BackUp(f) \/ ApplyChange(f)
  \/ ReadSettings \/ CopySettings \/ MergeSettings
  \/ \E k \in SettingsKeys : TakesOut(k) \/ \E v \in Given : Sets(k, v)

UpgradeNext ==
  \/ TakeSnapshot \/ ApplyMigration \/ MigrationFails \/ ActivateVersion \/ RestoreSnapshot
  \/ \E torn \in SUBSET Migrations : UpgradeKilled(torn)

PackagingNext == InstallNext \/ UpgradeNext

PackagingSpec == PackagingInit /\ [][PackagingNext]_packagingVars

-----------------------------------------------------------------------------
(* Properties *)

\* Whenever the person edits, and however often the distribution is planned,
\* killed half-way, installed over itself and removed: what they set under another
\* key than ours is in their settings as they set it (install.ts:3-9), until a
\* write that was decided before they set it.  An upgrade that says it succeeded
\* left no migration out or half done (upgrade.ts:3-5).
SettingsAreTheirs ==
  /\ \A k \in DOMAIN chosen \ (overwritten \cup {OwnedKey}) :
       k \in Present(settings) /\ settings[k] = chosen[k]
  /\ upgraded => stateFile = [applied |-> Migrations, torn |-> {}]

\* install.ts:8-9: a key added in the meantime is left alone.  One added between
\* the read and the write of the settings goes.
AddedLeftAlone ==
  \A k \in DOMAIN chosen \ {OwnedKey} : k \in Present(settings) /\ settings[k] = chosen[k]

\* install.ts:8: uninstall restores exactly what installation changed.  It does
\* not for a file installed over twice, whose copy is then ours, nor for a key
\* the person took out of a file that has no other.
ExactlyRestored ==
  installed = NoInstall /\ plan = NoPlan =>
    /\ \A k \in Present(settings) \ {OwnedKey} : k \in DOMAIN chosen
    /\ \A f \in Shipped : placed[f] # "ours"

\* upgrade.ts:3-5: a failure leaves the previous state.  After a kill, the next
\* upgrade copies the half-migrated file over the only good copy.
SnapshotIsWhole == stateCopy # Nothing => stateCopy.torn = {}
=============================================================================
