------------------------------- MODULE Setup -------------------------------
(***************************************************************************)
(* cm install and cm uninstall, apps/cli/src/setup.ts with                 *)
(* packages/packaging/src/{hosts,autonomy,claude-plugin,codex-hooks,       *)
(* portable,platform,install-health}.ts: one toolkit, and for each host    *)
(* its rules, its skills, its setting, its plugin or hook and one record   *)
(* that says what to put back.  Hosts may share the directory of their     *)
(* skills.  A setting is a key of a file, a JSON file that may not parse or *)
(* a TOML file, or a file of its own; the keys cm sets in one file stand   *)
(* for one value.  The person edits the setting at any time, between the   *)
(* read and the write of cm too, and cm may be killed between two writes.  *)
(***************************************************************************)
EXTENDS Naturals, FiniteSets

CONSTANTS
  Hosts,
  Plugged,    \* hosts that get a plugin, whose skills come with it
  StopHook,   \* hosts whose autonomy comes with a Stop hook
  Owned,      \* hosts whose setting is a file cm writes as a whole
  Json,       \* hosts whose setting is a key of a JSON file
  Legacy,     \* hosts with an install of Client Mode 1.x at the beginning
  SkillsRoot, \* [Hosts -> directories], hostLayout
  NoRoot,
  Selections, \* the lists of hosts --host names
  Options,    \* <<autonomy, portable>> of an install
  Values,     \* what the person may have in a setting
  Unset,      \* no such key, or no such file
  Ours,       \* what applyAutonomy writes
  Untouched,  \* the previous value of an install with --no-autonomy
  NoRecord, NoJob,
  MaxHalted   \* cm is killed while at most this many hosts are halted

BackSteps == {"take_back", "read_back", "put_back", "remove_skills", "remove_rules", "forget"}
Steps == BackSteps \cup {"build", "clean_up", "remove", "rename", "activate", "autonomy", "set",
                        "register", "record"}
Jobs == [kind : {"install", "uninstall"}, hosts : SUBSET Hosts, autonomy : BOOLEAN,
         portable : BOOLEAN, step : Steps, left : SUBSET Hosts, owned : BOOLEAN,
         previous : Values \cup {Ours, Untouched}]
Records == [previous : Values \cup {Ours, Untouched}, toolkit : BOOLEAN, legacy : BOOLEAN]

ASSUME SetupConstantsOK ==
  /\ MaxHalted \in Nat
  /\ NoJob \notin Jobs /\ NoRecord \notin Records /\ Unset \in Values
  /\ Owned \cup Json \cup StopHook \subseteq Hosts /\ Owned \cap Json = {}
  /\ Plugged \subseteq Hosts /\ \A h \in Plugged : SkillsRoot[h] = NoRoot
  /\ Legacy \subseteq Hosts
  /\ Ours \notin Values /\ Untouched \notin Values
  /\ Selections \subseteq (SUBSET Hosts) \ {{}} /\ Options \subseteq BOOLEAN \X BOOLEAN

VARIABLES
  setting,   \* [Hosts -> value of the host's setting]
  parses,    \* [Hosts -> whether its settings file can be read]
  mine,      \* [Hosts -> the value the person chose last]
  rules,     \* hosts whose instructions file has the Client Mode section
  hooked,    \* hosts whose plugin (Claude) or Stop hook (Codex) is registered
  skills,    \* directories with the cm- skills in them
  record,    \* [Hosts -> install-<host>.json]
  toolkit,   \* "$CM_HOME/toolkit": whether it is there
  launcher,  \* whether the cm launcher is there
  job,       \* the cm process at work
  lost,      \* hosts whose value of the person no record keeps, see below
  halted     \* hosts a killed process had not finished with

setupVars == <<setting, parses, mine, rules, hooked, skills, record, toolkit, launcher, job, lost, halted>>
files == <<setting, parses, rules, hooked, skills, record>>

Installed == {h \in Hosts : record[h] # NoRecord}
Roots == {SkillsRoot[h] : h \in Hosts} \ {NoRoot}

SetupTypeOK ==
  /\ setting \in [Hosts -> Values \cup {Ours}] /\ mine \in [Hosts -> Values]
  /\ parses \in [Hosts -> BOOLEAN]
  /\ rules \subseteq Hosts /\ hooked \subseteq Hosts /\ skills \subseteq Roots
  /\ record \in [Hosts -> Records \cup {NoRecord}]
  /\ toolkit \in BOOLEAN /\ launcher \in BOOLEAN
  /\ job \in Jobs \cup {NoJob} /\ (job # NoJob => job.left \subseteq job.hosts)
  /\ lost \subseteq Hosts /\ halted \subseteq Hosts

Record(previous, portable, legacy) == [previous |-> previous, toolkit |-> portable, legacy |-> legacy]

\* The skills of an old install are in a directory of its own, which goes with it.
SetupInit ==
  /\ setting = [h \in Hosts |-> Unset] /\ mine = setting
  /\ parses = [h \in Hosts |-> TRUE]
  /\ rules = Legacy /\ hooked = {} /\ skills = {}
  /\ record = [h \in Hosts |-> IF h \in Legacy THEN Record(Untouched, TRUE, TRUE) ELSE NoRecord]
  /\ toolkit = (Legacy # {}) /\ launcher = toolkit
  /\ job = NoJob /\ lost = {} /\ halted = {}

At(step) == job # NoJob /\ job.step = step
Goto(step, left) == job' = [job EXCEPT !.step = step, !.left = left]
Host == CHOOSE h \in job.left : TRUE

-----------------------------------------------------------------------------
(* Starting, building and swapping the toolkit *)

Start(kind, hosts, autonomy, portable) ==
  /\ job = NoJob
  /\ kind = "uninstall" => hosts \subseteq Installed
  /\ job' = [kind |-> kind, hosts |-> hosts, autonomy |-> autonomy, portable |-> portable,
             step |-> IF kind = "install" /\ portable THEN "build" ELSE "take_back",
             left |-> hosts \cap Installed, owned |-> FALSE, previous |-> Untouched]
  /\ UNCHANGED <<files, mine, toolkit, launcher, lost, halted>>

\* The values an install replaces, without the clean slate before it.
BuildOverInstalled(fails) ==
  /\ At("build")
  /\ IF fails THEN job' = NoJob ELSE Goto("remove", job.hosts)
  /\ UNCHANGED <<files, mine, toolkit, launcher, lost, halted>>

\* Built beside the installed one; a build that fails changes nothing.
Build(fails) ==
  /\ At("build")
  /\ IF fails THEN job' = NoJob ELSE Goto("take_back", job.left)
  /\ UNCHANGED <<files, mine, toolkit, launcher, lost, halted>>

-----------------------------------------------------------------------------
(* Setting and putting back one setting, a read and then a write.  The     *)
(* person's value is lost where no record will have it: "lost" says where. *)

\* The write of what the process read before: an edit in between is overwritten.
WriteSetting(h, value, read) ==
  /\ setting' = [setting EXCEPT ![h] = value]
  /\ parses' = [parses EXCEPT ![h] = TRUE]
  /\ lost' = IF setting[h] # read THEN lost \cup {h} ELSE lost

\* What an install will put in its record.  A file that does not parse is left
\* alone; a file of our own replaces what was there and remembers nothing of it.
SetKey(h) ==
  IF ~parses[h] THEN Untouched
  ELSE IF h \in Owned THEN Unset ELSE setting[h]

\* What is put back: the recorded value, only where the value is still what was
\* written and the file parses.
UnsetKey(h) == IF setting[h] = Ours /\ parses[h] THEN record[h].previous ELSE Untouched

-----------------------------------------------------------------------------
(* Taking back one host after the other *)

\* Another installed host that is not part of this call reads the same skills.
SharedStillNeeded(h) ==
  \E other \in Installed \ (job.hosts \cup {h}) :
    ~record[other].legacy /\ SkillsRoot[other] = SkillsRoot[h]

\* The plugin or the hook goes; of an old install, which is not replayed, only
\* the section, and the settings stay.
Unregister ==
  /\ At("take_back") /\ job.left # {}
  /\ IF record[Host].legacy
     THEN rules' = rules \ {Host} /\ Goto("forget", job.left) /\ UNCHANGED hooked
     ELSE hooked' = hooked \ {Host} /\ Goto("read_back", job.left) /\ UNCHANGED rules
  /\ UNCHANGED <<setting, parses, skills, record, mine, toolkit, launcher, lost, halted>>

\* restoreAutonomy reads.  A value of ours in a file that no longer parses stays,
\* and what it replaced is forgotten with the record.
ReadBack ==
  /\ At("read_back")
  /\ job' = [job EXCEPT !.step = "put_back", !.previous = UnsetKey(Host)]
  /\ lost' = IF setting[Host] = Ours /\ ~parses[Host] /\ record[Host].previous # Untouched
             THEN lost \cup {Host} ELSE lost
  /\ UNCHANGED <<files, mine, toolkit, launcher, halted>>

\* restoreAutonomy writes.
PutBack ==
  /\ At("put_back")
  /\ IF job.previous = Untouched THEN UNCHANGED <<setting, parses, lost>>
     ELSE WriteSetting(Host, job.previous, Ours)
  /\ job' = [job EXCEPT !.step = "remove_skills", !.previous = Untouched]
  /\ UNCHANGED <<rules, hooked, skills, record, mine, toolkit, launcher, halted>>

\* deactivateHost: the skills unless someone else reads them, then the section.
RemoveSkills ==
  /\ At("remove_skills")
  /\ skills' = IF SharedStillNeeded(Host) THEN skills ELSE skills \ {SkillsRoot[Host]}
  /\ Goto("remove_rules", job.left)
  /\ UNCHANGED <<setting, parses, rules, hooked, record, mine, toolkit, launcher, lost, halted>>

RemoveRules ==
  /\ At("remove_rules")
  /\ rules' = rules \ {Host}
  /\ Goto("forget", job.left)
  /\ UNCHANGED <<setting, parses, hooked, skills, record, mine, toolkit, launcher, lost, halted>>

\* The record goes last.
Forget ==
  /\ At("forget")
  /\ record' = [record EXCEPT ![Host] = NoRecord]
  /\ job' = [job EXCEPT !.step = "take_back", !.left = @ \ {Host}, !.owned = @ \/ record[Host].toolkit]
  /\ UNCHANGED <<setting, parses, rules, hooked, skills, mine, toolkit, launcher, lost, halted>>

TakeBack == Unregister \/ ReadBack \/ PutBack \/ RemoveSkills \/ RemoveRules \/ Forget

\* After the last record: an uninstall ends, an install goes on.
TakenBack ==
  /\ At("take_back") /\ job.left = {}
  /\ Goto(CASE job.kind = "uninstall" -> "clean_up"
            [] job.kind = "install" /\ job.portable -> "remove"
            [] OTHER -> "activate", job.hosts)
  /\ UNCHANGED <<files, mine, toolkit, launcher, lost, halted>>

RemoveLaunchers(asked) == launcher' = (launcher /\ ~asked)

\* Launchers and toolkit go with the last record, if a record taken back by
\* this call names them.
CleanUp ==
  /\ At("clean_up")
  /\ LET last == Installed = {} /\ job.owned IN
     RemoveLaunchers(last) /\ toolkit' = (toolkit /\ ~last)
  /\ job' = NoJob
  /\ UNCHANGED <<files, mine, lost, halted>>

RemoveToolkit ==
  /\ At("remove")
  /\ toolkit' = FALSE
  /\ Goto("rename", job.left)
  /\ UNCHANGED <<files, mine, launcher, lost, halted>>

\* The staged build becomes the toolkit, and the launcher names it.
WriteLauncher == launcher' = TRUE

RenameToolkit ==
  /\ At("rename")
  /\ toolkit' = TRUE
  /\ WriteLauncher
  /\ Goto("activate", job.left)
  /\ UNCHANGED <<files, mine, lost, halted>>

-----------------------------------------------------------------------------
(* One host after the other *)

\* activateHost: the skills copied, the section written into the instructions.
ActivateHost ==
  /\ At("activate")
  /\ skills' = skills \cup ({SkillsRoot[Host]} \ {NoRoot})
  /\ rules' = rules \cup {Host}
  /\ Goto("autonomy", job.left)
  /\ UNCHANGED <<setting, parses, hooked, record, mine, toolkit, launcher, lost, halted>>

\* applyAutonomy reads; what it remembers is in the process's own memory.
ApplyAutonomy ==
  /\ At("autonomy")
  /\ job' = [job EXCEPT !.step = "set", !.previous = IF job.autonomy THEN SetKey(Host) ELSE Untouched]
  /\ UNCHANGED <<files, mine, toolkit, launcher, lost, halted>>

\* applyAutonomy writes.
WriteAutonomy ==
  /\ At("set")
  /\ IF job.previous = Untouched THEN UNCHANGED <<setting, parses, lost>>
     ELSE WriteSetting(Host, Ours, job.previous)
  /\ Goto("register", job.left)
  /\ UNCHANGED <<rules, hooked, skills, record, mine, toolkit, launcher, halted>>

\* The plugin of Claude, and with autonomy the Stop hook of Codex.
Register ==
  /\ At("register")
  /\ hooked' = IF Host \in Plugged \/ (job.autonomy /\ Host \in StopHook) THEN hooked \cup {Host} ELSE hooked
  /\ Goto("record", job.left)
  /\ UNCHANGED <<setting, parses, rules, skills, record, mine, toolkit, launcher, lost, halted>>

WriteRecord ==
  /\ At("record")
  /\ record' = [record EXCEPT ![Host] = Record(job.previous, job.portable, FALSE)]
  /\ halted' = halted \ {Host}
  /\ job' = IF job.left = {Host} THEN NoJob
            ELSE [job EXCEPT !.step = "activate", !.left = @ \ {Host}, !.previous = Untouched]
  /\ UNCHANGED <<setting, parses, rules, hooked, skills, mine, toolkit, launcher, lost>>

-----------------------------------------------------------------------------
(* The person and the machine *)

Edit(h, v) ==
  /\ setting' = [setting EXCEPT ![h] = v] /\ mine' = [mine EXCEPT ![h] = v]
  /\ lost' = lost \ {h}
  /\ UNCHANGED <<parses, rules, hooked, skills, record, toolkit, launcher, job, halted>>

\* An edit elsewhere in a JSON file that makes it unreadable, or readable again.
Comment(h) ==
  /\ parses' = [parses EXCEPT ![h] = ~@]
  /\ UNCHANGED <<setting, mine, rules, hooked, skills, record, toolkit, launcher, job, lost, halted>>

Killed ==
  /\ job # NoJob /\ Cardinality(halted) <= MaxHalted
  /\ job' = NoJob
  /\ lost' = IF job.step \in {"register", "record"} /\ job.previous # Untouched THEN lost \cup {Host} ELSE lost
  /\ halted' = halted \cup job.hosts \cup (IF job.step = "rename" THEN Installed ELSE {})
  /\ UNCHANGED <<files, mine, toolkit, launcher>>

Advance == TakeBack \/ TakenBack \/ CleanUp \/ RemoveToolkit \/ RenameToolkit
             \/ ActivateHost \/ ApplyAutonomy \/ WriteAutonomy \/ Register \/ WriteRecord

SetupNext ==
  \/ \E hosts \in Selections, option \in Options : Start("install", hosts, option[1], option[2])
  \/ \E hosts \in Selections : Start("uninstall", hosts, FALSE, FALSE)
  \/ \E fails \in BOOLEAN : Build(fails)
  \/ Advance \/ Killed
  \/ \E h \in Hosts, v \in Values : Edit(h, v)
  \/ \E h \in Json : Comment(h)

SetupSpec == SetupInit /\ [][SetupNext]_setupVars

-----------------------------------------------------------------------------
(* Properties *)

\* checkInstall, for the hosts a record says are installed.
Findings ==
  {<<"TOOLKIT_MISSING", h>> : h \in {g \in Installed : record[g].toolkit /\ ~toolkit}}
    \cup {<<"LAUNCHER_MISSING", h>> : h \in {g \in Installed : record[g].toolkit /\ ~launcher}}
    \cup {<<"SKILLS_MISSING", h>> :
            h \in {g \in Installed : ~record[g].legacy /\ SkillsRoot[g] # NoRoot /\ SkillsRoot[g] \notin skills}}
    \cup {<<"INSTRUCTIONS_MISSING", h>> : h \in Installed \ rules}

\* Over any sequence of installs, reinstalls, partial uninstalls and edits: where
\* our value stands, a record or the running process knows the value the person
\* had, and no other host loses what it was installed with (setup.ts:7-9, 141, 236).
\* The value is lost until the next edit, and only then, when cm is killed between
\* the write and the record, when cm overwrites an edit that came after its read or
\* a file it takes for its own, and when it forgets a file that no longer parses.
PersonsValueKept ==
  /\ \A h \in Hosts \ lost :
       \/ setting[h] = mine[h]
       \/ setting[h] = Ours /\ record[h] # NoRecord /\ record[h].previous = mine[h]
       \/ setting[h] = Ours /\ (At("register") \/ At("record")) /\ Host = h /\ job.previous = mine[h]
  /\ job = NoJob => \A finding \in Findings : finding[2] \in halted

\* autonomy.ts:3, every change is recorded with the value it replaced: of a host
\* cm was not killed at and is not at work on.  See "lost" for the rest.
ReplacedIsRecorded ==
  \A h \in Hosts \ halted :
    (job = NoJob \/ h \notin job.hosts) /\ setting[h] = Ours
      => record[h] # NoRecord /\ record[h].previous = mine[h]

\* setup.ts:8, removes what was created.  An install with --no-portable over
\* one without it forgets who made the toolkit, and no uninstall removes it.
NothingLeftBehind ==
  job = NoJob /\ Installed = {} /\ halted = {} => ~toolkit /\ ~launcher
=============================================================================
