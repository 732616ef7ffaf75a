----------------------------- MODULE Providers -----------------------------
(***************************************************************************)
(* Running a provider host for an attempt, packages/providers/src: the     *)
(* capability report and admission (capabilities.ts), the host process and *)
(* its cancellation (host-session.ts), the two adapters (claude.ts,        *)
(* codex.ts) and what they make of each line of output (normalize.ts).     *)
(*                                                                         *)
(* A line stands for what the adapters tell apart of it.  The host prints  *)
(* and exits when it likes; lines wait in the pipe until they are read, and *)
(* an abort or a cancel may come at any moment, before the process exists  *)
(* and after it has ended too.                                             *)
(***************************************************************************)
EXTENDS Naturals, Sequences

CONSTANTS
  HostRuns,                 \* calls of start or resume
  AttemptOf, ProviderOf, \* of each: its attempt, and "claude" or "codex"
  HostAttempts,
  Capabilities, Required,
  Lines,                \* what a host prints: [type, error, limit, denied]
  NoRun,
  MaxUnread, MaxLines   \* bounds: of the pipe, and of what a host prints

ASSUME ProvidersConstantsOK ==
  /\ AttemptOf \in [HostRuns -> HostAttempts] /\ ProviderOf \in [HostRuns -> {"claude", "codex"}]
  /\ Required \subseteq Capabilities /\ NoRun \notin HostRuns
  /\ Lines \subseteq [type : {"session", "claim", "result", "failed", "unknown"},
                      error : BOOLEAN, limit : BOOLEAN, denied : BOOLEAN]

VARIABLES
  observed,  \* capabilities the last report says were observed working
  pc,        \* of each run: idle, detecting, reading, done
  aborted, listening,    \* its AbortSignal, and whether startHostProcess heard it
  child, signalled,           \* its process: none, running, or how it exited; told to end
  pipe, printed,         \* lines not read yet, how many were printed
  reason,    \* `end` in #run
  events,    \* the types of the events it yielded, the reason of `ended` last
  registered, \* #sessions, by attempt
  last       \* the last line it read that says how a turn went

hostVars == <<child, signalled, pipe, printed>>
runVars == <<pc, aborted, listening, reason, events, registered, last>>
providerVars == <<observed, hostVars, runVars>>

Reasons == {"completed_turn", "cancelled", "limit", "error"}
NoLine == [type |-> "unknown", error |-> FALSE, limit |-> FALSE, denied |-> FALSE]

ProvidersTypeOK ==
  /\ observed \subseteq Capabilities
  /\ pc \in [HostRuns -> {"idle", "detecting", "reading", "done"}]
  /\ aborted \in [HostRuns -> BOOLEAN] /\ listening \in [HostRuns -> BOOLEAN]
  /\ child \in [HostRuns -> {"none", "running", "zero", "nonzero", "signal"}]
  /\ signalled \in [HostRuns -> BOOLEAN]
  /\ \A r \in HostRuns : Len(pipe[r]) <= MaxUnread /\ printed[r] \in 0 .. MaxLines
  /\ reason \in [HostRuns -> Reasons]
  /\ registered \in [HostAttempts -> HostRuns \cup {NoRun}]
  /\ \A r \in HostRuns : pc[r] = "reading" => child[r] # "none"

ProvidersInit ==
  /\ observed = {}
  /\ pc = [r \in HostRuns |-> "idle"]
  /\ aborted = [r \in HostRuns |-> FALSE] /\ listening = aborted
  /\ child = [r \in HostRuns |-> "none"] /\ signalled = aborted
  /\ pipe = [r \in HostRuns |-> <<>>] /\ printed = [r \in HostRuns |-> 0]
  /\ reason = [r \in HostRuns |-> "completed_turn"]
  /\ events = [r \in HostRuns |-> <<>>]
  /\ registered = [a \in HostAttempts |-> NoRun]
  /\ last = [r \in HostRuns |-> NoLine]

-----------------------------------------------------------------------------
(* Admission *)

\* version_recognised of detectHost: a file under a trusted root, `--version` of
\* which ended with zero and has a version in its first line.
DetectHost(trusted, zero, parsed) == trusted /\ zero /\ parsed

\* detectCapabilities: observed working only if it is configured, the version
\* of the host is one that is known, and the probe answered as expected.
DetectCapabilities(recognised, configured, answered) ==
  IF recognised THEN configured \cap answered ELSE {}

\* discover(): a report replaces the one before it; what has no probe, such as
\* a browser of its own, is never observed.
Discover(recognised, configured, answered) ==
  /\ observed' = DetectCapabilities(recognised, configured, answered)
  /\ UNCHANGED <<hostVars, runVars>>

\* admitProviderJob, for an account and a billing mode that are in order.
Admitted == Required \subseteq observed

-----------------------------------------------------------------------------
(* The host process *)

\* cancelHostProcess: a process that has no exit code yet is told to end.
CancelHostProcess(r) == signalled' = [signalled EXCEPT ![r] = @ \/ child[r] \in {"running", "signal"}]

HostPrints(r, line) ==
  /\ child[r] = "running" /\ Len(pipe[r]) < MaxUnread /\ printed[r] < MaxLines
  /\ line.type = "failed" => ProviderOf[r] = "codex"
  /\ line.error \/ line.limit \/ line.denied => ProviderOf[r] = "claude" /\ line.type = "result"
  /\ pipe' = [pipe EXCEPT ![r] = Append(@, line)]
  /\ printed' = [printed EXCEPT ![r] = @ + 1]
  /\ UNCHANGED <<observed, child, signalled, runVars>>

\* By itself, killed by the system, or as the signal told it.
HostExits(r, how) ==
  /\ child[r] = "running"
  /\ child' = [child EXCEPT ![r] = how]
  /\ UNCHANGED <<observed, signalled, pipe, printed, runVars>>

-----------------------------------------------------------------------------
(* The adapters *)

StartRun(r) ==
  /\ pc[r] = "idle" /\ Admitted
  /\ pc' = [pc EXCEPT ![r] = "detecting"]
  /\ UNCHANGED <<observed, hostVars, aborted, listening, reason, events, registered, last>>

\* detectHost answered that there is no host: `blocked`, and nothing after it.
NotInstalled(r) ==
  /\ pc[r] = "detecting"
  /\ pc' = [pc EXCEPT ![r] = "done"]
  /\ events' = [events EXCEPT ![r] = <<"blocked">>]
  /\ UNCHANGED <<observed, hostVars, aborted, listening, reason, registered, last>>

\* argvFor throws at an option that would escape the permissions: no event at all.
Refused(r) ==
  /\ pc[r] = "detecting"
  /\ pc' = [pc EXCEPT ![r] = "done"]
  /\ UNCHANGED <<observed, hostVars, aborted, listening, reason, events, registered, last>>

\* startHostProcess listens for an abort; one that came before is not heard.
StartHostProcess(r) ==
  /\ pc[r] = "detecting"
  /\ pc' = [pc EXCEPT ![r] = "reading"]
  /\ child' = [child EXCEPT ![r] = "running"]
  /\ listening' = [listening EXCEPT ![r] = ~aborted[r]]
  /\ registered' = [registered EXCEPT ![AttemptOf[r]] = r]
  /\ UNCHANGED <<observed, signalled, pipe, printed, aborted, reason, events, last>>

Abort(r) ==
  /\ ~aborted[r] /\ pc[r] # "idle"
  /\ aborted' = [aborted EXCEPT ![r] = TRUE]
  /\ IF listening[r] THEN CancelHostProcess(r) ELSE UNCHANGED signalled
  /\ UNCHANGED <<observed, child, pipe, printed, pc, listening, reason, events, registered, last>>

\* cancel(): whichever run the attempt has registered.
Cancel(a) ==
  /\ registered[a] # NoRun
  /\ CancelHostProcess(registered[a])
  /\ UNCHANGED <<observed, child, pipe, printed, runVars>>

\* claudeEndReason, only of a result; the last result counts.
ClaudeEndReason(line) ==
  CASE line.error -> "error" [] line.limit -> "limit" [] OTHER -> "completed_turn"

\* normaliseClaudeLine, normaliseCodexLine: one event or none.  A result with
\* denials is blocked and its usage is not reported.
Normalised(line) ==
  CASE line.type = "unknown" -> <<>>
    [] line.type = "failed" \/ line.denied -> <<"blocked">>
    [] line.type = "result" -> <<"usage">>
    [] OTHER -> <<line.type>>

\* The reason a line of either host leaves behind.
EndAfter(r, line) ==
  CASE ProviderOf[r] = "claude" /\ line.type = "result" -> ClaudeEndReason(line)
    [] ProviderOf[r] = "codex" /\ line.type = "failed" -> "error"
    [] OTHER -> reason[r]

ReadLine(r) ==
  /\ pc[r] = "reading" /\ pipe[r] # <<>>
  /\ LET line == Head(pipe[r]) IN
     /\ reason' = [reason EXCEPT ![r] = EndAfter(r, line)]
     /\ events' = [events EXCEPT ![r] = @ \o Normalised(line)]
     /\ last' = [last EXCEPT ![r] = IF line.type \in {"result", "failed"} THEN line ELSE @]
  /\ pipe' = [pipe EXCEPT ![r] = Tail(@)]
  /\ UNCHANGED <<observed, child, signalled, printed, pc, aborted, listening, registered>>

\* What the lines said, however the process ended.
EndOfLines(r) == reason[r]

EndOf(r) ==
  CASE child[r] = "signal" -> "cancelled"
    [] child[r] = "nonzero" /\ reason[r] = "completed_turn" -> "error"
    [] OTHER -> reason[r]

\* After the last line and the exit: the attempt's entry goes, whoever made it.
End(r) ==
  /\ pc[r] = "reading" /\ pipe[r] = <<>> /\ child[r] # "running"
  /\ pc' = [pc EXCEPT ![r] = "done"]
  /\ reason' = [reason EXCEPT ![r] = EndOf(r)]
  /\ events' = [events EXCEPT ![r] = Append(@, "ended")]
  /\ registered' = [registered EXCEPT ![AttemptOf[r]] = NoRun]
  /\ UNCHANGED <<observed, hostVars, aborted, listening, last>>

ProvidersNext ==
  \/ \E trusted, zero, parsed \in BOOLEAN, answered \in SUBSET Capabilities :
       Discover(DetectHost(trusted, zero, parsed), Capabilities, answered)
  \/ \E r \in HostRuns :
       \/ StartRun(r) \/ NotInstalled(r) \/ Refused(r) \/ StartHostProcess(r) \/ Abort(r) \/ ReadLine(r) \/ End(r)
       \/ \E line \in Lines : HostPrints(r, line)
       \/ \E how \in {"zero", "nonzero", "signal"} : HostExits(r, how)
  \/ \E a \in HostAttempts : Cancel(a)

ProvidersSpec == ProvidersInit /\ [][ProvidersNext]_providerVars

-----------------------------------------------------------------------------
(* Properties *)

\* Whatever the host printed before or after an abort, and however it ended: a
\* run reports a completed turn only if the process was not killed, exited with
\* zero, and no turn it reported on last had failed; `ended` comes once and
\* last, when nothing is unread (claude.ts:139-156, codex.ts:120-143).
CompletedIsClean ==
  \A r \in HostRuns :
    /\ pc[r] = "done" /\ "ended" \in {events[r][i] : i \in DOMAIN events[r]} =>
         /\ pipe[r] = <<>> /\ child[r] \in {"zero", "nonzero", "signal"}
         /\ \A i \in DOMAIN events[r] : events[r][i] = "ended" <=> i = Len(events[r])
         /\ reason[r] = "completed_turn" =>
              child[r] = "zero" /\ ~last[r].error /\ ~last[r].limit
    /\ ProviderOf[r] = "codex" /\ reason[r] = "completed_turn" =>
         \A i \in DOMAIN events[r] : events[r][i] # "blocked" \/ child[r] = "none"

\* A host whose run is aborted is told to end.  An abort that comes while the host
\* is still being looked for is lost, and the host runs on.
AbortReachesHost == \A r \in HostRuns : aborted[r] /\ child[r] = "running" => signalled[r]
=============================================================================
