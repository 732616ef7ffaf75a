------------------------------ MODULE Console ------------------------------
(***************************************************************************)
(* The controller's HTTP service, apps/controller/src/{auth,server,        *)
(* routes}.ts, with the service calls behind it: browser tabs exchange a   *)
(* secret for a session, and post answers and messages.  The server        *)
(* authenticates a request when its headers arrive and handles it when its *)
(* body has, with other requests in between; the connection may break      *)
(* before the response is read, and the client posts again with its key.   *)
(***************************************************************************)
EXTENDS Naturals, Sequences, FiniteSets, SequencesExt

CONSTANTS
  Tabs,
  Questions,
  RequestKeys, \* idempotency keys of the client's posts
  Wants,       \* [RequestKeys -> Questions \cup {RunMessage}], what the post is about
  RunMessage,
  MaxVersion   \* bound of the run's version, and of the posts in flight or recorded before another one

ASSUME ConsoleConstantsOK ==
  /\ Wants \in [RequestKeys -> Questions \cup {RunMessage}] /\ RunMessage \notin Questions
  /\ MaxVersion \in Nat \ {0}

VARIABLES
  webSessions, \* #sessions of the store, and whether their time is up
  questions,   \* client_questions: status and state_version
  runVersion,  \* runs.state_version
  inFlight,    \* authenticated requests whose body is still being read
  rows,        \* client_answers and run_messages in the order they were inserted
  stored,      \* client_requests, by key
  queued,      \* outbox entries, by key
  told         \* the last response the client read for a key

consoleVars == <<webSessions, questions, runVersion, inFlight, rows, stored, queued, told>>

Asked(status) == {q \in Questions : questions[q].status = status}

ConsoleTypeOK ==
  /\ webSessions \in [Tabs -> {"none", "live", "stale"}]
  /\ \A q \in Questions : questions[q].status \in {"NONE", "OPEN", "SUPERSEDED", "ANSWERED"}
                          /\ questions[q].version \in Nat
  /\ runVersion \in 1..MaxVersion
  /\ \A c \in inFlight : c.tab \in Tabs /\ c.key \in RequestKeys /\ c.match \in 1..MaxVersion
  /\ rows \in Seq(RequestKeys) /\ stored \subseteq RequestKeys /\ queued \subseteq RequestKeys
  /\ told \in [RequestKeys -> {"nothing", "recorded", "refused"}]

ConsoleInit ==
  /\ webSessions = [t \in Tabs |-> "none"]
  /\ questions = [q \in Questions |-> [status |-> "NONE", version |-> 1]]
  /\ runVersion = 1
  /\ inFlight = {} /\ rows = <<>> /\ stored = {} /\ queued = {}
  /\ told = [k \in RequestKeys |-> "nothing"]

-----------------------------------------------------------------------------
(* Sessions *)

\* exchange: the secret stays valid, so every tab gets a session of its own.
Exchange(t) ==
  /\ webSessions[t] = "none"
  /\ webSessions' = [webSessions EXCEPT ![t] = "live"]
  /\ UNCHANGED <<questions, runVersion, inFlight, rows, stored, queued, told>>

TimeIsUp(t) ==
  /\ webSessions[t] = "live"
  /\ webSessions' = [webSessions EXCEPT ![t] = "stale"]
  /\ UNCHANGED <<questions, runVersion, inFlight, rows, stored, queued, told>>

\* authenticate: a session whose time is up is deleted by the request that finds it.
Authenticate(t) ==
  /\ webSessions[t] # "none"
  /\ webSessions' = IF webSessions[t] = "stale" THEN [webSessions EXCEPT ![t] = "none"] ELSE webSessions

\* The headers of a post; the handler waits for the body.
Arrive(t, k, match) ==
  /\ Authenticate(t)
  /\ inFlight' = IF webSessions[t] = "live"
                 THEN inFlight \cup {[tab |-> t, key |-> k, match |-> match]} ELSE inFlight
  /\ UNCHANGED <<questions, runVersion, rows, stored, queued, told>>

-----------------------------------------------------------------------------
(* Handlers *)

\* askQuestion: one question is open, the others are recorded behind it.
Ask(q) ==
  /\ questions[q].status = "NONE"
  /\ questions' = [questions EXCEPT ![q].status = IF Asked("OPEN") = {} THEN "OPEN" ELSE "SUPERSEDED"]
  /\ UNCHANGED <<webSessions, runVersion, inFlight, rows, stored, queued, told>>

\* The run moves on under other components.
RunMoves ==
  /\ runVersion < MaxVersion
  /\ runVersion' = runVersion + 1
  /\ UNCHANGED <<webSessions, questions, inFlight, rows, stored, queued, told>>

\* The response reaches the client, or the connection is gone.
Reply(c, outcome, read) == told' = IF read THEN [told EXCEPT ![c.key] = outcome] ELSE told

Refuse(c, read) ==
  /\ Reply(c, "refused", read)
  /\ UNCHANGED <<questions, rows, stored, queued>>

Store(k) ==
  /\ stored' = stored \cup {k}  \* INSERT OR IGNORE
  /\ rows' = Append(rows, k)
  /\ queued' = queued \cup {k}  \* enqueue returns the entry that is there

AnswerableWhatever(q, match) == questions[q].status # "NONE" /\ questions[q].version = match
Answerable(q, match) == questions[q].status = "OPEN" /\ questions[q].version = match

AnswerQuestion(c, read) ==
  LET q == Wants[c.key] IN
  /\ q # RunMessage
  /\ inFlight' = inFlight \ {c}
  /\ IF Answerable(q, c.match)
     THEN /\ Store(c.key)
          /\ questions' = [questions EXCEPT ![q] = [status |-> "ANSWERED", version |-> @.version + 1]]
          /\ Reply(c, "recorded", read)
     ELSE Refuse(c, read)
  /\ UNCHANGED <<webSessions, runVersion>>

RunAccepts(match) == match = runVersion

\* A message leaves the version it was checked against as it was.
SubmitMessage(c, read) ==
  /\ Wants[c.key] = RunMessage
  /\ inFlight' = inFlight \ {c}
  /\ IF RunAccepts(c.match)
     THEN Store(c.key) /\ Reply(c, "recorded", read) /\ UNCHANGED questions
     ELSE Refuse(c, read)
  /\ UNCHANGED <<webSessions, runVersion>>

\* The body breaks off or is too large.
BadRequest(c) ==
  /\ inFlight' = inFlight \ {c}
  /\ UNCHANGED <<webSessions, questions, runVersion, rows, stored, queued, told>>

ConsoleNext ==
  \/ \E t \in Tabs : \/ Exchange(t) \/ TimeIsUp(t)
                     \/ \E k \in RequestKeys, match \in 1..MaxVersion : Len(rows) + Cardinality(inFlight) <= MaxVersion /\ Arrive(t, k, match)
  \/ \E q \in Questions : Ask(q)
  \/ \E c \in inFlight : \/ BadRequest(c)
                         \/ \E read \in BOOLEAN : AnswerQuestion(c, read) \/ SubmitMessage(c, read)
  \/ RunMoves

ConsoleSpec == ConsoleInit /\ [][ConsoleNext]_consoleVars

-----------------------------------------------------------------------------
(* Properties *)

\* GET questions shows the open question and counts the ones behind it.
Visible == [questions |-> Asked("OPEN"), queued |-> Cardinality(Asked("SUPERSEDED"))]

\* Whatever tabs post, twice, at the same time or after their session ended: a
\* question has one answer, exactly when it is ANSWERED, the client sees one
\* question at most, and what it was told is recorded has its request and its
\* outbox entry (lifecycle.ts:353, routes.ts:31, outbox.ts:26).
AnswersStand ==
  /\ \A q \in Questions :
       Cardinality({i \in DOMAIN rows : Wants[rows[i]] = q}) = IF q \in Asked("ANSWERED") THEN 1 ELSE 0
  /\ Cardinality(Visible.questions) <= 1
  /\ ToSet(rows) = stored /\ stored = queued
  /\ \A k \in RequestKeys : told[k] = "recorded" => k \in queued

\* A message posted again with its key is inserted again: the key is unique in
\* the outbox and nowhere else (lifecycle.ts:399, outbox.ts:26).
MessagesOnce == IsInjective(rows)
=============================================================================
