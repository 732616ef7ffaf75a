---------------------------- MODULE StateStore ----------------------------
(***************************************************************************)
(* The controller's state directory, packages/state/src/{database,events,  *)
(* outbox}.ts and apps/controller/src/events.ts: processes that open it,   *)
(* exclusively or shared, migrate it, write in transactions and stream     *)
(* the event log.  A process has its pid for one life; between two of its  *)
(* calls on the file system or on SQLite any other may run, or it may die. *)
(***************************************************************************)
EXTENDS Naturals, Sequences, FiniteSets, SequencesExt

CONSTANTS
  Openers,
  Exclusive,  \* the openers that mean to own the run loop
  Latest,     \* SCHEMA_VERSION; version 1 is the reference schema
  Effects,    \* idempotency keys of outbox entries
  Material,   \* the effects whose events a quiet console narrates
  MaxEvents,  \* bound of the event log
  Nobody

ASSUME StoreConstantsOK ==
  /\ Exclusive \subseteq Openers /\ Nobody \notin Openers
  /\ Latest \in Nat \ {0} /\ MaxEvents \in Nat /\ Material \subseteq Effects

VARIABLES
  doing,    \* where each opener is
  target,   \* the migration it has to look at next
  lockFile, \* controller.lock: who created it, and whether its pid is inside
  writer,   \* holder of SQLite's write lock
  applied,  \* rows of schema_migrations in the order they were committed
  log,      \* rows of events of one run: <<sequence, effect>>
  outbox,   \* rows of outbox: [effect, settled]
  received  \* what the client's stream has delivered: <<sequence, narrated>>

storeVars == <<doing, target, lockFile, writer, applied, log, outbox, received>>

Versions == 1..Latest  \* the reference schema and MIGRATIONS
Gone == {"refused", "failed", "closed", "dead"}
Doing == {"idle", "claim", "inspect", "remove", "reclaim", "write_pid", "look", "begin",
          "migrating", "ready", "writing"} \cup Gone
NoFile == [by |-> Nobody, pid |-> FALSE]

StoreTypeOK ==
  /\ doing \in [Openers -> Doing]
  /\ target \in [Openers -> 1..(Latest + 1)]
  /\ lockFile \in [by : Openers \cup {Nobody}, pid : BOOLEAN]
  /\ writer \in Openers \cup {Nobody}
  /\ applied \in Seq(Versions)
  /\ log \in Seq(Nat \X Effects)
  /\ \A row \in outbox : row.effect \in Effects /\ row.settled \in BOOLEAN
  /\ received \in Seq(Nat \X BOOLEAN)

StoreInit ==
  /\ doing = [p \in Openers |-> "idle"]
  /\ target = [p \in Openers |-> 1]
  /\ lockFile = NoFile
  /\ writer = Nobody
  /\ applied = <<>> /\ log = <<>> /\ outbox = {} /\ received = <<>>

AppliedVersion == Max({0} \cup ToSet(applied))
LastSequence == Max({0} \cup {log[i][1] : i \in DOMAIN log})
IsAlive(p) == doing[p] \notin Gone \cup {"idle"}
Goes(p, where) == doing' = [doing EXCEPT ![p] = where]
database == <<writer, applied, log, outbox>>

-----------------------------------------------------------------------------
(* The directory lock *)

Open(p) ==
  /\ doing[p] = "idle"
  /\ Goes(p, IF p \in Exclusive THEN "claim" ELSE "look")
  /\ UNCHANGED <<target, lockFile, database, received>>

\* openSync(path, "wx"): creates the file or fails because it exists, the first
\* time to look at the owner, the second time for good.
ClaimDirectory(p) ==
  /\ doing[p] \in {"claim", "reclaim"}
  /\ IF lockFile = NoFile
     THEN lockFile' = [by |-> p, pid |-> FALSE] /\ Goes(p, "write_pid")
     ELSE UNCHANGED lockFile /\ Goes(p, IF doing[p] = "claim" THEN "inspect" ELSE "failed")
  /\ UNCHANGED <<target, database, received>>

\* A file that vanished fails the read; an empty one has no owner to ask.
Inspect(p) ==
  /\ doing[p] = "inspect"
  /\ Goes(p, IF lockFile = NoFile THEN "failed"
             ELSE IF lockFile.pid /\ IsAlive(lockFile.by) THEN "refused" ELSE "remove")
  /\ UNCHANGED <<target, lockFile, database, received>>

\* rmSync removes whatever file has the name by now.
RemoveLock(p) ==
  /\ doing[p] = "remove"
  /\ lockFile' = NoFile
  /\ Goes(p, "reclaim")
  /\ UNCHANGED <<target, database, received>>

\* The pid goes into the file this process created, which may have lost its name.
WritePid(p) ==
  /\ doing[p] = "write_pid"
  /\ lockFile' = IF lockFile.by = p THEN [lockFile EXCEPT !.pid = TRUE] ELSE lockFile
  /\ Goes(p, "look")
  /\ UNCHANGED <<target, database, received>>

Release(p) == lockFile' = IF p \in Exclusive THEN NoFile ELSE lockFile

-----------------------------------------------------------------------------
(* Bootstrap and migrations *)

\* The look outside the transaction; after the last migration the store is open.
Look(p) ==
  /\ doing[p] = "look"
  /\ IF target[p] > Latest THEN Goes(p, "ready") /\ UNCHANGED target
     ELSE IF target[p] <= AppliedVersion
     THEN target' = [target EXCEPT ![p] = @ + 1] /\ UNCHANGED doing
     ELSE Goes(p, "begin") /\ UNCHANGED target
  /\ UNCHANGED <<lockFile, database, received>>

\* BEGIN IMMEDIATE.
Begin(p) ==
  /\ doing[p] = "begin" /\ writer = Nobody
  /\ writer' = p
  /\ Goes(p, "migrating")
  /\ UNCHANGED <<target, lockFile, applied, log, outbox, received>>

\* The retries of withBusyRetry are used up while another process writes.
GivesUp(p) ==
  /\ doing[p] = "begin" /\ writer # Nobody
  /\ Release(p)
  /\ Goes(p, "failed")
  /\ UNCHANGED <<target, database, received>>

MigrateWithoutLooking(p) ==
  /\ doing[p] = "migrating"
  /\ applied' = Append(applied, target[p])
  /\ writer' = Nobody
  /\ target' = [target EXCEPT ![p] = @ + 1]
  /\ Goes(p, "look")
  /\ UNCHANGED <<lockFile, log, outbox, received>>

\* The second look, inside the transaction: work another process did is rolled
\* back here, everything else is committed with its row.
Migrate(p) ==
  /\ doing[p] = "migrating"
  /\ applied' = IF target[p] <= AppliedVersion THEN applied ELSE Append(applied, target[p])
  /\ writer' = Nobody
  /\ target' = [target EXCEPT ![p] = @ + 1]
  /\ Goes(p, "look")
  /\ UNCHANGED <<lockFile, log, outbox, received>>

-----------------------------------------------------------------------------
(* Transactions, the event log and the outbox *)

BeginWrite(p) ==
  /\ doing[p] = "ready" /\ writer = Nobody /\ Len(log) < MaxEvents
  /\ writer' = p
  /\ Goes(p, "writing")
  /\ UNCHANGED <<target, lockFile, applied, log, outbox, received>>

\* appendEvent: the next sequence of the run, read in the transaction.
AppendEvent(e) == log' = Append(log, <<LastSequence + 1, e>>)

\* enqueue: a key that is already there keeps its row.
Enqueue(e) ==
  outbox' = IF \E row \in outbox : row.effect = e THEN outbox
            ELSE outbox \cup {[effect |-> e, settled |-> FALSE]}

Commit(p, e) ==
  /\ doing[p] = "writing"
  /\ AppendEvent(e)
  /\ Enqueue(e)
  /\ writer' = Nobody
  /\ Goes(p, "ready")
  /\ UNCHANGED <<target, lockFile, applied, received>>

\* settle: an UPDATE of its own, whatever the row's status.
Settle(p, row) ==
  /\ doing[p] = "ready" /\ writer = Nobody
  /\ outbox' = (outbox \ {row}) \cup {[row EXCEPT !.settled = TRUE]}
  /\ UNCHANGED <<doing, target, lockFile, writer, applied, log, received>>

Close(p) ==
  /\ doing[p] = "ready"
  /\ Release(p)
  /\ Goes(p, "closed")
  /\ UNCHANGED <<target, database, received>>

\* SQLite rolls back what a dead process had not committed; the lock file stays.
Dies(p) ==
  /\ IsAlive(p)
  /\ writer' = IF writer = p THEN Nobody ELSE writer
  /\ Goes(p, "dead")
  /\ UNCHANGED <<target, lockFile, applied, log, outbox, received>>

-----------------------------------------------------------------------------
(* The event stream *)

LastReceived == IF received = <<>> THEN 0 ELSE Last(received)[1]

\* readEvents: sequence > after, in the order of their sequence.
RowsAfter(after) == {i \in DOMAIN log : log[i][1] > after}
ReadEvents(after) ==
  [n \in 1..Cardinality(RowsAfter(after)) |->
     log[CHOOSE i \in RowsAfter(after) :
           Cardinality({j \in RowsAfter(after) : log[j][1] <= log[i][1]}) = n]]

\* toClientEvent: quiet mode filters what is narrated, not what is sent.
ClientEvents(rows, mode) ==
  [i \in DOMAIN rows |-> <<rows[i][1], mode = "drawer" \/ rows[i][2] \in Material>>]

ReplayAgain(n, mode) ==
  LET missed == ClientEvents(ReadEvents(LastReceived - 1), mode) IN
  /\ n \in 1..Len(missed)
  /\ received' = received \o SubSeq(missed, 1, n)
  /\ UNCHANGED <<doing, target, lockFile, database>>

\* replay after the last event the client saw; the connection may end before
\* all of them arrived.
Replay(n, mode) ==
  LET missed == ClientEvents(ReadEvents(LastReceived), mode) IN
  /\ n \in 1..Len(missed)
  /\ received' = received \o SubSeq(missed, 1, n)
  /\ UNCHANGED <<doing, target, lockFile, database>>

StoreStep(p) ==
  \/ Open(p) \/ ClaimDirectory(p) \/ Inspect(p) \/ RemoveLock(p) \/ WritePid(p)
  \/ Look(p) \/ Begin(p) \/ GivesUp(p) \/ Migrate(p)
  \/ BeginWrite(p) \/ Close(p)
  \/ \E e \in Effects : Commit(p, e)
  \/ \E row \in outbox : Settle(p, row)

StoreNext ==
  \/ \E p \in Openers : StoreStep(p) \/ Dies(p)
  \/ \E n \in 1..MaxEvents, mode \in {"quiet", "drawer"} : Replay(n, mode)

StoreSpec == StoreInit /\ [][StoreNext]_storeVars

-----------------------------------------------------------------------------
(* Properties *)

\* Any number of processes that open a fresh directory together, dying at any
\* point, apply each migration once and in order, and whoever finished opening
\* finds the whole schema (database.ts:306-309).
MigratedOnce ==
  /\ applied = [i \in 1..Len(applied) |-> i]
  /\ \A p \in Openers : doing[p] \in {"ready", "writing"} => Len(applied) = Latest

\* Across writers of several processes, deaths inside a transaction and dropped
\* connections the client receives every event once and in order, is told of
\* every one it has to know of whatever mode it looked in, and an outbox entry
\* exists exactly for what the log says happened (apps/controller/src/
\* events.ts:3-9, outbox.ts:1-3).
StreamContinuous ==
  /\ \A i \in DOMAIN received :
       received[i][1] = i /\ (log[i][2] \in Material => received[i][2])
  /\ {row.effect : row \in outbox} = {log[i][2] : i \in DOMAIN log}

\* database.ts:1, single writer per state directory: at most one process holds
\* the directory exclusively.
OneController ==
  \A p, q \in Exclusive :
    doing[p] \in {"ready", "writing"} /\ doing[q] \in {"ready", "writing"} => p = q
=============================================================================
