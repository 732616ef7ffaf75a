-------------------------- MODULE ControllerProofs --------------------------
(***************************************************************************)
(* Proofs about the parts of the controller that stand on their own: its   *)
(* state directory and event stream (StateStore), the answers of the       *)
(* console (Console), integration and repairs (Delivery), and the task     *)
(* ledger from session to session (Continuity).                            *)
(***************************************************************************)
EXTENDS StateStore, Console, Delivery, Continuity, FiniteSetTheorems, SequenceTheorems,
        WellFoundedInduction, TLAPS

-----------------------------------------------------------------------------
(***************************************************************************)
(* StateStore                                                              *)
(***************************************************************************)

\* Migrations are applied in order, nobody looks at one that is more than one
\* ahead of them, and whoever came to the end of the list left none out.
MigrationInv ==
  /\ \A i \in 1..Len(applied) : applied[i] = i
  /\ \A p \in Openers : target[p] <= Len(applied) + 1
  /\ \A p \in Openers : doing[p] \in {"begin", "migrating"} => target[p] <= Latest
  /\ \A p \in Openers : doing[p] \in {"ready", "writing"} => Len(applied) = Latest

\* Events are numbered without a gap, what a client received is a beginning of
\* them, and the outbox has an entry for each of their effects and no other.
StreamInv ==
  /\ \A i \in 1..Len(log) : log[i][1] = i
  /\ Len(received) <= Len(log)
  /\ \A i \in 1..Len(received) :
       received[i][1] = i /\ (log[i][2] \in Material => received[i][2])
  /\ {row.effect : row \in outbox} = {log[i][2] : i \in DOMAIN log}

StoreInv == StoreTypeOK /\ MigrationInv /\ StreamInv

\* The version a database is at is the number of migrations in it.
LEMMA MaxOfInterval ==
  ASSUME NEW n \in Nat, NEW S, S = 0..n
  PROVE  Max(S) = n
<1>1. n \in S /\ \A y \in S : n >= y
  OBVIOUS
<1>2. \A x \in S : (\A y \in S : x >= y) => x = n
  OBVIOUS
<1>3. Max(S) \in S /\ \A y \in S : Max(S) >= y
  BY <1>1 DEF Max
<1> QED BY <1>2, <1>3

LEMMA VersionIsLength ==
  ASSUME StoreTypeOK, MigrationInv
  PROVE  AppliedVersion = Len(applied) /\ Len(applied) \in Nat
<1>1. Len(applied) \in Nat /\ DOMAIN applied = 1..Len(applied)
  BY LenProperties DEF StoreTypeOK
<1>2. {0} \cup ToSet(applied) = 0..Len(applied)
  BY <1>1 DEF ToSet, MigrationInv
<1> QED BY <1>1, <1>2, MaxOfInterval DEF AppliedVersion

LEMMA LastIsLength ==
  ASSUME StoreTypeOK, StreamInv
  PROVE  LastSequence = Len(log) /\ Len(log) \in Nat
<1>1. Len(log) \in Nat /\ DOMAIN log = 1..Len(log)
  BY LenProperties DEF StoreTypeOK
<1>2. {0} \cup {log[i][1] : i \in DOMAIN log} = 0..Len(log)
  BY <1>1 DEF StreamInv
<1> QED BY <1>1, <1>2, MaxOfInterval DEF LastSequence

\* An interval of naturals has as many members as its bounds are apart.
LEMMA IntervalCount ==
  ASSUME NEW a \in Nat, NEW b \in Nat, a <= b
  PROVE  Cardinality((a + 1)..b) = b - a
<1>1. a + 1 \in Int /\ b \in Int
  OBVIOUS
<1>2. Cardinality((a + 1)..b) = IF a + 1 > b THEN 0 ELSE b - (a + 1) + 1
  BY <1>1, FS_Interval
<1> QED BY <1>2

\* What readEvents yields of a log without gaps.
LEMMA ReadsTheRest ==
  ASSUME StoreTypeOK, StreamInv, NEW after \in 0..Len(log)
  PROVE  ReadEvents(after) = [n \in 1..(Len(log) - after) |-> log[after + n]]
<1> DEFINE rest == RowsAfter(after)
           place(i) == Cardinality({j \in rest : log[j][1] <= log[i][1]})
<1>1. Len(log) \in Nat /\ DOMAIN log = 1..Len(log) /\ after \in Nat
  BY LenProperties DEF StoreTypeOK
<1>2. rest = (after + 1)..Len(log)
  BY <1>1 DEF RowsAfter, StreamInv
<1>3. Cardinality(rest) = Len(log) - after
  BY <1>1, <1>2, IntervalCount
<1>4. \A i \in rest : place(i) = i - after
  <2>1. SUFFICES ASSUME NEW i \in rest  PROVE place(i) = i - after
    OBVIOUS
  <2>2. {j \in rest : log[j][1] <= log[i][1]} = (after + 1)..i
    BY <1>1, <1>2 DEF StreamInv
  <2>3. i \in Nat /\ after <= i
    BY <1>1, <1>2
  <2>4. Cardinality((after + 1)..i) = i - after
    BY <1>1, <2>3, IntervalCount
  <2> QED BY <2>2, <2>4
<1>5. ReadEvents(after) =
        [n \in 1..Cardinality(rest) |-> log[CHOOSE i \in rest : place(i) = n]]
  BY DEF ReadEvents
<1> HIDE DEF rest, place
<1>6. ASSUME NEW n \in 1..(Len(log) - after)
      PROVE  (CHOOSE i \in rest : place(i) = n) = after + n
  <2>1. after + n \in rest /\ place(after + n) = n
    BY <1>1, <1>2, <1>4
  <2>2. \A i \in rest : place(i) = n => i = after + n
    BY <1>1, <1>2, <1>4
  <2> QED BY <2>1, <2>2
<1> QED BY <1>3, <1>5, <1>6

LEMMA StoreInitInv == StoreInit => StoreInv
<1> SUFFICES ASSUME StoreInit PROVE StoreInv
  OBVIOUS
<1>1. StoreTypeOK
  BY StoreConstantsOK DEF StoreInit, StoreTypeOK, Doing, NoFile, Gone
<1>2. MigrationInv
  BY DEF StoreInit, MigrationInv
<1>3. StreamInv
  BY DEF StoreInit, StreamInv
<1> QED BY <1>1, <1>2, <1>3 DEF StoreInv

\* No more migrations are applied than there are.
LEMMA AppliedAtMostLatest ==
  ASSUME StoreTypeOK, MigrationInv
  PROVE  Len(applied) <= Latest
<1>1. Len(applied) \in Nat /\ Latest \in Nat
  BY VersionIsLength, StoreConstantsOK
<1>2. CASE Len(applied) = 0
  BY <1>1, <1>2
<1>3. CASE Len(applied) > 0
  <2>1. Len(applied) \in 1..Len(applied) /\ applied \in Seq(Versions)
    BY <1>1, <1>3 DEF StoreTypeOK
  <2>2. applied[Len(applied)] \in Versions
    BY <2>1, ElementOfSeq
  <2>3. applied[Len(applied)] = Len(applied)
    BY <2>1 DEF MigrationInv
  <2>4. Len(applied) \in Versions
    BY <2>2, <2>3
  <2> QED BY <1>1, <2>4 DEF Versions
<1> QED BY <1>1, <1>2, <1>3

\* A second look in the transaction applies the migration that is due or none.
LEMMA MigrateKeeps ==
  ASSUME StoreTypeOK, MigrationInv, NEW p \in Openers, Migrate(p)
  PROVE  /\ applied' \in Seq(Versions) /\ MigrationInv'
         /\ target' \in [Openers -> 1..(Latest + 1)]
<1> DEFINE n == Len(applied)
<1>1. /\ n \in Nat /\ AppliedVersion = n /\ Latest \in Nat
      /\ target[p] \in 1..(Latest + 1) /\ target[p] <= Latest /\ target[p] <= n + 1
      /\ \A q \in Openers : target[q] \in 1..(Latest + 1) /\ target[q] <= n + 1
      /\ applied \in Seq(Versions) /\ target[p] \in Versions /\ n <= Latest
      /\ \A i \in 1..n : applied[i] = i
      /\ \A q \in Openers : doing[q] \in {"ready", "writing"} => n = Latest
      /\ \A q \in Openers : doing[q] \in {"begin", "migrating"} => target[q] <= Latest
  <2>1. n \in Nat /\ AppliedVersion = n /\ Latest \in Nat /\ n <= Latest
    BY VersionIsLength, AppliedAtMostLatest, StoreConstantsOK
  <2>2. doing[p] = "migrating"
    BY DEF Migrate
  <2>3. applied \in Seq(Versions) /\ target \in [Openers -> 1..(Latest + 1)]
    BY DEF StoreTypeOK
  <2> QED BY <2>1, <2>2, <2>3 DEF MigrationInv, Versions
<1>2. /\ target' = [target EXCEPT ![p] = @ + 1] /\ doing' = [doing EXCEPT ![p] = "look"]
      /\ target \in [Openers -> 1..(Latest + 1)] /\ doing \in [Openers -> Doing]
  BY DEF Migrate, Goes, StoreTypeOK
<1>3. CASE target[p] <= n
  <2>1. applied' = applied
    BY <1>1, <1>3 DEF Migrate
  <2> QED BY <1>1, <1>2, <1>3, <2>1 DEF MigrationInv
<1>4. CASE target[p] > n
  <2>1. applied' = Append(applied, n + 1) /\ target[p] = n + 1 /\ n < Latest
    BY <1>1, <1>4 DEF Migrate
  <2>2. n + 1 \in Versions
    BY <1>1, <2>1
  <2>3. /\ applied' \in Seq(Versions) /\ Len(applied') = n + 1
        /\ \A i \in 1..(n + 1) : applied'[i] = i
    BY <1>1, <2>1, <2>2
  <2> HIDE DEF n
  <2>4. \A q \in Openers : doing'[q] \in {"begin", "migrating", "ready", "writing"} =>
          doing[q] = doing'[q] /\ target'[q] = target[q]
    BY <1>2
  <2> QED BY <1>1, <1>2, <2>1, <2>3, <2>4 DEF MigrationInv
<1> QED BY <1>1, <1>3, <1>4

\* Where each opener goes from here.
LEMMA ControlKeeps ==
  ASSUME StoreInv, [StoreNext]_storeVars
  PROVE  /\ doing' \in [Openers -> Doing]
         /\ lockFile' \in [by : Openers \cup {Nobody}, pid : BOOLEAN]
         /\ writer' \in Openers \cup {Nobody}
<1> DEFINE Files == [by : Openers \cup {Nobody}, pid : BOOLEAN]
<1>1. /\ doing \in [Openers -> Doing] /\ lockFile \in Files /\ NoFile \in Files
      /\ writer \in Openers \cup {Nobody}
  BY DEF StoreInv, StoreTypeOK, NoFile
<1>2. ASSUME NEW p \in Openers
      PROVE  [by |-> p, pid |-> FALSE] \in Files /\ [lockFile EXCEPT !.pid = TRUE] \in Files
  BY <1>1
<1>3. ASSUME NEW p \in Openers, NEW to \in Doing PROVE [doing EXCEPT ![p] = to] \in [Openers -> Doing]
  BY <1>1
<1>4. {"claim", "inspect", "remove", "reclaim", "write_pid", "look", "begin", "migrating", "ready",
       "writing", "refused", "failed", "closed", "dead"} \subseteq Doing
  BY DEF Doing, Gone
<1> HIDE DEF Files
<1>5. ASSUME NEW p \in Openers, Open(p) \/ ClaimDirectory(p)
      PROVE  doing' \in [Openers -> Doing] /\ writer' = writer /\ lockFile' \in Files
  BY <1>1, <1>2, <1>3, <1>4, <1>5 DEF Open, ClaimDirectory, Goes, database
<1>6. ASSUME NEW p \in Openers, Inspect(p) \/ RemoveLock(p) \/ WritePid(p)
      PROVE  doing' \in [Openers -> Doing] /\ writer' = writer /\ lockFile' \in Files
  <2>1. doing' \in [Openers -> Doing]
    BY <1>3, <1>4, <1>6 DEF Inspect, RemoveLock, WritePid, Goes
  <2>2. writer' = writer
    BY <1>6 DEF Inspect, RemoveLock, WritePid, database
  <2>3. lockFile' \in {lockFile, NoFile, [lockFile EXCEPT !.pid = TRUE]}
    BY <1>6 DEF Inspect, RemoveLock, WritePid
  <2> QED BY <1>1, <1>2, <2>1, <2>2, <2>3
<1>7. ASSUME NEW p \in Openers,
             Look(p) \/ Begin(p) \/ GivesUp(p) \/ Migrate(p) \/ BeginWrite(p)
      PROVE  /\ doing' \in [Openers -> Doing] /\ writer' \in Openers \cup {Nobody}
             /\ lockFile' \in Files
  BY <1>1, <1>3, <1>4, <1>7
  DEF Look, Begin, GivesUp, Migrate, BeginWrite, Goes, Release, database
<1>8. ASSUME NEW p \in Openers, Close(p) \/ Dies(p) \/ \E e \in Effects : Commit(p, e)
      PROVE  /\ doing' \in [Openers -> Doing] /\ writer' \in Openers \cup {Nobody}
             /\ lockFile' \in Files
  BY <1>1, <1>3, <1>4, <1>8 DEF Close, Dies, Commit, Goes, Release, database
<1>9. ASSUME NEW p \in Openers, NEW row \in outbox, Settle(p, row)
      PROVE  <<doing, lockFile, writer>>' = <<doing, lockFile, writer>>
  BY <1>9 DEF Settle
<1>10. ASSUME NEW n \in 1..MaxEvents, NEW mode \in {"quiet", "drawer"}, Replay(n, mode)
       PROVE  <<doing, lockFile, writer>>' = <<doing, lockFile, writer>>
  BY <1>10 DEF Replay, database
<1> QED
  BY <1>1, <1>5, <1>6, <1>7, <1>8, <1>9, <1>10 DEF StoreNext, StoreStep, storeVars, Files

\* The migrations, whoever looks, applies or gives up.
LEMMA MigrationKeeps ==
  ASSUME StoreInv, [StoreNext]_storeVars
  PROVE  /\ applied' \in Seq(Versions) /\ MigrationInv'
         /\ target' \in [Openers -> 1..(Latest + 1)]
<1>1. /\ StoreTypeOK /\ MigrationInv /\ applied \in Seq(Versions)
      /\ doing \in [Openers -> Doing] /\ target \in [Openers -> 1..(Latest + 1)]
      /\ Latest \in Nat /\ Len(applied) \in Nat /\ AppliedVersion = Len(applied)
      /\ Len(applied) <= Latest
  BY VersionIsLength, AppliedAtMostLatest, StoreConstantsOK DEF StoreInv, StoreTypeOK
<1>2. ASSUME NEW p \in Openers, Migrate(p)
      PROVE  /\ applied' \in Seq(Versions) /\ MigrationInv'
             /\ target' \in [Openers -> 1..(Latest + 1)]
  BY <1>1, <1>2, MigrateKeeps
<1>3. ASSUME NEW p \in Openers, Look(p)
      PROVE  /\ applied' \in Seq(Versions) /\ MigrationInv'
             /\ target' \in [Openers -> 1..(Latest + 1)]
  <2>1. applied' = applied /\ doing[p] = "look"
    BY <1>3 DEF Look, database
  <2>2. CASE target[p] > Latest
    <3>1. doing' = [doing EXCEPT ![p] = "ready"] /\ target' = target
      BY <1>3, <2>2 DEF Look, Goes
    <3>2. Len(applied) = Latest
      BY <1>1, <2>2 DEF MigrationInv
    <3> QED BY <1>1, <2>1, <3>1, <3>2 DEF MigrationInv
  <2>3. CASE target[p] <= Latest /\ target[p] <= Len(applied)
    <3>1. doing' = doing /\ target' = [target EXCEPT ![p] = @ + 1]
      BY <1>1, <1>3, <2>3 DEF Look
    <3> QED BY <1>1, <2>1, <2>3, <3>1 DEF MigrationInv
  <2>4. CASE target[p] <= Latest /\ target[p] > Len(applied)
    <3>1. doing' = [doing EXCEPT ![p] = "begin"] /\ target' = target
      BY <1>1, <1>3, <2>4 DEF Look, Goes
    <3> QED BY <1>1, <2>1, <2>4, <3>1 DEF MigrationInv
  <2> QED BY <1>1, <2>2, <2>3, <2>4
<1>4. ASSUME NEW p \in Openers,
             \/ Open(p) \/ ClaimDirectory(p) \/ Inspect(p) \/ RemoveLock(p) \/ WritePid(p)
             \/ Begin(p) \/ GivesUp(p) \/ BeginWrite(p) \/ Close(p) \/ Dies(p)
             \/ \E e \in Effects : Commit(p, e)
             \/ \E row \in outbox : Settle(p, row)
      PROVE  /\ applied' = applied /\ target' = target
             /\ \A q \in Openers :
                  /\ doing'[q] \in {"begin", "migrating"} => doing[q] \in {"begin", "migrating"}
                  /\ doing'[q] \in {"ready", "writing"} => doing[q] \in {"ready", "writing"}
  BY <1>1, <1>4
  DEF Open, ClaimDirectory, Inspect, RemoveLock, WritePid, Begin, GivesUp, BeginWrite,
      Close, Dies, Commit, Settle, Goes, database
<1>5. ASSUME NEW n \in 1..MaxEvents, NEW mode \in {"quiet", "drawer"}, Replay(n, mode)
      PROVE  <<applied, target, doing>>' = <<applied, target, doing>>
  BY <1>5 DEF Replay, database
<1> QED
  <2>1. CASE applied' = applied /\ target' = target
             /\ \A q \in Openers :
                  /\ doing'[q] \in {"begin", "migrating"} => doing[q] \in {"begin", "migrating"}
                  /\ doing'[q] \in {"ready", "writing"} => doing[q] \in {"ready", "writing"}
    BY <1>1, <2>1 DEF MigrationInv
  <2> QED BY <1>2, <1>3, <1>4, <1>5, <2>1 DEF StoreNext, StoreStep, storeVars

\* A committed event has the next number, and its effect is in the outbox.
LEMMA CommitKeeps ==
  ASSUME StoreTypeOK, StreamInv, NEW e \in Effects, AppendEvent(e), Enqueue(e),
         received' = received
  PROVE  /\ log' \in Seq(Nat \X Effects) /\ StreamInv'
         /\ \A row \in outbox' : row.effect \in Effects /\ row.settled \in BOOLEAN
<1> DEFINE n == Len(log)
<1>1. n \in Nat /\ LastSequence = n /\ log \in Seq(Nat \X Effects) /\ DOMAIN log = 1..n
  BY LastIsLength, LenProperties DEF StoreTypeOK
<1>2. log' = Append(log, <<n + 1, e>>) /\ <<n + 1, e>> \in Nat \X Effects
  BY <1>1 DEF AppendEvent
<1>3. /\ log' \in Seq(Nat \X Effects) /\ Len(log') = n + 1 /\ DOMAIN log' = 1..(n + 1)
      /\ \A i \in 1..n : log'[i] = log[i]
      /\ log'[n + 1] = <<n + 1, e>>
  BY <1>1, <1>2
<1> HIDE DEF n
<1>4. \A i \in 1..(n + 1) : i \in 1..n \/ i = n + 1
  BY <1>1
<1>5. {log'[i][2] : i \in DOMAIN log'} = {log[i][2] : i \in DOMAIN log} \cup {e}
  <2>1. ASSUME NEW i \in 1..(n + 1) PROVE log'[i][2] \in {log[j][2] : j \in 1..n} \cup {e}
    <3>1. CASE i \in 1..n
      <4>1. log'[i][2] = log[i][2]
        BY <1>3, <3>1
      <4> QED BY <3>1, <4>1
    <3>2. CASE i = n + 1
      <4>1. log'[i][2] = e
        BY <1>3, <3>2
      <4> QED BY <4>1
    <3> QED BY <1>4, <3>1, <3>2
  <2>2. ASSUME NEW i \in 1..n PROVE log[i][2] \in {log'[j][2] : j \in 1..(n + 1)}
    <3>1. i \in 1..(n + 1) /\ log'[i] = log[i]
      BY <1>1, <1>3
    <3> QED BY <3>1
  <2>3. e \in {log'[j][2] : j \in 1..(n + 1)}
    <3>1. n + 1 \in 1..(n + 1) /\ log'[n + 1][2] = e
      BY <1>1, <1>3
    <3> QED BY <3>1
  <2>4. {log'[j][2] : j \in 1..(n + 1)} = {log[j][2] : j \in 1..n} \cup {e}
    BY <2>1, <2>2, <2>3
  <2>5. /\ {log[j][2] : j \in 1..n} = {log[i][2] : i \in DOMAIN log}
        /\ {log'[j][2] : j \in 1..(n + 1)} = {log'[i][2] : i \in DOMAIN log'}
    BY <1>1, <1>3
  <2> QED BY <2>4, <2>5
<1>6. /\ {row.effect : row \in outbox'} = {log'[i][2] : i \in DOMAIN log'}
      /\ \A row \in outbox' : row.effect \in Effects /\ row.settled \in BOOLEAN
  <2>1. CASE \E row \in outbox : row.effect = e
    <3>1. outbox' = outbox /\ e \in {row.effect : row \in outbox}
      BY <2>1 DEF Enqueue
    <3> QED BY <1>5, <3>1 DEF StreamInv, StoreTypeOK
  <2>2. CASE ~\E row \in outbox : row.effect = e
    <3> DEFINE new == [effect |-> e, settled |-> FALSE]
    <3>1. outbox' = outbox \cup {new} /\ new.effect = e /\ new.settled = FALSE
      BY <2>2 DEF Enqueue
    <3> HIDE DEF new
    <3>2. {row.effect : row \in outbox'} = {row.effect : row \in outbox} \cup {e}
      BY <3>1
    <3> QED BY <1>5, <3>1, <3>2 DEF StreamInv, StoreTypeOK
  <2> QED BY <2>1, <2>2
<1>7. ASSUME NEW i \in 1..Len(log') PROVE log'[i][1] = i
  <2>1. CASE i = n + 1
    BY <1>3, <2>1
  <2>2. CASE i \in 1..n
    BY <1>3, <2>2 DEF StreamInv, n
  <2> QED BY <1>3, <1>4, <2>1, <2>2
<1>8. /\ Len(received') <= Len(log')
      /\ \A i \in 1..Len(received') :
           received'[i][1] = i /\ (log'[i][2] \in Material => received'[i][2])
  <2>1. Len(received) \in Nat /\ Len(received) <= n
    BY LenProperties DEF StoreTypeOK, StreamInv, n
  <2>2. \A i \in 1..Len(received) : i \in 1..n
    BY <1>1, <2>1
  <2> QED BY <1>1, <1>3, <2>1, <2>2 DEF StreamInv
<1> QED BY <1>3, <1>6, <1>7, <1>8 DEF StreamInv

\* A replay continues where the client's stream ended, wherever it breaks off.
LEMMA ReplayKeeps ==
  ASSUME StoreTypeOK, StreamInv, NEW n \in 1..MaxEvents, NEW mode \in {"quiet", "drawer"},
         Replay(n, mode)
  PROVE  received' \in Seq(Nat \X BOOLEAN) /\ StreamInv'
<1> DEFINE had == Len(received)
           left == Len(log) - had
           unseen == ReadEvents(LastReceived)
           missed == ClientEvents(unseen, mode)
           sent == SubSeq(missed, 1, n)
<1>1. /\ had \in Nat /\ Len(log) \in Nat /\ had <= Len(log) /\ left \in Nat
      /\ received \in Seq(Nat \X BOOLEAN) /\ log \in Seq(Nat \X Effects)
      /\ DOMAIN log = 1..Len(log) /\ n \in Nat
  BY LenProperties, StoreConstantsOK DEF StoreTypeOK, StreamInv
<1>2. LastReceived = had
  <2>1. CASE received = <<>>
    BY <2>1 DEF LastReceived
  <2>2. CASE received # <<>>
    <3>1. had \in 1..had
      BY <1>1, <2>2, EmptySeq
    <3> QED BY <2>2, <3>1 DEF LastReceived, Last, StreamInv
  <2> QED BY <2>1, <2>2
<1>3. unseen = [k \in 1..left |-> log[had + k]]
  BY <1>1, <1>2, ReadsTheRest
<1>4. missed = [k \in 1..left |->
                  <<log[had + k][1], mode = "drawer" \/ log[had + k][2] \in Material>>]
  BY <1>3 DEF ClientEvents
<1>5. ASSUME NEW k \in 1..left
      PROVE  /\ missed[k] \in Nat \X BOOLEAN /\ missed[k][1] = had + k
             /\ log[had + k][2] \in Material => missed[k][2]
  <2>1. had + k \in 1..Len(log)
    BY <1>1
  <2>2. log[had + k][1] = had + k
    BY <2>1 DEF StreamInv
  <2>3. missed[k] = <<had + k, mode = "drawer" \/ log[had + k][2] \in Material>>
    BY <1>4, <2>2
  <2> DEFINE narrated == mode = "drawer" \/ log[had + k][2] \in Material
  <2>4. had + k \in Nat /\ narrated \in BOOLEAN
    BY <2>1
  <2>5. log[had + k][2] \in Material => narrated
    OBVIOUS
  <2>6. missed[k] = <<had + k, narrated>>
    BY <2>3
  <2> HIDE DEF narrated, missed
  <2>7. missed[k] \in Nat \X BOOLEAN /\ missed[k][1] = had + k /\ missed[k][2] = narrated
    BY <2>4, <2>6
  <2> QED BY <2>5, <2>7
<1>6. n \in 1..left /\ received' = received \o sent
  <2>1. Len(missed) = left
    BY <1>1, <1>4
  <2> QED BY <2>1 DEF Replay
<1> HIDE DEF missed, had
<1>7. /\ sent \in Seq(Nat \X BOOLEAN) /\ Len(sent) = n
      /\ \A k \in 1..n : sent[k] = missed[k]
  <2>1. \A k \in 1..n : missed[k] \in Nat \X BOOLEAN
    BY <1>1, <1>5, <1>6
  <2>2. /\ sent \in Seq(Nat \X BOOLEAN) /\ Len(sent) = (IF 1 <= n THEN n - 1 + 1 ELSE 0)
        /\ \A k \in 1..(n - 1 + 1) : sent[k] = missed[1 + k - 1]
    BY <1>1, <2>1, SubSeqProperties
  <2> QED BY <1>1, <1>6, <2>2
<1> HIDE DEF sent, left
<1>8. /\ received' \in Seq(Nat \X BOOLEAN) /\ Len(received') = had + n
      /\ \A i \in 1..(had + n) :
           received'[i] = IF i <= had THEN received[i] ELSE sent[i - had]
  <2>1. received \in Seq(Nat \X BOOLEAN) /\ Len(received) = had /\ Len(sent) = n /\ had \in Nat /\ n \in Nat
    BY <1>1, <1>6, <1>7 DEF had
  <2>2. /\ received \o sent \in Seq(Nat \X BOOLEAN) /\ Len(received \o sent) = Len(received) + Len(sent)
        /\ \A i \in 1..(Len(received) + Len(sent)) :
             (received \o sent)[i] = IF i <= Len(received) THEN received[i] ELSE sent[i - Len(received)]
    BY <1>7, <2>1, ConcatProperties
  <2> QED BY <1>6, <2>1, <2>2
<1>9. ASSUME NEW i \in 1..(had + n)
      PROVE  received'[i][1] = i /\ (log[i][2] \in Material => received'[i][2])
  <2>1. CASE i <= had
    <3>1. i \in 1..Len(received) /\ received'[i] = received[i]
      BY <1>1, <1>8, <2>1 DEF had
    <3> QED BY <3>1 DEF StreamInv
  <2>2. CASE ~(i <= had)
    <3>1. i - had \in 1..n /\ i - had \in 1..left /\ had + (i - had) = i
      BY <1>1, <1>6, <2>2 DEF left
    <3>2. received'[i] = missed[i - had]
      BY <1>7, <1>8, <2>2, <3>1
    <3> QED BY <1>5, <3>1, <3>2
  <2> QED BY <2>1, <2>2
<1>10. had + n <= Len(log)
  BY <1>1, <1>6 DEF left
<1>11. log' = log /\ outbox' = outbox
  BY DEF Replay, database
<1>12. \A i \in 1..Len(received') :
         received'[i][1] = i /\ (log'[i][2] \in Material => received'[i][2])
  BY <1>8, <1>9, <1>11
<1>13. /\ \A i \in 1..Len(log') : log'[i][1] = i
       /\ {row.effect : row \in outbox'} = {log'[i][2] : i \in DOMAIN log'}
  BY <1>11 DEF StreamInv
<1> QED BY <1>8, <1>10, <1>11, <1>12, <1>13 DEF StreamInv

LEMMA StreamKeeps ==
  ASSUME StoreInv, [StoreNext]_storeVars
  PROVE  /\ log' \in Seq(Nat \X Effects) /\ received' \in Seq(Nat \X BOOLEAN) /\ StreamInv'
         /\ \A row \in outbox' : row.effect \in Effects /\ row.settled \in BOOLEAN
<1>1. /\ StoreTypeOK /\ StreamInv
      /\ log \in Seq(Nat \X Effects) /\ received \in Seq(Nat \X BOOLEAN)
      /\ \A row \in outbox : row.effect \in Effects /\ row.settled \in BOOLEAN
  BY DEF StoreInv, StoreTypeOK
<1>2. ASSUME NEW p \in Openers, NEW e \in Effects, Commit(p, e)
      PROVE  /\ log' \in Seq(Nat \X Effects) /\ received' = received /\ StreamInv'
             /\ \A row \in outbox' : row.effect \in Effects /\ row.settled \in BOOLEAN
  BY <1>1, <1>2, CommitKeeps DEF Commit
<1>3. ASSUME NEW p \in Openers, NEW row \in outbox, Settle(p, row)
      PROVE  /\ log' = log /\ received' = received /\ StreamInv'
             /\ \A r \in outbox' : r.effect \in Effects /\ r.settled \in BOOLEAN
  <2> DEFINE new == [row EXCEPT !.settled = TRUE]
  <2>1. outbox' = (outbox \ {row}) \cup {new} /\ log' = log /\ received' = received
    BY <1>3 DEF Settle
  <2>2. new.effect = row.effect /\ (row.settled \in BOOLEAN => new.settled \in BOOLEAN)
    OBVIOUS
  <2> HIDE DEF new
  <2>3. {r.effect : r \in outbox'} = {r.effect : r \in outbox}
    BY <2>1, <2>2
  <2>4. \A r \in outbox' : r.effect \in Effects /\ r.settled \in BOOLEAN
    BY <1>1, <2>1, <2>2
  <2>5. {r.effect : r \in outbox'} = {log'[i][2] : i \in DOMAIN log'}
    <3>1. {r.effect : r \in outbox} = {log[i][2] : i \in DOMAIN log}
      BY <1>1 DEF StreamInv
    <3> QED BY <2>1, <2>3, <3>1
  <2>6. StreamInv'
    BY <1>1, <2>1, <2>5 DEF StreamInv
  <2> QED BY <2>1, <2>4, <2>6
<1>4. ASSUME NEW n \in 1..MaxEvents, NEW mode \in {"quiet", "drawer"}, Replay(n, mode)
      PROVE  /\ <<log, outbox>>' = <<log, outbox>>
             /\ received' \in Seq(Nat \X BOOLEAN) /\ StreamInv'
  BY <1>1, <1>4, ReplayKeeps DEF Replay, database
<1>5. ASSUME NEW p \in Openers,
             \/ Open(p) \/ ClaimDirectory(p) \/ Inspect(p) \/ RemoveLock(p) \/ WritePid(p)
             \/ Look(p) \/ Begin(p) \/ GivesUp(p) \/ Migrate(p) \/ BeginWrite(p) \/ Close(p)
             \/ Dies(p)
      PROVE  <<log, outbox, received>>' = <<log, outbox, received>>
  BY <1>5
  DEF Open, ClaimDirectory, Inspect, RemoveLock, WritePid, Look, Begin, GivesUp, Migrate,
      BeginWrite, Close, Dies, database
<1> QED
  <2>1. CASE <<log, outbox, received>>' = <<log, outbox, received>>
    <3>1. log' = log /\ outbox' = outbox /\ received' = received
      BY <2>1
    <3>2. {row.effect : row \in outbox'} = {log'[i][2] : i \in DOMAIN log'}
      BY <1>1, <3>1, ZenonT(20) DEF StreamInv
    <3>3. /\ \A i \in 1..Len(log') : log'[i][1] = i
          /\ Len(received') <= Len(log')
          /\ \A i \in 1..Len(received') :
               received'[i][1] = i /\ (log'[i][2] \in Material => received'[i][2])
      BY <1>1, <3>1 DEF StreamInv
    <3>4. StreamInv'
      BY <3>2, <3>3 DEF StreamInv
    <3> QED BY <1>1, <3>1, <3>4
  <2> QED BY <1>1, <1>2, <1>3, <1>4, <1>5, <2>1 DEF StoreNext, StoreStep, storeVars

\* The state directory is as its three invariants say in every reachable state.
THEOREM StoreInvariant == StoreSpec => []StoreInv
<1>1. ASSUME StoreInv, [StoreNext]_storeVars PROVE StoreInv'
  BY <1>1, ControlKeeps, MigrationKeeps, StreamKeeps DEF StoreInv, StoreTypeOK
<1> QED BY <1>1, StoreInitInv, PTL DEF StoreSpec

\* Processes that open a directory together, and die at any point, leave each
\* migration applied once and in order, and whoever is open has all of them.
THEOREM MigratedOnceAlways == StoreSpec => []MigratedOnce
<1>1. StoreInv => MigratedOnce
  <2> SUFFICES ASSUME StoreInv PROVE applied = [i \in 1..Len(applied) |-> i]
    BY DEF StoreInv, MigrationInv, MigratedOnce
  <2>1. applied \in [1..Len(applied) -> Versions]
    BY LenProperties DEF StoreInv, StoreTypeOK
  <2> QED BY <2>1 DEF StoreInv, MigrationInv
<1> QED BY <1>1, StoreInvariant, PTL

\* Whatever writes, deaths and broken connections come between, the client has
\* a beginning of the log without a gap, and the outbox what the log tells of.
THEOREM StreamContinuousAlways == StoreSpec => []StreamContinuous
<1>1. StoreInv => StreamContinuous
  <2> SUFFICES ASSUME StoreInv PROVE DOMAIN received = 1..Len(received)
    BY DEF StoreInv, StreamInv, StreamContinuous
  <2> QED BY LenProperties DEF StoreInv, StoreTypeOK
<1> QED BY <1>1, StoreInvariant, PTL

\* What an opener saw of the lock file is still so when it removes the file: the
\* file is gone, or the process that created it is (database.ts:252-256).
RemovesStaleOnly ==
  \A p \in Openers : doing[p] = "remove" => lockFile = NoFile \/ ~IsAlive(lockFile.by)

\* Who went past the claim of the directory has the lock file.
Holding == {"write_pid", "look", "begin", "migrating", "ready", "writing"}
OwnsLock == \A p \in Exclusive : doing[p] \in Holding => lockFile.by = p

LEMMA OwnsLockKept ==
  ASSUME StoreInv, OwnsLock, RemovesStaleOnly, [StoreNext]_storeVars
  PROVE  OwnsLock'
<1>1. /\ doing \in [Openers -> Doing] /\ Exclusive \subseteq Openers /\ Nobody \notin Openers
      /\ NoFile.by = Nobody
  BY StoreConstantsOK DEF StoreInv, StoreTypeOK, NoFile
<1>2. ASSUME NEW p \in Openers, Open(p) PROVE OwnsLock'
  BY <1>1, <1>2 DEF Open, Goes, OwnsLock, Holding
<1>3. ASSUME NEW p \in Openers, ClaimDirectory(p) PROVE OwnsLock'
  <2>1. CASE lockFile = NoFile
    <3>1. \A q \in Exclusive : doing[q] \notin Holding
      BY <1>1, <2>1 DEF OwnsLock
    <3>2. lockFile'.by = p /\ doing' = [doing EXCEPT ![p] = "write_pid"]
      BY <1>3, <2>1 DEF ClaimDirectory, Goes
    <3> QED BY <1>1, <3>1, <3>2 DEF OwnsLock
  <2>2. CASE lockFile # NoFile
    <3>1. lockFile' = lockFile /\ \E s \in {"inspect", "failed"} : doing' = [doing EXCEPT ![p] = s]
      BY <1>3, <2>2 DEF ClaimDirectory, Goes
    <3> QED BY <1>1, <3>1 DEF OwnsLock, Holding
  <2> QED BY <2>1, <2>2
<1>4. ASSUME NEW p \in Openers, Inspect(p) PROVE OwnsLock'
  <2>1. lockFile' = lockFile /\ \E s \in {"failed", "refused", "remove"} : doing' = [doing EXCEPT ![p] = s]
    BY <1>4 DEF Inspect, Goes
  <2> QED BY <1>1, <2>1 DEF OwnsLock, Holding
<1>5. ASSUME NEW p \in Openers, RemoveLock(p) PROVE OwnsLock'
  <2>1. \A q \in Exclusive : doing[q] \notin Holding
    BY <1>1, <1>5 DEF RemoveLock, RemovesStaleOnly, OwnsLock, IsAlive, Holding, Gone
  <2> QED BY <1>1, <1>5, <2>1 DEF RemoveLock, Goes, OwnsLock, Holding
<1>6. ASSUME NEW p \in Openers, WritePid(p) PROVE OwnsLock'
  <2>1. lockFile'.by = lockFile.by
    BY <1>6 DEF WritePid, StoreInv, StoreTypeOK
  <2> QED BY <1>1, <1>6, <2>1 DEF WritePid, Goes, OwnsLock, Holding
<1>7. ASSUME NEW p \in Openers, Look(p) \/ Begin(p) \/ Migrate(p) \/ BeginWrite(p) \/ Dies(p)
             \/ \E e \in Effects : Commit(p, e)
      PROVE  OwnsLock'
  <2>1. lockFile' = lockFile
    BY <1>7 DEF Look, Begin, Migrate, BeginWrite, Dies, Commit
  <2>2. doing' = doing \/ \E s \in Doing : doing' = [doing EXCEPT ![p] = s] /\ (s \in Holding => doing[p] \in Holding)
    BY <1>7 DEF Look, Begin, Migrate, BeginWrite, Dies, Commit, Goes, Holding, Doing, Gone
  <2> QED BY <1>1, <2>1, <2>2 DEF OwnsLock
<1>8. ASSUME NEW p \in Openers, GivesUp(p) \/ Close(p) PROVE OwnsLock'
  <2>1. /\ doing[p] \in Holding /\ lockFile' = IF p \in Exclusive THEN NoFile ELSE lockFile
        /\ \E s \in {"failed", "closed"} : doing' = [doing EXCEPT ![p] = s]
    BY <1>8 DEF GivesUp, Close, Release, Goes, Holding
  <2>2. p \in Exclusive => \A q \in Exclusive : doing[q] \in Holding => q = p
    BY <2>1 DEF OwnsLock
  <2> QED BY <1>1, <2>1, <2>2 DEF OwnsLock, Holding
<1>9. ASSUME UNCHANGED <<doing, lockFile>> PROVE OwnsLock'
  BY <1>9 DEF OwnsLock
<1> QED
  BY <1>2, <1>3, <1>4, <1>5, <1>6, <1>7, <1>8, <1>9
  DEF StoreNext, StoreStep, storeVars, Settle, Replay

\* database.ts:239, one controller on a state directory, however many open it and
\* die, as long as what an opener saw of the lock is still so when it removes it.
THEOREM OneControllerUnlessStolen == StoreSpec /\ []RemovesStaleOnly => []OneController
<1>1. StoreInit => OwnsLock
  BY StoreConstantsOK DEF StoreInit, OwnsLock, Holding
<1>2. OwnsLock => OneController
  BY DEF OwnsLock, OneController, Holding
<1> QED BY <1>1, <1>2, OwnsLockKept, StoreInvariant, PTL DEF StoreSpec

-----------------------------------------------------------------------------
(***************************************************************************)
(* Console                                                                 *)
(***************************************************************************)

\* The rows about a question.
RowsOf(q) == {i \in 1..Len(rows) : Wants[rows[i]] = q}

\* At most one question is open, an answered one has a single row and another
\* has none, and every row, request and outbox entry stands for the same posts.
ConsoleInv ==
  /\ questions \in [Questions -> [status : {"NONE", "OPEN", "SUPERSEDED", "ANSWERED"}, version : Nat]]
  /\ \A c \in inFlight : c.key \in RequestKeys
  /\ rows \in Seq(RequestKeys) /\ told \in [RequestKeys -> {"nothing", "recorded", "refused"}]
  /\ \A q, r \in Questions : questions[q].status = "OPEN" /\ questions[r].status = "OPEN" => q = r
  /\ \A q \in Questions : IF questions[q].status = "ANSWERED"
                          THEN \E i \in Nat : RowsOf(q) = {i} ELSE RowsOf(q) = {}
  /\ {rows[i] : i \in 1..Len(rows)} = stored /\ stored = queued
  /\ \A k \in RequestKeys : told[k] = "recorded" => k \in queued

\* A row more belongs to the question it is about and to no other.
LEMMA RowsAfterStore ==
  ASSUME rows \in Seq(RequestKeys), NEW k \in RequestKeys, Store(k)
  PROVE  /\ rows' \in Seq(RequestKeys)
         /\ {rows'[i] : i \in 1..Len(rows')} = {rows[i] : i \in 1..Len(rows)} \cup {k}
         /\ \A q : RowsOf(q)' = IF q = Wants[k] THEN RowsOf(q) \cup {Len(rows) + 1} ELSE RowsOf(q)
<1> DEFINE n == Len(rows)
<1>1. n \in Nat /\ rows' = Append(rows, k)
  BY LenProperties DEF Store
<1>2. /\ rows' \in Seq(RequestKeys) /\ Len(rows') = n + 1 /\ rows'[n + 1] = k
      /\ \A i \in 1..n : rows'[i] = rows[i]
  BY <1>1
<1> HIDE DEF n
<1>3. /\ \A i \in 1..(n + 1) : i \in 1..n \/ i = n + 1
      /\ \A i \in 1..n : i \in 1..(n + 1) /\ i # n + 1
      /\ n + 1 \in 1..(n + 1)
  BY <1>1
<1>4. {rows'[i] : i \in 1..(n + 1)} = {rows[i] : i \in 1..n} \cup {k}
  <2>1. ASSUME NEW i \in 1..(n + 1) PROVE rows'[i] \in {rows[j] : j \in 1..n} \cup {k}
    BY <1>2, <1>3
  <2>2. ASSUME NEW i \in 1..n PROVE rows[i] \in {rows'[j] : j \in 1..(n + 1)}
    <3>1. i \in 1..(n + 1) /\ rows'[i] = rows[i]
      BY <1>2, <1>3
    <3> QED BY <3>1
  <2>3. k \in {rows'[j] : j \in 1..(n + 1)}
    BY <1>2, <1>3
  <2> QED BY <2>1, <2>2, <2>3
<1>5. ASSUME NEW q
      PROVE  {i \in 1..(n + 1) : Wants[rows'[i]] = q} =
               IF q = Wants[k] THEN {i \in 1..n : Wants[rows[i]] = q} \cup {n + 1}
               ELSE {i \in 1..n : Wants[rows[i]] = q}
  BY <1>2, <1>3
<1>6. Len(rows') = n + 1 /\ Len(rows) = n
  BY <1>2 DEF n
<1> QED BY <1>2, <1>4, <1>5, <1>6 DEF RowsOf

LEMMA ConsoleInitInv == ConsoleInit => ConsoleInv
<1> SUFFICES ASSUME ConsoleInit PROVE ConsoleInv
  OBVIOUS
<1>1. /\ questions \in [Questions -> [status : {"NONE", "OPEN", "SUPERSEDED", "ANSWERED"}, version : Nat]]
      /\ \A q \in Questions : questions[q].status = "NONE"
  BY DEF ConsoleInit
<1>2. \A q \in Questions : RowsOf(q) = {}
  BY DEF ConsoleInit, RowsOf
<1> QED BY <1>1, <1>2 DEF ConsoleInit, ConsoleInv

LEMMA ConsoleNextInv ==
  ASSUME ConsoleInv, [ConsoleNext]_consoleVars
  PROVE  ConsoleInv'
<1> DEFINE Asks == [status : {"NONE", "OPEN", "SUPERSEDED", "ANSWERED"}, version : Nat]
<1>1. ASSUME NEW q \in Questions, Ask(q) PROVE ConsoleInv'
  <2> DEFINE new == IF Asked("OPEN") = {} THEN "OPEN" ELSE "SUPERSEDED"
             row == [questions[q] EXCEPT !.status = new]
  <2>1. questions \in [Questions -> Asks] /\ questions[q].status = "NONE"
    BY <1>1 DEF ConsoleInv, Ask
  <2>2. row \in Asks /\ row.status = new /\ new \in {"OPEN", "SUPERSEDED"}
    BY <2>1
  <2>3. questions' = [questions EXCEPT ![q] = row]
    BY <1>1, <2>1 DEF Ask
  <2>4. new = "OPEN" => \A r \in Questions : questions[r].status # "OPEN"
    BY DEF Asked
  <2> HIDE DEF row, new, Asks
  <2>5. /\ questions' \in [Questions -> Asks]
        /\ \A r \in Questions : questions'[r] = IF r = q THEN row ELSE questions[r]
    BY <2>1, <2>2, <2>3
  <2>6. \A r, u \in Questions : questions'[r].status = "OPEN" /\ questions'[u].status = "OPEN" => r = u
    BY <2>2, <2>4, <2>5 DEF ConsoleInv
  <2>7. /\ <<inFlight, rows, stored, queued, told>>' = <<inFlight, rows, stored, queued, told>>
        /\ \A r : RowsOf(r)' = RowsOf(r)
    BY <1>1 DEF Ask, RowsOf
  <2>8. ASSUME NEW r \in Questions
        PROVE  IF questions'[r].status = "ANSWERED" THEN \E i \in Nat : RowsOf(r)' = {i}
               ELSE RowsOf(r)' = {}
    BY <2>1, <2>2, <2>5, <2>7 DEF ConsoleInv
  <2> QED BY <2>5, <2>6, <2>7, <2>8 DEF ConsoleInv, Asks
<1>2. ASSUME NEW c \in inFlight, NEW read \in BOOLEAN, AnswerQuestion(c, read),
             Answerable(Wants[c.key], c.match)
      PROVE  ConsoleInv'
  <2> DEFINE q == Wants[c.key]
             row == [status |-> "ANSWERED", version |-> questions[q].version + 1]
  <2>1. /\ c.key \in RequestKeys /\ q \in Questions /\ questions[q].status = "OPEN"
        /\ questions \in [Questions -> Asks] /\ rows \in Seq(RequestKeys) /\ Store(c.key)
    BY <1>2, ConsoleConstantsOK DEF ConsoleInv, AnswerQuestion, Answerable
  <2>2. row \in Asks /\ row.status = "ANSWERED" /\ questions' = [questions EXCEPT ![q] = row]
    BY <1>2, <2>1 DEF AnswerQuestion
  <2> HIDE DEF row, Asks
  <2>3. /\ questions' \in [Questions -> Asks]
        /\ \A r \in Questions : questions'[r] = IF r = q THEN row ELSE questions[r]
    BY <2>1, <2>2
  <2>4. \A r, u \in Questions : questions'[r].status = "OPEN" /\ questions'[u].status = "OPEN" => r = u
    BY <2>2, <2>3 DEF ConsoleInv
  <2>5. /\ rows' \in Seq(RequestKeys)
        /\ {rows'[i] : i \in 1..Len(rows')} = {rows[i] : i \in 1..Len(rows)} \cup {c.key}
        /\ \A r : RowsOf(r)' = IF r = q THEN RowsOf(r) \cup {Len(rows) + 1} ELSE RowsOf(r)
    BY <2>1, RowsAfterStore
  <2>6. ASSUME NEW r \in Questions
        PROVE  IF questions'[r].status = "ANSWERED" THEN \E i \in Nat : RowsOf(r)' = {i}
               ELSE RowsOf(r)' = {}
    <3>1. CASE r = q
      <4>1. RowsOf(r) = {} /\ Len(rows) + 1 \in Nat
        BY <2>1, <3>1, LenProperties DEF ConsoleInv
      <4> QED BY <2>2, <2>3, <2>5, <3>1, <4>1
    <3>2. CASE r # q
      BY <2>3, <2>5, <3>2 DEF ConsoleInv
    <3> QED BY <3>1, <3>2
  <2>7. /\ inFlight' \subseteq inFlight
        /\ stored' = stored \cup {c.key} /\ queued' = queued \cup {c.key}
        /\ told' = told \/ told' = [told EXCEPT ![c.key] = "recorded"]
    BY <1>2, <2>1 DEF AnswerQuestion, Store, Reply
  <2>8. /\ told' \in [RequestKeys -> {"nothing", "recorded", "refused"}]
        /\ \A k \in RequestKeys : told'[k] = "recorded" => k \in queued'
    BY <2>1, <2>7 DEF ConsoleInv
  <2> QED BY <2>3, <2>4, <2>5, <2>6, <2>7, <2>8 DEF ConsoleInv, Asks
<1>3. ASSUME NEW c \in inFlight, NEW read \in BOOLEAN, SubmitMessage(c, read), RunAccepts(c.match)
      PROVE  ConsoleInv'
  <2>1. /\ c.key \in RequestKeys /\ Wants[c.key] \notin Questions
        /\ rows \in Seq(RequestKeys) /\ Store(c.key) /\ questions' = questions
    BY <1>3, ConsoleConstantsOK DEF ConsoleInv, SubmitMessage
  <2>2. /\ rows' \in Seq(RequestKeys)
        /\ {rows'[i] : i \in 1..Len(rows')} = {rows[i] : i \in 1..Len(rows)} \cup {c.key}
        /\ \A r \in Questions : RowsOf(r)' = RowsOf(r)
    BY <2>1, RowsAfterStore
  <2>3. /\ inFlight' \subseteq inFlight
        /\ stored' = stored \cup {c.key} /\ queued' = queued \cup {c.key}
        /\ told' = told \/ told' = [told EXCEPT ![c.key] = "recorded"]
    BY <1>3, <2>1 DEF SubmitMessage, Store, Reply
  <2>4. /\ told' \in [RequestKeys -> {"nothing", "recorded", "refused"}]
        /\ \A k \in RequestKeys : told'[k] = "recorded" => k \in queued'
    BY <2>1, <2>3 DEF ConsoleInv
  <2> QED BY <2>1, <2>2, <2>3, <2>4 DEF ConsoleInv
<1>4. ASSUME <<questions, rows, stored, queued>>' = <<questions, rows, stored, queued>>,
             \A c \in inFlight' : c.key \in RequestKeys,
             told' \in [RequestKeys -> {"nothing", "recorded", "refused"}],
             \A k \in RequestKeys : told'[k] = "recorded" => told[k] = "recorded"
      PROVE  ConsoleInv'
  <2>1. \A r : RowsOf(r)' = RowsOf(r)
    BY <1>4 DEF RowsOf
  <2> QED BY <1>4, <2>1 DEF ConsoleInv
<1>5. ASSUME NEW c \in inFlight, NEW read \in BOOLEAN, Refuse(c, read), inFlight' = inFlight \ {c}
      PROVE  ConsoleInv'
  <2>1. /\ told' \in [RequestKeys -> {"nothing", "recorded", "refused"}]
        /\ \A k \in RequestKeys : told'[k] = "recorded" => told[k] = "recorded"
    BY <1>5 DEF Refuse, Reply, ConsoleInv
  <2> QED BY <1>4, <1>5, <2>1 DEF Refuse, ConsoleInv
<1>6. ASSUME NEW t \in Tabs, NEW k \in RequestKeys, NEW match \in 1..MaxVersion, Arrive(t, k, match)
      PROVE  ConsoleInv'
  <2>1. \A c \in inFlight' : c.key \in RequestKeys
    BY <1>6 DEF Arrive, ConsoleInv
  <2> QED BY <1>4, <1>6, <2>1 DEF Arrive, ConsoleInv
<1>7. ASSUME \/ \E t \in Tabs : Exchange(t) \/ TimeIsUp(t)
             \/ \E c \in inFlight : BadRequest(c)
             \/ RunMoves \/ UNCHANGED consoleVars
      PROVE  ConsoleInv'
  <2>1. /\ <<questions, rows, stored, queued, told>>' = <<questions, rows, stored, queued, told>>
        /\ inFlight' \subseteq inFlight
    BY <1>7 DEF Exchange, TimeIsUp, BadRequest, RunMoves, consoleVars
  <2> QED BY <1>4, <2>1 DEF ConsoleInv
<1>8. ASSUME NEW c \in inFlight, NEW read \in BOOLEAN, AnswerQuestion(c, read) \/ SubmitMessage(c, read)
      PROVE  ConsoleInv'
  BY <1>2, <1>3, <1>5, <1>8 DEF AnswerQuestion, SubmitMessage
<1> QED BY <1>1, <1>6, <1>7, <1>8 DEF ConsoleNext

\* Whatever tabs post, twice or at the same time, and whichever connection
\* breaks: a question has one answer or none, one is open at most, and what was
\* told to be recorded is recorded and queued.
THEOREM AnswersStandAlways == ConsoleSpec => []AnswersStand
<1>1. ConsoleInv => AnswersStand
  <2> SUFFICES ASSUME ConsoleInv PROVE AnswersStand
    OBVIOUS
  <2>1. DOMAIN rows = 1..Len(rows)
    BY LenProperties DEF ConsoleInv
  <2>2. ASSUME NEW q \in Questions
        PROVE  Cardinality({i \in DOMAIN rows : Wants[rows[i]] = q}) =
                 IF q \in Asked("ANSWERED") THEN 1 ELSE 0
    <3>1. {i \in DOMAIN rows : Wants[rows[i]] = q} = RowsOf(q)
      BY <2>1 DEF RowsOf
    <3>2. CASE questions[q].status = "ANSWERED"
      <4>1. PICK i \in Nat : RowsOf(q) = {i}
        BY <3>2 DEF ConsoleInv
      <4> QED BY <3>1, <3>2, <4>1, FS_Singleton DEF Asked
    <3>3. CASE questions[q].status # "ANSWERED"
      <4>1. RowsOf(q) = {} /\ q \notin Asked("ANSWERED")
        BY <3>3 DEF ConsoleInv, Asked
      <4> QED BY <3>1, <4>1, FS_EmptySet
    <3> QED BY <3>2, <3>3
  <2>3. Cardinality(Asked("OPEN")) <= 1
    <3>1. CASE Asked("OPEN") = {}
      BY <3>1, FS_EmptySet
    <3>2. CASE Asked("OPEN") # {}
      <4>1. PICK q \in Asked("OPEN") : TRUE
        BY <3>2
      <4>2. Asked("OPEN") = {q}
        BY <4>1 DEF Asked, ConsoleInv
      <4>3. Cardinality({q}) = 1
        BY FS_Singleton
      <4> QED BY <4>2, <4>3
    <3> QED BY <3>1, <3>2
  <2>4. Visible.questions = Asked("OPEN")
    BY DEF Visible
  <2>5. ToSet(rows) = stored /\ stored = queued
    BY <2>1 DEF ToSet, ConsoleInv
  <2> QED BY <2>2, <2>3, <2>4, <2>5 DEF AnswersStand, ConsoleInv
<1>2. ConsoleSpec => []ConsoleInv
  BY ConsoleInitInv, ConsoleNextInv, PTL DEF ConsoleSpec
<1> QED BY <1>1, <1>2, PTL

-----------------------------------------------------------------------------
(***************************************************************************)
(* Delivery                                                                *)
(***************************************************************************)

\* While a run's integrator is not planned and its attempts claim no other run,
\* one attempt at most has it, and an attempt of it that was answered owned is it.
OwnerInv ==
  /\ owned \subseteq Runs \X Attempts
  /\ \A run : ~IntegrationPlanned(run) /\ ~ClaimedAcross(run) =>
                \A a, c \in Integrators(run) : a = c
  /\ OneIntegrator

LEMMA DeliveryNextOwner ==
  ASSUME OwnerInv, [DeliveryNext]_deliveryVars
  PROVE  OwnerInv'
<1>1. ASSUME NEW run, NEW task, NEW a, NEW tier, NEW list, PlanResponsibilities(run, task, a, tier, list)
      PROVE  OwnerInv'
  <2>1. /\ assigned \subseteq assigned' /\ owned' = owned
        /\ \A row \in assigned' : row \in assigned \/ ~row.claimed
    BY <1>1 DEF PlanResponsibilities, Row
  <2>2. \A r : /\ ClaimedAcross(r)' = ClaimedAcross(r)
               /\ ~IntegrationPlanned(r)' => IntegrationRows(r)' = IntegrationRows(r)
    BY <2>1 DEF ClaimedAcross, IntegrationPlanned, IntegrationRows
  <2>3. \A r : ~IntegrationPlanned(r)' =>
                 ~IntegrationPlanned(r) /\ Integrators(r)' = Integrators(r)
    BY <2>2 DEF IntegrationPlanned, Integrators
  <2> QED BY <2>1, <2>2, <2>3 DEF OwnerInv, OneIntegrator, IntegrationOwner
<1>2. ASSUME NEW run \in Runs, NEW a \in Attempts, ClaimIntegration(run, a) PROVE OwnerInv'
  <2>1. CASE Integrators(run) # {}
    <3>1. PICK owner \in Integrators(run) :
            owned' = IF owner = a THEN owned \cup {<<run, a>>} ELSE owned
      BY <1>2, <2>1 DEF ClaimIntegration
    <3>2. assigned' = assigned
      BY <1>2, <2>1 DEF ClaimIntegration
    <3>3. \A r : /\ Integrators(r)' = Integrators(r)
                 /\ IntegrationPlanned(r)' = IntegrationPlanned(r)
                 /\ ~ClaimedAcross(r)' => ~ClaimedAcross(r)
      BY <3>1, <3>2 DEF Integrators, IntegrationRows, IntegrationPlanned, ClaimedAcross
    <3>4. \A claim \in owned' : claim \in owned \/ (claim = <<run, a>> /\ a \in Integrators(run))
      BY <3>1
    <3>5. ~IntegrationPlanned(run) /\ ~ClaimedAcross(run) /\ a \in Integrators(run) =>
            Integrators(run) = {a}
      BY DEF OwnerInv
    <3> QED BY <3>1, <3>3, <3>4, <3>5 DEF OwnerInv, OneIntegrator, IntegrationOwner
  <2>2. CASE Integrators(run) = {} /\ a \notin Known
    <3>1. assigned' = assigned /\ owned' = owned \cup {<<run, a>>}
      BY <1>2, <2>2 DEF ClaimIntegration, InsertClaim
    <3>2. \A r : /\ Integrators(r)' = Integrators(r)
                 /\ IntegrationPlanned(r)' = IntegrationPlanned(r)
                 /\ ~ClaimedAcross(r)' => ~ClaimedAcross(r)
      BY <3>1 DEF Integrators, IntegrationRows, IntegrationPlanned, ClaimedAcross
    <3> QED BY <2>2, <3>1, <3>2 DEF OwnerInv, OneIntegrator, IntegrationOwner
  <2>3. CASE Integrators(run) = {} /\ a \in Known
    <3> DEFINE new == Row(RunOf[a], TaskOf[a], a, "integration", TRUE, TRUE)
    <3>1. assigned' = assigned \cup {new} /\ owned' = owned \cup {<<run, a>>}
      BY <1>2, <2>3 DEF ClaimIntegration, InsertClaim
    <3>2. new.run = RunOf[a] /\ new.attempt = a /\ new.what = "integration" /\ new.claimed
      BY DEF Row
    <3> HIDE DEF new
    <3>3. \A r : r # RunOf[a] => IntegrationRows(r)' = IntegrationRows(r)
      BY <3>1, <3>2 DEF IntegrationRows
    <3>4. IntegrationRows(RunOf[a])' = IntegrationRows(RunOf[a]) \cup {new}
      BY <3>1, <3>2 DEF IntegrationRows
    <3>5. \A r : /\ IntegrationPlanned(r)' = IntegrationPlanned(r)
                 /\ ~ClaimedAcross(r)' => ~ClaimedAcross(r)
      BY <3>1, <3>2, <3>3, <3>4 DEF IntegrationPlanned, ClaimedAcross
    <3>6. \A r : r # RunOf[a] => Integrators(r)' = Integrators(r)
      BY <3>3 DEF Integrators
    <3>7. CASE RunOf[a] # run
      <4>1. ClaimedAcross(RunOf[a])'
        <5>1. <<run, a>> \in owned'
          BY <3>1
        <5>2. <<run, a>>[1] # RunOf[a] /\ <<run, a>>[2] = a
          BY <3>7
        <5> QED BY <2>3, <5>1, <5>2, Zenon DEF ClaimedAcross
      <4>2. owned' \subseteq Runs \X Attempts
        BY <3>1 DEF OwnerInv
      <4>3. \A r : ~IntegrationPlanned(r)' /\ ~ClaimedAcross(r)' =>
                     \A b, c \in Integrators(r)' : b = c
        BY <3>5, <3>6, <4>1 DEF OwnerInv
      <4>4. \A claim \in owned' : claim \in owned \/ (claim[1] = run /\ claim[2] = a)
        BY <3>1
      <4>5. OneIntegrator'
        BY <3>5, <3>6, <3>7, <4>1, <4>4 DEF OwnerInv, OneIntegrator, IntegrationOwner
      <4> QED BY <4>2, <4>3, <4>5 DEF OwnerInv
    <3>8. CASE RunOf[a] = run
      <4>1. Integrators(run)' = {a}
        BY <2>3, <3>2, <3>4, <3>8 DEF Integrators
      <4>2. \A claim \in owned :
              claim[1] = run /\ claim[2] \in Known /\ RunOf[claim[2]] = run =>
                IntegrationPlanned(run) \/ ClaimedAcross(run)
        BY <2>3 DEF OwnerInv, OneIntegrator, IntegrationOwner
      <4> QED BY <3>1, <3>5, <3>6, <3>8, <4>1, <4>2 DEF OwnerInv, OneIntegrator, IntegrationOwner
    <3> QED BY <3>7, <3>8
  <2> QED BY <2>1, <2>2, <2>3
<1>3. ASSUME NEW a \in Attempts, NEW f, NEW d, NEW e, NEW late, EvaluateRepair(a, f, d, e, late)
      PROVE  <<assigned, owned>>' = <<assigned, owned>>
  BY <1>3 DEF EvaluateRepair
<1>4. ASSUME <<assigned, owned>>' = <<assigned, owned>> PROVE OwnerInv'
  <2>1. \A r : /\ Integrators(r)' = Integrators(r)
               /\ IntegrationPlanned(r)' = IntegrationPlanned(r)
               /\ ClaimedAcross(r)' = ClaimedAcross(r)
    BY <1>4 DEF Integrators, IntegrationRows, IntegrationPlanned, ClaimedAcross
  <2> QED BY <1>4, <2>1 DEF OwnerInv, OneIntegrator, IntegrationOwner
<1> QED BY <1>1, <1>2, <1>3, <1>4 DEF DeliveryNext, AssignNext, RepairNext, deliveryVars

\* However attempts race for a run's integration, unknown ones and those of other
\* runs among them: one of the run that was answered owned is its only owner,
\* unless the integrator was planned or an attempt of the run claimed another.
THEOREM OneIntegratorAlways == DeliverySpec => []OneIntegrator
<1>1. DeliveryInit => OwnerInv
  BY DEF DeliveryInit, OwnerInv, OneIntegrator, Integrators, IntegrationRows
<1>2. OwnerInv => OneIntegrator
  BY DEF OwnerInv
<1> QED BY <1>1, <1>2, DeliveryNextOwner, PTL DEF DeliverySpec

\* Rows of repair cycles are added behind the others and stay as they are.
CyclesInv ==
  /\ cycles = [t \in WorkTasks |-> cycles[t]]
  /\ \A t \in WorkTasks : \E n \in Nat : cycles[t] = [i \in 1..n |-> cycles[t][i]]
  /\ RepairsConverge

LEMMA DeliveryNextCycles ==
  ASSUME CyclesInv, [DeliveryNext]_deliveryVars
  PROVE  CyclesInv'
<1>1. ASSUME NEW a \in Attempts, NEW f, NEW d, NEW e, NEW late \in BOOLEAN,
             EvaluateRepair(a, f, d, e, late)
      PROVE  CyclesInv'
  <2> DEFINE t == TaskOf[a]
             o == RepairOutcome(t, d, e, late)
             row == [diagnosis |-> d, evidence |-> e, outcome |-> o]
  <2>1. t \in WorkTasks /\ MaxRepairs \in Nat
    BY DeliveryConstantsOK DEF WorkTasks
  <2>2. PICK n \in Nat : cycles[t] = [i \in 1..n |-> cycles[t][i]]
    BY <2>1 DEF CyclesInv
  <2>3. Len(cycles[t]) = n /\ DOMAIN cycles[t] = 1..n
    BY <2>2
  <2>4. o = "PROCEED" =>
          n < MaxRepairs /\ ((\E j \in 1..n : cycles[t][j].diagnosis = d) => e # NoEvidence)
    BY <2>1, <2>3 DEF RepairOutcome, Repeats
  <2>5. row.diagnosis = d /\ row.evidence = e /\ row.outcome = o
    OBVIOUS
  <2>6. cycles' = [cycles EXCEPT ![t] = Append(@, row)]
    BY <1>1 DEF EvaluateRepair
  <2> HIDE DEF t, row, o
  <2>7. /\ cycles'[t] = Append(cycles[t], row)
        /\ \A u \in WorkTasks : u # t => cycles'[u] = cycles[u]
        /\ cycles' = [u \in WorkTasks |-> cycles'[u]]
    BY <2>1, <2>6 DEF CyclesInv
  <2>8. /\ cycles'[t] = [i \in 1..(n + 1) |-> cycles'[t][i]]
        /\ \A i \in 1..n : cycles'[t][i] = cycles[t][i]
        /\ cycles'[t][n + 1] = row
    <3>1. Append(cycles[t], row) = [i \in 1..(n + 1) |-> IF i = n + 1 THEN row ELSE cycles[t][i]]
      BY <2>2, <2>3
    <3> QED BY <2>7, <3>1
  <2>9. ASSUME NEW u \in WorkTasks, NEW i \in DOMAIN cycles'[u], cycles'[u][i].outcome = "PROCEED"
        PROVE  /\ i <= MaxRepairs
               /\ \A j \in 1 .. i - 1 :
                    cycles'[u][j].diagnosis = cycles'[u][i].diagnosis
                      => cycles'[u][i].evidence # NoEvidence
    <3>1. CASE u # t
      BY <2>7, <2>9, <3>1 DEF CyclesInv, RepairsConverge
    <3>2. CASE u = t /\ i \in 1..n
      <4>1. i \in DOMAIN cycles[t] /\ \A j \in 1 .. i - 1 : j \in 1..n
        BY <2>3, <3>2
      <4>2. cycles'[u][i] = cycles[t][i] /\ \A j \in 1 .. i - 1 : cycles'[u][j] = cycles[t][j]
        BY <2>8, <3>2, <4>1
      <4>3. /\ i <= MaxRepairs
            /\ \A j \in 1 .. i - 1 :
                 cycles[t][j].diagnosis = cycles[t][i].diagnosis => cycles[t][i].evidence # NoEvidence
        BY <2>1, <2>9, <4>1, <4>2 DEF CyclesInv, RepairsConverge
      <4> QED BY <4>2, <4>3
    <3>3. CASE u = t /\ i = n + 1
      <4>1. \A j \in 1 .. i - 1 : j \in 1..n
        BY <3>3
      <4>2. cycles'[u][i] = row /\ \A j \in 1 .. i - 1 : cycles'[u][j] = cycles[t][j]
        BY <2>8, <3>3, <4>1
      <4>3. n < MaxRepairs /\ ((\E j \in 1..n : cycles[t][j].diagnosis = d) => e # NoEvidence)
        BY <2>4, <2>5, <2>9, <4>2
      <4>4. \A j \in 1 .. i - 1 :
              cycles'[u][j].diagnosis = cycles'[u][i].diagnosis => cycles'[u][i].evidence # NoEvidence
        BY <2>5, <4>1, <4>2, <4>3
      <4> QED BY <2>1, <3>3, <4>3, <4>4
    <3>4. DOMAIN cycles'[t] = 1..(n + 1)
      BY <2>8
    <3>5. u = t => i \in 1..n \/ i = n + 1
      BY <2>9, <3>4
    <3> QED BY <3>1, <3>2, <3>3, <3>5
  <2>10. \A u \in WorkTasks : \E m \in Nat : cycles'[u] = [i \in 1..m |-> cycles'[u][i]]
    BY <2>7, <2>8, SMTT(20) DEF CyclesInv
  <2> QED BY <2>7, <2>9, <2>10 DEF CyclesInv, RepairsConverge
<1>2. ASSUME AssignNext PROVE cycles' = cycles
  BY <1>2 DEF AssignNext, PlanResponsibilities, ClaimIntegration
<1>3. ASSUME cycles' = cycles PROVE CyclesInv'
  BY <1>3 DEF CyclesInv, RepairsConverge
<1> QED BY <1>1, <1>2, <1>3 DEF DeliveryNext, RepairNext, deliveryVars

\* Whichever attempts ask, no more than MaxRepairs cycles of a task proceed,
\* and a diagnosis that was made before proceeds with new evidence only.
THEOREM RepairsConvergeAlways == DeliverySpec => []RepairsConverge
<1>1. DeliveryInit => CyclesInv
  <2> SUFFICES ASSUME DeliveryInit PROVE CyclesInv
    OBVIOUS
  <2>1. /\ cycles = [t \in WorkTasks |-> <<>>]
        /\ \A t \in WorkTasks : cycles[t] = <<>> /\ cycles[t] = [i \in 1..0 |-> cycles[t][i]]
    BY DEF DeliveryInit
  <2> QED BY <2>1 DEF CyclesInv, RepairsConverge
<1>2. CyclesInv => RepairsConverge
  BY DEF CyclesInv
<1> QED BY <1>1, <1>2, DeliveryNextCycles, PTL DEF DeliverySpec

-----------------------------------------------------------------------------
(***************************************************************************)
(* Continuity                                                              *)
(***************************************************************************)

\* A non-empty set of natural numbers has a least member.
LEMMA LeastElement ==
  ASSUME NEW T, T \subseteq Nat, T # {}
  PROVE  \E n \in T : \A m \in T : n <= m
<1>1. OpToRel(<, Nat) = {ss \in Nat \X Nat : ss[1] < ss[2]}
  BY DEF OpToRel
<1>2. PICK n \in T : \A m \in T : <<m, n>> \notin OpToRel(<, Nat)
  BY NatLessThanWellFounded, WFMin
<1>3. ASSUME NEW m \in T PROVE n <= m
  <2>1. m \in Nat /\ n \in Nat
    OBVIOUS
  <2>2. ~(m < n)
    BY <1>1, <1>2, <2>1
  <2> QED BY <2>1, <2>2
<1> QED BY <1>3

\* Rows of the ledger are numbered, finitely many, no two alike, and finished
\* with evidence only.
LedgerRows == [seq : Nat, status : {"PENDING", "IN_PROGRESS", "DONE", "BLOCKED"},
               evidence : BOOLEAN, by : Sessions \cup {NoSession}]

LedgerInv ==
  /\ ledger \in [Tasks -> LedgerRows]
  /\ IsFiniteSet(Planned)
  /\ \A t, u \in Planned : ledger[t].seq = ledger[u].seq => t = u
  /\ \A t \in Planned : ledger[t].status = "DONE" => ledger[t].evidence
  /\ pending \in [Sessions -> [status : {"none", "IN_PROGRESS", "PENDING"}, tasks : SUBSET Tasks]]
  /\ \A s \in Sessions : pending[s] # NoCall => /\ pending[s].status # "none" /\ pending[s].tasks # {}
                                             /\ pending[s].tasks \subseteq Planned

\* There is a first task of any that are planned.
LEMMA FirstOfIsFirst ==
  ASSUME LedgerInv, NEW S, S \subseteq Planned, S # {}
  PROVE  FirstOf(S) \in S /\ \A u \in S : ledger[FirstOf(S)].seq <= ledger[u].seq
<1>1. \A t \in S : t \in Tasks /\ ledger[t].seq \in Nat
  BY DEF LedgerInv, Planned, LedgerRows
<1>2. {ledger[t].seq : t \in S} \subseteq Nat /\ {ledger[t].seq : t \in S} # {}
  BY <1>1
<1>3. PICK n \in {ledger[t].seq : t \in S} : \A m \in {ledger[t].seq : t \in S} : n <= m
  BY <1>2, LeastElement
<1>4. \E t \in S : \A u \in S : ledger[t].seq <= ledger[u].seq
  BY <1>3
<1> QED BY <1>4 DEF FirstOf

\* Planning, claiming, finishing, blocking and releasing keep the ledger so,
\* however late a call writes what it read.
LEMMA LedgerNextInv ==
  ASSUME LedgerInv, [ContinuityNext]_continuityVars
  PROVE  LedgerInv'
<1>1. ASSUME NEW plan \in Plans, Plan(plan) PROVE LedgerInv'
  <2> DEFINE new == ToSet(plan) \ Planned
             taken == {ledger[t].seq : t \in Planned}
             total == Cardinality(Planned)
             place(t) == CHOOSE i \in DOMAIN plan : plan[i] = t
             row(t) == [Absent EXCEPT !.seq = SequenceOf(plan, t)]
  <2>1. /\ plan \in Seq(Tasks) /\ Len(plan) \in Nat /\ DOMAIN plan = 1..Len(plan)
        /\ total \in Nat
    BY ContinuityConstantsOK, LenProperties, FS_CardinalityType DEF LedgerInv
  <2>2. \A t \in ToSet(plan) : t \in Tasks /\ place(t) \in 1..Len(plan) /\ plan[place(t)] = t
    <3>1. ASSUME NEW t \in ToSet(plan)
          PROVE  t \in Tasks /\ place(t) \in 1..Len(plan) /\ plan[place(t)] = t
      <4>1. PICK i \in 1..Len(plan) : plan[i] = t
        BY <2>1 DEF ToSet
      <4> QED BY <2>1, <4>1, ElementOfSeq
    <3> QED BY <3>1
  <2>3. \A t \in new : SequenceOf(plan, t) = total + place(t)
    BY DEF SequenceOf
  <2> HIDE DEF place, total
  <2>4. \A t \in new : SequenceOf(plan, t) \in Nat /\ SequenceOf(plan, t) > 0
    BY <2>1, <2>2, <2>3
  <2>5. \A t, u \in new : SequenceOf(plan, t) = SequenceOf(plan, u) => t = u
    <3>1. ASSUME NEW t \in new, NEW u \in new, SequenceOf(plan, t) = SequenceOf(plan, u)
          PROVE  t = u
      <4>1. place(t) = place(u)
        BY <2>1, <2>2, <2>3, <3>1
      <4> QED BY <2>2, <4>1
    <3> QED BY <3>1
  <2>6. \A t \in new : row(t) \in LedgerRows /\ row(t).seq = SequenceOf(plan, t) /\ row(t).status = "PENDING"
    BY <2>4 DEF Absent, LedgerRows
  <2>7. CASE \E t \in new : SequenceOf(plan, t) \in taken
    <3>1. ledger' = ledger /\ pending' = pending
      BY <1>1, <2>7 DEF Plan
    <3> QED BY <3>1 DEF LedgerInv, Planned
  <2>8. CASE ~\E t \in new : SequenceOf(plan, t) \in taken
    <3>1. ledger' = [t \in Tasks |-> IF t \in new THEN row(t) ELSE ledger[t]]
      BY <1>1, <2>8 DEF Plan
    <3> HIDE DEF row
    <3>2. /\ \A t \in new : t \in Tasks /\ t \notin Planned /\ ledger'[t] = row(t)
          /\ \A t \in Tasks : t \notin new => ledger'[t] = ledger[t]
          /\ ledger' \in [Tasks -> LedgerRows]
      BY <2>2, <2>6, <3>1 DEF LedgerInv
    <3>3. Planned' = Planned \cup new
      BY <2>4, <2>6, <3>2 DEF Planned
    <3>4. IsFiniteSet(new)
      <4>1. IsFiniteSet(1..Len(plan))
        BY <2>1, FS_Interval
      <4>2. IsFiniteSet({plan[i] : i \in 1..Len(plan)})
        <5>1. plan \in Surjection(1..Len(plan), {plan[i] : i \in 1..Len(plan)})
          BY <2>1 DEF Surjection
        <5> QED BY <4>1, <5>1, FS_Surjection
      <4>3. new \in SUBSET {plan[i] : i \in 1..Len(plan)}
        BY <2>1 DEF ToSet
      <4> QED BY <4>2, <4>3, FS_Subset
    <3>5. IsFiniteSet(Planned')
      BY <3>3, <3>4, FS_Union DEF LedgerInv
    <3>6. \A t \in Planned : t \in Tasks /\ t \notin new /\ ledger'[t] = ledger[t]
      BY <3>2 DEF Planned
    <3> HIDE DEF new
    <3>7. ASSUME NEW t \in Planned', NEW u \in Planned', ledger'[t].seq = ledger'[u].seq
          PROVE  t = u
      <4>1. CASE t \in new /\ u \in new
        BY <2>5, <2>6, <3>2, <3>7, <4>1
      <4>2. CASE t \in Planned /\ u \in Planned
        BY <3>6, <3>7, <4>2 DEF LedgerInv
      <4>3. CASE t \in new /\ u \in Planned
        BY <2>6, <2>8, <3>2, <3>6, <3>7, <4>3
      <4>4. CASE u \in new /\ t \in Planned
        BY <2>6, <2>8, <3>2, <3>6, <3>7, <4>4
      <4> QED BY <3>3, <4>1, <4>2, <4>3, <4>4
    <3>8. \A t \in Planned' : ledger'[t].status = "DONE" => ledger'[t].evidence
      BY <2>6, <3>2, <3>3, <3>6 DEF LedgerInv
    <3>9. pending' = pending /\ Planned \subseteq Planned'
      BY <1>1, <3>3 DEF Plan
    <3>10. \A s \in Sessions : pending'[s] # NoCall => /\ pending'[s].status # "none" /\ pending'[s].tasks # {}
                                                   /\ pending'[s].tasks \subseteq Planned'
      BY <3>9 DEF LedgerInv
    <3> QED BY <3>2, <3>5, <3>7, <3>8, <3>9, <3>10 DEF LedgerInv
  <2> QED BY <2>7, <2>8
<1>2. ASSUME ledger' \in [Tasks -> LedgerRows],
             \A t \in Tasks : /\ ledger'[t].seq = ledger[t].seq
                              /\ ledger'[t].status = "DONE" =>
                                   ledger'[t].evidence \/ ledger'[t] = ledger[t],
             pending' \in [Sessions -> [status : {"none", "IN_PROGRESS", "PENDING"}, tasks : SUBSET Tasks]],
             \A s \in Sessions : \/ pending'[s] = pending[s] \/ pending'[s] = NoCall
                                 \/ /\ pending'[s].status # "none" /\ pending'[s].tasks # {}
                                    /\ pending'[s].tasks \subseteq Planned
      PROVE  LedgerInv'
  <2>1. Planned' = Planned /\ Planned \subseteq Tasks
    BY <1>2 DEF Planned
  <2>2. /\ \A t, u \in Planned' : ledger'[t].seq = ledger'[u].seq => t = u
        /\ \A t \in Planned' : ledger'[t].status = "DONE" => ledger'[t].evidence
    BY <1>2, <2>1 DEF LedgerInv
  <2>3. \A s \in Sessions : pending'[s] # NoCall => /\ pending'[s].status # "none" /\ pending'[s].tasks # {}
                                                 /\ pending'[s].tasks \subseteq Planned'
    BY <1>2, <2>1 DEF LedgerInv
  <2> QED BY <1>2, <2>1, <2>2, <2>3 DEF LedgerInv
<1>3. ASSUME NEW t \in Tasks, NEW row \in LedgerRows, Set(t, row),
             row.seq = ledger[t].seq, row.status = "DONE" => row.evidence
      PROVE  /\ ledger' \in [Tasks -> LedgerRows]
             /\ \A u \in Tasks : /\ ledger'[u].seq = ledger[u].seq
                                 /\ ledger'[u].status = "DONE" =>
                                      ledger'[u].evidence \/ ledger'[u] = ledger[u]
  <2>1. /\ ledger' \in [Tasks -> LedgerRows] /\ ledger'[t] = row
        /\ \A u \in Tasks : u # t => ledger'[u] = ledger[u]
    BY <1>3 DEF Set, LedgerInv
  <2> QED BY <1>3, <2>1
<1>4. ASSUME pending' = pending
      PROVE  /\ pending' \in [Sessions -> [status : {"none", "IN_PROGRESS", "PENDING"}, tasks : SUBSET Tasks]]
             /\ \A s \in Sessions : pending'[s] = pending[s]
  BY <1>4 DEF LedgerInv
<1>5. ASSUME NEW s \in Sessions, pending' = [pending EXCEPT ![s] = NoCall]
      PROVE  /\ pending' \in [Sessions -> [status : {"none", "IN_PROGRESS", "PENDING"}, tasks : SUBSET Tasks]]
             /\ \A u \in Sessions : pending'[u] = pending[u] \/ pending'[u] = NoCall
  <2>1. NoCall \in [status : {"none", "IN_PROGRESS", "PENDING"}, tasks : SUBSET Tasks]
    BY DEF NoCall
  <2> QED BY <1>5, <2>1 DEF LedgerInv
<1>6. ASSUME NEW t \in Tasks, Block(t) \/ \E s \in Sessions : Finish(t, s)
      PROVE  LedgerInv'
  <2>1. ledger[t] \in LedgerRows
    BY DEF LedgerInv
  <2>2. CASE Block(t)
    <3> DEFINE row == [ledger[t] EXCEPT !.status = "BLOCKED", !.by = NoSession]
    <3>1. row \in LedgerRows /\ row.seq = ledger[t].seq /\ row.status = "BLOCKED" /\ Set(t, row)
      BY <2>1, <2>2 DEF Block, LedgerRows
    <3>2. pending' = pending
      BY <2>2 DEF Block
    <3> HIDE DEF row
    <3> QED BY <1>2, <1>3, <1>4, <3>1, <3>2
  <2>4. ASSUME NEW s \in Sessions, Finish(t, s) PROVE LedgerInv'
    <3> DEFINE row == [ledger[t] EXCEPT !.status = "DONE", !.evidence = TRUE, !.by = s]
    <3>1. row \in LedgerRows /\ row.seq = ledger[t].seq /\ row.evidence = TRUE /\ Set(t, row)
      BY <2>1, <2>4 DEF Finish, LedgerRows
    <3>2. pending' = pending
      BY <2>4 DEF Finish
    <3> HIDE DEF row
    <3> QED BY <1>2, <1>3, <1>4, <3>1, <3>2
  <2> QED BY <1>6, <2>2, <2>4
<1>7. ASSUME NEW s \in Sessions, NEW status \in {"IN_PROGRESS", "PENDING"}, NEW tasks \in SUBSET Planned,
             Read(s, status, tasks)
      PROVE  LedgerInv'
  <2>1. /\ ledger' = ledger /\ tasks # {} /\ tasks \subseteq Tasks
        /\ pending' = [pending EXCEPT ![s] = [status |-> status, tasks |-> tasks]]
    BY <1>7 DEF Read, Planned
  <2>2. /\ pending' \in [Sessions -> [status : {"none", "IN_PROGRESS", "PENDING"}, tasks : SUBSET Tasks]]
        /\ pending'[s].status = status /\ pending'[s].tasks = tasks
        /\ \A u \in Sessions : u # s => pending'[u] = pending[u]
    BY <2>1 DEF LedgerInv
  <2>3. /\ ledger' \in [Tasks -> LedgerRows]
        /\ \A t \in Tasks : ledger'[t] = ledger[t]
    BY <2>1 DEF LedgerInv
  <2>4. \A u \in Sessions : \/ pending'[u] = pending[u]
                            \/ /\ pending'[u].status # "none" /\ pending'[u].tasks # {}
                               /\ pending'[u].tasks \subseteq Planned
    BY <2>1, <2>2
  <2> QED BY <1>2, <2>2, <2>3, <2>4
<1>8. ASSUME NEW s \in Sessions, NEW t \in Tasks, Write(s, t) PROVE LedgerInv'
  <2> DEFINE row == [ledger[t] EXCEPT !.status = pending[s].status,
                                      !.by = IF pending[s].status = "IN_PROGRESS" THEN s ELSE @]
  <2>1. ledger[t] \in LedgerRows /\ pending[s].status \in {"IN_PROGRESS", "PENDING"}
    BY <1>8 DEF LedgerInv, Write
  <2>2. /\ row \in LedgerRows /\ row.seq = ledger[t].seq /\ row.status # "DONE" /\ Set(t, row)
    BY <1>8, <2>1 DEF Write, LedgerRows
  <2> HIDE DEF row
  <2> DEFINE rest == IF pending[s].tasks = {t} THEN NoCall
                     ELSE [status |-> pending[s].status, tasks |-> pending[s].tasks \ {t}]
  <2>3. pending' = [pending EXCEPT ![s] = rest]
    BY <1>8 DEF Write
  <2>4. /\ pending' \in [Sessions -> [status : {"none", "IN_PROGRESS", "PENDING"}, tasks : SUBSET Tasks]]
        /\ \A u \in Sessions : \/ pending'[u] = pending[u] \/ pending'[u] = NoCall
                               \/ /\ pending'[u].status # "none" /\ pending'[u].tasks # {}
                                  /\ pending'[u].tasks \subseteq Planned
    <3>1. pending[s] # NoCall /\ pending[s].tasks # {} /\ pending[s].tasks \subseteq Planned
      BY <1>8 DEF LedgerInv, Write
    <3>2. /\ rest \in [status : {"none", "IN_PROGRESS", "PENDING"}, tasks : SUBSET Tasks]
          /\ rest = NoCall \/ (rest.status # "none" /\ rest.tasks # {} /\ rest.tasks \subseteq Planned)
      BY <2>1, <3>1 DEF NoCall, Planned
    <3> HIDE DEF rest
    <3>3. pending'[s] = rest /\ \A u \in Sessions : u # s => pending'[u] = pending[u]
      BY <2>3 DEF LedgerInv
    <3> QED BY <2>3, <3>2, <3>3 DEF LedgerInv
  <2> QED BY <1>2, <1>3, <2>2, <2>4
<1>9. ASSUME NEW s \in Sessions, StartSession(s) \/ \E recorded \in BOOLEAN : EndSession(s, recorded)
      PROVE  LedgerInv'
  <2>1. ledger' = ledger /\ (pending' = pending \/ pending' = [pending EXCEPT ![s] = NoCall])
    BY <1>9 DEF StartSession, EndSession
  <2>2. /\ pending' \in [Sessions -> [status : {"none", "IN_PROGRESS", "PENDING"}, tasks : SUBSET Tasks]]
        /\ \A u \in Sessions : pending'[u] = pending[u] \/ pending'[u] = NoCall
    BY <1>4, <1>5, <2>1
  <2>3. /\ ledger' \in [Tasks -> LedgerRows]
        /\ \A t \in Tasks : ledger'[t] = ledger[t]
    BY <2>1 DEF LedgerInv
  <2> QED BY <1>2, <2>2, <2>3
<1>10. ASSUME ledger' = ledger, pending' = pending PROVE LedgerInv'
  BY <1>10 DEF LedgerInv, Planned
<1>11. ASSUME NEW t \in Tasks, NEW s \in Sessions, Claim(t, s) PROVE LedgerInv'
  <2>1. {t} \in SUBSET Planned /\ Read(s, "IN_PROGRESS", {t})
    BY <1>11 DEF Claim, Unfinished
  <2> QED BY <1>7, <2>1
<1>12. ASSUME NEW s \in Sessions, NEW u \in Sessions, ReleaseAbandoned(s, u) PROVE LedgerInv'
  BY <1>7, <1>12 DEF ReleaseAbandoned
<1>13. ASSUME NEW state, MoveRun(state) PROVE LedgerInv'
  BY <1>10, <1>13 DEF MoveRun
<1> QED BY <1>1, <1>6, <1>8, <1>9, <1>10, <1>11, <1>12, <1>13 DEF ContinuityNext, continuityVars

\* The task ledger is well formed in every reachable state, whoever wrote it.
THEOREM LedgerInvariant == ContinuitySpec => []LedgerInv
<1>1. ContinuityInit => LedgerInv
  <2> SUFFICES ASSUME ContinuityInit PROVE LedgerInv
    OBVIOUS
  <2>1. /\ ledger = [t \in Tasks |-> Absent] /\ Absent \in LedgerRows
        /\ Absent.seq = 0
    BY DEF ContinuityInit, Absent, LedgerRows
  <2> HIDE DEF Absent
  <2>2. Planned = {}
    BY <2>1 DEF Planned, Absent
  <2>3. /\ pending \in [Sessions -> [status : {"none", "IN_PROGRESS", "PENDING"}, tasks : SUBSET Tasks]]
        /\ \A s \in Sessions : pending[s] = NoCall
    BY DEF ContinuityInit, NoCall
  <2> QED BY <2>1, <2>2, <2>3, FS_EmptySet DEF LedgerInv
<1> QED BY <1>1, LedgerNextInv, PTL DEF ContinuitySpec

\* The next briefing of a run it tells of passes over no task without evidence,
\* whatever was planned, taken over, blocked or written late in between.
THEOREM ResumesUnfinishedAlways == ContinuitySpec => []ResumesUnfinished
<1>1. LedgerInv => ResumesUnfinished
  <2> SUFFICES ASSUME LedgerInv, runState \in OpenStates
               PROVE  LET next == PickUp(Handoff) IN
                      /\ \A t \in Abandoned : next # NoTask /\ ledger[next].seq <= ledger[t].seq
                      /\ \A t \in Planned : (next = NoTask \/ ledger[t].seq < ledger[next].seq)
                                              => ledger[t].status = "DONE" /\ ledger[t].evidence
    BY DEF ResumesUnfinished
  <2> DEFINE next == PickUp(Handoff)
  <2>1. Abandoned \subseteq Unfinished /\ Unfinished \subseteq Planned /\ Planned \subseteq Tasks
    BY DEF Abandoned, Unfinished, Planned
  <2>2. \A t \in Planned : ledger[t].seq \in Nat
    BY <2>1 DEF LedgerInv, LedgerRows
  <2>3. \A t \in Planned : t \notin Unfinished => ledger[t].status = "DONE" /\ ledger[t].evidence
    BY DEF Unfinished, LedgerInv
  <2>4. CASE Unfinished = {}
    BY <2>1, <2>3, <2>4
  <2>5. CASE Unfinished # {}
    <3>1. /\ FirstOf(Unfinished) \in Unfinished
          /\ \A t \in Unfinished : ledger[FirstOf(Unfinished)].seq <= ledger[t].seq
      BY <2>1, <2>5, FirstOfIsFirst
    <3>2. Cardinality(Planned) # 0
      BY <2>1, <2>5, FS_EmptySet DEF LedgerInv
    <3>3. next = FirstOf(Unfinished)
      BY <3>2 DEF PickUp, Handoff, NextTask
    <3>4. next \in Tasks /\ next # NoTask /\ next \in Planned
      BY <2>1, <3>1, <3>3, ContinuityConstantsOK
    <3> HIDE DEF next
    <3>5. \A t \in Abandoned : ledger[next].seq <= ledger[t].seq
      BY <2>1, <3>1, <3>3
    <3>6. ASSUME NEW t \in Planned, ledger[t].seq < ledger[next].seq PROVE t \notin Unfinished
      BY <2>2, <3>1, <3>3, <3>4, <3>6
    <3> QED BY <2>3, <3>4, <3>5, <3>6 DEF next
  <2> QED BY <2>4, <2>5
<1> QED BY <1>1, LedgerInvariant, PTL
=============================================================================
