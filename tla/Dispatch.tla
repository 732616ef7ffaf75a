------------------------------ MODULE Dispatch ------------------------------
(***************************************************************************)
(* Admission of attempts and the budget it draws on:                       *)
(* packages/core/src/{router,budget}.ts, recordUsage of lifecycle.ts, and  *)
(* reserve and recordUsage of packages/documents/src/jobs.ts, on top of    *)
(* the attempts and leases of Leases.                                      *)
(*                                                                         *)
(* All runs belong to one project.  Where the code sums rows over a run,   *)
(* or over the project's runs or its document jobs, the sum is kept as the *)
(* entry of an account.  A request repeats the parent and the depth of its *)
(* attempt's row.  Nothing in the repository reads attempt.dispatch from   *)
(* the outbox, so the entry is left out with the events.                   *)
(***************************************************************************)
EXTENDS Leases, Integers

CONSTANTS
  Software, Documents,  \* accounts: all the project's runs, its document jobs
  NoParent,
  ParentOf,      \* [Attempts -> Attempts \cup {NoParent}]
  DepthOf,       \* [Attempts -> {0, 1}], CHECK(depth BETWEEN 0 AND 1)
  MaxChildren,   \* maximum_children_per_lead
  Policies,      \* the policies the maintainer may set
  EstimateOf,    \* [Attempts -> Nat], estimated_microusd
  DocEstimate,   \* what a document job reserves
  EventRun,      \* [provider events -> Runs \cup {Documents}]
  Costs,         \* what an event may cost
  MaxRows        \* bound on the reservations one attempt is ever given

Accounts == Runs \cup {Software, Documents}
Events == DOMAIN EventRun
Policy == [cap : Nat, reserve : Nat, unknown : Nat]

ASSUME DispatchConstantsOK ==
  /\ Software \notin Runs /\ Documents \notin Runs /\ Software # Documents
  /\ NoParent \notin Attempts
  /\ ParentOf \in [Attempts -> Attempts \cup {NoParent}]
  /\ DepthOf \in [Attempts -> {0, 1}]
  /\ MaxChildren \in Nat \ {0}
  /\ Policies \subseteq Policy
  /\ EstimateOf \in [Attempts -> Nat]
  /\ DocEstimate \in Nat
  /\ EventRun \in [Events -> Runs \cup {Documents}] /\ IsFiniteSet(Events)
  /\ IsFiniteSet(Attempts)
  /\ Costs \subseteq Nat
  /\ MaxRows \in Nat

VARIABLES
  policy,    \* budget_policies of the project
  rows,      \* per attempt, its reservations that are RESERVED
  taken,     \* per attempt, all its reservations; documents have one entry
  open,      \* per account, what its RESERVED rows add up to
  known,     \* per account, the cost of its complete usage events
  unknown,   \* per account, the number of its incomplete usage events
  recorded   \* the provider events that have a usage row

budgetVars == <<policy, rows, taken, open, known, unknown, recorded>>
dispatchVars == <<leaseVars, budgetVars>>

DispatchTypeOK ==
  /\ LeaseTypeOK
  /\ policy \in Policies
  /\ rows \in [Attempts -> Nat]
  /\ taken \in [Attempts \cup {Documents} -> 0..MaxRows]
  /\ open \in [Accounts -> Int] /\ known \in [Accounts -> Nat]
  /\ unknown \in [Accounts -> Nat]
  /\ recorded \subseteq Events

DispatchInit ==
  /\ LeaseInit
  /\ policy \in Policies
  /\ rows = [a \in Attempts |-> 0]
  /\ taken = [c \in Attempts \cup {Documents} |-> 0]
  /\ open = [c \in Accounts |-> 0]
  /\ known = [c \in Accounts |-> 0]
  /\ unknown = [c \in Accounts |-> 0]
  /\ recorded = {}

-----------------------------------------------------------------------------
(* The balances *)

Limit == policy.cap - policy.reserve

AvailableReadsUnknownAsZero(r) == Limit - open[r] - known[r]

\* BudgetLedger.state: the balance of one run against the project's policy.
Available(r) == Limit - open[r] - known[r] - unknown[r] * policy.unknown

\* The balance document work is held to: the runs' reservations and complete
\* usage, and everything of the document jobs.
DocumentsAvailable ==
  Limit - (open[Software] + known[Software]
           + open[Documents] + known[Documents] + unknown[Documents] * policy.unknown)

\* Add n to the entry of a run and of the project's runs together, or to the
\* documents' own.
Into(f, c, n) ==
  [d \in Accounts |-> IF d = c \/ (c # Documents /\ d = Software) THEN f[d] + n ELSE f[d]]

-----------------------------------------------------------------------------
(* Admission *)

ActiveChildren(p) == {b \in Attempts : ParentOf[b] = p /\ status[b] \in {"LEASED", "RUNNING"}}

ParentTakesAnotherIfQueued(a) ==
  LET p == ParentOf[a] IN
  p # NoParent =>
    /\ status[p] # "ABSENT" /\ DepthOf[p] = 0
    /\ status[a] = "QUEUED" \/ Cardinality(ActiveChildren(p) \ {a}) < MaxChildren

ParentTakesAnother(a) ==
  LET p == ParentOf[a] IN
  p # NoParent =>
    /\ status[p] # "ABSENT" /\ DepthOf[p] = 0
    /\ Cardinality(ActiveChildren(p) \ {a}) < MaxChildren

\* BudgetLedger.reserve
Reserve(a) ==
  LET r == RunOf[a] IN
  /\ Available(r) > 0 /\ EstimateOf[a] <= Available(r)
  /\ taken[a] < MaxRows
  /\ rows' = [rows EXCEPT ![a] = @ + 1]
  /\ taken' = [taken EXCEPT ![a] = @ + 1]
  /\ open' = Into(open, r, EstimateOf[a])

\* admit: a refusal changes nothing; otherwise the reservation and RUNNING
\* commit together.  An attempt that was admitted before is admitted again.
AdmitRequest(a) ==
  /\ ParentTakesAnother(a)
  /\ Reserve(a)
  /\ Admit(a)
  /\ UNCHANGED <<policy, known, unknown, recorded>>

SettleTwice(a) ==
  /\ taken[a] > 0
  /\ rows' = [rows EXCEPT ![a] = @ - 1]
  /\ open' = Into(open, RunOf[a], 0 - EstimateOf[a])
  /\ UNCHANGED <<leaseVars, policy, taken, known, unknown, recorded>>

\* settle of one of the attempt's reservations, to whatever status.
Settle(a) ==
  /\ rows[a] > 0
  /\ rows' = [rows EXCEPT ![a] = @ - 1]
  /\ open' = Into(open, RunOf[a], 0 - EstimateOf[a])
  /\ UNCHANGED <<leaseVars, policy, taken, known, unknown, recorded>>

\* DocumentJobs.reserve
ReserveForDocument ==
  /\ DocEstimate <= DocumentsAvailable
  /\ taken[Documents] < MaxRows
  /\ taken' = [taken EXCEPT ![Documents] = @ + 1]
  /\ open' = Into(open, Documents, DocEstimate)
  /\ UNCHANGED <<leaseVars, policy, rows, known, unknown, recorded>>

BillWithoutDuplicates(ev, complete, cost) ==
  /\ known' = IF complete THEN Into(known, EventRun[ev], cost) ELSE known
  /\ unknown' = IF complete THEN unknown ELSE Into(unknown, EventRun[ev], 1)
  /\ recorded' = recorded \cup {ev}

\* The first report of a provider event decides, UNIQUE(provider,
\* provider_event_id); a later one changes nothing even if it knows the cost.
Bill(ev, complete, cost) ==
  /\ ev \notin recorded
  /\ known' = IF complete THEN Into(known, EventRun[ev], cost) ELSE known
  /\ unknown' = IF complete THEN unknown ELSE Into(unknown, EventRun[ev], 1)
  /\ recorded' = recorded \cup {ev}

\* recordUsage of lifecycle.ts, for an event of a run's attempt.
RecordUsage(ev, complete, cost) ==
  /\ \E a \in Attempts : RunOf[a] = EventRun[ev] /\ status[a] # "ABSENT"
  /\ Bill(ev, complete, cost)
  /\ UNCHANGED <<leaseVars, policy, rows, taken, open>>

\* recordUsage of jobs.ts, which leaves the duplicate to the table.
RecordDocumentUsage(ev, complete, cost) ==
  /\ EventRun[ev] = Documents
  /\ Bill(ev, complete, cost)
  /\ UNCHANGED <<leaseVars, policy, rows, taken, open>>

SetPolicy(p) ==
  /\ policy' = p
  /\ UNCHANGED <<leaseVars, rows, taken, open, known, unknown, recorded>>

\* The other handlers of Leases.
OtherLeaseStep ==
  /\ \/ \E a \in Attempts : CreateAttempt(a)
     \/ \E t \in Tasks : Claim(t) \/ Reassign(t)
     \/ \E a \in Attempts, wanted \in SUBSET Paths : ClaimWriteScope(a, wanted)
     \/ \E expired \in SUBSET LeasesOf(Attempts) : Reconcile(expired)
     \/ \E r \in Runs : FenceRun(r)
  /\ UNCHANGED budgetVars

DispatchNext ==
  \/ \E a \in Attempts : AdmitRequest(a) \/ Settle(a)
  \/ ReserveForDocument
  \/ \E ev \in Events, complete \in BOOLEAN, cost \in Costs :
       RecordUsage(ev, complete, cost) \/ RecordDocumentUsage(ev, complete, cost)
  \/ \E p \in Policies : SetPolicy(p)
  \/ OtherLeaseStep

DispatchSpec == DispatchInit /\ [][DispatchNext]_dispatchVars

-----------------------------------------------------------------------------
(* Properties *)

\* At no time does a lead have more admitted children than the limit, whatever
\* was claimed, fenced, reassigned and admitted again in between, and no
\* admitted child has admitted children of its own (router.ts:84-96).
DelegationBounded ==
  \A p \in Attempts :
    LET running == {b \in Attempts : ParentOf[b] = p /\ status[b] = "RUNNING"} IN
    /\ Cardinality(running) <= MaxChildren
    /\ DepthOf[p] = 1 => running = {}

\* Every run draws on the budget as Ledger says: neither a duplicate report, a
\* partial one, a settlement nor a new policy lets a reservation through that
\* does not fit (budget.ts:88-89).
BudgetOf ==
  INSTANCE Ledger WITH
    Accounts <- Runs,
    held <- [r \in Runs |-> open[r]],
    charged <- [r \in Runs |-> known[r]],
    unpriced <- [r \in Runs |-> unknown[r]],
    limit <- Limit,
    price <- policy.unknown

KeepsLedger == BudgetOf!LedgerSpec

\* A provider event is billed once, however often and however differently it
\* is reported: no more is settled than the recorded events cost at most
\* (lifecycle.ts:308).
BilledOnce ==
  \A c \in Runs \cup {Documents} : \A most \in Costs :
    (\A cost \in Costs : cost <= most)
      => known[c] + unknown[c] * most <= most * Cardinality({ev \in recorded : EventRun[ev] = c})

\* docs/DOCUMENT_WORKFLOW.md:85 says of software and document jobs together
\* that combined reservations are checked and that separate usage tables must
\* not provide two independent balances.  A run's balance knows neither the
\* other runs nor the document jobs.
OneBalance == open[Software] + open[Documents] <= Limit
=============================================================================
