------------------------------- MODULE Ledger -------------------------------
(***************************************************************************)
(* What a budget promises to each account that draws on it: a reservation  *)
(* is taken only while it, everything the account already holds and        *)
(* everything it was charged fit the limit, and a charge is never taken    *)
(* back.  A charge whose price is not known counts at the price the policy *)
(* sets for it.  Charges themselves are not bounded, since a provider may  *)
(* charge more than was reserved, and the owner may replace the policy.    *)
(***************************************************************************)
EXTENDS Integers

CONSTANTS Accounts

VARIABLES
  held,      \* what the account's open reservations add up to
  charged,   \* its charges of known price
  unpriced,  \* the number of its charges of unknown price
  limit,     \* what an account may hold and be charged in all
  price      \* what a charge of unknown price counts for

ledgerVars == <<held, charged, unpriced, limit, price>>

LedgerInit ==
  /\ held = [c \in Accounts |-> 0]
  /\ charged = [c \in Accounts |-> 0]
  /\ unpriced = [c \in Accounts |-> 0]

Committed(c) == held[c] + charged[c] + unpriced[c] * price

Take(c, amount) ==
  /\ Committed(c) + amount <= limit
  /\ held' = [held EXCEPT ![c] = @ + amount]
  /\ UNCHANGED <<charged, unpriced, limit, price>>

GiveBack(c, amount) ==
  /\ held' = [held EXCEPT ![c] = @ - amount]
  /\ UNCHANGED <<charged, unpriced, limit, price>>

Charge(c, amount) ==
  /\ charged' = [charged EXCEPT ![c] = @ + amount]
  /\ UNCHANGED <<held, unpriced, limit, price>>

ChargeUnpriced(c) ==
  /\ unpriced' = [unpriced EXCEPT ![c] = @ + 1]
  /\ UNCHANGED <<held, charged, limit, price>>

ReplacePolicy == UNCHANGED <<held, charged, unpriced>>

\* An amount is given by what the account's entry becomes.
LedgerNext ==
  \/ \E c \in Accounts :
       \/ held'[c] >= held[c] /\ Take(c, held'[c] - held[c])
       \/ held'[c] <= held[c] /\ GiveBack(c, held[c] - held'[c])
       \/ charged'[c] >= charged[c] /\ Charge(c, charged'[c] - charged[c])
       \/ ChargeUnpriced(c)
  \/ ReplacePolicy

LedgerSpec == LedgerInit /\ [][LedgerNext]_ledgerVars
=============================================================================
