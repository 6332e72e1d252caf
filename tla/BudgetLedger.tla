---------------------------- MODULE BudgetLedger ----------------------------
(***************************************************************************)
(* One window of the budget ledger (budget_ledger in SQLite, or the          *)
(* in-memory table of a request) and the protocol its callers promise to     *)
(* follow: reserve before the provider is called, then reconcile exactly     *)
(* once.  A caller that dies, or whose store fails, loses its reservation:   *)
(* the units stay reserved and are never given out again.                   *)
(*                                                                         *)
(* Every attempt costs one unit (AttemptContext.budget_units).              *)
(***************************************************************************)
EXTENDS Integers, FiniteSets

CONSTANTS
    Callers,  \* who may hold a reservation
    Limits,   \* the limits a configuration may set on this window
    MaxLimit  \* no limit is above it

ASSUME LedgerAssumption ==
    /\ MaxLimit \in Nat
    /\ Limits \subseteq 0 .. MaxLimit
    /\ IsFiniteSet(Callers)

VARIABLES
    ledger,   \* [limit, used, reserved]: the row
    held,     \* the callers between reserve and reconcile
    flying,   \* the holders whose attempt has reached its provider
    paid      \* attempts that have reached a provider so far in this window

lvars == <<ledger, held, flying, paid>>

-----------------------------------------------------------------------------
(* The row operations; the code runs each under a lock or in a transaction.  *)

\* A missing row lets nobody reserve, like a row with no units.
NoBudget == [limit |-> 0, used |-> 0, reserved |-> 0]

Configured(b, limit) == [b EXCEPT !.limit = limit]

\* Faulty: units promised to running attempts are not counted.
CanReserveUsedOnly(b) == b.used + 1 <= b.limit

CanReserve(b) == b.used + b.reserved + 1 <= b.limit
Reserved(b)   == [b EXCEPT !.reserved = @ + 1]

\* Faulty: the charge is forgotten.
CommittedFree(b) == [b EXCEPT !.reserved = @ - 1]

\* Faulty: the reservation is charged and stays reserved.
CommittedKept(b) == [b EXCEPT !.used = @ + 1]

\* Faulty: the reservation is given back twice.
CommittedTwice(b) == [b EXCEPT !.used = @ + 1, !.reserved = IF @ > 1 THEN @ - 2 ELSE 0]

Committed(b)  == [b EXCEPT !.used = @ + 1, !.reserved = @ - 1]
Released(b)   == [b EXCEPT !.reserved = @ - 1]

-----------------------------------------------------------------------------
LedgerInit ==
    /\ ledger = NoBudget
    /\ held = {}
    /\ flying = {}
    /\ paid = 0

\* Another configuration may raise or lower the limit at any time.
Configure(limit) ==
    /\ ledger' = Configured(ledger, limit)
    /\ UNCHANGED <<held, flying, paid>>

Reserve(p) ==
    /\ p \notin held
    /\ CanReserve(ledger)
    /\ ledger' = Reserved(ledger)
    /\ held' = held \cup {p}
    /\ UNCHANGED <<flying, paid>>

\* The attempt's first request leaves for the provider: from here on it costs.
Dispatch(p) ==
    /\ p \in held \ flying
    /\ flying' = flying \cup {p}
    /\ paid' = paid + 1
    /\ UNCHANGED <<ledger, held>>

\* The attempt is over and is charged, even if it failed before its dispatch.
Commit(p) ==
    /\ p \in held
    /\ ledger' = Committed(ledger)
    /\ held' = held \ {p}
    /\ flying' = flying \ {p}
    /\ UNCHANGED paid

\* Faulty: an attempt whose provider never answered is not charged.
ReleaseUnanswered(p) ==
    /\ p \in held
    /\ ledger' = Released(ledger)
    /\ held' = held \ {p}
    /\ flying' = flying \ {p}
    /\ UNCHANGED paid

\* Only an attempt that never reached its provider gives its unit back.
Release(p) ==
    /\ p \in held \ flying
    /\ ledger' = Released(ledger)
    /\ held' = held \ {p}
    /\ UNCHANGED <<flying, paid>>

\* The callers in S vanish, or their reconciliation does not reach the store.
Lose(S) ==
    /\ held' = held \ S
    /\ flying' = flying \ S
    /\ UNCHANGED <<ledger, paid>>

LedgerNext ==
    \/ \E limit \in Limits : Configure(limit)
    \/ \E p \in Callers : Reserve(p) \/ Dispatch(p) \/ Commit(p) \/ Release(p)
    \/ \E S \in SUBSET Callers : Lose(S)

LedgerSpec == LedgerInit /\ [][LedgerNext]_lvars

-----------------------------------------------------------------------------
\* The row never counts below zero: a reconciliation takes back only what was reserved
\* (reserve_budget and reconcile_budget).
LedgerTypeOK ==
    /\ ledger \in [limit : Limits \cup {0}, used : Nat, reserved : Nat]
    /\ held \subseteq Callers
    /\ flying \subseteq held
    /\ paid \in Nat

\* Reservations are conserved: the unit of every holder is still reserved, so a
\* reconciliation never meets "budget reservation missing".
HoldersAreReserved == Cardinality(held) <= ledger.reserved

\* Charged and promised units never exceed the highest limit ever configured.
WithinLimit == ledger.used + ledger.reserved <= MaxLimit

\* An attempt that reached its provider is charged, or its unit stays reserved;
\* no unit it used is ever given to another.
PaidIsAccounted == paid + Cardinality(held \ flying) <= ledger.used + ledger.reserved
=============================================================================
