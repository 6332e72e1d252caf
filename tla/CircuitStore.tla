---------------------------- MODULE CircuitStore ----------------------------
(***************************************************************************)
(* The circuit_state table of src/wsp_core/state_store_v3.py: one row per   *)
(* circuit key (provider, capability, endpoint, credential) and error       *)
(* class.  Every operation is one SQLite transaction, so one action.        *)
(*                                                                         *)
(* Time is relative: `left` is open_until - now, so a tick of the clock     *)
(* lowers it and "open_until <= now" reads left <= 0.  A caller that        *)
(* captured `now` some ticks ago (its age) sees left + age.  Below -MaxAge  *)
(* nobody can tell two values apart and the row stays there.               *)
(***************************************************************************)
EXTENDS Integers, Sequences, FiniteSets

CONSTANTS
    Keys,           \* circuit keys
    FailuresToOpen, \* CONSECUTIVE_FAILURES_TO_OPEN: 3 in the code
    Lease,          \* ticks a half-open probe is leased for: 60 s in the code
    MaxOpen,        \* MAX_OPEN_SECONDS, in ticks
    OpenFor,        \* [Classes -> windows a failure may open, in ticks]
    MaxAge          \* the oldest `now` a transaction may still run with

VARIABLE row        \* row[k][c]: the record admission reads for bucket c of key k

Classes == {"AUTH", "QUOTA", "RATE_LIMIT", "TRANSIENT", "TIMEOUT"}

\* The buckets that need several failures before they block.
CountedClasses == {"TRANSIENT", "TIMEOUT"}

\* The order in which admission looks at the buckets.
CheckOrder == <<"AUTH", "QUOTA", "RATE_LIMIT", "TRANSIENT", "TIMEOUT">>

CircuitStates == {"CLOSED", "OPEN", "HALF_OPEN", "BLOCKED_AUTH", "BLOCKED_QUOTA"}

ASSUME CircuitAssumption ==
    /\ FailuresToOpen \in Nat \ {0}
    /\ Lease \in Nat \ {0}
    /\ MaxAge \in Nat
    /\ MaxOpen \in Nat \ {0}
    /\ MaxAge < Lease
    /\ Lease <= MaxOpen
    /\ OpenFor \in [Classes -> SUBSET (1 .. MaxOpen)]

-----------------------------------------------------------------------------
(* Records                                                                 *)

\* What a missing row reads as: CircuitRecord().
Absent == [state |-> "CLOSED", count |-> 0, left |-> 0]

Records == [state : CircuitStates, count : 0 .. FailuresToOpen,
            left  : (-MaxAge) .. MaxOpen]

StateFor(c) == CASE c = "AUTH"  -> "BLOCKED_AUTH"
                 [] c = "QUOTA" -> "BLOCKED_QUOTA"
                 [] OTHER       -> "OPEN"

ThresholdOf(c) == IF c \in CountedClasses THEN FailuresToOpen ELSE 1

\* failure_count is only ever compared with 0 and with the threshold, so it
\* saturates at FailuresToOpen.
Counted(n) == IF n < FailuresToOpen THEN n + 1 ELSE n

\* A row that admission does not pass over: closed rows and open rows below the
\* threshold are passed over.
Blocks(r, c) ==
    /\ r.state # "CLOSED"
    /\ ~ (r.state = "OPEN" /\ r.count < ThresholdOf(c))

-----------------------------------------------------------------------------
(* What admission reads in one query over the buckets of a key.            *)

Active(buckets)  == {c \in Classes : Blocks(buckets[c], c) /\ buckets[c].left > 0}
Expired(buckets) == {c \in Classes : Blocks(buckets[c], c) /\ buckets[c].left <= 0}
Failing(buckets) == {c \in CountedClasses : buckets[c].count > 0}

\* The bucket of S that comes first in CheckOrder.
FirstOf(S) ==
    CheckOrder[CHOOSE i \in DOMAIN CheckOrder :
                  /\ CheckOrder[i] \in S
                  /\ \A j \in 1 .. i - 1 : CheckOrder[j] \notin S]

-----------------------------------------------------------------------------
(* The transactions                                                        *)

Put(k, c, r) == row' = [row EXCEPT ![k][c] = r]

\* record_failure: an upsert that overwrites the state, a leased probe included.
RecordFailure(k, c, window) ==
    Put(k, c, [state |-> StateFor(c), count |-> Counted(row[k][c].count), left |-> window])

\* Faulty: the row of a leased probe is not found under the open state.
RecordSuccessOpenOnly(k, c) ==
    IF row[k][c].state = "OPEN" THEN Put(k, c, Absent) ELSE UNCHANGED row

\* record_success: the row is deleted, whoever wrote it.
RecordSuccess(k, c) == Put(k, c, Absent)

\* _claim_half_open by a caller whose `now` is `age` ticks old.
CanClaim(k, c, age) == row[k][c].state # "CLOSED" /\ row[k][c].left + age <= 0

ClaimHalfOpen(k, c, age) ==
    /\ CanClaim(k, c, age)
    /\ Put(k, c, [row[k][c] EXCEPT !.state = "HALF_OPEN", !.left = Lease - age])

\* Faulty: the lease is looked for under the state the bucket had before its claim.
ReleaseUnclaimed(k, c) ==
    IF row[k][c].state = StateFor(c)
    THEN Put(k, c, [row[k][c] EXCEPT !.left = 0])
    ELSE UNCHANGED row

\* release_half_open: no trace of who holds the lease.
ReleaseHalfOpen(k, c) ==
    IF row[k][c].state = "HALF_OPEN"
    THEN Put(k, c, [row[k][c] EXCEPT !.left = 0])
    ELSE UNCHANGED row

\* Faulty: the forced probe starts from a clean row.
ExpireCircuitForgets(k, c) ==
    IF row[k][c].state = "OPEN" THEN Put(k, c, Absent) ELSE UNCHANGED row

\* expire_circuit: ends an open window early and keeps the count.
ExpireCircuit(k, c) ==
    IF row[k][c].state = "OPEN" /\ row[k][c].left > 0
    THEN Put(k, c, [row[k][c] EXCEPT !.left = 0])
    ELSE UNCHANGED row

\* One tick of the wall clock.
Older(r) == [r EXCEPT !.left = IF r.state # "CLOSED" /\ r.left > -MaxAge
                               THEN r.left - 1 ELSE r.left]

TickRows == row' = [k \in Keys |-> [c \in Classes |-> Older(row[k][c])]]

-----------------------------------------------------------------------------
(* The table under any sequence of transactions.                           *)

CircuitInit == row = [k \in Keys |-> [c \in Classes |-> Absent]]

CircuitNext ==
    \/ TickRows
    \/ \E k \in Keys, c \in Classes :
        \/ \E window \in OpenFor[c] : RecordFailure(k, c, window)
        \/ RecordSuccess(k, c)
        \/ \E age \in 0 .. MaxAge : ClaimHalfOpen(k, c, age)
        \/ ReleaseHalfOpen(k, c)
        \/ ExpireCircuit(k, c)

CircuitSpec == CircuitInit /\ [][CircuitNext]_row

\* The rows stay in their domain: the count saturates, the window is never above its
\* ceiling (record_failure).
CircuitTypeOK == row \in [Keys -> [Classes -> Records]]

\* What the table guarantees whatever its callers do: a bucket in a state other
\* than CLOSED counts a failure, only a leased bucket of any class and the
\* blocked states of its own class exist, a lease never outlasts Lease ticks, and
\* no window outlasts the ceiling (MAX_OPEN_SECONDS: a buggy Retry-After cannot
\* park a provider).
BucketSane(r, c) ==
    /\ (r.state = "CLOSED") => (r = Absent)
    /\ (r.state # "CLOSED") => (r.count >= 1)
    /\ r.state \in {"CLOSED", "HALF_OPEN", StateFor(c)}
    /\ (r.state = "HALF_OPEN") => (r.left <= Lease)

RowsSane == \A k \in Keys, c \in Classes : BucketSane(row[k][c], c)
=============================================================================
