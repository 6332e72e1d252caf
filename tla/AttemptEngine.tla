---------------------------- MODULE AttemptEngine ----------------------------
(***************************************************************************)
(* AttemptEngine.execute (src/wsp_core/attempt_engine_v3.py): one provider   *)
(* attempt of a request, run by several calls at once.  Calls of one         *)
(* request (the hedged race, the research fan-out) share its state store     *)
(* object: the in-memory request budget and the store's availability flag.   *)
(* Calls of all requests share the SQLite tables: the circuit rows           *)
(* (CircuitStore) and the daily provider-call budget (BudgetLedger).         *)
(*                                                                         *)
(* One action is one transaction or one lock-protected step, so every        *)
(* interleaving of two calls between two store operations is a behaviour.    *)
(***************************************************************************)
EXTENDS CircuitStore

CONSTANTS
    Calls,         \* attempts that may be running; a slot is reused by the next request
    Requests,
    RequestOf,     \* [Calls -> Requests]
    KeyOf,         \* [Calls -> Keys]
    None,
    MaxAttempts,   \* tries of one attempt (max_attempts_per_provider)
    RequestLimit,  \* max_provider_attempts of a request
    DailyLimits,   \* values max_daily_provider_calls may have; {} when it is off
    MaxDaily,      \* no daily limit is above it
    ErrorClasses,  \* classes a try may end with; those outside Classes are not health
    ProbeBound,    \* ticks a call may hold a probe lease
    Deadlines,     \* whether requests have a deadline (max_wall_time_ms)
    StoreFaults,   \* whether a store operation may raise sqlite3.Error
    Crashes,       \* whether the process of a request may die
    LastResorts,   \* whether a search may force a probe (_last_resort_probe)
    Batches        \* whether an attempt may send several requests (extraction)

VARIABLES
    call,     \* call[p]: the local state of one execute()
    request,  \* request[r]: what the calls of one request share in memory
    daily,    \* the daily row of budget_ledger
    paid,     \* attempts that reached a provider in the daily window (history)
    spent,    \* spent[r]: attempts of the running request that did (history)
    excused   \* buckets whose lease is rightly left to run out (history)

vars == <<row, call, request, daily, paid, spent, excused>>

DailyHeld   == {p \in Calls : call[p].daily}
DailyFlying == {p \in Calls : call[p].daily /\ call[p].sent}

Ledger == INSTANCE BudgetLedger WITH
            Callers <- Calls, Limits <- DailyLimits, MaxLimit <- MaxDaily,
            ledger <- daily, held <- DailyHeld, flying <- DailyFlying

\* Faulty: a retry after a rejected key, which counts AUTH as met on the way.
RetryableAll == {"RATE_LIMIT", "TRANSIENT", "TIMEOUT", "AUTH"}

\* ProviderError.retryable, as classify_provider_error sets it.
Retryable == {"RATE_LIMIT", "TRANSIENT", "TIMEOUT"}

ASSUME EngineAssumption ==
    /\ RequestOf \in [Calls -> Requests]
    /\ KeyOf \in [Calls -> Keys]
    /\ MaxAttempts \in Nat \ {0}
    /\ RequestLimit \in Nat
    /\ MaxDaily \in Nat
    /\ DailyLimits \subseteq 1 .. MaxDaily
    /\ IsFiniteSet(Calls)
    /\ ProbeBound \in Nat
    /\ Deadlines \in BOOLEAN /\ StoreFaults \in BOOLEAN /\ Crashes \in BOOLEAN /\ LastResorts \in BOOLEAN
    /\ Batches \in BOOLEAN
    /\ None \notin Classes \cup ErrorClasses

-----------------------------------------------------------------------------
(* State of a call and of a request                                        *)

\* Where a call stands: each label names the step it takes next.
Steps == {"ready", "top", "claim", "reserve", "configure", "daily", "call", "sent",
          "settle", "judge", "unlease", "sleep", "record", "clear", "expire", "over"}

Idle(pc) ==
    [pc |-> pc, try |-> 0, age |-> 0, want |-> None, failing |-> {}, lease |-> None,
     clock |-> 0, enc |-> {}, err |-> None, out |-> None, daily |-> FALSE,
     sent |-> FALSE, outage |-> FALSE]

NewRequest ==
    [deadline |-> "far", available |-> TRUE, probed |-> FALSE,
     budget |-> [limit |-> RequestLimit, used |-> 0, reserved |-> 0]]

CallsOf(r) == {p \in Calls : RequestOf[p] = r}
Running(p) == call[p].pc \notin {"ready", "over"}

Init ==
    /\ CircuitInit
    /\ call = [p \in Calls |-> Idle("ready")]
    /\ request = [r \in Requests |-> NewRequest]
    /\ daily = Ledger!NoBudget
    /\ paid = 0
    /\ spent = [r \in Requests |-> 0]
    /\ excused = {}

-----------------------------------------------------------------------------
(* Helpers                                                                 *)

Req(p) == request[RequestOf[p]]
Key(p) == KeyOf[p]
Up(p)  == Req(p).available

Set(p, c) == call' = [call EXCEPT ![p] = c]
Goto(p, pc) == Set(p, [call[p] EXCEPT !.pc = pc])
End(p) == Set(p, Idle("over"))

\* _stopped: a retry that cannot run reports the failure of the try before it;
\* an attempt that never ran is skipped.
Stop(p) == IF call[p].err # None THEN Goto(p, "record") ELSE End(p)

\* Faulty: an early exit that forgets the lease.
LeaveLeased(p, next) == IF next = "stop" THEN Stop(p) ELSE End(p)

\* Leaving without a verdict on the provider: first give the lease back, if this
\* call holds one, then stop or end.
Leave(p, next) ==
    IF call[p].lease # None
    THEN Set(p, [call[p] EXCEPT !.pc = "unlease", !.out = next])
    ELSE IF next = "stop" THEN Stop(p) ELSE End(p)

\* A store operation that raises sqlite3.Error: nothing is written and the store
\* object is unavailable from now on.
Unreachable(p) == IF Up(p) THEN StoreFaults ELSE TRUE
MarkDown(p) == request' = [request EXCEPT ![RequestOf[p]].available = FALSE]

Budget(p, b) == request' = [request EXCEPT ![RequestOf[p]].budget = b]

-----------------------------------------------------------------------------
(* Admission                                                               *)

OutOfTime(p) == \/ Req(p).deadline = "passed"
                \/ call[p].pc = "top" /\ Req(p).deadline = "near"

\* The head of the attempt loop refuses to start a try after the deadline, or a
\* retry within its last second.  A lease held from an earlier try is kept.
Late(p) ==
    /\ call[p].pc \in {"ready", "top"}
    /\ OutOfTime(p)
    /\ Stop(p)
    /\ UNCHANGED <<row, request, daily, paid, spent, excused>>

\* A retry runs under the lease this call already holds.
ReuseLease(p) ==
    /\ call[p].pc = "top"
    /\ ~ OutOfTime(p)
    /\ call[p].lease # None
    /\ Goto(p, "reserve")
    /\ UNCHANGED <<row, request, daily, paid, spent, excused>>

MayAsk(p) ==
    /\ call[p].pc \in {"ready", "top"}
    /\ ~ OutOfTime(p)
    /\ call[p].lease = None

\* admit: the buckets of the key are read at once and judged.
AdmitRead(p) ==
    /\ MayAsk(p)
    /\ Up(p)
    /\ LET buckets == row[Key(p)] IN
       \/ /\ Active(buckets) # {}
          /\ IF call[p].err # None
             THEN Goto(p, "record")
             ELSE Set(p, [Idle("over") EXCEPT
                            !.outage = FirstOf(Active(buckets)) \in CountedClasses])
       \/ /\ Active(buckets) = {}
          /\ Expired(buckets) # {}
          /\ Set(p, [call[p] EXCEPT !.pc = "claim", !.want = FirstOf(Expired(buckets)),
                                    !.failing = Failing(buckets)])
       \/ /\ Active(buckets) \cup Expired(buckets) = {}
          /\ Set(p, [call[p] EXCEPT !.pc = "reserve", !.enc = @ \cup Failing(buckets)])
    /\ UNCHANGED <<row, request, daily, paid, spent, excused>>

\* admit without a store: allowed, circuit state UNKNOWN.
AdmitBlind(p) ==
    /\ \/ MayAsk(p)
       \/ call[p].pc = "claim"
    /\ Unreachable(p)
    /\ Set(p, [call[p] EXCEPT !.pc = "reserve", !.want = None, !.failing = {}, !.age = 0])
    /\ MarkDown(p)
    /\ UNCHANGED <<row, daily, paid, spent, excused>>

\* _claim_half_open, in a later transaction than the read that led to it.
Claim(p) ==
    /\ call[p].pc = "claim"
    /\ Up(p)
    /\ LET c == call[p].want IN
       /\ ClaimHalfOpen(Key(p), c, call[p].age)
       /\ Set(p, [call[p] EXCEPT !.pc = "reserve", !.lease = c, !.clock = call[p].age,
                                 !.enc = @ \cup {c} \cup call[p].failing,
                                 !.want = None, !.failing = {}, !.age = 0])
       /\ excused' = excused \ {<<Key(p), c>>}
    /\ UNCHANGED <<request, daily, paid, spent>>

\* Somebody else took the probe, or the bucket changed: denied.
ClaimLost(p) ==
    /\ call[p].pc = "claim"
    /\ Up(p)
    /\ ~ CanClaim(Key(p), call[p].want, call[p].age)
    /\ IF call[p].err # None
       THEN Set(p, [call[p] EXCEPT !.pc = "record", !.want = None, !.failing = {}, !.age = 0])
       ELSE Set(p, [Idle("over") EXCEPT !.outage = call[p].want \in CountedClasses])
    /\ UNCHANGED <<row, request, daily, paid, spent, excused>>

-----------------------------------------------------------------------------
(* Budgets                                                                 *)

AfterReserve == IF DailyLimits = {} THEN "call" ELSE "configure"

ReserveRequest(p) ==
    /\ call[p].pc = "reserve"
    /\ Ledger!CanReserve(Req(p).budget)
    /\ Budget(p, Ledger!Reserved(Req(p).budget))
    /\ Goto(p, AfterReserve)
    /\ UNCHANGED <<row, daily, paid, spent, excused>>

RequestBudgetBlocked(p) ==
    /\ call[p].pc = "reserve"
    /\ ~ Ledger!CanReserve(Req(p).budget)
    /\ Leave(p, "stop")
    /\ UNCHANGED <<row, request, daily, paid, spent, excused>>

\* configure_budget upserts the limit of the configuration this request was started
\* with; two requests may have been started with different ones.
ConfigureDaily(p) ==
    /\ call[p].pc = "configure"
    /\ Goto(p, "daily")
    /\ \/ /\ Up(p)
          /\ \E limit \in DailyLimits : daily' = Ledger!Configured(daily, limit)
          /\ UNCHANGED request
       \/ /\ Unreachable(p)
          /\ MarkDown(p)
          /\ UNCHANGED daily
    /\ UNCHANGED <<row, paid, spent, excused>>

ReserveDaily(p) ==
    /\ call[p].pc = "daily"
    /\ Up(p)
    /\ Ledger!CanReserve(daily)
    /\ daily' = Ledger!Reserved(daily)
    /\ Set(p, [call[p] EXCEPT !.pc = "call", !.daily = TRUE])
    /\ UNCHANGED <<row, request, paid, spent, excused>>

\* Faulty: the request budget is not given back.
DailyBudgetBlockedKeeps(p) ==
    /\ call[p].pc = "daily"
    /\ Leave(p, "stop")
    /\ IF Up(p) THEN ~ Ledger!CanReserve(daily) /\ UNCHANGED request
                ELSE MarkDown(p)
    /\ UNCHANGED <<row, daily, paid, spent, excused>>

\* The daily limit is reached or cannot be verified: the call is not made and
\* the request budget is given back.
DailyBudgetBlocked(p) ==
    /\ call[p].pc = "daily"
    /\ Leave(p, "stop")
    /\ \/ /\ Up(p)
          /\ ~ Ledger!CanReserve(daily)
          /\ Budget(p, Ledger!Released(Req(p).budget))
       \/ /\ Unreachable(p)
          /\ request' = [request EXCEPT ![RequestOf[p]].available = FALSE,
                                        ![RequestOf[p]].budget = Ledger!Released(@)]
    /\ UNCHANGED <<row, daily, paid, spent, excused>>

-----------------------------------------------------------------------------
(* The provider call                                                       *)

\* dispatch_timeout lets a request out only before the deadline.
Dispatch(p) ==
    /\ call[p].pc = "call"
    /\ Req(p).deadline # "passed"
    /\ Set(p, [call[p] EXCEPT !.pc = "sent", !.sent = call[p].daily])
    /\ paid' = IF DailyLimits # {} THEN paid + 1 ELSE paid
    /\ spent' = [spent EXCEPT ![RequestOf[p]] = @ + 1]
    /\ UNCHANGED <<row, request, daily, excused>>

\* Faulty: the daily reservation is forgotten on the way out.
SettlingForgotten(p) == "judge"

\* A daily reservation is settled next, in a transaction of its own.
Settling(p) == IF call[p].daily THEN "settle" ELSE "judge"

\* RequestDeadlineExceeded: nothing was dispatched on this try.
NotTried(p) ==
    /\ call[p].pc = "call"
    /\ Req(p).deadline = "passed"
    /\ Budget(p, Ledger!Released(Req(p).budget))
    /\ Set(p, [call[p] EXCEPT !.pc = Settling(p), !.out = "unsent"])
    /\ UNCHANGED <<row, daily, paid, spent, excused>>

\* The operation returns or raises and the request budget is charged.  "raise"
\* stands for control flow and host secret-scope errors.
Return(p) ==
    /\ call[p].pc = "sent"
    /\ Budget(p, Ledger!Committed(Req(p).budget))
    /\ \/ \E out \in {"ok", "raise"} : Set(p, [call[p] EXCEPT !.pc = Settling(p), !.out = out])
       \/ \E c \in ErrorClasses :
            Set(p, [call[p] EXCEPT !.pc = Settling(p), !.out = "error", !.err = c])
    /\ UNCHANGED <<row, daily, paid, spent, excused>>

\* A batch extraction: the answered page failed, and the deadline passed between
\* the batch's own check and the next page's dispatch.  The adapter re-raises the
\* page's RequestDeadlineExceeded, and the whole try counts as not dispatched.
BatchNotTried(p) ==
    /\ Batches
    /\ call[p].pc = "sent"
    /\ Req(p).deadline = "passed"
    /\ Budget(p, Ledger!Released(Req(p).budget))
    /\ Set(p, [call[p] EXCEPT !.pc = Settling(p), !.out = "unsent"])
    /\ UNCHANGED <<row, daily, paid, spent, excused>>

\* An adapter error before its first request (a missing key) is charged as well.
FailUnsent(p) ==
    /\ call[p].pc = "call"
    /\ Budget(p, Ledger!Committed(Req(p).budget))
    /\ \/ Set(p, [call[p] EXCEPT !.pc = Settling(p), !.out = "raise"])
       \/ \E c \in ErrorClasses \ Classes :
            Set(p, [call[p] EXCEPT !.pc = Settling(p), !.out = "error", !.err = c])
    /\ UNCHANGED <<row, daily, paid, spent, excused>>

\* Faulty: only a success is charged.
SettledRefundsFailures(p) ==
    IF call[p].out = "ok" THEN Ledger!Committed(daily) ELSE Ledger!Released(daily)

Settled(p) ==
    IF call[p].out = "unsent" THEN Ledger!Released(daily) ELSE Ledger!Committed(daily)

\* commit_budget or release_budget of the daily reservation.
SettleDaily(p) ==
    /\ call[p].pc = "settle"
    /\ Set(p, [call[p] EXCEPT !.pc = "judge", !.daily = FALSE, !.sent = FALSE])
    /\ \/ /\ Up(p)
          /\ daily' = Settled(p)
          /\ UNCHANGED request
       \/ /\ Unreachable(p)
          /\ MarkDown(p)
          /\ UNCHANGED daily
    /\ UNCHANGED <<row, paid, spent, excused>>

\* Faulty: one try too many.
MayRetryOnceMore(p) ==
    /\ call[p].err \in Retryable
    /\ call[p].try < MaxAttempts
    /\ Req(p).deadline = "far"

\* _retry_wait: a retry needs a retryable class, a try left and time to wait.
MayRetry(p) ==
    /\ call[p].err \in Retryable
    /\ call[p].try < MaxAttempts - 1
    /\ Req(p).deadline = "far"

\* is_request_deadline_abort: a timeout, or a transport error without a status, once
\* the deadline has passed says nothing about the provider.
MustAbort(p) == Req(p).deadline = "passed" /\ call[p].err = "TIMEOUT"
MayAbort(p)  == Req(p).deadline = "passed" /\ call[p].err \in {"TIMEOUT", "TRANSIENT"}

JudgeError(p) ==
    \/ /\ call[p].err \notin Classes \/ MayAbort(p)
       /\ Leave(p, "end")
    \/ /\ call[p].err \in Classes
       /\ ~ MustAbort(p)
       /\ Goto(p, "record")
    \/ /\ MayRetry(p)
       /\ Set(p, [call[p] EXCEPT !.pc = "sleep", !.out = None, !.enc = @ \cup {call[p].err}])

\* What the outcome of the try leads to once the budgets are settled.
Judge(p) ==
    /\ call[p].pc = "judge"
    /\ CASE call[p].out = "ok"     -> IF call[p].enc = {} THEN End(p) ELSE Goto(p, "clear")
         [] call[p].out = "unsent" -> Leave(p, "stop")
         [] call[p].out = "raise"  -> Leave(p, "end")
         [] call[p].out = "error"  -> JudgeError(p)
    /\ UNCHANGED <<row, request, daily, paid, spent, excused>>

\* self.sleep(retry_wait), which an interrupt may end early.
Wake(p) ==
    /\ call[p].pc = "sleep"
    /\ \/ Set(p, [call[p] EXCEPT !.pc = "top", !.try = @ + 1])
       \/ Leave(p, "end")
    /\ UNCHANGED <<row, request, daily, paid, spent, excused>>

-----------------------------------------------------------------------------
(* The verdict                                                             *)

\* _release_lease, then what the code path does next.
ReleaseLease(p) ==
    /\ call[p].pc = "unlease"
    /\ IF call[p].out = "stop"
       THEN Set(p, [call[p] EXCEPT !.pc = IF call[p].err # None THEN "record" ELSE "over",
                                   !.lease = None, !.clock = 0, !.out = None,
                                   !.enc = {}, !.try = 0])
       ELSE End(p)
    /\ \/ /\ Up(p)
          /\ ReleaseHalfOpen(Key(p), call[p].lease)
          /\ UNCHANGED <<request, excused>>
       \/ /\ Unreachable(p)
          /\ MarkDown(p)
          /\ excused' = excused \cup {<<Key(p), call[p].lease>>}
          /\ UNCHANGED row
    /\ UNCHANGED <<daily, paid, spent>>

\* The lease of a call that ends without touching its bucket: it was used.
LeaseLeft(p) == IF call[p].lease = None THEN {} ELSE {<<Key(p), call[p].lease>>}

\* _failed: the provider's failure is recorded in the bucket of its class.
RecordVerdict(p) ==
    /\ call[p].pc = "record"
    /\ End(p)
    /\ excused' = excused \cup LeaseLeft(p)
    /\ \/ /\ Up(p)
          /\ \E window \in OpenFor[call[p].err] : RecordFailure(Key(p), call[p].err, window)
          /\ UNCHANGED request
       \/ /\ Unreachable(p)
          /\ MarkDown(p)
          /\ UNCHANGED row
    /\ UNCHANGED <<daily, paid, spent>>

\* A success clears every bucket this call met, one transaction each.
ClearBucket(p) ==
    /\ call[p].pc = "clear"
    /\ \E c \in call[p].enc :
        /\ IF call[p].enc = {c} THEN End(p) ELSE Set(p, [call[p] EXCEPT !.enc = @ \ {c}])
        /\ \/ /\ Up(p)
              /\ RecordSuccess(Key(p), c)
              /\ UNCHANGED <<request, excused>>
           \/ /\ Unreachable(p)
              /\ MarkDown(p)
              /\ excused' = excused \cup LeaseLeft(p)
              /\ UNCHANGED row
    /\ UNCHANGED <<daily, paid, spent>>

-----------------------------------------------------------------------------
(* The search around the attempts                                          *)

\* _last_resort_probe: every candidate was skipped as CIRCUIT_OPEN, so the windows
\* of one are ended, class by class, and it is attempted again.
LastResort(p) ==
    /\ LastResorts
    /\ ~ Req(p).probed
    /\ \A q \in CallsOf(RequestOf[p]) : call[q].pc = "over" /\ call[q].outage
    /\ request' = [request EXCEPT ![RequestOf[p]].probed = TRUE]
    /\ Set(p, [Idle("expire") EXCEPT !.want = "TRANSIENT"])
    /\ UNCHANGED <<row, daily, paid, spent, excused>>

ExpireWindow(p) ==
    /\ call[p].pc = "expire"
    /\ IF call[p].want = "TRANSIENT"
       THEN Set(p, [call[p] EXCEPT !.want = "TIMEOUT"])
       ELSE Set(p, Idle("ready"))
    /\ \/ /\ Up(p)
          /\ ExpireCircuit(Key(p), call[p].want)
          /\ UNCHANGED request
       \/ /\ Unreachable(p)
          /\ MarkDown(p)
          /\ UNCHANGED row
    /\ UNCHANGED <<daily, paid, spent, excused>>

\* The next request in the slots of r: a new store object, a new request budget.
BeginRequest(r) ==
    /\ \A p \in CallsOf(r) : ~ Running(p)
    /\ \E p \in CallsOf(r) : call[p].pc = "over"
    /\ call' = [p \in Calls |-> IF RequestOf[p] = r THEN Idle("ready") ELSE call[p]]
    /\ request' = [request EXCEPT ![r] = NewRequest]
    /\ spent' = [spent EXCEPT ![r] = 0]
    /\ UNCHANGED <<row, daily, paid, excused>>

-----------------------------------------------------------------------------
(* The environment                                                         *)

Approach(r) ==
    /\ Deadlines
    /\ \E p \in CallsOf(r) : call[p].pc # "over"
    /\ \/ /\ request[r].deadline = "far"
          /\ request' = [request EXCEPT ![r].deadline = "near"]
       \/ /\ request[r].deadline = "near"
          /\ request' = [request EXCEPT ![r].deadline = "passed"]
    /\ UNCHANGED <<row, call, daily, paid, spent, excused>>

\* _reprobe: the store answers again, RECOVERY_PROBE_SECONDS after an error.
Recover(r) ==
    /\ ~ request[r].available
    /\ request' = [request EXCEPT ![r].available = TRUE]
    /\ UNCHANGED <<row, call, daily, paid, spent, excused>>

\* The process of a request dies with its memory.  What it held in SQLite stays.
Crash(r) ==
    /\ Crashes
    /\ \E p \in CallsOf(r) : Running(p)
    /\ call' = [p \in Calls |-> IF RequestOf[p] = r THEN Idle("over") ELSE call[p]]
    /\ request' = [request EXCEPT ![r] = NewRequest]
    /\ spent' = [spent EXCEPT ![r] = 0]
    /\ excused' = excused \cup UNION {LeaseLeft(p) : p \in CallsOf(r)}
    /\ UNCHANGED <<row, daily, paid>>

\* Time passes.  A claim is not delayed beyond MaxAge (SQLite's busy timeout) and
\* a probe ends within ProbeBound.
Tick ==
    /\ \A p \in Calls :
        /\ call[p].pc = "claim" => call[p].age < MaxAge
        /\ call[p].lease # None => call[p].clock < ProbeBound
    /\ TickRows
    /\ call' = [p \in Calls |->
                  [call[p] EXCEPT !.age = IF call[p].pc = "claim" THEN @ + 1 ELSE @,
                                  !.clock = IF call[p].lease # None THEN @ + 1 ELSE @]]
    /\ UNCHANGED <<request, daily, paid, spent, excused>>

Admission(p) == \/ Late(p) \/ ReuseLease(p) \/ AdmitRead(p) \/ AdmitBlind(p)
                \/ Claim(p) \/ ClaimLost(p)
Budgeting(p) == \/ ReserveRequest(p) \/ RequestBudgetBlocked(p) \/ ConfigureDaily(p)
                \/ ReserveDaily(p) \/ DailyBudgetBlocked(p)
Calling(p)   == \/ Dispatch(p) \/ NotTried(p) \/ Return(p) \/ BatchNotTried(p)
                \/ FailUnsent(p)
                \/ SettleDaily(p) \/ Judge(p) \/ Wake(p)
Verdict(p)   == ReleaseLease(p) \/ RecordVerdict(p) \/ ClearBucket(p)

CallStep(p) == Admission(p) \/ Budgeting(p) \/ Calling(p) \/ Verdict(p) \/ ExpireWindow(p)

Next ==
    \/ \E p \in Calls : CallStep(p) \/ LastResort(p)
    \/ \E r \in Requests : BeginRequest(r) \/ Approach(r) \/ Recover(r) \/ Crash(r)
    \/ Tick

Spec == Init /\ [][Next]_vars

-----------------------------------------------------------------------------
(* Correctness                                                             *)

CallRecords ==
    [pc : Steps, try : 0 .. MaxAttempts - 1, age : 0 .. MaxAge,
     want : Classes \cup {None}, failing : SUBSET CountedClasses,
     lease : Classes \cup {None}, clock : Nat, enc : SUBSET Classes,
     err : ErrorClasses \cup {None},
     out : {"ok", "error", "raise", "unsent", "stop", "end", None},
     daily : BOOLEAN, sent : BOOLEAN, outage : BOOLEAN]

RequestRecords ==
    [deadline : {"far", "near", "passed"}, available : BOOLEAN, probed : BOOLEAN,
     budget : [limit : {RequestLimit}, used : 0 .. RequestLimit, reserved : 0 .. RequestLimit]]

\* The engine's state stays in its domains; the request budget never overdraws.
TypeOK ==
    /\ CircuitTypeOK
    /\ call \in [Calls -> CallRecords]
    /\ request \in [Requests -> RequestRecords]
    /\ daily \in [limit : DailyLimits \cup {0}, used : 0 .. MaxDaily, reserved : 0 .. MaxDaily]
    /\ paid \in Nat
    /\ spent \in [Requests -> Nat]
    /\ excused \subseteq Keys \X Classes

\* p is the probe of bucket c: it claimed the lease, which has not run out, and it
\* has no verdict yet.
Probing(p, c) == /\ call[p].lease = c
                 /\ call[p].clock < Lease
                 /\ call[p].pc # "clear"

\* "Atomically lease one probe for an expired circuit bucket": two calls never probe
\* the same bucket under running leases (_claim_half_open).
OneProbe ==
    \A p, q \in Calls : \A c \in Classes :
        Probing(p, c) /\ Probing(q, c) /\ KeyOf[p] = KeyOf[q] => p = q

\* A probe lease that nobody uses is given back: a bucket stays leased only while
\* its prober runs, or after a prober that tried the provider and learned nothing
\* about this bucket, died, or could not reach the store (_release_lease on every
\* early exit of execute).
NoStrandedLease ==
    \A k \in Keys, c \in Classes :
        row[k][c].state = "HALF_OPEN" /\ row[k][c].left > 0 =>
            \/ \E p \in Calls : KeyOf[p] = k /\ call[p].lease = c
            \/ <<k, c>> \in excused

\* A failure count only falls when a call has succeeded; ending a window early, losing
\* or giving back a lease, a blocked budget and a deadline all keep it.
FailureCountKept ==
    [][\A k \in Keys, c \in Classes :
        row'[k][c].count < row[k][c].count
            => \E p \in Calls : KeyOf[p] = k /\ call[p].pc = "clear" /\ c \in call[p].enc]_vars

\* The calls of r that hold a unit of its request budget.
Holding == {"configure", "daily", "call", "sent"}
Reserving(r) == {p \in CallsOf(r) : call[p].pc \in Holding}

\* On every path through execute a request reservation is settled exactly once.
ReservationsExact ==
    \A r \in Requests : request[r].budget.reserved = Cardinality(Reserving(r))

\* "No dispatch on this try: return both reservations": an attempt that reached its
\* provider is charged to max_provider_attempts, and its unit never comes back.
PaidWithinRequestBudget ==
    \A r \in Requests : spent[r] <= request[r].budget.used + request[r].budget.reserved

\* The daily ledger across requests, crashes and store errors: no unit is handed out
\* twice, and every attempt that reached a provider is charged or stays reserved.
DailyBudgetSafe ==
    /\ Ledger!HoldersAreReserved
    /\ Ledger!WithinLimit
    /\ Ledger!PaidIsAccounted

\* A daily unit is lost, reserved for nobody, only when the process of its call dies
\* or the store cannot be reached to settle it (every other path through execute,
\* the early returns and the re-raised errors included, settles what it reserved).
LostUnits == daily.reserved - Cardinality(DailyHeld)
NoReservationLeak ==
    [][LostUnits' # LostUnits
        => \/ \E r \in Requests : Crash(r)
           \/ \E p \in Calls : call[p].pc = "settle" /\ ~ request'[RequestOf[p]].available]_vars

\* Every step of the engine follows the ledger's reserve-then-reconcile protocol.
FollowsLedger == Ledger!LedgerSpec
=============================================================================
