------------------------------ MODULE CallPacing ------------------------------
(***************************************************************************)
(* The spacing of the calls to Brave in one process: brave_min_interval,       *)
(* brave_retry_wait, _CallPacer and _brave_get of providers.py.  The threads of *)
(* concurrent searches take turns; the distance of the turns is learned from    *)
(* the headers of the answers.  The attempt engine, which repeats a failed call, *)
(* is in AttemptEngine; here a thread may come again after the wait it was told. *)
(***************************************************************************)
EXTENDS Integers, FiniteSets, SequencesExt

CONSTANTS
    PacedThreads,
    Deadlines,    \* times at which a request may have to be over
    Headers,      \* [ok, windows: set of [limit, window], spent: set of [left, reset], after]
    Unknown,
    MaxRateWait,  \* BRAVE_MAX_RATE_WAIT_SECONDS
    ShortWindow,  \* windows up to this length are used for pacing (60 s)
    MaxPaceTime, MaxTurns   \* bounds on the clock and on the number of turns

\* The clock's unit is fine enough that no distance between turns rounds to nothing.
ASSUME PacingAssumption ==
    /\ MaxRateWait \in Nat \ {0} /\ ShortWindow \in Nat /\ MaxPaceTime \in Nat /\ MaxTurns \in Nat
    /\ Deadlines \subseteq Nat /\ Unknown \notin Int
    /\ \A h \in Headers :
          /\ h.after \in Int \cup {Unknown}
          /\ \A w \in h.windows :
                /\ w.limit \in Int /\ w.window \in Int
                /\ w.limit > 0 /\ w.window > 0 /\ w.window <= ShortWindow => w.window >= w.limit

VARIABLES
    paceClock,
    interval,    \* the distance learned so far, 0: none
    lastStart,   \* the last turn given out, -1: none
    nextSlot,    \* no turn before this time
    paced,      \* thread -> [at, start, deadline, retry]
    turns,       \* the turns given out since a caller last passed the queue
    lastTurn,    \* [start, asked, interval] of the last one
    turnCount

pacevars == <<paceClock, interval, lastStart, nextSlot, paced, turns, lastTurn, turnCount>>

Later(a, b) == IF a >= b THEN a ELSE b
Longest(values) == CHOOSE v \in values : \A w \in values : v >= w

\* brave_min_interval: the distance the tightest short window asks for.
MinInterval(headers) ==
    LET short == {w \in headers.windows : w.limit > 0 /\ w.window > 0 /\ w.window <= ShortWindow}
    IN IF short = {} THEN Unknown ELSE Longest({w.window \div w.limit : w \in short})

\* brave_retry_wait: what Retry-After says, else until the last spent window is new.
RetryWait(headers) ==
    LET spent == {s \in headers.spent : s.left <= 0}
    IN IF headers.after # Unknown THEN Later(0, headers.after)
       ELSE IF spent = {} THEN Unknown ELSE Longest({s.reset : s \in spent})

\* The wait a refused call reports; a window that is long spent is not waited for (_brave_get).
ReportedRetry(headers) ==
    IF headers.after # Unknown \/ RetryWait(headers) = Unknown \/ RetryWait(headers) <= MaxRateWait
    THEN RetryWait(headers) ELSE Unknown

Caller(place, start, deadline, retry) ==
    [at |-> place, start |-> start, deadline |-> deadline, retry |-> retry]
NoTurn == Caller("idle", 0, 0, Unknown)
CallerAt(t, place) == paced[t].at = place
PutCaller(t, record) == paced' = [paced EXCEPT ![t] = record]

\* A request of the thread begins, with its deadline.
BeginCaller(t) ==
    /\ CallerAt(t, "idle")
    /\ \E d \in Deadlines : d > paceClock /\ PutCaller(t, Caller("ask", 0, d, Unknown))
    /\ UNCHANGED <<paceClock, interval, lastStart, nextSlot, turns, lastTurn, turnCount>>

\* wait_turn: a turn too far away is not waited for, one past the deadline not taken.
WaitTurn(t) ==
    LET queued == Later(paceClock, nextSlot)
        jumped == queued - paceClock > MaxRateWait
        start  == IF jumped THEN paceClock ELSE queued
    IN  /\ CallerAt(t, "ask") /\ turnCount < MaxTurns
        /\ IF paced[t].deadline <= start
           THEN PutCaller(t, Caller("expiring", 0, paced[t].deadline, Unknown)) /\ UNCHANGED <<lastStart, nextSlot, turns, lastTurn, turnCount>>
           ELSE /\ PutCaller(t, Caller("sleep", start, paced[t].deadline, Unknown))
                /\ lastStart' = start /\ nextSlot' = start + interval
                /\ turns' = IF jumped THEN <<start>> ELSE Append(turns, start)
                /\ lastTurn' = [start |-> start, asked |-> paceClock, interval |-> interval]
                /\ turnCount' = turnCount + 1
        /\ UNCHANGED <<paceClock, interval>>

\* The rest of the request's time is slept away (RequestDeadlineExceeded).
ExpireTurn(t) ==
    /\ CallerAt(t, "expiring") /\ paceClock >= paced[t].deadline
    /\ PutCaller(t, NoTurn)
    /\ UNCHANGED <<paceClock, interval, lastStart, nextSlot, turns, lastTurn, turnCount>>

\* Mutant: the turns already reserved are not moved.
SlotKept(distance) == nextSlot

\* The next turn once a distance is learned: counted from the last turn given out.
SlotAfter(distance) == IF lastStart = -1 THEN nextSlot ELSE Later(nextSlot, lastStart + distance)

\* learn
Learned(headers) == IF MinInterval(headers) > MaxRateWait THEN MaxRateWait ELSE MinInterval(headers)

\* The call begins once the turn has come and ends with an answer (_brave_get).
EndGet(t) ==
    /\ CallerAt(t, "sleep") /\ paceClock >= paced[t].start
    /\ \E headers \in Headers :
        /\ PutCaller(t, IF headers.ok THEN NoTurn
                        ELSE Caller("refused", paceClock, paced[t].deadline, ReportedRetry(headers)))
        /\ IF MinInterval(headers) = Unknown THEN UNCHANGED <<interval, nextSlot>>
           ELSE interval' = Learned(headers) /\ nextSlot' = SlotAfter(Learned(headers))
    /\ UNCHANGED <<paceClock, lastStart, turns, lastTurn, turnCount>>

\* The engine repeats the call, not before the wait is over.
AgainPaced(t) ==
    /\ CallerAt(t, "refused")
    /\ paced[t].retry # Unknown => paceClock >= paced[t].start + paced[t].retry
    /\ PutCaller(t, Caller("ask", 0, paced[t].deadline, Unknown))
    /\ UNCHANGED <<paceClock, interval, lastStart, nextSlot, turns, lastTurn, turnCount>>

PaceTick ==
    /\ paceClock < MaxPaceTime /\ paceClock' = paceClock + 1
    /\ UNCHANGED <<interval, lastStart, nextSlot, paced, turns, lastTurn, turnCount>>

PaceInit ==
    /\ paceClock = 0 /\ interval = 0 /\ lastStart = -1 /\ nextSlot = 0 /\ turns = <<>>
    /\ lastTurn = [start |-> 0, asked |-> 0, interval |-> 0] /\ turnCount = 0
    /\ paced = [t \in PacedThreads |-> NoTurn]

PaceNext ==
    \/ PaceTick
    \/ \E t \in PacedThreads : BeginCaller(t) \/ WaitTurn(t) \/ ExpireTurn(t) \/ EndGet(t) \/ AgainPaced(t)

PaceSpec == PaceInit /\ [][PaceNext]_pacevars

-----------------------------------------------------------------------------
\* Turns keep the learned distance to every earlier turn since a caller last passed the queue,
\* whichever thread took or learned them; nobody waits longer than the longest wait, and a
\* process that was never told of a limit is not slowed; no call is held back for a window
\* that is spent for long, unless the provider names a time itself (_CallPacer).
PacingSound ==
    /\ \A k \in 1 .. Len(turns) - 1 : lastTurn.start >= turns[k] + lastTurn.interval
    /\ lastTurn.start \in lastTurn.asked .. lastTurn.asked + MaxRateWait
    /\ lastTurn.interval = 0 => lastTurn.start = lastTurn.asked
    /\ \A t \in PacedThreads :
          /\ CallerAt(t, "sleep") => paced[t].start < paced[t].deadline
          /\ paced[t].retry # Unknown => paced[t].retry <= MaxRateWait \/ \E h \in Headers : h.after = paced[t].retry
=============================================================================
