------------------------------ MODULE NativeExtract ------------------------------
(***************************************************************************)
(* web_extract through the host's own interface (native_backend.py) over the  *)
(* tool call of __init__.py: the URLs are judged, the accepted ones go to the *)
(* engine on a daemon thread, and the host waits for it no longer than the    *)
(* tool's timeout.  The engine has a deadline of its own, a margin earlier,   *)
(* and judges the URLs again, since a name may resolve to another address by  *)
(* then.  The host re-sends failed URLs elsewhere unless they are marked.     *)
(***************************************************************************)
EXTENDS Integers, FiniteSets

CONSTANTS
    Wanted,        \* the requested URLs
    ToolTimeout,   \* the tool's timeout, in ticks
    Margin,        \* _DEADLINE_MARGIN_SECONDS
    StartDelay,    \* the longest a thread takes to reach the engine's request scope
    MaxHostTime    \* bound on the clock

ASSUME NativeAssumption ==
    /\ ToolTimeout \in Nat /\ Margin \in Nat /\ StartDelay \in Nat
    /\ StartDelay <= Margin /\ Margin < ToolTimeout

VARIABLES
    hostTime,
    refusedFirst,  \* the URLs the first check refuses
    refusedLater,  \* those the engine's check refuses
    caller,        \* [step, entries, end]: extract of the backend, what it returns, and what
                   \* that was: the engine's answer, a failure or the end of the wait
    worker,        \* [step, deadline, rows]: the engine's thread
    begun          \* the attempts begun: [urls, at, told]: told that the call was over

nativevars == <<hostTime, refusedFirst, refusedLater, caller, worker, begun>>

Blank == [u \in Wanted |-> "none"]
Accepted1 == Wanted \ refusedFirst
AcceptedBoth == Accepted1 \ refusedLater

NativeStep(step) == caller.step = step
Report(entries, end) == caller' = [step |-> "told", entries |-> entries, end |-> end]
EngineAt(step, rows) == worker' = [step |-> step, deadline |-> worker.deadline, rows |-> rows]
Everything(word) == [u \in Wanted |-> word]

\* Refused URLs are answered without the engine; they carry blocked_by_policy.
Joined(rows) == [u \in Wanted |-> IF u \in refusedFirst THEN "refused" ELSE rows[u]]

-----------------------------------------------------------------------------
\* The engine does not load, or the check itself fails: nothing is dispatched.
NotReady ==
    /\ NativeStep("start") /\ Report(Everything("error"), "failed")
    /\ UNCHANGED <<hostTime, refusedFirst, refusedLater, worker, begun>>

CheckUrls ==
    /\ NativeStep("start")
    /\ \E R \in SUBSET Wanted :
          /\ refusedFirst' = R
          /\ IF R = Wanted THEN Report(Everything("refused"), "answered") /\ UNCHANGED worker
             ELSE /\ caller' = [caller EXCEPT !.step = "waiting"]
                  /\ EngineAt("starting", worker.rows)
    /\ UNCHANGED <<hostTime, refusedLater, begun>>

EngineDeadline(now) == now + ToolTimeout - Margin

\* The request scope of the engine, and its own check of the URLs.
EngineBegins ==
    /\ worker.step = "starting"
    /\ \E R \in SUBSET Accepted1 :
          /\ refusedLater' = R
          /\ worker' = [step |-> IF R = Accepted1 THEN "all_refused" ELSE "running",
                        deadline |-> EngineDeadline(hostTime),
                        rows |-> [u \in Wanted |-> IF u \in R THEN "refused" ELSE "none"]]
    /\ UNCHANGED <<hostTime, refusedFirst, caller, begun>>

OpenUrls == {u \in AcceptedBoth : worker.rows[u] # "page"}

\* A provider is asked for the URLs that are still open, before the deadline only.
EngineAttempts ==
    /\ worker.step = "running" /\ hostTime < worker.deadline /\ OpenUrls # {}
    /\ begun' = begun \cup {[urls |-> OpenUrls, at |-> hostTime, told |-> NativeStep("told")]}
    /\ EngineAt("asking", worker.rows)
    /\ UNCHANGED <<hostTime, refusedFirst, refusedLater, caller>>

EngineHears ==
    /\ worker.step = "asking"
    /\ \E S \in SUBSET OpenUrls :
          EngineAt("running", [u \in Wanted |-> IF u \in S THEN "page"
                                                ELSE IF u \in OpenUrls THEN "error" ELSE worker.rows[u]])
    /\ UNCHANGED <<hostTime, refusedFirst, refusedLater, caller, begun>>

EngineAnswers ==
    /\ worker.step = "running"
    /\ EngineAt("answered", [u \in Wanted |-> IF u \in OpenUrls THEN "error" ELSE worker.rows[u]])
    /\ UNCHANGED <<hostTime, refusedFirst, refusedLater, caller, begun>>

\* The engine raises, or answers with an error and no rows: a failure as a whole.
EngineFails ==
    /\ worker.step \in {"starting", "running", "asking", "all_refused"}
    /\ EngineAt("failed", worker.rows)
    /\ UNCHANGED <<hostTime, refusedFirst, refusedLater, caller, begun>>

\* Mutant: an answer without rows is an engine failure like any other.
AllRefusedGeneric == Everything("error")

\* Every URL failed the engine's check: the joined error names none of them.
AllRefused == Everything("refused")

\* A failure as a whole says nothing of single URLs: _run_extract names the refused ones in it
\* (refused_urls), which this backend does not read.
TakeEngineAnswer ==
    /\ NativeStep("waiting")
    /\ \/ worker.step = "answered" /\ Report(Joined(worker.rows), "answered")
       \/ worker.step = "all_refused" /\ Report(Joined(AllRefused), "answered")
       \/ worker.step = "failed" /\ Report(Joined(Everything("error")), "failed")
    /\ UNCHANGED <<hostTime, refusedFirst, refusedLater, worker, begun>>

\* _call_with_timeout stops waiting; the thread goes on.
CallTimesOut ==
    /\ NativeStep("waiting") /\ hostTime >= ToolTimeout
    /\ Report(Joined(Everything("error")), "timed_out")
    /\ UNCHANGED <<hostTime, refusedFirst, refusedLater, worker, begun>>

\* The clock runs from the start of the wait; a started thread gets to run in time.
HostTick ==
    /\ ~NativeStep("start") /\ hostTime < MaxHostTime
    /\ worker.step = "starting" => hostTime < StartDelay
    /\ hostTime' = hostTime + 1
    /\ UNCHANGED <<refusedFirst, refusedLater, caller, worker, begun>>

NativeInit ==
    /\ hostTime = 0 /\ refusedFirst = {} /\ refusedLater = {} /\ begun = {}
    /\ caller = [step |-> "start", entries |-> Blank, end |-> "none"]
    /\ worker = [step |-> "none", deadline |-> 0, rows |-> Blank]

NativeNext ==
    \/ NotReady \/ CheckUrls \/ EngineBegins \/ EngineAttempts \/ EngineHears
    \/ EngineAnswers \/ EngineFails \/ TakeEngineAnswer \/ CallTimesOut \/ HostTick

NativeSpec == NativeInit /\ [][NativeNext]_nativevars

-----------------------------------------------------------------------------
\* A URL that was refused is never sent to a provider by this call, and no provider is asked
\* once the call was reported over.  What the first check refused carries the mark that keeps
\* the host from sending it elsewhere, whichever way the call ends; what only the engine's
\* check refused carries it when the engine answered, and is left to the host's rescue by a
\* call that failed as a whole or was not waited for.  Nothing else is marked.
RefusalsHold ==
    /\ \A a \in begun : a.urls \cap (refusedFirst \cup refusedLater) = {} /\ ~a.told
    /\ NativeStep("told") =>
          /\ \A u \in refusedFirst : caller.entries[u] = "refused"
          /\ caller.end = "answered" => \A u \in refusedLater : caller.entries[u] = "refused"
          /\ \A u \in Wanted : caller.entries[u] = "refused" => u \in refusedFirst \cup refusedLater
=============================================================================
