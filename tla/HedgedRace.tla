------------------------------ MODULE HedgedRace ------------------------------
(***************************************************************************)
(* One search: _race_providers and _last_resort_probe as                    *)
(* _execute_search_v3 calls them (src/wsp_core/search.py).  The candidates    *)
(* run in order on daemon threads, a second one beside the first when that   *)
(* one is slow, until one of them has results.  Each thread runs one         *)
(* AttemptEngine.execute, of which only the kind of its end matters here.     *)
(***************************************************************************)
EXTENDS DaemonTasks

CONSTANT N   \* number of candidates; candidate p is the p-th in the plan's order

ASSUME RaceAssumption == N \in Nat \ {0} /\ Workers = 1 .. N

MaxInFlight == 2

\* How execute may end: results, no results, a failed or aborted attempt, a skip because
\* the circuit is open or for another reason, an exception the race swallows, or one it
\* lets through (a secret-scope error).
Ends == {"answer", "empty", "failed", "outage", "skipped", "swallowed", "scope"}

ASSUME EndsAssumption ==
    Outcomes = Ends /\ None \notin Ends /\ None # "late" /\ None \notin Workers

VARIABLES
    pc,         \* where the race stands
    next,       \* first candidate still pending
    finished,   \* finished[p]: what the race has noted of p
    hedge,      \* "due" once the candidate launched last is past its hedge delay
    clock,      \* the request's deadline: "none", "ahead", "passed"
    hit,        \* deadline_hit
    winner,
    receipts,
    superseded

loop  == <<hit, winner, receipts, superseded>>
rvars == <<pc, next, finished, hedge, clock, loop>>
vars  == <<tvars, rvars>>

Pending  == next <= N
InFlight == {p \in Workers : thread[p] # "none" /\ finished[p] = None}
Goto(l)  == pc' = l

RaceInit ==
    /\ TasksInit
    /\ pc = "launch"
    /\ next = 1
    /\ finished = [p \in Workers |-> None]
    /\ hedge = "fresh"
    /\ clock \in {"none", "ahead"}
    /\ hit = FALSE
    /\ winner = None
    /\ receipts = [p \in Workers |-> None]
    /\ superseded = {}

-----------------------------------------------------------------------------
(* The loop                                                                *)

\* launch: after the deadline a candidate is only noted as skipped.
Launch ==
    /\ pc = "launch"
    /\ next' = next + 1
    /\ \/ /\ clock = "passed"
          /\ finished' = [finished EXCEPT ![next] = "late"]
          /\ Goto("top")
          /\ UNCHANGED tvars
       \/ /\ clock # "passed"
          /\ Start(next)
          /\ Goto("register")
          /\ UNCHANGED finished
    /\ UNCHANGED <<hedge, clock, loop>>

\* The rest of launch: done.put is registered and the hedge delay starts again.
Registered ==
    /\ pc = "register"
    /\ Register(next - 1)
    /\ hedge' = "fresh"
    /\ Goto("top")
    /\ UNCHANGED <<next, finished, clock, loop>>

Top ==
    /\ pc = "top"
    /\ Goto(IF InFlight # {} THEN "wait" ELSE IF Pending THEN "launch" ELSE "report")
    /\ UNCHANGED <<tvars, next, finished, hedge, clock, loop>>

\* Faulty: any answer ends the race.
AfterAnyAnswer(end, rest) ==
    CASE end \in {"answer", "empty"} -> "report"
      [] end = "scope"  -> "raised"
      [] OTHER -> IF Pending /\ Cardinality(rest) < MaxInFlight THEN "launch" ELSE "top"

\* Where the race goes after a candidate's end, while the rest is in flight.
After(end, rest) ==
    CASE end = "answer" -> "report"
      [] end = "scope"  -> "raised"
      [] OTHER -> IF Pending /\ Cardinality(rest) < MaxInFlight THEN "launch" ELSE "top"

\* done.get returns a candidate, and result(timeout=0) its execution or its exception.
Take ==
    /\ pc = "wait"
    /\ queue # <<>>
    /\ LET p   == Head(queue)
           end == result[p]   \* a callback runs after _done is set
       IN  /\ finished' = IF end = "scope" THEN finished ELSE [finished EXCEPT ![p] = end]
           /\ winner' = IF end = "answer" THEN p ELSE winner
           /\ Goto(After(end, InFlight \ {p}))
    /\ queue' = Tail(queue)
    /\ UNCHANGED <<thread, result, callback, next, hedge, clock, hit, receipts, superseded>>

CanHedge == Pending /\ Cardinality(InFlight) < MaxInFlight

\* done.get times out, for the hedge delay or for the deadline.
TimeOut ==
    /\ pc = "wait"
    /\ queue = <<>>
    /\ (CanHedge /\ hedge = "due") \/ (clock = "passed")
    /\ Goto("late")
    /\ UNCHANGED <<tvars, next, finished, hedge, clock, loop>>

\* Which of the two it was is read from the clock after the wait has ended.
Overdue ==
    /\ pc = "late"
    /\ hit' = (clock = "passed")
    /\ Goto(IF clock = "passed" THEN "report" ELSE "launch")
    /\ UNCHANGED <<tvars, next, finished, hedge, clock, winner, receipts, superseded>>

-----------------------------------------------------------------------------
(* The report                                                              *)

Empties == {p \in Workers : finished[p] = "empty"}

\* A candidate whose execution the race has in hand.
Noted(p)   == finished[p] \notin {None, "swallowed"}
Started(p) == thread[p] # "none"

\* Faulty: every started candidate but the winner is reported as cancelled.
ReceiptOfLosers(p) ==
    IF Started(p) /\ p # winner THEN "cancelled"
    ELSE IF Noted(p) THEN finished[p] ELSE IF hit THEN "late" ELSE "excluded"

\* The end the caller is shown.
ReceiptOf(p) ==
    IF Noted(p) THEN finished[p]
    ELSE IF Started(p) THEN "cancelled"
    ELSE IF hit THEN "late" ELSE "excluded"

\* Faulty: one candidate with an open circuit is enough.
ShutOutSome == \E p \in Workers : ReceiptOf(p) = "outage"

\* Every candidate was skipped because its circuit is open.
ShutOut == \A p \in Workers : ReceiptOf(p) = "outage"

Report ==
    /\ pc = "report"
    /\ receipts' = [p \in Workers |-> ReceiptOf(p)]
    /\ superseded' = IF hit THEN {} ELSE {p \in Workers : Started(p) /\ ~ Noted(p)}
    /\ winner' = IF winner = None /\ Empties # {}
                 THEN CHOOSE p \in Empties : \A q \in Empties : p <= q
                 ELSE winner
    /\ Goto(IF winner' = None /\ ShutOut THEN "probe" ELSE "done")
    /\ UNCHANGED <<tvars, next, finished, hedge, clock, hit>>

\* _last_resort_probe: the first candidate is attempted again, on this thread.
Probe ==
    /\ pc = "probe"
    /\ \E o \in Outcomes :
        \/ /\ o \in {"scope", "swallowed"}
           /\ Goto("raised")
           /\ UNCHANGED loop
        \/ /\ o \notin {"scope", "swallowed"}
           /\ Goto("probed")
           /\ receipts' = [receipts EXCEPT ![1] = o]
           /\ winner' = IF o \in {"answer", "empty"} THEN 1 ELSE None
           /\ superseded' = {}
           /\ UNCHANGED hit
    /\ UNCHANGED <<tvars, next, finished, hedge, clock>>

-----------------------------------------------------------------------------
(* The receipt of the search                                                *)

Routing == INSTANCE RoutingReceipt WITH NoProvider <- None

\* The attempts of the response, one for each candidate in order.
Attempts ==
    [p \in Workers |->
        [provider |-> p,
         outcome  |-> CASE receipts[p] \in {"answer", "empty"} -> "success"
                        [] receipts[p] \in {"failed", "cancelled"} -> receipts[p]
                        [] OTHER -> "skipped",
         skip     |-> CASE receipts[p] = "outage"  -> "circuit_open"
                        [] receipts[p] = "skipped" -> "budget_blocked"
                        [] OTHER -> "none"]]

\* The plan's first candidate is the selected one; a winner without results selects nobody.
SearchReceipt ==
    Routing!Receipt([p \in Workers |-> p], Attempts,
                    IF winner # None /\ receipts[winner] = "answer" THEN winner ELSE None,
                    IF winner = 1 THEN "none"
                    ELSE IF winner # None /\ 1 \in Empties THEN "insufficient_results"
                    ELSE "selected_failed",
                    FALSE)

-----------------------------------------------------------------------------
(* The environment: threads and time                                        *)

Work(p) ==
    /\ Finish(p) \/ Notify(p)
    /\ UNCHANGED rvars

HedgeDue ==
    /\ hedge = "fresh"
    /\ pc \in {"top", "wait"}
    /\ hedge' = "due"
    /\ UNCHANGED <<tvars, pc, next, finished, clock, loop>>

Expire ==
    /\ clock = "ahead"
    /\ clock' = "passed"
    /\ UNCHANGED <<tvars, pc, next, finished, hedge, loop>>

Race == Launch \/ Registered \/ Top \/ Take \/ TimeOut \/ Overdue \/ Report \/ Probe

\* The search has returned or raised; abandoned threads may still end.
Over     == pc \in {"done", "probed", "raised"}
Returned == Over /\ UNCHANGED vars

RaceNext == Race \/ (\E p \in Workers : Work(p)) \/ HedgeDue \/ Expire \/ Returned

\* Threads and clocks run.  A provider call is bounded by its socket timeouts; when the
\* request has a deadline, not even that is asked of it.
RaceFairness ==
    /\ WF_vars(Race) /\ WF_vars(HedgeDue) /\ WF_vars(Expire)
    /\ \A p \in Workers :
        /\ WF_vars(Notify(p) /\ UNCHANGED rvars)
        /\ WF_vars(clock = "none" /\ Finish(p) /\ UNCHANGED rvars)

RaceSpec == RaceInit /\ [][RaceNext]_vars /\ RaceFairness

-----------------------------------------------------------------------------
(* Correctness                                                             *)

Stages == {"launch", "register", "top", "wait", "late", "report", "probe",
           "done", "probed", "raised"}

\* The type invariant of the race and its tasks (_race_providers, DaemonTask).
RaceTypeOK ==
    /\ TasksTypeOK
    /\ pc \in Stages
    /\ next \in 1 .. N + 1
    /\ finished \in [Workers -> Ends \cup {None, "late"}]
    /\ hedge \in {"fresh", "due"}
    /\ clock \in {"none", "ahead", "passed"}
    /\ hit \in BOOLEAN
    /\ winner \in Workers \cup {None}
    /\ receipts \in [Workers -> Ends \cup {None, "late", "cancelled", "excluded"}]
    /\ superseded \subseteq Workers

\* "At most two run at once" (the docstring of _race_providers): of the provider calls
\* themselves, not only of those the race believes to be running.
TwoInFlight == Cardinality({p \in Workers : thread[p] = "running"}) <= MaxInFlight

\* A search that was not cut by its deadline ends without results only when no result
\* can come any more: every candidate has been tried or was too late, has ended, and had
\* none (the loop of _race_providers and its choice of an empty winner).
NoAnswerLost ==
    /\ pc \in {"report", "probe", "done"}
    /\ ~ hit
    /\ winner = None \/ result[winner] # "answer"
    => \A p \in Workers :
        /\ thread[p] # "running"
        /\ result[p] # "answer"
        /\ thread[p] = "none" => clock = "passed"

\* Every candidate gets one receipt and it tells the truth about its call: it is called
\* cancelled only when the race could not know its end, excluded only because another
\* one had results, late only when it was never called after the deadline had passed
\* (the receipts of _race_providers).
ReceiptsAsEnded ==
    pc \in {"probe", "done"} =>
        \A p \in Workers :
            CASE receipts[p] = "cancelled" ->
                    \/ thread[p] = "running"
                    \/ callback[p] = "taken" \/ \E i \in DOMAIN queue : queue[i] = p
                    \/ result[p] = "swallowed"
              [] receipts[p] = "excluded" ->
                    thread[p] = "none" /\ winner # None /\ result[winner] = "answer"
              [] receipts[p] = "late" -> thread[p] = "none" /\ clock = "passed"
              [] OTHER -> result[p] = receipts[p]

\* The windows of an open circuit are ended by force only when this search called no
\* provider and none of its threads may still do so (_execute_search_v3's test before
\* _last_resort_probe).
ForcedProbeAlone ==
    pc = "probe" => \A p \in Workers : thread[p] = "ended" /\ result[p] = "outage"

\* What the race spends at a time: two calls, and a forced probe only beside none.
SpendsAtMostTwo == TwoInFlight /\ ForcedProbeAlone

\* Whatever order the candidates ended in, the explanation of the choice that is built from
\* their receipts is one its own validator accepts, now and from the cache
\* (_execute_search_v3's routing against validate_routing_receipt_v3): no answer is lost for
\* its receipt.
SearchReceiptDelivered ==
    pc \in {"done", "probed"} => Routing!Deliverable(SearchReceipt, Attempts)

\* What the attempts' receipts and the routing receipt made of them owe the caller.
ReceiptsTrue == ReceiptsAsEnded /\ SearchReceiptDelivered

\* A search ends: with a deadline even when its providers hang, without one as soon as
\* they end.  No completion is lost between a thread, its callback and the queue
\* (DaemonTask._run against add_done_callback).
SearchEnds == <>Over

\* What the comment on _Race.superseded says: the providers it lists lost to another
\* provider's non-empty answer.
SupersededByAnswer ==
    pc = "done" /\ winner # None /\ superseded # {} => result[winner] = "answer"
=============================================================================
