----------------------------- MODULE ResearchFanout -----------------------------
(***************************************************************************)
(* One research request: run_research_mode (src/wsp_core/research.py) as    *)
(* _execute_research_v3 calls it (src/wsp_core/search.py).  All members are   *)
(* asked at once on daemon threads; the harvest ends when all have answered,  *)
(* when a quorum of them has, or when the time budget is used up.  Sources   *)
(* are then extracted and every member gets a receipt, while abandoned       *)
(* threads still run.                                                      *)
(***************************************************************************)
EXTENDS DaemonTasks

CONSTANTS
    N,                \* number of members; member p is the p-th submitted
    Pages,            \* normalized URLs
    Domain,           \* Domain[g]: the domain of page g
    Answers,          \* Answers[p]: the sets of pages member p may answer with
    MinContributors,  \* quorum_min_contributing_providers
    Target,           \* quorum_result_target
    MinDomains,       \* quorum_min_unique_domains
    Kinds             \* the shortfalls a member may meet

\* How execute ends without an answer: a failed attempt, a skip by an open circuit, by a
\* budget or by the deadline, an attempt cut by the deadline, or an exception.
Shortfalls == {"failed", "skipped", "refused", "late", "cut", "raised"}

End(kind, pages) == [kind |-> kind, pages |-> pages]
EndsOf(p) == {End("answer", A) : A \in Answers[p]} \cup {End(k, {}) : k \in Kinds}
Ends == UNION {EndsOf(p) : p \in Workers}

ASSUME FanoutAssumption ==
    /\ N \in Nat \ {0} /\ Workers = 1 .. N
    /\ Domain \in [Pages -> Pages]
    /\ Answers \in [Workers -> SUBSET SUBSET Pages]
    /\ MinContributors \in Nat /\ Target \in Nat /\ MinDomains \in Nat
    /\ Kinds \subseteq Shortfalls
    /\ Outcomes = Ends /\ None \notin Ends

VARIABLES
    pc,         \* where the request stands
    next,       \* the member that submission, or the receipts, have come to
    pending,    \* pending_by_index
    harvested,  \* results_by_index: the members whose answer is used
    errors,     \* errors[p]: the provider_errors entries of p, in order
    triggered,  \* quorum_triggered
    timedOut,   \* timed_out_providers
    begun,      \* operation_started: the members whose provider was called
    recorded,   \* receipts_by_provider: how execute ended
    receipts,   \* the receipts of the response
    limited,    \* budget_limited of the response
    clock,      \* "ahead", "due" after the members' deadline, "passed" after the budget
    inTime      \* history: the members that had ended when the time budget did

harvest == <<pending, harvested, errors, triggered, timedOut>>
members == <<begun, recorded>>
report  == <<receipts, limited>>
time    == <<clock, inTime>>
vars    == <<tvars, pc, next, harvest, members, report, time>>

Goto(l) == pc' = l

\* From the first submission until the loop over the pending members is left.
Harvesting == {"submit", "register", "top", "choose", "wait", "expired", "overdue", "final", "mark"}

ResearchInit ==
    /\ TasksInit
    /\ pc = "submit"
    /\ next = 1
    /\ pending = {} /\ harvested = {}
    /\ errors = [p \in Workers |-> <<>>]
    /\ triggered = FALSE
    /\ timedOut = {}
    /\ begun = [p \in Workers |-> FALSE]
    /\ recorded = [p \in Workers |-> None]
    /\ receipts = [p \in Workers |-> None]
    /\ limited = FALSE
    /\ clock = "ahead"
    /\ inTime = {}

-----------------------------------------------------------------------------
(* Submission                                                              *)

\* The next member is submitted, or the harvest begins.
Submitted ==
    /\ next' = next + 1
    /\ Goto(IF next = N THEN "top" ELSE "submit")

Submit ==
    /\ pc = "submit"
    /\ \/ /\ clock = "passed"
          /\ errors' = [errors EXCEPT ![next] = Append(@, "not_submitted")]
          /\ Submitted
          /\ UNCHANGED <<tvars, pending>>
       \/ /\ clock # "passed"
          /\ Start(next)
          /\ pending' = pending \cup {next}
          /\ Goto("register")
          /\ UNCHANGED <<errors, next>>
    /\ UNCHANGED <<harvested, triggered, timedOut, members, report, time>>

Registered ==
    /\ pc = "register"
    /\ Register(next)
    /\ Submitted
    /\ UNCHANGED <<harvest, members, report, time>>

-----------------------------------------------------------------------------
(* The harvest                                                             *)

\* Faulty: a member is harvested whether it is pending or not.
HarvestAgain(S) ==
    /\ harvested' = harvested \cup {p \in S : result[p].kind = "answer"}
    /\ errors' = [p \in Workers |-> IF p \in S /\ result[p].kind # "answer"
                                    THEN Append(errors[p], "failed") ELSE errors[p]]
    /\ pending' = pending \ S

\* Faulty: a task's error is taken for an answer.
HarvestErrors(S) ==
    /\ harvested' = harvested \cup (S \cap pending)
    /\ pending' = pending \ S
    /\ UNCHANGED errors

\* harvest, of those in S that are still pending: all of them have ended, so that its
\* branch for a task without a result is not taken.
Harvest(S) ==
    LET new == S \cap pending
        got == {p \in new : result[p].kind = "answer"}
    IN  /\ harvested' = harvested \cup got
        /\ errors' = [p \in Workers |-> IF p \in new \ got THEN Append(errors[p], "failed")
                                        ELSE errors[p]]
        /\ pending' = pending \ new

\* drain_completed has three callers; a drain goes on where its caller does.
AfterDrain == [top |-> "choose", expired |-> "overdue", final |-> "mark"]

\* drain_completed, while get_nowait finds a completion.
DrainQueue ==
    /\ pc \in DOMAIN AfterDrain
    /\ queue # <<>>
    /\ Harvest({Head(queue)})
    /\ queue' = Tail(queue)
    /\ UNCHANGED <<thread, result, callback, pc, next, triggered, timedOut, members, report, time>>

\* Faulty: only completions that have reached the queue are collected.
DrainNothing ==
    /\ pc \in DOMAIN AfterDrain
    /\ queue = <<>>
    /\ Goto(AfterDrain[pc])
    /\ UNCHANGED <<tvars, next, harvest, members, report, time>>

\* Its last part: the tasks that are done() although no notification has come.
DrainDone ==
    /\ pc \in DOMAIN AfterDrain
    /\ queue = <<>>
    /\ Harvest({p \in pending : thread[p] = "ended"})
    /\ Goto(AfterDrain[pc])
    /\ UNCHANGED <<tvars, next, triggered, timedOut, members, report, time>>

PagesOf(S) == UNION {result[p].pages : p \in S}

\* _research_quorum_snapshot, in submission order: the members that add a page.
Contributors == {p \in harvested : ~ (result[p].pages \subseteq PagesOf({q \in harvested : q < p}))}

\* Faulty: the pages of one member are enough.
QuorumOfPages ==
    /\ Cardinality(PagesOf(harvested)) >= Target
    /\ Cardinality({Domain[g] : g \in PagesOf(harvested)}) >= MinDomains

QuorumReached ==
    /\ Cardinality(Contributors) >= MinContributors
    /\ Cardinality(PagesOf(harvested)) >= Target
    /\ Cardinality({Domain[g] : g \in PagesOf(harvested)}) >= MinDomains

\* The pending members leave the harvest with an error entry.
GiveUp(S, why) ==
    /\ errors' = [p \in Workers |-> IF p \in S THEN Append(errors[p], why) ELSE errors[p]]
    /\ pending' = pending \ S

\* The head of the loop after its drain: all are in, or enough are, or it waits.
Choose ==
    /\ pc = "choose"
    /\ \/ /\ pending = {}
          /\ Goto("extract")
          /\ UNCHANGED <<pending, errors, triggered>>
       \/ /\ pending # {} /\ QuorumReached
          /\ GiveUp(pending, "preempted")
          /\ triggered' = TRUE
          /\ Goto("extract")
       \/ /\ pending # {} /\ ~ QuorumReached
          /\ Goto("wait")
          /\ UNCHANGED <<pending, errors, triggered>>
    /\ UNCHANGED <<tvars, next, harvested, timedOut, members, report, time>>

\* completed.get returns a completion.
Take ==
    /\ pc = "wait"
    /\ queue # <<>>
    /\ Harvest({Head(queue)})
    /\ queue' = Tail(queue)
    /\ Goto("top")
    /\ UNCHANGED <<thread, result, callback, next, triggered, timedOut, members, report, time>>

\* completed.get is empty-handed when what was left of the budget, or the grace, is over.
Empty ==
    /\ pc = "wait"
    /\ queue = <<>> /\ clock = "passed"
    /\ Goto("expired")
    /\ UNCHANGED <<tvars, next, harvest, members, report, time>>

\* Faulty: an expired wait only starts again.
OverdueAgain ==
    /\ pc = "overdue"
    /\ Goto("top")
    /\ UNCHANGED <<tvars, next, harvest, members, report, time>>

\* A quorum that the drain has completed is met at the head of the loop.
Overdue ==
    /\ pc = "overdue"
    /\ Goto(IF QuorumReached THEN "top" ELSE "final")
    /\ UNCHANGED <<tvars, next, harvest, members, report, time>>

\* mark_budget_timeouts, after its own drain.
Mark ==
    /\ pc = "mark"
    /\ GiveUp(pending, "timed_out")
    /\ timedOut' = timedOut \cup pending
    /\ Goto("extract")
    /\ UNCHANGED <<tvars, next, harvested, triggered, members, report, time>>

-----------------------------------------------------------------------------
(* Extraction and receipts                                                 *)

\* The pages found are extracted if time is left, and for no longer than that.
Extract ==
    /\ pc = "extract"
    /\ \/ /\ PagesOf(harvested) = {} \/ clock = "passed"
          /\ limited' = (PagesOf(harvested) # {})
          /\ Goto("receipts")
       \/ /\ PagesOf(harvested) # {} /\ clock # "passed"
          /\ Goto("extracting")
          /\ UNCHANGED limited
    /\ next' = 1
    /\ UNCHANGED <<tvars, harvest, members, receipts, time>>

Extracted ==
    /\ pc = "extracting"
    /\ \/ UNCHANGED limited
       \/ clock = "passed" /\ limited' = TRUE
    /\ Goto("receipts")
    /\ UNCHANGED <<tvars, next, harvest, members, receipts, time>>

\* Faulty: a member that timed out keeps the receipt its thread leaves behind.
ReceiptOfThread(p) ==
    IF recorded[p] # None THEN recorded[p].kind
    ELSE IF begun[p] THEN "cancelled" ELSE "never_called"

\* The receipt of p: what execute has recorded, cancel_started, or a skip.
ReceiptOf(p) ==
    IF recorded[p] # None /\ p \notin timedOut THEN recorded[p].kind
    ELSE IF begun[p] THEN "cancelled" ELSE "never_called"

Receipt ==
    /\ pc = "receipts" /\ next <= N
    /\ receipts' = [receipts EXCEPT ![next] = ReceiptOf(next)]
    /\ next' = next + 1
    /\ UNCHANGED <<tvars, pc, harvest, members, limited, time>>

\* response_from_legacy: receipts that make a response budget-limited.
Limiting == {"cancelled", "cut", "never_called", "late", "refused"}

Respond ==
    /\ pc = "receipts" /\ next > N
    /\ limited' = (limited \/ \E p \in Workers : receipts[p] \in Limiting)
    /\ Goto("done")
    /\ UNCHANGED <<tvars, next, harvest, members, receipts, time>>

-----------------------------------------------------------------------------
(* The members' threads: AttemptEngine.execute, reduced to its ends           *)

\* operation: the attempt was admitted and its provider is called.
Begin(p) ==
    /\ thread[p] = "running" /\ ~ begun[p] /\ recorded[p] = None
    /\ begun' = [begun EXCEPT ![p] = TRUE]
    /\ UNCHANGED recorded

\* How an attempt can end: only a provider that was called answers, fails or is cut.
Possible(p) ==
    {e \in EndsOf(p) :
        /\ e.kind # "raised"
        /\ begun[p] => e.kind \notin {"skipped", "refused"}
        /\ ~ begun[p] => e.kind \in {"skipped", "refused", "late"}
        /\ e.kind \in {"late", "cut"} => clock # "ahead"}

\* execute has returned; execute_provider keeps the receipt.
Record(p) ==
    /\ thread[p] = "running" /\ recorded[p] = None
    /\ \E e \in Possible(p) : recorded' = [recorded EXCEPT ![p] = e]
    /\ UNCHANGED begun

\* The thread ends as its attempt did, or execute raises.
Conclude(p) ==
    /\ Finish(p)
    /\ IF recorded[p] = None THEN result'[p].kind = "raised" ELSE result'[p] = recorded[p]
    /\ UNCHANGED members

\* What a thread does that nobody looks at any more is left out: after the harvest its end
\* and its notification, after the response everything.
Member(p) ==
    /\ \/ pc # "done" /\ (Begin(p) \/ Record(p)) /\ UNCHANGED tvars
       \/ pc \in Harvesting /\ (Conclude(p) \/ Notify(p)) /\ UNCHANGED members
    /\ UNCHANGED <<pc, next, harvest, report, time>>

\* The members' deadline was fixed before the budget of run_research_mode began.
Expire ==
    /\ clock # "passed"
    /\ clock' = IF clock = "ahead" THEN "due" ELSE "passed"
    /\ inTime' = IF clock = "due" THEN {p \in Workers : thread[p] = "ended"} ELSE inTime
    /\ UNCHANGED <<tvars, pc, next, harvest, members, report>>

Caller == Submit \/ Registered \/ DrainQueue \/ DrainDone \/ Choose \/ Take \/ Empty
          \/ Overdue \/ Mark \/ Extract \/ Extracted \/ Receipt \/ Respond

Returned == pc = "done" /\ UNCHANGED vars

ResearchNext == Caller \/ (\E p \in Workers : Member(p)) \/ Expire \/ Returned

\* The caller and the clock run, and so do callbacks.  No member is obliged to answer.
ResearchFairness ==
    /\ WF_vars(Caller) /\ WF_vars(Expire)
    /\ \A p \in Workers : WF_vars(Member(p) /\ callback[p] = "taken")

ResearchSpec == ResearchInit /\ [][ResearchNext]_vars /\ ResearchFairness

-----------------------------------------------------------------------------
(* Correctness                                                             *)

Stages     == Harvesting \cup {"extract", "extracting", "receipts", "done"}
Receipts   == {"answer", "cancelled", "never_called"} \cup (Shortfalls \ {"raised"})
Reasons    == {"not_submitted", "failed", "preempted", "timed_out"}

\* The type invariant of a research request; a pending member has a task, and one whose
\* answer is used has ended with one (run_research_mode).
ResearchTypeOK ==
    /\ TasksTypeOK
    /\ pc \in Stages
    /\ next \in 1 .. N + 1
    /\ pending \subseteq {p \in Workers : thread[p] # "none"}
    /\ harvested \subseteq {p \in Workers : result[p] # None /\ result[p].kind = "answer"}
    /\ errors \in [Workers -> Seq(Reasons)]
    /\ triggered \in BOOLEAN
    /\ timedOut \subseteq Workers
    /\ begun \in [Workers -> BOOLEAN]
    /\ recorded \in [Workers -> Ends \cup {None}]
    /\ receipts \in [Workers -> Receipts \cup {None}]
    /\ limited \in BOOLEAN
    /\ clock \in {"ahead", "due", "passed"}
    /\ inTime \subseteq Workers

\* Every member is accounted for once, as a result or as one error entry, however its
\* completion arrives: through the queue, by done(), or in a later drain (harvest).
ReportedOnce ==
    pc \notin Harvesting =>
        \A p \in Workers : Len(errors[p]) + (IF p \in harvested THEN 1 ELSE 0) = 1

\* A member that had ended when the time budget did is not reported as timed out, though
\* its notification may still be on the way (the final drain of mark_budget_timeouts).
InTimeIsKept == \A p \in inTime : "timed_out" \notin {errors[p][i] : i \in DOMAIN errors[p]}

\* The harvest gives members up only for a reason that holds of what is reported: the
\* quorum of the answers in the response, of more than one member, or the end of the time
\* budget (quorum_reached, mark_budget_timeouts and the submission gate).
GivenUpForAReason ==
    pc \notin Harvesting =>
        /\ triggered =>
            /\ Cardinality({p \in harvested : result[p].pages # {}}) >= MinContributors
            /\ Cardinality(PagesOf(harvested)) >= Target
            /\ Cardinality({Domain[g] : g \in PagesOf(harvested)}) >= MinDomains
        /\ \A p \in Workers :
            /\ errors[p] = <<"preempted">> => triggered
            /\ errors[p] \in {<<"timed_out">>, <<"not_submitted">>} => clock = "passed"

\* The receipts agree with the diagnostics although threads are still writing theirs: a
\* result has a successful receipt; a member that timed out is cancelled or never called,
\* even if its thread has left a receipt since; a member that failed has the receipt of
\* its failure, unless execute raised (the receipts loop of _execute_research_v3).
ReceiptsAgree ==
    pc = "done" =>
        \A p \in Workers :
            /\ p \in harvested => receipts[p] = "answer"
            /\ errors[p] = <<"timed_out">> => receipts[p] \in {"cancelled", "never_called"}
            /\ errors[p] = <<"failed">> =>
                \/ receipts[p] \in Shortfalls
                \/ result[p].kind = "raised"
            /\ receipts[p] \in {"cancelled", "never_called"} =>
                errors[p] # <<"failed">> \/ result[p].kind = "raised"

\* A research request ends although its members hang (the time budget of
\* run_research_mode).
ResearchEnds == <>(pc = "done")

\* What a budget-limited response says: "Execution was limited by its attempt or time
\* budget."
LimitedByABudget ==
    pc = "done" /\ limited =>
        clock # "ahead" \/ \E p \in Workers : recorded[p] # None /\ recorded[p].kind = "refused"
=============================================================================
