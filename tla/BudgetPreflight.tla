--------------------------- MODULE BudgetPreflight ---------------------------
(***************************************************************************)
(* The budget preflight: four comparisons of what a request plans with what  *)
(* the operator allows, and the cuts that make it fit.  A limit or a wish of *)
(* 0 is one that is not set.  Request times are in ticks, limits in seconds.*)
(***************************************************************************)
EXTENDS Integers, Sequences

CONSTANTS
    TicksPerSecond,  \* the milliseconds of a second
    DefaultContext,  \* context characters of an extraction that names no bound
    NoSnapshot       \* the daily ledger could not be read

ASSUME PreflightAssumption ==
    /\ TicksPerSecond \in Nat \ {0} /\ DefaultContext \in Nat \ {0}
    /\ NoSnapshot \notin Nat

\* What a request brings: the candidates of its plan, its own bounds, its kind.
Wishes(orders, calls, times, contexts) ==
    [order : orders, attempts : calls, wall : times, research : times,
     extract : BOOLEAN, context : contexts]

Settings(limits) ==
    [on : BOOLEAN, abort : BOOLEAN, calls : limits, quota : limits, timeout : limits, context : limits]

Lower(a, b) == IF a <= b THEN a ELSE b
Seconds(ticks) == (ticks + TicksPerSecond - 1) \div TicksPerSecond

Plain == [action |-> "proceed", calls |-> 0, timeout |-> 0, context |-> 0, reason |-> "none"]
Abort(reason) == [Plain EXCEPT !.action = "abort", !.reason = reason]

-----------------------------------------------------------------------------
PlannedCalls(w) == IF w.attempts = 0 THEN Len(w.order) ELSE Lower(Len(w.order), w.attempts)

\* 0 is a request without a time bound, which exceeds every limit.
PlannedSeconds(w) ==
    IF w.wall > 0 THEN Seconds(w.wall) ELSE IF w.research > 0 THEN Seconds(w.research) ELSE 0

PlannedContext(w) ==
    IF ~ w.extract THEN 0 ELSE IF w.context > 0 THEN w.context ELSE DefaultContext

Exceeded(w, set, spent) ==
    {c \in {"calls", "quota", "timeout", "context"} :
        set[c] > 0 /\ CASE c = "calls"   -> PlannedCalls(w) > set.calls
                        [] c = "quota"   -> spent = NoSnapshot \/ PlannedCalls(w) + spent > set.quota
                        [] c = "timeout" -> PlannedSeconds(w) = 0 \/ PlannedSeconds(w) > set.timeout
                        [] c = "context" -> PlannedContext(w) > set.context}

AbortReason(over, set, spent) ==
    IF "quota" \in over
    THEN IF spent = NoSnapshot THEN "budget_ledger_unavailable"
         ELSE IF spent >= set.quota THEN "daily_quota_exhausted"
         ELSE "budget_unsatisfiable"
    ELSE "budget_unsatisfiable"

\* The calls that fit under the request's cap and what is left of the day.
AllowedCalls(w, set, spent) ==
    LET capped == IF set.calls > 0 THEN Lower(PlannedCalls(w), set.calls) ELSE PlannedCalls(w)
    IN IF set.quota > 0 THEN Lower(capped, set.quota - spent) ELSE capped

\* run_budget_preflight: `spent` is what the day's ledger has used and reserved.
Preflight(w, set, spent) ==
    LET over  == Exceeded(w, set, spent)
        calls == AllowedCalls(w, set, spent)
        cuts  == [Plain EXCEPT !.action  = "degrade",
                               !.calls   = IF calls < PlannedCalls(w) THEN calls ELSE 0,
                               !.timeout = IF "timeout" \in over THEN set.timeout ELSE 0,
                               !.context = IF "context" \in over THEN set.context ELSE 0]
    IN IF ~ set.on \/ over = {} THEN Plain
       ELSE IF set.abort THEN Abort(AbortReason(over, set, spent))
       ELSE IF "quota" \in over /\ spent = NoSnapshot THEN Abort("budget_ledger_unavailable")
       ELSE IF calls < 1 THEN Abort("daily_quota_exhausted")
       ELSE IF cuts.calls + cuts.timeout + cuts.context = 0 THEN Abort("budget_unsatisfiable")
       ELSE cuts

\* The caller's own bound, or the limit if that is lower or there is none.
Tightened(own, limit) == IF limit = 0 THEN own ELSE IF own > 0 THEN Lower(own, limit) ELSE limit

\* _apply_budget_preflight: only a research request (research > 0) has a time budget to cut.
Applied(w, d) ==
    [w EXCEPT !.order    = IF d.calls > 0 THEN SubSeq(@, 1, d.calls) ELSE @,
              !.attempts = Tightened(@, d.calls),
              !.wall     = Tightened(@, d.timeout * TicksPerSecond),
              !.research = IF @ > 0 THEN Tightened(@, d.timeout * TicksPerSecond) ELSE 0,
              !.context  = Tightened(@, d.context)]

\* What a request may still do after the cuts: nothing it could not do before, and
\* nothing an operator's limit forbids; the cuts decide once, so that a request is
\* never cut again or refused for what the preflight itself has set.
Suffices(w, set, spent) ==
    LET d == Preflight(w, set, spent)
        v == Applied(w, d)
    IN d.action = "degrade" =>
          /\ Preflight(v, set, spent) = Plain
          /\ v.order = SubSeq(w.order, 1, Len(v.order)) /\ v.order # <<>>
          /\ PlannedCalls(v) <= PlannedCalls(w)
          /\ w.wall > 0 => v.wall <= w.wall
          /\ w.context > 0 => v.context <= w.context
=============================================================================
