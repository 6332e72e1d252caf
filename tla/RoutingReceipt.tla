---------------------------- MODULE RoutingReceipt ----------------------------
(***************************************************************************)
(* The routing receipt of a response: what became of each candidate of the   *)
(* plan, told from the receipts of the attempts.  The builder validates what *)
(* it has built and raises if it contradicts itself, and so does every       *)
(* reader; a response whose receipt is refused is lost.                      *)
(*                                                                         *)
(* An attempt is [provider, outcome, skip]; attempt ids are their positions. *)
(***************************************************************************)
EXTENDS Integers, Sequences

CONSTANT NoProvider   \* None where a provider is meant

Good == {"success", "partial"}

Reasons(decision) ==
    CASE decision = "selected"               -> {"classic_selected", "fallback_selected"}
      [] decision = "attempted_failed"       -> {"attempt_failed"}
      [] decision = "attempted_no_selection" -> {"insufficient_results"}
      [] decision = "skipped"                -> {"blocked_auth", "blocked_quota", "circuit_open",
                                                 "budget_denied", "provider_unavailable"}
      [] decision = "not_attempted"          -> {"provider_unavailable", "not_attempted_after_success",
                                                 "budget_denied"}

SkipReason(skip) ==
    CASE skip = "auth_blocked"   -> "blocked_auth"
      [] skip = "quota_blocked"  -> "blocked_quota"
      [] skip = "circuit_open"   -> "circuit_open"
      [] skip = "budget_blocked" -> "budget_denied"
      [] OTHER                   -> "provider_unavailable"

Expected(decision) ==
    CASE decision = "attempted_failed" -> {"failed", "cancelled"}
      [] decision = "skipped"          -> {"skipped"}
      [] OTHER                         -> Good

-----------------------------------------------------------------------------
\* The attempt of a provider that counts is its last; 0 if there is none.
AttemptOf(attempts, p) ==
    LET mine == {i \in DOMAIN attempts : attempts[i].provider = p}
    IN IF mine = {} THEN 0 ELSE CHOOSE i \in mine : \A j \in mine : j <= i

\* One candidate's decision; `after` says that one before it was selected or had results.
DecisionOf(order, attempts, selected, aborted, i, after) ==
    LET p == order[i]
        a == AttemptOf(attempts, p)
        made(decision, reason, id) == [provider |-> p, decision |-> decision, reason |-> reason, attempt |-> id]
    IN IF p = selected THEN made("selected", IF i = 1 THEN "classic_selected" ELSE "fallback_selected", a)
       ELSE IF a = 0
       THEN made("not_attempted", IF aborted THEN "budget_denied"
                                  ELSE IF after THEN "not_attempted_after_success"
                                  ELSE "provider_unavailable", 0)
       ELSE IF attempts[a].outcome = "skipped" THEN made("skipped", SkipReason(attempts[a].skip), a)
       ELSE IF attempts[a].outcome \in Good THEN made("attempted_no_selection", "insufficient_results", a)
       ELSE made("attempted_failed", "attempt_failed", a)

Decisions(order, attempts, selected, aborted) ==
    [i \in DOMAIN order |->
        DecisionOf(order, attempts, selected, aborted, i,
                   \E j \in 1 .. i - 1 : \/ order[j] = selected
                                         \/ /\ AttemptOf(attempts, order[j]) # 0
                                            /\ attempts[AttemptOf(attempts, order[j])].outcome \in Good)]

Before(decisions, i, decision) == \E j \in 1 .. i - 1 : decisions[j].decision = decision

\* Why an earlier candidate was not selected, told from the decisions if they can tell.
FallbackReason(decisions, position, reported) ==
    IF position > 1 /\ Before(decisions, position, "attempted_no_selection") THEN "insufficient_results"
    ELSE IF position > 1 /\ Before(decisions, position, "attempted_failed") THEN "selected_failed"
    ELSE IF position > 1 /\ Before(decisions, position, "skipped") THEN "selected_skipped"
    ELSE reported

PositionOf(order, p) == IF \E i \in DOMAIN order : order[i] = p
                        THEN CHOOSE i \in DOMAIN order : order[i] = p ELSE 0

\* complete_routing_receipt_v3
Receipt(order, attempts, selected, reported, aborted) ==
    LET decisions == Decisions(order, attempts, selected, aborted)
    IN [order |-> order, selected |-> selected, decisions |-> decisions, origin |-> <<>>,
        fallback |-> FallbackReason(decisions, PositionOf(order, selected), reported)]

\* cache_hit_routing_receipt_v3: nothing was decided now; what was selected then is told.
CacheHitReceipt(receipt) ==
    LET chosen == {i \in DOMAIN receipt.decisions : receipt.decisions[i].decision = "selected"}
        told   == IF chosen # {} THEN chosen
                  ELSE IF receipt.selected = NoProvider THEN {}
                  ELSE {IF PositionOf(receipt.order, receipt.selected) = 0 THEN 1
                        ELSE PositionOf(receipt.order, receipt.selected)}
    IN [order |-> <<>>, selected |-> NoProvider, decisions |-> <<>>, fallback |-> "none",
        origin |-> <<[order |-> receipt.order, selected |-> receipt.selected, told |-> told]>>]

-----------------------------------------------------------------------------
\* validate_routing_receipt_v3: one decision about a candidate.
ValidDecision(receipt, attempts, i) ==
    LET d == receipt.decisions[i] IN
    /\ d.provider = receipt.order[i]
    /\ d.reason \in Reasons(d.decision)
    /\ d.decision = "selected" => d.provider = receipt.selected
    /\ d.decision \in {"attempted_failed", "attempted_no_selection", "skipped"} => d.attempt # 0
    /\ d.decision = "not_attempted" => d.attempt = 0
    /\ d.attempt # 0 =>
          /\ d.attempt \in DOMAIN attempts
          /\ attempts[d.attempt].provider = d.provider
          /\ attempts[d.attempt].outcome \in Expected(d.decision)
          /\ d.decision = "skipped" => d.reason = SkipReason(attempts[d.attempt].skip)

\* ... and the reason of a fallback must be the fate of an earlier candidate.
ValidFallback(receipt) ==
    \A i \in DOMAIN receipt.decisions : receipt.decisions[i].decision = "selected" =>
        /\ i = 1 <=> receipt.fallback = "none"
        /\ receipt.fallback = "selected_failed" => Before(receipt.decisions, i, "attempted_failed")
        /\ receipt.fallback = "insufficient_results" => Before(receipt.decisions, i, "attempted_no_selection")
        /\ receipt.fallback = "selected_skipped" => Before(receipt.decisions, i, "skipped")

ValidOrigin(receipt) ==
    \A i \in DOMAIN receipt.origin :
        LET o == receipt.origin[i] IN
        /\ receipt.order = <<>> /\ receipt.decisions = <<>> /\ receipt.selected = NoProvider
        /\ \A j \in o.told : j \in DOMAIN o.order /\ o.order[j] = o.selected
        /\ o.told = {} <=> o.selected = NoProvider

Valid(receipt, attempts) ==
    /\ DOMAIN receipt.decisions = DOMAIN receipt.order
    /\ \A i, j \in DOMAIN receipt.order : receipt.order[i] = receipt.order[j] => i = j
    /\ \A i \in DOMAIN receipt.order : ValidDecision(receipt, attempts, i)
    /\ ValidFallback(receipt)
    /\ receipt.selected # NoProvider =>
          \E i \in DOMAIN receipt.decisions : receipt.decisions[i].decision = "selected"
    /\ ValidOrigin(receipt)

\* A receipt can be delivered: neither it nor the receipt of a later cache hit is refused.
Deliverable(receipt, attempts) == Valid(receipt, attempts) /\ Valid(CacheHitReceipt(receipt), <<>>)
=============================================================================
