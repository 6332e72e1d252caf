--------------------------- MODULE ProviderRecovery ---------------------------
(***************************************************************************)
(* AttemptEngine with a provider that heals: from some moment on every call  *)
(* that reaches the provider succeeds, requests run to their end and the     *)
(* store answers.  The question is whether the circuits then let it back in. *)
(***************************************************************************)
EXTENDS AttemptEngine

VARIABLE calm   \* TRUE from the moment the provider is well again

rvars == <<vars, calm>>

\* Steps that something other than the engine makes go wrong.
Trouble ==
    \/ \E p \in Calls :
        \/ call[p].pc \in {"call", "sent"} /\ call'[p].out \in {"error", "raise"}
        \/ call[p].pc = "sleep" /\ call'[p].pc # "top"
    \/ \E r \in Requests :
        \/ request[r].deadline # request'[r].deadline /\ request'[r].deadline # "far"
        \/ request[r].available /\ ~ request'[r].available

Heal == /\ ~ calm
        /\ calm' = TRUE
        /\ UNCHANGED vars

\* What the engine and its environment do, apart from crashes.
Going ==
    \/ \E p \in Calls : CallStep(p) \/ LastResort(p)
    \/ \E r \in Requests : BeginRequest(r) \/ Approach(r) \/ Recover(r)
    \/ Tick

\* A step of the engine, after the healing only an untroubled one.
Steady(A) == A /\ (calm => ~ Trouble) /\ UNCHANGED calm

RecoveryInit == Init /\ calm = FALSE
RecoveryNext == Heal \/ Steady(Going) \/ \E r \in Requests : ~ calm /\ Crash(r) /\ UNCHANGED calm

\* Threads run, requests keep coming, the clock advances, a store that failed is
\* probed again.  Nothing obliges the provider to heal or a search to force a probe.
Fairness ==
    /\ \A p \in Calls : WF_rvars(Steady(CallStep(p)))
    /\ \A r \in Requests : WF_rvars(Steady(BeginRequest(r))) /\ WF_rvars(Steady(Recover(r)))
    /\ WF_rvars(Steady(Tick))

RecoverySpec == RecoveryInit /\ [][RecoveryNext]_rvars /\ Fairness

AllClosed == \A k \in Keys, c \in Classes : row[k][c] = Absent

\* Once the provider is well, every circuit closes and stays closed: no lease, open
\* window or count below the threshold is left behind for good, whoever lost,
\* overwrote or forgot it.
HealedProviderReturns == calm ~> []AllClosed
=============================================================================
