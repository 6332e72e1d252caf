---------------------------- MODULE MCProbeLeases ----------------------------
(***************************************************************************)
(* A small instance of ProbeLeases, in two worlds: the calls of two slots    *)
(* that race while deadlines and the store cause no trouble, and the calls   *)
(* of one slot among deadlines and store errors.                             *)
(***************************************************************************)
EXTENDS MCAttemptEngine, ProbeLeases

VARIABLE alone   \* whether one slot is used, and deadlines and store errors occur

RunsAlone  == \E p \in Calls : \A q \in Calls \ {p} :
                 call[q] = Idle("ready") /\ request[RequestOf[q]] = NewRequest
Untroubled == \A r \in Requests : request[r].deadline = "far" /\ request[r].available

WorldInit == ProbeInit /\ alone \in BOOLEAN
WorldNext == /\ ProbeNext
             /\ UNCHANGED alone
             /\ IF alone THEN RunsAlone' ELSE Untroubled'
WorldSpec == WorldInit /\ [][WorldNext]_<<pvars, alone>>

\* A window below the lease (a Retry-After of a second) for a severe block, one as long as
\* the lease for the counted classes, whose windows a search may end early.
ShortAndLongWindows == [c \in Classes |-> IF c \in CountedClasses THEN {Lease} ELSE {1}]

\* The two slots of one provider, each of its own request, may change places.
CallSymmetry == {(p1 :> p1) @@ (p2 :> p2) @@ (r1 :> r1) @@ (r2 :> r2), (p1 :> p2) @@ (p2 :> p1) @@ (r1 :> r2) @@ (r2 :> r1)}

\* A request may still force a probe if its call may end, or has ended, at a shut circuit.
MayForce(r) == \E p \in CallsOf(r) : \/ call[p].outage \/ call[p].pc = "ready"
                                     \/ call[p].pc = "claim" /\ call[p].err = None

\* What the steps and the properties of this run depend on.  What was paid and spent is only
\* recorded, a budget of as many units as there are tries refuses none, and whether a request
\* has forced a probe matters as long as it may force one.
WorldView == <<row, call, [r \in Requests |-> <<request[r].deadline, request[r].available, request[r].probed /\ MayForce(r)>>],
               excused, overtaken, alone>>
=============================================================================
