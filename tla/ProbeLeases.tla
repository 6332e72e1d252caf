----------------------------- MODULE ProbeLeases -----------------------------
(***************************************************************************)
(* AttemptEngine with a memory of which probes were overtaken.  A lease in   *)
(* circuit_state has no owner: record_failure, record_success and            *)
(* release_half_open rewrite the bucket of whoever probes it.  What the      *)
(* store promises of a probe, it promises until that happens.                *)
(***************************************************************************)
EXTENDS AttemptEngine

VARIABLE overtaken   \* calls whose leased bucket another call's verdict has rewritten (history)

pvars == <<vars, overtaken>>

\* q takes one step of its verdict: it gives a lease back, records or clears.
TookVerdict(q) ==
    /\ call[q].pc \in {"unlease", "record", "clear"}
    /\ call'[q].pc # call[q].pc \/ call'[q].enc # call[q].enc

LeasedRow(p) == row[KeyOf[p]][call[p].lease]

\* The bucket p has leased is rewritten by the verdict of somebody else.
Overtakes(p) ==
    /\ row'[KeyOf[p]][call[p].lease] # LeasedRow(p)
    /\ \E q \in Calls \ {p} : TookVerdict(q)

Observe ==
    overtaken' = {p \in Calls : /\ call[p].lease # None /\ call'[p].lease # None
                                /\ p \in overtaken \/ Overtakes(p)}

ProbeInit == Init /\ overtaken = {}
ProbeNext == Next /\ Observe
ProbeSpec == ProbeInit /\ [][ProbeNext]_pvars

-----------------------------------------------------------------------------
(* Correctness                                                             *)

\* Two calls probe a bucket under running leases only when another call's verdict has
\* rewritten the bucket since one of them claimed it; a window shorter than the lease and
\* a search that forces a probe do not suffice (_claim_half_open, expire_circuit).
OneProbeUnlessOvertaken ==
    \A p, q \in Calls : \A c \in Classes :
        Probing(p, c) /\ Probing(q, c) /\ KeyOf[p] = KeyOf[q] /\ p # q
            => p \in overtaken \/ q \in overtaken

\* A probe lease has one holder until it is overtaken, and has one as long as it is held
\* (_claim_half_open, _release_lease).
ProbesHeld == OneProbeUnlessOvertaken /\ NoStrandedLease

\* A blocking row of class c disappears only by the success of a call that has leased it,
\* and while it is leased, unless that call was overtaken: then its success deletes
\* whatever the bucket has become, a newer block that nobody has probed included.
ClearedByProbe(c) ==
    \A k \in Keys :
        Blocks(row[k][c], c) /\ row'[k][c] = Absent
            => \E p \in Calls :
                  /\ KeyOf[p] = k /\ call[p].pc = "clear" /\ TookVerdict(p)
                  /\ call[p].lease = c
                  /\ row[k][c].state = "HALF_OPEN" \/ p \in overtaken

\* A success ends an authentication or quota block only by a call that has leased a block
\* of that class, and an unleased block only if the caller was overtaken.  The calls that
\* were admitted before the block and never claimed it leave it alone (record_success).
SevereBlockNeedsProbe == [][\A c \in {"AUTH", "QUOTA"} : ClearedByProbe(c)]_pvars

\* The same without the exception, which the code does not keep: a severe block ends only
\* while it is leased.
BlockNeedsItsOwnProbe ==
    [][\A k \in Keys, c \in {"AUTH", "QUOTA"} :
        Blocks(row[k][c], c) /\ row'[k][c] = Absent => row[k][c].state = "HALF_OPEN"]_pvars

\* expire_circuit's promise for the counted buckets, which the code does not keep either:
\* "only a successful probe clears" the failure count of an open circuit.
OnlyProbeClears == [][\A c \in CountedClasses : ClearedByProbe(c)]_pvars
=============================================================================
