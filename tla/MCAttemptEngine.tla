-------------------------- MODULE MCAttemptEngine --------------------------
(***************************************************************************)
(* Small instances of AttemptEngine.                                        *)
(***************************************************************************)
EXTENDS AttemptEngine, TLC

CONSTANTS p1, p2, p3, r1, r2, r3, k1, k2

\* Two requests for one provider; one of them also hedges to a second provider.
MCRequestOf == (p1 :> r1) @@ (p2 :> r2)
MCKeyOf     == (p1 :> k1) @@ (p2 :> k1)

HedgedRequestOf == (p1 :> r1) @@ (p2 :> r1) @@ (p3 :> r2)
HedgedKeyOf     == (p1 :> k1) @@ (p2 :> k2) @@ (p3 :> k1)

\* The default windows, in ticks of 60 s lowered to what the bounds tell apart.
LeaseLongWindows == [c \in Classes |-> {Lease}]
=============================================================================
