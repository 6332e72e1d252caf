------------------------- MODULE MCProviderRecovery -------------------------
(***************************************************************************)
(* Two requests for one provider that breaks and heals.                     *)
(***************************************************************************)
EXTENDS ProviderRecovery, TLC

CONSTANTS p1, p2, r1, r2, k1

MCRequestOf == (p1 :> r1) @@ (p2 :> r2)
MCKeyOf     == (p1 :> k1) @@ (p2 :> k1)
MCWindows   == [c \in Classes |-> {1}]
=============================================================================
