--------------------------- MODULE MCResearchFanout ---------------------------
(***************************************************************************)
(* A small instance of ResearchFanout: three members, two pages on two        *)
(* domains.  The first member finds both, each of the others one, so that      *)
(* the answers that make a quorum depend on which of them are in.            *)
(***************************************************************************)
EXTENDS ResearchFanout

Members    == 1 .. N
TwoPages   == {"a", "b"}
OwnDomains == [g \in TwoPages |-> g]
SomePages  == [p \in Members |-> CASE p = 1 -> {{"a", "b"}} [] p = 2 -> {{"a"}} [] OTHER -> {{"b"}}]
=============================================================================
