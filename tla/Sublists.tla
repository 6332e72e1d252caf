------------------------------- MODULE Sublists -------------------------------
(***************************************************************************)
(* The lists the code filters, where what is kept stays in its order, and sorts. *)
(***************************************************************************)
EXTENDS Naturals, Sequences, FiniteSets

\* The items of s at the positions in at.
Picked(s, at) ==
    LET nth(k) == CHOOSE i \in at : Cardinality({j \in at : j <= i}) = k
    IN [k \in 1 .. Cardinality(at) |-> s[nth(k)]]

\* The items of s that are in S.
Among(s, S) == Picked(s, {i \in DOMAIN s : s[i] \in S})

\* The items of s that are not.
Without(s, S) == Picked(s, {i \in DOMAIN s : s[i] \notin S})

\* Those in S, each only where it comes first.
FirstAmong(s, S) ==
    Picked(s, {i \in DOMAIN s : s[i] \in S /\ \A j \in 1 .. i - 1 : s[j] # s[i]})

\* What the items of s weigh together.
Total(weight, s) ==
    LET sum[i \in 0 .. Len(s)] == IF i = 0 THEN 0 ELSE sum[i - 1] + weight[s[i]]
    IN  sum[Len(s)]

\* The members of S one after the other; before is the set of the pairs in order.
SortedBy(S, before) ==
    [k \in 1 .. Cardinality(S) |-> CHOOSE x \in S : Cardinality({y \in S : <<y, x>> \in before}) = k - 1]
=============================================================================
