------------------------- MODULE BudgetLedger_proofs -------------------------
(***************************************************************************)
(* What the reserve-then-reconcile protocol guarantees for any number of     *)
(* callers and any sequence of configured limits.                           *)
(***************************************************************************)
EXTENDS BudgetLedger, FiniteSetTheorems, TLAPS

\* The three guarantees lean on each other: a reconciliation keeps the counters in
\* the naturals only because every holder's unit is still reserved.
LedgerInv ==
    /\ LedgerTypeOK
    /\ HoldersAreReserved
    /\ WithinLimit
    /\ PaidIsAccounted

-----------------------------------------------------------------------------
\* Callers is finite, so the holders can be counted, and so can any part of them.
LEMMA HoldersFinite ==
    ASSUME NEW S, S \subseteq Callers
    PROVE  IsFiniteSet(S) /\ Cardinality(S) \in Nat
  BY LedgerAssumption, FS_Subset, FS_CardinalityType

\* Adding or dropping one caller moves a count by one.
LEMMA OneMore ==
    ASSUME NEW S, S \subseteq Callers, NEW p \in Callers, p \notin S
    PROVE  Cardinality(S \cup {p}) = Cardinality(S) + 1
  BY HoldersFinite, FS_AddElement

LEMMA OneLess ==
    ASSUME NEW S, S \subseteq Callers, NEW p \in S
    PROVE  Cardinality(S \ {p}) = Cardinality(S) - 1
  BY HoldersFinite, FS_RemoveElement

\* The fields of the row, and the bound on its limit.
LEMMA RowFields ==
    ASSUME LedgerTypeOK
    PROVE  /\ ledger.limit \in 0 .. MaxLimit
           /\ ledger.used \in Nat
           /\ ledger.reserved \in Nat
           /\ paid \in Nat
  <1>1. ledger.limit \in Limits \cup {0} /\ 0 \in 0 .. MaxLimit
    BY LedgerAssumption DEF LedgerTypeOK
  <1> QED
    BY <1>1, LedgerAssumption DEF LedgerTypeOK

-----------------------------------------------------------------------------
LEMMA LedgerInitInv == LedgerInit => LedgerInv
  <1> SUFFICES ASSUME LedgerInit PROVE LedgerInv
    OBVIOUS
  <1>1. LedgerTypeOK
    BY LedgerAssumption DEF LedgerInit, LedgerTypeOK, NoBudget
  <1>2. Cardinality({}) = 0 /\ held \ flying = {}
    BY FS_EmptySet DEF LedgerInit
  <1> QED
    BY <1>1, <1>2, LedgerAssumption
       DEF LedgerInit, LedgerInv, NoBudget, HoldersAreReserved, WithinLimit, PaidIsAccounted

-----------------------------------------------------------------------------
\* Changing a limit, even to less than what is in use, charges nobody.
LEMMA ConfigureInv ==
    ASSUME LedgerInv, NEW limit \in Limits, Configure(limit)
    PROVE  LedgerInv'
  BY LedgerAssumption
     DEF LedgerInv, LedgerTypeOK, HoldersAreReserved, WithinLimit, PaidIsAccounted,
         Configure, Configured

\* A reservation fits below the limit of its own moment, hence below MaxLimit.
LEMMA ReserveInv ==
    ASSUME LedgerInv, NEW p \in Callers, Reserve(p)
    PROVE  LedgerInv'
  <1> USE DEF LedgerInv
  <1>1. LedgerTypeOK'
    BY DEF LedgerTypeOK, Reserve, Reserved
  <1>2. Cardinality(held') = Cardinality(held) + 1
    BY OneMore DEF LedgerTypeOK, Reserve
  <1>3. Cardinality(held' \ flying') = Cardinality(held \ flying) + 1
    <2>1. held' \ flying' = (held \ flying) \cup {p}
      BY DEF LedgerTypeOK, Reserve
    <2> QED
      BY <2>1, OneMore DEF LedgerTypeOK, Reserve
  <1>4. Cardinality(held) \in Nat /\ Cardinality(held \ flying) \in Nat
    BY HoldersFinite DEF LedgerTypeOK
  <1>5. ledger.limit \in 0 .. MaxLimit
    BY RowFields
  <1> QED
    BY <1>1, <1>2, <1>3, <1>4, <1>5, LedgerAssumption
       DEF LedgerTypeOK, HoldersAreReserved, WithinLimit, PaidIsAccounted,
           Reserve, Reserved, CanReserve

\* The unit that a dispatch spends was promised to its holder.
LEMMA DispatchInv ==
    ASSUME LedgerInv, NEW p \in Callers, Dispatch(p)
    PROVE  LedgerInv'
  <1> USE DEF LedgerInv
  <1>1. LedgerTypeOK'
    BY DEF LedgerTypeOK, Dispatch
  <1>2. Cardinality(held' \ flying') = Cardinality(held \ flying) - 1
    <2>1. held' \ flying' = (held \ flying) \ {p}
      BY DEF LedgerTypeOK, Dispatch
    <2> QED
      BY <2>1, OneLess DEF LedgerTypeOK, Dispatch
  <1>3. Cardinality(held \ flying) \in Nat
    BY HoldersFinite DEF LedgerTypeOK
  <1> QED
    BY <1>1, <1>2, <1>3
       DEF LedgerTypeOK, HoldersAreReserved, WithinLimit, PaidIsAccounted, Dispatch

\* Whoever settles still has its unit reserved, so the counter stays a natural.
LEMMA SettlerIsReserved ==
    ASSUME LedgerInv, NEW p \in held
    PROVE  /\ ledger.reserved >= 1
           /\ Cardinality(held \ {p}) = Cardinality(held) - 1
           /\ Cardinality(held \ {p}) \in Nat
           /\ Cardinality(held) \in Nat
  <1>1. Cardinality(held \ {p}) = Cardinality(held) - 1
    BY OneLess DEF LedgerInv, LedgerTypeOK
  <1>2. Cardinality(held \ {p}) \in Nat /\ Cardinality(held) \in Nat
    BY HoldersFinite DEF LedgerInv, LedgerTypeOK
  <1> QED
    BY <1>1, <1>2 DEF LedgerInv, LedgerTypeOK, HoldersAreReserved

LEMMA CommitInv ==
    ASSUME LedgerInv, NEW p \in Callers, Commit(p)
    PROVE  LedgerInv'
  <1> USE DEF LedgerInv
  <1>1. p \in held
    BY DEF Commit
  <1>2. /\ ledger.reserved >= 1
        /\ Cardinality(held') = Cardinality(held) - 1
        /\ Cardinality(held') \in Nat /\ Cardinality(held) \in Nat
    BY <1>1, SettlerIsReserved DEF Commit
  <1>3. LedgerTypeOK'
    <2>1. ledger.used + 1 \in Nat /\ ledger.reserved - 1 \in Nat
      BY <1>2, RowFields
    <2>2. ledger' = [limit |-> ledger.limit, used |-> ledger.used + 1,
                     reserved |-> ledger.reserved - 1]
      BY DEF LedgerTypeOK, Commit, Committed
    <2>3. ledger' \in [limit : Limits \cup {0}, used : Nat, reserved : Nat]
      BY <2>1, <2>2 DEF LedgerTypeOK
    <2> QED
      BY <2>3 DEF LedgerTypeOK, Commit
  <1>4. Cardinality(held' \ flying') <= Cardinality(held \ flying)
    <2>1. (held' \ flying') \in SUBSET (held \ flying)
      BY DEF Commit
    <2>2. IsFiniteSet(held \ flying)
      BY HoldersFinite DEF LedgerTypeOK
    <2> QED
      BY <2>1, <2>2, FS_Subset
  <1>5. Cardinality(held' \ flying') \in Nat /\ Cardinality(held \ flying) \in Nat
    BY HoldersFinite, <1>3 DEF LedgerTypeOK
  <1>6. /\ ledger'.used = ledger.used + 1
        /\ ledger'.reserved = ledger.reserved - 1
        /\ paid' = paid
    BY DEF LedgerTypeOK, Commit, Committed
  <1> QED
    BY <1>2, <1>3, <1>4, <1>5, <1>6, RowFields, LedgerAssumption
       DEF HoldersAreReserved, WithinLimit, PaidIsAccounted

LEMMA ReleaseInv ==
    ASSUME LedgerInv, NEW p \in Callers, Release(p)
    PROVE  LedgerInv'
  <1> USE DEF LedgerInv
  <1>1. /\ ledger.reserved >= 1
        /\ Cardinality(held') = Cardinality(held) - 1
        /\ Cardinality(held') \in Nat /\ Cardinality(held) \in Nat
    BY SettlerIsReserved DEF Release
  <1>2. LedgerTypeOK'
    BY <1>1, RowFields DEF LedgerTypeOK, Release, Released
  <1>3. Cardinality(held' \ flying') = Cardinality(held \ flying) - 1
    <2>1. held' \ flying' = (held \ flying) \ {p}
      BY DEF LedgerTypeOK, Release
    <2> QED
      BY <2>1, OneLess DEF LedgerTypeOK, Release
  <1>4. Cardinality(held \ flying) \in Nat
    BY HoldersFinite DEF LedgerTypeOK
  <1> QED
    BY <1>1, <1>2, <1>3, <1>4, LedgerAssumption
       DEF LedgerTypeOK, HoldersAreReserved, WithinLimit, PaidIsAccounted, Release, Released

\* Lost holders leave their units reserved, which only strengthens the bounds.
LEMMA LoseInv ==
    ASSUME LedgerInv, NEW S \in SUBSET Callers, Lose(S)
    PROVE  LedgerInv'
  <1> USE DEF LedgerInv
  <1>1. LedgerTypeOK'
    BY DEF LedgerTypeOK, Lose
  <1>2. /\ Cardinality(held') <= Cardinality(held)
        /\ Cardinality(held' \ flying') <= Cardinality(held \ flying)
    <2>1. IsFiniteSet(held) /\ IsFiniteSet(held \ flying)
      BY HoldersFinite DEF LedgerTypeOK
    <2>2. held' \in SUBSET held /\ (held' \ flying') \in SUBSET (held \ flying)
      BY DEF LedgerTypeOK, Lose
    <2> QED
      BY <2>1, <2>2, FS_Subset
  <1>3. /\ Cardinality(held) \in Nat /\ Cardinality(held \ flying) \in Nat
        /\ Cardinality(held') \in Nat /\ Cardinality(held' \ flying') \in Nat
    BY HoldersFinite, <1>1 DEF LedgerTypeOK
  <1> QED
    BY <1>1, <1>2, <1>3
       DEF LedgerTypeOK, HoldersAreReserved, WithinLimit, PaidIsAccounted, Lose

LEMMA LedgerNextInv == LedgerInv /\ [LedgerNext]_lvars => LedgerInv'
  <1> SUFFICES ASSUME LedgerInv, [LedgerNext]_lvars PROVE LedgerInv'
    OBVIOUS
  <1>1. CASE UNCHANGED lvars
    BY <1>1 DEF lvars, LedgerInv, LedgerTypeOK, HoldersAreReserved, WithinLimit, PaidIsAccounted
  <1>2. ASSUME NEW limit \in Limits, Configure(limit) PROVE LedgerInv'
    BY <1>2, ConfigureInv
  <1>3. ASSUME NEW p \in Callers, Reserve(p) PROVE LedgerInv'
    BY <1>3, ReserveInv
  <1>4. ASSUME NEW p \in Callers, Dispatch(p) PROVE LedgerInv'
    BY <1>4, DispatchInv
  <1>5. ASSUME NEW p \in Callers, Commit(p) PROVE LedgerInv'
    BY <1>5, CommitInv
  <1>6. ASSUME NEW p \in Callers, Release(p) PROVE LedgerInv'
    BY <1>6, ReleaseInv
  <1>7. ASSUME NEW S \in SUBSET Callers, Lose(S) PROVE LedgerInv'
    BY <1>7, LoseInv
  <1> QED
    BY <1>1, <1>2, <1>3, <1>4, <1>5, <1>6, <1>7 DEF LedgerNext

-----------------------------------------------------------------------------
\* The invariant holds under any interleaving of configure, reserve, dispatch,
\* commit, release and loss (configure_budget, reserve_budget, reconcile_budget).
THEOREM LedgerInvariant == LedgerSpec => []LedgerInv
  <1>1. LedgerInit => LedgerInv
    BY LedgerInitInv
  <1>2. LedgerInv /\ [LedgerNext]_lvars => LedgerInv'
    BY LedgerNextInv
  <1> QED
    BY <1>1, <1>2, PTL DEF LedgerSpec

\* A reconciliation never meets "budget reservation missing": the unit of every
\* holder is reserved until that holder settles it.
THEOREM LedgerConserves == LedgerSpec => []HoldersAreReserved
  BY LedgerInvariant, PTL DEF LedgerInv

\* Charged and promised units never exceed the highest limit ever configured.
THEOREM LedgerBounded == LedgerSpec => []WithinLimit
  BY LedgerInvariant, PTL DEF LedgerInv

\* Every attempt that reached its provider is charged or stays reserved for good.
THEOREM LedgerAccounts == LedgerSpec => []PaidIsAccounted
  BY LedgerInvariant, PTL DEF LedgerInv
=============================================================================
