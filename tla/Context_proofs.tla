----------------------------- MODULE Context_proofs -----------------------------
(***************************************************************************)
(* How much of the pages reaches the model, for pages of any length and any   *)
(* number of them: the budget is shared fairly, the passages of a text leave no *)
(* word of it out, and nothing is cut that is not told.                         *)
(***************************************************************************)
EXTENDS BoundedContext, Extraction_proofs

(***************************************************************************)
(* Numbers, lists and finite sets                                          *)
(***************************************************************************)
LEMMA MinOf ==
    ASSUME NEW S \in SUBSET Nat, S # {}
    PROVE  Min(S) \in S /\ \A w \in S : Min(S) <= w
  <1>1. \E x \in S : \A y \in S : x <= y
    BY Least
  <1> QED BY <1>1 DEF Min

LEMMA MaxOf ==
    ASSUME NEW limit \in Nat, NEW S \in SUBSET (0 .. limit), S # {}
    PROVE  Max(S) \in S /\ \A w \in S : w <= Max(S)
  <1>1. \E x \in S : \A y \in S : x >= y
    BY Greatest
  <1>2. Max(S) \in S /\ \A w \in S : Max(S) >= w
    BY <1>1 DEF Max
  <1>3. \A w \in S : w \in Int
    OBVIOUS
  <1> QED BY <1>2, <1>3

LEMMA SmallerOf ==
    ASSUME NEW a \in Nat, NEW b \in Nat
    PROVE  Min({a, b}) \in Nat /\ Min({a, b}) <= a /\ Min({a, b}) <= b /\ (Min({a, b}) = a \/ Min({a, b}) = b)
  <1> DEFINE T == {a, b}
  <1>1. T \in SUBSET Nat /\ T # {} /\ a \in T /\ b \in T /\ \A t \in T : t = a \/ t = b
    OBVIOUS
  <1> HIDE DEF T
  <1>2. Min(T) \in T /\ \A t \in T : Min(T) <= t
    BY <1>1, MinOf
  <1>3. Min(T) \in Nat /\ Min(T) <= a /\ Min(T) <= b /\ (Min(T) = a \/ Min(T) = b)
    BY <1>1, <1>2
  <1> QED BY <1>3 DEF T

\* The bound that is no larger is the smaller of the two.
LEMMA SmallerIs == \A x, y \in Nat : y <= x => Min({x, y}) = y
  <1> SUFFICES ASSUME NEW x \in Nat, NEW y \in Nat, y <= x PROVE Min({x, y}) = y
    OBVIOUS
  <1> DEFINE least == Min({x, y})
  <1>1. least \in Nat /\ least <= x /\ least <= y /\ (least = x \/ least = y)
    BY SmallerOf
  <1> HIDE DEF least
  <1>2. least = y
    BY <1>1
  <1> QED BY <1>2 DEF least

LEMMA LargerOf ==
    ASSUME NEW a \in Nat, NEW b \in Int
    PROVE  Max({a, b}) \in Nat /\ Max({a, b}) >= a
  <1> DEFINE T == {a, b}
  <1>1. \E x \in T : \A y \in T : x >= y
    <2>1. CASE a >= b
      BY <2>1
    <2>2. CASE b >= a
      BY <2>2
    <2> QED BY <2>1, <2>2
  <1>2. Max(T) \in T /\ \A y \in T : Max(T) >= y
    <2> HIDE DEF T
    <2> QED BY <1>1 DEF Max
  <1>3. a \in T /\ \A t \in T : t = a \/ t = b
    OBVIOUS
  <1> DEFINE m == Max(T)
  <1>4. (m = a \/ m = b) /\ m >= a
    <2> HIDE DEF T
    <2> QED BY <1>2, <1>3
  <1> HIDE DEF m
  <1>5. m \in Nat
    BY <1>4
  <1> QED BY <1>4, <1>5 DEF m

\* An even share of a, and what it leaves over.
LEMMA Division ==
    ASSUME NEW a \in Nat, NEW m \in Nat \ {0}
    PROVE  a \div m \in Nat /\ a % m \in 0 .. m - 1 /\ a % m = a - (a \div m) * m
  <1>1. a \div m \in Nat
    OBVIOUS
  <1>2. a % m \in 0 .. m - 1
    OBVIOUS
  <1>3. a % m = a - (a \div m) * m
    OBVIOUS
  <1> QED BY ONLY <1>1, <1>2, <1>3, Zenon

LEMMA Times ==
    ASSUME NEW s \in Nat, NEW c \in Nat
    PROVE  s * c \in Nat /\ s * (c + 1) = s * c + s /\ s * 0 = 0
  OBVIOUS

LEMMA TimesLess ==
    ASSUME NEW s \in Nat, NEW c \in Nat, NEW m \in Nat, c <= m
    PROVE  s * c <= s * m /\ s * (m - c) = s * m - s * c /\ c * s <= m * s
  OBVIOUS

LEMMA ShareAtLeast ==
    ASSUME NEW s \in Nat, NEW m \in Nat \ {0}, NEW a \in Nat, s * m <= a
    PROVE  s <= a \div m
  OBVIOUS

LEMMA OneMoreAtMost ==
    ASSUME NEW a \in Nat, NEW b \in Nat, NEW x \in Nat, NEW p \in Nat, NEW q \in Nat, NEW s \in Nat, a <= b + x, p <= q + s
    PROVE  a + p <= b + q + (x + s)
  OBVIOUS

LEMMA PartOfInterval ==
    ASSUME NEW n \in Nat, NEW A \in SUBSET (1 .. n)
    PROVE  IsFiniteSet(A) /\ Cardinality(A) \in Nat
  <1>1. IsFiniteSet(1 .. n)
    BY FS_Interval
  <1>2. IsFiniteSet(A)
    BY <1>1, FS_Subset
  <1> QED BY <1>2, FS_CardinalityType

LEMMA ImageFinite ==
    ASSUME NEW n \in Nat, NEW f, f = [i \in 0 .. n |-> f[i]]
    PROVE  IsFiniteSet({f[i] : i \in 0 .. n})
  <1> DEFINE S == 0 .. n
             T == {f[i] : i \in 0 .. n}
  <1>1. IsFiniteSet(S)
    <2>1. n \in Nat
      OBVIOUS
    <2> QED BY ONLY <2>1, FS_Interval
  <1>2. f \in [S -> T] /\ \A t \in T : \E i \in S : f[i] = t
    OBVIOUS
  <1>3. f \in Surjection(S, T)
    BY <1>2 DEF Surjection
  <1> HIDE DEF S, T
  <1>4. IsFiniteSet(T)
    BY <1>1, <1>3, FS_Surjection
  <1> QED BY <1>4 DEF T

\* The first m items of a list.
LEMMA FirstItems ==
    ASSUME NEW A, NEW s \in Seq(A), NEW m \in 0 .. Len(s)
    PROVE  /\ SubSeq(s, 1, m) \in Seq(A) /\ Len(SubSeq(s, 1, m)) = m /\ DOMAIN SubSeq(s, 1, m) = 1 .. m
           /\ \A j \in 1 .. m : SubSeq(s, 1, m)[j] = s[j]
           /\ m = Len(s) => SubSeq(s, 1, m) = s
  <1> DEFINE t == SubSeq(s, 1, m)
  <1>1. m \in Nat /\ Len(s) \in Nat /\ m <= Len(s)
    OBVIOUS
  <1>2. t \in Seq(A) /\ Len(t) = m /\ \A j \in 1 .. m : t[j] = s[j]
    BY <1>1
  <1> HIDE DEF t
  <1>3. DOMAIN t = 1 .. m
    BY <1>2
  <1>4. ASSUME m = Len(s) PROVE t = s
    BY <1>2, <1>4
  <1> QED BY <1>2, <1>3, <1>4 DEF t

\* Those with the greatest weight first, the earlier of equal ones first.
LEMMA HeaviestFirst ==
    ASSUME NEW S, IsFiniteSet(S), NEW w, \A x \in S : w[x] \in Nat, NEW early, Orders(early, S), NEW before,
           \A x, y \in S : <<x, y>> \in before <=> (w[x] > w[y] \/ (w[x] = w[y] /\ <<x, y>> \in early))
    PROVE  /\ Sorted(SortedBy(S, before), S, before)
           /\ \A k \in DOMAIN SortedBy(S, before) : w[SortedBy(S, before)[k]] <= w[SortedBy(S, before)[1]]
  <1> DEFINE s == SortedBy(S, before)
  <1>1. Orders(before, S)
    <2>1. ASSUME NEW x \in S PROVE <<x, x>> \notin before
      <3>1. <<x, x>> \notin early /\ w[x] \in Nat
        BY DEF Orders
      <3> QED BY <3>1
    <2>2. ASSUME NEW x \in S, NEW y \in S, x # y PROVE <<x, y>> \in before \/ <<y, x>> \in before
      <3>1. (<<x, y>> \in early \/ <<y, x>> \in early) /\ w[x] \in Nat /\ w[y] \in Nat
        BY <2>2 DEF Orders
      <3>2. w[x] > w[y] \/ w[y] > w[x] \/ w[x] = w[y]
        BY <3>1
      <3> QED BY <3>1, <3>2
    <2>3. ASSUME NEW x \in S, NEW y \in S, NEW z \in S, <<x, y>> \in before, <<y, z>> \in before PROVE <<x, z>> \in before
      <3>1. /\ w[x] > w[y] \/ (w[x] = w[y] /\ <<x, y>> \in early)
            /\ w[y] > w[z] \/ (w[y] = w[z] /\ <<y, z>> \in early)
        BY <2>3
      <3>2. <<x, y>> \in early /\ <<y, z>> \in early => <<x, z>> \in early
        BY DEF Orders
      <3>3. w[x] > w[z] \/ (w[x] = w[z] /\ <<x, z>> \in early)
        BY <3>1, <3>2
      <3> QED BY <3>3
    <2> QED BY <2>1, <2>2, <2>3 DEF Orders
  <1>2. Sorted(s, S, before)
    BY <1>1, SortedList
  <1> HIDE DEF s
  <1>3. ASSUME NEW k \in DOMAIN s PROVE w[s[k]] <= w[s[1]]
    <2>1. 1 \in DOMAIN s /\ (k = 1 \/ 1 < k)
      BY <1>2 DEF Sorted
    <2>2. s[k] \in S /\ s[1] \in S
      BY <1>2, <2>1 DEF Sorted, Range
    <2>3. CASE k = 1
      BY <2>2, <2>3
    <2>4. CASE 1 < k
      <3>1. <<s[1], s[k]>> \in before
        BY <1>2, <2>1, <2>4 DEF Sorted
      <3> QED BY <2>2, <3>1
    <2> QED BY <2>1, <2>3, <2>4
  <1> QED BY <1>2, <1>3 DEF s

(***************************************************************************)
(* The fair shares (_fair_share_allocations)                               *)
(***************************************************************************)
\* How many of A come no later than k.
UpTo(A, k) == Cardinality({j \in A : j <= k})

\* Counting the members of A upward goes by ones, from none at 0 to all at n.
Counted(n, A) ==
    /\ \A k \in 0 .. n : UpTo(A, k) \in Nat
    /\ UpTo(A, 0) = 0 /\ UpTo(A, n) = Cardinality(A) /\ Cardinality(A) \in Nat
    /\ \A k \in 0 .. n - 1 : UpTo(A, k + 1) = UpTo(A, k) + (IF k + 1 \in A THEN 1 ELSE 0)

LEMMA Counting ==
    ASSUME NEW n \in Nat, NEW A \in SUBSET (1 .. n)
    PROVE  Counted(n, A)
  <1>0. \A j \in A : j \in Nat /\ 1 <= j /\ j <= n
    OBVIOUS
  <1>1. IsFiniteSet(A) /\ Cardinality(A) \in Nat
    BY PartOfInterval
  <1>2. ASSUME NEW k \in 0 .. n PROVE IsFiniteSet({j \in A : j <= k}) /\ UpTo(A, k) \in Nat
    <2>1. {j \in A : j <= k} \in SUBSET A
      OBVIOUS
    <2> QED BY <1>1, <2>1, FS_Subset, FS_CardinalityType DEF UpTo
  <1>3. UpTo(A, 0) = 0
    <2>1. \A j \in A : ~(j <= 0)
      BY <1>0
    <2>2. {j \in A : j <= 0} = {}
      BY ONLY <2>1
    <2> QED BY <2>2, FS_EmptySet DEF UpTo
  <1>4. UpTo(A, n) = Cardinality(A)
    <2>1. {j \in A : j <= n} = A
      BY <1>0
    <2> QED BY <2>1 DEF UpTo
  <1>5. ASSUME NEW k \in 0 .. n - 1 PROVE UpTo(A, k + 1) = UpTo(A, k) + (IF k + 1 \in A THEN 1 ELSE 0)
    <2> DEFINE T == {j \in A : j <= k}
               U == {j \in A : j <= k + 1}
    <2>1. IsFiniteSet(T) /\ Cardinality(T) \in Nat
      BY <1>2 DEF UpTo
    <2>2. k + 1 \notin T /\ U = IF k + 1 \in A THEN T \cup {k + 1} ELSE T
      <3>1. \A j \in A : j <= k + 1 <=> (j <= k \/ j = k + 1)
        BY <1>0
      <3>2. k + 1 \notin T
        OBVIOUS
      <3>3. \A j : j \in U <=> j \in T \/ (j = k + 1 /\ k + 1 \in A)
        BY <3>1
      <3> HIDE DEF T, U
      <3>4. CASE k + 1 \in A
        BY <3>2, <3>3, <3>4
      <3>5. CASE k + 1 \notin A
        BY <3>2, <3>3, <3>5
      <3> QED BY <3>4, <3>5
    <2> HIDE DEF T, U
    <2>3. Cardinality(T \cup {k + 1}) = Cardinality(T) + 1
      BY <2>1, <2>2, FS_AddElement
    <2>4. Cardinality(U) = Cardinality(T) + (IF k + 1 \in A THEN 1 ELSE 0)
      BY <2>1, <2>2, <2>3
    <2> QED BY <2>4 DEF UpTo, T, U
  <1> QED BY <1>1, <1>2, <1>3, <1>4, <1>5 DEF Counted

\* The sums of the first values.
Adds(values, n, sum) ==
    /\ SumOf(values) = sum[n] /\ sum[0] = 0
    /\ \A k \in 1 .. n : sum[k] = sum[k - 1] + values[k]
    /\ \A k \in 0 .. n : sum[k] \in Nat

LEMMA Sums ==
    ASSUME NEW n \in Nat, NEW values \in [1 .. n -> Nat]
    PROVE  (\E sum : Adds(values, n, sum)) /\ SumOf(values) \in Nat
  <1> DEFINE next(x, k) == x + values[k]
             g == [k \in 1 .. n |-> [x \in Nat |-> next(x, k)]]
             Runs(r) == r = [k \in 0 .. Len(values) |-> IF k = 0 THEN 0 ELSE r[k - 1] + values[k]]
             run == CHOOSE r : Runs(r)
  <1>0. Len(values) = n
    OBVIOUS
  <1>1. \A k \in 1 .. n, x \in Nat : next(x, k) \in Nat
    OBVIOUS
  <1>2. g \in [1 .. n -> [Nat -> Nat]]
    <2> HIDE DEF next
    <2> QED BY <1>1
  <1>3. \E r : Runs(r)
    <2>1. PICK f : f \in [0 .. n -> Nat] /\ f[0] = 0 /\ \A k \in 1 .. n : f[k] = g[k][f[k - 1]]
      <3> HIDE DEF g
      <3>1. \E f : Computes(n, Nat, 0, g, f)
        BY <1>2, Recursion
      <3> QED BY <3>1 DEF Computes
    <2>2. \A k \in 1 .. n : k - 1 \in 0 .. n /\ f[k - 1] \in Nat
      BY <2>1
    <2>3. \A k \in 1 .. n : f[k] = next(f[k - 1], k)
      <3> HIDE DEF next
      <3> QED BY <2>1, <2>2
    <2>4. f = [k \in 0 .. n |-> IF k = 0 THEN 0 ELSE next(f[k - 1], k)]
      <3>1. \A k \in 0 .. n : k = 0 \/ k \in 1 .. n
        OBVIOUS
      <3>2. \A k \in 0 .. n : f[k] = IF k = 0 THEN 0 ELSE next(f[k - 1], k)
        <4> HIDE DEF next, g
        <4> QED BY <2>1, <2>3, <3>1
      <3> HIDE DEF next, g
      <3> QED BY <2>1, <3>2
    <2>5. Runs(f)
      BY <1>0, <2>4
    <2> HIDE DEF Runs
    <2> QED BY <2>5
  <1>4. Runs(run)
    <2> HIDE DEF Runs
    <2> QED BY <1>3
  <1>5. SumOf(values) = run[n]
    BY <1>0 DEF SumOf
  <1> HIDE DEF run, g
  <1>6. run[0] = 0 /\ \A k \in 1 .. n : run[k] = run[k - 1] + values[k]
    <2>1. \A k \in 0 .. n : run[k] = IF k = 0 THEN 0 ELSE run[k - 1] + values[k]
      BY <1>0, <1>4
    <2>2. 0 \in 0 .. n /\ \A k \in 1 .. n : k \in 0 .. n /\ k # 0
      OBVIOUS
    <2> HIDE DEF Runs
    <2> QED BY <2>1, <2>2
  <1>7. \A k \in 0 .. n : run[k] \in Nat
    <2> DEFINE S == {k \in 0 .. n : run[k] \in Nat}
    <2>1. 0 \in S
      BY <1>6
    <2>2. ASSUME NEW k \in 0 .. n - 1, k \in S PROVE k + 1 \in S
      <3>1. k + 1 \in 1 .. n /\ (k + 1) - 1 = k /\ k + 1 \in 0 .. n
        OBVIOUS
      <3>2. run[k + 1] = run[k] + values[k + 1] /\ values[k + 1] \in Nat
        BY <1>6, <3>1
      <3> QED BY <2>2, <3>1, <3>2
    <2>3. \A k \in 0 .. n : k \in S
      <3> HIDE DEF S
      <3> QED BY <2>1, <2>2, InductionTo
    <2> QED BY <2>3
  <1>8. Adds(values, n, run)
    BY <1>5, <1>6, <1>7 DEF Adds
  <1>9. SumOf(values) \in Nat
    BY <1>5, <1>7
  <1> QED BY <1>8, <1>9

\* What is added at the places of A, at most s at each.
LEMMA AddedAtMost ==
    ASSUME NEW n \in Nat, NEW A \in SUBSET (1 .. n), NEW s \in Nat, NEW u \in [1 .. n -> Nat], NEW v \in [1 .. n -> Nat],
           \A i \in 1 .. n : v[i] <= u[i] + (IF i \in A THEN s ELSE 0)
    PROVE  SumOf(v) <= SumOf(u) + s * Cardinality(A)
  <1>1. PICK su : Adds(u, n, su)
    BY Sums
  <1>2. PICK sv : Adds(v, n, sv)
    BY Sums
  <1> DEFINE c(k) == UpTo(A, k)
             S == {k \in 0 .. n : sv[k] <= su[k] + s * c(k)}
  <1>3. /\ \A k \in 0 .. n : c(k) \in Nat
        /\ c(0) = 0 /\ c(n) = Cardinality(A)
        /\ \A k \in 0 .. n - 1 : c(k + 1) = c(k) + (IF k + 1 \in A THEN 1 ELSE 0)
    <2>1. Counted(n, A)
      BY Counting
    <2> QED BY ONLY <2>1 DEF Counted
  <1> HIDE DEF c
  <1>4. 0 \in S
    <2>1. s * c(0) = 0
      BY <1>3, Times
    <2>2. sv[0] = 0 /\ su[0] = 0
      BY <1>1, <1>2 DEF Adds
    <2> QED BY <2>1, <2>2
  <1>5. ASSUME NEW k \in 0 .. n - 1, k \in S PROVE k + 1 \in S
    <2>0. s \in Nat
      OBVIOUS
    <2>1. k + 1 \in 1 .. n /\ (k + 1) - 1 = k /\ k + 1 \in 0 .. n /\ k \in 0 .. n
      OBVIOUS
    <2>2. sv[k + 1] = sv[k] + v[k + 1] /\ su[k + 1] = su[k] + u[k + 1] /\ sv[k] \in Nat /\ su[k] \in Nat
      BY <1>1, <1>2, <2>1 DEF Adds
    <2>3. u[k + 1] \in Nat /\ v[k + 1] \in Nat /\ v[k + 1] <= u[k + 1] + (IF k + 1 \in A THEN s ELSE 0)
      BY <2>1
    <2>4. s * c(k + 1) = s * c(k) + (IF k + 1 \in A THEN s ELSE 0) /\ s * c(k) \in Nat
      <3>1. c(k) \in Nat /\ c(k + 1) = c(k) + (IF k + 1 \in A THEN 1 ELSE 0)
        BY <1>3, <2>1
      <3>2. CASE k + 1 \in A
        BY <3>1, <3>2, Times
      <3>3. CASE k + 1 \notin A
        BY <3>1, <3>3, Times
      <3> QED BY <3>2, <3>3
    <2>5. sv[k] <= su[k] + s * c(k)
      BY <1>5
    <2> DEFINE x == s * c(k)
               y == s * c(k + 1)
    <2>6. x \in Nat /\ y = x + (IF k + 1 \in A THEN s ELSE 0) /\ sv[k] <= su[k] + x
      BY <2>4, <2>5
    <2> HIDE DEF x, y
    <2>7. sv[k + 1] <= su[k + 1] + y
      <3>1. CASE k + 1 \in A
        <4>1. y = x + s /\ v[k + 1] <= u[k + 1] + s
          BY <2>3, <2>6, <3>1
        <4>2. sv[k] + v[k + 1] <= su[k] + u[k + 1] + (x + s)
          BY <2>2, <2>3, <2>6, <4>1, OneMoreAtMost
        <4> QED BY <2>2, <4>1, <4>2
      <3>2. CASE k + 1 \notin A
        <4>1. y = x /\ v[k + 1] <= u[k + 1] + 0 /\ 0 \in Nat /\ x + 0 = x
          BY <2>3, <2>6, <3>2
        <4>2. sv[k] + v[k + 1] <= su[k] + u[k + 1] + (x + 0)
          BY <2>2, <2>3, <2>6, <4>1, OneMoreAtMost
        <4> QED BY <2>2, <4>1, <4>2
      <3> QED BY <3>1, <3>2
    <2> QED BY <2>1, <2>7 DEF y
  <1>6. n \in S
    <2>1. \A k \in 0 .. n : k \in S
      <3> HIDE DEF S
      <3> QED BY <1>4, <1>5, InductionTo
    <2> QED BY <2>1
  <1>7. sv[n] = SumOf(v) /\ su[n] = SumOf(u)
    BY <1>1, <1>2 DEF Adds
  <1> QED BY <1>3, <1>6, <1>7

\* s more at each place of A, and one more still at the first e of them.
Dealt(n, A, s, e, u, v) ==
    \A i \in 1 .. n : v[i] = u[i] + (IF i \notin A THEN 0 ELSE IF UpTo(A, i - 1) < e THEN s + 1 ELSE s)

Grown(A, s, e, u, v) == SumOf(v) = SumOf(u) + s * Cardinality(A) + e

LEMMA AddedExactly ==
    ASSUME NEW n \in Nat, NEW A \in SUBSET (1 .. n), NEW s \in Nat, NEW e \in Nat,
           NEW u \in [1 .. n -> Nat], NEW v \in [1 .. n -> Nat],
           Dealt(n, A, s, e, u, v), e <= Cardinality(A)
    PROVE  Grown(A, s, e, u, v)
  <1>1. PICK su : Adds(u, n, su)
    BY Sums
  <1>2. PICK sv : Adds(v, n, sv)
    BY Sums
  <1> DEFINE c(k) == UpTo(A, k)
             least(m) == IF m < e THEN m ELSE e
             S == {k \in 0 .. n : sv[k] = su[k] + s * c(k) + least(c(k))}
  <1>3. /\ \A k \in 0 .. n : c(k) \in Nat
        /\ c(0) = 0 /\ c(n) = Cardinality(A)
        /\ \A k \in 0 .. n - 1 : c(k + 1) = c(k) + (IF k + 1 \in A THEN 1 ELSE 0)
    <2>1. Counted(n, A)
      BY Counting
    <2> QED BY ONLY <2>1 DEF Counted
  <1>4. \A i \in 1 .. n : v[i] = u[i] + (IF i \notin A THEN 0 ELSE IF c(i - 1) < e THEN s + 1 ELSE s)
    BY DEF Dealt
  <1> HIDE DEF c
  <1>5. 0 \in S
    <2>1. s * c(0) = 0 /\ least(c(0)) = 0
      BY <1>3, Times
    <2>2. sv[0] = 0 /\ su[0] = 0
      BY <1>1, <1>2 DEF Adds
    <2> HIDE DEF least
    <2> QED BY <2>1, <2>2
  <1>6. ASSUME NEW k \in 0 .. n - 1, k \in S PROVE k + 1 \in S
    <2>0. s \in Nat
      OBVIOUS
    <2>1. k + 1 \in 1 .. n /\ (k + 1) - 1 = k /\ k + 1 \in 0 .. n /\ k \in 0 .. n
      OBVIOUS
    <2>2. sv[k + 1] = sv[k] + v[k + 1] /\ su[k + 1] = su[k] + u[k + 1] /\ sv[k] \in Nat /\ su[k] \in Nat
      BY <1>1, <1>2, <2>1 DEF Adds
    <2>3. u[k + 1] \in Nat /\ v[k + 1] = u[k + 1] + (IF k + 1 \notin A THEN 0 ELSE IF c(k) < e THEN s + 1 ELSE s)
      BY <1>4, <2>1
    <2> DEFINE x == s * c(k)
               y == s * c(k + 1)
    <2>4. x \in Nat /\ y = x + (IF k + 1 \in A THEN s ELSE 0) /\ c(k) \in Nat /\ c(k + 1) = c(k) + (IF k + 1 \in A THEN 1 ELSE 0)
      <3>1. c(k) \in Nat /\ c(k + 1) = c(k) + (IF k + 1 \in A THEN 1 ELSE 0)
        BY <1>3, <2>1
      <3>2. CASE k + 1 \in A
        BY <3>1, <3>2, Times
      <3>3. CASE k + 1 \notin A
        BY <3>1, <3>3, Times
      <3> QED BY <3>1, <3>2, <3>3
    <2>5. sv[k] = su[k] + x + least(c(k))
      BY <1>6
    <2> HIDE DEF x, y
    <2>6. sv[k + 1] = su[k + 1] + y + least(c(k + 1))
      <3> DEFINE a == sv[k]
                 b == su[k]
                 p == u[k + 1]
                 q == v[k + 1]
                 l == least(c(k))
      <3>0. /\ a \in Nat /\ b \in Nat /\ p \in Nat /\ q \in Nat /\ l \in Nat /\ x \in Nat /\ s \in Nat
            /\ sv[k + 1] = a + q /\ su[k + 1] = b + p /\ a = b + x + l
        BY <2>2, <2>3, <2>4, <2>5
      <3> HIDE DEF a, b, p, q, l
      <3>1. CASE k + 1 \in A /\ c(k) < e
        <4>1. y = x + s /\ c(k + 1) = c(k) + 1 /\ q = p + (s + 1)
          BY <2>3, <2>4, <3>1 DEF p, q
        <4>2. least(c(k + 1)) = l + 1
          BY <2>4, <3>1, <4>1 DEF l
        <4> HIDE DEF least
        <4> QED BY ONLY <3>0, <4>1, <4>2
      <3>2. CASE k + 1 \in A /\ ~(c(k) < e)
        <4>1. y = x + s /\ c(k + 1) = c(k) + 1 /\ q = p + s
          BY <2>3, <2>4, <3>2 DEF p, q
        <4>2. least(c(k + 1)) = l
          BY <2>4, <3>2, <4>1 DEF l
        <4> HIDE DEF least
        <4> QED BY ONLY <3>0, <4>1, <4>2
      <3>3. CASE k + 1 \notin A
        <4>1. y = x /\ c(k + 1) = c(k) /\ q = p
          BY <2>3, <2>4, <3>3 DEF p, q
        <4>2. least(c(k + 1)) = l
          BY <2>4, <3>3, <4>1 DEF l
        <4> HIDE DEF least
        <4> QED BY ONLY <3>0, <4>1, <4>2
      <3> QED BY <3>1, <3>2, <3>3
    <2> QED BY <2>1, <2>6 DEF y
  <1>7. n \in S
    <2>1. \A k \in 0 .. n : k \in S
      <3> HIDE DEF S
      <3> QED BY <1>5, <1>6, InductionTo
    <2> QED BY <2>1
  <1>8. sv[n] = SumOf(v) /\ su[n] = SumOf(u)
    BY <1>1, <1>2 DEF Adds
  <1>9. Cardinality(A) \in Nat /\ least(c(n)) = e
    BY <1>3
  <1>10. SumOf(v) = SumOf(u) + s * Cardinality(A) + e
    BY <1>3, <1>7, <1>8, <1>9
  <1> QED BY <1>10 DEF Grown

\* What a round of the dealing finds, for n pages, and how it may have ended.
Deals(n) == [given : [1 .. n -> Nat], active : SUBSET (1 .. n)]
Filling(lengths, budget, n, d) ==
    /\ SumOf(d.given) <= budget
    /\ \A i \in d.active : d.given[i] = 0
    /\ \A i \in 1 .. n \ d.active : d.given[i] = lengths[i] /\ lengths[i] * Cardinality(d.active) <= budget - SumOf(d.given)
Fair(lengths, n, shares) ==
    /\ \A i \in 1 .. n : shares[i] <= lengths[i]
    /\ \A i, j \in 1 .. n : shares[i] < lengths[i] => shares[j] <= shares[i] + 1 /\ (i < j => shares[j] <= shares[i])
Filled(lengths, budget, n, d) == SumOf(d.given) = budget /\ Fair(lengths, n, d.given)

LEMMA RoundFills ==
    ASSUME NEW n \in Nat, NEW lengths \in [1 .. n -> Nat], NEW budget \in Nat, NEW d \in Deals(n),
           Filling(lengths, budget, n, d), d.active # {}, SumOf(d.given) < budget
    PROVE  LET e == ShareRound(lengths, budget, d)
           IN  /\ e \in Deals(n)
               /\ \/ Filled(lengths, budget, n, e)
                  \/ Filling(lengths, budget, n, e) /\ Cardinality(e.active) < Cardinality(d.active)
  <1> DEFINE A       == d.active
             u       == d.given
             m       == Cardinality(A)
             left    == budget - SumOf(u)
             share   == left \div m
             extra   == left % m
             content == {i \in A : lengths[i] - u[i] <= share}
             e       == ShareRound(lengths, budget, d)
  <1>1. A \in SUBSET (1 .. n) /\ u \in [1 .. n -> Nat] /\ \A i \in A : i \in 1 .. n
    BY DEF Deals
  <1>2. m \in Nat \ {0} /\ IsFiniteSet(A)
    <2>1. IsFiniteSet(A)
      BY <1>1, PartOfInterval
    <2> QED BY <2>1, FS_EmptySet, FS_CardinalityType
  <1>3. SumOf(u) \in Nat /\ left \in Nat
    <2>1. SumOf(u) \in Nat
      BY <1>1, Sums
    <2> QED BY <2>1
  <1>4. share \in Nat /\ extra \in 0 .. m - 1 /\ extra = left - share * m
    <2> HIDE DEF left, m
    <2> QED BY <1>2, <1>3, Division
  <1>5. share * m \in Nat /\ left = share * m + extra
    <2>1. share * m \in Nat
      <3> HIDE DEF share, m
      <3> QED BY <1>2, <1>4, Times
    <2> DEFINE t == share * m
    <2> HIDE DEF share, m, left, extra, t
    <2>2. t \in Nat /\ extra = left - t /\ left \in Nat
      BY <1>3, <1>4, <2>1 DEF t
    <2>3. left = t + extra
      BY ONLY <2>2
    <2> QED BY <2>1, <2>3 DEF t
  <1>6. \A i \in 1 .. n : lengths[i] \in Nat /\ u[i] \in Nat
    BY <1>1
  <1>7. \A i \in A : u[i] = 0
    BY DEF Filling
  <1>8. ASSUME NEW i \in 1 .. n \ A PROVE u[i] = lengths[i] /\ lengths[i] <= share
    <2>1. u[i] = lengths[i] /\ lengths[i] * m <= left
      BY <1>8 DEF Filling
    <2>2. lengths[i] <= share
      <3> HIDE DEF m, left
      <3> QED BY <1>2, <1>3, <1>6, <2>1, ShareAtLeast
    <2> QED BY <2>1, <2>2
  <1>9. content \in SUBSET A /\ \A i \in A : i \in content <=> lengths[i] <= share
    <2>1. \A i \in A : lengths[i] - u[i] = lengths[i]
      BY <1>1, <1>6, <1>7
    <2> HIDE DEF A, u, share
    <2> QED BY ONLY <2>1
  <1>10. CASE content # {}
    <2> DEFINE v == [i \in 1 .. n |-> IF i \in content THEN lengths[i] ELSE u[i]]
               c == Cardinality(content)
               r == Cardinality(A \ content)
    <2>1. e = [given |-> v, active |-> A \ content]
      <3>1. DOMAIN lengths = 1 .. n
        OBVIOUS
      <3> QED BY <1>10, <3>1 DEF ShareRound
    <2>2. v \in [1 .. n -> Nat] /\ e \in Deals(n)
      <3>1. v \in [1 .. n -> Nat]
        <4> HIDE DEF content, u
        <4> QED BY <1>6
      <3> HIDE DEF v, content, A, e
      <3> QED BY <1>1, <2>1, <3>1 DEF Deals
    <2>3. c \in Nat /\ c > 0 /\ c <= m /\ r = m - c /\ r \in Nat
      <3>1. IsFiniteSet(content) /\ c \in Nat /\ c <= m
        <4> HIDE DEF content, A
        <4> QED BY <1>2, <1>9, FS_Subset, FS_CardinalityType
      <3>2. c # 0
        <4> HIDE DEF content
        <4> QED BY <1>10, <3>1, FS_EmptySet
      <3>3. r = m - c /\ r \in Nat
        <4> HIDE DEF content, A
        <4>1. IsFiniteSet(A \ content) /\ Cardinality(A \ content) = Cardinality(A) - Cardinality(A \cap content)
          BY <1>2, FS_Difference
        <4>2. A \cap content = content
          BY <1>9
        <4> QED BY <4>1, <4>2, FS_CardinalityType
      <3> QED BY <3>1, <3>2, <3>3
    <2>4. SumOf(v) \in Nat /\ SumOf(v) <= SumOf(u) + share * c
      <3>1. content \in SUBSET (1 .. n)
        BY <1>1
      <3>2. \A i \in 1 .. n : v[i] <= u[i] + (IF i \in content THEN share ELSE 0)
        <4> SUFFICES ASSUME NEW i \in 1 .. n PROVE v[i] <= u[i] + (IF i \in content THEN share ELSE 0)
          OBVIOUS
        <4>1. CASE i \in content
          <5>1. lengths[i] <= share /\ v[i] = lengths[i]
            BY <1>9, <4>1
          <5> HIDE DEF v, content, share, u
          <5> QED BY <1>4, <1>6, <4>1, <5>1
        <4>2. CASE i \notin content
          <5>1. v[i] = u[i]
            BY <4>2
          <5> HIDE DEF v, content, share, u
          <5> QED BY <1>6, <4>2, <5>1
        <4> QED BY <4>1, <4>2
      <3> HIDE DEF v, content, share, u
      <3> QED BY <1>1, <1>4, <2>2, <3>1, <3>2, AddedAtMost, Sums
    <2>5. SumOf(v) <= budget /\ share * r <= budget - SumOf(v)
      <3>1. share * c <= share * m /\ share * (m - c) = share * m - share * c /\ share * c \in Nat
        <4> HIDE DEF c, m, share
        <4> QED BY <1>2, <1>4, <2>3, TimesLess, Times
      <3> DEFINE x == share * c
                 y == share * m
                 z == share * r
                 su == SumOf(u)
                 sv == SumOf(v)
      <3>2. /\ x \in Nat /\ y \in Nat /\ x <= y /\ z = y - x /\ su \in Nat /\ sv \in Nat /\ sv <= su + x
            /\ budget - su = y + extra /\ extra \in Nat
        <4>1. extra \in Nat
          <5> HIDE DEF m, share, extra
          <5> QED BY <1>2, <1>4
        <4> HIDE DEF c, r, m, share, v, u, extra
        <4> QED BY <1>3, <1>5, <2>3, <2>4, <3>1, <4>1 DEF left
      <3> HIDE DEF x, y, z, su, sv, extra
      <3>3. sv <= budget /\ z <= budget - sv
        BY ONLY <3>2, budget \in Nat
      <3> QED BY <3>3 DEF sv, z
    <2>6. ASSUME NEW i \in 1 .. n \ (A \ content) PROVE v[i] = lengths[i] /\ lengths[i] <= share
      <3>1. CASE i \in content
        BY <1>9, <3>1
      <3>2. CASE i \notin content
        BY <1>8, <3>2
      <3> QED BY <3>1, <3>2
    <2>7. ASSUME NEW i \in 1 .. n \ (A \ content) PROVE v[i] = lengths[i] /\ lengths[i] * r <= budget - SumOf(v)
      <3>1. v[i] = lengths[i] /\ lengths[i] <= share
        BY <2>6
      <3>2. lengths[i] * r <= share * r /\ lengths[i] * r \in Nat /\ share * r \in Nat
        <4> HIDE DEF share, r
        <4> QED BY <1>4, <1>6, <2>3, <3>1, TimesLess, Times
      <3> DEFINE x == lengths[i] * r
                 y == share * r
                 z == SumOf(v)
      <3>3. x <= y /\ y <= budget - z /\ x \in Nat /\ y \in Nat /\ z \in Nat
        BY <2>4, <2>5, <3>2
      <3> HIDE DEF x, y, z
      <3>4. x <= budget - z
        BY ONLY <3>3, budget \in Nat
      <3> QED BY <3>1, <3>4 DEF x, z
    <2>8. \A i \in A \ content : v[i] = 0
      BY <1>1, <1>7
    <2>9. e.given = v /\ e.active = A \ content
      <3> HIDE DEF e
      <3> QED BY <2>1
    <2>10. Filling(lengths, budget, n, e)
      <3> HIDE DEF e, v, content, A
      <3> QED BY <2>5, <2>7, <2>8, <2>9 DEF Filling
    <2>11. Cardinality(e.active) < Cardinality(d.active)
      <3> HIDE DEF e, v, c, r, content
      <3>1. r < m
        BY <1>2, <2>3
      <3> QED BY <2>9, <3>1 DEF r
    <2>12. e \in Deals(n) /\ Filling(lengths, budget, n, e) /\ Cardinality(e.active) < Cardinality(d.active)
      BY <2>2, <2>10, <2>11
    <2> QED BY ONLY <2>12 DEF e
  <1>11. CASE content = {}
    <2> DEFINE first(i) == Cardinality({j \in A : j < i}) < extra
               v == [i \in 1 .. n |-> u[i] + (IF i \notin A THEN 0 ELSE IF first(i) THEN share + 1 ELSE share)]
    <2>1. e = [given |-> v, active |-> {}]
      <3>1. DOMAIN lengths = 1 .. n
        OBVIOUS
      <3> QED BY <1>11, <3>1 DEF ShareRound
    <2> HIDE DEF e
    <2>2. ASSUME NEW i \in 1 .. n
          PROVE  /\ v[i] \in Nat
                 /\ i \in A => (first(i) => v[i] = share + 1) /\ (~first(i) => v[i] = share) /\ share < lengths[i]
                 /\ i \notin A => v[i] = lengths[i] /\ v[i] <= share
      <3>1. CASE i \in A
        <4>1. u[i] = 0 /\ ~(lengths[i] <= share)
          BY <1>7, <1>9, <1>11, <3>1
        <4>2. v[i] = u[i] + (IF first(i) THEN share + 1 ELSE share)
          BY <3>1
        <4> HIDE DEF v, first, share, u, A
        <4> QED BY <1>4, <1>6, <3>1, <4>1, <4>2
      <3>2. CASE i \notin A
        <4>1. v[i] = u[i] + 0
          BY <3>2
        <4> HIDE DEF v, first, share, u, A
        <4> QED BY <1>4, <1>6, <1>8, <3>2, <4>1
      <3> QED BY <3>1, <3>2
    <2>3. v \in [1 .. n -> Nat]
      <3>1. v = [i \in 1 .. n |-> v[i]]
        OBVIOUS
      <3> HIDE DEF v
      <3> QED BY <2>2, <3>1
    <2>4. ASSUME NEW i \in 1 .. n PROVE Cardinality({j \in A : j < i}) = UpTo(A, i - 1)
      <3>a. \A j \in A : j \in Nat
        BY <1>1
      <3>1. \A j \in A : j < i <=> j <= i - 1
        <4> HIDE DEF A
        <4> QED BY ONLY <3>a, i \in 1 .. n, n \in Nat
      <3>2. {j \in A : j < i} = {j \in A : j <= i - 1}
        <4> HIDE DEF A
        <4> QED BY <3>1
      <3> QED BY <3>2 DEF UpTo
    <2>5. SumOf(v) = budget
      <3>1. \A i \in 1 .. n : v[i] = u[i] + (IF i \notin A THEN 0 ELSE IF UpTo(A, i - 1) < extra THEN share + 1 ELSE share)
        <4> SUFFICES ASSUME NEW i \in 1 .. n
                     PROVE  v[i] = u[i] + (IF i \notin A THEN 0 ELSE IF UpTo(A, i - 1) < extra THEN share + 1 ELSE share)
          OBVIOUS
        <4>1. v[i] = u[i] + (IF i \notin A THEN 0 ELSE IF first(i) THEN share + 1 ELSE share)
          OBVIOUS
        <4>2. first(i) <=> UpTo(A, i - 1) < extra
          BY <2>4
        <4> HIDE DEF v, first, extra, share, u, A
        <4> QED BY <4>1, <4>2
      <3>2. extra \in Nat /\ extra <= Cardinality(A)
        <4> HIDE DEF share, extra
        <4> QED BY <1>2, <1>4
      <3>3. SumOf(v) = SumOf(u) + share * m + extra
        <4> HIDE DEF v, extra, share, u, A, first, content, left
        <4>1. A \in SUBSET (1 .. n) /\ share \in Nat /\ extra \in Nat /\ u \in [1 .. n -> Nat] /\ v \in [1 .. n -> Nat]
          BY <1>1, <1>4, <2>3, <3>2
        <4>2. Dealt(n, A, share, extra, u, v)
          BY <3>1 DEF Dealt
        <4>3. SumOf(u) \in Nat /\ SumOf(v) \in Nat /\ share * m \in Nat
          BY <1>3, <1>5, <4>1, Sums
        <4>4. Grown(A, share, extra, u, v)
          BY ONLY n \in Nat, <3>2, <4>1, <4>2, AddedExactly
        <4> QED BY <4>3, <4>4 DEF Grown
      <3> DEFINE x == share * m
                 y == SumOf(u)
                 z == SumOf(v)
      <3>4. z = y + x + extra /\ x \in Nat /\ extra \in Nat /\ y \in Nat /\ budget - y = x + extra
        BY <1>3, <1>5, <3>2, <3>3
      <3> HIDE DEF x, y, z, extra
      <3>5. z = budget
        BY ONLY <3>4, budget \in Nat
      <3> QED BY <3>5 DEF z
    <2>6. ASSUME NEW i \in 1 .. n, NEW j \in 1 .. n, i < j, first(j), i \in A PROVE first(i)
      <3>1. {k \in A : k < i} \in SUBSET {k \in A : k < j}
        <4>1. \A k \in A : k < i => k < j
          BY <1>1, <2>6
        <4> HIDE DEF A
        <4> QED BY <4>1
      <3>2. IsFiniteSet({k \in A : k < j})
        <4>1. {k \in A : k < j} \in SUBSET A
          OBVIOUS
        <4> HIDE DEF A
        <4> QED BY <1>2, <4>1, FS_Subset
      <3>3. Cardinality({k \in A : k < i}) <= Cardinality({k \in A : k < j})
        <4> HIDE DEF A
        <4> QED BY <3>1, <3>2, FS_Subset
      <3>4. Cardinality({k \in A : k < i}) \in Nat /\ Cardinality({k \in A : k < j}) \in Nat
        <4> HIDE DEF A
        <4> QED BY <3>1, <3>2, FS_Subset, FS_CardinalityType
      <3>5. extra \in Nat
        <4> HIDE DEF share, extra, m
        <4> QED BY <1>2, <1>4
      <3> DEFINE p == Cardinality({k \in A : k < i})
                 q == Cardinality({k \in A : k < j})
      <3>6. p <= q /\ p \in Nat /\ q \in Nat /\ q < extra
        BY <2>6, <3>3, <3>4
      <3> HIDE DEF p, q, extra
      <3>7. p < extra
        BY ONLY <3>5, <3>6
      <3> QED BY <3>7 DEF p
    <2> HIDE DEF v, first, share, A
    <2>7. Fair(lengths, n, v)
      <3>1. ASSUME NEW i \in 1 .. n PROVE v[i] <= lengths[i]
        <4>1. /\ v[i] \in Nat /\ lengths[i] \in Nat /\ share \in Nat
              /\ (v[i] = share + 1 /\ share < lengths[i]) \/ (v[i] = share /\ share < lengths[i]) \/ v[i] = lengths[i]
          BY <1>4, <1>6, <2>2
        <4> QED BY ONLY <4>1
      <3>2. ASSUME NEW i \in 1 .. n, NEW j \in 1 .. n, v[i] < lengths[i]
            PROVE  v[j] <= v[i] + 1 /\ (i < j => v[j] <= v[i])
        <4>1. i \in A /\ v[i] >= share
          BY <1>4, <1>6, <2>2, <3>2
        <4>2. v[j] <= share + 1
          <5>1. v[j] \in Nat /\ share \in Nat /\ (v[j] = share + 1 \/ v[j] = share \/ v[j] <= share)
            BY <1>4, <2>2
          <5> QED BY ONLY <5>1
        <4>3. ASSUME i < j PROVE v[j] <= v[i]
          <5>1. CASE first(i)
            <6>1. v[i] = share + 1
              BY <2>2, <4>1, <5>1
            <6> QED BY <4>2, <6>1
          <5>2. CASE ~first(i)
            <6>1. ~first(j)
              BY <2>6, <4>1, <4>3, <5>2
            <6>2. v[j] <= share
              BY <1>4, <2>2, <6>1
            <6> QED BY <1>4, <2>2, <4>1, <6>2
          <5> QED BY <5>1, <5>2
        <4>4. v[i] \in Nat /\ v[j] \in Nat /\ share \in Nat
          BY <1>4, <2>2
        <4>5. v[j] <= v[i] + 1
          BY ONLY <4>1, <4>2, <4>4
        <4> QED BY <4>3, <4>5
      <3> QED BY <3>1, <3>2 DEF Fair
    <2>8. e.given = v /\ e.active = {} /\ e \in Deals(n)
      BY <2>1, <2>3 DEF Deals
    <2>9. Filled(lengths, budget, n, e)
      BY <2>5, <2>7, <2>8 DEF Filled
    <2>10. e \in Deals(n) /\ Filled(lengths, budget, n, e)
      BY <2>8, <2>9
    <2> QED BY ONLY <2>10 DEF e
  <1> QED BY <1>10, <1>11

\* The rounds, of which a next one comes while there is somebody to give to and something to give.
AfterRound(lengths, budget, d) ==
    IF d.active = {} \/ SumOf(d.given) >= budget THEN d ELSE ShareRound(lengths, budget, d)

Rounds(lengths, budget, n, run) ==
    /\ run[0] = [given |-> [i \in DOMAIN lengths |-> 0], active |-> DOMAIN lengths]
    /\ \A k \in 1 .. n : run[k] = AfterRound(lengths, budget, run[k - 1])
    /\ SumOf(lengths) > budget => FairShares(lengths, budget) = run[n].given

GoodDeals(lengths, budget, n) == {d \in Deals(n) : Filling(lengths, budget, n, d) \/ Filled(lengths, budget, n, d)}

LEMMA FirstDeal ==
    ASSUME NEW n \in Nat, NEW lengths \in [1 .. n -> Nat], NEW budget \in Nat, NEW d,
           d = [given |-> [i \in DOMAIN lengths |-> 0], active |-> DOMAIN lengths]
    PROVE  d \in Deals(n) /\ d.active = 1 .. n /\ Filling(lengths, budget, n, d)
  <1> DEFINE zero == [i \in 1 .. n |-> 0]
  <1>1. d = [given |-> zero, active |-> 1 .. n]
    OBVIOUS
  <1>2. zero \in [1 .. n -> Nat]
    OBVIOUS
  <1>3. SumOf(zero) <= 0
    <2>1. Adds(zero, n, CHOOSE sum : Adds(zero, n, sum))
      <3> HIDE DEF zero
      <3> QED BY <1>2, Sums
    <2> DEFINE sum == CHOOSE sum : Adds(zero, n, sum)
               S == {k \in 0 .. n : sum[k] = 0}
    <2>2. Adds(zero, n, sum)
      BY <2>1
    <2> HIDE DEF sum
    <2>3. 0 \in S
      BY <2>2 DEF Adds
    <2>4. ASSUME NEW k \in 0 .. n - 1, k \in S PROVE k + 1 \in S
      <3>1. k + 1 \in 1 .. n /\ (k + 1) - 1 = k /\ k + 1 \in 0 .. n
        OBVIOUS
      <3>2. sum[k + 1] = sum[k] + zero[k + 1] /\ sum[k] = 0
        <4> HIDE DEF zero
        <4> QED BY <2>2, <2>4, <3>1 DEF Adds
      <3>3. zero[k + 1] = 0
        BY <3>1
      <3>4. sum[k + 1] = 0
        <4> HIDE DEF zero
        <4> QED BY <3>2, <3>3
      <3> QED BY <3>1, <3>4
    <2>5. n \in S
      <3>1. \A k \in 0 .. n : k \in S
        <4> HIDE DEF S
        <4> QED BY <2>3, <2>4, InductionTo
      <3> QED BY <3>1
    <2> QED BY <2>2, <2>5 DEF Adds
  <1>4. SumOf(zero) \in Nat
    <2> HIDE DEF zero
    <2> QED BY <1>2, Sums
  <1>5. d.given = zero /\ d.active = 1 .. n /\ d \in Deals(n)
    <2> HIDE DEF zero
    <2> QED BY <1>1, <1>2 DEF Deals
  <1>6. \A i \in 1 .. n : zero[i] = 0
    OBVIOUS
  <1>7. Filling(lengths, budget, n, d)
    <2>1. SumOf(d.given) <= budget
      <3> HIDE DEF zero
      <3> QED BY <1>3, <1>4, <1>5
    <2> HIDE DEF zero
    <2> QED BY <1>5, <1>6, <2>1 DEF Filling
  <1> QED BY <1>5, <1>7

LEMMA RoundKeeps ==
    ASSUME NEW n \in Nat, NEW lengths \in [1 .. n -> Nat], NEW budget \in Nat, NEW d \in GoodDeals(lengths, budget, n)
    PROVE  LET e == AfterRound(lengths, budget, d)
           IN  /\ e \in GoodDeals(lengths, budget, n)
               /\ Filled(lengths, budget, n, d) => e = d
               /\ Filled(lengths, budget, n, e) \/ e.active = {} \/ Cardinality(e.active) < Cardinality(d.active)
  <1> DEFINE e == AfterRound(lengths, budget, d)
  <1>1. d \in Deals(n) /\ SumOf(d.given) \in Nat
    BY Sums DEF GoodDeals, Deals
  <1>2. Filled(lengths, budget, n, d) => e = d
    BY <1>1 DEF Filled, AfterRound
  <1>3. CASE d.active = {} \/ Filled(lengths, budget, n, d)
    <2>1. e = d
      BY <1>2, <1>3 DEF AfterRound
    <2> HIDE DEF e
    <2>2. e \in GoodDeals(lengths, budget, n) /\ (Filled(lengths, budget, n, e) \/ e.active = {})
      BY <1>3, <2>1
    <2> QED BY ONLY <1>2, <2>2 DEF e
  <1>4. CASE Filling(lengths, budget, n, d) /\ d.active # {} /\ SumOf(d.given) < budget
    <2>1. e = ShareRound(lengths, budget, d)
      BY <1>1, <1>4 DEF AfterRound
    <2>2. /\ e \in Deals(n)
          /\ \/ Filled(lengths, budget, n, e)
             \/ Filling(lengths, budget, n, e) /\ Cardinality(e.active) < Cardinality(d.active)
      BY ONLY n \in Nat, lengths \in [1 .. n -> Nat], budget \in Nat, <1>1, <1>4, <2>1, RoundFills
    <2>3. e \in GoodDeals(lengths, budget, n)
      BY <2>2 DEF GoodDeals
    <2> QED BY <1>2, <2>2, <2>3
  <1>5. CASE Filling(lengths, budget, n, d) /\ d.active # {} /\ SumOf(d.given) >= budget
    <2> DEFINE A == d.active
               u == d.given
    <2>1. u \in [1 .. n -> Nat] /\ A \in SUBSET (1 .. n) /\ Cardinality(A) \in Nat \ {0}
      <3>1. u \in [1 .. n -> Nat] /\ A \in SUBSET (1 .. n)
        BY <1>1 DEF Deals
      <3>2. IsFiniteSet(A)
        BY <3>1, PartOfInterval
      <3> QED BY <1>5, <3>1, <3>2, FS_CardinalityType, FS_EmptySet
    <2>2. SumOf(u) = budget
      BY <1>1, <1>5 DEF Filling
    <2>3. ASSUME NEW i \in 1 .. n PROVE u[i] = 0
      <3>1. CASE i \in A
        BY <1>5, <3>1 DEF Filling
      <3>2. CASE i \notin A
        <4>1. u[i] = lengths[i] /\ lengths[i] * Cardinality(A) <= budget - SumOf(u)
          BY <1>5, <3>2 DEF Filling
        <4> DEFINE c == Cardinality(A)
                   l == lengths[i]
        <4>2. c \in Nat \ {0} /\ l \in Nat /\ l * c <= 0
          BY <2>1, <2>2, <4>1
        <4> HIDE DEF c, l
        <4>3. l = 0
          BY ONLY <4>2
        <4> QED BY <4>1, <4>3 DEF l
      <3> QED BY <3>1, <3>2
    <2>4. Filled(lengths, budget, n, d)
      <3> HIDE DEF A
      <3>1. \A i \in 1 .. n : u[i] = 0 /\ lengths[i] \in Nat
        BY <2>3
      <3>2. Fair(lengths, n, u)
        <4> HIDE DEF u
        <4> QED BY <3>1 DEF Fair
      <3> QED BY <2>2, <3>2 DEF Filled
    <2> QED BY <1>3, <2>4
  <1> QED BY <1>1, <1>3, <1>4, <1>5 DEF GoodDeals

LEMMA RoundsRun ==
    ASSUME NEW n \in Nat, NEW lengths \in [1 .. n -> Nat], NEW budget \in Nat
    PROVE  \E run : Rounds(lengths, budget, n, run) /\ \A k \in 0 .. n : run[k] \in GoodDeals(lengths, budget, n)
  <1> DEFINE A == GoodDeals(lengths, budget, n)
             first == [given |-> [i \in DOMAIN lengths |-> 0], active |-> DOMAIN lengths]
             next(d) == AfterRound(lengths, budget, d)
             g == [k \in 1 .. n |-> [d \in A |-> next(d)]]
             Runs(r) == r = [k \in 0 .. Len(lengths) |->
                                IF k = 0 THEN first
                                ELSE IF r[k - 1].active = {} \/ SumOf(r[k - 1].given) >= budget THEN r[k - 1]
                                ELSE ShareRound(lengths, budget, r[k - 1])]
             run == CHOOSE r : Runs(r)
  <1>0. Len(lengths) = n
    OBVIOUS
  <1>1. first \in A
    <2> HIDE DEF first
    <2>1. first \in Deals(n) /\ Filling(lengths, budget, n, first)
      BY FirstDeal DEF first
    <2> QED BY <2>1 DEF GoodDeals
  <1>2. \A d \in A : next(d) \in A
    BY RoundKeeps
  <1>3. g \in [1 .. n -> [A -> A]]
    <2> HIDE DEF A, next
    <2> QED BY <1>2
  <1> HIDE DEF first
  <1>4. \E r : Runs(r)
    <2>1. PICK f : f \in [0 .. n -> A] /\ f[0] = first /\ \A k \in 1 .. n : f[k] = g[k][f[k - 1]]
      <3> HIDE DEF g, A
      <3>1. \E f : Computes(n, A, first, g, f)
        BY <1>1, <1>3, Recursion
      <3> QED BY <3>1 DEF Computes
    <2>2. \A k \in 1 .. n : k - 1 \in 0 .. n /\ f[k - 1] \in A
      <3> HIDE DEF A
      <3> QED BY <2>1
    <2>3. \A k \in 1 .. n : f[k] = next(f[k - 1])
      <3> HIDE DEF next, A
      <3> QED BY <2>1, <2>2
    <2>4. f = [k \in 0 .. n |-> IF k = 0 THEN first ELSE next(f[k - 1])]
      <3>1. \A k \in 0 .. n : k = 0 \/ k \in 1 .. n
        OBVIOUS
      <3> HIDE DEF next, g, A
      <3>2. \A k \in 0 .. n : f[k] = IF k = 0 THEN first ELSE next(f[k - 1])
        BY <2>1, <2>3, <3>1
      <3> QED BY <2>1, <3>2
    <2>5. Runs(f)
      BY <1>0, <2>4 DEF AfterRound
    <2> HIDE DEF Runs
    <2> QED BY <2>5
  <1>5. Runs(run)
    <2> HIDE DEF Runs
    <2> QED BY <1>4
  <1>6. SumOf(lengths) > budget => FairShares(lengths, budget) = run[n].given
    <2> SUFFICES ASSUME SumOf(lengths) > budget PROVE FairShares(lengths, budget) = run[n].given
      OBVIOUS
    <2>1. ~(SumOf(lengths) <= budget)
      BY Sums
    <2> QED BY <1>0, <2>1 DEF FairShares, first
  <1> HIDE DEF run, g
  <1>7. run[0] = first /\ \A k \in 1 .. n : run[k] = next(run[k - 1])
    <2>1. \A k \in 0 .. n : run[k] = IF k = 0 THEN first ELSE next(run[k - 1])
      BY <1>0, <1>5 DEF AfterRound
    <2>2. 0 \in 0 .. n /\ \A k \in 1 .. n : k \in 0 .. n /\ k # 0
      OBVIOUS
    <2> HIDE DEF Runs, next
    <2> QED BY <2>1, <2>2
  <1> DEFINE S == {k \in 0 .. n : run[k] \in A}
  <1>8. \A k \in 0 .. n : k \in S
    <2> HIDE DEF A, next
    <2>1. 0 \in S
      BY <1>1, <1>7
    <2>2. ASSUME NEW k \in 0 .. n - 1, k \in S PROVE k + 1 \in S
      <3>1. k + 1 \in 1 .. n /\ (k + 1) - 1 = k /\ k + 1 \in 0 .. n
        OBVIOUS
      <3>2. run[k + 1] = next(run[k])
        BY <1>7, <3>1
      <3> QED BY <1>2, <2>2, <3>1, <3>2
    <2> HIDE DEF S
    <2> QED BY <2>1, <2>2, InductionTo
  <1>9. Rounds(lengths, budget, n, run)
    BY <1>6, <1>7 DEF Rounds, first
  <1>10. \A k \in 0 .. n : run[k] \in A
    BY <1>8
  <1> QED BY <1>9, <1>10

LEMMA SharesAreFair ==
    ASSUME NEW n \in Nat, NEW lengths \in [1 .. n -> Nat], NEW budget \in Nat
    PROVE  FairShares(lengths, budget) \in [1 .. n -> Nat] /\ SharesFair(lengths, FairShares(lengths, budget), budget)
  <1> DEFINE shares == FairShares(lengths, budget)
  <1>0. SumOf(lengths) \in Nat
    BY Sums
  <1>1. CASE SumOf(lengths) <= budget
    <2>1. shares = lengths
      BY <1>1 DEF FairShares
    <2>2. SumOf(lengths) = Min({budget, SumOf(lengths)})
      <3> DEFINE T == {budget, SumOf(lengths)}
      <3>1. T \in SUBSET Nat /\ T # {}
        BY <1>0
      <3>2. Min(T) \in T /\ \A w \in T : Min(T) <= w
        <4> HIDE DEF T
        <4> QED BY <3>1, MinOf
      <3> QED BY <1>0, <1>1, <3>2
    <2>3. \A i \in 1 .. n : lengths[i] <= lengths[i] /\ ~(lengths[i] < lengths[i])
      OBVIOUS
    <2> HIDE DEF shares
    <2> QED BY <2>1, <2>2, <2>3 DEF SharesFair, shares
  <1>2. CASE SumOf(lengths) > budget
    <2>1. PICK run : Rounds(lengths, budget, n, run) /\ \A k \in 0 .. n : run[k] \in GoodDeals(lengths, budget, n)
      BY RoundsRun
    <2> DEFINE S == {k \in 0 .. n : Filled(lengths, budget, n, run[k]) \/ Cardinality(run[k].active) <= n - k}
    <2>2. ASSUME NEW k \in 0 .. n PROVE run[k] \in Deals(n) /\ Cardinality(run[k].active) \in Nat
      <3>1. run[k] \in Deals(n)
        BY <2>1 DEF GoodDeals
      <3>2. run[k].active \in SUBSET (1 .. n)
        BY <3>1 DEF Deals
      <3>3. IsFiniteSet(1 .. n)
        BY FS_Interval
      <3>4. IsFiniteSet(run[k].active)
        BY <3>2, <3>3, FS_Subset
      <3> QED BY <3>1, <3>4, FS_CardinalityType
    <2>3. ASSUME NEW d \in Deals(n), Filling(lengths, budget, n, d), d.active = {} PROVE FALSE
      <3>1. d.given \in [1 .. n -> Nat] /\ \A i \in 1 .. n : d.given[i] = lengths[i]
        BY <2>3 DEF Deals, Filling
      <3>2. d.given = lengths
        BY <3>1
      <3>3. SumOf(lengths) <= budget
        BY <2>3, <3>2 DEF Filling
      <3> QED BY <1>0, <1>2, <3>3
    <2>4. 0 \in S
      <3>1. 0 \in 0 .. n /\ run[0].active = 1 .. n
        BY <2>1 DEF Rounds
      <3>2. Cardinality(1 .. n) = n
        BY FS_Interval
      <3>3. Cardinality(run[0].active) <= n - 0
        BY <3>1, <3>2
      <3> QED BY <3>1, <3>3
    <2>5. ASSUME NEW k \in 0 .. n - 1, k \in S PROVE k + 1 \in S
      <3> DEFINE d == run[k]
                 e == run[k + 1]
      <3>1. k + 1 \in 1 .. n /\ (k + 1) - 1 = k /\ k + 1 \in 0 .. n /\ k \in 0 .. n
        OBVIOUS
      <3>2. e = AfterRound(lengths, budget, d) /\ d \in GoodDeals(lengths, budget, n) /\ e \in GoodDeals(lengths, budget, n)
        BY <2>1, <3>1 DEF Rounds
      <3>3. /\ Filled(lengths, budget, n, d) => e = d
            /\ Filled(lengths, budget, n, e) \/ e.active = {} \/ Cardinality(e.active) < Cardinality(d.active)
        <4> HIDE DEF d, e
        <4> QED BY <3>2, RoundKeeps
      <3>4. Cardinality(d.active) \in Nat /\ Cardinality(e.active) \in Nat
        BY <2>2, <3>1
      <3>5. e.active = {} => Filled(lengths, budget, n, e)
        <4> HIDE DEF e, d
        <4> QED BY <2>3, <3>2 DEF GoodDeals
      <3>6. Filled(lengths, budget, n, d) \/ Cardinality(d.active) <= n - k
        BY <2>5
      <3>7. Filled(lengths, budget, n, e) \/ Cardinality(e.active) <= n - (k + 1)
        <4> HIDE DEF e, d
        <4>1. CASE Filled(lengths, budget, n, e)
          BY <4>1
        <4>2. CASE ~Filled(lengths, budget, n, e)
          <5>1. Cardinality(e.active) < Cardinality(d.active) /\ Cardinality(d.active) <= n - k
            BY <3>3, <3>5, <3>6, <4>2
          <5> QED BY <3>4, <5>1
        <4> QED BY <4>1, <4>2
      <3> QED BY <3>1, <3>7
    <2>6. n \in S
      <3>1. \A k \in 0 .. n : k \in S
        <4> HIDE DEF S
        <4> QED BY <2>4, <2>5, InductionTo
      <3> QED BY <3>1
    <2>7. Filled(lengths, budget, n, run[n])
      <3> SUFFICES ASSUME ~Filled(lengths, budget, n, run[n]) PROVE FALSE
        OBVIOUS
      <3>1. n \in 0 .. n /\ Cardinality(run[n].active) <= n - n
        BY <2>6
      <3>2. run[n].active \in SUBSET (1 .. n) /\ Cardinality(run[n].active) = 0
        BY <2>2, <3>1 DEF Deals
      <3>3. run[n].active = {}
        <4>1. IsFiniteSet(1 .. n)
          BY FS_Interval
        <4>2. IsFiniteSet(run[n].active)
          BY <3>2, <4>1, FS_Subset
        <4> QED BY <3>2, <4>2, FS_EmptySet
      <3>4. Filling(lengths, budget, n, run[n]) /\ run[n] \in Deals(n)
        BY <2>1, <3>1 DEF GoodDeals
      <3> QED BY <2>3, <3>3, <3>4
    <2>8. shares = run[n].given /\ run[n].given \in [1 .. n -> Nat]
      <3>1. run[n] \in Deals(n)
        BY <2>2
      <3>2. shares = run[n].given
        <4> HIDE DEF shares
        <4> QED BY <1>2, <2>1 DEF Rounds, shares
      <3> QED BY <3>1, <3>2 DEF Deals
    <2> HIDE DEF shares
    <2>9. SumOf(shares) = Min({budget, SumOf(lengths)})
      <3> DEFINE T == {budget, SumOf(lengths)}
      <3>1. T \in SUBSET Nat /\ T # {}
        BY <1>0
      <3>2. Min(T) \in T /\ \A w \in T : Min(T) <= w
        <4> HIDE DEF T
        <4> QED BY <3>1, MinOf
      <3>3. Min(T) = budget
        BY <1>0, <1>2, <3>2
      <3> QED BY <2>7, <2>8, <3>3 DEF Filled
    <2>10. SharesFair(lengths, shares, budget)
      <3>1. DOMAIN shares = 1 .. n
        BY <2>8
      <3>2. Fair(lengths, n, shares)
        BY <2>7, <2>8 DEF Filled
      <3> QED BY <2>9, <3>1, <3>2 DEF SharesFair, Fair
    <2> QED BY <2>8, <2>10 DEF shares
  <1> QED BY <1>0, <1>1, <1>2

(***************************************************************************)
(* The passages of a text (span_extraction_v3.py)                          *)
(***************************************************************************)
\* What is left of a range without the white space at its ends.
TrimmedTo(text, from, to, s) ==
    /\ s[1] \in Solid(text, from, to) /\ s[2] - 1 \in Solid(text, from, to) /\ s[2] \in Nat /\ s = <<s[1], s[2]>>
    /\ s[1] \in Nat /\ from <= s[1] /\ s[1] < s[2] /\ s[2] <= to
    /\ \A i \in Solid(text, from, to) : s[1] <= i /\ i < s[2]

LEMMA SolidPlaces ==
    ASSUME NEW text, NEW from \in Nat, NEW to \in Nat
    PROVE  /\ Solid(text, from, to) \in SUBSET Nat
           /\ \A i \in Nat : i \in Solid(text, from, to) <=> from <= i /\ i < to /\ CharAt(text, i) \notin Whites
  <1>1. \A i : i \in from .. to - 1 <=> i \in Nat /\ from <= i /\ i < to
    OBVIOUS
  <1> QED BY <1>1 DEF Solid

LEMMA TrimmedRight ==
    ASSUME NEW text, NEW from \in Nat, NEW to \in Nat
    PROVE  /\ \A s \in Trimmed(text, from, to) : TrimmedTo(text, from, to, s)
           /\ Solid(text, from, to) # {} => Trimmed(text, from, to) # {}
  <1> DEFINE solid == Solid(text, from, to)
  <1>1. solid \in SUBSET Nat /\ \A i \in solid : from <= i /\ i < to
    BY SolidPlaces
  <1>2. ASSUME NEW s \in Trimmed(text, from, to) PROVE TrimmedTo(text, from, to, s)
    <2>1. solid # {} /\ s = <<Min(solid), Max(solid) + 1>>
      BY <1>2 DEF Trimmed
    <2>2. Min(solid) \in solid /\ \A w \in solid : Min(solid) <= w
      <3> HIDE DEF solid
      <3> QED BY <1>1, <2>1, MinOf
    <2>3. Max(solid) \in solid /\ \A w \in solid : w <= Max(solid)
      <3> HIDE DEF solid
      <3>1. \A i \in solid : i \in 0 .. to
        BY <1>1
      <3>2. solid \in SUBSET (0 .. to)
        BY <3>1
      <3> QED BY <2>1, <3>2, MaxOf
    <2> DEFINE a == Min(solid)
               b == Max(solid)
    <2>4. s = <<a, b + 1>> /\ a \in Nat /\ b \in Nat /\ a <= b /\ from <= a /\ b < to
      BY <1>1, <2>1, <2>2, <2>3
    <2>5. \A i \in solid : i \in Nat /\ a <= i /\ i <= b
      BY <1>1, <2>2, <2>3
    <2> HIDE DEF a, b
    <2>6. s[1] = a /\ s[2] = b + 1 /\ s[2] - 1 = b /\ s[2] \in Nat /\ s[1] < s[2] /\ s[2] <= to /\ s = <<s[1], s[2]>>
      BY <2>4
    <2>7. \A i \in solid : s[1] <= i /\ i < s[2]
      BY <2>4, <2>5, <2>6
    <2>8. a \in solid /\ b \in solid
      BY <2>2, <2>3 DEF a, b
    <2> HIDE DEF solid
    <2>9. s[1] \in solid /\ s[2] - 1 \in solid /\ s[1] \in Nat /\ from <= s[1]
      BY <2>4, <2>6, <2>8
    <2> QED BY <2>6, <2>7, <2>9 DEF TrimmedTo, solid
  <1>3. Solid(text, from, to) # {} => Trimmed(text, from, to) # {}
    BY DEF Trimmed
  <1> QED BY <1>2, <1>3

\* What the candidates of a text are like.
GoodSpan(text, p) ==
    /\ p = <<p[1], p[2]>> /\ p[1] \in 0 .. Len(text) /\ p[2] \in 0 .. Len(text)
    /\ p[1] < p[2] /\ p[2] - p[1] <= MaxSpanChars
    /\ p[1] \in Solid(text, 0, Len(text)) /\ p[2] - 1 \in Solid(text, 0, Len(text))

LEMMA GoodTrimmed ==
    ASSUME NEW text, Len(text) \in Nat, NEW from \in Nat, NEW to \in Nat, to <= Len(text), NEW s, TrimmedTo(text, from, to, s),
           s[2] - s[1] <= MaxSpanChars
    PROVE  GoodSpan(text, s)
  <1>1. \A i \in Solid(text, from, to) : i \in Solid(text, 0, Len(text))
    <2> SUFFICES ASSUME NEW i \in Solid(text, from, to) PROVE i \in Solid(text, 0, Len(text))
      OBVIOUS
    <2>1. i \in Nat /\ from <= i /\ i < to /\ CharAt(text, i) \notin Whites
      BY SolidPlaces
    <2>2. 0 <= i /\ i < Len(text) /\ 0 \in Nat
      BY <2>1
    <2> QED BY <2>1, <2>2, SolidPlaces
  <1>2. s[1] \in 0 .. Len(text) /\ s[2] \in 0 .. Len(text)
    BY DEF TrimmedTo
  <1> QED BY <1>1, <1>2 DEF GoodSpan, TrimmedTo

LEMMA EndOfPiece ==
    ASSUME NEW text, NEW c \in Nat, NEW to \in Nat, c < to
    PROVE  PieceEnd(text, c, to) \in c + 1 .. to /\ PieceEnd(text, c, to) - c <= MaxSpanChars
  <1> DEFINE M      == MaxSpanChars
             half   == Max({1, M \div 2})
             breaks == {i \in c + half .. c + M : i < to /\ CharAt(text, i) \in Whites}
  <1>1. M \in Nat \ {0} /\ M \div 2 \in 0 .. M
    BY SpanAssumption
  <1>2. half \in 1 .. M
    <2> DEFINE T == {1, M \div 2}
    <2>1. T \in SUBSET (0 .. M) /\ T # {}
      BY <1>1
    <2>2. Max(T) \in T /\ \A w \in T : w <= Max(T)
      <3> HIDE DEF T
      <3> QED BY <1>1, <2>1, MaxOf
    <2>3. Max(T) \in 0 .. M /\ 1 <= Max(T)
      BY <2>1, <2>2
    <2> HIDE DEF T
    <2>4. Max(T) \in 1 .. M
      BY <1>1, <2>3
    <2> QED BY <2>4 DEF T
  <1>0. PieceEnd(text, c, to) = IF c + M >= to THEN to ELSE IF breaks = {} THEN c + M ELSE Max(breaks)
    BY DEF PieceEnd
  <1> HIDE DEF half
  <1>3. CASE c + M >= to
    <2>1. PieceEnd(text, c, to) = to
      BY <1>3, <1>0
    <2> QED BY <1>1, <1>3, <2>1
  <1>4. CASE c + M < to /\ breaks = {}
    <2>1. PieceEnd(text, c, to) = c + M
      <3> HIDE DEF breaks
      <3> QED BY <1>1, <1>4, <1>0
    <2> QED BY <1>1, <1>4, <2>1
  <1>5. CASE c + M < to /\ breaks # {}
    <2>1. PieceEnd(text, c, to) = Max(breaks)
      <3> HIDE DEF breaks
      <3> QED BY <1>1, <1>5, <1>0
    <2>2. \A i \in breaks : i \in Nat /\ c + 1 <= i /\ i <= c + M /\ i < to
      BY <1>1, <1>2
    <2> HIDE DEF breaks
    <2>3. breaks \in SUBSET (0 .. c + M) /\ c + M \in Nat
      BY <1>1, <2>2
    <2>4. Max(breaks) \in breaks
      BY <1>5, <2>3, MaxOf
    <2> QED BY <1>1, <2>1, <2>2, <2>4
  <1> QED BY <1>1, <1>3, <1>4, <1>5

LEMMA NextStart ==
    ASSUME NEW text, NEW from \in Nat, NEW to \in Nat, from <= to
    PROVE  /\ AfterWhites(text, from, to) \in from .. to
           /\ \A i \in Solid(text, from, to) : AfterWhites(text, from, to) <= i
  <1> DEFINE solid == Solid(text, from, to)
  <1>1. solid \in SUBSET Nat /\ \A i \in solid : from <= i /\ i < to
    BY SolidPlaces
  <1>2. CASE solid = {}
    BY <1>2 DEF AfterWhites
  <1>3. CASE solid # {}
    <2>1. AfterWhites(text, from, to) = Min(solid)
      BY <1>3 DEF AfterWhites
    <2> HIDE DEF solid
    <2>2. Min(solid) \in solid /\ \A w \in solid : Min(solid) <= w
      BY <1>1, <1>3, MinOf
    <2> DEFINE m == Min(solid)
    <2>4. m \in solid
      BY <2>2
    <2> HIDE DEF m
    <2>5. m \in Nat /\ from <= m /\ m < to
      BY <1>1, <2>4
    <2>3. Min(solid) \in from .. to
      BY <2>5 DEF m
    <2> QED BY <2>1, <2>2, <2>3 DEF solid
  <1> QED BY <1>2, <1>3

\* Where the pieces of a range start.
MoveOn(text, c, to) == IF c >= to THEN to ELSE AfterWhites(text, PieceEnd(text, c, to), to)
Cursors(text, from, to, run) ==
    /\ Pieces(text, from, to) = UNION {Trimmed(text, c, PieceEnd(text, c, to)) : c \in {run[k] : k \in 0 .. to - from} \ {to}}
    /\ run[0] = from /\ \A k \in 1 .. to - from : run[k] = MoveOn(text, run[k - 1], to)
    /\ \A k \in 0 .. to - from : run[k] \in from .. to

LEMMA CursorMoves ==
    ASSUME NEW text, NEW to \in Nat, NEW c \in 0 .. to
    PROVE  MoveOn(text, c, to) \in c .. to /\ (c < to => c < MoveOn(text, c, to))
  <1>1. CASE c >= to
    BY <1>1 DEF MoveOn
  <1>2. CASE c < to
    <2> DEFINE e == PieceEnd(text, c, to)
    <2>1. e \in c + 1 .. to
      BY <1>2, EndOfPiece
    <2>2. MoveOn(text, c, to) = AfterWhites(text, e, to)
      BY <1>2 DEF MoveOn
    <2> HIDE DEF e
    <2>3. AfterWhites(text, e, to) \in e .. to
      BY <2>1, NextStart
    <2> QED BY <2>1, <2>2, <2>3
  <1> QED BY <1>1, <1>2

LEMMA CursorsRun ==
    ASSUME NEW text, NEW from \in Nat, NEW to \in Nat, from <= to
    PROVE  \E run : Cursors(text, from, to, run)
  <1> DEFINE n == to - from
             A == from .. to
             next(c) == MoveOn(text, c, to)
             g == [k \in 1 .. n |-> [c \in A |-> next(c)]]
             Runs(r) == r = [k \in 0 .. to - from |->
                                IF k = 0 THEN from ELSE IF r[k - 1] >= to THEN to
                                ELSE AfterWhites(text, PieceEnd(text, r[k - 1], to), to)]
             run == CHOOSE r : Runs(r)
  <1>0. n \in Nat /\ from \in A
    OBVIOUS
  <1>1. \A c \in A : next(c) \in A
    <2> SUFFICES ASSUME NEW c \in A PROVE next(c) \in A
      OBVIOUS
    <2>1. c \in 0 .. to /\ from <= c
      OBVIOUS
    <2>2. next(c) \in c .. to
      BY <2>1, CursorMoves
    <2> HIDE DEF next
    <2> QED BY <2>1, <2>2
  <1>2. g \in [1 .. n -> [A -> A]]
    <2> HIDE DEF A, next
    <2> QED BY <1>1
  <1>3. \E r : Runs(r)
    <2>1. PICK f : f \in [0 .. n -> A] /\ f[0] = from /\ \A k \in 1 .. n : f[k] = g[k][f[k - 1]]
      <3> HIDE DEF g, A, n
      <3>1. \E f : Computes(n, A, from, g, f)
        BY <1>0, <1>2, Recursion
      <3> QED BY <3>1 DEF Computes
    <2>2. \A k \in 1 .. n : k - 1 \in 0 .. n /\ f[k - 1] \in A
      <3> HIDE DEF A
      <3> QED BY <2>1, <1>0
    <2>3. \A k \in 1 .. n : f[k] = next(f[k - 1])
      <3> HIDE DEF next, A, n
      <3> QED BY <2>1, <2>2
    <2>4. f = [k \in 0 .. n |-> IF k = 0 THEN from ELSE next(f[k - 1])]
      <3>1. \A k \in 0 .. n : k = 0 \/ k \in 1 .. n
        BY <1>0
      <3> HIDE DEF next, g, A, n
      <3>2. \A k \in 0 .. n : f[k] = IF k = 0 THEN from ELSE next(f[k - 1])
        BY <2>1, <2>3, <3>1
      <3> QED BY <2>1, <3>2
    <2>5. Runs(f)
      BY <2>4 DEF MoveOn
    <2> HIDE DEF Runs
    <2> QED BY <2>5
  <1>4. Runs(run)
    <2> HIDE DEF Runs
    <2> QED BY <1>3
  <1>5. Pieces(text, from, to) = UNION {Trimmed(text, c, PieceEnd(text, c, to)) : c \in {run[k] : k \in 0 .. to - from} \ {to}}
    BY DEF Pieces
  <1> HIDE DEF run, g
  <1>6. run[0] = from /\ \A k \in 1 .. n : run[k] = next(run[k - 1])
    <2>1. \A k \in 0 .. n : run[k] = IF k = 0 THEN from ELSE next(run[k - 1])
      BY <1>4 DEF MoveOn
    <2>2. 0 \in 0 .. n /\ \A k \in 1 .. n : k \in 0 .. n /\ k # 0
      BY <1>0
    <2> HIDE DEF Runs, next
    <2> QED BY <2>1, <2>2
  <1> DEFINE S == {k \in 0 .. n : run[k] \in A}
  <1>7. \A k \in 0 .. n : k \in S
    <2> HIDE DEF A, next, n
    <2>1. 0 \in S
      BY <1>0, <1>6
    <2>2. ASSUME NEW k \in 0 .. n - 1, k \in S PROVE k + 1 \in S
      <3>1. k + 1 \in 1 .. n /\ (k + 1) - 1 = k /\ k + 1 \in 0 .. n
        BY <1>0
      <3>2. run[k + 1] = next(run[k])
        BY <1>6, <3>1
      <3> QED BY <1>1, <2>2, <3>1, <3>2
    <2> HIDE DEF S
    <2> QED BY <1>0, <2>1, <2>2, InductionTo
  <1>8. Cursors(text, from, to, run)
    BY <1>5, <1>6, <1>7 DEF Cursors
  <1> QED BY <1>8

\* A place is in one of some passages.
Held(passages, i) == \E p \in passages : p[1] <= i /\ i < p[2]

LEMMA PiecesHold ==
    ASSUME NEW text, Len(text) \in Nat, NEW from \in Nat, NEW to \in Nat, from <= to, to <= Len(text)
    PROVE  /\ \A p \in Pieces(text, from, to) : GoodSpan(text, p)
           /\ \A i \in Solid(text, from, to) : Held(Pieces(text, from, to), i)
  <1> DEFINE n == to - from
             pieces == Pieces(text, from, to)
  <1>0. n \in Nat
    OBVIOUS
  <1>1. PICK run : Cursors(text, from, to, run)
    BY CursorsRun
  <1>2. ASSUME NEW p \in pieces PROVE GoodSpan(text, p)
    <2>1. PICK c \in {run[k] : k \in 0 .. to - from} \ {to} : p \in Trimmed(text, c, PieceEnd(text, c, to))
      <3> HIDE DEF n
      <3> QED BY <1>1, <1>2 DEF Cursors
    <2>2. c \in Nat /\ c < to
      BY <1>1, <2>1 DEF Cursors
    <2> DEFINE e == PieceEnd(text, c, to)
    <2>3. e \in c + 1 .. to /\ e - c <= MaxSpanChars
      BY <2>2, EndOfPiece
    <2>4. p \in Trimmed(text, c, e)
      BY <2>1
    <2> HIDE DEF e
    <2>5. e \in Nat /\ e <= Len(text)
      BY <2>2, <2>3
    <2>6. TrimmedTo(text, c, e, p)
      BY <2>2, <2>4, <2>5, TrimmedRight
    <2>7. p[2] - p[1] <= MaxSpanChars
      <3>1. p[1] \in Nat /\ p[2] \in Nat /\ c <= p[1] /\ p[2] <= e
        BY ONLY <2>6 DEF TrimmedTo
      <3>2. MaxSpanChars \in Nat /\ e - c <= MaxSpanChars
        BY <2>3, SpanAssumption
      <3> QED BY ONLY <2>2, <2>5, <3>1, <3>2
    <2> QED BY <2>2, <2>5, <2>6, <2>7, GoodTrimmed
  <1>3. ASSUME NEW k \in 0 .. n - 1
        PROVE  /\ run[k] \in from .. to /\ run[k + 1] = MoveOn(text, run[k], to)
               /\ run[k] <= run[k + 1] /\ run[k + 1] \in from .. to /\ (run[k] < to => run[k] < run[k + 1])
    <2>1. k + 1 \in 1 .. n /\ (k + 1) - 1 = k /\ k \in 0 .. n
      OBVIOUS
    <2>2. run[k] \in from .. to /\ run[k + 1] = MoveOn(text, run[k], to)
      BY <1>1, <2>1 DEF Cursors
    <2> DEFINE c == run[k]
    <2>3. c \in 0 .. to /\ from <= c
      BY <2>2
    <2> HIDE DEF c
    <2>4. MoveOn(text, c, to) \in c .. to /\ (c < to => c < MoveOn(text, c, to))
      BY <2>3, CursorMoves
    <2> QED BY <2>2, <2>3, <2>4 DEF c
  <1>4. run[n] = to
    <2> DEFINE S == {k \in 0 .. n : run[k] = to \/ run[k] >= from + k}
    <2>1. 0 \in S
      BY <1>1 DEF Cursors
    <2>2. ASSUME NEW k \in 0 .. n - 1, k \in S PROVE k + 1 \in S
      <3> DEFINE a == run[k]
                 b == run[k + 1]
      <3>1. a \in from .. to /\ b \in from .. to /\ a <= b /\ (a < to => a < b) /\ (a = to \/ a >= from + k)
        BY <1>3, <2>2
      <3>2. k + 1 \in 0 .. n /\ k \in Nat
        OBVIOUS
      <3> HIDE DEF a, b
      <3>3. b = to \/ b >= from + (k + 1)
        BY <3>1, <3>2
      <3> QED BY <3>2, <3>3 DEF b
    <2>3. n \in S
      <3>1. \A k \in 0 .. n : k \in S
        <4> HIDE DEF S, n
        <4> QED BY <1>0, <2>1, <2>2, InductionTo
      <3> QED BY <3>1
    <2>4. run[n] \in from .. to
      BY <1>1 DEF Cursors
    <2> QED BY <2>3, <2>4
  <1>5. ASSUME NEW k \in 0 .. n - 1, NEW i \in Solid(text, from, to), run[k] <= i, i < run[k + 1] PROVE Held(pieces, i)
    <2> DEFINE c == run[k]
               e == PieceEnd(text, c, to)
    <2>1. c \in from .. to /\ i \in Nat /\ i < to /\ CharAt(text, i) \notin Whites /\ run[k + 1] = MoveOn(text, c, to)
      BY <1>3, SolidPlaces
    <2>2. c \in Nat /\ c < to /\ c <= i
      BY <1>5, <2>1
    <2>3. e \in c + 1 .. to /\ run[k + 1] = AfterWhites(text, e, to)
      <3> HIDE DEF c
      <3>1. run[k + 1] = AfterWhites(text, PieceEnd(text, c, to), to)
        BY <2>1, <2>2 DEF MoveOn
      <3> QED BY <2>2, <3>1, EndOfPiece
    <2>4. Trimmed(text, c, e) \in SUBSET pieces
      <3>1. c \in {run[j] : j \in 0 .. to - from} \ {to}
        BY <2>2
      <3> HIDE DEF c, n
      <3> QED BY <1>1, <3>1 DEF Cursors
    <2> HIDE DEF c, e
    <2>5. i < e
      <3> SUFFICES ASSUME e <= i PROVE FALSE
        BY <2>1, <2>3, <2>2
      <3>1. i \in Solid(text, e, to)
        BY <2>1, <2>2, <2>3, SolidPlaces
      <3>2. AfterWhites(text, e, to) <= i
        BY <2>2, <2>3, <3>1, NextStart
      <3>3. AfterWhites(text, e, to) \in e .. to
        BY <2>2, <2>3, NextStart
      <3> QED BY <1>5, <2>1, <2>2, <2>3, <3>2, <3>3
    <2>6. i \in Solid(text, c, e) /\ e \in Nat
      BY <2>1, <2>2, <2>3, <2>5, SolidPlaces
    <2>7. PICK p \in Trimmed(text, c, e) : TrimmedTo(text, c, e, p)
      BY <2>2, <2>6, TrimmedRight
    <2>8. p[1] <= i /\ i < p[2] /\ p \in pieces
      BY <2>4, <2>6, <2>7 DEF TrimmedTo
    <2> QED BY <2>8 DEF Held
  <1>6. ASSUME NEW i \in Solid(text, from, to) PROVE Held(pieces, i)
    <2>1. i \in Nat /\ from <= i /\ i < to
      BY SolidPlaces
    <2> DEFINE S == {k \in 0 .. n : run[k] <= i \/ Held(pieces, i)}
    <2>2. 0 \in S
      BY <1>1, <2>1 DEF Cursors
    <2>3. ASSUME NEW k \in 0 .. n - 1, k \in S PROVE k + 1 \in S
      <3>1. k + 1 \in 0 .. n /\ run[k] \in from .. to /\ run[k + 1] \in from .. to
        BY <1>3
      <3>2. CASE run[k] <= i /\ i < run[k + 1]
        <4>1. Held(pieces, i)
          BY <1>5, <3>2
        <4> HIDE DEF pieces
        <4> QED BY <3>1, <4>1
      <3>3. CASE run[k + 1] <= i
        BY <3>1, <3>3
      <3>4. CASE Held(pieces, i)
        <4> HIDE DEF pieces
        <4> QED BY <3>1, <3>4
      <3> QED BY <2>1, <2>3, <3>1, <3>2, <3>3, <3>4
    <2>4. n \in S
      <3>1. \A k \in 0 .. n : k \in S
        <4> HIDE DEF S, n
        <4> QED BY <1>0, <2>2, <2>3, InductionTo
      <3> QED BY <3>1
    <2> HIDE DEF pieces
    <2> QED BY <1>4, <2>1, <2>4
  <1> QED BY <1>2, <1>6

LEMMA BetweenParts ==
    ASSUME NEW cuts \in SUBSET Nat, NEW from \in Nat, NEW to \in Nat, from <= to
    PROVE  /\ \A r \in Between(cuts, from, to) : r = <<r[1], r[2]>> /\ r[1] \in from .. to /\ r[2] \in from .. to /\ r[1] < r[2]
           /\ \A i \in Nat : from <= i /\ i < to => Held(Between(cuts, from, to), i)
  <1> DEFINE inner == {c \in cuts : from < c /\ c < to}
             marks == {from, to} \cup inner
  <1>1. Between(cuts, from, to) = {r \in marks \X marks : r[1] < r[2] /\ \A m \in marks : m <= r[1] \/ r[2] <= m}
    BY DEF Between
  <1>2. from \in marks /\ to \in marks /\ \A m \in marks : m \in Nat /\ from <= m /\ m <= to
    OBVIOUS
  <1> HIDE DEF marks
  <1>3. ASSUME NEW r \in Between(cuts, from, to)
        PROVE  r = <<r[1], r[2]>> /\ r[1] \in from .. to /\ r[2] \in from .. to /\ r[1] < r[2]
    BY <1>1, <1>2
  <1>4. ASSUME NEW i \in Nat, from <= i, i < to PROVE Held(Between(cuts, from, to), i)
    <2> DEFINE low  == {m \in marks : m <= i}
               high == {m \in marks : m > i}
    <2>1. PICK a \in low : \A m \in low : a >= m
      <3>1. low \in SUBSET (0 .. i) /\ low # {}
        <4>1. \A m \in low : m \in 0 .. i
          BY <1>2
        <4>2. from \in low
          BY <1>2, <1>4
        <4> HIDE DEF low
        <4> QED BY <4>1, <4>2
      <3> HIDE DEF low
      <3> QED BY <3>1, Greatest
    <2>2. PICK b \in high : \A m \in high : b <= m
      <3>1. high \in SUBSET Nat /\ high # {}
        BY <1>2, <1>4
      <3> HIDE DEF high
      <3> QED BY <3>1, Least
    <2>3. a \in marks /\ b \in marks /\ a <= i /\ i < b /\ a \in Nat /\ b \in Nat
      BY <1>2, <2>1, <2>2
    <2>4. \A m \in marks : m <= a \/ b <= m
      BY <1>2, <2>1, <2>2
    <2>5. <<a, b>> \in Between(cuts, from, to)
      BY <1>1, <2>3, <2>4
    <2> HIDE DEF low, high
    <2>6. <<a, b>>[1] <= i /\ i < <<a, b>>[2]
      BY <2>3
    <2> QED BY <2>5, <2>6 DEF Held
  <1> QED BY <1>3, <1>4

LEMMA ParagraphPlaces == ASSUME NEW text, Len(text) \in Nat PROVE ParagraphCuts(text) \in SUBSET Nat /\ SentenceCuts(text) \in SUBSET Nat
  <1>1. \A i \in 0 .. Len(text) - 1 : i \in Nat
    OBVIOUS
  <1>2. \A i \in 1 .. Len(text) - 1 : i \in Nat
    OBVIOUS
  <1>3. ParagraphCuts(text) \in SUBSET Nat
    BY <1>1 DEF ParagraphCuts
  <1>4. SentenceCuts(text) \in SUBSET Nat
    BY <1>2 DEF SentenceCuts
  <1> QED BY <1>3, <1>4

LEMMA FittedHold ==
    ASSUME NEW text, Len(text) \in Nat, NEW a \in Nat, NEW b \in Nat, a < b, b <= Len(text)
    PROVE  /\ \A p \in Fitted(text, Trimmed(text, a, b)) : GoodSpan(text, p)
           /\ \A i \in Solid(text, a, b) : Held(Fitted(text, Trimmed(text, a, b)), i)
  <1> DEFINE sentences == Trimmed(text, a, b)
             parts(s)  == IF s[2] - s[1] <= MaxSpanChars THEN {s} ELSE Pieces(text, s[1], s[2])
  <1>1. Fitted(text, sentences) = UNION {parts(s) : s \in sentences}
    BY DEF Fitted
  <1>2. ASSUME NEW s \in sentences
        PROVE  /\ \A p \in parts(s) : GoodSpan(text, p)
               /\ \A i \in Solid(text, a, b) : Held(parts(s), i)
    <2>1. TrimmedTo(text, a, b, s)
      BY TrimmedRight
    <2> HIDE DEF sentences
    <2>2. CASE s[2] - s[1] <= MaxSpanChars
      <3>1. parts(s) = {s} /\ GoodSpan(text, s)
        BY <2>1, <2>2, GoodTrimmed
      <3>2. \A i \in Solid(text, a, b) : s[1] <= i /\ i < s[2]
        BY <2>1 DEF TrimmedTo
      <3> HIDE DEF parts
      <3> QED BY <3>1, <3>2 DEF Held
    <2>3. CASE ~(s[2] - s[1] <= MaxSpanChars)
      <3> DEFINE f == s[1]
                 t == s[2]
      <3>1. f \in Nat /\ t \in Nat /\ f <= t /\ t <= Len(text) /\ parts(s) = Pieces(text, f, t)
        BY <2>1, <2>3 DEF TrimmedTo
      <3>2. ASSUME NEW i \in Solid(text, a, b) PROVE i \in Solid(text, f, t)
        <4>1. i \in Nat /\ CharAt(text, i) \notin Whites
          BY SolidPlaces
        <4>2. f <= i /\ i < t
          BY <2>1 DEF TrimmedTo
        <4> HIDE DEF f, t
        <4> QED BY <3>1, <4>1, <4>2, SolidPlaces
      <3> HIDE DEF f, t, parts
      <3>3. /\ \A p \in Pieces(text, f, t) : GoodSpan(text, p)
            /\ \A i \in Solid(text, f, t) : Held(Pieces(text, f, t), i)
        BY <3>1, PiecesHold
      <3> QED BY <3>1, <3>2, <3>3
    <2> QED BY <2>2, <2>3
  <1>3. ASSUME NEW i \in Solid(text, a, b) PROVE Held(Fitted(text, sentences), i)
    <2>1. sentences # {}
      BY TrimmedRight
    <2> HIDE DEF sentences
    <2>2. PICK s \in sentences : TRUE
      BY <2>1
    <2>3. Held(parts(s), i)
      BY <1>2
    <2> HIDE DEF parts
    <2>4. PICK p \in parts(s) : p[1] <= i /\ i < p[2]
      BY <2>3 DEF Held
    <2> QED BY <1>1, <2>4 DEF Held
  <1>4. \A p \in Fitted(text, sentences) : GoodSpan(text, p)
    <2> HIDE DEF parts, sentences
    <2> QED BY <1>1, <1>2
  <1> QED BY <1>3, <1>4

LEMMA SentencesHold ==
    ASSUME NEW text, Len(text) \in Nat, NEW from \in Nat, NEW to \in Nat, from <= to, to <= Len(text), NEW range, range = <<from, to>>
    PROVE  /\ \A p \in SentencesOf(text, range) : GoodSpan(text, p)
           /\ \A i \in Solid(text, from, to) : Held(SentencesOf(text, range), i)
  <1> DEFINE between == Between(SentenceCuts(text), from, to)
             parts(r) == Fitted(text, Trimmed(text, r[1], r[2]))
  <1>1. SentencesOf(text, range) = UNION {parts(r) : r \in between}
    BY DEF SentencesOf
  <1>2. ASSUME NEW r \in between PROVE r[1] \in Nat /\ r[2] \in Nat /\ r[1] < r[2] /\ r[2] <= Len(text)
    <2>1. SentenceCuts(text) \in SUBSET Nat
      BY ParagraphPlaces
    <2>2. r[1] \in from .. to /\ r[2] \in from .. to /\ r[1] < r[2]
      BY <2>1, BetweenParts
    <2> QED BY <2>2
  <1>3. ASSUME NEW r \in between
        PROVE  /\ \A p \in parts(r) : GoodSpan(text, p)
               /\ \A i \in Solid(text, r[1], r[2]) : Held(parts(r), i)
    <2> DEFINE a == r[1]
               b == r[2]
    <2>1. a \in Nat /\ b \in Nat /\ a < b /\ b <= Len(text)
      BY <1>2
    <2> HIDE DEF a, b
    <2>2. /\ \A p \in Fitted(text, Trimmed(text, a, b)) : GoodSpan(text, p)
          /\ \A i \in Solid(text, a, b) : Held(Fitted(text, Trimmed(text, a, b)), i)
      BY <2>1, FittedHold
    <2> QED BY <2>2 DEF a, b
  <1>4. ASSUME NEW i \in Solid(text, from, to) PROVE Held(SentencesOf(text, range), i)
    <2>1. i \in Nat /\ from <= i /\ i < to /\ CharAt(text, i) \notin Whites
      BY SolidPlaces
    <2>2. Held(between, i)
      <3>1. SentenceCuts(text) \in SUBSET Nat
        BY ParagraphPlaces
      <3> QED BY <2>1, <3>1, BetweenParts
    <2>3. PICK r \in between : r[1] <= i /\ i < r[2]
      BY <2>2 DEF Held
    <2>4. i \in Solid(text, r[1], r[2])
      <3>1. r[1] \in Nat /\ r[2] \in Nat
        BY <1>2
      <3> HIDE DEF between
      <3> QED BY <2>1, <2>3, <3>1, SolidPlaces
    <2>5. Held(parts(r), i)
      BY <1>3, <2>4
    <2> HIDE DEF parts, between
    <2>6. PICK p \in parts(r) : p[1] <= i /\ i < p[2]
      BY <2>5 DEF Held
    <2> QED BY <1>1, <2>6 DEF Held
  <1>5. \A p \in SentencesOf(text, range) : GoodSpan(text, p)
    <2> HIDE DEF parts, between
    <2> QED BY <1>1, <1>3
  <1> QED BY <1>4, <1>5

LEMMA NeighboursGood ==
    ASSUME NEW text, Len(text) \in Nat, NEW sentences, \A s \in sentences : GoodSpan(text, s)
    PROVE  \A p \in Neighbours(sentences) : GoodSpan(text, p)
  <1> SUFFICES ASSUME NEW p \in Neighbours(sentences) PROVE GoodSpan(text, p)
    OBVIOUS
  <1>1. PICK a \in sentences, b \in sentences : a[2] <= b[1] /\ b[2] - a[1] <= MaxSpanChars /\ p = <<a[1], b[2]>>
    BY DEF Neighbours
  <1>2. GoodSpan(text, a) /\ GoodSpan(text, b)
    OBVIOUS
  <1>3. p[1] = a[1] /\ p[2] = b[2] /\ p = <<p[1], p[2]>>
    BY <1>1
  <1>4. a[1] < b[2]
    BY <1>1, <1>2 DEF GoodSpan
  <1> QED BY <1>1, <1>2, <1>3, <1>4 DEF GoodSpan

\* No word of a text is outside its passages.
LEMMA PassagesHold ==
    ASSUME NEW text, Len(text) \in Nat
    PROVE  /\ \A p \in PassagesOf(text) : GoodSpan(text, p)
           /\ \A i \in Solid(text, 0, Len(text)) : Held(PassagesOf(text), i)
  <1> DEFINE n == Len(text)
             ranges == Between(ParagraphCuts(text), 0, n)
             parts(r) == WithNeighbours(SentencesOf(text, r))
  <1>1. PassagesOf(text) = UNION {parts(r) : r \in ranges}
    BY DEF PassagesOf
  <1>2. ASSUME NEW r \in ranges PROVE r[1] \in Nat /\ r[2] \in Nat /\ r[1] <= r[2] /\ r[2] <= Len(text) /\ r = <<r[1], r[2]>>
    <2>1. ParagraphCuts(text) \in SUBSET Nat
      BY ParagraphPlaces
    <2>2. r = <<r[1], r[2]>> /\ r[1] \in 0 .. n /\ r[2] \in 0 .. n /\ r[1] < r[2]
      <3>1. 0 \in Nat /\ n \in Nat /\ 0 <= n
        OBVIOUS
      <3> HIDE DEF n
      <3> QED BY <2>1, <3>1, BetweenParts
    <2> QED BY <2>2
  <1>3. ASSUME NEW r \in ranges
        PROVE  /\ \A p \in parts(r) : GoodSpan(text, p)
               /\ \A i \in Solid(text, r[1], r[2]) : Held(parts(r), i)
    <2> DEFINE a == r[1]
               b == r[2]
    <2>1. a \in Nat /\ b \in Nat /\ a <= b /\ b <= Len(text) /\ r = <<a, b>>
      BY <1>2
    <2> HIDE DEF a, b
    <2>2. /\ \A p \in SentencesOf(text, r) : GoodSpan(text, p)
          /\ \A i \in Solid(text, a, b) : Held(SentencesOf(text, r), i)
      BY <2>1, SentencesHold
    <2>3. \A p \in Neighbours(SentencesOf(text, r)) : GoodSpan(text, p)
      BY <2>2, NeighboursGood
    <2>4. \A i \in Solid(text, a, b) : Held(parts(r), i)
      BY <2>2 DEF WithNeighbours, Held
    <2>5. \A p \in parts(r) : GoodSpan(text, p)
      BY <2>2, <2>3 DEF WithNeighbours
    <2> QED BY <2>4, <2>5 DEF a, b
  <1>4. ASSUME NEW i \in Solid(text, 0, n) PROVE Held(PassagesOf(text), i)
    <2>1. i \in Nat /\ 0 <= i /\ i < n /\ CharAt(text, i) \notin Whites
      BY SolidPlaces
    <2>2. Held(ranges, i)
      <3>1. ParagraphCuts(text) \in SUBSET Nat
        BY ParagraphPlaces
      <3>2. 0 \in Nat /\ n \in Nat /\ 0 <= n
        OBVIOUS
      <3> HIDE DEF n
      <3> QED BY <2>1, <3>1, <3>2, BetweenParts
    <2>3. PICK r \in ranges : r[1] <= i /\ i < r[2]
      BY <2>2 DEF Held
    <2>4. i \in Solid(text, r[1], r[2])
      <3>1. r[1] \in Nat /\ r[2] \in Nat
        BY <1>2
      <3> HIDE DEF ranges
      <3> QED BY <2>1, <2>3, <3>1, SolidPlaces
    <2>5. Held(parts(r), i)
      BY <1>3, <2>4
    <2> HIDE DEF parts, ranges
    <2>6. PICK p \in parts(r) : p[1] <= i /\ i < p[2]
      BY <2>5 DEF Held
    <2> QED BY <1>1, <2>6 DEF Held
  <1>5. \A p \in PassagesOf(text) : GoodSpan(text, p)
    <2> HIDE DEF parts, ranges
    <2> QED BY <1>1, <1>3
  <1> QED BY <1>4, <1>5

\* There are finitely many candidates, and those with most words come first in an order.
LEMMA GoodFinite ==
    ASSUME NEW text, Len(text) \in Nat, NEW S, \A p \in S : GoodSpan(text, p)
    PROVE  IsFiniteSet(S) /\ Orders({p \in S \X S : SpanBefore(p[1], p[2])}, S)
  <1> DEFINE P == 0 .. Len(text)
  <1>1. IsFiniteSet(P) /\ IsFiniteSet(P \X P)
    <2>1. IsFiniteSet(P)
      BY FS_Interval
    <2> HIDE DEF P
    <2> QED BY <2>1, FS_Product
  <1>2. \A p \in S : p \in P \X P
    BY DEF GoodSpan
  <1>3. IsFiniteSet(S)
    <2>1. S \in SUBSET (P \X P)
      BY <1>2
    <2> HIDE DEF P
    <2> QED BY <1>1, <2>1, FS_Subset
  <1>4. \A p \in S : p[1] \in Nat /\ p[2] \in Nat /\ p = <<p[1], p[2]>>
    BY DEF GoodSpan
  <1> DEFINE before == {p \in S \X S : SpanBefore(p[1], p[2])}
  <1>5. \A x, y \in S : <<x, y>> \in before <=> (x[1] < y[1] \/ (x[1] = y[1] /\ x[2] < y[2]))
    BY DEF SpanBefore
  <1> HIDE DEF before
  <1>6. \A x, y \in S : x # y => x[1] # y[1] \/ x[2] # y[2]
    BY <1>4
  <1>7. Orders(before, S)
    <2>1. \A x \in S : <<x, x>> \notin before
      BY <1>4, <1>5
    <2>2. \A x, y \in S : x # y => <<x, y>> \in before \/ <<y, x>> \in before
      BY <1>4, <1>5, <1>6
    <2>3. \A x, y, z \in S : <<x, y>> \in before /\ <<y, z>> \in before => <<x, z>> \in before
      BY <1>4, <1>5
    <2> QED BY <2>1, <2>2, <2>3 DEF Orders
  <1> QED BY <1>3, <1>7 DEF before

\* A query's word in a passage, and where it is.
HasWord(text, span, query, i) ==
    i \in Nat /\ span[1] <= i /\ i < span[2] /\ CharAt(text, i) \notin Whites \cup {Stop, Hash} /\ CharAt(text, i) \in query

LEMMA HitsCounted ==
    ASSUME NEW text, NEW span, span[1] \in Nat, span[2] \in Nat, NEW query
    PROVE  /\ HitsIn(text, span, query) \in Nat
           /\ HitsIn(text, span, query) > 0 <=> Words(text, span) \cap query # {}
           /\ Words(text, span) \cap query # {} => \E i : HasWord(text, span, query, i)
  <1> DEFINE n == span[2]
             f == [i \in 0 .. n |-> CharAt(text, i)]
             T == {f[i] : i \in 0 .. n}
             W == Words(text, span) \cap query
  <1>1. IsFiniteSet(T)
    <2>1. n \in Nat /\ f = [i \in 0 .. n |-> f[i]]
      OBVIOUS
    <2> HIDE DEF f, n
    <2> QED BY <2>1, ImageFinite
  <1>2. ASSUME NEW w \in W PROVE w \in T /\ \E i : HasWord(text, span, query, i)
    <2>1. PICK i \in span[1] .. span[2] - 1 : w = CharAt(text, i)
      BY DEF Words
    <2>2. i \in Nat /\ i \in 0 .. n /\ span[1] <= i /\ i < span[2]
      OBVIOUS
    <2>3. f[i] = w
      BY <2>1, <2>2
    <2> HIDE DEF f
    <2>4. w \in T
      BY <2>2, <2>3
    <2>5. w \notin Whites \cup {Stop, Hash} /\ w \in query
      BY DEF Words
    <2> HIDE DEF T
    <2> QED BY <2>1, <2>2, <2>4, <2>5 DEF HasWord
  <1>3. IsFiniteSet(W)
    <2>1. W \in SUBSET T
      BY <1>2
    <2> HIDE DEF T, W
    <2> QED BY <1>1, <2>1, FS_Subset
  <1>4. HitsIn(text, span, query) = Cardinality(W)
    BY DEF HitsIn
  <1> HIDE DEF W
  <1>5. Cardinality(W) \in Nat /\ (Cardinality(W) = 0 <=> W = {})
    BY <1>3, FS_CardinalityType, FS_EmptySet
  <1>6. W # {} => \E i : HasWord(text, span, query, i)
    BY <1>2
  <1> QED BY <1>4, <1>5, <1>6 DEF W

\* A word of the query that has a place is one of the passage's words.
LEMMA WordThere ==
    ASSUME NEW text, NEW span, span[1] \in Nat, span[2] \in Nat, NEW query,
           NEW i, HasWord(text, span, query, i)
    PROVE  Words(text, span) \cap query # {}
  <1> DEFINE w == CharAt(text, i)
             all == {CharAt(text, j) : j \in span[1] .. span[2] - 1}
             none == Whites \cup {Stop, Hash}
  <1>1. i \in span[1] .. span[2] - 1 /\ w \in query /\ w \notin none
    BY DEF HasWord
  <1>2. w \in all
    BY <1>1
  <1>3. Words(text, span) = all \ none
    BY DEF Words
  <1> HIDE DEF all, none, w
  <1> QED BY <1>1, <1>2, <1>3

\* What a function takes to has no more members than its domain.
LEMMA ImageNoLarger ==
    ASSUME NEW S, IsFiniteSet(S), NEW f, f = [i \in S |-> f[i]]
    PROVE  LET T == {f[i] : i \in S} IN IsFiniteSet(T) /\ Cardinality(T) \in Nat /\ Cardinality(T) <= Cardinality(S)
  <1> DEFINE T == {f[i] : i \in S}
  <1>1. f \in [S -> T] /\ \A t \in T : \E i \in S : f[i] = t
    OBVIOUS
  <1> HIDE DEF T
  <1>2. f \in Surjection(S, T)
    BY <1>1 DEF Surjection
  <1>3. IsFiniteSet(T) /\ Cardinality(T) <= Cardinality(S)
    BY <1>2, FS_Surjection
  <1>4. Cardinality(T) \in Nat
    BY <1>3, FS_CardinalityType
  <1> QED BY <1>3, <1>4 DEF T

\* What is no more than s times m has s in each of m parts at most.
LEMMA ShareAtMost ==
    ASSUME NEW s \in Nat, NEW m \in Nat \ {0}, NEW a \in Nat, a <= s * m
    PROVE  a \div m <= s
  <1> DEFINE d == a \div m
             r == a % m
  <1>1. d \in Nat /\ r \in 0 .. m - 1 /\ r = a - d * m
    BY Division
  <1> HIDE DEF d, r
  <1>2. ASSUME d >= s + 1 PROVE FALSE
    <2>1. s + 1 \in Nat /\ m \in Nat
      OBVIOUS
    <2>2. m * (s + 1) <= m * d
      <3>1. s + 1 <= d
        BY <1>2
      <3> QED BY ONLY <1>1, <2>1, <3>1, TimesLess
    <2>3. m * (s + 1) = m * s + m
      BY Times
    <2>4. d * m = m * d /\ s * m = m * s /\ m * s \in Nat /\ m * d \in Nat
      BY <1>1
    <2> DEFINE ms == m * s
               md == m * d
    <2>5. ms + m <= md /\ md <= a /\ a <= ms /\ ms \in Nat /\ md \in Nat
      BY <1>1, <2>2, <2>3, <2>4
    <2> HIDE DEF ms, md
    <2> QED BY <2>5
  <1>3. d <= s
    BY <1>1, <1>2
  <1> QED BY <1>3 DEF d

\* A part of a score is nothing when nothing is there, and its whole weight at most.
LEMMA PartRight ==
    ASSUME NEW weight \in Nat, NEW have \in Nat, NEW of \in Nat \ {0}
    PROVE  /\ PartOf(weight, have, of) \in Nat
           /\ have = 0 => PartOf(weight, have, of) = 0
           /\ have <= of => PartOf(weight, have, of) <= weight
  <1>1. weight * have \in Nat
    OBVIOUS
  <1>2. PartOf(weight, have, of) = (weight * have) \div of
    BY DEF PartOf
  <1>3. ASSUME have = 0 PROVE (weight * have) \div of = 0
    <2>1. weight * have = 0
      BY <1>3
    <2>2. 0 \div of \in Nat /\ 0 \div of <= 0
      <3>1. 0 <= 0 * of /\ 0 \in Nat
        OBVIOUS
      <3> QED BY <3>1, Division, ShareAtMost
    <2> QED BY <2>1, <2>2
  <1>4. ASSUME have <= of PROVE (weight * have) \div of <= weight
    <2>1. weight * have <= weight * of
      BY <1>4, TimesLess
    <2> QED BY <1>1, <2>1, ShareAtMost
  <1>5. (weight * have) \div of \in Nat
    BY <1>1, Division
  <1> QED BY <1>2, <1>3, <1>4, <1>5

\* A passage has at least as many places of words as words.
LEMMA WordsCounted ==
    ASSUME NEW text, NEW span, span[1] \in Nat, span[2] \in Nat
    PROVE  /\ IsFiniteSet(WordsAt(text, span)) /\ Cardinality(WordsAt(text, span)) \in Nat
           /\ WordsAt(text, span) # {} => Cardinality(WordsAt(text, span)) > 0
           /\ Words(text, span) = {CharAt(text, i) : i \in WordsAt(text, span)}
           /\ Cardinality(Words(text, span)) \in Nat
           /\ Cardinality(Words(text, span)) <= Cardinality(WordsAt(text, span))
  <1> DEFINE S == WordsAt(text, span)
             f == [i \in S |-> CharAt(text, i)]
  <1>1. IsFiniteSet(S)
    <2> DEFINE places == span[1] .. span[2] - 1
    <2>1. IsFiniteSet(places)
      <3>1. span[1] \in Int /\ span[2] - 1 \in Int
        OBVIOUS
      <3> QED BY ONLY <3>1, FS_Interval
    <2>2. S \in SUBSET places
      BY DEF WordsAt
    <2> HIDE DEF S, places
    <2> QED BY <2>1, <2>2, FS_Subset
  <1>2. Words(text, span) = {CharAt(text, i) : i \in S}
    BY DEF Words, WordsAt
  <1>3. f = [i \in S |-> f[i]] /\ {f[i] : i \in S} = {CharAt(text, i) : i \in S}
    OBVIOUS
  <1> HIDE DEF S, f
  <1>4. Cardinality({f[i] : i \in S}) \in Nat /\ Cardinality({f[i] : i \in S}) <= Cardinality(S)
    BY <1>1, <1>3, ImageNoLarger
  <1>5. Cardinality(S) \in Nat /\ (S # {} => Cardinality(S) > 0)
    BY <1>1, FS_CardinalityType, FS_EmptySet
  <1> QED BY <1>1, <1>2, <1>3, <1>4, <1>5 DEF S

\* What density gives at most in an answer, and what a word of a short query gives at least.
DenseMost == (DenseWeight + VariedWeight) \div 5
TermLeast  == TermWeight \div FewWords

LEMMA Weights ==
    /\ DenseWeight \in Nat /\ VariedWeight \in Nat /\ PlaceWeight \in Nat
    /\ TermWeight \in Nat /\ PairWeight \in Nat /\ OftenWeight \in Nat
    /\ DenseMost \in Nat /\ DenseWeight + VariedWeight <= DenseMost * 5
    /\ TermLeast \in Nat /\ TermLeast * FewWords <= TermWeight
    /\ DenseMost + PlaceWeight < TermLeast
  <1>1. DenseWeight \in Nat /\ VariedWeight \in Nat /\ PlaceWeight \in Nat
    BY DEF DenseWeight, VariedWeight, PlaceWeight
  <1>2. TermWeight \in Nat /\ PairWeight \in Nat /\ OftenWeight \in Nat
    BY DEF TermWeight, PairWeight, OftenWeight
  <1>3. DenseMost = 2400
    BY DEF DenseMost, DenseWeight, VariedWeight
  <1>4. TermLeast = 3333
    BY DEF TermLeast, TermWeight, FewWords
  <1>5. DenseWeight + VariedWeight <= DenseMost * 5
    BY <1>3 DEF DenseWeight, VariedWeight
  <1>6. TermLeast * FewWords <= TermWeight
    BY <1>4 DEF TermWeight, FewWords
  <1>7. DenseMost + PlaceWeight < TermLeast
    BY <1>3, <1>4 DEF PlaceWeight
  <1>8. DenseMost \in Nat /\ TermLeast \in Nat
    BY <1>3, <1>4
  <1> QED BY <1>1, <1>2, <1>5, <1>6, <1>7, <1>8

\* Density and place are worth no more than their weights.
LEMMA DensityBounded ==
    ASSUME NEW text, NEW span, span[1] \in Nat, span[2] \in Nat, WordsAt(text, span) # {}
    PROVE  DensityScore(text, span) \in Nat /\ DensityScore(text, span) <= DenseWeight + VariedWeight
  <1> DEFINE howMany == Cardinality(WordsAt(text, span))
             used  == Cardinality(Words(text, span))
             room  == Max({8, span[2] - span[1]})
             dense == Min({room, 2 * Min({howMany, 80})})
  <1>1. howMany \in Nat /\ howMany # 0 /\ used \in Nat /\ used <= howMany
    BY WordsCounted
  <1>2. room \in Nat /\ room # 0
    <2> DEFINE d == span[2] - span[1]
    <2>1. 8 \in Int /\ d \in Int
      OBVIOUS
    <2>2. Max({8, d}) \in Int /\ Max({8, d}) >= 8
      <3> HIDE DEF d
      <3> QED BY <2>1, LargerOf
    <2> QED BY <2>2
  <1> HIDE DEF howMany, used, room
  <1>3. dense \in Nat /\ dense <= room
    <2>1. Min({howMany, 80}) \in Nat
      BY <1>1, SmallerOf
    <2> DEFINE twice == 2 * Min({howMany, 80})
    <2>2. twice \in Nat
      BY <2>1
    <2> HIDE DEF twice
    <2>3. Min({room, twice}) \in Nat /\ Min({room, twice}) <= room
      BY <1>2, <2>2, SmallerOf
    <2> QED BY <2>3 DEF twice
  <1> HIDE DEF dense
  <1>4. PartOf(DenseWeight, dense, room) \in Nat /\ PartOf(DenseWeight, dense, room) <= DenseWeight
    BY <1>2, <1>3, Weights, PartRight
  <1>5. PartOf(VariedWeight, used, howMany) \in Nat /\ PartOf(VariedWeight, used, howMany) <= VariedWeight
    BY <1>1, Weights, PartRight
  <1>6. DensityScore(text, span) = PartOf(DenseWeight, dense, room) + PartOf(VariedWeight, used, howMany)
    BY DEF DensityScore, dense, room, used, howMany
  <1> DEFINE x == PartOf(DenseWeight, dense, room)
             y == PartOf(VariedWeight, used, howMany)
  <1>7. x \in Nat /\ x <= DenseWeight /\ y \in Nat /\ y <= VariedWeight /\ DensityScore(text, span) = x + y
    BY <1>4, <1>5, <1>6
  <1> HIDE DEF x, y
  <1>8. x + y \in Nat /\ x + y <= DenseWeight + VariedWeight
    BY <1>7, Weights
  <1> QED BY <1>7, <1>8

LEMMA PositionBounded ==
    ASSUME NEW text, Len(text) \in Nat, NEW span, span[1] \in Nat, span[1] <= Len(text)
    PROVE  PositionPrior(text, span) \in Nat /\ PositionPrior(text, span) <= PlaceWeight
  <1> DEFINE size  == Len(text)
             total == Max({1, size})
             left  == size - span[1]
  <1>0. size \in Nat /\ span[1] <= size /\ PositionPrior(text, span) = PartOf(PlaceWeight, left, total)
    BY DEF PositionPrior
  <1> HIDE DEF size
  <1>1. total \in Int /\ total >= 1 /\ total >= size
    <2>1. Max({1, size}) \in Nat /\ Max({1, size}) >= 1
      BY <1>0, LargerOf
    <2>2. Max({size, 1}) >= size
      BY <1>0, LargerOf
    <2>3. {size, 1} = {1, size}
      OBVIOUS
    <2> QED BY <2>1, <2>2, <2>3
  <1> HIDE DEF total
  <1>2. left \in Nat /\ left <= total /\ total \in Nat \ {0}
    BY <1>0, <1>1
  <1> HIDE DEF left
  <1>3. PartOf(PlaceWeight, left, total) \in Nat /\ PartOf(PlaceWeight, left, total) <= PlaceWeight
    <2> HIDE DEF total
    <2> QED BY <1>2, Weights, PartRight
  <1> DEFINE x == PartOf(PlaceWeight, left, total)
  <1>4. PositionPrior(text, span) = x /\ x \in Nat /\ x <= PlaceWeight
    BY <1>0, <1>3
  <1> HIDE DEF x
  <1> QED BY <1>4

\* A query as a sequence of words, and how a passage without any and one with a word of it score.
QueryOf(query) == Len(query) \in Nat /\ DOMAIN query = 1 .. Len(query) /\ query = [k \in 1 .. Len(query) |-> query[k]]

LEMMA AnswerCounted ==
    ASSUME NEW text, NEW query, QueryOf(query), query # <<>>, NEW span, span[1] \in Nat, span[2] \in Nat
    PROVE  /\ AnswerScore(text, query, span) \in Nat
           /\ Words(text, span) \cap Range(query) = {} => AnswerScore(text, query, span) = 0
           /\ (Words(text, span) \cap Range(query) # {} /\ Cardinality(Range(query)) <= FewWords) =>
                 AnswerScore(text, query, span) >= TermLeast
  <1> DEFINE n      == Len(query)
             terms  == Range(query)
             howMany  == Cardinality(terms)
             twos  == PairsAsked(query)
             bothHave == twos \cap PairsIn(text, span)
             places == {i \in WordsAt(text, span) : CharAt(text, i) \in terms}
             hits   == HitsIn(text, span, terms)
             often  == Min({n, Cardinality(places)})
             a      == PartOf(TermWeight, hits, howMany)
             b      == IF twos = {} THEN 0 ELSE PartOf(PairWeight, Cardinality(bothHave), Cardinality(twos))
             c      == PartOf(OftenWeight, often, n)
  <1>1. n \in Nat /\ n > 0
    <2>1. n # 0
      <3>1. ASSUME n = 0 PROVE FALSE
        <4>1. query = [k \in 1 .. 0 |-> query[k]]
          BY <3>1 DEF QueryOf
        <4>2. query = <<>>
          BY <4>1
        <4> QED BY <4>2
      <3> QED BY <3>1
    <2> QED BY <2>1 DEF QueryOf
  <1>2. IsFiniteSet(terms) /\ howMany \in Nat /\ howMany > 0
    <2> DEFINE S == 1 .. n
    <2>1. IsFiniteSet(S)
      BY <1>1, FS_Interval
    <2>2. query = [k \in S |-> query[k]] /\ terms = {query[k] : k \in S}
      BY DEF QueryOf, Range
    <2>3. query[1] \in terms
      BY <1>1, <2>2
    <2> HIDE DEF S, terms
    <2>4. IsFiniteSet(terms) /\ howMany \in Nat
      BY <2>1, <2>2, ImageNoLarger
    <2>5. howMany # 0
      BY <2>3, <2>4, FS_EmptySet
    <2> QED BY <2>4, <2>5
  <1>3. IsFiniteSet(twos) /\ Cardinality(twos) \in Nat /\ (twos # {} => Cardinality(twos) > 0)
    <2> DEFINE S == 1 .. n - 1
               f == [k \in S |-> <<query[k], query[k + 1]>>]
    <2>1. IsFiniteSet(S)
      BY <1>1, FS_Interval
    <2>2. f = [k \in S |-> f[k]] /\ twos = {f[k] : k \in S}
      BY DEF PairsAsked
    <2> HIDE DEF S, f, twos
    <2>3. IsFiniteSet(twos) /\ Cardinality(twos) \in Nat
      BY <2>1, <2>2, ImageNoLarger
    <2> QED BY <2>3, FS_EmptySet
  <1>4. Cardinality(bothHave) \in Nat
    <2>1. bothHave \in SUBSET twos
      OBVIOUS
    <2> HIDE DEF bothHave, twos
    <2> QED BY <1>3, <2>1, FS_Subset, FS_CardinalityType
  <1>5. Cardinality(places) \in Nat
    <2>1. places \in SUBSET WordsAt(text, span)
      OBVIOUS
    <2> HIDE DEF places
    <2> QED BY <2>1, WordsCounted, FS_Subset, FS_CardinalityType
  <1>6. hits \in Nat /\ (hits > 0 <=> Words(text, span) \cap terms # {})
    BY HitsCounted
  <1>7. often \in Nat /\ often <= Cardinality(places)
    <2> DEFINE size == Cardinality(places)
    <2>1. size \in Nat /\ n \in Nat
      BY <1>1, <1>5
    <2> HIDE DEF size, n
    <2>2. Min({n, size}) \in Nat /\ Min({n, size}) <= size
      BY <2>1, SmallerOf
    <2> QED BY <2>2 DEF size
  <1>8. AnswerScore(text, query, span) = a + b + c
    BY DEF AnswerScore
  <1>9. ASSUME Words(text, span) \cap terms = {} PROVE hits = 0 /\ bothHave = {} /\ places = {}
    <2>1. hits = 0
      <3> HIDE DEF hits, terms
      <3> QED BY <1>6, <1>9
    <2>2. Words(text, span) = {CharAt(text, i) : i \in WordsAt(text, span)}
      BY WordsCounted
    <2>3. places = {}
      BY <1>9, <2>2
    <2>4. ASSUME NEW x \in bothHave PROVE FALSE
      <3>1. PICK k \in 1 .. n - 1 : x = <<query[k], query[k + 1]>>
        BY DEF PairsAsked
      <3>2. query[k] \in terms
        BY <1>1, <3>1 DEF Range, QueryOf
      <3>3. x[1] \in Words(text, span)
        <4>1. PICK p \in WordsAt(text, span) \X WordsAt(text, span) : x = <<CharAt(text, p[1]), CharAt(text, p[2])>>
          BY DEF PairsIn
        <4> QED BY <2>2, <4>1
      <3> HIDE DEF terms
      <3> QED BY <1>9, <3>1, <3>2, <3>3
    <2> HIDE DEF bothHave, places
    <2> QED BY <2>1, <2>3, <2>4
  <1> HIDE DEF n, terms, howMany, hits, often, bothHave, places, twos
  <1>10. a \in Nat /\ (hits = 0 => a = 0)
    <2>1. howMany \in Nat \ {0}
      BY <1>2
    <2> QED BY <1>6, <2>1, Weights, PartRight
  <1>11. b \in Nat /\ (bothHave = {} => b = 0)
    <2>1. Cardinality({}) = 0
      BY FS_EmptySet
    <2>2. CASE twos = {}
      <3>1. b = 0
        BY <2>2
      <3> HIDE DEF b
      <3> QED BY <3>1
    <2>3. CASE twos # {}
      <3> DEFINE size == Cardinality(twos)
                 have == Cardinality(bothHave)
      <3>1. size \in Nat \ {0} /\ have \in Nat /\ b = PartOf(PairWeight, have, size) /\ (bothHave = {} => have = 0)
        <4>1. b = PartOf(PairWeight, have, size)
          BY <2>3
        <4>2. size \in Nat \ {0}
          BY <1>3, <2>3
        <4>3. have \in Nat /\ (bothHave = {} => have = 0)
          BY <1>4, <2>1
        <4> QED BY <4>1, <4>2, <4>3
      <3> HIDE DEF size, have, b
      <3> QED BY ONLY <3>1, Weights, PartRight
    <2> QED BY <2>2, <2>3
  <1>12. c \in Nat /\ (often = 0 => c = 0)
    <2>1. n \in Nat \ {0}
      BY <1>1
    <2> QED BY ONLY <1>7, <2>1, Weights, PartRight
  <1>13. ASSUME hits > 0, howMany <= FewWords PROVE a >= TermLeast
    <2>1. TermLeast * howMany <= TermLeast * FewWords /\ TermWeight * 1 <= TermWeight * hits
      <3>1. FewWords \in Nat /\ 1 \in Nat /\ 1 <= hits
        BY <1>6, <1>13 DEF FewWords
      <3> QED BY <1>2, <1>6, <1>13, <3>1, Weights, TimesLess
    <2>2. TermWeight * hits \in Nat /\ howMany \in Nat \ {0} /\ TermWeight * 1 = TermWeight
      BY <1>2, <1>6, Weights
    <2>3. TermLeast * howMany <= TermWeight * hits
      <3> DEFINE most == TermWeight * hits
                 less == TermLeast * howMany
                 mid  == TermLeast * FewWords
      <3>1. less \in Nat /\ mid \in Nat /\ most \in Nat /\ less <= mid /\ mid <= TermWeight /\ TermWeight <= most /\ TermWeight \in Nat
        BY <1>2, <1>6, <2>1, <2>2, Weights DEF FewWords
      <3> HIDE DEF most, less, mid
      <3>2. less <= most
        BY <3>1
      <3> QED BY <3>2 DEF less, most
    <2> QED BY <2>2, <2>3, Weights, ShareAtLeast DEF PartOf
  <1> HIDE DEF a, b, c
  <1>14. a + b + c \in Nat /\ a + b + c >= a
    BY <1>10, <1>11, <1>12
  <1>15. ASSUME Words(text, span) \cap terms = {} PROVE a + b + c = 0
    <2>1. often = 0
      <3>1. Cardinality(places) = 0
        BY <1>9, <1>15, FS_EmptySet
      <3> QED BY <1>7, <3>1
    <2> QED BY <1>9, <1>10, <1>11, <1>12, <1>15, <2>1
  <1>16. ASSUME Words(text, span) \cap terms # {}, howMany <= FewWords PROVE a + b + c >= TermLeast
    <2>1. a >= TermLeast
      BY <1>6, <1>13, <1>16
    <2> QED BY <1>10, <1>14, <2>1, Weights
  <1> QED BY <1>8, <1>14, <1>15, <1>16 DEF terms, howMany

\* A passage with a word of a short query scores higher than any without.
LEMMA ScoreTells ==
    ASSUME NEW text, Len(text) \in Nat, NEW query, QueryOf(query), NEW span, GoodSpan(text, span)
    PROVE  /\ LexicalScore(text, query, span) \in Nat
           /\ Words(text, span) \cap Range(query) = {} /\ query # <<>> => LexicalScore(text, query, span) <= DenseMost + PlaceWeight
           /\ (Words(text, span) \cap Range(query) # {} /\ Cardinality(Range(query)) <= FewWords) =>
                 LexicalScore(text, query, span) >= TermLeast /\ query # <<>>
  <1> DEFINE d == DensityScore(text, span)
             p == PositionPrior(text, span)
             a == AnswerScore(text, query, span)
  <1>1. span[1] \in Nat /\ span[2] \in Nat /\ span[1] <= Len(text)
    BY DEF GoodSpan
  <1>2. Words(text, span) = {CharAt(text, i) : i \in WordsAt(text, span)}
    BY <1>1, WordsCounted
  <1>3. CASE WordsAt(text, span) = {}
    <2>1. Words(text, span) = {} /\ LexicalScore(text, query, span) = 0
      BY <1>2, <1>3 DEF LexicalScore
    <2>2. Words(text, span) \cap Range(query) = {}
      BY <2>1
    <2>3. 0 \in Nat /\ 0 <= DenseMost + PlaceWeight
      BY Weights
    <2> QED BY <2>1, <2>2, <2>3
  <1>4. CASE WordsAt(text, span) # {}
    <2>1. d \in Nat /\ d <= DenseWeight + VariedWeight /\ p \in Nat /\ p <= PlaceWeight
      BY <1>1, <1>4, DensityBounded, PositionBounded
    <2>2. d \div 5 \in Nat /\ d \div 5 <= DenseMost
      <3>1. d \in Nat /\ d <= DenseMost * 5 /\ DenseMost \in Nat
        BY <2>1, Weights
      <3> HIDE DEF d
      <3>2. d \div 5 \in Nat
        BY <3>1, Division
      <3>3. d \div 5 <= DenseMost
        BY <3>1, ShareAtMost
      <3> QED BY <3>2, <3>3
    <2>3. CASE query = <<>>
      <3>1. LexicalScore(text, query, span) = d + p
        BY <1>4, <2>3 DEF LexicalScore
      <3>2. Range(query) = {}
        <4>1. DOMAIN query = {}
          BY <2>3
        <4> QED BY <4>1 DEF Range
      <3> HIDE DEF d, p
      <3>3. d + p \in Nat
        BY <2>1
      <3> QED BY <2>3, <3>1, <3>2, <3>3
    <2>4. CASE query # <<>>
      <3>1. LexicalScore(text, query, span) = a + d \div 5 + p
        BY <1>4, <2>4 DEF LexicalScore
      <3>2. /\ a \in Nat
            /\ Words(text, span) \cap Range(query) = {} => a = 0
            /\ (Words(text, span) \cap Range(query) # {} /\ Cardinality(Range(query)) <= FewWords) => a >= TermLeast
        BY <1>1, <2>4, AnswerCounted
      <3> DEFINE e == d \div 5
      <3>3. e \in Nat /\ e <= DenseMost /\ p \in Nat /\ p <= PlaceWeight
        BY <2>1, <2>2
      <3> HIDE DEF e, p, a
      <3>4. a + e + p \in Nat /\ a + e + p >= a /\ (a = 0 => a + e + p <= DenseMost + PlaceWeight)
        BY <3>2, <3>3, Weights
      <3>5. LexicalScore(text, query, span) = a + e + p
        BY <3>1 DEF e
      <3>6. a >= TermLeast => a + e + p >= TermLeast
        BY <3>2, <3>4, Weights
      <3> QED BY <2>4, <3>2, <3>4, <3>5, <3>6
    <2> QED BY <2>3, <2>4
  <1> QED BY <1>3, <1>4

\* The passages with the highest score come first.
RankedRight(text, query, S, ranked) ==
    /\ Cardinality(S) \in Nat /\ ranked \in Seq(S) /\ Len(ranked) = Cardinality(S) /\ DOMAIN ranked = 1 .. Cardinality(S)
    /\ Range(ranked) = S
    /\ \A k \in DOMAIN ranked : LexicalScore(text, query, ranked[k]) <= LexicalScore(text, query, ranked[1])

LEMMA HighestFirst ==
    ASSUME NEW text, Len(text) \in Nat, NEW query, QueryOf(query), NEW S, \A p \in S : GoodSpan(text, p)
    PROVE  RankedRight(text, query, S, Ranked(text, query, S))
  <1> DEFINE w == [p \in S |-> LexicalScore(text, query, p)]
             early == {p \in S \X S : SpanBefore(p[1], p[2])}
             before == {p \in S \X S : LET x == LexicalScore(text, query, p[1]) y == LexicalScore(text, query, p[2])
                                      IN x > y \/ (x = y /\ SpanBefore(p[1], p[2]))}
             ranked == SortedBy(S, before)
  <1>1. IsFiniteSet(S) /\ Orders(early, S)
    BY GoodFinite
  <1>2. ASSUME NEW x \in S PROVE w[x] \in Nat
    <2>1. LexicalScore(text, query, x) \in Nat
      BY ScoreTells
    <2> QED BY <2>1
  <1>3. \A x, y \in S : <<x, y>> \in before <=> (w[x] > w[y] \/ (w[x] = w[y] /\ <<x, y>> \in early))
    OBVIOUS
  <1>4. Ranked(text, query, S) = ranked
    BY DEF Ranked
  <1>5. \A p \in S : w[p] = LexicalScore(text, query, p)
    OBVIOUS
  <1> HIDE DEF w, early, before
  <1>6. /\ Sorted(SortedBy(S, before), S, before)
        /\ \A k \in DOMAIN SortedBy(S, before) : w[SortedBy(S, before)[k]] <= w[SortedBy(S, before)[1]]
    BY <1>1, <1>2, <1>3, HeaviestFirst
  <1> HIDE DEF ranked
  <1>7. Sorted(ranked, S, before) /\ \A k \in DOMAIN ranked : w[ranked[k]] <= w[ranked[1]]
    BY <1>6 DEF ranked
  <1>8. ASSUME NEW k \in DOMAIN ranked PROVE LexicalScore(text, query, ranked[k]) <= LexicalScore(text, query, ranked[1])
    <2>1. ranked[k] \in S /\ ranked[1] \in S
      BY <1>7 DEF Sorted, Range
    <2> QED BY <1>5, <1>7, <2>1
  <1> QED BY <1>4, <1>7, <1>8 DEF RankedRight, Sorted

\* The heading at a place.
HeadingAt(text, i) == [start |-> i, level |-> LevelAt(text, i), title |-> LineEnd(text, i)]

LEMMA HeadingsRight ==
    ASSUME NEW text, Len(text) \in Nat
    PROVE  /\ IsFiniteSet(Headings(text))
           /\ \A h \in Headings(text) : h.start \in 0 .. Len(text) - 1 /\ h.title \in h.start .. Len(text)
           /\ \A g, h \in Headings(text) : g.start = h.start => g = h
  <1> DEFINE n  == Len(text)
             at == {j \in 0 .. n - 1 : IsHeading(text, j)}
             f  == [i \in 0 .. n |-> HeadingAt(text, i)]
             T  == {f[i] : i \in 0 .. n}
  <1>1. Headings(text) = {HeadingAt(text, i) : i \in at}
    BY DEF Headings, HeadingAt
  <1>2. IsFiniteSet(T)
    <2>1. f = [i \in 0 .. n |-> f[i]]
      OBVIOUS
    <2> HIDE DEF f, n
    <2>2. n \in Nat
      BY DEF n
    <2> QED BY <2>1, <2>2, ImageFinite
  <1>3. ASSUME NEW h \in Headings(text)
        PROVE  \E i \in 0 .. n - 1 : h = HeadingAt(text, i) /\ h.start = i /\ h.title = LineEnd(text, i)
    <2>1. PICK i \in at : h = HeadingAt(text, i)
      BY <1>1
    <2>2. h.start = i /\ h.title = LineEnd(text, i)
      BY <2>1 DEF HeadingAt
    <2>3. i \in 0 .. n - 1
      OBVIOUS
    <2> QED BY <2>1, <2>2, <2>3
  <1>4. Headings(text) \in SUBSET T
    <2> SUFFICES ASSUME NEW h \in Headings(text) PROVE h \in T
      OBVIOUS
    <2>1. PICK i \in 0 .. n - 1 : h = HeadingAt(text, i)
      BY <1>3
    <2>2. i \in 0 .. n
      OBVIOUS
    <2> QED BY <2>1, <2>2
  <1>5. IsFiniteSet(Headings(text))
    <2> HIDE DEF T
    <2> QED BY <1>2, <1>4, FS_Subset
  <1>6. ASSUME NEW i \in 0 .. n - 1 PROVE LineEnd(text, i) \in i .. n
    <2> DEFINE ends == {j \in i .. Len(text) - 1 : CharAt(text, j) = Newline}
    <2>1. CASE ends = {}
      BY <2>1 DEF LineEnd
    <2>2. CASE ends # {}
      <3>1. LineEnd(text, i) = Min(ends)
        BY <2>2 DEF LineEnd
      <3>2. ends \in SUBSET Nat /\ \A e \in ends : e \in i .. n
        OBVIOUS
      <3> HIDE DEF ends
      <3>3. Min(ends) \in ends
        BY <2>2, <3>2, MinOf
      <3> QED BY <3>1, <3>2, <3>3
    <2> QED BY <2>1, <2>2
  <1> HIDE DEF n
  <1>7. \A h \in Headings(text) : h.start \in 0 .. n - 1 /\ h.title \in h.start .. n
    BY <1>3, <1>6
  <1>8. \A g, h \in Headings(text) : g.start = h.start => g = h
    BY <1>3
  <1> QED BY <1>5, <1>7, <1>8 DEF n

\* A section is a passage with a word of the query in it.
AnswersQuery(text, query, s) == GoodSpan(text, s) /\ Words(text, s) \cap query # {}

LEMMA SectionAnswers ==
    ASSUME NEW text, Len(text) \in Nat, NEW query, NEW h \in Headings(text), HitsIn(text, <<h.start, h.title>>, query) > 0,
           NEW s \in SectionOf(text, h), s[2] >= h.title
    PROVE  AnswersQuery(text, query, s)
  <1> DEFINE ends == {g.start : g \in {x \in Headings(text) : x.start > h.start /\ x.level <= h.level}}
             last == IF ends = {} THEN Len(text) ELSE Min(ends)
             cap  == Min({MaxSpanChars, SectionChars})
             most == h.start + cap
             e    == Min({last, most})
             b    == h.start
             t    == h.title
  <1>1. b \in 0 .. Len(text) - 1 /\ t \in b .. Len(text)
    BY HeadingsRight
  <1>2. last \in Nat /\ last <= Len(text)
    <2>1. \A g \in Headings(text) : g.start \in 0 .. Len(text) - 1
      BY HeadingsRight
    <2>2. \A x \in ends : x \in Nat /\ x <= Len(text)
      BY <2>1
    <2> HIDE DEF ends
    <2>3. CASE ends = {}
      BY <2>3
    <2>4. CASE ends # {}
      <3>1. ends \in SUBSET Nat
        BY <2>2
      <3>2. Min(ends) \in ends
        BY <2>4, <3>1, MinOf
      <3> QED BY <2>2, <2>4, <3>2
    <2> QED BY <2>3, <2>4
  <1>3. SectionOf(text, h) = Trimmed(text, b, e)
    BY DEF SectionOf
  <1>4. cap \in Nat /\ cap <= MaxSpanChars
    BY SpanAssumption, SmallerOf
  <1> HIDE DEF last, cap
  <1>5. most \in Nat /\ most <= b + MaxSpanChars
    BY <1>1, <1>4, SpanAssumption
  <1> HIDE DEF most
  <1>6. e \in Nat /\ e <= last /\ e <= most
    BY <1>2, <1>5, SmallerOf
  <1> HIDE DEF e, b, t
  <1>7. b \in Nat /\ t \in Nat /\ b <= t /\ e <= Len(text) /\ e <= b + MaxSpanChars
    BY <1>1, <1>2, <1>5, <1>6, SpanAssumption
  <1>8. TrimmedTo(text, b, e, s)
    BY <1>3, <1>6, <1>7, TrimmedRight
  <1>9. s[1] \in Nat /\ s[2] \in Nat /\ b <= s[1] /\ s[2] <= e /\ s[2] >= t
    BY <1>8 DEF TrimmedTo, t
  <1>10. GoodSpan(text, s)
    <2>1. s[2] - s[1] <= MaxSpanChars
      BY <1>6, <1>7, <1>9, SpanAssumption
    <2> QED BY <1>6, <1>7, <1>8, <2>1, GoodTrimmed
  <1>11. PICK i : HasWord(text, <<b, t>>, query, i)
    <2> DEFINE p == <<b, t>>
    <2>1. p[1] \in Nat /\ p[2] \in Nat /\ HitsIn(text, p, query) > 0
      BY <1>7 DEF b, t
    <2> HIDE DEF p
    <2>2. \E i : HasWord(text, p, query, i)
      BY <2>1, HitsCounted
    <2> QED BY <2>2 DEF p
  <1>12. i \in Nat /\ b <= i /\ i < t /\ CharAt(text, i) \notin Whites \cup {Stop, Hash} /\ CharAt(text, i) \in query
    BY <1>11 DEF HasWord
  <1>13. i \in Solid(text, b, e)
    <2>1. i < e /\ CharAt(text, i) \notin Whites
      BY <1>6, <1>7, <1>9, <1>12
    <2> QED BY <1>6, <1>7, <1>12, <2>1, SolidPlaces
  <1>14. s[1] <= i /\ i < s[2]
    BY <1>8, <1>13 DEF TrimmedTo
  <1>15. HasWord(text, s, query, i)
    BY <1>12, <1>14 DEF HasWord
  <1> QED BY <1>9, <1>10, <1>15, WordThere DEF AnswersQuery

LEMMA SectionsRight ==
    ASSUME NEW text, Len(text) \in Nat, NEW query
    PROVE  \E n \in Nat : /\ SectionsOf(text, query) = [k \in 1 .. n |-> SectionsOf(text, query)[k]]
                          /\ \A k \in 1 .. n : AnswersQuery(text, query, SectionsOf(text, query)[k])
  <1> DEFINE hits(h) == HitsIn(text, <<h.start, h.title>>, query)
             whole  == {h \in Headings(text) : hits(h) > 0 /\ \E s \in SectionOf(text, h) : s[2] >= h.title}
             before == {p \in whole \X whole : hits(p[1]) > hits(p[2]) \/ (hits(p[1]) = hits(p[2]) /\ p[1].start < p[2].start)}
             order  == SortedBy(whole, before)
             n      == Min({Cardinality(whole), MaxSpans, MaxSections})
             pick(h) == CHOOSE s \in SectionOf(text, h) : TRUE
  <1>1. SectionsOf(text, query) = [k \in 1 .. n |-> pick(order[k])]
    BY DEF SectionsOf
  <1>2. ASSUME NEW h \in whole PROVE AnswersQuery(text, query, pick(h))
    <2>1. h \in Headings(text) /\ HitsIn(text, <<h.start, h.title>>, query) > 0
      OBVIOUS
    <2>2. PICK s \in SectionOf(text, h) : s[2] >= h.title
      OBVIOUS
    <2>3. \A x, y \in SectionOf(text, h) : x = y
      BY DEF SectionOf, Trimmed
    <2>4. pick(h) = s
      BY <2>2, <2>3
    <2> QED BY <2>1, <2>2, <2>4, SectionAnswers
  <1>3. IsFiniteSet(whole) /\ whole \in SUBSET Headings(text)
    <2>1. whole \in SUBSET Headings(text)
      OBVIOUS
    <2> HIDE DEF whole
    <2> QED BY <2>1, HeadingsRight, FS_Subset
  <1>4. Sorted(order, whole, before)
    <2> DEFINE early == {p \in whole \X whole : p[1].start < p[2].start}
               w     == [h \in whole |-> hits(h)]
    <2>1. \A x, y \in whole : <<x, y>> \in before <=> (w[x] > w[y] \/ (w[x] = w[y] /\ <<x, y>> \in early))
      <3> HIDE DEF whole, hits
      <3> QED OBVIOUS
    <2>2. ASSUME NEW h \in whole PROVE w[h] \in Nat
      <3> DEFINE p == <<h.start, h.title>>
      <3>1. p[1] \in Nat /\ p[2] \in Nat
        BY <1>3, HeadingsRight
      <3>2. w[h] = HitsIn(text, p, query)
        <4> HIDE DEF whole
        <4> QED OBVIOUS
      <3> HIDE DEF p, w
      <3> QED BY <3>1, <3>2, HitsCounted
    <2>3. Orders(early, whole)
      <3>1. \A x \in whole : x.start \in Nat
        BY <1>3, HeadingsRight
      <3>2. \A x, y \in whole : x.start = y.start => x = y
        BY <1>3, HeadingsRight
      <3>3. \A x, y \in whole : <<x, y>> \in early <=> x.start < y.start
        <4> HIDE DEF whole
        <4> QED OBVIOUS
      <3> HIDE DEF early, whole
      <3>4. \A x \in whole : <<x, x>> \notin early
        BY <3>1, <3>3
      <3>5. \A x, y \in whole : x # y => <<x, y>> \in early \/ <<y, x>> \in early
        BY <3>1, <3>2, <3>3
      <3>6. \A x, y, z \in whole : <<x, y>> \in early /\ <<y, z>> \in early => <<x, z>> \in early
        BY <3>1, <3>3
      <3> QED BY <3>4, <3>5, <3>6 DEF Orders
    <2> HIDE DEF whole, before, early, w
    <2> QED BY <1>3, <2>1, <2>2, <2>3, HeaviestFirst
  <1>5. n \in Nat /\ n <= Cardinality(whole)
    <2> DEFINE T == {Cardinality(whole), MaxSpans, MaxSections}
    <2>1. T \in SUBSET Nat /\ T # {} /\ Cardinality(whole) \in T
      BY <1>4, SpanAssumption DEF Sorted
    <2>0. n = Min(T)
      OBVIOUS
    <2> HIDE DEF T, n
    <2>2. Min(T) \in T /\ \A t \in T : Min(T) <= t
      BY <2>1, MinOf
    <2>3. Min(T) \in Nat /\ Min(T) <= Cardinality(whole)
      BY ONLY <2>1, <2>2
    <2> QED BY ONLY <2>0, <2>3
  <1>6. ASSUME NEW k \in 1 .. n PROVE order[k] \in whole
    <2> HIDE DEF whole, before, order, n
    <2>1. k \in DOMAIN order
      BY <1>4, <1>5 DEF Sorted
    <2> QED BY <1>4, <2>1 DEF Sorted, Range
  <1>7. \A k \in 1 .. n : AnswersQuery(text, query, pick(order[k]))
    <2> HIDE DEF whole, order, pick, n
    <2> QED BY <1>2, <1>6
  <1> HIDE DEF n, pick, order, whole
  <1> QED BY <1>1, <1>5, <1>7

\* What is chosen from an offer.
ChosenRight(offered, n, chosen) ==
    /\ IsFiniteSet(chosen) /\ Cardinality(chosen) \in Nat /\ Cardinality(chosen) <= MaxSpans
    /\ chosen \in SUBSET {offered[k] : k \in 1 .. n}
    /\ \A p, q \in chosen : p # q => ~Overlap(p, q)

LEMMA TakeOne ==
    ASSUME NEW offered, NEW n \in Nat, NEW T, ChosenRight(offered, n, T), NEW k \in 1 .. n, Cardinality(T) < MaxSpans,
           \A q \in T : ~Overlap(offered[k], q)
    PROVE  ChosenRight(offered, n, T \cup {offered[k]})
  <1> DEFINE p == offered[k]
             U == T \cup {p}
             X == {offered[j] : j \in 1 .. n}
  <1>1. IsFiniteSet(U) /\ Cardinality(U) = IF p \in T THEN Cardinality(T) ELSE Cardinality(T) + 1
    <2> HIDE DEF p
    <2> QED BY FS_AddElement DEF ChosenRight
  <1>2. Cardinality(U) \in Nat /\ Cardinality(U) <= MaxSpans
    <2> HIDE DEF U, p
    <2> QED BY <1>1, SpanAssumption DEF ChosenRight
  <1>3. U \in SUBSET X
    <2>1. p \in X /\ T \in SUBSET X
      BY DEF ChosenRight
    <2> HIDE DEF p, X
    <2> QED BY <2>1
  <1>4. \A a, b \in U : a # b => ~Overlap(a, b)
    <2>1. \A q \in T : ~Overlap(p, q) /\ ~Overlap(q, p)
      BY DEF Overlap
    <2>2. \A a, b \in T : a # b => ~Overlap(a, b)
      BY DEF ChosenRight
    <2> HIDE DEF p
    <2> QED BY <2>1, <2>2
  <1> QED BY <1>1, <1>2, <1>3, <1>4 DEF ChosenRight

\* What the next offer makes of those taken.
TakeNext(offered, k, T) ==
    IF Cardinality(T) >= MaxSpans \/ \E q \in T : Overlap(offered[k], q) THEN T ELSE T \cup {offered[k]}

LEMMA ChoiceRight ==
    ASSUME NEW n \in Nat, NEW offered, Len(offered) = n
    PROVE  /\ ChosenRight(offered, n, Chosen(offered))
           /\ MaxSpans > 0 /\ n > 0 => offered[1] \in Chosen(offered)
  <1> DEFINE X == {offered[k] : k \in 1 .. n}
             A == {T \in SUBSET X : ChosenRight(offered, n, T)}
             next(k, T) == TakeNext(offered, k, T)
             g == [k \in 1 .. n |-> [T \in A |-> next(k, T)]]
             Runs(r) == r = [k \in 0 .. Len(offered) |->
                                IF k = 0 THEN {}
                                ELSE IF Cardinality(r[k - 1]) >= MaxSpans \/ \E q \in r[k - 1] : Overlap(offered[k], q)
                                     THEN r[k - 1] ELSE r[k - 1] \cup {offered[k]}]
             run == CHOOSE r : Runs(r)
  <1>0. {} \in A
    <2>1. IsFiniteSet({}) /\ Cardinality({}) = 0
      BY FS_EmptySet
    <2>2. ChosenRight(offered, n, {})
      BY <2>1, SpanAssumption DEF ChosenRight
    <2> QED BY <2>2
  <1>1. ASSUME NEW k \in 1 .. n, NEW T \in A PROVE next(k, T) \in A
    <2>1. ChosenRight(offered, n, T) /\ T \in SUBSET X
      OBVIOUS
    <2>2. CASE next(k, T) = T
      <3> HIDE DEF A, next
      <3> QED BY <2>2
    <2>3. CASE ~(Cardinality(T) >= MaxSpans \/ \E q \in T : Overlap(offered[k], q))
      <3>1. next(k, T) = T \cup {offered[k]}
        BY <2>3 DEF TakeNext
      <3>2. Cardinality(T) < MaxSpans /\ \A q \in T : ~Overlap(offered[k], q)
        BY <2>1, <2>3, SpanAssumption DEF ChosenRight
      <3>3. ChosenRight(offered, n, T \cup {offered[k]})
        <4> HIDE DEF A, X
        <4> QED BY <2>1, <3>2, TakeOne
      <3>4. T \cup {offered[k]} \in SUBSET X
        BY <2>1
      <3> HIDE DEF X, next
      <3> QED BY <3>1, <3>3, <3>4
    <2>4. next(k, T) = T \/ ~(Cardinality(T) >= MaxSpans \/ \E q \in T : Overlap(offered[k], q))
      BY DEF TakeNext
    <2> HIDE DEF next, A
    <2> QED BY <2>2, <2>3, <2>4
  <1>2. g \in [1 .. n -> [A -> A]]
    <2> HIDE DEF A, next
    <2> QED BY <1>1
  <1>3. \E r : Runs(r)
    <2>1. PICK f : f \in [0 .. n -> A] /\ f[0] = {} /\ \A k \in 1 .. n : f[k] = g[k][f[k - 1]]
      <3> HIDE DEF g, A
      <3>1. \E f : Computes(n, A, {}, g, f)
        BY <1>0, <1>2, Recursion
      <3> QED BY <3>1 DEF Computes
    <2>2. \A k \in 1 .. n : k - 1 \in 0 .. n /\ f[k - 1] \in A
      <3> HIDE DEF A
      <3> QED BY <2>1
    <2>3. \A k \in 1 .. n : f[k] = next(k, f[k - 1])
      <3> HIDE DEF next, A
      <3> QED BY <2>1, <2>2
    <2>4. f = [k \in 0 .. n |-> IF k = 0 THEN {} ELSE next(k, f[k - 1])]
      <3>1. \A k \in 0 .. n : k = 0 \/ k \in 1 .. n
        OBVIOUS
      <3> HIDE DEF next, g, A
      <3>2. \A k \in 0 .. n : f[k] = IF k = 0 THEN {} ELSE next(k, f[k - 1])
        BY <2>1, <2>3, <3>1
      <3> QED BY <2>1, <3>2
    <2>5. Runs(f)
      BY <2>4 DEF TakeNext
    <2> HIDE DEF Runs
    <2> QED BY <2>5
  <1>4. Runs(run)
    <2> HIDE DEF Runs
    <2> QED BY <1>3
  <1>5. Chosen(offered) = run[n]
    BY DEF Chosen
  <1> HIDE DEF run, g
  <1>6. run[0] = {} /\ \A k \in 1 .. n : run[k] = next(k, run[k - 1])
    <2>1. \A k \in 0 .. n : run[k] = IF k = 0 THEN {} ELSE next(k, run[k - 1])
      BY <1>4 DEF TakeNext
    <2>2. 0 \in 0 .. n /\ \A k \in 1 .. n : k \in 0 .. n /\ k # 0
      OBVIOUS
    <2> HIDE DEF Runs, next
    <2> QED BY <2>1, <2>2
  <1> DEFINE S == {k \in 0 .. n : run[k] \in A}
  <1>7. \A k \in 0 .. n : k \in S
    <2> HIDE DEF A, next
    <2>1. 0 \in S
      <3>1. run[0] \in A
        BY <1>0, <1>6, Zenon
      <3>2. 0 \in 0 .. n
        OBVIOUS
      <3> QED BY <3>1, <3>2
    <2>2. ASSUME NEW k \in 0 .. n - 1, k \in S PROVE k + 1 \in S
      <3>1. k + 1 \in 1 .. n /\ (k + 1) - 1 = k /\ k + 1 \in 0 .. n
        OBVIOUS
      <3>2. run[k + 1] = next(k + 1, run[k])
        BY <1>6, <3>1
      <3> QED BY <1>1, <2>2, <3>1, <3>2
    <2> HIDE DEF S
    <2> QED BY <2>1, <2>2, InductionTo
  <1>8. run[n] \in A
    <2>1. n \in 0 .. n
      OBVIOUS
    <2> QED BY <1>7, <2>1
  <1>9. ASSUME MaxSpans > 0, n > 0 PROVE offered[1] \in run[n]
    <2> DEFINE first == offered[1]
               F == {k \in 0 .. n : k = 0 \/ first \in run[k]}
    <2> HIDE DEF first
    <2>1. 0 \in F
      OBVIOUS
    <2>2. ASSUME NEW k \in 0 .. n - 1, k \in F PROVE k + 1 \in F
      <3>1. k + 1 \in 1 .. n /\ (k + 1) - 1 = k /\ k + 1 \in 0 .. n
        OBVIOUS
      <3>2. run[k + 1] = next(k + 1, run[k])
        BY <1>6, <3>1
      <3>3. CASE k = 0
        <4>1. run[k] = {} /\ Cardinality({}) = 0
          BY <1>6, <3>3, FS_EmptySet
        <4>2. run[k + 1] = {first}
          <5>1. ~(Cardinality({}) >= MaxSpans)
            BY <1>9, <4>1, SpanAssumption
          <5>2. next(k + 1, {}) = {offered[k + 1]}
            BY <5>1 DEF TakeNext
          <5>3. run[k + 1] = {offered[k + 1]} /\ k + 1 = 1
            <6> HIDE DEF next
            <6> QED BY <3>2, <3>3, <4>1, <5>2
          <5> QED BY ONLY <5>3 DEF first
        <4> QED BY <3>1, <4>2
      <3>4. CASE k # 0
        <4>1. first \in run[k]
          BY <2>2, <3>4
        <4>2. run[k] \in SUBSET run[k + 1]
          BY <3>2 DEF TakeNext
        <4> QED BY <3>1, <4>1, <4>2
      <3> QED BY <3>3, <3>4
    <2>3. \A k \in 0 .. n : k \in F
      <3> HIDE DEF F
      <3> QED BY <2>1, <2>2, InductionTo
    <2>4. n \in F /\ n # 0
      BY <1>9, <2>3
    <2>5. first \in run[n]
      BY <2>4
    <2> QED BY <2>5 DEF first
  <1> QED BY <1>5, <1>8, <1>9

\* What is offered: sections, then the passages with the highest score first.
Offer(text, query) ==
    LET sections == SectionsOf(text, Range(query))
    IN  sections \o Ranked(text, query, PassagesOf(text) \cup Range(sections))

LEMMA OfferRight ==
    ASSUME NEW text, Len(text) \in Nat, NEW query, QueryOf(query)
    PROVE  /\ Len(Offer(text, query)) \in Nat
           /\ \A k \in 1 .. Len(Offer(text, query)) : GoodSpan(text, Offer(text, query)[k])
           /\ (Words(text, <<0, Len(text)>>) \cap Range(query) # {} /\ Cardinality(Range(query)) <= FewWords) =>
                 /\ Len(Offer(text, query)) > 0
                 /\ Words(text, Offer(text, query)[1]) \cap Range(query) # {}
  <1> DEFINE terms == Range(query)
             sections == SectionsOf(text, terms)
             S      == PassagesOf(text) \cup Range(sections)
             ranked == Ranked(text, query, S)
             offer  == Offer(text, query)
             m      == Cardinality(S)
  <1>1. PICK n \in Nat : sections = [k \in 1 .. n |-> sections[k]] /\ \A k \in 1 .. n : AnswersQuery(text, terms, sections[k])
    BY SectionsRight
  <1>2. offer = sections \o ranked
    BY DEF Offer
  <1> HIDE DEF sections, offer, terms
  <1>3. Range(sections) = {sections[k] : k \in 1 .. n}
    BY <1>1 DEF Range
  <1>4. \A p \in S : GoodSpan(text, p)
    <2>1. \A p \in PassagesOf(text) : GoodSpan(text, p)
      BY PassagesHold
    <2>2. \A p \in Range(sections) : GoodSpan(text, p)
      BY <1>1, <1>3 DEF AnswersQuery
    <2> QED BY <2>1, <2>2
  <1> HIDE DEF S
  <1>5. RankedRight(text, query, S, ranked)
    BY <1>4, HighestFirst
  <1> HIDE DEF ranked
  <1>6. m \in Nat /\ ranked = [k \in 1 .. m |-> ranked[k]] /\ \A k \in 1 .. m : ranked[k] \in S
    BY <1>5 DEF RankedRight
  <1> HIDE DEF m
  <1>7. /\ Len(offer) = n + m
        /\ \A i \in 1 .. n : offer[i] = sections[i]
        /\ \A i \in n + 1 .. n + m : offer[i] = ranked[i - n]
    BY <1>1, <1>2, <1>6, Joined
  <1>8. ASSUME NEW k \in 1 .. n + m PROVE GoodSpan(text, offer[k])
    <2>1. CASE k <= n
      <3>1. k \in 1 .. n
        BY <2>1
      <3> QED BY <1>1, <1>7, <3>1 DEF AnswersQuery
    <2>2. CASE k > n
      <3>1. k \in n + 1 .. n + m /\ k - n \in 1 .. m
        BY <1>6, <2>2
      <3> QED BY <1>4, <1>6, <1>7, <3>1
    <2> QED BY <1>6, <2>1, <2>2
  <1>9. ASSUME Words(text, <<0, Len(text)>>) \cap terms # {}, Cardinality(terms) <= FewWords
        PROVE  n + m > 0 /\ Words(text, offer[1]) \cap terms # {}
    <2>1. CASE n > 0
      <3>1. 1 \in 1 .. n /\ n + m > 0
        BY <1>6, <2>1
      <3> QED BY <1>1, <1>7, <3>1 DEF AnswersQuery
    <2>2. CASE n = 0
      <3> DEFINE whole == <<0, Len(text)>>
      <3>1. PICK i : HasWord(text, whole, terms, i)
        <4>1. whole[1] \in Nat /\ whole[2] \in Nat
          OBVIOUS
        <4>2. Words(text, whole) \cap terms # {}
          BY <1>9
        <4> HIDE DEF whole
        <4> QED BY <4>1, <4>2, HitsCounted
      <3>2. i \in Nat /\ i < Len(text) /\ CharAt(text, i) \notin Whites \cup {Stop, Hash} /\ CharAt(text, i) \in terms
        BY <3>1 DEF HasWord
      <3>3. i \in Solid(text, 0, Len(text))
        <4>1. 0 \in Nat /\ 0 <= i /\ CharAt(text, i) \notin Whites
          BY <3>2
        <4> QED BY <3>2, <4>1, SolidPlaces
      <3>4. PICK p \in PassagesOf(text) : p[1] <= i /\ i < p[2]
        BY <3>3, PassagesHold DEF Held
      <3>5. p \in S /\ p[1] \in Nat /\ p[2] \in Nat
        <4>1. p \in S
          BY DEF S
        <4> QED BY <1>4, <4>1 DEF GoodSpan
      <3>6. HasWord(text, p, terms, i)
        BY <3>2, <3>4 DEF HasWord
      <3>7. LexicalScore(text, query, p) >= TermLeast /\ query # <<>> /\ LexicalScore(text, query, p) \in Nat
        <4>1. Words(text, p) \cap terms # {}
          BY <3>5, <3>6, WordThere
        <4> QED BY <1>4, <1>9, <3>5, <4>1, ScoreTells DEF terms
      <3>8. PICK k \in DOMAIN ranked : ranked[k] = p
        BY <1>5, <3>5 DEF RankedRight, Range
      <3>9. k \in 1 .. m /\ DOMAIN ranked = 1 .. m
        BY <1>5, <3>8 DEF RankedRight, m
      <3>10. 1 \in 1 .. m /\ 1 \in n + 1 .. n + m /\ 1 - n = 1 /\ n + m > 0
        BY <1>6, <2>2, <3>9
      <3> DEFINE r == ranked[1]
      <3>11. offer[1] = r
        BY <1>7, <3>10
      <3>12. r \in S /\ LexicalScore(text, query, p) <= LexicalScore(text, query, r)
        BY <1>5, <1>6, <3>8, <3>10 DEF RankedRight
      <3> HIDE DEF r
      <3>13. /\ LexicalScore(text, query, r) \in Nat
             /\ Words(text, r) \cap terms = {} => LexicalScore(text, query, r) <= DenseMost + PlaceWeight
        BY <1>4, <3>7, <3>12, ScoreTells DEF terms
      <3>14. Words(text, r) \cap terms # {}
        <4> DEFINE x == LexicalScore(text, query, p)
                   y == LexicalScore(text, query, r)
                   z == DenseMost + PlaceWeight
        <4>1. x \in Nat /\ y \in Nat /\ z \in Nat /\ TermLeast \in Nat /\ TermLeast <= x /\ x <= y /\ z < TermLeast
          BY <3>7, <3>12, <3>13, Weights
        <4>2. Words(text, r) \cap terms = {} => y <= z
          BY <3>13
        <4> HIDE DEF x, y, z
        <4>3. ~(y <= z)
          BY <4>1
        <4> QED BY <4>2, <4>3
      <3> QED BY <3>10, <3>11, <3>14
    <2> QED BY <2>1, <2>2
  <1>10. n + m \in Nat
    BY <1>6
  <1>11. /\ Len(offer) \in Nat
         /\ \A k \in 1 .. Len(offer) : GoodSpan(text, offer[k])
         /\ (Words(text, <<0, Len(text)>>) \cap terms # {} /\ Cardinality(terms) <= FewWords) =>
               Len(offer) > 0 /\ Words(text, offer[1]) \cap terms # {}
    BY <1>7, <1>8, <1>9, <1>10
  <1> QED BY <1>11 DEF offer, terms

\* The chosen passages of a text.
LEMMA SpansAreRight ==
    ASSUME NEW text, Len(text) \in Nat, NEW query, QueryOf(query)
    PROVE  /\ SpansStand(text, query, SelectSpans(text, query))
           /\ Len(SelectSpans(text, query)) \in Nat
           /\ SelectSpans(text, query) = [k \in 1 .. Len(SelectSpans(text, query)) |-> SelectSpans(text, query)[k]]
  <1> DEFINE offer  == Offer(text, query)
             n      == Len(offer)
             chosen == Chosen(offer)
             before == {p \in chosen \X chosen : SpanBefore(p[1], p[2])}
             spans  == SortedBy(chosen, before)
  <1>1. Selected(text, query) = chosen
    BY DEF Selected, Offer
  <1>2. SelectSpans(text, query) = spans
    BY <1>1 DEF SelectSpans
  <1>3. /\ n \in Nat
        /\ \A k \in 1 .. n : GoodSpan(text, offer[k])
        /\ (Words(text, <<0, Len(text)>>) \cap Range(query) # {} /\ Cardinality(Range(query)) <= FewWords) =>
              n > 0 /\ Words(text, offer[1]) \cap Range(query) # {}
    BY OfferRight
  <1>4. ChosenRight(offer, n, chosen) /\ (MaxSpans > 0 /\ n > 0 => offer[1] \in chosen)
    <2> HIDE DEF offer
    <2> QED BY <1>3, ChoiceRight
  <1> HIDE DEF offer, n, chosen
  <1>5. \A p \in chosen : GoodSpan(text, p)
    BY <1>3, <1>4 DEF ChosenRight
  <1>6. Sorted(spans, chosen, before)
    <2>1. IsFiniteSet(chosen) /\ Orders(before, chosen)
      BY <1>5, GoodFinite
    <2> HIDE DEF before
    <2> QED BY <2>1, SortedList
  <1> HIDE DEF spans
  <1>7. /\ Len(spans) \in Nat /\ Len(spans) <= MaxSpans /\ DOMAIN spans = 1 .. Len(spans)
        /\ spans = [k \in 1 .. Len(spans) |-> spans[k]] /\ \A k \in DOMAIN spans : spans[k] \in chosen
    <2> HIDE DEF before
    <2> QED BY <1>4, <1>6 DEF Sorted, ChosenRight, Range
  <1>8. ASSUME NEW k \in DOMAIN spans
        PROVE  /\ 0 <= spans[k][1] /\ spans[k][2] <= Len(text) /\ spans[k][2] - spans[k][1] \in 1 .. MaxSpanChars
               /\ {spans[k][1], spans[k][2] - 1} \subseteq Solid(text, 0, Len(text))
    <2> DEFINE p == spans[k]
    <2>1. GoodSpan(text, p)
      BY <1>5, <1>7
    <2> HIDE DEF p
    <2>2. p[1] \in Nat /\ p[2] \in Nat /\ p[1] < p[2] /\ p[2] <= Len(text) /\ p[2] - p[1] <= MaxSpanChars
      BY <2>1 DEF GoodSpan
    <2>3. p[2] - p[1] \in 1 .. MaxSpanChars
      BY <2>2, SpanAssumption
    <2>4. {p[1], p[2] - 1} \subseteq Solid(text, 0, Len(text))
      BY <2>1 DEF GoodSpan
    <2> QED BY <2>2, <2>3, <2>4 DEF p
  <1>9. ASSUME NEW k \in DOMAIN spans, k > 1 PROVE spans[k - 1][2] <= spans[k][1]
    <2> DEFINE a == spans[k - 1]
               b == spans[k]
    <2>1. k - 1 \in DOMAIN spans /\ k - 1 < k
      BY <1>7, <1>9
    <2>2. <<a, b>> \in before /\ a # b
      <3> HIDE DEF before
      <3> QED BY <1>6, <2>1 DEF Sorted
    <2>3. a \in chosen /\ b \in chosen
      BY <1>7, <2>1
    <2>4. SpanBefore(a, b)
      BY <2>2
    <2>5. ~Overlap(a, b)
      BY <1>4, <2>2, <2>3 DEF ChosenRight
    <2>6. GoodSpan(text, a) /\ GoodSpan(text, b)
      BY <1>5, <2>3
    <2> HIDE DEF a, b
    <2>7. a[1] \in Nat /\ a[2] \in Nat /\ b[1] \in Nat /\ b[2] \in Nat /\ b[1] < b[2]
      BY <2>6 DEF GoodSpan
    <2>8. a[2] <= b[1]
      BY <2>4, <2>5, <2>7 DEF SpanBefore, Overlap
    <2> QED BY <2>8 DEF a, b
  <1>10. \A i \in Solid(text, 0, Len(text)) : \E p \in PassagesOf(text) : p[1] <= i /\ i < p[2]
    BY PassagesHold DEF Held
  <1>11. ASSUME Words(text, <<0, Len(text)>>) \cap Range(query) # {}, Cardinality(Range(query)) <= FewWords, MaxSpans > 0
         PROVE  \E k \in DOMAIN spans : Words(text, spans[k]) \cap Range(query) # {}
    <2>1. offer[1] \in chosen /\ Words(text, offer[1]) \cap Range(query) # {}
      BY <1>3, <1>4, <1>11
    <2>2. PICK k \in DOMAIN spans : spans[k] = offer[1]
      BY <1>6, <2>1 DEF Sorted, Range
    <2> QED BY <2>1, <2>2
  <1>12. SpansStand(text, query, spans)
    BY <1>7, <1>8, <1>9, <1>10, <1>11 DEF SpansStand
  <1> QED BY <1>2, <1>7, <1>12

(***************************************************************************)
(* The bounded texts and what is said of them (bounded_context_v3.py)      *)
(***************************************************************************)
LEMMA PlanRight ==
    ASSUME contextWish \in ContextRequests
    PROVE  /\ Budget \in Nat
           /\ Len(Processed) \in Nat /\ DOMAIN Processed = 1 .. Len(Processed)
           /\ \A i \in 1 .. Len(Processed) : Processed[i] \in Seq(STRING)
  <1> DEFINE pages == contextWish.pages
             n     == Min({MaxUrls, Len(pages)})
  <1>1. pages \in Seq(Seq(STRING)) /\ contextWish.maxUrls \in Int /\ contextWish.siteUrls \in Int /\ contextWish.budget \in Int
    BY ContextAssumption
  <1>2. Budget \in Nat
    <2> DEFINE m == Max({MinContext, contextWish.budget})
    <2>1. m \in Nat
      BY <1>1, ContextAssumption, LargerOf
    <2> HIDE DEF m
    <2>2. Min({MaxContext, m}) \in Nat
      BY <2>1, ContextAssumption, SmallerOf
    <2> QED BY <2>2 DEF Budget, m
  <1>3. MaxUrls \in Nat
    <2> DEFINE a == Max({1, contextWish.maxUrls})
               b == Max({1, contextWish.siteUrls})
               T == {a, b, HardMaxUrls}
    <2>1. a \in Nat /\ b \in Nat
      BY <1>1, LargerOf
    <2> HIDE DEF a, b
    <2>2. T \in SUBSET Nat /\ T # {}
      BY <2>1, ContextAssumption
    <2> HIDE DEF T
    <2>3. Min(T) \in Nat
      BY <2>2, MinOf
    <2> QED BY <2>3 DEF MaxUrls, T, a, b
  <1> HIDE DEF pages
  <1>4. n \in 0 .. Len(pages)
    <2>1. Len(pages) \in Nat
      BY <1>1
    <2>2. n \in Nat /\ n <= Len(pages)
      BY <1>3, <2>1, SmallerOf
    <2> QED BY <2>1, <2>2
  <1>5. Processed = SubSeq(pages, 1, n)
    BY DEF Processed, pages
  <1> HIDE DEF n
  <1>6. Processed \in Seq(Seq(STRING)) /\ Len(Processed) = n /\ DOMAIN Processed = 1 .. n
    BY <1>1, <1>4, <1>5, FirstItems
  <1>7. \A i \in 1 .. n : Processed[i] \in Seq(STRING)
    BY <1>6
  <1> QED BY <1>2, <1>4, <1>6, <1>7

\* One text is the first part of another.
Begins(a, b) ==
    /\ a \in Seq(STRING) /\ b \in Seq(STRING) /\ Len(a) \in Nat /\ Len(b) \in Nat /\ Len(a) <= Len(b)
    /\ \A j \in 1 .. Len(a) : a[j] = b[j]

LEMMA FirstPart ==
    ASSUME NEW text \in Seq(STRING), NEW m \in 0 .. Len(text)
    PROVE  Begins(SubSeq(text, 1, m), text) /\ Len(SubSeq(text, 1, m)) = m
  <1> DEFINE a == SubSeq(text, 1, m)
  <1>1. a \in Seq(STRING) /\ Len(a) = m /\ \A j \in 1 .. m : a[j] = text[j]
    BY FirstItems
  <1>2. Len(text) \in Nat /\ m <= Len(text) /\ m \in Nat
    OBVIOUS
  <1> HIDE DEF a
  <1>3. Begins(a, text) /\ Len(a) = m
    BY <1>1, <1>2 DEF Begins
  <1> QED BY <1>3 DEF a

LEMMA BeginsThrough ==
    ASSUME NEW a, NEW b, NEW c, Begins(a, b), Begins(b, c)
    PROVE  Begins(a, c)
  <1>1. \A j \in 1 .. Len(a) : j \in 1 .. Len(b)
    BY DEF Begins
  <1> QED BY <1>1 DEF Begins

\* Where one text ends another has had as many lines.
LEMMA LinesBefore ==
    ASSUME NEW a, NEW page, Begins(a, page), NEW j \in 1 .. Len(page), j > Len(a)
    PROVE  Newlines(a) \in Nat /\ Newlines(SubSeq(page, 1, j - 1)) \in Nat /\ Newlines(a) <= Newlines(SubSeq(page, 1, j - 1))
  <1> DEFINE m == j - 1
             b == SubSeq(page, 1, m)
             A == {i \in DOMAIN a : a[i] = Newline}
             B == {i \in DOMAIN b : b[i] = Newline}
  <1>1. a \in Seq(STRING) /\ page \in Seq(STRING) /\ Len(a) \in Nat /\ Len(page) \in Nat /\ \A i \in 1 .. Len(a) : a[i] = page[i]
    BY DEF Begins
  <1>2. m \in 0 .. Len(page) /\ m \in Nat /\ Len(a) <= m
    BY <1>1
  <1> HIDE DEF m
  <1>3. DOMAIN b = 1 .. m /\ \A i \in 1 .. m : b[i] = page[i]
    BY <1>1, <1>2, FirstItems
  <1> HIDE DEF b
  <1>4. DOMAIN a = 1 .. Len(a)
    BY <1>1
  <1>5. A \in SUBSET B /\ B \in SUBSET (1 .. m)
    <2>1. \A i \in 1 .. Len(a) : i \in 1 .. m
      BY <1>1, <1>2
    <2> QED BY <1>1, <1>3, <1>4, <2>1
  <1>6. Newlines(a) = Cardinality(A) /\ Newlines(b) = Cardinality(B)
    BY DEF Newlines
  <1> HIDE DEF A, B
  <1>7. IsFiniteSet(1 .. m)
    BY ONLY <1>2, FS_Interval
  <1>8. IsFiniteSet(B)
    BY <1>5, <1>7, FS_Subset
  <1>9. IsFiniteSet(A) /\ Cardinality(A) <= Cardinality(B)
    BY <1>5, <1>8, FS_Subset
  <1>10. Cardinality(A) \in Nat /\ Cardinality(B) \in Nat
    BY <1>8, <1>9, FS_CardinalityType
  <1>11. Newlines(a) \in Nat /\ Newlines(b) \in Nat /\ Newlines(a) <= Newlines(b)
    BY <1>6, <1>9, <1>10
  <1> QED BY <1>11 DEF b, m

\* What is handed out of a text is its first part.
LEMMA StrippedBegins ==
    ASSUME NEW text \in Seq(STRING)
    PROVE  Begins(Stripped(text, "right"), text)
  <1> DEFINE solid == Solid(text, 0, Len(text))
             m == IF solid = {} THEN 0 ELSE Max(solid) + 1
  <1>1. Len(text) \in Nat
    OBVIOUS
  <1>2. m \in 0 .. Len(text)
    <2>1. solid \in SUBSET Nat /\ \A i \in solid : i < Len(text)
      BY <1>1, SolidPlaces
    <2> HIDE DEF solid
    <2>2. CASE solid = {}
      BY <1>1, <2>2
    <2>3. CASE solid # {}
      <3>1. \A i \in solid : i \in 0 .. Len(text)
        BY <1>1, <2>1
      <3>2. solid \in SUBSET (0 .. Len(text))
        BY <3>1
      <3>3. Max(solid) \in solid
        BY <1>1, <2>3, <3>2, MaxOf
      <3>4. Max(solid) \in Nat /\ Max(solid) < Len(text)
        BY <2>1, <3>3
      <3> QED BY <1>1, <2>3, <3>4
    <2> QED BY <2>2, <2>3
  <1>3. Stripped(text, "right") = SubSeq(text, 1, m)
    BY DEF Stripped
  <1> HIDE DEF m
  <1> QED BY <1>2, <1>3, FirstPart

LEMMA HeadSizes == HeadChars \in Nat /\ TailChars \in Nat
  <1>1. HostLimit \in Nat /\ HostLimit > 1
    BY ContextAssumption
  <1>2. (2 * HostLimit) \div 3 \in Nat /\ HostLimit \div 5 \in Nat /\ HostLimit - 1 \in Nat /\ 1 \in Nat
    BY <1>1
  <1> DEFINE two == (2 * HostLimit) \div 3
             five == HostLimit \div 5
             a == Max({1, two})
             c == Max({1, five})
             d == Max({1, HostLimit - HeadChars})
  <1>3. HeadChars = Min({a, HostLimit - 1}) /\ TailChars = Min({c, d})
    BY DEF HeadChars, TailChars
  <1>4. two \in Int /\ five \in Int
    BY <1>2
  <1> HIDE DEF two, five
  <1>5. a \in Nat /\ c \in Nat
    BY <1>2, <1>4, LargerOf
  <1> HIDE DEF a, c
  <1>6. HeadChars \in Nat
    BY <1>2, <1>3, <1>5, SmallerOf
  <1>7. HostLimit - HeadChars \in Int
    BY <1>1, <1>6
  <1>8. d \in Nat
    BY <1>2, <1>7, LargerOf
  <1> HIDE DEF d
  <1>9. TailChars \in Nat
    BY <1>3, <1>5, <1>8, SmallerOf
  <1> QED BY <1>6, <1>9

LEMMA HeadBegins ==
    ASSUME NEW text \in Seq(STRING)
    PROVE  Begins(HeadAndTail(text).head, text)
  <1>1. Len(text) \in Nat
    OBVIOUS
  <1>2. CASE HeadChars + TailChars >= Len(text)
    <2>1. HeadAndTail(text).head = text
      BY <1>2 DEF HeadAndTail
    <2> QED BY <1>1, <2>1 DEF Begins
  <1>3. CASE ~(HeadChars + TailChars >= Len(text))
    <2> DEFINE s == SubSeq(text, 1, HeadChars)
    <2>1. HeadAndTail(text).head = Stripped(s, "right")
      BY <1>3 DEF HeadAndTail
    <2>2. HeadChars \in 0 .. Len(text)
      BY <1>1, <1>3, HeadSizes
    <2>3. Begins(s, text)
      BY <2>2, FirstPart
    <2>4. s \in Seq(STRING)
      BY <2>3 DEF Begins
    <2> HIDE DEF s
    <2>5. Begins(Stripped(s, "right"), s)
      BY <2>4, StrippedBegins
    <2>6. Begins(Stripped(s, "right"), text)
      BY <2>3, <2>5, BeginsThrough
    <2> QED BY <2>1, <2>6
  <1> QED BY <1>2, <1>3

\* Whoever follows what is said of a page reads all of it.
HandRight(page, text, t) ==
    IF t.file THEN
        /\ Unreachable(page, t) = {}
        /\ t.next # 0 => \A k \in Len(text) + 1 .. Len(page) : FileLine(page, k, 1) >= t.next
    ELSE ~t.told => t.head = page

LEMMA AllReachable ==
    ASSUME NEW page, NEW t, Begins(t.head, page), t.header \in 0 .. 1, t.offset = Newlines(t.head) + 1 + t.header
    PROVE  Unreachable(page, t) = {}
  <1> DEFINE head == t.head
             h == t.header
  <1>1. DOMAIN page = 1 .. Len(page)
    BY DEF Begins
  <1>2. ASSUME NEW i \in DOMAIN page, i > Len(head) PROVE ~(FileLine(page, i, h) < t.offset)
    <2> DEFINE a == Newlines(head)
               b == Newlines(SubSeq(page, 1, i - 1))
    <2>1. a \in Nat /\ b \in Nat /\ a <= b
      BY <1>1, <1>2, LinesBefore
    <2>2. FileLine(page, i, h) = b + 1 + h /\ t.offset = a + 1 + h /\ h \in 0 .. 1
      BY DEF FileLine
    <2> HIDE DEF a, b, h
    <2> QED BY <2>1, <2>2
  <1> QED BY <1>2 DEF Unreachable

LEMMA CutTold ==
    ASSUME NEW page, NEW text, Begins(text, page), NEW hasFile \in BOOLEAN
    PROVE  HandRight(page, text, ToldOfCut(text, hasFile))
  <1> DEFINE long  == Len(text) > HostLimit
             parts == IF long THEN HeadAndTail(text) ELSE [head |-> text, tail |-> <<>>]
             line  == (IF long THEN Newlines(parts.head) ELSE Newlines(text)) + 1
             t     == [head |-> parts.head, tail |-> parts.tail, file |-> hasFile, header |-> 1, offset |-> line + 1,
                       next |-> IF parts.tail = <<>> THEN 0 ELSE Newlines(text) + 2, told |-> TRUE]
  <1>1. ToldOfCut(text, hasFile) = t
    BY DEF ToldOfCut
  <1>2. text \in Seq(STRING) /\ Len(text) \in Nat /\ Len(page) \in Nat /\ page \in Seq(STRING)
    BY DEF Begins
  <1>3. Begins(parts.head, page) /\ line = Newlines(parts.head) + 1
    <2>1. CASE long
      <3>1. parts = HeadAndTail(text)
        BY <2>1
      <3>2. Begins(HeadAndTail(text).head, text)
        BY <1>2, HeadBegins
      <3>3. Begins(HeadAndTail(text).head, page)
        BY <3>2, BeginsThrough
      <3> HIDE DEF parts
      <3> QED BY <2>1, <3>1, <3>3
    <2>2. CASE ~long
      <3>1. parts.head = text
        BY <2>2
      <3> HIDE DEF parts
      <3> QED BY <2>2, <3>1
    <2> QED BY <2>1, <2>2
  <1> DEFINE head == parts.head
             next == IF parts.tail = <<>> THEN 0 ELSE Newlines(text) + 2
  <1>4. t.head = head /\ t.header = 1 /\ t.offset = line + 1 /\ t.next = next /\ t.file = hasFile /\ t.told
    OBVIOUS
  <1>5. next # 0 => next = Newlines(text) + 2
    OBVIOUS
  <1>6. Begins(head, page) /\ line = Newlines(head) + 1
    BY <1>3
  <1> HIDE DEF t, head, next, line, parts
  <1>7. Unreachable(page, t) = {}
    <2>1. CASE Len(head) < Len(page)
      <3>1. Len(page) \in 1 .. Len(page) /\ Len(page) > Len(head)
        BY <1>2, <2>1, <1>6 DEF Begins
      <3>2. Newlines(head) \in Nat
        BY <1>6, <3>1, LinesBefore
      <3>3. t.offset = Newlines(t.head) + 1 + t.header
        BY <1>4, <1>6, <3>2
      <3> QED BY <1>4, <1>6, <3>3, AllReachable
    <2>2. CASE ~(Len(head) < Len(page))
      <3>1. \A i \in DOMAIN page : ~(i > Len(t.head))
        BY <1>2, <1>4, <1>6, <2>2 DEF Begins
      <3> QED BY <3>1 DEF Unreachable
    <2> QED BY <2>1, <2>2
  <1>8. ASSUME t.next # 0, NEW k \in Len(text) + 1 .. Len(page) PROVE FileLine(page, k, 1) >= t.next
    <2> DEFINE a == Newlines(text)
               b == Newlines(SubSeq(page, 1, k - 1))
    <2>1. k \in 1 .. Len(page) /\ k > Len(text)
      BY <1>2
    <2>2. a \in Nat /\ b \in Nat /\ a <= b
      BY <2>1, LinesBefore
    <2>3. FileLine(page, k, 1) = b + 1 + 1 /\ t.next = a + 2
      BY <1>4, <1>5, <1>8 DEF FileLine
    <2> HIDE DEF a, b
    <2> QED BY <2>2, <2>3
  <1>9. HandRight(page, text, t)
    BY <1>4, <1>7, <1>8 DEF HandRight
  <1> QED BY <1>1, <1>9

LEMMA LongTold ==
    ASSUME NEW page \in Seq(STRING), NEW hasFile \in BOOLEAN
    PROVE  HandRight(page, page, ToldOfLong(page, hasFile))
  <1> DEFINE parts == HeadAndTail(page)
             head  == parts.head
             t     == [head |-> parts.head, tail |-> parts.tail, file |-> hasFile, header |-> 0, offset |-> Newlines(parts.head) + 1,
                       next |-> 0, told |-> TRUE]
  <1>1. ToldOfLong(page, hasFile) = t
    BY DEF ToldOfLong
  <1>2. Begins(head, page)
    BY HeadBegins
  <1>3. t.head = head /\ t.header = 0 /\ t.offset = Newlines(head) + 1 /\ t.next = 0 /\ t.file = hasFile /\ t.told
    OBVIOUS
  <1> HIDE DEF t, head
  <1>4. Unreachable(page, t) = {}
    <2>1. CASE Len(head) < Len(page)
      <3>1. Len(page) \in 1 .. Len(page) /\ Len(page) > Len(head)
        BY <1>2, <2>1 DEF Begins
      <3>2. Newlines(head) \in Nat
        BY <1>2, <3>1, LinesBefore
      <3>3. t.offset = Newlines(t.head) + 1 + t.header
        BY <1>3, <3>2
      <3> QED BY <1>2, <1>3, <3>3, AllReachable
    <2>2. CASE ~(Len(head) < Len(page))
      <3>1. \A i \in DOMAIN page : ~(i > Len(t.head))
        BY <1>2, <1>3, <2>2 DEF Begins
      <3> QED BY <3>1 DEF Unreachable
    <2> QED BY <2>1, <2>2
  <1>5. HandRight(page, page, t)
    BY <1>3, <1>4 DEF HandRight
  <1> QED BY <1>1, <1>5

\* The passages of page i that are told of.
SpansShown(i) ==
    /\ SpansStand(Processed[i], contextWish.query, [k \in DOMAIN bounded.spans[i] |-> bounded.spans[i][k].range])
    /\ \A k \in DOMAIN bounded.spans[i] :
          bounded.spans[i][k].within <=> bounded.spans[i][k].range[2] <= Len(bounded.texts[i])

\* A response whose texts are cut to fair shares; which were cut is known from it.
BoundedRight ==
    /\ DOMAIN bounded.texts = 1 .. Len(Processed)
    /\ bounded.shares \in [1 .. Len(Processed) -> Nat]
    /\ SharesFair([i \in 1 .. Len(Processed) |-> Len(Processed[i])], bounded.shares, Budget)
    /\ \A i \in 1 .. Len(Processed) :
          /\ Begins(bounded.texts[i], Processed[i]) /\ Len(bounded.texts[i]) = bounded.shares[i]
          /\ bounded.shares[i] = Len(Processed[i]) => bounded.texts[i] = Processed[i]
    /\ \A i : i \in DOMAIN bounded.stored <=> i \in 1 .. Len(Processed) /\ Len(Processed[i]) > bounded.shares[i]
    /\ \A i \in DOMAIN bounded.stored : bounded.stored[i] \in BOOLEAN
    /\ bounded.status = IF Omitted > 0 \/ DOMAIN bounded.stored # {} THEN "degraded" ELSE "ok"
    /\ Omitted > 0 => "urls_omitted" \in bounded.warnings
    /\ DOMAIN bounded.stored # {} => "truncated" \in bounded.warnings
    /\ contextWish.spans => \A i \in 1 .. Len(Processed) : SpansShown(i)

\* What was handed out of it.
HandedRight ==
    \A i \in DOMAIN handed : i \in 1 .. Len(Processed) /\ HandRight(Processed[i], bounded.texts[i], handed[i])

ContextInv ==
    /\ contextWish \in ContextRequests
    /\ bounded.status = "none" => handed = <<>>
    /\ bounded.status # "none" => BoundedRight /\ HandedRight

LEMMA SamePlan ==
    ASSUME contextWish' = contextWish
    PROVE  Processed' = Processed /\ Budget' = Budget /\ Omitted' = Omitted
  <1>1. Processed' = Processed
    BY DEF Processed, MaxUrls
  <1>2. Budget' = Budget
    BY DEF Budget
  <1>3. Omitted' = Omitted
    BY <1>1 DEF Omitted
  <1> QED BY <1>1, <1>2, <1>3

LEMMA SameBounded ==
    ASSUME UNCHANGED <<contextWish, bounded>>
    PROVE  BoundedRight' = BoundedRight
  <1>1. Processed' = Processed /\ Budget' = Budget /\ Omitted' = Omitted /\ contextWish' = contextWish /\ bounded' = bounded
    BY SamePlan
  <1>2. ASSUME NEW i PROVE SpansShown(i)' = SpansShown(i)
    BY <1>1 DEF SpansShown
  <1> QED BY <1>1, <1>2 DEF BoundedRight

\* The passages that come with a page, of which some are in the part that is shown.
LEMMA ShownSpans ==
    ASSUME NEW page \in Seq(STRING), NEW query, QueryOf(query), NEW shown
    PROVE  LET spans == InView(SelectSpans(page, query), shown) IN
           /\ SpansStand(page, query, [k \in DOMAIN spans |-> spans[k].range])
           /\ \A k \in DOMAIN spans : spans[k].within <=> spans[k].range[2] <= shown
  <1> DEFINE chosen == SelectSpans(page, query)
             spans  == InView(chosen, shown)
             n      == Len(chosen)
  <1>1. SpansStand(page, query, chosen) /\ n \in Nat /\ chosen = [k \in 1 .. n |-> chosen[k]]
    <2>1. Len(page) \in Nat
      OBVIOUS
    <2> QED BY <2>1, SpansAreRight
  <1> HIDE DEF chosen
  <1>2. spans = [k \in DOMAIN chosen |-> [range |-> chosen[k], within |-> chosen[k][2] <= shown]]
    BY DEF InView
  <1> HIDE DEF spans, n
  <1>3. DOMAIN chosen = 1 .. n
    BY <1>1
  <1>4. DOMAIN spans = 1 .. n /\ \A k \in 1 .. n : spans[k].range = chosen[k] /\ (spans[k].within <=> chosen[k][2] <= shown)
    BY <1>2, <1>3
  <1>5. [k \in DOMAIN spans |-> spans[k].range] = chosen
    BY <1>1, <1>4
  <1>6. \A k \in DOMAIN spans : spans[k].within <=> spans[k].range[2] <= shown
    BY <1>4
  <1>7. SpansStand(page, query, [k \in DOMAIN spans |-> spans[k].range])
    BY <1>1, <1>5
  <1> QED BY <1>6, <1>7 DEF spans, chosen

LEMMA BoundAll == ASSUME ContextInv, Bound PROVE ContextInv'
  <1> DEFINE pages   == Processed
             n       == Len(pages)
             lengths == [i \in DOMAIN pages |-> Len(pages[i])]
             shares  == FairShares(lengths, Budget)
             cut     == {i \in DOMAIN pages : Len(pages[i]) > shares[i]}
             texts   == [i \in DOMAIN pages |-> SubSeq(pages[i], 1, shares[i])]
             shown(i) == Min({Len(pages[i]), shares[i]})
             spans   == [i \in DOMAIN pages |->
                            IF ~contextWish.spans THEN <<>>
                            ELSE InView(SelectSpans(pages[i], contextWish.query), shown(i))]
             status  == IF Omitted > 0 \/ cut # {} THEN "degraded" ELSE "ok"
  <1>1. contextWish \in ContextRequests /\ handed = <<>>
    BY DEF ContextInv, Bound
  <1>2. contextWish' = contextWish /\ handed' = handed
    BY DEF Bound
  <1>3. Processed' = Processed /\ Budget' = Budget /\ Omitted' = Omitted
    BY <1>2, SamePlan
  <1>4. /\ Budget \in Nat /\ n \in Nat /\ DOMAIN pages = 1 .. n
        /\ \A i \in 1 .. n : pages[i] \in Seq(STRING)
    BY <1>1, PlanRight
  <1>5. PICK kept \in SUBSET cut :
             bounded' = [texts  |-> texts, shares |-> shares, spans  |-> spans, stored |-> [i \in cut |-> i \in kept],
                         status |-> status,
                         warnings |-> (IF Omitted > 0 THEN {"urls_omitted"} ELSE {})
                                 \cup (IF cut # {} THEN {"truncated"} ELSE {})
                                 \cup (IF cut # kept THEN {"full_text_unavailable"} ELSE {})]
    BY DEF Bound
  <1>6. /\ bounded'.texts = texts /\ bounded'.shares = shares /\ bounded'.spans = spans
        /\ bounded'.stored = [i \in cut |-> i \in kept] /\ bounded'.status = status
        /\ Omitted > 0 => "urls_omitted" \in bounded'.warnings
        /\ cut # {} => "truncated" \in bounded'.warnings
    <2> HIDE DEF texts, shares, spans, status, cut
    <2> QED BY <1>5
  <1> HIDE DEF pages, n
  <1>7. lengths = [i \in 1 .. n |-> Len(pages[i])] /\ lengths \in [1 .. n -> Nat]
    BY <1>4
  <1> HIDE DEF lengths
  <1>8. shares \in [1 .. n -> Nat] /\ SharesFair(lengths, shares, Budget)
    BY <1>4, <1>7, SharesAreFair
  <1> HIDE DEF shares
  <1>9. ASSUME NEW i \in 1 .. n PROVE shares[i] \in Nat /\ shares[i] <= Len(pages[i]) /\ Len(pages[i]) \in Nat /\ pages[i] \in Seq(STRING)
    BY <1>4, <1>7, <1>8 DEF SharesFair
  <1>10. ASSUME NEW i \in 1 .. n
         PROVE  /\ texts[i] = SubSeq(pages[i], 1, shares[i])
                /\ Begins(texts[i], pages[i]) /\ Len(texts[i]) = shares[i]
                /\ shares[i] = Len(pages[i]) => texts[i] = pages[i]
    <2> DEFINE page == pages[i]
               m    == shares[i]
    <2>1. texts[i] = SubSeq(page, 1, m)
      BY <1>4
    <2>2. m \in 0 .. Len(page) /\ page \in Seq(STRING)
      BY <1>9
    <2> HIDE DEF page, m
    <2>3. Begins(SubSeq(page, 1, m), page) /\ Len(SubSeq(page, 1, m)) = m
      BY <2>2, FirstPart
    <2>4. m = Len(page) => SubSeq(page, 1, m) = page
      BY <2>2, FirstItems
    <2> HIDE DEF texts
    <2>5. /\ texts[i] = SubSeq(page, 1, m)
          /\ Begins(texts[i], page) /\ Len(texts[i]) = m
          /\ m = Len(page) => texts[i] = page
      BY <2>1, <2>3, <2>4
    <2> QED BY <2>5 DEF page, m
  <1>11. DOMAIN texts = 1 .. n /\ DOMAIN spans = 1 .. n
    BY <1>4
  <1>12. ASSUME contextWish.spans, NEW i \in 1 .. n
         PROVE  /\ SpansStand(pages[i], contextWish.query, [k \in DOMAIN spans[i] |-> spans[i][k].range])
                /\ \A k \in DOMAIN spans[i] : spans[i][k].within <=> spans[i][k].range[2] <= Len(texts[i])
    <2> DEFINE page == pages[i]
               m    == shown(i)
               mine == InView(SelectSpans(page, contextWish.query), m)
    <2>1. spans[i] = mine
      BY <1>4, <1>12
    <2>2. m = Len(texts[i])
      <3> DEFINE a == Len(pages[i])
                 b == shares[i]
      <3>1. a \in Nat /\ b \in Nat /\ b <= a /\ Len(texts[i]) = b
        BY <1>9, <1>10
      <3>2. m = Min({a, b})
        OBVIOUS
      <3> HIDE DEF a, b
      <3>3. Min({a, b}) = b
        <4> DEFINE least == Min({a, b})
        <4>0. \A x, y \in Nat : y <= x => Min({x, y}) = y
          BY ONLY SmallerIs
        <4>2. least = b
          BY ONLY <3>1, <4>0
        <4> QED BY <4>2 DEF least
      <3> HIDE DEF m, texts
      <3> QED BY <3>1, <3>2, <3>3
    <2>3. page \in Seq(STRING)
      BY <1>9
    <2> HIDE DEF m, page, texts, spans
    <2>4. /\ SpansStand(page, contextWish.query, [k \in DOMAIN mine |-> mine[k].range])
          /\ \A k \in DOMAIN mine : mine[k].within <=> mine[k].range[2] <= m
      <3>1. contextWish.query \in Seq(STRING)
        BY <1>1, ContextAssumption
      <3>2. QueryOf(contextWish.query)
        <4> DEFINE q == contextWish.query
        <4> HIDE DEF q
        <4>1. ASSUME q \in Seq(STRING) PROVE QueryOf(q)
          BY <4>1 DEF QueryOf
        <4> QED BY <3>1, <4>1 DEF q
      <3> QED BY <2>3, <3>2, ShownSpans
    <2> HIDE DEF mine
    <2>5. /\ SpansStand(page, contextWish.query, [k \in DOMAIN spans[i] |-> spans[i][k].range])
          /\ \A k \in DOMAIN spans[i] : spans[i][k].within <=> spans[i][k].range[2] <= Len(texts[i])
      BY <2>1, <2>2, <2>4
    <2> QED BY <2>5 DEF page
  <1>13. /\ \A i : i \in DOMAIN bounded'.stored <=> i \in 1 .. n /\ Len(pages[i]) > shares[i]
         /\ \A i \in DOMAIN bounded'.stored : bounded'.stored[i] \in BOOLEAN
         /\ DOMAIN bounded'.stored = cut
    <2>1. bounded'.stored = [i \in cut |-> i \in kept]
      BY <1>6
    <2>2. \A i : i \in cut <=> i \in 1 .. n /\ Len(pages[i]) > shares[i]
      BY <1>4
    <2> HIDE DEF cut
    <2>3. DOMAIN bounded'.stored = cut /\ \A i \in cut : bounded'.stored[i] = (i \in kept)
      BY <2>1
    <2>4. ASSUME NEW i \in cut PROVE bounded'.stored[i] \in BOOLEAN
      <3>1. bounded'.stored[i] = (i \in kept)
        BY <2>3
      <3>2. (i \in kept) \in BOOLEAN
        OBVIOUS
      <3> QED BY <3>1, <3>2, Zenon
    <2> QED BY <2>2, <2>3, <2>4
  <1> HIDE DEF cut, texts, spans
  <1>14. bounded'.status = IF Omitted > 0 \/ DOMAIN bounded'.stored # {} THEN "degraded" ELSE "ok"
    BY <1>6, <1>13
  <1>15. Processed' = pages /\ Len(Processed') = n
    BY <1>3 DEF pages, n
  <1>16. contextWish.spans => \A i \in 1 .. n : SpansShown(i)'
    BY <1>2, <1>6, <1>12, <1>15 DEF SpansShown
  <1>17. BoundedRight'
    <2>1. DOMAIN bounded'.texts = 1 .. n /\ bounded'.shares \in [1 .. n -> Nat]
      BY <1>6, <1>8, <1>11
    <2>2. SharesFair([i \in 1 .. n |-> Len(pages[i])], bounded'.shares, Budget')
      BY <1>3, <1>6, <1>7, <1>8
    <2>3. \A i \in 1 .. n :
              /\ Begins(bounded'.texts[i], pages[i]) /\ Len(bounded'.texts[i]) = bounded'.shares[i]
              /\ bounded'.shares[i] = Len(pages[i]) => bounded'.texts[i] = pages[i]
      BY <1>6, <1>10
    <2>4. \A i : i \in DOMAIN bounded'.stored <=> i \in 1 .. n /\ Len(pages[i]) > bounded'.shares[i]
      BY <1>6, <1>13
    <2>5. /\ Omitted' > 0 => "urls_omitted" \in bounded'.warnings
          /\ DOMAIN bounded'.stored # {} => "truncated" \in bounded'.warnings
          /\ bounded'.status = IF Omitted' > 0 \/ DOMAIN bounded'.stored # {} THEN "degraded" ELSE "ok"
      BY <1>3, <1>6, <1>13, <1>14
    <2>6. contextWish'.spans => \A i \in 1 .. n : SpansShown(i)'
      BY <1>2, <1>16
    <2>7. \A i \in DOMAIN bounded'.stored : bounded'.stored[i] \in BOOLEAN
      BY <1>13
    <2> QED BY <1>15, <2>1, <2>2, <2>3, <2>4, <2>5, <2>6, <2>7 DEF BoundedRight
  <1>18. HandedRight'
    <2>1. handed' = <<>>
      BY <1>1, <1>2
    <2> QED BY <2>1 DEF HandedRight
  <1>19. contextWish' \in ContextRequests /\ bounded'.status # "none"
    BY <1>1, <1>2, <1>6
  <1> QED BY <1>17, <1>18, <1>19 DEF ContextInv

LEMMA TellAll == ASSUME ContextInv, TellPages PROVE ContextInv'
  <1>1. UNCHANGED <<contextWish, bounded>> /\ bounded.status # "none" /\ BoundedRight /\ contextWish \in ContextRequests
    BY DEF ContextInv, TellPages
  <1>2. Processed' = Processed
    BY <1>1, SamePlan
  <1>3. BoundedRight'
    BY <1>1, SameBounded
  <1>4. PICK hostFiles \in SUBSET DOMAIN bounded.texts :
          handed' = [i \in DOMAIN bounded.texts |->
                      IF i \in DOMAIN bounded.stored THEN ToldOfCut(bounded.texts[i], bounded.stored[i])
                      ELSE IF Len(bounded.texts[i]) <= HostLimit
                           THEN [head |-> bounded.texts[i], tail |-> <<>>, file |-> FALSE, header |-> 0, offset |-> 0, next |-> 0, told |-> FALSE]
                      ELSE ToldOfLong(bounded.texts[i], i \in hostFiles)]
    BY DEF TellPages
  <1> DEFINE n == Len(Processed)
  <1>5. DOMAIN bounded.texts = 1 .. n
    BY <1>1 DEF BoundedRight
  <1>6. ASSUME NEW i \in 1 .. n PROVE HandRight(Processed[i], bounded.texts[i], handed'[i])
    <2> DEFINE page == Processed[i]
               text == bounded.texts[i]
               plain == [head |-> text, tail |-> <<>>, file |-> FALSE, header |-> 0, offset |-> 0, next |-> 0, told |-> FALSE]
    <2>1. handed'[i] = IF i \in DOMAIN bounded.stored THEN ToldOfCut(text, bounded.stored[i])
                       ELSE IF Len(text) <= HostLimit THEN plain ELSE ToldOfLong(text, i \in hostFiles)
      BY <1>4, <1>5
    <2>2. /\ Begins(text, page) /\ page \in Seq(STRING)
          /\ i \in DOMAIN bounded.stored <=> Len(page) > bounded.shares[i]
          /\ bounded.shares[i] = Len(page) => text = page
          /\ i \in DOMAIN bounded.stored => bounded.stored[i] \in BOOLEAN
          /\ bounded.shares[i] \in Nat /\ Len(page) \in Nat /\ Len(text) = bounded.shares[i] /\ Len(text) <= Len(page)
      BY <1>1 DEF BoundedRight, Begins
    <2> HIDE DEF page, text
    <2>3. CASE i \in DOMAIN bounded.stored
      <3>1. handed'[i] = ToldOfCut(text, bounded.stored[i])
        BY <2>1, <2>3
      <3> QED BY <2>2, <2>3, <3>1, CutTold DEF page, text
    <2>4. CASE i \notin DOMAIN bounded.stored
      <3>1. text = page
        BY <2>2, <2>4
      <3>2. CASE Len(text) <= HostLimit
        <4>1. handed'[i] = plain
          BY <2>1, <2>4, <3>2
        <4>2. ~plain.file /\ plain.head = text
          OBVIOUS
        <4> HIDE DEF plain
        <4>3. HandRight(page, text, handed'[i])
          BY <3>1, <4>1, <4>2 DEF HandRight
        <4> QED BY <4>3 DEF page, text
      <3>3. CASE ~(Len(text) <= HostLimit)
        <4> DEFINE has == i \in hostFiles
        <4>1. handed'[i] = ToldOfLong(text, has)
          BY <2>1, <2>4, <3>3
        <4>2. has \in BOOLEAN
          OBVIOUS
        <4> HIDE DEF has, plain
        <4>3. HandRight(page, page, ToldOfLong(page, has))
          BY <2>2, <4>2, LongTold
        <4>4. HandRight(page, text, handed'[i])
          BY <3>1, <4>1, <4>3
        <4> QED BY <4>4 DEF page, text
      <3> QED BY <3>2, <3>3
    <2> QED BY <2>3, <2>4
  <1>7. DOMAIN handed' = 1 .. n
    BY <1>4, <1>5
  <1>8. HandedRight'
    BY <1>1, <1>2, <1>6, <1>7 DEF HandedRight
  <1> QED BY <1>1, <1>3, <1>8 DEF ContextInv

LEMMA ContextStarts == ContextInit => ContextInv
  BY DEF ContextInit, ContextInv, Unbounded

LEMMA ContextSteps == ContextInv /\ [ContextNext]_contextvars => ContextInv'
  <1> SUFFICES ASSUME ContextInv, [ContextNext]_contextvars PROVE ContextInv'
    OBVIOUS
  <1>1. CASE Bound
    BY <1>1, BoundAll
  <1>2. CASE TellPages
    BY <1>2, TellAll
  <1>3. CASE UNCHANGED contextvars
    <2>1. UNCHANGED <<contextWish, bounded>> /\ handed' = handed
      BY <1>3 DEF contextvars
    <2>2. Processed' = Processed /\ BoundedRight' = BoundedRight
      BY <2>1, SamePlan, SameBounded
    <2>3. HandedRight' = HandedRight
      BY <2>1, <2>2 DEF HandedRight
    <2> QED BY <2>1, <2>2, <2>3 DEF ContextInv
  <1> QED BY <1>1, <1>2, <1>3 DEF ContextNext

LEMMA ContextInvariantSound == ContextInv => ContextSound
  <1> SUFFICES ASSUME ContextInv, bounded.status # "none" PROVE ContextSound
    BY DEF ContextSound
  <1> DEFINE n == Len(Processed)
  <1>1. BoundedRight /\ HandedRight /\ contextWish \in ContextRequests
    BY DEF ContextInv
  <1>2. DOMAIN bounded.texts = 1 .. n /\ \A i \in 1 .. n : Processed[i] \in Seq(STRING)
    BY <1>1, PlanRight DEF BoundedRight
  <1>3. SharesFair([i \in DOMAIN bounded.texts |-> Len(Processed[i])], bounded.shares, Budget)
    BY <1>1, <1>2 DEF BoundedRight
  <1>4. ASSUME NEW i \in 1 .. n PROVE bounded.texts[i] # Processed[i] <=> i \in DOMAIN bounded.stored
    <2> DEFINE page == Processed[i]
               text == bounded.texts[i]
               m    == bounded.shares[i]
    <2>1. /\ i \in DOMAIN bounded.stored <=> Len(page) > m
          /\ m = Len(page) => text = page
          /\ m \in Nat /\ Len(page) \in Nat /\ Len(text) = m /\ Len(text) <= Len(page)
      BY <1>1 DEF BoundedRight, Begins
    <2> HIDE DEF page, text, m
    <2>2. text # page <=> i \in DOMAIN bounded.stored
      BY <2>1
    <2> QED BY <2>2 DEF page, text
  <1>5. (bounded.status = "degraded") <=> (Omitted > 0 \/ \E i \in DOMAIN bounded.texts : bounded.texts[i] # Processed[i])
    <2>1. \A i \in DOMAIN bounded.stored : i \in 1 .. n
      BY <1>1 DEF BoundedRight
    <2>2. DOMAIN bounded.stored # {} <=> \E i \in DOMAIN bounded.texts : bounded.texts[i] # Processed[i]
      BY <1>2, <1>4, <2>1
    <2>3. bounded.status = IF Omitted > 0 \/ DOMAIN bounded.stored # {} THEN "degraded" ELSE "ok"
      BY <1>1 DEF BoundedRight
    <2> QED BY <2>2, <2>3
  <1>6. bounded.status = "degraded" => bounded.warnings \cap {"urls_omitted", "truncated"} # {}
    BY <1>1 DEF BoundedRight
  <1>7. contextWish.spans => \A i \in DOMAIN bounded.texts :
              /\ SpansStand(Processed[i], contextWish.query, [k \in DOMAIN bounded.spans[i] |-> bounded.spans[i][k].range])
              /\ \A k \in DOMAIN bounded.spans[i] :
                    bounded.spans[i][k].within <=> bounded.spans[i][k].range[2] <= Len(bounded.texts[i])
    BY <1>1, <1>2 DEF BoundedRight, SpansShown
  <1>8. \A i \in DOMAIN handed :
              IF handed[i].file THEN
                  /\ Unreachable(Processed[i], handed[i]) = {}
                  /\ handed[i].next # 0 => \A k \in Len(bounded.texts[i]) + 1 .. Len(Processed[i]) :
                                           FileLine(Processed[i], k, 1) >= handed[i].next
              ELSE ~handed[i].told => handed[i].head = Processed[i]
    BY <1>1 DEF HandedRight, HandRight
  <1> QED BY <1>3, <1>5, <1>6, <1>7, <1>8 DEF ContextSound

\* A page is cut only as far as the budget demands, and never silently; the passages told of
\* are apart and in the text, and one of them has a word of a short query if the page has one;
\* and whoever follows the hints of a page whose text was stored reads all of it
\* (apply_bounded_context, _web_extract_tool).
THEOREM ContextIsSound == ContextSpec => []ContextSound
  <1>1. ContextSpec => []ContextInv
    BY ContextStarts, ContextSteps, PTL DEF ContextSpec
  <1> QED BY <1>1, ContextInvariantSound, PTL
=============================================================================
