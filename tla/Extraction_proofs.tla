--------------------------- MODULE Extraction_proofs ---------------------------
(***************************************************************************)
(* What holds along the way of an extracted page: the attempt that fetches a  *)
(* batch of pages, which item of its answer belongs to which page, and what    *)
(* reaches the caller, from the providers or from the cache; of the response   *)
(* made of what several providers found; and of the latencies that a search   *)
(* waits by.                                                                *)
(***************************************************************************)
EXTENDS ExtractMatching, ExtractBatch, ExtractDelivery, ResponseProjection, LatencyStats, FiniteSetTheorems, NaturalsInduction, WellFoundedInduction, TLAPS

(***************************************************************************)
(* Numbers and lists                                                       *)
(***************************************************************************)
\* A nonempty set of numbers up to a limit has a greatest one.
LEMMA Greatest ==
    ASSUME NEW limit \in Nat, NEW S \in SUBSET (0 .. limit), S # {}
    PROVE  \E v \in S : \A w \in S : v >= w
  <1> DEFINE below == {limit - v : v \in S}
  <1>0. \A v \in S : v \in 0 .. limit /\ limit - v \in Nat
    OBVIOUS
  <1>1. below \in SUBSET Nat /\ below # {}
    BY <1>0
  <1> HIDE DEF below
  <1>2. PICK p \in below : \A q \in below : <<q, p>> \notin OpToRel(<, Nat)
    BY <1>1, NatLessThanWellFounded, WFMin
  <1>3. \A q \in below : ~ (q < p)
    BY <1>1, <1>2, Zenon DEF OpToRel
  <1>4. \A q \in below : p <= q
    BY <1>1, <1>3
  <1>5. PICK v \in S : p = limit - v
    BY DEF below
  <1>6. \A w \in S : v >= w
    BY <1>4, <1>5 DEF below
  <1> QED BY <1>6

\* One item more at the end of a list.
LEMMA AppendItems ==
    ASSUME NEW N, NEW s \in Seq(N), NEW x \in N
    PROVE  /\ Append(s, x) \in Seq(N) /\ Len(Append(s, x)) = Len(s) + 1
           /\ DOMAIN Append(s, x) = 1 .. Len(s) + 1 /\ Append(s, x)[Len(s) + 1] = x
           /\ \A i \in 1 .. Len(s) : Append(s, x)[i] = s[i]
  OBVIOUS

\* Lists with the same items are the same.
LEMMA SameItems ==
    ASSUME NEW N, NEW s \in Seq(N), NEW t \in Seq(N), DOMAIN s = DOMAIN t, \A i \in DOMAIN s : s[i] = t[i]
    PROVE  s = t
  <1>1. s = [i \in DOMAIN s |-> s[i]] /\ t = [i \in DOMAIN t |-> t[i]]
    OBVIOUS
  <1> QED BY <1>1

\* A nonempty set of numbers has a least one.
LEMMA Least ==
    ASSUME NEW S \in SUBSET Nat, S # {}
    PROVE  \E v \in S : \A w \in S : v <= w
  <1>1. PICK v \in S : \A w \in S : <<w, v>> \notin OpToRel(<, Nat)
    BY NatLessThanWellFounded, WFMin
  <1>2. \A w \in S : ~ (w < v)
    BY <1>1, Zenon DEF OpToRel
  <1> QED BY <1>2

\* Induction, with a set in the place of the predicate.
LEMMA InductionTo ==
    ASSUME NEW n \in Nat, NEW S, 0 \in S, \A k \in 0 .. n - 1 : k \in S => k + 1 \in S
    PROVE  \A k \in 0 .. n : k \in S
  <1> DEFINE out == {k \in 0 .. n : k \notin S}
  <1> SUFFICES ASSUME out # {} PROVE FALSE
    OBVIOUS
  <1>1. out \in SUBSET Nat
    OBVIOUS
  <1>2. PICK v \in out : \A w \in out : v <= w
    <2> HIDE DEF out
    <2> QED BY <1>1, Least
  <1>3. v \in 0 .. n /\ v \notin S /\ v # 0
    BY <1>2
  <1>4. v - 1 \in 0 .. n - 1 /\ v - 1 \notin out
    BY <1>2, <1>3
  <1>5. v - 1 \in S
    BY <1>4
  <1>6. (v - 1) + 1 \in S
    BY <1>4, <1>5
  <1> QED BY <1>3, <1>6

\* f holds the results of n steps from b, one after the other.
Computes(n, A, b, g, f) == f \in [0 .. n -> A] /\ f[0] = b /\ \A k \in 1 .. n : f[k] = g[k][f[k - 1]]

\* A computation in n steps exists.
LEMMA Recursion ==
    ASSUME NEW n \in Nat, NEW A, NEW b \in A, NEW g \in [1 .. n -> [A -> A]]
    PROVE  \E f : Computes(n, A, b, g, f)
  <1> DEFINE Part(k, f) == f \in [0 .. k -> A] /\ f[0] = b /\ \A i \in 1 .. k : f[i] = g[i][f[i - 1]]
             S == {k \in 0 .. n : \E f : Part(k, f)}
  <1>1. 0 \in S
    <2> DEFINE f == [i \in 0 .. 0 |-> b]
    <2>1. 0 .. 0 = {0} /\ 1 .. 0 = {}
      OBVIOUS
    <2>2. Part(0, f)
      BY <2>1
    <2> HIDE DEF Part, f
    <2> QED BY <2>2
  <1>2. ASSUME NEW k \in 0 .. n - 1, k \in S PROVE k + 1 \in S
    <2>1. PICK f : Part(k, f)
      BY <1>2
    <2>2. k + 1 \in 1 .. n /\ k \in 0 .. k /\ k + 1 \in 0 .. n
      OBVIOUS
    <2>3. f[k] \in A
      BY <2>1, <2>2
    <2>4. g[k + 1][f[k]] \in A
      BY <2>2, <2>3
    <2> DEFINE next == g[k + 1][f[k]]
               h == [i \in 0 .. k + 1 |-> IF i = k + 1 THEN next ELSE f[i]]
    <2>5. next \in A
      BY <2>4
    <2> HIDE DEF next
    <2>6. h \in [0 .. k + 1 -> A] /\ h[0] = b
      BY <2>1, <2>2, <2>5
    <2>7. ASSUME NEW i \in 1 .. k + 1 PROVE h[i] = g[i][h[i - 1]]
      <3>1. CASE i = k + 1
        <4>1. h[i] = next /\ h[i - 1] = f[k]
          BY <2>2, <3>1
        <4> QED BY <3>1, <4>1 DEF next
      <3>2. CASE i # k + 1
        <4>1. i \in 1 .. k /\ i - 1 \in 0 .. k /\ i \in 0 .. k
          BY <3>2
        <4>2. h[i] = f[i] /\ h[i - 1] = f[i - 1]
          BY <4>1
        <4> QED BY <2>1, <4>1, <4>2
      <3> QED BY <3>1, <3>2
    <2> HIDE DEF h
    <2>8. Part(k + 1, h)
      BY <2>6, <2>7
    <2> HIDE DEF Part
    <2> QED BY <2>2, <2>8
  <1>3. n \in S
    <2>1. n \in 0 .. n
      OBVIOUS
    <2> HIDE DEF S
    <2> QED BY <1>1, <1>2, <2>1, InductionTo
  <1>4. PICK f : Part(n, f)
    BY <1>3
  <1>5. Computes(n, A, b, g, f)
    BY <1>4 DEF Computes
  <1> QED BY <1>5

\* A function on 1 .. n is a list of n items.
LEMMA ListOf ==
    ASSUME NEW n \in Nat, NEW f, f = [i \in 1 .. n |-> f[i]]
    PROVE  f \in Seq({f[i] : i \in 1 .. n}) /\ Len(f) = n /\ DOMAIN f = 1 .. n
  <1> DEFINE S == {f[i] : i \in 1 .. n}
  <1>1. f \in [1 .. n -> S]
    OBVIOUS
  <1> HIDE DEF S
  <1>2. f \in Seq(S) /\ DOMAIN f = 1 .. n
    BY <1>1
  <1>3. Len(f) = n
    BY <1>2
  <1> QED BY <1>2, <1>3 DEF S

\* Where nothing is left out the list is the same.
LEMMA AllPicked ==
    ASSUME NEW n \in Nat
    PROVE  Picked([s \in 1 .. n |-> s], 1 .. n) = [k \in 1 .. n |-> k]
  <1>1. Cardinality(1 .. n) = n
    BY FS_Interval
  <1>2. ASSUME NEW i \in 1 .. n PROVE Cardinality({j \in 1 .. n : j <= i}) = i
    <2>1. {j \in 1 .. n : j <= i} = 1 .. i
      OBVIOUS
    <2>2. Cardinality(1 .. i) = i
      BY FS_Interval
    <2> QED BY <2>1, <2>2
  <1>3. ASSUME NEW k \in 1 .. n PROVE (CHOOSE i \in 1 .. n : Cardinality({j \in 1 .. n : j <= i}) = k) = k
    BY <1>2
  <1> QED BY <1>1, <1>3 DEF Picked

\* One list after the other.
LEMMA Joined ==
    ASSUME NEW n \in Nat, NEW m \in Nat, NEW f, NEW g, f = [i \in 1 .. n |-> f[i]], g = [i \in 1 .. m |-> g[i]]
    PROVE  /\ Len(f \o g) = n + m /\ DOMAIN (f \o g) = 1 .. n + m
           /\ \A i \in 1 .. n : (f \o g)[i] = f[i]
           /\ \A i \in n + 1 .. n + m : (f \o g)[i] = g[i - n]
  <1> DEFINE S == {f[i] : i \in 1 .. n} \cup {g[i] : i \in 1 .. m}
  <1>1. f \in [1 .. n -> S] /\ g \in [1 .. m -> S]
    OBVIOUS
  <1> HIDE DEF S
  <1>2. f \in Seq(S) /\ Len(f) = n /\ g \in Seq(S) /\ Len(g) = m
    BY <1>1
  <1>3. f \o g \in Seq(S) /\ Len(f \o g) = n + m
    BY <1>2
  <1>4. ASSUME NEW i \in 1 .. n + m PROVE (f \o g)[i] = IF i <= n THEN f[i] ELSE g[i - n]
    BY <1>2
  <1>5. \A i \in 1 .. n : (f \o g)[i] = f[i]
    BY <1>4
  <1>6. \A i \in n + 1 .. n + m : (f \o g)[i] = g[i - n]
    BY <1>4
  <1> QED BY <1>3, <1>5, <1>6

\* before puts any two members of S in order.
Orders(before, S) ==
    /\ \A x \in S : <<x, x>> \notin before
    /\ \A x, y \in S : x # y => <<x, y>> \in before \/ <<y, x>> \in before
    /\ \A x, y, z \in S : <<x, y>> \in before /\ <<y, z>> \in before => <<x, z>> \in before

\* A sorted list has every member of the set once, and in order.
Sorted(s, S, before) ==
    /\ Cardinality(S) \in Nat /\ s \in Seq(S) /\ Len(s) = Cardinality(S) /\ DOMAIN s = 1 .. Cardinality(S)
    /\ Range(s) = S
    /\ \A j, k \in DOMAIN s : s[j] = s[k] => j = k
    /\ \A j, k \in DOMAIN s : j < k => <<s[j], s[k]>> \in before

LEMMA SortedList ==
    ASSUME NEW S, IsFiniteSet(S), NEW before, Orders(before, S)
    PROVE  Sorted(SortedBy(S, before), S, before)
  <1> DEFINE n       == Cardinality(S)
             less(x) == {y \in S : <<y, x>> \in before}
             rank    == [x \in S |-> Cardinality(less(x)) + 1]
             s       == SortedBy(S, before)
  <1>1. n \in Nat
    BY FS_CardinalityType
  <1>2. ASSUME NEW x \in S PROVE IsFiniteSet(less(x)) /\ Cardinality(less(x)) \in 0 .. n - 1
    <2>1. less(x) \in SUBSET S /\ less(x) # S
      BY DEF Orders
    <2> HIDE DEF less
    <2>2. IsFiniteSet(less(x)) /\ Cardinality(less(x)) <= n /\ Cardinality(less(x)) # n
      BY <2>1, FS_Subset
    <2>3. Cardinality(less(x)) \in Nat
      BY <2>2, FS_CardinalityType
    <2> QED BY <1>1, <2>2, <2>3
  <1>3. ASSUME NEW x \in S, NEW y \in S, <<x, y>> \in before PROVE rank[x] < rank[y]
    <2>1. less(x) \in SUBSET less(y) /\ x \in less(y) /\ x \notin less(x)
      BY <1>3 DEF Orders
    <2> HIDE DEF less
    <2>2. Cardinality(less(x)) <= Cardinality(less(y)) /\ Cardinality(less(x)) # Cardinality(less(y))
      BY <1>2, <2>1, FS_Subset
    <2>3. Cardinality(less(x)) \in 0 .. n - 1 /\ Cardinality(less(y)) \in 0 .. n - 1
      BY <1>2
    <2> QED BY <1>1, <2>2, <2>3
  <1>4. rank \in [S -> 1 .. n]
    <2>1. \A x \in S : Cardinality(less(x)) \in 0 .. n - 1
      BY <1>2
    <2> HIDE DEF less, n
    <2>2. \A x \in S : Cardinality(less(x)) + 1 \in 1 .. n
      BY <1>1, <2>1
    <2> QED BY <2>2
  <1>5. \A x, y \in S : rank[x] = rank[y] => x = y
    <2> SUFFICES ASSUME NEW x \in S, NEW y \in S, rank[x] = rank[y], x # y PROVE FALSE
      OBVIOUS
    <2>1. rank[x] < rank[y] \/ rank[y] < rank[x]
      <3>1. <<x, y>> \in before \/ <<y, x>> \in before
        BY DEF Orders
      <3> HIDE DEF rank
      <3> QED BY <1>3, <3>1
    <2>2. rank[x] \in 1 .. n /\ rank[y] \in 1 .. n
      <3> HIDE DEF rank
      <3> QED BY <1>4
    <2> HIDE DEF rank
    <2> QED BY <1>1, <2>1, <2>2
  <1>6. \A k \in 1 .. n : \E x \in S : rank[x] = k
    <2>1. rank \in Injection(S, 1 .. n)
      <3> HIDE DEF rank
      <3> QED BY <1>4, <1>5 DEF Injection, IsInjective
    <2>2. IsFiniteSet(1 .. n) /\ Cardinality(1 .. n) = n
      BY <1>1, FS_Interval
    <2>3. rank \in Surjection(S, 1 .. n)
      <3> HIDE DEF rank
      <3> QED BY <2>1, <2>2, FS_Injection
    <2> HIDE DEF rank
    <2> QED BY <2>3 DEF Surjection
  <1>7. ASSUME NEW k \in 1 .. n PROVE s[k] \in S /\ rank[s[k]] = k
    <2>1. s[k] = CHOOSE x \in S : Cardinality(less(x)) = k - 1
      BY DEF SortedBy
    <2>2. PICK x \in S : rank[x] = k
      BY <1>6
    <2>3. Cardinality(less(x)) = k - 1
      <3>1. Cardinality(less(x)) \in Int /\ Cardinality(less(x)) + 1 = k
        BY <1>2, <2>2
      <3> QED BY <3>1
    <2> HIDE DEF s
    <2>4. s[k] \in S /\ Cardinality(less(s[k])) = k - 1
      BY <2>1, <2>3
    <2>5. rank[s[k]] = Cardinality(less(s[k])) + 1
      BY <2>4
    <2> HIDE DEF rank, less
    <2> QED BY <1>1, <2>4, <2>5
  <1>8. DOMAIN s = 1 .. n /\ s = [k \in 1 .. n |-> s[k]]
    <2> DEFINE at(k) == CHOOSE x \in S : Cardinality({y \in S : <<y, x>> \in before}) = k - 1
    <2>1. s = [k \in 1 .. n |-> at(k)]
      BY DEF SortedBy
    <2> HIDE DEF s, at
    <2> QED BY <2>1
  <1> HIDE DEF s, rank
  <1>9. s \in [1 .. n -> S]
    BY <1>7, <1>8
  <1>10. s \in Seq(S) /\ Len(s) = n
    <2>1. s \in Seq(S)
      BY <1>1, <1>9
    <2> QED BY <1>1, <1>8, <2>1
  <1>11. ASSUME NEW x \in S PROVE \E k \in 1 .. n : s[k] = x
    <2>1. rank[x] \in 1 .. n
      BY <1>4
    <2>2. s[rank[x]] = x
      BY <1>5, <1>7, <2>1
    <2> QED BY <2>1, <2>2
  <1>12. ASSUME NEW j \in 1 .. n, NEW k \in 1 .. n, j < k PROVE <<s[j], s[k]>> \in before
    <2>1. s[j] \in S /\ s[k] \in S /\ rank[s[j]] = j /\ rank[s[k]] = k
      BY <1>7
    <2>2. j \in Nat /\ k \in Nat
      OBVIOUS
    <2>3. s[j] # s[k] /\ ~(rank[s[k]] < rank[s[j]])
      BY <1>12, <2>1, <2>2
    <2> QED BY <1>3, <2>1, <2>3 DEF Orders
  <1>13. Range(s) = S
    BY <1>8, <1>9, <1>11 DEF Range
  <1>14. \A j, k \in 1 .. n : s[j] = s[k] => j = k
    BY <1>7
  <1>15. Sorted(s, S, before)
    BY <1>1, <1>8, <1>10, <1>12, <1>13, <1>14 DEF Sorted
  <1> QED BY <1>15 DEF s

(***************************************************************************)
(* The attempt of one provider (providers.py, extract.py)                  *)
(***************************************************************************)
PerPage   == OneByOne \cup {"linkup"}
Places    == {"queued", "cleared", "sent", "done"}
OfAnswers == {"page", "blank", "reason", "error", "not_tried", "stopped"}
ItemNames == OfAnswers \cup {"open", "overdue", "absent", "elsewhere"}
Account   == {"rate_limit", "quota", "auth"}
Reached   == Answers \cup {Unasked(why) : why \in Skipped \cup {"late"}}
Cleared   == {u \in Pages : fetch[u] = "cleared"}

BatchShape ==
    /\ adapter \in Adapters /\ count \in Nat /\ count > 0
    /\ fetch \in [Pages -> Places] /\ gotten \in [Pages -> Reached] /\ items \in [Pages -> ItemNames]
    /\ clocks \in [deadline : BOOLEAN, overall : BOOLEAN]
    /\ stop \in Account \cup {"none"} /\ afterStop \in Nat

\* Where pages are asked for one by one an item says what its request came to.
ItemsTrue ==
    adapter \in PerPage => \A u \in Pages :
        \/ items[u] = "open"
        \/ items[u] = "overdue" /\ adapter = "linkup"
        \/ fetch[u] = "done" /\ items[u] = ItemOfAnswer(gotten[u])

\* A provider that is asked for all pages at once has said nothing before it answers.
AllOpen == adapter \notin PerPage =>
               /\ \A u \in Pages : fetch[u] # "cleared"
               /\ fetch[1] \in {"queued", "sent"} => \A u \in Pages : items[u] = "open"

InOrder == adapter \in OneByOne =>
               \A u \in Pages : fetch[u] # "queued" => \A v \in 1 .. u - 1 : fetch[v] = "done"

\* An answer that concerns the account.
Telling(a) == a \in Answers /\ Failing(a) /\ AccountWide(a)

StopExplained == stop # "none" =>
                     adapter \in PerPage /\ \E u \in Pages : fetch[u] = "done" /\ Telling(gotten[u])

\* The requests under way, those that may still go out, and those that did after the stop.
FewLate ==
    /\ stop = "none" => afterStop = 0
    /\ adapter = "linkup" =>
          /\ Cardinality(Active) <= Workers
          /\ stop # "none" => afterStop + Cardinality(Cleared) < Workers
    /\ adapter # "linkup" => afterStop = 0 /\ (stop # "none" => Active = {})

FirstErrorOf == firstError # "none" => adapter \in {"firecrawl", "linkup"}

EndingSound ==
    /\ BatchEnded => ending.pages = Fetched \ ending.dropped
    /\ BatchEnded /\ stop # "none" => ending.class = stop /\ (ending.by = "stopped" <=> ending.pages # {})
    /\ (ending.class = "deadline" /\ adapter \in {"keenable", "serper"} /\ ending.dropped = {}) => ~SentAny

\* What the pages say, and the whole invariant.
PagesInv == BatchShape /\ ItemsTrue /\ AllOpen /\ InOrder /\ StopExplained /\ FewLate /\ FirstErrorOf
BatchInv == PagesInv /\ EndingSound

pagevars == <<adapter, count, fetch, gotten, items, clocks, firstError, stop, afterStop>>

LEMMA AnswerItems ==
    ASSUME adapter \in PerPage, NEW a \in Reached
    PROVE  /\ ItemOfAnswer(a) \in OfAnswers
           /\ ItemOfAnswer(a) = "not_tried" => a.page \in Skipped \cup {"late"}
  <1>1. a.page \in {"text", "blank", "refused", "missing", "late"} \cup Skipped
    BY BatchAssumption DEF Reached, Unasked, Skipped
  <1>2. ErrorItem(a) \in {"reason", "error"} /\ TextItem(a) \in {"blank", "page"}
    BY DEF ErrorItem, TextItem
  <1>3. MessageItem(a) = IF a.page = "late" THEN "not_tried" ELSE "error"
    BY DEF MessageItem
  <1>4. FirecrawlItem(a) \in {"reason", "error", "blank", "page"}
    BY <1>2 DEF FirecrawlItem, Refusal
  <1>5. LinkupItem(a) \in {"reason", "error", "blank", "page"}
    BY <1>2 DEF LinkupItem, Refusal
  <1>6. SerperItem(a) \in {"error", "blank", "page"} \/ SerperItem(a) = MessageItem(a)
    BY <1>2 DEF SerperItem, Refusal
  <1>7. KeenableItem(a) \in {"error", "blank", "page"} \/ KeenableItem(a) = MessageItem(a)
    BY <1>2 DEF KeenableItem, Refusal
  <1>8. \/ a.page \in {"stopped", "not_tried"} /\ ItemOfAnswer(a) = a.page
        \/ ItemOfAnswer(a) \in {FirecrawlItem(a), LinkupItem(a), SerperItem(a), KeenableItem(a)}
    BY DEF ItemOfAnswer
  <1> QED
    BY <1>1, <1>3, <1>4, <1>5, <1>6, <1>7, <1>8 DEF OfAnswers, Skipped

LEMMA ToldItem ==
    ASSUME adapter \in PerPage, NEW a, Telling(a)
    PROVE  ItemOfAnswer(a) \in {"reason", "error"}
  <1>1. a.code # 200 /\ a.page \in {"text", "blank", "refused", "missing"}
    BY BatchAssumption DEF Telling, Failing
  <1>2. Failing(a) /\ ErrorItem(a) \in {"reason", "error"} /\ MessageItem(a) = "error"
    BY <1>1 DEF Failing, ErrorItem, MessageItem
  <1>3. /\ FirecrawlItem(a) = ErrorItem(a) /\ LinkupItem(a) = ErrorItem(a)
        /\ SerperItem(a) = MessageItem(a) /\ KeenableItem(a) = MessageItem(a)
    BY <1>2 DEF FirecrawlItem, LinkupItem, SerperItem, KeenableItem
  <1>4. ItemOfAnswer(a) \in {FirecrawlItem(a), LinkupItem(a), SerperItem(a), KeenableItem(a)}
    BY <1>1 DEF ItemOfAnswer
  <1> QED
    BY <1>2, <1>3, <1>4

LEMMA TellingClass ==
    ASSUME NEW a, Telling(a)
    PROVE  /\ ClassOf(a) \in Account
           /\ a.code \notin {0, 200} /\ (a.code \in {400, 403} /\ a.target # "none" => a.empty)
  <1>1. a.code # 200 /\ a.page # "late" /\ a.code \in Nat
    BY BatchAssumption DEF Telling, Failing
  <1>2. ClassOf(a) \in {"rate_limit", "quota", "auth", "config"}
    BY DEF Telling, AccountWide
  <1>3. ClassOf(a) \in Account
    BY <1>2 DEF ClassOf, Account
  <1>4. ~TargetFailure(a)
    <2> SUFFICES ASSUME TargetFailure(a) PROVE FALSE
      OBVIOUS
    <2>1. ClassOf(a) = "contract"
      BY <1>1 DEF ClassOf
    <2> QED BY <1>2, <2>1
  <1>5. a.code # 0
    <2> SUFFICES ASSUME a.code = 0 PROVE FALSE
      OBVIOUS
    <2>1. ClassOf(a) = "transient"
      BY <1>1, <1>4 DEF ClassOf, OutOfCredit
    <2> QED BY <1>2, <2>1
  <1>6. a.code \in {400, 403} /\ a.target # "none" => OutOfCredit(a)
    BY <1>4 DEF TargetFailure
  <1>7. a.code \in {400, 403} /\ OutOfCredit(a) => a.empty
    BY DEF OutOfCredit
  <1> QED
    BY <1>1, <1>3, <1>5, <1>6, <1>7

LEMMA PagesFinite ==
    ASSUME BatchShape
    PROVE  /\ 1 \in Pages /\ \A u \in Pages : u \in Nat
           /\ \A S \in SUBSET Pages : IsFiniteSet(S) /\ Cardinality(S) \in Nat
  <1>1. 1 \in Pages /\ \A u \in Pages : u \in Nat
    BY DEF BatchShape, Pages
  <1>2. IsFiniteSet(Pages)
    BY FS_Interval DEF BatchShape, Pages
  <1> QED
    BY <1>1, <1>2, FS_Subset, FS_CardinalityType

LEMMA SamePages == ASSUME PagesInv, UNCHANGED pagevars PROVE PagesInv'
  <1>0. /\ adapter' = adapter /\ count' = count /\ fetch' = fetch /\ gotten' = gotten /\ items' = items
        /\ clocks' = clocks /\ firstError' = firstError /\ stop' = stop /\ afterStop' = afterStop
    BY DEF pagevars
  <1> QED
    BY <1>0 DEF PagesInv, BatchShape, ItemsTrue, AllOpen, InOrder, StopExplained, FewLate, FirstErrorOf,
             Pages, Cleared, Active, ItemOfAnswer, FirecrawlItem, LinkupItem, SerperItem, KeenableItem, Refusal

LEMMA InitBatch == BatchInit => BatchInv
  <1> SUFFICES ASSUME BatchInit PROVE BatchInv
    OBVIOUS
  <1>0. count \in Nat /\ count > 0 /\ adapter \in Adapters
    BY BatchAssumption DEF BatchInit
  <1>1. BatchShape
    <2>1. Unasked("waiting") \in Reached
      BY DEF Reached, Skipped
    <2> QED BY <1>0, <2>1 DEF BatchInit, BatchShape, Places, ItemNames
  <1>2. \A u \in Pages : fetch[u] = "queued" /\ items[u] = "open"
    BY DEF BatchInit
  <1>3. Active = {} /\ stop = "none" /\ afterStop = 0 /\ firstError = "none" /\ ending = Running
    BY <1>2 DEF BatchInit, Active
  <1>4. Cardinality(Active) <= Workers
    BY <1>3, FS_EmptySet, BatchAssumption
  <1> QED
    BY <1>1, <1>2, <1>3, <1>4 DEF BatchInv, PagesInv, ItemsTrue, AllOpen, InOrder, StopExplained, FewLate, FirstErrorOf,
         EndingSound, BatchEnded, Running

LEMMA SettleKeeps ==
    ASSUME PagesInv, NEW u \in Pages, NEW a \in Reached, adapter \in PerPage, fetch[u] # "done", Settle(u, a),
           adapter \in OneByOne => \A v \in 1 .. u - 1 : fetch[v] = "done",
           adapter' = adapter, count' = count
    PROVE  /\ fetch' \in [Pages -> Places] /\ gotten' \in [Pages -> Reached] /\ items' \in [Pages -> ItemNames]
           /\ ItemsTrue' /\ AllOpen' /\ InOrder' /\ FirstErrorOf'
           /\ \A v \in Pages : fetch'[v] = (IF v = u THEN "done" ELSE fetch[v]) /\ gotten'[v] = (IF v = u THEN a ELSE gotten[v])
           /\ Active' = Active \ {u} /\ Cleared' = Cleared \ {u}
  <1>0. Pages' = Pages /\ BatchShape
    BY DEF Pages, PagesInv
  <1>1. /\ fetch' \in [Pages -> Places] /\ gotten' \in [Pages -> Reached]
        /\ \A v \in Pages : fetch'[v] = (IF v = u THEN "done" ELSE fetch[v]) /\ gotten'[v] = (IF v = u THEN a ELSE gotten[v])
    BY <1>0 DEF Settle, BatchShape, Places
  <1>2. ItemOfAnswer(a) \in ItemNames
    BY AnswerItems DEF ItemNames
  <1>3. /\ items' \in [Pages -> ItemNames]
        /\ \A v \in Pages : items'[v] = IF v = u /\ adapter # "linkup" THEN ItemOfAnswer(a) ELSE items[v]
    BY <1>0, <1>2 DEF Settle, BatchShape
  <1>4. ItemsTrue'
    <2> SUFFICES ASSUME NEW v \in Pages, items'[v] # "open", ~(items'[v] = "overdue" /\ adapter = "linkup")
                 PROVE  fetch'[v] = "done" /\ items'[v] = ItemOfAnswer(gotten[v])'
      BY <1>0 DEF ItemsTrue
    <2>1. fetch'[v] = "done" /\ items'[v] = ItemOfAnswer(gotten'[v])
      <3>1. CASE v = u /\ adapter # "linkup"
        BY <1>1, <1>3, <3>1
      <3>2. CASE ~(v = u /\ adapter # "linkup")
        <4>1. items'[v] = items[v] /\ fetch[v] = "done" /\ items[v] = ItemOfAnswer(gotten[v])
          BY <1>3, <3>2 DEF PagesInv, ItemsTrue
        <4>2. fetch'[v] = "done" /\ gotten'[v] = gotten[v]
          BY <1>1, <4>1
        <4> QED BY <4>1, <4>2
      <3> QED BY <3>1, <3>2
    <2>2. ItemOfAnswer(gotten[v])' = ItemOfAnswer(gotten'[v])
      BY DEF ItemOfAnswer, FirecrawlItem, LinkupItem, SerperItem, KeenableItem, Refusal
    <2> QED BY <2>1, <2>2
  <1>5. AllOpen'
    BY DEF AllOpen
  <1>6. InOrder'
    <2> SUFFICES ASSUME adapter \in OneByOne, NEW w \in Pages, fetch'[w] # "queued", NEW v \in 1 .. w - 1 PROVE fetch'[v] = "done"
      BY <1>0 DEF InOrder
    <2>1. v \in Pages
      BY <1>0 DEF Pages, BatchShape
    <2>2. fetch[v] = "done"
      BY <1>1 DEF PagesInv, InOrder
    <2> QED BY <1>1, <2>1, <2>2
  <1>7. FirstErrorOf'
    BY DEF Settle, FirstErrorOf, PagesInv
  <1>8. Active' = Active \ {u} /\ Cleared' = Cleared \ {u}
    BY <1>0, <1>1 DEF Active, Cleared
  <1> QED
    BY <1>1, <1>3, <1>4, <1>5, <1>6, <1>7, <1>8

LEMMA StillRunning == ASSUME ending' = Running PROVE EndingSound'
  BY DEF EndingSound, BatchEnded, Running

\* An item stays true as long as it, its answer and its request are left alone.
LEMMA ItemsStay ==
    ASSUME BatchShape, ItemsTrue, adapter' = adapter, count' = count,
           \A v \in Pages : items'[v] = items[v] /\ gotten'[v] = gotten[v] /\ (fetch[v] = "done" => fetch'[v] = "done")
    PROVE  ItemsTrue'
  <1>0. Pages' = Pages
    BY DEF Pages
  <1> SUFFICES ASSUME adapter \in PerPage, NEW v \in Pages, items'[v] # "open", ~(items'[v] = "overdue" /\ adapter = "linkup")
               PROVE  fetch'[v] = "done" /\ items'[v] = ItemOfAnswer(gotten[v])'
    BY <1>0 DEF ItemsTrue
  <1>1. fetch[v] = "done" /\ items[v] = ItemOfAnswer(gotten[v])
    BY DEF ItemsTrue
  <1>2. ItemOfAnswer(gotten[v])' = ItemOfAnswer(gotten[v])
    BY DEF ItemOfAnswer, FirecrawlItem, LinkupItem, SerperItem, KeenableItem, Refusal
  <1> QED BY <1>1, <1>2

\* A page that is settled takes nothing from the answer that stopped the batch.
LEMMA SettleStops ==
    ASSUME PagesInv, NEW u \in Pages, fetch[u] # "done",
           \A v \in Pages : v # u => fetch'[v] = fetch[v] /\ gotten'[v] = gotten[v],
           adapter' = adapter, count' = count, stop' = stop
    PROVE  StopExplained'
  <1>0. Pages' = Pages
    BY DEF Pages
  <1> SUFFICES ASSUME stop # "none" PROVE adapter \in PerPage /\ \E v \in Pages : fetch'[v] = "done" /\ Telling(gotten'[v])
    BY <1>0 DEF StopExplained, Telling
  <1>1. adapter \in PerPage /\ \E v \in Pages : fetch[v] = "done" /\ Telling(gotten[v])
    BY DEF PagesInv, StopExplained
  <1> QED BY <1>1

\* Fewer requests are under way than before, and no more of them late.
LEMMA FewerLate ==
    ASSUME PagesInv, Active' \in SUBSET Active, Cleared' \in SUBSET Cleared,
           adapter' = adapter, count' = count, stop' = stop, afterStop' = afterStop
    PROVE  FewLate'
  <1>1. BatchShape /\ Active \in SUBSET Pages /\ Cleared \in SUBSET Pages
    BY DEF PagesInv, Active, Cleared
  <1>2. /\ Cardinality(Active') <= Cardinality(Active) /\ Cardinality(Cleared') <= Cardinality(Cleared)
        /\ Cardinality(Active') \in Nat /\ Cardinality(Cleared') \in Nat
        /\ Cardinality(Active) \in Nat /\ Cardinality(Cleared) \in Nat
    BY <1>1, PagesFinite, FS_Subset
  <1>3. /\ adapter = "linkup" =>
             Cardinality(Active') <= Workers /\ (stop # "none" => afterStop + Cardinality(Cleared') < Workers)
    BY <1>1, <1>2, BatchAssumption DEF PagesInv, FewLate, BatchShape
  <1>4. Cardinality(Active)' = Cardinality(Active') /\ Cardinality(Cleared)' = Cardinality(Cleared')
    OBVIOUS
  <1> QED BY <1>3, <1>4 DEF PagesInv, FewLate

LEMMA CheckKeeps == ASSUME BatchInv, NEW u \in Pages, CheckPage(u) PROVE BatchInv'
  <1>0. PagesInv /\ BatchShape /\ Pages' = Pages
    BY DEF BatchInv, PagesInv, CheckPage, Pages
  <1>1. /\ adapter' = adapter /\ count' = count /\ clocks' = clocks /\ stop' = stop /\ afterStop' = afterStop
        /\ ending = Running /\ ending' = ending /\ fetch[u] = "queued" /\ adapter \in PerPage
        /\ adapter # "linkup" => \A v \in 1 .. u - 1 : fetch[v] = "done"
        /\ adapter = "linkup" => Cardinality(Active) < Workers
    BY DEF CheckPage, PageTurn, PerPage
  <1>2. EndingSound'
    BY <1>1, StillRunning
  <1>3. ASSUME NEW why \in Skipped, Settle(u, Unasked(why)) PROVE BatchInv'
    <2>1. Unasked(why) \in Reached
      BY DEF Reached
    <2>2. /\ fetch' \in [Pages -> Places] /\ gotten' \in [Pages -> Reached] /\ items' \in [Pages -> ItemNames]
          /\ ItemsTrue' /\ AllOpen' /\ InOrder' /\ FirstErrorOf'
          /\ \A v \in Pages : v # u => fetch'[v] = fetch[v] /\ gotten'[v] = gotten[v]
          /\ Active' \in SUBSET Active /\ Cleared' \in SUBSET Cleared
      BY <1>0, <1>1, <1>3, <2>1, SettleKeeps DEF OneByOne
    <2>3. BatchShape'
      BY <1>0, <1>1, <2>2 DEF BatchShape
    <2>4. StopExplained'
      BY <1>0, <1>1, <2>2, SettleStops
    <2>5. FewLate'
      BY <1>0, <1>1, <2>2, FewerLate
    <2> QED BY <1>2, <2>2, <2>3, <2>4, <2>5 DEF BatchInv, PagesInv
  <1>4. ASSUME stop = "none", fetch' = [fetch EXCEPT ![u] = "cleared"], UNCHANGED <<gotten, items, firstError>> PROVE BatchInv'
    <2>1. \A v \in Pages : fetch'[v] = (IF v = u THEN "cleared" ELSE fetch[v]) /\ gotten'[v] = gotten[v] /\ items'[v] = items[v]
      BY <1>0, <1>4 DEF BatchShape
    <2>2. BatchShape'
      BY <1>0, <1>1, <1>4 DEF BatchShape, Places
    <2>3. ItemsTrue'
      BY <1>0, <1>1, <2>1, ItemsStay DEF PagesInv
    <2>4. AllOpen' /\ FirstErrorOf'
      BY <1>0, <1>1, <1>4 DEF AllOpen, FirstErrorOf, PagesInv
    <2>5. InOrder'
      <3> SUFFICES ASSUME adapter \in OneByOne, NEW w \in Pages, fetch'[w] # "queued", NEW v \in 1 .. w - 1 PROVE fetch'[v] = "done"
        BY <1>0, <1>1 DEF InOrder
      <3>1. v \in Pages
        BY <1>0 DEF Pages, BatchShape
      <3>2. fetch[v] = "done"
        BY <1>0, <1>1, <2>1 DEF PagesInv, InOrder, OneByOne
      <3> QED BY <1>1, <2>1, <3>1, <3>2
    <2>6. StopExplained'
      BY <1>1, <1>4 DEF StopExplained
    <2>7. FewLate'
      <3>1. Active' = Active \cup {u} /\ u \notin Active
        BY <1>0, <1>1, <2>1 DEF Active
      <3>2. Active \in SUBSET Pages
        BY DEF Active
      <3>3. Cardinality(Active') = Cardinality(Active) + 1 /\ Cardinality(Active) \in Nat
        BY <1>0, <3>1, <3>2, PagesFinite, FS_AddElement
      <3>4. adapter = "linkup" => Cardinality(Active') <= Workers
        BY <1>1, <3>3, BatchAssumption
      <3>5. Cardinality(Active)' = Cardinality(Active')
        OBVIOUS
      <3> QED BY <1>0, <1>1, <1>4, <3>4, <3>5 DEF PagesInv, FewLate
    <2> QED BY <1>2, <2>2, <2>3, <2>4, <2>5, <2>6, <2>7 DEF BatchInv, PagesInv
  <1> QED
    BY <1>3, <1>4 DEF CheckPage, Skipped

LEMMA SendKeeps == ASSUME BatchInv, NEW u \in Pages, SendPage(u) PROVE BatchInv'
  <1>0. PagesInv /\ BatchShape /\ Pages' = Pages
    BY DEF BatchInv, PagesInv, SendPage, Pages
  <1>1. /\ adapter' = adapter /\ count' = count /\ clocks' = clocks /\ stop' = stop
        /\ ending = Running /\ ending' = ending /\ fetch[u] = "cleared"
    BY DEF SendPage
  <1>2. EndingSound'
    BY <1>1, StillRunning
  <1>3. adapter \in PerPage
    BY <1>0, <1>1 DEF PagesInv, AllOpen
  <1>4. adapter \in OneByOne => \A v \in 1 .. u - 1 : fetch[v] = "done"
    BY <1>0, <1>1 DEF PagesInv, InOrder
  <1>5. ASSUME Settle(u, Unasked("late")), afterStop' = afterStop PROVE BatchInv'
    <2>1. Unasked("late") \in Reached
      BY DEF Reached
    <2>2. /\ fetch' \in [Pages -> Places] /\ gotten' \in [Pages -> Reached] /\ items' \in [Pages -> ItemNames]
          /\ ItemsTrue' /\ AllOpen' /\ InOrder' /\ FirstErrorOf'
          /\ \A v \in Pages : v # u => fetch'[v] = fetch[v] /\ gotten'[v] = gotten[v]
          /\ Active' \in SUBSET Active /\ Cleared' \in SUBSET Cleared
      BY <1>0, <1>1, <1>3, <1>4, <1>5, <2>1, SettleKeeps
    <2>3. BatchShape'
      BY <1>0, <1>1, <1>5, <2>2 DEF BatchShape
    <2>4. StopExplained'
      BY <1>0, <1>1, <2>2, SettleStops
    <2>5. FewLate'
      BY <1>0, <1>1, <1>5, <2>2, FewerLate
    <2> QED BY <1>2, <2>2, <2>3, <2>4, <2>5 DEF BatchInv, PagesInv
  <1>6. ASSUME fetch' = [fetch EXCEPT ![u] = "sent"], UNCHANGED <<gotten, items, firstError>>,
               afterStop' = afterStop + (IF stop = "none" THEN 0 ELSE 1)
        PROVE  BatchInv'
    <2>1. \A v \in Pages : fetch'[v] = (IF v = u THEN "sent" ELSE fetch[v]) /\ gotten'[v] = gotten[v] /\ items'[v] = items[v]
      BY <1>0, <1>6 DEF BatchShape
    <2>2. BatchShape'
      BY <1>0, <1>1, <1>6 DEF BatchShape, Places
    <2>3. ItemsTrue'
      BY <1>0, <1>1, <2>1, ItemsStay DEF PagesInv
    <2>4. AllOpen' /\ FirstErrorOf'
      BY <1>1, <1>3, <1>6, <1>0 DEF AllOpen, FirstErrorOf, PagesInv
    <2>5. InOrder'
      <3> SUFFICES ASSUME adapter \in OneByOne, NEW w \in Pages, fetch'[w] # "queued", NEW v \in 1 .. w - 1 PROVE fetch'[v] = "done"
        BY <1>0, <1>1 DEF InOrder
      <3>1. v \in Pages
        BY <1>0 DEF Pages, BatchShape
      <3>2. fetch[v] = "done"
        BY <1>0, <1>1, <2>1 DEF PagesInv, InOrder
      <3> QED BY <1>1, <2>1, <3>1, <3>2
    <2>6. StopExplained'
      BY <1>0, <1>1, <2>1, SettleStops
    <2>7. FewLate'
      <3>1. u \in Active /\ u \in Cleared /\ Active' = Active /\ Cleared' = Cleared \ {u}
        BY <1>0, <1>1, <2>1 DEF Active, Cleared
      <3>2. Active \in SUBSET Pages /\ Cleared \in SUBSET Pages
        BY DEF Active, Cleared
      <3>3. /\ Cardinality(Cleared') = Cardinality(Cleared) - 1 /\ Cardinality(Cleared) \in Nat
            /\ Cardinality(Active) \in Nat
        BY <1>0, <3>1, <3>2, PagesFinite, FS_RemoveElement
      <3>4. adapter = "linkup" => /\ Cardinality(Active') <= Workers
                                  /\ stop # "none" => afterStop' + Cardinality(Cleared') < Workers
        BY <1>0, <1>6, <3>1, <3>3, BatchAssumption DEF PagesInv, FewLate, BatchShape
      <3>5. Cardinality(Active)' = Cardinality(Active') /\ Cardinality(Cleared)' = Cardinality(Cleared')
        OBVIOUS
      <3>6. adapter # "linkup" => stop = "none"
        BY <1>0, <3>1 DEF PagesInv, FewLate
      <3>7. stop = "none" => afterStop' = afterStop
        BY <1>0, <1>6 DEF BatchShape
      <3> QED BY <1>0, <1>1, <3>4, <3>5, <3>6, <3>7 DEF PagesInv, FewLate
    <2> QED BY <1>2, <2>2, <2>3, <2>4, <2>5, <2>6, <2>7 DEF BatchInv, PagesInv
  <1> QED
    BY <1>5, <1>6 DEF SendPage

LEMMA ReceiveKeeps == ASSUME BatchInv, NEW u \in Pages, ReceivePage(u) PROVE BatchInv'
  <1>0. PagesInv /\ BatchShape /\ Pages' = Pages
    BY DEF BatchInv, PagesInv, ReceivePage, Pages
  <1>1. /\ adapter' = adapter /\ count' = count /\ clocks' = clocks /\ afterStop' = afterStop
        /\ ending = Running /\ ending' = ending /\ fetch[u] = "sent" /\ adapter \in PerPage
    BY DEF ReceivePage, PerPage
  <1>2. PICK a \in Answers :
            /\ Settle(u, a)
            /\ stop' = IF stop = "none" /\ Failing(a) /\ AccountWide(a) THEN ClassOf(a) ELSE stop
    BY DEF ReceivePage
  <1>3. EndingSound'
    BY <1>1, StillRunning
  <1>4. a \in Reached
    BY DEF Reached
  <1>5. adapter \in OneByOne => \A v \in 1 .. u - 1 : fetch[v] = "done"
    BY <1>0, <1>1 DEF PagesInv, InOrder
  <1>6. /\ fetch' \in [Pages -> Places] /\ gotten' \in [Pages -> Reached] /\ items' \in [Pages -> ItemNames]
        /\ ItemsTrue' /\ AllOpen' /\ InOrder' /\ FirstErrorOf'
        /\ \A v \in Pages : fetch'[v] = (IF v = u THEN "done" ELSE fetch[v]) /\ gotten'[v] = (IF v = u THEN a ELSE gotten[v])
        /\ Active' = Active \ {u} /\ Cleared' = Cleared \ {u}
    BY <1>0, <1>1, <1>2, <1>4, <1>5, SettleKeeps
  <1>7. CASE stop' = stop
    <2>1. BatchShape'
      BY <1>0, <1>1, <1>6, <1>7 DEF BatchShape
    <2>2. StopExplained'
      BY <1>0, <1>1, <1>6, <1>7, SettleStops
    <2>3. FewLate'
      BY <1>0, <1>1, <1>6, <1>7, FewerLate
    <2> QED BY <1>3, <1>6, <2>1, <2>2, <2>3 DEF BatchInv, PagesInv
  <1>8. CASE stop' # stop
    <2>1. stop = "none" /\ Telling(a) /\ stop' = ClassOf(a)
      BY <1>2, <1>8 DEF Telling
    <2>2. stop' \in Account
      BY <2>1, TellingClass
    <2>3. BatchShape'
      BY <1>0, <1>1, <1>6, <2>2 DEF BatchShape
    <2>4. StopExplained'
      <3>1. fetch'[u] = "done" /\ Telling(gotten'[u])
        BY <1>6, <2>1
      <3>2. Telling(gotten[u])' = Telling(gotten'[u])
        BY DEF Telling
      <3> QED BY <1>0, <1>1, <3>1, <3>2 DEF StopExplained
    <2>5. FewLate'
      <3>1. afterStop' = 0 /\ stop' # "none"
        BY <1>0, <1>1, <2>1, <2>2 DEF PagesInv, FewLate, Account
      <3>2. /\ Active' \in SUBSET Active /\ Active \in SUBSET Pages /\ Cleared' \in SUBSET Active'
            /\ u \in Active /\ Active' = Active \ {u}
        BY <1>0, <1>1, <1>6 DEF Active, Cleared
      <3>3. Cleared' \in SUBSET Pages /\ Active' \in SUBSET Pages
        BY <3>2
      <3>4. IsFiniteSet(Active) /\ IsFiniteSet(Active') /\ Cardinality(Active) \in Nat /\ Cardinality(Active') \in Nat /\ Cardinality(Cleared') \in Nat
        BY <1>0, <3>2, <3>3, PagesFinite
      <3>5. Cardinality(Active') = Cardinality(Active) - 1
        BY <3>2, <3>4, FS_RemoveElement
      <3>6. Cardinality(Cleared') <= Cardinality(Active')
        BY <3>2, <3>4, FS_Subset
      <3>7. adapter = "linkup" => Cardinality(Active') <= Workers /\ afterStop' + Cardinality(Cleared') < Workers
        BY <1>0, <3>1, <3>4, <3>5, <3>6, BatchAssumption DEF PagesInv, FewLate
      <3>8. adapter # "linkup" => Active' = {}
        <4> SUFFICES ASSUME adapter # "linkup", NEW w \in Active, w # u PROVE FALSE
          BY <1>6
        <4>1. adapter \in OneByOne
          BY <1>1 DEF PerPage
        <4>2. w \in Nat /\ u \in Nat /\ w \in 1 .. count /\ u \in 1 .. count /\ fetch[w] # "queued" /\ fetch[w] # "done"
          BY <1>0, <3>2, PagesFinite DEF Active, Pages
        <4>3. w \in 1 .. u - 1 \/ u \in 1 .. w - 1
          BY <4>2
        <4>4. fetch[w] = "done" \/ fetch[u] = "done"
          BY <1>0, <1>1, <4>1, <4>2, <4>3 DEF PagesInv, InOrder, Pages
        <4> QED BY <1>1, <4>2, <4>4
      <3>9. Cardinality(Active)' = Cardinality(Active') /\ Cardinality(Cleared)' = Cardinality(Cleared')
        OBVIOUS
      <3> QED BY <1>1, <3>1, <3>7, <3>8, <3>9 DEF FewLate
    <2> QED BY <1>3, <1>6, <2>3, <2>4, <2>5 DEF BatchInv, PagesInv
  <1> QED
    BY <1>7, <1>8

LEMMA CollectKeeps == ASSUME BatchInv, NEW u \in Pages, Collect(u) PROVE BatchInv'
  <1>0. PagesInv /\ BatchShape /\ Pages' = Pages
    BY DEF BatchInv, PagesInv, Collect, Pages
  <1>1. /\ adapter' = adapter /\ count' = count /\ clocks' = clocks /\ stop' = stop /\ afterStop' = afterStop
        /\ fetch' = fetch /\ gotten' = gotten
        /\ ending = Running /\ ending' = ending /\ adapter = "linkup"
    BY DEF Collect
  <1>2. EndingSound'
    BY <1>1, StillRunning
  <1>3. PICK item \in OfAnswers \cup {"overdue"} :
            /\ items' = [items EXCEPT ![u] = item]
            /\ item = "overdue" \/ (fetch[u] = "done" /\ item = ItemOfAnswer(gotten[u]))
    <2>1. gotten[u] \in Reached
      BY <1>0 DEF BatchShape
    <2>2. ItemOfAnswer(gotten[u]) \in OfAnswers
      BY <1>1, <2>1, AnswerItems DEF PerPage
    <2>3. \/ fetch[u] = "done" /\ items' = [items EXCEPT ![u] = ItemOfAnswer(gotten[u])]
          \/ items' = [items EXCEPT ![u] = "overdue"]
      BY DEF Collect
    <2>4. ItemOfAnswer(gotten[u]) \in OfAnswers \cup {"overdue"}
      BY <2>2
    <2> HIDE DEF OfAnswers
    <2>5. CASE fetch[u] = "done" /\ items' = [items EXCEPT ![u] = ItemOfAnswer(gotten[u])]
      BY <2>4, <2>5
    <2>6. CASE items' = [items EXCEPT ![u] = "overdue"]
      <3> WITNESS "overdue" \in OfAnswers \cup {"overdue"}
      <3> QED BY <2>6
    <2> QED BY <2>3, <2>5, <2>6
  <1>4. BatchShape'
    BY <1>0, <1>1, <1>3 DEF BatchShape, ItemNames
  <1>5. \A v \in Pages : items'[v] = IF v = u THEN item ELSE items[v]
    BY <1>0, <1>3 DEF BatchShape
  <1>6. ItemsTrue'
    <2> SUFFICES ASSUME NEW v \in Pages, items'[v] # "open", items'[v] # "overdue"
                 PROVE  fetch'[v] = "done" /\ items'[v] = ItemOfAnswer(gotten[v])'
      BY <1>0, <1>1 DEF ItemsTrue
    <2>1. fetch[v] = "done" /\ items'[v] = ItemOfAnswer(gotten[v])
      BY <1>0, <1>1, <1>3, <1>5 DEF PagesInv, ItemsTrue, PerPage
    <2>2. ItemOfAnswer(gotten[v])' = ItemOfAnswer(gotten[v])
      BY <1>1 DEF ItemOfAnswer, FirecrawlItem, LinkupItem, SerperItem, KeenableItem, Refusal
    <2> QED BY <1>1, <2>1, <2>2
  <1>7. AllOpen' /\ InOrder' /\ FirstErrorOf'
    BY <1>1 DEF AllOpen, InOrder, FirstErrorOf, PerPage, OneByOne
  <1>8. StopExplained' /\ FewLate'
    BY <1>0, <1>1 DEF PagesInv, StopExplained, FewLate, Active, Cleared, Pages
  <1> QED
    BY <1>2, <1>4, <1>6, <1>7, <1>8 DEF BatchInv, PagesInv

LEMMA ClocksKeep == ASSUME BatchInv, DeadlineComes \/ OverallComes PROVE BatchInv'
  <1>0. PagesInv /\ BatchShape
    BY DEF BatchInv, PagesInv
  <1>1. /\ adapter' = adapter /\ count' = count /\ stop' = stop /\ afterStop' = afterStop
        /\ fetch' = fetch /\ gotten' = gotten /\ items' = items /\ firstError' = firstError
        /\ ending = Running /\ ending' = ending
        /\ clocks' = [clocks EXCEPT !.deadline = TRUE] \/ clocks' = [clocks EXCEPT !.overall = TRUE]
    BY DEF DeadlineComes, OverallComes
  <1>2. EndingSound'
    BY <1>1, StillRunning
  <1>3. BatchShape'
    BY <1>0, <1>1 DEF BatchShape, Pages
  <1>4. ItemsTrue'
    BY <1>0, <1>1, ItemsStay DEF PagesInv
  <1>5. AllOpen' /\ InOrder' /\ FirstErrorOf' /\ StopExplained' /\ FewLate'
    BY <1>0, <1>1 DEF PagesInv, AllOpen, InOrder, FirstErrorOf, StopExplained, FewLate, Active, Cleared, Pages
  <1> QED
    BY <1>2, <1>3, <1>4, <1>5 DEF BatchInv, PagesInv

\* The item of the page whose answer stopped the batch is an error.
LEMMA StopLeavesError ==
    ASSUME PagesInv, stop # "none", \A u \in Pages : items[u] # "open"
    PROVE  \E u \in Pages : items[u] \in {"reason", "error", "overdue"}
  <1>1. adapter \in PerPage
    BY DEF PagesInv, StopExplained
  <1>2. PICK u \in Pages : fetch[u] = "done" /\ Telling(gotten[u])
    BY DEF PagesInv, StopExplained
  <1>3. ItemOfAnswer(gotten[u]) \in {"reason", "error"}
    BY <1>1, <1>2, ToldItem
  <1>4. items[u] = "overdue" \/ items[u] = ItemOfAnswer(gotten[u])
    BY <1>1, <1>2 DEF PagesInv, ItemsTrue
  <1> QED BY <1>3, <1>4

LEMMA PerPageItems ==
    ASSUME PagesInv, adapter \in PerPage, NEW u \in Pages
    PROVE  items[u] \in OfAnswers \cup {"open", "overdue"}
  <1>1. gotten[u] \in Reached
    BY DEF PagesInv, BatchShape
  <1>2. ItemOfAnswer(gotten[u]) \in OfAnswers
    BY <1>1, AnswerItems
  <1> QED BY <1>2 DEF PagesInv, ItemsTrue

\* Where every item says its page was not tried, no request went out.
LEMMA NoneTried ==
    ASSUME PagesInv, adapter \in {"keenable", "serper"}, \A u \in Pages : items[u] = "not_tried"
    PROVE  ~SentAny
  <1>1. adapter \in PerPage
    BY DEF PerPage, OneByOne
  <1> SUFFICES ASSUME NEW u \in Pages PROVE fetch[u] = "done" /\ gotten[u].page \in Skipped \cup {"late"}
    BY DEF SentAny, Skipped
  <1>2. fetch[u] = "done" /\ ItemOfAnswer(gotten[u]) = "not_tried"
    BY <1>1 DEF PagesInv, ItemsTrue
  <1>3. gotten[u] \in Reached
    BY DEF PagesInv, BatchShape
  <1> QED
    BY <1>1, <1>2, <1>3, AnswerItems

LEMMA JudgeSound ==
    ASSUME PagesInv, UNCHANGED pagevars, NEW dropped \in SUBSET {u \in Pages : items[u] \in {"page", "blank", "elsewhere"}},
           stop # "none" => \A u \in Pages : items[u] # "open", JudgeItems(dropped)
    PROVE  EndingSound'
  <1> DEFINE kept   == {u \in Pages : items[u] # "absent"} \ dropped
             usable == {u \in kept : items[u] \in {"page", "elsewhere"}}
             left   == Fetched \ dropped
             End(by, class, pages) == ending' = [by |-> by, class |-> class, pages |-> pages, dropped |-> dropped]
             missed == IF stop # "none" THEN stop
                       ELSE IF kept # {} /\ \A u \in kept : items[u] = "not_tried" THEN "deadline" ELSE "contract"
  <1>0. /\ Fetched' = Fetched /\ stop' = stop /\ adapter' = adapter /\ SentAny' = SentAny /\ stop \in Account \cup {"none"}
    BY DEF pagevars, Fetched, SentAny, Pages, PagesInv, BatchShape
  <1>1. left \subseteq usable /\ usable \subseteq kept
    BY DEF Fetched
  <1>2. stop # "none" => usable = left /\ kept # {}
    <2> SUFFICES ASSUME stop # "none" PROVE usable = left /\ kept # {}
      OBVIOUS
    <2>1. adapter \in PerPage
      BY DEF PagesInv, StopExplained
    <2>2. \A u \in Pages : items[u] # "elsewhere"
      BY <2>1, PerPageItems DEF OfAnswers
    <2>3. usable = left
      BY <2>2 DEF Fetched
    <2>4. PICK u \in Pages : items[u] \in {"reason", "error", "overdue"}
      BY StopLeavesError
    <2>5. u \in kept
      BY <2>4
    <2> QED BY <2>3, <2>5
  <1>3. \/ dropped # {} /\ kept = {} /\ End("raise", "contract", {})
        \/ ~(dropped # {} /\ kept = {}) /\ usable = {} /\ End("raise", missed, {})
        \/ usable # {} /\ left = {} /\ End("raise", "contract", {})
        \/ left # {} /\ stop # "none" /\ End("stopped", stop, left)
        \/ left # {} /\ stop = "none" /\ End("return", "none", left)
    BY DEF JudgeItems, EndsWith
  <1>4. (adapter \in {"keenable", "serper"} /\ dropped = {} /\ stop = "none" /\ missed = "deadline") => ~SentAny
    <2> SUFFICES ASSUME adapter \in {"keenable", "serper"}, dropped = {}, stop = "none", missed = "deadline" PROVE ~SentAny
      OBVIOUS
    <2>1. \A u \in kept : items[u] = "not_tried"
      OBVIOUS
    <2>2. \A u \in Pages : items[u] # "absent"
      BY PerPageItems DEF OfAnswers, PerPage, OneByOne
    <2>3. \A u \in Pages : u \in kept
      BY <2>2
    <2> QED BY <2>1, <2>3, NoneTried
  <1>5. "deadline" \notin Account /\ "none" # "deadline" /\ missed \in Account \cup {"deadline", "contract"}
    BY <1>0 DEF Account
  <1>6. stop # "none" => missed = stop
    OBVIOUS
  <1> HIDE DEF kept, usable, left, missed
  <1>7. ending'.dropped = dropped /\ ending'.pages = left /\ BatchEnded'
    BY <1>1, <1>3 DEF BatchEnded, Running
  <1>8. stop # "none" => ending'.class = stop /\ (ending'.by = "stopped" <=> ending'.pages # {})
    BY <1>0, <1>1, <1>2, <1>3, <1>6
  <1>9. ending'.class = "deadline" /\ dropped = {} /\ adapter \in {"keenable", "serper"} => ~SentAny
    BY <1>0, <1>3, <1>4, <1>5, <1>6, <1>8
  <1> QED
    BY <1>0, <1>7, <1>8, <1>9 DEF EndingSound, left

\* An error instead of pages: nothing was fetched, and the account's error is the one that is raised.
LEMMA RaiseSound ==
    ASSUME PagesInv, UNCHANGED pagevars, NEW class, RaiseOf(class), Fetched = {},
           stop # "none" => class = stop, class = "deadline" => adapter \notin {"keenable", "serper"}
    PROVE  EndingSound'
  <1>1. /\ Fetched' = Fetched /\ stop' = stop /\ adapter' = adapter
    BY DEF pagevars, Fetched, Pages
  <1>2. ending' = [by |-> "raise", class |-> class, pages |-> {}, dropped |-> {}]
    BY DEF RaiseOf, EndsWith
  <1>3. ending'.by = "raise" /\ ending'.class = class /\ ending'.pages = {} /\ ending'.dropped = {}
    BY <1>2
  <1> QED BY <1>1, <1>3 DEF EndingSound

LEMMA FinishKeeps == ASSUME BatchInv, Finish PROVE BatchInv'
  <1>0. PagesInv /\ BatchShape /\ UNCHANGED pagevars /\ \A u \in Pages : items[u] # "open"
    BY DEF BatchInv, PagesInv, Finish, pagevars
  <1>1. PagesInv'
    BY <1>0, SamePages
  <1>2. stop \in Account \cup {"none"} /\ (stop # "none" => stop # "deadline")
    BY <1>0 DEF BatchShape, Account
  <1>3. CASE stop # "none" /\ Fetched = {}
    <2>1. RaiseOf(stop)
      BY <1>3 DEF Finish
    <2>2. EndingSound'
      BY <1>0, <1>2, <1>3, <2>1, RaiseSound
    <2> QED BY <1>1, <2>2 DEF BatchInv
  <1>4. CASE stop = "none" /\ LostForError
    <2>1. PICK class : RaiseOf(class)
      BY <1>4 DEF Finish
    <2>2. Fetched = {}
      BY <1>4 DEF LostForError, AllItems, Errors, Fetched
    <2>3. adapter \notin {"keenable", "serper"}
      BY <1>0, <1>4 DEF PagesInv, FirstErrorOf, LostForError
    <2>4. EndingSound'
      BY <1>0, <1>4, <2>1, <2>2, <2>3, RaiseSound
    <2> QED BY <1>1, <2>4 DEF BatchInv
  <1>5. CASE ~(stop # "none" /\ Fetched = {}) /\ ~(stop = "none" /\ LostForError)
    <2>1. PICK dropped \in SUBSET {u \in Pages : items[u] \in {"page", "blank"}} : JudgeItems(dropped)
      BY <1>5 DEF Finish
    <2>2. dropped \in SUBSET {u \in Pages : items[u] \in {"page", "blank", "elsewhere"}}
      OBVIOUS
    <2>3. EndingSound'
      BY <1>0, <2>1, <2>2, JudgeSound
    <2> QED BY <1>1, <2>3 DEF BatchInv
  <1> QED
    BY <1>3, <1>4, <1>5

LEMMA AskAllKeeps == ASSUME BatchInv, AskAll PROVE BatchInv'
  <1>0. PagesInv /\ BatchShape /\ adapter \notin PerPage /\ ending = Running /\ fetch[1] = "queued"
    BY DEF BatchInv, PagesInv, AskAll, PerPage
  <1>1. Fetched = {}
    BY <1>0 DEF PagesInv, AllOpen, Fetched
  <1>2. stop = "none"
    BY <1>0 DEF PagesInv, StopExplained
  <1>3. CASE clocks.deadline
    <2>1. RaiseOf("deadline") /\ UNCHANGED pagevars
      BY <1>3 DEF AskAll, pagevars
    <2>2. EndingSound'
      BY <1>0, <1>1, <1>2, <2>1, RaiseSound DEF PerPage, OneByOne
    <2> QED BY <1>0, <2>1, <2>2, SamePages DEF BatchInv
  <1>4. CASE ~clocks.deadline
    <2>1. /\ adapter' = adapter /\ count' = count /\ clocks' = clocks /\ stop' = stop /\ afterStop' = afterStop
          /\ fetch' = [u \in Pages |-> "sent"] /\ gotten' = gotten /\ items' = items /\ firstError' = firstError
          /\ ending' = ending /\ Pages' = Pages
      BY <1>4 DEF AskAll, Pages
    <2>2. BatchShape'
      BY <1>0, <2>1 DEF BatchShape, Places
    <2>3. AllOpen'
      BY <1>0, <2>1 DEF PagesInv, AllOpen
    <2>4. ItemsTrue' /\ InOrder' /\ StopExplained' /\ FirstErrorOf'
      BY <1>0, <1>2, <2>1 DEF PagesInv, ItemsTrue, InOrder, StopExplained, FirstErrorOf, PerPage
    <2>5. FewLate'
      BY <1>0, <1>2, <2>1 DEF PagesInv, FewLate, PerPage
    <2>6. EndingSound'
      BY <1>0, <2>1, StillRunning
    <2> QED BY <2>2, <2>3, <2>4, <2>5, <2>6 DEF BatchInv, PagesInv
  <1> QED
    BY <1>3, <1>4

LEMMA ReceiveAllKeeps == ASSUME BatchInv, ReceiveAll PROVE BatchInv'
  <1>0. PagesInv /\ BatchShape /\ adapter \notin PerPage /\ ending = Running /\ fetch[1] = "sent"
    BY DEF BatchInv, PagesInv, ReceiveAll, PerPage
  <1>1. stop = "none"
    BY <1>0 DEF PagesInv, StopExplained
  <1>2. /\ adapter' = adapter /\ count' = count /\ clocks' = clocks /\ stop' = stop /\ afterStop' = afterStop
        /\ fetch' = [u \in Pages |-> "done"] /\ gotten' = gotten /\ firstError' = firstError /\ Pages' = Pages
    BY DEF ReceiveAll, Pages
  <1>3. 1 \in Pages /\ \A u \in Pages : fetch'[u] = "done"
    BY <1>0, <1>2, PagesFinite
  <1>4. ListedItems \subseteq ItemNames
    BY DEF ListedItems, TavilyItems, ExaItems, YouItems, ParallelItems, ItemNames, OfAnswers
  <1>5. items' \in [Pages -> ItemNames]
    BY <1>0, <1>4 DEF ReceiveAll, BatchShape
  <1>6. BatchShape'
    BY <1>0, <1>2, <1>5 DEF BatchShape, Places
  <1>7. AllOpen'
    BY <1>0, <1>2, <1>3 DEF AllOpen
  <1>8. ItemsTrue' /\ InOrder' /\ StopExplained' /\ FirstErrorOf'
    BY <1>0, <1>1, <1>2 DEF PagesInv, ItemsTrue, InOrder, StopExplained, FirstErrorOf, PerPage
  <1>9. FewLate'
    BY <1>0, <1>1, <1>2 DEF PagesInv, FewLate, PerPage
  <1>10. EndingSound'
    <2>1. CASE ending' = ending
      BY <1>0, <2>1, StillRunning
    <2>2. CASE ending' # ending
      <3>1. PICK class : RaiseOf(class) /\ items' = items
        BY <2>2 DEF ReceiveAll
      <3>2. Fetched' = {}
        BY <1>0, <1>2, <3>1 DEF PagesInv, AllOpen, Fetched
      <3>3. ending' = [by |-> "raise", class |-> class, pages |-> {}, dropped |-> {}]
        BY <3>1 DEF RaiseOf, EndsWith
      <3>4. ending'.pages = {} /\ ending'.dropped = {}
        BY <3>3
      <3>5. stop' = "none" /\ adapter' \notin {"keenable", "serper"}
        BY <1>0, <1>1, <1>2 DEF PerPage, OneByOne
      <3> QED BY <3>2, <3>4, <3>5 DEF EndingSound
    <2> QED BY <2>1, <2>2
  <1> QED
    BY <1>6, <1>7, <1>8, <1>9, <1>10 DEF BatchInv, PagesInv

LEMMA JudgeAllKeeps == ASSUME BatchInv, JudgeAll PROVE BatchInv'
  <1>0. PagesInv /\ UNCHANGED pagevars
    BY DEF BatchInv, JudgeAll, pagevars
  <1>1. PICK dropped \in SUBSET {u \in Pages : items[u] \in {"page", "blank", "elsewhere"}} : JudgeItems(dropped)
    BY DEF JudgeAll
  <1>2. stop = "none"
    BY <1>0 DEF JudgeAll, PagesInv, StopExplained, PerPage
  <1> QED
    BY <1>0, <1>1, <1>2, JudgeSound, SamePages DEF BatchInv

LEMMA StepBatch == BatchInv /\ [BatchNext]_batchvars => BatchInv'
  <1> SUFFICES ASSUME BatchInv, [BatchNext]_batchvars PROVE BatchInv'
    OBVIOUS
  <1>1. ASSUME NEW u \in Pages, CheckPage(u) PROVE BatchInv'
    BY <1>1, CheckKeeps
  <1>2. ASSUME NEW u \in Pages, SendPage(u) PROVE BatchInv'
    BY <1>2, SendKeeps
  <1>3. ASSUME NEW u \in Pages, ReceivePage(u) PROVE BatchInv'
    BY <1>3, ReceiveKeeps
  <1>4. ASSUME NEW u \in Pages, Collect(u) PROVE BatchInv'
    BY <1>4, CollectKeeps
  <1>5. CASE DeadlineComes \/ OverallComes
    BY <1>5, ClocksKeep
  <1>6. CASE Finish
    BY <1>6, FinishKeeps
  <1>7. CASE AskAll
    BY <1>7, AskAllKeeps
  <1>8. CASE ReceiveAll
    BY <1>8, ReceiveAllKeeps
  <1>9. CASE JudgeAll
    BY <1>9, JudgeAllKeeps
  <1>10. CASE UNCHANGED batchvars
    <2>1. UNCHANGED pagevars /\ ending' = ending
      BY <1>10 DEF batchvars, pagevars
    <2>2. PagesInv'
      BY <2>1, SamePages DEF BatchInv
    <2>3. EndingSound'
      BY <1>10 DEF batchvars, BatchInv, EndingSound, BatchEnded, Fetched, SentAny, Pages
    <2> QED BY <2>2, <2>3 DEF BatchInv
  <1> QED
    BY <1>1, <1>2, <1>3, <1>4, <1>5, <1>6, <1>7, <1>8, <1>9, <1>10 DEF BatchNext

LEMMA InvBatchSound == BatchInv => BatchSound
  <1> SUFFICES ASSUME BatchInv PROVE BatchSound
    OBVIOUS
  <1>1. stop # "none" => \E u \in Pages : LET a == gotten[u] IN
            a.code \notin {0, 200} /\ (a.code \in {400, 403} /\ a.target # "none" => a.empty)
    <2> SUFFICES ASSUME stop # "none"
                 PROVE  \E u \in Pages : LET a == gotten[u] IN
                            a.code \notin {0, 200} /\ (a.code \in {400, 403} /\ a.target # "none" => a.empty)
      OBVIOUS
    <2>1. PICK u \in Pages : Telling(gotten[u])
      BY DEF BatchInv, PagesInv, StopExplained
    <2>2. gotten[u].code \notin {0, 200} /\ (gotten[u].code \in {400, 403} /\ gotten[u].target # "none" => gotten[u].empty)
      BY <2>1, TellingClass
    <2> QED BY <2>2
  <1>2. afterStop < (IF adapter = "linkup" THEN Workers ELSE 1)
    <2>1. BatchShape /\ FewLate /\ Cleared \in SUBSET Pages
      BY DEF BatchInv, PagesInv, Cleared
    <2>2. Cardinality(Cleared) \in Nat
      BY <2>1, PagesFinite
    <2> QED BY <2>1, <2>2, BatchAssumption DEF FewLate, BatchShape
  <1> QED
    BY <1>1, <1>2 DEF BatchSound, BatchInv, EndingSound

\* A batch that goes wrong halfway loses no page that was fetched in time, hands on the error
\* of the account with its class, and sends no more requests after it than were under way:
\* for every number of pages and of workers, every provider and every answer.
THEOREM BatchLosesNothing == BatchSpec => []BatchSound
  <1>1. BatchSpec => []BatchInv
    BY InitBatch, StepBatch, PTL DEF BatchSpec
  <1>2. BatchInv => BatchSound
    BY InvBatchSound
  <1> QED
    BY <1>1, <1>2, PTL

(***************************************************************************)
(* Which item belongs to which URL (extract_match.py)                      *)
(***************************************************************************)
RepliedItems == [url : Spellings \cup {0}, source : Spellings \cup {0}]
MatchShape   == asked \in Seq(Spellings) /\ reply \in Seq(RepliedItems)
Matchings    == [of : [Positions -> {0} \cup DOMAIN reply], used : SUBSET DOMAIN reply]

\* Another spelling is asked for that has both forms of this one.
Contested(p) == \E q \in Positions : Twins(asked[q], asked[p])

\* No item answers two positions, and where spellings compete it names the one it answers.
Matched(m) ==
    /\ m \in Matchings
    /\ \A p \in Positions : m.of[p] # 0 => m.of[p] \in m.used
    /\ \A p, q \in Positions : m.of[p] # 0 /\ m.of[p] = m.of[q] => p = q
    /\ \A p \in Positions : m.of[p] # 0 /\ Contested(p) => NamesUrl(m.of[p], asked[p])

\* What is found stays found.
Kept(m, n) == \A p \in Positions : m.of[p] # 0 => n.of[p] = m.of[p]

\* The evidence a pass accepts.
Strict(key, check) == key = "own" \/ (check /\ key \in {"canonical", "coarse"})

LEMMA Domains ==
    ASSUME MatchShape
    PROVE  /\ \A p \in Positions : p \in Nat /\ asked[p] \in Spellings /\ asked[p] # 0
           /\ \A i \in DOMAIN reply : i \in Nat /\ i # 0 /\ reply[i] \in RepliedItems
           /\ Len(asked) \in Nat /\ Positions = 1 .. Len(asked)
  <1>1. Positions = 1 .. Len(asked) /\ Len(asked) \in Nat
    BY DEF MatchShape, Positions
  <1>2. \A p \in Positions : p \in Nat /\ asked[p] \in Spellings
    BY <1>1 DEF MatchShape
  <1>3. \A i \in DOMAIN reply : i \in Nat /\ i # 0 /\ reply[i] \in RepliedItems
    BY DEF MatchShape
  <1> QED BY <1>1, <1>2, <1>3, MatchAssumption

\* A contested position is ambiguous under every form of its URL but its own spelling.
LEMMA ContestedIsAmbiguous ==
    ASSUME MatchShape, NEW p \in Positions, Contested(p), NEW key \in {"canonical", "coarse"}
    PROVE  Ambiguous(key, p)
  BY DEF Contested, Twins, Ambiguous

\* An item taken in a pass names the URL, if the position is contested.
LEMMA FitNames ==
    ASSUME MatchShape, NEW p \in Positions, Contested(p), NEW i, NEW source \in BOOLEAN, NEW key, NEW check,
           Strict(key, check), ~(check /\ Ambiguous(key, p)),
           Form(key, ItemKey(i, source)) = Form(key, asked[p])
    PROVE  NamesUrl(i, asked[p])
  <1>1. key = "own"
    BY ContestedIsAmbiguous DEF Strict
  <1>2. asked[p] # Nowhere
    BY Domains DEF Nowhere
  <1>3. ItemKey(i, source) = asked[p]
    BY <1>1, <1>2 DEF Form, Nowhere, NoForm
  <1> QED BY <1>3 DEF ItemKey, NamesUrl

LEMMA TakeMatches ==
    ASSUME MatchShape, NEW m, Matched(m), NEW p \in Positions, m.of[p] = 0, NEW i \in DOMAIN reply \ m.used,
           Contested(p) => NamesUrl(i, asked[p])
    PROVE  Matched(Take(m, p, i)) /\ Kept(m, Take(m, p, i))
  <1> DEFINE n == Take(m, p, i)
  <1>0. m.of \in [Positions -> {0} \cup DOMAIN reply] /\ m.used \in SUBSET DOMAIN reply
    BY DEF Matched, Matchings
  <1>1. n.of = [m.of EXCEPT ![p] = i] /\ n.used = m.used \cup {i} /\ n = [of |-> n.of, used |-> n.used]
    BY DEF Take
  <1> HIDE DEF n
  <1>2. n.of \in [Positions -> {0} \cup DOMAIN reply] /\ n.used \in SUBSET DOMAIN reply
    BY <1>0, <1>1
  <1>3. n \in Matchings
    BY <1>1, <1>2 DEF Matchings
  <1>4. \A q \in Positions : n.of[q] = IF q = p THEN i ELSE m.of[q]
    BY <1>0, <1>1
  <1>5. Matched(n) /\ Kept(m, n)
    BY <1>1, <1>3, <1>4 DEF Matched, Kept
  <1> QED BY <1>5 DEF n

\* One turn: nothing is lost, and what is taken is the first item that fits.
LEMMA TurnMatches ==
    ASSUME MatchShape, NEW m, Matched(m), NEW p \in Positions, NEW key, NEW source \in BOOLEAN, NEW check, Strict(key, check)
    PROVE  Matched(OneTurn(m, p, key, source, check)) /\ Kept(m, OneTurn(m, p, key, source, check))
  <1> DEFINE fit == {i \in DOMAIN reply \ m.used :
                        Form(key, asked[p]) # NoForm /\ Form(key, ItemKey(i, source)) = Form(key, asked[p])}
             n == OneTurn(m, p, key, source, check)
  <1>1. CASE m.of[p] # 0 \/ fit = {} \/ (check /\ Ambiguous(key, p))
    <2>1. n = m
      BY <1>1 DEF OneTurn
    <2> QED BY <2>1 DEF Kept
  <1>2. CASE ~(m.of[p] # 0 \/ fit = {} \/ (check /\ Ambiguous(key, p)))
    <2> DEFINE i == CHOOSE v \in fit : \A j \in fit : v <= j
    <2>1. n = Take(m, p, i)
      BY <1>2 DEF OneTurn
    <2>2. i \in fit
      <3>1. fit \in SUBSET Nat
        BY Domains
      <3> HIDE DEF fit
      <3>2. \E v \in fit : \A w \in fit : v <= w
        BY <1>2, <3>1, Least
      <3> QED BY <3>2
    <2> HIDE DEF i
    <2>3. Contested(p) => NamesUrl(i, asked[p])
      BY <1>2, <2>2, FitNames
    <2> HIDE DEF n
    <2> QED BY <1>2, <2>1, <2>2, <2>3, TakeMatches DEF n
  <1> QED BY <1>1, <1>2

\* A pass is its turns, one after the other.
LEMMA PassRuns ==
    ASSUME MatchShape, NEW m, Matched(m), NEW key, NEW source \in BOOLEAN, NEW check, Strict(key, check)
    PROVE  \E run : /\ run[0] = m /\ run[Len(asked)] = Pass(m, key, source, check)
                    /\ \A p \in Positions : run[p] = OneTurn(run[p - 1], p, key, source, check)
                    /\ \A k \in 0 .. Len(asked) : Matched(run[k])
  <1> DEFINE n == Len(asked)
             A == {x \in Matchings : Matched(x)}
             g == [p \in 1 .. n |-> [x \in A |-> OneTurn(x, p, key, source, check)]]
             Runs(r) == r = [p \in 0 .. Len(asked) |-> IF p = 0 THEN m ELSE OneTurn(r[p - 1], p, key, source, check)]
             run == CHOOSE r : Runs(r)
  <1>0. n \in Nat /\ Positions = 1 .. n
    BY Domains
  <1>1. m \in A /\ \A x \in A : Matched(x)
    BY DEF Matched
  <1>2. \A p \in 1 .. n, x \in A : OneTurn(x, p, key, source, check) \in A
    <2> SUFFICES ASSUME NEW p \in 1 .. n, NEW x \in A PROVE OneTurn(x, p, key, source, check) \in A
      OBVIOUS
    <2>1. Matched(OneTurn(x, p, key, source, check))
      BY <1>0, <1>1, TurnMatches
    <2> QED BY <2>1 DEF Matched
  <1>3. g \in [1 .. n -> [A -> A]]
    <2> HIDE DEF A
    <2> QED BY <1>2
  <1>4. \E r : Runs(r)
    <2>1. PICK f : f \in [0 .. n -> A] /\ f[0] = m /\ \A k \in 1 .. n : f[k] = g[k][f[k - 1]]
      <3>1. m \in A /\ n \in Nat /\ g \in [1 .. n -> [A -> A]]
        BY <1>0, <1>1, <1>3
      <3> HIDE DEF A, g, n
      <3>2. \E f : Computes(n, A, m, g, f)
        BY <3>1, Recursion
      <3> QED BY <3>2 DEF Computes
    <2>2. \A k \in 1 .. n : g[k][f[k - 1]] = OneTurn(f[k - 1], k, key, source, check)
      <3> SUFFICES ASSUME NEW k \in 1 .. n PROVE g[k][f[k - 1]] = OneTurn(f[k - 1], k, key, source, check)
        OBVIOUS
      <3>1. f[k - 1] \in A
        <4>1. k - 1 \in 0 .. n
          BY <1>0
        <4> HIDE DEF A
        <4> QED BY <2>1, <4>1
      <3> HIDE DEF A
      <3> QED BY <3>1
    <2>3. f = [k \in 0 .. n |-> IF k = 0 THEN m ELSE OneTurn(f[k - 1], k, key, source, check)]
      <3>1. \A k \in 0 .. n : f[k] = IF k = 0 THEN m ELSE OneTurn(f[k - 1], k, key, source, check)
        <4> HIDE DEF g, A
        <4>1. \A k \in 0 .. n : k = 0 \/ k \in 1 .. n
          BY <1>0
        <4> QED BY <2>1, <2>2, <4>1
      <3>2. f = [k \in 0 .. n |-> f[k]]
        BY <2>1
      <3> HIDE DEF g, A
      <3> QED BY <3>1, <3>2
    <2>4. Runs(f)
      BY <2>3
    <2> HIDE DEF Runs
    <2> QED BY <2>4
  <1>5. Runs(run)
    <2> HIDE DEF Runs
    <2> QED BY <1>4
  <1>6. Pass(m, key, source, check) = run[Len(asked)]
    BY DEF Pass
  <1> HIDE DEF run, A, g
  <1>7. run[0] = m /\ \A p \in 1 .. n : run[p] = OneTurn(run[p - 1], p, key, source, check)
    BY <1>0, <1>5
  <1>8. \A k \in 0 .. n : Matched(run[k])
    <2> DEFINE S == {k \in 0 .. n : Matched(run[k])}
    <2>1. 0 \in S
      BY <1>0, <1>7
    <2>2. \A k \in 0 .. n - 1 : k \in S => k + 1 \in S
      <3> SUFFICES ASSUME NEW k \in 0 .. n - 1, k \in S PROVE k + 1 \in S
        OBVIOUS
      <3>1. k + 1 \in 1 .. n /\ (k + 1) - 1 = k /\ k + 1 \in 0 .. n
        BY <1>0
      <3>2. run[k + 1] = OneTurn(run[k], k + 1, key, source, check)
        BY <1>7, <3>1
      <3>3. Matched(run[k + 1])
        BY <1>0, <3>1, <3>2, TurnMatches
      <3> QED BY <3>1, <3>3
    <2>3. \A k \in 0 .. n : k \in S
      <3> HIDE DEF S
      <3> QED BY <1>0, <2>1, <2>2, InductionTo
    <2> QED BY <2>3
  <1> QED
    BY <1>0, <1>6, <1>7, <1>8

LEMMA PassMatches ==
    ASSUME MatchShape, NEW m, Matched(m), NEW key, NEW source \in BOOLEAN, NEW check, Strict(key, check)
    PROVE  Matched(Pass(m, key, source, check)) /\ Kept(m, Pass(m, key, source, check))
  <1>1. PICK run : /\ run[0] = m /\ run[Len(asked)] = Pass(m, key, source, check)
                   /\ \A p \in Positions : run[p] = OneTurn(run[p - 1], p, key, source, check)
                   /\ \A k \in 0 .. Len(asked) : Matched(run[k])
    BY PassRuns
  <1> DEFINE n == Len(asked)
             S == {k \in 0 .. n : Kept(m, run[k])}
  <1>0. n \in Nat /\ Positions = 1 .. n /\ n \in 0 .. n
    BY Domains
  <1>2. 0 \in S
    BY <1>0, <1>1 DEF Kept
  <1>3. \A k \in 0 .. n - 1 : k \in S => k + 1 \in S
    <2> SUFFICES ASSUME NEW k \in 0 .. n - 1, k \in S PROVE k + 1 \in S
      OBVIOUS
    <2>1. k + 1 \in Positions /\ (k + 1) - 1 = k /\ k \in 0 .. n /\ k + 1 \in 0 .. n
      BY <1>0
    <2>2. run[k + 1] = OneTurn(run[k], k + 1, key, source, check) /\ Matched(run[k])
      BY <1>1, <2>1
    <2>3. Kept(run[k], run[k + 1])
      BY <2>1, <2>2, TurnMatches
    <2>4. Kept(m, run[k + 1])
      BY <2>3 DEF Kept
    <2> QED BY <2>1, <2>4
  <1>4. n \in S
    <2> HIDE DEF S
    <2> QED BY <1>0, <1>2, <1>3, InductionTo
  <1> QED BY <1>0, <1>1, <1>4

-----------------------------------------------------------------------------
\* An item under the URL as it is written is not passed over for it.
ExactFound(m) ==
    \A p \in Positions, j \in DOMAIN reply : reply[j].url = asked[p] =>
        \E q \in Positions : asked[q] = asked[p] /\ m.of[q] # 0 /\ reply[m.of[q]].url = asked[p]

\* What the first pass has done before position k + 1.
FirstPassTo(m, k) ==
    /\ \A p \in Positions : m.of[p] # 0 => p <= k /\ reply[m.of[p]].url = asked[p]
    /\ \A i \in m.used : \E p \in Positions : m.of[p] = i
    /\ \A p \in Positions, j \in DOMAIN reply : p <= k /\ reply[j].url = asked[p] =>
          \E q \in Positions : asked[q] = asked[p] /\ m.of[q] # 0

LEMMA FirstPassTurn ==
    ASSUME MatchShape, NEW m, Matched(m), NEW k \in Nat, k + 1 \in Positions, FirstPassTo(m, k)
    PROVE  FirstPassTo(OneTurn(m, k + 1, "own", FALSE, FALSE), k + 1)
  <1> DEFINE p   == k + 1
             fit == {i \in DOMAIN reply \ m.used :
                        Form("own", asked[p]) # NoForm /\ Form("own", ItemKey(i, FALSE)) = Form("own", asked[p])}
             n   == OneTurn(m, p, "own", FALSE, FALSE)
  <1>0. /\ p \in Positions /\ \A q \in Positions : q \in Nat /\ asked[q] # 0
        /\ \A i \in DOMAIN reply : i \in Nat /\ i # 0
        /\ m.of \in [Positions -> {0} \cup DOMAIN reply] /\ m.used \in SUBSET DOMAIN reply
    BY Domains DEF Matched, Matchings
  <1>1. m.of[p] = 0
    BY <1>0 DEF FirstPassTo
  <1>2. \A i \in DOMAIN reply : i \in fit <=> i \notin m.used /\ reply[i].url = asked[p]
    BY <1>0 DEF ItemKey, Form, Nowhere, NoForm
  <1>3. CASE fit = {}
    <2>1. n = m
      BY <1>3 DEF OneTurn
    <2>2. ASSUME NEW j \in DOMAIN reply, reply[j].url = asked[p]
          PROVE  \E q \in Positions : asked[q] = asked[p] /\ m.of[q] # 0
      <3>1. j \in m.used
        BY <1>2, <1>3, <2>2
      <3>2. PICK q \in Positions : m.of[q] = j
        BY <3>1 DEF FirstPassTo
      <3>3. m.of[q] # 0 /\ reply[m.of[q]].url = asked[q]
        BY <1>0, <3>2 DEF FirstPassTo
      <3> QED BY <2>2, <3>2, <3>3
    <2>3. FirstPassTo(m, p)
      <3>1. \A q \in Positions : q <= p => q <= k \/ q = p
        BY <1>0
      <3>2. \A q \in Positions : q <= k => q <= p
        BY <1>0
      <3> HIDE DEF p
      <3> QED BY <2>2, <3>1, <3>2 DEF FirstPassTo
    <2> QED BY <2>1, <2>3
  <1>4. CASE fit # {}
    <2> DEFINE i == CHOOSE v \in fit : \A j \in fit : v <= j
    <2>1. n = Take(m, p, i)
      BY <1>1, <1>4 DEF OneTurn
    <2>2. i \in fit
      <3>1. fit \in SUBSET Nat
        BY <1>0
      <3> HIDE DEF fit
      <3>2. \E v \in fit : \A w \in fit : v <= w
        BY <1>4, <3>1, Least
      <3> QED BY <3>2
    <2> HIDE DEF i
    <2>3. i \in DOMAIN reply /\ reply[i].url = asked[p] /\ i # 0
      BY <1>0, <1>2, <2>2
    <2>4. n.of = [m.of EXCEPT ![p] = i] /\ n.used = m.used \cup {i}
      <3> HIDE DEF n
      <3> QED BY <2>1 DEF Take
    <2>5. \A q \in Positions : n.of[q] = IF q = p THEN i ELSE m.of[q]
      BY <1>0, <2>4
    <2> HIDE DEF n, fit
    <2>6. ASSUME NEW q \in Positions, n.of[q] # 0 PROVE q <= p /\ reply[n.of[q]].url = asked[q]
      BY <1>0, <2>3, <2>5, <2>6 DEF FirstPassTo
    <2>7. ASSUME NEW j \in n.used PROVE \E q \in Positions : n.of[q] = j
      <3>1. CASE j = i
        BY <1>0, <2>5, <3>1
      <3>2. CASE j # i
        <4>1. PICK q \in Positions : m.of[q] = j
          BY <2>4, <3>2 DEF FirstPassTo
        <4>2. j # 0
          BY <1>0, <2>4, <3>2
        <4>3. q # p
          BY <1>1, <4>1, <4>2
        <4> QED BY <2>5, <4>1, <4>3
      <3> QED BY <3>1, <3>2
    <2>8. ASSUME NEW r \in Positions, NEW j \in DOMAIN reply, r <= p, reply[j].url = asked[r]
          PROVE  \E q \in Positions : asked[q] = asked[r] /\ n.of[q] # 0
      <3>1. CASE r = p
        BY <1>0, <2>3, <2>5, <3>1
      <3>2. CASE r # p
        <4>1. r <= k
          BY <1>0, <2>8, <3>2
        <4>2. PICK q \in Positions : asked[q] = asked[r] /\ m.of[q] # 0
          BY <2>8, <4>1 DEF FirstPassTo
        <4>3. n.of[q] # 0
          BY <2>3, <2>5, <4>2
        <4> QED BY <4>2, <4>3
      <3> QED BY <3>1, <3>2
    <2>9. FirstPassTo(n, p)
      BY <2>6, <2>7, <2>8 DEF FirstPassTo
    <2> QED BY <2>9 DEF n
  <1> QED BY <1>3, <1>4

LEMMA FirstPassFinds ==
    ASSUME MatchShape, NEW m, Matched(m), m.used = {}, \A p \in Positions : m.of[p] = 0
    PROVE  ExactFound(Pass(m, "own", FALSE, FALSE))
  <1> DEFINE key == "own"
             no  == FALSE
  <1>s. Strict(key, no) /\ no \in BOOLEAN
    BY DEF Strict
  <1>t. \A x, p : OneTurn(x, p, key, no, no) = OneTurn(x, p, "own", FALSE, FALSE)
    OBVIOUS
  <1>u. Pass(m, key, no, no) = Pass(m, "own", FALSE, FALSE)
    OBVIOUS
  <1> HIDE DEF key, no
  <1>1. PICK run : /\ run[0] = m /\ run[Len(asked)] = Pass(m, key, no, no)
                   /\ \A p \in Positions : run[p] = OneTurn(run[p - 1], p, key, no, no)
                   /\ \A k \in 0 .. Len(asked) : Matched(run[k])
    BY <1>s, PassRuns
  <1> DEFINE n == Len(asked)
             S == {k \in 0 .. n : FirstPassTo(run[k], k)}
  <1>0. n \in Nat /\ Positions = 1 .. n /\ n \in 0 .. n
    BY Domains
  <1>2. 0 \in S
    BY <1>0, <1>1 DEF FirstPassTo
  <1>3. \A k \in 0 .. n - 1 : k \in S => k + 1 \in S
    <2> SUFFICES ASSUME NEW k \in 0 .. n - 1, k \in S PROVE k + 1 \in S
      OBVIOUS
    <2>1. k + 1 \in Positions /\ (k + 1) - 1 = k /\ k \in 0 .. n /\ k + 1 \in 0 .. n /\ k \in Nat
      BY <1>0
    <2>2. run[k + 1] = OneTurn(run[k], k + 1, "own", FALSE, FALSE) /\ Matched(run[k])
      BY <1>t, <1>1, <2>1
    <2>3. FirstPassTo(run[k + 1], k + 1)
      BY <2>1, <2>2, FirstPassTurn
    <2> QED BY <2>1, <2>3
  <1>4. n \in S
    <2> HIDE DEF S
    <2> QED BY <1>0, <1>2, <1>3, InductionTo
  <1> DEFINE last == Pass(m, "own", FALSE, FALSE)
  <1>5. FirstPassTo(last, n)
    BY <1>u, <1>1, <1>4
  <1> HIDE DEF last
  <1>6. ASSUME NEW p \in Positions, NEW j \in DOMAIN reply, reply[j].url = asked[p]
        PROVE  \E q \in Positions : asked[q] = asked[p] /\ last.of[q] # 0 /\ reply[last.of[q]].url = asked[p]
    <2>1. PICK q \in Positions : asked[q] = asked[p] /\ last.of[q] # 0
      BY <1>0, <1>5, <1>6 DEF FirstPassTo
    <2>2. reply[last.of[q]].url = asked[p]
      BY <1>5, <2>1 DEF FirstPassTo
    <2> QED BY <2>1, <2>2
  <1> QED BY <1>6 DEF ExactFound, last

LEMMA FoundStays == ASSUME NEW m, NEW n, ExactFound(m), Kept(m, n) PROVE ExactFound(n)
  <1> SUFFICES ASSUME NEW p \in Positions, NEW j \in DOMAIN reply, reply[j].url = asked[p]
               PROVE  \E q \in Positions : asked[q] = asked[p] /\ n.of[q] # 0 /\ reply[n.of[q]].url = asked[p]
    BY DEF ExactFound
  <1>1. PICK q \in Positions : asked[q] = asked[p] /\ m.of[q] # 0 /\ reply[m.of[q]].url = asked[p]
    BY DEF ExactFound
  <1> QED BY <1>1 DEF Kept

LEMMA AllPassesMatch == ASSUME MatchShape PROVE Matched(AllPasses) /\ ExactFound(AllPasses)
  <1> DEFINE m0 == [of |-> [p \in Positions |-> 0], used |-> {}]
             m1 == Pass(m0, "own", FALSE, FALSE)
             m2 == Pass(m1, "canonical", FALSE, TRUE)
             m3 == Pass(m2, "own", TRUE, FALSE)
             m4 == Pass(m3, "canonical", TRUE, TRUE)
             m5 == Pass(m4, "coarse", FALSE, TRUE)
             m6 == Pass(m5, "coarse", TRUE, TRUE)
  <1>0. AllPasses = m6
    BY DEF AllPasses
  <1>1. Strict("own", FALSE) /\ Strict("canonical", TRUE) /\ Strict("coarse", TRUE) /\ TRUE \in BOOLEAN /\ FALSE \in BOOLEAN
    BY DEF Strict
  <1>2. m0 \in Matchings /\ m0.used = {} /\ \A p \in Positions : m0.of[p] = 0
    BY DEF Matchings
  <1>3. Matched(m0)
    BY <1>2 DEF Matched
  <1> HIDE DEF m0
  <1>4. Matched(m1) /\ ExactFound(m1)
    BY <1>1, <1>2, <1>3, PassMatches, FirstPassFinds
  <1> HIDE DEF m1
  <1>5. Matched(m2) /\ ExactFound(m2)
    BY <1>1, <1>4, PassMatches, FoundStays
  <1> HIDE DEF m2
  <1>6. Matched(m3) /\ ExactFound(m3)
    BY <1>1, <1>5, PassMatches, FoundStays
  <1> HIDE DEF m3
  <1>7. Matched(m4) /\ ExactFound(m4)
    BY <1>1, <1>6, PassMatches, FoundStays
  <1> HIDE DEF m4
  <1>8. Matched(m5) /\ ExactFound(m5)
    BY <1>1, <1>7, PassMatches, FoundStays
  <1> HIDE DEF m5
  <1>9. Matched(m6) /\ ExactFound(m6)
    BY <1>1, <1>8, PassMatches, FoundStays
  <1> QED BY <1>0, <1>9

LEMMA LoneMatches ==
    ASSUME MatchShape, NEW m, Matched(m), ExactFound(m)
    PROVE  Matched(Lone(m)) /\ ExactFound(Lone(m))
  <1> DEFINE open == {p \in Positions : m.of[p] = 0}
             left == DOMAIN reply \ m.used
             p    == CHOOSE q \in open : TRUE
             i    == CHOOSE j \in left : TRUE
             mute == Form("coarse", asked[p]) = NoForm
  <1>1. CASE Cardinality(open) # 1 \/ Cardinality(left) # 1 \/ mute \/ Ambiguous("coarse", p)
    BY <1>1 DEF Lone
  <1>2. CASE Cardinality(open) = 1 /\ Cardinality(left) = 1 /\ ~mute /\ ~Ambiguous("coarse", p)
    <2>1. Lone(m) = Take(m, p, i)
      BY <1>2 DEF Lone
    <2>2. open # {} /\ left # {}
      <3> HIDE DEF open, left
      <3> QED BY <1>2, FS_EmptySet
    <2>3. p \in open /\ i \in left
      <3> HIDE DEF open, left
      <3> QED BY <2>2
    <2>4. ~Contested(p)
      BY <1>2, <2>3, ContestedIsAmbiguous
    <2> HIDE DEF p, i
    <2>5. Matched(Take(m, p, i)) /\ Kept(m, Take(m, p, i))
      BY <2>3, <2>4, TakeMatches
    <2> QED BY <2>1, <2>5, FoundStays
  <1> QED BY <1>1, <1>2

-----------------------------------------------------------------------------
\* A finished matching: an item answers one URL only, it names a contested one, and no exact match is passed over.
RightMatching(n) ==
    /\ \A p, q \in Positions : n.of[p] # 0 /\ n.of[p] = n.of[q] => asked[p] = asked[q]
    /\ \A p \in Positions : n.of[p] # 0 /\ Contested(p) => NamesUrl(n.of[p], asked[p])
    /\ ExactFound(n)

LEMMA SharedMatches == ASSUME MatchShape, NEW m, Matched(m), ExactFound(m) PROVE RightMatching(Shared(m))
  <1> DEFINE Same(p)  == {q \in 1 .. p - 1 : asked[q] = asked[p] /\ m.of[q] # 0}
             First(p) == CHOOSE q \in Same(p) : \A r \in Same(p) : q <= r
             n == Shared(m)
  <1>0. m.of \in [Positions -> {0} \cup DOMAIN reply] /\ Positions = 1 .. Len(asked) /\ Len(asked) \in Nat
    BY Domains DEF Matched, Matchings
  <1>1. ASSUME NEW p \in Positions, Same(p) # {}
        PROVE  First(p) \in Positions /\ asked[First(p)] = asked[p] /\ m.of[First(p)] # 0
    <2>1. Same(p) \in SUBSET Nat
      BY <1>0
    <2> DEFINE S == Same(p)
    <2> HIDE DEF S
    <2>2. \E q \in S : \A r \in S : q <= r
      BY <1>1, <2>1, Least DEF S
    <2>3. (CHOOSE q \in S : \A r \in S : q <= r) \in S
      BY <2>2
    <2>4. First(p) \in Same(p)
      BY <2>3 DEF S
    <2> QED BY <1>0, <2>4
  <1>2. n.of = [p \in Positions |-> IF m.of[p] # 0 \/ Same(p) = {} THEN m.of[p] ELSE m.of[First(p)]]
    <2>1. m = [of |-> m.of, used |-> m.used]
      BY DEF Matched, Matchings
    <2> QED BY <2>1 DEF Shared
  <1> HIDE DEF First, Same, n
  \* Every position has what some position with its URL had.
  <1>3. \A p \in Positions : n.of[p] # 0 =>
           \E q \in Positions : asked[q] = asked[p] /\ m.of[q] = n.of[p]
    BY <1>1, <1>2
  <1>6. ASSUME NEW p \in Positions, NEW q \in Positions, n.of[p] # 0, n.of[p] = n.of[q] PROVE asked[p] = asked[q]
    <2>1. PICK r \in Positions : asked[r] = asked[p] /\ m.of[r] = n.of[p]
      BY <1>3, <1>6
    <2>2. PICK s \in Positions : asked[s] = asked[q] /\ m.of[s] = n.of[q]
      BY <1>3, <1>6
    <2>3. r = s
      BY <1>6, <2>1, <2>2 DEF Matched
    <2> QED BY <2>1, <2>2, <2>3
  <1>7. ASSUME NEW p \in Positions, n.of[p] # 0, Contested(p) PROVE NamesUrl(n.of[p], asked[p])
    <2>1. PICK r \in Positions : asked[r] = asked[p] /\ m.of[r] = n.of[p]
      BY <1>3, <1>7
    <2>2. Contested(r)
      BY <1>7, <2>1 DEF Contested
    <2>3. NamesUrl(m.of[r], asked[r])
      BY <1>7, <2>1, <2>2 DEF Matched
    <2> QED BY <2>1, <2>3
  <1>8. Kept(m, n)
    BY <1>2 DEF Kept
  <1>9. ExactFound(n)
    BY <1>8, FoundStays
  <1> QED BY <1>6, <1>7, <1>9 DEF n, RightMatching

MatchInv == asked \in Asks /\ reply \in Replies /\ (matched = Unmatched \/ RightMatching(matched))

LEMMA MatchingIsSound == ASSUME MatchInv PROVE MatchIsSound
  <1>1. CASE matched = Unmatched
    BY <1>1 DEF MatchIsSound, Given
  <1>2. CASE matched # Unmatched
    <2>1. RightMatching(matched) /\ \A p : Given(p) = matched.of[p]
      BY <1>2 DEF MatchInv, Given
    <2>2. ASSUME NEW p \in Positions, Given(p) # 0, NEW q \in Positions, Given(q) = Given(p) PROVE asked[q] = asked[p]
      BY <2>1, <2>2 DEF RightMatching
    <2>3. ASSUME NEW p \in Positions, Given(p) # 0,
                 \E q \in Positions : Twins(asked[q], asked[p])
          PROVE  NamesUrl(Given(p), asked[p])
      BY <2>1, <2>3 DEF RightMatching, Contested
    <2>4. ASSUME NEW p \in Positions, NEW j \in DOMAIN reply, reply[j].url = asked[p]
          PROVE  \E q \in Positions : asked[q] = asked[p] /\ Given(q) # 0 /\ reply[Given(q)].url = asked[p]
      BY <2>1, <2>4 DEF RightMatching, ExactFound
    <2> QED BY <2>2, <2>3, <2>4 DEF MatchIsSound
  <1> QED BY <1>1, <1>2

LEMMA MatchInvStep == ASSUME MatchInv, [MatchNext]_matchvars PROVE MatchInv'
  <1>1. asked' = asked /\ reply' = reply
    BY DEF MatchNext, MatchItems, matchvars
  <1>3. matched' = Unmatched \/ RightMatching(matched')
    <2>1. CASE MatchItems
      <3>1. MatchShape
        BY MatchAssumption DEF MatchInv, MatchShape, RepliedItems
      <3>2. Matched(Lone(AllPasses)) /\ ExactFound(Lone(AllPasses))
        BY <3>1, AllPassesMatch, LoneMatches
      <3> QED BY <2>1, <3>1, <3>2, SharedMatches DEF MatchItems
    <2>2. CASE UNCHANGED matchvars
      BY <2>2 DEF MatchInv, matchvars
    <2> QED BY <2>1, <2>2 DEF MatchNext
  <1>4. RightMatching(matched') => RightMatching(matched)'
    BY <1>1 DEF RightMatching, Positions, Contested, Twins, Form, Nowhere, NamesUrl, ExactFound
  <1> QED BY <1>1, <1>3, <1>4 DEF MatchInv, Unmatched

\* No page answers two different URLs, a page that names a URL exactly is not passed over for
\* it, and where spellings compete a page answers only the one it names: match_extract_items.
THEOREM MatchIsRight == MatchSpec => []MatchIsSound
  <1>1. MatchInit => MatchInv
    BY DEF MatchInit, MatchInv
  <1>2. MatchInv /\ [MatchNext]_matchvars => MatchInv'
    BY MatchInvStep
  <1>3. MatchInv => MatchIsSound
    BY MatchingIsSound
  <1> QED BY <1>1, <1>2, <1>3, PTL DEF MatchSpec

(***************************************************************************)
(* The way of the pages to the caller (extract.py, compat_v3.py)           *)
(***************************************************************************)
ProcessedOf(wanted) == SubSeq(wanted.urls, 1, IF Len(wanted.urls) < UrlLimit THEN Len(wanted.urls) ELSE UrlLimit)

\* An item answers the page u of a call under some settings.
ItemFits(item, u, private) ==
    /\ item = [url |-> item.url, page |-> item.page, by |-> item.by, cut |-> item.cut, kept |-> item.kept]
    /\ item.url \in {u, LandsOn[u]}
    /\ item.page # Pageless => item.page.of = u /\ (u \notin PrivatePages \/ private)
    /\ item.page = Pageless => ~item.kept
    /\ item.kept => item.cut

\* A page that is cut says so.
CutRight(item, wanted) == item.page # Pageless => (item.cut <=> wanted.tight /\ item.page.of \in LongPages)

\* An entry of the cache is whole, and its pages were read under the settings of its key.
EntrySound(e) ==
    /\ DOMAIN e.items = DOMAIN ProcessedOf(e.key.call)
    /\ \A i \in DOMAIN e.items : LET item == e.items[i] IN
        /\ ItemFits(item, e.key.call.urls[i], e.key.private)
        /\ CutRight(item, e.key.call)
        /\ item.page # Pageless /\ item.by = item.page.by
        /\ \A k \in DOMAIN e.key.basis : e.key.basis[k] = item.page.by => e.key.at[k] = item.page.at
        /\ e.key.call.provider \in {AnyProvider, item.page.by} => item.page.by \in Range(e.key.basis)

\* Of the provider asked for, and of all if none was, the settings of the call are the page's.
ReadUnder(page, wanted, settings) == wanted.provider \in {AnyProvider, page.by} => page.at = settings.at[page.by]

\* An item of the call, at its place in the list.
ItemSound(list, i, wanted, settings, cached, phase) == LET item == list[i] IN
    /\ ItemFits(item, wanted.urls[i], settings.private)
    /\ phase = "bound" => ~cached /\ ~item.kept
    /\ phase # "bound" => CutRight(item, wanted)
    /\ item.page # Pageless => ReadUnder(item.page, wanted, settings)
    /\ item.page # Pageless /\ ~cached =>
          /\ item.by = item.page.by /\ item.page.at = settings.at[item.by]
          /\ item.by \in Range(PlanFor(wanted, settings))
    /\ cached => /\ item.page # Pageless
                 /\ item.by \in {NoOne, item.page.by} \/ \E j \in DOMAIN list \ {i} : list[j].url = item.url

AtWork(phase) == phase \in {"bound", "verify", "deliver", "told"}

\* One item for each processed page.
ListSound(list, wanted, settings, cached, phase) ==
    /\ \E situation \in Situations : situation.call = wanted /\ situation.site = settings
    /\ AtWork(phase) => /\ list = [i \in DOMAIN ProcessedOf(wanted) |-> list[i]]
                        /\ \A i \in DOMAIN list : ItemSound(list, i, wanted, settings, cached, phase)

DeliveryInv ==
    /\ callPhase \in {"idle", "ask", "bound", "verify", "deliver", "told"}
    /\ callPhase # "idle" => ListSound(pageItems, extraction, inForce, fromCache, callPhase)
    /\ callPhase = "verify" => fromCache
    /\ callPhase = "ask" => ~fromCache
    /\ \A e \in shelf : EntrySound(e)
    /\ DeliverySound

-----------------------------------------------------------------------------
CallShape(wanted) == wanted.urls \in Seq(Nat \ {0})

LEMMA ProcessedShape ==
    ASSUME NEW wanted, CallShape(wanted)
    PROVE  \E n \in Nat :
              /\ n <= Len(wanted.urls) /\ n <= UrlLimit /\ (n < Len(wanted.urls) => n = UrlLimit) /\ Len(wanted.urls) \in Nat
              /\ Len(ProcessedOf(wanted)) = n /\ DOMAIN ProcessedOf(wanted) = 1 .. n
              /\ \A i \in 1 .. n : ProcessedOf(wanted)[i] = wanted.urls[i]
  <1> DEFINE urls == wanted.urls
             n == IF Len(urls) < UrlLimit THEN Len(urls) ELSE UrlLimit
  <1>1. urls \in Seq(Nat \ {0}) /\ Len(urls) \in Nat /\ UrlLimit \in Nat
    BY DeliveryAssumption DEF CallShape
  <1> HIDE DEF urls
  <1>2. n \in Nat /\ n <= Len(urls) /\ n <= UrlLimit /\ (n < Len(urls) => n = UrlLimit)
    BY <1>1
  <1>3. ProcessedOf(wanted) = SubSeq(urls, 1, n)
    BY DEF ProcessedOf, urls
  <1> HIDE DEF n
  <1>4. Len(ProcessedOf(wanted)) = n /\ DOMAIN ProcessedOf(wanted) = 1 .. n /\ \A i \in 1 .. n : ProcessedOf(wanted)[i] = urls[i]
    BY <1>1, <1>2, <1>3
  <1> QED BY <1>1, <1>2, <1>4 DEF urls

-----------------------------------------------------------------------------
\* The items before i with its address, and i itself, have observations.
Clear(i) == \A s \in 1 .. i : pageItems[s].url = pageItems[i].url => Observed(s)

\* The first k items have taken their places.
PlacedTo(taken, n, k) ==
    /\ taken \in [1 .. n -> 0 .. k]
    /\ \A s \in 1 .. n : taken[s] # 0 => s <= taken[s] /\ pageItems[taken[s]].url = pageItems[s].url
    /\ \A r, s \in 1 .. n : taken[r] # 0 /\ taken[r] = taken[s] => r = s
    /\ \A i \in 1 .. n : i <= k /\ Clear(i) => taken[i] = i

LEMMA PlaceStep ==
    ASSUME NEW n \in Nat, DOMAIN pageItems = 1 .. n, NEW k \in 0 .. n - 1, NEW taken, PlacedTo(taken, n, k)
    PROVE  PlacedTo(Place(taken, k + 1), n, k + 1)
  <1> DEFINE i == k + 1
             free == {s \in 1 .. n : pageItems[s].url = pageItems[i].url /\ taken[s] = 0}
             t == Place(taken, i)
  <1>0. i \in 1 .. n /\ taken \in [1 .. n -> 0 .. k] /\ k \in Nat
    BY DEF PlacedTo
  <1>1. CASE ~Observed(i)
    <2>1. t = taken
      BY <1>1 DEF Place
    <2>2. ~Clear(i)
      BY <1>0, <1>1 DEF Clear
    <2>3. taken \in [1 .. n -> 0 .. i]
      BY <1>0
    <2>4. \A j \in 1 .. n : j <= i /\ Clear(j) => j <= k
      BY <1>0, <2>2
    <2> HIDE DEF i
    <2>5. PlacedTo(taken, n, i)
      BY <2>3, <2>4 DEF PlacedTo
    <2> QED BY <2>1, <2>5 DEF i
  <1>2. CASE Observed(i)
    <2> DEFINE s == CHOOSE r \in free : \A other \in free : r <= other
    <2>1. t = [taken EXCEPT ![s] = i]
      BY <1>2 DEF Place
    <2>2. taken[i] = 0
      BY <1>0 DEF PlacedTo
    <2>3. s \in free /\ \A other \in free : s <= other
      <3>1. free \in SUBSET Nat /\ i \in free
        BY <1>0, <2>2
      <3> HIDE DEF free
      <3>2. \E v \in free : \A w \in free : v <= w
        BY <3>1, Least
      <3> QED BY <3>2
    <2> HIDE DEF s
    <2>4. s \in 1 .. n /\ pageItems[s].url = pageItems[i].url /\ taken[s] = 0 /\ s <= i
      BY <1>0, <2>2, <2>3
    <2>5. \A r \in 1 .. n : t[r] = IF r = s THEN i ELSE taken[r]
      BY <1>0, <2>1
    <2>6. t \in [1 .. n -> 0 .. i]
      <3>1. t = [r \in 1 .. n |-> IF r = s THEN i ELSE taken[r]]
        BY <1>0, <2>1
      <3>2. i \in 0 .. i /\ \A r \in 1 .. n : taken[r] \in 0 .. i
        BY <1>0
      <3> HIDE DEF i, t
      <3> QED BY <3>1, <3>2
    <2> HIDE DEF t
    <2>7. \A r \in 1 .. n : taken[r] # i /\ taken[r] \in 0 .. k
      BY <1>0
    <2>8. ASSUME NEW r \in 1 .. n, t[r] # 0 PROVE r <= t[r] /\ pageItems[t[r]].url = pageItems[r].url
      BY <2>4, <2>5, <2>8 DEF PlacedTo
    <2>9. ASSUME NEW q \in 1 .. n, NEW r \in 1 .. n, t[q] # 0, t[q] = t[r] PROVE q = r
      BY <2>5, <2>7, <2>9 DEF PlacedTo
    <2>10. ASSUME NEW j \in 1 .. n, j <= i, Clear(j) PROVE t[j] = j
      <3>1. CASE j = i
        <4>1. \A r \in free : r < i => FALSE
          <5> SUFFICES ASSUME NEW r \in free, r < i PROVE FALSE
            OBVIOUS
          <5>1. r \in 1 .. n /\ r <= k /\ pageItems[r].url = pageItems[i].url /\ taken[r] = 0
            BY <1>0
          <5>2. Clear(r)
            BY <1>0, <2>10, <3>1, <5>1 DEF Clear
          <5>3. taken[r] = r
            BY <5>1, <5>2 DEF PlacedTo
          <5> QED BY <5>1, <5>3
        <4>2. s = i
          BY <1>0, <2>3, <2>4, <4>1
        <4> QED BY <1>0, <2>5, <3>1, <4>2
      <3>2. CASE j # i
        <4>1. j <= k /\ taken[j] = j
          BY <1>0, <2>10, <3>2 DEF PlacedTo
        <4>2. j # s
          BY <2>4, <4>1
        <4> QED BY <2>5, <4>1, <4>2
      <3> QED BY <3>1, <3>2
    <2> HIDE DEF i
    <2>11. PlacedTo(t, n, i)
      BY <2>6, <2>8, <2>9, <2>10 DEF PlacedTo
    <2> QED BY <2>11 DEF i, t
  <1> QED BY <1>1, <1>2

LEMMA PlacedAll ==
    ASSUME NEW n \in Nat, pageItems = [i \in 1 .. n |-> pageItems[i]]
    PROVE  PlacedTo(Placed, n, n)
  <1> DEFINE A == [1 .. n -> 0 .. n]
             none == [s \in 1 .. n |-> 0]
             g == [p \in 1 .. n |-> [x \in A |-> Place(x, p)]]
             Takes(f) == f = [i \in 0 .. n |-> IF i = 0 THEN none ELSE Place(f[i - 1], i)]
             run == CHOOSE f : Takes(f)
  <1>0. DOMAIN pageItems = 1 .. n /\ Len(pageItems) = n
    BY ListOf
  <1>1. none \in A
    OBVIOUS
  <1>2. \A p \in 1 .. n, x \in A : Place(x, p) \in A
    <2> SUFFICES ASSUME NEW p \in 1 .. n, NEW x \in A PROVE Place(x, p) \in A
      OBVIOUS
    <2> DEFINE free == {r \in DOMAIN pageItems : pageItems[r].url = pageItems[p].url /\ x[r] = 0}
               s    == CHOOSE r \in free : \A other \in free : r <= other
    <2>1. Place(x, p) = x \/ Place(x, p) = [x EXCEPT ![s] = p]
      BY DEF Place
    <2> HIDE DEF s
    <2>2. [x EXCEPT ![s] = p] = [r \in 1 .. n |-> IF r = s THEN p ELSE x[r]]
      OBVIOUS
    <2>3. \A r \in 1 .. n : (IF r = s THEN p ELSE x[r]) \in 0 .. n
      OBVIOUS
    <2>4. [x EXCEPT ![s] = p] \in A
      BY <2>2, <2>3
    <2> HIDE DEF A
    <2> QED BY <2>1, <2>4
  <1>3. g \in [1 .. n -> [A -> A]]
    <2> HIDE DEF A
    <2> QED BY <1>2
  <1>4. PICK f : Computes(n, A, none, g, f)
    <2> HIDE DEF A, g, none
    <2> QED BY <1>1, <1>3, Recursion
  <1>5. \A k \in 1 .. n : f[k] = Place(f[k - 1], k)
    <2> SUFFICES ASSUME NEW k \in 1 .. n PROVE f[k] = Place(f[k - 1], k)
      OBVIOUS
    <2>1. k - 1 \in 0 .. n
      OBVIOUS
    <2>2. f[k - 1] \in A /\ f[k] = g[k][f[k - 1]]
      <3> HIDE DEF A, g
      <3> QED BY <1>4, <2>1 DEF Computes
    <2> HIDE DEF A
    <2> QED BY <2>2
  <1>6. Takes(f)
    <2>1. f[0] = none /\ f = [k \in 0 .. n |-> f[k]]
      <3> HIDE DEF A, g, none
      <3> QED BY <1>4 DEF Computes
    <2>2. \A k \in 0 .. n : f[k] = IF k = 0 THEN none ELSE Place(f[k - 1], k)
      <3> HIDE DEF none
      <3>1. \A k \in 0 .. n : k = 0 \/ k \in 1 .. n
        OBVIOUS
      <3> QED BY <1>5, <2>1, <3>1
    <2> HIDE DEF none
    <2> QED BY <2>1, <2>2
  <1>7. Takes(run)
    <2> HIDE DEF Takes
    <2> QED BY <1>6
  <1>8. Placed = run[n]
    BY <1>0 DEF Placed
  <1> HIDE DEF run
  <1>9. run[0] = none /\ \A k \in 1 .. n : run[k] = Place(run[k - 1], k)
    <2> HIDE DEF none
    <2> QED BY <1>7
  <1> DEFINE S == {k \in 0 .. n : PlacedTo(run[k], n, k)}
  <1>10. 0 \in S
    BY <1>9 DEF PlacedTo
  <1>11. \A k \in 0 .. n - 1 : k \in S => k + 1 \in S
    <2> SUFFICES ASSUME NEW k \in 0 .. n - 1, k \in S PROVE k + 1 \in S
      OBVIOUS
    <2>1. k + 1 \in 1 .. n /\ (k + 1) - 1 = k /\ k + 1 \in 0 .. n
      OBVIOUS
    <2>2. run[k + 1] = Place(run[k], k + 1)
      BY <1>9, <2>1
    <2>3. PlacedTo(Place(run[k], k + 1), n, k + 1)
      BY <1>0, PlaceStep
    <2> QED BY <2>1, <2>2, <2>3
  <1>12. n \in S
    <2>1. n \in 0 .. n
      OBVIOUS
    <2> HIDE DEF S
    <2> QED BY <1>10, <1>11, <2>1, InductionTo
  <1> QED BY <1>8, <1>12

-----------------------------------------------------------------------------
LEMMA SituationShape ==
    ASSUME NEW situation \in Situations
    PROVE  CallShape(situation.call) /\ situation.site.order \in Seq(DOMAIN situation.site.at)
  BY DeliveryAssumption DEF CallShape

\* The providers a call is planned for are those of its identity, as far as the call leaves them open.
LEMMA BasisHasServer ==
    ASSUME NEW wanted, NEW settings, NEW p, wanted.provider \in {AnyProvider, p},
           wanted.provider = AnyProvider => p \in Range(PlanFor(wanted, settings))
    PROVE  p \in Range(BasisOf(wanted, settings))
  <1>1. CASE wanted.provider = AnyProvider
    <2>1. PlanFor(wanted, settings) = settings.order /\ BasisOf(wanted, settings) = settings.order
      BY <1>1 DEF PlanFor, BasisOf
    <2> QED BY <1>1, <2>1
  <1>2. CASE wanted.provider # AnyProvider
    <2>1. BasisOf(wanted, settings) = <<p>>
      BY <1>2 DEF BasisOf
    <2>2. 1 \in DOMAIN <<p>> /\ <<p>>[1] = p
      OBVIOUS
    <2> QED BY <2>1, <2>2 DEF Range
  <1> QED BY <1>1, <1>2

\* What is taken from the cache answers the call under its settings.
LEMMA HitSound ==
    ASSUME NEW e, EntrySound(e), NEW situation \in Situations, e.key = IdentityFor(situation.call, situation.site)
    PROVE  ListSound(FromMaterial(e), situation.call, situation.site, TRUE, "verify")
  <1> DEFINE wanted   == situation.call
             settings == situation.site
             list     == FromMaterial(e)
  <1>0. CallShape(wanted)
    BY SituationShape
  <1>1. /\ e.key.call = wanted /\ e.key.basis = BasisOf(wanted, settings) /\ e.key.private = settings.private
        /\ e.key.at = EndpointsOf(BasisOf(wanted, settings), settings)
    BY DEF IdentityFor, CanonicalForm
  <1> HIDE DEF wanted, settings
  <1>2. DOMAIN e.items = DOMAIN ProcessedOf(wanted)
    BY <1>1 DEF EntrySound
  <1>3. DOMAIN list = DOMAIN ProcessedOf(wanted) /\ list = [i \in DOMAIN ProcessedOf(wanted) |-> list[i]]
    BY <1>2 DEF FromMaterial
  <1>4. ASSUME NEW i \in DOMAIN list
        PROVE  \E by : /\ list[i] = [e.items[i] EXCEPT !.by = by]
                       /\ by = NoOne \/ by = e.items[i].by \/ \E j \in DOMAIN list \ {i} : e.items[j].url = e.items[i].url
    <2> DEFINE same == {s \in DOMAIN e.items : e.items[s].url = e.items[i].url}
               last == CHOOSE s \in same : \A other \in same : s >= other
               by   == IF Cardinality(Servers(e.items)) > 1 THEN e.items[last].by ELSE NoOne
    <2>1. list[i] = [e.items[i] EXCEPT !.by = by]
      BY <1>2, <1>3 DEF FromMaterial
    <2>2. last \in same
      <3>1. PICK n \in Nat : DOMAIN ProcessedOf(wanted) = 1 .. n
        BY <1>0, ProcessedShape
      <3>2. same \in SUBSET (0 .. n) /\ i \in same
        BY <1>2, <1>3, <3>1
      <3> HIDE DEF same
      <3>3. \E v \in same : \A w \in same : v >= w
        BY <3>1, <3>2, Greatest
      <3> QED BY <3>3
    <2> HIDE DEF last
    <2>3. by = NoOne \/ by = e.items[i].by \/ \E j \in DOMAIN list \ {i} : e.items[j].url = e.items[i].url
      BY <1>2, <1>3, <2>2
    <2> HIDE DEF by, list
    <2> QED BY <2>1, <2>3
  <1> HIDE DEF list
  <1>5. ASSUME NEW i \in DOMAIN list
        PROVE  \E by : /\ list[i] = [url |-> e.items[i].url, page |-> e.items[i].page, by |-> by,
                                     cut |-> e.items[i].cut, kept |-> e.items[i].kept]
                       /\ by = NoOne \/ by = e.items[i].by \/ \E j \in DOMAIN list \ {i} : e.items[j].url = e.items[i].url
    <2>1. PICK by : /\ list[i] = [e.items[i] EXCEPT !.by = by]
                    /\ by = NoOne \/ by = e.items[i].by \/ \E j \in DOMAIN list \ {i} : e.items[j].url = e.items[i].url
      BY <1>4
    <2>2. e.items[i] = [url |-> e.items[i].url, page |-> e.items[i].page, by |-> e.items[i].by,
                        cut |-> e.items[i].cut, kept |-> e.items[i].kept]
      BY <1>2, <1>3 DEF EntrySound, ItemFits
    <2>3. list[i] = [url |-> e.items[i].url, page |-> e.items[i].page, by |-> by,
                     cut |-> e.items[i].cut, kept |-> e.items[i].kept]
      BY <2>1, <2>2
    <2> QED BY <2>1, <2>3
  <1>6. \A i \in DOMAIN list : list[i].url = e.items[i].url
    BY <1>5
  <1>7. ASSUME NEW i \in DOMAIN list PROVE ItemSound(list, i, wanted, settings, TRUE, "verify")
    <2> DEFINE old == e.items[i]
    <2>1. PICK by : /\ list[i] = [url |-> old.url, page |-> old.page, by |-> by, cut |-> old.cut, kept |-> old.kept]
                    /\ by = NoOne \/ by = old.by \/ \E j \in DOMAIN list \ {i} : e.items[j].url = old.url
      BY <1>5
    <2>2. /\ ItemFits(old, wanted.urls[i], settings.private) /\ CutRight(old, wanted)
          /\ old.page # Pageless /\ old.by = old.page.by
          /\ \A k \in DOMAIN e.key.basis : e.key.basis[k] = old.page.by => e.key.at[k] = old.page.at
          /\ wanted.provider \in {AnyProvider, old.page.by} => old.page.by \in Range(e.key.basis)
      BY <1>1, <1>2, <1>3 DEF EntrySound
    <2> HIDE DEF old
    <2> DEFINE item == list[i]
    <2>3. item.url = old.url /\ item.page = old.page /\ item.by = by /\ item.cut = old.cut /\ item.kept = old.kept
      BY <2>1
    <2>4. ItemFits(item, wanted.urls[i], settings.private) /\ CutRight(item, wanted)
      BY <2>1, <2>2, <2>3 DEF ItemFits, CutRight
    <2>5. item.by \in {NoOne, item.page.by} \/ \E j \in DOMAIN list \ {i} : list[j].url = item.url
      BY <1>6, <2>1, <2>2, <2>3
    <2>6. ASSUME wanted.provider \in {AnyProvider, old.page.by} PROVE old.page.at = settings.at[old.page.by]
      <3>1. PICK k \in DOMAIN e.key.basis : e.key.basis[k] = old.page.by
        BY <2>2, <2>6 DEF Range
      <3>2. e.key.at[k] = settings.at[e.key.basis[k]]
        BY <1>1 DEF EndpointsOf
      <3> QED BY <2>2, <3>1, <3>2
    <2>7. ReadUnder(item.page, wanted, settings)
      BY <2>3, <2>6 DEF ReadUnder
    <2> QED BY <2>2, <2>3, <2>4, <2>5, <2>7 DEF ItemSound
  <1>8. \E s \in Situations : s.call = wanted /\ s.site = settings
    BY DEF wanted, settings
  <1>9. ListSound(list, wanted, settings, TRUE, "verify")
    BY <1>3, <1>7, <1>8 DEF ListSound
  <1> QED BY <1>9 DEF list, wanted, settings

LEMMA BeginKeeps == ASSUME DeliveryInv, BeginCall PROVE DeliveryInv'
  <1>1. PICK situation \in Situations :
            /\ extraction' = situation.call /\ inForce' = situation.site
            /\ fromCache' = (Cached(situation.call, situation.site) # {})
            /\ pageItems' = IF fromCache' THEN FromMaterial(CHOOSE e \in Cached(situation.call, situation.site) : TRUE) ELSE <<>>
            /\ callPhase' = IF fromCache' THEN "verify" ELSE "ask"
    BY DEF BeginCall
  <1>2. \A e \in shelf' : EntrySound(e)
    BY DEF BeginCall, DeliveryInv
  <1>3. CASE ~fromCache'
    <2>1. callPhase' = "ask"
      BY <1>1, <1>3
    <2>2. ListSound(pageItems', extraction', inForce', fromCache', callPhase')
      BY <1>1, <2>1 DEF ListSound, AtWork
    <2> QED BY <1>2, <1>3, <2>1, <2>2 DEF DeliveryInv, DeliverySound
  <1>4. CASE fromCache'
    <2>1. PICK e \in Cached(situation.call, situation.site) : pageItems' = FromMaterial(e)
      BY <1>1, <1>4
    <2>2. EntrySound(e) /\ e.key = IdentityFor(situation.call, situation.site)
      BY DEF Cached, DeliveryInv
    <2>3. callPhase' = "verify" /\ fromCache' = TRUE
      BY <1>1, <1>4
    <2>4. ListSound(pageItems', extraction', inForce', fromCache', callPhase')
      BY <1>1, <2>1, <2>2, <2>3, HitSound
    <2> QED BY <1>2, <1>4, <2>3, <2>4 DEF DeliveryInv, DeliverySound
  <1> QED BY <1>3, <1>4

LEMMA CallInOrder == Processing = ProcessedOf(extraction)
  BY DEF Processing, ProcessedOf

LEMMA ReadKeeps == ASSUME DeliveryInv, ReadPages PROVE DeliveryInv'
  <1>1. PICK got \in [DOMAIN Processing -> UNION {MayCome(Processing[i]) : i \in DOMAIN Processing}] :
            /\ \A i \in DOMAIN got : got[i] \in MayCome(Processing[i])
            /\ pageItems' = got
    BY DEF ReadPages
  <1>2. callPhase = "ask" /\ callPhase' = "bound" /\ UNCHANGED <<inForce, extraction, fromCache, shelf>>
    BY DEF ReadPages
  <1>3. ~fromCache /\ ListSound(pageItems, extraction, inForce, fromCache, callPhase) /\ \A e \in shelf : EntrySound(e)
    BY <1>2 DEF DeliveryInv
  <1>4. CallShape(extraction)
    BY <1>3, SituationShape DEF ListSound
  <1>5. ASSUME NEW i \in DOMAIN got PROVE ItemSound(got, i, extraction, inForce, fromCache, "bound")
    <2> DEFINE u == Processing[i]
               item == got[i]
    <2>1. u = extraction.urls[i]
      BY <1>4, ProcessedShape, CallInOrder
    <2>2. item \in MayCome(u)
      BY <1>1
    <2> HIDE DEF item, u
    <2>3. CASE \E a : \E p \in Range(PlanFor(extraction, inForce)) \cup {NoOne} : item = Got(a, Pageless, p) /\ a \in {u, LandsOn[u]}
      <3>1. /\ item = [url |-> item.url, page |-> item.page, by |-> item.by, cut |-> item.cut, kept |-> item.kept]
            /\ item.url \in {u, LandsOn[u]} /\ item.page = Pageless /\ ~item.kept /\ ~item.cut
        BY <2>3 DEF Got
      <3> QED BY <1>3, <2>1, <3>1 DEF ItemSound, ItemFits, item
    <2>4. CASE u \notin PrivatePages \/ inForce.private
      <3>0. item \in {ReadBy(p, u, a) : a \in {u, LandsOn[u]}, p \in Range(PlanFor(extraction, inForce))}
                   \cup {Got(a, Pageless, p) : a \in {u, LandsOn[u]}, p \in Range(PlanFor(extraction, inForce)) \cup {NoOne}}
        BY <2>2, <2>4 DEF MayCome
      <3>1. SUFFICES ASSUME NEW a \in {u, LandsOn[u]}, NEW p \in Range(PlanFor(extraction, inForce)), item = ReadBy(p, u, a)
                     PROVE  ItemSound(got, i, extraction, inForce, fromCache, "bound")
        <4> DEFINE plan == Range(PlanFor(extraction, inForce))
        <4> HIDE DEF plan
        <4>1. \/ \E a \in {u, LandsOn[u]}, p \in plan : item = ReadBy(p, u, a)
              \/ \E a \in {u, LandsOn[u]}, p \in plan \cup {NoOne} : item = Got(a, Pageless, p)
          BY <3>0 DEF plan
        <4> QED BY <2>3, <4>1 DEF plan
      <3>2. /\ item = [url |-> item.url, page |-> item.page, by |-> item.by, cut |-> item.cut, kept |-> item.kept]
            /\ item.url = a /\ item.by = p /\ ~item.kept /\ ~item.cut
            /\ item.page = [of |-> u, by |-> p, at |-> inForce.at[p]]
        BY <3>1 DEF ReadBy, Got
      <3>3. item.page.of = u /\ item.page.by = p /\ item.page.at = inForce.at[p]
        BY <3>2
      <3>4. ItemFits(item, u, inForce.private)
        BY <2>4, <3>2, <3>3 DEF ItemFits
      <3> QED BY <2>1, <3>2, <3>3, <3>4, <1>3 DEF ItemSound, ReadUnder, item
    <2>5. CASE u \in PrivatePages /\ ~inForce.private
      <3>1. item = Got(u, Pageless, NoOne)
        BY <2>2, <2>5 DEF MayCome
      <3> QED BY <2>3, <3>1
    <2> QED BY <2>4, <2>5
  <1>6. got = [i \in DOMAIN ProcessedOf(extraction) |-> got[i]]
    BY CallInOrder
  <1>7. ListSound(got, extraction, inForce, fromCache, "bound")
    BY <1>3, <1>5, <1>6 DEF ListSound
  <1> QED BY <1>1, <1>2, <1>3, <1>7 DEF DeliveryInv, DeliverySound

\* The cuts and the references that are left to a list leave the rest of it as it was.
LEMMA BoundKeeps == ASSUME DeliveryInv, BoundAndWrite PROVE DeliveryInv'
  <1> DEFINE cut == {i \in PagesIn(pageItems) : extraction.tight /\ pageItems[i].page.of \in LongPages}
  <1>1. PICK taken \in SUBSET cut, plain \in BOOLEAN :
            /\ pageItems' = [i \in DOMAIN pageItems |-> [pageItems[i] EXCEPT !.cut = i \in cut, !.kept = i \in taken]]
            /\ shelf' = IF Writable(plain)
                        THEN {e \in shelf : e.key # IdentityFor(extraction, inForce)} \cup {Material(pageItems')}
                        ELSE shelf
    BY DEF BoundAndWrite
  <1>2. callPhase = "bound" /\ callPhase' = "deliver" /\ UNCHANGED <<inForce, extraction, fromCache>>
    BY DEF BoundAndWrite
  <1>3. /\ pageItems = [i \in DOMAIN ProcessedOf(extraction) |-> pageItems[i]]
        /\ \A i \in DOMAIN pageItems : ItemSound(pageItems, i, extraction, inForce, fromCache, "bound")
        /\ \E situation \in Situations : situation.call = extraction /\ situation.site = inForce
        /\ \A e \in shelf : EntrySound(e)
    BY <1>2 DEF DeliveryInv, ListSound, AtWork
  <1>4. DOMAIN pageItems' = DOMAIN pageItems /\ pageItems' = [i \in DOMAIN ProcessedOf(extraction) |-> pageItems'[i]]
    BY <1>1, <1>3
  <1>5. ASSUME NEW i \in DOMAIN pageItems
        PROVE  LET old == pageItems[i] IN
               /\ pageItems'[i] = [url |-> old.url, page |-> old.page, by |-> old.by, cut |-> i \in cut, kept |-> i \in taken]
               /\ pageItems'[i].page = old.page
    <2> DEFINE old == pageItems[i]
    <2>1. pageItems'[i] = [old EXCEPT !.cut = i \in cut, !.kept = i \in taken]
      BY <1>1
    <2>2. old = [url |-> old.url, page |-> old.page, by |-> old.by, cut |-> old.cut, kept |-> old.kept]
      BY <1>3 DEF ItemSound, ItemFits
    <2> HIDE DEF old, cut
    <2>3. pageItems'[i] = [url |-> old.url, page |-> old.page, by |-> old.by, cut |-> i \in cut, kept |-> i \in taken]
      BY <2>1, <2>2
    <2>4. pageItems'[i].page = old.page
      BY <2>3
    <2> QED BY <2>3, <2>4 DEF old
  <1>6. ASSUME NEW i \in DOMAIN pageItems PROVE ItemSound(pageItems', i, extraction, inForce, fromCache, "deliver")
    <2> DEFINE old == pageItems[i]
               item == pageItems'[i]
    <2>1. item = [url |-> old.url, page |-> old.page, by |-> old.by, cut |-> i \in cut, kept |-> i \in taken]
      BY <1>5
    <2>2. item.url = old.url /\ item.page = old.page /\ item.by = old.by /\ (item.cut <=> i \in cut) /\ (item.kept <=> i \in taken)
      <3> HIDE DEF item, old, cut
      <3> QED BY <2>1
    <2>3. item = [url |-> item.url, page |-> item.page, by |-> item.by, cut |-> item.cut, kept |-> item.kept]
      <3> HIDE DEF item, old, cut
      <3> QED BY <2>1
    <2>4. i \in cut <=> old.page # Pageless /\ extraction.tight /\ old.page.of \in LongPages
      BY DEF PagesIn
    <2>5. i \in taken => i \in cut
      OBVIOUS
    <2>6. ItemSound(pageItems, i, extraction, inForce, fromCache, "bound")
      BY <1>3
    <2> HIDE DEF item, cut
    <2>7. ~fromCache /\ ItemFits(item, extraction.urls[i], inForce.private) /\ CutRight(item, extraction)
      BY <2>2, <2>3, <2>4, <2>5, <2>6 DEF ItemSound, ItemFits, CutRight
    <2>8. item.page # Pageless => ReadUnder(item.page, extraction, inForce) /\ item.by = item.page.by
                                 /\ item.page.at = inForce.at[item.by] /\ item.by \in Range(PlanFor(extraction, inForce))
      BY <2>2, <2>6, <2>7 DEF ItemSound
    <2> QED BY <2>7, <2>8 DEF ItemSound, item
  <1> HIDE DEF cut
  <1>7. ListSound(pageItems', extraction, inForce, fromCache, "deliver")
    BY <1>3, <1>4, <1>6 DEF ListSound
  <1>8. ASSUME Writable(plain) PROVE EntrySound(Material(pageItems'))
    <2> DEFINE e == Material(pageItems')
               basis == BasisOf(extraction, inForce)
    <2>1. /\ e.items = pageItems' /\ e.key.call = extraction /\ e.key.basis = basis /\ e.key.private = inForce.private
          /\ e.key.at = EndpointsOf(basis, inForce)
      BY DEF Material, IdentityFor, CanonicalForm
    <2>2. PagesIn(pageItems) = DOMAIN pageItems
      BY <1>8 DEF Writable
    <2> HIDE DEF e
    <2>3. ASSUME NEW i \in DOMAIN pageItems'
          PROVE  LET item == pageItems'[i] IN
                 /\ ItemFits(item, extraction.urls[i], inForce.private) /\ CutRight(item, extraction)
                 /\ item.page # Pageless /\ item.by = item.page.by
                 /\ \A k \in DOMAIN basis : basis[k] = item.page.by => e.key.at[k] = item.page.at
                 /\ extraction.provider \in {AnyProvider, item.page.by} => item.page.by \in Range(basis)
      <3> DEFINE item == pageItems'[i]
      <3>1. i \in DOMAIN pageItems /\ ItemSound(pageItems', i, extraction, inForce, fromCache, "deliver") /\ ~fromCache
        BY <1>2, <1>3, <1>4, <1>6 DEF ItemSound
      <3>2. item.page # Pageless
        <4>1. pageItems[i].page # Pageless
          BY <2>2, <3>1 DEF PagesIn
        <4>2. pageItems'[i].page = pageItems[i].page
          BY <1>5, <3>1
        <4> QED BY <4>1, <4>2
      <3>3. /\ ItemFits(item, extraction.urls[i], inForce.private) /\ CutRight(item, extraction)
            /\ item.by = item.page.by /\ item.page.at = inForce.at[item.by] /\ item.by \in Range(PlanFor(extraction, inForce))
        BY <3>1, <3>2 DEF ItemSound
      <3> HIDE DEF item
      <3>4. \A k \in DOMAIN basis : e.key.at[k] = inForce.at[basis[k]]
        BY <2>1 DEF EndpointsOf
      <3>5. extraction.provider \in {AnyProvider, item.page.by} => item.page.by \in Range(basis)
        BY <3>3, BasisHasServer
      <3> HIDE DEF basis
      <3>6. \A k \in DOMAIN basis : basis[k] = item.page.by => e.key.at[k] = item.page.at
        BY <3>3, <3>4
      <3> QED BY <3>2, <3>3, <3>5, <3>6 DEF item
    <2> HIDE DEF basis
    <2>4. DOMAIN e.items = DOMAIN ProcessedOf(extraction)
      BY <1>3, <1>4, <2>1
    <2>5. EntrySound(e)
      BY <2>1, <2>3, <2>4 DEF EntrySound
    <2> QED BY <2>5 DEF e
  <1>9. \A e \in shelf' : EntrySound(e)
    BY <1>1, <1>3, <1>8
  <1>10. ListSound(pageItems', extraction', inForce', fromCache', callPhase')
    BY <1>2, <1>7
  <1> QED BY <1>2, <1>9, <1>10 DEF DeliveryInv, DeliverySound

LEMMA VerifyKeeps == ASSUME DeliveryInv, VerifyStored PROVE DeliveryInv'
  <1>1. /\ pageItems' = [i \in DOMAIN pageItems |-> [pageItems[i] EXCEPT !.kept = pageItems[i].kept /\ pageItems[i].page \in library]]
        /\ callPhase = "verify" /\ callPhase' = "deliver" /\ UNCHANGED <<inForce, extraction, fromCache, shelf>>
    BY DEF VerifyStored
  <1>2. /\ pageItems = [i \in DOMAIN ProcessedOf(extraction) |-> pageItems[i]]
        /\ \A i \in DOMAIN pageItems : ItemSound(pageItems, i, extraction, inForce, fromCache, "verify")
        /\ \E situation \in Situations : situation.call = extraction /\ situation.site = inForce
        /\ fromCache /\ \A e \in shelf : EntrySound(e)
    BY <1>1 DEF DeliveryInv, ListSound, AtWork
  <1>3. DOMAIN pageItems' = DOMAIN pageItems /\ pageItems' = [i \in DOMAIN ProcessedOf(extraction) |-> pageItems'[i]]
    BY <1>1, <1>2
  <1>4. ASSUME NEW i \in DOMAIN pageItems
        PROVE  LET old == pageItems[i] IN
               /\ pageItems'[i] = [url |-> old.url, page |-> old.page, by |-> old.by, cut |-> old.cut, kept |-> old.kept /\ old.page \in library]
               /\ pageItems'[i].url = old.url
    <2> DEFINE old == pageItems[i]
               stays == old.kept /\ old.page \in library
    <2>1. pageItems'[i] = [old EXCEPT !.kept = stays]
      BY <1>1
    <2>2. old = [url |-> old.url, page |-> old.page, by |-> old.by, cut |-> old.cut, kept |-> old.kept]
      BY <1>2 DEF ItemSound, ItemFits
    <2> HIDE DEF old, stays
    <2>3. pageItems'[i] = [url |-> old.url, page |-> old.page, by |-> old.by, cut |-> old.cut, kept |-> stays]
      BY <2>1, <2>2
    <2>4. pageItems'[i].url = old.url
      BY <2>3
    <2> QED BY <2>3, <2>4 DEF old, stays
  <1>5. \A i \in DOMAIN pageItems : pageItems'[i].url = pageItems[i].url
    BY <1>4
  <1>6. ASSUME NEW i \in DOMAIN pageItems' PROVE ItemSound(pageItems', i, extraction, inForce, fromCache, "deliver")
    <2> DEFINE old == pageItems[i]
               item == pageItems'[i]
               stays == old.kept /\ old.page \in library
    <2>1. item = [url |-> old.url, page |-> old.page, by |-> old.by, cut |-> old.cut, kept |-> stays]
      BY <1>3, <1>4
    <2>2. ItemSound(pageItems, i, extraction, inForce, fromCache, "verify")
      BY <1>2, <1>3
    <2>3. stays => old.kept
      OBVIOUS
    <2>4. item.url = old.url /\ item.page = old.page /\ item.by = old.by /\ item.cut = old.cut /\ (item.kept => old.kept)
          /\ item = [url |-> item.url, page |-> item.page, by |-> item.by, cut |-> item.cut, kept |-> item.kept]
      <3> HIDE DEF item, old, stays
      <3> QED BY <2>1, <2>3
    <2> HIDE DEF item, stays
    <2>5. ItemFits(item, extraction.urls[i], inForce.private) /\ CutRight(item, extraction) /\ item.page # Pageless
          /\ ReadUnder(item.page, extraction, inForce)
      BY <1>2, <2>2, <2>4 DEF ItemSound, ItemFits, CutRight
    <2>6. item.by \in {NoOne, item.page.by} \/ \E j \in DOMAIN pageItems' \ {i} : pageItems'[j].url = item.url
      BY <1>2, <1>3, <1>5, <2>2, <2>4 DEF ItemSound
    <2> QED BY <1>2, <2>5, <2>6 DEF ItemSound, item
  <1>7. ListSound(pageItems', extraction, inForce, fromCache, "deliver")
    BY <1>2, <1>3, <1>6 DEF ListSound
  <1>8. ListSound(pageItems', extraction', inForce', fromCache', callPhase')
    BY <1>1, <1>7
  <1> QED BY <1>1, <1>2, <1>8 DEF DeliveryInv, DeliverySound

LEMMA ForgetKeeps == ASSUME DeliveryInv, Forget PROVE DeliveryInv'
  BY DEF DeliveryInv, DeliverySound, Forget

-----------------------------------------------------------------------------
LEMMA RowParts ==
    ASSUME NEW s, NEW i
    PROVE  LET row == RowFor(s, i) IN
           /\ row.url = pageItems[s].url /\ row.named = Named(s) /\ row.page = (IF i = 0 THEN Pageless ELSE pageItems[i].page)
           /\ (row.failed <=> pageItems[s].page = Pageless) /\ (row.cut <=> i # 0 /\ pageItems[i].cut)
           /\ (row.path <=> i # 0 /\ pageItems[i].kept /\ pageItems[i].page \in library)
  <1> DEFINE page   == IF i = 0 THEN Pageless ELSE pageItems[i].page
             failed == pageItems[s].page = Pageless
             cut    == i # 0 /\ pageItems[i].cut
             path   == i # 0 /\ pageItems[i].kept /\ pageItems[i].page \in library
             row    == RowFor(s, i)
  <1>1. row = [url |-> pageItems[s].url, named |-> Named(s), page |-> page, failed |-> failed, cut |-> cut, path |-> path]
    BY DEF RowFor
  <1> HIDE DEF page, failed, cut, path, row
  <1>2. row.url = pageItems[s].url /\ row.named = Named(s) /\ row.page = page
        /\ row.failed = failed /\ row.cut = cut /\ row.path = path
    BY <1>1
  <1> QED BY <1>2 DEF page, failed, cut, path, row

LEMMA SameItemsSameRows ==
    ASSUME pageItems' = pageItems, extraction' = extraction, inForce' = inForce
    PROVE  (Shadowed' <=> Shadowed) /\ (NothingAllowed' <=> NothingAllowed)
  <1>1. PagesIn(pageItems)' = PagesIn(pageItems) /\ Servers(pageItems)' = Servers(pageItems)
    BY DEF PagesIn, Servers
  <1>2. Cardinality(Servers(pageItems))' = Cardinality(Servers(pageItems))
    BY <1>1
  <1>3. \A s : Observed(s)' <=> Observed(s)
    BY <1>1, <1>2 DEF Observed
  <1>4. Shadowed' <=> Shadowed
    BY <1>1, <1>3 DEF Shadowed
  <1>5. Processing' = Processing
    BY DEF Processing
  <1>6. NothingAllowed' <=> NothingAllowed
    BY <1>5 DEF NothingAllowed, Range
  <1> QED BY <1>4, <1>6

\* What DeliverySound says of a row.
RowRight(rows, k, texts) == LET row == rows[k] IN
    /\ row.page # Pageless => row.page.of = extraction.urls[k] /\ ~row.failed
    /\ row.page = Pageless => row.failed /\ ~row.path
    /\ row.url \in {extraction.urls[k], LandsOn[extraction.urls[k]]}
    /\ row.page # Pageless => (row.cut <=> extraction.tight /\ extraction.urls[k] \in LongPages)
    /\ row.path => row.cut /\ row.page \in texts
    /\ row.page # Pageless => extraction.urls[k] \notin PrivatePages \/ inForce.private
    /\ row.page # Pageless => UnderSettings(row.page)
    /\ fromCache => row.page # Pageless \/ k > UrlLimit
    /\ row.named \in {NoOne, row.page.by} \/ row.page = Pageless \/ \E j \in DOMAIN rows \ {k} : rows[j].url = row.url

\* What follows the first n elements of a list, in its order.
LEMMA SuffixShape ==
    ASSUME NEW N, NEW list \in Seq(N), NEW n \in Nat, n <= Len(list)
    PROVE  /\ DOMAIN SubSeq(list, n + 1, Len(list)) = 1 .. Len(list) - n
           /\ \A k \in 1 .. Len(list) - n : SubSeq(list, n + 1, Len(list))[k] = list[n + k]
  <1>1. Len(list) \in Nat /\ \A k \in n + 1 .. Len(list) : list[k] \in N
    OBVIOUS
  <1>2. /\ SubSeq(list, n + 1, Len(list)) \in Seq(N)
        /\ Len(SubSeq(list, n + 1, Len(list))) = Len(list) - n
        /\ \A k \in 1 .. Len(list) - n : SubSeq(list, n + 1, Len(list))[k] = list[n + k]
    BY <1>1
  <1> QED BY <1>1, <1>2

LEMMA DeliverKeeps == ASSUME DeliveryInv, Deliver PROVE DeliveryInv'
  <1> DEFINE placed == Placed
             at    == {s \in DOMAIN pageItems : placed[s] # 0 \/ pageItems[s].page = Pageless}
             slots == Picked([s \in DOMAIN pageItems |-> s], at)
             shown == IF NothingAllowed THEN <<>> ELSE [k \in DOMAIN slots |-> RowFor(slots[k], placed[slots[k]])]
             over  == [k \in DOMAIN LeftOut |-> OverLimit(LeftOut[k])]
  <1>1. /\ callPhase = "deliver" /\ callPhase' = "told" /\ callRows' = shown \o over /\ standing' = library
        /\ UNCHANGED <<inForce, extraction, pageItems, fromCache, shelf, library>>
    BY DEF Deliver
  <1>2. /\ pageItems = [i \in DOMAIN ProcessedOf(extraction) |-> pageItems[i]]
        /\ \A i \in DOMAIN pageItems : ItemSound(pageItems, i, extraction, inForce, fromCache, "deliver")
        /\ ListSound(pageItems, extraction, inForce, fromCache, "deliver")
        /\ \A e \in shelf : EntrySound(e)
    BY <1>1 DEF DeliveryInv, ListSound, AtWork
  <1>3. ListSound(pageItems', extraction', inForce', fromCache', callPhase')
    <2>1. ListSound(pageItems, extraction, inForce, fromCache, "told")
      BY <1>2 DEF ListSound, AtWork, ItemSound
    <2> QED BY <1>1, <2>1
  <1>4. ASSUME ~Shadowed', ~NothingAllowed'
        PROVE  Len(callRows') = Len(extraction.urls) /\ \A k \in DOMAIN callRows' : RowRight(callRows', k, library)
    <2>0. ~Shadowed /\ ~NothingAllowed
      BY <1>1, <1>4, SameItemsSameRows
    <2>1. PICK n \in Nat :
              /\ n <= Len(extraction.urls) /\ (n < Len(extraction.urls) => n = UrlLimit) /\ Len(extraction.urls) \in Nat
              /\ Len(Processing) = n /\ DOMAIN Processing = 1 .. n
      <3>1. CallShape(extraction)
        BY <1>2, SituationShape DEF ListSound
      <3> QED BY <3>1, ProcessedShape, CallInOrder
    <2> DEFINE m == Len(extraction.urls) - n
    <2>2. m \in Nat /\ DOMAIN LeftOut = 1 .. m /\ \A k \in 1 .. m : LeftOut[k] = extraction.urls[n + k]
      <3>1. extraction.urls \in Seq(Nat \ {0})
        BY <1>2, SituationShape DEF ListSound, CallShape
      <3>2. LeftOut = SubSeq(extraction.urls, n + 1, Len(extraction.urls))
        BY <2>1 DEF LeftOut
      <3>3. m \in Nat
        BY <2>1
      <3> HIDE DEF over, slots, shown
      <3> QED BY ONLY <2>1, <3>1, <3>2, <3>3, SuffixShape DEF m
    <2> HIDE DEF m
    <2>3. DOMAIN pageItems = 1 .. n /\ pageItems = [i \in 1 .. n |-> pageItems[i]]
      BY <1>2, <2>1, CallInOrder
    <2>4. PlacedTo(placed, n, n)
      BY <2>3, PlacedAll
    <2> HIDE DEF placed
    <2>5. ASSUME NEW i \in 1 .. n, pageItems[i].page # Pageless PROVE placed[i] = i
      <3>1. i \in PagesIn(pageItems)
        BY <2>3, <2>5 DEF PagesIn
      <3>2. Clear(i)
        <4> SUFFICES ASSUME NEW s \in 1 .. i, pageItems[s].url = pageItems[i].url PROVE Observed(s)
          BY DEF Clear
        <4>1. CASE s = i
          BY <3>1, <4>1 DEF Observed
        <4>2. CASE s < i
          <5>1. s \in DOMAIN pageItems
            BY <2>3
          <5> QED BY <2>0, <3>1, <4>2, <5>1 DEF Shadowed
        <4> QED BY <4>1, <4>2
      <3> QED BY <2>4, <3>2 DEF PlacedTo
    <2>6. slots = [k \in 1 .. n |-> k]
      <3>1. at = 1 .. n
        BY <2>3, <2>5
      <3> HIDE DEF at
      <3> QED BY <2>3, <3>1, AllPicked
    <2> HIDE DEF slots
    <2>7. DOMAIN slots = 1 .. n /\ \A k \in 1 .. n : slots[k] = k
      BY <2>6
    <2>8. shown = [k \in 1 .. n |-> RowFor(k, placed[k])]
      BY <2>0, <2>7
    <2>9. over = [k \in 1 .. m |-> OverLimit(LeftOut[k])]
      BY <2>2
    <2> HIDE DEF shown, over
    <2> DEFINE rows == shown \o over
    <2>10. /\ Len(rows) = n + m /\ DOMAIN rows = 1 .. n + m
           /\ \A k \in 1 .. n : rows[k] = RowFor(k, placed[k])
           /\ \A k \in n + 1 .. n + m : rows[k] = OverLimit(LeftOut[k - n])
      <3>1. shown = [k \in 1 .. n |-> shown[k]] /\ over = [k \in 1 .. m |-> over[k]]
        BY <2>8, <2>9
      <3>2. /\ Len(rows) = n + m /\ DOMAIN rows = 1 .. n + m
            /\ \A k \in 1 .. n : rows[k] = shown[k]
            /\ \A k \in n + 1 .. n + m : rows[k] = over[k - n]
        BY <2>2, <3>1, Joined
      <3>3. \A k \in n + 1 .. n + m : k - n \in 1 .. m
        BY <2>2
      <3> HIDE DEF rows
      <3> QED BY <2>8, <2>9, <3>2, <3>3
    <2>11. n + m = Len(extraction.urls)
      BY <2>1 DEF m
    <2> HIDE DEF rows
    <2>12. ASSUME NEW k \in 1 .. n PROVE RowRight(rows, k, library)
      <3> DEFINE row  == rows[k]
                 item == pageItems[k]
                 i    == placed[k]
      <3>1. /\ row.url = item.url /\ row.named = Named(k) /\ row.page = (IF i = 0 THEN Pageless ELSE pageItems[i].page)
            /\ (row.failed <=> item.page = Pageless) /\ (row.cut <=> i # 0 /\ pageItems[i].cut)
            /\ (row.path <=> i # 0 /\ pageItems[i].kept /\ pageItems[i].page \in library)
        BY <2>10, RowParts
      <3>2. i \in 0 .. n /\ (item.page # Pageless => i = k)
        BY <2>4, <2>5 DEF PlacedTo
      <3>3. i # 0 /\ pageItems[i].page # Pageless => i = k
        <4> SUFFICES ASSUME i # 0, pageItems[i].page # Pageless PROVE i = k
          OBVIOUS
        <4>1. i \in 1 .. n
          BY <3>2
        <4>2. placed[i] = i
          BY <2>5, <4>1
        <4> HIDE DEF i
        <4> QED BY <2>4, <4>1, <4>2 DEF PlacedTo, i
      <3>4. ItemSound(pageItems, k, extraction, inForce, fromCache, "deliver")
        BY <1>2, <2>3
      <3>5. row.page = item.page
        BY <3>1, <3>2, <3>3
      <3>6. item.page # Pageless => (row.cut <=> item.cut) /\ (row.path <=> item.kept /\ item.page \in library)
        BY <2>3, <3>1, <3>2
      <3>7. row.path => item.page # Pageless
        <4> SUFFICES ASSUME row.path, item.page = Pageless PROVE FALSE
          OBVIOUS
        <4>1. i \in 1 .. n /\ pageItems[i].kept /\ pageItems[i].page = Pageless
          BY <3>1, <3>2, <3>5
        <4>2. ItemSound(pageItems, i, extraction, inForce, fromCache, "deliver")
          BY <1>2, <2>3, <4>1
        <4> QED BY <4>1, <4>2 DEF ItemSound, ItemFits
      <3>8. row.named \in {NoOne, row.page.by} \/ row.page = Pageless \/ \E j \in DOMAIN rows \ {k} : rows[j].url = row.url
        <4>1. CASE fromCache /\ \E j \in DOMAIN pageItems \ {k} : pageItems[j].url = item.url
          <5>1. PICK j \in 1 .. n : j # k /\ pageItems[j].url = item.url
            BY <2>3, <4>1
          <5>2. rows[j].url = pageItems[j].url
            BY <2>10, RowParts
          <5>3. j \in DOMAIN rows
            BY <2>2, <2>10
          <5> QED BY <3>1, <5>1, <5>2, <5>3
        <4>2. CASE ~(fromCache /\ \E j \in DOMAIN pageItems \ {k} : pageItems[j].url = item.url)
          <5>1. item.page = Pageless \/ item.by \in {NoOne, item.page.by}
            BY <3>4, <4>2 DEF ItemSound
          <5>2. Named(k) \in {NoOne, item.by}
            BY DEF Named
          <5> QED BY <3>1, <3>5, <5>1, <5>2
        <4> QED BY <4>1, <4>2
      <3> HIDE DEF row, item, i
      <3>9. /\ item.url \in {extraction.urls[k], LandsOn[extraction.urls[k]]}
            /\ item.page # Pageless => /\ item.page.of = extraction.urls[k] /\ UnderSettings(item.page)
                                       /\ extraction.urls[k] \notin PrivatePages \/ inForce.private
                                       /\ (item.cut <=> extraction.tight /\ extraction.urls[k] \in LongPages)
            /\ (item.kept => item.cut) /\ (fromCache => item.page # Pageless)
        BY <3>4 DEF ItemSound, ItemFits, CutRight, ReadUnder, UnderSettings, item
      <3> QED BY <3>1, <3>5, <3>6, <3>7, <3>8, <3>9 DEF RowRight, row
    <2>13. ASSUME NEW k \in n + 1 .. n + m PROVE RowRight(rows, k, library)
      <3>1. k - n \in 1 .. m /\ n + (k - n) = k
        BY <2>2
      <3>2. rows[k] = OverLimit(extraction.urls[k])
        BY <2>2, <2>10, <3>1
      <3>3. k > UrlLimit
        BY <2>1, <2>2, <2>11
      <3>4. /\ rows[k].url = extraction.urls[k] /\ rows[k].named = NoOne /\ rows[k].page = Pageless
            /\ rows[k].failed /\ ~rows[k].path
        BY <3>2 DEF OverLimit
      <3> QED BY <3>3, <3>4 DEF RowRight
    <2>14. \A k \in DOMAIN rows : k \in 1 .. n \/ k \in n + 1 .. n + m
      BY <2>2, <2>10
    <2>15. callRows' = rows
      BY <1>1 DEF rows
    <2> QED BY <2>10, <2>11, <2>12, <2>13, <2>14, <2>15
  <1> HIDE DEF shown, over
  <1>5. DeliverySound'
    <2> SUFFICES ASSUME ~Shadowed', ~NothingAllowed' PROVE DeliverySound'
      BY DEF DeliverySound
    <2>1. Len(callRows') = Len(extraction.urls) /\ \A k \in DOMAIN callRows' : RowRight(callRows', k, library)
      BY ONLY <1>4, ~Shadowed', ~NothingAllowed'
    <2>2. \A page : UnderSettings(page)' = UnderSettings(page)
      BY <1>1 DEF UnderSettings
    <2>3. extraction' = extraction /\ inForce' = inForce /\ fromCache' = fromCache /\ standing' = library
      BY <1>1
    <2> DEFINE rows == callRows'
               texts == library
               asSet(page) == UnderSettings(page)
    <2>4. ASSUME NEW k \in DOMAIN rows
          PROVE  /\ rows[k].page # Pageless => rows[k].page.of = extraction.urls[k] /\ ~rows[k].failed
                 /\ rows[k].page = Pageless => rows[k].failed /\ ~rows[k].path
                 /\ rows[k].url \in {extraction.urls[k], LandsOn[extraction.urls[k]]}
                 /\ rows[k].page # Pageless => (rows[k].cut <=> extraction.tight /\ extraction.urls[k] \in LongPages)
                 /\ rows[k].path => rows[k].cut /\ rows[k].page \in texts
                 /\ rows[k].page # Pageless => extraction.urls[k] \notin PrivatePages \/ inForce.private
                 /\ rows[k].page # Pageless => asSet(rows[k].page)
                 /\ fromCache => rows[k].page # Pageless \/ k > UrlLimit
                 /\ \/ rows[k].named \in {NoOne, rows[k].page.by}
                    \/ rows[k].page = Pageless
                    \/ \E j \in DOMAIN rows \ {k} : rows[j].url = rows[k].url
      <3>1. RowRight(rows, k, texts)
        BY <2>1
      <3> HIDE DEF rows, texts
      <3> QED BY ONLY <3>1 DEF RowRight
    <2> QED
      <3> HIDE DEF asSet
      <3>1. \A page : asSet(page) <=> UnderSettings(page)'
        BY <2>2 DEF asSet
      <3> QED BY ONLY <2>1, <2>3, <2>4, <3>1 DEF DeliverySound
  <1> QED BY <1>1, <1>2, <1>3, <1>5 DEF DeliveryInv

LEMMA InitDelivery == DeliveryInit => DeliveryInv
  BY DEF DeliveryInit, DeliveryInv, DeliverySound

LEMMA StepDelivery == DeliveryInv /\ [DeliveryNext]_deliveryvars => DeliveryInv'
  <1> SUFFICES ASSUME DeliveryInv, [DeliveryNext]_deliveryvars PROVE DeliveryInv'
    OBVIOUS
  <1>1. CASE UNCHANGED deliveryvars
    <2>1. UNCHANGED <<inForce, extraction, callPhase, pageItems, fromCache, shelf, callRows, standing>>
      BY <1>1 DEF deliveryvars
    <2>2. (Shadowed' <=> Shadowed) /\ (NothingAllowed' <=> NothingAllowed)
      BY <2>1, SameItemsSameRows
    <2>3. DeliverySound'
      BY <2>1, <2>2 DEF DeliveryInv, DeliverySound, UnderSettings
    <2> QED BY <2>1, <2>3 DEF DeliveryInv
  <1> QED BY <1>1, BeginKeeps, ReadKeeps, BoundKeeps, VerifyKeeps, ForgetKeeps, DeliverKeeps DEF DeliveryNext

\* Every caller of an extraction gets a row for each page asked for, with that page's own text or an
\* error, and from the cache nothing that another call's settings or pages produced: extract_plus.
THEOREM DeliveryIsRight == DeliverySpec => []DeliverySound
  <1>1. DeliveryInv => DeliverySound
    BY DEF DeliveryInv
  <1> QED BY <1>1, InitDelivery, StepDelivery, PTL DEF DeliverySpec

(***************************************************************************)
(* What the providers found becomes a response (runtime_v3.py)             *)
(***************************************************************************)
RawItems  == [page : Nat, form : Nat, by : Nat, says : Seq(Nat), failed : BOOLEAN]
Witness(p, s) == [id |-> <<p, s>>, by |-> p, slot |-> s,
                  page |-> payload.raw[s].page, form |-> payload.raw[s].form, says |-> payload.raw[s].says]
Witnesses == {Witness(p, s) : p \in Nat, s \in RawPositions}

LEMMA PayloadShape ==
    ASSUME payload \in Payloads
    PROVE  /\ payload.search \in BOOLEAN /\ payload.research \in BOOLEAN /\ payload.error \in BOOLEAN /\ payload.selected \in Nat
           /\ Len(payload.ends) \in Nat /\ Attempted = 1 .. Len(payload.ends) /\ Serving(payload) \subseteq Attempted
           /\ Len(payload.raw) \in Nat /\ RawPositions = 1 .. Len(payload.raw) /\ \A s \in RawPositions : payload.raw[s] \in RawItems
           /\ Len(payload.kept) \in Nat /\ DOMAIN payload.kept = 1 .. Len(payload.kept)
           /\ \A i \in DOMAIN payload.kept : payload.kept[i] \in RawPositions
           /\ ManySources(payload) => payload.selected \in Serving(payload)
  <1>1. /\ payload.search \in BOOLEAN /\ payload.research \in BOOLEAN /\ payload.error \in BOOLEAN /\ payload.selected \in Nat
        /\ payload.ends \in Seq(AttemptEnds) /\ payload.raw \in Seq(RawItems) /\ payload.kept \in Seq(RawPositions)
        /\ ManySources(payload) => payload.selected \in Serving(payload)
    BY ProjectionAssumption DEF RawItems, RawPositions
  <1>2. Len(payload.ends) \in Nat /\ Attempted = 1 .. Len(payload.ends) /\ Serving(payload) \subseteq Attempted
    BY <1>1 DEF Attempted, Serving
  <1>3. Len(payload.raw) \in Nat /\ RawPositions = 1 .. Len(payload.raw) /\ \A s \in RawPositions : payload.raw[s] \in RawItems
    BY <1>1 DEF RawPositions
  <1>4. /\ Len(payload.kept) \in Nat /\ DOMAIN payload.kept = 1 .. Len(payload.kept)
        /\ \A i \in DOMAIN payload.kept : payload.kept[i] \in RawPositions
    BY <1>1
  <1> QED BY <1>1, <1>2, <1>3, <1>4

\* A witness is its provider's, of an item of the list.
LEMMA WitnessShape ==
    ASSUME payload \in Payloads, NEW o \in Witnesses
    PROVE  /\ o.by \in Nat /\ o.slot \in Nat /\ o.slot \in RawPositions /\ o.id = <<o.by, o.slot>>
           /\ o = Witness(o.by, o.slot) /\ o.page = payload.raw[o.slot].page /\ o.says \in Seq(Nat) /\ Len(o.says) \in Nat
  <1>1. PICK p \in Nat, s \in RawPositions : o = Witness(p, s)
    BY DEF Witnesses
  <1>2. o.by = p /\ o.slot = s /\ o.id = <<p, s>> /\ o.page = payload.raw[s].page /\ o.says = payload.raw[s].says
    BY <1>1 DEF Witness
  <1>3. s \in Nat /\ payload.raw[s] \in RawItems
    BY PayloadShape
  <1>4. o.says \in Seq(Nat)
    BY <1>2, <1>3 DEF RawItems
  <1> QED BY <1>1, <1>2, <1>3, <1>4

LEMMA SameWitness ==
    ASSUME payload \in Payloads, NEW a \in Witnesses, NEW b \in Witnesses, a.id = b.id \/ (a.by = b.by /\ a.slot = b.slot)
    PROVE  a = b
  <1>1. a.by = b.by /\ a.slot = b.slot
    BY WitnessShape
  <1> QED BY <1>1, WitnessShape

\* The witnesses of a response are finitely many.
LEMMA FewWitnesses ==
    ASSUME payload \in Payloads, NEW anchor
    PROVE  ObservedWith(anchor) \subseteq Witnesses /\ IsFiniteSet(ObservedWith(anchor))
  <1> DEFINE P == Serving(payload) \cup {payload.selected}
             f == [x \in P \X RawPositions |-> Witness(x[1], x[2])]
             T == {Witness(x[1], x[2]) : x \in P \X RawPositions}
  <1>1. P \subseteq Nat /\ IsFiniteSet(P)
    <2>0. Attempted = 1 .. Len(payload.ends) /\ Len(payload.ends) \in Int /\ 1 \in Int
      BY PayloadShape
    <2>1. IsFiniteSet(Attempted) /\ Attempted \subseteq Nat
      BY <2>0, FS_Interval
    <2>2. IsFiniteSet(Serving(payload))
      BY <2>1, PayloadShape, FS_Subset
    <2> QED BY <2>1, <2>2, PayloadShape, FS_AddElement
  <1>2. IsFiniteSet(RawPositions)
    <2>1. RawPositions = 1 .. Len(payload.raw) /\ Len(payload.raw) \in Int /\ 1 \in Int
      BY PayloadShape
    <2> QED BY <2>1, FS_Interval
  <1>3. \A p \in P, s \in RawPositions : Witness(p, s) \in T /\ Witness(p, s) \in Witnesses
    <2> SUFFICES ASSUME NEW p \in P, NEW s \in RawPositions PROVE Witness(p, s) \in T /\ Witness(p, s) \in Witnesses
      OBVIOUS
    <2>1. <<p, s>> \in P \X RawPositions /\ <<p, s>>[1] = p /\ <<p, s>>[2] = s
      OBVIOUS
    <2>2. Witness(p, s) \in T
      BY <2>1
    <2> QED BY <1>1, <2>2 DEF Witnesses
  <1>4. IsFiniteSet(T)
    <2>1. f \in Surjection(P \X RawPositions, T)
      BY DEF Surjection
    <2>2. IsFiniteSet(P \X RawPositions)
      <3> HIDE DEF P
      <3> QED BY <1>1, <1>2, FS_Product
    <2> HIDE DEF f, T, P
    <2> QED BY <2>1, <2>2, FS_Surjection
  <1>5. ASSUME NEW p \in P, NEW slots \in SUBSET RawPositions PROVE Observe(p, slots) \subseteq T \cap Witnesses
    <2>1. Observe(p, slots) = {Witness(p, s) : s \in slots}
      BY DEF Observe, Witness
    <2> HIDE DEF T
    <2> QED BY <1>3, <2>1
  <1>6. ObservedWith(anchor) \subseteq T \cap Witnesses
    <2> HIDE DEF T
    <2>1. \A p \in Serving(payload) : Observe(p, {s \in RawPositions : Owns(p, payload.raw[s], anchor)}) \subseteq T \cap Witnesses
      BY <1>5
    <2>2. Observe(payload.selected, RawPositions) \subseteq T \cap Witnesses
      BY <1>5
    <2> QED BY <2>1, <2>2 DEF ObservedWith
  <1> HIDE DEF T
  <1> QED BY <1>4, <1>6, FS_Subset

\* By provider and slot any witnesses can be put in order.
LEMMA SourceSorted ==
    ASSUME payload \in Payloads, NEW S \in SUBSET Witnesses, IsFiniteSet(S)
    PROVE  Sorted(InSourceOrder(S), S, {pair \in S \X S : SourceOrder(pair[1], pair[2])})
  <1> DEFINE before == {pair \in S \X S : SourceOrder(pair[1], pair[2])}
  <1>1. \A x, y \in S : <<x, y>> \in before <=> SourceOrder(x, y)
    OBVIOUS
  <1> HIDE DEF before
  <1>2. \A x \in S : x.by \in Nat /\ x.slot \in Nat
    BY WitnessShape
  <1>3. \A x \in S : ~SourceOrder(x, x)
    BY <1>2 DEF SourceOrder
  <1>4. \A x, y \in S : x # y => SourceOrder(x, y) \/ SourceOrder(y, x)
    <2> SUFFICES ASSUME NEW x \in S, NEW y \in S, x # y PROVE SourceOrder(x, y) \/ SourceOrder(y, x)
      OBVIOUS
    <2>1. x.by # y.by \/ x.slot # y.slot
      BY SameWitness
    <2> QED BY <1>2, <2>1 DEF SourceOrder
  <1>5. \A x, y, z \in S : SourceOrder(x, y) /\ SourceOrder(y, z) => SourceOrder(x, z)
    <2> SUFFICES ASSUME NEW x \in S, NEW y \in S, NEW z \in S, SourceOrder(x, y), SourceOrder(y, z) PROVE SourceOrder(x, z)
      OBVIOUS
    <2> QED BY <1>2 DEF SourceOrder
  <1>6. Orders(before, S)
    BY <1>1, <1>3, <1>4, <1>5 DEF Orders
  <1>7. Sorted(SortedBy(S, before), S, before)
    BY <1>6, SortedList
  <1> QED BY <1>7 DEF before, InSourceOrder

\* The attempts in the order in which they ended.
Enumerates(order) ==
    /\ order \in Seq(Attempted) /\ Range(order) = Attempted
    /\ \A i, j \in DOMAIN order : order[i] = order[j] => i = j

LEMMA Enumerated ==
    ASSUME payload \in Payloads, NEW order, Enumerates(order)
    PROVE  /\ Len(order) \in Nat /\ DOMAIN order = 1 .. Len(order)
           /\ \A i \in DOMAIN order : order[i] \in Attempted /\ i \in Nat
           /\ \A p \in Attempted : p \in Nat /\ p # Nameless /\ \E i \in DOMAIN order : order[i] = p
  <1>1. Len(order) \in Nat /\ DOMAIN order = 1 .. Len(order) /\ \A i \in DOMAIN order : order[i] \in Attempted /\ i \in Nat
    BY DEF Enumerates
  <1>2. \A p \in Attempted : \E i \in DOMAIN order : order[i] = p
    BY DEF Enumerates, Range
  <1>3. \A p \in Attempted : p \in Nat /\ p # Nameless
    BY PayloadShape DEF Nameless
  <1> QED BY <1>1, <1>2, <1>3

\* Whether there is an attempt to tie items to does not depend on the order.
LEMMA AnchorFound ==
    ASSUME payload \in Payloads, NEW order, Enumerates(order)
    PROVE  /\ Anchor(order) = Nameless <=> Serving(payload) = {}
           /\ payload.selected \in Serving(payload) => Anchor(order) = payload.selected
  <1> DEFINE good == {i \in DOMAIN order : order[i] \in Serving(payload)}
             last == CHOOSE i \in good : \A j \in good : j <= i
  <1>1. \A p \in Serving(payload) : p # Nameless /\ \E i \in DOMAIN order : order[i] = p
    BY PayloadShape, Enumerated
  <1>2. good = {} <=> Serving(payload) = {}
    BY <1>1
  <1>3. CASE payload.selected \in Serving(payload)
    <2>1. Anchor(order) = payload.selected
      BY <1>3 DEF Anchor
    <2> QED BY <1>1, <1>3, <2>1
  <1>4. CASE payload.selected \notin Serving(payload)
    <2>1. Anchor(order) = IF good = {} THEN Nameless ELSE order[last]
      BY <1>4 DEF Anchor
    <2>2. good # {} => last \in good
      <3> SUFFICES ASSUME good # {} PROVE last \in good
        OBVIOUS
      <3>1. Len(order) \in Nat /\ good \in SUBSET (0 .. Len(order))
        BY Enumerated
      <3> HIDE DEF good
      <3>2. \E i \in good : \A j \in good : i >= j
        BY <3>1, Greatest
      <3>3. \A i \in good : i \in Nat
        BY <3>1
      <3>4. \E i \in good : \A j \in good : j <= i
        BY <3>2, <3>3
      <3> QED BY <3>4
    <2> HIDE DEF last
    <2>3. good # {} => order[last] # Nameless
      BY <1>1, <2>2
    <2> HIDE DEF good
    <2> QED BY <1>2, <1>4, <2>1, <2>3
  <1> QED BY <1>3, <1>4

\* What is observed does not depend on the order in which the attempts ended.
LEMMA SameObserved ==
    ASSUME payload \in Payloads, NEW one, Enumerates(one), NEW other, Enumerates(other)
    PROVE  ObservedWith(Anchor(one)) = ObservedWith(Anchor(other))
  <1>1. CASE ManySources(payload)
    <2>1. Anchor(one) = payload.selected /\ Anchor(other) = payload.selected
      BY <1>1, PayloadShape, AnchorFound
    <2> QED BY <2>1
  <1>2. CASE ~ManySources(payload) /\ payload.research
    <2> DEFINE ofName(p) == {s \in RawPositions : payload.raw[s].by = p}
               same      == UNION {Observe(p, ofName(p)) : p \in Serving(payload)}
    <2>1. ASSUME NEW anchor PROVE ObservedWith(anchor) = same
      <3> DEFINE owned(p) == {s \in RawPositions : Owns(p, payload.raw[s], anchor)}
      <3>1. \A p : owned(p) = ofName(p)
        BY <1>2 DEF Owns
      <3>2. ObservedWith(anchor) = UNION {Observe(p, owned(p)) : p \in Serving(payload)}
        BY <1>2 DEF ObservedWith
      <3> HIDE DEF owned, ofName
      <3> QED BY <3>1, <3>2
    <2> HIDE DEF same
    <2> QED BY <2>1
  <1>3. CASE ~ManySources(payload) /\ ~payload.research
    <2>1. Anchor(one) = Nameless <=> Anchor(other) = Nameless
      BY AnchorFound
    <2> QED BY <1>3, <2>1 DEF ObservedWith
  <1> QED BY <1>1, <1>2, <1>3, PayloadShape

\* An item of an extraction is observed by one provider.
LEMMA SlotsApart ==
    ASSUME payload \in Payloads, NEW anchor, NEW a \in ObservedWith(anchor), NEW b \in ObservedWith(anchor), a.slot = b.slot
    PROVE  a = b
  <1>0. a \in Witnesses /\ b \in Witnesses
    BY FewWitnesses
  <1>1. CASE payload.research \/ ManySources(payload)
    <2>1. \A o \in ObservedWith(anchor) : o.by \in Serving(payload) /\ Owns(o.by, payload.raw[o.slot], anchor)
      <3> SUFFICES ASSUME NEW o \in ObservedWith(anchor) PROVE o.by \in Serving(payload) /\ Owns(o.by, payload.raw[o.slot], anchor)
        OBVIOUS
      <3>1. PICK p \in Serving(payload) : o \in Observe(p, {s \in RawPositions : Owns(p, payload.raw[s], anchor)})
        BY <1>1 DEF ObservedWith
      <3>2. PICK s \in RawPositions : Owns(p, payload.raw[s], anchor) /\ o.by = p /\ o.slot = s
        BY <3>1 DEF Observe
      <3> QED BY <3>2
    <2>2. a.by # Nameless /\ b.by # Nameless
      BY <2>1, PayloadShape DEF Nameless
    <2>3. a.by = b.by
      BY <2>1, <2>2 DEF Owns
    <2> QED BY <1>0, <2>3, SameWitness
  <1>2. CASE ~(payload.research \/ ManySources(payload))
    <2>1. \A o \in ObservedWith(anchor) : o.by = payload.selected
      BY <1>2 DEF ObservedWith, Observe
    <2> QED BY <1>0, <2>1, SameWitness
  <1> QED BY <1>1, <1>2

\* The observations of a response: every one once.
LEMMA ObservationsListed ==
    ASSUME payload \in Payloads, NEW order, Enumerates(order)
    PROVE  \E before : Sorted(Observations(order), ObservedWith(Anchor(order)), before)
  <1> DEFINE S      == ObservedWith(Anchor(order))
             before == {pair \in S \X S : Arrival(order, pair[1], pair[2])}
  <1>1. S \subseteq Witnesses /\ IsFiniteSet(S)
    BY FewWitnesses
  <1>2. \A x, y \in S : x.by = y.by \/ (x.by \in Attempted /\ y.by \in Attempted)
    <2>1. CASE payload.research \/ ManySources(payload)
      <3>1. \A x \in S : x.by \in Serving(payload)
        BY <2>1 DEF ObservedWith, Observe
      <3> QED BY <3>1, PayloadShape
    <2>2. CASE ~(payload.research \/ ManySources(payload))
      <3>1. \A x \in S : x.by = payload.selected
        BY <2>2 DEF ObservedWith, Observe
      <3> QED BY <3>1
    <2> QED BY <2>1, <2>2
  <1>3. \A x, y \in S : <<x, y>> \in before <=> Arrival(order, x, y)
    OBVIOUS
  <1> HIDE DEF S, before
  <1>4. \A x \in S : x.slot \in Nat
    BY <1>1, WitnessShape
  <1>5. \A i, j \in DOMAIN order : order[i] = order[j] => i = j
    BY DEF Enumerates
  <1>6. \A p, q : Sooner(order, p, q) => p # q /\ ~Sooner(order, q, p)
    BY <1>5, Enumerated DEF Sooner
  <1>7. \A p, q, r : Sooner(order, p, q) /\ Sooner(order, q, r) => Sooner(order, p, r)
    <2> SUFFICES ASSUME NEW p, NEW q, NEW r, Sooner(order, p, q), Sooner(order, q, r) PROVE Sooner(order, p, r)
      OBVIOUS
    <2>1. PICK i \in DOMAIN order, j \in DOMAIN order : i < j /\ order[i] = p /\ order[j] = q
      BY DEF Sooner
    <2>2. PICK k \in DOMAIN order, m \in DOMAIN order : k < m /\ order[k] = q /\ order[m] = r
      BY DEF Sooner
    <2>3. j = k
      BY <1>5, <2>1, <2>2
    <2>4. i < m
      BY <2>1, <2>2, <2>3, Enumerated
    <2> QED BY <2>1, <2>2, <2>4 DEF Sooner
  <1>8. \A p, q \in Attempted : p # q => Sooner(order, p, q) \/ Sooner(order, q, p)
    <2> SUFFICES ASSUME NEW p \in Attempted, NEW q \in Attempted, p # q PROVE Sooner(order, p, q) \/ Sooner(order, q, p)
      OBVIOUS
    <2>1. PICK i \in DOMAIN order : order[i] = p
      BY Enumerated
    <2>2. PICK j \in DOMAIN order : order[j] = q
      BY Enumerated
    <2>3. i < j \/ j < i
      BY <2>1, <2>2, Enumerated
    <2> QED BY <2>1, <2>2, <2>3 DEF Sooner
  <1>9. \A x \in S : ~Arrival(order, x, x)
    BY <1>4, <1>6 DEF Arrival
  <1>10. \A x, y \in S : x # y => Arrival(order, x, y) \/ Arrival(order, y, x)
    <2> SUFFICES ASSUME NEW x \in S, NEW y \in S, x # y PROVE Arrival(order, x, y) \/ Arrival(order, y, x)
      OBVIOUS
    <2>1. x.by # y.by \/ x.slot # y.slot
      BY <1>1, SameWitness
    <2> QED BY <1>2, <1>4, <1>8, <2>1 DEF Arrival
  <1>11. \A x, y, z \in S : Arrival(order, x, y) /\ Arrival(order, y, z) => Arrival(order, x, z)
    <2> SUFFICES ASSUME NEW x \in S, NEW y \in S, NEW z \in S, Arrival(order, x, y), Arrival(order, y, z) PROVE Arrival(order, x, z)
      OBVIOUS
    <2> QED BY <1>4, <1>7 DEF Arrival
  <1>12. Orders(before, S)
    BY <1>3, <1>9, <1>10, <1>11 DEF Orders
  <1>13. Sorted(SortedBy(S, before), S, before)
    BY <1>1, <1>12, SortedList
  <1> QED BY <1>13 DEF before, S, Observations

\* Each text starts a separator after the end of the one before it.
LEMMA Starts ==
    ASSUME NEW texts \in Seq(Seq(Nat))
    PROVE  /\ \A k \in DOMAIN texts : StartOf(texts, k) \in Nat /\ Len(texts[k]) \in Nat
           /\ DOMAIN texts # {} => StartOf(texts, 1) = 0
           /\ \A k \in DOMAIN texts : k + 1 \in DOMAIN texts => StartOf(texts, k + 1) = StartOf(texts, k) + Len(texts[k]) + Len(Separator)
  <1> DEFINE n == Len(texts)
             g == [k \in 1 .. n |-> [x \in Nat |-> x + Len(texts[k]) + Len(Separator)]]
             Runs(r) == r = [k \in 0 .. Len(texts) |-> IF k = 0 THEN 0 ELSE r[k - 1] + Len(texts[k]) + Len(Separator)]
             run == CHOOSE r : Runs(r)
  <1>0. n \in Nat /\ DOMAIN texts = 1 .. n /\ \A k \in 1 .. n : Len(texts[k]) \in Nat
    OBVIOUS
  <1>1. Len(Separator) \in Nat
    BY ProjectionAssumption
  <1>2. g \in [1 .. n -> [Nat -> Nat]]
    <2>1. \A k \in 1 .. n, x \in Nat : x + Len(texts[k]) + Len(Separator) \in Nat
      BY <1>0, <1>1
    <2> QED BY <2>1
  <1>3. \E r : Runs(r) /\ r \in [0 .. n -> Nat]
    <2>1. PICK f : f \in [0 .. n -> Nat] /\ f[0] = 0 /\ \A k \in 1 .. n : f[k] = g[k][f[k - 1]]
      <3>1. 0 \in Nat /\ n \in Nat /\ g \in [1 .. n -> [Nat -> Nat]]
        BY <1>0, <1>2
      <3> HIDE DEF g, n
      <3>2. \E f : Computes(n, Nat, 0, g, f)
        BY <3>1, Recursion
      <3> QED BY <3>2 DEF Computes
    <2>2. \A k \in 1 .. n : g[k][f[k - 1]] = f[k - 1] + Len(texts[k]) + Len(Separator)
      <3> SUFFICES ASSUME NEW k \in 1 .. n PROVE g[k][f[k - 1]] = f[k - 1] + Len(texts[k]) + Len(Separator)
        OBVIOUS
      <3>1. f[k - 1] \in Nat
        <4>1. k - 1 \in 0 .. n
          BY <1>0
        <4> QED BY <2>1, <4>1
      <3> QED BY <3>1
    <2>3. f = [k \in 0 .. n |-> IF k = 0 THEN 0 ELSE f[k - 1] + Len(texts[k]) + Len(Separator)]
      <3>1. \A k \in 0 .. n : f[k] = IF k = 0 THEN 0 ELSE f[k - 1] + Len(texts[k]) + Len(Separator)
        <4> HIDE DEF g
        <4>1. \A k \in 0 .. n : k = 0 \/ k \in 1 .. n
          BY <1>0
        <4> QED BY <2>1, <2>2, <4>1
      <3>2. f = [k \in 0 .. n |-> f[k]]
        BY <2>1
      <3> HIDE DEF g
      <3> QED BY <3>1, <3>2
    <2>4. Runs(f)
      BY <2>3
    <2> HIDE DEF Runs
    <2> QED BY <2>1, <2>4
  <1>4. Runs(run)
    <2> HIDE DEF Runs
    <2> QED BY <1>3
  <1>5. \A i : StartOf(texts, i) = run[i - 1]
    BY DEF StartOf
  <1> HIDE DEF run, g
  <1>6. run[0] = 0 /\ \A k \in 1 .. n : run[k] = run[k - 1] + Len(texts[k]) + Len(Separator)
    <2>1. \A k \in 0 .. n : run[k] = IF k = 0 THEN 0 ELSE run[k - 1] + Len(texts[k]) + Len(Separator)
      BY <1>4
    <2>2. 0 \in 0 .. n /\ \A k \in 1 .. n : k \in 0 .. n /\ k # 0
      BY <1>0
    <2> HIDE DEF Runs, n
    <2> QED BY <2>1, <2>2
  <1>7. \A k \in 0 .. n : run[k] \in Nat
    <2> DEFINE S == {k \in 0 .. n : run[k] \in Nat}
    <2>1. 0 \in S
      BY <1>0, <1>6
    <2>2. \A k \in 0 .. n - 1 : k \in S => k + 1 \in S
      <3> SUFFICES ASSUME NEW k \in 0 .. n - 1, k \in S PROVE k + 1 \in S
        OBVIOUS
      <3>1. k + 1 \in 1 .. n /\ (k + 1) - 1 = k /\ k + 1 \in 0 .. n
        BY <1>0
      <3>2. run[k + 1] = run[k] + Len(texts[k + 1]) + Len(Separator)
        BY <1>6, <3>1
      <3>3. run[k + 1] \in Nat
        BY <1>0, <1>1, <3>1, <3>2
      <3> QED BY <3>1, <3>3
    <2>3. \A k \in 0 .. n : k \in S
      <3> HIDE DEF S
      <3> QED BY <1>0, <2>1, <2>2, InductionTo
    <2> QED BY <2>3
  <1>8. \A k \in 1 .. n : StartOf(texts, k) \in Nat
    <2>1. \A k \in 1 .. n : k - 1 \in 0 .. n
      BY <1>0
    <2> QED BY <1>5, <1>7, <2>1
  <1>9. StartOf(texts, 1) = 0
    BY <1>5, <1>6
  <1>10. \A k \in 1 .. n : k + 1 \in 1 .. n => StartOf(texts, k + 1) = StartOf(texts, k) + Len(texts[k]) + Len(Separator)
    <2> SUFFICES ASSUME NEW k \in 1 .. n, k + 1 \in 1 .. n
                 PROVE  StartOf(texts, k + 1) = StartOf(texts, k) + Len(texts[k]) + Len(Separator)
      OBVIOUS
    <2>1. (k + 1) - 1 = k
      OBVIOUS
    <2>2. StartOf(texts, k + 1) = run[k]
      BY <1>5, <2>1
    <2> QED BY <1>5, <1>6, <2>2
  <1> QED BY <1>0, <1>8, <1>9, <1>10

\* Joined texts are joined one by one.
JoinsTo(texts, run) ==
    /\ Concatenated(texts) = run[Len(texts)] /\ run[0] = <<>>
    /\ \A k \in 1 .. Len(texts) : run[k] = IF k = 1 THEN texts[1] ELSE run[k - 1] \o Separator \o texts[k]
    /\ \A k \in 0 .. Len(texts) : run[k] \in Seq(Nat)

LEMMA Joins ==
    ASSUME NEW texts \in Seq(Seq(Nat))
    PROVE  \E run : JoinsTo(texts, run)
  <1> DEFINE n == Len(texts)
             A == Seq(Nat)
             next(x, k) == IF k = 1 THEN texts[1] ELSE x \o Separator \o texts[k]
             g == [k \in 1 .. n |-> [x \in A |-> next(x, k)]]
             Runs(r) == r = [k \in 0 .. Len(texts) |-> IF k = 0 THEN <<>> ELSE IF k = 1 THEN texts[1] ELSE r[k - 1] \o Separator \o texts[k]]
             run == CHOOSE r : Runs(r)
  <1>0. n \in Nat /\ DOMAIN texts = 1 .. n /\ \A k \in 1 .. n : texts[k] \in A
    OBVIOUS
  <1>1. \A k \in 1 .. n, x \in A : next(x, k) \in A
    <2> SUFFICES ASSUME NEW k \in 1 .. n, NEW x \in A PROVE next(x, k) \in A
      OBVIOUS
    <2>1. Separator \in Seq(Nat) /\ texts[k] \in Seq(Nat) /\ x \in Seq(Nat)
      BY <1>0, ProjectionAssumption
    <2>2. x \o Separator \o texts[k] \in Seq(Nat)
      BY <2>1
    <2> QED BY <2>1, <2>2
  <1>2. g \in [1 .. n -> [A -> A]]
    <2> HIDE DEF A, next
    <2> QED BY <1>1
  <1>3. \E r : Runs(r)
    <2>1. PICK f : f \in [0 .. n -> A] /\ f[0] = <<>> /\ \A k \in 1 .. n : f[k] = g[k][f[k - 1]]
      <3> DEFINE b == <<>>
      <3>1. b \in A /\ n \in Nat /\ g \in [1 .. n -> [A -> A]]
        BY <1>0, <1>2
      <3> HIDE DEF g, n, A, b
      <3>2. \E f : Computes(n, A, b, g, f)
        BY <3>1, Recursion
      <3> QED BY <3>2 DEF Computes, b
    <2>2. \A k \in 1 .. n : g[k][f[k - 1]] = next(f[k - 1], k)
      <3> SUFFICES ASSUME NEW k \in 1 .. n PROVE g[k][f[k - 1]] = next(f[k - 1], k)
        OBVIOUS
      <3>1. f[k - 1] \in A
        <4>1. k - 1 \in 0 .. n
          BY <1>0
        <4> HIDE DEF A
        <4> QED BY <2>1, <4>1
      <3> HIDE DEF A, next
      <3> QED BY <3>1
    <2>3. f = [k \in 0 .. n |-> IF k = 0 THEN <<>> ELSE next(f[k - 1], k)]
      <3>1. \A k \in 0 .. n : f[k] = IF k = 0 THEN <<>> ELSE next(f[k - 1], k)
        <4> HIDE DEF g, A, next
        <4>1. \A k \in 0 .. n : k = 0 \/ k \in 1 .. n
          BY <1>0
        <4> QED BY <2>1, <2>2, <4>1
      <3>2. f = [k \in 0 .. n |-> f[k]]
        BY <2>1
      <3> HIDE DEF g, A, next
      <3> QED BY <3>1, <3>2
    <2>4. Runs(f)
      BY <2>3
    <2> HIDE DEF Runs
    <2> QED BY <2>4
  <1>4. Runs(run)
    <2> HIDE DEF Runs
    <2> QED BY <1>3
  <1>5. Concatenated(texts) = run[Len(texts)]
    BY DEF Concatenated
  <1> HIDE DEF run, g
  <1>6. run[0] = <<>> /\ \A k \in 1 .. n : run[k] = next(run[k - 1], k)
    <2>1. \A k \in 0 .. n : run[k] = IF k = 0 THEN <<>> ELSE next(run[k - 1], k)
      BY <1>4
    <2>2. 0 \in 0 .. n /\ \A k \in 1 .. n : k \in 0 .. n /\ k # 0
      BY <1>0
    <2> HIDE DEF Runs, n, next
    <2> QED BY <2>1, <2>2
  <1>7. \A k \in 0 .. n : run[k] \in A
    <2> DEFINE S == {k \in 0 .. n : run[k] \in A}
    <2>1. 0 \in S
      <3>1. 0 \in 0 .. n /\ <<>> \in A
        BY <1>0
      <3> HIDE DEF A, n, next
      <3> QED BY <1>6, <3>1
    <2>2. \A k \in 0 .. n - 1 : k \in S => k + 1 \in S
      <3> HIDE DEF next, A
      <3> SUFFICES ASSUME NEW k \in 0 .. n - 1, k \in S PROVE k + 1 \in S
        OBVIOUS
      <3>1. k + 1 \in 1 .. n /\ (k + 1) - 1 = k /\ k + 1 \in 0 .. n
        BY <1>0
      <3>2. run[k + 1] = next(run[k], k + 1)
        BY <1>6, <3>1
      <3>3. run[k + 1] \in A
        BY <1>1, <3>1, <3>2
      <3> QED BY <3>1, <3>3
    <2>3. \A k \in 0 .. n : k \in S
      <3> HIDE DEF S
      <3> QED BY <1>0, <2>1, <2>2, InductionTo
    <2> QED BY <2>3
  <1>8. JoinsTo(texts, run)
    BY <1>5, <1>6, <1>7 DEF JoinsTo
  <1> QED BY <1>8

\* The fragments are of the members, each of one of its own, and the whole keeps to the limit.
PartsStand(parts, M) ==
    /\ \A i \in DOMAIN parts : \E o \in M :
          /\ parts[i].from = o.id
          /\ IF parts[i].cut THEN parts[i].text = SubSeq(o.says, 1, Len(parts[i].text)) ELSE parts[i].text = o.says
    /\ \A i, j \in DOMAIN parts : parts[i].from = parts[j].from => i = j

LEMMA FragmentsStand ==
    ASSUME payload \in Payloads, NEW M \in SUBSET Witnesses, IsFiniteSet(M), NEW members, Range(members) = M,
           NEW parts, parts = Fragments(Distinct(members))
    PROVE  PartsStand(parts, M) /\ Len(Concatenated([i \in DOMAIN parts |-> parts[i].text])) <= SnippetCap
  <1> DEFINE said    == Distinct(members)
             texts   == [i \in DOMAIN said |-> said[i].says]
             n       == Len(said)
             start(i) == StartOf(texts, i)
             room(i) == SnippetCap - StartOf(texts, i)
             fits    == {j \in DOMAIN said : room(j) > 0}
             part(i) == [from |-> said[i].id, text |-> IF Len(texts[i]) > room(i) THEN SubSeq(texts[i], 1, room(i)) ELSE texts[i],
                         cut |-> Len(texts[i]) > room(i)]
  <1>1. PICK K \in SUBSET M : said \in Seq(K) /\ \A i, j \in DOMAIN said : said[i] = said[j] => i = j
    <2> DEFINE talking == {o \in Range(members) : o.says # <<>>}
               K == {o \in talking : \A q \in talking : LongerFirst(q, o) => ~Within(o.says, q.says)}
    <2>1. said = InSourceOrder(K)
      BY DEF Distinct
    <2>2. K \in SUBSET M
      OBVIOUS
    <2> HIDE DEF K, said
    <2>3. IsFiniteSet(K) /\ K \in SUBSET Witnesses
      BY <2>2, FS_Subset
    <2>4. Sorted(said, K, {pair \in K \X K : SourceOrder(pair[1], pair[2])})
      BY <2>1, <2>3, SourceSorted
    <2> QED BY <2>2, <2>4 DEF Sorted
  <1>2. parts = [i \in fits |-> part(i)]
    BY DEF Fragments
  <1> HIDE DEF said
  <1>3. n \in Nat /\ DOMAIN said = 1 .. n /\ \A i \in 1 .. n : said[i] \in M /\ said[i] \in Witnesses
    BY <1>1
  <1>4. \A i \in 1 .. n : said[i].says \in Seq(Nat)
    BY <1>3, WitnessShape
  <1>5. texts \in Seq(Seq(Nat)) /\ Len(texts) = n /\ DOMAIN texts = 1 .. n /\ \A i \in 1 .. n : texts[i] = said[i].says
    <2>1. texts \in [1 .. n -> Seq(Nat)]
      BY <1>3, <1>4
    <2> QED BY <1>3, <2>1
  <1> HIDE DEF texts, n
  <1>6. /\ \A k \in 1 .. n : start(k) \in Nat /\ Len(texts[k]) \in Nat
        /\ n > 0 => start(1) = 0
        /\ \A k \in 1 .. n : k + 1 \in 1 .. n => start(k + 1) = start(k) + Len(texts[k]) + Len(Separator)
    <2>1. n > 0 => DOMAIN texts # {}
      <3>1. n > 0 => 1 \in 1 .. n
        BY <1>3
      <3> QED BY <1>5, <3>1
    <2> QED BY <1>5, <2>1, Starts
  <1>7. SnippetCap \in Nat /\ SnippetCap > 0 /\ Len(Separator) \in Nat /\ Separator \in Seq(Nat)
    BY ProjectionAssumption
  <1> HIDE DEF start
  <1>8. \A i \in 1 .. n : room(i) = SnippetCap - start(i) /\ room(i) \in Int
    BY <1>6, <1>7 DEF start
  <1> HIDE DEF room
  <1>9. \A i \in fits : i \in 1 .. n /\ room(i) > 0
    BY <1>3
  <1>10. PartsStand(parts, M)
    <2>1. ASSUME NEW i \in fits
          PROVE  \E o \in M : /\ parts[i].from = o.id
                              /\ IF parts[i].cut THEN parts[i].text = SubSeq(o.says, 1, Len(parts[i].text)) ELSE parts[i].text = o.says
      <3> DEFINE long == Len(texts[i]) > room(i)
      <3>1. parts[i].from = said[i].id /\ parts[i].text = (IF long THEN SubSeq(texts[i], 1, room(i)) ELSE texts[i]) /\ parts[i].cut = long
        <4> HIDE DEF long
        <4>1. parts[i] = [from |-> said[i].id, text |-> IF long THEN SubSeq(texts[i], 1, room(i)) ELSE texts[i], cut |-> long]
          BY <1>2 DEF long
        <4> QED BY <4>1
      <3>2. texts[i] = said[i].says /\ said[i] \in M /\ texts[i] \in Seq(Nat) /\ room(i) \in Nat /\ Len(texts[i]) \in Nat
        BY <1>3, <1>4, <1>5, <1>8, <1>9
      <3>3. CASE long
        <4>1. Len(SubSeq(texts[i], 1, room(i))) = room(i)
          BY <3>2, <3>3
        <4> HIDE DEF long
        <4>2. parts[i].text = SubSeq(texts[i], 1, room(i)) /\ parts[i].cut /\ Len(parts[i].text) = room(i)
          BY <3>1, <3>3, <4>1
        <4> QED BY <3>1, <3>2, <4>2
      <3>4. CASE ~long
        <4> HIDE DEF long
        <4>1. parts[i].text = texts[i] /\ ~parts[i].cut
          BY <3>1, <3>4
        <4> QED BY <3>1, <3>2, <4>1
      <3> QED BY <3>3, <3>4
    <2>2. ASSUME NEW i \in fits, NEW j \in fits, parts[i].from = parts[j].from PROVE i = j
      <3>1. parts[i].from = said[i].id /\ parts[j].from = said[j].id
        BY <1>2
      <3>2. said[i] \in Witnesses /\ said[j] \in Witnesses /\ i \in DOMAIN said /\ j \in DOMAIN said
        BY <1>3, <1>9
      <3>3. said[i] = said[j]
        BY <2>2, <3>1, <3>2, SameWitness
      <3> QED BY <1>1, <3>2, <3>3
    <2>3. DOMAIN parts = fits
      BY <1>2
    <2> HIDE DEF fits
    <2> QED BY <2>1, <2>2, <2>3 DEF PartsStand
  <1>11. PICK m \in 0 .. n : fits = 1 .. m
    <2> DEFINE S == {k \in 0 .. n : k \in fits => 1 .. k \subseteq fits}
    <2>1. 0 \in S
      BY <1>3, <1>9
    <2>2. \A k \in 0 .. n - 1 : k \in S => k + 1 \in S
      <3> SUFFICES ASSUME NEW k \in 0 .. n - 1, k \in S, k + 1 \in fits PROVE 1 .. k + 1 \subseteq fits
        BY <1>3
      <3>1. CASE k = 0
        <4>1. 1 .. k + 1 = {k + 1}
          BY <3>1
        <4> QED BY <4>1
      <3>2. CASE k # 0
        <4>1. k \in 1 .. n /\ k + 1 \in 1 .. n
          BY <1>3, <3>2
        <4>2. start(k) <= start(k + 1) /\ start(k) \in Nat /\ start(k + 1) \in Nat
          BY ONLY <1>6, <1>7, <4>1
        <4>3. room(k) > 0
          BY <1>7, <1>8, <1>9, <4>1, <4>2
        <4>4. k \in fits
          BY <1>3, <4>1, <4>3
        <4>5. 1 .. k \subseteq fits
          BY <4>4
        <4> HIDE DEF fits
        <4>6. 1 .. k + 1 = (1 .. k) \cup {k + 1}
          BY <4>1
        <4> QED BY <4>5, <4>6
      <3> QED BY <3>1, <3>2
    <2>3. \A k \in 0 .. n : k \in S
      <3> HIDE DEF S
      <3> QED BY <1>3, <2>1, <2>2, InductionTo
    <2>4. CASE fits = {}
      <3>1. 0 \in 0 .. n /\ 1 .. 0 = {}
        BY <1>3
      <3> HIDE DEF fits
      <3> QED BY <2>4, <3>1
    <2>5. CASE fits # {}
      <3>0. fits \in SUBSET (0 .. n)
        BY <1>3
      <3> HIDE DEF fits
      <3>1. PICK m \in fits : \A j \in fits : m >= j
        BY <1>3, <2>5, <3>0, Greatest
      <3>2. 1 .. m \subseteq fits
        BY <2>3, <3>0
      <3>3. fits \subseteq 1 .. m
        BY <1>9, <3>1
      <3>4. m \in 0 .. n
        BY <3>0
      <3> QED BY <3>2, <3>3, <3>4
    <2> QED BY <2>4, <2>5
  <1> DEFINE given == [i \in DOMAIN parts |-> parts[i].text]
  <1>12. /\ given \in Seq(Seq(Nat)) /\ Len(given) = m
         /\ \A i \in 1 .. m : given[i] \in Seq(Nat) /\ Len(given[i]) \in Nat /\ Len(given[i]) <= room(i)
                              /\ (Len(texts[i]) <= room(i) => given[i] = texts[i])
    <2>1. DOMAIN parts = 1 .. m
      BY <1>2, <1>11
    <2>2. ASSUME NEW i \in 1 .. m
          PROVE  given[i] \in Seq(Nat) /\ Len(given[i]) \in Nat /\ Len(given[i]) <= room(i) /\ (Len(texts[i]) <= room(i) => given[i] = texts[i])
      <3>1. i \in fits
        BY <1>11
      <3>2. given[i] = (IF Len(texts[i]) > room(i) THEN SubSeq(texts[i], 1, room(i)) ELSE texts[i])
        <4>1. parts[i].text = (IF Len(texts[i]) > room(i) THEN SubSeq(texts[i], 1, room(i)) ELSE texts[i])
          BY <1>2, <3>1
        <4> QED BY <2>1, <4>1
      <3>3. texts[i] \in Seq(Nat) /\ room(i) \in Nat /\ Len(texts[i]) \in Nat /\ room(i) > 0
        BY <1>3, <1>4, <1>5, <1>8, <1>9, <3>1
      <3> HIDE DEF given
      <3>4. CASE Len(texts[i]) > room(i)
        <4>1. SubSeq(texts[i], 1, room(i)) \in Seq(Nat) /\ Len(SubSeq(texts[i], 1, room(i))) = room(i)
          BY <3>3, <3>4
        <4> QED BY <3>2, <3>3, <3>4, <4>1
      <3>5. CASE ~(Len(texts[i]) > room(i))
        BY <3>2, <3>3, <3>5
      <3> QED BY <3>4, <3>5
    <2>3. given \in [1 .. m -> Seq(Nat)]
      BY <2>1, <2>2
    <2>4. given \in Seq(Seq(Nat)) /\ DOMAIN given = 1 .. m
      BY <2>3
    <2> HIDE DEF given
    <2>5. Len(given) = m
      BY <1>3, <2>4
    <2> QED BY <2>2, <2>4, <2>5
  <1> HIDE DEF given, fits
  <1>13. PICK run : JoinsTo(given, run)
    BY <1>12, Joins
  <1>14. /\ Concatenated(given) = run[m] /\ run[0] = <<>>
         /\ \A k \in 1 .. m : run[k] = IF k = 1 THEN given[1] ELSE run[k - 1] \o Separator \o given[k]
         /\ \A k \in 0 .. m : run[k] \in Seq(Nat)
    BY <1>12, <1>13 DEF JoinsTo
  <1>15. \A i \in 1 .. m : i \in 1 .. n /\ room(i) > 0
    BY <1>9, <1>11
  <1>16. \A k \in 0 .. m : k = 0 \/ Len(run[k]) = start(k) + Len(given[k])
    <2> DEFINE S == {k \in 0 .. m : k = 0 \/ Len(run[k]) = start(k) + Len(given[k])}
    <2>1. 0 \in S
      BY <1>3
    <2>2. \A k \in 0 .. m - 1 : k \in S => k + 1 \in S
      <3> SUFFICES ASSUME NEW k \in 0 .. m - 1, k \in S PROVE Len(run[k + 1]) = start(k + 1) + Len(given[k + 1])
        BY <1>3
      <3>0. k + 1 \in 1 .. m /\ (k + 1) - 1 = k /\ Len(given[k + 1]) \in Nat
        BY <1>3, <1>12
      <3>1. CASE k = 0
        <4>1. run[k + 1] = given[1] /\ given[k + 1] = given[1]
          BY <1>14, <3>0, <3>1
        <4>2. start(k + 1) = 0
          BY <1>3, <1>6, <3>0, <3>1
        <4> QED BY <3>0, <4>1, <4>2
      <3>2. CASE k # 0
        <4>1. k \in 1 .. m /\ k \in 1 .. n /\ k + 1 \in 1 .. n /\ k + 1 # 1
          BY <1>3, <1>15, <3>0, <3>2
        <4>2. run[k + 1] = run[k] \o Separator \o given[k + 1]
          BY <1>14, <3>0, <4>1
        <4>3. run[k] \in Seq(Nat) /\ given[k + 1] \in Seq(Nat)
          BY <1>12, <1>14, <3>0, <4>1
        <4>4. Len(run[k + 1]) = Len(run[k]) + Len(Separator) + Len(given[k + 1])
          BY <1>7, <4>2, <4>3
        <4>5. start(k + 1) = start(k) + Len(texts[k]) + Len(Separator) /\ start(k) \in Nat /\ Len(texts[k]) \in Nat
          BY <1>6, <4>1
        <4>6. SnippetCap - start(k + 1) > 0 /\ room(k) = SnippetCap - start(k)
          BY <1>8, <1>15, <3>0, <4>1
        <4>7. Len(texts[k]) <= room(k)
          BY <1>7, <4>5, <4>6
        <4>8. given[k] = texts[k]
          BY <1>12, <4>1, <4>7
        <4>9. Len(run[k]) = start(k) + Len(given[k])
          BY <4>1
        <4> QED BY <1>7, <3>0, <4>4, <4>5, <4>8, <4>9
      <3> QED BY <3>1, <3>2
    <2>3. \A k \in 0 .. m : k \in S
      <3> HIDE DEF S
      <3>1. m \in Nat
        BY <1>3
      <3> QED BY <2>1, <2>2, <3>1, InductionTo
    <2> QED BY <2>3
  <1>17. Len(Concatenated(given)) <= SnippetCap
    <2>1. CASE m = 0
      BY <1>7, <1>14, <2>1
    <2>2. CASE m # 0
      <3>1. m \in 1 .. m /\ m \in 1 .. n
        BY <1>3, <2>2
      <3>2. Len(run[m]) = start(m) + Len(given[m])
        BY <1>16, <2>2, <3>1
      <3>3. Len(given[m]) \in Nat /\ Len(given[m]) <= room(m) /\ room(m) = SnippetCap - start(m) /\ start(m) \in Nat
        BY <1>6, <1>8, <1>12, <3>1
      <3> QED BY <1>7, <1>14, <3>2, <3>3
    <2> QED BY <2>1, <2>2
  <1> QED BY <1>10, <1>17 DEF given

\* One page shown: the one who stands for it, and all who found it.
Grouped(c, S) ==
    \E M \in SUBSET S :
        /\ IsFiniteSet(M) /\ c.head \in M
        /\ c.members \in Seq(M) /\ Range(c.members) = M /\ \A j, k \in DOMAIN c.members : c.members[j] = c.members[k] => j = k

\* What a result says of its group.
Describes(result, c) ==
    /\ result.head = c.head.id /\ result.page = c.head.page
    /\ result.ids = [i \in DOMAIN c.members |-> c.members[i].id]
    /\ result.snippet = SnippetOf(c.head, c.members)

ClusterOf(chosen, alone, r) ==
    IF alone /\ \E q \in 1 .. r - 1 : chosen[q].head.page = chosen[r].head.page
    THEN <<chosen[r].head.page, chosen[r].head.id>> ELSE <<chosen[r].head.page>>

LEMMA ResultFields ==
    ASSUME NEW chosen, NEW alone, NEW r \in DOMAIN chosen
    PROVE  /\ Describes(ResultsOf(chosen, alone)[r], chosen[r])
           /\ ResultsOf(chosen, alone)[r].cluster = ClusterOf(chosen, alone, r)
  <1> DEFINE o == chosen[r].head
             ids == [i \in DOMAIN chosen[r].members |-> chosen[r].members[i].id]
             cluster == IF alone /\ \E q \in 1 .. r - 1 : chosen[q].head.page = chosen[r].head.page
                        THEN <<chosen[r].head.page, chosen[r].head.id>> ELSE <<chosen[r].head.page>>
             snippet == SnippetOf(chosen[r].head, chosen[r].members)
             priority == PriorityOf(r, chosen[r].members, chosen[r].head.page)
             result == ResultsOf(chosen, alone)[r]
  <1>1. result = [rank |-> r, head |-> o.id, page |-> o.page, form |-> o.form, ids |-> ids, cluster |-> cluster,
                  snippet |-> snippet, priority |-> priority]
    BY DEF ResultsOf
  <1> HIDE DEF ids, cluster, snippet, priority, o, result
  <1>2. result.head = o.id /\ result.page = o.page /\ result.ids = ids /\ result.cluster = cluster /\ result.snippet = snippet
    BY <1>1
  <1>3. Describes(result, chosen[r])
    BY <1>2 DEF Describes, ids, snippet, o
  <1>4. result.cluster = ClusterOf(chosen, alone, r)
    BY <1>2 DEF ClusterOf, cluster
  <1> QED BY <1>3, <1>4 DEF result

\* The snippet of a group stands, and keeps to the limit where it is merged.
LEMMA SnippetStands ==
    ASSUME payload \in Payloads, NEW c, Grouped(c, Witnesses), NEW snippet, snippet = SnippetOf(c.head, c.members)
    PROVE  /\ snippet.text = Concatenated([i \in DOMAIN snippet.parts |-> snippet.parts[i].text])
           /\ PartsStand(snippet.parts, Range(c.members))
           /\ Len(c.members) > 1 => Len(snippet.text) <= SnippetCap
  <1> DEFINE one == <<[from |-> c.head.id, text |-> c.head.says, cut |-> FALSE]>>
             parts == IF Len(c.members) = 1 THEN one ELSE Fragments(Distinct(c.members))
             text == Concatenated([i \in DOMAIN parts |-> parts[i].text])
  <1>1. PICK M \in SUBSET Witnesses : IsFiniteSet(M) /\ c.head \in M /\ c.members \in Seq(M) /\ Range(c.members) = M
    BY DEF Grouped
  <1>2. snippet = [text |-> text, parts |-> parts]
    BY DEF SnippetOf
  <1>3. PartsStand(one, M)
    <2>1. DOMAIN one = {1} /\ one[1] = [from |-> c.head.id, text |-> c.head.says, cut |-> FALSE]
      OBVIOUS
    <2> HIDE DEF one
    <2>2. one[1].from = c.head.id /\ one[1].text = c.head.says /\ one[1].cut = FALSE
      BY <2>1
    <2>3. \A i, j \in DOMAIN one : i = j
      BY <2>1
    <2> QED BY <1>1, <2>1, <2>2, <2>3 DEF PartsStand
  <1>4. CASE Len(c.members) = 1
    <2>1. parts = one /\ ~(Len(c.members) > 1)
      BY <1>4
    <2> HIDE DEF parts, one
    <2>2. snippet.text = text /\ snippet.parts = parts
      BY <1>2
    <2> QED BY <1>1, <1>3, <2>1, <2>2
  <1>5. CASE Len(c.members) # 1
    <2>1. parts = Fragments(Distinct(c.members))
      BY <1>5
    <2> HIDE DEF parts, one
    <2>2. PartsStand(parts, M) /\ Len(Concatenated([i \in DOMAIN parts |-> parts[i].text])) <= SnippetCap
      BY <1>1, <2>1, FragmentsStand
    <2>3. snippet.text = text /\ snippet.parts = parts
      BY <1>2
    <2> QED BY <1>1, <2>2, <2>3
  <1> QED BY <1>4, <1>5

\* What a result needs to pass the validation.
ResultStands(result, response) ==
    /\ result.head \in Range(result.ids)
    /\ \A id \in Range(result.ids) : ObservedIn(response, id) # {}
    /\ TextStands(response, result.snippet)

\* A group's result, in a response that observed S.
Stands(result, c, S, response) ==
    /\ ResultStands(result, response)
    /\ Len(result.ids) > 1 => Len(result.snippet.text) <= SnippetCap
    /\ \E o \in S : o.id = result.head
    /\ Range(result.ids) = {o.id : o \in Range(c.members)}

LEMMA GroupStands ==
    ASSUME payload \in Payloads, NEW response, NEW S \in SUBSET Witnesses, Range(response.observations) = S,
           NEW chosen, NEW alone, NEW r \in DOMAIN chosen, Grouped(chosen[r], S)
    PROVE  Stands(ResultsOf(chosen, alone)[r], chosen[r], S, response)
  <1> DEFINE c == chosen[r]
             result == ResultsOf(chosen, alone)[r]
  <1>a. result = ResultsOf(chosen, alone)[r] /\ c = chosen[r]
    OBVIOUS
  <1>1. PICK M \in SUBSET S : /\ IsFiniteSet(M) /\ c.head \in M /\ c.members \in Seq(M) /\ Range(c.members) = M
                              /\ \A j, k \in DOMAIN c.members : c.members[j] = c.members[k] => j = k
    BY DEF Grouped
  <1> HIDE DEF c, result
  <1>2. /\ result.head = c.head.id /\ result.ids = [i \in DOMAIN c.members |-> c.members[i].id]
        /\ result.snippet = SnippetOf(c.head, c.members)
    <2>1. Describes(result, c)
      BY <1>a, ResultFields
    <2> QED BY <2>1 DEF Describes
  <1>3. Grouped(c, Witnesses)
    BY <1>1 DEF Grouped
  <1>4. /\ result.snippet.text = Concatenated([i \in DOMAIN result.snippet.parts |-> result.snippet.parts[i].text])
        /\ PartsStand(result.snippet.parts, M)
        /\ Len(c.members) > 1 => Len(result.snippet.text) <= SnippetCap
    BY <1>1, <1>2, <1>3, SnippetStands
  <1>5. Range(result.ids) = {o.id : o \in M}
    <2>1. \A i \in DOMAIN c.members : c.members[i] \in M /\ result.ids[i] = c.members[i].id
      BY <1>1, <1>2
    <2>2. \A o \in M : \E i \in DOMAIN c.members : c.members[i] = o
      BY <1>1 DEF Range
    <2>3. DOMAIN result.ids = DOMAIN c.members
      BY <1>2
    <2> QED BY <2>1, <2>2, <2>3 DEF Range
  <1>6. result.head \in Range(result.ids)
    BY <1>1, <1>2, <1>5
  <1>7. \A o \in S : o \in ObservedIn(response, o.id)
    BY DEF ObservedIn
  <1>8. \A id \in Range(result.ids) : ObservedIn(response, id) # {}
    BY <1>5, <1>7
  <1>9. TextStands(response, result.snippet)
    <2> DEFINE parts == result.snippet.parts
    <2>1. ASSUME NEW i \in DOMAIN parts
          PROVE  \E o \in ObservedIn(response, parts[i].from) :
                    IF parts[i].cut THEN parts[i].text = SubSeq(o.says, 1, Len(parts[i].text)) ELSE parts[i].text = o.says
      <3>1. PICK o \in M : /\ parts[i].from = o.id
                           /\ IF parts[i].cut THEN parts[i].text = SubSeq(o.says, 1, Len(parts[i].text)) ELSE parts[i].text = o.says
        BY <1>4 DEF PartsStand
      <3>2. o \in ObservedIn(response, parts[i].from)
        BY <1>7, <3>1
      <3> QED BY <3>1, <3>2
    <2>2. \A i, j \in DOMAIN parts : parts[i].from = parts[j].from => i = j
      BY <1>4 DEF PartsStand
    <2> QED BY <1>4, <2>1, <2>2 DEF TextStands
  <1>10. Len(result.ids) = Len(c.members)
    <2>1. c.members \in Seq(M) /\ DOMAIN c.members = 1 .. Len(c.members) /\ Len(c.members) \in Nat
      BY <1>1
    <2>2. result.ids \in Seq({o.id : o \in M})
      <3>1. result.ids \in [1 .. Len(c.members) -> {o.id : o \in M}]
        BY <1>1, <1>2, <2>1
      <3> QED BY <2>1, <3>1
    <2>3. DOMAIN result.ids = 1 .. Len(c.members)
      BY <1>2, <2>1
    <2> QED BY <2>1, <2>2, <2>3
  <1>11. ResultStands(result, response)
    BY <1>6, <1>8, <1>9 DEF ResultStands
  <1>12. \E o \in S : o.id = result.head
    BY <1>1, <1>2
  <1>13. Range(result.ids) = {o.id : o \in Range(c.members)}
    BY <1>1, <1>5
  <1>14. Len(result.ids) > 1 => Len(result.snippet.text) <= SnippetCap
    BY <1>4, <1>10
  <1>15. Stands(result, c, S, response)
    BY <1>11, <1>12, <1>13, <1>14 DEF Stands
  <1> QED BY <1>15 DEF c, result

\* What stands for a page is one of those that found it.
LEMMA HeadFound ==
    ASSUME NEW M, NEW members \in Seq(M), members # <<>>, NEW form
    PROVE  HeadOf(members, form) \in Range(members)
  <1> DEFINE same == {i \in DOMAIN members : members[i].form = form}
             at == IF same = {} THEN 1 ELSE CHOOSE i \in same : \A j \in same : i <= j
  <1>1. Len(members) \in Nat /\ DOMAIN members = 1 .. Len(members) /\ 1 \in DOMAIN members
    OBVIOUS
  <1>2. same \in SUBSET Nat /\ same \subseteq DOMAIN members
    BY <1>1
  <1> HIDE DEF same
  <1>3. same # {} => \E v \in same : \A w \in same : v <= w
    BY <1>2, Least
  <1>4. at \in DOMAIN members
    BY <1>1, <1>2, <1>3
  <1> HIDE DEF at
  <1>5. HeadOf(members, form) = members[at]
    BY DEF HeadOf, at, same
  <1> QED BY <1>4, <1>5 DEF Range

\* The observations of a page, in order.
LEMMA MembersFound ==
    ASSUME payload \in Payloads, NEW observed, NEW S \in SUBSET Witnesses, IsFiniteSet(S), Range(observed) = S, NEW page
    PROVE  \E before : Sorted(MembersOf(observed, page), {o \in S : o.page = page}, before)
  <1> DEFINE M == {o \in S : o.page = page}
  <1>1. M \in SUBSET Witnesses /\ M \subseteq S
    OBVIOUS
  <1> HIDE DEF M
  <1>2. IsFiniteSet(M)
    BY <1>1, FS_Subset
  <1>3. Sorted(InSourceOrder(M), M, {pair \in M \X M : SourceOrder(pair[1], pair[2])})
    BY <1>1, <1>2, SourceSorted
  <1>4. MembersOf(observed, page) = InSourceOrder(M)
    BY DEF MembersOf, M
  <1>5. \E before : Sorted(MembersOf(observed, page), M, before)
    BY <1>3, <1>4
  <1> QED BY <1>5 DEF M

\* One group for each page that is shown and was found.
PageGroups(chosen, S) ==
    /\ \E n \in Nat : DOMAIN chosen = 1 .. n
    /\ \A r \in DOMAIN chosen :
          Grouped(chosen[r], S) /\ Range(chosen[r].members) = {o \in S : o.page = chosen[r].head.page}
    /\ \A q, r \in DOMAIN chosen : chosen[q].head.page = chosen[r].head.page => q = r
    /\ \A i \in DOMAIN KeptItems : (\E o \in S : o.page = KeptItems[i].page) =>
          \E r \in DOMAIN chosen : chosen[r].head.page = KeptItems[i].page

LEMMA PagesGrouped ==
    ASSUME payload \in Payloads, NEW observed, NEW S \in SUBSET Witnesses, IsFiniteSet(S), Range(observed) = S
    PROVE  \E chosen : SearchResults(observed) = ResultsOf(chosen, FALSE) /\ PageGroups(chosen, S)
  <1> DEFINE page(i) == KeptItems[i].page
             found(i) == MembersOf(observed, page(i))
             first  == {i \in DOMAIN KeptItems : found(i) # <<>> /\ \A j \in 1 .. i - 1 : page(j) # page(i)}
             before == {pair \in first \X first : pair[1] < pair[2]}
             shown  == SortedBy(first, before)
             chosen == [r \in DOMAIN shown |-> [head |-> HeadOf(found(shown[r]), KeptItems[shown[r]].form), members |-> found(shown[r])]]
  <1>1. SearchResults(observed) = ResultsOf(chosen, FALSE)
    BY DEF SearchResults
  <1>2. Len(payload.kept) \in Nat /\ DOMAIN KeptItems = 1 .. Len(payload.kept)
    BY PayloadShape DEF KeptItems
  <1>3. IsFiniteSet(first) /\ first \subseteq DOMAIN KeptItems /\ \A i \in first : i \in Nat
    <2>1. IsFiniteSet(1 .. Len(payload.kept))
      <3>1. 1 \in Int /\ Len(payload.kept) \in Int
        BY <1>2
      <3> QED BY <3>1, FS_Interval
    <2>2. first \subseteq 1 .. Len(payload.kept)
      BY <1>2
    <2> HIDE DEF first
    <2>3. IsFiniteSet(first)
      BY <2>1, <2>2, FS_Subset
    <2>4. \A i \in first : i \in Nat
      BY <2>2
    <2> QED BY <1>2, <2>2, <2>3, <2>4
  <1>4. \A i \in DOMAIN KeptItems : \E b : Sorted(found(i), {o \in S : o.page = page(i)}, b)
    BY MembersFound
  <1>5. \A i \in DOMAIN KeptItems : /\ found(i) \in Seq({o \in S : o.page = page(i)}) /\ Range(found(i)) = {o \in S : o.page = page(i)}
                                    /\ \A j, k \in DOMAIN found(i) : found(i)[j] = found(i)[k] => j = k
    <2> HIDE DEF found, page
    <2> QED BY <1>4 DEF Sorted
  <1>6. \A i \in first : i \in DOMAIN KeptItems /\ found(i) # <<>> /\ \A j \in 1 .. i - 1 : page(j) # page(i)
    OBVIOUS
  <1>7. \A i \in DOMAIN KeptItems : found(i) # <<>> /\ (\A j \in 1 .. i - 1 : page(j) # page(i)) => i \in first
    OBVIOUS
  <1> HIDE DEF found
  <1>8. \A i \in first : HeadOf(found(i), KeptItems[i].form) \in {o \in S : o.page = page(i)}
    <2> HIDE DEF first, page
    <2> SUFFICES ASSUME NEW i \in first PROVE HeadOf(found(i), KeptItems[i].form) \in {o \in S : o.page = page(i)}
      OBVIOUS
    <2> DEFINE M == {o \in S : o.page = page(i)}
    <2>1. found(i) \in Seq(M) /\ Range(found(i)) = M /\ found(i) # <<>>
      BY <1>5, <1>6
    <2> HIDE DEF M
    <2>2. HeadOf(found(i), KeptItems[i].form) \in Range(found(i))
      BY ONLY <2>1, HeadFound
    <2> QED BY <2>1, <2>2 DEF M
  <1> HIDE DEF first, page
  <1>9. Sorted(shown, first, before)
    <2>1. Orders(before, first)
      <3>1. \A i, j \in first : <<i, j>> \in before <=> i < j
        OBVIOUS
      <3> HIDE DEF before
      <3> QED BY <1>3, <3>1 DEF Orders
    <2> HIDE DEF before
    <2> QED BY <1>3, <2>1, SortedList
  <1> HIDE DEF shown, before
  <1>10. /\ Cardinality(first) \in Nat /\ DOMAIN shown = 1 .. Cardinality(first) /\ Range(shown) = first
         /\ \A j, k \in DOMAIN shown : shown[j] = shown[k] => j = k
    BY <1>9 DEF Sorted
  <1>11. \A r \in DOMAIN shown : shown[r] \in first
    BY <1>10 DEF Range
  <1>12. \A i \in first : \E r \in DOMAIN shown : shown[r] = i
    BY <1>10 DEF Range
  <1>13. \A r \in DOMAIN shown : /\ chosen[r].head = HeadOf(found(shown[r]), KeptItems[shown[r]].form)
                                 /\ chosen[r].members = found(shown[r])
    OBVIOUS
  <1>14. DOMAIN chosen = DOMAIN shown
    OBVIOUS
  <1> HIDE DEF chosen
  <1>15. ASSUME NEW r \in DOMAIN chosen
         PROVE  /\ chosen[r].head.page = page(shown[r])
                /\ Grouped(chosen[r], S) /\ Range(chosen[r].members) = {o \in S : o.page = chosen[r].head.page}
    <2> DEFINE M == {o \in S : o.page = page(shown[r])}
    <2>1. shown[r] \in first /\ shown[r] \in DOMAIN KeptItems
      BY <1>6, <1>11, <1>14
    <2>2. /\ chosen[r].head \in M /\ chosen[r].members \in Seq(M) /\ Range(chosen[r].members) = M
          /\ \A j, k \in DOMAIN chosen[r].members : chosen[r].members[j] = chosen[r].members[k] => j = k
      BY <1>5, <1>8, <1>13, <1>14, <2>1
    <2>3. chosen[r].head.page = page(shown[r]) /\ M \in SUBSET S
      BY <2>2
    <2>4. M = {o \in S : o.page = chosen[r].head.page}
      BY <2>3
    <2> HIDE DEF M
    <2>5. IsFiniteSet(M)
      BY <2>3, FS_Subset
    <2>6. Grouped(chosen[r], S)
      BY <2>2, <2>3, <2>5 DEF Grouped
    <2> QED BY <2>2, <2>3, <2>4, <2>6
  <1>16. \A q, r \in DOMAIN chosen : chosen[q].head.page = chosen[r].head.page => q = r
    <2> SUFFICES ASSUME NEW q \in DOMAIN chosen, NEW r \in DOMAIN chosen, page(shown[q]) = page(shown[r]) PROVE q = r
      BY <1>15
    <2>1. shown[q] \in first /\ shown[r] \in first /\ shown[q] \in Nat /\ shown[r] \in Nat
      BY <1>3, <1>11, <1>14
    <2>2. shown[q] \in DOMAIN KeptItems /\ shown[r] \in DOMAIN KeptItems
      BY <1>6, <2>1
    <2>3. ~(shown[q] < shown[r]) /\ ~(shown[r] < shown[q])
      BY <1>2, <1>6, <2>1, <2>2
    <2> QED BY <1>10, <1>14, <2>1, <2>3
  <1>17. ASSUME NEW i \in DOMAIN KeptItems, NEW o \in S, o.page = page(i)
         PROVE  \E r \in DOMAIN chosen : chosen[r].head.page = page(i)
    <2> DEFINE P == {j \in DOMAIN KeptItems : page(j) = page(i)}
    <2>1. P \in SUBSET Nat /\ P # {}
      BY <1>2
    <2>2. PICK v \in P : \A w \in P : v <= w
      <3> HIDE DEF P
      <3> QED BY <2>1, Least
    <2>3. v \in DOMAIN KeptItems /\ page(v) = page(i) /\ \A j \in DOMAIN KeptItems : page(j) = page(i) => v <= j
      BY <2>2
    <2> HIDE DEF P
    <2>4. \A j \in 1 .. v - 1 : page(j) # page(v)
      BY <1>2, <2>3
    <2>5. found(v) # <<>>
      <3>1. o \in Range(found(v))
        BY <1>5, <1>17, <2>3
      <3>2. DOMAIN found(v) # {}
        BY <3>1 DEF Range
      <3> QED BY <3>2
    <2>6. v \in first
      BY <1>7, <2>3, <2>4, <2>5
    <2>7. PICK r \in DOMAIN shown : shown[r] = v
      BY <1>12, <2>6
    <2> QED BY <1>14, <1>15, <2>3, <2>7
  <1>18. PageGroups(chosen, S)
    <2>1. \A i \in DOMAIN KeptItems : (\E o \in S : o.page = KeptItems[i].page) => \E r \in DOMAIN chosen : chosen[r].head.page = KeptItems[i].page
      BY <1>17 DEF page
    <2>2. \E n \in Nat : DOMAIN chosen = 1 .. n
      BY <1>10, <1>14
    <2> QED BY <1>15, <1>16, <2>1, <2>2 DEF PageGroups
  <1> QED
    <2>1. SearchResults(observed) = ResultsOf(chosen, FALSE)
      BY <1>1 DEF chosen, shown, before, first, found, page
    <2> QED BY <1>18, <2>1

\* One group for each item that was found.
ItemGroups(chosen, S) ==
    /\ DOMAIN chosen = 1 .. Cardinality(S)
    /\ \A r \in DOMAIN chosen : Grouped(chosen[r], S)
    /\ \A q, r \in DOMAIN chosen : chosen[q].head = chosen[r].head => q = r

LEMMA ItemsGrouped ==
    ASSUME payload \in Payloads, NEW order, Enumerates(order), NEW observed, Range(observed) = ObservedWith(Anchor(order))
    PROVE  \E chosen : ExtractResults(observed) = ResultsOf(chosen, TRUE) /\ ItemGroups(chosen, ObservedWith(Anchor(order)))
  <1> DEFINE S == ObservedWith(Anchor(order))
             before  == {pair \in S \X S : pair[1].slot < pair[2].slot}
             inOrder == SortedBy(S, before)
             chosen  == [i \in DOMAIN inOrder |-> [head |-> inOrder[i], members |-> <<inOrder[i]>>]]
  <1>1. S \subseteq Witnesses /\ IsFiniteSet(S)
    BY FewWitnesses
  <1>2. \A a, b \in S : a.slot = b.slot => a = b
    BY SlotsApart
  <1>3. ExtractResults(observed) = ResultsOf(chosen, TRUE)
    BY DEF ExtractResults
  <1>4. \A a, b \in S : <<a, b>> \in before <=> a.slot < b.slot
    OBVIOUS
  <1> HIDE DEF S
  <1>5. \A a \in S : a.slot \in Nat
    BY <1>1, WitnessShape
  <1>6. Sorted(inOrder, S, before)
    <2> HIDE DEF before
    <2>1. Orders(before, S)
      BY <1>2, <1>4, <1>5 DEF Orders
    <2> QED BY <1>1, <2>1, SortedList
  <1> HIDE DEF inOrder, before
  <1>7. /\ DOMAIN inOrder = 1 .. Cardinality(S) /\ \A i \in DOMAIN inOrder : inOrder[i] \in S
        /\ \A i, j \in DOMAIN inOrder : inOrder[i] = inOrder[j] => i = j
    BY <1>6 DEF Sorted, Range
  <1>8. DOMAIN chosen = DOMAIN inOrder /\ \A i \in DOMAIN inOrder : chosen[i].head = inOrder[i] /\ chosen[i].members = <<inOrder[i]>>
    OBVIOUS
  <1> HIDE DEF chosen
  <1>9. ASSUME NEW r \in DOMAIN chosen PROVE Grouped(chosen[r], S)
    <2> DEFINE o == inOrder[r]
               list == <<o>>
    <2>1. chosen[r].head = o /\ chosen[r].members = list /\ o \in S
      BY <1>7, <1>8
    <2> HIDE DEF o
    <2>2. list \in Seq({o}) /\ DOMAIN list = {1} /\ list[1] = o
      OBVIOUS
    <2> HIDE DEF list
    <2>3. Range(list) = {o} /\ \A j, k \in DOMAIN list : list[j] = list[k] => j = k
      BY <2>2 DEF Range
    <2>4. IsFiniteSet({o})
      BY FS_Singleton
    <2>5. {o} \in SUBSET S
      BY <2>1
    <2> QED BY <2>1, <2>2, <2>3, <2>4, <2>5 DEF Grouped
  <1>10. ItemGroups(chosen, S)
    BY <1>7, <1>8, <1>9 DEF ItemGroups
  <1>11. ExtractResults(observed) = ResultsOf(chosen, TRUE)
    BY <1>3 DEF chosen, inOrder, before
  <1>12. \E some : ExtractResults(observed) = ResultsOf(some, TRUE) /\ ItemGroups(some, S)
    BY <1>10, <1>11
  <1> QED BY <1>12 DEF S

\* Items of one page are in clusters of their own.
LEMMA ClustersApart ==
    ASSUME payload \in Payloads, NEW S \in SUBSET Witnesses, NEW chosen, ItemGroups(chosen, S), Cardinality(S) \in Nat,
           NEW q \in DOMAIN chosen, NEW r \in DOMAIN chosen, ClusterOf(chosen, TRUE, q) = ClusterOf(chosen, TRUE, r)
    PROVE  q = r
  <1> DEFINE page(i) == chosen[i].head.page
             id(i)   == chosen[i].head.id
             second(i) == \E j \in 1 .. i - 1 : page(j) = page(i)
  <1>1. \A i \in DOMAIN chosen : chosen[i].head \in Witnesses /\ i \in 1 .. Cardinality(S)
    BY DEF ItemGroups, Grouped
  <1>2. \A i \in DOMAIN chosen : ClusterOf(chosen, TRUE, i) = IF second(i) THEN <<page(i), id(i)>> ELSE <<page(i)>>
    BY DEF ClusterOf
  <1>3. \A i, j \in DOMAIN chosen : id(i) = id(j) => i = j
    BY <1>1, SameWitness DEF ItemGroups
  <1>4. \A i, j \in DOMAIN chosen : i < j /\ page(i) = page(j) => second(j)
    BY <1>1
  <1> HIDE DEF page, id, second
  <1>5. page(q) = page(r)
    <2>1. \A i \in DOMAIN chosen : ClusterOf(chosen, TRUE, i)[1] = page(i)
      <3>1. \A x, y : <<x, y>>[1] = x /\ <<x>>[1] = x
        OBVIOUS
      <3> QED BY <1>2, <3>1
    <2> QED BY <2>1
  <1>6. CASE second(q) /\ second(r)
    <2>1. <<page(q), id(q)>> = <<page(r), id(r)>>
      BY <1>2, <1>6
    <2> QED BY <1>3, <2>1
  <1>7. CASE ~second(q) /\ ~second(r)
    BY <1>1, <1>4, <1>5, <1>7
  <1>8. CASE second(q) /\ ~second(r)
    <2>1. <<page(q), id(q)>> = <<page(r)>>
      BY <1>2, <1>8
    <2> QED BY <2>1
  <1>9. CASE ~second(q) /\ second(r)
    <2>1. <<page(q)>> = <<page(r), id(r)>>
      BY <1>2, <1>9
    <2> QED BY <2>1
  <1> QED BY <1>6, <1>7, <1>8, <1>9

\* Results depend on what was observed, not on the order in which it is listed.
LEMMA OnlyWhatIsSeen ==
    ASSUME NEW a, NEW b, Range(a) = Range(b)
    PROVE  SearchResults(a) = SearchResults(b) /\ ExtractResults(a) = ExtractResults(b)
  <1> DEFINE first(o) == {i \in DOMAIN KeptItems : MembersOf(o, KeptItems[i].page) # <<>>
                                                    /\ \A j \in 1 .. i - 1 : KeptItems[j].page # KeptItems[i].page}
             shown(o) == SortedBy(first(o), {pair \in first(o) \X first(o) : pair[1] < pair[2]})
             chosen(o) == [r \in DOMAIN shown(o) |->
                              [head |-> HeadOf(MembersOf(o, KeptItems[shown(o)[r]].page), KeptItems[shown(o)[r]].form),
                               members |-> MembersOf(o, KeptItems[shown(o)[r]].page)]]
  <1>1. \A page : MembersOf(a, page) = MembersOf(b, page)
    BY DEF MembersOf
  <1>2. SearchResults(a) = ResultsOf(chosen(a), FALSE) /\ SearchResults(b) = ResultsOf(chosen(b), FALSE)
    BY DEF SearchResults
  <1>3. first(a) = first(b)
    BY <1>1
  <1> HIDE DEF first
  <1>4. shown(a) = shown(b)
    BY <1>3
  <1> HIDE DEF shown
  <1>5. chosen(a) = chosen(b)
    BY <1>1, <1>4
  <1> HIDE DEF chosen
  <1>6. ExtractResults(a) = ExtractResults(b)
    BY DEF ExtractResults
  <1> QED BY <1>2, <1>5, <1>6

LEMMA SameResults ==
    ASSUME payload \in Payloads, NEW order, Enumerates(order)
    PROVE  ResultsFrom(order) = ResultsFrom([p \in Attempted |-> p])
  <1> DEFINE named == [p \in Attempted |-> p]
  <1>1. Enumerates(named)
    <2>1. Len(payload.ends) \in Nat /\ Attempted = 1 .. Len(payload.ends)
      BY PayloadShape
    <2>2. named \in Seq(Attempted)
      <3>1. named \in [1 .. Len(payload.ends) -> Attempted]
        BY <2>1
      <3> QED BY <2>1, <3>1
    <2>3. Range(named) = Attempted /\ \A i, j \in DOMAIN named : named[i] = named[j] => i = j
      BY DEF Range
    <2> QED BY <2>2, <2>3 DEF Enumerates
  <1> HIDE DEF named
  <1>2. \A o : Enumerates(o) => Range(Observations(o)) = ObservedWith(Anchor(o))
    BY ObservationsListed DEF Sorted
  <1>3. Range(Observations(order)) = Range(Observations(named))
    BY <1>1, <1>2, SameObserved
  <1>4. ResultsFrom(order) = ResultsFrom(named)
    BY <1>3, OnlyWhatIsSeen DEF ResultsFrom
  <1> QED BY <1>4 DEF named

\* What a built response promises.
LEMMA ResponseStands ==
    ASSUME payload \in Payloads, NEW order, Enumerates(order), answerV3 = ResponseFrom(order)
    PROVE  ProjectionSound
  <1> DEFINE S        == ObservedWith(Anchor(order))
             observed == Observations(order)
             results  == ResultsFrom(order)
             failed   == StatusOf(results) = "failed"
             fields   == [results |-> results, observations |-> observed, actions |-> ActionsOf(results), status |-> StatusOf(results),
                          warnings |-> WarningsOf(results), error |-> failed, built |-> TRUE]
  <1>1. answerV3 = fields
    BY DEF ResponseFrom
  <1> HIDE DEF S, observed, results, failed
  <1>2. /\ answerV3.results = results /\ answerV3.observations = observed /\ answerV3.actions = ActionsOf(results)
        /\ answerV3.status = StatusOf(results) /\ answerV3.warnings = WarningsOf(results) /\ answerV3.error = failed
    BY <1>1
  <1> HIDE DEF fields
  <1>3. S \in SUBSET Witnesses /\ IsFiniteSet(S)
    BY FewWitnesses DEF S
  <1>4. /\ Cardinality(S) \in Nat /\ Len(observed) = Cardinality(S) /\ Range(observed) = S
        /\ \A i \in DOMAIN observed : observed[i] \in S
        /\ \A i, j \in DOMAIN observed : observed[i] = observed[j] => i = j
    BY ObservationsListed DEF Sorted, S, observed, Range
  <1>5. \A i, j \in DOMAIN observed : observed[i].id = observed[j].id => i = j
    BY <1>3, <1>4, SameWitness
  <1>6. payload.search \in BOOLEAN
    BY PayloadShape
  <1>7. payload.search => \E chosen : results = ResultsOf(chosen, FALSE) /\ PageGroups(chosen, S)
    <2> SUFFICES ASSUME payload.search PROVE \E chosen : results = ResultsOf(chosen, FALSE) /\ PageGroups(chosen, S)
      OBVIOUS
    <2>1. results = SearchResults(observed)
      BY DEF ResultsFrom, results, observed
    <2> QED BY <1>3, <1>4, <2>1, PagesGrouped
  <1>8. ~payload.search => \E chosen : results = ResultsOf(chosen, TRUE) /\ ItemGroups(chosen, S)
    <2> SUFFICES ASSUME ~payload.search PROVE \E chosen : results = ResultsOf(chosen, TRUE) /\ ItemGroups(chosen, S)
      OBVIOUS
    <2>1. results = ExtractResults(observed)
      BY DEF ResultsFrom, results, observed
    <2>2. Range(observed) = ObservedWith(Anchor(order))
      BY <1>4 DEF S
    <2> QED BY <2>1, <2>2, ItemsGrouped DEF S
  <1>9. \E chosen, alone : results = ResultsOf(chosen, alone) /\ \A r \in DOMAIN chosen : Grouped(chosen[r], S)
    <2>1. CASE payload.search
      BY <1>7, <2>1 DEF PageGroups
    <2>2. CASE ~payload.search
      BY <1>8, <2>2 DEF ItemGroups
    <2> QED BY <2>1, <2>2
  <1>10. PICK chosen, alone : results = ResultsOf(chosen, alone) /\ \A r \in DOMAIN chosen : Grouped(chosen[r], S)
    BY <1>9
  <1>11. \A c, a : DOMAIN ResultsOf(c, a) = DOMAIN c
    BY DEF ResultsOf
  <1>12. ASSUME NEW r \in DOMAIN results
         PROVE  /\ ResultStands(results[r], answerV3)
                /\ Len(results[r].ids) > 1 => Len(results[r].snippet.text) <= SnippetCap
                /\ \E o \in S : o.id = results[r].head
    <2>1. r \in DOMAIN chosen /\ Grouped(chosen[r], S)
      BY <1>10, <1>11
    <2>2. Range(answerV3.observations) = S
      BY <1>2, <1>4
    <2>3. Stands(results[r], chosen[r], S, answerV3)
      BY <1>3, <1>10, <2>1, <2>2, GroupStands
    <2> QED BY <2>3 DEF Stands
  <1>13. \A id \in answerV3.actions : ObservedIn(answerV3, id) # {}
    <2>1. \A o \in S : o \in ObservedIn(answerV3, o.id)
      BY <1>2, <1>4 DEF ObservedIn
    <2>2. \A id \in answerV3.actions : \E r \in DOMAIN results : id = results[r].head
      BY <1>2 DEF ActionsOf
    <2> QED BY <1>12, <2>1, <2>2
  <1>14. answerV3.status = "degraded" => answerV3.warnings # {}
    BY <1>2 DEF StatusOf, WarningsOf
  <1>15. answerV3.error <=> answerV3.status = "failed"
    BY <1>2 DEF failed
  <1>16. PassesValidation(answerV3)
    BY <1>2, <1>5, <1>12, <1>13, <1>14, <1>15 DEF PassesValidation, ResultStands
  <1>17. answerV3.results = ResultsFrom([p \in Attempted |-> p])
    BY <1>2, SameResults DEF results
  <1>18. ASSUME payload.search, NEW page \in {KeptItems[i].page : i \in DOMAIN KeptItems} \cap {o.page : o \in Range(answerV3.observations)}
         PROVE  \E r \in DOMAIN answerV3.results :
                    /\ \A q \in DOMAIN answerV3.results : answerV3.results[q].page = page => q = r
                    /\ Range(answerV3.results[r].ids) = {o.id : o \in {x \in Range(answerV3.observations) : x.page = page}}
    <2>1. PICK groups : results = ResultsOf(groups, FALSE) /\ PageGroups(groups, S)
      BY <1>7, <1>18
    <2>2. PICK i \in DOMAIN KeptItems : KeptItems[i].page = page
      OBVIOUS
    <2>3. \E o \in S : o.page = KeptItems[i].page
      BY <1>2, <1>4, <2>2
    <2>4. PICK r \in DOMAIN groups : groups[r].head.page = page
      BY <2>1, <2>2, <2>3 DEF PageGroups
    <2>5. \A q \in DOMAIN groups : results[q].page = groups[q].head.page
      <3>1. \A q \in DOMAIN groups : Describes(results[q], groups[q])
        BY <2>1, ResultFields
      <3> QED BY <3>1 DEF Describes
    <2>6. \A q \in DOMAIN groups : results[q].page = page => q = r
      BY <2>1, <2>4, <2>5 DEF PageGroups
    <2>7. Range(results[r].ids) = {o.id : o \in Range(groups[r].members)}
      <3>1. Grouped(groups[r], S) /\ Range(answerV3.observations) = S
        BY <1>2, <1>4, <2>1, <2>4 DEF PageGroups
      <3>2. Stands(results[r], groups[r], S, answerV3)
        BY <1>3, <2>1, <2>4, <3>1, GroupStands
      <3> QED BY <3>2 DEF Stands
    <2>8. Range(groups[r].members) = {x \in Range(answerV3.observations) : x.page = page}
      BY <1>2, <1>4, <2>1, <2>4 DEF PageGroups
    <2>9. DOMAIN answerV3.results = DOMAIN groups
      BY <1>2, <1>11, <2>1
    <2> QED BY <1>2, <2>6, <2>7, <2>8, <2>9
  <1>19. ASSUME ~payload.search
         PROVE  /\ Len(answerV3.results) = Len(answerV3.observations)
                /\ \A q, r \in DOMAIN answerV3.results : answerV3.results[q].cluster = answerV3.results[r].cluster => q = r
    <2>1. PICK groups : results = ResultsOf(groups, TRUE) /\ ItemGroups(groups, S)
      BY <1>8, <1>19
    <2>2. DOMAIN results = 1 .. Cardinality(S) /\ DOMAIN results = DOMAIN groups
      BY <1>11, <2>1 DEF ItemGroups
    <2>3. results = [i \in 1 .. Cardinality(S) |-> results[i]]
      <3>1. results = [i \in DOMAIN results |-> results[i]]
        <4>1. \A c, a : ResultsOf(c, a) = [r \in DOMAIN ResultsOf(c, a) |-> ResultsOf(c, a)[r]]
          BY DEF ResultsOf
        <4> QED BY <2>1, <4>1
      <3> QED BY <2>2, <3>1
    <2>4. Len(results) = Cardinality(S)
      BY <1>4, <2>3, ListOf
    <2>5. \A r \in DOMAIN groups : results[r].cluster = ClusterOf(groups, TRUE, r)
      BY <2>1, ResultFields
    <2>6. \A q, r \in DOMAIN groups : results[q].cluster = results[r].cluster => q = r
      <3>1. ASSUME NEW q \in DOMAIN groups, NEW r \in DOMAIN groups, results[q].cluster = results[r].cluster PROVE q = r
        <4>1. ClusterOf(groups, TRUE, q) = ClusterOf(groups, TRUE, r)
          BY <2>5, <3>1
        <4> QED BY <1>3, <1>4, <2>1, <4>1, ClustersApart
      <3> QED BY <3>1
    <2> QED BY <1>2, <1>4, <2>2, <2>4, <2>6
  <1>20. \A r \in DOMAIN answerV3.results : Len(answerV3.results[r].ids) > 1 => Len(answerV3.results[r].snippet.text) <= SnippetCap
    BY <1>2, <1>12
  <1> QED BY <1>16, <1>17, <1>18, <1>19, <1>20 DEF ProjectionSound

\* What is built is built of the payload.
LEMMA SamePayload ==
    ASSUME payload' = payload
    PROVE  \A order : ResponseFrom(order)' = ResponseFrom(order) /\ (Enumerates(order)' <=> Enumerates(order))
  <1>1. Attempted' = Attempted /\ RawPositions' = RawPositions /\ KeptItems' = KeptItems
    BY DEF Attempted, RawPositions, KeptItems
  <1>2. \A order : Anchor(order)' = Anchor(order)
    BY DEF Anchor
  <1>3. \A p, slots : Observe(p, slots)' = Observe(p, slots)
    BY DEF Observe
  <1>4. ASSUME NEW anchor PROVE ObservedWith(anchor)' = ObservedWith(anchor)
    <2> DEFINE owned(p) == {s \in RawPositions : Owns(p, payload.raw[s], anchor)}
               all == UNION {Observe(p, owned(p)) : p \in Serving(payload)}
               one == Observe(payload.selected, RawPositions)
    <2>1. \A p : owned(p)' = owned(p)
      BY <1>1 DEF Owns
    <2> HIDE DEF owned
    <2>2. \A p : Observe(p, owned(p))' = Observe(p, owned(p))
      BY <1>3, <2>1
    <2>3. all' = all
      BY <2>2
    <2>4. one' = one
      BY <1>1, <1>3
    <2>5. ObservedWith(anchor) = IF payload.research \/ ManySources(payload) THEN all
                                 ELSE IF payload.selected = Nameless \/ anchor = Nameless THEN {} ELSE one
      BY DEF ObservedWith, owned
    <2>6. ObservedWith(anchor)' = IF payload'.research \/ ManySources(payload') THEN all'
                                  ELSE IF payload'.selected = Nameless \/ anchor = Nameless THEN {} ELSE one'
      BY DEF ObservedWith, owned
    <2> HIDE DEF all, one
    <2> QED BY <2>3, <2>4, <2>5, <2>6
  <1>5. \A order : Observations(order)' = Observations(order)
    BY <1>2, <1>4 DEF Observations, Arrival, Sooner
  <1>6. \A o : SearchResults(o)' = SearchResults(o)
    BY <1>1 DEF SearchResults
  <1>7. \A order : ResultsFrom(order)' = ResultsFrom(order)
    BY <1>5, <1>6 DEF ResultsFrom, ExtractResults
  <1>8. \A results : /\ StatusOf(results)' = StatusOf(results) /\ WarningsOf(results)' = WarningsOf(results)
                     /\ ActionsOf(results)' = ActionsOf(results)
    BY <1>1 DEF StatusOf, WarningsOf, ActionsOf, ItemFailed, BudgetHit, Limited
  <1>9. \A order : ResponseFrom(order)' = ResponseFrom(order)
    BY <1>5, <1>7, <1>8 DEF ResponseFrom
  <1>10. \A order : Enumerates(order)' <=> Enumerates(order)
    BY <1>1 DEF Enumerates
  <1> QED BY <1>9, <1>10
\* The attempts that ended, each once; and a response is the one of their order.
ProjectionInvariant ==
    /\ payload \in Payloads
    /\ arrived \in Seq(Attempted) /\ \A i, j \in DOMAIN arrived : arrived[i] = arrived[j] => i = j
    /\ answerV3 = NotBuilt \/ \E order : Enumerates(order) /\ answerV3 = ResponseFrom(order)

LEMMA ProjectionStarts ==
    ASSUME ProjectionInit
    PROVE  ProjectionInvariant
  BY DEF ProjectionInit, ProjectionInvariant

LEMMA ProjectionSteps ==
    ASSUME ProjectionInvariant, [ProjectionNext]_projectionvars
    PROVE  ProjectionInvariant'
  <1>1. ASSUME payload' = payload, answerV3' = answerV3, arrived' = arrived \/ answerV3 = NotBuilt,
               arrived' \in Seq(Attempted), \A i, j \in DOMAIN arrived' : arrived'[i] = arrived'[j] => i = j
        PROVE  ProjectionInvariant'
    <2>1. Attempted' = Attempted
      BY <1>1 DEF Attempted
    <2>2. answerV3' = NotBuilt' \/ \E order : Enumerates(order)' /\ answerV3' = ResponseFrom(order)'
      BY <1>1, SamePayload DEF ProjectionInvariant, NotBuilt
    <2> QED BY <1>1, <2>1, <2>2 DEF ProjectionInvariant
  <1>2. CASE UNCHANGED projectionvars
    <2>1. payload' = payload /\ arrived' = arrived /\ answerV3' = answerV3
      BY <1>2 DEF projectionvars
    <2> QED BY <1>1, <2>1 DEF ProjectionInvariant
  <1>3. ASSUME NEW p \in Attempted, ArriveAttempt(p) PROVE ProjectionInvariant'
    <2>1. ~answerV3.built /\ p \notin Range(arrived) /\ arrived' = Append(arrived, p) /\ payload' = payload /\ answerV3' = answerV3
      BY <1>3 DEF ArriveAttempt
    <2>2. answerV3 = NotBuilt
      <3>1. \A order : ResponseFrom(order).built
        BY DEF ResponseFrom
      <3> QED BY <2>1, <3>1 DEF ProjectionInvariant
    <2>3. \A i \in DOMAIN arrived : arrived[i] # p
      BY <2>1 DEF Range
    <2>4. arrived' \in Seq(Attempted) /\ \A i, j \in DOMAIN arrived' : arrived'[i] = arrived'[j] => i = j
      <3>1. arrived \in Seq(Attempted) /\ DOMAIN arrived = 1 .. Len(arrived) /\ Len(arrived) \in Nat
        BY DEF ProjectionInvariant
      <3>2. \A i, j \in DOMAIN arrived : arrived[i] = arrived[j] => i = j
        BY DEF ProjectionInvariant
      <3>3. /\ arrived' \in Seq(Attempted) /\ DOMAIN arrived' = 1 .. Len(arrived) + 1 /\ arrived'[Len(arrived) + 1] = p
            /\ \A i \in 1 .. Len(arrived) : arrived'[i] = arrived[i]
        BY <2>1, <3>1, AppendItems
      <3>4. \A i \in DOMAIN arrived' : i \in DOMAIN arrived \/ i = Len(arrived) + 1
        BY <3>1, <3>3
      <3> QED BY <2>3, <3>1, <3>2, <3>3, <3>4
    <2> QED BY <1>1, <2>1, <2>2, <2>4
  <1>4. CASE BuildResponse
    <2>1. payload' = payload /\ arrived' = arrived /\ Range(arrived) = Attempted /\ answerV3' = ResponseFrom(arrived)
      BY <1>4 DEF BuildResponse
    <2>2. Attempted' = Attempted
      BY <2>1 DEF Attempted
    <2>3. Enumerates(arrived)
      BY <2>1 DEF Enumerates, ProjectionInvariant
    <2>4. \E order : Enumerates(order) /\ answerV3' = ResponseFrom(order)
      BY <2>1, <2>3
    <2>5. \E order : Enumerates(order)' /\ answerV3' = ResponseFrom(order)'
      BY <2>1, <2>4, SamePayload
    <2> QED BY <2>1, <2>2, <2>5 DEF ProjectionInvariant
  <1> QED BY <1>2, <1>3, <1>4 DEF ProjectionNext

LEMMA ProjectionInvariantSound ==
    ASSUME ProjectionInvariant
    PROVE  ProjectionSound
  <1>1. CASE answerV3 = NotBuilt
    <2>1. ~answerV3.built
      BY <1>1 DEF NotBuilt
    <2> QED BY <2>1 DEF ProjectionSound
  <1>2. ASSUME NEW order, Enumerates(order), answerV3 = ResponseFrom(order) PROVE ProjectionSound
    BY <1>2, ResponseStands DEF ProjectionInvariant
  <1> QED BY <1>1, <1>2 DEF ProjectionInvariant

\* In every state of a request whose providers' answers become a response, in whatever order
\* its attempts end: the response passes its own validation, its results do not depend on
\* that order, every page shown and observed has one result that names all who observed it,
\* an extraction answers each observed URL once, and a merged snippet keeps to its limit.
THEOREM ProjectionIsSound == ProjectionSpec => []ProjectionSound
  <1>1. ProjectionInit => ProjectionInvariant
    BY ProjectionStarts
  <1>2. ProjectionInvariant /\ [ProjectionNext]_projectionvars => ProjectionInvariant'
    BY ProjectionSteps
  <1>3. ProjectionInvariant => ProjectionSound
    BY ProjectionInvariantSound
  <1> QED BY <1>1, <1>2, <1>3, PTL DEF ProjectionSpec

(***************************************************************************)
(* The latencies of a provider (provider_stats.py)                         *)
(***************************************************************************)
\* A finite nonempty set of places of a list of numbers has one with the greatest item.
LEMMA Topmost ==
    ASSUME NEW list, NEW T, T # {}, IsFiniteSet(T), \A i \in T : list[i] \in Nat
    PROVE  \E i \in T : \A j \in T : list[j] <= list[i]
  <1> DEFINE under(i) == {j \in T : list[j] <= list[i]}
             counts   == {Cardinality(under(i)) : i \in T}
             n        == Cardinality(T)
  <1>1. n \in Nat
    BY FS_CardinalityType
  <1>2. ASSUME NEW i \in T PROVE IsFiniteSet(under(i)) /\ Cardinality(under(i)) \in 0 .. n
    <2>1. under(i) \subseteq T
      OBVIOUS
    <2>2. IsFiniteSet(under(i)) /\ Cardinality(under(i)) <= n
      BY <2>1, FS_Subset
    <2> HIDE DEF under
    <2> QED BY <1>1, <2>2, FS_CardinalityType
  <1>3. counts \in SUBSET (0 .. n) /\ counts # {}
    BY <1>2
  <1>4. PICK c \in counts : \A d \in counts : c >= d
    <2> HIDE DEF counts, n
    <2> QED BY <1>1, <1>3, Greatest
  <1>5. PICK i \in T : c = Cardinality(under(i))
    OBVIOUS
  <1>6. ASSUME NEW j \in T, ~(list[j] <= list[i]) PROVE FALSE
    <2>1. list[j] \in Nat /\ list[i] \in Nat /\ list[i] < list[j]
      BY <1>6
    <2>2. under(i) \subseteq under(j) /\ j \in under(j) /\ j \notin under(i)
      BY <2>1
    <2>3. Cardinality(under(j)) <= Cardinality(under(i))
      BY <1>4, <1>5
    <2>4. Cardinality(under(j)) \in Nat /\ Cardinality(under(i)) \in Nat /\ IsFiniteSet(under(j))
      BY <1>2
    <2> HIDE DEF under
    <2>5. under(i) = under(j)
      BY <2>2, <2>3, <2>4, FS_Subset
    <2> QED BY <2>2, <2>5
  <1> QED BY <1>6

\* The place of the quantile lies in the list.
LEMMA PlaceInList == ASSUME NEW n \in Nat, n > 0 PROVE ThreeQuarters(n - 1) + 1 \in 1 .. n
  BY DEF ThreeQuarters

\* In a list of numbers every place is some sample's.
LEMMA RankExists ==
    ASSUME NEW list, NEW good, IsFiniteSet(good), \A i \in good : list[i] \in Nat,
           NEW place \in 1 .. Cardinality(good)
    PROVE  \E i \in good : /\ Cardinality({j \in good : list[j] < list[i]}) < place
                           /\ Cardinality({j \in good : list[j] <= list[i]}) >= place
  <1> DEFINE upto(i)  == {j \in good : list[j] <= list[i]}
             below(i) == {j \in good : list[j] < list[i]}
             counts   == {Cardinality(upto(i)) : i \in {k \in good : Cardinality(upto(k)) >= place}}
  <1>0. Cardinality(good) \in Nat /\ place \in Nat
    BY FS_CardinalityType
  <1>1. ASSUME NEW i \in good
        PROVE  /\ IsFiniteSet(upto(i)) /\ Cardinality(upto(i)) \in Nat
               /\ IsFiniteSet(below(i)) /\ Cardinality(below(i)) \in Nat
    <2>1. upto(i) \subseteq good /\ below(i) \subseteq good
      OBVIOUS
    <2> HIDE DEF upto, below
    <2> QED BY <2>1, FS_Subset, FS_CardinalityType
  <1>2. counts \in SUBSET Nat
    BY <1>1
  <1>3. counts # {}
    <2>1. good # {}
      BY <1>0, FS_EmptySet
    <2>2. PICK i \in good : \A j \in good : list[j] <= list[i]
      BY <2>1, Topmost
    <2>3. upto(i) = good
      BY <2>2
    <2>4. Cardinality(upto(i)) >= place
      BY <1>0, <2>3
    <2> QED BY <2>4
  <1>4. PICK c \in counts : \A d \in counts : <<d, c>> \notin OpToRel(<, Nat)
    <2> HIDE DEF counts
    <2> QED BY <1>2, <1>3, NatLessThanWellFounded, WFMin
  <1>5. \A d \in counts : ~ (d < c)
    <2> HIDE DEF counts
    <2> QED BY <1>2, <1>4, Zenon DEF OpToRel
  <1>6. PICK i \in good : Cardinality(upto(i)) >= place /\ c = Cardinality(upto(i))
    OBVIOUS
  <1>7. ASSUME Cardinality(below(i)) >= place PROVE FALSE
    <2>1. below(i) # {}
      BY <1>0, <1>7, FS_EmptySet
    <2>2. \A k \in below(i) : list[k] \in Nat
      OBVIOUS
    <2>3. PICK k \in below(i) : \A j \in below(i) : list[j] <= list[k]
      <3> HIDE DEF below
      <3> QED BY <1>1, <2>1, <2>2, Topmost
    <2>4. k \in good /\ \A j \in good : list[j] \in Nat
      OBVIOUS
    <2>5. upto(k) = below(i)
      BY <2>3, <2>4
    <2>6. Cardinality(upto(k)) \in counts
      BY <1>7, <2>4, <2>5
    <2>7. Cardinality(upto(k)) >= Cardinality(upto(i))
      <3>1. Cardinality(upto(k)) \in Nat /\ Cardinality(upto(i)) \in Nat
        BY <1>1, <2>4
      <3> HIDE DEF upto, counts
      <3> QED BY <1>5, <1>6, <2>6, <3>1
    <2>8. below(i) \subseteq upto(i) /\ i \in upto(i) /\ i \notin below(i)
      BY <2>4
    <2>9. below(i) = upto(i)
      <3> HIDE DEF upto, below
      <3> QED BY <1>1, <2>5, <2>7, <2>8, FS_Subset
    <2> QED BY <2>8, <2>9
  <1>8. Cardinality(below(i)) \in Nat
    BY <1>1
  <1>9. Cardinality(below(i)) < place
    <2> HIDE DEF below
    <2> QED BY <1>0, <1>7, <1>8
  <1> QED BY <1>6, <1>9

Samples == Latencies \cup {Failure}

\* The usual latency is a number; if it is more than none, enough calls succeeded and one took as long.
LEMMA UsualLatencyRight ==
    ASSUME NEW list \in Seq(Samples)
    PROVE  /\ UsualLatency(list) \in Nat
           /\ UsualLatency(list) > 0 =>
                 /\ Cardinality({i \in DOMAIN list : list[i] # Failure}) >= MinSamples
                 /\ \E i \in DOMAIN list : list[i] # Failure /\ list[i] = UsualLatency(list)
  <1> DEFINE good  == {i \in DOMAIN list : list[i] # Failure}
             place == ThreeQuarters(Cardinality(good) - 1) + 1
             InPlace(i) == /\ Cardinality({j \in good : list[j] < list[i]}) < place
                           /\ Cardinality({j \in good : list[j] <= list[i]}) >= place
             usual == CHOOSE i \in good : InPlace(i)
  <1>1. \A i \in good : list[i] \in Nat
    <2>1. \A i \in DOMAIN list : list[i] \in Samples
      OBVIOUS
    <2> QED BY <2>1, StatsAssumption DEF Samples
  <1>2. IsFiniteSet(good)
    <2>1. DOMAIN list = 1 .. Len(list) /\ Len(list) \in Nat
      OBVIOUS
    <2>2. IsFiniteSet(1 .. Len(list))
      BY <2>1, FS_Interval
    <2> QED BY <2>1, <2>2, FS_Subset
  <1>3. UsualLatency(list) = IF Cardinality(good) < MinSamples THEN 0 ELSE list[usual]
    BY DEF UsualLatency
  <1>4. Cardinality(good) \in Nat /\ MinSamples \in Nat /\ MinSamples > 0
    BY <1>2, FS_CardinalityType, StatsAssumption
  <1>5. ~(Cardinality(good) < MinSamples) => usual \in good
    <2> SUFFICES ASSUME ~(Cardinality(good) < MinSamples) PROVE \E i \in good : InPlace(i)
      OBVIOUS
    <2> HIDE DEF good
    <2>1. place \in 1 .. Cardinality(good)
      BY <1>4, PlaceInList
    <2> HIDE DEF place
    <2>2. \E i \in good : /\ Cardinality({j \in good : list[j] < list[i]}) < place
                          /\ Cardinality({j \in good : list[j] <= list[i]}) >= place
      BY ONLY <1>1, <1>2, <2>1, RankExists
    <2> QED BY <2>2
  <1> HIDE DEF usual
  <1> QED
    BY <1>1, <1>3, <1>4, <1>5

LEMMA DelayBounds ==
    ASSUME NEW list \in Seq(Samples)
    PROVE  \A delay \in {HedgeDelay(list)} :
              /\ delay \in HedgeFloor .. AttemptTimeout
              /\ delay > HedgeFloor =>
                    /\ Cardinality({i \in DOMAIN list : list[i] # Failure}) >= MinSamples
                    /\ \E i \in DOMAIN list : list[i] # Failure /\ list[i] >= delay
  <1> DEFINE usual == UsualLatency(list)
             delay == HedgeDelay(list)
  <1>1. usual \in Nat /\ HedgeFloor \in Nat /\ AttemptTimeout \in Nat /\ HedgeFloor <= AttemptTimeout
    BY UsualLatencyRight, StatsAssumption
  <1>2. delay \in HedgeFloor .. AttemptTimeout /\ (delay > HedgeFloor => usual > 0 /\ usual >= delay)
    <2> HIDE DEF usual
    <2>1. delay = LET d == IF usual > HedgeFloor THEN usual ELSE HedgeFloor
                  IN IF d > AttemptTimeout THEN AttemptTimeout ELSE d
      BY DEF HedgeDelay, usual
    <2> HIDE DEF delay
    <2> QED BY <1>1, <2>1
  <1> SUFFICES ASSUME delay > HedgeFloor
               PROVE  /\ Cardinality({i \in DOMAIN list : list[i] # Failure}) >= MinSamples
                      /\ \E i \in DOMAIN list : list[i] # Failure /\ list[i] >= delay
    BY <1>2
  <1>3. usual > 0 /\ usual >= delay
    BY <1>2
  <1>4. Cardinality({i \in DOMAIN list : list[i] # Failure}) >= MinSamples
    BY <1>3, UsualLatencyRight
  <1>5. PICK i \in DOMAIN list : list[i] # Failure /\ list[i] = usual
    BY <1>3, UsualLatencyRight
  <1> QED BY <1>3, <1>4, <1>5

-----------------------------------------------------------------------------
RecorderRecords == [at : {"idle", "locked", "loaded", "blind"}, sample : Samples, read : Seq(Samples)]
Locking(r)      == recorder[r].at \in HoldingLock

\* One thread at a time holds the lock, and what it read is still what the file holds.
StatsInv ==
    /\ posix \in BOOLEAN /\ statsFile \in Seq(Samples) /\ savedSamples \in Seq(Samples)
    /\ recorder \in [Recorders -> RecorderRecords]
    /\ posix => /\ statsFile = LastOf(savedSamples, MaxSamplesKept)
                /\ \A r, o \in Recorders : Locking(r) /\ Locking(o) => r = o
                /\ \A r \in Recorders : Recording(r, "loaded") => recorder[r].read = statsFile

LEMMA LastOfShape ==
    ASSUME NEW N, NEW list \in Seq(N), NEW n \in Nat, n > 0
    PROVE  LET skip == IF Len(list) > n THEN Len(list) - n ELSE 0
           IN  /\ LastOf(list, n) \in Seq(N) /\ skip \in Nat
               /\ Len(LastOf(list, n)) = Len(list) - skip
               /\ \A k \in 1 .. Len(list) - skip : LastOf(list, n)[k] = list[skip + k]
  <1> DEFINE skip == IF Len(list) > n THEN Len(list) - n ELSE 0
  <1>1. Len(list) \in Nat /\ skip \in Nat /\ skip <= Len(list)
    OBVIOUS
  <1>2. LastOf(list, n) = SubSeq(list, skip + 1, Len(list))
    BY <1>1 DEF LastOf
  <1>3. \A k \in skip + 1 .. Len(list) : list[k] \in N
    BY <1>1
  <1> HIDE DEF skip
  <1>4. /\ SubSeq(list, skip + 1, Len(list)) \in Seq(N)
        /\ Len(SubSeq(list, skip + 1, Len(list))) = Len(list) - skip
        /\ \A k \in 1 .. Len(list) - skip : SubSeq(list, skip + 1, Len(list))[k] = list[skip + k]
    BY <1>1, <1>3
  <1> QED BY <1>1, <1>2, <1>4 DEF skip

\* What is kept of a list and one sample more is what is kept of the kept part and that sample.
LEMMA LastOfAppend ==
    ASSUME NEW list \in Seq(Samples), NEW x \in Samples, NEW n \in Nat, n > 0
    PROVE  LastOf(Append(LastOf(list, n), x), n) = LastOf(Append(list, x), n)
  <1> DEFINE kept  == LastOf(list, n)
             left  == Append(kept, x)
             right == Append(list, x)
             skip  == IF Len(list) > n THEN Len(list) - n ELSE 0
             a     == IF Len(left) > n THEN Len(left) - n ELSE 0
             b     == IF Len(right) > n THEN Len(right) - n ELSE 0
  <1>0. Len(list) \in Nat
    OBVIOUS
  <1>1. /\ kept \in Seq(Samples) /\ skip \in Nat /\ Len(kept) = Len(list) - skip
        /\ \A k \in 1 .. Len(list) - skip : kept[k] = list[skip + k]
    BY LastOfShape
  <1> HIDE DEF kept, skip
  <1>2. left \in Seq(Samples) /\ Len(left) = Len(list) - skip + 1
    BY <1>1
  <1>3. right \in Seq(Samples) /\ Len(right) = Len(list) + 1
    OBVIOUS
  <1>4. \A k \in 1 .. Len(list) - skip + 1 : left[k] = right[skip + k]
    <2> SUFFICES ASSUME NEW k \in 1 .. Len(list) - skip + 1 PROVE left[k] = right[skip + k]
      OBVIOUS
    <2>1. CASE k = Len(list) - skip + 1
      <3>1. left[k] = x
        <4>1. k = Len(kept) + 1
          BY <1>1, <2>1
        <4>2. Append(kept, x)[Len(kept) + 1] = x
          BY <1>1, AppendItems
        <4> QED BY <4>1, <4>2 DEF left
      <3>2. skip + k = Len(list) + 1
        BY <1>0, <1>1, <2>1
      <3> QED BY <3>1, <3>2
    <2>2. CASE k # Len(list) - skip + 1
      <3>1. k \in 1 .. Len(list) - skip /\ skip + k \in 1 .. Len(list)
        BY <1>0, <1>1, <2>2
      <3>2. left[k] = kept[k]
        BY <1>1, <3>1, AppendItems DEF left
      <3>3. right[skip + k] = list[skip + k]
        BY <3>1, AppendItems DEF right
      <3> QED BY <1>1, <3>1, <3>2, <3>3
    <2> QED BY <2>1, <2>2
  <1> HIDE DEF left, right
  <1>5. /\ LastOf(left, n) \in Seq(Samples) /\ a \in Nat /\ Len(LastOf(left, n)) = Len(left) - a
        /\ \A k \in 1 .. Len(left) - a : LastOf(left, n)[k] = left[a + k]
    BY <1>2, LastOfShape
  <1>6. /\ LastOf(right, n) \in Seq(Samples) /\ b \in Nat /\ Len(LastOf(right, n)) = Len(right) - b
        /\ \A k \in 1 .. Len(right) - b : LastOf(right, n)[k] = right[b + k]
    BY <1>3, LastOfShape
  <1>7. b = skip + a
    <2>1. CASE Len(list) > n
      BY <1>0, <1>2, <1>3, <2>1 DEF skip
    <2>2. CASE ~(Len(list) > n)
      <3>1. skip = 0 /\ Len(left) = Len(right)
        BY <1>0, <1>2, <1>3, <2>2 DEF skip
      <3> QED BY <1>0, <1>3, <3>1
    <2> QED BY <2>1, <2>2
  <1> HIDE DEF a, b
  <1>8. Len(left) - a = Len(right) - b /\ Len(LastOf(left, n)) \in Nat
    BY <1>0, <1>1, <1>2, <1>3, <1>5, <1>6, <1>7
  <1>9. \A k \in 1 .. Len(left) - a : LastOf(left, n)[k] = LastOf(right, n)[k]
    <2> SUFFICES ASSUME NEW k \in 1 .. Len(left) - a PROVE LastOf(left, n)[k] = LastOf(right, n)[k]
      OBVIOUS
    <2>1. LastOf(left, n)[k] = left[a + k] /\ LastOf(right, n)[k] = right[b + k]
      BY <1>5, <1>6, <1>8
    <2>2. a + k \in 1 .. Len(list) - skip + 1 /\ skip + (a + k) = b + k
      <3> DEFINE l == Len(list) z == Len(left)
      <3>1. l \in Nat /\ skip \in Nat /\ a \in Nat /\ z = l - skip + 1 /\ z \in Nat /\ b = skip + a /\ k \in 1 .. z - a
        BY <1>0, <1>1, <1>2, <1>5, <1>7
      <3> HIDE DEF l, z
      <3>2. a + k \in 1 .. l - skip + 1 /\ skip + (a + k) = b + k
        BY ONLY <3>1
      <3> QED BY <3>2 DEF l
    <2> DEFINE i == a + k
    <2>3. left[i] = right[skip + i]
      <3>1. i \in 1 .. Len(list) - skip + 1
        BY <2>2
      <3> HIDE DEF i
      <3> QED BY ONLY <1>4, <3>1
    <2> QED BY ONLY <2>1, <2>2, <2>3
  <1>10. LastOf(left, n) = LastOf(right, n)
    <2> DEFINE p == LastOf(left, n) q == LastOf(right, n)
    <2>1. p \in Seq(Samples) /\ q \in Seq(Samples) /\ Len(p) = Len(q) /\ Len(p) \in Nat /\ \A k \in 1 .. Len(p) : p[k] = q[k]
      BY <1>5, <1>6, <1>8, <1>9
    <2> HIDE DEF p, q
    <2>2. DOMAIN p = 1 .. Len(p) /\ DOMAIN q = 1 .. Len(p)
      BY <2>1
    <2>3. \A k \in DOMAIN p : p[k] = q[k]
      BY <2>1, <2>2
    <2>4. p = q
      BY <2>1, <2>2, <2>3, SameItems
    <2> QED BY <2>4 DEF p, q
  <1> QED BY <1>10 DEF left, right, kept

LEMMA InitStats == StatsInit => StatsInv
  <1> SUFFICES ASSUME StatsInit PROVE StatsInv
    OBVIOUS
  <1>1. <<>> \in Seq(Samples) /\ Failure \in Samples /\ Len(<<>>) = 0
    BY DEF Samples
  <1>2. LastOf(<<>>, MaxSamplesKept) = <<>>
    BY <1>1, StatsAssumption, LastOfShape DEF LastOf
  <1>3. recorder \in [Recorders -> RecorderRecords] /\ \A r \in Recorders : recorder[r].at = "idle"
    BY <1>1 DEF StatsInit, RecorderRecords
  <1> QED BY <1>1, <1>2, <1>3 DEF StatsInit, StatsInv, Locking, HoldingLock, Recording

\* One thread moves: the others stand where they stood.
LEMMA RecorderMoves ==
    ASSUME recorder \in [Recorders -> RecorderRecords], NEW r \in Recorders, NEW c \in RecorderRecords,
           recorder' = [recorder EXCEPT ![r] = c]
    PROVE  /\ recorder' \in [Recorders -> RecorderRecords]
           /\ \A o \in Recorders : recorder'[o] = IF o = r THEN c ELSE recorder[o]
  OBVIOUS

LEMMA StepStats == StatsInv /\ [StatsNext]_statsvars => StatsInv'
  <1> SUFFICES ASSUME StatsInv, [StatsNext]_statsvars PROVE StatsInv'
    OBVIOUS
  <1>0. Failure \in Samples /\ <<>> \in Seq(Samples) /\ Latencies \cup {Failure} = Samples
    BY DEF Samples
  <1>1. ASSUME NEW r \in Recorders, LockStats(r) PROVE StatsInv'
    <2>1. PICK s \in Samples : recorder' = [recorder EXCEPT ![r] = [at |-> "locked", sample |-> s, read |-> <<>>]]
      BY <1>0, <1>1 DEF LockStats
    <2>2. [at |-> "locked", sample |-> s, read |-> <<>>] \in RecorderRecords
      BY <1>0 DEF RecorderRecords
    <2>3. /\ recorder' \in [Recorders -> RecorderRecords]
          /\ \A o \in Recorders : recorder'[o] = IF o = r THEN [at |-> "locked", sample |-> s, read |-> <<>>] ELSE recorder[o]
      BY <2>1, <2>2, RecorderMoves DEF StatsInv
    <2>4. posix => \A o \in Recorders \ {r} : ~Locking(o)
      BY <1>1 DEF LockStats, InTheWay, Locking, HoldingLock
    <2>5. \A o \in Recorders \ {r} : Locking(o)' = Locking(o) /\ Recording(o, "loaded")' = Recording(o, "loaded") /\ recorder'[o] = recorder[o]
      BY <2>3 DEF Locking, Recording
    <2>6. recorder'[r].at = "locked" /\ ~Recording(r, "loaded")'
      BY <2>3 DEF Recording
    <2>7. posix' = posix /\ statsFile' = statsFile /\ savedSamples' = savedSamples
      BY <1>1 DEF LockStats
    <2> QED BY <2>3, <2>4, <2>5, <2>6, <2>7 DEF StatsInv, LastOf
  <1>2. ASSUME NEW r \in Recorders, LoadStats(r) PROVE StatsInv'
    <2>0. recorder[r] \in RecorderRecords /\ recorder[r].at = "locked"
      BY <1>2 DEF StatsInv, LoadStats, Recording
    <2>1. PICK c : /\ recorder' = [recorder EXCEPT ![r] = c]
                   /\ \/ c = [[recorder[r] EXCEPT !.at = "loaded"] EXCEPT !.read = statsFile]
                      \/ c = [recorder[r] EXCEPT !.at = "blind"]
      <3> DEFINE one == [[recorder[r] EXCEPT !.at = "loaded"] EXCEPT !.read = statsFile]
                 two == [recorder[r] EXCEPT !.at = "blind"]
      <3>1. recorder' = [recorder EXCEPT ![r] = one] \/ recorder' = [recorder EXCEPT ![r] = two]
        BY <1>2 DEF LoadStats
      <3> HIDE DEF one, two
      <3>2. \E d : recorder' = [recorder EXCEPT ![r] = d] /\ (d = one \/ d = two)
        BY <3>1
      <3> QED BY <3>2 DEF one, two
    <2>2. c \in RecorderRecords
      BY <2>0, <2>1 DEF RecorderRecords, StatsInv
    <2>3. c.at \in {"loaded", "blind"} /\ (c.at = "loaded" => c.read = statsFile)
      BY <2>0, <2>1 DEF RecorderRecords
    <2>4. /\ recorder' \in [Recorders -> RecorderRecords]
          /\ \A o \in Recorders : recorder'[o] = IF o = r THEN c ELSE recorder[o]
      BY <2>1, <2>2, RecorderMoves DEF StatsInv
    <2>5. \A o \in Recorders : Locking(o)' = Locking(o)
      BY <2>0, <2>3, <2>4 DEF Locking, HoldingLock
    <2>6. \A o \in Recorders : Recording(o, "loaded")' => o = r \/ (Recording(o, "loaded") /\ recorder'[o] = recorder[o])
      BY <2>4 DEF Recording
    <2>7. posix' = posix /\ statsFile' = statsFile /\ savedSamples' = savedSamples
      BY <1>2 DEF LoadStats
    <2>8. posix => \A o \in Recorders : Recording(o, "loaded")' => recorder'[o].read = statsFile
      <3> SUFFICES ASSUME posix, NEW o \in Recorders, Recording(o, "loaded")' PROVE recorder'[o].read = statsFile
        OBVIOUS
      <3>1. CASE o = r
        BY <2>3, <2>4, <3>1 DEF Recording
      <3>2. CASE o # r
        BY <2>6, <3>2 DEF StatsInv
      <3> QED BY <3>1, <3>2
    <2> QED BY <2>4, <2>5, <2>7, <2>8 DEF StatsInv, LastOf
  <1>3. ASSUME NEW r \in Recorders, SaveStats(r) PROVE StatsInv'
    <2> DEFINE c == [at |-> "idle", sample |-> Failure, read |-> <<>>]
    <2>0. recorder[r] \in RecorderRecords /\ recorder[r].at \in {"loaded", "blind"} /\ posix' = posix
      BY <1>3 DEF StatsInv, SaveStats, Recording
    <2>1. c \in RecorderRecords /\ c.at = "idle"
      BY <1>0 DEF RecorderRecords
    <2>2. recorder' = [recorder EXCEPT ![r] = c]
      BY <1>3 DEF SaveStats
    <2> HIDE DEF c
    <2>3. /\ recorder' \in [Recorders -> RecorderRecords]
          /\ \A o \in Recorders : recorder'[o] = IF o = r THEN c ELSE recorder[o]
      BY <2>1, <2>2, RecorderMoves DEF StatsInv
    <2>4. \A o \in Recorders : Locking(o)' => o # r /\ Locking(o)
      BY <2>1, <2>3 DEF Locking, HoldingLock
    <2>5. posix => \A o \in Recorders : ~Recording(o, "loaded")'
      <3> SUFFICES ASSUME posix, NEW o \in Recorders, recorder'[o].at = "loaded" PROVE FALSE
        BY DEF Recording
      <3>1. o # r /\ Locking(o) /\ Locking(r)
        BY <2>0, <2>1, <2>3 DEF Locking, HoldingLock
      <3> QED BY <3>1 DEF StatsInv
    <2>6. /\ statsFile' \in Seq(Samples) /\ savedSamples' \in Seq(Samples)
          /\ posix => statsFile' = LastOf(savedSamples', MaxSamplesKept)
      <3>1. CASE UNCHANGED <<statsFile, savedSamples>>
        BY <3>1 DEF StatsInv
      <3>2. CASE /\ Recording(r, "loaded")
                 /\ statsFile' = LastOf(Append(recorder[r].read, recorder[r].sample), MaxSamplesKept)
                 /\ savedSamples' = Append(savedSamples, recorder[r].sample)
        <4> DEFINE x == recorder[r].sample
                   read == recorder[r].read
        <4>1. x \in Samples /\ read \in Seq(Samples) /\ savedSamples \in Seq(Samples) /\ MaxSamplesKept \in Nat /\ MaxSamplesKept > 0
          BY <2>0, StatsAssumption DEF RecorderRecords, StatsInv
        <4>2. posix => read = LastOf(savedSamples, MaxSamplesKept)
          BY <3>2 DEF StatsInv
        <4>3. statsFile' = LastOf(Append(read, x), MaxSamplesKept) /\ savedSamples' = Append(savedSamples, x)
          BY <3>2
        <4> HIDE DEF x, read
        <4>4. Append(read, x) \in Seq(Samples) /\ savedSamples' \in Seq(Samples)
          BY <4>1, <4>3
        <4>5. statsFile' \in Seq(Samples)
          BY <4>1, <4>3, <4>4, LastOfShape
        <4>6. posix => statsFile' = LastOf(savedSamples', MaxSamplesKept)
          BY <4>1, <4>2, <4>3, LastOfAppend
        <4> QED BY <4>4, <4>5, <4>6
      <3>3. CASE statsFile' \in {<<recorder[r].sample>>, <<>>} /\ savedSamples' = statsFile'
        <4> DEFINE x == recorder[r].sample
        <4>1. x \in Samples
          BY <2>0 DEF RecorderRecords
        <4> HIDE DEF x
        <4>2. statsFile' \in Seq(Samples) /\ Len(statsFile') \in Nat /\ Len(statsFile') <= 1
          <5>1. <<x>> \in Seq(Samples) /\ Len(<<x>>) = 1
            BY <4>1
          <5>2. <<>> \in Seq(Samples) /\ Len(<<>>) = 0
            OBVIOUS
          <5>3. statsFile' = <<x>> \/ statsFile' = <<>>
            BY <3>3 DEF x
          <5>4. CASE statsFile' = <<x>>
            BY <5>1, <5>4
          <5>5. CASE statsFile' = <<>>
            BY <5>2, <5>5
          <5> QED BY <5>3, <5>4, <5>5
        <4> DEFINE f == statsFile'
        <4>3. LastOf(f, MaxSamplesKept) = SubSeq(f, 1, Len(f))
          <5>1. ~(Len(f) > MaxSamplesKept)
            BY <4>2, StatsAssumption
          <5> QED BY <5>1 DEF LastOf
        <4>4. SubSeq(f, 1, Len(f)) = f
          <5> HIDE DEF f
          <5>1. f \in Seq(Samples)
            BY <4>2 DEF f
          <5>2. Len(f) \in Nat /\ Len(SubSeq(f, 1, Len(f))) = Len(f) /\ SubSeq(f, 1, Len(f)) \in Seq(Samples)
            BY <5>1
          <5>3. \A k \in 1 .. Len(f) : SubSeq(f, 1, Len(f))[k] = f[k]
            BY <5>1
          <5> QED BY <5>1, <5>2, <5>3
        <4>5. f = LastOf(savedSamples', MaxSamplesKept)
          BY <3>3, <4>3, <4>4
        <4> QED BY <3>3, <4>2, <4>5
      <3> QED BY <1>3, <3>1, <3>2, <3>3 DEF SaveStats
    <2>7. LastOf(savedSamples, MaxSamplesKept)' = LastOf(savedSamples', MaxSamplesKept)
      BY DEF LastOf
    <2> QED BY <2>0, <2>3, <2>4, <2>5, <2>6, <2>7 DEF StatsInv
  <1>4. CASE UNCHANGED statsvars
    BY <1>4 DEF statsvars, StatsInv, Locking, HoldingLock, Recording, LastOf
  <1> QED
    BY <1>1, <1>2, <1>3, <1>4 DEF StatsNext

\* With file locks a sample is lost only to a thread that cannot read the file, and the delay read
\* from it keeps its bounds and its reason: for any recorders, processes and latencies.
THEOREM StatsLoseNothing == StatsSpec => []StatsSound
  <1>1. StatsSpec => []StatsInv
    BY InitStats, StepStats, PTL DEF StatsSpec
  <1>2. StatsInv => StatsSound
    BY DelayBounds DEF StatsInv, StatsSound
  <1> QED
    BY <1>1, <1>2, PTL
=============================================================================
