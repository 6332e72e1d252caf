----------------------------- MODULE ExtractMatching -----------------------------
(***************************************************************************)
(* match_extract_items of extract_match.py: which item of a provider's answer *)
(* belongs to which requested URL.  A URL has three keys: its own spelling,   *)
(* its canonical form, and a coarser form that also forgets the scheme and    *)
(* the spelling of escapes (but not an http URL's explicit port 80, so it is   *)
(* not coarser for every URL); an item has the URL it came from and perhaps the  *)
(* URL it was asked for.  Six passes look for equal keys, and a last rule     *)
(* pairs what is left when it is one URL and one item.                        *)
(***************************************************************************)
EXTENDS Naturals, Sequences, FiniteSets

CONSTANTS
    Spellings,    \* URLs as they are written, numbers from 1
    CanonOf,      \* [Spellings -> canonical form, NoForm if it cannot be read]
    RewriteOf,    \* [Spellings -> form without scheme and escapes, or NoForm]
    Asks,         \* the requests that may come: sequences of spellings
    Replies       \* the answers that may come: sequences of [url, source]

ASSUME MatchAssumption ==
    /\ Spellings \subseteq Nat \ {0} /\ Asks \subseteq Seq(Spellings)
    /\ Replies \subseteq Seq([url : Spellings \cup {0}, source : Spellings \cup {0}])

VARIABLES
    asked,      \* urls
    reply,      \* the items
    matched     \* [matched: position -> item or 0, used], or Unmatched

matchvars == <<asked, reply, matched>>

Nowhere   == 0            \* a URL nobody asked for, or no source
Unmatched == [of |-> <<>>, used |-> {}]

NoForm       == 0         \* of what is no URL
Form(key, u) == IF u = Nowhere THEN NoForm
                ELSE IF key = "own" THEN u ELSE IF key = "canonical" THEN CanonOf[u] ELSE RewriteOf[u]

Positions == 1 .. Len(asked)
ItemKey(i, source) == IF source THEN reply[i].source ELSE reply[i].url

\* Mutant: an item goes to the first of several spellings it could be meant for.
AmbiguousNever(key, p) == FALSE

\* Different spellings of the request share the key: it decides nothing.
Ambiguous(key, p) == \E q \in Positions : Form(key, asked[q]) = Form(key, asked[p]) /\ asked[q] # asked[p]

Take(m, p, i) == [of |-> [m.of EXCEPT ![p] = i], used |-> m.used \cup {i}]

\* One turn of a position: the first unused item with its key, unless it has one already.
OneTurn(m, p, key, source, check) ==
    LET fit == {i \in DOMAIN reply \ m.used :
                   Form(key, asked[p]) # NoForm /\ Form(key, ItemKey(i, source)) = Form(key, asked[p])}
    IN  IF m.of[p] # 0 \/ fit = {} \/ (check /\ Ambiguous(key, p)) THEN m
        ELSE Take(m, p, CHOOSE i \in fit : \A j \in fit : i <= j)

\* Positions with one key take turns in their order; those with different keys want
\* different items, so the order of their groups does not matter.
Pass(m, key, source, check) ==
    LET run[p \in 0 .. Len(asked)] == IF p = 0 THEN m ELSE OneTurn(run[p - 1], p, key, source, check)
    IN  run[Len(asked)]

AllPasses ==
    LET m0 == [of |-> [p \in Positions |-> 0], used |-> {}]
        m1 == Pass(m0, "own", FALSE, FALSE)
        m2 == Pass(m1, "canonical", FALSE, TRUE)
        m3 == Pass(m2, "own", TRUE, FALSE)
        m4 == Pass(m3, "canonical", TRUE, TRUE)
        m5 == Pass(m4, "coarse", FALSE, TRUE)
    IN  Pass(m5, "coarse", TRUE, TRUE)

\* One URL is open and one item is left: a redirect to another host, it is assumed.
Lone(m) ==
    LET open == {p \in Positions : m.of[p] = 0}
        left == DOMAIN reply \ m.used
    IN  IF Cardinality(open) # 1 \/ Cardinality(left) # 1 THEN m
        ELSE LET p == CHOOSE q \in open : TRUE IN
             IF Form("coarse", asked[p]) = NoForm \/ Ambiguous("coarse", p) THEN m
             ELSE Take(m, p, CHOOSE i \in left : TRUE)

\* The same URL asked twice: one answer serves both.
Shared(m) ==
    [m EXCEPT !.of = [p \in Positions |->
        LET same == {q \in 1 .. p - 1 : asked[q] = asked[p] /\ m.of[q] # 0}
        IN  IF m.of[p] # 0 \/ same = {} THEN m.of[p] ELSE m.of[CHOOSE q \in same : \A r \in same : q <= r]]]

MatchItems ==
    /\ matched = Unmatched /\ matched' = Shared(Lone(AllPasses))
    /\ UNCHANGED <<asked, reply>>

MatchInit == asked \in Asks /\ reply \in Replies /\ matched = Unmatched
MatchNext == MatchItems

MatchSpec == MatchInit /\ [][MatchNext]_matchvars

-----------------------------------------------------------------------------
Given(p) == IF matched = Unmatched THEN 0 ELSE matched.of[p]
Twins(u, v) == u # v /\ \A key \in {"canonical", "coarse"} : Form(key, u) = Form(key, v)
NamesUrl(i, u) == u \in {reply[i].url, reply[i].source}

\* No page answers two different URLs; a page that names a requested URL exactly is not
\* passed over for that URL; and where two requested spellings are one URL under both forms,
\* a page answers one of them only if it names that spelling.
MatchIsSound ==
    \A p \in Positions : LET i == Given(p) IN
        /\ i # 0 => /\ \A q \in Positions : Given(q) = i => asked[q] = asked[p]
                    /\ (\E q \in Positions : Twins(asked[q], asked[p])) => NamesUrl(i, asked[p])
        /\ (matched # Unmatched /\ \E j \in DOMAIN reply : reply[j].url = asked[p])
             => \E q \in Positions : asked[q] = asked[p] /\ Given(q) # 0 /\ reply[Given(q)].url = asked[p]

\* The docstring "refuses to guess when the item carries no evidence": a page that
\* came from one requested URL is never handed out as the page of another.
NeverRelabelled ==
    \A p, q \in Positions : LET i == Given(p) IN
        (i # 0 /\ reply[i].url = asked[q] /\ asked[q] # asked[p]) => reply[i].source = asked[p]
=============================================================================
