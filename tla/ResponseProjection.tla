--------------------------- MODULE ResponseProjection ---------------------------
(***************************************************************************)
(* response_from_legacy of runtime_v3.py: what the providers of a request      *)
(* returned becomes the results of a ResponseV3, and ResponseV3 refuses what   *)
(* its own validation does not accept.  The attempts end in any order.         *)
(*                                                                         *)
(* A provider's item is [page, form, by, says, failed]: the canonical URL, its *)
(* spelling, the provider it names, its snippet as a sequence of characters.   *)
(* Snippets are given in the normal form that comparisons use; titles, page    *)
(* texts, scores, dates and digests are left out.                              *)
(***************************************************************************)
EXTENDS Integers, Sequences, FiniteSets, Functions, Sublists

CONSTANTS
    Payloads,        \* [search, research, selected, raw, kept, ends, error] that may come in
    SnippetCap,      \* _MAX_AGGREGATED_SNIPPET_CHARS
    Separator,       \* _SNIPPET_SEPARATOR
    Authoritative    \* pages whose address makes them documents, papers, code or references

\* Providers are numbers from 1; who is not named is 0.
Nameless   == 0
AttemptEnds   == {"success", "partial", "failed", "cancelled", "budget_blocked", "deadline_exceeded"}
Serving(q)    == {p \in DOMAIN q.ends : q.ends[p] \in {"success", "partial"}}
ShownBy(q) == {q.raw[q.kept[i]].by : i \in {j \in DOMAIN q.kept : ~q.raw[q.kept[j]].failed}}

\* Pages of several providers in one extraction.
ManySources(q) == ~q.search /\ Cardinality(Serving(q) \cap ShownBy(q)) > 1

\* An extraction from several providers names one of them that delivered pages.
ASSUME ProjectionAssumption ==
    /\ SnippetCap \in Nat \ {0} /\ Separator \in Seq(Nat) \ {<<>>}
    /\ \A q \in Payloads :
          /\ {q.search, q.research, q.error} \subseteq BOOLEAN /\ q.selected \in Nat /\ q.ends \in Seq(AttemptEnds)
          /\ q.raw \in Seq([page : Nat, form : Nat, by : Nat, says : Seq(Nat), failed : BOOLEAN])
          /\ q.kept \in Seq(DOMAIN q.raw)
          /\ ManySources(q) => q.selected \in Serving(q)

VARIABLES
    payload,     \* raw: the items of all providers; kept: positions of those shown, in order
    arrived,     \* providers in the order in which their attempts ended
    answerV3    \* the response, once it is built

projectionvars == <<payload, arrived, answerV3>>

NotBuilt == [results |-> <<>>, observations |-> <<>>, actions |-> {}, status |-> "none",
             warnings |-> {}, error |-> FALSE, built |-> FALSE]

Attempted    == DOMAIN payload.ends
Limited(p)   == payload.ends[p] \in {"cancelled", "budget_blocked", "deadline_exceeded"}
RawPositions == DOMAIN payload.raw
KeptItems    == [i \in DOMAIN payload.kept |-> payload.raw[payload.kept[i]]]

-----------------------------------------------------------------------------
(* Observations                                                            *)

\* The selected provider's attempt, else the last that succeeded.
Anchor(order) ==
    LET good == {i \in DOMAIN order : order[i] \in Serving(payload)}
    IN IF payload.selected \in Serving(payload) THEN payload.selected
       ELSE IF good = {} THEN Nameless ELSE order[CHOOSE i \in good : \A j \in good : j <= i]

\* Which raw items belong to an attempt when several attempts share the list.
Owns(p, item, anchor) ==
    \/ item.by = p
    \/ ManySources(payload) /\ item.by = Nameless /\ item.failed /\ p = anchor

\* An attempt's observations.  The code numbers them within their attempt; their places in
\* the whole list are in the same order.
Observe(p, slots) ==
    {[id |-> <<p, s>>, by |-> p, slot |-> s,
      page |-> payload.raw[s].page, form |-> payload.raw[s].form, says |-> payload.raw[s].says] : s \in slots}

ObservedWith(anchor) ==
    IF payload.research \/ ManySources(payload)
    THEN UNION {Observe(p, {s \in RawPositions : Owns(p, payload.raw[s], anchor)}) : p \in Serving(payload)}
    ELSE IF payload.selected = Nameless \/ anchor = Nameless THEN {} ELSE Observe(payload.selected, RawPositions)

\* Attempt by attempt as they ended, each one's observations in their order.
Sooner(order, p, q) == \E i, j \in DOMAIN order : i < j /\ order[i] = p /\ order[j] = q
Arrival(order, a, b) == Sooner(order, a.by, b.by) \/ (a.by = b.by /\ a.slot < b.slot)
Observations(order) ==
    LET seen == ObservedWith(Anchor(order))
    IN  SortedBy(seen, {pair \in seen \X seen : Arrival(order, pair[1], pair[2])})

\* _observation_order
SourceOrder(a, b) == a.by < b.by \/ (a.by = b.by /\ a.slot < b.slot)
InSourceOrder(S) == SortedBy(S, {pair \in S \X S : SourceOrder(pair[1], pair[2])})

-----------------------------------------------------------------------------
(* Snippets of several observations of one page                            *)

Within(s, t) == \E i \in 0 .. Len(t) - Len(s) : SubSeq(t, i + 1, i + Len(s)) = s

\* The longer ones first; what is part of one before it is dropped.
LongerFirst(a, b) == Len(a.says) > Len(b.says) \/ (Len(a.says) = Len(b.says) /\ SourceOrder(a, b))
Distinct(members) ==
    LET talking == {o \in Range(members) : o.says # <<>>}
    IN  InSourceOrder({o \in talking : \A q \in talking : LongerFirst(q, o) => ~Within(o.says, q.says)})

Concatenated(texts) ==
    LET joined[k \in 0 .. Len(texts)] ==
            IF k = 0 THEN <<>> ELSE IF k = 1 THEN texts[1] ELSE joined[k - 1] \o Separator \o texts[k]
    IN  joined[Len(texts)]

\* Where a text starts when all of them are joined.
StartOf(texts, i) ==
    LET passed[k \in 0 .. Len(texts)] == IF k = 0 THEN 0 ELSE passed[k - 1] + Len(texts[k]) + Len(Separator)
    IN  passed[i - 1]

\* Fragments until the cap is reached; the last one may be cut.
Fragments(said) ==
    LET texts   == [i \in DOMAIN said |-> said[i].says]
        room(i) == SnippetCap - StartOf(texts, i)
    IN  [i \in {j \in DOMAIN said : room(j) > 0} |->
            [from |-> said[i].id, text |-> IF Len(texts[i]) > room(i) THEN SubSeq(texts[i], 1, room(i)) ELSE texts[i],
             cut |-> Len(texts[i]) > room(i)]]

SnippetOf(o, members) ==
    LET parts == IF Len(members) = 1 THEN <<[from |-> o.id, text |-> o.says, cut |-> FALSE]>>
                 ELSE Fragments(Distinct(members))
    IN  [text |-> Concatenated([i \in DOMAIN parts |-> parts[i].text]), parts |-> parts]

-----------------------------------------------------------------------------
(* Results                                                                 *)

\* _fetch_priority
PriorityOf(rank, members, page) ==
    LET agreed == Cardinality({members[i].by : i \in DOMAIN members}) >= 2
        score  == (IF agreed THEN 2 ELSE 0) + (IF rank <= 3 THEN 1 ELSE 0) + (IF page \in Authoritative THEN 1 ELSE 0)
    IN IF score >= 3 THEN "high" ELSE IF score >= 1 THEN "medium" ELSE "low"

\* Representatives in order; extraction gives each its own cluster.
ResultsOf(chosen, alone) ==
    [r \in DOMAIN chosen |->
        LET o == chosen[r].head  members == chosen[r].members
        IN [rank |-> r, head |-> o.id, page |-> o.page, form |-> o.form,
            ids |-> [i \in DOMAIN members |-> members[i].id],
            cluster |-> IF alone /\ \E q \in 1 .. r - 1 : chosen[q].head.page = o.page
                        THEN <<o.page, o.id>> ELSE <<o.page>>,
            snippet |-> SnippetOf(o, members),
            priority |-> PriorityOf(r, members, o.page)]]

\* Mutant: a page's observations as their attempts came in.
AsTheyCame(observed, page) == Among(observed, {o \in Range(observed) : o.page = page})

\* The observations of one page.
MembersOf(observed, page) == InSourceOrder({o \in Range(observed) : o.page = page})

\* The one in the spelling that is shown, else the first.
HeadOf(members, form) ==
    LET same == {i \in DOMAIN members : members[i].form = form}
    IN  members[IF same = {} THEN 1 ELSE CHOOSE i \in same : \A j \in same : i <= j]

\* project_results_from_observations: one result for each page shown.
SearchResults(observed) ==
    LET first == {i \in DOMAIN KeptItems : /\ MembersOf(observed, KeptItems[i].page) # <<>>
                                           /\ \A j \in 1 .. i - 1 : KeptItems[j].page # KeptItems[i].page}
        shown == SortedBy(first, {pair \in first \X first : pair[1] < pair[2]})
    IN  ResultsOf([r \in DOMAIN shown |->
            LET item == KeptItems[shown[r]]  members == MembersOf(observed, item.page)
            IN  [head |-> HeadOf(members, item.form), members |-> members]], FALSE)

\* project_extract_results_from_observations: one for each URL, in the order of the request.
ExtractResults(observed) ==
    LET seen    == Range(observed)
        inOrder == SortedBy(seen, {pair \in seen \X seen : pair[1].slot < pair[2].slot})
    IN  ResultsOf([i \in DOMAIN inOrder |-> [head |-> inOrder[i], members |-> <<inOrder[i]>>]], TRUE)

ResultsFrom(order) ==
    LET observed == Observations(order)
    IN IF payload.search THEN SearchResults(observed) ELSE ExtractResults(observed)

-----------------------------------------------------------------------------
(* The response                                                            *)

ItemFailed == \E i \in DOMAIN KeptItems : KeptItems[i].failed
BudgetHit  == \E p \in Attempted : Limited(p)

StatusOf(results) ==
    IF payload.error /\ results = <<>> THEN "failed"
    ELSE IF ItemFailed \/ BudgetHit THEN "degraded" ELSE "ok"

WarningsOf(results) ==
    (IF ItemFailed /\ (StatusOf(results) # "failed" \/ ~payload.search) THEN {"partial_extraction"} ELSE {})
    \cup (IF BudgetHit /\ StatusOf(results) # "failed" THEN {"budget_limited"} ELSE {})

ActionsOf(results) == {results[r].head : r \in DOMAIN results}

ResponseFrom(order) ==
    LET results == ResultsFrom(order)
    IN [results |-> results, observations |-> Observations(order), actions |-> ActionsOf(results),
        status |-> StatusOf(results), warnings |-> WarningsOf(results),
        error |-> StatusOf(results) = "failed", built |-> TRUE]

\* An attempt ends.
ArriveAttempt(p) ==
    /\ ~answerV3.built /\ p \notin Range(arrived)
    /\ arrived' = Append(arrived, p) /\ UNCHANGED <<payload, answerV3>>

BuildResponse ==
    /\ ~answerV3.built /\ Range(arrived) = Attempted
    /\ answerV3' = ResponseFrom(arrived) /\ UNCHANGED <<payload, arrived>>

ProjectionInit == payload \in Payloads /\ arrived = <<>> /\ answerV3 = NotBuilt
ProjectionNext == (\E p \in Attempted : ArriveAttempt(p)) \/ BuildResponse
ProjectionSpec == ProjectionInit /\ [][ProjectionNext]_projectionvars

-----------------------------------------------------------------------------
(* ResponseV3.__post_init__                                                *)

ObservedIn(response, id) == {o \in Range(response.observations) : o.id = id}

\* _validate_projection_fragment and _validate_projected_text
TextStands(response, snippet) ==
    /\ snippet.text = Concatenated([i \in DOMAIN snippet.parts |-> snippet.parts[i].text])
    /\ \A i \in DOMAIN snippet.parts : \E o \in ObservedIn(response, snippet.parts[i].from) :
          IF snippet.parts[i].cut THEN snippet.parts[i].text = SubSeq(o.says, 1, Len(snippet.parts[i].text)) ELSE snippet.parts[i].text = o.says
    /\ \A i, j \in DOMAIN snippet.parts : snippet.parts[i].from = snippet.parts[j].from => i = j

PassesValidation(response) ==
    /\ \A i, j \in DOMAIN response.observations : response.observations[i].id = response.observations[j].id => i = j
    /\ \A r \in DOMAIN response.results : LET result == response.results[r] IN
          /\ result.head \in Range(result.ids)
          /\ \A id \in Range(result.ids) : ObservedIn(response, id) # {}
          /\ TextStands(response, result.snippet)
    /\ \A id \in response.actions : ObservedIn(response, id) # {}
    /\ response.status = "degraded" => response.warnings # {}
    /\ response.error <=> response.status = "failed"

\* Whatever order the attempts end in, the response passes its own validation (a response
\* the providers were paid for is not lost to a ValueError) and its results are the same
\* ("Stable ordering never depends on arrival order"); a page that is shown and was observed
\* has one result, which names every observation of it; an extraction answers each observed
\* URL once and in order; a merged snippet keeps to its limit.
ProjectionSound ==
    answerV3.built =>
        /\ PassesValidation(answerV3)
        /\ answerV3.results = ResultsFrom([p \in Attempted |-> p])
        /\ payload.search =>
              \A page \in {KeptItems[i].page : i \in DOMAIN KeptItems} \cap {o.page : o \in Range(answerV3.observations)} :
                  \E r \in DOMAIN answerV3.results :
                      /\ \A q \in DOMAIN answerV3.results : answerV3.results[q].page = page => q = r
                      /\ Range(answerV3.results[r].ids) = {o.id : o \in {x \in Range(answerV3.observations) : x.page = page}}
        /\ ~payload.search =>
              /\ Len(answerV3.results) = Len(answerV3.observations)
              /\ \A q, r \in DOMAIN answerV3.results : answerV3.results[q].cluster = answerV3.results[r].cluster => q = r
        /\ \A r \in DOMAIN answerV3.results :
              Len(answerV3.results[r].ids) > 1 => Len(answerV3.results[r].snippet.text) <= SnippetCap
=============================================================================
