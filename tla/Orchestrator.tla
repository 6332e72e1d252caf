----------------------------- MODULE Orchestrator -----------------------------
(***************************************************************************)
(* execute_v3_request: the budget preflight, the cache lookup, the execution *)
(* and the cache write of requests that run beside each other on one cache   *)
(* directory and one daily ledger.                                          *)
(***************************************************************************)
EXTENDS BudgetPreflight, ResponseCache, FiniteSets, SequencesExt

CONSTANTS
    Candidates, \* the providers a plan may name
    Inputs,    \* [Readers -> sets of [wish, set, mode, eligible, ttl, stale]]: what may be asked for
    NoInput,   \* no request is running
    MaxSpent   \* bound on the day's ledger

VARIABLES
    req,    \* [Readers -> [step, in, wish, cuts]]: the request each thread serves
    answer, \* [Readers -> what it returned last]
    spent   \* used and reserved units of the day, of all requests

orchvars == <<file, aside, look, now, req, answer, spent>>

Idle    == [step |-> "idle", in |-> NoInput, wish |-> NoInput, cuts |-> Plain]
Sources == {"none", "refused", "absent", "cache", "provider"}
NoFacts == [order |-> <<>>, attempts |-> 0, actions |-> <<>>]
Silence == [from |-> "none", facts |-> NoFacts, actions |-> <<>>, degraded |-> FALSE, age |-> 0]

\* derive_cache_key with _search_cache_vary: the attempt bound and whose credentials the
\* candidates use, but not the time bound, and not the order of the candidates.
KeyOf(w) == <<w.attempts, ToSet(w.order)>>

CacheEnabled(in) == in.mode # "bypass" /\ in.eligible

\* What may be asked for is a request with its settings; a key is a file of the directory,
\* and an entry found there carries the key it is filed under (get compares it).
Snapshots == (0 .. MaxSpent) \cup {NoSnapshot}

ASSUME OrchAssumption ==
    /\ MaxSpent \in Nat
    /\ \A r \in Readers : \A in \in Inputs[r] :
          /\ in.wish \in Wishes(Seq(Candidates), Nat, Nat, Nat)
          /\ in.set \in Settings(Nat)
          /\ CacheEnabled(in) => \A s \in Snapshots :
                LET d == Preflight(in.wish, in.set, s)
                IN d.action # "abort" => KeyOf(Applied(in.wish, d)) \in CacheKeys
    /\ \A found \in Found : \A k \in CacheKeys :
          found[k] # NoFile /\ found[k].kind = "entry" => found[k].facts.attempts = k[1]
    /\ \A found \in Found : DOMAIN found = CacheKeys

-----------------------------------------------------------------------------
\* _with_budget_preflight: evidence of a preflight that changed the request.
Evidence(d) == IF d.action = "proceed" THEN <<>> ELSE <<d.action>>

Answered(r, source, facts, actions, degraded, age) ==
    /\ answer' = [answer EXCEPT ![r] = [from |-> source, facts |-> facts, actions |-> actions,
                                        degraded |-> degraded, age |-> age]]
    /\ req' = [req EXCEPT ![r].step = "answered"]

ToStep(r, step) == req' = [req EXCEPT ![r].step = step] /\ UNCHANGED answer

\* What follows when no cached response can be used.
Uncached(r, in) ==
    IF in.mode = "only" THEN "absent" ELSE "execute"

\* Normalization, plan and preflight; the ledger is read without a lock, and may not be
\* readable at all.
Begin(r) ==
    /\ req[r].step = "idle" /\ look[r] = NoLook
    /\ \E in \in Inputs[r], snapshot \in {spent, NoSnapshot} :
          LET d == Preflight(in.wish, in.set, snapshot) IN
          req' = [req EXCEPT ![r] =
                    [step |-> IF d.action = "abort" THEN "refused"
                              ELSE IF CacheEnabled(in) THEN "lookup" ELSE Uncached(r, in),
                     in |-> in, wish |-> Applied(in.wish, d), cuts |-> d]]
    /\ UNCHANGED <<file, aside, look, now, answer, spent>>

\* _budget_preflight_failure and the cache-only miss: a receipt, no provider call.
Refuse(r) ==
    /\ req[r].step \in {"refused", "absent"}
    /\ Answered(r, req[r].step, NoFacts, Evidence(req[r].cuts), FALSE, 0)
    /\ UNCHANGED <<file, aside, look, now, spent>>

Lookup(r) ==
    /\ req[r].step = "lookup"
    /\ Get(r, KeyOf(req[r].wish), req[r].in.ttl, req[r].in.stale)
    /\ ToStep(r, "looking")
    /\ UNCHANGED spent

\* Faulty: a cached response is used whatever order its candidates had.
FitsAnyOrder(w, facts) == TRUE

\* The cached response must come from the same plan.
Fits(w, facts) == facts.order = w.order

\* A cached response: its material, and the preflight of the request it is served to.
Serve(r) ==
    LET l == look[r] IN
    /\ req[r].step = "looking" /\ l.step = "hit"
    /\ Fits(req[r].wish, l.data.facts)
    /\ Answered(r, "cache", l.data.facts, l.data.facts.actions \o Evidence(req[r].cuts),
                l.age > req[r].in.ttl, l.age)
    /\ look' = [look EXCEPT ![r] = NoLook]
    /\ UNCHANGED <<file, aside, now, spent>>

Miss(r) ==
    /\ req[r].step = "looking"
    /\ \/ look[r].step = "missed"
       \/ look[r].step = "hit" /\ ~ Fits(req[r].wish, look[r].data.facts)
    /\ ToStep(r, Uncached(r, req[r].in))
    /\ look' = [look EXCEPT ![r] = NoLook]
    /\ UNCHANGED <<file, aside, now, spent>>

\* The capability runs; other requests see its provider calls in the day's ledger.  A
\* response with results may be written to the cache (_search_cache_write_eligible).
Execute(r) ==
    LET w == req[r].wish
        facts == [order |-> w.order, attempts |-> w.attempts, actions |-> Evidence(req[r].cuts)]
    IN
    /\ req[r].step = "execute"
    /\ \E calls \in 0 .. PlannedCalls(w) :
          spent' = Lower(spent + calls, MaxSpent)
    /\ \E results \in BOOLEAN :
          IF results /\ CacheEnabled(req[r].in)
          THEN /\ req' = [req EXCEPT ![r].step = "write"]
               /\ answer' = [answer EXCEPT ![r] = [Silence EXCEPT !.from = "provider", !.facts = facts,
                                                                   !.actions = facts.actions]]
          ELSE Answered(r, "provider", facts, facts.actions, FALSE, 0)
    /\ UNCHANGED <<file, aside, look, now>>

\* The write may fail, which the response only notes.
WriteBack(r) ==
    /\ req[r].step = "write"
    /\ Replaced(KeyOf(req[r].wish), answer[r].facts) \/ UNCHANGED file
    /\ ToStep(r, "answered")
    /\ UNCHANGED <<aside, look, now, spent>>

Return(r) ==
    /\ req[r].step = "answered"
    /\ req' = [req EXCEPT ![r] = Idle]
    /\ answer' = [answer EXCEPT ![r] = Silence]
    /\ UNCHANGED <<file, aside, look, now, spent>>

\* Readers at work on the cache, an operator's clear, the clock.
Housekeeping ==
    /\ \/ \E r \in Readers : Tidy(r) \/ (req[r].step = "idle" /\ ClearEntry(r))
       \/ ClearAside \/ CacheTick
    /\ UNCHANGED <<req, answer, spent>>

OrchInit ==
    /\ CacheInit
    /\ req = [r \in Readers |-> Idle]
    /\ answer = [r \in Readers |-> Silence]
    /\ spent = 0

OrchNext ==
    \/ \E r \in Readers : \/ Begin(r) \/ Refuse(r) \/ Lookup(r) \/ Serve(r) \/ Miss(r)
                          \/ Execute(r) \/ WriteBack(r) \/ Return(r)
    \/ Housekeeping

OrchSpec == OrchInit /\ [][OrchNext]_orchvars

-----------------------------------------------------------------------------
Finished(r) == req[r].step = "answered"

\* A response from the cache is one that this very request could have got: its
\* execution had the same candidates in the same order and the same attempt bound, it
\* had results, and it is no older than the request allows; only a stale one is degraded
\* (ResponseCacheV3.get and the hit branch of execute_v3_request).
ServedFits ==
    \A r \in Readers : Finished(r) /\ answer[r].from = "cache" =>
        /\ answer[r].facts.order = req[r].wish.order
        /\ answer[r].facts.attempts = req[r].wish.attempts
        /\ answer[r].age <= req[r].in.ttl + req[r].in.stale
        /\ answer[r].degraded <=> answer[r].age > req[r].in.ttl

\* Preflight evidence is in a response only if the preflight changed this request: when
\* it is off or lets the request pass, there are "no receipt actions".
PreflightEvidence ==
    \A r \in Readers : Finished(r) /\ req[r].cuts = Plain => answer[r].actions = <<>>

\* The cuts of the preflight are enough: whatever it cuts from the request at hand passes it
\* as it is, within what the caller asked for (run_budget_preflight, _apply_budget_preflight).
CutsSuffice ==
    \A r \in Readers : req[r].step # "idle" =>
        \A s \in {spent, NoSnapshot} : Suffices(req[r].in.wish, req[r].in.set, s)

\* What is served or cut fits the request: ServedFits and CutsSuffice.
ServedIsFaithful == ServedFits /\ CutsSuffice
=============================================================================
