----------------------------- MODULE LegacySearch -----------------------------
(***************************************************************************)
(* The search of the command line and of callers without the v3 engine       *)
(* (_execute_search_request_core): its own provider chain, its file cache of  *)
(* results and the file of provider cooldowns, as the threads of one or       *)
(* several processes use them for one query.                                *)
(***************************************************************************)
EXTENDS Integers, SequencesExt

CONSTANTS
    Searchers,     \* threads, each with one search at a time
    HomeOf,        \* [Searchers -> the process a thread runs in]
    Providers,
    Requests,      \* [Searchers -> what each may ask for] (see Order)
    Priority,      \* provider_priority
    Usable,        \* providers that are enabled, allowed for automatic use and configured
    Ladder,        \* COOLDOWN_STEPS_SECONDS, in ticks
    Decay,         \* FAILURE_DECAY_SECONDS, in ticks
    CacheTTL,
    MaxTime,       \* bound on the clock
    Nobody

Automatic == "auto"

VARIABLES
    health,   \* [Providers -> NotFailed or [count, until, last]]: provider_health.json
    saved,    \* [Providers -> Nobody or a cached result]: the result cache, by the provider of its key
    search,   \* [Searchers -> the search it makes]
    loaded,   \* [Searchers -> Nobody, or the [file, known] it has read to change it; known: it could
              \* read the file]
    time

legacyvars == <<health, saved, search, loaded, time>>

NotFailed  == [count |-> 0, until |-> 0, last |-> 0]
NoneFailed == [p \in Providers |-> NotFailed]   \* no file, or one that cannot be read
NoSearch  == [step |-> "idle", ask |-> Nobody, todo |-> <<>>, enough |-> FALSE, failed |-> FALSE,
              got |-> <<>>, answer |-> Nobody]

\* Who is asked, in which order.  ask.provider is what the caller names; an automatic search
\* starts at ask.first, by intent or, when automatic routing is off, the fixed default, and
\* a search by intent or with --allow-fallback goes on with the others in priority order.
Primary(ask) == IF ask.provider = Automatic THEN ask.first ELSE ask.provider
Strict(ask)  == IF ask.provider = Automatic THEN ask.fixed ELSE ~ask.fallback
Order(ask)   ==
    IF Strict(ask) THEN <<Primary(ask)>>
    ELSE <<Primary(ask)>> \o SelectSeq(Priority, LAMBDA p : p \in Usable \ {Primary(ask)})

\* A search starts with a provider the program knows (the choices of --provider and of the
\* configuration).
ASSUME LegacyAssumption ==
    Providers # {} /\ \A s \in Searchers : \A ask \in Requests[s] : Primary(ask) \in Providers

\* provider_in_cooldown, which reads the file for each provider; unread: those for which it
\* could not.  If all are cooling down, the first is asked all the same.
Cooling(p) == health[p].until > time
Eligible(order, unread) ==
    LET warm == SelectSeq(order, LAMBDA p : p \in unread \/ ~Cooling(p)) IN
    IF warm = <<>> THEN <<Head(order)>> ELSE warm

-----------------------------------------------------------------------------
LegacyInit ==
    /\ health = NoneFailed
    /\ saved = [p \in Providers |-> Nobody]
    /\ search = [s \in Searchers |-> NoSearch]
    /\ loaded = [s \in Searchers |-> Nobody]
    /\ time = 1

InSearch(s, step) == search[s].step = step /\ UNCHANGED time
Doing(s, step)    == search' = [search EXCEPT ![s].step = step]

BeginSearch(s) ==
    /\ InSearch(s, "idle")
    /\ \E ask \in Requests[s], unread \in SUBSET Providers :
          search' = [search EXCEPT ![s] = [NoSearch EXCEPT
                       !.step = IF ask.cached THEN "look" ELSE "ask", !.ask = ask,
                       !.todo = Eligible(Order(ask), unread)]]
    /\ UNCHANGED <<health, saved, loaded>>

\* The answer: whom its routing names, and whose results are in it.
Reply(s, routed, from) ==
    search' = [search EXCEPT ![s] = [NoSearch EXCEPT !.answer =
                 [ask |-> search[s].ask, routed |-> routed, from |-> from]]]

\* cache_get, under the provider the search starts with.
LookUp(s) ==
    LET key == Primary(search[s].ask)  hit == saved[key] IN
    /\ InSearch(s, "look")
    /\ IF hit = Nobody THEN Doing(s, "ask")
       ELSE IF time - hit.stamp > CacheTTL THEN Doing(s, "expire")
       ELSE Reply(s, key, hit.from)
    /\ UNCHANGED <<health, saved, loaded>>

\* The expired file is unlinked by its name, after it was read.
Expire(s) ==
    /\ InSearch(s, "expire") /\ Doing(s, "ask")
    /\ saved' = [saved EXCEPT ![Primary(search[s].ask)] = Nobody]
    /\ UNCHANGED <<health, loaded>>

\* One provider is asked: it answers, at length or not, or fails; either is noted in the
\* health file.  A configuration error is not, as the provider was never contacted.
AskProvider(s) ==
    /\ InSearch(s, "ask") /\ search[s].todo # <<>>
    /\ \/ search' = [search EXCEPT ![s].todo = Tail(@), ![s].failed = TRUE]
       \/ \E enough \in BOOLEAN :
             search' = [search EXCEPT ![s].step = "reset", ![s].enough = enough]
       \/ Doing(s, "mark")
    /\ UNCHANGED <<health, saved, loaded>>

\* Mutant: there is no lock.
LockFreeAlways(s) == TRUE

\* _HEALTH_LOCK, of a process.
LockFree(s) == \A other \in Searchers : HomeOf[other] = HomeOf[s] => loaded[other] = Nobody

\* _load_provider_health: a file that cannot be read or understood counts as an empty one.
Load(s) ==
    /\ search[s].step \in {"reset", "mark"} /\ loaded[s] = Nobody /\ LockFree(s)
    /\ \/ loaded' = [loaded EXCEPT ![s] = [file |-> health, known |-> TRUE]]
       \/ loaded' = [loaded EXCEPT ![s] = [file |-> NoneFailed, known |-> FALSE]]
    /\ UNCHANGED <<health, saved, search, time>>

\* mark_provider_failure: one step up the ladder, or the first after a quiet time; a
\* Retry-After may lengthen the cooldown up to the end of the ladder.
Failed(old, wait) ==
    LET count == IF old.last # 0 /\ time - old.last > Decay THEN 1 ELSE old.count + 1
        step  == Ladder[IF count < Len(Ladder) THEN count ELSE Len(Ladder)]
        pause == IF wait > step THEN wait ELSE step
    IN [count |-> IF count < Len(Ladder) THEN count ELSE Len(Ladder),   \* no more is told apart
        until |-> time + (IF pause < Last(Ladder) THEN pause ELSE Last(Ladder)), last |-> time]

\* A write that fails ends the search with an error.
MarkFailure(s) ==
    LET p == Head(search[s].todo) IN
    /\ InSearch(s, "mark") /\ loaded[s] # Nobody
    /\ \/ /\ \E wait \in {0, Last(Ladder)} :
                health' = [loaded[s].file EXCEPT ![p] = Failed(@, wait)]
          /\ search' = [search EXCEPT ![s].step = "ask", ![s].todo = Tail(@), ![s].failed = TRUE]
       \/ health' = health /\ search' = [search EXCEPT ![s] = NoSearch]
    /\ loaded' = [loaded EXCEPT ![s] = Nobody]
    /\ UNCHANGED saved

\* What there is to forget of the provider; in a file that could not be read, nothing.
ToForget(s) == loaded[s].known /\ loaded[s].file[Head(search[s].todo)] # NotFailed

\* reset_provider_health writes only if there is something to forget.  The chain ends with
\* an answer that is long enough, or that no failure came before.  After a write that fails
\* the answer is dropped and the provider has failed.
ResetHealth(s) ==
    LET p == Head(search[s].todo) IN
    /\ InSearch(s, "reset") /\ loaded[s] # Nobody
    /\ \/ /\ health' = IF ToForget(s) THEN [loaded[s].file EXCEPT ![p] = NotFailed] ELSE health
          /\ search' = [search EXCEPT ![s].step = "ask", ![s].got = Append(@, p), ![s].enough = FALSE,
                          ![s].todo = IF search[s].enough \/ ~search[s].failed THEN <<>> ELSE Tail(@)]
       \/ ToForget(s) /\ health' = health /\ Doing(s, "mark")
    /\ loaded' = [loaded EXCEPT ![s] = Nobody]
    /\ UNCHANGED saved

\* Mutant: results are kept under the provider that was asked first.
SavedUnderPrimary(s) == Primary(search[s].ask)
SavedUnder(s) == Last(search[s].got)   \* successful_provider

\* The answers are merged (deduplicate_results_across_providers) and cached.
FinishSearch(s) ==
    LET got == search[s].got IN
    /\ InSearch(s, "ask") /\ search[s].todo = <<>>
    /\ IF got = <<>> THEN search' = [search EXCEPT ![s] = NoSearch] /\ UNCHANGED saved
       ELSE /\ Reply(s, Last(got), ToSet(got))
            /\ saved' = IF search[s].ask.cached
                        THEN [saved EXCEPT ![SavedUnder(s)] = [from |-> ToSet(got), stamp |-> time]]
                        ELSE saved
    /\ UNCHANGED <<health, loaded>>

\* cache_clear leaves the health file alone.
ClearCache ==
    /\ saved' = [p \in Providers |-> Nobody]
    /\ UNCHANGED <<health, search, loaded, time>>

LegacyTick ==
    /\ time < MaxTime /\ time' = time + 1
    /\ UNCHANGED <<health, saved, search, loaded>>

LegacyNext ==
    \/ \E s \in Searchers : \/ BeginSearch(s) \/ LookUp(s) \/ Expire(s) \/ AskProvider(s)
                            \/ Load(s) \/ MarkFailure(s) \/ ResetHealth(s) \/ FinishSearch(s)
    \/ ClearCache \/ LegacyTick

LegacySpec == LegacyInit /\ [][LegacyNext]_legacyvars

-----------------------------------------------------------------------------
\* A thread that could not read the file writes one in which only its own provider has failed.
Wiped(s) ==
    /\ search[s].step = "mark" /\ loaded[s] # Nobody /\ ~loaded[s].known
    /\ \E wait \in {0, Last(Ladder)} : health' = [NoneFailed EXCEPT ![Head(search[s].todo)] = Failed(@, wait)]

\* "this prevents lost updates between threads": a write of the health file changes one
\* provider only, and counts on from the failures of that provider that the file holds, not
\* from those it held when the writer read it.  What the others have in it is lost only to a
\* thread that could not read the file.
NoLostUpdate ==
    [][\/ \E p \in Providers :
             /\ \A q \in Providers \ {p} : health'[q] = health[q]
             /\ health'[p] # health[p] =>
                   health'[p] = NotFailed \/ \E wait \in {0, Last(Ladder)} :
                                                health'[p] = Failed(health[p], wait)
       \/ \E s \in Searchers : Wiped(s)]_legacyvars

\* The provider an answer's routing names has contributed to it, be the answer fresh, merged
\* or taken from the cache under another caller's key.
RoutingNamesContributor ==
    \A s \in Searchers : LET a == search[s].answer IN a # Nobody => a.routed \in a.from

\* "An explicit --provider NAME is strict: it does not fall back" (docs/ROUTING.md).
ExplicitIsStrict ==
    \A s \in Searchers : LET a == search[s].answer IN
        a # Nobody => (a.ask.provider # Automatic /\ ~a.ask.fallback => a.from = {a.ask.provider})
=============================================================================
