---------------------------- MODULE ExtractDelivery ----------------------------
(***************************************************************************)
(* The way of an extraction's pages to the caller: extract_plus of extract.py,  *)
(* with the identity under which its response is cached, the conditions for     *)
(* writing it, the check of stored texts, and the rows the caller gets             *)
(* (compat_v3.py, cache_v3.py, cache_identity_v3.py).  Which provider serves     *)
(* which page is in ExtractFallback, how pages are cut in BoundedContext, the     *)
(* cache's files in ResponseCache, the stored texts in TextStore.                 *)
(*                                                                         *)
(* A page's text is [of, by, at]: the page asked for, the provider that read it *)
(* and that provider's settings at the time.  Calls are made one after the      *)
(* other; a setting may change between two of them, a stored text may go any    *)
(* time.                                                                        *)
(***************************************************************************)
EXTENDS Integers, FiniteSets, Sequences, Functions, Sublists

CONSTANTS
    Situations,   \* [call, site]: what may be asked for and under which settings.  call: [urls, provider,
                  \* images, tight], tight: long pages are cut; site: [order, at, private], the
                  \* providers in order, each one's settings, private addresses allowed
    LandsOn,      \* page -> the address it redirects to, or its own
    PrivatePages, LongPages,
    UrlLimit,     \* HARD_MAX_URLS
    MaxCalls      \* bound on the number of calls

ASSUME DeliveryAssumption ==
    /\ UrlLimit \in Nat \ {0} /\ MaxCalls \in Nat
    /\ \A s \in Situations : s.call.urls \in Seq(Nat \ {0}) /\ s.site.order \in Seq(DOMAIN s.site.at)

VARIABLES
    inForce,      \* the settings of the call
    extraction,       \* the call
    callPhase,      \* where it stands
    pageItems,     \* the items of its payload, one for each processed page
    fromCache, \* they are those of an earlier call
    shelf,     \* the response cache: [key, order, items]
    library,   \* texts in the full text store
    callRows,      \* what the caller gets
    standing,  \* library when the paths were checked
    callCount      \* how many calls were made

deliveryvars == <<inForce, extraction, callPhase, pageItems, fromCache, shelf, library, callRows, standing, callCount>>

AnyProvider == "auto"
NoOne       == "nobody"
Pageless      == [of |-> 0, by |-> NoOne, at |-> 0]

\* An item of the payload: its address, its page or none, the provider it names,
\* whether the text was cut, and whether a reference to the stored text is kept.
Got(url, page, by) == [url |-> url, page |-> page, by |-> by, cut |-> FALSE, kept |-> FALSE]

Processing == SubSeq(extraction.urls, 1, IF Len(extraction.urls) < UrlLimit THEN Len(extraction.urls) ELSE UrlLimit)
LeftOut       == SubSeq(extraction.urls, Len(Processing) + 1, Len(extraction.urls))

-----------------------------------------------------------------------------
(* The identity                                                            *)

PlanFor(wanted, settings) ==
    IF wanted.provider = AnyProvider THEN settings.order
    ELSE <<wanted.provider>> \o Without(settings.order, {wanted.provider})

\* _identity_candidate_basis
BasisOf(wanted, settings) == IF wanted.provider = AnyProvider THEN settings.order ELSE <<wanted.provider>>

\* _extract_provider_endpoint_config of each of them.
EndpointsOf(basis, settings) == [i \in DOMAIN basis |-> settings.at[basis[i]]]

\* ExtractionCacheIdentityV3: the pages in their order, everything asked for, and where from.
CanonicalForm(wanted, basis, at, private) == [call |-> wanted, basis |-> basis, at |-> at, private |-> private]

\* Mutant: the settings of the providers are left out.
IdentityOfCall(wanted, settings) == CanonicalForm(wanted, BasisOf(wanted, settings), <<>>, settings.private)

\* _extract_cache_vary
IdentityFor(wanted, settings) ==
    CanonicalForm(wanted, BasisOf(wanted, settings), EndpointsOf(BasisOf(wanted, settings), settings), settings.private)

-----------------------------------------------------------------------------
(* A call                                                                  *)

\* An entry of another order of providers is not used (execute_v3_request).
Cached(wanted, settings) ==
    {e \in shelf : ~wanted.images /\ e.key = IdentityFor(wanted, settings) /\ e.order = PlanFor(wanted, settings)}

PagesIn(list)   == {i \in DOMAIN list : list[i].page # Pageless}
Servers(list) == {list[i].by : i \in PagesIn(list)}

\* What a hit makes of an entry: which provider served is remembered by address, so the last
\* item with an address gives the name, and only if several providers served.
FromMaterial(e) ==
    [i \in DOMAIN e.items |->
        LET same == {s \in DOMAIN e.items : e.items[s].url = e.items[i].url}
            last == CHOOSE s \in same : \A other \in same : s >= other
        IN [e.items[i] EXCEPT !.by = IF Cardinality(Servers(e.items)) > 1 THEN e.items[last].by ELSE NoOne]]

BeginCall ==
    /\ callPhase \in {"idle", "told"} /\ callCount < MaxCalls
    /\ \E s \in Situations :
        /\ extraction' = s.call /\ inForce' = s.site
        /\ fromCache' = (Cached(s.call, s.site) # {})
        /\ pageItems' = IF fromCache' THEN FromMaterial(CHOOSE e \in Cached(s.call, s.site) : TRUE) ELSE <<>>
        /\ callPhase' = IF fromCache' THEN "verify" ELSE "ask"
    /\ callRows' = <<>> /\ standing' = {} /\ callCount' = callCount + 1
    /\ UNCHANGED <<shelf, library>>

\* A page as a provider reads it with its settings (provider_dispatch.py).
ReadBy(p, u, address) == Got(address, [of |-> u, by |-> p, at |-> inForce.at[p]], p)

\* What may come of a page: refused, read by one of the providers, or an error that
\* names a provider or none.
MayCome(u) ==
    IF u \in PrivatePages /\ ~inForce.private THEN {Got(u, Pageless, NoOne)}
    ELSE {ReadBy(p, u, a) : a \in {u, LandsOn[u]}, p \in Range(PlanFor(extraction, inForce))}
         \cup {Got(a, Pageless, p) : a \in {u, LandsOn[u]}, p \in Range(PlanFor(extraction, inForce)) \cup {NoOne}}

\* An extraction without a page reports each page under the address that was asked for.
ReadPages ==
    /\ callPhase = "ask"
    /\ \E got \in [DOMAIN Processing -> UNION {MayCome(Processing[i]) : i \in DOMAIN Processing}] :
        /\ \A i \in DOMAIN got : got[i] \in MayCome(Processing[i])
        /\ PagesIn(got) = {} => \A i \in DOMAIN got : got[i].url = Processing[i]
        /\ pageItems' = got
    /\ callPhase' = "bound"
    /\ UNCHANGED <<inForce, extraction, fromCache, shelf, library, callRows, standing, callCount>>

\* _extract_cache_write_eligible; plain: no field the cache does not know.
Writable(plain) ==
    /\ ~extraction.images /\ plain
    /\ PagesIn(pageItems) = DOMAIN pageItems
    /\ \A u \in Range(Processing) : Cardinality({i \in DOMAIN pageItems : pageItems[i].url = u})
                                     >= Cardinality({i \in DOMAIN pageItems : Processing[i] = u})

\* What is kept of a response (cache_material_from_response).
Material(list) == [key |-> IdentityFor(extraction, inForce), order |-> PlanFor(extraction, inForce), items |-> list]

\* Long pages are cut, their texts stored as far as the store takes them; the response is
\* written to the cache.  What a redirect leaves in an item is not plain.
BoundAndWrite ==
    /\ callPhase = "bound"
    /\ LET cut == {i \in PagesIn(pageItems) : extraction.tight /\ pageItems[i].page.of \in LongPages}
       IN \E taken \in SUBSET cut, plain \in BOOLEAN :
            /\ pageItems' = [i \in DOMAIN pageItems |-> [pageItems[i] EXCEPT !.cut = i \in cut, !.kept = i \in taken]]
            /\ library' = library \cup {pageItems[i].page : i \in taken}
            /\ shelf' = IF Writable(plain)
                        THEN {e \in shelf : e.key # IdentityFor(extraction, inForce)} \cup {Material(pageItems')}
                        ELSE shelf
    /\ callPhase' = "deliver"
    /\ UNCHANGED <<inForce, extraction, fromCache, callRows, standing, callCount>>

\* _finalize_extract_response on a hit: a reference to a text that is gone is dropped.
VerifyStored ==
    /\ callPhase = "verify"
    /\ pageItems' = [i \in DOMAIN pageItems |-> [pageItems[i] EXCEPT !.kept = pageItems[i].kept /\ pageItems[i].page \in library]]
    /\ callPhase' = "deliver"
    /\ UNCHANGED <<inForce, extraction, fromCache, shelf, library, callRows, standing, callCount>>

\* Retention and other processes remove stored texts; a later call of theirs is not followed.
Forget ==
    /\ callPhase # "told"
    /\ \E page \in library : library' = library \ {page}
    /\ UNCHANGED <<inForce, extraction, callPhase, pageItems, fromCache, shelf, callRows, standing, callCount>>

-----------------------------------------------------------------------------
(* The rows                                                                    *)

\* Items of a response with several serving providers have no observation when they name a
\* provider that served nothing; without any page there are no observations.
Observed(i) ==
    \/ i \in PagesIn(pageItems)
    \/ Servers(pageItems) # {} /\ (Cardinality(Servers(pageItems)) > 1 => pageItems[i].by \in Servers(pageItems) \cup {NoOne})

\* An item takes the first waiting result with its address; none without an observation.
Place(taken, i) ==
    LET free == {s \in DOMAIN pageItems : pageItems[s].url = pageItems[i].url /\ taken[s] = 0}
    IN  IF Observed(i) THEN [taken EXCEPT ![CHOOSE s \in free : \A other \in free : s <= other] = i] ELSE taken

\* v3_response_to_legacy_extract: the items in their order.
Placed ==
    LET taken[i \in 0 .. Len(pageItems)] == IF i = 0 THEN [s \in DOMAIN pageItems |-> 0] ELSE Place(taken[i - 1], i)
    IN  taken[Len(pageItems)]

Named(slot) == IF fromCache \/ Cardinality(Servers(pageItems)) > 1 THEN pageItems[slot].by ELSE NoOne

\* _resolve_full_text_paths: a path only for a text that still reads back.
RowFor(slot, i) ==
    [url |-> pageItems[slot].url, named |-> Named(slot), page |-> IF i = 0 THEN Pageless ELSE pageItems[i].page,
     failed |-> pageItems[slot].page = Pageless, cut |-> i # 0 /\ pageItems[i].cut,
     path |-> i # 0 /\ pageItems[i].kept /\ pageItems[i].page \in library]
OverLimit(url) == [url |-> url, named |-> NoOne, page |-> Pageless, failed |-> TRUE, cut |-> FALSE, path |-> FALSE]

\* All pages refused: nothing but the error (_execute_extract_v3).
NothingAllowed == ~inForce.private /\ Range(Processing) \subseteq PrivatePages

\* _append_omitted_url_errors adds a row for each page past the limit.
Deliver ==
    /\ callPhase = "deliver"
    /\ LET placed == Placed
           slots  == Picked([s \in DOMAIN pageItems |-> s], {s \in DOMAIN pageItems : placed[s] # 0 \/ pageItems[s].page = Pageless})
       IN callRows' = (IF NothingAllowed THEN <<>> ELSE [k \in DOMAIN slots |-> RowFor(slots[k], placed[slots[k]])])
                  \o [k \in DOMAIN LeftOut |-> OverLimit(LeftOut[k])]
    /\ standing' = library /\ callPhase' = "told"
    /\ UNCHANGED <<inForce, extraction, pageItems, fromCache, shelf, library, callCount>>

DeliveryInit ==
    /\ LET any == CHOOSE s \in Situations : TRUE IN inForce = any.site /\ extraction = any.call
    /\ callPhase = "idle" /\ pageItems = <<>> /\ fromCache = FALSE /\ shelf = {} /\ library = {} /\ callRows = <<>>
    /\ standing = {} /\ callCount = 0
DeliveryNext == BeginCall \/ ReadPages \/ BoundAndWrite \/ VerifyStored \/ Forget \/ Deliver

DeliverySpec == DeliveryInit /\ [][DeliveryNext]_deliveryvars

-----------------------------------------------------------------------------
\* An item without an observation stands before a page that landed on its address.
Shadowed == \E s \in DOMAIN pageItems, i \in PagesIn(pageItems) : s < i /\ pageItems[s].url = pageItems[i].url /\ ~Observed(s)

\* The settings in force are those the page was read with: of the provider asked for, and of
\* every provider when none was.
UnderSettings(page) ==
    extraction.provider \in {AnyProvider, page.by} => page.at = inForce.at[page.by]

\* The caller gets one row for each page asked for, in that order, with that page's own text
\* or an error; a cut text says so, a path leads to that page's whole text; pages that may
\* not be read are not shown, not even from the cache; an answer from the cache is whole and
\* was read under the settings of this call (extract_plus, ExtractionCacheIdentityV3).
DeliverySound ==
    callPhase = "told" /\ ~Shadowed /\ ~NothingAllowed =>
        /\ Len(callRows) = Len(extraction.urls)
        /\ \A k \in DOMAIN callRows :
            /\ callRows[k].page # Pageless => callRows[k].page.of = extraction.urls[k] /\ ~callRows[k].failed
            /\ callRows[k].page = Pageless => callRows[k].failed /\ ~callRows[k].path
            /\ callRows[k].url \in {extraction.urls[k], LandsOn[extraction.urls[k]]}
            /\ callRows[k].page # Pageless => (callRows[k].cut <=> extraction.tight /\ extraction.urls[k] \in LongPages)
            /\ callRows[k].path => callRows[k].cut /\ callRows[k].page \in standing
            /\ callRows[k].page # Pageless => extraction.urls[k] \notin PrivatePages \/ inForce.private
            /\ callRows[k].page # Pageless => UnderSettings(callRows[k].page)
            /\ fromCache => callRows[k].page # Pageless \/ k > UrlLimit
            /\ callRows[k].named \in {NoOne, callRows[k].page.by}
                 \/ callRows[k].page = Pageless \/ \E j \in DOMAIN callRows \ {k} : callRows[j].url = callRows[k].url
=============================================================================
