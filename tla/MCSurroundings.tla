--------------------------- MODULE MCSurroundings ---------------------------
(* Small instances of the components around the attempt engine that share no *)
(* state with each other, checked side by side in one run: a behaviour picks *)
(* one of them and never touches the others.                                 *)
EXTENDS BudgetLedger, ReceiptJournal, StateMigration, TextStore, HttpPool,
        Orchestrator, ExtractFallback, LegacySearch, BehaviorConfig,
        DonsetchSession, SearchEvidence, NativeExtract, ExtractMatching,
        ExtractBatch, ResponseProjection, BoundedContext, ExtractDelivery,
        CallPacing, LatencyStats, TLC
CONSTANTS
    j1, j2, j3, r1, r2, pa, pb, pc, s1, s2,
    Parts   \* the components that are looked at

VARIABLE part   \* the component this behaviour is about

\* Receipts of different sizes; pages of one byte each.
MCSizeOf   == (j1 :> 1) @@ (j2 :> 2) @@ (j3 :> 3) @@ (Foreign :> 1)
MCTextSize == [k \in Texts |-> 1]

\* Two readers of the response cache: one under a preflight that cuts its request,
\* one whose request is what the cut one becomes, or asks the cache for the other order.
Wish(order, tries, wall) ==
    [order |-> order, attempts |-> tries, wall |-> wall, research |-> 0, extract |-> FALSE, context |-> 0]
NoCheck == [on |-> FALSE, abort |-> FALSE, calls |-> 0, quota |-> 0, timeout |-> 0, context |-> 0]
Check   == [NoCheck EXCEPT !.on = TRUE]
Asked(wish, check, mode, stale) ==
    [wish |-> wish, set |-> check, mode |-> mode, eligible |-> TRUE, ttl |-> 0, stale |-> stale]
MCInputs ==
    (r1 :> {Asked(Wish(<<"a", "b">>, 0, 3), [Check EXCEPT !.timeout = 1], "prefer", 0),
            Asked(Wish(<<"a", "b">>, 2, 0), [Check EXCEPT !.calls = 1, !.quota = 1], "only", 0),
            Asked(Wish(<<"a", "b">>, 1, 3), [Check EXCEPT !.timeout = 1, !.quota = 1, !.abort = TRUE], "bypass", 0)})
 @@ (r2 :> {Asked(Wish(<<"a", "b">>, 0, 0), NoCheck, "prefer", 1),
            Asked(Wish(<<"b", "a">>, 0, 0), NoCheck, "only", 0)})
MCCacheKeys == {KeyOf(Wish(<<"a", "b">>, 0, 0)), KeyOf(Wish(<<"a">>, 1, 0))}
Left(kind)  == [kind |-> kind, facts |-> NoFacts, stamp |-> 0]
MCFound     == {[k \in MCCacheKeys |-> IF k[1] = 0 THEN Left(kind) ELSE NoFile] : kind \in {"foreign", "misfiled"}}

\* Extraction: everything configured; an explicit provider that automatic routing
\* leaves out; nothing configured; everything disabled.
Site == [asked |-> AutoChosen, priority |-> <<pa, pb, pc>>, known |-> <<pa, pb, pc>>, disabled |-> {},
         usable |-> {pa, pb, pc}, automatic |-> {pa, pb, pc}, fallback |-> TRUE]
MCOneSite == {Site}
MCSites   == {Site, [Site EXCEPT !.asked = pb, !.priority = <<pa, pb, pa>>, !.automatic = {pa, pc}, !.usable = {pa, pb}],
            [Site EXCEPT !.fallback = FALSE, !.usable = {}], [Site EXCEPT !.disabled = {pa, pb, pc}]}
MCRefused     == {{3}, {1, 2, 3}}
MCNoneRefused == {{}}

\* The legacy search: two threads of one process; one searches automatically, the other asks a
\* provider by name.
MCHomeOf    == [s \in Searchers |-> "cli"]
Search(p)   == [provider |-> p, first |-> pa, fixed |-> FALSE, fallback |-> FALSE, cached |-> TRUE]
MCRequests  == (s1 :> {Search(Automatic)}) @@ (s2 :> {Search(pb)})
MCRequests3 == [s \in Searchers |-> {Search(Automatic), Search(pc)}]
MCPriority  == <<pa, pb>>
MCPriority3 == <<pa, pb, pc>>
MCLadder    == <<1, 2>>

\* Settings: files an editor may leave behind.
ByHand(f)  == [f EXCEPT !.by = "hand"]
MCHandWritten == {Garbled, ByHand([Defaults EXCEPT !.default = pa, !.disabled = {pa}]),
                  ByHand([Defaults EXCEPT !.other = "refused"]),
                  ByHand([Defaults EXCEPT !.other = "fine", !.profile = "self_hosted", !.priority = <<pa>>])}
MCCatalog  == <<pa, pb>>
MCOldOrder == <<pb, pa>>
MCFreeOrder == <<pb>>

\* URLs 1, 2 and 5 have one canonical form, 3 shares the coarser one with 1 and 2;
\* 4 is no web URL and has no coarser form, 5 spells the port of an http URL out.
MCCanonOf   == <<1, 1, 3, 4, 1>>
MCRewriteOf == <<1, 1, 1, NoForm, 5>>
MCAsks      == UNION {[1 .. n -> Spellings] : n \in 1 .. 3}
MCReplies   == UNION {[1 .. n -> [url : Spellings \cup {Nowhere}, source : {Nowhere, 2, 4}]] : n \in 0 .. 2}

\* What a page's request may bring: a page, an empty one, the provider's own word for a
\* failure, the site's error page, and errors of the page, the account and the service.
Brings(code, empty, hint, target, page) == [code |-> code, empty |-> empty, hint |-> hint, target |-> target, page |-> page]
MCAnswers == {Brings(200, FALSE, FALSE, "none", page) : page \in {"text", "blank", "refused", "missing"}}
        \cup {Brings(403, FALSE, FALSE, "blocked", "text"), Brings(429, TRUE, TRUE, "none", "text"),
              Brings(0, FALSE, FALSE, "none", "text")}

\* Three providers found page 1, one of them page 2 as well; an extraction of three URLs,
\* the last two of which have one canonical form.
MCSeparator == <<0>>
Result(page, form, by, says, fails) == [page |-> page, form |-> form, by |-> by, says |-> says, failed |-> fails]
Snippets    == {<<>>, <<1>>, <<2, 1>>, <<2, 1, 3>>, <<3, 3, 3, 3, 3>>}
Done3       == [p \in 1 .. 3 |-> "success"]
MCEnds      == {Done3, <<"failed", "success", "deadline_exceeded">>}
ThreeFound(a, b, c) ==
    <<Result(1, 0, 1, a, FALSE), Result(2, 0, 3, <<1>>, FALSE), Result(1, 1, 2, b, FALSE), Result(1, 0, 3, c, FALSE)>>
SearchPayloads ==
    {[search |-> TRUE, research |-> TRUE, selected |-> 0, ends |-> Done3, kept |-> kept, error |-> FALSE, raw |-> ThreeFound(a, b, c)] :
         a \in Snippets, b \in Snippets, c \in Snippets, kept \in {<<3, 2>>, <<4, 2, 1>>}}
    \cup {[search |-> TRUE, research |-> many, selected |-> IF many THEN 0 ELSE 2, ends |-> <<"success", "partial", "cancelled">>,
           kept |-> kept, error |-> FALSE, raw |-> <<Result(1, 0, 1, a, FALSE), Result(1, 1, 2, b, FALSE), Result(2, 0, 2, b, FALSE)>>] :
         a \in Snippets, b \in Snippets, many \in BOOLEAN, kept \in {<<1, 3>>, <<2, 3>>}}
ExtractPayloads ==
    {[search |-> FALSE, research |-> FALSE, selected |-> 2, ends |-> ends, kept |-> <<1, 2, 3>>, error |-> FALSE,
      raw |-> <<Result(1, 0, 2, <<>>, FALSE), Result(2, 0, y, <<>>, y = 0), Result(2, 1, z, <<>>, TRUE)>>] :
         y \in {0, 2}, z \in {0, 2}, ends \in MCEnds}
    \cup {[search |-> FALSE, research |-> FALSE, selected |-> 2, ends |-> <<"partial", "success", "cancelled">>, kept |-> <<1, 2, 3>>,
           error |-> FALSE, raw |-> <<Result(1, 0, 1, <<>>, FALSE), Result(2, 0, 2, <<>>, FALSE), Result(2, 1, 0, <<>>, TRUE)>>]}
FailedPayloads ==
    {[search |-> seeks, research |-> FALSE, selected |-> 0, ends |-> [p \in 1 .. 3 |-> "failed"], error |-> TRUE,
      kept |-> IF seeks THEN <<>> ELSE <<1>>, raw |-> IF seeks THEN <<>> ELSE <<Result(1, 0, 0, <<>>, TRUE)>>] : seeks \in BOOLEAN}
MCPayloads  == SearchPayloads \cup ExtractPayloads \cup FailedPayloads

\* Pages: every short text, some longer ones with headings and paragraphs; and batches of
\* three whose lengths meet every budget.
AllTexts(n)  == UNION {[1 .. k -> {"x", "y", "_", "/", "."}] : k \in 0 .. n}
LongTexts    == {<<"#", "_", "x", "/", "y", ".", "_", "y", "/", "#", "/", "x">>, <<"#", "#", "_", "x", "/", "y", "/", "#", "_", "y">>,
                 <<"y", "y", "y", "y", "_", "y", "x", "y", "y", "y", "y">>, <<"y", ".", "_", "x", "/", "/", "y", "x", ".", "/", "y", "y">>,
                 <<"y", "/", "y", "/", "/", "y", "_", "_", "_", "_", "x", "/">>,
                 <<"y", "x", "y", "y", "y", "_", "_", "_">>}
OfLength(n)  == [k \in 1 .. n |-> IF k % 3 = 0 THEN "/" ELSE "y"]
Wants(pages, most, site, budget, spans) ==
    [pages |-> pages, maxUrls |-> most, siteUrls |-> site, budget |-> budget, query |-> <<"x">>, spans |-> spans]
WithQuery(query, wish) == [wish EXCEPT !.query = query]

\* Queries: nothing, a word twice, two words the page has in either order, and ones of which
\* the page has one word in seven or in twelve.
Queries == {<<>>, <<"x", "y", "x">>, <<"y", "z", "x">>, <<"x", "a", "b", "c", "d", "e", "f">>,
            <<"x", "a", "b", "c", "d", "e", "f", "g", "h", "i", "j", "k">>}
MCContextRequests ==
    {Wants(<<text>>, 1, 1, 5, TRUE) : text \in AllTexts(4) \cup LongTexts}
    \cup {WithQuery(query, Wants(<<text>>, 1, 1, 5, TRUE)) : query \in Queries, text \in LongTexts}
    \cup {Wants(<<text, OfLength(4)>>, 2, 2, budget, TRUE) : text \in LongTexts, budget \in {9, 12}}
    \cup {Wants(<<text>>, 1, 1, 12, TRUE) : text \in LongTexts}
    \cup {Wants([i \in 1 .. 3 |-> OfLength(n[i])], most, 3, budget, FALSE) :
             n \in [1 .. 3 -> {0, 2, 3, 8}], most \in {0, 2, 5}, budget \in 0 .. 12}

AnyPayload     == CHOOSE q \in MCPayloads : TRUE
AnyContextWish == CHOOSE q \in MCContextRequests : TRUE

\* Extractions: one provider or any, one page or several, one twice, one private, one more
\* than the limit; the settings change the order, a provider's own settings or the rule
\* for private addresses.
Extraction(urls, by, images, tight) == [urls |-> urls, provider |-> by, images |-> images, tight |-> tight]
Setting(order, at, private)         == [order |-> order, at |-> at, private |-> private]
NewSettings == (pa :> 1) @@ (pb :> 0) @@ (pc :> 0)
OldSettings == (pa :> 0) @@ (pb :> 0) @@ (pc :> 0)
SameSite == Setting(<<pa, pb>>, OldSettings, FALSE)
NewSite  == Setting(<<pa, pb>>, NewSettings, FALSE)
OpenSite == Setting(<<pb, pa>>, OldSettings, TRUE)
WideSite == Setting(<<pa, pb, pc>>, OldSettings, FALSE)
Situation(wanted, sites) == {[call |-> wanted, site |-> set] : set \in sites}
MCSituations == Situation(Extraction(<<1, 2, 3, 1>>, "auto", TRUE, FALSE), {WideSite})
           \cup Situation(Extraction(<<1, 1>>, "auto", FALSE, FALSE), {SameSite, NewSite})
           \cup Situation(Extraction(<<4>>, "auto", FALSE, TRUE), {SameSite, OpenSite, [OpenSite EXCEPT !.private = FALSE]})
           \cup Situation(Extraction(<<1>>, pa, FALSE, FALSE), {SameSite, NewSite, WideSite})
MCLandsOn == <<1, 1, 3, 4>>

\* What Brave answers: no limit, one call each unit, a short window too long to wait for,
\* a refusal for a short window, and one for a long one.
Replied(fine, windows, gone, after) == [ok |-> fine, windows |-> windows, spent |-> gone, after |-> after]
Window(most, length) == [limit |-> most, window |-> length]
MCHeaders == {Replied(TRUE, {Window(0, 1), Window(2, 9)}, {}, Unknown), Replied(TRUE, {Window(1, 1)}, {}, Unknown),
              Replied(FALSE, {Window(1, 3), Window(4, 4)}, {[left |-> 0, reset |-> 1]}, Unknown),
              Replied(FALSE, {Window(1, 1)}, {[left |-> 0, reset |-> 1], [left |-> 0, reset |-> 3]}, Unknown)}

\* Two threads of one process, one of another, recording latencies.
MCStatsProcess == <<1, 1, 2>>

AllParts == {"ledger", "journal", "migration", "texts", "pool", "orchestrator", "extraction", "legacy",
             "config", "session", "evidence", "native", "matching", "batch", "projection",
             "context", "delivery", "pacing", "stats"}

\* A component that is not looked at starts in one state.
SurroundingsInit ==
    /\ part \in Parts
    /\ LedgerInit /\ JournalInit /\ MigrationInit /\ PoolInit
    /\ ExtractInit /\ LegacyInit /\ SessionInit /\ NativeInit
    /\ IF part = "texts" THEN TRUE ELSE entry = [k \in Texts |-> NoEntry]
    /\ IF part = "orchestrator" THEN TRUE ELSE file = CHOOSE f \in Found : TRUE
    /\ IF part = "config" THEN TRUE ELSE disk = Missing
    /\ IF part = "evidence" THEN TRUE ELSE allowedHits = {} /\ rankOf = [h \in Hits |-> h]
    /\ IF part = "batch" THEN TRUE ELSE adapter = "you"
    /\ TextInit /\ OrchInit /\ ConfigInit /\ EvidenceInit /\ BatchInit
    /\ IF part = "matching" THEN MatchInit ELSE asked = <<>> /\ reply = <<>> /\ matched = Unmatched
    /\ IF part = "projection" THEN ProjectionInit ELSE payload = AnyPayload /\ arrived = <<>> /\ answerV3 = NotBuilt
    /\ IF part = "context" THEN ContextInit ELSE contextWish = AnyContextWish /\ bounded = Unbounded /\ handed = <<>>
    /\ DeliveryInit
    /\ PaceInit
    /\ IF part = "stats" THEN StatsInit ELSE posix = TRUE /\ statsFile = <<>> /\ savedSamples = <<>> /\ recorder = [r \in Recorders |-> [at |-> "idle", sample |-> Failure, read |-> <<>>]]

\* The components that are not looked at stand still; said first, TLC finds it once a state.
SurroundingsNext ==
    /\ UNCHANGED part
    /\ IF part = "ledger" THEN TRUE ELSE UNCHANGED lvars
    /\ IF part = "journal" THEN TRUE ELSE UNCHANGED jvars
    /\ IF part = "migration" THEN TRUE ELSE UNCHANGED migvars
    /\ IF part = "texts" THEN TRUE ELSE UNCHANGED textvars
    /\ IF part = "pool" THEN TRUE ELSE UNCHANGED poolvars
    /\ IF part = "orchestrator" THEN TRUE ELSE UNCHANGED orchvars
    /\ IF part = "extraction" THEN TRUE ELSE UNCHANGED evars
    /\ IF part = "legacy" THEN TRUE ELSE UNCHANGED legacyvars
    /\ IF part = "config" THEN TRUE ELSE UNCHANGED configvars
    /\ IF part = "session" THEN TRUE ELSE UNCHANGED sessionvars
    /\ IF part = "evidence" THEN TRUE ELSE UNCHANGED evidencevars
    /\ IF part = "native" THEN TRUE ELSE UNCHANGED nativevars
    /\ IF part = "matching" THEN TRUE ELSE UNCHANGED matchvars
    /\ IF part = "batch" THEN TRUE ELSE UNCHANGED batchvars
    /\ IF part = "projection" THEN TRUE ELSE UNCHANGED projectionvars
    /\ IF part = "context" THEN TRUE ELSE UNCHANGED contextvars
    /\ IF part = "delivery" THEN TRUE ELSE UNCHANGED deliveryvars
    /\ IF part = "pacing" THEN TRUE ELSE UNCHANGED pacevars
    /\ IF part = "stats" THEN TRUE ELSE UNCHANGED statsvars
    /\ \/ part = "ledger" /\ LedgerNext
       \/ part = "journal" /\ JournalNext
       \/ part = "migration" /\ MigrationNext
       \/ part = "texts" /\ TextNext
       \/ part = "pool" /\ PoolNext
       \/ part = "orchestrator" /\ OrchNext
       \/ part = "extraction" /\ ExtractNext
       \/ part = "legacy" /\ LegacyNext
       \/ part = "config" /\ ConfigNext
       \/ part = "session" /\ SessionNext
       \/ part = "evidence" /\ EvidenceNext
       \/ part = "native" /\ NativeNext
       \/ part = "matching" /\ MatchNext
       \/ part = "batch" /\ BatchNext
       \/ part = "projection" /\ ProjectionNext
       \/ part = "context" /\ ContextNext
       \/ part = "delivery" /\ DeliveryNext
       \/ part = "pacing" /\ PaceNext
       \/ part = "stats" /\ StatsNext
=============================================================================
