---------------------------- MODULE ExtractFallback ----------------------------
(***************************************************************************)
(* One extraction request: _plan_extract_v3 and _execute_extract_v3            *)
(* (src/wsp_core/extract.py), and what response_from_legacy                    *)
(* (src/wsp_core/runtime_v3.py) makes of its items.  The providers of the plan  *)
(* are asked one after the other, each for the pages that are still missing;    *)
(* the pages may come from several of them.                                     *)
(*                                                                         *)
(* A page's item is [kind, by]: what it says and the provider it names, which   *)
(* an error item may leave out.  Its wording, title and text are not modelled.  *)
(***************************************************************************)
EXTENDS RoutingReceipt, Sublists, FiniteSets, SequencesExt

CONSTANTS
    Extractors, \* the names a setting or a caller may give
    Urls,       \* the requested pages, 1 .. n in request order
    Sites,      \* what a request may meet: [asked, priority, known, disabled, usable, automatic, fallback]
    Refused,    \* the sets of pages the address check may refuse
    Kinds       \* the reasons providers give

AutoChosen == "auto"

\* The registry names each provider once; a setting may repeat one.
ASSUME ExtractAssumption ==
    /\ NoProvider \notin Extractors
    /\ Kinds \cap {"page", "none"} = {}
    /\ \A site \in Sites : /\ site.known \in Seq(Extractors) /\ IsInjective(site.known)
                           /\ site.priority \in Seq(Extractors)
                           /\ site.asked \in Extractors \cup {AutoChosen}
                           /\ site.fallback \in BOOLEAN

\* How much a reason says; an item without a reason is "blank".
Rank(kind) == CASE kind \in {"not_found", "gone"} -> 6
                [] kind = "blocked" -> 4
                [] kind = "unsupported_site" -> 3
                [] kind = "unreachable" -> 2
                [] kind = "site_error" -> 1
                [] OTHER -> 0
Final == {"not_found", "gone"}

Item(kind, by) == [kind |-> kind, by |-> by]
NoItem == Item("none", NoProvider)

VARIABLES
    doing,      \* where the request stands
    plan,       \* [order, chosen]
    refused,    \* pages the address check refused
    turn,       \* position in the plan of the next provider
    pending,    \* pages still missing
    succeeded,  \* the item that carried each page
    failed,     \* the best reason known for each page
    attempts,   \* receipts, in order
    serving,    \* providers that served a page, in order
    late,       \* the request's deadline has passed
    told,       \* every item that was heard of a page, in order (for the properties)
    lost,       \* what providers said of pages in items dropped with their try, as [page, kind]
                \* (for the properties)
    response    \* [slots, selected, reported, multi], once there is one

evars == <<doing, plan, refused, turn, pending, succeeded, failed, attempts, serving, late, told, lost, response>>

-----------------------------------------------------------------------------
(* The plan                                                                *)

\* The configured order without what no setting may name, completed by the known providers.
Completed(priority, known) ==
    LET named == FirstAmong(priority, Range(known)) IN named \o Without(known, Range(named))

PlanOf(site) ==
    LET enabled   == Without(Completed(site.priority, site.known), site.disabled)
        automatic == Among(enabled, site.usable \cap site.automatic)
        fallen    == Among(enabled, site.automatic)
        order     == IF site.asked # AutoChosen THEN <<site.asked>> \o Without(automatic, {site.asked})
                     ELSE IF automatic # <<>> THEN automatic
                     ELSE SubSeq(fallen, 1, IF fallen = <<>> THEN 0 ELSE 1)
    IN [chosen |-> IF order = <<>> THEN AutoChosen ELSE order[1],
        order  |-> IF site.fallback \/ order = <<>> THEN order ELSE <<order[1]>>]

ExtractInit ==
    /\ doing = "begin"
    /\ plan = [chosen |-> AutoChosen, order |-> <<>>]
    /\ refused = {} /\ turn = 1 /\ pending = {}
    /\ succeeded = [u \in Urls |-> NoItem]
    /\ failed = [u \in Urls |-> NoItem]
    /\ attempts = <<>> /\ serving = <<>> /\ late = FALSE
    /\ told = [u \in Urls |-> <<>>] /\ lost = {}
    /\ response = <<>>

\* ProviderPlan refuses an order without candidates, before any address is checked.
NoPlan ==
    /\ doing = "begin"
    /\ \E site \in Sites : PlanOf(site).order = <<>>
    /\ doing' = "raised"
    /\ UNCHANGED <<plan, refused, turn, pending, succeeded, failed, attempts, serving, late, told, lost, response>>

\* Addresses are checked one by one; a request whose pages are all refused asks nobody.
Plan ==
    /\ doing = "begin"
    /\ \E site \in Sites, none \in Refused :
        /\ PlanOf(site).order # <<>>
        /\ plan' = PlanOf(site)
        /\ refused' = none
        /\ pending' = Urls \ none
        /\ doing' = IF pending' = {} THEN "merge" ELSE "ask"
    /\ UNCHANGED <<turn, succeeded, failed, attempts, serving, late, told, lost, response>>

-----------------------------------------------------------------------------
(* The providers                                                           *)

Provider == plan.order[turn]

Noting(outcome, skip) ==
    /\ attempts' = Append(attempts, [provider |-> Provider, outcome |-> outcome, skip |-> skip])
    /\ turn' = turn + 1
    /\ doing' = IF turn = Len(plan.order) THEN "merge" ELSE "ask"

Asking == doing = "ask"

\* Nothing is missing, or it is too late: the provider only gets a receipt.
PassOver ==
    /\ Asking
    /\ \/ pending = {} /\ Noting("skipped", "policy_excluded")
       \/ pending # {} /\ late /\ Noting("skipped", "deadline_exceeded")
    /\ UNCHANGED <<plan, refused, pending, succeeded, failed, serving, late, told, lost, response>>

\* The engine did not ask it, or it said nothing of a page.
Unanswered ==
    /\ Asking /\ pending # {} /\ ~ late
    /\ \/ \E skip \in {"auth_blocked", "circuit_open", "budget_blocked", "deadline_exceeded"} : Noting("skipped", skip)
       \/ \E outcome \in {"failed", "cancelled"} : Noting(outcome, "none")
    /\ UNCHANGED <<plan, refused, pending, succeeded, failed, serving, late, told, lost, response>>

\* extract_failures.better
Better(current, item) ==
    IF item = NoItem THEN current
    ELSE IF current = NoItem \/ Rank(item.kind) > Rank(current.kind) THEN item
    ELSE current

\* What a provider says of the pages it was asked for; it may leave some out.
Said(by) == {NoItem} \cup {Item(kind, b) : kind \in Kinds, b \in {by, NoProvider}}

\* Faulty: a page that does not exist stays open.
StillOpenAlways(reasons) == pending

\* The pages that are still worth asking for.
StillOpen(reasons) == {u \in pending : reasons[u].kind \notin Final}

Tell(items) == told' = [u \in Urls |-> IF u \in DOMAIN items /\ items[u] # NoItem
                                       THEN Append(told[u], items[u]) ELSE told[u]]

\* The items of a try that ended in an error of its own never reach the merge.
DropItems(items) == lost' = lost \cup {[page |-> u, kind |-> items[u].kind] : u \in {v \in pending : items[v] # NoItem}}

\* A provider without a successor is tried again; this try's items replace those of the first.
RetryLoses ==
    \/ UNCHANGED lost
    \/ Len(plan.order) = 1 /\ \E items \in [pending -> Said(Provider)] : DropItems(items)

\* It said why pages are missing, but not for all of them, or an error of the account stopped
\* the batch before a page came, or the pages it sent are none of those asked for: the try
\* fails with that error, and what it said is dropped.
Unheard ==
    /\ Asking /\ pending # {} /\ ~ late
    /\ \E items \in [pending -> Said(Provider)] : DropItems(items)
    /\ Noting("failed", "none")
    /\ UNCHANGED <<plan, refused, pending, succeeded, failed, serving, late, told, response>>

\* At least one page came back.  An error of the account may have stopped the batch.
Answer ==
    /\ Asking /\ pending # {} /\ ~ late
    /\ \E items \in [pending -> Said(Provider) \cup {Item("page", Provider)}], outcome \in Good :
        LET pages  == {u \in pending : items[u].kind = "page"}
            reason(u) == IF items[u] = NoItem THEN Item("blank", NoProvider) ELSE items[u]
        IN  /\ pages # {}
            /\ outcome = "partial" => pages # pending
            /\ succeeded' = [u \in Urls |-> IF u \in pages THEN items[u] ELSE succeeded[u]]
            /\ failed' = [u \in Urls |-> IF u \in pending \ pages THEN Better(failed[u], reason(u)) ELSE failed[u]]
            /\ pending' = StillOpen(failed') \ pages
            /\ serving' = Append(serving, Provider)
            /\ Tell(items)
            /\ Noting(outcome, "none")
    /\ RetryLoses
    /\ UNCHANGED <<plan, refused, late, response>>

\* No page came back, but items that say why (ExtractUrlsFailed).
AllFailed ==
    /\ Asking /\ pending # {} /\ ~ late
    /\ \E items \in [pending -> Said(Provider)] :
        /\ \E u \in pending : items[u] # NoItem
        /\ failed' = [u \in Urls |-> IF u \in pending THEN Better(failed[u], items[u]) ELSE failed[u]]
        /\ pending' = StillOpen(failed')
        /\ Tell(items)
        /\ Noting("failed", "none")
    /\ RetryLoses
    /\ UNCHANGED <<plan, refused, succeeded, serving, late, response>>

RunOut ==
    /\ doing = "ask" /\ ~ late
    /\ late' = TRUE
    /\ UNCHANGED <<doing, plan, refused, turn, pending, succeeded, failed, attempts, serving, told, lost, response>>

-----------------------------------------------------------------------------
(* The response                                                            *)

\* One item for each page in request order; what was never explained is blank.
ItemOf(u) == IF succeeded[u] # NoItem THEN succeeded[u]
             ELSE IF u \in refused \/ failed[u] = NoItem THEN Item("blank", NoProvider)
             ELSE failed[u]

Successful == {attempts[i].provider : i \in {j \in DOMAIN attempts : attempts[j].outcome \in Good}}
Served     == {succeeded[u].by : u \in {v \in Urls : succeeded[v] # NoItem}}

\* Faulty: one provider's attempt stands for all.
MultiSourceNever == FALSE

MultiSource == Cardinality(Successful \cap Served) > 1

\* The attempt an item of the response is tied to.  With several sources an item goes to the
\* provider it names, if that one succeeded, and an error without a name to the selected one.
Owners(item, selected) ==
    IF ~ MultiSource THEN {selected}
    ELSE IF item.by # NoProvider THEN {item.by} \cap Successful
    ELSE {selected}

\* The last provider that served a page is the selected one.
LastServing == IF serving = <<>> THEN NoProvider ELSE Last(serving)

ResponseOf(selected) ==
    [selected |-> selected,
     slots    |-> {s \in [page : Urls, kind : Kinds \cup {"page", "blank"}, by : Successful] :
                      s.kind = ItemOf(s.page).kind /\ s.by \in Owners(ItemOf(s.page), selected)},
     reported |-> IF selected \in {NoProvider, plan.chosen} THEN "none" ELSE "selected_failed"]

Merge ==
    /\ doing = "merge"
    /\ doing' = "done"
    /\ response' = <<ResponseOf(LastServing)>>
    /\ UNCHANGED <<plan, refused, turn, pending, succeeded, failed, attempts, serving, late, told, lost>>

Extracted == doing \in {"done", "raised"} /\ UNCHANGED evars

ExtractNext == NoPlan \/ Plan \/ PassOver \/ Unanswered \/ Unheard \/ Answer \/ AllFailed \/ RunOut \/ Merge \/ Extracted

ExtractSpec == ExtractInit /\ [][ExtractNext]_evars

-----------------------------------------------------------------------------
(* Correctness                                                             *)

\* Every page that reached the merge is in the response once, tied to the attempt of the provider
\* that served it, however many providers it took (_execute_extract_v3's merge and the slots
\* of response_from_legacy).
PagesAttributed ==
    \A i \in DOMAIN response : \A u \in Urls : \A k \in DOMAIN told[u] :
        told[u][k].kind = "page" =>
            {s \in response[i].slots : s.page = u} = {[page |-> u, kind |-> "page", by |-> told[u][k].by]}

\* Of what reached the merge: nobody is asked for a page once it came or was said not to exist,
\* and the reason the caller is given for a missing page is the most telling one (note_failure
\* and the two ways a page leaves pending).  What was dropped with a try has no part in either
\* (see FinalStopsChain).
AskedWhileOpen ==
    \A u \in Urls :
        /\ \A k \in 1 .. Len(told[u]) - 1 : told[u][k].kind \notin Final \cup {"page"}
        /\ \A k \in DOMAIN told[u] : ItemOf(u).kind = "page" \/ Rank(told[u][k].kind) <= Rank(ItemOf(u).kind)

\* Whatever became of the providers, the receipt built from their attempts is one its own
\* validator accepts, now and from the cache (complete_routing_receipt_v3 against
\* validate_routing_receipt_v3): a response is not lost for its explanation.
ExtractReceiptDelivered ==
    \A i \in DOMAIN response :
        Deliverable(Receipt(plan.order, attempts, response[i].selected, response[i].reported, FALSE), attempts)

\* What the fallback owes: its pages to their providers, their URLs every chance and no
\* more, and the answer a receipt that is accepted.
FallbackSound == PagesAttributed /\ AskedWhileOpen /\ ExtractReceiptDelivered

\* What extract_failures.py promises: "A page that does not exist ... is final: no other provider
\* can read it, so the fallback chain stops for that URL".
FinalStopsChain ==
    Asking /\ ~ late => \A u \in pending, kind \in Final : [page |-> u, kind |-> kind] \notin lost

\* What extract_match.py promises: exactly one outcome per requested URL.
OneOutcomePerUrl ==
    \A i \in DOMAIN response : response[i].slots # {} =>
        \A u \in Urls : Cardinality({s \in response[i].slots : s.page = u}) = 1
=============================================================================
