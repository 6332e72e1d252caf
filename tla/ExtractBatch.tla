------------------------------ MODULE ExtractBatch ------------------------------
(***************************************************************************)
(* One extraction attempt: the adapter of one provider (extract_... of         *)
(* providers.py) asks for the pages of a batch, _extract_plus_core of           *)
(* extract.py judges what came back, and the operation of _execute_extract_v3   *)
(* hands pages, an error or both to the attempt engine.                         *)
(*                                                                         *)
(* Firecrawl, Keenable and Serper send one request per page, one after the      *)
(* other; Linkup sends several at once on daemon threads and waits for each in  *)
(* turn; the others send one request for all pages.  An answer is what the      *)
(* client sees of it: the status, what the error body says, and the page.       *)
(* Threads that are still busy when the attempt ends are not followed further.  *)
(***************************************************************************)
EXTENDS Integers, FiniteSets

CONSTANTS
    Sizes,       \* numbers of pages a batch may have
    Answers,     \* [code, empty, hint, target, page]; code 0: no answer in time
    Workers,     \* requests Linkup has under way at most
    Adapters     \* the adapters looked at, of AllAdapters

OneByOne    == {"firecrawl", "keenable", "serper"}
AllAdapters == OneByOne \cup {"linkup", "tavily", "exa", "you", "parallel"}

ASSUME BatchAssumption ==
    /\ Sizes \subseteq Nat \ {0} /\ Workers \in Nat \ {0} /\ Adapters \subseteq AllAdapters
    /\ \A a \in Answers : a.code \in Nat /\ a.page \in {"text", "blank", "refused", "missing"}

VARIABLES
    adapter, count,
    fetch,       \* page -> "queued", "cleared", "sent", "done"
    gotten,      \* page -> the answer, or why there was no request
    items,       \* page -> the item of the result list, "open" until there is one
    clocks,      \* [deadline, overall]: which limits have passed
    firstError,  \* class of the first exception in page order, "none" so far
    stop,        \* class of the first error that concerns the account, "none" so far
    afterStop,   \* requests sent after it
    ending       \* [by, class, pages, dropped]: how the attempt ends

batchvars == <<adapter, count, fetch, gotten, items, clocks, firstError, stop, afterStop, ending>>

Pages    == 1 .. count
Unasked(why) == [code |-> 200, empty |-> FALSE, hint |-> FALSE, target |-> "none", page |-> why]
Skipped  == {"stopped", "not_tried", "late", "waiting"}
Running  == [by |-> "running", class |-> "none", pages |-> {}, dropped |-> {}]

-----------------------------------------------------------------------------
(* What an answer means                                                    *)

\* _out_of_credit: a 429 that says when to come back is a rate limit, whatever its text.
OutOfCredit(a) ==
    \/ a.code = 402
    \/ a.code \in {400, 403, 429} /\ ~(a.code = 429 /\ a.hint) /\ a.empty

TargetFailure(a) == a.code \in {400, 403} /\ a.target # "none" /\ ~OutOfCredit(a)

\* classify_provider_error, of the errors the client raises.
ClassOf(a) ==
    IF a.page = "late" THEN "deadline"
    ELSE IF TargetFailure(a) THEN "contract"
    ELSE IF OutOfCredit(a) THEN "quota"
    ELSE CASE a.code \in {401, 403}       -> "auth"
           [] a.code = 432                -> "quota"
           [] a.code = 429                -> "rate_limit"
           [] a.code = 0 \/ a.code >= 500 -> "transient"
           [] OTHER                       -> "internal"

AccountWide(a) == ClassOf(a) \in {"rate_limit", "quota", "auth", "config"}
Failing(a)     == a.code # 200 \/ a.page = "late"

\* An item made of an exception, and of a page's text.
ErrorItem(a) == IF TargetFailure(a) THEN "reason" ELSE "error"
TextItem(a)  == IF a.page = "blank" THEN "blank" ELSE "page"

\* The message of the exception is the item's, and that of a late request says so.
MessageItem(a) == IF a.page = "late" THEN "not_tried" ELSE "error"

\* What is said of a page the provider would not read.
Refusal(a, item) == IF a.page = "refused" THEN item ELSE TextItem(a)

FirecrawlItem(a) == IF Failing(a) THEN ErrorItem(a) ELSE IF a.page = "missing" THEN "reason" ELSE Refusal(a, "error")
LinkupItem(a)    == IF Failing(a) THEN ErrorItem(a) ELSE Refusal(a, "error")
SerperItem(a)    == IF Failing(a) THEN MessageItem(a) ELSE Refusal(a, "error")
KeenableItem(a)  == IF Failing(a) THEN MessageItem(a) ELSE Refusal(a, "blank")

ItemOfAnswer(a) ==
    IF a.page \in {"stopped", "not_tried"} THEN a.page
    ELSE CASE adapter = "firecrawl" -> FirecrawlItem(a)
           [] adapter = "linkup"    -> LinkupItem(a)
           [] adapter = "serper"    -> SerperItem(a)
           [] OTHER                 -> KeenableItem(a)

\* What a provider that is asked for all pages at once may say of one of them; "elsewhere"
\* is a page under a URL that answers none of the requested ones.
TavilyItems   == {"page", "blank", "reason", "error", "absent", "elsewhere"}
ExaItems      == {"page", "blank", "reason", "error", "absent", "elsewhere"}
YouItems      == {"page", "blank", "absent", "elsewhere"}
ParallelItems == {"page", "blank", "reason", "error", "absent", "elsewhere"}
ListedItems   == CASE adapter = "tavily" -> TavilyItems [] adapter = "exa" -> ExaItems
                   [] adapter = "you" -> YouItems [] OTHER -> ParallelItems

-----------------------------------------------------------------------------
(* The requests                                                            *)

Active == {u \in Pages : fetch[u] \in {"cleared", "sent"}}

\* A page's turn: the next one, or a free place among the threads.
PageTurn(u) ==
    /\ ending = Running /\ fetch[u] = "queued" /\ adapter \in OneByOne \cup {"linkup"}
    /\ IF adapter = "linkup" THEN Cardinality(Active) < Workers
       ELSE \A v \in 1 .. u - 1 : fetch[v] = "done"

\* The item of a one-by-one adapter is written at once, Linkup's when it is waited for.
Settle(u, a) ==
    /\ fetch' = [fetch EXCEPT ![u] = "done"] /\ gotten' = [gotten EXCEPT ![u] = a]
    /\ IF adapter = "linkup" THEN UNCHANGED <<items, firstError>>
       ELSE /\ items' = [items EXCEPT ![u] = ItemOfAnswer(a)]
            /\ firstError' = IF adapter = "firecrawl" /\ Failing(a) /\ firstError = "none" THEN ClassOf(a) ELSE firstError

\* The two checks before a request.
CheckPage(u) ==
    /\ PageTurn(u)
    /\ IF stop # "none" THEN Settle(u, Unasked("stopped"))
       ELSE IF clocks.deadline THEN Settle(u, Unasked("not_tried"))
       ELSE fetch' = [fetch EXCEPT ![u] = "cleared"] /\ UNCHANGED <<gotten, items, firstError>>
    /\ UNCHANGED <<adapter, count, clocks, stop, afterStop, ending>>

\* dispatch_timeout refuses a request the deadline has overtaken.
SendPage(u) ==
    /\ ending = Running /\ fetch[u] = "cleared"
    /\ IF clocks.deadline THEN Settle(u, Unasked("late")) /\ UNCHANGED afterStop
       ELSE /\ fetch' = [fetch EXCEPT ![u] = "sent"]
            /\ afterStop' = afterStop + (IF stop = "none" THEN 0 ELSE 1)
            /\ UNCHANGED <<gotten, items, firstError>>
    /\ UNCHANGED <<adapter, count, clocks, stop, ending>>

ReceivePage(u) ==
    /\ ending = Running /\ fetch[u] = "sent" /\ adapter \in OneByOne \cup {"linkup"}
    /\ \E a \in Answers :
          /\ Settle(u, a)
          /\ stop' = IF stop = "none" /\ Failing(a) /\ AccountWide(a) THEN ClassOf(a) ELSE stop
    /\ UNCHANGED <<adapter, count, clocks, afterStop, ending>>

\* Linkup's caller waits for the threads in page order; an overdue one is left alone.
Collect(u) ==
    /\ ending = Running /\ adapter = "linkup" /\ items[u] = "open"
    /\ \A v \in 1 .. u - 1 : items[v] # "open"
    /\ \/ /\ fetch[u] = "done"
          /\ items' = [items EXCEPT ![u] = ItemOfAnswer(gotten[u])]
          /\ firstError' = IF Failing(gotten[u]) /\ firstError = "none" THEN ClassOf(gotten[u]) ELSE firstError
       \/ /\ fetch[u] # "done" /\ clocks.overall
          /\ items' = [items EXCEPT ![u] = "overdue"] /\ UNCHANGED firstError
    /\ UNCHANGED <<adapter, count, fetch, gotten, clocks, stop, afterStop, ending>>

DeadlineComes ==
    /\ ending = Running /\ ~clocks.deadline /\ clocks' = [clocks EXCEPT !.deadline = TRUE]
    /\ UNCHANGED <<adapter, count, fetch, gotten, items, firstError, stop, afterStop, ending>>

\* Only a batch of several pages has an overall limit.
OverallComes ==
    /\ ending = Running /\ adapter = "linkup" /\ count > 1
    /\ ~clocks.overall /\ clocks' = [clocks EXCEPT !.overall = TRUE]
    /\ UNCHANGED <<adapter, count, fetch, gotten, items, firstError, stop, afterStop, ending>>

-----------------------------------------------------------------------------
(* What the attempt comes to                                               *)

Errors    == {"reason", "error", "not_tried", "stopped", "overdue"}
Fetched  == {u \in Pages : items[u] = "page"}
AllItems(kinds) == \A u \in Pages : items[u] \in kinds

EndsWith(by, class, pages, dropped) ==
    ending' = [by |-> by, class |-> class, pages |-> pages, dropped |-> dropped]
RaiseOf(class) == EndsWith("raise", class, {}, {})

\* The rest of _extract_plus_core and the operation around it: the optional quality
\* filter may drop pages, and pages that answer no requested URL do not count.
JudgeItems(dropped) ==
    LET kept   == {u \in Pages : items[u] # "absent"} \ dropped
        usable == {u \in kept : items[u] \in {"page", "elsewhere"}}
    IN  IF dropped # {} /\ kept = {} THEN EndsWith("raise", "contract", {}, dropped)
        ELSE IF usable = {} THEN
            EndsWith("raise", IF stop # "none" THEN stop
                              ELSE IF kept # {} /\ \A u \in kept : items[u] = "not_tried" THEN "deadline"
                              ELSE "contract", {}, dropped)
        ELSE IF Fetched \ dropped = {} THEN EndsWith("raise", "contract", {}, dropped)
        ELSE IF stop # "none" THEN EndsWith("stopped", stop, Fetched \ dropped, dropped)
        ELSE EndsWith("return", "none", Fetched \ dropped, dropped)

\* Mutant: the first error ends the attempt, whatever came back.
WholeOnError == firstError # "none"

\* Every page failed, and some exception says how.
LostForError == firstError # "none" /\ AllItems(Errors)

\* _extract_batch_payload, then JudgeItems.
Finish ==
    /\ ending = Running /\ adapter \in OneByOne \cup {"linkup"}
    /\ \A u \in Pages : items[u] # "open"
    /\ IF stop # "none" /\ Fetched = {} THEN RaiseOf(stop)
       ELSE IF stop = "none" /\ LostForError
            THEN RaiseOf(IF AllItems({"reason"}) THEN "contract" ELSE firstError)
       ELSE \E dropped \in SUBSET {u \in Pages : items[u] \in {"page", "blank"}} : JudgeItems(dropped)
    /\ UNCHANGED <<adapter, count, fetch, gotten, items, clocks, firstError, stop, afterStop>>

\* One request for all pages.
AskAll ==
    /\ ending = Running /\ adapter \notin OneByOne \cup {"linkup"} /\ fetch[1] = "queued"
    /\ IF clocks.deadline THEN RaiseOf("deadline") /\ UNCHANGED fetch
       ELSE fetch' = [u \in Pages |-> "sent"] /\ UNCHANGED ending
    /\ UNCHANGED <<adapter, count, gotten, items, clocks, firstError, stop, afterStop>>

ReceiveAll ==
    /\ ending = Running /\ adapter \notin OneByOne \cup {"linkup"} /\ fetch[1] = "sent"
    /\ fetch' = [u \in Pages |-> "done"]
    /\ \/ (\E a \in Answers : Failing(a) /\ RaiseOf(ClassOf(a))) /\ UNCHANGED items
       \/ \E listed \in [Pages -> ListedItems] : items' = listed /\ UNCHANGED ending
    /\ UNCHANGED <<adapter, count, gotten, clocks, firstError, stop, afterStop>>

JudgeAll ==
    /\ ending = Running /\ adapter \notin OneByOne \cup {"linkup"} /\ fetch[1] = "done"
    /\ \E dropped \in SUBSET {u \in Pages : items[u] \in {"page", "blank", "elsewhere"}} : JudgeItems(dropped)
    /\ UNCHANGED <<adapter, count, fetch, gotten, items, clocks, firstError, stop, afterStop>>

BatchInit ==
    /\ adapter \in Adapters /\ count \in Sizes
    /\ fetch = [u \in Pages |-> "queued"] /\ gotten = [u \in Pages |-> Unasked("waiting")]
    /\ items = [u \in Pages |-> "open"]
    /\ clocks = [deadline |-> FALSE, overall |-> FALSE]
    /\ firstError = "none" /\ stop = "none" /\ afterStop = 0 /\ ending = Running

BatchNext ==
    \/ \E u \in Pages : CheckPage(u) \/ SendPage(u) \/ ReceivePage(u) \/ Collect(u)
    \/ DeadlineComes \/ OverallComes \/ Finish \/ AskAll \/ ReceiveAll \/ JudgeAll

BatchSpec == BatchInit /\ [][BatchNext]_batchvars

-----------------------------------------------------------------------------
BatchEnded    == ending # Running
SentAny  == \E u \in Pages : fetch[u] = "sent" \/ (fetch[u] = "done" /\ gotten[u].page \notin Skipped)

\* A batch that goes wrong halfway loses nothing it has paid for: every page that was
\* fetched in time and not dropped by the filter goes back, and there is an error instead
\* only when there is none ("One failing URL must not discard the pages already paid for").
\* An error of the account reaches the engine with its own class, pages or not, comes from
\* no answer about a single page, and lets at most the requests under way go out.  An
\* adapter that keeps the error of each page reports the deadline only when it sent nothing.
BatchSound ==
    /\ BatchEnded => ending.pages = Fetched \ ending.dropped
    /\ BatchEnded /\ stop # "none" => ending.class = stop /\ (ending.by = "stopped" <=> ending.pages # {})
    /\ stop # "none" => \E u \in Pages : LET a == gotten[u] IN
          a.code \notin {0, 200} /\ (a.code \in {400, 403} /\ a.target # "none" => a.empty)
    /\ afterStop < (IF adapter = "linkup" THEN Workers ELSE 1)
    /\ (ending.class = "deadline" /\ adapter \in {"keenable", "serper"} /\ ending.dropped = {}) => ~SentAny
=============================================================================
