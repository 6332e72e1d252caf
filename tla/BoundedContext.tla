----------------------------- MODULE BoundedContext -----------------------------
(***************************************************************************)
(* How much of the extracted pages reaches the model: prepare_extract_request  *)
(* and apply_bounded_context of bounded_context_v3.py share a budget of         *)
(* characters among the pages and store what was cut, and the tool of           *)
(* __init__.py shortens each page once more and says where the rest can be      *)
(* read.  The store itself is in TextStore.                                     *)
(***************************************************************************)
EXTENDS PassageSpans

CONSTANTS
    ContextRequests,   \* [pages, maxUrls, siteUrls, budget, query, spans]: pages are texts
    HardMaxUrls,       \* HARD_MAX_URLS
    MinContext, MaxContext,   \* MIN_CONTEXT_CHARS, MAX_CONTEXT_CHARS
    HostLimit          \* web.extract_char_limit

ASSUME ContextAssumption ==
    /\ HardMaxUrls \in Nat \ {0} /\ MinContext \in Nat \ {0} /\ MaxContext \in Nat /\ HostLimit \in Nat \ {0, 1}
    /\ MinContext <= MaxContext
    /\ \A w \in ContextRequests :
          /\ w.pages \in Seq(Seq(STRING)) /\ w.query \in Seq(STRING) /\ w.maxUrls \in Int /\ w.siteUrls \in Int /\ w.budget \in Int
          /\ w.spans \in BOOLEAN

VARIABLES
    contextWish,       \* the request
    bounded,    \* the response with bounded texts, once there is one
    handed        \* page -> [head, tail, file, header, offset, next, told] that the tool hands out;
                  \* told: it says that there is more of the page than this

contextvars == <<contextWish, bounded, handed>>

Unbounded == [texts |-> <<>>, shares |-> <<>>, spans |-> <<>>, stored |-> <<>>, status |-> "none", warnings |-> {}]

-----------------------------------------------------------------------------
(* The plan                                                                *)

MaxUrls   == Min({Max({1, contextWish.maxUrls}), Max({1, contextWish.siteUrls}), HardMaxUrls})
Budget    == Min({MaxContext, Max({MinContext, contextWish.budget})})
Processed == SubSeq(contextWish.pages, 1, Min({MaxUrls, Len(contextWish.pages)}))
Omitted   == Len(contextWish.pages) - Len(Processed)

SumOf(values) ==
    LET sum[k \in 0 .. Len(values)] == IF k = 0 THEN 0 ELSE sum[k - 1] + values[k]
    IN  sum[Len(values)]

\* Mutant: everyone may have the share, whether it is needed or not.
EvenRound(lengths, budget, dealt) ==
    LET share == budget \div Cardinality(dealt.active)
    IN [given |-> [i \in DOMAIN lengths |-> IF lengths[i] < share THEN lengths[i] ELSE share], active |-> {}]

\* One round of _fair_share_allocations: who needs no more than an even share gets it all,
\* and when nobody is content with one, the rest is dealt out, the first getting one more.
ShareRound(lengths, budget, dealt) ==
    LET left     == budget - SumOf(dealt.given)
        share    == left \div Cardinality(dealt.active)
        extra    == left % Cardinality(dealt.active)
        content  == {i \in dealt.active : lengths[i] - dealt.given[i] <= share}
        place(i) == Cardinality({j \in dealt.active : j < i})
    IN IF content # {}
       THEN [given |-> [i \in DOMAIN lengths |-> IF i \in content THEN lengths[i] ELSE dealt.given[i]],
             active |-> dealt.active \ content]
       ELSE [given |-> [i \in DOMAIN lengths |->
                           dealt.given[i] + (IF i \notin dealt.active THEN 0 ELSE IF place(i) < extra THEN share + 1 ELSE share)],
             active |-> {}]

\* The rounds go on while somebody wants more and something is left.
FairShares(lengths, budget) ==
    LET dealt[k \in 0 .. Len(lengths)] ==
            IF k = 0 THEN [given |-> [i \in DOMAIN lengths |-> 0], active |-> DOMAIN lengths]
            ELSE IF dealt[k - 1].active = {} \/ SumOf(dealt[k - 1].given) >= budget THEN dealt[k - 1]
            ELSE ShareRound(lengths, budget, dealt[k - 1])
    IN IF SumOf(lengths) <= budget THEN lengths ELSE dealt[Len(lengths)].given

-----------------------------------------------------------------------------
(* The bounded response                                                    *)

\* Which passages are in the part that is shown.
InView(spans, shown) == [k \in DOMAIN spans |-> [range |-> spans[k], within |-> spans[k][2] <= shown]]

\* apply_bounded_context; kept: the cut pages whose text the store took.
Bound ==
    /\ bounded.status = "none"
    /\ LET pages  == Processed
           shares == FairShares([i \in DOMAIN pages |-> Len(pages[i])], Budget)
           cut    == {i \in DOMAIN pages : Len(pages[i]) > shares[i]}
       IN \E kept \in SUBSET cut :
             bounded' = [texts  |-> [i \in DOMAIN pages |-> SubSeq(pages[i], 1, shares[i])],
                         shares |-> shares,
                         spans  |-> [i \in DOMAIN pages |->
                                        IF ~contextWish.spans THEN <<>>
                                        ELSE InView(SelectSpans(pages[i], contextWish.query), Min({Len(pages[i]), shares[i]}))],
                         stored |-> [i \in cut |-> i \in kept],
                         status |-> IF Omitted > 0 \/ cut # {} THEN "degraded" ELSE "ok",
                         warnings |-> (IF Omitted > 0 THEN {"urls_omitted"} ELSE {})
                                 \cup (IF cut # {} THEN {"truncated"} ELSE {})
                                 \cup (IF cut # kept THEN {"full_text_unavailable"} ELSE {})]
    /\ UNCHANGED <<contextWish, handed>>

-----------------------------------------------------------------------------
(* What the tool hands to the model                                        *)

Stripped(text, ends) ==
    LET solid == Solid(text, 0, Len(text))
    IN IF ends = "right" THEN SubSeq(text, 1, IF solid = {} THEN 0 ELSE Max(solid) + 1)
       ELSE IF solid = {} THEN <<>> ELSE SubSeq(text, Min(solid) + 1, Len(text))

Newlines(text) == Cardinality({i \in DOMAIN text : text[i] = Newline})

\* _split_extract_content: the head and the tail of a text that is too long.
HeadChars == Min({Max({1, (2 * HostLimit) \div 3}), HostLimit - 1})
TailChars == Min({Max({1, HostLimit \div 5}), Max({1, HostLimit - HeadChars})})
HeadAndTail(text) ==
    IF HeadChars + TailChars >= Len(text) THEN [head |-> text, tail |-> <<>>]
    ELSE [head |-> Stripped(SubSeq(text, 1, HeadChars), "right"),
          tail |-> Stripped(SubSeq(text, Len(text) - TailChars + 1, Len(text)), "left")]

\* A text the engine has cut already: the file starts with a line about it.  The second
\* offset is for what comes after the shown tail.
ToldOfCut(text, hasFile) ==
    LET parts == IF Len(text) > HostLimit THEN HeadAndTail(text) ELSE [head |-> text, tail |-> <<>>]
        line  == (IF Len(text) > HostLimit THEN Newlines(parts.head) ELSE Newlines(text)) + 1
    IN [head |-> parts.head, tail |-> parts.tail, file |-> hasFile, header |-> 1, offset |-> line + 1,
        next |-> IF parts.tail = <<>> THEN 0 ELSE Newlines(text) + 2, told |-> TRUE]

\* A whole text that is too long for the tool, which stores it itself.
ToldOfLong(text, hasFile) ==
    LET parts == HeadAndTail(text)
    IN [head |-> parts.head, tail |-> parts.tail, file |-> hasFile, header |-> 0, offset |-> Newlines(parts.head) + 1,
        next |-> 0, told |-> TRUE]

TellPages ==
    /\ bounded.status # "none" /\ handed = <<>>
    /\ \E hostFiles \in SUBSET DOMAIN bounded.texts :
          handed' = [i \in DOMAIN bounded.texts |->
                      LET text == bounded.texts[i]
                      IN IF i \in DOMAIN bounded.stored THEN ToldOfCut(text, bounded.stored[i])
                         ELSE IF Len(text) <= HostLimit
                              THEN [head |-> text, tail |-> <<>>, file |-> FALSE, header |-> 0, offset |-> 0, next |-> 0, told |-> FALSE]
                         ELSE ToldOfLong(text, i \in hostFiles)]
    /\ UNCHANGED <<contextWish, bounded>>

ContextInit == contextWish \in ContextRequests /\ bounded = Unbounded /\ handed = <<>>
ContextNext == Bound \/ TellPages
ContextSpec == ContextInit /\ [][ContextNext]_contextvars

-----------------------------------------------------------------------------
\* Everything of the budget that is needed is used, nobody gets more than needed, and a page
\* that was cut has as much as any other but for one character (_fair_share_allocations).
SharesFair(lengths, shares, budget) ==
    /\ SumOf(shares) = Min({budget, SumOf(lengths)})
    /\ \A i \in DOMAIN shares : shares[i] <= lengths[i]
    /\ \A i, j \in DOMAIN shares : shares[i] < lengths[i] => shares[j] <= shares[i] + 1 /\ (i < j => shares[j] <= shares[i])

\* The line of the file, counted from 1, on which a character of the page is.
FileLine(page, i, header) == Newlines(SubSeq(page, 1, i - 1)) + 1 + header

\* The words of a page that are neither shown nor in the stored file from the given lines on.
Unreachable(page, t) ==
    {i \in DOMAIN page :
        /\ page[i] \notin Whites /\ i > Len(t.head)
        /\ FileLine(page, i, t.header) < t.offset}

\* The pages' texts keep to the budget and share it fairly; passages stand and say truly
\* whether they are in the shown part; whoever follows the tool's hints reads every word of
\* a page whose text was stored; a cut or an omission is never silent.
ContextSound ==
    bounded.status # "none" =>
        /\ SharesFair([i \in DOMAIN bounded.texts |-> Len(Processed[i])], bounded.shares, Budget)
        /\ (bounded.status = "degraded") <=> (Omitted > 0 \/ \E i \in DOMAIN bounded.texts : bounded.texts[i] # Processed[i])
        /\ bounded.status = "degraded" => bounded.warnings \cap {"urls_omitted", "truncated"} # {}
        /\ contextWish.spans => \A i \in DOMAIN bounded.texts :
              /\ SpansStand(Processed[i], contextWish.query, [k \in DOMAIN bounded.spans[i] |-> bounded.spans[i][k].range])
              /\ \A k \in DOMAIN bounded.spans[i] :
                    bounded.spans[i][k].within <=> bounded.spans[i][k].range[2] <= Len(bounded.texts[i])
        /\ \A i \in DOMAIN handed :
              IF handed[i].file THEN
                  /\ Unreachable(Processed[i], handed[i]) = {}
                  /\ handed[i].next # 0 => \A k \in Len(bounded.texts[i]) + 1 .. Len(Processed[i]) :
                                           FileLine(Processed[i], k, 1) >= handed[i].next
              ELSE ~handed[i].told => handed[i].head = Processed[i]
=============================================================================
