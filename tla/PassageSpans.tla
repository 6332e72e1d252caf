------------------------------ MODULE PassageSpans ------------------------------
(***************************************************************************)
(* select_spans of span_extraction_v3.py: which passages of a page answer a    *)
(* query.  A text is a sequence of words and separators, each of length one:   *)
(* words are any other strings, the separators are below.  A passage is a pair  *)
(* <<from, to>> of offsets as the code counts them, from 0 and without the end. *)
(* A query is the sequence of its words.  Scores are in ten-thousandths, each      *)
(* of their parts rounded down.                                                 *)
(***************************************************************************)
EXTENDS Integers, Sequences, FiniteSets, FiniteSetsExt, Functions, Sublists

CONSTANTS
    MaxSpans,       \* max_spans
    MaxSpanChars,   \* max_span_chars
    SectionChars,   \* _MAX_HEADING_SECTION_CHARS
    MaxSections     \* _MAX_HEADING_SECTION_CANDIDATES

ASSUME SpanAssumption == MaxSpans \in Nat /\ MaxSpanChars \in Nat \ {0} /\ SectionChars \in Nat /\ MaxSections \in Nat

BlankChar == "_"
Newline   == "/"
Stop      == "."
Hash      == "#"
Whites    == {BlankChar, Newline}

CharAt(text, i) == text[i + 1]
Solid(text, from, to) == {i \in from .. to - 1 : CharAt(text, i) \notin Whites}
Words(text, span) == {CharAt(text, i) : i \in span[1] .. span[2] - 1} \ (Whites \cup {Stop, Hash})

\* How many of the asked words are in a passage.
HitsIn(text, span, asked) == Cardinality(Words(text, span) \cap asked)

\* _trimmed_candidate, as a set of at most one passage
Trimmed(text, from, to) ==
    LET solid == Solid(text, from, to)
    IN IF solid = {} THEN {} ELSE {<<Min(solid), Max(solid) + 1>>}

\* The next start after a cut.
AfterWhites(text, from, to) ==
    LET solid == Solid(text, from, to) IN IF solid = {} THEN to ELSE Min(solid)

\* Where a piece that starts at cursor ends: at the last white space in its second half, if any.
PieceEnd(text, cursor, to) ==
    LET breaks == {i \in cursor + Max({1, MaxSpanChars \div 2}) .. cursor + MaxSpanChars : i < to /\ CharAt(text, i) \in Whites}
    IN IF cursor + MaxSpanChars >= to THEN to ELSE IF breaks = {} THEN cursor + MaxSpanChars ELSE Max(breaks)

\* _split_long_segment: a piece starts at each value of the cursor.
Pieces(text, from, to) ==
    LET cursor[k \in 0 .. to - from] ==
            IF k = 0 THEN from
            ELSE IF cursor[k - 1] >= to THEN to
            ELSE AfterWhites(text, PieceEnd(text, cursor[k - 1], to), to)
    IN UNION {Trimmed(text, c, PieceEnd(text, c, to)) : c \in {cursor[k] : k \in 0 .. to - from} \ {to}}

\* Consecutive ranges between cuts.
Between(cuts, from, to) ==
    LET marks == {from, to} \cup {c \in cuts : from < c /\ c < to}
    IN {r \in marks \X marks : r[1] < r[2] /\ \A m \in marks : m <= r[1] \/ r[2] <= m}

\* White space with two line ends in it parts paragraphs, white space after a stop sentences.
WhiteRun(text, i) == CHOOSE j \in i .. Len(text) : Solid(text, i, j) = {} /\ (j = Len(text) \/ CharAt(text, j) \notin Whites)
StartsRun(text, i) == CharAt(text, i) \in Whites /\ (i = 0 \/ CharAt(text, i - 1) \notin Whites)
ParagraphCuts(text) ==
    {i \in 0 .. Len(text) - 1 : StartsRun(text, i)
        /\ Cardinality({j \in i .. WhiteRun(text, i) - 1 : CharAt(text, j) = Newline}) >= 2}
SentenceCuts(text) == {i \in 1 .. Len(text) - 1 : CharAt(text, i - 1) = Stop /\ CharAt(text, i) \in Whites}

\* Sentences without the white space at their ends, in pieces if they are too long.
Fitted(text, sentences) ==
    UNION {IF s[2] - s[1] <= MaxSpanChars THEN {s} ELSE Pieces(text, s[1], s[2]) : s \in sentences}

SentencesOf(text, range) ==
    UNION {Fitted(text, Trimmed(text, r[1], r[2])) : r \in Between(SentenceCuts(text), range[1], range[2])}

\* Two neighbours make a passage of their own when they fit.
Neighbours(sentences) ==
    {<<p[1][1], p[2][2]>> :
        p \in {q \in sentences \X sentences :
                  /\ q[1][2] <= q[2][1] /\ q[2][2] - q[1][1] <= MaxSpanChars
                  /\ \A s \in sentences : s[1] <= q[1][1] \/ q[2][1] <= s[1]}}

\* _candidates
WithNeighbours(sentences) == sentences \cup Neighbours(sentences)
PassagesOf(text) ==
    UNION {WithNeighbours(SentencesOf(text, range)) : range \in Between(ParagraphCuts(text), 0, Len(text))}

-----------------------------------------------------------------------------
(* Sections under a heading                                                *)

\* A heading is [start, level, title]: title is the offset where its line ends.
LineEnd(text, i)  == LET ends == {j \in i .. Len(text) - 1 : CharAt(text, j) = Newline} IN IF ends = {} THEN Len(text) ELSE Min(ends)
LevelAt(text, i)  == Max({n \in 0 .. Len(text) - i : \A k \in i .. i + n - 1 : CharAt(text, k) = Hash})
IsHeading(text, i) ==
    /\ CharAt(text, i) = Hash /\ (i = 0 \/ CharAt(text, i - 1) = Newline)
    /\ LET after == i + LevelAt(text, i) IN after = Len(text) \/ CharAt(text, after) \in Whites
Headings(text) == {[start |-> i, level |-> LevelAt(text, i), title |-> LineEnd(text, i)] : i \in {j \in 0 .. Len(text) - 1 : IsHeading(text, j)}}

\* To the next heading that is not below it, and not further than the caps allow.
SectionOf(text, h) ==
    LET ends == {g.start : g \in {x \in Headings(text) : x.start > h.start /\ x.level <= h.level}}
        last == IF ends = {} THEN Len(text) ELSE Min(ends)
    IN Trimmed(text, h.start, Min({last, h.start + Min({MaxSpanChars, SectionChars})}))

\* _heading_section_candidates: the sections whose heading has an asked word and is
\* not cut, the ones with the most such words first.
SectionsOf(text, asked) ==
    LET hits(h) == HitsIn(text, <<h.start, h.title>>, asked)
        whole   == {h \in Headings(text) : hits(h) > 0 /\ \E s \in SectionOf(text, h) : s[2] >= h.title}
        order   == SortedBy(whole, {p \in whole \X whole : hits(p[1]) > hits(p[2]) \/ (hits(p[1]) = hits(p[2]) /\ p[1].start < p[2].start)})
    IN [k \in 1 .. Min({Cardinality(whole), MaxSpans, MaxSections}) |-> CHOOSE s \in SectionOf(text, order[k]) : TRUE]

-----------------------------------------------------------------------------
(* Selection                                                               *)

SpanBefore(a, b) == a[1] < b[1] \/ (a[1] = b[1] /\ a[2] < b[2])
Overlap(a, b) == a[1] < b[2] /\ b[1] < a[2]

\* Where the words of a passage are, and which words follow one another.
WordsAt(text, span) == {i \in span[1] .. span[2] - 1 : CharAt(text, i) \notin Whites \cup {Stop, Hash}}
PairsIn(text, span) ==
    LET places == WordsAt(text, span)
    IN {<<CharAt(text, p[1]), CharAt(text, p[2])>> :
           p \in {q \in places \X places : q[1] < q[2] /\ \A k \in places : k <= q[1] \/ q[2] <= k}}
PairsAsked(query) == {<<query[k], query[k + 1]>> : k \in 1 .. Len(query) - 1}

\* What the parts of a score weigh.
TermWeight   == 40000
PairWeight   == 20000
OftenWeight  == 5000
DenseWeight  == 10000
VariedWeight == 2000
PlaceWeight  == 800

\* A part of a score: have out of so many, of which all together weigh so much.
PartOf(weight, have, of) == (weight * have) \div of

\* Many words in little room, few of them twice.
DensityScore(text, span) ==
    LET count == Cardinality(WordsAt(text, span))
        room  == Max({8, span[2] - span[1]})
    IN PartOf(DenseWeight, Min({room, 2 * Min({count, 80})}), room)
       + PartOf(VariedWeight, Cardinality(Words(text, span)), count)

\* Early in the page.
PositionPrior(text, span) == PartOf(PlaceWeight, Len(text) - span[1], Max({1, Len(text)}))

\* How well a passage answers the words of a query: which of them, which of their pairs and
\* how often.
AnswerScore(text, query, span) ==
    LET asked  == Range(query)
        pairs  == PairsAsked(query)
        places == {i \in WordsAt(text, span) : CharAt(text, i) \in asked}
    IN PartOf(TermWeight, HitsIn(text, span, asked), Cardinality(asked))
       + (IF pairs = {} THEN 0 ELSE PartOf(PairWeight, Cardinality(pairs \cap PairsIn(text, span)), Cardinality(pairs)))
       + PartOf(OftenWeight, Min({Len(query), Cardinality(places)}), Len(query))

\* _lexical_score
LexicalScore(text, query, span) ==
    IF WordsAt(text, span) = {} THEN 0
    ELSE IF query = <<>> THEN DensityScore(text, span) + PositionPrior(text, span)
    ELSE AnswerScore(text, query, span) + DensityScore(text, span) \div 5 + PositionPrior(text, span)

\* Those with the highest score first.
Ranked(text, query, passages) ==
    SortedBy(passages, {p \in passages \X passages :
        LET x == LexicalScore(text, query, p[1])
            y == LexicalScore(text, query, p[2])
        IN x > y \/ (x = y /\ SpanBefore(p[1], p[2]))})

\* Each that overlaps none of those taken before it, until there are enough.
Chosen(offered) ==
    LET taken[k \in 0 .. Len(offered)] ==
            IF k = 0 THEN {}
            ELSE IF Cardinality(taken[k - 1]) >= MaxSpans \/ \E q \in taken[k - 1] : Overlap(offered[k], q) THEN taken[k - 1]
            ELSE taken[k - 1] \cup {offered[k]}
    IN taken[Len(offered)]

\* Sections first, then the best passages.
Selected(text, query) ==
    LET sections == SectionsOf(text, Range(query))
    IN Chosen(sections \o Ranked(text, query, PassagesOf(text) \cup Range(sections)))
SelectSpans(text, query) ==
    LET chosen == Selected(text, query)
    IN SortedBy(chosen, {p \in chosen \X chosen : SpanBefore(p[1], p[2])})

-----------------------------------------------------------------------------
\* As many different words of a query as weigh more, each of them, than all else in a score:
\* with a dozen a single hit counts a third of a point, while place and density give no more
\* than 0.08 and 0.24.
FewWords == 12

\* The chosen passages are in order and apart, within the limits, without white space at
\* their ends; no word of the page is outside every candidate, however it had to be split;
\* and a word of a short query that the page has is in one of them.  (In a longer query one
\* word weighs too little: a dense passage at the start may outrank the only one that has it.)
SpansStand(text, query, spans) ==
    /\ Len(spans) <= MaxSpans
    /\ \A k \in DOMAIN spans :
          /\ 0 <= spans[k][1] /\ spans[k][2] <= Len(text) /\ spans[k][2] - spans[k][1] \in 1 .. MaxSpanChars
          /\ {spans[k][1], spans[k][2] - 1} \subseteq Solid(text, 0, Len(text))
          /\ k > 1 => spans[k - 1][2] <= spans[k][1]
    /\ \A i \in Solid(text, 0, Len(text)) : \E p \in PassagesOf(text) : p[1] <= i /\ i < p[2]
    /\ (Words(text, <<0, Len(text)>>) \cap Range(query) # {} /\ Cardinality(Range(query)) <= FewWords /\ MaxSpans > 0) =>
          \E k \in DOMAIN spans : Words(text, spans[k]) \cap Range(query) # {}
=============================================================================
