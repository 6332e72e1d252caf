----------------------------- MODULE SearchEvidence -----------------------------
(***************************************************************************)
(* How a DonSeTch search answer becomes rows (providers.d/donsetch.py): the   *)
(* hits are structured data with a rank and a reference, their titles and     *)
(* snippets come as text, line by line, and are bound to a hit through the    *)
(* rank and the reference of a header line.  Hits outside the asked domains   *)
(* are dropped after the binding.                                           *)
(***************************************************************************)
EXTENDS Naturals, FiniteSets

CONSTANTS
    HitCount,     \* the structured results are hits 1 .. HitCount
    Ranks,        \* the ranks a header may carry
    MaxText       \* bound on the lines of the text

ASSUME EvidenceAssumption == HitCount \in Nat /\ Ranks \subseteq Nat /\ MaxText \in Nat

VARIABLES
    rankOf,     \* [1 .. HitCount -> the rank of each hit], all different
    allowedHits,    \* the hits inside the asked domains
    current,    \* the header in effect for the reader of the text: [rank, about]
    parser,     \* current_rank, or 0
    evidence,   \* [Ranks -> [title, snippet]]: the hits the bound lines are about
    textLines,  \* bound: lines read
    projected   \* the rows: [hit, position, evidence], once the text is read; a row carries its place

evidencevars == <<rankOf, allowedHits, current, parser, evidence, textLines, projected>>

Hits == 1 .. HitCount
Unbound == 0
NoText0 == [title |-> Unbound, snippet |-> {}]
Declared == {rankOf[h] : h \in Hits}
HitAt(r) == CHOOSE h \in Hits : rankOf[h] = r

\* Mutant: a header is bound by its rank alone.
BindsByRank(r, about) == r \in Declared

\* urls_by_rank and handles_by_rank: the reference must be the one of the rank's hit.
Binds(r, about) == r \in Declared /\ about = HitAt(r)

ReadText == textLines < MaxText /\ projected = {} /\ textLines' = textLines + 1

\* "1. reference : title": about is the hit whose reference it is.
HeaderLine(r, about) ==
    /\ ReadText /\ current' = about
    /\ IF Binds(r, about)
       THEN parser' = r /\ evidence' = [evidence EXCEPT ![r] = [title |-> about, snippet |-> {}]]
       ELSE parser' = Unbound /\ UNCHANGED evidence
    /\ UNCHANGED <<rankOf, allowedHits, projected>>

\* An indented line continues the hit above it.
SnippetLine ==
    /\ ReadText
    /\ evidence' = IF parser = Unbound THEN evidence
                   ELSE [evidence EXCEPT ![parser].snippet = @ \cup {current}]
    /\ UNCHANGED <<rankOf, allowedHits, current, parser, projected>>

\* A footer ends the hit; what follows is about none.
FooterLine ==
    /\ ReadText /\ parser' = Unbound /\ current' = Unbound
    /\ UNCHANGED <<rankOf, allowedHits, evidence, projected>>

\* A line that is not indented and no header is ignored.
OtherLine ==
    /\ ReadText
    /\ UNCHANGED <<rankOf, allowedHits, current, parser, evidence, projected>>

RowOf(h) == [hit |-> h, position |-> rankOf[h], evidence |-> evidence[rankOf[h]]]
ProjectedRows == {RowOf(h) : h \in allowedHits}

ProjectHits ==
    /\ projected = {} /\ allowedHits # {} /\ projected' = ProjectedRows
    /\ UNCHANGED <<rankOf, allowedHits, current, parser, evidence, textLines>>

EvidenceInit ==
    /\ rankOf \in {f \in [Hits -> Ranks \ {0}] : \A g, h \in Hits : g # h => f[g] # f[h]}
    /\ allowedHits \in SUBSET Hits
    /\ current = Unbound /\ parser = Unbound /\ textLines = 0 /\ projected = {}
    /\ evidence = [r \in Ranks |-> NoText0]

EvidenceNext ==
    \/ \E r \in Ranks, about \in Hits \cup {Unbound} : HeaderLine(r, about)
    \/ SnippetLine \/ FooterLine \/ OtherLine \/ ProjectHits

EvidenceSpec == EvidenceInit /\ [][EvidenceNext]_evidencevars

-----------------------------------------------------------------------------
\* A row carries the title and the snippet lines of its own hit and of no other, whatever
\* ranks the headers carry and wherever the text breaks off; a hit dropped by the domain
\* filter takes its evidence with it.
EvidenceIsOwn ==
    \A row \in projected :
        /\ row.hit \in allowedHits
        /\ row.evidence.title \in {Unbound, row.hit} /\ row.evidence.snippet \subseteq {row.hit}
=============================================================================
