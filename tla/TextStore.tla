------------------------------- MODULE TextStore -------------------------------
(***************************************************************************)
(* FullTextStore of bounded_context_v3.py: the full texts of extracted pages  *)
(* in a directory that several processes write, read and trim at once.  A     *)
(* text is stored under a name made of its URL and its digest, so that an     *)
(* entry never changes; it is published by a hard link, which fails if the    *)
(* name is taken, and evicted by age and by total size.                      *)
(***************************************************************************)
EXTENDS Integers, FiniteSets

CONSTANTS
    Storers,      \* calls of store, of any process
    Texts,        \* (URL, digest) pairs; their order is that of their names
    TextSize,     \* [Texts -> bytes of the entry]
    TextTTL,      \* ttl_seconds, in ticks
    MaxTextBytes, \* max_bytes
    MaxIntruders, \* bound on foreign files
    NoText

ASSUME TextAssumption ==
    /\ Texts \subseteq Nat /\ IsFiniteSet(Texts) /\ NoText \notin Texts
    /\ TextSize \in [Texts -> Nat] /\ TextTTL \in Nat /\ MaxTextBytes \in Nat

VARIABLES
    entry,     \* [Texts -> [kind, age]]: the file under each name
    temps,     \* [Storers -> the temporary file of each: "none", "young", "old"]
    storing,   \* [Storers -> [step, text, todo, seen]]: seen are the listed entries and their ages
    reading,   \* the text a lookup has judged expired, or NoText
    unswept    \* a storer died between its publication and its listing

textvars == <<entry, temps, storing, reading, unswept>>

NoEntry == [kind |-> "none", age |-> 0]
AtRest  == [step |-> "idle", text |-> NoText, todo |-> {}, seen |-> {}]

Exists(k)  == entry[k].kind # "none"
Stored(k)  == entry[k].kind = "ours"       \* _owned, and _owned_digest is the text's
OwnTexts       == {k \in Texts : Stored(k)}
TextBytes(S)   == Cardinality(UNION {{k} \X (1 .. TextSize[k]) : k \in S})

-----------------------------------------------------------------------------
TextInit ==
    /\ entry \in [Texts -> {NoEntry, [kind |-> "foreign", age |-> 0]}]
    /\ Cardinality({k \in Texts : Exists(k)}) <= MaxIntruders
    /\ temps = [w \in Storers |-> "none"]
    /\ storing = [w \in Storers |-> AtRest]
    /\ reading = NoText /\ unswept = FALSE

InStore(w, step) == storing[w].step = step /\ UNCHANGED reading
GoOn(w, step)    == storing' = [storing EXCEPT ![w].step = step]
StoreEnds(w)     == storing' = [storing EXCEPT ![w] = AtRest]

\* The first look at the name.  A foreign file under the old name of the URL refuses the
\* text as well; the file is not written to, so it is left out here.
StartStore(w, k) ==
    /\ InStore(w, "idle") /\ temps[w] = "none"
    /\ storing' = [storing EXCEPT ![w] = [AtRest EXCEPT
                     !.step = IF Exists(k) THEN "guard" ELSE "decide", !.text = k]]
    /\ UNCHANGED <<entry, temps, unswept>>

\* "refusing to overwrite mismatched full-text entry"; also when it has just been evicted.
Guard(w) ==
    /\ InStore(w, "guard")
    /\ IF Stored(storing[w].text) THEN GoOn(w, "decide") ELSE StoreEnds(w)
    /\ UNCHANGED <<entry, temps, unswept>>

\* _atomic_write_owned begins: the text is written to a temporary file.
Decide(w) ==
    /\ InStore(w, "decide")
    /\ IF Exists(storing[w].text)
       THEN GoOn(w, "verify") /\ UNCHANGED temps
       ELSE GoOn(w, "publish") /\ temps' = [temps EXCEPT ![w] = "young"]
    /\ UNCHANGED <<entry, unswept>>

\* Mutant: the link replaces what is there.
LinkReplaces(k) == TRUE
CanLink(k) == ~Exists(k)

\* os.link, then the temporary file is removed.  The link fails if another process has
\* taken the name; if it has removed the temporary file as an orphan, the store gives up.
Publish(w) ==
    LET k == storing[w].text IN
    /\ InStore(w, "publish")
    /\ temps' = [temps EXCEPT ![w] = "none"]
    /\ entry' = IF temps[w] # "none" /\ CanLink(k)
                THEN [entry EXCEPT ![k] = [kind |-> "ours", age |-> 0]] ELSE entry
    /\ IF temps[w] = "none" THEN StoreEnds(w) ELSE GoOn(w, "verify")
    /\ UNCHANGED unswept

Verify(w) ==
    /\ InStore(w, "verify")
    /\ IF Stored(storing[w].text) THEN GoOn(w, "sweep") ELSE StoreEnds(w)
    /\ UNCHANGED <<entry, temps, unswept>>

\* Mutant: the new text is not counted.
ListedOthers(w) ==
    storing' = [storing EXCEPT ![w].step = "list", ![w].todo = OwnTexts \ {storing[w].text}]
Listed(w) == storing' = [storing EXCEPT ![w].step = "list", ![w].todo = OwnTexts]

\* cleanup_orphans, of temporary files of some age, and the glob of enforce_retention.
Sweep(w) ==
    /\ InStore(w, "sweep")
    /\ temps' = [v \in Storers |-> IF temps[v] = "old" THEN "none" ELSE temps[v]]
    /\ Listed(w)
    /\ unswept' = FALSE
    /\ UNCHANGED entry

\* One listed file: gone, too old and unlinked, or noted with its age.
Stat(w) ==
    /\ InStore(w, "list")
    /\ \E k \in storing[w].todo :
          LET left == storing[w].todo \ {k}  old == entry[k].age > TextTTL IN
          /\ entry' = IF Exists(k) /\ old THEN [entry EXCEPT ![k] = NoEntry] ELSE entry
          /\ storing' = [storing EXCEPT ![w].todo = left,
                           ![w].seen = IF Exists(k) /\ ~old THEN @ \cup {<<entry[k].age, k>>} ELSE @]
    /\ UNCHANGED <<temps, unswept>>

\* The oldest of the noted files is unlinked while they exceed the limit.
Evict(w) ==
    LET seen == storing[w].seen
        first == CHOOSE a \in seen : \A b \in seen : a[1] > b[1] \/ (a[1] = b[1] /\ a[2] <= b[2])
    IN
    /\ InStore(w, "list") /\ storing[w].todo = {}
    /\ TextBytes({a[2] : a \in seen}) > MaxTextBytes
    /\ entry' = [entry EXCEPT ![first[2]] = NoEntry]
    /\ storing' = [storing EXCEPT ![w].seen = @ \ {first}]
    /\ UNCHANGED <<temps, unswept>>

\* The last look decides whether the caller is given a reference.
EndStore(w) ==
    /\ InStore(w, "list") /\ storing[w].todo = {}
    /\ TextBytes({a[2] : a \in storing[w].seen}) <= MaxTextBytes
    /\ StoreEnds(w)
    /\ UNCHANGED <<entry, temps, unswept>>

-----------------------------------------------------------------------------
\* lookup: an entry that is too old is unlinked, after it was judged.
LookUpText(k) ==
    /\ reading = NoText /\ Stored(k) /\ entry[k].age > TextTTL
    /\ reading' = k
    /\ UNCHANGED <<entry, temps, storing, unswept>>

ForgetText ==
    /\ reading # NoText
    /\ entry' = [entry EXCEPT ![reading] = NoEntry] /\ reading' = NoText
    /\ UNCHANGED <<temps, storing, unswept>>

\* A storer dies; its temporary file stays.
DieStoring(w) ==
    /\ storing[w].step # "idle"
    /\ StoreEnds(w)
    /\ unswept' = (unswept \/ storing[w].step \in {"verify", "sweep", "list"})
    /\ UNCHANGED <<entry, temps, reading>>

\* An orphan is swept by the next store, or by an operator (cleanup_orphans without an age).
SweepByHand ==
    /\ \E w \in Storers : temps[w] # "none"
    /\ temps' = [w \in Storers |-> "none"]
    /\ UNCHANGED <<entry, storing, reading, unswept>>

\* Somebody puts another file under a name.
Intrude(k) ==
    /\ ~Exists(k) /\ Cardinality({t \in Texts : entry[t].kind = "foreign"}) < MaxIntruders
    /\ entry' = [entry EXCEPT ![k] = [kind |-> "foreign", age |-> 0]]
    /\ UNCHANGED <<temps, storing, reading, unswept>>

TextTick ==
    /\ entry' = [k \in Texts |-> [entry[k] EXCEPT !.age =
                   IF entry[k].kind = "ours" /\ @ <= TextTTL THEN @ + 1 ELSE @]]
    /\ temps' = [w \in Storers |-> IF temps[w] = "none" THEN "none" ELSE "old"]
    /\ UNCHANGED <<storing, reading, unswept>>

TextNext ==
    \/ \E w \in Storers : \/ \E k \in Texts : StartStore(w, k)
                          \/ Guard(w) \/ Decide(w) \/ Publish(w) \/ Verify(w) \/ Sweep(w)
                          \/ Stat(w) \/ Evict(w) \/ EndStore(w) \/ DieStoring(w)
    \/ \E k \in Texts : LookUpText(k) \/ Intrude(k)
    \/ ForgetText \/ SweepByHand \/ TextTick

TextSpec == TextInit /\ [][TextNext]_textvars

-----------------------------------------------------------------------------
\* When nobody is storing, the entries are within the size limit, whatever the writers
\* listed, published and evicted beside each other: whoever listed last saw every entry.
\* (Until the next store, a writer that died before its listing may have left one too many.)
BoundedWhenQuiet ==
    (\A w \in Storers : storing[w].step = "idle") /\ ~unswept => TextBytes(OwnTexts) <= MaxTextBytes

\* "without replacing an existing path": no publication changes a file that is there,
\* although the name was free when the writer looked.
PublishedBeside ==
    [][\A k \in Texts : entry[k].kind = "foreign" /\ entry'[k].kind # "foreign"
                           => entry'[k].kind = "none"]_textvars
=============================================================================
