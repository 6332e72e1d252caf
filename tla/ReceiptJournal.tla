--------------------------- MODULE ReceiptJournal ---------------------------
(***************************************************************************)
(* The operator receipt journal: one file of lines, appended to by every     *)
(* thread and process of the host under one advisory lock.  The lock goes    *)
(* when its holder dies, so the holder's steps are kept apart: it may die,   *)
(* or the disk may refuse it, between any two of them.                       *)
(*                                                                         *)
(* A line is a receipt or `Foreign`: a line of another program, or two lines *)
(* run together.  The last line may have no newline yet: "torn" if it does   *)
(* not parse, "whole" if only the newline is missing.                        *)
(***************************************************************************)
EXTENDS Integers, Sublists

CONSTANTS
    Receipts,    \* the receipts that may be written
    Foreign,     \* a line this version does not own
    NoReceipt,   \* no receipt: the holder is a load, the file ends in a newline
    SizeOf,      \* the encoded size of a line
    MaxRecords, RecordSlack,  \* the limit, and what compaction trims below it
    MaxBytes, ByteSlack,
    TTL,         \* ttl_seconds, in ticks
    MaxClock,    \* bound on the clock
    MaxForeign   \* bound on the lines of other programs

ASSUME JournalAssumption ==
    /\ MaxRecords \in Nat \ {0} /\ RecordSlack \in 0 .. MaxRecords
    /\ MaxBytes \in Nat /\ ByteSlack \in 0 .. MaxBytes
    /\ TTL \in Nat /\ MaxClock \in Nat /\ MaxForeign \in Nat
    /\ SizeOf \in [Receipts \cup {Foreign} -> Nat]
    /\ Foreign \notin Receipts /\ NoReceipt \notin Receipts /\ Foreign # NoReceipt

VARIABLES
    journal,   \* [there, lines, tail, of]: receipts.jsonl, its unended line and whose it is
    writer,    \* [step, rec, before]: the holder of the lock; `before` is the file it found
    fate,      \* [Receipts -> Fates]
    stamp,     \* [Receipts -> Nat]: the timestamp of a receipt
    clock,
    alien,     \* how many lines other programs wrote to the file
    uncut      \* an append could not cut its unfinished write back

jvars == <<journal, writer, fate, stamp, clock, alien, uncut>>

Fates == {"new", "waiting", "busy", "stored", "refused", "lost"}
Steps == {"free", "fast", "torn", "whole", "ended", "read", "replaced"}
Free  == [step |-> "free", rec |-> NoReceipt, before |-> <<>>]
Ended(lines) == [there |-> TRUE, lines |-> lines, tail |-> "none", of |-> NoReceipt]

-----------------------------------------------------------------------------
LiveNow(r)  == stamp[r] >= clock - TTL
Unexpired   == {r \in Receipts : LiveNow(r)}
BytesOf(s)  == Total(SizeOf, s)
Newest(s, n) == SubSeq(s, Len(s) - n + 1, Len(s))
Owned(s)     == \A i \in 1 .. Len(s) : s[i] \in Receipts

\* Faulty: every unended last line is dropped, the complete one as well.
ReadableEnded == journal.lines

\* _without_torn_tail: a fragment is dropped, a line that only lacks its newline stays.
Readable == IF journal.tail = "whole" THEN Append(journal.lines, journal.of) ELSE journal.lines

\* Faulty: the record limit keeps the oldest receipts.
RetainedOldest(s, records, bytes) ==
    LET live == Among(s, Unexpired)
    IN IF Len(live) > records THEN SubSeq(live, 1, records) ELSE live

\* _retained: expired receipts go, then the oldest beyond the record limit, then the
\* oldest until the rest fits; a limit that is exceeded is trimmed to `records`, `bytes`.
Retained(s, records, bytes) ==
    LET live  == Among(s, Unexpired)
        few   == IF Len(live) > MaxRecords THEN Newest(live, records) ELSE live
        limit == IF BytesOf(few) > MaxBytes THEN bytes ELSE MaxBytes
        fit   == {n \in 0 .. Len(few) : BytesOf(Newest(few, n)) <= limit}
    IN Newest(few, CHOOSE n \in fit : \A m \in fit : m <= n)

-----------------------------------------------------------------------------
JournalInit ==
    /\ journal = [there |-> FALSE, lines |-> <<>>, tail |-> "none", of |-> NoReceipt]
    /\ writer = Free
    /\ fate = [r \in Receipts |-> "new"]
    /\ stamp = [r \in Receipts |-> 0]
    /\ clock = 0 /\ alien = 0 /\ uncut = FALSE

\* A response is projected to its receipt; its append still has to get the lock.
MakeReceipt(r) ==
    /\ fate[r] = "new"
    /\ fate' = [fate EXCEPT ![r] = "waiting"]
    /\ stamp' = [stamp EXCEPT ![r] = clock]
    /\ UNCHANGED <<journal, writer, clock, alien, uncut>>

LockToAppend(r) ==
    /\ writer = Free /\ fate[r] = "waiting"
    /\ writer' = [step |-> "fast", rec |-> r, before |-> journal.lines]
    /\ fate' = [fate EXCEPT ![r] = "busy"]
    /\ UNCHANGED <<journal, stamp, clock, alien, uncut>>

LockToLoad ==
    /\ writer = Free
    /\ writer' = [step |-> "read", rec |-> NoReceipt, before |-> journal.lines]
    /\ UNCHANGED <<journal, fate, stamp, clock, alien, uncut>>

\* Faulty: a line is appended behind whatever the file ends in.
FastAnyEnd(r) ==
    /\ LiveNow(r) /\ journal.there
    /\ Len(journal.lines) + 1 <= MaxRecords
    /\ BytesOf(journal.lines) + SizeOf[r] <= MaxBytes

\* _try_fast_append: nothing expires, no limit is reached, the file is plainly ours.
Fast(r) ==
    /\ LiveNow(r) /\ journal.there /\ journal.tail = "none"
    /\ Len(journal.lines) + 1 <= MaxRecords
    /\ BytesOf(journal.lines) + SizeOf[r] <= MaxBytes
    /\ journal.lines # <<>> => /\ Head(journal.lines) \in Receipts
                               /\ LiveNow(Head(journal.lines))

At(step) == writer' = [writer EXCEPT !.step = step]

\* The first bytes reach the file; behind an unended line they make it unreadable.
WriteSome ==
    /\ writer.step = "fast" /\ Fast(writer.rec)
    /\ journal' = IF journal.tail = "none"
                  THEN [journal EXCEPT !.tail = "torn", !.of = writer.rec]
                  ELSE Ended(Append(journal.lines, Foreign))
    /\ At("torn")
    /\ UNCHANGED <<fate, stamp, clock, alien, uncut>>

WriteLine ==
    /\ writer.step = "torn"
    /\ journal' = IF journal.tail = "torn" THEN [journal EXCEPT !.tail = "whole"] ELSE journal
    /\ At("whole")
    /\ UNCHANGED <<fate, stamp, clock, alien, uncut>>

EndLine ==
    /\ writer.step = "whole"
    /\ journal' = IF journal.tail = "whole" THEN Ended(Append(journal.lines, journal.of)) ELSE journal
    /\ At("ended")
    /\ UNCHANGED <<fate, stamp, clock, alien, uncut>>

TooSlow ==
    /\ writer.step = "fast" /\ ~ Fast(writer.rec)
    /\ At("read")
    /\ UNCHANGED <<journal, fate, stamp, clock, alien, uncut>>

\* ftruncate to the length the file had; it may fail as well.
CutBack(ok) ==
    /\ journal' = IF ok THEN Ended(writer.before) ELSE journal
    /\ uncut' = (uncut \/ ~ ok)

\* write or fsync fails: the file is cut back and the append goes on to the rewrite.
WriteFails ==
    /\ writer.step \in {"torn", "whole", "ended"}
    /\ \E ok \in BOOLEAN : CutBack(ok)
    /\ At("read")
    /\ UNCHANGED <<fate, stamp, clock, alien>>

\* The lock is given up; an append has its outcome.
Unlock(outcome) ==
    /\ writer' = Free
    /\ fate' = [r \in Receipts |-> IF r = writer.rec THEN outcome ELSE fate[r]]

Kept == IF writer.rec = NoReceipt THEN Retained(Readable, MaxRecords, MaxBytes)
        ELSE Retained(Append(Readable, writer.rec), MaxRecords - RecordSlack, MaxBytes - ByteSlack)

\* The temporary file takes the journal's place (_rewrite); a file with a line that is
\* not ours is not touched, and neither is one a load finds in order.
Replace ==
    /\ writer.step = "read"
    /\ Owned(Readable)
    /\ writer.rec = NoReceipt => Kept # Readable
    /\ journal' = Ended(Kept)
    /\ At("replaced")
    /\ UNCHANGED <<fate, stamp, clock, alien, uncut>>

Succeed ==
    /\ \/ writer.step \in {"ended", "replaced"}
       \/ writer.step = "read" /\ writer.rec = NoReceipt
    /\ Unlock("stored")
    /\ UNCHANGED <<journal, stamp, clock, alien, uncut>>

\* Not our file, or an OSError anywhere between the read and the last fsync.
GiveUpAppend ==
    /\ writer.step \in {"read", "replaced"}
    /\ Unlock("refused")
    /\ UNCHANGED <<journal, stamp, clock, alien, uncut>>

\* The process dies with the lock; the operating system gives the lock back.
Die ==
    /\ writer # Free
    /\ Unlock("lost")
    /\ UNCHANGED <<journal, stamp, clock, alien, uncut>>

\* Another program, or another version of this one, adds a line of its own.
AddForeign ==
    /\ writer = Free /\ journal.tail = "none" /\ alien < MaxForeign
    /\ journal' = Ended(Append(journal.lines, Foreign))
    /\ alien' = alien + 1
    /\ UNCHANGED <<writer, fate, stamp, clock, uncut>>

JournalTick ==
    /\ clock < MaxClock
    /\ clock' = clock + 1
    /\ UNCHANGED <<journal, writer, fate, stamp, alien, uncut>>

JournalNext ==
    \/ \E r \in Receipts : MakeReceipt(r) \/ LockToAppend(r)
    \/ LockToLoad \/ WriteSome \/ WriteLine \/ EndLine \/ TooSlow \/ WriteFails
    \/ Replace \/ Succeed \/ GiveUpAppend \/ Die \/ AddForeign \/ JournalTick

JournalSpec == JournalInit /\ [][JournalNext]_jvars

-----------------------------------------------------------------------------
\* The file, its writer and the receipts stay in their domains (operator_receipts_v3.py).
JournalTypeOK ==
    /\ journal \in [there : BOOLEAN, lines : Seq(Receipts \cup {Foreign}),
                    tail : {"none", "torn", "whole"}, of : Receipts \cup {NoReceipt}]
    /\ writer \in [step : Steps, rec : Receipts \cup {NoReceipt},
                   before : Seq(Receipts \cup {Foreign})]
    /\ fate \in [Receipts -> Fates]
    /\ stamp \in [Receipts -> Nat]
    /\ clock \in Nat /\ alien \in Nat /\ uncut \in BOOLEAN

ForeignLines(s) == {i \in DOMAIN s : s[i] = Foreign}

\* No append ever runs into an unfinished line and makes the journal unreadable for
\* good, and no compaction removes a line of another program: the lines that are not
\* ours are exactly those others wrote (_try_fast_append, _read_all_owned).
ForeignExact == Cardinality(ForeignLines(journal.lines)) = alien

\* A receipt is in the file at most once, however its append failed or died, unless the
\* file could not even be cut back (_try_fast_append, then the full rewrite).
NoReceiptTwice ==
    ~ uncut => \A i, j \in 1 .. Len(Readable) :
                  Readable[i] = Readable[j] /\ Readable[i] # Foreign => i = j

\* The file holds every line of other programs and every receipt exactly once.
JournalExact == ForeignExact /\ NoReceiptTwice

\* The journal is the log of ReceiptLog: no receipt whose append returned true leaves it
\* before it expires or newer ones need its place, through crashes and failed writes.
Log == INSTANCE ReceiptLog WITH
          log  <- Among(Readable, Receipts),
          sure <- {r \in Receipts : fate[r] = "stored"}
FollowsLog == Log!LogSpec
=============================================================================
