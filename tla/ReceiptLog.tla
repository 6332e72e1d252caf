----------------------------- MODULE ReceiptLog -----------------------------
(***************************************************************************)
(* What the operator receipt journal promises: an append-only log with a     *)
(* retention rule.  A receipt appears at the end; it leaves only because it  *)
(* has expired, because the log exceeded a limit and everything older than   *)
(* it left too, or because its append never succeeded.                       *)
(***************************************************************************)
EXTENDS Integers, Sublists, SequencesExt

CONSTANTS
    Receipts,    \* the receipts that may be written
    SizeOf,      \* their encoded sizes
    MaxRecords, RecordSlack,  \* the limit, and what compaction trims below it
    MaxBytes, ByteSlack,
    TTL

VARIABLES
    log,    \* the receipts in the log, oldest first
    sure,   \* the receipts whose append has returned true
    stamp,  \* when each receipt was made
    clock

logvars == <<log, sure, stamp, clock>>

-----------------------------------------------------------------------------
Live(r)  == stamp[r] >= clock - TTL
Bytes(s) == Total(SizeOf, s)
Within(s, records, bytes) == Len(s) <= records /\ Bytes(s) <= bytes
From(s, k) == SubSeq(s, k, Len(s))

\* `kept` is what retention may leave of s: the live receipts, or if those are over a
\* limit the newest of them, and no fewer than fit below the trimmed limits.
Retains(s, kept) ==
    LET live == Among(s, {r \in Receipts : Live(r)}) IN
    \/ kept = live /\ Within(live, MaxRecords, MaxBytes)
    \/ /\ ~ Within(live, MaxRecords, MaxBytes)
       /\ \E k \in 2 .. Len(live) + 1 :
             /\ kept = From(live, k)
             /\ Within(kept, MaxRecords, MaxBytes)
             /\ ~ Within(From(live, k - 1), MaxRecords - RecordSlack, MaxBytes - ByteSlack)

LogInit ==
    /\ log = <<>>
    /\ sure = {}
    /\ clock = 0
    /\ stamp \in [Receipts -> {0}]

Make(r) == stamp' = [stamp EXCEPT ![r] = clock] /\ UNCHANGED <<log, sure, clock>>

Add(r)        == log' = Append(log, r)            /\ UNCHANGED <<sure, stamp, clock>>
AddTrimmed(r) == Retains(Append(log, r), log')    /\ UNCHANGED <<sure, stamp, clock>>
Compact       == Retains(log, log')               /\ UNCHANGED <<sure, stamp, clock>>

\* An append that fails may take its receipt back, as long as it has not returned true.
Withdraw ==
    /\ log # <<>>
    /\ Last(log) \notin sure
    /\ log' = Front(log)
    /\ UNCHANGED <<sure, stamp, clock>>

Acknowledge(r) ==
    /\ r \in ToSet(log) \/ ~ Live(r) \/ ~ Within(<<r>>, MaxRecords - RecordSlack, MaxBytes - ByteSlack)
    /\ sure' = sure \cup {r}
    /\ UNCHANGED <<log, stamp, clock>>

Age == clock' = clock + 1 /\ UNCHANGED <<log, sure, stamp>>

LogNext ==
    \/ \E r \in Receipts : Make(r) \/ Add(r) \/ AddTrimmed(r) \/ Acknowledge(r)
    \/ Compact \/ Withdraw \/ Age

LogSpec == LogInit /\ [][LogNext]_logvars
=============================================================================
