---------------------------- MODULE ResponseCache ----------------------------
(***************************************************************************)
(* The v3 response cache: one file per key, shared by every thread and       *)
(* process without a lock.  A file is replaced or removed in one step; what  *)
(* a reader does about a file it has read comes in later steps, when the file*)
(* may be another one.                                                      *)
(*                                                                         *)
(* A file holds an entry [kind, facts, stamp], or no file at all.  Kinds:     *)
(* "entry" is a usable response, "garbage" is not a JSON object or a broken   *)
(* envelope of ours, "misfiled" an envelope of ours under another's name,    *)
(* "foreign" another program's, "outdated" one of an older identity version.*)
(***************************************************************************)
EXTENDS Integers, Sequences

CONSTANTS
    CacheKeys,   \* derive_cache_key: what the responses of a key have in common
    Readers,     \* threads and processes that look up
    NoFile,
    Found,       \* what the directory may hold to begin with, functions from the keys
    MaxSuffix,   \* bound on the quarantine's name suffix
    MaxNow       \* bound on the clock

VARIABLES
    file,    \* [CacheKeys -> content]: the file at the path of a key
    aside,   \* the quarantine, a set of [name : <<key, digest, suffix>>, data : content]
    look,    \* [Readers -> [step, key, data, suffix, age]]: what a reader has read
    now

cachevars == <<file, aside, look, now>>

LookSteps == {"none", "broken", "named", "moving", "same", "expired", "cleared", "hit", "missed"}

AgeOf(c)   == IF c # NoFile /\ now > c.stamp THEN now - c.stamp ELSE 0
Corrupt(c) == c # NoFile /\ c.kind \in {"garbage", "misfiled"}
Ours(c)    == c # NoFile /\ c.kind \in {"entry", "misfiled", "outdated"}
Taken(l)   == {a \in aside : a.name = <<l.key, l.data, l.suffix>>}

Looking(step, key, data) ==
    [step |-> step, key |-> key, data |-> data, suffix |-> 0, age |-> AgeOf(data)]
NoLook == Looking("none", CHOOSE k \in CacheKeys : TRUE, NoFile)
Missed == [NoLook EXCEPT !.step = "missed"]

-----------------------------------------------------------------------------
CacheInit ==
    /\ file \in Found
    /\ aside = {}
    /\ look = [r \in Readers |-> NoLook]
    /\ now = 0

\* Faulty: the allowance for stale answers replaces the lifetime instead of adding to it.
UsableStaleOnly(c, ttl, stale) == IF stale > 0 THEN TRUE ELSE AgeOf(c) <= ttl

Fresh(c, ttl, stale) == AgeOf(c) <= ttl + stale

\* What get makes of the file it has read.
Judged(c, ttl, stale) ==
    IF c = NoFile THEN "missed"
    ELSE IF Corrupt(c) THEN "broken"
    ELSE IF c.kind # "entry" THEN "missed"
    ELSE IF Fresh(c, ttl, stale) THEN "hit" ELSE "expired"

Get(r, k, ttl, stale) ==
    /\ look[r].step = "none"
    /\ LET verdict == Judged(file[k], ttl, stale)
       IN look' = [look EXCEPT ![r] = IF verdict = "missed" THEN Missed ELSE Looking(verdict, k, file[k])]
    /\ UNCHANGED <<file, aside, now>>

\* _quarantine reads the file once more; these bytes make the name it is moved to.
ReadBytes(r) ==
    /\ look[r].step = "broken"
    /\ LET c == file[look[r].key]
       IN look' = [look EXCEPT ![r] = IF c = NoFile THEN Missed ELSE [@ EXCEPT !.step = "named", !.data = c]]
    /\ UNCHANGED <<file, aside, now>>

\* The name is free, or taken by the same bytes, or by others: then the next suffix.
TryName(r) ==
    LET l == look[r] IN
    /\ l.step = "named"
    /\ look' = [look EXCEPT ![r] =
          IF Taken(l) = {} THEN [l EXCEPT !.step = "moving"]
          ELSE IF \E a \in Taken(l) : a.data = l.data THEN [l EXCEPT !.step = "same"]
          ELSE IF l.suffix < MaxSuffix THEN [l EXCEPT !.suffix = l.suffix + 1]
          ELSE Missed]
    /\ UNCHANGED <<file, aside, now>>

\* os.replace: whatever is at the path by now takes the name, whoever has it by now.
MoveAside(r) ==
    LET l == look[r] IN
    /\ l.step = "moving"
    /\ aside' = IF file[l.key] = NoFile THEN aside
                ELSE (aside \ Taken(l))
                       \cup {[name |-> <<l.key, l.data, l.suffix>>, data |-> file[l.key]]}
    /\ file' = [file EXCEPT ![l.key] = NoFile]
    /\ look' = [look EXCEPT ![r] = Missed]
    /\ UNCHANGED now

\* unlink: of an expired entry, of bytes that are in quarantine already, of an entry that
\* clear has found to be ours.
Unlink(r) ==
    /\ look[r].step \in {"expired", "same", "cleared"}
    /\ file' = [file EXCEPT ![look[r].key] = NoFile]
    /\ look' = [look EXCEPT ![r] = IF @.step = "cleared" THEN NoLook ELSE Missed]
    /\ UNCHANGED <<aside, now>>

\* clear comes to a file: only an envelope of ours is removed, in quarantine too.
ClearEntry(r) ==
    /\ look[r].step = "none"
    /\ \E k \in CacheKeys : Ours(file[k]) /\ look' = [look EXCEPT ![r] = Looking("cleared", k, file[k])]
    /\ UNCHANGED <<file, aside, now>>

ClearAside ==
    /\ \E a \in aside : Ours(a.data) /\ aside' = aside \ {a}
    /\ UNCHANGED <<file, look, now>>

\* put: a temporary file takes the path.
Replaced(k, facts) == file' = [file EXCEPT ![k] = [kind |-> "entry", facts |-> facts, stamp |-> now]]

CacheTick ==
    /\ now < MaxNow
    /\ now' = now + 1
    /\ UNCHANGED <<file, aside, look>>

\* What a reader does between its first read and its answer.
Tidy(r) == ReadBytes(r) \/ TryName(r) \/ MoveAside(r) \/ Unlink(r)

-----------------------------------------------------------------------------
\* What was moved aside as unreadable stays there: the quarantine moves a file aside
\* "without overwriting evidence" (cache_v3.py, _quarantine).
EvidenceKept ==
    [][\A a \in aside : a.data.kind = "garbage" => \E b \in aside' : b.data = a.data]_cachevars
=============================================================================
