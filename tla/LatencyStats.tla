----------------------------- MODULE LatencyStats -----------------------------
(***************************************************************************)
(* provider_stats.py: the last latencies of a provider, which several           *)
(* processes append to one file and hedge_delay of search.py reads to decide    *)
(* how long the next provider is held back.  A sample is the latency of a call  *)
(* that succeeded, or Failure.  Ages are left out.                              *)
(***************************************************************************)
EXTENDS Integers, FiniteSets, Sequences

CONSTANTS
    Recorders,     \* threads that record
    StatsProcess,     \* recorder -> its process
    Latencies, Failure,
    MaxSamplesKept, MinSamples,  \* MAX_SAMPLES_PER_PROVIDER, MIN_SAMPLES_FOR_ADJUSTMENT
    HedgeFloor, AttemptTimeout,  \* bounds on the delay
    MaxSavings     \* bound on the number of recorded samples

ASSUME StatsAssumption ==
    /\ MaxSamplesKept \in Nat \ {0} /\ MinSamples \in Nat \ {0}
    /\ Latencies \subseteq Nat /\ Failure \notin Latencies
    /\ HedgeFloor \in Nat /\ AttemptTimeout \in Nat /\ HedgeFloor <= AttemptTimeout

VARIABLES
    posix,      \* the system has file locks
    statsFile,    \* the file
    recorder,   \* thread -> [at, sample, read]
    savedSamples       \* every sample that was saved since a thread last could not read the file, in order

statsvars == <<posix, statsFile, recorder, savedSamples>>

Recording(r, place) == recorder[r].at = place
HoldingLock == {"locked", "loaded", "blind"}
LastOf(list, n) == SubSeq(list, IF Len(list) > n THEN Len(list) - n + 1 ELSE 1, Len(list))

\* Mutant: only threads of the same process keep out of each other's way.
OwnProcessOnly(r) == {o \in Recorders \ {r} : StatsProcess[o] = StatsProcess[r] /\ recorder[o].at \in HoldingLock}

\* Who holds a lock that r needs (_stats_file_lock).
InTheWay(r) ==
    {o \in Recorders \ {r} : recorder[o].at \in HoldingLock /\ (posix \/ StatsProcess[o] = StatsProcess[r])}

\* A provider call has ended (execute_with_retry); its sample is recorded under the lock.
LockStats(r) ==
    /\ Recording(r, "idle") /\ InTheWay(r) = {} /\ Len(savedSamples) < MaxSavings
    /\ \E s \in Latencies \cup {Failure} : recorder' = [recorder EXCEPT ![r] = [at |-> "locked", sample |-> s, read |-> <<>>]]
    /\ UNCHANGED <<posix, statsFile, savedSamples>>

\* _load_stats: a file that cannot be read or understood counts as an empty one.
LoadStats(r) ==
    /\ Recording(r, "locked")
    /\ \/ recorder' = [recorder EXCEPT ![r].at = "loaded", ![r].read = statsFile]
       \/ recorder' = [recorder EXCEPT ![r].at = "blind"]
    /\ UNCHANGED <<posix, statsFile, savedSamples>>

\* The file is replaced whole; an error, or the end of the process, leaves the old one and
\* gives the lock back.  Who could not read it leaves the own sample only, or none of this
\* provider when the call was another's.
SaveStats(r) ==
    /\ Recording(r, "loaded") \/ Recording(r, "blind")
    /\ \/ Recording(r, "loaded")
          /\ statsFile' = LastOf(Append(recorder[r].read, recorder[r].sample), MaxSamplesKept)
          /\ savedSamples' = Append(savedSamples, recorder[r].sample)
       \/ Recording(r, "blind")
          /\ statsFile' \in {<<recorder[r].sample>>, <<>>} /\ savedSamples' = statsFile'
       \/ UNCHANGED <<statsFile, savedSamples>>
    /\ recorder' = [recorder EXCEPT ![r] = [at |-> "idle", sample |-> Failure, read |-> <<>>]]
    /\ UNCHANGED posix

\* Three quarters of n, rounded; a half goes to the even neighbour.
ThreeQuarters(n) ==
    LET low == (3 * n) \div 4
    IN IF (3 * n) % 4 < 2 THEN low ELSE IF (3 * n) % 4 = 2 THEN low + (low % 2) ELSE low + 1

\* latency_quantile: the sample below which three of four lie, which is the one with its
\* place in the sorted list; 0 if there are too few.
UsualLatency(list) ==
    LET good       == {i \in DOMAIN list : list[i] # Failure}
        place      == ThreeQuarters(Cardinality(good) - 1) + 1
        InPlace(i) == /\ Cardinality({j \in good : list[j] < list[i]}) < place
                      /\ Cardinality({j \in good : list[j] <= list[i]}) >= place
    IN IF Cardinality(good) < MinSamples THEN 0 ELSE list[CHOOSE i \in good : InPlace(i)]

\* hedge_delay
HedgeDelay(list) ==
    LET delay == IF UsualLatency(list) > HedgeFloor THEN UsualLatency(list) ELSE HedgeFloor
    IN IF delay > AttemptTimeout THEN AttemptTimeout ELSE delay

StatsInit ==
    /\ posix \in BOOLEAN /\ statsFile = <<>> /\ savedSamples = <<>>
    /\ recorder = [r \in Recorders |-> [at |-> "idle", sample |-> Failure, read |-> <<>>]]
StatsNext == \E r \in Recorders : LockStats(r) \/ LoadStats(r) \/ SaveStats(r)

StatsSpec == StatsInit /\ [][StatsNext]_statsvars

-----------------------------------------------------------------------------
\* With file locks a sample is lost only to a thread that could not read the file: it holds the
\* newest of those saved since, whichever process saved them and whoever fails to save or dies in
\* between.  The delay read from it stays between its bounds and is
\* more than the floor only when enough calls of this provider took longer.
StatsSound ==
    /\ posix => statsFile = LastOf(savedSamples, MaxSamplesKept)
    /\ \A delay \in {HedgeDelay(statsFile)} :
          /\ delay \in HedgeFloor .. AttemptTimeout
          /\ delay > HedgeFloor =>
                /\ Cardinality({i \in DOMAIN statsFile : statsFile[i] # Failure}) >= MinSamples
                /\ \E i \in DOMAIN statsFile : statsFile[i] # Failure /\ statsFile[i] >= delay
=============================================================================
