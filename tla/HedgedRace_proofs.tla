-------------------------- MODULE HedgedRace_proofs --------------------------
(***************************************************************************)
(* The hedged search, for any number of candidates: it never runs more than *)
(* two providers at once, forces a probe only when nobody else runs, gives   *)
(* up without results only when none can come any more, and tells the truth  *)
(* about every candidate.                                                    *)
(***************************************************************************)
EXTENDS HedgedRace, FiniteSetTheorems, WellFoundedInduction, NaturalsInduction, TLAPS

Running    == {"launch", "register", "top", "wait", "late"}   \* of pc, before the report
HasAnswer  == winner # None /\ result[winner] = "answer"
Exhausted  == InFlight = {} /\ ~ Pending
Marks      == Ends \cup {None, "late"}
Registering(p) == pc = "register" /\ p = next - 1

RaceShape ==
    /\ pc \in Stages
    /\ next \in 1 .. N + 1
    /\ pc = "launch" => next <= N
    /\ clock \in {"none", "ahead", "passed"}
    /\ hit \in BOOLEAN
    /\ winner \in Workers \cup {None}
    /\ thread \in [Workers -> {"none", "running", "ended"}]
    /\ result \in [Workers -> Ends \cup {None}]
    /\ callback \in [Workers -> {"none", "kept", "taken", "run"}]
    /\ queue \in Seq(Workers)
    /\ finished \in [Workers -> Marks]
    /\ receipts \in [Workers -> Marks \cup {"cancelled", "excluded"}]

\* How far a candidate's thread, its callback and the race's note of it have come.
CandidateSane(p) ==
    /\ result[p] = None <=> thread[p] # "ended"
    /\ thread[p] # "none" \/ finished[p] # None => p < next
    /\ Registering(p) => thread[p] # "none"
    /\ p < next => thread[p] # "none" \/ finished[p] = "late"
    /\ callback[p] = "none" <=> thread[p] = "none" \/ Registering(p)
    /\ callback[p] = "kept" => thread[p] = "running"
    /\ callback[p] \in {"taken", "run"} => thread[p] = "ended"
    /\ finished[p] \notin {None, "late"} => thread[p] = "ended" /\ finished[p] = result[p] /\ callback[p] = "run"
    /\ finished[p] = "late" => thread[p] = "none" /\ clock = "passed"
    /\ finished[p] = "answer" => winner = p

Candidates == \A p \in Workers : CandidateSane(p)

\* An end that is not noted yet is in the queue, once.
Queued ==
    pc # "raised" =>
        /\ \A i \in DOMAIN queue : callback[queue[i]] = "run" /\ finished[queue[i]] = None
        /\ \A i, j \in DOMAIN queue : queue[i] = queue[j] => i = j
        /\ \A p \in Workers : callback[p] = "run" /\ finished[p] = None => \E i \in DOMAIN queue : queue[i] = p

\* The race has room when it launches, and has waited out the deadline when it does not.
Room ==
    /\ Cardinality(InFlight) <= MaxInFlight
    /\ pc = "launch" => Cardinality(InFlight) < MaxInFlight
    /\ pc = "register" => next > 1
    /\ pc = "late" => clock = "passed" \/ (Pending /\ Cardinality(InFlight) < MaxInFlight)

\* Why the race is over.
Ended ==
    /\ hit => clock = "passed"
    /\ pc \in Running => winner = None /\ ~ hit
    /\ pc \in {"report", "probe", "done"} => hit \/ HasAnswer \/ Exhausted
    /\ pc = "report" => winner = None \/ result[winner] = "answer"
    /\ pc \in {"probe", "done"} => receipts = [p \in Workers |-> ReceiptOf(p)]
    /\ pc = "probe" => winner = None /\ ShutOut
    /\ pc # "probed" /\ pc # "raised" /\ winner # None => finished[winner] \in {"answer", "empty"}

RaceInv == RaceShape /\ Candidates /\ Queued /\ Room /\ Ended

-----------------------------------------------------------------------------
\* What the provers need of sequences: a queue that grows at its end ...
LEMMA AppendFacts ==
    ASSUME queue \in Seq(Workers), NEW w \in Workers, queue' = Append(queue, w)
    PROVE  /\ queue' \in Seq(Workers)
           /\ DOMAIN queue' = DOMAIN queue \cup {Len(queue) + 1}
           /\ Len(queue) + 1 \notin DOMAIN queue
           /\ queue'[Len(queue) + 1] = w
           /\ \A i \in DOMAIN queue : queue'[i] = queue[i]
  OBVIOUS

\* ... and loses its first element.
LEMMA TailFacts ==
    ASSUME queue \in Seq(Workers), queue # <<>>, queue' = Tail(queue)
    PROVE  /\ queue' \in Seq(Workers)
           /\ 1 \in DOMAIN queue /\ Head(queue) = queue[1] /\ Head(queue) \in Workers
           /\ \A i \in DOMAIN queue' : i + 1 \in DOMAIN queue /\ i + 1 # 1 /\ queue'[i] = queue[i + 1]
           /\ \A i \in DOMAIN queue : i # 1 => i - 1 \in DOMAIN queue'
           /\ DOMAIN queue \subseteq Nat /\ DOMAIN queue' \subseteq Nat
  OBVIOUS

\* Nobody is in flight who is not a candidate, so those in flight can be counted.
LEMMA InFlightFinite == IsFiniteSet(InFlight) /\ Cardinality(InFlight) \in Nat
  <1>1. IsFiniteSet(Workers)
    BY FS_Interval, RaceAssumption
  <1>2. InFlight \in SUBSET Workers
    BY DEF InFlight
  <1>3. IsFiniteSet(InFlight)
    BY <1>1, <1>2, FS_Subset
  <1> QED
    BY <1>3, FS_CardinalityType

\* A set of naturals that is not empty has a smallest element.
LEMMA SmallestExists ==
    ASSUME NEW S \in SUBSET Nat, S # {}
    PROVE  \E p \in S : \A q \in S : p <= q
  <1>1. PICK p \in S : \A q \in S : <<q, p>> \notin OpToRel(<, Nat)
    BY NatLessThanWellFounded, WFMin
  <1>2. \A q \in S : ~ (q < p)
    BY <1>1, Zenon DEF OpToRel
  <1>3. \A q \in S : p <= q
    BY <1>2
  <1> QED
    BY <1>3

-----------------------------------------------------------------------------
\* The search starts as the invariant wants it.
LEMMA RaceInitInv == RaceInit => RaceInv
  <1> SUFFICES ASSUME RaceInit PROVE RaceInv
    OBVIOUS
  <1> USE RaceAssumption, EndsAssumption DEF RaceInit, TasksInit, loop, Ends
  <1>1. RaceShape
    <2>1. queue \in Seq(Workers)
      OBVIOUS
    <2>2. /\ thread \in [Workers -> {"none", "running", "ended"}]
          /\ result \in [Workers -> Ends \cup {None}]
          /\ callback \in [Workers -> {"none", "kept", "taken", "run"}]
          /\ finished \in [Workers -> Marks]
          /\ receipts \in [Workers -> Marks \cup {"cancelled", "excluded"}]
      BY DEF Marks
    <2>3. pc = "launch" /\ next = 1 /\ 1 \in 1 .. N + 1 /\ 1 <= N
      OBVIOUS
    <2> HIDE DEF Ends, RaceInit, TasksInit
    <2> QED
      BY <2>1, <2>2, <2>3 DEF RaceInit, RaceShape, Stages
  <1>2. Candidates
    BY DEF Candidates, CandidateSane, Registering
  <1>3. Queued
    BY DEF Queued
  <1>4. InFlight = {}
    BY DEF InFlight
  <1>5. Room
    BY <1>4, FS_EmptySet DEF Room, MaxInFlight
  <1>6. Ended
    BY DEF Ended, Running
  <1> QED
    BY <1>1, <1>2, <1>3, <1>5, <1>6 DEF RaceInv

LEMMA LaunchInv == RaceInv /\ Launch => RaceInv'
  <1> SUFFICES ASSUME RaceInv, Launch PROVE RaceInv'
    OBVIOUS
  <1> USE RaceAssumption, EndsAssumption DEF Launch, Goto, Start, loop, tvars, RaceInv, Ends
  <1>1. next \in Workers /\ pc = "launch" /\ next' = next + 1
    BY DEF RaceShape
  <1>2. thread[next] = "none" /\ finished[next] = None
    BY <1>1 DEF RaceShape, Candidates, CandidateSane, Registering, Marks
  <1>3. RaceShape'
    BY <1>1 DEF RaceShape, Stages, Marks
  <1>4. Candidates'
    <2> SUFFICES ASSUME NEW p \in Workers PROVE CandidateSane(p)'
      BY DEF Candidates
    <2>1. CASE clock = "passed"
      BY <1>1, <1>2, <2>1 DEF RaceShape, Candidates, CandidateSane, Registering
    <2>2. CASE clock # "passed"
      BY <1>1, <1>2, <2>2 DEF RaceShape, Candidates, CandidateSane, Registering
    <2> QED
      BY <2>1, <2>2
  <1>5. Queued'
    <2>1. callback[next] = "none"
      BY <1>1, <1>2 DEF Candidates, CandidateSane
    <2>2. \A p \in Workers : p # next => finished'[p] = finished[p]
      BY <1>1 DEF RaceShape
    <2>3. \A i \in DOMAIN queue : queue[i] \in Workers
      BY DEF RaceShape
    <2>4. queue' = queue /\ callback' = callback /\ pc # "raised"
      BY <1>1
    <2> HIDE DEF Launch
    <2> QED
      BY <2>1, <2>2, <2>3, <2>4 DEF Queued
  <1>6. Room'
    <2>1. CASE clock = "passed"
      <3>1. InFlight' = InFlight
        BY <1>1, <1>2, <2>1 DEF InFlight, RaceShape
      <3> QED
        BY <2>1, <3>1 DEF Room
    <2>2. CASE clock # "passed"
      <3>1. InFlight' = InFlight \cup {next} /\ next \notin InFlight
        BY <1>1, <1>2, <2>2 DEF InFlight, RaceShape
      <3>2. Cardinality(InFlight') = Cardinality(InFlight) + 1
        BY <3>1, InFlightFinite, FS_AddElement
      <3> QED
        BY <1>1, <2>2, <3>2, InFlightFinite DEF Room, MaxInFlight, RaceShape
    <2> QED
      BY <2>1, <2>2
  <1>7. Ended'
    BY <1>1 DEF Ended, RaceShape, Running
  <1> QED
    BY <1>3, <1>4, <1>5, <1>6, <1>7

LEMMA RegisteredInv == RaceInv /\ Registered => RaceInv'
  <1> SUFFICES ASSUME RaceInv, Registered PROVE RaceInv'
    OBVIOUS
  <1> DEFINE w == next - 1
  <1> USE RaceAssumption, EndsAssumption DEF Registered, Goto, Register, loop, tvars, RaceInv, Ends
  <1>1. w \in Workers /\ pc = "register" /\ callback[w] = "none" /\ Registering(w)
    BY DEF RaceShape, Room, Candidates, CandidateSane, Registering
  <1>2. thread[w] # "none" /\ w < next
    BY <1>1 DEF RaceShape, Candidates, CandidateSane
  <1>3. RaceShape'
    <2>1. queue' \in Seq(Workers)
      BY <1>1, AppendFacts DEF RaceShape
    <2>2. callback' \in [Workers -> {"none", "kept", "taken", "run"}]
      BY <1>1 DEF RaceShape
    <2> QED
      BY <1>1, <2>1, <2>2 DEF RaceShape, Stages
  <1>4. Candidates'
    <2> SUFFICES ASSUME NEW p \in Workers PROVE CandidateSane(p)'
      BY DEF Candidates
    <2> QED
      BY <1>1, <1>2 DEF RaceShape, Candidates, CandidateSane, Registering
  <1>5. finished[w] = None
    BY <1>1, <1>2 DEF RaceShape, Candidates, CandidateSane, Marks
  <1>6. Queued'
    <2>1. CASE thread[w] = "ended"
      <3>1. queue' = Append(queue, w) /\ queue \in Seq(Workers)
        BY <2>1 DEF RaceShape
      <3>2. /\ \A i \in DOMAIN queue : queue'[i] = queue[i] /\ queue[i] # w /\ queue[i] \in Workers
            /\ DOMAIN queue' = DOMAIN queue \cup {Len(queue) + 1}
            /\ queue'[Len(queue) + 1] = w /\ Len(queue) + 1 \notin DOMAIN queue
        BY <1>1, <3>1, AppendFacts DEF Queued
      <3>3. callback' = [callback EXCEPT ![w] = "run"]
        BY <2>1
      <3> QED
        BY <1>1, <1>5, <3>2, <3>3 DEF RaceShape, Queued
    <2>2. CASE thread[w] # "ended"
      BY <1>1, <2>2 DEF RaceShape, Queued
    <2> QED
      BY <2>1, <2>2
  <1>7. Room'
    BY <1>1 DEF Room, InFlight, RaceShape
  <1>8. Ended'
    BY <1>1 DEF Ended, RaceShape, Running
  <1> QED
    BY <1>3, <1>4, <1>6, <1>7, <1>8

LEMMA TopInv == RaceInv /\ Top => RaceInv'
  <1> SUFFICES ASSUME RaceInv, Top PROVE RaceInv'
    OBVIOUS
  <1> USE RaceAssumption, EndsAssumption DEF Top, Goto, loop, tvars, RaceInv, Ends
  <1>1. pc = "top" /\ pc' \in {"wait", "launch", "report"}
    OBVIOUS
  <1>2. UNCHANGED <<thread, result, callback, queue, next, finished, hedge, clock, hit, winner, receipts, superseded>>
    OBVIOUS
  <1>3. pc' = "launch" => InFlight = {} /\ Pending
    BY DEF InFlight
  <1>4. pc' = "report" => Exhausted
    BY DEF Exhausted
  <1>5. RaceShape'
    BY <1>1, <1>2, <1>3 DEF RaceShape, Stages, Pending
  <1>6. Candidates' /\ Queued'
    BY <1>1, <1>2 DEF Candidates, CandidateSane, Registering, Queued
  <1>7. InFlight' = InFlight
    BY <1>2 DEF InFlight
  <1>8. Room'
    BY <1>1, <1>2, <1>3, <1>7, FS_EmptySet DEF Room, MaxInFlight
  <1>9. Exhausted' = Exhausted
    BY <1>2, <1>7 DEF Exhausted, Pending
  <1>10. Ended'
    BY <1>1, <1>2, <1>4, <1>9 DEF Ended, Running
  <1> QED
    BY <1>5, <1>6, <1>8, <1>10

\* The candidate whose end the race takes is in flight and has ended.
LEMMA HeadInFlight ==
    ASSUME RaceInv, pc = "wait", queue # <<>>
    PROVE  /\ Head(queue) \in InFlight
           /\ thread[Head(queue)] = "ended" /\ callback[Head(queue)] = "run"
           /\ result[Head(queue)] \in Ends
  <1>1. Head(queue) = queue[1] /\ 1 \in DOMAIN queue /\ Head(queue) \in Workers
    BY DEF RaceInv, RaceShape
  <1>2. callback[queue[1]] = "run" /\ finished[queue[1]] = None
    BY <1>1 DEF RaceInv, Queued
  <1>3. thread[queue[1]] = "ended" /\ result[queue[1]] # None
    BY <1>1, <1>2 DEF RaceInv, Candidates, CandidateSane
  <1> QED
    BY <1>1, <1>2, <1>3 DEF InFlight, RaceInv, RaceShape

LEMMA TakeInv == RaceInv /\ Take => RaceInv'
  <1> SUFFICES ASSUME RaceInv, Take PROVE RaceInv'
    OBVIOUS
  <1> DEFINE p == Head(queue)
             end == result[Head(queue)]
  <1>1. /\ pc = "wait" /\ queue # <<>> /\ queue' = Tail(queue)
        /\ finished' = IF end = "scope" THEN finished ELSE [finished EXCEPT ![p] = end]
        /\ winner' = IF end = "answer" THEN p ELSE winner
        /\ pc' = After(end, InFlight \ {p})
        /\ UNCHANGED <<thread, result, callback, next, hedge, clock, hit, receipts, superseded>>
    BY DEF Take, Goto
  <1>2. p \in InFlight /\ p \in Workers /\ thread[p] = "ended" /\ callback[p] = "run" /\ end \in Ends
        /\ finished[p] = None
    BY <1>1, HeadInFlight DEF InFlight
  <1>3. /\ pc' \in {"report", "raised", "launch", "top"}
        /\ pc' = "report" <=> end = "answer"
        /\ pc' = "raised" <=> end = "scope"
        /\ pc' = "launch" => Pending /\ Cardinality(InFlight \ {p}) < MaxInFlight
    BY <1>1 DEF After
  <1>4. RaceShape
    BY DEF RaceInv
  <1>5. winner = None /\ ~ hit
    BY <1>1 DEF RaceInv, Ended, Running
  <1> HIDE DEF p, end
  <1>6. /\ finished' \in [Workers -> Marks]
        /\ \A q \in Workers : finished'[q] = IF q = p /\ end # "scope" THEN end ELSE finished[q]
    BY <1>1, <1>2, <1>4 DEF RaceShape, Marks
  <1>7. /\ queue' \in Seq(Workers) /\ queue[1] = p /\ 1 \in DOMAIN queue
        /\ \A i \in DOMAIN queue' : i + 1 \in DOMAIN queue /\ i + 1 # 1 /\ queue'[i] = queue[i + 1]
        /\ \A i \in DOMAIN queue : i # 1 => i - 1 \in DOMAIN queue'
        /\ DOMAIN queue \subseteq Nat /\ DOMAIN queue' \subseteq Nat
    BY <1>1, <1>4, TailFacts DEF RaceShape, p
  <1>8. RaceShape'
    BY <1>1, <1>2, <1>3, <1>4, <1>6, <1>7, RaceAssumption DEF RaceShape, Stages, Pending
  <1>9. Candidates'
    <2> SUFFICES ASSUME NEW q \in Workers PROVE CandidateSane(q)'
      BY DEF Candidates
    <2>1. CandidateSane(q) /\ (q = p => result[q] = end)
      BY DEF RaceInv, Candidates, p, end
    <2>2. ~ Registering(q) /\ ~ Registering(q)'
      BY <1>1, <1>3 DEF Registering
    <2>3. CASE q = p
      BY <1>1, <1>2, <1>6, <2>1, <2>2, <2>3, EndsAssumption DEF CandidateSane, Ends
    <2>4. CASE q # p
      BY <1>1, <1>2, <1>5, <1>6, <2>1, <2>2, <2>4, EndsAssumption DEF CandidateSane
    <2> QED
      BY <2>3, <2>4
  <1>10. Queued'
    <2> SUFFICES ASSUME pc' # "raised" PROVE Queued'
      BY DEF Queued
    <2>1. end # "scope"
      BY <1>3
    <2>2. /\ \A i \in DOMAIN queue : callback[queue[i]] = "run" /\ finished[queue[i]] = None /\ queue[i] \in Workers
          /\ \A i, j \in DOMAIN queue : queue[i] = queue[j] => i = j
          /\ \A q \in Workers : callback[q] = "run" /\ finished[q] = None => \E i \in DOMAIN queue : queue[i] = q
      BY <1>1, <1>4 DEF RaceInv, Queued, RaceShape
    <2>3. ASSUME NEW i \in DOMAIN queue'
          PROVE  queue'[i] # p /\ callback'[queue'[i]] = "run" /\ finished'[queue'[i]] = None
      <3>1. i + 1 \in DOMAIN queue /\ i + 1 # 1 /\ queue'[i] = queue[i + 1] /\ queue[1] = p /\ 1 \in DOMAIN queue
        BY <1>7
      <3>2. /\ queue'[i] # p /\ queue'[i] \in Workers
            /\ callback[queue'[i]] = "run" /\ finished[queue'[i]] = None
        BY ONLY <2>2, <3>1
      <3> QED
        BY <1>1, <1>6, <3>2
    <2>4. \A i, j \in DOMAIN queue' : queue'[i] = queue'[j] => i = j
      BY <1>7, <2>2
    <2>5. ASSUME NEW q \in Workers, callback'[q] = "run", finished'[q] = None
          PROVE  \E i \in DOMAIN queue' : queue'[i] = q
      <3>1. q # p /\ callback[q] = "run" /\ finished[q] = None
        BY <1>1, <1>2, <1>6, <2>1, <2>5, EndsAssumption
      <3>2. PICK i \in DOMAIN queue : queue[i] = q
        BY <2>2, <3>1
      <3>3. i # 1 /\ i - 1 \in DOMAIN queue' /\ i \in Nat /\ queue'[i - 1] = queue[i - 1 + 1] /\ i - 1 + 1 = i
        BY <1>7, <3>1, <3>2
      <3> QED
        BY <3>2, <3>3
    <2> QED
      BY <2>3, <2>4, <2>5 DEF Queued
  <1>11. InFlight' \subseteq InFlight /\ (end # "scope" => InFlight' = InFlight \ {p})
    BY <1>1, <1>2, <1>4, <1>6, EndsAssumption DEF InFlight, RaceShape
  <1>12. Cardinality(InFlight') <= Cardinality(InFlight) /\ Cardinality(InFlight') \in Nat
         /\ IsFiniteSet(InFlight')
    BY <1>11, InFlightFinite, FS_Subset, FS_CardinalityType
  <1>13. Room'
    <2>1. Cardinality(InFlight) <= 2 /\ Cardinality(InFlight) \in Nat
      BY InFlightFinite DEF RaceInv, Room, MaxInFlight
    <2>2. pc' = "launch" => Cardinality(InFlight') < 2
      BY <1>3, <1>11 DEF MaxInFlight
    <2>3. Cardinality(InFlight') <= 2
      BY <1>12, <2>1
    <2> QED
      BY <1>3, <2>2, <2>3 DEF Room, MaxInFlight
  <1>14. Ended'
    BY <1>1, <1>2, <1>3, <1>5, <1>6, EndsAssumption DEF RaceInv, Ended, Running, HasAnswer, p, end
  <1> QED
    BY <1>8, <1>9, <1>10, <1>13, <1>14 DEF RaceInv

LEMMA TimeOutInv == RaceInv /\ TimeOut => RaceInv'
  <1> SUFFICES ASSUME RaceInv, TimeOut PROVE RaceInv'
    OBVIOUS
  <1>1. /\ pc = "wait" /\ pc' = "late"
        /\ clock = "passed" \/ (Pending /\ Cardinality(InFlight) < MaxInFlight)
        /\ UNCHANGED <<thread, result, callback, queue, next, finished, hedge, clock, hit, winner, receipts, superseded>>
    BY DEF TimeOut, Goto, tvars, loop, CanHedge
  <1>2. RaceShape'
    BY <1>1 DEF RaceInv, RaceShape, Stages
  <1>3. Candidates' /\ Queued'
    BY <1>1 DEF RaceInv, Candidates, CandidateSane, Registering, Queued
  <1>4. InFlight' = InFlight /\ Pending' = Pending
    BY <1>1 DEF InFlight, Pending
  <1>5. Room'
    BY <1>1, <1>4 DEF RaceInv, Room, MaxInFlight
  <1>6. Ended'
    BY <1>1 DEF RaceInv, Ended, Running
  <1> QED
    BY <1>2, <1>3, <1>5, <1>6 DEF RaceInv

LEMMA OverdueInv == RaceInv /\ Overdue => RaceInv'
  <1> SUFFICES ASSUME RaceInv, Overdue PROVE RaceInv'
    OBVIOUS
  <1>1. /\ pc = "late" /\ hit' = (clock = "passed")
        /\ pc' = IF clock = "passed" THEN "report" ELSE "launch"
        /\ UNCHANGED <<thread, result, callback, queue, next, finished, hedge, clock, winner, receipts, superseded>>
    BY DEF Overdue, Goto, tvars, loop
  <1>2. pc' = "launch" => Pending /\ Cardinality(InFlight) < MaxInFlight
    BY <1>1 DEF RaceInv, Room
  <1>3. RaceShape'
    BY <1>1, <1>2, RaceAssumption DEF RaceInv, RaceShape, Stages, Pending
  <1>4. Candidates' /\ Queued'
    BY <1>1 DEF RaceInv, Candidates, CandidateSane, Registering, Queued
  <1>5. InFlight' = InFlight
    BY <1>1 DEF InFlight
  <1>6. Room'
    BY <1>1, <1>2, <1>5 DEF RaceInv, Room, MaxInFlight
  <1>7. Ended'
    BY <1>1 DEF RaceInv, Ended, Running
  <1> QED
    BY <1>3, <1>4, <1>6, <1>7 DEF RaceInv

\* A report tells of every candidate what the race has noted of it.
LEMMA ReportInv == RaceInv /\ Report => RaceInv'
  <1> SUFFICES ASSUME RaceInv, Report PROVE RaceInv'
    OBVIOUS
  <1>1. /\ pc = "report"
        /\ receipts' = [p \in Workers |-> ReceiptOf(p)]
        /\ winner' = IF winner = None /\ Empties # {}
                     THEN CHOOSE p \in Empties : \A q \in Empties : p <= q
                     ELSE winner
        /\ pc' = IF winner' = None /\ ShutOut THEN "probe" ELSE "done"
        /\ UNCHANGED <<thread, result, callback, queue, next, finished, hedge, clock, hit>>
    BY DEF Report, Goto, tvars
  <1>2. \A p \in Workers : ReceiptOf(p)' = ReceiptOf(p)
    BY <1>1 DEF ReceiptOf, Noted, Started
  <1>3. winner = None /\ Empties # {} => winner' \in Empties
    <2> SUFFICES ASSUME winner = None, Empties # {} PROVE winner' \in Empties
      OBVIOUS
    <2>1. Empties \in SUBSET Nat
      BY RaceAssumption DEF Empties
    <2>2. \E p \in Empties : \A q \in Empties : p <= q
      BY <2>1, SmallestExists
    <2> QED
      BY <1>1, <2>2
  <1>4. winner' \in Workers \cup {None} /\ (winner # None => winner' = winner)
        /\ (winner' # None => winner' = winner \/ finished[winner'] = "empty")
    BY <1>1, <1>3 DEF RaceInv, RaceShape, Empties
  <1>5. receipts' \in [Workers -> Marks \cup {"cancelled", "excluded"}]
    <2>1. \A p \in Workers : ReceiptOf(p) \in Marks \cup {"cancelled", "excluded"}
      BY DEF RaceInv, RaceShape, ReceiptOf, Marks
    <2> QED
      BY <1>1, <2>1
  <1>6. RaceShape'
    BY <1>1, <1>4, <1>5 DEF RaceInv, RaceShape, Stages
  <1>7. Candidates'
    <2> SUFFICES ASSUME NEW p \in Workers PROVE CandidateSane(p)'
      BY DEF Candidates
    <2>1. CandidateSane(p) /\ ~ Registering(p) /\ ~ Registering(p)'
      BY <1>1 DEF RaceInv, Candidates, Registering
    <2>2. finished[p] = "answer" => winner' = p
      BY <1>4, <2>1, EndsAssumption DEF CandidateSane
    <2> QED
      BY <1>1, <2>1, <2>2 DEF CandidateSane
  <1>8. Queued'
    BY <1>1 DEF RaceInv, Queued
  <1>9. InFlight' = InFlight /\ Pending' = Pending
    BY <1>1 DEF InFlight, Pending
  <1>10. Room'
    BY <1>1, <1>9 DEF RaceInv, Room, MaxInFlight
  <1>11. Ended'
    <2>1. hit' \/ HasAnswer' \/ Exhausted'
      BY <1>1, <1>4, <1>9 DEF RaceInv, Ended, HasAnswer, Exhausted
    <2>2. receipts' = [p \in Workers |-> ReceiptOf(p)']
      BY <1>1, <1>2
    <2>3. pc' = "probe" => winner' = None /\ ShutOut'
      BY <1>1, <1>2 DEF ShutOut
    <2>4. winner' # None => finished'[winner'] \in {"answer", "empty"}
      BY <1>1, <1>4 DEF RaceInv, Ended
    <2>5. (hit' => clock' = "passed") /\ pc' \in {"probe", "done"}
      BY <1>1 DEF RaceInv, Ended
    <2> QED
      BY <2>1, <2>2, <2>3, <2>4, <2>5 DEF Ended, Running
  <1> QED
    BY <1>6, <1>7, <1>8, <1>10, <1>11 DEF RaceInv

LEMMA ProbeInv == RaceInv /\ Probe => RaceInv'
  <1> SUFFICES ASSUME RaceInv, Probe PROVE RaceInv'
    OBVIOUS
  <1>1. /\ pc = "probe" /\ pc' \in {"raised", "probed"}
        /\ UNCHANGED <<thread, result, callback, queue, next, finished, hedge, clock, hit>>
        /\ winner' = winner \/ winner' = 1 \/ winner' = None
        /\ receipts' = receipts \/ \E o \in Outcomes : receipts' = [receipts EXCEPT ![1] = o]
    BY DEF Probe, Goto, tvars, loop
  <1>2. 1 \in Workers
    BY RaceAssumption
  <1>3. receipts' \in [Workers -> Marks \cup {"cancelled", "excluded"}]
    BY <1>1, EndsAssumption DEF RaceInv, RaceShape, Marks
  <1>4. RaceShape'
    BY <1>1, <1>2, <1>3 DEF RaceInv, RaceShape, Stages
  <1>5. Candidates'
    <2> SUFFICES ASSUME NEW p \in Workers PROVE CandidateSane(p)'
      BY DEF Candidates
    <2>1. CandidateSane(p) /\ ~ Registering(p) /\ ~ Registering(p)'
      BY <1>1 DEF RaceInv, Candidates, Registering
    <2>2. finished[p] # "answer"
      <3>1. ReceiptOf(p) = "outage"
        BY <1>1 DEF RaceInv, Ended, ShutOut
      <3> QED
        BY <3>1, EndsAssumption DEF ReceiptOf, Noted, Ends
    <2> QED
      BY <1>1, <2>1, <2>2 DEF CandidateSane
  <1>6. Queued'
    BY <1>1 DEF RaceInv, Queued
  <1>7. InFlight' = InFlight
    BY <1>1 DEF InFlight
  <1>8. Room'
    BY <1>1, <1>7 DEF RaceInv, Room, MaxInFlight
  <1>9. Ended'
    BY <1>1 DEF RaceInv, Ended, Running
  <1> QED
    BY <1>4, <1>5, <1>6, <1>8, <1>9 DEF RaceInv

-----------------------------------------------------------------------------
(* The threads and the clocks                                              *)

\* What no thread changes: the notes of the race, and so who is in flight and what is
\* reported of whom, as long as no thread begins.
LEMMA NotesKept ==
    ASSUME RaceInv, NEW p \in Workers, UNCHANGED rvars,
           thread[p] # "none", thread' = [thread EXCEPT ![p] = "ended"] \/ thread' = thread
    PROVE  /\ InFlight' = InFlight
           /\ \A q \in Workers : ReceiptOf(q)' = ReceiptOf(q)
           /\ ShutOut' = ShutOut
  <1>1. \A q \in Workers : thread'[q] # "none" <=> thread[q] # "none"
    BY DEF RaceInv, RaceShape
  <1>2. UNCHANGED <<finished, hit>>
    BY DEF rvars, loop
  <1>3. InFlight' = InFlight
    BY <1>1, <1>2 DEF InFlight
  <1>4. \A q \in Workers : ReceiptOf(q)' = ReceiptOf(q)
    BY <1>1, <1>2 DEF ReceiptOf, Noted, Started
  <1> QED
    BY <1>3, <1>4 DEF ShutOut

LEMMA FinishInv ==
    ASSUME RaceInv, NEW p \in Workers, Finish(p), UNCHANGED rvars
    PROVE  RaceInv'
  <1>1. PICK o \in Outcomes : result' = [result EXCEPT ![p] = o]
    BY DEF Finish
  <1>2. /\ thread[p] = "running" /\ thread' = [thread EXCEPT ![p] = "ended"]
        /\ callback' = [callback EXCEPT ![p] = IF callback[p] = "kept" THEN "taken" ELSE callback[p]]
        /\ queue' = queue
        /\ UNCHANGED <<pc, next, finished, hedge, clock, hit, winner, receipts, superseded>>
    BY DEF Finish, rvars, loop, RaceInv, RaceShape
  <1>3. o \in Ends /\ o # None
    BY EndsAssumption
  <1>4. RaceShape /\ CandidateSane(p)
    BY DEF RaceInv, Candidates
  <1>5. finished[p] = None /\ result[p] = None
    BY <1>2, <1>4 DEF CandidateSane
  <1>6. /\ InFlight' = InFlight /\ ShutOut' = ShutOut
        /\ \A q \in Workers : ReceiptOf(q)' = ReceiptOf(q)
    BY <1>2, NotesKept
  <1>7. RaceShape'
    BY <1>1, <1>2, <1>3, <1>4 DEF RaceShape
  <1>8. Candidates'
    <2> SUFFICES ASSUME NEW q \in Workers PROVE CandidateSane(q)'
      BY DEF Candidates
    <2>1. CandidateSane(q) /\ Registering(q)' = Registering(q)
      BY <1>2 DEF RaceInv, Candidates, Registering
    <2>2. CASE q = p
      BY <1>1, <1>2, <1>3, <1>4, <1>5, <2>1, <2>2 DEF CandidateSane, RaceShape
    <2>3. CASE q # p
      <3>1. thread'[q] = thread[q] /\ result'[q] = result[q] /\ callback'[q] = callback[q]
        BY <1>1, <1>2, <1>4, <2>3 DEF RaceShape
      <3> QED
        BY <1>2, <2>1, <3>1 DEF CandidateSane
    <2> QED
      BY <2>2, <2>3
  <1>9. Queued'
    <2>1. \A q \in Workers : callback'[q] = "run" <=> callback[q] = "run"
      BY <1>2, <1>4 DEF RaceShape
    <2>2. \A i \in DOMAIN queue : queue[i] \in Workers
      BY <1>4 DEF RaceShape
    <2> QED
      BY <1>2, <2>1, <2>2 DEF RaceInv, Queued
  <1>10. Room'
    BY <1>2, <1>6 DEF RaceInv, Room, MaxInFlight, Pending
  <1>11. Ended'
    <2>1. HasAnswer => HasAnswer'
      <3>1. HasAnswer => winner \in Workers /\ winner # p
        BY <1>4, <1>5, EndsAssumption DEF HasAnswer, RaceShape, Ends
      <3> QED
        BY <1>1, <1>2, <1>4, <3>1 DEF HasAnswer, RaceShape
    <2>2. Exhausted' = Exhausted
      BY <1>2, <1>6 DEF Exhausted, Pending
    <2>3. [q \in Workers |-> ReceiptOf(q)'] = [q \in Workers |-> ReceiptOf(q)]
      BY <1>6
    <2>4. pc = "report" => winner = None \/ result'[winner] = "answer"
      BY <1>2, <2>1 DEF RaceInv, Ended, HasAnswer
    <2> QED
      BY <1>2, <1>6, <2>1, <2>2, <2>3, <2>4 DEF RaceInv, Ended, Running
  <1> QED
    BY <1>7, <1>8, <1>9, <1>10, <1>11 DEF RaceInv

LEMMA NotifyInv ==
    ASSUME RaceInv, NEW p \in Workers, Notify(p), UNCHANGED rvars
    PROVE  RaceInv'
  <1>1. /\ callback[p] = "taken" /\ callback' = [callback EXCEPT ![p] = "run"]
        /\ queue' = Append(queue, p)
        /\ UNCHANGED <<thread, result, pc, next, finished, hedge, clock, hit, winner, receipts, superseded>>
    BY DEF Notify, rvars, loop
  <1>2. RaceShape /\ CandidateSane(p)
    BY DEF RaceInv, Candidates
  <1>3. finished[p] = None /\ thread[p] = "ended"
    BY <1>1, <1>2 DEF CandidateSane
  <1>4. /\ InFlight' = InFlight /\ ShutOut' = ShutOut
        /\ \A q \in Workers : ReceiptOf(q)' = ReceiptOf(q)
    BY <1>1, <1>3, NotesKept
  <1>5. /\ queue' \in Seq(Workers)
        /\ DOMAIN queue' = DOMAIN queue \cup {Len(queue) + 1}
        /\ Len(queue) + 1 \notin DOMAIN queue
        /\ queue'[Len(queue) + 1] = p
        /\ \A i \in DOMAIN queue : queue'[i] = queue[i] /\ queue[i] \in Workers
    BY <1>1, <1>2, AppendFacts DEF RaceShape
  <1>6. RaceShape'
    BY <1>1, <1>2, <1>5 DEF RaceShape
  <1>7. Candidates'
    <2> SUFFICES ASSUME NEW q \in Workers PROVE CandidateSane(q)'
      BY DEF Candidates
    <2>1. CandidateSane(q) /\ Registering(q)' = Registering(q)
      BY <1>1 DEF RaceInv, Candidates, Registering
    <2>2. callback'[q] = IF q = p THEN "run" ELSE callback[q]
      BY <1>1, <1>2 DEF RaceShape
    <2> QED
      BY <1>1, <1>3, <2>1, <2>2 DEF CandidateSane
  <1>8. Queued'
    <2>1. \A q \in Workers : callback'[q] = IF q = p THEN "run" ELSE callback[q]
      BY <1>1, <1>2 DEF RaceShape
    <2>2. pc # "raised" => \A i \in DOMAIN queue : queue[i] # p
      BY <1>1 DEF RaceInv, Queued
    <2> QED
      BY <1>1, <1>3, <1>5, <2>1, <2>2 DEF RaceInv, Queued
  <1>9. Room'
    BY <1>1, <1>4 DEF RaceInv, Room, MaxInFlight, Pending
  <1>10. Ended'
    <2>1. HasAnswer' = HasAnswer
      BY <1>1 DEF HasAnswer
    <2>2. Exhausted' = Exhausted
      BY <1>1, <1>4 DEF Exhausted, Pending
    <2>3. [q \in Workers |-> ReceiptOf(q)'] = [q \in Workers |-> ReceiptOf(q)]
      BY <1>4
    <2> QED
      BY <1>1, <1>4, <2>1, <2>2, <2>3 DEF RaceInv, Ended, Running
  <1> QED
    BY <1>6, <1>7, <1>8, <1>9, <1>10 DEF RaceInv

LEMMA ClockInv ==
    ASSUME RaceInv, UNCHANGED <<thread, result, callback, queue, pc, next, finished, hit, winner, receipts>>,
           clock' = clock \/ clock' = "passed"
    PROVE  RaceInv'
  <1>1. RaceShape'
    BY DEF RaceInv, RaceShape
  <1>2. Candidates' /\ Queued'
    BY DEF RaceInv, Candidates, CandidateSane, Registering, Queued
  <1>3. InFlight' = InFlight /\ Pending' = Pending /\ \A q \in Workers : ReceiptOf(q)' = ReceiptOf(q)
    BY DEF InFlight, Pending, ReceiptOf, Noted, Started
  <1>4. Room'
    BY <1>3 DEF RaceInv, Room, MaxInFlight
  <1>5. Ended'
    <2>1. HasAnswer' = HasAnswer /\ Exhausted' = Exhausted /\ ShutOut' = ShutOut
      BY <1>3 DEF HasAnswer, Exhausted, ShutOut
    <2>2. [q \in Workers |-> ReceiptOf(q)'] = [q \in Workers |-> ReceiptOf(q)]
      BY <1>3
    <2> QED
      BY <2>1, <2>2 DEF RaceInv, Ended, Running
  <1> QED
    BY <1>1, <1>2, <1>4, <1>5 DEF RaceInv

\* Every step of the search keeps the invariant.
LEMMA RaceStepInv == RaceInv /\ [RaceNext]_vars => RaceInv'
  <1> SUFFICES ASSUME RaceInv, [RaceNext]_vars PROVE RaceInv'
    OBVIOUS
  <1>1. CASE Race
    BY <1>1, LaunchInv, RegisteredInv, TopInv, TakeInv, TimeOutInv, OverdueInv, ReportInv, ProbeInv DEF Race
  <1>2. CASE \E p \in Workers : Work(p)
    BY <1>2, FinishInv, NotifyInv DEF Work
  <1>3. CASE HedgeDue \/ Expire \/ Returned \/ UNCHANGED vars
    BY <1>3, ClockInv DEF HedgeDue, Expire, Returned, vars, rvars, tvars, loop
  <1> QED
    BY <1>1, <1>2, <1>3 DEF RaceNext

\* The invariant holds throughout a search, for any number of candidates.
THEOREM RaceInvariant == RaceSpec => []RaceInv
  <1>1. RaceInit => RaceInv
    BY RaceInitInv
  <1>2. RaceInv /\ [RaceNext]_vars => RaceInv'
    BY RaceStepInv
  <1> QED
    BY <1>1, <1>2, PTL DEF RaceSpec

-----------------------------------------------------------------------------
(* What the invariant says of a search                                      *)

\* A provider call that runs is one the race believes to be in flight.
LEMMA RunningInFlight ==
    ASSUME RaceInv
    PROVE  {p \in Workers : thread[p] = "running"} \subseteq InFlight
  BY EndsAssumption DEF RaceInv, Candidates, CandidateSane, InFlight

LEMMA SpendsFromInv == RaceInv => SpendsAtMostTwo
  <1> SUFFICES ASSUME RaceInv PROVE SpendsAtMostTwo
    OBVIOUS
  <1>1. TwoInFlight
    <2> DEFINE R == {p \in Workers : thread[p] = "running"}
    <2>1. Cardinality(R) <= Cardinality(InFlight) /\ Cardinality(R) \in Nat
      BY RunningInFlight, InFlightFinite, FS_Subset, FS_CardinalityType
    <2>2. Cardinality(InFlight) <= 2 /\ Cardinality(InFlight) \in Nat
      BY InFlightFinite DEF RaceInv, Room, MaxInFlight
    <2> HIDE DEF R
    <2>3. Cardinality(R) <= 2
      BY <2>1, <2>2
    <2> QED
      BY <2>3 DEF TwoInFlight, MaxInFlight, R
  <1>2. ForcedProbeAlone
    <2> SUFFICES ASSUME pc = "probe", NEW p \in Workers
                 PROVE  thread[p] = "ended" /\ result[p] = "outage"
      BY DEF ForcedProbeAlone
    <2>1. ReceiptOf(p) = "outage"
      BY DEF RaceInv, Ended, ShutOut
    <2>2. finished[p] = "outage"
      BY <2>1 DEF ReceiptOf, Noted
    <2> QED
      BY <2>2, EndsAssumption DEF RaceInv, Candidates, CandidateSane, Ends
  <1> QED
    BY <1>1, <1>2 DEF SpendsAtMostTwo

LEMMA NoAnswerLostFromInv == RaceInv => NoAnswerLost
  <1> SUFFICES ASSUME RaceInv, pc \in {"report", "probe", "done"}, ~ hit,
                      winner = None \/ result[winner] # "answer", NEW p \in Workers
               PROVE  thread[p] # "running" /\ result[p] # "answer" /\ (thread[p] = "none" => clock = "passed")
    BY DEF NoAnswerLost
  <1>1. InFlight = {} /\ ~ Pending /\ CandidateSane(p) /\ RaceShape
    BY DEF RaceInv, Ended, HasAnswer, Exhausted, Candidates
  <1>2. p < next
    BY <1>1, RaceAssumption DEF Pending, RaceShape
  <1>3. thread[p] = "none" => finished[p] = "late"
    BY <1>1, <1>2 DEF CandidateSane
  <1>4. thread[p] # "none" => finished[p] # None
    BY <1>1 DEF InFlight
  <1>5. thread[p] # "running"
    BY <1>1, <1>4, EndsAssumption DEF CandidateSane
  <1>6. result[p] # "answer"
    <2> SUFFICES ASSUME result[p] = "answer" PROVE FALSE
      OBVIOUS
    <2>1. thread[p] = "ended"
      BY <1>1, EndsAssumption DEF CandidateSane, Ends
    <2>2. finished[p] # None /\ finished[p] # "late"
      BY <1>1, <1>4, <2>1 DEF CandidateSane
    <2>3. winner = p
      BY <1>1, <2>2 DEF CandidateSane
    <2> QED
      BY <2>3, EndsAssumption, RaceAssumption
  <1> QED
    BY <1>1, <1>3, <1>5, <1>6 DEF CandidateSane

LEMMA ReceiptsFromInv == RaceInv => ReceiptsAsEnded
  <1> SUFFICES ASSUME RaceInv, pc \in {"probe", "done"}, NEW p \in Workers
               PROVE  CASE receipts[p] = "cancelled" ->
                             \/ thread[p] = "running"
                             \/ callback[p] = "taken" \/ \E i \in DOMAIN queue : queue[i] = p
                             \/ result[p] = "swallowed"
                        [] receipts[p] = "excluded" ->
                             thread[p] = "none" /\ winner # None /\ result[winner] = "answer"
                        [] receipts[p] = "late" -> thread[p] = "none" /\ clock = "passed"
                        [] OTHER -> result[p] = receipts[p]
    BY DEF ReceiptsAsEnded
  <1>1. receipts[p] = ReceiptOf(p) /\ CandidateSane(p) /\ RaceShape
    BY DEF RaceInv, Ended, Candidates
  <1>2. finished[p] \in Ends \cup {None, "late"} /\ thread[p] \in {"none", "running", "ended"}
        /\ callback[p] \in {"none", "kept", "taken", "run"}
    BY <1>1 DEF RaceShape, Marks
  <1>3. CASE Noted(p)
    <2>1. receipts[p] = finished[p] /\ finished[p] \in Ends \cup {"late"}
      BY <1>1, <1>2, <1>3 DEF ReceiptOf, Noted
    <2>2. CASE finished[p] = "late"
      BY <1>1, <2>1, <2>2 DEF CandidateSane
    <2>3. CASE finished[p] # "late"
      <3>1. result[p] = finished[p]
        BY <1>1, <1>3, <2>3 DEF CandidateSane, Noted
      <3> QED
        BY <2>1, <2>3, <3>1, EndsAssumption DEF Ends
    <2> QED
      BY <2>2, <2>3
  <1>4. CASE ~ Noted(p) /\ Started(p)
    <2>1. receipts[p] = "cancelled" /\ thread[p] # "none"
      BY <1>1, <1>4 DEF ReceiptOf, Started
    <2>2. finished[p] = None \/ finished[p] = "swallowed"
      BY <1>4 DEF Noted
    <2>3. CASE finished[p] = "swallowed"
      BY <1>1, <2>1, <2>3, EndsAssumption DEF CandidateSane, Ends
    <2>4. CASE finished[p] = None
      <3>1. callback[p] # "none"
        BY <1>1, <2>1 DEF CandidateSane, Registering
      <3>2. callback[p] = "kept" => thread[p] = "running"
        BY <1>1 DEF CandidateSane
      <3>3. callback[p] = "run" => \E i \in DOMAIN queue : queue[i] = p
        BY <2>4 DEF RaceInv, Queued
      <3> QED
        BY <1>2, <2>1, <3>1, <3>2, <3>3
    <2> QED
      BY <2>2, <2>3, <2>4
  <1>5. CASE ~ Noted(p) /\ ~ Started(p)
    <2>1. thread[p] = "none" /\ receipts[p] = IF hit THEN "late" ELSE "excluded"
      BY <1>1, <1>5 DEF ReceiptOf, Started
    <2>2. CASE hit
      BY <2>1, <2>2 DEF RaceInv, Ended
    <2>3. CASE ~ hit
      <3>1. finished[p] # "late"
        BY <1>5, EndsAssumption DEF Noted
      <3>2. ~ Exhausted
        <4>1. ~ (p < next)
          BY <1>1, <2>1, <3>1 DEF CandidateSane
        <4> QED
          BY <1>1, <4>1, RaceAssumption DEF Exhausted, Pending, RaceShape
      <3>3. HasAnswer
        BY <2>3, <3>2 DEF RaceInv, Ended
      <3> QED
        BY <2>1, <2>3, <3>3 DEF HasAnswer
    <2> QED
      BY <2>2, <2>3
  <1> QED
    BY <1>3, <1>4, <1>5

-----------------------------------------------------------------------------
(* The receipt of the search: valid whatever the candidates' receipts are    *)

InOrder  == [p \in Workers |-> p]
Selected == IF winner # None /\ receipts[winner] = "answer" THEN winner ELSE None
Reported == IF winner = 1 THEN "none"
            ELSE IF winner # None /\ 1 \in Empties THEN "insufficient_results"
            ELSE "selected_failed"
Decided  == Routing!Decisions(InOrder, Attempts, Selected, FALSE)

\* What is decided of candidate p, given its attempt a.
Decision(p, a) ==
    LET made(decision, reason) == [provider |-> p, decision |-> decision, reason |-> reason, attempt |-> p]
    IN IF p = Selected THEN made("selected", IF p = 1 THEN "classic_selected" ELSE "fallback_selected")
       ELSE IF a.outcome = "skipped" THEN made("skipped", Routing!SkipReason(a.skip))
       ELSE IF a.outcome \in {"success", "partial"} THEN made("attempted_no_selection", "insufficient_results")
       ELSE made("attempted_failed", "attempt_failed")

LEMMA AttemptsShape ==
    /\ DOMAIN Attempts = Workers
    /\ \A p \in Workers :
        /\ Attempts[p].provider = p
        /\ Attempts[p].outcome \in {"success", "failed", "cancelled", "skipped"}
        /\ receipts[p] = "answer" => Attempts[p].outcome = "success"
  <1>1. \A p \in Workers : Attempts[p].outcome =
            CASE receipts[p] \in {"answer", "empty"} -> "success"
              [] receipts[p] \in {"failed", "cancelled"} -> receipts[p]
              [] OTHER -> "skipped"
    BY DEF Attempts
  <1>2. DOMAIN Attempts = Workers /\ \A p \in Workers : Attempts[p].provider = p
    BY DEF Attempts
  <1> QED
    BY <1>1, <1>2

\* A candidate has one attempt, and it stands at the candidate's position.
LEMMA OwnAttempt == \A p \in Workers : Routing!AttemptOf(Attempts, p) = p /\ p # 0
  <1> SUFFICES ASSUME NEW p \in Workers PROVE Routing!AttemptOf(Attempts, p) = p /\ p # 0
    OBVIOUS
  <1> DEFINE mine == {i \in DOMAIN Attempts : Attempts[i].provider = p}
  <1>1. mine = {p}
    BY AttemptsShape
  <1>2. Routing!AttemptOf(Attempts, p) = CHOOSE i \in mine : \A j \in mine : j <= i
    BY <1>1 DEF Routing!AttemptOf
  <1>3. p <= p /\ p # 0
    BY RaceAssumption
  <1> HIDE DEF mine
  <1>4. \A i \in mine : i = p
    BY <1>1
  <1>5. \E i \in mine : \A j \in mine : j <= i
    BY <1>1, <1>3
  <1> QED
    BY <1>2, <1>3, <1>4, <1>5

LEMMA DecidedShape ==
    /\ DOMAIN Decided = Workers
    /\ \A p \in Workers : Decided[p] = Decision(p, Attempts[p])
  <1>1. DOMAIN InOrder = Workers /\ \A p \in Workers : InOrder[p] = p
    BY DEF InOrder
  <1> DEFINE after(i) == \E j \in 1 .. i - 1 :
                            \/ InOrder[j] = Selected
                            \/ /\ Routing!AttemptOf(Attempts, InOrder[j]) # 0
                               /\ Attempts[Routing!AttemptOf(Attempts, InOrder[j])].outcome \in Routing!Good
  <1>2. Decided = [i \in Workers |-> Routing!DecisionOf(InOrder, Attempts, Selected, FALSE, i, after(i))]
    BY <1>1 DEF Decided, Routing!Decisions
  <1> HIDE DEF after
  <1>3. ASSUME NEW p \in Workers
        PROVE  Routing!DecisionOf(InOrder, Attempts, Selected, FALSE, p, after(p)) = Decision(p, Attempts[p])
    BY <1>1, OwnAttempt DEF Routing!DecisionOf, Decision, Routing!Good
  <1> QED
    BY <1>2, <1>3

\* Each decision is one the validator accepts.
LEMMA DecisionValid ==
    ASSUME RaceInv, NEW receipt, receipt.decisions = Decided, receipt.order = InOrder,
           receipt.selected = Selected, NEW p \in Workers
    PROVE  Routing!ValidDecision(receipt, Attempts, p)
  <1> DEFINE a == Attempts[p]
             d == Decided[p]
  <1>1. /\ a.provider = p /\ a.outcome \in {"success", "failed", "cancelled", "skipped"}
        /\ receipts[p] = "answer" => a.outcome = "success"
        /\ p \in DOMAIN Attempts
    BY AttemptsShape
  <1>2. d = Decision(p, a) /\ receipt.order[p] = p
    BY DecidedShape DEF InOrder
  <1>3. p = Selected => receipts[p] = "answer"
    BY EndsAssumption DEF Selected
  <1>4. p # 0
    BY OwnAttempt
  <1>5. Routing!SkipReason(a.skip) \in Routing!Reasons("skipped")
    BY DEF Routing!SkipReason, Routing!Reasons
  <1>6. d.provider = p /\ d.attempt = p
    BY <1>2 DEF Decision
  <1>7. CASE p = Selected
    <2>1. d.decision = "selected" /\ d.reason \in {"classic_selected", "fallback_selected"}
      BY <1>2, <1>7 DEF Decision
    <2>2. a.outcome = "success"
      BY <1>1, <1>3, <1>7
    <2> QED
      BY <1>1, <1>2, <1>4, <1>6, <1>7, <2>1, <2>2
      DEF Routing!ValidDecision, Routing!Reasons, Routing!Expected, Routing!Good
  <1>8. CASE p # Selected /\ a.outcome = "skipped"
    <2>1. d.decision = "skipped" /\ d.reason = Routing!SkipReason(a.skip)
      BY <1>2, <1>8 DEF Decision
    <2> QED
      BY <1>1, <1>2, <1>4, <1>5, <1>6, <1>8, <2>1 DEF Routing!ValidDecision, Routing!Expected
  <1>9. CASE p # Selected /\ a.outcome = "success"
    <2>1. d.decision = "attempted_no_selection" /\ d.reason = "insufficient_results"
      BY <1>2, <1>9 DEF Decision
    <2> QED
      BY <1>1, <1>2, <1>4, <1>6, <1>9, <2>1
      DEF Routing!ValidDecision, Routing!Reasons, Routing!Expected, Routing!Good
  <1>10. CASE p # Selected /\ a.outcome \in {"failed", "cancelled"}
    <2>1. d.decision = "attempted_failed" /\ d.reason = "attempt_failed"
      BY <1>2, <1>10 DEF Decision
    <2> QED
      BY <1>1, <1>2, <1>4, <1>6, <1>10, <2>1
      DEF Routing!ValidDecision, Routing!Reasons, Routing!Expected, Routing!Good
  <1> QED
    BY <1>1, <1>7, <1>8, <1>9, <1>10

\* The reason given for a fallback is the fate of a candidate before the selected one: there
\* always is one to tell of, for the first candidate was attempted or skipped.
LEMMA FallbackTold ==
    ASSUME RaceInv, Selected # None, Selected # 1
    PROVE  LET told == Routing!FallbackReason(Decided, Selected, Reported)
           IN  /\ told # "none"
               /\ told = "selected_failed" => Routing!Before(Decided, Selected, "attempted_failed")
               /\ told = "insufficient_results" => Routing!Before(Decided, Selected, "attempted_no_selection")
               /\ told = "selected_skipped" => Routing!Before(Decided, Selected, "skipped")
  <1>1. Selected \in Workers /\ Selected > 1 /\ 1 \in Workers /\ 1 \in 1 .. Selected - 1
    BY RaceAssumption DEF RaceInv, RaceShape, Selected
  <1>2. Decided[1].decision \in {"attempted_failed", "attempted_no_selection", "skipped"}
    BY <1>1, DecidedShape DEF Decision
  <1>3. \/ Routing!Before(Decided, Selected, "attempted_failed")
        \/ Routing!Before(Decided, Selected, "attempted_no_selection")
        \/ Routing!Before(Decided, Selected, "skipped")
    BY <1>1, <1>2 DEF Routing!Before
  <1> QED
    BY <1>1, <1>3 DEF Routing!FallbackReason

LEMMA ReceiptDelivered == RaceInv => Routing!Deliverable(SearchReceipt, Attempts)
  <1> SUFFICES ASSUME RaceInv PROVE Routing!Deliverable(SearchReceipt, Attempts)
    OBVIOUS
  <1> DEFINE receipt == SearchReceipt
  <1>1. receipt = [order |-> InOrder, selected |-> Selected, decisions |-> Decided, origin |-> <<>>,
                   fallback |-> Routing!FallbackReason(Decided, Routing!PositionOf(InOrder, Selected), Reported)]
    BY DEF SearchReceipt, Routing!Receipt, InOrder, Selected, Decided, Reported
  <1> HIDE DEF receipt
  <1>2. Selected \in Workers \cup {None} /\ 1 \in Workers
    BY RaceAssumption DEF RaceInv, RaceShape, Selected
  <1>3. DOMAIN InOrder = Workers /\ \A p \in Workers : InOrder[p] = p
    BY DEF InOrder
  <1>4. DOMAIN Decided = Workers /\ \A p \in Workers : Decided[p].decision = "selected" <=> p = Selected
    BY DecidedShape DEF Decision
  <1>5. Selected # None => Routing!PositionOf(InOrder, Selected) = Selected
    BY <1>2, <1>3 DEF Routing!PositionOf
  <1>6. \A p \in Workers : Routing!ValidDecision(receipt, Attempts, p)
    BY <1>1, DecisionValid
  <1>7. Routing!ValidFallback(receipt)
    <2> SUFFICES ASSUME NEW i \in Workers, Decided[i].decision = "selected"
                 PROVE  /\ i = 1 <=> receipt.fallback = "none"
                        /\ receipt.fallback = "selected_failed" => Routing!Before(Decided, i, "attempted_failed")
                        /\ receipt.fallback = "insufficient_results" => Routing!Before(Decided, i, "attempted_no_selection")
                        /\ receipt.fallback = "selected_skipped" => Routing!Before(Decided, i, "skipped")
      BY <1>1, <1>4 DEF Routing!ValidFallback
    <2>1. i = Selected /\ Selected # None
      BY <1>4, EndsAssumption
    <2>2. receipt.fallback = Routing!FallbackReason(Decided, Selected, Reported)
      BY <1>1, <1>5, <2>1
    <2>3. CASE i = 1
      <3>1. winner = 1
        BY <2>1, <2>3 DEF Selected
      <3>2. receipt.fallback = "none"
        BY <2>1, <2>2, <2>3, <3>1 DEF Routing!FallbackReason, Reported
      <3> QED
        BY <2>3, <3>2
    <2>4. CASE i # 1
      BY <2>1, <2>2, <2>4, FallbackTold
    <2> QED
      BY <2>3, <2>4
  <1>8. Routing!Valid(receipt, Attempts)
    <2>1. Routing!ValidOrigin(receipt)
      BY <1>1 DEF Routing!ValidOrigin
    <2>2. Selected # None => \E i \in Workers : Decided[i].decision = "selected"
      BY <1>2, <1>4
    <2> QED
      BY <1>1, <1>3, <1>4, <1>6, <1>7, <2>1, <2>2 DEF Routing!Valid
  <1>9. Routing!Valid(Routing!CacheHitReceipt(receipt), <<>>)
    <2> DEFINE hitReceipt == Routing!CacheHitReceipt(receipt)
               chosen == {i \in Workers : Decided[i].decision = "selected"}
    <2>1. chosen = IF Selected = None THEN {} ELSE {Selected}
      BY <1>2, <1>4, EndsAssumption
    <2>2. {i \in DOMAIN receipt.decisions : receipt.decisions[i].decision = "selected"} = chosen
      BY <1>1, <1>4
    <2>3. hitReceipt = [order |-> <<>>, selected |-> None, decisions |-> <<>>, fallback |-> "none",
                        origin |-> <<[order |-> InOrder, selected |-> Selected, told |-> chosen]>>]
      BY <1>1, <2>1, <2>2 DEF Routing!CacheHitReceipt
    <2> HIDE DEF hitReceipt, chosen
    <2>4. Routing!ValidOrigin(hitReceipt)
      <3>1. /\ \A j \in chosen : j \in DOMAIN InOrder /\ InOrder[j] = Selected
            /\ chosen = {} <=> Selected = None
        BY <1>2, <1>3, <2>1
      <3> QED
        BY <2>3, <3>1 DEF Routing!ValidOrigin
    <2>5. Routing!ValidFallback(hitReceipt)
      BY <2>3 DEF Routing!ValidFallback
    <2> QED
      BY <2>3, <2>4, <2>5 DEF Routing!Valid, hitReceipt
  <1> QED
    BY <1>8, <1>9 DEF Routing!Deliverable, receipt

-----------------------------------------------------------------------------
\* Whatever the order in which threads end, callbacks run and time passes, a search runs at
\* most two provider calls at once, and it ends circuits' windows by force only when none of
\* its calls runs or can run (_race_providers, _execute_search_v3).
THEOREM AtMostTwoCalls == RaceSpec => []SpendsAtMostTwo
  <1>1. RaceSpec => []RaceInv
    BY RaceInvariant
  <1>2. RaceInv => SpendsAtMostTwo
    BY SpendsFromInv
  <1> QED
    BY <1>1, <1>2, PTL

\* A search that its deadline did not cut comes back without results only when every
\* candidate has been tried, has ended, and had none (_race_providers).
THEOREM NoAnswerIsLost == RaceSpec => []NoAnswerLost
  <1>1. RaceSpec => []RaceInv
    BY RaceInvariant
  <1>2. RaceInv => NoAnswerLost
    BY NoAnswerLostFromInv
  <1> QED
    BY <1>1, <1>2, PTL

\* Every candidate's receipt tells what became of its call, and the routing receipt built
\* from them is never refused by its own validator, now or from the cache (_race_providers,
\* validate_routing_receipt_v3).
THEOREM ReceiptsAreTrue == RaceSpec => []ReceiptsTrue
  <1>1. RaceSpec => []RaceInv
    BY RaceInvariant
  <1>2. RaceInv => ReceiptsTrue
    BY ReceiptsFromInv, ReceiptDelivered DEF ReceiptsTrue, SearchReceiptDelivered
  <1> QED
    BY <1>1, <1>2, PTL
=============================================================================
