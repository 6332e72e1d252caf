------------------------ MODULE AttemptEngine_proofs ------------------------
(***************************************************************************)
(* Type correctness and budget conservation of AttemptEngine.execute, for    *)
(* any number of calls, requests, providers and limits; before them, what    *)
(* the circuit table alone guarantees.                                       *)
(***************************************************************************)
EXTENDS AttemptEngine, FiniteSetTheorems, TLAPS

-----------------------------------------------------------------------------
(* The circuit table                                                       *)
(*                                                                         *)
(* What the table guarantees whatever its callers do, and in any order:     *)
(* nothing in this part depends on who calls the transactions.              *)

CircuitInv == CircuitTypeOK /\ RowsSane

\* A record that may stand in bucket c.
GoodRow(r, c) == r \in Records /\ BucketSane(r, c)

-----------------------------------------------------------------------------
\* The invariant, bucket by bucket.
LEMMA InvIsGoodRows ==
    ASSUME row \in [Keys -> [Classes -> Records]]
    PROVE  CircuitInv <=> \A k \in Keys, c \in Classes : GoodRow(row[k][c], c)
  BY DEF CircuitInv, CircuitTypeOK, RowsSane, GoodRow

LEMMA AbsentIsGood == \A c \in Classes : GoodRow(Absent, c)
  BY CircuitAssumption DEF Absent, GoodRow, Records, BucketSane, CircuitStates

\* Replacing one bucket by a good record keeps the table good.
LEMMA PutInv ==
    ASSUME CircuitInv, NEW k \in Keys, NEW c \in Classes, NEW r, GoodRow(r, c), Put(k, c, r)
    PROVE  CircuitInv'
  <1>1. row' \in [Keys -> [Classes -> Records]]
    BY DEF CircuitInv, CircuitTypeOK, Put, GoodRow
  <1>2. \A j \in Keys, d \in Classes :
            row'[j][d] = IF j = k /\ d = c THEN r ELSE row[j][d]
    BY DEF CircuitInv, CircuitTypeOK, Put
  <1>3. \A j \in Keys, d \in Classes : BucketSane(row'[j][d], d)
    BY <1>2 DEF CircuitInv, RowsSane, GoodRow
  <1> QED
    BY <1>1, <1>3 DEF CircuitInv, CircuitTypeOK, RowsSane

-----------------------------------------------------------------------------
\* The record each transaction writes is a good one.

LEMMA FailureRowGood ==
    ASSUME CircuitInv, NEW k \in Keys, NEW c \in Classes, NEW window \in OpenFor[c]
    PROVE  GoodRow([state |-> StateFor(c), count |-> Counted(row[k][c].count),
                    left |-> window], c)
  <1>1. window \in 1 .. MaxOpen /\ window \in (-MaxAge) .. MaxOpen
    BY CircuitAssumption
  <1>2. row[k][c].count \in 0 .. FailuresToOpen
    BY DEF CircuitInv, CircuitTypeOK, Records
  <1>3. Counted(row[k][c].count) \in 1 .. FailuresToOpen
    BY <1>2, CircuitAssumption DEF Counted
  <1>4. StateFor(c) \in CircuitStates \ {"CLOSED", "HALF_OPEN"}
    BY DEF StateFor, CircuitStates, Classes
  <1> QED
    BY <1>1, <1>3, <1>4, CircuitAssumption DEF GoodRow, Records, BucketSane

LEMMA LeasedRowGood ==
    ASSUME CircuitInv, NEW k \in Keys, NEW c \in Classes, NEW age \in 0 .. MaxAge,
           row[k][c].state # "CLOSED"
    PROVE  GoodRow([row[k][c] EXCEPT !.state = "HALF_OPEN", !.left = Lease - age], c)
  <1> DEFINE new == [row[k][c] EXCEPT !.state = "HALF_OPEN", !.left = Lease - age]
  <1>1. row[k][c] \in Records /\ row[k][c].count >= 1
    BY DEF CircuitInv, CircuitTypeOK, RowsSane, BucketSane
  <1>2. Lease - age \in (-MaxAge) .. MaxOpen /\ Lease - age <= Lease
    BY CircuitAssumption
  <1>3. new \in Records
    BY <1>1, <1>2 DEF Records, CircuitStates
  <1>4. new.state = "HALF_OPEN" /\ new.left = Lease - age /\ new.count = row[k][c].count
    BY <1>1 DEF Records
  <1> QED
    BY <1>1, <1>2, <1>3, <1>4 DEF GoodRow, BucketSane

LEMMA EndedRowGood ==
    ASSUME CircuitInv, NEW k \in Keys, NEW c \in Classes, row[k][c].state # "CLOSED"
    PROVE  GoodRow([row[k][c] EXCEPT !.left = 0], c)
  <1> DEFINE new == [row[k][c] EXCEPT !.left = 0]
  <1>1. row[k][c] \in Records /\ BucketSane(row[k][c], c)
    BY DEF CircuitInv, CircuitTypeOK, RowsSane
  <1>2. 0 \in (-MaxAge) .. MaxOpen /\ 0 <= Lease
    BY CircuitAssumption
  <1>3. new \in Records
    BY <1>1, <1>2 DEF Records
  <1>4. new.state = row[k][c].state /\ new.left = 0 /\ new.count = row[k][c].count
    BY <1>1 DEF Records
  <1> QED
    BY <1>1, <1>2, <1>3, <1>4 DEF GoodRow, BucketSane

LEMMA OlderRowGood ==
    ASSUME CircuitInv, NEW k \in Keys, NEW c \in Classes
    PROVE  GoodRow(Older(row[k][c]), c)
  <1> DEFINE old == row[k][c]
  <1>1. old \in Records /\ BucketSane(old, c)
    BY DEF CircuitInv, CircuitTypeOK, RowsSane
  <1>2. CASE old.state # "CLOSED" /\ old.left > -MaxAge
    <2>1. Older(old) = [old EXCEPT !.left = old.left - 1]
      BY <1>2 DEF Older
    <2>2. old.left - 1 \in (-MaxAge) .. MaxOpen /\ old.left \in Int
      BY <1>1, <1>2, CircuitAssumption DEF Records
    <2>3. Older(old) \in Records
      BY <1>1, <2>1, <2>2 DEF Records
    <2>4. /\ Older(old).state = old.state
          /\ Older(old).count = old.count
          /\ Older(old).left = old.left - 1
      BY <1>1, <2>1 DEF Records
    <2> QED
      BY <1>1, <1>2, <2>2, <2>3, <2>4, CircuitAssumption DEF GoodRow, BucketSane
  <1>3. CASE ~ (old.state # "CLOSED" /\ old.left > -MaxAge)
    <2>1. Older(old) = old
      BY <1>1, <1>3 DEF Older, Records
    <2> QED
      BY <1>1, <2>1 DEF GoodRow
  <1> QED
    BY <1>2, <1>3

-----------------------------------------------------------------------------
\* Every transaction, and the clock, keeps the table good.

LEMMA RecordFailureInv ==
    ASSUME CircuitInv, NEW k \in Keys, NEW c \in Classes, NEW window \in OpenFor[c],
           RecordFailure(k, c, window)
    PROVE  CircuitInv'
  BY FailureRowGood, PutInv DEF RecordFailure

LEMMA RecordSuccessInv ==
    ASSUME CircuitInv, NEW k \in Keys, NEW c \in Classes, RecordSuccess(k, c)
    PROVE  CircuitInv'
  BY AbsentIsGood, PutInv DEF RecordSuccess

LEMMA ClaimHalfOpenInv ==
    ASSUME CircuitInv, NEW k \in Keys, NEW c \in Classes, NEW age \in 0 .. MaxAge,
           ClaimHalfOpen(k, c, age)
    PROVE  CircuitInv'
  BY LeasedRowGood, PutInv DEF ClaimHalfOpen, CanClaim

LEMMA UnchangedRowInv == CircuitInv /\ UNCHANGED row => CircuitInv'
  BY DEF CircuitInv, CircuitTypeOK, RowsSane

LEMMA ReleaseHalfOpenInv ==
    ASSUME CircuitInv, NEW k \in Keys, NEW c \in Classes, ReleaseHalfOpen(k, c)
    PROVE  CircuitInv'
  <1>1. CASE row[k][c].state = "HALF_OPEN"
    BY <1>1, EndedRowGood, PutInv DEF ReleaseHalfOpen
  <1>2. CASE row[k][c].state # "HALF_OPEN"
    BY <1>2, UnchangedRowInv DEF ReleaseHalfOpen
  <1> QED
    BY <1>1, <1>2

LEMMA ExpireCircuitInv ==
    ASSUME CircuitInv, NEW k \in Keys, NEW c \in Classes, ExpireCircuit(k, c)
    PROVE  CircuitInv'
  <1>1. CASE row[k][c].state = "OPEN" /\ row[k][c].left > 0
    BY <1>1, EndedRowGood, PutInv DEF ExpireCircuit
  <1>2. CASE ~ (row[k][c].state = "OPEN" /\ row[k][c].left > 0)
    BY <1>2, UnchangedRowInv DEF ExpireCircuit
  <1> QED
    BY <1>1, <1>2

LEMMA TickRowsInv ==
    ASSUME CircuitInv, TickRows
    PROVE  CircuitInv'
  <1>1. \A k \in Keys, c \in Classes : row'[k][c] = Older(row[k][c])
    BY DEF TickRows
  <1>2. \A k \in Keys, c \in Classes : row'[k][c] \in Records /\ BucketSane(row'[k][c], c)
    BY <1>1, OlderRowGood DEF GoodRow
  <1>3. row' \in [Keys -> [Classes -> Records]]
    BY <1>1, <1>2 DEF TickRows
  <1> QED
    BY <1>2, <1>3 DEF CircuitInv, CircuitTypeOK, RowsSane

LEMMA CircuitNextInv == CircuitInv /\ [CircuitNext]_row => CircuitInv'
  <1> SUFFICES ASSUME CircuitInv, [CircuitNext]_row PROVE CircuitInv'
    OBVIOUS
  <1>1. CASE UNCHANGED row
    BY <1>1, UnchangedRowInv
  <1>2. CASE TickRows
    BY <1>2, TickRowsInv
  <1>3. ASSUME NEW k \in Keys, NEW c \in Classes, NEW window \in OpenFor[c],
               RecordFailure(k, c, window)
        PROVE  CircuitInv'
    BY <1>3, RecordFailureInv
  <1>4. ASSUME NEW k \in Keys, NEW c \in Classes, RecordSuccess(k, c)
        PROVE  CircuitInv'
    BY <1>4, RecordSuccessInv
  <1>5. ASSUME NEW k \in Keys, NEW c \in Classes, NEW age \in 0 .. MaxAge,
               ClaimHalfOpen(k, c, age)
        PROVE  CircuitInv'
    BY <1>5, ClaimHalfOpenInv
  <1>6. ASSUME NEW k \in Keys, NEW c \in Classes, ReleaseHalfOpen(k, c)
        PROVE  CircuitInv'
    BY <1>6, ReleaseHalfOpenInv
  <1>7. ASSUME NEW k \in Keys, NEW c \in Classes, ExpireCircuit(k, c)
        PROVE  CircuitInv'
    BY <1>7, ExpireCircuitInv
  <1> QED
    BY <1>1, <1>2, <1>3, <1>4, <1>5, <1>6, <1>7 DEF CircuitNext

LEMMA CircuitInitInv == CircuitInit => CircuitInv
  BY AbsentIsGood DEF CircuitInit, CircuitInv, CircuitTypeOK, RowsSane, GoodRow

-----------------------------------------------------------------------------
\* Whatever sequence of record_failure, record_success, admit, release_half_open and
\* expire_circuit calls hits the table, its rows stay in their domains: no window is
\* longer than MAX_OPEN_SECONDS.
THEOREM CircuitTypeCorrect == CircuitSpec => []CircuitTypeOK
  <1>1. CircuitInit => CircuitInv
    BY CircuitInitInv
  <1>2. CircuitInv /\ [CircuitNext]_row => CircuitInv'
    BY CircuitNextInv
  <1>3. CircuitInv => CircuitTypeOK
    BY DEF CircuitInv
  <1> QED
    BY <1>1, <1>2, <1>3, PTL DEF CircuitSpec

\* ... and they stay sane: a bucket that is not closed counts a failure, holds only
\* its own kind of block, and no probe lease outlasts Lease.
THEOREM CircuitSane == CircuitSpec => []RowsSane
  <1>1. CircuitInit => CircuitInv
    BY CircuitInitInv
  <1>2. CircuitInv /\ [CircuitNext]_row => CircuitInv'
    BY CircuitNextInv
  <1>3. CircuitInv => RowsSane
    BY DEF CircuitInv
  <1> QED
    BY <1>1, <1>2, <1>3, PTL DEF CircuitSpec

-----------------------------------------------------------------------------
(* The inductive invariant                                                 *)

\* What the step a call stands at says about the rest of its local state.
CallSane(c) ==
    /\ c.pc \in {"claim", "expire"} => c.want # None
    /\ c.pc = "unlease" => c.lease # None /\ c.out \in {"stop", "end"}
    /\ c.pc = "record" => c.err # None
    /\ c.pc \in {"settle", "judge"} => c.out \in {"ok", "error", "raise", "unsent"}
    /\ c.pc = "sleep" => c.try < MaxAttempts - 1
    \* An error outside the health classes is never recorded: it only passes through.
    /\ \/ c.err \in Classes \cup {None}
       \/ c.pc \in {"settle", "judge"} /\ c.out = "error"
       \/ c.pc = "unlease" /\ c.out = "end"
    \* Who holds a daily unit, and when.
    /\ c.daily => c.pc \in {"call", "sent", "settle"}
    /\ c.pc = "settle" => c.daily
    /\ c.pc \in {"configure", "daily"} => DailyLimits # {}
    /\ c.pc \in {"call", "sent"} => (c.daily <=> DailyLimits # {})
    /\ c.sent => c.daily /\ c.pc \in {"sent", "settle"}

GoodCall(c) == c \in CallRecords /\ CallSane(c)

CallsOK == call \in [Calls -> CallRecords] /\ \A p \in Calls : CallSane(call[p])

-----------------------------------------------------------------------------
LEMMA SetOK ==
    ASSUME CallsOK, NEW p \in Calls, NEW c, GoodCall(c), Set(p, c)
    PROVE  CallsOK'
  <1>1. call' \in [Calls -> CallRecords]
    BY DEF CallsOK, Set, GoodCall
  <1>2. \A q \in Calls : call'[q] = IF q = p THEN c ELSE call[q]
    BY DEF CallsOK, Set
  <1> QED
    BY <1>1, <1>2 DEF CallsOK, GoodCall

LEMMA IdleGood ==
    ASSUME NEW pc \in {"ready", "over"}
    PROVE  GoodCall(Idle(pc))
  BY EngineAssumption, CircuitAssumption
     DEF GoodCall, Idle, CallRecords, CallSane, Steps

\* A call that admission refused remembers whether an outage was the reason.
LEMMA DeniedGood ==
    ASSUME NEW outage \in BOOLEAN
    PROVE  GoodCall([Idle("over") EXCEPT !.outage = outage])
  <1> DEFINE c == [Idle("over") EXCEPT !.outage = outage]
  <1>1. GoodCall(Idle("over"))
    BY IdleGood
  <1>2. c \in CallRecords
    BY <1>1 DEF GoodCall, CallRecords
  <1>3. /\ c.pc = "over" /\ c.err = None /\ c.daily = FALSE /\ c.sent = FALSE
    BY DEF Idle
  <1> QED
    BY <1>2, <1>3 DEF GoodCall, CallSane

LEMMA EndOK ==
    ASSUME CallsOK, NEW p \in Calls, End(p)
    PROVE  CallsOK'
  BY SetOK, IdleGood DEF End

LEMMA StopOK ==
    ASSUME CallsOK, NEW p \in Calls, Stop(p), ~ call[p].daily,
           call[p].err \in Classes \cup {None}
    PROVE  CallsOK'
  <1>1. CASE call[p].err = None
    BY <1>1, EndOK DEF Stop
  <1>2. CASE call[p].err # None
    <2> DEFINE c == [call[p] EXCEPT !.pc = "record"]
    <2>1. c \in CallRecords
      BY DEF CallsOK, CallRecords, Steps
    <2>2. CallSane(c)
      BY <1>2 DEF CallsOK, CallRecords, CallSane
    <2> QED
      BY <1>2, <2>1, <2>2, SetOK DEF Stop, Goto, GoodCall
  <1> QED
    BY <1>1, <1>2

LEMMA LeaveOK ==
    ASSUME CallsOK, NEW p \in Calls, NEW next \in {"stop", "end"}, Leave(p, next),
           ~ call[p].daily, call[p].err \in Classes \cup {None} \/ next = "end"
    PROVE  CallsOK'
  <1>1. CASE call[p].lease # None
    <2> DEFINE c == [call[p] EXCEPT !.pc = "unlease", !.out = next]
    <2>1. c \in CallRecords
      <3>1. call[p] \in CallRecords /\ "unlease" \in Steps
        BY DEF CallsOK, Steps
      <3>2. CASE next = "stop"
        BY <3>1, <3>2 DEF CallRecords
      <3>3. CASE next = "end"
        BY <3>1, <3>3 DEF CallRecords
      <3> QED
        BY <3>2, <3>3
    <2>2. CallSane(c)
      BY <1>1 DEF CallsOK, CallRecords, CallSane
    <2> QED
      BY <1>1, <2>1, <2>2, SetOK DEF Leave, GoodCall
  <1>2. CASE call[p].lease = None
    BY <1>2, EndOK, StopOK DEF Leave
  <1> QED
    BY <1>1, <1>2

LEMMA GotoOK ==
    ASSUME CallsOK, NEW p \in Calls, NEW pc \in Steps, Goto(p, pc),
           CallSane([call[p] EXCEPT !.pc = pc])
    PROVE  CallsOK'
  <1>1. [call[p] EXCEPT !.pc = pc] \in CallRecords
    BY DEF CallsOK, CallRecords
  <1> QED
    BY <1>1, SetOK DEF Goto, GoodCall

-----------------------------------------------------------------------------
(* One lemma per action: the calls stay well formed                         *)

LEMMA LateOK ==
    ASSUME CallsOK, NEW p \in Calls, Late(p)
    PROVE  CallsOK'
  <1>1. ~ call[p].daily /\ call[p].err \in Classes \cup {None}
    BY DEF CallsOK, CallSane, Late
  <1> QED
    BY <1>1, StopOK DEF Late

LEMMA ReuseLeaseOK ==
    ASSUME CallsOK, NEW p \in Calls, ReuseLease(p)
    PROVE  CallsOK'
  <1>1. CallSane([call[p] EXCEPT !.pc = "reserve"])
    BY DEF CallsOK, CallRecords, CallSane, ReuseLease
  <1> QED
    BY <1>1, GotoOK DEF ReuseLease, Steps

LEMMA FirstOfMember ==
    ASSUME NEW S \in SUBSET Classes, S # {}
    PROVE  FirstOf(S) \in S
  <1> DEFINE first(i) == /\ CheckOrder[i] \in S
                         /\ \A j \in 1 .. i - 1 : CheckOrder[j] \notin S
  <1>1. DOMAIN CheckOrder = 1 .. 5
    BY DEF CheckOrder
  <1>2. \E i \in 1 .. 5 : first(i)
    <2>1. CASE CheckOrder[1] \in S
      BY <2>1
    <2>2. CASE CheckOrder[1] \notin S /\ CheckOrder[2] \in S
      BY <2>2
    <2>3. CASE CheckOrder[1] \notin S /\ CheckOrder[2] \notin S /\ CheckOrder[3] \in S
      BY <2>3
    <2>4. CASE /\ CheckOrder[1] \notin S /\ CheckOrder[2] \notin S
               /\ CheckOrder[3] \notin S /\ CheckOrder[4] \in S
      BY <2>4
    <2>5. CASE /\ CheckOrder[1] \notin S /\ CheckOrder[2] \notin S
               /\ CheckOrder[3] \notin S /\ CheckOrder[4] \notin S
      <3>1. CheckOrder[5] \in S
        BY <2>5 DEF CheckOrder, Classes
      <3> QED
        BY <2>5, <3>1
    <2> QED
      BY <2>1, <2>2, <2>3, <2>4, <2>5
  <1> QED
    BY <1>1, <1>2 DEF FirstOf

LEMMA AdmitReadOK ==
    ASSUME CallsOK, NEW p \in Calls, AdmitRead(p)
    PROVE  CallsOK'
  <1> DEFINE buckets == row[Key(p)]
             denied == [Idle("over") EXCEPT !.outage = FirstOf(Active(buckets)) \in CountedClasses]
             probe  == [call[p] EXCEPT !.pc = "claim", !.want = FirstOf(Expired(buckets)),
                                       !.failing = Failing(buckets)]
             pass   == [call[p] EXCEPT !.pc = "reserve", !.enc = @ \cup Failing(buckets)]
  <1> USE DEF AdmitRead, MayAsk
  <1>1. /\ call[p] \in CallRecords /\ CallSane(call[p]) /\ call[p].pc \in {"ready", "top"}
        /\ Failing(buckets) \in SUBSET CountedClasses
        /\ Failing(buckets) \in SUBSET Classes
    BY DEF CallsOK, Failing, CountedClasses, Classes
  <1>2. CASE Active(buckets) # {} /\ call[p].err # None /\ Goto(p, "record")
    <2>1. CallSane([call[p] EXCEPT !.pc = "record"])
      BY <1>1, <1>2 DEF CallRecords, CallSane
    <2> QED
      BY <1>2, <2>1, GotoOK DEF Steps
  <1>3. CASE Set(p, denied)
    <2>1. (FirstOf(Active(buckets)) \in CountedClasses) \in BOOLEAN
      OBVIOUS
    <2>2. GoodCall(denied)
      BY <2>1, DeniedGood, Zenon
    <2> QED
      BY <1>3, <2>2, SetOK
  <1>4. CASE Expired(buckets) # {} /\ Set(p, probe)
    <2>1. FirstOf(Expired(buckets)) \in Classes
      BY <1>4, FirstOfMember DEF Expired
    <2>2. probe \in CallRecords
      <3>1. "claim" \in Steps /\ FirstOf(Expired(buckets)) \in Classes \cup {None}
        BY <2>1 DEF Steps
      <3> HIDE DEF buckets
      <3> QED
        BY ONLY <1>1, <3>1 DEF CallRecords
    <2>3. CallSane(probe)
      BY <1>1, <2>1, EngineAssumption DEF CallRecords, CallSane
    <2> QED
      BY <1>4, <2>2, <2>3, SetOK DEF GoodCall
  <1>5. CASE Set(p, pass)
    <2>1. pass \in CallRecords
      <3>1. "reserve" \in Steps /\ call[p].enc \cup Failing(buckets) \in SUBSET Classes
        BY <1>1 DEF CallRecords, Steps
      <3> HIDE DEF buckets
      <3> QED
        BY ONLY <1>1, <3>1 DEF CallRecords
    <2>2. CallSane(pass)
      BY <1>1 DEF CallRecords, CallSane
    <2> QED
      BY <1>5, <2>1, <2>2, SetOK DEF GoodCall
  <1> QED
    BY <1>2, <1>3, <1>4, <1>5

LEMMA AdmitBlindOK ==
    ASSUME CallsOK, NEW p \in Calls, AdmitBlind(p)
    PROVE  CallsOK'
  <1> DEFINE c == [call[p] EXCEPT !.pc = "reserve", !.want = None, !.failing = {}, !.age = 0]
  <1>1. /\ call[p] \in CallRecords /\ CallSane(call[p])
        /\ call[p].pc \in {"ready", "top", "claim"}
    BY DEF CallsOK, AdmitBlind, MayAsk
  <1>2. /\ "reserve" \in Steps /\ None \in Classes \cup {None}
        /\ {} \in SUBSET CountedClasses /\ 0 \in 0 .. MaxAge
    BY CircuitAssumption DEF Steps
  <1>3. c \in CallRecords
    BY <1>1, <1>2 DEF CallRecords
  <1>4. CallSane(c)
    BY <1>1 DEF CallRecords, CallSane
  <1> QED
    BY <1>3, <1>4, SetOK DEF AdmitBlind, GoodCall

LEMMA ClaimOK ==
    ASSUME CallsOK, NEW p \in Calls, Claim(p)
    PROVE  CallsOK'
  <1> DEFINE c == [call[p] EXCEPT !.pc = "reserve", !.lease = call[p].want,
                                  !.clock = call[p].age,
                                  !.enc = @ \cup {call[p].want} \cup call[p].failing,
                                  !.want = None, !.failing = {}, !.age = 0]
  <1>1. call[p] \in CallRecords /\ CallSane(call[p]) /\ call[p].pc = "claim"
    BY DEF CallsOK, Claim
  <1>2. call[p].want \in Classes /\ call[p].failing \in SUBSET Classes
    BY <1>1 DEF CallRecords, CallSane, CountedClasses, Classes
  <1>3. c \in CallRecords
    <2>1. /\ "reserve" \in Steps /\ None \in Classes \cup {None}
          /\ call[p].want \in Classes \cup {None}
          /\ {} \in SUBSET CountedClasses /\ 0 \in 0 .. MaxAge
      BY <1>2, CircuitAssumption DEF Steps
    <2>2. call[p].age \in Nat
      BY <1>1, CircuitAssumption DEF CallRecords
    <2>3. call[p].enc \cup {call[p].want} \cup call[p].failing \in SUBSET Classes
      BY <1>1, <1>2 DEF CallRecords
    <2> QED
      BY <1>1, <2>1, <2>2, <2>3 DEF CallRecords
  <1>4. CallSane(c)
    BY <1>1, <1>2 DEF CallRecords, CallSane
  <1> QED
    BY <1>3, <1>4, SetOK DEF Claim, GoodCall

LEMMA ClaimLostOK ==
    ASSUME CallsOK, NEW p \in Calls, ClaimLost(p)
    PROVE  CallsOK'
  <1> DEFINE failed == [call[p] EXCEPT !.pc = "record", !.want = None, !.failing = {}, !.age = 0]
             denied == [Idle("over") EXCEPT !.outage = call[p].want \in CountedClasses]
  <1>1. call[p] \in CallRecords /\ CallSane(call[p]) /\ call[p].pc = "claim"
    BY DEF CallsOK, ClaimLost
  <1>2. CASE call[p].err # None /\ Set(p, failed)
    <2>1. failed \in CallRecords
      <3>1. /\ "record" \in Steps /\ None \in Classes \cup {None}
            /\ {} \in SUBSET CountedClasses /\ 0 \in 0 .. MaxAge
        BY CircuitAssumption DEF Steps
      <3> QED
        BY <1>1, <3>1 DEF CallRecords
    <2>2. CallSane(failed)
      BY <1>1, <1>2 DEF CallRecords, CallSane
    <2> QED
      BY <1>2, <2>1, <2>2, SetOK DEF GoodCall
  <1>3. CASE Set(p, denied)
    <2>1. (call[p].want \in CountedClasses) \in BOOLEAN
      OBVIOUS
    <2>2. GoodCall(denied)
      BY <2>1, DeniedGood, Zenon
    <2> QED
      BY <1>3, <2>2, SetOK
  <1> QED
    BY <1>2, <1>3 DEF ClaimLost

LEMMA ReserveRequestOK ==
    ASSUME CallsOK, NEW p \in Calls, ReserveRequest(p)
    PROVE  CallsOK'
  <1>1. AfterReserve \in Steps
    BY DEF AfterReserve, Steps
  <1>2. CallSane([call[p] EXCEPT !.pc = AfterReserve])
    <2>1. call[p] \in CallRecords /\ CallSane(call[p]) /\ call[p].pc = "reserve"
      BY DEF CallsOK, ReserveRequest
    <2> QED
      BY <2>1 DEF CallRecords, CallSane, AfterReserve
  <1> QED
    BY <1>1, <1>2, GotoOK DEF ReserveRequest

LEMMA RequestBudgetBlockedOK ==
    ASSUME CallsOK, NEW p \in Calls, RequestBudgetBlocked(p)
    PROVE  CallsOK'
  <1>1. ~ call[p].daily /\ call[p].err \in Classes \cup {None}
    BY DEF CallsOK, CallSane, RequestBudgetBlocked
  <1> QED
    BY <1>1, LeaveOK DEF RequestBudgetBlocked

LEMMA ConfigureDailyOK ==
    ASSUME CallsOK, NEW p \in Calls, ConfigureDaily(p)
    PROVE  CallsOK'
  <1>1. CallSane([call[p] EXCEPT !.pc = "daily"])
    BY DEF CallsOK, CallRecords, CallSane, ConfigureDaily
  <1> QED
    BY <1>1, GotoOK DEF ConfigureDaily, Steps

LEMMA ReserveDailyOK ==
    ASSUME CallsOK, NEW p \in Calls, ReserveDaily(p)
    PROVE  CallsOK'
  <1> DEFINE c == [call[p] EXCEPT !.pc = "call", !.daily = TRUE]
  <1>1. call[p] \in CallRecords /\ CallSane(call[p]) /\ call[p].pc = "daily"
    BY DEF CallsOK, ReserveDaily
  <1>2. c \in CallRecords
    BY <1>1 DEF CallRecords, Steps
  <1>3. CallSane(c)
    BY <1>1 DEF CallRecords, CallSane
  <1> QED
    BY <1>2, <1>3, SetOK DEF ReserveDaily, GoodCall

LEMMA DailyBudgetBlockedOK ==
    ASSUME CallsOK, NEW p \in Calls, DailyBudgetBlocked(p)
    PROVE  CallsOK'
  <1>1. ~ call[p].daily /\ call[p].err \in Classes \cup {None}
    BY DEF CallsOK, CallSane, DailyBudgetBlocked
  <1> QED
    BY <1>1, LeaveOK DEF DailyBudgetBlocked

LEMMA DispatchOK ==
    ASSUME CallsOK, NEW p \in Calls, Dispatch(p)
    PROVE  CallsOK'
  <1> DEFINE c == [call[p] EXCEPT !.pc = "sent", !.sent = call[p].daily]
  <1>1. call[p] \in CallRecords /\ CallSane(call[p]) /\ call[p].pc = "call"
    BY DEF CallsOK, Dispatch
  <1>2. c \in CallRecords
    BY <1>1 DEF CallRecords, Steps
  <1>3. CallSane(c)
    BY <1>1 DEF CallRecords, CallSane
  <1> QED
    BY <1>2, <1>3, SetOK DEF Dispatch, GoodCall

\* The end of a try: the outcome is kept and a daily unit is settled next.
LEMMA TryEnds ==
    ASSUME CallsOK, NEW p \in Calls, call[p].pc \in {"call", "sent"},
           NEW out \in {"ok", "raise", "unsent"},
           Set(p, [call[p] EXCEPT !.pc = Settling(p), !.out = out])
    PROVE  CallsOK'
  <1> DEFINE c == [call[p] EXCEPT !.pc = Settling(p), !.out = out]
  <1>1. call[p] \in CallRecords /\ CallSane(call[p])
    BY DEF CallsOK
  <1>2. /\ Settling(p) \in Steps
        /\ out \in {"ok", "error", "raise", "unsent", "stop", "end", None}
    BY DEF Settling, Steps
  <1>3. c \in CallRecords
    BY <1>1, <1>2 DEF CallRecords
  <1>4. CallSane(c)
    BY <1>1 DEF CallRecords, CallSane, Settling
  <1> QED
    BY <1>3, <1>4, SetOK DEF GoodCall

LEMMA TryFails ==
    ASSUME CallsOK, NEW p \in Calls, call[p].pc \in {"call", "sent"},
           NEW class \in ErrorClasses,
           Set(p, [call[p] EXCEPT !.pc = Settling(p), !.out = "error", !.err = class])
    PROVE  CallsOK'
  <1> DEFINE c == [call[p] EXCEPT !.pc = Settling(p), !.out = "error", !.err = class]
  <1>1. call[p] \in CallRecords /\ CallSane(call[p])
    BY DEF CallsOK
  <1>2. Settling(p) \in Steps /\ class \in ErrorClasses \cup {None}
    BY DEF Settling, Steps
  <1>3. c \in CallRecords
    BY <1>1, <1>2 DEF CallRecords
  <1>4. CallSane(c)
    BY <1>1 DEF CallRecords, CallSane, Settling
  <1> QED
    BY <1>3, <1>4, SetOK DEF GoodCall

LEMMA NotTriedOK ==
    ASSUME CallsOK, NEW p \in Calls, NotTried(p) \/ BatchNotTried(p)
    PROVE  CallsOK'
  BY TryEnds DEF NotTried, BatchNotTried

LEMMA ReturnOK ==
    ASSUME CallsOK, NEW p \in Calls, Return(p)
    PROVE  CallsOK'
  BY TryEnds, TryFails DEF Return

LEMMA FailUnsentOK ==
    ASSUME CallsOK, NEW p \in Calls, FailUnsent(p)
    PROVE  CallsOK'
  BY TryEnds, TryFails DEF FailUnsent

LEMMA SettleDailyOK ==
    ASSUME CallsOK, NEW p \in Calls, SettleDaily(p)
    PROVE  CallsOK'
  <1> DEFINE c == [call[p] EXCEPT !.pc = "judge", !.daily = FALSE, !.sent = FALSE]
  <1>1. call[p] \in CallRecords /\ CallSane(call[p]) /\ call[p].pc = "settle"
    BY DEF CallsOK, SettleDaily
  <1>2. c \in CallRecords
    BY <1>1 DEF CallRecords, Steps
  <1>3. CallSane(c)
    BY <1>1 DEF CallRecords, CallSane
  <1> QED
    BY <1>2, <1>3, SetOK DEF SettleDaily, GoodCall

LEMMA JudgeErrorOK ==
    ASSUME CallsOK, NEW p \in Calls, call[p].pc = "judge", call[p].out = "error",
           JudgeError(p)
    PROVE  CallsOK'
  <1> DEFINE again == [call[p] EXCEPT !.pc = "sleep", !.out = None, !.enc = @ \cup {call[p].err}]
  <1>1. call[p] \in CallRecords /\ CallSane(call[p]) /\ ~ call[p].daily
    BY DEF CallsOK, CallSane
  <1>2. CASE Leave(p, "end")
    BY <1>1, <1>2, LeaveOK
  <1>3. CASE call[p].err \in Classes /\ Goto(p, "record")
    <2>1. CallSane([call[p] EXCEPT !.pc = "record"])
      BY <1>1, <1>3, EngineAssumption DEF CallRecords, CallSane
    <2> QED
      BY <1>3, <2>1, GotoOK DEF Steps
  <1>4. CASE MayRetry(p) /\ Set(p, again)
    <2>1. call[p].err \in Classes /\ call[p].try < MaxAttempts - 1
      BY <1>4 DEF MayRetry, Retryable, Classes
    <2>2. again \in CallRecords
      <3>1. "sleep" \in Steps /\ call[p].enc \cup {call[p].err} \in SUBSET Classes
        BY <1>1, <2>1 DEF CallRecords, Steps
      <3> QED
        BY <1>1, <3>1 DEF CallRecords
    <2>3. CallSane(again)
      BY <1>1, <2>1 DEF CallRecords, CallSane
    <2> QED
      BY <1>4, <2>2, <2>3, SetOK DEF GoodCall
  <1> QED
    BY <1>2, <1>3, <1>4 DEF JudgeError

LEMMA JudgeOK ==
    ASSUME CallsOK, NEW p \in Calls, Judge(p)
    PROVE  CallsOK'
  <1>1. /\ call[p] \in CallRecords /\ CallSane(call[p]) /\ call[p].pc = "judge"
        /\ call[p].out \in {"ok", "error", "raise", "unsent"} /\ ~ call[p].daily
    BY DEF CallsOK, CallSane, Judge
  <1>2. CASE call[p].out = "ok"
    <2>1. CallSane([call[p] EXCEPT !.pc = "clear"])
      BY <1>1, <1>2 DEF CallRecords, CallSane
    <2> QED
      BY <1>2, <2>1, EndOK, GotoOK DEF Judge, Steps
  <1>3. CASE call[p].out = "unsent"
    <2>1. call[p].err \in Classes \cup {None}
      BY <1>1, <1>3 DEF CallSane
    <2> QED
      BY <1>1, <1>3, <2>1, LeaveOK DEF Judge
  <1>4. CASE call[p].out = "raise"
    BY <1>1, <1>4, LeaveOK DEF Judge
  <1>5. CASE call[p].out = "error"
    BY <1>1, <1>5, JudgeErrorOK DEF Judge
  <1> QED
    BY <1>1, <1>2, <1>3, <1>4, <1>5

LEMMA WakeOK ==
    ASSUME CallsOK, NEW p \in Calls, Wake(p)
    PROVE  CallsOK'
  <1> DEFINE c == [call[p] EXCEPT !.pc = "top", !.try = @ + 1]
  <1>1. call[p] \in CallRecords /\ CallSane(call[p]) /\ call[p].pc = "sleep"
    BY DEF CallsOK, Wake
  <1>2. CASE Set(p, c)
    <2>1. call[p].try + 1 \in 0 .. MaxAttempts - 1 /\ "top" \in Steps
      BY <1>1, EngineAssumption DEF CallRecords, CallSane, Steps
    <2>2. c \in CallRecords
      BY <1>1, <2>1 DEF CallRecords
    <2>3. CallSane(c)
      BY <1>1 DEF CallRecords, CallSane
    <2> QED
      BY <1>2, <2>2, <2>3, SetOK DEF GoodCall
  <1>3. CASE Leave(p, "end")
    <2>1. ~ call[p].daily
      BY <1>1 DEF CallSane
    <2> QED
      BY <1>3, <2>1, LeaveOK
  <1> QED
    BY <1>2, <1>3 DEF Wake

LEMMA ReleaseLeaseOK ==
    ASSUME CallsOK, NEW p \in Calls, ReleaseLease(p)
    PROVE  CallsOK'
  <1> DEFINE next == IF call[p].err # None THEN "record" ELSE "over"
             c == [call[p] EXCEPT !.pc = next, !.lease = None, !.clock = 0, !.out = None,
                                  !.enc = {}, !.try = 0]
  <1>1. call[p] \in CallRecords /\ CallSane(call[p]) /\ call[p].pc = "unlease"
    BY DEF CallsOK, ReleaseLease
  <1>2. CASE call[p].out = "stop"
    <2>1. /\ next \in Steps /\ None \in Classes \cup {None} /\ {} \in SUBSET Classes
          /\ 0 \in Nat /\ 0 \in 0 .. MaxAttempts - 1
      BY EngineAssumption DEF Steps
    <2>2. c \in CallRecords
      BY <1>1, <2>1 DEF CallRecords
    <2>3. CallSane(c)
      BY <1>1, <1>2 DEF CallRecords, CallSane
    <2> QED
      BY <1>2, <2>2, <2>3, SetOK DEF ReleaseLease, GoodCall
  <1>3. CASE call[p].out # "stop"
    BY <1>3, EndOK DEF ReleaseLease
  <1> QED
    BY <1>2, <1>3

LEMMA RecordVerdictOK ==
    ASSUME CallsOK, NEW p \in Calls, RecordVerdict(p)
    PROVE  CallsOK'
  BY EndOK DEF RecordVerdict

LEMMA ClearBucketOK ==
    ASSUME CallsOK, NEW p \in Calls, ClearBucket(p)
    PROVE  CallsOK'
  <1>1. call[p] \in CallRecords /\ CallSane(call[p]) /\ call[p].pc = "clear"
    BY DEF CallsOK, ClearBucket
  <1>2. CASE End(p)
    BY <1>2, EndOK
  <1>3. ASSUME NEW b \in call[p].enc, Set(p, [call[p] EXCEPT !.enc = @ \ {b}])
        PROVE  CallsOK'
    <2> DEFINE c == [call[p] EXCEPT !.enc = @ \ {b}]
    <2>1. call[p].enc \ {b} \in SUBSET Classes
      BY <1>1 DEF CallRecords
    <2>2. c \in CallRecords
      BY <1>1, <2>1 DEF CallRecords
    <2>3. CallSane(c)
      BY <1>1 DEF CallRecords, CallSane
    <2> QED
      BY <1>3, <2>2, <2>3, SetOK DEF GoodCall
  <1> QED
    BY <1>2, <1>3 DEF ClearBucket

\* The forced probe starts on a fresh slot.
LEMMA ExpiryGood ==
    ASSUME NEW want \in CountedClasses
    PROVE  GoodCall([Idle("expire") EXCEPT !.want = want])
  <1> DEFINE c == [Idle("expire") EXCEPT !.want = want]
  <1>1. Idle("expire") \in CallRecords
    BY EngineAssumption, CircuitAssumption DEF Idle, CallRecords, Steps
  <1>2. want \in Classes \cup {None} /\ want # None
    BY EngineAssumption DEF CountedClasses, Classes
  <1>3. c \in CallRecords
    BY <1>1, <1>2 DEF CallRecords
  <1>4. /\ c.pc = "expire" /\ c.want = want /\ c.err = None
        /\ c.daily = FALSE /\ c.sent = FALSE
    BY DEF Idle
  <1> QED
    BY <1>2, <1>3, <1>4 DEF GoodCall, CallSane

LEMMA LastResortOK ==
    ASSUME CallsOK, NEW p \in Calls, LastResort(p)
    PROVE  CallsOK'
  <1>1. GoodCall([Idle("expire") EXCEPT !.want = "TRANSIENT"])
    BY ExpiryGood DEF CountedClasses
  <1> QED
    BY <1>1, SetOK DEF LastResort

LEMMA ExpireWindowOK ==
    ASSUME CallsOK, NEW p \in Calls, ExpireWindow(p)
    PROVE  CallsOK'
  <1> DEFINE c == [call[p] EXCEPT !.want = "TIMEOUT"]
  <1>1. call[p] \in CallRecords /\ CallSane(call[p]) /\ call[p].pc = "expire"
    BY DEF CallsOK, ExpireWindow
  <1>2. CASE Set(p, c)
    <2>1. "TIMEOUT" \in Classes \cup {None} /\ "TIMEOUT" # None
      BY EngineAssumption DEF Classes
    <2>2. c \in CallRecords
      BY <1>1, <2>1 DEF CallRecords
    <2>3. CallSane(c)
      BY <1>1, <2>1 DEF CallRecords, CallSane
    <2> QED
      BY <1>2, <2>2, <2>3, SetOK DEF GoodCall
  <1>3. CASE Set(p, Idle("ready"))
    BY <1>3, IdleGood, SetOK
  <1> QED
    BY <1>2, <1>3 DEF ExpireWindow

\* The slots of one request are reset at once, by the next request or by a crash.
LEMMA ResetOK ==
    ASSUME CallsOK, NEW r, NEW pc \in {"ready", "over"},
           call' = [p \in Calls |-> IF RequestOf[p] = r THEN Idle(pc) ELSE call[p]]
    PROVE  CallsOK'
  BY IdleGood DEF CallsOK, GoodCall

LEMMA TickOK ==
    ASSUME CallsOK, Tick
    PROVE  CallsOK'
  <1> DEFINE age(p)   == IF call[p].pc = "claim" THEN call[p].age + 1 ELSE call[p].age
             clock(p) == IF call[p].lease # None THEN call[p].clock + 1 ELSE call[p].clock
             c(p) == [call[p] EXCEPT !.age = age(p), !.clock = clock(p)]
  <1>1. ASSUME NEW p \in Calls PROVE GoodCall(c(p))
    <2>1. call[p] \in CallRecords /\ CallSane(call[p])
      BY DEF CallsOK
    <2>2. call[p].pc = "claim" => call[p].age < MaxAge
      BY DEF Tick
    <2>3. age(p) \in 0 .. MaxAge /\ clock(p) \in Nat
      BY <2>1, <2>2, CircuitAssumption DEF CallRecords
    <2> HIDE DEF age, clock
    <2>4. c(p) \in CallRecords
      BY <2>1, <2>3 DEF CallRecords
    <2>5. CallSane(c(p))
      BY <2>1 DEF CallRecords, CallSane
    <2> QED
      BY <2>4, <2>5 DEF GoodCall
  <1>2. call' = [p \in Calls |-> c(p)]
    BY DEF Tick
  <1> QED
    BY <1>1, <1>2 DEF CallsOK, GoodCall

LEMMA CallStepOK ==
    ASSUME CallsOK, NEW p \in Calls, CallStep(p)
    PROVE  CallsOK'
  <1>1. CASE Admission(p)
    BY <1>1, LateOK, ReuseLeaseOK, AdmitReadOK, AdmitBlindOK, ClaimOK, ClaimLostOK
       DEF Admission
  <1>2. CASE Budgeting(p)
    BY <1>2, ReserveRequestOK, RequestBudgetBlockedOK, ConfigureDailyOK, ReserveDailyOK,
       DailyBudgetBlockedOK DEF Budgeting
  <1>3. CASE Calling(p)
    BY <1>3, DispatchOK, NotTriedOK, ReturnOK, FailUnsentOK, SettleDailyOK, JudgeOK, WakeOK
       DEF Calling
  <1>4. CASE Verdict(p)
    BY <1>4, ReleaseLeaseOK, RecordVerdictOK, ClearBucketOK DEF Verdict
  <1>5. CASE ExpireWindow(p)
    BY <1>5, ExpireWindowOK
  <1> QED
    BY <1>1, <1>2, <1>3, <1>4, <1>5 DEF CallStep

LEMMA CallsNextOK == CallsOK /\ [Next]_vars => CallsOK'
  <1> SUFFICES ASSUME CallsOK, [Next]_vars PROVE CallsOK'
    OBVIOUS
  <1>1. ASSUME UNCHANGED call PROVE CallsOK'
    BY <1>1 DEF CallsOK
  <1>2. ASSUME NEW p \in Calls, CallStep(p) PROVE CallsOK'
    BY <1>2, CallStepOK
  <1>3. ASSUME NEW p \in Calls, LastResort(p) PROVE CallsOK'
    BY <1>3, LastResortOK
  <1>4. ASSUME NEW r \in Requests, BeginRequest(r) PROVE CallsOK'
    BY <1>4, ResetOK DEF BeginRequest
  <1>5. ASSUME NEW r \in Requests, Crash(r) PROVE CallsOK'
    BY <1>5, ResetOK DEF Crash
  <1>6. ASSUME NEW r \in Requests, Approach(r) \/ Recover(r) PROVE CallsOK'
    BY <1>1, <1>6 DEF Approach, Recover
  <1>7. CASE Tick
    BY <1>7, TickOK
  <1>8. CASE UNCHANGED vars
    BY <1>1, <1>8 DEF vars
  <1> QED
    BY <1>2, <1>3, <1>4, <1>5, <1>6, <1>7, <1>8 DEF Next

LEMMA CallsInitOK == Init => CallsOK
  BY IdleGood DEF Init, CallsOK, GoodCall

-----------------------------------------------------------------------------
(* The engine only uses the store's transactions                            *)

LEMMA KeyIsKey == \A p \in Calls : Key(p) \in Keys
  BY EngineAssumption DEF Key

\* Every step of a call runs one transaction of the store, or none.
LEMMA CallStepStore ==
    ASSUME CallsOK, NEW p \in Calls, CallStep(p)
    PROVE  [CircuitNext]_row
  <1>1. call[p] \in CallRecords /\ CallSane(call[p]) /\ Key(p) \in Keys
    BY KeyIsKey DEF CallsOK
  <1>2. CASE Claim(p)
    <2>1. call[p].want \in Classes /\ call[p].age \in 0 .. MaxAge
      BY <1>1, <1>2 DEF CallRecords, CallSane, Claim
    <2> QED
      BY <1>1, <1>2, <2>1 DEF Claim, CircuitNext
  <1>3. CASE ReleaseLease(p)
    <2>1. call[p].lease \in Classes
      BY <1>1, <1>3 DEF CallRecords, CallSane, ReleaseLease
    <2> QED
      BY <1>1, <1>3, <2>1 DEF ReleaseLease, CircuitNext
  <1>4. CASE RecordVerdict(p)
    <2>1. call[p].err \in Classes
      BY <1>1, <1>4 DEF CallRecords, CallSane, RecordVerdict
    <2> QED
      BY <1>1, <1>4, <2>1 DEF RecordVerdict, CircuitNext
  <1>5. CASE ClearBucket(p)
    <2>1. call[p].enc \in SUBSET Classes
      BY <1>1 DEF CallRecords
    <2> QED
      BY <1>1, <1>5, <2>1 DEF ClearBucket, CircuitNext
  <1>6. CASE ExpireWindow(p)
    <2>1. call[p].want \in Classes
      BY <1>1, <1>6 DEF CallRecords, CallSane, ExpireWindow
    <2> QED
      BY <1>1, <1>6, <2>1 DEF ExpireWindow, CircuitNext
  <1>7. CASE Late(p) \/ ReuseLease(p) \/ AdmitRead(p) \/ AdmitBlind(p) \/ ClaimLost(p)
    BY <1>7 DEF Late, ReuseLease, AdmitRead, AdmitBlind, ClaimLost
  <1>8. CASE Budgeting(p)
    BY <1>8 DEF Budgeting, ReserveRequest, RequestBudgetBlocked, ConfigureDaily, ReserveDaily,
                DailyBudgetBlocked
  <1>9. CASE Calling(p)
    BY <1>9 DEF Calling, Dispatch, NotTried, Return, BatchNotTried, FailUnsent, SettleDaily,
                Judge, Wake
  <1> QED
    BY <1>2, <1>3, <1>4, <1>5, <1>6, <1>7, <1>8, <1>9 DEF CallStep, Admission, Verdict

LEMMA NextStore == CallsOK /\ [Next]_vars => [CircuitNext]_row
  <1> SUFFICES ASSUME CallsOK, [Next]_vars PROVE [CircuitNext]_row
    OBVIOUS
  <1>1. ASSUME NEW p \in Calls, CallStep(p) PROVE [CircuitNext]_row
    BY <1>1, CallStepStore
  <1>2. ASSUME NEW p \in Calls, LastResort(p) PROVE [CircuitNext]_row
    BY <1>2 DEF LastResort
  <1>3. ASSUME NEW r \in Requests, BeginRequest(r) \/ Approach(r) \/ Recover(r) \/ Crash(r)
        PROVE  [CircuitNext]_row
    BY <1>3 DEF BeginRequest, Approach, Recover, Crash
  <1>4. CASE Tick
    BY <1>4 DEF Tick, CircuitNext
  <1>5. CASE UNCHANGED vars
    BY <1>5 DEF vars
  <1> QED
    BY <1>1, <1>2, <1>3, <1>4, <1>5 DEF Next

-----------------------------------------------------------------------------
(* Which steps touch a budget                                               *)

\* Steps at which a call holds no unit of any budget.
Free == Steps \ (Holding \cup {"settle"})

\* A step of p leaves the other calls alone.
Alone(p) == \A q \in Calls \ {p} : call'[q] = call[q]

\* A step between two Free points, which keeps every counter.
Quiet(p) ==
    /\ Alone(p)
    /\ call[p].pc \in Free
    /\ call'[p].pc \in Free
    /\ UNCHANGED <<daily, paid, spent>>

LEMMA SetAlone ==
    ASSUME CallsOK, NEW p \in Calls, NEW c, Set(p, c)
    PROVE  Alone(p) /\ call'[p] = c
  BY DEF CallsOK, Set, Alone

LEMMA GotoAlone ==
    ASSUME CallsOK, NEW p \in Calls, NEW pc, Goto(p, pc)
    PROVE  Alone(p) /\ call'[p].pc = pc
  <1>1. call[p] \in CallRecords
    BY DEF CallsOK
  <1> QED
    BY <1>1, SetAlone DEF Goto, CallRecords

LEMMA EndAlone ==
    ASSUME CallsOK, NEW p \in Calls, End(p)
    PROVE  Alone(p) /\ call'[p].pc = "over"
  BY SetAlone DEF End, Idle

LEMMA StopAlone ==
    ASSUME CallsOK, NEW p \in Calls, Stop(p)
    PROVE  Alone(p) /\ call'[p].pc \in {"record", "over"}
  BY GotoAlone, EndAlone DEF Stop

LEMMA LeaveAlone ==
    ASSUME CallsOK, NEW p \in Calls, NEW next, Leave(p, next)
    PROVE  Alone(p) /\ call'[p].pc \in {"unlease", "record", "over"}
  <1>1. call[p] \in CallRecords
    BY DEF CallsOK
  <1>2. CASE call[p].lease # None
    <2> DEFINE c == [call[p] EXCEPT !.pc = "unlease", !.out = next]
    <2>1. c.pc = "unlease"
      BY <1>1 DEF CallRecords
    <2>2. Set(p, c)
      BY <1>2 DEF Leave
    <2> QED
      BY <2>1, <2>2, SetAlone
  <1>3. CASE call[p].lease = None
    BY <1>3, StopAlone, EndAlone DEF Leave
  <1> QED
    BY <1>2, <1>3

LEMMA QuietSteps ==
    ASSUME CallsOK, NEW p \in Calls,
           \/ Admission(p)
           \/ RequestBudgetBlocked(p) \/ Judge(p) \/ Wake(p)
           \/ Verdict(p)
           \/ ExpireWindow(p) \/ LastResort(p)
    PROVE  Quiet(p)
  <1>0. call[p] \in CallRecords /\ CallSane(call[p])
    BY DEF CallsOK
  <1> USE DEF Quiet, Free, Steps, Holding
  <1>1. CASE Late(p)
    BY <1>1, StopAlone DEF Late
  <1>2. CASE ReuseLease(p)
    BY <1>2, GotoAlone DEF ReuseLease
  <1>3. CASE AdmitRead(p)
    <2>1. Alone(p) /\ call'[p].pc \in {"record", "over", "claim", "reserve"}
      <3> DEFINE buckets == row[Key(p)]
                 denied == [Idle("over") EXCEPT
                              !.outage = FirstOf(Active(buckets)) \in CountedClasses]
                 probe  == [call[p] EXCEPT !.pc = "claim", !.want = FirstOf(Expired(buckets)),
                                           !.failing = Failing(buckets)]
                 pass   == [call[p] EXCEPT !.pc = "reserve", !.enc = @ \cup Failing(buckets)]
      <3>1. denied.pc = "over" /\ probe.pc = "claim" /\ pass.pc = "reserve"
        BY <1>0 DEF Idle, CallRecords
      <3>2. Goto(p, "record") \/ Set(p, denied) \/ Set(p, probe) \/ Set(p, pass)
        BY <1>3 DEF AdmitRead
      <3> HIDE DEF denied, probe, pass
      <3> QED
        BY <3>1, <3>2, GotoAlone, SetAlone
    <2> QED
      BY <1>3, <2>1 DEF AdmitRead, MayAsk
  <1>4. CASE AdmitBlind(p)
    <2>1. Alone(p) /\ call'[p].pc = "reserve"
      <3> DEFINE c == [call[p] EXCEPT !.pc = "reserve", !.want = None, !.failing = {}, !.age = 0]
      <3>1. c.pc = "reserve"
        BY <1>0 DEF CallRecords
      <3>2. Set(p, c)
        BY <1>4 DEF AdmitBlind
      <3> QED
        BY <3>1, <3>2, SetAlone
    <2> QED
      BY <1>4, <2>1 DEF AdmitBlind, MayAsk
  <1>5. CASE Claim(p)
    <2>1. Alone(p) /\ call'[p].pc = "reserve"
      <3> DEFINE c == [call[p] EXCEPT !.pc = "reserve", !.lease = call[p].want,
                                      !.clock = call[p].age,
                                      !.enc = @ \cup {call[p].want} \cup call[p].failing,
                                      !.want = None, !.failing = {}, !.age = 0]
      <3>1. c.pc = "reserve"
        BY <1>0 DEF CallRecords
      <3>2. Set(p, c)
        BY <1>5 DEF Claim
      <3> QED
        BY <3>1, <3>2, SetAlone
    <2> QED
      BY <1>5, <2>1 DEF Claim
  <1>6. CASE ClaimLost(p)
    <2>1. Alone(p) /\ call'[p].pc \in {"record", "over"}
      <3> DEFINE failed == [call[p] EXCEPT !.pc = "record", !.want = None, !.failing = {},
                                           !.age = 0]
                 denied == [Idle("over") EXCEPT !.outage = call[p].want \in CountedClasses]
      <3>1. failed.pc = "record" /\ denied.pc = "over"
        BY <1>0 DEF Idle, CallRecords
      <3>2. Set(p, failed) \/ Set(p, denied)
        BY <1>6 DEF ClaimLost
      <3> HIDE DEF failed, denied
      <3> QED
        BY <3>1, <3>2, SetAlone
    <2> QED
      BY <1>6, <2>1 DEF ClaimLost
  <1>7. CASE RequestBudgetBlocked(p)
    BY <1>7, LeaveAlone DEF RequestBudgetBlocked
  <1>8. CASE Judge(p)
    <2>1. call[p].pc = "judge" /\ call[p].out \in {"ok", "error", "raise", "unsent"}
      BY <1>0, <1>8 DEF Judge, CallSane
    <2>2. Alone(p) /\ call'[p].pc \in {"over", "clear", "unlease", "record", "sleep"}
      <3>1. CASE call[p].out = "ok"
        BY <1>8, <3>1, EndAlone, GotoAlone DEF Judge
      <3>2. CASE call[p].out \in {"unsent", "raise"}
        BY <1>8, <3>2, LeaveAlone DEF Judge
      <3>3. CASE call[p].out = "error"
        <4>1. JudgeError(p)
          BY <1>8, <3>3 DEF Judge
        <4> QED
          <5> DEFINE again == [call[p] EXCEPT !.pc = "sleep", !.out = None,
                                              !.enc = @ \cup {call[p].err}]
          <5>1. again.pc = "sleep"
            BY <1>0 DEF CallRecords
          <5>2. Leave(p, "end") \/ Goto(p, "record") \/ Set(p, again)
            BY <4>1 DEF JudgeError
          <5> HIDE DEF again
          <5> QED
            BY <5>1, <5>2, LeaveAlone, GotoAlone, SetAlone
      <3> QED
        BY <2>1, <3>1, <3>2, <3>3
    <2> QED
      BY <1>8, <2>1, <2>2 DEF Judge
  <1>9. CASE Wake(p)
    <2>1. Alone(p) /\ call'[p].pc \in {"top", "unlease", "record", "over"}
      <3> DEFINE c == [call[p] EXCEPT !.pc = "top", !.try = @ + 1]
      <3>1. c.pc = "top"
        BY <1>0 DEF CallRecords
      <3>2. Set(p, c) \/ Leave(p, "end")
        BY <1>9 DEF Wake
      <3> HIDE DEF c
      <3> QED
        BY <3>1, <3>2, SetAlone, LeaveAlone
    <2> QED
      BY <1>9, <2>1 DEF Wake
  <1>10. CASE ReleaseLease(p)
    <2>1. Alone(p) /\ call'[p].pc \in {"record", "over"}
      <3> DEFINE next == IF call[p].err # None THEN "record" ELSE "over"
                 c == [call[p] EXCEPT !.pc = next, !.lease = None, !.clock = 0, !.out = None,
                                      !.enc = {}, !.try = 0]
      <3>1. c.pc \in {"record", "over"}
        BY <1>0 DEF CallRecords
      <3>2. Set(p, c) \/ End(p)
        BY <1>10 DEF ReleaseLease
      <3> HIDE DEF c
      <3> QED
        BY <3>1, <3>2, SetAlone, EndAlone
    <2> QED
      BY <1>10, <2>1 DEF ReleaseLease
  <1>11. CASE RecordVerdict(p)
    BY <1>11, EndAlone DEF RecordVerdict
  <1>12. CASE ClearBucket(p)
    <2>1. Alone(p) /\ call'[p].pc \in {"clear", "over"}
      BY <1>0, <1>12, SetAlone, EndAlone DEF ClearBucket, CallRecords
    <2> QED
      BY <1>12, <2>1 DEF ClearBucket
  <1>13. CASE ExpireWindow(p)
    <2>1. Alone(p) /\ call'[p].pc \in {"expire", "ready"}
      BY <1>0, <1>13, SetAlone DEF ExpireWindow, CallRecords, Idle
    <2> QED
      BY <1>13, <2>1 DEF ExpireWindow
  <1>14. CASE LastResort(p)
    <2>1. Alone(p) /\ call'[p].pc = "expire"
      BY <1>14, SetAlone DEF LastResort, Idle
    <2>2. call[p].pc = "over"
      BY <1>14 DEF LastResort, CallsOf
    <2> QED
      BY <1>14, <2>1, <2>2 DEF LastResort
  <1> QED
    BY <1>1, <1>2, <1>3, <1>4, <1>5, <1>6, <1>7, <1>8, <1>9, <1>10, <1>11, <1>12, <1>13, <1>14
       DEF Admission, Verdict

-----------------------------------------------------------------------------
(* The budget of a request                                                  *)

\* The invariant: the units reserved are exactly those of the calls that stand
\* between reserve and reconcile, and the limit is never overdrawn.
RequestOK ==
    /\ request \in [Requests -> RequestRecords]
    /\ ReservationsExact
    /\ \A r \in Requests :
            request[r].budget.used + request[r].budget.reserved <= RequestLimit

LEMMA ReservingFinite ==
    \A r \in Requests : IsFiniteSet(Reserving(r)) /\ Cardinality(Reserving(r)) \in Nat
  <1> SUFFICES ASSUME NEW r \in Requests
               PROVE  IsFiniteSet(Reserving(r)) /\ Cardinality(Reserving(r)) \in Nat
    OBVIOUS
  <1>1. Reserving(r) \in SUBSET Calls
    BY DEF Reserving, CallsOf
  <1>2. IsFiniteSet(Reserving(r))
    BY <1>1, EngineAssumption, FS_Subset
  <1> QED
    BY <1>2, FS_CardinalityType

\* How the step of one call changes who is reserving.
LEMMA ReservingAfter ==
    ASSUME NEW p \in Calls, Alone(p), NEW r
    PROVE  Reserving(r)' = IF RequestOf[p] = r /\ call'[p].pc \in Holding
                           THEN Reserving(r) \cup {p} ELSE Reserving(r) \ {p}
  BY DEF Reserving, CallsOf, Alone

\* The fields of a budget and of the budget a call writes.
LEMMA BudgetFields ==
    ASSUME RequestOK, NEW r \in Requests
    PROVE  /\ request[r].budget.limit = RequestLimit
           /\ request[r].budget.used \in Nat
           /\ request[r].budget.reserved \in Nat
           /\ request[r].budget.reserved = Cardinality(Reserving(r))
           /\ request[r].budget.used + request[r].budget.reserved <= RequestLimit
           /\ RequestLimit \in Nat
  <1>1. request[r] \in RequestRecords
    BY DEF RequestOK
  <1>2. request[r].budget \in [limit : {RequestLimit}, used : 0 .. RequestLimit,
                               reserved : 0 .. RequestLimit]
    BY <1>1 DEF RequestRecords
  <1> QED
    BY <1>2, EngineAssumption DEF RequestOK, ReservationsExact

\* A step that moves no unit of any request.
LEMMA RequestSame ==
    ASSUME RequestOK, NEW p \in Calls, Alone(p),
           call[p].pc \in Holding <=> call'[p].pc \in Holding,
           request' \in [Requests -> RequestRecords],
           \A r \in Requests : request'[r].budget = request[r].budget
    PROVE  RequestOK'
  <1>1. \A r \in Requests : Reserving(r)' = Reserving(r)
    <2> SUFFICES ASSUME NEW r \in Requests PROVE Reserving(r)' = Reserving(r)
      OBVIOUS
    <2>1. \A q \in Calls : call'[q].pc \in Holding <=> call[q].pc \in Holding
      BY DEF Alone
    <2> QED
      BY <2>1 DEF Reserving, CallsOf
  <1> QED
    BY <1>1 DEF RequestOK, ReservationsExact

\* The effect of one call on the budget of its request: its record becomes b.
LEMMA RequestWritten ==
    ASSUME RequestOK, NEW p \in Calls, Alone(p), NEW b,
           request' \in [Requests -> RequestRecords],
           \A r \in Requests :
                request'[r].budget = IF r = RequestOf[p] THEN b ELSE request[r].budget,
           b.reserved = Cardinality(Reserving(RequestOf[p])'),
           b.used + b.reserved <= RequestLimit
    PROVE  RequestOK'
  <1>1. \A r \in Requests : r # RequestOf[p] => Reserving(r)' = Reserving(r)
    <2> SUFFICES ASSUME NEW r \in Requests, r # RequestOf[p]
                 PROVE  Reserving(r)' = Reserving(r)
      OBVIOUS
    <2>1. \A q \in CallsOf(r) : call'[q] = call[q]
      BY DEF CallsOf, Alone
    <2> QED
      BY <2>1 DEF Reserving, CallsOf
  <1> QED
    BY <1>1 DEF RequestOK, ReservationsExact

LEMMA RequestTake ==
    ASSUME RequestOK, NEW p \in Calls, Alone(p),
           call[p].pc \notin Holding, call'[p].pc \in Holding,
           Ledger!CanReserve(Req(p).budget),
           Budget(p, Ledger!Reserved(Req(p).budget))
    PROVE  RequestOK'
  <1> DEFINE r == RequestOf[p]
             b == Ledger!Reserved(request[r].budget)
  <1>1. r \in Requests
    BY EngineAssumption
  <1>2. request[r] \in RequestRecords
    BY <1>1 DEF RequestOK
  <1>3. /\ b.limit = RequestLimit /\ b.used = request[r].budget.used
        /\ b.reserved = request[r].budget.reserved + 1
        /\ b.used + b.reserved <= RequestLimit
    BY <1>1, <1>2, BudgetFields DEF Ledger!Reserved, Ledger!CanReserve, RequestRecords, Req
  <1>4. b \in [limit : {RequestLimit}, used : 0 .. RequestLimit, reserved : 0 .. RequestLimit]
    <2>1. b.used \in 0 .. RequestLimit /\ b.reserved \in 0 .. RequestLimit
      BY <1>1, <1>3, BudgetFields
    <2> QED
      BY <1>2, <1>3, <2>1 DEF Ledger!Reserved, RequestRecords
  <1>5. request' = [request EXCEPT ![r].budget = b]
    BY DEF Budget, Req
  <1> HIDE DEF b
  <1>6. request' \in [Requests -> RequestRecords]
    BY <1>1, <1>2, <1>4, <1>5 DEF RequestOK, RequestRecords
  <1>7. \A s \in Requests : request'[s].budget = IF s = r THEN b ELSE request[s].budget
    BY <1>1, <1>2, <1>5 DEF RequestOK, RequestRecords
  <1>8. Cardinality(Reserving(r)') = Cardinality(Reserving(r)) + 1
    <2>1. p \notin Reserving(r) /\ Reserving(r)' = Reserving(r) \cup {p}
      BY ReservingAfter DEF Reserving
    <2> QED
      BY <1>1, <2>1, ReservingFinite, FS_AddElement
  <1>9. b.reserved = Cardinality(Reserving(r)')
    BY <1>1, <1>3, <1>8, BudgetFields
  <1> QED
    BY <1>3, <1>6, <1>7, <1>9, RequestWritten

\* Charged or given back: the reservation of p, which exists, is settled.
LEMMA RequestSettle ==
    ASSUME RequestOK, NEW p \in Calls, Alone(p),
           call[p].pc \in Holding, call'[p].pc \notin Holding,
           NEW b \in {Ledger!Committed(Req(p).budget), Ledger!Released(Req(p).budget)},
           \/ Budget(p, b)
           \/ request' = [request EXCEPT ![RequestOf[p]].available = FALSE,
                                         ![RequestOf[p]].budget = b]
    PROVE  RequestOK'
  <1> DEFINE r == RequestOf[p]
  <1>1. r \in Requests /\ p \in Reserving(r)
    BY EngineAssumption DEF Reserving, CallsOf
  <1>2. request[r] \in RequestRecords
    BY <1>1 DEF RequestOK
  <1>3. /\ Cardinality(Reserving(r)') = Cardinality(Reserving(r)) - 1
        /\ Cardinality(Reserving(r)') \in Nat
    <2>1. Reserving(r)' = Reserving(r) \ {p}
      BY ReservingAfter
    <2> QED
      BY <1>1, <2>1, ReservingFinite, FS_RemoveElement, FS_CardinalityType
  <1>4. request[r].budget.reserved >= 1
    BY <1>1, <1>3, BudgetFields, ReservingFinite
  <1>5. /\ b.limit = RequestLimit
        /\ b.used \in {request[r].budget.used, request[r].budget.used + 1}
        /\ b.reserved = request[r].budget.reserved - 1
    BY <1>1, <1>2, BudgetFields DEF Ledger!Committed, Ledger!Released, RequestRecords, Req
  <1>6. b.used + b.reserved <= RequestLimit
    BY <1>1, <1>4, <1>5, BudgetFields
  <1>7. b \in [limit : {RequestLimit}, used : 0 .. RequestLimit, reserved : 0 .. RequestLimit]
    <2>1. b.used \in 0 .. RequestLimit /\ b.reserved \in 0 .. RequestLimit
      BY <1>1, <1>4, <1>5, <1>6, BudgetFields
    <2>2. b = [limit |-> b.limit, used |-> b.used, reserved |-> b.reserved]
      BY <1>2 DEF Ledger!Committed, Ledger!Released, RequestRecords, Req
    <2> QED
      BY <1>5, <2>1, <2>2
  <1>8. request' \in [Requests -> RequestRecords]
    <2>1. CASE Budget(p, b)
      <3>1. [request[r] EXCEPT !.budget = b] \in RequestRecords
        BY <1>2, <1>7 DEF RequestRecords
      <3>2. request' = [request EXCEPT ![r] = [request[r] EXCEPT !.budget = b]]
        BY <2>1 DEF Budget
      <3> QED
        BY <1>1, <3>1, <3>2 DEF RequestOK
    <2>2. CASE request' = [request EXCEPT ![r].available = FALSE, ![r].budget = b]
      <3>1. [request[r] EXCEPT !.available = FALSE, !.budget = b] \in RequestRecords
        BY <1>2, <1>7 DEF RequestRecords
      <3>2. request' = [request EXCEPT ![r] = [request[r] EXCEPT !.available = FALSE,
                                                                 !.budget = b]]
        BY <1>1, <2>2 DEF RequestOK
      <3> QED
        BY <1>1, <3>1, <3>2 DEF RequestOK
    <2> QED
      BY <2>1, <2>2
  <1>9. \A s \in Requests : request'[s].budget = IF s = r THEN b ELSE request[s].budget
    BY <1>1, <1>2 DEF RequestOK, RequestRecords, Budget
  <1>10. b.reserved = Cardinality(Reserving(r)')
    BY <1>1, <1>3, <1>5, BudgetFields
  <1> QED
    BY <1>6, <1>8, <1>9, <1>10, RequestWritten

\* Replacing one request record by another with the same budget.
LEMMA SameBudget ==
    ASSUME RequestOK, NEW s \in Requests, NEW q \in RequestRecords,
           q.budget = request[s].budget, request' = [request EXCEPT ![s] = q]
    PROVE  /\ request' \in [Requests -> RequestRecords]
           /\ \A r \in Requests : request'[r].budget = request[r].budget
  BY DEF RequestOK

\* Steps of a call that at most set a flag of its request.
LEMMA FlagSame ==
    ASSUME RequestOK, NEW p \in Calls,
           \/ UNCHANGED request
           \/ MarkDown(p)
           \/ request' = [request EXCEPT ![RequestOf[p]].probed = TRUE]
    PROVE  /\ request' \in [Requests -> RequestRecords]
           /\ \A r \in Requests : request'[r].budget = request[r].budget
  <1> DEFINE s == RequestOf[p]
             down   == [request[s] EXCEPT !.available = FALSE]
             probed == [request[s] EXCEPT !.probed = TRUE]
  <1>1. /\ s \in Requests /\ request \in [Requests -> RequestRecords]
        /\ request[s] \in RequestRecords /\ FALSE \in BOOLEAN
    BY EngineAssumption DEF RequestOK
  <1>2. CASE UNCHANGED request
    BY <1>1, <1>2
  <1>3. CASE MarkDown(p)
    <2>1. down \in RequestRecords /\ down.budget = request[s].budget
      BY <1>1 DEF RequestRecords
    <2>2. request' = [request EXCEPT ![s] = down]
      BY <1>3 DEF MarkDown
    <2> QED
      BY <1>1, <2>1, <2>2, SameBudget
  <1>4. CASE request' = [request EXCEPT ![s].probed = TRUE]
    <2>1. probed \in RequestRecords /\ probed.budget = request[s].budget
      BY <1>1 DEF RequestRecords
    <2> QED
      BY <1>1, <1>4, <2>1, SameBudget
  <1> QED
    BY <1>2, <1>3, <1>4

LEMMA QuietRequest ==
    ASSUME CallsOK, RequestOK, NEW p \in Calls,
           \/ Admission(p)
           \/ RequestBudgetBlocked(p) \/ Judge(p) \/ Wake(p)
           \/ Verdict(p)
           \/ ExpireWindow(p) \/ LastResort(p)
    PROVE  RequestOK'
  <1>1. Alone(p) /\ call[p].pc \notin Holding /\ call'[p].pc \notin Holding
    BY QuietSteps DEF Quiet, Free
  <1>2. \/ UNCHANGED request
        \/ MarkDown(p)
        \/ request' = [request EXCEPT ![RequestOf[p]].probed = TRUE]
    BY DEF Admission, Late, ReuseLease, AdmitRead, AdmitBlind, Claim, ClaimLost,
           RequestBudgetBlocked, Judge, Wake, Verdict, ReleaseLease, RecordVerdict,
           ClearBucket, ExpireWindow, LastResort
  <1> QED
    BY <1>1, <1>2, FlagSame, RequestSame

\* The end of a try moves the call on to its settlement.
LEMMA TryAlone ==
    ASSUME CallsOK, NEW p \in Calls,
           NotTried(p) \/ Return(p) \/ BatchNotTried(p) \/ FailUnsent(p)
    PROVE  /\ Alone(p)
           /\ call[p].pc \in {"call", "sent"}
           /\ call'[p].pc = Settling(p)
           /\ call'[p].sent = call[p].sent
  <1>1. call[p] \in CallRecords
    BY DEF CallsOK
  <1>2. \/ \E out \in {"ok", "raise", "unsent"} :
              Set(p, [call[p] EXCEPT !.pc = Settling(p), !.out = out])
        \/ \E class \in ErrorClasses :
              Set(p, [call[p] EXCEPT !.pc = Settling(p), !.out = "error", !.err = class])
    BY DEF NotTried, Return, BatchNotTried, FailUnsent
  <1>3. ASSUME NEW out, Set(p, [call[p] EXCEPT !.pc = Settling(p), !.out = out])
        PROVE  Alone(p) /\ call'[p].pc = Settling(p) /\ call'[p].sent = call[p].sent
    <2> DEFINE c == [call[p] EXCEPT !.pc = Settling(p), !.out = out]
    <2>1. c.pc = Settling(p) /\ c.sent = call[p].sent
      BY <1>1 DEF CallRecords
    <2>2. Set(p, c)
      BY <1>3
    <2> QED
      BY <2>1, <2>2, SetAlone
  <1>4. ASSUME NEW class,
               Set(p, [call[p] EXCEPT !.pc = Settling(p), !.out = "error", !.err = class])
        PROVE  Alone(p) /\ call'[p].pc = Settling(p) /\ call'[p].sent = call[p].sent
    <2> DEFINE c == [call[p] EXCEPT !.pc = Settling(p), !.out = "error", !.err = class]
    <2>1. c.pc = Settling(p) /\ c.sent = call[p].sent
      BY <1>1 DEF CallRecords
    <2>2. Set(p, c)
      BY <1>4
    <2> QED
      BY <2>1, <2>2, SetAlone
  <1>5. call[p].pc \in {"call", "sent"}
    BY DEF NotTried, Return, BatchNotTried, FailUnsent
  <1> QED
    BY <1>2, <1>3, <1>4, <1>5

LEMMA CallStepRequest ==
    ASSUME CallsOK, RequestOK, NEW p \in Calls, CallStep(p) \/ LastResort(p)
    PROVE  RequestOK'
  <1>0. call[p] \in CallRecords
    BY DEF CallsOK
  <1>1. CASE \/ Admission(p)
             \/ RequestBudgetBlocked(p) \/ Judge(p) \/ Wake(p)
             \/ Verdict(p)
             \/ ExpireWindow(p) \/ LastResort(p)
    BY <1>1, QuietRequest
  <1>2. CASE ReserveRequest(p)
    <2>1. Alone(p) /\ call[p].pc \notin Holding /\ call'[p].pc \in Holding
      BY <1>2, GotoAlone DEF ReserveRequest, AfterReserve, Holding
    <2> QED
      BY <1>2, <2>1, RequestTake DEF ReserveRequest
  <1>3. CASE ConfigureDaily(p)
    <2>1. Alone(p) /\ call[p].pc \in Holding /\ call'[p].pc \in Holding
      BY <1>3, GotoAlone DEF ConfigureDaily, Holding
    <2>2. UNCHANGED request \/ MarkDown(p)
      BY <1>3 DEF ConfigureDaily
    <2> QED
      BY <2>1, <2>2, FlagSame, RequestSame
  <1>4. CASE ReserveDaily(p)
    <2> DEFINE c == [call[p] EXCEPT !.pc = "call", !.daily = TRUE]
    <2>1. c.pc = "call"
      BY <1>0 DEF CallRecords
    <2>2. Set(p, c) /\ call[p].pc = "daily" /\ UNCHANGED request
      BY <1>4 DEF ReserveDaily
    <2>3. Alone(p) /\ call[p].pc \in Holding /\ call'[p].pc \in Holding
      BY <2>1, <2>2, SetAlone DEF Holding
    <2> QED
      BY <2>2, <2>3, FlagSame, RequestSame
  <1>5. CASE Dispatch(p)
    <2> DEFINE c == [call[p] EXCEPT !.pc = "sent", !.sent = call[p].daily]
    <2>1. c.pc = "sent"
      BY <1>0 DEF CallRecords
    <2>2. Set(p, c) /\ call[p].pc = "call" /\ UNCHANGED request
      BY <1>5 DEF Dispatch
    <2>3. Alone(p) /\ call[p].pc \in Holding /\ call'[p].pc \in Holding
      BY <2>1, <2>2, SetAlone DEF Holding
    <2> QED
      BY <2>2, <2>3, FlagSame, RequestSame
  <1>6. CASE DailyBudgetBlocked(p)
    <2>1. Alone(p) /\ call[p].pc \in Holding /\ call'[p].pc \notin Holding
      BY <1>6, LeaveAlone DEF DailyBudgetBlocked, Holding
    <2>2. \/ Budget(p, Ledger!Released(Req(p).budget))
          \/ request' = [request EXCEPT ![RequestOf[p]].available = FALSE,
                                        ![RequestOf[p]].budget = Ledger!Released(@)]
      BY <1>6 DEF DailyBudgetBlocked
    <2>3. \/ Budget(p, Ledger!Released(Req(p).budget))
          \/ request' = [request EXCEPT ![RequestOf[p]].available = FALSE,
                                        ![RequestOf[p]].budget = Ledger!Released(Req(p).budget)]
      <3>1. RequestOf[p] \in Requests /\ request[RequestOf[p]] \in RequestRecords
        BY EngineAssumption DEF RequestOK
      <3> QED
        BY <2>2, <3>1 DEF Req, RequestOK, RequestRecords
    <2> QED
      BY <2>1, <2>3, RequestSettle
  <1>7. CASE NotTried(p) \/ Return(p) \/ BatchNotTried(p) \/ FailUnsent(p)
    <2>1. Alone(p) /\ call[p].pc \in Holding /\ call'[p].pc \notin Holding
      BY <1>7, TryAlone DEF Settling, Holding
    <2>2. \/ Budget(p, Ledger!Released(Req(p).budget))
          \/ Budget(p, Ledger!Committed(Req(p).budget))
      BY <1>7 DEF NotTried, Return, BatchNotTried, FailUnsent
    <2> QED
      BY <2>1, <2>2, RequestSettle
  <1>8. CASE SettleDaily(p)
    <2> DEFINE c == [call[p] EXCEPT !.pc = "judge", !.daily = FALSE, !.sent = FALSE]
    <2>1. c.pc = "judge"
      BY <1>0 DEF CallRecords
    <2>2. Set(p, c) /\ call[p].pc = "settle" /\ (UNCHANGED request \/ MarkDown(p))
      BY <1>8 DEF SettleDaily
    <2>3. Alone(p) /\ call[p].pc \notin Holding /\ call'[p].pc \notin Holding
      BY <2>1, <2>2, SetAlone DEF Holding
    <2> QED
      BY <2>2, <2>3, FlagSame, RequestSame
  <1> QED
    BY <1>1, <1>2, <1>3, <1>4, <1>5, <1>6, <1>7, <1>8 DEF CallStep, Budgeting, Calling

\* A request that begins or dies starts from an unused budget and no running call.
LEMMA ResetRequest ==
    ASSUME RequestOK, NEW r \in Requests, NEW pc \in {"ready", "over"},
           call' = [p \in Calls |-> IF RequestOf[p] = r THEN Idle(pc) ELSE call[p]],
           request' = [request EXCEPT ![r] = NewRequest]
    PROVE  RequestOK'
  <1>1. NewRequest \in RequestRecords
    BY EngineAssumption DEF NewRequest, RequestRecords
  <1>2. request' \in [Requests -> RequestRecords]
    BY <1>1 DEF RequestOK
  <1>3. ASSUME NEW s \in Requests
        PROVE  /\ request'[s].budget.reserved = Cardinality(Reserving(s)')
               /\ request'[s].budget.used + request'[s].budget.reserved <= RequestLimit
    <2>1. CASE s = r
      <3>1. Reserving(s)' = {}
        BY <2>1 DEF Reserving, CallsOf, Idle, Holding
      <3> QED
        BY <2>1, <3>1, FS_EmptySet, EngineAssumption DEF RequestOK, NewRequest
    <2>2. CASE s # r
      <3>1. Reserving(s)' = Reserving(s)
        BY <2>2 DEF Reserving, CallsOf
      <3> QED
        BY <2>2, <3>1 DEF RequestOK, ReservationsExact
    <2> QED
      BY <2>1, <2>2
  <1> QED
    BY <1>2, <1>3 DEF RequestOK, ReservationsExact

LEMMA RequestNextOK == CallsOK /\ RequestOK /\ [Next]_vars => RequestOK'
  <1> SUFFICES ASSUME CallsOK, RequestOK, [Next]_vars PROVE RequestOK'
    OBVIOUS
  <1>1. ASSUME NEW p \in Calls, CallStep(p) \/ LastResort(p) PROVE RequestOK'
    BY <1>1, CallStepRequest
  <1>2. ASSUME NEW r \in Requests, BeginRequest(r) \/ Crash(r) PROVE RequestOK'
    BY <1>2, ResetRequest DEF BeginRequest, Crash
  <1>3. ASSUME request' \in [Requests -> RequestRecords],
               \A r \in Requests : request'[r].budget = request[r].budget,
               \A p \in Calls : call'[p].pc = call[p].pc
        PROVE  RequestOK'
    <2>1. \A r \in Requests : Reserving(r)' = Reserving(r)
      BY <1>3 DEF Reserving, CallsOf
    <2> QED
      BY <1>3, <2>1 DEF RequestOK, ReservationsExact
  <1>4. ASSUME NEW r \in Requests, Approach(r) \/ Recover(r) PROVE RequestOK'
    <2> DEFINE near   == [request[r] EXCEPT !.deadline = "near"]
               passed == [request[r] EXCEPT !.deadline = "passed"]
               up     == [request[r] EXCEPT !.available = TRUE]
    <2>1. /\ near \in RequestRecords /\ near.budget = request[r].budget
          /\ passed \in RequestRecords /\ passed.budget = request[r].budget
          /\ up \in RequestRecords /\ up.budget = request[r].budget
      BY DEF RequestOK, RequestRecords
    <2>2. \/ request' = [request EXCEPT ![r] = near]
          \/ request' = [request EXCEPT ![r] = passed]
          \/ request' = [request EXCEPT ![r] = up]
      BY <1>4 DEF Approach, Recover
    <2> HIDE DEF near, passed, up
    <2>3. /\ request' \in [Requests -> RequestRecords]
          /\ \A s \in Requests : request'[s].budget = request[s].budget
      BY <2>1, <2>2, SameBudget
    <2>4. UNCHANGED call
      BY <1>4 DEF Approach, Recover
    <2> QED
      BY <1>3, <2>3, <2>4
  <1>5. CASE Tick
    <2>1. \A p \in Calls : call'[p].pc = call[p].pc
      <3>1. \A p \in Calls : call[p] \in CallRecords
        BY DEF CallsOK
      <3> QED
        BY <1>5, <3>1 DEF Tick, CallRecords
    <2> QED
      BY <1>3, <1>5, <2>1 DEF Tick, RequestOK
  <1>6. CASE UNCHANGED vars
    BY <1>3, <1>6 DEF vars, RequestOK
  <1> QED
    BY <1>1, <1>2, <1>4, <1>5, <1>6 DEF Next

LEMMA RequestInitOK == Init => RequestOK
  <1> SUFFICES ASSUME Init PROVE RequestOK
    OBVIOUS
  <1>1. NewRequest \in RequestRecords
    BY EngineAssumption DEF NewRequest, RequestRecords
  <1>2. \A r \in Requests : Reserving(r) = {}
    BY DEF Init, Reserving, CallsOf, Idle, Holding
  <1>3. \A r \in Requests : request[r] = NewRequest
    BY DEF Init
  <1>4. /\ NewRequest.budget.reserved = 0
        /\ NewRequest.budget.used + NewRequest.budget.reserved <= RequestLimit
    BY EngineAssumption DEF NewRequest
  <1>5. request \in [Requests -> RequestRecords]
    BY <1>1 DEF Init
  <1> QED
    BY <1>2, <1>3, <1>4, <1>5, FS_EmptySet DEF RequestOK, ReservationsExact

-----------------------------------------------------------------------------
(* The daily budget                                                         *)

DailyOK ==
    /\ daily \in [limit : DailyLimits \cup {0}, used : 0 .. MaxDaily, reserved : 0 .. MaxDaily]
    /\ daily.used + daily.reserved <= MaxDaily
    /\ Cardinality(DailyHeld) <= daily.reserved

\* The steps at which a call holds a daily unit.
HoldsDaily(pc) == pc = "settle" \/ (pc \in {"call", "sent"} /\ DailyLimits # {})

LEMMA HeldByStep ==
    ASSUME NEW c \in CallRecords, CallSane(c)
    PROVE  c.daily <=> HoldsDaily(c.pc)
  <1>1. c.daily => HoldsDaily(c.pc)
    BY DEF CallSane, HoldsDaily
  <1>2. HoldsDaily(c.pc) => c.daily
    BY DEF CallSane, HoldsDaily
  <1> QED
    BY <1>1, <1>2

LEMMA HeldFinite == IsFiniteSet(DailyHeld) /\ Cardinality(DailyHeld) \in Nat
  <1>1. DailyHeld \in SUBSET Calls
    BY DEF DailyHeld
  <1>2. IsFiniteSet(DailyHeld)
    BY <1>1, EngineAssumption, FS_Subset
  <1> QED
    BY <1>2, FS_CardinalityType

LEMMA DailyFields ==
    ASSUME DailyOK
    PROVE  /\ daily.limit \in 0 .. MaxDaily
           /\ daily.used \in Nat /\ daily.reserved \in Nat /\ MaxDaily \in Nat
  <1>1. daily.limit \in DailyLimits \cup {0}
    BY DEF DailyOK
  <1>2. daily.limit \in 0 .. MaxDaily
    <2>1. DailyLimits \subseteq 1 .. MaxDaily /\ MaxDaily \in Nat
      BY EngineAssumption
    <2>2. CASE daily.limit = 0
      BY <2>1, <2>2
    <2>3. CASE daily.limit \in DailyLimits
      <3>1. daily.limit \in 1 .. MaxDaily
        BY <2>1, <2>3
      <3> QED
        BY <2>1, <3>1
    <2> QED
      BY <1>1, <2>2, <2>3
  <1>3. daily.used \in 0 .. MaxDaily /\ daily.reserved \in 0 .. MaxDaily
    BY DEF DailyOK
  <1> QED
    BY <1>2, <1>3, EngineAssumption

\* A step whose callers keep the units they had.
LEMMA HeldSame ==
    ASSUME CallsOK, CallsOK', NEW p \in Calls, Alone(p),
           HoldsDaily(call[p].pc) <=> HoldsDaily(call'[p].pc)
    PROVE  DailyHeld' = DailyHeld
  <1>1. call[p].daily <=> call'[p].daily
    BY HeldByStep DEF CallsOK
  <1>2. \A q \in Calls : call[q].daily <=> call'[q].daily
    BY <1>1 DEF Alone
  <1> QED
    BY <1>2 DEF DailyHeld

LEMMA HeldTaken ==
    ASSUME CallsOK, CallsOK', NEW p \in Calls, Alone(p),
           ~ HoldsDaily(call[p].pc), HoldsDaily(call'[p].pc)
    PROVE  p \notin DailyHeld /\ DailyHeld' = DailyHeld \cup {p}
  <1>1. ~ call[p].daily /\ call'[p].daily
    BY HeldByStep DEF CallsOK
  <1> QED
    BY <1>1 DEF DailyHeld, Alone

LEMMA HeldSettled ==
    ASSUME CallsOK, CallsOK', NEW p \in Calls, Alone(p),
           HoldsDaily(call[p].pc), ~ HoldsDaily(call'[p].pc)
    PROVE  p \in DailyHeld /\ DailyHeld' = DailyHeld \ {p}
  <1>1. call[p].daily /\ ~ call'[p].daily
    BY HeldByStep DEF CallsOK
  <1> QED
    BY <1>1 DEF DailyHeld, Alone

\* The steps of a call that neither take nor settle a daily unit.
LEMMA HeldKept ==
    ASSUME CallsOK, CallsOK', NEW p \in Calls, CallStep(p) \/ LastResort(p),
           ~ ReserveDaily(p), ~ SettleDaily(p)
    PROVE  Alone(p) /\ DailyHeld' = DailyHeld
  <1>0. call[p] \in CallRecords /\ CallSane(call[p])
    BY DEF CallsOK
  <1> USE DEF HoldsDaily
  <1>1. CASE \/ Admission(p)
             \/ RequestBudgetBlocked(p) \/ Judge(p) \/ Wake(p)
             \/ Verdict(p)
             \/ ExpireWindow(p) \/ LastResort(p)
    <2>1. Quiet(p)
      BY <1>1, QuietSteps
    <2> QED
      BY <2>1, HeldSame DEF Quiet, Free, Holding
  <1>2. CASE ReserveRequest(p)
    <2>1. Alone(p) /\ call[p].pc = "reserve" /\ call'[p].pc = AfterReserve
      BY <1>2, GotoAlone DEF ReserveRequest
    <2> QED
      BY <2>1, HeldSame DEF AfterReserve
  <1>3. CASE ConfigureDaily(p)
    <2>1. Alone(p) /\ call[p].pc = "configure" /\ call'[p].pc = "daily"
      BY <1>3, GotoAlone DEF ConfigureDaily
    <2> QED
      BY <2>1, HeldSame
  <1>4. CASE DailyBudgetBlocked(p)
    <2>1. Alone(p) /\ call[p].pc = "daily" /\ call'[p].pc \in {"unlease", "record", "over"}
      BY <1>4, LeaveAlone DEF DailyBudgetBlocked
    <2> QED
      BY <2>1, HeldSame
  <1>5. CASE Dispatch(p)
    <2> DEFINE c == [call[p] EXCEPT !.pc = "sent", !.sent = call[p].daily]
    <2>1. c.pc = "sent"
      BY <1>0 DEF CallRecords
    <2>2. Set(p, c) /\ call[p].pc = "call"
      BY <1>5 DEF Dispatch
    <2> QED
      BY <2>1, <2>2, SetAlone, HeldSame
  <1>6. CASE NotTried(p) \/ Return(p) \/ BatchNotTried(p) \/ FailUnsent(p)
    <2>1. Alone(p) /\ call[p].pc \in {"call", "sent"} /\ call'[p].pc = Settling(p)
      BY <1>6, TryAlone
    <2>2. call[p].daily <=> DailyLimits # {}
      BY <1>0, <2>1 DEF CallSane
    <2> QED
      BY <2>1, <2>2, HeldSame DEF Settling
  <1> QED
    BY <1>1, <1>2, <1>3, <1>4, <1>5, <1>6 DEF CallStep, Budgeting, Calling

LEMMA DailyKept ==
    ASSUME DailyOK, UNCHANGED daily, DailyHeld' \in SUBSET DailyHeld
    PROVE  DailyOK'
  <1>1. Cardinality(DailyHeld') <= Cardinality(DailyHeld)
    BY HeldFinite, FS_Subset
  <1>2. Cardinality(DailyHeld') \in Nat
    BY HeldFinite, FS_Subset, FS_CardinalityType
  <1> QED
    BY <1>1, <1>2, HeldFinite, DailyFields DEF DailyOK

\* One daily unit is taken below the limit of the moment.
LEMMA ReserveDailyDaily ==
    ASSUME CallsOK, CallsOK', DailyOK, NEW p \in Calls, ReserveDaily(p)
    PROVE  DailyOK' /\ Alone(p) /\ p \notin DailyHeld /\ DailyHeld' = DailyHeld \cup {p}
  <1> DEFINE c == [call[p] EXCEPT !.pc = "call", !.daily = TRUE]
  <1>1. c.pc = "call"
    BY DEF CallsOK, CallRecords
  <1>2. Set(p, c) /\ call[p].pc = "daily" /\ DailyLimits # {}
    BY DEF ReserveDaily, CallsOK, CallSane
  <1>3. Alone(p) /\ p \notin DailyHeld /\ DailyHeld' = DailyHeld \cup {p}
    BY <1>1, <1>2, SetAlone, HeldTaken DEF HoldsDaily
  <1>4. Cardinality(DailyHeld') = Cardinality(DailyHeld) + 1
    BY <1>3, HeldFinite, FS_AddElement
  <1>5. /\ daily' = [daily EXCEPT !.reserved = daily.reserved + 1]
        /\ daily.used + daily.reserved + 1 <= daily.limit
    BY DEF ReserveDaily, Ledger!Reserved, Ledger!CanReserve
  <1>6. daily.reserved + 1 \in 0 .. MaxDaily
    BY <1>5, DailyFields
  <1>7. /\ daily' \in [limit : DailyLimits \cup {0}, used : 0 .. MaxDaily,
                        reserved : 0 .. MaxDaily]
        /\ daily'.used = daily.used /\ daily'.reserved = daily.reserved + 1
    BY <1>5, <1>6 DEF DailyOK
  <1> QED
    BY <1>3, <1>4, <1>5, <1>7, DailyFields, HeldFinite DEF DailyOK

\* The unit a call settles is still reserved.
LEMMA SettleDailyDaily ==
    ASSUME CallsOK, CallsOK', DailyOK, NEW p \in Calls, SettleDaily(p)
    PROVE  DailyOK' /\ Alone(p) /\ p \in DailyHeld /\ DailyHeld' = DailyHeld \ {p}
  <1> DEFINE c == [call[p] EXCEPT !.pc = "judge", !.daily = FALSE, !.sent = FALSE]
  <1>1. c.pc = "judge"
    BY DEF CallsOK, CallRecords
  <1>2. Set(p, c) /\ call[p].pc = "settle"
    BY DEF SettleDaily
  <1>3. Alone(p) /\ p \in DailyHeld /\ DailyHeld' = DailyHeld \ {p}
    BY <1>1, <1>2, SetAlone, HeldSettled DEF HoldsDaily
  <1>4. /\ Cardinality(DailyHeld') = Cardinality(DailyHeld) - 1
        /\ Cardinality(DailyHeld') \in Nat
    BY <1>3, HeldFinite, FS_RemoveElement, FS_CardinalityType
  <1>5. daily.reserved >= 1
    BY <1>4, HeldFinite, DailyFields DEF DailyOK
  <1>6. CASE UNCHANGED daily
    BY <1>3, <1>6, DailyKept
  <1>7. CASE daily' = Ledger!Committed(daily)
    <2>1. daily' = [limit |-> daily.limit, used |-> daily.used + 1,
                    reserved |-> daily.reserved - 1]
      BY <1>7 DEF Ledger!Committed, DailyOK
    <2>2. daily.used + 1 \in 0 .. MaxDaily /\ daily.reserved - 1 \in 0 .. MaxDaily
      BY <1>5, DailyFields DEF DailyOK
    <2>3. daily.limit \in DailyLimits \cup {0}
      BY DEF DailyOK
    <2>4. daily' \in [limit : DailyLimits \cup {0}, used : 0 .. MaxDaily,
                      reserved : 0 .. MaxDaily]
      BY <2>1, <2>2, <2>3
    <2>5. daily'.used = daily.used + 1 /\ daily'.reserved = daily.reserved - 1
      BY <2>1
    <2> QED
      BY <1>3, <1>4, <1>5, <2>4, <2>5, DailyFields, HeldFinite DEF DailyOK
  <1>8. CASE daily' = Ledger!Released(daily)
    <2>1. daily' = [limit |-> daily.limit, used |-> daily.used,
                    reserved |-> daily.reserved - 1]
      BY <1>8 DEF Ledger!Released, DailyOK
    <2>2. daily.used \in 0 .. MaxDaily /\ daily.reserved - 1 \in 0 .. MaxDaily
      BY <1>5, DailyFields DEF DailyOK
    <2>3. daily.limit \in DailyLimits \cup {0}
      BY DEF DailyOK
    <2>4. daily' \in [limit : DailyLimits \cup {0}, used : 0 .. MaxDaily,
                      reserved : 0 .. MaxDaily]
      BY <2>1, <2>2, <2>3
    <2>5. daily'.used = daily.used /\ daily'.reserved = daily.reserved - 1
      BY <2>1
    <2> QED
      BY <1>3, <1>4, <1>5, <2>4, <2>5, DailyFields, HeldFinite DEF DailyOK
  <1> QED
    BY <1>3, <1>6, <1>7, <1>8 DEF SettleDaily, Settled

\* Another limit leaves the units alone.
LEMMA ConfigureDailyDaily ==
    ASSUME CallsOK, CallsOK', DailyOK, NEW p \in Calls, ConfigureDaily(p)
    PROVE  DailyOK'
  <1>1. DailyHeld' = DailyHeld
    <2>1. Alone(p) /\ call[p].pc = "configure" /\ call'[p].pc = "daily"
      BY GotoAlone DEF ConfigureDaily
    <2> QED
      BY <2>1, HeldSame DEF HoldsDaily
  <1>2. CASE UNCHANGED daily
    BY <1>1, <1>2, DailyKept
  <1>3. ASSUME NEW limit \in DailyLimits, daily' = Ledger!Configured(daily, limit)
        PROVE  DailyOK'
    <2>1. daily' = [daily EXCEPT !.limit = limit]
      BY <1>3 DEF Ledger!Configured
    <2>2. /\ daily' \in [limit : DailyLimits \cup {0}, used : 0 .. MaxDaily,
                          reserved : 0 .. MaxDaily]
          /\ daily'.used = daily.used /\ daily'.reserved = daily.reserved
      BY <2>1 DEF DailyOK
    <2> QED
      BY <1>1, <2>2 DEF DailyOK
  <1> QED
    BY <1>2, <1>3 DEF ConfigureDaily

LEMMA CallStepDaily ==
    ASSUME CallsOK, CallsOK', DailyOK, NEW p \in Calls, CallStep(p) \/ LastResort(p)
    PROVE  DailyOK'
  <1>1. CASE ReserveDaily(p)
    BY <1>1, ReserveDailyDaily
  <1>2. CASE SettleDaily(p)
    BY <1>2, SettleDailyDaily
  <1>3. CASE ConfigureDaily(p)
    BY <1>3, ConfigureDailyDaily
  <1>4. CASE ~ ReserveDaily(p) /\ ~ SettleDaily(p) /\ ~ ConfigureDaily(p)
    <2>1. DailyHeld' = DailyHeld
      BY <1>4, HeldKept
    <2>2. UNCHANGED daily
      BY <1>4 DEF CallStep, Admission, Late, ReuseLease, AdmitRead, AdmitBlind, Claim,
             ClaimLost, Budgeting, ReserveRequest, RequestBudgetBlocked, DailyBudgetBlocked,
             Calling, Dispatch, NotTried, Return, BatchNotTried, FailUnsent, Judge, Wake,
             Verdict, ReleaseLease, RecordVerdict, ClearBucket, ExpireWindow, LastResort
    <2> QED
      BY <2>1, <2>2, DailyKept
  <1> QED
    BY <1>1, <1>2, <1>3, <1>4

LEMMA DailyNextOK == CallsOK /\ DailyOK /\ [Next]_vars => DailyOK'
  <1> SUFFICES ASSUME CallsOK, DailyOK, [Next]_vars PROVE DailyOK'
    OBVIOUS
  <1>0. CallsOK'
    BY CallsNextOK
  <1>1. ASSUME NEW p \in Calls, CallStep(p) \/ LastResort(p) PROVE DailyOK'
    BY <1>0, <1>1, CallStepDaily
  <1>2. ASSUME NEW r \in Requests, BeginRequest(r) \/ Crash(r) PROVE DailyOK'
    <2>1. DailyHeld' \in SUBSET DailyHeld
      BY <1>2 DEF BeginRequest, Crash, DailyHeld, Idle
    <2> QED
      BY <1>2, <2>1, DailyKept DEF BeginRequest, Crash
  <1>3. ASSUME NEW r \in Requests, Approach(r) \/ Recover(r) PROVE DailyOK'
    BY <1>3, DailyKept DEF Approach, Recover, DailyHeld
  <1>4. CASE Tick
    <2>1. \A p \in Calls : call'[p].daily = call[p].daily
      BY <1>4 DEF Tick, CallsOK, CallRecords
    <2> QED
      BY <1>4, <2>1, DailyKept DEF Tick, DailyHeld
  <1>5. CASE UNCHANGED vars
    BY <1>5, DailyKept DEF vars, DailyHeld
  <1> QED
    BY <1>1, <1>2, <1>3, <1>4, <1>5 DEF Next

LEMMA DailyInitOK == Init => DailyOK
  <1> SUFFICES ASSUME Init PROVE DailyOK
    OBVIOUS
  <1>1. DailyHeld = {}
    BY DEF Init, DailyHeld, Idle
  <1>2. daily = [limit |-> 0, used |-> 0, reserved |-> 0]
    BY DEF Init, Ledger!NoBudget
  <1> QED
    BY <1>1, <1>2, FS_EmptySet, EngineAssumption DEF DailyOK

-----------------------------------------------------------------------------
(* The history variables                                                    *)

HistoryOK ==
    /\ paid \in Nat
    /\ spent \in [Requests -> Nat]
    /\ excused \subseteq Keys \X Classes

LEMMA LeaseLeftType ==
    ASSUME CallsOK, NEW p \in Calls
    PROVE  /\ LeaseLeft(p) \subseteq Keys \X Classes
           /\ call[p].lease # None => <<Key(p), call[p].lease>> \in Keys \X Classes
  <1>1. call[p].lease \in Classes \cup {None} /\ Key(p) \in Keys
    BY KeyIsKey DEF CallsOK, CallRecords
  <1> QED
    BY <1>1 DEF LeaseLeft

LEMMA HistoryNextOK == CallsOK /\ HistoryOK /\ [Next]_vars => HistoryOK'
  <1> SUFFICES ASSUME CallsOK, HistoryOK, [Next]_vars PROVE HistoryOK'
    OBVIOUS
  <1> USE DEF HistoryOK
  <1>1. ASSUME NEW p \in Calls,
               \/ Late(p) \/ ReuseLease(p) \/ AdmitRead(p) \/ AdmitBlind(p) \/ Claim(p) \/ ClaimLost(p)
               \/ Budgeting(p)
        PROVE  HistoryOK'
    BY <1>1 DEF Late, ReuseLease, AdmitRead, AdmitBlind, Claim, ClaimLost,
                Budgeting, ReserveRequest, RequestBudgetBlocked, ConfigureDaily, ReserveDaily,
                DailyBudgetBlocked
  <1>2. ASSUME NEW p \in Calls, Dispatch(p) PROVE HistoryOK'
    BY <1>2, EngineAssumption DEF Dispatch
  <1>3. ASSUME NEW p \in Calls,
               \/ NotTried(p) \/ Return(p) \/ BatchNotTried(p) \/ FailUnsent(p)
               \/ SettleDaily(p) \/ Judge(p) \/ Wake(p) \/ ExpireWindow(p) \/ LastResort(p)
        PROVE  HistoryOK'
    BY <1>3 DEF NotTried, Return, BatchNotTried, FailUnsent, SettleDaily, Judge, Wake,
                ExpireWindow, LastResort
  <1>4. ASSUME NEW p \in Calls, Verdict(p) PROVE HistoryOK'
    <2>1. paid' = paid /\ spent' = spent
      BY <1>4 DEF Verdict, ReleaseLease, RecordVerdict, ClearBucket
    <2>2. CASE ReleaseLease(p)
      <3>1. call[p].lease # None
        BY <2>2 DEF CallsOK, CallSane, ReleaseLease
      <3>2. excused' \in {excused, excused \cup {<<Key(p), call[p].lease>>}}
        BY <2>2 DEF ReleaseLease
      <3> QED
        BY <2>1, <3>1, <3>2, LeaseLeftType
    <2>3. CASE RecordVerdict(p) \/ ClearBucket(p)
      <3>1. excused' \in {excused, excused \cup LeaseLeft(p)}
        BY <2>3 DEF RecordVerdict, ClearBucket
      <3> QED
        BY <2>1, <3>1, LeaseLeftType
    <2> QED
      BY <1>4, <2>2, <2>3 DEF Verdict
  <1>5. ASSUME NEW r \in Requests, BeginRequest(r) \/ Approach(r) \/ Recover(r) PROVE HistoryOK'
    BY <1>5 DEF BeginRequest, Approach, Recover
  <1>6. ASSUME NEW r \in Requests, Crash(r) PROVE HistoryOK'
    <2>1. UNION {LeaseLeft(p) : p \in CallsOf(r)} \subseteq Keys \X Classes
      BY LeaseLeftType DEF CallsOf
    <2> QED
      BY <1>6, <2>1 DEF Crash
  <1>7. CASE Tick
    BY <1>7 DEF Tick
  <1>8. CASE UNCHANGED vars
    BY <1>8 DEF vars
  <1> QED
    BY <1>1, <1>2, <1>3, <1>4, <1>5, <1>6, <1>7, <1>8
       DEF Next, CallStep, Admission, Calling

-----------------------------------------------------------------------------
(* The theorems                                                             *)

EngineInv ==
    /\ CallsOK
    /\ CircuitInv
    /\ RequestOK
    /\ DailyOK
    /\ HistoryOK

LEMMA EngineInvariant == Spec => []EngineInv
  <1>1. Init => EngineInv
    <2> SUFFICES ASSUME Init PROVE EngineInv
      OBVIOUS
    <2>1. HistoryOK
      BY DEF Init, HistoryOK
    <2>2. CircuitInv
      BY CircuitInitInv DEF Init
    <2> QED
      BY <2>1, <2>2, CallsInitOK, RequestInitOK, DailyInitOK DEF EngineInv
  <1>2. EngineInv /\ [Next]_vars => EngineInv'
    BY CallsNextOK, NextStore, CircuitNextInv, RequestNextOK, DailyNextOK, HistoryNextOK
       DEF EngineInv
  <1> QED
    BY <1>1, <1>2, PTL DEF Spec

\* Every variable of execute() stays in its domain: in particular no call tries more
\* than MaxAttempts times and no budget, of a request or of the day, is overdrawn.
THEOREM EngineTypeCorrect == Spec => []TypeOK
  <1>1. EngineInv => TypeOK
    BY DEF EngineInv, CallsOK, CircuitInv, RequestOK, DailyOK, HistoryOK, TypeOK
  <1> QED
    BY <1>1, EngineInvariant, PTL

\* On every path through execute(), whatever fails, returns early, is retried or dies,
\* the units of a request's budget are reserved exactly for its calls in between.
THEOREM EngineReservesExactly == Spec => []ReservationsExact
  <1>1. EngineInv => ReservationsExact
    BY DEF EngineInv, RequestOK
  <1> QED
    BY <1>1, EngineInvariant, PTL

\* The engine implements the circuit table's specification: whatever calls, retries,
\* crashes and forced probes interleave, they touch the rows only by its transactions.
THEOREM EngineUsesStore == Spec => CircuitSpec
  <1>1. Init => CircuitInit
    BY DEF Init
  <1>2. EngineInv /\ [Next]_vars => [CircuitNext]_row
    BY NextStore DEF EngineInv
  <1> QED
    BY <1>1, <1>2, EngineInvariant, PTL DEF Spec, CircuitSpec

\* Under the engine's calls the circuit rows stay sane (record_failure,
\* record_success, _claim_half_open, release_half_open, expire_circuit).
THEOREM EngineRowsSane == Spec => []RowsSane
  BY EngineUsesStore, CircuitSane, PTL
=============================================================================
