------------------------- MODULE AttemptState_proofs -------------------------
(***************************************************************************)
(* What AttemptEngine.execute does to the state that calls share.              *)
(*                                                                         *)
(* The half-open probes: whoever claims the lease of a bucket gives it back,   *)
(* and a failure count falls only with a success.  Until the verdict of        *)
(* another call rewrites the bucket, nobody else probes it under the lease,    *)
(* and a severe block is deleted only while it is leased.                      *)
(*                                                                         *)
(* The daily budget: the engine keeps the ledger's protocol on it, and so has  *)
(* its guarantees, as long as one attempt is one provider request.  A batch    *)
(* extraction breaks it: BatchNotTried gives back the unit of a try that       *)
(* reached its provider.                                                   *)
(***************************************************************************)
EXTENDS AttemptEngine_proofs, ProbeLeases

(***************************************************************************)
(* The leases of half-open probes                                          *)
(***************************************************************************)

\* What the step a call stands at says about its lease and the buckets it met.
LeaseSane(c) ==
    /\ c.pc \in {"ready", "claim", "expire", "over"} => c.lease = None
    /\ c.pc \in {"sleep", "top"} => c.err # None
    /\ c.lease # None /\ c.pc # "clear" => c.lease \in c.enc
    \* A severe block is met only by claiming it: a retry never follows one.
    /\ \A b \in {"AUTH", "QUOTA"} : b \in c.enc => c.lease = b

LeasesOK == \A p \in Calls : LeaseSane(call[p])

\* A step of p that keeps its lease, if it has one, and the buckets it has met.
Keeps(p) ==
    /\ Alone(p) /\ LeaseSane(call'[p])
    /\ call'[p].lease = call[p].lease
    /\ call[p].lease # None => /\ call[p].enc \subseteq call'[p].enc
                               /\ call'[p].clock = call[p].clock

LEMMA SetKeeps ==
    ASSUME CallsOK, NEW p \in Calls, NEW c, Set(p, c), LeaseSane(c),
           c.lease = call[p].lease,
           call[p].lease # None => call[p].enc \subseteq c.enc /\ c.clock = call[p].clock
    PROVE  Keeps(p)
  BY SetAlone DEF Keeps

LEMMA GotoKeeps ==
    ASSUME CallsOK, LeasesOK, NEW p \in Calls, NEW pc, Goto(p, pc), call[p].pc # "clear",
           pc \in {"sleep", "top"} => call[p].err # None,
           pc \in {"ready", "claim", "expire", "over"} => call[p].lease = None
    PROVE  Keeps(p)
  <1> DEFINE c == [call[p] EXCEPT !.pc = pc]
  <1>1. call[p] \in CallRecords /\ LeaseSane(call[p])
    BY DEF CallsOK, LeasesOK
  <1>2. c.pc = pc /\ c.lease = call[p].lease /\ c.enc = call[p].enc /\ c.clock = call[p].clock /\ c.err = call[p].err
    BY <1>1 DEF CallRecords
  <1>3. LeaseSane(c)
    BY <1>1, <1>2 DEF LeaseSane
  <1> HIDE DEF c
  <1> QED
    BY <1>2, <1>3, SetKeeps DEF Goto, c

LEMMA IdleSane == \A pc \in {"ready", "over", "expire"} : LeaseSane(Idle(pc)) /\ Idle(pc).lease = None
  BY EngineAssumption DEF LeaseSane, Idle

LEMMA EndKeeps ==
    ASSUME CallsOK, NEW p \in Calls, End(p), call[p].lease = None
    PROVE  Keeps(p)
  BY IdleSane, SetKeeps DEF End, Idle

LEMMA StopKeeps ==
    ASSUME CallsOK, LeasesOK, NEW p \in Calls, Stop(p), call[p].pc # "clear",
           call[p].err = None => call[p].lease = None
    PROVE  Keeps(p)
  BY GotoKeeps, EndKeeps DEF Stop

LEMMA LeaveKeeps ==
    ASSUME CallsOK, LeasesOK, NEW p \in Calls, NEW next, Leave(p, next), call[p].pc # "clear"
    PROVE  Keeps(p)
  <1>1. CASE call[p].lease = None
    BY <1>1, StopKeeps, EndKeeps DEF Leave
  <1>2. CASE call[p].lease # None
    <2> DEFINE c == [call[p] EXCEPT !.pc = "unlease", !.out = next]
    <2>1. call[p] \in CallRecords /\ LeaseSane(call[p])
      BY DEF CallsOK, LeasesOK
    <2>2. c.pc = "unlease" /\ c.lease = call[p].lease /\ c.enc = call[p].enc /\ c.clock = call[p].clock
      BY <2>1 DEF CallRecords
    <2>3. LeaseSane(c)
      BY <2>1, <2>2 DEF LeaseSane
    <2>4. Set(p, c)
      BY <1>2 DEF Leave
    <2> HIDE DEF c
    <2> QED
      BY <2>2, <2>3, <2>4, SetKeeps
  <1> QED
    BY <1>1, <1>2

\* A refused or a forced attempt, and the slots it starts from, hold no lease.
LEMMA FreshKeeps ==
    ASSUME CallsOK, NEW p \in Calls, NEW c, Set(p, c), call[p].lease = None, c.lease = None, c.enc = {},
           c.pc \notin {"sleep", "top"}
    PROVE  Keeps(p)
  <1>1. LeaseSane(c)
    BY DEF LeaseSane
  <1> QED
    BY <1>1, SetKeeps

\* Every step of a call keeps its lease, but for the claim and the verdict.
LEMMA AdmissionKeeps ==
    ASSUME CallsOK, LeasesOK, NEW p \in Calls,
           Late(p) \/ ReuseLease(p) \/ AdmitRead(p) \/ AdmitBlind(p) \/ ClaimLost(p)
    PROVE  Keeps(p)
  <1>0. call[p] \in CallRecords /\ CallSane(call[p]) /\ LeaseSane(call[p])
    BY DEF CallsOK, LeasesOK
  <1>1. CASE Late(p)
    BY <1>0, <1>1, StopKeeps DEF Late, LeaseSane
  <1>2. CASE ReuseLease(p)
    BY <1>2, GotoKeeps DEF ReuseLease
  <1>3. CASE AdmitRead(p)
    <2> DEFINE buckets == row[Key(p)]
               denied == [Idle("over") EXCEPT !.outage = FirstOf(Active(buckets)) \in CountedClasses]
               probe  == [call[p] EXCEPT !.pc = "claim", !.want = FirstOf(Expired(buckets)),
                                         !.failing = Failing(buckets)]
               pass   == [call[p] EXCEPT !.pc = "reserve", !.enc = @ \cup Failing(buckets)]
    <2>1. call[p].lease = None /\ call[p].pc # "clear"
      BY <1>3 DEF AdmitRead, MayAsk
    <2>2. Goto(p, "record") \/ Set(p, denied) \/ Set(p, probe) \/ Set(p, pass)
      BY <1>3 DEF AdmitRead
    <2>3. denied.lease = None /\ denied.enc = {} /\ denied.pc = "over"
      BY DEF Idle
    <2>4. probe.lease = None /\ probe.pc = "claim" /\ probe.enc = call[p].enc
      BY <1>0, <2>1 DEF CallRecords
    <2>5. LeaseSane(probe)
      BY <1>0, <2>1, <2>4 DEF LeaseSane
    <2>6. pass.lease = None /\ pass.pc = "reserve" /\ pass.enc = call[p].enc \cup Failing(buckets)
      BY <1>0, <2>1 DEF CallRecords
    <2>7. LeaseSane(pass)
      <3>1. \A b \in {"AUTH", "QUOTA"} : b \notin Failing(buckets)
        BY DEF Failing, CountedClasses
      <3> QED
        BY <1>0, <2>1, <2>6, <3>1 DEF LeaseSane
    <2> HIDE DEF denied, probe, pass
    <2>8. CASE Goto(p, "record")
      BY <2>1, <2>8, GotoKeeps
    <2>9. CASE Set(p, denied)
      BY <2>1, <2>3, <2>9, FreshKeeps
    <2>10. CASE Set(p, probe)
      BY <2>1, <2>4, <2>5, <2>10, SetKeeps
    <2>11. CASE Set(p, pass)
      BY <2>1, <2>6, <2>7, <2>11, SetKeeps
    <2> QED
      BY <2>2, <2>8, <2>9, <2>10, <2>11
  <1>4. CASE AdmitBlind(p)
    <2> DEFINE c == [call[p] EXCEPT !.pc = "reserve", !.want = None, !.failing = {}, !.age = 0]
    <2>1. call[p].lease = None
      BY <1>0, <1>4 DEF AdmitBlind, MayAsk, LeaseSane
    <2>2. c.lease = None /\ c.pc = "reserve" /\ c.enc = call[p].enc
      BY <1>0, <2>1 DEF CallRecords
    <2>3. LeaseSane(c)
      BY <1>0, <2>1, <2>2 DEF LeaseSane
    <2>4. Set(p, c)
      BY <1>4 DEF AdmitBlind
    <2> HIDE DEF c
    <2> QED
      BY <2>1, <2>2, <2>3, <2>4, SetKeeps
  <1>5. CASE ClaimLost(p)
    <2> DEFINE failed == [call[p] EXCEPT !.pc = "record", !.want = None, !.failing = {}, !.age = 0]
               denied == [Idle("over") EXCEPT !.outage = call[p].want \in CountedClasses]
    <2>1. call[p].lease = None
      BY <1>0, <1>5 DEF ClaimLost, LeaseSane
    <2>2. failed.lease = None /\ failed.pc = "record" /\ failed.enc = call[p].enc
      BY <1>0, <2>1 DEF CallRecords
    <2>3. LeaseSane(failed)
      BY <1>0, <2>1, <2>2 DEF LeaseSane
    <2>4. denied.lease = None /\ denied.enc = {} /\ denied.pc = "over"
      BY DEF Idle
    <2>5. Set(p, failed) \/ Set(p, denied)
      BY <1>5 DEF ClaimLost
    <2> HIDE DEF failed, denied
    <2> QED
      BY <2>1, <2>2, <2>3, <2>4, <2>5, SetKeeps, FreshKeeps
  <1> QED
    BY <1>1, <1>2, <1>3, <1>4, <1>5

LEMMA BudgetingKeeps ==
    ASSUME CallsOK, LeasesOK, NEW p \in Calls, Budgeting(p)
    PROVE  Keeps(p)
  <1>0. call[p] \in CallRecords /\ LeaseSane(call[p])
    BY DEF CallsOK, LeasesOK
  <1>1. CASE ReserveRequest(p)
    BY <1>1, GotoKeeps DEF ReserveRequest, AfterReserve
  <1>2. CASE RequestBudgetBlocked(p) \/ DailyBudgetBlocked(p)
    BY <1>2, LeaveKeeps DEF RequestBudgetBlocked, DailyBudgetBlocked
  <1>3. CASE ConfigureDaily(p)
    BY <1>3, GotoKeeps DEF ConfigureDaily
  <1>4. CASE ReserveDaily(p)
    <2> DEFINE c == [call[p] EXCEPT !.pc = "call", !.daily = TRUE]
    <2>1. c.pc = "call" /\ c.lease = call[p].lease /\ c.enc = call[p].enc /\ c.clock = call[p].clock
      BY <1>0 DEF CallRecords
    <2>2. LeaseSane(c)
      BY <1>0, <1>4, <2>1 DEF LeaseSane, ReserveDaily
    <2>3. Set(p, c)
      BY <1>4 DEF ReserveDaily
    <2> HIDE DEF c
    <2> QED
      BY <2>1, <2>2, <2>3, SetKeeps
  <1> QED
    BY <1>1, <1>2, <1>3, <1>4 DEF Budgeting

\* A try ends: only the place, the outcome and the units of the call change.
LEMMA TryKeeps ==
    ASSUME CallsOK, LeasesOK, NEW p \in Calls, NEW c, Set(p, c),
           call[p].pc # "clear", c.pc \in {"sent", "settle", "judge"},
           c.lease = call[p].lease, c.enc = call[p].enc, c.clock = call[p].clock
    PROVE  Keeps(p)
  <1>1. LeaseSane(c)
    BY DEF LeasesOK, LeaseSane
  <1> QED
    BY <1>1, SetKeeps

LEMMA CallingKeeps ==
    ASSUME CallsOK, LeasesOK, NEW p \in Calls, Calling(p)
    PROVE  Keeps(p)
  <1>0. call[p] \in CallRecords /\ CallSane(call[p]) /\ LeaseSane(call[p])
    BY DEF CallsOK, LeasesOK
  <1>1. CASE Dispatch(p)
    <2> DEFINE c == [call[p] EXCEPT !.pc = "sent", !.sent = call[p].daily]
    <2>1. c.pc = "sent" /\ c.lease = call[p].lease /\ c.enc = call[p].enc /\ c.clock = call[p].clock
      BY <1>0 DEF CallRecords
    <2>2. Set(p, c) /\ call[p].pc # "clear"
      BY <1>1 DEF Dispatch
    <2> HIDE DEF c
    <2> QED
      BY <2>1, <2>2, TryKeeps
  <1>2. ASSUME NEW out, Set(p, [call[p] EXCEPT !.pc = Settling(p), !.out = out]), call[p].pc # "clear"
        PROVE  Keeps(p)
    <2> DEFINE c == [call[p] EXCEPT !.pc = Settling(p), !.out = out]
    <2>1. c.pc \in {"settle", "judge"} /\ c.lease = call[p].lease /\ c.enc = call[p].enc /\ c.clock = call[p].clock
      BY <1>0 DEF CallRecords, Settling
    <2> QED
      <3> HIDE DEF c
      <3> QED BY <1>2, <2>1, TryKeeps DEF c
  <1>3. ASSUME NEW b, Set(p, [call[p] EXCEPT !.pc = Settling(p), !.out = "error", !.err = b]), call[p].pc # "clear"
        PROVE  Keeps(p)
    <2> DEFINE c == [call[p] EXCEPT !.pc = Settling(p), !.out = "error", !.err = b]
    <2>1. c.pc \in {"settle", "judge"} /\ c.lease = call[p].lease /\ c.enc = call[p].enc /\ c.clock = call[p].clock
      BY <1>0 DEF CallRecords, Settling
    <2> QED
      <3> HIDE DEF c
      <3> QED BY <1>3, <2>1, TryKeeps DEF c
  <1>4. CASE NotTried(p) \/ Return(p) \/ BatchNotTried(p) \/ FailUnsent(p)
    BY <1>2, <1>3, <1>4 DEF NotTried, Return, BatchNotTried, FailUnsent
  <1>5. CASE SettleDaily(p)
    <2> DEFINE c == [call[p] EXCEPT !.pc = "judge", !.daily = FALSE, !.sent = FALSE]
    <2>1. c.pc = "judge" /\ c.lease = call[p].lease /\ c.enc = call[p].enc /\ c.clock = call[p].clock
      BY <1>0 DEF CallRecords
    <2>2. Set(p, c) /\ call[p].pc # "clear"
      BY <1>5 DEF SettleDaily
    <2> HIDE DEF c
    <2> QED
      BY <2>1, <2>2, TryKeeps
  <1>6. CASE Judge(p)
    <2>1. call[p].pc = "judge" /\ call[p].out \in {"ok", "error", "raise", "unsent"}
      BY <1>0, <1>6 DEF Judge, CallSane
    <2>2. CASE call[p].out = "ok"
      <3>1. call[p].enc = {} => call[p].lease = None
        BY <1>0, <2>1 DEF LeaseSane
      <3> QED
        BY <1>6, <2>1, <2>2, <3>1, EndKeeps, GotoKeeps DEF Judge
    <2>3. CASE call[p].out \in {"unsent", "raise"}
      BY <1>6, <2>1, <2>3, LeaveKeeps DEF Judge
    <2>4. CASE call[p].out = "error"
      <3> DEFINE again == [call[p] EXCEPT !.pc = "sleep", !.out = None, !.enc = @ \cup {call[p].err}]
      <3>1. \/ Leave(p, "end") \/ Goto(p, "record")
            \/ call[p].err \in Retryable /\ Set(p, again)
        BY <1>6, <2>4 DEF Judge, JudgeError, MayRetry
      <3>2. /\ again.pc = "sleep" /\ again.lease = call[p].lease /\ again.clock = call[p].clock
            /\ again.enc = call[p].enc \cup {call[p].err} /\ again.err = call[p].err
        BY <1>0 DEF CallRecords
      <3>3. call[p].err \in Retryable => LeaseSane(again)
        BY <1>0, <2>1, <3>2, EngineAssumption DEF LeaseSane, Retryable, Classes
      <3> HIDE DEF again
      <3> QED
        BY <2>1, <3>1, <3>2, <3>3, SetKeeps, LeaveKeeps, GotoKeeps
    <2> QED
      BY <2>1, <2>2, <2>3, <2>4
  <1>7. CASE Wake(p)
    <2> DEFINE c == [call[p] EXCEPT !.pc = "top", !.try = @ + 1]
    <2>1. /\ c.pc = "top" /\ c.lease = call[p].lease /\ c.enc = call[p].enc /\ c.clock = call[p].clock
          /\ c.err = call[p].err
      BY <1>0 DEF CallRecords
    <2>2. call[p].pc = "sleep" /\ (Set(p, c) \/ Leave(p, "end"))
      BY <1>7 DEF Wake
    <2>3. LeaseSane(c)
      BY <1>0, <2>1, <2>2 DEF LeaseSane
    <2> HIDE DEF c
    <2> QED
      BY <2>1, <2>2, <2>3, SetKeeps, LeaveKeeps
  <1> QED
    BY <1>1, <1>4, <1>5, <1>6, <1>7 DEF Calling

LEMMA ForcingKeeps ==
    ASSUME CallsOK, LeasesOK, NEW p \in Calls, ExpireWindow(p) \/ LastResort(p)
    PROVE  Keeps(p)
  <1>0. call[p] \in CallRecords /\ LeaseSane(call[p])
    BY DEF CallsOK, LeasesOK
  <1>1. CASE ExpireWindow(p)
    <2> DEFINE c == [call[p] EXCEPT !.want = "TIMEOUT"]
    <2>1. c.pc = "expire" /\ c.lease = None /\ c.enc = call[p].enc /\ call[p].lease = None /\ call[p].pc = "expire"
      BY <1>0, <1>1 DEF CallRecords, ExpireWindow, LeaseSane
    <2>2. LeaseSane(c)
      BY <1>0, <2>1 DEF LeaseSane
    <2>3. Set(p, c) \/ Set(p, Idle("ready"))
      BY <1>1 DEF ExpireWindow
    <2> HIDE DEF c
    <2> QED
      BY <2>1, <2>2, <2>3, IdleSane, SetKeeps DEF Idle
  <1>2. CASE LastResort(p)
    <2> DEFINE c == [Idle("expire") EXCEPT !.want = "TRANSIENT"]
    <2>1. c.pc = "expire" /\ c.lease = None /\ c.enc = {}
      BY DEF Idle
    <2>2. call[p].lease = None
      BY <1>0, <1>2 DEF LastResort, CallsOf, LeaseSane
    <2>3. Set(p, c)
      BY <1>2 DEF LastResort
    <2> HIDE DEF c
    <2> QED
      BY <2>1, <2>2, <2>3, FreshKeeps
  <1> QED
    BY <1>1, <1>2

\* Every other step than a claim or a verdict leaves the rows as they are, or expires one.
LEMMA KeepingSteps ==
    ASSUME CallsOK, LeasesOK, NEW p \in Calls, CallStep(p) \/ LastResort(p)
    PROVE  \/ Claim(p) \/ Verdict(p)
           \/ Keeps(p) /\ excused' = excused /\ call[p].pc # "clear" /\ (ExpireWindow(p) \/ row' = row)
  <1>1. CASE Late(p) \/ ReuseLease(p) \/ AdmitRead(p) \/ AdmitBlind(p) \/ ClaimLost(p)
    BY <1>1, AdmissionKeeps DEF Late, ReuseLease, AdmitRead, AdmitBlind, ClaimLost, MayAsk
  <1>2. CASE Budgeting(p)
    BY <1>2, BudgetingKeeps DEF Budgeting, ReserveRequest, RequestBudgetBlocked, ConfigureDaily, ReserveDaily,
       DailyBudgetBlocked
  <1>3. CASE Calling(p)
    BY <1>3, CallingKeeps DEF Calling, Dispatch, NotTried, Return, BatchNotTried, FailUnsent, SettleDaily, Judge, Wake
  <1>4. CASE ExpireWindow(p) \/ LastResort(p)
    BY <1>4, ForcingKeeps DEF ExpireWindow, LastResort, CallsOf
  <1> QED
    BY <1>1, <1>2, <1>3, <1>4 DEF CallStep, Admission

-----------------------------------------------------------------------------
\* p answers for the lease of bucket c: it holds it and has still to give it back or clear it.
AnswersFor(p, c) == call[p].lease = c /\ c \in call[p].enc

\* NoStrandedLease, with the holders that have not cleared their bucket yet.
Accounted ==
    \A k \in Keys, c \in Classes :
        row[k][c].state = "HALF_OPEN" /\ row[k][c].left > 0 =>
            \/ \E p \in Calls : KeyOf[p] = k /\ AnswersFor(p, c)
            \/ <<k, c>> \in excused

\* A table of buckets after one of them was replaced.
LEMMA PutRow ==
    ASSUME CircuitInv, NEW k \in Keys, NEW c \in Classes, NEW r, Put(k, c, r)
    PROVE  \A j \in Keys, d \in Classes : row'[j][d] = IF j = k /\ d = c THEN r ELSE row[j][d]
  BY DEF CircuitInv, CircuitTypeOK, Put

\* No new lease, and nobody lets one go unexcused.
LEMMA StaysAccounted ==
    ASSUME Accounted,
           \A k \in Keys, c \in Classes :
               row'[k][c].state = "HALF_OPEN" /\ row'[k][c].left > 0 =>
                   row[k][c].state = "HALF_OPEN" /\ row[k][c].left > 0,
           excused \subseteq excused',
           \A p \in Calls, c \in Classes : AnswersFor(p, c) =>
               AnswersFor(p, c)' \/ <<KeyOf[p], c>> \in excused'
    PROVE  Accounted'
  <1> SUFFICES ASSUME NEW k \in Keys, NEW c \in Classes,
                      row'[k][c].state = "HALF_OPEN" /\ row'[k][c].left > 0
               PROVE  (\E p \in Calls : KeyOf[p] = k /\ AnswersFor(p, c)') \/ <<k, c>> \in excused'
    BY DEF Accounted
  <1>1. CASE <<k, c>> \in excused
    BY <1>1
  <1>2. CASE \E p \in Calls : KeyOf[p] = k /\ AnswersFor(p, c)
    BY <1>2
  <1> QED
    BY <1>1, <1>2 DEF Accounted

\* The same, when one bucket of one key is no longer leased.
LEMMA StaysAccountedBut ==
    ASSUME Accounted, NEW j \in Keys, NEW d \in Classes,
           ~ (row'[j][d].state = "HALF_OPEN" /\ row'[j][d].left > 0),
           \A k \in Keys, c \in Classes : k # j \/ c # d => row'[k][c] = row[k][c],
           excused \subseteq excused',
           \A p \in Calls, c \in Classes : AnswersFor(p, c) =>
               AnswersFor(p, c)' \/ <<KeyOf[p], c>> \in excused' \/ (KeyOf[p] = j /\ c = d)
    PROVE  Accounted'
  <1> SUFFICES ASSUME NEW k \in Keys, NEW c \in Classes,
                      row'[k][c].state = "HALF_OPEN" /\ row'[k][c].left > 0
               PROVE  (\E p \in Calls : KeyOf[p] = k /\ AnswersFor(p, c)') \/ <<k, c>> \in excused'
    BY DEF Accounted
  <1>0. (k # j \/ c # d) /\ row'[k][c] = row[k][c]
    OBVIOUS
  <1>1. CASE <<k, c>> \in excused
    BY <1>1
  <1>2. CASE \E p \in Calls : KeyOf[p] = k /\ AnswersFor(p, c)
    BY <1>0, <1>2
  <1> QED
    BY <1>0, <1>1, <1>2 DEF Accounted

LEMMA KeepsAnswering ==
    ASSUME NEW p \in Calls, Keeps(p), NEW q \in Calls, NEW c \in Classes, AnswersFor(q, c)
    PROVE  AnswersFor(q, c)'
  BY EngineAssumption DEF Keeps, Alone, AnswersFor

LeaseInv == CallsOK /\ CircuitInv /\ LeasesOK /\ Accounted

LEMMA KeepsLeases ==
    ASSUME LeasesOK, NEW p \in Calls, Alone(p), LeaseSane(call'[p])
    PROVE  LeasesOK'
  BY DEF LeasesOK, Alone

LEMMA KeepingLeases ==
    ASSUME LeaseInv, NEW p \in Calls, Keeps(p), excused' = excused,
           ExpireWindow(p) \/ row' = row
    PROVE  LeasesOK' /\ Accounted'
  <1>1. LeasesOK'
    BY KeepsLeases DEF LeaseInv, Keeps
  <1>2. \A q \in Calls, c \in Classes : AnswersFor(q, c) => AnswersFor(q, c)'
    BY KeepsAnswering
  <1>3. \A k \in Keys, c \in Classes :
            row'[k][c].state = "HALF_OPEN" /\ row'[k][c].left > 0 =>
                row[k][c].state = "HALF_OPEN" /\ row[k][c].left > 0
    <2>1. CASE row' = row
      BY <2>1
    <2>2. CASE ExpireWindow(p) /\ row' # row
      <3>1. Key(p) \in Keys /\ call[p].want \in Classes
        BY <2>2, KeyIsKey DEF LeaseInv, CallsOK, CallSane, CallRecords, ExpireWindow
      <3>2. /\ row[Key(p)][call[p].want].state = "OPEN"
            /\ Put(Key(p), call[p].want, [row[Key(p)][call[p].want] EXCEPT !.left = 0])
        BY <2>2 DEF ExpireWindow, ExpireCircuit
      <3> DEFINE r == [row[Key(p)][call[p].want] EXCEPT !.left = 0]
      <3>3. row[Key(p)][call[p].want] \in Records
        BY <3>1 DEF LeaseInv, CircuitInv, CircuitTypeOK
      <3>4. r.state = "OPEN" /\ Put(Key(p), call[p].want, r)
        BY <3>2, <3>3 DEF Records
      <3> HIDE DEF r
      <3>5. \A j \in Keys, d \in Classes : row'[j][d] = IF j = Key(p) /\ d = call[p].want THEN r ELSE row[j][d]
        BY <3>1, <3>4, PutRow DEF LeaseInv
      <3> QED
        BY <3>4, <3>5
    <2> QED
      BY <2>1, <2>2
  <1>4. Accounted'
    BY <1>2, <1>3, StaysAccounted DEF LeaseInv
  <1> QED
    BY <1>1, <1>4

LEMMA ClaimLeases ==
    ASSUME LeaseInv, NEW p \in Calls, Claim(p)
    PROVE  LeasesOK' /\ Accounted' /\ Alone(p)
           /\ call'[p].lease = call[p].want /\ call'[p].clock = call[p].age /\ call'[p].pc = "reserve"
  <1> DEFINE c == [call[p] EXCEPT !.pc = "reserve", !.lease = call[p].want, !.clock = call[p].age,
                                  !.enc = @ \cup {call[p].want} \cup call[p].failing,
                                  !.want = None, !.failing = {}, !.age = 0]
             b == call[p].want
  <1>0. call[p] \in CallRecords /\ CallSane(call[p]) /\ LeaseSane(call[p]) /\ call[p].pc = "claim"
    BY DEF LeaseInv, CallsOK, LeasesOK, Claim
  <1>1. b \in Classes /\ Key(p) \in Keys /\ call[p].lease = None
    BY <1>0, KeyIsKey DEF CallRecords, CallSane, LeaseSane
  <1>2. /\ c.pc = "reserve" /\ c.lease = b /\ c.clock = call[p].age
        /\ c.enc = call[p].enc \cup {b} \cup call[p].failing
    BY <1>0 DEF CallRecords
  <1>3. LeaseSane(c)
    <2>1. \A d \in {"AUTH", "QUOTA"} : d \notin call[p].enc /\ d \notin call[p].failing
      BY <1>0, <1>1, EngineAssumption DEF LeaseSane, CallRecords, CountedClasses, Classes
    <2> QED
      BY <1>2, <2>1 DEF LeaseSane
  <1>4. Set(p, c)
    BY DEF Claim
  <1> HIDE DEF c
  <1>5. Alone(p) /\ call'[p] = c
    BY <1>4, SetAlone DEF LeaseInv
  <1>6. \A j \in Keys, d \in Classes : j # Key(p) \/ d # b => row'[j][d] = row[j][d]
    BY <1>1, PutRow DEF Claim, ClaimHalfOpen, LeaseInv
  <1>7. excused' = excused \ {<<Key(p), b>>}
    BY DEF Claim
  <1>8. Accounted'
    <2> SUFFICES ASSUME NEW k \in Keys, NEW d \in Classes,
                        row'[k][d].state = "HALF_OPEN" /\ row'[k][d].left > 0
                 PROVE  (\E q \in Calls : KeyOf[q] = k /\ AnswersFor(q, d)') \/ <<k, d>> \in excused'
      BY DEF Accounted
    <2>1. CASE k = Key(p) /\ d = b
      <3>1. AnswersFor(p, d)'
        BY <1>2, <1>5, <2>1 DEF AnswersFor
      <3> QED
        BY <2>1, <3>1 DEF Key
    <2>2. CASE ~ (k = Key(p) /\ d = b)
      <3>1. row[k][d].state = "HALF_OPEN" /\ row[k][d].left > 0
        BY <1>6, <2>2
      <3>2. CASE <<k, d>> \in excused
        BY <1>7, <2>2, <3>2
      <3>3. CASE \E q \in Calls : KeyOf[q] = k /\ AnswersFor(q, d)
        <4>1. PICK q \in Calls : KeyOf[q] = k /\ AnswersFor(q, d)
          BY <3>3
        <4>2. q # p
          BY <1>1, <4>1, EngineAssumption DEF AnswersFor
        <4>3. AnswersFor(q, d)'
          BY <1>5, <4>1, <4>2 DEF Alone, AnswersFor
        <4> QED
          BY <4>1, <4>3
      <3> QED
        BY <3>1, <3>2, <3>3 DEF LeaseInv, Accounted
    <2> QED
      BY <2>1, <2>2
  <1> QED
    BY <1>2, <1>3, <1>5, <1>8, KeepsLeases DEF LeaseInv

LEMMA ReleaseLeases ==
    ASSUME LeaseInv, NEW p \in Calls, ReleaseLease(p)
    PROVE  LeasesOK' /\ Accounted' /\ Alone(p) /\ call'[p].lease = None
  <1> DEFINE next == IF call[p].err # None THEN "record" ELSE "over"
             c == [call[p] EXCEPT !.pc = next, !.lease = None, !.clock = 0, !.out = None, !.enc = {}, !.try = 0]
             b == call[p].lease
  <1>0. call[p] \in CallRecords /\ CallSane(call[p]) /\ call[p].pc = "unlease"
    BY DEF LeaseInv, CallsOK, ReleaseLease
  <1>1. b \in Classes /\ Key(p) \in Keys
    BY <1>0, KeyIsKey DEF CallRecords, CallSane
  <1>2. c.pc \in {"record", "over"} /\ c.lease = None /\ c.enc = {}
    BY <1>0 DEF CallRecords
  <1>3. LeaseSane(c)
    BY <1>2 DEF LeaseSane
  <1>4. Set(p, c) \/ Set(p, Idle("over"))
    BY DEF ReleaseLease, End
  <1> HIDE DEF c
  <1>5. Alone(p) /\ LeaseSane(call'[p]) /\ call'[p].lease = None
    BY <1>2, <1>3, <1>4, SetAlone, IdleSane DEF LeaseInv
  <1>6. \A q \in Calls, d \in Classes : AnswersFor(q, d) => AnswersFor(q, d)' \/ (q = p /\ d = b)
    BY <1>5 DEF Alone, AnswersFor
  <1>7. Accounted'
    <2>1. CASE ReleaseHalfOpen(Key(p), b) /\ excused' = excused
      <3>1. /\ ~ (row'[Key(p)][b].state = "HALF_OPEN" /\ row'[Key(p)][b].left > 0)
            /\ \A k \in Keys, d \in Classes : k # Key(p) \/ d # b => row'[k][d] = row[k][d]
        <4>1. CASE row[Key(p)][b].state = "HALF_OPEN"
          <5> DEFINE r == [row[Key(p)][b] EXCEPT !.left = 0]
          <5>1. Put(Key(p), b, r)
            BY <2>1, <4>1 DEF ReleaseHalfOpen
          <5>2. r.left = 0
            BY <1>1 DEF LeaseInv, CircuitInv, CircuitTypeOK, Records
          <5> HIDE DEF r
          <5>3. \A k \in Keys, d \in Classes : row'[k][d] = IF k = Key(p) /\ d = b THEN r ELSE row[k][d]
            BY <1>1, <5>1, PutRow DEF LeaseInv
          <5> QED
            BY <1>1, <5>2, <5>3
        <4>2. CASE row[Key(p)][b].state # "HALF_OPEN"
          BY <2>1, <4>2 DEF ReleaseHalfOpen
        <4> QED
          BY <4>1, <4>2
      <3> QED
        BY <1>1, <1>6, <2>1, <3>1, StaysAccountedBut DEF LeaseInv, Key
    <2>2. CASE row' = row /\ excused' = excused \cup {<<Key(p), b>>}
      BY <1>6, <2>2, StaysAccounted DEF LeaseInv, Key
    <2> QED
      BY <2>1, <2>2 DEF ReleaseLease
  <1> QED
    BY <1>5, <1>7, KeepsLeases DEF LeaseInv

LEMMA RecordLeases ==
    ASSUME LeaseInv, NEW p \in Calls, RecordVerdict(p)
    PROVE  LeasesOK' /\ Accounted' /\ Alone(p) /\ call'[p].lease = None
  <1> DEFINE b == call[p].err
  <1>1. b \in Classes /\ Key(p) \in Keys
    BY KeyIsKey DEF LeaseInv, CallsOK, CallRecords, CallSane, RecordVerdict
  <1>2. Alone(p) /\ LeaseSane(call'[p]) /\ call'[p].lease = None
    BY SetAlone, IdleSane DEF LeaseInv, RecordVerdict, End
  <1>3. \A q \in Calls, d \in Classes : AnswersFor(q, d) => AnswersFor(q, d)' \/ <<KeyOf[q], d>> \in excused'
    <2> SUFFICES ASSUME NEW q \in Calls, NEW d \in Classes, AnswersFor(q, d)
                 PROVE  AnswersFor(q, d)' \/ <<KeyOf[q], d>> \in excused'
      OBVIOUS
    <2>1. CASE q = p
      BY <2>1, EngineAssumption DEF RecordVerdict, LeaseLeft, AnswersFor, Key
    <2>2. CASE q # p
      BY <1>2, <2>2 DEF Alone, AnswersFor
    <2> QED
      BY <2>1, <2>2
  <1>4. excused \subseteq excused'
    BY DEF RecordVerdict
  <1>5. Accounted'
    <2>1. CASE row' = row
      BY <1>3, <1>4, <2>1, StaysAccounted DEF LeaseInv
    <2>2. CASE \E window \in OpenFor[b] : RecordFailure(Key(p), b, window)
      <3>1. PICK window \in OpenFor[b] : RecordFailure(Key(p), b, window)
        BY <2>2
      <3> DEFINE r == [state |-> StateFor(b), count |-> Counted(row[Key(p)][b].count), left |-> window]
      <3>2. Put(Key(p), b, r)
        BY <3>1 DEF RecordFailure
      <3>3. r.state # "HALF_OPEN"
        BY DEF StateFor
      <3> HIDE DEF r
      <3>4. \A k \in Keys, d \in Classes : row'[k][d] = IF k = Key(p) /\ d = b THEN r ELSE row[k][d]
        BY <1>1, <3>2, PutRow DEF LeaseInv
      <3> QED
        BY <1>1, <1>3, <1>4, <3>3, <3>4, StaysAccountedBut DEF LeaseInv
    <2> QED
      BY <2>1, <2>2 DEF RecordVerdict
  <1> QED
    BY <1>2, <1>5, KeepsLeases DEF LeaseInv

LEMMA ClearLeases ==
    ASSUME LeaseInv, NEW p \in Calls, ClearBucket(p)
    PROVE  LeasesOK' /\ Accounted' /\ Alone(p)
           /\ call'[p].pc \in {"clear", "over"} /\ call'[p].lease \in {call[p].lease, None}
  <1>0. call[p] \in CallRecords /\ LeaseSane(call[p]) /\ call[p].pc = "clear" /\ Key(p) \in Keys
    BY KeyIsKey DEF LeaseInv, CallsOK, LeasesOK, ClearBucket
  <1>1. PICK b \in call[p].enc :
           /\ IF call[p].enc = {b} THEN End(p) ELSE Set(p, [call[p] EXCEPT !.enc = @ \ {b}])
           /\ \/ RecordSuccess(Key(p), b) /\ excused' = excused
              \/ excused' = excused \cup LeaseLeft(p) /\ row' = row
    BY DEF ClearBucket
  <1>2. b \in Classes
    BY <1>0 DEF CallRecords
  <1> DEFINE c == [call[p] EXCEPT !.enc = @ \ {b}]
  <1>3. c.pc = "clear" /\ c.lease = call[p].lease /\ c.enc = call[p].enc \ {b}
    BY <1>0 DEF CallRecords
  <1>4. LeaseSane(c)
    BY <1>0, <1>3 DEF LeaseSane
  <1>5. \/ Set(p, c)
        \/ Set(p, Idle("over")) /\ call[p].enc = {b}
    BY <1>1 DEF End
  <1> HIDE DEF c
  <1>6. Alone(p) /\ LeaseSane(call'[p]) /\ (call'[p] = c \/ (call'[p] = Idle("over") /\ call[p].enc = {b}))
    BY <1>4, <1>5, SetAlone, IdleSane DEF LeaseInv
  <1>7. \A q \in Calls, d \in Classes : AnswersFor(q, d) => AnswersFor(q, d)' \/ (q = p /\ d = b)
    <2> SUFFICES ASSUME NEW q \in Calls, NEW d \in Classes, AnswersFor(q, d), ~ (q = p /\ d = b)
                 PROVE  AnswersFor(q, d)'
      OBVIOUS
    <2>1. CASE q # p
      BY <1>6, <2>1 DEF Alone, AnswersFor
    <2>2. CASE q = p
      BY <1>3, <1>6, <2>2 DEF AnswersFor
    <2> QED
      BY <2>1, <2>2
  <1>8. Accounted'
    <2>1. CASE RecordSuccess(Key(p), b) /\ excused' = excused
      <3>1. \A k \in Keys, d \in Classes : row'[k][d] = IF k = Key(p) /\ d = b THEN Absent ELSE row[k][d]
        BY <1>0, <1>2, <2>1, PutRow DEF LeaseInv, RecordSuccess
      <3>2. row'[Key(p)][b].state # "HALF_OPEN"
        BY <1>0, <1>2, <3>1 DEF Absent
      <3> QED
        BY <1>0, <1>2, <1>7, <2>1, <3>1, <3>2, StaysAccountedBut DEF LeaseInv, Key
    <2>2. CASE excused' = excused \cup LeaseLeft(p) /\ row' = row
      <3>1. \A q \in Calls, d \in Classes : AnswersFor(q, d) => AnswersFor(q, d)' \/ <<KeyOf[q], d>> \in excused'
        <4> SUFFICES ASSUME NEW q \in Calls, NEW d \in Classes, AnswersFor(q, d), ~ AnswersFor(q, d)'
                     PROVE  <<KeyOf[q], d>> \in excused'
          OBVIOUS
        <4>1. q = p /\ d = b /\ call[p].lease = b
          BY <1>7 DEF AnswersFor
        <4>2. LeaseLeft(p) = {<<Key(p), b>>}
          BY <1>2, <4>1, EngineAssumption DEF LeaseLeft
        <4> QED
          BY <2>2, <4>1, <4>2 DEF Key
      <3> QED
        BY <2>2, <3>1, StaysAccounted DEF LeaseInv
    <2> QED
      BY <1>1, <2>1, <2>2
  <1> QED
    BY <1>3, <1>6, <1>8, KeepsLeases, IdleSane DEF LeaseInv, Idle

\* The slots of a request are reset: by the next request nobody's lease is lost, by a
\* crash the leases of its calls are.
LEMMA ResetLeases ==
    ASSUME LeaseInv, NEW r \in Requests, BeginRequest(r) \/ Crash(r)
    PROVE  LeasesOK' /\ Accounted'
  <1>1. PICK pc \in {"ready", "over"} :
           call' = [p \in Calls |-> IF RequestOf[p] = r THEN Idle(pc) ELSE call[p]]
    BY DEF BeginRequest, Crash
  <1>2. \A p \in Calls : call'[p] = IF RequestOf[p] = r THEN Idle(pc) ELSE call[p]
    BY <1>1
  <1>3. LeasesOK'
    BY <1>2, IdleSane DEF LeasesOK, LeaseInv
  <1>4. row' = row /\ excused \subseteq excused'
    BY DEF BeginRequest, Crash
  <1>5. \A p \in Calls, c \in Classes : AnswersFor(p, c) => AnswersFor(p, c)' \/ <<KeyOf[p], c>> \in excused'
    <2> SUFFICES ASSUME NEW p \in Calls, NEW c \in Classes, AnswersFor(p, c)
                 PROVE  AnswersFor(p, c)' \/ <<KeyOf[p], c>> \in excused'
      OBVIOUS
    <2>0. call[p].lease # None
      BY EngineAssumption DEF AnswersFor
    <2>1. CASE RequestOf[p] # r
      BY <1>2, <2>1 DEF AnswersFor
    <2>2. CASE RequestOf[p] = r /\ BeginRequest(r)
      BY <2>0, <2>2 DEF BeginRequest, CallsOf, Running, LeaseInv, LeasesOK, LeaseSane
    <2>3. CASE RequestOf[p] = r /\ Crash(r)
      <3>1. p \in CallsOf(r) /\ <<KeyOf[p], c>> \in LeaseLeft(p)
        BY <2>0, <2>3 DEF CallsOf, LeaseLeft, Key, AnswersFor
      <3> QED
        BY <2>3, <3>1 DEF Crash
    <2> QED
      BY <2>1, <2>2, <2>3
  <1>6. Accounted'
    BY <1>4, <1>5, StaysAccounted DEF LeaseInv
  <1> QED
    BY <1>3, <1>6

\* A tick ages the claims and the leases, and nothing else of a call.
LEMMA TickCalls ==
    ASSUME CallsOK, Tick
    PROVE  \A p \in Calls :
              /\ call'[p].pc = call[p].pc /\ call'[p].lease = call[p].lease /\ call'[p].enc = call[p].enc
              /\ call'[p].err = call[p].err
              /\ call'[p].clock = IF call[p].lease # None THEN call[p].clock + 1 ELSE call[p].clock
  <1> SUFFICES ASSUME NEW p \in Calls
               PROVE  /\ call'[p].pc = call[p].pc /\ call'[p].lease = call[p].lease
                      /\ call'[p].enc = call[p].enc /\ call'[p].err = call[p].err
                      /\ call'[p].clock = IF call[p].lease # None THEN call[p].clock + 1 ELSE call[p].clock
    OBVIOUS
  <1>1. call[p] \in CallRecords
    BY DEF CallsOK
  <1> QED
    BY <1>1 DEF Tick, CallRecords

LEMMA TickRow ==
    ASSUME CircuitInv, TickRows, NEW k \in Keys, NEW c \in Classes
    PROVE  /\ row'[k][c].state = row[k][c].state /\ row'[k][c].count = row[k][c].count
           /\ row'[k][c].left = IF row[k][c].state # "CLOSED" /\ row[k][c].left > -MaxAge
                                THEN row[k][c].left - 1 ELSE row[k][c].left
  <1>1. row[k][c] \in Records
    BY DEF CircuitInv, CircuitTypeOK
  <1>2. row'[k][c] = Older(row[k][c])
    BY DEF TickRows
  <1> QED
    BY <1>1, <1>2 DEF Older, Records

LEMMA TickLeases ==
    ASSUME LeaseInv, Tick
    PROVE  LeasesOK' /\ Accounted'
  <1>1. LeasesOK'
    BY TickCalls DEF LeaseInv, LeasesOK, LeaseSane
  <1>2. \A p \in Calls, c \in Classes : AnswersFor(p, c) => AnswersFor(p, c)'
    BY TickCalls DEF LeaseInv, AnswersFor
  <1>3. \A k \in Keys, c \in Classes :
               row'[k][c].state = "HALF_OPEN" /\ row'[k][c].left > 0 =>
                   row[k][c].state = "HALF_OPEN" /\ row[k][c].left > 0
    <2> SUFFICES ASSUME NEW k \in Keys, NEW c \in Classes,
                        row'[k][c].state = "HALF_OPEN" /\ row'[k][c].left > 0
                 PROVE  row[k][c].state = "HALF_OPEN" /\ row[k][c].left > 0
      OBVIOUS
    <2>1. row[k][c].left \in Int
      BY CircuitAssumption DEF LeaseInv, CircuitInv, CircuitTypeOK, Records
    <2>2. CircuitInv /\ TickRows
      BY DEF LeaseInv, Tick
    <2>3. row'[k][c].state = row[k][c].state /\ row'[k][c].left \in {row[k][c].left - 1, row[k][c].left}
      BY <2>2, TickRow
    <2> QED
      BY <2>1, <2>3
  <1>4. Accounted'
    BY <1>2, <1>3, StaysAccounted DEF LeaseInv, Tick
  <1> QED
    BY <1>1, <1>4

LEMMA LeaseInvariant == Spec => []LeaseInv
  <1>1. Init => LeaseInv
    <2> SUFFICES ASSUME Init
                 PROVE  LeaseInv
      OBVIOUS
    <2>1. LeasesOK
      BY IdleSane DEF Init, LeasesOK
    <2>2. Accounted
      BY DEF Init, CircuitInit, Absent, Accounted
    <2> QED
      BY <2>1, <2>2, CallsInitOK, CircuitInitInv DEF Init, LeaseInv
  <1>2. LeaseInv /\ [Next]_vars => LeaseInv'
    <2> SUFFICES ASSUME LeaseInv, [Next]_vars
                 PROVE  LeasesOK' /\ Accounted'
      BY CallsNextOK, NextStore, CircuitNextInv DEF LeaseInv
    <2>1. ASSUME NEW p \in Calls, CallStep(p) \/ LastResort(p)
          PROVE  LeasesOK' /\ Accounted'
      BY <2>1, KeepingSteps, KeepingLeases, ClaimLeases, ReleaseLeases, RecordLeases, ClearLeases DEF LeaseInv, Verdict
    <2>2. ASSUME NEW r \in Requests, BeginRequest(r) \/ Crash(r)
          PROVE  LeasesOK' /\ Accounted'
      BY <2>2, ResetLeases
    <2>3. CASE Tick
      BY <2>3, TickLeases
    <2>4. ASSUME row' = row, call' = call, excused' = excused
          PROVE  LeasesOK' /\ Accounted'
      BY <2>4 DEF LeaseInv, LeasesOK, Accounted, AnswersFor
    <2>5. ASSUME NEW r \in Requests, Approach(r) \/ Recover(r)
          PROVE  row' = row /\ call' = call /\ excused' = excused
      BY <2>5 DEF Approach, Recover
    <2>6. CASE UNCHANGED vars
      BY <2>4, <2>6 DEF vars
    <2> QED
      BY <2>1, <2>2, <2>3, <2>4, <2>5, <2>6 DEF Next
  <1> QED
    BY <1>1, <1>2, PTL DEF Spec

\* A probe lease nobody uses is given back on every path through execute(), however calls,
\* retries, refusals and store errors interleave: what stays leased has a holder, or one
\* that died, tried the provider, or could not reach the store.
THEOREM EngineLeasesReturn == Spec => []NoStrandedLease
  <1>1. LeaseInv => NoStrandedLease
    BY DEF LeaseInv, Accounted, AnswersFor, NoStrandedLease
  <1> QED
    BY <1>1, LeaseInvariant, PTL

-----------------------------------------------------------------------------
(* Who ends a block, and who lowers a count                                 *)

\* The bucket is closed, or counts fewer failures.
Lowered(k, c) ==
    \/ row[k][c].state # "CLOSED" /\ row'[k][c].state = "CLOSED"
    \/ row'[k][c].count < row[k][c].count

LEMMA PutLowers ==
    ASSUME CircuitInv, NEW k \in Keys, NEW c \in Classes, NEW r, Put(k, c, r),
           r.state # "CLOSED" \/ row[k][c].state = "CLOSED", r.count \in Int, r.count >= row[k][c].count
    PROVE  \A j \in Keys, d \in Classes : ~ Lowered(j, d)
  <1> SUFFICES ASSUME NEW j \in Keys, NEW d \in Classes
               PROVE  ~ Lowered(j, d)
    OBVIOUS
  <1>1. row[j][d].count \in Int /\ row[k][c].count \in Int
    BY CircuitAssumption DEF CircuitInv, CircuitTypeOK, Records
  <1>2. row'[j][d] = IF j = k /\ d = c THEN r ELSE row[j][d]
    BY PutRow
  <1>3. CASE j = k /\ d = c
    BY <1>1, <1>2, <1>3 DEF Lowered
  <1>4. CASE ~ (j = k /\ d = c)
    BY <1>1, <1>2, <1>4 DEF Lowered
  <1> QED
    BY <1>3, <1>4

LEMMA SameLowers ==
    ASSUME CircuitInv, row' = row
    PROVE  \A j \in Keys, d \in Classes : ~ Lowered(j, d)
  <1> SUFFICES ASSUME NEW j \in Keys, NEW d \in Classes
               PROVE  ~ Lowered(j, d)
    OBVIOUS
  <1>1. row[j][d].count \in Int
    BY CircuitAssumption DEF CircuitInv, CircuitTypeOK, Records
  <1> QED
    BY <1>1 DEF Lowered

\* Every other transaction than record_success keeps the count and the block.
LEMMA TransactionsKeep ==
    ASSUME CircuitInv, NEW k \in Keys, NEW c \in Classes,
           \/ \E window \in OpenFor[c] : RecordFailure(k, c, window)
           \/ \E age \in Int : ClaimHalfOpen(k, c, age)
           \/ ReleaseHalfOpen(k, c)
           \/ ExpireCircuit(k, c)
    PROVE  \A j \in Keys, d \in Classes : ~ Lowered(j, d)
  <1>0. row[k][c] \in Records
    BY DEF CircuitInv, CircuitTypeOK
  <1>00. row[k][c].count \in Nat /\ FailuresToOpen \in Nat
    BY <1>0, CircuitAssumption DEF Records
  <1>1. ASSUME NEW window \in OpenFor[c], RecordFailure(k, c, window)
        PROVE  \A j \in Keys, d \in Classes : ~ Lowered(j, d)
    <2> DEFINE r == [state |-> StateFor(c), count |-> Counted(row[k][c].count), left |-> window]
    <2>1. r.state # "CLOSED" /\ r.count \in Int /\ r.count >= row[k][c].count
      BY <1>00 DEF StateFor, Counted
    <2>2. Put(k, c, r)
      BY <1>1 DEF RecordFailure
    <2> HIDE DEF r
    <2> QED
      BY <2>1, <2>2, PutLowers
  <1>2. ASSUME NEW age \in Int, ClaimHalfOpen(k, c, age)
        PROVE  \A j \in Keys, d \in Classes : ~ Lowered(j, d)
    <2> DEFINE r == [row[k][c] EXCEPT !.state = "HALF_OPEN", !.left = Lease - age]
    <2>1. r.state # "CLOSED" /\ r.count \in Int /\ r.count >= row[k][c].count
      BY <1>0, <1>00 DEF Records
    <2>2. Put(k, c, r)
      BY <1>2 DEF ClaimHalfOpen
    <2> HIDE DEF r
    <2> QED
      BY <2>1, <2>2, PutLowers
  <1>3. CASE ReleaseHalfOpen(k, c) \/ ExpireCircuit(k, c)
    <2> DEFINE r == [row[k][c] EXCEPT !.left = 0]
    <2>1. r.state = row[k][c].state /\ r.count \in Int /\ r.count >= row[k][c].count
      BY <1>0, <1>00 DEF Records
    <2>2. row' = row \/ Put(k, c, r)
      BY <1>3 DEF ReleaseHalfOpen, ExpireCircuit
    <2> HIDE DEF r
    <2> QED
      BY <2>1, <2>2, PutLowers, SameLowers
  <1> QED
    BY <1>1, <1>2, <1>3

\* A count falls and a block ends only where a call that succeeded clears what it met.
LEMMA OnlySuccessLowers ==
    ASSUME LeaseInv, [Next]_vars, NEW k \in Keys, NEW c \in Classes, Lowered(k, c)
    PROVE  \E p \in Calls : KeyOf[p] = k /\ ClearBucket(p) /\ c \in call[p].enc
  <1>0. CircuitInv /\ row' # row
    BY SameLowers DEF LeaseInv
  <1>1. ASSUME NEW p \in Calls, CallStep(p) \/ LastResort(p)
        PROVE  \E q \in Calls : KeyOf[q] = k /\ ClearBucket(q) /\ c \in call[q].enc
    <2>0. call[p] \in CallRecords /\ CallSane(call[p]) /\ Key(p) \in Keys
      BY KeyIsKey DEF LeaseInv, CallsOK
    <2>1. CASE Claim(p)
      <3>1. call[p].want \in Classes /\ call[p].age \in Int
        BY <2>0, <2>1, CircuitAssumption DEF Claim, CallSane, CallRecords
      <3> QED
        BY <1>0, <2>0, <2>1, <3>1, TransactionsKeep DEF Claim
    <2>2. CASE ReleaseLease(p)
      <3>1. call[p].lease \in Classes
        BY <2>0, <2>2 DEF ReleaseLease, CallSane, CallRecords
      <3> QED
        BY <1>0, <2>0, <2>2, <3>1, TransactionsKeep DEF ReleaseLease
    <2>3. CASE RecordVerdict(p)
      <3>1. call[p].err \in Classes
        BY <2>0, <2>3 DEF RecordVerdict, CallSane, CallRecords
      <3> QED
        BY <1>0, <2>0, <2>3, <3>1, TransactionsKeep DEF RecordVerdict
    <2>4. CASE ExpireWindow(p)
      <3>1. call[p].want \in Classes
        BY <2>0, <2>4 DEF ExpireWindow, CallSane, CallRecords
      <3> QED
        BY <1>0, <2>0, <2>4, <3>1, TransactionsKeep DEF ExpireWindow
    <2>5. CASE ClearBucket(p)
      <3>1. PICK b \in call[p].enc : RecordSuccess(Key(p), b)
        BY <1>0, <2>5 DEF ClearBucket
      <3>2. b \in Classes
        BY <2>0 DEF CallRecords
      <3>3. row'[k][c] = IF k = Key(p) /\ c = b THEN Absent ELSE row[k][c]
        BY <1>0, <2>0, <3>1, <3>2, PutRow DEF RecordSuccess
      <3>4. row[k][c].count \in Int
        BY <1>0, CircuitAssumption DEF CircuitInv, CircuitTypeOK, Records
      <3>5. k = Key(p) /\ c = b
        BY <3>3, <3>4 DEF Lowered
      <3> QED
        BY <2>5, <3>5 DEF Key
    <2> QED
      BY <1>0, <1>1, <2>1, <2>2, <2>3, <2>4, <2>5, KeepingSteps DEF LeaseInv, Verdict
  <1>2. CASE Tick
    <2>1. row[k][c].count \in Int
      BY <1>0, CircuitAssumption DEF CircuitInv, CircuitTypeOK, Records
    <2>2. TickRows
      BY <1>2 DEF Tick
    <2>3. row'[k][c].state = row[k][c].state /\ row'[k][c].count = row[k][c].count
      BY <1>0, <2>2, TickRow
    <2> QED
      BY <2>1, <2>3 DEF Lowered
  <1>3. ASSUME NEW r \in Requests, BeginRequest(r) \/ Approach(r) \/ Recover(r) \/ Crash(r)
        PROVE  FALSE
    BY <1>0, <1>3 DEF BeginRequest, Approach, Recover, Crash
  <1> QED
    BY <1>0, <1>1, <1>2, <1>3 DEF Next, vars

\* Ending a window early, losing or giving back a lease, a blocked budget, a deadline and
\* a dead process all keep the failure count: only a call that succeeded lowers it.
THEOREM EngineKeepsCounts == Spec => FailureCountKept
  <1>1. LeaseInv /\ [Next]_vars =>
            [\A k \in Keys, c \in Classes :
                row'[k][c].count < row[k][c].count
                    => \E p \in Calls : KeyOf[p] = k /\ call[p].pc = "clear" /\ c \in call[p].enc]_vars
    BY OnlySuccessLowers DEF Lowered, ClearBucket
  <1> QED
    BY <1>1, LeaseInvariant, PTL DEF Spec, FailureCountKept

-----------------------------------------------------------------------------
(* One probe at a time, until it is overtaken                               *)

\* The bucket p answers for is leased, and at least as long as p's own lease runs.
Leased(p, c) ==
    /\ row[KeyOf[p]][c].state = "HALF_OPEN"
    /\ row[KeyOf[p]][c].left + call[p].clock >= Lease

Undisturbed == \A p \in Calls, c \in Classes : p \notin overtaken /\ AnswersFor(p, c) => Leased(p, c)

ProbeInv == Undisturbed /\ OneProbeUnlessOvertaken

\* A verdict is a step that shows, on the call or on the buckets it has still to clear.
LEMMA VerdictTaken ==
    ASSUME LeaseInv, NEW p \in Calls, Verdict(p)
    PROVE  TookVerdict(p)
  <1>0. CallsOK /\ call[p] \in CallRecords
    BY DEF LeaseInv, CallsOK
  <1>1. ASSUME End(p), call[p].pc \in {"unlease", "record", "clear"}
        PROVE  TookVerdict(p)
    BY <1>0, <1>1, SetAlone DEF End, Idle, TookVerdict
  <1>2. CASE ReleaseLease(p)
    <2> DEFINE next == IF call[p].err # None THEN "record" ELSE "over"
               c == [call[p] EXCEPT !.pc = next, !.lease = None, !.clock = 0, !.out = None, !.enc = {}, !.try = 0]
    <2>1. call[p].pc = "unlease" /\ (End(p) \/ Set(p, c))
      BY <1>2 DEF ReleaseLease
    <2>2. c.pc # "unlease"
      BY <1>0 DEF CallRecords
    <2> HIDE DEF c
    <2> QED
      BY <1>0, <1>1, <2>1, <2>2, SetAlone DEF TookVerdict
  <1>3. CASE RecordVerdict(p)
    BY <1>1, <1>3 DEF RecordVerdict
  <1>4. CASE ClearBucket(p)
    <2>1. PICK b \in call[p].enc : End(p) \/ Set(p, [call[p] EXCEPT !.enc = @ \ {b}])
      BY <1>4 DEF ClearBucket
    <2> DEFINE c == [call[p] EXCEPT !.enc = @ \ {b}]
    <2>2. c.enc # call[p].enc
      BY <1>0, <2>1 DEF CallRecords
    <2>3. call[p].pc = "clear" /\ (End(p) \/ Set(p, c))
      BY <1>4, <2>1 DEF ClearBucket
    <2> HIDE DEF c
    <2> QED
      BY <1>0, <1>1, <2>2, <2>3, SetAlone DEF TookVerdict
  <1> QED
    BY <1>2, <1>3, <1>4 DEF Verdict

\* A call that holds a lease before and after a step, and is not overtaken after it, was not
\* before it, and nobody's verdict rewrote its bucket.
LEMMA NotOvertaken ==
    ASSUME Observe, NEW q \in Calls, q \notin overtaken', call[q].lease # None, call'[q].lease # None
    PROVE  q \notin overtaken /\ ~ Overtakes(q)
  BY DEF Observe

\* The leases hold on after a step that begins no answer and keeps the buckets of those
\* who were not overtaken.
LEMMA StaysUndisturbed ==
    ASSUME Observe, Undisturbed,
           \A q \in Calls, c \in Classes : q \notin overtaken' /\ AnswersFor(q, c)' =>
               AnswersFor(q, c) /\ (Leased(q, c) => Leased(q, c)')
    PROVE  Undisturbed'
  <1> SUFFICES ASSUME NEW q \in Calls, NEW c \in Classes, q \notin overtaken', AnswersFor(q, c)'
               PROVE  Leased(q, c)'
    BY DEF Undisturbed
  <1>1. AnswersFor(q, c) /\ (Leased(q, c) => Leased(q, c)')
    OBVIOUS
  <1>2. call[q].lease # None /\ call'[q].lease # None
    BY <1>1, EngineAssumption DEF AnswersFor
  <1> QED
    BY <1>1, <1>2, NotOvertaken DEF Undisturbed

\* Nobody begins to probe.
LEMMA StaysOneProbe ==
    ASSUME Observe, OneProbeUnlessOvertaken,
           \A q \in Calls, c \in Classes : Probing(q, c)' => Probing(q, c)
    PROVE  OneProbeUnlessOvertaken'
  <1> SUFFICES ASSUME NEW p \in Calls, NEW q \in Calls, NEW c \in Classes,
                      Probing(p, c)', Probing(q, c)', KeyOf[p] = KeyOf[q], p # q
               PROVE  p \in overtaken' \/ q \in overtaken'
    BY DEF OneProbeUnlessOvertaken
  <1>1. /\ call[p].lease # None /\ call'[p].lease # None
        /\ call[q].lease # None /\ call'[q].lease # None
    BY EngineAssumption DEF Probing
  <1>2. p \in overtaken \/ q \in overtaken
    BY DEF OneProbeUnlessOvertaken
  <1> QED
    BY <1>1, <1>2, NotOvertaken

\* Steps of a call that keep its lease.
LEMMA KeepingProbes ==
    ASSUME LeaseInv, ProbeInv, Observe, NEW p \in Calls, Keeps(p), call[p].pc # "clear",
           ExpireWindow(p) \/ row' = row
    PROVE  ProbeInv'
  <1>1. \A q \in Calls : /\ call'[q].lease = call[q].lease
                         /\ call[q].lease # None => call'[q].clock = call[q].clock
    BY DEF Keeps, Alone
  <1>2. \A q \in Calls, c \in Classes : Probing(q, c)' => Probing(q, c)
    <2> SUFFICES ASSUME NEW q \in Calls, NEW c \in Classes, Probing(q, c)'
                 PROVE  Probing(q, c)
      OBVIOUS
    <2>1. call[q].lease = c /\ call[q].lease # None
      BY <1>1, EngineAssumption DEF Probing
    <2>2. CASE q = p
      BY <1>1, <2>1, <2>2 DEF Probing
    <2>3. CASE q # p
      BY <2>3 DEF Keeps, Alone, Probing
    <2> QED
      BY <2>2, <2>3
  <1>3. ASSUME NEW q \in Calls, NEW c \in Classes, AnswersFor(q, c)'
        PROVE  AnswersFor(q, c) /\ (Leased(q, c) => Leased(q, c)')
    <2>1. call[q].lease = c /\ call[q].lease # None
      BY <1>1, <1>3, EngineAssumption DEF AnswersFor
    <2>2. AnswersFor(q, c)
      <3>1. CASE q = p
        BY <2>1, <3>1 DEF LeaseInv, LeasesOK, LeaseSane, AnswersFor
      <3>2. CASE q # p
        BY <1>3, <3>2 DEF Keeps, Alone, AnswersFor
      <3> QED
        BY <3>1, <3>2
    <2>3. row[KeyOf[q]][c].state = "HALF_OPEN" => row'[KeyOf[q]][c] = row[KeyOf[q]][c]
      <3>1. CASE row' = row
        BY <3>1
      <3>2. CASE ExpireWindow(p) /\ row' # row
        <4>1. Key(p) \in Keys /\ KeyOf[q] \in Keys /\ call[p].want \in Classes
          BY <3>2, KeyIsKey, EngineAssumption DEF LeaseInv, CallsOK, CallSane, CallRecords, ExpireWindow
        <4> DEFINE r == [row[Key(p)][call[p].want] EXCEPT !.left = 0]
        <4>2. row[Key(p)][call[p].want].state = "OPEN" /\ Put(Key(p), call[p].want, r)
          BY <3>2 DEF ExpireWindow, ExpireCircuit
        <4> HIDE DEF r
        <4>3. row'[KeyOf[q]][c] = IF KeyOf[q] = Key(p) /\ c = call[p].want THEN r ELSE row[KeyOf[q]][c]
          BY <4>1, <4>2, PutRow DEF LeaseInv
        <4> QED
          BY <4>2, <4>3
      <3> QED
        BY <3>1, <3>2
    <2>4. call'[q].clock = call[q].clock
      BY <1>1, <2>1
    <2> QED
      BY <2>2, <2>3, <2>4 DEF Leased
  <1>4. Undisturbed'
    BY <1>3, StaysUndisturbed DEF ProbeInv
  <1> QED
    BY <1>2, <1>4, StaysOneProbe DEF ProbeInv

\* A claim finds no lease that runs on: whoever answered for the bucket has held it for
\* longer than a lease, and the claim only lengthens what it finds.
LEMMA ClaimProbes ==
    ASSUME LeaseInv, ProbeInv, Observe, NEW p \in Calls, Claim(p)
    PROVE  ProbeInv'
  <1> DEFINE b == call[p].want
             k == KeyOf[p]
             r == [row[k][b] EXCEPT !.state = "HALF_OPEN", !.left = Lease - call[p].age]
  <1>0. CircuitInv /\ \A q \in Calls : call[q] \in CallRecords /\ CallSane(call[q]) /\ KeyOf[q] \in Keys
    BY KeyIsKey DEF LeaseInv, CallsOK, Key
  <1>1. /\ Alone(p) /\ call'[p].lease = b /\ call'[p].clock = call[p].age /\ call'[p].pc = "reserve"
        /\ b \in Classes /\ call[p].lease = None
    BY <1>0, ClaimLeases DEF LeaseInv, LeasesOK, LeaseSane, CallSane, CallRecords, Claim
  <1>2. CanClaim(k, b, call[p].age) /\ Put(k, b, r)
    BY DEF Claim, ClaimHalfOpen, Key
  <1>3. r.left = Lease - call[p].age /\ r.state = "HALF_OPEN"
    BY <1>0, <1>1 DEF CircuitInv, CircuitTypeOK, Records
  <1> HIDE DEF r
  <1>4. \A j \in Keys, d \in Classes : row'[j][d] = IF j = k /\ d = b THEN r ELSE row[j][d]
    BY <1>0, <1>1, <1>2, PutRow
  <1>5. Lease \in Nat /\ call[p].age \in Nat /\ row[k][b].left \in Int
    BY <1>0, <1>1, CircuitAssumption DEF CallRecords, CircuitInv, CircuitTypeOK, Records
  <1>6. \A q \in Calls \ {p} : call'[q] = call[q] /\ call[q].clock \in Nat
    BY <1>0, <1>1 DEF Alone, CallRecords
  <1>7. row[k][b].left + call[p].age <= 0
    BY <1>2 DEF CanClaim
  <1>8. \A q \in Calls \ {p}, c \in Classes : AnswersFor(q, c)' /\ q \notin overtaken' =>
           AnswersFor(q, c) /\ Leased(q, c)
    <2> SUFFICES ASSUME NEW q \in Calls \ {p}, NEW c \in Classes, AnswersFor(q, c)', q \notin overtaken'
                 PROVE  AnswersFor(q, c) /\ Leased(q, c)
      OBVIOUS
    <2>1. AnswersFor(q, c) /\ call[q].lease # None /\ call'[q].lease # None
      BY <1>6, EngineAssumption DEF AnswersFor
    <2> QED
      BY <2>1, NotOvertaken DEF ProbeInv, Undisturbed
  <1>9. Undisturbed'
    <2> SUFFICES ASSUME NEW q \in Calls, NEW c \in Classes, q \notin overtaken', AnswersFor(q, c)'
                 PROVE  Leased(q, c)'
      BY DEF Undisturbed
    <2>1. CASE q = p
      <3>1. c = b
        BY <1>1, <2>1 DEF AnswersFor
      <3>2. row'[KeyOf[q]][c] = r
        BY <1>0, <1>1, <1>4, <2>1, <3>1
      <3>3. Lease - call[p].age + call[p].age >= Lease
        BY <1>5
      <3> QED
        BY <1>1, <1>3, <2>1, <3>2, <3>3 DEF Leased
    <2>2. CASE q # p /\ KeyOf[q] = k /\ c = b
      <3>1. Leased(q, c) /\ call'[q].clock = call[q].clock /\ call[q].clock \in Nat
        BY <1>6, <1>8, <2>2
      <3>2. row[k][b].left + call[q].clock >= Lease
        BY <2>2, <3>1 DEF Leased
      <3>3. row'[KeyOf[q]][c] = r
        BY <1>0, <1>1, <1>4, <2>2
      <3>4. Lease - call[p].age + call[q].clock >= Lease
        BY <1>5, <1>7, <3>1, <3>2
      <3> QED
        BY <1>3, <3>1, <3>3, <3>4 DEF Leased
    <2>3. CASE q # p /\ ~ (KeyOf[q] = k /\ c = b)
      <3>1. Leased(q, c) /\ call'[q] = call[q]
        BY <1>6, <1>8, <2>3
      <3>2. row'[KeyOf[q]][c] = row[KeyOf[q]][c]
        BY <1>0, <1>4, <2>3
      <3> QED
        BY <3>1, <3>2 DEF Leased
    <2> QED
      BY <2>1, <2>2, <2>3
  <1>10. ASSUME NEW q \in Calls \ {p}, NEW c \in Classes, Probing(q, c)', Probing(p, c)', KeyOf[q] = k
         PROVE  q \in overtaken'
    <2> SUFFICES ASSUME q \notin overtaken'
                 PROVE  FALSE
      OBVIOUS
    <2>1. c = b /\ call[q].lease = c /\ call[q].clock < Lease /\ call[q].pc # "clear"
      BY <1>1, <1>6, <1>10 DEF Probing
    <2>2. AnswersFor(q, c)'
      BY <1>1, <1>6, <2>1, EngineAssumption DEF LeaseInv, LeasesOK, LeaseSane, AnswersFor
    <2>3. row[k][b].left + call[q].clock >= Lease
      BY <1>8, <1>10, <2>1, <2>2 DEF Leased
    <2> QED
      BY <1>5, <1>6, <1>7, <2>1, <2>3
  <1>11. OneProbeUnlessOvertaken'
    <2> SUFFICES ASSUME NEW x \in Calls, NEW q \in Calls, NEW c \in Classes,
                        Probing(x, c)', Probing(q, c)', KeyOf[x] = KeyOf[q], x # q
                 PROVE  x \in overtaken' \/ q \in overtaken'
      BY DEF OneProbeUnlessOvertaken
    <2>1. CASE x = p
      BY <1>10, <2>1
    <2>2. CASE q = p
      BY <1>10, <2>2
    <2>3. CASE x # p /\ q # p
      <3>1. Probing(x, c) /\ Probing(q, c)
        BY <1>6, <2>3 DEF Probing
      <3>2. /\ call[x].lease # None /\ call'[x].lease # None
            /\ call[q].lease # None /\ call'[q].lease # None
        BY <3>1, EngineAssumption DEF Probing
      <3>3. x \in overtaken \/ q \in overtaken
        BY <3>1 DEF ProbeInv, OneProbeUnlessOvertaken
      <3> QED
        BY <3>2, <3>3, NotOvertaken
    <2> QED
      BY <2>1, <2>2, <2>3
  <1> QED
    BY <1>9, <1>11 DEF ProbeInv

\* A verdict rewrites no bucket but its own call's, or overtakes whoever has leased it.
LEMMA VerdictProbes ==
    ASSUME LeaseInv, ProbeInv, Observe, NEW p \in Calls, Verdict(p)
    PROVE  ProbeInv'
  <1>0. /\ CircuitInv /\ CallsOK /\ TookVerdict(p) /\ KeyOf[p] \in Keys /\ call[p] \in CallRecords
        /\ call[p].pc \in {"unlease", "record", "clear"}
    BY VerdictTaken, KeyIsKey DEF LeaseInv, CallsOK, Key, TookVerdict
  <1>1. Alone(p) /\ (call'[p].lease # None => ClearBucket(p))
    BY ReleaseLeases, RecordLeases, ClearLeases DEF Verdict
  <1>2. \A q \in Calls \ {p} : call'[q] = call[q]
    BY <1>1 DEF Alone
  <1>3. \/ call'[p].lease = None
        \/ \E b \in call[p].enc :
              /\ call'[p].pc = "clear" /\ call'[p].lease = call[p].lease /\ call'[p].clock = call[p].clock
              /\ call'[p].enc = call[p].enc \ {b}
              /\ row' = row \/ RecordSuccess(KeyOf[p], b)
    <2> SUFFICES ASSUME call'[p].lease # None
                 PROVE  \E b \in call[p].enc :
                           /\ call'[p].pc = "clear" /\ call'[p].lease = call[p].lease /\ call'[p].clock = call[p].clock
                           /\ call'[p].enc = call[p].enc \ {b}
                           /\ row' = row \/ RecordSuccess(KeyOf[p], b)
      OBVIOUS
    <2>1. PICK b \in call[p].enc : /\ End(p) \/ Set(p, [call[p] EXCEPT !.enc = @ \ {b}])
                                   /\ row' = row \/ RecordSuccess(KeyOf[p], b)
      BY <1>1 DEF ClearBucket, Key
    <2> DEFINE c == [call[p] EXCEPT !.enc = @ \ {b}]
    <2>2. c.pc = call[p].pc /\ c.lease = call[p].lease /\ c.clock = call[p].clock /\ c.enc = call[p].enc \ {b}
      BY <1>0 DEF CallRecords
    <2>3. call[p].pc = "clear"
      BY <1>1 DEF ClearBucket
    <2>4. Set(p, c) \/ Set(p, Idle("over"))
      BY <2>1 DEF End
    <2> HIDE DEF c
    <2>5. call'[p] = c
      BY <1>0, <2>4, SetAlone, IdleSane
    <2> QED
      BY <2>1, <2>2, <2>3, <2>5
  <1>4. \A q \in Calls, c \in Classes : Probing(q, c)' => Probing(q, c)
    BY <1>2, <1>3, EngineAssumption DEF Probing
  <1>5. ASSUME NEW q \in Calls, NEW c \in Classes, q \notin overtaken', AnswersFor(q, c)'
        PROVE  AnswersFor(q, c) /\ (Leased(q, c) => Leased(q, c)')
    <2>1. CASE q # p
      <3>1. call'[q] = call[q] /\ AnswersFor(q, c) /\ call[q].lease = c /\ c # None
        BY <1>2, <1>5, <2>1, EngineAssumption DEF AnswersFor
      <3>2. ~ Overtakes(q)
        BY <1>5, <3>1, NotOvertaken
      <3>3. row'[KeyOf[q]][c] = row[KeyOf[q]][c]
        BY <1>0, <2>1, <3>1, <3>2 DEF Overtakes, LeasedRow
      <3> QED
        BY <3>1, <3>3 DEF Leased
    <2>2. CASE q = p
      <3>1. call'[p].lease = c /\ c \in call'[p].enc /\ c # None
        BY <1>5, <2>2, EngineAssumption DEF AnswersFor
      <3>2. PICK b \in call[p].enc :
               /\ call'[p].lease = call[p].lease /\ call'[p].clock = call[p].clock
               /\ call'[p].enc = call[p].enc \ {b}
               /\ row' = row \/ RecordSuccess(KeyOf[p], b)
        BY <1>3, <3>1
      <3>3. b \in Classes /\ c # b /\ c \in call[p].enc
        BY <1>0, <3>1, <3>2 DEF CallRecords
      <3>4. row'[KeyOf[p]][c] = row[KeyOf[p]][c]
        BY <1>0, <3>2, <3>3, PutRow DEF RecordSuccess
      <3> QED
        BY <2>2, <3>1, <3>2, <3>3, <3>4 DEF Leased, AnswersFor
    <2> QED
      BY <2>1, <2>2
  <1>6. Undisturbed'
    BY <1>5, StaysUndisturbed DEF ProbeInv
  <1> QED
    BY <1>4, <1>6, StaysOneProbe DEF ProbeInv

\* A tick shortens a lease in the row and lengthens how long it was held.
LEMMA TickProbes ==
    ASSUME LeaseInv, ProbeInv, Observe, Tick
    PROVE  ProbeInv'
  <1>1. CircuitInv /\ TickRows /\ \A q \in Calls : call[q].clock \in Nat /\ KeyOf[q] \in Keys
    BY KeyIsKey DEF LeaseInv, CallsOK, CallRecords, Key, Tick
  <1>2. \A q \in Calls :
           /\ call'[q].pc = call[q].pc /\ call'[q].lease = call[q].lease /\ call'[q].enc = call[q].enc
           /\ call'[q].clock = IF call[q].lease # None THEN call[q].clock + 1 ELSE call[q].clock
    BY TickCalls DEF LeaseInv
  <1>3. \A q \in Calls, c \in Classes : Probing(q, c)' => Probing(q, c)
    <2> SUFFICES ASSUME NEW q \in Calls, NEW c \in Classes, Probing(q, c)'
                 PROVE  Probing(q, c)
      OBVIOUS
    <2>1. call'[q].clock < Lease /\ call'[q].clock \in {call[q].clock, call[q].clock + 1}
      BY <1>2 DEF Probing
    <2>2. call[q].clock < Lease
      BY <1>1, <2>1, CircuitAssumption
    <2> QED
      BY <1>2, <2>2 DEF Probing
  <1>4. ASSUME NEW q \in Calls, NEW c \in Classes, AnswersFor(q, c)'
        PROVE  AnswersFor(q, c) /\ (Leased(q, c) => Leased(q, c)')
    <2>1. AnswersFor(q, c) /\ call[q].lease # None
      BY <1>2, <1>4, EngineAssumption DEF AnswersFor
    <2>2. call'[q].clock = call[q].clock + 1
      BY <1>2, <2>1
    <2>3. /\ row'[KeyOf[q]][c].state = row[KeyOf[q]][c].state
          /\ row'[KeyOf[q]][c].left \in {row[KeyOf[q]][c].left - 1, row[KeyOf[q]][c].left}
      BY <1>1, TickRow
    <2>4. row[KeyOf[q]][c].left \in Int
      BY <1>1, CircuitAssumption DEF CircuitInv, CircuitTypeOK, Records
    <2>5. row[KeyOf[q]][c].left + call[q].clock >= Lease
             => row'[KeyOf[q]][c].left + call'[q].clock >= Lease
      BY <1>1, <2>2, <2>3, <2>4, CircuitAssumption
    <2> QED
      BY <2>1, <2>3, <2>5 DEF Leased
  <1>5. Undisturbed'
    BY <1>4, StaysUndisturbed DEF ProbeInv
  <1> QED
    BY <1>3, <1>5, StaysOneProbe DEF ProbeInv

\* The slots of a request are reset, or no row and no call is touched.
LEMMA ResetProbes ==
    ASSUME ProbeInv, Observe, row' = row, \A q \in Calls : call'[q].lease = None \/ call'[q] = call[q]
    PROVE  ProbeInv'
  <1>1. \A q \in Calls, c \in Classes : Probing(q, c)' => Probing(q, c)
    BY EngineAssumption DEF Probing
  <1>2. \A q \in Calls, c \in Classes : AnswersFor(q, c)' =>
           AnswersFor(q, c) /\ (Leased(q, c) => Leased(q, c)')
    BY EngineAssumption DEF AnswersFor, Leased
  <1>3. Undisturbed'
    BY <1>2, StaysUndisturbed DEF ProbeInv
  <1> QED
    BY <1>1, <1>3, StaysOneProbe DEF ProbeInv

LEMMA ProbeInvariant == ProbeSpec => [](LeaseInv /\ ProbeInv)
  <1>1. ProbeInit => ProbeInv
    <2> SUFFICES ASSUME ProbeInit
                 PROVE  ProbeInv
      OBVIOUS
    <2>1. \A q \in Calls : call[q].lease = None
      BY IdleSane DEF ProbeInit, Init
    <2> QED
      BY <2>1, EngineAssumption DEF ProbeInv, Undisturbed, OneProbeUnlessOvertaken, Probing, AnswersFor
  <1>2. LeaseInv /\ ProbeInv /\ [ProbeNext]_pvars => ProbeInv'
    <2> SUFFICES ASSUME LeaseInv, ProbeInv, [ProbeNext]_pvars
                 PROVE  ProbeInv'
      OBVIOUS
    <2>1. CASE UNCHANGED pvars
      BY <2>1 DEF pvars, vars, ProbeInv, Undisturbed, OneProbeUnlessOvertaken, Probing, AnswersFor, Leased
    <2>2. CASE Next /\ Observe
      <3>1. ASSUME NEW p \in Calls, CallStep(p) \/ LastResort(p)
            PROVE  ProbeInv'
        BY <2>2, <3>1, KeepingSteps, KeepingProbes, ClaimProbes, VerdictProbes DEF LeaseInv
      <3>2. ASSUME NEW r \in Requests, BeginRequest(r) \/ Crash(r)
            PROVE  ProbeInv'
        <4>1. PICK pc \in {"ready", "over"} :
                 call' = [p \in Calls |-> IF RequestOf[p] = r THEN Idle(pc) ELSE call[p]]
          BY <3>2 DEF BeginRequest, Crash
        <4>2. \A q \in Calls : call'[q].lease = None \/ call'[q] = call[q]
          BY <4>1, IdleSane
        <4>3. row' = row
          BY <3>2 DEF BeginRequest, Crash
        <4> QED
          BY <2>2, <4>2, <4>3, ResetProbes
      <3>3. ASSUME NEW r \in Requests, Approach(r) \/ Recover(r)
            PROVE  ProbeInv'
        BY <2>2, <3>3, ResetProbes DEF Approach, Recover
      <3>4. CASE Tick
        BY <2>2, <3>4, TickProbes
      <3> QED
        BY <2>2, <3>1, <3>2, <3>3, <3>4 DEF Next
    <2> QED
      BY <2>1, <2>2 DEF ProbeNext
  <1>3. ProbeSpec => Spec
    <2>1. ProbeInit => Init
      BY DEF ProbeInit
    <2>2. [ProbeNext]_pvars => [Next]_vars
      BY DEF ProbeNext, pvars
    <2> QED
      BY <2>1, <2>2, PTL DEF ProbeSpec, Spec
  <1> QED
    BY <1>1, <1>2, <1>3, LeaseInvariant, PTL DEF ProbeSpec

\* A probe lease has one holder, until another call's failure, success or late release has
\* rewritten its bucket, and has one as long as it is held: forced probes, windows shorter
\* than a lease and probes that outlive theirs included.
THEOREM EngineProbesHeld == ProbeSpec => []ProbesHeld
  <1>1. LeaseInv /\ ProbeInv => ProbesHeld
    BY DEF ProbeInv, LeaseInv, Accounted, AnswersFor, ProbesHeld, NoStrandedLease
  <1> QED
    BY <1>1, ProbeInvariant, PTL

\* An authentication or quota block ends only by the success of a call that has leased it,
\* while it is leased, or of one that was overtaken; a call that never claimed a block of
\* that class leaves it alone, whenever it was admitted.
THEOREM EngineSevereBlocks == ProbeSpec => SevereBlockNeedsProbe
  <1>1. LeaseInv /\ ProbeInv /\ [ProbeNext]_pvars => [\A c \in {"AUTH", "QUOTA"} : ClearedByProbe(c)]_pvars
    <2> SUFFICES ASSUME LeaseInv, ProbeInv, [ProbeNext]_pvars, NEW c \in {"AUTH", "QUOTA"}, NEW k \in Keys,
                        Blocks(row[k][c], c), row'[k][c] = Absent
                 PROVE  \E p \in Calls :
                           /\ KeyOf[p] = k /\ call[p].pc = "clear" /\ TookVerdict(p)
                           /\ call[p].lease = c
                           /\ row[k][c].state = "HALF_OPEN" \/ p \in overtaken
      BY DEF ClearedByProbe
    <2>1. c \in Classes /\ Lowered(k, c)
      BY DEF Blocks, Absent, Lowered, Classes
    <2>2. [Next]_vars
      BY DEF ProbeNext, pvars
    <2>3. PICK p \in Calls : KeyOf[p] = k /\ ClearBucket(p) /\ c \in call[p].enc
      BY <2>1, <2>2, OnlySuccessLowers
    <2>4. call[p].pc = "clear" /\ TookVerdict(p)
      BY <2>3, VerdictTaken DEF ClearBucket, Verdict
    <2>5. call[p].lease = c
      BY <2>3 DEF LeaseInv, LeasesOK, LeaseSane
    <2>6. p \notin overtaken => row[k][c].state = "HALF_OPEN"
      BY <2>1, <2>3, <2>5 DEF ProbeInv, Undisturbed, AnswersFor, Leased
    <2> QED
      BY <2>3, <2>4, <2>5, <2>6
  <1> QED
    BY <1>1, ProbeInvariant, PTL DEF ProbeSpec, SevereBlockNeedsProbe

(***************************************************************************)
(* The daily budget                                                        *)
(***************************************************************************)

\* The ledger with its theorems, on the engine's daily budget.
Proved == INSTANCE BudgetLedger_proofs WITH
            Callers <- Calls, Limits <- DailyLimits, MaxLimit <- MaxDaily,
            ledger <- daily, held <- DailyHeld, flying <- DailyFlying

\* A try that settles as not dispatched has not reached its provider.
UnsentIsUnsent ==
    \A p \in Calls : call[p].pc = "settle" /\ call[p].out = "unsent" => ~ call[p].sent

-----------------------------------------------------------------------------
(* Who has reached a provider on a daily unit                               *)

\* The end of a try that claims to be unsent comes before its dispatch.
LEMMA TryUnsent ==
    ASSUME CallsOK, NEW p \in Calls, ~ Batches,
           NotTried(p) \/ Return(p) \/ BatchNotTried(p) \/ FailUnsent(p)
    PROVE  call'[p].out = "unsent" => ~ call'[p].sent
  <1>0. call[p] \in CallRecords /\ CallSane(call[p])
    BY DEF CallsOK
  <1>1. CASE NotTried(p)
    BY <1>0, <1>1, TryAlone DEF NotTried, CallSane
  <1>2. CASE Return(p) \/ FailUnsent(p)
    <2>1. \/ \E out \in {"ok", "raise"} :
                Set(p, [call[p] EXCEPT !.pc = Settling(p), !.out = out])
          \/ \E class \in ErrorClasses :
                Set(p, [call[p] EXCEPT !.pc = Settling(p), !.out = "error", !.err = class])
      BY <1>2 DEF Return, FailUnsent
    <2>2. ASSUME NEW out \in {"ok", "raise"},
                 Set(p, [call[p] EXCEPT !.pc = Settling(p), !.out = out])
          PROVE  call'[p].out # "unsent"
      <3> DEFINE c == [call[p] EXCEPT !.pc = Settling(p), !.out = out]
      <3>1. c.out # "unsent"
        BY <1>0 DEF CallRecords
      <3>2. Set(p, c)
        BY <2>2
      <3> QED
        BY <3>1, <3>2, SetAlone
    <2>3. ASSUME NEW class \in ErrorClasses,
                 Set(p, [call[p] EXCEPT !.pc = Settling(p), !.out = "error", !.err = class])
          PROVE  call'[p].out # "unsent"
      <3> DEFINE c == [call[p] EXCEPT !.pc = Settling(p), !.out = "error", !.err = class]
      <3>1. c.out # "unsent"
        BY <1>0 DEF CallRecords
      <3>2. Set(p, c)
        BY <2>3
      <3> QED
        BY <3>1, <3>2, SetAlone
    <2> QED
      BY <2>1, <2>2, <2>3
  <1>3. CASE BatchNotTried(p)
    BY <1>3 DEF BatchNotTried
  <1> QED
    BY <1>1, <1>2, <1>3

\* Only the end of a try brings a call to its settlement.
LEMMA SettleComesFromTry ==
    ASSUME CallsOK, NEW p \in Calls, CallStep(p) \/ LastResort(p),
           ~ (NotTried(p) \/ Return(p) \/ BatchNotTried(p) \/ FailUnsent(p))
    PROVE  Alone(p) /\ call'[p].pc # "settle"
  <1>0. call[p] \in CallRecords
    BY DEF CallsOK
  <1>1. CASE \/ Admission(p)
             \/ RequestBudgetBlocked(p) \/ Judge(p) \/ Wake(p)
             \/ Verdict(p)
             \/ ExpireWindow(p) \/ LastResort(p)
    BY <1>1, QuietSteps DEF Quiet, Free
  <1>2. CASE ReserveRequest(p)
    BY <1>2, GotoAlone DEF ReserveRequest, AfterReserve
  <1>3. CASE ConfigureDaily(p)
    BY <1>3, GotoAlone DEF ConfigureDaily
  <1>4. CASE ReserveDaily(p)
    <2> DEFINE c == [call[p] EXCEPT !.pc = "call", !.daily = TRUE]
    <2>1. c.pc = "call"
      BY <1>0 DEF CallRecords
    <2>2. Set(p, c)
      BY <1>4 DEF ReserveDaily
    <2> QED
      BY <2>1, <2>2, SetAlone
  <1>5. CASE DailyBudgetBlocked(p)
    BY <1>5, LeaveAlone DEF DailyBudgetBlocked
  <1>6. CASE Dispatch(p)
    <2> DEFINE c == [call[p] EXCEPT !.pc = "sent", !.sent = call[p].daily]
    <2>1. c.pc = "sent"
      BY <1>0 DEF CallRecords
    <2>2. Set(p, c)
      BY <1>6 DEF Dispatch
    <2> QED
      BY <2>1, <2>2, SetAlone
  <1>7. CASE SettleDaily(p)
    <2> DEFINE c == [call[p] EXCEPT !.pc = "judge", !.daily = FALSE, !.sent = FALSE]
    <2>1. c.pc = "judge"
      BY <1>0 DEF CallRecords
    <2>2. Set(p, c)
      BY <1>7 DEF SettleDaily
    <2> QED
      BY <2>1, <2>2, SetAlone
  <1> QED
    BY <1>1, <1>2, <1>3, <1>4, <1>5, <1>6, <1>7 DEF CallStep, Budgeting, Calling

LEMMA UnsentNextOK ==
    ASSUME ~ Batches
    PROVE  CallsOK /\ UnsentIsUnsent /\ [Next]_vars => UnsentIsUnsent'
  <1> SUFFICES ASSUME CallsOK, UnsentIsUnsent, [Next]_vars PROVE UnsentIsUnsent'
    OBVIOUS
  <1>1. ASSUME NEW p \in Calls, CallStep(p) \/ LastResort(p) PROVE UnsentIsUnsent'
    <2>1. CASE NotTried(p) \/ Return(p) \/ BatchNotTried(p) \/ FailUnsent(p)
      BY <2>1, TryAlone, TryUnsent DEF Alone, UnsentIsUnsent
    <2>2. CASE ~ (NotTried(p) \/ Return(p) \/ BatchNotTried(p) \/ FailUnsent(p))
      BY <1>1, <2>2, SettleComesFromTry DEF Alone, UnsentIsUnsent
    <2> QED
      BY <2>1, <2>2
  <1>2. ASSUME NEW r \in Requests, BeginRequest(r) \/ Crash(r) PROVE UnsentIsUnsent'
    BY <1>2 DEF BeginRequest, Crash, UnsentIsUnsent, Idle
  <1>3. ASSUME NEW r \in Requests, Approach(r) \/ Recover(r) PROVE UnsentIsUnsent'
    BY <1>3 DEF Approach, Recover, UnsentIsUnsent
  <1>4. CASE Tick
    <2>1. ASSUME NEW p \in Calls
          PROVE  /\ call'[p].pc = call[p].pc
                 /\ call'[p].out = call[p].out
                 /\ call'[p].sent = call[p].sent
      <3>1. call[p] \in CallRecords
        BY DEF CallsOK
      <3> QED
        BY <1>4, <3>1 DEF Tick, CallRecords
    <2> QED
      BY <2>1 DEF UnsentIsUnsent
  <1>5. CASE UNCHANGED vars
    BY <1>5 DEF vars, UnsentIsUnsent
  <1> QED
    BY <1>1, <1>2, <1>3, <1>4, <1>5 DEF Next

-----------------------------------------------------------------------------
(* Each step of the engine is a step of the ledger, or none                  *)

\* A unit that is flying is held by a call whose step says so.
LEMMA FlyingSame ==
    ASSUME CallsOK, CallsOK', NEW p \in Calls, Alone(p),
           call[p].sent <=> call'[p].sent
    PROVE  DailyFlying' = DailyFlying
  <1>1. \A q \in Calls : call[q].sent <=> call'[q].sent
    BY DEF Alone
  <1>2. \A q \in Calls : /\ call[q].sent => call[q].daily
                         /\ call'[q].sent => call'[q].daily
    BY DEF CallsOK, CallSane
  <1> QED
    BY <1>1, <1>2 DEF DailyFlying

\* The steps that move no daily unit and send nothing.
LEMMA LedgerIdle ==
    ASSUME CallsOK, CallsOK', NEW p \in Calls, CallStep(p) \/ LastResort(p),
           ~ ReserveDaily(p), ~ SettleDaily(p), ~ ConfigureDaily(p), ~ Dispatch(p)
    PROVE  UNCHANGED Ledger!lvars
  <1>1. Alone(p) /\ DailyHeld' = DailyHeld
    BY HeldKept
  <1>2. UNCHANGED <<daily, paid>>
    BY DEF CallStep, Admission, Late, ReuseLease, AdmitRead, AdmitBlind, Claim,
           ClaimLost, Budgeting, ReserveRequest, RequestBudgetBlocked, DailyBudgetBlocked,
           Calling, NotTried, Return, BatchNotTried, FailUnsent, Judge, Wake,
           Verdict, ReleaseLease, RecordVerdict, ClearBucket, ExpireWindow, LastResort
  <1>3. DailyFlying' = DailyFlying
    <2>1. CASE NotTried(p) \/ Return(p) \/ BatchNotTried(p) \/ FailUnsent(p)
      BY <2>1, TryAlone, FlyingSame
    <2>2. CASE ~ (NotTried(p) \/ Return(p) \/ BatchNotTried(p) \/ FailUnsent(p))
      <3>1. call[p].pc \notin {"sent", "settle"} /\ call'[p].pc \notin {"sent", "settle"}
        <4>1. CASE \/ Admission(p)
                   \/ RequestBudgetBlocked(p) \/ Judge(p) \/ Wake(p)
                   \/ Verdict(p)
                   \/ ExpireWindow(p) \/ LastResort(p)
          BY <4>1, QuietSteps DEF Quiet, Free, Holding
        <4>2. CASE ReserveRequest(p)
          BY <4>2, GotoAlone DEF ReserveRequest, AfterReserve
        <4>3. CASE DailyBudgetBlocked(p)
          BY <4>3, LeaveAlone DEF DailyBudgetBlocked
        <4> QED
          BY <2>2, <4>1, <4>2, <4>3 DEF CallStep, Budgeting, Calling
      <3>2. ~ call[p].sent /\ ~ call'[p].sent
        BY <3>1 DEF CallsOK, CallSane
      <3> QED
        BY <1>1, <3>2, FlyingSame
    <2> QED
      BY <2>1, <2>2
  <1> QED
    BY <1>1, <1>2, <1>3 DEF Ledger!lvars

LEMMA ReserveMaps ==
    ASSUME CallsOK, CallsOK', DailyOK, NEW p \in Calls, ReserveDaily(p)
    PROVE  Ledger!Reserve(p)
  <1>1. Alone(p) /\ p \notin DailyHeld /\ DailyHeld' = DailyHeld \cup {p}
    BY ReserveDailyDaily
  <1>2. call[p].pc = "daily" /\ call'[p].pc = "call"
    <2> DEFINE c == [call[p] EXCEPT !.pc = "call", !.daily = TRUE]
    <2>1. c.pc = "call"
      BY DEF CallsOK, CallRecords
    <2>2. Set(p, c) /\ call[p].pc = "daily"
      BY DEF ReserveDaily
    <2> QED
      BY <2>1, <2>2, SetAlone
  <1>3. ~ call[p].sent /\ ~ call'[p].sent
    BY <1>2 DEF CallsOK, CallSane
  <1>4. DailyFlying' = DailyFlying
    BY <1>1, <1>3, FlyingSame
  <1> QED
    BY <1>1, <1>4 DEF ReserveDaily, Ledger!Reserve

LEMMA ConfigureMaps ==
    ASSUME CallsOK, CallsOK', NEW p \in Calls, ConfigureDaily(p)
    PROVE  UNCHANGED Ledger!lvars \/ \E limit \in DailyLimits : Ledger!Configure(limit)
  <1>1. Alone(p) /\ call[p].pc = "configure" /\ call'[p].pc = "daily"
    BY GotoAlone DEF ConfigureDaily
  <1>2. ~ call[p].sent /\ ~ call'[p].sent
    BY <1>1 DEF CallsOK, CallSane
  <1>3. DailyHeld' = DailyHeld /\ DailyFlying' = DailyFlying
    BY <1>1, <1>2, HeldSame, FlyingSame DEF HoldsDaily
  <1> QED
    BY <1>3 DEF ConfigureDaily, Ledger!Configure, Ledger!lvars

\* A dispatch costs a daily unit exactly when there is a daily limit.
LEMMA DispatchMaps ==
    ASSUME CallsOK, CallsOK', NEW p \in Calls, Dispatch(p)
    PROVE  UNCHANGED Ledger!lvars \/ Ledger!Dispatch(p)
  <1>0. call[p] \in CallRecords /\ CallSane(call[p]) /\ call[p].pc = "call"
    BY DEF CallsOK, Dispatch
  <1>1. Alone(p) /\ call'[p].pc = "sent" /\ call'[p].sent = call[p].daily
    <2> DEFINE c == [call[p] EXCEPT !.pc = "sent", !.sent = call[p].daily]
    <2>1. c.pc = "sent" /\ c.sent = call[p].daily
      BY <1>0 DEF CallRecords
    <2>2. Set(p, c)
      BY DEF Dispatch
    <2> HIDE DEF c
    <2> QED
      BY <2>1, <2>2, SetAlone
  <1>2. ~ call[p].sent /\ (call[p].daily <=> DailyLimits # {})
    BY <1>0 DEF CallSane
  <1>3. DailyHeld' = DailyHeld
    BY <1>0, <1>1, HeldSame DEF HoldsDaily
  <1>4. CASE DailyLimits = {}
    <2>1. DailyFlying' = DailyFlying
      BY <1>1, <1>2, <1>4, FlyingSame
    <2> QED
      BY <1>3, <1>4, <2>1 DEF Dispatch, Ledger!lvars
  <1>5. CASE DailyLimits # {}
    <2>1. p \in DailyHeld /\ p \notin DailyFlying
      BY <1>2, <1>5 DEF DailyHeld, DailyFlying
    <2>2. call'[p].daily /\ call'[p].sent
      BY <1>1, <1>2, <1>5 DEF CallsOK, CallSane
    <2>3. DailyFlying' = DailyFlying \cup {p}
      BY <1>1, <2>2 DEF DailyFlying, Alone
    <2> QED
      BY <1>3, <1>5, <2>1, <2>3 DEF Dispatch, Ledger!Dispatch
  <1> QED
    BY <1>4, <1>5

\* A settlement charges the unit, gives an unsent one back, or does not arrive.
LEMMA SettleMaps ==
    ASSUME CallsOK, CallsOK', DailyOK, UnsentIsUnsent, NEW p \in Calls, SettleDaily(p)
    PROVE  Ledger!Commit(p) \/ Ledger!Release(p) \/ Ledger!Lose({p})
  <1>1. Alone(p) /\ p \in DailyHeld /\ DailyHeld' = DailyHeld \ {p}
    BY SettleDailyDaily
  <1>2. p \notin DailyHeld'
    BY <1>1
  <1>3. DailyFlying' = DailyFlying \ {p}
    BY <1>1, <1>2 DEF DailyFlying, DailyHeld, Alone
  <1>4. UNCHANGED paid
    BY DEF SettleDaily
  <1>5. CASE UNCHANGED daily
    BY <1>1, <1>3, <1>4, <1>5 DEF Ledger!Lose
  <1>6. CASE daily' = Settled(p) /\ call[p].out # "unsent"
    BY <1>1, <1>3, <1>4, <1>6 DEF Settled, Ledger!Commit
  <1>7. CASE daily' = Settled(p) /\ call[p].out = "unsent"
    <2>1. p \notin DailyFlying
      BY <1>7 DEF SettleDaily, UnsentIsUnsent, DailyFlying
    <2>2. DailyFlying' = DailyFlying
      BY <1>3, <2>1
    <2> QED
      BY <1>1, <1>4, <1>7, <2>1, <2>2 DEF Settled, Ledger!Release
  <1> QED
    BY <1>5, <1>6, <1>7 DEF SettleDaily

\* A process that dies takes its holders with it; a request that begins has none.
LEMMA ResetMaps ==
    ASSUME CallsOK, NEW r \in Requests, BeginRequest(r) \/ Crash(r)
    PROVE  Ledger!Lose(CallsOf(r))
  <1>1. PICK pc \in {"ready", "over"} :
            call' = [p \in Calls |-> IF RequestOf[p] = r THEN Idle(pc) ELSE call[p]]
    BY DEF BeginRequest, Crash
  <1>2. \A p \in Calls :
            /\ RequestOf[p] = r => ~ call'[p].daily /\ ~ call'[p].sent
            /\ RequestOf[p] # r => call'[p] = call[p]
    BY <1>1 DEF Idle
  <1>3. /\ DailyHeld' = DailyHeld \ CallsOf(r)
        /\ DailyFlying' = DailyFlying \ CallsOf(r)
    BY <1>2 DEF DailyHeld, DailyFlying, CallsOf
  <1> QED
    BY <1>3 DEF BeginRequest, Crash, Ledger!Lose

LEMMA NextLedger ==
    CallsOK /\ DailyOK /\ UnsentIsUnsent /\ [Next]_vars => [Ledger!LedgerNext]_(Ledger!lvars)
  <1> SUFFICES ASSUME CallsOK, DailyOK, UnsentIsUnsent, [Next]_vars
               PROVE  Ledger!LedgerNext \/ UNCHANGED Ledger!lvars
    OBVIOUS
  <1>0. CallsOK'
    BY CallsNextOK
  <1>1. ASSUME NEW p \in Calls, CallStep(p) \/ LastResort(p)
        PROVE  Ledger!LedgerNext \/ UNCHANGED Ledger!lvars
    <2>1. CASE ReserveDaily(p)
      BY <1>0, <2>1, ReserveMaps DEF Ledger!LedgerNext
    <2>2. CASE ConfigureDaily(p)
      BY <1>0, <2>2, ConfigureMaps DEF Ledger!LedgerNext
    <2>3. CASE Dispatch(p)
      BY <1>0, <2>3, DispatchMaps DEF Ledger!LedgerNext
    <2>4. CASE SettleDaily(p)
      <3>1. {p} \in SUBSET Calls
        OBVIOUS
      <3> QED
        BY <1>0, <2>4, <3>1, SettleMaps DEF Ledger!LedgerNext
    <2> QED
      BY <1>0, <1>1, <2>1, <2>2, <2>3, <2>4, LedgerIdle
  <1>2. ASSUME NEW r \in Requests, BeginRequest(r) \/ Crash(r)
        PROVE  Ledger!LedgerNext
    <2>1. CallsOf(r) \in SUBSET Calls
      BY DEF CallsOf
    <2> QED
      BY <1>2, <2>1, ResetMaps DEF Ledger!LedgerNext
  <1>3. ASSUME NEW r \in Requests, Approach(r) \/ Recover(r)
        PROVE  UNCHANGED Ledger!lvars
    BY <1>3 DEF Approach, Recover, Ledger!lvars, DailyHeld, DailyFlying
  <1>4. CASE Tick
    <2>1. \A p \in Calls : call'[p].daily = call[p].daily /\ call'[p].sent = call[p].sent
      BY <1>4 DEF Tick, CallsOK, CallRecords
    <2>2. DailyHeld' = DailyHeld /\ DailyFlying' = DailyFlying
      BY ONLY <2>1 DEF DailyHeld, DailyFlying
    <2> QED
      BY <1>4, <2>2 DEF Tick, Ledger!lvars
  <1>5. CASE UNCHANGED vars
    BY <1>5 DEF vars, Ledger!lvars, DailyHeld, DailyFlying
  <1> QED
    BY <1>1, <1>2, <1>3, <1>4, <1>5 DEF Next

LEMMA InitLedger == Init => Ledger!LedgerInit
  BY DEF Init, Ledger!LedgerInit, DailyHeld, DailyFlying, Idle

-----------------------------------------------------------------------------
(* What a request pays for                                                  *)

\* The calls of r whose provider has been asked and has not yet been charged for.
SentOf(r) == {p \in CallsOf(r) : call[p].pc = "sent"}

\* The inductive form of PaidWithinRequestBudget: an attempt that was sent is either
\* charged or at the one step from which only a charge leads on.
SentIsCharged ==
    \A r \in Requests : spent[r] <= request[r].budget.used + Cardinality(SentOf(r))

LEMMA SentFinite ==
    \A r : IsFiniteSet(SentOf(r)) /\ Cardinality(SentOf(r)) \in Nat
  <1> SUFFICES ASSUME NEW r PROVE IsFiniteSet(SentOf(r)) /\ Cardinality(SentOf(r)) \in Nat
    OBVIOUS
  <1>1. SentOf(r) \in SUBSET Calls
    BY DEF SentOf, CallsOf
  <1> QED
    BY <1>1, EngineAssumption, FS_Subset, FS_CardinalityType

\* A budget field of every request after p has written its own.
LEMMA UsedAfter ==
    ASSUME RequestOK, NEW p \in Calls, NEW b,
           \/ Budget(p, b)
           \/ request' = [request EXCEPT ![RequestOf[p]].available = FALSE,
                                         ![RequestOf[p]].budget = b]
    PROVE  \A r \in Requests :
                request'[r].budget = IF r = RequestOf[p] THEN b ELSE request[r].budget
  BY DEF RequestOK, RequestRecords, Budget

\* A settled budget counts at least what it counted.
LEMMA UsedKept ==
    ASSUME RequestOK, NEW p \in Calls,
           NEW b \in {Ledger!Committed(Req(p).budget), Ledger!Released(Req(p).budget)},
           \/ Budget(p, b)
           \/ request' = [request EXCEPT ![RequestOf[p]].available = FALSE,
                                         ![RequestOf[p]].budget = b]
    PROVE  \A r \in Requests : request'[r].budget.used >= request[r].budget.used
  <1>1. RequestOf[p] \in Requests /\ request[RequestOf[p]] \in RequestRecords
    BY EngineAssumption DEF RequestOK
  <1>2. \A r \in Requests : request[r].budget.used \in Nat
    BY BudgetFields
  <1>3. b.used >= Req(p).budget.used
    <2>1. b.used \in {Req(p).budget.used, Req(p).budget.used + 1}
      BY <1>1 DEF Ledger!Committed, Ledger!Released, RequestRecords, Req
    <2>2. Req(p).budget.used \in Nat
      BY <1>1, <1>2 DEF Req
    <2> QED
      BY <2>1, <2>2
  <1>4. \A r \in Requests :
            request'[r].budget = IF r = RequestOf[p] THEN b ELSE request[r].budget
    BY UsedAfter
  <1> SUFFICES ASSUME NEW r \in Requests
               PROVE  request'[r].budget.used >= request[r].budget.used
    OBVIOUS
  <1>5. CASE r = RequestOf[p]
    BY <1>3, <1>4, <1>5 DEF Req
  <1>6. CASE r # RequestOf[p]
    <2>1. request'[r].budget.used = request[r].budget.used
      BY <1>4, <1>6
    <2> QED
      BY <1>2, <2>1
  <1> QED
    BY <1>5, <1>6

\* A step that neither sends nor answers a provider request.
LEMMA ChargedSame ==
    ASSUME RequestOK, HistoryOK, SentIsCharged, NEW p \in Calls, Alone(p),
           call[p].pc # "sent", call'[p].pc # "sent", UNCHANGED spent,
           \A r \in Requests : request'[r].budget.used \in Nat,
           \A r \in Requests : request'[r].budget.used >= request[r].budget.used
    PROVE  SentIsCharged'
  <1>1. \A r \in Requests : SentOf(r)' = SentOf(r)
    <2> SUFFICES ASSUME NEW r \in Requests PROVE SentOf(r)' = SentOf(r)
      OBVIOUS
    <2>1. \A q \in Calls : call'[q].pc = "sent" <=> call[q].pc = "sent"
      BY DEF Alone
    <2> QED
      BY <2>1 DEF SentOf, CallsOf
  <1> SUFFICES ASSUME NEW r \in Requests
               PROVE  spent'[r] <= request'[r].budget.used + Cardinality(SentOf(r)')
    BY DEF SentIsCharged
  <1>2. request[r].budget.used \in Nat /\ Cardinality(SentOf(r)) \in Nat
    BY BudgetFields, SentFinite
  <1>3. spent[r] <= request[r].budget.used + Cardinality(SentOf(r))
    BY DEF SentIsCharged
  <1>4. spent[r] \in Nat /\ spent'[r] = spent[r]
    BY DEF HistoryOK
  <1>5. /\ request'[r].budget.used \in Nat
        /\ request'[r].budget.used >= request[r].budget.used
    OBVIOUS
  <1> QED
    BY <1>1, <1>2, <1>3, <1>4, <1>5

LEMMA SentCharged ==
    ASSUME CallsOK, RequestOK, HistoryOK, SentIsCharged, NEW p \in Calls, Dispatch(p)
    PROVE  SentIsCharged'
  <1> DEFINE s == RequestOf[p]
  <1>1. Alone(p) /\ call[p].pc = "call" /\ call'[p].pc = "sent"
    <2> DEFINE c == [call[p] EXCEPT !.pc = "sent", !.sent = call[p].daily]
    <2>1. c.pc = "sent"
      BY DEF CallsOK, CallRecords
    <2>2. Set(p, c) /\ call[p].pc = "call"
      BY DEF Dispatch
    <2> QED
      BY <2>1, <2>2, SetAlone
  <1> SUFFICES ASSUME NEW r \in Requests
               PROVE  spent'[r] <= request'[r].budget.used + Cardinality(SentOf(r)')
    BY DEF SentIsCharged
  <1>2. /\ request[r].budget.used \in Nat /\ request'[r].budget.used = request[r].budget.used
        /\ Cardinality(SentOf(r)) \in Nat /\ spent[r] \in Nat
        /\ spent[r] <= request[r].budget.used + Cardinality(SentOf(r))
    BY BudgetFields, SentFinite DEF HistoryOK, SentIsCharged, Dispatch
  <1>3. CASE r = s
    <2>1. p \notin SentOf(r) /\ SentOf(r)' = SentOf(r) \cup {p}
      BY <1>1, <1>3 DEF SentOf, CallsOf, Alone
    <2>2. Cardinality(SentOf(r)') = Cardinality(SentOf(r)) + 1
      BY <2>1, SentFinite, FS_AddElement
    <2>3. spent'[r] = spent[r] + 1
      BY <1>3 DEF Dispatch, HistoryOK
    <2> QED
      BY <1>2, <2>2, <2>3
  <1>4. CASE r # s
    <2>1. SentOf(r)' = SentOf(r)
      BY <1>1, <1>4 DEF SentOf, CallsOf, Alone
    <2>2. spent'[r] = spent[r]
      BY <1>4 DEF Dispatch, HistoryOK
    <2> QED
      BY <1>2, <2>1, <2>2
  <1> QED
    BY <1>3, <1>4

LEMMA AnswerCharged ==
    ASSUME CallsOK, RequestOK, HistoryOK, SentIsCharged, NEW p \in Calls, Return(p)
    PROVE  SentIsCharged'
  <1> DEFINE s == RequestOf[p]
             b == Ledger!Committed(request[s].budget)
  <1>1. Alone(p) /\ call[p].pc = "sent" /\ call'[p].pc # "sent"
    BY TryAlone DEF Return, Settling
  <1> SUFFICES ASSUME NEW r \in Requests
               PROVE  spent'[r] <= request'[r].budget.used + Cardinality(SentOf(r)')
    BY DEF SentIsCharged
  <1>2. /\ request[r].budget.used \in Nat /\ Cardinality(SentOf(r)) \in Nat
        /\ spent[r] \in Nat /\ spent'[r] = spent[r]
        /\ spent[r] <= request[r].budget.used + Cardinality(SentOf(r))
    BY BudgetFields, SentFinite DEF HistoryOK, SentIsCharged, Return
  <1>3. request'[r].budget = IF r = s THEN b ELSE request[r].budget
    <2>1. Budget(p, b)
      BY DEF Return, Req
    <2> HIDE DEF b
    <2> QED
      BY ONLY <2>1, RequestOK, p \in Calls, r \in Requests, UsedAfter
  <1>4. CASE r = s
    <2>1. p \in SentOf(r) /\ SentOf(r)' = SentOf(r) \ {p}
      BY <1>1, <1>4 DEF SentOf, CallsOf, Alone
    <2>2. Cardinality(SentOf(r)') = Cardinality(SentOf(r)) - 1
      BY <2>1, SentFinite, FS_RemoveElement
    <2>3. b.used = request[r].budget.used + 1
      BY <1>4 DEF Ledger!Committed, RequestOK, RequestRecords
    <2> QED
      BY <1>2, <1>3, <1>4, <2>2, <2>3
  <1>5. CASE r # s
    <2>1. SentOf(r)' = SentOf(r)
      BY <1>1, <1>5 DEF SentOf, CallsOf, Alone
    <2> QED
      BY <1>2, <1>3, <1>5, <2>1
  <1> QED
    BY <1>4, <1>5

LEMMA OtherStepsUnsent ==
    ASSUME CallsOK, ~ Batches, NEW p \in Calls, CallStep(p) \/ LastResort(p),
           ~ Dispatch(p), ~ Return(p)
    PROVE  Alone(p) /\ call[p].pc # "sent" /\ call'[p].pc # "sent"
  <1>0. call[p] \in CallRecords
    BY DEF CallsOK
  <1>1. CASE \/ Admission(p)
             \/ RequestBudgetBlocked(p) \/ Judge(p) \/ Wake(p)
             \/ Verdict(p)
             \/ ExpireWindow(p) \/ LastResort(p)
    BY <1>1, QuietSteps DEF Quiet, Free, Holding
  <1>2. CASE ReserveRequest(p)
    BY <1>2, GotoAlone DEF ReserveRequest, AfterReserve
  <1>3. CASE ConfigureDaily(p)
    BY <1>3, GotoAlone DEF ConfigureDaily
  <1>4. CASE ReserveDaily(p)
    <2> DEFINE c == [call[p] EXCEPT !.pc = "call", !.daily = TRUE]
    <2>1. c.pc = "call"
      BY <1>0 DEF CallRecords
    <2>2. Set(p, c) /\ call[p].pc = "daily"
      BY <1>4 DEF ReserveDaily
    <2> HIDE DEF c
    <2> QED
      BY <2>1, <2>2, SetAlone
  <1>5. CASE DailyBudgetBlocked(p)
    BY <1>5, LeaveAlone DEF DailyBudgetBlocked
  <1>6. CASE NotTried(p) \/ FailUnsent(p) \/ BatchNotTried(p)
    BY <1>6, TryAlone DEF NotTried, FailUnsent, BatchNotTried, Settling
  <1>7. CASE SettleDaily(p)
    <2> DEFINE c == [call[p] EXCEPT !.pc = "judge", !.daily = FALSE, !.sent = FALSE]
    <2>1. c.pc = "judge"
      BY <1>0 DEF CallRecords
    <2>2. Set(p, c) /\ call[p].pc = "settle"
      BY <1>7 DEF SettleDaily
    <2> HIDE DEF c
    <2> QED
      BY <2>1, <2>2, SetAlone
  <1> QED
    BY <1>1, <1>2, <1>3, <1>4, <1>5, <1>6, <1>7 DEF CallStep, Budgeting, Calling

LEMMA OtherStepsKeepUsed ==
    ASSUME CallsOK, RequestOK, ~ Batches, NEW p \in Calls, CallStep(p) \/ LastResort(p),
           ~ Dispatch(p), ~ Return(p)
    PROVE  \A r \in Requests : request'[r].budget.used >= request[r].budget.used
  <1>0. \A r \in Requests : request[r].budget.used \in Nat
    BY BudgetFields
  <1>1. CASE \/ UNCHANGED request
             \/ MarkDown(p)
             \/ request' = [request EXCEPT ![RequestOf[p]].probed = TRUE]
    BY <1>0, <1>1, FlagSame
  <1>2. CASE ReserveRequest(p)
    <2> DEFINE b == Ledger!Reserved(Req(p).budget)
    <2>1. b.used = Req(p).budget.used
      <3>1. RequestOf[p] \in Requests /\ request[RequestOf[p]] \in RequestRecords
        BY EngineAssumption DEF RequestOK
      <3> QED
        BY <3>1 DEF Ledger!Reserved, RequestRecords, Req
    <2>2. \A r \in Requests :
              request'[r].budget = IF r = RequestOf[p] THEN b ELSE request[r].budget
      BY <1>2, UsedAfter DEF ReserveRequest
    <2> HIDE DEF b
    <2>3. \A r \in Requests : request'[r].budget.used = request[r].budget.used
      BY <2>1, <2>2 DEF Req
    <2> QED
      BY <1>0, <2>3
  <1>3. CASE NotTried(p) \/ FailUnsent(p) \/ BatchNotTried(p)
    BY <1>3, UsedKept DEF NotTried, FailUnsent, BatchNotTried
  <1>4. CASE DailyBudgetBlocked(p)
    <2>1. \/ Budget(p, Ledger!Released(Req(p).budget))
          \/ request' = [request EXCEPT ![RequestOf[p]].available = FALSE,
                                        ![RequestOf[p]].budget = Ledger!Released(Req(p).budget)]
      <3>1. RequestOf[p] \in Requests /\ request[RequestOf[p]] \in RequestRecords
        BY EngineAssumption DEF RequestOK
      <3> QED
        BY <1>4, <3>1 DEF DailyBudgetBlocked, Req, RequestOK, RequestRecords
    <2> QED
      BY <2>1, UsedKept
  <1> QED
    BY <1>1, <1>2, <1>3, <1>4
       DEF CallStep, Admission, Late, ReuseLease, AdmitRead, AdmitBlind, Claim, ClaimLost,
           Budgeting, RequestBudgetBlocked, ConfigureDaily, ReserveDaily, Calling,
           SettleDaily, Judge, Wake, Verdict, ReleaseLease, RecordVerdict, ClearBucket,
           ExpireWindow, LastResort

LEMMA ChargedNextOK ==
    ASSUME ~ Batches
    PROVE  CallsOK /\ RequestOK /\ HistoryOK /\ SentIsCharged /\ [Next]_vars => SentIsCharged'
  <1> SUFFICES ASSUME CallsOK, RequestOK, HistoryOK, SentIsCharged, [Next]_vars
               PROVE  SentIsCharged'
    OBVIOUS
  <1>0. /\ \A r \in Requests : request'[r].budget.used \in Nat
        /\ \A r \in Requests : request[r].budget.used \in Nat
    <2>1. RequestOK'
      BY RequestNextOK
    <2>2. \A r \in Requests : request'[r] \in RequestRecords /\ request[r] \in RequestRecords
      BY <2>1 DEF RequestOK
    <2> QED
      BY <2>2, EngineAssumption DEF RequestRecords
  <1>1. ASSUME NEW p \in Calls, CallStep(p) \/ LastResort(p) PROVE SentIsCharged'
    <2>1. CASE Dispatch(p)
      BY <2>1, SentCharged
    <2>2. CASE Return(p)
      BY <2>2, AnswerCharged
    <2>3. CASE ~ Dispatch(p) /\ ~ Return(p)
      <3>1. Alone(p) /\ call[p].pc # "sent" /\ call'[p].pc # "sent"
        BY <1>1, <2>3, OtherStepsUnsent
      <3>2. UNCHANGED spent
        BY <1>1, <2>3
           DEF CallStep, Admission, Late, ReuseLease, AdmitRead, AdmitBlind, Claim,
               ClaimLost, Budgeting, ReserveRequest, RequestBudgetBlocked, ConfigureDaily,
               ReserveDaily, DailyBudgetBlocked, Calling, NotTried, BatchNotTried,
               FailUnsent, SettleDaily, Judge, Wake, Verdict, ReleaseLease, RecordVerdict,
               ClearBucket, ExpireWindow, LastResort
      <3>3. \A r \in Requests : request'[r].budget.used >= request[r].budget.used
        BY <1>0, <1>1, <2>3, OtherStepsKeepUsed
      <3> QED
        BY <1>0, <3>1, <3>2, <3>3, ChargedSame
    <2> QED
      BY <2>1, <2>2, <2>3
  <1>2. ASSUME NEW s \in Requests, BeginRequest(s) \/ Crash(s) PROVE SentIsCharged'
    <2>1. PICK pc \in {"ready", "over"} :
              call' = [p \in Calls |-> IF RequestOf[p] = s THEN Idle(pc) ELSE call[p]]
      BY <1>2 DEF BeginRequest, Crash
    <2> SUFFICES ASSUME NEW r \in Requests
                 PROVE  spent'[r] <= request'[r].budget.used + Cardinality(SentOf(r)')
      BY DEF SentIsCharged
    <2>2. CASE r = s
      <3>1. spent'[r] = 0
        BY <1>2, <2>2 DEF BeginRequest, Crash, HistoryOK
      <3>2. Cardinality(SentOf(r)') \in Nat
        <4>1. SentOf(r)' = {}
          BY <2>1, <2>2 DEF SentOf, CallsOf, Idle
        <4> QED
          BY <4>1, FS_EmptySet
      <3> QED
        BY <1>0, <3>1, <3>2
    <2>3. CASE r # s
      <3>1. spent'[r] = spent[r] /\ request'[r] = request[r]
        BY <1>2, <2>3 DEF BeginRequest, Crash, HistoryOK, RequestOK
      <3>2. SentOf(r)' = SentOf(r)
        BY <2>1, <2>3 DEF SentOf, CallsOf
      <3> QED
        BY <3>1, <3>2 DEF SentIsCharged
    <2> QED
      BY <2>2, <2>3
  <1>3. ASSUME UNCHANGED spent, \A r \in Requests : request'[r].budget = request[r].budget,
               \A p \in Calls : call'[p].pc = call[p].pc
        PROVE  SentIsCharged'
    <2>1. \A r \in Requests : SentOf(r)' = SentOf(r)
      BY <1>3 DEF SentOf, CallsOf
    <2> QED
      BY <1>3, <2>1 DEF SentIsCharged
  <1>4. ASSUME NEW r \in Requests, Approach(r) \/ Recover(r) PROVE SentIsCharged'
    <2>1. \A s \in Requests : request'[s].budget = request[s].budget
      BY <1>4 DEF Approach, Recover, RequestOK, RequestRecords
    <2> QED
      BY <1>3, <1>4, <2>1 DEF Approach, Recover
  <1>5. CASE Tick
    <2>1. \A p \in Calls : call'[p].pc = call[p].pc
      BY <1>5 DEF Tick, CallsOK, CallRecords
    <2> QED
      BY <1>3, <1>5, <2>1 DEF Tick
  <1>6. CASE UNCHANGED vars
    BY <1>3, <1>6 DEF vars
  <1> QED
    BY <1>1, <1>2, <1>4, <1>5, <1>6 DEF Next

-----------------------------------------------------------------------------
(* The theorems                                                             *)

\* The engine implements the ledger protocol: every step of execute(), a retry, an
\* early return, a crash or a store fault included, is on the daily row a step of
\* reserve-then-reconcile or none.
THEOREM EngineFollowsLedger ==
    ASSUME ~ Batches
    PROVE  Spec => FollowsLedger
  <1>1. Init => UnsentIsUnsent
    BY DEF Init, UnsentIsUnsent, Idle
  <1>2. EngineInv /\ UnsentIsUnsent /\ [Next]_vars => UnsentIsUnsent'
    BY UnsentNextOK DEF EngineInv
  <1>3. EngineInv /\ UnsentIsUnsent /\ [Next]_vars => [Ledger!LedgerNext]_(Ledger!lvars)
    BY NextLedger DEF EngineInv
  <1> QED
    BY <1>1, <1>2, <1>3, InitLedger, EngineInvariant, PTL
       DEF Spec, FollowsLedger, Ledger!LedgerSpec

\* The ledger's assumption holds of the engine's constants.
LEMMA DailyConstants == Proved!LedgerAssumption
  <1>1. DailyLimits \subseteq 0 .. MaxDaily /\ MaxDaily \in Nat /\ IsFiniteSet(Calls)
    BY EngineAssumption
  <1> QED
    BY <1>1 DEF Proved!LedgerAssumption, Proved!IsFiniteSet, IsFiniteSet

LEMMA SameCount == \A S : Proved!Cardinality(S) = Ledger!Cardinality(S)
  BY DEF Proved!Cardinality, Ledger!Cardinality, Proved!IsFiniteSet, Ledger!IsFiniteSet

\* Across requests, crashes and store errors no daily unit is handed out twice, and
\* every attempt that reached its provider is charged or stays reserved.
THEOREM EngineDailyBudgetSafe ==
    ASSUME ~ Batches
    PROVE  Spec => []DailyBudgetSafe
  <1>1. Ledger!LedgerInit => Proved!LedgerInit
    BY DEF Ledger!LedgerInit, Proved!LedgerInit, Ledger!NoBudget, Proved!NoBudget
  <1>2. [Ledger!LedgerNext]_(Ledger!lvars) => [Proved!LedgerNext]_(Proved!lvars)
    BY DEF Ledger!LedgerNext, Proved!LedgerNext, Ledger!lvars, Proved!lvars,
           Ledger!Configure, Proved!Configure, Ledger!Configured, Proved!Configured,
           Ledger!Reserve, Proved!Reserve, Ledger!CanReserve, Proved!CanReserve,
           Ledger!Reserved, Proved!Reserved, Ledger!Dispatch, Proved!Dispatch,
           Ledger!Commit, Proved!Commit, Ledger!Committed, Proved!Committed,
           Ledger!Release, Proved!Release, Ledger!Released, Proved!Released,
           Ledger!Lose, Proved!Lose
  <1>3. Proved!LedgerInv => DailyBudgetSafe
    BY SameCount
       DEF Proved!LedgerInv, Proved!HoldersAreReserved, Proved!WithinLimit,
           Proved!PaidIsAccounted, DailyBudgetSafe, Ledger!HoldersAreReserved,
           Ledger!WithinLimit, Ledger!PaidIsAccounted
  <1>4. Proved!LedgerSpec => []Proved!LedgerInv
    BY DailyConstants, Proved!LedgerInvariant
  <1> QED
    BY <1>1, <1>2, <1>3, <1>4, EngineFollowsLedger, PTL
       DEF FollowsLedger, Ledger!LedgerSpec, Proved!LedgerSpec

\* Every attempt whose provider was asked is charged to max_provider_attempts, or
\* holds the unit it will be charged with: no retry, hedge or early exit refunds it.
THEOREM EnginePaidWithinBudget ==
    ASSUME ~ Batches
    PROVE  Spec => []PaidWithinRequestBudget
  <1>1. Init => SentIsCharged
    <2> SUFFICES ASSUME Init, NEW r \in Requests
                 PROVE  spent[r] <= request[r].budget.used + Cardinality(SentOf(r))
      BY DEF SentIsCharged
    <2>1. SentOf(r) = {}
      BY DEF Init, SentOf, CallsOf, Idle
    <2>2. spent[r] = 0 /\ request[r].budget.used = 0
      BY DEF Init, NewRequest
    <2> QED
      BY <2>1, <2>2, FS_EmptySet
  <1>2. EngineInv /\ SentIsCharged /\ [Next]_vars => SentIsCharged'
    BY ChargedNextOK DEF EngineInv
  <1>3. EngineInv /\ SentIsCharged => PaidWithinRequestBudget
    <2> SUFFICES ASSUME EngineInv, SentIsCharged, NEW r \in Requests
                 PROVE  spent[r] <= request[r].budget.used + request[r].budget.reserved
      BY DEF PaidWithinRequestBudget
    <2>1. Cardinality(SentOf(r)) <= Cardinality(Reserving(r))
      <3>1. SentOf(r) \in SUBSET Reserving(r)
        BY DEF SentOf, Reserving, Holding
      <3> QED
        BY <3>1, ReservingFinite, FS_Subset
    <2>2. /\ request[r].budget.reserved = Cardinality(Reserving(r))
          /\ request[r].budget.used \in Nat /\ request[r].budget.reserved \in Nat
      BY BudgetFields DEF EngineInv
    <2>3. spent[r] \in Nat /\ spent[r] <= request[r].budget.used + Cardinality(SentOf(r))
      BY DEF EngineInv, HistoryOK, SentIsCharged
    <2> QED
      BY <2>1, <2>2, <2>3, SentFinite
  <1> QED
    BY <1>1, <1>2, <1>3, EngineInvariant, PTL DEF Spec

-----------------------------------------------------------------------------
(* Where a daily unit can be lost                                           *)

\* A step that changes neither the counter nor its holders loses no unit.
LEMMA LostSame ==
    ASSUME daily'.reserved = daily.reserved, DailyHeld' = DailyHeld
    PROVE  LostUnits' = LostUnits
  BY DEF LostUnits

LEMMA ReserveLosesNone ==
    ASSUME CallsOK, CallsOK', DailyOK, NEW p \in Calls, ReserveDaily(p)
    PROVE  LostUnits' = LostUnits
  <1>1. p \notin DailyHeld /\ DailyHeld' = DailyHeld \cup {p}
    BY ReserveDailyDaily
  <1>2. Cardinality(DailyHeld') = Cardinality(DailyHeld) + 1
    BY <1>1, HeldFinite, FS_AddElement
  <1>3. daily'.reserved = daily.reserved + 1
    BY DEF ReserveDaily, Ledger!Reserved, DailyOK
  <1> QED
    BY <1>2, <1>3, HeldFinite, DailyFields DEF LostUnits

\* A settlement loses its unit only where the store cannot be reached for it.
LEMMA SettleLosesUnreachable ==
    ASSUME CallsOK, CallsOK', DailyOK, RequestOK, NEW p \in Calls, SettleDaily(p)
    PROVE  \/ LostUnits' = LostUnits
           \/ call[p].pc = "settle" /\ ~ request'[RequestOf[p]].available
  <1>1. CASE daily' = Settled(p)
    <2>1. p \in DailyHeld /\ DailyHeld' = DailyHeld \ {p}
      BY SettleDailyDaily
    <2>2. Cardinality(DailyHeld') = Cardinality(DailyHeld) - 1
      BY <2>1, HeldFinite, FS_RemoveElement
    <2>3. daily'.reserved = daily.reserved - 1
      BY <1>1 DEF Settled, Ledger!Committed, Ledger!Released, DailyOK
    <2> QED
      BY <2>2, <2>3, HeldFinite, DailyFields DEF LostUnits
  <1>2. CASE MarkDown(p)
    <2>1. RequestOf[p] \in Requests
      BY EngineAssumption
    <2>2. ~ request'[RequestOf[p]].available
      BY <1>2, <2>1 DEF MarkDown, RequestOK, RequestRecords
    <2> QED
      BY <2>2 DEF SettleDaily
  <1> QED
    BY <1>1, <1>2 DEF SettleDaily

LEMMA ConfigureLosesNone ==
    ASSUME CallsOK, CallsOK', DailyOK, NEW p \in Calls, ConfigureDaily(p)
    PROVE  LostUnits' = LostUnits
  <1>1. DailyHeld' = DailyHeld
    <2>1. Alone(p) /\ call[p].pc = "configure" /\ call'[p].pc = "daily"
      BY GotoAlone DEF ConfigureDaily
    <2> QED
      BY <2>1, HeldSame DEF HoldsDaily
  <1>2. daily'.reserved = daily.reserved
    BY DEF ConfigureDaily, Ledger!Configured, DailyOK
  <1> QED
    BY <1>1, <1>2, LostSame

LEMMA OtherStepsLoseNone ==
    ASSUME CallsOK, CallsOK', NEW p \in Calls, CallStep(p) \/ LastResort(p),
           ~ ReserveDaily(p), ~ SettleDaily(p), ~ ConfigureDaily(p)
    PROVE  LostUnits' = LostUnits
  <1>1. DailyHeld' = DailyHeld
    BY HeldKept
  <1>2. UNCHANGED daily
    BY DEF CallStep, Admission, Late, ReuseLease, AdmitRead, AdmitBlind, Claim,
           ClaimLost, Budgeting, ReserveRequest, RequestBudgetBlocked, DailyBudgetBlocked,
           Calling, Dispatch, NotTried, Return, BatchNotTried, FailUnsent, Judge, Wake,
           Verdict, ReleaseLease, RecordVerdict, ClearBucket, ExpireWindow, LastResort
  <1> QED
    BY <1>1, <1>2, LostSame

\* The next request finds the slots of the one before it without a unit.
LEMMA BeginLosesNone ==
    ASSUME CallsOK, NEW r \in Requests, BeginRequest(r)
    PROVE  LostUnits' = LostUnits
  <1>1. \A p \in CallsOf(r) : ~ call[p].daily
    BY DEF BeginRequest, Running, CallsOf, CallsOK, CallSane
  <1>2. \A p \in Calls : call'[p].daily <=> call[p].daily
    BY <1>1 DEF BeginRequest, CallsOf, Idle
  <1>3. DailyHeld' = DailyHeld
    BY <1>2 DEF DailyHeld
  <1> QED
    BY <1>3, LostSame DEF BeginRequest

LEMMA LostNextOK ==
    ASSUME CallsOK, DailyOK, RequestOK, [Next]_vars
    PROVE  \/ LostUnits' = LostUnits
           \/ \E r \in Requests : Crash(r)
           \/ \E p \in Calls : call[p].pc = "settle" /\ ~ request'[RequestOf[p]].available
  <1>0. CallsOK'
    BY CallsNextOK
  <1>1. ASSUME NEW p \in Calls, CallStep(p) \/ LastResort(p), ~ SettleDaily(p)
        PROVE  LostUnits' = LostUnits
    BY <1>0, <1>1, ReserveLosesNone, ConfigureLosesNone, OtherStepsLoseNone
  <1>2. ASSUME NEW p \in Calls, SettleDaily(p)
        PROVE  \/ LostUnits' = LostUnits
               \/ call[p].pc = "settle" /\ ~ request'[RequestOf[p]].available
    BY <1>0, <1>2, SettleLosesUnreachable
  <1>3. ASSUME NEW r \in Requests, Approach(r) \/ Recover(r)
        PROVE  LostUnits' = LostUnits
    BY <1>3, LostSame DEF Approach, Recover, DailyHeld
  <1>4. CASE Tick
    <2>1. \A p \in Calls : call'[p].daily = call[p].daily
      BY <1>4 DEF Tick, CallsOK, CallRecords
    <2>2. DailyHeld' = DailyHeld
      BY <2>1 DEF DailyHeld
    <2> QED
      BY <1>4, <2>2, LostSame DEF Tick
  <1>5. CASE UNCHANGED vars
    BY <1>5, LostSame DEF vars, DailyHeld
  <1> QED
    BY <1>1, <1>2, <1>3, <1>4, <1>5, BeginLosesNone DEF Next

\* A daily unit is stranded only by the death of its process or by a store that cannot
\* be reached at its settlement: every other way through execute(), a batch extraction
\* included, hands back or charges what it reserved.
THEOREM EngineLosesNoUnit == Spec => NoReservationLeak
  <1>1. EngineInv /\ [Next]_vars =>
          (LostUnits' # LostUnits
            => \/ \E r \in Requests : Crash(r)
               \/ \E p \in Calls : call[p].pc = "settle" /\ ~ request'[RequestOf[p]].available)
    BY LostNextOK DEF EngineInv
  <1> QED
    BY <1>1, EngineInvariant, PTL DEF Spec, NoReservationLeak
=============================================================================
