------------------------ MODULE ResearchFanout_proofs ------------------------
(***************************************************************************)
(* The harvest of a research request, for any number of members, pages and   *)
(* thresholds: every member is accounted for once, an answer that was in     *)
(* time is not thrown away, and nobody is given up without a reason.         *)
(***************************************************************************)
EXTENDS ResearchFanout, FiniteSetTheorems, TLAPS

\* The members that the submission loop has come to.
Handed(p) == /\ pc = "submit" => p < next
             /\ pc = "register" => p <= next

\* A member has no entry or one.
Nothing == <<>>
One(w)  == <<w>>
Entries == {Nothing} \cup {One(w) : w \in Reasons}

HarvestShape ==
    /\ pc \in Stages
    /\ next \in 1 .. N + 1
    /\ pc \in {"submit", "register"} => next <= N
    /\ pending \subseteq Workers
    /\ harvested \subseteq Workers
    /\ errors \in [Workers -> Entries]
    /\ thread \in [Workers -> {"none", "running", "ended"}]

\* A member waits for its turn or for its answer, or has been settled one way.
SettledOnce(p) ==
    /\ ~ Handed(p) => p \notin pending
    /\ ~ Handed(p) \/ p \in pending => p \notin harvested /\ errors[p] = Nothing
    /\ Handed(p) /\ p \notin pending => (p \in harvested <=> errors[p] = Nothing)

Settled == \A p \in Workers : SettledOnce(p)

\* Who is given up, and when the harvest is over.
Reasoned ==
    /\ triggered \in BOOLEAN
    /\ pc \notin Harvesting => pending = {}
    /\ triggered = TRUE => pc \notin Harvesting /\ QuorumReached
    /\ pc \in {"expired", "overdue", "final", "mark"} => clock = "passed"
    /\ \A p \in Workers :
        /\ errors[p] = One("preempted") => triggered = TRUE
        /\ errors[p] \in {One("timed_out"), One("not_submitted")} => clock = "passed"

\* The members that were in time have ended, and the last drain has collected them.
InTimeInv ==
    /\ inTime \subseteq Workers
    /\ clock # "passed" => inTime = {}
    /\ \A p \in inTime : thread[p] = "ended" /\ errors[p] # One("timed_out")
    /\ pc = "mark" => pending \cap inTime = {}

HarvestInv ==
    /\ HarvestShape
    /\ Settled
    /\ Reasoned
    /\ InTimeInv

-----------------------------------------------------------------------------
LEMMA Members ==
    /\ N \in Nat /\ N >= 1
    /\ Workers = 1 .. N
  BY FanoutAssumption

LEMMA FirstEntry ==
    ASSUME NEW w \in Reasons
    PROVE  Append(Nothing, w) = One(w) /\ One(w) \in Entries /\ One(w) # Nothing
  <1>1. Append(Nothing, w) = One(w) /\ One(w) # Nothing
    BY DEF Nothing, One
  <1> QED BY <1>1 DEF Entries

LEMMA DistinctReasons ==
    /\ One("failed") \notin {One("preempted"), One("timed_out"), One("not_submitted")}
    /\ One("preempted") \notin {One("timed_out"), One("not_submitted")}
    /\ One("timed_out") # One("not_submitted")
    /\ Nothing \notin {One("preempted"), One("timed_out"), One("not_submitted")}
  BY DEF Nothing, One

\* What harvest, a preemption and the marking have in common: the members in S leave the
\* pending ones, those in got as results and the others with one entry.
Leave(S, got, w) ==
    /\ harvested' = harvested \cup got
    /\ errors' = [p \in Workers |-> IF p \in S \ got THEN Append(errors[p], w) ELSE errors[p]]
    /\ pending' = pending \ S

LEMMA LeaveSettles ==
    ASSUME HarvestInv, NEW S, NEW got, NEW w \in Reasons,
           S \subseteq pending, got \subseteq S, Leave(S, got, w),
           pc \notin {"submit", "register"}, pc' \in Stages \ {"submit", "register"},
           next' \in 1 .. N + 1, thread' = thread
    PROVE  /\ HarvestShape'
           /\ Settled'
           /\ \A p \in Workers : errors'[p] = errors[p] \/ (p \in S \ got /\ errors'[p] = One(w))
  <1>1. \A p \in Workers : Handed(p) /\ Handed(p)'
    BY DEF Handed
  <1>2. \A p \in S : errors[p] = Nothing /\ p \notin harvested /\ p \in Workers
    BY DEF HarvestInv, HarvestShape, Settled, SettledOnce
  <1>3. \A p \in Workers : errors'[p] = IF p \in S \ got THEN One(w) ELSE errors[p]
    BY <1>2, FirstEntry DEF Leave
  <1>4. HarvestShape'
    BY <1>2, <1>3, FirstEntry DEF Leave, HarvestInv, HarvestShape
  <1>5. ASSUME NEW p \in Workers
        PROVE  SettledOnce(p)'
    BY <1>1, <1>2, <1>3, <1>5, FirstEntry DEF Leave, HarvestInv, Settled, SettledOnce
  <1>6. Settled'
    BY <1>5 DEF Settled
  <1> QED BY <1>3, <1>4, <1>6

LEMMA HarvestLeaves ==
    ASSUME HarvestInv, NEW S, Harvest(S)
    PROVE  LET new == S \cap pending
               got == {p \in new : result[p].kind = "answer"}
           IN  new \subseteq pending /\ got \subseteq new /\ Leave(new, got, "failed")
  <1> DEFINE new == S \cap pending
             got == {p \in new : result[p].kind = "answer"}
  <1>1. pending \ S = pending \ new
    OBVIOUS
  <1> QED BY <1>1 DEF Harvest, Leave

\* A quorum stays one as long as the answers in it do.
LEMMA QuorumSame ==
    ASSUME QuorumReached, harvested' = harvested, \A p \in harvested : result'[p] = result[p]
    PROVE  QuorumReached'
  <1>1. \A S \in SUBSET harvested : PagesOf(S)' = PagesOf(S)
    BY DEF PagesOf
  <1>2. PagesOf(harvested)' = PagesOf(harvested)
    BY DEF PagesOf
  <1>3. Contributors' = Contributors
    BY DEF Contributors, PagesOf
  <1> QED BY <1>2, <1>3 DEF QuorumReached

-----------------------------------------------------------------------------
LEMMA InitHarvest == ResearchInit => HarvestInv
  <1> SUFFICES ASSUME ResearchInit PROVE HarvestInv
    OBVIOUS
  <1>1. HarvestShape
    BY Members DEF ResearchInit, TasksInit, HarvestShape, Stages, Harvesting, Entries, Nothing
  <1>2. Settled
    BY Members DEF ResearchInit, Settled, SettledOnce, Handed, Nothing
  <1>3. Reasoned
    BY DistinctReasons DEF ResearchInit, Reasoned, Harvesting, Nothing
  <1>4. InTimeInv
    BY DEF ResearchInit, InTimeInv
  <1> QED BY <1>1, <1>2, <1>3, <1>4 DEF HarvestInv

\* A step that leaves the harvest where it is, and the answers of a quorum.
LEMMA ElsewhereKeeps ==
    ASSUME HarvestInv, UNCHANGED <<pc, next, harvest>>, triggered = TRUE => result' = result,
           clock = "passed" => clock' = "passed",
           thread' \in [Workers -> {"none", "running", "ended"}],
           InTimeInv'
    PROVE  HarvestInv'
  <1>1. HarvestShape'
    BY DEF HarvestInv, HarvestShape, harvest
  <1>2. Settled'
    BY DEF HarvestInv, Settled, SettledOnce, Handed, harvest
  <1>3. triggered = TRUE => QuorumReached'
    BY QuorumSame DEF HarvestInv, Reasoned, harvest
  <1>4. Reasoned'
    BY <1>3 DEF HarvestInv, Reasoned, harvest
  <1> QED BY <1>1, <1>2, <1>4 DEF HarvestInv

LEMMA MemberKeeps ==
    ASSUME HarvestInv, NEW p \in Workers, Member(p)
    PROVE  HarvestInv'
  <1>1. UNCHANGED <<pc, next, harvest, report, time>>
    BY DEF Member
  <1>2. triggered = TRUE => result' = result
    BY DEF Member, tvars, HarvestInv, Reasoned
  <1>3. /\ thread' \in [Workers -> {"none", "running", "ended"}]
        /\ \A q \in Workers : thread[q] = "ended" => thread'[q] = "ended"
    <2>1. thread \in [Workers -> {"none", "running", "ended"}]
      BY DEF HarvestInv, HarvestShape
    <2>2. thread' = thread \/ thread' = [thread EXCEPT ![p] = "ended"]
      BY DEF Member, Conclude, Finish, Notify, tvars
    <2> QED BY <2>1, <2>2
  <1>4. InTimeInv'
    BY <1>1, <1>3 DEF HarvestInv, InTimeInv, harvest, time
  <1> QED BY <1>1, <1>2, <1>3, <1>4, ElsewhereKeeps DEF time

LEMMA ExpireKeeps ==
    ASSUME HarvestInv, Expire
    PROVE  HarvestInv'
  <1>1. UNCHANGED <<tvars, pc, next, harvest>>
    BY DEF Expire
  <1>2. CASE clock = "ahead"
    BY <1>1, <1>2, ElsewhereKeeps DEF Expire, HarvestInv, HarvestShape, InTimeInv, tvars, harvest
  <1>3. CASE clock # "ahead"
    BY <1>1, <1>3, ElsewhereKeeps DEF Expire, HarvestInv, HarvestShape, InTimeInv, Reasoned, tvars, harvest
  <1> QED BY <1>2, <1>3
-----------------------------------------------------------------------------
(* The caller's steps                                                      *)

\* A step of the caller that settles members for a reason it may have.
LEMMA LeaveKeeps ==
    ASSUME HarvestInv, NEW S, NEW got, NEW w \in Reasons,
           S \subseteq pending, got \subseteq S, Leave(S, got, w),
           pc \notin {"submit", "register"}, pc' \in Stages \ {"submit", "register"}, next' \in 1 .. N + 1,
           UNCHANGED <<clock, inTime, thread, result>>,
           pc \in Harvesting,
           w \in {"failed", "preempted", "timed_out"},
           w = "preempted" => triggered' = TRUE,
           triggered' \in BOOLEAN,
           triggered' = TRUE => pc' \notin Harvesting /\ QuorumReached /\ got = {},
           w = "timed_out" => clock = "passed" /\ S \cap inTime = {},
           pc' \notin Harvesting => pending' = {},
           pc' \in {"expired", "overdue", "final", "mark"} => clock = "passed",
           pc' = "mark" => pending' \cap inTime = {}
    PROVE  HarvestInv'
  <1>0. thread' = thread
    OBVIOUS
  <1>1. /\ HarvestShape'
        /\ Settled'
        /\ \A p \in Workers : errors'[p] = errors[p] \/ (p \in S \ got /\ errors'[p] = One(w))
    BY <1>0, LeaveSettles
  <1>2. triggered' = TRUE => QuorumReached'
    <2>1. triggered' = TRUE => harvested' = harvested
      BY DEF Leave
    <2> QED BY <2>1, QuorumSame
  <1>3. triggered # TRUE
    BY DEF HarvestInv, Reasoned
  <1>4. Reasoned'
    BY <1>1, <1>2, <1>3, DistinctReasons DEF HarvestInv, Reasoned
  <1>5. InTimeInv'
    <2>1. \A p \in inTime : p \in Workers \/ thread'[p] = "ended"
      BY DEF HarvestInv, InTimeInv
    <2>2. \A p \in inTime : errors'[p] # One("timed_out")
      BY <1>1, DistinctReasons DEF HarvestInv, InTimeInv, Leave
    <2> QED BY <2>2 DEF HarvestInv, InTimeInv
  <1> QED BY <1>1, <1>4, <1>5 DEF HarvestInv

LEMMA SubmitKeeps ==
    ASSUME HarvestInv, Submit
    PROVE  HarvestInv'
  <1>0. pc = "submit"
    BY DEF Submit
  <1>a. next \in 1 .. N + 1 /\ next <= N
    BY <1>0 DEF HarvestInv, HarvestShape
  <1>b. next \in 1 .. N /\ next \in Workers
    BY <1>a, Members
  <1>c. \A p \in Workers : Handed(p) <=> p < next
    BY <1>0 DEF Handed
  <1>1. pc = "submit" /\ next \in 1 .. N /\ next \in Workers /\ \A p \in Workers : Handed(p) <=> p < next
    BY <1>0, <1>b, <1>c
  <1>2. next \notin pending /\ next \notin harvested /\ errors[next] = Nothing /\ triggered # TRUE
    <2>1. ~ Handed(next)
      BY <1>1
    <2>2. next \notin pending /\ next \notin harvested /\ errors[next] = Nothing
      BY <1>1, <2>1 DEF HarvestInv, Settled, SettledOnce
    <2>3. triggered # TRUE
      BY <1>1 DEF HarvestInv, Reasoned, Harvesting
    <2> QED BY <2>2, <2>3
  <1>3. UNCHANGED <<harvested, triggered, time, clock, inTime>>
    BY DEF Submit, time
  <1>4. CASE clock = "passed"
    <2>1. /\ errors' = [errors EXCEPT ![next] = One("not_submitted")]
          /\ Submitted /\ UNCHANGED <<pending, thread, result>>
      BY <1>1, <1>2, <1>4, FirstEntry DEF Submit, tvars, Reasons
    <2>2. /\ pc' \in {"top", "submit"} /\ next' = next + 1
          /\ pc' = "submit" => next' <= N
          /\ next' \in 1 .. N + 1
      BY <1>1, <2>1, Members DEF Submitted, Goto
    <2>3. \A p \in Workers : Handed(p)' <=> p < next + 1
      BY <1>1, <2>1, <2>2, Members DEF Handed, Submitted, Goto
    <2>4. HarvestShape'
      BY <1>1, <1>3, <2>1, <2>2, FirstEntry DEF HarvestInv, HarvestShape, Stages, Harvesting, Reasons
    <2>5. ASSUME NEW p \in Workers
          PROVE  SettledOnce(p)'
      <3>1. CASE p = next
        BY <1>1, <1>2, <1>3, <2>1, <2>3, <3>1, FirstEntry DEF Settled, SettledOnce, HarvestInv, HarvestShape, Reasons
      <3>2. CASE p # next
        <4>1. errors'[p] = errors[p] /\ (Handed(p)' <=> Handed(p))
          BY <1>1, <2>1, <2>3, <3>2, Members DEF HarvestInv, HarvestShape
        <4> QED BY <1>3, <2>1, <4>1 DEF Settled, SettledOnce, HarvestInv
      <3> QED BY <3>1, <3>2
    <2>6. \A p \in Workers : errors'[p] = errors[p] \/ errors'[p] = One("not_submitted")
      BY <2>1 DEF HarvestInv, HarvestShape
    <2>7. Reasoned'
      BY <1>2, <1>3, <1>4, <2>2, <2>6, DistinctReasons DEF HarvestInv, Reasoned, Harvesting
    <2>8. InTimeInv'
      <3>1. \A p \in inTime : errors'[p] # One("timed_out")
        BY <2>1, DistinctReasons DEF HarvestInv, InTimeInv, HarvestShape
      <3> QED BY <1>3, <2>1, <2>2, <3>1 DEF HarvestInv, InTimeInv
    <2> QED BY <2>4, <2>5, <2>7, <2>8 DEF HarvestInv, Settled
  <1>5. CASE clock # "passed"
    <2>1. /\ pending' = pending \cup {next} /\ pc' = "register" /\ UNCHANGED <<errors, next>>
          /\ result' = result /\ thread' = [thread EXCEPT ![next] = "running"] /\ thread[next] = "none"
      BY <1>1, <1>5 DEF Submit, Start, Goto
    <2>2. \A p \in Workers : Handed(p)' <=> p < next \/ p = next
      BY <1>1, <2>1, Members DEF Handed
    <2>3. HarvestShape'
      BY <1>1, <1>3, <2>1 DEF HarvestInv, HarvestShape, Stages, Harvesting
    <2>4. Settled'
      BY <1>1, <1>2, <1>3, <2>1, <2>2 DEF Settled, SettledOnce, HarvestInv
    <2>5. Reasoned'
      BY <1>2, <1>3, <2>1 DEF HarvestInv, Reasoned, Harvesting
    <2>6. InTimeInv'
      BY <1>3, <1>5, <2>1 DEF HarvestInv, InTimeInv, HarvestShape
    <2> QED BY <2>3, <2>4, <2>5, <2>6 DEF HarvestInv
  <1> QED BY <1>4, <1>5

LEMMA RegisteredKeeps ==
    ASSUME HarvestInv, Registered
    PROVE  HarvestInv'
  <1>1. /\ pc = "register" /\ next \in 1 .. N
        /\ UNCHANGED <<harvest, pending, harvested, errors, triggered, time, clock, inTime, thread, result>>
    BY DEF Registered, Register, HarvestInv, HarvestShape, harvest, time
  <1>2. /\ pc' \in {"top", "submit"} /\ next' = next + 1
        /\ pc' = "submit" => next' <= N
        /\ next' \in 1 .. N + 1
    BY <1>1, Members DEF Registered, Submitted, Goto
  <1>3. \A p \in Workers : Handed(p)' <=> Handed(p)
    BY <1>1, <1>2, Members DEF Handed, Registered, Submitted, Goto
  <1>4. HarvestShape'
    BY <1>1, <1>2 DEF HarvestInv, HarvestShape, Stages, Harvesting
  <1>5. Settled'
    BY <1>1, <1>3 DEF HarvestInv, Settled, SettledOnce
  <1>6. Reasoned'
    BY <1>1, <1>2 DEF HarvestInv, Reasoned, Harvesting
  <1>7. InTimeInv'
    BY <1>1, <1>2 DEF HarvestInv, InTimeInv
  <1> QED BY <1>4, <1>5, <1>6, <1>7 DEF HarvestInv

LEMMA DrainsKeep ==
    ASSUME HarvestInv, DrainQueue \/ DrainDone \/ Take
    PROVE  HarvestInv'
  <1>0. /\ UNCHANGED <<next, triggered, clock, inTime, thread, result>>
        /\ next' \in 1 .. N + 1 /\ "failed" \in Reasons
        /\ pc \in {"top", "expired", "final", "wait"}
    BY DEF DrainQueue, DrainDone, Take, time, tvars, AfterDrain, HarvestInv, HarvestShape, Reasons
  <1>1. triggered # TRUE /\ pc \in Harvesting
    BY <1>0 DEF HarvestInv, Reasoned, Harvesting
  <1>2. PICK S : Harvest(S) /\ (DrainDone => S = {p \in pending : thread[p] = "ended"})
    BY DEF DrainQueue, DrainDone, Take
  <1> DEFINE new == S \cap pending
             got == {p \in new : result[p].kind = "answer"}
  <1>3. new \subseteq pending /\ got \subseteq new /\ Leave(new, got, "failed")
    BY <1>2, HarvestLeaves
  <1>4. /\ pc' \in Harvesting \ {"submit", "register"}
        /\ pc' \in {"expired", "overdue", "final", "mark"} => clock = "passed"
        /\ pc' = "mark" => DrainDone
    BY <1>0 DEF DrainQueue, DrainDone, Take, Goto, AfterDrain, Harvesting, HarvestInv, Reasoned
  <1>5. pc' = "mark" => pending' \cap inTime = {}
    BY <1>2, <1>3, <1>4 DEF Leave, HarvestInv, InTimeInv
  <1> HIDE DEF new, got
  <1> QED
    <2>1. /\ pc' \in Stages \ {"submit", "register"} /\ pc \notin {"submit", "register"}
          /\ triggered' \in BOOLEAN /\ triggered' # TRUE
      BY <1>0, <1>1, <1>4 DEF Stages, HarvestInv, Reasoned
    <2> QED BY <1>0, <1>1, <1>3, <1>4, <1>5, <2>1, LeaveKeeps

LEMMA GiveUpLeaves ==
    ASSUME NEW w, GiveUp(pending, w), harvested' = harvested
    PROVE  Leave(pending, {}, w) /\ pending' = {}
  BY DEF GiveUp, Leave

\* A step of the caller that only moves on.
LEMMA MoveKeeps ==
    ASSUME HarvestInv, UNCHANGED <<harvest, clock, inTime, thread, result>>,
           pc \notin {"submit", "register"}, pc' \in Stages \ {"submit", "register", "mark"},
           next' \in 1 .. N + 1,
           pc' \notin Harvesting => pending = {},
           triggered = TRUE => pc' \notin Harvesting,
           pc' \in {"expired", "overdue", "final"} => clock = "passed"
    PROVE  HarvestInv'
  <1>1. HarvestShape'
    BY DEF HarvestInv, HarvestShape, harvest
  <1>2. Settled'
    BY DEF HarvestInv, Settled, SettledOnce, Handed, harvest
  <1>3. triggered = TRUE => QuorumReached'
    BY QuorumSame DEF HarvestInv, Reasoned, harvest
  <1>4. Reasoned'
    BY <1>3 DEF HarvestInv, Reasoned, harvest
  <1>5. InTimeInv'
    BY DEF HarvestInv, InTimeInv, harvest
  <1> QED BY <1>1, <1>2, <1>4, <1>5 DEF HarvestInv

LEMMA ChooseKeeps ==
    ASSUME HarvestInv, Choose
    PROVE  HarvestInv'
  <1>1. /\ pc = "choose" /\ pc \in Harvesting /\ triggered # TRUE
        /\ UNCHANGED <<next, harvested, timedOut, clock, inTime, thread, result>>
        /\ next' \in 1 .. N + 1
    BY DEF Choose, tvars, time, HarvestInv, HarvestShape, Reasoned, Harvesting
  <1>2. CASE pending # {} /\ QuorumReached
    <2>1. GiveUp(pending, "preempted") /\ triggered' = TRUE /\ pc' = "extract"
      BY <1>2 DEF Choose, Goto
    <2>2. /\ Leave(pending, {}, "preempted") /\ pending' = {} /\ "preempted" \in Reasons
          /\ "extract" \in Stages \ Harvesting
      BY <1>1, <2>1, GiveUpLeaves DEF Reasons, Stages, Harvesting
    <2> QED
      BY <1>1, <1>2, <2>1, <2>2, LeaveKeeps DEF Harvesting
  <1>3. CASE ~ (pending # {} /\ QuorumReached)
    <2>1. /\ UNCHANGED <<pending, errors, triggered>>
          /\ (pc' = "extract" /\ pending = {}) \/ pc' = "wait"
      BY <1>3 DEF Choose, Goto
    <2> QED
      BY <1>1, <2>1, MoveKeeps DEF harvest, Stages, Harvesting
  <1> QED BY <1>2, <1>3

LEMMA MarkKeeps ==
    ASSUME HarvestInv, Mark
    PROVE  HarvestInv'
  <1>1. /\ pc = "mark" /\ pc \in Harvesting /\ triggered # TRUE /\ pc' = "extract"
        /\ UNCHANGED <<next, harvested, triggered, clock, inTime, thread, result>>
        /\ next' \in 1 .. N + 1 /\ clock = "passed" /\ pending \cap inTime = {}
        /\ triggered' \in BOOLEAN
    BY DEF Mark, Goto, tvars, time, HarvestInv, HarvestShape, Reasoned, InTimeInv, Harvesting
  <1>2. /\ Leave(pending, {}, "timed_out") /\ pending' = {} /\ "timed_out" \in Reasons
        /\ "extract" \in Stages \ Harvesting
    BY <1>1, GiveUpLeaves DEF Mark, Reasons, Stages, Harvesting
  <1> QED
    BY <1>1, <1>2, LeaveKeeps DEF Harvesting

LEMMA RestKeeps ==
    ASSUME HarvestInv, Empty \/ Overdue \/ Extract \/ Extracted \/ Receipt \/ Respond
    PROVE  HarvestInv'
  <1>1. UNCHANGED <<harvest, clock, inTime, thread, result>>
    BY DEF Empty, Overdue, Extract, Extracted, Receipt, Respond, tvars, time
  <1>2. CASE Empty \/ Overdue
    BY <1>1, <1>2, MoveKeeps
       DEF Empty, Overdue, Goto, HarvestInv, HarvestShape, Reasoned, Stages, Harvesting
  <1>3. CASE Extract \/ Extracted \/ Receipt \/ Respond
    <2>1. /\ pc \in Stages \ Harvesting /\ pc' \in Stages \ Harvesting
          /\ next' \in 1 .. N + 1 /\ pending = {}
      BY <1>3, Members
         DEF Extract, Extracted, Receipt, Respond, Goto, HarvestInv, HarvestShape, Reasoned,
             Stages, Harvesting
    <2> QED BY <1>1, <2>1, MoveKeeps DEF Harvesting
  <1> QED BY <1>2, <1>3

LEMMA StepHarvest == HarvestInv /\ [ResearchNext]_vars => HarvestInv'
  <1> SUFFICES ASSUME HarvestInv, [ResearchNext]_vars PROVE HarvestInv'
    OBVIOUS
  <1>1. CASE Caller
    BY <1>1, SubmitKeeps, RegisteredKeeps, DrainsKeep, ChooseKeeps, MarkKeeps, RestKeeps DEF Caller
  <1>2. CASE \E p \in Workers : Member(p)
    BY <1>2, MemberKeeps
  <1>3. CASE Expire
    BY <1>3, ExpireKeeps
  <1>4. CASE UNCHANGED vars
    <2>1. UNCHANGED <<tvars, pc, next, harvest, time>>
      BY <1>4 DEF vars
    <2>2. InTimeInv'
      BY <2>1 DEF HarvestInv, InTimeInv, tvars, harvest, time
    <2> QED BY <2>1, <2>2, ElsewhereKeeps DEF tvars, time, HarvestInv, HarvestShape
  <1> QED BY <1>1, <1>2, <1>3, <1>4 DEF ResearchNext, Returned

\* The invariant of the harvest holds throughout a research request, for any number of members.
THEOREM HarvestInvariant == ResearchSpec => []HarvestInv
  <1> QED BY InitHarvest, StepHarvest, PTL DEF ResearchSpec

-----------------------------------------------------------------------------
(* What it gives                                                           *)

\* Every member of a research request is a result or has one error entry, in whatever
\* order completions, quorum and time-outs come (harvest, mark_budget_timeouts).
THEOREM ResearchReportedOnce == ResearchSpec => []ReportedOnce
  <1>1. HarvestInv => ReportedOnce
    <2> SUFFICES ASSUME HarvestInv, pc \notin Harvesting, NEW p \in Workers
                 PROVE  Len(errors[p]) + (IF p \in harvested THEN 1 ELSE 0) = 1
      BY DEF ReportedOnce
    <2>1. Handed(p) /\ p \notin pending
      BY DEF HarvestInv, Reasoned, Handed, Harvesting
    <2>2. errors[p] \in Entries /\ (p \in harvested <=> errors[p] = Nothing)
      BY <2>1 DEF HarvestInv, HarvestShape, Settled, SettledOnce
    <2>3. CASE errors[p] = Nothing
      BY <2>2, <2>3 DEF Nothing
    <2>4. CASE errors[p] # Nothing
      <3>1. PICK w \in Reasons : errors[p] = One(w)
        BY <2>2, <2>4 DEF Entries
      <3>2. Len(errors[p]) = 1
        BY <3>1 DEF One
      <3> QED BY <2>2, <2>4, <3>2
    <2> QED BY <2>3, <2>4
  <1> QED BY <1>1, HarvestInvariant, PTL

\* A member that had ended when the time budget did is never reported as timed out (the
\* drain of mark_budget_timeouts).
THEOREM ResearchInTime == ResearchSpec => []InTimeIsKept
  <1>1. HarvestInv => InTimeIsKept
    <2> SUFFICES ASSUME HarvestInv, NEW p \in inTime, NEW i \in DOMAIN errors[p]
                 PROVE  errors[p][i] # "timed_out"
      BY DEF InTimeIsKept
    <2>1. errors[p] \in Entries /\ errors[p] # One("timed_out")
      BY DEF HarvestInv, HarvestShape, InTimeInv
    <2>2. errors[p] # Nothing
      BY DEF Nothing
    <2>3. PICK w \in Reasons : errors[p] = One(w)
      BY <2>1, <2>2 DEF Entries
    <2>4. i = 1 /\ w # "timed_out"
      BY <2>1, <2>3 DEF One
    <2> QED BY <2>3, <2>4 DEF One
  <1> QED BY <1>1, HarvestInvariant, PTL

\* Members are preempted only for a quorum of the answers in the response, and timed out
\* or not submitted only when the time budget is over (run_research_mode).
THEOREM ResearchGivesUpForAReason == ResearchSpec => []GivenUpForAReason
  <1>1. ASSUME HarvestInv, triggered = TRUE
        PROVE  Cardinality({p \in harvested : result[p].pages # {}}) >= MinContributors
    <2> DEFINE answering == {p \in harvested : result[p].pages # {}}
    <2>1. Contributors \subseteq answering
      BY DEF Contributors
    <2>2. IsFiniteSet(Workers) /\ answering \subseteq Workers
      <3>1. IsFiniteSet(1 .. N)
        <4>1. 1 \in Int /\ N \in Int
          BY Members
        <4> QED BY <4>1, FS_Interval, Zenon
      <3>2. answering \subseteq Workers
        BY <1>1 DEF HarvestInv, HarvestShape
      <3> QED BY <3>1, <3>2, Members
    <2>3. IsFiniteSet(answering)
      BY <2>2, FS_Subset
    <2>4. /\ Cardinality(Contributors) <= Cardinality(answering)
          /\ Cardinality(Contributors) \in Nat /\ Cardinality(answering) \in Nat
      BY <2>1, <2>3, FS_Subset, FS_CardinalityType
    <2>5. Cardinality(Contributors) >= MinContributors
      BY <1>1 DEF HarvestInv, Reasoned, QuorumReached
    <2> QED BY <2>4, <2>5, FanoutAssumption
  <1>2. HarvestInv => GivenUpForAReason
    <2> SUFFICES ASSUME HarvestInv PROVE GivenUpForAReason
      OBVIOUS
    <2>1. \A p \in Workers :
            /\ errors[p] = <<"preempted">> => triggered
            /\ errors[p] \in {<<"timed_out">>, <<"not_submitted">>} => clock = "passed"
      BY DEF HarvestInv, Reasoned, One
    <2>2. CASE triggered = TRUE
      BY <1>1, <2>1, <2>2 DEF HarvestInv, Reasoned, QuorumReached, GivenUpForAReason
    <2>3. CASE triggered = FALSE
      BY <2>1, <2>3 DEF GivenUpForAReason
    <2> QED BY <2>2, <2>3 DEF HarvestInv, Reasoned
  <1> QED BY <1>2, HarvestInvariant, PTL

-----------------------------------------------------------------------------
(* Receipts: what the threads leave, and what the harvest has seen of it     *)

\* A thread that has ended has the result its attempt recorded, and what an ended thread
\* has recorded does not change: the harvest looks only at threads that have ended.
EndedAsRecorded(p) ==
    /\ recorded[p] # None => recorded[p].kind \in {"answer"} \cup (Shortfalls \ {"raised"})
    /\ thread[p] = "ended" =>
        IF recorded[p] = None THEN result[p].kind = "raised" ELSE result[p] = recorded[p]
    /\ callback[p] \in {"taken", "run"} => thread[p] = "ended"

\* Threads, callbacks and the queue of completions.
ThreadInv ==
    /\ thread \in [Workers -> {"none", "running", "ended"}]
    /\ result \in [Workers -> Ends \cup {None}]
    /\ callback \in [Workers -> {"none", "kept", "taken", "run"}]
    /\ recorded \in [Workers -> Ends \cup {None}]
    /\ queue \in Seq(Workers)
    /\ \A p \in Workers : EndedAsRecorded(p)
    /\ \A i \in 1 .. Len(queue) : thread[queue[i]] = "ended"

\* What the report says of a member is true of its thread.
ReportedTruly(p) ==
    /\ p \in harvested => thread[p] = "ended" /\ result[p].kind = "answer"
    /\ errors[p] = One("failed") => thread[p] = "ended" /\ result[p].kind # "answer"
    /\ p \in timedOut <=> errors[p] = One("timed_out")

\* The receipt of a member agrees with the report.
ReceiptFits(p) ==
    /\ p \in harvested => receipts[p] = "answer"
    /\ errors[p] = One("timed_out") => receipts[p] \in {"cancelled", "never_called"}
    /\ errors[p] = One("failed") =>
        \/ receipts[p] \in Shortfalls
        \/ result[p].kind = "raised"
    /\ receipts[p] \in {"cancelled", "never_called"} =>
        errors[p] # One("failed") \/ result[p].kind = "raised"

\* The members whose receipt has been written.
Written(p) == pc = "done" \/ (pc = "receipts" /\ p < next)

ReceiptInv ==
    /\ HarvestInv
    /\ ThreadInv
    /\ timedOut \subseteq Workers
    /\ \A p \in Workers : ReportedTruly(p)
    /\ receipts \in [Workers -> Receipts \cup {None}]
    /\ \A p \in Workers : Written(p) => ReceiptFits(p)
    /\ pc = "extracting" => next = 1

LEMMA EndKinds == \A e \in Ends : e.kind \in {"answer"} \cup Shortfalls
  <1> SUFFICES ASSUME NEW e \in Ends PROVE e.kind \in {"answer"} \cup Shortfalls
    OBVIOUS
  <1>1. PICK p \in Workers : e \in EndsOf(p)
    BY DEF Ends
  <1> QED BY <1>1, FanoutAssumption DEF EndsOf, End

LEMMA OneThread == None \notin Ends /\ Outcomes = Ends
  BY FanoutAssumption

LEMMA InitReceipts == ResearchInit => ReceiptInv
  <1> SUFFICES ASSUME ResearchInit PROVE ReceiptInv
    OBVIOUS
  <1>1. ThreadInv
    <2>1. queue \in Seq(Workers) /\ Len(queue) = 0
      BY DEF ResearchInit, TasksInit
    <2> QED BY <2>1 DEF ResearchInit, TasksInit, ThreadInv, EndedAsRecorded
  <1>2. \A p \in Workers : ReportedTruly(p)
    BY DEF ResearchInit, ReportedTruly, One
  <1> QED BY <1>1, <1>2, InitHarvest DEF ResearchInit, ReceiptInv, Written

\* A step that keeps what the threads have ended with keeps what is said of them.
Lasting == \A p \in Workers : thread[p] = "ended" => thread'[p] = "ended" /\ result'[p] = result[p]

LEMMA ReportLasts ==
    ASSUME \A p \in Workers : ReportedTruly(p), Lasting,
           UNCHANGED <<harvested, errors, timedOut>>
    PROVE  \A p \in Workers : ReportedTruly(p)'
  BY DEF ReportedTruly, Lasting

LEMMA WrittenLasts ==
    ASSUME \A p \in Workers : Written(p) => ReceiptFits(p), Lasting,
           \A p \in Workers : ReportedTruly(p),
           UNCHANGED <<harvested, errors, receipts, pc, next>>
    PROVE  \A p \in Workers : Written(p)' => ReceiptFits(p)'
  BY DEF ReceiptFits, Lasting, Written, ReportedTruly

\* As long as the harvest goes on no receipt is written.
LEMMA NoneWritten ==
    ASSUME pc' \notin {"receipts", "done"}
    PROVE  \A p \in Workers : Written(p)' => ReceiptFits(p)'
  BY DEF Written

LEMMA MemberReceipts ==
    ASSUME ReceiptInv, NEW p \in Workers, Member(p)
    PROVE  ReceiptInv'
  <1>1. HarvestInv' /\ ThreadInv
    BY MemberKeeps DEF ReceiptInv
  <1>2. UNCHANGED <<pc, next, harvested, errors, timedOut, receipts>>
    BY DEF Member, harvest, report
  <1>3. CASE UNCHANGED tvars /\ (Begin(p) \/ Record(p))
    <2>1. UNCHANGED <<thread, result, callback, queue>>
      BY <1>3 DEF tvars
    <2>2. recorded' = recorded \/ (thread[p] = "running" /\ \E e \in Possible(p) : recorded' = [recorded EXCEPT ![p] = e])
      BY <1>3 DEF Begin, Record
    <2>3. ThreadInv'
      <3>1. CASE recorded' = recorded
        BY <1>1, <2>1, <3>1 DEF ThreadInv, EndedAsRecorded
      <3>2. ASSUME thread[p] = "running", NEW e \in Possible(p), recorded' = [recorded EXCEPT ![p] = e]
            PROVE  ThreadInv'
        <4>1. e \in Ends /\ e.kind # "raised"
          BY DEF Possible, Ends
        <4>2. e.kind \in {"answer"} \cup (Shortfalls \ {"raised"})
          BY <4>1, EndKinds
        <4> QED BY <1>1, <2>1, <3>2, <4>1, <4>2 DEF ThreadInv, EndedAsRecorded
      <3> QED BY <2>2, <3>1, <3>2
    <2>4. Lasting
      BY <2>1 DEF Lasting
    <2> QED BY <1>1, <1>2, <2>3, <2>4, ReportLasts, WrittenLasts DEF ReceiptInv
  <1>4. CASE Conclude(p)
    <2>1. /\ thread[p] = "running" /\ recorded' = recorded /\ queue' = queue
          /\ thread' = [thread EXCEPT ![p] = "ended"]
          /\ callback' = [callback EXCEPT ![p] = IF @ = "kept" THEN "taken" ELSE @]
          /\ IF recorded[p] = None THEN result'[p].kind = "raised" ELSE result'[p] = recorded[p]
      BY <1>4 DEF Conclude, Finish, members
    <2>2. PICK o \in Ends : result' = [result EXCEPT ![p] = o]
      BY <1>4, OneThread DEF Conclude, Finish
    <2>3. ThreadInv'
      <3>1. /\ thread' \in [Workers -> {"none", "running", "ended"}]
            /\ result' \in [Workers -> Ends \cup {None}]
            /\ callback' \in [Workers -> {"none", "kept", "taken", "run"}]
            /\ recorded' \in [Workers -> Ends \cup {None}]
            /\ queue' \in Seq(Workers)
        BY <1>1, <2>1, <2>2 DEF ThreadInv
      <3>2. ASSUME NEW q \in Workers
            PROVE  EndedAsRecorded(q)'
        <4>1. CASE q = p
          BY <1>1, <2>1, <2>2, <4>1 DEF ThreadInv, EndedAsRecorded
        <4>2. CASE q # p
          <5>1. thread'[q] = thread[q] /\ result'[q] = result[q] /\ callback'[q] = callback[q]
            BY <1>1, <2>1, <2>2, <4>2 DEF ThreadInv
          <5> QED BY <1>1, <2>1, <5>1 DEF ThreadInv, EndedAsRecorded
        <4> QED BY <4>1, <4>2
      <3>3. \A i \in 1 .. Len(queue) : queue[i] \in Workers
        BY <1>1 DEF ThreadInv
      <3> QED BY <1>1, <2>1, <3>1, <3>2, <3>3 DEF ThreadInv
    <2>4. Lasting
      BY <1>1, <2>1, <2>2 DEF Lasting, ThreadInv
    <2> QED BY <1>1, <1>2, <2>3, <2>4, ReportLasts, WrittenLasts DEF ReceiptInv
  <1>5. CASE Notify(p) /\ UNCHANGED members
    <2>1. /\ callback[p] = "taken" /\ UNCHANGED <<thread, result, recorded>>
          /\ callback' = [callback EXCEPT ![p] = "run"] /\ queue' = Append(queue, p)
      BY <1>5 DEF Notify, members
    <2>2. thread[p] = "ended"
      BY <1>1, <2>1 DEF ThreadInv, EndedAsRecorded
    <2>3. ThreadInv'
      <3>1. queue' \in Seq(Workers) /\ \A i \in 1 .. Len(queue') : thread[queue'[i]] = "ended"
        BY <1>1, <2>1, <2>2 DEF ThreadInv
      <3> QED BY <1>1, <2>1, <2>2, <3>1 DEF ThreadInv, EndedAsRecorded
    <2>4. Lasting
      BY <2>1 DEF Lasting
    <2> QED BY <1>1, <1>2, <2>3, <2>4, ReportLasts, WrittenLasts DEF ReceiptInv
  <1> QED BY <1>3, <1>4, <1>5 DEF Member, members

\* What the caller's steps after the harvest have in common, and the clock's.
LEMMA CallerMoves ==
    ASSUME ReceiptInv, HarvestInv', UNCHANGED <<tvars, harvested, errors, timedOut, members, receipts>>,
           pc' \notin {"receipts", "done"} \/ (pc' = "receipts" /\ next' = 1) \/ (pc' = "done" /\ pc = "receipts" /\ next > N)
             \/ UNCHANGED <<pc, next>>,
           pc' = "extracting" => next' = 1
    PROVE  ReceiptInv'
  <1>1. ThreadInv'
    BY DEF ReceiptInv, ThreadInv, EndedAsRecorded, tvars, members
  <1>2. Lasting
    BY DEF Lasting, tvars
  <1>3. \A p \in Workers : Written(p)' => Written(p)
    <2>1. \A p \in Workers : p \in 1 .. N
      BY Members
    <2>2. next \in 1 .. N + 1 /\ N \in Nat
      BY Members DEF ReceiptInv, HarvestInv, HarvestShape
    <2> QED BY <2>1, <2>2 DEF Written
  <1>4. \A p \in Workers : ReportedTruly(p)'
    BY <1>2, ReportLasts DEF ReceiptInv
  <1>5. \A p \in Workers : ReceiptFits(p) => ReceiptFits(p)'
    BY DEF ReceiptFits, tvars
  <1> QED BY <1>1, <1>3, <1>4, <1>5 DEF ReceiptInv

LEMMA SubmitReceipts ==
    ASSUME ReceiptInv, Submit
    PROVE  ReceiptInv'
  <1>1. /\ HarvestInv' /\ pc = "submit" /\ next \in Workers /\ errors[next] = Nothing
        /\ UNCHANGED <<harvested, timedOut, recorded, receipts>>
    <2>1. pc = "submit" /\ next \in 1 .. N + 1 /\ next <= N
      BY DEF Submit, ReceiptInv, HarvestInv, HarvestShape
    <2>2. next \in Workers
      BY <2>1, Members
    <2>3. errors[next] = Nothing
      BY <2>1, <2>2, Members DEF ReceiptInv, HarvestInv, Settled, SettledOnce, Handed
    <2> QED BY <2>1, <2>2, <2>3, SubmitKeeps DEF Submit, ReceiptInv, members, report
  <1>2. pc' \notin {"receipts", "done", "extracting"}
    BY DEF Submit, Submitted, Goto
  <1>3. CASE clock = "passed"
    <2>1. errors' = [errors EXCEPT ![next] = One("not_submitted")] /\ UNCHANGED <<thread, result, callback, queue>>
      BY <1>1, <1>3, FirstEntry DEF Submit, tvars, Reasons
    <2>2. ThreadInv'
      BY <1>1, <2>1 DEF ReceiptInv, ThreadInv, EndedAsRecorded
    <2>3. \A p \in Workers : ReportedTruly(p)'
      <3>1. errors \in [Workers -> Entries]
        BY DEF ReceiptInv, HarvestInv, HarvestShape
      <3>2. ASSUME NEW p \in Workers PROVE ReportedTruly(p)'
        <4>1. CASE p = next
          BY <1>1, <2>1, <3>1, <4>1, DistinctReasons DEF ReceiptInv, ReportedTruly
        <4>2. CASE p # next
          BY <1>1, <2>1, <3>1, <4>2 DEF ReceiptInv, ReportedTruly
        <4> QED BY <4>1, <4>2
      <3> QED BY <3>2
    <2> QED BY <1>1, <1>2, <2>2, <2>3, NoneWritten DEF ReceiptInv, Submit
  <1>4. CASE clock # "passed"
    <2>1. /\ thread[next] = "none" /\ thread' = [thread EXCEPT ![next] = "running"]
          /\ UNCHANGED <<result, callback, queue, errors>>
      BY <1>4 DEF Submit, Start
    <2>2. ThreadInv'
      <3>1. thread' \in [Workers -> {"none", "running", "ended"}]
        BY <2>1 DEF ReceiptInv, ThreadInv
      <3>2. \A p \in Workers : thread'[p] = "ended" <=> thread[p] = "ended"
        BY <1>1, <2>1 DEF ReceiptInv, ThreadInv
      <3>3. \A i \in 1 .. Len(queue) : queue[i] \in Workers
        BY DEF ReceiptInv, ThreadInv
      <3> QED BY <1>1, <2>1, <3>1, <3>2, <3>3 DEF ReceiptInv, ThreadInv, EndedAsRecorded
    <2>3. Lasting
      BY <1>1, <2>1 DEF Lasting, ReceiptInv, ThreadInv
    <2> QED BY <1>1, <1>2, <2>1, <2>2, <2>3, ReportLasts, NoneWritten DEF ReceiptInv
  <1> QED BY <1>3, <1>4

LEMMA RegisteredReceipts ==
    ASSUME ReceiptInv, Registered
    PROVE  ReceiptInv'
  <1>1. /\ HarvestInv' /\ pc = "register" /\ next \in Workers
        /\ UNCHANGED <<harvested, errors, timedOut, recorded, receipts, thread, result>>
    <2>1. pc = "register" /\ next \in 1 .. N + 1 /\ next <= N
      BY DEF Registered, ReceiptInv, HarvestInv, HarvestShape
    <2> QED BY <2>1, Members, RegisteredKeeps DEF Registered, Register, ReceiptInv, harvest, members, report
  <1>2. pc' \notin {"receipts", "done", "extracting"}
    BY DEF Registered, Submitted, Goto
  <1>3. ThreadInv'
    <2>1. CASE thread[next] = "ended"
      <3>1. callback' = [callback EXCEPT ![next] = "run"] /\ queue' = Append(queue, next)
        BY <2>1 DEF Registered, Register
      <3>2. queue' \in Seq(Workers) /\ \A i \in 1 .. Len(queue') : thread[queue'[i]] = "ended"
        BY <1>1, <2>1, <3>1 DEF ReceiptInv, ThreadInv
      <3> QED BY <1>1, <2>1, <3>1, <3>2 DEF ReceiptInv, ThreadInv, EndedAsRecorded
    <2>2. CASE thread[next] # "ended"
      <3>1. callback' = [callback EXCEPT ![next] = "kept"] /\ queue' = queue
        BY <2>2 DEF Registered, Register
      <3> QED BY <1>1, <2>2, <3>1 DEF ReceiptInv, ThreadInv, EndedAsRecorded
    <2> QED BY <2>1, <2>2
  <1>4. Lasting
    BY <1>1 DEF Lasting
  <1> QED BY <1>1, <1>2, <1>3, <1>4, ReportLasts, NoneWritten DEF ReceiptInv

\* What a step that lets members leave says of them.
LEMMA LeaveReceipts ==
    ASSUME ReceiptInv, HarvestInv', NEW S, NEW got, NEW w \in Reasons,
           S \subseteq pending, got \subseteq S, Leave(S, got, w),
           UNCHANGED <<thread, result, callback, recorded, receipts>>,
           queue' = queue \/ (queue # <<>> /\ queue' = Tail(queue)),
           pc' \notin {"receipts", "done", "extracting"},
           \A p \in got : thread[p] = "ended" /\ result[p].kind = "answer",
           w = "failed" => \A p \in S \ got : thread[p] = "ended" /\ result[p].kind # "answer",
           timedOut' = timedOut \cup (IF w = "timed_out" THEN S \ got ELSE {})
    PROVE  ReceiptInv'
  <1>1. S \subseteq Workers /\ \A p \in S : p \in Workers /\ errors[p] = Nothing /\ p \notin harvested
    <2>1. \A p \in S : p \in Workers
      BY DEF ReceiptInv, HarvestInv, HarvestShape
    <2>2. \A p \in S : errors[p] = Nothing /\ p \notin harvested
      BY <2>1 DEF ReceiptInv, HarvestInv, Settled, SettledOnce
    <2> QED BY <2>1, <2>2
  <1>2. \A p \in Workers : errors'[p] = IF p \in S \ got THEN One(w) ELSE errors[p]
    BY <1>1, FirstEntry DEF Leave
  <1>3. ThreadInv'
    <2>1. queue \in Seq(Workers) /\ \A i \in 1 .. Len(queue) : thread[queue[i]] = "ended"
      BY DEF ReceiptInv, ThreadInv
    <2>2. CASE queue' = queue
      BY <2>1, <2>2 DEF ReceiptInv, ThreadInv, EndedAsRecorded
    <2>3. CASE queue # <<>> /\ queue' = Tail(queue)
      <3>1. /\ Tail(queue) \in Seq(Workers) /\ Len(Tail(queue)) = Len(queue) - 1
            /\ \A i \in 1 .. Len(Tail(queue)) : i + 1 \in 1 .. Len(queue) /\ Tail(queue)[i] = queue[i + 1]
        BY <2>1, <2>3
      <3>2. \A i \in 1 .. Len(queue') : thread'[queue'[i]] = "ended"
        <4>1. thread' = thread
          OBVIOUS
        <4>2. \A i \in 1 .. Len(Tail(queue)) : thread[Tail(queue)[i]] = "ended"
          BY <2>1, <3>1
        <4> QED BY <2>3, <4>1, <4>2
      <3>3. queue' \in Seq(Workers)
        BY <2>3, <3>1
      <3> QED BY <3>2, <3>3 DEF ReceiptInv, ThreadInv, EndedAsRecorded
    <2> QED BY <2>2, <2>3
  <1>4. ASSUME NEW p \in Workers PROVE ReportedTruly(p)'
    <2>1. ReportedTruly(p)
      BY DEF ReceiptInv
    <2>2. CASE p \notin S
      BY <1>2, <2>1, <2>2 DEF Leave, ReportedTruly
    <2>3. CASE p \in got
      BY <1>1, <1>2, <2>1, <2>3, DistinctReasons DEF Leave, ReportedTruly, One, Nothing
    <2>4. CASE p \in S \ got
      <3>1. p \notin harvested' /\ errors'[p] = One(w) /\ p \notin timedOut
        BY <1>1, <1>2, <2>1, <2>4, DistinctReasons DEF Leave, ReportedTruly
      <3>2. \A v : One(w) = One(v) => w = v
        BY DEF One
      <3> QED BY <2>4, <3>1, <3>2 DEF ReportedTruly
    <2> QED BY <2>2, <2>3, <2>4
  <1>5. timedOut' \subseteq Workers
    BY <1>1 DEF ReceiptInv
  <1> QED BY <1>3, <1>4, <1>5, NoneWritten DEF ReceiptInv

LEMMA DrainsReceipts ==
    ASSUME ReceiptInv, DrainQueue \/ DrainDone \/ Take
    PROVE  ReceiptInv'
  <1>1. /\ HarvestInv' /\ "failed" \in Reasons /\ "failed" # "timed_out"
        /\ UNCHANGED <<thread, result, callback, recorded, receipts, timedOut>>
        /\ queue' = queue \/ (queue # <<>> /\ queue' = Tail(queue))
        /\ pc' \notin {"receipts", "done", "extracting"}
    BY DrainsKeep DEF DrainQueue, DrainDone, Take, AfterDrain, Goto, tvars, members, report, Reasons, ReceiptInv
  <1>2. PICK S : Harvest(S) /\ \A p \in S \cap pending : thread[p] = "ended"
    <2>1. CASE DrainQueue \/ Take
      <3>1. queue # <<>> /\ Harvest({Head(queue)})
        BY <2>1 DEF DrainQueue, Take
      <3>2. queue \in Seq(Workers) /\ \A i \in 1 .. Len(queue) : thread[queue[i]] = "ended"
        BY DEF ReceiptInv, ThreadInv
      <3>3. Len(queue) >= 1 /\ Head(queue) = queue[1] /\ 1 \in 1 .. Len(queue)
        BY <3>1, <3>2
      <3> QED BY <3>1, <3>2, <3>3
    <2>2. CASE DrainDone
      BY <2>2 DEF DrainDone
    <2> QED BY <2>1, <2>2
  <1> DEFINE new == S \cap pending
             got == {p \in new : result[p].kind = "answer"}
  <1>3. new \subseteq pending /\ got \subseteq new /\ Leave(new, got, "failed")
    BY <1>2, HarvestLeaves DEF ReceiptInv
  <1>4. /\ \A p \in got : thread[p] = "ended" /\ result[p].kind = "answer"
        /\ \A p \in new \ got : thread[p] = "ended" /\ result[p].kind # "answer"
    BY <1>2
  <1>5. timedOut' = timedOut \cup (IF "failed" = "timed_out" THEN new \ got ELSE {})
    BY <1>1
  <1> HIDE DEF new, got
  <1> QED BY <1>1, <1>3, <1>4, <1>5, LeaveReceipts

LEMMA ChooseReceipts ==
    ASSUME ReceiptInv, Choose
    PROVE  ReceiptInv'
  <1>1. /\ HarvestInv'
        /\ UNCHANGED <<tvars, thread, result, callback, queue, recorded, receipts, timedOut, harvested, members>>
        /\ pc' \notin {"receipts", "done", "extracting"}
    BY ChooseKeeps DEF Choose, Goto, tvars, members, report, ReceiptInv
  <1>2. CASE pending # {} /\ QuorumReached
    <2>1. /\ Leave(pending, {}, "preempted") /\ "preempted" \in Reasons
          /\ timedOut' = timedOut \cup (IF "preempted" = "timed_out" THEN pending \ {} ELSE {})
      BY <1>1, <1>2, GiveUpLeaves DEF Choose, Goto, Reasons
    <2> QED BY <1>1, <2>1, LeaveReceipts
  <1>3. CASE ~ (pending # {} /\ QuorumReached)
    <2>1. errors' = errors
      BY <1>3 DEF Choose
    <2> QED BY <1>1, <2>1, CallerMoves
  <1> QED BY <1>2, <1>3

LEMMA MarkReceipts ==
    ASSUME ReceiptInv, Mark
    PROVE  ReceiptInv'
  <1>1. /\ HarvestInv'
        /\ UNCHANGED <<thread, result, callback, queue, recorded, receipts>>
        /\ pc' \notin {"receipts", "done", "extracting"}
        /\ Leave(pending, {}, "timed_out") /\ "timed_out" \in Reasons
        /\ timedOut' = timedOut \cup (IF "timed_out" = "timed_out" THEN pending \ {} ELSE {})
    BY MarkKeeps, GiveUpLeaves DEF Mark, Goto, tvars, members, report, ReceiptInv, Reasons
  <1> QED BY <1>1, LeaveReceipts

\* The receipt written last fits what the report says, whatever the threads do meanwhile.
LEMMA ReceiptReceipts ==
    ASSUME ReceiptInv, Receipt
    PROVE  ReceiptInv'
  <1>1. /\ HarvestInv' /\ pc = "receipts" /\ pc' = "receipts" /\ next' = next + 1
        /\ next \in Workers /\ next \in 1 .. N
        /\ receipts' = [receipts EXCEPT ![next] = ReceiptOf(next)]
        /\ UNCHANGED <<tvars, harvested, errors, timedOut, members, thread, result, callback, queue, recorded>>
    <2>1. next \in 1 .. N + 1 /\ next <= N
      BY DEF Receipt, ReceiptInv, HarvestInv, HarvestShape
    <2> QED BY <2>1, Members, RestKeeps DEF Receipt, ReceiptInv, tvars, members, harvest
  <1>2. ReportedTruly(next) /\ EndedAsRecorded(next)
    BY <1>1 DEF ReceiptInv, ThreadInv
  <1>3. ReceiptOf(next) \in Receipts
    BY <1>2 DEF ReceiptOf, EndedAsRecorded, Receipts
  <1>4. receipts' \in [Workers -> Receipts \cup {None}] /\ receipts'[next] = ReceiptOf(next)
        /\ \A p \in Workers : p # next => receipts'[p] = receipts[p]
    BY <1>1, <1>3 DEF ReceiptInv
  <1>5. next \in harvested => errors[next] = Nothing
    <2>1. Handed(next) /\ next \notin pending
      BY <1>1 DEF ReceiptInv, HarvestInv, Reasoned, Handed, Harvesting
    <2> QED BY <1>1, <2>1 DEF ReceiptInv, HarvestInv, Settled, SettledOnce
  <1>6. ASSUME NEW q \in Workers, q = next PROVE ReceiptFits(q)'
    <2>1. /\ next \in harvested => ReceiptOf(next) = "answer"
          /\ errors[next] = One("timed_out") => ReceiptOf(next) \in {"cancelled", "never_called"}
      BY <1>2, <1>5, DistinctReasons DEF ReceiptOf, EndedAsRecorded, ReportedTruly
    <2>2. ASSUME errors[next] = One("failed"), result[next].kind # "raised"
          PROVE  ReceiptOf(next) \in Shortfalls
      <3>1. next \notin timedOut /\ thread[next] = "ended" /\ result[next].kind # "answer"
        BY <1>2, <2>2, DistinctReasons DEF ReportedTruly
      <3>2. recorded[next] # None /\ result[next] = recorded[next]
        BY <1>2, <2>2, <3>1 DEF EndedAsRecorded
      <3> QED BY <1>2, <3>1, <3>2 DEF ReceiptOf, EndedAsRecorded
    <2>3. "cancelled" \notin Shortfalls /\ "never_called" \notin Shortfalls
      BY DEF Shortfalls
    <2>4. /\ harvested' = harvested /\ errors' = errors /\ result' = result
          /\ receipts'[q] = ReceiptOf(next)
      BY <1>1, <1>4, <1>6
    <2> QED BY <1>6, <2>1, <2>2, <2>3, <2>4 DEF ReceiptFits
  <1>7. \A p \in Workers : Written(p)' => ReceiptFits(p)'
    <2>1. ASSUME NEW p \in Workers, Written(p)', p # next
          PROVE  ReceiptFits(p)'
      <3>1. p \in 1 .. N
        BY Members
      <3>2. Written(p)
        BY <1>1, <2>1, <3>1, Members DEF Written
      <3>3. ReceiptFits(p) /\ receipts'[p] = receipts[p]
        BY <1>4, <2>1, <3>2 DEF ReceiptInv
      <3>4. harvested' = harvested /\ errors' = errors /\ result' = result
        BY <1>1
      <3> QED BY <3>3, <3>4 DEF ReceiptFits
    <2> QED BY <1>6, <2>1
  <1>8. ThreadInv' /\ Lasting
    BY <1>1 DEF ReceiptInv, ThreadInv, EndedAsRecorded, tvars, members, Lasting
  <1> QED BY <1>1, <1>4, <1>7, <1>8, ReportLasts DEF ReceiptInv

LEMMA RestReceipts ==
    ASSUME ReceiptInv, Empty \/ Overdue \/ Extract \/ Extracted \/ Respond
    PROVE  ReceiptInv'
  <1>1. HarvestInv'
    BY RestKeeps DEF ReceiptInv
  <1>2. UNCHANGED <<tvars, harvested, errors, timedOut, members, receipts>>
    BY DEF Empty, Overdue, Extract, Extracted, Respond, harvest, report
  <1>3. CASE Empty \/ Overdue \/ Extract \/ Respond
    BY <1>1, <1>2, <1>3, CallerMoves DEF Empty, Overdue, Extract, Respond, Goto
  <1>4. CASE Extracted
    <2>1. pc = "extracting" /\ pc' = "receipts" /\ next' = next /\ next = 1
      BY <1>4 DEF Extracted, Goto, ReceiptInv
    <2> QED BY <1>1, <1>2, <2>1, CallerMoves
  <1> QED BY <1>3, <1>4

LEMMA StepReceipts == ReceiptInv /\ [ResearchNext]_vars => ReceiptInv'
  <1> SUFFICES ASSUME ReceiptInv, [ResearchNext]_vars PROVE ReceiptInv'
    OBVIOUS
  <1>1. CASE Caller
    BY <1>1, SubmitReceipts, RegisteredReceipts, DrainsReceipts, ChooseReceipts, MarkReceipts,
       ReceiptReceipts, RestReceipts DEF Caller
  <1>2. CASE \E p \in Workers : Member(p)
    BY <1>2, MemberReceipts
  <1>3. CASE Expire \/ UNCHANGED vars
    <2>1. HarvestInv'
      BY <1>3, StepHarvest DEF ReceiptInv, ResearchNext
    <2>2. UNCHANGED <<tvars, harvested, errors, timedOut, members, receipts, pc, next>>
      BY <1>3 DEF Expire, vars, harvest, report
    <2> QED BY <2>1, <2>2, CallerMoves DEF ReceiptInv
  <1> QED BY <1>1, <1>2, <1>3 DEF ResearchNext, Returned

\* The receipts and the diagnostics of a response agree, although threads that the harvest
\* has abandoned still write theirs (the receipts loop of _execute_research_v3).
THEOREM ResearchReceiptsAgree == ResearchSpec => []ReceiptsAgree
  <1>1. ReceiptInv => ReceiptsAgree
    BY DEF ReceiptInv, Written, ReceiptFits, ReceiptsAgree, One
  <1>2. ResearchSpec => []ReceiptInv
    BY InitReceipts, StepReceipts, PTL DEF ResearchSpec
  <1> QED BY <1>1, <1>2, PTL
=============================================================================
