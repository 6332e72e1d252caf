------------------------- MODULE Surroundings_proofs -------------------------
(***************************************************************************)
(* What holds around the attempt engine: the pool of connections, the files   *)
(* of the legacy search, the store of full texts, the requests on the         *)
(* response cache, the pacing of a provider's calls, the migration of an old   *)
(* state directory, the native backend, a session of the browser backend, the  *)
(* evidence of a search, the extraction fallback, the config file, and the     *)
(* operator's receipt journal.                                                 *)
(***************************************************************************)
EXTENDS HttpPool, LegacySearch, TextStore, Orchestrator, CallPacing, StateMigration,
        NativeExtract, DonsetchSession, SearchEvidence, ExtractFallback, BehaviorConfig,
        ReceiptJournal, FiniteSetTheorems, NaturalsInduction, WellFoundedInduction, TLAPS

(***************************************************************************)
(* The pool of connections (http_client.py)                                *)
(***************************************************************************)
Entries == [socket : Sockets, fresh : BOOLEAN]
Calls   == [step : {"idle", "redirected", "ready", "sent"}, socket : Sockets \cup {NoSocket},
            reused : BOOLEAN, hops : Nat, answer : Clients \cup {NoSocket}]

PoolShape ==
    /\ idle \in [Processes -> Seq(Entries)]
    /\ mark \in [Processes -> Processes]
    /\ forked \in BOOLEAN
    /\ unread \in [Sockets -> Seq(Clients)]
    /\ hungUp \in SUBSET Sockets
    /\ call \in [Clients -> Calls]
    /\ mark["parent"] = "parent"

\* A thread that is using a connection.
Using(t) == call[t].step \in {"ready", "sent"}

\* A connection a process may use belongs to one thread or to one place in one pool.
OneHolder ==
    /\ \A t, u \in Clients : Using(t) /\ Using(u) /\ call[t].socket = call[u].socket => t = u
    /\ \A t \in Clients, p \in Processes : Using(t) =>
          \A i \in DOMAIN OwnPool(p) : OwnPool(p)[i].socket # call[t].socket
    /\ \A p, q \in Processes : \A i \in DOMAIN OwnPool(p), j \in DOMAIN OwnPool(q) :
          OwnPool(p)[i].socket = OwnPool(q)[j].socket => p = q /\ i = j

\* Nothing is unread on a connection but what its user has asked for.
NothingForeign ==
    /\ \A t \in Clients : Using(t) =>
          /\ call[t].socket \in Sockets
          /\ unread[call[t].socket] = IF call[t].step = "sent" THEN <<t>> ELSE <<>>
    /\ \A p \in Processes : \A i \in DOMAIN OwnPool(p) : unread[OwnPool(p)[i].socket] = <<>>
    /\ \A s \in Unheld : unread[s] = <<>>

\* Before the fork the child has nothing.
Unborn == ~ forked => idle["child"] = <<>> /\ \A t \in Clients : ProcessOf(t) = "child" => ~ Using(t)

PoolInv == PoolShape /\ OneHolder /\ NothingForeign /\ Unborn /\ AnswersAreOwn

-----------------------------------------------------------------------------
LEMMA UnheldMeans ==
    ASSUME PoolShape
    PROVE  \A s \in Sockets : s \in Unheld <=>
              /\ \A t \in Clients : call[t].socket # s
              /\ \A p \in Processes : \A i \in DOMAIN idle[p] : idle[p][i].socket # s
  <1>1. \A p \in Processes : ToSet(idle[p]) = {idle[p][i] : i \in DOMAIN idle[p]}
    BY DEF ToSet
  <1>2. ASSUME NEW s
        PROVE  s \in UNION {{e.socket : e \in ToSet(idle[p])} : p \in Processes}
                 <=> \E p \in Processes : \E i \in DOMAIN idle[p] : idle[p][i].socket = s
    <2> DEFINE own(p) == {e.socket : e \in ToSet(idle[p])}
    <2>1. ASSUME NEW p \in Processes PROVE s \in own(p) <=> \E i \in DOMAIN idle[p] : idle[p][i].socket = s
      BY ONLY <1>1, p \in Processes
    <2> HIDE DEF own
    <2>2. s \in UNION {own(p) : p \in Processes} <=> \E p \in Processes : s \in own(p)
      OBVIOUS
    <2> QED BY <2>1, <2>2 DEF own
  <1>3. ASSUME NEW s PROVE s \in Held <=> \E t \in Clients : call[t].socket = s
    BY ONLY DEF Held
  <1> QED
    BY ONLY <1>2, <1>3 DEF Unheld

LEMMA OwnPoolShape ==
    ASSUME PoolShape
    PROVE  \A p \in Processes :
              /\ OwnPool(p) \in Seq(Entries)
              /\ \A i \in DOMAIN OwnPool(p) :
                    i \in DOMAIN idle[p] /\ OwnPool(p)[i] = idle[p][i] /\ OwnPool(p)[i].socket \in Sockets
  <1> SUFFICES ASSUME NEW p \in Processes
               PROVE  /\ OwnPool(p) \in Seq(Entries)
                      /\ \A i \in DOMAIN OwnPool(p) :
                            i \in DOMAIN idle[p] /\ OwnPool(p)[i] = idle[p][i] /\ OwnPool(p)[i].socket \in Sockets
    OBVIOUS
  <1>1. idle[p] \in Seq(Entries) /\ \A i \in DOMAIN idle[p] : idle[p][i] \in Entries
    BY DEF PoolShape
  <1>2. \A i \in DOMAIN idle[p] : idle[p][i].socket \in Sockets
    BY <1>1 DEF Entries
  <1>3. OwnPool(p) = idle[p] \/ OwnPool(p) = <<>>
    BY DEF OwnPool
  <1>4. <<>> \in Seq(Entries) /\ DOMAIN <<>> = {}
    OBVIOUS
  <1> QED
    BY <1>1, <1>2, <1>3, <1>4

\* Connections stay with one holder when the pools only lose entries and one thread gives
\* up its connection or takes one that nobody holds, or that leaves a pool.
LEMMA HoldersKept ==
    ASSUME PoolShape, OneHolder, NEW t \in Clients,
           \A q \in Processes : \A i \in DOMAIN OwnPool(q)' :
              i \in DOMAIN OwnPool(q) /\ OwnPool(q)'[i].socket = OwnPool(q)[i].socket,
           \A u \in Clients : u # t => call'[u] = call[u],
           Using(t)' => \/ Using(t) /\ call'[t].socket = call[t].socket
                        \/ call'[t].socket \in Unheld
                        \/ \E q \in Processes : \E i \in DOMAIN OwnPool(q) :
                              call'[t].socket = OwnPool(q)[i].socket /\ i \notin DOMAIN OwnPool(q)'
    PROVE  OneHolder'
  <1>1. \A u \in Clients : u # t => (Using(u)' <=> Using(u))
    BY DEF Using
  <1>2. \A s \in Unheld : /\ \A u \in Clients : call[u].socket # s
                          /\ \A q \in Processes : \A i \in DOMAIN OwnPool(q) : OwnPool(q)[i].socket # s
    BY UnheldMeans, OwnPoolShape DEF Unheld
  <1>3. \A u \in Clients : u # t /\ Using(u)' /\ Using(t)' => call'[u].socket # call'[t].socket
    BY <1>1, <1>2 DEF OneHolder
  <1>4. \A q \in Processes : Using(t)' => \A i \in DOMAIN OwnPool(q)' : OwnPool(q)'[i].socket # call'[t].socket
    BY <1>2 DEF OneHolder
  <1>5. \A u \in Clients, q \in Processes : u # t /\ Using(u)' =>
            \A i \in DOMAIN OwnPool(q)' : OwnPool(q)'[i].socket # call'[u].socket
    BY <1>1 DEF OneHolder
  <1>6. \A u, v \in Clients : Using(u)' /\ Using(v)' /\ call'[u].socket = call'[v].socket => u = v
    BY <1>1, <1>3 DEF OneHolder
  <1>7. \A p, q \in Processes : \A i \in DOMAIN OwnPool(p)', j \in DOMAIN OwnPool(q)' :
            OwnPool(p)'[i].socket = OwnPool(q)'[j].socket => p = q /\ i = j
    BY DEF OneHolder
  <1> QED
    BY <1>4, <1>5, <1>6, <1>7 DEF OneHolder

\* ... and when in addition the sockets that nobody holds any more are forgotten, nothing
\* foreign is unread.
LEMMA NothingForeignKept ==
    ASSUME PoolShape, PoolShape', OneHolder, NothingForeign, NEW t \in Clients,
           \A q \in Processes : \A i \in DOMAIN OwnPool(q)' :
              i \in DOMAIN OwnPool(q) /\ OwnPool(q)'[i].socket = OwnPool(q)[i].socket,
           \A u \in Clients : u # t => call'[u] = call[u],
           \A s \in Sockets : unread'[s] = IF s \in Unheld' THEN <<>> ELSE unread[s],
           Using(t)' => \/ Using(t) /\ call'[t].socket = call[t].socket /\ call'[t].step = call[t].step
                        \/ /\ call'[t].step = "ready"
                           /\ \/ call'[t].socket \in Unheld
                              \/ \E q \in Processes : \E i \in DOMAIN OwnPool(q) :
                                    call'[t].socket = OwnPool(q)[i].socket
    PROVE  NothingForeign'
  <1>1. \A s \in Unheld' : s \in Sockets /\ unread'[s] = <<>>
    BY DEF Unheld
  <1>2. \A p \in Processes : \A i \in DOMAIN OwnPool(p)' : unread'[OwnPool(p)'[i].socket] = <<>>
    BY OwnPoolShape DEF NothingForeign
  <1>3. ASSUME NEW u \in Clients, Using(u)'
        PROVE  call'[u].socket \in Sockets /\ call'[u].socket \notin Unheld'
    <2>1. call'[u].socket \in Sockets
      <3>1. CASE u = t
        BY <1>3, <3>1, OwnPoolShape DEF NothingForeign, Unheld
      <3>2. CASE u # t
        BY <1>3, <3>2 DEF NothingForeign, Using
      <3> QED
        BY <3>1, <3>2
    <2>2. call'[u].socket \in Held'
      BY DEF Held
    <2> QED
      BY <2>1, <2>2 DEF Unheld
  <1>4. ASSUME NEW u \in Clients, Using(u)'
        PROVE  unread'[call'[u].socket] = IF call'[u].step = "sent" THEN <<u>> ELSE <<>>
    <2>1. unread'[call'[u].socket] = unread[call'[u].socket]
      BY <1>3, <1>4
    <2>2. CASE u = t
      BY <1>4, <2>1, <2>2 DEF NothingForeign
    <2>3. CASE u # t
      BY <1>4, <2>1, <2>3 DEF NothingForeign, Using
    <2> QED
      BY <2>2, <2>3
  <1> QED
    BY <1>1, <1>2, <1>3, <1>4 DEF NothingForeign

LEMMA WiresShape ==
    ASSUME PoolShape, Wires(unread, hungUp)
    PROVE  /\ unread' \in [Sockets -> Seq(Clients)] /\ hungUp' \in SUBSET Sockets
           /\ \A s \in Sockets : unread'[s] = IF s \in Unheld' THEN <<>> ELSE unread[s]
  <1>1. <<>> \in Seq(Clients)
    OBVIOUS
  <1> QED
    BY <1>1 DEF PoolShape, Wires

\* A thread that has a connection is ready to send on it.
LEMMA OnConnectionShape ==
    ASSUME PoolShape, NEW t \in Clients, NEW s \in Sockets, NEW reused \in BOOLEAN,
           OnConnection(t, s, reused)
    PROVE  /\ call' \in [Clients -> Calls]
           /\ call'[t].step = "ready" /\ call'[t].socket = s /\ call'[t].answer = NoSocket
           /\ \A u \in Clients : u # t => call'[u] = call[u]
  <1> DEFINE c == [call[t] EXCEPT !.step = "ready", !.socket = s, !.reused = reused, !.answer = NoSocket]
  <1>1. c \in Calls /\ c.step = "ready" /\ c.socket = s /\ c.answer = NoSocket
    BY DEF PoolShape, Calls
  <1>2. call' = [call EXCEPT ![t] = c]
    BY DEF OnConnection
  <1> HIDE DEF c
  <1> QED
    BY <1>1, <1>2 DEF PoolShape

\* A thread that has connected uses a connection nobody held.
LEMMA ConnectedShape ==
    ASSUME PoolShape, NEW t \in Clients, Connected(t)
    PROVE  /\ call' \in [Clients -> Calls]
           /\ call'[t].step = "ready" /\ call'[t].socket \in Unheld /\ call'[t].answer = NoSocket
           /\ \A u \in Clients : u # t => call'[u] = call[u]
  <1>1. (CHOOSE s \in Unheld : TRUE) \in Unheld
    BY DEF Connected
  <1> DEFINE s == CHOOSE s \in Unheld : TRUE
  <1>2. s \in Unheld /\ s \in Sockets
    BY <1>1 DEF Unheld
  <1>3. OnConnection(t, s, FALSE)
    BY DEF Connected
  <1> HIDE DEF s
  <1> QED
    BY <1>2, <1>3, OnConnectionShape

LEMMA UnbornKept ==
    ASSUME Unborn, forked' = forked, ~ forked => idle'["child"] = idle["child"],
           \A u \in Clients : Using(u)' => Using(u) \/ (ProcessOf(u) = "child" => forked)
    PROVE  Unborn'
  BY DEF Unborn, ProcessOf

LEMMA AcquireInv ==
    ASSUME PoolInv, NEW t \in Clients, Acquire(t)
    PROVE  PoolInv'
  <1> DEFINE p == ProcessOf(t)
             own == OwnPool(p)
  <1>1. PoolShape /\ OneHolder /\ NothingForeign /\ Unborn /\ AnswersAreOwn
    BY DEF PoolInv
  <1>2. p \in Processes
    BY DEF ProcessOf, Processes
  <1>3. mark' = [mark EXCEPT ![p] = p] /\ Wires(unread, hungUp) /\ forked' = forked
    BY DEF Acquire
  <1>4. mark' \in [Processes -> Processes] /\ mark'["parent"] = "parent" /\ mark'[p] = p
        /\ \A q \in Processes : q # p => mark'[q] = mark[q]
    BY <1>1, <1>2, <1>3 DEF PoolShape, Processes
  <1>5. \A q \in Processes : q # p /\ idle'[q] = idle[q] => OwnPool(q)' = OwnPool(q)
    BY <1>4 DEF OwnPool
  <1>6. OwnPool(p)' = idle'[p]
    BY <1>4 DEF OwnPool
  <1>20. Unborn'
    <2>1. p = "child" => forked
      BY DEF Acquire
    <2>2. \A q \in Processes : q # p => idle'[q] = idle[q]
      BY <1>1, <1>2 DEF Acquire, PoolShape
    <2>3. \A u \in Clients : u # t => (Using(u)' <=> Using(u))
      <3>1. OnConnection(t, Last(OwnPool(p)).socket, TRUE) \/ Connected(t)
        BY DEF Acquire
      <3>2. \A u \in Clients : u # t => call'[u] = call[u]
        BY <1>1, <3>1, ConnectedShape DEF OnConnection, PoolShape
      <3> QED
        BY <3>2 DEF Using
    <2> QED
      BY <1>1, <1>3, <2>1, <2>2, <2>3, UnbornKept DEF Processes
  <1>7. CASE own # <<>> /\ Last(own).fresh
    <2>1. idle' = [idle EXCEPT ![p] = Front(own)] /\ OnConnection(t, Last(own).socket, TRUE)
      BY <1>7 DEF Acquire
    <2>2. own \in Seq(Entries)
      BY <1>1, <1>2, OwnPoolShape
    <2> HIDE DEF own, p
    <2>3. /\ Front(own) \in Seq(Entries)
          /\ Len(own) \in DOMAIN own /\ Len(own) \notin DOMAIN Front(own)
          /\ Last(own) = own[Len(own)] /\ Last(own) \in Entries
          /\ \A i \in DOMAIN Front(own) : i \in DOMAIN own /\ Front(own)[i] = own[i]
      BY <1>7, <2>2 DEF Front, Last
    <2>4. idle' \in [Processes -> Seq(Entries)] /\ idle'[p] = Front(own)
          /\ \A q \in Processes : q # p => idle'[q] = idle[q]
      BY <1>1, <1>2, <2>1, <2>3 DEF PoolShape
    <2>5. Last(own).socket \in Sockets
      BY <2>3 DEF Entries
    <2>6. /\ call' \in [Clients -> Calls] /\ call'[t].step = "ready"
          /\ call'[t].socket = Last(own).socket /\ call'[t].answer = NoSocket
          /\ \A u \in Clients : u # t => call'[u] = call[u]
      BY <1>1, <2>1, <2>5, OnConnectionShape
    <2>7. \A q \in Processes : \A i \in DOMAIN OwnPool(q)' :
              i \in DOMAIN OwnPool(q) /\ OwnPool(q)'[i].socket = OwnPool(q)[i].socket
      BY <1>5, <1>6, <2>3, <2>4 DEF own
    <2>8. PoolShape'
      BY <1>1, <1>3, <1>4, <2>4, <2>6, WiresShape DEF PoolShape
    <2>9. Len(own) \in DOMAIN OwnPool(p) /\ call'[t].socket = OwnPool(p)[Len(own)].socket
          /\ Len(own) \notin DOMAIN OwnPool(p)'
      BY <1>6, <2>3, <2>4, <2>6 DEF own
    <2>10. OneHolder'
      BY <1>1, <1>2, <2>6, <2>7, <2>9, HoldersKept
    <2>11. NothingForeign'
      BY <1>1, <1>2, <1>3, <2>6, <2>7, <2>8, <2>9, WiresShape, NothingForeignKept
    <2>12. AnswersAreOwn'
      BY <1>1, <2>6 DEF AnswersAreOwn
    <2> QED
      BY <1>20, <2>8, <2>10, <2>11, <2>12 DEF PoolInv
  <1>8. CASE ~ (own # <<>> /\ Last(own).fresh)
    <2>1. idle' = [idle EXCEPT ![p] = <<>>] /\ Connected(t)
      BY <1>8 DEF Acquire
    <2> HIDE DEF own, p
    <2>2. idle' \in [Processes -> Seq(Entries)] /\ idle'[p] = <<>>
          /\ \A q \in Processes : q # p => idle'[q] = idle[q]
      BY <1>1, <1>2, <2>1 DEF PoolShape
    <2>3. /\ call' \in [Clients -> Calls]
          /\ call'[t].step = "ready" /\ call'[t].socket \in Unheld /\ call'[t].answer = NoSocket
          /\ \A u \in Clients : u # t => call'[u] = call[u]
      BY <1>1, <2>1, ConnectedShape
    <2>4. \A q \in Processes : \A i \in DOMAIN OwnPool(q)' :
              i \in DOMAIN OwnPool(q) /\ OwnPool(q)'[i].socket = OwnPool(q)[i].socket
      BY <1>5, <1>6, <2>2
    <2>5. PoolShape'
      BY <1>1, <1>3, <1>4, <2>2, <2>3, WiresShape DEF PoolShape
    <2>6. OneHolder'
      BY <1>1, <2>3, <2>4, HoldersKept
    <2>7. NothingForeign'
      BY <1>1, <1>3, <2>3, <2>4, <2>5, WiresShape, NothingForeignKept
    <2>8. AnswersAreOwn'
      BY <1>1, <2>3 DEF AnswersAreOwn
    <2> QED
      BY <1>20, <2>5, <2>6, <2>7, <2>8 DEF PoolInv
  <1> QED
    BY <1>7, <1>8

\* Without a change of the pools' entries, the connections stay where they are.
LEMMA PoolsUnchanged ==
    ASSUME UNCHANGED <<idle, mark>>
    PROVE  \A q \in Processes : OwnPool(q)' = OwnPool(q)
  BY DEF OwnPool

LEMMA SendInv ==
    ASSUME PoolInv, NEW t \in Clients, Send(t)
    PROVE  PoolInv'
  <1> DEFINE s == call[t].socket
  <1>1. PoolShape /\ OneHolder /\ NothingForeign /\ Unborn /\ AnswersAreOwn
    BY DEF PoolInv
  <1>2. /\ call[t].step = "ready" /\ call' = [call EXCEPT ![t].step = "sent"]
        /\ unread' = [unread EXCEPT ![s] = Append(unread[s], t)]
        /\ UNCHANGED <<idle, mark, forked, hungUp>>
    BY <1>1 DEF Send
  <1>3. s \in Sockets /\ unread[s] = <<>>
    BY <1>1, <1>2 DEF NothingForeign, Using
  <1>4. Append(unread[s], t) = <<t>> /\ <<t>> \in Seq(Clients)
    BY <1>3
  <1> HIDE DEF s
  <1>5. unread' = [unread EXCEPT ![s] = <<t>>] /\ unread' \in [Sockets -> Seq(Clients)]
        /\ \A r \in Sockets : unread'[r] = IF r = s THEN <<t>> ELSE unread[r]
    BY <1>1, <1>2, <1>3, <1>4 DEF PoolShape
  <1>6. /\ call' \in [Clients -> Calls] /\ call'[t].step = "sent"
        /\ \A u \in Clients : call'[u].socket = call[u].socket /\ call'[u].answer = call[u].answer
        /\ \A u \in Clients : u # t => call'[u] = call[u]
    BY <1>1, <1>2 DEF PoolShape, Calls
  <1>7. PoolShape'
    BY <1>1, <1>2, <1>5, <1>6 DEF PoolShape
  <1>8. \A q \in Processes : OwnPool(q)' = OwnPool(q)
    BY <1>2, PoolsUnchanged
  <1>9. Using(t) /\ call'[t].socket = s /\ call[t].socket = s
    BY <1>2, <1>6 DEF Using, s
  <1>10. OneHolder'
    BY <1>1, <1>6, <1>8, <1>9, HoldersKept
  <1>11. Unheld' = Unheld
    <2>1. Held' = Held
      BY <1>6 DEF Held
    <2> QED
      BY <1>2, <2>1 DEF Unheld
  <1>12. s \notin Unheld
    BY <1>9 DEF Unheld, Held
  <1>13. NothingForeign'
    <2>1. \A r \in Unheld' : unread'[r] = <<>>
      BY <1>1, <1>5, <1>11, <1>12 DEF NothingForeign, Unheld
    <2>2. \A p \in Processes : \A i \in DOMAIN OwnPool(p)' : unread'[OwnPool(p)'[i].socket] = <<>>
      BY <1>1, <1>5, <1>8, <1>9, OwnPoolShape DEF NothingForeign, OneHolder
    <2>3. ASSUME NEW u \in Clients, Using(u)'
          PROVE  /\ call'[u].socket \in Sockets
                 /\ unread'[call'[u].socket] = IF call'[u].step = "sent" THEN <<u>> ELSE <<>>
      <3>1. CASE u = t
        BY <1>3, <1>5, <1>6, <1>9, <3>1
      <3>2. CASE u # t
        <4>1. Using(u) /\ call'[u] = call[u] /\ call[u].socket # s
          BY <1>1, <1>6, <1>9, <2>3, <3>2 DEF OneHolder, Using
        <4> QED
          BY <1>1, <1>5, <4>1 DEF NothingForeign
      <3> QED
        BY <3>1, <3>2
    <2> QED
      BY <2>1, <2>2, <2>3 DEF NothingForeign
  <1>14. AnswersAreOwn'
    BY <1>1, <1>6 DEF AnswersAreOwn
  <1>15. Unborn'
    BY <1>1, <1>2, <1>6, <1>9, UnbornKept DEF Using
  <1> QED
    BY <1>7, <1>10, <1>13, <1>14, <1>15 DEF PoolInv

LEMMA WaitingShape == Waiting \in Calls /\ ~ (Waiting.step \in {"ready", "sent"}) /\ Waiting.answer = NoSocket
  BY DEF Waiting, Calls

LEMMA StaleInv ==
    ASSUME PoolInv, NEW t \in Clients, Stale(t)
    PROVE  PoolInv'
  <1>1. PoolShape /\ OneHolder /\ NothingForeign /\ Unborn /\ AnswersAreOwn
    BY DEF PoolInv
  <1>2. UNCHANGED <<idle, mark, forked>> /\ Wires(unread, hungUp)
    BY DEF Stale
  <1>3. /\ call' \in [Clients -> Calls] /\ call'[t].answer = NoSocket
        /\ Using(t)' => call'[t].step = "ready" /\ call'[t].socket \in Unheld
        /\ \A u \in Clients : u # t => call'[u] = call[u]
    <2>1. CASE Connected(t)
      BY <1>1, <2>1, ConnectedShape
    <2>2. CASE call' = [call EXCEPT ![t] = Waiting]
      BY <1>1, <2>2, WaitingShape DEF PoolShape, Using
    <2> QED
      BY <2>1, <2>2 DEF Stale
  <1>4. \A q \in Processes : OwnPool(q)' = OwnPool(q)
    BY <1>2, PoolsUnchanged
  <1>5. PoolShape'
    BY <1>1, <1>2, <1>3, WiresShape DEF PoolShape
  <1>6. OneHolder'
    BY <1>1, <1>3, <1>4, HoldersKept
  <1>7. NothingForeign'
    BY <1>1, <1>2, <1>3, <1>4, <1>5, WiresShape, NothingForeignKept
  <1>8. AnswersAreOwn'
    BY <1>1, <1>3 DEF AnswersAreOwn
  <1>9. Unborn'
    BY <1>1, <1>2, <1>3, UnbornKept DEF Using, Stale
  <1> QED
    BY <1>5, <1>6, <1>7, <1>8, <1>9 DEF PoolInv

LEMMA AbandonInv ==
    ASSUME PoolInv, NEW t \in Clients, Abandon(t)
    PROVE  PoolInv'
  <1>1. PoolShape /\ OneHolder /\ NothingForeign /\ Unborn /\ AnswersAreOwn
    BY DEF PoolInv
  <1>2. UNCHANGED <<idle, mark, forked>> /\ Wires(unread, hungUp) /\ call' = [call EXCEPT ![t] = Waiting]
    BY DEF Abandon, Abandoned
  <1>3. /\ call' \in [Clients -> Calls] /\ call'[t].answer = NoSocket /\ ~ Using(t)'
        /\ \A u \in Clients : u # t => call'[u] = call[u]
    BY <1>1, <1>2, WaitingShape DEF PoolShape, Using
  <1>4. \A q \in Processes : OwnPool(q)' = OwnPool(q)
    BY <1>2, PoolsUnchanged
  <1>5. PoolShape'
    BY <1>1, <1>2, <1>3, WiresShape DEF PoolShape
  <1>6. OneHolder'
    BY <1>1, <1>3, <1>4, HoldersKept
  <1>7. NothingForeign'
    BY <1>1, <1>2, <1>3, <1>4, <1>5, WiresShape, NothingForeignKept
  <1>8. AnswersAreOwn'
    BY <1>1, <1>3 DEF AnswersAreOwn
  <1>9. Unborn'
    BY <1>1, <1>2, <1>3, UnbornKept DEF Using
  <1> QED
    BY <1>5, <1>6, <1>7, <1>8, <1>9 DEF PoolInv

\* What a thread that has read its answer gives back is put at the end of its own process's
\* list, or nowhere.
LEMMA FreedShape ==
    ASSUME PoolShape, NEW t \in Clients, call[t].socket \in Sockets, mark' = mark,
           idle' = idle \/ idle' = Freed(t)
    PROVE  /\ idle' \in [Processes -> Seq(Entries)]
           /\ \A q \in Processes : \A i \in DOMAIN OwnPool(q)' :
                 \/ i \in DOMAIN OwnPool(q) /\ OwnPool(q)'[i].socket = OwnPool(q)[i].socket
                 \/ q = ProcessOf(t) /\ i = Len(idle[q]) + 1 /\ OwnPool(q)'[i].socket = call[t].socket
  <1> DEFINE p == ProcessOf(t)
             e == [socket |-> call[t].socket, fresh |-> TRUE]
  <1>1. p \in Processes
    BY DEF ProcessOf, Processes
  <1>2. CASE idle' = idle
    BY <1>2 DEF PoolShape, OwnPool
  <1>3. CASE idle' # idle
    <2>1. mark[p] = p /\ idle' = [idle EXCEPT ![p] = Append(idle[p], e)]
      BY <1>3 DEF Freed
    <2>2. e \in Entries /\ e.socket = call[t].socket
      BY DEF Entries
    <2> HIDE DEF p, e
    <2>3. idle[p] \in Seq(Entries)
      BY <1>1 DEF PoolShape
    <2>4. /\ Append(idle[p], e) \in Seq(Entries)
          /\ DOMAIN Append(idle[p], e) = DOMAIN idle[p] \cup {Len(idle[p]) + 1}
          /\ \A i \in DOMAIN idle[p] : Append(idle[p], e)[i] = idle[p][i]
          /\ Append(idle[p], e)[Len(idle[p]) + 1] = e
      BY <2>2, <2>3
    <2>5. /\ idle' \in [Processes -> Seq(Entries)] /\ idle'[p] = Append(idle[p], e)
          /\ \A q \in Processes : q # p => idle'[q] = idle[q]
      BY <1>1, <2>1, <2>4 DEF PoolShape
    <2>6. OwnPool(p)' = Append(OwnPool(p), e) /\ OwnPool(p) = idle[p]
          /\ \A q \in Processes : q # p => OwnPool(q)' = OwnPool(q)
      BY <2>1, <2>5 DEF OwnPool
    <2> QED
      BY <2>2, <2>4, <2>5, <2>6 DEF p
  <1> QED
    BY <1>2, <1>3

LEMMA ReadInv ==
    ASSUME PoolInv, NEW t \in Clients, Read(t)
    PROVE  PoolInv'
  <1> DEFINE s == call[t].socket
  <1>1. PoolShape /\ OneHolder /\ NothingForeign /\ Unborn /\ AnswersAreOwn
    BY DEF PoolInv
  <1>2. /\ call[t].step = "sent" /\ (idle' = idle \/ idle' = Freed(t))
        /\ Wires([unread EXCEPT ![s] = Tail(unread[s])], hungUp)
        /\ UNCHANGED <<mark, forked>>
    BY <1>1 DEF Read
  <1>3. Using(t) /\ s \in Sockets /\ unread[s] = <<t>>
    BY <1>1, <1>2 DEF NothingForeign, Using
  <1>4. PICK redirect \in BOOLEAN :
          /\ redirect => call[t].hops < MaxRedirects
          /\ call' = [call EXCEPT ![t] = [Waiting EXCEPT
                        !.step = IF redirect THEN "redirected" ELSE "idle",
                        !.hops = IF redirect THEN call[t].hops + 1 ELSE 0,
                        !.answer = Head(unread[s])]]
    BY DEF Read
  <1>5. Head(unread[s]) = t /\ Tail(unread[s]) = <<>> /\ <<>> \in Seq(Clients)
    BY <1>3
  <1>6. /\ call' \in [Clients -> Calls] /\ call'[t].answer = t /\ ~ Using(t)'
        /\ \A u \in Clients : u # t => call'[u] = call[u]
    <2> DEFINE place == IF redirect THEN "redirected" ELSE "idle"
               hops == IF redirect THEN call[t].hops + 1 ELSE 0
               new  == [Waiting EXCEPT !.step = place, !.hops = hops, !.answer = t]
    <2>1. place \in {"redirected", "idle"} /\ hops \in Nat
      BY <1>1 DEF PoolShape, Calls
    <2>3. call' = [call EXCEPT ![t] = new]
      BY <1>4, <1>5
    <2> HIDE DEF place, hops
    <2>2. new \in Calls /\ new.answer = t /\ new.step \in {"redirected", "idle"}
      BY <2>1 DEF Waiting, Calls
    <2> HIDE DEF new
    <2> QED
      BY <1>1, <2>2, <2>3 DEF PoolShape, Using
  <1>7. /\ idle' \in [Processes -> Seq(Entries)]
        /\ \A q \in Processes : \A i \in DOMAIN OwnPool(q)' :
              \/ i \in DOMAIN OwnPool(q) /\ OwnPool(q)'[i].socket = OwnPool(q)[i].socket
              \/ q = ProcessOf(t) /\ i = Len(idle[q]) + 1 /\ OwnPool(q)'[i].socket = s
    BY <1>1, <1>2, <1>3, FreedShape
  <1>8. [unread EXCEPT ![s] = Tail(unread[s])] = [unread EXCEPT ![s] = <<>>]
    BY <1>5
  <1> HIDE DEF s
  <1>9. /\ unread' \in [Sockets -> Seq(Clients)] /\ hungUp' \in SUBSET Sockets
        /\ unread'[s] = <<>>
        /\ \A r \in Sockets : r # s => unread'[r] = IF r \in Unheld' THEN <<>> ELSE unread[r]
        /\ \A r \in Sockets : r \in Unheld' => unread'[r] = <<>>
    BY <1>1, <1>2, <1>3, <1>5, <1>8 DEF PoolShape, Wires
  <1>10. PoolShape'
    BY <1>1, <1>2, <1>6, <1>7, <1>9 DEF PoolShape
  <1>11. \A u \in Clients : Using(u)' => u # t /\ Using(u) /\ call'[u] = call[u] /\ call[u].socket # s
    BY <1>1, <1>3, <1>6 DEF Using, OneHolder, s
  <1>12. \A q \in Processes : \A i \in DOMAIN OwnPool(q) : OwnPool(q)[i].socket # s
    BY <1>1, <1>3 DEF OneHolder, s
  <1>13. OneHolder'
    <2>1. \A u, v \in Clients : Using(u)' /\ Using(v)' /\ call'[u].socket = call'[v].socket => u = v
      BY <1>1, <1>11 DEF OneHolder
    <2>2. \A u \in Clients, q \in Processes : Using(u)' =>
              \A i \in DOMAIN OwnPool(q)' : OwnPool(q)'[i].socket # call'[u].socket
      BY <1>1, <1>7, <1>11 DEF OneHolder
    <2>3. \A p, q \in Processes : \A i \in DOMAIN OwnPool(p)', j \in DOMAIN OwnPool(q)' :
              OwnPool(p)'[i].socket = OwnPool(q)'[j].socket => p = q /\ i = j
      BY <1>1, <1>7, <1>12 DEF OneHolder
    <2> QED
      BY <2>1, <2>2, <2>3 DEF OneHolder
  <1>14. NothingForeign'
    <2>1. \A r \in Unheld' : unread'[r] = <<>>
      BY <1>9 DEF Unheld
    <2>2. ASSUME NEW p \in Processes, NEW i \in DOMAIN OwnPool(p)'
          PROVE  unread'[OwnPool(p)'[i].socket] = <<>>
      <3>1. CASE i \in DOMAIN OwnPool(p) /\ OwnPool(p)'[i].socket = OwnPool(p)[i].socket
        <4>1. /\ OwnPool(p)[i].socket \in Sockets /\ OwnPool(p)[i].socket # s
              /\ unread[OwnPool(p)[i].socket] = <<>>
          BY <1>1, <1>12, <3>1, OwnPoolShape DEF NothingForeign
        <4> QED
          BY <1>9, <3>1, <4>1
      <3>2. CASE OwnPool(p)'[i].socket = s
        BY <1>9, <3>2
      <3> QED
        BY <1>7, <3>1, <3>2
    <2>3. ASSUME NEW u \in Clients, Using(u)'
          PROVE  /\ call'[u].socket \in Sockets
                 /\ unread'[call'[u].socket] = IF call'[u].step = "sent" THEN <<u>> ELSE <<>>
      <3>1. u # t /\ Using(u) /\ call'[u] = call[u] /\ call[u].socket # s
        BY <1>11, <2>3
      <3>2. call[u].socket \in Sockets /\ unread[call[u].socket] = IF call[u].step = "sent" THEN <<u>> ELSE <<>>
        BY <1>1, <3>1 DEF NothingForeign
      <3>3. call'[u].socket \notin Unheld'
        BY DEF Unheld, Held
      <3> QED
        BY <1>9, <3>1, <3>2, <3>3
    <2> QED
      BY <2>1, <2>2, <2>3 DEF NothingForeign
  <1>15. AnswersAreOwn'
    BY <1>1, <1>6 DEF AnswersAreOwn
  <1>16. Unborn'
    <2>1. ~ forked => ProcessOf(t) = "parent"
      BY <1>1, <1>3 DEF Unborn, ProcessOf
    <2>2. Freed(t) = idle \/ Freed(t) = [idle EXCEPT ![ProcessOf(t)] = Append(idle[ProcessOf(t)], [socket |-> call[t].socket, fresh |-> TRUE])]
      BY <1>1 DEF Freed, PoolShape, ProcessOf, Processes
    <2>3. ~ forked => idle'["child"] = idle["child"]
      BY <1>1, <1>2, <2>1, <2>2 DEF PoolShape, Processes
    <2> QED
      BY <1>1, <1>2, <1>11, <2>3, UnbornKept
  <1> QED
    BY <1>10, <1>13, <1>14, <1>15, <1>16 DEF PoolInv

\* A fork, a reset and the ageing of a list take entries from the lists that are in use, or
\* leave them alone.
LEMMA ListsOnlyInv ==
    ASSUME PoolInv, call' = call, PoolShape', forked' \/ (~ forked /\ idle'["child"] = idle["child"]),
           \A q \in Processes : \A i \in DOMAIN OwnPool(q)' :
              i \in DOMAIN OwnPool(q) /\ OwnPool(q)'[i].socket = OwnPool(q)[i].socket,
           \A s \in Sockets : unread'[s] = IF s \in Unheld' THEN <<>> ELSE unread[s]
    PROVE  PoolInv'
  <1>1. PoolShape /\ OneHolder /\ NothingForeign /\ Unborn /\ AnswersAreOwn
    BY DEF PoolInv
  <1>2. OneHolder'
    BY <1>1 DEF OneHolder, Using
  <1>3. \A t \in Clients : call[t].socket \notin Unheld'
    BY DEF Unheld, Held
  <1>4. NothingForeign'
    <2>1. \A r \in Unheld' : unread'[r] = <<>>
      BY DEF Unheld
    <2>2. \A p \in Processes : \A i \in DOMAIN OwnPool(p)' : unread'[OwnPool(p)'[i].socket] = <<>>
      BY <1>1, OwnPoolShape DEF NothingForeign
    <2> QED
      BY <1>1, <1>3, <2>1, <2>2 DEF NothingForeign, Using
  <1>5. AnswersAreOwn'
    BY <1>1 DEF AnswersAreOwn
  <1>6. Unborn'
    BY <1>1 DEF Unborn, Using
  <1> QED
    BY <1>2, <1>4, <1>5, <1>6 DEF PoolInv

LEMMA ResetInv ==
    ASSUME PoolInv, NEW p \in Processes, Reset(p)
    PROVE  PoolInv'
  <1>1. /\ PoolShape /\ call' = call /\ Wires(unread, hungUp) /\ forked' = forked
        /\ idle' = [idle EXCEPT ![p] = <<>>] /\ mark' = [mark EXCEPT ![p] = p]
    BY DEF PoolInv, Reset
  <1>2. idle' \in [Processes -> Seq(Entries)] /\ mark' \in [Processes -> Processes] /\ mark'["parent"] = "parent"
    BY <1>1 DEF PoolShape, Processes
  <1>3. PoolShape'
    BY <1>1, <1>2, WiresShape DEF PoolShape
  <1>4. \A q \in Processes : OwnPool(q)' = OwnPool(q) \/ OwnPool(q)' = <<>>
    BY <1>1 DEF OwnPool, PoolShape
  <1>5. forked' \/ (~ forked /\ idle'["child"] = idle["child"])
    BY <1>1 DEF PoolShape, Reset, Processes
  <1> QED
    BY <1>1, <1>3, <1>4, <1>5, WiresShape, ListsOnlyInv

\* The child holds copies of its parent's sockets, but may not use them.
LEMMA ForkInv ==
    ASSUME PoolInv, Fork
    PROVE  PoolInv'
  <1>1. PoolShape /\ UNCHANGED <<unread, hungUp, call>> /\ forked' = TRUE
        /\ idle' = [idle EXCEPT !["child"] = idle["parent"]]
        /\ mark' = [mark EXCEPT !["child"] = mark["parent"]]
    BY DEF PoolInv, Fork
  <1>2. /\ idle' \in [Processes -> Seq(Entries)] /\ mark' \in [Processes -> Processes]
        /\ mark'["parent"] = "parent" /\ mark'["child"] = "parent" /\ idle'["parent"] = idle["parent"]
    BY <1>1 DEF PoolShape, Processes
  <1>3. PoolShape'
    BY <1>1, <1>2 DEF PoolShape
  <1>4. OwnPool("child")' = <<>> /\ OwnPool("parent")' = OwnPool("parent")
    BY <1>1, <1>2 DEF OwnPool, PoolShape
  <1>5. \A q \in Processes : \A i \in DOMAIN OwnPool(q)' :
            i \in DOMAIN OwnPool(q) /\ OwnPool(q)'[i].socket = OwnPool(q)[i].socket
    BY <1>4 DEF Processes
  <1>6. ~ forked /\ idle["child"] = <<>> /\ NothingForeign
    BY DEF Fork, PoolInv, Unborn
  <1>7. \A s \in Sockets : s \in Unheld' => s \in Unheld
    <2>1. \A s \in Sockets : s \in Unheld' =>
              /\ \A t \in Clients : call[t].socket # s
              /\ \A i \in DOMAIN idle["parent"] : idle["parent"][i].socket # s
      <3>1. ToSet(idle'["parent"]) = {idle["parent"][i] : i \in DOMAIN idle["parent"]}
        BY <1>2 DEF ToSet
      <3>2. "parent" \in Processes
        BY DEF Processes
      <3> QED
        BY <1>1, <3>1, <3>2 DEF Unheld, Held
    <2> QED
      BY <1>1, <1>6, <2>1, UnheldMeans DEF Processes
  <1>8. \A s \in Sockets : unread'[s] = IF s \in Unheld' THEN <<>> ELSE unread[s]
    BY <1>1, <1>6, <1>7 DEF NothingForeign
  <1> QED
    BY <1>1, <1>3, <1>5, <1>8, ListsOnlyInv

LEMMA HangUpInv ==
    ASSUME PoolInv, NEW s \in Sockets, HangUp(s)
    PROVE  PoolInv'
  <1>1. PoolShape /\ UNCHANGED <<idle, mark, forked, unread, call>> /\ hungUp' = hungUp \cup {s}
    BY DEF PoolInv, HangUp
  <1>2. PoolShape'
    BY <1>1 DEF PoolShape
  <1>3. \A q \in Processes : OwnPool(q)' = OwnPool(q)
    BY <1>1, PoolsUnchanged
  <1>4. Unheld' = Unheld
    BY <1>1 DEF Unheld, Held
  <1>5. \A r \in Sockets : unread'[r] = IF r \in Unheld' THEN <<>> ELSE unread[r]
    BY <1>1, <1>4 DEF PoolInv, NothingForeign
  <1> QED
    BY <1>1, <1>2, <1>3, <1>5, ListsOnlyInv DEF PoolInv, Unborn

LEMMA GrowOldInv ==
    ASSUME PoolInv, NEW p \in Processes, GrowOld(p)
    PROVE  PoolInv'
  <1> DEFINE older == [i \in DOMAIN idle[p] |-> [idle[p][i] EXCEPT !.fresh = FALSE]]
  <1>1. /\ PoolShape /\ UNCHANGED <<mark, forked, unread, hungUp, call>> /\ idle[p] # <<>>
        /\ idle' = [idle EXCEPT ![p] = older]
    BY DEF PoolInv, GrowOld
  <1>2. idle[p] \in Seq(Entries) /\ DOMAIN idle[p] = 1 .. Len(idle[p]) /\ Len(idle[p]) \in Nat
    BY <1>1 DEF PoolShape
  <1>3. \A i \in DOMAIN idle[p] : /\ [idle[p][i] EXCEPT !.fresh = FALSE] \in Entries
                                  /\ [idle[p][i] EXCEPT !.fresh = FALSE].socket = idle[p][i].socket
    <2>1. \A i \in DOMAIN idle[p] : idle[p][i] \in Entries
      BY <1>2
    <2> QED
      BY <2>1 DEF Entries
  <1>4. /\ older \in Seq(Entries) /\ DOMAIN older = DOMAIN idle[p]
        /\ \A i \in DOMAIN idle[p] : older[i].socket = idle[p][i].socket
    BY <1>2, <1>3
  <1> HIDE DEF older
  <1>5. /\ idle' \in [Processes -> Seq(Entries)] /\ idle'[p] = older
        /\ \A q \in Processes : q # p => idle'[q] = idle[q]
    BY <1>1, <1>4 DEF PoolShape
  <1>6. PoolShape'
    BY <1>1, <1>5 DEF PoolShape
  <1>7. \A q \in Processes : \A i \in DOMAIN OwnPool(q)' :
            i \in DOMAIN OwnPool(q) /\ OwnPool(q)'[i].socket = OwnPool(q)[i].socket
    BY <1>1, <1>4, <1>5 DEF OwnPool
  <1>8. \A q \in Processes : DOMAIN idle'[q] = DOMAIN idle[q]
                             /\ \A i \in DOMAIN idle[q] : idle'[q][i].socket = idle[q][i].socket
    BY <1>4, <1>5
  <1>9. \A s \in Sockets : s \in Unheld' => s \in Unheld
    <2>1. \A s \in Sockets : s \in Unheld' =>
              /\ \A t \in Clients : call[t].socket # s
              /\ \A q \in Processes : \A i \in DOMAIN idle'[q] : idle'[q][i].socket # s
      <3> SUFFICES ASSUME NEW s \in Sockets, s \in Unheld', NEW q \in Processes, NEW i \in DOMAIN idle'[q],
                          idle'[q][i].socket = s
                   PROVE  FALSE
        BY <1>1 DEF Unheld, Held
      <3>1. idle'[q][i] \in ToSet(idle'[q])
        BY DEF ToSet
      <3>2. s \in UNION {{e.socket : e \in ToSet(idle'[r])} : r \in Processes}
        BY <3>1
      <3> QED
        BY <3>2 DEF Unheld
    <2> QED
      BY <1>1, <1>8, <2>1, UnheldMeans
  <1>10. \A s \in Sockets : unread'[s] = IF s \in Unheld' THEN <<>> ELSE unread[s]
    BY <1>1, <1>9 DEF PoolInv, NothingForeign
  <1>11. forked' \/ (~ forked /\ idle'["child"] = idle["child"])
    BY <1>1, <1>5 DEF PoolInv, Unborn, PoolShape, Processes
  <1> QED
    BY <1>1, <1>6, <1>7, <1>10, <1>11, ListsOnlyInv

LEMMA PoolInitInv == PoolInit => PoolInv
  <1> SUFFICES ASSUME PoolInit PROVE PoolInv
    OBVIOUS
  <1>1. /\ idle = [p \in Processes |-> <<>>] /\ mark = [p \in Processes |-> p] /\ forked = FALSE
        /\ unread = [s \in Sockets |-> <<>>] /\ hungUp = {} /\ call = [t \in Clients |-> Waiting]
    BY DEF PoolInit
  <1>2. <<>> \in Seq(Entries) /\ <<>> \in Seq(Clients) /\ "parent" \in Processes /\ "child" \in Processes
    BY DEF Processes
  <1>3. PoolShape
    BY <1>1, <1>2, WaitingShape DEF PoolShape
  <1>4. \A t \in Clients : ~ Using(t) /\ call[t].answer = NoSocket
    BY <1>1, WaitingShape DEF Using
  <1>5. \A p \in Processes : OwnPool(p) = <<>>
    BY <1>1 DEF OwnPool
  <1>6. OneHolder /\ NothingForeign /\ Unborn /\ AnswersAreOwn
    BY <1>1, <1>2, <1>4, <1>5 DEF OneHolder, NothingForeign, Unborn, AnswersAreOwn, Unheld
  <1> QED
    BY <1>3, <1>6 DEF PoolInv

\* Every answer a caller is given belongs to the request it sent, for any number of threads,
\* connections and redirects, and however a fork falls between their steps (_ConnectionPool,
\* urlopen of http_client.py).
THEOREM AnswersBelong == PoolSpec => []AnswersAreOwn
  <1>1. PoolInit => PoolInv
    BY PoolInitInv
  <1>2. PoolInv /\ [PoolNext]_poolvars => PoolInv'
    <2> SUFFICES ASSUME PoolInv, [PoolNext]_poolvars PROVE PoolInv'
      OBVIOUS
    <2>1. CASE PoolNext
      BY <2>1, AcquireInv, SendInv, StaleInv, AbandonInv, ReadInv, ResetInv, GrowOldInv, ForkInv, HangUpInv DEF PoolNext
    <2>2. CASE UNCHANGED poolvars
      <3>1. UNCHANGED <<idle, mark, forked, unread, hungUp, call>>
        BY <2>2 DEF poolvars
      <3>2. PoolShape' /\ AnswersAreOwn'
        BY <3>1 DEF PoolInv, PoolShape, AnswersAreOwn
      <3>3. \A q \in Processes : OwnPool(q)' = OwnPool(q)
        BY <3>1, PoolsUnchanged
      <3>4. Unheld' = Unheld
        BY <3>1 DEF Unheld, Held
      <3>5. \A r \in Sockets : unread'[r] = IF r \in Unheld' THEN <<>> ELSE unread[r]
        BY <3>1, <3>4 DEF PoolInv, NothingForeign
      <3> QED
        BY <3>1, <3>2, <3>3, <3>5, ListsOnlyInv DEF PoolInv, PoolShape
    <2> QED
      BY <2>1, <2>2
  <1>3. PoolInv => AnswersAreOwn
    BY DEF PoolInv
  <1> QED
    BY <1>1, <1>2, <1>3, PTL DEF PoolSpec

(***************************************************************************)
(* The legacy search (_execute_search_request_core)                         *)
(***************************************************************************)
SearchFields == {"step", "ask", "todo", "enough", "failed", "got", "answer"}

\* A search knows what it was asked for while it looks into the cache; its contributors are
\* a sequence; its answer names one of them.
SearchSane(s) ==
    /\ DOMAIN search[s] = SearchFields
    /\ search[s].step = "look" => search[s].ask \in Requests[s]
    /\ search[s].got \in Seq(ToSet(search[s].got))
    /\ search[s].answer # Nobody => search[s].answer.routed \in search[s].answer.from

\* A cached result lies under the name of a provider that contributed to it.
SavedSane == \A p \in Providers : saved[p] # Nobody => p \in saved[p].from

\* What a search has read of the health file is a health file.
LoadedSane ==
    /\ DOMAIN loaded = Searchers
    /\ \A s \in Searchers : loaded[s] # Nobody => DOMAIN loaded[s].file = Providers

LegacyInv ==
    /\ DOMAIN health = Providers /\ DOMAIN saved = Providers
    /\ DOMAIN search = Searchers /\ LoadedSane
    /\ SavedSane
    /\ \A s \in Searchers : SearchSane(s)

\* All threads run in one process, so that they share its lock.
OneProcess == \A s, t \in Searchers : HomeOf[s] = HomeOf[t]

\* Who has read the health file holds the lock, and the file has not changed since; who could
\* not read it takes it for an empty one.
HealthLocked ==
    /\ \A s, t \in Searchers : loaded[s] # Nobody /\ loaded[t] # Nobody => s = t
    /\ \A s \in Searchers : loaded[s] # Nobody => loaded[s].file = IF loaded[s].known THEN health ELSE NoneFailed

-----------------------------------------------------------------------------
\* A sequence that grows is a sequence, and its last element is one of its elements.
LEMMA GrownSequence ==
    ASSUME NEW q, q \in Seq(ToSet(q)), NEW e
    PROVE  Append(q, e) \in Seq(ToSet(Append(q, e)))
  <1>1. q \in Seq(ToSet(q) \cup {e})
    OBVIOUS
  <1>2. Append(q, e) \in Seq(ToSet(q) \cup {e}) /\ DOMAIN Append(q, e) = DOMAIN q \cup {Len(q) + 1}
        /\ Append(q, e)[Len(q) + 1] = e /\ \A i \in DOMAIN q : Append(q, e)[i] = q[i]
    BY <1>1
  <1>3. ToSet(Append(q, e)) = ToSet(q) \cup {e}
    BY <1>2 DEF ToSet
  <1> QED
    BY <1>2, <1>3

LEMMA LastIsElement ==
    ASSUME NEW q, q \in Seq(ToSet(q)), q # <<>>
    PROVE  Last(q) \in ToSet(q)
  <1>1. Len(q) \in DOMAIN q
    OBVIOUS
  <1> QED
    BY <1>1 DEF Last, ToSet

LEMMA NoSearchSane == /\ DOMAIN NoSearch = SearchFields /\ NoSearch.got \in Seq(ToSet(NoSearch.got))
                      /\ NoSearch.step = "idle" /\ NoSearch.answer = Nobody /\ NoSearch.got = <<>>
  <1>1. ToSet(<<>>) = {} /\ <<>> \in Seq({})
    BY DEF ToSet
  <1> QED
    BY <1>1 DEF NoSearch, SearchFields

\* What a step of one search does to the others, and to a cache it leaves alone: nothing.
LEMMA OneSearchMoves ==
    ASSUME LegacyInv, NEW s \in Searchers, NEW new, search' = [search EXCEPT ![s] = new],
           DOMAIN health' = Providers, DOMAIN saved' = Providers, LoadedSane',
           SavedSane',
           DOMAIN new = SearchFields, new.step = "look" => new.ask \in Requests[s],
           new.got \in Seq(ToSet(new.got)), new.answer # Nobody => new.answer.routed \in new.answer.from
    PROVE  LegacyInv'
  <1>1. DOMAIN search' = Searchers /\ search'[s] = new /\ \A t \in Searchers : t # s => search'[t] = search[t]
    BY DEF LegacyInv
  <1>2. ASSUME NEW t \in Searchers PROVE SearchSane(t)'
    <2>1. CASE t = s
      BY <1>1, <2>1 DEF SearchSane
    <2>2. CASE t # s
      <3>1. search'[t] = search[t] /\ SearchSane(t)
        BY <1>1, <2>2 DEF LegacyInv
      <3> QED
        BY <3>1 DEF SearchSane
    <2> QED
      BY <2>1, <2>2
  <1> QED
    BY <1>1, <1>2 DEF LegacyInv

LEMMA BeginSearchInv ==
    ASSUME LegacyInv, NEW s \in Searchers, BeginSearch(s)
    PROVE  LegacyInv'
  <1>1. PICK ask \in Requests[s], unread1 \in SUBSET Providers :
            search' = [search EXCEPT ![s] = [NoSearch EXCEPT
                       !.step = IF ask.cached THEN "look" ELSE "ask", !.ask = ask,
                       !.todo = Eligible(Order(ask), unread1)]]
    BY DEF BeginSearch
  <1>2. UNCHANGED <<health, saved, loaded>>
    BY DEF BeginSearch
  <1> DEFINE place == IF ask.cached THEN "look" ELSE "ask"
             todo == Eligible(Order(ask), unread1)
             new  == [NoSearch EXCEPT !.step = place, !.ask = ask, !.todo = todo]
  <1>3. search' = [search EXCEPT ![s] = new]
    BY <1>1
  <1> HIDE DEF place, todo
  <1>4. DOMAIN new = SearchFields /\ new.ask = ask /\ new.got = NoSearch.got /\ new.answer = NoSearch.answer
    BY NoSearchSane DEF SearchFields
  <1> HIDE DEF new
  <1>5. SavedSane'
    BY <1>2 DEF LegacyInv, LoadedSane, SavedSane
  <1> QED
    BY <1>2, <1>3, <1>4, <1>5, NoSearchSane, OneSearchMoves DEF LegacyInv, LoadedSane

LEMMA ReplySane ==
    ASSUME LegacyInv, NEW s \in Searchers, NEW routed, NEW from, Reply(s, routed, from), routed \in from,
           DOMAIN health' = Providers, DOMAIN saved' = Providers, LoadedSane', SavedSane'
    PROVE  LegacyInv'
  <1> DEFINE answer1 == [ask |-> search[s].ask, routed |-> routed, from |-> from]
             new == [NoSearch EXCEPT !.answer = answer1]
  <1>1. search' = [search EXCEPT ![s] = new]
    BY DEF Reply
  <1>2. answer1.routed \in answer1.from
    OBVIOUS
  <1> HIDE DEF answer1
  <1>3. DOMAIN new = SearchFields /\ new.step = "idle" /\ new.got = NoSearch.got /\ new.answer = answer1
    BY NoSearchSane DEF SearchFields
  <1> HIDE DEF new
  <1> QED
    BY <1>1, <1>2, <1>3, NoSearchSane, OneSearchMoves

\* A step that changes the stage of a search, and nothing its invariant speaks of.
LEMMA DoingSane ==
    ASSUME LegacyInv, NEW s \in Searchers, NEW place, place # "look", Doing(s, place),
           DOMAIN health' = Providers, DOMAIN saved' = Providers, LoadedSane', SavedSane'
    PROVE  LegacyInv'
  <1> DEFINE new == [search[s] EXCEPT !.step = place]
  <1>1. search' = [search EXCEPT ![s] = new]
    BY DEF Doing
  <1>2. SearchSane(s)
    BY DEF LegacyInv
  <1>3. DOMAIN new = SearchFields /\ new.step = place /\ new.got = search[s].got /\ new.answer = search[s].answer
    BY <1>2 DEF SearchSane, SearchFields
  <1> HIDE DEF new
  <1> QED
    BY <1>1, <1>2, <1>3, OneSearchMoves DEF SearchSane

LEMMA LookUpInv ==
    ASSUME LegacyInv, NEW s \in Searchers, LookUp(s)
    PROVE  LegacyInv'
  <1> DEFINE key == Primary(search[s].ask)
             hit == saved[key]
  <1>1. search[s].step = "look" /\ UNCHANGED <<health, saved, loaded>>
    BY DEF LookUp, InSearch
  <1>2. key \in Providers
    BY <1>1, LegacyAssumption DEF LegacyInv, SearchSane
  <1>3. SavedSane'
    BY <1>1 DEF LegacyInv, LoadedSane, SavedSane
  <1>4. \/ Doing(s, "ask") \/ Doing(s, "expire") \/ (hit # Nobody /\ Reply(s, key, hit.from))
    BY DEF LookUp
  <1>5. hit # Nobody => key \in hit.from
    BY <1>2 DEF LegacyInv, LoadedSane, SavedSane
  <1> HIDE DEF key, hit
  <1> QED
    BY <1>1, <1>3, <1>4, <1>5, DoingSane, ReplySane DEF LegacyInv, LoadedSane

LEMMA ExpireInv ==
    ASSUME LegacyInv, NEW s \in Searchers, Expire(s)
    PROVE  LegacyInv'
  <1>1. /\ Doing(s, "ask") /\ UNCHANGED <<health, loaded>>
        /\ saved' = [saved EXCEPT ![Primary(search[s].ask)] = Nobody]
    BY DEF Expire
  <1>2. DOMAIN saved' = Providers /\ SavedSane'
    BY <1>1 DEF LegacyInv, LoadedSane, SavedSane
  <1> QED
    BY <1>1, <1>2, DoingSane DEF LegacyInv, LoadedSane

LEMMA AskProviderInv ==
    ASSUME LegacyInv, NEW s \in Searchers, AskProvider(s)
    PROVE  LegacyInv'
  <1>1. UNCHANGED <<health, saved, loaded>>
    BY DEF AskProvider
  <1>2. DOMAIN health' = Providers /\ DOMAIN saved' = Providers /\ LoadedSane' /\ SavedSane'
    BY <1>1 DEF LegacyInv, LoadedSane, SavedSane
  <1>3. SearchSane(s) /\ search[s].step = "ask"
    BY DEF LegacyInv, AskProvider, InSearch
  <1>4. CASE Doing(s, "mark")
    BY <1>2, <1>4, DoingSane
  <1>5. CASE search' = [search EXCEPT ![s].todo = Tail(@), ![s].failed = TRUE]
    <2> DEFINE rest == Tail(search[s].todo)
               new  == [search[s] EXCEPT !.todo = rest, !.failed = TRUE]
    <2>1. search' = [search EXCEPT ![s] = new]
      BY <1>3, <1>5 DEF LegacyInv, SearchSane, SearchFields
    <2> HIDE DEF rest
    <2>2. DOMAIN new = SearchFields /\ new.step = search[s].step /\ new.got = search[s].got
          /\ new.answer = search[s].answer
      BY <1>3 DEF SearchSane, SearchFields
    <2> HIDE DEF new
    <2> QED
      BY <1>2, <1>3, <2>1, <2>2, OneSearchMoves DEF SearchSane
  <1>6. ASSUME NEW enough \in BOOLEAN, search' = [search EXCEPT ![s].step = "reset", ![s].enough = enough]
        PROVE  LegacyInv'
    <2> DEFINE new  == [search[s] EXCEPT !.step = "reset", !.enough = enough]
    <2>1. search' = [search EXCEPT ![s] = new]
      BY <1>3, <1>6 DEF LegacyInv, SearchSane, SearchFields
    <2>2. DOMAIN new = SearchFields /\ new.step = "reset" /\ new.got = search[s].got
          /\ new.answer = search[s].answer
      BY <1>3 DEF SearchSane, SearchFields
    <2> HIDE DEF new
    <2> QED
      BY <1>2, <1>3, <2>1, <2>2, OneSearchMoves DEF SearchSane
  <1> QED
    BY <1>4, <1>5, <1>6 DEF AskProvider

\* Reading the health file, and the clock, touch neither searches nor the cache.
LEMMA SearchesUntouched ==
    ASSUME LegacyInv, search' = search, DOMAIN health' = Providers, DOMAIN saved' = Providers,
           LoadedSane', SavedSane'
    PROVE  LegacyInv'
  BY DEF LegacyInv, SearchSane

LEMMA LoadInv ==
    ASSUME LegacyInv, NEW s \in Searchers, Load(s)
    PROVE  LegacyInv'
  <1>1. /\ UNCHANGED <<health, saved, search>>
        /\ \/ loaded' = [loaded EXCEPT ![s] = [file |-> health, known |-> TRUE]]
           \/ loaded' = [loaded EXCEPT ![s] = [file |-> NoneFailed, known |-> FALSE]]
    BY DEF Load
  <1>2. SavedSane'
    BY <1>1 DEF LegacyInv, LoadedSane, SavedSane
  <1>3. DOMAIN health = Providers /\ DOMAIN NoneFailed = Providers
    BY DEF LegacyInv, NoneFailed
  <1>4. LoadedSane'
    BY <1>1, <1>3 DEF LegacyInv, LoadedSane
  <1> QED
    BY <1>1, <1>2, <1>4, SearchesUntouched DEF LegacyInv

LEMMA MarkFailureInv ==
    ASSUME LegacyInv, NEW s \in Searchers, MarkFailure(s)
    PROVE  LegacyInv'
  <1>1. loaded[s] # Nobody /\ saved' = saved /\ loaded' = [loaded EXCEPT ![s] = Nobody]
    BY DEF MarkFailure
  <1>2. DOMAIN loaded[s].file = Providers
    BY <1>1 DEF LegacyInv, LoadedSane
  <1>3. DOMAIN saved' = Providers /\ LoadedSane' /\ SavedSane'
    BY <1>1 DEF LegacyInv, LoadedSane, SavedSane
  <1>4. SearchSane(s) /\ DOMAIN health = Providers
    BY DEF LegacyInv
  <1>5. CASE health' = health /\ search' = [search EXCEPT ![s] = NoSearch]
    BY <1>3, <1>4, <1>5, NoSearchSane, OneSearchMoves
  <1>6. ASSUME NEW wait \in {0, Last(Ladder)},
               health' = [loaded[s].file EXCEPT ![Head(search[s].todo)] = Failed(@, wait)],
               search' = [search EXCEPT ![s].step = "ask", ![s].todo = Tail(@), ![s].failed = TRUE]
        PROVE  LegacyInv'
    <2>1. DOMAIN health' = Providers
      BY <1>2, <1>6
    <2> DEFINE rest == Tail(search[s].todo)
               new  == [search[s] EXCEPT !.step = "ask", !.todo = rest, !.failed = TRUE]
    <2>2. search' = [search EXCEPT ![s] = new]
      BY <1>4, <1>6 DEF LegacyInv, SearchSane, SearchFields
    <2> HIDE DEF rest
    <2>3. DOMAIN new = SearchFields /\ new.step = "ask" /\ new.got = search[s].got
          /\ new.answer = search[s].answer
      BY <1>4 DEF SearchSane, SearchFields
    <2> HIDE DEF new
    <2> QED
      BY <1>3, <1>4, <2>1, <2>2, <2>3, OneSearchMoves DEF SearchSane
  <1> QED
    BY <1>5, <1>6 DEF MarkFailure

LEMMA ResetHealthInv ==
    ASSUME LegacyInv, NEW s \in Searchers, ResetHealth(s)
    PROVE  LegacyInv'
  <1> DEFINE p == Head(search[s].todo)
  <1>1. loaded[s] # Nobody /\ saved' = saved /\ loaded' = [loaded EXCEPT ![s] = Nobody]
    BY DEF ResetHealth
  <1>2. DOMAIN loaded[s].file = Providers
    BY <1>1 DEF LegacyInv, LoadedSane
  <1>3. DOMAIN saved' = Providers /\ LoadedSane' /\ SavedSane'
    BY <1>1 DEF LegacyInv, LoadedSane, SavedSane
  <1>4. SearchSane(s) /\ DOMAIN health = Providers
    BY DEF LegacyInv
  <1>5. CASE health' = health /\ Doing(s, "mark")
    BY <1>3, <1>4, <1>5, DoingSane
  <1>6. CASE /\ health' = health \/ health' = [loaded[s].file EXCEPT ![p] = NotFailed]
             /\ search' = [search EXCEPT ![s].step = "ask", ![s].got = Append(@, p), ![s].enough = FALSE,
                             ![s].todo = IF search[s].enough \/ ~search[s].failed THEN <<>> ELSE Tail(@)]
    <2>1. DOMAIN health' = Providers
      BY <1>2, <1>4, <1>6
    <2> DEFINE rest == IF search[s].enough \/ ~search[s].failed THEN <<>> ELSE Tail(search[s].todo)
               more == Append(search[s].got, p)
               new  == [search[s] EXCEPT !.step = "ask", !.got = more, !.enough = FALSE, !.todo = rest]
    <2>2. search' = [search EXCEPT ![s] = new]
      BY <1>4, <1>6 DEF LegacyInv, SearchSane, SearchFields
    <2>3. more \in Seq(ToSet(more))
      BY <1>4, GrownSequence DEF SearchSane
    <2> HIDE DEF rest, more
    <2>4. DOMAIN new = SearchFields /\ new.step = "ask" /\ new.got = more /\ new.answer = search[s].answer
      BY <1>4 DEF SearchSane, SearchFields
    <2> HIDE DEF new
    <2> QED
      BY <1>3, <1>4, <2>1, <2>2, <2>3, <2>4, OneSearchMoves DEF SearchSane
  <1>7. \/ health' = health /\ Doing(s, "mark")
        \/ /\ health' = health \/ health' = [loaded[s].file EXCEPT ![p] = NotFailed]
           /\ search' = [search EXCEPT ![s].step = "ask", ![s].got = Append(@, p), ![s].enough = FALSE,
                           ![s].todo = IF search[s].enough \/ ~search[s].failed THEN <<>> ELSE Tail(@)]
    BY DEF ResetHealth
  <1> QED
    BY <1>5, <1>6, <1>7

LEMMA FinishSearchInv ==
    ASSUME LegacyInv, NEW s \in Searchers, FinishSearch(s)
    PROVE  LegacyInv'
  <1> DEFINE got == search[s].got
  <1>1. UNCHANGED <<health, loaded>> /\ SearchSane(s)
    BY DEF FinishSearch, LegacyInv
  <1>2. CASE got = <<>>
    <2>1. search' = [search EXCEPT ![s] = NoSearch] /\ saved' = saved
      BY <1>2 DEF FinishSearch
    <2>2. SavedSane'
      BY <2>1 DEF LegacyInv, LoadedSane, SavedSane
    <2> QED
      BY <1>1, <2>1, <2>2, NoSearchSane, OneSearchMoves DEF LegacyInv, LoadedSane
  <1>3. CASE got # <<>>
    <2> DEFINE kept == [from |-> ToSet(got), stamp |-> time]
    <2>1. Reply(s, Last(got), ToSet(got)) /\ (saved' = saved \/ saved' = [saved EXCEPT ![Last(got)] = kept])
      BY <1>3 DEF FinishSearch, SavedUnder
    <2>2. Last(got) \in ToSet(got)
      BY <1>1, <1>3, LastIsElement DEF SearchSane
    <2>3. kept.from = ToSet(got)
      OBVIOUS
    <2> HIDE DEF kept
    <2>4. DOMAIN saved' = Providers /\ SavedSane'
      BY <2>1, <2>2, <2>3 DEF LegacyInv, LoadedSane, SavedSane
    <2> QED
      BY <1>1, <2>1, <2>2, <2>4, ReplySane DEF LegacyInv, LoadedSane
  <1> QED
    BY <1>2, <1>3

-----------------------------------------------------------------------------
\* Under one lock, a reader's copy of the health file is the file.
LEMMA HealthLockedStep ==
    ASSUME OneProcess, LegacyInv, HealthLocked, [LegacyNext]_legacyvars
    PROVE  HealthLocked'
  <1>1. CASE UNCHANGED <<health, loaded>>
    BY <1>1 DEF HealthLocked
  <1>2. ASSUME NEW s \in Searchers, Load(s) PROVE HealthLocked'
    <2>1. health' = health /\ \A t \in Searchers : loaded[t] = Nobody
      BY <1>2 DEF Load, LockFree, OneProcess
    <2>2. PICK new : /\ loaded' = [loaded EXCEPT ![s] = new]
                     /\ new.file = IF new.known THEN health ELSE NoneFailed
      <3>1. /\ [file |-> health, known |-> TRUE].file = health /\ [file |-> health, known |-> TRUE].known = TRUE
            /\ [file |-> NoneFailed, known |-> FALSE].file = NoneFailed
            /\ [file |-> NoneFailed, known |-> FALSE].known = FALSE
        OBVIOUS
      <3> QED
        BY <1>2, <3>1 DEF Load
    <2>3. NoneFailed' = NoneFailed
      BY DEF NoneFailed
    <2> QED
      BY <2>1, <2>2, <2>3 DEF LegacyInv, LoadedSane, HealthLocked
  <1>3. ASSUME NEW s \in Searchers, MarkFailure(s) \/ ResetHealth(s) PROVE HealthLocked'
    <2>1. loaded[s] # Nobody /\ loaded' = [loaded EXCEPT ![s] = Nobody]
      BY <1>3 DEF MarkFailure, ResetHealth
    <2>2. \A t \in Searchers : loaded'[t] = Nobody
      BY <2>1 DEF LegacyInv, LoadedSane, HealthLocked
    <2> QED
      BY <2>2 DEF HealthLocked
  <1>4. LegacyNext => \/ UNCHANGED <<health, loaded>>
                      \/ \E s \in Searchers : Load(s) \/ MarkFailure(s) \/ ResetHealth(s)
    BY DEF LegacyNext, BeginSearch, LookUp, Expire, AskProvider, FinishSearch, ClearCache, LegacyTick
  <1>5. UNCHANGED legacyvars => UNCHANGED <<health, loaded>>
    BY DEF legacyvars
  <1> QED
    BY <1>1, <1>2, <1>3, <1>4, <1>5

LEMMA LegacyStepInv ==
    ASSUME LegacyInv, [LegacyNext]_legacyvars
    PROVE  LegacyInv'
  <1>1. CASE ClearCache
    <2>1. SavedSane' /\ DOMAIN saved' = Providers /\ UNCHANGED <<health, search, loaded>>
      BY <1>1 DEF ClearCache, SavedSane
    <2> QED
      BY <2>1, SearchesUntouched DEF LegacyInv, LoadedSane
  <1>2. CASE LegacyTick \/ UNCHANGED legacyvars
    <2>1. UNCHANGED <<health, saved, search, loaded>>
      BY <1>2 DEF LegacyTick, legacyvars
    <2> QED
      BY <2>1, SearchesUntouched DEF LegacyInv, LoadedSane, LoadedSane, SavedSane
  <1>3. ASSUME NEW s \in Searchers,
               \/ BeginSearch(s) \/ LookUp(s) \/ Expire(s) \/ AskProvider(s)
               \/ Load(s) \/ MarkFailure(s) \/ ResetHealth(s) \/ FinishSearch(s)
        PROVE  LegacyInv'
    BY <1>3, BeginSearchInv, LookUpInv, ExpireInv, AskProviderInv, LoadInv, MarkFailureInv, ResetHealthInv, FinishSearchInv
  <1> QED
    BY <1>1, <1>2, <1>3 DEF LegacyNext

LEMMA LegacyInitInv == LegacyInit => LegacyInv /\ HealthLocked
  <1> SUFFICES ASSUME LegacyInit PROVE LegacyInv /\ HealthLocked
    OBVIOUS
  <1>1. /\ health = NoneFailed /\ saved = [p \in Providers |-> Nobody]
        /\ search = [s \in Searchers |-> NoSearch] /\ loaded = [s \in Searchers |-> Nobody]
    BY DEF LegacyInit
  <1>2. \A s \in Searchers : SearchSane(s)
    BY <1>1, NoSearchSane DEF SearchSane
  <1> QED
    BY <1>1, <1>2 DEF LegacyInv, LoadedSane, SavedSane, HealthLocked, NoneFailed

\* One row of the health file differs after a step, and counts on from what it was.
OneRowChanged ==
    \E p \in Providers :
       /\ \A q \in Providers \ {p} : health'[q] = health[q]
       /\ health'[p] # health[p] =>
             health'[p] = NotFailed \/ \E wait \in {0, Last(Ladder)} : health'[p] = Failed(health[p], wait)

\* One step of the health file, under the lock: one row, or all of them by a thread that
\* could not read the file.
LEMMA OneRowMoves ==
    ASSUME OneProcess, LegacyInv, HealthLocked, [LegacyNext]_legacyvars
    PROVE  OneRowChanged \/ \E s \in Searchers : Wiped(s)
  <1>1. PICK p0 \in Providers : TRUE
    BY LegacyAssumption
  <1>2. health' = health => OneRowChanged
    BY <1>1 DEF OneRowChanged
  <1>3. ASSUME NEW p, NEW row, health' = [health EXCEPT ![p] = row],
               row = NotFailed \/ \E wait \in {0, Last(Ladder)} : row = Failed(health[p], wait)
        PROVE  OneRowChanged
    <2>1. DOMAIN health = Providers
      BY DEF LegacyInv
    <2>2. CASE p \in Providers
      BY <1>3, <2>1, <2>2 DEF OneRowChanged
    <2>3. CASE p \notin Providers
      <3>1. \A q \in Providers : health'[q] = health[q]
        BY <1>3, <2>1, <2>3
      <3> QED
        BY <1>1, <3>1 DEF OneRowChanged
    <2> QED
      BY <2>2, <2>3
  <1>4. ASSUME NEW s \in Searchers, MarkFailure(s), health' # health
        PROVE  OneRowChanged \/ Wiped(s)
    <2>1. search[s].step = "mark" /\ loaded[s] # Nobody
      BY <1>4 DEF MarkFailure, InSearch
    <2>2. PICK wait \in {0, Last(Ladder)} :
              health' = [loaded[s].file EXCEPT ![Head(search[s].todo)] = Failed(@, wait)]
      BY <1>4 DEF MarkFailure
    <2>3. CASE loaded[s].known
      <3>1. loaded[s].file = health
        BY <2>1, <2>3 DEF HealthLocked
      <3> QED
        BY <1>3, <2>2, <3>1
    <2>4. CASE ~loaded[s].known
      <3>1. loaded[s].file = NoneFailed
        BY <2>1, <2>4 DEF HealthLocked
      <3> QED
        BY <2>1, <2>2, <2>4, <3>1 DEF Wiped
    <2> QED
      BY <2>3, <2>4
  <1>5. ASSUME NEW s \in Searchers, ResetHealth(s), health' # health
        PROVE  OneRowChanged
    <2> DEFINE p == Head(search[s].todo)
    <2>1. loaded[s] # Nobody /\ health' = [loaded[s].file EXCEPT ![p] = NotFailed] /\ loaded[s].known
      BY <1>5 DEF ResetHealth, ToForget
    <2>2. loaded[s].file = health
      BY <2>1 DEF HealthLocked
    <2> QED
      BY <1>3, <2>1, <2>2
  <1>6. LegacyNext => health' = health \/ \E s \in Searchers : MarkFailure(s) \/ ResetHealth(s)
    BY DEF LegacyNext, BeginSearch, LookUp, Expire, AskProvider, FinishSearch, ClearCache, LegacyTick, Load
  <1>7. UNCHANGED legacyvars => health' = health
    BY DEF legacyvars
  <1> QED
    BY <1>2, <1>4, <1>5, <1>6, <1>7

LEMMA LegacyInvariant == LegacySpec => []LegacyInv
  <1>1. LegacyInit => LegacyInv
    BY LegacyInitInv
  <1>2. LegacyInv /\ [LegacyNext]_legacyvars => LegacyInv'
    BY LegacyStepInv
  <1> QED
    BY <1>1, <1>2, PTL DEF LegacySpec

\* The provider an answer's routing names has contributed to it, for any number of processes,
\* threads, requests and providers (_execute_search_request_core, cache_get).
THEOREM RoutingIsTrue == LegacySpec => []RoutingNamesContributor
  <1>1. LegacyInv => RoutingNamesContributor
    BY DEF LegacyInv, SearchSane, RoutingNamesContributor
  <1> QED
    BY <1>1, LegacyInvariant, PTL

LEMMA LockInvariant == OneProcess /\ LegacySpec => [](LegacyInv /\ HealthLocked)
  <1> SUFFICES ASSUME OneProcess PROVE LegacySpec => [](LegacyInv /\ HealthLocked)
    OBVIOUS
  <1>1. LegacyInit => LegacyInv /\ HealthLocked
    BY LegacyInitInv
  <1>2. (LegacyInv /\ HealthLocked) /\ [LegacyNext]_legacyvars => (LegacyInv /\ HealthLocked)'
    BY LegacyStepInv, HealthLockedStep
  <1> QED
    BY <1>1, <1>2, PTL DEF LegacySpec

\* Between the threads of a process a write of the health file changes one provider and counts
\* on from what the file holds (_HEALTH_LOCK); what it holds of the others is lost only to a
\* thread that could not read the file (_load_provider_health returns {} then).
THEOREM NoUpdateIsLost == OneProcess /\ LegacySpec => NoLostUpdate
  <1> SUFFICES ASSUME OneProcess PROVE LegacySpec => NoLostUpdate
    OBVIOUS
  <1>1. LegacyInv /\ HealthLocked /\ [LegacyNext]_legacyvars =>
            [OneRowChanged \/ \E s \in Searchers : Wiped(s)]_legacyvars
    BY OneRowMoves
  <1>2. LegacySpec => [](LegacyInv /\ HealthLocked)
    BY LockInvariant
  <1> QED
    BY <1>1, <1>2, PTL DEF LegacySpec, NoLostUpdate, OneRowChanged

(***************************************************************************)
(* The store of full texts (bounded_context_v3.py)                          *)
(***************************************************************************)
TextSteps == {"idle", "guard", "decide", "publish", "verify", "sweep", "list"}
Storing   == [step : TextSteps, text : Texts \cup {NoText}, todo : SUBSET Texts, seen : SUBSET (Nat \X Texts)]

TextShape ==
    /\ entry \in [Texts -> [kind : {"none", "ours", "foreign"}, age : Nat]]
    /\ temps \in [Storers -> {"none", "young", "old"}]
    /\ storing \in [Storers -> Storing]
    /\ reading \in Texts \cup {NoText}
    /\ unswept \in BOOLEAN
    /\ \A w \in Storers : storing[w].step # "idle" => storing[w].text \in Texts

\* Entries whose writer has not yet to list them.
Unlisted == {storing[w].text : w \in {v \in Storers : storing[v].step \in {"verify", "sweep"}}}
Settled  == OwnTexts \ Unlisted

\* What a storer that lists has still to look at, or counts.
Covered(w) == storing[w].todo \cup {a[2] : a \in storing[w].seen}

\* The settled entries fit, or one storer will make them fit.
Swept ==
    \/ unswept
    \/ TextBytes(Settled) <= MaxTextBytes
    \/ \E w \in Storers : storing[w].step = "list" /\ Settled \subseteq Covered(w)

TextInv == TextShape /\ Swept

-----------------------------------------------------------------------------
LEMMA TextBytesFinite ==
    ASSUME NEW S \in SUBSET Texts
    PROVE  IsFiniteSet(UNION {{k} \X (1 .. TextSize[k]) : k \in S})
  <1> DEFINE part == [k \in S |-> {k} \X (1 .. TextSize[k])]
             parts == {{k} \X (1 .. TextSize[k]) : k \in S}
  <1>1. IsFiniteSet(S)
    BY TextAssumption, FS_Subset
  <1>2. IsFiniteSet(parts)
    <2>1. part \in Surjection(S, parts)
      BY DEF Surjection
    <2> QED
      BY <1>1, <2>1, FS_Surjection
  <1>3. \A b \in parts : IsFiniteSet(b)
    <2> SUFFICES ASSUME NEW k \in S
                 PROVE  IsFiniteSet({k} \X (1 .. TextSize[k]))
      OBVIOUS
    <2>1. IsFiniteSet({k})
      BY FS_Singleton
    <2>2. TextSize[k] \in Int
      BY TextAssumption
    <2>3. IsFiniteSet(1 .. TextSize[k])
      BY <2>2, FS_Interval
    <2> QED
      BY <2>1, <2>3, FS_Product
  <1> QED
    BY <1>2, <1>3, FS_UNION

\* Fewer entries are no larger.
LEMMA TextBytesMonotone ==
    ASSUME NEW S, NEW T \in SUBSET Texts, S \subseteq T
    PROVE  TextBytes(S) \in Nat /\ TextBytes(T) \in Nat /\ TextBytes(S) <= TextBytes(T)
  <1>1. /\ IsFiniteSet(UNION {{k} \X (1 .. TextSize[k]) : k \in T})
        /\ IsFiniteSet(UNION {{k} \X (1 .. TextSize[k]) : k \in S})
    BY TextBytesFinite
  <1>2. UNION {{k} \X (1 .. TextSize[k]) : k \in S} \subseteq UNION {{k} \X (1 .. TextSize[k]) : k \in T}
    OBVIOUS
  <1> QED
    BY <1>1, <1>2, FS_Subset, FS_CardinalityType DEF TextBytes

LEMMA TextBytesOfNothing == TextBytes({}) = 0
  <1>1. UNION {{k} \X (1 .. TextSize[k]) : k \in {}} = {}
    OBVIOUS
  <1> QED
    BY <1>1, FS_EmptySet DEF TextBytes

\* A step that settles nothing new, and after which every storer that lists still covers
\* what is settled of what it covered.
LEMMA StaysSwept ==
    ASSUME TextInv, TextShape', unswept' = unswept,
           Settled' \subseteq Settled,
           \A v \in Storers : storing[v].step = "list" =>
               /\ storing'[v].step = "list"
               /\ \A k \in Settled' : k \in Covered(v) => k \in Covered(v)'
    PROVE  Swept'
  <1>1. CASE unswept
    BY <1>1 DEF Swept
  <1>2. CASE TextBytes(Settled) <= MaxTextBytes
    <2>1. Settled \in SUBSET Texts
      BY DEF Settled, OwnTexts
    <2>2. TextBytes(Settled') <= TextBytes(Settled) /\ TextBytes(Settled') \in Nat /\ TextBytes(Settled) \in Nat
      BY <2>1, TextBytesMonotone
    <2>3. TextBytes(Settled') <= MaxTextBytes
      BY <1>2, <2>2, TextAssumption
    <2> QED
      BY <2>3 DEF Swept, TextBytes
  <1>3. CASE \E w \in Storers : storing[w].step = "list" /\ Settled \subseteq Covered(w)
    <2>1. PICK w \in Storers : storing[w].step = "list" /\ Settled \subseteq Covered(w)
      BY <1>3
    <2>2. storing'[w].step = "list" /\ Settled' \subseteq Covered(w)'
      BY <2>1
    <2> QED
      BY <2>2 DEF Swept
  <1> QED
    BY <1>1, <1>2, <1>3 DEF TextInv, Swept

\* One storer moves on and lists nothing: an entry of its own is settled only if it was
\* before, and no other is there anew.
LEMMA OneMoves ==
    ASSUME TextInv, TextShape', NEW w \in Storers, unswept' = unswept,
           \A v \in Storers : v # w => storing'[v] = storing[v],
           storing[w].step # "list",
           \A k \in Texts : Stored(k)' => Stored(k) \/ (storing'[w].step = "verify" /\ storing'[w].text = k),
           storing[w].step \in {"verify", "sweep"} =>
               \/ storing'[w].step \in {"verify", "sweep"} /\ storing'[w].text = storing[w].text
               \/ entry'[storing[w].text].kind # "ours"
    PROVE  Swept'
  <1>1. Settled' \subseteq Settled
    <2> SUFFICES ASSUME NEW k \in Texts, Stored(k)', k \notin Unlisted'
                 PROVE  Stored(k) /\ k \notin Unlisted
      BY DEF Settled, OwnTexts
    <2>1. ~ (storing'[w].step \in {"verify", "sweep"} /\ storing'[w].text = k)
      BY DEF Unlisted
    <2>2. Stored(k)
      BY <2>1
    <2>3. \A v \in Storers : storing[v].step \in {"verify", "sweep"} => storing[v].text # k
      <3> SUFFICES ASSUME NEW v \in Storers, storing[v].step \in {"verify", "sweep"}, storing[v].text = k
                   PROVE  FALSE
        OBVIOUS
      <3>1. CASE v = w
        BY <3>1, <2>1 DEF Stored
      <3>2. CASE v # w
        BY <3>2 DEF Unlisted
      <3> QED
        BY <3>1, <3>2
    <2> QED
      BY <2>2, <2>3 DEF Unlisted
  <1>2. \A v \in Storers : storing[v].step = "list" =>
            storing'[v].step = "list" /\ Covered(v)' = Covered(v)
    BY DEF Covered
  <1> QED
    BY <1>1, <1>2, StaysSwept

\* The storers stay where they are, and no entry is there anew.
LEMMA NobodyMoves ==
    ASSUME TextInv, TextShape', storing' = storing, unswept' = unswept,
           \A k \in Texts : Stored(k)' => Stored(k)
    PROVE  Swept'
  <1>1. Settled' \subseteq Settled
    BY DEF Settled, OwnTexts, Unlisted
  <1>2. \A v \in Storers : Covered(v)' = Covered(v)
    BY DEF Covered
  <1> QED
    BY <1>1, <1>2, StaysSwept

\* One storer moves: the others stay as they are.
LEMMA MoveTypes ==
    ASSUME TextShape, NEW w \in Storers, NEW to \in Storing, to.step # "idle" => to.text \in Texts,
           storing' = [storing EXCEPT ![w] = to]
    PROVE  /\ storing' \in [Storers -> Storing]
           /\ \A v \in Storers : storing'[v].step # "idle" => storing'[v].text \in Texts
  <1>1. storing' \in [Storers -> Storing]
    BY DEF TextShape
  <1>2. \A v \in Storers : storing'[v] = IF v = w THEN to ELSE storing[v]
    BY DEF TextShape
  <1> QED
    BY <1>1, <1>2 DEF TextShape

LEMMA GoOnTypes ==
    ASSUME TextShape, NEW w \in Storers, NEW place \in TextSteps, storing[w].text \in Texts,
           GoOn(w, place) \/ StoreEnds(w)
    PROVE  /\ storing' \in [Storers -> Storing]
           /\ \A v \in Storers : storing'[v].step # "idle" => storing'[v].text \in Texts
  <1> DEFINE to == [storing[w] EXCEPT !.step = place]
  <1>1. CASE GoOn(w, place)
    <2>1. to \in Storing /\ to.text = storing[w].text
      BY DEF TextShape, Storing
    <2>2. storing' = [storing EXCEPT ![w] = to]
      BY <1>1 DEF GoOn, TextShape
    <2> HIDE DEF to
    <2> QED
      BY <2>1, <2>2, MoveTypes
  <1>2. CASE StoreEnds(w)
    <2>1. AtRest \in Storing /\ AtRest.step = "idle"
      BY DEF AtRest, Storing, TextSteps
    <2> QED
      BY <1>2, <2>1, MoveTypes DEF StoreEnds
  <1> QED
    BY <1>1, <1>2

LEMMA TextTypes ==
    ASSUME TextShape, TextNext
    PROVE  TextShape'
  <1> USE TextAssumption
  <1> DEFINE Files == [kind : {"none", "ours", "foreign"}, age : Nat]
  <1>0. NoEntry \in Files /\ AtRest \in Storing
    BY DEF NoEntry, AtRest, Storing, TextSteps
  <1>1. ASSUME NEW w \in Storers, NEW k \in Texts, StartStore(w, k)
        PROVE  TextShape'
    BY <1>0, <1>1 DEF TextShape, StartStore, InStore, AtRest, Storing, TextSteps
  <1>2. ASSUME NEW w \in Storers, Guard(w)
        PROVE  TextShape'
    <2>1. storing[w].text \in Texts /\ "decide" \in TextSteps
      BY <1>2 DEF TextShape, Guard, InStore, TextSteps
    <2>2. GoOn(w, "decide") \/ StoreEnds(w)
      BY <1>2 DEF Guard
    <2> QED
      BY <1>2, <2>1, <2>2, GoOnTypes DEF TextShape, Guard, InStore
  <1>3. ASSUME NEW w \in Storers, Decide(w)
        PROVE  TextShape'
    <2>1. storing[w].text \in Texts /\ {"verify", "publish"} \subseteq TextSteps
      BY <1>3 DEF TextShape, Decide, InStore, TextSteps
    <2>2. \E place \in {"verify", "publish"} : GoOn(w, place)
      BY <1>3 DEF Decide
    <2> QED
      BY <1>3, <2>1, <2>2, GoOnTypes DEF TextShape, Decide, InStore
  <1>4. ASSUME NEW w \in Storers, Publish(w)
        PROVE  TextShape'
    <2>1. entry' \in [Texts -> Files]
      BY <1>4 DEF TextShape, Publish
    <2>2. storing[w].text \in Texts /\ "verify" \in TextSteps
      BY <1>4 DEF TextShape, Publish, InStore, TextSteps
    <2>3. GoOn(w, "verify") \/ StoreEnds(w)
      BY <1>4 DEF Publish
    <2> QED
      BY <1>4, <2>1, <2>2, <2>3, GoOnTypes DEF TextShape, Publish, InStore
  <1>5. ASSUME NEW w \in Storers, Verify(w)
        PROVE  TextShape'
    <2>1. storing[w].text \in Texts /\ "sweep" \in TextSteps
      BY <1>5 DEF TextShape, Verify, InStore, TextSteps
    <2>2. GoOn(w, "sweep") \/ StoreEnds(w)
      BY <1>5 DEF Verify
    <2> QED
      BY <1>5, <2>1, <2>2, GoOnTypes DEF TextShape, Verify, InStore
  <1>6. ASSUME NEW w \in Storers, Sweep(w)
        PROVE  TextShape'
    <2> DEFINE to == [storing[w] EXCEPT !.step = "list", !.todo = OwnTexts]
    <2>1. to \in Storing /\ to.text = storing[w].text /\ storing[w].text \in Texts
      BY <1>6 DEF TextShape, Sweep, InStore, Storing, TextSteps, OwnTexts
    <2>2. storing' = [storing EXCEPT ![w] = to]
      BY <1>6 DEF Sweep, Listed, TextShape
    <2> HIDE DEF to
    <2>3. /\ storing' \in [Storers -> Storing]
          /\ \A v \in Storers : storing'[v].step # "idle" => storing'[v].text \in Texts
      BY <2>1, <2>2, MoveTypes
    <2> QED
      BY <1>6, <2>3 DEF TextShape, Sweep, InStore
  <1>7. ASSUME NEW w \in Storers, Stat(w)
        PROVE  TextShape'
    <2>1. PICK k \in storing[w].todo :
             /\ entry' = IF Exists(k) /\ entry[k].age > TextTTL THEN [entry EXCEPT ![k] = NoEntry] ELSE entry
             /\ storing' = [storing EXCEPT ![w].todo = storing[w].todo \ {k},
                           ![w].seen = IF Exists(k) /\ ~(entry[k].age > TextTTL) THEN @ \cup {<<entry[k].age, k>>} ELSE @]
      BY <1>7 DEF Stat
    <2>2. k \in Texts /\ entry[k].age \in Nat
      BY DEF TextShape, Storing
    <2> DEFINE noted == IF Exists(k) /\ ~(entry[k].age > TextTTL)
                        THEN storing[w].seen \cup {<<entry[k].age, k>>} ELSE storing[w].seen
               to == [storing[w] EXCEPT !.todo = storing[w].todo \ {k}, !.seen = noted]
    <2>a. noted \in SUBSET (Nat \X Texts)
      BY <2>2 DEF TextShape, Storing
    <2>b. storing' = [storing EXCEPT ![w] = to]
      BY <2>1 DEF TextShape
    <2> HIDE DEF noted
    <2>c. to \in Storing /\ to.text = storing[w].text /\ storing[w].text \in Texts
      <3>1. storing[w] \in Storing /\ storing[w].text \in Texts
        BY <1>7 DEF TextShape, Stat, InStore
      <3> QED
        BY <2>a, <3>1 DEF Storing
    <2> HIDE DEF to
    <2>3. /\ storing' \in [Storers -> Storing]
          /\ \A v \in Storers : storing'[v].step # "idle" => storing'[v].text \in Texts
      BY <2>b, <2>c, MoveTypes
    <2>4. entry' \in [Texts -> Files]
      BY <1>0, <2>1 DEF TextShape
    <2> QED
      BY <1>7, <2>1, <2>3, <2>4 DEF TextShape, Stat, InStore
  <1>8. ASSUME NEW w \in Storers, Evict(w)
        PROVE  TextShape'
    <2> DEFINE first == CHOOSE a \in storing[w].seen : \A b \in storing[w].seen :
                           a[1] > b[1] \/ (a[1] = b[1] /\ a[2] <= b[2])
    <2>1. /\ entry' = [entry EXCEPT ![first[2]] = NoEntry]
          /\ storing' = [storing EXCEPT ![w].seen = @ \ {first}]
          /\ storing[w].step = "list"
          /\ UNCHANGED <<temps, unswept, reading>>
      BY <1>8 DEF Evict, InStore
    <2> HIDE DEF first
    <2> QED
      BY <1>0, <2>1 DEF TextShape, Storing
  <1>9. ASSUME NEW w \in Storers, EndStore(w) \/ DieStoring(w)
        PROVE  TextShape'
    <2>1. storing[w].text \in Texts /\ "idle" \in TextSteps /\ unswept' \in BOOLEAN
      BY <1>9 DEF TextShape, EndStore, DieStoring, InStore, TextSteps
    <2> QED
      BY <1>9, <2>1, GoOnTypes DEF TextShape, EndStore, DieStoring, InStore
  <1>10. ASSUME NEW k \in Texts, LookUpText(k) \/ Intrude(k)
         PROVE  TextShape'
    BY <1>0, <1>10 DEF TextShape, LookUpText, Intrude, Storing
  <1>11. ASSUME ForgetText \/ SweepByHand
         PROVE  TextShape'
    BY <1>0, <1>11 DEF TextShape, ForgetText, SweepByHand, Storing
  <1>12. ASSUME TextTick
         PROVE  TextShape'
    <2>1. entry' \in [Texts -> Files]
      BY <1>12 DEF TextShape, TextTick
    <2>2. temps' \in [Storers -> {"none", "young", "old"}]
      BY <1>12 DEF TextShape, TextTick
    <2> QED
      BY <1>12, <2>1, <2>2 DEF TextShape, TextTick
  <1> QED
    BY <1>1, <1>2, <1>3, <1>4, <1>5, <1>6, <1>7, <1>8, <1>9, <1>10, <1>11, <1>12 DEF TextNext

LEMMA TextStepSweeps ==
    ASSUME TextInv, TextNext
    PROVE  TextInv'
  <1> USE TextAssumption
  <1> TextShape /\ TextShape'
    BY TextTypes DEF TextInv
  <1>1. ASSUME NEW w \in Storers, NEW k \in Texts, StartStore(w, k)
        PROVE  Swept'
    <2>1. storing[w].step = "idle" /\ entry' = entry /\ unswept' = unswept
      BY <1>1 DEF StartStore, InStore
    <2>2. \A v \in Storers : v # w => storing'[v] = storing[v]
      BY <1>1 DEF StartStore, TextShape
    <2> QED
      BY <2>1, <2>2, OneMoves DEF Stored
  <1>2. ASSUME NEW w \in Storers, Guard(w)
        PROVE  Swept'
    <2>1. storing[w].step = "guard" /\ entry' = entry /\ unswept' = unswept
      BY <1>2 DEF Guard, InStore
    <2>2. \A v \in Storers : v # w => storing'[v] = storing[v]
      BY <1>2 DEF Guard, GoOn, StoreEnds, TextShape
    <2> QED
      BY <2>1, <2>2, OneMoves DEF Stored
  <1>3. ASSUME NEW w \in Storers, Decide(w)
        PROVE  Swept'
    <2>1. storing[w].step = "decide" /\ entry' = entry /\ unswept' = unswept
      BY <1>3 DEF Decide, InStore
    <2>2. \A v \in Storers : v # w => storing'[v] = storing[v]
      BY <1>3 DEF Decide, GoOn, TextShape
    <2> QED
      BY <2>1, <2>2, OneMoves DEF Stored
  <1>4. ASSUME NEW w \in Storers, Publish(w)
        PROVE  Swept'
    <2>1. storing[w].step = "publish" /\ unswept' = unswept
      BY <1>4 DEF Publish, InStore
    <2>2. \A v \in Storers : v # w => storing'[v] = storing[v]
      BY <1>4 DEF Publish, GoOn, StoreEnds, TextShape
    <2>3. CASE temps[w] = "none"
      <3>1. entry' = entry
        BY <1>4, <2>3 DEF Publish
      <3> QED
        BY <2>1, <2>2, <3>1, OneMoves DEF Stored
    <2>4. CASE temps[w] # "none"
      <3>1. storing'[w].step = "verify" /\ storing'[w].text = storing[w].text
        BY <1>4, <2>4 DEF Publish, GoOn, TextShape, Storing
      <3>2. \A k \in Texts : k # storing[w].text => entry'[k] = entry[k]
        BY <1>4 DEF Publish, TextShape
      <3> QED
        BY <2>1, <2>2, <3>1, <3>2, OneMoves DEF Stored
    <2> QED
      BY <2>3, <2>4
  <1>5. ASSUME NEW w \in Storers, Verify(w)
        PROVE  Swept'
    <2>1. storing[w].step = "verify" /\ entry' = entry /\ unswept' = unswept
      BY <1>5 DEF Verify, InStore
    <2>2. \A v \in Storers : v # w => storing'[v] = storing[v]
      BY <1>5 DEF Verify, GoOn, StoreEnds, TextShape
    <2>3. \/ storing'[w].step = "sweep" /\ storing'[w].text = storing[w].text
          \/ entry'[storing[w].text].kind # "ours"
      BY <1>5, <2>1 DEF Verify, GoOn, Stored, TextShape, Storing
    <2> QED
      BY <2>1, <2>2, <2>3, OneMoves DEF Stored
  <1>6. ASSUME NEW w \in Storers, Sweep(w)
        PROVE  Swept'
    <2>1. storing'[w].step = "list" /\ storing'[w].todo = OwnTexts /\ entry' = entry
      BY <1>6 DEF Sweep, Listed, TextShape, Storing
    <2>2. Settled' \subseteq Covered(w)'
      BY <2>1 DEF Settled, Covered, OwnTexts, Stored
    <2> QED
      BY <2>1, <2>2 DEF Swept
  <1>7. ASSUME NEW w \in Storers, Stat(w)
        PROVE  Swept'
    <2>1. PICK k \in storing[w].todo :
             /\ entry' = IF Exists(k) /\ entry[k].age > TextTTL THEN [entry EXCEPT ![k] = NoEntry] ELSE entry
             /\ storing' = [storing EXCEPT ![w].todo = storing[w].todo \ {k},
                           ![w].seen = IF Exists(k) /\ ~(entry[k].age > TextTTL) THEN @ \cup {<<entry[k].age, k>>} ELSE @]
      BY <1>7 DEF Stat
    <2>2. k \in Texts /\ entry[k].age \in Nat
      BY DEF TextShape, Storing
    <2>3. /\ storing[w].step = "list" /\ unswept' = unswept
          /\ \A v \in Storers : storing'[v].step = storing[v].step /\ storing'[v].text = storing[v].text
          /\ \A v \in Storers : v # w => storing'[v] = storing[v]
      BY <1>7, <2>1 DEF Stat, InStore, TextShape, Storing
    <2>4. \A x \in Texts : Stored(x)' => Stored(x) /\ (x = k => ~(entry[k].age > TextTTL))
      BY <2>1, <2>2 DEF Stored, Exists, NoEntry, TextShape
    <2>5. Settled' \subseteq Settled
      BY <2>3, <2>4 DEF Settled, OwnTexts, Unlisted
    <2>6. \A x \in Settled' : x \in Covered(w) => x \in Covered(w)'
      <3> SUFFICES ASSUME NEW x \in Texts, Stored(x)', x \in Covered(w)
                   PROVE  x \in Covered(w)'
        BY DEF Settled, OwnTexts
      <3>1. CASE x = k
        <4>1. Exists(k) /\ ~(entry[k].age > TextTTL)
          BY <2>4, <3>1 DEF Exists, Stored
        <4>2. <<entry[k].age, k>> \in storing'[w].seen
          BY <2>1, <4>1 DEF TextShape, Storing
        <4>3. \E a \in storing'[w].seen : x = a[2]
          BY <3>1, <4>2
        <4> QED
          BY <4>3 DEF Covered
      <3>2. CASE x # k /\ x \in storing[w].todo
        <4>1. x \in storing'[w].todo
          BY <2>1, <3>2 DEF TextShape, Storing
        <4> QED
          BY <4>1 DEF Covered
      <3>3. CASE \E a \in storing[w].seen : x = a[2]
        <4>1. storing[w].seen \subseteq storing'[w].seen
          BY <2>1 DEF TextShape, Storing
        <4> QED
          BY <3>3, <4>1 DEF Covered
      <3> QED
        BY <3>1, <3>2, <3>3 DEF Covered
    <2>7. \A v \in Storers : v # w => Covered(v)' = Covered(v)
      BY <2>3 DEF Covered
    <2> QED
      BY <2>3, <2>5, <2>6, <2>7, StaysSwept
  <1>8. ASSUME NEW w \in Storers, Evict(w)
        PROVE  Swept'
    <2> DEFINE first == CHOOSE a \in storing[w].seen : \A b \in storing[w].seen :
                           a[1] > b[1] \/ (a[1] = b[1] /\ a[2] <= b[2])
    <2>1. /\ entry' = [entry EXCEPT ![first[2]] = NoEntry]
          /\ storing' = [storing EXCEPT ![w].seen = @ \ {first}]
          /\ storing[w].step = "list"
          /\ UNCHANGED <<temps, unswept, reading>>
      BY <1>8 DEF Evict, InStore
    <2> HIDE DEF first
    <2>2. /\ \A v \in Storers : storing'[v].step = storing[v].step /\ storing'[v].text = storing[v].text
          /\ \A v \in Storers : v # w => storing'[v] = storing[v]
          /\ storing'[w].todo = storing[w].todo /\ storing'[w].seen = storing[w].seen \ {first}
      BY <2>1 DEF TextShape, Storing
    <2>3. \A x \in Texts : Stored(x)' => Stored(x) /\ x # first[2]
      BY <2>1 DEF Stored, NoEntry, TextShape
    <2>u. Unlisted' = Unlisted
      BY <2>2 DEF Unlisted
    <2>4. Settled' \subseteq Settled
      BY <2>3, <2>u DEF Settled, OwnTexts
    <2>5. \A x \in Settled' : x \in Covered(w) => x \in Covered(w)'
      BY <2>2, <2>3 DEF Covered, Settled, OwnTexts
    <2>6. \A v \in Storers : v # w => Covered(v)' = Covered(v)
      BY <2>2 DEF Covered
    <2> QED
      BY <2>1, <2>2, <2>4, <2>5, <2>6, StaysSwept
  <1>9. ASSUME NEW w \in Storers, EndStore(w)
        PROVE  Swept'
    <2>1. /\ storing[w].step = "list" /\ storing[w].todo = {} /\ entry' = entry /\ unswept' = unswept
          /\ TextBytes({a[2] : a \in storing[w].seen}) <= MaxTextBytes
          /\ storing' = [storing EXCEPT ![w] = AtRest]
      BY <1>9 DEF EndStore, InStore, StoreEnds
    <2>2. storing'[w].step = "idle" /\ \A v \in Storers : v # w => storing'[v] = storing[v]
      BY <2>1 DEF TextShape, AtRest
    <2>3. Settled' = Settled
      BY <2>1, <2>2 DEF Settled, OwnTexts, Unlisted, Stored
    <2>4. CASE Settled \subseteq Covered(w)
      <3> DEFINE counted == {a[2] : a \in storing[w].seen}
      <3>1. counted \in SUBSET Texts
        BY DEF TextShape, Storing
      <3>2. Settled \subseteq counted
        BY <2>1, <2>4 DEF Covered
      <3>3. TextBytes(Settled) <= TextBytes(counted) /\ TextBytes(Settled) \in Nat /\ TextBytes(counted) \in Nat
        BY <3>1, <3>2, TextBytesMonotone
      <3>4. TextBytes(Settled) <= MaxTextBytes
        BY <2>1, <3>3
      <3> QED
        BY <2>3, <3>4 DEF Swept, TextBytes
    <2>5. CASE \E v \in Storers \ {w} : storing[v].step = "list" /\ Settled \subseteq Covered(v)
      <3>1. PICK v \in Storers \ {w} : storing[v].step = "list" /\ Settled \subseteq Covered(v)
        BY <2>5
      <3>2. storing'[v].step = "list" /\ Covered(v)' = Covered(v)
        BY <2>2, <3>1 DEF Covered
      <3> QED
        BY <2>3, <3>1, <3>2 DEF Swept
    <2>6. CASE unswept \/ TextBytes(Settled) <= MaxTextBytes
      BY <2>1, <2>3, <2>6 DEF Swept, TextBytes
    <2> QED
      BY <2>4, <2>5, <2>6 DEF TextInv, Swept
  <1>10. ASSUME NEW w \in Storers, DieStoring(w)
         PROVE  Swept'
    <2>1. CASE storing[w].step \in {"verify", "sweep", "list"}
      BY <1>10, <2>1 DEF DieStoring, Swept
    <2>2. CASE storing[w].step \notin {"verify", "sweep", "list"}
      <3>1. entry' = entry /\ unswept' = unswept
        BY <1>10, <2>2 DEF DieStoring, TextShape
      <3>2. \A v \in Storers : v # w => storing'[v] = storing[v]
        BY <1>10 DEF DieStoring, StoreEnds, TextShape
      <3> QED
        BY <2>2, <3>1, <3>2, OneMoves DEF Stored
    <2> QED
      BY <2>1, <2>2
  <1>11. ASSUME NEW k \in Texts, LookUpText(k) \/ Intrude(k)
         PROVE  Swept'
    <2>1. storing' = storing /\ unswept' = unswept /\ \A x \in Texts : Stored(x)' => Stored(x)
      BY <1>11 DEF LookUpText, Intrude, Stored, TextShape
    <2> QED
      BY <2>1, NobodyMoves
  <1>12. ASSUME ForgetText \/ SweepByHand \/ TextTick
         PROVE  Swept'
    <2>1. storing' = storing /\ unswept' = unswept /\ \A x \in Texts : Stored(x)' => Stored(x)
      BY <1>12 DEF ForgetText, SweepByHand, TextTick, Stored, NoEntry, TextShape
    <2> QED
      BY <2>1, NobodyMoves
  <1> QED
    BY <1>1, <1>2, <1>3, <1>4, <1>5, <1>6, <1>7, <1>8, <1>9, <1>10, <1>11, <1>12 DEF TextNext, TextInv

LEMMA TextInvariant == TextSpec => []TextInv
  <1> USE TextAssumption
  <1>1. TextInit => TextInv
    <2> SUFFICES ASSUME TextInit
                 PROVE  TextInv
      OBVIOUS
    <2>1. OwnTexts = {}
      <3>1. \A k \in Texts : entry[k].kind \in {"none", "foreign"}
        <4> SUFFICES ASSUME NEW k \in Texts
                     PROVE  entry[k].kind \in {"none", "foreign"}
          OBVIOUS
        <4>1. entry[k] \in {NoEntry, [kind |-> "foreign", age |-> 0]}
          BY DEF TextInit
        <4> QED
          BY <4>1 DEF NoEntry
      <3> QED
        BY <3>1 DEF OwnTexts, Stored
    <2>2. TextBytes(Settled) <= MaxTextBytes
      BY <2>1, TextBytesOfNothing DEF Settled
    <2>3. TextShape
      <3>1. {NoEntry, [kind |-> "foreign", age |-> 0]} \subseteq [kind : {"none", "ours", "foreign"}, age : Nat]
        BY DEF NoEntry
      <3>2. AtRest \in Storing /\ AtRest.step = "idle"
        BY DEF AtRest, Storing, TextSteps
      <3>3. entry \in [Texts -> [kind : {"none", "ours", "foreign"}, age : Nat]]
        BY <3>1 DEF TextInit
      <3> QED
        BY <3>2, <3>3 DEF TextInit, TextShape
    <2> QED
      BY <2>2, <2>3 DEF TextInv, Swept
  <1>2. TextInv /\ [TextNext]_textvars => TextInv'
    <2> SUFFICES ASSUME TextInv, [TextNext]_textvars
                 PROVE  TextInv'
      OBVIOUS
    <2>1. CASE TextNext
      BY <2>1, TextStepSweeps
    <2>2. CASE UNCHANGED textvars
      BY <2>2 DEF textvars, TextInv, TextShape, Swept, Settled, Unlisted, OwnTexts, Stored, Covered, TextBytes
    <2> QED
      BY <2>1, <2>2
  <1> QED
    BY <1>1, <1>2, PTL DEF TextSpec

\* When no call of store is running, in any process, the entries are within the size limit,
\* however many writers published, listed and evicted beside each other: one that has
\* published has still to list, and what was listed last is covered by a storer that has not
\* finished evicting.
THEOREM QuietStoreIsBounded == TextSpec => []BoundedWhenQuiet
  <1>1. TextInv => BoundedWhenQuiet
    <2> SUFFICES ASSUME TextInv, \A w \in Storers : storing[w].step = "idle", ~ unswept
                 PROVE  TextBytes(OwnTexts) <= MaxTextBytes
      BY DEF BoundedWhenQuiet
    <2>1. Settled = OwnTexts
      BY DEF Settled, Unlisted
    <2> QED
      BY <2>1 DEF TextInv, Swept
  <1> QED
    BY <1>1, TextInvariant, PTL

\* No step of any process puts an entry of the store in the place of another file: the link
\* fails where the name has been taken since the writer looked.
THEOREM NothingIsReplaced == TextSpec => PublishedBeside
  <1>1. TextInv /\ TextInv' /\ [TextNext]_textvars =>
            [\A k \in Texts : entry[k].kind = "foreign" /\ entry'[k].kind # "foreign"
                           => entry'[k].kind = "none"]_textvars
    <2> SUFFICES ASSUME TextInv, TextNext, NEW k \in Texts, entry[k].kind = "foreign"
                 PROVE  entry'[k].kind \in {"foreign", "none"}
      OBVIOUS
    <2>1. \A w \in Storers : Publish(w) => entry'[k] = entry[k]
      BY DEF Publish, CanLink, Exists, TextInv, TextShape
    <2>2. \A w \in Storers : Stat(w) => entry'[k] \in {entry[k], NoEntry}
      BY DEF Stat, TextInv, TextShape
    <2>3. \A w \in Storers : Evict(w) => entry'[k] \in {entry[k], NoEntry}
      BY DEF Evict, TextInv, TextShape
    <2>4. \A x \in Texts : Intrude(x) => entry'[k].kind = "foreign"
      BY DEF Intrude, Exists, TextInv, TextShape
    <2>5. ForgetText => entry'[k] \in {entry[k], NoEntry}
      BY DEF ForgetText, TextInv, TextShape
    <2>6. TextTick => entry'[k].kind = "foreign"
      BY DEF TextTick, TextInv, TextShape
    <2>7. entry' = entry \/ (\E w \in Storers : Publish(w) \/ Stat(w) \/ Evict(w)) \/
          (\E x \in Texts : Intrude(x)) \/ ForgetText \/ TextTick
      BY DEF TextNext, StartStore, Guard, Decide, Verify, Sweep, EndStore, DieStoring, LookUpText, SweepByHand
    <2> QED
      BY <2>1, <2>2, <2>3, <2>4, <2>5, <2>6, <2>7 DEF NoEntry
  <1> QED
    BY <1>1, TextInvariant, PTL DEF TextSpec, PublishedBeside

(***************************************************************************)
(* Requests, their preflight and the response cache (orchestrator_v3.py,     *)
(* budget_preflight.py, cache_v3.py)                                         *)
(***************************************************************************)

\* Rounding up never passes a limit that is a whole number of seconds.
LEMMA RoundedUp ==
    ASSUME NEW ticks \in Nat, NEW limit \in Nat, ticks <= limit * TicksPerSecond
    PROVE  /\ Seconds(ticks) \in Nat /\ Seconds(ticks) <= limit
           /\ ticks > 0 => Seconds(ticks) > 0
  <1> DEFINE T == TicksPerSecond
             d == (ticks + T - 1) \div T
  <1>1. T \in Nat /\ T >= 1
    BY PreflightAssumption
  <1>2. d \in Int /\ T * d <= ticks + T - 1 /\ ticks + T - 1 < T * d + T
    BY <1>1
  <1>3. limit * T \in Nat /\ T * d \in Int
    BY <1>1, <1>2
  <1>4. d <= limit
    <2>1. ASSUME d >= limit + 1 PROVE FALSE
      <3>1. T * d >= T * (limit + 1)
        BY <1>1, <1>2, <2>1
      <3>2. T * (limit + 1) = limit * T + T
        BY <1>1
      <3> QED BY <1>1, <1>2, <1>3, <3>1, <3>2
    <2> QED BY <1>2, <2>1
  <1>5. d >= 0
    <2>1. ASSUME d <= -1 PROVE FALSE
      <3>1. T * d <= T * (-1)
        BY <1>1, <1>2, <2>1
      <3> QED BY <1>1, <1>2, <3>1
    <2> QED BY <1>2, <2>1
  <1>6. ticks > 0 => d > 0
    <2>1. ASSUME d = 0, ticks > 0 PROVE FALSE
      BY <1>1, <1>2, <2>1
    <2> QED BY <1>5, <2>1, <1>2
  <1> QED BY <1>2, <1>4, <1>5, <1>6 DEF Seconds

AnyWish == Wishes(Seq(Candidates), Nat, Nat, Nat)
AnySet  == Settings(Nat)
Whys    == {"none", "budget_ledger_unavailable", "daily_quota_exhausted", "budget_unsatisfiable"}
AnyCuts == [action : {"proceed", "abort", "degrade"}, calls : Nat, timeout : Nat, context : Nat, reason : Whys]

LEMMA PlannedNumbers ==
    ASSUME NEW w \in AnyWish
    PROVE  /\ w.order \in Seq(Candidates) /\ Len(w.order) \in Nat
           /\ w.attempts \in Nat /\ w.wall \in Nat /\ w.research \in Nat /\ w.context \in Nat /\ w.extract \in BOOLEAN
           /\ PlannedCalls(w) \in Nat /\ PlannedCalls(w) <= Len(w.order)
           /\ PlannedSeconds(w) \in Nat
           /\ PlannedContext(w) \in Nat
  <1>1. /\ w.order \in Seq(Candidates) /\ w.attempts \in Nat /\ w.wall \in Nat /\ w.research \in Nat
        /\ w.context \in Nat /\ w.extract \in BOOLEAN
    BY DEF AnyWish, Wishes
  <1>2. Len(w.order) \in Nat
    BY <1>1
  <1>3. \A x \in Nat : Seconds(x) \in Nat
    <2> TAKE x \in Nat
    <2>1. TicksPerSecond \in Nat /\ TicksPerSecond >= 1
      BY PreflightAssumption
    <2>2. x <= x * TicksPerSecond
      BY <2>1
    <2> QED BY <2>2, RoundedUp, Zenon
  <1>4. PlannedCalls(w) \in Nat /\ PlannedCalls(w) <= Len(w.order)
    BY <1>1, <1>2 DEF PlannedCalls, Lower
  <1>5. PlannedSeconds(w) \in Nat
    BY <1>1, <1>3 DEF PlannedSeconds
  <1>6. PlannedContext(w) \in Nat
    BY <1>1, PreflightAssumption DEF PlannedContext
  <1> QED BY <1>1, <1>2, <1>4, <1>5, <1>6

\* What the preflight decides, without its nested conditions: nothing is changed, or the
\* request is refused, or something is cut.
LEMMA Decided ==
    ASSUME NEW w \in AnyWish, NEW set \in AnySet, NEW s \in Nat \cup {NoSnapshot}
    PROVE  LET d == Preflight(w, set, s)
               calls == AllowedCalls(w, set, s)
               over == Exceeded(w, set, s)
           IN  /\ d \in AnyCuts
               /\ d.action # "degrade" => d.calls = 0 /\ d.timeout = 0 /\ d.context = 0
               /\ d.action = "degrade" =>
                    /\ calls \in Nat /\ calls >= 1
                    /\ "quota" \in over => s \in Nat
                    /\ d.calls = (IF calls < PlannedCalls(w) THEN calls ELSE 0)
                    /\ d.timeout = (IF "timeout" \in over THEN set.timeout ELSE 0)
                    /\ d.context = (IF "context" \in over THEN set.context ELSE 0)
  <1> DEFINE d == Preflight(w, set, s)
             calls == AllowedCalls(w, set, s)
             over == Exceeded(w, set, s)
             cuts == [Plain EXCEPT !.action  = "degrade",
                               !.calls   = IF calls < PlannedCalls(w) THEN calls ELSE 0,
                               !.timeout = IF "timeout" \in over THEN set.timeout ELSE 0,
                               !.context = IF "context" \in over THEN set.context ELSE 0]
  <1>1. set.calls \in Nat /\ set.quota \in Nat /\ set.timeout \in Nat /\ set.context \in Nat
    BY DEF AnySet, Settings
  <1>2. PlannedCalls(w) \in Nat
    BY PlannedNumbers
  <1>3. "quota" \notin over => set.quota = 0 \/ (s \in Nat /\ PlannedCalls(w) + s <= set.quota)
    BY <1>1, <1>2 DEF Exceeded
  <1>4. "quota" \in over => set.quota > 0
    BY DEF Exceeded
  <1>5. s \in Nat \/ set.quota = 0 => calls \in Int
    BY <1>1, <1>2 DEF AllowedCalls, Lower
  <1>6. ~ ("quota" \in over /\ s = NoSnapshot) => calls \in Int
    BY <1>1, <1>3, <1>5
  <1>7. \/ d = Plain
        \/ \E why \in Whys : d = Abort(why)
        \/ d = cuts /\ calls >= 1 /\ ~ ("quota" \in over /\ s = NoSnapshot)
    <2>1. AbortReason(over, set, s) \in Whys
      BY DEF AbortReason, Whys
    <2> HIDE DEF calls, over, cuts
    <2>2. \/ d = Plain
          \/ d = Abort(AbortReason(over, set, s))
          \/ d = Abort("budget_ledger_unavailable")
          \/ d = Abort("daily_quota_exhausted")
          \/ d = Abort("budget_unsatisfiable")
          \/ d = cuts /\ ~ (calls < 1) /\ ~ ("quota" \in over /\ s = NoSnapshot)
      BY DEF Preflight, calls, over, cuts
    <2>3. ~ ("quota" \in over /\ s = NoSnapshot) => calls \in Int
      BY <1>6 DEF calls, over
    <2> QED BY <2>1, <2>2, <2>3 DEF over, Whys
  <1>8. CASE d = Plain
    BY <1>8 DEF Plain, AnyCuts, Whys
  <1>9. ASSUME NEW why \in Whys, d = Abort(why)
        PROVE  /\ d \in AnyCuts /\ d.action = "abort"
               /\ d.calls = 0 /\ d.timeout = 0 /\ d.context = 0
    <2>1. d = [action |-> "abort", calls |-> 0, timeout |-> 0, context |-> 0, reason |-> why]
      BY <1>9 DEF Abort, Plain
    <2> HIDE DEF d
    <2> QED BY <1>9, <2>1 DEF AnyCuts
  <1>10. CASE d = cuts /\ calls >= 1 /\ ~ ("quota" \in over /\ s = NoSnapshot)
    <2>1. calls \in Nat
      BY <1>6, <1>10
    <2> HIDE DEF calls, over
    <2>2. /\ d.action = "degrade"
          /\ d.calls = (IF calls < PlannedCalls(w) THEN calls ELSE 0)
          /\ d.timeout = (IF "timeout" \in over THEN set.timeout ELSE 0)
          /\ d.context = (IF "context" \in over THEN set.context ELSE 0)
      BY <1>10 DEF Plain
    <2>3. d \in AnyCuts
      <3>1. d = [action |-> "degrade", calls |-> d.calls, timeout |-> d.timeout, context |-> d.context, reason |-> "none"]
        BY <1>10 DEF Plain
      <3> HIDE DEF d
      <3>2. d.calls \in Nat /\ d.timeout \in Nat /\ d.context \in Nat
        BY <1>1, <2>1, <2>2
      <3> QED BY <3>1, <3>2 DEF AnyCuts, Whys
    <2>4. "quota" \in over => s \in Nat
      BY <1>10
    <2> HIDE DEF d, cuts
    <2> QED BY <1>10, <2>1, <2>2, <2>3, <2>4 DEF d, calls, over
  <1> HIDE DEF d, cuts, calls, over
  <1>11. (d = Plain \/ \E why \in Whys : d = Abort(why)) => d.action # "degrade"
    BY <1>9 DEF Plain
  <1> QED BY <1>7, <1>8, <1>9, <1>10, <1>11 DEF d, calls, over

LEMMA Tighter ==
    \A own \in Nat, limit \in Nat :
        /\ Tightened(own, limit) \in Nat
        /\ own > 0 => Tightened(own, limit) <= own /\ Tightened(own, limit) > 0
        /\ limit > 0 => Tightened(own, limit) <= limit /\ Tightened(own, limit) > 0
        /\ limit = 0 => Tightened(own, limit) = own
        /\ own = 0 => Tightened(own, limit) = limit
  BY DEF Tightened, Lower

LEMMA InTicks ==
    \A n \in Nat :
        /\ n * TicksPerSecond \in Nat
        /\ n > 0 => n * TicksPerSecond > 0
        /\ n = 0 => n * TicksPerSecond = 0
  <1> SUFFICES ASSUME NEW n \in Nat
               PROVE  /\ n * TicksPerSecond \in Nat
                      /\ n > 0 => n * TicksPerSecond > 0
                      /\ n = 0 => n * TicksPerSecond = 0
    OBVIOUS
  <1>1. TicksPerSecond \in Nat /\ TicksPerSecond >= 1
    BY PreflightAssumption
  <1> QED BY <1>1

\* The request that the cuts leave.
LEMMA WhatIsLeft ==
    ASSUME NEW w \in AnyWish, NEW d \in AnyCuts, d.calls <= Len(w.order)
    PROVE  LET v == Applied(w, d)
           IN  /\ v \in AnyWish
               /\ v.order = SubSeq(w.order, 1, Len(v.order))
               /\ d.calls > 0 => Len(v.order) = d.calls
               /\ d.calls = 0 => v.order = w.order
               /\ v.attempts = Tightened(w.attempts, d.calls)
               /\ v.wall = Tightened(w.wall, d.timeout * TicksPerSecond)
               /\ d.timeout = 0 => v.research = w.research
               /\ v.extract = w.extract
               /\ v.context = Tightened(w.context, d.context)
  <1> DEFINE v == Applied(w, d)
  <1>1. /\ w.order \in Seq(Candidates) /\ Len(w.order) \in Nat
        /\ w.attempts \in Nat /\ w.wall \in Nat /\ w.research \in Nat /\ w.context \in Nat /\ w.extract \in BOOLEAN
    BY PlannedNumbers
  <1>2. d.calls \in Nat /\ d.timeout \in Nat /\ d.context \in Nat
    BY DEF AnyCuts
  <1>3. d.timeout * TicksPerSecond \in Nat /\ (d.timeout = 0 => d.timeout * TicksPerSecond = 0)
    BY <1>2, InTicks
  <1>4. /\ v.order = IF d.calls > 0 THEN SubSeq(w.order, 1, d.calls) ELSE w.order
        /\ v.attempts = Tightened(w.attempts, d.calls)
        /\ v.wall = Tightened(w.wall, d.timeout * TicksPerSecond)
        /\ v.research = IF w.research > 0 THEN Tightened(w.research, d.timeout * TicksPerSecond) ELSE 0
        /\ v.extract = w.extract
        /\ v.context = Tightened(w.context, d.context)
    BY DEF Applied, AnyWish, Wishes
  <1>5. v.order \in Seq(Candidates) /\ v.order = SubSeq(w.order, 1, Len(v.order))
        /\ (d.calls > 0 => Len(v.order) = d.calls)
    <2>1. CASE d.calls > 0
      <3>1. /\ SubSeq(w.order, 1, d.calls) \in Seq(Candidates)
            /\ Len(SubSeq(w.order, 1, d.calls)) = d.calls
        BY <1>1, <1>2, <2>1
      <3> QED BY <1>4, <2>1, <3>1
    <2>2. CASE d.calls = 0
      <3>1. SubSeq(w.order, 1, Len(w.order)) = w.order
        BY <1>1
      <3> QED BY <1>1, <1>4, <2>2, <3>1
    <2> QED BY <1>2, <2>1, <2>2
  <1>6. v.attempts \in Nat /\ v.wall \in Nat /\ v.research \in Nat /\ v.context \in Nat
    BY <1>1, <1>2, <1>3, <1>4 DEF Tightened, Lower
  <1>7. v \in AnyWish
    <2> DEFINE order == IF d.calls > 0 THEN SubSeq(w.order, 1, d.calls) ELSE w.order
               tries == Tightened(w.attempts, d.calls)
               wall == Tightened(w.wall, d.timeout * TicksPerSecond)
               research == IF w.research > 0 THEN Tightened(w.research, d.timeout * TicksPerSecond) ELSE 0
               context == Tightened(w.context, d.context)
    <2>1. v = [w EXCEPT !.order = order, !.attempts = tries, !.wall = wall, !.research = research,
                        !.context = context]
      BY DEF Applied
    <2>2. /\ order \in Seq(Candidates) /\ tries \in Nat /\ wall \in Nat /\ research \in Nat
          /\ context \in Nat
      BY <1>4, <1>5, <1>6
    <2> HIDE DEF v, order, tries, wall, research, context
    <2> QED BY <2>1, <2>2 DEF AnyWish, Wishes
  <1>8. d.timeout = 0 => v.research = w.research
    BY <1>1, <1>3, <1>4, Tighter
  <1> HIDE DEF v
  <1> QED BY <1>2, <1>4, <1>5, <1>7, <1>8 DEF v

\* What passes as it is: nothing exceeds a limit.
LEMMA Passes ==
    ASSUME NEW w \in AnyWish, NEW set \in AnySet, NEW s, Exceeded(w, set, s) = {}
    PROVE  Preflight(w, set, s) = Plain
  BY DEF Preflight

\* The cuts of the preflight are enough, for every request, setting and reading of the ledger.
LEMMA CutsAreEnough ==
    ASSUME NEW w \in AnyWish, NEW set \in AnySet, NEW s \in Nat \cup {NoSnapshot}
    PROVE  Suffices(w, set, s)
  <1> DEFINE d == Preflight(w, set, s)
             v == Applied(w, d)
             calls == AllowedCalls(w, set, s)
             over == Exceeded(w, set, s)
  <1> SUFFICES ASSUME d.action = "degrade"
               PROVE  /\ Preflight(v, set, s) = Plain
                      /\ v.order = SubSeq(w.order, 1, Len(v.order)) /\ v.order # <<>>
                      /\ PlannedCalls(v) <= PlannedCalls(w)
                      /\ w.wall > 0 => v.wall <= w.wall
                      /\ w.context > 0 => v.context <= w.context
    BY DEF Suffices
  <1>1. set.calls \in Nat /\ set.quota \in Nat /\ set.timeout \in Nat /\ set.context \in Nat
    BY DEF AnySet, Settings
  <1>2. /\ w.order \in Seq(Candidates) /\ Len(w.order) \in Nat
        /\ w.attempts \in Nat /\ w.wall \in Nat /\ w.research \in Nat /\ w.context \in Nat /\ w.extract \in BOOLEAN
        /\ PlannedCalls(w) \in Nat /\ PlannedCalls(w) <= Len(w.order)
        /\ PlannedSeconds(w) \in Nat /\ PlannedContext(w) \in Nat
    BY PlannedNumbers
  <1>3. /\ d \in AnyCuts
        /\ calls \in Nat /\ calls >= 1
        /\ "quota" \in over => s \in Nat
        /\ d.calls = (IF calls < PlannedCalls(w) THEN calls ELSE 0)
        /\ d.timeout = (IF "timeout" \in over THEN set.timeout ELSE 0)
        /\ d.context = (IF "context" \in over THEN set.context ELSE 0)
    BY Decided
  <1> HIDE DEF d
  <1>4. d.calls \in Nat /\ d.calls <= Len(w.order)
    BY <1>2, <1>3
  <1>a. /\ d.context \in Nat /\ d.timeout \in Nat
        /\ d.timeout * TicksPerSecond \in Nat
        /\ d.timeout = 0 => d.timeout * TicksPerSecond = 0
    <2>1. d.context \in Nat /\ d.timeout \in Nat
      BY <1>3 DEF AnyCuts
    <2> QED BY <2>1, InTicks
  <1>5. /\ v \in AnyWish
        /\ v.order = SubSeq(w.order, 1, Len(v.order))
        /\ d.calls > 0 => Len(v.order) = d.calls
        /\ d.calls = 0 => v.order = w.order
        /\ v.attempts = Tightened(w.attempts, d.calls)
        /\ v.wall = Tightened(w.wall, d.timeout * TicksPerSecond)
        /\ d.timeout = 0 => v.research = w.research
        /\ v.extract = w.extract
        /\ v.context = Tightened(w.context, d.context)
    BY <1>3, <1>4, WhatIsLeft
  <1> HIDE DEF v, calls, over
  <1>6. /\ v.order \in Seq(Candidates) /\ Len(v.order) \in Nat /\ v.attempts \in Nat /\ v.wall \in Nat
        /\ v.research \in Nat /\ v.context \in Nat /\ PlannedCalls(v) \in Nat
    BY <1>5, PlannedNumbers
  \* The calls.
  <1>7. /\ calls <= PlannedCalls(w)
        /\ set.calls > 0 => calls <= set.calls
        /\ set.quota > 0 /\ s \in Nat => calls + s <= set.quota
    <2> DEFINE planned == PlannedCalls(w)
               capped  == IF set.calls > 0 THEN Lower(planned, set.calls) ELSE planned
               rest    == set.quota - s
    <2>1. calls = IF set.quota > 0 THEN Lower(capped, rest) ELSE capped
      BY DEF calls, AllowedCalls
    <2>2. planned \in Nat /\ calls \in Nat /\ set.calls \in Nat /\ set.quota \in Nat
      BY <1>1, <1>2, <1>3
    <2> HIDE DEF planned
    <2>3. capped \in Nat /\ capped <= planned /\ (set.calls > 0 => capped <= set.calls)
      BY ONLY <2>2 DEF Lower
    <2>4. s \in Nat => rest \in Int /\ (calls <= rest => calls + s <= set.quota)
      BY ONLY <2>2
    <2> HIDE DEF capped, rest
    <2>5. calls <= capped /\ (set.quota > 0 /\ rest \in Int => calls <= rest)
      BY ONLY <2>1, <2>2, <2>3 DEF Lower
    <2>6. calls <= planned /\ (set.calls > 0 => calls <= set.calls)
      BY ONLY <2>2, <2>3, <2>5
    <2> QED BY ONLY <2>4, <2>5, <2>6 DEF planned
  <1>8. PlannedCalls(v) = calls /\ v.order # <<>>
    <2>1. CASE calls < PlannedCalls(w)
      <3>1. Len(v.order) = calls /\ v.attempts = Tightened(w.attempts, calls)
        BY <1>3, <1>5, <2>1
      <3>2. v.attempts = calls
        BY <1>2, <1>3, <2>1, <3>1 DEF PlannedCalls, Tightened, Lower
      <3>3. PlannedCalls(v) = calls
        BY <1>3, <3>1, <3>2 DEF PlannedCalls, Lower
      <3>4. v.order # <<>>
        BY <1>3, <1>6, <3>1
      <3> QED BY <3>3, <3>4
    <2>2. CASE ~ (calls < PlannedCalls(w))
      <3>1. v.order = w.order /\ v.attempts = w.attempts
        BY <1>2, <1>3, <1>5, <1>a, <2>2 DEF Tightened, Lower
      <3>2. PlannedCalls(v) = PlannedCalls(w) /\ calls = PlannedCalls(w)
        BY <1>2, <1>3, <1>7, <2>2, <3>1 DEF PlannedCalls
      <3>3. Len(w.order) >= 1
        BY <1>2, <1>3, <3>2
      <3> QED BY <3>1, <3>2, <3>3
    <2> QED BY <2>1, <2>2
  \* The time.
  <1>9. set.timeout > 0 => PlannedSeconds(v) # 0 /\ PlannedSeconds(v) <= set.timeout
    <2>1. CASE "timeout" \in over
      <3> SUFFICES ASSUME set.timeout > 0 PROVE PlannedSeconds(v) # 0 /\ PlannedSeconds(v) <= set.timeout
        OBVIOUS
      <3>1. v.wall = Tightened(w.wall, set.timeout * TicksPerSecond)
        BY <1>3, <1>5, <2>1
      <3>2. v.wall > 0 /\ v.wall <= set.timeout * TicksPerSecond
        <4>1. set.timeout * TicksPerSecond \in Nat /\ set.timeout * TicksPerSecond > 0
          BY <1>1, InTicks
        <4> QED BY <1>2, <3>1, <4>1 DEF Tightened, Lower
      <3>3. Seconds(v.wall) \in Nat /\ Seconds(v.wall) <= set.timeout /\ Seconds(v.wall) > 0
        BY <1>1, <1>6, <3>2, RoundedUp
      <3> QED BY <3>2, <3>3 DEF PlannedSeconds
    <2>2. CASE "timeout" \notin over
      <3>1. set.timeout > 0 => PlannedSeconds(w) # 0 /\ PlannedSeconds(w) <= set.timeout
        BY <1>1, <1>2, <2>2 DEF over, Exceeded
      <3>2. v.wall = w.wall /\ v.research = w.research
        BY <1>2, <1>3, <1>5, <1>a, <2>2 DEF Tightened, Lower
      <3> QED BY <3>1, <3>2 DEF PlannedSeconds
    <2> QED BY <2>1, <2>2
  \* The context.
  <1>10. set.context > 0 => PlannedContext(v) <= set.context
    <2>1. CASE "context" \in over
      <3>1. set.context > 0 => v.context > 0 /\ v.context <= set.context
        BY <1>1, <1>2, <1>3, <1>5, <1>a, <2>1 DEF Tightened, Lower
      <3> QED BY <1>1, <1>6, <3>1 DEF PlannedContext
    <2>2. CASE "context" \notin over
      <3>1. v.context = w.context /\ v.extract = w.extract
        BY <1>2, <1>3, <1>5, <1>a, <2>2 DEF Tightened, Lower
      <3>2. PlannedContext(v) = PlannedContext(w)
        BY <3>1 DEF PlannedContext
      <3>3. set.context > 0 => PlannedContext(w) <= set.context
        BY <1>1, <1>2, <2>2 DEF over, Exceeded
      <3> QED BY <3>2, <3>3
    <2> QED BY <2>1, <2>2
  <1>11. Exceeded(v, set, s) = {}
    <2>1. set.quota > 0 => s \in Nat
      BY <1>1, <1>3 DEF over, Exceeded
    <2>2. ~ (set.calls > 0 /\ PlannedCalls(v) > set.calls)
      BY <1>1, <1>3, <1>7, <1>8
    <2>3. ~ (set.quota > 0 /\ (s = NoSnapshot \/ PlannedCalls(v) + s > set.quota))
      BY <1>1, <1>3, <1>7, <1>8, <2>1, PreflightAssumption
    <2>4. PlannedSeconds(v) \in Nat /\ PlannedContext(v) \in Nat
      BY <1>5, PlannedNumbers
    <2>5. ~ (set.timeout > 0 /\ (PlannedSeconds(v) = 0 \/ PlannedSeconds(v) > set.timeout))
      BY <1>1, <1>9, <2>4
    <2>6. ~ (set.context > 0 /\ PlannedContext(v) > set.context)
      BY <1>1, <1>10, <2>4
    <2> QED BY <2>2, <2>3, <2>5, <2>6 DEF Exceeded
  <1>12. Preflight(v, set, s) = Plain
    BY <1>5, <1>11, Passes
  <1>13. w.wall > 0 => v.wall <= w.wall
    BY <1>2, <1>5, <1>a DEF Tightened, Lower
  <1>14. w.context > 0 => v.context <= w.context
    BY <1>2, <1>5, <1>a DEF Tightened, Lower
  <1> QED BY <1>5, <1>7, <1>8, <1>12, <1>13, <1>14

RequestSteps == {"idle", "refused", "absent", "lookup", "looking", "execute", "write", "answered"}

\* A request at work is one that may be asked for, as the preflight has left it; only one
\* that may use the cache does.
Admitted(r) == req[r].step # "idle" =>
    /\ req[r].in \in Inputs[r]
    /\ \E s \in Snapshots : req[r].cuts = Preflight(req[r].in.wish, req[r].in.set, s)
    /\ req[r].wish = Applied(req[r].in.wish, req[r].cuts)
    /\ req[r].step \in {"lookup", "looking", "write"} => CacheEnabled(req[r].in)
    /\ req[r].step \notin {"refused", "answered"} => req[r].cuts.action # "abort"

\* What has been read may be served: young enough, with the attempt bound of the key.
ReadFits(r) == req[r].step = "looking" /\ look[r].step = "hit" =>
    /\ look[r].data.facts.attempts = req[r].wish.attempts
    /\ look[r].age <= req[r].in.ttl + req[r].in.stale

\* What will be written is this request's own response.
WritesOwn(r) == req[r].step = "write" =>
    /\ answer[r].from = "provider"
    /\ answer[r].facts.attempts = req[r].wish.attempts

AnswerFits(r) == req[r].step = "answered" /\ answer[r].from = "cache" =>
    /\ answer[r].facts.order = req[r].wish.order
    /\ answer[r].facts.attempts = req[r].wish.attempts
    /\ answer[r].age <= req[r].in.ttl + req[r].in.stale
    /\ answer[r].degraded = (answer[r].age > req[r].in.ttl)

\* The records of a reader keep their fields.
Fielded(r) ==
    /\ req[r] = [step |-> req[r].step, in |-> req[r].in, wish |-> req[r].wish, cuts |-> req[r].cuts]
    /\ look[r] = [step |-> look[r].step, key |-> look[r].key, data |-> look[r].data,
                  suffix |-> look[r].suffix, age |-> look[r].age]
    /\ req[r].step \in RequestSteps

ReaderInv(r) == Fielded(r) /\ Admitted(r) /\ ReadFits(r) /\ WritesOwn(r) /\ AnswerFits(r)

\* An entry carries the attempt bound of the key it is filed under, whoever wrote it.
FiledRight ==
    /\ DOMAIN file = CacheKeys
    /\ \A k \in CacheKeys : file[k] # NoFile /\ file[k].kind = "entry" => file[k].facts.attempts = k[1]

OrchInv ==
    /\ DOMAIN req = Readers /\ DOMAIN look = Readers /\ DOMAIN answer = Readers
    /\ FiledRight
    /\ spent \in 0 .. MaxSpent
    /\ \A r \in Readers : ReaderInv(r)

LEMMA InputTypes ==
    ASSUME NEW r \in Readers, NEW in \in Inputs[r]
    PROVE  in.wish \in AnyWish /\ in.set \in AnySet
  BY OrchAssumption DEF AnyWish, AnySet

LEMMA SnapshotTypes == \A s \in Snapshots : s \in Nat \cup {NoSnapshot}
  BY OrchAssumption DEF Snapshots

\* The request that is executed is one.
LEMMA AdmittedWish ==
    ASSUME NEW r \in Readers, Admitted(r), req[r].step # "idle"
    PROVE  req[r].wish \in AnyWish
  <1>1. req[r].in \in Inputs[r] /\ req[r].wish = Applied(req[r].in.wish, req[r].cuts)
    BY DEF Admitted
  <1>2. PICK s \in Snapshots : req[r].cuts = Preflight(req[r].in.wish, req[r].in.set, s)
    BY DEF Admitted
  <1>3. req[r].in.wish \in AnyWish /\ req[r].in.set \in AnySet /\ s \in Nat \cup {NoSnapshot}
    BY <1>1, InputTypes, SnapshotTypes
  <1> DEFINE w == req[r].in.wish
             set == req[r].in.set
             d == req[r].cuts
  <1>4. /\ d \in AnyCuts
        /\ d.action # "degrade" => d.calls = 0
        /\ d.action = "degrade" =>
             d.calls = (IF AllowedCalls(w, set, s) < PlannedCalls(w) THEN AllowedCalls(w, set, s) ELSE 0)
             /\ AllowedCalls(w, set, s) \in Nat
    BY <1>2, <1>3, Decided
  <1>5. Len(w.order) \in Nat /\ PlannedCalls(w) \in Nat /\ PlannedCalls(w) <= Len(w.order)
    BY <1>3, PlannedNumbers
  <1>6. d.calls <= Len(w.order)
    BY <1>4, <1>5
  <1> QED BY <1>1, <1>3, <1>4, <1>6, WhatIsLeft

LEMMA KeyIsAFile ==
    ASSUME NEW r \in Readers, Admitted(r), req[r].step \in {"lookup", "looking", "write"}
    PROVE  KeyOf(req[r].wish) \in CacheKeys /\ KeyOf(req[r].wish)[1] = req[r].wish.attempts
  <1>1. /\ req[r].in \in Inputs[r] /\ req[r].wish = Applied(req[r].in.wish, req[r].cuts)
        /\ CacheEnabled(req[r].in) /\ req[r].cuts.action # "abort"
    BY DEF Admitted
  <1>2. PICK s \in Snapshots : req[r].cuts = Preflight(req[r].in.wish, req[r].in.set, s)
    BY DEF Admitted
  <1>3. KeyOf(req[r].wish) \in CacheKeys
    BY <1>1, <1>2, OrchAssumption
  <1> QED BY <1>3 DEF KeyOf

LEMMA InitOrch == OrchInit => OrchInv
  <1> SUFFICES ASSUME OrchInit PROVE OrchInv
    OBVIOUS
  <1>1. FiledRight
    BY OrchAssumption DEF OrchInit, CacheInit, FiledRight
  <1>2. spent \in 0 .. MaxSpent
    BY OrchAssumption DEF OrchInit
  <1>3. ASSUME NEW r \in Readers PROVE ReaderInv(r)
    BY DEF OrchInit, CacheInit, Idle, NoLook, Looking, ReaderInv, Fielded, Admitted, ReadFits, WritesOwn, AnswerFits, RequestSteps
  <1> QED BY <1>1, <1>2, <1>3 DEF OrchInit, CacheInit, OrchInv

\* A step of one reader.
LEMMA OneReader ==
    ASSUME OrchInv, NEW r \in Readers,
           DOMAIN req' = Readers, DOMAIN look' = Readers, DOMAIN answer' = Readers,
           \A q \in Readers \ {r} : req'[q] = req[q] /\ look'[q] = look[q] /\ answer'[q] = answer[q],
           FiledRight', spent' \in 0 .. MaxSpent, ReaderInv(r)'
    PROVE  OrchInv'
  <1>1. ASSUME NEW q \in Readers \ {r} PROVE ReaderInv(q)'
    <2>1. ReaderInv(q) /\ req'[q] = req[q] /\ look'[q] = look[q] /\ answer'[q] = answer[q]
      BY DEF OrchInv
    <2>2. /\ Fielded(q)' <=> Fielded(q)
          /\ Admitted(q)' <=> Admitted(q)
          /\ ReadFits(q)' <=> ReadFits(q)
          /\ WritesOwn(q)' <=> WritesOwn(q)
          /\ AnswerFits(q)' <=> AnswerFits(q)
      <3>1. Fielded(q)' <=> Fielded(q)
        BY ONLY <2>1 DEF Fielded
      <3>2. Admitted(q)' <=> Admitted(q)
        BY ONLY <2>1 DEF Admitted
      <3>3. (ReadFits(q)' <=> ReadFits(q)) /\ (WritesOwn(q)' <=> WritesOwn(q))
        BY ONLY <2>1 DEF ReadFits, WritesOwn
      <3>4. AnswerFits(q)' <=> AnswerFits(q)
        BY ONLY <2>1 DEF AnswerFits
      <3> QED BY <3>1, <3>2, <3>3, <3>4
    <2> QED BY ONLY <2>1, <2>2 DEF ReaderInv
  <1> QED BY <1>1 DEF OrchInv

LEMMA FilesStay == ASSUME FiledRight, file' = file PROVE FiledRight'
  BY DEF FiledRight

LEMMA BeginKeeps ==
    ASSUME OrchInv, NEW r \in Readers, Begin(r)
    PROVE  OrchInv'
  <1>1. UNCHANGED <<file, look, answer, spent>> /\ look[r] = NoLook /\ ReaderInv(r)
    BY DEF Begin, OrchInv
  <1>2. PICK in \in Inputs[r], snapshot \in {spent, NoSnapshot} :
          LET d == Preflight(in.wish, in.set, snapshot) IN
          req' = [req EXCEPT ![r] =
                    [step |-> IF d.action = "abort" THEN "refused"
                              ELSE IF CacheEnabled(in) THEN "lookup" ELSE Uncached(r, in),
                     in |-> in, wish |-> Applied(in.wish, d), cuts |-> d]]
    BY DEF Begin
  <1> DEFINE d == Preflight(in.wish, in.set, snapshot)
             place == IF d.action = "abort" THEN "refused"
                     ELSE IF CacheEnabled(in) THEN "lookup" ELSE Uncached(r, in)
  <1>3. snapshot \in Snapshots
    BY DEF Snapshots, OrchInv
  <1>4. DOMAIN req' = Readers /\ \A q \in Readers \ {r} : req'[q] = req[q]
    BY <1>2 DEF OrchInv
  <1>5. req'[r] = [step |-> place, in |-> in, wish |-> Applied(in.wish, d), cuts |-> d]
    BY <1>2 DEF OrchInv
  <1>6. /\ place \in {"refused", "absent", "lookup", "execute"}
        /\ place = "lookup" => CacheEnabled(in)
        /\ place # "refused" => d.action # "abort"
    BY DEF Uncached
  <1>d. d = Preflight(in.wish, in.set, snapshot)
    OBVIOUS
  <1> HIDE DEF place, d
  <1>7. ReaderInv(r)'
    <2>1. Fielded(r)'
      BY <1>1, <1>5, <1>6 DEF ReaderInv, Fielded, RequestSteps
    <2>2. Admitted(r)'
      BY <1>d, <1>3, <1>5, <1>6 DEF Admitted
    <2> QED BY <1>5, <1>6, <2>1, <2>2 DEF ReaderInv, ReadFits, WritesOwn, AnswerFits
  <1> QED BY <1>1, <1>4, <1>7, OneReader, FilesStay DEF OrchInv

\* A step that only changes where a request stands.
LEMMA StepMoves ==
    ASSUME OrchInv, NEW r \in Readers, NEW place \in RequestSteps, req' = [req EXCEPT ![r].step = place]
    PROVE  /\ DOMAIN req' = Readers
           /\ \A q \in Readers \ {r} : req'[q] = req[q]
           /\ req'[r] = [step |-> place, in |-> req[r].in, wish |-> req[r].wish, cuts |-> req[r].cuts]
  <1>1. req[r] = [step |-> req[r].step, in |-> req[r].in, wish |-> req[r].wish, cuts |-> req[r].cuts]
    BY DEF OrchInv, ReaderInv, Fielded
  <1>2. req'[r] = [req[r] EXCEPT !.step = place]
    BY DEF OrchInv
  <1>3. req'[r] = [step |-> place, in |-> req[r].in, wish |-> req[r].wish, cuts |-> req[r].cuts]
    BY <1>1, <1>2
  <1> QED BY <1>3 DEF OrchInv

LEMMA AnswerMoves ==
    ASSUME OrchInv, NEW r \in Readers, NEW a, answer' = [answer EXCEPT ![r] = a]
    PROVE  DOMAIN answer' = Readers /\ answer'[r] = a /\ \A q \in Readers \ {r} : answer'[q] = answer[q]
  BY DEF OrchInv

LEMMA LookMoves ==
    ASSUME OrchInv, NEW r \in Readers, NEW l, look' = [look EXCEPT ![r] = l]
    PROVE  DOMAIN look' = Readers /\ look'[r] = l /\ \A q \in Readers \ {r} : look'[q] = look[q]
  BY DEF OrchInv

LEMMA Looks ==
    /\ NoLook.step = "none"
    /\ NoLook = [step |-> NoLook.step, key |-> NoLook.key, data |-> NoLook.data, suffix |-> NoLook.suffix, age |-> NoLook.age]
    /\ NoLook' = NoLook
    /\ Missed.step = "missed"
    /\ Missed = [step |-> Missed.step, key |-> Missed.key, data |-> Missed.data, suffix |-> Missed.suffix, age |-> Missed.age]
  <1> DEFINE k == CHOOSE x \in CacheKeys : TRUE
  <1>1. NoLook = [step |-> "none", key |-> k, data |-> NoFile, suffix |-> 0, age |-> 0]
    BY DEF NoLook, Looking, AgeOf
  <1>2. NoLook' = [step |-> "none", key |-> k, data |-> NoFile, suffix |-> 0, age |-> 0]
    BY DEF NoLook, Looking, AgeOf
  <1>3. Missed = [NoLook EXCEPT !.step = "missed"]
    BY DEF Missed
  <1> HIDE DEF k
  <1>4. Missed = [step |-> "missed", key |-> k, data |-> NoFile, suffix |-> 0, age |-> 0]
    BY <1>1, <1>3
  <1> QED BY <1>1, <1>2, <1>4

LEMMA RefuseKeeps ==
    ASSUME OrchInv, NEW r \in Readers, Refuse(r)
    PROVE  OrchInv'
  <1>1. /\ UNCHANGED <<file, look, spent>> /\ ReaderInv(r) /\ req[r].step \in {"refused", "absent"}
        /\ req' = [req EXCEPT ![r].step = "answered"] /\ "answered" \in RequestSteps
    BY DEF Refuse, Answered, OrchInv, RequestSteps
  <1>2. PICK a : answer' = [answer EXCEPT ![r] = a] /\ a.from \in {"refused", "absent"}
    <2> DEFINE a == [from |-> req[r].step, facts |-> NoFacts, actions |-> Evidence(req[r].cuts),
                     degraded |-> FALSE, age |-> 0]
    <2>1. answer' = [answer EXCEPT ![r] = a]
      BY DEF Refuse, Answered
    <2>2. a.from \in {"refused", "absent"}
      BY <1>1
    <2> QED BY <2>1, <2>2
  <1>3. ReaderInv(r)'
    <2>1. req'[r] = [step |-> "answered", in |-> req[r].in, wish |-> req[r].wish, cuts |-> req[r].cuts]
      BY <1>1, StepMoves
    <2>2. answer'[r] = a
      BY <1>2, AnswerMoves
    <2> QED BY <1>1, <1>2, <2>1, <2>2 DEF ReaderInv, Fielded, RequestSteps, Admitted, ReadFits, WritesOwn, AnswerFits
  <1>4. /\ DOMAIN req' = Readers /\ DOMAIN look' = Readers /\ DOMAIN answer' = Readers
        /\ \A q \in Readers \ {r} : req'[q] = req[q] /\ look'[q] = look[q] /\ answer'[q] = answer[q]
    BY <1>1, <1>2, StepMoves, AnswerMoves DEF OrchInv
  <1> QED BY <1>1, <1>3, <1>4, OneReader, FilesStay DEF OrchInv

LEMMA LookupKeeps ==
    ASSUME OrchInv, NEW r \in Readers, Lookup(r)
    PROVE  OrchInv'
  <1> DEFINE key == KeyOf(req[r].wish)
             verdict == Judged(file[key], req[r].in.ttl, req[r].in.stale)
             l == IF verdict = "missed" THEN Missed ELSE Looking(verdict, key, file[key])
  <1>1. /\ UNCHANGED <<file, now, spent, answer>> /\ ReaderInv(r) /\ req[r].step = "lookup"
        /\ req' = [req EXCEPT ![r].step = "looking"] /\ "looking" \in RequestSteps
        /\ look' = [look EXCEPT ![r] = l]
    BY DEF Lookup, Get, ToStep, OrchInv, RequestSteps
  <1>2. key \in CacheKeys /\ key[1] = req[r].wish.attempts
    BY <1>1, KeyIsAFile DEF ReaderInv
  <1>3. verdict = "hit" =>
          /\ file[key].facts.attempts = req[r].wish.attempts
          /\ AgeOf(file[key]) <= req[r].in.ttl + req[r].in.stale
    <2>1. verdict = "hit" => file[key] # NoFile /\ file[key].kind = "entry" /\ Fresh(file[key], req[r].in.ttl, req[r].in.stale)
      BY DEF Judged
    <2> QED BY <1>2, <2>1 DEF Fresh, OrchInv, FiledRight
  <1>4. /\ l = [step |-> l.step, key |-> l.key, data |-> l.data, suffix |-> l.suffix, age |-> l.age]
        /\ l.step = "hit" =>
             /\ l.data.facts.attempts = req[r].wish.attempts
             /\ l.age <= req[r].in.ttl + req[r].in.stale
    <2>1. CASE verdict = "missed"
      <3>1. l = Missed
        BY <2>1
      <3> HIDE DEF l
      <3> QED BY <3>1, Looks
    <2>2. CASE verdict # "missed"
      <3>1. l = Looking(verdict, key, file[key])
        BY <2>2
      <3> HIDE DEF l, verdict, key
      <3> QED BY <1>3, <3>1 DEF Looking
    <2> QED BY <2>1, <2>2
  <1> HIDE DEF l, verdict, key
  <1>5. ReaderInv(r)'
    <2>1. req'[r] = [step |-> "looking", in |-> req[r].in, wish |-> req[r].wish, cuts |-> req[r].cuts]
      BY <1>1, StepMoves
    <2>2. look'[r] = l
      BY <1>1, LookMoves
    <2>3. Fielded(r)'
      BY <1>1, <1>4, <2>1, <2>2 DEF ReaderInv, Fielded, RequestSteps
    <2>4. Admitted(r)'
      BY <1>1, <2>1 DEF ReaderInv, Admitted
    <2>5. AnswerFits(r)'
      BY <1>1, <2>1 DEF ReaderInv, AnswerFits
    <2> QED BY <1>1, <1>4, <2>1, <2>2, <2>3, <2>4, <2>5 DEF ReaderInv, ReadFits, WritesOwn
  <1>6. /\ DOMAIN req' = Readers /\ DOMAIN look' = Readers /\ DOMAIN answer' = Readers
        /\ \A q \in Readers \ {r} : req'[q] = req[q] /\ look'[q] = look[q] /\ answer'[q] = answer[q]
    BY <1>1, StepMoves, LookMoves DEF OrchInv
  <1> QED BY <1>1, <1>5, <1>6, OneReader, FilesStay DEF OrchInv

LEMMA ServeKeeps ==
    ASSUME OrchInv, NEW r \in Readers, Serve(r)
    PROVE  OrchInv'
  <1> DEFINE l == look[r]
             a == [from |-> "cache", facts |-> l.data.facts, actions |-> l.data.facts.actions \o Evidence(req[r].cuts),
                   degraded |-> (l.age > req[r].in.ttl), age |-> l.age]
  <1>1. /\ UNCHANGED <<file, spent>> /\ ReaderInv(r) /\ req[r].step = "looking" /\ l.step = "hit"
        /\ l.data.facts.order = req[r].wish.order
        /\ req' = [req EXCEPT ![r].step = "answered"] /\ "answered" \in RequestSteps
        /\ look' = [look EXCEPT ![r] = NoLook]
        /\ answer' = [answer EXCEPT ![r] = a]
    BY DEF Serve, Answered, Fits, OrchInv, RequestSteps
  <1>2. /\ l.data.facts.attempts = req[r].wish.attempts
        /\ l.age <= req[r].in.ttl + req[r].in.stale
    BY <1>1 DEF ReaderInv, ReadFits
  <1>3. ReaderInv(r)'
    <2>1. req'[r] = [step |-> "answered", in |-> req[r].in, wish |-> req[r].wish, cuts |-> req[r].cuts]
      BY <1>1, StepMoves
    <2>2. look'[r] = NoLook
      BY <1>1, LookMoves
    <2>3. answer'[r] = a
      BY <1>1, AnswerMoves
    <2>4. /\ answer'[r].facts = l.data.facts /\ answer'[r].age = l.age
          /\ answer'[r].degraded = (l.age > req[r].in.ttl)
      BY <2>3
    <2> HIDE DEF a, l
    <2>5. Fielded(r)'
      BY <2>1, <2>2, Looks DEF Fielded, RequestSteps
    <2>6. Admitted(r)'
      BY <1>1, <2>1 DEF ReaderInv, Admitted
    <2>7. AnswerFits(r)'
      BY <1>1, <1>2, <2>1, <2>4 DEF AnswerFits
    <2> QED BY <2>1, <2>5, <2>6, <2>7 DEF ReaderInv, ReadFits, WritesOwn
  <1>4. /\ DOMAIN req' = Readers /\ DOMAIN look' = Readers /\ DOMAIN answer' = Readers
        /\ \A q \in Readers \ {r} : req'[q] = req[q] /\ look'[q] = look[q] /\ answer'[q] = answer[q]
    <2> HIDE DEF a, l
    <2>1. DOMAIN req' = Readers /\ \A q \in Readers \ {r} : req'[q] = req[q]
      BY <1>1, StepMoves
    <2>2. DOMAIN look' = Readers /\ \A q \in Readers \ {r} : look'[q] = look[q]
      BY <1>1, LookMoves
    <2>3. DOMAIN answer' = Readers /\ \A q \in Readers \ {r} : answer'[q] = answer[q]
      BY <1>1, AnswerMoves
    <2> QED BY <2>1, <2>2, <2>3
  <1> QED BY <1>1, <1>3, <1>4, OneReader, FilesStay DEF OrchInv

LEMMA MissKeeps ==
    ASSUME OrchInv, NEW r \in Readers, Miss(r)
    PROVE  OrchInv'
  <1> DEFINE place == Uncached(r, req[r].in)
  <1>1. /\ UNCHANGED <<file, spent, answer>> /\ ReaderInv(r) /\ req[r].step = "looking"
        /\ req' = [req EXCEPT ![r].step = place] /\ place \in {"absent", "execute"} /\ place \in RequestSteps
        /\ look' = [look EXCEPT ![r] = NoLook]
    BY DEF Miss, ToStep, Uncached, OrchInv, RequestSteps
  <1> HIDE DEF place
  <1>2. ReaderInv(r)'
    <2>1. req'[r] = [step |-> place, in |-> req[r].in, wish |-> req[r].wish, cuts |-> req[r].cuts]
      BY <1>1, StepMoves
    <2>2. look'[r] = NoLook
      BY <1>1, LookMoves
    <2> QED BY <1>1, <2>1, <2>2, Looks DEF ReaderInv, Fielded, RequestSteps, Admitted, ReadFits, WritesOwn, AnswerFits
  <1>3. /\ DOMAIN req' = Readers /\ DOMAIN look' = Readers /\ DOMAIN answer' = Readers
        /\ \A q \in Readers \ {r} : req'[q] = req[q] /\ look'[q] = look[q] /\ answer'[q] = answer[q]
    BY <1>1, StepMoves, LookMoves DEF OrchInv
  <1> QED BY <1>1, <1>2, <1>3, OneReader, FilesStay DEF OrchInv

LEMMA ExecuteKeeps ==
    ASSUME OrchInv, NEW r \in Readers, Execute(r)
    PROVE  OrchInv'
  <1>1. /\ UNCHANGED <<file, look>> /\ ReaderInv(r) /\ req[r].step = "execute"
    BY DEF Execute, OrchInv
  <1>a. \E place \in {"write", "answered"} : \E a :
          /\ req' = [req EXCEPT ![r].step = place]
          /\ answer' = [answer EXCEPT ![r] = a]
          /\ a.from = "provider"
          /\ a.facts.attempts = req[r].wish.attempts
          /\ place = "write" => CacheEnabled(req[r].in)
    <2> DEFINE facts == [order |-> req[r].wish.order, attempts |-> req[r].wish.attempts, actions |-> Evidence(req[r].cuts)]
               written == [Silence EXCEPT !.from = "provider", !.facts = facts, !.actions = facts.actions]
               relayed == [from |-> "provider", facts |-> facts, actions |-> facts.actions, degraded |-> FALSE, age |-> 0]
    <2>1. facts.attempts = req[r].wish.attempts
      OBVIOUS
    <2>2. written.from = "provider" /\ written.facts = facts /\ relayed.from = "provider" /\ relayed.facts = facts
      BY DEF Silence
    <2>3. \/ /\ req' = [req EXCEPT ![r].step = "write"] /\ answer' = [answer EXCEPT ![r] = written]
             /\ CacheEnabled(req[r].in)
          \/ req' = [req EXCEPT ![r].step = "answered"] /\ answer' = [answer EXCEPT ![r] = relayed]
      BY DEF Execute, Answered
    <2> HIDE DEF facts, written, relayed
    <2>4. CASE /\ req' = [req EXCEPT ![r].step = "write"] /\ answer' = [answer EXCEPT ![r] = written]
               /\ CacheEnabled(req[r].in)
      BY <2>1, <2>2, <2>4
    <2>5. CASE req' = [req EXCEPT ![r].step = "answered"] /\ answer' = [answer EXCEPT ![r] = relayed]
      BY <2>1, <2>2, <2>5
    <2> QED BY <2>3, <2>4, <2>5
  <1>b. PICK place \in {"write", "answered"} : \E a :
          /\ req' = [req EXCEPT ![r].step = place]
          /\ answer' = [answer EXCEPT ![r] = a]
          /\ a.from = "provider"
          /\ a.facts.attempts = req[r].wish.attempts
          /\ place = "write" => CacheEnabled(req[r].in)
    BY <1>a
  <1>2. PICK a :
          /\ req' = [req EXCEPT ![r].step = place]
          /\ answer' = [answer EXCEPT ![r] = a]
          /\ a.from = "provider"
          /\ a.facts.attempts = req[r].wish.attempts
          /\ place = "write" => CacheEnabled(req[r].in)
    BY <1>b
  <1>3. place \in RequestSteps
    BY DEF RequestSteps
  <1>4. spent' \in 0 .. MaxSpent
    <2>1. PICK calls \in 0 .. PlannedCalls(req[r].wish) : spent' = Lower(spent + calls, MaxSpent)
      BY DEF Execute
    <2>2. PlannedCalls(req[r].wish) \in Nat
      BY <1>1, AdmittedWish, PlannedNumbers DEF ReaderInv
    <2>3. spent \in Nat /\ MaxSpent \in Nat /\ calls \in Nat
      BY <2>1, <2>2, OrchAssumption DEF OrchInv
    <2> QED BY <2>1, <2>3 DEF Lower
  <1>5. ReaderInv(r)'
    <2>1. req'[r] = [step |-> place, in |-> req[r].in, wish |-> req[r].wish, cuts |-> req[r].cuts]
      BY <1>2, <1>3, StepMoves
    <2>2. answer'[r] = a
      BY <1>2, AnswerMoves
    <2> QED BY <1>1, <1>2, <2>1, <2>2 DEF ReaderInv, Fielded, RequestSteps, Admitted, ReadFits, WritesOwn, AnswerFits
  <1>6. /\ DOMAIN req' = Readers /\ DOMAIN look' = Readers /\ DOMAIN answer' = Readers
        /\ \A q \in Readers \ {r} : req'[q] = req[q] /\ look'[q] = look[q] /\ answer'[q] = answer[q]
    BY <1>1, <1>2, <1>3, StepMoves, AnswerMoves DEF OrchInv
  <1> QED BY <1>1, <1>4, <1>5, <1>6, OneReader, FilesStay DEF OrchInv

LEMMA WriteBackKeeps ==
    ASSUME OrchInv, NEW r \in Readers, WriteBack(r)
    PROVE  OrchInv'
  <1>1. /\ UNCHANGED <<look, spent, answer>> /\ ReaderInv(r) /\ req[r].step = "write"
        /\ req' = [req EXCEPT ![r].step = "answered"] /\ "answered" \in RequestSteps
    BY DEF WriteBack, ToStep, OrchInv, RequestSteps
  <1>2. FiledRight'
    <2>1. KeyOf(req[r].wish)[1] = req[r].wish.attempts /\ answer[r].facts.attempts = req[r].wish.attempts
      BY <1>1, KeyIsAFile DEF ReaderInv, WritesOwn
    <2>2. CASE Replaced(KeyOf(req[r].wish), answer[r].facts)
      <3>1. PICK c : file' = [file EXCEPT ![KeyOf(req[r].wish)] = c] /\ c.facts.attempts = req[r].wish.attempts
        <4> DEFINE c == [kind |-> "entry", facts |-> answer[r].facts, stamp |-> now]
        <4>1. file' = [file EXCEPT ![KeyOf(req[r].wish)] = c]
          BY <2>2 DEF Replaced
        <4>2. c.facts.attempts = req[r].wish.attempts
          BY <2>1
        <4> QED BY <4>1, <4>2
      <3> QED BY <2>1, <3>1 DEF OrchInv, FiledRight
    <2>3. CASE file' = file
      BY <2>3, FilesStay DEF OrchInv
    <2> QED BY <2>2, <2>3 DEF WriteBack
  <1>3. ReaderInv(r)'
    <2>1. req'[r] = [step |-> "answered", in |-> req[r].in, wish |-> req[r].wish, cuts |-> req[r].cuts]
      BY <1>1, StepMoves
    <2> QED BY <1>1, <2>1 DEF ReaderInv, Fielded, RequestSteps, Admitted, ReadFits, WritesOwn, AnswerFits
  <1>4. /\ DOMAIN req' = Readers /\ DOMAIN look' = Readers /\ DOMAIN answer' = Readers
        /\ \A q \in Readers \ {r} : req'[q] = req[q] /\ look'[q] = look[q] /\ answer'[q] = answer[q]
    BY <1>1, StepMoves DEF OrchInv
  <1> QED BY <1>1, <1>2, <1>3, <1>4, OneReader DEF OrchInv

LEMMA ReturnKeeps ==
    ASSUME OrchInv, NEW r \in Readers, Return(r)
    PROVE  OrchInv'
  <1>1. /\ UNCHANGED <<file, look, spent>> /\ ReaderInv(r)
        /\ req' = [req EXCEPT ![r] = Idle] /\ answer' = [answer EXCEPT ![r] = Silence]
    BY DEF Return, OrchInv
  <1>2. req'[r] = Idle /\ DOMAIN req' = Readers /\ \A q \in Readers \ {r} : req'[q] = req[q]
    BY <1>1 DEF OrchInv
  <1>3. ReaderInv(r)'
    BY <1>1, <1>2 DEF ReaderInv, Fielded, RequestSteps, Admitted, ReadFits, WritesOwn, AnswerFits, Idle
  <1>4. /\ DOMAIN look' = Readers /\ DOMAIN answer' = Readers
        /\ \A q \in Readers \ {r} : look'[q] = look[q] /\ answer'[q] = answer[q]
    BY <1>1, AnswerMoves DEF OrchInv
  <1> QED BY <1>1, <1>2, <1>3, <1>4, OneReader, FilesStay DEF OrchInv

\* What readers and operators do to the files makes no response of another key.
LEMMA HousekeepingKeeps ==
    ASSUME OrchInv, Housekeeping
    PROVE  OrchInv'
  <1>1. UNCHANGED <<req, answer, spent>>
    BY DEF Housekeeping
  <1>2. CASE ClearAside \/ CacheTick
    <2>1. UNCHANGED <<file, look>>
      BY <1>2 DEF ClearAside, CacheTick
    <2>2. ASSUME NEW r \in Readers PROVE ReaderInv(r)'
      BY <1>1, <2>1 DEF OrchInv, ReaderInv, Fielded, Admitted, ReadFits, WritesOwn, AnswerFits
    <2> QED BY <1>1, <2>1, <2>2, FilesStay DEF OrchInv
  <1>3. ASSUME NEW r \in Readers, Tidy(r) \/ (req[r].step = "idle" /\ ClearEntry(r))
        PROVE  OrchInv'
    <2>1. ReaderInv(r) /\ FiledRight
      BY DEF OrchInv
    <2>2. FiledRight'
      <3>1. file' = file \/ file' = [file EXCEPT ![look[r].key] = NoFile]
        BY <1>3 DEF Tidy, ReadBytes, TryName, MoveAside, Unlink, ClearEntry
      <3> QED BY <2>1, <3>1 DEF FiledRight
    <2>3. PICK l : /\ look' = [look EXCEPT ![r] = l]
                   /\ l = [step |-> l.step, key |-> l.key, data |-> l.data, suffix |-> l.suffix, age |-> l.age]
                   /\ l.step # "hit"
      <3>1. look[r] = [step |-> look[r].step, key |-> look[r].key, data |-> look[r].data,
                       suffix |-> look[r].suffix, age |-> look[r].age]
        BY <2>1 DEF ReaderInv, Fielded
      <3>2. CASE ReadBytes(r)
        <4> DEFINE c == file[look[r].key]
                   l == IF c = NoFile THEN Missed ELSE [look[r] EXCEPT !.step = "named", !.data = c]
        <4>1. look' = [look EXCEPT ![r] = l]
          BY <3>2 DEF ReadBytes
        <4>2. l = [step |-> l.step, key |-> l.key, data |-> l.data, suffix |-> l.suffix, age |-> l.age] /\ l.step # "hit"
          <5>1. CASE c = NoFile
            BY <5>1, Looks
          <5>2. CASE c # NoFile
            <6>1. l = [look[r] EXCEPT !.step = "named", !.data = c]
              BY <5>2
            <6>2. l = [step |-> "named", key |-> look[r].key, data |-> c, suffix |-> look[r].suffix, age |-> look[r].age]
              BY <3>1, <6>1
            <6> HIDE DEF l
            <6> QED BY <6>2
          <5> QED BY <5>1, <5>2
        <4> HIDE DEF l
        <4> QED BY <4>1, <4>2
      <3>3. CASE TryName(r)
        <4>1. PICK l \in {[look[r] EXCEPT !.step = "moving"], [look[r] EXCEPT !.step = "same"],
                          [look[r] EXCEPT !.suffix = look[r].suffix + 1], Missed} : look' = [look EXCEPT ![r] = l]
          <5>1. CASE Taken(look[r]) = {}
            BY <3>3, <5>1 DEF TryName
          <5>2. CASE Taken(look[r]) # {} /\ \E a \in Taken(look[r]) : a.data = look[r].data
            BY <3>3, <5>2 DEF TryName
          <5>3. CASE Taken(look[r]) # {} /\ (~ \E a \in Taken(look[r]) : a.data = look[r].data) /\ look[r].suffix < MaxSuffix
            <6>1. look' = [look EXCEPT ![r] = [look[r] EXCEPT !.suffix = look[r].suffix + 1]]
              BY <3>3, <5>3 DEF TryName
            <6> QED BY <6>1
          <5>4. CASE Taken(look[r]) # {} /\ (~ \E a \in Taken(look[r]) : a.data = look[r].data) /\ ~ (look[r].suffix < MaxSuffix)
            <6>1. look' = [look EXCEPT ![r] = Missed]
              BY <3>3, <5>4 DEF TryName
            <6> QED BY <6>1
          <5> QED BY <5>1, <5>2, <5>3, <5>4
        <4>2. look[r].step = "named"
          BY <3>3 DEF TryName
        <4>3. l = [step |-> l.step, key |-> l.key, data |-> l.data, suffix |-> l.suffix, age |-> l.age] /\ l.step # "hit"
          BY <3>1, <4>1, <4>2, Looks
        <4> QED BY <4>1, <4>3
      <3>4. CASE MoveAside(r)
        <4>1. look' = [look EXCEPT ![r] = Missed]
          BY <3>4 DEF MoveAside
        <4> QED BY <4>1, Looks
      <3>5. CASE Unlink(r)
        <4>1. look' = [look EXCEPT ![r] = NoLook] \/ look' = [look EXCEPT ![r] = Missed]
          BY <3>5 DEF Unlink
        <4> QED BY <4>1, Looks
      <3>6. CASE ClearEntry(r)
        <4>1. PICK k \in CacheKeys : look' = [look EXCEPT ![r] = Looking("cleared", k, file[k])]
          BY <3>6 DEF ClearEntry
        <4>2. LET l == Looking("cleared", k, file[k])
              IN  l = [step |-> l.step, key |-> l.key, data |-> l.data, suffix |-> l.suffix, age |-> l.age] /\ l.step # "hit"
          BY DEF Looking
        <4> QED BY <4>1, <4>2
      <3> QED BY <1>3, <3>2, <3>3, <3>4, <3>5, <3>6 DEF Tidy
    <2>4. look'[r] = l /\ DOMAIN look' = Readers /\ \A q \in Readers \ {r} : look'[q] = look[q]
      BY <2>3, LookMoves
    <2>5. ReaderInv(r)'
      BY <1>1, <2>1, <2>3, <2>4 DEF ReaderInv, Fielded, Admitted, ReadFits, WritesOwn, AnswerFits
    <2>6. /\ DOMAIN req' = Readers /\ DOMAIN answer' = Readers /\ spent' \in 0 .. MaxSpent
          /\ \A q \in Readers \ {r} : req'[q] = req[q] /\ look'[q] = look[q] /\ answer'[q] = answer[q]
      BY <1>1, <2>4 DEF OrchInv
    <2> QED BY <2>2, <2>4, <2>5, <2>6, OneReader
  <1> QED BY <1>2, <1>3 DEF Housekeeping

LEMMA StepOrch == OrchInv /\ [OrchNext]_orchvars => OrchInv'
  <1> SUFFICES ASSUME OrchInv, [OrchNext]_orchvars PROVE OrchInv'
    OBVIOUS
  <1>1. ASSUME NEW r \in Readers,
               \/ Begin(r) \/ Refuse(r) \/ Lookup(r) \/ Serve(r) \/ Miss(r)
               \/ Execute(r) \/ WriteBack(r) \/ Return(r)
        PROVE  OrchInv'
    BY <1>1, BeginKeeps, RefuseKeeps, LookupKeeps, ServeKeeps, MissKeeps, ExecuteKeeps, WriteBackKeeps, ReturnKeeps
  <1>2. CASE UNCHANGED orchvars
    <2>1. UNCHANGED <<file, look, req, answer, spent>>
      BY <1>2 DEF orchvars
    <2>2. ASSUME NEW r \in Readers PROVE ReaderInv(r)'
      BY <2>1 DEF OrchInv, ReaderInv, Fielded, Admitted, ReadFits, WritesOwn, AnswerFits
    <2> QED BY <2>1, <2>2, FilesStay DEF OrchInv
  <1> QED BY <1>1, <1>2, HousekeepingKeeps DEF OrchNext

\* A response from the cache is one this very request could have got, and the preflight's
\* cuts are enough, whatever other requests, readers and operators do to the directory and
\* the ledger (execute_v3_request, ResponseCacheV3.get, run_budget_preflight).
THEOREM ServesFaithfully == OrchSpec => []ServedIsFaithful
  <1>1. OrchInv => ServedFits
    BY DEF OrchInv, ReaderInv, AnswerFits, ServedFits, Finished
  <1>2. OrchInv => CutsSuffice
    <2> SUFFICES ASSUME OrchInv, NEW r \in Readers, req[r].step # "idle", NEW s \in {spent, NoSnapshot}
                 PROVE  Suffices(req[r].in.wish, req[r].in.set, s)
      BY DEF CutsSuffice
    <2>1. req[r].in \in Inputs[r]
      BY DEF OrchInv, ReaderInv, Admitted
    <2>2. s \in Nat \cup {NoSnapshot}
      BY DEF OrchInv
    <2> QED BY <2>1, <2>2, InputTypes, CutsAreEnough
  <1>3. OrchSpec => []OrchInv
    BY InitOrch, StepOrch, PTL DEF OrchSpec
  <1> QED BY <1>1, <1>2, <1>3, PTL DEF ServedIsFaithful

(***************************************************************************)
(* The turns of the calls to Brave (_CallPacer of providers.py)             *)
(***************************************************************************)

\* A set of numbers below a bound has a greatest one.
LEMMA Greatest ==
    ASSUME NEW limit \in Nat, NEW S \in SUBSET (0 .. limit), S # {}
    PROVE  \E v \in S : \A w \in S : v >= w
  <1> DEFINE below == {limit - v : v \in S}
  <1>0. \A v \in S : v \in 0 .. limit /\ limit - v \in Nat
    OBVIOUS
  <1>1. below \in SUBSET Nat /\ below # {}
    BY <1>0
  <1> HIDE DEF below
  <1>2. PICK p \in below : \A q \in below : <<q, p>> \notin OpToRel(<, Nat)
    BY <1>1, NatLessThanWellFounded, WFMin
  <1>3. \A q \in below : ~ (q < p)
    BY <1>1, <1>2, Zenon DEF OpToRel
  <1>4. \A q \in below : p <= q
    BY <1>1, <1>3
  <1>5. PICK v \in S : p = limit - v
    BY DEF below
  <1>6. \A w \in S : v >= w
    BY <1>4, <1>5 DEF below
  <1> QED BY <1>6

LEMMA Quotient ==
    ASSUME NEW a \in Int, NEW b \in Int, b > 0, a >= b
    PROVE  a \div b \in 1 .. a
  <1> DEFINE q == a \div b
  <1>1. q \in Int /\ b * q <= a /\ a < b * q + b
    OBVIOUS
  <1> HIDE DEF q
  <1>2. q > 0
    <2>1. ASSUME q <= 0 PROVE FALSE
      <3>1. b * q <= 0
        BY <1>1, <2>1
      <3> QED BY <1>1, <3>1
    <2> QED BY <1>1, <2>1
  <1>3. q <= a
    <2>1. b * q >= q
      BY <1>1, <1>2
    <2> QED BY <1>1, <2>1
  <1> QED BY <1>1, <1>2, <1>3 DEF q

\* The distance a provider asks for is a number, and never nothing.
LEMMA DistanceAsked ==
    ASSUME NEW h \in Headers, MinInterval(h) # Unknown
    PROVE  MinInterval(h) \in Nat /\ MinInterval(h) > 0
  <1> DEFINE short == {w \in h.windows : w.limit > 0 /\ w.window > 0 /\ w.window <= ShortWindow}
             values == {w.window \div w.limit : w \in short}
  <1>1. short # {} /\ MinInterval(h) = Longest(values)
    BY DEF MinInterval
  <1>2. ASSUME NEW w \in short PROVE w.window \div w.limit \in 0 .. ShortWindow /\ w.window \div w.limit > 0
    <2>1. w.limit \in Int /\ w.window \in Int /\ w.limit > 0 /\ w.window >= w.limit /\ w.window <= ShortWindow
      BY PacingAssumption
    <2>2. w.window \div w.limit \in 1 .. w.window
      BY <2>1, Quotient
    <2> QED BY <2>1, <2>2, PacingAssumption
  <1>3. values \in SUBSET (0 .. ShortWindow) /\ values # {} /\ \A v \in values : v > 0
    BY <1>1, <1>2
  <1> HIDE DEF values, short
  <1>4. \E v \in values : \A w \in values : v >= w
    BY <1>3, Greatest, PacingAssumption
  <1>5. Longest(values) \in values
    BY <1>4 DEF Longest
  <1>6. Longest(values) \in 0 .. ShortWindow /\ Longest(values) > 0
    BY <1>3, <1>5
  <1>7. \A n \in 0 .. ShortWindow : n \in Nat
    BY PacingAssumption
  <1> QED BY <1>1, <1>6, <1>7

PacePlaces   == {"idle", "ask", "expiring", "sleep", "refused"}
Retries      == {ReportedRetry(h) : h \in Headers} \cup {Unknown}
PacedRecords == [at : PacePlaces, start : Int, deadline : Nat, retry : Retries]

\* A thread that sleeps has a turn before its deadline; a wait it was told is no longer than
\* the longest one, or what the provider said itself.
CallerSound(t) ==
    /\ paced[t] \in PacedRecords
    /\ CallerAt(t, "sleep") => paced[t].start < paced[t].deadline
    /\ paced[t].retry # Unknown => paced[t].retry <= MaxRateWait \/ \E h \in Headers : h.after = paced[t].retry

\* The next turn keeps the learned distance to the last one given out, which is the latest
\* of those in turns; without a limit it is never ahead of the clock.
QueueSound ==
    /\ paceClock \in Nat /\ interval \in Nat /\ lastStart \in Int /\ nextSlot \in Int
    /\ turns \in Seq(Nat)
    /\ interval = 0 => nextSlot <= paceClock
    /\ \/ turns = <<>> /\ lastStart = -1
       \/ /\ lastStart \in Nat /\ nextSlot >= lastStart + interval
          /\ \A k \in 1 .. Len(turns) : turns[k] <= lastStart

LastTurnSound ==
    /\ lastTurn.start \in Nat /\ lastTurn.asked \in Nat /\ lastTurn.interval \in Nat
    /\ \A k \in 1 .. Len(turns) - 1 : lastTurn.start >= turns[k] + lastTurn.interval
    /\ lastTurn.start \in lastTurn.asked .. lastTurn.asked + MaxRateWait
    /\ lastTurn.interval = 0 => lastTurn.start = lastTurn.asked

PaceInv ==
    /\ QueueSound
    /\ LastTurnSound
    /\ DOMAIN paced = PacedThreads
    /\ \A t \in PacedThreads : CallerSound(t)

LEMMA InitPace == PaceInit => PaceInv
  <1> SUFFICES ASSUME PaceInit PROVE PaceInv
    OBVIOUS
  <1>1. Len(turns) = 0 /\ turns \in Seq(Nat)
    BY DEF PaceInit
  <1>2. QueueSound /\ LastTurnSound
    BY <1>1, PacingAssumption DEF PaceInit, QueueSound, LastTurnSound
  <1>3. ASSUME NEW t \in PacedThreads PROVE CallerSound(t)
    BY DEF PaceInit, NoTurn, Caller, CallerSound, CallerAt, PacedRecords, PacePlaces, Retries
  <1> QED BY <1>2, <1>3 DEF PaceInit, PaceInv

\* A step of one thread.
LEMMA OneCaller ==
    ASSUME PaceInv, NEW t \in PacedThreads, NEW record, PutCaller(t, record),
           record \in PacedRecords,
           record.at = "sleep" => record.start < record.deadline,
           record.retry # Unknown => record.retry <= MaxRateWait \/ \E h \in Headers : h.after = record.retry,
           QueueSound', LastTurnSound'
    PROVE  PaceInv'
  <1>1. DOMAIN paced' = PacedThreads /\ paced'[t] = record /\ \A u \in PacedThreads \ {t} : paced'[u] = paced[u]
    BY DEF PutCaller, PaceInv
  <1>2. CallerSound(t)'
    BY <1>1 DEF CallerSound, CallerAt
  <1>3. ASSUME NEW u \in PacedThreads \ {t} PROVE CallerSound(u)'
    BY <1>1 DEF PaceInv, CallerSound, CallerAt
  <1> QED BY <1>1, <1>2, <1>3 DEF PaceInv

LEMMA QueueStays ==
    ASSUME QueueSound, LastTurnSound, UNCHANGED <<paceClock, interval, lastStart, nextSlot, turns, lastTurn>>
    PROVE  QueueSound' /\ LastTurnSound'
  BY DEF QueueSound, LastTurnSound

LEMMA CallerKeeps ==
    ASSUME PaceInv, NEW t \in PacedThreads, BeginCaller(t) \/ ExpireTurn(t) \/ AgainPaced(t)
    PROVE  PaceInv'
  <1>1. QueueSound' /\ LastTurnSound'
    BY QueueStays DEF PaceInv, BeginCaller, ExpireTurn, AgainPaced
  <1>2. CallerSound(t)
    BY DEF PaceInv
  <1>3. CASE BeginCaller(t)
    <2>1. PICK d \in Deadlines : PutCaller(t, Caller("ask", 0, d, Unknown))
      BY <1>3 DEF BeginCaller
    <2>2. d \in Nat
      BY PacingAssumption
    <2> QED BY <1>1, <2>1, <2>2, OneCaller DEF Caller, PacedRecords, PacePlaces, Retries
  <1>4. CASE ExpireTurn(t)
    <2>1. PutCaller(t, NoTurn)
      BY <1>4 DEF ExpireTurn
    <2> QED BY <1>1, <2>1, OneCaller DEF NoTurn, Caller, PacedRecords, PacePlaces, Retries
  <1>5. CASE AgainPaced(t)
    <2>1. PutCaller(t, Caller("ask", 0, paced[t].deadline, Unknown))
      BY <1>5 DEF AgainPaced
    <2>2. paced[t].deadline \in Nat
      BY <1>2 DEF CallerSound, PacedRecords
    <2> QED BY <1>1, <2>1, <2>2, OneCaller DEF Caller, PacedRecords, PacePlaces, Retries
  <1> QED BY <1>3, <1>4, <1>5

LEMMA WaitTurnKeeps ==
    ASSUME PaceInv, NEW t \in PacedThreads, WaitTurn(t)
    PROVE  PaceInv'
  <1> DEFINE queued == Later(paceClock, nextSlot)
             jumped == queued - paceClock > MaxRateWait
             start  == IF jumped THEN paceClock ELSE queued
  <1>1. /\ CallerSound(t) /\ QueueSound /\ LastTurnSound
        /\ UNCHANGED <<paceClock, interval>>
    BY DEF PaceInv, WaitTurn
  <1>2. /\ paceClock \in Nat /\ interval \in Nat /\ nextSlot \in Int /\ MaxRateWait \in Nat
        /\ queued \in Nat /\ queued >= paceClock /\ queued >= nextSlot
        /\ start \in Nat /\ start >= paceClock /\ start <= paceClock + MaxRateWait
        /\ ~ jumped => start >= nextSlot
        /\ interval = 0 => start = paceClock
    BY <1>1, PacingAssumption DEF QueueSound, Later
  <1>3. CASE paced[t].deadline <= start
    <2>1. PutCaller(t, Caller("expiring", 0, paced[t].deadline, Unknown)) /\ UNCHANGED <<lastStart, nextSlot, turns, lastTurn>>
      BY <1>3 DEF WaitTurn
    <2>2. paced[t].deadline \in Nat
      BY <1>1 DEF CallerSound, PacedRecords
    <2>3. QueueSound' /\ LastTurnSound'
      BY <1>1, <2>1, QueueStays
    <2> QED BY <2>1, <2>2, <2>3, OneCaller DEF Caller, PacedRecords, PacePlaces, Retries
  <1>4. CASE ~ (paced[t].deadline <= start)
    <2>1. /\ PutCaller(t, Caller("sleep", start, paced[t].deadline, Unknown))
          /\ lastStart' = start /\ nextSlot' = start + interval
          /\ turns' = IF jumped THEN <<start>> ELSE Append(turns, start)
          /\ lastTurn' = [start |-> start, asked |-> paceClock, interval |-> interval]
      BY <1>4 DEF WaitTurn
    <2>2. paced[t].deadline \in Nat
      BY <1>1 DEF CallerSound, PacedRecords
    <2>3. start < paced[t].deadline
      BY <1>1, <1>2, <1>4 DEF CallerSound, PacedRecords
    <2> HIDE DEF start, jumped, queued
    <2>4. /\ turns' \in Seq(Nat)
          /\ \A k \in 1 .. Len(turns') : turns'[k] <= start
          /\ \A k \in 1 .. Len(turns') - 1 : start >= turns'[k] + interval
      <3>1. CASE jumped
        <4>1. turns' = <<start>>
          BY <2>1, <3>1
        <4>2. Len(turns') = 1 /\ turns'[1] = start /\ turns' \in Seq(Nat)
          BY <1>2, <4>1
        <4> QED BY <1>2, <4>2
      <3>2. CASE ~ jumped
        <4>1. turns' = Append(turns, start) /\ turns \in Seq(Nat)
          BY <1>1, <2>1, <3>2 DEF QueueSound
        <4>2. /\ turns' \in Seq(Nat) /\ Len(turns') = Len(turns) + 1 /\ Len(turns) \in Nat
              /\ \A k \in 1 .. Len(turns) : turns'[k] = turns[k] /\ turns[k] \in Nat
              /\ turns'[Len(turns) + 1] = start
          BY <1>2, <4>1
        <4>3. \A k \in 1 .. Len(turns) : start >= turns[k] + interval
          <5>1. CASE turns = <<>>
            BY <5>1
          <5>2. CASE turns # <<>>
            <6>1. lastStart \in Nat /\ nextSlot >= lastStart + interval /\ \A k \in 1 .. Len(turns) : turns[k] <= lastStart
              BY <1>1, <5>2 DEF QueueSound
            <6>2. start >= lastStart + interval
              BY <1>2, <3>2, <6>1
            <6>3. ASSUME NEW k \in 1 .. Len(turns) PROVE start >= turns[k] + interval
              <7>1. turns[k] \in Nat /\ turns[k] <= lastStart
                BY <4>2, <6>1
              <7> QED BY ONLY <1>2, <6>1, <6>2, <7>1
            <6> QED BY <6>3
          <5> QED BY <5>1, <5>2
        <4>4. ASSUME NEW k \in 1 .. Len(turns') PROVE turns'[k] <= start
          <5>1. k \in 1 .. Len(turns) \/ k = Len(turns) + 1
            BY ONLY <4>2, k \in 1 .. Len(turns')
          <5>2. CASE k \in 1 .. Len(turns)
            <6>1. turns'[k] = turns[k] /\ turns[k] \in Nat /\ start >= turns[k] + interval
              BY ONLY <4>2, <4>3, <5>2
            <6> QED BY ONLY <1>2, <6>1
          <5>3. CASE k = Len(turns) + 1
            BY ONLY <1>2, <4>2, <5>3
          <5> QED BY <5>1, <5>2, <5>3
        <4> QED BY <4>2, <4>3, <4>4
      <3> QED BY <3>1, <3>2
    <2>5. QueueSound'
      BY <1>1, <1>2, <2>1, <2>4 DEF QueueSound
    <2>6. LastTurnSound'
      BY <1>1, <1>2, <2>1, <2>4 DEF LastTurnSound
    <2> QED BY <1>1, <1>2, <2>1, <2>2, <2>3, <2>5, <2>6, OneCaller DEF Caller, PacedRecords, PacePlaces, Retries
  <1> QED BY <1>3, <1>4

LEMMA EndGetKeeps ==
    ASSUME PaceInv, NEW t \in PacedThreads, EndGet(t)
    PROVE  PaceInv'
  <1>1. CallerSound(t) /\ QueueSound /\ LastTurnSound
    BY DEF PaceInv
  <1>2. PICK headers \in Headers :
          /\ PutCaller(t, IF headers.ok THEN NoTurn
                          ELSE Caller("refused", paceClock, paced[t].deadline, ReportedRetry(headers)))
          /\ IF MinInterval(headers) = Unknown THEN UNCHANGED <<interval, nextSlot>>
             ELSE interval' = Learned(headers) /\ nextSlot' = SlotAfter(Learned(headers))
    BY DEF EndGet
  <1>3. UNCHANGED <<paceClock, lastStart, turns, lastTurn>>
    BY DEF EndGet
  <1>4. QueueSound'
    <2>1. CASE MinInterval(headers) = Unknown
      BY <1>1, <1>2, <1>3, <2>1 DEF QueueSound
    <2>2. CASE MinInterval(headers) # Unknown
      <3>1. Learned(headers) \in Nat /\ Learned(headers) > 0
        BY <2>2, DistanceAsked, PacingAssumption DEF Learned
      <3>2. interval' = Learned(headers) /\ nextSlot' = SlotAfter(Learned(headers))
        BY <1>2, <2>2
      <3> QED BY <1>1, <1>3, <3>1, <3>2 DEF QueueSound, SlotAfter, Later
    <2> QED BY <2>1, <2>2
  <1>5. LastTurnSound'
    BY <1>1, <1>3 DEF LastTurnSound
  <1>6. CASE headers.ok
    <2>1. PutCaller(t, NoTurn)
      BY <1>2, <1>6
    <2> QED BY <1>4, <1>5, <2>1, OneCaller DEF NoTurn, Caller, PacedRecords, PacePlaces, Retries
  <1>7. CASE ~ headers.ok
    <2> DEFINE retry == ReportedRetry(headers)
    <2>1. PutCaller(t, Caller("refused", paceClock, paced[t].deadline, retry))
      BY <1>2, <1>7
    <2>2. paced[t].deadline \in Nat
      BY <1>1 DEF CallerSound, PacedRecords
    <2>3. retry # Unknown => retry <= MaxRateWait \/ \E h \in Headers : h.after = retry
      <3>1. CASE headers.after # Unknown
        <4>1. headers.after \in Int /\ MaxRateWait \in Nat
          BY <3>1, PacingAssumption
        <4>2. retry = Later(0, headers.after)
          BY <3>1 DEF ReportedRetry, RetryWait
        <4>3. retry = 0 \/ retry = headers.after
          BY <4>2 DEF Later
        <4> QED BY <4>1, <4>3
      <3>2. CASE headers.after = Unknown
        BY <3>2 DEF ReportedRetry
      <3> QED BY <3>1, <3>2
    <2>4. retry \in Retries /\ paceClock \in Int
      BY <1>1 DEF Retries, QueueSound
    <2> HIDE DEF retry
    <2> QED BY <1>4, <1>5, <2>1, <2>2, <2>3, <2>4, OneCaller DEF Caller, PacedRecords, PacePlaces
  <1> QED BY <1>6, <1>7

LEMMA StepPace == PaceInv /\ [PaceNext]_pacevars => PaceInv'
  <1> SUFFICES ASSUME PaceInv, [PaceNext]_pacevars PROVE PaceInv'
    OBVIOUS
  <1>1. CASE PaceTick \/ UNCHANGED pacevars
    <2>1. /\ UNCHANGED <<interval, lastStart, nextSlot, paced, turns, lastTurn>>
          /\ paceClock' = paceClock \/ paceClock' = paceClock + 1
      BY <1>1 DEF PaceTick, pacevars
    <2>2. QueueSound' /\ LastTurnSound'
      BY <2>1 DEF PaceInv, QueueSound, LastTurnSound
    <2>3. ASSUME NEW t \in PacedThreads PROVE CallerSound(t)'
      BY <2>1 DEF PaceInv, CallerSound, CallerAt
    <2> QED BY <2>1, <2>2, <2>3 DEF PaceInv
  <1>2. ASSUME NEW t \in PacedThreads, BeginCaller(t) \/ WaitTurn(t) \/ ExpireTurn(t) \/ EndGet(t) \/ AgainPaced(t)
        PROVE  PaceInv'
    BY <1>2, CallerKeeps, WaitTurnKeeps, EndGetKeeps
  <1> QED BY <1>1, <1>2 DEF PaceNext

\* Turns keep the learned distance, whichever thread took or learned them, nobody waits
\* longer than the longest wait or past its deadline, and a process that was never told of a
\* limit is not slowed (_CallPacer.wait_turn, learn, brave_retry_wait).
THEOREM CallsArePaced == PaceSpec => []PacingSound
  <1>1. PaceInv => PacingSound
    BY DEF PaceInv, LastTurnSound, CallerSound, PacingSound
  <1> QED BY <1>1, InitPace, StepPace, PTL DEF PaceSpec

(***************************************************************************)
(* The import of the legacy files and the rollback (state_migration_v3.py)   *)
(***************************************************************************)
Contents == [used : Nat, import : (Nat \X Nat) \cup {Nothing}]
Copies   == [db : Contents \cup {Nothing}, secret : {0, 1},
             was : [db : Contents \cup {Nothing}, secret : {0, 1}], sealed : BOOLEAN]
Hashed   == [1 .. 2 -> Nat \cup {Nothing}]

\* What a content says was imported is a pair the legacy files had together.
OnePair(content) == content = Nothing \/ content.import \in pairs \cup {Nothing}

FilesSound ==
    /\ table \in Nat /\ samples \in Nat /\ secret \in {0, 1}
    /\ pairs \in SUBSET (Nat \X Nat) /\ <<table, samples>> \in pairs
    /\ main \in Contents \cup {Nothing} /\ wal \in Contents \cup {Nothing}
    /\ OnePair(main) /\ OnePair(wal)

\* A backup holds what its command found.
BackupsSound ==
    /\ backups \in Seq(Copies)
    /\ \A i \in 1 .. Len(backups) :
          /\ OnePair(backups[i].db)
          /\ backups[i].was = [db |-> backups[i].db, secret |-> backups[i].secret]

Passing   == step \in {"health", "samples"}
Untouched == {"health", "samples", "judge", "backup", "seal", "open"}
Restoring == {"drop", "restore", "secret"}

\* Where a command stands, and the round it is in; until the store is opened the database
\* and the secret are what the command found.
CommandSound ==
    /\ round \in Nat /\ hashes \in Hashed /\ read \in Hashed
    /\ step = "idle" => hashes = Unread
    /\ step # "idle" => report = "none"
    /\ step \in Untouched \cup {"import", "close", "undo", "idle"} \cup Restoring
    /\ step \in Untouched => Seen = before
    /\ Passing => round \in 1 .. 7
    /\ step = "judge" => round = 4
    /\ step = "backup" => round = 5
    /\ step = "seal" => round = 7
    /\ step = "import" => main \in Contents

\* The samples file never returns to earlier bytes.  Between the two looks at it that found
\* the same bytes it was not rewritten, and the health file was read between them.
ReadingSound ==
    /\ (step \in {"judge", "backup", "seal", "open", "import", "close", "undo"} \/ (Passing /\ round >= 2)) =>
          hashes[2] \in Nat /\ hashes[2] <= samples
    /\ ((step = "samples" /\ round = 2) \/ (Passing /\ round = 3)) =>
          \E s \in Nat : hashes[2] <= s /\ s <= samples /\ <<read[1], s>> \in pairs
    /\ Passing /\ round = 3 => read[2] \in Nat /\ hashes[2] <= read[2] /\ read[2] <= samples
    /\ (step \in {"judge", "backup", "seal", "open", "import"} \/ (Passing /\ round >= 4)) => read \in pairs

\* A command that has made a backup can go back to what it found; a restoration goes on
\* with the log dropped.
ReturnSound ==
    /\ (step \in {"seal", "open", "import", "close", "undo"} \/ (Passing /\ round >= 5)) =>
          Len(backups) >= 1 /\ backups[Len(backups)].was = before
    /\ step \in Restoring =>
          /\ round \in 1 .. Len(backups)
          /\ hashes = Unread \/ backups[round].was = before
    /\ step \in {"restore", "secret"} => wal = Nothing
    /\ step = "secret" => main = backups[round].db

MigInv ==
    /\ FilesSound /\ BackupsSound /\ CommandSound /\ ReadingSound /\ ReturnSound
    /\ RollbackRestores /\ RefusedLeavesState

LEMMA InitMig == MigrationInit => MigInv
  <1> SUFFICES ASSUME MigrationInit PROVE MigInv
    OBVIOUS
  <1>1. FilesSound
    BY DEF MigrationInit, FilesSound, OnePair
  <1>2. Len(backups) = 0 /\ backups \in Seq(Copies)
    BY DEF MigrationInit
  <1>3. BackupsSound
    BY <1>2 DEF BackupsSound
  <1>4. Unread \in Hashed
    BY DEF Unread, Hashed
  <1>5. CommandSound
    BY <1>4 DEF MigrationInit, CommandSound, Untouched, Restoring, Passing
  <1>6. ReadingSound /\ ReturnSound
    BY DEF MigrationInit, ReadingSound, ReturnSound, Passing, Restoring
  <1>7. RollbackRestores /\ RefusedLeavesState
    BY DEF MigrationInit, RollbackRestores, RefusedLeavesState, Refusals
  <1> QED BY <1>1, <1>3, <1>5, <1>6, <1>7 DEF MigInv

\* Every content stays a pair while the pairs grow.
LEMMA ContentsStay ==
    ASSUME FilesSound, UNCHANGED <<sources, files, pairs>>
    PROVE  FilesSound'
  BY DEF FilesSound, OnePair, sources, files

LEMMA BackupsStay ==
    ASSUME BackupsSound, UNCHANGED <<backups, pairs>>
    PROVE  BackupsSound'
  BY DEF BackupsSound, OnePair

\* A command that ends: what it says holds of what it leaves.
LEMMA CommandEnds ==
    ASSUME MigInv, NEW what, Reports(what), FilesSound', BackupsSound',
           what = "rolled_back" => Seen' = backups'[round].was,
           what \in Refusals => Seen' = before
    PROVE  MigInv'
  <1>1. /\ step' = "idle" /\ report' = what /\ hashes' = Unread /\ read' = Unread
        /\ round' = IF what = "rolled_back" THEN round ELSE 0
        /\ what \in Refusals => before' = before
    BY DEF Reports, Go
  <1>2. Unread \in Hashed
    BY DEF Unread, Hashed
  <1>3. round \in Nat
    BY DEF MigInv, CommandSound
  <1>4. CommandSound'
    BY <1>1, <1>2, <1>3 DEF CommandSound, Untouched, Restoring, Passing
  <1>5. ReadingSound' /\ ReturnSound'
    BY <1>1 DEF ReadingSound, ReturnSound, Passing, Restoring
  <1>6. RollbackRestores' /\ RefusedLeavesState'
    BY <1>1 DEF RollbackRestores, RefusedLeavesState
  <1> QED BY <1>4, <1>5, <1>6 DEF MigInv

\* A command that goes on has reported nothing.
LEMMA NothingReported ==
    ASSUME report' = "none"
    PROVE  RollbackRestores' /\ RefusedLeavesState'
  BY DEF RollbackRestores, RefusedLeavesState, Refusals

LEMMA RewriteKeeps == ASSUME MigInv, Rewrite PROVE MigInv'
  <1>1. /\ table' \in Nat /\ samples' \in Nat /\ samples' >= samples
        /\ pairs' = pairs \cup {<<table', samples'>>}
        /\ UNCHANGED <<main, wal, secret, backups, step, round, hashes, read, report, before>>
    BY MigrationAssumption DEF MigInv, FilesSound, Rewrite, files, command
  <1>2. FilesSound'
    BY <1>1 DEF MigInv, FilesSound, OnePair
  <1>3. BackupsSound'
    BY <1>1 DEF MigInv, BackupsSound, OnePair
  <1>4. Seen' = Seen
    BY <1>1 DEF Seen, Effective
  <1>5. CommandSound'
    BY <1>1, <1>4 DEF MigInv, CommandSound, Passing
  <1>6. ReadingSound'
    <2>1. samples \in Nat
      BY DEF MigInv, FilesSound
    <2>2. ReadingSound /\ pairs \subseteq pairs'
      BY <1>1 DEF MigInv
    <2> QED BY <1>1, <2>1, <2>2 DEF ReadingSound, Passing
  <1>7. ReturnSound'
    BY <1>1 DEF MigInv, ReturnSound, Passing
  <1>8. RollbackRestores' /\ RefusedLeavesState'
    BY <1>1, <1>4 DEF MigInv, RollbackRestores, RefusedLeavesState
  <1> QED BY <1>2, <1>3, <1>5, <1>6, <1>7, <1>8 DEF MigInv

LEMMA UseKeeps == ASSUME MigInv, Use PROVE MigInv'
  <1>1. /\ Reports("none") /\ Create /\ wal' = [Opened EXCEPT !.used = @ + 1]
        /\ UNCHANGED <<table, samples, backups, pairs>>
    BY DEF Use, sources
  <1>2. FilesSound
    BY DEF MigInv
  <1>3. NewDb \in Contents /\ OnePair(NewDb)
    BY DEF NewDb, Contents, OnePair
  <1>4. Opened \in Contents /\ OnePair(Opened)
    BY <1>2, <1>3 DEF FilesSound, Opened, Effective
  <1>5. wal' \in Contents /\ wal'.import = Opened.import
    BY <1>1, <1>4 DEF Contents
  <1>6. OnePair(wal)'
    BY <1>1, <1>4, <1>5 DEF OnePair, Opened, NewDb
  <1>7. main' \in Contents \cup {Nothing} /\ secret' \in {0, 1} /\ OnePair(main)'
    BY <1>1, <1>2, <1>3 DEF FilesSound, Create, OnePair
  <1>8. FilesSound'
    BY <1>1, <1>2, <1>5, <1>6, <1>7 DEF FilesSound
  <1>9. BackupsSound'
    BY <1>1, BackupsStay DEF MigInv
  <1> QED BY <1>1, <1>8, <1>9, CommandEnds DEF Refusals

\* A checkpoint changes no content a reader sees.
LEMMA SameSeen ==
    ASSUME FilesSound, Checkpointed, UNCHANGED <<table, samples, secret, pairs>>
    PROVE  FilesSound' /\ Seen' = Seen /\ main' = Effective
  <1>1. main' = Effective /\ wal' = Nothing
    BY DEF Checkpointed
  <1>2. Effective \in Contents \cup {Nothing} /\ OnePair(Effective)
    BY DEF FilesSound, Effective
  <1>3. OnePair(main)' /\ OnePair(wal)'
    BY <1>1, <1>2 DEF OnePair
  <1> QED BY <1>1, <1>2, <1>3 DEF FilesSound, Seen, Effective

LEMMA CheckpointKeeps == ASSUME MigInv, Checkpoint PROVE MigInv'
  <1>1. /\ step = "idle" /\ Checkpointed
        /\ UNCHANGED <<table, samples, secret, pairs, backups, step, round, hashes, read, report, before>>
    BY DEF Checkpoint, sources, command
  <1>2. FilesSound' /\ Seen' = Seen
    BY <1>1, SameSeen DEF MigInv
  <1>3. BackupsSound'
    BY <1>1, BackupsStay DEF MigInv
  <1>4. CommandSound' /\ ReadingSound' /\ ReturnSound'
    BY <1>1 DEF MigInv, CommandSound, ReadingSound, ReturnSound, Passing, Untouched, Restoring
  <1>5. RollbackRestores' /\ RefusedLeavesState'
    BY <1>1, <1>2 DEF MigInv, RollbackRestores, RefusedLeavesState
  <1> QED BY <1>2, <1>3, <1>4, <1>5 DEF MigInv

LEMMA ApplyKeeps == ASSUME MigInv, Apply PROVE MigInv'
  <1>1. /\ step' = "health" /\ round' = 1 /\ report' = "none" /\ before' = Seen
        /\ hashes' = Unread /\ read' = Unread
        /\ UNCHANGED <<sources, files, backups, pairs>>
    BY DEF Apply, Go
  <1>2. FilesSound' /\ BackupsSound'
    BY <1>1, ContentsStay, BackupsStay DEF MigInv
  <1>3. Seen' = Seen
    BY <1>1 DEF Seen, Effective, files
  <1>4. Unread \in Hashed
    BY DEF Unread, Hashed
  <1>5. CommandSound'
    BY <1>1, <1>3, <1>4 DEF CommandSound, Untouched, Restoring, Passing
  <1>6. ReadingSound' /\ ReturnSound'
    BY <1>1 DEF ReadingSound, ReturnSound, Passing, Restoring
  <1>7. RollbackRestores' /\ RefusedLeavesState'
    BY <1>1, NothingReported
  <1> QED BY <1>2, <1>5, <1>6, <1>7 DEF MigInv

\* A look at a legacy file that found other bytes than before ends the command.
LEMMA LookBlocks ==
    ASSUME MigInv, NEW i \in {1, 2}, NEW bytes, Look(IF i = 1 THEN "health" ELSE "samples", i, bytes),
           MustMatch(round) /\ hashes[i] # bytes
    PROVE  MigInv'
  <1>1. /\ Reports("blocked") /\ UNCHANGED <<sources, files, pairs>> /\ Passing
        /\ backups' = IF round \in {Copying, 6} THEN SubSeq(backups, 1, Len(backups) - 1) ELSE backups
    BY DEF Look, Passing
  <1>2. FilesSound'
    BY <1>1, ContentsStay DEF MigInv
  <1>3. Seen' = Seen /\ Seen = before
    BY <1>1 DEF MigInv, CommandSound, Untouched, Passing, Seen, Effective, files
  <1>4. BackupsSound'
    <2>1. CASE round \in {Copying, 6}
      <3>1. Len(backups) >= 1 /\ backups \in Seq(Copies) /\ Len(backups) \in Nat
        BY <1>1, <2>1 DEF MigInv, ReturnSound, BackupsSound, Copying
      <3>2. backups' = SubSeq(backups, 1, Len(backups) - 1)
        BY <1>1, <2>1
      <3>3. /\ backups' \in Seq(Copies) /\ Len(backups') = Len(backups) - 1
            /\ \A k \in 1 .. Len(backups) - 1 : backups'[k] = backups[k]
        <4> DEFINE n == Len(backups) - 1
        <4>1. n \in Nat /\ n <= Len(backups) /\ backups' = SubSeq(backups, 1, n)
          BY <3>1, <3>2
        <4> HIDE DEF n
        <4>2. backups' \in Seq(Copies) /\ Len(backups') = n /\ \A k \in 1 .. n : backups'[k] = backups[k]
          BY <3>1, <4>1
        <4> QED BY <4>2 DEF n
      <3> QED BY <1>1, <3>1, <3>3 DEF MigInv, BackupsSound, OnePair
    <2>2. CASE round \notin {Copying, 6}
      BY <1>1, <2>2, BackupsStay DEF MigInv
    <2> QED BY <2>1, <2>2
  <1> QED BY <1>1, <1>2, <1>3, <1>4, CommandEnds, Zenon DEF Refusals

\* What a look at a file leaves in place, whatever the round.
LEMMA LookGoesOn ==
    ASSUME MigInv, NEW i \in {1, 2}, NEW bytes \in Nat, Look(IF i = 1 THEN "health" ELSE "samples", i, bytes),
           ~ (MustMatch(round) /\ hashes[i] # bytes)
    PROVE  /\ step = IF i = 1 THEN "health" ELSE "samples"
           /\ round \in 1 .. 7
           /\ hashes' = IF round = 1 THEN [hashes EXCEPT ![i] = bytes] ELSE hashes
           /\ read' = IF round = 2 THEN [read EXCEPT ![i] = bytes] ELSE read
           /\ hashes' \in Hashed /\ read' \in Hashed
           /\ UNCHANGED <<table, samples, main, wal, secret, backups, report, before, pairs>>
           /\ FilesSound' /\ BackupsSound' /\ RollbackRestores' /\ RefusedLeavesState'
           /\ Seen' = before' /\ report' = "none"
           /\ IF i = 1 THEN step' = "samples" /\ round' = round
              ELSE step' = Reached(round) /\ round' = round + 1
  <1>1. /\ step = IF i = 1 THEN "health" ELSE "samples"
        /\ hashes' = IF round = 1 THEN [hashes EXCEPT ![i] = bytes] ELSE hashes
        /\ read' = IF round = 2 THEN [read EXCEPT ![i] = bytes] ELSE read
        /\ UNCHANGED <<backups, report, before>> /\ UNCHANGED <<sources, files, pairs>>
        /\ IF i = 1 THEN step' = "samples" /\ UNCHANGED round
           ELSE step' = Reached(round) /\ round' = round + 1
    BY DEF Look, Go, Hashing, Reading
  <1>2. step \in {"health", "samples"} /\ round \in 1 .. 7 /\ report = "none" /\ Seen = before
    BY <1>1 DEF MigInv, CommandSound, Passing, Untouched
  <1>3. hashes' \in Hashed /\ read' \in Hashed
    BY <1>1 DEF MigInv, CommandSound, Hashed
  <1>4. FilesSound' /\ BackupsSound'
    BY <1>1, ContentsStay, BackupsStay DEF MigInv
  <1>5. Seen' = Seen
    BY <1>1 DEF Seen, Effective, files
  <1>6. RollbackRestores' /\ RefusedLeavesState'
    BY <1>1, <1>2, NothingReported
  <1>7. UNCHANGED <<table, samples, main, wal, secret>>
    BY <1>1 DEF sources, files
  <1> QED BY <1>1, <1>2, <1>3, <1>4, <1>5, <1>6, <1>7

LEMMA LookHealthKeeps == ASSUME MigInv, LookHealth PROVE MigInv'
  <1>1. Look("health", 1, table) /\ table \in Nat /\ samples \in Nat /\ <<table, samples>> \in pairs
    BY DEF LookHealth, MigInv, FilesSound
  <1>2. CASE MustMatch(round) /\ hashes[1] # table
    BY <1>1, <1>2, LookBlocks
  <1>3. CASE ~ (MustMatch(round) /\ hashes[1] # table)
    <2>1. /\ step = "health" /\ step' = "samples" /\ round \in 1 .. 7 /\ round' = round
          /\ hashes' = IF round = 1 THEN [hashes EXCEPT ![1] = table] ELSE hashes
          /\ read' = IF round = 2 THEN [read EXCEPT ![1] = table] ELSE read
          /\ hashes' \in Hashed /\ read' \in Hashed
          /\ UNCHANGED <<table, samples, main, wal, secret, backups, report, before, pairs>>
          /\ FilesSound' /\ BackupsSound' /\ RollbackRestores' /\ RefusedLeavesState'
          /\ Seen' = before' /\ report' = "none"
      BY <1>1, <1>3, LookGoesOn
    <2>2. CommandSound'
      BY <2>1 DEF CommandSound, Untouched, Restoring, Passing
    <2>3. ReadingSound'
      <3>1. read \in Hashed /\ ReadingSound
        BY DEF MigInv, CommandSound
      <3>2. round = 2 => read'[1] = table
        BY <2>1, <3>1 DEF Hashed
      <3> QED BY <1>1, <2>1, <3>1, <3>2 DEF ReadingSound, Passing
    <2>4. ReturnSound'
      BY <2>1 DEF MigInv, ReturnSound, Passing, Restoring
    <2> QED BY <2>1, <2>2, <2>3, <2>4 DEF MigInv
  <1> QED BY <1>2, <1>3

LEMMA LookSamplesKeeps == ASSUME MigInv, LookSamples PROVE MigInv'
  <1>1. Look("samples", 2, samples) /\ samples \in Nat
    BY DEF LookSamples, MigInv, FilesSound
  <1>2. CASE MustMatch(round) /\ hashes[2] # samples
    BY <1>1, <1>2, LookBlocks
  <1>3. CASE ~ (MustMatch(round) /\ hashes[2] # samples)
    <2>1. /\ step = "samples" /\ step' = Reached(round) /\ round \in 1 .. 7 /\ round' = round + 1
          /\ hashes' = IF round = 1 THEN [hashes EXCEPT ![2] = samples] ELSE hashes
          /\ read' = IF round = 2 THEN [read EXCEPT ![2] = samples] ELSE read
          /\ hashes' \in Hashed /\ read' \in Hashed
          /\ UNCHANGED <<table, samples, main, wal, secret, backups, report, before, pairs>>
          /\ FilesSound' /\ BackupsSound' /\ RollbackRestores' /\ RefusedLeavesState'
          /\ Seen' = before' /\ report' = "none"
      BY <1>1, <1>3, LookGoesOn
    <2>2. /\ round = 3 => step' = "judge"
          /\ round = 4 => step' = "backup"
          /\ round = 6 => step' = "seal"
          /\ round = 7 => step' = "open"
          /\ round \in {1, 2, 5} => step' = "health"
      BY <2>1 DEF Reached, Again, LastReading
    <2>3. round \in {1, 2, 3, 4, 5, 6, 7}
      BY <2>1
    <2>4. CommandSound'
      BY <2>1, <2>2, <2>3 DEF CommandSound, Untouched, Restoring, Passing
    <2>5. /\ hashes \in Hashed /\ read \in Hashed /\ ReadingSound /\ ReturnSound
          /\ Passing
      BY <2>1 DEF MigInv, CommandSound, Passing
    <2>6. ReadingSound'
      <3>1. CASE round = 1
        <4>1. hashes'[2] = samples /\ step' = "health" /\ round' = 2
          BY <2>1, <2>2, <2>5, <3>1 DEF Hashed
        <4> QED BY <1>1, <2>1, <4>1 DEF ReadingSound, Passing
      <3>2. CASE round = 2
        <4>1. read'[2] = samples /\ read'[1] = read[1] /\ hashes' = hashes /\ step' = "health" /\ round' = 3
          BY <2>1, <2>2, <2>5, <3>2 DEF Hashed
        <4>2. /\ hashes[2] \in Nat /\ hashes[2] <= samples
              /\ \E s \in Nat : hashes[2] <= s /\ s <= samples /\ <<read[1], s>> \in pairs
          BY <2>1, <2>5, <3>2 DEF ReadingSound, Passing
        <4>3. \E s \in Nat : hashes'[2] <= s /\ s <= samples' /\ <<read'[1], s>> \in pairs'
          BY <2>1, <4>1, <4>2
        <4> QED BY <1>1, <2>1, <4>1, <4>2, <4>3 DEF ReadingSound, Passing
      <3>3. CASE round = 3
        <4>1. hashes[2] = samples /\ hashes' = hashes /\ read' = read /\ step' = "judge"
          BY <1>3, <2>1, <2>2, <3>3 DEF MustMatch, Again
        <4>2. PICK s \in Nat : hashes[2] <= s /\ s <= samples /\ <<read[1], s>> \in pairs
          BY <2>5, <3>3 DEF ReadingSound
        <4>3. read[2] = samples /\ s = samples
          BY <1>1, <2>5, <3>3, <4>1, <4>2 DEF ReadingSound
        <4>4. read = <<read[1], read[2]>>
          BY <2>5 DEF Hashed
        <4>5. read \in pairs
          BY <4>2, <4>3, <4>4
        <4> QED BY <1>1, <2>1, <4>1, <4>5 DEF ReadingSound, Passing
      <3>4. CASE round >= 4
        <4>1. read \in pairs /\ hashes[2] \in Nat /\ hashes[2] <= samples
          BY <2>5, <2>1, <3>4 DEF ReadingSound
        <4> QED BY <2>1, <2>2, <2>3, <3>4, <4>1 DEF ReadingSound, Passing
      <3> QED BY <2>3, <3>1, <3>2, <3>3, <3>4
    <2>7. ReturnSound'
      BY <2>1, <2>2, <2>3, <2>5 DEF ReturnSound, Passing, Restoring
    <2> QED BY <2>1, <2>4, <2>6, <2>7 DEF MigInv
  <1> QED BY <1>2, <1>3

LEMMA JudgeKeeps == ASSUME MigInv, Judge PROVE MigInv'
  <1>1. /\ step = "judge" /\ UNCHANGED <<sources, files, backups, pairs>>
        /\ \/ \E what \in {"blocked", "degraded", "unchanged", "ready"} : Reports(what)
           \/ Proceed("health")
    BY DEF Judge, DryRun
  <1>2. FilesSound' /\ BackupsSound'
    BY <1>1, ContentsStay, BackupsStay DEF MigInv
  <1>3. Seen' = Seen /\ Seen = before /\ round = 4 /\ report = "none"
    BY <1>1 DEF MigInv, CommandSound, Untouched, Seen, Effective, files
  <1>4. ASSUME NEW what \in {"blocked", "degraded", "unchanged", "ready"}, Reports(what) PROVE MigInv'
    BY <1>2, <1>3, <1>4, CommandEnds
  <1>5. CASE Proceed("health")
    <2>1. step' = "health" /\ UNCHANGED <<report, round, hashes, read, before, samples, pairs>>
      BY <1>1, <1>5 DEF Proceed, Go, sources
    <2>2. CommandSound'
      BY <1>3, <2>1 DEF MigInv, CommandSound, Untouched, Restoring, Passing
    <2>3. ReadingSound'
      BY <1>1, <1>3, <2>1 DEF MigInv, ReadingSound, Passing
    <2>4. ReturnSound'
      BY <1>3, <2>1 DEF ReturnSound, Passing, Restoring
    <2> QED BY <1>2, <1>3, <2>1, <2>2, <2>3, <2>4, NothingReported DEF MigInv
  <1> QED BY <1>1, <1>4, <1>5

LEMMA BackupKeeps == ASSUME MigInv, Backup PROVE MigInv'
  <1>1. /\ step = "backup" /\ UNCHANGED <<sources, files, pairs>>
        /\ \/ Proceed("health") /\ backups' = Append(backups, [db |-> Effective, secret |-> secret, was |-> before, sealed |-> FALSE])
           \/ Reports("blocked") /\ UNCHANGED backups
    BY DEF Backup, Copied
  <1>2. FilesSound'
    BY <1>1, ContentsStay DEF MigInv
  <1>3. Seen' = Seen /\ Seen = before /\ round = 5 /\ report = "none"
    BY <1>1 DEF MigInv, CommandSound, Untouched, Seen, Effective, files
  <1>4. CASE Reports("blocked") /\ UNCHANGED backups
    <2>1. BackupsSound'
      BY <1>1, <1>4, BackupsStay DEF MigInv
    <2> QED BY <1>2, <1>3, <1>4, <2>1, CommandEnds
  <1>5. CASE Proceed("health") /\ backups' = Append(backups, [db |-> Effective, secret |-> secret, was |-> before, sealed |-> FALSE])
    <2> DEFINE copy == [db |-> Effective, secret |-> secret, was |-> before, sealed |-> FALSE]
    <2>1. step' = "health" /\ UNCHANGED <<report, round, hashes, read, before, samples, pairs>>
      BY <1>1, <1>5 DEF Proceed, Go, sources
    <2>2. /\ Effective \in Contents \cup {Nothing} /\ OnePair(Effective) /\ secret \in {0, 1}
          /\ before = [db |-> Effective, secret |-> secret]
      BY <1>3 DEF MigInv, FilesSound, Effective, Seen
    <2>3. /\ copy \in Copies /\ copy.was = before /\ OnePair(copy.db)
          /\ copy.was = [db |-> copy.db, secret |-> copy.secret]
      BY <2>2 DEF Copies
    <2> HIDE DEF copy
    <2>4. backups' = Append(backups, copy) /\ backups \in Seq(Copies)
      BY <1>5 DEF copy, MigInv, BackupsSound
    <2>5. /\ Len(backups) \in Nat /\ backups' \in Seq(Copies) /\ Len(backups') = Len(backups) + 1
          /\ backups'[Len(backups) + 1] = copy
          /\ \A k \in 1 .. Len(backups) : backups'[k] = backups[k]
      BY <2>3, <2>4
    <2>6. BackupsSound'
      <3>1. ASSUME NEW k \in 1 .. Len(backups') PROVE k = Len(backups) + 1 \/ k \in 1 .. Len(backups)
        BY <2>5
      <3> QED BY <2>1, <2>3, <2>5, <3>1 DEF MigInv, BackupsSound, OnePair
    <2>7. CommandSound'
      BY <1>3, <2>1 DEF MigInv, CommandSound, Untouched, Restoring, Passing
    <2>8. ReadingSound'
      BY <1>1, <1>3, <2>1 DEF MigInv, ReadingSound, Passing
    <2>9. ReturnSound'
      BY <1>3, <2>1, <2>3, <2>5 DEF ReturnSound, Passing, Restoring
    <2> QED BY <1>2, <1>3, <2>1, <2>6, <2>7, <2>8, <2>9, NothingReported DEF MigInv
  <1> QED BY <1>1, <1>4, <1>5

LEMMA SealKeeps == ASSUME MigInv, Seal PROVE MigInv'
  <1>1. /\ step = "seal" /\ UNCHANGED <<sources, files, pairs>>
        /\ backups' = [backups EXCEPT ![Len(backups)].sealed = TRUE]
        /\ step' = "health" /\ UNCHANGED <<report, round, hashes, read, before, samples, pairs>>
    BY DEF Seal, Proceed, Go, sources
  <1>2. FilesSound'
    BY <1>1, ContentsStay DEF MigInv
  <1>3. Seen' = Seen /\ Seen = before /\ round = 7 /\ report = "none"
    BY <1>1 DEF MigInv, CommandSound, Untouched, Seen, Effective, files
  <1>4. backups \in Seq(Copies) /\ Len(backups) \in Nat /\ Len(backups) >= 1 /\ backups[Len(backups)].was = before
    <2>1. backups \in Seq(Copies) /\ Len(backups) \in Nat
      BY DEF MigInv, BackupsSound
    <2>2. Len(backups) >= 1 /\ backups[Len(backups)].was = before
      BY <1>1 DEF MigInv, ReturnSound, Passing
    <2> QED BY <2>1, <2>2
  <1> DEFINE n == Len(backups)
             copy == [backups[n] EXCEPT !.sealed = TRUE]
  <1>5. backups[n] \in Copies
    BY <1>4
  <1>6. copy \in Copies /\ copy.db = backups[n].db /\ copy.secret = backups[n].secret /\ copy.was = backups[n].was
    BY <1>5 DEF Copies
  <1>7. backups' = [backups EXCEPT ![n] = copy]
    BY <1>1
  <1> HIDE DEF copy
  <1>8. /\ backups' \in Seq(Copies) /\ Len(backups') = Len(backups) /\ backups'[Len(backups)] = copy
        /\ \A k \in 1 .. Len(backups) : k # Len(backups) => backups'[k] = backups[k]
    BY <1>4, <1>6, <1>7
  <1>9. BackupsSound'
    BY <1>1, <1>4, <1>6, <1>8 DEF MigInv, BackupsSound, OnePair
  <1>10. CommandSound'
    BY <1>1, <1>3 DEF MigInv, CommandSound, Untouched, Restoring, Passing
  <1>11. ReadingSound'
    BY <1>1, <1>3 DEF MigInv, ReadingSound, Passing
  <1>12. ReturnSound'
    BY <1>1, <1>3, <1>4, <1>6, <1>8 DEF ReturnSound, Passing, Restoring
  <1> QED BY <1>1, <1>2, <1>3, <1>9, <1>10, <1>11, <1>12, NothingReported DEF MigInv

\* From the opened store on, a command only keeps its way back.
LEMMA GoesOnOpen ==
    ASSUME MigInv, NEW where \in {"import", "close", "undo"}, step \in {"open", "import", "close"},
           Proceed(where), UNCHANGED <<samples, backups, pairs>>, FilesSound',
           where = "import" => step = "open" /\ main' \in Contents
    PROVE  MigInv'
  <1>1. step' = where /\ UNCHANGED <<report, round, hashes, read, before, samples, pairs, backups>>
    BY DEF Proceed, Go
  <1>2. BackupsSound'
    BY <1>1, BackupsStay DEF MigInv
  <1>3. CommandSound'
    BY <1>1 DEF MigInv, CommandSound, Untouched, Restoring, Passing
  <1>4. ReadingSound'
    BY <1>1 DEF MigInv, ReadingSound, Passing
  <1>5. ReturnSound'
    BY <1>1 DEF MigInv, ReturnSound, Passing, Restoring
  <1>6. report = "none"
    BY DEF MigInv, CommandSound
  <1> QED BY <1>1, <1>2, <1>3, <1>4, <1>5, <1>6, NothingReported DEF MigInv

LEMMA OpenKeeps == ASSUME MigInv, Open PROVE MigInv'
  <1>1. step = "open" /\ UNCHANGED <<table, samples, backups, pairs>>
    BY DEF Open, sources
  <1>2. CASE Proceed("undo") /\ UNCHANGED files
    <2>1. FilesSound'
      BY <1>1, <1>2, ContentsStay DEF MigInv, sources
    <2> QED BY <1>1, <1>2, <2>1, GoesOnOpen
  <1>3. CASE Create /\ (Proceed("import") \/ Proceed("undo")) /\ UNCHANGED wal
    <2>1. NewDb \in Contents /\ OnePair(NewDb)
      BY DEF NewDb, Contents, OnePair
    <2>2. main' \in Contents /\ secret' \in {0, 1} /\ OnePair(main)' /\ OnePair(wal)'
      BY <1>1, <1>3, <2>1 DEF MigInv, FilesSound, Create, OnePair
    <2>3. FilesSound'
      BY <1>1, <1>3, <2>2 DEF MigInv, FilesSound
    <2> QED BY <1>1, <1>3, <2>2, <2>3, GoesOnOpen
  <1> QED BY <1>2, <1>3 DEF Open

LEMMA ImportKeeps == ASSUME MigInv, Import PROVE MigInv'
  <1>1. step = "import" /\ UNCHANGED <<table, samples, main, secret, backups, pairs>>
    BY DEF Import, sources
  <1>2. CASE Proceed("undo") /\ UNCHANGED wal
    <2>1. FilesSound'
      BY <1>1, <1>2, ContentsStay DEF MigInv, sources, files
    <2> QED BY <1>1, <1>2, <2>1, GoesOnOpen
  <1>3. CASE Proceed("close") /\ wal' = [Effective EXCEPT !.import = read]
    <2>1. Effective \in Contents /\ read \in pairs /\ pairs \in SUBSET (Nat \X Nat)
      <3>1. main \in Contents /\ (wal = Nothing \/ wal \in Contents) /\ pairs \in SUBSET (Nat \X Nat)
        BY <1>1 DEF MigInv, CommandSound, FilesSound
      <3>2. read \in pairs
        BY <1>1 DEF MigInv, ReadingSound, Passing
      <3> QED BY <3>1, <3>2 DEF Effective
    <2>2. wal' \in Contents /\ wal'.import = read
      BY <1>3, <2>1 DEF Contents
    <2>3. OnePair(wal)' /\ OnePair(main)'
      BY <1>1, <2>1, <2>2 DEF OnePair, MigInv, FilesSound
    <2>4. FilesSound'
      BY <1>1, <2>2, <2>3 DEF MigInv, FilesSound
    <2> QED BY <1>1, <1>3, <2>4, GoesOnOpen
  <1> QED BY <1>2, <1>3 DEF Import

LEMMA CloseKeeps == ASSUME MigInv, Close PROVE MigInv'
  <1>1. /\ step = "close" /\ UNCHANGED <<table, samples, secret, backups, pairs>>
        /\ Checkpointed \/ UNCHANGED <<main, wal>>
        /\ Reports("applied") \/ Proceed("undo")
    BY DEF Close, sources
  <1>2. FilesSound'
    <2>1. CASE Checkpointed
      BY <1>1, <2>1, SameSeen DEF MigInv
    <2>2. CASE UNCHANGED <<main, wal>>
      BY <1>1, <2>2, ContentsStay DEF MigInv, sources, files
    <2> QED BY <1>1, <2>1, <2>2
  <1>3. BackupsSound'
    BY <1>1, BackupsStay DEF MigInv
  <1>4. CASE Reports("applied")
    BY <1>2, <1>3, <1>4, CommandEnds DEF Refusals
  <1>5. CASE Proceed("undo")
    BY <1>1, <1>2, <1>5, GoesOnOpen
  <1> QED BY <1>1, <1>4, <1>5

LEMMA UndoKeeps == ASSUME MigInv, Undo PROVE MigInv'
  <1>1. /\ step = "undo" /\ step' = "drop" /\ round' = Len(backups)
        /\ UNCHANGED <<sources, files, backups, hashes, read, report, before, pairs>>
    BY DEF Undo, Go
  <1>2. FilesSound' /\ BackupsSound'
    BY <1>1, ContentsStay, BackupsStay DEF MigInv
  <1>3. report = "none" /\ Len(backups) \in Nat /\ Len(backups) >= 1 /\ backups[Len(backups)].was = before
    <2>1. backups \in Seq(Copies) /\ Len(backups) \in Nat
      BY DEF MigInv, BackupsSound
    <2>2. Len(backups) >= 1 /\ backups[Len(backups)].was = before
      BY <1>1 DEF MigInv, ReturnSound, Passing
    <2> QED BY <1>1, <2>1, <2>2 DEF MigInv, CommandSound
  <1>4. CommandSound'
    BY <1>1, <1>3 DEF MigInv, CommandSound, Untouched, Restoring, Passing
  <1>5. ReadingSound' /\ ReturnSound'
    BY <1>1, <1>3 DEF ReadingSound, ReturnSound, Passing, Restoring
  <1> QED BY <1>1, <1>2, <1>3, <1>4, <1>5, NothingReported DEF MigInv

LEMMA RollbackKeeps == ASSUME MigInv, Rollback PROVE MigInv'
  <1>1. step = "idle" /\ UNCHANGED <<sources, files, backups, pairs>>
    BY DEF Rollback
  <1>2. FilesSound' /\ BackupsSound'
    BY <1>1, ContentsStay, BackupsStay DEF MigInv
  <1>3. PICK i \in DOMAIN backups :
          \/ step' = "drop" /\ round' = i /\ report' = "none" /\ UNCHANGED <<hashes, read, before>>
          \/ Reports("none")
    BY DEF Rollback, Go
  <1>4. CASE Reports("none")
    BY <1>2, <1>4, CommandEnds DEF Refusals
  <1>5. CASE step' = "drop" /\ round' = i /\ report' = "none" /\ UNCHANGED <<hashes, read, before>>
    <2>1. i \in 1 .. Len(backups) /\ i \in Nat /\ hashes = Unread
      BY <1>1 DEF MigInv, BackupsSound, CommandSound
    <2>2. CommandSound'
      BY <1>5, <2>1 DEF MigInv, CommandSound, Untouched, Restoring, Passing
    <2>3. ReadingSound' /\ ReturnSound'
      BY <1>1, <1>5, <2>1 DEF ReadingSound, ReturnSound, Passing, Restoring
    <2> QED BY <1>2, <1>5, <2>2, <2>3, NothingReported DEF MigInv
  <1> QED BY <1>3, <1>4, <1>5

\* A restoration goes on, or ends without having succeeded.
LEMMA GoesOnRestoring ==
    ASSUME MigInv, step \in Restoring, NEW where \in {"restore", "secret"}, Proceed(where), FilesSound',
           UNCHANGED <<backups, pairs>>, wal' = Nothing, where = "secret" => main' = backups[round].db
    PROVE  MigInv'
  <1>1. step' = where /\ UNCHANGED <<report, round, hashes, read, before, pairs, backups>>
    BY DEF Proceed, Go
  <1>2. BackupsSound'
    BY <1>1, BackupsStay DEF MigInv
  <1>3. CommandSound'
    BY <1>1 DEF MigInv, CommandSound, Untouched, Restoring, Passing
  <1>4. ReadingSound' /\ ReturnSound'
    BY <1>1 DEF MigInv, ReadingSound, ReturnSound, Passing, Restoring
  <1>5. report = "none"
    BY DEF MigInv, CommandSound, Restoring
  <1> QED BY <1>1, <1>2, <1>3, <1>4, <1>5, NothingReported DEF MigInv

LEMMA RestoringFails ==
    ASSUME MigInv, Fail, UNCHANGED <<sources, files, backups, pairs>>
    PROVE  MigInv'
  <1>1. FilesSound' /\ BackupsSound' /\ Reports("failed")
    BY ContentsStay, BackupsStay DEF MigInv, Fail
  <1> QED BY <1>1, CommandEnds DEF Refusals

LEMMA DropLogKeeps == ASSUME MigInv, DropLog PROVE MigInv'
  <1>1. step = "drop" /\ UNCHANGED <<table, samples, main, secret, backups, pairs>>
    BY DEF DropLog, sources
  <1>2. CASE Proceed("restore") /\ wal' = Nothing
    <2>1. FilesSound'
      BY <1>1, <1>2 DEF MigInv, FilesSound, OnePair
    <2> QED BY <1>1, <1>2, <2>1, GoesOnRestoring DEF Restoring
  <1>3. CASE Fail /\ UNCHANGED wal
    BY <1>1, <1>3, RestoringFails DEF sources, files
  <1> QED BY <1>2, <1>3 DEF DropLog

LEMMA RestoreDbKeeps == ASSUME MigInv, RestoreDb PROVE MigInv'
  <1>1. step = "restore" /\ UNCHANGED <<table, samples, wal, secret, backups, pairs>>
    BY DEF RestoreDb, sources
  <1>2. CASE Proceed("secret") /\ main' = Restored
    <2>1. round \in 1 .. Len(backups) /\ wal = Nothing /\ backups \in Seq(Copies)
      BY <1>1 DEF MigInv, ReturnSound, BackupsSound, Restoring
    <2>2. backups[round] \in Copies /\ OnePair(backups[round].db) /\ main' = backups[round].db
      <3>1. backups[round] \in Copies
        BY <2>1
      <3>2. \A i \in 1 .. Len(backups) : OnePair(backups[i].db)
        BY DEF MigInv, BackupsSound
      <3> QED BY <1>2, <2>1, <3>1, <3>2 DEF Restored
    <2>3. main' \in Contents \cup {Nothing} /\ OnePair(main)'
      BY <1>1, <2>2 DEF Copies, OnePair
    <2>4. FilesSound'
      BY <1>1, <2>3 DEF MigInv, FilesSound, OnePair
    <2> QED BY <1>1, <1>2, <2>1, <2>2, <2>4, GoesOnRestoring DEF Restoring
  <1>3. CASE Fail /\ UNCHANGED main
    BY <1>1, <1>3, RestoringFails DEF sources, files
  <1> QED BY <1>2, <1>3 DEF RestoreDb

LEMMA RestoreSecretKeeps == ASSUME MigInv, RestoreSecret PROVE MigInv'
  <1>1. step = "secret" /\ UNCHANGED <<table, samples, main, wal, backups, pairs>>
    BY DEF RestoreSecret, sources
  <1>2. CASE Fail /\ UNCHANGED secret
    BY <1>1, <1>2, RestoringFails DEF sources, files
  <1>3. CASE Reports(IF hashes = Unread THEN "rolled_back" ELSE "degraded") /\ secret' = backups[round].secret
    <2> DEFINE what == IF hashes = Unread THEN "rolled_back" ELSE "degraded"
    <2>1. /\ round \in 1 .. Len(backups) /\ wal = Nothing /\ main = backups[round].db
          /\ hashes = Unread \/ backups[round].was = before
      BY <1>1 DEF MigInv, ReturnSound, Restoring
    <2>2. /\ backups[round] \in Copies
          /\ backups[round].was = [db |-> backups[round].db, secret |-> backups[round].secret]
      BY <2>1 DEF MigInv, BackupsSound
    <2>3. secret' \in {0, 1}
      BY <1>3, <2>2 DEF Copies
    <2>4. FilesSound'
      BY <1>1, <2>3 DEF MigInv, FilesSound, OnePair
    <2>5. BackupsSound'
      BY <1>1, BackupsStay DEF MigInv
    <2>6. Seen' = backups'[round].was
      BY <1>1, <1>3, <2>1, <2>2 DEF Seen, Effective
    <2>7. Reports(what)
      BY <1>3
    <2>8. what \in Refusals => Seen' = before
      BY <1>1, <2>1, <2>6 DEF Refusals
    <2> HIDE DEF what
    <2> QED BY <2>4, <2>5, <2>6, <2>7, <2>8, CommandEnds
  <1> QED BY <1>2, <1>3 DEF RestoreSecret

LEMMA KilledKeeps == ASSUME MigInv, Killed PROVE MigInv'
  <1>1. Reports("none") /\ UNCHANGED <<sources, files, backups, pairs>>
    BY DEF Killed
  <1>2. FilesSound' /\ BackupsSound'
    BY <1>1, ContentsStay, BackupsStay DEF MigInv
  <1> QED BY <1>1, <1>2, CommandEnds DEF Refusals

LEMMA StepMig == MigInv /\ [MigrationNext]_migvars => MigInv'
  <1> SUFFICES ASSUME MigInv, [MigrationNext]_migvars PROVE MigInv'
    OBVIOUS
  <1>1. CASE UNCHANGED migvars
    <2>1. UNCHANGED <<table, samples, main, wal, secret, backups, step, round, hashes, read, report, before, pairs>>
      BY <1>1 DEF migvars, sources, files, command
    <2>2. Seen' = Seen /\ FilesSound' /\ BackupsSound'
      BY <2>1 DEF MigInv, FilesSound, BackupsSound, OnePair, Seen, Effective
    <2>3. CommandSound' /\ ReadingSound' /\ ReturnSound'
      BY <2>1, <2>2 DEF MigInv, CommandSound, ReadingSound, ReturnSound, Passing
    <2> QED BY <2>1, <2>2, <2>3 DEF MigInv, RollbackRestores, RefusedLeavesState
  <1>2. CASE MigrationNext
    BY <1>2, RewriteKeeps, UseKeeps, CheckpointKeeps, KilledKeeps, ApplyKeeps, LookHealthKeeps, LookSamplesKeeps,
       JudgeKeeps, BackupKeeps, SealKeeps, OpenKeeps, ImportKeeps, CloseKeeps, UndoKeeps, RollbackKeeps,
       DropLogKeeps, RestoreDbKeeps, RestoreSecretKeeps DEF MigrationNext
  <1> QED BY <1>1, <1>2

\* Whatever dies, fails or is rewritten in between: what is in the database as imported is
\* one content the two legacy files had together, a rollback that reports success has brought
\* back what its backup's command found, and a command that reports that it imported nothing
\* has left the database and the secret as they were (migrate_legacy_state,
\* rollback_legacy_state).
THEOREM MigrationKeepsItsWord == MigrationSpec => []MigrationSound
  <1>1. MigInv => MigrationSound
    BY DEF MigInv, FilesSound, OnePair, ImportIsOnePair, MigrationSound
  <1> QED BY <1>1, InitMig, StepMig, PTL DEF MigrationSpec

(***************************************************************************)
(* web_extract through the host's own interface (native_backend.py)         *)
(***************************************************************************)

\* The engine's thread and the waiting host: nothing is begun before the engine's check, and
\* while the engine works the host has stopped waiting only after the tool's timeout, which
\* is not before the engine's own deadline.  The engine's rows tell what its check refused.
WorkSound ==
    /\ hostTime \in Nat /\ worker.deadline \in Int /\ refusedFirst \subseteq Wanted
    /\ refusedLater \subseteq Accepted1
    /\ caller.step \in {"start", "waiting", "told"} /\ caller = [step |-> caller.step, entries |-> caller.entries, end |-> caller.end]
    /\ worker.step \in {"none", "starting", "all_refused", "running", "asking", "answered", "failed"}
    /\ caller.step = "start" => hostTime = 0 /\ worker.step = "none" /\ refusedFirst = {}
    /\ caller.step = "waiting" => worker.step # "none"
    /\ worker.step \in {"none", "starting"} => begun = {} /\ refusedLater = {}
    /\ worker.step = "starting" => hostTime <= StartDelay
    /\ worker.step \in {"running", "asking"} => worker.deadline <= ToolTimeout
    /\ worker.step = "all_refused" => refusedLater = Accepted1
    /\ worker.step \in {"running", "asking", "answered"} =>
          \A u \in Wanted : worker.rows[u] = "refused" <=> u \in refusedLater
    /\ caller.step = "told" /\ worker.step \in {"starting", "running", "asking"} => hostTime >= ToolTimeout

NativeInv == WorkSound /\ RefusalsHold

LEMMA InitNative == NativeInit => NativeInv
  BY NativeAssumption DEF NativeInit, NativeInv, WorkSound, RefusalsHold, NativeStep, Accepted1

\* An answer joined with what the first check refused: that is marked, and so is what the
\* answer marks; a failure as a whole marks nothing.
LEMMA JoinedWith ==
    ASSUME NEW row, NEW u \in Wanted
    PROVE  /\ Joined(row)[u] = "refused" <=> u \in refusedFirst \/ row[u] = "refused"
           /\ Everything("error")[u] # "refused"
           /\ Everything("refused")[u] = "refused"
  BY DEF Joined, Everything

LEMMA EngineKeeps ==
    ASSUME NativeInv, EngineBegins \/ EngineAttempts \/ EngineHears \/ EngineAnswers \/ EngineFails
    PROVE  NativeInv'
  <1>1. WorkSound /\ RefusalsHold
    BY DEF NativeInv
  <1>2. CASE EngineBegins
    <2>1. PICK R \in SUBSET Accepted1 :
            /\ refusedLater' = R
            /\ worker' = [step |-> IF R = Accepted1 THEN "all_refused" ELSE "running",
                          deadline |-> EngineDeadline(hostTime),
                          rows |-> [u \in Wanted |-> IF u \in R THEN "refused" ELSE "none"]]
      BY <1>2 DEF EngineBegins
    <2>2. worker.step = "starting" /\ UNCHANGED <<hostTime, refusedFirst, caller, begun>>
      BY <1>2 DEF EngineBegins
    <2>3. /\ worker'.step = IF R = Accepted1 THEN "all_refused" ELSE "running"
          /\ worker'.deadline = hostTime + ToolTimeout - Margin
          /\ begun = {} /\ hostTime <= StartDelay
      BY <1>1, <2>1, <2>2 DEF WorkSound, EngineDeadline
    <2>4. \A u \in Wanted : worker'.rows[u] = "refused" <=> u \in refusedLater'
      BY <2>1
    <2>5. caller.step # "told"
      BY <1>1, <2>2, <2>3, NativeAssumption DEF WorkSound
    <2>6. Accepted1' = Accepted1
      BY <2>2 DEF Accepted1
    <2>7. WorkSound'
      BY <1>1, <2>1, <2>2, <2>3, <2>4, <2>5, <2>6, NativeAssumption DEF WorkSound
    <2>8. RefusalsHold'
      BY <2>2, <2>3, <2>5 DEF RefusalsHold, NativeStep
    <2> QED BY <2>7, <2>8 DEF NativeInv
  <1>3. CASE EngineAttempts
    <2>1. /\ worker.step = "running" /\ hostTime < worker.deadline
          /\ begun' = begun \cup {[urls |-> OpenUrls, at |-> hostTime, told |-> NativeStep("told")]}
          /\ worker'.step = "asking" /\ worker'.deadline = worker.deadline /\ worker'.rows = worker.rows
          /\ UNCHANGED <<hostTime, refusedFirst, refusedLater, caller>>
      BY <1>3 DEF EngineAttempts, EngineAt
    <2>2. caller.step # "told"
      BY <1>1, <2>1, NativeAssumption DEF WorkSound
    <2>3. OpenUrls \cap (refusedFirst \cup refusedLater) = {}
      BY DEF OpenUrls, AcceptedBoth, Accepted1
    <2>4. WorkSound'
      BY <1>1, <2>1 DEF WorkSound, Accepted1
    <2>5. RefusalsHold'
      <3> DEFINE a == [urls |-> OpenUrls, at |-> hostTime, told |-> NativeStep("told")]
      <3>1. NativeStep("told") = FALSE
        BY <2>2 DEF NativeStep
      <3>2. a.urls = OpenUrls /\ ~ a.told /\ begun' = begun \cup {a}
        BY <2>1, <3>1
      <3> HIDE DEF a
      <3>3. \A b \in begun' : b.urls \cap (refusedFirst \cup refusedLater) = {} /\ ~ b.told
        BY <1>1, <2>3, <3>2 DEF RefusalsHold
      <3> QED BY <2>1, <2>2, <3>3 DEF RefusalsHold, NativeStep
    <2> QED BY <2>4, <2>5 DEF NativeInv
  <1>4. CASE EngineHears \/ EngineAnswers
    <2>1. /\ worker.step \in {"running", "asking"} /\ worker'.step \in {"running", "answered"}
          /\ worker'.deadline = worker.deadline
          /\ UNCHANGED <<hostTime, refusedFirst, refusedLater, caller, begun>>
      BY <1>4 DEF EngineHears, EngineAnswers, EngineAt
    <2>2. PICK S \in SUBSET OpenUrls :
             worker'.rows = [u \in Wanted |-> IF u \in S THEN "page"
                                               ELSE IF u \in OpenUrls THEN "error" ELSE worker.rows[u]]
      <3>1. CASE EngineHears
        BY <3>1 DEF EngineHears, EngineAt
      <3>2. CASE EngineAnswers
        <4>1. worker'.rows = [u \in Wanted |-> IF u \in OpenUrls THEN "error" ELSE worker.rows[u]]
          BY <3>2 DEF EngineAnswers, EngineAt
        <4> DEFINE Then(S) == [u \in Wanted |-> IF u \in S THEN "page"
                                                 ELSE IF u \in OpenUrls THEN "error" ELSE worker.rows[u]]
        <4>2. worker'.rows = Then({})
          BY <4>1
        <4> HIDE DEF Then
        <4>3. \E S \in SUBSET OpenUrls : worker'.rows = Then(S)
          BY <4>2
        <4> QED BY <4>3 DEF Then
      <3> QED BY <1>4, <3>1, <3>2
    <2>3. \A u \in Wanted : worker'.rows[u] = "refused" <=> u \in refusedLater
      <3>1. \A u \in OpenUrls : u \notin refusedLater
        BY DEF OpenUrls, AcceptedBoth
      <3> QED BY <1>1, <2>1, <2>2, <3>1 DEF WorkSound
    <2>4. WorkSound'
      BY <1>1, <2>1, <2>3 DEF WorkSound, Accepted1
    <2>5. RefusalsHold'
      BY <1>1, <2>1 DEF RefusalsHold, NativeStep
    <2> QED BY <2>4, <2>5 DEF NativeInv
  <1>5. CASE EngineFails
    <2>1. /\ worker.step \in {"starting", "running", "asking", "all_refused"} /\ worker'.step = "failed"
          /\ worker'.deadline = worker.deadline
          /\ UNCHANGED <<hostTime, refusedFirst, refusedLater, caller, begun>>
      BY <1>5 DEF EngineFails, EngineAt
    <2>2. WorkSound'
      BY <1>1, <2>1 DEF WorkSound, Accepted1
    <2>3. RefusalsHold'
      BY <1>1, <2>1 DEF RefusalsHold, NativeStep
    <2> QED BY <2>2, <2>3 DEF NativeInv
  <1> QED BY <1>2, <1>3, <1>4, <1>5

LEMMA HostKeeps ==
    ASSUME NativeInv, NotReady \/ CheckUrls \/ TakeEngineAnswer \/ CallTimesOut \/ HostTick
    PROVE  NativeInv'
  <1>1. WorkSound /\ RefusalsHold
    BY DEF NativeInv
  <1>2. CASE NotReady
    <2>1. /\ caller.step = "start" /\ caller' = [step |-> "told", entries |-> Everything("error"), end |-> "failed"]
          /\ UNCHANGED <<hostTime, refusedFirst, refusedLater, worker, begun>>
      BY <1>2 DEF NotReady, NativeStep, Report
    <2>2. caller'.step = "told" /\ caller'.entries = Everything("error") /\ caller'.end = "failed"
      BY <2>1
    <2>3. WorkSound'
      BY <1>1, <2>1, <2>2 DEF WorkSound, Accepted1
    <2>4. RefusalsHold'
      <3>1. begun = {} /\ refusedFirst = {}
        BY <1>1, <2>1 DEF WorkSound
      <3> QED BY <2>1, <2>2, <3>1, JoinedWith DEF RefusalsHold
    <2> QED BY <2>3, <2>4 DEF NativeInv
  <1>3. CASE CheckUrls
    <2>1. PICK R \in SUBSET Wanted :
            /\ refusedFirst' = R
            /\ IF R = Wanted THEN Report(Everything("refused"), "answered") /\ UNCHANGED worker
               ELSE caller' = [caller EXCEPT !.step = "waiting"] /\ EngineAt("starting", worker.rows)
      BY <1>3 DEF CheckUrls
    <2>2. caller.step = "start" /\ UNCHANGED <<hostTime, refusedLater, begun>>
      BY <1>3 DEF CheckUrls, NativeStep
    <2>3. worker.step = "none" /\ begun = {} /\ refusedLater = {} /\ hostTime = 0
      BY <1>1, <2>2 DEF WorkSound
    <2>4. CASE R = Wanted
      <3>1. caller' = [step |-> "told", entries |-> Everything("refused"), end |-> "answered"] /\ worker' = worker
        BY <2>1, <2>4 DEF Report
      <3>2. caller'.step = "told" /\ caller'.entries = Everything("refused") /\ caller'.end = "answered"
        BY <3>1
      <3>3. WorkSound'
        BY <1>1, <2>1, <2>2, <2>3, <3>1, <3>2 DEF WorkSound, Accepted1
      <3>4. RefusalsHold'
        BY <2>1, <2>2, <2>3, <2>4, <3>2, JoinedWith DEF RefusalsHold
      <3> QED BY <3>3, <3>4 DEF NativeInv
    <2>5. CASE R # Wanted
      <3>1. /\ caller'.step = "waiting" /\ caller' = [step |-> caller'.step, entries |-> caller'.entries, end |-> caller'.end]
            /\ worker'.step = "starting" /\ worker'.deadline = worker.deadline
        BY <1>1, <2>1, <2>5 DEF EngineAt, WorkSound
      <3>2. WorkSound'
        BY <1>1, <2>1, <2>2, <2>3, <3>1, NativeAssumption DEF WorkSound, Accepted1
      <3>3. RefusalsHold'
        BY <2>2, <2>3, <3>1 DEF RefusalsHold, NativeStep
      <3> QED BY <3>2, <3>3 DEF NativeInv
    <2> QED BY <2>4, <2>5
  <1>4. CASE TakeEngineAnswer \/ CallTimesOut
    <2>1. PICK row, end1 :
             /\ caller.step = "waiting" /\ Report(Joined(row), end1)
             /\ UNCHANGED <<hostTime, refusedFirst, refusedLater, worker, begun>>
             /\ \/ worker.step = "answered" /\ row = worker.rows
                \/ worker.step = "all_refused" /\ row = Everything("refused")
                \/ worker.step = "failed" /\ row = Everything("error") /\ end1 = "failed"
                \/ hostTime >= ToolTimeout /\ row = Everything("error") /\ end1 = "timed_out"
      BY <1>4 DEF TakeEngineAnswer, CallTimesOut, NativeStep, AllRefused
    <2>2. /\ caller'.step = "told" /\ caller'.entries = Joined(row) /\ caller'.end = end1
          /\ caller' = [step |-> caller'.step, entries |-> caller'.entries, end |-> caller'.end]
      BY <2>1 DEF Report
    <2>3. WorkSound'
      BY <1>1, <2>1, <2>2 DEF WorkSound, Accepted1
    <2>4. ASSUME NEW u \in Wanted
          PROVE  /\ u \in refusedFirst => Joined(row)[u] = "refused"
                 /\ end1 = "answered" /\ u \in refusedLater => Joined(row)[u] = "refused"
                 /\ Joined(row)[u] = "refused" => u \in refusedFirst \cup refusedLater
      <3>1. CASE worker.step = "answered" /\ row = worker.rows
        BY <1>1, <3>1, JoinedWith DEF WorkSound
      <3>2. CASE worker.step = "all_refused" /\ row = Everything("refused")
        BY <1>1, <3>2, JoinedWith DEF WorkSound, Accepted1
      <3>3. CASE row = Everything("error") /\ end1 \in {"failed", "timed_out"}
        BY <3>3, JoinedWith
      <3> QED BY <2>1, <3>1, <3>2, <3>3
    <2>5. refusedFirst \subseteq Wanted /\ refusedLater \subseteq Wanted
      BY <1>1 DEF WorkSound, Accepted1
    <2>6. RefusalsHold'
      BY <1>1, <2>1, <2>2, <2>4, <2>5 DEF RefusalsHold, NativeStep
    <2> QED BY <2>3, <2>6 DEF NativeInv
  <1>5. CASE HostTick
    <2>1. /\ caller.step # "start" /\ hostTime' = hostTime + 1
          /\ worker.step = "starting" => hostTime < StartDelay
          /\ UNCHANGED <<refusedFirst, refusedLater, caller, worker, begun>>
      BY <1>5 DEF HostTick, NativeStep
    <2>2. WorkSound'
      BY <1>1, <2>1, NativeAssumption DEF WorkSound, Accepted1
    <2>3. RefusalsHold'
      BY <1>1, <2>1 DEF RefusalsHold, NativeStep
    <2> QED BY <2>2, <2>3 DEF NativeInv
  <1> QED BY <1>2, <1>3, <1>4, <1>5

LEMMA StepNative == NativeInv /\ [NativeNext]_nativevars => NativeInv'
  <1> SUFFICES ASSUME NativeInv, [NativeNext]_nativevars PROVE NativeInv'
    OBVIOUS
  <1>1. CASE UNCHANGED nativevars
    BY <1>1 DEF nativevars, NativeInv, WorkSound, RefusalsHold, NativeStep, Accepted1
  <1>2. CASE NativeNext
    BY <1>2, EngineKeeps, HostKeeps DEF NativeNext
  <1> QED BY <1>1, <1>2

\* A refused URL never reaches a provider, and none is asked once the call was reported over;
\* the refusals of the first check carry their mark whichever way the call ends, those of the
\* engine's check when it answered: for every timeout, margin and delay of the thread that the
\* margin covers (native_backend.py, _run_extract).
THEOREM RefusalsAreKept == NativeSpec => []RefusalsHold
  <1>1. NativeInv => RefusalsHold
    BY DEF NativeInv
  <1> QED BY <1>1, InitNative, StepNative, PTL DEF NativeSpec

(***************************************************************************)
(* The session with the local DonSeTch process (providers.d/donsetch.py)     *)
(***************************************************************************)
PagesOwn == \A i \in 1 .. Len(rows) : rows[i] \in {i, NoPage}

ClosedRight ==
    IF host.error = "none" THEN Len(rows) = PageCount
    ELSE \A i \in 1 .. Len(rows) : rows[i] = NoPage

\* Rows grow one by one; once the session is closed they are all there, or nothing was fetched.
SessionInv ==
    /\ rows \in Seq(Nat) /\ Len(rows) <= PageCount
    /\ PagesOwn
    /\ host \in [step : {"start", "initialize", "next", "await", "close", "done"}, error : {"none"} \cup {host.error}]
    /\ host.step \notin {"close", "done"} => host.error = "none"
    /\ host.step \in {"start", "initialize"} => rows = <<>>
    /\ host.step = "await" => Len(rows) < PageCount
    /\ host.step \in {"close", "done"} => ClosedRight
    /\ host.step = "start" => child = "none"
    /\ host.step = "done" => child # "up"

LEMMA InitSession == SessionInit => SessionInv
  <1> SUFFICES ASSUME SessionInit PROVE SessionInv
    OBVIOUS
  <1>1. rows = <<>> /\ Len(rows) = 0 /\ rows \in Seq(Nat)
    BY DEF SessionInit
  <1> QED BY <1>1, SessionAssumption DEF SessionInit, SessionInv, PagesOwn

\* A step to another place that leaves the rows as they are.
LEMMA MovesOn ==
    ASSUME SessionInv, UNCHANGED rows, NEW where \in {"initialize", "next", "await", "close", "done"}, GoTo(where),
           where = "initialize" => host.step = "start",
           where = "await" => Len(rows) < PageCount,
           where = "next" => host.error = "none",
           where = "await" => host.error = "none",
           where = "close" => Len(rows) = PageCount /\ host.error = "none",
           where = "done" => host.step = "close" /\ child' # "up"
    PROVE  SessionInv'
  <1>1. host' \in [step : {"start", "initialize", "next", "await", "close", "done"}, error : {"none"} \cup {host'.error}]
        /\ host'.step = where /\ host'.error = host.error
    BY DEF GoTo, SessionInv
  <1>2. PagesOwn' /\ (ClosedRight => ClosedRight')
    BY <1>1 DEF SessionInv, PagesOwn, ClosedRight
  <1> QED BY <1>1, <1>2 DEF SessionInv, ClosedRight

LEMMA Raised ==
    ASSUME SessionInv, UNCHANGED rows, NEW error, error # "none", Raise(error),
           \A i \in 1 .. Len(rows) : rows[i] = NoPage
    PROVE  SessionInv'
  BY DEF SessionInv, Raise, PagesOwn, ClosedRight

LEMMA GivenUp ==
    ASSUME SessionInv, NEW error, error # "none", GiveUp(error), host.error = "none"
    PROVE  SessionInv'
  <1>1. CASE \E i \in 1 .. Len(rows) : rows[i] # NoPage
    <2>1. /\ rows' = [i \in 1 .. PageCount |-> IF i <= Len(rows) THEN rows[i] ELSE NoPage]
          /\ GoTo("close")
      BY <1>1 DEF GiveUp
    <2>2. rows \in Seq(Nat) /\ Len(rows) \in Nat /\ PageCount \in Nat
      BY SessionAssumption DEF SessionInv
    <2>3. \A i \in 1 .. PageCount : (IF i <= Len(rows) THEN rows[i] ELSE NoPage) \in Nat
      BY <2>2 DEF NoPage
    <2>4. rows' \in Seq(Nat) /\ Len(rows') = PageCount
      BY <2>1, <2>2, <2>3
    <2>5. \A i \in 1 .. PageCount : rows'[i] \in {i, NoPage}
      BY <2>1, <2>2 DEF SessionInv, PagesOwn
    <2>6. host' = [step |-> "close", error |-> "none"]
      BY <2>1 DEF GoTo, SessionInv
    <2> QED BY <2>2, <2>4, <2>5, <2>6 DEF SessionInv, PagesOwn, ClosedRight
  <1>2. CASE \A i \in 1 .. Len(rows) : rows[i] = NoPage
    <2>1. Raise(error) /\ UNCHANGED rows
      BY <1>2 DEF GiveUp
    <2> QED BY <1>2, <2>1, Raised
  <1> QED BY <1>1, <1>2

LEMMA BreaksOff ==
    ASSUME SessionInv, Awaiting, NEW error, error # "none", Breaks(error)
    PROVE  SessionInv'
  <1>1. host.error = "none"
    BY DEF SessionInv, Awaiting
  <1>2. CASE AtStep("initialize")
    <2>1. Raise(error) /\ UNCHANGED rows /\ rows = <<>>
      BY <1>2 DEF Breaks, SessionInv, AtStep
    <2>2. \A i \in 1 .. Len(rows) : rows[i] = NoPage
      BY <2>1
    <2> QED BY <2>1, <2>2, Raised
  <1>3. CASE ~ AtStep("initialize")
    BY <1>1, <1>3, GivenUp DEF Breaks
  <1> QED BY <1>2, <1>3

LEMMA Projected ==
    ASSUME SessionInv, NEW page \in {NoPage, Len(rows) + 1}, Project(page), Len(rows) < PageCount, host.error = "none"
    PROVE  SessionInv'
  <1>1. /\ rows' = Append(rows, page) /\ rows \in Seq(Nat) /\ Len(rows) \in Nat /\ page \in Nat
        /\ host'.step = "next" /\ host'.error = "none"
        /\ host' \in [step : {"start", "initialize", "next", "await", "close", "done"}, error : {"none"} \cup {host'.error}]
    BY DEF SessionInv, Project, GoTo, NoPage
  <1>2. /\ rows' \in Seq(Nat) /\ Len(rows') = Len(rows) + 1 /\ rows'[Len(rows) + 1] = page
        /\ \A i \in 1 .. Len(rows) : rows'[i] = rows[i]
    BY <1>1
  <1>3. ASSUME NEW i \in 1 .. Len(rows') PROVE rows'[i] \in {i, NoPage}
    BY <1>1, <1>2 DEF SessionInv, PagesOwn
  <1> QED BY <1>1, <1>2, <1>3, SessionAssumption DEF SessionInv, PagesOwn

LEMMA StepSession == SessionInv /\ [SessionNext]_sessionvars => SessionInv'
  <1> SUFFICES ASSUME SessionInv, [SessionNext]_sessionvars PROVE SessionInv'
    OBVIOUS
  <1>1. CASE ChildSays \/ ChildDies \/ SessionTime \/ UNCHANGED sessionvars
    <2>1. rows' = rows /\ host' = host /\ (child' = child \/ (child = "up" /\ child' = "gone"))
      BY <1>1 DEF ChildSays, ChildDies, SessionTime, sessionvars
    <2> QED BY <2>1 DEF SessionInv, PagesOwn, ClosedRight
  <1>2. CASE StartSession
    <2>1. host.step = "start" /\ rows = <<>> /\ rows' = rows
      BY <1>2 DEF StartSession, AtStep, SessionInv
    <2>2. \A i \in 1 .. Len(rows) : rows[i] = NoPage
      BY <2>1
    <2>3. CASE Raise("not_configured")
      BY <2>1, <2>2, <2>3, Raised
    <2>4. CASE GoTo("initialize")
      BY <2>1, <2>4, MovesOn
    <2> QED BY <1>2, <2>3, <2>4 DEF StartSession
  <1>3. CASE NextPage
    <2>1. host.step = "next" /\ Len(rows) < PageCount /\ host.error = "none"
      BY <1>3 DEF NextPage, AtStep, SessionInv
    <2>2. CASE Project(NoPage)
      BY <2>1, <2>2, Projected
    <2>3. CASE GoTo("await") /\ UNCHANGED rows
      BY <2>1, <2>3, MovesOn
    <2>4. CASE GiveUp("process_failed")
      BY <2>1, <2>4, GivenUp
    <2> QED BY <1>3, <2>2, <2>3, <2>4 DEF NextPage
  <1>4. CASE AllRows
    <2>1. Len(rows) = PageCount /\ GoTo("close") /\ rows' = rows /\ host.error = "none"
      BY <1>4 DEF AllRows, AtStep, SessionInv
    <2> QED BY <2>1, MovesOn
  <1>5. CASE ReadLine
    <2> DEFINE line == Head(lines)
    <2>1. Awaiting /\ host.error = "none"
      BY <1>5 DEF ReadLine, SessionInv, Awaiting
    <2>2. CASE Breaks("mcp_failed") \/ Breaks("call_failed")
      BY <2>1, <2>2, BreaksOff
    <2>3. CASE UNCHANGED <<rows, host>> /\ UNCHANGED child
      BY <2>3 DEF SessionInv, PagesOwn, ClosedRight
    <2>4. CASE GoTo("next") /\ UNCHANGED rows
      BY <2>1, <2>4, MovesOn
    <2>5. CASE ~ AtStep("initialize") /\ Matches(line) /\ Project(IF line.kind = "page" THEN line.id - 1 ELSE NoPage)
      <3> DEFINE page == IF line.kind = "page" THEN line.id - 1 ELSE NoPage
      <3>1. host.step = "await" /\ Len(rows) < PageCount /\ rows \in Seq(Nat) /\ Len(rows) \in Nat
        BY <2>1, <2>5 DEF Awaiting, AtStep, SessionInv
      <3>2. line.id = Len(rows) + 2
        BY <2>5 DEF Matches, RequestId
      <3>3. page \in {NoPage, Len(rows) + 1}
        BY <3>1, <3>2
      <3>4. Project(page)
        BY <2>5
      <3> HIDE DEF page
      <3> QED BY <2>1, <3>1, <3>3, <3>4, Projected
    <2>6. \/ Breaks("mcp_failed") \/ Breaks("call_failed")
          \/ UNCHANGED <<rows, host>> /\ UNCHANGED child
          \/ GoTo("next") /\ UNCHANGED rows
          \/ ~ AtStep("initialize") /\ Matches(line) /\ Project(IF line.kind = "page" THEN line.id - 1 ELSE NoPage)
      BY <1>5 DEF ReadLine
    <2> QED BY <2>2, <2>3, <2>4, <2>5, <2>6
  <1>6. CASE ReadTimesOut
    BY <1>6, BreaksOff DEF ReadTimesOut
  <1>7. CASE CloseSession
    <2>1. host.step = "close" /\ GoTo("done") /\ rows' = rows /\ child' # "up"
      BY <1>7 DEF CloseSession, AtStep
    <2> QED BY <2>1, MovesOn
  <1> QED BY <1>1, <1>2, <1>3, <1>4, <1>5, <1>6, <1>7 DEF SessionNext

\* However the child answers and whenever a deadline passes: the extraction raises with no
\* page fetched, or it returns one row per URL, each with its own page or none, and the
\* child does not outlive it (execute_extract of donsetch.py), for every number of URLs.
THEOREM SessionEndsOneWay == SessionSpec => []SessionOutcome
  <1>1. SessionInv => SessionOutcome
    BY DEF SessionInv, PagesOwn, ClosedRight, SessionOutcome, AtStep
  <1> QED BY <1>1, InitSession, StepSession, PTL DEF SessionSpec

(***************************************************************************)
(* The rows of a DonSeTch search answer (providers.d/donsetch.py)            *)
(***************************************************************************)

\* A text is bound to the hit of its rank, and the header in effect is one that binds.
EvidenceInv ==
    /\ rankOf \in [Hits -> Ranks \ {0}]
    /\ \A g, h \in Hits : rankOf[g] = rankOf[h] => g = h
    /\ allowedHits \in SUBSET Hits
    /\ evidence \in [Ranks -> [title : Hits \cup {Unbound}, snippet : SUBSET Hits]]
    /\ parser # Unbound => parser \in Declared /\ current = HitAt(parser)
    /\ \A h \in Hits : /\ evidence[rankOf[h]].title \in {Unbound, h}
                       /\ evidence[rankOf[h]].snippet \subseteq {h}
    /\ EvidenceIsOwn

\* The ranks are all different, so each has one hit.
LEMMA HitOfRank ==
    ASSUME EvidenceInv
    PROVE  /\ Declared \subseteq Ranks
           /\ \A h \in Hits : rankOf[h] \in Declared /\ HitAt(rankOf[h]) = h
           /\ \A r \in Declared : HitAt(r) \in Hits /\ rankOf[HitAt(r)] = r
  <1>1. \A h \in Hits : rankOf[h] \in Declared /\ HitAt(rankOf[h]) = h
    BY DEF EvidenceInv, Declared, HitAt
  <1>2. \A r \in Declared : \E h \in Hits : rankOf[h] = r
    BY DEF Declared
  <1>3. Declared \subseteq Ranks
    BY DEF EvidenceInv, Declared
  <1> QED BY <1>1, <1>2, <1>3

LEMMA InitEvidence == EvidenceInit => EvidenceInv
  <1> SUFFICES ASSUME EvidenceInit PROVE EvidenceInv
    OBVIOUS
  <1>1. rankOf \in [Hits -> Ranks \ {0}] /\ \A g, h \in Hits : rankOf[g] = rankOf[h] => g = h
    BY DEF EvidenceInit
  <1>2. evidence = [r \in Ranks |-> NoText0] /\ NoText0 \in [title : Hits \cup {Unbound}, snippet : SUBSET Hits]
    BY DEF EvidenceInit, NoText0
  <1> QED BY <1>1, <1>2 DEF EvidenceInit, EvidenceInv, EvidenceIsOwn, NoText0

\* One line binds a new text to a rank, and it is about the hit of that rank.
LEMMA OneText ==
    ASSUME EvidenceInv, NEW r \in Declared, NEW text \in [title : Hits \cup {Unbound}, snippet : SUBSET Hits],
           text.title \in {Unbound, HitAt(r)}, text.snippet \subseteq {HitAt(r)},
           evidence' = [evidence EXCEPT ![r] = text], UNCHANGED <<rankOf, allowedHits, projected>>,
           parser' # Unbound => parser' \in Declared /\ current' = HitAt(parser')
    PROVE  EvidenceInv'
  <1>1. r \in Ranks /\ HitAt(r) \in Hits /\ \A h \in Hits : rankOf[h] \in Ranks /\ HitAt(rankOf[h]) = h
    BY HitOfRank DEF EvidenceInv
  <1>2. /\ evidence' \in [Ranks -> [title : Hits \cup {Unbound}, snippet : SUBSET Hits]]
        /\ evidence'[r] = text /\ \A q \in Ranks \ {r} : evidence'[q] = evidence[q]
    BY <1>1 DEF EvidenceInv
  <1>3. ASSUME NEW h \in Hits
        PROVE  evidence'[rankOf[h]].title \in {Unbound, h} /\ evidence'[rankOf[h]].snippet \subseteq {h}
    BY <1>1, <1>2, <1>3 DEF EvidenceInv
  <1>4. EvidenceIsOwn'
    BY DEF EvidenceInv, EvidenceIsOwn
  <1>5. (parser # Unbound => parser \in Declared /\ current = HitAt(parser))'
    BY DEF Declared, HitAt
  <1> QED BY <1>2, <1>3, <1>4, <1>5 DEF EvidenceInv

\* A line after which no header, or the same, is in effect.
LEMMA SameTexts ==
    ASSUME EvidenceInv, UNCHANGED <<rankOf, allowedHits, evidence, projected>>,
           parser' = Unbound \/ UNCHANGED <<parser, current>>
    PROVE  EvidenceInv'
  BY DEF EvidenceInv, EvidenceIsOwn, Declared, HitAt

LEMMA StepEvidence == EvidenceInv /\ [EvidenceNext]_evidencevars => EvidenceInv'
  <1> SUFFICES ASSUME EvidenceInv, [EvidenceNext]_evidencevars PROVE EvidenceInv'
    OBVIOUS
  <1>1. ASSUME NEW r \in Ranks, NEW about \in Hits \cup {Unbound}, HeaderLine(r, about) PROVE EvidenceInv'
    <2>1. CASE Binds(r, about)
      <3> DEFINE text == [title |-> about, snippet |-> {}]
      <3>1. r \in Declared /\ about = HitAt(r) /\ current' = about /\ parser' = r
            /\ evidence' = [evidence EXCEPT ![r] = text] /\ UNCHANGED <<rankOf, allowedHits, projected>>
        BY <1>1, <2>1 DEF HeaderLine, ReadText, Binds
      <3>2. text \in [title : Hits \cup {Unbound}, snippet : SUBSET Hits] /\ text.title = about /\ text.snippet = {}
        OBVIOUS
      <3> HIDE DEF text
      <3> QED BY <3>1, <3>2, OneText
    <2>2. CASE ~ Binds(r, about)
      BY <1>1, <2>2, SameTexts DEF HeaderLine, ReadText
    <2> QED BY <2>1, <2>2
  <1>2. CASE SnippetLine
    <2>1. CASE parser = Unbound
      BY <1>2, <2>1, SameTexts DEF SnippetLine, ReadText
    <2>2. CASE parser # Unbound
      <3> DEFINE text == [evidence[parser] EXCEPT !.snippet = @ \cup {current}]
      <3>1. /\ parser \in Declared /\ parser \in Ranks /\ current = HitAt(parser) /\ current \in Hits
            /\ rankOf[current] = parser
        BY <2>2, HitOfRank DEF EvidenceInv
      <3>2. evidence[parser] \in [title : Hits \cup {Unbound}, snippet : SUBSET Hits]
        BY <3>1 DEF EvidenceInv
      <3>3. evidence[parser].title \in {Unbound, current} /\ evidence[parser].snippet \subseteq {current}
        BY <3>1 DEF EvidenceInv
      <3>4. /\ text \in [title : Hits \cup {Unbound}, snippet : SUBSET Hits]
            /\ text.title = evidence[parser].title /\ text.snippet = evidence[parser].snippet \cup {current}
        BY <3>1, <3>2
      <3>5. /\ evidence' = [evidence EXCEPT ![parser] = text]
            /\ UNCHANGED <<rankOf, allowedHits, current, parser, projected>>
        BY <1>2, <2>2 DEF SnippetLine, ReadText
      <3> HIDE DEF text
      <3> QED BY <2>2, <3>1, <3>3, <3>4, <3>5, OneText
    <2> QED BY <2>1, <2>2
  <1>3. CASE FooterLine \/ OtherLine \/ UNCHANGED evidencevars
    BY <1>3, SameTexts DEF FooterLine, OtherLine, ReadText, evidencevars
  <1>4. CASE ProjectHits
    <2>1. projected' = ProjectedRows /\ UNCHANGED <<rankOf, allowedHits, current, parser, evidence>>
      BY <1>4 DEF ProjectHits
    <2>2. EvidenceIsOwn'
      BY <2>1 DEF EvidenceInv, EvidenceIsOwn, ProjectedRows, RowOf
    <2> QED BY <2>1, <2>2 DEF EvidenceInv, Declared, HitAt
  <1> QED BY <1>1, <1>2, <1>3, <1>4 DEF EvidenceNext

\* A row carries the title and the snippets of its own hit only, whatever ranks and references
\* the headers of the text carry and wherever it breaks off, and no dropped hit has a row
\* (the binding of donsetch.py), for any number of hits and lines.
THEOREM EvidenceStaysOwn == EvidenceSpec => []EvidenceIsOwn
  <1>1. EvidenceInv => EvidenceIsOwn
    BY DEF EvidenceInv
  <1> QED BY <1>1, InitEvidence, StepEvidence, PTL DEF EvidenceSpec

-----------------------------------------------------------------------------
(* Lists that are filtered (Sublists)                                      *)

\* How many of the positions come no later than i.
RankIn(at, i) == Cardinality({j \in at : j <= i})

LEMMA PositionsFinite ==
    ASSUME NEW n \in Nat, NEW at \in SUBSET (1 .. n)
    PROVE  /\ IsFiniteSet(at) /\ Cardinality(at) \in Nat
           /\ \A i \in at : RankIn(at, i) \in 1 .. Cardinality(at)
           /\ \A i, j \in at : i < j => RankIn(at, i) < RankIn(at, j)
  <1>0. \A i \in at : i \in Nat
    OBVIOUS
  <1>1. IsFiniteSet(at) /\ Cardinality(at) \in Nat
    <2>1. IsFiniteSet(1 .. n)
      BY FS_Interval
    <2> QED
      BY <2>1, FS_Subset, FS_CardinalityType
  <1>2. ASSUME NEW i \in at PROVE RankIn(at, i) \in 1 .. Cardinality(at)
    <2> DEFINE S == {j \in at : j <= i}
    <2>1. S \in SUBSET at /\ i \in S
      OBVIOUS
    <2>2. IsFiniteSet(S) /\ Cardinality(S) <= Cardinality(at) /\ Cardinality(S) \in Nat
      BY <1>1, <2>1, FS_Subset, FS_CardinalityType
    <2>3. Cardinality(S) # 0
      BY <2>1, <2>2, FS_EmptySet
    <2> QED
      BY <1>1, <2>2, <2>3 DEF RankIn
  <1>3. ASSUME NEW i \in at, NEW j \in at, i < j PROVE RankIn(at, i) < RankIn(at, j)
    <2> DEFINE S == {k \in at : k <= i}
               T == {k \in at : k <= j}
    <2>0. i \in Nat /\ j \in Nat
      OBVIOUS
    <2>1. S \in SUBSET T /\ j \in T /\ j \notin S /\ T \in SUBSET at
      <3>1. \A k \in at : k <= i => k <= j
        BY <1>0, <1>3, <2>0
      <3>2. j <= j /\ ~ (j <= i)
        BY <1>3, <2>0
      <3>3. S \in SUBSET T /\ T \in SUBSET at
        BY <3>1
      <3>4. j \in T /\ j \notin S
        BY <3>2
      <3> QED
        BY <3>3, <3>4
    <2>2. IsFiniteSet(T)
      BY <1>1, <2>1, FS_Subset
    <2>3. Cardinality(S) <= Cardinality(T) /\ Cardinality(S) # Cardinality(T)
      BY <2>1, <2>2, FS_Subset
    <2> QED
      BY <1>2, <2>3 DEF RankIn
  <1> QED
    BY <1>1, <1>2, <1>3

\* Every rank is taken: the k-th position exists.
LEMMA NthExists ==
    ASSUME NEW n \in Nat, NEW at \in SUBSET (1 .. n), NEW k \in 1 .. Cardinality(at)
    PROVE  \E i \in at : RankIn(at, i) = k
  <1> DEFINE f == [i \in at |-> RankIn(at, i)]
             T == 1 .. Cardinality(at)
  <1>1. IsFiniteSet(at) /\ Cardinality(at) \in Nat
    BY PositionsFinite
  <1>2. f \in Injection(at, T)
    <2>1. f \in [at -> T]
      BY PositionsFinite
    <2>2. \A i, j \in at : f[i] = f[j] => i = j
      <3> SUFFICES ASSUME NEW i \in at, NEW j \in at, f[i] = f[j] PROVE i = j
        OBVIOUS
      <3>0. i \in Nat /\ j \in Nat
        OBVIOUS
      <3>3. RankIn(at, i) \in T
        BY PositionsFinite
      <3>1. RankIn(at, i) = RankIn(at, j) /\ RankIn(at, i) \in Int
        BY <1>1, <3>3
      <3>2. (i < j => RankIn(at, i) < RankIn(at, j)) /\ (j < i => RankIn(at, j) < RankIn(at, i))
        BY PositionsFinite
      <3> QED
        BY <3>0, <3>1, <3>2
    <2> QED
      BY <2>1, <2>2 DEF Injection, IsInjective
  <1>3. IsFiniteSet(T) /\ Cardinality(T) = Cardinality(at)
    BY <1>1, FS_Interval
  <1>4. f \in Surjection(at, T)
    BY <1>2, <1>3, FS_Injection
  <1> QED
    BY <1>4 DEF Surjection

\* Each item picked comes from a position of its own, in order.
PickedFrom(s, at, from) ==
    /\ from \in [1 .. Cardinality(at) -> at]
    /\ Picked(s, at) = [k \in 1 .. Cardinality(at) |-> s[from[k]]]
    /\ \A k, m \in 1 .. Cardinality(at) : k < m => from[k] < from[m]
    /\ \A i \in at : \E k \in 1 .. Cardinality(at) : from[k] = i

LEMMA PickedItems ==
    ASSUME NEW n \in Nat, NEW at \in SUBSET (1 .. n), NEW s
    PROVE  \E from : PickedFrom(s, at, from)
  <1> DEFINE K == 1 .. Cardinality(at)
             from == [k \in K |-> CHOOSE i \in at : RankIn(at, i) = k]
  <1>1. \A k \in K : from[k] \in at /\ RankIn(at, from[k]) = k
    BY NthExists
  <1>2. Picked(s, at) = [k \in K |-> s[from[k]]]
    BY DEF Picked, RankIn
  <1> HIDE DEF from, K
  <1>4. \A i, j \in at : i < j => RankIn(at, i) < RankIn(at, j)
    BY PositionsFinite
  <1>5. \A i \in at : i \in Nat /\ RankIn(at, i) \in K /\ RankIn(at, i) \in Nat
    <2> SUFFICES ASSUME NEW i \in at
                 PROVE  i \in Nat /\ RankIn(at, i) \in K /\ RankIn(at, i) \in Nat
      OBVIOUS
    <2>1. RankIn(at, i) \in 1 .. Cardinality(at) /\ Cardinality(at) \in Nat
      BY PositionsFinite
    <2> QED
      BY <2>1 DEF K
  <1>6. \A k, m \in K : k < m => from[k] < from[m]
    <2> SUFFICES ASSUME NEW k \in K, NEW m \in K, k < m PROVE from[k] < from[m]
      OBVIOUS
    <2>1. from[k] \in Nat /\ from[m] \in Nat /\ k \in Nat /\ m \in Nat
      BY <1>1, <1>5
    <2>2. from[m] # from[k] /\ ~ (from[m] < from[k])
      BY <1>1, <1>4, <2>1
    <2> QED
      BY <2>1, <2>2
  <1>7. \A i \in at : \E k \in K : from[k] = i
    <2> SUFFICES ASSUME NEW i \in at PROVE from[RankIn(at, i)] = i
      BY <1>5
    <2> DEFINE k == RankIn(at, i)
    <2>0. k \in K
      BY <1>5
    <2>1. k \in K /\ from[k] \in at /\ RankIn(at, from[k]) = k
      BY <1>1, <1>5
    <2>3. i \in Nat /\ from[k] \in Nat /\ k \in Nat
      BY <1>5, <2>1
    <2>2. ~ (i < from[k]) /\ ~ (from[k] < i)
      BY <1>4, <2>0, <2>1, <2>3
    <2> QED
      BY <2>1, <2>2, <2>3
  <1>8. from \in [K -> at]
    BY <1>1 DEF from
  <1> QED
    BY <1>2, <1>6, <1>7, <1>8 DEF K, PickedFrom

\* Picking changes no item, loses none that is wanted, and repeats none.
LEMMA PickedShape ==
    ASSUME NEW N, NEW s \in Seq(N), NEW at \in SUBSET DOMAIN s
    PROVE  /\ Picked(s, at) \in Seq(N)
           /\ \A k \in DOMAIN Picked(s, at) : \E i \in at : Picked(s, at)[k] = s[i]
           /\ \A i \in at : \E k \in DOMAIN Picked(s, at) : Picked(s, at)[k] = s[i]
           /\ (\A i, j \in at : s[i] = s[j] => i = j) => IsInjective(Picked(s, at))
  <1>1. Len(s) \in Nat /\ at \in SUBSET (1 .. Len(s)) /\ \A i \in at : s[i] \in N
    OBVIOUS
  <1> DEFINE K == 1 .. Cardinality(at)
  <1>0. PICK from : PickedFrom(s, at, from)
    BY <1>1, PickedItems
  <1>2. /\ from \in [K -> at]
        /\ Picked(s, at) = [k \in K |-> s[from[k]]]
        /\ \A k, m \in K : k < m => from[k] < from[m]
        /\ \A i \in at : \E k \in K : from[k] = i
    BY <1>0 DEF PickedFrom
  <1>3. Cardinality(at) \in Nat
    BY <1>1, PositionsFinite
  <1>4. DOMAIN Picked(s, at) = K /\ \A k \in K : Picked(s, at)[k] = s[from[k]]
    BY <1>2
  <1>5. Picked(s, at) \in [K -> N]
    BY <1>1, <1>2
  <1>6. Picked(s, at) \in Seq(N)
    BY <1>3, <1>5
  <1>7. ASSUME \A i, j \in at : s[i] = s[j] => i = j PROVE IsInjective(Picked(s, at))
    <2> SUFFICES ASSUME NEW k \in K, NEW m \in K, s[from[k]] = s[from[m]] PROVE k = m
      BY <1>4 DEF IsInjective
    <2>0. from[k] \in at /\ from[m] \in at
      BY <1>2
    <2>1. from[k] = from[m] /\ from[k] \in at /\ from[m] \in at
      BY <1>7, <2>0
    <2>2. from[k] \in Nat /\ k \in Nat /\ m \in Nat
      BY <1>1, <1>3, <2>1
    <2>3. ~ (k < m) /\ ~ (m < k)
      BY <1>2, <2>1, <2>2
    <2> QED
      BY <2>2, <2>3
  <1> HIDE DEF K
  <1>8. \A k \in K : from[k] \in at
    BY <1>2
  <1> QED
    BY <1>2, <1>4, <1>6, <1>7, <1>8

\* The items of s that are in S, and each once if s repeats nothing.
LEMMA AmongShape ==
    ASSUME NEW N, NEW s \in Seq(N), NEW S
    PROVE  /\ Among(s, S) \in Seq(N)
           /\ \A k \in DOMAIN Among(s, S) : Among(s, S)[k] \in S /\ \E i \in DOMAIN s : Among(s, S)[k] = s[i]
           /\ \A i \in DOMAIN s : s[i] \in S => \E k \in DOMAIN Among(s, S) : Among(s, S)[k] = s[i]
           /\ IsInjective(s) => IsInjective(Among(s, S))
  <1> DEFINE at == {i \in DOMAIN s : s[i] \in S}
  <1>1. at \in SUBSET DOMAIN s /\ Among(s, S) = Picked(s, at) /\ \A i \in at : s[i] \in S /\ i \in DOMAIN s
    BY DEF Among
  <1>2. \A i \in DOMAIN s : s[i] \in S => i \in at
    OBVIOUS
  <1> HIDE DEF at
  <1>3. IsInjective(s) => \A i, j \in at : s[i] = s[j] => i = j
    BY <1>1 DEF IsInjective
  <1> QED
    BY <1>1, <1>2, <1>3, PickedShape

\* The items of s that are not in S, the same way.
LEMMA WithoutShape ==
    ASSUME NEW N, NEW s \in Seq(N), NEW S
    PROVE  /\ Without(s, S) \in Seq(N)
           /\ \A k \in DOMAIN Without(s, S) : Without(s, S)[k] \notin S /\ \E i \in DOMAIN s : Without(s, S)[k] = s[i]
           /\ IsInjective(s) => IsInjective(Without(s, S))
  <1> DEFINE at == {i \in DOMAIN s : s[i] \notin S}
  <1>1. at \in SUBSET DOMAIN s /\ Without(s, S) = Picked(s, at) /\ \A i \in at : s[i] \notin S /\ i \in DOMAIN s
    BY DEF Without
  <1> HIDE DEF at
  <1>3. IsInjective(s) => \A i, j \in at : s[i] = s[j] => i = j
    BY <1>1 DEF IsInjective
  <1> QED
    BY <1>1, <1>3, PickedShape

\* FirstAmong repeats nothing, whatever s repeats.
LEMMA FirstAmongShape ==
    ASSUME NEW N, NEW s \in Seq(N), NEW S
    PROVE  /\ FirstAmong(s, S) \in Seq(N)
           /\ \A k \in DOMAIN FirstAmong(s, S) : FirstAmong(s, S)[k] \in S
           /\ IsInjective(FirstAmong(s, S))
  <1> DEFINE at == {i \in DOMAIN s : s[i] \in S /\ \A j \in 1 .. i - 1 : s[j] # s[i]}
  <1>1. /\ at \in SUBSET DOMAIN s /\ FirstAmong(s, S) = Picked(s, at)
        /\ \A i \in at : s[i] \in S /\ i \in DOMAIN s /\ \A j \in 1 .. i - 1 : s[j] # s[i]
    BY DEF FirstAmong
  <1> HIDE DEF at
  <1>2. ASSUME NEW i \in at, NEW j \in at, s[i] = s[j] PROVE i = j
    <2>1. i \in Nat /\ j \in Nat /\ i >= 1 /\ j >= 1
      BY <1>1
    <2>2. ~ (i < j) /\ ~ (j < i)
      BY <1>1, <1>2, <2>1
    <2> QED
      BY <2>1, <2>2
  <1> QED
    BY <1>1, <1>2, PickedShape

\* Lists of different items make one that repeats nothing.
LEMMA ConcatDistinct ==
    ASSUME NEW N, NEW s \in Seq(N), NEW t \in Seq(N), IsInjective(s), IsInjective(t),
           \A i \in DOMAIN s, j \in DOMAIN t : s[i] # t[j]
    PROVE  s \o t \in Seq(N) /\ IsInjective(s \o t)
  <1>1. s \o t \in Seq(N) /\ DOMAIN (s \o t) = 1 .. Len(s) + Len(t) /\ Len(s) \in Nat /\ Len(t) \in Nat
    OBVIOUS
  <1>2. \A i \in 1 .. Len(s) + Len(t) : (s \o t)[i] = IF i <= Len(s) THEN s[i] ELSE t[i - Len(s)]
    OBVIOUS
  <1>3. ASSUME NEW i \in 1 .. Len(s) + Len(t), NEW j \in 1 .. Len(s) + Len(t), (s \o t)[i] = (s \o t)[j]
        PROVE  i = j
    <2>1. CASE i <= Len(s) /\ j <= Len(s)
      BY <1>1, <1>2, <1>3, <2>1 DEF IsInjective
    <2>2. CASE ~ (i <= Len(s)) /\ ~ (j <= Len(s))
      <3>1. i - Len(s) \in DOMAIN t /\ j - Len(s) \in DOMAIN t /\ t[i - Len(s)] = t[j - Len(s)]
        BY <1>1, <1>2, <1>3, <2>2
      <3>2. i - Len(s) = j - Len(s)
        BY <3>1 DEF IsInjective
      <3> QED
        BY <1>1, <3>2
    <2>3. CASE i <= Len(s) /\ ~ (j <= Len(s))
      <3>1. i \in DOMAIN s /\ j - Len(s) \in DOMAIN t /\ s[i] = t[j - Len(s)]
        BY <1>1, <1>2, <1>3, <2>3
      <3> QED
        BY <3>1
    <2>4. CASE ~ (i <= Len(s)) /\ j <= Len(s)
      <3>1. j \in DOMAIN s /\ i - Len(s) \in DOMAIN t /\ s[j] = t[i - Len(s)]
        BY <1>1, <1>2, <1>3, <2>4
      <3> QED
        BY <3>1
    <2> QED
      BY <2>1, <2>2, <2>3, <2>4
  <1> QED
    BY <1>1, <1>3 DEF IsInjective

-----------------------------------------------------------------------------
(* The extraction fallback (ExtractFallback)                                *)

\* The plan names each provider once.
PlanSound ==
    /\ plan.order \in Seq(Extractors) /\ IsInjective(plan.order)
    /\ plan.order # <<>> => plan.chosen = plan.order[1]

LEMMA PlanOfSound ==
    ASSUME NEW site \in Sites
    PROVE  LET p == PlanOf(site) IN
           /\ p.order \in Seq(Extractors) /\ IsInjective(p.order)
           /\ p.order # <<>> => p.chosen = p.order[1]
  <1> DEFINE named     == FirstAmong(site.priority, Range(site.known))
             rest      == Without(site.known, Range(named))
             enabled   == Without(Completed(site.priority, site.known), site.disabled)
             automatic == Among(enabled, site.usable \cap site.automatic)
             fallen    == Among(enabled, site.automatic)
             others    == Without(automatic, {site.asked})
             order     == IF site.asked # AutoChosen THEN <<site.asked>> \o others
                          ELSE IF automatic # <<>> THEN automatic
                          ELSE SubSeq(fallen, 1, IF fallen = <<>> THEN 0 ELSE 1)
  <1>0. /\ NoProvider \notin Extractors /\ site.known \in Seq(Extractors) /\ IsInjective(site.known)
        /\ site.priority \in Seq(Extractors) /\ site.asked \in Extractors \cup {AutoChosen}
    BY ExtractAssumption
  <1>1. named \in Seq(Extractors) /\ IsInjective(named)
    BY <1>0, FirstAmongShape
  <1>2. rest \in Seq(Extractors) /\ IsInjective(rest) /\ \A i \in DOMAIN rest : rest[i] \notin Range(named)
    BY <1>0, WithoutShape
  <1>3. \A i \in DOMAIN named, j \in DOMAIN rest : named[i] # rest[j]
    BY <1>2 DEF Range
  <1>4. Completed(site.priority, site.known) = named \o rest
    BY DEF Completed
  <1>5. named \o rest \in Seq(Extractors) /\ IsInjective(named \o rest)
    BY <1>1, <1>2, <1>3, ConcatDistinct
  <1>6. enabled \in Seq(Extractors) /\ IsInjective(enabled)
    <2> DEFINE c == Completed(site.priority, site.known)
    <2>1. c \in Seq(Extractors) /\ IsInjective(c)
      BY <1>4, <1>5
    <2> HIDE DEF c
    <2>2. Without(c, site.disabled) \in Seq(Extractors) /\ IsInjective(Without(c, site.disabled))
      BY <2>1, WithoutShape
    <2> QED
      BY <2>2 DEF c
  <1>7. /\ automatic \in Seq(Extractors) /\ IsInjective(automatic)
        /\ fallen \in Seq(Extractors) /\ IsInjective(fallen)
    BY <1>6, AmongShape
  <1>8. others \in Seq(Extractors) /\ IsInjective(others) /\ \A i \in DOMAIN others : others[i] # site.asked
    <2> HIDE DEF automatic
    <2>1. \A k \in DOMAIN others : others[k] \notin {site.asked}
      BY <1>7, WithoutShape
    <2>2. others \in Seq(Extractors) /\ IsInjective(others)
      BY <1>7, WithoutShape
    <2> QED
      BY <2>1, <2>2
  <1>9. PlanOf(site) = [chosen |-> IF order = <<>> THEN AutoChosen ELSE order[1],
                        order  |-> IF site.fallback \/ order = <<>> THEN order ELSE <<order[1]>>]
    BY DEF PlanOf
  <1>10. order \in Seq(Extractors) /\ IsInjective(order)
    <2> HIDE DEF automatic, fallen, others
    <2>1. CASE site.asked # AutoChosen
      <3>1. <<site.asked>> \in Seq(Extractors) /\ IsInjective(<<site.asked>>)
        BY <1>0, <2>1 DEF IsInjective
      <3>2. \A i \in DOMAIN <<site.asked>>, j \in DOMAIN others : <<site.asked>>[i] # others[j]
        BY <1>8
      <3>3. <<site.asked>> \o others \in Seq(Extractors) /\ IsInjective(<<site.asked>> \o others)
        BY <1>8, <3>1, <3>2, ConcatDistinct
      <3> QED
        BY <2>1, <3>3
    <2>2. CASE site.asked = AutoChosen /\ automatic # <<>>
      BY <1>7, <2>2
    <2>3. CASE site.asked = AutoChosen /\ automatic = <<>>
      <3> DEFINE n == IF fallen = <<>> THEN 0 ELSE 1
                 head == SubSeq(fallen, 1, n)
      <3>1. n \in {0, 1} /\ n <= Len(fallen)
        BY <1>7
      <3>2. head \in Seq(Extractors) /\ Len(head) = n
        BY <1>7, <3>1
      <3>3. IsInjective(head)
        BY <3>1, <3>2 DEF IsInjective
      <3>4. order = head
        BY <2>3
      <3> QED
        BY <3>2, <3>3, <3>4
    <2> QED
      BY <2>1, <2>2, <2>3
  <1> HIDE DEF order
  <1>11. order # <<>> => order[1] \in Extractors /\ <<order[1]>> \in Seq(Extractors) /\ IsInjective(<<order[1]>>)
    BY <1>10 DEF IsInjective
  <1> QED
    BY <1>9, <1>10, <1>11

-----------------------------------------------------------------------------
(* The inductive invariant                                                 *)

ItemKinds == Kinds \cup {"page", "none", "blank"}
Items     == [kind : ItemKinds, by : Extractors \cup {NoProvider}]
Outcomes  == {"success", "partial", "failed", "cancelled", "skipped"}
Skips == {"none", "policy_excluded", "deadline_exceeded", "auth_blocked", "circuit_open", "budget_blocked"}
AttemptRows == [provider : Extractors, outcome : Outcomes, skip : Skips]

\* Each attempt is of the provider at its position of the plan.
AttemptsFollowPlan ==
    /\ doing \in {"begin", "ask", "merge", "done", "raised"}
    /\ attempts \in Seq(AttemptRows)
    /\ turn = Len(attempts) + 1
    /\ Len(attempts) <= Len(plan.order)
    /\ doing = "ask" => Len(attempts) < Len(plan.order)
    /\ \A i \in DOMAIN attempts : attempts[i].provider = plan.order[i]

PageTypes ==
    /\ pending \subseteq Urls
    /\ succeeded \in [Urls -> Items]
    /\ failed \in [Urls -> Items]
    /\ told \in [Urls -> Seq(Items)]
    /\ serving \in Seq(Extractors)

\* A page is kept as the provider that brought it gave it, and that attempt succeeded.
PagesKept ==
    /\ \A u \in Urls : succeeded[u] # NoItem =>
          /\ succeeded[u].kind = "page" /\ u \notin pending /\ u \notin refused
          /\ succeeded[u].by \in Successful
          /\ serving # <<>>
    /\ \A i \in DOMAIN serving : \E u \in Urls : succeeded[u] = Item("page", serving[i])
    /\ \A u \in Urls : \A k \in DOMAIN told[u] : told[u][k].kind = "page" => succeeded[u] = told[u][k]

\* A page is asked for until it came or is known not to exist; the reason kept for it is the
\* most telling one so far.
ReasonsKept ==
    /\ \A u \in pending : u \notin refused /\ failed[u].kind \notin Final
    /\ \A u \in pending : \A k \in DOMAIN told[u] : told[u][k].kind \notin Final \cup {"page"}
    /\ \A u \in Urls : \A k \in 1 .. Len(told[u]) - 1 : told[u][k].kind \notin Final \cup {"page"}
    /\ \A u \in Urls : \A k \in DOMAIN told[u] :
          told[u][k].kind = "page" \/ Rank(told[u][k].kind) <= Rank(failed[u].kind)
    /\ \A u \in refused \cap Urls : told[u] = <<>>

\* The request has not begun: nothing is known yet.
NothingYet ==
    doing = "begin" => /\ plan = [chosen |-> AutoChosen, order |-> <<>>] /\ attempts = <<>> /\ serving = <<>>
                       /\ pending = {} /\ refused = {}
                       /\ \A u \in Urls : told[u] = <<>> /\ succeeded[u] = NoItem /\ failed[u] = NoItem

ResponseSound == response = IF doing = "done" THEN <<ResponseOf(LastServing)>> ELSE <<>>

FallbackInv ==
    /\ PlanSound /\ AttemptsFollowPlan /\ PageTypes /\ PagesKept /\ ReasonsKept
    /\ NothingYet /\ ResponseSound

-----------------------------------------------------------------------------
LEMMA ItemTypes ==
    /\ NoItem \in Items /\ NoItem.kind = "none" /\ NoItem.kind \notin Kinds
    /\ NoItem.kind # "page" /\ "page" \notin Kinds /\ NoItem.kind \notin Final
    /\ \A kind \in ItemKinds, by \in Extractors \cup {NoProvider} :
          Item(kind, by) \in Items /\ Item(kind, by).kind = kind /\ Item(kind, by).by = by
  BY ExtractAssumption DEF NoItem, Item, Items, ItemKinds, Final

LEMMA RankType ==
    \A kind : /\ Rank(kind) \in 0 .. 6
              /\ Rank(kind) = 6 <=> kind \in Final
  BY DEF Rank, Final

LEMMA FallbackInitOK == ExtractInit => FallbackInv
  <1> SUFFICES ASSUME ExtractInit PROVE FallbackInv
    OBVIOUS
  <1> USE DEF ExtractInit
  <1>1. PlanSound
    BY DEF PlanSound, IsInjective
  <1>2. AttemptsFollowPlan
    BY DEF AttemptsFollowPlan
  <1>3. PageTypes
    BY ItemTypes DEF PageTypes
  <1>4. PagesKept /\ ReasonsKept
    BY ItemTypes DEF PagesKept, ReasonsKept
  <1>5. NothingYet /\ ResponseSound
    BY DEF NothingYet, ResponseSound
  <1> QED
    BY <1>1, <1>2, <1>3, <1>4, <1>5 DEF FallbackInv

\* A receipt is noted for the provider whose turn it is.
LEMMA NotingFollows ==
    ASSUME FallbackInv, doing = "ask", UNCHANGED plan,
           NEW outcome \in Outcomes, NEW skip \in Skips, Noting(outcome, skip)
    PROVE  /\ AttemptsFollowPlan' /\ doing' \in {"ask", "merge"} /\ Provider \in Extractors
           /\ Successful \subseteq Successful'
           /\ outcome \in Good => Provider \in Successful'
           /\ PlanSound' /\ NothingYet'
  <1>0. PlanSound /\ AttemptsFollowPlan
    BY DEF FallbackInv
  <1>1. /\ Len(attempts) \in Nat /\ Len(plan.order) \in Nat /\ turn = Len(attempts) + 1 /\ turn \in DOMAIN plan.order
        /\ plan.order[turn] \in Extractors
    BY <1>0 DEF AttemptsFollowPlan, PlanSound
  <1> DEFINE row == [provider |-> Provider, outcome |-> outcome, skip |-> skip]
  <1>2. row \in AttemptRows /\ row.provider = Provider /\ row.outcome = outcome
    BY <1>1 DEF AttemptRows, Provider
  <1>3. attempts' = Append(attempts, row) /\ turn' = turn + 1
    BY DEF Noting
  <1> HIDE DEF row
  <1>4. /\ attempts' \in Seq(AttemptRows) /\ Len(attempts') = Len(attempts) + 1
        /\ \A i \in DOMAIN attempts : attempts'[i] = attempts[i]
        /\ attempts'[turn] = row /\ DOMAIN attempts' = DOMAIN attempts \cup {turn}
    BY <1>0, <1>1, <1>2, <1>3 DEF AttemptsFollowPlan
  <1>5. doing' = IF turn = Len(plan.order) THEN "merge" ELSE "ask"
    BY DEF Noting
  <1>6. \A i \in DOMAIN attempts' : attempts'[i].provider = plan.order[i]
    BY <1>0, <1>2, <1>4 DEF AttemptsFollowPlan, Provider
  <1>7. AttemptsFollowPlan'
    BY <1>1, <1>3, <1>4, <1>5, <1>6 DEF AttemptsFollowPlan
  <1>8. Successful \subseteq Successful'
    BY <1>4 DEF Successful
  <1>9. outcome \in Good => Provider \in Successful'
    BY <1>2, <1>4 DEF Successful
  <1> QED
    BY <1>0, <1>1, <1>5, <1>7, <1>8, <1>9 DEF PlanSound, NothingYet, Provider

\* The better of two reasons says no less than either.
LEMMA BetterKeeps ==
    ASSUME NEW known \in Items, NEW item \in Items
    PROVE  LET b == Better(known, item) IN
           /\ b \in Items
           /\ Rank(b.kind) >= Rank(known.kind) /\ Rank(b.kind) >= Rank(item.kind)
           /\ b.kind \in {known.kind, item.kind}
  <1>1. Rank(NoItem.kind) = 0
    BY DEF Rank, NoItem, Item
  <1>2. Rank(known.kind) \in 0 .. 6 /\ Rank(item.kind) \in 0 .. 6
    BY RankType
  <1>3. CASE item = NoItem
    BY <1>1, <1>2, <1>3 DEF Better
  <1>4. CASE item # NoItem /\ known = NoItem
    BY <1>1, <1>2, <1>4 DEF Better
  <1>5. CASE item # NoItem /\ known # NoItem
    BY <1>2, <1>5 DEF Better
  <1> QED
    BY <1>3, <1>4, <1>5

\* What a provider said is added to what was told of the pages it was asked for.
LEMMA TellAdds ==
    ASSUME told \in [Urls -> Seq(Items)], pending \subseteq Urls, NEW items \in [pending -> Items], Tell(items)
    PROVE  /\ told' \in [Urls -> Seq(Items)]
           /\ \A u \in Urls : \A k \in DOMAIN told'[u] :
                 \/ k \in DOMAIN told[u] /\ told'[u][k] = told[u][k]
                 \/ u \in pending /\ k = Len(told'[u]) /\ items[u] # NoItem /\ told'[u][k] = items[u]
           /\ \A u \in Urls : \A k \in 1 .. Len(told'[u]) - 1 :
                 \/ k \in 1 .. Len(told[u]) - 1 /\ told'[u][k] = told[u][k]
                 \/ u \in pending /\ k \in DOMAIN told[u] /\ told'[u][k] = told[u][k]
           /\ \A u \in Urls \ pending : told'[u] = told[u]
           /\ \A u \in pending : items[u] # NoItem =>
                 /\ Len(told'[u]) \in DOMAIN told'[u] /\ told'[u][Len(told'[u])] = items[u]
  <1> DEFINE new(u) == IF u \in pending /\ items[u] # NoItem THEN Append(told[u], items[u]) ELSE told[u]
  <1>1. told' = [u \in Urls |-> new(u)]
    BY DEF Tell
  <1>2. ASSUME NEW u \in Urls, u \in pending, items[u] # NoItem
        PROVE  /\ new(u) \in Seq(Items) /\ Len(new(u)) = Len(told[u]) + 1 /\ Len(told[u]) \in Nat
               /\ DOMAIN new(u) = 1 .. Len(told[u]) + 1 /\ DOMAIN told[u] = 1 .. Len(told[u])
               /\ new(u)[Len(told[u]) + 1] = items[u]
               /\ \A k \in DOMAIN told[u] : new(u)[k] = told[u][k]
    <2>1. told[u] \in Seq(Items) /\ items[u] \in Items
      BY <1>2
    <2>2. new(u) = Append(told[u], items[u])
      BY <1>2
    <2> QED
      BY <2>1, <2>2
  <1>3. ASSUME NEW u \in Urls, ~ (u \in pending /\ items[u] # NoItem)
        PROVE  new(u) = told[u] /\ new(u) \in Seq(Items)
    BY <1>3
  <1> HIDE DEF new
  <1>4. told' \in [Urls -> Seq(Items)] /\ \A u \in Urls : told'[u] = new(u)
    BY <1>1, <1>2, <1>3
  <1>5. ASSUME NEW u \in Urls
        PROVE  /\ \A k \in DOMAIN told'[u] :
                     \/ k \in DOMAIN told[u] /\ told'[u][k] = told[u][k]
                     \/ u \in pending /\ k = Len(told'[u]) /\ items[u] # NoItem /\ told'[u][k] = items[u]
               /\ \A k \in 1 .. Len(told'[u]) - 1 :
                     \/ k \in 1 .. Len(told[u]) - 1 /\ told'[u][k] = told[u][k]
                     \/ u \in pending /\ k \in DOMAIN told[u] /\ told'[u][k] = told[u][k]
    <2>0. told'[u] = new(u) /\ told[u] \in Seq(Items)
      BY <1>4
    <2>1. CASE u \in pending /\ items[u] # NoItem
      BY <1>2, <2>0, <2>1
    <2>2. CASE ~ (u \in pending /\ items[u] # NoItem)
      <3>1. new(u) = told[u]
        BY <1>3, <2>2
      <3> QED
        BY <2>0, <3>1
    <2> QED
      BY <2>1, <2>2
  <1>6. \A u \in Urls \ pending : told'[u] = told[u]
    BY <1>3, <1>4
  <1>7. ASSUME NEW u \in pending, items[u] # NoItem
        PROVE  Len(told'[u]) \in DOMAIN told'[u] /\ told'[u][Len(told'[u])] = items[u]
    <2>1. u \in Urls
      OBVIOUS
    <2> QED
      BY <1>2, <1>4, <1>7, <2>1
  <1> QED
    BY <1>4, <1>5, <1>6, <1>7

\* Noting what was said of the pages that did not come keeps the reasons.
LEMMA ReasonsFollow ==
    ASSUME FallbackInv, NEW items \in [pending -> Items], Tell(items),
           NEW pages \in SUBSET pending, \A u \in pending : items[u].kind = "page" => u \in pages,
           \A u \in Urls : Rank(failed'[u].kind) >= Rank(failed[u].kind),
           \A u \in pending \ pages : Rank(failed'[u].kind) >= Rank(items[u].kind),
           \A u \in pages : items[u].kind = "page",
           pending' = StillOpen(failed') \ pages, refused' = refused
    PROVE  ReasonsKept'
  <1>0. PageTypes /\ ReasonsKept
    BY DEF FallbackInv
  <1>1. pending \subseteq Urls /\ told \in [Urls -> Seq(Items)]
    BY <1>0 DEF PageTypes
  <1>2. pending' \subseteq pending /\ \A u \in pending' : u \notin pages /\ failed'[u].kind \notin Final
    BY DEF StillOpen
  <1>3. \A u \in pending : items[u] \in Items
    OBVIOUS
  <1>4. /\ \A u \in Urls : \A k \in DOMAIN told'[u] :
              \/ k \in DOMAIN told[u] /\ told'[u][k] = told[u][k]
              \/ u \in pending /\ k = Len(told'[u]) /\ items[u] # NoItem /\ told'[u][k] = items[u]
        /\ \A u \in Urls : \A k \in 1 .. Len(told'[u]) - 1 :
              \/ k \in 1 .. Len(told[u]) - 1 /\ told'[u][k] = told[u][k]
              \/ u \in pending /\ k \in DOMAIN told[u] /\ told'[u][k] = told[u][k]
        /\ \A u \in Urls \ pending : told'[u] = told[u]
    BY <1>1, TellAdds
  <1>5. ASSUME NEW u \in pending \ pages, failed'[u].kind \notin Final PROVE items[u].kind \notin Final \cup {"page"}
    <2>1. Rank(failed'[u].kind) \in 0 .. 6 /\ Rank(failed'[u].kind) # 6 /\ Rank(items[u].kind) \in 0 .. 6
      BY <1>5, RankType
    <2>2. Rank(items[u].kind) # 6
      BY <2>1
    <2> QED
      BY <2>2, RankType
  <1>6. \A u \in pending' : u \notin refused' /\ failed'[u].kind \notin Final
    BY <1>0, <1>2 DEF ReasonsKept
  <1>7. ASSUME NEW u \in pending', NEW k \in DOMAIN told'[u] PROVE told'[u][k].kind \notin Final \cup {"page"}
    <2>1. u \in pending /\ u \in Urls /\ u \notin pages /\ failed'[u].kind \notin Final
      BY <1>1, <1>2
    <2>2. CASE k \in DOMAIN told[u] /\ told'[u][k] = told[u][k]
      BY <1>0, <2>1, <2>2 DEF ReasonsKept
    <2>3. CASE told'[u][k] = items[u]
      BY <1>5, <2>1, <2>3
    <2> QED
      BY <1>4, <2>1, <2>2, <2>3
  <1>8. ASSUME NEW u \in Urls, NEW k \in 1 .. Len(told'[u]) - 1 PROVE told'[u][k].kind \notin Final \cup {"page"}
    <2>1. CASE k \in 1 .. Len(told[u]) - 1 /\ told'[u][k] = told[u][k]
      BY <1>0, <2>1 DEF ReasonsKept
    <2>2. CASE u \in pending /\ k \in DOMAIN told[u] /\ told'[u][k] = told[u][k]
      BY <1>0, <2>2 DEF ReasonsKept
    <2> QED
      BY <1>4, <2>1, <2>2
  <1>9. ASSUME NEW u \in Urls, NEW k \in DOMAIN told'[u]
        PROVE  told'[u][k].kind = "page" \/ Rank(told'[u][k].kind) <= Rank(failed'[u].kind)
    <2>0. Rank(failed'[u].kind) \in 0 .. 6 /\ Rank(failed[u].kind) \in 0 .. 6 /\ Rank(told'[u][k].kind) \in 0 .. 6
      BY RankType
    <2>1. CASE k \in DOMAIN told[u] /\ told'[u][k] = told[u][k]
      <3>1. told[u][k].kind = "page" \/ Rank(told[u][k].kind) <= Rank(failed[u].kind)
        BY <1>0, <2>1 DEF ReasonsKept
      <3>2. Rank(failed'[u].kind) >= Rank(failed[u].kind)
        OBVIOUS
      <3> QED
        BY <2>0, <2>1, <3>1, <3>2
    <2>2. CASE u \in pending /\ told'[u][k] = items[u]
      <3>1. CASE u \in pages
        BY <2>2, <3>1
      <3>2. CASE u \notin pages
        BY <2>0, <2>2, <3>2
      <3> QED
        BY <3>1, <3>2
    <2> QED
      BY <1>4, <2>1, <2>2
  <1>10. \A u \in refused' \cap Urls : told'[u] = <<>>
    BY <1>0, <1>4 DEF ReasonsKept
  <1> QED
    BY <1>6, <1>7, <1>8, <1>9, <1>10 DEF ReasonsKept

\* A response is made of what is known at the merge; nothing it is made of changes after it.
LEMMA NoResponseYet ==
    ASSUME FallbackInv, doing # "done", doing' # "done", response' = response
    PROVE  ResponseSound'
  <1>1. response = <<>>
    BY DEF FallbackInv, ResponseSound
  <1>2. response' = <<>>
    BY <1>1
  <1> QED
    BY <1>2 DEF ResponseSound

LEMMA PlanKeeps == FallbackInv /\ Plan => FallbackInv'
  <1> SUFFICES ASSUME FallbackInv, Plan PROVE FallbackInv'
    OBVIOUS
  <1>0. /\ doing = "begin" /\ PlanSound /\ AttemptsFollowPlan /\ PageTypes /\ PagesKept
        /\ UNCHANGED <<turn, succeeded, failed, attempts, serving, late, told, response>>
    BY DEF Plan, FallbackInv
  <1>1. /\ attempts = <<>> /\ serving = <<>> /\ turn = Len(attempts) + 1
        /\ \A u \in Urls : told[u] = <<>> /\ succeeded[u] = NoItem /\ failed[u] = NoItem
    BY <1>0 DEF FallbackInv, NothingYet, AttemptsFollowPlan
  <1>2. PICK site \in Sites, none \in Refused :
            /\ plan' = PlanOf(site) /\ refused' = none /\ pending' = Urls \ none
            /\ PlanOf(site).order # <<>> /\ doing' = IF pending' = {} THEN "merge" ELSE "ask"
    BY DEF Plan
  <1>3. PlanSound'
    BY <1>2, PlanOfSound DEF PlanSound
  <1>4. AttemptsFollowPlan'
    <2>1. plan'.order \in Seq(Extractors) /\ (plan'.order # <<>> => Len(plan'.order) > 0) /\ Len(plan'.order) >= 0
      BY <1>3 DEF PlanSound
    <2>2. attempts' = <<>> /\ turn' = 1 /\ Len(attempts') = 0
      BY <1>0, <1>1
    <2>3. doing' \in {"ask", "merge"} /\ (doing' = "ask" => plan'.order # <<>>)
      BY <1>2
    <2> QED
      BY <2>1, <2>2, <2>3 DEF AttemptsFollowPlan
  <1>5. PageTypes'
    BY <1>0, <1>2 DEF PageTypes
  <1>6. PagesKept'
    BY <1>0, <1>1 DEF PagesKept
  <1>7. ReasonsKept'
    BY <1>0, <1>1, <1>2, ItemTypes DEF ReasonsKept
  <1>8. NothingYet' /\ ResponseSound'
    <2>1. doing' \in {"ask", "merge"}
      BY <1>2
    <2> QED
      BY <1>0, <2>1, NoResponseYet DEF NothingYet
  <1> QED
    BY <1>3, <1>4, <1>5, <1>6, <1>7, <1>8 DEF FallbackInv

\* A plan that is refused leaves everything as it was.
LEMMA NoPlanKeeps == FallbackInv /\ NoPlan => FallbackInv'
  <1> SUFFICES ASSUME FallbackInv, NoPlan PROVE FallbackInv'
    OBVIOUS
  <1>1. /\ doing = "begin" /\ doing' = "raised"
        /\ UNCHANGED <<plan, refused, turn, pending, succeeded, failed, attempts, serving, late, told, response>>
    BY DEF NoPlan
  <1>2. PlanSound' /\ AttemptsFollowPlan' /\ PageTypes' /\ NothingYet'
    BY <1>1 DEF FallbackInv, PlanSound, AttemptsFollowPlan, PageTypes, NothingYet
  <1>3. PagesKept' /\ ReasonsKept'
    BY <1>1 DEF FallbackInv, PagesKept, ReasonsKept, Successful
  <1>4. ResponseSound'
    BY <1>1, NoResponseYet
  <1> QED
    BY <1>2, <1>3, <1>4 DEF FallbackInv

\* A provider that brought nothing changes nothing but its receipt.
LEMMA ReceiptOnlyKeeps ==
    ASSUME FallbackInv, Asking, NEW outcome \in Outcomes, NEW skip \in Skips, Noting(outcome, skip),
           UNCHANGED <<plan, refused, pending, succeeded, failed, serving, late, told, response>>
    PROVE  FallbackInv'
  <1>0. doing = "ask" /\ PageTypes /\ PagesKept /\ ReasonsKept
    BY DEF FallbackInv, Asking
  <1>1. /\ AttemptsFollowPlan' /\ doing' \in {"ask", "merge"} /\ Successful \subseteq Successful'
        /\ PlanSound' /\ NothingYet'
    BY <1>0, NotingFollows
  <1>2. PageTypes' /\ ReasonsKept'
    BY <1>0 DEF PageTypes, ReasonsKept
  <1>3. PagesKept'
    BY <1>0, <1>1 DEF PagesKept
  <1>4. ResponseSound'
    BY <1>0, <1>1, NoResponseYet
  <1> QED
    BY <1>1, <1>2, <1>3, <1>4 DEF FallbackInv

LEMMA PassOverKeeps == FallbackInv /\ PassOver => FallbackInv'
  <1> SUFFICES ASSUME FallbackInv, PassOver PROVE FallbackInv'
    OBVIOUS
  <1>1. Asking /\ UNCHANGED <<plan, refused, pending, succeeded, failed, serving, late, told, response>>
    BY DEF PassOver
  <1>2. Noting("skipped", "policy_excluded") \/ Noting("skipped", "deadline_exceeded")
    BY DEF PassOver
  <1>3. "skipped" \in Outcomes /\ "policy_excluded" \in Skips /\ "deadline_exceeded" \in Skips
    BY DEF Outcomes, Skips
  <1> QED
    BY <1>1, <1>2, <1>3, ReceiptOnlyKeeps

LEMMA UnansweredKeeps == FallbackInv /\ Unanswered => FallbackInv'
  <1> SUFFICES ASSUME FallbackInv, Unanswered PROVE FallbackInv'
    OBVIOUS
  <1>1. Asking /\ UNCHANGED <<plan, refused, pending, succeeded, failed, serving, late, told, response>>
    BY DEF Unanswered
  <1>2. \E outcome \in {"failed", "cancelled", "skipped"}, skip \in Skips : Noting(outcome, skip)
    BY DEF Unanswered, Skips
  <1>3. PICK outcome \in {"failed", "cancelled", "skipped"}, skip \in Skips : Noting(outcome, skip)
    BY <1>2
  <1>4. outcome \in Outcomes
    BY DEF Outcomes
  <1> QED
    BY <1>1, <1>3, <1>4, ReceiptOnlyKeeps

LEMMA UnheardKeeps == FallbackInv /\ Unheard => FallbackInv'
  <1> SUFFICES ASSUME FallbackInv, Unheard PROVE FallbackInv'
    OBVIOUS
  <1>1. /\ Asking /\ UNCHANGED <<plan, refused, pending, succeeded, failed, serving, late, told, response>>
        /\ Noting("failed", "none")
    BY DEF Unheard
  <1>2. "failed" \in Outcomes /\ "none" \in Skips
    BY DEF Outcomes, Skips
  <1> QED
    BY <1>1, <1>2, ReceiptOnlyKeeps

\* A page item names the provider it came from; no other item says "page".
LEMMA SaidTypes ==
    ASSUME NEW by \in Extractors
    PROVE  /\ Said(by) \subseteq Items /\ Item("page", by) \in Items
           /\ \A item \in Said(by) : item.kind # "page"
           /\ \A item \in Said(by) \cup {Item("page", by)} : item.kind = "page" => item = Item("page", by)
  BY ItemTypes DEF Said, ItemKinds

LEMMA AllFailedKeeps == FallbackInv /\ AllFailed => FallbackInv'
  <1> SUFFICES ASSUME FallbackInv, AllFailed PROVE FallbackInv'
    OBVIOUS
  <1>0. /\ doing = "ask" /\ PageTypes /\ PagesKept /\ ReasonsKept
        /\ UNCHANGED <<plan, refused, succeeded, serving, late, response>>
    BY DEF FallbackInv, AllFailed, Asking
  <1>1. PICK items \in [pending -> Said(Provider)] :
            /\ failed' = [u \in Urls |-> IF u \in pending THEN Better(failed[u], items[u]) ELSE failed[u]]
            /\ pending' = StillOpen(failed')
            /\ Tell(items) /\ Noting("failed", "none")
    BY DEF AllFailed
  <1>2. "failed" \in Outcomes /\ "none" \in Skips
    BY DEF Outcomes, Skips
  <1>3. /\ AttemptsFollowPlan' /\ doing' \in {"ask", "merge"} /\ Successful \subseteq Successful'
        /\ PlanSound' /\ NothingYet' /\ Provider \in Extractors
    BY <1>0, <1>1, <1>2, NotingFollows
  <1>4. items \in [pending -> Items] /\ \A u \in pending : items[u] \in Items /\ items[u].kind # "page"
    BY <1>1, <1>3, SaidTypes
  <1>5. /\ pending \subseteq Urls /\ succeeded \in [Urls -> Items] /\ failed \in [Urls -> Items]
        /\ told \in [Urls -> Seq(Items)] /\ serving \in Seq(Extractors)
    BY <1>0 DEF PageTypes
  <1>6. ASSUME NEW u \in Urls
        PROVE  /\ failed'[u] \in Items /\ Rank(failed'[u].kind) >= Rank(failed[u].kind)
               /\ u \in pending => Rank(failed'[u].kind) >= Rank(items[u].kind)
    <2>0. failed[u] \in Items
      BY <1>5
    <2>1. CASE u \in pending
      <3>1. failed'[u] = Better(failed[u], items[u])
        BY <1>1, <2>1
      <3>2. items[u] \in Items
        BY <1>4, <2>1
      <3> QED
        BY <2>0, <3>1, <3>2, BetterKeeps
    <2>2. CASE u \notin pending
      <3>1. failed'[u] = failed[u]
        BY <1>1, <2>2
      <3>2. Rank(failed[u].kind) \in 0 .. 6
        BY RankType
      <3> QED
        BY <2>0, <2>2, <3>1, <3>2
    <2> QED
      BY <2>1, <2>2
  <1>7. pending' \subseteq pending
    BY <1>1 DEF StillOpen
  <1>8. told' \in [Urls -> Seq(Items)]
    BY <1>1, <1>4, <1>5, TellAdds
  <1>9. PageTypes'
    <2>1. failed' \in [Urls -> Items]
      BY <1>1, <1>6
    <2> QED
      BY <1>0, <1>5, <1>7, <1>8, <2>1 DEF PageTypes
  <1>10. ReasonsKept'
    <2> DEFINE pages == {}
    <2>1. pages \in SUBSET pending /\ (\A u \in pages : items[u].kind = "page")
      OBVIOUS
    <2>2. \A u \in pending : items[u].kind = "page" => u \in pages
      BY <1>4
    <2>3. pending' = StillOpen(failed') \ pages
      BY <1>1
    <2>4. \A u \in pending \ pages : Rank(failed'[u].kind) >= Rank(items[u].kind)
      BY <1>5, <1>6
    <2>5. \A u \in Urls : Rank(failed'[u].kind) >= Rank(failed[u].kind)
      BY <1>6
    <2>6. refused' = refused /\ Tell(items)
      BY <1>0, <1>1
    <2> HIDE DEF pages
    <2> QED
      BY <1>4, <2>1, <2>2, <2>3, <2>4, <2>5, <2>6, ReasonsFollow
  <1>11. PagesKept'
    <2>1. \A u \in Urls : succeeded'[u] # NoItem =>
             /\ succeeded'[u].kind = "page" /\ u \notin pending' /\ u \notin refused'
             /\ succeeded'[u].by \in Successful' /\ serving' # <<>>
      BY <1>0, <1>3, <1>7 DEF PagesKept
    <2>2. \A i \in DOMAIN serving' : \E u \in Urls : succeeded'[u] = Item("page", serving'[i])
      BY <1>0 DEF PagesKept
    <2>3. ASSUME NEW u \in Urls, NEW k \in DOMAIN told'[u], told'[u][k].kind = "page"
          PROVE  succeeded'[u] = told'[u][k]
      <3>1. \/ k \in DOMAIN told[u] /\ told'[u][k] = told[u][k]
            \/ u \in pending /\ told'[u][k] = items[u]
        BY <1>1, <1>4, <1>5, TellAdds
      <3>2. k \in DOMAIN told[u] /\ told'[u][k] = told[u][k]
        BY <1>4, <2>3, <3>1
      <3> QED
        BY <1>0, <2>3, <3>2 DEF PagesKept
    <2> QED
      BY <2>1, <2>2, <2>3 DEF PagesKept
  <1>12. ResponseSound'
    BY <1>0, <1>3, NoResponseYet
  <1> QED
    BY <1>3, <1>9, <1>10, <1>11, <1>12 DEF FallbackInv

\* The pages that came are kept as their provider gave them.
LEMMA AnswerKeeps == FallbackInv /\ Answer => FallbackInv'
  <1> SUFFICES ASSUME FallbackInv, Answer PROVE FallbackInv'
    OBVIOUS
  <1>0. /\ doing = "ask" /\ PageTypes /\ PagesKept /\ ReasonsKept
        /\ UNCHANGED <<plan, refused, late, response>>
    BY DEF FallbackInv, Answer, Asking
  <1> DEFINE got(items) == {u \in pending : items[u].kind = "page"}
             why(items, u) == IF items[u] = NoItem THEN Item("blank", NoProvider) ELSE items[u]
  <1>1. PICK items \in [pending -> Said(Provider) \cup {Item("page", Provider)}], outcome \in Good :
            /\ got(items) # {}
            /\ succeeded' = [u \in Urls |-> IF u \in got(items) THEN items[u] ELSE succeeded[u]]
            /\ failed' = [u \in Urls |-> IF u \in pending \ got(items)
                                          THEN Better(failed[u], why(items, u)) ELSE failed[u]]
            /\ pending' = StillOpen(failed') \ got(items)
            /\ serving' = Append(serving, Provider)
            /\ Tell(items) /\ Noting(outcome, "none")
    BY DEF Answer
  <1> DEFINE pages == got(items)
  <1>2. outcome \in Outcomes /\ "none" \in Skips
    BY DEF Outcomes, Skips, Good
  <1>3. /\ AttemptsFollowPlan' /\ doing' \in {"ask", "merge"} /\ Successful \subseteq Successful'
        /\ PlanSound' /\ NothingYet' /\ Provider \in Extractors /\ Provider \in Successful'
    BY <1>0, <1>1, <1>2, NotingFollows
  <1>4. /\ items \in [pending -> Items]
        /\ \A u \in pending : items[u] \in Items /\ (items[u].kind = "page" => items[u] = Item("page", Provider))
    BY <1>1, <1>3, SaidTypes
  <1>5. /\ pending \subseteq Urls /\ succeeded \in [Urls -> Items] /\ failed \in [Urls -> Items]
        /\ told \in [Urls -> Seq(Items)] /\ serving \in Seq(Extractors)
    BY <1>0 DEF PageTypes
  <1>6. /\ pages \in SUBSET pending /\ pages # {}
        /\ \A u \in pending : u \in pages <=> items[u].kind = "page"
    BY <1>1
  <1>7. /\ succeeded' = [u \in Urls |-> IF u \in pages THEN items[u] ELSE succeeded[u]]
        /\ failed' = [u \in Urls |-> IF u \in pending \ pages THEN Better(failed[u], why(items, u)) ELSE failed[u]]
        /\ pending' = StillOpen(failed') \ pages
        /\ serving' = Append(serving, Provider) /\ Tell(items)
    BY <1>1
  <1> HIDE DEF got
  <1>8. ASSUME NEW u \in pending
        PROVE  why(items, u) \in Items /\ Rank(why(items, u).kind) >= Rank(items[u].kind)
    <2>0. Rank(why(items, u).kind) \in 0 .. 6 /\ Rank(items[u].kind) \in 0 .. 6
      BY RankType
    <2>1. CASE items[u] = NoItem
      <3>1. Rank(items[u].kind) = 0
        BY <2>1 DEF Rank, NoItem, Item
      <3>2. why(items, u) \in Items
        BY <2>1 DEF Items, ItemKinds, Item
      <3> QED
        BY <2>0, <3>1, <3>2
    <2>2. CASE items[u] # NoItem
      BY <1>4, <2>0, <2>2
    <2> QED
      BY <2>1, <2>2
  <1> HIDE DEF why, pages
  <1>9. ASSUME NEW u \in Urls
        PROVE  /\ failed'[u] \in Items /\ Rank(failed'[u].kind) >= Rank(failed[u].kind)
               /\ u \in pending \ pages => Rank(failed'[u].kind) >= Rank(items[u].kind)
    <2>0. failed[u] \in Items
      BY <1>5
    <2>1. CASE u \in pending \ pages
      <3>1. failed'[u] = Better(failed[u], why(items, u))
        BY <1>7, <2>1
      <3>2. why(items, u) \in Items /\ Rank(why(items, u).kind) >= Rank(items[u].kind)
        BY <1>8, <2>1
      <3>3. /\ failed'[u] \in Items /\ Rank(failed'[u].kind) >= Rank(failed[u].kind)
            /\ Rank(failed'[u].kind) >= Rank(why(items, u).kind)
        BY <2>0, <3>1, <3>2, BetterKeeps
      <3>4. /\ Rank(failed'[u].kind) \in 0 .. 6 /\ Rank(why(items, u).kind) \in 0 .. 6
            /\ Rank(items[u].kind) \in 0 .. 6
        BY RankType
      <3> QED
        BY <3>2, <3>3, <3>4
    <2>2. CASE u \notin pending \ pages
      <3>1. failed'[u] = failed[u]
        BY <1>7, <2>2
      <3>2. Rank(failed[u].kind) \in 0 .. 6
        BY RankType
      <3> QED
        BY <2>0, <2>2, <3>1, <3>2
    <2> QED
      BY <2>1, <2>2
  <1>10. pending' \subseteq pending /\ pending' \cap pages = {}
    BY <1>7 DEF StillOpen
  <1>11. \A u \in Urls : succeeded'[u] = IF u \in pages THEN Item("page", Provider) ELSE succeeded[u]
    BY <1>4, <1>6, <1>7
  <1>12. Item("page", Provider) \in Items /\ Item("page", Provider) # NoItem
         /\ Item("page", Provider).kind = "page" /\ Item("page", Provider).by = Provider
    BY <1>3, ItemTypes, SaidTypes DEF ItemKinds
  <1>13. /\ serving' \in Seq(Extractors) /\ serving' # <<>>
         /\ \A i \in DOMAIN serving' : (i \in DOMAIN serving /\ serving'[i] = serving[i]) \/ serving'[i] = Provider
    BY <1>3, <1>5, <1>7
  <1>14. PageTypes'
    <2>1. told' \in [Urls -> Seq(Items)]
      BY <1>4, <1>5, <1>7, TellAdds
    <2>2. failed' \in [Urls -> Items]
      BY <1>7, <1>9
    <2>3. succeeded' \in [Urls -> Items]
      <3>1. ASSUME NEW u \in Urls PROVE succeeded'[u] \in Items
        BY <1>5, <1>11, <1>12
      <3> QED
        BY <1>7, <3>1
    <2>4. pending' \subseteq Urls
      BY <1>5, <1>10
    <2> QED
      BY <1>13, <2>1, <2>2, <2>3, <2>4 DEF PageTypes
  <1>15. ReasonsKept'
    <2>1. refused' = refused /\ Tell(items) /\ pending' = StillOpen(failed') \ pages
      BY <1>0, <1>7
    <2>2. \A u \in Urls : Rank(failed'[u].kind) >= Rank(failed[u].kind)
      BY <1>9
    <2>3. \A u \in pending \ pages : Rank(failed'[u].kind) >= Rank(items[u].kind)
      BY <1>5, <1>9
    <2> QED
      BY <1>4, <1>6, <2>1, <2>2, <2>3, ReasonsFollow
  <1>16. PagesKept'
    <2>1. ASSUME NEW u \in Urls, succeeded'[u] # NoItem
          PROVE  /\ succeeded'[u].kind = "page" /\ u \notin pending' /\ u \notin refused'
                 /\ succeeded'[u].by \in Successful' /\ serving' # <<>>
      <3>1. CASE u \in pages
        <4>1. u \in pending /\ u \notin refused /\ u \notin pending'
          BY <1>0, <1>6, <1>10, <3>1 DEF ReasonsKept
        <4> QED
          BY <1>0, <1>3, <1>11, <1>12, <1>13, <3>1, <4>1
      <3>2. CASE u \notin pages
        <4>1. succeeded'[u] = succeeded[u]
          BY <1>11, <3>2
        <4>2. succeeded[u].kind = "page" /\ u \notin pending /\ u \notin refused /\ succeeded[u].by \in Successful
          BY <1>0, <2>1, <4>1 DEF PagesKept
        <4> QED
          BY <1>0, <1>3, <1>10, <1>13, <4>1, <4>2
      <3> QED
        BY <3>1, <3>2
    <2>2. ASSUME NEW i \in DOMAIN serving' PROVE \E u \in Urls : succeeded'[u] = Item("page", serving'[i])
      <3>1. CASE i \in DOMAIN serving /\ serving'[i] = serving[i]
        <4>1. PICK u \in Urls : succeeded[u] = Item("page", serving[i])
          BY <1>0, <3>1 DEF PagesKept
        <4>2. serving[i] \in Extractors
          BY <1>5, <3>1
        <4>3. succeeded[u] # NoItem
          BY <4>1, <4>2, ItemTypes, SaidTypes DEF ItemKinds
        <4>4. u \notin pages
          BY <1>0, <1>6, <4>3 DEF PagesKept
        <4> QED
          BY <1>11, <3>1, <4>1, <4>4
      <3>2. CASE serving'[i] = Provider
        <4>1. PICK u \in pages : TRUE
          BY <1>6
        <4>2. u \in Urls
          BY <1>5, <1>6
        <4> QED
          BY <1>11, <3>2, <4>1, <4>2
      <3> QED
        BY <1>13, <3>1, <3>2
    <2>3. ASSUME NEW u \in Urls, NEW k \in DOMAIN told'[u], told'[u][k].kind = "page"
          PROVE  succeeded'[u] = told'[u][k]
      <3>1. \/ k \in DOMAIN told[u] /\ told'[u][k] = told[u][k]
            \/ u \in pending /\ told'[u][k] = items[u]
        BY <1>4, <1>5, <1>7, TellAdds
      <3>2. CASE k \in DOMAIN told[u] /\ told'[u][k] = told[u][k]
        <4>1. succeeded[u] = told[u][k]
          BY <1>0, <2>3, <3>2 DEF PagesKept
        <4>2. u \notin pending
          BY <1>0, <2>3, <3>2 DEF ReasonsKept
        <4> QED
          BY <1>6, <1>11, <3>2, <4>1, <4>2
      <3>3. CASE u \in pending /\ told'[u][k] = items[u]
        <4>1. items[u] = Item("page", Provider) /\ u \in pages
          BY <1>4, <1>6, <2>3, <3>3
        <4> QED
          BY <1>11, <3>3, <4>1
      <3> QED
        BY <3>1, <3>2, <3>3
    <2> QED
      BY <2>1, <2>2, <2>3 DEF PagesKept
  <1>17. ResponseSound'
    BY <1>0, <1>3, NoResponseYet
  <1> QED
    BY <1>3, <1>14, <1>15, <1>16, <1>17 DEF FallbackInv

LEMMA FallbackNextOK == FallbackInv /\ [ExtractNext]_evars => FallbackInv'
  <1> SUFFICES ASSUME FallbackInv, [ExtractNext]_evars PROVE FallbackInv'
    OBVIOUS
  <1>1. CASE Plan
    BY <1>1, PlanKeeps
  <1>2. CASE PassOver
    BY <1>2, PassOverKeeps
  <1>3. CASE Unanswered
    BY <1>3, UnansweredKeeps
  <1>4. CASE Answer
    BY <1>4, AnswerKeeps
  <1>5. CASE AllFailed
    BY <1>5, AllFailedKeeps
  <1>6. CASE RunOut
    <2>1. UNCHANGED <<doing, plan, refused, turn, pending, succeeded, failed, attempts, serving, told, response>>
          /\ doing = "ask"
      BY <1>6 DEF RunOut
    <2>2. PlanSound' /\ AttemptsFollowPlan' /\ PageTypes' /\ NothingYet'
      BY <2>1 DEF FallbackInv, PlanSound, AttemptsFollowPlan, PageTypes, NothingYet
    <2>3. PagesKept' /\ ReasonsKept'
      BY <2>1 DEF FallbackInv, PagesKept, ReasonsKept, Successful
    <2>4. ResponseSound'
      BY <2>1, NoResponseYet
    <2> QED
      BY <2>2, <2>3, <2>4 DEF FallbackInv
  <1>7. CASE Merge
    <2>1. /\ doing' = "done" /\ response' = <<ResponseOf(LastServing)>> /\ doing = "merge"
          /\ UNCHANGED <<plan, refused, turn, pending, succeeded, failed, attempts, serving, late, told>>
      BY <1>7 DEF Merge
    <2>2. PlanSound' /\ PageTypes' /\ NothingYet'
      BY <2>1 DEF FallbackInv, PlanSound, PageTypes, NothingYet
    <2>3. AttemptsFollowPlan'
      BY <2>1 DEF FallbackInv, AttemptsFollowPlan
    <2>4. PagesKept' /\ ReasonsKept'
      BY <2>1 DEF FallbackInv, PagesKept, ReasonsKept, Successful
    <2>5. ResponseOf(LastServing)' = ResponseOf(LastServing)
      BY <2>1 DEF ResponseOf, LastServing, Owners, ItemOf, MultiSource, Served, Successful
    <2>6. ResponseSound'
      BY <2>1, <2>5 DEF ResponseSound
    <2> QED
      BY <2>2, <2>3, <2>4, <2>6 DEF FallbackInv
  <1>8. CASE UNCHANGED evars
    <2>1. PlanSound' /\ AttemptsFollowPlan' /\ PageTypes' /\ NothingYet'
      BY <1>8 DEF evars, FallbackInv, PlanSound, AttemptsFollowPlan, PageTypes, NothingYet
    <2>2. PagesKept' /\ ReasonsKept'
      BY <1>8 DEF evars, FallbackInv, PagesKept, ReasonsKept, Successful
    <2>3. ResponseOf(LastServing)' = ResponseOf(LastServing)
      BY <1>8 DEF evars, ResponseOf, LastServing, Owners, ItemOf, MultiSource, Served, Successful
    <2>4. ResponseSound'
      BY <1>8, <2>3 DEF evars, FallbackInv, ResponseSound
    <2> QED
      BY <2>1, <2>2, <2>4 DEF FallbackInv
  <1> QED
    BY <1>1, <1>2, <1>3, <1>4, <1>5, <1>6, <1>7, <1>8, NoPlanKeeps, UnheardKeeps DEF ExtractNext, Extracted

-----------------------------------------------------------------------------
(* What the invariant gives                                                *)

\* An attempt that succeeded is of a provider of the plan, and there are finitely many.
LEMMA SuccessfulFinite ==
    ASSUME FallbackInv
    PROVE  Successful \subseteq Extractors /\ NoProvider \notin Successful /\ IsFiniteSet(Successful)
  <1>1. attempts \in Seq(AttemptRows)
    BY DEF FallbackInv, AttemptsFollowPlan
  <1> DEFINE S == {j \in DOMAIN attempts : attempts[j].outcome \in Good}
             f == [i \in S |-> attempts[i].provider]
  <1>2. \A i \in S : attempts[i].provider \in Extractors
    <2>1. \A i \in DOMAIN attempts : attempts[i] \in AttemptRows
      BY <1>1
    <2>2. \A row \in AttemptRows : row.provider \in Extractors
      BY DEF AttemptRows
    <2> QED
      BY <2>1, <2>2
  <1>3. Successful = {attempts[i].provider : i \in S}
    BY DEF Successful
  <1>4. IsFiniteSet(S)
    <2>1. Len(attempts) \in Nat /\ S \in SUBSET (1 .. Len(attempts))
      BY <1>1
    <2>2. IsFiniteSet(1 .. Len(attempts))
      BY <2>1, FS_Interval
    <2> QED
      BY <2>1, <2>2, FS_Subset
  <1> HIDE DEF S
  <1>5. f \in Surjection(S, Successful)
    BY <1>3 DEF Surjection
  <1> HIDE DEF f
  <1>6. IsFiniteSet(Successful)
    BY <1>4, <1>5, FS_Surjection
  <1> QED
    BY <1>2, <1>3, <1>6, ExtractAssumption

LEMMA TwoMembers ==
    ASSUME NEW S, IsFiniteSet(S), NEW a \in S, NEW b \in S, ~ (Cardinality(S) > 1)
    PROVE  a = b
  <1> SUFFICES ASSUME a # b PROVE FALSE
    OBVIOUS
  <1>1. IsFiniteSet({a}) /\ Cardinality({a}) = 1
    BY FS_Singleton
  <1>2. Cardinality({a} \cup {b}) = 2
    BY <1>1, FS_AddElement
  <1>3. Cardinality({a} \cup {b}) <= Cardinality(S) /\ Cardinality(S) \in Nat
    BY FS_Subset, FS_CardinalityType
  <1> QED
    BY <1>2, <1>3

LEMMA KeptItem ==
    ASSUME FallbackInv, NEW u \in Urls, succeeded[u] # NoItem
    PROVE  /\ ItemOf(u) = succeeded[u] /\ succeeded[u].kind = "page"
           /\ succeeded[u].by \in Successful /\ succeeded[u].by \in Served /\ serving # <<>>
  BY DEF FallbackInv, PagesKept, ItemOf, Served

LEMMA FallbackAttributes == FallbackInv => PagesAttributed
  <1> SUFFICES ASSUME FallbackInv, NEW i \in DOMAIN response, NEW u \in Urls, NEW k \in DOMAIN told[u],
                      told[u][k].kind = "page"
               PROVE  {s \in response[i].slots : s.page = u} = {[page |-> u, kind |-> "page", by |-> told[u][k].by]}
    BY DEF PagesAttributed
  <1>1. response[i] = ResponseOf(LastServing)
    BY DEF FallbackInv, ResponseSound
  <1>2. /\ succeeded[u] = told[u][k] /\ succeeded[u] # NoItem
        /\ serving \in Seq(Extractors)
    BY ItemTypes DEF FallbackInv, PagesKept, PageTypes
  <1> DEFINE it == succeeded[u]
             sel == LastServing
  <1>3. ItemOf(u) = it /\ it.kind = "page" /\ it.by \in Successful /\ it.by \in Served /\ serving # <<>>
    BY <1>2, KeptItem
  <1>4. sel \in Successful /\ sel \in Served
    <2>1. LastServing = serving[Len(serving)] /\ Len(serving) \in DOMAIN serving
      BY <1>2, <1>3 DEF LastServing, Last
    <2>2. serving[Len(serving)] \in Extractors
      BY <1>2, <2>1
    <2>3. PICK v \in Urls : succeeded[v] = Item("page", LastServing)
      BY <2>1 DEF FallbackInv, PagesKept
    <2>4. succeeded[v] # NoItem /\ succeeded[v].by = LastServing
      BY <2>1, <2>2, <2>3, ItemTypes, SaidTypes DEF ItemKinds
    <2> QED
      BY <2>4, KeptItem
  <1>5. NoProvider \notin Successful /\ IsFiniteSet(Successful)
    BY SuccessfulFinite
  <1>6. Owners(it, sel) \cap Successful = {it.by}
    <2>1. CASE MultiSource
      BY <1>3, <1>5, <2>1 DEF Owners
    <2>2. CASE ~ MultiSource
      <3>1. IsFiniteSet(Successful \cap Served)
        BY <1>5, FS_Subset
      <3>2. it.by = sel
        <4>1. it.by \in Successful \cap Served /\ sel \in Successful \cap Served
          BY <1>3, <1>4
        <4>2. ~ (Cardinality(Successful \cap Served) > 1)
          BY <2>2 DEF MultiSource
        <4> HIDE DEF it, sel
        <4> QED
          BY <3>1, <4>1, <4>2, TwoMembers
      <3> QED
        BY <1>4, <2>2, <3>2 DEF Owners
    <2> QED
      BY <2>1, <2>2
  <1> DEFINE shapes == [page : Urls, kind : Kinds \cup {"page", "blank"}, by : Successful]
             slots == {s \in shapes : s.kind = ItemOf(s.page).kind /\ s.by \in Owners(ItemOf(s.page), sel)}
             mine == [page |-> u, kind |-> "page", by |-> it.by]
  <1>7. response[i].slots = slots
    BY <1>1 DEF ResponseOf
  <1>8. mine \in slots /\ mine.page = u
    <2>1. mine \in shapes /\ mine.page = u /\ mine.kind = "page" /\ mine.by = it.by
      BY <1>3
    <2> QED
      BY <1>3, <1>6, <2>1
  <1>9. ASSUME NEW s \in slots, s.page = u PROVE s = mine
    <2>1. s \in shapes /\ s.kind = ItemOf(s.page).kind /\ s.by \in Owners(ItemOf(s.page), sel)
      OBVIOUS
    <2>2. s.kind = "page" /\ s.by \in Owners(it, sel) /\ s.by \in Successful
      BY <1>3, <1>9, <2>1
    <2>3. s.by = it.by
      BY <1>6, <2>2
    <2> QED
      BY <1>9, <2>1, <2>2, <2>3
  <1> HIDE DEF slots, mine
  <1>10. {s \in slots : s.page = u} = {mine}
    BY <1>8, <1>9
  <1> QED
    BY <1>2, <1>7, <1>10 DEF mine

LEMMA FallbackAsks == FallbackInv => AskedWhileOpen
  <1> SUFFICES ASSUME FallbackInv, NEW u \in Urls
               PROVE  /\ \A k \in 1 .. Len(told[u]) - 1 : told[u][k].kind \notin Final \cup {"page"}
                      /\ \A k \in DOMAIN told[u] :
                            ItemOf(u).kind = "page" \/ Rank(told[u][k].kind) <= Rank(ItemOf(u).kind)
    BY DEF AskedWhileOpen
  <1>0. ReasonsKept /\ PagesKept
    BY DEF FallbackInv
  <1>1. \A k \in 1 .. Len(told[u]) - 1 : told[u][k].kind \notin Final \cup {"page"}
    BY <1>0 DEF ReasonsKept
  <1>2. ASSUME NEW k \in DOMAIN told[u]
        PROVE  ItemOf(u).kind = "page" \/ Rank(told[u][k].kind) <= Rank(ItemOf(u).kind)
    <2>1. CASE succeeded[u] # NoItem
      BY <2>1, KeptItem
    <2>2. CASE succeeded[u] = NoItem
      <3>1. u \notin refused
        BY <1>0 DEF ReasonsKept
      <3>2. told[u][k].kind # "page"
        <4>1. told[u][k].kind = "page" => succeeded[u] = told[u][k]
          BY <1>0 DEF PagesKept
        <4> QED
          BY <2>2, <4>1, ItemTypes
      <3>3. Rank(told[u][k].kind) <= Rank(failed[u].kind)
        BY <1>0, <3>2 DEF ReasonsKept
      <3>4. CASE failed[u] = NoItem
        <4>1. ItemOf(u) = Item("blank", NoProvider) /\ ItemOf(u).kind = "blank"
          BY <2>2, <3>1, <3>4 DEF ItemOf, Item
        <4>2. Rank("none") = Rank("blank")
          BY DEF Rank
        <4>3. failed[u].kind = "none"
          BY <3>4 DEF NoItem, Item
        <4> QED
          BY <3>3, <4>1, <4>2, <4>3
      <3>5. CASE failed[u] # NoItem
        <4>1. ItemOf(u) = failed[u]
          BY <2>2, <3>1, <3>5 DEF ItemOf
        <4> QED
          BY <3>3, <4>1
      <3> QED
        BY <3>4, <3>5
    <2> QED
      BY <2>1, <2>2
  <1> QED
    BY <1>1, <1>2

\* The plan names a provider once, so its attempt is the one at its position.
LEMMA AttemptAtPosition ==
    ASSUME FallbackInv
    PROVE  /\ DOMAIN attempts \subseteq DOMAIN plan.order
           /\ \A i \in DOMAIN plan.order :
                 AttemptOf(attempts, plan.order[i]) = IF i \in DOMAIN attempts THEN i ELSE 0
           /\ \A i \in DOMAIN attempts : attempts[i].provider = plan.order[i] /\ attempts[i].outcome \in Outcomes
           /\ \A i \in DOMAIN plan.order : plan.order[i] \in Extractors /\ i \in Nat
           /\ \A i \in DOMAIN attempts : \A j \in 1 .. i : j \in DOMAIN attempts
  <1>1. /\ attempts \in Seq(AttemptRows) /\ Len(attempts) <= Len(plan.order) /\ plan.order \in Seq(Extractors)
        /\ \A i \in DOMAIN attempts : attempts[i].provider = plan.order[i]
        /\ IsInjective(plan.order)
    BY DEF FallbackInv, AttemptsFollowPlan, PlanSound
  <1>2. /\ DOMAIN attempts = 1 .. Len(attempts) /\ DOMAIN plan.order = 1 .. Len(plan.order)
        /\ Len(attempts) \in Nat /\ Len(plan.order) \in Nat
        /\ \A i \in DOMAIN attempts : attempts[i] \in AttemptRows
        /\ \A i \in DOMAIN plan.order : plan.order[i] \in Extractors
    BY <1>1
  <1>3. DOMAIN attempts \subseteq DOMAIN plan.order
    BY <1>1, <1>2
  <1>4. ASSUME NEW i \in DOMAIN plan.order
        PROVE  AttemptOf(attempts, plan.order[i]) = IF i \in DOMAIN attempts THEN i ELSE 0
    <2> DEFINE mine == {j \in DOMAIN attempts : attempts[j].provider = plan.order[i]}
    <2>1. \A j \in mine : j = i
      BY <1>1, <1>3 DEF IsInjective
    <2>2. i \in DOMAIN attempts => i \in mine
      BY <1>1
    <2>3. AttemptOf(attempts, plan.order[i]) = IF mine = {} THEN 0 ELSE CHOOSE k \in mine : \A j \in mine : j <= k
      BY DEF AttemptOf
    <2>4. mine \subseteq DOMAIN attempts
      OBVIOUS
    <2> HIDE DEF mine
    <2>5. CASE i \in DOMAIN attempts
      <3>1. mine = {i} /\ i <= i
        BY <1>2, <2>1, <2>2, <2>5
      <3> QED
        BY <2>3, <2>5, <3>1
    <2>6. CASE i \notin DOMAIN attempts
      <3>1. mine = {}
        BY <2>1, <2>4, <2>6
      <3> QED
        BY <2>3, <2>6, <3>1
    <2> QED
      BY <2>5, <2>6
  <1>5. \A i \in DOMAIN attempts : attempts[i].outcome \in Outcomes
    BY <1>2 DEF AttemptRows
  <1> QED
    BY <1>1, <1>2, <1>3, <1>4, <1>5

\* The provider selected is one that succeeded.
LEMMA SelectedSucceeded ==
    ASSUME FallbackInv, LastServing # NoProvider
    PROVE  LastServing \in Successful
  <1>0. serving \in Seq(Extractors)
    BY DEF FallbackInv, PageTypes
  <1>1. LastServing = serving[Len(serving)] /\ Len(serving) \in DOMAIN serving
    BY <1>0 DEF LastServing, Last
  <1>2. serving[Len(serving)] \in Extractors
    BY <1>0, <1>1
  <1>3. PICK v \in Urls : succeeded[v] = Item("page", LastServing)
    BY <1>1 DEF FallbackInv, PagesKept
  <1>4. succeeded[v] # NoItem /\ succeeded[v].by = LastServing
    BY <1>1, <1>2, <1>3, ItemTypes, SaidTypes DEF ItemKinds
  <1> QED
    BY <1>4, KeptItem

LEMMA FallbackDelivers == FallbackInv => ExtractReceiptDelivered
  <1> DEFINE sel  == LastServing
             rep  == IF sel \in {NoProvider, plan.chosen} THEN "none" ELSE "selected_failed"
             rec  == Receipt(plan.order, attempts, sel, rep, FALSE)
             ds   == Decisions(plan.order, attempts, sel, FALSE)
  <1> SUFFICES ASSUME FallbackInv
               PROVE  Deliverable(rec, attempts)
    <2>1. ASSUME FallbackInv, NEW i \in DOMAIN response
          PROVE  Receipt(plan.order, attempts, response[i].selected, response[i].reported, FALSE) = rec
      <3>1. response[i] = ResponseOf(LastServing)
        BY <2>1 DEF FallbackInv, ResponseSound
      <3> QED
        BY <3>1 DEF ResponseOf
    <2> QED
      BY <2>1 DEF ExtractReceiptDelivered
  <1>0. /\ DOMAIN attempts \subseteq DOMAIN plan.order
        /\ \A i \in DOMAIN plan.order :
              AttemptOf(attempts, plan.order[i]) = IF i \in DOMAIN attempts THEN i ELSE 0
        /\ \A i \in DOMAIN attempts : attempts[i].provider = plan.order[i] /\ attempts[i].outcome \in Outcomes
        /\ \A i \in DOMAIN plan.order : plan.order[i] \in Extractors /\ plan.order[i] # NoProvider /\ i \in Nat
        /\ \A i \in DOMAIN attempts : \A j \in 1 .. i : j \in DOMAIN attempts
    BY AttemptAtPosition, ExtractAssumption
  <1>1. /\ plan.order \in Seq(Extractors)
        /\ \A i, j \in DOMAIN plan.order : plan.order[i] = plan.order[j] => i = j
        /\ plan.order # <<>> => plan.chosen = plan.order[1]
    BY DEF FallbackInv, PlanSound, IsInjective
  <1>2. sel # NoProvider => \E i \in DOMAIN attempts : plan.order[i] = sel /\ attempts[i].outcome \in Good
    BY <1>0, SelectedSucceeded DEF Successful
  <1>3. ASSUME NEW i \in DOMAIN plan.order, plan.order[i] = sel
        PROVE  i \in DOMAIN attempts /\ attempts[i].outcome \in Good /\ sel # NoProvider
    <2>1. sel # NoProvider
      BY <1>0, <1>3
    <2>2. PICK j \in DOMAIN attempts : plan.order[j] = sel /\ attempts[j].outcome \in Good
      BY <1>2, <2>1
    <2>3. i = j
      BY <1>0, <1>1, <1>3, <2>2
    <2> QED
      BY <2>1, <2>2, <2>3
  <1>4. /\ rec.order = plan.order /\ rec.selected = sel /\ rec.decisions = ds /\ rec.origin = <<>>
        /\ rec.fallback = FallbackReason(ds, PositionOf(plan.order, sel), rep)
    BY DEF Receipt
  <1>5. DOMAIN ds = DOMAIN plan.order
    BY DEF Decisions
  <1>6. ASSUME NEW i \in DOMAIN plan.order
        PROVE  /\ ds[i].provider = plan.order[i]
               /\ ds[i].decision = "selected" <=> plan.order[i] = sel
               /\ (plan.order[i] # sel /\ i \in DOMAIN attempts) =>
                     ds[i].decision \in {"skipped", "attempted_no_selection", "attempted_failed"}
               /\ ValidDecision(rec, attempts, i)
    <2> DEFINE after == \E j \in 1 .. i - 1 : \/ plan.order[j] = sel
                                              \/ /\ AttemptOf(attempts, plan.order[j]) # 0
                                                 /\ attempts[AttemptOf(attempts, plan.order[j])].outcome \in Good
    <2>0. ds[i] = DecisionOf(plan.order, attempts, sel, FALSE, i, after)
      BY DEF Decisions
    <2>9. i \in 1 .. Len(plan.order)
      BY <1>1
    <2>10. i \in Nat /\ i # 0
      BY <2>9
    <2> HIDE DEF after, ds, rec, sel, rep
    <2>4. ASSUME ds[i].provider = plan.order[i], ds[i].reason \in Reasons(ds[i].decision),
                 ds[i].decision = "selected" => plan.order[i] = sel,
                 ds[i].decision \in {"attempted_failed", "attempted_no_selection", "skipped"} => ds[i].attempt # 0,
                 ds[i].decision = "not_attempted" => ds[i].attempt = 0,
                 ds[i].attempt # 0 =>
                     /\ ds[i].attempt = i /\ i \in DOMAIN attempts
                     /\ attempts[i].outcome \in Expected(ds[i].decision)
                     /\ ds[i].decision = "skipped" => ds[i].reason = SkipReason(attempts[i].skip)
          PROVE  ValidDecision(rec, attempts, i)
      BY <1>0, <1>4, <2>4 DEF ValidDecision
    <2>1. CASE plan.order[i] = sel
      <3>1. i \in DOMAIN attempts /\ attempts[i].outcome \in Good /\ AttemptOf(attempts, plan.order[i]) = i
        BY <1>0, <1>3, <2>1
      <3>2. ds[i] = [provider |-> plan.order[i], decision |-> "selected",
                     reason |-> IF i = 1 THEN "classic_selected" ELSE "fallback_selected", attempt |-> i]
        BY <2>0, <2>1, <3>1 DEF DecisionOf
      <3>3. /\ ds[i].provider = plan.order[i] /\ ds[i].decision = "selected" /\ ds[i].attempt = i
            /\ ds[i].reason \in {"classic_selected", "fallback_selected"}
        BY <3>2
      <3>4. Reasons("selected") = {"classic_selected", "fallback_selected"} /\ Expected("selected") = Good
        BY DEF Reasons, Expected
      <3>5. ValidDecision(rec, attempts, i)
        BY <2>1, <2>4, <2>10, <3>1, <3>3, <3>4
      <3> QED
        BY <2>1, <3>3, <3>5
    <2>2. CASE plan.order[i] # sel /\ i \notin DOMAIN attempts
      <3>1. AttemptOf(attempts, plan.order[i]) = 0
        BY <1>0, <2>2
      <3>2. ds[i] = [provider |-> plan.order[i], decision |-> "not_attempted",
                     reason |-> IF after THEN "not_attempted_after_success" ELSE "provider_unavailable", attempt |-> 0]
        BY <2>0, <2>2, <3>1 DEF DecisionOf
      <3>3. /\ ds[i].provider = plan.order[i] /\ ds[i].decision = "not_attempted" /\ ds[i].attempt = 0
            /\ ds[i].reason \in {"not_attempted_after_success", "provider_unavailable"}
        BY <3>2
      <3>4. {"not_attempted_after_success", "provider_unavailable"} \subseteq Reasons("not_attempted")
        BY DEF Reasons
      <3>5. ds[i].reason \in Reasons(ds[i].decision)
        BY <3>3, <3>4
      <3>6. ValidDecision(rec, attempts, i)
        BY <2>2, <2>4, <3>3, <3>5
      <3> QED
        BY <2>2, <3>3, <3>6
    <2>3. CASE plan.order[i] # sel /\ i \in DOMAIN attempts
      <3>1. AttemptOf(attempts, plan.order[i]) = i /\ attempts[i].outcome \in Outcomes
        BY <1>0, <2>3
      <3>2. CASE attempts[i].outcome = "skipped"
        <4>1. ds[i] = [provider |-> plan.order[i], decision |-> "skipped",
                       reason |-> SkipReason(attempts[i].skip), attempt |-> i]
          BY <2>0, <2>3, <2>10, <3>1, <3>2 DEF DecisionOf
        <4>2. /\ ds[i].provider = plan.order[i] /\ ds[i].decision = "skipped" /\ ds[i].attempt = i
              /\ ds[i].reason = SkipReason(attempts[i].skip)
          BY <4>1
        <4>3. SkipReason(attempts[i].skip) \in Reasons("skipped") /\ Expected("skipped") = {"skipped"}
          BY DEF SkipReason, Reasons, Expected
        <4>4. ValidDecision(rec, attempts, i)
          BY <2>3, <2>4, <2>10, <3>2, <4>2, <4>3
        <4> QED
          BY <2>3, <4>2, <4>4
      <3>3. CASE attempts[i].outcome \in Good
        <4>1. ds[i] = [provider |-> plan.order[i], decision |-> "attempted_no_selection",
                       reason |-> "insufficient_results", attempt |-> i]
          BY <2>0, <2>3, <2>10, <3>1, <3>3 DEF DecisionOf, Good
        <4>2. /\ ds[i].provider = plan.order[i] /\ ds[i].decision = "attempted_no_selection" /\ ds[i].attempt = i
              /\ ds[i].reason = "insufficient_results"
          BY <4>1
        <4>3. /\ Reasons("attempted_no_selection") = {"insufficient_results"}
              /\ Expected("attempted_no_selection") = Good
          BY DEF Reasons, Expected
        <4>4. ValidDecision(rec, attempts, i)
          BY <2>3, <2>4, <2>10, <3>3, <4>2, <4>3
        <4> QED
          BY <2>3, <4>2, <4>4
      <3>4. CASE attempts[i].outcome \in {"failed", "cancelled"}
        <4>1. ds[i] = [provider |-> plan.order[i], decision |-> "attempted_failed",
                       reason |-> "attempt_failed", attempt |-> i]
          BY <2>0, <2>3, <2>10, <3>1, <3>4 DEF DecisionOf, Good
        <4>2. /\ ds[i].provider = plan.order[i] /\ ds[i].decision = "attempted_failed" /\ ds[i].attempt = i
              /\ ds[i].reason = "attempt_failed"
          BY <4>1
        <4>3. /\ Reasons("attempted_failed") = {"attempt_failed"}
              /\ Expected("attempted_failed") = {"failed", "cancelled"}
          BY DEF Reasons, Expected
        <4>4. ValidDecision(rec, attempts, i)
          BY <2>3, <2>4, <2>10, <3>4, <4>2, <4>3
        <4> QED
          BY <2>3, <4>2, <4>4
      <3> QED
        BY <3>1, <3>2, <3>3, <3>4 DEF Outcomes, Good
    <2> QED
      BY <2>1, <2>2, <2>3
  <1> HIDE DEF ds, rec, rep, sel
  <1>7. ASSUME NEW i \in DOMAIN plan.order, plan.order[i] = sel
        PROVE  PositionOf(plan.order, sel) = i
    BY <1>1, <1>7 DEF PositionOf
  <1>8. ValidFallback(rec)
    <2> SUFFICES ASSUME NEW i \in DOMAIN plan.order, ds[i].decision = "selected"
                 PROVE  /\ i = 1 <=> rec.fallback = "none"
                        /\ rec.fallback = "selected_failed" => Before(ds, i, "attempted_failed")
                        /\ rec.fallback = "insufficient_results" => Before(ds, i, "attempted_no_selection")
                        /\ rec.fallback = "selected_skipped" => Before(ds, i, "skipped")
      BY <1>4, <1>5 DEF ValidFallback
    <2>1. plan.order[i] = sel /\ PositionOf(plan.order, sel) = i /\ i \in DOMAIN attempts
      BY <1>3, <1>6, <1>7
    <2>2. i \in 1 .. Len(plan.order) /\ Len(plan.order) \in Nat
      BY <1>1
    <2>3. i \in Nat /\ i >= 1 /\ 1 \in DOMAIN plan.order /\ plan.chosen = plan.order[1]
      BY <1>1, <2>2
    <2>4. CASE i = 1
      <3>1. rep = "none"
        BY <2>1, <2>3, <2>4 DEF rep
      <3>2. rec.fallback = "none"
        BY <1>4, <2>1, <2>4, <3>1 DEF FallbackReason
      <3> QED
        BY <2>4, <3>2
    <2>5. CASE i # 1
      <3>1. i > 1 /\ 1 \in 1 .. i /\ 1 \in 1 .. i - 1
        BY <2>3, <2>5
      <3>2. plan.order[1] # sel /\ 1 \in DOMAIN attempts
        BY <1>0, <1>1, <2>1, <2>3, <2>5, <3>1
      <3>3. ds[1].decision \in {"skipped", "attempted_no_selection", "attempted_failed"}
        BY <1>6, <2>3, <3>2
      <3>4. \/ Before(ds, i, "attempted_no_selection") \/ Before(ds, i, "attempted_failed")
            \/ Before(ds, i, "skipped")
        BY <3>1, <3>3 DEF Before
      <3>5. rec.fallback = FallbackReason(ds, i, rep)
        BY <1>4, <2>1
      <3> QED
        BY <2>5, <3>1, <3>4, <3>5 DEF FallbackReason
    <2> QED
      BY <2>4, <2>5
  <1>9. sel # NoProvider => \E i \in DOMAIN ds : ds[i].decision = "selected"
    <2> SUFFICES ASSUME sel # NoProvider PROVE \E i \in DOMAIN ds : ds[i].decision = "selected"
      OBVIOUS
    <2>1. PICK i \in DOMAIN attempts : plan.order[i] = sel
      BY <1>2
    <2>2. i \in DOMAIN plan.order
      BY <1>0
    <2> QED
      BY <1>5, <1>6, <2>1, <2>2
  <1>10. Valid(rec, attempts)
    <2>1. ValidOrigin(rec)
      BY <1>4 DEF ValidOrigin
    <2>2. \A i \in DOMAIN plan.order : ValidDecision(rec, attempts, i)
      BY <1>6
    <2> QED
      BY <1>1, <1>4, <1>5, <1>8, <1>9, <2>1, <2>2 DEF Valid
  <1> DEFINE hits == {i \in DOMAIN ds : ds[i].decision = "selected"}
             hit  == CacheHitReceipt(rec)
             from == [order |-> plan.order, selected |-> sel, told |-> hits]
  <1>11. /\ hits = {} <=> sel = NoProvider
         /\ \A j \in hits : j \in DOMAIN plan.order /\ plan.order[j] = sel
    <2>1. \A j \in hits : j \in DOMAIN plan.order /\ plan.order[j] = sel
      BY <1>5, <1>6
    <2>2. sel = NoProvider => hits = {}
      BY <1>0, <2>1
    <2> QED
      BY <1>9, <2>1, <2>2
  <1>12. hit = [order |-> <<>>, selected |-> NoProvider, decisions |-> <<>>, fallback |-> "none",
                origin |-> <<from>>]
    BY <1>4, <1>11 DEF CacheHitReceipt
  <1> HIDE DEF hits, hit
  <1>13. Valid(hit, <<>>)
    <2>1. /\ hit.order = <<>> /\ hit.selected = NoProvider /\ hit.decisions = <<>> /\ hit.origin = <<from>>
      BY <1>12
    <2>2. from.order = plan.order /\ from.selected = sel /\ from.told = hits
      OBVIOUS
    <2> HIDE DEF from
    <2>3. ValidOrigin(hit)
      BY <1>11, <2>1, <2>2 DEF ValidOrigin
    <2>4. DOMAIN hit.order = {} /\ DOMAIN hit.decisions = {}
      BY <2>1
    <2> QED
      BY <2>1, <2>3, <2>4 DEF Valid, ValidFallback
  <1> QED
    BY <1>10, <1>13 DEF Deliverable, hit

\* However many providers an extraction takes, each page that reached the merge is in the
\* response once, tied to the provider that served it; of what the merge heard, nobody is asked
\* for a page that came or does not exist, and the most telling reason is the one that is given,
\* whatever else providers said in tries that were dropped; and the receipt built from the
\* attempts is one its validator accepts, now and from the cache (_plan_extract_v3 and
\* _execute_extract_v3, response_from_legacy, complete_routing_receipt_v3).
THEOREM FallbackKeepsPages == ExtractSpec => []FallbackSound
  <1>1. FallbackInv => FallbackSound
    BY FallbackAttributes, FallbackAsks, FallbackDelivers DEF FallbackSound
  <1> QED
    BY <1>1, FallbackInitOK, FallbackNextOK, PTL DEF ExtractSpec

(***************************************************************************)
(* The settings and the providers read from a config file (config.py)       *)
(***************************************************************************)
\* What a setup command writes it has judged, and it leaves a list of providers unless the
\* profile decides the order.
WellWritten(f) ==
    /\ f.default = NoName \/ f.default \notin f.disabled
    /\ f.priority # <<>> \/ f.profile = "self_hosted"

ConfigSteps == {"idle", "edit", "refused", "write", "replace"}

ConfigInv ==
    /\ disk \in ConfigFiles
    /\ disk.kind = "config" /\ disk.by = "cli" => WellWritten(disk)
    /\ operator \in [Operators -> [step : ConfigSteps, data : ConfigFiles]]
    /\ \A o \in Operators : operator[o].step \in {"write", "replace"} => WellWritten(operator[o].data)

LEMMA DefaultsFile ==
    /\ Defaults \in ConfigFiles /\ Missing \in ConfigFiles /\ WellWritten(Defaults)
    /\ Missing.kind = "none"
  BY ConfigAssumption DEF Defaults, Missing, ConfigFiles, WellWritten

\* A list of providers stays one, and is not emptied.
LEMMA ListKept ==
    ASSUME NEW s \in Seq(ListedNames), s # <<>>
    PROVE  /\ Modern(s) \in Seq(ListedNames) /\ Modern(s) # <<>>
           /\ WithDefaults(s) \in Seq(ListedNames) /\ WithDefaults(s) # <<>>
  <1>1. Catalog \in Seq(ListedNames) /\ Catalog # <<>>
    BY ConfigAssumption
  <1>2. Without(Catalog, Range(s)) \in Seq(ListedNames) /\ Without(s, Names) \in Seq(ListedNames)
    BY <1>1, WithoutShape
  <1>3. \A a, b \in Seq(ListedNames) : a # <<>> => (a \o b) \in Seq(ListedNames) /\ a \o b # <<>>
    OBVIOUS
  <1>4. WithDefaults(s) \in Seq(ListedNames) /\ WithDefaults(s) # <<>>
    BY <1>2, <1>3 DEF WithDefaults
  <1>5. Modern(s) \in Seq(ListedNames) /\ Modern(s) # <<>>
    BY <1>1, <1>2, <1>3 DEF Modern
  <1> QED
    BY <1>4, <1>5

\* The same settings with another list.
Relisted(f, list) == [f EXCEPT !.priority = list]

LEMMA ListChanged ==
    ASSUME NEW f \in ConfigFiles, NEW list \in Seq(ListedNames)
    PROVE  /\ Relisted(f, list) \in ConfigFiles /\ Relisted(f, list).priority = list
           /\ Relisted(f, list).profile = f.profile
           /\ Relisted(f, list).default = f.default /\ Relisted(f, list).disabled = f.disabled
           /\ Relisted(Relisted(f, list), FreeOrder) = Relisted(f, FreeOrder)
  BY DEF ConfigFiles, Relisted

\* Merging touches the list alone and leaves one.
LEMMA MergedShape ==
    ASSUME NEW f \in ConfigFiles
    PROVE  \E list \in Seq(ListedNames) :
              /\ Merged(f) = Relisted(f, list)
              /\ f.profile = "self_hosted" => list = FreeOrder
              /\ f.profile # "self_hosted" =>
                    /\ list # <<>>
                    /\ f.priority = <<>> => list = Catalog
                    /\ f.priority # <<>> =>
                          LET p == IF f.order = "custom" THEN f.priority ELSE Modern(f.priority)
                          IN  list = IF f.enabled THEN WithDefaults(p) ELSE p
  <1> DEFINE p     == IF f.order = "custom" THEN f.priority ELSE Modern(f.priority)
             asked == IF f.priority = <<>> THEN Catalog ELSE IF f.enabled THEN WithDefaults(p) ELSE p
             list  == IF f.profile = "self_hosted" THEN FreeOrder ELSE asked
  <1>0. f.priority \in Seq(ListedNames) /\ FreeOrder \in Seq(ListedNames) /\ Catalog \in Seq(ListedNames) /\ Catalog # <<>>
    BY ConfigAssumption DEF ConfigFiles
  <1>1. f.priority # <<>> => p \in Seq(ListedNames) /\ p # <<>>
    BY <1>0, ListKept
  <1> HIDE DEF p
  <1>2. asked \in Seq(ListedNames) /\ asked # <<>>
    BY <1>0, <1>1, ListKept
  <1>3. Merged(f) = ProfileEffects(Relisted(f, asked))
    BY DEF Merged, Relisted, p
  <1> HIDE DEF asked
  <1>4. /\ Relisted(f, asked).profile = f.profile
        /\ Relisted(Relisted(f, asked), FreeOrder) = Relisted(f, FreeOrder)
    BY <1>2, ListChanged
  <1>5. Merged(f) = Relisted(f, list)
    <2>1. Merged(f) = IF f.profile = "self_hosted" THEN Relisted(Relisted(f, asked), FreeOrder) ELSE Relisted(f, asked)
      BY <1>3, <1>4 DEF ProfileEffects, Relisted
    <2> QED
      BY <1>4, <2>1
  <1>6. list \in Seq(ListedNames)
    BY <1>0, <1>2
  <1>7. f.profile = "self_hosted" => list = FreeOrder
    OBVIOUS
  <1>8. f.profile # "self_hosted" => list = asked
    OBVIOUS
  <1> HIDE DEF list
  <1>9. f.profile # "self_hosted" =>
            /\ list # <<>>
            /\ f.priority = <<>> => list = Catalog
            /\ f.priority # <<>> => list = IF f.enabled THEN WithDefaults(p) ELSE p
    BY <1>2, <1>8 DEF asked
  <1> QED
    BY <1>5, <1>6, <1>7, <1>9 DEF p

\* ... so what is merged from judged settings may be written.
LEMMA MergedWell ==
    ASSUME NEW f \in ConfigFiles
    PROVE  Merged(f) \in ConfigFiles /\ (Mergeable(f) => WellWritten(Merged(f)))
  <1>1. PICK list \in Seq(ListedNames) :
            /\ Merged(f) = Relisted(f, list)
            /\ f.profile # "self_hosted" => list # <<>>
    BY MergedShape
  <1>2. /\ Merged(f).priority = list /\ Merged(f).profile = f.profile
        /\ Merged(f).default = f.default /\ Merged(f).disabled = f.disabled
        /\ Merged(f) \in ConfigFiles
    BY <1>1, ListChanged
  <1> QED
    BY <1>1, <1>2 DEF Mergeable, WellWritten

\* A command leaves settings.
LEMMA EditedFiles ==
    ASSUME NEW c \in ConfigFiles
    PROVE  Edited(c) \subseteq ConfigFiles
  <1>0. Names \subseteq ListedNames /\ OldOrder \in Seq(ListedNames) /\ \A q \in Names : <<q>> \in Seq(ListedNames)
    BY ConfigAssumption DEF ListedNames
  <1>1. \A on \in BOOLEAN : [c EXCEPT !.enabled = on] \in ConfigFiles
    BY DEF ConfigFiles
  <1>2. \A q \in Names : [c EXCEPT !.default = q, !.enabled = FALSE] \in ConfigFiles
    BY DEF ConfigFiles
  <1>3. \A list \in Seq(ListedNames) : [c EXCEPT !.priority = list] \in ConfigFiles
    BY DEF ConfigFiles
  <1>4. [c EXCEPT !.order = "measured"] \in ConfigFiles
    BY DEF ConfigFiles
  <1>5. \A list \in Seq(ListedNames) : [c EXCEPT !.order = "custom", !.priority = list, !.enabled = TRUE] \in ConfigFiles
    BY DEF ConfigFiles
  <1>6. \A q \in Names : /\ [c EXCEPT !.disabled = @ \cup {q}] \in ConfigFiles
                         /\ [c EXCEPT !.disabled = @ \ {q}] \in ConfigFiles
    BY DEF ConfigFiles
  <1>7. Merged(c) \in ConfigFiles
    BY MergedWell
  <1>8. [Merged(c) EXCEPT !.profile = "self_hosted"] \in ConfigFiles
    BY <1>7 DEF ConfigFiles
  <1>9. (\A q \in Names : [c EXCEPT !.priority = <<q>>] \in ConfigFiles) /\ [c EXCEPT !.priority = OldOrder] \in ConfigFiles
    BY <1>0, <1>3
  <1>10. \A q \in Names : [c EXCEPT !.order = "custom", !.priority = <<q>>, !.enabled = TRUE] \in ConfigFiles
    BY <1>0, <1>5
  <1> QED
    BY <1>1, <1>2, <1>4, <1>6, <1>8, <1>9, <1>10 DEF Edited

LEMMA WrittenWell ==
    ASSUME NEW data \in ConfigFiles, NEW there \in ConfigFiles, WellWritten(data)
    PROVE  Written(data, there) \in ConfigFiles /\ WellWritten(Written(data, there))
  <1> DEFINE other == IF there.kind = "config" THEN there.other ELSE "none"
             list  == IF data.profile = "self_hosted" THEN <<>> ELSE data.priority
             w     == [data EXCEPT !.kind = "config", !.by = "cli", !.other = other, !.priority = list]
  <1>1. other \in {"none", "fine", "refused"} /\ list \in Seq(ListedNames)
    BY DEF ConfigFiles
  <1>2. Written(data, there) = w
    BY DEF Written, ConfigFiles
  <1>3. data.profile # "self_hosted" => list # <<>>
    BY DEF WellWritten
  <1> HIDE DEF other, list
  <1>4. w \in ConfigFiles /\ w.priority = list /\ w.profile = data.profile
        /\ w.default = data.default /\ w.disabled = data.disabled
    BY <1>1 DEF ConfigFiles
  <1> QED
    BY <1>2, <1>3, <1>4 DEF WellWritten

LEMMA ConfigInitOK == ConfigInit => ConfigInv
  <1> SUFFICES ASSUME ConfigInit PROVE ConfigInv
    OBVIOUS
  <1>1. disk \in ConfigFiles
    BY DefaultsFile, ConfigAssumption DEF ConfigInit
  <1>2. ~ (disk.kind = "config" /\ disk.by = "cli")
    BY DefaultsFile, ConfigAssumption DEF ConfigInit
  <1>3. Resting \in [step : ConfigSteps, data : ConfigFiles] /\ Resting.step = "idle"
    BY DefaultsFile DEF Resting, ConfigSteps
  <1> QED
    BY <1>1, <1>2, <1>3 DEF ConfigInit, ConfigInv

\* A command takes its next step: what it holds by then may be written if it is about to be.
LEMMA TurnKeeps ==
    ASSUME ConfigInv, NEW o \in Operators, NEW cmd \in [step : ConfigSteps, data : ConfigFiles],
           cmd.step \in {"write", "replace"} => WellWritten(cmd.data),
           operator' = [operator EXCEPT ![o] = cmd]
    PROVE  /\ operator' \in [Operators -> [step : ConfigSteps, data : ConfigFiles]]
           /\ \A x \in Operators : operator'[x].step \in {"write", "replace"} => WellWritten(operator'[x].data)
  BY DEF ConfigInv

LEMMA ConfigNextOK == ConfigInv /\ [ConfigNext]_configvars => ConfigInv'
  <1> SUFFICES ASSUME ConfigInv, [ConfigNext]_configvars PROVE ConfigInv'
    OBVIOUS
  <1>0. /\ disk \in ConfigFiles /\ (disk.kind = "config" /\ disk.by = "cli" => WellWritten(disk))
        /\ operator \in [Operators -> [step : ConfigSteps, data : ConfigFiles]]
        /\ \A o \in Operators : operator[o].step \in {"write", "replace"} => WellWritten(operator[o].data)
    BY DEF ConfigInv
  <1> DEFINE Entry == [step : ConfigSteps, data : ConfigFiles]
  <1>r. Resting \in Entry /\ Resting.step = "idle" /\ {"idle", "edit", "refused", "write", "replace"} = ConfigSteps
    BY DefaultsFile DEF Resting, ConfigSteps
  <1>t. \A place \in ConfigSteps, data \in ConfigFiles :
            LET e == [step |-> place, data |-> data] IN e \in Entry /\ e.step = place /\ e.data = data
    OBVIOUS
  <1>a. ASSUME NEW o \in Operators, NEW cmd \in Entry, cmd.step \in {"write", "replace"} => WellWritten(cmd.data),
               operator' = [operator EXCEPT ![o] = cmd], disk' = disk
        PROVE  ConfigInv'
    BY <1>0, <1>a, TurnKeeps DEF ConfigInv
  <1>b. ASSUME operator' = operator, disk' \in ConfigFiles, ~ (disk'.kind = "config" /\ disk'.by = "cli")
        PROVE  ConfigInv'
    BY <1>0, <1>b DEF ConfigInv
  <1> HIDE DEF Entry
  <1>1. ASSUME NEW o \in Operators, LoadForEdit(o) PROVE ConfigInv'
    <2>1. \E place \in {"edit", "refused"}, data \in ConfigFiles :
              operator' = [operator EXCEPT ![o] = [step |-> place, data |-> data]]
      BY <1>0, <1>1, DefaultsFile, MergedWell DEF LoadForEdit, Turn
    <2>2. PICK place \in {"edit", "refused"}, data \in ConfigFiles :
              operator' = [operator EXCEPT ![o] = [step |-> place, data |-> data]]
      BY <2>1
    <2>3. disk' = disk
      BY <1>1 DEF LoadForEdit
    <2> DEFINE cmd == [step |-> place, data |-> data]
    <2>4. cmd \in Entry /\ cmd.step = place
      BY <1>r, <1>t
    <2>5. operator' = [operator EXCEPT ![o] = cmd]
      BY <2>2
    <2> HIDE DEF cmd
    <2>6. cmd.step \notin {"write", "replace"}
      BY ONLY <2>4, place \in {"edit", "refused"}
    <2> QED
      BY <1>a, <2>3, <2>4, <2>5, <2>6
  <1>2. ASSUME NEW o \in Operators, QuarantineBehavior(o) PROVE ConfigInv'
    <2>1. operator' = [operator EXCEPT ![o] = [step |-> "edit", data |-> Defaults]] /\ disk' = Missing
      BY <1>2 DEF QuarantineBehavior, Turn
    <2>2. [step |-> "edit", data |-> Defaults] \in [step : ConfigSteps, data : ConfigFiles]
      BY DefaultsFile DEF ConfigSteps
    <2>3. disk' \in ConfigFiles /\ disk'.kind = "none"
      BY <2>1, DefaultsFile
    <2>4. /\ operator' \in [Operators -> [step : ConfigSteps, data : ConfigFiles]]
          /\ \A x \in Operators : operator'[x].step \in {"write", "replace"} => WellWritten(operator'[x].data)
      <3> DEFINE e == [step |-> "edit", data |-> Defaults]
      <3>1. e \in [step : ConfigSteps, data : ConfigFiles] /\ e.step = "edit"
        BY <2>2
      <3>2. operator' = [operator EXCEPT ![o] = e]
        BY <2>1
      <3> HIDE DEF e
      <3> QED
        BY <3>1, <3>2, TurnKeeps
    <2> QED
      BY <2>3, <2>4 DEF ConfigInv
  <1>3. ASSUME NEW o \in Operators, EditSettings(o) PROVE ConfigInv'
    <2>0. operator[o].data \in ConfigFiles /\ disk' = disk
      BY <1>0, <1>3 DEF EditSettings
    <2>1. PICK c \in Edited(operator[o].data) :
              IF Mergeable(c) THEN operator' = [operator EXCEPT ![o] = [step |-> "write", data |-> Merged(c)]]
              ELSE operator' = [operator EXCEPT ![o] = Resting]
      BY <1>3 DEF EditSettings, Turn
    <2>2. c \in ConfigFiles
      BY <2>0, <2>1, EditedFiles
    <2>3. CASE Mergeable(c)
      <3>1. Merged(c) \in ConfigFiles /\ WellWritten(Merged(c)) /\ "write" \in ConfigSteps
        BY <2>2, <2>3, MergedWell DEF ConfigSteps
      <3> QED
        BY <1>a, <1>t, <2>0, <2>1, <2>3, <3>1
    <2>4. CASE ~ Mergeable(c)
      BY <1>a, <1>r, <2>0, <2>1, <2>4
    <2> QED
      BY <2>3, <2>4
  <1>4. ASSUME NEW o \in Operators, ResetSettings(o) PROVE ConfigInv'
    <2>1. operator' = [operator EXCEPT ![o] = [step |-> "write", data |-> Defaults]] /\ disk' = disk
      BY <1>4 DEF ResetSettings, Turn
    <2> QED
      BY <1>a, <1>r, <1>t, <2>1, DefaultsFile
  <1>5. ASSUME NEW o \in Operators, RereadSettings(o) PROVE ConfigInv'
    <2> DEFINE w == Written(operator[o].data, disk)
    <2>1. operator' = [operator EXCEPT ![o] = [step |-> "replace", data |-> w]] /\ disk' = disk
          /\ operator[o].step = "write"
      BY <1>5 DEF RereadSettings, Turn, Step
    <2>2. w \in ConfigFiles /\ WellWritten(w)
      BY <1>0, <2>1, WrittenWell
    <2> HIDE DEF w
    <2> QED
      BY <1>a, <1>r, <1>t, <2>1, <2>2
  <1>6. ASSUME NEW o \in Operators, ReplaceSettings(o) PROVE ConfigInv'
    <2>1. /\ operator' = [operator EXCEPT ![o] = Resting] /\ disk' = operator[o].data
          /\ operator[o].step = "replace"
      BY <1>6 DEF ReplaceSettings, Step
    <2>2. disk' \in ConfigFiles /\ WellWritten(disk')
      BY <1>0, <2>1
    <2>3. Resting \in [step : ConfigSteps, data : ConfigFiles]
      BY <1>r DEF Entry
    <2>4. /\ operator' \in [Operators -> [step : ConfigSteps, data : ConfigFiles]]
          /\ \A x \in Operators : operator'[x].step \in {"write", "replace"} => WellWritten(operator'[x].data)
      BY <1>r, <2>1, <2>3, TurnKeeps
    <2> QED
      BY <2>2, <2>4 DEF ConfigInv, WellWritten
  <1>7. CASE LoadConfig
    BY <1>7 DEF LoadConfig, ConfigInv, WellWritten
  <1>8. CASE QuarantineRuntime
    BY <1>b, <1>8, DefaultsFile DEF QuarantineRuntime
  <1>9. CASE HandEdit
    BY <1>b, <1>9, ConfigAssumption DEF HandEdit
  <1>10. CASE UNCHANGED configvars
    BY <1>10 DEF configvars, ConfigInv, WellWritten
  <1> QED
    BY <1>1, <1>2, <1>3, <1>4, <1>5, <1>6, <1>7, <1>8, <1>9, <1>10 DEF ConfigNext

\* The two readers of a well written file.
LEMMA ReadAlike ==
    ASSUME NEW f \in ConfigFiles, WellWritten(f), f.kind = "config", f.by = "cli"
    PROVE  /\ Validated(Overlay(f)) = RoutingView(Merged(f))
           /\ \A q \in Names : DesktopOrder(Validated(Overlay(f)), <<q>>).priority
                  = Merged([f EXCEPT !.order = "custom", !.priority = <<q>>, !.enabled = TRUE]).priority
  <1> DEFINE seen == IF f.priority = <<>> THEN Catalog ELSE f.priority
             c    == Overlay(f)
             p    == IF f.order = "custom" THEN seen ELSE Modern(seen)
             whole == IF f.enabled THEN WithDefaults(p) ELSE p
             list == IF f.profile = "self_hosted" THEN FreeOrder ELSE whole
             v    == [kind |-> "config", by |-> "cli", profile |-> f.profile, default |-> f.default,
                      enabled |-> f.enabled, order |-> f.order, priority |-> list, disabled |-> f.disabled,
                      other |-> "none"]
  <1>1. c = [kind |-> "config", by |-> "cli", profile |-> f.profile, default |-> f.default,
             enabled |-> f.enabled, order |-> f.order, priority |-> seen, disabled |-> f.disabled, other |-> "none"]
    <2> DEFINE d == Defaults
    <2>1. d = [kind |-> "config", by |-> "cli", profile |-> "standard", default |-> NoName, enabled |-> TRUE,
               order |-> "measured", priority |-> Catalog, disabled |-> {}, other |-> "none"]
      BY DEF Defaults
    <2>2. c = [d EXCEPT !.profile = f.profile, !.default = f.default, !.enabled = f.enabled,
                        !.order = f.order, !.disabled = f.disabled, !.priority = seen]
      BY DEF Overlay
    <2> HIDE DEF d, seen, c
    <2> QED
      BY <2>1, <2>2
  <1>2. Validated(c) = v
    <2>a. c.order = f.order /\ c.enabled = f.enabled /\ c.priority = seen
      BY ONLY <1>1
    <2> HIDE DEF seen, c
    <2>1. Validated(c) = ProfileEffects([c EXCEPT !.priority = whole])
      BY ONLY <2>a DEF Validated
    <2> HIDE DEF whole
    <2>2. [c EXCEPT !.priority = whole]
             = [kind |-> "config", by |-> "cli", profile |-> f.profile, default |-> f.default,
                enabled |-> f.enabled, order |-> f.order, priority |-> whole, disabled |-> f.disabled, other |-> "none"]
      BY <1>1
    <2> DEFINE listed == [c EXCEPT !.priority = whole]
    <2>4. Validated(c) = ProfileEffects(listed)
      BY <2>1
    <2>b. listed = [kind |-> "config", by |-> "cli", profile |-> f.profile, default |-> f.default,
                    enabled |-> f.enabled, order |-> f.order, priority |-> whole, disabled |-> f.disabled,
                    other |-> "none"]
      BY ONLY <2>2
    <2> HIDE DEF listed
    <2>3. /\ listed.profile = f.profile
          /\ [listed EXCEPT !.priority = FreeOrder]
               = [kind |-> "config", by |-> "cli", profile |-> f.profile, default |-> f.default,
                  enabled |-> f.enabled, order |-> f.order, priority |-> FreeOrder, disabled |-> f.disabled,
                  other |-> "none"]
      BY ONLY <2>b
    <2>5. CASE f.profile = "self_hosted"
      <3>1. list = FreeOrder
        BY <2>5
      <3>2. ProfileEffects(listed) = [listed EXCEPT !.priority = FreeOrder]
        BY ONLY <2>3, <2>5 DEF ProfileEffects
      <3> HIDE DEF list
      <3> QED
        BY ONLY <2>3, <2>4, <3>1, <3>2 DEF v
    <2>6. CASE f.profile # "self_hosted"
      <3>1. list = whole
        BY <2>6
      <3>2. ProfileEffects(listed) = listed
        BY ONLY <2>3, <2>6 DEF ProfileEffects
      <3> HIDE DEF list
      <3> QED
        BY ONLY <2>4, <2>b, <3>1, <3>2 DEF v
    <2> QED
      BY <2>5, <2>6
  <1>3. PICK merged \in Seq(ListedNames) :
              /\ Merged(f) = Relisted(f, merged)
              /\ f.profile = "self_hosted" => merged = FreeOrder
              /\ f.profile # "self_hosted" =>
                    /\ merged # <<>>
                    /\ f.priority = <<>> => merged = Catalog
                    /\ f.priority # <<>> =>
                          LET q == IF f.order = "custom" THEN f.priority ELSE Modern(f.priority)
                          IN  merged = IF f.enabled THEN WithDefaults(q) ELSE q
    BY MergedShape
  <1>4. merged = list
    BY <1>3 DEF WellWritten
  <1>5. RoutingView(Merged(f)) = v
    <2>1. f = [kind |-> "config", by |-> "cli", profile |-> f.profile, default |-> f.default,
               enabled |-> f.enabled, order |-> f.order, priority |-> f.priority, disabled |-> f.disabled,
               other |-> f.other]
      BY DEF ConfigFiles
    <2> HIDE DEF list
    <2>2. Merged(f) = [kind |-> "config", by |-> "cli", profile |-> f.profile, default |-> f.default,
                       enabled |-> f.enabled, order |-> f.order, priority |-> list, disabled |-> f.disabled,
                       other |-> f.other]
      BY <1>3, <1>4, <2>1 DEF Relisted
    <2> DEFINE m == Merged(f)
    <2>3. RoutingView(m) = [m EXCEPT !.by = "cli", !.other = "none"]
      BY DEF RoutingView
    <2> HIDE DEF m
    <2>5. m = [kind |-> "config", by |-> "cli", profile |-> f.profile, default |-> f.default,
               enabled |-> f.enabled, order |-> f.order, priority |-> list, disabled |-> f.disabled,
               other |-> f.other]
      BY <2>2 DEF m
    <2>4. [m EXCEPT !.by = "cli", !.other = "none"] = v
      <3> HIDE DEF m
      <3>1. [m EXCEPT !.by = "cli"] = m
        BY <2>5
      <3>2. [m EXCEPT !.other = "none"] = v
        BY <2>5 DEF v
      <3>3. [m EXCEPT !.by = "cli", !.other = "none"] = [[m EXCEPT !.by = "cli"] EXCEPT !.other = "none"]
        OBVIOUS
      <3> QED
        BY <3>1, <3>2, <3>3
    <2> QED
      BY <2>3, <2>4 DEF m
  <1>6. ASSUME NEW q \in Names
        PROVE  DesktopOrder(Validated(Overlay(f)), <<q>>).priority
                  = Merged([f EXCEPT !.order = "custom", !.priority = <<q>>, !.enabled = TRUE]).priority
    <2> DEFINE typed == [f EXCEPT !.order = "custom", !.priority = <<q>>, !.enabled = TRUE]
               mine  == IF f.profile = "self_hosted" THEN FreeOrder ELSE WithDefaults(<<q>>)
    <2>1. <<q>> \in Seq(ListedNames) /\ <<q>> # <<>>
      BY DEF ListedNames
    <2>2. /\ typed \in ConfigFiles /\ typed.profile = f.profile /\ typed.order = "custom"
          /\ typed.priority = <<q>> /\ typed.enabled = TRUE
      BY <2>1 DEF ConfigFiles
    <2> HIDE DEF typed
    <2>3. PICK stored \in Seq(ListedNames) :
              /\ Merged(typed) = Relisted(typed, stored)
              /\ typed.profile = "self_hosted" => stored = FreeOrder
              /\ typed.profile # "self_hosted" => stored = WithDefaults(<<q>>)
      BY <2>1, <2>2, MergedShape
    <2>4. Merged(typed).priority = mine
      BY <2>2, <2>3, ListChanged
    <2>5. DesktopOrder(v, <<q>>).priority = mine
      <3> HIDE DEF list
      <3> QED
        BY DEF DesktopOrder, ProfileEffects
    <2> HIDE DEF v, mine
    <2>6. Validated(Overlay(f)) = v
      BY ONLY <1>2
    <2> QED
      BY ONLY <2>4, <2>5, <2>6 DEF typed
  <1> HIDE DEF v, c
  <1> QED
    BY <1>2, <1>5, <1>6 DEF c

\* A file the setup commands wrote is one requests accept, and both readers take the same
\* settings from it, whatever commands ran beside each other and whatever a hand left in
\* between (_load_behavior_config, _write_behavior_config; load_config, _apply_desktop_settings).
THEOREM OwnFileIsRead == ConfigSpec => []OwnFileReadAlike
  <1>1. ConfigInv => OwnFileReadAlike
    <2> SUFFICES ASSUME ConfigInv, disk.kind = "config", disk.by = "cli", disk.other # "refused"
                 PROVE  /\ Accepted(disk) /\ Mergeable(disk)
                        /\ Validated(Overlay(disk)) = RoutingView(Merged(disk))
                        /\ \A p \in Names : DesktopOrder(Validated(Overlay(disk)), <<p>>).priority
                               = Merged([disk EXCEPT !.order = "custom", !.priority = <<p>>, !.enabled = TRUE]).priority
      BY DEF OwnFileReadAlike
    <2>1. disk \in ConfigFiles /\ WellWritten(disk)
      BY DEF ConfigInv
    <2>2. Accepted(disk) /\ Mergeable(disk)
      BY <2>1 DEF Accepted, Mergeable, WellWritten
    <2> QED
      BY <2>1, <2>2, ReadAlike
  <1> QED
    BY <1>1, ConfigInitOK, ConfigNextOK, PTL DEF ConfigSpec

(***************************************************************************)
(* The operator's receipt journal (receipts.py)                             *)
(***************************************************************************)
LEMMA NothingHasNoBytes == BytesOf(<<>>) = 0
  <1> DEFINE Sum(s, f) == f = [i \in 0 .. Len(s) |-> IF i = 0 THEN 0 ELSE f[i - 1] + SizeOf[s[i]]]
             none == [i \in {0} |-> 0]
             sum == CHOOSE f : Sum(<<>>, f)
  <1>1. Sum(<<>>, none)
    <2>1. 0 .. Len(<<>>) = {0}
      OBVIOUS
    <2> QED
      BY <2>1
  <1>2. Sum(<<>>, sum)
    BY <1>1
  <1>3. sum[0] = 0
    BY <1>2
  <1>4. BytesOf(<<>>) = sum[0]
    BY DEF BytesOf, Total
  <1> QED
    BY <1>3, <1>4

\* The newest n lines of a file are lines of it, in their order.
LEMMA NewestShape ==
    ASSUME NEW N, NEW s \in Seq(N), NEW n \in 0 .. Len(s)
    PROVE  /\ Newest(s, n) \in Seq(N)
           /\ \A k \in DOMAIN Newest(s, n) : \E i \in DOMAIN s : Newest(s, n)[k] = s[i]
           /\ IsInjective(s) => IsInjective(Newest(s, n))
  <1> DEFINE from == Len(s) - n
             t    == Newest(s, n)
  <1>1. Len(s) \in Nat /\ n \in Nat /\ n <= Len(s) /\ from \in Nat /\ from + n = Len(s)
    OBVIOUS
  <1>2. t = SubSeq(s, from + 1, Len(s))
    BY DEF Newest
  <1> HIDE DEF t
  <1>3. t \in Seq(N) /\ Len(t) = n /\ \A k \in 1 .. n : t[k] = s[from + k] /\ from + k \in DOMAIN s
    <2>1. \A k \in 1 .. n : from + k \in 1 .. Len(s) /\ s[from + k] \in N
      BY <1>1
    <2>2. t = [k \in 1 .. n |-> s[from + k]]
      BY <1>1, <1>2
    <2> HIDE DEF from
    <2> QED
      BY <1>1, <2>1, <2>2
  <1>4. ASSUME IsInjective(s), NEW k \in 1 .. n, NEW m \in 1 .. n, t[k] = t[m] PROVE k = m
    <2>1. from + k = from + m
      BY <1>3, <1>4 DEF IsInjective
    <2> QED
      BY <1>1, <2>1
  <1> HIDE DEF from
  <1>5. DOMAIN t = 1 .. n
    BY <1>3
  <1> QED
    BY <1>3, <1>4, <1>5 DEF IsInjective, t

\* Retention keeps lines of the file, and none of them twice.
LEMMA RetainedShape ==
    ASSUME NEW s \in Seq(Receipts), NEW records \in 0 .. MaxRecords, NEW bytes \in Nat
    PROVE  /\ Retained(s, records, bytes) \in Seq(Receipts)
           /\ \A k \in DOMAIN Retained(s, records, bytes) : \E i \in DOMAIN s : Retained(s, records, bytes)[k] = s[i]
           /\ IsInjective(s) => IsInjective(Retained(s, records, bytes))
  <1> DEFINE live  == Among(s, Unexpired)
             few   == IF Len(live) > MaxRecords THEN Newest(live, records) ELSE live
             limit == IF BytesOf(few) > MaxBytes THEN bytes ELSE MaxBytes
             fit   == {n \in 0 .. Len(few) : BytesOf(Newest(few, n)) <= limit}
             most  == CHOOSE n \in fit : \A m \in fit : m <= n
  <1>0. MaxRecords \in Nat /\ MaxBytes \in Nat
    BY JournalAssumption
  <1>1. /\ live \in Seq(Receipts) /\ (IsInjective(s) => IsInjective(live))
        /\ \A k \in DOMAIN live : \E i \in DOMAIN s : live[k] = s[i]
    BY AmongShape
  <1> HIDE DEF live
  <1>2. /\ few \in Seq(Receipts) /\ (IsInjective(live) => IsInjective(few))
        /\ \A k \in DOMAIN few : \E i \in DOMAIN live : few[k] = live[i]
    <2>1. CASE Len(live) > MaxRecords
      <3>1. records \in 0 .. Len(live)
        BY <1>0, <1>1, <2>1
      <3> QED
        BY <1>1, <2>1, <3>1, NewestShape
    <2>2. CASE ~ (Len(live) > MaxRecords)
      BY <1>1, <2>2
    <2> QED
      BY <2>1, <2>2
  <1> HIDE DEF few
  <1>3. 0 \in fit
    <2>1. Newest(few, 0) = <<>>
      BY <1>2 DEF Newest
    <2>2. limit \in Nat
      BY <1>0
    <2>3. BytesOf(Newest(few, 0)) <= limit
      BY <2>1, <2>2, NothingHasNoBytes
    <2> HIDE DEF limit
    <2> QED
      BY <1>2, <2>3
  <1>4. most \in 0 .. Len(few)
    <2>1. Len(few) \in Nat /\ fit \in SUBSET (0 .. Len(few)) /\ fit # {}
      BY <1>2, <1>3
    <2> HIDE DEF fit
    <2>2. PICK v \in fit : \A w \in fit : v >= w
      BY <2>1, Greatest
    <2>3. \A w \in fit : w <= v
      BY <2>1, <2>2
    <2>4. most \in fit
      BY <2>3
    <2> QED
      BY <2>1, <2>4
  <1>5. Retained(s, records, bytes) = Newest(few, most)
    BY DEF Retained, live, few
  <1> HIDE DEF most
  <1> QED
    BY <1>1, <1>2, <1>4, <1>5, NewestShape

\* In particular both times the journal is cut: to its limits, and to make room for a line.
LEMMA KeptShape ==
    ASSUME NEW s \in Seq(Receipts), NEW kept,
           \/ kept = Retained(s, MaxRecords, MaxBytes)
           \/ kept = Retained(s, MaxRecords - RecordSlack, MaxBytes - ByteSlack)
    PROVE  /\ kept \in Seq(Receipts) /\ (IsInjective(s) => IsInjective(kept))
           /\ \A k \in DOMAIN kept : \E i \in DOMAIN s : kept[k] = s[i]
  <1>1. PICK records \in 0 .. MaxRecords, bytes \in Nat : kept = Retained(s, records, bytes)
    <2>1. /\ MaxRecords \in 0 .. MaxRecords /\ MaxRecords - RecordSlack \in 0 .. MaxRecords
          /\ MaxBytes \in Nat /\ MaxBytes - ByteSlack \in Nat
      BY JournalAssumption
    <2> QED BY ONLY <2>1, kept = Retained(s, MaxRecords, MaxBytes)
                          \/ kept = Retained(s, MaxRecords - RecordSlack, MaxBytes - ByteSlack)
  <1> DEFINE shaped(t) == /\ t \in Seq(Receipts)
                          /\ \A k \in DOMAIN t : \E i \in DOMAIN s : t[k] = s[i]
                          /\ IsInjective(s) => IsInjective(t)
  <1>2. shaped(Retained(s, records, bytes))
    BY RetainedShape
  <1> HIDE DEF shaped
  <1>3. shaped(kept)
    BY ONLY <1>1, <1>2
  <1> QED BY ONLY <1>3 DEF shaped

-----------------------------------------------------------------------------
\* A list of lines holds each receipt once; a receipt is nowhere in it.
Once(s)       == \A i, j \in DOMAIN s : s[i] = s[j] /\ s[i] # Foreign => i = j
Nowhere(r, s) == \A i \in DOMAIN s : s[i] # r

Lines == Receipts \cup {Foreign}

\* What the holder of the lock has done to the file so far.
WriterSound ==
    /\ writer.step # "free" /\ writer.rec # NoReceipt => fate[writer.rec] = "busy"
    /\ writer.step \in {"fast", "torn", "whole", "ended"} => writer.rec \in Receipts
    /\ writer.step \in {"fast", "torn", "whole"} => journal.lines = writer.before
    /\ writer.step = "ended" => journal.lines = Append(writer.before, writer.rec) /\ journal.tail = "none"
    /\ writer.step = "torn" => journal.tail = "torn" /\ journal.of = writer.rec
    /\ writer.step = "whole" => journal.tail = "whole" /\ journal.of = writer.rec
    /\ journal.tail = "whole" => journal.of \in Receipts

\* A receipt is in the file at most once, and not before it is written.
LinesOnce ==
    ~ uncut =>
        /\ Once(Readable)
        /\ \A r \in Receipts : fate[r] \in {"new", "waiting"} => Nowhere(r, Readable)
        /\ writer.step \in {"fast", "read"} /\ writer.rec # NoReceipt => Nowhere(writer.rec, Readable)
        /\ writer.step \in {"torn", "whole", "ended"} => Nowhere(writer.rec, writer.before) /\ Once(writer.before)

JournalInv == JournalTypeOK /\ WriterSound /\ ForeignExact /\ LinesOnce

\* What the file is made of.
LEMMA JournalShape ==
    ASSUME JournalTypeOK, WriterSound
    PROVE  /\ journal.lines \in Seq(Lines) /\ writer.before \in Seq(Lines)
           /\ Readable \in Seq(Lines)
           /\ journal.tail # "whole" => Readable = journal.lines
           /\ journal.tail = "whole" => Readable = Append(journal.lines, journal.of) /\ journal.of \in Receipts
  <1>1. journal.lines \in Seq(Lines) /\ writer.before \in Seq(Lines)
    BY DEF JournalTypeOK, Lines
  <1>2. journal.tail = "whole" => journal.of \in Receipts
    BY DEF WriterSound
  <1>3. \A r \in Receipts : Append(journal.lines, r) \in Seq(Lines)
    BY <1>1 DEF Lines
  <1> QED
    BY <1>1, <1>2, <1>3 DEF Readable

LEMMA AppendOnce ==
    ASSUME NEW s \in Seq(Lines), NEW l \in Lines
    PROVE  /\ Append(s, l) \in Seq(Lines)
           /\ Once(Append(s, l)) => Once(s)
           /\ Once(s) /\ (l = Foreign \/ Nowhere(l, s)) => Once(Append(s, l))
           /\ \A r : Nowhere(r, Append(s, l)) <=> Nowhere(r, s) /\ r # l
           /\ l # Foreign => ForeignLines(Append(s, l)) = ForeignLines(s)
           /\ l = Foreign => ForeignLines(Append(s, l)) = ForeignLines(s) \cup {Len(s) + 1}
           /\ Len(s) + 1 \notin ForeignLines(s) /\ IsFiniteSet(ForeignLines(s))
  <1> DEFINE t == Append(s, l)
  <1>1. /\ t \in Seq(Lines) /\ DOMAIN t = DOMAIN s \cup {Len(s) + 1} /\ Len(s) + 1 \notin DOMAIN s
        /\ t[Len(s) + 1] = l /\ \A i \in DOMAIN s : t[i] = s[i]
    OBVIOUS
  <1>2. IsFiniteSet(ForeignLines(s))
    <2>1. Len(s) \in Nat /\ DOMAIN s = 1 .. Len(s)
      OBVIOUS
    <2>2. ForeignLines(s) \in SUBSET DOMAIN s
      BY DEF ForeignLines
    <2>3. IsFiniteSet(1 .. Len(s))
      BY <2>1, FS_Interval
    <2> QED
      BY <2>1, <2>2, <2>3, FS_Subset
  <1> HIDE DEF t
  <1>3. Once(t) => Once(s)
    BY <1>1 DEF Once
  <1>4. Once(s) /\ (l = Foreign \/ Nowhere(l, s)) => Once(t)
    <2> SUFFICES ASSUME Once(s), l = Foreign \/ Nowhere(l, s), NEW i \in DOMAIN t, NEW j \in DOMAIN t,
                        t[i] = t[j], t[i] # Foreign
                 PROVE  i = j
      BY DEF Once
    <2>1. CASE i \in DOMAIN s /\ j \in DOMAIN s
      BY <1>1, <2>1 DEF Once
    <2>2. CASE i \in DOMAIN s /\ j = Len(s) + 1
      BY <1>1, <2>2 DEF Nowhere
    <2>3. CASE i = Len(s) + 1 /\ j \in DOMAIN s
      BY <1>1, <2>3 DEF Nowhere
    <2> QED
      BY <1>1, <2>1, <2>2, <2>3
  <1>5. \A r : Nowhere(r, t) <=> Nowhere(r, s) /\ r # l
    BY <1>1 DEF Nowhere
  <1>6. /\ l # Foreign => ForeignLines(t) = ForeignLines(s)
        /\ l = Foreign => ForeignLines(t) = ForeignLines(s) \cup {Len(s) + 1}
        /\ Len(s) + 1 \notin ForeignLines(s)
    BY <1>1 DEF ForeignLines
  <1> QED
    BY <1>1, <1>2, <1>3, <1>4, <1>5, <1>6 DEF t

LEMMA JournalInitOK == JournalInit => JournalInv
  <1> SUFFICES ASSUME JournalInit PROVE JournalInv
    OBVIOUS
  <1>0. Foreign \notin Receipts /\ NoReceipt \notin Receipts
    BY JournalAssumption
  <1>1. /\ journal.lines = <<>> /\ journal.tail = "none" /\ writer.step = "free" /\ Readable = <<>>
    BY DEF JournalInit, Free, Readable
  <1>2. JournalTypeOK
    <2>1. <<>> \in Seq(Receipts \cup {Foreign})
      OBVIOUS
    <2>2. journal \in [there : BOOLEAN, lines : Seq(Receipts \cup {Foreign}),
                       tail : {"none", "torn", "whole"}, of : Receipts \cup {NoReceipt}]
      BY <2>1 DEF JournalInit
    <2>3. writer \in [step : Steps, rec : Receipts \cup {NoReceipt}, before : Seq(Receipts \cup {Foreign})]
      BY <2>1 DEF JournalInit, Free, Steps
    <2>4. fate \in [Receipts -> Fates]
      BY DEF JournalInit, Fates
    <2> QED
      BY <2>2, <2>3, <2>4 DEF JournalInit, JournalTypeOK
  <1>3. WriterSound /\ LinesOnce
    BY <1>1 DEF WriterSound, LinesOnce, Once, Nowhere
  <1>4. ForeignExact
    <2>1. ForeignLines(journal.lines) = {}
      BY <1>1 DEF ForeignLines
    <2> QED
      BY <2>1, FS_EmptySet DEF ForeignExact, JournalInit
  <1> QED
    BY <1>2, <1>3, <1>4 DEF JournalInv

\* The lock is given up and the file stays as it is.
LEMMA UnlockKeeps ==
    ASSUME JournalInv, NEW outcome \in {"stored", "refused", "lost"}, Unlock(outcome),
           UNCHANGED <<journal, stamp, clock, alien, uncut>>
    PROVE  JournalInv'
  <1>0. JournalTypeOK /\ WriterSound /\ ForeignExact /\ LinesOnce
    BY DEF JournalInv
  <1>1. /\ writer' = Free /\ Free.step = "free" /\ fate' \in [Receipts -> Fates]
        /\ Free \in [step : Steps, rec : Receipts \cup {NoReceipt}, before : Seq(Receipts \cup {Foreign})]
    BY <1>0 DEF Unlock, Free, JournalTypeOK, Fates, Steps
  <1>2. \A r \in Receipts : fate'[r] \in {"new", "waiting"} => fate[r] \in {"new", "waiting"}
    BY DEF Unlock
  <1>3. JournalTypeOK'
    BY <1>0, <1>1 DEF JournalTypeOK
  <1>4. WriterSound'
    BY <1>0, <1>1 DEF WriterSound
  <1>5. Readable' = Readable
    BY DEF Readable
  <1>6. LinesOnce'
    BY <1>0, <1>1, <1>2, <1>5 DEF LinesOnce
  <1>7. ForeignExact'
    BY <1>0 DEF ForeignExact
  <1> QED
    BY <1>3, <1>4, <1>6, <1>7 DEF JournalInv

\* The holder takes a step that leaves the file and the receipts alone.
LEMMA StepShape ==
    ASSUME JournalTypeOK, NEW place \in Steps, At(place)
    PROVE  /\ writer'.step = place /\ writer'.rec = writer.rec /\ writer'.before = writer.before
           /\ writer' \in [step : Steps, rec : Receipts \cup {NoReceipt}, before : Seq(Receipts \cup {Foreign})]
  BY DEF JournalTypeOK, At

JournalFiles == [there : BOOLEAN, lines : Seq(Lines), tail : {"none", "torn", "whole"}, of : Receipts \cup {NoReceipt}]

LEMMA EndedShape ==
    ASSUME NEW list \in Seq(Lines)
    PROVE  /\ Ended(list) \in JournalFiles /\ Ended(list).lines = list /\ Ended(list).tail = "none"
           /\ Ended(list).of = NoReceipt
  BY DEF Ended, JournalFiles

\* The lines stay and the file ends otherwise.
LEMMA TailShape ==
    ASSUME journal \in JournalFiles, NEW tail \in {"none", "torn", "whole"}, NEW of \in Receipts \cup {NoReceipt}
    PROVE  /\ [journal EXCEPT !.tail = tail, !.of = of] \in JournalFiles
           /\ [journal EXCEPT !.tail = tail, !.of = of].lines = journal.lines
           /\ [journal EXCEPT !.tail = tail, !.of = of].tail = tail
           /\ [journal EXCEPT !.tail = tail, !.of = of].of = of
           /\ [journal EXCEPT !.tail = tail] \in JournalFiles
           /\ [journal EXCEPT !.tail = tail].lines = journal.lines
           /\ [journal EXCEPT !.tail = tail].tail = tail
           /\ [journal EXCEPT !.tail = tail].of = journal.of
  BY DEF JournalFiles

LEMMA WriteSomeKeeps == JournalInv /\ WriteSome => JournalInv'
  <1> SUFFICES ASSUME JournalInv, WriteSome PROVE JournalInv'
    OBVIOUS
  <1>0. JournalTypeOK /\ WriterSound /\ ForeignExact /\ LinesOnce /\ journal \in JournalFiles
    BY DEF JournalInv, JournalTypeOK, JournalFiles, Lines
  <1>1. /\ writer.step = "fast" /\ journal.tail = "none" /\ At("torn")
        /\ journal' = [journal EXCEPT !.tail = "torn", !.of = writer.rec]
        /\ UNCHANGED <<fate, stamp, clock, alien, uncut>>
    BY DEF WriteSome, Fast
  <1>2. writer.rec \in Receipts /\ journal.lines = writer.before /\ writer.rec # NoReceipt
    BY <1>0, <1>1, JournalAssumption DEF WriterSound
  <1>3. /\ journal' \in JournalFiles /\ journal'.lines = journal.lines /\ journal'.tail = "torn"
        /\ journal'.of = writer.rec
    BY <1>0, <1>1, <1>2, TailShape
  <1>4. /\ writer'.step = "torn" /\ writer'.rec = writer.rec /\ writer'.before = writer.before
        /\ writer' \in [step : Steps, rec : Receipts \cup {NoReceipt}, before : Seq(Receipts \cup {Foreign})]
    BY <1>0, <1>1, StepShape DEF Steps
  <1>5. Readable = journal.lines /\ Readable' = journal.lines
    BY <1>1, <1>3 DEF Readable
  <1>6. JournalTypeOK'
    BY <1>0, <1>1, <1>3, <1>4 DEF JournalTypeOK, JournalFiles, Lines
  <1>7. WriterSound'
    BY <1>0, <1>1, <1>2, <1>3, <1>4 DEF WriterSound
  <1>8. LinesOnce'
    BY <1>0, <1>1, <1>2, <1>4, <1>5 DEF LinesOnce
  <1>9. ForeignExact'
    BY <1>0, <1>1, <1>3 DEF ForeignExact
  <1> QED
    BY <1>6, <1>7, <1>8, <1>9 DEF JournalInv

LEMMA WriteLineKeeps == JournalInv /\ WriteLine => JournalInv'
  <1> SUFFICES ASSUME JournalInv, WriteLine PROVE JournalInv'
    OBVIOUS
  <1>0. JournalTypeOK /\ WriterSound /\ ForeignExact /\ LinesOnce /\ journal \in JournalFiles
    BY DEF JournalInv, JournalTypeOK, JournalFiles, Lines
  <1>1. /\ writer.step = "torn" /\ At("whole") /\ UNCHANGED <<fate, stamp, clock, alien, uncut>>
        /\ journal' = IF journal.tail = "torn" THEN [journal EXCEPT !.tail = "whole"] ELSE journal
    BY DEF WriteLine
  <1>2. /\ writer.rec \in Receipts /\ journal.lines = writer.before /\ journal.tail = "torn"
        /\ journal.of = writer.rec
    BY <1>0, <1>1 DEF WriterSound
  <1>3. /\ journal' \in JournalFiles /\ journal'.lines = journal.lines /\ journal'.tail = "whole"
        /\ journal'.of = writer.rec
    BY <1>0, <1>1, <1>2, TailShape
  <1>4. /\ writer'.step = "whole" /\ writer'.rec = writer.rec /\ writer'.before = writer.before
        /\ writer' \in [step : Steps, rec : Receipts \cup {NoReceipt}, before : Seq(Receipts \cup {Foreign})]
    BY <1>0, <1>1, StepShape DEF Steps
  <1>5. Readable = journal.lines /\ Readable' = Append(journal.lines, writer.rec)
    BY <1>2, <1>3 DEF Readable
  <1>6. JournalTypeOK'
    BY <1>0, <1>1, <1>3, <1>4 DEF JournalTypeOK, JournalFiles, Lines
  <1>7. WriterSound'
    BY <1>0, <1>1, <1>2, <1>3, <1>4 DEF WriterSound
  <1>8. LinesOnce'
    <2> SUFFICES ASSUME ~ uncut PROVE
            /\ Once(Readable')
            /\ \A r \in Receipts : fate[r] \in {"new", "waiting"} => Nowhere(r, Readable')
            /\ Nowhere(writer.rec, writer.before) /\ Once(writer.before)
      BY <1>1, <1>4 DEF LinesOnce
    <2>1. /\ Nowhere(writer.rec, journal.lines) /\ Once(journal.lines)
          /\ \A r \in Receipts : fate[r] \in {"new", "waiting"} => Nowhere(r, journal.lines)
      BY <1>0, <1>1, <1>2, <1>5 DEF LinesOnce
    <2>2. journal.lines \in Seq(Lines) /\ writer.rec \in Lines
      BY <1>0, <1>2, JournalShape DEF Lines
    <2>3. fate[writer.rec] = "busy"
      BY <1>0, <1>1, <1>2, JournalAssumption DEF WriterSound
    <2>4. Once(Append(journal.lines, writer.rec))
      BY <2>1, <2>2, AppendOnce
    <2>5. \A r \in Receipts : fate[r] \in {"new", "waiting"} => Nowhere(r, Append(journal.lines, writer.rec))
      BY <2>1, <2>2, <2>3, AppendOnce
    <2> QED
      BY <1>2, <1>5, <2>1, <2>4, <2>5
  <1>9. ForeignExact'
    BY <1>0, <1>1, <1>3 DEF ForeignExact
  <1> QED
    BY <1>6, <1>7, <1>8, <1>9 DEF JournalInv

LEMMA EndLineKeeps == JournalInv /\ EndLine => JournalInv'
  <1> SUFFICES ASSUME JournalInv, EndLine PROVE JournalInv'
    OBVIOUS
  <1>0. JournalTypeOK /\ WriterSound /\ ForeignExact /\ LinesOnce /\ journal \in JournalFiles
    BY DEF JournalInv, JournalTypeOK, JournalFiles, Lines
  <1>1. /\ writer.step = "whole" /\ At("ended") /\ UNCHANGED <<fate, stamp, clock, alien, uncut>>
        /\ journal' = IF journal.tail = "whole" THEN Ended(Append(journal.lines, journal.of)) ELSE journal
    BY DEF EndLine
  <1>2. /\ writer.rec \in Receipts /\ journal.lines = writer.before /\ journal.tail = "whole"
        /\ journal.of = writer.rec
    BY <1>0, <1>1 DEF WriterSound
  <1> DEFINE longer == Append(journal.lines, writer.rec)
  <1>a. /\ longer \in Seq(Lines) /\ ForeignLines(longer) = ForeignLines(journal.lines)
    <2>1. journal.lines \in Seq(Lines) /\ writer.rec \in Lines /\ writer.rec # Foreign
      BY <1>0, <1>2, JournalShape, JournalAssumption DEF Lines
    <2> QED
      BY <2>1, AppendOnce
  <1>3. /\ journal' \in JournalFiles /\ journal'.lines = longer /\ journal'.tail = "none"
    BY <1>1, <1>2, <1>a, EndedShape
  <1>4. /\ writer'.step = "ended" /\ writer'.rec = writer.rec /\ writer'.before = writer.before
        /\ writer' \in [step : Steps, rec : Receipts \cup {NoReceipt}, before : Seq(Receipts \cup {Foreign})]
    BY <1>0, <1>1, StepShape DEF Steps
  <1>5. Readable = longer /\ Readable' = longer
    BY <1>2, <1>3 DEF Readable
  <1>6. JournalTypeOK'
    BY <1>0, <1>1, <1>3, <1>4 DEF JournalTypeOK, JournalFiles, Lines
  <1>7. WriterSound'
    BY <1>0, <1>1, <1>2, <1>3, <1>4 DEF WriterSound
  <1>8. LinesOnce'
    BY <1>0, <1>1, <1>4, <1>5 DEF LinesOnce
  <1>9. ForeignExact'
    BY <1>0, <1>1, <1>3, <1>a DEF ForeignExact
  <1> QED
    BY <1>6, <1>7, <1>8, <1>9 DEF JournalInv

LEMMA WriteFailsKeeps == JournalInv /\ WriteFails => JournalInv'
  <1> SUFFICES ASSUME JournalInv, WriteFails PROVE JournalInv'
    OBVIOUS
  <1>0. JournalTypeOK /\ WriterSound /\ ForeignExact /\ LinesOnce /\ journal \in JournalFiles
    BY DEF JournalInv, JournalTypeOK, JournalFiles, Lines
  <1>1. /\ writer.step \in {"torn", "whole", "ended"} /\ At("read") /\ UNCHANGED <<fate, stamp, clock, alien>>
    BY DEF WriteFails
  <1>2. PICK ok \in BOOLEAN : CutBack(ok)
    BY DEF WriteFails
  <1>3. writer.rec \in Receipts /\ writer.rec # NoReceipt
    BY <1>0, <1>1, JournalAssumption DEF WriterSound
  <1>4. /\ writer'.step = "read" /\ writer'.rec = writer.rec /\ writer'.before = writer.before
        /\ writer' \in [step : Steps, rec : Receipts \cup {NoReceipt}, before : Seq(Receipts \cup {Foreign})]
    BY <1>0, <1>1, StepShape DEF Steps
  <1>5. writer.before \in Seq(Lines) /\ writer.rec \in Lines /\ writer.rec # Foreign /\ journal.lines \in Seq(Lines)
    BY <1>0, <1>3, JournalShape, JournalAssumption DEF Lines
  <1>6. CASE ok
    <2>1. journal' = Ended(writer.before) /\ uncut' = uncut
      BY <1>0, <1>2, <1>6 DEF CutBack, JournalTypeOK
    <2>2. /\ journal' \in JournalFiles /\ journal'.lines = writer.before /\ journal'.tail = "none"
      BY <1>5, <2>1, EndedShape
    <2>3. Readable' = writer.before
      BY <2>2 DEF Readable
    <2>4. JournalTypeOK'
      BY <1>0, <1>1, <1>4, <2>1, <2>2 DEF JournalTypeOK, JournalFiles, Lines
    <2>5. WriterSound'
      BY <1>0, <1>1, <1>3, <1>4, <2>2 DEF WriterSound
    <2>6. journal.lines = writer.before \/ journal.lines = Append(writer.before, writer.rec)
      BY <1>0, <1>1 DEF WriterSound
    <2>7. LinesOnce'
      <3> SUFFICES ASSUME ~ uncut PROVE
              /\ Once(writer.before)
              /\ \A r \in Receipts : fate[r] \in {"new", "waiting"} => Nowhere(r, writer.before)
              /\ Nowhere(writer.rec, writer.before)
        BY <1>1, <1>4, <2>1, <2>3 DEF LinesOnce
      <3>0. /\ journal.tail # "whole" => Readable = journal.lines
            /\ journal.tail = "whole" => Readable = Append(journal.lines, journal.of) /\ journal.of \in Receipts
        BY ONLY <1>0, JournalShape
      <3>1. Once(writer.before) /\ Nowhere(writer.rec, writer.before)
        BY <1>0, <1>1 DEF LinesOnce
      <3>2. ASSUME NEW r \in Receipts, fate[r] \in {"new", "waiting"} PROVE Nowhere(r, writer.before)
        <4>1. Nowhere(r, Readable)
          BY <1>0, <3>2 DEF LinesOnce
        <4>2. Nowhere(r, journal.lines)
          <5>1. CASE journal.tail = "whole"
            <6>1. Readable = Append(journal.lines, journal.of) /\ journal.of \in Lines
              BY <3>0, <5>1 DEF Lines
            <6> QED
              BY <1>5, <4>1, <6>1, AppendOnce
          <5>2. CASE journal.tail # "whole"
            BY ONLY <3>0, <4>1, <5>2
          <5> QED
            BY <5>1, <5>2
        <4> QED
          <5>1. CASE journal.lines = writer.before
            BY ONLY <4>2, <5>1
          <5>2. CASE journal.lines = Append(writer.before, writer.rec)
            <6>1. Nowhere(r, Append(writer.before, writer.rec))
              BY ONLY <4>2, <5>2
            <6> QED
              BY ONLY <1>5, <6>1, AppendOnce
          <5> QED
            BY <2>6, <5>1, <5>2
      <3> QED
        BY <3>1, <3>2
    <2>8. ForeignExact'
      <3>1. ForeignLines(journal.lines) = ForeignLines(writer.before)
        BY <1>5, <2>6, AppendOnce
      <3> QED
        BY <1>0, <1>1, <2>2, <3>1 DEF ForeignExact
    <2> QED
      BY <2>4, <2>5, <2>7, <2>8 DEF JournalInv
  <1>7. CASE ~ ok
    <2>1. journal' = journal /\ uncut' = TRUE
      BY <1>2, <1>7 DEF CutBack
    <2>2. JournalTypeOK'
      BY <1>0, <1>1, <1>4, <2>1 DEF JournalTypeOK
    <2>3. WriterSound'
      BY <1>0, <1>1, <1>3, <1>4, <2>1 DEF WriterSound
    <2>4. LinesOnce' /\ ForeignExact'
      BY <1>0, <1>1, <2>1 DEF LinesOnce, ForeignExact
    <2> QED
      BY <2>2, <2>3, <2>4 DEF JournalInv
  <1> QED
    BY <1>6, <1>7

LEMMA LockKeeps ==
    ASSUME JournalInv, NEW rec \in Receipts \cup {NoReceipt}, NEW place \in {"fast", "read"},
           rec = NoReceipt => place = "read" /\ fate' = fate,
           rec # NoReceipt => place = "fast" /\ fate[rec] = "waiting" /\ fate' = [fate EXCEPT ![rec] = "busy"],
           writer' = [step |-> place, rec |-> rec, before |-> journal.lines],
           UNCHANGED <<journal, stamp, clock, alien, uncut>>
    PROVE  JournalInv'
  <1>0. /\ JournalTypeOK /\ WriterSound /\ ForeignExact /\ LinesOnce /\ journal.lines \in Seq(Lines)
        /\ NoReceipt \notin Receipts
    BY JournalShape, JournalAssumption DEF JournalInv
  <1>1. /\ writer'.step = place /\ writer'.rec = rec /\ writer'.before = journal.lines
        /\ writer' \in [step : Steps, rec : Receipts \cup {NoReceipt}, before : Seq(Receipts \cup {Foreign})]
    BY <1>0 DEF Steps, Lines
  <1>2. fate \in [Receipts -> Fates]
    BY <1>0 DEF JournalTypeOK
  <1>3. /\ fate' \in [Receipts -> Fates] /\ (rec # NoReceipt => rec \in Receipts /\ fate'[rec] = "busy")
        /\ \A r \in Receipts : fate'[r] \in {"new", "waiting"} => fate[r] \in {"new", "waiting"}
    <2>1. CASE rec = NoReceipt
      BY <1>2, <2>1
    <2>2. CASE rec # NoReceipt
      BY <1>2, <2>2 DEF Fates
    <2> QED
      BY <2>1, <2>2
  <1>4. JournalTypeOK'
    BY <1>0, <1>1, <1>3 DEF JournalTypeOK
  <1>5. WriterSound'
    BY <1>0, <1>1, <1>3 DEF WriterSound
  <1>6. Readable' = Readable
    BY DEF Readable
  <1>7. LinesOnce'
    BY <1>0, <1>1, <1>3, <1>6 DEF LinesOnce
  <1>8. ForeignExact'
    BY <1>0 DEF ForeignExact
  <1> QED
    BY <1>4, <1>5, <1>7, <1>8 DEF JournalInv

LEMMA AddForeignKeeps == JournalInv /\ AddForeign => JournalInv'
  <1> SUFFICES ASSUME JournalInv, AddForeign PROVE JournalInv'
    OBVIOUS
  <1>0. JournalTypeOK /\ WriterSound /\ ForeignExact /\ LinesOnce /\ journal.lines \in Seq(Lines)
    BY JournalShape DEF JournalInv
  <1>1. /\ writer = Free /\ journal.tail = "none" /\ alien' = alien + 1
        /\ journal' = Ended(Append(journal.lines, Foreign)) /\ UNCHANGED <<writer, fate, stamp, clock, uncut>>
    BY DEF AddForeign
  <1> DEFINE longer == Append(journal.lines, Foreign)
  <1>2. /\ longer \in Seq(Lines) /\ (Once(journal.lines) => Once(longer))
        /\ \A r \in Receipts : Nowhere(r, journal.lines) => Nowhere(r, longer)
        /\ ForeignLines(longer) = ForeignLines(journal.lines) \cup {Len(journal.lines) + 1}
        /\ Len(journal.lines) + 1 \notin ForeignLines(journal.lines)
        /\ IsFiniteSet(ForeignLines(journal.lines))
    <2>1. Foreign \in Lines /\ Foreign \notin Receipts
      BY JournalAssumption DEF Lines
    <2> QED
      BY <1>0, <2>1, AppendOnce
  <1> HIDE DEF longer
  <1>3. journal' \in JournalFiles /\ journal'.lines = longer /\ journal'.tail = "none"
    BY <1>1, <1>2, EndedShape DEF longer
  <1>4. Readable = journal.lines /\ Readable' = longer
    BY <1>1, <1>3 DEF Readable
  <1>5. writer.step = "free" /\ writer.rec = NoReceipt
    BY <1>1 DEF Free
  <1>6. JournalTypeOK'
    BY <1>0, <1>1, <1>3 DEF JournalTypeOK, JournalFiles, Lines
  <1>7. WriterSound'
    BY <1>0, <1>1, <1>3, <1>5 DEF WriterSound
  <1>8. LinesOnce'
    BY <1>0, <1>1, <1>2, <1>4, <1>5 DEF LinesOnce
  <1>9. ForeignExact'
    <2>1. Cardinality(ForeignLines(longer)) = Cardinality(ForeignLines(journal.lines)) + 1
      BY <1>2, FS_AddElement
    <2> QED
      BY <1>0, <1>1, <1>3, <2>1 DEF ForeignExact
  <1> QED
    BY <1>6, <1>7, <1>8, <1>9 DEF JournalInv

LEMMA ReplaceKeeps == JournalInv /\ Replace => JournalInv'
  <1> SUFFICES ASSUME JournalInv, Replace PROVE JournalInv'
    OBVIOUS
  <1>0. JournalTypeOK /\ WriterSound /\ ForeignExact /\ LinesOnce
    BY DEF JournalInv
  <1>1. /\ writer.step = "read" /\ Owned(Readable) /\ journal' = Ended(Kept) /\ At("replaced")
        /\ UNCHANGED <<fate, stamp, clock, alien, uncut>>
    BY DEF Replace
  <1>2. Readable \in Seq(Receipts) /\ Foreign \notin Receipts /\ NoReceipt \notin Receipts
    <2>1. Readable \in Seq(Lines) /\ \A i \in 1 .. Len(Readable) : Readable[i] \in Receipts
      BY <1>0, <1>1, JournalShape DEF Owned
    <2> QED
      BY <2>1, JournalAssumption
  <1>3. writer.rec \in Receipts \cup {NoReceipt}
    BY <1>0 DEF JournalTypeOK
  <1>4. /\ Kept \in Seq(Receipts)
        /\ \A k \in DOMAIN Kept : (\E i \in DOMAIN Readable : Kept[k] = Readable[i])
                                 \/ (writer.rec \in Receipts /\ Kept[k] = writer.rec)
        /\ ~ uncut => Once(Kept)
    <2>1. \A s \in Seq(Receipts) : Once(s) <=> IsInjective(s)
      BY <1>2 DEF Once, IsInjective
    <2>2. CASE writer.rec = NoReceipt
      <3>1. Kept = Retained(Readable, MaxRecords, MaxBytes)
        BY <2>2 DEF Kept
      <3>2. /\ Kept \in Seq(Receipts) /\ (IsInjective(Readable) => IsInjective(Kept))
            /\ \A k \in DOMAIN Kept : \E i \in DOMAIN Readable : Kept[k] = Readable[i]
        BY ONLY <1>2, <3>1, KeptShape
      <3>3. ~ uncut => Once(Kept)
        BY <1>0, <1>2, <2>1, <3>2 DEF LinesOnce
      <3> QED
        BY <3>2, <3>3
    <2>3. CASE writer.rec \in Receipts
      <3> DEFINE longer == Append(Readable, writer.rec)
      <3>1. Kept = Retained(longer, MaxRecords - RecordSlack, MaxBytes - ByteSlack)
        BY <1>2, <2>3 DEF Kept
      <3>2. longer \in Seq(Receipts)
            /\ \A i \in DOMAIN longer : (i \in DOMAIN Readable /\ longer[i] = Readable[i]) \/ longer[i] = writer.rec
        BY <1>2, <2>3
      <3>3. ~ uncut => Once(longer)
        <4>1. Readable \in Seq(Lines) /\ writer.rec \in Lines
          BY <1>0, <2>3, JournalShape DEF Lines
        <4>2. ~ uncut => Once(Readable) /\ Nowhere(writer.rec, Readable)
          BY <1>0, <1>1, <1>2, <2>3 DEF LinesOnce
        <4> QED
          BY <4>1, <4>2, AppendOnce
      <3> HIDE DEF longer
      <3>4. /\ Kept \in Seq(Receipts) /\ (IsInjective(longer) => IsInjective(Kept))
            /\ \A k \in DOMAIN Kept : \E i \in DOMAIN longer : Kept[k] = longer[i]
        BY ONLY <3>1, <3>2, KeptShape
      <3>5. ~ uncut => Once(Kept)
        BY <2>1, <3>2, <3>3, <3>4
      <3> QED
        BY <2>3, <3>2, <3>4, <3>5
    <2> QED
      BY <1>3, <2>2, <2>3
  <1>5. Kept \in Seq(Lines) /\ ForeignLines(Kept) = {}
    <2>1. \A k \in DOMAIN Kept : Kept[k] \in Receipts
      BY <1>4
    <2> QED
      BY <1>2, <1>4, <2>1 DEF ForeignLines, Lines
  <1>6. journal' \in JournalFiles /\ journal'.lines = Kept /\ journal'.tail = "none"
    BY <1>1, <1>5, EndedShape
  <1>7. Readable' = Kept
    BY <1>6 DEF Readable
  <1>8. /\ writer'.step = "replaced" /\ writer'.rec = writer.rec /\ writer'.before = writer.before
        /\ writer' \in [step : Steps, rec : Receipts \cup {NoReceipt}, before : Seq(Receipts \cup {Foreign})]
    BY <1>0, <1>1, StepShape DEF Steps
  <1>9. JournalTypeOK'
    BY <1>0, <1>1, <1>6, <1>8 DEF JournalTypeOK, JournalFiles, Lines
  <1>10. WriterSound'
    BY <1>0, <1>1, <1>6, <1>8 DEF WriterSound
  <1>11. LinesOnce'
    <2>1. ASSUME ~ uncut, NEW r \in Receipts, fate[r] \in {"new", "waiting"} PROVE Nowhere(r, Kept)
      <3>1. Nowhere(r, Readable)
        BY <1>0, <2>1 DEF LinesOnce
      <3>2. writer.rec \in Receipts => writer.rec # r
        BY <1>0, <1>1, <1>2, <2>1 DEF WriterSound
      <3> QED
        BY <1>4, <3>1, <3>2 DEF Nowhere
    <2> QED
      BY <1>1, <1>4, <1>7, <1>8, <2>1 DEF LinesOnce
  <1>12. ForeignExact'
    <2>1. ForeignLines(journal.lines) = {}
      <3>1. journal.lines \in Seq(Lines) /\ (journal.tail = "whole" => Readable = Append(journal.lines, journal.of))
            /\ (journal.tail # "whole" => Readable = journal.lines)
        BY <1>0, JournalShape
      <3>2. \A i \in DOMAIN journal.lines : i \in DOMAIN Readable /\ Readable[i] = journal.lines[i]
        BY <3>1
      <3> QED
        BY <1>2, <3>2 DEF ForeignLines
    <2> QED
      BY <1>0, <1>1, <1>5, <1>6, <2>1 DEF ForeignExact
  <1> QED
    BY <1>9, <1>10, <1>11, <1>12 DEF JournalInv

LEMMA JournalNextOK == JournalInv /\ [JournalNext]_jvars => JournalInv'
  <1> SUFFICES ASSUME JournalInv, [JournalNext]_jvars PROVE JournalInv'
    OBVIOUS
  <1>0. JournalTypeOK /\ WriterSound /\ ForeignExact /\ LinesOnce
    BY DEF JournalInv
  <1>1. ASSUME NEW r \in Receipts, MakeReceipt(r) PROVE JournalInv'
    <2>1. /\ fate[r] = "new" /\ fate' = [fate EXCEPT ![r] = "waiting"] /\ stamp' = [stamp EXCEPT ![r] = clock]
          /\ UNCHANGED <<journal, writer, clock, alien, uncut>>
      BY <1>1 DEF MakeReceipt
    <2>2. /\ fate' \in [Receipts -> Fates] /\ stamp' \in [Receipts -> Nat]
          /\ \A x \in Receipts : /\ fate'[x] \in {"new", "waiting"} => fate[x] \in {"new", "waiting"}
                                 /\ fate[x] = "busy" => fate'[x] = "busy"
      BY <1>0, <2>1 DEF JournalTypeOK, Fates
    <2>3. JournalTypeOK'
      BY <1>0, <2>1, <2>2 DEF JournalTypeOK
    <2>4. WriterSound'
      <3>1. writer.rec # NoReceipt => writer.rec \in Receipts
        BY <1>0 DEF JournalTypeOK
      <3> QED
        BY <1>0, <2>1, <2>2, <3>1 DEF WriterSound
    <2>5. Readable' = Readable
      BY <2>1 DEF Readable
    <2>6. LinesOnce'
      BY <1>0, <2>1, <2>2, <2>5 DEF LinesOnce
    <2>7. ForeignExact'
      BY <1>0, <2>1 DEF ForeignExact
    <2> QED
      BY <2>3, <2>4, <2>6, <2>7 DEF JournalInv
  <1>2. ASSUME NEW r \in Receipts, LockToAppend(r) PROVE JournalInv'
    <2>1. r # NoReceipt
      BY JournalAssumption
    <2> QED
      BY <1>2, <2>1, LockKeeps DEF LockToAppend
  <1>3. CASE LockToLoad
    BY <1>3, LockKeeps DEF LockToLoad
  <1>4. CASE WriteSome
    BY <1>4, WriteSomeKeeps
  <1>5. CASE WriteLine
    BY <1>5, WriteLineKeeps
  <1>6. CASE EndLine
    BY <1>6, EndLineKeeps
  <1>7. CASE TooSlow
    <2>1. writer.step = "fast" /\ At("read") /\ UNCHANGED <<journal, fate, stamp, clock, alien, uncut>>
      BY <1>7 DEF TooSlow
    <2>2. /\ writer'.step = "read" /\ writer'.rec = writer.rec /\ writer'.before = writer.before
          /\ writer' \in [step : Steps, rec : Receipts \cup {NoReceipt}, before : Seq(Receipts \cup {Foreign})]
      BY <1>0, <2>1, StepShape DEF Steps
    <2>3. JournalTypeOK'
      BY <1>0, <2>1, <2>2 DEF JournalTypeOK
    <2>4. WriterSound'
      BY <1>0, <2>1, <2>2 DEF WriterSound
    <2>5. Readable' = Readable
      BY <2>1 DEF Readable
    <2>6. LinesOnce' /\ ForeignExact'
      BY <1>0, <2>1, <2>2, <2>5 DEF LinesOnce, ForeignExact
    <2> QED
      BY <2>3, <2>4, <2>6 DEF JournalInv
  <1>8. CASE WriteFails
    BY <1>8, WriteFailsKeeps
  <1>9. CASE Replace
    BY <1>9, ReplaceKeeps
  <1>10. CASE Succeed
    BY <1>10, UnlockKeeps DEF Succeed
  <1>11. CASE GiveUpAppend
    BY <1>11, UnlockKeeps DEF GiveUpAppend
  <1>12. CASE Die
    BY <1>12, UnlockKeeps DEF Die
  <1>13. CASE AddForeign
    BY <1>13, AddForeignKeeps
  <1>14. ASSUME UNCHANGED <<journal, writer, fate, stamp, alien, uncut>>, clock' \in Nat PROVE JournalInv'
    <2>1. Readable' = Readable
      BY <1>14 DEF Readable
    <2> QED
      BY <1>0, <1>14, <2>1 DEF JournalInv, JournalTypeOK, WriterSound, LinesOnce, ForeignExact
  <1>15. CASE JournalTick
    <2>1. clock \in Nat /\ clock' = clock + 1
      BY <1>0, <1>15 DEF JournalTick, JournalTypeOK
    <2> QED
      BY <1>14, <1>15, <2>1 DEF JournalTick
  <1>16. CASE UNCHANGED jvars
    <2>1. clock \in Nat
      BY <1>0 DEF JournalTypeOK
    <2> QED
      BY <1>14, <1>16, <2>1 DEF jvars
  <1> QED
    BY <1>1, <1>2, <1>3, <1>4, <1>5, <1>6, <1>7, <1>8, <1>9, <1>10, <1>11, <1>12, <1>13, <1>15, <1>16
       DEF JournalNext

\* Through failed and half-finished writes, holders that die with the lock and other programs'
\* lines, the journal holds every foreign line and each receipt at most once, unless a failed
\* write could not even be cut back (operator_receipts_v3.py: _try_fast_append, _read_all_owned,
\* _retained and _rewrite).
THEOREM JournalHolds == JournalSpec => []JournalExact
  <1>1. JournalInv => JournalExact
    <2> SUFFICES ASSUME JournalInv PROVE NoReceiptTwice
      BY DEF JournalExact, JournalInv
    <2>1. Readable \in Seq(Lines) /\ LinesOnce
      BY JournalShape DEF JournalInv
    <2>2. DOMAIN Readable = 1 .. Len(Readable)
      BY <2>1
    <2> QED
      BY <2>1, <2>2 DEF LinesOnce, Once, NoReceiptTwice
  <1> QED
    BY <1>1, JournalInitOK, JournalNextOK, PTL DEF JournalSpec

-----------------------------------------------------------------------------
(* The journal is the log it promises to be (ReceiptLog)                     *)

\* Positions come out in the order they have.
LEMMA PickedByRank ==
    ASSUME NEW n \in Nat, NEW at \in SUBSET (1 .. n), NEW s
    PROVE  /\ DOMAIN Picked(s, at) = 1 .. Cardinality(at)
           /\ \A i \in at : Picked(s, at)[RankIn(at, i)] = s[i]
  <1>1. /\ DOMAIN Picked(s, at) = 1 .. Cardinality(at)
        /\ \A k \in 1 .. Cardinality(at) : Picked(s, at)[k] = s[CHOOSE i \in at : RankIn(at, i) = k]
    BY DEF Picked, RankIn
  <1>2. ASSUME NEW i \in at PROVE Picked(s, at)[RankIn(at, i)] = s[i]
    <2> DEFINE k == RankIn(at, i)
               j == CHOOSE h \in at : RankIn(at, h) = k
    <2>0. \A h \in at : h \in Nat
      OBVIOUS
    <2>1. k \in 1 .. Cardinality(at) /\ i \in Nat /\ Cardinality(at) \in Nat
      BY <2>0, PositionsFinite
    <2>2. j \in at /\ RankIn(at, j) = k
      OBVIOUS
    <2>3. Picked(s, at)[k] = s[j]
      BY <1>1, <2>1
    <2>4. j \in Nat /\ k \in Nat
      <3> HIDE DEF j, k
      <3> QED BY <2>0, <2>1, <2>2
    <2>5. (i < j => RankIn(at, i) < RankIn(at, j)) /\ (j < i => RankIn(at, j) < RankIn(at, i))
      BY <2>2, PositionsFinite
    <2>6. RankIn(at, i) = k
      OBVIOUS
    <2> HIDE DEF j, k
    <2>7. i = j
      BY <2>1, <2>2, <2>4, <2>5, <2>6
    <2> QED BY <2>3, <2>6, <2>7
  <1> QED BY <1>1, <1>2

\* A list with one more item.
LEMMA AppendItems ==
    ASSUME NEW N, NEW s \in Seq(N), NEW x \in N
    PROVE  /\ Append(s, x) \in Seq(N) /\ Len(Append(s, x)) = Len(s) + 1
           /\ DOMAIN Append(s, x) = 1 .. Len(s) + 1 /\ Append(s, x)[Len(s) + 1] = x
           /\ \A i \in 1 .. Len(s) : Append(s, x)[i] = s[i]
  OBVIOUS

\* Lists with the same items are the same.
LEMMA SameItems ==
    ASSUME NEW N, NEW s \in Seq(N), NEW t \in Seq(N), DOMAIN s = DOMAIN t, \A i \in DOMAIN s : s[i] = t[i]
    PROVE  s = t
  <1>1. s = [i \in DOMAIN s |-> s[i]] /\ t = [i \in DOMAIN t |-> t[i]]
    OBVIOUS
  <1> QED BY <1>1

\* A filter that everything passes changes nothing.
LEMMA AmongAll ==
    ASSUME NEW S, NEW s \in Seq(S)
    PROVE  Among(s, S) = s
  <1> DEFINE n == Len(s)
             t == Among(s, S)
  <1>1. n \in Nat /\ DOMAIN s = 1 .. n /\ {i \in DOMAIN s : s[i] \in S} = 1 .. n
    OBVIOUS
  <1>2. Cardinality(1 .. n) = n
    BY <1>1, FS_Interval
  <1>3. t = Picked(s, 1 .. n)
    BY <1>1 DEF Among
  <1>4. \A i \in 1 .. n : RankIn(1 .. n, i) = i
    <2> SUFFICES ASSUME NEW i \in 1 .. n PROVE RankIn(1 .. n, i) = i
      OBVIOUS
    <2>1. {j \in 1 .. n : j <= i} = 1 .. i /\ i \in Nat
      BY <1>1
    <2>2. Cardinality(1 .. i) = i
      BY <2>1, FS_Interval
    <2> QED BY <2>1, <2>2 DEF RankIn
  <1>5. t \in Seq(S)
    BY AmongShape
  <1> HIDE DEF n, t
  <1>6. DOMAIN t = 1 .. n /\ \A i \in 1 .. n : t[i] = s[i]
    <2>1. /\ DOMAIN Picked(s, 1 .. n) = 1 .. Cardinality(1 .. n)
          /\ \A i \in 1 .. n : Picked(s, 1 .. n)[RankIn(1 .. n, i)] = s[i]
      <3>1. 1 .. n \in SUBSET (1 .. n)
        OBVIOUS
      <3> QED BY <1>1, <3>1, PickedByRank
    <2> QED BY <1>2, <1>3, <1>4, <2>1
  <1>7. t = s
    BY <1>1, <1>5, <1>6
  <1> QED BY <1>7 DEF t

\* A filter looks at each item by itself.
LEMMA AmongAppend ==
    ASSUME NEW N, NEW s \in Seq(N), NEW x \in N, NEW S
    PROVE  /\ x \in S => Among(Append(s, x), S) = Append(Among(s, S), x)
           /\ x \notin S => Among(Append(s, x), S) = Among(s, S)
  <1> DEFINE n  == Len(s)
             t  == Append(s, x)
             as == {i \in DOMAIN s : s[i] \in S}
             bs == {i \in DOMAIN t : t[i] \in S}
             p  == Among(s, S)
             q  == Among(t, S)
             c  == Cardinality(as)
  <1>1. /\ n \in Nat /\ t \in Seq(N) /\ DOMAIN s = 1 .. n /\ DOMAIN t = 1 .. n + 1 /\ t[n + 1] = x
        /\ \A i \in 1 .. n : t[i] = s[i]
    OBVIOUS
  <1>2. as \in SUBSET (1 .. n) /\ bs \in SUBSET (1 .. n + 1)
    BY <1>1
  <1>3. p = Picked(s, as) /\ q = Picked(t, bs) /\ p \in Seq(N) /\ q \in Seq(N)
    BY <1>1, AmongShape DEF Among
  <1>4. (x \in S => bs = as \cup {n + 1}) /\ (x \notin S => bs = as)
    BY <1>1
  <1>5. IsFiniteSet(as) /\ c \in Nat
    BY <1>1, <1>2, PositionsFinite
  <1>6. /\ DOMAIN p = 1 .. c /\ \A i \in as : p[RankIn(as, i)] = s[i]
        /\ DOMAIN q = 1 .. Cardinality(bs) /\ \A i \in bs : q[RankIn(bs, i)] = t[i]
    <2> HIDE DEF n, t, as, bs, p, q
    <2>1. n + 1 \in Nat
      BY <1>1
    <2>2. DOMAIN Picked(s, as) = 1 .. c /\ \A i \in as : Picked(s, as)[RankIn(as, i)] = s[i]
      BY <1>1, <1>2, PickedByRank
    <2>3. DOMAIN Picked(t, bs) = 1 .. Cardinality(bs) /\ \A i \in bs : Picked(t, bs)[RankIn(bs, i)] = t[i]
      BY <1>2, <2>1, PickedByRank
    <2> QED BY <1>3, <2>2, <2>3
  <1>7. \A k \in 1 .. c : \E i \in as : RankIn(as, i) = k
    BY <1>1, <1>2, NthExists
  <1> HIDE DEF n, t, as, bs, p, q, c
  <1>A. ASSUME NEW i \in as PROVE i \in Nat /\ i \in 1 .. n /\ i <= n /\ i # n + 1 /\ ~ (n + 1 <= i)
    <2>1. i \in 1 .. n
      BY <1>2
    <2> QED BY <1>1, <2>1
  <1>8. ASSUME x \in S PROVE q = Append(p, x)
    <2>1. Cardinality(bs) = c + 1
      <3>1. n + 1 \notin as
        BY <1>A
      <3> QED BY <1>4, <1>5, <1>8, <3>1, FS_AddElement DEF c
    <2>2. ASSUME NEW i \in as PROVE RankIn(bs, i) = RankIn(as, i) /\ i \in bs /\ t[i] = s[i]
      <3>1. i \in Nat /\ i <= n /\ ~ (n + 1 <= i) /\ i \in 1 .. n
        BY <1>A
      <3>2. {j \in bs : j <= i} = {j \in as : j <= i}
        BY <1>4, <1>8, <3>1
      <3> QED BY <1>1, <1>4, <1>8, <3>1, <3>2 DEF RankIn
    <2>3. \A k \in 1 .. c : q[k] = p[k]
      <3> SUFFICES ASSUME NEW k \in 1 .. c PROVE q[k] = p[k]
        OBVIOUS
      <3>1. PICK i \in as : RankIn(as, i) = k
        BY <1>7
      <3> QED BY <1>6, <2>2, <3>1
    <2>4. q[c + 1] = x
      <3>1. {j \in bs : j <= n + 1} = bs /\ n + 1 \in bs
        <4>1. \A j \in bs : j \in 1 .. n + 1 /\ j <= n + 1
          BY <1>1, <1>2
        <4> QED BY <1>4, <1>8, <4>1
      <3>2. RankIn(bs, n + 1) = c + 1
        BY <2>1, <3>1 DEF RankIn
      <3> QED BY <1>1, <1>6, <3>1, <3>2
    <2>5. DOMAIN q = 1 .. c + 1 /\ Len(p) = c /\ Len(q) = c + 1
      BY <1>3, <1>5, <1>6, <2>1
    <2>6. /\ Append(p, x) \in Seq(N) /\ DOMAIN Append(p, x) = 1 .. c + 1 /\ Append(p, x)[c + 1] = x
          /\ \A k \in 1 .. c : Append(p, x)[k] = p[k]
      <3>1. /\ Append(p, x) \in Seq(N) /\ Len(Append(p, x)) = Len(p) + 1
            /\ DOMAIN Append(p, x) = 1 .. Len(p) + 1 /\ Append(p, x)[Len(p) + 1] = x
            /\ \A i \in 1 .. Len(p) : Append(p, x)[i] = p[i]
        <4>1. p \in Seq(N)
          BY <1>3
        <4>2. x \in N
          OBVIOUS
        <4> QED BY <4>1, <4>2, AppendItems, SMTT(30)
      <3>2. Len(p) = c
        BY <2>5
      <3> QED BY <3>1, <3>2
    <2>8. ASSUME NEW k \in 1 .. c + 1 PROVE q[k] = Append(p, x)[k]
      <3>1. k \in 1 .. c \/ k = c + 1
        BY <1>5
      <3> QED BY <2>3, <2>4, <2>6, <3>1
    <2>9. DOMAIN q = DOMAIN Append(p, x) /\ \A k \in DOMAIN q : q[k] = Append(p, x)[k]
      BY <2>5, <2>6, <2>8
    <2> QED BY <1>3, <2>6, <2>9, SameItems
  <1>9. ASSUME x \notin S PROVE q = p
    <2>1. bs = as /\ \A i \in as : t[i] = s[i]
      BY <1>1, <1>2, <1>4, <1>9
    <2>2. DOMAIN q = 1 .. c
      BY <1>6, <2>1 DEF c
    <2>3. ASSUME NEW k \in 1 .. c PROVE q[k] = p[k]
      <3>1. PICK i \in as : RankIn(as, i) = k
        BY <1>7
      <3>2. p[k] = s[i] /\ q[RankIn(bs, i)] = t[i] /\ t[i] = s[i]
        BY <1>6, <2>1, <3>1
      <3>3. RankIn(bs, i) = k
        BY <2>1, <3>1
      <3> QED BY <3>2, <3>3
    <2>4. DOMAIN q = DOMAIN p /\ \A k \in DOMAIN q : q[k] = p[k]
      BY <1>6, <2>2, <2>3
    <2> QED BY <1>3, <2>4, SameItems
  <1> QED BY <1>8, <1>9 DEF t, p, q

\* A list weighs a natural number.
LEMMA BytesType ==
    ASSUME NEW s \in Seq(Lines)
    PROVE  BytesOf(s) \in Nat
  <1> DEFINE n == Len(s)
             Sum(f) == f = [i \in 0 .. Len(s) |-> IF i = 0 THEN 0 ELSE f[i - 1] + SizeOf[s[i]]]
             Part(k, f) == f \in [0 .. k -> Nat] /\ f[0] = 0 /\ \A i \in 1 .. k : f[i] = f[i - 1] + SizeOf[s[i]]
             S == {k \in 0 .. n : \E f : Part(k, f)}
             sum == CHOOSE f : Sum(f)
  <1>1. n \in Nat /\ \A i \in 1 .. n : SizeOf[s[i]] \in Nat
    <2>1. \A i \in 1 .. n : s[i] \in Receipts \cup {Foreign}
      BY DEF Lines
    <2> QED BY <2>1, JournalAssumption
  <1> HIDE DEF n
  <1>2. 0 \in S
    <2> DEFINE f == [i \in 0 .. 0 |-> 0]
    <2>2. 0 .. 0 = {0} /\ 1 .. 0 = {}
      OBVIOUS
    <2>3. f \in [0 .. 0 -> Nat] /\ f[0] = 0
      BY <2>2
    <2>1. Part(0, f)
      BY <2>2, <2>3
    <2> HIDE DEF Part, f
    <2> QED BY <1>1, <2>1
  <1>3. PICK k \in S : \A m \in S : k >= m
    <2>1. S \in SUBSET (0 .. n) /\ S # {}
      BY <1>2
    <2> HIDE DEF S
    <2> QED BY <1>1, <2>1, Greatest
  <1>4. k = n
    <2> SUFFICES ASSUME k # n PROVE FALSE
      OBVIOUS
    <2>1. PICK f : Part(k, f)
      BY <1>3
    <2>2. k \in Nat /\ k < n /\ k + 1 \in 1 .. n
      BY <1>1, <1>3
    <2> DEFINE g == [i \in 0 .. k + 1 |-> IF i = k + 1 THEN f[k] + SizeOf[s[k + 1]] ELSE f[i]]
    <2>3. f[k] + SizeOf[s[k + 1]] \in Nat
      <3>1. k \in 0 .. k /\ SizeOf[s[k + 1]] \in Nat
        BY <1>1, <2>2
      <3>2. f[k] \in Nat
        BY <2>1, <3>1
      <3> QED BY <3>1, <3>2
    <2>4. \A i \in 0 .. k : f[i] \in Nat /\ g[i] = f[i]
      BY <2>1, <2>2
    <2>5. g[k + 1] = f[k] + SizeOf[s[k + 1]]
      BY <2>2
    <2>6. g \in [0 .. k + 1 -> Nat]
      <3>1. \A i \in 0 .. k + 1 : i = k + 1 \/ i \in 0 .. k
        BY <2>2
      <3>2. \A i \in 0 .. k + 1 : (IF i = k + 1 THEN f[k] + SizeOf[s[k + 1]] ELSE f[i]) \in Nat
        BY <2>1, <2>3, <3>1
      <3> QED BY <3>2
    <2> HIDE DEF g
    <2>7. \A i \in 1 .. k + 1 : g[i] = g[i - 1] + SizeOf[s[i]]
      <3> SUFFICES ASSUME NEW i \in 1 .. k + 1 PROVE g[i] = g[i - 1] + SizeOf[s[i]]
        OBVIOUS
      <3>1. CASE i = k + 1
        BY <2>2, <2>4, <2>5, <3>1
      <3>2. CASE i # k + 1
        <4>1. i \in 1 .. k /\ i \in 0 .. k /\ i - 1 \in 0 .. k
          BY <2>2, <3>2
        <4> QED BY <2>1, <2>4, <4>1
      <3> QED BY <3>1, <3>2
    <2>8. g[0] = 0
      BY <2>1, <2>2, <2>4
    <2>9. k + 1 \in S
      <3>1. Part(k + 1, g)
        BY <2>6, <2>7, <2>8
      <3> HIDE DEF Part
      <3> QED BY <1>1, <2>2, <3>1
    <2> HIDE DEF S
    <2> QED BY <1>3, <2>2, <2>9
  <1>5. PICK f : Part(n, f)
    BY <1>3, <1>4
  <1>6. Sum(f)
    <2>1. \A i \in 0 .. n : f[i] = IF i = 0 THEN 0 ELSE f[i - 1] + SizeOf[s[i]]
      BY <1>1, <1>5
    <2>2. f = [i \in 0 .. n |-> f[i]]
      BY <1>5
    <2>3. f = [i \in 0 .. n |-> IF i = 0 THEN 0 ELSE f[i - 1] + SizeOf[s[i]]]
      BY <2>1, <2>2
    <2> QED BY <2>3 DEF n
  <1>7. Sum(sum)
    BY <1>6
  <1>8. BytesOf(s) = sum[n]
    BY DEF BytesOf, Total, n
  <1>9. \A i \in 0 .. n : sum[i] = IF i = 0 THEN 0 ELSE sum[i - 1] + SizeOf[s[i]]
    BY <1>7 DEF n
  <1> DEFINE A == {i \in 0 .. n : \A m \in 0 .. i : sum[m] \in Nat}
  <1> HIDE DEF sum
  <1>10. 0 \in A
    <2>1. sum[0] = 0
      BY <1>1, <1>9
    <2> QED BY <1>1, <2>1
  <1>11. PICK a \in A : \A b \in A : a >= b
    <2>1. A \in SUBSET (0 .. n) /\ A # {}
      BY <1>10
    <2> HIDE DEF A
    <2> QED BY <1>1, <2>1, Greatest
  <1>12. a = n
    <2> SUFFICES ASSUME a # n PROVE FALSE
      OBVIOUS
    <2>1. a \in Nat /\ a < n /\ a + 1 \in 1 .. n /\ a + 1 \in 0 .. n /\ (a + 1) - 1 = a
      BY <1>1, <1>11
    <2>2. \A m \in 0 .. a : sum[m] \in Nat
      BY <1>11
    <2>3. sum[a + 1] = sum[a] + SizeOf[s[a + 1]] /\ sum[a] \in Nat
      BY <1>9, <2>1, <2>2
    <2>4. sum[a + 1] \in Nat
      <3>1. SizeOf[s[a + 1]] \in Nat
        BY <1>1, <2>1
      <3> QED BY ONLY <2>3, <3>1
    <2>5. \A m \in 0 .. a + 1 : sum[m] \in Nat
      BY <2>1, <2>2, <2>4
    <2>6. a + 1 \in A
      BY <2>1, <2>5
    <2> HIDE DEF A
    <2> QED BY <1>11, <2>1, <2>6
  <1>13. sum[n] \in Nat
    BY <1>1, <1>11, <1>12
  <1> QED BY <1>8, <1>13

\* The newest n items are the last n.
LEMMA NewestItems ==
    ASSUME NEW N, NEW s \in Seq(N), NEW n \in 0 .. Len(s)
    PROVE  /\ Newest(s, n) \in Seq(N) /\ Len(Newest(s, n)) = n
           /\ DOMAIN Newest(s, n) = 1 .. n
           /\ \A k \in 1 .. n : Newest(s, n)[k] = s[(Len(s) - n) + k]
  <1> DEFINE from == Len(s) - n
             t    == Newest(s, n)
  <1>1. Len(s) \in Nat /\ n \in Nat /\ n <= Len(s) /\ from \in Nat /\ from + n = Len(s)
    OBVIOUS
  <1>2. t = SubSeq(s, from + 1, Len(s))
    BY DEF Newest
  <1> HIDE DEF t
  <1>3. \A k \in 1 .. n : from + k \in 1 .. Len(s) /\ s[from + k] \in N
    BY <1>1
  <1>4. t = [k \in 1 .. n |-> s[from + k]]
    BY <1>1, <1>2
  <1>5. t \in Seq(N) /\ Len(t) = n /\ DOMAIN t = 1 .. n /\ \A k \in 1 .. n : t[k] = s[from + k]
    <2> HIDE DEF from
    <2> QED BY <1>1, <1>3, <1>4
  <1> QED BY <1>5 DEF t

\* The newest of the newest, and the newest of them all.
LEMMA NewestTwice ==
    ASSUME NEW N, NEW s \in Seq(N), NEW n \in 0 .. Len(s), NEW m \in 0 .. n
    PROVE  Newest(Newest(s, n), m) = Newest(s, m)
  <1> DEFINE t == Newest(s, n)
             u == Newest(t, m)
             v == Newest(s, m)
  <1>1. Len(s) \in Nat /\ n \in Nat /\ m \in Nat /\ m \in 0 .. Len(s) /\ n <= Len(s) /\ m <= n
    OBVIOUS
  <1>2. t \in Seq(N) /\ Len(t) = n /\ \A k \in 1 .. n : t[k] = s[(Len(s) - n) + k]
    BY NewestItems
  <1>3. v \in Seq(N) /\ DOMAIN v = 1 .. m /\ \A k \in 1 .. m : v[k] = s[(Len(s) - m) + k]
    BY <1>1, NewestItems
  <1> HIDE DEF t, v
  <1>4. u \in Seq(N) /\ DOMAIN u = 1 .. m /\ \A k \in 1 .. m : u[k] = t[(Len(t) - m) + k]
    <2>1. t \in Seq(N) /\ m \in 0 .. Len(t)
      BY <1>1, <1>2
    <2> QED BY ONLY <2>1, NewestItems
  <1> HIDE DEF u
  <1>5. ASSUME NEW k \in 1 .. m PROVE u[k] = v[k]
    <2>1. /\ (n - m) + k \in 1 .. n
          /\ (Len(s) - n) + ((n - m) + k) = (Len(s) - m) + k
      BY <1>1
    <2> QED BY <1>2, <1>3, <1>4, <2>1
  <1>6. u = v
    BY <1>3, <1>4, <1>5, SameItems
  <1> QED BY <1>6 DEF t, u, v

\* As many as there are: all of them.
LEMMA NewestAll == ASSUME NEW N, NEW s \in Seq(N) PROVE Newest(s, Len(s)) = s
  <1> DEFINE t == Newest(s, Len(s))
  <1>1. Len(s) \in Nat /\ Len(s) \in 0 .. Len(s) /\ DOMAIN s = 1 .. Len(s)
    OBVIOUS
  <1>2. t \in Seq(N) /\ DOMAIN t = 1 .. Len(s) /\ \A k \in 1 .. Len(s) : t[k] = s[(Len(s) - Len(s)) + k]
    BY <1>1, NewestItems
  <1> HIDE DEF t
  <1>3. \A k \in 1 .. Len(s) : t[k] = s[k]
    BY <1>1, <1>2
  <1>4. t = s
    BY <1>1, <1>2, <1>3, SameItems
  <1> QED BY <1>4 DEF t

\* The journal and its promise filter, count and measure lists alike.
LEMMA LogOperators ==
    /\ \A s, S : Log!Among(s, S) = Among(s, S)
    /\ \A s : Log!Bytes(s) = BytesOf(s)
    /\ \A r : Log!Live(r) = LiveNow(r)
  <1>2. \A s, at : Log!Picked(s, at) = Picked(s, at)
    BY DEF Log!Picked, Picked, Log!Cardinality, Cardinality, Log!IsFiniteSet, IsFiniteSet
  <1>3. \A s, S : Log!Among(s, S) = Among(s, S)
    BY <1>2 DEF Log!Among, Among
  <1>4. \A s : Log!Bytes(s) = BytesOf(s)
    BY DEF Log!Bytes, BytesOf, Log!Total, Total
  <1>5. \A r : Log!Live(r) = LiveNow(r)
    BY DEF Log!Live, LiveNow
  <1> QED BY <1>3, <1>4, <1>5

\* How much _retained leaves, whichever limits it trims to: all there is if that is within
\* the limits, else so much that one more would be over the trimmed ones.
LEMMA RetainedAmount ==
    ASSUME NEW s \in Seq(Receipts), NEW records \in MaxRecords - RecordSlack .. MaxRecords,
           NEW bytes \in MaxBytes - ByteSlack .. MaxBytes
    PROVE  LET live == Among(s, Unexpired) IN
           \E m \in 0 .. Len(live) :
              /\ Retained(s, records, bytes) = Newest(live, m)
              /\ m <= MaxRecords /\ BytesOf(Newest(live, m)) <= MaxBytes
              /\ Len(live) <= MaxRecords /\ BytesOf(live) <= MaxBytes => m = Len(live)
              /\ m < Len(live) => \/ m + 1 > MaxRecords - RecordSlack
                                  \/ BytesOf(Newest(live, m + 1)) > MaxBytes - ByteSlack
  <1> DEFINE live  == Among(s, Unexpired)
             L     == Len(live)
             few   == IF Len(live) > MaxRecords THEN Newest(live, records) ELSE live
             limit == IF BytesOf(few) > MaxBytes THEN bytes ELSE MaxBytes
             fit   == {n \in 0 .. Len(few) : BytesOf(Newest(few, n)) <= limit}
             most  == CHOOSE n \in fit : \A m \in fit : m <= n
             top   == IF L > MaxRecords THEN records ELSE L
  <1>0. /\ MaxRecords \in Nat /\ MaxBytes \in Nat /\ RecordSlack \in 0 .. MaxRecords /\ ByteSlack \in 0 .. MaxBytes
    BY JournalAssumption
  <1>1. /\ records \in Nat /\ bytes \in Nat /\ records <= MaxRecords /\ bytes <= MaxBytes
        /\ MaxRecords - RecordSlack <= records /\ MaxBytes - ByteSlack <= bytes
        /\ MaxRecords - RecordSlack \in Nat /\ MaxBytes - ByteSlack \in Nat
    BY <1>0
  <1>2. live \in Seq(Receipts) /\ L \in Nat
    BY AmongShape
  <1>3. Retained(s, records, bytes) = Newest(few, most)
    BY DEF Retained
  <1> HIDE DEF live
  <1>4. ASSUME NEW t \in Seq(Receipts) PROVE BytesOf(t) \in Nat
    <2>1. t \in Seq(Lines)
      BY DEF Lines
    <2> QED BY <2>1, BytesType
  <1>5. few \in Seq(Receipts) /\ few = Newest(live, top) /\ Len(few) = top /\ top \in 0 .. L /\ top <= MaxRecords
    <2>1. CASE L > MaxRecords
      <3>1. records \in 0 .. L /\ top = records
        BY <1>0, <1>1, <1>2, <2>1
      <3>2. Newest(live, records) \in Seq(Receipts) /\ Len(Newest(live, records)) = records
        BY <1>2, <3>1, NewestItems
      <3> QED BY <1>1, <2>1, <3>1, <3>2
    <2>2. CASE ~ (L > MaxRecords)
      <3>1. L <= MaxRecords /\ top = L /\ top \in 0 .. L
        BY <1>0, <1>2, <2>2
      <3>2. Newest(live, L) = live
        BY <1>2, NewestAll
      <3> QED BY <1>2, <2>2, <3>1, <3>2
    <2> QED BY <2>1, <2>2
  <1>6. \A m \in 0 .. top : /\ Newest(few, m) = Newest(live, m) /\ BytesOf(Newest(live, m)) \in Nat
                            /\ m \in 0 .. L
    <2> SUFFICES ASSUME NEW m \in 0 .. top
                 PROVE  Newest(few, m) = Newest(live, m) /\ BytesOf(Newest(live, m)) \in Nat /\ m \in 0 .. L
      OBVIOUS
    <2> HIDE DEF top, few, L
    <2>1. m \in 0 .. L
      BY <1>2, <1>5
    <2>2. Newest(live, m) \in Seq(Receipts)
      BY <1>2, <2>1, NewestItems DEF L
    <2>3. Newest(few, m) = Newest(live, m)
      BY <1>2, <1>5, NewestTwice DEF L
    <2> QED BY <1>4, <2>1, <2>2, <2>3
  <1>7. limit \in Nat /\ MaxBytes - ByteSlack <= limit /\ limit <= MaxBytes /\ BytesOf(few) \in Nat
    BY <1>0, <1>1, <1>4, <1>5
  <1>8. 0 \in fit
    <2>1. Newest(few, 0) = <<>>
      BY <1>5 DEF Newest
    <2> HIDE DEF limit, few, top
    <2>2. BytesOf(Newest(few, 0)) <= limit
      BY <1>7, <2>1, NothingHasNoBytes
    <2> QED BY <1>5, <1>2, <2>2
  <1>9. most \in fit /\ \A m \in fit : m <= most
    <2>1. Len(few) \in Nat /\ fit \in SUBSET (0 .. Len(few)) /\ fit # {}
      BY <1>5, <1>8
    <2> HIDE DEF fit
    <2>2. PICK v \in fit : \A w \in fit : v >= w
      BY <2>1, Greatest
    <2>3. \A w \in fit : w <= v
      BY <2>1, <2>2
    <2> QED BY <2>3
  <1> HIDE DEF most
  <1>10. fit = {n \in 0 .. top : BytesOf(Newest(live, n)) <= limit}
    <2> HIDE DEF limit, few, top
    <2> QED BY <1>5, <1>6
  <1> DEFINE m == most
  <1>11. m \in 0 .. top /\ m \in 0 .. L /\ BytesOf(Newest(live, m)) <= limit /\ BytesOf(Newest(live, m)) \in Nat
    <2> HIDE DEF limit, top, fit
    <2> QED BY <1>6, <1>9, <1>10
  <1>12. Retained(s, records, bytes) = Newest(live, m)
    <2> HIDE DEF few, top
    <2> QED BY <1>3, <1>6, <1>11
  <1>13. m <= MaxRecords /\ BytesOf(Newest(live, m)) <= MaxBytes
    <2> HIDE DEF limit, top, m
    <2> QED BY <1>0, <1>1, <1>2, <1>5, <1>7, <1>11
  <1>14. ASSUME L <= MaxRecords, BytesOf(live) <= MaxBytes PROVE m = L
    <2>1. top = L /\ few = live
      BY <1>0, <1>2, <1>14
    <2>2. limit = MaxBytes
      BY <1>0, <1>7, <1>14, <2>1
    <2>3. Newest(live, L) = live
      BY <1>2, NewestAll
    <2> HIDE DEF limit, few, top, m
    <2>4. L \in fit
      <3>1. L \in 0 .. top
        BY <1>2, <2>1
      <3> QED BY <1>10, <1>14, <2>2, <2>3, <3>1
    <2>5. L <= m
      BY <1>9, <2>4 DEF m
    <2> QED BY <1>2, <1>11, <2>5
  <1>15. ASSUME m < L PROVE m + 1 > MaxRecords - RecordSlack \/ BytesOf(Newest(live, m + 1)) > MaxBytes - ByteSlack
    <2>1. CASE m = top
      <3>1. CASE L > MaxRecords
        <4>1. top = records
          BY <3>1
        <4> HIDE DEF m
        <4> QED BY <1>0, <1>1, <2>1, <4>1
      <3>2. CASE ~ (L > MaxRecords)
        <4>1. top = L
          BY <3>2
        <4> HIDE DEF m
        <4> QED BY <1>2, <1>15, <2>1, <4>1
      <3> QED BY <3>1, <3>2
    <2>2. CASE m # top
      <3> HIDE DEF limit, top, m, fit
      <3>1. m + 1 \in 0 .. top
        BY <1>2, <1>5, <1>11, <2>2
      <3>2. m + 1 \notin fit
        <4>1. m + 1 \in fit => m + 1 <= m
          BY <1>9 DEF m
        <4> QED BY <1>11, <4>1
      <3>3. ~ (BytesOf(Newest(live, m + 1)) <= limit)
        BY <1>10, <3>1, <3>2
      <3>4. BytesOf(Newest(live, m + 1)) \in Nat
        BY <1>6, <3>1
      <3> QED BY <1>0, <1>1, <1>7, <3>3, <3>4
    <2> QED BY <2>1, <2>2
  <1> HIDE DEF m
  <1>16. /\ m \in 0 .. Len(live)
         /\ Retained(s, records, bytes) = Newest(live, m)
         /\ m <= MaxRecords /\ BytesOf(Newest(live, m)) <= MaxBytes
         /\ Len(live) <= MaxRecords /\ BytesOf(live) <= MaxBytes => m = Len(live)
         /\ m < Len(live) => \/ m + 1 > MaxRecords - RecordSlack
                             \/ BytesOf(Newest(live, m + 1)) > MaxBytes - ByteSlack
    BY <1>11, <1>12, <1>13, <1>14, <1>15
  <1> QED BY <1>16 DEF live

\* Retention leaves what the promise of the log allows.
LEMMA RetainedRetains ==
    ASSUME NEW s \in Seq(Receipts), NEW records \in MaxRecords - RecordSlack .. MaxRecords,
           NEW bytes \in MaxBytes - ByteSlack .. MaxBytes
    PROVE  Log!Retains(s, Retained(s, records, bytes))
  <1> DEFINE live == Among(s, Unexpired)
             kept == Retained(s, records, bytes)
             From(k) == SubSeq(live, k, Len(live))
  <1>0. /\ MaxRecords \in Nat /\ MaxBytes \in Nat /\ RecordSlack \in 0 .. MaxRecords /\ ByteSlack \in 0 .. MaxBytes
        /\ MaxRecords - RecordSlack \in Nat /\ MaxBytes - ByteSlack \in Nat
    BY JournalAssumption
  <1>1. live = Log!Among(s, {r \in Receipts : Log!Live(r)})
    BY LogOperators DEF Unexpired
  <1>2. PICK m \in 0 .. Len(live) :
              /\ kept = Newest(live, m)
              /\ m <= MaxRecords /\ BytesOf(Newest(live, m)) <= MaxBytes
              /\ Len(live) <= MaxRecords /\ BytesOf(live) <= MaxBytes => m = Len(live)
              /\ m < Len(live) => \/ m + 1 > MaxRecords - RecordSlack
                                  \/ BytesOf(Newest(live, m + 1)) > MaxBytes - ByteSlack
    BY RetainedAmount
  <1>3. live \in Seq(Receipts) /\ Len(live) \in Nat
    BY AmongShape
  <1> HIDE DEF live, kept
  <1>4. Newest(live, Len(live)) = live /\ kept \in Seq(Receipts) /\ Len(kept) = m /\ m \in Nat
    BY <1>2, <1>3, NewestAll, NewestItems
  <1>5. \A t, r, b : Log!Within(t, r, b) <=> Len(t) <= r /\ BytesOf(t) <= b
    BY LogOperators DEF Log!Within
  <1>6. CASE Len(live) <= MaxRecords /\ BytesOf(live) <= MaxBytes
    <2>1. kept = live /\ Log!Within(live, MaxRecords, MaxBytes)
      BY <1>2, <1>4, <1>5, <1>6
    <2> QED BY <1>1, <2>1 DEF Log!Retains, kept
  <1>7. CASE ~ (Len(live) <= MaxRecords /\ BytesOf(live) <= MaxBytes)
    <2>1. ~ Log!Within(live, MaxRecords, MaxBytes) /\ Log!Within(kept, MaxRecords, MaxBytes)
      BY <1>2, <1>4, <1>5, <1>7
    <2>2. m < Len(live)
      <3>1. m # Len(live)
        BY <1>2, <1>4, <1>7
      <3> QED BY <1>3, <1>4, <3>1
    <2> DEFINE k == Len(live) - m + 1
    <2>3. /\ k \in 2 .. Len(live) + 1 /\ kept = From(k) /\ From(k - 1) = Newest(live, m + 1)
          /\ m + 1 \in 0 .. Len(live)
      <3>1. k - 1 = Len(live) - (m + 1) + 1 /\ k \in 2 .. Len(live) + 1 /\ m + 1 \in 0 .. Len(live)
        BY <1>3, <1>4, <2>2
      <3> QED BY <1>2, <3>1 DEF Newest
    <2> HIDE DEF k
    <2>4. Newest(live, m + 1) \in Seq(Receipts) /\ Len(Newest(live, m + 1)) = m + 1
      BY <1>3, <2>3, NewestItems
    <2>5. BytesOf(Newest(live, m + 1)) \in Nat
      <3>1. Newest(live, m + 1) \in Seq(Lines)
        BY <2>4 DEF Lines
      <3> QED BY <3>1, BytesType
    <2>6. ~ Log!Within(From(k - 1), MaxRecords - RecordSlack, MaxBytes - ByteSlack)
      <3>1. \/ ~ (m + 1 <= MaxRecords - RecordSlack)
            \/ ~ (BytesOf(Newest(live, m + 1)) <= MaxBytes - ByteSlack)
        BY <1>0, <1>2, <1>4, <2>2, <2>5
      <3> QED BY <1>5, <2>3, <2>4, <3>1
    <2>7. kept = Log!From(live, k) /\ From(k - 1) = Log!From(live, k - 1)
      BY <2>3 DEF Log!From
    <2> QED BY <1>1, <2>1, <2>3, <2>6, <2>7 DEF Log!Retains, kept
  <1> QED BY <1>6, <1>7

\* A new receipt survives the compaction that its append comes with.
LEMMA NewestSurvives ==
    ASSUME NEW s \in Seq(Receipts), NEW r \in Receipts, LiveNow(r),
           1 <= MaxRecords - RecordSlack, BytesOf(<<r>>) <= MaxBytes - ByteSlack
    PROVE  LET kept == Retained(Append(s, r), MaxRecords - RecordSlack, MaxBytes - ByteSlack)
           IN  \E k \in DOMAIN kept : kept[k] = r
  <1> DEFINE t    == Append(s, r)
             live == Among(t, Unexpired)
             old  == Among(s, Unexpired)
             kept == Retained(t, MaxRecords - RecordSlack, MaxBytes - ByteSlack)
  <1>0. /\ MaxRecords \in Nat /\ MaxBytes \in Nat /\ RecordSlack \in 0 .. MaxRecords /\ ByteSlack \in 0 .. MaxBytes
        /\ MaxRecords - RecordSlack \in MaxRecords - RecordSlack .. MaxRecords
        /\ MaxBytes - ByteSlack \in MaxBytes - ByteSlack .. MaxBytes
    BY JournalAssumption
  <1>1. t \in Seq(Receipts)
    OBVIOUS
  <1>2. live = Append(old, r)
    BY AmongAppend DEF Unexpired
  <1>3. old \in Seq(Receipts)
    BY AmongShape
  <1>4. PICK m \in 0 .. Len(live) :
              /\ kept = Newest(live, m)
              /\ m < Len(live) => \/ m + 1 > MaxRecords - RecordSlack
                                  \/ BytesOf(Newest(live, m + 1)) > MaxBytes - ByteSlack
    <2> HIDE DEF t
    <2> QED BY <1>0, <1>1, RetainedAmount
  <1> HIDE DEF t, live, old, kept
  <1>5. /\ live \in Seq(Receipts) /\ Len(live) = Len(old) + 1 /\ Len(old) \in Nat /\ live[Len(live)] = r
    BY <1>2, <1>3, AppendItems
  <1>6. Newest(live, 1) = <<r>>
    <2>1. 1 \in 0 .. Len(live)
      BY <1>5
    <2>2. /\ Newest(live, 1) \in Seq(Receipts) /\ DOMAIN Newest(live, 1) = 1 .. 1
          /\ \A k \in 1 .. 1 : Newest(live, 1)[k] = live[(Len(live) - 1) + k]
      BY <1>5, <2>1, NewestItems
    <2>3. (Len(live) - 1) + 1 = Len(live) /\ 1 \in 1 .. 1
      BY <1>5
    <2>4. Newest(live, 1)[1] = r
      BY <1>5, <2>2, <2>3
    <2>5. <<r>> \in Seq(Receipts) /\ DOMAIN <<r>> = 1 .. 1 /\ \A k \in 1 .. 1 : <<r>>[k] = r /\ k = 1
      OBVIOUS
    <2> QED BY <2>2, <2>4, <2>5, SameItems
  <1>7. m # 0
    <2> SUFFICES ASSUME m = 0 PROVE FALSE
      OBVIOUS
    <2>1. m < Len(live) /\ m + 1 = 1
      BY <1>5
    <2>2. 1 > MaxRecords - RecordSlack \/ BytesOf(<<r>>) > MaxBytes - ByteSlack
      BY <1>4, <1>6, <2>1
    <2>3. BytesOf(<<r>>) \in Nat
      <3>1. <<r>> \in Seq(Lines)
        BY DEF Lines
      <3> QED BY <3>1, BytesType
    <2> QED BY <1>0, <2>2, <2>3
  <1>8. /\ DOMAIN kept = 1 .. m /\ m \in 1 .. m /\ kept[m] = live[(Len(live) - m) + m] /\ (Len(live) - m) + m = Len(live)
    <2>1. m \in Nat /\ m \in 1 .. m /\ (Len(live) - m) + m = Len(live)
      BY <1>5, <1>7
    <2> QED BY <1>4, <1>5, <2>1, NewestItems
  <1>9. m \in DOMAIN kept /\ kept[m] = r
    BY <1>5, <1>8
  <1> QED BY <1>9 DEF kept, t

\* The log the file stands for, and the receipts that are surely in it.
LogOf  == Among(Readable, Receipts)
SureOf == {r \in Receipts : fate[r] = "stored"}

\* A receipt is in a list; the trimmed limits leave room for it.
Holds(s, r) == \E i \in DOMAIN s : s[i] = r
FitsTrimmed(r) == 1 <= MaxRecords - RecordSlack /\ BytesOf(<<r>>) <= MaxBytes - ByteSlack

\* The lock is free, or its holder has replaced the file by one that holds its receipt.
HolderSound ==
    /\ writer.step = "free" => writer = Free
    /\ writer.step = "replaced" /\ writer.rec # NoReceipt =>
          /\ journal.tail = "none"
          /\ LiveNow(writer.rec) /\ FitsTrimmed(writer.rec) => Holds(journal.lines, writer.rec)

FollowInv == JournalInv /\ HolderSound

\* The receipt of an append is in the file that takes the old one's place.
LEMMA KeptSurvives ==
    ASSUME JournalInv, Replace, writer.rec # NoReceipt
    PROVE  LiveNow(writer.rec) /\ FitsTrimmed(writer.rec) => Holds(Kept, writer.rec)
  <1>0. JournalTypeOK /\ WriterSound
    BY DEF JournalInv
  <1>1. writer.rec \in Receipts
    BY <1>0 DEF JournalTypeOK
  <1>2. Readable \in Seq(Receipts)
    <2>1. Readable \in Seq(Lines) /\ \A i \in 1 .. Len(Readable) : Readable[i] \in Receipts
      BY <1>0, JournalShape DEF Owned, Replace
    <2> QED BY <2>1
  <1>3. Kept = Retained(Append(Readable, writer.rec), MaxRecords - RecordSlack, MaxBytes - ByteSlack)
    BY DEF Kept
  <1> QED BY <1>1, <1>2, <1>3, NewestSurvives DEF FitsTrimmed, Holds

\* No step of anyone else loses it again before the append ends.
LEMMA HolderNextOK ==
    ASSUME JournalInv, HolderSound, [JournalNext]_jvars
    PROVE  HolderSound'
  <1>0. JournalTypeOK /\ WriterSound
    BY DEF JournalInv
  <1>1. ASSUME NEW r \in Receipts, MakeReceipt(r) PROVE HolderSound'
    <2>1. /\ fate[r] = "new" /\ stamp' = [stamp EXCEPT ![r] = clock]
          /\ UNCHANGED <<journal, writer, clock>>
      BY <1>1 DEF MakeReceipt
    <2>2. writer.step = "replaced" /\ writer.rec # NoReceipt => fate[writer.rec] = "busy"
      BY <1>0 DEF WriterSound
    <2>3. writer.step = "replaced" /\ writer.rec # NoReceipt => stamp'[writer.rec] = stamp[writer.rec]
      <3>1. stamp \in [Receipts -> Nat] /\ (writer.rec # NoReceipt => writer.rec \in Receipts)
        BY <1>0 DEF JournalTypeOK
      <3> QED BY <2>1, <2>2, <3>1
    <2> QED BY <2>1, <2>3 DEF HolderSound, LiveNow, FitsTrimmed, BytesOf
  <1>2. ASSUME NEW place \in Steps \ {"free", "replaced"}, writer'.step = place PROVE HolderSound'
    BY <1>2 DEF HolderSound
  <1>3. ASSUME NEW r \in Receipts, LockToAppend(r) PROVE HolderSound'
    BY <1>3 DEF HolderSound, LockToAppend
  <1>4. CASE LockToLoad
    BY <1>4 DEF HolderSound, LockToLoad
  <1>5. ASSUME NEW place \in Steps \ {"free", "replaced"}, At(place) PROVE HolderSound'
    <2>1. writer'.step = place
      BY <1>0, <1>5, StepShape
    <2> QED BY <1>2, <2>1
  <1>6. CASE WriteSome \/ WriteLine \/ EndLine \/ TooSlow \/ WriteFails
    BY <1>5, <1>6 DEF WriteSome, WriteLine, EndLine, TooSlow, WriteFails, Steps
  <1>7. CASE Replace
    <2>1. journal' = Ended(Kept) /\ At("replaced") /\ UNCHANGED <<stamp, clock>>
      BY <1>7 DEF Replace
    <2>2. writer'.step = "replaced" /\ writer'.rec = writer.rec
      BY <1>0, <2>1, StepShape DEF Steps
    <2>3. journal'.tail = "none" /\ journal'.lines = Kept
      BY <2>1 DEF Ended
    <2>4. writer.rec # NoReceipt /\ LiveNow(writer.rec) /\ FitsTrimmed(writer.rec) => Holds(Kept, writer.rec)
      BY <1>7, KeptSurvives
    <2> HIDE DEF Replace
    <2> QED BY <2>1, <2>2, <2>3, <2>4 DEF HolderSound, LiveNow, FitsTrimmed, BytesOf, Holds
  <1>8. CASE Succeed \/ GiveUpAppend \/ Die
    <2>1. writer' = Free
      BY <1>8 DEF Succeed, GiveUpAppend, Die, Unlock
    <2> QED BY <2>1 DEF HolderSound, Free
  <1>9. CASE AddForeign
    <2>1. writer.step = "free" /\ writer' = writer /\ writer = Free
      BY <1>9 DEF AddForeign, Free
    <2> QED BY <2>1 DEF HolderSound, Free
  <1>10. CASE JournalTick
    <2>1. clock' = clock + 1 /\ UNCHANGED <<journal, writer, stamp>>
      BY <1>10 DEF JournalTick
    <2>2. writer.rec # NoReceipt => (LiveNow(writer.rec)' => LiveNow(writer.rec))
      <3>1. /\ clock \in Nat /\ TTL \in Nat
            /\ writer.rec # NoReceipt => stamp[writer.rec] \in Nat
        BY <1>0, JournalAssumption DEF JournalTypeOK
      <3> QED BY <2>1, <3>1 DEF LiveNow
    <2> QED BY <2>1, <2>2 DEF HolderSound, FitsTrimmed, BytesOf, Holds
  <1>11. CASE UNCHANGED jvars
    BY <1>11 DEF jvars, HolderSound, LiveNow, FitsTrimmed, BytesOf, Holds
  <1> QED
    BY <1>1, <1>3, <1>4, <1>6, <1>7, <1>8, <1>9, <1>10, <1>11 DEF JournalNext

-----------------------------------------------------------------------------
\* The steps of the log, said of the file.
LEMMA LogSteps ==
    /\ \A r : LogOf' = Append(LogOf, r) /\ UNCHANGED <<SureOf, stamp, clock>> => Log!Add(r)
    /\ \A r : Log!Retains(Append(LogOf, r), LogOf') /\ UNCHANGED <<SureOf, stamp, clock>> => Log!AddTrimmed(r)
    /\ Log!Retains(LogOf, LogOf') /\ UNCHANGED <<SureOf, stamp, clock>> => Log!Compact
    /\ UNCHANGED <<LogOf, SureOf, stamp, clock>> => UNCHANGED Log!logvars
  <1>1. \A r : LogOf' = Append(LogOf, r) /\ UNCHANGED <<SureOf, stamp, clock>> => Log!Add(r)
    BY DEF LogOf, SureOf, Log!Add
  <1>2. \A r : Log!Retains(Append(LogOf, r), LogOf') /\ UNCHANGED <<SureOf, stamp, clock>> => Log!AddTrimmed(r)
    BY DEF LogOf, SureOf, Log!AddTrimmed
  <1>3. Log!Retains(LogOf, LogOf') /\ UNCHANGED <<SureOf, stamp, clock>> => Log!Compact
    BY DEF LogOf, SureOf, Log!Compact
  <1>4. UNCHANGED <<LogOf, SureOf, stamp, clock>> => UNCHANGED Log!logvars
    BY DEF LogOf, SureOf, Log!logvars
  <1> QED BY <1>1, <1>2, <1>3, <1>4

\* A filter on receipts keeps the receipts of a list.
LEMMA HoldsAmong ==
    ASSUME NEW s \in Seq(Lines), NEW r \in Receipts, Holds(s, r)
    PROVE  Holds(Among(s, Receipts), r)
  <1> DEFINE t == Among(s, Receipts)
  <1>1. \A i \in DOMAIN s : s[i] \in Receipts => \E k \in DOMAIN t : t[k] = s[i]
    BY AmongShape
  <1> HIDE DEF t
  <1>2. Holds(t, r)
    BY <1>1 DEF Holds
  <1> QED BY <1>2 DEF t

\* What the log holds of a file that grew by a line.
LEMMA LogGrows ==
    ASSUME NEW s \in Seq(Lines)
    PROVE  /\ Among(s, Receipts) \in Seq(Receipts)
           /\ \A r \in Receipts : Among(Append(s, r), Receipts) = Append(Among(s, Receipts), r)
           /\ Among(Append(s, Foreign), Receipts) = Among(s, Receipts)
  <1>1. Foreign \notin Receipts
    BY JournalAssumption
  <1>2. Among(s, Receipts) \in Seq(Receipts)
    <2> DEFINE t == Among(s, Receipts)
    <2>1. t \in Seq(Lines) /\ \A k \in DOMAIN t : t[k] \in Receipts
      BY AmongShape
    <2> HIDE DEF t
    <2>2. t \in Seq(Receipts)
      BY <2>1
    <2> QED BY <2>2 DEF t
  <1>3. ASSUME NEW r \in Receipts PROVE Among(Append(s, r), Receipts) = Append(Among(s, Receipts), r)
    <2>1. r \in Lines
      BY DEF Lines
    <2> QED BY <2>1, AmongAppend
  <1>4. Among(Append(s, Foreign), Receipts) = Among(s, Receipts)
    <2>1. Foreign \in Lines
      BY DEF Lines
    <2> QED BY <1>1, <2>1, AmongAppend
  <1> QED BY <1>2, <1>3, <1>4

\* The file with a receipt at its end, and the same without it: a step back.
LEMMA LogShrinks ==
    ASSUME NEW s \in Seq(Lines), NEW r \in Receipts, LogOf = Among(Append(s, r), Receipts),
           LogOf' = Among(s, Receipts), fate[r] # "stored", UNCHANGED <<SureOf, stamp, clock>>
    PROVE  Log!Withdraw
  <1> DEFINE t == Among(s, Receipts)
  <1>1. t \in Seq(Receipts) /\ LogOf = Append(t, r) /\ LogOf' = t
    BY LogGrows
  <1> HIDE DEF t
  <1>2. LogOf # <<>> /\ LogOf[Len(LogOf)] = r /\ SubSeq(LogOf, 1, Len(LogOf) - 1) = t
    BY <1>1
  <1>3. r \notin SureOf
    BY DEF SureOf
  <1>4. LogOf # <<>> /\ Log!Last(LogOf) \notin SureOf /\ LogOf' = Log!Front(LogOf)
    BY <1>1, <1>2, <1>3 DEF Log!Last, Log!Front
  <1> QED BY <1>4 DEF Log!Withdraw, LogOf, SureOf

\* The receipt whose append ends is sure only if the append succeeds.
LEMMA SureAfter ==
    ASSUME JournalInv, NEW outcome \in {"stored", "refused", "lost"}, Unlock(outcome), writer.step # "free"
    PROVE  SureOf' = IF outcome = "stored" /\ writer.rec # NoReceipt THEN SureOf \cup {writer.rec} ELSE SureOf
  <1>0. JournalTypeOK /\ WriterSound
    BY DEF JournalInv
  <1>1. /\ writer.rec \in Receipts \cup {NoReceipt} /\ NoReceipt \notin Receipts
        /\ writer.rec # NoReceipt => fate[writer.rec] = "busy"
    BY <1>0, JournalAssumption DEF JournalTypeOK, WriterSound
  <1>2. \A r \in Receipts : fate'[r] = IF r = writer.rec THEN outcome ELSE fate[r]
    BY DEF Unlock
  <1> QED BY <1>1, <1>2 DEF SureOf
\* Every step of the journal is a step of the log, or the log does not see it.
LEMMA LogFollows ==
    ASSUME FollowInv, [JournalNext]_jvars
    PROVE  [Log!LogNext]_(Log!logvars)
  <1>0. JournalInv /\ HolderSound /\ JournalTypeOK /\ WriterSound
    BY DEF FollowInv, JournalInv
  <1>1. /\ journal.lines \in Seq(Lines) /\ writer.before \in Seq(Lines) /\ Readable \in Seq(Lines)
        /\ journal.tail # "whole" => Readable = journal.lines
        /\ journal.tail = "whole" => Readable = Append(journal.lines, journal.of) /\ journal.of \in Receipts
    BY <1>0, JournalShape
  <1>2. ASSUME UNCHANGED <<LogOf, SureOf, stamp, clock>> PROVE UNCHANGED Log!logvars
    BY <1>2, LogSteps
  <1>3. ASSUME UNCHANGED <<journal, fate, stamp, clock>> PROVE UNCHANGED Log!logvars
    BY <1>2, <1>3 DEF LogOf, SureOf, Readable
  <1>4. ASSUME NEW r \in Receipts, MakeReceipt(r) PROVE Log!LogNext
    <2>1. /\ fate[r] = "new" /\ fate' = [fate EXCEPT ![r] = "waiting"] /\ stamp' = [stamp EXCEPT ![r] = clock]
          /\ UNCHANGED <<journal, clock>>
      BY <1>4 DEF MakeReceipt
    <2>2. SureOf' = SureOf
      <3>1. \A x \in Receipts : fate'[x] = IF x = r THEN "waiting" ELSE fate[x]
        BY <1>0, <2>1 DEF JournalTypeOK
      <3> QED BY <2>1, <3>1 DEF SureOf
    <2>3. LogOf' = LogOf
      BY <2>1 DEF LogOf, Readable
    <2>4. Log!Make(r)
      BY <2>1, <2>2, <2>3 DEF Log!Make, LogOf, SureOf
    <2> QED BY <2>4 DEF Log!LogNext
  <1>5. ASSUME NEW r \in Receipts, LockToAppend(r) PROVE UNCHANGED Log!logvars
    <2>1. fate[r] = "waiting" /\ fate' = [fate EXCEPT ![r] = "busy"] /\ UNCHANGED <<journal, stamp, clock>>
      BY <1>5 DEF LockToAppend
    <2>2. SureOf' = SureOf
      <3>1. \A x \in Receipts : fate'[x] = IF x = r THEN "busy" ELSE fate[x]
        BY <1>0, <2>1 DEF JournalTypeOK
      <3> QED BY <2>1, <3>1 DEF SureOf
    <2>3. LogOf' = LogOf
      BY <2>1 DEF LogOf, Readable
    <2> QED BY <1>2, <2>1, <2>2, <2>3
  <1>6. CASE LockToLoad
    BY <1>3, <1>6 DEF LockToLoad
  <1>7. CASE WriteSome
    <2>1. /\ journal.tail = "none" /\ journal' = [journal EXCEPT !.tail = "torn", !.of = writer.rec]
          /\ UNCHANGED <<fate, stamp, clock>>
      BY <1>7 DEF WriteSome, Fast
    <2>2. journal'.lines = journal.lines /\ journal'.tail = "torn"
      BY <1>0, <2>1 DEF JournalTypeOK
    <2>3. Readable' = Readable
      BY <2>1, <2>2 DEF Readable
    <2> QED BY <1>2, <2>1, <2>3 DEF LogOf, SureOf
  <1>8. CASE WriteLine
    <2>1. /\ journal.tail = "torn" /\ journal' = [journal EXCEPT !.tail = "whole"]
          /\ UNCHANGED <<fate, stamp, clock>> /\ writer.rec \in Receipts /\ journal.of = writer.rec
      BY <1>0, <1>8 DEF WriteLine, WriterSound
    <2>2. journal'.lines = journal.lines /\ journal'.tail = "whole" /\ journal'.of = writer.rec
      BY <1>0, <2>1 DEF JournalTypeOK
    <2>3. Readable = journal.lines /\ Readable' = Append(journal.lines, writer.rec)
      BY <2>1, <2>2 DEF Readable
    <2>4. LogOf' = Append(LogOf, writer.rec)
      BY <1>1, <2>1, <2>3, LogGrows DEF LogOf
    <2>5. Log!Add(writer.rec)
      BY <2>1, <2>4, LogSteps DEF SureOf
    <2> QED BY <2>1, <2>5 DEF Log!LogNext
  <1>9. CASE EndLine
    <2>1. /\ journal.tail = "whole" /\ journal' = Ended(Append(journal.lines, journal.of))
          /\ UNCHANGED <<fate, stamp, clock>>
      BY <1>0, <1>9 DEF EndLine, WriterSound
    <2>2. Readable' = Readable
      BY <2>1 DEF Readable, Ended
    <2> QED BY <1>2, <2>1, <2>2 DEF LogOf, SureOf
  <1>10. CASE TooSlow
    BY <1>3, <1>10 DEF TooSlow
  <1>11. CASE WriteFails
    <2>1. /\ writer.step \in {"torn", "whole", "ended"} /\ UNCHANGED <<fate, stamp, clock>>
          /\ writer.rec \in Receipts /\ SureOf' = SureOf
          /\ journal' = Ended(writer.before) \/ journal' = journal
      BY <1>0, <1>11 DEF WriteFails, WriterSound, CutBack, SureOf
    <2>2. fate[writer.rec] # "stored"
      BY <1>0, <2>1, JournalAssumption DEF WriterSound
    <2>3. CASE journal' = journal
      BY <1>3, <2>1, <2>3
    <2>4. CASE journal' = Ended(writer.before)
      <3>1. Readable' = writer.before
        BY <2>4 DEF Readable, Ended
      <3>2. CASE writer.step = "torn"
        <4>1. Readable = writer.before
          BY <1>0, <1>1, <3>2 DEF WriterSound
        <4> QED BY <1>2, <2>1, <3>1, <4>1 DEF LogOf
      <3>3. CASE writer.step # "torn"
        <4>1. Readable = Append(writer.before, writer.rec)
          BY <1>0, <1>1, <2>1, <3>3 DEF WriterSound
        <4>2. Log!Withdraw
          BY <1>1, <2>1, <2>2, <3>1, <4>1, LogShrinks DEF LogOf
        <4> QED BY <4>2 DEF Log!LogNext
      <3> QED BY <3>2, <3>3
    <2> QED BY <2>1, <2>3, <2>4
  <1>12. CASE Replace
    <2>1. /\ Owned(Readable) /\ journal' = Ended(Kept) /\ UNCHANGED <<fate, stamp, clock>>
          /\ writer.rec \in Receipts \cup {NoReceipt} /\ NoReceipt \notin Receipts
      BY <1>0, <1>12, JournalAssumption DEF Replace, JournalTypeOK
    <2>2. Readable \in Seq(Receipts)
      BY <1>1, <2>1 DEF Owned
    <2>3. LogOf = Readable /\ SureOf' = SureOf
      BY <2>1, <2>2, AmongAll DEF LogOf, SureOf
    <2>4. Readable' = Kept
      BY <2>1 DEF Readable, Ended
    <2>5. /\ MaxRecords \in MaxRecords - RecordSlack .. MaxRecords
          /\ MaxRecords - RecordSlack \in MaxRecords - RecordSlack .. MaxRecords
          /\ MaxBytes \in MaxBytes - ByteSlack .. MaxBytes
          /\ MaxBytes - ByteSlack \in MaxBytes - ByteSlack .. MaxBytes
          /\ MaxRecords - RecordSlack \in 0 .. MaxRecords /\ MaxRecords \in 0 .. MaxRecords
          /\ MaxBytes - ByteSlack \in Nat /\ MaxBytes \in Nat
      BY JournalAssumption
    <2>6. CASE writer.rec = NoReceipt
      <3>1. Kept = Retained(Readable, MaxRecords, MaxBytes)
        BY <2>6 DEF Kept
      <3>2. Kept \in Seq(Receipts) /\ Log!Retains(Readable, Kept)
        BY <2>2, <2>5, <3>1, KeptShape, RetainedRetains
      <3>3. LogOf' = Kept
        BY <2>4, <3>2, AmongAll DEF LogOf
      <3>4. Log!Compact
        BY <2>1, <2>3, <3>2, <3>3, LogSteps
      <3> QED BY <3>4 DEF Log!LogNext
    <2>7. CASE writer.rec \in Receipts
      <3>1. Kept = Retained(Append(Readable, writer.rec), MaxRecords - RecordSlack, MaxBytes - ByteSlack)
        BY <2>1, <2>7 DEF Kept
      <3>2. Append(Readable, writer.rec) \in Seq(Receipts)
        BY <2>2, <2>7
      <3>3. Kept \in Seq(Receipts) /\ Log!Retains(Append(Readable, writer.rec), Kept)
        BY <2>5, <3>1, <3>2, KeptShape, RetainedRetains
      <3>4. LogOf' = Kept
        BY <2>4, <3>3, AmongAll DEF LogOf
      <3>5. Log!AddTrimmed(writer.rec)
        BY <2>1, <2>3, <3>3, <3>4, LogSteps
      <3> QED BY <2>7, <3>5 DEF Log!LogNext
    <2> QED BY <2>1, <2>6, <2>7
  <1>13. CASE Succeed
    <2>1. /\ writer.step \in {"ended", "replaced"} \/ (writer.step = "read" /\ writer.rec = NoReceipt)
          /\ Unlock("stored") /\ UNCHANGED <<journal, stamp, clock>>
          /\ writer.rec \in Receipts \cup {NoReceipt} /\ NoReceipt \notin Receipts
      BY <1>0, <1>13, JournalAssumption DEF Succeed, JournalTypeOK
    <2>2. SureOf' = IF writer.rec # NoReceipt THEN SureOf \cup {writer.rec} ELSE SureOf
      BY <1>0, <2>1, SureAfter
    <2>3. LogOf' = LogOf
      BY <2>1 DEF LogOf, Readable
    <2>4. CASE writer.rec = NoReceipt
      BY <1>2, <2>1, <2>2, <2>3, <2>4
    <2>5. CASE writer.rec \in Receipts
      <3>0. PICK r \in Receipts : r = writer.rec
        BY <2>5
      <3>1. LiveNow(r) /\ FitsTrimmed(r) => Holds(Readable, r)
        <4>1. CASE writer.step = "ended"
          <5>1. Readable = Append(writer.before, r)
            BY <1>0, <1>1, <3>0, <4>1 DEF WriterSound
          <5>2. Len(writer.before) + 1 \in DOMAIN Readable /\ Readable[Len(writer.before) + 1] = r
            BY <1>1, <5>1
          <5> QED BY <5>2 DEF Holds
        <4>2. CASE writer.step = "replaced"
          BY <1>0, <1>1, <2>1, <3>0, <4>2 DEF HolderSound
        <4> QED BY <2>1, <3>0, <4>1, <4>2
      <3>2. Holds(Readable, r) => Holds(LogOf, r)
        BY <1>1, HoldsAmong DEF LogOf
      <3>3. /\ Holds(LogOf, r) => r \in Log!ToSet(LogOf)
            /\ Log!Live(r) <=> LiveNow(r)
            /\ Log!Within(<<r>>, MaxRecords - RecordSlack, MaxBytes - ByteSlack) <=> FitsTrimmed(r)
        BY LogOperators DEF Holds, Log!ToSet, Log!Within, FitsTrimmed
      <3>4. \/ r \in Log!ToSet(LogOf) \/ ~ Log!Live(r)
            \/ ~ Log!Within(<<r>>, MaxRecords - RecordSlack, MaxBytes - ByteSlack)
        BY <3>1, <3>2, <3>3
      <3>5. SureOf' = SureOf \cup {r}
        BY <2>1, <2>2, <3>0
      <3>6. Log!Acknowledge(r)
        BY <2>1, <2>3, <3>4, <3>5 DEF Log!Acknowledge, LogOf, SureOf
      <3> QED BY <3>6 DEF Log!LogNext
    <2> QED BY <2>1, <2>4, <2>5
  <1>14. CASE GiveUpAppend \/ Die
    <2>1. PICK outcome \in {"refused", "lost"} : Unlock(outcome)
      BY <1>14 DEF GiveUpAppend, Die
    <2>2. writer.step # "free" /\ UNCHANGED <<journal, stamp, clock>>
      BY <1>0, <1>14 DEF GiveUpAppend, Die, HolderSound
    <2>3. SureOf' = SureOf
      BY <1>0, <2>1, <2>2, SureAfter
    <2>4. LogOf' = LogOf
      BY <2>2 DEF LogOf, Readable
    <2> QED BY <1>2, <2>2, <2>3, <2>4
  <1>15. CASE AddForeign
    <2>1. journal.tail = "none" /\ journal' = Ended(Append(journal.lines, Foreign)) /\ UNCHANGED <<fate, stamp, clock>>
      BY <1>15 DEF AddForeign
    <2>2. Readable = journal.lines /\ Readable' = Append(journal.lines, Foreign)
      BY <2>1 DEF Readable, Ended
    <2>3. LogOf' = LogOf
      BY <1>1, <2>2, LogGrows DEF LogOf
    <2> QED BY <1>2, <2>1, <2>3 DEF SureOf
  <1>16. CASE JournalTick
    <2>1. clock' = clock + 1 /\ UNCHANGED <<journal, fate, stamp>>
      BY <1>16 DEF JournalTick
    <2>2. LogOf' = LogOf /\ SureOf' = SureOf
      BY <2>1 DEF LogOf, SureOf, Readable
    <2>3. Log!Age
      BY <2>1, <2>2 DEF Log!Age, LogOf, SureOf
    <2> QED BY <2>3 DEF Log!LogNext
  <1>17. CASE UNCHANGED jvars
    BY <1>3, <1>17 DEF jvars
  <1> QED
    BY <1>4, <1>5, <1>6, <1>7, <1>8, <1>9, <1>10, <1>11, <1>12, <1>13, <1>14, <1>15, <1>16, <1>17 DEF JournalNext

\* The journal keeps what a log promises: its steps are appends, trims the retention rule allows
\* and take-backs of an append that has not returned true; a receipt whose append returned true
\* was in the log then, or was expired or too large (operator_receipts_v3.py), for any number of
\* receipts, any limits, any failed writes and holders that die.
THEOREM JournalFollowsLog == JournalSpec => FollowsLog
  <1>1. JournalInit => FollowInv /\ Log!LogInit
    <2> SUFFICES ASSUME JournalInit PROVE FollowInv /\ Log!LogInit
      OBVIOUS
    <2>1. JournalInv
      BY JournalInitOK
    <2>2. HolderSound
      BY DEF JournalInit, HolderSound, Free
    <2>3. Readable = <<>> /\ <<>> \in Seq(Receipts)
      BY DEF JournalInit, Readable
    <2>4. LogOf = <<>>
      BY <2>3, AmongAll DEF LogOf
    <2>5. SureOf = {} /\ stamp \in [Receipts -> {0}] /\ clock = 0
      BY DEF JournalInit, SureOf
    <2> QED BY <2>1, <2>2, <2>4, <2>5 DEF FollowInv, Log!LogInit, LogOf, SureOf
  <1>2. FollowInv /\ [JournalNext]_jvars => FollowInv'
    BY JournalNextOK, HolderNextOK DEF FollowInv
  <1>3. FollowInv /\ [JournalNext]_jvars => [Log!LogNext]_(Log!logvars)
    BY LogFollows
  <1> QED BY <1>1, <1>2, <1>3, PTL DEF JournalSpec, FollowsLog, Log!LogSpec

=============================================================================
