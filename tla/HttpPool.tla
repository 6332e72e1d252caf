------------------------------- MODULE HttpPool -------------------------------
(***************************************************************************)
(* The pool of keep-alive connections of http_client.py, as the threads of a *)
(* process and of a child forked from it use it: urlopen, its redirects and   *)
(* the one resend of a request whose reused connection was stale.            *)
(*                                                                         *)
(* A connection is a queue of the exchanges whose answers nobody has read.   *)
(* Whoever reads takes the oldest, whether or not it asked for it; a fork     *)
(* copies the pool, so both processes then hold the same sockets.            *)
(***************************************************************************)
EXTENDS Integers, SequencesExt

CONSTANTS
    ParentThreads, ChildThreads,   \* of the two processes
    Sockets,                       \* names of connections; one no process holds is free again
    NoSocket,
    MaxIdle,                       \* _KEEPALIVE_MAX_IDLE_PER_HOST
    MaxRedirects                   \* _MAX_REDIRECTS

ASSUME PoolAssumption == MaxIdle \in Nat /\ MaxRedirects \in Nat

VARIABLES
    idle,     \* [Processes -> Seq([socket, fresh])]: the idle list of one host, newest last
    mark,     \* [Processes -> the process the pool believes it is in]
    forked,   \* the child exists
    unread,   \* [Sockets -> Seq(Threads)]: exchanges that were sent, whose answers are unread
    hungUp,   \* sockets the server has closed
    call      \* [Threads -> the request it is making]

poolvars == <<idle, mark, forked, unread, hungUp, call>>

Processes    == {"parent", "child"}
Clients      == ParentThreads \cup ChildThreads
ProcessOf(t) == IF t \in ChildThreads THEN "child" ELSE "parent"
Waiting      == [step |-> "idle", socket |-> NoSocket, reused |-> FALSE, hops |-> 0, answer |-> NoSocket]

Held   == {call[t].socket : t \in Clients}
Unheld == Sockets \ (Held \cup UNION {{e.socket : e \in ToSet(idle[p])} : p \in Processes})

-----------------------------------------------------------------------------
PoolInit ==
    /\ idle = [p \in Processes |-> <<>>] /\ mark = [p \in Processes |-> p]
    /\ forked = FALSE
    /\ unread = [s \in Sockets |-> <<>>] /\ hungUp = {}
    /\ call = [t \in Clients |-> Waiting]

\* The sockets after a step; one that nobody holds any more is gone.
Wires(queues, closed) ==
    /\ unread' = [s \in Sockets |-> IF s \in Unheld' THEN <<>> ELSE queues[s]]
    /\ hungUp' = closed \ Unheld'

\* Mutant: the inherited list is used on.
OwnPoolAlways(p) == idle[p]

\* _check_pid: a child drops the list it inherited, without using a connection of it.
OwnPool(p) == IF mark[p] = p THEN idle[p] ELSE <<>>

\* A thread has connection s for its request, from the list or a new one.
OnConnection(t, s, reused) ==
    call' = [call EXCEPT ![t] = [call[t] EXCEPT
                !.step = "ready", !.socket = s, !.reused = reused, !.answer = NoSocket]]

\* _ConnectionPool.new: a connection nobody holds.
Connected(t) == Unheld # {} /\ OnConnection(t, CHOOSE s \in Unheld : TRUE, FALSE)

\* acquire.  Entries are stamped in the order of the list: if the newest has been idle for
\* too long, so have all others, and the loop closes every one.
Acquire(t) ==
    LET p == ProcessOf(t)  own == OwnPool(p) IN
    /\ call[t].step \in {"idle", "redirected"} /\ (p = "child" => forked)
    /\ mark' = [mark EXCEPT ![p] = p]
    /\ IF own # <<>> /\ Last(own).fresh
       THEN /\ idle' = [idle EXCEPT ![p] = Front(own)]
            /\ OnConnection(t, Last(own).socket, TRUE)
       ELSE idle' = [idle EXCEPT ![p] = <<>>] /\ Connected(t)
    /\ Wires(unread, hungUp)
    /\ UNCHANGED forked

Send(t) ==
    /\ call[t].step = "ready" /\ call[t].socket \notin hungUp
    /\ call' = [call EXCEPT ![t].step = "sent"]
    /\ unread' = [unread EXCEPT ![call[t].socket] = Append(@, t)]
    /\ UNCHANGED <<idle, mark, forked, hungUp>>

\* _STALE_CONNECTION_ERRORS, on sending or on reading: one more try if the connection was
\* a reused one, an error otherwise.
Stale(t) ==
    /\ call[t].step \in {"ready", "sent"} /\ call[t].socket \in hungUp
    /\ IF call[t].reused THEN Connected(t) ELSE call' = [call EXCEPT ![t] = Waiting]
    /\ UNCHANGED <<idle, mark, forked>>
    /\ Wires(unread, hungUp)

\* release: into the pool of this process, if there is room.
Freed(t) ==
    LET p == ProcessOf(t) IN
    IF mark[p] = p /\ Len(idle[p]) < MaxIdle
    THEN [idle EXCEPT ![p] = Append(@, [socket |-> call[t].socket, fresh |-> TRUE])]
    ELSE idle

AbandonedKept(t) == Freed(t)

\* Any other exception (a time-out, a body that is too large, an incomplete read) leaves
\* bytes behind: the connection is closed.
Abandoned(t) == idle

Abandon(t) ==
    /\ call[t].step = "sent"
    /\ idle' = Abandoned(t) /\ call' = [call EXCEPT ![t] = Waiting]
    /\ Wires(unread, hungUp)
    /\ UNCHANGED <<mark, forked>>

\* A complete answer was read.  A redirect to the same origin is followed with the next
\* acquire; the last one allowed, one elsewhere, and an error status are raised.
Read(t) ==
    LET s == call[t].socket IN
    /\ call[t].step = "sent" /\ s \notin hungUp /\ unread[s] # <<>>
    /\ \E willClose \in BOOLEAN : idle' = IF willClose THEN idle ELSE Freed(t)
    /\ \E redirect \in BOOLEAN :
          /\ redirect => call[t].hops < MaxRedirects
          /\ call' = [call EXCEPT ![t] = [Waiting EXCEPT
                        !.step = IF redirect THEN "redirected" ELSE "idle",
                        !.hops = IF redirect THEN call[t].hops + 1 ELSE 0,
                        !.answer = Head(unread[s])]]
    /\ Wires([unread EXCEPT ![s] = Tail(@)], hungUp)
    /\ UNCHANGED <<mark, forked>>

\* reset_connection_pool.
Reset(p) ==
    /\ p = "child" => forked
    /\ idle' = [idle EXCEPT ![p] = <<>>] /\ mark' = [mark EXCEPT ![p] = p]
    /\ UNCHANGED <<forked, call>>
    /\ Wires(unread, hungUp)

-----------------------------------------------------------------------------
\* The world outside the pool: a fork, a server that closes, idle time that passes.
Fork ==
    /\ ~forked /\ forked' = TRUE
    /\ idle' = [idle EXCEPT !["child"] = idle["parent"]]
    /\ mark' = [mark EXCEPT !["child"] = mark["parent"]]
    /\ UNCHANGED <<unread, hungUp, call>>

HangUp(s) ==
    /\ s \notin Unheld \cup hungUp /\ hungUp' = hungUp \cup {s}
    /\ UNCHANGED <<idle, mark, forked, unread, call>>

GrowOld(p) ==
    /\ idle[p] # <<>> /\ Last(idle[p]).fresh
    /\ idle' = [idle EXCEPT ![p] = [i \in DOMAIN @ |-> [@[i] EXCEPT !.fresh = FALSE]]]
    /\ UNCHANGED <<mark, forked, unread, hungUp, call>>

PoolNext ==
    \/ \E t \in Clients : Acquire(t) \/ Send(t) \/ Stale(t) \/ Abandon(t) \/ Read(t)
    \/ \E p \in Processes : Reset(p) \/ GrowOld(p)
    \/ Fork
    \/ \E s \in Sockets : HangUp(s)

PoolSpec == PoolInit /\ [][PoolNext]_poolvars

-----------------------------------------------------------------------------
\* Every answer a caller is given is the answer to the request it sent: no socket is used
\* by two threads or, after a fork, by two processes, and none goes back to the pool with
\* an answer still in it (_check_pid's "A forked child must never share TLS sockets with
\* its parent").
AnswersAreOwn == \A t \in Clients : call[t].answer \in {NoSocket, t}
=============================================================================
