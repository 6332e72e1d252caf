----------------------------- MODULE DaemonTasks -----------------------------
(***************************************************************************)
(* DaemonTask (src/wsp_core/daemon_tasks.py): a Future-like task on a daemon *)
(* thread, whose completion its owner learns from a callback that puts the   *)
(* task into the owner's queue.  The thread starts before the owner has       *)
(* registered the callback, so the two race.                                *)
(***************************************************************************)
EXTENDS Naturals, Sequences, FiniteSets

CONSTANTS
    Workers,   \* the tasks an owner may start
    Outcomes,  \* how a task may end
    None

VARIABLES
    thread,    \* thread[w]: "none" before it starts, "running", "ended" once _done is set
    result,    \* result[w]: what result(timeout=0) finds once it ended
    callback,  \* callback[w]: "none", "kept" in _callbacks, "taken" out of it, "run"
    queue      \* the owner's queue of completed tasks

tvars == <<thread, result, callback, queue>>

TasksInit ==
    /\ thread = [w \in Workers |-> "none"]
    /\ result = [w \in Workers |-> None]
    /\ callback = [w \in Workers |-> "none"]
    /\ queue = <<>>

\* __init__: the thread runs before the constructor has returned.
Start(w) ==
    /\ thread[w] = "none"
    /\ thread' = [thread EXCEPT ![w] = "running"]
    /\ UNCHANGED <<result, callback, queue>>

\* Faulty: a callback registered after the completion waits for it.
RegisterBlindly(w) ==
    /\ callback' = [callback EXCEPT ![w] = "kept"]
    /\ UNCHANGED <<thread, result, queue>>

\* add_done_callback: kept under the lock while the task runs, else called at once.
Register(w) ==
    /\ IF thread[w] = "ended"
       THEN /\ callback' = [callback EXCEPT ![w] = "run"]
            /\ queue' = Append(queue, w)
       ELSE /\ callback' = [callback EXCEPT ![w] = "kept"]
            /\ UNCHANGED queue
    /\ UNCHANGED <<thread, result>>

\* Faulty: an exception that is not expected ends the thread without being kept.
FinishDropsErrors(w) ==
    /\ thread[w] = "running"
    /\ \E o \in Outcomes : result' = [result EXCEPT ![w] = IF o = "scope" THEN None ELSE o]
    /\ thread' = [thread EXCEPT ![w] = "ended"]
    /\ callback' = [callback EXCEPT ![w] = IF @ = "kept" THEN "taken" ELSE @]
    /\ UNCHANGED queue

\* _run: the callbacks are taken and _done is set under one lock.
Finish(w) ==
    /\ thread[w] = "running"
    /\ \E o \in Outcomes : result' = [result EXCEPT ![w] = o]
    /\ thread' = [thread EXCEPT ![w] = "ended"]
    /\ callback' = [callback EXCEPT ![w] = IF @ = "kept" THEN "taken" ELSE @]
    /\ UNCHANGED queue

\* The worker thread runs the callback it took, after it has released the lock.
Notify(w) ==
    /\ callback[w] = "taken"
    /\ callback' = [callback EXCEPT ![w] = "run"]
    /\ queue' = Append(queue, w)
    /\ UNCHANGED <<thread, result>>

\* The tasks stay in their domains, and a task has a result or an exception exactly when
\* it has ended (DaemonTask._run sets one before it sets _done).
TasksTypeOK ==
    /\ thread \in [Workers -> {"none", "running", "ended"}]
    /\ result \in [Workers -> Outcomes \cup {None}]
    /\ callback \in [Workers -> {"none", "kept", "taken", "run"}]
    /\ queue \in Seq(Workers)
    /\ \A w \in Workers : result[w] = None <=> thread[w] # "ended"
=============================================================================
