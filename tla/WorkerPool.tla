----------------------------- MODULE WorkerPool -----------------------------
(***************************************************************************)
(* The WorkerPool: one queue under mutex_, workers that wait on cond_, the *)
(* reactor threads that submit, and the destructor.                        *)
(*                                                                         *)
(* A critical section of mutex_ is one step.  The notification that        *)
(* follows it is a step of its own, because the code sends it after the    *)
(* lock is gone.                                                           *)
(***************************************************************************)
EXTENDS Naturals, Sequences, FiniteSets

CONSTANTS
    Workers,     \* threads of workers_
    Submitters,  \* reactor threads
    Tasks        \* the tasks they submit, each once

ASSUME PoolAssumption == IsFiniteSet(Workers) /\ Workers # {} /\ IsFiniteSet(Submitters)

VARIABLES
    tasks,     \* tasks_
    stopped,   \* whether ~WorkerPool has set stopped_
    wpc,       \* workers: before the lock, blocked in wait, in task(), gone,
               \* stuck for ever, or the one that brought the process down
    running,   \* the task a worker runs
    notifying, \* submitters between the push and notify_one
    dpc,       \* the destructor
    submitted, started, done   \* history: accepted, taken and finished tasks

poolVars == <<tasks, stopped, wpc, running, notifying, dpc>>
vars == <<poolVars, submitted, started, done>>

In(pc) == {w \in Workers : wpc[w] = pc}

(* The types; only a worker in task() has a task.                           *)
TypeOK ==
    /\ tasks \in Seq(Tasks) /\ submitted \in Seq(Tasks) /\ started \in Seq(Tasks)
    /\ stopped \in {"no", "yes"}
    /\ wpc \in [Workers -> {"lock", "wait", "run", "exit", "hung", "crashed"}]
    /\ running \in [Workers -> SUBSET Tasks]
    /\ notifying \subseteq Submitters
    /\ done \subseteq Tasks
    /\ dpc \in {"alive", "stop", "destroy", "join", "returned"}
    /\ \A w \in Workers : running[w] # {} => wpc[w] = "run"

Init ==
    /\ tasks = <<>> /\ stopped = "no"
    /\ wpc = [w \in Workers |-> "lock"]
    /\ running = [w \in Workers |-> {}]
    /\ notifying = {} /\ dpc = "alive"
    /\ submitted = <<>> /\ started = <<>> /\ done = {}

-----------------------------------------------------------------------------
(* submit: the push under the lock, then notify_one without it.             *)

Fresh(t) == \A i \in DOMAIN submitted : submitted[i] # t

Submit(s, t) ==
    /\ s \notin notifying /\ dpc = "alive" /\ Fresh(t)
    /\ IF stopped = "yes"
       THEN UNCHANGED <<tasks, submitted, notifying>>
       ELSE /\ tasks' = Append(tasks, t)
            /\ submitted' = Append(submitted, t)
            /\ notifying' = notifying \cup {s}
    /\ UNCHANGED <<stopped, wpc, running, dpc, started, done>>

NotifyOneMutant(s) ==
    /\ s \in notifying
    /\ notifying' = notifying \ {s}
    /\ IF In("wait") # Workers
       THEN UNCHANGED wpc
       ELSE \E w \in In("wait") : wpc' = [wpc EXCEPT ![w] = "lock"]
    /\ UNCHANGED <<tasks, stopped, running, dpc, submitted, started, done>>

NotifyOneMutant2(s) ==
    /\ s \in notifying
    /\ notifying' = notifying \ {s}
    /\ UNCHANGED <<tasks, stopped, wpc, running, dpc, submitted, started, done>>

NotifyOne(s) ==
    /\ s \in notifying
    /\ notifying' = notifying \ {s}
    /\ IF In("wait") = {}
       THEN UNCHANGED wpc
       ELSE \E w \in In("wait") : wpc' = [wpc EXCEPT ![w] = "lock"]
    /\ UNCHANGED <<tasks, stopped, running, dpc, submitted, started, done>>

-----------------------------------------------------------------------------
(* worker_loop.                                                             *)

\* The members live until the destructor's body is done.
Intact == dpc \notin {"join", "returned"}

\* No thread has brought the process down.
Up == In("crashed") = {}

\* cond_.wait with nothing to do: the mutex is released as the wait begins.
Wait(w) ==
    /\ wpc[w] = "lock" /\ Intact
    /\ stopped = "no" /\ tasks = <<>>
    /\ wpc' = [wpc EXCEPT ![w] = "wait"]
    /\ UNCHANGED <<tasks, stopped, running, notifying, dpc, submitted, started, done>>

\* A condition variable may wake up by itself.
SpuriousWakeup(w) ==
    /\ wpc[w] = "wait"
    /\ wpc' = [wpc EXCEPT ![w] = "lock"]
    /\ UNCHANGED <<tasks, stopped, running, notifying, dpc, submitted, started, done>>

TakeMutant(w) ==
    /\ wpc[w] = "lock" /\ Intact /\ tasks # <<>>
    /\ running' = [running EXCEPT ![w] = {Head(tasks)}]
    /\ started' = Append(started, Head(tasks))
    /\ wpc' = [wpc EXCEPT ![w] = "run"]
    /\ UNCHANGED <<tasks, stopped, notifying, dpc, submitted, done>>

Take(w) ==
    /\ wpc[w] = "lock" /\ Intact /\ tasks # <<>>
    /\ running' = [running EXCEPT ![w] = {Head(tasks)}]
    /\ started' = Append(started, Head(tasks))
    /\ tasks' = Tail(tasks)
    /\ wpc' = [wpc EXCEPT ![w] = "run"]
    /\ UNCHANGED <<stopped, notifying, dpc, submitted, done>>

\* The task returns or throws; both end in the next turn of the loop, and the
\* local task is gone.
Finish(w) ==
    /\ wpc[w] = "run" /\ Up
    /\ done' = done \cup running[w]
    /\ running' = [running EXCEPT ![w] = {}]
    /\ wpc' = [wpc EXCEPT ![w] = "lock"]
    /\ UNCHANGED <<tasks, stopped, notifying, dpc, submitted, started>>

\* Stopped and nothing left: the thread ends.
Leave(w) ==
    /\ wpc[w] = "lock" /\ Intact
    /\ stopped = "yes" /\ tasks = <<>>
    /\ wpc' = [wpc EXCEPT ![w] = "exit"]
    /\ UNCHANGED <<tasks, stopped, running, notifying, dpc, submitted, started, done>>

\* mutex_, cond_ and tasks_ are destroyed before workers_ is joined.  A worker
\* that comes back after that uses them, which is undefined: it may find the
\* queue empty and leave, hang on what is left of them, or end the process.
UseDestroyed(w) ==
    /\ wpc[w] = "lock" /\ ~Intact /\ Up
    /\ \E pc \in {"exit", "hung", "crashed"} : wpc' = [wpc EXCEPT ![w] = pc]
    /\ UNCHANGED <<tasks, stopped, running, notifying, dpc, submitted, started, done>>

Worker(w) == Wait(w) \/ Take(w) \/ Finish(w) \/ Leave(w) \/ UseDestroyed(w)

-----------------------------------------------------------------------------
(* ~WorkerPool, after the reactors are gone: the body, the members in       *)
(* reverse order of declaration, and the join of the jthreads.              *)

DestroyBegin ==
    /\ dpc = "alive" /\ notifying = {}
    /\ stopped' = "yes"
    /\ dpc' = "stop"
    /\ UNCHANGED <<tasks, wpc, running, notifying, submitted, started, done>>

NotifyAllMutant ==
    /\ dpc = "stop"
    /\ dpc' = "destroy"
    /\ IF In("wait") = {}
       THEN UNCHANGED wpc
       ELSE \E w \in In("wait") : wpc' = [wpc EXCEPT ![w] = "lock"]
    /\ UNCHANGED <<tasks, stopped, running, notifying, submitted, started, done>>

NotifyAll ==
    /\ dpc = "stop"
    /\ dpc' = "destroy"
    /\ wpc' = [w \in Workers |-> IF wpc[w] = "wait" THEN "lock" ELSE wpc[w]]
    /\ UNCHANGED <<tasks, stopped, running, notifying, submitted, started, done>>

DestroyMembers ==
    /\ dpc = "destroy"
    /\ dpc' = "join"
    /\ UNCHANGED <<tasks, stopped, wpc, running, notifying, submitted, started, done>>

JoinWorkersMutant ==
    /\ dpc = "join" /\ In("wait") = {}
    /\ dpc' = "returned"
    /\ UNCHANGED <<tasks, stopped, wpc, running, notifying, submitted, started, done>>

JoinWorkers ==
    /\ dpc = "join" /\ In("exit") = Workers
    /\ dpc' = "returned"
    /\ UNCHANGED <<tasks, stopped, wpc, running, notifying, submitted, started, done>>

Destructor == NotifyAll \/ DestroyMembers \/ JoinWorkers

\* The destructor has returned, or never will.
Terminated ==
    /\ dpc = "returned" \/ ~Up \/ In("hung") # {}
    /\ UNCHANGED vars

Next ==
    \/ \E s \in Submitters, t \in Tasks : Submit(s, t)
    \/ \E s \in Submitters : NotifyOne(s)
    \/ \E w \in Workers : Worker(w) \/ SpuriousWakeup(w)
    \/ DestroyBegin \/ Destructor
    \/ Terminated

Spec == Init /\ [][Next]_vars

(* Threads run on: a submitter sends its notification, a worker that is not *)
(* blocked goes on, the destructor too.  Nobody has to submit or to stop.   *)
Fairness ==
    /\ \A s \in Submitters : WF_vars(NotifyOne(s))
    /\ \A w \in Workers : WF_vars(Worker(w))
    /\ WF_vars(Destructor)
FairSpec == Spec /\ Fairness

-----------------------------------------------------------------------------
(* Safety.                                                                  *)

(* The pool is a queue: what was accepted is what was started followed by   *)
(* what is queued, in the order of acceptance, none lost, none twice.       *)
InOrder == submitted = started \o tasks

(* No wakeup is lost: while a worker sleeps, every queued task has somebody *)
(* coming for it, a worker on its way to the lock or a notification that is *)
(* still to be sent.                                                        *)
NoLostWakeup ==
    In("wait") # {} => Len(tasks) <= Cardinality(In("lock")) + Cardinality(notifying)

(* After notify_all no worker sleeps on a condition variable that is about  *)
(* to be destroyed.                                                         *)
NobodyAsleep == dpc \in {"destroy", "join", "returned"} => In("wait") = {}

(* The destructor leaves no task half done: when it has returned, what was  *)
(* accepted has finished, or was never taken from the queue.                *)
OnlyQueuedLost ==
    dpc = "returned" =>
        \A i \in DOMAIN submitted :
            submitted[i] \in done \/ \E j \in DOMAIN tasks : tasks[j] = submitted[i]

(* A pool implements the abstract queue of its users.                       *)
Queue == INSTANCE TaskQueue WITH queue <- tasks
QueueSpec == Queue!Spec

-----------------------------------------------------------------------------
(* Liveness.                                                                *)

(* An accepted task is finished, unless the pool is destroyed.              *)
EveryTaskRuns ==
    \A t \in Tasks : ~Fresh(t) ~> (t \in done \/ dpc # "alive")

(* The destructor returns, unless a worker came back after the members were *)
(* destroyed: the one thing that can keep it from returning is the use of   *)
(* mutex_, cond_ and tasks_ in worker_loop after their end.                 *)
DestructorReturns ==
    dpc # "alive" ~> (dpc = "returned" \/ In("hung") \cup In("crashed") # {})
=============================================================================
