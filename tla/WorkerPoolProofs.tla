-------------------------- MODULE WorkerPoolProofs --------------------------
(***************************************************************************)
(* The worker pool for any number of workers, submitters and tasks: it is  *)
(* a queue, and no wakeup is lost.                                         *)
(***************************************************************************)
EXTENDS WorkerPool, FiniteSetTheorems, TLAPS

(* Every state of the pool is well typed, and only a worker that is inside  *)
(* a task holds one.                                                        *)
THEOREM PoolTypeCorrect == Spec => []TypeOK
<1>1. Init => TypeOK
  BY DEF Init, TypeOK
<1>2. TypeOK /\ [Next]_vars => TypeOK'
  <2> SUFFICES ASSUME TypeOK, [Next]_vars PROVE TypeOK'
    OBVIOUS
  <2> USE DEF TypeOK
  <2>1. ASSUME NEW s \in Submitters, NEW t \in Tasks, Submit(s, t) PROVE TypeOK'
    <3>1. Append(tasks, t) \in Seq(Tasks) /\ Append(submitted, t) \in Seq(Tasks)
      OBVIOUS
    <3> QED
      BY <2>1, <3>1 DEF Submit
  <2>2. ASSUME NEW s \in Submitters, NotifyOne(s) PROVE TypeOK'
    BY <2>2 DEF NotifyOne, In
  <2>3. ASSUME NEW w \in Workers, Take(w) PROVE TypeOK'
    BY <2>3 DEF Take
  <2>4. ASSUME NEW w \in Workers, Finish(w) PROVE TypeOK'
    BY <2>4 DEF Finish
  <2>5. ASSUME NEW w \in Workers, Wait(w) \/ Leave(w) \/ UseDestroyed(w) \/ SpuriousWakeup(w)
        PROVE  TypeOK'
    BY <2>5 DEF Wait, Leave, UseDestroyed, SpuriousWakeup
  <2>6. CASE DestroyBegin \/ DestroyMembers \/ JoinWorkers
    BY <2>6 DEF DestroyBegin, DestroyMembers, JoinWorkers
  <2>7. CASE NotifyAll
    BY <2>7 DEF NotifyAll
  <2>8. CASE UNCHANGED vars
    BY <2>8 DEF vars, poolVars
  <2> QED
    BY <2>1, <2>2, <2>3, <2>4, <2>5, <2>6, <2>7, <2>8
       DEF Next, Worker, Destructor, Terminated
<1> QED
  BY <1>1, <1>2, PTL DEF Spec

-----------------------------------------------------------------------------
(* The pool as a queue.                                                     *)

(* A step of the pool is a put, a take or none of the queue's business.     *)
LEMMA PoolStep ==
  ASSUME TypeOK, [Next]_vars
  PROVE  \/ UNCHANGED <<tasks, started, submitted>>
         \/ \E t \in Tasks : /\ tasks' = Append(tasks, t) /\ started' = started
                             /\ submitted' = Append(submitted, t)
         \/ /\ tasks # <<>> /\ tasks' = Tail(tasks) /\ submitted' = submitted
            /\ started' = Append(started, Head(tasks))
<1>1. CASE \E s \in Submitters, t \in Tasks : Submit(s, t)
  BY <1>1 DEF Submit
<1>2. CASE \E s \in Submitters : NotifyOne(s)
  BY <1>2 DEF NotifyOne
<1>3. CASE \E w \in Workers : Worker(w) \/ SpuriousWakeup(w)
  BY <1>3 DEF Worker, SpuriousWakeup, Wait, Take, Finish, Leave, UseDestroyed
<1>4. CASE DestroyBegin \/ Destructor
  BY <1>4 DEF DestroyBegin, Destructor, NotifyAll, DestroyMembers, JoinWorkers
<1>5. CASE UNCHANGED vars
  BY <1>5 DEF vars, poolVars
<1> QED
  BY <1>1, <1>2, <1>3, <1>4, <1>5 DEF Next, Terminated

LEMMA ConcatAppend ==
  ASSUME NEW T, NEW p \in Seq(T), NEW q \in Seq(T), NEW x \in T
  PROVE  p \o Append(q, x) = Append(p \o q, x)
  OBVIOUS

LEMMA ConcatTake ==
  ASSUME NEW T, NEW p \in Seq(T), NEW q \in Seq(T), q # <<>>
  PROVE  Append(p, Head(q)) \o Tail(q) = p \o q
  OBVIOUS

(* Accepted tasks start in the order of their acceptance; none is lost and  *)
(* none is taken twice, however many workers compete for the queue.         *)
THEOREM TasksInOrder == Spec => []InOrder
<1>1. Init => InOrder
  BY DEF Init, InOrder
<1>2. TypeOK /\ InOrder /\ [Next]_vars => InOrder'
  <2> SUFFICES ASSUME TypeOK, InOrder, [Next]_vars PROVE InOrder'
    OBVIOUS
  <2>1. tasks \in Seq(Tasks) /\ started \in Seq(Tasks)
    BY DEF TypeOK
  <2>2. CASE UNCHANGED <<tasks, started, submitted>>
    BY <2>2 DEF InOrder
  <2>3. ASSUME NEW t \in Tasks, tasks' = Append(tasks, t), started' = started,
               submitted' = Append(submitted, t)
        PROVE  InOrder'
    <3>1. started \o Append(tasks, t) = Append(started \o tasks, t)
      BY <2>1, ConcatAppend
    <3> QED
      BY <2>3, <3>1 DEF InOrder
  <2>4. CASE /\ tasks # <<>> /\ tasks' = Tail(tasks) /\ submitted' = submitted
             /\ started' = Append(started, Head(tasks))
    BY <2>1, <2>4, ConcatTake DEF InOrder
  <2> QED
    BY <2>2, <2>3, <2>4, PoolStep
<1> QED
  BY <1>1, <1>2, PoolTypeCorrect, PTL DEF Spec

(* The pool with its mutex, condition variable and destructor implements    *)
(* the abstract queue that its users see.                                   *)
THEOREM PoolImplementsQueue == Spec => QueueSpec
<1>1. Init => Queue!Init
  BY DEF Init, Queue!Init
<1>2. TypeOK /\ [Next]_vars => [Queue!Next]_<<tasks, started>>
  BY PoolStep DEF Queue!Next, Queue!Put, Queue!Take
<1> QED
  BY <1>1, <1>2, PoolTypeCorrect, PTL DEF Spec, QueueSpec, Queue!Spec

-----------------------------------------------------------------------------
(* Wakeups.                                                                 *)

(* The destructor's notify_all reaches every sleeper, and after it nobody   *)
(* falls asleep: the members are never destroyed under a sleeping worker.   *)
NoSleepInv == NobodyAsleep /\ (dpc # "alive" => stopped = "yes")

LEMMA SpecNoSleep == Spec => []NoSleepInv
<1>1. Init => NoSleepInv
  BY DEF Init, NoSleepInv, NobodyAsleep
<1>2. TypeOK /\ NoSleepInv /\ [Next]_vars => NoSleepInv'
  <2> SUFFICES ASSUME TypeOK, NoSleepInv, [Next]_vars PROVE NoSleepInv'
    OBVIOUS
  <2> USE DEF TypeOK, NoSleepInv, NobodyAsleep, In
  <2>1. CASE \E s \in Submitters, t \in Tasks : Submit(s, t)
    BY <2>1 DEF Submit
  <2>2. CASE \E s \in Submitters : NotifyOne(s)
    BY <2>2 DEF NotifyOne
  <2>3. ASSUME NEW w \in Workers, Wait(w) PROVE NoSleepInv'
    BY <2>3 DEF Wait, Intact
  <2>4. ASSUME NEW w \in Workers,
               Take(w) \/ Finish(w) \/ Leave(w) \/ UseDestroyed(w) \/ SpuriousWakeup(w)
        PROVE  NoSleepInv'
    BY <2>4 DEF Take, Finish, Leave, UseDestroyed, SpuriousWakeup
  <2>5. CASE DestroyBegin \/ DestroyMembers \/ JoinWorkers
    BY <2>5 DEF DestroyBegin, DestroyMembers, JoinWorkers
  <2>6. CASE NotifyAll
    BY <2>6 DEF NotifyAll
  <2>7. CASE UNCHANGED vars
    BY <2>7 DEF vars, poolVars
  <2> QED
    BY <2>1, <2>2, <2>3, <2>4, <2>5, <2>6, <2>7 DEF Next, Worker, Destructor, Terminated
<1> QED
  BY <1>1, <1>2, PoolTypeCorrect, PTL DEF Spec

(* No worker sleeps on the condition variable once it may be destroyed.     *)
THEOREM SleepersWoken == Spec => []NobodyAsleep
<1>1. NoSleepInv => NobodyAsleep
  BY DEF NoSleepInv
<1> QED
  BY <1>1, SpecNoSleep, PTL

LEMMA LockFinite ==
  ASSUME TypeOK
  PROVE  /\ IsFiniteSet(In("lock")) /\ IsFiniteSet(notifying)
         /\ Cardinality(In("lock")) \in Nat /\ Cardinality(notifying) \in Nat
         /\ Len(tasks) \in Nat
<1>1. In("lock") \subseteq Workers /\ notifying \subseteq Submitters
  BY DEF In, TypeOK
<1>2. IsFiniteSet(In("lock")) /\ IsFiniteSet(notifying)
  BY <1>1, PoolAssumption, FS_Subset
<1> QED
  BY <1>2, FS_CardinalityType DEF TypeOK

(* The number of workers on their way to the lock after one joins them or   *)
(* leaves them.                                                             *)
LEMMA LockJoin ==
  ASSUME TypeOK, NEW w \in Workers, wpc[w] # "lock", wpc' = [wpc EXCEPT ![w] = "lock"]
  PROVE  Cardinality(In("lock")') = Cardinality(In("lock")) + 1
<1>1. In("lock")' = In("lock") \cup {w} /\ w \notin In("lock")
  BY DEF In, TypeOK
<1> QED
  BY <1>1, LockFinite, FS_AddElement

LEMMA LockLeave ==
  ASSUME TypeOK, NEW w \in Workers, wpc[w] = "lock", NEW pc, pc # "lock",
         wpc' = [wpc EXCEPT ![w] = pc]
  PROVE  Cardinality(In("lock")') = Cardinality(In("lock")) - 1
<1>1. In("lock")' = In("lock") \ {w} /\ w \in In("lock")
  BY DEF In, TypeOK
<1> QED
  BY <1>1, LockFinite, FS_RemoveElement

(* No wakeup is lost, whatever the order of pushes, notifications sent      *)
(* outside the lock, spurious wakeups and workers that overtake the one     *)
(* that was woken.                                                          *)
THEOREM WakeupsNeverLost == Spec => []NoLostWakeup
<1>1. Init => NoLostWakeup
  BY DEF Init, NoLostWakeup, In
<1>2. TypeOK /\ NoSleepInv /\ NoLostWakeup /\ [Next]_vars => NoLostWakeup'
  <2> SUFFICES ASSUME TypeOK, NoSleepInv, NoLostWakeup, [Next]_vars PROVE NoLostWakeup'
    OBVIOUS
  <2>0. /\ Cardinality(In("lock")) \in Nat /\ Cardinality(notifying) \in Nat /\ Len(tasks) \in Nat
        /\ IsFiniteSet(notifying)
    BY LockFinite
  <2>1. ASSUME NEW s \in Submitters, NEW t \in Tasks, Submit(s, t) PROVE NoLostWakeup'
    <3>1. CASE stopped = "yes"
      BY <2>1, <3>1 DEF Submit, NoLostWakeup, In
    <3>2. CASE stopped # "yes"
      <4>1. Cardinality(notifying') = Cardinality(notifying) + 1
        BY <2>0, <2>1, <3>2, FS_AddElement DEF Submit
      <4>2. Len(tasks') = Len(tasks) + 1 /\ wpc' = wpc
        BY <2>1, <3>2 DEF Submit, TypeOK
      <4> QED
        BY <2>0, <4>1, <4>2 DEF NoLostWakeup, In
    <3> QED
      BY <3>1, <3>2
  <2>2. ASSUME NEW s \in Submitters, NotifyOne(s) PROVE NoLostWakeup'
    <3>1. CASE In("wait") = {}
      BY <2>2, <3>1 DEF NotifyOne, NoLostWakeup, In
    <3>2. CASE In("wait") # {}
      <4>1. PICK w \in In("wait") : wpc' = [wpc EXCEPT ![w] = "lock"]
        BY <2>2, <3>2 DEF NotifyOne
      <4>2. Cardinality(In("lock")') = Cardinality(In("lock")) + 1
        BY <4>1, LockJoin DEF In
      <4>3. Cardinality(notifying') = Cardinality(notifying) - 1 /\ tasks' = tasks
        BY <2>0, <2>2, FS_RemoveElement DEF NotifyOne
      <4> QED
        BY <2>0, <3>2, <4>2, <4>3 DEF NoLostWakeup
    <3> QED
      BY <3>1, <3>2
  <2>3. ASSUME NEW w \in Workers, Wait(w) PROVE NoLostWakeup'
    <3>1. Len(tasks') = 0 /\ notifying' = notifying
      BY <2>3 DEF Wait
    <3>2. Cardinality(In("lock")') = Cardinality(In("lock")) - 1 /\ In("lock") # {}
      BY <2>3, LockLeave DEF Wait, In
    <3>3. Cardinality(In("lock")) # 0
      BY <3>2, LockFinite, FS_EmptySet
    <3> QED
      BY <2>0, <3>1, <3>2, <3>3 DEF NoLostWakeup
  <2>4. ASSUME NEW w \in Workers, SpuriousWakeup(w) \/ Finish(w) PROVE NoLostWakeup'
    <3>1. Cardinality(In("lock")') = Cardinality(In("lock")) + 1
      BY <2>4, LockJoin DEF SpuriousWakeup, Finish
    <3>2. UNCHANGED <<tasks, notifying>> /\ (In("wait")' # {} => In("wait") # {})
      BY <2>4 DEF SpuriousWakeup, Finish, In, TypeOK
    <3> QED
      BY <2>0, <3>1, <3>2 DEF NoLostWakeup
  <2>5. ASSUME NEW w \in Workers, Take(w) PROVE NoLostWakeup'
    <3>1. Cardinality(In("lock")') = Cardinality(In("lock")) - 1
      BY <2>5, LockLeave DEF Take
    <3>2. Len(tasks') = Len(tasks) - 1 /\ notifying' = notifying
      BY <2>5 DEF Take, TypeOK
    <3>3. In("wait")' # {} => In("wait") # {}
      BY <2>5 DEF Take, In, TypeOK
    <3> QED
      BY <2>0, <3>1, <3>2, <3>3 DEF NoLostWakeup
  <2>6. ASSUME NEW w \in Workers, Leave(w) PROVE NoLostWakeup'
    <3>1. Len(tasks') = 0 /\ notifying' = notifying
      BY <2>6 DEF Leave
    <3>2. Cardinality(In("lock")') = Cardinality(In("lock")) - 1 /\ In("lock") # {}
      BY <2>6, LockLeave DEF Leave, In
    <3>3. Cardinality(In("lock")) # 0
      BY <3>2, LockFinite, FS_EmptySet
    <3> QED
      BY <2>0, <3>1, <3>2, <3>3 DEF NoLostWakeup
  <2>7. ASSUME NEW w \in Workers, UseDestroyed(w) PROVE NoLostWakeup'
    <3>1. In("wait") = {}
      BY <2>7 DEF UseDestroyed, Intact, NoSleepInv, NobodyAsleep
    <3>2. In("wait")' = {}
      BY <2>7, <3>1 DEF UseDestroyed, In, TypeOK
    <3> QED
      BY <3>2 DEF NoLostWakeup
  <2>8. CASE DestroyBegin \/ DestroyMembers \/ JoinWorkers
    BY <2>8 DEF DestroyBegin, DestroyMembers, JoinWorkers, NoLostWakeup, In
  <2>9. CASE NotifyAll
    <3>1. In("wait")' = {}
      BY <2>9 DEF NotifyAll, In
    <3> QED
      BY <3>1 DEF NoLostWakeup
  <2>10. CASE UNCHANGED vars
    BY <2>10 DEF vars, poolVars, NoLostWakeup, In
  <2> QED
    BY <2>1, <2>2, <2>3, <2>4, <2>5, <2>6, <2>7, <2>8, <2>9, <2>10
       DEF Next, Worker, Destructor, Terminated
<1> QED
  BY <1>1, <1>2, PoolTypeCorrect, SpecNoSleep, PTL DEF Spec

-----------------------------------------------------------------------------
(* The end of the pool.                                                     *)

(* A task that was taken is finished or in the hands of a worker, and when  *)
(* the destructor has returned every worker is gone.                        *)
HandsInv ==
    /\ \A i \in DOMAIN started :
           started[i] \in done \/ \E w \in Workers : started[i] \in running[w]
    /\ dpc = "returned" => \A w \in Workers : wpc[w] = "exit"

LEMMA SpecHands == Spec => []HandsInv
<1>1. Init => HandsInv
  BY DEF Init, HandsInv
<1>2. TypeOK /\ HandsInv /\ [Next]_vars => HandsInv'
  <2> SUFFICES ASSUME TypeOK, HandsInv, [Next]_vars PROVE HandsInv'
    OBVIOUS
  <2>1. CASE \E s \in Submitters, t \in Tasks : Submit(s, t)
    BY <2>1 DEF Submit, HandsInv
  <2>2. CASE \E s \in Submitters : NotifyOne(s)
    BY <2>2 DEF NotifyOne, In, HandsInv, TypeOK
  <2>3. ASSUME NEW w \in Workers,
               Wait(w) \/ Leave(w) \/ UseDestroyed(w) \/ SpuriousWakeup(w)
        PROVE  HandsInv'
    BY <2>3 DEF Wait, Leave, UseDestroyed, SpuriousWakeup, HandsInv, TypeOK
  <2>4. ASSUME NEW w \in Workers, Take(w) PROVE HandsInv'
    <3>1. running[w] = {} /\ dpc # "returned" /\ running'[w] = {Head(tasks)}
      BY <2>4 DEF Take, Intact, TypeOK
    <3>2. \A v \in Workers : running[v] \subseteq running'[v]
      BY <2>4, <3>1 DEF Take, TypeOK
    <3>3. started' = Append(started, Head(tasks)) /\ UNCHANGED <<done, dpc>>
          /\ Head(tasks) \in Tasks
      BY <2>4 DEF Take, TypeOK
    <3>4. ASSUME NEW i \in DOMAIN started'
          PROVE  started'[i] \in done' \/ \E v \in Workers : started'[i] \in running'[v]
      <4>1. CASE i \in DOMAIN started
        BY <3>2, <3>3, <4>1 DEF HandsInv, TypeOK
      <4>2. CASE i \notin DOMAIN started
        <5>1. started'[i] = Head(tasks)
          BY <3>3, <4>2 DEF TypeOK
        <5> QED
          BY <3>1, <5>1
      <4> QED
        BY <4>1, <4>2
    <3> QED
      BY <3>1, <3>3, <3>4 DEF HandsInv
  <2>5. ASSUME NEW w \in Workers, Finish(w) PROVE HandsInv'
    <3>1. \A v \in Workers : running[v] \subseteq running'[v] \cup done'
      BY <2>5 DEF Finish, TypeOK
    <3>2. done \subseteq done' /\ UNCHANGED <<started, dpc>> /\ dpc # "returned"
      BY <2>5 DEF Finish, HandsInv
    <3> QED
      BY <3>1, <3>2 DEF HandsInv
  <2>6. CASE DestroyBegin \/ Destructor
    BY <2>6 DEF DestroyBegin, Destructor, NotifyAll, DestroyMembers, JoinWorkers, HandsInv, In
  <2>7. CASE UNCHANGED vars
    BY <2>7 DEF vars, poolVars, HandsInv
  <2> QED
    BY <2>1, <2>2, <2>3, <2>4, <2>5, <2>6, <2>7 DEF Next, Worker, Terminated
<1> QED
  BY <1>1, <1>2, PoolTypeCorrect, PTL DEF Spec

(* The destructor never returns with a task half done: what it loses was    *)
(* still in the queue, although it joins its workers last.                  *)
THEOREM DestructorFinishesTasks == Spec => []OnlyQueuedLost
<1>1. TypeOK /\ InOrder /\ HandsInv => OnlyQueuedLost
  <2> SUFFICES ASSUME TypeOK, InOrder, HandsInv, dpc = "returned",
                      NEW i \in DOMAIN submitted
               PROVE  submitted[i] \in done \/ \E j \in DOMAIN tasks : tasks[j] = submitted[i]
    BY DEF OnlyQueuedLost
  <2>1. \A w \in Workers : running[w] = {}
    BY DEF HandsInv, TypeOK
  <2>2. started \in Seq(Tasks) /\ tasks \in Seq(Tasks) /\ submitted = started \o tasks
    BY DEF TypeOK, InOrder
  <2>3. CASE i \in DOMAIN started
    <3>1. submitted[i] = started[i]
      BY <2>2, <2>3
    <3> QED
      BY <2>1, <2>3, <3>1 DEF HandsInv
  <2>4. CASE i \notin DOMAIN started
    <3>1. i - Len(started) \in DOMAIN tasks /\ submitted[i] = tasks[i - Len(started)]
      BY <2>2, <2>4
    <3> QED
      BY <3>1
  <2> QED
    BY <2>3, <2>4
<1> QED
  BY <1>1, PoolTypeCorrect, TasksInOrder, SpecHands, PTL
=============================================================================
