------------------------ MODULE SubReactorOwnership ------------------------
(***************************************************************************)
(* Who holds a connection, and under which descriptor: the map is current, *)
(* no buffered reply is stranded, nothing survives the reactor, and no     *)
(* read is taken for the end of a stream that has not ended.               *)
(***************************************************************************)
EXTENDS SubReactorProofs

-----------------------------------------------------------------------------
(* The inductive invariant.                                                 *)

AddsOf(q) == {i \in DOMAIN q : q[i].op = "add"}

(* An open descriptor belongs to one accepted connection.                   *)
OwnerInv ==
    /\ \A c \in Conns : fdOf[c] # NoFd => c \in accepted
    /\ \A c, d \in Conns : fdOf[c] = fdOf[d] /\ fdOf[c] # NoFd => c = d

(* A queued add functor is the only one of its connection, which is not     *)
(* registered yet and, while it lives, has the descriptor of the functor.   *)
QueueOk(q) ==
    \A i \in AddsOf(q) :
        /\ q[i].conn \in accepted /\ interest[q[i].conn] = "none"
        /\ q[i].conn \in running => fdOf[q[i].conn] = q[i].fd
        /\ \A j \in AddsOf(q) : q[j].conn = q[i].conn => i = j
QueuesApart ==
    \A i \in AddsOf(pending), j \in AddsOf(functors) :
        pending[i].conn # functors[j].conn
QueueInv == QueueOk(pending) /\ QueueOk(functors) /\ QueuesApart

(* A live entry of the map is registered under its own descriptor, and a    *)
(* live registered socket is in the map, or about to be dropped.            *)
EntryInv ==
    /\ \A f \in Fds : connections[f] \in running =>
         fdOf[connections[f]] = f /\ interest[connections[f]] # "none"
    /\ \A c \in running :
         interest[c] # "none" /\ c \notin dropped => connections[fdOf[c]] = c

(* What the place of the reactor thread says of the map and the functors.   *)
PhaseInv ==
    /\ rpc \in {"read", "write", "reap"} => connections[cur.fd] = cur.conn
    /\ rpc # "functors" => dropped = {} /\ functors = <<>>
    /\ rpc = "done" => \A f \in Fds : connections[f] = NoConn

OwnInv == OwnerInv /\ QueueInv /\ EntryInv /\ PhaseInv

LEMMA InitOwnInv == Init => OwnInv
<1> SUFFICES ASSUME Init PROVE OwnInv
  OBVIOUS
<1> USE ConstAssumption DEF Init
<1>1. OwnerInv /\ EntryInv /\ PhaseInv
  BY DEF OwnerInv, EntryInv, PhaseInv
<1>2. QueueInv
  BY DEF QueueInv, QueueOk, QueuesApart, AddsOf
<1> QED
  BY <1>1, <1>2 DEF OwnInv

-----------------------------------------------------------------------------
(* Every step but an accept and the run of an add functor is quiet: it only *)
(* takes away.  Sockets are closed and entries erased, both of connections  *)
(* that do not live on, and no live connection loses its registration.      *)

Quiet ==
    /\ accepted' = accepted /\ running' \subseteq running
    /\ \A c \in Conns :
         /\ fdOf'[c] = fdOf[c] \/ (fdOf'[c] = NoFd /\ c \notin running')
         /\ interest'[c] # "none" => interest[c] # "none"
         /\ c \in running' /\ interest[c] # "none" => interest'[c] # "none"
    /\ \A f \in Fds : \/ connections'[f] = connections[f]
                      \/ connections'[f] = NoConn /\ connections[f] \notin running'
    /\ dropped \cap running' \subseteq dropped'

LEMMA QuietSame ==
  ASSUME UNCHANGED <<fdOf, interest, accepted, running, connections, dropped>>
  PROVE  Quiet
  BY DEF Quiet

LEMMA QuietShutdown ==
  ASSUME TypeInv, NEW S \in SUBSET Conns, Shutdown(S, {}), UNCHANGED <<accepted, connections>>,
         dropped \cap running' \subseteq dropped'
  PROVE  Quiet
  BY DEF Quiet, Shutdown, Unregister, TypeInv, TypeOK, KernelType, ConnType

LEMMA QuietLocked ==
  ASSUME TypeInv, NEW c \in Conns, NEW n, ShutdownLocked(c, n),
         UNCHANGED <<accepted, connections, dropped>>
  PROVE  Quiet
  BY DEF Quiet, ShutdownLocked, Unregister, TypeInv, TypeOK, KernelType, ConnType

(* EPOLL_CTL_MOD of sockets that are registered already.                    *)
LEMMA QuietCtl ==
  ASSUME TypeInv, NEW S \in SUBSET Conns, NEW i \in {"in", "inout"}, NEW q, EpollCtl(S, i, q),
         \A c \in S : interest[c] # "none",
         UNCHANGED <<fdOf, accepted, running, connections, dropped>>
  PROVE  Quiet
  BY DEF Quiet, EpollCtl, TypeInv, TypeOK, KernelType, ConnType

(* The map is current, so what close_connection unregisters by number is    *)
(* the connection it shuts down.                                            *)
LEMMA QuietClose ==
  ASSUME TypeInv, OwnInv, NEW F \in SUBSET Fds, CloseEntries(F),
         rpc # "functors", UNCHANGED <<accepted, dropped>>
  PROVE  Quiet
<1> USE DEF TypeInv, TypeOK, KernelType, ConnType, MapType, MapShape
<1> DEFINE S == {connections[f] : f \in Entries(F)}
<1>1. running' = running \ S
  BY DEF CloseEntries, Shutdown
<1>2. \A f \in Fds : \/ connections'[f] = connections[f]
                     \/ connections'[f] = NoConn /\ connections[f] \notin running'
  BY <1>1 DEF CloseEntries, Entries
<1>3. \A c \in Conns : /\ fdOf'[c] = fdOf[c] \/ (fdOf'[c] = NoFd /\ c \notin running')
                       /\ interest'[c] # "none" => interest[c] # "none"
  BY <1>1 DEF CloseEntries, Shutdown, Unregister
<1>4. ASSUME NEW c \in Conns, c \in running', interest[c] # "none"
      PROVE  interest'[c] # "none"
  <2>1. connections[fdOf[c]] = c
    BY <1>1, <1>4 DEF OwnInv, EntryInv, PhaseInv
  <2>2. fdOf[c] \notin Entries(F)
    BY <1>1, <1>4, <2>1
  <2> QED
    BY <1>1, <1>4, <2>2 DEF CloseEntries, Shutdown, Unregister
<1> QED
  BY <1>1, <1>2, <1>3, <1>4 DEF Quiet

(* The behaviours followed here are those in which no second close has hit   *)
(* the socket of another connection; the model stops where one does.        *)
Intact == cut = {} /\ cut' = {}

LEMMA CutEnds == [Next]_vars /\ cut # {} => cut' # {}
<1> SUFFICES ASSUME [Next]_vars, cut # {} PROVE cut' = cut
  OBVIOUS
<1>1. ~Reactor
  BY DEF Reactor, LoopTest, EpollWait, DispatchWake, DispatchTimer, DispatchClose, DispatchIo,
         HandleReadDead, HandleReadFails, HandleReadSubmit, HandleReadInline, NothingToWrite,
         HandleWrite, HandleWriteError, ReapCurrent, EndBatch, RunAdd, RunEnable, FunctorsDone,
         Cleanup, At
<1>2. ~\E w \in Workers : Worker(w)
  BY DEF Worker, TakeTask, SendReply, EnableWriting, EnableWritingWake, TaskShutdown, TaskClose,
         TaskReset, On
<1>3. ~ShutdownThread
  BY DEF ShutdownThread, ShutdownWake, RequestStop, JoinReactor, DestroyReactor, At
<1>4. ~\E c \in Conns : Client(c) \/ ResetSocket(c)
  BY DEF Client, ClientSend, ClientLeaves, ClientReads, ResetSocket
<1>5. ~\E c \in Conns, f \in Fds : AddConnection(c, f)
  BY DEF AddConnection
<1>6. ~AddConnectionWake /\ ~TimerFires /\ ~\E f \in Fds : DeadlinePasses(f)
  BY DEF AddConnectionWake, TimerFires, DeadlinePasses
<1>7. UNCHANGED vars
  BY <1>1, <1>2, <1>3, <1>4, <1>5, <1>6 DEF Next, Terminated
<1> QED
  BY <1>7 DEF vars, kernelVars, sockVars

(* The step that cuts, and the stutters after it, leave the threads, the    *)
(* map and the streams alone.                                               *)
frameVars == <<threadVars, inq, peer, running, connections, timeouts, spc, pending>>

LEMMA CutStep == [Next]_vars /\ cut' # {} => UNCHANGED frameVars
<1> SUFFICES ASSUME [Next]_vars, cut' # {} PROVE UNCHANGED frameVars
  OBVIOUS
<1> USE DEF kernelVars, sockVars
<1>1. CASE Reactor
  <2>1. CASE LoopTest \/ EpollWait \/ HandleReadDead \/ HandleReadFails \/ HandleReadSubmit
    BY <2>1 DEF LoopTest, EpollWait, HandleReadDead, HandleReadFails, HandleReadSubmit, Shutdown, At
  <2>2. CASE HandleReadInline
    <3>1. cut = {} /\ cut' = cut
      BY <2>2 DEF HandleReadInline, Shutdown, ShutdownLocked, At
    <3> QED
      BY <3>1
  <2>3. CASE NothingToWrite \/ HandleWrite \/ HandleWriteError \/ ReapCurrent
    BY <2>3 DEF NothingToWrite, HandleWrite, HandleWriteError, ReapCurrent, ShutdownLocked,
                CloseConnections, CloseEntries, Shutdown, At
  <2>4. CASE EndBatch \/ RunAdd \/ RunEnable \/ FunctorsDone \/ Cleanup
    BY <2>4 DEF EndBatch, RunAdd, RunEnable, FunctorsDone, Cleanup, CloseConnections,
                CloseEntries, Shutdown, At
  <2>5. ASSUME NEW e \in batch,
               DispatchWake(e) \/ DispatchTimer(e) \/ DispatchClose(e) \/ DispatchIo(e)
        PROVE  UNCHANGED frameVars
    BY <2>5 DEF DispatchWake, DispatchTimer, DispatchClose, DispatchIo, CheckTimeouts,
                CloseConnections, CloseEntries, Shutdown, At
  <2> QED
    BY <1>1, <2>1, <2>2, <2>3, <2>4, <2>5 DEF Reactor
<1>2. ASSUME NEW w \in Workers, Worker(w) PROVE UNCHANGED frameVars
  <2>1. CASE TaskReset(w)
    BY <2>1 DEF TaskReset, frameVars, stateVars, clientVars, serverVars
  <2>2. CASE TakeTask(w) \/ SendReply(w) \/ EnableWriting(w) \/ EnableWritingWake(w)
    BY <2>2 DEF TakeTask, SendReply, EnableWriting, EnableWritingWake, ShutdownLocked, On
  <2>3. CASE TaskShutdown(w) \/ TaskClose(w)
    BY <2>3 DEF TaskShutdown, TaskClose, On
  <2> QED
    BY <1>2, <2>1, <2>2, <2>3 DEF Worker
<1>3. CASE ShutdownThread
  BY <1>3 DEF ShutdownThread, ShutdownWake, RequestStop, JoinReactor, DestroyReactor,
              CloseEntries, Shutdown, At
<1>4. CASE \E c \in Conns : Client(c)
  BY <1>4 DEF Client, ClientSend, ClientLeaves, ClientReads
<1>5. CASE \/ \E c \in Conns, f \in Fds : AddConnection(c, f)
           \/ AddConnectionWake \/ TimerFires \/ \E f \in Fds : DeadlinePasses(f)
  BY <1>5 DEF AddConnection, AddConnectionWake, TimerFires, DeadlinePasses
<1>6. CASE \E c \in Conns : ResetSocket(c)
  BY <1>6 DEF ResetSocket, frameVars, stateVars, clientVars, serverVars
<1>7. CASE UNCHANGED vars
  BY <1>7 DEF vars, frameVars, stateVars, clientVars, connVars, serverVars
<1> QED
  BY <1>1, <1>2, <1>3, <1>4, <1>5, <1>6, <1>7 DEF Next, Terminated

(* A second close that hits nobody only forgets the number.                 *)
LEMMA SecondClose ==
  ASSUME TypeInv, NEW c \in Conns, CloseAgain(c), cut' = {}
  PROVE  /\ UNCHANGED <<fdOf, interest, armed>>
         /\ \A d \in Conns : outbuf'[d] = outbuf[d] \/ (d = c /\ outbuf'[d] = 0)
         /\ closing[c] # "no" => c \notin running
<1>1. {d \in Conns : fdOf[d] = sock[c]} = {}
  BY DEF CloseAgain
<1>2. Unregister({}, {})
  BY <1>1 DEF CloseAgain
<1>3. UNCHANGED <<fdOf, interest, armed>>
  BY <1>2 DEF Unregister, TypeInv, TypeOK, KernelType
<1>4. \A d \in Conns : outbuf'[d] = outbuf[d] \/ (d = c /\ outbuf'[d] = 0)
  BY DEF CloseAgain, TypeInv, TypeOK, ConnType
<1> QED
  BY <1>3, <1>4 DEF TypeInv, SocketShape

LEMMA QuietHandlers ==
  ASSUME TypeInv, OwnInv,
         \/ HandleReadFails \/ HandleReadInline \/ HandleWrite \/ HandleWriteError
  PROVE  Quiet
<1> DEFINE c == cur.conn
<1> USE DEF stateVars, connVars, kernelVars, sockVars
<1>1. c \in Conns
  BY DEF HandleReadFails, HandleReadInline, HandleWrite, HandleWriteError, TypeInv, TypeOK,
         CurShape, ConnType, At
<1>2. c \in running => interest[c] # "none"
  BY DEF HandleReadFails, HandleReadInline, HandleWrite, HandleWriteError, TypeInv, CurShape,
         OwnInv, EntryInv, PhaseInv, At
<1>3. CASE HandleReadFails
  BY <1>1, <1>3, QuietShutdown DEF HandleReadFails, At
<1>4. CASE HandleReadInline
  <2>1. UNCHANGED <<accepted, connections, dropped>> /\ c \in running
    BY <1>4 DEF HandleReadInline, At
  <2>2. CASE ShutdownLocked(c, MaxBuffer)
    BY <1>1, <2>1, <2>2, QuietLocked
  <2>3. CASE Shutdown({c}, {})
    BY <1>1, <2>1, <2>3, QuietShutdown
  <2>4. CASE EpollCtl({c}, "inout", inq') /\ UNCHANGED <<fdOf, running>>
    BY <1>1, <1>2, <2>1, <2>4, QuietCtl
  <2>5. CASE UNCHANGED <<interest, fdOf, running>>
    BY <2>1, <2>5, QuietSame
  <2> QED
    BY <1>4, <2>2, <2>3, <2>4, <2>5 DEF HandleReadInline, At
<1>5. CASE HandleWrite
  <2>1. UNCHANGED <<fdOf, accepted, running, connections, dropped>> /\ c \in running
    BY <1>5 DEF HandleWrite, At
  <2>2. CASE EpollCtl({c}, "in", inq)
    BY <1>1, <1>2, <2>1, <2>2, QuietCtl
  <2>3. CASE UNCHANGED interest
    BY <2>1, <2>3, QuietSame
  <2> QED
    BY <1>5, <2>2, <2>3 DEF HandleWrite, At
<1>6. CASE HandleWriteError
  BY <1>1, <1>6, QuietLocked DEF HandleWriteError, At
<1> QED
  BY <1>3, <1>4, <1>5, <1>6

LEMMA QuietReactor ==
  ASSUME TypeInv, OwnInv, Reactor, ~RunAdd
  PROVE  Quiet
<1> USE DEF stateVars, connVars, kernelVars, sockVars
<1>1. CASE LoopTest \/ EpollWait \/ NothingToWrite \/ HandleReadDead \/ HandleReadSubmit \/ EndBatch
  BY <1>1, QuietSame
     DEF LoopTest, EpollWait, NothingToWrite, HandleReadDead, HandleReadSubmit, EndBatch, At
<1>2. ASSUME NEW e \in batch, DispatchWake(e) \/ DispatchIo(e) PROVE Quiet
  BY <1>2, QuietSame DEF DispatchWake, DispatchIo, At
<1>3. ASSUME NEW e \in batch, DispatchTimer(e) PROVE Quiet
  <2>1. PICK expired \in SUBSET {f \in due : TimeoutApplies(f)} : CloseEntries(expired)
    BY <1>3 DEF DispatchTimer, CheckTimeouts, At
  <2>2. expired \in SUBSET Fds
    BY DEF TypeInv, TypeOK, MapType
  <2>3. UNCHANGED <<accepted, dropped>> /\ rpc # "functors"
    BY <1>3 DEF DispatchTimer, CheckTimeouts, At
  <2> QED
    BY <2>1, <2>2, <2>3, QuietClose
<1>4. ASSUME NEW e \in batch, DispatchClose(e) PROVE Quiet
  BY <1>4, QuietClose DEF DispatchClose, CloseConnections, At
<1>5. CASE HandleReadFails \/ HandleReadInline \/ HandleWrite \/ HandleWriteError
  BY <1>5, QuietHandlers
<1>6. CASE ReapCurrent
  <2>1. cur.fd \in Fds
    BY <1>6 DEF ReapCurrent, TypeInv, CurShape, At
  <2>2. CASE cur.conn \in running
    BY <1>6, <2>2, QuietSame DEF ReapCurrent, At
  <2>3. CASE cur.conn \notin running
    BY <1>6, <2>1, <2>3, QuietClose DEF ReapCurrent, CloseConnections, At
  <2> QED
    BY <2>2, <2>3
<1>7. CASE RunEnable
  <2>1. UNCHANGED <<fdOf, accepted, running, connections, dropped>>
    BY <1>7 DEF RunEnable, At
  <2>2. CASE EpollCtl(Registered(Head(functors).fd), "inout", inq)
    BY <2>1, <2>2, QuietCtl DEF Registered
  <2>3. CASE UNCHANGED interest
    BY <2>1, <2>3, QuietSame
  <2> QED
    BY <1>7, <2>2, <2>3 DEF RunEnable, At
<1>8. CASE FunctorsDone
  <2>1. dropped \in SUBSET Conns /\ Shutdown(dropped, {}) /\ UNCHANGED <<accepted, connections>>
    BY <1>8 DEF FunctorsDone, TypeInv, TypeOK, ReactorType, At
  <2>2. dropped \cap running' = {}
    BY <2>1 DEF Shutdown
  <2> QED
    BY <2>1, <2>2, QuietShutdown
<1>9. CASE Cleanup
  BY <1>9, QuietClose DEF Cleanup, CloseConnections, At
<1> QED
  BY <1>1, <1>2, <1>3, <1>4, <1>5, <1>6, <1>7, <1>8, <1>9 DEF Reactor

LEMMA QuietWorker ==
  ASSUME TypeInv, OwnInv, Intact, NEW w \in Workers, Worker(w)
  PROVE  Quiet
<1> USE DEF stateVars, connVars, kernelVars, sockVars, threadVars
<1>1. wpc[w] \in {"send", "close", "closing", "reset"} => wconn[w] \in Conns
  BY DEF TypeInv, TypeOK, WorkerShape, ConnType
<1>2. CASE TakeTask(w) \/ EnableWriting(w) \/ EnableWritingWake(w)
  BY <1>2, QuietSame DEF TakeTask, EnableWriting, EnableWritingWake, On
<1>3. CASE SendReply(w)
  <2>1. UNCHANGED <<accepted, connections, dropped>>
    BY <1>3 DEF SendReply, On
  <2>2. CASE ShutdownLocked(wconn[w], outbuf[wconn[w]])
    BY <1>1, <1>3, <2>1, <2>2, QuietLocked DEF SendReply, On
  <2>3. CASE UNCHANGED <<fdOf, interest, running>>
    BY <2>1, <2>3, QuietSame
  <2> QED
    BY <1>3, <2>2, <2>3 DEF SendReply, On
<1>4. CASE TaskShutdown(w)
  BY <1>4 DEF TaskShutdown, Quiet, On
<1>5. CASE TaskClose(w)
  <2>1. wconn[w] \in Conns /\ wconn[w] \notin running
    BY <1>1, <1>5 DEF TaskClose, TypeInv, WorkerShape, On
  <2> QED
    BY <1>5, <2>1 DEF TaskClose, Unregister, Quiet, TypeInv, TypeOK, KernelType, On
<1>6. CASE TaskReset(w)
  BY <1>1, <1>6, SecondClose, QuietSame DEF TaskReset, On, Intact
<1> QED
  BY <1>2, <1>3, <1>4, <1>5, <1>6 DEF Worker

LEMMA NextQuiet ==
  ASSUME TypeInv, OwnInv, FunctorInv, Intact, [Next]_vars, ~RunAdd,
         ~\E c \in Conns, f \in Fds : AddConnection(c, f)
  PROVE  Quiet
<1> USE DEF stateVars, connVars, kernelVars, sockVars, threadVars
<1>1. CASE Reactor
  BY <1>1, QuietReactor
<1>2. CASE \E w \in Workers : Worker(w)
  BY <1>2, QuietWorker
<1>3. CASE AddConnectionWake \/ TimerFires \/ \E f \in Fds : DeadlinePasses(f)
  BY <1>3, QuietSame DEF AddConnectionWake, TimerFires, DeadlinePasses
<1>4. CASE ShutdownWake \/ RequestStop
  BY <1>4, QuietSame DEF ShutdownWake, RequestStop
<1>5. CASE JoinReactor
  BY <1>5, QuietClose DEF JoinReactor, At
<1>6. CASE DestroyReactor
  <2>1. QueuedConns(pending) \in SUBSET Conns
    BY DEF QueuedConns, TypeInv, TypeOK, MapType, Functor
  <2> QED
    BY <1>6, <2>1, QuietShutdown DEF DestroyReactor
<1>7. CASE \E c \in Conns : Client(c)
  BY <1>7, QuietSame DEF Client, ClientSend, ClientLeaves, ClientReads
<1>8. CASE UNCHANGED vars
  BY <1>8, QuietSame DEF vars
<1>9. ASSUME NEW c \in Conns, ResetSocket(c) PROVE Quiet
  BY <1>9, SecondClose, QuietSame DEF ResetSocket, Intact
<1> QED
  BY <1>1, <1>2, <1>3, <1>4, <1>5, <1>6, <1>7, <1>8, <1>9 DEF Next, Terminated, ShutdownThread

-----------------------------------------------------------------------------
(* Each part of the invariant is kept by quiet steps, by an accept and by   *)
(* the run of an add functor.                                               *)

LEMMA QuietOwner == ASSUME TypeInv, OwnerInv, Quiet PROVE OwnerInv'
  BY DEF OwnerInv, Quiet

LEMMA QuietEntry == ASSUME TypeInv, TypeInv', Intact, EntryInv, Quiet PROVE EntryInv'
<1> USE ConstAssumption DEF EntryInv, Quiet, TypeInv, TypeOK, ConnType, MapType, KernelType
<1>1. ASSUME NEW f \in Fds, connections'[f] \in running'
      PROVE  fdOf'[connections'[f]] = f /\ interest'[connections'[f]] # "none"
  <2>1. connections'[f] = connections[f] /\ connections[f] \in Conns
    BY <1>1
  <2>2. fdOf[connections[f]] = f /\ interest[connections[f]] # "none"
    BY <1>1, <2>1
  <2> QED
    BY <1>1, <2>1, <2>2
<1>2. ASSUME NEW c \in running', interest'[c] # "none", c \notin dropped'
      PROVE  connections'[fdOf'[c]] = c
  BY <1>2 DEF SocketShape, Intact
<1> QED
  BY <1>1, <1>2

\* What QueueOk becomes for a queue q that the step does not change.
QueueKept(q) ==
    \A i \in AddsOf(q) :
        /\ q[i].conn \in accepted' /\ interest'[q[i].conn] = "none"
        /\ q[i].conn \in running' => fdOf'[q[i].conn] = q[i].fd
        /\ \A j \in AddsOf(q) : q[j].conn = q[i].conn => i = j

LEMMA QuietQueue ==
  ASSUME TypeInv, Quiet, NEW q \in Seq(Functor), QueueOk(q)
  PROVE  QueueKept(q)
  BY DEF QueueOk, QueueKept, AddsOf, Quiet, Functor

(* The changes to the queues that add no add functor.                       *)
QueueStep ==
    \/ UNCHANGED <<pending, functors>>
    \/ functors' = functors /\ \E f \in Fds :
         pending' = Append(pending, [op |-> "enable", fd |-> f, conn |-> NoConn])
    \/ functors' = functors /\ pending' = <<>>
    \/ functors' = pending /\ pending' = <<>>
    \/ functors # <<>> /\ functors' = Tail(functors) /\ pending' = pending

LEMMA NextQueueStep ==
  ASSUME TypeInv, [Next]_vars, ~\E c \in Conns, f \in Fds : AddConnection(c, f)
  PROVE  QueueStep
<1> USE DEF QueueStep, threadVars
<1>1. CASE LoopTest \/ EpollWait \/ HandleReadDead \/ HandleReadFails
           \/ HandleReadSubmit \/ HandleReadInline
  BY <1>1 DEF LoopTest, EpollWait, HandleReadDead, HandleReadFails,
              HandleReadSubmit, HandleReadInline, At
<1>2. CASE NothingToWrite \/ HandleWrite \/ HandleWriteError \/ ReapCurrent
  BY <1>2 DEF NothingToWrite, HandleWrite, HandleWriteError, ReapCurrent, At
<1>3. CASE EndBatch \/ RunAdd \/ RunEnable \/ FunctorsDone \/ Cleanup
  BY <1>3 DEF EndBatch, RunAdd, RunEnable, FunctorsDone, Cleanup, At
<1>4. CASE \E e \in batch : DispatchWake(e) \/ DispatchTimer(e) \/ DispatchClose(e) \/ DispatchIo(e)
  BY <1>4 DEF DispatchWake, DispatchTimer, DispatchClose, DispatchIo, At
<1>5. ASSUME NEW w \in Workers, Worker(w) PROVE QueueStep
  <2>1. CASE EnableWriting(w)
    BY <2>1 DEF EnableWriting, TypeInv, WorkerShape, On
  <2>2. CASE TakeTask(w) \/ SendReply(w) \/ EnableWritingWake(w) \/ TaskShutdown(w) \/ TaskClose(w)
              \/ TaskReset(w)
    BY <2>2 DEF TakeTask, SendReply, EnableWritingWake, TaskShutdown, TaskClose, TaskReset, On
  <2> QED
    BY <1>5, <2>1, <2>2 DEF Worker
<1>6. CASE ShutdownThread
  BY <1>6 DEF ShutdownThread, ShutdownWake, RequestStop, JoinReactor, DestroyReactor, At
<1>7. CASE AddConnectionWake \/ TimerFires \/ \E f \in Fds : DeadlinePasses(f)
  BY <1>7 DEF AddConnectionWake, TimerFires, DeadlinePasses
<1>8. CASE \E c \in Conns : Client(c)
  BY <1>8 DEF Client, ClientSend, ClientLeaves, ClientReads
<1>9. CASE UNCHANGED vars
  BY <1>9 DEF vars
<1>10. CASE \E c \in Conns : ResetSocket(c)
  BY <1>10 DEF ResetSocket
<1> QED
  BY <1>1, <1>2, <1>3, <1>4, <1>5, <1>6, <1>7, <1>8, <1>9, <1>10 DEF Next, Reactor, Terminated

LEMMA AppendAdds ==
  ASSUME NEW q \in Seq(Functor), NEW r, NEW f,
         r = Append(q, [op |-> "enable", fd |-> f, conn |-> NoConn])
  PROVE  AddsOf(r) = AddsOf(q) /\ \A i \in AddsOf(q) : r[i] = q[i]
<1>1. AddsOf(r) \subseteq AddsOf(q)
  BY DEF AddsOf
<1>2. AddsOf(q) \subseteq AddsOf(r)
  BY DEF AddsOf
<1>3. \A i \in AddsOf(q) : r[i] = q[i]
  BY DEF AddsOf
<1> QED
  BY <1>1, <1>2, <1>3

LEMMA TailAdds ==
  ASSUME NEW q \in Seq(Functor), q # <<>>
  PROVE  \A i \in AddsOf(Tail(q)) : i + 1 \in AddsOf(q) /\ Tail(q)[i] = q[i + 1] /\ i \in Nat
  BY DEF AddsOf, Functor

LEMMA QueueStepKeeps ==
  ASSUME TypeInv, OwnInv, QueueStep, QueueKept(pending), QueueKept(functors)
  PROVE  QueueInv'
<1>0. pending \in Seq(Functor) /\ functors \in Seq(Functor)
  BY DEF TypeInv, TypeOK, MapType, ReactorType
<1>6. QueuesApart
  BY DEF OwnInv, QueueInv
<1>1. CASE UNCHANGED <<pending, functors>>
  BY <1>1, <1>6 DEF QueueInv, QueueKept, QueueOk, QueuesApart
<1>2. ASSUME functors' = functors, NEW f \in Fds,
             pending' = Append(pending, [op |-> "enable", fd |-> f, conn |-> NoConn])
      PROVE  QueueInv'
  <2>1. AddsOf(pending') = AddsOf(pending) /\ \A i \in AddsOf(pending) : pending'[i] = pending[i]
    BY <1>0, <1>2, AppendAdds
  <2>2. QueueOk(pending)'
    BY <2>1 DEF QueueKept, QueueOk
  <2>3. QueueOk(functors)'
    BY <1>2 DEF QueueKept, QueueOk
  <2>4. ASSUME NEW i \in AddsOf(pending'), NEW j \in AddsOf(functors')
        PROVE  pending'[i].conn # functors'[j].conn
    BY <1>6, <1>2, <2>1, <2>4 DEF QueuesApart
  <2> QED
    BY <2>2, <2>3, <2>4 DEF QueueInv, QueuesApart
<1>3. CASE functors' = functors /\ pending' = <<>>
  BY <1>3 DEF QueueInv, QueueKept, QueueOk, QueuesApart, AddsOf
<1>4. CASE functors' = pending /\ pending' = <<>>
  BY <1>4 DEF QueueInv, QueueKept, QueueOk, QueuesApart, AddsOf
<1>5. CASE functors # <<>> /\ functors' = Tail(functors) /\ pending' = pending
  <2>1. \A i \in AddsOf(functors') : i + 1 \in AddsOf(functors) /\ functors'[i] = functors[i + 1] /\ i \in Nat
    BY <1>0, <1>5, TailAdds
  <2>2. QueueOk(functors)'
    BY <2>1 DEF QueueKept, QueueOk
  <2>3. QueueOk(pending)'
    BY <1>5 DEF QueueKept, QueueOk
  <2>4. ASSUME NEW i \in AddsOf(pending'), NEW j \in AddsOf(functors')
        PROVE  pending'[i].conn # functors'[j].conn
    BY <1>6, <1>5, <2>1, <2>4 DEF QueuesApart
  <2> QED
    BY <2>2, <2>3, <2>4 DEF QueueInv, QueuesApart
<1> QED
  BY <1>1, <1>2, <1>3, <1>4, <1>5 DEF QueueStep

(* An accept: the new connection is in no table yet.                        *)
LEMMA AcceptOwnInv ==
  ASSUME TypeInv, OwnInv, NEW c \in Conns, NEW f \in Fds, AddConnection(c, f)
  PROVE  OwnInv'
<1> USE DEF AddConnection, stateVars, threadVars
<1>1. fdOf[c] = NoFd /\ interest[c] = "none"
  BY ConstAssumption DEF OwnInv, OwnerInv, TypeInv, TypeOK, KernelType, SocketShape
<1>2. fdOf' = [fdOf EXCEPT ![c] = f] /\ fdOf \in [Conns -> Fds \cup {NoFd}] /\ interest' = interest
  BY DEF TypeInv, TypeOK, KernelType
<1>3. OwnerInv'
  BY <1>1, <1>2, ConstAssumption DEF OwnInv, OwnerInv
<1>4. EntryInv'
  BY <1>1, <1>2, ConstAssumption
     DEF OwnInv, EntryInv, TypeInv, TypeOK, MapShape, ConnType, MapType, ReactorType
<1>5. QueueInv'
  <2>1. pending \in Seq(Functor) /\ functors \in Seq(Functor)
    BY DEF TypeInv, TypeOK, MapType, ReactorType
  <2>2. QueueOk(pending) /\ QueueOk(functors) /\ QueuesApart
    BY DEF OwnInv, QueueInv
  <2>3. QueueOk(functors)'
    BY <1>2, <2>1, <2>2 DEF QueueOk, AddsOf, Functor
  <2>4. \A i \in AddsOf(pending') :
           \/ i \in AddsOf(pending) /\ pending'[i] = pending[i]
           \/ i = Len(pending) + 1 /\ pending'[i].conn = c /\ pending'[i].fd = f
    BY <2>1 DEF AddsOf
  <2>5. \A i \in AddsOf(pending) : i <= Len(pending) /\ pending[i].conn \in accepted
    BY <2>1, <2>2 DEF AddsOf, QueueOk
  <2>6. QueueOk(pending)'
    <3>1. ASSUME NEW i \in AddsOf(pending)
          PROVE  /\ pending[i].conn # c /\ pending[i].conn \in Conns
                 /\ interest'[pending[i].conn] = "none"
                 /\ pending[i].conn \in running' => fdOf'[pending[i].conn] = pending[i].fd
      BY <1>2, <2>1, <2>2, <2>5 DEF QueueOk, AddsOf, Functor
    <3>2. ASSUME NEW i \in AddsOf(pending')
          PROVE  /\ pending'[i].conn \in accepted' /\ interest'[pending'[i].conn] = "none"
                 /\ pending'[i].conn \in running' => fdOf'[pending'[i].conn] = pending'[i].fd
      <4>1. CASE i \in AddsOf(pending) /\ pending'[i] = pending[i]
        BY <2>5, <3>1, <4>1
      <4>2. CASE pending'[i].conn = c /\ pending'[i].fd = f
        BY <1>1, <1>2, <4>2
      <4> QED
        BY <2>4, <3>2, <4>1, <4>2
    <3>3. ASSUME NEW i \in AddsOf(pending'), NEW j \in AddsOf(pending'),
                 pending'[j].conn = pending'[i].conn
          PROVE  i = j
      BY <2>2, <2>4, <3>1, <3>3 DEF QueueOk
    <3> QED
      BY <3>2, <3>3 DEF QueueOk
  <2>7. \A j \in AddsOf(functors) : functors[j].conn \in accepted
    BY <2>2 DEF QueueOk
  <2>8. ASSUME NEW i \in AddsOf(pending'), NEW j \in AddsOf(functors')
        PROVE  pending'[i].conn # functors'[j].conn
    <3>1. j \in AddsOf(functors) /\ functors'[j] = functors[j]
      BY <2>8
    <3> QED
      BY <2>2, <2>4, <2>7, <3>1 DEF QueuesApart
  <2> QED
    BY <2>3, <2>6, <2>8 DEF QueueInv, QueuesApart
<1>6. PhaseInv'
  BY DEF OwnInv, PhaseInv
<1> QED
  BY <1>3, <1>4, <1>5, <1>6 DEF OwnInv

(* The run of an add functor: its connection is registered and goes into    *)
(* the map, or is dropped, or is shut down.                                 *)
LEMMA RunAddOwnInv ==
  ASSUME TypeInv, TypeInv', OwnInv, Intact, RunAdd
  PROVE  OwnInv'
<1> DEFINE f == Head(functors).fd
           c == Head(functors).conn
<1> USE DEF stateVars
<1>1. functors \in Seq(Functor) /\ functors # <<>> /\ functors' = Tail(functors)
      /\ pending' = pending /\ pending \in Seq(Functor)
  BY DEF RunAdd, TypeInv, TypeOK, MapType, ReactorType, At
<1>2. f \in Fds /\ c \in Conns /\ 1 \in AddsOf(functors) /\ functors[1] = Head(functors)
  BY <1>1 DEF RunAdd, Functor, AddsOf, At
<1>3. c \in accepted /\ interest[c] = "none" /\ (c \in running => fdOf[c] = f)
  BY <1>2 DEF OwnInv, QueueInv, QueueOk
<1>4. QueueOk(pending) /\ QueueOk(functors) /\ QueuesApart
  BY DEF OwnInv, QueueInv
<1>5. QueueStep
  BY <1>1 DEF QueueStep
<1>6. PhaseInv'
  BY DEF RunAdd, OwnInv, PhaseInv, At
<1>7. CASE Shutdown({c}, {}) /\ UNCHANGED <<connections, timeouts, due, active, dropped>>
  <2>1. Quiet
    BY <1>2, <1>7, QuietShutdown DEF RunAdd, At
  <2>2. OwnerInv' /\ EntryInv'
    BY <2>1, QuietOwner, QuietEntry DEF OwnInv
  <2>3. QueueInv'
    BY <1>1, <1>4, <1>5, <2>1, QuietQueue, QueueStepKeeps
  <2> QED
    BY <1>6, <2>2, <2>3 DEF OwnInv
<1>8. ASSUME c \in running, EpollCtl({c}, "in", inq),
             UNCHANGED <<fdOf, running>>,
             \/ dropped' = dropped \cup {c} /\ connections' = connections
             \/ /\ connections[f] = NoConn /\ dropped' = dropped
                /\ connections' = [connections EXCEPT ![f] = c]
      PROVE  OwnInv'
  <2>1. /\ interest' = [d \in Conns |-> IF d = c THEN "in" ELSE interest[d]]
        /\ accepted' = accepted
    BY <1>8 DEF EpollCtl, RunAdd, At
  <2>2. OwnerInv'
    BY <1>8, <2>1 DEF OwnInv, OwnerInv
  <2>3. \A i \in AddsOf(pending) : pending[i].conn # c
    BY <1>2, <1>4 DEF QueuesApart
  <2>4. \A i \in AddsOf(functors') : i + 1 \in AddsOf(functors) /\ functors'[i] = functors[i + 1] /\ i \in Nat
    BY <1>1, TailAdds
  <2>5. \A i \in AddsOf(functors') : functors'[i].conn # c /\ i # 0
    <3>1. \A i \in AddsOf(functors') : i # 0
      BY <1>1 DEF AddsOf
    <3> QED
      BY <1>2, <1>4, <2>4, <3>1 DEF QueueOk
  <2>6. QueueOk(pending)'
    <3>1. \A i \in AddsOf(pending) : pending[i].conn \in Conns
      BY <1>1 DEF AddsOf, Functor
    <3> QED
      BY <1>1, <1>4, <1>8, <2>1, <2>3, <3>1 DEF QueueOk
  <2>7. QueueOk(functors)'
    <3>1. \A i \in AddsOf(functors) : functors[i].conn \in Conns
      BY <1>1 DEF AddsOf, Functor
    <3> QED
      BY <1>4, <1>8, <2>1, <2>4, <2>5, <3>1 DEF QueueOk
  <2>8. QueuesApart'
    <3>1. ASSUME NEW i \in AddsOf(pending'), NEW j \in AddsOf(functors')
          PROVE  pending'[i].conn # functors'[j].conn
      BY <1>1, <1>4, <2>4, <3>1 DEF QueuesApart
    <3> QED
      BY <3>1 DEF QueuesApart
  <2>9. EntryInv'
    <3> USE <1>2, <1>3, <1>8, <2>1, ConstAssumption
        DEF TypeInv, TypeOK, MapType, ConnType, KernelType
    <3>1. ASSUME NEW g \in Fds, connections'[g] \in running'
          PROVE  fdOf'[connections'[g]] = g /\ interest'[connections'[g]] # "none"
      <4>1. CASE connections'[g] = connections[g]
        BY <3>1, <4>1 DEF OwnInv, EntryInv
      <4>2. CASE g = f /\ connections'[g] = c
        BY <4>2
      <4> QED
        BY <4>1, <4>2
    <3>2. ASSUME NEW d \in running', interest'[d] # "none", d \notin dropped'
          PROVE  connections'[fdOf'[d]] = d
      BY <3>2 DEF OwnInv, EntryInv, OwnerInv, SocketShape, Intact
    <3> QED
      BY <3>1, <3>2 DEF EntryInv
  <2> QED
    BY <1>6, <2>2, <2>6, <2>7, <2>8, <2>9 DEF OwnInv, QueueInv
<1> QED
  BY <1>7, <1>8 DEF RunAdd, At

LEMMA NextPhaseInv ==
  ASSUME TypeInv, OwnInv, FunctorInv, [Next]_vars
  PROVE  PhaseInv'
<1> USE DEF OwnInv, PhaseInv, stateVars, threadVars, serverVars
<1>1. CASE LoopTest \/ EpollWait \/ HandleReadDead \/ HandleReadFails
           \/ HandleReadSubmit \/ HandleReadInline
  BY <1>1 DEF LoopTest, EpollWait, HandleReadDead, HandleReadFails,
              HandleReadSubmit, HandleReadInline, At
<1>2. CASE NothingToWrite \/ HandleWrite \/ HandleWriteError
  BY <1>2 DEF NothingToWrite, HandleWrite, HandleWriteError, At
<1>3. CASE ReapCurrent \/ EndBatch \/ RunAdd \/ RunEnable \/ FunctorsDone
  BY <1>3 DEF ReapCurrent, EndBatch, RunAdd, RunEnable, FunctorsDone, At
<1>4. CASE Cleanup
  BY <1>4 DEF Cleanup, CloseConnections, CloseEntries, Entries, At
<1>5. CASE \E e \in batch : DispatchWake(e) \/ DispatchTimer(e) \/ DispatchClose(e) \/ DispatchIo(e)
  BY <1>5 DEF DispatchWake, DispatchTimer, DispatchClose, DispatchIo, FirstHandler, At
<1>6. CASE \E w \in Workers : Worker(w)
  BY <1>6 DEF Worker, TakeTask, SendReply, EnableWriting, EnableWritingWake, TaskShutdown,
     TaskClose, TaskReset, On
<1>7. CASE JoinReactor
  BY <1>7 DEF JoinReactor, CloseEntries, Entries, At
<1>8. CASE ShutdownWake \/ RequestStop \/ DestroyReactor
  BY <1>8 DEF ShutdownWake, RequestStop, DestroyReactor
<1>9. CASE \/ \E c \in Conns, f \in Fds : AddConnection(c, f)
           \/ AddConnectionWake \/ TimerFires \/ \E f \in Fds : DeadlinePasses(f)
  BY <1>9 DEF AddConnection, AddConnectionWake, TimerFires, DeadlinePasses
<1>10. CASE \E c \in Conns : Client(c)
  BY <1>10 DEF Client, ClientSend, ClientLeaves, ClientReads
<1>11. CASE UNCHANGED vars
  BY <1>11 DEF vars
<1>12. CASE \E c \in Conns : ResetSocket(c)
  BY <1>12 DEF ResetSocket
<1> QED
  BY <1>1, <1>2, <1>3, <1>4, <1>5, <1>6, <1>7, <1>8, <1>9, <1>10, <1>11, <1>12
     DEF Next, Reactor, ShutdownThread, Terminated

LEMMA NextOwnInv ==
  TypeInv /\ TypeInv' /\ FunctorInv /\ OwnInv /\ Intact /\ [Next]_vars => OwnInv'
<1> SUFFICES ASSUME TypeInv, TypeInv', FunctorInv, OwnInv, Intact, [Next]_vars PROVE OwnInv'
  OBVIOUS
<1>1. CASE RunAdd
  BY <1>1, RunAddOwnInv
<1>2. CASE \E c \in Conns, f \in Fds : AddConnection(c, f)
  BY <1>2, AcceptOwnInv
<1>3. CASE ~RunAdd /\ ~\E c \in Conns, f \in Fds : AddConnection(c, f)
  <2>1. Quiet /\ QueueStep
    BY <1>3, NextQuiet, NextQueueStep
  <2>2. pending \in Seq(Functor) /\ functors \in Seq(Functor)
    BY DEF TypeInv, TypeOK, MapType, ReactorType
  <2>3. QueueKept(pending) /\ QueueKept(functors)
    BY <2>1, <2>2, QuietQueue DEF OwnInv, QueueInv
  <2> QED
    BY <2>1, <2>3, QuietOwner, QuietEntry, QueueStepKeeps, NextPhaseInv DEF OwnInv
<1> QED
  BY <1>1, <1>2, <1>3

LEMMA SpecOwnInv == Spec => [](cut = {} => OwnInv)
<1>1. TypeInv /\ TypeInv' /\ FunctorInv /\ (cut = {} => OwnInv) /\ [Next]_vars
        => (cut = {} => OwnInv)'
  BY NextOwnInv, CutEnds DEF Intact
<1> QED
  BY <1>1, InitOwnInv, SpecTypeInv, SpecFunctorInv, PTL DEF Spec

LEMMA SpecPhaseInv == Spec => []PhaseInv
<1>1. Init => PhaseInv
  BY DEF Init, PhaseInv
<1>2. TypeInv /\ FunctorInv /\ (cut = {} => OwnInv) /\ PhaseInv /\ [Next]_vars => PhaseInv'
  <2> SUFFICES ASSUME TypeInv, FunctorInv, cut = {} => OwnInv, PhaseInv, [Next]_vars
               PROVE  PhaseInv'
    OBVIOUS
  <2>1. CASE cut = {}
    BY <2>1, NextPhaseInv
  <2>2. CASE cut # {}
    BY <2>2, CutEnds, CutStep DEF frameVars, threadVars, PhaseInv
  <2> QED
    BY <2>1, <2>2
<1> QED
  BY <1>1, <1>2, SpecTypeInv, SpecFunctorInv, SpecOwnInv, PTL DEF Spec

(* Descriptor numbers are reused while events, functors, map entries and    *)
(* second closes still name them.  Until such a second close hits the next  *)
(* owner of its number, an entry with a live connection is under the        *)
(* descriptor that connection owns, and a live registered socket is found   *)
(* by its number.                                                           *)
THEOREM MapStaysCurrent == Spec => []MapIsCurrent
<1>1. TypeInv /\ (cut = {} => OwnInv) => MapIsCurrent
  <2> SUFFICES ASSUME TypeInv, cut = {}, OwnInv, NEW c \in Conns, c \in running
               PROVE  /\ fdOf[c] # NoFd
                      /\ \A f \in Fds : connections[f] = c => fdOf[c] = f
                      /\ interest[c] # "none" /\ c \notin dropped => connections[fdOf[c]] = c
    BY DEF MapIsCurrent
  <2> QED
    BY ConstAssumption DEF OwnInv, EntryInv, TypeInv, SocketShape
<1> QED
  BY <1>1, SpecTypeInv, SpecOwnInv, PTL

-----------------------------------------------------------------------------
(* Served connections.  Whoever can produce output for a connection (a      *)
(* queued task, a worker, a reply already buffered) got it from the map,    *)
(* and a live connection stays in the map.                                  *)

Served(c) == c \in running => connections[fdOf[c]] = c

TasksServed == \A i \in DOMAIN tasks : Served(tasks[i].conn)
WorkersServed ==
    \A w \in Workers : wpc[w] \notin {"idle", "crashed"} => Served(wconn[w])
OutputServed == \A c \in Conns : outbuf[c] > 0 => c \in accepted /\ Served(c)
ServedInv == TasksServed /\ WorkersServed /\ OutputServed

LEMMA InitServedInv == Init => ServedInv
  BY DEF Init, ServedInv, TasksServed, WorkersServed, OutputServed

LEMMA QuietServed ==
  ASSUME TypeInv, OwnInv, Intact, Quiet, NEW c \in Conns, Served(c)
  PROVE  Served(c)'
  BY DEF Served, Quiet, TypeInv, SocketShape, Intact

LEMMA ServedKept ==
  ASSUME TypeInv, OwnInv, FunctorInv, Intact, [Next]_vars, NEW c \in accepted, Served(c)
  PROVE  Served(c)'
<1>0. c \in Conns
  BY DEF TypeInv, TypeOK, ConnType
<1>1. CASE RunAdd
  <2> DEFINE f == Head(functors).fd
             d == Head(functors).conn
  <2>1. f \in Fds /\ d \in Conns
    BY <1>1 DEF RunAdd, TypeInv, TypeOK, ReactorType, Functor, At
  <2>2. CASE Shutdown({d}, {}) /\ UNCHANGED <<connections, dropped>>
    BY <1>0, <1>1, <2>1, <2>2, QuietShutdown, QuietServed DEF RunAdd, At
  <2>3. CASE UNCHANGED <<fdOf, running, connections>>
    BY <2>3 DEF Served
  <2>4. CASE /\ connections[f] = NoConn /\ connections' = [connections EXCEPT ![f] = d]
             /\ UNCHANGED <<fdOf, running>>
    BY <1>0, <2>1, <2>4, ConstAssumption DEF Served, TypeInv, TypeOK, MapType, SocketShape, Intact
  <2> QED
    BY <1>1, <2>2, <2>3, <2>4 DEF RunAdd, stateVars, At
<1>2. CASE \E d \in Conns, f \in Fds : AddConnection(d, f)
  BY <1>0, <1>2 DEF AddConnection, stateVars, Served, TypeInv, TypeOK, KernelType
<1>3. CASE ~RunAdd /\ ~\E d \in Conns, f \in Fds : AddConnection(d, f)
  BY <1>0, <1>3, NextQuiet, QuietServed
<1> QED
  BY <1>1, <1>2, <1>3

(* The connection of the current event is served.                           *)
LEMMA CurServed ==
  ASSUME TypeInv, OwnInv, rpc \in {"read", "write", "reap"}
  PROVE  cur.conn \in accepted /\ Served(cur.conn)
  BY DEF TypeInv, CurShape, OwnInv, EntryInv, PhaseInv, Served

(* Where tasks, workers and output come from.                               *)
TaskStep ==
    \A i \in DOMAIN tasks' : \/ tasks'[i].conn = cur.conn /\ rpc = "read"
                             \/ \E j \in DOMAIN tasks : tasks'[i].conn = tasks[j].conn
WorkerStep ==
    \A w \in Workers : wpc'[w] \notin {"idle", "crashed"} =>
        \/ wpc[w] \notin {"idle", "crashed"} /\ wconn'[w] = wconn[w]
        \/ \E j \in DOMAIN tasks : wconn'[w] = tasks[j].conn
OutputStep ==
    \A c \in Conns : outbuf'[c] > 0 =>
        \/ outbuf[c] > 0
        \/ c = cur.conn /\ rpc = "read"
        \/ \E w \in Workers : wpc[w] = "send" /\ c = wconn[w]

LEMMA NextTaskStep == ASSUME TypeInv, [Next]_vars PROVE TaskStep /\ WorkerStep
<1> USE DEF workerVars
<1>1. CASE UNCHANGED <<tasks, wpc, wconn>>
  BY <1>1 DEF TaskStep, WorkerStep
<1>2. CASE HandleReadSubmit
  <2> DEFINE new == [i \in 1..Len(inq[cur.conn]) |-> [conn |-> cur.conn, kind |-> inq[cur.conn][i]]]
  <2>1. tasks \in Seq(Task) /\ inq[cur.conn] \in Seq(Kinds) /\ tasks' = tasks \o new
    BY <1>2 DEF HandleReadSubmit, TypeInv, TypeOK, WorkerType, ClientType, CurShape, ConnType, At
  <2>2. \A i \in DOMAIN tasks' : \/ i \in DOMAIN tasks /\ tasks'[i] = tasks[i]
                                 \/ tasks'[i].conn = cur.conn
    <3>1. Len(inq[cur.conn]) \in Nat /\ Len(new) = Len(inq[cur.conn]) /\ new \in Seq([conn : {cur.conn}, kind : Kinds])
      BY <2>1
    <3>2. \A i \in DOMAIN new : new[i].conn = cur.conn
      OBVIOUS
    <3> HIDE DEF new
    <3> QED
      BY <2>1, <3>1, <3>2
  <2>3. UNCHANGED <<wpc, wconn>> /\ rpc = "read"
    BY <1>2 DEF HandleReadSubmit, At
  <2>4. TaskStep
    BY <2>2, <2>3 DEF TaskStep
  <2> QED
    BY <2>3, <2>4 DEF WorkerStep
<1>3. ASSUME NEW w \in Workers, TakeTask(w) PROVE TaskStep /\ WorkerStep
  <2>1. tasks \in Seq(Task) /\ tasks # <<>> /\ tasks' = Tail(tasks)
    BY <1>3 DEF TakeTask, TypeInv, TypeOK, WorkerType, On
  <2>2. TaskStep
    BY <2>1 DEF TaskStep
  <2>3. 1 \in DOMAIN tasks /\ Head(tasks) = tasks[1]
    BY <2>1
  <2>4. WorkerStep
    BY <1>3, <2>3 DEF TakeTask, WorkerStep, TypeInv, TypeOK, WorkerType, On
  <2> QED
    BY <2>2, <2>4
<1>4. ASSUME NEW w \in Workers, SendReply(w) \/ EnableWriting(w) \/ EnableWritingWake(w)
      PROVE  TaskStep /\ WorkerStep
  BY <1>4 DEF SendReply, EnableWriting, EnableWritingWake, TaskStep, WorkerStep,
              TypeInv, TypeOK, WorkerType, On
<1>5. ASSUME NEW w \in Workers, TaskShutdown(w) \/ TaskClose(w) \/ TaskReset(w)
      PROVE  TaskStep /\ WorkerStep
  BY <1>5 DEF TaskShutdown, TaskClose, TaskReset, TaskStep, WorkerStep, TypeInv, TypeOK, WorkerType, On
<1>6. CASE LoopTest \/ EpollWait \/ HandleReadDead \/ HandleReadFails \/ HandleReadInline
  BY <1>1, <1>6 DEF LoopTest, EpollWait, HandleReadDead, HandleReadFails, HandleReadInline, At
<1>7. CASE NothingToWrite \/ HandleWrite \/ HandleWriteError \/ ReapCurrent
  BY <1>1, <1>7 DEF NothingToWrite, HandleWrite, HandleWriteError, ReapCurrent, At
<1>8. CASE EndBatch \/ RunAdd \/ RunEnable \/ FunctorsDone \/ Cleanup
  BY <1>1, <1>8 DEF EndBatch, RunAdd, RunEnable, FunctorsDone, Cleanup, At
<1>9. CASE \E e \in batch : DispatchWake(e) \/ DispatchTimer(e) \/ DispatchClose(e) \/ DispatchIo(e)
  BY <1>1, <1>9 DEF DispatchWake, DispatchTimer, DispatchClose, DispatchIo, At
<1>10. CASE ShutdownThread
  BY <1>1, <1>10 DEF ShutdownThread, ShutdownWake, RequestStop, JoinReactor, DestroyReactor, At
<1>11. CASE \/ \E c \in Conns, f \in Fds : AddConnection(c, f)
            \/ AddConnectionWake \/ TimerFires \/ \E f \in Fds : DeadlinePasses(f)
  BY <1>1, <1>11 DEF AddConnection, AddConnectionWake, TimerFires, DeadlinePasses
<1>12. CASE \E c \in Conns : Client(c)
  BY <1>1, <1>12 DEF Client, ClientSend, ClientLeaves, ClientReads
<1>13. CASE UNCHANGED vars
  BY <1>1, <1>13 DEF vars
<1>14. CASE \E c \in Conns : ResetSocket(c)
  BY <1>1, <1>14 DEF ResetSocket
<1> QED
  BY <1>2, <1>3, <1>4, <1>5, <1>6, <1>7, <1>8, <1>9, <1>10, <1>11, <1>12, <1>13, <1>14
     DEF Next, Reactor, Worker, Terminated

LEMMA NextOutputStep == ASSUME TypeInv, Intact, [Next]_vars PROVE OutputStep
<1> USE DEF connVars
<1>1. CASE UNCHANGED outbuf
  BY <1>1 DEF OutputStep
<1>2. ASSUME NEW S, NEW F, Shutdown(S, F) PROVE OutputStep
  BY <1>2 DEF Shutdown, OutputStep
<1>3. ASSUME NEW F, CloseEntries(F) PROVE OutputStep
  BY <1>2, <1>3 DEF CloseEntries
<1>4. CASE LoopTest \/ EpollWait \/ HandleReadDead \/ HandleReadSubmit \/ NothingToWrite
           \/ EndBatch \/ RunEnable
  BY <1>1, <1>4 DEF LoopTest, EpollWait, HandleReadDead, HandleReadSubmit, NothingToWrite,
                    EndBatch, RunEnable, At
<1>5. CASE HandleReadFails \/ RunAdd \/ FunctorsDone
  BY <1>1, <1>2, <1>5 DEF HandleReadFails, RunAdd, FunctorsDone, At
<1>6. CASE HandleReadInline
  <2>1. outbuf \in [Conns -> 0..MaxBuffer] /\ rpc = "read"
    BY <1>6 DEF HandleReadInline, TypeInv, TypeOK, ConnType, At
  <2>2. \A c \in Conns : c # cur.conn => outbuf'[c] = outbuf[c]
    BY <1>6, <2>1 DEF HandleReadInline, ShutdownLocked, Shutdown, At
  <2> QED
    BY <2>1, <2>2 DEF OutputStep
<1>7. CASE HandleWrite \/ HandleWriteError
  <2>1. outbuf \in [Conns -> 0..MaxBuffer] /\ cur.conn \in Conns
    BY <1>7 DEF HandleWrite, HandleWriteError, TypeInv, TypeOK, ConnType, At
  <2>2. \A c \in Conns : outbuf'[c] > 0 => outbuf[c] > 0
    BY <1>7, <2>1, ConstAssumption DEF HandleWrite, HandleWriteError, ShutdownLocked, At
  <2> QED
    BY <2>2 DEF OutputStep
<1>8. CASE ReapCurrent \/ Cleanup \/ JoinReactor \/ DestroyReactor
  BY <1>1, <1>2, <1>3, <1>8 DEF ReapCurrent, Cleanup, JoinReactor, DestroyReactor,
     CloseConnections, At
<1>9. CASE \E e \in batch : DispatchWake(e) \/ DispatchTimer(e) \/ DispatchClose(e) \/ DispatchIo(e)
  BY <1>1, <1>3, <1>9 DEF DispatchWake, DispatchTimer, DispatchClose, DispatchIo, CheckTimeouts,
                          CloseConnections, At
<1>10. ASSUME NEW w \in Workers, SendReply(w) PROVE OutputStep
  <2>1. \A c \in Conns : c # wconn[w] => outbuf'[c] = outbuf[c]
    BY <1>10 DEF SendReply, ShutdownLocked, TypeInv, TypeOK, ConnType, On
  <2>2. wpc[w] = "send"
    BY <1>10 DEF SendReply, On
  <2> QED
    BY <2>1, <2>2 DEF OutputStep
<1>11. ASSUME NEW c \in Conns, CloseAgain(c) PROVE OutputStep
  BY <1>11, SecondClose DEF OutputStep, Intact
<1>12. ASSUME NEW w \in Workers,
              TakeTask(w) \/ EnableWriting(w) \/ EnableWritingWake(w) \/ TaskShutdown(w)
              \/ TaskClose(w) \/ TaskReset(w)
       PROVE  OutputStep
  <2>1. CASE TaskReset(w)
    BY <1>11, <2>1 DEF TaskReset, On, TypeInv, TypeOK, WorkerShape, ConnType
  <2> QED
    BY <1>1, <1>12, <2>1 DEF TakeTask, EnableWriting, EnableWritingWake, TaskShutdown, TaskClose, On
<1>13. CASE \/ \E c \in Conns, f \in Fds : AddConnection(c, f)
            \/ AddConnectionWake \/ TimerFires \/ \E f \in Fds : DeadlinePasses(f)
            \/ ShutdownWake \/ RequestStop
  BY <1>1, <1>13 DEF AddConnection, AddConnectionWake, TimerFires, DeadlinePasses,
                     ShutdownWake, RequestStop
<1>14. CASE \E c \in Conns : Client(c)
  BY <1>1, <1>14 DEF Client, ClientSend, ClientLeaves, ClientReads
<1>15. CASE UNCHANGED vars
  BY <1>1, <1>15 DEF vars
<1>16. CASE \E c \in Conns : ResetSocket(c)
  BY <1>11, <1>16 DEF ResetSocket
<1> QED
  BY <1>4, <1>5, <1>6, <1>7, <1>8, <1>9, <1>10, <1>12, <1>13, <1>14, <1>15, <1>16
     DEF Next, Reactor, Worker, ShutdownThread, Terminated

LEMMA AcceptedGrows ==
  ASSUME TypeInv, OwnInv, FunctorInv, Intact, [Next]_vars
  PROVE  accepted \subseteq accepted'
<1>1. CASE RunAdd
  BY <1>1 DEF RunAdd, At
<1>2. CASE \E d \in Conns, f \in Fds : AddConnection(d, f)
  BY <1>2 DEF AddConnection
<1>3. CASE ~RunAdd /\ ~\E d \in Conns, f \in Fds : AddConnection(d, f)
  BY <1>3, NextQuiet DEF Quiet
<1> QED
  BY <1>1, <1>2, <1>3

\* Served in the next state.
ServedNext(c) == c \in running' => connections'[fdOf'[c]] = c

LEMMA NextServedInv ==
  TypeInv /\ FunctorInv /\ OwnInv /\ ServedInv /\ Intact /\ [Next]_vars => ServedInv'
<1> SUFFICES ASSUME TypeInv, FunctorInv, OwnInv, ServedInv, Intact, [Next]_vars PROVE ServedInv'
  OBVIOUS
<1>1. \A c \in accepted : Served(c) => ServedNext(c)
  BY ServedKept DEF Served, ServedNext
<1>2. rpc = "read" => cur.conn \in accepted /\ Served(cur.conn)
  BY CurServed
<1>3. TaskStep /\ WorkerStep /\ OutputStep /\ accepted \subseteq accepted'
  BY NextTaskStep, NextOutputStep, AcceptedGrows
<1>4. \A i \in DOMAIN tasks : tasks[i].conn \in accepted /\ Served(tasks[i].conn)
  BY DEF TypeInv, WorkerShape, ServedInv, TasksServed
<1>5. \A w \in Workers : wpc[w] \notin {"idle", "crashed"} =>
          wconn[w] \in accepted /\ Served(wconn[w])
  BY DEF TypeInv, WorkerShape, ServedInv, WorkersServed
<1>6. ASSUME NEW i \in DOMAIN tasks' PROVE ServedNext(tasks'[i].conn)
  <2>1. PICK c \in accepted : tasks'[i].conn = c /\ Served(c)
    BY <1>2, <1>3, <1>4, <1>6 DEF TaskStep
  <2> QED
    BY <1>1, <2>1
<1>7. ASSUME NEW w \in Workers, wpc'[w] \notin {"idle", "crashed"} PROVE ServedNext(wconn'[w])
  <2>1. PICK c \in accepted : wconn'[w] = c /\ Served(c)
    BY <1>3, <1>4, <1>5, <1>7 DEF WorkerStep
  <2> QED
    BY <1>1, <2>1
<1>8. ASSUME NEW c \in Conns, outbuf'[c] > 0 PROVE c \in accepted' /\ ServedNext(c)
  <2>1. c \in accepted /\ Served(c)
    BY <1>2, <1>3, <1>5, <1>8 DEF OutputStep, ServedInv, OutputServed
  <2> QED
    BY <1>1, <1>3, <2>1
<1> QED
  BY <1>6, <1>7, <1>8 DEF ServedInv, TasksServed, WorkersServed, OutputServed, Served, ServedNext

LEMMA SpecServedInv == Spec => [](cut = {} => ServedInv)
<1>1. TypeInv /\ FunctorInv /\ (cut = {} => OwnInv) /\ (cut = {} => ServedInv) /\ [Next]_vars
        => (cut = {} => ServedInv)'
  BY NextServedInv, CutEnds DEF Intact
<1> QED
  BY <1>1, InitServedInv, SpecTypeInv, SpecFunctorInv, SpecOwnInv, PTL DEF Spec

-----------------------------------------------------------------------------
(* Output.  A step keeps what NoLostWrite asks for when the connections     *)
(* that still have output keep their descriptor and EPOLLOUT, the queued    *)
(* enable functors stay queued and the senders about to queue one stay so.  *)

StillWriting(c) ==
    c \in running' /\ outbuf'[c] > 0 =>
        /\ c \in running /\ fdOf'[c] = fdOf[c]
        /\ \/ interest'[c] = "inout"
           \/ outbuf[c] > 0 /\ (interest[c] = "inout" => interest'[c] = "inout")
EnableKept ==
    \A f \in Fds : EnableQueued(f, pending) \/ EnableQueued(f, functors) =>
                   EnableQueued(f, pending') \/ EnableQueued(f, functors')
PushKept ==
    \A w \in Workers : wpc[w] = "push" =>
        wpc'[w] = "push" /\ wconn'[w] = wconn[w] /\ wfd'[w] = wfd[w]

LEMMA WriteFrame ==
  ASSUME TypeInv, Intact, NoLostWrite, \A c \in Conns : StillWriting(c), EnableKept, PushKept
  PROVE  NoLostWrite'
<1> SUFFICES ASSUME NEW c \in Conns, c \in running', outbuf'[c] > 0, interest'[c] # "inout"
             PROVE  \/ EnableQueued(fdOf'[c], pending') \/ EnableQueued(fdOf'[c], functors')
                    \/ \E w \in Workers : wpc'[w] = "push" /\ wconn'[w] = c /\ wfd'[w] = fdOf'[c]
  BY DEF NoLostWrite, EnableQueued
<1>1. c \in running /\ fdOf'[c] = fdOf[c] /\ outbuf[c] > 0 /\ interest[c] # "inout"
  BY DEF StillWriting
<1>2. fdOf[c] \in Fds
  BY <1>1 DEF TypeInv, SocketShape, Intact
<1>3. \/ EnableQueued(fdOf[c], pending) \/ EnableQueued(fdOf[c], functors)
      \/ \E w \in Workers : wpc[w] = "push" /\ wconn[w] = c /\ wfd[w] = fdOf[c]
  BY <1>1 DEF NoLostWrite, Intact
<1> QED
  BY <1>1, <1>2, <1>3 DEF EnableKept, PushKept

LEMMA EnableAppend ==
  ASSUME NEW q \in Seq(Functor), NEW x, NEW f
  PROVE  /\ EnableQueued(f, q) => EnableQueued(f, Append(q, x))
         /\ x.op = "enable" /\ x.fd = f => EnableQueued(f, Append(q, x))
<1>1. \A i \in DOMAIN q : i \in DOMAIN Append(q, x) /\ Append(q, x)[i] = q[i]
  OBVIOUS
<1>2. Len(q) + 1 \in DOMAIN Append(q, x) /\ Append(q, x)[Len(q) + 1] = x
  OBVIOUS
<1> QED
  BY <1>1, <1>2 DEF EnableQueued

LEMMA EnableTail ==
  ASSUME NEW q \in Seq(Functor), q # <<>>, NEW f, EnableQueued(f, q),
         Head(q).op = "add" \/ Head(q).fd # f
  PROVE  EnableQueued(f, Tail(q))
<1>1. PICK i \in DOMAIN q : q[i].op = "enable" /\ q[i].fd = f
  BY DEF EnableQueued
<1>2. i # 1
  BY <1>1
<1>3. i - 1 \in DOMAIN Tail(q) /\ Tail(q)[i - 1] = q[i]
  BY <1>2
<1> QED
  BY <1>1, <1>3 DEF EnableQueued

(* Nobody has output left once the map is empty.                            *)
LEMMA DoneNoOutput ==
  ASSUME TypeInv, OwnInv, ServedInv, cut = {}, rpc = "done", NEW c \in running
  PROVE  outbuf[c] = 0
<1>1. c \in Conns /\ fdOf[c] \in Fds /\ outbuf[c] \in Nat
  BY ConstAssumption DEF TypeInv, TypeOK, ConnType, SocketShape
<1>2. connections[fdOf[c]] = NoConn
  BY <1>1 DEF OwnInv, PhaseInv
<1> QED
  BY <1>1, <1>2, ConstAssumption DEF ServedInv, OutputServed, Served

LEMMA ShutdownWriting ==
  ASSUME TypeInv, Quiet, NEW S, NEW F, Shutdown(S, F)
  PROVE  \A c \in Conns : StillWriting(c)
<1> SUFFICES ASSUME NEW c \in Conns, c \in running', outbuf'[c] > 0 PROVE StillWriting(c)
  BY DEF StillWriting
<1>1. c \in running /\ fdOf'[c] = fdOf[c]
  BY DEF Quiet
<1>2. outbuf'[c] = outbuf[c]
  BY DEF Shutdown
<1>3. interest'[c] = interest[c] \/ interest'[c] = "none"
  BY DEF Shutdown, Unregister
<1>4. interest[c] = "inout" => interest'[c] = "inout"
  BY <1>3 DEF Quiet
<1> QED
  BY <1>1, <1>2, <1>4 DEF StillWriting

LEMMA CloseWriting ==
  ASSUME TypeInv, Quiet, NEW F, CloseEntries(F)
  PROVE  \A c \in Conns : StillWriting(c)
  BY ShutdownWriting DEF CloseEntries

LEMMA LockedWriting ==
  ASSUME TypeInv, Quiet, NEW d \in Conns, NEW n, ShutdownLocked(d, n)
  PROVE  \A c \in Conns : StillWriting(c)
<1> SUFFICES ASSUME NEW c \in Conns, c \in running', outbuf'[c] > 0 PROVE StillWriting(c)
  BY DEF StillWriting
<1>1. c \in running /\ fdOf'[c] = fdOf[c] /\ c # d
  BY DEF Quiet, ShutdownLocked
<1>2. outbuf'[c] = outbuf[c] /\ (interest'[c] = interest[c] \/ interest'[c] = "none")
  BY <1>1 DEF ShutdownLocked, Unregister, TypeInv, TypeOK, ConnType
<1> QED
  BY <1>1, <1>2 DEF StillWriting, Quiet

LEMMA SameWriting ==
  ASSUME UNCHANGED <<fdOf, interest, running, outbuf>>
  PROVE  \A c \in Conns : StillWriting(c)
  BY DEF StillWriting

LEMMA HandlerWriting ==
  ASSUME TypeInv, Quiet,
         HandleReadFails \/ HandleReadInline \/ HandleWrite \/ HandleWriteError
  PROVE  \A c \in Conns : StillWriting(c)
<1> DEFINE d == cur.conn
<1>1. d \in Conns
  BY DEF HandleReadFails, HandleReadInline, HandleWrite, HandleWriteError, TypeInv, TypeOK,
     ConnType, At
<1>2. CASE HandleReadFails
  BY <1>2, ShutdownWriting DEF HandleReadFails, At
<1>3. CASE HandleReadInline
  <2>1. CASE ShutdownLocked(d, MaxBuffer)
    BY <1>1, <2>1, LockedWriting
  <2>2. CASE Shutdown({d}, {})
    BY <2>2, ShutdownWriting
  <2>3. ASSUME NEW n, outbuf' = [outbuf EXCEPT ![d] = @ + n], UNCHANGED <<fdOf, running, sockVars>>,
               IF WasEmpty(d) THEN EpollCtl({d}, "inout", inq') ELSE UNCHANGED <<interest, armed>>
        PROVE  \A c \in Conns : StillWriting(c)
    <3>1. ASSUME NEW c \in Conns, c # d PROVE StillWriting(c)
      BY <1>1, <2>3, <3>1 DEF EpollCtl, StillWriting, TypeInv, TypeOK, ConnType, KernelType
    <3>2. CASE WasEmpty(d)
      BY <1>1, <2>3, <3>1, <3>2 DEF EpollCtl, StillWriting
    <3>3. CASE ~WasEmpty(d)
      <4>1. outbuf[d] > 0
        BY <1>1, <3>3 DEF WasEmpty, TypeInv, TypeOK, ConnType
      <4> QED
        BY <2>3, <3>1, <3>3, <4>1 DEF StillWriting
    <3> QED
      BY <3>2, <3>3
  <2> QED
    BY <1>3, <2>1, <2>2, <2>3 DEF HandleReadInline, At
<1>4. CASE HandleWrite
  <2>1. PICK n \in 0..outbuf[d] :
          /\ outbuf' = [outbuf EXCEPT ![d] = @ - n]
          /\ IF SendOver(d, n) THEN EpollCtl({d}, "in", inq) ELSE UNCHANGED <<interest, armed>>
    BY <1>4 DEF HandleWrite, At
  <2>2. UNCHANGED <<fdOf, running>> /\ outbuf \in [Conns -> 0..MaxBuffer]
    BY <1>4 DEF HandleWrite, TypeInv, TypeOK, ConnType, At
  <2>3. CASE SendOver(d, n)
    <3>1. outbuf'[d] = 0
      BY <1>1, <2>1, <2>2, <2>3, ConstAssumption DEF SendOver
    <3> QED
      BY <1>1, <2>1, <2>2, <2>3, <3>1 DEF EpollCtl, StillWriting, TypeInv, TypeOK, KernelType
  <2>4. CASE ~SendOver(d, n)
    <3>1. outbuf[d] > 0
      BY <1>1, <2>1, <2>2, <2>4, ConstAssumption DEF SendOver
    <3> QED
      BY <1>1, <2>1, <2>2, <2>4, <3>1 DEF StillWriting
  <2> QED
    BY <2>3, <2>4
<1>5. CASE HandleWriteError
  BY <1>1, <1>5, LockedWriting DEF HandleWriteError, At
<1> QED
  BY <1>2, <1>3, <1>4, <1>5

LEMMA ReactorNoLostWrite ==
  ASSUME TypeInv, TypeInv', FunctorInv, OwnInv, ServedInv, Intact, NoLostWrite, Reactor
  PROVE  NoLostWrite'
<1> USE DEF stateVars, connVars, kernelVars, sockVars, workerVars
<1>1. ~RunAdd => Quiet
  BY QuietReactor
<1>2. PushKept
  <2>1. UNCHANGED <<wpc, wconn, wfd>>
    BY DEF Reactor, LoopTest, EpollWait, DispatchWake, DispatchTimer, DispatchClose, DispatchIo,
           HandleReadDead, HandleReadFails, HandleReadSubmit, HandleReadInline, NothingToWrite,
           HandleWrite, HandleWriteError, ReapCurrent, EndBatch, RunAdd, RunEnable, FunctorsDone,
           Cleanup, At
  <2> QED
    BY <2>1 DEF PushKept
<1>3. UNCHANGED <<pending, functors>> => EnableKept
  BY DEF EnableKept
<1>4. CASE LoopTest \/ EpollWait \/ NothingToWrite \/ HandleReadDead \/ HandleReadSubmit
  BY <1>2, <1>3, <1>4, SameWriting, WriteFrame
     DEF LoopTest, EpollWait, NothingToWrite, HandleReadDead, HandleReadSubmit, At
<1>5. ASSUME NEW e \in batch, DispatchWake(e) \/ DispatchIo(e) PROVE NoLostWrite'
  BY <1>2, <1>3, <1>5, SameWriting, WriteFrame DEF DispatchWake, DispatchIo, At
<1>6. ASSUME NEW e \in batch, DispatchTimer(e) \/ DispatchClose(e) PROVE NoLostWrite'
  <2>1. ~RunAdd /\ UNCHANGED <<pending, functors>>
    BY <1>6 DEF DispatchTimer, DispatchClose, RunAdd, At
  <2>2. \E F : CloseEntries(F)
    BY <1>6 DEF DispatchTimer, DispatchClose, CheckTimeouts, CloseConnections, At
  <2> QED
    BY <1>1, <1>2, <1>3, <2>1, <2>2, CloseWriting, WriteFrame
<1>7. CASE HandleReadFails \/ HandleReadInline \/ HandleWrite \/ HandleWriteError
  <2>1. ~RunAdd /\ UNCHANGED <<pending, functors>>
    BY <1>7 DEF HandleReadFails, HandleReadInline, HandleWrite, HandleWriteError, RunAdd, At
  <2> QED
    BY <1>1, <1>2, <1>3, <1>7, <2>1, HandlerWriting, WriteFrame
<1>8. CASE ReapCurrent \/ Cleanup
  <2>1. ~RunAdd /\ UNCHANGED <<pending, functors>>
    BY <1>8 DEF ReapCurrent, Cleanup, RunAdd, At
  <2>2. (\E F : CloseEntries(F)) \/ UNCHANGED <<fdOf, interest, running, outbuf>>
    BY <1>8 DEF ReapCurrent, Cleanup, CloseConnections, At
  <2> QED
    BY <1>1, <1>2, <1>3, <2>1, <2>2, CloseWriting, SameWriting, WriteFrame
<1>9. CASE EndBatch
  <2>1. functors = <<>>
    BY <1>9 DEF EndBatch, OwnInv, PhaseInv, At
  <2>2. EnableKept
    BY <1>9, <2>1 DEF EndBatch, EnableKept, EnableQueued, At
  <2> QED
    BY <1>2, <1>9, <2>2, SameWriting, WriteFrame DEF EndBatch, At
<1>10. CASE FunctorsDone
  <2>1. ~RunAdd /\ UNCHANGED <<pending, functors>> /\ Shutdown(dropped, {})
    BY <1>10 DEF FunctorsDone, RunAdd, At
  <2> QED
    BY <1>1, <1>2, <1>3, <2>1, ShutdownWriting, WriteFrame
<1>11. CASE RunAdd
  <2> DEFINE f == Head(functors).fd
             d == Head(functors).conn
  <2>1. /\ functors \in Seq(Functor) /\ functors # <<>> /\ functors' = Tail(functors)
        /\ pending' = pending /\ Head(functors).op = "add"
    BY <1>11 DEF RunAdd, TypeInv, TypeOK, ReactorType, At
  <2>2. EnableKept
    BY <2>1, EnableTail DEF EnableKept
  <2>3. d \in Conns /\ 1 \in AddsOf(functors) /\ functors[1] = Head(functors)
    BY <2>1 DEF Functor, AddsOf
  <2>4. interest[d] = "none"
    BY <2>3 DEF OwnInv, QueueInv, QueueOk
  <2>5. CASE Shutdown({d}, {}) /\ UNCHANGED <<connections, dropped>>
    <3>1. Quiet
      BY <1>11, <2>3, <2>5, QuietShutdown DEF RunAdd, At
    <3> QED
      BY <1>2, <2>2, <2>5, <3>1, ShutdownWriting, WriteFrame
  <2>6. CASE EpollCtl({d}, "in", inq) /\ UNCHANGED <<fdOf, running, outbuf>>
    <3>1. d \in running => outbuf[d] = 0
      <4>1. SUFFICES ASSUME d \in running, outbuf[d] # 0 PROVE FALSE
        OBVIOUS
      <4>2. outbuf[d] > 0 /\ fdOf[d] \in Fds
        BY <2>3, <4>1 DEF TypeInv, TypeOK, ConnType, SocketShape, Intact
      <4>3. connections[fdOf[d]] = d
        BY <2>3, <4>1, <4>2 DEF ServedInv, OutputServed, Served
      <4> QED
        BY <2>4, <4>1, <4>2, <4>3 DEF OwnInv, EntryInv
    <3>2. \A c \in Conns : StillWriting(c)
      BY <2>3, <2>6, <3>1 DEF StillWriting, EpollCtl, TypeInv, TypeOK, KernelType
    <3> QED
      BY <1>2, <2>2, <3>2, WriteFrame
  <2> QED
    BY <1>11, <2>5, <2>6 DEF RunAdd, At
<1>12. CASE RunEnable
  <2> DEFINE f == Head(functors).fd
  <2>1. /\ functors \in Seq(Functor) /\ functors # <<>> /\ functors' = Tail(functors)
        /\ UNCHANGED <<pending, fdOf, running, outbuf, wpc, wconn, wfd>>
    BY <1>12 DEF RunEnable, TypeInv, TypeOK, ReactorType, At
  <2>2. \A c \in Conns : interest[c] = "inout" => interest'[c] = "inout"
    BY <1>12 DEF RunEnable, EpollCtl, TypeInv, TypeOK, KernelType, At
  <2>3. ASSUME NEW c \in Conns, c \in running, outbuf[c] > 0, fdOf[c] = f PROVE interest'[c] = "inout"
    <3>1. f \in Fds /\ connections[f] = c
      BY <2>3 DEF ServedInv, OutputServed, Served, TypeInv, SocketShape, Intact
    <3>2. interest[c] # "none" /\ connections[f] # NoConn
      BY <2>3, <3>1, ConstAssumption DEF OwnInv, EntryInv
    <3> QED
      BY <1>12, <2>3, <3>1, <3>2 DEF RunEnable, EpollCtl, Registered, At
  <2>4. ASSUME NEW c \in Conns, c \in running, outbuf[c] > 0, fdOf[c] # f, interest[c] # "inout"
        PROVE  \/ EnableQueued(fdOf[c], pending) \/ EnableQueued(fdOf[c], Tail(functors))
               \/ \E w \in Workers : wpc[w] = "push" /\ wconn[w] = c /\ wfd[w] = fdOf[c]
    BY <2>1, <2>4, EnableTail DEF NoLostWrite, Intact
  <2> QED
    BY <2>1, <2>2, <2>3, <2>4 DEF NoLostWrite, EnableQueued
<1> QED
  BY <1>4, <1>5, <1>6, <1>7, <1>8, <1>9, <1>10, <1>11, <1>12 DEF Reactor

LEMMA WorkerNoLostWrite ==
  ASSUME TypeInv, TypeInv', FunctorInv, OwnInv, ServedInv, Intact, NoLostWrite,
         NEW w \in Workers, Worker(w)
  PROVE  NoLostWrite'
<1> USE DEF stateVars, connVars, kernelVars, sockVars, threadVars, serverVars
<1>0. Quiet /\ wpc \in [Workers -> {"idle", "send", "push", "wake", "close", "closing", "reset",
                             "crashed"}]
      /\ wconn \in [Workers -> Conns \cup {NoConn}] /\ wfd \in [Workers -> Fds \cup {NoFd}]
      /\ outbuf \in [Conns -> 0..MaxBuffer]
  BY QuietWorker DEF TypeInv, TypeOK, WorkerType, ConnType
<1>1. UNCHANGED <<pending, functors>> => EnableKept
  BY DEF EnableKept
<1>2. CASE TakeTask(w) \/ EnableWritingWake(w)
  <2>1. PushKept /\ UNCHANGED <<pending, functors, fdOf, interest, running, outbuf>>
    BY <1>0, <1>2 DEF TakeTask, EnableWritingWake, PushKept, On
  <2> QED
    BY <1>1, <2>1, SameWriting, WriteFrame
<1>3. CASE TaskShutdown(w) \/ TaskClose(w)
  <2>1. PushKept /\ UNCHANGED <<pending, functors>>
    BY <1>0, <1>3 DEF TaskShutdown, TaskClose, PushKept, On
  <2>2. wconn[w] \in Conns /\ (TaskClose(w) => wconn[w] \notin running')
    BY <1>3 DEF TaskShutdown, TaskClose, TypeInv, TypeOK, WorkerShape, ConnType, On
  <2>3. \A c \in Conns : StillWriting(c)
    BY <1>0, <1>3, <2>2 DEF TaskShutdown, TaskClose, Unregister, StillWriting, Quiet, On
  <2> QED
    BY <1>1, <2>1, <2>3, WriteFrame
<1>6. CASE TaskReset(w)
  <2>1. PushKept /\ UNCHANGED <<pending, functors, running>> /\ CloseAgain(wconn[w])
    BY <1>0, <1>6 DEF TaskReset, PushKept, On
  <2>2. wconn[w] \in Conns /\ UNCHANGED <<fdOf, interest>>
        /\ \A d \in Conns : outbuf'[d] = outbuf[d] \/ outbuf'[d] = 0
    BY <1>6, <2>1, SecondClose DEF TaskReset, TypeInv, TypeOK, WorkerShape, ConnType, On, Intact
  <2>3. \A c \in Conns : StillWriting(c)
    BY <2>1, <2>2 DEF StillWriting
  <2> QED
    BY <1>1, <2>1, <2>3, WriteFrame
<1>4. CASE SendReply(w)
  <2> DEFINE d == wconn[w]
  <2>1. d \in Conns /\ wpc[w] = "send" /\ UNCHANGED <<pending, functors, wconn>>
    BY <1>4 DEF SendReply, TypeInv, TypeOK, WorkerShape, ConnType, On
  <2>2. PushKept
    BY <1>0, <1>4, <2>1 DEF SendReply, PushKept, On
  <2>3. CASE Overflows(d, 1)
    <3>1. \A c \in Conns : StillWriting(c)
      BY <1>0, <1>4, <2>1, <2>3, LockedWriting, SameWriting DEF SendReply, On
    <3> QED
      BY <1>1, <2>1, <2>2, <3>1, WriteFrame
  <2>4. CASE ~Overflows(d, 1) /\ ~WasEmpty(d)
    <3>1. outbuf[d] > 0
      BY <1>0, <2>1, <2>4 DEF WasEmpty
    <3>2. \A c \in Conns : StillWriting(c)
      BY <1>0, <1>4, <2>1, <2>4, <3>1 DEF SendReply, StillWriting, On
    <3> QED
      BY <1>1, <2>1, <2>2, <3>2, WriteFrame
  <2>5. CASE ~Overflows(d, 1) /\ WasEmpty(d)
    <3>1. UNCHANGED <<fdOf, interest, running>> /\ \A c \in Conns : c # d => outbuf'[c] = outbuf[c]
      BY <1>0, <1>4, <2>1, <2>5 DEF SendReply, On
    <3>2. d \in running => wpc'[w] = "push" /\ wconn'[w] = d /\ wfd'[w] = fdOf'[d]
      <4>1. d \in running => fdOf[d] \in Fds /\ fdOf[d] # NoFd /\ sock[d] = fdOf[d]
        BY <2>1, ConstAssumption DEF TypeInv, SocketShape, Intact
      <4> QED
        BY <1>0, <1>4, <2>1, <2>5, <3>1, <4>1 DEF SendReply, On
    <3>3. ASSUME NEW c \in Conns, c # d, c \in running', outbuf'[c] > 0, interest'[c] # "inout"
          PROVE  \/ EnableQueued(fdOf'[c], pending') \/ EnableQueued(fdOf'[c], functors')
                 \/ \E v \in Workers : wpc'[v] = "push" /\ wconn'[v] = c /\ wfd'[v] = fdOf'[c]
      BY <2>1, <2>2, <3>1, <3>3 DEF NoLostWrite, PushKept, Intact
    <3> QED
      BY <2>1, <3>1, <3>2, <3>3 DEF NoLostWrite, EnableQueued
  <2> QED
    BY <2>3, <2>4, <2>5
<1>5. CASE EnableWriting(w)
  <2>1. UNCHANGED <<fdOf, interest, running, outbuf, functors, wconn>>
    BY <1>5 DEF EnableWriting, workerVars, On
  <2>2. CASE spc = "destroyed"
    <3>1. rpc = "done"
      BY <2>2 DEF FunctorInv
    <3> QED
      BY <2>1, <3>1, DoneNoOutput DEF NoLostWrite, Intact
  <2>3. CASE spc # "destroyed"
    <3> DEFINE x == [op |-> "enable", fd |-> wfd[w], conn |-> NoConn]
    <3>1. pending \in Seq(Functor) /\ pending' = Append(pending, x)
      BY <1>5, <2>3 DEF EnableWriting, TypeInv, TypeOK, MapType, On
    <3>2. x.op = "enable" /\ x.fd = wfd[w]
      OBVIOUS
    <3> HIDE DEF x
    <3>3. \A f : EnableQueued(f, pending) => EnableQueued(f, pending')
      BY <3>1, EnableAppend
    <3>4. EnableQueued(wfd[w], pending')
      BY <3>1, <3>2, EnableAppend
    <3>5. \A v \in Workers : v # w => UNCHANGED <<wpc[v], wfd[v]>>
      BY <1>0, <1>5, <2>3 DEF EnableWriting, On
    <3>6. ASSUME NEW c \in Conns, c \in running', outbuf'[c] > 0, interest'[c] # "inout"
          PROVE  \/ EnableQueued(fdOf'[c], pending') \/ EnableQueued(fdOf'[c], functors')
                 \/ \E v \in Workers : wpc'[v] = "push" /\ wconn'[v] = c /\ wfd'[v] = fdOf'[c]
      BY <2>1, <3>3, <3>4, <3>5, <3>6 DEF NoLostWrite, Intact
    <3> QED
      BY <3>6 DEF NoLostWrite, EnableQueued
  <2> QED
    BY <2>2, <2>3
<1> QED
  BY <1>2, <1>3, <1>4, <1>5, <1>6 DEF Worker

LEMMA NextNoLostWrite ==
  TypeInv /\ TypeInv' /\ FunctorInv /\ OwnInv /\ ServedInv /\ Intact /\ NoLostWrite /\ [Next]_vars
    => NoLostWrite'
<1> SUFFICES ASSUME TypeInv, TypeInv', FunctorInv, OwnInv, ServedInv, Intact, NoLostWrite, [Next]_vars
             PROVE  NoLostWrite'
  OBVIOUS
<1> USE DEF stateVars, connVars, kernelVars, sockVars, threadVars, workerVars
<1>1. CASE Reactor
  BY <1>1, ReactorNoLostWrite
<1>2. CASE \E w \in Workers : Worker(w)
  BY <1>2, WorkerNoLostWrite
<1>3. UNCHANGED <<wpc, wconn, wfd>> => PushKept
  BY DEF PushKept
<1>4. UNCHANGED <<pending, functors>> => EnableKept
  BY DEF EnableKept
<1>5. ASSUME NEW d \in Conns, NEW f \in Fds, AddConnection(d, f) PROVE NoLostWrite'
  <2>1. outbuf[d] = 0
    BY <1>5 DEF AddConnection, ServedInv, OutputServed, TypeInv, TypeOK, ConnType
  <2>2. \A c \in Conns : StillWriting(c)
    BY <1>5, <2>1 DEF AddConnection, StillWriting, TypeInv, TypeOK, KernelType
  <2>3. pending \in Seq(Functor) /\ functors' = functors
        /\ pending' = Append(pending, [op |-> "add", fd |-> f, conn |-> d])
    BY <1>5 DEF AddConnection, TypeInv, TypeOK, MapType
  <2>4. EnableKept
    BY <2>3, EnableAppend DEF EnableKept
  <2> QED
    BY <1>3, <1>5, <2>2, <2>4, WriteFrame DEF AddConnection
<1>6. CASE AddConnectionWake \/ TimerFires \/ (\E f \in Fds : DeadlinePasses(f))
           \/ ShutdownWake \/ RequestStop
  BY <1>3, <1>4, <1>6, SameWriting, WriteFrame
     DEF AddConnectionWake, TimerFires, DeadlinePasses, ShutdownWake, RequestStop
<1>7. CASE \E c \in Conns : Client(c)
  BY <1>3, <1>4, <1>7, SameWriting, WriteFrame DEF Client, ClientSend, ClientLeaves, ClientReads
<1>8. CASE JoinReactor \/ DestroyReactor
  <2>1. rpc = "done" /\ running' \subseteq running
    BY <1>8 DEF JoinReactor, DestroyReactor, FunctorInv, CloseEntries, Shutdown, At
  <2>2. \A c \in Conns : c \in running' => outbuf'[c] = 0
    BY <1>8, <2>1, DoneNoOutput DEF JoinReactor, DestroyReactor, CloseEntries, Shutdown, At, Intact
  <2> QED
    BY <2>2 DEF NoLostWrite
<1>9. CASE UNCHANGED vars
  BY <1>3, <1>4, <1>9, SameWriting, WriteFrame DEF vars
<1>10. ASSUME NEW d \in Conns, ResetSocket(d) PROVE NoLostWrite'
  <2>1. UNCHANGED <<fdOf, interest, running>>
        /\ \A c \in Conns : outbuf'[c] = outbuf[c] \/ outbuf'[c] = 0
    BY <1>10, SecondClose DEF ResetSocket, Intact
  <2>2. \A c \in Conns : StillWriting(c)
    BY <2>1 DEF StillWriting
  <2> QED
    BY <1>3, <1>4, <1>10, <2>2, WriteFrame DEF ResetSocket
<1> QED
  BY <1>1, <1>2, <1>5, <1>6, <1>7, <1>8, <1>9, <1>10 DEF Next, ShutdownThread, Terminated

(* A reply in the output buffer of a live connection always has somebody    *)
(* who will have it written: EPOLLOUT, a queued enable functor or a sender  *)
(* on its way to queue one, although sends come from several workers while  *)
(* the reactor drains the buffer and turns EPOLLOUT off; until a second     *)
(* close takes away the socket of another connection.                       *)
THEOREM WritesNeverLost == Spec => []NoLostWrite
<1>1. Init => NoLostWrite
  BY DEF Init, NoLostWrite
<1>2. /\ TypeInv /\ TypeInv' /\ FunctorInv /\ (cut = {} => OwnInv) /\ (cut = {} => ServedInv)
      /\ NoLostWrite /\ [Next]_vars
      => NoLostWrite'
  <2>1. cut' # {} => NoLostWrite'
    BY DEF NoLostWrite
  <2> QED
    BY <2>1, NextNoLostWrite, CutEnds DEF Intact
<1> QED
  BY <1>1, <1>2, SpecTypeInv, SpecFunctorInv, SpecOwnInv, SpecServedInv, PTL DEF Spec

-----------------------------------------------------------------------------
(* The end.  A live connection is held by the map, by an add functor or by  *)
(* the functors being run; the destructor leaves none of them.              *)

AddQueued(c, q) == \E i \in AddsOf(q) : q[i].conn = c
Held(c) ==
    \/ c \in dropped \/ connections[fdOf[c]] = c
    \/ AddQueued(c, pending) \/ AddQueued(c, functors)
HeldInv == \A c \in running : Held(c)

(* What is left after the join and after the destructor.                    *)
EndInv ==
    /\ spc \in {"joined", "destroyed"} => \A f \in Fds : timeouts[f] = 0
    /\ spc = "destroyed" => pending = <<>> /\ running = {}

\* Every add functor of a connection that lives on is still queued.
AddsKept ==
    \A c \in running' : AddQueued(c, pending) \/ AddQueued(c, functors) =>
                        AddQueued(c, pending') \/ AddQueued(c, functors')

LEMMA QuietHeld ==
  ASSUME TypeInv, OwnInv, Intact, HeldInv, Quiet, AddsKept
  PROVE  HeldInv'
<1> SUFFICES ASSUME NEW c \in running'
             PROVE  \/ c \in dropped' \/ connections'[fdOf'[c]] = c
                    \/ AddQueued(c, pending') \/ AddQueued(c, functors')
  BY DEF HeldInv, Held, AddQueued
<1>1. c \in running /\ c \in Conns /\ fdOf'[c] = fdOf[c] /\ fdOf[c] \in Fds
  BY DEF Quiet, TypeInv, TypeOK, ConnType, SocketShape, Intact
<1>2. Held(c)
  BY <1>1 DEF HeldInv
<1>3. c \in dropped => c \in dropped'
  BY DEF Quiet
<1>4. connections[fdOf[c]] = c => connections'[fdOf[c]] = c
  BY <1>1 DEF Quiet
<1> QED
  BY <1>1, <1>2, <1>3, <1>4 DEF Held, AddsKept

LEMMA AddTail ==
  ASSUME NEW q \in Seq(Functor), q # <<>>, NEW c, AddQueued(c, q),
         Head(q).op = "enable" \/ Head(q).conn # c
  PROVE  AddQueued(c, Tail(q))
<1>1. PICK i \in DOMAIN q : q[i].op = "add" /\ q[i].conn = c
  BY DEF AddQueued, AddsOf
<1>2. i # 1
  BY <1>1
<1>3. i - 1 \in DOMAIN Tail(q) /\ Tail(q)[i - 1] = q[i]
  BY <1>2
<1> QED
  BY <1>1, <1>3 DEF AddQueued, AddsOf

LEMMA AddAppend ==
  ASSUME NEW q \in Seq(Functor), NEW x, NEW c
  PROVE  /\ AddQueued(c, q) => AddQueued(c, Append(q, x))
         /\ x.op = "add" /\ x.conn = c => AddQueued(c, Append(q, x))
<1>1. \A i \in DOMAIN q : i \in DOMAIN Append(q, x) /\ Append(q, x)[i] = q[i]
  OBVIOUS
<1>2. Len(q) + 1 \in DOMAIN Append(q, x) /\ Append(q, x)[Len(q) + 1] = x
  OBVIOUS
<1> QED
  BY <1>1, <1>2 DEF AddQueued, AddsOf

LEMMA AcceptHeld ==
  ASSUME TypeInv, HeldInv, NEW d \in Conns, NEW f \in Fds, AddConnection(d, f)
  PROVE  HeldInv'
<1> DEFINE x == [op |-> "add", fd |-> f, conn |-> d]
<1>1. /\ pending \in Seq(Functor) /\ pending' = Append(pending, x)
      /\ UNCHANGED <<functors, dropped, connections>>
      /\ running' = running \cup {d} /\ \A c \in Conns : c # d => fdOf'[c] = fdOf[c]
  BY DEF AddConnection, stateVars, threadVars, TypeInv, TypeOK, MapType, KernelType
<1>2. x.op = "add" /\ x.conn = d
  OBVIOUS
<1> HIDE DEF x
<1>3. AddQueued(d, pending') /\ \A c : AddQueued(c, pending) => AddQueued(c, pending')
  BY <1>1, <1>2, AddAppend
<1>4. ASSUME NEW c \in running'
      PROVE  \/ c \in dropped' \/ connections'[fdOf'[c]] = c
             \/ AddQueued(c, pending') \/ AddQueued(c, functors')
  BY <1>1, <1>3, <1>4 DEF HeldInv, Held, TypeInv, TypeOK, ConnType
<1> QED
  BY <1>4 DEF HeldInv, Held, AddQueued

LEMMA RunAddHeld ==
  ASSUME TypeInv, OwnInv, Intact, HeldInv, RunAdd
  PROVE  HeldInv'
<1> DEFINE f == Head(functors).fd
           d == Head(functors).conn
<1> USE DEF stateVars
<1>1. /\ functors \in Seq(Functor) /\ functors # <<>> /\ functors' = Tail(functors)
      /\ pending' = pending /\ f \in Fds /\ d \in Conns
  BY DEF RunAdd, TypeInv, TypeOK, ReactorType, Functor, At
<1>2. 1 \in AddsOf(functors) /\ functors[1] = Head(functors)
  BY <1>1 DEF RunAdd, AddsOf, At
<1>3. d \in running => fdOf[d] = f
  BY <1>2 DEF OwnInv, QueueInv, QueueOk
<1>4. \A c : c # d /\ AddQueued(c, functors) => AddQueued(c, functors')
  BY <1>1, AddTail
<1>5. CASE Shutdown({d}, {}) /\ UNCHANGED <<connections, dropped>>
  <2>1. Quiet /\ d \notin running'
    BY <1>1, <1>5, QuietShutdown DEF RunAdd, Shutdown, At
  <2>2. AddsKept
    BY <1>1, <1>4, <2>1 DEF AddsKept
  <2> QED
    BY <2>1, <2>2, QuietHeld
<1>6. ASSUME d \in running, UNCHANGED <<fdOf, running>>,
             \/ dropped' = dropped \cup {d} /\ connections' = connections
             \/ /\ connections[f] = NoConn /\ dropped' = dropped
                /\ connections' = [connections EXCEPT ![f] = d]
      PROVE  HeldInv'
  <2>1. ASSUME NEW c \in running'
        PROVE  \/ c \in dropped' \/ connections'[fdOf'[c]] = c
               \/ AddQueued(c, pending') \/ AddQueued(c, functors')
    <3>1. CASE c = d
      BY <1>1, <1>3, <1>6, <3>1 DEF TypeInv, TypeOK, MapType
    <3>2. CASE c # d
      <4>1. c \in running /\ c \in Conns /\ Held(c)
        BY <1>6, <2>1 DEF HeldInv, TypeInv, TypeOK, ConnType
      <4>2. connections[fdOf[c]] = c => connections'[fdOf[c]] = c
        BY <1>1, <1>6, <4>1, ConstAssumption DEF TypeInv, TypeOK, MapType, SocketShape, Intact
      <4> QED
        BY <1>1, <1>4, <1>6, <3>2, <4>1, <4>2 DEF Held
    <3> QED
      BY <3>1, <3>2
  <2> QED
    BY <2>1 DEF HeldInv, Held, AddQueued
<1> QED
  BY <1>5, <1>6 DEF RunAdd, At

LEMMA NextHeldInv ==
  TypeInv /\ FunctorInv /\ OwnInv /\ Intact /\ HeldInv /\ [Next]_vars => HeldInv'
<1> SUFFICES ASSUME TypeInv, FunctorInv, OwnInv, Intact, HeldInv, [Next]_vars PROVE HeldInv'
  OBVIOUS
<1>1. CASE RunAdd
  BY <1>1, RunAddHeld
<1>2. CASE \E c \in Conns, f \in Fds : AddConnection(c, f)
  BY <1>2, AcceptHeld
<1>3. CASE ~RunAdd /\ ~\E c \in Conns, f \in Fds : AddConnection(c, f)
  <2>1. Quiet /\ pending \in Seq(Functor) /\ functors \in Seq(Functor)
    BY <1>3, NextQuiet DEF TypeInv, TypeOK, MapType, ReactorType
  <2>2. CASE UNCHANGED <<pending, functors>>
    BY <2>1, <2>2, QuietHeld DEF AddsKept
  <2>3. CASE functors' = functors /\ \E x : pending' = Append(pending, x)
    <3>1. AddsKept
      BY <2>1, <2>3, AddAppend DEF AddsKept
    <3> QED
      BY <2>1, <3>1, QuietHeld
  <2>4. CASE EndBatch
    <3>1. functors = <<>>
      BY <2>4 DEF EndBatch, OwnInv, PhaseInv, At
    <3>2. AddsKept
      BY <2>4, <3>1 DEF EndBatch, AddsKept, AddQueued, AddsOf, At
    <3> QED
      BY <2>1, <3>2, QuietHeld
  <2>5. CASE RunEnable
    <3>1. AddsKept
      BY <2>1, <2>5, AddTail DEF RunEnable, AddsKept, At
    <3> QED
      BY <2>1, <3>1, QuietHeld
  <2>6. CASE DestroyReactor
    <3>1. functors' = functors /\ \A c \in running' : ~AddQueued(c, pending)
      BY <2>6 DEF DestroyReactor, threadVars, Shutdown, QueuedConns, AddQueued, AddsOf
    <3>2. AddsKept
      BY <3>1 DEF AddsKept
    <3> QED
      BY <2>1, <3>2, QuietHeld
  <2>7. \/ UNCHANGED <<pending, functors>>
        \/ functors' = functors /\ \E x : pending' = Append(pending, x)
        \/ EndBatch \/ RunEnable \/ DestroyReactor
    <3> USE DEF threadVars
    <3>1. CASE Reactor
      BY <1>3, <3>1
         DEF Reactor, LoopTest, EpollWait, DispatchWake, DispatchTimer, DispatchClose, DispatchIo,
             HandleReadDead, HandleReadFails, HandleReadSubmit, HandleReadInline, NothingToWrite,
             HandleWrite, HandleWriteError, ReapCurrent, FunctorsDone, Cleanup, At
    <3>2. CASE \E w \in Workers : Worker(w)
      BY <3>2 DEF Worker, TakeTask, SendReply, EnableWriting, EnableWritingWake, TaskShutdown,
         TaskClose, TaskReset, On
    <3>3. CASE AddConnectionWake \/ TimerFires \/ (\E f \in Fds : DeadlinePasses(f)) \/ ShutdownThread
      BY <3>3 DEF AddConnectionWake, TimerFires, DeadlinePasses, ShutdownThread, ShutdownWake,
                  RequestStop, JoinReactor, At
    <3>4. CASE \E c \in Conns : Client(c)
      BY <3>4 DEF Client, ClientSend, ClientLeaves, ClientReads
    <3>5. CASE UNCHANGED vars
      BY <3>5 DEF vars
    <3>6. CASE \E c \in Conns : ResetSocket(c)
      BY <3>6 DEF ResetSocket
    <3> QED
      BY <1>3, <3>1, <3>2, <3>3, <3>4, <3>5, <3>6 DEF Next, Terminated
  <2> QED
    BY <2>2, <2>3, <2>4, <2>5, <2>6, <2>7
<1> QED
  BY <1>1, <1>2, <1>3

LEMMA DoneNoReactor == ASSUME rpc = "done" PROVE ~Reactor
  BY DEF Reactor, LoopTest, EpollWait, DispatchWake, DispatchTimer, DispatchClose, DispatchIo,
         HandleReadDead, HandleReadFails, HandleReadSubmit, HandleReadInline, NothingToWrite,
         HandleWrite, HandleWriteError, ReapCurrent, EndBatch, RunAdd, RunEnable, FunctorsDone,
         Cleanup, At

LEMMA NextEndInv ==
  TypeInv /\ FunctorInv /\ OwnInv /\ Intact /\ HeldInv /\ EndInv /\ [Next]_vars => EndInv'
<1> SUFFICES ASSUME TypeInv, FunctorInv, OwnInv, Intact, HeldInv, EndInv, [Next]_vars PROVE EndInv'
  OBVIOUS
<1> USE DEF stateVars, connVars, serverVars
<1>1. CASE JoinReactor
  BY <1>1 DEF JoinReactor, EndInv, At
<1>2. CASE DestroyReactor
  <2>1. rpc = "done"
    BY <1>2 DEF DestroyReactor, FunctorInv
  <2>2. ASSUME NEW c \in running PROVE c \in QueuedConns(pending)
    <3>1. c \in Conns /\ fdOf[c] \in Fds /\ Held(c)
      BY <2>2 DEF HeldInv, TypeInv, TypeOK, ConnType, SocketShape, Intact
    <3>2. connections[fdOf[c]] # c /\ c \notin dropped /\ functors = <<>>
      BY <2>1, <3>1, ConstAssumption DEF OwnInv, PhaseInv
    <3> QED
      BY <3>1, <3>2 DEF Held, AddQueued, AddsOf, QueuedConns
  <2>3. running' = {} /\ pending' = <<>> /\ timeouts' = timeouts
    BY <1>2, <2>2 DEF DestroyReactor, Shutdown
  <2> QED
    BY <1>2, <2>3 DEF DestroyReactor, EndInv
<1>3. CASE Reactor
  <2>1. spc \notin {"joined", "destroyed"} /\ spc' = spc
    BY <1>3, DoneNoReactor DEF FunctorInv, Reactor, LoopTest, EpollWait, DispatchWake,
       DispatchTimer, DispatchClose, DispatchIo, HandleReadDead, HandleReadFails,
       HandleReadSubmit, HandleReadInline, NothingToWrite, HandleWrite, HandleWriteError,
       ReapCurrent, EndBatch, RunAdd, RunEnable, FunctorsDone, Cleanup, At
  <2> QED
    BY <2>1 DEF EndInv
<1>4. ASSUME NEW w \in Workers, Worker(w) PROVE EndInv'
  <2>1. UNCHANGED <<timeouts, spc>> /\ (spc = "destroyed" => pending' = pending)
    BY <1>4 DEF Worker, TakeTask, SendReply, EnableWriting, EnableWritingWake, TaskShutdown,
       TaskClose, TaskReset, On
  <2>2. running' \subseteq running
    BY <1>4, QuietWorker DEF Quiet
  <2> QED
    BY <2>1, <2>2 DEF EndInv
<1>5. CASE AddConnectionWake \/ TimerFires \/ (\E f \in Fds : DeadlinePasses(f))
           \/ \E c \in Conns, f \in Fds : AddConnection(c, f)
  BY <1>5 DEF AddConnectionWake, TimerFires, DeadlinePasses, AddConnection, EndInv
<1>6. CASE ShutdownWake \/ RequestStop
  BY <1>6 DEF ShutdownWake, RequestStop, EndInv
<1>7. CASE \E c \in Conns : Client(c)
  BY <1>7 DEF Client, ClientSend, ClientLeaves, ClientReads, EndInv
<1>8. CASE UNCHANGED vars
  BY <1>8 DEF vars, EndInv
<1>9. CASE \E c \in Conns : ResetSocket(c)
  BY <1>9 DEF ResetSocket, EndInv
<1> QED
  BY <1>1, <1>2, <1>3, <1>4, <1>5, <1>6, <1>7, <1>8, <1>9 DEF Next, ShutdownThread, Terminated

LEMMA SpecEndInv == Spec => [](EndInv /\ (cut = {} => HeldInv))
<1>1. Init => HeldInv /\ EndInv
  BY DEF Init, HeldInv, EndInv
<1>2. TypeInv /\ FunctorInv /\ (cut = {} => OwnInv) /\ (cut = {} => HeldInv) /\ [Next]_vars
        => (cut = {} => HeldInv)'
  BY NextHeldInv, CutEnds DEF Intact
<1>3. TypeInv /\ FunctorInv /\ (cut = {} => OwnInv) /\ (cut = {} => HeldInv) /\ EndInv /\ [Next]_vars
        => EndInv'
  <2> SUFFICES ASSUME TypeInv, FunctorInv, cut = {} => OwnInv, cut = {} => HeldInv, EndInv,
                      [Next]_vars
               PROVE  EndInv'
    OBVIOUS
  <2>1. CASE cut' = {}
    BY <2>1, NextEndInv, CutEnds DEF Intact
  <2>2. CASE cut' # {}
    BY <2>2, CutStep DEF frameVars, EndInv
  <2> QED
    BY <2>1, <2>2
<1> QED
  BY <1>1, <1>2, <1>3, SpecTypeInv, SpecFunctorInv, SpecOwnInv, PTL DEF Spec

(* When the destructor has run, no connection given to the reactor is left  *)
(* open: the ones in the map were closed by the loop or the join, and the   *)
(* ones the loop never got to see went with the queue of functors.          *)
THEOREM NothingOutlivesReactor == Spec => []NothingLeftBehind
<1>1. TypeInv /\ FunctorInv /\ PhaseInv /\ EndInv /\ ActiveMatchesMap => NothingLeftBehind
  <2> SUFFICES ASSUME TypeInv, FunctorInv, PhaseInv, EndInv, ActiveMatchesMap, spc = "destroyed"
               PROVE  /\ \A f \in Fds : connections[f] = NoConn /\ timeouts[f] = 0
                      /\ active = 0 /\ pending = <<>> /\ functors = <<>>
                      /\ \A c \in Conns : c \notin running
    BY DEF NothingLeftBehind
  <2>1. rpc = "done"
    BY DEF FunctorInv
  <2>2. functors = <<>> /\ \A f \in Fds : connections[f] = NoConn
    BY <2>1 DEF PhaseInv
  <2>3. {f \in Fds : connections[f] # NoConn} = {}
    BY <2>2
  <2>4. active = 0
    BY <2>3, FS_EmptySet DEF ActiveMatchesMap
  <2> QED
    BY <2>2, <2>4 DEF EndInv
<1> QED
  BY <1>1, SpecTypeInv, SpecFunctorInv, SpecPhaseInv, SpecEndInv, ActiveIsMapSize, PTL

-----------------------------------------------------------------------------
(* The batch of events.  NoFalseEof needs BatchInv: with two events for a   *)
(* descriptor, the first one's handler would read what the second announces.*)

\* where the reactor is while it handles a batch of events
Handling == {"dispatch", "read", "write", "reap"}

(* A batch has one event per descriptor, and none for the one in hand.      *)
BatchInv ==
    /\ rpc \in Handling => \A d, e \in batch : d.fd = e.fd => d = e
    /\ rpc \in {"read", "write", "reap"} => \A e \in batch : e.fd # cur.fd

(* What a step takes from a socket that had something to read: only the     *)
(* handler does, of the connection in hand.                                 *)
ReadStep ==
    \A c \in Conns :
        Readable(c) => Readable(c)' \/ (rpc = "read" /\ rpc' = "write" /\ c = cur.conn)

(* What a step may do to the batch.                                         *)
BatchStep ==
    \/ EpollWait
    \/ \E e \in batch : DispatchIo(e)
    \/ /\ batch' \subseteq batch
       /\ rpc' \in Handling => rpc \in Handling
       /\ rpc' = "read" => rpc = "read"
       /\ rpc' \in {"read", "write", "reap"} =>
            rpc \in {"read", "write", "reap"} /\ UNCHANGED <<batch, cur>>

(* Only epoll_wait fills the batch, and only the dispatch of an event opens *)
(* the handlers; every other step leaves the batch or shortens it.          *)
LEMMA NextBatchStep == ASSUME TypeInv, [Next]_vars PROVE BatchStep
<1> USE DEF Handling, vars, threadVars
<1>1. CASE UNCHANGED threadVars
  BY <1>1 DEF BatchStep
<1>2. CASE Reactor
  <2>1. CASE LoopTest \/ EpollWait
    BY <2>1 DEF BatchStep, LoopTest, At
  <2>2. ASSUME NEW e \in batch,
               DispatchWake(e) \/ DispatchTimer(e) \/ DispatchClose(e) \/ DispatchIo(e)
        PROVE  BatchStep
    BY <2>2 DEF BatchStep, DispatchWake, DispatchTimer, DispatchClose, At
  <2>3. CASE HandleReadDead \/ HandleReadFails \/ HandleReadSubmit \/ HandleReadInline
    BY <2>3 DEF BatchStep, HandleReadDead, HandleReadFails, HandleReadSubmit, HandleReadInline, At
  <2>4. CASE NothingToWrite \/ HandleWrite \/ HandleWriteError \/ ReapCurrent
    BY <2>4 DEF BatchStep, NothingToWrite, HandleWrite, HandleWriteError, ReapCurrent, At
  <2>5. CASE EndBatch \/ RunAdd \/ RunEnable \/ FunctorsDone \/ Cleanup
    BY <2>5 DEF BatchStep, EndBatch, RunAdd, RunEnable, FunctorsDone, Cleanup, At
  <2> QED
    BY <1>2, <2>1, <2>2, <2>3, <2>4, <2>5 DEF Reactor
<1>3. CASE \E w \in Workers : Worker(w)
  BY <1>1, <1>3 DEF Worker, TakeTask, SendReply, EnableWriting, EnableWritingWake, TaskShutdown,
     TaskClose, TaskReset, On
<1>4. CASE ShutdownThread \/ \E c \in Conns : Client(c)
  BY <1>1, <1>4 DEF ShutdownThread, ShutdownWake, RequestStop, JoinReactor, DestroyReactor,
     Client, ClientSend, ClientLeaves, ClientReads, At
<1> QED
  BY <1>1, <1>2, <1>3, <1>4 DEF Next, Terminated, AddConnection, AddConnectionWake, TimerFires,
     DeadlinePasses, ResetSocket

(* Only the handler of the connection in hand empties a socket.             *)
LEMMA NextReadStep == ASSUME TypeInv, [Next]_vars PROVE ReadStep
<1> USE DEF vars, clientVars
<1>1. CASE UNCHANGED <<inq, peer>>
  BY <1>1 DEF ReadStep, Readable
<1>2. CASE Reactor
  <2>1. CASE UNCHANGED <<inq, peer>>
    BY <2>1, <1>1
  <2>2. CASE HandleReadFails \/ HandleReadSubmit \/ HandleReadInline
    <3>1. inq' = [inq EXCEPT ![cur.conn] = <<>>] /\ UNCHANGED peer /\ rpc = "read" /\ rpc' = "write"
      BY <2>2 DEF HandleReadFails, HandleReadSubmit, HandleReadInline, At
    <3> QED
      BY <3>1 DEF ReadStep, Readable, TypeInv, TypeOK, ClientType
  <2> QED
    BY <1>2, <2>1, <2>2 DEF Reactor, LoopTest, EpollWait, DispatchWake, DispatchTimer,
       DispatchClose, DispatchIo, HandleReadDead, NothingToWrite, HandleWrite, HandleWriteError,
       ReapCurrent, EndBatch, RunAdd, RunEnable, FunctorsDone, Cleanup, At
<1>3. CASE \E w \in Workers : Worker(w)
  BY <1>1, <1>3 DEF Worker, TakeTask, SendReply, EnableWriting, EnableWritingWake, TaskShutdown,
     TaskClose, TaskReset, On
<1>4. CASE ShutdownThread
  BY <1>1, <1>4 DEF ShutdownThread, ShutdownWake, RequestStop, JoinReactor, DestroyReactor, At
<1>5. ASSUME NEW c \in Conns, Client(c) PROVE ReadStep
  <2>1. ASSUME NEW k \in Kinds, ClientSend(c, k) PROVE ReadStep
    <3>1. inq[c] \in Seq(Kinds) /\ inq' = [inq EXCEPT ![c] = Append(inq[c], k)] /\ UNCHANGED peer
      BY <2>1 DEF ClientSend, TypeInv, TypeOK, ClientType
    <3>2. Append(inq[c], k) # <<>>
      BY <3>1
    <3> QED
      BY <3>1, <3>2 DEF ReadStep, Readable, TypeInv, TypeOK, ClientType
  <2>2. ASSUME NEW how \in {"fin", "rst"}, ClientLeaves(c, how) PROVE ReadStep
    BY <2>2 DEF ClientLeaves, ReadStep, Readable, TypeInv, TypeOK, ClientType
  <2>3. CASE ClientReads(c)
    BY <1>1, <2>3 DEF ClientReads
  <2> QED
    BY <1>5, <2>1, <2>2, <2>3 DEF Client
<1> QED
  BY <1>1, <1>2, <1>3, <1>4, <1>5 DEF Next, Terminated, AddConnection, AddConnectionWake,
     TimerFires, DeadlinePasses, ResetSocket

(* While events are handled, a number does not come to stand for another    *)
(* live connection.                                                         *)
LEMMA AliveBefore ==
  ASSUME TypeInv, TypeInv', OwnInv, FunctorInv, Intact, [Next]_vars, rpc # "functors",
         NEW f \in Fds, Alive(f)'
  PROVE  Alive(f) /\ connections'[f] = connections[f]
<1>1. CASE \E c \in Conns, g \in Fds : AddConnection(c, g)
  <2>1. PICK c \in Conns : /\ c \notin accepted /\ running' = running \cup {c}
                          /\ connections' = connections
    BY <1>1 DEF AddConnection, stateVars
  <2>2. connections[f] # c
    BY <2>1, ConstAssumption DEF TypeInv, MapShape
  <2> QED
    BY <2>1, <2>2 DEF Alive
<1>2. CASE ~\E c \in Conns, g \in Fds : AddConnection(c, g)
  <2>1. Quiet
    BY <1>2, NextQuiet DEF RunAdd, At
  <2>2. running' \subseteq Conns /\ NoConn \notin Conns
    BY ConstAssumption DEF TypeInv, TypeOK, ConnType
  <2> QED
    BY <2>1, <2>2 DEF Quiet, Alive
<1> QED
  BY <1>1, <1>2

(* epoll_wait reports a descriptor once, and what is dispatched leaves the  *)
(* batch.                                                                   *)
LEMMA NextBatchInv ==
  ASSUME TypeInv, OwnInv, Intact, BatchInv, [Next]_vars
  PROVE  BatchInv'
<1> USE DEF BatchInv
<1>1. CASE EpollWait
  <2> DEFINE ready == {c \in armed : Ready(c, interest[c])}
  <2>1. rpc' = "dispatch"
        /\ batch' = {[fd |-> fdOf[c], mask |-> EventMask(c)] : c \in ready}
                      \cup {[fd |-> f, mask |-> {"in"}] : f \in readable}
    BY <1>1 DEF EpollWait, At
  <2>2. \A c \in ready : c \in Conns /\ fdOf[c] \in Fds
    BY DEF TypeInv, TypeOK, KernelType, SocketShape, Intact
  <2>3. \A c, d \in ready : fdOf[c] = fdOf[d] => c = d
    BY <2>2, ConstAssumption DEF OwnInv, OwnerInv
  <2>4. \A f \in readable : f \notin Fds
    BY ConstAssumption DEF TypeInv, TypeOK, KernelType
  <2> HIDE DEF ready
  <2>5. \A d, e \in batch' : d.fd = e.fd => d = e
    BY <2>1, <2>2, <2>3, <2>4
  <2> QED
    BY <2>1, <2>5
<1>2. ASSUME NEW e \in batch, DispatchIo(e) PROVE BatchInv'
  <2>1. /\ rpc = "dispatch" /\ batch' = batch \ {e} /\ cur'.fd = e.fd
    BY <1>2 DEF DispatchIo, At
  <2> QED
    BY <2>1 DEF Handling
<1>3. CASE ~EpollWait /\ ~\E e \in batch : DispatchIo(e)
  BY <1>3, NextBatchStep DEF BatchStep, Handling
<1> QED
  BY <1>1, <1>2, <1>3

(* Another event of the batch is not for the connection in hand.            *)
LEMMA OtherEvent ==
  ASSUME TypeInv, OwnInv, BatchInv, rpc = "read", NEW e \in batch, e.fd \in Fds, Alive(e.fd)
  PROVE  connections[e.fd] # cur.conn
<1>1. e.fd # cur.fd /\ connections[cur.fd] = cur.conn /\ cur.fd \in Fds
  BY DEF BatchInv, OwnInv, PhaseInv, TypeInv, CurShape
<1>2. fdOf[connections[e.fd]] = e.fd
  BY DEF OwnInv, EntryInv, Alive
<1>3. connections[cur.fd] \in running => fdOf[connections[cur.fd]] = cur.fd
  BY <1>1 DEF OwnInv, EntryInv
<1> QED
  BY <1>1, <1>2, <1>3 DEF Alive

(* An event stays true until its handler has read the socket.               *)
LEMMA NextNoFalseEof ==
  ASSUME TypeInv, TypeInv', OwnInv, OwnInv', FunctorInv, Intact, BatchInv, NoFalseEof, [Next]_vars
  PROVE  NoFalseEof'
<1>0. ReadStep
  BY NextReadStep
<1>1. CASE EpollWait
  <2> DEFINE ready == {c \in armed : Ready(c, interest[c])}
  <2>1. /\ rpc' = "dispatch" /\ rpc = "wait" /\ UNCHANGED <<inq, peer, connections, running>>
        /\ batch' = {[fd |-> fdOf[c], mask |-> EventMask(c)] : c \in ready}
                      \cup {[fd |-> f, mask |-> {"in"}] : f \in readable}
    BY <1>1 DEF EpollWait, clientVars, connVars, stateVars, At
  <2>2. ASSUME NEW e \in batch', e.fd \in Fds, "in" \in e.mask, Alive(e.fd)'
        PROVE  Readable(connections[e.fd])'
    <3>1. \A f \in readable : f \notin Fds
      BY ConstAssumption DEF TypeInv, TypeOK, KernelType
    <3>2. PICK c \in ready : e = [fd |-> fdOf[c], mask |-> EventMask(c)]
      BY <2>1, <2>2, <3>1
    <3>3. Readable(c) /\ fdOf[c] = e.fd /\ c \in Conns
      BY <2>2, <3>2 DEF EventMask, TypeInv, TypeOK, KernelType
    <3>4. Alive(e.fd) /\ connections' = connections
      BY <2>1, <2>2 DEF Alive
    <3>5. connections[e.fd] \in Conns /\ fdOf[connections[e.fd]] = e.fd
      BY <2>2, <3>4 DEF Alive, OwnInv, EntryInv, TypeInv, TypeOK, ConnType
    <3>6. connections[e.fd] = c
      BY <2>2, <3>3, <3>5, ConstAssumption DEF OwnInv, OwnerInv
    <3> QED
      BY <2>1, <3>3, <3>4, <3>6 DEF Readable
  <2> QED
    BY <2>1, <2>2 DEF NoFalseEof
<1>2. ASSUME NEW d \in batch, DispatchIo(d) PROVE NoFalseEof'
  <2>1. /\ rpc = "dispatch" /\ batch' = batch \ {d} /\ d.fd \in Fds /\ Alive(d.fd)
        /\ cur'.conn = connections[d.fd] /\ rpc' = FirstHandler(d)
        /\ UNCHANGED <<inq, peer, connections, running>>
    BY <1>2 DEF DispatchIo, clientVars, connVars, stateVars, At
  <2>2. \A e \in batch : e.fd \in Fds /\ "in" \in e.mask /\ Alive(e.fd) => Readable(connections[e.fd])
    BY <2>1 DEF NoFalseEof
  <2>3. rpc' = "read" => "in" \in d.mask
    BY <2>1 DEF FirstHandler
  <2>4. rpc' = "read" => Readable(connections[d.fd])
    BY <2>1, <2>2, <2>3
  <2>5. rpc' = "read" => Readable(cur.conn)'
    BY <2>1, <2>4 DEF Readable
  <2>6. \A e \in batch' : e.fd \in Fds /\ "in" \in e.mask /\ Alive(e.fd)' => Readable(connections[e.fd])'
    BY <2>1, <2>2 DEF Readable, Alive
  <2> QED
    BY <2>5, <2>6 DEF NoFalseEof
<1>3. CASE ~EpollWait /\ ~\E e \in batch : DispatchIo(e)
  <2>1. /\ batch' \subseteq batch
        /\ rpc' \in Handling => rpc \in Handling
        /\ rpc' = "read" => rpc = "read"
        /\ rpc' \in {"read", "write", "reap"} =>
            rpc \in {"read", "write", "reap"} /\ UNCHANGED <<batch, cur>>
    BY <1>3, NextBatchStep DEF BatchStep
  <2>2. ASSUME rpc' = "read", cur'.conn \in running' PROVE Readable(cur.conn)'
    <3>1. rpc = "read" /\ cur' = cur /\ cur.conn \in Conns
      BY <2>1, <2>2 DEF TypeInv, CurShape, TypeOK, ConnType
    <3>2. cur.conn \in running
      <4>1. connections[cur.fd] = cur.conn /\ cur.fd \in Fds /\ connections'[cur.fd] = cur.conn
        BY <2>2, <3>1 DEF OwnInv, PhaseInv, TypeInv, CurShape
      <4>2. Alive(cur.fd)
        BY <2>2, <3>1, <4>1, AliveBefore DEF Alive
      <4> QED
        BY <4>1, <4>2 DEF Alive
    <3>3. Readable(cur.conn)
      BY <3>1, <3>2 DEF NoFalseEof
    <3> QED
      BY <1>0, <2>2, <3>1, <3>3 DEF ReadStep, Readable
  <2>3. ASSUME rpc' \in Handling, NEW e \in batch', e.fd \in Fds, "in" \in e.mask, Alive(e.fd)'
        PROVE  Readable(connections[e.fd])'
    <3>1. rpc \in Handling /\ e \in batch
      BY <2>1, <2>3
    <3>2. Alive(e.fd) /\ connections'[e.fd] = connections[e.fd]
      BY <2>3, <3>1, AliveBefore DEF Handling
    <3>3. Readable(connections[e.fd]) /\ connections[e.fd] \in Conns
      BY <2>3, <3>1, <3>2 DEF NoFalseEof, Handling, Alive, TypeInv, TypeOK, ConnType
    <3>4. rpc = "read" => connections[e.fd] # cur.conn
      BY <2>3, <3>1, <3>2, OtherEvent
    <3> QED
      BY <1>0, <3>2, <3>3, <3>4 DEF ReadStep, Readable
  <2> QED
    BY <2>2, <2>3 DEF NoFalseEof, Handling
<1> QED
  BY <1>1, <1>2, <1>3

(* A read of no bytes, EAGAIN included, is taken for the end of the stream; *)
(* handle_read is only called when there is something to read.              *)
THEOREM EofIsNeverFalse == Spec => []NoFalseEof
<1>1. Init => BatchInv /\ NoFalseEof
  BY DEF Init, BatchInv, NoFalseEof, Handling
<1>2. /\ TypeInv /\ TypeInv' /\ FunctorInv /\ (cut = {} => OwnInv) /\ (cut = {} => OwnInv)'
      /\ BatchInv /\ NoFalseEof /\ [Next]_vars
      => BatchInv' /\ NoFalseEof'
  <2> SUFFICES ASSUME TypeInv, TypeInv', FunctorInv, cut = {} => OwnInv, (cut = {} => OwnInv)',
                      BatchInv, NoFalseEof, [Next]_vars
               PROVE  BatchInv' /\ NoFalseEof'
    OBVIOUS
  <2>1. CASE cut' = {}
    BY <2>1, NextBatchInv, NextNoFalseEof, CutEnds DEF Intact
  <2>2. CASE cut' # {}
    BY <2>2, CutStep DEF frameVars, threadVars, BatchInv, NoFalseEof, Alive, Readable
  <2> QED
    BY <2>1, <2>2
<1> QED
  BY <1>1, <1>2, SpecTypeInv, SpecFunctorInv, SpecOwnInv, PTL DEF Spec
=============================================================================
