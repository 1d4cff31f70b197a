------------------------- MODULE SubReactorProofs -------------------------
(***************************************************************************)
(* Safety of one SubReactor for every set of connections, descriptors and  *)
(* workers: its types, no functor is lost, and the three tables of the     *)
(* reactor (the map, the timeouts and the active count) agree.             *)
(***************************************************************************)
EXTENDS SubReactor, FiniteSetTheorems, TLAPS

-----------------------------------------------------------------------------
(* Typing.  TypeOK alone is not inductive: a record or a function is        *)
(* applied to what the step found in another variable, so that the shape of *)
(* those variables has to be carried along.                                 *)

SocketShape ==
    /\ \A c \in Conns : c \in running \/ interest[c] # "none" => fdOf[c] \in Fds \/ cut # {}
    /\ \A c \in armed : interest[c] # "none"
    /\ running \subseteq accepted
    /\ \A c \in Conns : closing[c] # "no" => c \in accepted /\ c \notin running
    /\ \A c \in running : sock[c] = fdOf[c] \/ cut # {}
CurShape ==
    rpc \in {"read", "write", "reap"} => cur.conn \in accepted /\ cur.fd \in Fds
WorkerShape ==
    /\ \A w \in Workers :
         /\ wpc[w] \notin {"idle", "crashed"} => wconn[w] \in accepted
         /\ wpc[w] \in {"closing", "reset"} => wconn[w] \notin running
         /\ wpc[w] = "push" => wfd[w] \in Fds
    /\ \A i \in DOMAIN tasks : tasks[i].conn \in accepted
MapShape == \A f \in Fds : connections[f] \in accepted \cup {NoConn}
TypeInv == TypeOK /\ SocketShape /\ CurShape /\ WorkerShape /\ MapShape


LEMMA InitTypeInv == Init => TypeInv
<1> SUFFICES ASSUME Init PROVE TypeInv
  OBVIOUS
<1> USE ConstAssumption DEF Init
<1>1. KernelType /\ ClientType /\ ServerType
  BY DEF KernelType, ClientType, ServerType
<1>2. ConnType /\ MapType
  BY DEF ConnType, MapType
<1>3. ReactorType /\ WorkerType
  BY DEF ReactorType, WorkerType, NoCur
<1>4. SocketShape /\ CurShape /\ WorkerShape /\ MapShape
  BY DEF SocketShape, CurShape, WorkerShape, MapShape
<1>5. needPending \in BOOLEAN
  OBVIOUS
<1> QED
  BY <1>1, <1>2, <1>3, <1>4, <1>5 DEF TypeInv, TypeOK

(* What the building blocks of the actions do to the socket variables.      *)
LEMMA ShutdownSockets ==
  ASSUME TypeInv, NEW S, NEW F, Shutdown(S, F), accepted' = accepted, readable' = readable
  PROVE  /\ fdOf' \in [Conns -> Fds \cup {NoFd}]
         /\ KernelType' /\ SocketShape'
         /\ running' \subseteq running
         /\ outbuf' \in [Conns -> 0..MaxBuffer]
<1> USE DEF TypeInv, TypeOK, KernelType, ConnType, SocketShape
<1>1. running' \subseteq running
  BY DEF Shutdown
<1>2. outbuf' \in [Conns -> 0..MaxBuffer]
  BY ConstAssumption DEF Shutdown
<1>3. KernelType'
  BY DEF Shutdown, Unregister
<1>4. SocketShape'
  BY DEF Shutdown, Unregister
<1> QED
  BY <1>1, <1>2, <1>3, <1>4

LEMMA ProtocolType ==
  ASSUME TypeInv, NEW c \in Conns
  PROVE  [proto EXCEPT ![c] = Protocol(c)] \in [Conns -> {"none", "http", "line"}]
  BY DEF TypeInv, TypeOK, ConnType, Protocol

LEMMA ConcatType ==
  ASSUME NEW T, NEW s \in Seq(T), NEW t \in Seq(T)
  PROVE  s \o t \in Seq(T)
  OBVIOUS

LEMMA AppendType ==
  ASSUME NEW T, NEW s \in Seq(T), NEW x \in T
  PROVE  Append(s, x) \in Seq(T)
  OBVIOUS

LEMMA EntriesFinite ==
  ASSUME NEW F \in SUBSET Fds
  PROVE  IsFiniteSet(Entries(F)) /\ Cardinality(Entries(F)) \in Nat
<1>1. Entries(F) \subseteq Fds
  BY DEF Entries
<1> QED
  BY <1>1, ConstAssumption, FS_Subset, FS_CardinalityType

LEMMA LoopTestType ==
  ASSUME TypeInv, LoopTest
  PROVE  TypeInv'
<1> USE ConstAssumption DEF TypeInv, TypeOK, LoopTest,
        kernelVars, sockVars, clientVars, connVars, stateVars, threadVars, workerVars, serverVars, At
<1>1. ReactorType'
  BY DEF ReactorType, MapType
<1>2. CurShape'
  BY DEF CurShape, ReactorType, MapShape, MapType, ConnType
<1>3. /\ KernelType' /\ ClientType' /\ ConnType' /\ MapType' /\ WorkerType'
      /\ ServerType' /\ SocketShape' /\ WorkerShape' /\ MapShape'
  BY DEF KernelType, ClientType, ConnType, MapType, WorkerType, ServerType, SocketShape,
     WorkerShape, MapShape
<1>4. needPending' \in BOOLEAN
  OBVIOUS
<1> QED
  BY <1>1, <1>2, <1>3, <1>4

LEMMA EpollWaitType ==
  ASSUME TypeInv, EpollWait
  PROVE  TypeInv'
<1> USE ConstAssumption DEF TypeInv, TypeOK, EpollWait,
        kernelVars, sockVars, clientVars, connVars, stateVars, threadVars, workerVars, serverVars, At
<1>1. batch' \subseteq Event
  BY DEF EventMask, Event, SocketShape, KernelType
<1>2. KernelType'
  BY <1>1 DEF KernelType
<1>3. ReactorType'
  BY <1>1 DEF ReactorType, MapType
<1>4. SocketShape'
  BY <1>1 DEF SocketShape, KernelType, ConnType
<1>5. CurShape'
  BY <1>1 DEF CurShape, ReactorType, MapShape, MapType, ConnType
<1>6. /\ ClientType' /\ ConnType' /\ MapType' /\ WorkerType' /\ ServerType'
      /\ WorkerShape' /\ MapShape'
  BY DEF ClientType, ConnType, MapType, WorkerType, ServerType, WorkerShape, MapShape
<1>7. needPending' \in BOOLEAN
  OBVIOUS
<1> QED
  BY <1>2, <1>3, <1>4, <1>5, <1>6, <1>7

LEMMA DispatchWakeType ==
  ASSUME TypeInv, NEW e \in batch, DispatchWake(e)
  PROVE  TypeInv'
<1> USE ConstAssumption DEF TypeInv, TypeOK, DispatchWake,
        kernelVars, sockVars, clientVars, connVars, stateVars, threadVars, workerVars, serverVars, At
<1>1. KernelType'
  BY DEF KernelType
<1>2. ReactorType'
  BY DEF ReactorType, MapType
<1>3. CurShape'
  BY DEF CurShape, ReactorType, MapShape, MapType, ConnType
<1>4. /\ ClientType' /\ ConnType' /\ MapType' /\ WorkerType' /\ ServerType'
      /\ SocketShape' /\ WorkerShape' /\ MapShape'
  BY DEF ClientType, ConnType, MapType, WorkerType, ServerType, SocketShape, WorkerShape, MapShape
<1>5. needPending' \in BOOLEAN
  OBVIOUS
<1> QED
  BY <1>1, <1>2, <1>3, <1>4, <1>5

LEMMA DispatchTimerType ==
  ASSUME TypeInv, NEW e \in batch, DispatchTimer(e)
  PROVE  TypeInv'
<1> USE ConstAssumption DEF TypeInv, TypeOK, DispatchTimer, CheckTimeouts,
        kernelVars, sockVars, clientVars, connVars, stateVars, threadVars, workerVars, serverVars, At
<1>1. \A F \in SUBSET Fds : Cardinality(Entries(F)) \in Nat
  BY EntriesFinite
<1>2. KernelType'
  BY <1>1 DEF KernelType, CloseEntries, Shutdown, Unregister
<1>3. ConnType'
  BY <1>1 DEF ConnType, CloseEntries, Shutdown, Unregister
<1>4. MapType'
  <2>1. PICK X \in SUBSET Fds, Y \in SUBSET Fds : CloseEntries(X) /\ timeouts' = EraseTimeouts(Y)
    BY DEF MapType
  <2> QED
    BY <1>1, <2>1 DEF MapType, CloseEntries, EraseTimeouts
<1>5. ReactorType'
  BY <1>1 DEF ReactorType, MapType
<1>6. SocketShape'
  BY <1>1 DEF SocketShape, KernelType, ConnType, CloseEntries, Shutdown, Unregister
<1>7. CurShape'
  BY <1>1 DEF CurShape, ReactorType, MapShape, MapType, ConnType
<1>8. WorkerShape'
  BY <1>1 DEF WorkerShape, WorkerType, ConnType, CurShape, SocketShape, CloseEntries, Shutdown
<1>9. MapShape'
  BY <1>1 DEF MapShape, MapType, CloseEntries
<1>10. ClientType' /\ WorkerType' /\ ServerType'
  BY DEF ClientType, WorkerType, ServerType
<1>11. needPending' \in BOOLEAN
  OBVIOUS
<1> QED
  BY <1>2, <1>3, <1>4, <1>5, <1>6, <1>7, <1>8, <1>9, <1>10, <1>11

LEMMA DispatchCloseType ==
  ASSUME TypeInv, NEW e \in batch, DispatchClose(e)
  PROVE  TypeInv'
<1> USE ConstAssumption DEF TypeInv, TypeOK, DispatchClose, CloseConnections, CloseEntries,
        kernelVars, sockVars, clientVars, connVars, stateVars, threadVars, workerVars, serverVars, At
<1>1. Cardinality(Entries({e.fd})) \in Nat
  BY EntriesFinite
<1>2. KernelType'
  BY <1>1 DEF KernelType, Shutdown, Unregister
<1>3. ConnType'
  BY <1>1 DEF ConnType, Shutdown, Unregister
<1>4. MapType'
  BY <1>1 DEF MapType, EraseTimeouts
<1>5. ReactorType'
  BY <1>1 DEF ReactorType, MapType
<1>6. SocketShape'
  BY <1>1 DEF SocketShape, KernelType, ConnType, Shutdown, Unregister
<1>7. CurShape'
  BY <1>1 DEF CurShape, ReactorType, MapShape, MapType, ConnType
<1>8. WorkerShape'
  BY <1>1 DEF WorkerShape, WorkerType, ConnType, CurShape, SocketShape, Shutdown
<1>9. MapShape'
  BY <1>1 DEF MapShape, MapType
<1>10. ClientType' /\ WorkerType' /\ ServerType'
  BY DEF ClientType, WorkerType, ServerType
<1>11. needPending' \in BOOLEAN
  OBVIOUS
<1> QED
  BY <1>2, <1>3, <1>4, <1>5, <1>6, <1>7, <1>8, <1>9, <1>10, <1>11

LEMMA DispatchIoType ==
  ASSUME TypeInv, NEW e \in batch, DispatchIo(e)
  PROVE  TypeInv'
<1> USE ConstAssumption DEF TypeInv, TypeOK, DispatchIo,
        kernelVars, sockVars, clientVars, connVars, stateVars, threadVars, workerVars, serverVars, At
<1>1. e \in Event
  BY DEF ReactorType
<1>2. connections[e.fd] \in running
  BY DEF Alive
<1>3. ReactorType'
  BY <1>1, <1>2 DEF ReactorType, MapType, FirstHandler, Event
<1>4. CurShape'
  BY <1>1, <1>2 DEF CurShape, ReactorType, MapShape, MapType, ConnType, SocketShape
<1>5. /\ KernelType' /\ ClientType' /\ ConnType' /\ MapType' /\ WorkerType'
      /\ ServerType' /\ SocketShape' /\ WorkerShape' /\ MapShape'
  BY DEF KernelType, ClientType, ConnType, MapType, WorkerType, ServerType, SocketShape,
     WorkerShape, MapShape
<1>6. needPending' \in BOOLEAN
  OBVIOUS
<1> QED
  BY <1>3, <1>4, <1>5, <1>6

LEMMA HandleReadDeadType ==
  ASSUME TypeInv, HandleReadDead
  PROVE  TypeInv'
<1> USE ConstAssumption DEF TypeInv, TypeOK, HandleReadDead,
        kernelVars, sockVars, clientVars, connVars, stateVars, threadVars, workerVars, serverVars, At
<1>1. ReactorType'
  BY DEF ReactorType, MapType
<1>2. CurShape'
  BY DEF CurShape, ReactorType, MapShape, MapType, ConnType
<1>3. /\ KernelType' /\ ClientType' /\ ConnType' /\ MapType' /\ WorkerType'
      /\ ServerType' /\ SocketShape' /\ WorkerShape' /\ MapShape'
  BY DEF KernelType, ClientType, ConnType, MapType, WorkerType, ServerType, SocketShape,
     WorkerShape, MapShape
<1>4. needPending' \in BOOLEAN
  OBVIOUS
<1> QED
  BY <1>1, <1>2, <1>3, <1>4

LEMMA HandleReadFailsType ==
  ASSUME TypeInv, HandleReadFails
  PROVE  TypeInv'
<1> USE ConstAssumption DEF TypeInv, TypeOK, HandleReadFails,
        kernelVars, sockVars, clientVars, connVars, stateVars, threadVars, workerVars, serverVars, At
<1>1. cur.conn \in Conns /\ cur.fd \in Fds
  BY DEF CurShape, ConnType
<1>2. KernelType'
  BY <1>1 DEF KernelType, Shutdown, Unregister
<1>3. ClientType'
  BY <1>1 DEF ClientType
<1>4. ConnType'
  BY <1>1, ProtocolType DEF ConnType, Shutdown
<1>5. ReactorType'
  BY <1>1 DEF ReactorType, MapType
<1>6. SocketShape'
  BY <1>1 DEF SocketShape, KernelType, ConnType, Shutdown, Unregister
<1>7. CurShape'
  BY <1>1 DEF CurShape, ReactorType, MapShape, MapType, ConnType
<1>8. WorkerShape'
  BY <1>1 DEF WorkerShape, WorkerType, ConnType, CurShape, SocketShape, Shutdown
<1>9. MapType' /\ WorkerType' /\ ServerType' /\ MapShape'
  BY DEF MapType, WorkerType, ServerType, MapShape
<1>10. needPending' \in BOOLEAN
  OBVIOUS
<1> QED
  BY <1>2, <1>3, <1>4, <1>5, <1>6, <1>7, <1>8, <1>9, <1>10

LEMMA HandleReadSubmitType ==
  ASSUME TypeInv, HandleReadSubmit
  PROVE  TypeInv'
<1> USE ConstAssumption DEF TypeInv, TypeOK, HandleReadSubmit,
        kernelVars, sockVars, clientVars, connVars, stateVars, threadVars, workerVars, serverVars, At
<1>1. cur.conn \in Conns /\ cur.fd \in Fds
  BY DEF CurShape, ConnType
<1>2. PICK ts \in Seq(Task) : tasks' = tasks \o ts /\ \A i \in DOMAIN ts : ts[i].conn = cur.conn
  <2>1. inq[cur.conn] \in Seq(Kinds)
    BY <1>1 DEF ClientType
  <2>2. \A i \in 1..Len(inq[cur.conn]) : inq[cur.conn][i] \in {"keep", "close"}
    <3>1. Http(cur.conn) /\ ~ReadFails(cur.conn)
      OBVIOUS
    <3> QED
      BY <3>1 DEF ReadFails
  <2>3. [i \in 1..Len(inq[cur.conn]) |-> [conn |-> cur.conn, kind |-> inq[cur.conn][i]]] \in Seq(Task)
    BY <1>1, <2>1, <2>2 DEF Task
  <2> QED
    BY <2>1, <2>3
<1>3. ClientType'
  BY <1>1, <1>2 DEF ClientType
<1>4. ConnType'
  BY <1>1, ProtocolType DEF ConnType
<1>5. ReactorType'
  BY <1>1, <1>2 DEF ReactorType, MapType
<1>6. WorkerType'
  <2>1. tasks' \in Seq(Task)
    <3>1. tasks \in Seq(Task)
      BY DEF WorkerType
    <3> HIDE DEF HandleReadSubmit, TypeInv, TypeOK
    <3> QED
      BY <1>2, <3>1, ConcatType
  <2> QED
    BY <2>1 DEF WorkerType
<1>7. CurShape'
  BY <1>1, <1>2 DEF CurShape, ReactorType, MapShape, MapType, ConnType
<1>8. WorkerShape'
  <2>1. cur.conn \in accepted /\ UNCHANGED <<accepted, wpc, wconn, wfd, running>>
    BY DEF CurShape
  <2>2. ASSUME NEW i \in DOMAIN tasks' PROVE tasks'[i].conn \in accepted
    <3>1. tasks \in Seq(Task) /\ \A j \in DOMAIN tasks : tasks[j].conn \in accepted
      BY DEF WorkerShape, WorkerType
    <3> HIDE DEF TypeInv, TypeOK, HandleReadSubmit, At
    <3>2. i \in DOMAIN (tasks \o ts)
      BY <1>2, <2>2
    <3>3. (tasks \o ts)[i].conn \in accepted
      <4> HIDE DEF Task
      <4> QED
        BY <1>2, <2>1, <3>1, <3>2
    <3> QED
      BY <1>2, <3>3
  <2> QED
    BY <2>1, <2>2 DEF WorkerShape
<1>9. KernelType' /\ MapType' /\ ServerType' /\ SocketShape' /\ MapShape'
  BY DEF KernelType, MapType, ServerType, SocketShape, MapShape
<1>10. needPending' \in BOOLEAN
  OBVIOUS
<1> QED
  BY <1>3, <1>4, <1>5, <1>6, <1>7, <1>8, <1>9, <1>10

LEMMA HandleReadInlineType ==
  ASSUME TypeInv, HandleReadInline
  PROVE  TypeInv'
<1> USE ConstAssumption DEF TypeInv, TypeOK, HandleReadInline,
        kernelVars, sockVars, clientVars, connVars, stateVars, threadVars, workerVars, serverVars, At
<1>1. cur.conn \in Conns /\ cur.fd \in Fds
  BY DEF CurShape, ConnType
<1>2. inq[cur.conn] \in Seq(Kinds) /\ Len(inq[cur.conn]) \in Nat
  BY <1>1 DEF ClientType
<1>3. \/ ShutdownLocked(cur.conn, MaxBuffer) \/ Shutdown({cur.conn}, {})
      \/ /\ EpollCtl({cur.conn}, "inout", inq') \/ UNCHANGED <<interest, armed>>
         /\ UNCHANGED <<fdOf, running, sockVars>>
         /\ ~Overflows(cur.conn, Len(inq[cur.conn]))
         /\ outbuf' = [outbuf EXCEPT ![cur.conn] = @ + Len(inq[cur.conn])]
  OBVIOUS
<1>4. readable' = readable /\ accepted' = accepted
  OBVIOUS
<1>5. KernelType'
  <2>1. CASE ShutdownLocked(cur.conn, MaxBuffer)
    BY <1>1, <1>4, <2>1 DEF KernelType, ShutdownLocked, Unregister
  <2>2. CASE Shutdown({cur.conn}, {})
    BY <1>4, <2>2, ShutdownSockets
  <2>3. CASE /\ EpollCtl({cur.conn}, "inout", inq') \/ UNCHANGED <<interest, armed>>
             /\ UNCHANGED <<fdOf, running, sockVars>>
    BY <1>1, <1>4, <2>3 DEF KernelType, EpollCtl
  <2> QED
    BY <1>3, <2>1, <2>2, <2>3
<1>6. ClientType'
  BY <1>1, <1>2 DEF ClientType
<1>7. ConnType'
  <2>1. outbuf' \in [Conns -> 0..MaxBuffer] /\ running' \subseteq running
    BY <1>1, <1>2, <1>3 DEF ConnType, Overflows, ShutdownLocked, Shutdown
  <2> QED
    BY <1>1, <2>1, ProtocolType DEF ConnType
<1>8. ReactorType'
  BY <1>1, <1>2 DEF ReactorType, MapType
<1>9. SocketShape'
  <2>1. CASE ShutdownLocked(cur.conn, MaxBuffer)
    BY <1>1, <1>4, <2>1
       DEF SocketShape, KernelType, ConnType, CurShape, ShutdownLocked, Unregister
  <2>2. CASE Shutdown({cur.conn}, {})
    BY <1>4, <2>2, ShutdownSockets
  <2>3. CASE /\ EpollCtl({cur.conn}, "inout", inq') \/ UNCHANGED <<interest, armed>>
             /\ UNCHANGED <<fdOf, running, sockVars>>
    BY <1>1, <1>4, <2>3 DEF SocketShape, KernelType, ConnType, EpollCtl
  <2> QED
    BY <1>3, <2>1, <2>2, <2>3
<1>10. CurShape'
  BY <1>1, <1>2 DEF CurShape, ReactorType, MapShape, MapType, ConnType
<1>11. WorkerShape'
  BY <1>1, <1>2 DEF WorkerShape, WorkerType, ConnType, CurShape, SocketShape, ShutdownLocked,
     Shutdown
<1>12. MapType' /\ WorkerType' /\ ServerType' /\ MapShape'
  BY DEF MapType, WorkerType, ServerType, MapShape
<1>13. needPending' \in BOOLEAN
  OBVIOUS
<1> QED
  BY <1>5, <1>6, <1>7, <1>8, <1>9, <1>10, <1>11, <1>12, <1>13

LEMMA NothingToWriteType ==
  ASSUME TypeInv, NothingToWrite
  PROVE  TypeInv'
<1> USE ConstAssumption DEF TypeInv, TypeOK, NothingToWrite,
        kernelVars, sockVars, clientVars, connVars, stateVars, threadVars, workerVars, serverVars, At
<1>1. ReactorType'
  BY DEF ReactorType, MapType
<1>2. CurShape'
  BY DEF CurShape, ReactorType, MapShape, MapType, ConnType
<1>3. /\ KernelType' /\ ClientType' /\ ConnType' /\ MapType' /\ WorkerType'
      /\ ServerType' /\ SocketShape' /\ WorkerShape' /\ MapShape'
  BY DEF KernelType, ClientType, ConnType, MapType, WorkerType, ServerType, SocketShape,
     WorkerShape, MapShape
<1>4. needPending' \in BOOLEAN
  OBVIOUS
<1> QED
  BY <1>1, <1>2, <1>3, <1>4

LEMMA HandleWriteType ==
  ASSUME TypeInv, HandleWrite
  PROVE  TypeInv'
<1> USE ConstAssumption DEF TypeInv, TypeOK, HandleWrite,
        kernelVars, sockVars, clientVars, connVars, stateVars, threadVars, workerVars, serverVars, At
<1>1. cur.conn \in Conns /\ cur.fd \in Fds
  BY DEF CurShape, ConnType
<1>2. KernelType'
  BY <1>1 DEF KernelType, EpollCtl
<1>3. ClientType'
  BY <1>1 DEF ClientType
<1>4. ConnType'
  BY <1>1 DEF ConnType
<1>5. ReactorType'
  BY <1>1 DEF ReactorType, MapType
<1>6. SocketShape'
  BY <1>1 DEF SocketShape, KernelType, ConnType, EpollCtl
<1>7. CurShape'
  BY <1>1 DEF CurShape, ReactorType, MapShape, MapType, ConnType
<1>8. MapType' /\ WorkerType' /\ ServerType' /\ WorkerShape' /\ MapShape'
  BY DEF MapType, WorkerType, ServerType, WorkerShape, MapShape
<1>9. needPending' \in BOOLEAN
  OBVIOUS
<1> QED
  BY <1>2, <1>3, <1>4, <1>5, <1>6, <1>7, <1>8, <1>9

LEMMA HandleWriteErrorType ==
  ASSUME TypeInv, HandleWriteError
  PROVE  TypeInv'
<1> USE ConstAssumption DEF TypeInv, TypeOK, HandleWriteError, ShutdownLocked, Unregister,
        kernelVars, sockVars, clientVars, connVars, stateVars, threadVars, workerVars, serverVars, At
<1>1. cur.conn \in Conns /\ cur.fd \in Fds
  BY DEF CurShape, ConnType
<1>2. KernelType'
  BY <1>1 DEF KernelType
<1>3. ConnType'
  BY <1>1 DEF ConnType
<1>4. ReactorType'
  BY <1>1 DEF ReactorType, MapType
<1>5. SocketShape'
  BY <1>1 DEF SocketShape, KernelType, ConnType
<1>6. CurShape'
  BY <1>1 DEF CurShape, ReactorType, MapShape, MapType, ConnType
<1>7. WorkerShape'
  BY <1>1 DEF WorkerShape, WorkerType, ConnType, CurShape, SocketShape
<1>8. ClientType' /\ MapType' /\ WorkerType' /\ ServerType' /\ MapShape'
  BY DEF ClientType, MapType, WorkerType, ServerType, MapShape
<1>9. needPending' \in BOOLEAN
  OBVIOUS
<1> QED
  BY <1>2, <1>3, <1>4, <1>5, <1>6, <1>7, <1>8, <1>9

LEMMA ReapCurrentType ==
  ASSUME TypeInv, ReapCurrent
  PROVE  TypeInv'
<1> USE ConstAssumption DEF TypeInv, TypeOK, ReapCurrent, CloseConnections, CloseEntries,
        kernelVars, sockVars, clientVars, connVars, stateVars, threadVars, workerVars, serverVars, At
<1>1. cur.conn \in Conns /\ cur.fd \in Fds
  BY DEF CurShape, ConnType
<1>2. Cardinality(Entries({cur.fd})) \in Nat
  BY <1>1, EntriesFinite
<1>3. KernelType'
  BY <1>1, <1>2 DEF KernelType, Shutdown, Unregister
<1>4. ConnType'
  BY <1>1, <1>2 DEF ConnType, Shutdown, Unregister
<1>5. MapType'
  <2>1. CASE cur.conn \in running
    BY <2>1 DEF MapType, stateVars
  <2>2. CASE cur.conn \notin running
    <3>1. CloseConnections({cur.fd}) /\ pending' = pending
      BY <2>2
    <3> QED
      BY <1>2, <3>1 DEF MapType, EraseTimeouts
  <2> QED
    BY <2>1, <2>2
<1>6. ReactorType'
  BY <1>1, <1>2 DEF ReactorType, MapType, NoCur
<1>7. SocketShape'
  <2>1. CASE cur.conn \in running
    BY <2>1 DEF SocketShape, KernelType, ConnType
  <2>2. CASE cur.conn \notin running
    <3>1. \E S, F : Shutdown(S, F)
      BY <2>2
    <3>2. readable' = readable /\ accepted' = accepted
      BY <2>2
    <3> QED
      BY <3>1, <3>2, ShutdownSockets
  <2> QED
    BY <2>1, <2>2
<1>8. CurShape'
  BY <1>1, <1>2 DEF CurShape, ReactorType, MapShape, MapType, ConnType
<1>9. WorkerShape'
  BY <1>1, <1>2 DEF WorkerShape, WorkerType, ConnType, CurShape, SocketShape, Shutdown
<1>10. MapShape'
  BY <1>1, <1>2 DEF MapShape, MapType
<1>11. ClientType' /\ WorkerType' /\ ServerType'
  BY DEF ClientType, WorkerType, ServerType
<1>12. needPending' \in BOOLEAN
  OBVIOUS
<1> QED
  BY <1>3, <1>4, <1>5, <1>6, <1>7, <1>8, <1>9, <1>10, <1>11, <1>12

LEMMA EndBatchType ==
  ASSUME TypeInv, EndBatch
  PROVE  TypeInv'
<1> USE ConstAssumption DEF TypeInv, TypeOK, EndBatch,
        kernelVars, sockVars, clientVars, connVars, stateVars, threadVars, workerVars, serverVars, At
<1>1. <<>> \in Seq(Functor)
  OBVIOUS
<1>2. MapType'
  BY <1>1 DEF MapType
<1>3. ReactorType'
  BY <1>1 DEF ReactorType, MapType
<1>4. CurShape'
  BY <1>1 DEF CurShape, ReactorType, MapShape, MapType, ConnType
<1>5. /\ KernelType' /\ ClientType' /\ ConnType' /\ WorkerType' /\ ServerType'
      /\ SocketShape' /\ WorkerShape' /\ MapShape'
  BY DEF KernelType, ClientType, ConnType, WorkerType, ServerType, SocketShape, WorkerShape,
     MapShape
<1>6. needPending' \in BOOLEAN
  OBVIOUS
<1> QED
  BY <1>2, <1>3, <1>4, <1>5, <1>6

LEMMA RunAddType ==
  ASSUME TypeInv, RunAdd
  PROVE  TypeInv'
<1> USE ConstAssumption DEF TypeInv, TypeOK, RunAdd,
        kernelVars, sockVars, clientVars, connVars, stateVars, threadVars, workerVars, serverVars, At
<1>1. Head(functors) \in Functor /\ Tail(functors) \in Seq(Functor)
  BY DEF ReactorType
<1>2. Head(functors).fd \in Fds /\ Head(functors).conn \in Conns
  BY <1>1 DEF Functor
<1>3. KernelType'
  BY <1>1, <1>2 DEF KernelType, EpollCtl, Shutdown, Unregister
<1>4. ConnType'
  BY <1>1, <1>2 DEF ConnType, Shutdown
<1>5. MapType'
  <2>1. CASE UNCHANGED stateVars
    BY <2>1 DEF MapType, stateVars
  <2>2. CASE /\ connections' = [connections EXCEPT ![Head(functors).fd] = Head(functors).conn]
              /\ active' = active + 1
              /\ timeouts' = [timeouts EXCEPT ![Head(functors).fd] = @ + 1]
              /\ due' = due
    BY <1>2, <2>2 DEF MapType
  <2> QED
    BY <2>1, <2>2
<1>6. ReactorType'
  BY <1>1, <1>2 DEF ReactorType, MapType
<1>7. SocketShape'
  <2>1. readable' = readable /\ accepted' = accepted
    OBVIOUS
  <2>2. CASE Shutdown({Head(functors).conn}, {})
    BY <2>1, <2>2, ShutdownSockets
  <2>3. CASE /\ Head(functors).conn \in running
             /\ EpollCtl({Head(functors).conn}, "in", inq)
             /\ UNCHANGED <<fdOf, sockVars, running>>
    BY <1>2, <2>1, <2>3 DEF SocketShape, KernelType, ConnType, EpollCtl
  <2> QED
    BY <2>2, <2>3
<1>8. CurShape'
  BY <1>1, <1>2 DEF CurShape, ReactorType, MapShape, MapType, ConnType
<1>9. WorkerShape'
  BY <1>1, <1>2 DEF WorkerShape, WorkerType, ConnType, CurShape, SocketShape, Shutdown
<1>10. MapShape'
  BY <1>1, <1>2 DEF MapShape, MapType, ConnType, SocketShape
<1>11. ClientType' /\ WorkerType' /\ ServerType'
  BY DEF ClientType, WorkerType, ServerType
<1>12. needPending' \in BOOLEAN
  OBVIOUS
<1> QED
  BY <1>3, <1>4, <1>5, <1>6, <1>7, <1>8, <1>9, <1>10, <1>11, <1>12

LEMMA RunEnableType ==
  ASSUME TypeInv, RunEnable
  PROVE  TypeInv'
<1> USE ConstAssumption DEF TypeInv, TypeOK, RunEnable,
        kernelVars, sockVars, clientVars, connVars, stateVars, threadVars, workerVars, serverVars, At
<1>1. Tail(functors) \in Seq(Functor)
  BY DEF ReactorType
<1>2. KernelType'
  BY <1>1 DEF KernelType, EpollCtl, Registered
<1>3. ReactorType'
  BY <1>1 DEF ReactorType, MapType
<1>4. SocketShape'
  BY <1>1 DEF SocketShape, KernelType, ConnType, EpollCtl, Registered
<1>5. CurShape'
  BY <1>1 DEF CurShape, ReactorType, MapShape, MapType, ConnType
<1>6. /\ ClientType' /\ ConnType' /\ MapType' /\ WorkerType' /\ ServerType'
      /\ WorkerShape' /\ MapShape'
  BY DEF ClientType, ConnType, MapType, WorkerType, ServerType, WorkerShape, MapShape
<1>7. needPending' \in BOOLEAN
  OBVIOUS
<1> QED
  BY <1>2, <1>3, <1>4, <1>5, <1>6, <1>7

LEMMA FunctorsDoneType ==
  ASSUME TypeInv, FunctorsDone
  PROVE  TypeInv'
<1> USE ConstAssumption DEF TypeInv, TypeOK, FunctorsDone, Shutdown,
        kernelVars, sockVars, clientVars, connVars, stateVars, threadVars, workerVars, serverVars, At
<1>1. KernelType'
  BY DEF KernelType, Unregister
<1>2. ConnType'
  BY DEF ConnType
<1>3. ReactorType'
  BY DEF ReactorType, MapType
<1>4. SocketShape'
  BY DEF SocketShape, KernelType, ConnType, Unregister
<1>5. CurShape'
  BY DEF CurShape, ReactorType, MapShape, MapType, ConnType
<1>6. WorkerShape'
  BY DEF WorkerShape, WorkerType, ConnType, CurShape, SocketShape
<1>7. ClientType' /\ MapType' /\ WorkerType' /\ ServerType' /\ MapShape'
  BY DEF ClientType, MapType, WorkerType, ServerType, MapShape
<1>8. needPending' \in BOOLEAN
  OBVIOUS
<1> QED
  BY <1>1, <1>2, <1>3, <1>4, <1>5, <1>6, <1>7, <1>8

LEMMA CleanupType ==
  ASSUME TypeInv, Cleanup
  PROVE  TypeInv'
<1> USE ConstAssumption DEF TypeInv, TypeOK, Cleanup, CloseConnections, CloseEntries,
        kernelVars, sockVars, clientVars, connVars, stateVars, threadVars, workerVars, serverVars, At
<1>1. Cardinality(Entries(Fds)) \in Nat
  BY EntriesFinite
<1>2. KernelType'
  BY <1>1 DEF KernelType, Shutdown, Unregister
<1>3. ConnType'
  BY <1>1 DEF ConnType, Shutdown, Unregister
<1>4. MapType'
  BY <1>1 DEF MapType, EraseTimeouts
<1>5. ReactorType'
  BY <1>1 DEF ReactorType, MapType
<1>6. SocketShape'
  BY <1>1 DEF SocketShape, KernelType, ConnType, Shutdown, Unregister
<1>7. CurShape'
  BY <1>1 DEF CurShape, ReactorType, MapShape, MapType, ConnType
<1>8. WorkerShape'
  BY <1>1 DEF WorkerShape, WorkerType, ConnType, CurShape, SocketShape, Shutdown
<1>9. MapShape'
  BY <1>1 DEF MapShape, MapType
<1>10. ClientType' /\ WorkerType' /\ ServerType'
  BY DEF ClientType, WorkerType, ServerType
<1>11. needPending' \in BOOLEAN
  OBVIOUS
<1> QED
  BY <1>2, <1>3, <1>4, <1>5, <1>6, <1>7, <1>8, <1>9, <1>10, <1>11

LEMMA AddConnectionType ==
  ASSUME TypeInv, NEW c \in Conns, NEW f \in Fds, AddConnection(c, f)
  PROVE  TypeInv'
<1> USE ConstAssumption DEF TypeInv, TypeOK, AddConnection,
        kernelVars, sockVars, clientVars, connVars, stateVars, threadVars, workerVars, serverVars
<1>1. KernelType'
  BY DEF KernelType
<1>2. ConnType'
  BY DEF ConnType
<1>3. MapType'
  BY DEF MapType, Functor
<1>4. ServerType'
  BY DEF ServerType
<1>5. SocketShape'
  BY DEF SocketShape, KernelType, ConnType
<1>6. CurShape'
  BY DEF CurShape, ReactorType, MapShape, MapType, ConnType
<1>7. WorkerShape'
  BY DEF WorkerShape, WorkerType, ConnType, CurShape, SocketShape
<1>8. MapShape'
  BY DEF MapShape, MapType
<1>9. ClientType' /\ ReactorType' /\ WorkerType'
  BY DEF ClientType, ReactorType, WorkerType
<1>10. needPending' \in BOOLEAN
  OBVIOUS
<1> QED
  BY <1>1, <1>2, <1>3, <1>4, <1>5, <1>6, <1>7, <1>8, <1>9, <1>10

LEMMA AddConnectionWakeType ==
  ASSUME TypeInv, AddConnectionWake
  PROVE  TypeInv'
<1> USE ConstAssumption DEF TypeInv, TypeOK, AddConnectionWake,
        kernelVars, sockVars, clientVars, connVars, stateVars, threadVars, workerVars, serverVars
<1>1. KernelType'
  BY DEF KernelType
<1>2. ServerType'
  BY DEF ServerType
<1>3. /\ ClientType' /\ ConnType' /\ MapType' /\ ReactorType' /\ WorkerType'
      /\ SocketShape' /\ CurShape' /\ WorkerShape' /\ MapShape'
  BY DEF ClientType, ConnType, MapType, ReactorType, WorkerType, SocketShape, CurShape,
     WorkerShape, MapShape
<1>4. needPending' \in BOOLEAN
  OBVIOUS
<1> QED
  BY <1>1, <1>2, <1>3, <1>4

LEMMA TakeTaskType ==
  ASSUME TypeInv, NEW w \in Workers, TakeTask(w)
  PROVE  TypeInv'
<1> USE ConstAssumption DEF TypeInv, TypeOK, TakeTask,
        kernelVars, sockVars, clientVars, connVars, stateVars, threadVars, workerVars, serverVars, On
<1>1. Head(tasks) \in Task /\ Tail(tasks) \in Seq(Task)
  BY DEF WorkerType
<1>2. Head(tasks).conn \in accepted /\ \A i \in DOMAIN Tail(tasks) : Tail(tasks)[i].conn \in accepted
  BY DEF WorkerShape, WorkerType
<1>3. WorkerType'
  <2>1. wkind' \in [Workers -> {"keep", "close"}]
    BY <1>1 DEF WorkerType, Task
  <2>2. wconn' \in [Workers -> Conns \cup {NoConn}]
    BY <1>1 DEF WorkerType, Task
  <2> QED
    BY <1>1, <2>1, <2>2 DEF WorkerType
<1>4. WorkerShape'
  BY <1>1, <1>2 DEF WorkerShape, WorkerType, ConnType, CurShape, SocketShape
<1>5. /\ KernelType' /\ ClientType' /\ ConnType' /\ MapType' /\ ReactorType'
      /\ ServerType' /\ SocketShape' /\ CurShape' /\ MapShape'
  BY DEF KernelType, ClientType, ConnType, MapType, ReactorType, ServerType, SocketShape,
     CurShape, MapShape
<1>6. needPending' \in BOOLEAN
  OBVIOUS
<1> QED
  BY <1>3, <1>4, <1>5, <1>6

LEMMA SendReplyType ==
  ASSUME TypeInv, NEW w \in Workers, SendReply(w)
  PROVE  TypeInv'
<1> USE ConstAssumption DEF TypeInv, TypeOK, SendReply,
        kernelVars, sockVars, clientVars, connVars, stateVars, threadVars, workerVars, serverVars, On
<1>1. wconn[w] \in Conns
  BY DEF WorkerShape, ConnType
<1>2. KernelType'
  BY <1>1 DEF KernelType, ShutdownLocked, Unregister
<1>3. ConnType'
  BY <1>1 DEF ConnType, ShutdownLocked, Overflows
<1>4. WorkerType'
  BY <1>1 DEF WorkerType, KernelType
<1>5. SocketShape'
  BY <1>1 DEF SocketShape, KernelType, ConnType, ShutdownLocked, Unregister
<1>6. WorkerShape'
  BY <1>1 DEF WorkerShape, WorkerType, ConnType, CurShape, SocketShape, ShutdownLocked, KernelType
<1>7. ClientType' /\ MapType' /\ ReactorType' /\ ServerType' /\ CurShape' /\ MapShape'
  BY DEF ClientType, MapType, ReactorType, ServerType, CurShape, MapShape
<1>8. needPending' \in BOOLEAN
  OBVIOUS
<1> QED
  BY <1>2, <1>3, <1>4, <1>5, <1>6, <1>7, <1>8

LEMMA EnableWritingType ==
  ASSUME TypeInv, NEW w \in Workers, EnableWriting(w)
  PROVE  TypeInv'
<1> USE ConstAssumption DEF TypeInv, TypeOK, EnableWriting,
        kernelVars, sockVars, clientVars, connVars, stateVars, threadVars, workerVars, serverVars, On
<1>1. wfd[w] \in Fds
  BY DEF WorkerShape
<1>2. MapType'
  <2>1. [op |-> "enable", fd |-> wfd[w], conn |-> NoConn] \in Functor
    BY <1>1 DEF Functor
  <2>2. \/ pending' = pending
        \/ pending' = Append(pending, [op |-> "enable", fd |-> wfd[w], conn |-> NoConn])
    OBVIOUS
  <2>3. pending' \in Seq(Functor)
    <3>1. pending \in Seq(Functor)
      BY DEF MapType
    <3> QED
      BY <2>1, <2>2, <3>1, AppendType
  <2> QED
    BY <2>3 DEF MapType, stateVars
<1>3. WorkerType'
  BY <1>1 DEF WorkerType
<1>4. WorkerShape'
  BY <1>1 DEF WorkerShape, WorkerType, ConnType, CurShape, SocketShape
<1>5. /\ KernelType' /\ ClientType' /\ ConnType' /\ ReactorType' /\ ServerType'
      /\ SocketShape' /\ CurShape' /\ MapShape'
  BY DEF KernelType, ClientType, ConnType, ReactorType, ServerType, SocketShape, CurShape,
     MapShape
<1>6. needPending' \in BOOLEAN
  OBVIOUS
<1> QED
  BY <1>2, <1>3, <1>4, <1>5, <1>6

LEMMA EnableWritingWakeType ==
  ASSUME TypeInv, NEW w \in Workers, EnableWritingWake(w)
  PROVE  TypeInv'
<1> USE ConstAssumption DEF TypeInv, TypeOK, EnableWritingWake,
        kernelVars, sockVars, clientVars, connVars, stateVars, threadVars, workerVars, serverVars, On
<1>1. KernelType'
  BY DEF KernelType
<1>2. WorkerType'
  BY DEF WorkerType
<1>3. WorkerShape'
  BY DEF WorkerShape, WorkerType, ConnType, CurShape, SocketShape
<1>4. /\ ClientType' /\ ConnType' /\ MapType' /\ ReactorType' /\ ServerType'
      /\ SocketShape' /\ CurShape' /\ MapShape'
  BY DEF ClientType, ConnType, MapType, ReactorType, ServerType, SocketShape, CurShape, MapShape
<1>5. needPending' \in BOOLEAN
  OBVIOUS
<1> QED
  BY <1>1, <1>2, <1>3, <1>4, <1>5

LEMMA TaskShutdownType ==
  ASSUME TypeInv, NEW w \in Workers, TaskShutdown(w)
  PROVE  TypeInv'
<1> USE ConstAssumption DEF TypeInv, TypeOK, TaskShutdown,
        kernelVars, sockVars, clientVars, connVars, stateVars, threadVars, workerVars, serverVars, On
<1>1. wconn[w] \in Conns
  BY DEF WorkerShape, ConnType
<1>2. ConnType'
  BY <1>1 DEF ConnType
<1>3. WorkerType'
  BY <1>1 DEF WorkerType
<1>4. SocketShape'
  BY <1>1 DEF SocketShape, KernelType, ConnType
<1>5. WorkerShape'
  BY <1>1 DEF WorkerShape, WorkerType, ConnType, CurShape, SocketShape
<1>6. /\ KernelType' /\ ClientType' /\ MapType' /\ ReactorType' /\ ServerType'
      /\ CurShape' /\ MapShape'
  BY DEF KernelType, ClientType, MapType, ReactorType, ServerType, CurShape, MapShape
<1>7. needPending' \in BOOLEAN
  OBVIOUS
<1> QED
  BY <1>2, <1>3, <1>4, <1>5, <1>6, <1>7

LEMMA TaskCloseType ==
  ASSUME TypeInv, NEW w \in Workers, TaskClose(w)
  PROVE  TypeInv'
<1> USE ConstAssumption DEF TypeInv, TypeOK, TaskClose, Unregister,
        kernelVars, sockVars, clientVars, connVars, stateVars, threadVars, workerVars, serverVars, On
<1>1. wconn[w] \in Conns
  BY DEF WorkerShape, ConnType
<1>2. KernelType'
  BY <1>1 DEF KernelType
<1>3. ConnType'
  BY <1>1 DEF ConnType
<1>4. WorkerType'
  BY <1>1 DEF WorkerType
<1>5. SocketShape'
  BY <1>1 DEF SocketShape, KernelType, ConnType, WorkerShape
<1>6. WorkerShape'
  BY <1>1 DEF WorkerShape, WorkerType, ConnType, CurShape, SocketShape
<1>7. ClientType' /\ MapType' /\ ReactorType' /\ ServerType' /\ CurShape' /\ MapShape'
  BY DEF ClientType, MapType, ReactorType, ServerType, CurShape, MapShape
<1>8. needPending' \in BOOLEAN
  OBVIOUS
<1> QED
  BY <1>2, <1>3, <1>4, <1>5, <1>6, <1>7, <1>8

LEMMA TaskResetType ==
  ASSUME TypeInv, NEW w \in Workers, TaskReset(w)
  PROVE  TypeInv'
<1> USE ConstAssumption DEF TypeInv, TypeOK, TaskReset, On, CloseAgain, Unregister,
        kernelVars, sockVars, clientVars, connVars, stateVars, threadVars, workerVars, serverVars
<1>1. wconn[w] \in Conns /\ wconn[w] \notin running
  BY DEF WorkerShape, ConnType
<1>2. KernelType'
  BY <1>1 DEF KernelType
<1>3. ConnType'
  BY <1>1 DEF ConnType
<1>4. WorkerType'
  BY <1>1 DEF WorkerType
<1>5. SocketShape'
  BY <1>1 DEF SocketShape, KernelType, ConnType, WorkerShape
<1>6. WorkerShape'
  BY <1>1 DEF WorkerShape, WorkerType, ConnType, CurShape, SocketShape
<1>7. ClientType' /\ MapType' /\ ReactorType' /\ ServerType' /\ CurShape' /\ MapShape'
  BY DEF ClientType, MapType, ReactorType, ServerType, CurShape, MapShape
<1>8. needPending' \in BOOLEAN
  OBVIOUS
<1> QED
  BY <1>2, <1>3, <1>4, <1>5, <1>6, <1>7, <1>8

LEMMA ResetSocketType ==
  ASSUME TypeInv, NEW c \in Conns, ResetSocket(c)
  PROVE  TypeInv'
<1> USE ConstAssumption DEF TypeInv, TypeOK, ResetSocket, CloseAgain, Unregister,
        kernelVars, sockVars, clientVars, connVars, stateVars, threadVars, workerVars, serverVars
<1>1. closing[c] # "no" /\ c \notin running
  BY DEF Resets, SocketShape
<1>2. KernelType'
  BY DEF KernelType
<1>3. ConnType'
  BY DEF ConnType
<1>4. SocketShape'
  BY <1>1 DEF SocketShape, KernelType, ConnType
<1>5. /\ ClientType' /\ MapType' /\ ReactorType' /\ WorkerType' /\ ServerType' /\ CurShape'
      /\ WorkerShape' /\ MapShape'
  BY DEF ClientType, MapType, ReactorType, WorkerType, ServerType, CurShape, WorkerShape,
     MapShape
<1>6. needPending' \in BOOLEAN
  OBVIOUS
<1> QED
  BY <1>2, <1>3, <1>4, <1>5, <1>6

LEMMA ShutdownWakeType ==
  ASSUME TypeInv, ShutdownWake
  PROVE  TypeInv'
<1> USE ConstAssumption DEF TypeInv, TypeOK, ShutdownWake,
        kernelVars, sockVars, clientVars, connVars, stateVars, threadVars, workerVars, serverVars
<1>1. KernelType'
  BY DEF KernelType
<1>2. ServerType'
  BY DEF ServerType
<1>3. /\ ClientType' /\ ConnType' /\ MapType' /\ ReactorType' /\ WorkerType'
      /\ SocketShape' /\ CurShape' /\ WorkerShape' /\ MapShape'
  BY DEF ClientType, ConnType, MapType, ReactorType, WorkerType, SocketShape, CurShape,
     WorkerShape, MapShape
<1>4. needPending' \in BOOLEAN
  OBVIOUS
<1> QED
  BY <1>1, <1>2, <1>3, <1>4

LEMMA RequestStopType ==
  ASSUME TypeInv, RequestStop
  PROVE  TypeInv'
<1> USE ConstAssumption DEF TypeInv, TypeOK, RequestStop,
        kernelVars, sockVars, clientVars, connVars, stateVars, threadVars, workerVars, serverVars
<1>1. ServerType'
  BY DEF ServerType
<1>2. /\ KernelType' /\ ClientType' /\ ConnType' /\ MapType' /\ ReactorType'
      /\ WorkerType' /\ SocketShape' /\ CurShape' /\ WorkerShape' /\ MapShape'
  BY DEF KernelType, ClientType, ConnType, MapType, ReactorType, WorkerType, SocketShape,
     CurShape, WorkerShape, MapShape
<1>3. needPending' \in BOOLEAN
  OBVIOUS
<1> QED
  BY <1>1, <1>2, <1>3

LEMMA JoinReactorType ==
  ASSUME TypeInv, JoinReactor
  PROVE  TypeInv'
<1> USE ConstAssumption DEF TypeInv, TypeOK, JoinReactor, CloseEntries,
        kernelVars, sockVars, clientVars, connVars, stateVars, threadVars, workerVars, serverVars, At
<1>1. Cardinality(Entries(Fds)) \in Nat
  BY EntriesFinite
<1>2. KernelType'
  BY <1>1 DEF KernelType, Shutdown, Unregister
<1>3. ConnType'
  BY <1>1 DEF ConnType, Shutdown, Unregister
<1>4. MapType'
  BY <1>1 DEF MapType
<1>5. ServerType'
  BY <1>1 DEF ServerType
<1>6. SocketShape'
  BY <1>1 DEF SocketShape, KernelType, ConnType, Shutdown, Unregister
<1>7. WorkerShape'
  BY <1>1 DEF WorkerShape, WorkerType, ConnType, CurShape, SocketShape, Shutdown
<1>8. MapShape'
  BY <1>1 DEF MapShape, MapType
<1>9. ClientType' /\ ReactorType' /\ WorkerType' /\ CurShape'
  BY DEF ClientType, ReactorType, WorkerType, CurShape
<1>10. needPending' \in BOOLEAN
  OBVIOUS
<1> QED
  BY <1>2, <1>3, <1>4, <1>5, <1>6, <1>7, <1>8, <1>9, <1>10

LEMMA DestroyReactorType ==
  ASSUME TypeInv, DestroyReactor
  PROVE  TypeInv'
<1> USE ConstAssumption DEF TypeInv, TypeOK, DestroyReactor, Shutdown,
        kernelVars, sockVars, clientVars, connVars, stateVars, threadVars, workerVars, serverVars
<1>1. <<>> \in Seq(Functor)
  OBVIOUS
<1>2. KernelType'
  BY <1>1 DEF KernelType, Unregister
<1>3. ConnType'
  BY <1>1 DEF ConnType
<1>4. MapType'
  BY <1>1 DEF MapType
<1>5. ServerType'
  BY <1>1 DEF ServerType
<1>6. SocketShape'
  BY <1>1 DEF SocketShape, KernelType, ConnType, Unregister
<1>7. WorkerShape'
  BY <1>1 DEF WorkerShape, WorkerType, ConnType, CurShape, SocketShape
<1>8. ClientType' /\ ReactorType' /\ WorkerType' /\ CurShape' /\ MapShape'
  BY DEF ClientType, ReactorType, WorkerType, CurShape, MapShape
<1>9. needPending' \in BOOLEAN
  OBVIOUS
<1> QED
  BY <1>2, <1>3, <1>4, <1>5, <1>6, <1>7, <1>8, <1>9

LEMMA ClientSendType ==
  ASSUME TypeInv, NEW c \in Conns, NEW k \in Kinds, ClientSend(c, k)
  PROVE  TypeInv'
<1> USE ConstAssumption DEF TypeInv, TypeOK, ClientSend, Notify, Connected,
        kernelVars, sockVars, clientVars, connVars, stateVars, threadVars, workerVars, serverVars
<1>1. KernelType'
  BY DEF KernelType
<1>2. ClientType'
  BY DEF ClientType
<1>3. SocketShape'
  BY DEF SocketShape, KernelType, ConnType
<1>4. /\ ConnType' /\ MapType' /\ ReactorType' /\ WorkerType' /\ ServerType'
      /\ CurShape' /\ WorkerShape' /\ MapShape'
  BY DEF ConnType, MapType, ReactorType, WorkerType, ServerType, CurShape, WorkerShape, MapShape
<1>5. needPending' \in BOOLEAN
  OBVIOUS
<1> QED
  BY <1>1, <1>2, <1>3, <1>4, <1>5

LEMMA ClientLeavesType ==
  ASSUME TypeInv, NEW c \in Conns, NEW h \in {"fin", "rst"}, ClientLeaves(c, h)
  PROVE  TypeInv'
<1> USE ConstAssumption DEF TypeInv, TypeOK, ClientLeaves, Notify, Connected,
        kernelVars, sockVars, clientVars, connVars, stateVars, threadVars, workerVars, serverVars
<1>1. KernelType'
  BY DEF KernelType
<1>2. ClientType'
  BY DEF ClientType
<1>3. SocketShape'
  BY DEF SocketShape, KernelType, ConnType
<1>4. /\ ConnType' /\ MapType' /\ ReactorType' /\ WorkerType' /\ ServerType'
      /\ CurShape' /\ WorkerShape' /\ MapShape'
  BY DEF ConnType, MapType, ReactorType, WorkerType, ServerType, CurShape, WorkerShape, MapShape
<1>5. needPending' \in BOOLEAN
  OBVIOUS
<1> QED
  BY <1>1, <1>2, <1>3, <1>4, <1>5

LEMMA ClientReadsType ==
  ASSUME TypeInv, NEW c \in Conns, ClientReads(c)
  PROVE  TypeInv'
<1> USE ConstAssumption DEF TypeInv, TypeOK, ClientReads,
        kernelVars, sockVars, clientVars, connVars, stateVars, threadVars, workerVars, serverVars
<1>1. KernelType'
  BY DEF KernelType
<1>2. ClientType'
  BY DEF ClientType
<1>3. SocketShape'
  BY DEF SocketShape, KernelType, ConnType
<1>4. /\ ConnType' /\ MapType' /\ ReactorType' /\ WorkerType' /\ ServerType'
      /\ CurShape' /\ WorkerShape' /\ MapShape'
  BY DEF ConnType, MapType, ReactorType, WorkerType, ServerType, CurShape, WorkerShape, MapShape
<1>5. needPending' \in BOOLEAN
  OBVIOUS
<1> QED
  BY <1>1, <1>2, <1>3, <1>4, <1>5

LEMMA TimerFiresType ==
  ASSUME TypeInv, TimerFires
  PROVE  TypeInv'
<1> USE ConstAssumption DEF TypeInv, TypeOK, TimerFires,
        kernelVars, sockVars, clientVars, connVars, stateVars, threadVars, workerVars, serverVars
<1>1. KernelType'
  BY DEF KernelType
<1>2. /\ ClientType' /\ ConnType' /\ MapType' /\ ReactorType' /\ WorkerType'
      /\ ServerType' /\ SocketShape' /\ CurShape' /\ WorkerShape' /\ MapShape'
  BY DEF ClientType, ConnType, MapType, ReactorType, WorkerType, ServerType, SocketShape,
     CurShape, WorkerShape, MapShape
<1>3. needPending' \in BOOLEAN
  OBVIOUS
<1> QED
  BY <1>1, <1>2, <1>3

LEMMA DeadlinePassesType ==
  ASSUME TypeInv, NEW f \in Fds, DeadlinePasses(f)
  PROVE  TypeInv'
<1> USE ConstAssumption DEF TypeInv, TypeOK, DeadlinePasses,
        kernelVars, sockVars, clientVars, connVars, stateVars, threadVars, workerVars, serverVars
<1>1. MapType'
  BY DEF MapType
<1>2. /\ KernelType' /\ ClientType' /\ ConnType' /\ ReactorType' /\ WorkerType'
      /\ ServerType' /\ SocketShape' /\ CurShape' /\ WorkerShape' /\ MapShape'
  BY DEF KernelType, ClientType, ConnType, ReactorType, WorkerType, ServerType, SocketShape,
     CurShape, WorkerShape, MapShape
<1>3. needPending' \in BOOLEAN
  OBVIOUS
<1> QED
  BY <1>1, <1>2, <1>3

LEMMA StutterType ==
  ASSUME TypeInv, UNCHANGED vars
  PROVE  TypeInv'
<1> USE DEF TypeInv, TypeOK, vars
<1>1. KernelType' /\ ClientType' /\ ConnType' /\ ServerType'
  BY DEF KernelType, ClientType, ConnType, ServerType, kernelVars, sockVars, clientVars, connVars,
     stateVars, threadVars, workerVars, serverVars
<1>2. MapType' /\ ReactorType' /\ WorkerType'
  BY DEF MapType, ReactorType, WorkerType, kernelVars, sockVars, clientVars, connVars, stateVars,
     threadVars, workerVars, serverVars
<1>3. SocketShape' /\ CurShape' /\ WorkerShape' /\ MapShape'
  BY DEF SocketShape, CurShape, WorkerShape, MapShape, kernelVars, sockVars, clientVars, connVars,
     stateVars, threadVars, workerVars, serverVars
<1>4. needPending' \in BOOLEAN
  BY DEF threadVars
<1> QED
  BY <1>1, <1>2, <1>3, <1>4

LEMMA NextTypeInv == TypeInv /\ [Next]_vars => TypeInv'
<1> SUFFICES ASSUME TypeInv, [Next]_vars PROVE TypeInv'
  OBVIOUS
<1>1. CASE Reactor
  BY <1>1, LoopTestType, EpollWaitType, DispatchWakeType, DispatchTimerType,
     DispatchCloseType, DispatchIoType, HandleReadDeadType, HandleReadFailsType,
     HandleReadSubmitType, HandleReadInlineType, NothingToWriteType, HandleWriteType,
     HandleWriteErrorType, ReapCurrentType, EndBatchType, RunAddType, RunEnableType,
     FunctorsDoneType, CleanupType
     DEF Reactor
<1>2. CASE \E c \in Conns, f \in Fds : AddConnection(c, f)
  BY <1>2, AddConnectionType
<1>3. CASE AddConnectionWake
  BY <1>3, AddConnectionWakeType
<1>4. CASE \E w \in Workers : Worker(w)
  BY <1>4, TakeTaskType, SendReplyType, EnableWritingType, EnableWritingWakeType,
     TaskShutdownType, TaskCloseType, TaskResetType
     DEF Worker
<1>5. CASE ShutdownThread
  BY <1>5, ShutdownWakeType, RequestStopType, JoinReactorType, DestroyReactorType
     DEF ShutdownThread
<1>6. CASE \E c \in Conns : Client(c)
  BY <1>6, ClientSendType, ClientLeavesType, ClientReadsType DEF Client
<1>7. CASE TimerFires \/ \E f \in Fds : DeadlinePasses(f)
  BY <1>7, TimerFiresType, DeadlinePassesType
<1>8. CASE UNCHANGED vars
  BY <1>8, StutterType
<1>9. CASE \E c \in Conns : ResetSocket(c)
  BY <1>9, ResetSocketType
<1> QED
  BY <1>1, <1>2, <1>3, <1>4, <1>5, <1>6, <1>7, <1>8, <1>9 DEF Next, Terminated

LEMMA SpecTypeInv == Spec => []TypeInv
  BY InitTypeInv, NextTypeInv, PTL DEF Spec

(* Every state of the reactor is well typed, and in particular no output    *)
(* buffer ever holds more than MAX_BUFFER_SIZE: the test of send() bounds   *)
(* it whatever the senders' interleaving.                                   *)
THEOREM TypeCorrect == Spec => []TypeOK
<1>1. TypeInv => TypeOK
  BY DEF TypeInv
<1> QED
  BY <1>1, SpecTypeInv, PTL

-----------------------------------------------------------------------------
(* The functor queue.  NoLostFunctor is not inductive: epoll_wait resets    *)
(* needPending, and a worker's late write to wake_fd_ after the join goes   *)
(* nowhere.  Both are harmless, because needPending is set only between     *)
(* epoll_wait and the swap, and a joined reactor has left its loop.         *)

FunctorInv ==
    /\ NoLostFunctor
    /\ needPending => rpc \in {"dispatch", "read", "write", "reap"}
    /\ spc \in {"joined", "destroyed"} => rpc = "done"

LEMMA InitFunctorInv == Init => FunctorInv
  BY DEF Init, FunctorInv, NoLostFunctor

(* Steps that leave the queue, the wakeups and the loop's state alone.      *)
LEMMA FunctorFrame ==
  ASSUME FunctorInv, UNCHANGED <<pending, rpc, readable, needPending, apc, wpc, spc>>
  PROVE  FunctorInv'
  BY DEF FunctorInv, NoLostFunctor

(* Steps of the loop between epoll_wait and the swap.                       *)
LEMMA FunctorMove ==
  ASSUME FunctorInv, UNCHANGED <<pending, readable, needPending, apc, wpc, spc>>,
         rpc \in {"dispatch", "read", "write", "reap"},
         rpc' \in {"dispatch", "read", "write", "reap"}
  PROVE  FunctorInv'
  BY DEF FunctorInv, NoLostFunctor

(* Steps that only add to what is readable.                                 *)
LEMMA FunctorReadable ==
  ASSUME FunctorInv, readable \subseteq readable',
         UNCHANGED <<pending, rpc, needPending, apc, wpc, spc>>
  PROVE  FunctorInv'
  BY DEF FunctorInv, NoLostFunctor

LEMMA ReactorFunctorInv ==
  ASSUME TypeInv, FunctorInv, Reactor
  PROVE  FunctorInv'
<1> USE DEF workerVars, serverVars, FunctorInv
<1>1. CASE LoopTest
  BY <1>1 DEF LoopTest, StopRequested, NoLostFunctor, At
<1>2. CASE EpollWait
  BY <1>2 DEF EpollWait, NoLostFunctor, At
<1>3. ASSUME NEW e \in batch, DispatchWake(e) PROVE FunctorInv'
  BY <1>3 DEF DispatchWake, NoLostFunctor, At
<1>4. ASSUME NEW e \in batch, DispatchTimer(e) PROVE FunctorInv'
  BY <1>4, ConstAssumption DEF DispatchTimer, NoLostFunctor, At
<1>5. ASSUME NEW e \in batch, DispatchClose(e) \/ DispatchIo(e) PROVE FunctorInv'
  BY <1>5, FunctorMove, FunctorFrame DEF DispatchClose, DispatchIo, FirstHandler, At
<1>6. CASE HandleReadDead \/ HandleReadFails \/ HandleReadSubmit \/ HandleReadInline
  BY <1>6, FunctorMove
     DEF HandleReadDead, HandleReadFails, HandleReadSubmit, HandleReadInline, At
<1>7. CASE NothingToWrite \/ HandleWrite \/ HandleWriteError \/ ReapCurrent
  BY <1>7, FunctorMove
     DEF NothingToWrite, HandleWrite, HandleWriteError, ReapCurrent, At
<1>8. CASE EndBatch
  BY <1>8 DEF EndBatch, NoLostFunctor, At
<1>9. CASE RunAdd \/ RunEnable
  BY <1>9, FunctorFrame DEF RunAdd, RunEnable, At
<1>10. CASE FunctorsDone
  BY <1>10 DEF FunctorsDone, NoLostFunctor, At
<1>11. CASE Cleanup
  BY <1>11 DEF Cleanup, NoLostFunctor, At
<1> QED
  BY <1>1, <1>2, <1>3, <1>4, <1>5, <1>6, <1>7, <1>8, <1>9, <1>10, <1>11
     DEF Reactor

LEMMA WorkerFunctorInv ==
  ASSUME TypeInv, FunctorInv, NEW w \in Workers, Worker(w)
  PROVE  FunctorInv'
<1> USE DEF TypeInv, TypeOK, WorkerType, threadVars, serverVars, FunctorInv
<1>1. CASE TakeTask(w)
  BY <1>1 DEF TakeTask, NoLostFunctor, On
<1>2. CASE SendReply(w)
  BY <1>2 DEF SendReply, NoLostFunctor, On
<1>3. CASE EnableWriting(w)
  BY <1>3 DEF EnableWriting, NoLostFunctor, On
<1>4. CASE EnableWritingWake(w)
  BY <1>4, ConstAssumption DEF EnableWritingWake, NoLostFunctor, ServerType, On
<1>5. CASE TaskShutdown(w)
  BY <1>5 DEF TaskShutdown, NoLostFunctor, On
<1>6. CASE TaskClose(w)
  BY <1>6 DEF TaskClose, NoLostFunctor, On
<1>7. CASE TaskReset(w)
  BY <1>7 DEF TaskReset, NoLostFunctor, On
<1> QED
  BY <1>1, <1>2, <1>3, <1>4, <1>5, <1>6, <1>7 DEF Worker

LEMMA NextFunctorInv == TypeInv /\ FunctorInv /\ [Next]_vars => FunctorInv'
<1> SUFFICES ASSUME TypeInv, FunctorInv, [Next]_vars PROVE FunctorInv'
  OBVIOUS
<1> USE DEF threadVars, workerVars, serverVars
<1>1. CASE Reactor
  BY <1>1, ReactorFunctorInv
<1>2. ASSUME NEW c \in Conns, NEW f \in Fds, AddConnection(c, f) PROVE FunctorInv'
  BY <1>2 DEF AddConnection, FunctorInv, NoLostFunctor
<1>3. CASE AddConnectionWake
  BY <1>3 DEF AddConnectionWake, FunctorInv, NoLostFunctor
<1>4. CASE \E w \in Workers : Worker(w)
  BY <1>4, WorkerFunctorInv
<1>5. CASE ShutdownThread
  BY <1>5 DEF ShutdownThread, ShutdownWake, RequestStop, JoinReactor, DestroyReactor,
              FunctorInv, NoLostFunctor, At
<1>6. CASE \E c \in Conns : Client(c)
  BY <1>6, FunctorFrame DEF Client, ClientSend, ClientLeaves, ClientReads
<1>7. CASE TimerFires
  BY <1>7, FunctorReadable DEF TimerFires
<1>8. CASE \E f \in Fds : DeadlinePasses(f)
  BY <1>8, FunctorFrame DEF DeadlinePasses
<1>9. CASE UNCHANGED vars
  BY <1>9, FunctorFrame DEF vars
<1>10. CASE \E c \in Conns : ResetSocket(c)
  BY <1>10, FunctorFrame DEF ResetSocket
<1> QED
  BY <1>1, <1>2, <1>3, <1>4, <1>5, <1>6, <1>7, <1>8, <1>9, <1>10 DEF Next, Terminated

LEMMA SpecFunctorInv == Spec => []FunctorInv
  BY InitFunctorInv, NextFunctorInv, SpecTypeInv, PTL DEF Spec

(* No functor handed to the reactor is stranded, whatever the interleaving  *)
(* of the queueing threads, their writes to wake_fd_ and the reactor's      *)
(* read of it.                                                              *)
THEOREM FunctorsNeverLost == Spec => []NoLostFunctor
<1>1. FunctorInv => NoLostFunctor
  BY DEF FunctorInv
<1> QED
  BY <1>1, SpecFunctorInv, PTL

-----------------------------------------------------------------------------
(* The tables.  A step either leaves map, timeouts and active count alone,  *)
(* or is one of four changes to them; each keeps the tables in agreement.   *)

\* The insertion of RunAdd.
Inserts(f, c) ==
    /\ connections[f] = NoConn
    /\ connections' = [connections EXCEPT ![f] = c]
    /\ active' = active + 1
    /\ timeouts' = [timeouts EXCEPT ![f] = @ + 1]

MapStep ==
    \/ UNCHANGED <<connections, timeouts, active>>
    \/ \E F \in SUBSET Fds : CloseConnections(F)
    \/ CheckTimeouts
    \/ \E f \in Fds, c \in Conns : Inserts(f, c)
    \/ CloseEntries(Fds) /\ timeouts' = [f \in Fds |-> 0]

LEMMA ReactorMapStep == ASSUME TypeInv, Reactor PROVE MapStep
<1> USE DEF MapStep, stateVars
<1>1. CASE LoopTest \/ EpollWait \/ NothingToWrite \/ HandleWrite \/ HandleWriteError
  BY <1>1 DEF LoopTest, EpollWait, NothingToWrite, HandleWrite, HandleWriteError, At
<1>2. ASSUME NEW e \in batch, DispatchWake(e) \/ DispatchIo(e) PROVE MapStep
  BY <1>2 DEF DispatchWake, DispatchIo, At
<1>3. ASSUME NEW e \in batch, DispatchTimer(e) PROVE MapStep
  BY <1>3 DEF DispatchTimer, At
<1>4. ASSUME NEW e \in batch, DispatchClose(e) PROVE MapStep
  <2>1. CloseConnections({e.fd}) /\ {e.fd} \in SUBSET Fds
    BY <1>4 DEF DispatchClose, At
  <2> QED
    BY <2>1
<1>5. CASE HandleReadDead \/ HandleReadFails \/ HandleReadSubmit \/ HandleReadInline
  BY <1>5 DEF HandleReadDead, HandleReadFails, HandleReadSubmit, HandleReadInline, At
<1>6. CASE ReapCurrent
  <2>1. {cur.fd} \in SUBSET Fds
    BY <1>6 DEF ReapCurrent, TypeInv, CurShape, At
  <2> QED
    BY <1>6, <2>1 DEF ReapCurrent, At
<1>7. CASE EndBatch \/ RunEnable \/ FunctorsDone
  BY <1>7 DEF EndBatch, RunEnable, FunctorsDone, At
<1>8. CASE RunAdd
  <2>1. Head(functors).fd \in Fds /\ Head(functors).conn \in Conns
    BY <1>8 DEF RunAdd, TypeInv, TypeOK, ReactorType, Functor, At
  <2>2. UNCHANGED <<connections, timeouts, active>>
        \/ Inserts(Head(functors).fd, Head(functors).conn)
    BY <1>8 DEF RunAdd, Inserts, At
  <2> QED
    BY <2>1, <2>2
<1>9. CASE Cleanup
  BY <1>9 DEF Cleanup, At
<1> QED
  BY <1>1, <1>2, <1>3, <1>4, <1>5, <1>6, <1>7, <1>8, <1>9 DEF Reactor

LEMMA NextMapStep == TypeInv /\ [Next]_vars => MapStep
<1> SUFFICES ASSUME TypeInv, [Next]_vars PROVE MapStep
  OBVIOUS
<1> USE DEF MapStep, stateVars
<1>1. CASE Reactor
  BY <1>1, ReactorMapStep
<1>2. CASE \/ \E c \in Conns, f \in Fds : AddConnection(c, f)
           \/ AddConnectionWake \/ TimerFires \/ \E f \in Fds : DeadlinePasses(f)
  BY <1>2 DEF AddConnection, AddConnectionWake, TimerFires, DeadlinePasses
<1>3. CASE \E w \in Workers : Worker(w)
  BY <1>3 DEF Worker, TakeTask, SendReply, EnableWriting, EnableWritingWake,
              TaskShutdown, TaskClose, TaskReset, On
<1>4. CASE ShutdownThread
  BY <1>4 DEF ShutdownThread, ShutdownWake, RequestStop, JoinReactor, DestroyReactor, At
<1>5. CASE \E c \in Conns : Client(c)
  BY <1>5 DEF Client, ClientSend, ClientLeaves, ClientReads
<1>6. CASE UNCHANGED vars
  BY <1>6 DEF vars
<1>7. CASE \E c \in Conns : ResetSocket(c)
  BY <1>7 DEF ResetSocket
<1> QED
  BY <1>1, <1>2, <1>3, <1>4, <1>5, <1>6, <1>7 DEF Next, Terminated

LEMMA MapStepTimeoutCover == TypeInv /\ TimeoutCover /\ MapStep => TimeoutCover'
<1> SUFFICES ASSUME TypeInv, TimeoutCover, MapStep PROVE TimeoutCover'
  OBVIOUS
<1> USE ConstAssumption DEF TypeInv, TypeOK, MapType, TimeoutCover
<1>1. CASE UNCHANGED <<connections, timeouts, active>>
  BY <1>1
<1>2. ASSUME NEW F \in SUBSET Fds, CloseConnections(F) PROVE TimeoutCover'
  BY <1>2 DEF CloseConnections, CloseEntries, EraseTimeouts, Entries
<1>3. CASE CheckTimeouts
  BY <1>3 DEF CheckTimeouts, CloseEntries, EraseTimeouts, Entries, TimeoutApplies
<1>4. ASSUME NEW f \in Fds, NEW c \in Conns, Inserts(f, c) PROVE TimeoutCover'
  BY <1>4 DEF Inserts
<1>5. CASE CloseEntries(Fds) /\ timeouts' = [f \in Fds |-> 0]
  BY <1>5 DEF CloseEntries, Entries
<1> QED
  BY <1>1, <1>2, <1>3, <1>4, <1>5 DEF MapStep

(* timeout_map_ and connections_ agree, so that no deadline outlives its    *)
(* connection and is charged to the next one on the same descriptor, and no *)
(* connection is without one.                                               *)
THEOREM TimeoutsCoverMap == Spec => []TimeoutCover
<1>1. Init => TimeoutCover
  BY DEF Init, TimeoutCover
<1>2. TypeInv /\ TimeoutCover /\ [Next]_vars => TimeoutCover'
  BY NextMapStep, MapStepTimeoutCover
<1> QED
  BY <1>1, <1>2, SpecTypeInv, PTL DEF Spec

\* The descriptors that have an entry.
Used == {f \in Fds : connections[f] # NoConn}

(* Closing entries takes as many off the count as it takes out of the map.  *)
LEMMA CloseKeepsCount ==
  ASSUME TypeInv, ActiveMatchesMap, NEW F \in SUBSET Fds, CloseEntries(F)
  PROVE  ActiveMatchesMap'
<1> USE DEF TypeInv, TypeOK, MapType
<1>1. Entries(F) \subseteq Used /\ IsFiniteSet(Used) /\ Used \cap Entries(F) = Entries(F)
  BY ConstAssumption, FS_Subset DEF Entries, Used
<1>2. Used' = Used \ Entries(F)
  BY ConstAssumption DEF CloseEntries, Used, Entries
<1>3. Cardinality(Used \ Entries(F)) = Cardinality(Used) - Cardinality(Entries(F))
  BY <1>1, FS_Difference
<1>4. active' = active - Cardinality(Entries(F))
  BY DEF CloseEntries
<1> QED
  BY <1>2, <1>3, <1>4 DEF ActiveMatchesMap, Used

LEMMA MapStepActive == TypeInv /\ ActiveMatchesMap /\ MapStep => ActiveMatchesMap'
<1> SUFFICES ASSUME TypeInv, ActiveMatchesMap, MapStep PROVE ActiveMatchesMap'
  OBVIOUS
<1>1. CASE UNCHANGED <<connections, timeouts, active>>
  BY <1>1 DEF ActiveMatchesMap
<1>2. ASSUME NEW F \in SUBSET Fds, CloseConnections(F) PROVE ActiveMatchesMap'
  BY <1>2, CloseKeepsCount DEF CloseConnections
<1>3. CASE CheckTimeouts
  <2>1. PICK expired \in SUBSET {f \in due : TimeoutApplies(f)} : CloseEntries(expired)
    BY <1>3 DEF CheckTimeouts
  <2>2. expired \in SUBSET Fds
    BY DEF TypeInv, TypeOK, MapType
  <2> QED
    BY <2>1, <2>2, CloseKeepsCount
<1>4. ASSUME NEW f \in Fds, NEW c \in Conns, Inserts(f, c) PROVE ActiveMatchesMap'
  <2>1. f \notin Used /\ IsFiniteSet(Used)
    BY <1>4, ConstAssumption, FS_Subset DEF Inserts, Used
  <2>2. Used' = Used \cup {f}
    BY <1>4, ConstAssumption DEF Inserts, Used, TypeInv, TypeOK, MapType
  <2>3. Cardinality(Used \cup {f}) = Cardinality(Used) + 1
    BY <2>1, FS_AddElement
  <2> QED
    BY <1>4, <2>2, <2>3 DEF Inserts, ActiveMatchesMap, Used
<1>5. CASE CloseEntries(Fds)
  BY <1>5, CloseKeepsCount
<1> QED
  BY <1>1, <1>2, <1>3, <1>4, <1>5 DEF MapStep

(* The active_connections metric always is the number of entries in the     *)
(* map: no path closes a connection twice for it, or not at all.            *)
THEOREM ActiveIsMapSize == Spec => []ActiveMatchesMap
<1>1. Init => ActiveMatchesMap
  <2> SUFFICES ASSUME Init PROVE ActiveMatchesMap
    OBVIOUS
  <2>1. {f \in Fds : connections[f] # NoConn} = {}
    BY DEF Init
  <2> QED
    BY <2>1, FS_EmptySet DEF ActiveMatchesMap, Init
<1>2. TypeInv /\ ActiveMatchesMap /\ [Next]_vars => ActiveMatchesMap'
  BY NextMapStep, MapStepActive
<1> QED
  BY <1>1, <1>2, SpecTypeInv, PTL DEF Spec
=============================================================================
