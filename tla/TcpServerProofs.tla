--------------------------- MODULE TcpServerProofs --------------------------
(***************************************************************************)
(* The accept thread and shutdown(), for any number of reactors, clients,  *)
(* failed calls and any connection limit: every client is accounted for,   *)
(* round robin is fair, and nothing is handed to a reactor that is not     *)
(* there.                                                                  *)
(***************************************************************************)
EXTENDS TcpServer, FiniteSetTheorems, TLAPS

(* shutdown() turns to the reactors when the accept thread has ended.       *)
StageInv == spc \in {"reactors", "done"} => apc = "exit"

(* The loop over accept4 is entered below MAX_ACCEPT_PER_LOOP only, and the *)
(* count grows once in a turn of it: with a rejection or the hand-over.     *)
InLoop == {"get", "accept", "blocked", "woken", "limit", "add"}
          \cup (IF Multi THEN {} ELSE {"count"})

LoopInv == apc \in InLoop => acceptCount < MaxAccept

(* All reactors of the server are there when the accept thread may hand a   *)
(* connection over, and the others never get any.                           *)
ReactorsThere ==
    \/ apc = "none"
    \/ apc = "begin" /\ ~Multi
    \/ spc \in {"reactors", "done"}
    \/ \A r \in Used : reactor[r] \in Made

HandoverInv ==
    /\ ReactorsThere
    /\ \A r \in Reactors \ Used : inbox[r] = 0 /\ active[r] = 0
    /\ NothingToStopped

(* Who is before the reactor whose turn it is has one connection more.      *)
TurnInv ==
    \E base \in Nat : \A r \in Used :
        Given(r) = base + (IF r < Target THEN 1 ELSE 0)

-----------------------------------------------------------------------------
(* Sums over the reactors.                                                  *)

(* The units of every reactor but one.                                      *)
Others(f, r) == UNION {{q} \X (1 .. f[q]) : q \in Reactors \ {r}}

(* The units of a reactor are as many as it counts.                         *)
LEMMA OwnUnits ==
  ASSUME NEW r, NEW n \in Nat
  PROVE  IsFiniteSet({r} \X (1 .. n)) /\ Cardinality({r} \X (1 .. n)) = n
<1>1. IsFiniteSet(1 .. n) /\ Cardinality(1 .. n) = n
  BY FS_Interval
<1>2. IsFiniteSet({r}) /\ Cardinality({r}) = 1
  BY FS_Singleton
<1>3. /\ IsFiniteSet({r} \X (1 .. n))
      /\ Cardinality({r} \X (1 .. n)) = Cardinality({r}) * Cardinality(1 .. n)
  BY <1>1, <1>2, FS_Product
<1> QED
  BY <1>1, <1>2, <1>3

(* The units of all reactors but one are finitely many.                     *)
LEMMA OthersFinite ==
  ASSUME NEW f \in [Reactors -> Nat], NEW r
  PROVE  IsFiniteSet(Others(f, r))
<1> DEFINE S == Reactors \ {r}
           T == {{q} \X (1 .. f[q]) : q \in S}
           g == [q \in S |-> {q} \X (1 .. f[q])]
<1>1. IsFiniteSet(S)
  <2>1. 0 \in Int /\ MaxReactors - 1 \in Int
    BY ServerAssumption
  <2>2. IsFiniteSet(Reactors)
    BY <2>1, FS_Interval DEF Reactors
  <2> QED
    BY <2>2, FS_RemoveElement
<1>2. g \in Surjection(S, T)
  BY DEF Surjection
<1>3. IsFiniteSet(T)
  BY <1>1, <1>2, FS_Surjection
<1>4. \A U \in T : IsFiniteSet(U)
  <2>1. \A q \in S : f[q] \in Nat
    OBVIOUS
  <2>2. \A q \in S : IsFiniteSet({q} \X (1 .. f[q]))
    BY <2>1, OwnUnits
  <2> QED
    BY <2>2
<1>5. IsFiniteSet(UNION T)
  BY <1>3, <1>4, FS_UNION
<1> QED
  BY <1>5 DEF Others

(* A sum is what one reactor counts and what the others do.                 *)
LEMMA SumSplits ==
  ASSUME NEW f \in [Reactors -> Nat], NEW r \in Reactors
  PROVE  /\ Cardinality(Others(f, r)) \in Nat
         /\ Sum(f) = Cardinality(Others(f, r)) + f[r]
<1> DEFINE Own == {r} \X (1 .. f[r])
<1>1. IsFiniteSet(Others(f, r)) /\ Cardinality(Others(f, r)) \in Nat
  BY OthersFinite, FS_CardinalityType
<1>2. IsFiniteSet(Own) /\ Cardinality(Own) = f[r]
  BY OwnUnits
<1>3. Units(f) = Others(f, r) \cup Own
  BY DEF Units, Others
<1>4. Others(f, r) \cap Own = {}
  BY DEF Others
<1>5. Cardinality(Units(f)) =
        Cardinality(Others(f, r)) + Cardinality(Own) - Cardinality(Others(f, r) \cap Own)
  BY <1>1, <1>2, <1>3, FS_Union
<1>6. f[r] \in Nat /\ Cardinality(Others(f, r) \cap Own) = 0
  BY <1>4, FS_EmptySet
<1> HIDE DEF Own
<1> QED
  BY <1>1, <1>2, <1>5, <1>6 DEF Sum

(* A step that changes the count of one reactor changes the sum by as much. *)
LEMMA SumStep ==
  ASSUME NEW f \in [Reactors -> Nat], NEW g \in [Reactors -> Nat], NEW r \in Reactors,
         \A q \in Reactors : q # r => g[q] = f[q]
  PROVE  /\ Sum(f) \in Nat /\ f[r] <= Sum(f)
         /\ Sum(g) = Sum(f) - f[r] + g[r]
<1>1. Others(g, r) = Others(f, r)
  BY DEF Others
<1>2. Cardinality(Others(f, r)) \in Nat /\ Sum(f) = Cardinality(Others(f, r)) + f[r]
  BY SumSplits
<1>3. Sum(g) = Cardinality(Others(g, r)) + g[r]
  BY SumSplits
<1> QED
  BY <1>1, <1>2, <1>3

(* A sum is a number.                                                       *)
LEMMA SumType == ASSUME NEW f \in [Reactors -> Nat] PROVE Sum(f) \in Nat
<1>1. 0 \in Reactors
  BY ServerAssumption DEF Reactors
<1> QED
  BY <1>1, SumStep

(* A sum of zeros.                                                          *)
LEMMA SumZero == Sum([r \in Reactors |-> 0]) = 0
<1>1. Units([r \in Reactors |-> 0]) = {}
  BY DEF Units
<1> QED
  BY <1>1, FS_EmptySet DEF Sum

-----------------------------------------------------------------------------
(* The stages of the shutdown and of the accept thread.                     *)

(* The stages are in step.                                                  *)
LEMMA StageStep ==
  ASSUME TypeOK, StageInv, [Next]_vars
  PROVE  StageInv'
<1> USE DEF StageInv, Dereference, TypeOK, MakeReactors, vars,
           acceptVars, reactorVars, listenVars, stopVars
<1>1. CASE Start
  BY <1>1 DEF Start
<1>2. CASE ClientConnects
  BY <1>2 DEF ClientConnects
<1>3. CASE AcceptBegin
  BY <1>3 DEF AcceptBegin
<1>4. CASE AcceptTest
  BY <1>4 DEF AcceptTest
<1>5. CASE AcceptWait
  BY <1>5 DEF AcceptWait
<1>6. CASE EventsDone
  BY <1>6 DEF EventsDone
<1>7. CASE WakeEvent
  BY <1>7 DEF WakeEvent
<1>8. CASE ServerEvent
  BY <1>8 DEF ServerEvent
<1>9. CASE AcceptHead
  BY <1>9 DEF AcceptHead
<1>10. CASE AcceptGet
  BY <1>10 DEF AcceptGet
<1>11. CASE Accept4
  BY <1>11 DEF Accept4
<1>12. CASE Accept4Blocks
  BY <1>12 DEF Accept4Blocks
<1>13. CASE Accept4Fails
  BY <1>13 DEF Accept4Fails
<1>14. CASE CheckLimit
  BY <1>14 DEF CheckLimit, Admit
<1>15. CASE AddConnection
  BY <1>15 DEF AddConnection
<1>29. CASE CountConnection
  BY <1>29 DEF CountConnection
<1>16. ASSUME NEW r \in Reactors, Register(r) PROVE StageInv'
  BY <1>16 DEF Register
<1>17. ASSUME NEW r \in Reactors, CloseConnection(r) PROVE StageInv'
  BY <1>17 DEF CloseConnection
<1>18. CASE ShutdownBegin
  BY <1>18 DEF ShutdownBegin
<1>19. CASE RequestStop
  BY <1>19 DEF RequestStop
<1>20. CASE ResetServerFd
  BY <1>20 DEF ResetServerFd
<1>21. CASE ShutListener
  BY <1>21 DEF ShutListener
<1>22. CASE CloseListener
  BY <1>22 DEF CloseListener
<1>23. CASE Wakeup
  BY <1>23 DEF Wakeup
<1>24. CASE JoinAcceptor
  BY <1>24 DEF JoinAcceptor
<1>25. ASSUME NEW r \in Reactors, StopReactor(r) PROVE StageInv'
  BY <1>25 DEF StopReactor
<1>26. CASE ShutdownEnd
  BY <1>26 DEF ShutdownEnd
<1>27. CASE Terminated
  BY <1>27 DEF Terminated
<1>28. CASE UNCHANGED vars
  BY <1>28
<1> QED
  BY <1>1, <1>2, <1>3, <1>4, <1>5, <1>6, <1>7, <1>8, <1>9, <1>10, <1>11, <1>12, <1>13,
     <1>14, <1>15, <1>16, <1>17, <1>18, <1>19, <1>20, <1>21, <1>22, <1>23, <1>24, <1>25,
     <1>26, <1>27, <1>28, <1>29 DEF Next, Acceptor, Stopper

(* The accept loop keeps its bound.                                         *)
LEMMA LoopStep ==
  ASSUME TypeOK, LoopInv, [Next]_vars
  PROVE  LoopInv'
<1> USE DEF LoopInv, InLoop, Admit, Multi, Dereference, TypeOK, MakeReactors, vars, acceptVars,
           reactorVars, listenVars, stopVars
<1>1. CASE Start
  BY <1>1 DEF Start
<1>2. CASE ClientConnects
  BY <1>2 DEF ClientConnects
<1>3. CASE AcceptBegin
  BY <1>3 DEF AcceptBegin
<1>4. CASE AcceptTest
  BY <1>4 DEF AcceptTest
<1>5. CASE AcceptWait
  BY <1>5 DEF AcceptWait
<1>6. CASE EventsDone
  BY <1>6 DEF EventsDone
<1>7. CASE WakeEvent
  BY <1>7 DEF WakeEvent
<1>8. CASE ServerEvent
  BY <1>8 DEF ServerEvent
<1>9. CASE AcceptHead
  BY <1>9 DEF AcceptHead
<1>10. CASE AcceptGet
  BY <1>10 DEF AcceptGet
<1>11. CASE Accept4
  BY <1>11 DEF Accept4
<1>12. CASE Accept4Blocks
  BY <1>12 DEF Accept4Blocks
<1>13. CASE Accept4Fails
  BY <1>13 DEF Accept4Fails
<1>14. CASE CheckLimit
  BY <1>14 DEF CheckLimit, Admit
<1>15. CASE AddConnection
  BY <1>15 DEF AddConnection
<1>29. CASE CountConnection
  BY <1>29 DEF CountConnection
<1>16. ASSUME NEW r \in Reactors, Register(r) PROVE LoopInv'
  BY <1>16 DEF Register
<1>17. ASSUME NEW r \in Reactors, CloseConnection(r) PROVE LoopInv'
  BY <1>17 DEF CloseConnection
<1>18. CASE ShutdownBegin
  BY <1>18 DEF ShutdownBegin
<1>19. CASE RequestStop
  BY <1>19 DEF RequestStop
<1>20. CASE ResetServerFd
  BY <1>20 DEF ResetServerFd
<1>21. CASE ShutListener
  BY <1>21 DEF ShutListener
<1>22. CASE CloseListener
  BY <1>22 DEF CloseListener
<1>23. CASE Wakeup
  BY <1>23 DEF Wakeup
<1>24. CASE JoinAcceptor
  BY <1>24 DEF JoinAcceptor
<1>25. ASSUME NEW r \in Reactors, StopReactor(r) PROVE LoopInv'
  BY <1>25 DEF StopReactor
<1>26. CASE ShutdownEnd
  BY <1>26 DEF ShutdownEnd
<1>27. CASE Terminated
  BY <1>27 DEF Terminated
<1>28. CASE UNCHANGED vars
  BY <1>28
<1> QED
  BY <1>1, <1>2, <1>3, <1>4, <1>5, <1>6, <1>7, <1>8, <1>9, <1>10, <1>11, <1>12, <1>13,
     <1>14, <1>15, <1>16, <1>17, <1>18, <1>19, <1>20, <1>21, <1>22, <1>23, <1>24, <1>25,
     <1>26, <1>27, <1>28, <1>29 DEF Next, Acceptor, Stopper

-----------------------------------------------------------------------------
(* Handing over.                                                            *)

(* The turn is that of a reactor of the server.                             *)
LEMMA TargetUsed ==
  ASSUME TypeOK
  PROVE  Target \in Used /\ Used \subseteq Reactors
<1>1. nextIndex \in Nat /\ numReactors \in Nat /\ numReactors >= 1
      /\ numReactors <= MaxReactors /\ MaxReactors \in Nat
  BY ServerAssumption DEF TypeOK
<1> QED
  BY <1>1 DEF Target, Used, Reactors

(* The remainder of the only way to write a number as multiple and rest.    *)
LEMMA Remainder ==
  ASSUME NEW k \in Nat, NEW q \in Nat, NEW m \in Nat, m < k
  PROVE  (k * q + m) % k = m
  OBVIOUS

(* The turn goes round.                                                     *)
LEMMA NextTurn ==
  ASSUME NEW i \in Nat, NEW k \in Nat, k >= 1
  PROVE  /\ i % k \in 0 .. k - 1
         /\ (i + 1) % k = IF i % k = k - 1 THEN 0 ELSE (i % k) + 1
<1> DEFINE q == i \div k
           m == i % k
<1>1. q \in Nat /\ m \in 0 .. k - 1 /\ i = k * q + m
  OBVIOUS
<1> HIDE DEF q, m
<1>2. CASE m = k - 1
  <2>1. i + 1 = k * (q + 1) + 0
    BY <1>1, <1>2
  <2>2. (k * (q + 1) + 0) % k = 0
    BY <1>1, Remainder
  <2> QED
    BY <1>1, <1>2, <2>1, <2>2 DEF m
<1>3. CASE m # k - 1
  <2>1. i + 1 = k * q + (m + 1)
    BY <1>1
  <2>2. (k * q + (m + 1)) % k = m + 1
    BY <1>1, <1>3, Remainder
  <2> QED
    BY <1>1, <1>3, <2>1, <2>2 DEF m
<1> QED
  BY <1>2, <1>3

(* Whether or not constructors fail, all reactors of the server are there.  *)
LEMMA AllMade ==
  ASSUME TypeOK, MakeReactors
  PROVE  \A r \in Used : reactor'[r] \in Made
  BY TargetUsed DEF MakeReactors, Made

(* Nothing reaches a reactor that is not there.                             *)
LEMMA HandoverStep ==
  ASSUME TypeOK, StageInv, HandoverInv, [Next]_vars
  PROVE  HandoverInv'
<1> USE DEF HandoverInv, ReactorsThere, NothingToStopped, Dereference, Used, Multi, vars,
           acceptVars, reactorVars, listenVars, stopVars
<1>1. CASE Start
  <2>1. Used' = Used /\ Multi' = Multi /\ UNCHANGED <<inbox, active, spc>>
    BY <1>1 DEF Start, Used, Multi, stopVars
  <2>2. CASE Multi
    <3>1. \A r \in Used : reactor'[r] \in Made
      BY <1>1, <2>2, AllMade DEF Start
    <3> QED
      BY <2>1, <3>1
  <2>3. CASE ~Multi
    BY <1>1, <2>1, <2>3 DEF Start
  <2> QED
    BY <2>2, <2>3
<1>2. CASE ClientConnects
  BY <1>2 DEF ClientConnects
<1>3. CASE AcceptBegin
  <2>1. Used' = Used /\ Multi' = Multi /\ UNCHANGED <<inbox, active, spc>>
    BY <1>3 DEF AcceptBegin, Used, Multi, stopVars
  <2>2. CASE ~Multi
    <3>1. \A r \in Used : reactor'[r] \in Made
      BY <1>3, <2>2, AllMade DEF AcceptBegin
    <3> QED
      BY <2>1, <3>1
  <2>3. CASE Multi
    BY <1>3, <2>1, <2>3 DEF AcceptBegin
  <2> QED
    BY <2>2, <2>3
<1>4. CASE AcceptTest
  BY <1>4 DEF AcceptTest
<1>5. CASE AcceptWait
  BY <1>5 DEF AcceptWait
<1>6. CASE EventsDone
  BY <1>6 DEF EventsDone
<1>7. CASE WakeEvent
  BY <1>7 DEF WakeEvent
<1>8. CASE ServerEvent
  BY <1>8 DEF ServerEvent
<1>9. CASE AcceptHead
  BY <1>9 DEF AcceptHead
<1>10. CASE AcceptGet
  BY <1>10 DEF AcceptGet
<1>11. CASE Accept4
  BY <1>11 DEF Accept4
<1>12. CASE Accept4Blocks
  BY <1>12 DEF Accept4Blocks
<1>13. CASE Accept4Fails
  BY <1>13 DEF Accept4Fails
<1>14. CASE CheckLimit
  BY <1>14 DEF CheckLimit, Admit
<1>15. CASE AddConnection
  <2>1. Target \in Used /\ Used \subseteq Reactors
    BY TargetUsed
  <2>2. reactor[Target] \in Made
    BY <1>15, <2>1 DEF AddConnection, StageInv
  <2>3. \A r \in Reactors : r # Target => inbox'[r] = inbox[r]
    BY <1>15, <2>1 DEF AddConnection, TypeOK
  <2>4. /\ UNCHANGED <<reactor, active, numReactors, spc>>
        /\ apc = "add" /\ apc' \in {"count", "head"}
    BY <1>15 DEF AddConnection, stopVars
  <2> QED
    BY <2>1, <2>2, <2>3, <2>4 DEF Used, Multi
<1>29. CASE CountConnection
  BY <1>29 DEF CountConnection
<1>16. ASSUME NEW r \in Reactors, Register(r) PROVE HandoverInv'
  <2>1. inbox[r] > 0 /\ reactor[r] \in Made /\ r \in Used
    BY <1>16 DEF Register, Made
  <2>2. \A q \in Reactors : q # r => inbox'[q] = inbox[q] /\ active'[q] = active[q]
    BY <1>16 DEF Register, TypeOK
  <2>3. UNCHANGED <<reactor, numReactors, apc, spc>>
    BY <1>16 DEF Register, stopVars, acceptVars
  <2> QED
    BY <2>1, <2>2, <2>3 DEF Used, Multi
<1>17. ASSUME NEW r \in Reactors, CloseConnection(r) PROVE HandoverInv'
  <2>1. active[r] > 0 /\ reactor[r] \in Made /\ r \in Used
    BY <1>17 DEF CloseConnection, Made
  <2>2. \A q \in Reactors : q # r => inbox'[q] = inbox[q] /\ active'[q] = active[q]
    BY <1>17 DEF CloseConnection, TypeOK
  <2>3. UNCHANGED <<reactor, numReactors, apc, spc>>
    BY <1>17 DEF CloseConnection, stopVars, acceptVars
  <2> QED
    BY <2>1, <2>2, <2>3 DEF Used, Multi
<1>18. CASE ShutdownBegin
  BY <1>18 DEF ShutdownBegin
<1>19. CASE RequestStop
  BY <1>19 DEF RequestStop
<1>20. CASE ResetServerFd
  BY <1>20 DEF ResetServerFd
<1>21. CASE ShutListener
  BY <1>21 DEF ShutListener
<1>22. CASE CloseListener
  BY <1>22 DEF CloseListener
<1>23. CASE Wakeup
  BY <1>23 DEF Wakeup
<1>24. CASE JoinAcceptor
  BY <1>24 DEF JoinAcceptor, acceptVars, reactorVars, Used, Multi
<1>25. ASSUME NEW r \in Reactors, StopReactor(r) PROVE HandoverInv'
  <2>1. \A q \in Reactors : IF q = r THEN inbox'[q] = 0 /\ active'[q] = 0
                             ELSE UNCHANGED <<inbox[q], active[q], reactor[q]>>
    BY <1>25 DEF StopReactor, TypeOK
  <2>2. UNCHANGED <<numReactors, apc, spc>> /\ spc = "reactors"
    BY <1>25 DEF StopReactor, stopVars, acceptVars
  <2> QED
    BY <2>1, <2>2 DEF Used, Multi
<1>26. CASE ShutdownEnd
  BY <1>26 DEF ShutdownEnd
<1>27. CASE Terminated
  BY <1>27 DEF Terminated
<1>28. CASE UNCHANGED vars
  BY <1>28
<1> QED
  BY <1>1, <1>2, <1>3, <1>4, <1>5, <1>6, <1>7, <1>8, <1>9, <1>10, <1>11, <1>12, <1>13,
     <1>14, <1>15, <1>16, <1>17, <1>18, <1>19, <1>20, <1>21, <1>22, <1>23, <1>24, <1>25,
     <1>26, <1>27, <1>28, <1>29 DEF Next, Acceptor, Stopper

(* Only these steps change what a reactor has been given, or whose turn it  *)
(* is.                                                                      *)
counts == <<numReactors, nextIndex, inbox, active, closed>>

LEMMA WhoCounts ==
  ASSUME [Next]_vars
  PROVE  \/ UNCHANGED counts
         \/ AddConnection
         \/ \E r \in Reactors : Register(r) \/ CloseConnection(r) \/ StopReactor(r)
  BY DEF Next, Acceptor, Stopper, vars, acceptVars, reactorVars, listenVars, stopVars, counts,
         Start, ClientConnects, AcceptBegin, AcceptTest, AcceptWait, EventsDone, WakeEvent,
         ServerEvent, AcceptHead, AcceptGet, Accept4, Accept4Blocks, Accept4Fails, CheckLimit,
         CountConnection, ShutdownBegin, RequestStop, ResetServerFd, ShutListener, CloseListener, Wakeup,
         JoinAcceptor, ShutdownEnd, Terminated

(* A reactor that registers, closes or stops keeps what it was given.       *)
LEMMA GivenKept ==
  ASSUME TypeOK, NEW r \in Reactors, NEW q \in Reactors,
         Register(r) \/ CloseConnection(r) \/ StopReactor(r)
  PROVE  Given(q)' = Given(q)
<1>1. CASE Register(r)
  <2>1. inbox'[q] = IF q = r THEN inbox[q] - 1 ELSE inbox[q]
    BY <1>1 DEF Register, TypeOK
  <2>2. CASE active' = [active EXCEPT ![r] = @ + 1] /\ UNCHANGED closed
    BY <2>1, <2>2 DEF Given, TypeOK
  <2>3. CASE closed' = [closed EXCEPT ![r] = @ + 1] /\ UNCHANGED active
    BY <2>1, <2>3 DEF Given, TypeOK
  <2> QED
    BY <1>1, <2>2, <2>3 DEF Register
<1>2. CASE CloseConnection(r)
  <2>1. /\ active'[q] = IF q = r THEN active[q] - 1 ELSE active[q]
        /\ closed'[q] = IF q = r THEN closed[q] + 1 ELSE closed[q]
        /\ inbox'[q] = inbox[q]
    BY <1>2 DEF CloseConnection, TypeOK
  <2>2. inbox[q] \in Int /\ active[q] \in Int /\ closed[q] \in Int
    BY DEF TypeOK
  <2> QED
    BY <2>1, <2>2 DEF Given
<1>3. CASE StopReactor(r)
  BY <1>3 DEF StopReactor, Given, TypeOK
<1> QED
  BY <1>1, <1>2, <1>3

(* The turn goes on to the next reactor with every connection handed over.  *)
LEMMA TurnStep ==
  ASSUME TypeOK, TurnInv, [Next]_vars
  PROVE  TurnInv'
<1>1. CASE UNCHANGED counts
  BY <1>1 DEF counts, TurnInv, Given, Target, Used
<1>2. ASSUME NEW r \in Reactors, Register(r) \/ CloseConnection(r) \/ StopReactor(r)
      PROVE  TurnInv'
  <2>1. \A q \in Used : Given(q)' = Given(q)
    BY <1>2, GivenKept, TargetUsed
  <2>2. UNCHANGED <<numReactors, nextIndex>>
    BY <1>2 DEF Register, CloseConnection, StopReactor, acceptVars
  <2> QED
    BY <2>1, <2>2 DEF TurnInv, Used, Target
<1>3. CASE AddConnection
  <2>1. PICK base \in Nat : \A r \in Used : Given(r) = base + (IF r < Target THEN 1 ELSE 0)
    BY DEF TurnInv
  <2>2. Target \in Used /\ Used \subseteq Reactors /\ Used' = Used
    BY <1>3, TargetUsed DEF AddConnection, Used
  <2>3. \A r \in Used : Given(r)' = Given(r) + (IF r = Target THEN 1 ELSE 0)
    <3>1. inbox' = [inbox EXCEPT ![Target] = @ + 1] /\ inbox \in [Reactors -> Nat]
      BY <1>3 DEF AddConnection, TypeOK
    <3>2. UNCHANGED <<active, closed>>
      BY <1>3 DEF AddConnection
    <3> SUFFICES ASSUME NEW r \in Used
                 PROVE  Given(r)' = Given(r) + (IF r = Target THEN 1 ELSE 0)
      OBVIOUS
    <3>3. r \in Reactors /\ Target \in Reactors
      BY <2>2
    <3>4. inbox[r] \in Nat /\ active[r] \in Nat /\ closed[r] \in Nat
      BY <3>3 DEF TypeOK
    <3>5. inbox'[r] = IF r = Target THEN inbox[r] + 1 ELSE inbox[r]
      BY <3>1, <3>3
    <3> QED
      BY <3>2, <3>4, <3>5 DEF Given
  <2>4. Target' = IF Target = numReactors - 1 THEN 0 ELSE Target + 1
    <3>1. numReactors \in Nat /\ numReactors >= 1 /\ nextIndex \in Nat
      BY ServerAssumption DEF TypeOK
    <3>2. CASE Multi
      BY <1>3, <3>1, <3>2, NextTurn DEF AddConnection, Target
    <3>3. CASE ~Multi
      BY <1>3, <2>2, <3>1, <3>3 DEF AddConnection, Target, Multi, Used
    <3> QED
      BY <3>2, <3>3
  <2>5. CASE Target = numReactors - 1
    <3>1. \A r \in Used : Given(r)' = (base + 1) + (IF r < Target' THEN 1 ELSE 0)
      <4> SUFFICES ASSUME NEW r \in Used
                   PROVE  Given(r)' = (base + 1) + (IF r < Target' THEN 1 ELSE 0)
        OBVIOUS
      <4>1. r \in Int /\ Target \in Int /\ numReactors \in Int /\ r <= numReactors - 1 /\ r >= 0
        BY <2>2 DEF Used, TypeOK
      <4> QED
        BY <2>1, <2>3, <2>4, <2>5, <4>1
    <3> QED
      BY <2>2, <3>1 DEF TurnInv
  <2>6. CASE Target # numReactors - 1
    <3>1. \A r \in Used : Given(r)' = base + (IF r < Target' THEN 1 ELSE 0)
      <4> SUFFICES ASSUME NEW r \in Used
                   PROVE  Given(r)' = base + (IF r < Target' THEN 1 ELSE 0)
        OBVIOUS
      <4>1. r \in Int /\ Target \in Int /\ numReactors \in Int /\ r <= numReactors - 1 /\ r >= 0
        BY <2>2 DEF Used, TypeOK
      <4> QED
        BY <2>1, <2>3, <2>4, <2>6, <4>1
    <3> QED
      BY <2>2, <3>1 DEF TurnInv
  <2> QED
    BY <2>5, <2>6
<1> QED
  BY <1>1, <1>2, <1>3, WhoCounts

-----------------------------------------------------------------------------
(* The counters.                                                            *)

(* Where a client is, and what the reactors hold.                           *)
ClientInv ==
    connected = backlog + refused + metrics.rejected + metrics.total
                  + InHand + NotCounted

SumInv ==
    /\ metrics.total + NotCounted = Sum(inbox) + Sum(active) + Sum(closed) + NotGiven
    /\ metrics.active = Sum(active)

(* A client is in one place.                                                *)
LEMMA ClientStep ==
  ASSUME TypeOK, ClientInv, [Next]_vars
  PROVE  ClientInv'
<1> USE DEF ClientInv, InHand, NotCounted, Admit, Multi, TypeOK, Dereference, vars,
           acceptVars, reactorVars, listenVars, stopVars
<1>1. CASE Start
  BY <1>1 DEF Start
<1>2. CASE ClientConnects
  BY <1>2 DEF ClientConnects
<1>3. CASE AcceptBegin
  BY <1>3 DEF AcceptBegin
<1>4. CASE AcceptTest
  BY <1>4 DEF AcceptTest
<1>5. CASE AcceptWait
  BY <1>5 DEF AcceptWait
<1>6. CASE EventsDone
  BY <1>6 DEF EventsDone
<1>7. CASE WakeEvent
  BY <1>7 DEF WakeEvent
<1>8. CASE ServerEvent
  BY <1>8 DEF ServerEvent
<1>9. CASE AcceptHead
  BY <1>9 DEF AcceptHead
<1>10. CASE AcceptGet
  BY <1>10 DEF AcceptGet
<1>11. CASE Accept4
  BY <1>11 DEF Accept4
<1>12. CASE Accept4Blocks
  BY <1>12 DEF Accept4Blocks
<1>13. CASE Accept4Fails
  BY <1>13 DEF Accept4Fails
<1>14. CASE CheckLimit
  <2>1. CASE WithinLimit
    BY <1>14, <2>1 DEF CheckLimit, listenVars
  <2>2. CASE ~WithinLimit
    <3>1. /\ metrics'.rejected = metrics.rejected + 1 /\ metrics'.total = metrics.total
          /\ UNCHANGED <<connected, backlog, refused>> /\ apc = "limit" /\ apc' = "head"
      BY <1>14, <2>2 DEF CheckLimit, listenVars
    <3> QED
      BY <3>1
  <2> QED
    BY <2>1, <2>2
<1>15. CASE AddConnection
  BY <1>15 DEF AddConnection
<1>29. CASE CountConnection
  BY <1>29 DEF CountConnection
<1>16. ASSUME NEW r \in Reactors, Register(r) PROVE ClientInv'
  BY <1>16 DEF Register
<1>17. ASSUME NEW r \in Reactors, CloseConnection(r) PROVE ClientInv'
  BY <1>17 DEF CloseConnection
<1>18. CASE ShutdownBegin
  BY <1>18 DEF ShutdownBegin
<1>19. CASE RequestStop
  BY <1>19 DEF RequestStop
<1>20. CASE ResetServerFd
  BY <1>20 DEF ResetServerFd
<1>21. CASE ShutListener
  BY <1>21 DEF ShutListener
<1>22. CASE CloseListener
  BY <1>22 DEF CloseListener
<1>23. CASE Wakeup
  BY <1>23 DEF Wakeup
<1>24. CASE JoinAcceptor
  BY <1>24 DEF JoinAcceptor
<1>25. ASSUME NEW r \in Reactors, StopReactor(r) PROVE ClientInv'
  BY <1>25 DEF StopReactor
<1>26. CASE ShutdownEnd
  BY <1>26 DEF ShutdownEnd
<1>27. CASE Terminated
  BY <1>27 DEF Terminated
<1>28. CASE UNCHANGED vars
  BY <1>28
<1> QED
  BY <1>1, <1>2, <1>3, <1>4, <1>5, <1>6, <1>7, <1>8, <1>9, <1>10, <1>11, <1>12, <1>13,
     <1>14, <1>15, <1>16, <1>17, <1>18, <1>19, <1>20, <1>21, <1>22, <1>23, <1>24, <1>25,
     <1>26, <1>27, <1>28, <1>29 DEF Next, Acceptor, Stopper

(* Whoever makes the reactors, and however many of them fail.               *)
LEMMA MadeType ==
  ASSUME TypeOK, MakeReactors
  PROVE  /\ errors' \in Nat
         /\ reactor' \in [Reactors -> {"none", "running", "failed", "stopped"}]
<1>1. PICK failed \in SUBSET Used :
        /\ errors' = errors + Cardinality(failed)
        /\ reactor' = [r \in Reactors |-> IF r \in failed THEN "failed"
                                          ELSE IF r \in Used THEN "running" ELSE "none"]
  BY DEF MakeReactors
<1>2. 0 \in Int /\ numReactors - 1 \in Int
  BY DEF TypeOK
<1>3. Cardinality(failed) \in Nat
  BY <1>2, FS_Interval, FS_Subset, FS_CardinalityType DEF Used
<1> QED
  BY <1>1, <1>3 DEF TypeOK

(* What the rest of the steps, that leave the metrics and the reactors'     *)
(* counts alone, keep.                                                      *)
quietVars == <<numReactors, inbox, active, closed, metrics>>

(* The hand-over is at the same place.                                      *)
SamePlace == NotGiven' = NotGiven /\ NotCounted' = NotCounted

LEMMA WhoMeasures ==
  ASSUME [Next]_vars
  PROVE  \/ UNCHANGED quietVars /\ SamePlace
         \/ CheckLimit \/ AddConnection \/ CountConnection
         \/ \E r \in Reactors : Register(r) \/ CloseConnection(r) \/ StopReactor(r)
  BY DEF Next, Acceptor, Stopper, vars, acceptVars, reactorVars, listenVars, stopVars,
         quietVars, Start, ClientConnects, AcceptBegin, AcceptTest, AcceptWait, EventsDone,
         WakeEvent, ServerEvent, AcceptHead, AcceptGet, Accept4, Accept4Blocks, Accept4Fails,
         ShutdownBegin, RequestStop, ResetServerFd, ShutListener, CloseListener, Wakeup,
         JoinAcceptor, ShutdownEnd, Terminated, SamePlace, NotGiven, NotCounted, Multi,
         Dereference

(* The metrics never fall below zero, and what they sum up is kept.         *)
MeasureType ==
    /\ numReactors \in 1 .. MaxReactors
    /\ inbox \in [Reactors -> Nat] /\ active \in [Reactors -> Nat]
    /\ closed \in [Reactors -> Nat]
    /\ metrics \in [active : Nat, total : Nat, rejected : Nat]

LEMMA MeasureStep ==
  ASSUME TypeOK, SumInv, [Next]_vars
  PROVE  MeasureType' /\ SumInv'
<1>0. /\ MeasureType /\ Sum(inbox) \in Nat /\ Sum(active) \in Nat /\ Sum(closed) \in Nat
      /\ NotGiven \in Nat /\ NotCounted \in Nat
  BY SumType DEF TypeOK, MeasureType, NotGiven, NotCounted
<1>1. CASE UNCHANGED quietVars /\ SamePlace
  BY <1>0, <1>1 DEF quietVars, MeasureType, SumInv, SamePlace
<1>2. CASE CheckLimit
  <2>1. UNCHANGED <<inbox, active, closed, numReactors>>
    BY <1>2 DEF CheckLimit, reactorVars
  <2>2. metrics' \in {metrics, [metrics EXCEPT !.rejected = @ + 1]}
    BY <1>2 DEF CheckLimit
  <2>3. SamePlace /\ NotGiven = 0 /\ NotCounted = 0
    BY <1>2 DEF CheckLimit, Admit, SamePlace, NotGiven, NotCounted, Multi, reactorVars
  <2> QED
    BY <1>0, <2>1, <2>2, <2>3 DEF MeasureType, SumInv, SamePlace
<1>3. CASE AddConnection
  <2>1. Target \in Reactors
    BY TargetUsed
  <2>2. UNCHANGED <<active, closed, numReactors>> /\ inbox' = [inbox EXCEPT ![Target] = @ + 1]
    BY <1>3 DEF AddConnection
  <2>3. /\ inbox' \in [Reactors -> Nat] /\ inbox'[Target] = inbox[Target] + 1
        /\ \A q \in Reactors : q # Target => inbox'[q] = inbox[q]
    BY <1>0, <2>1, <2>2 DEF MeasureType
  <2>4. Sum(inbox') = Sum(inbox) - inbox[Target] + inbox'[Target] /\ inbox[Target] \in Nat
    BY <1>0, <2>1, <2>3, SumStep DEF MeasureType
  <2>5. UNCHANGED metrics
    BY <1>3 DEF AddConnection
  <2>6. NotCounted = 0 /\ NotGiven' = 0 /\ NotGiven \in Nat /\ NotCounted' = 1 - NotGiven
    BY <1>3 DEF AddConnection, NotGiven, NotCounted, Multi
  <2> QED
    BY <1>0, <2>2, <2>3, <2>4, <2>5, <2>6 DEF MeasureType, SumInv
<1>7. CASE CountConnection
  <2>1. UNCHANGED <<inbox, active, closed, numReactors>>
    BY <1>7 DEF CountConnection, reactorVars
  <2>2. /\ metrics' \in [active : Nat, total : Nat, rejected : Nat]
        /\ metrics'.total = metrics.total + 1 /\ metrics'.active = metrics.active
    BY <1>0, <1>7 DEF CountConnection, MeasureType
  <2>3. NotGiven = 0 /\ NotCounted' = 0 /\ NotCounted \in Nat /\ NotGiven' = 1 - NotCounted
    BY <1>7 DEF CountConnection, NotGiven, NotCounted, Multi, reactorVars
  <2> QED
    BY <1>0, <2>1, <2>2, <2>3 DEF MeasureType, SumInv
<1>4. ASSUME NEW r \in Reactors, Register(r) PROVE MeasureType' /\ SumInv'
  <2>0. SamePlace
    BY <1>4 DEF Register, SamePlace, NotGiven, NotCounted, Multi, acceptVars
  <2>1. inbox' = [inbox EXCEPT ![r] = @ - 1] /\ inbox[r] > 0 /\ UNCHANGED numReactors
    BY <1>4 DEF Register
  <2>2. /\ inbox' \in [Reactors -> Nat] /\ inbox'[r] = inbox[r] - 1 /\ inbox[r] \in Nat
        /\ \A q \in Reactors : q # r => inbox'[q] = inbox[q]
    BY <1>0, <2>1 DEF MeasureType
  <2>3. Sum(inbox') = Sum(inbox) - inbox[r] + inbox'[r]
    BY <1>0, <2>2, SumStep DEF MeasureType
  <2>4. CASE /\ active' = [active EXCEPT ![r] = @ + 1]
             /\ metrics' = [metrics EXCEPT !.active = @ + 1]
             /\ UNCHANGED closed
    <3>1. /\ active' \in [Reactors -> Nat] /\ active'[r] = active[r] + 1 /\ active[r] \in Nat
          /\ \A q \in Reactors : q # r => active'[q] = active[q]
      BY <1>0, <2>4 DEF MeasureType
    <3>2. Sum(active') = Sum(active) - active[r] + active'[r]
      BY <1>0, <3>1, SumStep DEF MeasureType
    <3>3. /\ metrics' \in [active : Nat, total : Nat, rejected : Nat]
          /\ metrics'.total = metrics.total /\ metrics'.active = metrics.active + 1
      BY <1>0, <2>4 DEF MeasureType
    <3>4. UNCHANGED closed
      BY <2>4
    <3> QED
      BY <1>0, <2>0, <2>1, <2>2, <2>3, <3>1, <3>2, <3>3, <3>4 DEF MeasureType, SumInv, SamePlace
  <2>5. CASE closed' = [closed EXCEPT ![r] = @ + 1] /\ UNCHANGED <<active, metrics>>
    <3>1. /\ closed' \in [Reactors -> Nat] /\ closed'[r] = closed[r] + 1 /\ closed[r] \in Nat
          /\ \A q \in Reactors : q # r => closed'[q] = closed[q]
      BY <1>0, <2>5 DEF MeasureType
    <3>2. Sum(closed') = Sum(closed) - closed[r] + closed'[r]
      BY <1>0, <3>1, SumStep DEF MeasureType
    <3> QED
      BY <1>0, <2>0, <2>1, <2>2, <2>3, <2>5, <3>1, <3>2 DEF MeasureType, SumInv, SamePlace
  <2> QED
    BY <1>4, <2>4, <2>5 DEF Register
<1>5. ASSUME NEW r \in Reactors, CloseConnection(r) PROVE MeasureType' /\ SumInv'
  <2>0. SamePlace
    BY <1>5 DEF CloseConnection, SamePlace, NotGiven, NotCounted, Multi, acceptVars
  <2>1. /\ UNCHANGED <<inbox, numReactors>> /\ active[r] > 0
        /\ active' = [active EXCEPT ![r] = @ - 1] /\ closed' = [closed EXCEPT ![r] = @ + 1]
    BY <1>5 DEF CloseConnection
  <2>2. /\ active' \in [Reactors -> Nat] /\ active'[r] = active[r] - 1 /\ active[r] \in Nat
        /\ \A q \in Reactors : q # r => active'[q] = active[q]
    BY <1>0, <2>1 DEF MeasureType
  <2>3. /\ closed' \in [Reactors -> Nat] /\ closed'[r] = closed[r] + 1 /\ closed[r] \in Nat
        /\ \A q \in Reactors : q # r => closed'[q] = closed[q]
    BY <1>0, <2>1 DEF MeasureType
  <2>4. Sum(active') = Sum(active) - active[r] + active'[r] /\ active[r] <= Sum(active)
    BY <1>0, <2>2, SumStep DEF MeasureType
  <2>5. Sum(closed') = Sum(closed) - closed[r] + closed'[r]
    BY <1>0, <2>3, SumStep DEF MeasureType
  <2>6. metrics.active - 1 \in Nat
    BY <1>0, <2>1, <2>2, <2>4 DEF MeasureType, SumInv
  <2>7. /\ metrics' \in [active : Nat, total : Nat, rejected : Nat]
        /\ metrics'.total = metrics.total /\ metrics'.active = metrics.active - 1
    BY <1>0, <1>5, <2>6 DEF CloseConnection, MeasureType
  <2> QED
    BY <1>0, <2>0, <2>1, <2>2, <2>3, <2>4, <2>5, <2>7 DEF MeasureType, SumInv, SamePlace
<1>6. ASSUME NEW r \in Reactors, StopReactor(r) PROVE MeasureType' /\ SumInv'
  <2>0. SamePlace
    BY <1>6 DEF StopReactor, SamePlace, NotGiven, NotCounted, Multi, acceptVars
  <2>1. /\ UNCHANGED numReactors
        /\ inbox' = [inbox EXCEPT ![r] = 0] /\ active' = [active EXCEPT ![r] = 0]
        /\ closed' = [closed EXCEPT ![r] = @ + inbox[r] + active[r]]
    BY <1>6 DEF StopReactor
  <2>2. /\ inbox' \in [Reactors -> Nat] /\ inbox'[r] = 0 /\ inbox[r] \in Nat
        /\ \A q \in Reactors : q # r => inbox'[q] = inbox[q]
    BY <1>0, <2>1 DEF MeasureType
  <2>3. /\ active' \in [Reactors -> Nat] /\ active'[r] = 0 /\ active[r] \in Nat
        /\ \A q \in Reactors : q # r => active'[q] = active[q]
    BY <1>0, <2>1 DEF MeasureType
  <2>4. /\ closed' \in [Reactors -> Nat] /\ closed'[r] = closed[r] + inbox[r] + active[r]
        /\ closed[r] \in Nat
        /\ \A q \in Reactors : q # r => closed'[q] = closed[q]
    BY <1>0, <2>1 DEF MeasureType
  <2>5. Sum(inbox') = Sum(inbox) - inbox[r] + inbox'[r]
    BY <1>0, <2>2, SumStep DEF MeasureType
  <2>6. Sum(active') = Sum(active) - active[r] + active'[r] /\ active[r] <= Sum(active)
    BY <1>0, <2>3, SumStep DEF MeasureType
  <2>7. Sum(closed') = Sum(closed) - closed[r] + closed'[r]
    BY <1>0, <2>4, SumStep DEF MeasureType
  <2>8. metrics.active - active[r] \in Nat
    BY <1>0, <2>3, <2>6 DEF MeasureType, SumInv
  <2>9. /\ metrics' \in [active : Nat, total : Nat, rejected : Nat]
        /\ metrics'.total = metrics.total /\ metrics'.active = metrics.active - active[r]
    BY <1>0, <1>6, <2>8 DEF StopReactor, MeasureType
  <2> QED
    BY <1>0, <2>0, <2>1, <2>2, <2>3, <2>4, <2>5, <2>6, <2>7, <2>9 DEF MeasureType, SumInv, SamePlace
<1> QED
  BY <1>1, <1>2, <1>3, <1>4, <1>5, <1>6, <1>7, WhoMeasures

(* The rest of the state keeps its types.                                   *)
ControlType ==
    /\ running \in BOOLEAN /\ stop \in BOOLEAN /\ wake \in BOOLEAN
    /\ serverFd \in {"set", "null"} /\ listener \in {"listening", "down", "closed"}
    /\ apc \in {"none", "begin", "test", "wait", "event", "head", "get", "accept",
                "blocked", "woken", "limit", "add", "count", "exit", "crashed"}
    /\ spc \in {"idle", "stop", "reset", "shut", "close", "wake", "join", "reactors", "done"}

NumberType ==
    /\ backlog \in Nat /\ connected \in Nat /\ refused \in Nat /\ errors \in Nat
    /\ acceptCount \in 0 .. MaxAccept /\ nextIndex \in Nat
    /\ events \in Seq({"wake", "server"})
    /\ reactor \in [Reactors -> {"none", "running", "failed", "stopped"}]

(* Flags and stages.                                                        *)
LEMMA ControlStep ==
  ASSUME TypeOK, [Next]_vars
  PROVE  ControlType'
<1> USE DEF TypeOK, ControlType, Dereference, vars, acceptVars, reactorVars, listenVars,
           stopVars
<1>1. CASE Start
  BY <1>1 DEF Start
<1>2. CASE ClientConnects
  BY <1>2 DEF ClientConnects
<1>3. CASE AcceptBegin
  BY <1>3 DEF AcceptBegin
<1>4. CASE AcceptTest
  BY <1>4 DEF AcceptTest
<1>5. CASE AcceptWait
  BY <1>5 DEF AcceptWait
<1>6. CASE EventsDone
  BY <1>6 DEF EventsDone
<1>7. CASE WakeEvent
  BY <1>7 DEF WakeEvent
<1>8. CASE ServerEvent
  BY <1>8 DEF ServerEvent
<1>9. CASE AcceptHead
  BY <1>9 DEF AcceptHead
<1>10. CASE AcceptGet
  BY <1>10 DEF AcceptGet
<1>11. CASE Accept4
  BY <1>11 DEF Accept4
<1>12. CASE Accept4Blocks
  BY <1>12 DEF Accept4Blocks
<1>13. CASE Accept4Fails
  BY <1>13 DEF Accept4Fails
<1>14. CASE CheckLimit
  BY <1>14 DEF CheckLimit, Admit
<1>15. CASE AddConnection
  BY <1>15 DEF AddConnection
<1>29. CASE CountConnection
  BY <1>29 DEF CountConnection
<1>16. ASSUME NEW r \in Reactors, Register(r) PROVE ControlType'
  BY <1>16 DEF Register
<1>17. ASSUME NEW r \in Reactors, CloseConnection(r) PROVE ControlType'
  BY <1>17 DEF CloseConnection
<1>18. CASE ShutdownBegin
  BY <1>18 DEF ShutdownBegin
<1>19. CASE RequestStop
  BY <1>19 DEF RequestStop
<1>20. CASE ResetServerFd
  BY <1>20 DEF ResetServerFd
<1>21. CASE ShutListener
  BY <1>21 DEF ShutListener
<1>22. CASE CloseListener
  BY <1>22 DEF CloseListener
<1>23. CASE Wakeup
  BY <1>23 DEF Wakeup
<1>24. CASE JoinAcceptor
  BY <1>24 DEF JoinAcceptor
<1>25. ASSUME NEW r \in Reactors, StopReactor(r) PROVE ControlType'
  BY <1>25 DEF StopReactor
<1>26. CASE ShutdownEnd
  BY <1>26 DEF ShutdownEnd
<1>27. CASE Terminated
  BY <1>27 DEF Terminated
<1>28. CASE UNCHANGED vars
  BY <1>28
<1> QED
  BY <1>1, <1>2, <1>3, <1>4, <1>5, <1>6, <1>7, <1>8, <1>9, <1>10, <1>11, <1>12, <1>13,
     <1>14, <1>15, <1>16, <1>17, <1>18, <1>19, <1>20, <1>21, <1>22, <1>23, <1>24, <1>25,
     <1>26, <1>27, <1>28, <1>29 DEF Next, Acceptor, Stopper

(* Numbers, events and reactors.                                            *)
LEMMA NumberStep ==
  ASSUME TypeOK, LoopInv, [Next]_vars
  PROVE  NumberType'
<1> USE DEF TypeOK, LoopInv, InLoop, NumberType, vars, acceptVars, reactorVars, listenVars,
           stopVars
<1>1. CASE Start
  <2>1. UNCHANGED <<backlog, connected, refused, acceptCount, nextIndex, events>>
    BY <1>1 DEF Start
  <2>2. CASE MakeReactors
    BY <2>1, <2>2, MadeType
  <2>3. CASE UNCHANGED <<reactor, errors>>
    BY <2>1, <2>3
  <2> QED
    BY <1>1, <2>2, <2>3 DEF Start
<1>2. CASE ClientConnects
  BY ServerAssumption, <1>2 DEF ClientConnects
<1>3. CASE AcceptBegin
  <2>1. UNCHANGED <<backlog, connected, refused, acceptCount, nextIndex, events>>
    BY <1>3 DEF AcceptBegin
  <2>2. CASE MakeReactors
    BY <2>1, <2>2, MadeType
  <2>3. CASE UNCHANGED <<reactor, errors>>
    BY <2>1, <2>3
  <2> QED
    BY <1>3, <2>2, <2>3 DEF AcceptBegin
<1>4. CASE AcceptTest
  BY ServerAssumption, <1>4 DEF AcceptTest
<1>5. CASE AcceptWait
  <2> DEFINE E == {"wake", "server"}
  <2>1. events' \in Seq(E)
    <3>1. "wake" \in E /\ "server" \in E
      OBVIOUS
    <3> HIDE DEF E
    <3>2. /\ <<>> \in Seq(E) /\ <<"wake">> \in Seq(E) /\ <<"server">> \in Seq(E)
          /\ <<"wake", "server">> \in Seq(E) /\ <<"server", "wake">> \in Seq(E)
      BY <3>1
    <3> QED
      BY <1>5, <3>2 DEF AcceptWait
  <2> QED
    BY <1>5, <2>1 DEF AcceptWait, reactorVars, listenVars
<1>6. CASE EventsDone
  BY ServerAssumption, <1>6 DEF EventsDone
<1>7. CASE WakeEvent
  <2>1. events' \in Seq({"wake", "server"})
    BY <1>7 DEF WakeEvent
  <2> QED
    BY <1>7, <2>1 DEF WakeEvent, reactorVars, listenVars
<1>8. CASE ServerEvent
  <2>1. events' \in Seq({"wake", "server"})
    BY <1>8 DEF ServerEvent
  <2> QED
    BY <1>8, <2>1, ServerAssumption DEF ServerEvent, reactorVars, listenVars
<1>9. CASE AcceptHead
  BY ServerAssumption, <1>9 DEF AcceptHead
<1>10. CASE AcceptGet
  BY ServerAssumption, <1>10 DEF AcceptGet
<1>11. CASE Accept4
  BY ServerAssumption, <1>11 DEF Accept4
<1>12. CASE Accept4Blocks
  BY ServerAssumption, <1>12 DEF Accept4Blocks
<1>13. CASE Accept4Fails
  BY ServerAssumption, <1>13 DEF Accept4Fails
<1>14. CASE CheckLimit
  <2>1. /\ acceptCount' \in {acceptCount, acceptCount + 1} /\ acceptCount < MaxAccept
        /\ nextIndex' \in {nextIndex, nextIndex + 1}
        /\ UNCHANGED <<events, reactor, backlog, connected, refused, errors>>
    BY <1>14 DEF CheckLimit, reactorVars, listenVars
  <2> QED
    BY <2>1, ServerAssumption
<1>15. CASE AddConnection
  <2>1. /\ acceptCount' \in {acceptCount, acceptCount + 1} /\ acceptCount < MaxAccept
        /\ nextIndex' \in {nextIndex, nextIndex + 1}
        /\ UNCHANGED <<events, reactor, backlog, connected, refused, errors>>
    BY <1>15 DEF AddConnection, reactorVars, listenVars
  <2> QED
    BY <2>1, ServerAssumption
<1>29. CASE CountConnection
  BY ServerAssumption, <1>29 DEF CountConnection
<1>16. ASSUME NEW r \in Reactors, Register(r) PROVE NumberType'
  BY ServerAssumption, <1>16 DEF Register
<1>17. ASSUME NEW r \in Reactors, CloseConnection(r) PROVE NumberType'
  BY ServerAssumption, <1>17 DEF CloseConnection
<1>18. CASE ShutdownBegin
  BY ServerAssumption, <1>18 DEF ShutdownBegin
<1>19. CASE RequestStop
  BY ServerAssumption, <1>19 DEF RequestStop
<1>20. CASE ResetServerFd
  BY ServerAssumption, <1>20 DEF ResetServerFd
<1>21. CASE ShutListener
  BY ServerAssumption, <1>21 DEF ShutListener
<1>22. CASE CloseListener
  BY ServerAssumption, <1>22 DEF CloseListener
<1>23. CASE Wakeup
  BY ServerAssumption, <1>23 DEF Wakeup
<1>24. CASE JoinAcceptor
  BY ServerAssumption, <1>24 DEF JoinAcceptor
<1>25. ASSUME NEW r \in Reactors, StopReactor(r) PROVE NumberType'
  BY ServerAssumption, <1>25 DEF StopReactor
<1>26. CASE ShutdownEnd
  BY ServerAssumption, <1>26 DEF ShutdownEnd
<1>27. CASE Terminated
  BY ServerAssumption, <1>27 DEF Terminated
<1>28. CASE UNCHANGED vars
  BY ServerAssumption, <1>28
<1> QED
  BY <1>1, <1>2, <1>3, <1>4, <1>5, <1>6, <1>7, <1>8, <1>9, <1>10, <1>11, <1>12, <1>13,
     <1>14, <1>15, <1>16, <1>17, <1>18, <1>19, <1>20, <1>21, <1>22, <1>23, <1>24, <1>25,
     <1>26, <1>27, <1>28, <1>29 DEF Next, Acceptor, Stopper

(* The types are kept.                                                      *)
LEMMA TypeStep ==
  ASSUME TypeOK, LoopInv, SumInv, [Next]_vars
  PROVE  TypeOK' /\ SumInv'
  BY MeasureStep, ControlStep, NumberStep DEF TypeOK, MeasureType, ControlType, NumberType

-----------------------------------------------------------------------------
(* The inductive invariant of the server.                                   *)
ServerInv ==
    TypeOK /\ StageInv /\ LoopInv /\ HandoverInv /\ TurnInv /\ ClientInv /\ SumInv

(* A new server satisfies it.                                               *)
LEMMA InitServer == Init => ServerInv
<1> SUFFICES ASSUME Init PROVE ServerInv
  OBVIOUS
<1>1. TypeOK
  <2>1. MeasureType
    BY DEF Init, MeasureType
  <2>2. ControlType
    BY DEF Init, ControlType
  <2>3. NumberType
    BY ServerAssumption DEF Init, NumberType
  <2> QED
    BY <2>1, <2>2, <2>3 DEF TypeOK, MeasureType, ControlType, NumberType
<1>2. StageInv /\ LoopInv
  BY DEF Init, StageInv, LoopInv, InLoop
<1>3. HandoverInv
  BY DEF Init, HandoverInv, ReactorsThere, NothingToStopped
<1>4. TurnInv
  <2>1. Target \in Used /\ Used \subseteq Reactors
    BY <1>1, TargetUsed
  <2>2. Target = 0
    BY <1>1 DEF Init, Target, TypeOK
  <2>3. \A r \in Used : Given(r) = 0 /\ ~(r < Target)
    BY <2>1, <2>2 DEF Init, Given, Used
  <2> QED
    BY <2>3 DEF TurnInv
<1>5. ClientInv /\ SumInv
  BY SumZero DEF Init, ClientInv, SumInv, InHand, NotGiven, NotCounted, Admit
<1> QED
  BY <1>1, <1>2, <1>3, <1>4, <1>5 DEF ServerInv

(* The invariant holds in every reachable state.                            *)
THEOREM ServerInvariant == Spec => []ServerInv
<1>1. ServerInv /\ [Next]_vars => ServerInv'
  BY TypeStep, StageStep, LoopStep, HandoverStep, TurnStep, ClientStep DEF ServerInv
<1> QED
  BY InitServer, <1>1, PTL DEF Spec

(* Every client is accounted for, and active_connections_ is what the       *)
(* reactors' maps hold, never below zero, for any number of reactors,       *)
(* clients and failed calls and with any limit.                             *)
THEOREM ClientsAccounted == Spec => []Accounting
<1>1. ServerInv => Accounting
  BY DEF ServerInv, Accounting, ClientInv, SumInv
<1> QED
  BY ServerInvariant, <1>1, PTL

(* Round robin by next_reactor_index_: no reactor is ever given two         *)
(* connections more than another, whatever was rejected or failed.          *)
THEOREM RoundRobin == Spec => []Balanced
<1>1. TypeOK /\ TurnInv => Balanced
  BY TargetUsed DEF TurnInv, Balanced
<1> QED
  BY ServerInvariant, <1>1, PTL DEF ServerInv

(* The accept thread never hands a connection to a reactor that shutdown()  *)
(* has stopped or that start() has not made yet.                            *)
THEOREM StoppedGetNothing == Spec => []NothingToStopped
<1>1. ServerInv => NothingToStopped
  BY DEF ServerInv, HandoverInv
<1> QED
  BY ServerInvariant, <1>1, PTL
=============================================================================
