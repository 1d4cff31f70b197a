----------------------------- MODULE TcpServer -----------------------------
(***************************************************************************)
(* TcpServer: the accept thread, in single and in multi reactor mode, the  *)
(* thread that calls shutdown(), and what they share: running_, the stop   *)
(* source, server_fd_, event_fd_, the reactors and the metrics.            *)
(*                                                                         *)
(* A reactor is reduced to how many connections wait in its functor queue  *)
(* and how many its map holds; SubReactor.tla has the rest.  The listening *)
(* socket is a blocking one, so accept4 on an empty backlog blocks.        *)
(***************************************************************************)
EXTENDS Integers, Sequences, FiniteSets

CONSTANTS
    MaxReactors,  \* bound: reactors of the server
    Limit,        \* max_connections_, 0 for none
    MaxAccept,    \* MAX_ACCEPT_PER_LOOP
    MaxClients,   \* bound: clients that connect
    MaxErrors     \* bound: calls that fail for want of a resource

ASSUME ServerAssumption ==
    /\ MaxReactors \in Nat \ {0} /\ MaxAccept \in Nat \ {0}
    /\ Limit \in Nat /\ MaxClients \in Nat /\ MaxErrors \in Nat

VARIABLES
    numReactors,  \* num_reactors_, as the server was made; single mode at 1
    running,      \* running_
    stop,         \* stop_requested()
    serverFd,     \* the pointer server_fd_
    listener,     \* the socket behind it: listening, shut down, closed
    wake,         \* event_fd_ is readable
    backlog,      \* connections the kernel has completed
    apc,          \* the accept thread
    events,       \* what epoll_wait reported and is still to be handled
    acceptCount,  \* accept_count
    nextIndex,    \* next_reactor_index_
    reactor,      \* sub_reactors_[r]: not there, running, failed, stopped
    inbox,        \* connections in the functor queue of a reactor
    active,       \* connections in its map
    metrics,      \* active_, total_ and rejected_connections
    spc,          \* shutdown()
    connected, refused, errors, closed  \* history: clients that connected, that
                  \* the kernel turned away, failed calls, ended per reactor

acceptVars == <<apc, events, acceptCount, nextIndex>>
reactorVars == <<numReactors, reactor, inbox, active, closed>>
listenVars == <<serverFd, listener, backlog, connected, refused, errors>>
stopVars == <<running, stop, spc>>
vars == <<acceptVars, reactorVars, listenVars, stopVars, wake, metrics>>

\* The process is there: a crash of the accept thread ends all of it.
Up == apc # "crashed"

Reactors == 0 .. MaxReactors - 1
Used == 0 .. numReactors - 1
Multi == numReactors > 1

(* The types of the state.                                                  *)
TypeOK ==
    /\ numReactors \in 1 .. MaxReactors
    /\ running \in BOOLEAN /\ stop \in BOOLEAN /\ wake \in BOOLEAN
    /\ serverFd \in {"set", "null"} /\ listener \in {"listening", "down", "closed"}
    /\ backlog \in Nat /\ connected \in Nat /\ refused \in Nat /\ errors \in Nat
    /\ apc \in {"none", "begin", "test", "wait", "event", "head", "get", "accept",
                "blocked", "woken", "limit", "add", "count", "exit", "crashed"}
    /\ events \in Seq({"wake", "server"})
    /\ acceptCount \in 0 .. MaxAccept /\ nextIndex \in Nat
    /\ reactor \in [Reactors -> {"none", "running", "failed", "stopped"}]
    /\ inbox \in [Reactors -> Nat] /\ active \in [Reactors -> Nat]
    /\ closed \in [Reactors -> Nat]
    /\ metrics \in [active : Nat, total : Nat, rejected : Nat]
    /\ spc \in {"idle", "stop", "reset", "shut", "close", "wake", "join", "reactors", "done"}

Init ==
    /\ numReactors \in 1 .. MaxReactors
    /\ running = FALSE /\ stop = FALSE
    /\ serverFd = "set" /\ listener = "listening" /\ wake = FALSE
    /\ backlog = 0 /\ connected = 0 /\ refused = 0 /\ errors = 0
    /\ apc = "none" /\ events = <<>> /\ acceptCount = 0 /\ nextIndex = 0
    /\ reactor = [r \in Reactors |-> "none"]
    /\ inbox = [r \in Reactors |-> 0] /\ active = [r \in Reactors |-> 0]
    /\ closed = [r \in Reactors |-> 0]
    /\ metrics = [active |-> 0, total |-> 0, rejected |-> 0]
    /\ spc = "idle"

\* The reactors are made.  A constructor that fails for want of a descriptor
\* swallows its exception and leaves a reactor without a thread.
MakeReactors ==
    \E failed \in SUBSET Used :
        /\ errors' = errors + Cardinality(failed) /\ errors' <= MaxErrors
        /\ reactor' = [r \in Reactors |-> IF r \in failed THEN "failed"
                                          ELSE IF r \in Used THEN "running" ELSE "none"]

\* start: in multi mode the reactors are there before the accept thread.
Start ==
    /\ apc = "none" /\ spc = "idle"
    /\ running' = TRUE
    /\ IF Multi THEN MakeReactors ELSE UNCHANGED <<reactor, errors>>
    /\ apc' = "begin"
    /\ UNCHANGED <<events, acceptCount, nextIndex, numReactors, inbox, active, closed,
                   serverFd, listener, backlog, connected, refused, stop, spc, wake, metrics>>

-----------------------------------------------------------------------------
(* The accept thread: start_single_epoll and start_multi_epoll.             *)

\* The thread dereferences server_fd_.  shutdown() may have reset it, and a
\* null unique_ptr is dereferenced.
Dereference(pc) == apc' = IF serverFd = "null" THEN "crashed" ELSE pc

\* In single mode the thread makes the reactor; then the epoll set.
AcceptBegin ==
    /\ apc = "begin"
    /\ IF Multi THEN UNCHANGED <<reactor, errors>> ELSE MakeReactors
    /\ Dereference("test")
    /\ UNCHANGED <<events, acceptCount, nextIndex, numReactors, inbox, active, closed,
                   serverFd, listener, backlog, connected, refused, stopVars, wake, metrics>>

AcceptTest ==
    /\ apc = "test"
    /\ apc' = IF ~stop /\ running THEN "wait" ELSE "exit"
    /\ UNCHANGED <<events, acceptCount, nextIndex, reactorVars, listenVars, stopVars,
                   wake, metrics>>

\* The epoll set of the accept thread is level triggered.
Reported ==
    (IF wake THEN {"wake"} ELSE {}) \cup
    (IF listener = "down" \/ (listener = "listening" /\ backlog > 0) THEN {"server"} ELSE {})

\* epoll_wait: all that is ready, in any order.  In multi mode it also returns
\* after 100 ms with nothing; in single mode it waits for as long as it takes.
AcceptWait ==
    /\ apc = "wait" /\ (Reported # {} \/ Multi)
    /\ events' \in {s \in {<<>>, <<"wake">>, <<"server">>, <<"wake", "server">>,
                           <<"server", "wake">>} :
                      {s[i] : i \in DOMAIN s} = Reported}
    /\ apc' = "event"
    /\ UNCHANGED <<acceptCount, nextIndex, reactorVars, listenVars, stopVars, wake, metrics>>

EventsDone ==
    /\ apc = "event" /\ events = <<>>
    /\ apc' = "test"
    /\ UNCHANGED <<events, acceptCount, nextIndex, reactorVars, listenVars, stopVars,
                   wake, metrics>>

WakeEvent ==
    /\ apc = "event" /\ events # <<>> /\ Head(events) = "wake"
    /\ wake' = FALSE
    /\ events' = Tail(events)
    /\ UNCHANGED <<apc, acceptCount, nextIndex, reactorVars, listenVars, stopVars, metrics>>

ServerEventMutant ==
    /\ apc = "event" /\ events # <<>> /\ Head(events) = "server"
    /\ Dereference("head")
    /\ events' = IF Multi THEN <<>> ELSE Tail(events)
    /\ UNCHANGED <<acceptCount, nextIndex, reactorVars, listenVars, stopVars, wake, metrics>>

\* fd == server_fd_->get().  In multi mode the rest of the events is dropped.
ServerEvent ==
    /\ apc = "event" /\ events # <<>> /\ Head(events) = "server"
    /\ Dereference("head")
    /\ acceptCount' = 0
    /\ events' = IF Multi THEN <<>> ELSE Tail(events)
    /\ UNCHANGED <<nextIndex, reactorVars, listenVars, stopVars, wake, metrics>>

AcceptHead ==
    /\ apc = "head"
    /\ apc' = IF acceptCount < MaxAccept /\ ~stop /\ running THEN "get" ELSE "event"
    /\ UNCHANGED <<events, acceptCount, nextIndex, reactorVars, listenVars, stopVars,
                   wake, metrics>>

\* The argument of accept4, server_fd_->get().
AcceptGet ==
    /\ apc = "get"
    /\ Dereference("accept")
    /\ UNCHANGED <<events, acceptCount, nextIndex, reactorVars, listenVars, stopVars,
                   wake, metrics>>

\* accept4 finds a connection, at once or after it has blocked.
Accept4 ==
    /\ apc \in {"accept", "blocked"} /\ listener = "listening" /\ backlog > 0
    /\ backlog' = backlog - 1
    /\ apc' = "limit"
    /\ UNCHANGED <<events, acceptCount, nextIndex, reactorVars, serverFd, listener,
                   connected, refused, errors, stopVars, wake, metrics>>

Accept4Blocks ==
    /\ apc = "accept" /\ listener = "listening" /\ backlog = 0
    /\ apc' = "blocked"
    /\ UNCHANGED <<events, acceptCount, nextIndex, reactorVars, listenVars, stopVars,
                   wake, metrics>>

\* accept4 fails: the socket is not a listening one any more, or there is no
\* descriptor left.  Either way the loop is left.
Accept4Fails ==
    /\ \/ /\ apc = "woken" \/ (apc = "accept" /\ listener # "listening")
          /\ UNCHANGED errors
       \/ /\ apc = "accept" /\ listener = "listening" /\ backlog > 0
          /\ errors < MaxErrors
          /\ errors' = errors + 1
    /\ apc' = "event"
    /\ UNCHANGED <<events, acceptCount, nextIndex, reactorVars, serverFd, listener,
                   backlog, connected, refused, stopVars, wake, metrics>>

WithinLimit == Limit = 0 \/ metrics.active < Limit

\* What follows within the limit: start_multi_epoll hands the connection over
\* and counts it then, handle_accept counts it and hands it over then.
Admit == IF Multi THEN "add" ELSE "count"

CheckLimitMutant ==
    /\ apc = "limit"
    /\ IF WithinLimit
       THEN UNCHANGED <<acceptCount, metrics>>
       ELSE /\ metrics' = [metrics EXCEPT !.rejected = @ + 1]
            /\ acceptCount' = acceptCount + 1
    /\ apc' = Admit
    /\ UNCHANGED <<events, nextIndex, reactorVars, listenVars, stopVars, wake>>

\* check_connection_limit: the 503, the close and the count of a rejection.
CheckLimit ==
    /\ apc = "limit"
    /\ IF WithinLimit
       THEN apc' = Admit /\ UNCHANGED <<acceptCount, metrics>>
       ELSE /\ metrics' = [metrics EXCEPT !.rejected = @ + 1]
            /\ acceptCount' = acceptCount + 1
            /\ apc' = "head"
    /\ UNCHANGED <<events, nextIndex, reactorVars, listenVars, stopVars, wake>>

TargetMutant == acceptCount % numReactors
Target == nextIndex % numReactors

\* The connection goes to the next reactor, whose thread may have it in its map
\* before anything else happens here; single mode has only the one.
AddConnection ==
    /\ apc = "add"
    /\ inbox' = [inbox EXCEPT ![Target] = @ + 1]
    /\ nextIndex' = IF Multi THEN nextIndex + 1 ELSE nextIndex
    /\ acceptCount' = acceptCount + 1
    /\ apc' = IF Multi THEN "count" ELSE "head"
    /\ UNCHANGED <<events, numReactors, reactor, active, closed, listenVars, stopVars,
                   wake, metrics>>

CountConnection ==
    /\ apc = "count"
    /\ metrics' = [metrics EXCEPT !.total = @ + 1]
    /\ apc' = IF Multi THEN "head" ELSE "add"
    /\ UNCHANGED <<events, acceptCount, nextIndex, reactorVars, listenVars, stopVars, wake>>

Acceptor ==
    \/ AcceptBegin \/ AcceptTest \/ AcceptWait \/ EventsDone \/ WakeEvent \/ ServerEvent
    \/ AcceptHead \/ AcceptGet \/ Accept4 \/ Accept4Blocks \/ Accept4Fails
    \/ CheckLimit \/ AddConnection \/ CountConnection

-----------------------------------------------------------------------------
(* The reactors: the add functor, and the end of a connection.              *)

\* Only a reactor with a thread runs what is in its queue.
Register(r) ==
    /\ Up /\ reactor[r] = "running" /\ inbox[r] > 0
    /\ inbox' = [inbox EXCEPT ![r] = @ - 1]
    /\ \/ /\ active' = [active EXCEPT ![r] = @ + 1]
          /\ metrics' = [metrics EXCEPT !.active = @ + 1]
          /\ UNCHANGED closed
       \/ /\ closed' = [closed EXCEPT ![r] = @ + 1]   \* epoll_add fails, or its
          /\ UNCHANGED <<active, metrics>>            \* descriptor is in the map
    /\ UNCHANGED <<acceptVars, numReactors, reactor, listenVars, stopVars, wake>>

CloseConnection(r) ==
    /\ Up /\ reactor[r] = "running" /\ active[r] > 0
    /\ active' = [active EXCEPT ![r] = @ - 1]
    /\ metrics' = [metrics EXCEPT !.active = @ - 1]
    /\ closed' = [closed EXCEPT ![r] = @ + 1]
    /\ UNCHANGED <<acceptVars, numReactors, reactor, inbox, listenVars, stopVars, wake>>

-----------------------------------------------------------------------------
(* shutdown(), one step for each thing another thread can see.              *)

ShutdownBegin ==
    /\ Up /\ spc = "idle" /\ running
    /\ running' = FALSE
    /\ spc' = "stop"
    /\ UNCHANGED <<acceptVars, reactorVars, listenVars, stop, wake, metrics>>

RequestStop ==
    /\ Up /\ spc = "stop"
    /\ stop' = TRUE
    /\ spc' = "reset"
    /\ UNCHANGED <<acceptVars, reactorVars, listenVars, running, wake, metrics>>

\* server_fd_.reset(): the pointer is null before the deleter runs.
ResetServerFd ==
    /\ Up /\ spc = "reset"
    /\ serverFd' = "null"
    /\ spc' = "shut"
    /\ UNCHANGED <<acceptVars, reactorVars, listener, backlog, connected, refused, errors,
                   running, stop, wake, metrics>>

\* The deleter's ::shutdown: the backlog is reset, a blocked accept4 returns.
ShutListener ==
    /\ Up /\ spc = "shut"
    /\ listener' = "down" /\ backlog' = 0 /\ refused' = refused + backlog
    /\ apc' = IF apc = "blocked" THEN "woken" ELSE apc
    /\ spc' = "close"
    /\ UNCHANGED <<events, acceptCount, nextIndex, reactorVars, serverFd, connected, errors,
                   running, stop, wake, metrics>>

CloseListener ==
    /\ Up /\ spc = "close"
    /\ listener' = "closed"
    /\ spc' = "wake"
    /\ UNCHANGED <<acceptVars, reactorVars, serverFd, backlog, connected, refused, errors,
                   running, stop, wake, metrics>>

WakeupMutant ==
    /\ Up /\ spc = "wake"
    /\ spc' = "join"
    /\ UNCHANGED <<acceptVars, reactorVars, listenVars, running, stop, wake, metrics>>

\* wakeup(): event_fd_; the reactors' eventfds only make them look.
Wakeup ==
    /\ Up /\ spc = "wake"
    /\ wake' = TRUE
    /\ spc' = "join"
    /\ UNCHANGED <<acceptVars, reactorVars, listenVars, running, stop, metrics>>

JoinAcceptorMutant ==
    /\ Up /\ spc = "join"
    /\ spc' = "reactors"
    /\ UNCHANGED <<acceptVars, reactorVars, listenVars, running, stop, wake, metrics>>

JoinAcceptor ==
    /\ spc = "join" /\ apc = "exit"
    /\ spc' = "reactors"
    /\ UNCHANGED <<acceptVars, reactorVars, listenVars, running, stop, wake, metrics>>

Made == {"running", "failed"}

\* The connections in the map and in the queue end with their reactor.
StopReactor(r) ==
    /\ Up /\ spc = "reactors" /\ reactor[r] \in Made
    /\ \A q \in Reactors : q < r => reactor[q] \notin Made
    /\ reactor' = [reactor EXCEPT ![r] = "stopped"]
    /\ inbox' = [inbox EXCEPT ![r] = 0]
    /\ active' = [active EXCEPT ![r] = 0]
    /\ closed' = [closed EXCEPT ![r] = @ + inbox[r] + active[r]]
    /\ metrics' = [metrics EXCEPT !.active = @ - active[r]]
    /\ UNCHANGED <<acceptVars, numReactors, listenVars, stopVars, wake>>

\* sub_reactors_.clear(), worker_pool_.reset() and the close of event_fd_.
ShutdownEnd ==
    /\ Up /\ spc = "reactors" /\ \A r \in Reactors : reactor[r] \notin Made
    /\ spc' = "done"
    /\ wake' = FALSE
    /\ UNCHANGED <<acceptVars, reactorVars, listenVars, running, stop, metrics>>

Stopper ==
    \/ RequestStop \/ ResetServerFd \/ ShutListener \/ CloseListener \/ Wakeup
    \/ JoinAcceptor \/ (\E r \in Reactors : StopReactor(r)) \/ ShutdownEnd

-----------------------------------------------------------------------------
ClientConnects ==
    /\ Up /\ listener = "listening" /\ connected < MaxClients
    /\ connected' = connected + 1
    /\ backlog' = backlog + 1
    /\ UNCHANGED <<acceptVars, reactorVars, serverFd, listener, refused, errors, stopVars,
                   wake, metrics>>

\* After shutdown, or once the process is gone with its accept thread.
Terminated == (spc = "done" \/ ~Up) /\ UNCHANGED vars

Next ==
    \/ Start \/ ClientConnects \/ Acceptor
    \/ \E r \in Reactors : Register(r) \/ CloseConnection(r)
    \/ ShutdownBegin \/ Stopper
    \/ Terminated

Spec == Init /\ [][Next]_vars

(* The threads run on: an accept thread that is not blocked, the shutdown   *)
(* once it is called, a reactor with something in its queue.                *)
Fairness ==
    /\ WF_vars(Acceptor)
    /\ WF_vars(Stopper)
    /\ \A r \in Reactors : WF_vars(Register(r))
FairSpec == Spec /\ Fairness

-----------------------------------------------------------------------------
(* Safety.                                                                  *)

(* What f counts in all the reactors: connections one by one, as pairs of a *)
(* reactor and a number up to its count.                                    *)
Units(f) == UNION {{r} \X (1 .. f[r]) : r \in Reactors}
Sum(f) == Cardinality(Units(f))

(* The connection in the accept thread's hands: neither counted nor given   *)
(* to a reactor yet, counted and not given, given and not counted.          *)
InHand == IF apc \in {"limit", Admit} THEN 1 ELSE 0
NotGiven == IF ~Multi /\ apc = "add" THEN 1 ELSE 0
NotCounted == IF Multi /\ apc = "count" THEN 1 ELSE 0

(* The counters are of their types, active_connections never below zero,    *)
(* and every client is accounted for: it waits, is in the accept thread's   *)
(* hands, was refused by the kernel, or is in exactly one of the counters   *)
(* rejected_ and total_connections.  total_connections is what the reactors *)
(* hold, have queued or have closed, give or take the one connection that   *)
(* the accept thread has counted and not handed over, or, in multi mode,    *)
(* handed over and not counted: the reactor may have closed that one        *)
(* already, but the counters never drift further apart.                     *)
Accounting ==
    /\ TypeOK
    /\ connected = backlog + refused + metrics.rejected + metrics.total
                     + InHand + NotCounted
    /\ metrics.total + NotCounted = Sum(inbox) + Sum(active) + Sum(closed) + NotGiven
    /\ metrics.active = Sum(active)

Given(r) == inbox[r] + active[r] + closed[r]

(* Round robin: whatever is rejected or fails in between, no reactor has    *)
(* been given two connections more than another.                            *)
Balanced == \A r, q \in Used : Given(r) <= Given(q) + 1

(* A reactor that is not there yet, or not there any more, is given         *)
(* nothing: the accept thread has ended before the first reactor stops.     *)
NothingToStopped ==
    \A r \in Reactors : reactor[r] \notin Made => inbox[r] = 0 /\ active[r] = 0

(* "Trigger shutdown from anywhere (thread-safe)" (tcp_server.cpp:342): the  *)
(* accept thread never meets the null server_fd_ that shutdown() leaves      *)
(* behind before it has joined that thread.                                  *)
ShutdownIsSafe == Up

-----------------------------------------------------------------------------
(* Liveness.                                                                *)

(* A client that has connected does not wait for ever, however many come at *)
(* once and although an accept may fail, unless the process is gone.        *)
BacklogDrains == backlog > 0 /\ apc # "none" ~> (backlog = 0 \/ ~Up)

(* shutdown() returns, wherever the accept thread was when it was called    *)
(* and unless that thread took the process down.                            *)
ShutdownReturns == spc # "idle" ~> (spc = "done" \/ ~Up)
=============================================================================
