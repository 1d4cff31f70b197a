----------------------------- MODULE SubReactor -----------------------------
(***************************************************************************)
(* One SubReactor: the epoll loop that owns a set of connections, the      *)
(* functor queue through which other threads reach it, and the life of     *)
(* every connection it is given, from add_connection to the last close.    *)
(*                                                                         *)
(* Threads: the reactor (run), the acceptor (add_connection), the workers  *)
(* of the pool (the task lambdas of handle_read) and the thread that shuts *)
(* the server down.  The kernel's part (sockets, epoll, eventfd, timerfd)  *)
(* and the clients are modelled from how the code uses them.               *)
(*                                                                         *)
(* Data is abstracted: a message is its kind, the output buffer is the     *)
(* number of replies in it, time is what the code asks about it (which     *)
(* deadlines are past, which connections were active since).               *)
(***************************************************************************)
EXTENDS Integers, Sequences, FiniteSets

CONSTANTS
    Conns,        \* connection objects (EpollConnection), one per client
    Fds,          \* descriptor numbers the kernel hands out and reuses
    Workers,      \* threads of the WorkerPool, {} when num_workers = 0
    IdleEnabled,  \* is_idle_timeout_enabled()
    Kinds,        \* the kinds of message clients send
    MaxMsgs,      \* bound: a message of kind k is among the first MaxMsgs[k]
    MaxBuffer,    \* MAX_BUFFER_SIZE, in replies
    MaxPipeline,  \* MAX_HTTP_PIPELINE
    WakeFd,       \* wake_fd_, the eventfd
    TimerFd,      \* timer_fd_
    NoConn, NoFd  \* "no entry" and "fd == -1"

ASSUME ConstAssumption ==
    /\ IsFiniteSet(Fds)
    /\ IdleEnabled \in BOOLEAN
    /\ Kinds \subseteq {"keep", "close", "bad", "line"}
    /\ MaxMsgs \in [Kinds -> Nat] /\ MaxBuffer \in Nat \ {0} /\ MaxPipeline \in Nat \ {0}
    /\ NoConn \notin Conns /\ NoFd \notin Fds
    /\ WakeFd \notin Fds /\ TimerFd \notin Fds /\ WakeFd # TimerFd

VARIABLES
    \* --- kernel and clients
    fdOf,         \* the descriptor number under which its socket is open
    interest,     \* its epoll registration: EPOLLIN, or EPOLLIN | EPOLLOUT
    armed,        \* connections on the epoll ready list (edge triggered)
    readable,     \* which of wake_fd_ and timer_fd_ are readable
    inq,          \* received and not yet read
    peer,         \* what the client did to the stream
    sndFull,      \* connections whose socket's send buffer is full
    msgs,         \* messages the clients have sent
    \* --- connection objects
    sock,         \* get_fd(): the number in socket_, NoFd once it is reset
    closing,      \* shutdown() between its close and socket_.reset(): "clear"
                  \* when the buffers are cleared next, "locked" when they are not
    cut,          \* connections whose socket was closed for another
    accepted, running, outbuf, touched,
    proto,        \* protocol_determined_ and the mode
    \* --- reactor state
    connections, timeouts, due, pending, active,
    \* --- reactor thread
    rpc, batch, needPending, cur, functors, dropped,
    \* --- worker pool
    tasks, wpc, wconn, wkind, wfd,
    \* --- acceptor and shutdown threads
    apc, spc

sockVars    == <<sock, closing, cut>>
kernelVars  == <<fdOf, interest, armed, sockVars>>
clientVars  == <<inq, peer, sndFull, msgs>>
connVars    == <<accepted, running, outbuf, touched, proto>>
stateVars   == <<connections, timeouts, due, active>>
threadVars  == <<rpc, batch, needPending, cur, functors, dropped>>
workerVars  == <<tasks, wpc, wconn, wkind, wfd>>
serverVars  == <<apc, spc>>
vars == <<kernelVars, readable, clientVars, connVars, stateVars, pending,
          threadVars, workerVars, serverVars>>

Functor == [op : {"add"}, fd : Fds, conn : Conns]
           \cup [op : {"enable"}, fd : Fds, conn : {NoConn}]
Event == [fd : Fds \cup {WakeFd, TimerFd}, mask : SUBSET {"in", "out", "hup"}]
Task == [conn : Conns, kind : {"keep", "close"}]

KernelType ==
    /\ fdOf \in [Conns -> Fds \cup {NoFd}]
    /\ interest \in [Conns -> {"none", "in", "inout"}]
    /\ armed \subseteq Conns
    /\ readable \subseteq {WakeFd, TimerFd}
    /\ sock \in [Conns -> Fds \cup {NoFd}]
    /\ closing \in [Conns -> {"no", "clear", "locked"}]
    /\ cut \subseteq Conns
ClientType ==
    /\ inq \in [Conns -> Seq(Kinds)]
    /\ peer \in [Conns -> {"open", "fin", "rst"}]
    /\ sndFull \subseteq Conns
    /\ msgs \in Nat
ConnType ==
    /\ accepted \subseteq Conns
    /\ running \subseteq Conns
    /\ outbuf \in [Conns -> 0..MaxBuffer]
    /\ touched \subseteq Conns
    /\ proto \in [Conns -> {"none", "http", "line"}]
MapType ==
    /\ connections \in [Fds -> Conns \cup {NoConn}]
    /\ timeouts \in [Fds -> Nat]
    /\ due \subseteq Fds
    /\ active \in Int
    /\ pending \in Seq(Functor)
ReactorType ==
    /\ rpc \in {"loop", "wait", "dispatch", "read", "write", "reap",
                "functors", "cleanup", "done"}
    /\ batch \subseteq Event
    /\ cur \in [fd : Fds \cup {NoFd}, conn : Conns \cup {NoConn},
               mask : SUBSET {"in", "out", "hup"}]
    /\ functors \in Seq(Functor)
    /\ dropped \subseteq Conns
WorkerType ==
    /\ tasks \in Seq(Task)
    /\ wpc \in [Workers -> {"idle", "send", "push", "wake", "close", "closing",
                            "reset", "crashed"}]
    /\ wconn \in [Workers -> Conns \cup {NoConn}]
    /\ wkind \in [Workers -> {"keep", "close"}]
    /\ wfd \in [Workers -> Fds \cup {NoFd}]
ServerType ==
    /\ apc \in {"idle", "wake"}
    /\ spc \in {"run", "stop", "join", "joined", "destroyed"}

(* The types, part by part; outbuf never exceeds MAX_BUFFER_SIZE.           *)
TypeOK ==
    /\ KernelType /\ ClientType /\ ConnType /\ MapType
    /\ ReactorType /\ WorkerType /\ ServerType
    /\ needPending \in BOOLEAN

NoCur == [fd |-> NoFd, conn |-> NoConn, mask |-> {}]

Init ==
    /\ fdOf = [c \in Conns |-> NoFd]
    /\ interest = [c \in Conns |-> "none"]
    /\ armed = {} /\ readable = {}
    /\ sock = [c \in Conns |-> NoFd]
    /\ closing = [c \in Conns |-> "no"] /\ cut = {}
    /\ inq = [c \in Conns |-> <<>>]
    /\ peer = [c \in Conns |-> "open"]
    /\ sndFull = {}
    /\ msgs = 0
    /\ accepted = {}
    /\ running = {}
    /\ outbuf = [c \in Conns |-> 0]
    /\ touched = {}
    /\ proto = [c \in Conns |-> "none"]
    /\ connections = [f \in Fds |-> NoConn]
    /\ timeouts = [f \in Fds |-> 0]
    /\ due = {} /\ pending = <<>> /\ active = 0
    /\ rpc = "loop" /\ batch = {} /\ needPending = FALSE /\ cur = NoCur
    /\ functors = <<>> /\ dropped = {}
    /\ tasks = <<>>
    /\ wpc = [w \in Workers |-> "idle"]
    /\ wconn = [w \in Workers |-> NoConn]
    /\ wkind = [w \in Workers |-> "keep"]
    /\ wfd = [w \in Workers |-> NoFd]
    /\ apc = "idle" /\ spc = "run"

-----------------------------------------------------------------------------
(* The kernel: what epoll reports of a socket, and the calls on it.         *)

\* EPOLLIN: data, end of stream or an error is there to be read.
Readable(c) == inq[c] # <<>> \/ peer[c] # "open"

\* The socket has something its registration i asks for.
Ready(c, i) == Readable(c) \/ (i = "inout" /\ c \notin sndFull)

\* EPOLL_CTL_ADD / MOD of the sockets S: the new interest, and the socket goes
\* on the ready list at once when it is ready (q: the receive queues by then).
EpollCtl(S, i, q) ==
    /\ interest' = [c \in Conns |-> IF c \in S THEN i ELSE interest[c]]
    /\ armed' = armed \cup {c \in S : \/ q[c] # <<>> \/ peer[c] # "open"
                                      \/ i = "inout" /\ c \notin sndFull}

\* The registered sockets that a descriptor number stands for (at most one).
Registered(f) == {c \in Conns : fdOf[c] = f /\ interest[c] # "none"}

\* Closing the sockets S, and epoll_del of the descriptors F.
Unregister(S, F) ==
    LET gone == {c \in Conns : c \in S \/ fdOf[c] \in F}
    IN  /\ fdOf' = [c \in Conns |-> IF c \in S THEN NoFd ELSE fdOf[c]]
        /\ interest' = [c \in Conns |-> IF c \in gone THEN "none" ELSE interest[c]]
        /\ armed' = armed \ gone

-----------------------------------------------------------------------------
(* BaseConnection::shutdown.  The compare_exchange on running_ lets one     *)
(* caller through; it closes the descriptor, and socket_.reset() closes the *)
(* same number again, whoever has it by then.                               *)

\* The first close, for the connections S by one thread, after epoll_del of F.
Shutdown(S, F) ==
    LET won == S \cap running
    IN  /\ running' = running \ won
        /\ closing' = [c \in Conns |-> IF c \in won THEN "clear" ELSE closing[c]]
        /\ Unregister(won, F)
        /\ UNCHANGED <<outbuf, sock, cut>>

\* shutdown() under buffer_mutex_: the second lock of the same shared_mutex by
\* its holder throws, and the buffers stay as they are, left replies in outbuf.
ShutdownLocked(c, left) ==
    /\ running' = running \ {c}
    /\ outbuf' = [outbuf EXCEPT ![c] = left]
    /\ closing' = [closing EXCEPT ![c] = "locked"]
    /\ Unregister({c}, {})
    /\ UNCHANGED <<sock, cut>>

\* socket_.reset(): ::shutdown, close and close of the number once more, then
\* the buffers.  A connection that was given the number in between loses its
\* socket; what it does after that is outside this model, whose behaviours end
\* there (Descriptors follows the calls one by one, and beyond).
CloseAgain(c) ==
    LET hit == {d \in Conns : fdOf[d] = sock[c]}
    IN  /\ sock' = [sock EXCEPT ![c] = NoFd]
        /\ closing' = [closing EXCEPT ![c] = "no"]
        /\ outbuf' = IF closing[c] = "clear" THEN [outbuf EXCEPT ![c] = 0] ELSE outbuf
        /\ cut' = hit
        /\ Unregister(hit, {})

\* The connections the reactor (or the thread that joined it) is closing.
Resets == {c \in Conns : closing[c] # "no"}
          \ {wconn[w] : w \in {v \in Workers : wpc[v] = "reset"}}

ResetSocket(c) ==
    /\ c \in Resets /\ cut = {}
    /\ CloseAgain(c)
    /\ UNCHANGED <<readable, clientVars, accepted, running, touched, proto, stateVars,
                   pending, threadVars, workerVars, serverVars>>

\* Where a thread is; the reactor goes on once what it was closing is closed.
At(l) == rpc = l /\ Resets = {} /\ cut = {}
On(w, l) == wpc[w] = l /\ cut = {}

-----------------------------------------------------------------------------
(* SubReactor::close_connection, for a set of descriptors at once.  The     *)
(* definitions named ...Mutant change the one that follows them as a        *)
(* plausible mistake in the code would; only the mutation runs use them.    *)

\* connections_.find: a descriptor without an entry is left alone.
EntriesMutant(F) == F
Entries(F) == {f \in F : connections[f] # NoConn}

\* The erase loops over timeout_map_.
EraseTimeoutsMutant(F) == timeouts
EraseTimeouts(F) == [f \in Fds |-> IF f \in F THEN 0 ELSE timeouts[f]]

CloseEntries(F) ==
    LET hit == Entries(F)
    IN  /\ connections' = [f \in Fds |-> IF f \in hit THEN NoConn
                                                      ELSE connections[f]]
        /\ active' = active - Cardinality(hit)
        /\ Shutdown({connections[f] : f \in hit}, hit)

CloseConnections(F) ==
    /\ CloseEntries(F)
    /\ timeouts' = EraseTimeouts(Entries(F))
    /\ due' = due \ Entries(F)
    /\ UNCHANGED <<accepted, touched, proto>>

-----------------------------------------------------------------------------
(* The reactor thread: SubReactor::run.                                     *)

\* st.stop_requested(): request_stop() has been called.
StopRequestedMutant == spc = "join" /\ pending # <<>>
StopRequested == spc \in {"join", "joined", "destroyed"}

LoopTest ==
    /\ At("loop")
    /\ rpc' = IF StopRequested THEN "cleanup" ELSE "wait"
    /\ UNCHANGED <<kernelVars, readable, clientVars, connVars, stateVars, pending,
                   batch, needPending, cur, functors, dropped, workerVars, serverVars>>

\* The event mask of a socket.
EventMask(c) ==
    {b \in {"in", "out", "hup"} :
        \/ b = "in" /\ Readable(c)
        \/ b = "out" /\ interest[c] = "inout" /\ c \notin sndFull
        \/ b = "hup" /\ peer[c] = "rst"}

\* epoll_wait: the masks are computed as it returns, from the ready list.
EpollWait ==
    LET ready == {c \in armed : Ready(c, interest[c])}
    IN  /\ At("wait")
        /\ ready # {} \/ readable # {}
        /\ batch' = {[fd |-> fdOf[c], mask |-> EventMask(c)] : c \in ready}
                    \cup {[fd |-> f, mask |-> {"in"}] : f \in readable}
        /\ armed' = {}
        /\ needPending' = FALSE
        /\ rpc' = "dispatch"
        /\ UNCHANGED <<fdOf, interest, sockVars, readable, clientVars, connVars, stateVars,
                       pending, cur, functors, dropped, workerVars, serverVars>>

DispatchWake(e) ==
    /\ At("dispatch") /\ e.fd = WakeFd
    /\ batch' = batch \ {e}
    /\ readable' = readable \ {WakeFd}
    /\ needPending' = TRUE
    /\ UNCHANGED <<kernelVars, clientVars, connVars, stateVars, pending,
                   rpc, cur, functors, dropped, workerVars, serverVars>>

TimeoutAppliesMutant(f) ==
    connections[f] \in running /\ IdleEnabled
TimeoutAppliesMutant2(f) == connections[f] # NoConn /\ ~IdleEnabled
TimeoutApplies(f) == connections[f] # NoConn /\ IdleEnabled

\* check_timeouts: due entries leave timeout_map_.  A connection that read
\* nothing since its deadline was set is idle and closed; one that did may be
\* idle again by now, or gets the deadline of its last activity.  Clock readings
\* are not represented: a deadline that a sweep meets to the nanosecond is past
\* for the loop and not for the idle test, and counts as one still to come.
CheckTimeouts ==
    LET checked == {f \in due : TimeoutApplies(f)}
    IN  \E expired \in SUBSET checked :
          /\ \A f \in checked : connections[f] \notin touched => f \in expired
          /\ CloseEntries(expired)
          /\ timeouts' = EraseTimeouts(due \ (checked \ expired))
          /\ due' = {}
          /\ touched' = touched \ {connections[f] : f \in checked}
          /\ UNCHANGED <<accepted, proto>>

DispatchTimer(e) ==
    /\ At("dispatch") /\ e.fd = TimerFd
    /\ batch' = batch \ {e}
    /\ readable' = readable \ {TimerFd}
    /\ CheckTimeouts
    /\ UNCHANGED <<clientVars, pending, rpc, needPending, cur, functors, dropped,
                   workerVars, serverVars>>

\* The map has a live connection under the descriptor.
Alive(f) == connections[f] \in running

\* No entry, a connection that is no longer alive, or EPOLLHUP | EPOLLERR.
DispatchClose(e) ==
    /\ At("dispatch") /\ e.fd \in Fds
    /\ ~Alive(e.fd) \/ "hup" \in e.mask
    /\ batch' = batch \ {e}
    /\ CloseConnections({e.fd})
    /\ UNCHANGED <<readable, clientVars, pending, rpc, needPending, cur, functors,
                   dropped, workerVars, serverVars>>

\* handle_read on EPOLLIN, handle_write (and EPOLLOUT) after it.
FirstHandlerMutant(e) == "read"
FirstHandler(e) == IF "in" \in e.mask THEN "read" ELSE "write"

DispatchIo(e) ==
    /\ At("dispatch") /\ e.fd \in Fds
    /\ Alive(e.fd) /\ "hup" \notin e.mask
    /\ batch' = batch \ {e}
    /\ cur' = [fd |-> e.fd, conn |-> connections[e.fd], mask |-> e.mask]
    /\ rpc' = FirstHandler(e)
    /\ UNCHANGED <<kernelVars, readable, clientVars, connVars, stateVars, pending,
                   needPending, functors, dropped, workerVars, serverVars>>

-----------------------------------------------------------------------------
(* EpollConnection::handle_read for the current event, in one step.  A      *)
(* worker may close the connection between its is_alive() and the read: the *)
(* read fails then, and handle_read ends as if the close had come first.    *)
(* That the number is also given to another connection within that gap, and *)
(* the read takes from it, is left out.                                     *)

\* protocol_detected(), at the first read.  A connection that does not begin
\* as HTTP loses its http_handler_, and with it the way to the worker pool.
Protocol(c) ==
    IF proto[c] # "none" \/ inq[c] = <<>> THEN proto[c]
    ELSE IF Head(inq[c]) = "line" THEN "line" ELSE "http"
Http(c) == Protocol(c) = "http"

\* The outcomes of reading: not alive any more; end of stream or an error with
\* nothing read; what is no request, or a pipeline too deep, in HTTP mode.
ReadFails(c) ==
    \/ inq[c] = <<>>
    \/ Http(c) /\ (Len(inq[c]) > MaxPipeline
                   \/ \E i \in 1..Len(inq[c]) : inq[c][i] \notin {"keep", "close"})

HandleReadDead ==
    /\ At("read") /\ cur.conn \notin running
    /\ rpc' = "write"
    /\ UNCHANGED <<kernelVars, readable, clientVars, connVars, stateVars, pending,
                   batch, needPending, cur, functors, dropped, workerVars, serverVars>>

HandleReadFails ==
    LET c == cur.conn
    IN  /\ At("read") /\ c \in running /\ ReadFails(c)
        /\ inq' = [inq EXCEPT ![c] = <<>>]
        /\ touched' = IF inq[c] = <<>> THEN touched ELSE touched \cup {c}
        /\ proto' = [proto EXCEPT ![c] = Protocol(c)]
        /\ Shutdown({c}, {})
        /\ rpc' = "write"
        /\ UNCHANGED <<readable, peer, sndFull, msgs, accepted, stateVars, pending,
                       batch, needPending, cur, functors, dropped, workerVars, serverVars>>

\* Worker pool: every parsed request becomes a task, in order.
HandleReadSubmit ==
    LET c == cur.conn
    IN  /\ At("read") /\ c \in running /\ ~ReadFails(c)
        /\ Http(c) /\ Workers # {}
        /\ tasks' = tasks \o [i \in 1..Len(inq[c]) |->
                                [conn |-> c, kind |-> inq[c][i]]]
        /\ inq' = [inq EXCEPT ![c] = <<>>]
        /\ touched' = touched \cup {c}
        /\ proto' = [proto EXCEPT ![c] = Protocol(c)]
        /\ rpc' = "write"
        /\ UNCHANGED <<kernelVars, readable, peer, sndFull, msgs, accepted, running,
                       outbuf, stateVars, pending, batch, needPending, cur, functors,
                       dropped, wpc, wconn, wkind, wfd, serverVars>>

\* BaseConnection::send: the test against MAX_BUFFER_SIZE, and was_empty.
OverflowsMutant(c, n) == outbuf[c] > MaxBuffer
Overflows(c, n) == outbuf[c] + n > MaxBuffer
WasEmptyMutant(c) == outbuf[c] # 0
WasEmpty(c) == outbuf[c] = 0

\* A text client, or no pool: the handler answers on the reactor thread, one
\* send per message (per line).  An exception of the HTTP handler is answered
\* with a 500 and asks to close; one of the line handler is only logged.
HandleReadInline ==
    LET c == cur.conn
        n == Len(inq[c])
    IN  /\ At("read") /\ c \in running /\ ~ReadFails(c)
        /\ ~Http(c) \/ Workers = {}
        /\ inq' = [inq EXCEPT ![c] = <<>>]
        /\ touched' = touched \cup {c}
        /\ proto' = [proto EXCEPT ![c] = Protocol(c)]
        /\ \E threw \in {FALSE, Http(c)} :
             IF Overflows(c, n)
             THEN ShutdownLocked(c, MaxBuffer)
             ELSE IF threw \/ (Http(c) /\ \E i \in 1..n : inq[c][i] = "close")
             THEN Shutdown({c}, {})
             ELSE /\ outbuf' = [outbuf EXCEPT ![c] = @ + n]
                  /\ IF WasEmpty(c) THEN EpollCtl({c}, "inout", inq')
                                    ELSE UNCHANGED <<interest, armed>>
                  /\ UNCHANGED <<fdOf, running, sockVars>>
        /\ rpc' = "write"
        /\ UNCHANGED <<readable, peer, sndFull, msgs, accepted, stateVars, pending,
                       batch, needPending, cur, functors, dropped, workerVars, serverVars>>

-----------------------------------------------------------------------------
(* EpollConnection::handle_write, then the liveness test of run().          *)

NothingToWriteMutant ==
    /\ At("write") /\ ~(cur.mask = {"out"} /\ cur.conn \in running)
    /\ rpc' = "reap"
    /\ UNCHANGED <<kernelVars, readable, clientVars, connVars, stateVars, pending,
                   batch, needPending, cur, functors, dropped, workerVars, serverVars>>

NothingToWrite ==
    /\ At("write") /\ ~("out" \in cur.mask /\ cur.conn \in running)
    /\ rpc' = "reap"
    /\ UNCHANGED <<kernelVars, readable, clientVars, connVars, stateVars, pending,
                   batch, needPending, cur, functors, dropped, workerVars, serverVars>>

\* "Stop write if send over".
SendOver(c, n) == n = outbuf[c]

\* A spurious EPOLLOUT, or a write that took n replies; writing is disabled
\* when nothing is left, and a short write means the send buffer is full.
HandleWrite ==
    LET c == cur.conn
    IN  /\ At("write") /\ "out" \in cur.mask /\ c \in running
        /\ peer[c] # "rst" \/ outbuf[c] = 0
        /\ \E n \in 0..outbuf[c], full \in {{}, {c}} :
             /\ n = 0 => outbuf[c] = 0 /\ full = {}
             /\ n < outbuf[c] => full = {c}
             /\ outbuf' = [outbuf EXCEPT ![c] = @ - n]
             /\ sndFull' = sndFull \cup full
             /\ IF SendOver(c, n) THEN EpollCtl({c}, "in", inq)
                                  ELSE UNCHANGED <<interest, armed>>
        /\ rpc' = "reap"
        /\ UNCHANGED <<fdOf, sockVars, readable, inq, peer, msgs, accepted, running,
                       touched, proto, stateVars, pending, batch, needPending, cur,
                       functors, dropped, workerVars, serverVars>>

\* ::write fails with ECONNRESET; shutdown() runs under buffer_mutex_.
HandleWriteError ==
    LET c == cur.conn
    IN  /\ At("write") /\ "out" \in cur.mask /\ c \in running /\ peer[c] = "rst"
        /\ outbuf[c] > 0
        /\ ShutdownLocked(c, outbuf[c])
        /\ rpc' = "reap"
        /\ UNCHANGED <<readable, clientVars, accepted, touched, proto, stateVars, pending,
                       batch, needPending, cur, functors, dropped, workerVars, serverVars>>

ReapCurrent ==
    /\ At("reap")
    /\ IF cur.conn \in running
       THEN UNCHANGED <<kernelVars, connVars, stateVars>>
       ELSE CloseConnections({cur.fd})
    /\ cur' = NoCur
    /\ rpc' = "dispatch"
    /\ UNCHANGED <<readable, clientVars, pending, batch, needPending, functors,
                   dropped, workerVars, serverVars>>

-----------------------------------------------------------------------------
(* do_pending_functors: swap the queue out under the lock, then run it.     *)

EndBatch ==
    /\ At("dispatch") /\ batch = {}
    /\ IF needPending
       THEN rpc' = "functors" /\ functors' = pending /\ pending' = <<>>
       ELSE rpc' = "loop" /\ UNCHANGED <<functors, pending>>
    /\ needPending' = FALSE
    /\ UNCHANGED <<kernelVars, readable, clientVars, connVars, stateVars, batch, cur,
                   dropped, workerVars, serverVars>>

\* The functor of add_connection.  An epoll_add that fails shuts the connection
\* down; a descriptor that is still in the map drops it.
RunAdd ==
    LET f == Head(functors).fd
        c == Head(functors).conn
    IN  /\ At("functors") /\ functors # <<>> /\ Head(functors).op = "add"
        /\ functors' = Tail(functors)
        /\ \/ /\ Shutdown({c}, {})
              /\ UNCHANGED <<stateVars, dropped>>
           \/ /\ c \in running /\ connections[f] # NoConn
              /\ EpollCtl({c}, "in", inq)
              /\ dropped' = dropped \cup {c}
              /\ UNCHANGED <<fdOf, sockVars, running, outbuf, stateVars>>
           \/ /\ c \in running /\ connections[f] = NoConn
              /\ EpollCtl({c}, "in", inq)
              /\ connections' = [connections EXCEPT ![f] = c]
              /\ active' = active + 1
              /\ timeouts' = [timeouts EXCEPT ![f] = @ + 1]
              /\ UNCHANGED <<fdOf, sockVars, running, outbuf, due, dropped>>
        /\ UNCHANGED <<readable, clientVars, accepted, touched, proto, pending, rpc, batch,
                       needPending, cur, workerVars, serverVars>>

\* The functor of enable_writing: EPOLL_CTL_MOD of whatever socket the number
\* stands for by now, if the map has an entry under it.
RunEnable ==
    LET f == Head(functors).fd
    IN  /\ At("functors") /\ functors # <<>> /\ Head(functors).op = "enable"
        /\ functors' = Tail(functors)
        /\ IF connections[f] # NoConn
           THEN EpollCtl(Registered(f), "inout", inq)
           ELSE UNCHANGED <<interest, armed>>
        /\ UNCHANGED <<fdOf, sockVars, readable, clientVars, connVars, stateVars, pending,
                       rpc, batch, needPending, cur, dropped, workerVars, serverVars>>

FunctorsDoneMutant ==
    /\ At("functors") /\ functors = <<>>
    /\ dropped' = {}
    /\ rpc' = "loop"
    /\ UNCHANGED <<kernelVars, readable, clientVars, connVars, stateVars, pending,
                   batch, needPending, cur, functors, workerVars, serverVars>>

\* The local vector goes out of scope, and with it the connections that were
\* not stored in the map.
FunctorsDone ==
    /\ At("functors") /\ functors = <<>>
    /\ Shutdown(dropped, {})
    /\ dropped' = {}
    /\ rpc' = "loop"
    /\ UNCHANGED <<readable, clientVars, accepted, touched, proto, stateVars, pending,
                   batch, needPending, cur, functors, workerVars, serverVars>>

\* After the loop: close_connection for every entry.
Cleanup ==
    /\ At("cleanup")
    /\ CloseConnections(Fds)
    /\ rpc' = "done"
    /\ UNCHANGED <<readable, clientVars, pending, batch, needPending, cur, functors,
                   dropped, workerVars, serverVars>>

Reactor ==
    \/ LoopTest \/ EpollWait
    \/ \E e \in batch : \/ DispatchWake(e) \/ DispatchTimer(e)
                        \/ DispatchClose(e) \/ DispatchIo(e)
    \/ HandleReadDead \/ HandleReadFails \/ HandleReadSubmit \/ HandleReadInline
    \/ NothingToWrite \/ HandleWrite \/ HandleWriteError \/ ReapCurrent
    \/ EndBatch \/ RunAdd \/ RunEnable \/ FunctorsDone \/ Cleanup

-----------------------------------------------------------------------------
(* The acceptor thread: add_connection, until the server is shut down.      *)

\* A new connection object on a descriptor the kernel has free, and its add
\* functor, queued under pending_mutex_.
AddConnection(c, f) ==
    /\ spc = "run" /\ apc = "idle" /\ cut = {}
    /\ c \notin accepted
    /\ \A d \in Conns : fdOf[d] # f
    /\ accepted' = accepted \cup {c}
    /\ running' = running \cup {c}
    /\ fdOf' = [fdOf EXCEPT ![c] = f]
    /\ sock' = [sock EXCEPT ![c] = f]
    /\ pending' = Append(pending, [op |-> "add", fd |-> f, conn |-> c])
    /\ apc' = "wake"
    /\ UNCHANGED <<interest, armed, closing, cut, readable, clientVars, outbuf, touched,
                   proto, stateVars, threadVars, workerVars, spc>>

AddConnectionWakeMutant ==
    /\ apc = "wake" /\ cut = {}
    /\ apc' = "idle"
    /\ UNCHANGED <<kernelVars, readable, clientVars, connVars, stateVars, pending,
                   threadVars, workerVars, spc>>

\* The write to wake_fd_ that follows, outside the lock.
AddConnectionWake ==
    /\ apc = "wake" /\ cut = {}
    /\ readable' = readable \cup {WakeFd}
    /\ apc' = "idle"
    /\ UNCHANGED <<kernelVars, clientVars, connVars, stateVars, pending,
                   threadVars, workerVars, spc>>

-----------------------------------------------------------------------------
(* A worker: the task lambda submitted by handle_read.                      *)

\* Take the oldest task; it returns at once when the connection is dead.  When
\* the handler throws, the reply is a 500 and the connection is closed after it.
TakeTask(w) ==
    LET t == Head(tasks)
    IN  /\ On(w, "idle") /\ tasks # <<>>
        /\ tasks' = Tail(tasks)
        /\ \/ /\ t.conn \notin running
              /\ UNCHANGED <<wpc, wconn, wkind>>
           \/ /\ t.conn \in running
              /\ \E k \in {t.kind, "close"} : wkind' = [wkind EXCEPT ![w] = k]
              /\ wconn' = [wconn EXCEPT ![w] = t.conn]
              /\ wpc' = [wpc EXCEPT ![w] = "send"]
        /\ UNCHANGED <<kernelVars, readable, clientVars, connVars, stateVars, pending,
                       threadVars, wfd, serverVars>>

\* BaseConnection::send past its is_alive() test: overflow closes; otherwise the
\* reply is appended, and the sender that made the buffer non-empty goes on to
\* enable_writing with the descriptor get_fd() returns.
SendReply(w) ==
    LET c == wconn[w]
    IN  /\ On(w, "send")
        /\ IF Overflows(c, 1)
           THEN /\ IF c \in running THEN ShutdownLocked(c, outbuf[c])
                                 ELSE UNCHANGED <<kernelVars, running, outbuf>>
                /\ wpc' = [wpc EXCEPT ![w] = IF c \in running THEN "reset" ELSE "close"]
                /\ wfd' = wfd
           ELSE /\ outbuf' = [outbuf EXCEPT ![c] = @ + 1]
                /\ wfd' = [wfd EXCEPT ![w] = IF WasEmpty(c) THEN sock[c] ELSE NoFd]
                /\ wpc' = [wpc EXCEPT ![w] = IF WasEmpty(c) /\ sock[c] # NoFd
                                             THEN "push" ELSE "close"]
                /\ UNCHANGED <<kernelVars, running>>
        /\ UNCHANGED <<readable, clientVars, accepted, touched, proto, stateVars, pending,
                       threadVars, tasks, wconn, wkind, serverVars>>

\* enable_writing from another thread: the functor, under pending_mutex_.  On a
\* reactor that has been destroyed the behaviour is undefined.
EnableWriting(w) ==
    /\ On(w, "push")
    /\ IF spc = "destroyed"
       THEN /\ wpc' = [wpc EXCEPT ![w] = "crashed"]
            /\ UNCHANGED <<pending, wfd>>
       ELSE /\ pending' = Append(pending, [op |-> "enable", fd |-> wfd[w], conn |-> NoConn])
            /\ wpc' = [wpc EXCEPT ![w] = "wake"]
            /\ wfd' = [wfd EXCEPT ![w] = NoFd]
    /\ UNCHANGED <<kernelVars, readable, clientVars, connVars, stateVars, threadVars,
                   tasks, wconn, wkind, serverVars>>

\* ... and the write to wake_fd_, which shutdown() sets to -1.
EnableWritingWake(w) ==
    /\ On(w, "wake")
    /\ readable' = readable \cup {f \in {WakeFd} : spc \in {"run", "stop", "join"}}
    /\ wpc' = [wpc EXCEPT ![w] = IF spc = "destroyed" THEN "crashed" ELSE "close"]
    /\ UNCHANGED <<kernelVars, clientVars, connVars, stateVars, pending,
                   threadVars, tasks, wconn, wkind, wfd, serverVars>>

\* close_after: shutdown() on the worker thread; the winner of the
\* compare_exchange goes on to close the descriptor.
TaskShutdown(w) ==
    LET c == wconn[w]
    IN  /\ On(w, "close")
        /\ IF wkind[w] = "close" /\ c \in running
           THEN /\ running' = running \ {c}
                /\ wpc' = [wpc EXCEPT ![w] = "closing"]
                /\ UNCHANGED <<wconn, wkind>>
           ELSE /\ wpc' = [wpc EXCEPT ![w] = "idle"]
                /\ wconn' = [wconn EXCEPT ![w] = NoConn]
                /\ wkind' = [wkind EXCEPT ![w] = "keep"]
                /\ UNCHANGED running
        /\ UNCHANGED <<kernelVars, readable, clientVars, accepted, outbuf, touched, proto,
                       stateVars, pending, threadVars, tasks, wfd, serverVars>>

\* ... which is free from here on, and closes it again.
TaskClose(w) ==
    LET c == wconn[w]
    IN  /\ On(w, "closing")
        /\ Unregister({c}, {})
        /\ closing' = [closing EXCEPT ![c] = "clear"]
        /\ wpc' = [wpc EXCEPT ![w] = "reset"]
        /\ UNCHANGED <<sock, cut, readable, clientVars, connVars, stateVars, pending,
                       threadVars, tasks, wconn, wkind, wfd, serverVars>>

TaskReset(w) ==
    /\ On(w, "reset")
    /\ CloseAgain(wconn[w])
    /\ wpc' = [wpc EXCEPT ![w] = "close"]
    /\ UNCHANGED <<readable, clientVars, accepted, running, touched, proto, stateVars,
                   pending, threadVars, tasks, wconn, wkind, wfd, serverVars>>

Worker(w) ==
    \/ TakeTask(w) \/ SendReply(w) \/ EnableWriting(w) \/ EnableWritingWake(w)
    \/ TaskShutdown(w) \/ TaskClose(w) \/ TaskReset(w)

-----------------------------------------------------------------------------
(* The thread in TcpServer::shutdown, once the accept thread is joined:     *)
(* SubReactor::shutdown, then the destructor.                               *)

ShutdownWake ==
    /\ spc = "run" /\ apc = "idle" /\ cut = {}
    /\ spc' = "stop"
    /\ readable' = readable \cup {WakeFd}
    /\ UNCHANGED <<kernelVars, clientVars, connVars, stateVars, pending,
                   threadVars, workerVars, apc>>

RequestStop ==
    /\ spc = "stop" /\ cut = {}
    /\ spc' = "join"
    /\ UNCHANGED <<kernelVars, readable, clientVars, connVars, stateVars, pending,
                   threadVars, workerVars, apc>>

\* thread_.join(), then the sweep over what is left in connections_ and
\* timeout_map_, and the close of wake_fd_ and timer_fd_.
JoinReactor ==
    /\ spc = "join" /\ At("done")
    /\ spc' = "joined"
    /\ CloseEntries(Fds)
    /\ timeouts' = [f \in Fds |-> 0]
    /\ due' = {}
    /\ readable' = {}
    /\ UNCHANGED <<clientVars, accepted, touched, proto, pending, threadVars, workerVars, apc>>

\* The connections that the add functors of a queue hold.
QueuedConnsMutant(q) == {}
QueuedConns(q) == {q[i].conn : i \in {j \in DOMAIN q : q[j].op = "add"}}

\* ~SubReactor: pending_functors_ is destroyed, and the connections only it held.
DestroyReactor ==
    /\ spc = "joined" /\ Resets = {} /\ cut = {}
    /\ spc' = "destroyed"
    /\ Shutdown(QueuedConns(pending), {})
    /\ pending' = <<>>
    /\ UNCHANGED <<readable, clientVars, accepted, touched, proto, stateVars, threadVars,
                   workerVars, apc>>

-----------------------------------------------------------------------------
(* The environment: clients, the network and time.                          *)

Connected(c) == c \in accepted /\ fdOf[c] # NoFd /\ peer[c] = "open"

\* What arrives at a registered socket puts it on the ready list.
Notify(c) == armed' = IF interest[c] = "none" THEN armed ELSE armed \cup {c}

ClientSend(c, k) ==
    /\ Connected(c) /\ msgs < MaxMsgs[k] /\ cut = {}
    /\ inq' = [inq EXCEPT ![c] = Append(@, k)]
    /\ msgs' = msgs + 1
    /\ Notify(c)
    /\ UNCHANGED <<fdOf, interest, sockVars, readable, peer, sndFull, connVars, stateVars,
                   pending, threadVars, workerVars, serverVars>>

ClientLeaves(c, how) ==
    /\ Connected(c) /\ cut = {}
    /\ peer' = [peer EXCEPT ![c] = how]
    /\ Notify(c)
    /\ UNCHANGED <<fdOf, interest, sockVars, readable, inq, sndFull, msgs, connVars, stateVars,
                   pending, threadVars, workerVars, serverVars>>

\* The client reads, and the send buffer has room again (EPOLLOUT).
ClientReads(c) ==
    /\ c \in sndFull /\ cut = {}
    /\ sndFull' = sndFull \ {c}
    /\ armed' = IF interest[c] = "inout" THEN armed \cup {c} ELSE armed
    /\ UNCHANGED <<fdOf, interest, sockVars, readable, inq, peer, msgs, connVars, stateVars,
                   pending, threadVars, workerVars, serverVars>>

\* The periodic timer of the constructor.
TimerFires ==
    /\ TimerFd \notin readable /\ spc \in {"run", "stop", "join"} /\ cut = {}
    /\ readable' = readable \cup {TimerFd}
    /\ UNCHANGED <<kernelVars, clientVars, connVars, stateVars, pending,
                   threadVars, workerVars, serverVars>>

\* A deadline in timeout_map_ passes.
DeadlinePasses(f) ==
    /\ timeouts[f] > 0 /\ f \notin due /\ cut = {}
    /\ due' = due \cup {f}
    /\ UNCHANGED <<kernelVars, readable, clientVars, connVars, connections, timeouts,
                   active, pending, threadVars, workerVars, serverVars>>

Terminated ==
    /\ \/ cut # {}
       \/ /\ spc = "destroyed" /\ Resets = {}
          /\ \A w \in Workers : wpc[w] = "crashed" \/ (wpc[w] = "idle" /\ tasks = <<>>)
    /\ UNCHANGED vars

ShutdownThread == ShutdownWake \/ RequestStop \/ JoinReactor \/ DestroyReactor
Client(c) ==
    \/ \E k \in Kinds : ClientSend(c, k)
    \/ ClientLeaves(c, "fin") \/ ClientLeaves(c, "rst")
    \/ ClientReads(c)

Next ==
    \/ Reactor
    \/ \E c \in Conns : ResetSocket(c)
    \/ \E c \in Conns, f \in Fds : AddConnection(c, f)
    \/ AddConnectionWake
    \/ \E w \in Workers : Worker(w)
    \/ ShutdownThread
    \/ \E c \in Conns : Client(c)
    \/ TimerFires
    \/ \E f \in Fds : DeadlinePasses(f)
    \/ Terminated

Spec == Init /\ [][Next]_vars

(* Every thread that can run eventually does, and a running shutdown goes   *)
(* on.  A client that keeps reading is the only one with an obligation, for *)
(* what needs the network to drain.                                         *)
Fairness ==
    /\ WF_vars(Reactor) /\ WF_vars(AddConnectionWake)
    /\ \A c \in Conns : WF_vars(ResetSocket(c))
    /\ \A w \in Workers : WF_vars(Worker(w))
    /\ WF_vars(RequestStop \/ JoinReactor \/ DestroyReactor)
    /\ \A c \in Conns : WF_vars(ClientReads(c))
FairSpec == Spec /\ Fairness

\* The timer ticks and time passes: what only check_timeouts, or the wakeup by
\* the timerfd, brings about is claimed under this; the rest must not need it.
ClockRuns == WF_vars(TimerFires) /\ \A f \in Fds : WF_vars(DeadlinePasses(f))

-----------------------------------------------------------------------------
(* Safety.                                                                  *)

(* The queue of functors is never left behind: while pending_functors_ is   *)
(* not empty and the loop runs, the eventfd is readable, or the loop has    *)
(* read it and will swap the queue, or the thread that queued the functor   *)
(* has its write to wake_fd_ still ahead of it.                             *)
NoLostFunctor ==
    pending # <<>> /\ rpc \notin {"cleanup", "done"} =>
        \/ WakeFd \in readable \/ needPending \/ apc = "wake"
        \/ \E w \in Workers : wpc[w] = "wake"

EnableQueued(f, q) == \E i \in DOMAIN q : q[i].op = "enable" /\ q[i].fd = f

(* No reply is stranded: a live connection with buffered output has         *)
(* EPOLLOUT in its registration, or a functor that will put it there, or a  *)
(* sender about to queue that functor; until a second close takes away the  *)
(* socket of another connection.                                            *)
NoLostWrite ==
    \A c \in Conns :
        c \in running /\ outbuf[c] > 0 /\ cut = {} =>
            \/ interest[c] = "inout"
            \/ EnableQueued(fdOf[c], pending) \/ EnableQueued(fdOf[c], functors)
            \/ \E w \in Workers : wpc[w] = "push" /\ wconn[w] = c /\ wfd[w] = fdOf[c]

(* The active_connections metric is the size of the map.                    *)
ActiveMatchesMap == active = Cardinality({f \in Fds : connections[f] # NoConn})

(* timeout_map_ has one entry for every connection in the map, and no entry *)
(* that outlives its connection and would be charged to the next one on the *)
(* same descriptor.                                                         *)
TimeoutCover ==
    IdleEnabled => \A f \in Fds : timeouts[f] = IF connections[f] = NoConn THEN 0 ELSE 1

(* Until the second close of a number reaches the socket of another         *)
(* connection (cut; ClosedOnce of Descriptors shows that it can), a live    *)
(* connection in the map still owns the descriptor it is under, and a live  *)
(* registered socket is in the map under its own descriptor, so that an     *)
(* event or a functor for a number reaches the connection it is for.        *)
MapIsCurrent ==
    \A c \in Conns : c \in running /\ cut = {} =>
        /\ fdOf[c] # NoFd
        /\ \A f \in Fds : connections[f] = c => fdOf[c] = f
        /\ interest[c] # "none" /\ c \notin dropped => connections[fdOf[c]] = c

(* handle_read takes a read of no bytes for the end of the stream, EAGAIN   *)
(* included; it is only ever called when there is something to read.        *)
NoFalseEof ==
    /\ rpc = "read" /\ cur.conn \in running => Readable(cur.conn)
    /\ rpc \in {"dispatch", "read", "write", "reap"} =>
         \A e \in batch : e.fd \in Fds /\ "in" \in e.mask /\ Alive(e.fd) => Readable(connections[e.fd])

(* Once the reactor is destroyed, nothing of it is left: no entry, no       *)
(* queued functor, and no live connection.                                  *)
NothingLeftBehind ==
    spc = "destroyed" =>
        /\ \A f \in Fds : connections[f] = NoConn /\ timeouts[f] = 0
        /\ active = 0 /\ pending = <<>> /\ functors = <<>>
        /\ \A c \in Conns : c \notin running

-----------------------------------------------------------------------------
(* Liveness, for behaviours in which no socket is closed for another (the   *)
(* behaviours of this model end where one is).                              *)
Cut == cut # {}

(* A connection handed to add_connection gets into the map or is closed.    *)
AcceptedIsServed ==
    \A c \in Conns : c \in accepted ~>
        (c \notin running \/ (\E f \in Fds : connections[f] = c) \/ Cut)

(* Buffered output of a live connection is written out, or the connection   *)
(* is closed, for the replies of the pool and those of the reactor, and     *)
(* without the help of the idle timeout.                                    *)
OutputIsFlushed ==
    \A c \in Conns : (c \in running /\ outbuf[c] > 0)
                        ~> (c \notin running \/ outbuf[c] = 0 \/ Cut)

(* An entry whose connection was closed by a worker leaves the map.         *)
DeadEntryLeaves ==
    ClockRuns => \A c \in Conns, f \in Fds :
        (connections[f] = c /\ c \notin running) ~> (connections[f] # c \/ Cut)

(* A client that stops sending does not hold a descriptor for ever.         *)
DescriptorsReturn ==
    ClockRuns => \A c \in Conns : fdOf[c] # NoFd ~> (fdOf[c] = NoFd \/ Cut)

(* SubReactor::shutdown returns: the join does not wait for ever, because   *)
(* the timer wakes a loop that has swallowed the wakeup before the stop.    *)
ShutdownReturns == ClockRuns => (spc # "run") ~> (spc = "destroyed" \/ Cut)
=============================================================================
