# A verification of ModernCppTcpServer

TLA+ models of the server, its protocols and its client, the TLC runs that check them on
small instances, and TLAPS proofs of the properties that matter most. The models
are written from the C++ code under `src/`; `PROJECT.json` maps every definition
to the lines it stands for, and lists components, runs, mutants, hazards,
findings and theorems.

## 1. The system

A TCP server built from epoll reactors. One accept thread accepts clients and
hands each socket to one of several reactors in turn. A reactor owns a map from
descriptor to connection and runs one thread. The connection reads requests into an input buffer and hands
them to a pool of workers (or runs the handler itself when there is no pool);
the handler's answer goes to the connection's output buffer and the reactor
writes it to the socket when the socket is writable.

    client -> listening socket -> accept thread -> SubReactor::add_connection
                                                     |  functor queue + eventfd
                                                     v
      handle_read <- epoll_wait <- reactor thread: run functors, check timeouts
          |                               ^
          v                               | functor queue + eventfd
      WorkerPool::submit -> worker: handler, send -> enable_writing

Shutdown, from any thread: stop and wake the acceptor, join it, shut down and
destroy the reactors one by one, then destroy the pool.

### Components, their state and their operations

| Component | State | Operations | What makes it correct |
|---|---|---|---|
| `SubReactor` | `connections_`, `timeout_map_`, `pending_functors_`, eventfd, timerfd, epoll set | `add_connection`, `enable_writing`, `loop`, `check_timeouts`, `close_connection`, `do_pending_functors`, `shutdown` | no functor is left behind without a wakeup; map, timeouts and metric agree; no leak when it is destroyed |
| `EpollConnection`, `BaseConnection` | `socket_`, `running_`, `input_buffer_`, `output_buffer_`, `buffer_mutex_`; `pending_requests_`, `pipeline_depth_`; `length_read_`, `expected_length_`; the detected protocol | `handle_read` with its HTTP, line and protobuf branches, `handle_write`, `send`, `shutdown` | an answer in the output buffer always has somebody on the way to write it; a read is never taken for an end of stream; requests are understood whatever the segments, and answered once; the end of one connection does not touch another |
| `WorkerPool` | `tasks_`, `stopped_`, `mutex_`, `cond_`, `workers_` | `submit`, `worker_loop`, destructor | tasks start in order, none twice; no lost wakeup |
| `Buffer` | `buffer_`, `reader_index_`, `writer_index_` | `append`, `read_fd`, `retrieve`, `make_space`, `shrink_if_needed` | the readable part is the stream; indices stay inside the vector |
| `TcpServer` | `server_fd_`, `event_fd_`, `running_`, `sub_reactors_`, `next_reactor_index_` | `start`, two accept loops, `shutdown`, `wakeup` | every client is accounted for; even distribution; shutdown returns |
| `HttpParser` | state, `temp_buffer_`, the request so far, body bytes received | `parse`, `get_request`, `reset` | the request it hands out is the one the peer meant; malformed ones are refused |
| `HttpRouter`, routes | a table filled before `start` | `handle`, the counting middleware | the chain returns to the middleware, which counts |
| `ServerMetrics` | atomic counters, three fields for the rate | increments, `refresh_qps` | the counters are exact, the rate is one that can have been |
| `TcpClient`, the command line client | `connected_`, a socket | `ensure_connection`, `send_message`, `receive_line`, `send_protobuf`, `receive_protobuf` | an answer is taken for the request it answers; a call ends |
| gRPC, `main` | - | - | section 7 |

### What is hard here

* Descriptor numbers are reused by the kernel at once, and three threads (reactor,
  worker, acceptor) hold them: the map is keyed by a number whose connection a
  worker may have closed.
* epoll is edge triggered: an edge that is consumed without draining the socket
  does not come back.
* Functors are queued under a mutex but the eventfd is written outside it.
* `send` and `enable_writing` are two steps; the reactor may write, disarm or
  close between them.
* Shutdown takes objects away from threads that still run.
* The buffer's free space is split between front and back.
* Segments end anywhere, and three state machines (the parser, the frame loop, the
  detection of the protocol) have to carry on from where the last one ended.
* Requests of one connection are answered by several workers at once.
* `refresh_qps` reads and writes four atomics one by one, on any worker.
* `shutdown` closes a descriptor number three times over, while another thread may
  be given that number.

`PROJECT.json` lists the hazards with the line where each one bites and the
properties that cover it.

## 2. Modules

| Module | Models | Used by |
|---|---|---|
| `SubReactor` | one reactor, its connections, its workers, the accepting thread, the kernel's epoll and descriptor table, the clients, and shutdown | `MCSubReactor`, `SubReactorProofs`, `SubReactorOwnership` |
| `TaskQueue` | what the pool promises: accepted tasks start in order, each at most once | `WorkerPool` |
| `WorkerPool` | the pool, its mutex, its condition variable and its destructor | `MCWorkerPool`, `WorkerPoolProofs` |
| `Buffer` | one buffer, as an input buffer or as an output buffer | `MCBuffer`, `BufferProofs` |
| `TcpServer` | the acceptor, the hand-over to the reactors, and shutdown | `MCTcpServer`, `TcpServerProofs` |
| `HttpParser` | the parser's state machine, and the text of requests | `HttpPipeline` |
| `HttpPipeline` | one HTTP connection: `handle_read` with its parser, the pipeline, the workers' tasks and the replies | `MCHttpPipeline`, `HttpPipelineProofs` |
| `Dialogue` | the client against one connection in text and in protobuf mode; the detection of the protocol | `DialogueProofs` |
| `Metrics` | requests through the router on several threads, and `refresh_qps` | `MCMetrics`, `MetricsProofs` |
| `Descriptors` | the system calls that end a connection, and the reuse of its number | |
| `SubReactorProofs` -> `SubReactorOwnership` | proofs, the second resting on the first | |
| `WorkerPoolProofs`, `BufferProofs`, `MetricsProofs`, `TcpServerProofs`, `HttpPipelineProofs`, `DialogueProofs` | proofs | |

The operators whose names end in `Mutant` are plausible bugs of the definition
that follows them. No specification uses them; they serve to show that each
property notices a bug.

### SubReactor

One action per step of a thread that another thread can observe.

* The reactor: `LoopTest`, `EpollWait`, one `Dispatch...` action per kind of
  event, `HandleRead...`, `HandleWrite...`, `ReapCurrent` (the `is_alive` test
  after the handlers), `EndBatch` (the swap of `pending_functors_` under the
  lock), `RunAdd` and `RunEnable` for the functors, `FunctorsDone`, and `Cleanup`
  after the loop. A handler runs whole unless another thread can get between its
  parts.
* A worker: `TakeTask`, `SendReply` (under `buffer_mutex_`), `EnableWriting` (queue
  the functor), `EnableWritingWake` (write the eventfd), `TaskShutdown` and
  `TaskClose`. The last two are the two halves of
  `BaseConnection::shutdown` before `socket_.reset()`, as the task calls it.
* The second close: `shutdown()` closes its number, and `socket_.reset()` shuts it
  down and closes it again. `Shutdown`, `ShutdownLocked` and `TaskClose` are the first
  close, after which the number is free; `CloseAgain` is the rest, taken as a step of its own by
  `ResetSocket` (the reactor, or the thread that joined it) and by `TaskReset` (a worker). In between the
  acceptor may be given the number. If it was, the second close takes the new
  connection's socket away and puts that connection into `cut`. What such a connection does afterwards is not followed:
  the behaviours of this model end there, `MapIsCurrent` and `NoLostWrite` are
  claims up to that state, and the liveness properties are claims about behaviours that do
  not reach it. `Descriptors` shows it as a violation (section 6).
* The accepting thread: `AddConnection`, `AddConnectionWake`.
* Shutdown: `ShutdownWake`, `RequestStop`, `JoinReactor`, `DestroyReactor`, in
  the order of the code: the eventfd is written *before* the stop is requested,
  so a loop that consumes the wakeup first and then tests the stop flag goes back
  to `epoll_wait`, and only the 5 s timerfd brings it out. `ShutdownReturns`
  needs the timer for this reason.
* The environment (external): `ClientSend`, `ClientLeaves`, `ClientReads`,
  `TimerFires`, `DeadlinePasses`.

Epoll is edge triggered: `armed` is the set of connections whose edge has not
been delivered yet; a registration or a modification arms a connection that is
ready. Data are whole messages of a kind (`keep`, `close`, `bad`, `line`) and the
output buffer is a count, at most `MaxBuffer`; the bytes are the business of
`Buffer`. `proto` is the protocol the connection was found to speak: HTTP goes to the
pool if there is one, lines are answered on the reactor's thread. `timeouts` counts the entries of
`timeout_map_` per descriptor, and `due` has those whose time has passed.

### WorkerPool

`Submit` is the critical section and `NotifyOne` the notification after it; `Wait`
is the predicate test that ends in a sleep; a `SpuriousWakeup` may come at any time;
`Take`, `Finish`, `Leave` are the worker's loop. The destructor of the class is `DestroyBegin`,
`NotifyAll`, then `DestroyMembers` (the members declared after `workers_`, gone
first) and `JoinWorkers` (the destruction of the `jthread`s). A worker that comes
back to members that are gone does `UseDestroyed`, which is undefined: it finds the queue
empty and leaves, hangs (`hung`), or ends the process (`crashed`, after which no thread
takes a step). `JoinWorkers` waits for every worker to leave, so the destructor does not
return past a worker that hangs. `DestructorReturns` says that this is the only way for it not to return.

### Buffer

Sizes in units of 32 KB: `Initial` 4 (128 KB), `Chunk` 2 (64 KB), `Threshold` 8
(256 KB); `MaxSize` is 16 units where the code's MAX_BUFFER_SIZE of 4 MB is 128, so
that the limit is reached. `input` says which of a connection's two buffers it is. A cell
holds the position in the stream of the unit that was copied into it, so that a
lost, repeated or swapped unit shows. `make_space` is computed by `Moves`, `Grows`,
`SizeAfter`, `RoomAfter` in the order of the code. `Append` with less room than
bytes writes behind the vector: the state `undefined`, which absorbs. The
claims about contents and indices are claims up to that point.

### TcpServer

`numReactors = 1` is single mode, whose `epoll_wait` has no timeout, `numReactors > 1`
multi mode, which wakes up every 100 ms. In both an accept thread runs the loop and may
block in `accept4`. After `AcceptGet` come the outcomes of `accept4`:
a client, nothing there, a failure, a listening socket that was shut down (`Accept4`,
`Accept4Blocks`, `Accept4Fails`).
A connection within the limit is handed over (`AddConnection`) and counted in
`total_connections` (`CountConnection`) in two steps, in this order in multi mode and in the
other in single mode (`Admit`); its reactor may register and close it in between.
`ResetServerFd`, `ShutListener`, `CloseListener` are the three moments of
`server_fd_.reset()`: the pointer becomes null, then the deleter runs. The acceptor
reads `server_fd_` without synchronisation; `Dereference` of a null pointer is the
state `crashed`, which ends the process. `MakeReactors` lets the constructor of a
reactor fail: it swallows the exception and leaves a reactor without a thread, to
which connections go all the same. The reactors are abstracted to an inbox, a
count of active connections and a count of closed ones; `SubReactor` has the rest.

### HttpParser and HttpPipeline

Text is a sequence of pieces, the places where a segment may end: half a request
line, a header field, an end of line, a unit of a body. A piece knows the request it
belongs to, so that a request put together from the wrong pieces shows. A shape says
what a peer means; `RequestText` writes it down, `Meant` says what the parser must
make of it, and neither uses the machine. The operators `Take...` are the turns of the
loop in `parse()`. Where text is glued together from pieces that do not belong
together, the verdict on it as a request line depends on the length of its words and is left open
(`RequestLineVerdicts`).

`HttpPipeline` runs the machine inside `handle_read`: `ReadSome(n)` takes a segment,
`ParsePartial`, `ParseLine` and `ParseBody` are the turns of the parser, `Incomplete`
and `Complete` the two ways `handle_read` goes on, `ServeSubmit` and `ServeInline` the
loop over `pending_requests_`, `TakeTask`, `TaskReply` and `TaskShutdown` a worker.
Whether there is a pool, and how many workers it has, is chosen in the initial state.
The reactor's functors are left to `SubReactor`: the output buffer is written whenever
the reactor is between two reads. `cut` remembers whether a read has ended inside a
request, because from there on the code misreads its input (section 6).

### Dialogue

Both directions are streams cut anywhere. A byte is its message and its place in it,
which is what tells a length, a newline or a body from another. The client's actions
are the calls of the command line client, a call that writes twice in two steps
(`SendStart`, `SendBody`); the server's are the turns of `handle_line_protocol` and
`handle_protobuf` (`HandleLine`, `HandleFrame`) after `ServerReads` with the detection.
What protobuf or text a message holds is reduced to what the code tells apart: control
the name of an HTTP method at the beginning (`GET up`), " HTTP/", lines
that are empty after trimming, bodies that do not parse, sizes. A text client that leaves sends
`quit`, a line like any other, and does not wait for its echo (`SendQuit`). A reply that is
too large for the output buffer closes the connection; which replies are is left open. A peer that is taken for HTTP is not followed any further.

### Metrics and Descriptors

`Metrics` takes one step per access to an atomic that another thread writes, in the
order of `refresh_qps`, with a subtraction modulo `Word`. `Handle` is the router up to the
count: a route, a route that throws and an unknown path all return to the middleware and differ
only in text, so that they are one step, and no property is stated of the counting.

`Descriptors` takes one step per system call: `Linger`, `CloseSafe`, `ShutBoth`,
`DeleterCloses`, `DestructorCloses`. The kernel gives out the lowest free number.

## 3. Runs

| Run | Instance | Question |
|---|---|---|
| `reactor_reuse` | 2 connections on 1 descriptor, 1 worker, 2 requests, output limit 1, idle timeout | Do map, timeouts, metric, functor queue and replies survive reuse of a number, a worker's close, an overflow, a timeout and a shutdown at any moment? `TypeOK`, `NoLostFunctor`, `NoLostWrite`, `NoFalseEof`, `ActiveMatchesMap`, `TimeoutCover`, `MapIsCurrent`, `NothingLeftBehind` |
| `reactor_live` | 1 connection, 1 worker, a request or two lines, output limit 2, idle timeout, fair, a client that reads | `OutputIsFlushed`, `AcceptedIsServed`, `DeadEntryLeaves`, `DescriptorsReturn`, `ShutdownReturns` |
| `pool` | 3 workers, 2 submitters, 3 tasks, fair | `NoLostWakeup`, `OnlyQueuedLost`; the pool implements `TaskQueue` (`QueueSpec`); `EveryTaskRuns`, `DestructorReturns` |
| `buffer` | 18 units through a vector of at most 16, as input and as output buffer | `TypeOK`, `HoldsStream`, `ShortOnlyIfStranded` |
| `server` | 1, 2 or 3 reactors, limit 2, 5 clients, 1 failed call, fair | `Accounting`, `Balanced`, `NothingToStopped`, `ShutdownReturns`, `BacklogDrains` |
| `http` | pipelines of 2 and 3 requests of 8 shapes, 0, 1 or 2 workers, pipeline limit 2, fair | Is every pipeline understood and answered? `UnderstoodUncut`, `ErrorCloses`, `RepliesMatch`, `LimitIsBacklog`, `AllAnswered` |
| `dialogue` | 3 messages in text, protobuf or HTTP, bodies of 3, 4 and 7 bytes, frame limit 6, fair | Does a client stay in step with the server, and where can it stall? `DetectedRight`, `FramesAligned`, `InStep`, `StallsOnly`, `CallReturns` |
| `metrics` | 3 threads, 4 requests, 3 windows of time | `RateIsPlausible` |

All of these hold. Four more runs, `http_split`, `http_close`, `double_close` and
`server_crash`, each show a disagreement between the code and what the repository says of it
(section 6).

Several of these properties say where the code is right and where it stops being so,
because the code does not promise more: `UnderstoodUncut` holds as long as no read
ends inside a request; `StallsOnly` and `DetectedRight` list the cases in which a
client is left waiting or its protocol mistaken; `RepliesMatch` promises the order of
the replies for at most one worker; `OnlyQueuedLost` allows the destructor to
discard what is still queued, and `DestructorReturns` excepts the use of members that are gone;
`MapIsCurrent` and `NoLostWrite` hold until a number's second close hits another connection;
`Accounting` is exact but for the connection in the accept thread's hands.

### Bounds, and why they are enough

* Reactor: one descriptor for two connections is the smallest instance in which a
  number is reused, and with it the smallest in which a second close can hit; one worker is
  enough for a reply, or a close, to get between any two steps of the reactor, and two
  requests for a reply to meet a buffer that is not empty, which with an output
  limit of 1 is also the overflow. In `reactor_live` a connection may speak HTTP, answered by the
  worker, or lines, answered by the reactor. `MaxPipeline` is the code's limit on requests that one
  read may bring, `MaxMsgs` bounds what a client sends. More workers and connections are covered by the
  theorems of section 5, which hold for any sizes, and so is HTTP without a pool
  (`Workers = {}`), which takes the steps of the line protocol. `reactor_reuse` identifies states
  that differ only in what the client of a closed connection did (`OpenView`): no action
  and no invariant reads that.
* Pool: with three workers and two submitters a notification can meet nobody, one
  of several sleepers, or a worker that was woken spuriously.
* Buffer: `MaxBytes` 18 is more than the largest vector, so that data is moved to
  the front, grown and appended again. Initial size, chunk and threshold keep the code's
  proportions; the limit on the size is lower, and the theorems hold for the real one.
* Server: the number of reactors is chosen in the initial state, so that one run
  covers both accept loops; five clients over three reactors go around the ring more
  than once; `MaxAccept` 2 (100 in the code) makes the acceptor leave the accept loop
  with clients waiting; one failed call is a failed accept or a failed reactor.
* HTTP: the second of two requests meets everything the first can leave in the parser,
  the buffer and the pipeline; three requests go over a limit of two. The header limit of 4 pieces is
  more than any line of well-formed text has and less than text that is glued together.
* Dialogue: a body of 3 bytes is shorter than a length, one of 4 as long, one of 7 over
  the limit; the third message is sent over whatever the second left behind.
* Metrics: three threads are two calls of `refresh_qps` and a request that is counted
  between their reads.

Symmetry of connections, descriptors, workers and tasks is used in safety runs
only. Deadlock is checked everywhere but in `buffer` and `double_close`: there the
stream ends after `MaxBytes`, or every connection has ended, and nothing is left to do. In the other modules `Terminated` is a
stutter in the state where the program is over.

## 4. Fairness

* `SubReactor`: weak fairness of the reactor thread, of each worker, of the second
  half of `add_connection`, of the second close of a connection and of the thread that shuts
  down once it has begun; threads of a preemptive system run. Of the clients only
  reading is fair, which `OutputIsFlushed` needs; they need not send or leave.
  `DescriptorsReturn`, `DeadEntryLeaves` and `ShutdownReturns` are claimed under `ClockRuns`, that the timerfd fires and
  deadlines pass, because clocks advance. `OutputIsFlushed` and
  `AcceptedIsServed` hold without it: an idle timeout that closes the connection does not stand in for a
  lost wakeup.
* `WorkerPool`: weak fairness of workers, of pending notifications and of a
  destructor that has begun; none of them takes a step in a process that is dead.
* `TcpServer`: weak fairness of the acceptor, the thread that shuts down and the
  reactors' registrations. Clients, and closes of connections, are not fair.
* `HttpPipeline`: weak fairness of the reactor's thread and of each worker, and what a
  peer has sent arrives, in segments of any size.
* `Dialogue`: weak fairness of the reactor's thread, of the idle timeout (the clock
  advances; `CallReturns` needs it for the stalls), and of a client inside a call: its user need not type anything.
* `Metrics` and `Descriptors` state safety only.

## 5. What is proved

The proofs hold for every value of the constants that satisfies the module's
assumption: `ConstAssumption` (finitely many descriptors, markers such as `NoFd` outside the
sets they mark, positive limits), `PoolAssumption` (finitely many threads, at least
one worker), `BufferAssumption` (positive sizes, a chunk no larger than the first
vector, a vector that may double), `MetricsAssumption` (finitely many threads, a word
that holds the number of requests), `ServerAssumption` (at least one reactor,
an accept count that is not zero, naturals for the other bounds), `DialogueAssumption` (modes
among the client's three, bodies that are not empty, naturals for the frame limit and
the number of messages) and `ParserAssumption` with `PipelineAssumption` (finitely many workers, a pipeline limit
that is not zero, streams of shapes in which a body and a `Content-Length` go together).

| Theorem | Property | Argument |
|---|---|---|
| `SubReactorProofs!TypeCorrect` | `TypeOK` | inductive as it is, action by action |
| `SubReactorProofs!FunctorsNeverLost` | `NoLostFunctor` | `FunctorInv`: the property and what it needs of the program counters, because whether a functor is covered depends on which half of a queue-then-wake a thread is in |
| `SubReactorProofs!TimeoutsCoverMap` | `TimeoutCover` | the map and the timeouts change only together (`MapStep`) |
| `SubReactorProofs!ActiveIsMapSize` | `ActiveMatchesMap` | the same `MapStep`, with the cardinality of one more or one fewer entry |
| `SubReactorOwnership!MapStaysCurrent` | `MapIsCurrent` | up to `cut`; `OwnInv`: who holds a number (`OwnerInv`), what is queued for it (`QueueInv`), what an entry says (`EntryInv`), and where the threads are (`PhaseInv`); the property alone says nothing of connections that are queued and not yet in the map |
| `SubReactorOwnership!WritesNeverLost` | `NoLostWrite` | up to `cut`; `OwnInv` with `ServedInv` and `HeldInv`: the functor queued for a number reaches the connection it was meant for, or that connection is dead |
| `SubReactorOwnership!NothingOutlivesReactor` | `NothingLeftBehind` | `EndInv`, what the loop has left behind when it ends |
| `SubReactorOwnership!EofIsNeverFalse` | `NoFalseEof` | `BatchInv`: a batch has one event per descriptor, and none for the one in hand; only the handler of the connection in hand takes from a socket (`ReadStep`), so that what an event announced is still there when its turn comes |
| `WorkerPoolProofs!PoolTypeCorrect` | `TypeOK` | inductive |
| `WorkerPoolProofs!TasksInOrder` | `InOrder` | inductive with the types |
| `WorkerPoolProofs!PoolImplementsQueue` | `QueueSpec` | refinement: `Submit` and `Take` are the two abstract steps, everything else stutters |
| `WorkerPoolProofs!SleepersWoken` | `NobodyAsleep` | after the stop no `Wait` can begin |
| `WorkerPoolProofs!WakeupsNeverLost` | `NoLostWakeup` | counting: tasks that wait against workers and notifications under way |
| `WorkerPoolProofs!DestructorFinishesTasks` | `OnlyQueuedLost` | `HandsInv`: a task that was taken is finished or in a worker's hands, and all workers are gone at the end; with `InOrder` |
| `MetricsProofs!RateNeverWraps` | `RateIsPlausible` | `RateInv`: a thread in `refresh_qps` has read a last count that the counter had already reached, and before it read the counter; proved together with `CountInv` (what is begun is answered or in a thread's hands, so that the counter has room for what is counted next), because the rate fits its word only if it is plausible |
| `BufferProofs!IndicesInBounds` | `TypeOK` | `Inv` = `TypeOK` with `HoldsStream` and `OutputHeld`: the amount that is in the buffer bounds the indices after a move |
| `BufferProofs!ContentsAreStream` | `HoldsStream` | the same invariant; a move shifts a block of consecutive positions |
| `BufferProofs!StrandedOnly` | `ShortOnlyIfStranded` | arithmetic of `make_space` |
| `TcpServerProofs!ClientsAccounted` | `Accounting` | `ServerInv`, whose parts say where the accept thread and the shutdown are with respect to each other (`StageInv`, `LoopInv`), in whose hands a client is (`HandoverInv`, `ClientInv`) and what the reactors' counters add up to (`SumInv`); a sum is the cardinality of a set of units, so that one more or one fewer is a theorem about finite sets |
| `TcpServerProofs!RoundRobin` | `Balanced` | `TurnInv`: there is a base such that every reactor in use was given that many connections, and one more if it is before the one whose turn it is; `Balanced` alone does not say whose turn it is |
| `TcpServerProofs!StoppedGetNothing` | `NothingToStopped` | `HandoverInv` with `StageInv`: a connection is in the accept thread's hands only while the reactors run, because shutdown stops them after it joined that thread |
| `DialogueProofs!FramesInStep` | `FramesAligned` | `DialogueInv`: its `StreamInv` says which bytes of which message the socket, the input buffer and the client still hold, so that what lies at the front of the buffer is known |
| `DialogueProofs!ProtocolDetected` | `DetectedRight` | inductive with `StreamInv`: the first read is a prefix of the first message |
| `DialogueProofs!AnswersInStep` | `InStep` | `ReplyInv` and `HandledInv`: what is on its way back belongs to the last message, and there is nothing of it before the server has handled that |
| `DialogueProofs!OnlyTheseStall` | `StallsOnly` | `ProtocolInv` and `HandledInv`: a message that is not handled is in the buffer, and what keeps the loop from it is one of the cases |
| `HttpPipelineProofs!ErrorsClose` | `ErrorCloses` | `ErrorInv`: an error is one that this call of `parse()` has met, or the one that it does not report |
| `HttpPipelineProofs!LimitOnBacklog` | `LimitIsBacklog` | `FlowInv` below; no more replies than requests that a handler was given, by the pigeonhole principle |
| `HttpPipelineProofs!RepliesInOrder` | `RepliesMatch` | `FlowInv`: the requests handed over are those taken by a handler, those queued as tasks and those pending, in this order (`QueueInv`); a request in a handler's hands is unanswered (`HandlerInv`); with one worker the replies are all that was taken, but for the one in hand (`OrderInv`) |
| `HttpPipelineProofs!PipelinesUnderstood` | `UnderstoodUncut` | `UncutInv`: input buffer and socket together are the stream from the first request that was not handed over (`ViewInv`, `WireInv`), and the parser has made of that request what its text up to `consumed` says (`ParserAt`) |

`PoolTypeCorrect`, `TasksInOrder` and `SleepersWoken` state properties that no run
checks separately: `QueueSpec` and `DestructorReturns` imply the latter two.

The inductive invariants were checked with TLC on the instances of section 3 before they
were proved.

`StreamText` is a recursion over the stream, and `EndOfLine` chooses the least of a set.
`HttpPipelineProofs` reasons about both with two lemmas of its own: a set of naturals that is not empty has a
least element (`Least`, from the library's theorem on well-founded relations), and a set
that holds 0 and every successor holds all naturals (`Induct`). They are about sets where the
library's induction is about predicates, which the provers do not instantiate.

Every invariant of a passing run is proved. Checked with TLC and not proved: the liveness
properties (`OutputIsFlushed`, `AcceptedIsServed`, `DeadEntryLeaves`, `DescriptorsReturn`,
`EveryTaskRuns`, `DestructorReturns`, `BacklogDrains`, `AllAnswered`,
`CallReturns` and `ShutdownReturns`), because fairness and `ENABLED` are out of the prover's
reach. `Descriptors` has a run that shows a violation, and no theorem.

## 6. Disagreements found

| Run | What the code does |
|---|---|
| `http_split` | a read that ends inside a request leaves the loop before the input buffer is retrieved, although the parser has taken its lines; the next read parses them once more, and the request is refused or misunderstood. The README (line 10) says that the parser supports requests in pieces |
| `http_close` | the reply to a request that asks to close the connection is still in the output buffer when `shutdown` clears it. The README (line 12) says that remaining data is sent first |
| `double_close` | `shutdown` closes a number, and `socket_.reset()` shuts it down and closes it twice more; by then another connection may have it. `base_connection.cpp:25` says "Confirm close once" |
| `server_crash` | `shutdown` resets `server_fd_` before it joins the accept thread, which then dereferences a null pointer. `tcp_server.cpp:342` says that `shutdown` is thread-safe |

Also seen while modelling, without a run of its own:

* A new connection is dropped when its number is still in the map under a connection
  that a worker closed (`sub_reactor.cpp:100`); the states are in `reactor_reuse`.
* A worker may call `enable_writing` on a reactor that is destroyed, because the pool is
  stopped after the reactors (`tcp_server.cpp:367`).
* The pool's destructor discards accepted tasks, and a worker may use members that are
  gone (`worker_pool.cpp:19`); the server logs "Draining worker pool..."
  (`tcp_server.cpp:370`).
* `append` may have less room than it needs: `make_space` counts the free space in
  front without moving the data (`buffer_utils.h:146`). The same gap makes `read_fd` read with a
  length of 0, and `handle_read` takes the 0 for the peer's close. `ShortOnlyIfStranded` says when.
* A reactor whose constructor failed has no thread, and keeps the connections it is given
  in its queue until shutdown (`sub_reactor.cpp:34`).
* A text line such as "GET up" is taken for HTTP (`epoll_connection.cpp:275`, an exception
  of `DetectedRight`).
* A deadline that is equal to the time of a sweep is past for the loop of `check_timeouts` and
  not for its idle test (`sub_reactor.cpp:364` and `:370`); its entry goes back under the same key, and
  with two such entries the loop would not end.
* For HTTP/1.0 `check_headers` looks for `Connection` in exactly this spelling
  (`http_types.cpp:159`), while `parse_header_line` takes it in any.
* With two or more workers, replies to pipelined requests may leave in another order
  than the requests came (`epoll_connection.cpp:112`; the comment at line 96 says "in order").
* The pipeline limit counts the requests of one read, not the tasks already submitted.
* A header line that is too long leaves the parser in its error state without an error
  report: the connection stays open and deaf until its idle timeout (`ErrorCloses`).
* The 400 for a malformed request is put into the output buffer and cleared by the
  `shutdown` that follows.
* A protobuf body shorter than four bytes that arrives after its length waits for bytes
  that do not come (`epoll_connection.cpp:332`, in `StallsOnly`).
* `tcp_client.h:6` speaks of an automatic reconnect; `connected_` is never set again.
* `refresh_qps` calls its time milliseconds and takes microseconds: its rate is one per
  millisecond.
* The task of a worker closes the socket (`TaskClose`); the README (line 7) says that
  I/O is done in the reactor thread only.
* A drained output buffer keeps its size: `shrink_to_fit` gives back nothing below
  `size()`; the README (line 8) speaks of shrinking.
* The README (line 13) says that timeouts are scanned at the end of each round of the
  loop; the code scans them when a 5 s timerfd fires.

## 7. Not modelled

* gRPC: calls into a library that does the work.
* The router's table, which is filled before `start` and never changes, and the text of
  what routes answer; the JSON of the metrics, uptime and the average rate, which only read.
* `main`, string utilities: configuration, a signal wait and formatting. `main` fixes the
  instance: 8 reactors, 4 workers, an idle timeout of 60 s.
* Of `SubReactor`: failures of `epoll_wait`, and `disable_writing` from another thread
  (no code does it). What happens after a second close has hit another connection
  (`cut`). Clock readings: a deadline is past or not, and equality is not represented. `handle_read`
  is one step; a worker's close between its `is_alive` and its read counts as one
  before, and a number that is closed and given to another connection within that gap is left out.
* Of the parser: the spelling of header names; a field is written as `check_headers` looks it up.
* Of the connection: `handle_error` and overloads of `send` that nobody calls.
* Of `TcpServer`: failures of the system calls inside `start`, and of
  `add_connection`. The connection limit may be overshot by connections that are still
  in a functor queue; no document promises more, and no property is stated of it.
* Of `TcpClient`: `receive(max_len)`, which nobody calls, and writes that are cut short by a signal.
* `Dialogue` has one client and one connection; several connections meet in `SubReactor`
  and `TcpServer`.

## 8. Plan

Done: all modules of section 2, and of the invariants that the runs check, all are proved.
Left, in this order:

1. A composition in which `SubReactor` implements the reactor that `TcpServer` assumes: an
   inbox, active and closed connections, with its proof.
2. What the liveness properties rest on and is a safety property: that in every state in which
   something has to happen the step that does it is possible (no thread waits for one that is gone), proved
   for the pool's destructor and the server's shutdown.
3. For `Descriptors`, the part of `ClosedOnce` that holds: a number is closed twice only
   between the two closes of one `shutdown`.
