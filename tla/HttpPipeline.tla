---------------------------- MODULE HttpPipeline ----------------------------
(***************************************************************************)
(* One HTTP connection: handle_read with its parser, the pipeline of       *)
(* requests, the handlers (on the reactor's thread or on workers of the    *)
(* pool) and the replies.                                                  *)
(*                                                                         *)
(* The reactor's thread takes one step per turn of a loop in handle_read   *)
(* or in parse(); a worker one per point where another thread may come in  *)
(* between.  How a functor reaches the reactor is SubReactor's business:   *)
(* here the reactor writes the output buffer whenever it is between two    *)
(* reads.  Requests are named by their place in `handed`.                  *)
(***************************************************************************)
EXTENDS HttpParser, FiniteSets

CONSTANTS
    Workers,      \* threads of the WorkerPool
    Streams,      \* what a peer may send: sequences of shapes
    MaxPipeline   \* MAX_HTTP_PIPELINE

ASSUME PipelineAssumption ==
    /\ IsFiniteSet(Workers) /\ MaxPipeline \in Nat \ {0}
    /\ \A qs \in Streams : qs \in Seq(Shape)
    /\ \A qs \in Streams : \A i \in DOMAIN qs :
           (qs[i].len > 0) = (\E j \in DOMAIN qs[i].fields : qs[i].fields[j] = "length")

VARIABLES
    reqs,      \* the shapes of the requests the peer sends
    pool,      \* worker_pool_: the workers, {} when it is null
    wire,      \* sent by the peer and not yet read
    buf,       \* input_buffer_
    view, pos, \* data and consumed of the parse() call under way
    parser,    \* http_parser_
    rpc,       \* where the reactor's thread is in handle_read
    pending,   \* pending_requests_
    depth,     \* pipeline_depth_
    closing,   \* should_close
    running,   \* running_
    tasks,     \* tasks of this connection in the pool's queue
    wpc, wreq, \* where a worker is, and the request of its task
    out,       \* output_buffer_: replies, 0 for the 400 of a bad request
    \* --- history
    sent,      \* replies written to the socket
    handed,    \* requests taken from the parser, in order
    cut,       \* has a read ended inside a request?
    why, lost  \* why the connection was closed, with which replies unwritten

ioVars == <<reqs, pool, wire, buf, view, pos, parser>>
pipeVars == <<pending, depth, closing, handed>>
workVars == <<tasks, wpc, wreq>>
endVars == <<running, out, why, lost>>
vars == <<ioVars, rpc, pipeVars, workVars, endVars, sent, cut>>

Reasons == {"open", "eof", "bad", "limit", "close"}

TypeOK ==
    /\ reqs \in Streams /\ pool \subseteq Workers
    /\ wire \in Seq(Piece) /\ buf \in Seq(Piece) /\ view \in Seq(Piece)
    /\ pos \in 0..Len(view) /\ parser \in Parser
    /\ rpc \in {"idle", "parse", "result", "serve"}
    /\ handed \in Seq(Request)
    /\ pending \in Seq(DOMAIN handed) /\ depth = Len(pending)
    /\ closing \in BOOLEAN /\ running \in BOOLEAN /\ cut \in BOOLEAN
    /\ tasks \in Seq(DOMAIN handed)
    /\ wpc \in [Workers -> {"idle", "handle", "close"}]
    /\ wreq \in [Workers -> 0..Len(handed)]
    /\ out \in Seq(0..Len(handed)) /\ sent \in Seq(0..Len(handed))
    /\ why \in Reasons /\ lost \in Seq(0..Len(handed))

Init ==
    /\ reqs \in Streams /\ pool \in SUBSET Workers
    /\ wire = StreamText(reqs) /\ buf = <<>> /\ view = <<>> /\ pos = 0
    /\ parser = Fresh /\ rpc = "idle"
    /\ pending = <<>> /\ depth = 0 /\ closing = FALSE /\ handed = <<>>
    /\ running = TRUE /\ out = <<>> /\ why = "open" /\ lost = <<>>
    /\ tasks = <<>> /\ wpc = [w \in Workers |-> "idle"] /\ wreq = [w \in Workers |-> 0]
    /\ sent = <<>> /\ cut = FALSE

-----------------------------------------------------------------------------
(* BaseConnection, as far as a reply depends on it.                         *)

\* shutdown(): closes the socket and clears the buffers, whoever calls it; the
\* first call counts.  `unwritten` is what the output buffer holds.
Shutdown(reason, unwritten) ==
    /\ running' = FALSE
    /\ out' = <<>>
    /\ why' = IF running THEN reason ELSE why
    /\ lost' = IF running THEN unwritten ELSE lost

\* send(): into the output buffer; nothing on a closed connection
Sent(r) == IF running THEN Append(out, r) ELSE out

Reply(r) == out' = Sent(r) /\ UNCHANGED <<running, why, lost>>

\* the readable part after retrieve(n); a worker's shutdown may have emptied it
Retrieve(b, n) == IF n < Len(b) THEN SubSeq(b, n + 1, Len(b)) ELSE <<>>

-----------------------------------------------------------------------------
(* handle_read: the reactor's thread.                                       *)

\* A segment of n pieces arrives and read_fd takes it.
ReadSome(n) ==
    /\ rpc = "idle" /\ running /\ n \in 1..Len(wire)
    /\ buf' = buf \o SubSeq(wire, 1, n)
    /\ wire' = SubSeq(wire, n + 1, Len(wire))
    /\ view' = buf' /\ pos' = 0
    /\ closing' = FALSE
    /\ rpc' = "parse"
    /\ UNCHANGED <<reqs, pool, parser, pending, depth, handed, workVars, endVars, sent, cut>>

\* read_fd returns 0: the peer has closed its side.
ReadEof ==
    /\ rpc = "idle" /\ running /\ wire = <<>>
    /\ Shutdown("eof", out)
    /\ buf' = <<>>
    /\ UNCHANGED <<reqs, pool, wire, view, pos, parser, rpc, pipeVars, workVars, sent, cut>>

Rest == SubSeq(view, pos + 1, Len(view))

\* The loop of parse() runs while there is data and the request is unfinished.
Parsing == rpc = "parse" /\ pos < Len(view) /\ parser.state \notin {"complete", "error"}

ParsePartial ==
    /\ Parsing /\ parser.state \in {"line", "header"} /\ EndOfLine(Rest) = 0
    /\ parser' = TakePartial(parser, Rest)
    /\ pos' = Len(view)
    /\ rpc' = "result"
    /\ UNCHANGED <<reqs, pool, wire, buf, view, pipeVars, workVars, endVars, sent, cut>>

ParseLine ==
    /\ Parsing /\ parser.state \in {"line", "header"} /\ EndOfLine(Rest) # 0
    /\ LET line == parser.temp \o SubSeq(Rest, 1, EndOfLine(Rest) - 1)
       IN \/ /\ parser.state = "line"
             /\ \E good \in RequestLineVerdicts(line) :
                    parser' = TakeRequestLine(parser, line, good)
          \/ parser.state = "header" /\ line = <<>> /\ parser' = TakeBlankLine(parser)
          \/ parser.state = "header" /\ line # <<>> /\ parser' = TakeHeader(parser, line)
    /\ pos' = pos + EndOfLine(Rest)
    /\ UNCHANGED <<reqs, pool, wire, buf, view, rpc, pipeVars, workVars, endVars, sent, cut>>

ParseBody ==
    /\ Parsing /\ parser.state = "body"
    /\ parser' = TakeBody(parser, Rest)
    /\ pos' = pos + BodyTaken(parser, Rest)
    /\ UNCHANGED <<reqs, pool, wire, buf, view, rpc, pipeVars, workVars, endVars, sent, cut>>

ParseErrorMutant ==
    /\ rpc = "parse" /\ parser.state = "error" /\ pos > 0
    /\ Reply(0)
    /\ rpc' = "idle"
    /\ UNCHANGED <<ioVars, pipeVars, workVars, sent, cut>>

\* The loop ends.  result.has_error goes with an error state entered in this
\* call: a parser that was in it, or ran out of room, reports none.
ParseError ==
    /\ rpc = "parse" /\ parser.state = "error" /\ pos > 0
    /\ Shutdown("bad", Sent(0))
    /\ buf' = <<>> /\ rpc' = "idle"
    /\ UNCHANGED <<reqs, pool, wire, view, pos, parser, pipeVars, workVars, sent, cut>>

ParseEnds ==
    /\ rpc = "parse" /\ ~Parsing /\ ~(parser.state = "error" /\ pos > 0)
    /\ rpc' = "result"
    /\ UNCHANGED <<ioVars, pipeVars, workVars, endVars, sent, cut>>

\* "Data is incomplete": out of the loop, and nothing is retrieved.
Incomplete ==
    /\ rpc = "result" /\ parser.state # "complete"
    /\ rpc' = "serve"
    /\ cut' = TRUE
    /\ UNCHANGED <<ioVars, pipeVars, workVars, endVars, sent>>

OverLimitMutant(d) == d >= MaxPipeline
OverLimit(d) == d > MaxPipeline

\* while (input_buffer_.readable_bytes() > 0 && is_alive())
MoreToParseMutant(b) == FALSE
MoreToParse(b) == b # <<>> /\ running

\* A complete request: get_request() resets the parser, the request joins the
\* pipeline, and the loop goes on with what is left in the buffer.
Complete ==
    /\ rpc = "result" /\ parser.state = "complete"
    /\ parser' = Reset(parser)
    /\ handed' = Append(handed, parser.req)
    /\ pending' = Append(pending, Len(handed) + 1)
    /\ depth' = depth + 1
    /\ IF OverLimit(depth')
       THEN /\ Shutdown("limit", out)
            /\ buf' = <<>> /\ rpc' = "idle"
            /\ UNCHANGED <<view, pos, closing>>
       ELSE /\ closing' = (closing \/ ~KeepAlive(parser.req))
            /\ buf' = Retrieve(buf, pos)
            /\ view' = buf' /\ pos' = 0
            /\ rpc' = IF MoreToParse(buf') THEN "parse" ELSE "serve"
            /\ UNCHANGED endVars
    /\ UNCHANGED <<reqs, pool, wire, workVars, sent, cut>>

-----------------------------------------------------------------------------
(* "Process ready requests in order".                                       *)
Serving == rpc = "serve" /\ pending # <<>> /\ running

ServeNext ==
    /\ pending' = Tail(pending)
    /\ depth' = depth - 1
    /\ UNCHANGED <<ioVars, rpc, handed, wpc, wreq, sent, cut>>

ServeSubmit ==
    /\ Serving /\ pool # {}
    /\ tasks' = Append(tasks, Head(pending))
    /\ ServeNext
    /\ UNCHANGED <<closing, endVars>>

\* The handler on this thread: it answers, or throws and a 500 goes out; the
\* connection is closed after the last request of the read.
ServeInline(thrown) ==
    /\ Serving /\ pool = {}
    /\ closing' = (closing \/ thrown)
    /\ IF closing' /\ Tail(pending) = <<>>
       THEN Shutdown("close", Sent(Head(pending)))
       ELSE Reply(Head(pending))
    /\ ServeNext
    /\ UNCHANGED tasks

ReadDone ==
    /\ rpc = "serve" /\ ~Serving
    /\ rpc' = "idle"
    /\ UNCHANGED <<ioVars, pipeVars, workVars, endVars, sent, cut>>

\* handle_write, between two reads
WriteOut ==
    /\ rpc = "idle" /\ running /\ out # <<>>
    /\ sent' = sent \o out /\ out' = <<>>
    /\ UNCHANGED <<ioVars, rpc, pipeVars, workVars, running, why, lost, cut>>

-----------------------------------------------------------------------------
(* The task a worker runs.                                                  *)
TakeTaskMutant(w) ==
    /\ w \in pool /\ wpc[w] = "idle" /\ tasks # <<>>
    /\ tasks' = SubSeq(tasks, 1, Len(tasks) - 1)
    /\ wreq' = [wreq EXCEPT ![w] = tasks[Len(tasks)]]
    /\ wpc' = [wpc EXCEPT ![w] = IF running THEN "handle" ELSE "idle"]
    /\ UNCHANGED <<ioVars, rpc, pipeVars, endVars, sent, cut>>

TakeTask(w) ==
    /\ w \in pool /\ wpc[w] = "idle" /\ tasks # <<>>
    /\ tasks' = Tail(tasks)
    /\ wreq' = [wreq EXCEPT ![w] = Head(tasks)]
    /\ wpc' = [wpc EXCEPT ![w] = IF running THEN "handle" ELSE "idle"]
    /\ UNCHANGED <<ioVars, rpc, pipeVars, endVars, sent, cut>>

\* http_handler_ sends the reply, or throws and the task sends a 500
TaskReply(w, thrown) ==
    /\ wpc[w] = "handle"
    /\ Reply(wreq[w])
    /\ wpc' = [wpc EXCEPT ![w] =
                   IF thrown \/ ~KeepAlive(handed[wreq[w]]) THEN "close" ELSE "idle"]
    /\ UNCHANGED <<ioVars, rpc, pipeVars, tasks, wreq, sent, cut>>

\* shutdown() on the worker's thread; it empties the input buffer too
TaskShutdown(w) ==
    /\ wpc[w] = "close"
    /\ Shutdown("close", out)
    /\ buf' = <<>>
    /\ wpc' = [wpc EXCEPT ![w] = "idle"]
    /\ UNCHANGED <<reqs, pool, wire, view, pos, parser, rpc, pipeVars, tasks, wreq, sent, cut>>

-----------------------------------------------------------------------------
Reactor ==
    \/ ParsePartial \/ ParseLine \/ ParseBody \/ ParseError \/ ParseEnds
    \/ Incomplete \/ Complete
    \/ ServeSubmit \/ (\E thrown \in BOOLEAN : ServeInline(thrown)) \/ ReadDone
    \/ WriteOut

Worker(w) ==
    TakeTask(w) \/ (\E thrown \in BOOLEAN : TaskReply(w, thrown)) \/ TaskShutdown(w)

Terminated ==
    /\ ~running /\ rpc = "idle" /\ tasks = <<>> /\ \A w \in Workers : wpc[w] = "idle"
    /\ UNCHANGED vars

Next ==
    \/ \E n \in 1..Len(wire) : ReadSome(n)
    \/ ReadEof \/ Reactor
    \/ \E w \in Workers : Worker(w)
    \/ Terminated

Spec == Init /\ [][Next]_vars

(* Threads run, and what the peer has sent arrives.                         *)
Fairness ==
    /\ WF_vars(Reactor) /\ \A w \in Workers : WF_vars(Worker(w))
    /\ WF_vars(\E n \in 1..Len(wire) : ReadSome(n))
FairSpec == Spec /\ Fairness

-----------------------------------------------------------------------------
(* Safety.                                                                  *)

(* What was taken from the parser is what the peer meant, request by        *)
(* request, and only a malformed request is refused.                        *)
Understood ==
    /\ \A i \in DOMAIN handed : i <= Len(reqs) /\ handed[i] = Meant(i, reqs[i])
    /\ why = "bad" => /\ Len(handed) < Len(reqs)
                      /\ ~WellFormed(reqs[Len(handed) + 1])

(* handle_read understands any pipeline of requests as long as no read ends *)
(* inside one.                                                              *)
UnderstoodUncut == ~cut => Understood

(* A parser in its error state has closed the connection, except after      *)
(* "Header too large", which parse() does not report: the connection stays  *)
(* open and deaf until its idle timeout.                                    *)
ErrorCloses ==
    parser.state = "error" /\ rpc = "idle" /\ running => Len(parser.temp) > MaxHeader

(* The replies, those lost in the output buffer at a close included.        *)
Replies == sent \o (IF running THEN out ELSE lost)

(* Nobody is answered twice; and on the reactor's thread or with a single   *)
(* worker the replies come in the order of the requests, none left out.     *)
RepliesMatch ==
    /\ \A i, j \in DOMAIN Replies : Replies[i] = Replies[j] => i = j
    /\ Cardinality(pool) <= 1 =>
           \A i \in DOMAIN Replies : Replies[i] = i \/ (Replies[i] = 0 /\ why = "bad")

(* pipeline_depth_ is the number of pending requests (in TypeOK), and its   *)
(* limit closes the connection only of a peer that has more than that many  *)
(* requests unanswered.                                                     *)
LimitIsBacklog ==
    /\ TypeOK
    /\ why = "limit" => Len(handed) - Len(Replies) > MaxPipeline

(* Liveness: once everything a peer sent has arrived, uncut, every request  *)
(* is answered or the connection is closed: no request is left in the input *)
(* buffer for an edge that does not come.                                   *)
AllAnswered == (wire = <<>>) ~> (~running \/ cut \/ Len(sent) = Len(reqs))

-----------------------------------------------------------------------------
(* What the repository's README says.                                       *)

(* README.md:10: the incremental parser supports requests that arrive in    *)
(* pieces.                                                                  *)
SplitIsHarmless == Understood

(* README.md:12: a connection is closed after its remaining data was sent.  *)
ClosedAfterSending == why = "close" => lost = <<>>
=============================================================================
