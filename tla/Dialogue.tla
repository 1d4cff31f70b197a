------------------------------ MODULE Dialogue ------------------------------
(***************************************************************************)
(* A client and its connection: TcpClient as client/main.cpp drives it, in *)
(* text or in protobuf mode, and on the server's side the detection of the *)
(* protocol, the line protocol and the length-prefixed protobuf frames.    *)
(* A third kind of peer speaks HTTP; what becomes of it after the          *)
(* detection is the business of HttpPipeline.                              *)
(*                                                                         *)
(* Both directions are streams of bytes that arrive in segments cut        *)
(* anywhere.  A byte is its message and its place in it: in a frame the    *)
(* places 1..4 are the length, in a line the last place is the newline, of *)
(* an HTTP request the first four are the method and its blank.            *)
(***************************************************************************)
EXTENDS Integers, Sequences

CONSTANTS
    Modes,      \* the kinds of peer: a subset of "text", "protobuf", "http"
    BodySizes,  \* sizes of a serialised protobuf request
    MaxFrame,   \* the server's limit on a frame, 4 MB
    MaxMsgs     \* bound: messages one client sends

ASSUME DialogueAssumption ==
    /\ Modes \subseteq {"text", "protobuf", "http"}
    /\ BodySizes \subseteq Nat \ {0} /\ MaxFrame \in Nat /\ MaxMsgs \in Nat

Prefix == 4   \* bytes of the length in front of a frame
Huge == MaxFrame + 1

VARIABLES
    mode,        \* what the peer speaks
    \* --- client
    cpc,         \* where the client is
    connected,   \* connected_
    msgs,        \* messages sent, in order
    got,         \* history: the message whose reply was taken last, 0 if none
    \* --- network
    net, back,   \* bytes to the server, replies to the client
    \* --- server
    running,     \* running_
    spc,         \* where the reactor's thread is in handle_read
    buf,         \* input_buffer_
    out,         \* output_buffer_
    protocol,    \* use_http_mode_, use_protobuf_mode_ and protocol_determined_
    lengthRead, expected,  \* length_read_, expected_length_
    first        \* history: bytes the first read brought

clientVars == <<mode, cpc, connected, msgs, got>>
frameVars == <<lengthRead, expected>>
serverVars == <<running, spc, buf, out, protocol, frameVars, first>>
vars == <<clientVars, net, back, serverVars>>

(* Messages.  A line that holds only a CR is empty to the server; one of    *)
(* two is echoed as an empty line; "control" has a control character among  *)
(* its first bytes, "method" begins with the name of an HTTP method and a   *)
(* blank ("GET up"), and "httpish" has " HTTP/" at its end.  A request that *)
(* is not valid protobuf is "invalid".                                      *)
Messages(m) ==
    CASE m = "text" -> [kind : {"plain", "control", "httpish", "crcr"}, size : {2, 3}]
                       \cup [kind : {"cr"}, size : {1}] \cup [kind : {"method"}, size : {Prefix}]
      [] m = "protobuf" -> [kind : {"good", "invalid", "httpish"}, size : BodySizes]
      [] m = "http" -> [kind : {"request"}, size : {Prefix + 1}]

Total(m) == IF mode = "protobuf" THEN Prefix + m.size
            ELSE IF mode = "text" THEN m.size + 1 ELSE m.size
QuitLine == [kind |-> "plain", size |-> 2]   \* "quit", a line like any other
Bytes(n, a, b) == [j \in 1..(b - a + 1) |-> [msg |-> n, at |-> a + j - 1]]
Part == {"line", "empty", "length", "body"}

TypeOK ==
    /\ mode \in Modes
    /\ cpc \in {"connect", "ready", "body", "receive", "receiveBody", "left", "ended", "aborted"}
    /\ connected \in BOOLEAN /\ msgs \in Seq(Messages(mode)) /\ Len(msgs) <= MaxMsgs + 1
    /\ got \in 0..Len(msgs)
    /\ net \in Seq([msg : 1..Len(msgs), at : Nat \ {0}])
    /\ buf \in Seq([msg : 1..Len(msgs), at : Nat \ {0}])
    /\ back \in Seq([msg : 1..Len(msgs), part : Part])
    /\ out \in Seq([msg : 1..Len(msgs), part : Part])
    /\ running \in BOOLEAN /\ spc \in {"idle", "dispatch"}
    /\ protocol \in {"none", "text", "protobuf", "http"}
    /\ lengthRead \in BOOLEAN /\ expected \in 0..MaxFrame
    /\ first \in Nat

Init ==
    /\ mode \in Modes /\ cpc = "connect" /\ connected = FALSE /\ msgs = <<>> /\ got = 0
    /\ net = <<>> /\ back = <<>> /\ running = TRUE /\ spc = "idle"
    /\ buf = <<>> /\ out = <<>> /\ protocol = "none"
    /\ lengthRead = FALSE /\ expected = 0 /\ first = 0

-----------------------------------------------------------------------------
(* The client.                                                              *)

\* ensure_connection: connected within 5 s, or an exception that ends main
Connect(ok) ==
    /\ cpc = "connect"
    /\ connected' = ok
    /\ cpc' = IF ok THEN "ready" ELSE "ended"
    /\ UNCHANGED <<mode, msgs, got, net, back, serverVars>>

\* Bytes written to a server that is gone are lost.
Write(bytes) == net' = IF running THEN net \o bytes ELSE net

Send(m) ==
    /\ msgs' = Append(msgs, m)
    /\ Write(Bytes(Len(msgs) + 1, 1, IF mode = "protobuf" THEN Prefix ELSE Total(m)))

\* send_message, or the first write of send_protobuf; main lets the exception
\* of a client that is not connected go through, which ends the process.
SendStart ==
    /\ cpc = "ready" /\ Len(msgs) < MaxMsgs
    /\ IF connected
       THEN \E m \in Messages(mode) :
               /\ Send(m)
               /\ cpc' = IF mode = "protobuf" THEN "body" ELSE "receive"
       ELSE cpc' = "aborted" /\ UNCHANGED <<msgs, net>>
    /\ UNCHANGED <<mode, connected, got, back, serverVars>>

\* the second write of send_protobuf
SendBody ==
    /\ cpc = "body"
    /\ Write(Bytes(Len(msgs), Prefix + 1, Total(msgs[Len(msgs)])))
    /\ cpc' = "receive"
    /\ UNCHANGED <<mode, connected, msgs, got, back, serverVars>>

\* Any write to a connection that the server has closed may find it reset:
\* writen fails (SIGPIPE) and the client is over.
WriteFails ==
    /\ cpc \in {"ready", "body"} /\ connected /\ ~running
    /\ cpc = "ready" => mode = "text" \/ Len(msgs) < MaxMsgs
    /\ cpc' = "aborted" /\ connected' = FALSE
    /\ UNCHANGED <<mode, msgs, got, net, back, serverVars>>

\* receive_line: a line that is not empty is the answer; after an empty one
\* main calls receive_line again.
ReceiveLine ==
    /\ cpc = "receive" /\ back # <<>> /\ Head(back).part \in {"line", "empty"}
    /\ back' = Tail(back)
    /\ IF Head(back).part = "line"
       THEN got' = Head(back).msg /\ cpc' = "ready"
       ELSE UNCHANGED <<got, cpc>>
    /\ UNCHANGED <<mode, connected, msgs, net, serverVars>>

\* receive_protobuf: readn of the length, then readn of as many bytes
ReceiveLength ==
    /\ cpc = "receive" /\ back # <<>> /\ Head(back).part = "length"
    /\ back' = Tail(back) /\ cpc' = "receiveBody"
    /\ UNCHANGED <<mode, connected, msgs, got, net, serverVars>>

ReceiveBody ==
    /\ cpc = "receiveBody" /\ back # <<>>
    /\ back' = Tail(back) /\ got' = Head(back).msg /\ cpc' = "ready"
    /\ UNCHANGED <<mode, connected, msgs, net, serverVars>>

ReceiveEofMutant ==
    /\ cpc \in {"receive", "receiveBody"} /\ back = <<>> /\ ~running
    /\ UNCHANGED vars

\* recv or read returns 0, or an error: main reports it and asks for more input
ReceiveEof ==
    /\ cpc \in {"receive", "receiveBody"} /\ back = <<>> /\ ~running
    /\ connected' = FALSE /\ cpc' = "ready"
    /\ UNCHANGED <<mode, msgs, got, net, back, serverVars>>

Receive == ReceiveLine \/ ReceiveLength \/ ReceiveBody \/ ReceiveEof

\* A text client tells the server, which echoes that line too, and is gone
\* without waiting; main then lets an exception through as above.
SendQuit ==
    /\ cpc = "ready" /\ mode = "text" /\ Len(msgs) <= MaxMsgs
    /\ IF connected THEN Send(QuitLine) /\ cpc' = "left"
                    ELSE cpc' = "aborted" /\ UNCHANGED <<msgs, net>>
    /\ UNCHANGED <<mode, connected, got, back, serverVars>>

Quit ==
    /\ cpc = "ready" /\ mode # "text"
    /\ cpc' = "ended"
    /\ UNCHANGED <<mode, connected, msgs, got, net, back, serverVars>>

-----------------------------------------------------------------------------
(* The server: handle_read on the reactor's thread, one turn of a loop at a *)
(* time.                                                                    *)

\* shutdown(): what is in the output buffer is not written any more
Shutdown ==
    /\ running' = FALSE
    /\ buf' = <<>> /\ out' = <<>> /\ spc' = "idle"

Whole(b, n) == \E i \in DOMAIN b : b[i].msg = n /\ b[i].at = Total(msgs[n])

\* the last byte of a message, the newline of a line aside
Content(m) == IF mode = "text" THEN m.size ELSE Total(m)

\* a method and its blank in front, or " HTTP/" further on
LooksHttp(b) ==
    \/ (mode = "http" \/ msgs[1].kind = "method") /\ Len(b) >= Prefix
    \/ msgs[1].kind = "httpish" /\ \E i \in DOMAIN b : b[i].at = Content(msgs[1])

\* memchr of '\n': the end of a line, or the tag of a request's first field
HasNewline(b) ==
    IF mode = "text" THEN Whole(b, 1) ELSE \E i \in DOMAIN b : b[i].at = Prefix + 1

\* no control character among the first bytes; the first byte of a length below
\* the limit is one
Printable(b) == mode # "protobuf" /\ msgs[1].kind # "control"

LooksTextMutant(b) == HasNewline(b)
LooksText(b) == HasNewline(b) /\ Printable(b)

\* protocol_detected: once, on what the first read has brought
Detected(b) == IF LooksHttp(b) THEN "http" ELSE IF LooksText(b) THEN "text" ELSE "protobuf"

\* A segment of n bytes arrives, read_fd takes it, and the protocol is detected.
ServerReads(n) ==
    /\ spc = "idle" /\ running /\ n \in 1..Len(net)
    /\ buf' = buf \o SubSeq(net, 1, n)
    /\ net' = SubSeq(net, n + 1, Len(net))
    /\ IF protocol = "none" THEN protocol' = Detected(buf') /\ first' = n
                            ELSE UNCHANGED <<protocol, first>>
    /\ spc' = "dispatch"
    /\ UNCHANGED <<clientVars, back, running, out, frameVars>>

\* handle_line_protocol: the first line of the buffer.  The handler of main.cpp
\* echoes it without a CR; an empty line is skipped.
EchoOf(n) ==
    CASE msgs[n].kind = "cr" -> <<>>
      [] msgs[n].kind = "crcr" -> <<[msg |-> n, part |-> "empty"]>>
      [] OTHER -> <<[msg |-> n, part |-> "line"]>>

HandleLine ==
    /\ spc = "dispatch" /\ protocol = "text" /\ buf # <<>> /\ Whole(buf, buf[1].msg)
    /\ LET n == buf[1].msg
           eol == CHOOSE i \in DOMAIN buf : buf[i] = [msg |-> n, at |-> Total(msgs[n])]
       IN /\ buf' = SubSeq(buf, eol + 1, Len(buf))
          /\ out' = out \o EchoOf(n)
    /\ UNCHANGED <<clientVars, net, back, running, spc, protocol, frameVars, first>>

\* be32toh of the first four bytes: the length, if a length is what is there;
\* four characters of text are a number above the limit
LengthAt(b) ==
    IF mode = "protobuf" /\ b[1].at = 1 THEN msgs[b[1].msg].size ELSE Huge

EnoughForTurnMutant(b) == Len(b) > Prefix
EnoughForTurn(b) == Len(b) >= Prefix

TooLong(size) == size > MaxFrame

FrameReplyMutant(n) ==
    <<[msg |-> n, part |-> "length"], [msg |-> n, part |-> "body"]>>
    \o (IF msgs[n].kind = "invalid"
        THEN <<[msg |-> n, part |-> "length"], [msg |-> n, part |-> "body"]>> ELSE <<>>)

\* handle_protobuf_request, or send_protobuf_error for a body that does not parse
FrameReply(n) == <<[msg |-> n, part |-> "length"], [msg |-> n, part |-> "body"]>>

AfterFrameMutant == UNCHANGED lengthRead
AfterFrame == lengthRead' = FALSE

\* handle_protobuf, one turn: read the length unless an earlier call has; then
\* a whole body is taken and answered, and an incomplete one is left for the
\* next read.  An echo holds the body twice, so that the reply to a long one is
\* above the limit of the output buffer, and send() closes the connection; which
\* replies are is left open.  (Of a connection that is shut down nothing reads
\* length_read_ again.)
HandleFrame ==
    /\ spc = "dispatch" /\ protocol = "protobuf" /\ EnoughForTurn(buf)
    /\ LET size == IF lengthRead THEN expected ELSE LengthAt(buf)
           body == IF lengthRead THEN buf ELSE SubSeq(buf, Prefix + 1, Len(buf))
       IN \/ TooLong(size) /\ Shutdown /\ UNCHANGED frameVars
          \/ Len(body) >= size /\ Shutdown /\ UNCHANGED frameVars
          \/ /\ ~TooLong(size) /\ Len(body) < size
             /\ buf' = body /\ lengthRead' = TRUE /\ expected' = size
             /\ spc' = "idle" /\ UNCHANGED <<running, out>>
          \/ /\ ~TooLong(size) /\ Len(body) >= size
             /\ buf' = SubSeq(body, size + 1, Len(body))
             /\ AfterFrame /\ expected' = size
             /\ out' = out \o FrameReply(body[1].msg)
             /\ UNCHANGED <<running, spc>>
    /\ UNCHANGED <<clientVars, net, back, protocol, first>>

\* handle_read ends: no whole line, or too little for a turn of the frame loop
ReadDone ==
    /\ spc = "dispatch"
    /\ \/ protocol = "text" /\ (buf = <<>> \/ ~Whole(buf, buf[1].msg))
       \/ protocol = "protobuf" /\ ~EnoughForTurn(buf)
    /\ spc' = "idle"
    /\ UNCHANGED <<clientVars, net, back, running, buf, out, protocol, frameVars, first>>

\* Taken for HTTP: the parser waits for the end of a line, or refuses the text
\* (see HttpPipeline; an HTTP peer is not followed any further).
HandleHttp(refused) ==
    /\ spc = "dispatch" /\ protocol = "http"
    /\ IF refused THEN Shutdown ELSE spc' = "idle" /\ UNCHANGED <<running, buf, out>>
    /\ UNCHANGED <<clientVars, net, back, protocol, frameVars, first>>

\* handle_write, between two reads: some of the output buffer
ServerWrites(n) ==
    /\ spc = "idle" /\ running /\ n \in 1..Len(out)
    /\ back' = back \o SubSeq(out, 1, n)
    /\ out' = SubSeq(out, n + 1, Len(out))
    /\ UNCHANGED <<clientVars, net, running, spc, buf, protocol, frameVars, first>>

Gone == cpc \in {"ended", "aborted", "left"}

\* read_fd returns 0 after the client has gone; a reply that it does not read
\* any more resets the connection, and a read or a write fails.
ServerEof ==
    /\ spc = "idle" /\ running /\ Gone /\ (net = <<>> \/ back # <<>> \/ out # <<>>)
    /\ Shutdown
    /\ UNCHANGED <<clientVars, net, back, protocol, frameVars, first>>

\* check_timeouts: nothing was read for a minute
IdleTimeout ==
    /\ spc = "idle" /\ running /\ net = <<>> /\ cpc # "connect"
    /\ Shutdown
    /\ UNCHANGED <<clientVars, net, back, protocol, frameVars, first>>

-----------------------------------------------------------------------------
Client ==
    \/ (\E ok \in BOOLEAN : Connect(ok)) \/ SendStart \/ WriteFails \/ SendQuit \/ Quit
    \/ SendBody \/ Receive
Reactor ==
    \/ (\E n \in 1..Len(net) : ServerReads(n))
    \/ HandleLine \/ HandleFrame \/ ReadDone \/ (\E refused \in BOOLEAN : HandleHttp(refused))
    \/ (\E n \in 1..Len(out) : ServerWrites(n)) \/ ServerEof

Terminated == Gone /\ ~running /\ UNCHANGED vars

Next == Client \/ Reactor \/ IdleTimeout \/ Terminated

Spec == Init /\ [][Next]_vars

(* The client goes on with a request it has begun, the reactor's thread     *)
(* runs, what was sent arrives, and time passes.  The user of the client    *)
(* need not type anything.                                                  *)
Fairness ==
    /\ WF_vars(SendBody \/ Receive) /\ WF_vars(Reactor) /\ WF_vars(IdleTimeout)
FairSpec == Spec /\ Fairness

-----------------------------------------------------------------------------
(* Safety.                                                                  *)

(* The protocol is the peer's, whatever the cuts, except: text whose first  *)
(* line did not come whole, has a control character or begins like an HTTP  *)
(* request, HTTP whose first read ends inside the method, and bodies or     *)
(* lines with " HTTP/" in them.                                             *)
DetectedRight ==
    protocol \notin {"none", mode} =>
        \/ mode = "text" /\ (\/ first < Total(msgs[1])
                             \/ msgs[1].kind \in {"control", "method", "httpish"})
        \/ mode = "http" /\ first < Prefix
        \/ mode = "protobuf" /\ msgs[1].kind = "httpish"

(* The frames stay in step with the stream: between two reads the buffer    *)
(* begins with a length, or with a body whose own length was read before.   *)
FramesAligned ==
    protocol = "protobuf" /\ mode = "protobuf" /\ spc = "idle" /\ running =>
        /\ lengthRead => expected = msgs[Len(msgs)].size
        /\ buf # <<>> => buf[1].at = IF lengthRead THEN Prefix + 1 ELSE 1

(* The state is of its types (no frame above the limit is ever waited for,  *)
(* for one), and the client never takes an answer for another than its last *)
(* request's.                                                               *)
InStep ==
    /\ TypeOK
    /\ cpc \in {"body", "receive", "receiveBody"} =>
           /\ got < Len(msgs)
           /\ \A i \in DOMAIN (back \o out) : (back \o out)[i].msg = Len(msgs)

(* A client that waits while nothing is under way any more, on a connection *)
(* that is open, waits for a body of less than four bytes that came after   *)
(* its length, for the echo of an empty line, or on a connection whose      *)
(* protocol was mistaken.                                                   *)
StallsOnly ==
    /\ cpc \in {"receive", "receiveBody"} /\ mode # "http"
    /\ net = <<>> /\ back = <<>> /\ out = <<>> /\ spc = "idle" /\ running
    => \/ protocol # mode
       \/ lengthRead /\ expected < Prefix /\ Len(buf) = expected
       \/ msgs[Len(msgs)].kind \in {"cr", "crcr"}

(* Liveness: a client that waits for an answer gets it or learns that the   *)
(* connection is closed; the idle timeout ends every stall.                 *)
CallReturns ==
    (cpc \in {"body", "receive", "receiveBody"}) ~> (cpc \notin {"body", "receive", "receiveBody"})
=============================================================================
