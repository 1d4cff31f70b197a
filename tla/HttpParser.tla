----------------------------- MODULE HttpParser -----------------------------
(***************************************************************************)
(* HttpParser: the state machine request line -> headers -> body, and the  *)
(* text of requests it reads.                                              *)
(*                                                                         *)
(* Text is a sequence of pieces, the places where a segment may end.  A    *)
(* request line is two pieces ("GET /x " and "HTTP/1.1"), a header field   *)
(* is one, its end of line another, and a body is one piece per unit of    *)
(* its length.  A piece knows the request it belongs to, so that a request *)
(* put together from the wrong pieces shows.  Request lines and bodies     *)
(* hold no colon, and no body is a request line.                           *)
(***************************************************************************)
EXTENDS Integers, Sequences

CONSTANTS
    MaxHeader,   \* MAX_HTTP_HEADER_SIZE, in pieces
    MaxBody      \* MAX_HTTP_BODY_SIZE, in pieces

ASSUME ParserAssumption == MaxHeader \in Nat /\ MaxBody \in Nat

Fields == {"length", "badlength", "close", "keepalive", "field"}
Kinds == Fields \cup {"start", "http10", "http11", "nocolon", "body", "crlf"}
Piece == [kind : Kinds, of : Nat, val : Nat]
Request == [line : Nat, v10 : BOOLEAN, conn : {"none", "close", "keepalive", "other"},
            len : Nat, body : Seq(Piece)]
Parser == [state : {"line", "header", "body", "complete", "error"},
           temp : Seq(Piece), req : Request, got : Nat]

-----------------------------------------------------------------------------
(* What a peer writes.  A shape says what a request is: its version, its    *)
(* fields in order, and its body's length.                                  *)
Shape == [v10 : BOOLEAN, fields : Seq(Fields \cup {"nocolon"}), len : Nat]

Crlf(i) == [kind |-> "crlf", of |-> i, val |-> 0]
Body(i, n) == [j \in 1..n |-> [kind |-> "body", of |-> i, val |-> j]]

RequestText(i, q) ==
    <<[kind |-> "start", of |-> i, val |-> 0],
      [kind |-> IF q.v10 THEN "http10" ELSE "http11", of |-> i, val |-> 0], Crlf(i)>>
    \o [j \in 1..2 * Len(q.fields) |->
            IF j % 2 = 0 THEN Crlf(i)
            ELSE [kind |-> q.fields[(j + 1) \div 2], of |-> i, val |-> q.len]]
    \o <<Crlf(i)>> \o Body(i, q.len)

StreamText(qs) ==
    LET text[i \in 0..Len(qs)] ==
            IF i = 0 THEN <<>> ELSE text[i - 1] \o RequestText(i, qs[i])
    IN text[Len(qs)]

(* A request the parser must accept, and what it must make of the i-th one, *)
(* read off the shape and not computed by the machine.                      *)
WellFormed(q) ==
    /\ \A j \in DOMAIN q.fields : q.fields[j] \notin {"nocolon", "badlength"}
    /\ q.len <= MaxBody

ConnFields(q) == {j \in DOMAIN q.fields : q.fields[j] \in {"close", "keepalive"}}

Meant(i, q) ==
    [line |-> i, v10 |-> q.v10, len |-> q.len, body |-> Body(i, q.len),
     conn |-> IF ConnFields(q) = {} THEN "none"
              ELSE q.fields[CHOOSE j \in ConnFields(q) : \A m \in ConnFields(q) : m <= j]]

-----------------------------------------------------------------------------
(* The machine.  Each operator Take... is one turn of the loop in parse().  *)
NoRequest == [line |-> 0, v10 |-> FALSE, conn |-> "none", len |-> 0, body |-> <<>>]

Fresh == [state |-> "line", temp |-> <<>>, req |-> NoRequest, got |-> 0]

ResetMutant(p) == [Fresh EXCEPT !.got = p.got]

\* HttpParser::reset, at the end of get_request
Reset(p) == Fresh

\* memmem(data + consumed, ..., "\r\n"): 0 when there is no end of line
EndOfLine(text) ==
    LET ends == {i \in DOMAIN text : text[i].kind = "crlf"}
    IN IF ends = {} THEN 0 ELSE CHOOSE i \in ends : \A j \in ends : i <= j

\* No end of line: the text is kept in temp_buffer_.  Too much of it is an
\* error of the parser, but parse() does not report one.
TakePartial(p, rest) ==
    [p EXCEPT !.temp = @ \o rest,
              !.state = IF Len(p.temp \o rest) > MaxHeader THEN "error" ELSE @]

\* parse_request_line wants three words, the third short or beginning with
\* "HTTP/".  Of lines glued together from pieces that do not belong together,
\* which ones pass depends on the length of their words.
Whole(line) ==
    /\ Len(line) = 2 /\ line[1].kind = "start" /\ line[2].kind \in {"http10", "http11"}
    /\ line[1].of = line[2].of

RequestLineVerdicts(line) ==
    IF Whole(line) THEN {TRUE} ELSE IF Len(line) < 2 THEN {FALSE} ELSE BOOLEAN

TakeRequestLine(p, line, good) ==
    [p EXCEPT !.temp = <<>>, !.state = IF good THEN "header" ELSE "error",
              !.req.line = IF Whole(line) THEN line[1].of ELSE 0,
              !.req.v10 = Whole(line) /\ line[2].kind = "http10"]

\* parse_header_line: the first colon ends the key.  A key that other text was
\* glued to is no key the parser knows; std::stoul stops at what follows the
\* digits, while a Connection value with something behind it is another value.
Colons(line) == {i \in DOMAIN line : line[i].kind \in Fields}
GoodHeader(line) ==
    /\ Colons(line) # {}
    /\ line[1].kind # "badlength"
    /\ line[1].kind = "length" => line[1].val <= MaxBody

TakeHeader(p, line) ==
    [p EXCEPT !.temp = <<>>, !.state = IF GoodHeader(line) THEN @ ELSE "error",
              !.req.len = IF line[1].kind = "length" THEN line[1].val ELSE @,
              !.req.conn = IF line[1].kind \notin {"close", "keepalive"} THEN @
                           ELSE IF Len(line) = 1 THEN line[1].kind ELSE "other"]

\* check_headers: HTTP/1.0 closes unless it was asked to keep the connection.
\* (A field is written as it looks it up, "Connection"; parse_header_line takes
\* it in any case.)
KeepAlive(req) == IF req.v10 THEN req.conn = "keepalive" ELSE req.conn # "close"

TakeBlankLine(p) ==
    [p EXCEPT !.temp = <<>>, !.state = IF p.req.len > 0 THEN "body" ELSE "complete"]

BodyTaken(p, rest) ==
    IF p.req.len - p.got < Len(rest) THEN p.req.len - p.got ELSE Len(rest)

TakeBody(p, rest) ==
    LET n == BodyTaken(p, rest)
    IN [p EXCEPT !.req.body = @ \o SubSeq(rest, 1, n), !.got = @ + n,
                 !.state = IF p.got + n >= p.req.len THEN "complete" ELSE @]
=============================================================================
