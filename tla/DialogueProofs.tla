--------------------------- MODULE DialogueProofs ---------------------------
(***************************************************************************)
(* The client and its connection, for any body sizes, any frame limit, any *)
(* number of messages and any cut of the streams: which protocol is        *)
(* detected, that frames and replies stay in step, and where a client can  *)
(* be left waiting.                                                        *)
(***************************************************************************)
EXTENDS Dialogue, SequenceTheorems, TLAPS

\* The client waits for an answer, or has left without waiting for the last one.
Waiting == {"body", "receive", "receiveBody", "left"}
Last == msgs[Len(msgs)]

\* The place of the first byte that is not handled yet, and of the last sent.
Start == IF lengthRead THEN Prefix + 1 ELSE 1
Sent == IF cpc = "body" THEN Prefix ELSE Total(Last)

(* The client: what it knows of the connection, and what it waits for.      *)
ClientInv ==
    /\ cpc = "connect" => running /\ Len(msgs) = 0 /\ protocol = "none"
    /\ cpc = "aborted" => ~running
    /\ cpc = "ready" /\ ~connected => ~running
    /\ cpc \in Waiting => connected /\ got < Len(msgs)
    /\ cpc \in {"body", "receiveBody"} => mode = "protobuf"
    /\ cpc = "left" => mode = "text"
    /\ ~running => buf = <<>> /\ out = <<>> /\ spc = "idle"

(* A client that does not wait has nothing under way.                       *)
RestInv ==
    cpc \notin Waiting /\ (running \/ (cpc = "ready" /\ connected)) =>
        /\ back = <<>> /\ buf = <<>> /\ out = <<>>
        /\ running => net = <<>> /\ ~lengthRead /\ spc = "idle"

(* Every reply under way is a part of the answer to the last message, in    *)
(* its place.                                                               *)
PartAt(k) ==
    IF mode = "protobuf"
    THEN IF cpc # "receiveBody" /\ k = 1 THEN "length" ELSE "body"
    ELSE IF Last.kind = "crcr" THEN "empty" ELSE "line"
MaxReplies ==
    CASE mode = "protobuf" -> IF cpc = "receiveBody" THEN 1 ELSE 2
      [] mode = "text" -> 1
      [] OTHER -> 0

ReplyInv ==
    cpc \in Waiting =>
        /\ \A i \in DOMAIN back : back[i] = [msg |-> Len(msgs), part |-> PartAt(i)]
        /\ \A i \in DOMAIN out : out[i] = [msg |-> Len(msgs), part |-> PartAt(Len(back) + i)]
        /\ Len(back) + Len(out) <= MaxReplies

(* The bytes under way are consecutive ones of the last message, of which   *)
(* the server has handled nothing but perhaps the length, or everything.    *)
Unanswered ==
    /\ Len(buf) + Len(net) = Sent - Start + 1
    /\ back = <<>> /\ out = <<>> /\ cpc # "receiveBody"
Answered ==
    /\ buf = <<>> /\ net = <<>> /\ cpc # "body" /\ ~lengthRead
    /\ protocol = mode /\ mode # "http"
    /\ back # <<>> \/ cpc = "receiveBody" => spc = "idle"
    /\ mode = "protobuf" \/ Last.kind \notin {"cr", "crcr"} => Len(back) + Len(out) = MaxReplies
StreamInv ==
    running /\ cpc \in Waiting =>
        /\ \A i \in DOMAIN buf : buf[i] = [msg |-> Len(msgs), at |-> Start + i - 1]
        /\ \A i \in DOMAIN net :
              net[i] = [msg |-> Len(msgs), at |-> Start + Len(buf) + i - 1]
        /\ Unanswered \/ Answered

(* What the protocol and the place in handle_read say of the buffer.        *)
ProtocolInv ==
    /\ protocol # "none" => Len(msgs) >= 1
    /\ protocol = "text" => mode = "text"
    /\ running =>
         /\ protocol = "none" =>
              buf = <<>> /\ spc = "idle" /\ Len(msgs) = IF cpc \in Waiting THEN 1 ELSE 0
         /\ lengthRead => mode = "protobuf" /\ protocol = "protobuf" /\ expected = Last.size
HandledInv ==
    running /\ cpc \in Waiting /\ spc = "idle" /\ protocol = mode =>
        /\ mode = "text" => Len(buf) < Total(Last)
        /\ mode = "protobuf" => Len(buf) < Prefix \/ (lengthRead /\ Len(buf) < expected)

DialogueInv ==
    /\ TypeOK /\ ClientInv /\ RestInv /\ ReplyInv /\ StreamInv /\ ProtocolInv
    /\ HandledInv /\ DetectedRight

-----------------------------------------------------------------------------
(* Sequences.                                                               *)

(* One sequence behind another, place by place.                             *)
LEMMA Behind ==
  ASSUME NEW S, NEW s \in Seq(S), NEW t \in Seq(S)
  PROVE  /\ s \o t \in Seq(S) /\ Len(s \o t) = Len(s) + Len(t)
         /\ \A i \in 1..Len(s) : (s \o t)[i] = s[i]
         /\ \A i \in 1..Len(t) : (s \o t)[Len(s) + i] = t[i]
         /\ DOMAIN (s \o t) = 1..(Len(s) + Len(t))
         /\ \A i \in 1..(Len(s) + Len(t)) :
               (s \o t)[i] = IF i <= Len(s) THEN s[i] ELSE t[i - Len(s)]
  OBVIOUS

(* What is cut off in front, and what is left.                              *)
LEMMA Cut ==
  ASSUME NEW S, NEW s \in Seq(S), NEW n \in 0..Len(s)
  PROVE  /\ SubSeq(s, 1, n) \in Seq(S) /\ Len(SubSeq(s, 1, n)) = n
         /\ DOMAIN SubSeq(s, 1, n) = 1..n
         /\ \A i \in 1..n : SubSeq(s, 1, n)[i] = s[i]
         /\ SubSeq(s, n + 1, Len(s)) \in Seq(S) /\ Len(SubSeq(s, n + 1, Len(s))) = Len(s) - n
         /\ DOMAIN SubSeq(s, n + 1, Len(s)) = 1..(Len(s) - n)
         /\ \A i \in 1..(Len(s) - n) : SubSeq(s, n + 1, Len(s))[i] = s[n + i]
  OBVIOUS

(* A sequence with nothing in it.                                           *)
LEMMA Nothing == \A S : \A s \in Seq(S) : (s = <<>> <=> Len(s) = 0) /\ Len(s) \in Nat
                         /\ DOMAIN s = 1..Len(s)
  OBVIOUS

(* The empty sequence has every type, and no places.                        *)
LEMMA Nothing2 == \A S : <<>> \in Seq(S) /\ Len(<<>>) = 0 /\ DOMAIN <<>> = {}
  OBVIOUS

(* A sequence without its first element.                                    *)
LEMMA TailAt ==
  ASSUME NEW S, NEW s \in Seq(S), s # <<>>
  PROVE  /\ Tail(s) \in Seq(S) /\ Len(Tail(s)) = Len(s) - 1 /\ Head(s) = s[1] /\ Len(s) >= 1
         /\ DOMAIN Tail(s) = 1..(Len(s) - 1)
         /\ \A i \in 1..(Len(s) - 1) : Tail(s)[i] = s[i + 1]
  OBVIOUS

(* The bytes a..b of a message.                                             *)
LEMMA BytesAt ==
  ASSUME NEW n \in Nat, n >= 1, NEW a \in Nat, a >= 1, NEW b \in Nat, b >= a
  PROVE  /\ Bytes(n, a, b) \in Seq([msg : 1..n, at : Nat \ {0}])
         /\ Len(Bytes(n, a, b)) = b - a + 1
         /\ \A i \in 1..(b - a + 1) : Bytes(n, a, b)[i] = [msg |-> n, at |-> a + i - 1]
  BY DEF Bytes

(* The bytes of a message from its first one on.                            *)
LEMMA FirstBytes ==
  ASSUME NEW n \in Nat, n >= 1, NEW b \in Nat, b >= 1
  PROVE  /\ Bytes(n, 1, b) \in Seq([msg : 1..n, at : Nat \ {0}]) /\ Len(Bytes(n, 1, b)) = b
         /\ \A i \in 1..b : Bytes(n, 1, b)[i] = [msg |-> n, at |-> i]
  BY DEF Bytes

(* A message is some bytes long, and its total is more than a prefix of it. *)
LEMMA MessageShape ==
  ASSUME mode \in Modes, NEW m \in Messages(mode)
  PROVE  /\ m.size \in Nat /\ m.size >= 1 /\ Total(m) \in Nat /\ Total(m) >= 1
         /\ mode = "protobuf" => Total(m) = Prefix + m.size
         /\ mode = "http" => Total(m) = Prefix + 1
         /\ mode \in {"text", "protobuf", "http"}
<1>1. mode \in {"text", "protobuf", "http"}
  BY DialogueAssumption
<1>2. CASE mode = "text"
  BY <1>2 DEF Messages, Total, Prefix
<1>3. CASE mode = "protobuf"
  BY <1>3, DialogueAssumption DEF Messages, Total, Prefix
<1>4. CASE mode = "http"
  BY <1>4 DEF Messages, Total, Prefix
<1> QED
  BY <1>1, <1>2, <1>3, <1>4

(* The numbers that the types give.                                         *)
LEMMA Shapes ==
  ASSUME TypeOK
  PROVE  /\ Len(msgs) \in Nat /\ Len(net) \in Nat /\ Len(buf) \in Nat
         /\ Len(back) \in Nat /\ Len(out) \in Nat /\ mode \in {"text", "protobuf", "http"}
         /\ Len(msgs) >= 1 =>
              /\ Last \in Messages(mode) /\ Total(Last) \in Nat /\ Total(Last) >= 1
              /\ Last.size \in Nat /\ Last.size >= 1
              /\ mode = "protobuf" => Total(Last) = Prefix + Last.size
              /\ mode = "http" => Total(Last) = Prefix + 1
<1>1. /\ Len(msgs) \in Nat /\ Len(net) \in Nat /\ Len(buf) \in Nat
      /\ Len(back) \in Nat /\ Len(out) \in Nat /\ mode \in {"text", "protobuf", "http"}
  BY DialogueAssumption DEF TypeOK
<1>2. ASSUME Len(msgs) >= 1 PROVE Last \in Messages(mode)
  BY <1>1, <1>2 DEF TypeOK, Last
<1> QED
  BY <1>1, <1>2, MessageShape DEF TypeOK

-----------------------------------------------------------------------------
(* Steps of the client.                                                     *)

(* The client moves on without taking or sending anything.                  *)
LEMMA MoveInv ==
  ASSUME DialogueInv, (\E ok \in BOOLEAN : Connect(ok)) \/ WriteFails \/ ReceiveEof \/ Quit
  PROVE  DialogueInv'
<1> USE DEF DialogueInv, Connect, WriteFails, ReceiveEof, Quit, serverVars, frameVars
<1>1. TypeOK'
  BY DEF TypeOK
<1>2. ClientInv' /\ RestInv'
  BY DEF ClientInv, RestInv, Waiting
<1>3. ReplyInv' /\ StreamInv' /\ HandledInv'
  BY DEF ReplyInv, StreamInv, HandledInv, Waiting
<1>4. ProtocolInv' /\ DetectedRight'
  BY DEF ProtocolInv, DetectedRight, Waiting, Last, Total
<1> QED
  BY <1>1, <1>2, <1>3, <1>4

(* A message is sent, or its first part, with nothing else under way.       *)
LEMMA SendInv ==
  ASSUME DialogueInv, cpc = "ready", connected, NEW m \in Messages(mode), Send(m),
         Len(msgs) <= MaxMsgs, cpc' \in {"body", "receive", "left"},
         cpc' = "body" <=> mode = "protobuf", cpc' = "left" => mode = "text",
         UNCHANGED <<mode, connected, got, back, serverVars>>
  PROVE  DialogueInv'
<1> USE DEF DialogueInv
<1>0. Len(msgs) \in Nat /\ mode \in Modes /\ running \in BOOLEAN
  BY Shapes DEF TypeOK
<1>1. /\ msgs' = Append(msgs, m)
      /\ Write(Bytes(Len(msgs) + 1, 1, IF mode = "protobuf" THEN Prefix ELSE Total(m)))
  BY DEF Send
<1> DEFINE n == Len(msgs) + 1
           z == IF mode = "protobuf" THEN Prefix ELSE Total(m)
           B == Bytes(n, 1, z)
<1>2. /\ back = <<>> /\ buf = <<>> /\ out = <<>>
      /\ running => net = <<>> /\ ~lengthRead /\ spc = "idle"
  BY <1>0 DEF RestInv, Waiting
<1>3. /\ msgs' \in Seq(Messages(mode)) /\ Len(msgs') = n /\ Last' = m
      /\ \A i \in 1..Len(msgs) : msgs'[i] = msgs[i]
  BY <1>0, <1>1 DEF TypeOK, Last
<1>4. z \in Nat /\ z >= 1 /\ n \in Nat /\ n >= 1 /\ Sent' = z /\ Total(m)' = Total(m)
  BY <1>0, <1>1, <1>3, MessageShape DEF Sent, Prefix, Total
<1>5. /\ B \in Seq([msg : 1..n, at : Nat \ {0}]) /\ Len(B) = z
      /\ \A i \in 1..z : B[i] = [msg |-> n, at |-> i]
  <2> HIDE DEF n, z
  <2> QED
    BY <1>4, FirstBytes
<1>6. net' = IF running THEN B ELSE net
  <2>1. net' = IF running THEN net \o B ELSE net
    BY <1>1 DEF Write
  <2>2. B \in Seq([msg : 1..n, at : Nat \ {0}]) => <<>> \o B = B
    BY ConcatEmptySeq
  <2> HIDE DEF B
  <2> QED
    BY <1>2, <1>5, <2>1, <2>2
<1> HIDE DEF n, z, B
<1>7. /\ UNCHANGED <<buf, out, back, running, spc, protocol, lengthRead, expected, first>>
      /\ cpc' \in Waiting /\ Len(msgs) + 1 = n
  BY <1>0, <1>1 DEF serverVars, frameVars, Waiting, n
<1>8. TypeOK'
  <2>1. net' \in Seq([msg : 1..n, at : Nat \ {0}])
    <3> DEFINE S == [msg : 1..Len(msgs), at : Nat \ {0}]
               T == [msg : 1..n, at : Nat \ {0}]
    <3>1. S \subseteq T /\ net \in Seq(S)
      BY <1>0, <1>7 DEF TypeOK
    <3> HIDE DEF S, T
    <3>2. net \in Seq(T)
      BY <3>1, SeqMonotonic
    <3> QED
      BY <1>5, <1>6, <3>2 DEF T
  <2>2. got \in 0..n /\ n <= MaxMsgs + 1
    BY <1>0, <1>7, DialogueAssumption DEF TypeOK
  <2> QED
    BY <1>0, <1>1, <1>2, <1>3, <1>7, <2>1, <2>2, Nothing2 DEF TypeOK
<1>9. ClientInv' /\ RestInv'
  <2>1. got < n
    BY <1>0, <1>7 DEF TypeOK
  <2> QED
    BY <1>0, <1>3, <1>7, <2>1 DEF ClientInv, RestInv, Waiting
<1>10. ReplyInv'
  <2>1. MaxReplies' \in Nat /\ 0 <= MaxReplies'
    BY DEF MaxReplies
  <2> QED
    BY <1>2, <1>7, <2>1, Nothing2 DEF ReplyInv
<1>11. StreamInv'
  <2> SUFFICES ASSUME running PROVE StreamInv'
    BY <1>7 DEF StreamInv
  <2>1. Start' = 1
    BY <1>2, <1>7 DEF Start
  <2>2. Unanswered'
    BY <1>2, <1>4, <1>5, <1>6, <1>7, <2>1, Nothing2 DEF Unanswered
  <2>3. \A i \in DOMAIN net' : net'[i] = [msg |-> Len(msgs'), at |-> Start' + Len(buf') + i - 1]
    BY <1>2, <1>3, <1>4, <1>5, <1>6, <1>7, <2>1, Nothing, Nothing2
  <2> QED
    BY <1>2, <1>7, <2>2, <2>3, Nothing2 DEF StreamInv
<1>12. ProtocolInv'
  <2>1. running /\ protocol = "none" => Len(msgs) = 0
    BY <1>0 DEF ProtocolInv, Waiting
  <2> QED
    BY <1>0, <1>2, <1>3, <1>4, <1>7, <2>1 DEF ProtocolInv
<1>13. HandledInv'
  BY <1>2, <1>3, <1>4, <1>7, MessageShape, <1>0, Nothing2 DEF HandledInv, Prefix
<1>14. DetectedRight'
  <2> SUFFICES ASSUME protocol \notin {"none", mode} PROVE DetectedRight'
    BY <1>0, <1>7 DEF DetectedRight
  <2>1. Len(msgs) >= 1
    BY DEF ProtocolInv
  <2>2. msgs'[1] = msgs[1] /\ Total(msgs[1])' = Total(msgs[1])
    BY <1>0, <1>3, <2>1 DEF Total
  <2> QED
    BY <1>0, <1>7, <2>2 DEF DetectedRight
<1> QED
  BY <1>8, <1>9, <1>10, <1>11, <1>12, <1>13, <1>14

(* A client that is not connected any more tries to send, and is over.      *)
LEMMA AbortInv ==
  ASSUME DialogueInv, cpc = "ready", ~connected, cpc' = "aborted",
         UNCHANGED <<msgs, net, mode, connected, got, back, serverVars>>
  PROVE  DialogueInv'
<1> USE DEF DialogueInv, serverVars, frameVars
<1>1. ~running
  BY DEF ClientInv
<1>2. TypeOK'
  BY DEF TypeOK
<1>3. ClientInv' /\ RestInv'
  BY <1>1 DEF ClientInv, RestInv, Waiting
<1>4. ReplyInv' /\ StreamInv' /\ HandledInv'
  BY <1>1 DEF ReplyInv, StreamInv, HandledInv, Waiting
<1>5. ProtocolInv' /\ DetectedRight'
  BY <1>1 DEF ProtocolInv, DetectedRight, Waiting, Last, Total
<1> QED
  BY <1>2, <1>3, <1>4, <1>5

(* main sends a message, or the quit of a text client.                      *)
LEMMA SendStartInv ==
  ASSUME DialogueInv, SendStart \/ SendQuit
  PROVE  DialogueInv'
<1>0. Len(msgs) \in Nat /\ MaxMsgs \in Nat /\ cpc = "ready" /\ connected \in BOOLEAN
      /\ Len(msgs) <= MaxMsgs /\ UNCHANGED <<mode, connected, got, back, serverVars>>
  BY Shapes, DialogueAssumption DEF DialogueInv, SendStart, SendQuit, TypeOK
<1>1. CASE ~connected
  <2>1. cpc' = "aborted" /\ UNCHANGED <<msgs, net>>
    BY <1>1 DEF SendStart, SendQuit
  <2> QED
    BY <1>0, <1>1, <2>1, AbortInv
<1>2. CASE connected
  <2>1. PICK m \in Messages(mode) :
          /\ Send(m) /\ cpc' \in {"body", "receive", "left"}
          /\ cpc' = "body" <=> mode = "protobuf"
          /\ cpc' = "left" => mode = "text"
    <3>1. CASE SendStart
      BY <1>2, <3>1 DEF SendStart
    <3>2. CASE SendQuit
      <4>1. mode = "text" /\ Send(QuitLine) /\ cpc' = "left"
        BY <1>2, <3>2 DEF SendQuit
      <4>2. QuitLine \in Messages("text")
        BY DEF QuitLine, Messages
      <4> QED
        BY <4>1, <4>2
    <3> QED
      BY <3>1, <3>2
  <2> QED
    BY <1>0, <1>2, <2>1, SendInv
<1> QED
  BY <1>0, <1>1, <1>2

(* The second write of a frame goes behind the first.                       *)
LEMMA SendBodyInv ==
  ASSUME DialogueInv, SendBody
  PROVE  DialogueInv'
<1> USE DEF DialogueInv
<1> DEFINE n == Len(msgs)
           z == Total(Last)
           B == Bytes(n, Prefix + 1, z)
<1>0. /\ cpc = "body" /\ cpc' = "receive" /\ mode = "protobuf" /\ connected /\ got < n
      /\ net' = IF running THEN net \o B ELSE net
      /\ UNCHANGED <<mode, connected, msgs, got, back, buf, out, running, spc, protocol,
                     lengthRead, expected, first>>
  BY DEF SendBody, Write, ClientInv, serverVars, frameVars, Last, Waiting
<1>1. n \in Nat /\ n >= 1
  BY <1>0, Shapes DEF TypeOK
<1>2. z \in Nat /\ z >= Prefix + 1 /\ Last' = Last /\ Sent = Prefix /\ Sent' = z
      /\ Prefix + 1 \in Nat /\ Prefix + 1 >= 1
  BY <1>0, <1>1, Shapes DEF Last, Sent, Total, Prefix
<1>3. /\ B \in Seq([msg : 1..n, at : Nat \ {0}]) /\ Len(B) = z - (Prefix + 1) + 1
      /\ \A i \in 1..(z - (Prefix + 1) + 1) : B[i] = [msg |-> n, at |-> (Prefix + 1) + i - 1]
  <2> HIDE DEF z, n
  <2> QED
    BY <1>1, <1>2, BytesAt
<1> HIDE DEF z, B
<1>4. /\ net' \in Seq([msg : 1..n, at : Nat \ {0}])
      /\ running => /\ Len(net') = Len(net) + Len(B) /\ DOMAIN net' = 1..(Len(net) + Len(B))
                    /\ \A i \in 1..(Len(net) + Len(B)) :
                          net'[i] = IF i <= Len(net) THEN net[i] ELSE B[i - Len(net)]
  <2> DEFINE S == [msg : 1..n, at : Nat \ {0}]
  <2>1. net \in Seq(S) /\ B \in Seq(S)
    BY <1>3 DEF TypeOK
  <2> HIDE DEF S
  <2>2. /\ net \o B \in Seq(S) /\ Len(net \o B) = Len(net) + Len(B)
        /\ DOMAIN (net \o B) = 1..(Len(net) + Len(B))
        /\ \A i \in 1..(Len(net) + Len(B)) :
              (net \o B)[i] = IF i <= Len(net) THEN net[i] ELSE B[i - Len(net)]
    BY <2>1, Behind
  <2> QED
    BY <1>0, <2>1, <2>2 DEF S
<1>5. TypeOK'
  BY <1>0, <1>4 DEF TypeOK
<1>6. ClientInv' /\ RestInv'
  BY <1>0 DEF ClientInv, RestInv, Waiting
<1>7. ReplyInv'
  BY <1>0 DEF ReplyInv, Waiting, PartAt, MaxReplies, Last
<1>8. StreamInv'
  <2> SUFFICES ASSUME running PROVE StreamInv'
    BY <1>0 DEF StreamInv
  <2>1. /\ \A i \in DOMAIN buf : buf[i] = [msg |-> n, at |-> Start + i - 1]
        /\ \A i \in DOMAIN net : net[i] = [msg |-> n, at |-> Start + Len(buf) + i - 1]
        /\ Unanswered
    BY <1>0 DEF StreamInv, Waiting, Answered
  <2>2. Start' = Start /\ Start \in {1, Prefix + 1}
    BY <1>0 DEF Start
  <2>3. Len(buf) + Len(net) = Prefix - Start + 1 /\ Len(buf) \in Nat /\ Len(net) \in Nat
    BY <1>2, <2>1, Shapes DEF Unanswered
  <2>4. Unanswered'
    BY <1>0, <1>2, <1>3, <1>4, <2>1, <2>2, <2>3 DEF Unanswered, Prefix
  <2>5. \A i \in DOMAIN net' : net'[i] = [msg |-> n, at |-> Start' + Len(buf) + i - 1]
    <3> SUFFICES ASSUME NEW i \in DOMAIN net'
                 PROVE  net'[i] = [msg |-> n, at |-> Start' + Len(buf) + i - 1]
      OBVIOUS
    <3>1. i \in Nat /\ i >= 1 /\ i <= Len(net) + Len(B)
      BY <1>4, <2>3, <1>3, <1>2 DEF Prefix
    <3>2. CASE i <= Len(net)
      <4>1. i \in DOMAIN net
        BY <2>3, <3>1, <3>2 DEF TypeOK
      <4>2. net'[i] = net[i]
        BY <1>4, <3>1, <3>2
      <4> QED
        BY <2>1, <2>2, <4>1, <4>2
    <3>3. CASE ~(i <= Len(net))
      <4>1. i - Len(net) \in 1..(z - (Prefix + 1) + 1)
        <5>1. z \in Nat /\ z >= 5 /\ Len(B) = z - 4 /\ Len(net) \in Nat
          BY <1>2, <1>3, <2>3 DEF Prefix
        <5> QED
          BY <3>1, <3>3, <5>1 DEF Prefix
      <4>2. (Prefix + 1) + (i - Len(net)) - 1 = Start + Len(buf) + i - 1
        BY <2>2, <2>3, <3>1 DEF Prefix
      <4>3. net'[i] = B[i - Len(net)]
        BY <1>4, <3>1, <3>3
      <4> QED
        BY <1>3, <2>2, <4>1, <4>2, <4>3
    <3> QED
      BY <3>2, <3>3
  <2> QED
    BY <1>0, <2>1, <2>2, <2>4, <2>5 DEF StreamInv
<1>9. ProtocolInv' /\ HandledInv'
  BY <1>0, <1>2 DEF ProtocolInv, HandledInv, Waiting, Total
<1>10. DetectedRight'
  BY <1>0 DEF DetectedRight, Total
<1> QED
  BY <1>5, <1>6, <1>7, <1>8, <1>9, <1>10


(* A part of the answer is taken.                                           *)
LEMMA TakePart ==
  ASSUME DialogueInv, cpc \in Waiting, back # <<>>
  PROVE  /\ Tail(back) \in Seq([msg : 1..Len(msgs), part : Part])
         /\ Len(Tail(back)) = Len(back) - 1 /\ Len(back) >= 1
         /\ DOMAIN Tail(back) = 1..(Len(back) - 1) /\ DOMAIN back = 1..Len(back)
         /\ \A i \in 1..(Len(back) - 1) : Tail(back)[i] = back[i + 1]
         /\ Head(back) = [msg |-> Len(msgs), part |-> PartAt(1)]
         /\ Len(msgs) \in Nat /\ Len(msgs) >= 1 /\ Len(back) \in Nat /\ Len(out) \in Nat
         /\ Len(back) + Len(out) <= MaxReplies /\ connected
         /\ running => Answered
<1> USE DEF DialogueInv
<1>1. /\ Tail(back) \in Seq([msg : 1..Len(msgs), part : Part])
      /\ Len(Tail(back)) = Len(back) - 1 /\ Len(back) >= 1 /\ Head(back) = back[1]
      /\ DOMAIN Tail(back) = 1..(Len(back) - 1) /\ DOMAIN back = 1..Len(back)
      /\ \A i \in 1..(Len(back) - 1) : Tail(back)[i] = back[i + 1]
  <2> DEFINE S == [msg : 1..Len(msgs), part : Part]
  <2>1. back \in Seq(S)
    BY DEF TypeOK
  <2> HIDE DEF S
  <2>2. /\ Tail(back) \in Seq(S)
        /\ Len(Tail(back)) = Len(back) - 1 /\ Len(back) >= 1 /\ Head(back) = back[1]
        /\ DOMAIN Tail(back) = 1..(Len(back) - 1) /\ DOMAIN back = 1..Len(back)
        /\ \A i \in 1..(Len(back) - 1) : Tail(back)[i] = back[i + 1]
    BY <2>1, TailAt, Nothing
  <2> QED
    BY <2>2 DEF S
<1>2. Len(msgs) \in Nat /\ Len(back) \in Nat /\ Len(out) \in Nat
  BY Shapes
<1>3. Len(msgs) >= 1 /\ connected
  BY <1>2 DEF ClientInv, TypeOK
<1>4. back[1] = [msg |-> Len(msgs), part |-> PartAt(1)] /\ Len(back) + Len(out) <= MaxReplies
  BY <1>1, <1>2 DEF ReplyInv
<1>5. running => Answered
  BY DEF StreamInv, Unanswered
<1> QED
  BY <1>1, <1>2, <1>3, <1>4, <1>5

(* An answer is complete: nothing is left under way.                        *)
LEMMA AnswerTaken ==
  ASSUME DialogueInv, cpc \in Waiting, back # <<>>, MaxReplies = 1, cpc' = "ready",
         got' = Head(back).msg, back' = Tail(back),
         UNCHANGED <<mode, connected, msgs, net, serverVars>>
  PROVE  DialogueInv'
<1> USE DEF DialogueInv, serverVars, frameVars
<1>1. back' = <<>> /\ out = <<>> /\ got' = Len(msgs) /\ Len(msgs) \in Nat /\ Len(msgs) >= 1
  <2>1. /\ Len(back) = 1 /\ Len(out) = 0 /\ Len(back') = 0 /\ got' = Len(msgs)
        /\ Len(msgs) \in Nat /\ Len(msgs) >= 1
    BY TakePart
  <2>2. back' \in Seq([msg : 1..Len(msgs), part : Part])
    BY TakePart
  <2> QED
    BY <2>1, <2>2, Nothing DEF TypeOK
<1>2. running => buf = <<>> /\ net = <<>> /\ ~lengthRead /\ spc = "idle" /\ protocol # "none"
  BY TakePart, Shapes DEF Answered
<1>3. connected
  BY TakePart
<1>4. TypeOK'
  BY <1>1, Nothing2 DEF TypeOK
<1>5. ClientInv' /\ RestInv'
  BY <1>1, <1>2, <1>3 DEF ClientInv, RestInv, Waiting
<1>6. ReplyInv' /\ StreamInv' /\ HandledInv'
  BY DEF ReplyInv, StreamInv, HandledInv, Waiting
<1>7. ProtocolInv' /\ DetectedRight'
  BY <1>1, <1>2 DEF ProtocolInv, DetectedRight, Waiting, Last, Total
<1> QED
  BY <1>4, <1>5, <1>6, <1>7

(* A line ends the wait; an empty one is the whole answer and does not.     *)
LEMMA ReceiveLineInv ==
  ASSUME DialogueInv, ReceiveLine
  PROVE  DialogueInv'
<1> USE DEF DialogueInv
<1>0. /\ cpc = "receive" /\ cpc \in Waiting /\ back # <<>> /\ back' = Tail(back)
      /\ UNCHANGED <<mode, connected, msgs, net, serverVars>>
      /\ Head(back).part \in {"line", "empty"}
  BY DEF ReceiveLine, Waiting
<1>1. mode = "text" /\ MaxReplies = 1
  <2>1. mode # "protobuf"
    BY <1>0, TakePart DEF PartAt
  <2>2. MaxReplies # 0
    BY <1>0, TakePart
  <2> QED
    BY <2>1, <2>2, Shapes DEF MaxReplies
<1>2. CASE Head(back).part = "line"
  BY <1>0, <1>1, <1>2, AnswerTaken DEF ReceiveLine
<1>3. CASE Head(back).part # "line"
  <2>1. UNCHANGED <<got, cpc>> /\ Last.kind = "crcr"
    BY <1>0, <1>1, <1>3, TakePart DEF ReceiveLine, PartAt
  <2>2. back' = <<>> /\ out = <<>> /\ Len(back') = 0 /\ Len(out) = 0
    <3>1. Len(back) = 1 /\ Len(out) = 0 /\ Len(back') = 0
      BY <1>0, <1>1, TakePart
    <3>2. back' \in Seq([msg : 1..Len(msgs), part : Part])
      BY <1>0, TakePart
    <3> QED
      BY <3>1, <3>2, Nothing DEF TypeOK
  <2> USE DEF serverVars, frameVars
  <2>3. TypeOK'
    BY <1>0, <2>1, <2>2, Nothing2 DEF TypeOK
  <2>4. ClientInv' /\ RestInv' /\ ProtocolInv' /\ HandledInv' /\ DetectedRight'
    BY <1>0, <2>1 DEF ClientInv, RestInv, ProtocolInv, HandledInv, DetectedRight, Last, Total
  <2>5. ReplyInv'
    BY <1>0, <1>1, <2>1, <2>2, Nothing2 DEF ReplyInv, MaxReplies
  <2>6. running => Answered
    BY <1>0, TakePart
  <2>7. running => Answered'
    BY <1>0, <1>1, <2>1, <2>2, <2>6 DEF Answered, Last
  <2>8. StreamInv'
    BY <1>0, <2>1, <2>6, <2>7, Nothing2 DEF StreamInv, Answered
  <2> QED
    BY <2>3, <2>4, <2>5, <2>8
<1> QED
  BY <1>2, <1>3

(* The body of a protobuf reply ends the wait.                              *)
LEMMA ReceiveBodyInv ==
  ASSUME DialogueInv, ReceiveBody
  PROVE  DialogueInv'
<1>1. cpc = "receiveBody" /\ mode = "protobuf"
  BY DEF ReceiveBody, DialogueInv, ClientInv
<1>2. MaxReplies = 1
  BY <1>1 DEF MaxReplies
<1> QED
  BY <1>1, <1>2, AnswerTaken DEF ReceiveBody, Waiting

(* After the length of a reply its body is what is left to take.            *)
LEMMA ReceiveLengthInv ==
  ASSUME DialogueInv, ReceiveLength
  PROVE  DialogueInv'
<1> USE DEF DialogueInv
<1>0. /\ cpc = "receive" /\ cpc \in Waiting /\ back # <<>> /\ back' = Tail(back)
      /\ cpc' = "receiveBody" /\ cpc' \in Waiting /\ Head(back).part = "length"
      /\ UNCHANGED <<mode, connected, msgs, got, net, buf, out, running, spc, protocol,
                     lengthRead, expected, first>>
  BY DEF ReceiveLength, Waiting, serverVars, frameVars
<1>1. mode = "protobuf" /\ MaxReplies = 2 /\ MaxReplies' = 1
  <2>1. mode = "protobuf"
    BY <1>0, TakePart DEF PartAt
  <2> QED
    BY <1>0, <2>1 DEF MaxReplies
<1>2. /\ back' \in Seq([msg : 1..Len(msgs), part : Part]) /\ Len(back') = Len(back) - 1
      /\ Len(back) >= 1 /\ DOMAIN back' = 1..(Len(back) - 1) /\ DOMAIN back = 1..Len(back)
      /\ \A i \in 1..(Len(back) - 1) : back'[i] = back[i + 1]
      /\ Len(back) \in Nat /\ Len(out) \in Nat /\ Len(back) + Len(out) <= 2
  BY <1>0, <1>1, TakePart
<1>3. TypeOK'
  BY <1>0, <1>2 DEF TypeOK
<1>4. ClientInv' /\ RestInv' /\ ProtocolInv' /\ HandledInv' /\ DetectedRight'
  BY <1>0, <1>1 DEF ClientInv, RestInv, ProtocolInv, HandledInv, DetectedRight, Last, Total
<1>5. ReplyInv'
  <2>1. \A k : PartAt(k)' = "body"
    BY <1>0, <1>1 DEF PartAt
  <2>2. \A k \in Nat : k >= 2 => PartAt(k) = "body"
    BY <1>1 DEF PartAt
  <2>3. \A i \in DOMAIN back' : back'[i] = [msg |-> Len(msgs'), part |-> PartAt(i)']
    BY <1>0, <1>2, <2>1, <2>2 DEF ReplyInv
  <2>4. \A i \in DOMAIN out' : out'[i] = [msg |-> Len(msgs'), part |-> PartAt(Len(back) + i)']
    BY <1>0, <1>2, <2>1, <2>2, Nothing DEF ReplyInv, TypeOK
  <2> QED
    BY <1>0, <1>1, <1>2, <2>1, <2>3, <2>4 DEF ReplyInv
<1>6. running => Answered
  BY <1>0, TakePart
<1>7. running => Answered'
  BY <1>0, <1>1, <1>2, <1>6 DEF Answered, Last
<1>8. StreamInv'
  BY <1>0, <1>6, <1>7, Nothing2 DEF StreamInv, Answered
<1> QED
  BY <1>3, <1>4, <1>5, <1>8

-----------------------------------------------------------------------------
(* Steps of the server.                                                     *)

(* The connection is closed: what was received and what was not written yet *)
(* is gone, and a client that waits keeps what has reached it.              *)
LEMMA ShutdownInv ==
  ASSUME DialogueInv, Shutdown, cpc # "connect",
         UNCHANGED <<clientVars, net, back, protocol, frameVars, first>>
  PROVE  DialogueInv'
<1> USE DEF DialogueInv, clientVars, frameVars, Shutdown
<1>1. TypeOK'
  BY Nothing2 DEF TypeOK
<1>2. ClientInv' /\ RestInv'
  BY DEF ClientInv, RestInv
<1>3. ReplyInv'
  <2>1. Len(back) \in Nat /\ Len(out) \in Nat /\ Len(out') = 0 /\ DOMAIN out' = {}
    BY Shapes, Nothing2
  <2>2. MaxReplies' = MaxReplies /\ MaxReplies \in Nat /\ \A k : PartAt(k)' = PartAt(k)
    BY DEF MaxReplies, PartAt, Last
  <2> QED
    BY <2>1, <2>2 DEF ReplyInv
<1>4. StreamInv' /\ HandledInv'
  BY DEF StreamInv, HandledInv
<1>5. ProtocolInv' /\ DetectedRight'
  BY DEF ProtocolInv, DetectedRight, Total
<1> QED
  BY <1>1, <1>2, <1>3, <1>4, <1>5

(* Between a read and the end of handle_read the connection is open, its    *)
(* protocol is known and the client waits.                                  *)
LEMMA InRead ==
  ASSUME DialogueInv, spc = "dispatch"
  PROVE  running /\ protocol # "none" /\ cpc \in Waiting /\ Len(msgs) >= 1 /\ back = <<>>
         /\ cpc # "connect" /\ Len(msgs) \in Nat
<1> USE DEF DialogueInv
<1>1. running /\ protocol # "none"
  BY DEF ClientInv, ProtocolInv, TypeOK
<1>2. cpc \in Waiting
  BY <1>1 DEF RestInv
<1>3. back = <<>>
  BY <1>1, <1>2 DEF StreamInv, Unanswered, Answered
<1> QED
  BY <1>1, <1>2, <1>3, Shapes DEF ProtocolInv, Waiting

(* A connection that ends on its own, or is taken for HTTP.                 *)
LEMMA HandleHttpInv ==
  ASSUME DialogueInv, NEW refused \in BOOLEAN, HandleHttp(refused)
  PROVE  DialogueInv'
<1>1. spc = "dispatch" /\ UNCHANGED <<clientVars, net, back, protocol, frameVars, first>>
      /\ protocol = "http"
  BY DEF HandleHttp
<1>2. CASE refused
  BY <1>1, <1>2, InRead, ShutdownInv DEF HandleHttp
<1>3. CASE ~refused
  <2> USE DEF DialogueInv, clientVars, frameVars
  <2>1. spc' = "idle" /\ UNCHANGED <<running, buf, out>>
    BY <1>3 DEF HandleHttp
  <2>2. cpc \in Waiting /\ running
    BY <1>1, InRead
  <2>3. TypeOK'
    BY <1>1, <2>1 DEF TypeOK
  <2>4. ClientInv' /\ RestInv' /\ ReplyInv'
    BY <1>1, <2>1, <2>2 DEF ClientInv, RestInv, ReplyInv, PartAt, MaxReplies, Last
  <2>5. StreamInv'
    BY <1>1, <2>1 DEF StreamInv, Unanswered, Answered, Start, Sent, Last, Total, MaxReplies
  <2>6. ProtocolInv' /\ DetectedRight'
    BY <1>1, <2>1, <2>2 DEF ProtocolInv, DetectedRight, Last, Total
  <2>7. HandledInv'
    BY <1>1, <2>1, Shapes DEF HandledInv
  <2> QED
    BY <2>3, <2>4, <2>5, <2>6, <2>7
<1> QED
  BY <1>2, <1>3

(* The server closes after the client has gone, or after a minute without a *)
(* read.                                                                    *)
LEMMA ServerEndsInv ==
  ASSUME DialogueInv, ServerEof \/ IdleTimeout
  PROVE  DialogueInv'
  BY ShutdownInv DEF ServerEof, IdleTimeout, Gone

(* Within handle_read the buffer is the message from its unhandled start.   *)
LEMMA InBuffer ==
  ASSUME DialogueInv, running, cpc \in Waiting
  PROVE  /\ DOMAIN buf = 1..Len(buf) /\ Len(buf) \in Nat
         /\ \A i \in 1..Len(buf) : buf[i].msg = Len(msgs) /\ buf[i].at = Start + i - 1
                                  /\ buf[i] = [msg |-> Len(msgs), at |-> Start + i - 1]
         /\ Start \in {1, Prefix + 1} /\ (mode # "protobuf" => Start = 1 /\ ~lengthRead)
         /\ buf # <<>> => Unanswered
         /\ mode # "protobuf" => Sent = Total(Last)
<1> USE DEF DialogueInv
<1>1. DOMAIN buf = 1..Len(buf) /\ Len(buf) \in Nat
  BY Shapes, Nothing DEF TypeOK
<1> QED
  BY <1>1 DEF StreamInv, Answered, Start, ProtocolInv, ClientInv, Sent

(* handle_read ends with less than a line, or less than a prefix.           *)
LEMMA ReadDoneInv ==
  ASSUME DialogueInv, ReadDone
  PROVE  DialogueInv'
<1> USE DEF DialogueInv
<1>0. /\ spc = "dispatch" /\ spc' = "idle"
      /\ UNCHANGED <<mode, cpc, connected, msgs, got, net, back, running, buf, out, protocol,
                     lengthRead, expected, first>>
  BY DEF ReadDone, clientVars, frameVars
<1>1. cpc \in Waiting /\ running /\ Len(msgs) >= 1
  BY <1>0, InRead
<1>2. TypeOK'
  BY <1>0 DEF TypeOK
<1>3. ClientInv' /\ RestInv' /\ ReplyInv'
  BY <1>0, <1>1 DEF ClientInv, RestInv, ReplyInv, PartAt, MaxReplies, Last
<1>4. StreamInv'
  BY <1>0 DEF StreamInv, Unanswered, Answered, Start, Sent, Last, Total, MaxReplies
<1>5. ProtocolInv' /\ DetectedRight'
  BY <1>0, <1>1 DEF ProtocolInv, DetectedRight, Last, Total
<1>6. HandledInv'
  <2>1. protocol = "protobuf" => Len(buf) < Prefix
    BY <1>1, InBuffer DEF ReadDone, EnoughForTurn, Prefix
  <2>2. ASSUME protocol = "text", mode = "text" PROVE Len(buf) < Total(Last)
    <3>1. buf = <<>> \/ ~Whole(buf, buf[1].msg)
      BY <2>2 DEF ReadDone
    <3>2. Total(Last) \in Nat /\ Total(Last) >= 1
      BY <1>1, Shapes
    <3>3. buf = <<>> => Len(buf) = 0
      BY Nothing2
    <3>4. ASSUME Len(buf) >= Total(Last) PROVE FALSE
      <4>1. 1 \in 1..Len(buf) /\ Total(Last) \in 1..Len(buf)
        BY <3>2, <3>4, InBuffer, <1>1
      <4>2. buf[1].msg = Len(msgs) /\ buf[Total(Last)].msg = Len(msgs)
            /\ buf[Total(Last)].at = Total(Last)
        BY <4>1, <1>1, <2>2, <3>2, InBuffer
      <4>3. Whole(buf, Len(msgs))
        BY <4>1, <4>2, <1>1, InBuffer DEF Whole, Last
      <4> QED
        BY <3>1, <3>2, <3>3, <3>4, <4>2, <4>3
    <3> QED
      BY <3>2, <3>4, <1>1, InBuffer
  <2> QED
    BY <1>0, <2>1, <2>2, Shapes DEF HandledInv, Last, Total
<1> QED
  BY <1>2, <1>3, <1>4, <1>5, <1>6

(* What is written goes from the output buffer to behind the replies under  *)
(* way.                                                                     *)
LEMMA ServerWritesInv ==
  ASSUME DialogueInv, NEW n \in 1..Len(out), ServerWrites(n)
  PROVE  DialogueInv'
<1> USE DEF DialogueInv
<1>0. /\ spc = "idle" /\ running /\ back' = back \o SubSeq(out, 1, n)
      /\ out' = SubSeq(out, n + 1, Len(out))
      /\ UNCHANGED <<mode, cpc, connected, msgs, got, net, running, spc, buf, protocol,
                     lengthRead, expected, first>>
  BY DEF ServerWrites, clientVars, frameVars
<1>1. Len(out) \in Nat /\ Len(back) \in Nat /\ n \in 0..Len(out) /\ n \in Nat
      /\ n >= 1 /\ n <= Len(out)
  BY Shapes
<1>2. out # <<>> /\ cpc \in Waiting
  BY <1>0, <1>1, Nothing2 DEF RestInv
<1>3. Answered
  BY <1>0, <1>2 DEF StreamInv, Unanswered
<1>4. /\ back' \in Seq([msg : 1..Len(msgs), part : Part])
      /\ out' \in Seq([msg : 1..Len(msgs), part : Part])
      /\ Len(back') = Len(back) + n /\ Len(out') = Len(out) - n
      /\ DOMAIN back' = 1..(Len(back) + n) /\ DOMAIN out' = 1..(Len(out) - n)
      /\ DOMAIN back = 1..Len(back) /\ DOMAIN out = 1..Len(out)
      /\ \A i \in 1..(Len(back) + n) :
            back'[i] = IF i <= Len(back) THEN back[i] ELSE out[i - Len(back)]
      /\ \A i \in 1..(Len(out) - n) : out'[i] = out[n + i]
  <2> DEFINE S == [msg : 1..Len(msgs), part : Part]
             f == SubSeq(out, 1, n)
  <2>1. back \in Seq(S) /\ out \in Seq(S)
    BY DEF TypeOK
  <2> HIDE DEF S
  <2>2. /\ SubSeq(out, 1, n) \in Seq(S) /\ Len(SubSeq(out, 1, n)) = n
        /\ \A i \in 1..n : SubSeq(out, 1, n)[i] = out[i]
        /\ SubSeq(out, n + 1, Len(out)) \in Seq(S)
        /\ Len(SubSeq(out, n + 1, Len(out))) = Len(out) - n
        /\ DOMAIN SubSeq(out, n + 1, Len(out)) = 1..(Len(out) - n)
        /\ \A i \in 1..(Len(out) - n) : SubSeq(out, n + 1, Len(out))[i] = out[n + i]
    <3>1. n \in 0..Len(out) /\ out \in Seq(S)
      BY <1>1, <2>1
    <3> QED
      BY <3>1, Cut
  <2> HIDE DEF f
  <2>3. f \in Seq(S) /\ Len(f) = n /\ \A i \in 1..n : f[i] = out[i]
    BY <2>2 DEF f
  <2>4. /\ back \o f \in Seq(S) /\ Len(back \o f) = Len(back) + Len(f)
        /\ DOMAIN (back \o f) = 1..(Len(back) + Len(f))
        /\ \A i \in 1..(Len(back) + Len(f)) :
              (back \o f)[i] = IF i <= Len(back) THEN back[i] ELSE f[i - Len(back)]
    <3>1. f \in Seq(S)
      BY <2>3
    <3> QED
      BY <2>1, <3>1, Behind
  <2>5. back' = back \o f
    BY <1>0 DEF f
  <2>6. \A i \in 1..(Len(back) + n) :
           back'[i] = IF i <= Len(back) THEN back[i] ELSE out[i - Len(back)]
    BY <1>1, <2>3, <2>4, <2>5
  <2> QED
    BY <1>0, <2>1, <2>2, <2>3, <2>4, <2>5, <2>6, Nothing DEF S
<1>5. TypeOK'
  BY <1>0, <1>4 DEF TypeOK
<1>6. ClientInv' /\ RestInv'
  BY <1>0, <1>2 DEF ClientInv, RestInv
<1>7. MaxReplies' = MaxReplies /\ \A k : PartAt(k)' = PartAt(k)
  BY <1>0 DEF MaxReplies, PartAt, Last
<1>8. ReplyInv'
  <2>1. /\ \A i \in 1..Len(back) : back[i] = [msg |-> Len(msgs), part |-> PartAt(i)]
        /\ \A i \in 1..Len(out) :
              out[i] = [msg |-> Len(msgs), part |-> PartAt(Len(back) + i)]
        /\ Len(back) + Len(out) <= MaxReplies
    BY <1>2, <1>4 DEF ReplyInv
  <2>2. ASSUME NEW i \in DOMAIN back'
        PROVE  back'[i] = [msg |-> Len(msgs), part |-> PartAt(i)]
    <3>1. CASE i <= Len(back)
      BY <1>1, <1>4, <2>1, <2>2, <3>1
    <3>2. CASE ~(i <= Len(back))
      <4>1. i - Len(back) \in 1..Len(out) /\ Len(back) + (i - Len(back)) = i
        BY <1>1, <1>4, <2>2, <3>2
      <4> QED
        BY <1>4, <2>1, <2>2, <3>2, <4>1
    <3> QED
      BY <3>1, <3>2
  <2>3. ASSUME NEW i \in DOMAIN out'
        PROVE  out'[i] = [msg |-> Len(msgs), part |-> PartAt(Len(back') + i)]
    <3>1. i \in 1..(Len(out) - n) /\ Len(back') = Len(back) + n
      BY <1>4
    <3>2. n + i \in 1..Len(out) /\ Len(back) + (n + i) = Len(back') + i
      BY <1>1, <3>1
    <3> QED
      BY <1>4, <2>1, <3>1, <3>2
  <2>4. Len(back') + Len(out') = Len(back) + Len(out)
    BY <1>1, <1>4
  <2> QED
    BY <1>0, <1>7, <2>1, <2>2, <2>3, <2>4 DEF ReplyInv
<1>9. Answered'
  <2>1. Len(back') + Len(out') = Len(back) + Len(out)
    BY <1>1, <1>4
  <2> QED
    BY <1>0, <1>3, <1>7, <2>1 DEF Answered, Last
<1>10. StreamInv'
  BY <1>0, <1>3, <1>9, Nothing2 DEF StreamInv, Answered
<1>11. ProtocolInv' /\ HandledInv' /\ DetectedRight'
  BY <1>0 DEF ProtocolInv, HandledInv, DetectedRight, Last, Total
<1> QED
  BY <1>5, <1>6, <1>8, <1>10, <1>11

(* An answer enters the output buffer: the buffer is used up, and the reply *)
(* is the one that the message calls for.                                   *)
LEMMA AnswerInv ==
  ASSUME DialogueInv, spc = "dispatch", protocol = mode, mode # "http",
         cpc \in {"receive", "left"}, buf' = <<>>, net = <<>>, lengthRead' = FALSE,
         expected' \in 0..MaxFrame,
         out' \in Seq([msg : 1..Len(msgs), part : Part]), Len(out') <= MaxReplies,
         mode = "protobuf" \/ Last.kind \notin {"cr", "crcr"} => Len(out') = MaxReplies,
         \A i \in DOMAIN out' : out'[i] = [msg |-> Len(msgs), part |-> PartAt(i)],
         UNCHANGED <<mode, cpc, connected, msgs, got, net, back, running, spc, protocol, first>>
  PROVE  DialogueInv'
<1> USE DEF DialogueInv
<1>1. cpc \in Waiting /\ running /\ Len(msgs) >= 1 /\ back = <<>> /\ Len(back) = 0
  BY InRead, Nothing2
<1>2. TypeOK'
  BY <1>1, Nothing2 DEF TypeOK
<1>3. ClientInv' /\ RestInv'
  BY <1>1 DEF ClientInv, RestInv
<1>4. MaxReplies' = MaxReplies /\ \A k : PartAt(k)' = PartAt(k)
  BY DEF MaxReplies, PartAt, Last
<1>5. Len(out') \in Nat /\ DOMAIN out' = 1..Len(out')
  BY Nothing
<1>6. \A i \in DOMAIN out' : out'[i] = [msg |-> Len(msgs), part |-> PartAt(Len(back) + i)]
  <2>1. \A i \in DOMAIN out' : Len(back) + i = i
    BY <1>1, <1>5
  <2> QED
    BY <2>1
<1>7. ReplyInv'
  BY <1>1, <1>4, <1>5, <1>6, Nothing2 DEF ReplyInv
<1>8. Answered'
  BY <1>1, <1>4, <1>5 DEF Answered, Last
<1>9. StreamInv'
  BY <1>1, <1>8, Nothing2 DEF StreamInv
<1>10. ProtocolInv' /\ HandledInv' /\ DetectedRight'
  BY <1>1 DEF ProtocolInv, HandledInv, DetectedRight, Last, Total
<1> QED
  BY <1>2, <1>3, <1>7, <1>9, <1>10

(* A line is taken whole and echoed.                                        *)
LEMMA HandleLineInv ==
  ASSUME DialogueInv, HandleLine
  PROVE  DialogueInv'
<1> USE DEF DialogueInv
<1> DEFINE n == Len(msgs)
           t == Total(Last)
           eol == CHOOSE i \in DOMAIN buf : buf[i] = [msg |-> n, at |-> t]
<1>1. /\ spc = "dispatch" /\ protocol = "text" /\ mode = "text" /\ buf # <<>>
      /\ Whole(buf, buf[1].msg) /\ running /\ cpc \in Waiting /\ cpc \in {"receive", "left"}
      /\ n \in Nat /\ n >= 1 /\ t \in Nat /\ t >= 1
  BY InRead, Shapes DEF HandleLine, ProtocolInv, ClientInv, Waiting
<1>2. /\ DOMAIN buf = 1..Len(buf) /\ Len(buf) \in Nat /\ Start = 1 /\ ~lengthRead
      /\ \A i \in 1..Len(buf) : buf[i].msg = n /\ buf[i].at = i
                              /\ buf[i] = [msg |-> n, at |-> i]
      /\ Unanswered /\ Sent = t
  BY <1>1, InBuffer
<1>3. Len(buf) >= 1 /\ buf[1].msg = n
  <2>1. Len(buf) # 0
    BY <1>1, Nothing DEF TypeOK
  <2> QED
    BY <1>2, <2>1
<1>4. Len(buf) = t /\ Len(net) = 0 /\ net = <<>> /\ out = <<>>
  <2>1. PICK i \in DOMAIN buf : buf[i].at = t
    BY <1>1, <1>3 DEF Whole, Last
  <2>2. Len(buf) >= t /\ Len(net) \in Nat
    BY <1>2, <2>1, Shapes
  <2>3. Len(buf) + Len(net) = t /\ out = <<>>
    BY <1>1, <1>2 DEF Unanswered
  <2> QED
    BY <1>1, <1>2, <2>2, <2>3, Nothing DEF TypeOK
<1>5. eol = t
  BY <1>1, <1>2, <1>4
<1>6. /\ buf' = SubSeq(buf, eol + 1, Len(buf)) /\ out' = out \o EchoOf(n)
      /\ UNCHANGED <<mode, cpc, connected, msgs, got, net, back, running, spc, protocol,
                     lengthRead, expected, first>>
  BY <1>3 DEF HandleLine, clientVars, frameVars, Last
<1> HIDE DEF eol, t
<1>7. buf' = <<>>
  <2> DEFINE S == [msg : 1..Len(msgs), at : Nat \ {0}]
  <2>1. buf \in Seq(S)
    BY DEF TypeOK
  <2> HIDE DEF S
  <2>2. t \in 0..Len(buf) /\ Len(buf) - t = 0
    BY <1>1, <1>4
  <2>3. SubSeq(buf, t + 1, Len(buf)) \in Seq(S) /\ Len(SubSeq(buf, t + 1, Len(buf))) = 0
    BY <2>1, <2>2, Cut
  <2> QED
    BY <1>5, <1>6, <2>3, Nothing
<1>8. EchoOf(n) = IF Last.kind = "cr" THEN <<>>
                  ELSE <<[msg |-> n, part |-> PartAt(1)]>>
  BY <1>1 DEF EchoOf, Last, PartAt
<1>9. PartAt(1) \in Part /\ MaxReplies = 1
  BY <1>1 DEF PartAt, Part, MaxReplies
<1> DEFINE r == [msg |-> n, part |-> PartAt(1)]
           R == [msg : 1..n, part : Part]
<1>10. r \in R
  BY <1>1, <1>9
<1>11. out' = IF Last.kind = "cr" THEN <<>> ELSE <<r>>
  <2> HIDE DEF R, r
  <2>1. <<>> \in Seq(R) /\ <<r>> \in Seq(R)
    BY <1>10
  <2>2. \A s \in Seq(R) : <<>> \o s = s
    BY ConcatEmptySeq
  <2> QED
    BY <1>4, <1>6, <1>8, <2>1, <2>2 DEF r
<1>12. out' \in Seq(R) /\ Len(out') <= 1 /\ (Last.kind \notin {"cr", "crcr"} => Len(out') = 1)
       /\ \A i \in DOMAIN out' : i = 1 /\ out'[i] = r
  <2> HIDE DEF R, r
  <2> QED
    BY <1>10, <1>11
<1>13. \A i \in DOMAIN out' : out'[i] = [msg |-> n, part |-> PartAt(i)]
  BY <1>12
<1> QED
  BY <1>1, <1>2, <1>4, <1>6, <1>7, <1>9, <1>12, <1>13, AnswerInv DEF TypeOK

(* One turn of the frame loop.  A length within the limit is one that the   *)
(* client has sent, for text would be one above it; what follows it is the  *)
(* message's body, whole or its beginning.                                  *)
LEMMA HandleFrameInv ==
  ASSUME DialogueInv, HandleFrame
  PROVE  DialogueInv'
<1> USE DEF DialogueInv
<1> DEFINE n == Len(msgs)
           size == IF lengthRead THEN expected ELSE LengthAt(buf)
           body == IF lengthRead THEN buf ELSE SubSeq(buf, Prefix + 1, Len(buf))
<1>0. /\ spc = "dispatch" /\ protocol = "protobuf" /\ Len(buf) >= Prefix
      /\ \/ Shutdown /\ UNCHANGED frameVars
         \/ /\ ~TooLong(size) /\ Len(body) < size
            /\ buf' = body /\ lengthRead' = TRUE /\ expected' = size
            /\ spc' = "idle" /\ UNCHANGED <<running, out>>
         \/ /\ ~TooLong(size) /\ Len(body) >= size
            /\ buf' = SubSeq(body, size + 1, Len(body))
            /\ lengthRead' = FALSE /\ expected' = size
            /\ out' = out \o FrameReply(body[1].msg)
            /\ UNCHANGED <<running, spc>>
      /\ UNCHANGED <<clientVars, net, back, protocol, first>>
  BY DEF HandleFrame, EnoughForTurn, AfterFrame
<1>1. /\ running /\ cpc \in Waiting /\ n \in Nat /\ n >= 1 /\ back = <<>>
      /\ Len(buf) \in Nat /\ Len(net) \in Nat /\ Len(buf) >= 4 /\ cpc # "connect"
  BY <1>0, InRead, Shapes DEF Prefix
<1> HIDE DEF size, body
<1>2. CASE Shutdown /\ UNCHANGED frameVars
  BY <1>0, <1>1, <1>2, ShutdownInv
<1>3. CASE ~(Shutdown /\ UNCHANGED frameVars)
  <2>0. ~TooLong(size)
    BY <1>0, <1>3
  <2>1. mode = "protobuf"
    <3>1. CASE lengthRead
      BY <1>1, <3>1 DEF ProtocolInv
    <3>2. CASE ~lengthRead
      <4>1. mode # "protobuf" => size = MaxFrame + 1
        BY <3>2 DEF size, LengthAt, Huge
      <4>2. MaxFrame + 1 > MaxFrame
        BY DialogueAssumption
      <4> QED
        BY <2>0, <4>1, <4>2 DEF TooLong
    <3> QED
      BY <3>1, <3>2
  <2>2. /\ DOMAIN buf = 1..Len(buf) /\ Start = IF lengthRead THEN 5 ELSE 1
        /\ \A i \in 1..Len(buf) : buf[i].msg = n /\ buf[i].at = Start + i - 1
        /\ \A i \in 1..Len(buf) : buf[i] = [msg |-> n, at |-> Start + i - 1]
    BY <1>1, InBuffer DEF Start, Prefix
  <2>3. Unanswered
    BY <1>1, InBuffer, Nothing2
  <2>4. /\ Last.size \in Nat /\ Last.size >= 1 /\ Total(Last) = 4 + Last.size
        /\ Sent = IF cpc = "body" THEN 4 ELSE 4 + Last.size
    BY <1>1, <2>1, Shapes DEF Sent, Prefix
  <2>5. size = Last.size
    <3>1. CASE lengthRead
      BY <1>1, <3>1 DEF ProtocolInv, size
    <3>2. CASE ~lengthRead
      <4>1. buf[1].msg = n /\ buf[1].at = 1
        BY <1>1, <2>2, <3>2
      <4> QED
        BY <2>1, <3>2, <4>1 DEF size, LengthAt, Last
    <3> QED
      BY <3>1, <3>2
  <2>6. /\ body \in Seq([msg : 1..n, at : Nat \ {0}]) /\ DOMAIN body = 1..Len(body)
        /\ Len(body) = Len(buf) - (5 - Start) /\ Len(body) \in Nat
        /\ \A i \in 1..Len(body) : body[i] = [msg |-> n, at |-> 4 + i]
    <3>1. CASE lengthRead
      <4>1. \A i \in 1..Len(buf) : Start + i - 1 = 4 + i
        BY <2>2, <3>1
      <4> QED
        BY <1>1, <2>2, <3>1, <4>1 DEF body, TypeOK
    <3>2. CASE ~lengthRead
      <4> DEFINE S == [msg : 1..n, at : Nat \ {0}]
      <4>1. buf \in Seq(S) /\ Prefix \in 0..Len(buf)
        BY <1>1 DEF TypeOK, Prefix
      <4> HIDE DEF S
      <4>2. /\ body \in Seq(S) /\ Len(body) = Len(buf) - Prefix
            /\ DOMAIN body = 1..(Len(buf) - Prefix)
            /\ \A i \in 1..(Len(buf) - Prefix) : body[i] = buf[Prefix + i]
        BY <3>2, <4>1, Cut DEF body
      <4>3. /\ body \in Seq(S) /\ Len(body) = Len(buf) - 4 /\ DOMAIN body = 1..(Len(buf) - 4)
            /\ \A i \in 1..(Len(buf) - 4) : body[i] = buf[4 + i]
        BY <4>2 DEF Prefix
      <4>4. \A i \in 1..(Len(buf) - 4) : 4 + i \in 1..Len(buf) /\ Start + (4 + i) - 1 = 4 + i
        BY <1>1, <2>2, <3>2
      <4>5. \A i \in 1..(Len(buf) - 4) : buf[4 + i] = [msg |-> n, at |-> 4 + i]
        BY <2>2, <4>4
      <4>6. Len(buf) - 4 = Len(buf) - (5 - Start) /\ Len(buf) - 4 \in Nat
        BY <1>1, <2>2, <3>2
      <4> QED
        BY <4>3, <4>5, <4>6 DEF S
    <3> QED
      BY <3>1, <3>2
  <2>7. Len(body) + Len(net) = Sent - 4 /\ out = <<>> /\ cpc # "receiveBody"
    <3>1. Len(buf) + Len(net) = Sent - Start + 1 /\ out = <<>> /\ cpc # "receiveBody"
      BY <2>3 DEF Unanswered
    <3>2. Len(body) = Len(buf) - (5 - Start) /\ Start \in {1, 5} /\ Sent \in Nat
      BY <2>2, <2>4, <2>6
    <3> QED
      BY <1>1, <3>1, <3>2
  <2>8. Last.size <= MaxFrame
    BY <2>0, <2>4, <2>5, DialogueAssumption DEF TooLong
  <2>9. CASE Len(body) < size
    <3>1. /\ buf' = body /\ lengthRead' = TRUE /\ expected' = Last.size /\ spc' = "idle"
          /\ UNCHANGED <<mode, cpc, connected, msgs, got, net, back, running, out, protocol,
                         first>>
      BY <1>0, <1>3, <2>4, <2>5, <2>6, <2>9 DEF clientVars
    <3>2. TypeOK'
      BY <2>4, <2>6, <2>8, <3>1, DialogueAssumption DEF TypeOK
    <3>3. ClientInv' /\ RestInv' /\ ReplyInv'
      BY <1>1, <3>1 DEF ClientInv, RestInv, ReplyInv, PartAt, MaxReplies, Last
    <3>4. StreamInv'
      <4>1. Start' = 5 /\ Sent' = Sent /\ Last' = Last
        BY <3>1 DEF Start, Prefix, Sent, Last, Total
      <4>2. Unanswered'
        BY <1>1, <2>4, <2>6, <2>7, <3>1, <4>1 DEF Unanswered
      <4>3. \A i \in DOMAIN buf' : buf'[i] = [msg |-> Len(msgs'), at |-> Start' + i - 1]
        <5>1. \A i \in 1..Len(body) : Start' + i - 1 = 4 + i
          BY <2>6, <4>1
        <5> QED
          BY <2>6, <3>1, <5>1
      <4>4. \A i \in DOMAIN net :
               net[i] = [msg |-> n, at |-> Start + Len(buf) + i - 1]
        BY <1>1 DEF StreamInv
      <4>5. Start + Len(buf) = Start' + Len(buf')
        BY <1>1, <2>2, <2>6, <3>1, <4>1
      <4> QED
        BY <3>1, <4>2, <4>3, <4>4, <4>5 DEF StreamInv
    <3>5. ProtocolInv' /\ DetectedRight'
      BY <1>0, <1>1, <2>1, <3>1 DEF ProtocolInv, DetectedRight, Last, Total
    <3>6. HandledInv'
      BY <2>1, <2>5, <2>9, <3>1 DEF HandledInv
    <3> QED
      BY <3>2, <3>3, <3>4, <3>5, <3>6
  <2>10. CASE ~(Len(body) < size)
    <3>1. /\ Len(body) = size /\ size \in Nat /\ size >= 1 /\ cpc = "receive"
          /\ Len(net) = 0
      <4>1. Len(body) \in Nat /\ Len(net) \in Nat /\ size \in Nat /\ size >= 1
        BY <1>1, <2>4, <2>5, <2>6
      <4>2. Len(body) + Len(net) = IF cpc = "body" THEN 0 ELSE size
        BY <2>4, <2>5, <2>7
      <4>3. cpc # "body" /\ cpc = "receive"
        BY <1>1, <2>1, <2>7, <2>10, <4>1, <4>2 DEF Waiting, ClientInv
      <4> QED
        BY <2>10, <4>1, <4>2, <4>3
    <3>2. /\ buf' = SubSeq(body, size + 1, Len(body)) /\ lengthRead' = FALSE
          /\ expected' = size /\ out' = out \o FrameReply(body[1].msg)
          /\ UNCHANGED <<mode, cpc, connected, msgs, got, net, back, running, spc, protocol,
                         first>>
      BY <1>0, <1>3, <2>4, <2>5, <2>6, <2>10 DEF clientVars
    <3>3. net = <<>>
      BY <3>1, Nothing DEF TypeOK
    <3>4. buf' = <<>>
      <4> DEFINE S == [msg : 1..n, at : Nat \ {0}]
      <4>1. body \in Seq(S) /\ size \in 0..Len(body) /\ Len(body) - size = 0
        BY <2>6, <3>1
      <4> HIDE DEF S
      <4>2. SubSeq(body, size + 1, Len(body)) \in Seq(S)
            /\ Len(SubSeq(body, size + 1, Len(body))) = 0
        BY <4>1, Cut
      <4> QED
        BY <3>2, <4>2, Nothing
    <3> DEFINE R == [msg : 1..n, part : Part]
               p == [msg |-> n, part |-> "length"]
               q == [msg |-> n, part |-> "body"]
    <3>5. p \in R /\ q \in R
      BY <1>1 DEF Part
    <3>6. body[1].msg = n
      BY <2>6, <3>1
    <3>7. out' = <<p, q>> /\ out' \in Seq(R)
      <4>1. FrameReply(n) = <<p, q>>
        BY DEF FrameReply
      <4> HIDE DEF R, p, q
      <4>2. <<p, q>> \in Seq(R)
        BY <3>5
      <4>3. <<>> \o <<p, q>> = <<p, q>>
        BY <4>2, ConcatEmptySeq
      <4> QED
        BY <2>7, <3>2, <3>6, <4>1, <4>2, <4>3
    <3>8. PartAt(1) = "length" /\ PartAt(2) = "body" /\ MaxReplies = 2
      BY <2>1, <3>1 DEF PartAt, MaxReplies
    <3>9. Len(out') = 2 /\ DOMAIN out' = {1, 2} /\ out'[1] = p /\ out'[2] = q
      <4> HIDE DEF p, q
      <4> QED
        BY <3>7
    <3>10. \A i \in DOMAIN out' : out'[i] = [msg |-> n, part |-> PartAt(i)]
      BY <3>8, <3>9
    <3>11. expected' \in 0..MaxFrame
      BY <2>4, <2>5, <2>8, <3>2, DialogueAssumption
    <3>12. Len(out') <= MaxReplies /\ Len(out') = MaxReplies
      BY <3>8, <3>9
    <3>13. spc = "dispatch" /\ protocol = mode /\ mode # "http"
      BY <1>0, <2>1
    <3> HIDE DEF DialogueInv
    <3> QED
      BY <3>1, <3>2, <3>3, <3>4, <3>7, <3>10, <3>11, <3>12, <3>13, AnswerInv
  <2> QED
    BY <2>9, <2>10
<1> QED
  BY <1>2, <1>3

(* What protocol the first read's bytes are taken for.                      *)
LEMMA Detection ==
  ASSUME DialogueInv, Len(msgs) = 1, NEW b, NEW n \in Nat, n >= 1, DOMAIN b = 1..n, Len(b) = n,
         \A i \in 1..n : b[i].msg = 1 /\ b[i].at = i
  PROVE  /\ Detected(b) \in {"text", "protobuf", "http"}
         /\ Detected(b) = "text" => mode = "text"
         /\ Detected(b) # mode =>
              \/ mode = "text" /\ (\/ n < Total(msgs[1])
                                   \/ msgs[1].kind \in {"control", "method", "httpish"})
              \/ mode = "http" /\ n < Prefix
              \/ mode = "protobuf" /\ msgs[1].kind = "httpish"
<1> USE DEF DialogueInv
<1>1. /\ mode \in {"text", "protobuf", "http"} /\ Total(msgs[1]) \in Nat
      /\ Total(msgs[1]) >= 1
  BY Shapes DEF Last
<1>2. mode = "http" => (HasNewline(b) => n >= 5) /\ (LooksHttp(b) <=> n >= 4)
  <2>1. mode = "http" => msgs[1].kind = "request"
    BY Shapes DEF Last, Messages
  <2> QED
    BY <2>1 DEF HasNewline, LooksHttp, Prefix
<1>4. mode = "protobuf" => msgs[1].kind \in {"good", "invalid", "httpish"}
  BY Shapes DEF Last, Messages
<1>3. mode = "text" /\ n >= Total(msgs[1]) => HasNewline(b)
  BY <1>1 DEF HasNewline, Whole
<1> QED
  BY <1>1, <1>2, <1>3, <1>4 DEF Detected, LooksText, LooksHttp, Printable, Prefix

(* A read moves bytes from the network to the buffer; the first one settles *)
(* the protocol.                                                            *)
LEMMA ServerReadsInv ==
  ASSUME DialogueInv, NEW k \in 1..Len(net), ServerReads(k)
  PROVE  DialogueInv'
<1> USE DEF DialogueInv
<1> DEFINE n == Len(msgs)
<1>0. /\ spc = "idle" /\ running /\ spc' = "dispatch"
      /\ buf' = buf \o SubSeq(net, 1, k) /\ net' = SubSeq(net, k + 1, Len(net))
      /\ IF protocol = "none" THEN protocol' = Detected(buf') /\ first' = k
                              ELSE UNCHANGED <<protocol, first>>
      /\ UNCHANGED <<mode, cpc, connected, msgs, got, back, running, out, lengthRead, expected>>
  BY DEF ServerReads, clientVars, frameVars
<1>1. /\ Len(buf) \in Nat /\ Len(net) \in Nat /\ k \in 0..Len(net) /\ k \in Nat /\ k >= 1
      /\ k <= Len(net) /\ n \in Nat
  BY Shapes
<1>2. net # <<>> /\ cpc \in Waiting
  BY <1>0, <1>1, Nothing2 DEF RestInv
<1>3. Unanswered /\ n >= 1
  BY <1>0, <1>1, <1>2 DEF StreamInv, Answered, ClientInv, TypeOK
<1>4. /\ buf' \in Seq([msg : 1..n, at : Nat \ {0}])
      /\ net' \in Seq([msg : 1..n, at : Nat \ {0}])
      /\ Len(buf') = Len(buf) + k /\ Len(net') = Len(net) - k
      /\ DOMAIN buf' = 1..(Len(buf) + k) /\ DOMAIN net' = 1..(Len(net) - k)
      /\ DOMAIN buf = 1..Len(buf) /\ DOMAIN net = 1..Len(net)
      /\ \A i \in 1..(Len(buf) + k) :
            buf'[i] = IF i <= Len(buf) THEN buf[i] ELSE net[i - Len(buf)]
      /\ \A i \in 1..(Len(net) - k) : net'[i] = net[k + i]
  <2> DEFINE S == [msg : 1..n, at : Nat \ {0}]
             f == SubSeq(net, 1, k)
  <2>1. buf \in Seq(S) /\ net \in Seq(S)
    BY DEF TypeOK
  <2> HIDE DEF S
  <2>2. /\ SubSeq(net, 1, k) \in Seq(S) /\ Len(SubSeq(net, 1, k)) = k
        /\ \A i \in 1..k : SubSeq(net, 1, k)[i] = net[i]
        /\ SubSeq(net, k + 1, Len(net)) \in Seq(S)
        /\ Len(SubSeq(net, k + 1, Len(net))) = Len(net) - k
        /\ DOMAIN SubSeq(net, k + 1, Len(net)) = 1..(Len(net) - k)
        /\ \A i \in 1..(Len(net) - k) : SubSeq(net, k + 1, Len(net))[i] = net[k + i]
    <3>1. k \in 0..Len(net) /\ net \in Seq(S)
      BY <1>1, <2>1
    <3> QED
      BY <3>1, Cut
  <2> HIDE DEF f
  <2>3. f \in Seq(S) /\ Len(f) = k /\ \A i \in 1..k : f[i] = net[i]
    BY <2>2 DEF f
  <2>4. /\ buf \o f \in Seq(S) /\ Len(buf \o f) = Len(buf) + Len(f)
        /\ DOMAIN (buf \o f) = 1..(Len(buf) + Len(f))
        /\ \A i \in 1..(Len(buf) + Len(f)) :
              (buf \o f)[i] = IF i <= Len(buf) THEN buf[i] ELSE f[i - Len(buf)]
    <3>1. f \in Seq(S)
      BY <2>3
    <3> QED
      BY <2>1, <3>1, Behind
  <2>5. buf' = buf \o f
    BY <1>0 DEF f
  <2>6. \A i \in 1..(Len(buf) + k) :
           buf'[i] = IF i <= Len(buf) THEN buf[i] ELSE net[i - Len(buf)]
    BY <1>1, <2>3, <2>4, <2>5
  <2> QED
    BY <1>0, <2>1, <2>2, <2>3, <2>4, <2>5, <2>6, Nothing DEF S
<1>5. Start' = Start /\ Sent' = Sent /\ Last' = Last /\ Start \in {1, 5}
  BY <1>0 DEF Start, Sent, Last, Total, Prefix
<1>6. /\ \A i \in 1..Len(buf) : buf[i] = [msg |-> n, at |-> Start + i - 1]
      /\ \A i \in 1..Len(net) : net[i] = [msg |-> n, at |-> Start + Len(buf) + i - 1]
  BY <1>0, <1>2, <1>4 DEF StreamInv
<1>7. \A i \in 1..(Len(buf) + k) : buf'[i] = [msg |-> n, at |-> Start + i - 1]
  <2> SUFFICES ASSUME NEW i \in 1..(Len(buf) + k)
               PROVE  buf'[i] = [msg |-> n, at |-> Start + i - 1]
    OBVIOUS
  <2>1. CASE i <= Len(buf)
    BY <1>1, <1>4, <1>6, <2>1
  <2>2. CASE ~(i <= Len(buf))
    <3>1. i - Len(buf) \in 1..Len(net) /\ Start + Len(buf) + (i - Len(buf)) - 1 = Start + i - 1
      BY <1>1, <1>5, <2>2
    <3> QED
      BY <1>4, <1>6, <2>2, <3>1
  <2> QED
    BY <2>1, <2>2
<1>8. \A i \in 1..(Len(net) - k) :
         net'[i] = [msg |-> n, at |-> Start + Len(buf') + i - 1]
  <2> SUFFICES ASSUME NEW i \in 1..(Len(net) - k)
               PROVE  net'[i] = [msg |-> n, at |-> Start + Len(buf') + i - 1]
    OBVIOUS
  <2>1. k + i \in 1..Len(net) /\ Start + Len(buf) + (k + i) - 1 = Start + Len(buf') + i - 1
    BY <1>1, <1>4, <1>5
  <2> QED
    BY <1>4, <1>6, <2>1
<1>9. /\ protocol' \in {"text", "protobuf", "http"} /\ first' \in Nat
      /\ protocol' = "text" => mode = "text"
      /\ lengthRead => protocol' = "protobuf"
      /\ DetectedRight'
  <2>1. CASE protocol = "none"
    <3>1. buf = <<>> /\ n = 1 /\ ~lengthRead /\ Len(buf) = 0
      BY <1>0, <1>2, <2>1, Nothing2 DEF ProtocolInv
    <3>2. \A i \in 1..k : buf'[i].msg = 1 /\ buf'[i].at = i
      <4> SUFFICES ASSUME NEW i \in 1..k PROVE buf'[i].msg = 1 /\ buf'[i].at = i
        OBVIOUS
      <4>1. i \in 1..(Len(buf) + k) /\ Start + i - 1 = i
        BY <1>1, <3>1 DEF Start
      <4>2. buf'[i] = [msg |-> n, at |-> i]
        BY <1>7, <4>1
      <4> QED
        BY <3>1, <4>2
    <3>3. DOMAIN buf' = 1..k /\ Len(buf') = k
      BY <1>1, <1>4, <3>1
    <3>4. /\ Detected(buf') \in {"text", "protobuf", "http"}
          /\ Detected(buf') = "text" => mode = "text"
          /\ Detected(buf') # mode =>
              \/ mode = "text" /\ (\/ k < Total(msgs[1])
                                   \/ msgs[1].kind \in {"control", "method", "httpish"})
              \/ mode = "http" /\ k < Prefix
              \/ mode = "protobuf" /\ msgs[1].kind = "httpish"
      BY <1>1, <3>1, <3>2, <3>3, Detection
    <3>5. protocol' = Detected(buf') /\ first' = k
      BY <1>0, <2>1
    <3> QED
      BY <1>0, <1>1, <3>1, <3>4, <3>5 DEF DetectedRight, Total
  <2>2. CASE protocol # "none"
    BY <1>0, <2>2 DEF TypeOK, ProtocolInv, DetectedRight, Total
  <2> QED
    BY <2>1, <2>2
<1>10. TypeOK'
  BY <1>0, <1>4, <1>9 DEF TypeOK
<1>11. ClientInv' /\ RestInv' /\ ReplyInv'
  BY <1>0, <1>2 DEF ClientInv, RestInv, ReplyInv, PartAt, MaxReplies, Last, Waiting
<1>12. StreamInv'
  <2>1. Unanswered'
    BY <1>0, <1>1, <1>3, <1>4, <1>5 DEF Unanswered
  <2> QED
    BY <1>0, <1>4, <1>5, <1>7, <1>8, <2>1 DEF StreamInv
<1>13. ProtocolInv'
  BY <1>0, <1>3, <1>5, <1>9 DEF ProtocolInv
<1>14. HandledInv'
  BY <1>0 DEF HandledInv
<1> QED
  BY <1>9, <1>10, <1>11, <1>12, <1>13, <1>14

-----------------------------------------------------------------------------
(* The invariant, and what follows from it.                                 *)

(* The initial states: no message, nothing under way, no protocol yet.      *)
LEMMA InitInv ==
  ASSUME Init
  PROVE  DialogueInv
<1>1. TypeOK
  <2>1. /\ msgs \in Seq(Messages(mode)) /\ Len(msgs) = 0
        /\ net \in Seq([msg : 1..Len(msgs), at : Nat \ {0}]) /\ buf = net
        /\ back \in Seq([msg : 1..Len(msgs), part : Part]) /\ out = back
    BY Nothing2 DEF Init
  <2>2. 0 \in 0..MaxFrame /\ 0 <= MaxMsgs + 1
    BY DialogueAssumption
  <2>3. /\ mode \in Modes /\ cpc = "connect" /\ connected \in BOOLEAN /\ got = 0
        /\ running \in BOOLEAN /\ spc = "idle" /\ protocol = "none" /\ lengthRead \in BOOLEAN
        /\ expected \in 0..MaxFrame /\ first \in Nat
    BY <2>2 DEF Init
  <2> QED
    BY <2>1, <2>2, <2>3 DEF TypeOK
<1>2. ClientInv /\ RestInv /\ ReplyInv /\ StreamInv
  BY Nothing2 DEF Init, ClientInv, RestInv, ReplyInv, StreamInv, Waiting
<1>3. ProtocolInv /\ HandledInv /\ DetectedRight
  BY Nothing2 DEF Init, ProtocolInv, HandledInv, DetectedRight, Waiting
<1> QED
  BY <1>1, <1>2, <1>3 DEF DialogueInv

(* A step that changes nothing.                                             *)
LEMMA StutterInv ==
  ASSUME DialogueInv, UNCHANGED vars
  PROVE  DialogueInv'
<1> USE DEF DialogueInv, vars, clientVars, serverVars, frameVars
<1>1. TypeOK' /\ ClientInv' /\ RestInv'
  BY DEF TypeOK, ClientInv, RestInv
<1>2. ReplyInv' /\ StreamInv'
  BY DEF ReplyInv, StreamInv, Unanswered, Answered, Start, Sent, Last, Total, PartAt, MaxReplies
<1>3. ProtocolInv' /\ HandledInv' /\ DetectedRight'
  BY DEF ProtocolInv, HandledInv, DetectedRight, Last, Total
<1> QED
  BY <1>1, <1>2, <1>3

(* No step of either side leaves the invariant.                             *)
LEMMA NextInv ==
  ASSUME DialogueInv, [Next]_vars
  PROVE  DialogueInv'
<1>1. ASSUME Client PROVE DialogueInv'
  BY <1>1, MoveInv, SendStartInv, SendBodyInv, ReceiveLineInv, ReceiveLengthInv, ReceiveBodyInv
     DEF Client, Receive
<1>2. ASSUME Reactor PROVE DialogueInv'
  BY <1>2, ServerReadsInv, HandleLineInv, HandleFrameInv, ReadDoneInv, HandleHttpInv,
     ServerWritesInv, ServerEndsInv DEF Reactor
<1>3. ASSUME IdleTimeout PROVE DialogueInv'
  BY <1>3, ServerEndsInv
<1>4. ASSUME Terminated \/ UNCHANGED vars PROVE DialogueInv'
  BY <1>4, StutterInv DEF Terminated
<1> QED
  BY <1>1, <1>2, <1>3, <1>4 DEF Next

(* The client, the two streams and the connection's parser stay in step:    *)
(* DialogueInv holds for any sizes, limit, number of messages and cuts.     *)
THEOREM DialogueInvariant == Spec => []DialogueInv
  BY InitInv, NextInv, PTL DEF Spec

(* protocol_detected takes a peer for what it is, but for the cases that    *)
(* DetectedRight names.                                                     *)
THEOREM ProtocolDetected == Spec => []DetectedRight
<1>1. DialogueInv => DetectedRight
  BY DEF DialogueInv
<1> QED
  BY <1>1, DialogueInvariant, PTL

(* handle_protobuf never loses its place: between reads the buffer begins   *)
(* with a length, or with the body whose length was read before.            *)
THEOREM FramesInStep == Spec => []FramesAligned
<1>1. ASSUME DialogueInv PROVE FramesAligned
  <2> SUFFICES ASSUME protocol = "protobuf", mode = "protobuf", spc = "idle", running
               PROVE  /\ lengthRead => expected = msgs[Len(msgs)].size
                      /\ buf # <<>> => buf[1].at = IF lengthRead THEN Prefix + 1 ELSE 1
    BY DEF FramesAligned
  <2>1. lengthRead => expected = msgs[Len(msgs)].size
    BY <1>1 DEF DialogueInv, ProtocolInv, Last
  <2>2. ASSUME buf # <<>> PROVE buf[1].at = IF lengthRead THEN Prefix + 1 ELSE 1
    <3>1. cpc \in Waiting
      BY <1>1, <2>2 DEF DialogueInv, RestInv
    <3>2. Len(buf) \in Nat /\ Len(buf) # 0
      BY <1>1, <2>2, Nothing DEF DialogueInv, TypeOK
    <3>3. buf[1].at = Start + 1 - 1
      BY <1>1, <3>1, <3>2, InBuffer
    <3> QED
      BY <3>3 DEF Start, Prefix
  <2> QED
    BY <2>1, <2>2
<1> QED
  BY <1>1, DialogueInvariant, PTL

(* Every reply under way belongs to the client's last request, so that      *)
(* receive_line and receive_protobuf never take an answer for another's.    *)
THEOREM AnswersInStep == Spec => []InStep
<1>1. ASSUME DialogueInv PROVE InStep
  <2>1. TypeOK
    BY <1>1 DEF DialogueInv
  <2>2. ASSUME cpc \in Waiting
        PROVE  got < Len(msgs) /\ \A i \in DOMAIN (back \o out) : (back \o out)[i].msg = Len(msgs)
    <3>1. /\ got < Len(msgs)
          /\ \A i \in DOMAIN back : back[i].msg = Len(msgs)
          /\ \A i \in DOMAIN out : out[i].msg = Len(msgs)
      BY <1>1, <2>2 DEF DialogueInv, ClientInv, ReplyInv
    <3> DEFINE S == [msg : 1..Len(msgs), part : Part]
    <3>2. back \in Seq(S) /\ out \in Seq(S)
      BY <2>1 DEF TypeOK
    <3> HIDE DEF S
    <3>3. /\ DOMAIN (back \o out) = 1..(Len(back) + Len(out))
          /\ \A i \in 1..(Len(back) + Len(out)) :
                (back \o out)[i] = IF i <= Len(back) THEN back[i] ELSE out[i - Len(back)]
      BY <3>2, Behind
    <3>4. /\ DOMAIN back = 1..Len(back) /\ DOMAIN out = 1..Len(out)
          /\ Len(back) \in Nat /\ Len(out) \in Nat
      BY <3>2, Nothing
    <3> QED
      BY <3>1, <3>3, <3>4
  <2> QED
    BY <2>1, <2>2 DEF InStep, Waiting
<1> QED
  BY <1>1, DialogueInvariant, PTL

(* A client left waiting with nothing under way waits for one of the three  *)
(* reasons of StallsOnly: handle_protobuf and handle_line_protocol answer   *)
(* everything else that has come whole.                                     *)
THEOREM OnlyTheseStall == Spec => []StallsOnly
<1>1. ASSUME DialogueInv PROVE StallsOnly
  <2> USE <1>1 DEF DialogueInv
  <2> SUFFICES ASSUME cpc \in {"receive", "receiveBody"}, mode # "http", net = <<>>, back = <<>>,
                      out = <<>>, spc = "idle", running, protocol = mode
               PROVE  \/ lengthRead /\ expected < Prefix /\ Len(buf) = expected
                      \/ Last.kind \in {"cr", "crcr"}
    BY DEF StallsOnly, Last
  <2>1. /\ cpc \in Waiting /\ Len(net) = 0 /\ Len(back) = 0 /\ Len(out) = 0 /\ Len(msgs) \in Nat
        /\ Len(msgs) >= 1 /\ mode \in {"text", "protobuf"} /\ Len(buf) \in Nat
    BY Shapes, Nothing2 DEF Waiting, ProtocolInv
  <2>2. CASE Answered
    <3>1. MaxReplies # 0
      BY <2>1 DEF MaxReplies
    <3> QED
      BY <2>1, <2>2, <3>1 DEF Answered
  <2>3. CASE Unanswered
    <3>1. /\ Sent = Total(Last) /\ Total(Last) \in Nat /\ Last.size \in Nat /\ Last.size >= 1
          /\ mode = "protobuf" => Total(Last) = 4 + Last.size
      BY <2>1, Shapes DEF Sent, Prefix
    <3>2. Len(buf) = Total(Last) - Start + 1 /\ Start = IF lengthRead THEN 5 ELSE 1
      BY <2>1, <2>3, <3>1 DEF Unanswered, Start, Prefix
    <3>3. /\ mode = "text" => Len(buf) < Total(Last)
          /\ mode = "protobuf" => Len(buf) < 4 \/ (lengthRead /\ Len(buf) < expected)
          /\ lengthRead => mode = "protobuf" /\ expected = Last.size
      BY <2>1 DEF HandledInv, ProtocolInv, Prefix
    <3> QED
      BY <2>1, <3>1, <3>2, <3>3 DEF Prefix
  <2> QED
    BY <2>1, <2>2, <2>3 DEF StreamInv
<1> QED
  BY <1>1, DialogueInvariant, PTL
=============================================================================
