------------------------- MODULE HttpPipelineProofs -------------------------
(***************************************************************************)
(* One HTTP connection, for any streams of requests, any cut of them into  *)
(* reads, any limits and any number of workers: its types, what becomes of *)
(* a parser's error, who is answered and in which order, when the          *)
(* pipeline's limit closes a connection, and that requests which come      *)
(* uncut are understood.                                                   *)
(***************************************************************************)
EXTENDS HttpPipeline, FiniteSetTheorems, SequenceTheorems, WellFoundedInduction, TLAPS

-----------------------------------------------------------------------------
(* Induction.                                                               *)

(* A set of naturals with anything in it has a least element.               *)
LEMMA Least ==
  ASSUME NEW T, T \subseteq Nat, T # {}
  PROVE  \E x \in T : \A y \in T : x <= y
<1> DEFINE R == OpToRel(<, Nat)
<1>1. \A x, y \in Nat : y < x => <<y, x>> \in R
  BY DEF OpToRel
<1>2. IsWellFoundedOn(R, Nat)
  BY NatLessThanWellFounded
<1> HIDE DEF R
<1>3. PICK x \in T : \A y \in T : ~ (<<y, x>> \in R)
  BY <1>2, WFMin
<1>4. \A y \in T : ~(y < x)
  BY <1>1, <1>3
<1> QED
  BY <1>4

(* A set that holds 0 and the successor of each of its naturals holds all   *)
(* naturals.                                                                *)
LEMMA Induct ==
  ASSUME NEW G, 0 \in G, \A n \in Nat : n \in G => n + 1 \in G
  PROVE  Nat \subseteq G
<1> SUFFICES ASSUME Nat \ G # {} PROVE FALSE
  OBVIOUS
<1>1. PICK x \in Nat \ G : \A y \in Nat \ G : x <= y
  BY Least
<1>2. x # 0 /\ x - 1 \in Nat
  BY <1>1
<1>3. x - 1 \in G
  BY <1>1, <1>2
<1> QED
  BY <1>1, <1>2, <1>3

-----------------------------------------------------------------------------
(* Sequences put together, cut, taken from and added to.                    *)
LEMMA Parts ==
  ASSUME NEW S, NEW s \in Seq(S), NEW t \in Seq(S)
  PROVE  /\ s \o t \in Seq(S) /\ Len(s \o t) = Len(s) + Len(t)
         /\ \A i \in 1..Len(s) : (s \o t)[i] = s[i]
         /\ \A i \in 1..Len(t) : (s \o t)[Len(s) + i] = t[i]
<1>1. \A i \in 1..Len(t) : (s \o t)[Len(s) + i] = t[(Len(s) + i) - Len(s)]
  OBVIOUS
<1>2. \A i \in 1..Len(t) : (Len(s) + i) - Len(s) = i
  OBVIOUS
<1> QED
  BY <1>1, <1>2

LEMMA CutAt ==
  ASSUME NEW S, NEW s \in Seq(S), NEW n \in 0..Len(s)
  PROVE  /\ SubSeq(s, 1, n) \in Seq(S) /\ Len(SubSeq(s, 1, n)) = n
         /\ SubSeq(s, n + 1, Len(s)) \in Seq(S) /\ Len(SubSeq(s, n + 1, Len(s))) = Len(s) - n
  OBVIOUS

LEMMA TailType ==
  ASSUME NEW S, NEW s \in Seq(S), s # <<>>
  PROVE  /\ Tail(s) \in Seq(S) /\ Len(Tail(s)) = Len(s) - 1 /\ Len(s) >= 1
         /\ Head(s) \in S /\ Head(s) = s[1]
         /\ \A i \in 1..(Len(s) - 1) : Tail(s)[i] = s[i + 1]
  OBVIOUS

LEMMA Appended ==
  ASSUME NEW S, NEW s \in Seq(S), NEW x \in S
  PROVE  /\ Append(s, x) \in Seq(S) /\ Len(Append(s, x)) = Len(s) + 1
         /\ \A i \in 1..Len(s) : Append(s, x)[i] = s[i]
         /\ Append(s, x)[Len(s) + 1] = x
  OBVIOUS

LEMMA SeqBasics ==
  \A S : /\ <<>> \in Seq(S) /\ Len(<<>>) = 0 /\ DOMAIN <<>> = {}
         /\ \A s \in Seq(S) : Len(s) \in Nat /\ DOMAIN s = 1..Len(s)
                              /\ (s = <<>> <=> Len(s) = 0)
  OBVIOUS

(* A function on 1..n is a sequence.                                        *)
LEMMA FunctionIsSeq ==
  ASSUME NEW S, NEW n \in Nat, NEW f \in [1..n -> S]
  PROVE  f \in Seq(S) /\ Len(f) = n
  OBVIOUS

-----------------------------------------------------------------------------
(* The text of a stream: the recursion of StreamText defines a function.    *)

TextUpTo(f, n, qs) ==
    f = [i \in 0..n |-> IF i = 0 THEN <<>> ELSE f[i - 1] \o RequestText(i, qs[i])]

(* The recursion can be followed any number of requests far.                *)
LEMMA TextExists ==
  ASSUME NEW qs
  PROVE  \A n \in Nat : \E f : TextUpTo(f, n, qs)
<1> DEFINE G == {n \in Nat : \E f : TextUpTo(f, n, qs)}
<1>1. 0 \in G
  <2> DEFINE f == [i \in 0..0 |-> <<>>]
  <2>1. TextUpTo(f, 0, qs)
    BY DEF TextUpTo
  <2> QED
    BY <2>1
<1>2. ASSUME NEW n \in Nat, n \in G PROVE n + 1 \in G
  <2>1. PICK f : TextUpTo(f, n, qs)
    BY <1>2
  <2> DEFINE g == [i \in 0..(n + 1) |->
                      IF i <= n THEN f[i] ELSE f[n] \o RequestText(n + 1, qs[n + 1])]
  <2>2. \A i \in 0..n : f[i] = IF i = 0 THEN <<>> ELSE f[i - 1] \o RequestText(i, qs[i])
    BY <2>1 DEF TextUpTo
  <2>3. \A i \in 0..(n + 1) :
           g[i] = IF i = 0 THEN <<>> ELSE g[i - 1] \o RequestText(i, qs[i])
    BY <2>2
  <2>4. g = [i \in 0..(n + 1) |-> g[i]]
    OBVIOUS
  <2> HIDE DEF g
  <2>5. TextUpTo(g, n + 1, qs)
    BY <2>3, <2>4 DEF TextUpTo
  <2> QED
    BY <2>5
<1> HIDE DEF G
<1>3. Nat \subseteq G
  BY <1>1, <1>2, Induct
<1> QED
  BY <1>3 DEF G

(* The text of the first requests of a stream, by their number.             *)
Texts(qs) ==
    LET text[i \in 0..Len(qs)] ==
            IF i = 0 THEN <<>> ELSE text[i - 1] \o RequestText(i, qs[i])
    IN text

(* StreamText and Texts follow the same recursion.                          *)
LEMMA TextsOf ==
  ASSUME NEW qs, Len(qs) \in Nat
  PROVE  /\ StreamText(qs) = Texts(qs)[Len(qs)]
         /\ \A i \in 0..Len(qs) : Texts(qs)[i] =
                IF i = 0 THEN <<>> ELSE Texts(qs)[i - 1] \o RequestText(i, qs[i])
<1> DEFINE t == CHOOSE t : t = [i \in 0..Len(qs) |->
                    IF i = 0 THEN <<>> ELSE t[i - 1] \o RequestText(i, qs[i])]
<1>1. \E f : TextUpTo(f, Len(qs), qs)
  BY TextExists
<1>2. TextUpTo(t, Len(qs), qs)
  BY <1>1 DEF TextUpTo
<1>3. StreamText(qs) = t[Len(qs)] /\ Texts(qs) = t
  BY DEF StreamText, Texts
<1> HIDE DEF t
<1>4. \A i \in 0..Len(qs) : t[i] = IF i = 0 THEN <<>> ELSE t[i - 1] \o RequestText(i, qs[i])
  BY <1>2 DEF TextUpTo
<1> QED
  BY <1>3, <1>4

(* The body of a request is a sequence of as many pieces as it is long.     *)
LEMMA BodyType ==
  ASSUME NEW k \in Nat, NEW n \in Nat
  PROVE  Body(k, n) \in Seq(Piece) /\ Len(Body(k, n)) = n
<1>1. Body(k, n) \in [1..n -> Piece]
  BY DEF Body, Piece, Kinds
<1> QED
  BY <1>1, FunctionIsSeq

(* The pieces of a request, one by one.                                     *)
LEMMA RequestPieces ==
  ASSUME NEW k \in Nat, NEW q \in Shape
  PROVE  LET T == RequestText(k, q)
             L == Len(q.fields)
         IN /\ L \in Nat /\ q.len \in Nat /\ T \in Seq(Piece) /\ Len(T) = 4 + 2 * L + q.len
            /\ T[1] = [kind |-> "start", of |-> k, val |-> 0]
            /\ T[2] = [kind |-> IF q.v10 THEN "http10" ELSE "http11", of |-> k, val |-> 0]
            /\ T[3].kind = "crlf"
            /\ \A m \in 1..L : /\ T[2 + 2 * m] = [kind |-> q.fields[m], of |-> k, val |-> q.len]
                               /\ T[3 + 2 * m].kind = "crlf"
            /\ T[4 + 2 * L].kind = "crlf"
            /\ \A i \in 1..q.len : T[4 + 2 * L + i] = Body(k, q.len)[i]
<1> DEFINE T == RequestText(k, q)
           L == Len(q.fields)
           a == <<[kind |-> "start", of |-> k, val |-> 0],
                  [kind |-> IF q.v10 THEN "http10" ELSE "http11", of |-> k, val |-> 0],
                  Crlf(k)>>
           b == [j \in 1..2 * Len(q.fields) |->
                    IF j % 2 = 0 THEN Crlf(k)
                    ELSE [kind |-> q.fields[(j + 1) \div 2], of |-> k, val |-> q.len]]
           c == <<Crlf(k)>>
           d == Body(k, q.len)
<1>0. L \in Nat /\ q.len \in Nat /\ 2 * L \in Nat
  BY DEF Shape
<1>1. T = a \o b \o c \o d
  BY DEF RequestText
<1>2. a \in Seq(Piece) /\ Len(a) = 3
  <2>1. Crlf(k) \in Piece
    BY DEF Crlf, Piece, Kinds
  <2>2. /\ [kind |-> "start", of |-> k, val |-> 0] \in Piece
        /\ [kind |-> IF q.v10 THEN "http10" ELSE "http11", of |-> k, val |-> 0] \in Piece
    BY DEF Piece, Kinds
  <2> QED
    BY <2>1, <2>2
<1>3. a[1] = [kind |-> "start", of |-> k, val |-> 0]
      /\ a[2] = [kind |-> IF q.v10 THEN "http10" ELSE "http11", of |-> k, val |-> 0]
      /\ a[3].kind = "crlf"
  BY DEF Crlf
<1>4. b \in Seq(Piece) /\ Len(b) = 2 * L
  <2>1. \A j \in 1..2 * L : b[j] \in Piece
    <3>1. ASSUME NEW j \in 1..2 * L, j % 2 # 0
          PROVE  [kind |-> q.fields[(j + 1) \div 2], of |-> k, val |-> q.len] \in Piece
      <4>1. (j + 1) \div 2 \in 1..L
        BY <1>0, <3>1
      <4>2. q.fields[(j + 1) \div 2] \in Fields \cup {"nocolon"}
        BY <4>1 DEF Shape
      <4> QED
        BY <1>0, <4>2 DEF Piece, Kinds
    <3>2. Crlf(k) \in Piece
      BY DEF Crlf, Piece, Kinds
    <3> QED
      BY <3>1, <3>2
  <2>2. b \in [1..2 * L -> Piece]
    BY <2>1
  <2> HIDE DEF b
  <2> QED
    BY <1>0, <2>2, FunctionIsSeq
<1>5. ASSUME NEW m \in 1..L
      PROVE  /\ 2 * m - 1 \in 1..2 * L /\ 2 * m \in 1..2 * L
             /\ b[2 * m - 1] = [kind |-> q.fields[m], of |-> k, val |-> q.len]
             /\ b[2 * m].kind = "crlf"
  <2>1. /\ 2 * m - 1 \in 1..2 * L /\ 2 * m \in 1..2 * L
        /\ (2 * m - 1) % 2 # 0 /\ (2 * m) % 2 = 0 /\ ((2 * m - 1) + 1) \div 2 = m
    BY <1>0
  <2> QED
    BY <2>1 DEF Crlf
<1>6. c \in Seq(Piece) /\ Len(c) = 1 /\ c[1].kind = "crlf"
  BY DEF Crlf, Piece, Kinds
<1>7. d \in Seq(Piece) /\ Len(d) = q.len
  BY <1>0, BodyType
<1> HIDE DEF a, b, c, d, T, L
<1>8. /\ a \o b \in Seq(Piece) /\ Len(a \o b) = 3 + 2 * L
      /\ \A i \in 1..3 : (a \o b)[i] = a[i]
      /\ \A i \in 1..2 * L : (a \o b)[3 + i] = b[i]
  <2>1. a \in Seq(Piece) /\ b \in Seq(Piece)
    BY <1>2, <1>4
  <2>2. /\ a \o b \in Seq(Piece) /\ Len(a \o b) = Len(a) + Len(b)
        /\ \A i \in 1..Len(a) : (a \o b)[i] = a[i]
        /\ \A i \in 1..Len(b) : (a \o b)[Len(a) + i] = b[i]
    BY <2>1, Parts
  <2> QED
    BY <1>2, <1>4, <2>2
<1>9. /\ a \o b \o c \in Seq(Piece) /\ Len(a \o b \o c) = 4 + 2 * L
      /\ \A i \in 1..(3 + 2 * L) : (a \o b \o c)[i] = (a \o b)[i]
      /\ (a \o b \o c)[4 + 2 * L] = c[1]
  <2> DEFINE e == a \o b
  <2>1. e \in Seq(Piece) /\ Len(e) = 3 + 2 * L
    BY <1>8
  <2> HIDE DEF e
  <2>2. /\ e \o c \in Seq(Piece) /\ Len(e \o c) = Len(e) + Len(c)
        /\ \A i \in 1..Len(e) : (e \o c)[i] = e[i]
        /\ \A i \in 1..Len(c) : (e \o c)[Len(e) + i] = c[i]
    <3>1. c \in Seq(Piece) /\ e \in Seq(Piece)
      BY <1>6, <2>1
    <3> QED
      BY <3>1, Parts
  <2>3. Len(e) + 1 = 4 + 2 * L /\ 1 \in 1..Len(c)
    BY <1>0, <1>6, <2>1
  <2>4. (e \o c)[Len(e) + 1] = c[1]
    BY <2>2, <2>3
  <2> QED
    BY <1>6, <2>1, <2>2, <2>3, <2>4 DEF e
<1>10. /\ T \in Seq(Piece) /\ Len(T) = 4 + 2 * L + q.len
       /\ \A i \in 1..(4 + 2 * L) : T[i] = (a \o b \o c)[i]
       /\ \A i \in 1..q.len : T[4 + 2 * L + i] = d[i]
  <2> DEFINE e == a \o b \o c
  <2>1. e \in Seq(Piece) /\ Len(e) = 4 + 2 * L /\ T = e \o d
    BY <1>1, <1>9
  <2> HIDE DEF e
  <2>2. /\ e \o d \in Seq(Piece) /\ Len(e \o d) = Len(e) + Len(d)
        /\ \A i \in 1..Len(e) : (e \o d)[i] = e[i]
        /\ \A i \in 1..Len(d) : (e \o d)[Len(e) + i] = d[i]
    <3>1. e \in Seq(Piece) /\ d \in Seq(Piece)
      BY <1>7, <2>1
    <3> QED
      BY <3>1, Parts
  <2> QED
    BY <1>7, <2>1, <2>2 DEF e
<1>11. T[1] = a[1] /\ T[2] = a[2] /\ T[3] = a[3]
  <2>1. \A i \in 1..3 : i \in 1..(4 + 2 * L) /\ i \in 1..(3 + 2 * L)
    BY <1>0
  <2>2. ASSUME NEW i \in 1..3 PROVE T[i] = a[i]
    <3>1. T[i] = (a \o b \o c)[i]
      BY <1>10, <2>1
    <3>2. (a \o b \o c)[i] = (a \o b)[i]
      BY <1>9, <2>1
    <3>3. (a \o b)[i] = a[i]
      BY <1>8
    <3> QED
      BY <3>1, <3>2, <3>3
  <2>3. 1 \in 1..3 /\ 2 \in 1..3 /\ 3 \in 1..3
    OBVIOUS
  <2> QED
    BY <2>2, <2>3
<1>12. T[4 + 2 * L] = c[1]
  <2>1. 4 + 2 * L \in 1..(4 + 2 * L)
    BY <1>0
  <2> QED
    BY <1>9, <1>10, <2>1
<1>13. ASSUME NEW i \in 1..2 * L PROVE T[3 + i] = b[i]
  <2>1. 3 + i \in 1..(4 + 2 * L) /\ 3 + i \in 1..(3 + 2 * L)
    BY <1>0
  <2>2. T[3 + i] = (a \o b \o c)[3 + i]
    BY <1>10, <2>1
  <2>3. (a \o b \o c)[3 + i] = (a \o b)[3 + i]
    BY <1>9, <2>1
  <2> QED
    BY <1>8, <2>2, <2>3
<1>14. ASSUME NEW m \in 1..L
       PROVE  /\ T[2 + 2 * m] = [kind |-> q.fields[m], of |-> k, val |-> q.len]
              /\ T[3 + 2 * m].kind = "crlf"
  <2>1. 3 + (2 * m - 1) = 2 + 2 * m
    BY <1>0
  <2>2. T[3 + (2 * m - 1)] = b[2 * m - 1] /\ T[3 + 2 * m] = b[2 * m]
    BY <1>5, <1>13
  <2> QED
    BY <1>5, <2>1, <2>2
<1> QED
  BY <1>0, <1>3, <1>6, <1>10, <1>11, <1>12, <1>14 DEF T, L, d

(* What a peer sends is a sequence of pieces, request by request.           *)
LEMMA TextsType ==
  ASSUME NEW qs \in Streams
  PROVE  /\ Len(qs) \in Nat /\ \A i \in 1..Len(qs) : qs[i] \in Shape
         /\ \A n \in 0..Len(qs) : Texts(qs)[n] \in Seq(Piece)
         /\ StreamText(qs) = Texts(qs)[Len(qs)]
         /\ StreamText(qs) \in Seq(Piece)
<1>1. qs \in Seq(Shape) /\ Len(qs) \in Nat /\ \A i \in 1..Len(qs) : qs[i] \in Shape
  BY PipelineAssumption
<1> DEFINE f == Texts(qs)
<1>2. StreamText(qs) = f[Len(qs)]
  BY <1>1, TextsOf
<1>3. \A i \in 0..Len(qs) : f[i] = IF i = 0 THEN <<>> ELSE f[i - 1] \o RequestText(i, qs[i])
  BY <1>1, TextsOf
<1> HIDE DEF f
<1> DEFINE G == {n \in Nat : n <= Len(qs) => f[n] \in Seq(Piece)}
<1>4. 0 \in G
  <2>1. 0 \in 0..Len(qs) /\ f[0] = <<>>
    BY <1>1, <1>3
  <2>2. <<>> \in Seq(Piece)
    OBVIOUS
  <2> QED
    BY <2>1, <2>2
<1>5. ASSUME NEW n \in Nat, n \in G PROVE n + 1 \in G
  <2> SUFFICES ASSUME n + 1 <= Len(qs) PROVE f[n + 1] \in Seq(Piece)
    OBVIOUS
  <2>1. f[n] \in Seq(Piece) /\ n + 1 \in 1..Len(qs) /\ (n + 1) - 1 = n
    BY <1>1, <1>5
  <2>2. RequestText(n + 1, qs[n + 1]) \in Seq(Piece)
    <3>1. qs[n + 1] \in Shape /\ n + 1 \in Nat
      BY <1>1, <2>1
    <3> QED
      BY <3>1, RequestPieces
  <2>3. f[n + 1] = f[n] \o RequestText(n + 1, qs[n + 1])
    <3>1. n + 1 \in 0..Len(qs) /\ n + 1 # 0
      BY <1>1, <2>1
    <3> QED
      BY <1>3, <2>1, <3>1
  <2> QED
    BY <2>1, <2>2, <2>3
<1> HIDE DEF G
<1>6. Nat \subseteq G
  BY <1>4, <1>5, Induct
<1>7. \A n \in 0..Len(qs) : f[n] \in Seq(Piece)
  BY <1>1, <1>6 DEF G
<1> QED
  BY <1>1, <1>2, <1>7 DEF f

-----------------------------------------------------------------------------
(* Types of the parser.                                                     *)

(* EndOfLine is the place of the first end of line, or 0.                   *)
LEMMA EndOfLineFirst ==
  ASSUME NEW text \in Seq(Piece)
  PROVE  /\ EndOfLine(text) \in 0..Len(text)
         /\ EndOfLine(text) = 0 => \A i \in DOMAIN text : text[i].kind # "crlf"
         /\ EndOfLine(text) # 0 =>
              /\ text[EndOfLine(text)].kind = "crlf"
              /\ \A i \in 1..(EndOfLine(text) - 1) : text[i].kind # "crlf"
<1> DEFINE ends == {i \in DOMAIN text : text[i].kind = "crlf"}
           first == CHOOSE i \in ends : \A j \in ends : i <= j
<1>0. Len(text) \in Nat /\ DOMAIN text = 1..Len(text)
  BY SeqBasics
<1>1. EndOfLine(text) = IF ends = {} THEN 0 ELSE first
  BY DEF EndOfLine
<1>2. CASE ends = {}
  BY <1>0, <1>1, <1>2
<1>3. CASE ends # {}
  <2>1. ends \subseteq Nat /\ ends \subseteq 1..Len(text)
    BY <1>0
  <2>2. \E i \in ends : \A j \in ends : i <= j
    <3> HIDE DEF ends
    <3> QED
      BY <1>3, <2>1, Least
  <2>3. first \in ends /\ \A j \in ends : first <= j
    <3> HIDE DEF ends
    <3> QED
      BY <2>2
  <2>4. first \in 1..Len(text) /\ text[first].kind = "crlf"
    BY <2>1, <2>3
  <2>5. ASSUME NEW i \in 1..(first - 1) PROVE text[i].kind # "crlf"
    <3>1. i \in 1..Len(text) /\ ~(first <= i)
      BY <1>0, <2>4, <2>5
    <3> QED
      BY <1>0, <2>3, <3>1
  <2> HIDE DEF first, ends
  <2>6. EndOfLine(text) = first /\ first # 0
    BY <1>1, <1>3, <2>4
  <2> QED
    BY <1>0, <2>4, <2>5, <2>6
<1> QED
  BY <1>2, <1>3

(* What one turn of parse() makes of the parser is a parser.                *)
LEMMA TakePartialType ==
  ASSUME NEW p \in Parser, NEW rest \in Seq(Piece)
  PROVE  /\ TakePartial(p, rest) \in Parser
         /\ TakePartial(p, rest).state = "error" =>
              p.state = "error" \/ Len(TakePartial(p, rest).temp) > MaxHeader
<1>1. p.temp \o rest \in Seq(Piece)
  BY Parts DEF Parser
<1> QED
  BY <1>1 DEF TakePartial, Parser

(* The same for a request line, a field, the blank line and a body.         *)
LEMMA TakeRequestLineType ==
  ASSUME NEW p \in Parser, NEW line \in Seq(Piece), NEW good \in BOOLEAN
  PROVE  TakeRequestLine(p, line, good) \in Parser
<1>1. Whole(line) => line[1].of \in Nat
  <2>1. Whole(line) => line[1] \in Piece
    <3>1. Whole(line) => Len(line) = 2
      BY DEF Whole
    <3> QED
      BY <3>1
  <2> QED
    BY <2>1 DEF Piece
<1>2. (IF Whole(line) THEN line[1].of ELSE 0) \in Nat
  BY <1>1
<1>3. (Whole(line) /\ line[2].kind = "http10") \in BOOLEAN
  BY DEF Whole
<1>4. (IF good THEN "header" ELSE "error") \in {"header", "error"}
  OBVIOUS
<1>5. <<>> \in Seq(Piece)
  OBVIOUS
<1> QED
  BY <1>2, <1>3, <1>4, <1>5 DEF TakeRequestLine, Parser, Request

LEMMA TakeHeaderType ==
  ASSUME NEW p \in Parser, NEW line \in Seq(Piece), line # <<>>
  PROVE  TakeHeader(p, line) \in Parser
<1>1. line[1].val \in Nat /\ line[1].kind \in Kinds
  <2>1. line[1] \in Piece
    BY TailType
  <2> QED
    BY <2>1 DEF Piece
<1>2. <<>> \in Seq(Piece)
  OBVIOUS
<1> QED
  BY <1>1, <1>2 DEF TakeHeader, Parser, Request

LEMMA TakeBlankLineType ==
  ASSUME NEW p \in Parser
  PROVE  TakeBlankLine(p) \in Parser /\ (TakeBlankLine(p).state \in {"body", "complete"})
<1>1. <<>> \in Seq(Piece)
  OBVIOUS
<1> QED
  BY <1>1 DEF TakeBlankLine, Parser

LEMMA TakeBodyType ==
  ASSUME NEW p \in Parser, NEW rest \in Seq(Piece), p.state = "body", p.got <= p.req.len
  PROVE  /\ TakeBody(p, rest) \in Parser /\ BodyTaken(p, rest) \in 0..Len(rest)
         /\ TakeBody(p, rest).got <= p.req.len
         /\ TakeBody(p, rest).state \in {"body", "complete"}
         /\ TakeBody(p, rest).req.len = p.req.len
<1> DEFINE n == BodyTaken(p, rest)
<1>1. n \in 0..Len(rest) /\ p.got + n <= p.req.len /\ p.got \in Nat /\ p.req.len \in Nat
  BY SeqBasics DEF BodyTaken, Parser, Request
<1> HIDE DEF n
<1>2. p.req.body \o SubSeq(rest, 1, n) \in Seq(Piece)
  <2>1. SubSeq(rest, 1, n) \in Seq(Piece)
    BY <1>1, CutAt
  <2>2. p.req.body \in Seq(Piece)
    BY DEF Parser, Request
  <2> QED
    BY <2>1, <2>2, Parts
<1>3. TakeBody(p, rest) =
        [p EXCEPT !.req.body = @ \o SubSeq(rest, 1, n), !.got = @ + n,
                  !.state = IF p.got + n >= p.req.len THEN "complete" ELSE @]
  BY DEF TakeBody, n
<1>4. p.got + n \in Nat
  BY <1>1, SeqBasics
<1> DEFINE b == p.req.body \o SubSeq(rest, 1, n)
           z == IF p.got + n >= p.req.len THEN "complete" ELSE p.state
<1>5. TakeBody(p, rest) = [p EXCEPT !.req.body = b, !.got = p.got + n, !.state = z]
  BY <1>3 DEF Parser, Request
<1>6. b \in Seq(Piece) /\ z \in {"body", "complete"}
  BY <1>2
<1> DEFINE g == p.got + n
           r == [p.req EXCEPT !.body = b]
<1> HIDE DEF b, z
<1>7. r \in Request /\ r.len = p.req.len
  BY <1>6 DEF Parser, Request
<1>8. TakeBody(p, rest) = [p EXCEPT !.req = r, !.got = g, !.state = z]
  BY <1>5 DEF Parser
<1>9. g \in Nat
  BY <1>4
<1> HIDE DEF g, r
<1>10. /\ TakeBody(p, rest) \in Parser /\ TakeBody(p, rest).got = g
       /\ TakeBody(p, rest).state = z /\ TakeBody(p, rest).req = r
  BY <1>6, <1>7, <1>8, <1>9 DEF Parser
<1> QED
  BY <1>1, <1>6, <1>7, <1>10 DEF n, g

-----------------------------------------------------------------------------
(* Types.  TypeOK needs ParserInv: the body is only added to, and never     *)
(* beyond its length.                                                       *)

IoType ==
    /\ reqs \in Streams /\ pool \subseteq Workers
    /\ wire \in Seq(Piece) /\ buf \in Seq(Piece) /\ view \in Seq(Piece)
    /\ pos \in 0..Len(view) /\ parser \in Parser
FlowType ==
    /\ rpc \in {"idle", "parse", "result", "serve"}
    /\ handed \in Seq(Request)
    /\ pending \in Seq(DOMAIN handed) /\ depth = Len(pending)
    /\ closing \in BOOLEAN /\ cut \in BOOLEAN
    /\ tasks \in Seq(DOMAIN handed)
    /\ wpc \in [Workers -> {"idle", "handle", "close"}]
    /\ wreq \in [Workers -> 0..Len(handed)]
ReplyType ==
    /\ running \in BOOLEAN /\ why \in Reasons
    /\ out \in Seq(0..Len(handed)) /\ sent \in Seq(0..Len(handed))
    /\ lost \in Seq(0..Len(handed))

(* The parts of TypeOK, for the state before a step and after it.           *)
LEMMA TypeParts ==
  /\ TypeOK <=> IoType /\ FlowType /\ ReplyType
  /\ TypeOK' <=> IoType' /\ FlowType' /\ ReplyType'
  BY DEF TypeOK, IoType, FlowType, ReplyType

ParserInv ==
    /\ parser.state \in {"line", "header"} => parser.got = 0
    /\ parser.state = "body" => parser.got <= parser.req.len

(* An error of the parser is one that this call of parse() has met, and     *)
(* handle_read will see, or the one it does not report.                     *)
ErrorInv ==
    parser.state = "error" /\ running =>
        Len(parser.temp) > MaxHeader \/ (rpc = "parse" /\ pos > 0)

Base == TypeOK /\ ParserInv /\ ErrorInv

(* What parse() has before it is text.                                      *)
LEMMA RestType ==
  ASSUME TypeOK
  PROVE  /\ Rest \in Seq(Piece) /\ Len(Rest) = Len(view) - pos /\ Len(view) \in Nat
         /\ pos \in Nat /\ pos <= Len(view)
<1>1. view \in Seq(Piece) /\ pos \in 0..Len(view) /\ Len(view) \in Nat
  BY DEF TypeOK
<1> QED
  BY <1>1, CutAt DEF Rest

(* The invariant holds at the start.                                        *)
LEMMA InitBase ==
  ASSUME Init
  PROVE  Base
<1> USE DEF Init
<1>1. Fresh \in Parser
  <2>1. <<>> \in Seq(Piece)
    OBVIOUS
  <2> QED
    BY <2>1 DEF Fresh, NoRequest, Parser, Request
<1>2. wire \in Seq(Piece)
  BY TextsType
<1>3. IoType
  BY <1>1, <1>2, SeqBasics DEF IoType
<1>4. FlowType
  <2>1. handed \in Seq(Request) /\ Len(handed) = 0
    BY SeqBasics
  <2>2. pending \in Seq(DOMAIN handed) /\ depth = Len(pending) /\ tasks \in Seq(DOMAIN handed)
    BY SeqBasics
  <2>3. wreq \in [Workers -> 0..Len(handed)]
    BY <2>1
  <2> QED
    BY <2>1, <2>2, <2>3 DEF FlowType
<1>5. ReplyType
  BY SeqBasics DEF ReplyType, Reasons
<1>6. ParserInv /\ ErrorInv
  BY DEF ParserInv, ErrorInv, Fresh
<1> QED
  BY <1>3, <1>4, <1>5, <1>6, TypeParts DEF Base

(* The turns of parse().                                                    *)
LEMMA ParseBase ==
  ASSUME Base, ParsePartial \/ ParseLine \/ ParseBody
  PROVE  Base'
<1> USE DEF Base
<1>0. /\ UNCHANGED <<reqs, pool, wire, buf, view, pipeVars, workVars, endVars, sent, cut>>
      /\ rpc = "parse" /\ rpc' \in {"parse", "result"}
  BY DEF ParsePartial, ParseLine, ParseBody, Parsing, TypeOK
<1>1. /\ Rest \in Seq(Piece) /\ Len(Rest) = Len(view) - pos /\ Len(view) \in Nat
      /\ pos \in Nat /\ pos <= Len(view) /\ parser \in Parser
  BY RestType DEF TypeOK
<1>2. parser' \in Parser /\ pos' \in 0..Len(view) /\ ParserInv' /\ ErrorInv'
  <2>1. CASE ParsePartial
    <3>1. /\ parser' = TakePartial(parser, Rest) /\ pos' = Len(view)
          /\ parser.state \in {"line", "header"}
      BY <2>1 DEF ParsePartial
    <3>2. /\ parser' \in Parser
          /\ parser'.state = "error" => Len(parser'.temp) > MaxHeader
      BY <1>1, <3>1, TakePartialType
    <3>3. parser'.got = parser.got /\ parser'.state \in {"line", "header", "error"}
      BY <1>1, <3>1 DEF TakePartial, Parser
    <3> QED
      BY <1>1, <3>1, <3>2, <3>3 DEF ParserInv, ErrorInv
  <2>2. CASE ParseLine
    <3> DEFINE e == EndOfLine(Rest)
               line == parser.temp \o SubSeq(Rest, 1, e - 1)
    <3>1. e \in 1..Len(Rest) /\ pos' = pos + e /\ parser.state \in {"line", "header"}
          /\ rpc' = "parse"
      BY <1>0, <1>1, <2>2, EndOfLineFirst DEF ParseLine
    <3>2. pos' \in 0..Len(view) /\ pos' > 0
      BY <1>1, <3>1
    <3>3. line \in Seq(Piece)
      <4>1. e - 1 \in 0..Len(Rest)
        BY <1>1, <3>1
      <4> HIDE DEF e
      <4>2. SubSeq(Rest, 1, e - 1) \in Seq(Piece)
        BY <1>1, <4>1, CutAt
      <4>3. parser.temp \in Seq(Piece)
        BY <1>1 DEF Parser
      <4> QED
        BY <4>2, <4>3, Parts
    <3>4. \/ \E good \in RequestLineVerdicts(line) : parser' = TakeRequestLine(parser, line, good)
          \/ parser' = TakeBlankLine(parser)
          \/ line # <<>> /\ parser' = TakeHeader(parser, line) /\ parser.state = "header"
      BY <2>2 DEF ParseLine
    <3> HIDE DEF line, e
    <3>5. parser.got = 0 /\ parser.req.len \in Nat
      BY <1>1, <3>1 DEF ParserInv, Parser, Request
    <3>6. CASE \E good \in RequestLineVerdicts(line) : parser' = TakeRequestLine(parser, line, good)
      <4>1. PICK good \in BOOLEAN : parser' = TakeRequestLine(parser, line, good)
        BY <3>6 DEF RequestLineVerdicts
      <4>2. parser' \in Parser
        BY <1>1, <3>3, <4>1, TakeRequestLineType
      <4>3. parser'.got = 0 /\ parser'.state \in {"header", "error"}
        BY <1>1, <3>5, <4>1 DEF TakeRequestLine, Parser
      <4> QED
        BY <3>1, <3>2, <4>2, <4>3 DEF ParserInv, ErrorInv
    <3>7. CASE parser' = TakeBlankLine(parser)
      <4>1. parser' \in Parser /\ parser'.state \in {"body", "complete"}
        BY <1>1, <3>7, TakeBlankLineType
      <4>2. parser'.got = 0 /\ parser'.req = parser.req
        BY <1>1, <3>5, <3>7 DEF TakeBlankLine, Parser
      <4> QED
        BY <3>1, <3>2, <3>5, <4>1, <4>2 DEF ParserInv, ErrorInv
    <3>8. CASE line # <<>> /\ parser' = TakeHeader(parser, line) /\ parser.state = "header"
      <4>1. parser' \in Parser
        BY <1>1, <3>3, <3>8, TakeHeaderType
      <4>2. parser'.got = 0 /\ parser'.state \in {"header", "error"}
        BY <1>1, <3>5, <3>8 DEF TakeHeader, Parser
      <4> QED
        BY <3>1, <3>2, <4>1, <4>2 DEF ParserInv, ErrorInv
    <3> QED
      BY <3>4, <3>6, <3>7, <3>8
  <2>3. CASE ParseBody
    <3>1. /\ parser' = TakeBody(parser, Rest) /\ pos' = pos + BodyTaken(parser, Rest)
          /\ parser.state = "body" /\ parser.got <= parser.req.len
      BY <2>3 DEF ParseBody, ParserInv
    <3>2. /\ parser' \in Parser /\ BodyTaken(parser, Rest) \in 0..Len(Rest)
          /\ parser'.got <= parser.req.len /\ parser'.req.len = parser.req.len
          /\ parser'.state \in {"body", "complete"}
      BY <1>1, <3>1, TakeBodyType
    <3>3. pos' \in 0..Len(view)
      BY <1>1, <3>1, <3>2
    <3> QED
      BY <3>2, <3>3 DEF ParserInv, ErrorInv
  <2> QED
    BY <2>1, <2>2, <2>3
<1>3. IoType'
  BY <1>0, <1>2, TypeParts DEF IoType
<1>4. FlowType' /\ ReplyType'
  BY <1>0, TypeParts DEF FlowType, ReplyType, pipeVars, workVars, endVars
<1> QED
  BY <1>2, <1>3, <1>4, TypeParts

(* What a shutdown or a reply leaves of the output.                         *)
LEMMA SentType ==
  ASSUME TypeOK, NEW r \in 0..Len(handed)
  PROVE  Sent(r) \in Seq(0..Len(handed))
<1>1. out \in Seq(0..Len(handed))
  BY DEF TypeOK
<1>2. Append(out, r) \in Seq(0..Len(handed))
  BY <1>1, Appended
<1> QED
  BY <1>1, <1>2 DEF Sent

(* The end of a connection leaves replies that are replies.                 *)
LEMMA ShutdownType ==
  ASSUME TypeOK, NEW reason \in Reasons, NEW unwritten \in Seq(0..Len(handed)),
         Shutdown(reason, unwritten), UNCHANGED <<handed, sent>>
  PROVE  ReplyType'
<1>1. out' = <<>> /\ out' \in Seq(0..Len(handed))
  BY SeqBasics DEF Shutdown
<1> QED
  BY <1>1 DEF Shutdown, ReplyType, TypeOK

(* Reads, and the ends of parse() and of handle_read.                       *)
LEMMA ReadBase ==
  ASSUME Base, (\E n \in 1..Len(wire) : ReadSome(n)) \/ ReadEof \/ ParseError
  PROVE  Base'
<1> USE DEF Base
<1>1. ASSUME NEW n \in 1..Len(wire), ReadSome(n) PROVE Base'
  <2>1. /\ buf' = buf \o SubSeq(wire, 1, n) /\ wire' = SubSeq(wire, n + 1, Len(wire))
        /\ view' = buf' /\ pos' = 0 /\ closing' = FALSE /\ rpc = "idle" /\ rpc' = "parse"
        /\ UNCHANGED <<reqs, pool, parser, pending, depth, handed, workVars, endVars, sent, cut>>
    BY <1>1 DEF ReadSome
  <2>2. n \in 0..Len(wire) /\ wire \in Seq(Piece) /\ buf \in Seq(Piece)
    BY SeqBasics DEF TypeOK
  <2>3. SubSeq(wire, 1, n) \in Seq(Piece) /\ wire' \in Seq(Piece)
    BY <2>1, <2>2, CutAt
  <2>4. buf' \in Seq(Piece) /\ 0 \in 0..Len(buf')
    <3>1. buf' \in Seq(Piece)
      BY <2>1, <2>2, <2>3, Parts
    <3> QED
      BY <3>1, SeqBasics
  <2>5. IoType'
    BY <2>1, <2>3, <2>4, TypeParts DEF IoType
  <2>6. FlowType' /\ ReplyType'
    BY <2>1, TypeParts DEF FlowType, ReplyType, workVars, endVars
  <2>7. ParserInv' /\ ErrorInv'
    BY <2>1 DEF ParserInv, ErrorInv, endVars
  <2> QED
    BY <2>5, <2>6, <2>7, TypeParts
<1>2. CASE ReadEof
  <2>1. /\ Shutdown("eof", out) /\ buf' = <<>>
        /\ UNCHANGED <<reqs, pool, wire, view, pos, parser, rpc, pipeVars, workVars, sent, cut>>
    BY <1>2 DEF ReadEof
  <2>2. ReplyType'
    <3>1. out \in Seq(0..Len(handed)) /\ "eof" \in Reasons
      BY DEF TypeOK, Reasons
    <3> QED
      BY <2>1, <3>1, ShutdownType DEF pipeVars
  <2>3. IoType' /\ FlowType'
    BY <2>1, TypeParts, SeqBasics DEF IoType, FlowType, pipeVars, workVars
  <2>4. ParserInv' /\ ErrorInv'
    BY <2>1 DEF ParserInv, ErrorInv, Shutdown
  <2> QED
    BY <2>2, <2>3, <2>4, TypeParts
<1>3. CASE ParseError
  <2>1. /\ Shutdown("bad", Sent(0)) /\ buf' = <<>> /\ rpc' = "idle"
        /\ UNCHANGED <<reqs, pool, wire, view, pos, parser, pipeVars, workVars, sent, cut>>
    BY <1>3 DEF ParseError
  <2>2. ReplyType'
    <3>1. 0 \in 0..Len(handed)
      BY SeqBasics DEF TypeOK
    <3>2. Sent(0) \in Seq(0..Len(handed)) /\ "bad" \in Reasons
      BY <3>1, SentType DEF Reasons
    <3> QED
      BY <2>1, <3>2, ShutdownType DEF pipeVars
  <2>3. IoType' /\ FlowType'
    BY <2>1, TypeParts, SeqBasics DEF IoType, FlowType, pipeVars, workVars
  <2>4. ParserInv' /\ ErrorInv'
    BY <2>1 DEF ParserInv, ErrorInv, Shutdown
  <2> QED
    BY <2>2, <2>3, <2>4, TypeParts
<1> QED
  BY <1>1, <1>2, <1>3

(* Steps that leave the parser and the queues as they are.                  *)
LEMMA PassBase ==
  ASSUME Base, ParseEnds \/ Incomplete \/ ReadDone \/ WriteOut \/ UNCHANGED vars
  PROVE  Base'
<1> USE DEF Base
<1>0. /\ UNCHANGED <<ioVars, pipeVars, workVars, running, why, lost>>
      /\ rpc' \in {"idle", "parse", "result", "serve"} /\ cut' \in BOOLEAN
      /\ rpc' = rpc \/ rpc # "parse" \/ ~(parser.state = "error" /\ pos > 0)
  BY DEF ParseEnds, Incomplete, ReadDone, WriteOut, vars, TypeOK, endVars
<1>1. out' \in Seq(0..Len(handed)) /\ sent' \in Seq(0..Len(handed))
  <2>1. CASE WriteOut
    <3>1. sent' = sent \o out /\ out' = <<>> /\ sent \in Seq(0..Len(handed))
          /\ out \in Seq(0..Len(handed))
      BY <2>1 DEF WriteOut, TypeOK
    <3>2. sent \o out \in Seq(0..Len(handed))
      BY <3>1, Parts
    <3> QED
      BY <3>1, <3>2, SeqBasics
  <2>2. CASE ~WriteOut
    BY <2>2 DEF ParseEnds, Incomplete, ReadDone, vars, TypeOK, endVars
  <2> QED
    BY <2>1, <2>2
<1>2. IoType'
  BY <1>0, TypeParts DEF IoType, ioVars
<1>3. FlowType'
  BY <1>0, TypeParts DEF FlowType, ioVars, pipeVars, workVars
<1>4. ReplyType'
  BY <1>0, <1>1, TypeParts DEF ReplyType, pipeVars
<1>5. ParserInv' /\ ErrorInv'
  BY <1>0 DEF ParserInv, ErrorInv, ioVars
<1> QED
  BY <1>2, <1>3, <1>4, <1>5, TypeParts

(* A request joins the pipeline.                                            *)
LEMMA RetrieveType ==
  ASSUME NEW b \in Seq(Piece), NEW n \in Nat
  PROVE  Retrieve(b, n) \in Seq(Piece)
<1>1. CASE n < Len(b)
  <2>1. n \in 0..Len(b)
    BY <1>1, SeqBasics
  <2> QED
    BY <1>1, <2>1, CutAt DEF Retrieve
<1>2. CASE ~(n < Len(b))
  BY <1>2, SeqBasics DEF Retrieve
<1> QED
  BY <1>1, <1>2

LEMMA CompleteBase ==
  ASSUME Base, Complete
  PROVE  Base'
<1> USE DEF Base
<1> DEFINE h == Len(handed)
<1>0. /\ parser' = Fresh /\ handed' = Append(handed, parser.req)
      /\ pending' = Append(pending, h + 1) /\ depth' = depth + 1
      /\ UNCHANGED <<reqs, pool, wire, workVars, sent, cut>>
  BY DEF Complete, Reset
<1>1. /\ handed' \in Seq(Request) /\ Len(handed') = h + 1 /\ h \in Nat
      /\ DOMAIN handed = 1..h /\ DOMAIN handed' = 1..(h + 1)
  <2>1. handed \in Seq(Request) /\ parser.req \in Request
    BY DEF TypeOK, Parser
  <2>2. handed' \in Seq(Request) /\ Len(handed') = h + 1
    BY <1>0, <2>1, Appended
  <2> QED
    BY <2>1, <2>2, SeqBasics
<1>2. pending' \in Seq(DOMAIN handed') /\ depth' = Len(pending')
  <2>1. pending \in Seq(DOMAIN handed) /\ DOMAIN handed \subseteq DOMAIN handed'
        /\ h + 1 \in DOMAIN handed' /\ depth = Len(pending)
    BY <1>1 DEF TypeOK
  <2>2. pending \in Seq(DOMAIN handed')
    BY <2>1, SeqMonotonic
  <2>3. Append(pending, h + 1) \in Seq(DOMAIN handed')
        /\ Len(Append(pending, h + 1)) = Len(pending) + 1
    BY <2>1, <2>2, Appended
  <2> QED
    BY <1>0, <2>1, <2>3
<1>3. tasks' \in Seq(DOMAIN handed')
  <2>1. tasks \in Seq(DOMAIN handed) /\ DOMAIN handed \subseteq DOMAIN handed' /\ tasks' = tasks
    BY <1>0, <1>1 DEF TypeOK, workVars
  <2> QED
    BY <2>1, SeqMonotonic
<1>4. \A s \in Seq(0..h) : s \in Seq(0..(h + 1))
  <2>1. 0..h \subseteq 0..(h + 1)
    BY <1>1
  <2> QED
    BY <2>1, SeqMonotonic
<1>5. /\ running' \in BOOLEAN /\ why' \in Reasons /\ out' \in Seq(0..h)
      /\ lost' \in Seq(0..h) /\ sent' \in Seq(0..h)
  <2>0. /\ running \in BOOLEAN /\ why \in Reasons /\ out \in Seq(0..h) /\ lost \in Seq(0..h)
        /\ sent \in Seq(0..h) /\ <<>> \in Seq(0..h)
    BY SeqBasics DEF TypeOK
  <2>1. CASE OverLimit(depth')
    <3>1. Shutdown("limit", out)
      BY <2>1 DEF Complete
    <3> QED
      BY <1>0, <2>0, <3>1 DEF Shutdown, Reasons
  <2>2. CASE ~OverLimit(depth')
    BY <1>0, <2>0, <2>2 DEF Complete, endVars
  <2> QED
    BY <2>1, <2>2
<1>6. ReplyType'
  BY <1>1, <1>4, <1>5 DEF ReplyType
<1>7. /\ rpc' \in {"idle", "parse", "result", "serve"} /\ closing' \in BOOLEAN
      /\ buf' \in Seq(Piece) /\ view' \in Seq(Piece) /\ pos' \in 0..Len(view')
  <2>1. CASE OverLimit(depth')
    BY <2>1, SeqBasics DEF Complete, TypeOK
  <2>2. CASE ~OverLimit(depth')
    <3>1. /\ closing' = (closing \/ ~KeepAlive(parser.req))
          /\ buf' = Retrieve(buf, pos) /\ view' = buf' /\ pos' = 0
          /\ rpc' = IF MoreToParse(buf') THEN "parse" ELSE "serve"
      BY <2>2 DEF Complete
    <3>2. buf \in Seq(Piece) /\ pos \in Nat
      BY RestType DEF TypeOK
    <3>3. buf' \in Seq(Piece)
      BY <3>1, <3>2, RetrieveType
    <3>4. 0 \in 0..Len(buf')
      BY <3>3, SeqBasics
    <3>5. closing' \in BOOLEAN
      BY <3>1 DEF KeepAlive, TypeOK
    <3> QED
      BY <3>1, <3>3, <3>4, <3>5
  <2> QED
    BY <2>1, <2>2
<1>8. FlowType'
  <2>1. wreq' \in [Workers -> 0..Len(handed')] /\ wpc' = wpc /\ cut' = cut
    BY <1>0, <1>1 DEF TypeOK, workVars
  <2> QED
    BY <1>1, <1>2, <1>3, <1>7, <2>1, TypeParts DEF FlowType
<1>9. IoType' /\ ParserInv' /\ ErrorInv'
  <2>1. parser' \in Parser /\ parser'.state = "line" /\ parser'.got = 0
    <3>1. <<>> \in Seq(Piece)
      OBVIOUS
    <3> QED
      BY <1>0, <3>1 DEF Fresh, NoRequest, Parser, Request
  <2> QED
    BY <1>0, <1>7, <2>1, TypeParts DEF IoType, ParserInv, ErrorInv
<1> QED
  BY <1>6, <1>8, <1>9, TypeParts

(* A request is served, on this thread or as a task of the pool.            *)
LEMMA ServeBase ==
  ASSUME Base, ServeSubmit \/ \E thrown \in BOOLEAN : ServeInline(thrown)
  PROVE  Base'
<1> USE DEF Base
<1>0. /\ pending # <<>> /\ pending' = Tail(pending) /\ depth' = depth - 1
      /\ UNCHANGED <<ioVars, rpc, handed, wpc, wreq, sent, cut>> /\ running
  BY DEF ServeSubmit, ServeInline, ServeNext, Serving
<1>1. /\ pending' \in Seq(DOMAIN handed) /\ Head(pending) \in DOMAIN handed
      /\ depth' = Len(pending')
  <2>1. pending \in Seq(DOMAIN handed) /\ depth = Len(pending)
    BY DEF TypeOK
  <2> QED
    BY <1>0, <2>1, TailType
<1>2. Head(pending) \in 0..Len(handed)
  <2>1. DOMAIN handed = 1..Len(handed) /\ Len(handed) \in Nat
    BY SeqBasics DEF TypeOK
  <2> QED
    BY <1>1, <2>1
<1>3. tasks' \in Seq(DOMAIN handed)
  <2>1. tasks \in Seq(DOMAIN handed)
    BY DEF TypeOK
  <2>2. Append(tasks, Head(pending)) \in Seq(DOMAIN handed)
    BY <1>1, <2>1, Appended
  <2> QED
    BY <2>1, <2>2 DEF ServeSubmit, ServeInline
<1>4. ReplyType' /\ closing' \in BOOLEAN
  <2>1. CASE ServeSubmit
    BY <1>0, <2>1, TypeParts DEF ServeSubmit, endVars, ReplyType, FlowType
  <2>2. ASSUME NEW thrown \in BOOLEAN, ServeInline(thrown) PROVE ReplyType' /\ closing' \in BOOLEAN
    <3>1. closing' \in BOOLEAN
      BY <2>2 DEF ServeInline, TypeOK
    <3>2. Sent(Head(pending)) \in Seq(0..Len(handed))
      BY <1>2, SentType
    <3>3. CASE Shutdown("close", Sent(Head(pending)))
      <4>1. "close" \in Reasons
        BY DEF Reasons
      <4> QED
        BY <1>0, <3>1, <3>2, <3>3, <4>1, ShutdownType
    <3>4. CASE Reply(Head(pending))
      BY <1>0, <3>1, <3>2, <3>4, TypeParts DEF Reply, ReplyType
    <3> QED
      BY <2>2, <3>3, <3>4 DEF ServeInline
  <2> QED
    BY <2>1, <2>2
<1>5. IoType' /\ FlowType'
  BY <1>0, <1>1, <1>3, <1>4, TypeParts DEF IoType, FlowType, ioVars
<1>6. ParserInv' /\ ErrorInv'
  BY <1>0 DEF ParserInv, ErrorInv, ioVars
<1> QED
  BY <1>4, <1>5, <1>6, TypeParts

(* A worker takes a task, answers, closes.                                  *)
LEMMA WorkerBase ==
  ASSUME Base, NEW w \in Workers, Worker(w)
  PROVE  Base'
<1> USE DEF Base
<1>0. /\ UNCHANGED <<reqs, pool, wire, view, pos, parser, rpc, pipeVars, sent, cut>>
  BY DEF Worker, TakeTask, TaskReply, TaskShutdown, ioVars
<1>1. wpc' \in [Workers -> {"idle", "handle", "close"}]
  BY DEF Worker, TakeTask, TaskReply, TaskShutdown, TypeOK
<1>2. /\ tasks' \in Seq(DOMAIN handed) /\ wreq' \in [Workers -> 0..Len(handed)]
  <2>0. tasks \in Seq(DOMAIN handed) /\ wreq \in [Workers -> 0..Len(handed)]
        /\ DOMAIN handed = 1..Len(handed) /\ Len(handed) \in Nat
    BY SeqBasics DEF TypeOK
  <2>1. CASE TakeTask(w)
    <3>1. tasks # <<>> /\ tasks' = Tail(tasks) /\ wreq' = [wreq EXCEPT ![w] = Head(tasks)]
      BY <2>1 DEF TakeTask
    <3>2. Tail(tasks) \in Seq(DOMAIN handed) /\ Head(tasks) \in DOMAIN handed
      BY <2>0, <3>1, TailType
    <3> QED
      BY <2>0, <3>1, <3>2
  <2>2. CASE ~TakeTask(w)
    BY <2>0, <2>2 DEF Worker, TaskReply, TaskShutdown
  <2> QED
    BY <2>1, <2>2
<1>3. ReplyType' /\ buf' \in Seq(Piece)
  <2>0. buf \in Seq(Piece) /\ <<>> \in Seq(Piece)
    BY SeqBasics DEF TypeOK
  <2>1. CASE TakeTask(w)
    BY <2>0, <2>1, TypeParts DEF TakeTask, endVars, ReplyType, pipeVars, ioVars
  <2>2. ASSUME NEW thrown \in BOOLEAN, TaskReply(w, thrown) PROVE ReplyType' /\ buf' \in Seq(Piece)
    <3>1. Reply(wreq[w]) /\ UNCHANGED <<buf, handed, sent>>
      BY <2>2 DEF TaskReply, ioVars, pipeVars
    <3>2. wreq[w] \in 0..Len(handed)
      BY DEF TypeOK
    <3>3. Sent(wreq[w]) \in Seq(0..Len(handed))
      BY <3>2, SentType
    <3> QED
      BY <2>0, <3>1, <3>3, TypeParts DEF Reply, ReplyType
  <2>3. CASE TaskShutdown(w)
    <3>1. Shutdown("close", out) /\ buf' = <<>>
      BY <2>3 DEF TaskShutdown
    <3>2. out \in Seq(0..Len(handed)) /\ "close" \in Reasons
      BY DEF TypeOK, Reasons
    <3> QED
      BY <1>0, <2>0, <3>1, <3>2, ShutdownType DEF pipeVars
  <2> QED
    BY <2>1, <2>2, <2>3 DEF Worker
<1>4. IoType' /\ FlowType'
  BY <1>0, <1>1, <1>2, <1>3, TypeParts DEF IoType, FlowType, pipeVars
<1>5. running' => running
  BY DEF Worker, TakeTask, TaskReply, TaskShutdown, Reply, Shutdown, endVars
<1>6. ParserInv' /\ ErrorInv'
  BY <1>0, <1>5 DEF ParserInv, ErrorInv
<1> QED
  BY <1>3, <1>4, <1>6, TypeParts

(* Every step keeps the invariant.                                          *)
LEMMA NextBase ==
  ASSUME Base, [Next]_vars
  PROVE  Base'
<1>1. CASE \E n \in 1..Len(wire) : ReadSome(n)
  BY <1>1, ReadBase
<1>2. CASE ReadEof
  BY <1>2, ReadBase
<1>3. CASE Reactor
  BY <1>3, ParseBase, ReadBase, PassBase, CompleteBase, ServeBase DEF Reactor
<1>4. CASE \E w \in Workers : Worker(w)
  BY <1>4, WorkerBase
<1>5. CASE Terminated \/ UNCHANGED vars
  BY <1>5, PassBase DEF Terminated
<1> QED
  BY <1>1, <1>2, <1>3, <1>4, <1>5 DEF Next

(* A request that the parser refuses closes the connection, but for the     *)
(* error that parse() does not report: "Header too large".                  *)
THEOREM ErrorsClose == Spec => []ErrorCloses
<1>1. Base => ErrorCloses
  BY DEF Base, ErrorInv, ErrorCloses
<1> QED
  BY <1>1, InitBase, NextBase, PTL DEF Spec

-----------------------------------------------------------------------------
(* Who is answered.  A request goes from the pipeline to a handler, through *)
(* the pool's queue or not, and from there to the output; the requests that *)
(* are pending are the last ones handed, those queued the ones before.      *)

Taken == Len(handed) - Len(pending) - Len(tasks)
Handling(w) == wpc[w] = "handle"

QueueInv ==
    /\ Taken \in Nat
    /\ \A i \in DOMAIN pending : pending[i] = Len(handed) - Len(pending) + i
    /\ \A i \in DOMAIN tasks : tasks[i] = Taken + i
    /\ pool = {} => tasks = <<>>
    /\ \A w \in Workers : wpc[w] # "idle" => w \in pool

(* Nobody is answered twice, or answered while a handler has the request.   *)
HandlerInv ==
    /\ \A w \in Workers : Handling(w) =>
           wreq[w] \in 1..Taken /\ \A i \in DOMAIN Replies : Replies[i] # wreq[w]
    /\ \A v, w \in Workers : Handling(v) /\ Handling(w) /\ wreq[v] = wreq[w] => v = w
AnswerInv ==
    /\ \A i \in DOMAIN Replies : Replies[i] \in 1..Taken \/ (Replies[i] = 0 /\ why = "bad")
    /\ \A i, j \in DOMAIN Replies : Replies[i] = Replies[j] => i = j
    /\ running => why = "open"

(* With one handler at a time the replies keep up with the requests.        *)
OneWorker == \A v, w \in pool : v = w
OrderInv ==
    OneWorker =>
        /\ \A i \in DOMAIN Replies : Replies[i] = i \/ (Replies[i] = 0 /\ why = "bad")
        /\ running => IF \E w \in Workers : Handling(w)
                      THEN /\ Len(Replies) = Taken - 1
                           /\ \A w \in Workers : Handling(w) => wreq[w] = Taken
                      ELSE Len(Replies) = Taken

(* The limit has closed the connection: the reactor has left it.            *)
LimitInv ==
    why = "limit" => ~running /\ rpc = "idle" /\ Len(handed) - Len(Replies) > MaxPipeline

FlowInv == QueueInv /\ HandlerInv /\ AnswerInv /\ OrderInv /\ LimitInv

(* Replies are numbers of requests that were handed over, or 0.             *)
LEMMA RepliesType ==
  ASSUME TypeOK
  PROVE  Replies \in Seq(0..Len(handed)) /\ Len(Replies) \in Nat /\ Len(handed) \in Nat
         /\ DOMAIN Replies = 1..Len(Replies)
<1> DEFINE S == 0..Len(handed)
           u == IF running THEN out ELSE lost
<1>1. sent \in Seq(S) /\ u \in Seq(S)
  BY DEF TypeOK
<1> HIDE DEF S, u
<1>2. sent \o u \in Seq(S)
  BY <1>1, Parts
<1>3. Replies = sent \o u
  BY DEF Replies, u
<1>4. Replies \in Seq(S) /\ Len(Replies) \in Nat /\ DOMAIN Replies = 1..Len(Replies)
  BY <1>2, <1>3, SeqBasics
<1> QED
  BY <1>4, SeqBasics DEF S, TypeOK

(* A shutdown that finds the output as it is, and a write of it, keep the   *)
(* replies; and the end of a connection is told once.                       *)
LEMMA RepliesKept ==
  ASSUME TypeOK, \/ UNCHANGED <<sent, running, out, lost>>
                 \/ UNCHANGED sent /\ \E reason : Shutdown(reason, out)
                 \/ WriteOut
  PROVE  Replies' = Replies
<1>1. CASE UNCHANGED <<sent, running, out, lost>>
  BY <1>1 DEF Replies
<1>2. CASE UNCHANGED sent /\ \E reason : Shutdown(reason, out)
  BY <1>2 DEF Replies, Shutdown
<1>3. CASE WriteOut
  <2> DEFINE S == 0..Len(handed)
  <2>1. /\ sent' = sent \o out /\ out' = <<>> /\ running /\ running' = running
        /\ sent \in Seq(S) /\ out \in Seq(S)
    BY <1>3 DEF WriteOut, TypeOK
  <2> HIDE DEF S
  <2>2. sent \o out \in Seq(S)
    BY <2>1, Parts
  <2>3. (sent \o out) \o <<>> = sent \o out
    BY <2>2, ConcatEmptySeq
  <2> QED
    BY <2>1, <2>3 DEF Replies
<1> QED
  BY <1>1, <1>2, <1>3

(* A reply on an open connection comes behind the others, whether it is     *)
(* written or lost.                                                         *)
LEMMA RepliesAdded ==
  ASSUME TypeOK, running, NEW r \in 0..Len(handed), UNCHANGED sent,
         Reply(r) \/ \E reason : Shutdown(reason, Sent(r))
  PROVE  /\ Replies' = Append(Replies, r) /\ Len(Replies') = Len(Replies) + 1
         /\ DOMAIN Replies' = 1..(Len(Replies) + 1)
         /\ \A i \in 1..Len(Replies) : Replies'[i] = Replies[i]
         /\ Replies'[Len(Replies) + 1] = r
<1> DEFINE S == 0..Len(handed)
<1>1. sent \in Seq(S) /\ out \in Seq(S) /\ Replies = sent \o out /\ Replies \in Seq(S)
  BY RepliesType DEF TypeOK, Replies
<1>2. Replies' = sent \o Append(out, r)
  BY DEF Replies, Reply, Shutdown, Sent
<1>3. r \in S
  OBVIOUS
<1> HIDE DEF S
<1>4. sent \o Append(out, r) = Append(sent \o out, r)
  <2>1. /\ Append(out, r) = out \o <<r>> /\ Append(sent \o out, r) = (sent \o out) \o <<r>>
        /\ <<r>> \in Seq(S)
    BY <1>1, <1>3, AppendIsConcat
  <2>2. (sent \o out) \o <<r>> = sent \o (out \o <<r>>)
    BY <1>1, <2>1, ConcatAssociative
  <2> QED
    BY <2>1, <2>2
<1>5. Replies' = Append(Replies, r)
  BY <1>1, <1>2, <1>4
<1>6. /\ Append(Replies, r) \in Seq(S) /\ Len(Append(Replies, r)) = Len(Replies) + 1
      /\ \A i \in 1..Len(Replies) : Append(Replies, r)[i] = Replies[i]
      /\ Append(Replies, r)[Len(Replies) + 1] = r
  BY <1>1, <1>3, Appended
<1> QED
  BY <1>5, <1>6, SeqBasics

(* No more replies than requests that a handler was given.                  *)
LEMMA RepliesBounded ==
  ASSUME TypeOK, QueueInv, AnswerInv, running
  PROVE  Len(Replies) <= Taken
<1> DEFINE S == 1..Len(Replies)
           T == 1..Taken
<1>1. Len(Replies) \in Nat /\ Taken \in Nat /\ DOMAIN Replies = S
  BY RepliesType DEF QueueInv
<1>2. IsFiniteSet(S) /\ IsFiniteSet(T) /\ Cardinality(S) = Len(Replies)
      /\ Cardinality(T) = Taken
  <2>1. ASSUME NEW n \in Nat PROVE IsFiniteSet(1..n) /\ Cardinality(1..n) = n
    <3>1. IsFiniteSet(1..n) /\ Cardinality(1..n) = IF 1 > n THEN 0 ELSE n - 1 + 1
      BY FS_Interval
    <3> QED
      BY <3>1
  <2> QED
    BY <1>1, <2>1
<1>3. Replies \in [S -> T]
  <2>1. Replies = [i \in S |-> Replies[i]]
    BY <1>1, RepliesType
  <2>2. \A i \in S : Replies[i] \in T
    BY <1>1 DEF AnswerInv
  <2> QED
    BY <2>1, <2>2
<1>4. \A i, j \in S : Replies[i] = Replies[j] => i = j
  BY <1>1 DEF AnswerInv
<1> HIDE DEF S, T
<1>5. ~(Cardinality(T) < Cardinality(S))
  BY <1>2, <1>3, <1>4, FS_PigeonHole
<1> QED
  BY <1>1, <1>2, <1>5

(* Steps that move no request: reads, parsing, closing, writing.            *)
LEMMA QuietFlow ==
  ASSUME TypeOK, FlowInv, Replies' = Replies,
         UNCHANGED <<handed, pending, tasks, pool, wreq>>,
         \A w \in Workers : (Handling(w)' => Handling(w)) /\ (wpc'[w] # "idle" => wpc[w] # "idle"),
         running' => running /\ \A w \in Workers : Handling(w) => Handling(w)',
         why' = why \/ (running /\ why' \in {"eof", "close"}),
         running' => why' = why,
         rpc = "idle" /\ ~running => rpc' = "idle"
  PROVE  FlowInv'
<1> USE DEF FlowInv
<1>1. Taken' = Taken /\ OneWorker' = OneWorker
  BY DEF Taken, OneWorker
<1>2. QueueInv'
  BY <1>1 DEF QueueInv
<1>3. HandlerInv'
  BY <1>1 DEF HandlerInv
<1>4. \A i \in DOMAIN Replies : why' # why => Replies[i] \in 1..Taken
  BY DEF AnswerInv
<1>5. AnswerInv'
  BY <1>1, <1>4 DEF AnswerInv
<1>6. OrderInv'
  <2>1. \A i \in DOMAIN Replies : why' # why => Replies[i] # 0
    BY <1>4 DEF QueueInv
  <2> QED
    BY <1>1, <2>1 DEF OrderInv
<1>7. LimitInv'
  BY DEF LimitInv, AnswerInv
<1> QED
  BY <1>2, <1>3, <1>5, <1>6, <1>7

(* The 400 for a bad request is the last reply.                             *)
LEMMA ParseErrorFlow ==
  ASSUME TypeOK, FlowInv, ParseError
  PROVE  FlowInv'
<1> USE DEF FlowInv
<1>0. /\ Shutdown("bad", Sent(0)) /\ rpc = "parse"
      /\ UNCHANGED <<handed, pending, depth, closing, tasks, wpc, wreq, pool, sent>>
  BY DEF ParseError, pipeVars, workVars, ioVars
<1>1. CASE ~running
  <2>1. Replies' = Replies /\ why' = why /\ ~running'
    BY <1>0, <1>1 DEF Shutdown, Replies
  <2>2. \A w \in Workers : Handling(w)' = Handling(w)
    BY <1>0 DEF Handling
  <2> QED
    BY <1>0, <1>1, <2>1, <2>2, QuietFlow
<1>2. CASE running
  <2>1. why' = "bad" /\ ~running' /\ why = "open"
    BY <1>0, <1>2 DEF Shutdown, AnswerInv
  <2>2. /\ Len(Replies') = Len(Replies) + 1 /\ DOMAIN Replies' = 1..(Len(Replies) + 1)
        /\ \A i \in 1..Len(Replies) : Replies'[i] = Replies[i]
        /\ Replies'[Len(Replies) + 1] = 0
    <3>1. 0 \in 0..Len(handed)
      BY RepliesType
    <3> QED
      BY <1>0, <1>2, <3>1, RepliesAdded
  <2>3. /\ DOMAIN Replies = 1..Len(Replies) /\ Len(Replies) \in Nat
        /\ \A i \in 1..Len(Replies) : Replies[i] \in 1..Taken
    BY <2>1, RepliesType DEF AnswerInv
  <2>4. Taken' = Taken /\ OneWorker' = OneWorker /\ Taken \in Nat
    BY <1>0 DEF Taken, OneWorker, QueueInv
  <2>5. QueueInv'
    BY <1>0, <2>4 DEF QueueInv
  <2>6. \A i \in 1..(Len(Replies) + 1) : i \in 1..Len(Replies) \/ i = Len(Replies) + 1
    BY <2>3
  <2>7. HandlerInv'
    <3>1. \A w \in Workers : Handling(w)' = Handling(w)
      BY <1>0 DEF Handling
    <3>2. ASSUME NEW w \in Workers, Handling(w), NEW i \in DOMAIN Replies'
          PROVE  Replies'[i] # wreq[w]
      <4>1. wreq[w] \in 1..Taken /\ \A j \in 1..Len(Replies) : Replies[j] # wreq[w]
        BY <2>3, <3>2 DEF HandlerInv
      <4> QED
        BY <2>2, <2>4, <2>6, <3>2, <4>1
    <3> QED
      BY <1>0, <2>4, <3>1, <3>2 DEF HandlerInv
  <2>8. AnswerInv'
    <3>1. \A i \in DOMAIN Replies' : Replies'[i] \in 1..Taken \/ Replies'[i] = 0
      BY <2>2, <2>3, <2>6
    <3>2. \A i, j \in DOMAIN Replies' : Replies'[i] = Replies'[j] => i = j
      <4>1. \A i, j \in 1..Len(Replies) : Replies[i] = Replies[j] => i = j
        BY <2>3 DEF AnswerInv
      <4>2. \A i \in 1..Len(Replies) : Replies[i] # 0
        BY <2>3, <2>4
      <4> QED
        BY <2>2, <2>6, <4>1, <4>2
    <3> QED
      BY <2>1, <2>4, <3>1, <3>2 DEF AnswerInv
  <2>9. OrderInv'
    <3>1. OneWorker => \A i \in 1..Len(Replies) : Replies[i] = i
      BY <2>1, <2>3 DEF OrderInv
    <3> QED
      BY <2>1, <2>2, <2>4, <2>6, <3>1 DEF OrderInv
  <2>10. LimitInv'
    BY <2>1 DEF LimitInv
  <2> QED
    BY <2>5, <2>7, <2>8, <2>9, <2>10
<1> QED
  BY <1>1, <1>2 DEF TypeOK

(* A request is handed over by the parser.                                  *)
LEMMA CompleteFlow ==
  ASSUME TypeOK, FlowInv, Complete
  PROVE  FlowInv'
<1> USE DEF FlowInv
<1> DEFINE h == Len(handed)
           p == Len(pending)
<1>0. /\ handed' = Append(handed, parser.req) /\ pending' = Append(pending, h + 1)
      /\ depth' = depth + 1 /\ rpc = "result"
      /\ UNCHANGED <<tasks, wpc, wreq, pool, sent>>
      /\ \/ OverLimit(depth') /\ Shutdown("limit", out) /\ rpc' = "idle"
         \/ ~OverLimit(depth') /\ UNCHANGED <<running, out, why, lost>>
  BY DEF Complete, workVars, endVars
<1>1. /\ h \in Nat /\ Len(handed') = h + 1 /\ p \in Nat /\ Len(pending') = p + 1 /\ depth = p
      /\ DOMAIN pending = 1..p /\ DOMAIN pending' = 1..(p + 1)
      /\ \A i \in 1..p : pending'[i] = pending[i]
      /\ pending'[p + 1] = h + 1
  <2>1. handed \in Seq(Request) /\ parser.req \in Request /\ pending \in Seq(Nat) /\ depth = p
        /\ h \in Nat
    <3>1. DOMAIN handed \subseteq Nat /\ pending \in Seq(DOMAIN handed)
      BY SeqBasics DEF TypeOK
    <3>2. pending \in Seq(Nat)
      BY <3>1, SeqMonotonic
    <3> QED
      BY <3>2, SeqBasics DEF TypeOK, Parser
  <2>2. Len(handed') = h + 1
    BY <1>0, <2>1, Appended
  <2>3. /\ Append(pending, h + 1) \in Seq(Nat) /\ Len(Append(pending, h + 1)) = p + 1
        /\ \A i \in 1..p : Append(pending, h + 1)[i] = pending[i]
        /\ Append(pending, h + 1)[p + 1] = h + 1
    BY <2>1, Appended
  <2> QED
    BY <1>0, <2>1, <2>2, <2>3, SeqBasics
<1>2. Replies' = Replies
  BY <1>0, RepliesKept
<1>3. Taken' = Taken /\ OneWorker' = OneWorker
  BY <1>0, <1>1 DEF Taken, OneWorker
<1>4. \A w \in Workers : Handling(w)' = Handling(w)
  BY <1>0 DEF Handling
<1>5. QueueInv'
  <2>1. \A i \in DOMAIN pending' : pending'[i] = Len(handed') - Len(pending') + i
    <3>1. \A i \in 1..p : pending[i] = h - p + i
      BY <1>1 DEF QueueInv
    <3> QED
      BY <1>1, <3>1
  <2> QED
    BY <1>0, <1>3, <2>1 DEF QueueInv
<1>6. HandlerInv'
  BY <1>0, <1>2, <1>3, <1>4 DEF HandlerInv
<1>7. /\ why' = why \/ (running /\ why' = "limit")
      /\ running' => running /\ why' = why
  BY <1>0 DEF Shutdown
<1>8. \A i \in DOMAIN Replies : why' # why => Replies[i] \in 1..Taken
  BY <1>7 DEF AnswerInv
<1>9. AnswerInv'
  BY <1>2, <1>3, <1>7, <1>8 DEF AnswerInv
<1>10. OrderInv'
  <2>1. \A i \in DOMAIN Replies : why' # why => Replies[i] # 0
    BY <1>8 DEF QueueInv
  <2> QED
    BY <1>0, <1>2, <1>3, <1>4, <1>7, <2>1 DEF OrderInv
<1>11. LimitInv'
  <2> SUFFICES ASSUME why' = "limit"
               PROVE  ~running' /\ rpc' = "idle" /\ Len(handed') - Len(Replies') > MaxPipeline
    BY DEF LimitInv
  <2>1. running /\ OverLimit(depth') /\ Shutdown("limit", out) /\ rpc' = "idle"
    BY <1>0, <1>7 DEF LimitInv, AnswerInv
  <2>2. p + 1 > MaxPipeline /\ ~running'
    BY <1>0, <1>1, <2>1 DEF OverLimit, Shutdown
  <2>3. Len(Replies) <= Taken /\ Len(Replies) \in Nat /\ Taken = h - p - Len(tasks)
        /\ Len(tasks) \in Nat /\ MaxPipeline \in Nat
    BY <2>1, RepliesBounded, RepliesType, SeqBasics, PipelineAssumption DEF Taken, TypeOK
  <2> QED
    BY <1>1, <1>2, <2>1, <2>2, <2>3
<1> QED
  BY <1>5, <1>6, <1>9, <1>10, <1>11

(* The first of the pending requests leaves the pipeline.                   *)
LEMMA FirstPending ==
  ASSUME TypeOK, QueueInv, pending # <<>>, pending' = Tail(pending), UNCHANGED handed
  PROVE  /\ Len(pending) \in Nat /\ Len(pending) >= 1 /\ Len(pending') = Len(pending) - 1
         /\ Len(handed) \in Nat /\ Len(tasks) \in Nat
         /\ Head(pending) = Len(handed) - Len(pending) + 1 /\ Head(pending) \in 1..Len(handed)
         /\ \A i \in DOMAIN pending' : pending'[i] = Len(handed') - Len(pending') + i
<1>1. pending \in Seq(DOMAIN handed) /\ DOMAIN handed = 1..Len(handed) /\ Len(handed) \in Nat
      /\ Len(tasks) \in Nat
  BY SeqBasics DEF TypeOK
<1>2. /\ pending' \in Seq(DOMAIN handed) /\ Len(pending') = Len(pending) - 1 /\ Len(pending) >= 1
      /\ Head(pending) \in DOMAIN handed /\ Head(pending) = pending[1]
      /\ \A i \in 1..(Len(pending) - 1) : pending'[i] = pending[i + 1]
  BY <1>1, TailType
<1>3. /\ DOMAIN pending = 1..Len(pending) /\ DOMAIN pending' = 1..(Len(pending) - 1)
      /\ Len(pending) \in Nat
  BY <1>1, <1>2, SeqBasics
<1>4. \A i \in 1..Len(pending) : pending[i] = Len(handed) - Len(pending) + i
  BY <1>3 DEF QueueInv
<1>5. ASSUME NEW i \in DOMAIN pending' PROVE pending'[i] = Len(handed') - Len(pending') + i
  <2>1. i + 1 \in 1..Len(pending) /\ i \in 1..(Len(pending) - 1)
    BY <1>3, <1>5
  <2>2. pending'[i] = pending[i + 1]
    BY <1>2, <2>1
  <2>3. pending[i + 1] = Len(handed) - Len(pending) + (i + 1)
    BY <1>4, <2>1
  <2>4. Len(handed') = Len(handed) /\ Len(pending') = Len(pending) - 1
    BY <1>2
  <2> QED
    BY <1>1, <1>3, <2>1, <2>2, <2>3, <2>4
<1> QED
  BY <1>1, <1>2, <1>3, <1>4, <1>5

(* A pending request becomes a task.                                        *)
LEMMA ServeSubmitFlow ==
  ASSUME TypeOK, FlowInv, ServeSubmit
  PROVE  FlowInv'
<1> USE DEF FlowInv
<1> DEFINE t == Len(tasks)
<1>0. /\ pending # <<>> /\ pending' = Tail(pending) /\ tasks' = Append(tasks, Head(pending))
      /\ pool # {} /\ UNCHANGED <<handed, pool, rpc, wpc, wreq, sent, running, out, why, lost>>
  BY DEF ServeSubmit, Serving, ServeNext, ioVars, endVars
<1>1. /\ Len(pending) \in Nat /\ Len(pending) >= 1 /\ Len(pending') = Len(pending) - 1
      /\ Len(handed) \in Nat /\ t \in Nat
      /\ Head(pending) = Len(handed) - Len(pending) + 1 /\ Head(pending) \in 1..Len(handed)
      /\ \A i \in DOMAIN pending' : pending'[i] = Len(handed') - Len(pending') + i
  BY <1>0, FirstPending
<1>2. /\ Len(tasks') = t + 1 /\ DOMAIN tasks = 1..t /\ DOMAIN tasks' = 1..(t + 1)
      /\ \A i \in 1..t : tasks'[i] = tasks[i]
      /\ tasks'[t + 1] = Head(pending)
  <2>1. tasks \in Seq(DOMAIN handed) /\ DOMAIN handed = 1..Len(handed)
    BY SeqBasics DEF TypeOK
  <2>2. /\ tasks' \in Seq(DOMAIN handed) /\ Len(tasks') = t + 1
        /\ \A i \in 1..t : tasks'[i] = tasks[i]
        /\ tasks'[t + 1] = Head(pending)
    BY <1>0, <1>1, <2>1, Appended
  <2> QED
    BY <2>1, <2>2, SeqBasics
<1>3. Taken' = Taken /\ OneWorker' = OneWorker /\ Taken = Len(handed) - Len(pending) - t
  BY <1>0, <1>1, <1>2 DEF Taken, OneWorker
<1>4. \A i \in DOMAIN tasks' : tasks'[i] = Taken + i
  <2>1. \A i \in 1..t : tasks[i] = Taken + i
    BY <1>2 DEF QueueInv
  <2>2. Head(pending) = Taken + (t + 1)
    BY <1>1, <1>3
  <2>3. \A i \in 1..(t + 1) : i \in 1..t \/ i = t + 1
    BY <1>1
  <2> QED
    BY <1>2, <2>1, <2>2, <2>3
<1>5. QueueInv'
  BY <1>0, <1>1, <1>3, <1>4 DEF QueueInv
<1>6. Replies' = Replies /\ \A w \in Workers : Handling(w)' = Handling(w)
  BY <1>0, RepliesKept DEF Handling
<1>7. HandlerInv' /\ AnswerInv'
  BY <1>0, <1>3, <1>6 DEF HandlerInv, AnswerInv
<1>8. OrderInv' /\ LimitInv'
  BY <1>0, <1>3, <1>6 DEF OrderInv, LimitInv
<1> QED
  BY <1>5, <1>7, <1>8

(* The handler on the reactor's thread: one request, one reply.             *)
LEMMA ServeInlineFlow ==
  ASSUME TypeOK, FlowInv, NEW thrown \in BOOLEAN, ServeInline(thrown)
  PROVE  FlowInv'
<1> USE DEF FlowInv
<1> DEFINE r == Head(pending)
<1>0. /\ pending # <<>> /\ pending' = Tail(pending) /\ pool = {} /\ running
      /\ UNCHANGED <<handed, tasks, pool, rpc, wpc, wreq, sent>>
      /\ Shutdown("close", Sent(r)) \/ Reply(r)
  BY DEF ServeInline, Serving, ServeNext, ioVars
<1>1. /\ Len(pending) \in Nat /\ Len(pending) >= 1 /\ Len(pending') = Len(pending) - 1
      /\ Len(handed) \in Nat /\ Len(tasks) = 0
      /\ r = Len(handed) - Len(pending) + 1 /\ r \in 1..Len(handed)
      /\ \A i \in DOMAIN pending' : pending'[i] = Len(handed') - Len(pending') + i
  BY <1>0, FirstPending, SeqBasics DEF QueueInv
<1>2. Taken' = Taken + 1 /\ r = Taken + 1 /\ OneWorker /\ OneWorker' /\ Taken \in Nat
  BY <1>0, <1>1 DEF Taken, OneWorker, QueueInv
<1>3. \A w \in Workers : ~Handling(w) /\ ~Handling(w)'
  BY <1>0 DEF Handling, QueueInv
<1>4. why = "open" /\ why' \in {"open", "close"} /\ (running' => why' = "open")
  BY <1>0 DEF AnswerInv, Shutdown, Reply
<1>5. /\ Len(Replies') = Len(Replies) + 1 /\ DOMAIN Replies' = 1..(Len(Replies) + 1)
      /\ \A i \in 1..Len(Replies) : Replies'[i] = Replies[i]
      /\ Replies'[Len(Replies) + 1] = r
  <2>1. r \in 0..Len(handed)
    BY <1>1
  <2> HIDE DEF r
  <2> QED
    BY <1>0, <2>1, RepliesAdded
<1>6. /\ Len(Replies) = Taken /\ DOMAIN Replies = 1..Taken
      /\ \A i \in 1..Taken : Replies[i] = i
  BY <1>0, <1>2, <1>3, <1>4, RepliesType DEF OrderInv
<1>7. \A i \in DOMAIN Replies' : Replies'[i] = i /\ i \in 1..(Taken + 1)
  <2>1. \A i \in 1..(Taken + 1) : i \in 1..Taken \/ i = Taken + 1
    BY <1>2
  <2> QED
    BY <1>2, <1>5, <1>6, <2>1
<1>8. QueueInv'
  BY <1>0, <1>1, <1>2, SeqBasics DEF QueueInv
<1>9. HandlerInv' /\ AnswerInv'
  BY <1>2, <1>3, <1>4, <1>7 DEF HandlerInv, AnswerInv
<1>10. OrderInv' /\ LimitInv'
  BY <1>2, <1>3, <1>4, <1>5, <1>6, <1>7 DEF OrderInv, LimitInv
<1> QED
  BY <1>8, <1>9, <1>10

(* A worker takes the first task: of an open connection it is handled.      *)
LEMMA TakeTaskFlow ==
  ASSUME TypeOK, FlowInv, NEW w \in Workers, TakeTask(w)
  PROVE  FlowInv'
<1> USE DEF FlowInv
<1> DEFINE t == Len(tasks)
           h == Head(tasks)
<1>0. /\ w \in pool /\ wpc[w] = "idle" /\ tasks # <<>> /\ tasks' = Tail(tasks)
      /\ wreq' = [wreq EXCEPT ![w] = h]
      /\ wpc' = [wpc EXCEPT ![w] = IF running THEN "handle" ELSE "idle"]
      /\ UNCHANGED <<handed, pending, pool, rpc, sent, running, out, why, lost>>
  BY DEF TakeTask, ioVars, pipeVars, endVars
<1>1. /\ wpc'[w] = (IF running THEN "handle" ELSE "idle") /\ wreq'[w] = h
      /\ \A v \in Workers : v # w => wpc'[v] = wpc[v] /\ wreq'[v] = wreq[v]
  BY <1>0 DEF TypeOK
<1>2. /\ t \in Nat /\ t >= 1 /\ Len(tasks') = t - 1 /\ DOMAIN tasks' = 1..(t - 1)
      /\ h = tasks[1] /\ DOMAIN tasks = 1..t
      /\ \A i \in 1..(t - 1) : tasks'[i] = tasks[i + 1]
  <2>1. tasks \in Seq(DOMAIN handed)
    BY DEF TypeOK
  <2>2. /\ tasks' \in Seq(DOMAIN handed) /\ Len(tasks') = t - 1 /\ t >= 1
        /\ h \in DOMAIN handed /\ h = tasks[1]
        /\ \A i \in 1..(t - 1) : tasks'[i] = tasks[i + 1]
    BY <1>0, <2>1, TailType
  <2> QED
    BY <2>1, <2>2, SeqBasics
<1>3. /\ Taken \in Nat /\ Taken' = Taken + 1 /\ OneWorker' = OneWorker
      /\ \A i \in 1..t : tasks[i] = Taken + i
  <2>1. Len(handed) \in Nat /\ Len(pending) \in Nat
    BY SeqBasics DEF TypeOK
  <2> QED
    BY <1>0, <1>2, <2>1 DEF Taken, OneWorker, QueueInv
<1>4. h = Taken + 1
  BY <1>2, <1>3
<1> HIDE DEF h, t
<1>5. QueueInv'
  <2>1. ASSUME NEW i \in DOMAIN tasks' PROVE tasks'[i] = Taken' + i
    <3>1. i \in 1..(t - 1) /\ i + 1 \in 1..t
      BY <1>2, <2>1
    <3>2. tasks'[i] = tasks[i + 1] /\ tasks[i + 1] = Taken + (i + 1)
      BY <1>2, <1>3, <3>1
    <3> QED
      BY <1>3, <3>1, <3>2
  <2>2. Taken' \in Nat /\ (pool' = {} => tasks' = <<>>)
    BY <1>0, <1>3
  <2>3. \A v \in Workers : wpc'[v] # "idle" => v \in pool'
    BY <1>0, <1>1 DEF QueueInv
  <2>4. \A i \in DOMAIN pending' : pending'[i] = Len(handed') - Len(pending') + i
    BY <1>0 DEF QueueInv
  <2> QED
    BY <2>1, <2>2, <2>3, <2>4 DEF QueueInv
<1>6. Replies' = Replies /\ DOMAIN Replies = 1..Len(Replies) /\ Len(Replies) \in Nat
  BY <1>0, RepliesKept, RepliesType
<1>7. \A v \in Workers : v # w => Handling(v)' = Handling(v)
  BY <1>1 DEF Handling
<1>8. ~Handling(w) /\ (Handling(w)' => running)
  BY <1>0, <1>1 DEF Handling
<1>9. \A i \in DOMAIN Replies : running => Replies[i] # h
  BY <1>3, <1>4 DEF AnswerInv
<1>10. \A v \in Workers : Handling(v) => wreq[v] # h
  BY <1>3, <1>4 DEF HandlerInv
<1>11. h \in 1..Taken' /\ 1..Taken \subseteq 1..Taken'
  BY <1>3, <1>4
<1>12. HandlerInv'
  <2>1. ASSUME NEW v \in Workers, Handling(v)'
        PROVE  wreq'[v] \in 1..Taken' /\ \A i \in DOMAIN Replies : Replies[i] # wreq'[v]
    BY <1>1, <1>7, <1>8, <1>9, <1>11, <2>1 DEF HandlerInv
  <2>2. ASSUME NEW u \in Workers, NEW v \in Workers, Handling(u)', Handling(v)',
               wreq'[u] = wreq'[v]
        PROVE  u = v
    BY <1>1, <1>7, <1>10, <2>2 DEF HandlerInv
  <2> QED
    BY <1>6, <2>1, <2>2 DEF HandlerInv
<1>13. AnswerInv'
  BY <1>0, <1>6, <1>11 DEF AnswerInv
<1>14. OrderInv'
  <2> SUFFICES ASSUME OneWorker
               PROVE  /\ \A i \in DOMAIN Replies : Replies[i] = i
                                                   \/ (Replies[i] = 0 /\ why = "bad")
                      /\ running => /\ \E v \in Workers : Handling(v)'
                                    /\ Len(Replies) = Taken
                                    /\ \A v \in Workers : Handling(v)' => wreq'[v] = Taken + 1
    <3>1. (Len(Replies') = Taken' - 1) <=> (Len(Replies) = Taken)
      <4>1. Len(Replies') = Len(Replies) /\ Len(Replies) \in Nat
        BY <1>6
      <4> QED
        BY <1>3, <4>1
    <3> QED
      BY <1>0, <1>3, <1>6, <3>1 DEF OrderInv
  <2>1. \A v \in Workers : v # w => ~Handling(v) /\ ~Handling(v)'
    BY <1>0, <1>7 DEF OneWorker, QueueInv, Handling
  <2>2. running => Handling(w)'
    BY <1>1 DEF Handling
  <2>3. \A v \in Workers : ~Handling(v)
    BY <1>8, <2>1
  <2> QED
    BY <1>1, <1>4, <2>1, <2>2, <2>3 DEF OrderInv
<1>15. LimitInv'
  BY <1>0, <1>6 DEF LimitInv
<1> QED
  BY <1>5, <1>12, <1>13, <1>14, <1>15

(* A worker's reply: on a closed connection send() does nothing.            *)
LEMMA TaskReplyFlow ==
  ASSUME TypeOK, FlowInv, NEW w \in Workers, NEW thrown \in BOOLEAN, TaskReply(w, thrown)
  PROVE  FlowInv'
<1> USE DEF FlowInv
<1> DEFINE r == wreq[w]
<1>0. /\ wpc[w] = "handle" /\ Reply(r)
      /\ UNCHANGED <<handed, pending, tasks, wreq, pool, rpc, sent, running, why, lost>>
  BY DEF TaskReply, Reply, ioVars, pipeVars
<1>1. wpc'[w] \in {"close", "idle"} /\ \A v \in Workers : v # w => wpc'[v] = wpc[v]
  BY DEF TaskReply, TypeOK
<1>2. Handling(w) /\ ~Handling(w)' /\ \A v \in Workers : v # w => Handling(v)' = Handling(v)
  BY <1>0, <1>1 DEF Handling
<1>3. \A v \in Workers : wpc'[v] # "idle" => wpc[v] # "idle"
  BY <1>0, <1>1
<1>4. CASE ~running
  <2>1. Replies' = Replies
    BY <1>0, <1>4 DEF Reply, Sent, Replies
  <2> QED
    BY <1>0, <1>2, <1>3, <1>4, <2>1, QuietFlow
<1>5. CASE running
  <2>1. /\ Taken \in Nat /\ Taken' = Taken /\ OneWorker' = OneWorker /\ r \in 1..Taken
        /\ \A i \in DOMAIN Replies : Replies[i] # r
    BY <1>0, <1>2 DEF Taken, OneWorker, QueueInv, HandlerInv
  <2>2. r \in 0..Len(handed)
    BY DEF TypeOK
  <2>3. /\ Len(Replies) \in Nat /\ DOMAIN Replies = 1..Len(Replies)
        /\ why = "open" /\ \A i \in 1..Len(Replies) : Replies[i] \in 1..Taken
    BY <1>5, RepliesType DEF AnswerInv
  <2> HIDE DEF r
  <2>4. /\ Len(Replies') = Len(Replies) + 1 /\ DOMAIN Replies' = 1..(Len(Replies) + 1)
        /\ \A i \in 1..Len(Replies) : Replies'[i] = Replies[i]
        /\ Replies'[Len(Replies) + 1] = r
    BY <1>0, <1>5, <2>2, RepliesAdded
  <2>5. \A i \in 1..(Len(Replies) + 1) : i \in 1..Len(Replies) \/ i = Len(Replies) + 1
    BY <2>3
  <2>6. QueueInv'
    BY <1>0, <1>3, <2>1 DEF QueueInv
  <2>7. HandlerInv'
    <3>1. ASSUME NEW v \in Workers, Handling(v)', NEW i \in DOMAIN Replies'
          PROVE  Replies'[i] # wreq[v]
      <4>1. v # w /\ Handling(v) /\ wreq[v] # r
        BY <1>2, <3>1 DEF HandlerInv, r
      <4>2. \A j \in 1..Len(Replies) : Replies[j] # wreq[v]
        BY <2>3, <4>1 DEF HandlerInv
      <4> QED
        BY <2>4, <2>5, <3>1, <4>1, <4>2
    <3>2. \A v \in Workers : Handling(v)' => Handling(v)
      BY <1>2
    <3> QED
      BY <1>0, <2>1, <3>1, <3>2 DEF HandlerInv
  <2>8. AnswerInv'
    <3>1. \A i \in DOMAIN Replies' : Replies'[i] \in 1..Taken
      BY <2>1, <2>3, <2>4, <2>5
    <3>2. \A i, j \in 1..Len(Replies) : Replies[i] = Replies[j] => i = j
      BY <2>3 DEF AnswerInv
    <3>3. \A i, j \in DOMAIN Replies' : Replies'[i] = Replies'[j] => i = j
      BY <2>1, <2>3, <2>4, <2>5, <3>2
    <3> QED
      BY <1>0, <2>1, <2>3, <3>1, <3>3 DEF AnswerInv
  <2>9. OrderInv'
    <3> SUFFICES ASSUME OneWorker
                 PROVE  /\ \A i \in DOMAIN Replies' : Replies'[i] = i
                        /\ \A v \in Workers : ~Handling(v)'
                        /\ Len(Replies') = Taken
      BY <1>0, <2>1 DEF OrderInv
    <3>1. \A v \in Workers : ~Handling(v)'
      BY <1>0, <1>2 DEF OneWorker, QueueInv, Handling
    <3>2. Len(Replies) = Taken - 1 /\ r = Taken /\ \A i \in 1..Len(Replies) : Replies[i] = i
      BY <1>2, <1>5, <2>3 DEF OrderInv, r
    <3> QED
      BY <2>1, <2>3, <2>4, <2>5, <3>1, <3>2
  <2>10. LimitInv'
    BY <1>0, <2>3 DEF LimitInv
  <2> QED
    BY <2>6, <2>7, <2>8, <2>9, <2>10
<1> QED
  BY <1>4, <1>5 DEF TypeOK

(* What moves no request, action by action.                                 *)
LEMMA QuietSteps ==
  ASSUME TypeOK, FlowInv,
         \/ \E n \in 1..Len(wire) : ReadSome(n)
         \/ ReadEof \/ ParsePartial \/ ParseLine \/ ParseBody \/ ParseEnds \/ Incomplete
         \/ ReadDone \/ WriteOut \/ Terminated \/ UNCHANGED vars
  PROVE  FlowInv'
<1>1. UNCHANGED <<handed, pending, tasks, pool, wreq, wpc>>
  BY DEF ReadSome, ReadEof, ParsePartial, ParseLine, ParseBody, ParseEnds, Incomplete,
         ReadDone, WriteOut, Terminated, ioVars, pipeVars, workVars, vars
<1>2. \A w \in Workers : Handling(w)' = Handling(w)
  BY <1>1 DEF Handling
<1>3. rpc = "idle" /\ ~running => rpc' = "idle"
  BY DEF ReadSome, ReadEof, ParsePartial, ParseLine, ParseBody, ParseEnds, Incomplete,
         ReadDone, WriteOut, Terminated, Parsing, vars
<1>4. CASE ReadEof
  <2>1. Shutdown("eof", out) /\ running /\ UNCHANGED sent
    BY <1>4 DEF ReadEof
  <2>2. Replies' = Replies /\ why' = "eof" /\ ~running'
    BY <2>1, RepliesKept DEF Shutdown
  <2> QED
    BY <1>1, <1>2, <1>3, <2>1, <2>2, QuietFlow
<1>5. CASE WriteOut
  <2>1. Replies' = Replies /\ UNCHANGED <<running, why>>
    BY <1>5, RepliesKept DEF WriteOut
  <2> QED
    BY <1>1, <1>2, <1>3, <2>1, QuietFlow
<1>6. CASE ~ReadEof /\ ~WriteOut
  <2>1. UNCHANGED <<sent, running, out, why, lost>>
    BY <1>6 DEF ReadSome, ParsePartial, ParseLine, ParseBody, ParseEnds, Incomplete,
         ReadDone, Terminated, endVars, vars
  <2>2. Replies' = Replies
    BY <2>1, RepliesKept
  <2> QED
    BY <1>1, <1>2, <1>3, <2>1, <2>2, QuietFlow
<1> QED
  BY <1>4, <1>5, <1>6

(* A worker that closes the connection moves no request.                    *)
LEMMA TaskShutdownFlow ==
  ASSUME TypeOK, FlowInv, NEW w \in Workers, TaskShutdown(w)
  PROVE  FlowInv'
<1>0. /\ wpc[w] = "close" /\ Shutdown("close", out)
      /\ UNCHANGED <<handed, pending, tasks, wreq, pool, rpc, sent>>
  BY DEF TaskShutdown, pipeVars
<1>1. wpc'[w] = "idle" /\ \A v \in Workers : v # w => wpc'[v] = wpc[v]
  BY DEF TaskShutdown, TypeOK
<1>2. \A v \in Workers : Handling(v)' = Handling(v) /\ (wpc'[v] # "idle" => wpc[v] # "idle")
  BY <1>0, <1>1 DEF Handling
<1>3. Replies' = Replies /\ ~running' /\ (why' = why \/ (running /\ why' = "close"))
  BY <1>0, RepliesKept DEF Shutdown
<1> QED
  BY <1>0, <1>2, <1>3, QuietFlow

(* Nothing is under way at the start.                                       *)
LEMMA InitFlow ==
  ASSUME Init
  PROVE  FlowInv
<1>1. Replies = <<>> /\ Len(handed) = 0 /\ Len(pending) = 0 /\ Len(tasks) = 0 /\ Len(Replies) = 0
  BY DEF Init, Replies
<1>2. Taken = 0 /\ DOMAIN pending = {} /\ DOMAIN tasks = {} /\ DOMAIN Replies = {}
  <2>1. DOMAIN <<>> = {}
    OBVIOUS
  <2>2. Taken = 0
    BY <1>1 DEF Taken
  <2> QED
    BY <1>1, <2>1, <2>2 DEF Init
<1>3. \A w \in Workers : ~Handling(w) /\ wpc[w] = "idle"
  BY DEF Init, Handling
<1>4. QueueInv /\ HandlerInv
  BY <1>2, <1>3 DEF Init, QueueInv, HandlerInv
<1>5. AnswerInv /\ OrderInv /\ LimitInv
  BY <1>1, <1>2, <1>3 DEF Init, AnswerInv, OrderInv, LimitInv
<1> QED
  BY <1>4, <1>5 DEF FlowInv

(* Every step keeps the flow of requests.                                   *)
LEMMA NextFlow ==
  ASSUME TypeOK, FlowInv, [Next]_vars
  PROVE  FlowInv'
<1>1. CASE ParseError
  BY <1>1, ParseErrorFlow
<1>2. CASE Complete
  BY <1>2, CompleteFlow
<1>3. CASE ServeSubmit
  BY <1>3, ServeSubmitFlow
<1>4. CASE \E thrown \in BOOLEAN : ServeInline(thrown)
  BY <1>4, ServeInlineFlow
<1>5. CASE \E w \in Workers : Worker(w)
  BY <1>5, TakeTaskFlow, TaskReplyFlow, TaskShutdownFlow DEF Worker
<1>6. CASE \/ \E n \in 1..Len(wire) : ReadSome(n)
           \/ ReadEof \/ ParsePartial \/ ParseLine \/ ParseBody \/ ParseEnds \/ Incomplete
           \/ ReadDone \/ WriteOut \/ Terminated \/ UNCHANGED vars
  BY <1>6, QuietSteps
<1> QED
  BY <1>1, <1>2, <1>3, <1>4, <1>5, <1>6 DEF Next, Reactor

(* The invariant from which the next two follow.                            *)
THEOREM PipelineInvariant == Spec => [](Base /\ FlowInv)
<1>1. Base => TypeOK
  BY DEF Base
<1>2. Init => Base /\ FlowInv
  BY InitBase, InitFlow
<1>3. Base /\ FlowInv /\ [Next]_vars => (Base /\ FlowInv)'
  BY <1>1, NextBase, NextFlow
<1> QED
  BY <1>2, <1>3, PTL DEF Spec

(* The pipeline's counter is the number of its requests, and its limit      *)
(* closes the connection only of a peer with more requests unanswered.      *)
THEOREM LimitOnBacklog == Spec => []LimitIsBacklog
<1>1. Base /\ FlowInv => LimitIsBacklog
  BY DEF Base, FlowInv, LimitInv, LimitIsBacklog
<1> QED
  BY <1>1, PipelineInvariant, PTL

(* Two workers are two elements of the pool.                                *)
LEMMA AtMostOne ==
  ASSUME pool \subseteq Workers, Cardinality(pool) <= 1
  PROVE  OneWorker
<1> SUFFICES ASSUME NEW v \in pool, NEW w \in pool, v # w
             PROVE  FALSE
  BY DEF OneWorker
<1>1. IsFiniteSet(pool)
  BY FS_Subset, PipelineAssumption
<1>2. IsFiniteSet({v}) /\ Cardinality({v}) = 1
  BY FS_Singleton
<1>3. IsFiniteSet({v} \cup {w}) /\ Cardinality({v} \cup {w}) = 2
  BY <1>2, FS_AddElement
<1>4. {v} \cup {w} \subseteq pool
  OBVIOUS
<1>5. Cardinality({v} \cup {w}) <= Cardinality(pool) /\ Cardinality(pool) \in Nat
  BY <1>1, <1>4, FS_Subset, FS_CardinalityType
<1> QED
  BY <1>3, <1>5

(* Nobody is answered twice; and with the handlers on the reactor's thread  *)
(* or on one worker the replies come in the order of the requests, none     *)
(* left out, however long the stream.                                       *)
THEOREM RepliesInOrder == Spec => []RepliesMatch
<1>1. Base /\ FlowInv => RepliesMatch
  <2> SUFFICES ASSUME Base, FlowInv PROVE RepliesMatch
    OBVIOUS
  <2>1. \A i, j \in DOMAIN Replies : Replies[i] = Replies[j] => i = j
    BY DEF FlowInv, AnswerInv
  <2>2. Cardinality(pool) <= 1 => OneWorker
    BY AtMostOne DEF Base, TypeOK
  <2>3. OneWorker => \A i \in DOMAIN Replies : Replies[i] = i \/ (Replies[i] = 0 /\ why = "bad")
    BY DEF FlowInv, OrderInv
  <2> QED
    BY <2>1, <2>2, <2>3 DEF RepliesMatch
<1> QED
  BY <1>1, PipelineInvariant, PTL

-----------------------------------------------------------------------------
(* What is understood.  As long as no read ends inside a request, whatever  *)
(* is not handed over yet begins a request, and inside parse() the parser   *)
(* is where the text of that request is.                                    *)

(* Where the text of the next request begins in the stream.                *)
Before(n) == Len(Texts(reqs)[n])

(* The fields that the parser takes, and what the first m of a request say. *)
GoodField(q, j) ==
    /\ q.fields[j] \notin {"nocolon", "badlength"}
    /\ q.fields[j] = "length" => q.len <= MaxBody
HasLength(q, m) == \E j \in 1..m : q.fields[j] = "length"
ConnIs(c, q, m) ==
    \/ c = "none" /\ \A j \in 1..m : j \notin ConnFields(q)
    \/ \E j \in 1..m : /\ j \in ConnFields(q) /\ c = q.fields[j]
                       /\ \A i \in ConnFields(q) : i <= m => i <= j

(* A parser p that has read the request line of request k and m of its      *)
(* fields.                                                                  *)
HasRead(p, k, q, m) ==
    /\ p.temp = <<>> /\ p.got = 0
    /\ p.req.line = k /\ p.req.v10 = q.v10 /\ p.req.body = <<>>
    /\ p.req.len = IF HasLength(q, m) THEN q.len ELSE 0
    /\ ConnIs(p.req.conn, q, m)
    /\ \A j \in 1..m : GoodField(q, j)

(* The parser p is at place n of the text of request k; a read that ends in *)
(* the body is the end of what is said.                                     *)
ParserAt(p, n, k, q, last) ==
    \/ p = Fresh /\ n = 0
    \/ /\ p.state = "header"
       /\ \E m \in 0..Len(q.fields) : n = 3 + 2 * m /\ HasRead(p, k, q, m)
    \/ /\ p.state = "body"
       /\ n < last => n = 4 + 2 * Len(q.fields) /\ HasRead(p, k, q, Len(q.fields))
    \/ p.state = "complete" /\ p.req = Meant(k, q) /\ n = Len(RequestText(k, q))
    \/ p.state = "error" /\ ~WellFormed(q)

HandedInv == \A i \in DOMAIN handed : i <= Len(reqs) /\ handed[i] = Meant(i, reqs[i])
BadInv ==
    why = "bad" => /\ ~running /\ rpc = "idle" /\ Len(handed) < Len(reqs)
                   /\ ~WellFormed(reqs[Len(handed) + 1])
ViewInv ==
    rpc \in {"parse", "result"} =>
        /\ Len(handed) < Len(reqs)
        /\ Before(Len(handed)) + Len(view) <= Len(StreamText(reqs))
        /\ \A i \in 1..Len(view) : view[i] = StreamText(reqs)[Before(Len(handed)) + i]
        /\ running => buf = view
        /\ rpc = "parse" \/ parser.state = "complete" =>
               ParserAt(parser, pos, Len(handed) + 1, reqs[Len(handed) + 1], Len(view))
WireInv ==
    running =>
        /\ Before(Len(handed)) + Len(buf) + Len(wire) = Len(StreamText(reqs))
        /\ \A i \in 1..Len(wire) :
               wire[i] = StreamText(reqs)[Before(Len(handed)) + Len(buf) + i]
        /\ rpc \in {"idle", "serve"} => buf = <<>> /\ parser = Fresh

Uncut == HandedInv /\ BadInv /\ ViewInv /\ WireInv
UncutInv == ~cut => Uncut

(* The text of the first requests begins the text of more of them.          *)
LEMMA TextsGrow ==
  ASSUME NEW qs \in Streams, NEW k \in 0..Len(qs)
  PROVE  \A n \in k..Len(qs) :
             /\ Len(Texts(qs)[k]) <= Len(Texts(qs)[n])
             /\ \A i \in 1..Len(Texts(qs)[k]) : Texts(qs)[n][i] = Texts(qs)[k][i]
<1> DEFINE f == Texts(qs)
           Begins(n) == /\ Len(f[k]) <= Len(f[n])
                        /\ \A i \in 1..Len(f[k]) : f[n][i] = f[k][i]
           G == {n \in Nat : k + n <= Len(qs) => Begins(k + n)}
<1>1. /\ Len(qs) \in Nat /\ k \in Nat /\ \A n \in 0..Len(qs) : f[n] \in Seq(Piece)
      /\ \A i \in 1..Len(qs) : qs[i] \in Shape
      /\ Len(f[k]) \in Nat
  BY TextsType, SeqBasics
<1>2. ASSUME NEW i \in 1..Len(qs) PROVE f[i] = f[i - 1] \o RequestText(i, qs[i])
  <2>1. i \in 0..Len(qs) /\ i # 0
    BY <1>1
  <2> QED
    BY <1>1, <2>1, TextsOf
<1> HIDE DEF f
<1>3. 0 \in G
  BY <1>1
<1>4. ASSUME NEW n \in Nat, n \in G PROVE n + 1 \in G
  <2> SUFFICES ASSUME k + (n + 1) <= Len(qs) PROVE Begins(k + (n + 1))
    OBVIOUS
  <2> DEFINE a == k + n
             b == k + (n + 1)
  <2>1. Begins(a) /\ a \in 0..Len(qs) /\ b \in 1..Len(qs) /\ b - 1 = a /\ b \in Nat
    BY <1>1, <1>4
  <2> HIDE DEF a, b
  <2>2. f[b] = f[a] \o RequestText(b, qs[b])
    BY <1>2, <2>1
  <2>3. RequestText(b, qs[b]) \in Seq(Piece) /\ f[a] \in Seq(Piece)
    BY <1>1, <2>1, RequestPieces
  <2>4. /\ Len(f[b]) = Len(f[a]) + Len(RequestText(b, qs[b]))
        /\ \A i \in 1..Len(f[a]) : f[b][i] = f[a][i]
        /\ Len(f[a]) \in Nat /\ Len(RequestText(b, qs[b])) \in Nat
    <3> DEFINE s == f[a]
               t == RequestText(b, qs[b])
    <3>1. s \in Seq(Piece) /\ t \in Seq(Piece) /\ f[b] = s \o t
      BY <2>2, <2>3
    <3> HIDE DEF s, t
    <3>2. /\ Len(s \o t) = Len(s) + Len(t) /\ Len(s) \in Nat /\ Len(t) \in Nat
          /\ \A i \in 1..Len(s) : (s \o t)[i] = s[i]
      BY <3>1, Parts, SeqBasics
    <3> QED
      BY <3>1, <3>2 DEF s, t
  <2>5. \A i \in 1..Len(f[k]) : i \in 1..Len(f[a])
    BY <1>1, <2>1, <2>4
  <2>6. Len(f[k]) <= Len(f[b])
    <3>1. Len(f[k]) <= Len(f[a]) /\ Len(f[k]) \in Nat
      BY <1>1, <2>1
    <3>2. \A x, y, z, u \in Nat : x <= y /\ z = y + u => x <= z
      OBVIOUS
    <3>3. Len(f[b]) \in Nat
      BY <1>1, <2>1, SeqBasics
    <3> QED
      BY <2>4, <3>1, <3>2, <3>3
  <2>7. \A i \in 1..Len(f[k]) : f[b][i] = f[k][i]
    BY <2>1, <2>4, <2>5
  <2> QED
    BY <2>6, <2>7 DEF b
<1> HIDE DEF G
<1>5. Nat \subseteq G
  BY <1>3, <1>4, Induct
<1>6. ASSUME NEW n \in k..Len(qs) PROVE Begins(n)
  <2>1. n - k \in Nat /\ k + (n - k) = n /\ n <= Len(qs)
    BY <1>1, <1>6
  <2> DEFINE d == n - k
  <2>2. d \in G /\ k + d = n
    BY <1>5, <2>1
  <2> HIDE DEF d
  <2>3. Begins(k + d)
    BY <2>1, <2>2 DEF G
  <2> QED
    BY <2>2, <2>3
<1> QED
  BY <1>6 DEF f

(* Where the text of a request is in the stream.                            *)
LEMMA Placed ==
  ASSUME NEW qs \in Streams, NEW k \in 1..Len(qs)
  PROVE  /\ Len(Texts(qs)[k - 1]) \in Nat
         /\ Len(Texts(qs)[k]) = Len(Texts(qs)[k - 1]) + Len(RequestText(k, qs[k]))
         /\ Len(Texts(qs)[k]) <= Len(StreamText(qs))
         /\ RequestText(k, qs[k]) \in Seq(Piece)
         /\ \A i \in 1..Len(RequestText(k, qs[k])) :
                StreamText(qs)[Len(Texts(qs)[k - 1]) + i] = RequestText(k, qs[k])[i]
<1> DEFINE f == Texts(qs)
           T == RequestText(k, qs[k])
<1>1. /\ Len(qs) \in Nat /\ k \in 0..Len(qs) /\ k - 1 \in 0..Len(qs) /\ Len(qs) \in k..Len(qs)
      /\ \A n \in 0..Len(qs) : f[n] \in Seq(Piece)
      /\ qs[k] \in Shape /\ k \in Nat
      /\ StreamText(qs) = f[Len(qs)]
  BY TextsType
<1>2. f[k] = f[k - 1] \o T
  <2>1. k # 0
    OBVIOUS
  <2> QED
    BY <1>1, <2>1, TextsOf
<1>3. T \in Seq(Piece) /\ f[k - 1] \in Seq(Piece)
  BY <1>1, RequestPieces
<1>4. /\ Len(f[k]) <= Len(f[Len(qs)])
      /\ \A i \in 1..Len(f[k]) : f[Len(qs)][i] = f[k][i]
  BY <1>1, TextsGrow
<1> HIDE DEF f, T
<1>5. /\ Len(f[k]) = Len(f[k - 1]) + Len(T) /\ Len(f[k - 1]) \in Nat /\ Len(T) \in Nat
      /\ \A i \in 1..Len(T) : f[k][Len(f[k - 1]) + i] = T[i]
  <2> DEFINE s == f[k - 1]
  <2>1. s \in Seq(Piece) /\ T \in Seq(Piece)
    BY <1>3
  <2> HIDE DEF s
  <2>2. /\ Len(s \o T) = Len(s) + Len(T) /\ Len(s) \in Nat /\ Len(T) \in Nat
        /\ \A i \in 1..Len(T) : (s \o T)[Len(s) + i] = T[i]
    BY <2>1, Parts, SeqBasics
  <2> QED
    BY <1>2, <2>2 DEF s
<1>6. \A i \in 1..Len(T) : Len(f[k - 1]) + i \in 1..Len(f[k])
  BY <1>5
<1>7. \A i \in 1..Len(T) : f[Len(qs)][Len(f[k - 1]) + i] = T[i]
  BY <1>4, <1>5, <1>6
<1>8. StreamText(qs) = f[Len(qs)]
  BY <1>1
<1> QED
  BY <1>3, <1>4, <1>5, <1>7, <1>8 DEF f, T

(* The first one or two pieces of a text.                                   *)
LEMMA FirstPieces ==
  ASSUME NEW v \in Seq(Piece)
  PROVE  /\ Len(v) >= 1 => SubSeq(v, 1, 1) = <<v[1]>>
         /\ Len(v) >= 2 => SubSeq(v, 1, 2) = <<v[1], v[2]>>
<1>1. ASSUME Len(v) >= 1 PROVE SubSeq(v, 1, 1) = <<v[1]>>
  <2> DEFINE s == SubSeq(v, 1, 1)
             t == <<v[1]>>
  <2>1. 1 \in 0..Len(v) /\ v[1] \in Piece
    BY <1>1
  <2>2. s \in Seq(Piece) /\ Len(s) = 1
    BY <2>1, CutAt
  <2>3. s[1] = v[1]
    BY <1>1
  <2>4. t \in Seq(Piece) /\ Len(t) = 1 /\ t[1] = v[1]
    BY <2>1
  <2> HIDE DEF s, t
  <2>5. \A i \in 1..1 : s[i] = t[i]
    BY <2>3, <2>4
  <2>6. s = t
    BY <2>2, <2>4, <2>5, SeqEqual
  <2> QED
    BY <2>6 DEF s, t
<1>2. ASSUME Len(v) >= 2 PROVE SubSeq(v, 1, 2) = <<v[1], v[2]>>
  <2> DEFINE s == SubSeq(v, 1, 2)
             t == <<v[1], v[2]>>
  <2>1. 2 \in 0..Len(v) /\ v[1] \in Piece /\ v[2] \in Piece
    BY <1>2
  <2>2. s \in Seq(Piece) /\ Len(s) = 2
    BY <2>1, CutAt
  <2>3. s[1] = v[1] /\ s[2] = v[2]
    BY <1>2
  <2>4. t \in Seq(Piece) /\ Len(t) = 2 /\ t[1] = v[1] /\ t[2] = v[2]
    BY <2>1
  <2> HIDE DEF s, t
  <2>5. \A i \in 1..2 : s[i] = t[i]
    BY <2>3, <2>4
  <2>6. s = t
    BY <2>2, <2>4, <2>5, SeqEqual
  <2> QED
    BY <2>6 DEF s, t
<1> QED
  BY <1>1, <1>2

(* The end of the line, in a text that begins like the rest of a request.   *)
LEMMA EndIs ==
  ASSUME NEW v \in Seq(Piece), NEW e \in 1..Len(v), v[e].kind = "crlf",
         \A i \in 1..(e - 1) : v[i].kind # "crlf"
  PROVE  EndOfLine(v) = e
<1>1. Len(v) \in Nat /\ DOMAIN v = 1..Len(v)
  BY SeqBasics
<1> DEFINE x == EndOfLine(v)
<1>2. /\ x \in 0..Len(v) /\ (x = 0 => \A i \in DOMAIN v : v[i].kind # "crlf")
      /\ x # 0 => v[x].kind = "crlf" /\ \A i \in 1..(x - 1) : v[i].kind # "crlf"
  BY EndOfLineFirst
<1> HIDE DEF x
<1>3. x # 0
  BY <1>1, <1>2
<1>4. ~(x < e) /\ ~(e < x)
  <2>1. x < e => x \in 1..(e - 1)
    BY <1>1, <1>2, <1>3
  <2>2. e < x => e \in 1..(x - 1)
    BY <1>1, <1>2
  <2> QED
    BY <1>2, <1>3, <2>1, <2>2
<1>5. x = e
  BY <1>1, <1>2, <1>4
<1> QED
  BY <1>5 DEF x

(* The lines of a request: its request line, a field, the blank line.       *)
LEMMA LineRead ==
  ASSUME NEW k \in Nat, NEW q \in Shape, NEW v \in Seq(Piece), EndOfLine(v) # 0,
         \A i \in 1..Len(v) : i <= Len(RequestText(k, q)) => v[i] = RequestText(k, q)[i]
  PROVE  EndOfLine(v) = 3 /\ SubSeq(v, 1, 2) = <<RequestText(k, q)[1], RequestText(k, q)[2]>>
<1> DEFINE T == RequestText(k, q)
           x == EndOfLine(v)
<1>1. /\ Len(T) \in Nat /\ Len(T) >= 3 /\ T[1].kind # "crlf" /\ T[2].kind # "crlf"
      /\ T[3].kind = "crlf"
  <2>1. /\ Len(T) = 4 + 2 * Len(q.fields) + q.len /\ Len(q.fields) \in Nat /\ q.len \in Nat
        /\ T[1] = [kind |-> "start", of |-> k, val |-> 0]
        /\ T[2] = [kind |-> IF q.v10 THEN "http10" ELSE "http11", of |-> k, val |-> 0]
        /\ T[3].kind = "crlf"
    BY RequestPieces
  <2> HIDE DEF T
  <2> QED
    BY <2>1
<1>2. x \in 1..Len(v) /\ v[x].kind = "crlf" /\ Len(v) \in Nat
  BY EndOfLineFirst, SeqBasics
<1>3. \A i \in 1..Len(v) : i <= 3 => v[i] = T[i]
  BY <1>1, <1>2
<1> HIDE DEF T, x
<1>4. x >= 3
  BY <1>1, <1>2, <1>3
<1>5. v[1] = T[1] /\ v[2] = T[2] /\ v[3] = T[3] /\ 3 \in 1..Len(v)
  BY <1>2, <1>3, <1>4
<1>6. \A i \in 1..(3 - 1) : v[i].kind # "crlf"
  BY <1>1, <1>5
<1>7. EndOfLine(v) = 3
  BY <1>1, <1>5, <1>6, EndIs
<1>8. SubSeq(v, 1, 2) = <<v[1], v[2]>>
  <2>1. Len(v) >= 2
    BY <1>2, <1>5
  <2> QED
    BY <2>1, FirstPieces
<1> QED
  BY <1>5, <1>7, <1>8 DEF T

(* A field is a line of one piece.                                          *)
LEMMA FieldRead ==
  ASSUME NEW k \in Nat, NEW q \in Shape, NEW v \in Seq(Piece), EndOfLine(v) # 0,
         NEW m \in 0..(Len(q.fields) - 1),
         \A i \in 1..Len(v) : 3 + 2 * m + i <= Len(RequestText(k, q)) =>
                                  v[i] = RequestText(k, q)[3 + 2 * m + i]
  PROVE  /\ EndOfLine(v) = 2
         /\ SubSeq(v, 1, 1) = <<[kind |-> q.fields[m + 1], of |-> k, val |-> q.len]>>
<1> DEFINE T == RequestText(k, q)
           x == EndOfLine(v)
           f == [kind |-> q.fields[m + 1], of |-> k, val |-> q.len]
           n == m + 1
<1>1. /\ Len(T) = 4 + 2 * Len(q.fields) + q.len /\ Len(q.fields) \in Nat /\ q.len \in Nat
      /\ n \in 1..Len(q.fields) /\ n = m + 1
  <2>1. /\ Len(T) = 4 + 2 * Len(q.fields) + q.len /\ Len(q.fields) \in Nat /\ q.len \in Nat
    BY RequestPieces
  <2> QED
    BY <2>1
<1>2. T[2 + 2 * n] = f /\ T[3 + 2 * n].kind = "crlf"
  BY <1>1, RequestPieces
<1>3. f.kind # "crlf"
  <2>1. q.fields[m + 1] \in Fields \cup {"nocolon"}
    BY <1>1 DEF Shape
  <2> QED
    BY <2>1 DEF Fields
<1>4. x \in 1..Len(v) /\ v[x].kind = "crlf" /\ Len(v) \in Nat
  BY EndOfLineFirst, SeqBasics
<1>5. /\ 3 + 2 * m + 1 = 2 + 2 * n /\ 3 + 2 * m + 2 = 3 + 2 * n
      /\ 3 + 2 * m + 1 <= Len(T) /\ 3 + 2 * m + 2 <= Len(T)
  BY <1>1
<1>6. \A i \in 1..Len(v) : 3 + 2 * m + i <= Len(T) => v[i] = T[3 + 2 * m + i]
  OBVIOUS
<1> HIDE DEF T, x, f, n
<1>7. 1 \in 1..Len(v) /\ v[1] = f
  BY <1>2, <1>4, <1>5, <1>6
<1>8. x # 1 /\ 2 \in 1..Len(v)
  BY <1>3, <1>4, <1>7
<1>9. v[2].kind = "crlf"
  BY <1>2, <1>5, <1>6, <1>8
<1>10. \A i \in 1..(2 - 1) : v[i].kind # "crlf"
  BY <1>3, <1>7
<1>11. EndOfLine(v) = 2
  BY <1>8, <1>9, <1>10, EndIs
<1>12. SubSeq(v, 1, 1) = <<v[1]>>
  <2>1. Len(v) >= 1
    BY <1>4, <1>7
  <2> QED
    BY <2>1, FirstPieces
<1> QED
  BY <1>7, <1>11, <1>12 DEF f

(* The blank line is empty.                                                 *)
LEMMA BlankRead ==
  ASSUME NEW k \in Nat, NEW q \in Shape, NEW v \in Seq(Piece), Len(v) > 0,
         \A i \in 1..Len(v) : 3 + 2 * Len(q.fields) + i <= Len(RequestText(k, q)) =>
                                  v[i] = RequestText(k, q)[3 + 2 * Len(q.fields) + i]
  PROVE  EndOfLine(v) = 1 /\ SubSeq(v, 1, 0) = <<>>
<1> DEFINE T == RequestText(k, q)
           L == Len(q.fields)
<1>1. Len(T) = 4 + 2 * L + q.len /\ L \in Nat /\ q.len \in Nat /\ T[4 + 2 * L].kind = "crlf"
  BY RequestPieces
<1>2. Len(v) \in Nat /\ 1 \in 1..Len(v)
  BY SeqBasics
<1>3. \A i \in 1..Len(v) : 3 + 2 * L + i <= Len(T) => v[i] = T[3 + 2 * L + i]
  OBVIOUS
<1> HIDE DEF T, L
<1>4. 3 + 2 * L + 1 = 4 + 2 * L /\ 3 + 2 * L + 1 <= Len(T)
  BY <1>1
<1>5. v[1].kind = "crlf"
  BY <1>1, <1>2, <1>3, <1>4
<1>6. \A i \in 1..(1 - 1) : v[i].kind # "crlf"
  OBVIOUS
<1>7. EndOfLine(v) = 1
  BY <1>2, <1>5, <1>6, EndIs
<1> QED
  BY <1>7

(* What the turns of parse() make of a request, piece by piece: the request *)
(* line ...                                                                 *)
LEMMA LineTaken ==
  ASSUME NEW k \in Nat, NEW q \in Shape, NEW line,
         line = <<[kind |-> "start", of |-> k, val |-> 0],
                  [kind |-> IF q.v10 THEN "http10" ELSE "http11", of |-> k, val |-> 0]>>
  PROVE  /\ RequestLineVerdicts(line) = {TRUE}
         /\ TakeRequestLine(Fresh, line, TRUE).state = "header"
         /\ HasRead(TakeRequestLine(Fresh, line, TRUE), k, q, 0)
<1> DEFINE p == TakeRequestLine(Fresh, line, TRUE)
<1>1. /\ Len(line) = 2 /\ line[1].kind = "start" /\ line[1].of = k /\ line[2].of = k
      /\ line[2].kind = (IF q.v10 THEN "http10" ELSE "http11")
  OBVIOUS
<1>2. Whole(line)
  BY <1>1 DEF Whole
<1>3. (line[2].kind = "http10") = q.v10
  BY <1>1 DEF Shape
<1>4. /\ p.state = "header" /\ p.temp = <<>> /\ p.got = 0 /\ p.req.line = k
      /\ p.req.v10 = q.v10 /\ p.req.body = <<>> /\ p.req.len = 0 /\ p.req.conn = "none"
  BY <1>1, <1>2, <1>3 DEF TakeRequestLine, Fresh, NoRequest, Shape
<1> HIDE DEF p
<1>5. HasRead(p, k, q, 0)
  <2>1. 1..0 = {}
    OBVIOUS
  <2> QED
    BY <1>4, <2>1 DEF HasRead, HasLength, ConnIs
<1> QED
  BY <1>2, <1>4, <1>5 DEF RequestLineVerdicts, p

(* ... a field ...                                                          *)
LEMMA FieldTaken ==
  ASSUME NEW k \in Nat, NEW q \in Shape, NEW m \in 0..(Len(q.fields) - 1), NEW p \in Parser,
         p.state = "header", HasRead(p, k, q, m), NEW line,
         line = <<[kind |-> q.fields[m + 1], of |-> k, val |-> q.len]>>
  PROVE  \/ TakeHeader(p, line).state = "header" /\ HasRead(TakeHeader(p, line), k, q, m + 1)
         \/ TakeHeader(p, line).state = "error" /\ ~WellFormed(q)
<1> DEFINE n == m + 1
           f == q.fields[n]
           r == TakeHeader(p, line)
<1>1. /\ Len(line) = 1 /\ line[1].kind = f /\ line[1].val = q.len /\ DOMAIN line = {1}
  OBVIOUS
<1>2. /\ n \in 1..Len(q.fields) /\ q.len \in Nat /\ m \in Nat /\ n \in Nat
      /\ DOMAIN q.fields = 1..Len(q.fields)
      /\ f \in Fields \cup {"nocolon"}
  <2>1. q.fields \in Seq(Fields \cup {"nocolon"}) /\ q.len \in Nat /\ Len(q.fields) \in Nat
        /\ DOMAIN q.fields = 1..Len(q.fields)
    BY SeqBasics DEF Shape
  <2>2. n \in 1..Len(q.fields)
    BY <2>1
  <2> QED
    BY <2>1, <2>2
<1>3. \A j \in 1..n : j \in 1..m \/ j = n
  BY <1>2
<1>4. \A j \in 1..m : j \in 1..n /\ j <= n /\ j # n
  BY <1>2
<1> HIDE DEF n
<1>5. GoodHeader(line) <=> GoodField(q, n)
  <2>1. Colons(line) # {} <=> f \in Fields
    BY <1>1 DEF Colons
  <2>2. f \in Fields <=> f # "nocolon"
    BY <1>2 DEF Fields
  <2> QED
    BY <1>1, <2>1, <2>2 DEF GoodHeader, GoodField
<1>6. /\ r.state = (IF GoodHeader(line) THEN "header" ELSE "error")
      /\ r.temp = <<>> /\ r.got = p.got /\ r.req.line = p.req.line /\ r.req.v10 = p.req.v10
      /\ r.req.body = p.req.body
      /\ r.req.len = (IF f = "length" THEN q.len ELSE p.req.len)
      /\ r.req.conn = (IF f \in {"close", "keepalive"} THEN f ELSE p.req.conn)
  BY <1>1 DEF TakeHeader, Parser, Request
<1> HIDE DEF r
<1>7. CASE ~GoodField(q, n)
  <2>1. ~WellFormed(q)
    BY <1>2, <1>7 DEF GoodField, WellFormed
  <2> QED
    BY <1>5, <1>6, <1>7, <2>1 DEF r
<1>8. CASE GoodField(q, n)
  <2>1. HasLength(q, n) <=> HasLength(q, m) \/ f = "length"
    BY <1>2, <1>3, <1>4 DEF HasLength
  <2>2. r.req.len = IF HasLength(q, n) THEN q.len ELSE 0
    BY <1>6, <2>1 DEF HasRead
  <2>3. ConnIs(r.req.conn, q, n)
    <3>1. CASE f \in {"close", "keepalive"}
      <4>1. n \in ConnFields(q) /\ n \in 1..n /\ r.req.conn = q.fields[n]
        BY <1>2, <1>6, <3>1 DEF ConnFields
      <4> QED
        BY <4>1 DEF ConnIs
    <3>2. CASE f \notin {"close", "keepalive"}
      <4>1. n \notin ConnFields(q) /\ r.req.conn = p.req.conn /\ ConnIs(p.req.conn, q, m)
        BY <1>6, <3>2 DEF ConnFields, HasRead
      <4>2. CASE p.req.conn = "none" /\ \A j \in 1..m : j \notin ConnFields(q)
        BY <1>3, <4>1, <4>2 DEF ConnIs
      <4>3. CASE \E j \in 1..m : /\ j \in ConnFields(q) /\ p.req.conn = q.fields[j]
                                 /\ \A i \in ConnFields(q) : i <= m => i <= j
        <5>1. PICK j \in 1..m : /\ j \in ConnFields(q) /\ p.req.conn = q.fields[j]
                                /\ \A i \in ConnFields(q) : i <= m => i <= j
          BY <4>3
        <5>2. \A i \in ConnFields(q) : i <= n => i <= m
          <6>1. \A i \in Nat : i <= n /\ i # n => i <= m
            BY <1>2 DEF n
          <6>2. ConnFields(q) \subseteq Nat
            BY <1>2 DEF ConnFields
          <6> QED
            BY <4>1, <6>1, <6>2
        <5> QED
          BY <1>4, <4>1, <5>1, <5>2 DEF ConnIs
      <4> QED
        BY <4>1, <4>2, <4>3 DEF ConnIs
    <3> QED
      BY <3>1, <3>2
  <2>4. \A j \in 1..n : GoodField(q, j)
    BY <1>3, <1>8 DEF HasRead
  <2>5. HasRead(r, k, q, n)
    BY <1>6, <2>2, <2>3, <2>4 DEF HasRead
  <2> QED
    BY <1>5, <1>6, <1>8, <2>5 DEF r, n
<1> QED
  BY <1>7, <1>8

(* The request of a parser that has read all fields, with the body it       *)
(* should have, is the one that was meant.                                  *)
LEMMA AllRead ==
  ASSUME NEW k \in Nat, NEW q \in Shape, NEW p \in Parser, NEW r \in Request,
         HasRead(p, k, q, Len(q.fields)), (q.len > 0) = HasLength(q, Len(q.fields)),
         r.line = p.req.line, r.v10 = p.req.v10, r.conn = p.req.conn, r.len = p.req.len,
         r.body = Body(k, q.len)
  PROVE  p.req.len = q.len /\ r = Meant(k, q)
<1> DEFINE L == Len(q.fields)
           c == IF ConnFields(q) = {} THEN "none"
                ELSE q.fields[CHOOSE j \in ConnFields(q) : \A m \in ConnFields(q) : m <= j]
<1>1. p.req.len = q.len
  <2>1. q.len \in Nat /\ (q.len > 0 <=> HasLength(q, L))
    BY DEF Shape
  <2>2. p.req.len = IF HasLength(q, L) THEN q.len ELSE 0
    BY DEF HasRead
  <2>3. ~HasLength(q, L) => q.len = 0
    BY <2>1
  <2> QED
    BY <2>2, <2>3
<1>2. DOMAIN q.fields = 1..L /\ L \in Nat /\ ConnFields(q) \subseteq 1..L
  BY SeqBasics DEF ConnFields, Shape
<1>3. ConnIs(p.req.conn, q, L)
  BY DEF HasRead
<1>4. p.req.conn = c
  <2>1. CASE p.req.conn = "none" /\ \A j \in 1..L : j \notin ConnFields(q)
    BY <1>2, <2>1
  <2>2. CASE \E j \in 1..L : /\ j \in ConnFields(q) /\ p.req.conn = q.fields[j]
                             /\ \A i \in ConnFields(q) : i <= L => i <= j
    <3>1. PICK j \in 1..L : /\ j \in ConnFields(q) /\ p.req.conn = q.fields[j]
                            /\ \A i \in ConnFields(q) : i <= L => i <= j
      BY <2>2
    <3>2. \A i \in ConnFields(q) : i <= j
      BY <1>2, <3>1
    <3> DEFINE x == CHOOSE j2 \in ConnFields(q) : \A m \in ConnFields(q) : m <= j2
    <3>3. x \in ConnFields(q) /\ \A m \in ConnFields(q) : m <= x
      BY <3>1, <3>2
    <3> HIDE DEF x
    <3>4. x = j
      BY <1>2, <3>1, <3>2, <3>3
    <3> QED
      BY <3>1, <3>4 DEF x
  <2> QED
    BY <1>3, <2>1, <2>2 DEF ConnIs
<1>5. Meant(k, q) = [line |-> k, v10 |-> q.v10, len |-> q.len, body |-> Body(k, q.len), conn |-> c]
  BY DEF Meant
<1> HIDE DEF c
<1>6. r.line = k /\ r.v10 = q.v10 /\ r.len = q.len /\ r.conn = c
  BY <1>1, <1>4 DEF HasRead
<1>7. r = [line |-> r.line, v10 |-> r.v10, conn |-> r.conn, len |-> r.len, body |-> r.body]
  BY DEF Request
<1>8. r = [line |-> k, v10 |-> q.v10, conn |-> c, len |-> q.len, body |-> Body(k, q.len)]
  BY <1>6, <1>7
<1> QED
  BY <1>1, <1>5, <1>8

(* ... the blank line ...                                                   *)
LEMMA BlankTaken ==
  ASSUME NEW k \in Nat, NEW q \in Shape, NEW p \in Parser,
         HasRead(p, k, q, Len(q.fields)), (q.len > 0) = HasLength(q, Len(q.fields))
  PROVE  \/ /\ TakeBlankLine(p).state = "body"
            /\ HasRead(TakeBlankLine(p), k, q, Len(q.fields))
         \/ TakeBlankLine(p).state = "complete" /\ TakeBlankLine(p).req = Meant(k, q) /\ q.len = 0
<1> DEFINE r == TakeBlankLine(p)
<1>1. /\ r.state = (IF p.req.len > 0 THEN "body" ELSE "complete")
      /\ r.temp = <<>> /\ r.req = p.req /\ r.got = p.got
  BY DEF TakeBlankLine, Parser
<1>2. q.len \in Nat /\ p.req \in Request /\ p.req.len \in Nat
  BY DEF Shape, Parser, Request
<1>3. p.req.len = IF HasLength(q, Len(q.fields)) THEN q.len ELSE 0
  BY DEF HasRead
<1> HIDE DEF r
<1>4. CASE p.req.len > 0
  BY <1>1, <1>4 DEF HasRead, r
<1>5. CASE ~(p.req.len > 0)
  <2>1. q.len = 0
    <3>1. q.len > 0 <=> HasLength(q, Len(q.fields))
      OBVIOUS
    <3> QED
      BY <1>2, <1>3, <1>5, <3>1
  <2>2. p.req.body = Body(k, q.len)
    <3>1. p.req.body = <<>>
      BY DEF HasRead
    <3>2. Body(k, 0) = <<>>
      BY DEF Body
    <3> QED
      BY <2>1, <3>1, <3>2
  <2>3. p.req = Meant(k, q)
    BY <1>2, <2>2, AllRead
  <2> QED
    BY <1>1, <1>5, <2>1, <2>3 DEF r
<1> QED
  BY <1>4, <1>5

(* ... and the body, if all of it is there.                                 *)
LEMMA BodyRead ==
  ASSUME NEW k \in Nat, NEW q \in Shape, NEW p \in Parser, NEW v \in Seq(Piece),
         p.state = "body", HasRead(p, k, q, Len(q.fields)),
         (q.len > 0) = HasLength(q, Len(q.fields)),
         \A i \in 1..Len(v) : 4 + 2 * Len(q.fields) + i <= Len(RequestText(k, q)) =>
                                  v[i] = RequestText(k, q)[4 + 2 * Len(q.fields) + i]
  PROVE  \/ TakeBody(p, v).state = "body" /\ BodyTaken(p, v) = Len(v)
         \/ /\ TakeBody(p, v).state = "complete" /\ BodyTaken(p, v) = q.len
            /\ TakeBody(p, v).req = Meant(k, q)
<1> DEFINE L == Len(q.fields)
           T == RequestText(k, q)
           n == BodyTaken(p, v)
           r == TakeBody(p, v)
           b == SubSeq(v, 1, n)
<1>1. /\ Len(T) = 4 + 2 * L + q.len /\ L \in Nat /\ q.len \in Nat
      /\ \A i \in 1..q.len : T[4 + 2 * L + i] = Body(k, q.len)[i]
  BY RequestPieces
<1>2. p.req.len = q.len /\ p.got = 0 /\ p.req.body = <<>>
  <2>1. q.len > 0 <=> HasLength(q, L)
    OBVIOUS
  <2>2. ~HasLength(q, L) => q.len = 0
    BY <1>1, <2>1
  <2> QED
    BY <2>2 DEF HasRead
<1>3. n = (IF q.len < Len(v) THEN q.len ELSE Len(v)) /\ Len(v) \in Nat
  BY <1>1, <1>2, SeqBasics DEF BodyTaken
<1>4. n \in 0..Len(v) /\ n \in Nat /\ n <= q.len
  BY <1>1, <1>3
<1>5. /\ r.state = (IF n >= q.len THEN "complete" ELSE "body")
      /\ r.req = [p.req EXCEPT !.body = <<>> \o b]
  <2> HIDE DEF n
  <2>1. TakeBody(p, v) =
          [p EXCEPT !.req.body = @ \o SubSeq(v, 1, n), !.got = @ + n,
                    !.state = IF p.got + n >= p.req.len THEN "complete" ELSE @]
    BY DEF TakeBody, n
  <2>2. p.got + n >= p.req.len <=> n >= q.len
    BY <1>1, <1>2, <1>4
  <2> HIDE DEF b
  <2>3. TakeBody(p, v) =
          [p EXCEPT !.req.body = <<>> \o b, !.got = @ + n,
                    !.state = IF n >= q.len THEN "complete" ELSE "body"]
    BY <1>2, <2>1, <2>2 DEF Parser, Request, b
  <2> QED
    BY <2>3 DEF Parser, Request
<1>6. CASE n < q.len
  BY <1>1, <1>3, <1>4, <1>5, <1>6
<1>7. CASE n = q.len
  <2>1. b \in Seq(Piece) /\ Len(b) = q.len
    BY <1>4, <1>7, CutAt
  <2>2. \A i \in 1..q.len : b[i] = v[i]
    BY <1>3, <1>4, <1>7
  <2>3. \A i \in 1..q.len : v[i] = Body(k, q.len)[i]
    <3>1. \A i \in 1..q.len : i \in 1..Len(v) /\ 4 + 2 * L + i <= Len(T)
      BY <1>1, <1>3, <1>4, <1>7
    <3> HIDE DEF T, L
    <3> QED
      BY <1>1, <3>1 DEF T, L
  <2>4. Body(k, q.len) \in Seq(Piece) /\ Len(Body(k, q.len)) = q.len
    BY <1>1, BodyType
  <2> HIDE DEF b, n
  <2>5. \A i \in 1..q.len : b[i] = Body(k, q.len)[i]
    BY <2>2, <2>3
  <2>6. b = Body(k, q.len)
    BY <2>1, <2>4, <2>5, SeqEqual
  <2>7. <<>> \o b = b
    BY <2>1
  <2> HIDE DEF r
  <2>8. /\ r.req \in Request /\ r.req.line = p.req.line /\ r.req.v10 = p.req.v10
        /\ r.req.conn = p.req.conn /\ r.req.len = p.req.len /\ r.req.body = b
    <3>1. p.req \in Request
      BY DEF Parser
    <3>2. r.req = [p.req EXCEPT !.body = b]
      BY <1>5, <2>7
    <3> QED
      BY <2>1, <3>1, <3>2 DEF Request
  <2>9. r.req = Meant(k, q)
    BY <2>6, <2>8, AllRead
  <2>10. r.state = "complete"
    BY <1>1, <1>5, <1>7
  <2> QED
    BY <1>7, <2>9, <2>10 DEF r, n
<1> QED
  BY <1>1, <1>4, <1>6, <1>7

(* The request that is next, and where its text begins.                     *)
LEMMA NextText ==
  ASSUME TypeOK, Len(handed) < Len(reqs)
  PROVE  LET k == Len(handed) + 1
             q == reqs[k]
             T == RequestText(k, q)
         IN /\ k \in Nat /\ k \in 1..Len(reqs) /\ q \in Shape
            /\ (q.len > 0) = HasLength(q, Len(q.fields))
            /\ Before(Len(handed)) \in Nat /\ T \in Seq(Piece) /\ Len(T) \in Nat
            /\ Before(k) = Before(Len(handed)) + Len(T)
            /\ Before(k) <= Len(StreamText(reqs)) /\ Len(StreamText(reqs)) \in Nat
            /\ \A i \in 1..Len(T) : StreamText(reqs)[Before(Len(handed)) + i] = T[i]
<1> DEFINE k == Len(handed) + 1
           q == reqs[k]
           T == RequestText(k, q)
           h == Len(handed)
<1>1. reqs \in Streams /\ h \in Nat /\ Len(reqs) \in Nat /\ h < Len(reqs)
  BY TextsType, SeqBasics DEF TypeOK
<1>2. k \in Nat /\ k \in 1..Len(reqs) /\ k - 1 = h
  BY <1>1
<1>3. q \in Shape /\ StreamText(reqs) \in Seq(Piece) /\ reqs \in Seq(Shape)
  BY <1>1, <1>2, TextsType, PipelineAssumption
<1>4. (q.len > 0) = HasLength(q, Len(q.fields))
  <2>1. DOMAIN reqs = 1..Len(reqs) /\ DOMAIN q.fields = 1..Len(q.fields)
    BY <1>3, SeqBasics DEF Shape
  <2>2. (q.len > 0) = (\E j \in DOMAIN q.fields : q.fields[j] = "length")
    BY <1>1, <1>2, <2>1, PipelineAssumption
  <2> QED
    BY <2>1, <2>2 DEF HasLength
<1> HIDE DEF k, q, h
<1>5. /\ Len(Texts(reqs)[k - 1]) \in Nat
      /\ Len(Texts(reqs)[k]) = Len(Texts(reqs)[k - 1]) + Len(RequestText(k, reqs[k]))
      /\ Len(Texts(reqs)[k]) <= Len(StreamText(reqs))
      /\ RequestText(k, reqs[k]) \in Seq(Piece)
      /\ \A i \in 1..Len(RequestText(k, reqs[k])) :
             StreamText(reqs)[Len(Texts(reqs)[k - 1]) + i] = RequestText(k, reqs[k])[i]
  BY <1>1, <1>2, Placed
<1>6. /\ Before(h) \in Nat /\ T \in Seq(Piece) /\ Before(k) = Before(h) + Len(T)
      /\ Before(k) <= Len(StreamText(reqs))
      /\ \A i \in 1..Len(T) : StreamText(reqs)[Before(h) + i] = T[i]
  BY <1>2, <1>5 DEF Before, q
<1>7. Len(T) \in Nat /\ Len(StreamText(reqs)) \in Nat
  BY <1>3, <1>6, SeqBasics
<1> QED
  BY <1>2, <1>3, <1>4, <1>6, <1>7 DEF k, q, h

(* What parse() has before it goes on in the text of the next request.      *)
LEMMA RestInText ==
  ASSUME TypeOK, ViewInv, rpc = "parse"
  PROVE  LET T == RequestText(Len(handed) + 1, reqs[Len(handed) + 1])
         IN \A i \in 1..Len(Rest) : pos + i <= Len(T) => Rest[i] = T[pos + i]
<1> DEFINE T == RequestText(Len(handed) + 1, reqs[Len(handed) + 1])
           b == Before(Len(handed))
           s == StreamText(reqs)
<1>1. /\ Len(handed) < Len(reqs)
      /\ \A i \in 1..Len(view) : view[i] = s[b + i]
  BY DEF ViewInv
<1>2. \A i \in 1..Len(T) : s[b + i] = T[i]
  BY <1>1, NextText
<1>3. Len(T) \in Nat
  BY <1>1, NextText
<1> HIDE DEF T, b, s
<1>4. /\ Rest \in Seq(Piece) /\ Len(Rest) = Len(view) - pos /\ Len(view) \in Nat
      /\ pos \in Nat /\ pos <= Len(view)
  BY RestType
<1>5. ASSUME NEW i \in 1..Len(Rest), pos + i <= Len(T) PROVE Rest[i] = T[pos + i]
  <2>1. pos + i \in 1..Len(view) /\ pos + i \in 1..Len(T)
    BY <1>3, <1>4, <1>5
  <2>2. Rest[i] = view[pos + i]
    <3>1. view \in Seq(Piece)
      BY DEF TypeOK
    <3>2. i \in 1..(Len(view) - pos) /\ (pos + 1) + i - 1 = pos + i
      BY <1>4, <1>5
    <3> QED
      BY <1>4, <3>1, <3>2 DEF Rest
  <2> QED
    BY <1>1, <1>2, <2>1, <2>2
<1> QED
  BY <1>5 DEF T

(* A turn of parse() that leaves the parser in the right place.             *)
LEMMA TurnUncut ==
  ASSUME Uncut, rpc = "parse",
         UNCHANGED <<reqs, wire, buf, view, rpc, handed, running, why>>,
         ParserAt(parser', pos', Len(handed) + 1, reqs[Len(handed) + 1], Len(view))
  PROVE  Uncut'
<1>1. HandedInv' /\ BadInv'
  BY DEF Uncut, HandedInv, BadInv
<1>2. ViewInv'
  BY DEF Uncut, ViewInv, Before
<1>3. WireInv'
  BY DEF Uncut, WireInv, Before
<1> QED
  BY <1>1, <1>2, <1>3 DEF Uncut

(* The three kinds of lines of a request are taken for what they are.       *)
LEMMA ParseLineUncut ==
  ASSUME TypeOK, Uncut, ParseLine
  PROVE  Uncut'
<1> DEFINE k == Len(handed) + 1
           q == reqs[k]
           T == RequestText(k, q)
           L == Len(q.fields)
           e == EndOfLine(Rest)
           line == parser.temp \o SubSeq(Rest, 1, e - 1)
<1>1. /\ rpc = "parse" /\ pos < Len(view) /\ parser.state \in {"line", "header"} /\ e # 0
      /\ pos' = pos + e
      /\ UNCHANGED <<reqs, wire, buf, view, rpc, handed, running, why>>
  BY DEF ParseLine, Parsing, pipeVars, endVars
<1>2. \/ /\ parser.state = "line"
         /\ \E good \in RequestLineVerdicts(line) :
                parser' = TakeRequestLine(parser, line, good)
      \/ parser.state = "header" /\ line = <<>> /\ parser' = TakeBlankLine(parser)
      \/ parser.state = "header" /\ line # <<>> /\ parser' = TakeHeader(parser, line)
  BY DEF ParseLine
<1>3. ParserAt(parser, pos, k, q, Len(view)) /\ Len(handed) < Len(reqs)
  BY <1>1 DEF Uncut, ViewInv
<1>4. k \in Nat /\ q \in Shape /\ (q.len > 0) = HasLength(q, L)
  BY <1>3, NextText
<1>5. \A i \in 1..Len(Rest) : pos + i <= Len(T) => Rest[i] = T[pos + i]
  BY <1>1, RestInText DEF Uncut
<1>6. Rest \in Seq(Piece) /\ Len(Rest) = Len(view) - pos /\ parser \in Parser /\ pos \in Nat
  BY RestType DEF TypeOK
<1>7. /\ Len(T) = 4 + 2 * L + q.len /\ L \in Nat /\ q.len \in Nat
      /\ T[1] = [kind |-> "start", of |-> k, val |-> 0]
      /\ T[2] = [kind |-> IF q.v10 THEN "http10" ELSE "http11", of |-> k, val |-> 0]
  BY <1>4, RequestPieces
<1> HIDE DEF k, q
<1> SUFFICES ParserAt(parser', pos', k, q, Len(view))
  BY <1>1, TurnUncut DEF k, q
<1>8. CASE parser.state = "line"
  <2>1. parser = Fresh /\ pos = 0
    BY <1>3, <1>8 DEF ParserAt
  <2>2. \A i \in 1..Len(Rest) : i <= Len(T) => Rest[i] = T[i]
    BY <1>5, <1>6, <2>1
  <2>3. e = 3 /\ SubSeq(Rest, 1, 2) = <<T[1], T[2]>>
    BY <1>1, <1>4, <1>6, <2>2, LineRead
  <2>4. parser.temp = <<>>
    BY <2>1 DEF Fresh
  <2>5. line = <<T[1], T[2]>>
    <3> HIDE DEF T, e
    <3>1. <<>> \o <<T[1], T[2]>> = <<T[1], T[2]>>
      OBVIOUS
    <3> QED
      BY <2>3, <2>4, <3>1
  <2> HIDE DEF line, e
  <2>6. /\ RequestLineVerdicts(line) = {TRUE}
        /\ TakeRequestLine(Fresh, line, TRUE).state = "header"
        /\ HasRead(TakeRequestLine(Fresh, line, TRUE), k, q, 0)
    <3>1. line = <<[kind |-> "start", of |-> k, val |-> 0],
                   [kind |-> IF q.v10 THEN "http10" ELSE "http11", of |-> k, val |-> 0]>>
      BY <1>7, <2>5
    <3> QED
      BY <1>4, <3>1, LineTaken
  <2>7. parser' = TakeRequestLine(Fresh, line, TRUE)
    BY <1>2, <1>8, <2>1, <2>6
  <2>8. pos' = 3 + 2 * 0 /\ 0 \in 0..L
    BY <1>1, <1>7, <2>1, <2>3
  <2> QED
    BY <2>6, <2>7, <2>8 DEF ParserAt
<1>9. CASE parser.state = "header"
  <2>1. PICK m \in 0..L : pos = 3 + 2 * m /\ HasRead(parser, k, q, m)
    BY <1>3, <1>9 DEF ParserAt, Fresh
  <2>2. parser.temp = <<>>
    BY <2>1 DEF HasRead
  <2>3. CASE m = L
    <3>1. \A i \in 1..Len(Rest) : 3 + 2 * Len(q.fields) + i <= Len(T) =>
                                      Rest[i] = T[3 + 2 * Len(q.fields) + i]
      BY <1>5, <2>1, <2>3
    <3>2. Len(Rest) > 0
      BY <1>1, <1>6
    <3>3. e = 1 /\ SubSeq(Rest, 1, 0) = <<>>
      BY <1>4, <1>6, <3>1, <3>2, BlankRead
    <3>4. line = <<>>
      <4> HIDE DEF e
      <4>1. <<>> \o <<>> = <<>> /\ e - 1 = 0
        BY <3>3
      <4> QED
        BY <2>2, <3>3, <4>1
    <3>5. parser' = TakeBlankLine(parser)
      BY <1>2, <1>9, <3>4
    <3>6. HasRead(parser, k, q, Len(q.fields))
      BY <2>1, <2>3
    <3>7. \/ parser'.state = "body" /\ HasRead(parser', k, q, L)
          \/ parser'.state = "complete" /\ parser'.req = Meant(k, q) /\ q.len = 0
      BY <1>4, <1>6, <3>5, <3>6, BlankTaken
    <3>8. pos' = 4 + 2 * L /\ (q.len = 0 => pos' = Len(T))
      BY <1>1, <1>7, <2>1, <2>3, <3>3
    <3> QED
      BY <3>7, <3>8 DEF ParserAt
  <2>4. CASE m # L
    <3>1. m \in 0..(Len(q.fields) - 1)
      BY <1>7, <2>1, <2>4
    <3>2. \A i \in 1..Len(Rest) : 3 + 2 * m + i <= Len(T) => Rest[i] = T[3 + 2 * m + i]
      BY <1>5, <2>1
    <3> DEFINE f == [kind |-> q.fields[m + 1], of |-> k, val |-> q.len]
    <3>3. e = 2 /\ SubSeq(Rest, 1, 1) = <<f>>
      BY <1>1, <1>4, <1>6, <3>1, <3>2, FieldRead
    <3>4. line = <<f>>
      <4> HIDE DEF e, f
      <4>1. <<>> \o <<f>> = <<f>> /\ e - 1 = 1
        BY <3>3
      <4> QED
        BY <2>2, <3>3, <4>1
    <3>5. line # <<>>
      <4> HIDE DEF e, f
      <4>1. <<f>> # <<>>
        OBVIOUS
      <4> QED
        BY <3>4, <4>1
    <3> HIDE DEF line, e
    <3>6. parser' = TakeHeader(parser, line)
      BY <1>2, <1>9, <3>5
    <3>7. \/ parser'.state = "header" /\ HasRead(parser', k, q, m + 1)
          \/ parser'.state = "error" /\ ~WellFormed(q)
      BY <1>4, <1>6, <1>9, <2>1, <3>1, <3>4, <3>6, FieldTaken
    <3>8. pos' = 3 + 2 * (m + 1) /\ m + 1 \in 0..L
      BY <1>1, <1>7, <2>1, <3>1, <3>3
    <3> QED
      BY <3>7, <3>8 DEF ParserAt
  <2> QED
    BY <2>3, <2>4
<1> QED
  BY <1>1, <1>8, <1>9

(* A body is complete, or the read has ended in it.                         *)
LEMMA ParseBodyUncut ==
  ASSUME TypeOK, Uncut, ParseBody
  PROVE  Uncut'
<1> DEFINE k == Len(handed) + 1
           q == reqs[k]
           T == RequestText(k, q)
           L == Len(q.fields)
           n == BodyTaken(parser, Rest)
<1>1. /\ rpc = "parse" /\ pos < Len(view) /\ parser.state = "body"
      /\ parser' = TakeBody(parser, Rest) /\ pos' = pos + n
      /\ UNCHANGED <<reqs, wire, buf, view, rpc, handed, running, why>>
  BY DEF ParseBody, Parsing, pipeVars, endVars
<1>2. ParserAt(parser, pos, k, q, Len(view)) /\ Len(handed) < Len(reqs)
  BY <1>1 DEF Uncut, ViewInv
<1>3. k \in Nat /\ q \in Shape /\ (q.len > 0) = HasLength(q, L)
  BY <1>2, NextText
<1>4. \A i \in 1..Len(Rest) : pos + i <= Len(T) => Rest[i] = T[pos + i]
  BY <1>1, RestInText DEF Uncut
<1>5. /\ Rest \in Seq(Piece) /\ Len(Rest) = Len(view) - pos /\ parser \in Parser /\ pos \in Nat
      /\ Len(view) \in Nat
  BY RestType DEF TypeOK
<1>6. Len(T) = 4 + 2 * L + q.len /\ L \in Nat /\ q.len \in Nat
  BY <1>3, RequestPieces
<1> HIDE DEF k, q
<1> SUFFICES ParserAt(parser', pos', k, q, Len(view))
  BY <1>1, TurnUncut DEF k, q
<1>7. pos = 4 + 2 * L /\ HasRead(parser, k, q, Len(q.fields))
  BY <1>1, <1>2 DEF ParserAt, Fresh
<1>8. \A i \in 1..Len(Rest) : 4 + 2 * Len(q.fields) + i <= Len(RequestText(k, q)) =>
                                  Rest[i] = RequestText(k, q)[4 + 2 * Len(q.fields) + i]
  BY <1>4, <1>7
<1>9. \/ parser'.state = "body" /\ n = Len(Rest)
      \/ parser'.state = "complete" /\ n = q.len /\ parser'.req = Meant(k, q)
  BY <1>1, <1>3, <1>5, <1>7, <1>8, BodyRead
<1> HIDE DEF n
<1>10. CASE parser'.state = "body" /\ n = Len(Rest)
  <2>1. ~(pos' < Len(view))
    BY <1>1, <1>5, <1>10
  <2> QED
    BY <1>10, <2>1 DEF ParserAt
<1>11. CASE parser'.state = "complete" /\ n = q.len /\ parser'.req = Meant(k, q)
  <2>1. pos' = Len(T)
    BY <1>1, <1>6, <1>7, <1>11
  <2> QED
    BY <1>11, <2>1 DEF ParserAt
<1> QED
  BY <1>9, <1>10, <1>11

(* A segment arrives: it begins a request.                                  *)
LEMMA ReadSomeUncut ==
  ASSUME TypeOK, Uncut, NEW n \in 1..Len(wire), ReadSome(n)
  PROVE  Uncut'
<1> DEFINE h == Len(handed)
           s == StreamText(reqs)
           b == Before(h)
<1>1. /\ rpc = "idle" /\ running /\ rpc' = "parse" /\ pos' = 0 /\ view' = buf'
      /\ buf' = buf \o SubSeq(wire, 1, n) /\ wire' = SubSeq(wire, n + 1, Len(wire))
      /\ UNCHANGED <<reqs, parser, handed, running, why>>
  BY DEF ReadSome, endVars
<1>2. /\ buf = <<>> /\ parser = Fresh /\ b + Len(buf) + Len(wire) = Len(s)
      /\ \A i \in 1..Len(wire) : wire[i] = s[b + Len(buf) + i]
  BY <1>1 DEF Uncut, WireInv
<1>3. /\ h \in Nat /\ Len(reqs) \in Nat /\ h <= Len(reqs) /\ reqs \in Streams
      /\ b \in Nat /\ Len(s) \in Nat /\ Len(wire) \in Nat
  <2>1. /\ h \in Nat /\ DOMAIN handed = 1..h /\ Len(wire) \in Nat /\ reqs \in Streams
    BY SeqBasics DEF TypeOK
  <2>2. Len(reqs) \in Nat /\ s \in Seq(Piece)
        /\ \A i \in 0..Len(reqs) : Texts(reqs)[i] \in Seq(Piece)
    BY <2>1, TextsType
  <2>3. h <= Len(reqs)
    <3>1. h = 0 \/ h \in DOMAIN handed
      BY <2>1
    <3> QED
      BY <2>1, <2>2, <3>1 DEF Uncut, HandedInv
  <2>4. h \in 0..Len(reqs)
    BY <2>1, <2>2, <2>3
  <2> QED
    BY <2>1, <2>2, <2>3, <2>4, SeqBasics DEF Before
<1> HIDE DEF s, b, h
<1>4. Len(buf) = 0 /\ b + Len(wire) = Len(s) /\ \A i \in 1..Len(wire) : wire[i] = s[b + i]
  <2>1. Len(buf) = 0
    BY <1>2
  <2>2. \A i \in 1..Len(wire) : b + Len(buf) + i = b + i
    BY <1>3, <2>1
  <2>3. b + Len(buf) + Len(wire) = Len(s)
    BY <1>2
  <2>4. b + Len(buf) = b
    BY <1>3, <2>1
  <2>5. b + Len(wire) = Len(s)
    BY <2>3, <2>4
  <2> QED
    BY <1>2, <2>1, <2>2, <2>5
<1>5. h < Len(reqs)
  <2>1. h = Len(reqs) => b = Len(s)
    BY <1>3, TextsType DEF Before, s, b, h
  <2>2. h = Len(reqs) \/ h < Len(reqs)
    BY <1>3
  <2>3. Len(wire) # 0 /\ b + Len(wire) = Len(s)
    BY <1>3, <1>4
  <2> QED
    BY <1>3, <2>1, <2>2, <2>3
<1>6. /\ Len(buf') = n /\ \A i \in 1..n : buf'[i] = wire[i]
      /\ Len(wire') = Len(wire) - n /\ \A i \in 1..(Len(wire) - n) : wire'[i] = wire[n + i]
  <2>1. wire \in Seq(Piece) /\ n \in 0..Len(wire)
    BY <1>3 DEF TypeOK
  <2>2. SubSeq(wire, 1, n) \in Seq(Piece) /\ Len(SubSeq(wire, 1, n)) = n
        /\ Len(SubSeq(wire, n + 1, Len(wire))) = Len(wire) - n
    BY <2>1, CutAt
  <2>3. \A i \in 1..n : SubSeq(wire, 1, n)[i] = wire[i]
    BY <1>3, <2>1
  <2>4. \A i \in 1..(Len(wire) - n) : SubSeq(wire, n + 1, Len(wire))[i] = wire[n + i]
    BY <1>3, <2>1
  <2>5. buf' = SubSeq(wire, 1, n)
    <3> DEFINE x == SubSeq(wire, 1, n)
    <3> HIDE DEF x
    <3>1. x \in Seq(Piece)
      BY <2>2 DEF x
    <3>2. <<>> \o x = x
      BY <3>1
    <3> QED
      BY <1>1, <1>2, <3>2 DEF x
  <2> QED
    BY <1>1, <2>2, <2>3, <2>4, <2>5
<1>7. s' = s /\ Before(h)' = b /\ h' = h
  BY <1>1 DEF Before, s, b, h
<1>8. ViewInv'
  <2>1. b + Len(view') <= Len(s)
    BY <1>1, <1>3, <1>4, <1>6
  <2>2. \A i \in 1..Len(view') : view'[i] = s[b + i]
    <3>1. \A i \in 1..n : i \in 1..Len(wire)
      BY <1>3
    <3> QED
      BY <1>1, <1>4, <1>6, <3>1
  <2>3. ParserAt(parser', pos', h + 1, reqs[h + 1], Len(view'))
    BY <1>1, <1>2 DEF ParserAt
  <2> QED
    BY <1>1, <1>5, <1>7, <2>1, <2>2, <2>3 DEF ViewInv, h, s, b
<1>9. WireInv'
  <2>1. b + Len(buf') + Len(wire') = Len(s)
    <3>1. Len(buf') = n /\ Len(wire') = Len(wire) - n /\ b + Len(wire) = Len(s)
      BY <1>4, <1>6
    <3> QED
      BY <1>3, <3>1
  <2>2. ASSUME NEW i \in 1..Len(wire') PROVE wire'[i] = s[b + Len(buf') + i]
    <3>1. i \in 1..(Len(wire) - n) /\ n + i \in 1..Len(wire) /\ b + (n + i) = b + n + i
      BY <1>3, <1>6, <2>2
    <3>2. wire'[i] = wire[n + i] /\ wire[n + i] = s[b + (n + i)]
      BY <1>4, <1>6, <3>1
    <3> QED
      BY <1>6, <3>1, <3>2
  <2> QED
    BY <1>1, <1>7, <2>1, <2>2 DEF WireInv, h, s, b
<1>10. HandedInv' /\ BadInv'
  BY <1>1 DEF Uncut, HandedInv, BadInv
<1> QED
  BY <1>8, <1>9, <1>10 DEF Uncut

(* A complete request is handed over and the next one begins behind it.     *)
LEMMA CompleteUncut ==
  ASSUME TypeOK, Uncut, Complete
  PROVE  Uncut'
<1> DEFINE h == Len(handed)
           k == h + 1
           q == reqs[k]
           T == RequestText(k, q)
           s == StreamText(reqs)
           b == Before(h)
<1>1. /\ rpc = "result" /\ parser.state = "complete" /\ parser' = Fresh
      /\ handed' = Append(handed, parser.req) /\ UNCHANGED <<reqs, wire>>
      /\ \/ Shutdown("limit", out) /\ rpc' = "idle"
         \/ /\ buf' = Retrieve(buf, pos) /\ view' = buf' /\ pos' = 0
            /\ rpc' = (IF MoreToParse(buf') THEN "parse" ELSE "serve")
            /\ UNCHANGED <<running, why>>
  BY DEF Complete, Reset, endVars
<1>2. /\ h < Len(reqs) /\ b + Len(view) <= Len(s)
      /\ \A i \in 1..Len(view) : view[i] = s[b + i]
      /\ running => buf = view
      /\ ParserAt(parser, pos, k, q, Len(view))
  BY <1>1 DEF Uncut, ViewInv
<1>3. parser.req = Meant(k, q) /\ pos = Len(T)
  BY <1>1, <1>2 DEF ParserAt, Fresh
<1>4. /\ k \in Nat /\ k \in 1..Len(reqs) /\ b \in Nat /\ Len(T) \in Nat /\ Len(s) \in Nat
      /\ Before(k) = b + Len(T)
  BY <1>2, NextText
<1>5. /\ Len(handed') = k /\ \A i \in 1..h : handed'[i] = handed[i]
      /\ handed'[k] = parser.req /\ DOMAIN handed' = 1..k /\ DOMAIN handed = 1..h /\ h \in Nat
  <2>1. handed \in Seq(Request) /\ parser.req \in Request
    BY DEF TypeOK, Parser
  <2>2. /\ handed' \in Seq(Request) /\ Len(handed') = h + 1
        /\ \A i \in 1..h : handed'[i] = handed[i]
        /\ handed'[h + 1] = parser.req
    BY <1>1, <2>1, Appended
  <2> QED
    BY <2>1, <2>2, SeqBasics
<1>6. HandedInv'
  <2>1. \A i \in 1..k : i \in 1..h \/ i = k
    BY <1>5
  <2>2. \A i \in 1..h : i <= Len(reqs) /\ handed[i] = Meant(i, reqs[i])
    BY <1>5 DEF Uncut, HandedInv
  <2>3. k <= Len(reqs)
    BY <1>4
  <2> QED
    BY <1>1, <1>3, <1>5, <2>1, <2>2, <2>3 DEF HandedInv
<1>7. BadInv'
  <2>1. why # "bad" /\ why' # "bad"
    BY <1>1 DEF Uncut, BadInv, Shutdown
  <2> QED
    BY <2>1 DEF BadInv
<1>8. CASE ~running'
  <2>1. rpc' \notin {"parse", "result"}
    BY <1>1, <1>8 DEF MoreToParse
  <2> QED
    BY <1>6, <1>7, <1>8, <2>1 DEF Uncut, ViewInv, WireInv
<1>9. CASE running'
  <2>1. /\ running /\ buf = view /\ buf' = Retrieve(view, pos) /\ view' = buf' /\ pos' = 0
        /\ rpc' = (IF buf' # <<>> THEN "parse" ELSE "serve")
    BY <1>1, <1>2, <1>9 DEF Shutdown, MoreToParse
  <2>2. view \in Seq(Piece) /\ Len(view) \in Nat /\ pos \in 0..Len(view)
    BY SeqBasics DEF TypeOK
  <2>3. /\ Len(buf') = Len(view) - pos
        /\ \A i \in 1..(Len(view) - pos) : buf'[i] = view[pos + i]
    <3>1. CASE pos < Len(view)
      <4>1. buf' = SubSeq(view, pos + 1, Len(view))
        BY <2>1, <3>1 DEF Retrieve
      <4>2. Len(SubSeq(view, pos + 1, Len(view))) = Len(view) - pos
        BY <2>2, CutAt
      <4>3. \A i \in 1..(Len(view) - pos) : SubSeq(view, pos + 1, Len(view))[i] = view[pos + i]
        BY <2>2
      <4> QED
        BY <4>1, <4>2, <4>3
    <3>2. CASE ~(pos < Len(view))
      <4>1. buf' = <<>> /\ Len(view) - pos = 0
        BY <2>1, <2>2, <3>2 DEF Retrieve
      <4> QED
        BY <4>1
    <3> QED
      BY <3>1, <3>2
  <2>4. /\ b + Len(view) + Len(wire) = Len(s) /\ Len(wire) \in Nat
        /\ \A i \in 1..Len(wire) : wire[i] = s[b + Len(view) + i]
    BY <2>1, SeqBasics DEF Uncut, WireInv, TypeOK
  <2> DEFINE c == Before(k)
  <2>5. c = b + pos /\ c \in Nat /\ c + Len(buf') = b + Len(view) /\ pos \in Nat
    <3>1. c = b + pos /\ b \in Nat
      BY <1>3, <1>4
    <3>2. Len(buf') = Len(view) - pos
      BY <2>3
    <3> HIDE DEF c, b
    <3> QED
      BY <2>2, <3>1, <3>2
  <2>6. s' = s /\ Before(Len(handed))' = c /\ Len(handed') = k
    BY <1>1, <1>5 DEF Before
  <2>7. buf' # <<>> => k < Len(reqs)
    <3>1. buf' # <<>> => Len(buf') # 0
      <4>1. Retrieve(view, pos) \in Seq(Piece)
        <5>1. SubSeq(view, pos + 1, Len(view)) \in Seq(Piece) /\ <<>> \in Seq(Piece)
          BY <2>2, CutAt
        <5> QED
          BY <5>1 DEF Retrieve
      <4> QED
        BY <2>1, <4>1, SeqBasics
    <3>2. k = Len(reqs) => c = Len(s)
      <4>1. reqs \in Streams
        BY DEF TypeOK
      <4> QED
        BY <4>1, TextsType DEF Before
    <3>3. c + Len(buf') <= Len(s) /\ Len(buf') \in Nat
      BY <1>2, <2>2, <2>3, <2>5
    <3> HIDE DEF c, s, k
    <3>4. k # Len(reqs) => k < Len(reqs)
      BY <1>4
    <3> QED
      BY <1>4, <2>5, <3>1, <3>2, <3>3, <3>4
  <2> HIDE DEF c, s, k, b
  <2>8. ASSUME NEW i \in 1..Len(buf') PROVE buf'[i] = s[c + i]
    <3>1. i \in 1..(Len(view) - pos) /\ pos + i \in 1..Len(view)
      BY <2>2, <2>3, <2>8
    <3>2. b + (pos + i) = c + i
      BY <1>4, <2>5, <3>1
    <3>3. buf'[i] = view[pos + i] /\ view[pos + i] = s[b + (pos + i)]
      BY <1>2, <2>3, <3>1
    <3> QED
      BY <3>2, <3>3
  <2>9. ParserAt(parser', pos', k + 1, reqs[k + 1], Len(view'))
    BY <1>1, <2>1 DEF ParserAt
  <2>10. ViewInv'
    <3>1. c + Len(view') <= Len(s)
      BY <1>2, <2>1, <2>5
    <3> QED
      BY <1>1, <2>1, <2>6, <2>7, <2>8, <2>9, <3>1 DEF ViewInv, s
  <2>11. WireInv'
    <3>1. c + Len(buf') + Len(wire') = Len(s)
      BY <1>1, <2>4, <2>5
    <3>2. \A i \in 1..Len(wire') : wire'[i] = s[c + Len(buf') + i]
      BY <1>1, <2>4, <2>5
    <3>3. rpc' \in {"idle", "serve"} => buf' = <<>>
      BY <2>1
    <3> QED
      BY <1>1, <2>6, <3>1, <3>2, <3>3 DEF WireInv, s
  <2> QED
    BY <1>6, <1>7, <2>10, <2>11 DEF Uncut
<1> QED
  BY <1>8, <1>9

(* Steps that leave the text where it is: the connection may be closed.     *)
LEMMA PassUncut ==
  ASSUME TypeOK, Uncut, UNCHANGED <<reqs, wire, view, pos, parser, handed>>,
         UNCHANGED buf \/ ~running',
         running' => running,
         why' = "bad" => why = "bad",
         \/ UNCHANGED rpc
         \/ rpc = "serve" /\ rpc' = "idle"
         \/ rpc = "parse" /\ rpc' = "result" /\ UNCHANGED <<buf, running>>
  PROVE  Uncut'
<1>1. HandedInv'
  BY DEF Uncut, HandedInv
<1>2. BadInv'
  BY DEF Uncut, BadInv
<1>3. ViewInv'
  BY DEF Uncut, ViewInv, Before
<1>4. WireInv'
  BY DEF Uncut, WireInv, Before
<1> QED
  BY <1>1, <1>2, <1>3, <1>4 DEF Uncut

(* What is refused is malformed.                                            *)
LEMMA ParseErrorUncut ==
  ASSUME TypeOK, Uncut, ParseError
  PROVE  Uncut'
<1>1. /\ rpc = "parse" /\ parser.state = "error" /\ rpc' = "idle" /\ ~running'
      /\ why' = (IF running THEN "bad" ELSE why) /\ UNCHANGED <<reqs, handed>>
  BY DEF ParseError, Shutdown, pipeVars
<1>2. Len(handed) < Len(reqs) /\ ~WellFormed(reqs[Len(handed) + 1])
  BY <1>1 DEF Uncut, ViewInv, ParserAt, Fresh
<1>3. HandedInv' /\ BadInv'
  BY <1>1, <1>2 DEF Uncut, HandedInv, BadInv
<1> QED
  BY <1>1, <1>3 DEF Uncut, ViewInv, WireInv

(* A line that does not end in this read: the read has cut a request.       *)
LEMMA ParsePartialUncut ==
  ASSUME TypeOK, Uncut, ParsePartial
  PROVE  Uncut'
<1>1. /\ rpc = "parse" /\ rpc' = "result" /\ parser.state \in {"line", "header"}
      /\ parser' = TakePartial(parser, Rest)
      /\ UNCHANGED <<reqs, wire, buf, view, handed, running, why>>
  BY DEF ParsePartial, Parsing, pipeVars, endVars
<1>2. parser'.state # "complete"
  BY <1>1 DEF TakePartial, TypeOK, Parser
<1>3. HandedInv' /\ BadInv'
  BY <1>1 DEF Uncut, HandedInv, BadInv
<1>4. ViewInv'
  BY <1>1, <1>2 DEF Uncut, ViewInv, Before
<1>5. WireInv'
  BY <1>1 DEF Uncut, WireInv, Before
<1> QED
  BY <1>3, <1>4, <1>5 DEF Uncut

(* The whole stream is before the parser at the start.                      *)
LEMMA InitUncut ==
  ASSUME Init
  PROVE  UncutInv
<1>1. /\ reqs \in Streams /\ wire = StreamText(reqs) /\ buf = <<>> /\ parser = Fresh
      /\ rpc = "idle" /\ handed = <<>> /\ why = "open"
  BY DEF Init
<1>2. Len(reqs) \in Nat /\ StreamText(reqs) \in Seq(Piece)
  BY <1>1, TextsType
<1>3. Texts(reqs)[0] = <<>>
  <2>1. 0 \in 0..Len(reqs)
    BY <1>2
  <2> QED
    BY <1>2, <2>1, TextsOf
<1>4. Before(Len(handed)) = 0 /\ Len(buf) = 0 /\ Len(StreamText(reqs)) \in Nat
  BY <1>1, <1>2, <1>3, SeqBasics DEF Before
<1>5. HandedInv /\ BadInv /\ ViewInv
  BY <1>1 DEF HandedInv, BadInv, ViewInv
<1>6. WireInv
  <2>1. \A i \in 1..Len(wire) : 0 + 0 + i = i
    OBVIOUS
  <2> QED
    BY <1>1, <1>4, <2>1 DEF WireInv
<1> QED
  BY <1>5, <1>6 DEF UncutInv, Uncut

(* Every step that cuts no request keeps the place in the text.             *)
LEMMA NextUncut ==
  ASSUME TypeOK, UncutInv, [Next]_vars
  PROVE  UncutInv'
<1> SUFFICES ASSUME ~cut' PROVE Uncut'
  BY DEF UncutInv
<1>1. ~Incomplete
  BY DEF Incomplete
<1>2. UNCHANGED cut
  <2>1. CASE \E w \in Workers : Worker(w)
    BY <2>1 DEF Worker, TakeTask, TaskReply, TaskShutdown
  <2>2. CASE Reactor
    BY <1>1, <2>2 DEF Reactor, ParsePartial, ParseLine, ParseBody, ParseError, ParseEnds,
                      Complete, ServeSubmit, ServeInline, ServeNext, ReadDone, WriteOut
  <2>3. CASE \/ \E n \in 1..Len(wire) : ReadSome(n)
             \/ ReadEof \/ Terminated \/ UNCHANGED vars
    BY <2>3 DEF ReadSome, ReadEof, Terminated, vars
  <2> QED
    BY <2>1, <2>2, <2>3 DEF Next
<1>3. Uncut
  BY <1>2 DEF UncutInv
<1>4. CASE \E n \in 1..Len(wire) : ReadSome(n)
  BY <1>3, <1>4, ReadSomeUncut
<1>5. CASE ParsePartial \/ ParseLine \/ ParseBody \/ ParseError \/ Complete
  BY <1>3, <1>5, ParsePartialUncut, ParseLineUncut, ParseBodyUncut, ParseErrorUncut,
     CompleteUncut
<1>6. CASE ParseEnds \/ ReadDone \/ WriteOut \/ Terminated \/ UNCHANGED vars
  <2>1. UNCHANGED <<reqs, wire, view, pos, parser, handed, buf, running, why>>
    BY <1>6 DEF ParseEnds, ReadDone, WriteOut, Terminated, vars, ioVars, pipeVars, endVars
  <2>2. \/ UNCHANGED rpc
        \/ rpc = "serve" /\ rpc' = "idle"
        \/ rpc = "parse" /\ rpc' = "result"
    BY <1>6 DEF ParseEnds, ReadDone, WriteOut, Terminated, vars
  <2> QED
    BY <1>3, <2>1, <2>2, PassUncut
<1>7. CASE ReadEof \/ ServeSubmit \/ \E thrown \in BOOLEAN : ServeInline(thrown)
  <2>1. /\ UNCHANGED <<reqs, wire, view, pos, parser, handed, rpc>>
        /\ UNCHANGED buf \/ ~running'
        /\ running' => running
        /\ why' = "bad" => why = "bad"
    BY <1>7 DEF ReadEof, ServeSubmit, ServeInline, ServeNext, Shutdown, Reply, ioVars, pipeVars,
                endVars
  <2> QED
    BY <1>3, <2>1, PassUncut
<1>8. CASE \E w \in Workers : Worker(w)
  <2>1. /\ UNCHANGED <<reqs, wire, view, pos, parser, handed, rpc>>
        /\ UNCHANGED buf \/ ~running'
        /\ running' => running
        /\ why' = "bad" => why = "bad"
    BY <1>8 DEF Worker, TakeTask, TaskReply, TaskShutdown, Shutdown, Reply, ioVars, pipeVars,
                endVars
  <2> QED
    BY <1>3, <2>1, PassUncut
<1> QED
  BY <1>1, <1>4, <1>5, <1>6, <1>7, <1>8 DEF Next, Reactor

(* As long as no read ends inside a request, every pipeline is understood:  *)
(* what is taken from the parser is what the peer meant, request by         *)
(* request, and only a malformed request is refused; for any streams, any   *)
(* limits, and whatever the workers do to the connection meanwhile.         *)
THEOREM PipelinesUnderstood == Spec => []UnderstoodUncut
<1>1. Base => TypeOK
  BY DEF Base
<1>2. UncutInv => UnderstoodUncut
  BY DEF UncutInv, Uncut, HandedInv, BadInv, UnderstoodUncut, Understood
<1>3. Init => Base /\ UncutInv
  BY InitBase, InitUncut
<1>4. Base /\ UncutInv /\ [Next]_vars => (Base /\ UncutInv)'
  BY <1>1, NextBase, NextUncut
<1> QED
  BY <1>2, <1>3, <1>4, PTL DEF Spec
=============================================================================
