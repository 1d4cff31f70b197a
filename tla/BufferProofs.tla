---------------------------- MODULE BufferProofs ----------------------------
(***************************************************************************)
(* The buffer, for every choice of sizes: the indices stay inside the      *)
(* vector, the contents are the stream, and make_space fails only where    *)
(* consumed bytes are stranded below the threshold.                        *)
(***************************************************************************)
EXTENDS Buffer, TLAPS

\* The assumption on the sizes, one constant at a time.
LEMMA Sizes ==
    /\ Initial \in Nat \ {0} /\ Chunk \in Nat \ {0} /\ Threshold \in Nat \ {0}
    /\ MaxSize \in Nat \ {0} /\ MaxBytes \in Nat \ {0}
    /\ Chunk <= Initial /\ 2 * Initial <= MaxSize /\ Initial <= MaxSize
<1>1. /\ Initial \in Nat \ {0} /\ Chunk \in Nat \ {0} /\ Threshold \in Nat \ {0}
      /\ MaxSize \in Nat \ {0} /\ MaxBytes \in Nat \ {0}
  BY BufferAssumption
<1> QED BY <1>1, BufferAssumption

USE Sizes

\* What make_space does to the indices: they stay in order, the bytes held
\* stay as many, and the vector does not get smaller.
LEMMA SpaceIndices ==
    ASSUME TypeOK, NEW len \in Nat \ {0}
    PROVE  /\ ReaderAfter(len) \in Nat /\ WriterAfter(len) \in Nat
           /\ ReaderAfter(len) <= WriterAfter(len)
           /\ WriterAfter(len) - ReaderAfter(len) = readable_bytes
           /\ SizeAfter(len) \in Initial .. MaxSize
           /\ size <= SizeAfter(len)
           /\ WriterAfter(len) <= writer
<1> USE DEF TypeOK, readable_bytes, writable_bytes
<1>1. /\ ReaderAfter(len) \in Nat /\ WriterAfter(len) \in Nat
      /\ ReaderAfter(len) <= WriterAfter(len)
      /\ WriterAfter(len) - ReaderAfter(len) = readable_bytes
      /\ WriterAfter(len) <= writer
  BY DEF ReaderAfter, WriterAfter, Moves
<1>2. (size * 3) \div 2 \in Nat /\ (size * 3) \div 2 >= size
  BY DEF TypeOK
<1>3. NewSize(len) \in Initial .. MaxSize /\ size <= NewSize(len)
  BY <1>2 DEF NewSize, AtLeast, AtMost
<1>4. SizeAfter(len) \in Initial .. MaxSize /\ size <= SizeAfter(len)
  BY <1>3 DEF SizeAfter
<1> QED BY <1>1, <1>4

\* What make_space does to the contents: the move copies the bytes held to
\* the front, byte by byte.
LEMMA SpaceContents ==
    ASSUME TypeOK, HoldsStream, NEW len \in Nat \ {0}
    PROVE  /\ MemAfter(len) \in [Cells -> Nat]
           /\ \A i \in Cells : ReaderAfter(len) <= i /\ i < WriterAfter(len) =>
                 MemAfter(len)[i] = taken + (i - ReaderAfter(len)) + 1
<1>1. CASE Moves(len)
  <2>1. /\ ReaderAfter(len) = 0 /\ WriterAfter(len) = readable_bytes
        /\ MemAfter(len) =
             [i \in Cells |-> IF i < readable_bytes THEN mem[reader + i] ELSE mem[i]]
    BY <1>1 DEF ReaderAfter, WriterAfter, MemAfter
  <2>2. \A i \in Cells : i < readable_bytes =>
            /\ reader + i \in Cells
            /\ mem[reader + i] = taken + i + 1
    <3> SUFFICES ASSUME NEW i \in Cells, i < readable_bytes
                 PROVE  reader + i \in Cells /\ mem[reader + i] = taken + i + 1
      OBVIOUS
    <3>1. reader + i \in Cells /\ reader <= reader + i /\ reader + i < writer
      BY DEF TypeOK, readable_bytes, Cells
    <3>2. mem[reader + i] = taken + ((reader + i) - reader) + 1
      BY <3>1 DEF HoldsStream
    <3> QED BY <3>1, <3>2 DEF TypeOK, Cells
  <2>3. MemAfter(len) \in [Cells -> Nat]
    BY <2>1, <2>2 DEF TypeOK
  <2>4. ASSUME NEW i \in Cells, i < readable_bytes
        PROVE  MemAfter(len)[i] = taken + (i - 0) + 1
    BY <2>1, <2>2, <2>4 DEF TypeOK, Cells
  <2> QED BY <2>1, <2>3, <2>4
<1>2. CASE ~Moves(len)
  BY <1>2 DEF ReaderAfter, WriterAfter, MemAfter, HoldsStream, TypeOK
<1> QED BY <1>1, <1>2

\* Writing n bytes of the stream into the room keeps the type.
LEMMA FillTypes ==
    ASSUME TypeOK, HoldsStream, NEW len \in Nat \ {0}, NEW n \in Nat \ {0},
           NEW first \in Nat, n <= RoomAfter(len), Fill(len, n, first)
    PROVE  /\ mem' \in [Cells -> Nat] /\ size' \in Initial .. MaxSize
           /\ reader' \in Nat /\ writer' \in Nat
           /\ reader' <= writer' /\ writer' <= size'
           /\ writer' - reader' = readable_bytes + n
<1>1. MemAfter(len) \in [Cells -> Nat]
  BY SpaceContents
<1>2. ReaderAfter(len) \in Nat /\ WriterAfter(len) \in Nat
  BY SpaceIndices
<1>3. mem' \in [Cells -> Nat]
  BY <1>1, <1>2 DEF Fill, Cells
<1>4. /\ size' = SizeAfter(len) /\ reader' = ReaderAfter(len)
      /\ writer' = WriterAfter(len) + n
  BY DEF Fill
<1>5. /\ ReaderAfter(len) <= WriterAfter(len)
      /\ WriterAfter(len) - ReaderAfter(len) = readable_bytes
      /\ SizeAfter(len) \in Initial .. MaxSize
  BY SpaceIndices
<1>6. n <= SizeAfter(len) - WriterAfter(len)
  BY DEF RoomAfter
<1>7. /\ reader' \in Nat /\ writer' \in Nat /\ reader' <= writer' /\ writer' <= size'
      /\ writer' - reader' = readable_bytes + n
  BY <1>2, <1>4, <1>5, <1>6
<1> QED BY <1>3, <1>4, <1>5, <1>7

\* And the contents: what is written continues what is held.
LEMMA FillContents ==
    ASSUME TypeOK, HoldsStream, NEW len \in Nat \ {0}, NEW n \in Nat \ {0},
           n <= RoomAfter(len), Fill(len, n, taken + readable_bytes + 1), taken' = taken
    PROVE  HoldsStream'
<1>1. /\ reader' = ReaderAfter(len) /\ writer' = WriterAfter(len) + n
      /\ mem' = [i \in Cells |->
                   IF WriterAfter(len) <= i /\ i < WriterAfter(len) + n
                   THEN (taken + readable_bytes + 1) + (i - WriterAfter(len))
                   ELSE MemAfter(len)[i]]
  BY DEF Fill
<1>2. /\ ReaderAfter(len) \in Nat /\ WriterAfter(len) \in Nat
      /\ WriterAfter(len) - ReaderAfter(len) = readable_bytes
  BY SpaceIndices
<1> SUFFICES ASSUME NEW i \in Cells, ReaderAfter(len) <= i, i < WriterAfter(len) + n
             PROVE  mem'[i] = taken + (i - ReaderAfter(len)) + 1
  BY <1>1 DEF HoldsStream
<1>3. i \in Int /\ taken \in Int /\ readable_bytes \in Int
  BY DEF Cells, TypeOK, readable_bytes
<1>4. CASE i < WriterAfter(len)
  <2>1. mem'[i] = MemAfter(len)[i]
    BY <1>1, <1>2, <1>3, <1>4
  <2> QED BY <2>1, <1>4, SpaceContents
<1>5. CASE WriterAfter(len) <= i
  <2>1. mem'[i] = (taken + readable_bytes + 1) + (i - WriterAfter(len))
    BY <1>1, <1>5
  <2> QED BY <2>1, <1>2, <1>3
<1> QED BY <1>2, <1>3, <1>4, <1>5

\* Consuming n of the bytes held.
LEMMA RetrieveKeeps ==
    ASSUME TypeOK, HoldsStream, NEW n \in Nat \ {0}, n <= readable_bytes, retrieve(n),
           mem' = mem, size' = size, arrived' = arrived
    PROVE  /\ reader' \in Nat /\ writer' \in Nat /\ reader' <= writer' /\ writer' <= size'
           /\ taken' \in Nat /\ Unread' >= 0 /\ HoldsStream'
<1>1. CASE n < readable_bytes
  <2>1. reader' = reader + n /\ writer' = writer /\ taken' = taken + n
    BY <1>1 DEF retrieve
  <2>2. ASSUME NEW i \in Cells, reader + n <= i, i < writer
        PROVE  mem[i] = (taken + n) + (i - (reader + n)) + 1
    <3>1. mem[i] = taken + (i - reader) + 1
      BY <2>2 DEF HoldsStream, TypeOK, Cells
    <3> QED BY <3>1 DEF TypeOK, Cells
  <2>3. HoldsStream'
    BY <2>1, <2>2 DEF HoldsStream
  <2> QED BY <1>1, <2>1, <2>3 DEF TypeOK, readable_bytes, Unread
<1>2. CASE ~(n < readable_bytes)
  <2>1. reader' = 0 /\ writer' = 0 /\ taken' = taken + n /\ n = readable_bytes
    BY <1>2 DEF retrieve, TypeOK, readable_bytes
  <2>2. HoldsStream'
    BY <2>1 DEF HoldsStream, Cells
  <2> QED BY <2>1, <2>2 DEF TypeOK, readable_bytes, Unread
<1> QED BY <1>1, <1>2

\* An output buffer holds all that was handed to send and not yet written, and
\* is never read into.
OutputHeld == ~input => Unread = 0 /\ pc # "reading"

Inv == TypeOK /\ HoldsStream /\ OutputHeld

\* A new buffer is empty.
LEMMA InvInit == Init => Inv
<1> SUFFICES ASSUME Init PROVE Inv
  OBVIOUS
<1>1. mem \in [Cells -> Nat]
  BY DEF Init
<1>2. /\ size = Initial /\ reader = 0 /\ writer = 0 /\ pc = "idle" /\ total = 0
      /\ arrived = 0 /\ taken = 0 /\ eof = FALSE
  BY DEF Init
<1>3. Unread = 0
  BY <1>2 DEF Unread, readable_bytes
<1>4. TypeOK
  <2>1. /\ size \in Initial .. MaxSize /\ reader \in Nat /\ writer \in Nat
        /\ reader <= writer /\ writer <= size /\ Unread >= 0
        /\ total \in Nat /\ arrived \in Nat /\ taken \in Nat
    BY <1>2, <1>3
  <2>2. pc \in {"idle", "reading", "closed", "undefined"} /\ eof \in BOOLEAN
    BY <1>2
  <2>3. input \in BOOLEAN
    BY DEF Init
  <2> QED BY <1>1, <2>1, <2>2, <2>3 DEF TypeOK
<1>5. HoldsStream
  BY <1>2 DEF HoldsStream, Cells
<1> QED BY <1>2, <1>3, <1>4, <1>5 DEF Inv, OutputHeld

\* One step per operation.
LEMMA InvStep == Inv /\ [Next]_vars => Inv'
<1> SUFFICES ASSUME Inv, [Next]_vars PROVE Inv'
  OBVIOUS
<1>0. TypeOK /\ HoldsStream /\ OutputHeld
  BY DEF Inv
<1>1. ASSUME NEW n \in 1 .. MaxSize, Append(n) PROVE Inv'
  <2>0. n \in Nat \ {0} /\ ~input
    BY <1>1 DEF Append
  <2>1. CASE RoomAfter(n) < n
    <3>1. UNCHANGED <<input, mem, size, reader, writer, arrived, total, taken, eof>> /\ pc' = "undefined"
      BY <1>1, <2>1 DEF Append
    <3> QED BY <1>0, <3>1 DEF Inv, TypeOK, HoldsStream, OutputHeld, Unread, readable_bytes
  <2>2. CASE ~(RoomAfter(n) < n)
    <3>1. /\ Fill(n, n, arrived + 1) /\ arrived' = arrived + n
          /\ UNCHANGED <<input, pc, total, taken, eof>>
      BY <1>1, <2>2 DEF Append
    <3>2. n <= RoomAfter(n)
      BY <2>0, <2>2, <1>0, SpaceIndices DEF RoomAfter, TypeOK
    <3>3. arrived + 1 = taken + readable_bytes + 1
      BY <1>0, <2>0 DEF OutputHeld, Unread, TypeOK, readable_bytes
    <3>4. HoldsStream'
      BY <1>0, <2>0, <3>1, <3>2, <3>3, FillContents
    <3>5. /\ mem' \in [Cells -> Nat] /\ size' \in Initial .. MaxSize
          /\ reader' \in Nat /\ writer' \in Nat
          /\ reader' <= writer' /\ writer' <= size'
          /\ writer' - reader' = readable_bytes + n
      <4>1. arrived + 1 \in Nat
        BY <1>0 DEF TypeOK
      <4> QED BY <1>0, <2>0, <3>1, <3>2, <4>1, FillTypes
    <3>6. Unread' = 0
      <4>1. Unread' = arrived' - (taken' + (writer' - reader'))
        BY DEF Unread, readable_bytes
      <4>2. arrived \in Nat /\ taken \in Nat /\ readable_bytes \in Int
        BY <1>0 DEF TypeOK, readable_bytes
      <4>3. arrived' = arrived + n /\ taken' = taken /\ n \in Nat
        BY <2>0, <3>1
      <4>4. writer' - reader' = readable_bytes + n
        BY <3>5
      <4>5. arrived = taken + readable_bytes
        BY <3>3, <4>2
      <4> QED BY <4>1, <4>2, <4>3, <4>4, <4>5
    <3>7. TypeOK'
      BY <1>0, <2>0, <3>1, <3>5, <3>6 DEF TypeOK
    <3> QED BY <1>0, <2>0, <3>1, <3>4, <3>6, <3>7 DEF Inv, OutputHeld
  <2> QED BY <2>1, <2>2
<1>2. ASSUME NEW n \in 1 .. MaxSize, HandleWrite(n) \/ Consume(n) PROVE Inv'
  <2>1. /\ n \in Nat \ {0} /\ n <= readable_bytes /\ retrieve(n)
        /\ UNCHANGED <<input, mem, size, pc, total, arrived, eof>>
    BY <1>2 DEF HandleWrite, Consume
  <2>2. /\ reader' \in Nat /\ writer' \in Nat /\ reader' <= writer' /\ writer' <= size'
        /\ taken' \in Nat /\ Unread' >= 0 /\ HoldsStream'
    BY <1>0, <2>1, RetrieveKeeps
  <2>3. TypeOK'
    BY <1>0, <2>1, <2>2 DEF TypeOK
  <2>4. OutputHeld'
    BY <1>0, <2>1 DEF OutputHeld, Unread, TypeOK, readable_bytes, retrieve
  <2> QED BY <2>2, <2>3, <2>4 DEF Inv
<1>3. ASSUME NEW n \in 1 .. MaxSize, Arrive(n) PROVE Inv'
  <2>1. /\ input /\ arrived' = arrived + n /\ n \in Nat
        /\ UNCHANGED <<input, mem, size, reader, writer, pc, total, taken, eof>>
    BY <1>3 DEF Arrive
  <2> QED BY <1>0, <2>1 DEF Inv, TypeOK, HoldsStream, OutputHeld, Unread, readable_bytes
<1>4. CASE PeerCloses
  <2>1. /\ eof' = TRUE
        /\ UNCHANGED <<input, mem, size, reader, writer, pc, total, arrived, taken>>
    BY <1>4 DEF PeerCloses
  <2> QED BY <1>0, <2>1 DEF Inv, TypeOK, HoldsStream, OutputHeld, Unread, readable_bytes
<1>5. CASE ReadBegin
  BY <1>0, <1>5 DEF ReadBegin, Inv, TypeOK, HoldsStream, OutputHeld, Unread, readable_bytes
<1>6. CASE ReadSome
  <2> DEFINE n == AtMost(RoomAfter(Chunk), Unread)
  <2>1. /\ n > 0 /\ Fill(Chunk, n, taken + readable_bytes + 1)
        /\ total' = total + n /\ pc' \in {"idle", "reading"}
        /\ UNCHANGED <<input, arrived, taken, eof>>
    BY <1>6 DEF ReadSome
  <2>2. Chunk \in Nat \ {0} /\ Unread \in Int /\ RoomAfter(Chunk) \in Int
    <3>1. Chunk \in Nat \ {0} /\ MaxSize \in Nat /\ Initial \in Nat
      OBVIOUS
    <3>2. WriterAfter(Chunk) \in Nat /\ SizeAfter(Chunk) \in Initial .. MaxSize
      BY <1>0, <3>1, SpaceIndices
    <3> QED BY <1>0, <3>1, <3>2 DEF RoomAfter, Unread, TypeOK, readable_bytes
  <2>3. n \in Nat \ {0} /\ n <= RoomAfter(Chunk) /\ n <= Unread
    BY <2>1, <2>2 DEF AtMost
  <2> HIDE DEF n
  <2>4. HoldsStream'
    BY <1>0, <2>1, <2>2, <2>3, FillContents
  <2>5. /\ mem' \in [Cells -> Nat] /\ size' \in Initial .. MaxSize
        /\ reader' \in Nat /\ writer' \in Nat
        /\ reader' <= writer' /\ writer' <= size'
        /\ writer' - reader' = readable_bytes + n
    <3>1. taken + readable_bytes + 1 \in Nat
      BY <1>0 DEF TypeOK, readable_bytes
    <3> QED BY <1>0, <2>1, <2>2, <2>3, <3>1, FillTypes
  <2>6. Unread' = Unread - n
    <3>1. Unread' = arrived' - (taken' + (writer' - reader'))
      BY DEF Unread, readable_bytes
    <3>2. arrived \in Nat /\ taken \in Nat /\ readable_bytes \in Int
      BY <1>0 DEF TypeOK, readable_bytes
    <3>3. arrived' = arrived /\ taken' = taken /\ writer' - reader' = readable_bytes + n
      BY <2>1, <2>5
    <3>4. n \in Nat
      BY <2>3
    <3> QED BY <3>1, <3>2, <3>3, <3>4 DEF Unread
  <2>7. TypeOK'
    BY <1>0, <2>1, <2>2, <2>3, <2>5, <2>6 DEF TypeOK
  <2>8. OutputHeld'
    BY <1>0, <1>6 DEF OutputHeld, ReadSome
  <2> QED BY <2>4, <2>7, <2>8 DEF Inv
<1>7. CASE ReadNothing
  <2>0. Chunk \in Nat \ {0}
    OBVIOUS
  <2>1. /\ mem' = MemAfter(Chunk) /\ size' = SizeAfter(Chunk)
        /\ \/ reader' = ReaderAfter(Chunk) /\ writer' = WriterAfter(Chunk) /\ pc' = "idle"
           \/ reader' = 0 /\ writer' = 0 /\ pc' = "closed" 
        /\ UNCHANGED <<input, total, arrived, taken, eof>>
    BY <1>7 DEF ReadNothing, ensure_writable_bytes
  <2>2. /\ MemAfter(Chunk) \in [Cells -> Nat]
        /\ \A i \in Cells : ReaderAfter(Chunk) <= i /\ i < WriterAfter(Chunk) =>
              MemAfter(Chunk)[i] = taken + (i - ReaderAfter(Chunk)) + 1
    BY <1>0, <2>0, SpaceContents
  <2>3. HoldsStream'
    BY <2>1, <2>2 DEF HoldsStream, Cells
  <2>4. TypeOK'
    BY <1>0, <2>0, <2>1, <2>2, SpaceIndices DEF TypeOK, Unread, readable_bytes
  <2>5. OutputHeld'
    BY <1>0, <1>7 DEF OutputHeld, ReadNothing
  <2> QED BY <2>3, <2>4, <2>5 DEF Inv
<1>8. CASE UNCHANGED vars
  BY <1>0, <1>8 DEF vars, Inv, TypeOK, HoldsStream, OutputHeld, Unread, readable_bytes
<1> QED BY <1>1, <1>2, <1>3, <1>4, <1>5, <1>6, <1>7, <1>8 DEF Next

\* The inductive invariant of the buffer.
THEOREM BufferInv == Spec => []Inv
BY InvInit, InvStep, PTL DEF Spec

\* The reader, the writer and the size of the buffer stay in order and below
\* MAX_BUFFER_SIZE through every retrieve, move and resize.
THEOREM IndicesInBounds == Spec => []TypeOK
<1>1. Inv => TypeOK
  BY DEF Inv
<1> QED BY <1>1, BufferInv, PTL

\* append, read_fd, retrieve and make_space neither lose nor reorder a byte.
THEOREM ContentsAreStream == Spec => []HoldsStream
<1>1. Inv => HoldsStream
  BY DEF Inv
<1> QED BY <1>1, BufferInv, PTL

\* make_space fails to make room for what fits only where the consumed part is
\* shorter than prepend_threshold.
THEOREM StrandedOnly == Spec => []ShortOnlyIfStranded
<1>1. ASSUME TypeOK, NEW n \in 1 .. MaxSize,
             readable_bytes + n <= MaxSize, RoomAfter(n) < n
      PROVE  0 < reader /\ reader < Threshold
  <2>0. /\ n \in Nat \ {0} /\ size \in Nat /\ reader \in Nat /\ writer \in Nat
        /\ reader <= writer /\ writer <= size
        /\ readable_bytes = writer - reader /\ writable_bytes = size - writer
    BY <1>1 DEF TypeOK, readable_bytes, writable_bytes
  <2>1. (size * 3) \div 2 \in Nat /\ (size * 3) \div 2 >= size
    BY <2>0
  <2>2. NewSize(n) \in Nat /\ (NewSize(n) = MaxSize \/ NewSize(n) >= size + n)
    BY <2>0, <2>1 DEF NewSize, AtLeast, AtMost
  <2>3. CASE Moves(n)
    <3>1. ReaderAfter(n) = 0 /\ WriterAfter(n) = readable_bytes /\ writable_bytes < n
      BY <2>3 DEF ReaderAfter, WriterAfter, Moves
    <3>2. CASE Grows(n)
      <4>1. RoomAfter(n) = NewSize(n) - readable_bytes
        BY <3>1, <3>2 DEF RoomAfter, SizeAfter
      <4>2. RoomAfter(n) >= n
        BY <1>1, <2>0, <2>2, <4>1
      <4> QED BY <1>1, <2>0, <2>2, <4>1, <4>2
    <3>3. CASE ~Grows(n)
      BY <1>1, <2>0, <3>1, <3>3 DEF RoomAfter, SizeAfter, Grows
    <3> QED BY <3>2, <3>3
  <2>4. CASE ~Moves(n)
    <3>1. ReaderAfter(n) = reader /\ WriterAfter(n) = writer
      BY <2>4 DEF ReaderAfter, WriterAfter
    <3>2. CASE Grows(n)
      <4>1. writable_bytes < n /\ RoomAfter(n) = NewSize(n) - writer
        BY <3>1, <3>2 DEF Grows, RoomAfter, SizeAfter
      <4>2. reader < Threshold
        BY <2>0, <2>4, <4>1 DEF Moves
      <4>3. 0 < reader
        BY <1>1, <2>0, <2>2, <4>1
      <4> QED BY <4>2, <4>3
    <3>3. CASE ~Grows(n)
      <4>1. RoomAfter(n) = size - writer
        BY <3>1, <3>3 DEF RoomAfter, SizeAfter
      <4>2. writable_bytes < n
        BY <1>1, <2>0, <4>1
      <4>3. reader < Threshold
        BY <2>0, <2>4, <4>2 DEF Moves
      <4>4. (size - writer) + reader >= n
        BY <2>0, <3>1, <3>3, <4>2 DEF Grows
      <4> QED BY <1>1, <2>0, <4>1, <4>3, <4>4
    <3> QED BY <3>2, <3>3
  <2> QED BY <2>3, <2>4
<1>2. TypeOK => ShortOnlyIfStranded
  BY <1>1 DEF ShortOnlyIfStranded
<1> QED BY <1>2, IndicesInBounds, PTL
=============================================================================
