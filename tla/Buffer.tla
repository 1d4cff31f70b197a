------------------------------- MODULE Buffer -------------------------------
(***************************************************************************)
(* The byte buffer of a connection (buffer_utils.h): one vector with a     *)
(* reader and a writer index.  An input_buffer_ is filled by read_fd and   *)
(* emptied by the protocol handlers; an output_buffer_ is filled by send   *)
(* and emptied by handle_write.  Byte number k of the stream is the value  *)
(* k, so the buffer's contents say which bytes it holds and in what order. *)
(***************************************************************************)
EXTENDS Integers

CONSTANTS
    Initial,    \* INITIAL_BUFFER_SIZE
    Chunk,      \* READ_CHUNK_SIZE
    Threshold,  \* prepend_threshold
    MaxSize,    \* MAX_BUFFER_SIZE
    MaxBytes    \* bound: bytes of the stream

ASSUME BufferAssumption ==
    /\ {Initial, Chunk, Threshold, MaxSize, MaxBytes} \subseteq Nat \ {0}
    /\ Chunk <= Initial /\ 2 * Initial <= MaxSize

VARIABLES
    input,    \* TRUE: an input_buffer_; FALSE: an output_buffer_
    mem,      \* the bytes of buffer_, 0 where none was written
    size,     \* buffer_.size()
    reader,   \* reader_index_
    writer,   \* writer_index_
    pc,       \* between calls, in the loop of read_fd, connection shut down,
              \* or past the end of the vector, where nothing is defined
    total,    \* what read_fd has read in this call
    arrived,  \* bytes received by the socket (input) or handed to send
    taken,    \* bytes consumed from the buffer
    eof       \* the peer has closed

vars == <<input, mem, size, reader, writer, pc, total, arrived, taken, eof>>

Cells == 0 .. MaxSize - 1

readable_bytes == writer - reader
writable_bytes == size - writer

\* What the socket has received and read_fd has not read yet.
Unread == arrived - (taken + readable_bytes)

-----------------------------------------------------------------------------
(* ensure_writable_bytes and make_space: the bytes move to the front when   *)
(* the consumed part is large, then the vector grows when both free parts   *)
(* together are too small.                                                  *)

Moves(len) == writable_bytes < len /\ reader >= Threshold

ReaderAfter(len) == IF Moves(len) THEN 0 ELSE reader
WriterAfter(len) == IF Moves(len) THEN readable_bytes ELSE writer

MemAfterMutant(len) == mem

MemAfter(len) ==
    IF Moves(len)
    THEN [i \in Cells |-> IF i < readable_bytes THEN mem[reader + i] ELSE mem[i]]
    ELSE mem

Grows(len) ==
    writable_bytes < len /\ (size - WriterAfter(len)) + ReaderAfter(len) < len

AtLeast(a, b) == IF a < b THEN b ELSE a
AtMost(a, b) == IF a < b THEN a ELSE b

NewSizeMutant(len) == AtMost(AtLeast((size * 3) \div 2, 2 * Initial), MaxSize)
NewSizeMutant2(len) == AtLeast((size * 3) \div 2 + len, 2 * Initial)

NewSize(len) == AtMost(AtLeast((size * 3) \div 2 + len, 2 * Initial), MaxSize)

SizeAfter(len) == IF Grows(len) THEN NewSize(len) ELSE size

\* Room for writing once make_space is done.
RoomAfter(len) == SizeAfter(len) - WriterAfter(len)

ensure_writable_bytes(len) ==
    /\ mem' = MemAfter(len)
    /\ size' = SizeAfter(len)
    /\ reader' = ReaderAfter(len)
    /\ writer' = WriterAfter(len)

\* ensure_writable_bytes(len), then n bytes of the stream from `first` on.
Fill(len, n, first) ==
    /\ mem' = [i \in Cells |->
                 IF WriterAfter(len) <= i /\ i < WriterAfter(len) + n
                 THEN first + (i - WriterAfter(len)) ELSE MemAfter(len)[i]]
    /\ size' = SizeAfter(len)
    /\ reader' = ReaderAfter(len)
    /\ writer' = WriterAfter(len) + n

\* The indices go back to 0 with the last byte.
retrieve(n) ==
    /\ IF n < readable_bytes
       THEN reader' = reader + n /\ writer' = writer
       ELSE reader' = 0 /\ writer' = 0
    /\ taken' = taken + n

-----------------------------------------------------------------------------
(* An output buffer.                                                        *)

\* send: the limit is on the bytes held.  make_space may leave too little
\* room all the same, and copy_n writes past the end of the vector.
Append(n) ==
    /\ ~input /\ pc = "idle" /\ arrived + n <= MaxBytes
    /\ readable_bytes + n <= MaxSize
    /\ IF RoomAfter(n) < n
       THEN pc' = "undefined" /\ UNCHANGED <<mem, size, reader, writer, arrived>>
       ELSE Fill(n, n, arrived + 1) /\ arrived' = arrived + n /\ UNCHANGED pc
    /\ UNCHANGED <<input, total, taken, eof>>

\* handle_write: the socket takes n bytes.  shrink_to_fit gives back spare
\* capacity; it leaves size() as it is.
HandleWrite(n) ==
    /\ ~input /\ pc = "idle" /\ n <= readable_bytes
    /\ retrieve(n)
    /\ UNCHANGED <<input, mem, size, pc, total, arrived, eof>>

-----------------------------------------------------------------------------
(* An input buffer.                                                         *)

Arrive(n) ==
    /\ input /\ ~eof /\ arrived + n <= MaxBytes
    /\ arrived' = arrived + n
    /\ UNCHANGED <<input, mem, size, reader, writer, pc, total, taken, eof>>

PeerCloses ==
    /\ input /\ ~eof
    /\ eof' = TRUE
    /\ UNCHANGED <<input, mem, size, reader, writer, pc, total, arrived, taken>>

\* handle_read: the socket was reported readable.
ReadBegin ==
    /\ input /\ pc = "idle" /\ (Unread > 0 \/ eof)
    /\ pc' = "reading" /\ total' = 0
    /\ UNCHANGED <<input, mem, size, reader, writer, arrived, taken, eof>>

\* One turn of the loop that gets bytes.  A short read ends it.
ReadSome ==
    LET n == AtMost(RoomAfter(Chunk), Unread) IN
    /\ pc = "reading" /\ n > 0
    /\ Fill(Chunk, n, taken + readable_bytes + 1)
    /\ total' = total + n
    /\ pc' = IF n < Chunk \div 2 THEN "idle" ELSE "reading"
    /\ UNCHANGED <<input, arrived, taken, eof>>

\* read returns nothing: it had no room, the socket is empty (EAGAIN), or the
\* peer has closed.  handle_read takes a total of 0 for the end of the stream
\* and shuts the connection down, which empties the buffer.
ReadNothing ==
    /\ pc = "reading" /\ (RoomAfter(Chunk) = 0 \/ Unread = 0)
    /\ IF total > 0
       THEN ensure_writable_bytes(Chunk) /\ pc' = "idle"
       ELSE /\ pc' = "closed" /\ reader' = 0 /\ writer' = 0
            /\ mem' = MemAfter(Chunk) /\ size' = SizeAfter(Chunk)
    /\ UNCHANGED <<input, total, arrived, taken, eof>>

\* A protocol handler consumes n bytes.
Consume(n) ==
    /\ input /\ pc = "idle" /\ n <= readable_bytes
    /\ retrieve(n)
    /\ UNCHANGED <<input, mem, size, pc, total, arrived, eof>>

-----------------------------------------------------------------------------
Init ==
    /\ input \in BOOLEAN
    /\ mem = [i \in Cells |-> 0] /\ size = Initial
    /\ reader = 0 /\ writer = 0
    /\ pc = "idle" /\ total = 0
    /\ arrived = 0 /\ taken = 0 /\ eof = FALSE

Next ==
    \/ \E n \in 1 .. MaxSize : Append(n) \/ HandleWrite(n) \/ Arrive(n) \/ Consume(n)
    \/ PeerCloses \/ ReadBegin \/ ReadSome \/ ReadNothing

Spec == Init /\ [][Next]_vars

-----------------------------------------------------------------------------
(* Safety.                                                                  *)

(* The indices stay in order and inside the vector, and the vector below    *)
(* MAX_BUFFER_SIZE, whatever moved or grew.                                 *)
TypeOK ==
    /\ input \in BOOLEAN /\ mem \in [Cells -> Nat]
    /\ size \in Initial .. MaxSize
    /\ reader \in Nat /\ writer \in Nat
    /\ reader <= writer /\ writer <= size
    /\ pc \in {"idle", "reading", "closed", "undefined"}
    /\ total \in Nat /\ arrived \in Nat /\ taken \in Nat /\ eof \in BOOLEAN
    /\ Unread >= 0

(* No byte is lost, repeated or reordered by the moves and the growth of    *)
(* make_space: the buffer holds the next bytes of the stream.               *)
HoldsStream ==
    \A i \in Cells : reader <= i /\ i < writer => mem[i] = taken + (i - reader) + 1

(* Of everything that fits under MAX_BUFFER_SIZE, make_space fails to make  *)
(* room only when the consumed bytes in front are fewer than the threshold  *)
(* from which they are recovered.                                           *)
ShortOnlyIfStranded ==
    \A n \in 1 .. MaxSize :
        readable_bytes + n <= MaxSize /\ RoomAfter(n) < n => 0 < reader /\ reader < Threshold
=============================================================================
