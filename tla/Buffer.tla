------------------------------- MODULE Buffer -------------------------------
(***************************************************************************)
(* The byte buffer of every connection, message and tag (utils/Buffer.cpp):*)
(* a vector of bytes with the unread ones between two indices.  The first  *)
(* IDX_BEGIN bytes are kept free.  Before bytes are put in, what is unread *)
(* is moved to the front; appending enlarges the vector where that is not  *)
(* enough, reading from a socket takes only what there is room for.        *)
(*                                                                         *)
(* A buffer is used by one thread at a time; a connection's two buffers    *)
(* belong to its loop's thread, and a message's bytes become a tag's by    *)
(* SwapBuffer.                                                             *)
(***************************************************************************)
EXTENDS Naturals, Sequences

CONSTANTS Buffers,              (* the buffers                              *)
          Byte, Zero,           (* the values put in; what resize fills with*)
          Data,                 (* what a caller or a read puts in at once  *)
          IDX_BEGIN,            (* bytes kept free at the front             *)
          DEFAULT_BUFFER_SIZE,  (* room of a new buffer                     *)
          SizeT,                (* 2^64, the numbers of a size_t            *)
          MaxUnread             (* bound: unread bytes of a buffer          *)

ASSUME BufferAssumption ==
    /\ Data \subseteq Seq(Byte) \ {<<>>}
    /\ {IDX_BEGIN, DEFAULT_BUFFER_SIZE, MaxUnread} \subseteq Nat
    /\ SizeT \in Nat \ {0}

VARIABLE buffer

-----------------------------------------------------------------------------
(* One buffer, as a record; buffer_ is the vector, size its size().        *)

ReadableLength(b) == b.write_idx_ - b.read_idx_
WritableLength(b) == b.size - b.write_idx_

(* What ReadBegin() and ReadableLength() designate.                        *)
Unread(b) == [i \in 1 .. ReadableLength(b) |-> b.buffer_[b.read_idx_ + i - 1]]

NewBuffer ==
    [buffer_ |-> [i \in 0 .. (IDX_BEGIN + DEFAULT_BUFFER_SIZE) - 1 |-> Zero],
     size |-> IDX_BEGIN + DEFAULT_BUFFER_SIZE,
     read_idx_ |-> IDX_BEGIN, write_idx_ |-> IDX_BEGIN,
     sum_read_ |-> 0, sum_write_ |-> 0]

AddWriteIndex(b, n) ==
    [b EXCEPT !.write_idx_ = @ + n, !.sum_write_ = (@ + n) % SizeT]

(* Mutant: not limited to what is unread.                                  *)
AddReadIndexUnlimited(b, n) ==
    [b EXCEPT !.read_idx_ = @ + n, !.sum_read_ = (@ + n) % SizeT]

AddReadIndex(b, index) ==
    LET n == IF index > ReadableLength(b) THEN ReadableLength(b) ELSE index IN
    [b EXCEPT !.read_idx_ = @ + n, !.sum_read_ = (@ + n) % SizeT]

(* Mutant: the whole vector is moved down, the free bytes with it.         *)
AdjustBufferFromStart(b) ==
    LET n == ReadableLength(b) IN
    [b EXCEPT !.buffer_ = [i \in 0 .. b.size - 1 |->
                              IF i < n THEN b.buffer_[b.read_idx_ + i] ELSE @[i]],
              !.read_idx_ = IDX_BEGIN, !.write_idx_ = IDX_BEGIN + n]

AdjustBuffer(b) ==
    LET n == ReadableLength(b)
        moved == IDX_BEGIN .. IDX_BEGIN + n - 1 IN
    [b EXCEPT !.buffer_ = [i \in 0 .. b.size - 1 |->
                              IF i \in moved THEN b.buffer_[b.read_idx_ + (i - IDX_BEGIN)]
                                             ELSE b.buffer_[i]],
              !.read_idx_ = IDX_BEGIN, !.write_idx_ = IDX_BEGIN + n]

(* The vector gets IDX_BEGIN bytes more than it is asked for.              *)
ReSize(b, new_size) ==
    [b EXCEPT !.buffer_ = [i \in 0 .. (new_size + IDX_BEGIN) - 1 |->
                              IF i < b.size THEN b.buffer_[i] ELSE Zero],
              !.size = new_size + IDX_BEGIN]

(* memcpy to WriteBegin().                                                 *)
Store(b, data) ==
    [b EXCEPT !.buffer_ = [i \in 0 .. b.size - 1 |->
                              IF i \in b.write_idx_ .. b.write_idx_ + Len(data) - 1
                              THEN data[i - b.write_idx_ + 1] ELSE b.buffer_[i]]]

(* Mutant: enlarged without making use of the bytes already read.          *)
AppendDataAtEnd(b, data) ==
    LET r == IF Len(data) > WritableLength(b)
             THEN ReSize(b, b.size + (Len(data) - WritableLength(b))) ELSE b
    IN  AddWriteIndex(Store(r, data), Len(data))

AppendData(b, data) ==
    LET a == AdjustBuffer(b)
        r == IF Len(data) > WritableLength(a)
             THEN ReSize(a, a.size + (Len(data) - WritableLength(a))) ELSE a
    IN  AddWriteIndex(Store(r, data), Len(data))

Reset(b) == [b EXCEPT !.read_idx_ = IDX_BEGIN, !.write_idx_ = IDX_BEGIN,
                      !.sum_read_ = 0, !.sum_write_ = 0]

-----------------------------------------------------------------------------

Init == buffer = [x \in Buffers |-> NewBuffer]

(* The bound on what a caller leaves unread.                               *)
Fits(x, n) == ReadableLength(buffer[x]) + n <= MaxUnread

AppendBytes(x, data) ==
    /\ Fits(x, Len(data))
    /\ buffer' = [buffer EXCEPT ![x] = AppendData(@, data)]

(* AppendData of another buffer, which keeps its bytes.                    *)
AppendBuffer(x, y) ==
    /\ x # y /\ Fits(x, ReadableLength(buffer[y]))
    /\ buffer' = [buffer EXCEPT ![x] = AppendData(@, Unread(buffer[y]))]

(* A caller that writes to WriteBegin() itself, as FlvManager does.        *)
WriteInPlace(x, data) ==
    /\ Len(data) <= WritableLength(buffer[x]) /\ Fits(x, Len(data))
    /\ buffer' = [buffer EXCEPT ![x] = AddWriteIndex(Store(@, data), Len(data))]

(* read() gives at most what there is room for; 0 is the end of the stream *)
(* or a full buffer, -1 an error.  The bytes are moved in every case.      *)
ReadFromSockfd(x) ==
    LET a == AdjustBuffer(buffer[x]) IN
    \/ buffer' = [buffer EXCEPT ![x] = a]
    \/ \E data \in Data :
          /\ Len(data) <= WritableLength(a) /\ Fits(x, Len(data))
          /\ buffer' = [buffer EXCEPT ![x] = AddWriteIndex(Store(a, data), Len(data))]

ReadFromSockfdAndDrop(x) ==
    LET a == AdjustBuffer(buffer[x]) IN
    \E data \in Data :
        /\ Len(data) <= WritableLength(a)
        /\ buffer' = [buffer EXCEPT ![x] = Store(a, data)]

(* A parser has used n bytes; ReadAllAsString and DropAllData: all of them.*)
Consume(x) ==
    \E n \in 1 .. MaxUnread + 1 :
        buffer' = [buffer EXCEPT ![x] = AddReadIndex(@, n)]

ResetBuffer(x) == buffer' = [buffer EXCEPT ![x] = Reset(@)]

SwapBuffer(x, y) == buffer' = [buffer EXCEPT ![x] = buffer[y], ![y] = buffer[x]]

Next ==
    \E x \in Buffers :
        \/ \E data \in Data : AppendBytes(x, data) \/ WriteInPlace(x, data)
        \/ ReadFromSockfd(x) \/ ReadFromSockfdAndDrop(x)
        \/ Consume(x) \/ ResetBuffer(x)
        \/ \E y \in Buffers : AppendBuffer(x, y) \/ SwapBuffer(x, y)

Spec == Init /\ [][Next]_buffer

-----------------------------------------------------------------------------
(* Buffer.cpp:24-32: the indices are in order and inside the vector, so    *)
(* that neither length wraps around and no byte beside the vector is used. *)
BufferOK(b) ==
    /\ b.size \in Nat /\ b.read_idx_ \in Nat /\ b.write_idx_ \in Nat
    /\ IDX_BEGIN <= b.read_idx_
    /\ b.read_idx_ <= b.write_idx_
    /\ b.write_idx_ <= b.size
    /\ b.buffer_ \in [0 .. b.size - 1 -> Byte \cup {Zero}]
    /\ b.sum_read_ \in 0 .. SizeT - 1 /\ b.sum_write_ \in 0 .. SizeT - 1

Fields == {"buffer_", "size", "read_idx_", "write_idx_", "sum_read_", "sum_write_"}

TypeOK ==
    /\ DOMAIN buffer = Buffers
    /\ \A x \in Buffers : DOMAIN buffer[x] = Fields /\ BufferOK(buffer[x])

(* Buffer.cpp:64-171: whatever is moved, enlarged or swapped, the unread   *)
(* bytes are those put in and not taken out, in the order they were put in.*)
BQ == INSTANCE ByteQueue WITH contents <- [x \in Buffers |-> Unread(buffer[x])]
ImplementsByteQueue == BQ!Spec

(* Buffer.cpp:34-52, 82-90: what was put in less what was taken out, both  *)
(* modulo 2^64, is what is unread.                                         *)
SumsAgree ==
    \A x \in Buffers :
        (buffer[x].sum_read_ + ReadableLength(buffer[x])) % SizeT = buffer[x].sum_write_

(* Buffer.cpp:92-104: a vector is enlarged to no more than its unread bytes*)
(* and twice IDX_BEGIN, however long the buffer has been in use.           *)
GrowsToFit ==
    [][\A x \in Buffers :
          \/ buffer'[x].size \in {buffer[y].size : y \in Buffers}
          \/ buffer'[x].size = ReadableLength(buffer'[x]) + 2 * IDX_BEGIN]_buffer
=============================================================================
