---------------------------- MODULE BufferProofs ----------------------------
(***************************************************************************)
(* Proofs about Buffer for any sizes: every operation keeps the indices in *)
(* order and inside the vector, and does to the unread bytes what ByteQueue*)
(* says.                                                                   *)
(***************************************************************************)
EXTENDS Buffer, Integers, SequenceTheorems, TLAPS

Value == Byte \cup {Zero}

(* The vectors, of any size.                                               *)
Vector == UNION {[0 .. n - 1 -> Value] : n \in Nat}

Record == [buffer_ : Vector, size : Nat, read_idx_ : Nat, write_idx_ : Nat,
           sum_read_ : Nat, sum_write_ : Nat]

Good(b) == b \in Record /\ BufferOK(b)

SumOK(b) == (b.sum_read_ + ReadableLength(b)) % SizeT = b.sum_write_

(* The unread bytes are a sequence.                                        *)
LEMMA UnreadSeq ==
  ASSUME NEW b, Good(b)
  PROVE  /\ Unread(b) \in Seq(Value)
         /\ Len(Unread(b)) = ReadableLength(b)
         /\ ReadableLength(b) \in Nat
         /\ \A i \in 1 .. ReadableLength(b) :
               Unread(b)[i] = b.buffer_[b.read_idx_ + i - 1]
<1>1. ReadableLength(b) \in Nat
  BY BufferAssumption DEF Good, BufferOK, ReadableLength
<1>2. ASSUME NEW i \in 1 .. ReadableLength(b)
      PROVE  b.buffer_[b.read_idx_ + i - 1] \in Value
  <2>1. b.read_idx_ + i - 1 \in 0 .. b.size - 1
    BY BufferAssumption DEF Good, BufferOK, ReadableLength
  <2> QED
    BY <2>1 DEF Good, BufferOK, Value
<1>3. Unread(b) \in [1 .. ReadableLength(b) -> Value]
  BY <1>2 DEF Unread
<1>4. Unread(b) \in Seq(Value) /\ Len(Unread(b)) = ReadableLength(b)
  BY <1>1, <1>3
<1> QED
  BY <1>1, <1>4 DEF Unread

LEMMA NewBufferGood == Good(NewBuffer) /\ SumOK(NewBuffer) /\ Unread(NewBuffer) = <<>>
<1> DEFINE n == IDX_BEGIN + DEFAULT_BUFFER_SIZE
           v == [i \in 0 .. (IDX_BEGIN + DEFAULT_BUFFER_SIZE) - 1 |-> Zero]
           c == NewBuffer
<1>1. n \in Nat /\ IDX_BEGIN \in Nat /\ IDX_BEGIN <= n
  BY BufferAssumption
<1>2. v \in [0 .. (IDX_BEGIN + DEFAULT_BUFFER_SIZE) - 1 -> Value]
  BY DEF Value
<1>3. /\ c.buffer_ = v /\ c.size = IDX_BEGIN + DEFAULT_BUFFER_SIZE
      /\ c.read_idx_ = IDX_BEGIN /\ c.write_idx_ = IDX_BEGIN
      /\ c.sum_read_ = 0 /\ c.sum_write_ = 0
  BY DEF NewBuffer
<1>4. 0 \in 0 .. SizeT - 1
  BY BufferAssumption
<1>5. v \in Vector
  <2> HIDE DEF v
  <2>1. n \in Nat
    BY <1>1
  <2>2. v \in [0 .. n - 1 -> Value]
    BY ONLY <1>2
  <2> HIDE DEF n
  <2> QED
    BY <2>1, <2>2 DEF Vector
<1>6. NewBuffer \in Record
  BY <1>1, <1>5 DEF Record, NewBuffer
<1> HIDE DEF v, c
<1>7. c.buffer_ = v /\ v \in [0 .. n - 1 -> Value] /\ c.size = n
  <2>1. v \in [0 .. n - 1 -> Value]
    BY ONLY <1>2
  <2>2. c.buffer_ = v /\ c.size = n
    BY <1>3
  <2> QED
    BY ONLY <2>1, <2>2
<1> HIDE DEF n
<1>8. BufferOK(c)
  BY <1>1, <1>3, <1>4, <1>7 DEF BufferOK, Value
<1>9. ReadableLength(c) = 0
  BY <1>1, <1>3 DEF ReadableLength
<1>10. Good(c)
  BY <1>6, <1>8 DEF Good, c
<1>11. Unread(c) \in Seq(Value) /\ Len(Unread(c)) = 0
  BY <1>9, <1>10, UnreadSeq
<1>12. Unread(c) = <<>>
  BY <1>11, EmptySeq
<1>13. SumOK(c)
  <2>1. 0 + 0 = 0 /\ 0 % SizeT = 0
    BY BufferAssumption
  <2> QED
    BY <1>3, <1>9, <2>1 DEF SumOK
<1> QED
  BY <1>10, <1>12, <1>13 DEF c

-----------------------------------------------------------------------------
(* Arithmetic modulo the size of a size_t.                                 *)

LEMMA Divided ==
  ASSUME NEW x \in Int, NEW n \in Nat \ {0}
  PROVE  \E q \in Int : x = n * q + (x % n)
<1>1. \E q \in Int, r \in 0 .. n - 1 : x = n * q + r /\ r = x % n
  BY SMT
<1> QED
  BY ONLY <1>1

LEMMA OneRemainder ==
  ASSUME NEW q \in Int, NEW p \in Int, NEW n \in Nat \ {0},
         NEW r \in 0 .. n - 1, NEW s \in 0 .. n - 1, n * q + r = n * p + s
  PROVE  r = s
<1>1. CASE q > p
  <2>1. n * (q - p) >= n /\ n * (q - p) = n * q - n * p
    BY <1>1
  <2> QED
    BY <2>1
<1>2. CASE q < p
  <2>1. n * (p - q) >= n /\ n * (p - q) = n * p - n * q
    BY <1>2
  <2> QED
    BY <2>1
<1>3. CASE q = p
  BY <1>3
<1> QED
  BY <1>1, <1>2, <1>3

LEMMA ModPlus ==
  ASSUME NEW x \in Nat, NEW y \in Nat, NEW n \in Nat \ {0}
  PROVE  ((x % n) + y) % n = (x + y) % n
<1> DEFINE r == x % n
           s == (r + y) % n
           t == (x + y) % n
<1>1. r \in 0 .. n - 1 /\ s \in 0 .. n - 1 /\ t \in 0 .. n - 1
  BY SMT
<1>2. x \in Int /\ r + y \in Int /\ x + y \in Int
  BY <1>1
<1>3. PICK p \in Int : x = n * p + r
  BY <1>2, Divided, Zenon
<1>4. PICK q \in Int : r + y = n * q + s
  BY <1>2, Divided, Zenon
<1>5. PICK u \in Int : x + y = n * u + t
  BY <1>2, Divided, Zenon
<1> HIDE DEF r, s, t
<1>6. n * (p + q) + s = n * u + t
  <2>1. n * (p + q) = n * p + n * q
    OBVIOUS
  <2> QED
    BY <1>1, <1>3, <1>4, <1>5, <2>1
<1>7. s = t
  <2>1. p + q \in Int
    OBVIOUS
  <2> QED
    BY <2>1, <1>1, <1>6, OneRemainder
<1> QED
  BY <1>7 DEF r, s, t

-----------------------------------------------------------------------------
(* Buffer.cpp:40-52: at most the unread bytes are skipped.                 *)
LEMMA AddReadIndexTakes ==
  ASSUME NEW b, Good(b), NEW n \in Nat
  PROVE  /\ Good(AddReadIndex(b, n))
         /\ AddReadIndex(b, n).size = b.size
         /\ SumOK(b) => SumOK(AddReadIndex(b, n))
         /\ \E k \in 0 .. ReadableLength(b) :
               Unread(AddReadIndex(b, n)) = SubSeq(Unread(b), k + 1, Len(Unread(b)))
<1> DEFINE k == IF n > ReadableLength(b) THEN ReadableLength(b) ELSE n
           c == AddReadIndex(b, n)
<1>1. ReadableLength(b) \in Nat /\ k \in 0 .. ReadableLength(b)
  BY UnreadSeq
<1>2. (b.sum_read_ + k) % SizeT \in Nat /\ (b.sum_read_ + k) % SizeT \in 0 .. SizeT - 1
  <2> HIDE DEF k
  <2>1. b.sum_read_ + k \in Nat /\ SizeT \in Nat \ {0}
    BY <1>1, BufferAssumption DEF Good, Record
  <2> QED
    BY <2>1
<1>3. /\ c.buffer_ = b.buffer_ /\ c.size = b.size
      /\ c.write_idx_ = b.write_idx_ /\ c.sum_write_ = b.sum_write_
      /\ c.read_idx_ = b.read_idx_ + k
      /\ c.sum_read_ = (b.sum_read_ + k) % SizeT
      /\ c = [b EXCEPT !.read_idx_ = b.read_idx_ + k,
                       !.sum_read_ = (b.sum_read_ + k) % SizeT]
  BY DEF AddReadIndex, Good, Record
<1> HIDE DEF k, c
<1>4. b.read_idx_ + k \in Nat /\ b.read_idx_ + k <= b.write_idx_ /\ IDX_BEGIN <= b.read_idx_ + k
  BY <1>1, BufferAssumption DEF Good, BufferOK, ReadableLength
<1>5. Good(c)
  <2>1. BufferOK(c)
    BY <1>2, <1>3, <1>4 DEF Good, BufferOK
  <2>2. c \in Record
    BY <1>2, <1>3, <1>4 DEF Good, Record
  <2> QED
    BY <2>1, <2>2 DEF Good
<1>6. ReadableLength(c) = ReadableLength(b) - k
  BY <1>1, <1>3 DEF ReadableLength, Good, BufferOK
<1>7. Unread(c) = SubSeq(Unread(b), k + 1, Len(Unread(b)))
  <2> DEFINE s == Unread(b)
             t == SubSeq(s, k + 1, Len(s))
  <2>1. /\ s \in Seq(Value) /\ Len(s) = ReadableLength(b)
        /\ \A i \in 1 .. ReadableLength(b) : s[i] = b.buffer_[b.read_idx_ + i - 1]
    BY UnreadSeq
  <2>2. \A i \in k + 1 .. Len(s) : s[i] \in Value
    BY <1>1, <2>1
  <2>3. k + 1 \in Int /\ Len(s) \in Int
    BY <1>1, <2>1
  <2>4. /\ t \in Seq(Value)
        /\ Len(t) = IF k + 1 <= Len(s) THEN Len(s) - (k + 1) + 1 ELSE 0
        /\ \A i \in 1 .. Len(s) - (k + 1) + 1 : t[i] = s[(k + 1) + i - 1]
    BY <2>2, <2>3, SubSeqProperties
  <2>5. Len(t) = ReadableLength(b) - k
    BY <1>1, <2>1, <2>4
  <2>6. ASSUME NEW i \in 1 .. Len(t)
        PROVE  t[i] = c.buffer_[c.read_idx_ + i - 1]
    <3>1. /\ (k + 1) + i - 1 \in 1 .. ReadableLength(b)
          /\ i \in 1 .. Len(s) - (k + 1) + 1
          /\ b.read_idx_ + ((k + 1) + i - 1) - 1 = c.read_idx_ + i - 1
      <4> HIDE DEF s, t
      <4>1. b.read_idx_ \in Nat /\ ReadableLength(b) \in Nat /\ k \in 0 .. ReadableLength(b)
        BY <1>1 DEF Good, Record
      <4>2. i \in 1 .. ReadableLength(b) - k
        BY <2>5
      <4> QED
        BY <4>1, <4>2, <1>3, <2>1
    <3> QED
      BY <2>1, <2>4, <3>1, <1>3
  <2>7. /\ Unread(c) \in Seq(Value) /\ Len(Unread(c)) = Len(t)
        /\ \A i \in 1 .. Len(t) : Unread(c)[i] = c.buffer_[c.read_idx_ + i - 1]
    BY <1>5, <1>6, <2>5, UnreadSeq
  <2> HIDE DEF t
  <2>8. Unread(c) = t
    BY <2>4, <2>6, <2>7, SeqEqual
  <2> QED
    BY <2>8 DEF t
<1>8. SumOK(b) => SumOK(c)
  <2> DEFINE r == ReadableLength(b)
  <2>1. /\ b.sum_read_ + k \in Nat /\ r - k \in Nat /\ SizeT \in Nat \ {0}
        /\ (b.sum_read_ + k) + (r - k) = b.sum_read_ + r
    BY <1>1, BufferAssumption DEF Good, Record
  <2> HIDE DEF r
  <2>2. (((b.sum_read_ + k) % SizeT) + (r - k)) % SizeT = ((b.sum_read_ + k) + (r - k)) % SizeT
    BY <2>1, ModPlus
  <2>3. (c.sum_read_ + (r - k)) % SizeT = (b.sum_read_ + r) % SizeT
    BY <1>3, <2>1, <2>2
  <2> QED
    BY <1>3, <1>6, <2>3 DEF SumOK, r
<1> QED
  BY <1>1, <1>3, <1>5, <1>7, <1>8 DEF c

(* Buffer.cpp:64-72: moving the unread bytes to the front keeps them.      *)
LEMMA AdjustKeeps ==
  ASSUME NEW b, Good(b)
  PROVE  /\ Good(AdjustBuffer(b))
         /\ AdjustBuffer(b).size = b.size
         /\ AdjustBuffer(b).write_idx_ = IDX_BEGIN + ReadableLength(b)
         /\ SumOK(b) => SumOK(AdjustBuffer(b))
         /\ Unread(AdjustBuffer(b)) = Unread(b)
<1> DEFINE n == ReadableLength(b)
           moved == IDX_BEGIN .. IDX_BEGIN + n - 1
           v == [i \in 0 .. b.size - 1 |->
                    IF i \in moved THEN b.buffer_[b.read_idx_ + (i - IDX_BEGIN)]
                                   ELSE b.buffer_[i]]
           c == AdjustBuffer(b)
<1>1. n \in Nat
  BY UnreadSeq
<1>2. v \in [0 .. b.size - 1 -> Value]
  <2>1. ASSUME NEW i \in 0 .. b.size - 1, i \in moved
        PROVE  b.buffer_[b.read_idx_ + (i - IDX_BEGIN)] \in Value
    <3>1. b.read_idx_ + (i - IDX_BEGIN) \in 0 .. b.size - 1
      BY <2>1, BufferAssumption DEF Good, BufferOK, ReadableLength
    <3> QED
      BY <3>1 DEF Good, BufferOK, Value
  <2>2. ASSUME NEW i \in 0 .. b.size - 1
        PROVE  b.buffer_[i] \in Value
    BY DEF Good, BufferOK, Value
  <2> QED
    BY <2>1, <2>2
<1>3. v \in Vector
  BY <1>2 DEF Vector, Good, BufferOK
<1>4. /\ c.buffer_ = v /\ c.size = b.size
      /\ c.read_idx_ = IDX_BEGIN /\ c.write_idx_ = IDX_BEGIN + n
      /\ c.sum_read_ = b.sum_read_ /\ c.sum_write_ = b.sum_write_
      /\ c = [b EXCEPT !.buffer_ = v, !.read_idx_ = IDX_BEGIN, !.write_idx_ = IDX_BEGIN + n]
  BY DEF AdjustBuffer, Good, Record
<1> HIDE DEF c
<1>5. /\ IDX_BEGIN \in Nat /\ IDX_BEGIN + n \in Nat
      /\ IDX_BEGIN + n <= b.size
  BY <1>1, BufferAssumption DEF Good, BufferOK, ReadableLength
<1>6. \A i \in 1 .. n : v[IDX_BEGIN + i - 1] = b.buffer_[b.read_idx_ + i - 1]
  <2> TAKE i \in 1 .. n
  <2>1. /\ IDX_BEGIN + i - 1 \in moved /\ IDX_BEGIN + i - 1 \in 0 .. b.size - 1
        /\ b.read_idx_ + ((IDX_BEGIN + i - 1) - IDX_BEGIN) = b.read_idx_ + i - 1
    BY <1>1, <1>5 DEF Good, BufferOK
  <2> QED
    BY <2>1
<1> HIDE DEF v
<1>7. Good(c)
  <2>1. BufferOK(c)
    BY <1>1, <1>2, <1>4, <1>5 DEF Good, BufferOK, Value
  <2>2. c \in Record
    BY <1>3, <1>4, <1>5 DEF Good, Record
  <2> QED
    BY <2>1, <2>2 DEF Good
<1>8. ReadableLength(c) = n
  BY <1>1, <1>4, <1>5 DEF ReadableLength
<1>9. Unread(c) = Unread(b)
  BY <1>4, <1>6, <1>8 DEF Unread
<1>10. SumOK(b) => SumOK(c)
  BY <1>4, <1>8 DEF SumOK
<1> QED
  BY <1>4, <1>7, <1>9, <1>10 DEF c

(* Buffer.cpp:137-140: enlarging the vector changes no unread byte.        *)
LEMMA ReSizeKeeps ==
  ASSUME NEW b, Good(b), NEW m \in Nat, b.size <= m
  PROVE  /\ Good(ReSize(b, m))
         /\ ReSize(b, m).size = m + IDX_BEGIN
         /\ ReSize(b, m).write_idx_ = b.write_idx_
         /\ SumOK(b) => SumOK(ReSize(b, m))
         /\ Unread(ReSize(b, m)) = Unread(b)
<1> DEFINE n == m + IDX_BEGIN
           v == [i \in 0 .. (m + IDX_BEGIN) - 1 |-> IF i < b.size THEN b.buffer_[i] ELSE Zero]
           c == ReSize(b, m)
<1>1. m + IDX_BEGIN \in Nat /\ b.size <= m + IDX_BEGIN
  BY BufferAssumption DEF Good, BufferOK
<1>2. v \in [0 .. (m + IDX_BEGIN) - 1 -> Value]
  BY <1>1 DEF Good, BufferOK, Value
<1>3. /\ c.buffer_ = v /\ c.size = m + IDX_BEGIN
      /\ c.read_idx_ = b.read_idx_ /\ c.write_idx_ = b.write_idx_
      /\ c.sum_read_ = b.sum_read_ /\ c.sum_write_ = b.sum_write_
      /\ c = [b EXCEPT !.buffer_ = v, !.size = m + IDX_BEGIN]
  BY DEF ReSize, Good, Record
<1> HIDE DEF c
<1>4. \A i \in 1 .. ReadableLength(b) :
         v[b.read_idx_ + i - 1] = b.buffer_[b.read_idx_ + i - 1]
  <2> TAKE i \in 1 .. ReadableLength(b)
  <2>1. /\ b.read_idx_ + i - 1 \in 0 .. (m + IDX_BEGIN) - 1
        /\ b.read_idx_ + i - 1 < b.size
    BY <1>1, BufferAssumption DEF Good, BufferOK, ReadableLength
  <2> QED
    BY <2>1
<1> HIDE DEF v
<1>5. /\ n \in Nat /\ b.size <= n /\ v \in [0 .. n - 1 -> Value]
      /\ c.size = n /\ c = [b EXCEPT !.buffer_ = v, !.size = n]
  <2>1. n \in Nat /\ b.size <= n
    BY <1>1
  <2>2. v \in [0 .. n - 1 -> Value]
    BY ONLY <1>2
  <2>3. c.size = n /\ c = [b EXCEPT !.buffer_ = v, !.size = n]
    BY ONLY <1>3
  <2> QED
    BY ONLY <2>1, <2>2, <2>3
<1> HIDE DEF n
<1>6. v \in Vector
  BY <1>5 DEF Vector
<1>7. Good(c)
  <2>1. b.write_idx_ <= n
    BY <1>5 DEF Good, BufferOK
  <2>2. BufferOK(c)
    BY <1>3, <1>5, <2>1 DEF Good, BufferOK, Value
  <2>3. c \in Record
    BY <1>5, <1>6 DEF Good, Record
  <2> QED
    BY <2>2, <2>3 DEF Good
<1>8. ReadableLength(c) = ReadableLength(b)
  BY <1>3 DEF ReadableLength
<1>9. Unread(c) = Unread(b)
  BY <1>3, <1>4, <1>8 DEF Unread
<1>10. SumOK(b) => SumOK(c)
  BY <1>3, <1>8 DEF SumOK
<1> QED
  BY <1>3, <1>7, <1>9, <1>10 DEF c

(* memcpy to WriteBegin() and AddWriteIndex: the bytes come after those    *)
(* unread, where there is room for them.                                   *)
LEMMA StorePuts ==
  ASSUME NEW b, Good(b), NEW data \in Seq(Value), Len(data) <= WritableLength(b)
  PROVE  /\ Good(Store(b, data))
         /\ Store(b, data).size = b.size
         /\ SumOK(b) => SumOK(Store(b, data))
         /\ SumOK(b) => SumOK(AddWriteIndex(Store(b, data), Len(data)))
         /\ AddWriteIndex(Store(b, data), Len(data)).size = b.size
         /\ ReadableLength(AddWriteIndex(Store(b, data), Len(data)))
               = ReadableLength(b) + Len(data)
         /\ Unread(Store(b, data)) = Unread(b)
         /\ Good(AddWriteIndex(Store(b, data), Len(data)))
         /\ Unread(AddWriteIndex(Store(b, data), Len(data))) = Unread(b) \o data
<1> DEFINE n == Len(data)
           w == b.write_idx_
           v == [i \in 0 .. b.size - 1 |->
                    IF i \in w .. w + n - 1 THEN data[i - w + 1] ELSE b.buffer_[i]]
           c == Store(b, data)
           d == AddWriteIndex(c, n)
           k == ReadableLength(b)
<1>1. n \in Nat /\ w \in Nat /\ b.size \in Nat /\ w + n <= b.size /\ k \in Nat
  BY LenProperties, UnreadSeq DEF WritableLength, Good, BufferOK
<1>2. v \in [0 .. b.size - 1 -> Value]
  <2>1. ASSUME NEW i \in 0 .. b.size - 1, i \in w .. w + n - 1
        PROVE  data[i - w + 1] \in Value
    <3>1. i - w + 1 \in 1 .. n
      BY <2>1, <1>1
    <3> QED
      BY <3>1
  <2>2. ASSUME NEW i \in 0 .. b.size - 1
        PROVE  b.buffer_[i] \in Value
    BY DEF Good, BufferOK, Value
  <2> QED
    BY <2>1, <2>2
<1>3. /\ c = [b EXCEPT !.buffer_ = v]
      /\ c.buffer_ = v /\ c.size = b.size
      /\ c.read_idx_ = b.read_idx_ /\ c.write_idx_ = b.write_idx_
      /\ c.sum_read_ = b.sum_read_ /\ c.sum_write_ = b.sum_write_
  BY DEF Store, Good, Record
<1>4. \A i \in 1 .. k : v[b.read_idx_ + i - 1] = b.buffer_[b.read_idx_ + i - 1]
  <2> TAKE i \in 1 .. k
  <2>1. b.read_idx_ \in Nat /\ k = w - b.read_idx_
    BY DEF Good, BufferOK, ReadableLength
  <2> HIDE DEF n, w, k
  <2>2. /\ b.read_idx_ + i - 1 \in 0 .. b.size - 1
        /\ b.read_idx_ + i - 1 < w
    BY <1>1, <2>1
  <2>3. b.read_idx_ + i - 1 \notin w .. w + n - 1
    BY <1>1, <2>1, <2>2
  <2> QED
    BY <2>2, <2>3
<1>5. \A i \in 1 .. n : v[b.read_idx_ + (k + i) - 1] = data[i]
  <2> TAKE i \in 1 .. n
  <2>1. b.read_idx_ + (k + i) - 1 = w + i - 1
    BY <1>1 DEF Good, BufferOK, ReadableLength
  <2>2. /\ w + i - 1 \in 0 .. b.size - 1 /\ w + i - 1 \in w .. w + n - 1
        /\ (w + i - 1) - w + 1 = i
    BY <1>1
  <2> QED
    BY <2>1, <2>2
<1> HIDE DEF v
<1>6. v \in Vector
  BY <1>1, <1>2 DEF Vector
<1>7. Good(c)
  <2>1. BufferOK(c)
    BY <1>2, <1>3 DEF Good, BufferOK, Value
  <2>2. c \in Record
    BY <1>3, <1>6 DEF Good, Record
  <2> QED
    BY <2>1, <2>2 DEF Good
<1>8. ReadableLength(c) = k /\ Unread(c) = Unread(b)
  <2>1. ReadableLength(c) = k
    BY <1>3 DEF ReadableLength
  <2> QED
    BY <2>1, <1>3, <1>4 DEF Unread
<1> HIDE DEF c
<1>9. (c.sum_write_ + n) % SizeT \in Nat /\ (c.sum_write_ + n) % SizeT \in 0 .. SizeT - 1
  <2>1. c.sum_write_ + n \in Nat /\ SizeT \in Nat \ {0}
    BY <1>1, <1>7, BufferAssumption DEF Good, Record
  <2> QED
    BY <2>1
<1>10. /\ d.buffer_ = v /\ d.size = b.size
       /\ d.read_idx_ = b.read_idx_ /\ d.write_idx_ = w + n
       /\ d.sum_read_ = b.sum_read_
       /\ d.sum_write_ = (c.sum_write_ + n) % SizeT
       /\ d \in Record
  <2> HIDE DEF n
  <2>1. c.write_idx_ + n \in Nat
    BY <1>1, <1>3
  <2>2. d = [c EXCEPT !.write_idx_ = c.write_idx_ + n,
                      !.sum_write_ = (c.sum_write_ + n) % SizeT]
    BY DEF AddWriteIndex
  <2> QED
    BY <1>3, <1>7, <1>9, <2>1, <2>2 DEF Good, Record
<1> HIDE DEF d
<1>11. Good(d)
  <2>1. BufferOK(d)
    BY <1>1, <1>2, <1>9, <1>10 DEF Good, BufferOK, Value
  <2> QED
    BY <1>10, <2>1 DEF Good
<1>12. ReadableLength(d) = k + n
  BY <1>1, <1>10 DEF ReadableLength, Good, BufferOK
<1>13. Unread(d) = Unread(b) \o data
  <2> DEFINE s == Unread(b)
             t == s \o data
             u == Unread(d)
  <2>1. /\ s \in Seq(Value) /\ Len(s) = k
        /\ \A i \in 1 .. k : s[i] = b.buffer_[b.read_idx_ + i - 1]
    BY UnreadSeq
  <2>2. /\ u \in Seq(Value) /\ Len(u) = k + n
        /\ \A i \in 1 .. k + n : u[i] = v[b.read_idx_ + i - 1]
    BY <1>10, <1>11, <1>12, UnreadSeq
  <2> HIDE DEF s, u, k, w
  <2>3. /\ t \in Seq(Value) /\ Len(t) = k + n
        /\ \A i \in 1 .. k + n : t[i] = IF i <= k THEN s[i] ELSE data[i - k]
    BY <2>1, ConcatProperties
  <2> HIDE DEF t, n
  <2>4. ASSUME NEW i \in 1 .. k + n
        PROVE  u[i] = t[i]
    <3>1. CASE i <= k
      <4>1. i \in 1 .. k
        BY <3>1, <1>1
      <4> QED
        BY <3>1, <4>1, <1>4, <2>1, <2>2, <2>3
    <3>2. CASE ~(i <= k)
      <4>1. i - k \in 1 .. n /\ k + (i - k) = i
        BY <3>2, <1>1
      <4> QED
        BY <3>2, <4>1, <1>5, <2>2, <2>3
    <3> QED
      BY <3>1, <3>2
  <2>5. u = t
    BY <2>2, <2>3, <2>4, SeqEqual
  <2> QED
    BY <2>5 DEF s, t, u
<1>14. SumOK(b) => SumOK(c)
  BY <1>3, <1>8 DEF SumOK
<1>15. SumOK(b) => SumOK(d)
  <2> HIDE DEF n, k
  <2>1. /\ b.sum_read_ + k \in Nat /\ SizeT \in Nat \ {0}
        /\ (b.sum_read_ + k) + n = b.sum_read_ + (k + n)
    BY <1>1, BufferAssumption DEF Good, Record
  <2>2. (((b.sum_read_ + k) % SizeT) + n) % SizeT = ((b.sum_read_ + k) + n) % SizeT
    BY <1>1, <2>1, ModPlus
  <2>3. (b.sum_read_ + (k + n)) % SizeT = (((b.sum_read_ + k) % SizeT) + n) % SizeT
    BY <2>1, <2>2
  <2>4. (b.sum_read_ + k) % SizeT = b.sum_write_ =>
           (b.sum_read_ + (k + n)) % SizeT = d.sum_write_
    BY <1>3, <1>10, <2>3
  <2> QED
    BY <1>10, <1>12, <2>4 DEF SumOK, k
<1> QED
  BY <1>3, <1>7, <1>8, <1>10, <1>11, <1>12, <1>13, <1>14, <1>15 DEF c, d

(* Buffer.cpp:92-109: what is appended comes after what is unread, and the *)
(* vector gets no longer than it has to.                                   *)
LEMMA AppendDataPuts ==
  ASSUME NEW b, Good(b), NEW data \in Seq(Value)
  PROVE  /\ Good(AppendData(b, data))
         /\ SumOK(b) => SumOK(AppendData(b, data))
         /\ Unread(AppendData(b, data)) = Unread(b) \o data
         /\ \/ AppendData(b, data).size = b.size
            \/ AppendData(b, data).size =
                  ReadableLength(AppendData(b, data)) + 2 * IDX_BEGIN
<1> DEFINE n == Len(data)
           a == AdjustBuffer(b)
           m == a.size + (n - WritableLength(a))
           r == IF n > WritableLength(a) THEN ReSize(a, m) ELSE a
           d == AddWriteIndex(Store(r, data), n)
<1>1. /\ Good(a) /\ (SumOK(b) => SumOK(a)) /\ Unread(a) = Unread(b)
      /\ a.size = b.size /\ a.write_idx_ = IDX_BEGIN + ReadableLength(b)
  BY AdjustKeeps
<1>2. /\ n \in Nat /\ ReadableLength(b) \in Nat /\ IDX_BEGIN \in Nat
      /\ a.size \in Nat /\ a.write_idx_ \in Nat /\ a.write_idx_ <= a.size
      /\ WritableLength(a) = a.size - a.write_idx_
  BY <1>1, LenProperties, UnreadSeq, BufferAssumption DEF Good, BufferOK, WritableLength
<1>3. AppendData(b, data) = d
  BY DEF AppendData
<1> HIDE DEF n, a
<1>4. /\ Good(r) /\ (SumOK(a) => SumOK(r)) /\ Unread(r) = Unread(a)
      /\ n <= WritableLength(r)
      /\ \/ r.size = a.size
         \/ r.size = (n + ReadableLength(b)) + 2 * IDX_BEGIN
  <2>1. CASE n > WritableLength(a)
    <3>1. m \in Nat /\ a.size <= m /\ m = n + a.write_idx_
      BY <2>1, <1>2
    <3> HIDE DEF m
    <3>2. /\ Good(ReSize(a, m)) /\ (SumOK(a) => SumOK(ReSize(a, m)))
          /\ Unread(ReSize(a, m)) = Unread(a)
          /\ ReSize(a, m).size = m + IDX_BEGIN
          /\ ReSize(a, m).write_idx_ = a.write_idx_
      BY <1>1, <3>1, ReSizeKeeps
    <3>3. r = ReSize(a, m)
      BY <2>1
    <3>4. WritableLength(ReSize(a, m)) = (m + IDX_BEGIN) - a.write_idx_
      BY <3>2 DEF WritableLength
    <3>5. n <= WritableLength(r)
      BY <1>2, <3>1, <3>3, <3>4
    <3>6. m + IDX_BEGIN = (n + ReadableLength(b)) + 2 * IDX_BEGIN
      BY <1>1, <1>2, <3>1
    <3> QED
      BY <3>2, <3>3, <3>5, <3>6
  <2>2. CASE ~(n > WritableLength(a))
    BY <2>2, <1>1, <1>2
  <2> QED
    BY <2>1, <2>2
<1> HIDE DEF r
<1>5. /\ Good(d) /\ (SumOK(r) => SumOK(d)) /\ Unread(d) = Unread(r) \o data
      /\ d.size = r.size /\ ReadableLength(d) = ReadableLength(r) + n
  BY <1>4, StorePuts DEF n
<1>6. ReadableLength(r) = ReadableLength(b)
  BY <1>1, <1>4, UnreadSeq
<1>7. ReadableLength(d) = n + ReadableLength(b)
  BY <1>2, <1>5, <1>6
<1> HIDE DEF d
<1> QED
  BY <1>1, <1>3, <1>4, <1>5, <1>7

(* Buffer.cpp:74-80: nothing is left unread.                               *)
LEMMA ResetEmpties ==
  ASSUME NEW b, Good(b)
  PROVE  /\ Good(Reset(b)) /\ SumOK(Reset(b)) /\ Reset(b).size = b.size
         /\ Unread(Reset(b)) = <<>>
<1> DEFINE c == Reset(b)
<1>1. /\ c.buffer_ = b.buffer_ /\ c.size = b.size
      /\ c.read_idx_ = IDX_BEGIN /\ c.write_idx_ = IDX_BEGIN
      /\ c.sum_read_ = 0 /\ c.sum_write_ = 0
  BY DEF Reset, Good, Record
<1>2. IDX_BEGIN \in Nat /\ SizeT \in Nat \ {0} /\ 0 \in 0 .. SizeT - 1 /\ 0 % SizeT = 0
  BY BufferAssumption
<1>3. c \in Record
  BY <1>2 DEF Reset, Good, Record
<1> HIDE DEF c
<1>4. BufferOK(c)
  BY <1>1, <1>2 DEF Good, BufferOK
<1>5. Good(c) /\ ReadableLength(c) = 0
  BY <1>1, <1>2, <1>3, <1>4 DEF Good, ReadableLength
<1>6. Unread(c) \in Seq(Value) /\ Len(Unread(c)) = 0
  BY <1>5, UnreadSeq
<1>7. Unread(c) = <<>>
  BY <1>6, EmptySeq
<1>8. SumOK(c)
  <2>1. 0 + 0 = 0
    OBVIOUS
  <2> QED
    BY <1>1, <1>2, <1>5, <2>1 DEF SumOK
<1> QED
  BY <1>1, <1>5, <1>7, <1>8 DEF c

-----------------------------------------------------------------------------
(* The inductive invariant.                                                *)
Inv ==
    /\ buffer \in [Buffers -> Record]
    /\ \A x \in Buffers : BufferOK(buffer[x]) /\ SumOK(buffer[x])

LEMMA InvGood ==
  ASSUME Inv, NEW x \in Buffers
  PROVE  Good(buffer[x]) /\ SumOK(buffer[x])
  BY DEF Inv, Good

(* What one operation may make of a buffer b: bytes are put in, the first k*)
(* are taken out or, with k = 0, the buffer is only rearranged.            *)
Becomes(b, c) ==
    /\ Good(c) /\ SumOK(c)
    /\ \/ c.size = b.size
       \/ c.size = ReadableLength(c) + 2 * IDX_BEGIN
    /\ \/ \E data \in Data : Unread(c) = Unread(b) \o data
       \/ \E y \in Buffers : Unread(c) = Unread(b) \o Unread(buffer[y])
       \/ \E k \in 0 .. ReadableLength(b) :
             Unread(c) = SubSeq(Unread(b), k + 1, Len(Unread(b)))

LEMMA Rearranged ==
  ASSUME NEW b, Good(b), NEW c, Good(c), SumOK(c), c.size = b.size, Unread(c) = Unread(b)
  PROVE  Becomes(b, c)
<1>1. /\ Unread(b) \in Seq(Value) /\ ReadableLength(b) \in Nat
      /\ Len(Unread(b)) = ReadableLength(b)
  BY UnreadSeq
<1>2. 0 \in 0 .. ReadableLength(b)
  BY <1>1
<1>3. SubSeq(Unread(b), 0 + 1, Len(Unread(b))) = Unread(b)
  BY <1>1, SubSeqFull
<1> QED
  BY <1>2, <1>3 DEF Becomes

(* Buffer.cpp:40-171: what each operation makes of the buffer it is called *)
(* on.                                                                     *)
LEMMA StepBecomes ==
  ASSUME Inv, Next
  PROVE  \/ \E x \in Buffers, c \in Record :
               buffer' = [buffer EXCEPT ![x] = c] /\ Becomes(buffer[x], c)
         \/ \E x \in Buffers, y \in Buffers : SwapBuffer(x, y)
<1>1. PICK x \in Buffers :
        \/ \E data \in Data : AppendBytes(x, data) \/ WriteInPlace(x, data)
        \/ ReadFromSockfd(x) \/ ReadFromSockfdAndDrop(x)
        \/ Consume(x) \/ ResetBuffer(x)
        \/ \E y \in Buffers : AppendBuffer(x, y) \/ SwapBuffer(x, y)
  BY DEF Next
<1> DEFINE b == buffer[x]
           a == AdjustBuffer(b)
           Goal == \E c \in Record : buffer' = [buffer EXCEPT ![x] = c] /\ Becomes(b, c)
<1>2. Good(b) /\ SumOK(b)
  BY InvGood
<1>3. \A data \in Data : data \in Seq(Value)
  BY BufferAssumption DEF Value
<1>4. Good(a) /\ SumOK(a) /\ Unread(a) = Unread(b) /\ a.size = b.size
  BY <1>2, AdjustKeeps
<1> HIDE DEF a
<1>5. ASSUME NEW data \in Data, AppendBytes(x, data)
      PROVE  Goal
  <2>1. buffer' = [buffer EXCEPT ![x] = AppendData(b, data)]
    BY <1>5 DEF AppendBytes
  <2>2. Becomes(b, AppendData(b, data))
    BY <1>2, <1>3, AppendDataPuts DEF Becomes
  <2> QED
    BY <2>1, <2>2 DEF Becomes, Good
<1>6. ASSUME NEW data \in Data, WriteInPlace(x, data)
      PROVE  Goal
  <2> DEFINE c == AddWriteIndex(Store(b, data), Len(data))
  <2>1. buffer' = [buffer EXCEPT ![x] = c] /\ Len(data) <= WritableLength(b)
    BY <1>6 DEF WriteInPlace
  <2>2. Becomes(b, c)
    BY <1>2, <1>3, <2>1, StorePuts DEF Becomes
  <2> QED
    BY <2>1, <2>2 DEF Becomes, Good
<1>7. CASE ReadFromSockfd(x)
  <2>1. CASE buffer' = [buffer EXCEPT ![x] = a]
    BY <1>2, <1>4, <2>1, Rearranged DEF Good
  <2>2. ASSUME NEW data \in Data, Len(data) <= WritableLength(a),
               buffer' = [buffer EXCEPT ![x] = AddWriteIndex(Store(a, data), Len(data))]
        PROVE  Goal
    <3> DEFINE c == AddWriteIndex(Store(a, data), Len(data))
    <3>1. Becomes(b, c)
      BY <1>3, <1>4, <2>2, StorePuts DEF Becomes
    <3> QED
      BY <2>2, <3>1 DEF Becomes, Good
  <2> QED
    BY <1>7, <2>1, <2>2 DEF ReadFromSockfd, a
<1>8. CASE ReadFromSockfdAndDrop(x)
  <2>1. PICK data \in Data : /\ Len(data) <= WritableLength(a)
                             /\ buffer' = [buffer EXCEPT ![x] = Store(a, data)]
    BY <1>8 DEF ReadFromSockfdAndDrop, a
  <2> DEFINE c == Store(a, data)
  <2>2. Good(c) /\ SumOK(c) /\ c.size = b.size /\ Unread(c) = Unread(b)
    BY <1>3, <1>4, <2>1, StorePuts
  <2> QED
    BY <1>2, <2>1, <2>2, Rearranged DEF Good
<1>9. CASE Consume(x)
  <2>1. PICK n \in 1 .. MaxUnread + 1 : buffer' = [buffer EXCEPT ![x] = AddReadIndex(b, n)]
    BY <1>9 DEF Consume
  <2>2. n \in Nat
    BY BufferAssumption
  <2>3. Becomes(b, AddReadIndex(b, n))
    BY <1>2, <2>2, AddReadIndexTakes DEF Becomes
  <2> QED
    BY <2>1, <2>3 DEF Becomes, Good
<1>10. CASE ResetBuffer(x)
  <2> DEFINE s == Unread(b)
             c == Reset(b)
  <2>1. buffer' = [buffer EXCEPT ![x] = c]
    BY <1>10 DEF ResetBuffer
  <2>2. Good(c) /\ SumOK(c) /\ c.size = b.size /\ Unread(c) = <<>>
    BY <1>2, ResetEmpties
  <2>3. ReadableLength(b) \in Nat /\ Len(s) = ReadableLength(b)
    BY <1>2, UnreadSeq
  <2>4. SubSeq(s, ReadableLength(b) + 1, Len(s)) = <<>>
    <3>1. /\ ReadableLength(b) + 1 \in Int /\ Len(s) \in Int
          /\ Len(s) < ReadableLength(b) + 1
      BY <2>3
    <3> QED
      BY <3>1, SubSeqEmpty
  <2>5. ReadableLength(b) \in 0 .. ReadableLength(b)
    BY <2>3
  <2>6. Becomes(b, c)
    BY <2>2, <2>4, <2>5 DEF Becomes
  <2> QED
    BY <2>1, <2>6 DEF Becomes, Good
<1>11. ASSUME NEW y \in Buffers, AppendBuffer(x, y)
       PROVE  Goal
  <2> DEFINE c == AppendData(b, Unread(buffer[y]))
  <2>1. buffer' = [buffer EXCEPT ![x] = c]
    BY <1>11 DEF AppendBuffer
  <2>2. Unread(buffer[y]) \in Seq(Value)
    BY InvGood, UnreadSeq
  <2>3. Becomes(b, c)
    BY <1>2, <2>2, AppendDataPuts DEF Becomes
  <2> QED
    BY <2>1, <2>3 DEF Becomes, Good
<1> QED
  BY <1>1, <1>5, <1>6, <1>7, <1>8, <1>9, <1>10, <1>11

LEMMA InvInit == Init => Inv
  BY NewBufferGood DEF Init, Inv, Good

LEMMA InvStep ==
  ASSUME Inv, [Next]_buffer
  PROVE  Inv'
<1>1. CASE UNCHANGED buffer
  BY <1>1 DEF Inv
<1>2. ASSUME NEW x \in Buffers, NEW c \in Record,
             buffer' = [buffer EXCEPT ![x] = c], Becomes(buffer[x], c)
      PROVE  Inv'
  <2>1. BufferOK(c) /\ SumOK(c)
    BY <1>2 DEF Becomes, Good
  <2> QED
    BY <1>2, <2>1 DEF Inv
<1>3. ASSUME NEW x \in Buffers, NEW y \in Buffers, SwapBuffer(x, y)
      PROVE  Inv'
  BY <1>3 DEF SwapBuffer, Inv
<1> QED
  BY <1>1, <1>2, <1>3, StepBecomes

LEMMA InvHolds == Spec => []Inv
  BY InvInit, InvStep, PTL DEF Spec

(* Buffer.cpp:24-140: for buffers of any size, the indices stay in order   *)
(* and inside the vector.                                                  *)
THEOREM BufferTypeCorrect == Spec => []TypeOK
<1>1. Inv => TypeOK
  BY DEF Inv, TypeOK, Record, Fields
<1> QED
  BY <1>1, InvHolds, PTL

(* Buffer.cpp:34-52, 82-90: the two sums tell what is unread, modulo the   *)
(* size of a size_t, whatever it is.                                       *)
THEOREM SumsAlwaysAgree == Spec => []SumsAgree
<1>1. Inv => SumsAgree
  BY DEF Inv, SumsAgree, SumOK
<1> QED
  BY <1>1, InvHolds, PTL

-----------------------------------------------------------------------------
Contents == [x \in Buffers |-> Unread(buffer[x])]

LEMMA ContentsStep ==
  ASSUME Inv, [Next]_buffer
  PROVE  [BQ!Next]_Contents
<1>1. CASE UNCHANGED buffer
  BY <1>1 DEF Contents
<1>2. ASSUME NEW x \in Buffers, NEW c \in Record,
             buffer' = [buffer EXCEPT ![x] = c], Becomes(buffer[x], c)
      PROVE  [BQ!Next]_Contents
  <2> DEFINE s == Unread(buffer[x])
  <2>1. Contents' = [Contents EXCEPT ![x] = Unread(c)] /\ Contents[x] = s
    BY <1>2 DEF Contents, Inv
  <2>2. ASSUME NEW data \in Data, Unread(c) = s \o data
        PROVE  BQ!Next
    <3>1. BQ!Put(x, data)
      BY <2>1, <2>2 DEF BQ!Put, Contents
    <3> QED
      BY <3>1 DEF BQ!Next
  <2>3. ASSUME NEW y \in Buffers, Unread(c) = s \o Unread(buffer[y])
        PROVE  BQ!Next
    <3>1. BQ!Put(x, Contents[y])
      BY <2>1, <2>3 DEF BQ!Put, Contents
    <3> QED
      BY <3>1 DEF BQ!Next, Contents
  <2>4. ASSUME NEW k \in 0 .. ReadableLength(buffer[x]), Unread(c) = SubSeq(s, k + 1, Len(s))
        PROVE  [BQ!Next]_Contents
    <3>1. s \in Seq(Value) /\ Len(s) = ReadableLength(buffer[x]) /\ Len(s) \in Nat
      BY InvGood, UnreadSeq
    <3>2. CASE k = 0
      <4>1. Unread(c) = s
        BY <2>4, <3>1, <3>2, SubSeqFull
      <4>2. Contents' = Contents
        BY <2>1, <4>1 DEF Contents
      <4> QED
        BY <4>2
    <3>3. CASE k # 0
      <4>1. k \in 1 .. Len(Contents[x])
        BY <2>1, <3>1, <3>3
      <4>2. BQ!Take(x, k)
        BY <2>1, <2>4 DEF BQ!Take, Contents
      <4> QED
        BY <4>1, <4>2 DEF BQ!Next, Contents
    <3> QED
      BY <3>2, <3>3
  <2> QED
    BY <1>2, <2>2, <2>3, <2>4 DEF Becomes
<1>3. ASSUME NEW x \in Buffers, NEW y \in Buffers, SwapBuffer(x, y)
      PROVE  BQ!Next
  <2>1. Contents' = [Contents EXCEPT ![x] = Contents[y], ![y] = Contents[x]]
    BY <1>3 DEF SwapBuffer, Contents, Inv
  <2>2. BQ!Exchange(x, y)
    BY <2>1 DEF BQ!Exchange, Contents
  <2> QED
    BY <2>2 DEF BQ!Next
<1> QED
  BY <1>1, <1>2, <1>3, StepBecomes

(* Buffer.cpp:64-171: every operation on the vector and its indices is a   *)
(* step of the queues of bytes, or leaves them as they are.                *)
THEOREM BufferImplementsByteQueue == Spec => ImplementsByteQueue
<1>1. Init => BQ!Init
  BY NewBufferGood DEF Init, BQ!Init
<1>2. Inv /\ [Next]_buffer => [BQ!Next]_Contents
  BY ContentsStep
<1> QED
  BY <1>1, <1>2, InvHolds, PTL DEF Spec, ImplementsByteQueue, BQ!Spec, Contents

(* Buffer.cpp:92-104: no operation enlarges a vector past what its unread  *)
(* bytes need.                                                             *)
THEOREM BufferGrowsToFit == Spec => GrowsToFit
<1> DEFINE Fit == \A x \in Buffers :
                     \/ buffer'[x].size \in {buffer[y].size : y \in Buffers}
                     \/ buffer'[x].size = ReadableLength(buffer'[x]) + 2 * IDX_BEGIN
<1>1. ASSUME Inv, [Next]_buffer
      PROVE  [Fit]_buffer
  <2>1. ASSUME NEW x \in Buffers, NEW c \in Record,
               buffer' = [buffer EXCEPT ![x] = c], Becomes(buffer[x], c)
        PROVE  Fit
    <3>1. \/ c.size = buffer[x].size
          \/ c.size = ReadableLength(c) + 2 * IDX_BEGIN
      BY <2>1 DEF Becomes
    <3> QED
      BY <1>1, <2>1, <3>1 DEF Inv
  <2>2. ASSUME NEW x \in Buffers, NEW y \in Buffers, SwapBuffer(x, y)
        PROVE  Fit
    <3>1. ASSUME NEW z \in Buffers
          PROVE  \E w \in Buffers : buffer'[z] = buffer[w]
      BY <1>1, <2>2 DEF SwapBuffer, Inv
    <3> QED
      BY <3>1
  <2> QED
    BY <1>1, <2>1, <2>2, StepBecomes
<1> QED
  BY <1>1, InvHolds, PTL DEF Spec, GrowsToFit
=============================================================================
