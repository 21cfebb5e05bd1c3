-------------------------- MODULE RtmpChunkProofs --------------------------
(***************************************************************************)
(* Proofs about RtmpChunk for any length of chunks, headers, messages and  *)
(* reads, any base of numbers and any number of messages.                  *)
(***************************************************************************)
EXTENDS RtmpChunk, SequenceTheorems, FiniteSetTheorems, TLAPS

-----------------------------------------------------------------------------
(* Numbers and their digits.                                               *)

LEMMA ConstantsTyped ==
  /\ Chunk \in Nat \ {0} /\ Capacity \in Nat \ {0} /\ TagHeader \in Nat \ {0}
  /\ FirstLength \in Nat \ {0} /\ StartLength \in Nat \ {0}
  /\ Base \in Nat \ {0, 1} /\ MaxMessages \in Nat
  /\ Capacity <= Chunk /\ FirstLength <= StartLength /\ StartLength <= Capacity
  BY ChunkAssumption DEF ChunkAssumption

LEMMA DivModOf ==
  ASSUME NEW p \in Nat \ {0}, NEW k \in Nat, NEW r \in 0 .. p - 1
  PROVE  (p * k + r) \div p = k /\ (p * k + r) % p = r
<1>1. (p * k + r) \div p = k
  OBVIOUS
<1>2. (p * k + r) % p = r
  OBVIOUS
<1> QED
  BY <1>1, <1>2

LEMMA DivModExists ==
  ASSUME NEW p \in Nat \ {0}, NEW n \in Nat
  PROVE  /\ n \div p \in Nat /\ n % p \in 0 .. p - 1
         /\ n = p * (n \div p) + (n % p)
  OBVIOUS

LEMMA DivModSplit ==
  ASSUME NEW p \in Nat \ {0}, NEW n \in Nat
  PROVE  \E k \in Nat, r \in 0 .. p - 1 : n = p * k + r
<1> DEFINE k == n \div p
           r == n % p
<1>1. k \in Nat /\ r \in 0 .. p - 1 /\ n = p * k + r
  BY DivModExists
<1> HIDE DEF k, r
<1> QED
  BY <1>1

LEMMA PowerValues ==
  /\ Power(0) = 1 /\ Power(1) = Base /\ Power(2) = Base * Base
  /\ Power(3) = Base * Base * Base /\ Power(4) = Base * Base * Base * Base
  /\ \A k \in 0 .. 4 : Power(k) \in Nat \ {0}
<1>1. /\ Power(0) = 1 /\ Power(1) = Base /\ Power(2) = Base * Base
      /\ Power(3) = Base * Base * Base /\ Power(4) = Base * Base * Base * Base
  BY DEF Power
<1>2. Base * Base \in Nat \ {0}
  BY ConstantsTyped
<1>3. Base * Base * Base \in Nat \ {0}
  BY <1>2, ConstantsTyped
<1>4. Base * Base * Base * Base \in Nat \ {0}
  BY <1>3, ConstantsTyped
<1>5. \A k \in 0 .. 4 : k \in {0, 1, 2, 3, 4}
  OBVIOUS
<1> QED
  BY <1>1, <1>2, <1>3, <1>4, <1>5, ConstantsTyped

LEMMA DigitsTyped ==
  ASSUME NEW n \in Nat, NEW k \in 1 .. 4
  PROVE  Digits(n, k) \in [1 .. k -> Digit]
<1> SUFFICES ASSUME NEW i \in 1 .. k PROVE (n \div Power(k - i)) % Base \in Digit
  BY DEF Digits
<1>1. Power(k - i) \in Nat \ {0}
  BY PowerValues
<1>2. n \div Power(k - i) \in Nat
  BY <1>1, DivModExists
<1> QED
  BY <1>2, ConstantsTyped, DivModExists DEF Digit

(* The last three digits of a number.                                      *)
LEMMA ThreeDigits ==
  ASSUME NEW a \in Nat, NEW b \in Digit, NEW c \in Digit,
         NEW n, n = Base * (Base * a + b) + c
  PROVE  /\ n \in Nat
         /\ (n \div Power(2)) % Base = a % Base /\ (n \div Power(1)) % Base = b
         /\ (n \div Power(0)) % Base = c
<1>1. Base \in Nat \ {0} /\ Base - 1 \in Nat
  BY ConstantsTyped
<1>2. {b, c} \subseteq 0 .. Base - 1 /\ {a, b, c} \subseteq Nat
  BY DEF Digit
<1>3. Base * a + b \in Nat
  BY <1>1, <1>2
<1>4. n \in Nat
  BY <1>1, <1>2, <1>3
<1>5. n % Base = c /\ n \div Base = Base * a + b
  BY <1>1, <1>2, <1>3, DivModOf
<1>6. (Base * a + b) % Base = b
  BY <1>1, <1>2, DivModOf
<1>7. n \div (Base * Base) = a
  <2>1. Base * Base \in Nat \ {0}
    BY <1>1
  <2>2. Base * b \in Nat /\ Base * b <= Base * (Base - 1)
    BY <1>1, <1>2
  <2>3. Base * b + c \in 0 .. Base * Base - 1
    BY <2>2, <1>1, <1>2
  <2>4. n = (Base * Base) * a + (Base * b + c)
    BY <1>1, <1>2
  <2>5. \A p \in Nat \ {0} : \A r \in 0 .. p - 1 : (p * a + r) \div p = a
    BY <1>2, DivModOf
  <2> QED
    BY <2>1, <2>3, <2>4, <2>5
<1>8. n \div 1 = n
  BY <1>4
<1> QED
  BY <1>4, <1>5, <1>6, <1>7, <1>8, PowerValues

(* A number below Power(3) has three digits.                               *)
LEMMA SplitInDigits ==
  ASSUME NEW n \in 0 .. Power(3) - 1
  PROVE  \E a \in Digit, b \in Digit, c \in Digit : n = Base * (Base * a + b) + c
<1>1. Base \in Nat \ {0} /\ n \in Nat /\ n < Base * (Base * Base)
  BY ConstantsTyped, PowerValues
<1>2. PICK m \in Nat, c \in 0 .. Base - 1 : n = Base * m + c
  BY <1>1, DivModSplit
<1>3. PICK a \in Nat, b \in 0 .. Base - 1 : m = Base * a + b
  BY <1>1, DivModSplit
<1>4. a < Base
  <2> SUFFICES ASSUME a >= Base PROVE FALSE
    BY <1>1
  <2>1. Base * a >= Base * Base
    BY <1>1
  <2>2. m >= Base * Base
    BY <2>1, <1>1, <1>3
  <2>3. Base * m >= Base * (Base * Base)
    BY <2>2, <1>1
  <2> QED
    BY <2>3, <1>1, <1>2
<1>5. n = Base * (Base * a + b) + c
  BY <1>2, <1>3, Zenon
<1>6. {a, b, c} \subseteq Digit
  BY <1>1, <1>2, <1>3, <1>4 DEF Digit
<1> QED
  BY <1>5, <1>6, Zenon

LEMMA DigitsOf ==
  ASSUME NEW a \in Digit, NEW b \in Digit, NEW c \in Digit,
         NEW n, n = Base * (Base * a + b) + c
  PROVE  Digits(n, 3) = [i \in 1 .. 3 |-> IF i = 1 THEN a ELSE IF i = 2 THEN b ELSE c]
<1>1. a \in Nat /\ a % Base = a
  BY ConstantsTyped DEF Digit
<1>2. /\ (n \div Power(2)) % Base = a /\ (n \div Power(1)) % Base = b
      /\ (n \div Power(0)) % Base = c
  BY <1>1, ThreeDigits
<1>3. ASSUME NEW i \in 1 .. 3
      PROVE  (n \div Power(3 - i)) % Base = IF i = 1 THEN a ELSE IF i = 2 THEN b ELSE c
  <2>1. i = 1 \/ i = 2 \/ i = 3
    OBVIOUS
  <2>2. 3 - 1 = 2 /\ 3 - 2 = 1 /\ 3 - 3 = 0
    OBVIOUS
  <2> QED
    BY <2>1, <2>2, <1>2
<1> QED
  BY <1>3 DEF Digits

(* Three bytes carry a number that fits into them.                         *)
LEMMA NumberOfDigits ==
  ASSUME NEW n \in 0 .. Power(3) - 1
  PROVE  Number(Digits(n, 3)) = n
<1>1. PICK a \in Digit, b \in Digit, c \in Digit : n = Base * (Base * a + b) + c
  BY SplitInDigits
<1>2. Digits(n, 3)[1] = a /\ Digits(n, 3)[2] = b /\ Digits(n, 3)[3] = c
  BY <1>1, DigitsOf
<1>3. Number(Digits(n, 3)) = a * (Base * Base) + b * Base + c
  BY <1>2, PowerValues DEF Number
<1>4. a * (Base * Base) + b * Base + c = Base * (Base * a + b) + c
  BY ConstantsTyped DEF Digit
<1> QED
  BY <1>1, <1>3, <1>4

(* The three low bytes of a sum of times are its value modulo three bytes. *)
LEMMA TimeStampIsLow ==
  ASSUME NEW t \in Nat
  PROVE  TimeStamp(t) = Digits(t % Power(3), 3)
<1>1. Power(3) \in Nat \ {0} /\ Base \in Nat \ {0}
  BY PowerValues, ConstantsTyped
<1>2. t % Power(3) \in 0 .. Power(3) - 1 /\ t \div Power(3) \in Nat
      /\ t = Power(3) * (t \div Power(3)) + (t % Power(3))
  BY <1>1, DivModExists
<1>3. PICK a \in Digit, b \in Digit, c \in Digit :
          t % Power(3) = Base * (Base * a + b) + c
  BY <1>2, SplitInDigits
<1>4. PICK q \in Nat : t = Power(3) * q + (t % Power(3))
  BY <1>2
<1>5. Base * q + a \in Nat /\ (Base * q + a) % Base = a
  BY <1>1, DivModOf DEF Digit
<1>6. t = Base * (Base * (Base * q + a) + b) + c
  <2>1. t = Base * Base * Base * q + (Base * (Base * a + b) + c)
    BY <1>3, <1>4, PowerValues
  <2> QED
    BY <2>1, <1>1 DEF Digit
<1>7. /\ (t \div Power(2)) % Base = a /\ (t \div Power(1)) % Base = b
      /\ (t \div Power(0)) % Base = c
  BY <1>5, <1>6, ThreeDigits
<1>8. ASSUME NEW i \in 1 .. 3
      PROVE  (t \div Power(3 - i)) % Base = IF i = 1 THEN a ELSE IF i = 2 THEN b ELSE c
  <2>1. i = 1 \/ i = 2 \/ i = 3
    OBVIOUS
  <2>2. 3 - 1 = 2 /\ 3 - 2 = 1 /\ 3 - 3 = 0
    OBVIOUS
  <2> QED
    BY <2>1, <2>2, <1>7
<1> QED
  BY <1>3, <1>8, DigitsOf DEF TimeStamp

(* Four bytes that wrap are as good as more for what comes after.          *)
LEMMA SumOfWrapped ==
  ASSUME NEW p \in Nat \ {0}, NEW x \in Nat, NEW d \in Nat
  PROVE  ((x % p) + d) % p = (x + d) % p
<1>1. PICK k \in Nat, r \in 0 .. p - 1 : x = p * k + r
  BY DivModSplit
<1>2. r + d \in Nat
  OBVIOUS
<1>3. PICK j \in Nat, s \in 0 .. p - 1 : r + d = p * j + s
  BY <1>2, DivModSplit
<1>4. x % p = r
  BY <1>1, DivModOf
<1>5. (r + d) % p = s
  BY <1>3, DivModOf
<1>6. x + d = p * (k + j) + s /\ k + j \in Nat
  BY <1>1, <1>3
<1>7. PICK a \in Nat : x + d = p * a + s
  BY <1>6
<1>8. (x + d) % p = s
  BY <1>7, DivModOf
<1> QED
  BY <1>4, <1>5, <1>8

LEMMA LowOfWrapped ==
  ASSUME NEW x \in Nat
  PROVE  (x % Power(4)) % Power(3) = x % Power(3)
<1> DEFINE p == Power(3)
<1>1. p \in Nat \ {0} /\ Power(4) \in Nat \ {0} /\ Base \in Nat
  BY PowerValues, ConstantsTyped
<1>2. Power(4) = p * Base
  BY PowerValues
<1> HIDE DEF p
<1>3. PICK k \in Nat, r \in 0 .. Power(4) - 1 : x = Power(4) * k + r
  BY <1>1, DivModSplit
<1>4. PICK j \in Nat, s \in 0 .. p - 1 : r = p * j + s
  <2>1. r \in Nat
    BY <1>1
  <2> QED
    BY <2>1, <1>1, DivModSplit
<1>5. x % Power(4) = r
  BY <1>1, <1>3, DivModOf
<1>6. r % p = s
  BY <1>1, <1>4, DivModOf
<1>7. x = p * (Base * k + j) + s
  <2>1. x = (p * Base) * k + (p * j + s)
    BY <1>2, <1>3, <1>4
  <2> QED
    BY <2>1, <1>1
<1>8. Base * k + j \in Nat
  BY <1>1
<1>9. x % p = s
  BY <1>1, <1>7, <1>8, DivModOf
<1> QED
  BY <1>5, <1>6, <1>9 DEF p

-----------------------------------------------------------------------------
(* The units of a message.                                                 *)

(* The bytes of q whole chunks.                                            *)
Whole(q) == Chunk * q

LEMMA WholeChunks ==
  /\ Whole(0) = 0
  /\ \A q \in Nat : Whole(q) \in Nat /\ Whole(q + 1) = Whole(q) + Chunk
  BY ConstantsTyped DEF Whole

ChunkedLength(size) == size + (size - 1) \div Chunk
BodyUnit(m, i) == [kind |-> "body", of |-> m, at |-> i]
ChunkHeader(m) == [kind |-> "fmt3", of |-> m, at |-> 1]

(* How many chunks are before the byte after the first n.                  *)
LEMMA ChunksBefore ==
  ASSUME NEW n \in Nat
  PROVE  /\ n \div Chunk \in Nat
         /\ \A q \in Nat : Whole(q) <= n => q <= n \div Chunk
         /\ \A q \in Nat : Whole(q) <= n /\ n < Whole(q) + Chunk => n \div Chunk = q
<1>1. Chunk \in Nat \ {0}
  BY ConstantsTyped
<1>2. PICK k \in Nat, r \in 0 .. Chunk - 1 : n = Chunk * k + r
  BY <1>1, DivModSplit
<1>3. n \div Chunk = k
  BY <1>1, <1>2, DivModOf
<1>4. ASSUME NEW q \in Nat, Whole(q) <= n PROVE q <= k
  <2> SUFFICES ASSUME q >= k + 1 PROVE FALSE
    BY <1>2
  <2>1. Chunk * q >= Chunk * (k + 1)
    BY <1>1
  <2>2. Chunk * (k + 1) = Chunk * k + Chunk
    BY <1>1
  <2> QED
    BY <2>1, <2>2, <1>1, <1>2, <1>4 DEF Whole
<1>5. ASSUME NEW q \in Nat, n < Whole(q) + Chunk PROVE k <= q
  <2> SUFFICES ASSUME k >= q + 1 PROVE FALSE
    BY <1>2
  <2>1. Chunk * k >= Chunk * (q + 1)
    BY <1>1
  <2>2. Chunk * (q + 1) = Chunk * q + Chunk
    BY <1>1
  <2> QED
    BY <2>1, <2>2, <1>1, <1>2, <1>5 DEF Whole
<1>6. ASSUME NEW q \in Nat, Whole(q) <= n, n < Whole(q) + Chunk PROVE k = q
  BY <1>2, <1>4, <1>5, <1>6
<1> QED
  BY <1>2, <1>3, <1>4, <1>6

(* A chunked body, without division: byte s of the chunk after q others,   *)
(* the header after q chunks, and its length.                              *)
LEMMA ChunkedBodyAt ==
  ASSUME NEW m, NEW size \in Nat \ {0}
  PROVE  /\ DOMAIN ChunkedBody(m, size) = 1 .. ChunkedLength(size)
         /\ ChunkedLength(size) \in Nat /\ ChunkedLength(size) >= size
         /\ \A q \in Nat, s \in 1 .. Chunk : Whole(q) + s <= size =>
               /\ Whole(q) + s + q <= ChunkedLength(size)
               /\ ChunkedBody(m, size)[Whole(q) + s + q] = BodyUnit(m, Whole(q) + s)
         /\ \A q \in Nat \ {0} : Whole(q) < size =>
               /\ Whole(q) + q <= ChunkedLength(size)
               /\ ChunkedBody(m, size)[Whole(q) + q] = ChunkHeader(m)
         /\ \A q \in Nat : Whole(q) < size /\ size <= Whole(q) + Chunk =>
               ChunkedLength(size) = size + q
<1> DEFINE K == (size - 1) \div Chunk
<1>1. Chunk \in Nat \ {0}
  BY ConstantsTyped
<1>2. K \in Nat /\ \A q \in Nat : Whole(q) < size => q <= K
  <2>1. size - 1 \in Nat
    OBVIOUS
  <2>2. \A q \in Nat : Whole(q) < size => Whole(q) <= size - 1
    BY WholeChunks
  <2> QED
    BY <2>1, <2>2, ChunksBefore
<1>3. \A q \in Nat : Whole(q) < size /\ size <= Whole(q) + Chunk => K = q
  <2>1. size - 1 \in Nat
    OBVIOUS
  <2>2. \A q \in Nat : Whole(q) < size /\ size <= Whole(q) + Chunk =>
           Whole(q) <= size - 1 /\ size - 1 < Whole(q) + Chunk
    BY <1>1, WholeChunks
  <2> QED
    BY <2>1, <2>2, ChunksBefore
<1>4. ChunkedLength(size) = size + K
  BY DEF ChunkedLength
<1> HIDE DEF K
<1>5. DOMAIN ChunkedBody(m, size) = 1 .. ChunkedLength(size)
  BY DEF ChunkedBody, ChunkedLength
<1>6. ChunkedLength(size) \in Nat /\ ChunkedLength(size) >= size
  BY <1>2, <1>4
<1>7. ASSUME NEW i \in 1 .. ChunkedLength(size)
      PROVE  ChunkedBody(m, size)[i] =
                IF i % (Chunk + 1) = 0 THEN ChunkHeader(m)
                ELSE BodyUnit(m, i - i \div (Chunk + 1))
  BY DEF ChunkedBody, ChunkedLength, ChunkHeader, BodyUnit
<1>8. ASSUME NEW q \in Nat, NEW s \in 0 .. Chunk
      PROVE  /\ (Whole(q) + s + q) % (Chunk + 1) = s
             /\ (Whole(q) + s + q) \div (Chunk + 1) = q
  <2>1. Chunk + 1 \in Nat \ {0} /\ s \in 0 .. (Chunk + 1) - 1
    BY <1>1
  <2>2. Whole(q) + s + q = (Chunk + 1) * q + s
    BY <1>1 DEF Whole
  <2> QED
    BY <2>1, <2>2, DivModOf
<1>9. ASSUME NEW q \in Nat, NEW s \in 1 .. Chunk, Whole(q) + s <= size
      PROVE  /\ Whole(q) + s + q <= ChunkedLength(size)
             /\ ChunkedBody(m, size)[Whole(q) + s + q] = BodyUnit(m, Whole(q) + s)
  <2> DEFINE i == Whole(q) + s + q
  <2>1. Whole(q) \in Nat /\ s \in Nat \ {0} /\ s \in 0 .. Chunk
    BY <1>1, WholeChunks
  <2>2. Whole(q) < size
    BY <2>1, <1>9
  <2>3. i <= ChunkedLength(size) /\ i \in 1 .. ChunkedLength(size)
    BY <2>1, <2>2, <1>2, <1>4, <1>9
  <2>4. i % (Chunk + 1) = s /\ i \div (Chunk + 1) = q
    BY <2>1, <1>8
  <2>5. i - q = Whole(q) + s
    BY <2>1
  <2> HIDE DEF i
  <2>6. ChunkedBody(m, size)[i] = BodyUnit(m, Whole(q) + s)
    BY <2>1, <2>3, <2>4, <2>5, <1>7
  <2> QED
    BY <2>3, <2>6 DEF i
<1>10. ASSUME NEW q \in Nat \ {0}, Whole(q) < size
       PROVE  /\ Whole(q) + q <= ChunkedLength(size)
              /\ ChunkedBody(m, size)[Whole(q) + q] = ChunkHeader(m)
  <2> DEFINE i == Whole(q) + 0 + q
  <2>1. Whole(q) \in Nat /\ 0 \in 0 .. Chunk
    BY <1>1, WholeChunks
  <2>2. i = Whole(q) + q /\ i \in 1 .. ChunkedLength(size)
    BY <2>1, <1>2, <1>4, <1>10
  <2>3. i % (Chunk + 1) = 0
    BY <2>1, <1>8
  <2> HIDE DEF i
  <2>4. ChunkedBody(m, size)[i] = ChunkHeader(m)
    BY <2>2, <2>3, <1>7
  <2> QED
    BY <2>2, <2>4, <1>6
<1> QED
  BY <1>3, <1>4, <1>5, <1>6, <1>9, <1>10

LEMMA HeaderLengths ==
  ASSUME NEW f \in Formats
  PROVE  HeaderLength[f] \in Nat \ {0} /\ HeaderLength[f] < Capacity
<1>1. Capacity \in Nat /\ HeaderLength[f] \in 1 .. Capacity - 1
  BY ChunkAssumption DEF ChunkAssumption
<1> QED
  BY <1>1

(* Message m with a header of format f and size bytes, as it is sent.      *)
UnitsOf(m, f, size) == HeadUnits(m, f) \o ChunkedBody(m, size)
HeadUnit(m, f, i) == [kind |-> f, of |-> m, at |-> i]

(* The elements of two sequences in a row.                                 *)
LEMMA TwoInARow ==
  ASSUME NEW S, NEW x \in Seq(S), NEW y \in Seq(S)
  PROVE  /\ x \o y \in Seq(S) /\ Len(x \o y) = Len(x) + Len(y)
         /\ \A i \in 1 .. Len(x) : (x \o y)[i] = x[i]
         /\ \A j \in 1 .. Len(y) : (x \o y)[Len(x) + j] = y[j]
<1>1. Len(x) \in Nat /\ Len(y) \in Nat
  OBVIOUS
<1>2. /\ x \o y \in Seq(S) /\ Len(x \o y) = Len(x) + Len(y)
      /\ \A i \in 1 .. Len(x) + Len(y) :
            (x \o y)[i] = IF i <= Len(x) THEN x[i] ELSE y[i - Len(x)]
  BY ConcatProperties
<1>3. \A i \in 1 .. Len(x) : (x \o y)[i] = x[i]
  BY <1>1, <1>2
<1>4. ASSUME NEW j \in 1 .. Len(y) PROVE (x \o y)[Len(x) + j] = y[j]
  <2>1. /\ Len(x) + j \in 1 .. Len(x) + Len(y)
        /\ ~(Len(x) + j <= Len(x)) /\ (Len(x) + j) - Len(x) = j
    BY <1>1
  <2> QED
    BY <2>1, <1>2
<1> QED
  BY <1>2, <1>3, <1>4

LEMMA FunctionIsSeq ==
  ASSUME NEW S, NEW n \in Nat, NEW s \in [1 .. n -> S]
  PROVE  s \in Seq(S) /\ Len(s) = n
  OBVIOUS

LEMMA UnitsTyped ==
  ASSUME NEW m \in 0 .. MaxMessages, NEW f \in Formats, NEW size \in Nat \ {0}
  PROVE  /\ HeadUnits(m, f) \in Seq(Unit) /\ Len(HeadUnits(m, f)) = HeaderLength[f]
         /\ ChunkedBody(m, size) \in Seq(Unit)
         /\ Len(ChunkedBody(m, size)) = ChunkedLength(size)
         /\ \A i \in 1 .. ChunkedLength(size) : ChunkedBody(m, size)[i].of = m
<1>1. /\ HeaderLength[f] \in Nat /\ ChunkedLength(size) \in Nat
      /\ DOMAIN ChunkedBody(m, size) = 1 .. ChunkedLength(size)
  BY HeaderLengths, ChunkedBodyAt
<1>2. \A i \in 1 .. HeaderLength[f] : [kind |-> f, of |-> m, at |-> i] \in Unit
  BY <1>1 DEF Unit
<1>3. HeadUnits(m, f) \in Seq(Unit) /\ Len(HeadUnits(m, f)) = HeaderLength[f]
  <2>1. HeadUnits(m, f) \in [1 .. HeaderLength[f] -> Unit]
    BY <1>2 DEF HeadUnits
  <2> QED
    BY <2>1, <1>1, FunctionIsSeq
<1>4. ASSUME NEW i \in 1 .. ChunkedLength(size)
      PROVE  ChunkedBody(m, size)[i] \in Unit /\ ChunkedBody(m, size)[i].of = m
  <2>1. ChunkedBody(m, size)[i] =
           IF i % (Chunk + 1) = 0 THEN ChunkHeader(m)
           ELSE BodyUnit(m, i - i \div (Chunk + 1))
    BY DEF ChunkedBody, ChunkedLength, ChunkHeader, BodyUnit
  <2>2. Chunk + 1 \in Nat \ {0} /\ i \in Nat
    BY ConstantsTyped, <1>1
  <2>3. PICK k \in Nat, r \in 0 .. (Chunk + 1) - 1 : i = (Chunk + 1) * k + r
    BY <2>2, DivModSplit
  <2>4. i \div (Chunk + 1) = k
    BY <2>2, <2>3, DivModOf
  <2>5. k <= (Chunk + 1) * k
    BY <2>2
  <2>6. i - k \in Nat
    BY <2>2, <2>3, <2>5
  <2>7. ChunkHeader(m) \in Unit /\ BodyUnit(m, i - k) \in Unit
    BY <2>6 DEF Unit, ChunkHeader, BodyUnit, Formats
  <2> QED
    BY <2>1, <2>4, <2>7 DEF ChunkHeader, BodyUnit
<1>5. ChunkedBody(m, size) \in Seq(Unit) /\ Len(ChunkedBody(m, size)) = ChunkedLength(size)
  <2>1. ChunkedBody(m, size) = [i \in 1 .. ChunkedLength(size) |-> ChunkedBody(m, size)[i]]
    BY DEF ChunkedBody, ChunkedLength
  <2>2. ChunkedBody(m, size) \in [1 .. ChunkedLength(size) -> Unit]
    BY <1>4, <2>1, Zenon
  <2> QED
    BY <1>1, <2>2, FunctionIsSeq
<1> QED
  BY <1>3, <1>4, <1>5

LEMMA UnitsOfAt ==
  ASSUME NEW m \in 0 .. MaxMessages, NEW f \in Formats, NEW size \in Nat \ {0}
  PROVE  /\ UnitsOf(m, f, size) \in Seq(Unit)
         /\ Len(UnitsOf(m, f, size)) = HeaderLength[f] + ChunkedLength(size)
         /\ \A i \in 1 .. HeaderLength[f] : UnitsOf(m, f, size)[i] = HeadUnit(m, f, i)
         /\ \A j \in 1 .. ChunkedLength(size) :
               UnitsOf(m, f, size)[HeaderLength[f] + j] = ChunkedBody(m, size)[j]
         /\ \A i \in 1 .. HeaderLength[f] + ChunkedLength(size) :
               UnitsOf(m, f, size)[i].of = m
<1> DEFINE h == HeadUnits(m, f)
           b == ChunkedBody(m, size)
<1>1. /\ h \in Seq(Unit) /\ Len(h) = HeaderLength[f]
      /\ b \in Seq(Unit) /\ Len(b) = ChunkedLength(size)
      /\ \A j \in 1 .. ChunkedLength(size) : b[j].of = m
  BY UnitsTyped
<1>2. \A i \in 1 .. HeaderLength[f] : h[i] = HeadUnit(m, f, i)
  BY DEF HeadUnits, HeadUnit
<1>3. HeaderLength[f] \in Nat /\ ChunkedLength(size) \in Nat
  BY HeaderLengths, ChunkedBodyAt
<1>4. UnitsOf(m, f, size) = h \o b
  BY DEF UnitsOf
<1> HIDE DEF h, b
<1>5. /\ h \o b \in Seq(Unit) /\ Len(h \o b) = HeaderLength[f] + ChunkedLength(size)
      /\ \A i \in 1 .. HeaderLength[f] : (h \o b)[i] = h[i]
      /\ \A j \in 1 .. ChunkedLength(size) : (h \o b)[HeaderLength[f] + j] = b[j]
  <2>1. /\ h \o b \in Seq(Unit) /\ Len(h \o b) = Len(h) + Len(b)
        /\ \A i \in 1 .. Len(h) : (h \o b)[i] = h[i]
        /\ \A j \in 1 .. Len(b) : (h \o b)[Len(h) + j] = b[j]
    <3>1. ASSUME NEW x \in Seq(Unit), NEW y \in Seq(Unit)
          PROVE  /\ x \o y \in Seq(Unit) /\ Len(x \o y) = Len(x) + Len(y)
                 /\ \A i \in 1 .. Len(x) : (x \o y)[i] = x[i]
                 /\ \A j \in 1 .. Len(y) : (x \o y)[Len(x) + j] = y[j]
      BY TwoInARow
    <3>2. h \in Seq(Unit) /\ b \in Seq(Unit)
      BY <1>1
    <3> QED
      BY <3>1, <3>2, Zenon
  <2> QED
    BY <2>1, <1>1, Zenon
<1>6. ASSUME NEW i \in 1 .. HeaderLength[f] PROVE (h \o b)[i].of = m
  <2>1. (h \o b)[i] = HeadUnit(m, f, i)
    BY <1>2, <1>5
  <2> QED
    BY <2>1 DEF HeadUnit
<1>7. ASSUME NEW i \in 1 .. HeaderLength[f] + ChunkedLength(size)
      PROVE  (h \o b)[i].of = m
  <2>1. i \in 1 .. HeaderLength[f]
          \/ \E j \in 1 .. ChunkedLength(size) : i = HeaderLength[f] + j
    <3>1. i - HeaderLength[f] \in 1 .. ChunkedLength(size) => i = HeaderLength[f] + (i - HeaderLength[f])
      BY <1>3
    <3>2. i \in 1 .. HeaderLength[f] \/ i - HeaderLength[f] \in 1 .. ChunkedLength(size)
      BY <1>3
    <3> QED
      BY <3>1, <3>2
  <2> QED
    BY <2>1, <1>1, <1>5, <1>6, Zenon
<1> QED
  BY <1>2, <1>4, <1>5, <1>7 DEF b

-----------------------------------------------------------------------------
(* The front of a sequence and the rest of it.                             *)
LEMMA FrontAndRest ==
  ASSUME NEW S, NEW s \in Seq(S), NEW n \in 0 .. Len(s)
  PROVE  /\ SubSeq(s, 1, n) \in Seq(S) /\ Len(SubSeq(s, 1, n)) = n
         /\ \A i \in 1 .. n : SubSeq(s, 1, n)[i] = s[i]
         /\ SubSeq(s, n + 1, Len(s)) \in Seq(S)
         /\ Len(SubSeq(s, n + 1, Len(s))) = Len(s) - n
         /\ \A i \in 1 .. Len(s) - n : SubSeq(s, n + 1, Len(s))[i] = s[n + i]
<1>1. Len(s) \in Nat /\ \A i \in 1 .. Len(s) : s[i] \in S
  OBVIOUS
<1>2. /\ SubSeq(s, 1, n) \in Seq(S)
      /\ Len(SubSeq(s, 1, n)) = IF 1 <= n THEN n - 1 + 1 ELSE 0
      /\ \A i \in 1 .. n - 1 + 1 : SubSeq(s, 1, n)[i] = s[1 + i - 1]
  <2>1. 1 \in Int /\ n \in Int /\ \A i \in 1 .. n : s[i] \in S
    BY <1>1
  <2> QED
    BY <2>1, SubSeqProperties
<1>3. /\ SubSeq(s, n + 1, Len(s)) \in Seq(S)
      /\ Len(SubSeq(s, n + 1, Len(s))) = IF n + 1 <= Len(s) THEN Len(s) - (n + 1) + 1 ELSE 0
      /\ \A i \in 1 .. Len(s) - (n + 1) + 1 :
            SubSeq(s, n + 1, Len(s))[i] = s[(n + 1) + i - 1]
  <2>1. n + 1 \in Int /\ Len(s) \in Int /\ \A i \in n + 1 .. Len(s) : s[i] \in S
    BY <1>1
  <2> QED
    BY <2>1, SubSeqProperties
<1>4. Len(SubSeq(s, 1, n)) = n /\ \A i \in 1 .. n : SubSeq(s, 1, n)[i] = s[i]
  BY <1>1, <1>2
<1>5. Len(SubSeq(s, n + 1, Len(s))) = Len(s) - n
  BY <1>1, <1>3
<1>6. ASSUME NEW i \in 1 .. Len(s) - n PROVE SubSeq(s, n + 1, Len(s))[i] = s[n + i]
  <2>1. i \in 1 .. Len(s) - (n + 1) + 1 /\ (n + 1) + i - 1 = n + i
    BY <1>1
  <2> QED
    BY <2>1, <1>3
<1> QED
  BY <1>2, <1>3, <1>4, <1>5, <1>6

(* What the server has not consumed: the receive buffer and the wire.      *)

InTwo(b, w, i) == IF i <= Len(b) THEN b[i] ELSE w[i - Len(b)]
Upcoming(i) == InTwo(buffer, wire, i)
Total == Len(buffer) + Len(wire)
Received == buffer \in Seq(Unit) /\ wire \in Seq(Unit)

LEMMA UpcomingIs ==
  ASSUME Received
  PROVE  /\ Len(buffer) \in Nat /\ Len(wire) \in Nat /\ Total \in Nat
         /\ \A i \in 1 .. Len(buffer) : Upcoming(i) = buffer[i]
         /\ \A j \in 1 .. Len(wire) : Upcoming(Len(buffer) + j) = wire[j]
<1>1. Len(buffer) \in Nat /\ Len(wire) \in Nat /\ Total \in Nat
  BY DEF Received, Total
<1>2. \A i \in 1 .. Len(buffer) : Upcoming(i) = buffer[i]
  BY <1>1 DEF Upcoming, InTwo
<1>3. ASSUME NEW j \in 1 .. Len(wire) PROVE Upcoming(Len(buffer) + j) = wire[j]
  <2>1. ~(Len(buffer) + j <= Len(buffer)) /\ (Len(buffer) + j) - Len(buffer) = j
    BY <1>1
  <2> QED
    BY <2>1 DEF Upcoming, InTwo
<1> QED
  BY <1>1, <1>2, <1>3

Joined(c, x, y) ==
    /\ c \in Seq(Unit) /\ Len(c) = Len(x) + Len(y)
    /\ \A i \in 1 .. Len(x) : c[i] = x[i]
    /\ \A j \in 1 .. Len(y) : c[Len(x) + j] = y[j]
IsFront(t, s, n) == t \in Seq(Unit) /\ Len(t) = n /\ \A i \in 1 .. n : t[i] = s[i]
IsRest(t, s, n) ==
    t \in Seq(Unit) /\ Len(t) = Len(s) - n /\ \A i \in 1 .. Len(s) - n : t[i] = s[n + i]

LEMMA JoinedUnits ==
  ASSUME NEW x \in Seq(Unit), NEW y \in Seq(Unit) PROVE Joined(x \o y, x, y)
  BY TwoInARow DEF Joined

LEMMA CutUnits ==
  ASSUME NEW s \in Seq(Unit), NEW n \in 0 .. Len(s)
  PROVE  IsFront(SubSeq(s, 1, n), s, n) /\ IsRest(SubSeq(s, n + 1, Len(s)), s, n)
  BY FrontAndRest DEF IsFront, IsRest

(* The front of the second part moves to the first, the first is cut, or   *)
(* the second grows.                                                       *)
LEMMA MoveInTwo ==
  ASSUME NEW b \in Seq(Unit), NEW w \in Seq(Unit), NEW n \in 0 .. Len(w),
         NEW t \in Seq(Unit), NEW c \in Seq(Unit), NEW v \in Seq(Unit),
         IsFront(t, w, n), Joined(c, b, t), IsRest(v, w, n)
  PROVE  \A i \in 1 .. Len(b) + Len(w) : InTwo(c, v, i) = InTwo(b, w, i)
<1> DEFINE k == Len(b)
           l == Len(w)
<1>a. k \in Nat /\ l \in Nat /\ Len(c) = k + n /\ n \in 0 .. l
  BY DEF Joined, IsFront
<1>b. /\ \A i \in 1 .. k : c[i] = b[i]
      /\ \A j \in 1 .. n : c[k + j] = w[j]
      /\ \A j \in 1 .. l - n : v[j] = w[n + j]
  BY DEF Joined, IsFront, IsRest
<1> SUFFICES ASSUME NEW i \in 1 .. k + l PROVE InTwo(c, v, i) = InTwo(b, w, i)
  OBVIOUS
<1>1. CASE i \in 1 .. k
  <2>1. i <= k /\ i <= k + n
    BY <1>1, <1>a
  <2> QED
    BY <2>1, <1>1, <1>a, <1>b DEF InTwo
<1>2. CASE i - k \in 1 .. n
  <2>1. i <= k + n /\ ~(i <= k) /\ i = k + (i - k)
    BY <1>2, <1>a
  <2>2. c[i] = w[i - k]
    BY <2>1, <1>2, <1>b
  <2> QED
    BY <2>1, <2>2, <1>a DEF InTwo
<1>3. CASE i - (k + n) \in 1 .. l - n
  <2>1. ~(i <= k + n) /\ ~(i <= k) /\ n + (i - (k + n)) = i - k
    BY <1>3, <1>a
  <2> QED
    BY <2>1, <1>3, <1>a, <1>b DEF InTwo
<1> QED
  BY <1>1, <1>2, <1>3, <1>a

LEMMA CutInTwo ==
  ASSUME NEW b \in Seq(Unit), NEW w \in Seq(Unit), NEW n \in 0 .. Len(b),
         NEW c \in Seq(Unit), IsRest(c, b, n)
  PROVE  \A i \in 1 .. Len(b) + Len(w) - n : InTwo(c, w, i) = InTwo(b, w, n + i)
<1> DEFINE k == Len(b)
           l == Len(w)
<1>a. k \in Nat /\ l \in Nat /\ n \in 0 .. k /\ Len(c) = k - n
  BY DEF IsRest
<1>b. \A i \in 1 .. k - n : c[i] = b[n + i]
  BY DEF IsRest
<1> SUFFICES ASSUME NEW i \in 1 .. k + l - n PROVE InTwo(c, w, i) = InTwo(b, w, n + i)
  OBVIOUS
<1>1. CASE i \in 1 .. k - n
  <2>1. i <= k - n /\ n + i <= k
    BY <1>1, <1>a
  <2> QED
    BY <2>1, <1>1, <1>a, <1>b DEF InTwo
<1>2. CASE i > k - n
  <2>1. ~(i <= k - n) /\ ~(n + i <= k) /\ i - (k - n) = n + i - k
    BY <1>2, <1>a
  <2> QED
    BY <2>1, <1>a DEF InTwo
<1> QED
  BY <1>1, <1>2, <1>a

LEMMA GrowInTwo ==
  ASSUME NEW b \in Seq(Unit), NEW w \in Seq(Unit), NEW u \in Seq(Unit),
         NEW v \in Seq(Unit), Joined(v, w, u)
  PROVE  /\ \A i \in 1 .. Len(b) + Len(w) : InTwo(b, v, i) = InTwo(b, w, i)
         /\ \A j \in 1 .. Len(u) : InTwo(b, v, Len(b) + Len(w) + j) = u[j]
<1> DEFINE k == Len(b)
           l == Len(w)
           n == Len(u)
<1>a. k \in Nat /\ l \in Nat /\ n \in Nat
  OBVIOUS
<1>b. (\A i \in 1 .. l : v[i] = w[i]) /\ \A j \in 1 .. n : v[l + j] = u[j]
  BY DEF Joined
<1>1. ASSUME NEW i \in 1 .. k + l PROVE InTwo(b, v, i) = InTwo(b, w, i)
  <2>1. i <= k \/ i - k \in 1 .. l
    BY <1>a
  <2> QED
    BY <2>1, <1>a, <1>b DEF InTwo
<1>2. ASSUME NEW j \in 1 .. n PROVE InTwo(b, v, k + l + j) = u[j]
  <2>1. ~(k + l + j <= k) /\ (k + l + j) - k = l + j
    BY <1>a
  <2> QED
    BY <2>1, <1>b DEF InTwo
<1> QED
  BY <1>1, <1>2

(* A read changes nothing of what is to be consumed.                       *)
LEMMA ReadKeepsUpcoming ==
  ASSUME Received, NEW n \in 1 .. Len(wire), Read(n)
  PROVE  /\ Received' /\ Len(buffer') = Len(buffer) + n /\ Total' = Total
         /\ \A i \in 1 .. Total : Upcoming(i)' = Upcoming(i)
<1> DEFINE t == SubSeq(wire, 1, n)
<1>1. /\ Len(buffer) \in Nat /\ Len(wire) \in Nat /\ n \in 0 .. Len(wire)
      /\ buffer \in Seq(Unit) /\ wire \in Seq(Unit)
  BY UpcomingIs DEF Received
<1>2. IsFront(t, wire, n) /\ IsRest(wire', wire, n)
  BY <1>1, CutUnits DEF Read
<1>3. t \in Seq(Unit) /\ Len(t) = n /\ wire' \in Seq(Unit) /\ Len(wire') = Len(wire) - n
  BY <1>2 DEF IsFront, IsRest
<1>4. buffer' = buffer \o t
  BY DEF Read
<1> HIDE DEF t
<1>5. Joined(buffer', buffer, t)
  BY <1>1, <1>3, <1>4, JoinedUnits
<1>6. buffer' \in Seq(Unit) /\ Len(buffer') = Len(buffer) + n
  BY <1>3, <1>5 DEF Joined
<1>7. \A i \in 1 .. Len(buffer) + Len(wire) : InTwo(buffer', wire', i) = InTwo(buffer, wire, i)
  BY <1>1, <1>2, <1>3, <1>5, <1>6, MoveInTwo
<1>8. Len(buffer') + Len(wire') = Len(buffer) + Len(wire)
  BY <1>1, <1>3, <1>6
<1> QED
  BY <1>3, <1>6, <1>7, <1>8, Zenon DEF Upcoming, Total, Received

(* What is consumed comes off its front.                                   *)
LEMMA DropMovesUpcoming ==
  ASSUME Received, NEW n \in 0 .. Len(buffer), Drop(n), UNCHANGED wire
  PROVE  /\ Received' /\ Len(buffer') = Len(buffer) - n /\ Total' = Total - n
         /\ \A i \in 1 .. Total - n : Upcoming(i)' = Upcoming(n + i)
         /\ Front(n) \in Seq(Unit) /\ Len(Front(n)) = n
         /\ \A i \in 1 .. n : Front(n)[i] = Upcoming(i)
<1>1. /\ Len(buffer) \in Nat /\ Len(wire) \in Nat
      /\ buffer \in Seq(Unit) /\ wire \in Seq(Unit)
  BY UpcomingIs DEF Received
<1>2. IsFront(Front(n), buffer, n) /\ IsRest(buffer', buffer, n)
  BY <1>1, CutUnits DEF Front, Drop
<1>3. /\ buffer' \in Seq(Unit) /\ Len(buffer') = Len(buffer) - n
      /\ Front(n) \in Seq(Unit) /\ Len(Front(n)) = n
      /\ \A i \in 1 .. n : Front(n)[i] = buffer[i]
  BY <1>2 DEF IsFront, IsRest
<1>4. \A i \in 1 .. Len(buffer) + Len(wire) - n :
         InTwo(buffer', wire', i) = InTwo(buffer, wire, n + i)
  BY <1>1, <1>2, <1>3, CutInTwo
<1>5. Len(buffer') + Len(wire') = Len(buffer) + Len(wire) - n
  BY <1>1, <1>3
<1>6. ASSUME NEW i \in 1 .. n PROVE Front(n)[i] = Upcoming(i)
  <2>1. i \in 1 .. Len(buffer)
    BY <1>1
  <2> QED
    BY <2>1, <1>3, UpcomingIs
<1>7. \A i \in 1 .. Total - n : Upcoming(i)' = Upcoming(n + i)
  BY <1>4 DEF Upcoming, Total
<1>8. Received' /\ Total' = Total - n
  BY <1>1, <1>3, <1>5 DEF Received, Total
<1> QED
  BY <1>3, <1>6, <1>7, <1>8, Zenon

(* What is sent is put at its end.                                         *)
Sends(u) == buffer' = buffer /\ wire' = wire \o u

LEMMA SendExtendsUpcoming ==
  ASSUME Received, NEW u \in Seq(Unit), Sends(u)
  PROVE  /\ Received' /\ Total' = Total + Len(u)
         /\ \A i \in 1 .. Total : Upcoming(i)' = Upcoming(i)
         /\ \A j \in 1 .. Len(u), i \in Nat : i = Total + j => Upcoming(i)' = u[j]
<1>1. /\ Len(buffer) \in Nat /\ Len(wire) \in Nat /\ Len(u) \in Nat
      /\ buffer \in Seq(Unit) /\ wire \in Seq(Unit)
  BY UpcomingIs DEF Received
<1>2. buffer' = buffer
  BY DEF Sends
<1>3. Joined(wire', wire, u)
  BY <1>1, JoinedUnits DEF Sends
<1>4. wire' \in Seq(Unit) /\ Len(wire') = Len(wire) + Len(u)
  BY <1>3 DEF Joined
<1>5. \A i \in 1 .. Len(buffer) + Len(wire) :
         InTwo(buffer, wire', i) = InTwo(buffer, wire, i)
  BY <1>1, <1>3, <1>4, GrowInTwo
<1>6. \A j \in 1 .. Len(u) : InTwo(buffer, wire', Len(buffer) + Len(wire) + j) = u[j]
  BY <1>1, <1>3, <1>4, GrowInTwo
<1>7. \A i \in 1 .. Total : Upcoming(i)' = Upcoming(i)
  BY <1>2, <1>5 DEF Upcoming, Total
<1>8. ASSUME NEW j \in 1 .. Len(u), NEW i \in Nat, i = Total + j
      PROVE  Upcoming(i)' = u[j]
  <2>1. InTwo(buffer, wire', i) = u[j]
    BY <1>6, <1>8 DEF Total
  <2> QED
    BY <2>1, <1>2 DEF Upcoming
<1>9. Len(buffer') + Len(wire') = Len(buffer) + Len(wire) + Len(u)
  BY <1>1, <1>2, <1>4
<1>10. Received' /\ Total' = Total + Len(u)
  BY <1>1, <1>2, <1>4, <1>9, Zenon DEF Received, Total
<1> QED
  BY <1>7, <1>8, <1>10

-----------------------------------------------------------------------------
(* The stream.  Message m has a header of format f[m] and begins after the *)
(* first o[m] units of the stream; c units of it have been consumed.       *)

Sent == Len(messages)
Size(m) == messages[m].size
Span(f, m) == HeaderLength[f[m]] + ChunkedLength(Size(m))

Places(f, o, c) ==
    /\ f \in [1 .. MaxMessages -> Formats] /\ o \in [1 .. MaxMessages + 1 -> Nat]
    /\ c \in Nat /\ Sent \in 0 .. MaxMessages
    /\ o[1] = FirstLength
    /\ \A m \in 1 .. Sent : o[m + 1] = o[m] + Span(f, m)
    /\ \A m, n \in 1 .. Sent + 1 : m < n => o[m] < o[n]
    /\ c + Total = o[Sent + 1]

FirstUpcoming(c) == \A i \in 1 .. FirstLength : c < i => Upcoming(i - c) = FirstUnits[i]

MessagesUpcoming(f, o, c) ==
    \A m \in 1 .. Sent : \A i \in 1 .. Span(f, m) :
        c < o[m] + i => Upcoming(o[m] + i - c) = UnitsOf(m, f[m], Size(m))[i]

(* No unit of a message comes before its header.                           *)
NoneEarlier(o, c) ==
    \A i \in 1 .. Total : Upcoming(i).of # 0 =>
        Upcoming(i).of \in 1 .. Sent /\ o[Upcoming(i).of] < c + i

(* What a header leaves out is that of the message before.                 *)
LeftOut(f) ==
    \A m \in 1 .. Sent :
        /\ f[m] \in {"fmt2", "fmt3"} =>
              m > 1 /\ Size(m) = Size(m - 1) /\ messages[m].av = messages[m - 1].av
        /\ f[m] = "fmt3" => Delta(m) = Delta(m - 1)

Stream(f, o, c) ==
    /\ Places(f, o, c) /\ FirstUpcoming(c)
    /\ MessagesUpcoming(f, o, c) /\ NoneEarlier(o, c) /\ LeftOut(f)

LEMMA MessageTyped ==
  ASSUME messages \in Seq(Message), NEW m \in 1 .. Sent
  PROVE  /\ messages[m] \in Message /\ Size(m) \in Nat \ {0} /\ Size(m) \in 0 .. Power(3) - 1
         /\ messages[m].av \in BOOLEAN /\ messages[m].time \in Nat
<1>1. messages[m] \in Message
  BY DEF Sent
<1>2. Size(m) \in Sizes /\ messages[m].av \in BOOLEAN /\ messages[m].time \in Nat
  BY <1>1 DEF Message, Size
<1>3. Size(m) \in 1 .. Power(3) - 1
  BY <1>2, ChunkAssumption DEF ChunkAssumption
<1>4. Power(3) \in Nat
  BY PowerValues
<1> QED
  BY <1>1, <1>2, <1>3, <1>4

LEMMA SpanTyped ==
  ASSUME messages \in Seq(Message), NEW f \in [1 .. MaxMessages -> Formats],
         Sent \in 0 .. MaxMessages, NEW m \in 1 .. Sent
  PROVE  /\ m \in 0 .. MaxMessages /\ m \in 1 .. MaxMessages /\ f[m] \in Formats
         /\ HeaderLength[f[m]] \in Nat \ {0}
         /\ ChunkedLength(Size(m)) \in Nat \ {0} /\ Span(f, m) \in Nat \ {0}
<1>1. MaxMessages \in Nat
  BY ConstantsTyped
<1>2. m \in 0 .. MaxMessages /\ m \in 1 .. MaxMessages
  BY <1>1
<1>3. f[m] \in Formats
  BY <1>2
<1>4. HeaderLength[f[m]] \in Nat \ {0}
  BY <1>3, HeaderLengths
<1>5. ChunkedLength(Size(m)) \in Nat \ {0}
  <2>1. Size(m) \in Nat \ {0}
    BY MessageTyped
  <2>2. ChunkedLength(Size(m)) \in Nat /\ ChunkedLength(Size(m)) >= Size(m)
    BY <2>1, ChunkedBodyAt
  <2> QED
    BY <2>1, <2>2
<1> QED
  BY <1>2, <1>3, <1>4, <1>5 DEF Span

(* Where the messages are.                                                 *)
LEMMA PlacesInStream ==
  ASSUME messages \in Seq(Message), Received, NEW f, NEW o, NEW c, Places(f, o, c)
  PROVE  /\ \A m \in 1 .. Sent + 1 : o[m] \in Nat /\ FirstLength <= o[m] /\ o[m] <= c + Total
         /\ \A m \in 1 .. Sent : Span(f, m) \in Nat /\ o[m] + Span(f, m) <= c + Total
<1>1. MaxMessages \in Nat /\ Total \in Nat /\ FirstLength \in Nat
  BY ConstantsTyped, UpcomingIs
<1>2. /\ f \in [1 .. MaxMessages -> Formats] /\ o \in [1 .. MaxMessages + 1 -> Nat]
      /\ c \in Nat /\ Sent \in 0 .. MaxMessages /\ o[1] = FirstLength
      /\ \A m \in 1 .. Sent : o[m + 1] = o[m] + Span(f, m)
      /\ \A m, n \in 1 .. Sent + 1 : m < n => o[m] < o[n]
      /\ c + Total = o[Sent + 1]
  BY DEF Places
<1>3. ASSUME NEW m \in 1 .. Sent + 1
      PROVE  o[m] \in Nat /\ FirstLength <= o[m] /\ o[m] <= c + Total
  <2>1. m \in 1 .. MaxMessages + 1 /\ 1 \in 1 .. Sent + 1 /\ Sent + 1 \in 1 .. Sent + 1
    BY <1>1, <1>2
  <2>2. o[m] \in Nat
    BY <2>1, <1>2
  <2>3. (1 < m => o[1] < o[m]) /\ (m < Sent + 1 => o[m] < o[Sent + 1])
    BY <2>1, <1>2
  <2>4. (m = 1 => o[m] = o[1]) /\ (m = Sent + 1 => o[m] = o[Sent + 1])
    OBVIOUS
  <2>5. (m = 1 \/ 1 < m) /\ (m = Sent + 1 \/ m < Sent + 1)
    BY <2>1, <1>2
  <2> QED
    BY <2>2, <2>3, <2>4, <2>5, <1>1, <1>2
<1>4. ASSUME NEW m \in 1 .. Sent
      PROVE  Span(f, m) \in Nat /\ o[m] + Span(f, m) <= c + Total
  <2>1. m + 1 \in 1 .. Sent + 1
    BY <1>2
  <2>2. o[m + 1] <= c + Total
    BY <2>1, <1>3
  <2> QED
    BY <2>2, <1>2, SpanTyped
<1> QED
  BY <1>3, <1>4

(* Consuming n units.                                                      *)
LEMMA StreamDrop ==
  ASSUME messages \in Seq(Message), Received, NEW f, NEW o, NEW c, Stream(f, o, c),
         NEW n \in 0 .. Len(buffer), Drop(n), UNCHANGED wire, UNCHANGED messages
  PROVE  Stream(f, o, c + n)'
<1>1. /\ Total' = Total - n /\ \A i \in 1 .. Total - n : Upcoming(i)' = Upcoming(n + i)
  BY DropMovesUpcoming
<1>2. /\ Total \in Nat /\ n \in Nat /\ n <= Total /\ FirstLength \in Nat
  BY UpcomingIs, ConstantsTyped DEF Total
<1>3. Places(f, o, c) /\ c \in Nat
  BY DEF Stream, Places
<1>4. /\ \A m \in 1 .. Sent + 1 : o[m] \in Nat /\ FirstLength <= o[m] /\ o[m] <= c + Total
      /\ \A m \in 1 .. Sent : Span(f, m) \in Nat /\ o[m] + Span(f, m) <= c + Total
  BY <1>3, PlacesInStream
<1>5. Sent' = Sent /\ (\A m : Size(m)' = Size(m)) /\ (\A m : Span(f, m)' = Span(f, m))
  BY DEF Sent, Size, Span
<1>6. Sent \in Nat
  BY <1>3, ConstantsTyped DEF Places
<1>7. Places(f, o, c + n)'
  <2>1. c + n + (Total - n) = c + Total /\ c + n \in Nat
    BY <1>2, <1>3
  <2> QED
    BY <2>1, <1>1, <1>3, <1>5 DEF Places
<1>8. FirstUpcoming(c + n)'
  <2> SUFFICES ASSUME NEW i \in 1 .. FirstLength, c + n < i
               PROVE  Upcoming(i - (c + n))' = FirstUnits[i]
    BY DEF FirstUpcoming
  <2>1. Sent + 1 \in 1 .. Sent + 1
    BY <1>6
  <2>2. FirstLength <= c + Total
    BY <2>1, <1>2, <1>3, <1>4
  <2>3. i - (c + n) \in 1 .. Total - n /\ n + (i - (c + n)) = i - c /\ c < i
    BY <2>2, <1>2, <1>3
  <2>4. Upcoming(i - c) = FirstUnits[i]
    BY <2>3 DEF Stream, FirstUpcoming
  <2> QED
    BY <2>3, <2>4, <1>1
<1>9. MessagesUpcoming(f, o, c + n)'
  <2> SUFFICES ASSUME NEW m \in 1 .. Sent, NEW i \in 1 .. Span(f, m), c + n < o[m] + i
               PROVE  Upcoming(o[m] + i - (c + n))' = UnitsOf(m, f[m], Size(m))[i]
    BY <1>5 DEF MessagesUpcoming
  <2>1. m \in 1 .. Sent + 1
    BY <1>6
  <2>2. o[m] \in Nat /\ Span(f, m) \in Nat /\ o[m] + Span(f, m) <= c + Total
    BY <2>1, <1>4
  <2>3. /\ o[m] + i - (c + n) \in 1 .. Total - n
        /\ n + (o[m] + i - (c + n)) = o[m] + i - c /\ c < o[m] + i
    BY <2>2, <1>2, <1>3
  <2>4. Upcoming(o[m] + i - c) = UnitsOf(m, f[m], Size(m))[i]
    BY <2>3 DEF Stream, MessagesUpcoming
  <2> QED
    BY <2>3, <2>4, <1>1
<1>10. NoneEarlier(o, c + n)'
  <2> SUFFICES ASSUME NEW i \in 1 .. Total - n, Upcoming(n + i).of # 0
               PROVE  Upcoming(n + i).of \in 1 .. Sent /\ o[Upcoming(n + i).of] < c + n + i
    BY <1>1, <1>5 DEF NoneEarlier
  <2>1. n + i \in 1 .. Total /\ c + (n + i) = c + n + i
    BY <1>2, <1>3
  <2> QED
    BY <2>1 DEF Stream, NoneEarlier
<1>11. LeftOut(f)'
  BY <1>5 DEF Stream, LeftOut, Delta, Time
<1> QED
  BY <1>7, <1>8, <1>9, <1>10, <1>11 DEF Stream

(* A read, and a step that neither sends, reads nor consumes.              *)
LEMMA StreamRead ==
  ASSUME messages \in Seq(Message), Received, NEW f, NEW o, NEW c, Stream(f, o, c),
         NEW n \in 1 .. Len(wire), Read(n)
  PROVE  Stream(f, o, c)'
<1>1. Total' = Total /\ \A i \in 1 .. Total : Upcoming(i)' = Upcoming(i)
  BY ReadKeepsUpcoming
<1>2. Total \in Nat /\ FirstLength \in Nat
  BY UpcomingIs, ConstantsTyped
<1>3. Places(f, o, c) /\ c \in Nat /\ Sent \in Nat
  BY ConstantsTyped DEF Stream, Places
<1>4. /\ \A m \in 1 .. Sent + 1 : o[m] \in Nat /\ FirstLength <= o[m] /\ o[m] <= c + Total
      /\ \A m \in 1 .. Sent : Span(f, m) \in Nat /\ o[m] + Span(f, m) <= c + Total
  BY <1>3, PlacesInStream
<1>5. Sent' = Sent /\ (\A m : Size(m)' = Size(m)) /\ (\A m : Span(f, m)' = Span(f, m))
      /\ messages' = messages
  BY DEF Sent, Size, Span, Read
<1>6. Places(f, o, c)'
  BY <1>1, <1>3, <1>5 DEF Places
<1>7. FirstUpcoming(c)'
  <2> SUFFICES ASSUME NEW i \in 1 .. FirstLength, c < i
               PROVE  Upcoming(i - c)' = FirstUnits[i]
    BY DEF FirstUpcoming
  <2>1. Sent + 1 \in 1 .. Sent + 1
    BY <1>3
  <2>2. FirstLength <= c + Total
    BY <2>1, <1>2, <1>3, <1>4
  <2>3. i - c \in 1 .. Total
    BY <2>2, <1>2, <1>3
  <2>4. Upcoming(i - c) = FirstUnits[i]
    BY DEF Stream, FirstUpcoming
  <2> QED
    BY <2>3, <2>4, <1>1
<1>8. MessagesUpcoming(f, o, c)'
  <2> SUFFICES ASSUME NEW m \in 1 .. Sent, NEW i \in 1 .. Span(f, m), c < o[m] + i
               PROVE  Upcoming(o[m] + i - c)' = UnitsOf(m, f[m], Size(m))[i]
    BY <1>5 DEF MessagesUpcoming
  <2>1. m \in 1 .. Sent + 1
    BY <1>3
  <2>2. o[m] \in Nat /\ Span(f, m) \in Nat /\ o[m] + Span(f, m) <= c + Total
    BY <2>1, <1>4
  <2>3. o[m] + i - c \in 1 .. Total
    BY <2>2, <1>2, <1>3
  <2>4. Upcoming(o[m] + i - c) = UnitsOf(m, f[m], Size(m))[i]
    BY DEF Stream, MessagesUpcoming
  <2> QED
    BY <2>3, <2>4, <1>1
<1>9. NoneEarlier(o, c)'
  BY <1>1, <1>5 DEF Stream, NoneEarlier
<1>10. LeftOut(f)'
  BY <1>5 DEF Stream, LeftOut, Delta, Time
<1> QED
  BY <1>6, <1>7, <1>8, <1>9, <1>10 DEF Stream

LEMMA StreamKept ==
  ASSUME NEW f, NEW o, NEW c, Stream(f, o, c), UNCHANGED <<buffer, wire, messages>>
  PROVE  Stream(f, o, c)'
<1>1. /\ Sent' = Sent /\ Total' = Total
      /\ (\A m : Size(m)' = Size(m)) /\ (\A m : Span(f, m)' = Span(f, m))
  BY DEF Sent, Size, Span, Total
<1>2. \A i : Upcoming(i)' = Upcoming(i)
  BY DEF Upcoming, InTwo
<1> QED
  BY <1>1, <1>2 DEF Stream, Places, FirstUpcoming, MessagesUpcoming, NoneEarlier, LeftOut,
                    Delta, Time

(* A message more.                                                         *)
LEMMA AppendedIs ==
  ASSUME NEW S, NEW s \in Seq(S), NEW e \in S
  PROVE  /\ Append(s, e) \in Seq(S) /\ Len(Append(s, e)) = Len(s) + 1
         /\ \A i \in 1 .. Len(s) : Append(s, e)[i] = s[i]
         /\ Append(s, e)[Len(s) + 1] = e
  OBVIOUS

(* What sending changes, for a message after the others.                   *)
LEMMA SentIs ==
  ASSUME messages \in Seq(Message), Received, Sent \in 0 .. MaxMessages,
         NEW size \in Sizes, NEW av \in BOOLEAN, NEW delta \in Deltas, NEW format \in Formats,
         ClientSends(size, av, delta, format)
  PROVE  /\ messages' \in Seq(Message) /\ Sent' = Sent + 1 /\ Sent' \in 1 .. MaxMessages
         /\ \A m \in 1 .. Sent : messages'[m] = messages[m]
         /\ \A m \in 0 .. Sent : Time(m)' = Time(m) /\ Time(m) \in Nat
         /\ \A m \in 1 .. Sent : Delta(m)' = Delta(m) /\ Size(m)' = Size(m)
         /\ messages'[Sent + 1] = [size |-> size, av |-> av, time |-> Time(Sent) + delta]
         /\ \A m : m = Sent + 1 => Delta(m)' = delta
         /\ UnitsOf(Sent + 1, format, size) \in Seq(Unit)
         /\ Sends(UnitsOf(Sent + 1, format, size))
<1> DEFINE k == Sent
           e == [size |-> size, av |-> av, time |-> Time(k) + delta]
<1>1. k \in Nat /\ k + 1 - 1 = k /\ MaxMessages \in Nat
  BY ConstantsTyped
<1>2. delta \in Nat /\ size \in Nat \ {0}
  <2>1. delta \in 0 .. Power(3) - 1 /\ size \in 1 .. Power(3) - 1
    BY ChunkAssumption DEF ChunkAssumption
  <2> QED
    BY <2>1, PowerValues
<1>3. \A m \in 0 .. k : Time(m) \in Nat
  BY MessageTyped, <1>1 DEF Time
<1>4. e \in Message
  <2>1. Time(k) \in Nat
    BY <1>1, <1>3
  <2> QED
    BY <2>1, <1>2 DEF Message
<1>5. /\ messages' = Append(messages, e) /\ k + 1 <= MaxMessages
      /\ wire' = wire \o HeadUnits(k + 1, format) \o ChunkedBody(k + 1, size)
      /\ buffer' = buffer
  BY <1>1 DEF ClientSends, Sent, parser_vars
<1> HIDE DEF e
<1>6. /\ messages' \in Seq(Message) /\ Len(messages') = k + 1
      /\ \A i \in 1 .. k : messages'[i] = messages[i]
      /\ messages'[k + 1] = e
  <2>1. ASSUME NEW s, s = Append(messages, e)
        PROVE  /\ s \in Seq(Message) /\ Len(s) = k + 1
               /\ (\A i \in 1 .. k : s[i] = messages[i]) /\ s[k + 1] = e
    BY <2>1, <1>4, AppendedIs DEF Sent
  <2> QED
    BY <2>1, <1>5
<1>7. Sent' = k + 1 /\ Sent' \in 1 .. MaxMessages
  BY <1>1, <1>5, <1>6 DEF Sent
<1>8. \A m \in 0 .. k : Time(m)' = Time(m)
  BY <1>1, <1>6 DEF Time
<1>9. ASSUME NEW m \in 1 .. k PROVE Delta(m)' = Delta(m) /\ Size(m)' = Size(m)
  <2>1. m - 1 \in 0 .. k
    BY <1>1
  <2>2. Time(m - 1)' = Time(m - 1) /\ messages'[m] = messages[m]
    BY <2>1, <1>6, <1>8
  <2> QED
    BY <2>2 DEF Delta, Size
<1>10. ASSUME NEW m, m = k + 1 PROVE Delta(m)' = delta
  <2>1. m - 1 = k /\ k \in 0 .. k
    BY <1>1, <1>10
  <2>2. Time(m - 1)' = Time(k) /\ Time(k) \in Nat
    BY <2>1, <1>3, <1>8
  <2>3. messages'[m].time = Time(k) + delta
    BY <1>6, <1>10 DEF e
  <2>4. Delta(m)' = messages'[m].time - Time(m - 1)'
    BY DEF Delta
  <2> QED
    BY <2>2, <2>3, <2>4, <1>2
<1>11. UnitsOf(k + 1, format, size) \in Seq(Unit) /\ Sends(UnitsOf(k + 1, format, size))
  <2> DEFINE h == HeadUnits(k + 1, format)
             b == ChunkedBody(k + 1, size)
  <2>1. k + 1 \in 0 .. MaxMessages
    BY <1>1, <1>5
  <2>2. h \in Seq(Unit) /\ b \in Seq(Unit) /\ UnitsOf(k + 1, format, size) \in Seq(Unit)
    BY <2>1, <1>2, UnitsTyped, UnitsOfAt
  <2>3. wire' = (wire \o h) \o b
    BY <1>5
  <2>4. UnitsOf(k + 1, format, size) = h \o b
    BY DEF UnitsOf
  <2> HIDE DEF h, b
  <2>5. ASSUME NEW x \in Seq(Unit), NEW y \in Seq(Unit), NEW z \in Seq(Unit)
        PROVE  (x \o y) \o z = x \o (y \o z)
    BY ConcatAssociative
  <2>6. (wire \o h) \o b = wire \o (h \o b)
    BY <2>2, <2>5 DEF Received
  <2>7. wire' = wire \o UnitsOf(k + 1, format, size)
    BY <2>3, <2>4, <2>6, Zenon
  <2> QED
    BY <2>2, <2>7, <1>5 DEF Sends
<1> QED
  BY <1>3, <1>6, <1>7, <1>8, <1>9, <1>10, <1>11 DEF e

LEMMA StreamSend ==
  ASSUME messages \in Seq(Message), Received, NEW f, NEW o, NEW c, Stream(f, o, c),
         NEW size \in Sizes, NEW av \in BOOLEAN, NEW delta \in Deltas, NEW format \in Formats,
         ClientSends(size, av, delta, format)
  PROVE  \E g, p : /\ Stream(g, p, c)'
                   /\ \A m \in 1 .. Sent + 1 : p[m] = o[m]
                   /\ \A m \in 1 .. Sent : g[m] = f[m]
<1>a. PICK k : k = Sent
  OBVIOUS
<1> DEFINE u == UnitsOf(k + 1, format, size)
<1>b. PICK g, p : g = [f EXCEPT ![k + 1] = format] /\ p = [o EXCEPT ![k + 2] = o[k + 1] + Len(u)]
  OBVIOUS
<1>1. /\ messages' \in Seq(Message) /\ Sent' = k + 1 /\ Sent' \in 1 .. MaxMessages
      /\ \A m \in 1 .. k : messages'[m] = messages[m]
      /\ \A m \in 1 .. k : Delta(m)' = Delta(m) /\ Size(m)' = Size(m)
      /\ messages'[k + 1] = [size |-> size, av |-> av, time |-> Time(k) + delta]
      /\ \A m : m = k + 1 => Delta(m)' = delta
      /\ u \in Seq(Unit) /\ Sends(u)
  BY <1>a, SentIs DEF Stream, Places
<1>2. /\ f \in [1 .. MaxMessages -> Formats] /\ o \in [1 .. MaxMessages + 1 -> Nat]
      /\ c \in Nat /\ k \in Nat /\ o[1] = FirstLength
      /\ \A m \in 1 .. k : o[m + 1] = o[m] + Span(f, m)
      /\ \A m, n \in 1 .. k + 1 : m < n => o[m] < o[n]
      /\ c + Total = o[k + 1]
  BY <1>a, ConstantsTyped DEF Stream, Places
<1>3. MaxMessages \in Nat /\ k + 1 \in 1 .. MaxMessages /\ k + 2 \in 1 .. MaxMessages + 1
      /\ k + 1 \in 1 .. MaxMessages + 1
  BY <1>1, <1>2, ConstantsTyped
<1>4. size \in Nat \ {0}
  <2>1. size \in 1 .. Power(3) - 1
    BY ChunkAssumption DEF ChunkAssumption
  <2> QED
    BY <2>1, PowerValues
<1>5. /\ Len(u) = HeaderLength[format] + ChunkedLength(size) /\ Len(u) \in Nat \ {0}
      /\ \A i \in 1 .. Len(u) : u[i].of = k + 1
  <2>1. k + 1 \in 0 .. MaxMessages
    BY <1>3
  <2>2. /\ Len(u) = HeaderLength[format] + ChunkedLength(size)
        /\ \A i \in 1 .. HeaderLength[format] + ChunkedLength(size) : u[i].of = k + 1
    BY <2>1, <1>4, UnitsOfAt
  <2>3. HeaderLength[format] \in Nat \ {0} /\ ChunkedLength(size) \in Nat
    BY <1>4, HeaderLengths, ChunkedBodyAt
  <2> QED
    BY <2>2, <2>3
<1> HIDE DEF u
<1>6. /\ Received' /\ Total' = Total + Len(u)
      /\ \A i \in 1 .. Total : Upcoming(i)' = Upcoming(i)
      /\ \A j \in 1 .. Len(u), i \in Nat : i = Total + j => Upcoming(i)' = u[j]
  BY <1>1, SendExtendsUpcoming
<1>7. /\ g \in [1 .. MaxMessages -> Formats] /\ g[k + 1] = format
      /\ \A m \in 1 .. k : g[m] = f[m]
  BY <1>b, <1>2, <1>3
<1>8. /\ p \in [1 .. MaxMessages + 1 -> Nat] /\ p[k + 2] = o[k + 1] + Len(u)
      /\ \A m \in 1 .. k + 1 : p[m] = o[m] /\ o[m] \in Nat
  BY <1>b, <1>2, <1>3, <1>5
<1>9. \A m \in 1 .. k : Span(g, m)' = Span(f, m)
  BY <1>1, <1>7 DEF Span
<1>10. \A m : m = k + 1 => Size(m)' = size /\ Span(g, m)' = Len(u)
  BY <1>1, <1>5, <1>7 DEF Span, Size
<1>11. \A m \in 1 .. k + 1 : m \in 1 .. k \/ m = k + 1
  BY <1>2
<1>12. Total \in Nat /\ FirstLength \in Nat
  BY UpcomingIs, ConstantsTyped
<1>13. Places(f, o, c)
  BY DEF Stream
<1>14. /\ \A m \in 1 .. k + 1 : o[m] \in Nat /\ FirstLength <= o[m] /\ o[m] <= c + Total
       /\ \A m \in 1 .. k : Span(f, m) \in Nat /\ o[m] + Span(f, m) <= c + Total
  BY <1>a, <1>13, PlacesInStream
<1>15. Places(g, p, c)'
  <2>1. p[1] = FirstLength
    <3>1. 1 \in 1 .. k + 1
      BY <1>2
    <3> QED
      BY <3>1, <1>2, <1>8
  <2>2. ASSUME NEW m \in 1 .. k + 1 PROVE p[m + 1] = p[m] + Span(g, m)'
    <3>1. CASE m \in 1 .. k
      <4>1. m + 1 \in 1 .. k + 1
        BY <3>1, <1>2
      <4> QED
        BY <3>1, <4>1, <1>2, <1>8, <1>9
    <3>2. CASE m = k + 1
      <4>1. m + 1 = k + 2
        BY <3>2, <1>2
      <4> QED
        BY <3>2, <4>1, <1>8, <1>10
    <3> QED
      BY <3>1, <3>2, <1>11
  <2>3. ASSUME NEW m \in 1 .. k + 2, NEW n \in 1 .. k + 2, m < n PROVE p[m] < p[n]
    <3>1. m \in 1 .. k + 1 /\ (n \in 1 .. k + 1 \/ n = k + 2)
      BY <2>3, <1>2
    <3>2. CASE n \in 1 .. k + 1
      BY <2>3, <3>1, <3>2, <1>2, <1>8
    <3>3. CASE n = k + 2
      <4>1. o[m] <= o[k + 1]
        BY <3>1, <1>2, <1>14
      <4>2. k + 1 \in 1 .. k + 1
        BY <1>2
      <4>3. o[m] \in Nat /\ o[k + 1] \in Nat
        BY <4>2, <3>1, <1>8
      <4>4. p[m] = o[m] /\ p[n] = o[k + 1] + Len(u)
        BY <3>1, <3>3, <1>8
      <4> QED
        BY <4>1, <4>3, <4>4, <1>5
    <3> QED
      BY <3>1, <3>2, <3>3
  <2>4. Sent' + 1 = k + 2 /\ Sent' \in 0 .. MaxMessages
    BY <1>1, <1>2, <1>3
  <2>5. c + Total' = p[k + 2]
    BY <1>2, <1>5, <1>6, <1>8, <1>12
  <2> QED
    BY <2>1, <2>2, <2>3, <2>4, <2>5, <1>1, <1>2, <1>7, <1>8 DEF Places
<1>16. FirstUpcoming(c)'
  <2> SUFFICES ASSUME NEW i \in 1 .. FirstLength, c < i
               PROVE  Upcoming(i - c)' = FirstUnits[i]
    BY DEF FirstUpcoming
  <2>1. k + 1 \in 1 .. k + 1
    BY <1>2
  <2>2. FirstLength <= c + Total
    BY <2>1, <1>2, <1>12, <1>14
  <2>3. i - c \in 1 .. Total
    BY <2>2, <1>2, <1>12
  <2>4. Upcoming(i - c) = FirstUnits[i]
    BY DEF Stream, FirstUpcoming
  <2> QED
    BY <2>3, <2>4, <1>6
<1>17. MessagesUpcoming(g, p, c)'
  <2> SUFFICES ASSUME NEW m \in 1 .. k + 1, NEW i \in 1 .. Span(g, m)', c < p[m] + i
               PROVE  Upcoming(p[m] + i - c)' = UnitsOf(m, g[m], Size(m)')[i]
    BY <1>1 DEF MessagesUpcoming
  <2>1. CASE m \in 1 .. k
    <3>1. p[m] = o[m] /\ g[m] = f[m] /\ Size(m)' = Size(m) /\ i \in 1 .. Span(f, m)
      BY <2>1, <1>1, <1>7, <1>8, <1>9
    <3>2. o[m] \in Nat /\ Span(f, m) \in Nat /\ o[m] + Span(f, m) <= c + Total
      BY <2>1, <1>14
    <3>3. o[m] + i - c \in 1 .. Total /\ c < o[m] + i
      BY <3>1, <3>2, <1>2, <1>12
    <3>4. Upcoming(o[m] + i - c) = UnitsOf(m, f[m], Size(m))[i]
      BY <1>a, <2>1, <3>1, <3>3 DEF Stream, MessagesUpcoming
    <3>5. Upcoming(o[m] + i - c)' = Upcoming(o[m] + i - c)
      BY <3>3, <1>6
    <3> QED
      BY <3>1, <3>4, <3>5
  <2>2. CASE m = k + 1
    <3>1. p[m] = o[k + 1] /\ g[m] = format /\ Size(m)' = size /\ i \in 1 .. Len(u)
      BY <2>2, <1>7, <1>8, <1>10
    <3>2. p[m] + i - c = Total + i /\ p[m] + i - c \in Nat
      BY <3>1, <1>2, <1>12, <1>5
    <3>3. Upcoming(p[m] + i - c)' = u[i]
      BY <3>1, <3>2, <1>6
    <3> QED
      BY <2>2, <3>1, <3>3 DEF u
  <2> QED
    BY <2>1, <2>2, <1>11
<1>18. NoneEarlier(p, c)'
  <2> SUFFICES ASSUME NEW i \in 1 .. Total + Len(u), Upcoming(i)'.of # 0
               PROVE  Upcoming(i)'.of \in 1 .. k + 1 /\ p[Upcoming(i)'.of] < c + i
    BY <1>1, <1>6 DEF NoneEarlier
  <2>1. CASE i \in 1 .. Total
    <3>1. Upcoming(i)' = Upcoming(i)
      BY <2>1, <1>6
    <3>2. Upcoming(i).of \in 1 .. k /\ o[Upcoming(i).of] < c + i
      BY <1>a, <2>1, <3>1 DEF Stream, NoneEarlier
    <3>3. Upcoming(i).of \in 1 .. k + 1
      BY <3>2, <1>2
    <3> QED
      BY <3>1, <3>2, <3>3, <1>8
  <2>2. CASE i - Total \in 1 .. Len(u)
    <3>1. i = Total + (i - Total) /\ i \in Nat
      BY <1>5, <1>12
    <3>2. Upcoming(i)' = u[i - Total]
      BY <2>2, <3>1, <1>6
    <3>3. Upcoming(i)'.of = k + 1
      BY <2>2, <3>2, <1>5
    <3>4. k + 1 \in 1 .. k + 1
      BY <1>2
    <3>5. p[k + 1] = c + Total
      BY <3>4, <1>2, <1>8
    <3>6. c + Total < c + i
      BY <2>2, <1>2, <1>5, <1>12
    <3> QED
      BY <3>3, <3>4, <3>5, <3>6
  <2> QED
    BY <2>1, <2>2, <1>5, <1>12
<1>19. LeftOut(g)'
  <2> SUFFICES ASSUME NEW m \in 1 .. k + 1
               PROVE  /\ g[m] \in {"fmt2", "fmt3"} =>
                            /\ m > 1 /\ Size(m)' = Size(m - 1)'
                            /\ messages'[m].av = messages'[m - 1].av
                      /\ g[m] = "fmt3" => Delta(m)' = Delta(m - 1)'
    BY <1>1 DEF LeftOut
  <2>1. CASE m \in 1 .. k
    <3>1. /\ f[m] \in {"fmt2", "fmt3"} =>
               m > 1 /\ Size(m) = Size(m - 1) /\ messages[m].av = messages[m - 1].av
          /\ f[m] = "fmt3" => Delta(m) = Delta(m - 1)
      BY <1>a, <2>1 DEF Stream, LeftOut
    <3>2. m > 1 => m - 1 \in 1 .. k
      BY <2>1, <1>2
    <3>3. g[m] = f[m]
      BY <2>1, <1>7
    <3>4. f[m] = "fmt3" => f[m] \in {"fmt2", "fmt3"}
      OBVIOUS
    <3> QED
      BY <2>1, <3>1, <3>2, <3>3, <3>4, <1>1
  <2>2. CASE m = k + 1
    <3>1. /\ format \in {"fmt2", "fmt3"} =>
               k > 0 /\ messages[k].size = size /\ messages[k].av = av
          /\ format = "fmt3" => Delta(k) = delta
      BY <1>a DEF ClientSends, MaySend, Sent
    <3>2. m - 1 = k /\ (k > 0 => m > 1 /\ k \in 1 .. k)
      BY <2>2, <1>2
    <3>3. Size(m)' = size /\ Delta(m)' = delta /\ messages'[m].av = av /\ g[m] = format
      BY <2>2, <1>1, <1>7, <1>10
    <3>4. k > 0 => Size(m - 1)' = messages[k].size /\ Delta(m - 1)' = Delta(k)
                   /\ messages'[m - 1].av = messages[k].av
      BY <3>2, <1>1 DEF Size
    <3>5. format = "fmt3" => format \in {"fmt2", "fmt3"}
      OBVIOUS
    <3> QED
      BY <3>1, <3>2, <3>3, <3>4, <3>5
  <2> QED
    BY <2>1, <2>2, <1>11
<1> QED
  BY <1>a, <1>7, <1>8, <1>15, <1>16, <1>17, <1>18, <1>19 DEF Stream

-----------------------------------------------------------------------------
(* The invariant.                                                          *)

Got == Len(pack.got)
Current == parsed + 1
Body(f, o) == o[Current] + HeaderLength[f[Current]]

(* A message has begun and has not ended.                                  *)
Inside == parsed_status_ = "body" \/ (parsed_status_ = "header" /\ pack.got # <<>>)

(* It is in its last chunk, after q whole ones.                            *)
InLast(q) == Size(Current) <= Whole(q) + Chunk

InChunk(f, o, c, q) ==
    /\ Got < Size(Current) /\ Whole(q) <= Got
    /\ parsed_status_ = "header" =>
          Got = Whole(q) /\ c + 1 = Body(f, o) + Got + q /\ q # 0 /\ read_chunk_size_ = 0
    /\ parsed_status_ = "body" =>
          /\ c = Body(f, o) + Got + q
          /\ InLast(q) => read_chunk_size_ = 0
          /\ ~InLast(q) => Got = Whole(q) + read_chunk_size_

Placed(f, o, c) ==
    /\ parsed <= Sent
    /\ parsed_status_ = "first_header" =>
          c = 0 /\ first = <<>> /\ pack.got = <<>> /\ parsed = 0 /\ read_chunk_size_ = 0
    /\ parsed_status_ = "header" /\ pack.got = <<>> => c = o[Current] /\ read_chunk_size_ = 0
    /\ Inside => parsed < Sent /\ \E q \in Nat : InChunk(f, o, c, q)

(* What was complete before the last read is parsed, or in the buffer with *)
(* no end of a chunk before its own end.                                   *)
DueSoon(o, c) ==
    /\ due <= Sent
    /\ DeliveredByNextRead
    /\ pc = "parse" /\ parsed < due =>
          read_chunk_size_ = 0 /\ o[due + 1] <= c + Len(buffer) /\ o[due + 1] < c + Chunk

Waits ==
    /\ Len(buffer) <= Capacity
    /\ ReadHasRoom
    /\ pc = "wait" /\ parsed_status_ = "body" => buffer = <<>>

PackOf(m) ==
    /\ pack.data_size_ = Digits(Size(m), 3) /\ pack.av = messages[m].av
    /\ pack.timestamp_ = Digits(Delta(m), 3)

Packed ==
    /\ Inside => PackOf(Current)
    /\ ~Inside /\ parsed > 0 => PackOf(parsed)
    /\ \A i \in 1 .. Got : pack.got[i] = BodyUnit(Current, i)
    /\ timestamp_ = Time(parsed) % Power(4)
    /\ \A m \in 1 .. Sent : Delta(m) \in Deltas

Tagged ==
    /\ TagsAreMessages /\ TagHeaders
    /\ \A i \in 1 .. Len(tags) : Number(tags[i].data_size) = Len(tags[i].body)

Followed == \E f, o, c : Stream(f, o, c) /\ Placed(f, o, c) /\ DueSoon(o, c)

ChunkInv == TypeOK /\ Waits /\ Packed /\ Tagged /\ Followed

LEMMA TypesUsed ==
  ASSUME TypeOK
  PROVE  /\ Received /\ messages \in Seq(Message) /\ pack \in Pack
         /\ pack.got \in Seq(Unit) /\ Got \in Nat
         /\ parsed \in Nat /\ due \in Nat /\ Current \in Nat \ {0}
         /\ read_chunk_size_ \in Nat /\ read_chunk_size_ < Chunk
         /\ Len(buffer) \in Nat /\ Len(wire) \in Nat /\ Total \in Nat
         /\ parsed_status_ \in {"first_header", "header", "body"} /\ pc \in {"wait", "parse"}
<1>1. Received
  BY DEF TypeOK, Received
<1>2. pack.got \in Seq(Unit)
  BY DEF TypeOK, Pack
<1>3. Got \in Nat
  BY <1>2 DEF Got
<1>4. parsed \in Nat /\ due \in Nat /\ Current \in Nat \ {0}
  BY ConstantsTyped DEF TypeOK, Current
<1>5. read_chunk_size_ \in Nat /\ read_chunk_size_ < Chunk
  BY ConstantsTyped DEF TypeOK
<1> QED
  BY <1>1, <1>2, <1>3, <1>4, <1>5, UpcomingIs DEF TypeOK

(* What is ahead when a header is expected.                                *)
LEMMA HeaderAhead ==
  ASSUME TypeOK, NEW f, NEW o, NEW c, Stream(f, o, c), Placed(f, o, c),
         parsed_status_ = "header", buffer # <<>>
  PROVE  /\ parsed < Sent /\ f[Current] \in Formats
         /\ Head(buffer) = Upcoming(1) /\ Head(buffer).of = Current
         /\ pack.got = <<>> => Head(buffer).kind = f[Current]
         /\ pack.got # <<>> => Head(buffer).kind = "fmt3"
         /\ DecodeHeader = IF Len(buffer) >= HeaderLength[Head(buffer).kind]
                           THEN HeaderLength[Head(buffer).kind] ELSE 0
<1>1. /\ Received /\ messages \in Seq(Message) /\ Got \in Nat /\ parsed \in Nat
      /\ Current \in Nat \ {0} /\ Len(buffer) \in Nat /\ Total \in Nat
      /\ buffer \in Seq(Unit) /\ Len(wire) \in Nat
  BY TypesUsed DEF Received
<1>2. Len(buffer) >= 1 /\ Head(buffer) = buffer[1] /\ Total >= 1
  <2>1. ASSUME NEW s \in Seq(Unit), s # <<>>
        PROVE  Len(s) >= 1 /\ Head(s) = s[1]
    BY <2>1
  <2> QED
    BY <2>1, <1>1 DEF Total
<1>3. Head(buffer) = Upcoming(1)
  BY <1>1, <1>2, UpcomingIs
<1>4. Places(f, o, c) /\ c \in Nat /\ Sent \in 0 .. MaxMessages /\ c + Total = o[Sent + 1]
      /\ f \in [1 .. MaxMessages -> Formats]
  BY DEF Stream, Places
<1>5. parsed < Sent
  <2>1. CASE pack.got = <<>>
    <3>1. c = o[Current] /\ parsed <= Sent
      BY <2>1 DEF Placed
    <3>2. parsed = Sent => c = c + Total
      BY <3>1, <1>4 DEF Current
    <3> QED
      BY <3>1, <3>2, <1>1, <1>2, <1>4
  <2>2. CASE pack.got # <<>>
    BY <2>2 DEF Placed, Inside
  <2> QED
    BY <2>1, <2>2
<1>6. Current \in 1 .. Sent
  BY <1>1, <1>4, <1>5 DEF Current
<1>7. /\ Current \in 0 .. MaxMessages /\ f[Current] \in Formats
      /\ HeaderLength[f[Current]] \in Nat \ {0}
      /\ ChunkedLength(Size(Current)) \in Nat \ {0}
      /\ Size(Current) \in Nat \ {0}
  BY <1>1, <1>4, <1>6, SpanTyped, MessageTyped
<1>8. o[Current] \in Nat
  <2>1. Current \in 1 .. Sent + 1
    BY <1>4, <1>6
  <2> QED
    BY <2>1, <1>1, <1>4, PlacesInStream
<1>9. ASSUME NEW i \in 1 .. HeaderLength[f[Current]] + ChunkedLength(Size(Current)),
             c + 1 = o[Current] + i
      PROVE  Upcoming(1) = UnitsOf(Current, f[Current], Size(Current))[i]
  <2>1. i \in 1 .. Span(f, Current) /\ c < o[Current] + i /\ o[Current] + i - c = 1
    BY <1>4, <1>7, <1>8, <1>9 DEF Span
  <2> QED
    BY <2>1, <1>6 DEF Stream, MessagesUpcoming
<1>12. ASSUME Head(buffer).kind \in Formats
       PROVE  DecodeHeader = IF Len(buffer) >= HeaderLength[Head(buffer).kind]
                             THEN HeaderLength[Head(buffer).kind] ELSE 0
  BY <1>12 DEF DecodeHeader
<1>10. CASE pack.got = <<>>
  <2>1. c + 1 = o[Current] + 1
    BY <1>10 DEF Placed
  <2>2. 1 \in 1 .. HeaderLength[f[Current]]
        /\ 1 \in 1 .. HeaderLength[f[Current]] + ChunkedLength(Size(Current))
    BY <1>7
  <2>3. UnitsOf(Current, f[Current], Size(Current))[1] = HeadUnit(Current, f[Current], 1)
    BY <2>2, <1>7, UnitsOfAt
  <2>4. Upcoming(1) = HeadUnit(Current, f[Current], 1)
    BY <2>1, <2>2, <2>3, <1>9
  <2>5. Upcoming(1).of = Current /\ Upcoming(1).kind = f[Current]
    BY <2>4 DEF HeadUnit
  <2> QED
    BY <2>5, <1>3, <1>5, <1>7, <1>10, <1>12
<1>11. CASE pack.got # <<>>
  <2>1. PICK q \in Nat : InChunk(f, o, c, q)
    BY <1>11 DEF Placed, Inside
  <2>2. Got < Size(Current) /\ Got = Whole(q) /\ c + 1 = Body(f, o) + Got + q /\ q \in Nat \ {0}
    BY <2>1 DEF InChunk
  <2>3. Whole(q) \in Nat /\ Whole(q) < Size(Current)
    BY <2>2, WholeChunks
  <2>4. /\ Whole(q) + q <= ChunkedLength(Size(Current))
        /\ ChunkedBody(Current, Size(Current))[Whole(q) + q] = ChunkHeader(Current)
    BY <2>2, <2>3, <1>7, ChunkedBodyAt
  <2>5. Whole(q) + q \in 1 .. ChunkedLength(Size(Current))
    BY <2>2, <2>3, <2>4, <1>7
  <2>6. UnitsOf(Current, f[Current], Size(Current))[HeaderLength[f[Current]] + (Whole(q) + q)]
           = ChunkHeader(Current)
    <3>1. \A j \in 1 .. ChunkedLength(Size(Current)) :
             UnitsOf(Current, f[Current], Size(Current))[HeaderLength[f[Current]] + j]
                = ChunkedBody(Current, Size(Current))[j]
      <4>1. PICK m, k, size : m = Current /\ k = f[Current] /\ size = Size(Current)
        OBVIOUS
      <4>2. m \in 0 .. MaxMessages /\ k \in Formats /\ size \in Nat \ {0}
        BY <4>1, <1>7
      <4>3. \A j \in 1 .. ChunkedLength(size) :
               UnitsOf(m, k, size)[HeaderLength[k] + j] = ChunkedBody(m, size)[j]
        BY <4>2, UnitsOfAt
      <4> QED
        BY <4>1, <4>3, Zenon
    <3>2. PICK j : j = Whole(q) + q
      OBVIOUS
    <3>3. j \in 1 .. ChunkedLength(Size(Current))
          /\ ChunkedBody(Current, Size(Current))[j] = ChunkHeader(Current)
      BY <3>2, <2>4, <2>5
    <3> QED
      BY <3>1, <3>2, <3>3
  <2>7. c + 1 = o[Current] + (HeaderLength[f[Current]] + (Whole(q) + q))
    BY <2>2, <2>3, <1>4, <1>7, <1>8 DEF Body
  <2>8. HeaderLength[f[Current]] + (Whole(q) + q)
           \in 1 .. HeaderLength[f[Current]] + ChunkedLength(Size(Current))
    BY <2>3, <2>5, <1>7
  <2>9. Upcoming(1) = ChunkHeader(Current)
    BY <2>6, <2>7, <2>8, <1>9
  <2>10. Upcoming(1).of = Current /\ Upcoming(1).kind = "fmt3"
    BY <2>9 DEF ChunkHeader
  <2>11. "fmt3" \in Formats
    BY DEF Formats
  <2> QED
    BY <2>10, <2>11, <1>3, <1>5, <1>7, <1>11, <1>12
<1> QED
  BY <1>10, <1>11

(* A unit of the body that is ahead.                                       *)
LEMMA UnitAhead ==
  ASSUME TypeOK, NEW f, NEW o, NEW c, Stream(f, o, c), parsed < Sent,
         NEW j \in 1 .. ChunkedLength(Size(Current)), NEW i \in Nat \ {0},
         c + i = Body(f, o) + j
  PROVE  Upcoming(i) = ChunkedBody(Current, Size(Current))[j]
<1>1. /\ Received /\ messages \in Seq(Message) /\ parsed \in Nat
      /\ Current \in Nat \ {0} /\ Total \in Nat
  BY TypesUsed
<1>2. Places(f, o, c) /\ c \in Nat /\ Sent \in 0 .. MaxMessages
      /\ f \in [1 .. MaxMessages -> Formats]
  BY DEF Stream, Places
<1>3. Current \in 1 .. Sent
  BY <1>1, <1>2 DEF Current
<1>4. /\ Current \in 0 .. MaxMessages /\ f[Current] \in Formats
      /\ HeaderLength[f[Current]] \in Nat \ {0}
      /\ ChunkedLength(Size(Current)) \in Nat \ {0}
      /\ Size(Current) \in Nat \ {0}
  BY <1>1, <1>2, <1>3, SpanTyped, MessageTyped
<1>5. o[Current] \in Nat
  <2>1. Current \in 1 .. Sent + 1
    BY <1>2, <1>3
  <2> QED
    BY <2>1, <1>1, <1>2, PlacesInStream
<1>6. PICK n : n = HeaderLength[f[Current]] + j
  OBVIOUS
<1>7. n \in 1 .. Span(f, Current) /\ c < o[Current] + n /\ o[Current] + n - c = i
  <2>1. n \in 1 .. Span(f, Current)
    BY <1>4, <1>6 DEF Span
  <2>2. o[Current] + n = c + i
    BY <1>4, <1>5, <1>6 DEF Body
  <2> QED
    BY <2>1, <2>2, <1>2, <1>5
<1>8. Upcoming(i) = UnitsOf(Current, f[Current], Size(Current))[n]
  BY <1>3, <1>7 DEF Stream, MessagesUpcoming
<1>9. UnitsOf(Current, f[Current], Size(Current))[n] = ChunkedBody(Current, Size(Current))[j]
  <2>1. PICK m, k, size : m = Current /\ k = f[Current] /\ size = Size(Current)
    OBVIOUS
  <2>2. m \in 0 .. MaxMessages /\ k \in Formats /\ size \in Nat \ {0}
    BY <2>1, <1>4
  <2>3. \A l \in 1 .. ChunkedLength(size) :
           UnitsOf(m, k, size)[HeaderLength[k] + l] = ChunkedBody(m, size)[l]
    BY <2>2, UnitsOfAt
  <2> QED
    BY <2>1, <2>3, <1>6, Zenon
<1> QED
  BY <1>8, <1>9

(* What is ahead in a chunk.                                               *)
LEMMA BodyAhead ==
  ASSUME TypeOK, NEW f, NEW o, NEW c, Stream(f, o, c), parsed < Sent,
         parsed_status_ = "body", NEW q \in Nat, InChunk(f, o, c, q)
  PROVE  \A i \in Nat \ {0} : Got + i <= Size(Current) /\ Got + i <= Whole(q) + Chunk =>
            Upcoming(i) = BodyUnit(Current, Got + i)
<1> SUFFICES ASSUME NEW i \in Nat \ {0}, Got + i <= Size(Current), Got + i <= Whole(q) + Chunk
             PROVE  Upcoming(i) = BodyUnit(Current, Got + i)
  OBVIOUS
<1>1. /\ messages \in Seq(Message) /\ parsed \in Nat /\ Got \in Nat /\ Current \in Nat \ {0}
  BY TypesUsed
<1>2. Places(f, o, c) /\ c \in Nat /\ Sent \in 0 .. MaxMessages
      /\ f \in [1 .. MaxMessages -> Formats]
  BY DEF Stream, Places
<1>3. Current \in 1 .. Sent
  BY <1>1, <1>2 DEF Current
<1>4. Size(Current) \in Nat \ {0} /\ HeaderLength[f[Current]] \in Nat \ {0}
  BY <1>1, <1>2, <1>3, SpanTyped, MessageTyped
<1>5. Whole(q) \in Nat /\ Whole(q) <= Got /\ c = Body(f, o) + Got + q
  BY WholeChunks DEF InChunk
<1>6. PICK s : s = Got + i - Whole(q)
  OBVIOUS
<1>7. s \in 1 .. Chunk /\ Whole(q) + s = Got + i /\ Chunk \in Nat
  BY <1>1, <1>5, <1>6, ConstantsTyped
<1>8. /\ Whole(q) + s + q <= ChunkedLength(Size(Current))
      /\ ChunkedBody(Current, Size(Current))[Whole(q) + s + q] = BodyUnit(Current, Whole(q) + s)
  BY <1>4, <1>7, ChunkedBodyAt
<1>9. PICK j : j = Whole(q) + s + q
  OBVIOUS
<1>10. ChunkedLength(Size(Current)) \in Nat
  BY <1>4, ChunkedBodyAt
<1>11. j \in 1 .. ChunkedLength(Size(Current))
  BY <1>5, <1>7, <1>8, <1>9, <1>10
<1>12. Body(f, o) \in Nat
  <2>1. Current \in 1 .. Sent + 1
    BY <1>2, <1>3
  <2>2. o[Current] \in Nat
    BY <2>1, <1>1, <1>2, PlacesInStream, TypesUsed
  <2> QED
    BY <2>2, <1>4 DEF Body
<1>13. c + i = Body(f, o) + j
  <2>1. j = Got + i + q
    BY <1>7, <1>9
  <2>2. ASSUME NEW b \in Nat, NEW g \in Nat, c = b + g + q, j = g + i + q
        PROVE  c + i = b + j
    BY <2>2
  <2> QED
    BY <2>1, <2>2, <1>1, <1>5, <1>12
<1>14. Upcoming(i) = ChunkedBody(Current, Size(Current))[j]
  BY <1>11, <1>13, UnitAhead
<1>15. ChunkedBody(Current, Size(Current))[j] = BodyUnit(Current, Got + i)
  BY <1>7, <1>8, <1>9, Zenon
<1> QED
  BY <1>14, <1>15, Zenon

(* Where the chunk and the message end.                                    *)
LEMMA EndsAhead ==
  ASSUME TypeOK, Packed, NEW f, NEW o, NEW c, Stream(f, o, c), parsed < Sent,
         parsed_status_ = "body", NEW q \in Nat, InChunk(f, o, c, q)
  PROVE  /\ Remain = Size(Current) - Got /\ Remain \in Nat \ {0}
         /\ c \in Nat /\ o[Current + 1] \in Nat
         /\ chunk_over_ <=> InLast(q)
         /\ InLast(q) => c + Remain = o[Current + 1]
         /\ ~InLast(q) => c + Chunk - read_chunk_size_ < o[Current + 1]
         /\ c < o[Current + 1]
<1>1. /\ messages \in Seq(Message) /\ parsed \in Nat /\ Got \in Nat /\ Current \in Nat \ {0}
      /\ read_chunk_size_ \in Nat /\ read_chunk_size_ < Chunk /\ Received
  BY TypesUsed
<1>2. Places(f, o, c) /\ c \in Nat /\ Sent \in 0 .. MaxMessages
      /\ f \in [1 .. MaxMessages -> Formats] /\ \A m \in 1 .. Sent : o[m + 1] = o[m] + Span(f, m)
  BY DEF Stream, Places
<1>3. Current \in 1 .. Sent
  BY <1>1, <1>2 DEF Current
<1>4. Size(Current) \in Nat \ {0} /\ HeaderLength[f[Current]] \in Nat \ {0}
      /\ Size(Current) \in 0 .. Power(3) - 1
  BY <1>1, <1>2, <1>3, SpanTyped, MessageTyped
<1>5. Whole(q) \in Nat /\ Whole(q + 1) = Whole(q) + Chunk /\ Whole(q) <= Got
      /\ c = Body(f, o) + Got + q /\ Got < Size(Current)
  BY WholeChunks DEF InChunk
<1>6. Chunk \in Nat \ {0}
  BY ConstantsTyped
<1>7. Number(pack.data_size_) = Size(Current)
  BY <1>4, NumberOfDigits DEF Packed, PackOf, Inside
<1>8. Remain = Size(Current) - Got /\ Remain \in Nat \ {0}
  BY <1>1, <1>4, <1>5, <1>7 DEF Remain, Got
<1>9. InLast(q) => read_chunk_size_ = 0
  BY DEF InChunk
<1>10. ~InLast(q) => Got = Whole(q) + read_chunk_size_
  BY DEF InChunk
<1>11. chunk_over_ <=> InLast(q)
  <2>1. InLast(q) => chunk_over_
    BY <1>1, <1>4, <1>5, <1>6, <1>8, <1>9 DEF chunk_over_, InLast
  <2>2. ASSUME ~InLast(q), chunk_over_ PROVE FALSE
    <3>1. read_chunk_size_ = 0 /\ Remain <= Chunk
      BY <2>2 DEF chunk_over_
    <3>2. Got = Whole(q) + 0
      BY <3>1, <2>2, <1>10
    <3> QED
      BY <3>1, <3>2, <2>2, <1>1, <1>4, <1>5, <1>6, <1>8 DEF InLast
  <2> QED
    BY <2>1, <2>2
<1>12. o[Current] \in Nat /\ Body(f, o) \in Nat
  <2>1. Current \in 1 .. Sent + 1
    BY <1>2, <1>3
  <2>2. o[Current] \in Nat
    BY <2>1, <1>1, <1>2, PlacesInStream
  <2> QED
    BY <2>2, <1>4 DEF Body
<1>13. ChunkedLength(Size(Current)) \in Nat
       /\ o[Current + 1] = Body(f, o) + ChunkedLength(Size(Current))
  <2>1. ChunkedLength(Size(Current)) \in Nat
    BY <1>4, ChunkedBodyAt
  <2> QED
    BY <2>1, <1>2, <1>3, <1>4, <1>12 DEF Body, Span
<1>14. ASSUME InLast(q) PROVE c + Remain = o[Current + 1]
  <2>1. Whole(q) < Size(Current) /\ Size(Current) <= Whole(q) + Chunk
    BY <1>14, <1>1, <1>4, <1>5 DEF InLast
  <2>2. ChunkedLength(Size(Current)) = Size(Current) + q
    BY <2>1, <1>4, ChunkedBodyAt
  <2> QED
    BY <2>2, <1>1, <1>4, <1>5, <1>8, <1>12, <1>13
<1>15. ASSUME ~InLast(q) PROVE c + Chunk - read_chunk_size_ < o[Current + 1]
  <2>1. PICK n : n = q + 1
    OBVIOUS
  <2>2. n \in Nat \ {0} /\ Whole(n) = Whole(q) + Chunk
    BY <2>1, <1>5
  <2>3. Whole(n) < Size(Current)
    BY <2>2, <1>15, <1>4, <1>5, <1>6 DEF InLast
  <2>4. Whole(n) + n <= ChunkedLength(Size(Current))
    BY <2>2, <2>3, <1>4, ChunkedBodyAt
  <2>5. c + Chunk - read_chunk_size_ = Body(f, o) + Whole(n) + q
    <3>1. Got = Whole(q) + read_chunk_size_
      BY <1>10, <1>15
    <3>2. ASSUME NEW b \in Nat, NEW g \in Nat, NEW w \in Nat, NEW r \in Nat, NEW d \in Nat,
                 d = b + g + q, g = w + r
          PROVE  d + Chunk - r = b + (w + Chunk) + q
      BY <3>2, <1>6
    <3>3. Body(f, o) \in Nat /\ Got \in Nat /\ Whole(q) \in Nat /\ read_chunk_size_ \in Nat
          /\ c \in Nat /\ c = Body(f, o) + Got + q
      BY <1>1, <1>2, <1>5, <1>12
    <3>4. c + Chunk - read_chunk_size_ = Body(f, o) + (Whole(q) + Chunk) + q
      BY <3>1, <3>2, <3>3
    <3> QED
      BY <3>4, <2>2, Zenon
  <2> QED
    BY <2>1, <2>2, <2>4, <2>5, <1>5, <1>6, <1>12, <1>13
<1>16. o[Current + 1] \in Nat
  BY <1>12, <1>13
<1>17. c < o[Current + 1]
  <2>1. ASSUME NEW e \in Nat, NEW d \in Nat, NEW r \in Nat, r < Chunk, d + Chunk - r < e
        PROVE  d < e
    BY <2>1, <1>6
  <2>2. CASE InLast(q)
    BY <2>2, <1>2, <1>8, <1>14, <1>16
  <2>3. CASE ~InLast(q)
    BY <2>1, <2>3, <1>1, <1>2, <1>15, <1>16
  <2> QED
    BY <2>2, <2>3
<1> QED
  BY <1>2, <1>8, <1>11, <1>14, <1>15, <1>16, <1>17

-----------------------------------------------------------------------------
(* What the steps keep.                                                    *)

LEMMA TaggedKept ==
  ASSUME Tagged, parsed \in Nat, UNCHANGED <<tags, parsed>>,
         \A m \in 1 .. parsed : messages'[m] = messages[m]
  PROVE  Tagged'
<1>1. \A m \in 0 .. parsed : AudioVideo(m)' = AudioVideo(m)
  BY DEF AudioVideo
<1>2. \A m \in 0 .. parsed : TagNo(m)' = TagNo(m)
  BY <1>1 DEF TagNo
<1>3. parsed \in 0 .. parsed
  OBVIOUS
<1>4. \A m \in AudioVideo(parsed) : m \in 0 .. parsed /\ m \in 1 .. parsed
  BY DEF AudioVideo
<1>5. AudioVideo(parsed)' = AudioVideo(parsed) /\ TagNo(parsed)' = TagNo(parsed)
  BY <1>1, <1>2, <1>3
<1>6. TagsAreMessages'
  BY <1>2, <1>4, <1>5 DEF Tagged, TagsAreMessages
<1>7. TagHeaders'
  BY <1>2, <1>4, <1>5 DEF Tagged, TagHeaders
<1> QED
  BY <1>6, <1>7 DEF Tagged

LEMMA ClientSendsKeeps ==
  ASSUME ChunkInv, NEW size \in Sizes, NEW av \in BOOLEAN, NEW delta \in Deltas,
         NEW format \in Formats, ClientSends(size, av, delta, format)
  PROVE  ChunkInv'
<1>1. TypeOK /\ Waits /\ Packed /\ Tagged
  BY DEF ChunkInv
<1>2. PICK f, o, c : Stream(f, o, c) /\ Placed(f, o, c) /\ DueSoon(o, c)
  BY DEF ChunkInv, Followed
<1>3. /\ Received /\ messages \in Seq(Message) /\ Got \in Nat /\ parsed \in Nat /\ due \in Nat
      /\ Current \in Nat \ {0}
  BY <1>1, TypesUsed
<1>4. Sent \in 0 .. MaxMessages
  BY <1>2 DEF Stream, Places
<1>5. UNCHANGED <<parsed_status_, pack, timestamp_, read_chunk_size_, first, tags, parsed, buffer, pc, due>>
  BY DEF ClientSends, parser_vars
<1>6. /\ messages' \in Seq(Message) /\ Sent' = Sent + 1
      /\ \A m \in 1 .. Sent : messages'[m] = messages[m]
      /\ \A m \in 0 .. Sent : Time(m)' = Time(m)
      /\ \A m \in 1 .. Sent : Delta(m)' = Delta(m) /\ Size(m)' = Size(m)
      /\ \A m : m = Sent + 1 => Delta(m)' = delta
      /\ UnitsOf(Sent + 1, format, size) \in Seq(Unit)
      /\ Sends(UnitsOf(Sent + 1, format, size))
  BY <1>3, <1>4, SentIs
<1>7. PICK g, p : /\ Stream(g, p, c)'
                  /\ \A m \in 1 .. Sent + 1 : p[m] = o[m]
                  /\ \A m \in 1 .. Sent : g[m] = f[m]
  BY <1>2, <1>3, StreamSend
<1>8. wire' \in Seq(Unit)
  <2>1. Received'
    BY <1>3, <1>6, SendExtendsUpcoming
  <2> QED
    BY <2>1 DEF Received
<1>9. TypeOK'
  BY <1>1, <1>5, <1>6, <1>8 DEF TypeOK
<1>10. Waits'
  BY <1>1, <1>5 DEF Waits, ReadHasRoom
<1>11. parsed <= Sent /\ (Inside => Current \in 1 .. Sent)
  BY <1>2, <1>3, <1>4 DEF Placed, Current
<1>12. Packed'
  <2>1. \A m \in 1 .. Sent : PackOf(m) => PackOf(m)'
    BY <1>5, <1>6 DEF PackOf
  <2>2. parsed > 0 => parsed \in 1 .. Sent
    BY <1>3, <1>4, <1>11
  <2>3. Inside' = Inside /\ Current' = Current /\ Got' = Got
    BY <1>5 DEF Inside, Current, Got
  <2>4. \A m : Inside /\ m = Current => PackOf(m)'
    BY <1>1, <1>11, <2>1 DEF Packed
  <2>5. \A m : ~Inside /\ parsed > 0 /\ m = parsed => PackOf(m)'
    BY <1>1, <2>1, <2>2 DEF Packed
  <2>6. timestamp_' = Time(parsed)' % Power(4)
    <3>1. Time(parsed)' = Time(parsed)
      <4>1. parsed \in 0 .. Sent
        BY <1>3, <1>4, <1>11
      <4> QED
        BY <4>1, <1>5, <1>6 DEF Time
    <3> QED
      BY <3>1, <1>1, <1>5 DEF Packed
  <2>7. \A m \in 1 .. Sent' : Delta(m)' \in Deltas
    <3>1. \A m \in 1 .. Sent' : m \in 1 .. Sent \/ m = Sent + 1
      BY <1>4, <1>6
    <3> QED
      BY <3>1, <1>1, <1>6 DEF Packed
  <2>8. (Inside' => PackOf(Current)') /\ (~Inside' /\ parsed' > 0 => PackOf(parsed)')
    BY <2>3, <2>4, <2>5, <1>5
  <2>9. \A i \in 1 .. Got : pack'.got[i] = BodyUnit(Current, i)
    BY <1>1, <1>5 DEF Packed
  <2> QED
    BY <2>3, <2>6, <2>7, <2>8, <2>9, <1>5 DEF Packed
<1>13. Tagged'
  <2>1. \A m \in 1 .. parsed : messages'[m] = messages[m]
    BY <1>3, <1>4, <1>6, <1>11
  <2> QED
    BY <2>1, <1>1, <1>3, <1>5, TaggedKept
<1>14. Placed(g, p, c)'
  <2>1. Current \in 1 .. Sent + 1 /\ p[Current] = o[Current]
    BY <1>3, <1>4, <1>7, <1>11 DEF Current
  <2>2. Inside' = Inside /\ Current' = Current /\ Got' = Got
    BY <1>5 DEF Inside, Current, Got
  <2>3. ASSUME Inside, NEW q \in Nat, InChunk(f, o, c, q) PROVE InChunk(g, p, c, q)'
    <3>1. Size(Current)' = Size(Current) /\ g[Current] = f[Current]
      <4>1. Current \in 1 .. Sent
        BY <2>3, <1>11
      <4>2. Size(Current)' = messages'[Current].size /\ Size(Current) = messages[Current].size
        BY <2>2 DEF Size
      <4> QED
        BY <4>1, <4>2, <1>6, <1>7
    <3>2. Body(g, p)' = Body(f, o)
      BY <3>1, <2>1, <2>2 DEF Body
    <3>3. InLast(q)' <=> InLast(q)
      BY <3>1 DEF InLast
    <3> QED
      BY <3>1, <3>2, <3>3, <2>2, <2>3, <1>5 DEF InChunk
  <2>4. ASSUME Inside PROVE parsed < Sent' /\ \E q \in Nat : InChunk(g, p, c, q)'
    BY <2>3, <2>4, <1>2, <1>3, <1>4, <1>6 DEF Placed
  <2>5. parsed <= Sent'
    BY <1>3, <1>4, <1>6, <1>11
  <2> QED
    BY <2>1, <2>2, <2>4, <2>5, <1>2, <1>5 DEF Placed
<1>15. DueSoon(p, c)'
  <2>1. due <= Sent /\ due + 1 \in 1 .. Sent + 1
    BY <1>2, <1>3, <1>4 DEF DueSoon
  <2>2. p[due + 1] = o[due + 1] /\ due <= Sent'
    BY <2>1, <1>3, <1>4, <1>6, <1>7
  <2> QED
    BY <2>2, <1>2, <1>5 DEF DueSoon, DeliveredByNextRead
<1> QED
  BY <1>7, <1>9, <1>10, <1>12, <1>13, <1>14, <1>15 DEF ChunkInv, Followed

(* A step of the io thread that consumes nothing.                          *)
LEMMA PositionKept ==
  ASSUME NEW f, NEW o, NEW c, Placed(f, o, c), Packed, TypeOK, Tagged,
         UNCHANGED <<parsed_status_, pack, timestamp_, read_chunk_size_, first, tags, parsed, messages>>
  PROVE  Placed(f, o, c)' /\ Packed' /\ Tagged'
<1>1. /\ Got' = Got /\ Current' = Current /\ Inside' = Inside /\ Sent' = Sent
      /\ \A m : Size(m)' = Size(m)
  BY DEF Got, Current, Inside, Sent, Size
<1>2. \A q : InLast(q)' <=> InLast(q)
  BY DEF InLast, Size, Current
<1>3. Body(f, o)' = Body(f, o)
  BY DEF Body, Current
<1>4. \A q : InChunk(f, o, c, q)' <=> InChunk(f, o, c, q)
  <2>1. Size(Current)' = Size(Current)
    BY DEF Size, Current
  <2> QED
    BY <2>1, <1>1, <1>2, <1>3 DEF InChunk
<1>5. Placed(f, o, c)'
  BY <1>1, <1>4 DEF Placed
<1>6. Packed'
  <2>1. (\A m : Time(m)' = Time(m)) /\ \A m : Delta(m)' = Delta(m)
    BY DEF Time, Delta
  <2>2. \A m : PackOf(m)' <=> PackOf(m)
    BY <1>1, <2>1 DEF PackOf
  <2>3. Time(parsed)' = Time(parsed)
    BY DEF Time
  <2>4. (PackOf(Current)' <=> PackOf(Current)) /\ (PackOf(parsed)' <=> PackOf(parsed))
    BY <1>1, <2>2
  <2> QED
    BY <1>1, <2>1, <2>3, <2>4 DEF Packed
<1>7. Tagged'
  <2>1. parsed \in Nat
    BY TypesUsed
  <2> QED
    BY <2>1, TaggedKept
<1> QED
  BY <1>5, <1>6, <1>7

(* A message begins no later than those after it.                          *)
LEMMA PlacesOrdered ==
  ASSUME NEW f, NEW o, NEW c, Places(f, o, c), NEW m \in 1 .. Sent + 1, NEW n \in 1 .. Sent + 1,
         m <= n
  PROVE  o[m] \in Nat /\ o[n] \in Nat /\ o[m] <= o[n]
<1>1. /\ o \in [1 .. MaxMessages + 1 -> Nat] /\ Sent \in 0 .. MaxMessages
      /\ \A i, j \in 1 .. Sent + 1 : i < j => o[i] < o[j]
  BY DEF Places
<1>2. m \in 1 .. MaxMessages + 1 /\ n \in 1 .. MaxMessages + 1
  BY <1>1, ConstantsTyped
<1>3. o[m] \in Nat /\ o[n] \in Nat
  BY <1>1, <1>2
<1>4. m = n \/ m < n
  BY <1>1
<1> QED
  BY <1>1, <1>3, <1>4

LEMMA ReadKeeps ==
  ASSUME ChunkInv, NEW n \in 1 .. Len(wire), Read(n)
  PROVE  ChunkInv'
<1>1. TypeOK /\ Waits /\ Packed /\ Tagged
  BY DEF ChunkInv
<1>2. PICK f, o, c : Stream(f, o, c) /\ Placed(f, o, c) /\ DueSoon(o, c)
  BY DEF ChunkInv, Followed
<1>3. /\ Received /\ messages \in Seq(Message) /\ Got \in Nat /\ parsed \in Nat /\ due \in Nat
      /\ Current \in Nat \ {0} /\ Len(buffer) \in Nat /\ Len(wire) \in Nat /\ Total \in Nat
      /\ parsed_status_ \in {"first_header", "header", "body"}
  BY <1>1, TypesUsed
<1>4. Places(f, o, c) /\ Sent \in 0 .. MaxMessages /\ Sent \in Nat /\ c \in Nat /\ NoneEarlier(o, c)
  BY <1>2, ConstantsTyped DEF Stream, Places
<1>5. /\ pc = "wait" /\ pc' = "parse" /\ n <= Capacity - Len(buffer)
      /\ UNCHANGED <<parsed_status_, pack, timestamp_, read_chunk_size_, first, tags, parsed, messages>>
  BY DEF Read
<1>6. Stream(f, o, c)'
  BY <1>2, <1>3, StreamRead
<1>7. Received' /\ Len(buffer') = Len(buffer) + n
  BY <1>3, ReadKeepsUpcoming
<1>8. Placed(f, o, c)' /\ Packed' /\ Tagged'
  BY <1>1, <1>2, <1>5, PositionKept
<1>9. due' \in 0 .. Sent /\ (due' # 0 => o[due' + 1] <= c + Len(buffer))
  <2>1. wire # <<>> /\ Head(wire) = wire[1] /\ 1 \in 1 .. Len(wire)
    <3>1. ASSUME NEW s \in Seq(Unit), NEW i \in 1 .. Len(s)
          PROVE  s # <<>> /\ Head(s) = s[1] /\ 1 \in 1 .. Len(s)
      OBVIOUS
    <3> QED
      BY <3>1, <1>3 DEF Received
  <2>2. PICK j : j = Len(buffer) + 1
    OBVIOUS
  <2>3. j \in 1 .. Total /\ Upcoming(j) = Head(wire)
    BY <2>1, <2>2, <1>3, UpcomingIs DEF Total
  <2>4. due' = IF Head(wire).of = 0 THEN 0 ELSE Head(wire).of - 1
    BY <2>1 DEF Complete, Read
  <2>5. CASE Head(wire).of = 0
    BY <2>4, <2>5, <1>4, ConstantsTyped
  <2>6. CASE Head(wire).of # 0
    <3>1. Head(wire).of \in 1 .. Sent /\ o[Head(wire).of] < c + j
      BY <2>3, <2>6, <1>4 DEF NoneEarlier
    <3>2. due' + 1 = Head(wire).of /\ due' \in 0 .. Sent
      BY <3>1, <2>4, <2>6, <1>4
    <3>3. Head(wire).of \in 1 .. Sent + 1
      BY <3>1, <1>4
    <3>4. o[Head(wire).of] \in Nat
      BY <3>3, <1>4, PlacesOrdered
    <3> QED
      BY <3>1, <3>2, <3>4, <2>2, <1>3, <1>4
  <2> QED
    BY <2>5, <2>6
<1>10. TypeOK'
  <2>1. due' \in 0 .. MaxMessages
    BY <1>4, <1>9, ConstantsTyped
  <2>2. buffer' \in Seq(Unit) /\ wire' \in Seq(Unit)
    BY <1>7 DEF Received
  <2> QED
    BY <2>1, <2>2, <1>1, <1>5 DEF TypeOK
<1>11. Waits'
  BY <1>3, <1>5, <1>7, ConstantsTyped DEF Waits, ReadHasRoom
<1>12. DueSoon(o, c)'
  <2> SUFFICES ASSUME parsed < due'
               PROVE  /\ read_chunk_size_ = 0 /\ o[due' + 1] <= c + Len(buffer')
                      /\ o[due' + 1] < c + Chunk
    <3>1. due' <= Sent' /\ pc' # "wait"
      BY <1>4, <1>5, <1>9 DEF Sent
    <3> QED
      BY <3>1, <1>5 DEF DueSoon, DeliveredByNextRead
  <2>0. PICK d : d = due'
    OBVIOUS
  <2>1. due' # 0 /\ due' + 1 \in 1 .. Sent + 1 /\ due' \in Nat
    <3>1. parsed < d /\ d \in 0 .. Sent
      BY <2>0, <1>9
    <3>2. d # 0 /\ d + 1 \in 1 .. Sent + 1 /\ d \in Nat
      BY <3>1, <1>3, <1>4
    <3> QED
      BY <2>0, <3>2
  <2>2. o[due' + 1] \in Nat /\ o[due' + 1] <= c + Len(buffer)
    BY <2>1, <1>4, <1>9, PlacesOrdered
  <2>3. Len(buffer) < Capacity /\ Capacity <= Chunk /\ Chunk \in Nat /\ Capacity \in Nat
    BY <1>1, <1>5, ConstantsTyped DEF Waits, ReadHasRoom
  <2>4. read_chunk_size_ = 0
    <3>1. CASE parsed_status_ = "first_header"
      BY <3>1, <1>2 DEF Placed
    <3>2. CASE parsed_status_ = "header"
      BY <3>2, <1>2 DEF Placed, Inside, InChunk
    <3>3. CASE parsed_status_ = "body"
      <4>1. buffer = <<>> /\ Len(buffer) = 0
        BY <3>3, <1>1, <1>5 DEF Waits
      <4>2. parsed < Sent
        BY <3>3, <1>2 DEF Placed, Inside
      <4>3. PICK q \in Nat : InChunk(f, o, c, q)
        BY <3>3, <1>2 DEF Placed, Inside
      <4>4. o[Current + 1] \in Nat /\ c < o[Current + 1]
        BY <3>3, <4>2, <4>3, <1>1, <1>2, EndsAhead
      <4>5. Current + 1 \in 1 .. Sent + 1 /\ Current + 1 <= due' + 1
        <5>1. parsed < d /\ d \in Nat
          BY <2>0, <2>1
        <5>2. Current + 1 \in 1 .. Sent + 1 /\ Current + 1 <= d + 1
          BY <5>1, <4>2, <1>3, <1>4 DEF Current
        <5> QED
          BY <2>0, <5>2
      <4>6. o[Current + 1] <= o[due' + 1]
        BY <4>5, <2>1, <1>4, PlacesOrdered
      <4> QED
        BY <4>1, <4>4, <4>6, <2>2, <1>4
    <3> QED
      BY <3>1, <3>2, <3>3, <1>3
  <2> QED
    BY <2>2, <2>3, <2>4, <1>3, <1>4, <1>7
<1> QED
  BY <1>6, <1>8, <1>10, <1>11, <1>12 DEF ChunkInv, Followed

(* A message in the buffer as a whole stays so, or is parsed.              *)
LEMMA DueKept ==
  ASSUME TypeOK, NEW f, NEW o, NEW c, Places(f, o, c), DueSoon(o, c), pc = "parse",
         NEW n \in 0 .. Len(buffer), Drop(n),
         UNCHANGED <<wire, pc, due, messages, read_chunk_size_>>, NEW k \in Nat, k = parsed', parsed <= k
  PROVE  DueSoon(o, c + n)'
<1>1. Received /\ due \in Nat /\ parsed \in Nat /\ Len(buffer) \in Nat
  BY TypesUsed
<1>2. c \in Nat /\ Sent \in Nat /\ due <= Sent /\ Chunk \in Nat
  BY ConstantsTyped DEF Places, DueSoon
<1>3. Len(buffer') = Len(buffer) - n
  BY <1>1, DropMovesUpcoming
<1>4. parsed < due => read_chunk_size_ = 0 /\ o[due + 1] <= c + Len(buffer) /\ o[due + 1] < c + Chunk
  BY DEF DueSoon
<1>5. o[due + 1] \in Nat
  <2>1. due + 1 \in 1 .. Sent + 1
    BY <1>1, <1>2
  <2> QED
    BY <2>1, PlacesOrdered
<1>6. ASSUME k < due
      PROVE  /\ read_chunk_size_ = 0 /\ o[due + 1] <= c + n + Len(buffer')
             /\ o[due + 1] < c + n + Chunk
  <2>1. parsed < due
    BY <1>1, <1>6
  <2>2. read_chunk_size_ = 0 /\ o[due + 1] <= c + Len(buffer) /\ o[due + 1] < c + Chunk
    BY <2>1, <1>4
  <2>3. c + n + (Len(buffer) - n) = c + Len(buffer) /\ c + Chunk <= c + n + Chunk
    BY <1>1, <1>2
  <2> QED
    BY <2>2, <2>3, <1>1, <1>2, <1>3, <1>5
<1>7. Sent' = Sent
  BY DEF Sent
<1> QED
  BY <1>2, <1>6, <1>7 DEF DueSoon, DeliveredByNextRead

LEMMA SameElements ==
  ASSUME NEW S, NEW s \in Seq(S), NEW n \in Nat, Len(s) = n, NEW t, t = [i \in 1 .. n |-> t[i]],
         \A i \in 1 .. n : s[i] = t[i]
  PROVE  s = t
<1>1. s = [i \in 1 .. n |-> s[i]]
  OBVIOUS
<1> QED
  BY <1>1, Zenon

LEMMA FirstHeaderShortKeeps ==
  ASSUME ChunkInv, FirstHeaderShort
  PROVE  ChunkInv'
<1>1. TypeOK /\ Waits /\ Packed /\ Tagged
  BY DEF ChunkInv
<1>2. PICK f, o, c : Stream(f, o, c) /\ Placed(f, o, c) /\ DueSoon(o, c)
  BY DEF ChunkInv, Followed
<1>3. /\ pc = "parse" /\ pc' = "wait" /\ parsed_status_ = "first_header"
      /\ Len(buffer) < StartLength
      /\ UNCHANGED <<parsed_status_, pack, timestamp_, read_chunk_size_, first, tags, parsed>>
      /\ UNCHANGED <<buffer, wire, messages>> /\ UNCHANGED due
  BY DEF FirstHeaderShort, parser_vars, client_vars
<1>4. Stream(f, o, c)'
  BY <1>2, <1>3, StreamKept
<1>5. Placed(f, o, c)' /\ Packed' /\ Tagged'
  BY <1>1, <1>2, <1>3, PositionKept
<1>6. TypeOK'
  BY <1>1, <1>3 DEF TypeOK
<1>7. Waits'
  <2>1. Len(buffer) \in Nat
    BY <1>1, TypesUsed
  <2>2. Len(buffer) < Capacity
    BY <2>1, <1>3, ConstantsTyped
  <2> QED
    BY <2>2, <1>1, <1>3 DEF Waits, ReadHasRoom
<1>8. DueSoon(o, c)'
  BY <1>2, <1>3 DEF DueSoon, DeliveredByNextRead, Sent
<1> QED
  BY <1>4, <1>5, <1>6, <1>7, <1>8 DEF ChunkInv, Followed

LEMMA ParseFirstHeaderKeeps ==
  ASSUME ChunkInv, ParseFirstHeader
  PROVE  ChunkInv'
<1>1. TypeOK /\ Waits /\ Packed /\ Tagged
  BY DEF ChunkInv
<1>2. PICK f, o, c : Stream(f, o, c) /\ Placed(f, o, c) /\ DueSoon(o, c)
  BY DEF ChunkInv, Followed
<1>3. /\ Received /\ messages \in Seq(Message) /\ Len(buffer) \in Nat /\ parsed \in Nat /\ Total \in Nat
  BY <1>1, TypesUsed
<1>4. /\ pc = "parse" /\ pc' = pc /\ parsed_status_ = "first_header" /\ parsed_status_' = "header"
      /\ Len(buffer) >= StartLength /\ first' = Front(FirstLength) /\ Drop(FirstLength)
      /\ UNCHANGED <<pack, read_chunk_size_, timestamp_, tags, parsed, due>>
      /\ UNCHANGED wire /\ UNCHANGED messages
  BY DEF ParseFirstHeader, client_vars
<1>5. c = 0 /\ pack.got = <<>> /\ parsed = 0 /\ read_chunk_size_ = 0
  BY <1>2, <1>4 DEF Placed
<1>6. FirstLength \in 0 .. Len(buffer) /\ FirstLength \in Nat \ {0}
  BY <1>3, <1>4, ConstantsTyped
<1>7. Stream(f, o, c + FirstLength)'
  BY <1>2, <1>3, <1>4, <1>6, StreamDrop
<1>8. /\ Received' /\ Len(buffer') = Len(buffer) - FirstLength
      /\ Front(FirstLength) \in Seq(Unit) /\ Len(Front(FirstLength)) = FirstLength
      /\ \A i \in 1 .. FirstLength : Front(FirstLength)[i] = Upcoming(i)
  BY <1>3, <1>4, <1>6, DropMovesUpcoming
<1>9. first' = FirstUnits
  <2>1. \A i \in 1 .. FirstLength : Upcoming(i) = FirstUnits[i]
    <3>1. ASSUME NEW i \in 1 .. FirstLength PROVE Upcoming(i) = FirstUnits[i]
      <4>1. c < i /\ i - c = i
        BY <1>5, <1>6
      <4> QED
        BY <4>1, <1>2 DEF Stream, FirstUpcoming
    <3> QED
      BY <3>1
  <2>2. FirstUnits = [i \in 1 .. FirstLength |-> FirstUnits[i]]
    BY DEF FirstUnits
  <2>3. Front(FirstLength) = FirstUnits
    BY <2>1, <2>2, <1>6, <1>8, SameElements
  <2> QED
    BY <2>3, <1>4
<1>10. TypeOK'
  BY <1>1, <1>4, <1>8, <1>9 DEF TypeOK, Received
<1>11. Waits'
  BY <1>1, <1>3, <1>4, <1>6, <1>8, ConstantsTyped DEF Waits, ReadHasRoom
<1>12. DueSoon(o, c + FirstLength)'
  BY <1>1, <1>2, <1>3, <1>4, <1>6, DueKept DEF Stream
<1>13. ~Inside /\ ~Inside' /\ Current' = Current /\ Current = 1 /\ Got' = Got /\ Got = 0
  BY <1>4, <1>5 DEF Inside, Current, Got
<1>14. Placed(f, o, c + FirstLength)'
  <2>1. c + FirstLength = o[1] /\ Sent' = Sent
    BY <1>2, <1>4, <1>5, <1>6 DEF Stream, Places, Sent
  <2> QED
    BY <2>1, <1>2, <1>4, <1>5, <1>13 DEF Placed
<1>15. Packed'
  <2>1. Time(parsed)' = Time(parsed) /\ Sent' = Sent /\ \A m : Delta(m)' = Delta(m)
    BY <1>4 DEF Time, Delta, Sent
  <2> QED
    BY <2>1, <1>1, <1>4, <1>5, <1>13 DEF Packed
<1>16. Tagged'
  BY <1>1, <1>3, <1>4, TaggedKept
<1> QED
  BY <1>7, <1>10, <1>11, <1>12, <1>14, <1>15, <1>16 DEF ChunkInv, Followed

(* The end of a message is after what is to come of it.                    *)
LEMMA HeaderEnds ==
  ASSUME TypeOK, NEW f, NEW o, NEW c, Stream(f, o, c), Placed(f, o, c),
         parsed_status_ = "header", parsed < Sent
  PROVE  /\ c < o[Current + 1] /\ c \in Nat /\ o[Current + 1] \in Nat
         /\ Current \in 1 .. Sent /\ o[Current] \in Nat
         /\ pack.got = <<>> => c + HeaderLength[f[Current]] <= o[Current + 1]
<1>1. /\ Received /\ messages \in Seq(Message) /\ parsed \in Nat /\ Got \in Nat
      /\ Current \in Nat \ {0}
  BY TypesUsed
<1>2. /\ Places(f, o, c) /\ c \in Nat /\ Sent \in 0 .. MaxMessages /\ Sent \in Nat
      /\ f \in [1 .. MaxMessages -> Formats] /\ \A m \in 1 .. Sent : o[m + 1] = o[m] + Span(f, m)
  BY ConstantsTyped DEF Stream, Places
<1>3. Current \in 1 .. Sent /\ Current \in 1 .. Sent + 1
  BY <1>1, <1>2 DEF Current
<1>4. Size(Current) \in Nat \ {0} /\ HeaderLength[f[Current]] \in Nat \ {0}
      /\ ChunkedLength(Size(Current)) \in Nat \ {0}
  BY <1>1, <1>2, <1>3, SpanTyped, MessageTyped
<1>5. o[Current] \in Nat
  BY <1>2, <1>3, PlacesOrdered
<1>6. o[Current + 1] = o[Current] + HeaderLength[f[Current]] + ChunkedLength(Size(Current))
  BY <1>2, <1>3, <1>4, <1>5 DEF Span
<1>7. CASE pack.got = <<>>
  <2>1. c = o[Current]
    BY <1>7 DEF Placed
  <2>2. /\ o[Current + 1] \in Nat /\ o[Current] < o[Current + 1]
        /\ o[Current] + HeaderLength[f[Current]] <= o[Current + 1]
    BY <1>4, <1>5, <1>6
  <2> QED
    BY <2>1, <2>2, <1>2, <1>3, <1>5
<1>8. CASE pack.got # <<>>
  <2>1. PICK q \in Nat : InChunk(f, o, c, q)
    BY <1>8 DEF Placed, Inside
  <2>2. Got < Size(Current) /\ Got = Whole(q) /\ c + 1 = Body(f, o) + Got + q /\ q \in Nat \ {0}
    BY <2>1 DEF InChunk
  <2>3. Whole(q) < Size(Current) /\ Whole(q) \in Nat
    BY <2>2, WholeChunks
  <2>4. Whole(q) + q <= ChunkedLength(Size(Current))
    BY <2>2, <2>3, <1>4, ChunkedBodyAt
  <2>5. c + 1 <= o[Current + 1]
    BY <2>2, <2>3, <2>4, <1>2, <1>4, <1>5, <1>6 DEF Body
  <2> QED
    BY <2>5, <1>2, <1>3, <1>4, <1>5, <1>6, <1>8
<1> QED
  BY <1>7, <1>8

LEMMA HeaderShortKeeps ==
  ASSUME ChunkInv, HeaderShort
  PROVE  ChunkInv'
<1>1. TypeOK /\ Waits /\ Packed /\ Tagged
  BY DEF ChunkInv
<1>2. PICK f, o, c : Stream(f, o, c) /\ Placed(f, o, c) /\ DueSoon(o, c)
  BY DEF ChunkInv, Followed
<1>3. /\ pc = "parse" /\ pc' = "wait" /\ parsed_status_ = "header" /\ DecodeHeader = 0
      /\ UNCHANGED <<parsed_status_, pack, timestamp_, read_chunk_size_, first, tags, parsed>>
      /\ UNCHANGED <<buffer, wire, messages>> /\ UNCHANGED due
  BY DEF HeaderShort, parser_vars, client_vars
<1>4. Stream(f, o, c)'
  BY <1>2, <1>3, StreamKept
<1>5. Placed(f, o, c)' /\ Packed' /\ Tagged'
  BY <1>1, <1>2, <1>3, PositionKept
<1>6. TypeOK'
  BY <1>1, <1>3 DEF TypeOK
<1>7. /\ Len(buffer) \in Nat /\ parsed \in Nat /\ due \in Nat /\ Current \in Nat
      /\ (buffer = <<>> => Len(buffer) = 0) /\ (buffer # <<>> => Len(buffer) > 0)
  <2>1. Received /\ Len(buffer) \in Nat /\ parsed \in Nat /\ due \in Nat /\ Current \in Nat
    BY <1>1, TypesUsed
  <2>2. ASSUME NEW s \in Seq(Unit)
        PROVE  (s = <<>> => Len(s) = 0) /\ (s # <<>> => Len(s) > 0)
    OBVIOUS
  <2> QED
    BY <2>1, <2>2 DEF Received
<1>8. ASSUME buffer # <<>>
      PROVE  /\ parsed < Sent /\ Len(buffer) < HeaderLength[Head(buffer).kind]
             /\ Head(buffer).kind \in Formats
             /\ pack.got = <<>> => Head(buffer).kind = f[Current]
             /\ pack.got # <<>> => Head(buffer).kind = "fmt3"
  <2>1. /\ parsed < Sent /\ f[Current] \in Formats
        /\ pack.got = <<>> => Head(buffer).kind = f[Current]
        /\ pack.got # <<>> => Head(buffer).kind = "fmt3"
        /\ DecodeHeader = IF Len(buffer) >= HeaderLength[Head(buffer).kind]
                          THEN HeaderLength[Head(buffer).kind] ELSE 0
    BY <1>1, <1>2, <1>3, <1>8, HeaderAhead
  <2>2. Head(buffer).kind \in Formats
    BY <2>1 DEF Formats
  <2>3. HeaderLength[Head(buffer).kind] \in Nat \ {0}
    BY <2>2, HeaderLengths
  <2> QED
    BY <2>1, <2>2, <2>3, <1>3, <1>7
<1>9. Waits'
  <2>1. Len(buffer) < Capacity
    <3>1. CASE buffer = <<>>
      BY <3>1, <1>7, ConstantsTyped
    <3>2. CASE buffer # <<>>
      <4>1. HeaderLength[Head(buffer).kind] \in Nat /\ HeaderLength[Head(buffer).kind] < Capacity
        BY <3>2, <1>8, HeaderLengths
      <4> QED
        BY <4>1, <3>2, <1>7, <1>8, ConstantsTyped
    <3> QED
      BY <3>1, <3>2
  <2> QED
    BY <2>1, <1>1, <1>3 DEF Waits, ReadHasRoom
<1>10. due <= parsed
  <2> SUFFICES ASSUME parsed < due PROVE FALSE
    BY <1>7
  <2>1. /\ Places(f, o, c) /\ Sent \in Nat /\ due <= Sent /\ o[due + 1] <= c + Len(buffer)
    BY <1>2, <1>3, ConstantsTyped DEF Stream, Places, DueSoon
  <2>2. parsed < Sent
    BY <2>1, <1>7
  <2>3. /\ c < o[Current + 1] /\ c \in Nat /\ o[Current + 1] \in Nat
        /\ pack.got = <<>> => c + HeaderLength[f[Current]] <= o[Current + 1]
    BY <2>2, <1>1, <1>2, <1>3, HeaderEnds
  <2>4. Current + 1 \in 1 .. Sent + 1 /\ due + 1 \in 1 .. Sent + 1 /\ Current + 1 <= due + 1
    BY <2>1, <2>2, <1>7 DEF Current
  <2>5. o[due + 1] \in Nat /\ o[Current + 1] <= o[due + 1]
    BY <2>1, <2>4, PlacesOrdered
  <2>6. c < c + Len(buffer)
    BY <2>1, <2>3, <2>5, <1>7
  <2>7. buffer # <<>>
    BY <2>3, <2>6, <1>7
  <2>8. CASE pack.got = <<>>
    <3>1. HeaderLength[f[Current]] \in Nat /\ Len(buffer) < HeaderLength[f[Current]]
      BY <2>7, <2>8, <1>8, HeaderLengths
    <3> QED
      BY <3>1, <2>1, <2>3, <2>5, <2>8, <1>7
  <2>9. CASE pack.got # <<>>
    <3>1. HeaderLength["fmt3"] = 1
      BY ChunkAssumption DEF ChunkAssumption
    <3> QED
      BY <3>1, <2>7, <2>9, <1>7, <1>8
  <2> QED
    BY <2>8, <2>9
<1>11. DueSoon(o, c)'
  BY <1>2, <1>3, <1>7, <1>10 DEF DueSoon, DeliveredByNextRead, Sent
<1> QED
  BY <1>4, <1>5, <1>6, <1>9, <1>11 DEF ChunkInv, Followed

LEMMA DecodedIs ==
  ASSUME TypeOK, Packed, NEW u, u.of \in 1 .. Sent, u.kind \in Formats
  PROVE  /\ Decoded(u) \in Pack /\ Decoded(u).got = pack.got
         /\ Decoded(u).timestamp_ =
               IF u.kind = "fmt3" THEN pack.timestamp_ ELSE Digits(Delta(u.of), 3)
         /\ Decoded(u).data_size_ =
               IF u.kind \in {"fmt0", "fmt1"} THEN Digits(Size(u.of), 3) ELSE pack.data_size_
         /\ Decoded(u).av = IF u.kind \in {"fmt0", "fmt1"} THEN messages[u.of].av ELSE pack.av
<1>1. pack \in Pack /\ messages \in Seq(Message)
  BY DEF TypeOK
<1>2. /\ pack.timestamp_ \in [1 .. 3 -> Digit] /\ pack.data_size_ \in [1 .. 3 -> Digit]
      /\ pack.av \in BOOLEAN /\ pack.got \in Seq(Unit)
  BY <1>1 DEF Pack
<1>3. Delta(u.of) \in Nat /\ Size(u.of) \in Nat
  <2>1. Delta(u.of) \in 0 .. Power(3) - 1
    BY ChunkAssumption DEF ChunkAssumption, Packed
  <2> QED
    BY <2>1, <1>1, MessageTyped
<1>4. Digits(Delta(u.of), 3) \in [1 .. 3 -> Digit] /\ Digits(Size(u.of), 3) \in [1 .. 3 -> Digit]
  BY <1>3, DigitsTyped
<1>5. messages[u.of].av \in BOOLEAN
  BY <1>1, MessageTyped
<1> DEFINE t == IF u.kind = "fmt3" THEN pack.timestamp_ ELSE Digits(Delta(u.of), 3)
           s == IF u.kind \in {"fmt0", "fmt1"} THEN Digits(Size(u.of), 3) ELSE pack.data_size_
           a == IF u.kind \in {"fmt0", "fmt1"} THEN messages[u.of].av ELSE pack.av
<1>6. t \in [1 .. 3 -> Digit] /\ s \in [1 .. 3 -> Digit]
  BY <1>2, <1>4
<1>7. a \in BOOLEAN
  BY <1>2, <1>5, Zenon
<1>8. Decoded(u) = [pack EXCEPT !.timestamp_ = t, !.data_size_ = s, !.av = a]
  BY DEF Decoded, Size
<1> HIDE DEF t, s, a
<1>9. pack = [timestamp_ |-> pack.timestamp_, data_size_ |-> pack.data_size_,
              av |-> pack.av, got |-> pack.got]
  BY <1>1 DEF Pack
<1>10. Decoded(u) = [timestamp_ |-> t, data_size_ |-> s, av |-> a, got |-> pack.got]
  BY <1>8, <1>9
<1>11. Decoded(u) \in Pack
  BY <1>2, <1>6, <1>7, <1>10 DEF Pack
<1> QED
  BY <1>10, <1>11 DEF t, s, a

LEMMA ParseHeaderKeeps ==
  ASSUME ChunkInv, ParseHeader
  PROVE  ChunkInv'
<1>1. TypeOK /\ Waits /\ Packed /\ Tagged
  BY DEF ChunkInv
<1>2. PICK f, o, c : Stream(f, o, c) /\ Placed(f, o, c) /\ DueSoon(o, c)
  BY DEF ChunkInv, Followed
<1>3. /\ Received /\ messages \in Seq(Message) /\ Len(buffer) \in Nat /\ parsed \in Nat /\ Total \in Nat
      /\ Got \in Nat /\ Current \in Nat \ {0} /\ parsed = Current - 1
  BY <1>1, TypesUsed DEF Current
<1>4. /\ pc = "parse" /\ parsed_status_ = "header" /\ parsed_status_' = "body"
      /\ DecodeHeader > 0 /\ pack' = Decoded(Head(buffer)) /\ Drop(DecodeHeader)
      /\ UNCHANGED <<timestamp_, read_chunk_size_, first, tags, parsed, pc, due>>
      /\ UNCHANGED wire /\ UNCHANGED messages
  BY DEF ParseHeader, client_vars
<1>5. buffer # <<>>
  <2> SUFFICES ASSUME buffer = <<>> PROVE FALSE
    OBVIOUS
  <2>1. DecodeHeader = 0
    BY DEF DecodeHeader
  <2> QED
    BY <2>1, <1>4
<1>6. PICK u : u = Head(buffer)
  OBVIOUS
<1>7. /\ parsed < Sent /\ f[Current] \in Formats /\ u.of = Current
      /\ pack.got = <<>> => u.kind = f[Current]
      /\ pack.got # <<>> => u.kind = "fmt3"
      /\ DecodeHeader = IF Len(buffer) >= HeaderLength[u.kind] THEN HeaderLength[u.kind] ELSE 0
  BY <1>1, <1>2, <1>4, <1>5, <1>6, HeaderAhead
<1>8. u.kind \in Formats
  BY <1>7 DEF Formats
<1>9. PICK n : n = HeaderLength[u.kind]
  OBVIOUS
<1>10. n \in Nat \ {0} /\ n \in 0 .. Len(buffer) /\ DecodeHeader = n /\ Drop(n)
  <2>1. n \in Nat \ {0}
    BY <1>8, <1>9, HeaderLengths
  <2>2. Len(buffer) >= n /\ DecodeHeader = n
    BY <2>1, <1>3, <1>4, <1>7, <1>9
  <2> QED
    BY <2>1, <2>2, <1>3, <1>4
<1>11. c \in Nat /\ Current \in 1 .. Sent /\ o[Current] \in Nat /\ Places(f, o, c)
  BY <1>1, <1>2, <1>4, <1>7, HeaderEnds DEF Stream
<1>12. Stream(f, o, c + n)'
  BY <1>2, <1>3, <1>4, <1>10, StreamDrop
<1>13. Received' /\ Len(buffer') = Len(buffer) - n
  BY <1>3, <1>4, <1>10, DropMovesUpcoming
<1>14. Size(Current) \in Nat \ {0} /\ Size(Current) \in 0 .. Power(3) - 1
       /\ HeaderLength[f[Current]] \in Nat
  BY <1>3, <1>7, <1>11, MessageTyped, HeaderLengths
<1>15. /\ pack' \in Pack /\ pack'.got = pack.got
       /\ pack'.timestamp_ = IF u.kind = "fmt3" THEN pack.timestamp_ ELSE Digits(Delta(Current), 3)
       /\ pack'.data_size_ =
             IF u.kind \in {"fmt0", "fmt1"} THEN Digits(Size(Current), 3) ELSE pack.data_size_
       /\ pack'.av = IF u.kind \in {"fmt0", "fmt1"} THEN messages[Current].av ELSE pack.av
  <2>1. u.of \in 1 .. Sent
    BY <1>7, <1>11
  <2>2. pack' = Decoded(u)
    BY <1>4, <1>6
  <2>3. /\ Decoded(u) \in Pack /\ Decoded(u).got = pack.got
        /\ Decoded(u).timestamp_ =
              IF u.kind = "fmt3" THEN pack.timestamp_ ELSE Digits(Delta(u.of), 3)
        /\ Decoded(u).data_size_ =
              IF u.kind \in {"fmt0", "fmt1"} THEN Digits(Size(u.of), 3) ELSE pack.data_size_
        /\ Decoded(u).av = IF u.kind \in {"fmt0", "fmt1"} THEN messages[u.of].av ELSE pack.av
    BY <2>1, <1>1, <1>8, DecodedIs
  <2> QED
    BY <2>2, <2>3, <1>7, Zenon
<1>16. /\ pack'.data_size_ = Digits(Size(Current), 3) /\ pack'.av = messages[Current].av
       /\ pack'.timestamp_ = Digits(Delta(Current), 3)
  <2>1. CASE pack.got # <<>>
    <3>1. Inside
      BY <2>1, <1>4 DEF Inside
    <3>2. PackOf(Current) /\ u.kind = "fmt3"
      BY <3>1, <2>1, <1>1, <1>7 DEF Packed
    <3> QED
      BY <3>2, <1>15 DEF PackOf
  <2>2. CASE pack.got = <<>>
    <3>1. u.kind = f[Current] /\ ~Inside
      BY <2>2, <1>4, <1>7 DEF Inside
    <3>2. /\ f[Current] \in {"fmt2", "fmt3"} => parsed > 0 /\ Size(Current) = Size(parsed)
                                                /\ messages[Current].av = messages[parsed].av
          /\ f[Current] = "fmt3" => parsed > 0 /\ Delta(Current) = Delta(parsed)
      <4>1. LeftOut(f) /\ Current - 1 = parsed
        BY <1>2, <1>3 DEF Stream
      <4>2. Current > 1 => parsed > 0
        BY <1>3
      <4>3. f[Current] = "fmt3" => f[Current] \in {"fmt2", "fmt3"}
        OBVIOUS
      <4> QED
        BY <4>1, <4>2, <4>3, <1>11 DEF LeftOut
    <3>3. parsed > 0 => PackOf(parsed)
      BY <3>1, <1>1 DEF Packed
    <3>4. CASE u.kind \in {"fmt0", "fmt1"}
      BY <3>4, <1>15
    <3>5. CASE u.kind = "fmt2"
      <4>1. PackOf(parsed) /\ Size(Current) = Size(parsed) /\ messages[Current].av = messages[parsed].av
        BY <3>1, <3>2, <3>3, <3>5
      <4> QED
        BY <4>1, <3>5, <1>15 DEF PackOf
    <3>6. CASE u.kind = "fmt3"
      <4>1. PackOf(parsed) /\ Size(Current) = Size(parsed) /\ messages[Current].av = messages[parsed].av
            /\ Delta(Current) = Delta(parsed)
        BY <3>1, <3>2, <3>3, <3>6
      <4> QED
        BY <4>1, <3>6, <1>15 DEF PackOf
    <3> QED
      BY <3>4, <3>5, <3>6, <1>8 DEF Formats
  <2> QED
    BY <2>1, <2>2
<1>17. /\ Current' = Current /\ Got' = Got /\ Inside' /\ Sent' = Sent
       /\ (\A m : Size(m)' = Size(m)) /\ (\A m : Delta(m)' = Delta(m)) /\ Body(f, o)' = Body(f, o)
  BY <1>4, <1>15 DEF Current, Got, Inside, Sent, Size, Delta, Time, Body
<1>18. \E q \in Nat : InChunk(f, o, c + n, q)'
  <2>1. \A q : InLast(q)' <=> Size(Current) <= Whole(q) + Chunk
    BY <1>17 DEF InLast
  <2>2. Size(Current)' = Size(Current)
    BY <1>17
  <2>3. CASE pack.got = <<>>
    <3>1. Got = 0 /\ c = o[Current] /\ read_chunk_size_ = 0 /\ n = HeaderLength[f[Current]]
      BY <2>3, <1>2, <1>4, <1>7, <1>9 DEF Placed, Got
    <3>2. c + n = Body(f, o) + Got + 0 /\ Whole(0) = 0 /\ Got < Size(Current)
      BY <3>1, <1>11, <1>14, WholeChunks DEF Body
    <3>3. InChunk(f, o, c + n, 0)'
      BY <3>1, <3>2, <2>1, <2>2, <1>4, <1>17 DEF InChunk
    <3> QED
      BY <3>3
  <2>4. CASE pack.got # <<>>
    <3>1. PICK q \in Nat : InChunk(f, o, c, q)
      BY <2>4, <1>2, <1>4 DEF Placed, Inside
    <3>2. /\ Got < Size(Current) /\ Got = Whole(q) /\ c + 1 = Body(f, o) + Got + q
          /\ read_chunk_size_ = 0
      BY <3>1, <1>4 DEF InChunk
    <3>3. n = 1
      BY <2>4, <1>7, <1>9, ChunkAssumption DEF ChunkAssumption
    <3>4. Got = Whole(q) + read_chunk_size_ /\ Whole(q) <= Got
      <4>1. ASSUME NEW w \in Nat, NEW r, r = 0 PROVE w = w + r /\ w <= w
        BY <4>1
      <4> QED
        BY <4>1, <3>2, <1>3
    <3>5. c + n = Body(f, o) + Got + q
      BY <3>2, <3>3, Zenon
    <3>6. Got' < Size(Current)' /\ Whole(q) <= Got' /\ parsed_status_' = "body"
      BY <3>2, <3>4, <2>2, <1>4, <1>17
    <3>7. c + n = Body(f, o)' + Got' + q
      BY <3>5, <1>17
    <3>8. read_chunk_size_' = 0 /\ Got' = Whole(q) + read_chunk_size_'
      BY <3>2, <3>4, <1>4, <1>17
    <3>9. InChunk(f, o, c + n, q)'
      BY <3>6, <3>7, <3>8 DEF InChunk
    <3> QED
      BY <3>9
  <2> QED
    BY <2>3, <2>4
<1>19. Placed(f, o, c + n)'
  <2>1. parsed' <= Sent' /\ parsed' < Sent'
    BY <1>3, <1>4, <1>7, <1>11, <1>17, ConstantsTyped DEF Places
  <2> QED
    BY <2>1, <1>4, <1>18 DEF Placed
<1>20. Packed'
  <2>1. \A m : m = Current => PackOf(m)'
    BY <1>4, <1>16, <1>17 DEF PackOf
  <2>2. PackOf(Current)'
    BY <2>1, <1>17
  <2>3. timestamp_' = Time(parsed)' % Power(4)
    BY <1>1, <1>4 DEF Packed, Time
  <2>4. \A i \in 1 .. Got : pack'.got[i] = BodyUnit(Current, i)
    BY <1>1, <1>15 DEF Packed
  <2> QED
    BY <2>2, <2>3, <2>4, <1>1, <1>17 DEF Packed
<1>21. TypeOK'
  <2>1. Number(pack'.data_size_) = Size(Current)
    BY <1>14, <1>16, NumberOfDigits
  <2>2. Got < Size(Current)
    BY <1>17, <1>18 DEF InChunk
  <2>3. Len(pack'.got) <= Number(pack'.data_size_)
    BY <2>1, <2>2, <1>3, <1>14, <1>15 DEF Got
  <2> QED
    BY <2>3, <1>1, <1>4, <1>13, <1>15 DEF TypeOK, Received
<1>22. Waits'
  BY <1>1, <1>3, <1>4, <1>10, <1>13, ConstantsTyped DEF Waits, ReadHasRoom
<1>23. DueSoon(o, c + n)'
  BY <1>1, <1>2, <1>3, <1>4, <1>10, <1>11, DueKept
<1>24. Tagged'
  BY <1>1, <1>3, <1>4, TaggedKept
<1> QED
  BY <1>12, <1>19, <1>20, <1>21, <1>22, <1>23, <1>24 DEF ChunkInv, Followed

(* The front of the buffer, put after what there is of the body.           *)
LEMMA BodyTaken ==
  ASSUME TypeOK, Packed, NEW f, NEW o, NEW c, Stream(f, o, c), parsed < Sent,
         parsed_status_ = "body", NEW q \in Nat, InChunk(f, o, c, q),
         NEW n \in 0 .. Len(buffer), Drop(n), UNCHANGED wire,
         Got + n <= Size(Current), Got + n <= Whole(q) + Chunk
  PROVE  /\ pack.got \o Front(n) \in Seq(Unit) /\ Len(pack.got \o Front(n)) = Got + n
         /\ \A i \in 1 .. Got + n : (pack.got \o Front(n))[i] = BodyUnit(Current, i)
<1>1. Received /\ pack.got \in Seq(Unit) /\ Got \in Nat /\ n \in Nat
      /\ messages \in Seq(Message) /\ Current \in Nat \ {0} /\ parsed \in Nat
  BY TypesUsed
<1>2. /\ Front(n) \in Seq(Unit) /\ Len(Front(n)) = n
      /\ \A i \in 1 .. n : Front(n)[i] = Upcoming(i)
  BY <1>1, DropMovesUpcoming
<1>3. PICK t : t = pack.got \o Front(n)
  OBVIOUS
<1>4. Joined(t, pack.got, Front(n))
  BY <1>1, <1>2, <1>3, JoinedUnits
<1>5. t \in Seq(Unit) /\ Len(t) = Got + n
  BY <1>2, <1>4 DEF Joined, Got
<1>6. /\ \A i \in 1 .. Got : t[i] = pack.got[i]
      /\ \A j \in 1 .. n : t[Got + j] = Front(n)[j]
  BY <1>2, <1>4 DEF Joined, Got
<1>7. Size(Current) \in Nat /\ Whole(q) + Chunk \in Nat
  <2>1. Sent \in Nat
    BY ConstantsTyped DEF Stream, Places
  <2>2. Current \in 1 .. Sent
    BY <2>1, <1>1 DEF Current
  <2>3. Chunk \in Nat /\ Whole(q) \in Nat
    BY WholeChunks, ConstantsTyped
  <2> QED
    BY <2>2, <2>3, <1>1, MessageTyped
<1>8. ASSUME NEW j \in 1 .. n PROVE t[Got + j] = BodyUnit(Current, Got + j)
  <2>1. Got + j <= Size(Current) /\ Got + j <= Whole(q) + Chunk /\ j \in Nat \ {0}
    BY <1>1, <1>7
  <2>2. Upcoming(j) = BodyUnit(Current, Got + j)
    BY <2>1, BodyAhead
  <2> QED
    BY <2>2, <1>2, <1>6
<1>9. ASSUME NEW i \in 1 .. Got + n PROVE t[i] = BodyUnit(Current, i)
  <2>1. CASE i \in 1 .. Got
    BY <2>1, <1>6 DEF Packed
  <2>2. CASE i - Got \in 1 .. n
    <3>1. i = Got + (i - Got)
      BY <1>1
    <3>2. t[Got + (i - Got)] = BodyUnit(Current, Got + (i - Got))
      BY <2>2, <1>8
    <3> QED
      BY <3>1, <3>2
  <2>3. i \in 1 .. Got \/ i - Got \in 1 .. n
    BY <1>1
  <2> QED
    BY <2>1, <2>2, <2>3
<1> QED
  BY <1>3, <1>5, <1>9

(* A step that takes n units of a message and does not end it.             *)
LEMMA TakeKeeps ==
  ASSUME TypeOK, Packed, Tagged, NEW f, NEW o, NEW c, Stream(f, o, c), parsed < Sent,
         parsed_status_ = "body", NEW q \in Nat, InChunk(f, o, c, q),
         NEW n \in 0 .. Len(buffer), Take(n),
         Got + n < Size(Current), Got + n <= Whole(q) + Chunk,
         parsed_status_' = "body" \/ (parsed_status_' = "header" /\ n > 0),
         UNCHANGED <<timestamp_, first, tags, parsed, due>>, UNCHANGED wire, UNCHANGED messages
  PROVE  /\ Stream(f, o, c + n)' /\ Packed' /\ Tagged' /\ Inside'
         /\ Received' /\ Len(buffer') = Len(buffer) - n
         /\ Got' = Got + n /\ Size(Current)' = Size(Current) /\ Body(f, o)' = Body(f, o)
         /\ pack' \in Pack /\ Len(pack'.got) <= Number(pack'.data_size_)
<1>1. /\ Received /\ pack \in Pack /\ pack.got \in Seq(Unit) /\ Got \in Nat /\ n \in Nat
      /\ messages \in Seq(Message) /\ Current \in Nat \ {0} /\ parsed \in Nat
  BY TypesUsed
<1>2. Drop(n)
  BY DEF Take
<1>3. Stream(f, o, c + n)'
  BY <1>1, <1>2, StreamDrop
<1>4. Received' /\ Len(buffer') = Len(buffer) - n
  BY <1>1, <1>2, DropMovesUpcoming
<1>5. Size(Current) \in Nat /\ Size(Current) \in 0 .. Power(3) - 1
  <2>1. Sent \in Nat
    BY ConstantsTyped DEF Stream, Places
  <2>2. Current \in 1 .. Sent
    BY <2>1, <1>1 DEF Current
  <2> QED
    BY <2>2, <1>1, MessageTyped
<1>6. Got + n <= Size(Current)
  BY <1>1, <1>5
<1>7. PICK t : t = pack.got \o Front(n)
  OBVIOUS
<1>8. /\ t \in Seq(Unit) /\ Len(t) = Got + n
      /\ \A i \in 1 .. Got + n : t[i] = BodyUnit(Current, i)
  BY <1>2, <1>6, <1>7, BodyTaken
<1>9. pack' = [pack EXCEPT !.got = t]
  BY <1>7 DEF Take
<1>10. /\ pack' \in Pack /\ pack'.got = t /\ pack'.data_size_ = pack.data_size_
       /\ pack'.av = pack.av /\ pack'.timestamp_ = pack.timestamp_
  BY <1>1, <1>8, <1>9 DEF Pack
<1>11. Got' = Got + n /\ Current' = Current /\ Sent' = Sent
  BY <1>8, <1>10 DEF Got, Current, Sent
<1>12. Size(Current)' = Size(Current) /\ Body(f, o)' = Body(f, o)
  BY DEF Size, Current, Body
<1>13. Inside'
  <2>1. ASSUME n > 0 PROVE pack'.got # <<>>
    <3>1. Len(t) # 0
      BY <2>1, <1>1, <1>8
    <3> QED
      BY <3>1, <1>10
  <2> QED
    BY <2>1 DEF Inside
<1>14. PackOf(Current)
  BY DEF Packed, Inside
<1>15. Packed'
  <2>1. \A m : m = Current => PackOf(m)'
    BY <1>10, <1>14 DEF PackOf, Size, Delta, Time
  <2>2. PackOf(Current)'
    BY <2>1, <1>11
  <2>3. timestamp_' = Time(parsed)' % Power(4)
    BY DEF Packed, Time
  <2>4. \A m \in 1 .. Sent' : Delta(m)' \in Deltas
    BY <1>11 DEF Packed, Delta, Time
  <2>5. \A i \in 1 .. Got' : pack'.got[i] = BodyUnit(Current', i)
    BY <1>8, <1>10, <1>11
  <2> QED
    BY <2>2, <2>3, <2>4, <2>5, <1>13 DEF Packed
<1>16. Tagged'
  BY <1>1, TaggedKept
<1>17. Len(pack'.got) <= Number(pack'.data_size_)
  <2>1. Number(pack'.data_size_) = Size(Current)
    BY <1>5, <1>10, <1>14, NumberOfDigits DEF PackOf
  <2> QED
    BY <2>1, <1>6, <1>8, <1>10
<1> QED
  BY <1>3, <1>4, <1>10, <1>11, <1>12, <1>13, <1>15, <1>16, <1>17

(* No message that was complete before the last read ends in this chunk.   *)
LEMMA NoneDue ==
  ASSUME TypeOK, Packed, NEW f, NEW o, NEW c, Stream(f, o, c), DueSoon(o, c), pc = "parse",
         parsed < Sent, parsed_status_ = "body", NEW q \in Nat, InChunk(f, o, c, q),
         c + Len(buffer) < o[Current + 1] \/ read_chunk_size_ # 0 \/ c + Chunk <= o[Current + 1]
  PROVE  due <= parsed
<1>1. Len(buffer) \in Nat /\ parsed \in Nat /\ due \in Nat /\ Current \in Nat
  BY TypesUsed
<1> SUFFICES ASSUME parsed < due PROVE FALSE
  BY <1>1
<1>2. /\ Places(f, o, c) /\ Sent \in Nat /\ due <= Sent /\ read_chunk_size_ = 0
      /\ o[due + 1] <= c + Len(buffer) /\ o[due + 1] < c + Chunk
  BY ConstantsTyped DEF Stream, Places, DueSoon
<1>3. c \in Nat /\ o[Current + 1] \in Nat
  BY EndsAhead
<1>4. Current + 1 \in 1 .. Sent + 1 /\ due + 1 \in 1 .. Sent + 1 /\ Current + 1 <= due + 1
  BY <1>1, <1>2 DEF Current
<1>5. o[due + 1] \in Nat /\ o[Current + 1] <= o[due + 1]
  BY <1>2, <1>4, PlacesOrdered
<1> QED
  BY <1>1, <1>2, <1>3, <1>5, ConstantsTyped

(* What the steps within a body start from.                                *)
MidBody(f, o, c, q) ==
    /\ Stream(f, o, c) /\ Placed(f, o, c) /\ DueSoon(o, c) /\ Places(f, o, c)
    /\ parsed < Sent /\ InChunk(f, o, c, q)
    /\ c \in Nat /\ Body(f, o) \in Nat /\ Current \in 1 .. Sent
    /\ Size(Current) \in Nat /\ Size(Current) \in 0 .. Power(3) - 1
    /\ Got < Size(Current) /\ Whole(q) \in Nat /\ Whole(q + 1) = Whole(q) + Chunk
    /\ Whole(q) <= Got /\ c = Body(f, o) + Got + q
    /\ (~InLast(q) => Got = Whole(q) + read_chunk_size_)

LEMMA InBodyIs ==
  ASSUME ChunkInv, InBody
  PROVE  \E f, o, c : \E q \in Nat : MidBody(f, o, c, q)
<1>1. PICK f, o, c : Stream(f, o, c) /\ Placed(f, o, c) /\ DueSoon(o, c)
  BY DEF ChunkInv, Followed
<1>2. /\ messages \in Seq(Message) /\ Current \in Nat \ {0} /\ parsed \in Nat /\ Received
  BY TypesUsed DEF ChunkInv
<1>3. parsed_status_ = "body"
  BY DEF InBody
<1>4. PICK q \in Nat : parsed < Sent /\ InChunk(f, o, c, q)
  BY <1>1, <1>3 DEF Placed, Inside
<1>5. Places(f, o, c) /\ c \in Nat /\ Sent \in Nat /\ Sent \in 0 .. MaxMessages
      /\ f \in [1 .. MaxMessages -> Formats]
  BY <1>1, ConstantsTyped DEF Stream, Places
<1>6. Current \in 1 .. Sent /\ Current \in 1 .. Sent + 1
  BY <1>2, <1>4, <1>5 DEF Current
<1>7. Size(Current) \in Nat /\ Size(Current) \in 0 .. Power(3) - 1
      /\ HeaderLength[f[Current]] \in Nat
  BY <1>2, <1>5, <1>6, MessageTyped, SpanTyped
<1>8. o[Current] \in Nat
  BY <1>5, <1>6, PlacesOrdered
<1>9. Body(f, o) \in Nat
  BY <1>7, <1>8 DEF Body
<1>10. Whole(q) \in Nat /\ Whole(q + 1) = Whole(q) + Chunk
  BY <1>4, WholeChunks
<1>11. /\ Got < Size(Current) /\ Whole(q) <= Got /\ c = Body(f, o) + Got + q
       /\ (~InLast(q) => Got = Whole(q) + read_chunk_size_)
  BY <1>3, <1>4 DEF InChunk
<1>12. MidBody(f, o, c, q)
  BY <1>1, <1>4, <1>5, <1>6, <1>7, <1>9, <1>10, <1>11 DEF MidBody
<1> QED
  BY <1>4, <1>12

LEMMA BodyShortKeeps ==
  ASSUME ChunkInv, BodyShort
  PROVE  ChunkInv'
<1>1. TypeOK /\ Waits /\ Packed /\ Tagged
  BY DEF ChunkInv
<1>2. /\ InBody /\ pc = "parse" /\ parsed_status_ = "body" /\ chunk_over_ /\ Len(buffer) < Remain
      /\ Take(Len(buffer)) /\ pc' = "wait"
      /\ UNCHANGED <<timestamp_, first, tags, parsed, due>>
      /\ parsed_status_' = "body" /\ read_chunk_size_' = read_chunk_size_
      /\ UNCHANGED wire /\ UNCHANGED messages
  BY DEF BodyShort, InBody, client_vars
<1>3. PICK f, o, c : \E q \in Nat : MidBody(f, o, c, q)
  BY <1>2, InBodyIs
<1>a. PICK q \in Nat : MidBody(f, o, c, q)
  BY <1>3
<1>4. /\ Stream(f, o, c) /\ Placed(f, o, c) /\ DueSoon(o, c) /\ Places(f, o, c)
      /\ parsed < Sent /\ InChunk(f, o, c, q)
      /\ c \in Nat /\ Body(f, o) \in Nat /\ Current \in 1 .. Sent
      /\ Size(Current) \in Nat /\ Size(Current) \in 0 .. Power(3) - 1
      /\ Got < Size(Current) /\ Whole(q) \in Nat /\ Whole(q + 1) = Whole(q) + Chunk
      /\ Whole(q) <= Got /\ c = Body(f, o) + Got + q
      /\ (~InLast(q) => Got = Whole(q) + read_chunk_size_)
  BY <1>a DEF MidBody
<1>5. /\ Len(buffer) \in Nat /\ Got \in Nat /\ parsed \in Nat /\ due \in Nat
      /\ read_chunk_size_ \in Nat
  BY <1>1, TypesUsed
<1>6. /\ Remain = Size(Current) - Got /\ o[Current + 1] \in Nat /\ InLast(q)
      /\ c + Remain = o[Current + 1]
  BY <1>1, <1>2, <1>4, EndsAhead
<1>7. PICK n : n = Len(buffer)
  OBVIOUS
<1>8. n \in 0 .. Len(buffer) /\ n \in Nat /\ Take(n) /\ Len(buffer) - n = 0
  BY <1>2, <1>5, <1>7
<1>9. Got + n < Size(Current) /\ Got + n <= Whole(q) + Chunk
  <2>1. Size(Current) <= Whole(q) + Chunk
    BY <1>6 DEF InLast
  <2>2. n < Size(Current) - Got
    BY <1>2, <1>6, <1>7
  <2>3. Chunk \in Nat
    BY ConstantsTyped
  <2> QED
    BY <2>1, <2>2, <2>3, <1>4, <1>5, <1>8
<1>10. /\ Stream(f, o, c + n)' /\ Packed' /\ Tagged' /\ Inside'
       /\ Received' /\ Len(buffer') = Len(buffer) - n
       /\ Got' = Got + n /\ Size(Current)' = Size(Current) /\ Body(f, o)' = Body(f, o)
       /\ pack' \in Pack /\ Len(pack'.got) <= Number(pack'.data_size_)
  BY <1>1, <1>2, <1>4, <1>8, <1>9, TakeKeeps
<1>11. due <= parsed
  <2>1. c + Len(buffer) < o[Current + 1]
    BY <1>2, <1>4, <1>5, <1>6
  <2> QED
    BY <2>1, <1>1, <1>2, <1>4, NoneDue
<1>12. TypeOK'
  BY <1>1, <1>2, <1>10 DEF TypeOK, Received
<1>13. buffer' = <<>> /\ Len(buffer') = 0
  <2>1. ASSUME NEW s \in Seq(Unit), Len(s) = 0 PROVE s = <<>>
    BY <2>1
  <2> QED
    BY <2>1, <1>8, <1>10 DEF Received
<1>14. Waits'
  BY <1>13, ConstantsTyped DEF Waits, ReadHasRoom
<1>15. InChunk(f, o, c + n, q)'
  <2>1. Got' < Size(Current)' /\ Whole(q) <= Got'
    BY <1>4, <1>5, <1>8, <1>9, <1>10
  <2>2. c + n = Body(f, o)' + Got' + q
    BY <1>4, <1>5, <1>8, <1>10
  <2>3. InLast(q)' /\ read_chunk_size_' = 0
    BY <1>2, <1>6, <1>10 DEF InLast, chunk_over_
  <2> QED
    BY <2>1, <2>2, <2>3, <1>2 DEF InChunk
<1>16. Placed(f, o, c + n)'
  <2>1. parsed' < Sent' /\ parsed' <= Sent'
    <3>1. Sent \in Nat
      BY <1>4, ConstantsTyped DEF Places
    <3> QED
      BY <3>1, <1>2, <1>4, <1>5 DEF Sent
  <2> QED
    BY <2>1, <1>2, <1>15 DEF Placed
<1>17. DueSoon(o, c + n)'
  BY <1>2, <1>4, <1>5, <1>11 DEF DueSoon, DeliveredByNextRead, Sent
<1> QED
  BY <1>10, <1>12, <1>14, <1>16, <1>17 DEF ChunkInv, Followed

LEMMA ChunkShortKeeps ==
  ASSUME ChunkInv, ChunkShort
  PROVE  ChunkInv'
<1>1. TypeOK /\ Waits /\ Packed /\ Tagged
  BY DEF ChunkInv
<1>2. /\ InBody /\ pc = "parse" /\ parsed_status_ = "body" /\ ~chunk_over_
      /\ Len(buffer) < Chunk - read_chunk_size_
      /\ Take(Len(buffer)) /\ pc' = "wait"
      /\ UNCHANGED <<timestamp_, first, tags, parsed, due>>
      /\ parsed_status_' = "body" /\ read_chunk_size_' = read_chunk_size_ + Len(buffer)
      /\ UNCHANGED wire /\ UNCHANGED messages
  BY DEF ChunkShort, InBody, client_vars
<1>3. PICK f, o, c : \E q \in Nat : MidBody(f, o, c, q)
  BY <1>2, InBodyIs
<1>a. PICK q \in Nat : MidBody(f, o, c, q)
  BY <1>3
<1>4. /\ Stream(f, o, c) /\ Placed(f, o, c) /\ DueSoon(o, c) /\ Places(f, o, c)
      /\ parsed < Sent /\ InChunk(f, o, c, q)
  BY <1>a DEF MidBody
<1>b. /\ c \in Nat /\ Body(f, o) \in Nat /\ Size(Current) \in Nat /\ Whole(q) \in Nat
      /\ Got < Size(Current) /\ Whole(q) <= Got /\ c = Body(f, o) + Got + q
  BY <1>a DEF MidBody
<1>5. /\ Len(buffer) \in Nat /\ Got \in Nat /\ parsed \in Nat /\ due \in Nat
      /\ read_chunk_size_ \in Nat /\ read_chunk_size_ < Chunk /\ Chunk \in Nat
  BY <1>1, TypesUsed, ConstantsTyped
<1>6. /\ o[Current + 1] \in Nat /\ ~InLast(q) /\ Got = Whole(q) + read_chunk_size_
      /\ c + Chunk - read_chunk_size_ < o[Current + 1] /\ Whole(q) + Chunk < Size(Current)
  <2>1. /\ o[Current + 1] \in Nat /\ ~InLast(q)
        /\ c + Chunk - read_chunk_size_ < o[Current + 1]
    BY <1>1, <1>2, <1>4, EndsAhead
  <2>2. Whole(q) + Chunk < Size(Current)
    BY <2>1, <1>b, <1>5 DEF InLast
  <2> QED
    BY <2>1, <2>2, <1>a DEF MidBody
<1>7. PICK n : n = Len(buffer)
  OBVIOUS
<1>8. n \in 0 .. Len(buffer) /\ n \in Nat /\ Take(n) /\ Len(buffer) - n = 0
      /\ n < Chunk - read_chunk_size_
  BY <1>2, <1>5, <1>7
<1>9. Got + n < Size(Current) /\ Got + n <= Whole(q) + Chunk
  <2>1. ASSUME NEW g \in Nat, NEW w \in Nat, NEW r \in Nat, NEW s \in Nat,
               g = w + r, n < Chunk - r, w + Chunk < s
        PROVE  g + n < s /\ g + n <= w + Chunk
    BY <2>1, <1>5, <1>8
  <2> QED
    BY <2>1, <1>b, <1>5, <1>6, <1>8
<1>10. /\ Stream(f, o, c + n)' /\ Packed' /\ Tagged' /\ Inside'
       /\ Received' /\ Len(buffer') = Len(buffer) - n
       /\ Got' = Got + n /\ Size(Current)' = Size(Current) /\ Body(f, o)' = Body(f, o)
       /\ pack' \in Pack /\ Len(pack'.got) <= Number(pack'.data_size_)
  BY <1>1, <1>2, <1>4, <1>8, <1>9, TakeKeeps
<1>11. due <= parsed
  <2>1. ASSUME NEW r \in Nat, NEW e \in Nat, n < Chunk - r, c + Chunk - r < e PROVE c + n < e
    BY <2>1, <1>b, <1>5, <1>8
  <2>2. c + Len(buffer) < o[Current + 1]
    BY <2>1, <1>5, <1>6, <1>7, <1>8
  <2> QED
    BY <2>2, <1>1, <1>2, <1>4, NoneDue
<1>12. TypeOK'
  <2>1. read_chunk_size_' \in 0 .. Chunk - 1
    BY <1>2, <1>5
  <2> QED
    BY <2>1, <1>1, <1>2, <1>10 DEF TypeOK, Received
<1>13. buffer' = <<>> /\ Len(buffer') = 0
  <2>1. ASSUME NEW s \in Seq(Unit), Len(s) = 0 PROVE s = <<>>
    BY <2>1
  <2> QED
    BY <2>1, <1>8, <1>10 DEF Received
<1>14. Waits'
  BY <1>13, ConstantsTyped DEF Waits, ReadHasRoom
<1>15. InChunk(f, o, c + n, q)'
  <2>1. Got' < Size(Current)' /\ Whole(q) <= Got'
    BY <1>b, <1>5, <1>8, <1>9, <1>10
  <2>2. c + n = Body(f, o)' + Got' + q
    BY <1>b, <1>5, <1>8, <1>10
  <2>3. ~InLast(q)'
    BY <1>6, <1>10 DEF InLast
  <2>4. Got' = Whole(q) + read_chunk_size_'
    <3>1. ASSUME NEW w \in Nat, NEW r \in Nat PROVE (w + r) + n = w + (r + n)
      BY <1>8
    <3>2. read_chunk_size_' = read_chunk_size_ + n
      BY <1>2, <1>7
    <3> QED
      BY <3>1, <3>2, <1>b, <1>5, <1>6, <1>10
  <2> QED
    BY <2>1, <2>2, <2>3, <2>4, <1>2 DEF InChunk
<1>16. Placed(f, o, c + n)'
  <2>1. parsed' < Sent' /\ parsed' <= Sent'
    <3>1. Sent \in Nat
      BY <1>4, ConstantsTyped DEF Places
    <3> QED
      BY <3>1, <1>2, <1>4, <1>5 DEF Sent
  <2> QED
    BY <2>1, <1>2, <1>15 DEF Placed, Inside
<1>17. DueSoon(o, c + n)'
  BY <1>2, <1>4, <1>5, <1>11 DEF DueSoon, DeliveredByNextRead, Sent
<1> QED
  BY <1>10, <1>12, <1>14, <1>16, <1>17 DEF ChunkInv, Followed

LEMMA ChunkCompleteKeeps ==
  ASSUME ChunkInv, ChunkComplete
  PROVE  ChunkInv'
<1>1. TypeOK /\ Waits /\ Packed /\ Tagged
  BY DEF ChunkInv
<1>2. /\ InBody /\ pc = "parse" /\ parsed_status_ = "body" /\ ~chunk_over_
      /\ Len(buffer) >= Chunk - read_chunk_size_
      /\ Take(Chunk - read_chunk_size_) /\ pc' = "wait"
      /\ UNCHANGED <<timestamp_, first, tags, parsed, due>>
      /\ parsed_status_' = "header" /\ read_chunk_size_' = 0
      /\ UNCHANGED wire /\ UNCHANGED messages
  BY DEF ChunkComplete, InBody, client_vars
<1>3. PICK f, o, c : \E q \in Nat : MidBody(f, o, c, q)
  BY <1>2, InBodyIs
<1>a. PICK q \in Nat : MidBody(f, o, c, q)
  BY <1>3
<1>4. /\ Stream(f, o, c) /\ Placed(f, o, c) /\ DueSoon(o, c) /\ Places(f, o, c)
      /\ parsed < Sent /\ InChunk(f, o, c, q)
  BY <1>a DEF MidBody
<1>b. /\ c \in Nat /\ Body(f, o) \in Nat /\ Size(Current) \in Nat /\ Whole(q) \in Nat
      /\ Got < Size(Current) /\ Whole(q) <= Got /\ c = Body(f, o) + Got + q
  BY <1>a DEF MidBody
<1>5. /\ Len(buffer) \in Nat /\ Got \in Nat /\ parsed \in Nat /\ due \in Nat
      /\ read_chunk_size_ \in Nat /\ read_chunk_size_ < Chunk /\ Chunk \in Nat
  BY <1>1, TypesUsed, ConstantsTyped
<1>6. /\ o[Current + 1] \in Nat /\ ~InLast(q) /\ Got = Whole(q) + read_chunk_size_
      /\ c + Chunk - read_chunk_size_ < o[Current + 1] /\ Whole(q) + Chunk < Size(Current)
  <2>1. /\ o[Current + 1] \in Nat /\ ~InLast(q)
        /\ c + Chunk - read_chunk_size_ < o[Current + 1]
    BY <1>1, <1>2, <1>4, EndsAhead
  <2>2. Whole(q) + Chunk < Size(Current)
    BY <2>1, <1>b, <1>5 DEF InLast
  <2> QED
    BY <2>1, <2>2, <1>a DEF MidBody
<1>7. PICK n : n = Chunk - read_chunk_size_
  OBVIOUS
<1>8. n \in 0 .. Len(buffer) /\ n \in Nat /\ n > 0 /\ Take(n)
  BY <1>2, <1>5, <1>7
<1>9. Got + n < Size(Current) /\ Got + n <= Whole(q) + Chunk /\ Got + n = Whole(q) + Chunk
  <2>1. ASSUME NEW w \in Nat, NEW r \in Nat, n = Chunk - r
        PROVE  (w + r) + n = w + Chunk /\ w + Chunk <= w + Chunk
    BY <2>1, <1>5, <1>8
  <2>2. Got + n = Whole(q) + Chunk /\ Got + n <= Whole(q) + Chunk
    BY <2>1, <1>b, <1>5, <1>6, <1>7
  <2> QED
    BY <2>2, <1>6
<1>10. /\ Stream(f, o, c + n)' /\ Packed' /\ Tagged' /\ Inside'
       /\ Received' /\ Len(buffer') = Len(buffer) - n
       /\ Got' = Got + n /\ Size(Current)' = Size(Current) /\ Body(f, o)' = Body(f, o)
       /\ pack' \in Pack /\ Len(pack'.got) <= Number(pack'.data_size_)
  BY <1>1, <1>2, <1>4, <1>8, <1>9, TakeKeeps
<1>11. due <= parsed
  <2>1. read_chunk_size_ # 0 \/ c + Chunk <= o[Current + 1]
    BY <1>b, <1>5, <1>6
  <2> QED
    BY <2>1, <1>1, <1>2, <1>4, NoneDue
<1>12. TypeOK'
  <2>1. read_chunk_size_' \in 0 .. Chunk - 1
    BY <1>2, <1>5
  <2> QED
    BY <2>1, <1>1, <1>2, <1>10 DEF TypeOK, Received
<1>14. Waits'
  <2>1. Len(buffer) <= Capacity
    BY <1>1 DEF Waits
  <2>2. Len(buffer') < Capacity /\ Len(buffer') <= Capacity
    BY <2>1, <1>5, <1>8, <1>10, ConstantsTyped
  <2> QED
    BY <2>2, <1>2 DEF Waits, ReadHasRoom
<1>13. PICK p : p = q + 1
  OBVIOUS
<1>15. p \in Nat /\ InChunk(f, o, c + n, p)'
  <2>1. p \in Nat /\ p # 0 /\ Got' = Whole(p) /\ Whole(p) \in Nat
    <3>1. Whole(p) = Whole(q) + Chunk
      BY <1>a, <1>13 DEF MidBody
    <3> QED
      BY <3>1, <1>b, <1>5, <1>9, <1>10, <1>13
  <2>2. Got' < Size(Current)' /\ Whole(p) <= Got'
    BY <2>1, <1>9, <1>10
  <2>3. c + n + 1 = Body(f, o)' + Got' + p
    BY <1>b, <1>5, <1>8, <1>10, <1>13
  <2> QED
    BY <2>1, <2>2, <2>3, <1>2 DEF InChunk
<1>16. Placed(f, o, c + n)'
  <2>1. parsed' < Sent' /\ parsed' <= Sent'
    <3>1. Sent \in Nat
      BY <1>4, ConstantsTyped DEF Places
    <3> QED
      BY <3>1, <1>2, <1>4, <1>5 DEF Sent
  <2> QED
    BY <2>1, <1>2, <1>10, <1>15 DEF Placed, Inside
<1>17. DueSoon(o, c + n)'
  BY <1>2, <1>4, <1>5, <1>11 DEF DueSoon, DeliveredByNextRead, Sent
<1> QED
  BY <1>10, <1>12, <1>14, <1>16, <1>17 DEF ChunkInv, Followed

-----------------------------------------------------------------------------
(* The tag of a message that ends.                                         *)

LEMMA TagNoIs ==
  ASSUME NEW k \in Nat
  PROVE  /\ TagNo(k) \in Nat
         /\ \A m \in AudioVideo(k) : m \in 1 .. k /\ TagNo(m) \in 1 .. TagNo(k)
<1>1. ASSUME NEW m \in Nat PROVE IsFiniteSet(AudioVideo(m)) /\ TagNo(m) \in Nat
  <2>1. IsFiniteSet(1 .. m) /\ AudioVideo(m) \subseteq 1 .. m
    BY FS_Interval DEF AudioVideo
  <2>2. IsFiniteSet(AudioVideo(m))
    BY <2>1, FS_Subset
  <2> QED
    BY <2>2, FS_CardinalityType DEF TagNo
<1>2. ASSUME NEW m \in AudioVideo(k) PROVE m \in 1 .. k /\ TagNo(m) \in 1 .. TagNo(k)
  <2>1. m \in 1 .. k /\ m \in Nat /\ m \in 1 .. m /\ messages[m].av
    BY DEF AudioVideo
  <2>2. m \in AudioVideo(m) /\ AudioVideo(m) \subseteq AudioVideo(k)
    BY <2>1 DEF AudioVideo
  <2>3. TagNo(m) <= TagNo(k)
    BY <2>2, <1>1, FS_Subset DEF TagNo
  <2>4. TagNo(m) # 0
    BY <2>1, <2>2, <1>1, FS_EmptySet DEF TagNo
  <2> QED
    BY <2>1, <2>3, <2>4, <1>1
<1> QED
  BY <1>1, <1>2

LEMMA TagNoNext ==
  ASSUME NEW k \in Nat
  PROVE  /\ messages[k + 1].av =>
               /\ AudioVideo(k + 1) = AudioVideo(k) \cup {k + 1}
               /\ TagNo(k + 1) = TagNo(k) + 1
         /\ ~messages[k + 1].av =>
               AudioVideo(k + 1) = AudioVideo(k) /\ TagNo(k + 1) = TagNo(k)
<1>1. 1 .. k + 1 = (1 .. k) \cup {k + 1} /\ k + 1 \notin 1 .. k
  OBVIOUS
<1>2. ASSUME messages[k + 1].av
      PROVE  /\ AudioVideo(k + 1) = AudioVideo(k) \cup {k + 1}
             /\ TagNo(k + 1) = TagNo(k) + 1
  <2>1. AudioVideo(k + 1) = AudioVideo(k) \cup {k + 1} /\ k + 1 \notin AudioVideo(k)
    BY <1>1, <1>2 DEF AudioVideo
  <2>2. IsFiniteSet(AudioVideo(k))
    <3>1. IsFiniteSet(1 .. k) /\ AudioVideo(k) \subseteq 1 .. k
      BY FS_Interval DEF AudioVideo
    <3> QED
      BY <3>1, FS_Subset
  <2>3. Cardinality(AudioVideo(k) \cup {k + 1}) = Cardinality(AudioVideo(k)) + 1
    BY <2>1, <2>2, FS_AddElement
  <2> QED
    BY <2>1, <2>3 DEF TagNo
<1>3. ASSUME ~messages[k + 1].av
      PROVE  AudioVideo(k + 1) = AudioVideo(k) /\ TagNo(k + 1) = TagNo(k)
  <2>1. AudioVideo(k + 1) = AudioVideo(k)
    BY <1>1, <1>3 DEF AudioVideo
  <2> QED
    BY <2>1 DEF TagNo
<1> QED
  BY <1>2, <1>3

LEMMA NumberTyped ==
  ASSUME NEW d \in [1 .. 3 -> Digit] PROVE Number(d) \in Nat
<1>1. d[1] \in Nat /\ d[2] \in Nat /\ d[3] \in Nat
  <2>1. \A i \in 1 .. 3 : d[i] \in Nat
    BY ConstantsTyped DEF Digit
  <2>2. 1 \in 1 .. 3 /\ 2 \in 1 .. 3 /\ 3 \in 1 .. 3
    OBVIOUS
  <2> QED
    BY <2>1, <2>2
<1>2. Power(2) \in Nat /\ Base \in Nat
  BY PowerValues, ConstantsTyped
<1> QED
  BY <1>1, <1>2 DEF Number

LEMMA EncodedIs ==
  ASSUME TypeOK, NEW body \in Seq(Unit), NEW t \in Nat
  PROVE  /\ EncodeTag(body, t) \in Tag /\ EncodeTag(body, t).body = body
         /\ EncodeTag(body, t).data_size = pack.data_size_
         /\ EncodeTag(body, t).timestamp = Digits(t % Power(3), 3)
         /\ EncodeTag(body, t).previous_tag_size =
               Digits(IF tags = <<>> THEN 0 ELSE CurrentTagSize(tags[Len(tags)]), 4)
<1>1. pack.data_size_ \in [1 .. 3 -> Digit] /\ tags \in Seq(Tag)
  BY DEF TypeOK, Pack
<1>2. TimeStamp(t) = Digits(t % Power(3), 3) /\ TimeStamp(t) \in [1 .. 3 -> Digit]
  <2>1. t % Power(3) \in Nat
    <3>1. Power(3) \in Nat \ {0}
      BY PowerValues
    <3>2. ASSUME NEW p \in Nat \ {0} PROVE t % p \in Nat
      <4>1. t % p \in 0 .. p - 1
        BY DivModExists
      <4> QED
        BY <4>1
    <3> QED
      BY <3>1, <3>2
  <2> QED
    BY <2>1, TimeStampIsLow, DigitsTyped
<1>3. PreviousTagSize \in [1 .. 4 -> Digit]
  <2>1. ASSUME tags # <<>> PROVE CurrentTagSize(tags[Len(tags)]) \in Nat
    <3>1. tags[Len(tags)] \in Tag
      <4>1. ASSUME NEW s \in Seq(Tag), s # <<>> PROVE s[Len(s)] \in Tag
        BY <4>1
      <4> QED
        BY <4>1, <2>1, <1>1
    <3>2. tags[Len(tags)].data_size \in [1 .. 3 -> Digit]
      BY <3>1 DEF Tag
    <3> QED
      BY <3>2, NumberTyped, ConstantsTyped DEF CurrentTagSize
  <2>2. (IF tags = <<>> THEN 0 ELSE CurrentTagSize(tags[Len(tags)])) \in Nat
    BY <2>1
  <2> QED
    BY <2>2, DigitsTyped DEF PreviousTagSize
<1>4. EncodeTag(body, t) \in Tag
  BY <1>1, <1>2, <1>3 DEF EncodeTag, Tag
<1> QED
  BY <1>2, <1>4 DEF EncodeTag, PreviousTagSize

LEMMA TaggedNext ==
  ASSUME TypeOK, Tagged, PackOf(Current), Current \in 1 .. Sent, NEW body \in Seq(Unit),
         body = BodyUnits(Current, Size(Current)), Len(body) = Size(Current),
         NEW t \in Nat, t % Power(3) = Time(Current) % Power(3),
         tags' = IF pack.av THEN Append(tags, EncodeTag(body, t)) ELSE tags,
         NEW k \in Nat, k = parsed, parsed' = k + 1, UNCHANGED messages
  PROVE  tags' \in Seq(Tag) /\ Tagged'
<1>1. /\ tags \in Seq(Tag) /\ messages \in Seq(Message) /\ Len(tags) \in Nat
      /\ Current = k + 1
  BY DEF TypeOK, Current
<1>2. /\ Len(tags) = TagNo(k)
      /\ \A m \in AudioVideo(k) : tags[TagNo(m)].body = BodyUnits(m, messages[m].size)
      /\ \A m \in AudioVideo(k) :
            /\ tags[TagNo(m)].data_size = Digits(messages[m].size, 3)
            /\ tags[TagNo(m)].timestamp = Digits(messages[m].time % Power(3), 3)
            /\ tags[TagNo(m)].previous_tag_size =
                  Digits(IF TagNo(m) = 1 THEN 0 ELSE TagHeader + Len(tags[TagNo(m) - 1].body), 4)
      /\ \A i \in 1 .. Len(tags) : Number(tags[i].data_size) = Len(tags[i].body)
  BY DEF Tagged, TagsAreMessages, TagHeaders
<1>3. /\ TagNo(k) \in Nat
      /\ \A m \in AudioVideo(k) : m \in 1 .. k /\ TagNo(m) \in 1 .. Len(tags)
  BY <1>2, TagNoIs
<1>4. (\A m : TagNo(m)' = TagNo(m)) /\ \A m : AudioVideo(m)' = AudioVideo(m)
  BY DEF TagNo, AudioVideo
<1>5. AudioVideo(parsed)' = AudioVideo(k + 1) /\ TagNo(parsed)' = TagNo(k + 1)
  BY <1>4 DEF TagNo, AudioVideo
<1>6. /\ pack.data_size_ = Digits(messages[k + 1].size, 3) /\ pack.av = messages[k + 1].av
  BY <1>1 DEF PackOf, Size
<1> SUFFICES
      /\ tags' \in Seq(Tag) /\ Len(tags') = TagNo(k + 1)
      /\ \A m \in AudioVideo(k + 1) : tags'[TagNo(m)].body = BodyUnits(m, messages[m].size)
      /\ \A m \in AudioVideo(k + 1) :
            /\ tags'[TagNo(m)].data_size = Digits(messages[m].size, 3)
            /\ tags'[TagNo(m)].timestamp = Digits(messages[m].time % Power(3), 3)
            /\ tags'[TagNo(m)].previous_tag_size =
                  Digits(IF TagNo(m) = 1 THEN 0 ELSE TagHeader + Len(tags'[TagNo(m) - 1].body), 4)
      /\ \A i \in 1 .. Len(tags') : Number(tags'[i].data_size) = Len(tags'[i].body)
  BY <1>4, <1>5 DEF Tagged, TagsAreMessages, TagHeaders
<1>7. CASE ~messages[k + 1].av
  <2>1. tags' = tags /\ AudioVideo(k + 1) = AudioVideo(k) /\ TagNo(k + 1) = TagNo(k)
    BY <1>6, <1>7, TagNoNext
  <2> QED
    BY <2>1, <1>1, <1>2
<1>8. CASE messages[k + 1].av
  <2>1. PICK e : e = EncodeTag(body, t)
    OBVIOUS
  <2>2. /\ e \in Tag /\ e.body = body /\ e.data_size = pack.data_size_
        /\ e.timestamp = Digits(t % Power(3), 3)
        /\ e.previous_tag_size =
              Digits(IF tags = <<>> THEN 0 ELSE CurrentTagSize(tags[Len(tags)]), 4)
    BY <2>1, EncodedIs
  <2>3. /\ tags' = Append(tags, e) /\ AudioVideo(k + 1) = AudioVideo(k) \cup {k + 1}
        /\ TagNo(k + 1) = TagNo(k) + 1
    BY <2>1, <1>6, <1>8, TagNoNext
  <2>4. /\ tags' \in Seq(Tag) /\ Len(tags') = Len(tags) + 1
        /\ \A i \in 1 .. Len(tags) : tags'[i] = tags[i]
        /\ tags'[Len(tags) + 1] = e
    BY <2>2, <2>3, <1>1, AppendedIs
  <2>5. ASSUME NEW m \in AudioVideo(k) PROVE tags'[TagNo(m)] = tags[TagNo(m)]
    BY <1>3, <2>4
  <2>6. tags'[TagNo(k + 1)] = e
    BY <2>3, <2>4, <1>2
  <2>7. e.data_size = Digits(messages[k + 1].size, 3)
    BY <2>2, <1>6
  <2>8. e.timestamp = Digits(messages[k + 1].time % Power(3), 3)
    <3>1. Time(Current) = messages[k + 1].time
      BY <1>1 DEF Time
    <3> QED
      BY <3>1, <2>2
  <2>9. e.previous_tag_size =
           Digits(IF TagNo(k + 1) = 1 THEN 0 ELSE TagHeader + Len(tags'[TagNo(k + 1) - 1].body), 4)
    <3>1. CASE tags = <<>>
      <4>1. Len(tags) = 0
        BY <3>1
      <4> QED
        BY <4>1, <3>1, <2>2, <2>3, <1>2
    <3>2. CASE tags # <<>>
      <4>1. Len(tags) \in 1 .. Len(tags)
        <5>1. ASSUME NEW s \in Seq(Tag), s # <<>> PROVE Len(s) \in 1 .. Len(s)
          BY <5>1
        <5> QED
          BY <5>1, <3>2, <1>1
      <4>2. TagNo(k + 1) # 1 /\ TagNo(k + 1) - 1 = Len(tags)
        BY <4>1, <2>3, <1>1, <1>2
      <4>3. CurrentTagSize(tags[Len(tags)]) = TagHeader + Len(tags[Len(tags)].body)
        BY <4>1, <1>2 DEF CurrentTagSize
      <4>4. tags'[TagNo(k + 1) - 1] = tags[Len(tags)]
        BY <4>1, <4>2, <2>4
      <4> QED
        BY <4>2, <4>3, <4>4, <3>2, <2>2
    <3> QED
      BY <3>1, <3>2
  <2>10. ASSUME NEW m \in AudioVideo(k)
         PROVE  TagNo(m) # 1 => tags'[TagNo(m) - 1] = tags[TagNo(m) - 1]
    <3>1. TagNo(m) # 1 => TagNo(m) - 1 \in 1 .. Len(tags)
      BY <1>1, <1>3
    <3> QED
      BY <3>1, <2>4
  <2>11. Number(e.data_size) = Len(e.body)
    <3>1. Size(Current) \in 0 .. Power(3) - 1 /\ Size(Current) = messages[k + 1].size
      BY <1>1, MessageTyped DEF Size
    <3>2. Number(Digits(messages[k + 1].size, 3)) = messages[k + 1].size
      BY <3>1, NumberOfDigits
    <3> QED
      BY <3>1, <3>2, <2>2, <2>7
  <2>12. ASSUME NEW i \in 1 .. Len(tags') PROVE Number(tags'[i].data_size) = Len(tags'[i].body)
    <3>1. i \in 1 .. Len(tags) \/ i = Len(tags) + 1
      BY <2>4, <1>1
    <3> QED
      BY <3>1, <2>4, <2>11, <1>2
  <2>13. \A m \in AudioVideo(k + 1) : tags'[TagNo(m)].body = BodyUnits(m, messages[m].size)
    <3>1. body = BodyUnits(k + 1, messages[k + 1].size)
      BY <1>1 DEF Size
    <3> QED
      BY <3>1, <2>2, <2>3, <2>5, <2>6, <1>2
  <2>14. ASSUME NEW m \in AudioVideo(k + 1)
         PROVE
            /\ tags'[TagNo(m)].data_size = Digits(messages[m].size, 3)
            /\ tags'[TagNo(m)].timestamp = Digits(messages[m].time % Power(3), 3)
            /\ tags'[TagNo(m)].previous_tag_size =
                  Digits(IF TagNo(m) = 1 THEN 0 ELSE TagHeader + Len(tags'[TagNo(m) - 1].body), 4)
    <3>1. CASE m = k + 1
      BY <3>1, <2>6, <2>7, <2>8, <2>9
    <3>2. CASE m \in AudioVideo(k)
      BY <3>2, <2>5, <2>10, <1>2
    <3> QED
      BY <3>1, <3>2, <2>3
  <2>15. Len(tags') = TagNo(k + 1)
    BY <2>3, <2>4, <1>2
  <2> QED
    BY <2>4, <2>12, <2>13, <2>14, <2>15
<1> QED
  BY <1>7, <1>8

(* The sum of timestamps after a message is the time of it.                *)
LEMMA SumIsTime ==
  ASSUME TypeOK, Packed, PackOf(Current), Current \in 1 .. Sent, Sent \in Nat
  PROVE  /\ AddTimeStamp(pack.timestamp_) = Time(Current) % Power(4)
         /\ AddTimeStamp(pack.timestamp_) \in 0 .. Power(4) - 1
         /\ AddTimeStamp(pack.timestamp_) % Power(3) = Time(Current) % Power(3)
         /\ Time(Current) \in Nat
<1>1. messages \in Seq(Message) /\ parsed \in Nat /\ Current = parsed + 1
  BY TypesUsed DEF Current
<1>2. Time(Current) \in Nat /\ Time(parsed) \in Nat
  <2>1. \A m \in 1 .. Sent : messages[m].time \in Nat
    BY <1>1, MessageTyped
  <2>2. Current # 0 /\ (parsed # 0 => parsed \in 1 .. Sent)
    BY <1>1
  <2> QED
    BY <2>1, <2>2 DEF Time
<1>3. Delta(Current) \in Nat /\ Delta(Current) \in 0 .. Power(3) - 1
  <2>1. Delta(Current) \in 0 .. Power(3) - 1
    BY ChunkAssumption DEF ChunkAssumption, Packed
  <2>2. Power(3) \in Nat
    BY PowerValues
  <2> QED
    BY <2>1, <2>2
<1>4. Time(Current) = Time(parsed) + Delta(Current)
  <2>1. Current - 1 = parsed /\ Current # 0
    BY <1>1
  <2>2. Delta(Current) = Time(Current) - Time(parsed)
    BY <2>1 DEF Delta, Time
  <2>3. ASSUME NEW x \in Nat, NEW y \in Nat, NEW d, d = x - y PROVE x = y + d
    BY <2>3
  <2> QED
    BY <2>2, <2>3, <1>2
<1>5. Number(pack.timestamp_) = Delta(Current)
  BY <1>3, NumberOfDigits DEF PackOf
<1>6. Power(4) \in Nat \ {0}
  BY PowerValues
<1>7. AddTimeStamp(pack.timestamp_) = ((Time(parsed) % Power(4)) + Delta(Current)) % Power(4)
  BY <1>5 DEF AddTimeStamp, Packed
<1>8. AddTimeStamp(pack.timestamp_) = Time(Current) % Power(4)
  BY <1>2, <1>3, <1>4, <1>6, <1>7, SumOfWrapped
<1>9. AddTimeStamp(pack.timestamp_) \in 0 .. Power(4) - 1
  BY <1>2, <1>6, <1>8, DivModExists
<1> QED
  BY <1>2, <1>8, <1>9, LowOfWrapped

LEMMA BodyCompleteKeeps ==
  ASSUME ChunkInv, BodyComplete
  PROVE  ChunkInv'
<1>1. TypeOK /\ Waits /\ Packed /\ Tagged
  BY DEF ChunkInv
<1>2. /\ InBody /\ pc = "parse" /\ parsed_status_ = "body" /\ chunk_over_ /\ Len(buffer) >= Remain
      /\ pack' = [pack EXCEPT !.got = <<>>] /\ Drop(Remain)
      /\ timestamp_' = AddTimeStamp(pack.timestamp_)
      /\ tags' = IF pack.av
                 THEN Append(tags, EncodeTag(pack.got \o Front(Remain), timestamp_'))
                 ELSE tags
      /\ parsed' = parsed + 1 /\ parsed_status_' = "header"
      /\ UNCHANGED <<read_chunk_size_, first, pc, due>>
      /\ UNCHANGED wire /\ UNCHANGED messages
  BY DEF BodyComplete, InBody, client_vars
<1>3. PICK f, o, c : \E q \in Nat : MidBody(f, o, c, q)
  BY <1>2, InBodyIs
<1>a. PICK q \in Nat : MidBody(f, o, c, q)
  BY <1>3
<1>4. /\ Stream(f, o, c) /\ Placed(f, o, c) /\ DueSoon(o, c) /\ Places(f, o, c)
      /\ parsed < Sent /\ InChunk(f, o, c, q) /\ Current \in 1 .. Sent
      /\ Sent \in 0 .. MaxMessages /\ Sent \in Nat /\ MaxMessages \in Nat
  <2>1. /\ Stream(f, o, c) /\ Placed(f, o, c) /\ DueSoon(o, c) /\ Places(f, o, c)
        /\ parsed < Sent /\ InChunk(f, o, c, q) /\ Current \in 1 .. Sent
    BY <1>a DEF MidBody
  <2>2. Sent \in 0 .. MaxMessages /\ MaxMessages \in Nat
    BY <2>1, ConstantsTyped DEF Places
  <2> QED
    BY <2>1, <2>2
<1>b. c \in Nat /\ Size(Current) \in Nat /\ Got < Size(Current) /\ Whole(q) \in Nat
  BY <1>a DEF MidBody
<1>5. /\ Len(buffer) \in Nat /\ Got \in Nat /\ parsed \in Nat /\ Received
      /\ pack \in Pack /\ messages \in Seq(Message)
  BY <1>1, TypesUsed
<1>6. /\ Remain = Size(Current) - Got /\ InLast(q) /\ c + Remain = o[Current + 1]
      /\ read_chunk_size_ = 0
  BY <1>1, <1>2, <1>4, EndsAhead DEF chunk_over_
<1>7. PICK n : n = Remain
  OBVIOUS
<1>8. /\ n \in 0 .. Len(buffer) /\ n \in Nat /\ Drop(n) /\ Got + n = Size(Current)
      /\ c + n = o[Current + 1]
  <2>1. n = Size(Current) - Got /\ c + n = o[Current + 1] /\ Drop(n) /\ Len(buffer) >= n
    BY <1>2, <1>6, <1>7
  <2>2. ASSUME NEW s \in Nat, NEW g \in Nat, g < s, n = s - g PROVE n \in Nat /\ g + n = s
    BY <2>2
  <2>3. n \in Nat /\ Got + n = Size(Current)
    BY <2>1, <2>2, <1>5, <1>b
  <2> QED
    BY <2>1, <2>3, <1>5
<1>9. Got + n <= Size(Current) /\ Got + n <= Whole(q) + Chunk
  BY <1>6, <1>8, <1>b DEF InLast
<1>10. PICK body : body = pack.got \o Front(n)
  OBVIOUS
<1>11. /\ body \in Seq(Unit) /\ Len(body) = Size(Current)
       /\ \A i \in 1 .. Size(Current) : body[i] = BodyUnit(Current, i)
  <2>1. /\ body \in Seq(Unit) /\ Len(body) = Got + n
        /\ \A i \in 1 .. Got + n : body[i] = BodyUnit(Current, i)
    BY <1>1, <1>2, <1>4, <1>8, <1>9, <1>10, BodyTaken
  <2> QED
    BY <2>1, <1>8
<1>12. body = BodyUnits(Current, Size(Current))
  <2>1. PICK s, m : s = Size(Current) /\ m = Current
    OBVIOUS
  <2>2. /\ BodyUnits(m, s) = [i \in 1 .. s |-> BodyUnits(m, s)[i]]
        /\ \A i \in 1 .. s : BodyUnits(m, s)[i] = BodyUnit(m, i)
    BY DEF BodyUnits, BodyUnit
  <2>3. s \in Nat /\ Len(body) = s /\ \A i \in 1 .. s : body[i] = BodyUnit(m, i)
    BY <2>1, <1>11, <1>b
  <2>4. \A i \in 1 .. s : body[i] = BodyUnits(m, s)[i]
    BY <2>2, <2>3
  <2>5. body = BodyUnits(m, s)
    BY <2>2, <2>3, <2>4, <1>11, SameElements
  <2> QED
    BY <2>1, <2>5
<1>13. PackOf(Current)
  BY <1>1, <1>2 DEF Packed, Inside
<1>14. PICK t : t = AddTimeStamp(pack.timestamp_)
  OBVIOUS
<1>15. /\ t = Time(Current) % Power(4) /\ t \in 0 .. Power(4) - 1 /\ t \in Nat
       /\ t % Power(3) = Time(Current) % Power(3)
  <2>1. /\ t = Time(Current) % Power(4) /\ t \in 0 .. Power(4) - 1
        /\ t % Power(3) = Time(Current) % Power(3)
    BY <1>1, <1>4, <1>13, <1>14, SumIsTime
  <2>2. Power(4) \in Nat
    BY PowerValues
  <2> QED
    BY <2>1, <2>2
<1>16. PICK k \in Nat : k = parsed
  BY <1>5
<1>17. tags' \in Seq(Tag) /\ Tagged'
  <2>1. tags' = IF pack.av THEN Append(tags, EncodeTag(body, t)) ELSE tags
    BY <1>2, <1>7, <1>10, <1>14
  <2>2. parsed' = k + 1
    BY <1>2, <1>16
  <2> QED
    BY <2>1, <2>2, <1>1, <1>2, <1>4, <1>11, <1>12, <1>13, <1>15, <1>16, TaggedNext
<1>18. Stream(f, o, c + n)'
  BY <1>2, <1>4, <1>5, <1>8, StreamDrop
<1>19. Received' /\ Len(buffer') = Len(buffer) - n
  BY <1>2, <1>5, <1>8, DropMovesUpcoming
<1>20. /\ pack' \in Pack /\ pack'.got = <<>> /\ pack'.data_size_ = pack.data_size_
       /\ pack'.av = pack.av /\ pack'.timestamp_ = pack.timestamp_
  <2>a. <<>> \in Seq(Unit)
    OBVIOUS
  <2>1. PICK e \in Seq(Unit) : e = <<>>
    BY <2>a, Zenon
  <2>2. pack' = [pack EXCEPT !.got = e]
    BY <2>1, <1>2
  <2> QED
    BY <2>1, <2>2, <1>5 DEF Pack
<1>21. /\ Got' = 0 /\ ~Inside' /\ Sent' = Sent /\ parsed' = Current
       /\ parsed' \in 0 .. MaxMessages
  <2>1. Got' = 0 /\ ~Inside' /\ Sent' = Sent /\ parsed' = Current
    BY <1>2, <1>20 DEF Got, Inside, Sent, Current
  <2> QED
    BY <2>1, <1>4
<1>22. TypeOK'
  <2>1. Number(pack.data_size_) \in Nat
    BY <1>5, NumberTyped DEF Pack
  <2>2. Len(pack'.got) <= Number(pack'.data_size_)
    BY <2>1, <1>20
  <2> QED
    BY <2>2, <1>1, <1>2, <1>14, <1>15, <1>17, <1>19, <1>20, <1>21 DEF TypeOK, Received
<1>23. Waits'
  BY <1>1, <1>2, <1>5, <1>8, <1>19, ConstantsTyped DEF Waits, ReadHasRoom
<1>24. Packed'
  <2>1. \A m : m = Current => PackOf(m)'
    BY <1>2, <1>13, <1>20 DEF PackOf, Size, Delta, Time
  <2>2. PackOf(parsed)'
    BY <2>1, <1>21
  <2>3. timestamp_' = Time(parsed)' % Power(4)
    <3>1. Time(parsed)' = Time(Current)
      BY <1>2, <1>21 DEF Time
    <3> QED
      BY <3>1, <1>2, <1>14, <1>15
  <2>4. \A m \in 1 .. Sent' : Delta(m)' \in Deltas
    BY <1>1, <1>2, <1>21 DEF Packed, Delta, Time
  <2>5. \A i \in 1 .. Got' : pack'.got[i] = BodyUnit(Current', i)
    BY <1>21
  <2> QED
    BY <2>2, <2>3, <2>4, <2>5, <1>21 DEF Packed
<1>25. Placed(f, o, c + n)'
  <2>1. Current' = Current + 1
    BY <1>21 DEF Current
  <2>2. c + n = o[Current'] /\ parsed' <= Sent' /\ read_chunk_size_' = 0
    BY <2>1, <1>2, <1>4, <1>6, <1>8, <1>21
  <2> QED
    BY <2>2, <1>2, <1>21 DEF Placed
<1>26. DueSoon(o, c + n)'
  <2>1. PICK p : p = parsed'
    OBVIOUS
  <2>2. p \in Nat /\ parsed <= p
    BY <2>1, <1>2, <1>5
  <2> QED
    BY <2>1, <2>2, <1>1, <1>2, <1>4, <1>8, DueKept
<1> QED
  BY <1>17, <1>18, <1>22, <1>23, <1>24, <1>25, <1>26 DEF ChunkInv, Followed

-----------------------------------------------------------------------------
(* The initial states, and any step.                                       *)

LEMMA FirstUnitsTyped ==
  /\ FirstUnits \in Seq(Unit) /\ Len(FirstUnits) = FirstLength
  /\ \A i \in 1 .. FirstLength : FirstUnits[i].of = 0
<1>1. FirstLength \in Nat /\ 0 \in 0 .. MaxMessages
  BY ConstantsTyped
<1>2. FirstUnits \in [1 .. FirstLength -> Unit]
  BY <1>1 DEF FirstUnits, Unit
<1>3. \A i \in 1 .. FirstLength : FirstUnits[i].of = 0
  BY DEF FirstUnits
<1> QED
  BY <1>1, <1>2, <1>3, FunctionIsSeq

LEMMA InitTyped ==
  ASSUME Init
  PROVE  TypeOK
<1>1. MaxMessages \in Nat /\ Chunk \in Nat \ {0} /\ Base \in Nat \ {0, 1} /\ Power(4) \in Nat \ {0}
      /\ Power(2) \in Nat
  BY ConstantsTyped, PowerValues
<1>2. PICK d : d = <<0, 0, 0>>
  OBVIOUS
<1>3. d \in [1 .. 3 -> Digit] /\ d[1] = 0 /\ d[2] = 0 /\ d[3] = 0
  <2>1. 0 \in Digit
    BY <1>1 DEF Digit
  <2> QED
    BY <2>1, <1>2
<1>4. Number(d) = 0
  BY <1>1, <1>3 DEF Number
<1>5. pack = [timestamp_ |-> d, data_size_ |-> d, av |-> FALSE, got |-> <<>>]
  BY <1>2 DEF Init
<1>6. pack \in Pack /\ pack.data_size_ = d /\ Len(pack.got) = 0
  <2>1. <<>> \in Seq(Unit) /\ Len(<<>>) = 0
    OBVIOUS
  <2> QED
    BY <2>1, <1>3, <1>5 DEF Pack
<1>7. Len(pack.got) <= Number(pack.data_size_)
  BY <1>4, <1>6
<1>8. /\ timestamp_ \in 0 .. Power(4) - 1 /\ read_chunk_size_ \in 0 .. Chunk - 1
      /\ parsed \in 0 .. MaxMessages /\ due \in 0 .. MaxMessages
  BY <1>1 DEF Init
<1>9. tags \in Seq(Tag) /\ buffer \in Seq(Unit) /\ wire \in Seq(Unit) /\ messages \in Seq(Message)
  BY FirstUnitsTyped DEF Init
<1> QED
  BY <1>6, <1>7, <1>8, <1>9 DEF Init, TypeOK

LEMMA InitHolds ==
  ASSUME Init
  PROVE  ChunkInv
<1>1. TypeOK
  BY InitTyped
<1>2. /\ parsed_status_ = "first_header" /\ pack.got = <<>> /\ read_chunk_size_ = 0
      /\ timestamp_ = 0 /\ first = <<>> /\ tags = <<>> /\ parsed = 0 /\ due = 0
      /\ buffer = <<>> /\ pc = "wait" /\ messages = <<>> /\ wire = FirstUnits
  BY DEF Init
<1>3. Sent = 0 /\ Len(buffer) = 0 /\ Got = 0 /\ Len(tags) = 0 /\ ~Inside
  BY <1>2 DEF Sent, Got, Inside
<1>4. MaxMessages \in Nat /\ FirstLength \in Nat \ {0} /\ Capacity \in Nat \ {0}
      /\ Power(4) \in Nat \ {0}
  BY ConstantsTyped, PowerValues
<1>5. Waits
  BY <1>2, <1>3, <1>4 DEF Waits, ReadHasRoom
<1>6. Packed
  <2>1. Time(parsed) = 0 /\ 0 % Power(4) = 0
    BY <1>2, <1>4 DEF Time
  <2> QED
    BY <2>1, <1>2, <1>3 DEF Packed
<1>7. Tagged
  <2>1. AudioVideo(parsed) = {} /\ TagNo(parsed) = 0
    <3>1. AudioVideo(parsed) = {}
      BY <1>2 DEF AudioVideo
    <3> QED
      BY <3>1, FS_EmptySet DEF TagNo
  <2> QED
    BY <2>1, <1>3 DEF Tagged, TagsAreMessages, TagHeaders
<1>8. Followed
  <2>1. PICK f, o : /\ f = [m \in 1 .. MaxMessages |-> "fmt0"]
                    /\ o = [m \in 1 .. MaxMessages + 1 |-> FirstLength]
    OBVIOUS
  <2>2. /\ f \in [1 .. MaxMessages -> Formats] /\ o \in [1 .. MaxMessages + 1 -> Nat]
        /\ o[1] = FirstLength
    BY <2>1, <1>4 DEF Formats
  <2>3. Total = FirstLength
    BY <1>2, <1>3, <1>4, FirstUnitsTyped DEF Total
  <2>4. Places(f, o, 0)
    BY <2>2, <2>3, <1>3, <1>4 DEF Places
  <2>5. \A i \in 1 .. FirstLength : Upcoming(i) = FirstUnits[i]
    BY <1>2, <1>3 DEF Upcoming, InTwo
  <2>6. FirstUpcoming(0)
    BY <2>5 DEF FirstUpcoming
  <2>7. MessagesUpcoming(f, o, 0) /\ LeftOut(f)
    BY <1>3 DEF MessagesUpcoming, LeftOut
  <2>8. NoneEarlier(o, 0)
    BY <2>3, <2>5, FirstUnitsTyped DEF NoneEarlier
  <2>9. Placed(f, o, 0)
    BY <1>2, <1>3 DEF Placed
  <2>10. DueSoon(o, 0)
    BY <1>2, <1>3 DEF DueSoon, DeliveredByNextRead
  <2> QED
    BY <2>4, <2>6, <2>7, <2>8, <2>9, <2>10 DEF Followed, Stream
<1> QED
  BY <1>1, <1>5, <1>6, <1>7, <1>8 DEF ChunkInv

LEMMA StutterKeeps ==
  ASSUME ChunkInv, UNCHANGED vars
  PROVE  ChunkInv'
<1>1. TypeOK /\ Waits /\ Packed /\ Tagged
  BY DEF ChunkInv
<1>2. PICK f, o, c : Stream(f, o, c) /\ Placed(f, o, c) /\ DueSoon(o, c)
  BY DEF ChunkInv, Followed
<1>3. /\ UNCHANGED <<parsed_status_, pack, timestamp_, read_chunk_size_, first, tags, parsed>>
      /\ UNCHANGED <<buffer, wire, messages>> /\ UNCHANGED <<pc, due>>
  BY DEF vars, parser_vars, client_vars
<1>4. Stream(f, o, c)'
  BY <1>2, <1>3, StreamKept
<1>5. Placed(f, o, c)' /\ Packed' /\ Tagged'
  BY <1>1, <1>2, <1>3, PositionKept
<1>6. TypeOK' /\ Waits' /\ DueSoon(o, c)'
  BY <1>1, <1>2, <1>3 DEF TypeOK, Waits, ReadHasRoom, DueSoon, DeliveredByNextRead, Sent
<1> QED
  BY <1>4, <1>5, <1>6 DEF ChunkInv, Followed

LEMMA StepKeeps ==
  ASSUME ChunkInv, [Next]_vars
  PROVE  ChunkInv'
<1>1. ASSUME NEW size \in Sizes, NEW av \in BOOLEAN, NEW delta \in Deltas,
             NEW format \in Formats, ClientSends(size, av, delta, format)
      PROVE  ChunkInv'
  BY <1>1, ClientSendsKeeps
<1>2. CASE Reads
  BY <1>2, ReadKeeps DEF Reads
<1>3. CASE ParseData
  BY <1>3, FirstHeaderShortKeeps, ParseFirstHeaderKeeps, HeaderShortKeeps, ParseHeaderKeeps,
     BodyShortKeeps, BodyCompleteKeeps, ChunkShortKeeps, ChunkCompleteKeeps DEF ParseData
<1>4. CASE UNCHANGED vars
  BY <1>4, StutterKeeps
<1> QED
  BY <1>1, <1>2, <1>3, <1>4, Zenon DEF Next

LEMMA ChunkInvariant == Spec => []ChunkInv
<1>1. Init => ChunkInv
  BY InitHolds
<1>2. ChunkInv /\ [Next]_vars => ChunkInv'
  BY StepKeeps
<1> QED
  BY <1>1, <1>2, PTL DEF Spec

-----------------------------------------------------------------------------
(* What RtmpManager keeps of a publisher's stream is of its type: the body *)
(* never outgrows the size in its header, the chunk read so far stays      *)
(* below RTMP_CHUNK_SIZE and the sum of timestamps within four bytes.      *)
THEOREM ChunkTypeCorrect == Spec => []TypeOK
<1>1. ChunkInv => TypeOK
  BY DEF ChunkInv
<1> QED
  BY <1>1, ChunkInvariant, PTL

(* The tags RtmpManager::ParseData gives away are the bodies of the        *)
(* client's audio and video messages, in order, whole, and free of chunk   *)
(* headers, for any length of chunks and messages and any reads.           *)
THEOREM TagsAreTheMessages == Spec => []TagsAreMessages
<1>1. ChunkInv => TagsAreMessages
  BY DEF ChunkInv, Tagged
<1> QED
  BY <1>1, ChunkInvariant, PTL

(* EncodeHeaderToFlvTag gives each tag the size and the time of its        *)
(* message and the size of the tag before it, however the header said so.  *)
THEOREM TagHeadersCorrect == Spec => []TagHeaders
<1>1. ChunkInv => TagHeaders
  BY DEF ChunkInv, Tagged
<1> QED
  BY <1>1, ChunkInvariant, PTL

(* ParseData never leaves recv_buffer_ full, so that no read of length 0   *)
(* is taken for the end of the connection.                                 *)
THEOREM ReadAlwaysHasRoom == Spec => []ReadHasRoom
<1>1. ChunkInv => ReadHasRoom
  BY DEF ChunkInv, Waits
<1> QED
  BY <1>1, ChunkInvariant, PTL

(* A message that ParseData leaves in the buffer because a chunk ended is  *)
(* given away when it is called for the next read.                         *)
THEOREM DeliveryByNextRead == Spec => []DeliveredByNextRead
<1>1. ChunkInv => DeliveredByNextRead
  BY DEF ChunkInv, Followed, DueSoon
<1> QED
  BY <1>1, ChunkInvariant, PTL
=============================================================================
