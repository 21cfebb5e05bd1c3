-------------------------- MODULE HandshakeProofs --------------------------
(***************************************************************************)
(* Proofs about Handshake for messages of any number of pieces, any cut of *)
(* the stream into reads and any answers of the authentication callback.   *)
(***************************************************************************)
EXTENDS Handshake, SequenceTheorems, TLAPS

-----------------------------------------------------------------------------
(* The stream in two parts, the buffer and the wire.                       *)

(* A queue cut in two is the two parts in a row.                           *)
LEMMA CutInTwo ==
  ASSUME NEW S, NEW s \in Seq(S), NEW k \in 0 .. Len(s)
  PROVE  /\ SubSeq(s, 1, k) \in Seq(S)
         /\ SubSeq(s, k + 1, Len(s)) \in Seq(S)
         /\ Len(SubSeq(s, k + 1, Len(s))) = Len(s) - k
         /\ SubSeq(s, 1, k) \o SubSeq(s, k + 1, Len(s)) = s
<1>1. Len(s) \in Nat /\ \A i \in 1 .. Len(s) : s[i] \in S
  BY LenProperties, ElementOfSeq
<1>2. /\ SubSeq(s, 1, k) \in Seq(S)
      /\ SubSeq(s, k + 1, Len(s)) \in Seq(S)
      /\ Len(SubSeq(s, k + 1, Len(s))) = Len(s) - k
  BY <1>1, SubSeqProperties
<1>3. SubSeq(s, 1, k) \o SubSeq(s, k + 1, Len(s)) = SubSeq(s, 1, Len(s))
  <2>1. 1 \in 1 .. Len(s) + 1 /\ k \in 1 - 1 .. Len(s) /\ Len(s) \in k .. Len(s)
    BY <1>1
  <2> QED
    BY <2>1, ConcatAdjacentSubSeq
<1> QED
  BY <1>2, <1>3, SubSeqFull

(* Moving the front of the second part of a queue to the end of the first. *)
LEMMA MoveFront ==
  ASSUME NEW S, NEW s \in Seq(S), NEW t \in Seq(S), NEW k \in 0 .. Len(t)
  PROVE  /\ s \o SubSeq(t, 1, k) \in Seq(S) /\ SubSeq(t, k + 1, Len(t)) \in Seq(S)
         /\ (s \o SubSeq(t, 1, k)) \o SubSeq(t, k + 1, Len(t)) = s \o t
<1>1. ASSUME NEW x \in Seq(S), NEW y \in Seq(S), x \o y = t
      PROVE  s \o x \in Seq(S) /\ (s \o x) \o y = s \o t
  <2>1. s \o x \in Seq(S)
    BY ConcatProperties
  <2>2. (s \o x) \o y = s \o (x \o y)
    BY ConcatAssociative
  <2> QED
    BY <2>1, <2>2, <1>1
<1>2. /\ SubSeq(t, 1, k) \in Seq(S)
      /\ SubSeq(t, k + 1, Len(t)) \in Seq(S)
      /\ SubSeq(t, 1, k) \o SubSeq(t, k + 1, Len(t)) = t
  BY CutInTwo
<1>3. QED
  BY <1>1, <1>2

-----------------------------------------------------------------------------
(* Which message and which piece of it a position of the stream is.        *)

(* Piece r (from 0) of the message q (from 0) of a stream of messages.     *)
Position(q, r) == Pieces * q + r + 1

LEMMA PieceOf ==
  ASSUME NEW k \in Nat, NEW r \in 0 .. Pieces - 1
  PROVE  (Pieces * k + r) \div Pieces = k /\ (Pieces * k + r) % Pieces = r
<1>1. Pieces \in Nat \ {0}
  BY HandshakeAssumption
<1>2. (Pieces * k + r) \div Pieces = k
  BY <1>1
<1>3. (Pieces * k + r) % Pieces = r
  BY <1>1
<1> QED
  BY <1>2, <1>3

LEMMA PositionOf ==
  ASSUME NEW k \in Nat, NEW a \in 1 .. Pieces * k
  PROVE  \E q \in 0 .. k - 1, r \in 0 .. Pieces - 1 : a = Position(q, r)
<1>1. Pieces \in Nat \ {0}
  BY HandshakeAssumption
<1> DEFINE q == (a - 1) \div Pieces
           r == (a - 1) % Pieces
<1>2. q \in Int /\ r \in 0 .. Pieces - 1
  BY <1>1
<1>3. a - 1 = Pieces * q + r
  BY <1>1
<1> HIDE DEF q, r
<1>4. q >= 0
  <2>1. q <= -1 => Pieces * q <= - Pieces
    BY <1>1, <1>2
  <2> QED
    BY <1>1, <1>2, <1>3, <2>1
<1>5. q <= k - 1
  <2>1. q >= k => Pieces * q >= Pieces * k
    BY <1>1, <1>2
  <2> QED
    BY <1>1, <1>2, <1>3, <2>1
<1>6. Pieces * q \in Int
  BY <1>1, <1>2
<1>7. a = Position(q, r)
  BY <1>2, <1>3, <1>6 DEF Position
<1> QED
  BY <1>2, <1>4, <1>5, <1>7

(* What Units is, without division.                                        *)
LEMMA UnitsAt ==
  ASSUME NEW m \in Int, NEW n \in Int, m <= n + 1
  PROVE  /\ DOMAIN Units(m, n) = 1 .. Pieces * (n - m + 1)
         /\ Pieces * (n - m + 1) \in Nat
         /\ \A q \in 0 .. n - m, r \in 0 .. Pieces - 1 :
               /\ Position(q, r) \in 1 .. Pieces * (n - m + 1)
               /\ Units(m, n)[Position(q, r)] = <<m + q, 1 + r>>
<1>1. Pieces \in Nat \ {0} /\ n - m + 1 \in Nat
  BY HandshakeAssumption
<1>2. Pieces * (n - m + 1) \in Nat
  BY <1>1
<1>3. ASSUME NEW q \in 0 .. n - m, NEW r \in 0 .. Pieces - 1
      PROVE  /\ Pieces * q + r + 1 \in 1 .. Pieces * (n - m + 1)
             /\ Units(m, n)[Pieces * q + r + 1] = <<m + q, 1 + r>>
  <2>1. Pieces * q \in Nat
    BY <1>1
  <2>2. Pieces * q + Pieces <= Pieces * (n - m + 1)
    BY <1>1
  <2>3. Pieces * q + r + 1 \in 1 .. Pieces * (n - m + 1)
    BY <1>1, <1>2, <2>1, <2>2
  <2>4. (Pieces * q + r + 1) - 1 = Pieces * q + r
    BY <2>1
  <2> QED
    BY <2>3, <2>4, PieceOf DEF Units
<1> QED
  BY <1>2, <1>3 DEF Units, Position

LEMMA UnitAt ==
  ASSUME NEW m \in Int, NEW n \in Int, NEW q \in Nat, NEW r \in Nat,
         q <= n - m, r < Pieces
  PROVE  Units(m, n)[Position(q, r)] = <<m + q, 1 + r>>
<1>1. q \in 0 .. n - m /\ r \in 0 .. Pieces - 1 /\ m <= n + 1
  BY HandshakeAssumption
<1> QED
  BY <1>1, UnitsAt

LEMMA UnitsType ==
  ASSUME NEW m \in Messages, NEW n \in 0 .. Stream, m <= n + 1
  PROVE  Units(m, n) \in Seq(Unit) /\ Len(Units(m, n)) = Pieces * (n - m + 1)
<1>1. m \in Int /\ n \in Int /\ n - m + 1 \in Nat
  BY DEF Messages, C01, Stream
<1>2. ASSUME NEW i \in 1 .. Pieces * (n - m + 1) PROVE Units(m, n)[i] \in Unit
  <2>1. Pieces * (n - m + 1) \in Nat
    BY <1>1, UnitsAt
  <2>2. PICK q \in 0 .. (n - m + 1) - 1, r \in 0 .. Pieces - 1 : i = Position(q, r)
    BY <1>1, PositionOf
  <2>3. q \in 0 .. n - m /\ Pieces \in Nat
    BY <1>1, HandshakeAssumption
  <2>5. Units(m, n)[i] = <<m + q, 1 + r>>
    BY <1>1, <2>2, <2>3, UnitsAt
  <2>6. m + q \in Messages /\ 1 + r \in 1 .. Pieces
    BY <1>1, <2>3 DEF Messages, C01, Stream
  <2> QED
    BY <2>5, <2>6 DEF Unit
<1>3. Pieces * (n - m + 1) \in Nat /\ DOMAIN Units(m, n) = 1 .. Pieces * (n - m + 1)
  BY <1>1, UnitsAt
<1>4. Units(m, n) = [i \in 1 .. Pieces * (n - m + 1) |-> Units(m, n)[i]]
  BY DEF Units
<1> HIDE DEF Units
<1>5. Units(m, n) \in Seq(Unit)
  BY <1>2, <1>3, <1>4, IsASeq
<1> QED
  BY <1>3, <1>5, LenProperties

(* The next message of the client follows those sent.                      *)
LEMMA UnitsNext ==
  ASSUME NEW m \in Messages, NEW n \in 0 .. Stream - 1, m <= n + 1,
         NEW next \in Messages, next = n + 1
  PROVE  Units(m, n) \o Units(next, next) = Units(m, next)
<1>1. /\ m \in Int /\ n \in Int /\ n - m + 1 \in Nat /\ next \in Int
      /\ n \in 0 .. Stream /\ next \in 0 .. Stream /\ m <= next
      /\ m <= next + 1 /\ next <= next + 1
      /\ Pieces \in Nat \ {0}
  BY HandshakeAssumption DEF Messages, C01, Stream
<1> DEFINE s == Units(m, n)
           t == Units(next, next)
           u == Units(m, next)
           k == n - m + 1
<1>2. s \in Seq(Unit) /\ Len(s) = Pieces * k
  BY <1>1, UnitsType
<1>3. t \in Seq(Unit) /\ Len(t) = Pieces
  <2>1. Pieces * (next - next + 1) = Pieces
    BY <1>1
  <2>2. Units(next, next) \in Seq(Unit)
        /\ Len(Units(next, next)) = Pieces * (next - next + 1)
    BY <1>1, UnitsType
  <2> QED
    BY <2>1, <2>2
<1>4. u \in Seq(Unit) /\ Len(u) = Pieces * k + Pieces
  <2>1. Pieces * (next - m + 1) = Pieces * k + Pieces
    BY <1>1
  <2>2. u \in Seq(Unit) /\ Len(u) = Pieces * (next - m + 1)
    BY <1>1, UnitsType
  <2> QED
    BY <2>1, <2>2
<1>5. ASSUME NEW q \in 0 .. k - 1, NEW r \in 0 .. Pieces - 1
      PROVE  u[Position(q, r)] = s[Position(q, r)]
  <2>1. q \in Nat /\ r \in Nat /\ q <= n - m /\ q <= next - m /\ r < Pieces
    BY <1>1
  <2>2. s[Position(q, r)] = <<m + q, 1 + r>>
    BY <1>1, <2>1, UnitAt
  <2>3. u[Position(q, r)] = <<m + q, 1 + r>>
    BY <1>1, <2>1, UnitAt
  <2> QED
    BY <2>2, <2>3
<1>6. ASSUME NEW r \in 0 .. Pieces - 1
      PROVE  u[Position(k, r)] = t[r + 1]
  <2>1. k \in Nat /\ 0 \in Nat /\ r \in Nat /\ k <= next - m /\ 0 <= next - next /\ r < Pieces
    BY <1>1
  <2>2. u[Position(k, r)] = <<m + k, 1 + r>>
    BY <1>1, <2>1, UnitAt
  <2>3. t[Position(0, r)] = <<next + 0, 1 + r>>
    BY <1>1, <2>1, UnitAt
  <2>4. Position(0, r) = r + 1 /\ next + 0 = m + k
    BY <1>1 DEF Position
  <2> QED
    BY <2>2, <2>3, <2>4
<1>7. k \in Nat /\ Pieces * k \in Nat
  BY <1>1
<1> HIDE DEF s, t, u, k
<1>8. /\ s \o t \in Seq(Unit) /\ Len(s \o t) = Len(s) + Len(t)
      /\ \A i \in 1 .. Len(s) + Len(t) :
            (s \o t)[i] = IF i <= Len(s) THEN s[i] ELSE t[i - Len(s)]
  BY <1>2, <1>3, ConcatProperties
<1>9. ASSUME NEW i \in 1 .. Pieces * k + Pieces PROVE (s \o t)[i] = u[i]
  <2>. i \in 1 .. Len(s) + Len(t) /\ Len(s) = Pieces * k
    BY <1>2, <1>3
  <2>1. CASE i <= Pieces * k
    <3>1. i \in 1 .. Pieces * k
      BY <1>7, <2>1
    <3>2. PICK q \in 0 .. k - 1, r \in 0 .. Pieces - 1 : i = Position(q, r)
      BY <1>7, <3>1, PositionOf
    <3> QED
      BY <1>5, <1>8, <2>1, <3>2
  <2>2. CASE ~(i <= Pieces * k)
    <3>1. i - Pieces * k - 1 \in 0 .. Pieces - 1
      BY <1>1, <1>7, <2>2
    <3>2. PICK r \in 0 .. Pieces - 1 : i = Position(k, r) /\ i - Pieces * k = r + 1
      BY <1>1, <1>7, <3>1 DEF Position
    <3> QED
      BY <1>6, <1>8, <2>2, <3>2
  <2> QED
    BY <2>1, <2>2
<1>10. s \o t = u
  <2>1. Len(s \o t) = Len(u) /\ Len(u) = Pieces * k + Pieces
    BY <1>2, <1>3, <1>4, <1>8
  <2> QED
    BY <1>4, <1>8, <1>9, <2>1, SeqEqual
<1> QED
  BY <1>10 DEF s, t, u

(* Behind the first message is what the second begins.                     *)
LEMMA UnitsDrop ==
  ASSUME NEW m \in Messages, NEW n \in 0 .. Stream, m <= n, NEW next \in Int, next = m + 1,
         NEW s \in Seq(Unit), NEW t \in Seq(Unit), Pieces <= Len(s), s \o t = Units(m, n)
  PROVE  SubSeq(s, Pieces + 1, Len(s)) \o t = Units(next, n)
<1>1. /\ m \in Int /\ n \in Int /\ n - m \in Nat /\ next <= n + 1 /\ m <= n + 1
      /\ Pieces \in Nat \ {0} /\ Pieces \in 0 .. Len(s) /\ Len(s) \in Nat /\ Len(t) \in Nat
  BY HandshakeAssumption, LenProperties DEF Messages, C01, Stream
<1> DEFINE rest == SubSeq(s, Pieces + 1, Len(s))
           u == Units(next, n)
           k == n - m
<1>2. rest \in Seq(Unit) /\ Len(rest) = Len(s) - Pieces
  BY <1>1, CutInTwo
<1>3. \A i \in 1 .. Len(s) - Pieces : rest[i] = s[Pieces + i]
  BY <1>1, SubSeqProperties
<1>4. Len(s) + Len(t) = Pieces * k + Pieces
  <2>1. Len(s \o t) = Len(s) + Len(t)
    BY ConcatProperties
  <2>2. Len(Units(m, n)) = Pieces * (n - m + 1)
    BY <1>1, UnitsType
  <2>3. Pieces * (n - m + 1) = Pieces * k + Pieces
    BY <1>1
  <2> QED
    BY <2>1, <2>2, <2>3
<1>5. ASSUME NEW q \in 0 .. k - 1, NEW r \in 0 .. Pieces - 1
      PROVE  u[Position(q, r)] = (s \o t)[Position(q, r) + Pieces]
  <2>1. PICK after \in Nat :
           /\ after = q + 1 /\ after <= n - m /\ q <= n - next
           /\ q \in Nat /\ r \in Nat /\ r < Pieces
    BY <1>1
  <2>2. u[Position(q, r)] = <<next + q, 1 + r>>
    BY <1>1, <2>1, UnitAt
  <2>3. Units(m, n)[Position(after, r)] = <<m + after, 1 + r>>
    BY <1>1, <2>1, UnitAt
  <2>4. Position(after, r) = Position(q, r) + Pieces /\ m + after = next + q
    BY <1>1, <2>1 DEF Position
  <2> QED
    BY <2>2, <2>3, <2>4
<1>6. DOMAIN u = 1 .. Pieces * k /\ Pieces * k \in Nat /\ k \in Nat
  <2>1. n - next + 1 = k
    BY <1>1
  <2> QED
    BY <1>1, <2>1, UnitsAt
<1> HIDE DEF u, k, rest
<1>7. /\ rest \o t \in Seq(Unit) /\ Len(rest \o t) = Pieces * k
      /\ \A i \in 1 .. Pieces * k :
            (rest \o t)[i] = IF i <= Len(rest) THEN rest[i] ELSE t[i - Len(rest)]
  <2>1. Len(rest) + Len(t) = Pieces * k
    BY <1>1, <1>2, <1>4, <1>6
  <2> QED
    BY <1>2, <2>1, ConcatProperties
<1>8. ASSUME NEW i \in 1 .. Pieces * k, NEW j \in Int, j = i + Pieces
      PROVE  (rest \o t)[i] = (s \o t)[j]
  <2>1. j \in 1 .. Len(s) + Len(t)
    BY <1>1, <1>4, <1>6, <1>8
  <2>2. (s \o t)[j] = IF j <= Len(s) THEN s[j] ELSE t[j - Len(s)]
    BY <2>1, ConcatProperties
  <2>3. CASE j <= Len(s)
    <3>1. i \in 1 .. Len(s) - Pieces /\ i <= Len(rest) /\ Pieces + i = j
      BY <1>1, <1>2, <1>6, <1>8, <2>3
    <3> QED
      BY <1>3, <1>7, <2>2, <2>3, <3>1
  <2>4. CASE ~(j <= Len(s))
    <3>1. ~(i <= Len(rest)) /\ i - Len(rest) = j - Len(s)
      BY <1>1, <1>2, <1>6, <1>8, <2>4
    <3> QED
      BY <1>7, <2>2, <2>4, <3>1
  <2> QED
    BY <2>3, <2>4
<1>9. ASSUME NEW i \in 1 .. Pieces * k PROVE (rest \o t)[i] = u[i]
  <2>1. PICK q \in 0 .. k - 1, r \in 0 .. Pieces - 1 : i = Position(q, r)
    BY <1>6, PositionOf
  <2>2. PICK j \in Int : j = i + Pieces
    BY <1>1, <1>6
  <2>3. u[Position(q, r)] = (s \o t)[Position(q, r) + Pieces]
    BY <1>5
  <2>4. (rest \o t)[i] = (s \o t)[j]
    BY <1>8, <2>2
  <2> QED
    BY <2>1, <2>2, <2>3, <2>4
<1>10. rest \o t = u
  <2>1. DOMAIN (rest \o t) = 1 .. Pieces * k
    BY <1>7, LenProperties
  <2>2. rest \o t = [i \in 1 .. Pieces * k |-> (rest \o t)[i]]
    BY <1>7, <2>1, LenProperties
  <2>3. u = [i \in 1 .. Pieces * k |-> u[i]]
    BY <1>6 DEF u, Units
  <2> QED
    BY <1>9, <2>2, <2>3
<1> QED
  BY <1>10 DEF u, rest

-----------------------------------------------------------------------------
(* The invariant.                                                          *)

(* How many answers are due when the message s is expected.                *)
Due(s) ==
    IF s = C01 THEN 0 ELSE IF s = C2 THEN 1 ELSE IF s <= Connect THEN 2
    ELSE IF s <= CreateStream THEN 3 ELSE IF s = Publish THEN 4 ELSE 5

(* What has been answered follows from the message expected next.          *)
Answering ==
    /\ Len(replies) <= Due(shake_hand_status_)
    /\ \A i \in DOMAIN replies : replies[i] = Answers[i]
    /\ connected => Len(replies) = Due(shake_hand_status_)

(* The callback is replaced once, when the handshake has succeeded, and    *)
(* the io thread is in the handler that is the callback.                   *)
Handling ==
    /\ callback = "body" <=> success = 1
    /\ success = 1 => shake_hand_status_ = SHAKE_SUCCESS
    /\ pc # "wait" => pc = callback
    /\ body # <<>> => success = 1

(* Every message before the one expected was sent.                         *)
InReach == ~Skipped => shake_hand_status_ <= sent + 1

HandshakeInv == Answering /\ Handling /\ InReach /\ InStep

USE DEF C01, C2, SetChunkSize, Connect, ReleaseStream, FCPublish, CreateStream, Publish,
        Stream, SHAKE_SUCCESS

LEMMA HandshakeInit == Init => TypeOK /\ HandshakeInv
<1> SUFFICES ASSUME Init PROVE TypeOK /\ HandshakeInv
  OBVIOUS
<1>1. <<>> \in Seq(Unit) /\ <<>> \in Seq(Answered)
  BY EmptySeq
<1>2. TypeOK
  BY <1>1 DEF Init, TypeOK
<1>3. Len(replies) = 0 /\ DOMAIN replies = {}
  BY DEF Init
<1>4. Answering /\ Handling /\ InReach
  BY <1>3 DEF Init, Answering, Handling, InReach, Due
<1>5. InStep
  <2>1. Units(1, 0) \in Seq(Unit) /\ Len(Units(1, 0)) = Pieces * (0 - 1 + 1)
    BY UnitsType DEF Messages
  <2>2. Pieces * (0 - 1 + 1) = 0
    BY HandshakeAssumption
  <2>3. Units(1, 0) = <<>>
    BY <2>1, <2>2, EmptySeq
  <2>4. (<<>> \o <<>>) \o <<>> = <<>>
    OBVIOUS
  <2> QED
    BY <2>3, <2>4 DEF Init, InStep
<1> QED
  BY <1>2, <1>4, <1>5 DEF HandshakeInv

(* The client.                                                             *)
LEMMA ClientSendsStep ==
  ASSUME TypeOK, HandshakeInv, ClientSends
  PROVE  TypeOK' /\ HandshakeInv'
<1>1. /\ sent \in 0 .. 8 /\ sent' = sent + 1
      /\ UNCHANGED <<shake_hand_status_, buffer, connected, callback, success, pc, replies,
                     body, form, patient>>
  BY DEF ClientSends, TypeOK, client_vars
<1>2. PICK next \in Messages : next = sent + 1
  BY <1>1 DEF Messages
<1>3. Units(next, next) \in Seq(Unit) /\ wire' = wire \o Units(next, next)
  <2>1. next \in 0 .. 9 /\ next <= next + 1
    BY DEF Messages
  <2>2. Units(next, next) \in Seq(Unit)
    BY <2>1, UnitsType
  <2> QED
    BY <1>2, <2>2 DEF ClientSends
<1>4. /\ buffer \in Seq(Unit) /\ wire \in Seq(Unit) /\ body \in Seq(Unit)
      /\ replies \in Seq(Answered) /\ shake_hand_status_ \in 1 .. 9
  BY DEF TypeOK
<1>5. TypeOK'
  <2>1. wire' \in Seq(Unit)
    BY <1>3, <1>4, ConcatProperties
  <2>2. sent' \in 0 .. 9
    BY <1>1
  <2> QED
    BY <1>1, <2>1, <2>2 DEF TypeOK
<1>6. Answering'
  BY <1>1 DEF HandshakeInv, Answering
<1>7. Handling' /\ InReach'
  BY <1>1, <1>4 DEF HandshakeInv, Handling, InReach, Skipped
<1>8. InStep'
  <2> SUFFICES ASSUME ~Skipped
               PROVE  (body \o buffer) \o wire' = Units(shake_hand_status_, next)
    BY <1>1, <1>2 DEF InStep, Skipped
  <2>1. body \o buffer \in Seq(Unit)
    BY <1>4, ConcatProperties
  <2>2. (body \o buffer) \o (wire \o Units(next, next)) = ((body \o buffer) \o wire) \o Units(next, next)
    <3>1. ASSUME NEW s \in Seq(Unit), NEW t \in Seq(Unit), NEW u \in Seq(Unit)
          PROVE  s \o (t \o u) = (s \o t) \o u
      BY ConcatAssociative
    <3> QED
      BY <1>3, <1>4, <2>1, <3>1
  <2>3. /\ (body \o buffer) \o wire = Units(shake_hand_status_, sent)
        /\ shake_hand_status_ <= sent + 1
    BY DEF HandshakeInv, InStep, InReach
  <2>4. shake_hand_status_ \in Messages
    BY <1>4 DEF Messages
  <2>5. Units(shake_hand_status_, sent) \o Units(next, next) = Units(shake_hand_status_, next)
    <3>1. ASSUME NEW m \in Messages, NEW n \in 0 .. Stream - 1, m <= n + 1, next = n + 1
          PROVE  Units(m, n) \o Units(next, next) = Units(m, next)
      BY <3>1, UnitsNext
    <3>2. sent \in 0 .. Stream - 1
      BY <1>1
    <3> QED
      BY <1>2, <2>3, <2>4, <3>1, <3>2
  <2> QED
    BY <1>3, <2>2, <2>3, <2>5
<1> QED
  BY <1>5, <1>6, <1>7, <1>8 DEF HandshakeInv

(* The stream cut into reads.                                              *)
LEMMA ReadStep ==
  ASSUME TypeOK, HandshakeInv, NEW n \in 1 .. Len(wire), Read(n)
  PROVE  TypeOK' /\ HandshakeInv'
<1>1. /\ buffer \in Seq(Unit) /\ wire \in Seq(Unit) /\ body \in Seq(Unit) /\ n \in 0 .. Len(wire)
  BY LenProperties DEF TypeOK
<1>2. /\ buffer' \in Seq(Unit) /\ wire' \in Seq(Unit)
      /\ buffer' \o wire' = buffer \o wire
  BY <1>1, MoveFront DEF Read
<1>3. /\ UNCHANGED <<shake_hand_status_, connected, callback, success, replies, body, form, patient,
                     sent>>
      /\ pc' = callback
  BY DEF Read, client_vars
<1>4. TypeOK'
  BY <1>2, <1>3 DEF TypeOK
<1>5. Answering' /\ Handling' /\ InReach'
  BY <1>3 DEF HandshakeInv, Answering, Handling, InReach, Skipped
<1>6. (body' \o buffer') \o wire' = (body \o buffer) \o wire
  <2> ASSUME NEW s \in Seq(Unit), NEW t \in Seq(Unit), NEW u \in Seq(Unit)
      PROVE  (s \o t) \o u = s \o (t \o u)
    BY ConcatAssociative
  <2>1. (body \o buffer') \o wire' = body \o (buffer' \o wire')
    BY <1>1, <1>2
  <2>2. (body \o buffer) \o wire = body \o (buffer \o wire)
    BY <1>1
  <2> QED
    BY <1>2, <1>3, <2>1, <2>2
<1>7. InStep'
  BY <1>3, <1>6 DEF HandshakeInv, InStep, Skipped
<1> QED
  BY <1>4, <1>5, <1>7 DEF HandshakeInv

(* A message that is told apart is taken as a whole.                       *)
LEMMA ConsumeInStep ==
  ASSUME TypeOK, HandshakeInv, Shaking, NEW n \in Parsed \ {0}, Consume(n),
         UNCHANGED <<body, wire, form, sent>>
  PROVE  /\ buffer' \in Seq(Unit)
         /\ shake_hand_status_' = shake_hand_status_ + 1 /\ shake_hand_status_ \in 1 .. 8
         /\ ~Skipped' => shake_hand_status_ <= sent
         /\ InStep'
<1>1. /\ buffer \in Seq(Unit) /\ wire \in Seq(Unit) /\ body \in Seq(Unit)
      /\ sent \in 0 .. Stream /\ Pieces \in Nat \ {0}
      /\ shake_hand_status_ \in 1 .. 8 /\ shake_hand_status_' = shake_hand_status_ + 1
  BY HandshakeAssumption DEF TypeOK, Shaking, Consume
<1>2. Len(buffer) \in Nat /\ n \in 0 .. Len(buffer) /\ buffer # <<>>
  <2>1. Len(buffer) \in Nat
    BY <1>1, LenProperties
  <2> QED
    BY <1>1, <2>1 DEF Parsed
<1>3. buffer' \in Seq(Unit)
  BY <1>1, <1>2, CutInTwo DEF Consume
<1>4. ASSUME ~Skipped'
      PROVE  /\ shake_hand_status_ <= sent
             /\ (body \o buffer') \o wire = Units(shake_hand_status_ + 1, sent)
  <2>1. ~Skipped /\ ~(shake_hand_status_ = CreateStream /\ form = "c3")
    BY <1>1, <1>4 DEF Skipped
  <2>2. /\ (body \o buffer) \o wire = Units(shake_hand_status_, sent)
        /\ shake_hand_status_ <= sent + 1
    BY <1>1, <2>1 DEF HandshakeInv, InStep, InReach
  <2>3. body = <<>>
    BY <1>1 DEF HandshakeInv, Handling
  <2>4. buffer \o wire = Units(shake_hand_status_, sent)
    BY <1>1, <2>2, <2>3
  <2>5. shake_hand_status_ \in Messages
    BY <1>1 DEF Messages
  <2>6. shake_hand_status_ <= sent
    <3>1. Len(buffer \o wire) = Len(buffer) + Len(wire) /\ Len(wire) \in Nat
      BY <1>1, ConcatProperties, LenProperties
    <3>2. Len(buffer) # 0
      BY <1>1, <1>2, EmptySeq
    <3>3. Len(Units(shake_hand_status_, sent)) = Pieces * (sent - shake_hand_status_ + 1)
      BY <1>1, <2>2, <2>5, UnitsType
    <3>4. sent - shake_hand_status_ + 1 = 0 => Pieces * (sent - shake_hand_status_ + 1) = 0
      BY <1>1
    <3> QED
      BY <1>1, <1>2, <2>2, <2>4, <3>1, <3>2, <3>3, <3>4
  <2>7. Head(buffer) = <<shake_hand_status_, 1>>
    <3>1. Units(shake_hand_status_, sent)[Position(0, 0)] = <<shake_hand_status_ + 0, 1 + 0>>
      BY <1>1, <2>6, UnitAt
    <3>2. Position(0, 0) = 1
      BY <1>1 DEF Position
    <3>3. (buffer \o wire)[1] = buffer[1] /\ Head(buffer) = buffer[1]
      BY <1>1, <1>2, ConcatProperties, LenProperties, EmptySeq
    <3> QED
      BY <1>1, <2>4, <3>1, <3>2, <3>3
  <2>8. n = Pieces /\ Pieces <= Len(buffer)
    BY <1>1, <1>2, <2>1, <2>7 DEF Parsed
  <2>9. buffer' \o wire = Units(shake_hand_status_ + 1, sent)
    <3>1. ASSUME NEW m \in Messages, NEW k \in 0 .. Stream, m <= k,
                 NEW s \in Seq(Unit), NEW t \in Seq(Unit), Pieces <= Len(s), s \o t = Units(m, k)
          PROVE  SubSeq(s, Pieces + 1, Len(s)) \o t = Units(m + 1, k)
      <4>1. PICK next \in Int : next = m + 1
        BY <1>1 DEF Messages
      <4>2. SubSeq(s, Pieces + 1, Len(s)) \o t = Units(next, k)
        BY <3>1, <4>1, UnitsDrop
      <4> QED
        BY <4>1, <4>2
    <3>2. buffer' = SubSeq(buffer, Pieces + 1, Len(buffer))
      BY <2>8 DEF Consume
    <3> QED
      BY <1>1, <2>4, <2>5, <2>6, <2>8, <3>1, <3>2
  <2>10. (body \o buffer') \o wire = buffer' \o wire
    BY <1>1, <1>3, <2>3
  <2> QED
    BY <2>6, <2>9, <2>10
<1> QED
  BY <1>1, <1>3, <1>4 DEF InStep

(* A message that has an answer is the next of Answers.                    *)
LEMMA AnswerNext ==
  ASSUME NEW m \in 1 .. 8
  PROVE  /\ Due(m) \in 0 .. 4 /\ Due(m + 1) \in 0 .. 5 /\ Due(m) <= Due(m + 1)
         /\ m \in Answered => Due(m + 1) = Due(m) + 1 /\ Answers[Due(m + 1)] = m
         /\ m \notin Answered => Due(m + 1) = Due(m)
<1>1. m \in {1, 2, 3, 4, 5, 6, 7, 8}
  OBVIOUS
<1>2. m \in Answered <=> m \in {1, 2, 4, 7, 8}
  BY DEF Answered
<1>3. /\ Answers[1] = 1 /\ Answers[2] = 2 /\ Answers[3] = 4 /\ Answers[4] = 7
      /\ Answers[5] = 8
  BY DEF Answers
<1> QED
  BY <1>1, <1>2, <1>3 DEF Due

LEMMA ParseMessageStep ==
  ASSUME TypeOK, HandshakeInv, ParseMessage
  PROVE  TypeOK' /\ HandshakeInv'
<1>1. /\ Shaking /\ shake_hand_status_ # ReleaseStream
      /\ UNCHANGED <<connected, callback, success, pc, body, form, patient, sent, wire>>
  BY DEF ParseMessage, client_vars
<1>2. PICK n \in Parsed \ {0} : Consume(n)
  BY DEF ParseMessage
<1>3. /\ buffer' \in Seq(Unit) /\ InStep'
      /\ shake_hand_status_' = shake_hand_status_ + 1 /\ shake_hand_status_ \in 1 .. 8
      /\ ~Skipped' => shake_hand_status_ <= sent
  BY <1>1, <1>2, ConsumeInStep
<1> DEFINE m == shake_hand_status_
<1>4. replies \in Seq(Answered) /\ Len(replies) \in Nat /\ DOMAIN replies = 1 .. Len(replies)
  BY LenProperties DEF TypeOK
<1>5. replies' \in Seq(Answered) /\ Answering'
  <2>1. CASE m \in Answered /\ connected
    <3>1. replies' = Append(replies, m)
      BY <2>1 DEF ParseMessage
    <3>2. /\ replies' \in Seq(Answered) /\ Len(replies') = Len(replies) + 1
          /\ \A i \in 1 .. Len(replies) : replies'[i] = replies[i]
          /\ replies'[Len(replies) + 1] = m
      BY <1>4, <2>1, <3>1, AppendProperties
    <3>3. Len(replies) = Due(m) /\ Due(m + 1) = Len(replies) + 1 /\ Answers[Len(replies) + 1] = m
      BY <1>3, <2>1, AnswerNext DEF HandshakeInv, Answering
    <3>4. \A i \in DOMAIN replies' : replies'[i] = Answers[i]
      <4>1. DOMAIN replies' = 1 .. Len(replies) + 1
        BY <3>2, LenProperties
      <4>2. \A i \in 1 .. Len(replies) : replies[i] = Answers[i]
        BY <1>4 DEF HandshakeInv, Answering
      <4>3. 1 .. Len(replies) + 1 = 1 .. Len(replies) \cup {Len(replies) + 1}
        BY <1>4
      <4> QED
        BY <3>2, <3>3, <4>1, <4>2, <4>3
    <3>6. Len(replies') = Due(shake_hand_status_')
      BY <1>3, <3>2, <3>3
    <3>7. Len(replies') <= Due(shake_hand_status_')
      BY <1>4, <3>2, <3>6
    <3> QED
      BY <3>2, <3>4, <3>6, <3>7 DEF Answering
  <2>2. CASE ~(m \in Answered /\ connected)
    <3>1. replies' = replies
      BY <2>2 DEF ParseMessage
    <3>2. Due(m) <= Due(m + 1) /\ Due(m) \in Int /\ Due(m + 1) \in Int
      BY <1>3, AnswerNext
    <3>3. connected => Due(m + 1) = Due(m)
      BY <1>3, <2>2, AnswerNext
    <3> QED
      BY <1>1, <1>3, <1>4, <3>1, <3>2, <3>3 DEF HandshakeInv, Answering
  <2> QED
    BY <2>1, <2>2
<1>6. TypeOK'
  BY <1>1, <1>3, <1>5 DEF TypeOK
<1>7. Handling'
  BY <1>1, <1>3 DEF HandshakeInv, Handling, Shaking
<1>8. InReach'
  BY <1>1, <1>3 DEF InReach, TypeOK
<1> QED
  BY <1>3, <1>5, <1>6, <1>7, <1>8 DEF HandshakeInv

LEMMA AuthenticateStep ==
  ASSUME TypeOK, HandshakeInv, Authenticate
  PROVE  TypeOK' /\ HandshakeInv'
<1>1. /\ Shaking /\ shake_hand_status_ = 5 /\ pc' = "wait"
      /\ UNCHANGED <<callback, success, replies, body, form, patient, sent, wire>>
  BY DEF Authenticate, client_vars
<1>2. PICK n \in Parsed \ {0} : Consume(n)
  BY DEF Authenticate
<1>3. /\ buffer' \in Seq(Unit) /\ InStep'
      /\ shake_hand_status_' = 6
      /\ ~Skipped' => shake_hand_status_ <= sent
  BY <1>1, <1>2, ConsumeInStep
<1>4. connected' \in BOOLEAN /\ (connected' => connected)
  <2>1. PICK ok \in BOOLEAN : connected' = (connected /\ ok)
    BY HandshakeAssumption DEF Authenticate
  <2>2. connected \in BOOLEAN
    BY DEF TypeOK
  <2> QED
    BY <2>1, <2>2, Zenon
<1>5. Len(replies) \in Nat
  BY LenProperties DEF TypeOK
<1>6. Due(5) = 3 /\ Due(6) = 3
  BY DEF Due
<1>7. Answering'
  BY <1>1, <1>3, <1>4, <1>6 DEF HandshakeInv, Answering
<1>8. Handling'
  BY <1>1, <1>3 DEF HandshakeInv, Handling, Shaking
<1>9. InReach'
  BY <1>1, <1>3 DEF InReach, TypeOK
<1>10. TypeOK'
  BY <1>1, <1>3, <1>4 DEF TypeOK
<1> QED
  BY <1>3, <1>7, <1>8, <1>9, <1>10 DEF HandshakeInv

(* The steps that take no message.                                         *)
LEMMA OtherHandleStep ==
  ASSUME TypeOK, HandshakeInv, DataNotEnough \/ ShakeSuccess \/ OnBodyData
  PROVE  TypeOK' /\ HandshakeInv'
<1>1. CASE DataNotEnough
  BY <1>1 DEF DataNotEnough, client_vars, TypeOK, HandshakeInv, Answering, Handling, InReach, InStep, Skipped
<1>2. CASE ShakeSuccess
  <2>1. /\ pc = "shake" /\ shake_hand_status_ = SHAKE_SUCCESS /\ success' = success + 1
        /\ callback' = "body" /\ pc' = "wait"
        /\ UNCHANGED <<shake_hand_status_, buffer, connected, replies, body, form, patient, sent,
                       wire>>
    BY <1>2 DEF ShakeSuccess, client_vars
  <2>2. success = 0
    BY <2>1 DEF HandshakeInv, Handling, TypeOK
  <2>3. TypeOK'
    BY <2>1, <2>2 DEF TypeOK
  <2> QED
    BY <2>1, <2>2, <2>3 DEF HandshakeInv, Handling, Answering, InReach, InStep, Skipped
<1>3. CASE OnBodyData
  <2>1. /\ pc = "body" /\ body' = body \o buffer /\ buffer' = <<>> /\ pc' = "wait"
        /\ UNCHANGED <<shake_hand_status_, connected, callback, success, replies, form, patient, sent,
                       wire>>
    BY <1>3 DEF OnBodyData, client_vars
  <2>2. body' \in Seq(Unit) /\ buffer' \in Seq(Unit) /\ body' \o buffer' = body \o buffer
    BY <2>1, ConcatProperties, ConcatEmptySeq, EmptySeq DEF TypeOK
  <2>3. TypeOK'
    BY <2>1, <2>2 DEF TypeOK
  <2>4. success = 1
    BY <2>1 DEF HandshakeInv, Handling
  <2> QED
    BY <2>1, <2>2, <2>3, <2>4 DEF HandshakeInv, Handling, Answering, InReach, InStep, Skipped
<1> QED
  BY <1>1, <1>2, <1>3

LEMMA HandshakeStep == TypeOK /\ HandshakeInv /\ [Next]_vars => TypeOK' /\ HandshakeInv'
<1>1. ASSUME TypeOK, HandshakeInv, UNCHANGED vars
      PROVE  TypeOK' /\ HandshakeInv'
  BY <1>1 DEF vars, client_vars, TypeOK, HandshakeInv, Answering, Handling, InReach, InStep, Skipped
<1> QED
  BY <1>1, ClientSendsStep, ReadStep, ParseMessageStep, AuthenticateStep, OtherHandleStep
  DEF Next, Reads, Handle

LEMMA HandshakeInvariant == Spec => [](TypeOK /\ HandshakeInv)
  BY HandshakeInit, HandshakeStep, PTL DEF Spec

-----------------------------------------------------------------------------

(* The types of the handshake's variables are kept whatever the reads and  *)
(* the bytes parsed (RtmpManager.cpp:332-487,                              *)
(* RtmpServerConnection.cpp:120-175).                                      *)
THEOREM HandshakeTypeCorrect == Spec => []TypeOK
  BY HandshakeInvariant, PTL

(* RtmpManager.cpp:332-487: however TCP cuts the stream, the handshake     *)
(* takes each message where the client began and ended it.                 *)
THEOREM HandshakeStaysInStep == Spec => []InStep
<1>1. HandshakeInv => InStep
  BY DEF HandshakeInv
<1> QED
  BY <1>1, HandshakeInvariant, PTL

(* RtmpServerConnection.cpp:21-75: the messages that have an answer get it, *)
(* each once and in their order, and none is due while connected.          *)
THEOREM RepliesStayInOrder == Spec => []RepliesInOrder
<1>1. TypeOK /\ HandshakeInv => RepliesInOrder
  <2> SUFFICES ASSUME TypeOK, HandshakeInv PROVE RepliesInOrder
    OBVIOUS
  <2> DEFINE s == shake_hand_status_
  <2>1. /\ Len(replies) \in Nat /\ DOMAIN replies = 1 .. Len(replies)
        /\ s \in {1, 2, 3, 4, 5, 6, 7, 8, 9}
    BY LenProperties DEF TypeOK
  <2>2. \A i \in DOMAIN replies : replies[i] = Answers[i]
    BY DEF HandshakeInv, Answering
  <2>3. Due(s) \in 0 .. 5 /\ Len(replies) <= Due(s) /\ Len(Answers) = 5
    BY <2>1 DEF HandshakeInv, Answering, Due, Answers
  <2>4. /\ Answers[1] = 1 /\ Answers[2] = 2 /\ Answers[3] = 4 /\ Answers[4] = 7
        /\ Answers[5] = 8
    BY DEF Answers
  <2>5. ASSUME connected, NEW m \in Answered
        PROVE  (m < s) <=> (\E i \in DOMAIN replies : replies[i] = m)
    <3>1. Len(replies) = Due(s) /\ m \in {1, 2, 4, 7, 8}
      BY <2>5 DEF HandshakeInv, Answering, Handling, Answered
    <3>2. (\E i \in DOMAIN replies : replies[i] = m) <=> (\E i \in 1 .. Due(s) : Answers[i] = m)
      BY <2>1, <2>2, <3>1
    <3> HIDE DEF s
    <3>3. (m < s) <=> (\E i \in 1 .. Due(s) : Answers[i] = m)
      <4>1. ASSUME NEW k \in 1 .. 5 PROVE
               (\E i \in 1 .. Due(s) : Answers[i] = Answers[k]) <=> k <= Due(s)
        BY <2>3, <2>4
      <4>2. /\ 1 < s <=> 1 <= Due(s)
            /\ 2 < s <=> 2 <= Due(s)
            /\ 4 < s <=> 3 <= Due(s)
            /\ 7 < s <=> 4 <= Due(s)
            /\ 8 < s <=> 5 <= Due(s)
        BY <2>1, <3>1 DEF Due
      <4> QED
        BY <2>4, <3>1, <4>1, <4>2
    <3> QED
      BY <3>2, <3>3
  <2>6. Len(replies) <= Len(Answers)
    BY <2>1, <2>3
  <2> QED
    BY <2>2, <2>5, <2>6 DEF RepliesInOrder
<1> QED
  BY <1>1, HandshakeInvariant, PTL

(* RtmpServerConnection.cpp:144-158: only the stream of a publisher whose  *)
(* path is bound reaches OnBodyData, however far the client runs ahead of  *)
(* the answers and whether it was refused or not.                          *)
THEOREM BodyComesOnceBound == Spec => []BodyOnlyWhenBound
<1>1. TypeOK /\ HandshakeInv => BodyOnlyWhenBound
  <2> SUFFICES ASSUME TypeOK, HandshakeInv PROVE BodyOnlyWhenBound
    OBVIOUS
  <2>1. /\ body # <<>> => success = 1
        /\ success = 1 => shake_hand_status_ = 9
    BY DEF HandshakeInv, Handling
  <2>2. ASSUME ~Skipped, success = 1 PROVE sent \in 8 .. 9
    BY <2>1, <2>2 DEF HandshakeInv, InReach, TypeOK
  <2>3. ASSUME ~Skipped, NEW i \in DOMAIN body PROVE body[i][1] = Stream
    <3>1. body \in Seq(Unit) /\ buffer \in Seq(Unit) /\ wire \in Seq(Unit) /\ body # <<>>
      BY <2>3 DEF TypeOK
    <3>2. /\ Len(body) \in Nat /\ i \in 1 .. Len(body)
          /\ Len(buffer \o wire) \in Nat /\ buffer \o wire \in Seq(Unit)
      BY <3>1, <2>3, ConcatProperties, LenProperties
    <3>3. (body \o buffer) \o wire = Units(9, sent)
      BY <2>1, <2>3, <3>1 DEF HandshakeInv, InStep
    <3>4. (body \o buffer) \o wire = body \o (buffer \o wire)
      BY <3>1, ConcatAssociative
    <3>5. /\ Len(body \o (buffer \o wire)) = Len(body) + Len(buffer \o wire)
          /\ (body \o (buffer \o wire))[i] = body[i]
      <4>1. \A t \in Seq(Unit) : Len(body \o t) = Len(body) + Len(t) /\ (body \o t)[i] = body[i]
        BY <3>1, <3>2, ConcatProperties, LenProperties
      <4> QED
        BY <3>2, <4>1
    <3>6. body[i] = Units(9, sent)[i] /\ i \in 1 .. Len(Units(9, sent))
      BY <3>2, <3>3, <3>4, <3>5
    <3>7. sent \in 8 .. 9 /\ Pieces \in Nat
      BY <2>1, <2>2, <2>3, <3>1, HandshakeAssumption
    <3>8. Len(Units(9, sent)) = Pieces * (sent - 9 + 1)
      <4>1. ASSUME NEW n \in 8 .. 9 PROVE Len(Units(9, n)) = Pieces * (n - 9 + 1)
        <5>1. 9 \in Messages /\ n \in 0 .. Stream /\ 9 <= n + 1
          BY DEF Messages
        <5> QED
          BY <5>1, UnitsType
      <4> QED
        BY <3>7, <4>1
    <3>9. sent = 9 /\ i \in 1 .. Pieces
      <4>1. sent = 8 => Pieces * (sent - 9 + 1) = 0
        BY <3>7
      <4>2. sent = 9 => Pieces * (sent - 9 + 1) = Pieces
        BY <3>7
      <4> QED
        BY <3>6, <3>7, <3>8, <4>1, <4>2
    <3>10. PICK r \in Nat : r < Pieces /\ i = Position(0, r)
      <4>1. i - 1 \in Nat /\ i - 1 < Pieces /\ i = Pieces * 0 + (i - 1) + 1
        BY <3>7, <3>9
      <4> QED
        BY <4>1 DEF Position
    <3>11. Units(9, sent)[Position(0, r)] = <<9 + 0, 1 + r>>
      BY <3>9, <3>10, UnitAt
    <3> QED
      BY <3>6, <3>10, <3>11
  <2> QED
    BY <2>1, <2>2, <2>3 DEF BodyOnlyWhenBound
<1> QED
  BY <1>1, HandshakeInvariant, PTL
=============================================================================
