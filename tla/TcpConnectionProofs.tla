------------------------ MODULE TcpConnectionProofs ------------------------
(***************************************************************************)
(* Proofs about TcpConnection, for every room of the socket, every set of  *)
(* lengths, every number of Sends and of inputs, and both modes of the     *)
(* descriptor.                                                             *)
(***************************************************************************)
EXTENDS TcpConnection, SequenceTheorems, TLAPS

-----------------------------------------------------------------------------
(* The invariant.                                                          *)

(* Until ConnectionEstablished has run, its task is all there is in the    *)
(* queue, and the descriptor is not watched, so that no handler runs.      *)
Unborn ==
    connection_status_ = "connecting" =>
        /\ \/ pending = <<Established>> /\ batch = <<>>
           \/ pending = <<>> /\ batch = <<Established>> /\ pc = "tasks"
        /\ event_ = {} /\ ~registered
        /\ pc \notin {"readable", "writable", "callback"}

(* Afterwards the queue holds Sends only: it is established once.          *)
Born ==
    connection_status_ # "connecting" => pending \in Seq(Lengths) /\ batch \in Seq(Lengths)

(* In the round that closed a connection nothing readable is left.         *)
NoInputOnceClosed ==
    connection_status_ = "disconnected" /\ pc = "readable" => "in" \notin event_

GivenUpOnceFailed == failed => connection_status_ \in {"disconnecting", "disconnected"}

InputSent == input <= inputs

Inv ==
    /\ TypeOK
    /\ Unborn /\ Born
    /\ NoInputOnceClosed
    /\ GivenUpOnceFailed
    /\ InputSent
    /\ ClosedOnce
    /\ ClosedNotPolled
    /\ StreamInOrder

-----------------------------------------------------------------------------
(* What the operators promise.                                             *)

LEMMA MinOfTwo ==
  ASSUME NEW a \in Int, NEW b \in Int
  PROVE  Min({a, b}) \in {a, b} /\ Min({a, b}) <= a /\ Min({a, b}) <= b
<1> DEFINE least(x) == x \in {a, b} /\ \A y \in {a, b} : x <= y
<1>1. \E x : least(x)
  <2>1. CASE a <= b
    BY <2>1
  <2>2. CASE b <= a
    BY <2>2
  <2> QED
    BY <2>1, <2>2
<1>2. least(CHOOSE x : least(x))
  BY <1>1
<1>3. Min({a, b}) = CHOOSE x : least(x)
  BY DEF Min
<1> HIDE DEF least
<1>4. least(Min({a, b}))
  BY <1>2, <1>3
<1> QED
  BY <1>4 DEF least

(* send() takes no more than it was given, nothing when it fails for good, *)
(* and changes the peer by a reset only.                                   *)
LEMMA OutcomeFits ==
  ASSUME NEW n \in Nat, room \in 0 .. Room, Room \in Nat, NEW o \in Outcomes(n)
  PROVE  /\ o.size \in 0 .. n
         /\ o.errno = "fatal" => o.size = 0
         /\ o.peer = peer \/ (~Broken /\ o.peer = "reset")
<1>1. /\ Min({n, room}) \in {n, room} /\ Min({n, room}) <= n
  <2>1. n \in Int /\ room \in Int
    OBVIOUS
  <2> QED
    BY <2>1, MinOfTwo
<1>2. CASE Broken \/ write_closed
  BY <1>2 DEF Outcomes
<1>3. CASE ~(Broken \/ write_closed) /\ fault \in {"memory", "reset"}
  <2>1. \E k \in 0 .. Min({n, room}) :
          \/ o = [size |-> k, errno |-> IF k = 0 THEN "other" ELSE "none", peer |-> peer]
          \/ o = [size |-> k, errno |-> IF k = 0 THEN "fatal" ELSE "none", peer |-> "reset"]
    BY <1>3 DEF Outcomes
  <2>2. PICK k \in 0 .. Min({n, room}) :
          \/ o = [size |-> k, errno |-> IF k = 0 THEN "other" ELSE "none", peer |-> peer]
          \/ o = [size |-> k, errno |-> IF k = 0 THEN "fatal" ELSE "none", peer |-> "reset"]
    BY <2>1
  <2>3. k \in 0 .. n
    BY <1>1
  <2> QED
    BY <1>3, <2>2, <2>3
<1>4. CASE ~(Broken \/ write_closed) /\ fault \notin {"memory", "reset"} /\ non_blocking
  <2>1. o = [size |-> Min({n, room}), errno |-> IF room = 0 THEN "wouldblock" ELSE "none",
             peer |-> peer]
    BY <1>4 DEF Outcomes
  <2> QED
    BY <1>1, <2>1
<1>5. CASE ~(Broken \/ write_closed) /\ fault \notin {"memory", "reset"} /\ ~non_blocking
  <2>1. o = [size |-> n, errno |-> "none", peer |-> peer]
    BY <1>5 DEF Outcomes
  <2> QED
    BY <2>1
<1> QED
  BY <1>2, <1>3, <1>4, <1>5

LEMMA TransferTyped ==
  ASSUME Room \in Nat, room \in 0 .. Room, NEW o, o.size \in Nat, Transfer(o)
  PROVE  room' \in 0 .. Room /\ fault' = "none" /\ peer' = o.peer
BY DEF Transfer

(* The units of the next n follow those taken before.                      *)
LEMMA UnitsFollow ==
  ASSUME taken \in Nat, NEW n \in Nat,
         NEW s \in Seq(Nat), Len(s) = taken, \A i \in DOMAIN s : s[i] = i
  PROVE  /\ Units(n) \in Seq(Nat) /\ Len(Units(n)) = n
         /\ s \o Units(n) \in Seq(Nat) /\ Len(s \o Units(n)) = taken + n
         /\ \A i \in DOMAIN (s \o Units(n)) : (s \o Units(n))[i] = i
<1>1. /\ Units(n) \in Seq(Nat) /\ Len(Units(n)) = n
      /\ \A i \in 1 .. n : Units(n)[i] = taken + i
  BY DEF Units
<1> HIDE DEF Units
<1>2. DOMAIN s = 1 .. taken
  BY LenProperties
<1>3. /\ s \o Units(n) \in Seq(Nat) /\ Len(s \o Units(n)) = taken + n
      /\ \A i \in 1 .. taken + n :
            (s \o Units(n))[i] = IF i <= taken THEN s[i] ELSE Units(n)[i - taken]
  BY <1>1, ConcatProperties
<1>4. DOMAIN (s \o Units(n)) = 1 .. taken + n
  BY <1>3, LenProperties
<1>5. ASSUME NEW i \in 1 .. taken + n PROVE (s \o Units(n))[i] = i
  <2>1. CASE i <= taken
    <3>1. i \in 1 .. taken /\ s[i] = i
      BY <2>1, <1>2
    <3> QED
      BY <2>1, <3>1, <1>3
  <2>2. CASE ~(i <= taken)
    <3>1. i - taken \in 1 .. n
      BY <2>2
    <3> QED
      BY <2>2, <3>1, <1>1, <1>3
  <2> QED
    BY <2>1, <2>2
<1> QED
  BY <1>1, <1>3, <1>4, <1>5

-----------------------------------------------------------------------------
(* SendInLoop, called by a task or by the new-message callback.            *)

(* What it does to the connection and its channel.                         *)
SendKeepsLife ==
    /\ \/ connection_status_' = connection_status_
       \/ connection_status_ = "connected" /\ connection_status_' = "disconnecting"
    /\ connection_status_ # "connecting"
    /\ connection_status_ # "connected" => UNCHANGED channel_vars
    /\ ep_event_' \subseteq ep_event_ \cup {"out"} /\ registered' \in BOOLEAN
    /\ write_closed' \in BOOLEAN
    /\ peer' \in {peer, "reset"}

LEMMA SendInLoopLife ==
  ASSUME TcpAssumption, TypeOK, NEW n \in Lengths, SendInLoop(n)
  PROVE  SendKeepsLife
<1> USE DEF SendKeepsLife
<1>1. n \in Nat \ {0} /\ Room \in Nat /\ room \in 0 .. Room
  BY DEF TcpAssumption, TypeOK
<1>2. CASE GiveUp
  BY <1>2 DEF GiveUp, TypeOK, channel_vars
<1>3. CASE connection_status_ = "connected" /\ SendBehindBuffer(n)
  BY <1>3 DEF SendBehindBuffer, Keep, Enable, UpdateChannel, TypeOK, channel_vars
<1>4. CASE connection_status_ = "connected" /\ SendDirect(n)
  <2>1. PICK o \in Outcomes(n) :
          /\ Transfer(o)
          /\ IF o.errno = "fatal"
             THEN Shutdown /\ UNCHANGED <<send_buffer_, channel_vars>>
             ELSE /\ Keep(SubSeq(Units(n), o.size + 1, n))
                  /\ UNCHANGED <<connection_status_, write_closed>>
    BY <1>4 DEF SendDirect
  <2>2. peer' \in {peer, "reset"}
    BY <1>1, <2>1, OutcomeFits DEF Transfer
  <2>3. CASE o.errno = "fatal"
    BY <1>4, <2>1, <2>2, <2>3 DEF Shutdown, ShutdownWrites, TypeOK, channel_vars
  <2>4. CASE o.errno # "fatal"
    <3>1. /\ UNCHANGED <<connection_status_, write_closed>>
          /\ UNCHANGED channel_vars \/ Enable("out")
      BY <2>1, <2>4 DEF Keep
    <3> QED
      BY <1>4, <2>2, <3>1 DEF TypeOK, Enable, UpdateChannel, channel_vars
  <2> QED
    BY <2>3, <2>4
<1> QED
  BY <1>2, <1>3, <1>4 DEF SendInLoop

(* Units that the kernel takes move from what is to be sent to the wire.   *)
LEMMA UnitsMove ==
  ASSUME NEW w \in Seq(Nat), NEW u \in Seq(Nat), NEW k \in 0 .. Len(u)
  PROVE  /\ SubSeq(u, k + 1, Len(u)) \in Seq(Nat)
         /\ w \o SubSeq(u, 1, k) \in Seq(Nat)
         /\ (w \o SubSeq(u, 1, k)) \o SubSeq(u, k + 1, Len(u)) = w \o u
<1>1. Len(u) \in Nat /\ \A i \in 1 .. Len(u) : u[i] \in Nat
  BY LenProperties, ElementOfSeq
<1>2. SubSeq(u, 1, k) \in Seq(Nat) /\ SubSeq(u, k + 1, Len(u)) \in Seq(Nat)
  BY <1>1, SubSeqProperties
<1>3. SubSeq(u, 1, k) \o SubSeq(u, k + 1, Len(u)) = u
  <2>1. 1 \in 1 .. Len(u) + 1 /\ k \in 1 - 1 .. Len(u) /\ Len(u) \in k .. Len(u)
    BY <1>1
  <2>2. SubSeq(u, 1, k) \o SubSeq(u, k + 1, Len(u)) = SubSeq(u, 1, Len(u))
    BY <2>1, <1>1, ConcatAdjacentSubSeq
  <2> QED
    BY <2>2, SubSeqFull
<1>4. ASSUME NEW x \in Seq(Nat), NEW y \in Seq(Nat), x \o y = u
      PROVE  w \o x \in Seq(Nat) /\ (w \o x) \o y = w \o u
  <2>1. (w \o x) \o y = w \o (x \o y)
    BY ConcatAssociative
  <2> QED
    BY <2>1, <1>4, ConcatProperties
<1> QED
  BY <1>2, <1>3, <1>4

(* What it does to the data.                                               *)
DataTyped ==
    /\ send_buffer_ \in Seq(Nat) /\ wire \in Seq(Nat)
    /\ taken \in Nat /\ room \in 0 .. Room /\ failed \in BOOLEAN
    /\ fault \in {"none", "memory", "reset"}

LEMMA SendInLoopStream ==
  ASSUME TcpAssumption, DataTyped, StreamInOrder, GivenUpOnceFailed,
         NEW n \in Lengths, SendInLoop(n)
  PROVE  DataTyped' /\ StreamInOrder' /\ GivenUpOnceFailed'
<1>1. n \in Nat \ {0} /\ Room \in Nat /\ room \in 0 .. Room
  BY DEF TcpAssumption, DataTyped
<1>2. CASE GiveUp
  BY <1>2 DEF GiveUp, DataTyped, StreamInOrder, GivenUpOnceFailed, out_vars
<1>3. CASE connection_status_ = "connected" /\ (SendBehindBuffer(n) \/ SendDirect(n))
  <2>1. /\ ~failed
        /\ wire \o send_buffer_ \in Seq(Nat) /\ Len(wire \o send_buffer_) = taken
        /\ \A i \in DOMAIN (wire \o send_buffer_) : (wire \o send_buffer_)[i] = i
    BY <1>3, ConcatProperties DEF GivenUpOnceFailed, StreamInOrder, DataTyped
  <2>2. /\ Units(n) \in Seq(Nat) /\ Len(Units(n)) = n
        /\ (wire \o send_buffer_) \o Units(n) \in Seq(Nat)
        /\ Len((wire \o send_buffer_) \o Units(n)) = taken + n
        /\ \A i \in DOMAIN ((wire \o send_buffer_) \o Units(n)) :
              ((wire \o send_buffer_) \o Units(n))[i] = i
    BY <1>1, <2>1, UnitsFollow DEF DataTyped
  <2>3. taken' = taken + n /\ taken' \in Nat
    BY <1>1, <1>3 DEF SendBehindBuffer, SendDirect, DataTyped
  <2>4. ASSUME wire' \o send_buffer_' = (wire \o send_buffer_) \o Units(n)
        PROVE  StreamInOrder'
    BY <2>2, <2>3, <2>4 DEF StreamInOrder
  <2>5. CASE SendBehindBuffer(n)
    <3>1. /\ send_buffer_' = send_buffer_ \o Units(n)
          /\ UNCHANGED <<connection_status_, wire, failed, room, fault>>
      BY <2>5 DEF SendBehindBuffer, Keep
    <3>2. wire' \o send_buffer_' = (wire \o send_buffer_) \o Units(n)
      <4>1. /\ wire \in Seq(Nat) /\ send_buffer_ \in Seq(Nat)
            /\ Units(n) \in Seq(Nat)
        BY <2>2 DEF DataTyped
      <4>2. (wire \o send_buffer_) \o Units(n) = wire \o (send_buffer_ \o Units(n))
        BY <4>1, ConcatAssociative
      <4> QED
        BY <3>1, <4>2
    <3>3. send_buffer_' \in Seq(Nat)
      BY <2>2, <3>1, ConcatProperties DEF DataTyped
    <3> QED
      BY <2>3, <2>4, <3>1, <3>2, <3>3 DEF DataTyped, GivenUpOnceFailed
  <2>6. CASE SendDirect(n)
    <3>1. PICK o \in Outcomes(n) :
            /\ Transfer(o)
            /\ wire' = wire \o SubSeq(Units(n), 1, o.size)
            /\ failed' = (failed \/ o.errno = "fatal")
            /\ IF o.errno = "fatal"
               THEN Shutdown /\ UNCHANGED <<send_buffer_, channel_vars>>
               ELSE /\ Keep(SubSeq(Units(n), o.size + 1, n))
                    /\ UNCHANGED <<connection_status_, write_closed>>
      BY <2>6 DEF SendDirect
    <3>2. /\ o.size \in 0 .. n
          /\ o.errno = "fatal" => o.size = 0
      BY <1>1, OutcomeFits
    <3>3. room' \in 0 .. Room /\ fault' = "none" /\ send_buffer_ = <<>>
      BY <1>1, <2>6, <3>1, <3>2, TransferTyped DEF SendDirect
    <3>4. CASE o.errno = "fatal"
      <4>1. SubSeq(Units(n), 1, o.size) = <<>>
        BY <3>2, <3>4, SubSeqEmpty
      <4>2. wire' = wire /\ send_buffer_' = send_buffer_
        BY <3>1, <3>4, <4>1, ConcatEmptySeq DEF DataTyped
      <4>3. failed' = TRUE /\ connection_status_' = "disconnecting"
        BY <1>3, <3>1, <3>4 DEF Shutdown
      <4> QED
        BY <2>1, <2>3, <3>3, <4>2, <4>3 DEF DataTyped, StreamInOrder, GivenUpOnceFailed
    <3>5. CASE o.errno # "fatal"
      <4> DEFINE rest == SubSeq(Units(n), o.size + 1, n)
      <4>1. /\ wire' \in Seq(Nat) /\ rest \in Seq(Nat)
            /\ wire' \o rest = wire \o Units(n)
        <5>1. /\ wire \in Seq(Nat) /\ Units(n) \in Seq(Nat)
              /\ o.size \in 0 .. Len(Units(n))
          BY <2>2, <3>2 DEF DataTyped
        <5> DEFINE front == SubSeq(Units(n), 1, o.size)
                   back  == SubSeq(Units(n), o.size + 1, Len(Units(n)))
        <5>2. /\ back \in Seq(Nat)
              /\ wire \o front \in Seq(Nat) /\ (wire \o front) \o back = wire \o Units(n)
          BY <5>1, UnitsMove
        <5>3. back = rest /\ wire' = wire \o front
          BY <2>2, <3>1
        <5> HIDE DEF front, back, rest
        <5> QED
          BY <5>2, <5>3
      <4>2. send_buffer_' = <<>> \o rest
        BY <3>1, <3>3, <3>5 DEF Keep
      <4> HIDE DEF rest
      <4>3. send_buffer_' = rest
        BY <4>1, <4>2, ConcatEmptySeq
      <4>4. wire \o send_buffer_ = wire
        BY <3>3, ConcatEmptySeq DEF DataTyped
      <4>5. failed' = FALSE
        BY <2>1, <3>1, <3>5
      <4>6. StreamInOrder'
        BY <2>4, <4>1, <4>3, <4>4
      <4>7. room' \in 0 .. Room /\ fault' = "none"
        BY <3>3
      <4>8. DataTyped'
        BY <2>3, <4>1, <4>3, <4>5, <4>7 DEF DataTyped
      <4> QED
        BY <4>5, <4>6, <4>8 DEF GivenUpOnceFailed
    <3> QED
      BY <3>4, <3>5
  <2> QED
    BY <1>3, <2>5, <2>6
<1> QED
  BY <1>2, <1>3 DEF SendInLoop

-----------------------------------------------------------------------------
(* OnWritable, the same two ways.                                          *)

LEMMA OnWritableLife ==
  ASSUME TcpAssumption, TypeOK, Unborn, OnWritable
  PROVE  /\ \/ connection_status_' = connection_status_
            \/ connection_status_ = "connected" /\ connection_status_' = "disconnecting"
         /\ connection_status_ # "connecting"
         /\ ep_event_' \subseteq ep_event_ /\ registered' \in BOOLEAN
         /\ write_closed' \in BOOLEAN
         /\ peer' \in {peer, "reset"}
<1>1. Len(send_buffer_) \in Nat /\ Room \in Nat /\ room \in 0 .. Room
  BY LenProperties DEF TcpAssumption, TypeOK
<1>2. PICK o \in Outcomes(Len(send_buffer_)) :
        LET rest == SubSeq(send_buffer_, o.size + 1, Len(send_buffer_)) IN
        /\ Transfer(o)
        /\ IF o.size > 0 /\ rest = <<>>
           THEN /\ DisableWritable
                /\ IF connection_status_ = "disconnecting" THEN Shutdown
                   ELSE UNCHANGED <<connection_status_, write_closed>>
           ELSE UNCHANGED <<channel_vars, connection_status_, write_closed>>
  BY DEF OnWritable
<1>3. peer' \in {peer, "reset"}
  BY <1>1, <1>2, OutcomeFits DEF Transfer
<1>4. connection_status_ # "connecting"
  BY DEF OnWritable, Unborn
<1>5. \/ /\ DisableWritable
         /\ \/ connection_status_ = "disconnecting" /\ Shutdown
            \/ UNCHANGED <<connection_status_, write_closed>>
      \/ UNCHANGED <<channel_vars, connection_status_, write_closed>>
  BY <1>2
<1> QED
  BY <1>3, <1>4, <1>5 DEF TypeOK, channel_vars, DisableWritable, UpdateChannel, Shutdown, ShutdownWrites

LEMMA OnWritableStream ==
  ASSUME TcpAssumption, DataTyped, StreamInOrder, OnWritable
  PROVE  DataTyped' /\ StreamInOrder' /\ failed' = failed
<1>1. Len(send_buffer_) \in Nat /\ Room \in Nat /\ room \in 0 .. Room
  BY LenProperties DEF TcpAssumption, DataTyped
<1>2. PICK o \in Outcomes(Len(send_buffer_)) :
        /\ Transfer(o)
        /\ wire' = wire \o SubSeq(send_buffer_, 1, o.size)
        /\ send_buffer_' = SubSeq(send_buffer_, o.size + 1, Len(send_buffer_))
  BY DEF OnWritable
<1>3. o.size \in 0 .. Len(send_buffer_)
  BY <1>1, OutcomeFits
<1>4. /\ send_buffer_' \in Seq(Nat) /\ wire' \in Seq(Nat)
      /\ wire' \o send_buffer_' = wire \o send_buffer_
  BY <1>2, <1>3, UnitsMove DEF DataTyped
<1>5. room' \in 0 .. Room /\ fault' = "none" /\ UNCHANGED <<taken, failed>>
  BY <1>1, <1>2, <1>3, TransferTyped DEF OnWritable
<1> QED
  BY <1>4, <1>5 DEF DataTyped, StreamInOrder

-----------------------------------------------------------------------------
(* Every step.                                                             *)

(* The data: units, and the status of a connection that failed.            *)
LEMMA StreamStep ==
  ASSUME TcpAssumption, Inv, [Next]_vars
  PROVE  DataTyped' /\ StreamInOrder' /\ GivenUpOnceFailed'
<1>1. DataTyped /\ StreamInOrder /\ GivenUpOnceFailed
  BY DEF Inv, TypeOK, DataTyped
<1>2. Room \in Nat /\ room \in 0 .. Room
  BY <1>1 DEF TcpAssumption, DataTyped
<1>3. ASSUME UNCHANGED out_vars,
             failed => connection_status_' \in {"disconnecting", "disconnected"}
      PROVE  DataTyped' /\ StreamInOrder' /\ GivenUpOnceFailed'
  BY <1>1, <1>3 DEF out_vars, DataTyped, StreamInOrder, GivenUpOnceFailed
<1>4. CASE \/ Poll \/ ReadError \/ NotReadable \/ NotWritable \/ SwapPending \/ BatchDone
           \/ (\E n \in Lengths : SendRemote(n)) \/ PeerSends \/ PeerLeaves
           \/ UNCHANGED vars
  BY <1>1, <1>3, <1>4
  DEF Poll, ReadError, NotReadable, NotWritable, SwapPending, BatchDone, SendRemote,
      PeerSends, PeerLeaves, vars, GivenUpOnceFailed
<1>5. CASE ReadMessage \/ ConnectionCallback
  <2>1. CASE \E n \in Lengths : SendInLoop(n)
    BY <1>1, <2>1, SendInLoopStream
  <2>2. CASE Shutdown /\ UNCHANGED out_vars
    BY <1>1, <1>3, <2>2 DEF Shutdown, GivenUpOnceFailed
  <2>3. CASE UNCHANGED <<connection_status_, out_vars>>
    BY <1>1, <1>3, <2>3 DEF GivenUpOnceFailed
  <2> QED
    BY <1>5, <2>1, <2>2, <2>3 DEF ReadMessage, ConnectionCallback, Callback
<1>6. CASE ReadEnd
  BY <1>3, <1>6 DEF ReadEnd
<1>7. CASE OnWritable
  <2>1. DataTyped' /\ StreamInOrder' /\ failed' = failed
    BY <1>1, <1>7, OnWritableStream
  <2>2. connection_status_' = connection_status_ \/ Shutdown
    BY <1>7 DEF OnWritable
  <2> QED
    BY <1>1, <2>1, <2>2 DEF GivenUpOnceFailed, Shutdown
<1>8. CASE RunEstablished
  <2>1. connection_status_ = "connecting"
    <3>1. batch # <<>> /\ Head(batch) = Established
      BY <1>8 DEF RunEstablished
    <3>2. batch \in Seq(Lengths) => Head(batch) \in Lengths
      BY <3>1, HeadTailProperties
    <3> QED
      BY <3>1, <3>2 DEF TcpAssumption, Inv, Born, Established
  <2>2. ~failed
    BY <1>1, <2>1 DEF GivenUpOnceFailed
  <2> QED
    BY <1>3, <1>8, <2>2 DEF RunEstablished
<1>9. CASE RunSend
  <2>1. Head(batch) \in Lengths /\ SendInLoop(Head(batch))
    <3>1. batch \in Seq(Lengths \cup {Established}) /\ batch # <<>>
      BY <1>9 DEF RunSend, Inv, TypeOK
    <3>2. Head(batch) \in Lengths \cup {Established}
      BY <3>1, HeadTailProperties
    <3> QED
      BY <1>9, <3>2 DEF RunSend
  <2> QED
    BY <1>1, <2>1, SendInLoopStream
<1>10. CASE PeerReads \/ Strikes
  <2>1. /\ room' \in 0 .. Room /\ fault' \in {"none", "memory", "reset"}
        /\ UNCHANGED <<connection_status_, send_buffer_, wire, taken, failed>>
    BY <1>1, <1>2, <1>10 DEF PeerReads, Strikes, DataTyped
  <2> QED
    BY <1>1, <2>1 DEF DataTyped, StreamInOrder, GivenUpOnceFailed
<1> QED
  BY <1>4, <1>5, <1>6, <1>7, <1>8, <1>9, <1>10 DEF Next, LoopThread, Environment

(* The connection: its status, its channel, its queue and its peer.        *)
LifeTyped ==
    /\ non_blocking \in Modes
    /\ connection_status_ \in {"connecting", "connected", "disconnecting", "disconnected"}
    /\ event_ \subseteq Events /\ ep_event_ \subseteq Events
    /\ registered \in BOOLEAN /\ write_closed \in BOOLEAN
    /\ peer \in {"open", "closed", "reset", "gone"}
    /\ full \in BOOLEAN
    /\ input \in 0 .. MaxInputs /\ inputs \in 0 .. MaxInputs
    /\ pending \in Seq(Lengths \cup {Established})
    /\ batch \in Seq(Lengths \cup {Established})
    /\ sends \in 0 .. MaxSends
    /\ pc \in {"poll", "readable", "writable", "swap", "tasks", "callback"}
    /\ closes \in Nat

Life ==
    /\ LifeTyped
    /\ Unborn /\ Born
    /\ NoInputOnceClosed
    /\ InputSent
    /\ ClosedOnce
    /\ ClosedNotPolled

(* SendInLoop leaves a connection that lives alive, and a closed one alone. *)
LEMMA SendKeeps ==
  ASSUME LifeTyped, NoInputOnceClosed, ClosedOnce, ClosedNotPolled, SendKeepsLife,
         UNCHANGED <<event_, closes>>, pc' \in {"writable", "tasks"}
  PROVE  /\ connection_status_' \in {"connected", "disconnecting", "disconnected"}
         /\ event_' \subseteq Events /\ ep_event_' \subseteq Events
         /\ registered' \in BOOLEAN /\ write_closed' \in BOOLEAN
         /\ peer' \in {"open", "closed", "reset", "gone"}
         /\ NoInputOnceClosed' /\ ClosedOnce' /\ ClosedNotPolled'
<1>1. /\ connection_status_' \in {"connected", "disconnecting", "disconnected"}
      /\ event_' \subseteq Events /\ ep_event_' \subseteq Events
      /\ registered' \in BOOLEAN /\ write_closed' \in BOOLEAN
      /\ peer' \in {"open", "closed", "reset", "gone"}
  BY DEF SendKeepsLife, LifeTyped, Events
<1>2. connection_status_' = "disconnected" =>
          connection_status_ = "disconnected" /\ UNCHANGED channel_vars
  BY DEF SendKeepsLife
<1>3. connection_status_' # "disconnected" => connection_status_ # "disconnected"
  BY DEF SendKeepsLife
<1>4. NoInputOnceClosed' /\ ClosedNotPolled'
  BY <1>2 DEF NoInputOnceClosed, ClosedNotPolled, channel_vars
<1>5. ClosedOnce'
  BY <1>2, <1>3 DEF ClosedOnce
<1> QED
  BY <1>1, <1>4, <1>5

(* What a callback of the user does.                                       *)
LEMMA CallbackKeepsLife ==
  ASSUME TcpAssumption, TypeOK, connection_status_ # "connecting", Callback
  PROVE  SendKeepsLife /\ sends' \in 0 .. MaxSends
<1>1. sends' \in 0 .. MaxSends
  BY DEF Callback, TypeOK, TcpAssumption
<1> SUFFICES SendKeepsLife
  BY <1>1
<1>2. CASE \E n \in Lengths : SendInLoop(n)
  BY <1>2, SendInLoopLife
<1>3. CASE Shutdown /\ UNCHANGED <<channel_vars, peer>>
  BY <1>3 DEF Shutdown, ShutdownWrites, SendKeepsLife, TypeOK, channel_vars
<1>4. CASE UNCHANGED <<connection_status_, channel_vars, write_closed, peer>>
  BY <1>4 DEF SendKeepsLife, TypeOK, channel_vars
<1> QED
  BY <1>2, <1>3, <1>4 DEF Callback

LEMMA LifeStep ==
  ASSUME TcpAssumption, Inv, [Next]_vars
  PROVE  Life'
<1>1. Life /\ TypeOK /\ non_blocking' = non_blocking
  BY DEF Inv, TypeOK, Life, LifeTyped, Next, LoopThread, Environment, vars
<1>2. CASE Poll
  <2>1. connection_status_ = "connecting" => pc' = "swap" /\ event_' = event_
    BY <1>1, <1>2 DEF Poll, Reported, Life, Unborn
  <2>2. event_' = event_ \/ event_' = Ready
    BY <1>2 DEF Poll
  <2>3. Ready \subseteq ep_event_
    BY DEF Ready
  <2>4. /\ pc' \in {"readable", "swap"} /\ (pc' = "readable" => event_' = Ready)
        /\ pc = "poll"
        /\ UNCHANGED <<connection_status_, channel_vars, out_vars, write_closed,
                       peer, in_vars, queue_vars, closes>>
    BY <1>2 DEF Poll
  <2> QED
    BY <1>1, <2>1, <2>2, <2>3, <2>4
    DEF Life, LifeTyped, Unborn, Born, NoInputOnceClosed, InputSent,
        ClosedOnce, ClosedNotPolled, channel_vars, out_vars, queue_vars, in_vars
<1>3. CASE ReadMessage \/ ConnectionCallback
  <2>1. /\ connection_status_ # "connecting" /\ pc \in {"readable", "callback"}
        /\ pc' \in {"writable", "tasks"} /\ UNCHANGED <<event_, inputs, pending, batch, closes>>
    BY <1>1, <1>3 DEF ReadMessage, ConnectionCallback, Life, Unborn, in_vars
  <2>2. SendKeepsLife /\ sends' \in 0 .. MaxSends
    BY <1>1, <1>3, <2>1, CallbackKeepsLife DEF ReadMessage, ConnectionCallback
  <2>3. full' \in BOOLEAN /\ input' \in 0 .. MaxInputs /\ InputSent'
    <3>1. input \in 0 .. MaxInputs /\ inputs \in 0 .. MaxInputs /\ input <= inputs /\ MaxInputs \in Nat
      BY <1>1 DEF InputSent, Life, LifeTyped, TcpAssumption
    <3>2. full \in BOOLEAN
      BY <1>1 DEF Life, LifeTyped
    <3>3. CASE ReadMessage
      <4>1. full' \in BOOLEAN /\ input' \in 0 .. input - 1 /\ inputs' = inputs
        BY <3>3 DEF ReadMessage
      <4> QED
        BY <3>1, <4>1 DEF InputSent
    <3>4. CASE ConnectionCallback
      BY <3>1, <3>2, <3>4 DEF ConnectionCallback, in_vars, InputSent
    <3> QED
      BY <1>3, <3>3, <3>4
  <2> QED
    BY <1>1, <2>1, <2>2, <2>3, SendKeeps DEF Life, LifeTyped, Unborn, Born
<1>4. CASE ReadEnd
  <2>1. connection_status_ \notin {"connecting", "disconnected"}
    BY <1>1, <1>4 DEF ReadEnd, Life, Unborn, NoInputOnceClosed
  <2>2. /\ connection_status_' = "disconnected" /\ ep_event_' = {} /\ registered' = FALSE
        /\ closes' = closes + 1 /\ pc' = "writable"
        /\ UNCHANGED <<event_, out_vars, write_closed, peer, in_vars, queue_vars>>
    BY <1>4 DEF ReadEnd, DisableAll, RemoveChannel
  <2>3. LifeTyped'
    <3>1. closes' \in Nat /\ LifeTyped
      BY <1>1, <2>2 DEF Life, LifeTyped
    <3> QED
      BY <1>1, <2>2, <3>1 DEF LifeTyped, queue_vars, in_vars
  <2>4. ClosedOnce'
    BY <1>1, <2>1, <2>2 DEF Life, ClosedOnce
  <2>5. Unborn' /\ Born' /\ NoInputOnceClosed' /\ ClosedNotPolled' /\ InputSent'
    BY <1>1, <2>1, <2>2
    DEF Life, Unborn, Born, NoInputOnceClosed, ClosedNotPolled, InputSent, queue_vars, in_vars
  <2> QED
    BY <2>3, <2>4, <2>5 DEF Life
<1>5. CASE ReadError \/ NotReadable \/ NotWritable
  <2>1. /\ pc' \in {"writable", "swap"} /\ pc \in {"readable", "writable"}
        /\ UNCHANGED <<connection_status_, event_, channel_vars, out_vars, write_closed, full, inputs,
                       queue_vars, closes>>
        /\ UNCHANGED <<peer, input>> \/ (peer = "reset" /\ peer' = "gone" /\ input' = 0)
    BY <1>5 DEF ReadError, NotReadable, NotWritable, in_vars
  <2> QED
    BY <1>1, <2>1
    DEF Life, LifeTyped, Unborn, Born, NoInputOnceClosed, InputSent,
        ClosedOnce, ClosedNotPolled, channel_vars, out_vars, queue_vars, in_vars
<1>6. CASE OnWritable
  <2>1. /\ \/ connection_status_' = connection_status_
           \/ connection_status_ = "connected" /\ connection_status_' = "disconnecting"
        /\ connection_status_ # "connecting"
        /\ ep_event_' \subseteq ep_event_ /\ registered' \in BOOLEAN
        /\ write_closed' \in BOOLEAN
        /\ peer' \in {peer, "reset"}
    BY <1>1, <1>6, OnWritableLife DEF Life
  <2>2. pc = "writable" /\ pc' = "swap" /\ UNCHANGED <<event_, in_vars, queue_vars, closes>>
    BY <1>6 DEF OnWritable
  <2> QED
    BY <1>1, <2>1, <2>2
    DEF Life, LifeTyped, Unborn, Born, NoInputOnceClosed, InputSent, ClosedOnce,
        ClosedNotPolled, channel_vars, queue_vars, in_vars
<1>7. CASE SwapPending
  <2>1. pc = "swap" /\ pc' = "tasks" /\ batch' = pending /\ pending' = <<>>
    BY <1>7 DEF SwapPending
  <2>2. UNCHANGED <<connection_status_, event_, channel_vars, out_vars, write_closed, peer,
                    in_vars, sends, closes>>
    BY <1>7 DEF SwapPending
  <2>3. LifeTyped' /\ Born'
    <3>1. <<>> \in Seq(Lengths) /\ <<>> \in Seq(Lengths \cup {Established})
      OBVIOUS
    <3> QED
      BY <1>1, <2>1, <2>2, <3>1 DEF Life, LifeTyped, Born, channel_vars, in_vars
  <2>4. Unborn'
    BY <1>1, <2>1, <2>2 DEF Life, Unborn, channel_vars
  <2> QED
    BY <1>1, <2>1, <2>2, <2>3, <2>4
    DEF Life, NoInputOnceClosed, InputSent, ClosedOnce, ClosedNotPolled,
        channel_vars, out_vars, in_vars
<1>8. CASE RunEstablished
  <2>1. /\ pc = "tasks" /\ pc' = "callback" /\ batch # <<>> /\ Head(batch) = Established
        /\ batch' = Tail(batch) /\ connection_status_' = "connected"
        /\ ep_event_' = ep_event_ \cup {"in"} /\ registered' = TRUE
        /\ UNCHANGED <<event_, out_vars, write_closed, peer, in_vars, pending, sends,
                       closes>>
    BY <1>8 DEF RunEstablished, Enable, UpdateChannel
  <2>2. connection_status_ = "connecting"
    <3>1. batch \in Seq(Lengths) => Head(batch) \in Lengths
      BY <2>1, HeadTailProperties
    <3> QED
      BY <1>1, <2>1, <3>1 DEF Life, Born, TcpAssumption, Established
  <2>3. pending' = <<>> /\ batch' = <<>>
    <3>1. batch = <<Established>> /\ pending = <<>>
      BY <1>1, <2>1, <2>2 DEF Life, Unborn
    <3>2. Tail(<<Established>>) = <<>>
      OBVIOUS
    <3> QED
      BY <2>1, <3>1, <3>2
  <2>4. LifeTyped' /\ Born'
    <3>1. <<>> \in Seq(Lengths) /\ <<>> \in Seq(Lengths \cup {Established})
      OBVIOUS
    <3> QED
      BY <1>1, <2>1, <2>3, <3>1 DEF Life, LifeTyped, Born, Events, in_vars
  <2>5. ClosedOnce'
    BY <1>1, <2>1, <2>2 DEF Life, ClosedOnce
  <2> QED
    BY <1>1, <2>1, <2>2, <2>4, <2>5
    DEF Life, Unborn, NoInputOnceClosed, InputSent, ClosedNotPolled,
        out_vars, in_vars
<1>9. CASE RunSend
  <2>1. batch \in Seq(Lengths \cup {Established}) /\ batch # <<>>
    BY <1>1, <1>9 DEF RunSend, Life, LifeTyped
  <2>2. Head(batch) \in Lengths /\ batch' \in Seq(Lengths \cup {Established})
    BY <1>9, <2>1, HeadTailProperties DEF RunSend
  <2>3. SendKeepsLife
    BY <1>1, <1>9, <2>2, SendInLoopLife DEF RunSend, Life
  <2>4. /\ connection_status_ # "connecting" /\ batch' = Tail(batch) /\ pc' = "tasks"
        /\ UNCHANGED <<event_, in_vars, pending, sends, pc, closes>>
    BY <1>9, <2>3 DEF RunSend, SendKeepsLife
  <2>5. Born'
    <3>1. batch \in Seq(Lengths) /\ pending \in Seq(Lengths)
      BY <1>1, <2>4 DEF Life, Born
    <3>2. Tail(batch) \in Seq(Lengths)
      BY <2>1, <3>1, HeadTailProperties
    <3> QED
      BY <2>4, <3>1, <3>2 DEF Born
  <2> QED
    BY <1>1, <2>2, <2>3, <2>4, <2>5, SendKeeps DEF Life, LifeTyped, Unborn, InputSent, in_vars
<1>10. CASE BatchDone
  BY <1>1, <1>10
  DEF BatchDone, Life, LifeTyped, Unborn, Born, NoInputOnceClosed,
      InputSent, ClosedOnce, ClosedNotPolled, channel_vars, out_vars, queue_vars, in_vars
<1>11. CASE \E n \in Lengths : SendRemote(n)
  <2>1. PICK n \in Lengths : SendRemote(n)
    BY <1>11
  <2>2. /\ connection_status_ = "connected" /\ sends' \in 0 .. MaxSends
        /\ pending' = Append(pending, n)
        /\ UNCHANGED <<connection_status_, event_, channel_vars, out_vars, write_closed, peer,
                       in_vars, batch, pc, closes>>
    BY <1>1, <2>1 DEF SendRemote, Life, LifeTyped
  <2>3. pending' \in Seq(Lengths) /\ pending' \in Seq(Lengths \cup {Established})
    BY <1>1, <2>2, AppendProperties DEF Life, LifeTyped, Born
  <2> QED
    BY <1>1, <2>2, <2>3
    DEF Life, LifeTyped, Unborn, Born, NoInputOnceClosed, InputSent,
        ClosedOnce, ClosedNotPolled, channel_vars, out_vars, in_vars
<1>12. CASE PeerSends \/ PeerReads \/ PeerLeaves \/ Strikes
  <2>1. UNCHANGED <<connection_status_, event_, channel_vars, send_buffer_, write_closed,
                    queue_vars, pc, closes>>
    BY <1>12 DEF PeerSends, PeerReads, PeerLeaves, Strikes, out_vars
  <2>2. /\ full' \in BOOLEAN /\ input' \in 0 .. MaxInputs /\ inputs' \in 0 .. MaxInputs /\ input' <= inputs'
        /\ peer' \in {"open", "closed", "reset", "gone"}
    <3>1. input <= inputs /\ LifeTyped /\ MaxInputs \in Nat
      BY <1>1 DEF Life, InputSent, TcpAssumption
    <3>2. CASE PeerSends
      BY <3>1, <3>2 DEF PeerSends, LifeTyped
    <3>3. CASE PeerReads \/ PeerLeaves \/ Strikes
      BY <3>1, <3>3 DEF PeerReads, PeerLeaves, Strikes, LifeTyped, in_vars
    <3> QED
      BY <1>12, <3>2, <3>3
  <2> QED
    BY <1>1, <2>1, <2>2
    DEF Life, LifeTyped, Unborn, Born, NoInputOnceClosed, InputSent,
        ClosedOnce, ClosedNotPolled, channel_vars, queue_vars
<1>13. CASE UNCHANGED vars
  BY <1>1, <1>13
  DEF vars, Life, LifeTyped, Unborn, Born, NoInputOnceClosed, InputSent,
      ClosedOnce, ClosedNotPolled, channel_vars, out_vars, queue_vars, in_vars
<1> QED
  BY <1>2, <1>3, <1>4, <1>5, <1>6, <1>7, <1>8, <1>9, <1>10, <1>11, <1>12, <1>13
  DEF Next, LoopThread, Environment

LEMMA InvHolds == Spec => []Inv
<1>1. Init => Inv
  <2> SUFFICES ASSUME Init PROVE Inv
    OBVIOUS
  <2>1. TypeOK
    <3>1. /\ <<>> \in Seq(Nat) /\ <<>> \in Seq(Lengths \cup {Established})
          /\ <<Established>> \in Seq(Lengths \cup {Established})
      OBVIOUS
    <3>2. 0 \in 0 .. MaxInputs /\ 0 \in 0 .. MaxSends /\ Room \in 0 .. Room
      BY TcpAssumption DEF TcpAssumption
    <3> QED
      BY <3>1, <3>2 DEF Init, TypeOK
  <2>2. StreamInOrder
    BY DEF Init, StreamInOrder
  <2> QED
    BY <2>1, <2>2
    DEF Inv, Init, Unborn, Born, NoInputOnceClosed, GivenUpOnceFailed,
        InputSent, ClosedOnce, ClosedNotPolled
<1>2. Inv /\ [Next]_vars => Inv'
  <2> SUFFICES ASSUME Inv, [Next]_vars PROVE Inv'
    OBVIOUS
  <2>1. Life' /\ DataTyped' /\ StreamInOrder' /\ GivenUpOnceFailed'
    BY TcpAssumption, LifeStep, StreamStep
  <2> QED
    BY <2>1 DEF Inv, Life, LifeTyped, DataTyped, TypeOK
<1> QED
  BY <1>1, <1>2, PTL DEF Spec

-----------------------------------------------------------------------------
(* The types of the connection, its channel, its queue and its peer.       *)
THEOREM ConnectionTypeCorrect == Spec => []TypeOK
<1>1. Inv => TypeOK
  BY DEF Inv
<1> QED
  BY <1>1, InvHolds, PTL

(* TcpConnection.cpp:219-282 and 76-111: the wire and the send buffer hold *)
(* what SendInLoop took, each unit once and in order, whatever the lengths *)
(* of the Sends and the room the peer leaves.                              *)
THEOREM StreamStaysInOrder == Spec => []StreamInOrder
<1>1. Inv => StreamInOrder
  BY DEF Inv
<1> QED
  BY <1>1, InvHolds, PTL

(* TcpConnection.cpp:118-131: OnClose runs once in the life of a           *)
(* connection, even if the peer resets, Sends are still queued or          *)
(* OnWritable follows it in the same round.                                *)
THEOREM ClosesOnce == Spec => []ClosedOnce
<1>1. Inv => ClosedOnce
  BY DEF Inv
<1> QED
  BY <1>1, InvHolds, PTL

(* TcpConnection.cpp:64-68: nothing asks for events of a closed connection *)
(* again, neither a queued Send nor the OnWritable of the closing round.   *)
THEOREM ClosedStaysUnpolled == Spec => []ClosedNotPolled
<1>1. Inv => ClosedNotPolled
  BY DEF Inv
<1> QED
  BY <1>1, InvHolds, PTL
=============================================================================
