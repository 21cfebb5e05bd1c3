-------------------------- MODULE TcpServerProofs --------------------------
(***************************************************************************)
(* Proofs about TcpServer, for every number of io threads, every set of    *)
(* descriptors and of client addresses, and every number of connections,   *)
(* whether the application keeps them or not.                              *)
(***************************************************************************)
EXTENDS TcpServer, SequenceTheorems, FiniteSetTheorems, WellFoundedInduction, TLAPS

-----------------------------------------------------------------------------
(* The invariant.                                                          *)

In(s, c) == \E i \in DOMAIN s : s[i] = c
Once(s) == \A i, j \in DOMAIN s : s[i] = s[j] => i = j

Made == 1 .. made
InMap(c) == connection_map_[conn[c].name] = c
Queued(c, l) == In(pending_func_[l], c) \/ In(batch[l], c)
Coming(c) == pc[BaseLoop] = "accepted" /\ current[BaseLoop] = c

(* The bounds that the types do not state.                                 *)
Bounded ==
    /\ made + Len(backlog) <= MaxConnections
    /\ thread_num_ # 0 => next_thread_id_ < thread_num_
    /\ \A l \in Loops : LISTEN \in active_channels_[l] => l = BaseLoop /\ backlog # <<>>

(* A name is used once, whoever comes back from the same address.          *)
NamesUnique ==
    /\ connection_id_ = made
    /\ \A c \in Made : conn[c].name = <<conn[c].addr, c - 1>>

MapNames ==
    \A name \in Names : connection_map_[name] # NULL =>
        connection_map_[name] \in Made /\ conn[connection_map_[name]].name = name

(* A connection that has not ended is in the map, from AddConnection on.   *)
Rooted ==
    \A c \in Made : conn[c].status # "disconnected" => InMap(c) \/ Coming(c)

WatchedWhileConnected ==
    /\ \A c \in Made : conn[c].registered <=> conn[c].status = "connected"
    /\ \A l \in Loops, c \in Conns : c \in active_channels_[l] =>
          c \in Made /\ conn[c].loop = l /\ conn[c].status = "connected"

(* The connection OnNewConnection has not handed over yet.                 *)
BeingMade ==
    pc[BaseLoop] \in {"accepted", "added"} =>
        /\ current[BaseLoop] \in Made /\ conn[current[BaseLoop]].status = "connecting"
        /\ pc[BaseLoop] = "added" => InMap(current[BaseLoop])
        /\ \A l \in Loops : ~Queued(current[BaseLoop], l)

(* A connection is established once, on the loop it was given to.          *)
EstablishedOnce ==
    \A l \in Loops :
        /\ Once(pending_func_[l]) /\ Once(batch[l])
        /\ \A c \in Conns : ~(In(pending_func_[l], c) /\ In(batch[l], c))
        /\ \A c \in Conns : Queued(c, l) =>
              c \in Made /\ conn[c].loop = l /\ conn[c].status = "connecting" /\ InMap(c)

(* What a handler that runs holds on to.                                   *)
Guarded ==
    \A l \in Loops :
        /\ pc[l] \in {"poll", "active", "pending"} => current[l] = NULL
        /\ pc[l] = "closing" =>
              current[l] \in Made /\ conn[current[l]].status = "disconnected"

Inv ==
    /\ TypeOK /\ Bounded
    /\ NamesUnique /\ MapNames /\ Rooted
    /\ WatchedWhileConnected
    /\ BeingMade /\ EstablishedOnce
    /\ Guarded

-----------------------------------------------------------------------------
(* What the operators promise.                                             *)

(* A set of naturals that is not empty has a least element.                *)
LEMMA LeastOf ==
  ASSUME NEW S \in SUBSET Nat, S # {}
  PROVE  Min(S) \in S
<1> DEFINE R == StrictSubsetOrdering(Nat)
           T == {0 .. x : x \in S}
<1>1. IsWellFoundedOn(R, FiniteSubsetsOf(Nat))
  BY FS_StrictSubsetOrderingWellFounded
<1>2. T \subseteq FiniteSubsetsOf(Nat) /\ T # {}
  <2>1. \A x \in S : IsFiniteSet(0 .. x) /\ 0 .. x \subseteq Nat
    BY FS_Interval
  <2> QED
    BY <2>1 DEF FiniteSubsetsOf
<1>3. PICK t \in T : \A u \in T : ~(<<u, t>> \in R)
  <2> HIDE DEF R, T
  <2> QED
    BY <1>1, <1>2, WFMin
<1>4. PICK x \in S : t = 0 .. x
  OBVIOUS
<1>5. ASSUME NEW y \in S PROVE x <= y
  <2>1. 0 .. y \in T
    OBVIOUS
  <2>2. ~(0 .. y \subseteq 0 .. x /\ 0 .. y # 0 .. x)
    <3>1. <<0 .. y, 0 .. x>> \in (SUBSET Nat) \X (SUBSET Nat)
      OBVIOUS
    <3>2. ~(<<0 .. y, 0 .. x>> \in R)
      <4> HIDE DEF R, T
      <4> QED
        BY <1>3, <1>4, <2>1
    <3> QED
      BY <3>1, <3>2 DEF StrictSubsetOrdering
  <2>3. y < x => 0 .. y \subseteq 0 .. x /\ x \notin 0 .. y /\ x \in 0 .. x
    OBVIOUS
  <2> QED
    BY <2>2, <2>3
<1> QED
  BY <1>5 DEF Min

LEMMA AppendOnce ==
  ASSUME NEW S, NEW s \in Seq(S), NEW x \in S
  PROVE  /\ \A c : In(Append(s, x), c) <=> In(s, c) \/ c = x
         /\ Once(s) /\ ~In(s, x) => Once(Append(s, x))
<1> DEFINE t == Append(s, x)
<1>1. /\ Len(s) \in Nat /\ DOMAIN s = 1 .. Len(s) /\ DOMAIN t = 1 .. Len(s) + 1
      /\ \A i \in 1 .. Len(s) : t[i] = s[i]
      /\ t[Len(s) + 1] = x
  BY AppendProperties, LenProperties
<1> HIDE DEF t
<1>2. \A c : In(t, c) <=> In(s, c) \/ c = x
  BY <1>1 DEF In
<1>3. ASSUME Once(s), ~In(s, x) PROVE Once(t)
  BY <1>1, <1>3 DEF In, Once
<1> QED
  BY <1>2, <1>3 DEF t

LEMMA TailOnce ==
  ASSUME NEW S, NEW s \in Seq(S), s # <<>>, Once(s)
  PROVE  /\ Head(s) \in S /\ Tail(s) \in Seq(S)
         /\ In(s, Head(s)) /\ ~In(Tail(s), Head(s))
         /\ \A c : In(Tail(s), c) => In(s, c)
         /\ Once(Tail(s))
<1> DEFINE t == Tail(s)
<1>1. /\ Len(s) \in Nat \ {0} /\ DOMAIN s = 1 .. Len(s) /\ Head(s) = s[1]
      /\ Head(s) \in S /\ t \in Seq(S) /\ DOMAIN t = 1 .. Len(s) - 1
      /\ \A i \in 1 .. Len(s) - 1 : t[i] = s[i + 1]
  BY HeadTailProperties, LenProperties, EmptySeq
<1>2. \A i \in DOMAIN t : i + 1 \in DOMAIN s /\ i + 1 # 1 /\ t[i] = s[i + 1]
  BY <1>1
<1>3. 1 \in DOMAIN s
  BY <1>1
<1>4. \A i, j \in DOMAIN t : i + 1 = j + 1 => i = j
  BY <1>1
<1> HIDE DEF t
<1>5. In(s, Head(s))
  BY <1>1, <1>3 DEF In
<1>6. \A c : In(t, c) => In(s, c)
  BY <1>2 DEF In
<1>7. ~In(t, Head(s))
  BY <1>1, <1>2, <1>3 DEF In, Once
<1>8. Once(t)
  BY <1>2, <1>4 DEF Once
<1> QED
  BY <1>1, <1>5, <1>6, <1>7, <1>8 DEF t

-----------------------------------------------------------------------------
(* The steps that neither make, move nor end a connection.                 *)

LEMMA ConstantsTyped ==
  /\ MaxThreads \in Nat /\ MaxConnections \in Nat /\ ThreadNums \subseteq 0 .. MaxThreads
  /\ Descriptors \subseteq Nat /\ Keeps \subseteq BOOLEAN
  /\ BaseLoop \in Loops
  BY ServerAssumption DEF ServerAssumption, BaseLoop, Loops

(* What they leave alone, and what follows from that alone.                *)
Quiet ==
    /\ UNCHANGED <<keeps, thread_num_, next_thread_id_, made, connection_id_, connection_map_,
                   conn, held, queue_vars>>
    /\ pc'[BaseLoop] \in {"accepted", "added"} => pc'[BaseLoop] = pc[BaseLoop]
    /\ pc[BaseLoop] = "accepted" => pc'[BaseLoop] = "accepted"
    /\ pc[BaseLoop] \in {"accepted", "added"} => current'[BaseLoop] = current[BaseLoop]

LEMMA QuietKeeps ==
  ASSUME Inv, Quiet
  PROVE  NamesUnique' /\ MapNames' /\ Rooted' /\ BeingMade' /\ EstablishedOnce'
<1>1. Made' = Made /\ UNCHANGED <<conn, connection_map_, pending_func_, batch, made>>
  BY DEF Quiet, Made, queue_vars
<1>2. NamesUnique' /\ MapNames'
  BY <1>1 DEF Quiet, Inv, NamesUnique, MapNames
<1>3. Rooted'
  BY <1>1 DEF Quiet, Inv, Rooted, InMap, Coming
<1>4. BeingMade'
  BY <1>1 DEF Quiet, Inv, BeingMade, InMap, Queued
<1>5. EstablishedOnce'
  BY <1>1 DEF Inv, EstablishedOnce, InMap, Queued
<1> QED
  BY <1>2, <1>3, <1>4, <1>5

LEMMA QuietStep ==
  ASSUME Inv,
         \/ StartThread \/ AcceptFails \/ NewConnectionDone
         \/ \E l \in Loops : Poll(l) \/ BatchDone(l)
         \/ \E addr \in Addresses : ClientConnects(addr)
         \/ \E c \in Conns : ClientLeaves(c)
         \/ UNCHANGED vars
  PROVE  Inv'
<1> USE ConstantsTyped DEF BaseLoop, NULL, LISTEN
<1>1. TypeOK /\ Bounded /\ WatchedWhileConnected /\ Guarded /\ BeingMade
  BY DEF Inv
<1>2. ASSUME Quiet, UNCHANGED <<threads_, active_channels_, backlog>>, left' \subseteq Conns,
             pc' \in [Loops -> {"poll", "active", "closing", "accepted", "added", "queued",
                       "pending", "aborted"}],
             current' \in [Loops -> Conns \cup {NULL}], Guarded'
      PROVE  Inv'
  <2>1. UNCHANGED <<keeps, thread_num_, next_thread_id_, made, connection_id_, connection_map_,
                    conn, held, pending_func_, batch>>
    BY <1>2 DEF Quiet, queue_vars
  <2>2. TypeOK' /\ Bounded'
    BY <1>1, <1>2, <2>1 DEF TypeOK, Bounded
  <2>3. WatchedWhileConnected'
    BY <1>1, <1>2, <2>1 DEF WatchedWhileConnected, Made
  <2> QED
    BY <1>2, <2>2, <2>3, QuietKeeps DEF Inv
<1>3. CASE StartThread
  <2>1. Quiet /\ UNCHANGED <<active_channels_, backlog, left, pc, current>>
    BY <1>3 DEF StartThread, Quiet, client_vars
  <2>2. Guarded' /\ WatchedWhileConnected' /\ Bounded'
    BY <1>1, <2>1 DEF Guarded, Quiet, Made, WatchedWhileConnected, Bounded
  <2>3. TypeOK'
    BY <1>1, <1>3 DEF TypeOK, StartThread, client_vars, queue_vars
  <2> QED
    BY <2>1, <2>2, <2>3, QuietKeeps DEF Inv
<1>4. CASE AcceptFails
  <2>1. /\ Quiet /\ UNCHANGED <<threads_, active_channels_, backlog, left, current>>
        /\ pc' = [l \in Loops |-> "aborted"]
    BY <1>4 DEF AcceptFails, OnReadable, Quiet, client_vars, pool_vars
  <2>2. Guarded'
    BY <2>1 DEF Guarded
  <2> QED
    BY <1>1, <1>2, <2>1, <2>2 DEF TypeOK
<1>5. CASE NewConnectionDone
  <2>1. /\ pc[0] = "queued" /\ current' = [current EXCEPT ![0] = 0]
        /\ pc' = [pc EXCEPT ![0] = "active"]
        /\ UNCHANGED <<threads_, active_channels_, backlog, left>>
    BY <1>5 DEF NewConnectionDone, client_vars, pool_vars
  <2>2. Quiet
    BY <1>1, <1>5, <2>1 DEF NewConnectionDone, Quiet, client_vars, pool_vars, TypeOK
  <2>3. Guarded'
    BY <1>1, <2>1, <2>2 DEF Guarded, TypeOK, Quiet, Made
  <2> QED
    BY <1>1, <1>2, <2>1, <2>2, <2>3 DEF TypeOK
<1>6. CASE \E l \in Loops : BatchDone(l)
  <2>1. PICK l \in Loops : BatchDone(l)
    BY <1>6
  <2>2. /\ pc[l] = "pending" /\ pc' = [pc EXCEPT ![l] = "poll"]
        /\ UNCHANGED <<threads_, active_channels_, backlog, left, current>>
    BY <2>1 DEF BatchDone, client_vars, pool_vars
  <2>3. Quiet
    BY <1>1, <2>1, <2>2 DEF BatchDone, Quiet, client_vars, pool_vars, TypeOK
  <2>4. Guarded'
    BY <1>1, <2>2, <2>3 DEF Guarded, TypeOK, Quiet, Made
  <2> QED
    BY <1>1, <1>2, <2>2, <2>3, <2>4 DEF TypeOK
<1>7. CASE \E l \in Loops : Poll(l)
  <2>1. PICK l \in Loops : Poll(l)
    BY <1>7
  <2> DEFINE found == {c \in left : conn[c].loop = l /\ conn[c].registered}
                      \cup {x \in {LISTEN} : l = BaseLoop /\ backlog # <<>>}
  <2>2. /\ pc[l] = "poll" /\ pc' = [pc EXCEPT ![l] = "active"]
        /\ active_channels_' = [active_channels_ EXCEPT ![l] = found]
        /\ UNCHANGED <<threads_, backlog, left, current>>
    BY <2>1 DEF Poll, client_vars, pool_vars
  <2>3. Quiet
    BY <1>1, <2>1, <2>2 DEF Poll, Quiet, client_vars, pool_vars, TypeOK
  <2>4. \A c \in found : c = LISTEN \/
            (c \in Made /\ conn[c].loop = l /\ conn[c].status = "connected")
    <3>1. \A c \in left : conn[c].registered => c \in Made
      BY <1>1 DEF TypeOK, Made, NoConnection, Conns
    <3> QED
      BY <1>1, <3>1 DEF WatchedWhileConnected
  <2>5. LISTEN \in found => l = BaseLoop /\ backlog # <<>>
    BY <1>1 DEF TypeOK, Conns
  <2>6. found \subseteq Conns \cup {LISTEN}
    BY <1>1 DEF TypeOK
  <2> HIDE DEF found
  <2>7. TypeOK'
    BY <1>1, <2>2, <2>3, <2>6 DEF TypeOK, Quiet, queue_vars
  <2>8. Bounded'
    BY <1>1, <2>2, <2>3, <2>5 DEF TypeOK, Bounded, Quiet
  <2>9. WatchedWhileConnected'
    <3>1. Made' = Made /\ conn' = conn
      BY <2>3 DEF Quiet, Made
    <3>2. ASSUME NEW m \in Loops, NEW c \in Conns, c \in active_channels_'[m]
          PROVE  c \in Made /\ conn[c].loop = m /\ conn[c].status = "connected"
      <4>1. CASE m = l
        <5>1. c \in found
          BY <1>1, <2>2, <3>2, <4>1 DEF TypeOK
        <5>2. c # LISTEN
          BY DEF Conns
        <5> QED
          BY <2>4, <4>1, <5>1, <5>2
      <4>2. CASE m # l
        BY <1>1, <2>2, <3>2, <4>2 DEF TypeOK, WatchedWhileConnected
      <4> QED
        BY <4>1, <4>2
    <3> QED
      BY <1>1, <3>1, <3>2 DEF WatchedWhileConnected
  <2>10. Guarded'
    BY <1>1, <2>2, <2>3 DEF Guarded, TypeOK, Quiet, Made
  <2> QED
    BY <2>3, <2>7, <2>8, <2>9, <2>10, QuietKeeps DEF Inv
<1>8. CASE \E addr \in Addresses : ClientConnects(addr)
  <2>1. PICK addr \in Addresses : ClientConnects(addr)
    BY <1>8
  <2>2. /\ backlog' = Append(backlog, addr) /\ made + Len(backlog) < MaxConnections
        /\ UNCHANGED <<threads_, active_channels_, left, pc, current>>
    BY <2>1 DEF ClientConnects, pool_vars
  <2>3. Quiet
    BY <2>1, <2>2 DEF ClientConnects, Quiet, pool_vars
  <2>4. /\ backlog' \in Seq(Addresses) /\ backlog' # <<>> /\ Len(backlog') = Len(backlog) + 1
        /\ Len(backlog) \in Nat
    BY <1>1, <2>2, AppendProperties, LenProperties DEF TypeOK
  <2>5. TypeOK' /\ Bounded'
    BY <1>1, <2>2, <2>3, <2>4 DEF TypeOK, Bounded, Quiet, queue_vars
  <2>6. WatchedWhileConnected' /\ Guarded'
    BY <1>1, <2>2, <2>3 DEF WatchedWhileConnected, Guarded, Quiet, Made
  <2> QED
    BY <2>3, <2>5, <2>6, QuietKeeps DEF Inv
<1>9. CASE \E c \in Conns : ClientLeaves(c)
  <2>1. PICK c \in Conns : ClientLeaves(c)
    BY <1>9
  <2>2. /\ left' \subseteq Conns
        /\ UNCHANGED <<threads_, active_channels_, backlog, pc, current>>
    BY <1>1, <2>1 DEF ClientLeaves, pool_vars, TypeOK
  <2>3. Quiet
    BY <2>1, <2>2 DEF ClientLeaves, Quiet, pool_vars
  <2>4. Guarded'
    BY <1>1, <2>2, <2>3 DEF Guarded, Quiet, Made
  <2> QED
    BY <1>1, <1>2, <2>2, <2>3, <2>4 DEF TypeOK
<1>10. CASE UNCHANGED vars
  <2>1. Quiet /\ UNCHANGED <<threads_, active_channels_, backlog, left, pc, current>>
    BY <1>10 DEF vars, Quiet, pool_vars, client_vars
  <2>2. Guarded'
    BY <1>1, <2>1 DEF Guarded, Quiet, Made
  <2> QED
    BY <1>1, <1>2, <2>1, <2>2 DEF TypeOK
<1> QED
  BY <1>3, <1>4, <1>5, <1>6, <1>7, <1>8, <1>9, <1>10

-----------------------------------------------------------------------------
(* The end of a connection.                                                *)

LEMMA SwapPendingStep ==
  ASSUME Inv, NEW l \in Loops, SwapPending(l)
  PROVE  Inv'
<1> USE ConstantsTyped DEF BaseLoop, NULL, LISTEN
<1>1. /\ TypeOK /\ Bounded /\ NamesUnique /\ MapNames /\ Rooted /\ WatchedWhileConnected
      /\ BeingMade /\ EstablishedOnce /\ Guarded
  BY DEF Inv
<1>2. /\ pc[l] = "active" /\ pc' = [pc EXCEPT ![l] = "pending"]
      /\ batch' = [batch EXCEPT ![l] = pending_func_[l]]
      /\ pending_func_' = [pending_func_ EXCEPT ![l] = <<>>]
      /\ UNCHANGED <<keeps, thread_num_, threads_, next_thread_id_, made, connection_id_,
                     connection_map_, conn, backlog, left, held, active_channels_, current>>
      /\ Made' = Made
  BY DEF SwapPending, pool_vars, client_vars, Made
<1>3. TypeOK'
  BY <1>1, <1>2 DEF TypeOK
<1>4. Bounded' /\ NamesUnique' /\ MapNames' /\ WatchedWhileConnected'
  BY <1>1, <1>2 DEF Bounded, NamesUnique, MapNames, WatchedWhileConnected
<1>5. pc[0] \in {"accepted", "added"} \/ pc'[0] \in {"accepted", "added"} => pc'[0] = pc[0]
  BY <1>1, <1>2 DEF TypeOK
<1>6. Rooted'
  BY <1>1, <1>2, <1>5 DEF Rooted, InMap, Coming
<1>7. ASSUME NEW m \in Loops
      PROVE  /\ Once(pending_func_'[m]) /\ Once(batch'[m])
             /\ \A c \in Conns : ~(In(pending_func_'[m], c) /\ In(batch'[m], c))
             /\ \A c : Queued(c, m)' => Queued(c, m)
  <2>1. Once(<<>>) /\ \A c : ~In(<<>>, c)
    BY DEF Once, In
  <2>2. CASE m = l
    <3>1. pending_func_'[m] = <<>> /\ batch'[m] = pending_func_[m]
      BY <1>1, <1>2, <2>2 DEF TypeOK
    <3> QED
      BY <1>1, <2>1, <3>1 DEF EstablishedOnce, Queued
  <2>3. CASE m # l
    <3>1. pending_func_'[m] = pending_func_[m] /\ batch'[m] = batch[m]
      BY <1>1, <1>2, <2>3 DEF TypeOK
    <3> QED
      BY <1>1, <3>1 DEF EstablishedOnce, Queued
  <2> QED
    BY <2>2, <2>3
<1>8. EstablishedOnce'
  BY <1>1, <1>2, <1>7 DEF EstablishedOnce, InMap
<1>9. BeingMade'
  BY <1>1, <1>2, <1>5, <1>7 DEF BeingMade, InMap
<1>10. Guarded'
  BY <1>1, <1>2 DEF Guarded, TypeOK
<1> QED
  BY <1>3, <1>4, <1>6, <1>8, <1>9, <1>10 DEF Inv

LEMMA OnCloseStep ==
  ASSUME Inv, NEW l \in Loops, NEW c \in Conns, OnClose(l, c)
  PROVE  Inv'
<1> USE ConstantsTyped DEF BaseLoop, NULL, LISTEN
<1>1. /\ TypeOK /\ Bounded /\ NamesUnique /\ MapNames /\ Rooted /\ WatchedWhileConnected
      /\ BeingMade /\ EstablishedOnce /\ Guarded
  BY DEF Inv
<1>2. /\ pc[l] = "active" /\ pc' = [pc EXCEPT ![l] = "closing"]
      /\ c \in active_channels_[l]
      /\ active_channels_' = [active_channels_ EXCEPT ![l] = @ \ {c}]
      /\ current' = [current EXCEPT ![l] = c]
      /\ UNCHANGED <<keeps, thread_num_, threads_, next_thread_id_, made, connection_id_,
                     connection_map_, backlog, left, held, pending_func_, batch>>
      /\ Made' = Made
  BY DEF OnClose, pool_vars, client_vars, queue_vars, Made
<1>3. c \in Made /\ conn[c].loop = l /\ conn[c].status = "connected" /\ c # 0
  BY <1>1, <1>2 DEF WatchedWhileConnected, Conns
<1>4. /\ DOMAIN conn' = Conns /\ conn'[c] \in TcpConnections
      /\ conn'[c].name = conn[c].name /\ conn'[c].addr = conn[c].addr
      /\ conn'[c].loop = conn[c].loop
      /\ conn'[c].status = "disconnected" /\ conn'[c].registered = FALSE
      /\ \A d \in Conns : d # c => conn'[d] = conn[d]
  <2>1. conn[c] \in TcpConnections
    BY <1>1, <1>3 DEF TypeOK, Made
  <2>2. conn' = [conn EXCEPT ![c].status = "disconnected", ![c].registered = FALSE]
    BY DEF OnClose
  <2> QED
    BY <1>1, <2>1, <2>2 DEF TypeOK, TcpConnections
<1>5. Made \subseteq Conns
  BY <1>1 DEF TypeOK, Made, Conns
<1>6. TypeOK'
  <2>1. \A d \in Conns :
           IF d > made THEN conn'[d] = NoConnection ELSE conn'[d] \in TcpConnections
    <3>1. ~(c > made)
      BY <1>1, <1>3 DEF Made, TypeOK
    <3>2. \A d \in Conns :
             IF d > made THEN conn[d] = NoConnection ELSE conn[d] \in TcpConnections
      BY <1>1 DEF TypeOK
    <3> QED
      BY <1>4, <3>1, <3>2
  <2> QED
    BY <1>1, <1>2, <1>4, <2>1 DEF TypeOK
<1>7. Bounded'
  BY <1>1, <1>2, <1>3 DEF Bounded, TypeOK
<1>8. NamesUnique' /\ MapNames'
  BY <1>1, <1>2, <1>4, <1>5 DEF NamesUnique, MapNames
<1>9. /\ pc[0] \in {"accepted", "added"} \/ pc'[0] \in {"accepted", "added"}
            => pc'[0] = pc[0] /\ current'[0] = current[0]
  BY <1>1, <1>2 DEF TypeOK
<1>10. Rooted'
  BY <1>1, <1>2, <1>4, <1>5, <1>9 DEF Rooted, InMap, Coming
<1>11. WatchedWhileConnected'
  <2>1. \A d \in Made : conn'[d].registered <=> conn'[d].status = "connected"
    BY <1>1, <1>4, <1>5 DEF WatchedWhileConnected
  <2>2. ASSUME NEW m \in Loops, NEW d \in Conns, d \in active_channels_'[m]
        PROVE  d \in Made /\ conn'[d].loop = m /\ conn'[d].status = "connected"
    <3>1. d \in active_channels_[m] /\ d # c
      BY <1>1, <1>2, <1>3, <2>2 DEF TypeOK, WatchedWhileConnected
    <3> QED
      BY <1>1, <1>4, <3>1 DEF WatchedWhileConnected
  <2> QED
    BY <1>2, <2>1, <2>2 DEF WatchedWhileConnected
<1>12. BeingMade'
  BY <1>1, <1>2, <1>3, <1>4, <1>5, <1>9 DEF BeingMade, InMap, Queued
<1>13. EstablishedOnce'
  BY <1>1, <1>2, <1>3, <1>4, <1>5 DEF EstablishedOnce, InMap, Queued
<1>14. Guarded'
  BY <1>1, <1>2, <1>3, <1>4, <1>5 DEF Guarded, TypeOK
<1> QED
  BY <1>6, <1>7, <1>8, <1>10, <1>11, <1>12, <1>13, <1>14 DEF Inv

(* Two connections never have one name, so erasing one entry loses no other. *)
LEMMA NamesDiffer ==
  ASSUME Inv, NEW c \in Made, NEW d \in Made, c # d
  PROVE  conn[c].name # conn[d].name
BY DEF Inv, NamesUnique, Made, TypeOK

LEMMA OnCloseConnectionStep ==
  ASSUME Inv, NEW l \in Loops, OnCloseConnection(l)
  PROVE  Inv'
<1> USE ConstantsTyped DEF BaseLoop, NULL, LISTEN
<1> DEFINE d == current[l]
<1>1. /\ TypeOK /\ Bounded /\ NamesUnique /\ MapNames /\ Rooted /\ WatchedWhileConnected
      /\ BeingMade /\ EstablishedOnce /\ Guarded
  BY DEF Inv
<1>2. /\ pc[l] = "closing" /\ pc' = [pc EXCEPT ![l] = "active"]
      /\ connection_map_' = [connection_map_ EXCEPT ![conn[d].name] = 0]
      /\ current' = [current EXCEPT ![l] = 0]
      /\ UNCHANGED <<keeps, thread_num_, threads_, next_thread_id_, made, connection_id_, conn,
                     backlog, left, held, active_channels_, pending_func_, batch>>
      /\ Made' = Made
  BY DEF OnCloseConnection, pool_vars, client_vars, queue_vars, Made
<1>3. d \in Made /\ conn[d].status = "disconnected"
  BY <1>1, <1>2 DEF Guarded
<1>4. /\ conn[d].name \in Names
      /\ connection_map_' \in [Names -> Conns \cup {0}]
      /\ \A name \in Names : connection_map_'[name] # 0
            => connection_map_'[name] = connection_map_[name]
  BY <1>1, <1>2, <1>3 DEF TypeOK, TcpConnections, Made, Conns
<1>5. ASSUME NEW e \in Made, conn[e].status # "disconnected", InMap(e)
      PROVE  InMap(e)'
  <2>1. conn[e].name # conn[d].name
    BY <1>3, <1>5, NamesDiffer
  <2>2. conn[e].name \in Names
    BY <1>1 DEF TypeOK, TcpConnections, Made, Conns
  <2> QED
    BY <1>1, <1>2, <1>5, <2>1, <2>2 DEF InMap, TypeOK
<1>6. TypeOK'
  BY <1>1, <1>2, <1>4 DEF TypeOK
<1>7. Bounded' /\ NamesUnique' /\ MapNames' /\ WatchedWhileConnected'
  BY <1>1, <1>2, <1>4 DEF Bounded, NamesUnique, MapNames, WatchedWhileConnected
<1>8. /\ pc[0] \in {"accepted", "added"} \/ pc'[0] \in {"accepted", "added"}
            => pc'[0] = pc[0] /\ current'[0] = current[0]
  BY <1>1, <1>2 DEF TypeOK
<1>9. Rooted'
  BY <1>1, <1>2, <1>5, <1>8 DEF Rooted, Coming
<1>10. BeingMade'
  BY <1>1, <1>2, <1>5, <1>8 DEF BeingMade, Queued
<1>11. EstablishedOnce'
  BY <1>1, <1>2, <1>5 DEF EstablishedOnce, Queued
<1>12. Guarded'
  BY <1>1, <1>2, <1>3 DEF Guarded, TypeOK
<1> QED
  BY <1>6, <1>7, <1>9, <1>10, <1>11, <1>12 DEF Inv

-----------------------------------------------------------------------------
(* A connection from accept() to Established.                              *)

LEMMA AcceptStep ==
  ASSUME Inv, Accept
  PROVE  Inv'
<1> USE ConstantsTyped DEF BaseLoop, NULL, LISTEN
<1> DEFINE n == made + 1
           addr == Head(backlog)
<1>1. /\ TypeOK /\ Bounded /\ NamesUnique /\ MapNames /\ Rooted /\ WatchedWhileConnected
      /\ BeingMade /\ EstablishedOnce /\ Guarded
  BY DEF Inv
<1>2. /\ pc[0] = "active" /\ 0 \in active_channels_[0] /\ Free # {}
      /\ active_channels_' = [active_channels_ EXCEPT ![0] = @ \ {0}]
      /\ backlog' = Tail(backlog)
      /\ made' = n /\ connection_id_' = connection_id_ + 1
      /\ GetNextLoop
      /\ conn' = [conn EXCEPT ![n] =
                     [name |-> ConnectionName(addr), addr |-> addr, fd |-> Min(Free),
                      loop |-> NextLoop, status |-> "connecting", registered |-> FALSE]]
      /\ current' = [current EXCEPT ![0] = n]
      /\ pc' = [pc EXCEPT ![0] = "accepted"]
      /\ UNCHANGED <<keeps, thread_num_, threads_, connection_map_, left, held,
                     pending_func_, batch>>
  BY DEF Accept, OnReadable, queue_vars
<1>3. backlog # <<>>
  BY <1>1, <1>2 DEF Bounded
<1>4. /\ addr \in Addresses /\ backlog' \in Seq(Addresses)
      /\ Len(backlog) \in Nat /\ Len(backlog') = Len(backlog) - 1 /\ Len(backlog) # 0
  BY <1>1, <1>2, <1>3, HeadTailProperties, LenProperties, EmptySeq DEF TypeOK
<1>5. /\ made \in Nat /\ n \in Conns /\ n \in 1 .. MaxConnections /\ n \notin Made
      /\ made' \in 0 .. MaxConnections /\ connection_id_' = made'
      /\ made' + Len(backlog') <= MaxConnections
      /\ connection_id_ = made /\ connection_id_' \in 0 .. MaxConnections
      /\ made \in 0 .. MaxConnections
  BY <1>1, <1>2, <1>4 DEF TypeOK, Bounded, NamesUnique, Conns, Made
<1>6. Made' = Made \cup {n} /\ Made \subseteq Conns /\ n # 0
  BY <1>2, <1>5 DEF Made, Conns
<1>7. Min(Free) \in Descriptors
  BY <1>2, LeastOf DEF Free
<1>8. /\ NextLoop \in Loops /\ next_thread_id_' \in 0 .. thread_num_
      /\ thread_num_ # 0 => next_thread_id_' < thread_num_
  <2>1. /\ thread_num_ \in 0 .. MaxThreads
        /\ next_thread_id_ \in 0 .. thread_num_
        /\ thread_num_ # 0 => next_thread_id_ < thread_num_
    BY <1>1 DEF TypeOK, Bounded
  <2>2. CASE thread_num_ = 0
    BY <1>2, <2>1, <2>2 DEF GetNextLoop, NextLoop
  <2>3. CASE thread_num_ # 0
    <3>1. NextLoop = next_thread_id_ + 1 /\ next_thread_id_' = (next_thread_id_ + 1) % thread_num_
      BY <1>2, <2>3 DEF GetNextLoop, NextLoop
    <3> QED
      BY <2>1, <2>3, <3>1 DEF Loops
  <2> QED
    BY <2>2, <2>3
<1>9. /\ DOMAIN conn' = Conns /\ conn'[n] \in TcpConnections
      /\ conn'[n].name = <<addr, made>> /\ conn'[n].addr = addr
      /\ conn'[n].status = "connecting" /\ conn'[n].registered = FALSE
      /\ \A d \in Conns : d # n => conn'[d] = conn[d]
  <2>1. ConnectionName(addr) = <<addr, made>> /\ <<addr, made>> \in Names
    BY <1>4, <1>5 DEF ConnectionName, Names
  <2> HIDE DEF addr, n
  <2> QED
    BY <1>1, <1>2, <1>4, <1>5, <1>7, <1>8, <2>1 DEF TypeOK, TcpConnections
<1> HIDE DEF addr
<1>10. TypeOK'
  <2>1. \A d \in Conns :
           IF d > made' THEN conn'[d] = NoConnection ELSE conn'[d] \in TcpConnections
    <3>1. \A d \in Conns :
             IF d > made THEN conn[d] = NoConnection ELSE conn[d] \in TcpConnections
      BY <1>1 DEF TypeOK
    <3>2. ~(n > made') /\ \A d \in Conns : d # n => (d > made' <=> d > made)
      BY <1>2, <1>5 DEF Conns
    <3> QED
      BY <1>9, <3>1, <3>2
  <2> HIDE DEF n
  <2> QED
    BY <1>1, <1>2, <1>4, <1>5, <1>8, <1>9, <2>1 DEF TypeOK
<1>11. Bounded'
  <2>1. \A l \in Loops : 0 \in active_channels_'[l] => FALSE
    BY <1>1, <1>2 DEF TypeOK, Bounded
  <2> QED
    BY <1>2, <1>5, <1>8, <2>1 DEF Bounded
<1>12. NamesUnique'
  <2>1. \A c \in Made : conn'[c].name = <<conn'[c].addr, c - 1>>
    BY <1>1, <1>5, <1>6, <1>9 DEF NamesUnique
  <2>2. n - 1 = made
    BY <1>5
  <2> HIDE DEF n
  <2> QED
    BY <1>5, <1>6, <1>9, <2>1, <2>2 DEF NamesUnique
<1> HIDE DEF n
<1>13. MapNames'
  BY <1>1, <1>2, <1>5, <1>6, <1>9 DEF MapNames
<1>14. pc'[0] = "accepted" /\ current'[0] = n
  BY <1>1, <1>2 DEF TypeOK
<1>15. Rooted'
  <2>1. ASSUME NEW c \in Made, conn'[c].status # "disconnected" PROVE InMap(c)'
    <3>1. c # n /\ conn'[c] = conn[c] /\ ~Coming(c)
      BY <1>2, <1>5, <1>6, <1>9 DEF Coming
    <3> QED
      BY <1>1, <1>2, <2>1, <3>1 DEF Rooted, InMap
  <2>2. \A c : c = n => Coming(c)'
    BY <1>14 DEF Coming
  <2> QED
    BY <1>6, <2>1, <2>2 DEF Rooted
<1>16. WatchedWhileConnected'
  <2>1. \A c \in Made' : conn'[c].registered <=> conn'[c].status = "connected"
    BY <1>1, <1>5, <1>6, <1>9 DEF WatchedWhileConnected
  <2>2. ASSUME NEW l \in Loops, NEW c \in Conns, c \in active_channels_'[l]
        PROVE  c \in Made' /\ conn'[c].loop = l /\ conn'[c].status = "connected"
    <3>1. c \in active_channels_[l]
      BY <1>1, <1>2, <2>2 DEF TypeOK
    <3> QED
      BY <1>1, <1>5, <1>6, <1>9, <3>1 DEF WatchedWhileConnected
  <2> QED
    BY <2>1, <2>2 DEF WatchedWhileConnected
<1>17. \A l \in Loops : ~Queued(n, l)
  BY <1>1, <1>5 DEF EstablishedOnce
<1>18. BeingMade'
  BY <1>2, <1>6, <1>9, <1>14, <1>17 DEF BeingMade, Queued
<1>19. EstablishedOnce'
  BY <1>1, <1>2, <1>5, <1>6, <1>9 DEF EstablishedOnce, Queued, InMap
<1>20. Guarded'
  <2>1. ASSUME NEW l \in Loops
        PROVE  /\ pc'[l] \in {"poll", "active", "pending"} => current'[l] = 0
               /\ pc'[l] = "closing" =>
                     current'[l] \in Made' /\ conn'[current'[l]].status = "disconnected"
    <3>1. CASE l = 0
      BY <1>14, <3>1
    <3>2. CASE l # 0
      BY <1>1, <1>2, <1>5, <1>6, <1>9, <3>2 DEF Guarded, TypeOK
    <3> QED
      BY <3>1, <3>2
  <2> QED
    BY <2>1 DEF Guarded
<1> QED
  BY <1>10, <1>11, <1>12, <1>13, <1>15, <1>16, <1>18, <1>19, <1>20 DEF Inv

LEMMA AddConnectionStep ==
  ASSUME Inv, AddConnection
  PROVE  Inv'
<1> USE ConstantsTyped DEF BaseLoop, NULL, LISTEN
<1> DEFINE c == current[0]
<1>1. /\ TypeOK /\ Bounded /\ NamesUnique /\ MapNames /\ Rooted /\ WatchedWhileConnected
      /\ BeingMade /\ EstablishedOnce /\ Guarded
  BY DEF Inv
<1>2. /\ pc[0] = "accepted" /\ pc' = [pc EXCEPT ![0] = "added"]
      /\ connection_map_' = [connection_map_ EXCEPT ![conn[c].name] = c]
      /\ UNCHANGED <<keeps, thread_num_, threads_, next_thread_id_, made, connection_id_, conn,
                     backlog, left, held, active_channels_, current, pending_func_, batch>>
      /\ Made' = Made
  BY DEF AddConnection, pool_vars, client_vars, queue_vars, Made
<1>3. /\ c \in Made /\ conn[c].status = "connecting" /\ c \in Conns
      /\ \A l \in Loops : ~Queued(c, l)
      /\ Made \subseteq Conns
  BY <1>1, <1>2 DEF BeingMade, TypeOK, Made, Conns
<1>4. /\ \A d \in Made : conn[d].name \in Names
      /\ connection_map_ \in [Names -> Conns \cup {0}]
  BY <1>1 DEF TypeOK, TcpConnections, Made, Conns
<1>5. InMap(c)' /\ connection_map_' \in [Names -> Conns \cup {0}]
  BY <1>1, <1>2, <1>3, <1>4 DEF InMap, TypeOK
<1>6. ASSUME NEW e \in Made, InMap(e) PROVE InMap(e)'
  <2>1. CASE e = c
    BY <1>2, <1>5, <2>1 DEF InMap
  <2>2. CASE e # c
    <3>1. conn[e].name # conn[c].name
      BY <1>3, <2>2, NamesDiffer
    <3> QED
      BY <1>2, <1>4, <1>6, <3>1 DEF InMap
  <2> QED
    BY <2>1, <2>2
<1>7. TypeOK'
  BY <1>1, <1>2, <1>5 DEF TypeOK
<1>8. Bounded' /\ NamesUnique' /\ WatchedWhileConnected'
  BY <1>1, <1>2 DEF Bounded, NamesUnique, WatchedWhileConnected
<1>9. MapNames'
  BY <1>1, <1>2, <1>3 DEF MapNames, TypeOK
<1>10. pc'[0] = "added" /\ \A l \in Loops : l # 0 => pc'[l] = pc[l]
  BY <1>1, <1>2 DEF TypeOK
<1>11. Rooted'
  BY <1>1, <1>2, <1>5, <1>6 DEF Rooted, Coming
<1>12. BeingMade'
  BY <1>2, <1>3, <1>5 DEF BeingMade, Queued
<1>13. EstablishedOnce'
  BY <1>1, <1>2, <1>6 DEF EstablishedOnce, Queued
<1>14. Guarded'
  BY <1>1, <1>2, <1>10 DEF Guarded
<1> QED
  BY <1>7, <1>8, <1>9, <1>11, <1>12, <1>13, <1>14 DEF Inv

LEMMA QueueEstablishedStep ==
  ASSUME Inv, QueueEstablished
  PROVE  Inv'
<1> USE ConstantsTyped DEF BaseLoop, NULL, LISTEN
<1> DEFINE c == current[0]
           k == conn[c].loop
           more == Append(pending_func_[k], c)
<1>1. /\ TypeOK /\ Bounded /\ NamesUnique /\ MapNames /\ Rooted /\ WatchedWhileConnected
      /\ BeingMade /\ EstablishedOnce /\ Guarded
  BY DEF Inv
<1>2. /\ pc[0] = "added" /\ pc' = [pc EXCEPT ![0] = "queued"]
      /\ pending_func_' = [pending_func_ EXCEPT ![k] = more]
      /\ UNCHANGED <<keeps, thread_num_, threads_, next_thread_id_, made, connection_id_, conn,
                     connection_map_, backlog, left, held, active_channels_, current, batch>>
      /\ Made' = Made
  BY DEF QueueEstablished, pool_vars, client_vars, Made
<1>3. /\ c \in Made /\ conn[c].status = "connecting" /\ c \in Conns /\ InMap(c)
      /\ \A l \in Loops : ~Queued(c, l)
  BY <1>1, <1>2 DEF BeingMade, TypeOK, Made, Conns
<1>4. k \in Loops
  BY <1>1, <1>3 DEF TypeOK, TcpConnections, Made
<1>5. pending_func_[k] \in Seq(Conns) /\ ~In(pending_func_[k], c) /\ Once(pending_func_[k])
  BY <1>1, <1>3, <1>4 DEF TypeOK, Queued, EstablishedOnce
<1>6. /\ \A d : In(more, d) <=> In(pending_func_[k], d) \/ d = c
      /\ Once(more) /\ more \in Seq(Conns)
  BY <1>3, <1>5, AppendOnce, AppendProperties
<1> HIDE DEF c, k, more
<1>7. TypeOK'
  BY <1>1, <1>2, <1>4, <1>6 DEF TypeOK
<1>8. Bounded' /\ NamesUnique' /\ MapNames' /\ WatchedWhileConnected'
  BY <1>1, <1>2 DEF Bounded, NamesUnique, MapNames, WatchedWhileConnected
<1>9. pc'[0] = "queued" /\ \A l \in Loops : l # 0 => pc'[l] = pc[l]
  BY <1>1, <1>2 DEF TypeOK
<1>10. Rooted'
  BY <1>1, <1>2 DEF Rooted, InMap, Coming
<1>11. BeingMade'
  BY <1>9 DEF BeingMade
<1>12. ASSUME NEW l \in Loops
       PROVE  /\ Once(pending_func_'[l])
              /\ \A d : In(pending_func_'[l], d)
                    => In(pending_func_[l], d) \/ (d = c /\ l = k)
  <2>1. CASE l = k
    <3>1. pending_func_'[l] = more
      BY <1>1, <1>2, <2>1 DEF TypeOK
    <3> QED
      BY <1>6, <2>1, <3>1
  <2>2. CASE l # k
    <3>1. pending_func_'[l] = pending_func_[l]
      BY <1>1, <1>2, <2>2 DEF TypeOK
    <3>2. Once(pending_func_[l])
      BY <1>1 DEF EstablishedOnce
    <3> QED
      BY <3>1, <3>2
  <2> QED
    BY <2>1, <2>2
<1>13. conn[c].loop = k
  BY DEF c, k
<1>14. EstablishedOnce'
  <2>1. ASSUME NEW l \in Loops, NEW d \in Conns
        PROVE  /\ ~(In(pending_func_'[l], d) /\ In(batch'[l], d))
               /\ Queued(d, l)' =>
                    d \in Made /\ conn[d].loop = l /\ conn[d].status = "connecting" /\ InMap(d)
    BY <1>1, <1>2, <1>3, <1>12, <1>13 DEF EstablishedOnce, Queued
  <2>2. \A d \in Conns : InMap(d)' <=> InMap(d)
    BY <1>2 DEF InMap
  <2>3. \A l \in Loops : Once(batch'[l])
    BY <1>1, <1>2 DEF EstablishedOnce
  <2> QED
    BY <1>2, <1>12, <2>1, <2>2, <2>3 DEF EstablishedOnce
<1>15. Guarded'
  BY <1>1, <1>2, <1>9 DEF Guarded
<1> QED
  BY <1>7, <1>8, <1>10, <1>11, <1>14, <1>15 DEF Inv

LEMMA EstablishedStep ==
  ASSUME Inv, NEW l \in Loops, Established(l)
  PROVE  Inv'
<1> USE ConstantsTyped DEF BaseLoop, NULL, LISTEN
<1> DEFINE c == Head(batch[l])
<1>1. /\ TypeOK /\ Bounded /\ NamesUnique /\ MapNames /\ Rooted /\ WatchedWhileConnected
      /\ BeingMade /\ EstablishedOnce /\ Guarded
  BY DEF Inv
<1>2. /\ batch[l] # <<>>
      /\ batch' = [batch EXCEPT ![l] = Tail(batch[l])]
      /\ conn' = [conn EXCEPT ![c].status = "connected", ![c].registered = TRUE]
      /\ held' = IF keeps THEN held \cup {c} ELSE held
      /\ UNCHANGED <<keeps, thread_num_, threads_, next_thread_id_, made, connection_id_,
                     connection_map_, backlog, left, pc, active_channels_, current,
                     pending_func_>>
      /\ Made' = Made
  BY DEF Established, pool_vars, client_vars, Made
<1>3. batch[l] \in Seq(Conns) /\ Once(batch[l])
  BY <1>1 DEF TypeOK, EstablishedOnce
<1>4. /\ c \in Conns /\ Tail(batch[l]) \in Seq(Conns) /\ Once(Tail(batch[l]))
      /\ In(batch[l], c) /\ ~In(Tail(batch[l]), c)
      /\ \A d : In(Tail(batch[l]), d) => In(batch[l], d)
  BY <1>2, <1>3, TailOnce
<1> HIDE DEF c
<1>5. /\ c \in Made /\ conn[c].loop = l /\ conn[c].status = "connecting" /\ InMap(c)
      /\ ~In(pending_func_[l], c)
  BY <1>1, <1>4 DEF EstablishedOnce, Queued
<1>6. /\ DOMAIN conn' = Conns /\ conn'[c] \in TcpConnections
      /\ conn'[c].name = conn[c].name /\ conn'[c].addr = conn[c].addr
      /\ conn'[c].loop = conn[c].loop
      /\ conn'[c].status = "connected" /\ conn'[c].registered = TRUE
      /\ \A d \in Conns : d # c => conn'[d] = conn[d]
  <2>1. conn[c] \in TcpConnections
    <3>1. ~(c > made)
      BY <1>1, <1>5 DEF Made, TypeOK
    <3> QED
      BY <1>1, <1>4, <3>1 DEF TypeOK
  <2> QED
    BY <1>1, <1>2, <1>4, <2>1 DEF TypeOK, TcpConnections
<1>7. Made \subseteq Conns
  BY <1>1 DEF TypeOK, Made, Conns
<1>8. TypeOK'
  <2>1. \A d \in Conns :
           IF d > made THEN conn'[d] = NoConnection ELSE conn'[d] \in TcpConnections
    <3>1. ~(c > made)
      BY <1>1, <1>5 DEF Made, TypeOK
    <3>2. \A d \in Conns :
             IF d > made THEN conn[d] = NoConnection ELSE conn[d] \in TcpConnections
      BY <1>1 DEF TypeOK
    <3> QED
      BY <1>6, <3>1, <3>2
  <2> QED
    BY <1>1, <1>2, <1>4, <1>6, <2>1 DEF TypeOK
<1>9. Bounded' /\ NamesUnique' /\ MapNames'
  BY <1>1, <1>2, <1>6, <1>7 DEF Bounded, NamesUnique, MapNames
<1>10. Rooted'
  BY <1>1, <1>2, <1>5, <1>6, <1>7 DEF Rooted, InMap, Coming
<1>11. WatchedWhileConnected'
  BY <1>1, <1>2, <1>5, <1>6, <1>7 DEF WatchedWhileConnected
<1>12. ASSUME NEW m \in Loops
       PROVE  /\ Once(batch'[m])
              /\ \A d : In(batch'[m], d) => In(batch[m], d)
              /\ \A d \in Conns : Queued(d, m)' => Queued(d, m) /\ d # c
  <2>1. CASE m = l
    <3>1. batch'[m] = Tail(batch[l])
      BY <1>1, <1>2, <2>1 DEF TypeOK
    <3> QED
      BY <1>2, <1>4, <1>5, <2>1, <3>1 DEF Queued
  <2>2. CASE m # l
    <3>1. batch'[m] = batch[m]
      BY <1>1, <1>2, <2>2 DEF TypeOK
    <3>2. ~Queued(c, m)
      BY <1>1, <1>4, <1>5, <2>2 DEF EstablishedOnce
    <3> QED
      BY <1>1, <1>2, <3>1, <3>2 DEF Queued, EstablishedOnce
  <2> QED
    BY <2>1, <2>2
<1>13. BeingMade'
  <2>1. pc[0] \in {"accepted", "added"} => current[0] # c
    BY <1>1, <1>4, <1>5 DEF BeingMade, Queued
  <2> QED
    BY <1>1, <1>2, <1>6, <1>7, <1>12, <2>1 DEF BeingMade, InMap
<1>14. EstablishedOnce'
  <2>1. \A m \in Loops : Once(pending_func_'[m])
    BY <1>1, <1>2 DEF EstablishedOnce
  <2>2. \A m \in Loops, d \in Conns : ~(In(pending_func_'[m], d) /\ In(batch'[m], d))
    BY <1>1, <1>2, <1>12 DEF EstablishedOnce
  <2>3. ASSUME NEW m \in Loops, NEW d \in Conns, Queued(d, m)'
        PROVE  d \in Made /\ conn'[d].loop = m /\ conn'[d].status = "connecting" /\ InMap(d)'
    BY <1>1, <1>2, <1>6, <1>12, <2>3 DEF EstablishedOnce, InMap
  <2> QED
    BY <1>2, <1>12, <2>1, <2>2, <2>3 DEF EstablishedOnce
<1>15. Guarded'
  BY <1>1, <1>2, <1>5, <1>6, <1>7 DEF Guarded
<1> QED
  BY <1>8, <1>9, <1>10, <1>11, <1>13, <1>14, <1>15 DEF Inv

-----------------------------------------------------------------------------
(* The invariant holds.                                                    *)

LEMMA InitInv == Init => Inv
<1> SUFFICES ASSUME Init PROVE Inv
  OBVIOUS
<1> USE ConstantsTyped DEF Init, BaseLoop, NULL, LISTEN
<1>1. /\ <<>> \in Seq(Addresses) /\ <<>> \in Seq(Conns) /\ Len(<<>>) = 0
      /\ Once(<<>>) /\ \A c : ~In(<<>>, c)
      /\ Made = {} /\ thread_num_ \in 0 .. MaxThreads
  BY EmptySeq DEF Once, In, Made
<1>2. TypeOK
  BY <1>1 DEF TypeOK, Conns, Loops
<1>3. Bounded /\ NamesUnique /\ MapNames /\ Rooted
  BY <1>1 DEF Bounded, NamesUnique, MapNames, Rooted
<1>4. WatchedWhileConnected /\ BeingMade /\ Guarded
  BY <1>1 DEF WatchedWhileConnected, BeingMade, Guarded
<1>5. EstablishedOnce
  BY <1>1 DEF EstablishedOnce, Queued
<1> QED
  BY <1>2, <1>3, <1>4, <1>5 DEF Inv

LEMMA InvStep == Inv /\ [Next]_vars => Inv'
<1> SUFFICES ASSUME Inv, [Next]_vars PROVE Inv'
  OBVIOUS
<1>1. CASE BaseStep
  BY <1>1, AcceptStep, AddConnectionStep, QueueEstablishedStep, QuietStep DEF BaseStep
<1>2. CASE \E l \in Loops : LoopStep(l)
  BY <1>2, OnCloseStep, OnCloseConnectionStep, SwapPendingStep, EstablishedStep, QuietStep
  DEF LoopStep
<1> QED
  BY <1>1, <1>2, QuietStep DEF Next

LEMMA InvHolds == Spec => []Inv
  BY InitInv, InvStep, PTL DEF Spec

(* Every variable of the server keeps its type.                            *)
THEOREM ServerTypeCorrect == Spec => []TypeOK
  BY InvHolds, PTL DEF Inv

-----------------------------------------------------------------------------
(* Who keeps a connection.  A queued function need not be counted: the map *)
(* holds every connection that waits to be established.                    *)

Kept(c) == InMap(c) \/ c \in held \/ \E l \in Loops : current[l] = c

LEMMA ReferencedIsKept ==
  ASSUME Inv, NEW c \in Made
  PROVE  /\ Referenced(c) <=> Kept(c)
         /\ conn[c].status # "disconnected" => Kept(c)
<1>1. c \in Conns /\ conn[c].name \in Names /\ c # NULL
  <2>1. c \in Conns /\ ~(c > made) /\ c # NULL
    BY ConstantsTyped DEF Inv, TypeOK, Made, Conns, NULL
  <2> QED
    BY <2>1 DEF Inv, TypeOK, TcpConnections
<1>2. (\E name \in Names : connection_map_[name] = c) <=> InMap(c)
  BY <1>1 DEF Inv, MapNames, InMap
<1>3. \A l \in Loops : Queued(c, l) => InMap(c)
  BY <1>1 DEF Inv, EstablishedOnce
<1>4. (\E l \in Loops : Queued(c, l)) <=>
          \E l \in Loops : \/ \E i \in DOMAIN pending_func_[l] : pending_func_[l][i] = c
                           \/ \E i \in DOMAIN batch[l] : batch[l][i] = c
  BY DEF Queued, In
<1>5. Coming(c) => \E l \in Loops : current[l] = c
  BY ConstantsTyped DEF Coming
<1>6. conn[c].status # "disconnected" => Kept(c)
  BY <1>5 DEF Inv, Rooted, Kept
<1> QED
  BY <1>2, <1>3, <1>4, <1>6 DEF Referenced, Kept

(* No channel that epoll or a batch of active channels points to is        *)
(* destroyed: Channel.cpp:52-66 never meets a dangling pointer.            *)
THEOREM WatchedStayAlive == Spec => []WatchedChannelsLive
<1>1. Inv => WatchedChannelsLive
  <2> SUFFICES ASSUME Inv, NEW c \in Conns,
                      conn[c].registered \/ \E l \in Loops : c \in active_channels_[l]
               PROVE  Alive(c)
    BY DEF WatchedChannelsLive
  <2>1. c \in Made
    <3>1. CASE conn[c].registered
      BY <3>1 DEF Inv, TypeOK, NoConnection, Made, Conns
    <3>2. CASE \E l \in Loops : c \in active_channels_[l]
      BY <3>2 DEF Inv, WatchedWhileConnected
    <3> QED
      BY <3>1, <3>2
  <2>2. conn[c].status = "connected"
    BY <2>1 DEF Inv, WatchedWhileConnected
  <2> QED
    BY <2>1, <2>2, ReferencedIsKept DEF Alive, Made
<1> QED
  BY <1>1, InvHolds, PTL

-----------------------------------------------------------------------------
(* What a connection goes through.                                         *)

(* Where c is in its life: told by its status until it has ended, and then *)
(* by whether something keeps it.                                          *)
Stage(c) ==
    IF c \notin Made THEN "none"
    ELSE IF conn[c].status = "connecting" THEN "accepted"
    ELSE IF conn[c].status = "connected" THEN "connected"
    ELSE IF Kept(c) THEN "disconnected" ELSE "released"

LEMMA LifeIsStage == Inv => \A c \in Conns : LifeOf(c) = Stage(c)
<1> SUFFICES ASSUME Inv, NEW c \in Conns PROVE LifeOf(c) = Stage(c)
  OBVIOUS
<1> USE ConstantsTyped
<1>1. made \in Nat
  BY DEF Inv, TypeOK
<1>2. CASE c \notin Made
  <2>1. c > made
    BY <1>1, <1>2 DEF Made, Conns
  <2>2. conn[c].status = "none"
    BY <2>1 DEF Inv, TypeOK, NoConnection
  <2> QED
    BY <1>1, <1>2, <2>1, <2>2 DEF LifeOf, Stage, Released, Conns
<1>3. CASE c \in Made
  <2>1. c <= made /\ conn[c].status \in {"connecting", "connected", "disconnected"}
    BY <1>1, <1>3 DEF Inv, TypeOK, TcpConnections, Made, Conns
  <2> QED
    BY <1>3, <2>1, ReferencedIsKept DEF LifeOf, Stage, Released
<1> QED
  BY <1>2, <1>3

(* A step of one connection's life is a step of the promise.               *)
LEMMA OneLifeStep ==
  ASSUME NEW c \in Conns, NEW from, NEW to,
         \/ from = "none" /\ to = "accepted"
         \/ from = "accepted" /\ to = "connected"
         \/ from = "connected" /\ to = "disconnected"
         \/ from = "disconnected" /\ to = "released",
         LifeOf(c) = from, LifeOf(c)' = to,
         \A d \in Conns : d # c => LifeOf(d)' = LifeOf(d)
  PROVE  CL!Next
<1> DEFINE L == [d \in Conns |-> LifeOf(d)]
<1>1. Conns' = Conns
  BY DEF Conns
<1>2. L[c] = from /\ L' = [L EXCEPT ![c] = to]
  BY <1>1
<1>3. CL!Becomes(c, from, to)
  BY <1>2 DEF CL!Becomes
<1> QED
  BY <1>3 DEF CL!Next

LEMMA LifeStep == Inv /\ Inv' /\ [Next]_vars => [CL!Next]_([c \in Conns |-> LifeOf(c)])
<1> SUFFICES ASSUME Inv, Inv', [Next]_vars
             PROVE  CL!Next \/ UNCHANGED [c \in Conns |-> LifeOf(c)]
  OBVIOUS
<1> USE ConstantsTyped DEF BaseLoop, NULL, LISTEN
<1>1. /\ \A c \in Conns : LifeOf(c) = Stage(c)
      /\ (\A c \in Conns : LifeOf(c) = Stage(c))'
  <2>1. Inv => \A c \in Conns : LifeOf(c) = Stage(c)
    BY LifeIsStage
  <2>2. (Inv => \A c \in Conns : LifeOf(c) = Stage(c))'
    BY LifeIsStage, PTL
  <2> QED
    BY <2>1, <2>2
<1>2. \A c \in Conns : LifeOf(c)' = Stage(c)'
  BY <1>1 DEF Conns
<1>3. ASSUME \A c \in Conns : Stage(c)' = Stage(c)
      PROVE  UNCHANGED [c \in Conns |-> LifeOf(c)]
  BY <1>1, <1>2, <1>3 DEF Conns
<1>4. ASSUME NEW c \in Conns, NEW from, NEW to,
             \/ from = "none" /\ to = "accepted"
             \/ from = "accepted" /\ to = "connected"
             \/ from = "connected" /\ to = "disconnected"
             \/ from = "disconnected" /\ to = "released",
             Stage(c) = from, Stage(c)' = to,
             \A d \in Conns : d # c => Stage(d)' = Stage(d)
      PROVE  CL!Next
  BY <1>1, <1>2, <1>4, OneLifeStep
<1>5. ASSUME UNCHANGED <<made, conn, connection_map_, held, current>>
      PROVE  UNCHANGED [c \in Conns |-> LifeOf(c)]
  <2>1. \A c \in Conns : Stage(c)' = Stage(c)
    BY <1>5 DEF Stage, Made, Kept, InMap
  <2> QED
    BY <1>3, <2>1
<1>6. ASSUME UNCHANGED <<made, conn>>, NEW c \in Made,
             \A d \in Made : d # c /\ conn[d].status = "disconnected" => Kept(d)' = Kept(d),
             Kept(c)' => Kept(c)
      PROVE  CL!Next \/ UNCHANGED [d \in Conns |-> LifeOf(d)]
  <2>1. c \in Conns /\ Made' = Made
    BY <1>6 DEF Inv, TypeOK, Made, Conns
  <2>2. \A d \in Conns : d # c => Stage(d)' = Stage(d)
    <3>1. \A d \in Made : conn[d].status \in {"connecting", "connected", "disconnected"}
      BY DEF Inv, TypeOK, TcpConnections, Made, Conns
    <3> QED
      BY <1>6, <2>1, <3>1 DEF Stage
  <2>3. Stage(c)' = Stage(c) \/ (Stage(c) = "disconnected" /\ Stage(c)' = "released")
    BY <1>6, <2>1 DEF Stage
  <2>4. CASE Stage(c)' = Stage(c)
    BY <1>3, <2>2, <2>4
  <2>5. CASE Stage(c) = "disconnected" /\ Stage(c)' = "released"
    BY <1>4, <2>1, <2>2, <2>5
  <2> QED
    BY <2>3, <2>4, <2>5
<1>7. /\ TypeOK /\ Guarded /\ BeingMade /\ EstablishedOnce /\ WatchedWhileConnected
      /\ Made \subseteq Conns /\ 0 \notin Conns
      /\ current \in [Loops -> Conns \cup {0}]
      /\ connection_map_ \in [Names -> Conns \cup {0}]
      /\ \A d \in Made : conn[d].name \in Names
  <2>1. TypeOK /\ Guarded /\ BeingMade /\ EstablishedOnce /\ WatchedWhileConnected
    BY DEF Inv
  <2>2. Made \subseteq Conns /\ 0 \notin Conns /\ \A d \in Made : ~(d > made)
    BY <2>1 DEF TypeOK, Made, Conns
  <2>3. \A d \in Made : conn[d].name \in Names
    BY <2>1, <2>2 DEF TypeOK, TcpConnections
  <2> QED
    BY <2>1, <2>2, <2>3 DEF TypeOK
<1>8. CASE StartThread \/ AcceptFails \/ QueueEstablished
  BY <1>5, <1>8 DEF StartThread, AcceptFails, QueueEstablished
<1>9. CASE \E l \in Loops : Poll(l) \/ SwapPending(l) \/ BatchDone(l)
  BY <1>5, <1>9 DEF Poll, SwapPending, BatchDone
<1>10. CASE \/ \E addr \in Addresses : ClientConnects(addr)
            \/ \E c \in Conns : ClientLeaves(c)
            \/ UNCHANGED vars
  BY <1>5, <1>10 DEF ClientConnects, ClientLeaves, vars
<1>11. CASE Accept
  <2>1. PICK c \in Nat : c = made + 1
    BY DEF Inv, TypeOK
  <2>2. /\ pc[0] = "active" /\ made' = c
        /\ current' = [current EXCEPT ![0] = c]
        /\ UNCHANGED <<connection_map_, held>>
        /\ conn'[c].status = "connecting"
        /\ \A d \in Conns : d # c => conn'[d] = conn[d]
    <3>1. DOMAIN conn = Conns /\ c \in Conns
      <4>1. made' \in 0 .. MaxConnections /\ made' = c
        BY <1>11, <2>1 DEF Inv, TypeOK, Accept
      <4> QED
        BY <1>7, <2>1, <4>1 DEF Inv, TypeOK, Conns
    <3> QED
      BY <1>11, <2>1, <3>1 DEF Accept, OnReadable
  <2>3. /\ c \in Made' /\ c \notin Made /\ c \in Conns
        /\ \A d \in Conns : d # c => (d \in Made' <=> d \in Made)
    <3>1. made \in Nat /\ made' \in 0 .. MaxConnections
      BY DEF Inv, TypeOK
    <3> QED
      BY <2>1, <2>2, <3>1 DEF Made, Conns
  <2>4. Stage(c) = "none" /\ Stage(c)' = "accepted"
    BY <2>2, <2>3 DEF Stage
  <2>5. ASSUME NEW d \in Conns, d # c PROVE Stage(d)' = Stage(d)
    <3>1. \A l \in Loops : current'[l] = d <=> current[l] = d
      BY <1>7, <2>2, <2>5 DEF Guarded
    <3>2. Kept(d)' <=> Kept(d)
      BY <2>2, <2>5, <3>1 DEF Kept, InMap
    <3> QED
      BY <2>2, <2>3, <2>5, <3>2 DEF Stage
  <2> QED
    BY <1>4, <2>3, <2>4, <2>5
<1>12. CASE AddConnection
  <2>1. PICK c \in Made : c = current[0]
    BY <1>7, <1>12 DEF AddConnection, BeingMade
  <2>2. /\ connection_map_' = [connection_map_ EXCEPT ![conn[c].name] = c]
        /\ UNCHANGED <<made, conn, held, current>>
    BY <1>12, <2>1 DEF AddConnection
  <2>3. Kept(c)
    BY <2>1 DEF Kept
  <2>4. ASSUME NEW d \in Made, d # c PROVE Kept(d)' = Kept(d)
    <3>1. conn[d].name # conn[c].name
      BY <2>4, NamesDiffer
    <3>2. InMap(d)' <=> InMap(d)
      BY <1>7, <2>2, <3>1 DEF InMap
    <3> QED
      BY <2>2, <3>2 DEF Kept
  <2> QED
    BY <1>6, <2>2, <2>3, <2>4
<1>13. CASE NewConnectionDone
  <2>1. /\ current' = [current EXCEPT ![0] = 0]
        /\ UNCHANGED <<made, conn, held, connection_map_>>
    BY <1>13 DEF NewConnectionDone
  <2>2. CASE current[0] \notin Made
    <3>1. \A d \in Made, l \in Loops : current'[l] = d <=> current[l] = d
      BY <1>7, <2>1, <2>2
    <3>2. Made' = Made
      BY <2>1 DEF Made
    <3>3. \A d \in Conns : Stage(d)' = Stage(d)
      BY <2>1, <3>1, <3>2 DEF Stage, Kept, InMap
    <3> QED
      BY <1>3, <3>3
  <2>3. CASE current[0] \in Made
    <3>1. PICK c \in Made : c = current[0]
      BY <2>3
    <3>2. /\ \A d \in Made, l \in Loops : d # c => (current'[l] = d <=> current[l] = d)
          /\ \A l \in Loops : current'[l] = c => current[l] = c
      BY <1>7, <2>1, <3>1
    <3>3. \A d \in Made : d # c => Kept(d)' = Kept(d)
      BY <2>1, <3>2 DEF Kept, InMap
    <3>4. Kept(c)' => Kept(c)
      BY <2>1, <3>2 DEF Kept, InMap
    <3> QED
      BY <1>6, <2>1, <3>3, <3>4
  <2> QED
    BY <2>2, <2>3
<1>14. CASE \E l \in Loops : OnCloseConnection(l)
  <2>1. PICK l \in Loops : OnCloseConnection(l)
    BY <1>14
  <2>2. PICK c \in Made : c = current[l]
    BY <1>7, <2>1 DEF OnCloseConnection, Guarded
  <2>3. /\ connection_map_' = [connection_map_ EXCEPT ![conn[c].name] = 0]
        /\ current' = [current EXCEPT ![l] = 0]
        /\ UNCHANGED <<made, conn, held>>
    BY <2>1, <2>2 DEF OnCloseConnection
  <2>4. ASSUME NEW d \in Made, d # c PROVE Kept(d)' = Kept(d)
    <3>1. conn[d].name # conn[c].name
      BY <2>4, NamesDiffer
    <3>2. InMap(d)' <=> InMap(d)
      BY <1>7, <2>3, <3>1 DEF InMap
    <3>3. \A m \in Loops : current'[m] = d <=> current[m] = d
      BY <1>7, <2>2, <2>3, <2>4
    <3> QED
      BY <2>3, <3>2, <3>3 DEF Kept
  <2>5. Kept(c)
    BY <2>2 DEF Kept
  <2> QED
    BY <1>6, <2>3, <2>4, <2>5
<1>15. CASE \E l \in Loops, c \in Conns : OnClose(l, c)
  <2>1. PICK l \in Loops, c \in Conns : OnClose(l, c)
    BY <1>15
  <2>2. /\ pc[l] = "active" /\ current' = [current EXCEPT ![l] = c]
        /\ c \in Made /\ conn[c].status = "connected"
        /\ DOMAIN conn = Conns
        /\ conn' = [conn EXCEPT ![c].status = "disconnected", ![c].registered = FALSE]
        /\ UNCHANGED <<made, held, connection_map_>>
    BY <1>7, <2>1 DEF OnClose, WatchedWhileConnected, TypeOK
  <2>3. conn'[c].status = "disconnected" /\ \A d \in Conns : d # c => conn'[d] = conn[d]
    <3>1. conn[c] \in TcpConnections
      <4>1. ~(c > made)
        BY <1>7, <2>2 DEF Made, TypeOK
      <4> QED
        BY <1>7, <4>1 DEF TypeOK
    <3> QED
      BY <2>2, <3>1 DEF TcpConnections
  <2>4. Made' = Made /\ Kept(c)'
    BY <1>7, <2>2 DEF Made, Kept
  <2>5. Stage(c) = "connected" /\ Stage(c)' = "disconnected"
    BY <2>2, <2>3, <2>4 DEF Stage
  <2>6. ASSUME NEW d \in Conns, d # c PROVE Stage(d)' = Stage(d)
    <3>1. \A m \in Loops : current'[m] = d <=> current[m] = d
      BY <1>7, <2>2, <2>6 DEF Guarded
    <3>2. Kept(d)' <=> Kept(d)
      BY <2>2, <2>3, <2>6, <3>1 DEF Kept, InMap
    <3> QED
      BY <2>3, <2>4, <2>6, <3>2 DEF Stage
  <2> QED
    BY <1>4, <2>5, <2>6
<1>16. CASE \E l \in Loops : Established(l)
  <2>1. PICK l \in Loops : Established(l)
    BY <1>16
  <2>2. PICK c \in Conns : c = Head(batch[l]) /\ In(batch[l], c)
    <3>1. batch[l] \in Seq(Conns) /\ Once(batch[l]) /\ batch[l] # <<>>
      BY <1>7, <2>1 DEF TypeOK, EstablishedOnce, Established
    <3> QED
      BY <3>1, TailOnce
  <2>3. c \in Made /\ conn[c].status = "connecting"
    BY <1>7, <2>1, <2>2 DEF EstablishedOnce, Queued
  <2>4. /\ conn'[c].status = "connected" /\ \A d \in Conns : d # c => conn'[d] = conn[d]
        /\ \A d \in Conns : d # c => (d \in held' <=> d \in held)
        /\ UNCHANGED <<made, current, connection_map_>>
    <3>1. conn[c] \in TcpConnections
      <4>1. ~(c > made)
        BY <1>7, <2>3 DEF Made, TypeOK
      <4> QED
        BY <1>7, <4>1 DEF TypeOK
    <3>2. /\ conn' = [conn EXCEPT ![c].status = "connected", ![c].registered = TRUE]
          /\ held' = IF keeps THEN held \cup {c} ELSE held
          /\ UNCHANGED <<made, current, connection_map_>>
          /\ DOMAIN conn = Conns
      BY <1>7, <2>1, <2>2 DEF Established, TypeOK
    <3> QED
      BY <3>1, <3>2 DEF TcpConnections
  <2>5. Made' = Made
    BY <2>4 DEF Made
  <2>6. Stage(c) = "accepted" /\ Stage(c)' = "connected"
    BY <2>3, <2>4, <2>5 DEF Stage
  <2>7. ASSUME NEW d \in Conns, d # c PROVE Stage(d)' = Stage(d)
    <3>1. Kept(d)' <=> Kept(d)
      BY <2>4, <2>7 DEF Kept, InMap
    <3> QED
      BY <2>4, <2>5, <2>7, <3>1 DEF Stage
  <2> QED
    BY <1>4, <2>6, <2>7
<1>17. CASE BaseStep
  BY <1>8, <1>11, <1>12, <1>13, <1>17 DEF BaseStep
<1>18. CASE \E l \in Loops : LoopStep(l)
  BY <1>9, <1>14, <1>15, <1>16, <1>18 DEF LoopStep
<1> QED
  BY <1>8, <1>10, <1>17, <1>18 DEF Next

(* Every connection is accepted, comes up, ends and is destroyed, in this  *)
(* order and on whichever threads: TcpServer.cpp:36-83 keeps the promise   *)
(* of ConnectionLife.                                                      *)
THEOREM ServerImplementsConnectionLife == Spec => ImplementsConnectionLife
<1>1. Init => CL!Init
  <2> SUFFICES ASSUME Init, NEW c \in Conns PROVE LifeOf(c) = "none"
    BY DEF CL!Init
  <2>1. ~Released(c) /\ conn[c].status = "none"
    BY DEF Init, Released, NoConnection, Conns
  <2> QED
    BY <2>1 DEF LifeOf
<1> QED
  BY <1>1, LifeStep, InvHolds, PTL DEF Spec, ImplementsConnectionLife, CL!Spec

-----------------------------------------------------------------------------
(* The io threads in turn.                                                 *)

Given(l) == {c \in Made : conn[c].loop = l}
Load(l) == Cardinality(Given(l))

(* The threads up to next_thread_id_ are one connection ahead.  That no    *)
(* two differ by more is not inductive: it does not say whose turn it is.  *)
InTurn ==
    IF thread_num_ = 0 THEN \A c \in Made : conn[c].loop = BaseLoop
    ELSE /\ \A c \in Made : conn[c].loop \in 1 .. thread_num_
         /\ \E q \in Nat : \A k \in 1 .. thread_num_ :
               Load(k) = IF k <= next_thread_id_ THEN q + 1 ELSE q

LEMMA InTurnStep == Inv /\ Inv' /\ InTurn /\ [Next]_vars => InTurn'
<1> SUFFICES ASSUME Inv, Inv', InTurn, [Next]_vars PROVE InTurn'
  OBVIOUS
<1> USE ConstantsTyped DEF BaseLoop, NULL, LISTEN
<1>1. ASSUME UNCHANGED <<made, thread_num_, next_thread_id_>>,
             \A c \in Made : conn'[c].loop = conn[c].loop
      PROVE  InTurn'
  <2>1. Made' = Made /\ \A l : Given(l)' = Given(l)
    BY <1>1 DEF Made, Given
  <2>2. \A l : Load(l)' = Load(l)
    BY <2>1 DEF Load
  <2> QED
    BY <1>1, <2>1, <2>2 DEF InTurn
<1>2. /\ thread_num_ \in Nat /\ next_thread_id_ \in Nat /\ made \in Nat
      /\ thread_num_ # 0 => next_thread_id_ < thread_num_
      /\ Made \subseteq Conns /\ DOMAIN conn = Conns
  BY DEF Inv, TypeOK, Bounded, Made, Conns
<1>3. \A l : Load(l) \in Nat /\ IsFiniteSet(Given(l))
  <2>1. IsFiniteSet(Made)
    BY <1>2, FS_Interval DEF Made
  <2> QED
    BY <2>1, FS_Subset, FS_CardinalityType DEF Load, Given
<1>4. CASE Accept
  <2>1. PICK n \in Nat : n = made + 1
    BY <1>2
  <2>2. PICK k \in Nat : k = NextLoop
    BY <1>2 DEF NextLoop
  <2>3. /\ Made' = Made \cup {n} /\ n \notin Made /\ n \in Conns
    <3>1. made' = n /\ made' \in 0 .. MaxConnections
      BY <1>4, <2>1 DEF Accept, Inv, TypeOK
    <3> QED
      BY <1>2, <2>1, <3>1 DEF Made, Conns
  <2>4. conn'[n].loop = k /\ \A c \in Made : conn'[c] = conn[c]
    BY <1>2, <1>4, <2>1, <2>2, <2>3 DEF Accept
  <2>5. /\ Given(k)' = Given(k) \cup {n} /\ n \notin Given(k)
        /\ \A l : l # k => Given(l)' = Given(l)
    BY <2>3, <2>4 DEF Given
  <2>6. Load(k)' = Load(k) + 1 /\ \A l : l # k => Load(l)' = Load(l)
    BY <1>3, <2>5, FS_AddElement DEF Load
  <2>7. thread_num_' = thread_num_ /\ GetNextLoop
    BY <1>4 DEF Accept
  <2>8. CASE thread_num_ = 0
    BY <2>2, <2>3, <2>4, <2>7, <2>8 DEF InTurn, NextLoop
  <2>9. CASE thread_num_ # 0
    <3>1. /\ k = next_thread_id_ + 1 /\ k \in 1 .. thread_num_
          /\ next_thread_id_' = k % thread_num_
      BY <1>2, <2>2, <2>7, <2>9 DEF NextLoop, GetNextLoop
    <3>2. \A c \in Made' : conn'[c].loop \in 1 .. thread_num_
      BY <2>3, <2>4, <2>9, <3>1 DEF InTurn
    <3>3. PICK q \in Nat :
             \A l \in 1 .. thread_num_ : Load(l) = IF l <= next_thread_id_ THEN q + 1 ELSE q
      BY <2>9 DEF InTurn
    <3>4. \A l \in 1 .. thread_num_ : Load(l)' = IF l <= k THEN q + 1 ELSE q
      BY <1>2, <1>3, <2>6, <3>1, <3>3
    <3>5. CASE k < thread_num_
      <4>1. next_thread_id_' = k
        BY <1>2, <2>9, <3>1, <3>5
      <4> QED
        BY <2>7, <2>9, <3>2, <3>4, <4>1 DEF InTurn
    <3>6. CASE k = thread_num_
      <4>1. next_thread_id_' = 0
        BY <1>2, <2>9, <3>1, <3>6
      <4>2. \A l \in 1 .. thread_num_ : Load(l)' = q + 1 /\ ~(l <= 0)
        BY <1>2, <3>4, <3>6
      <4>3. q + 1 \in Nat
        OBVIOUS
      <4> QED
        BY <2>7, <2>9, <3>2, <4>1, <4>2, <4>3 DEF InTurn
    <3> QED
      BY <1>2, <3>1, <3>5, <3>6
  <2> QED
    BY <2>8, <2>9
<1>5. CASE \E l \in Loops, c \in Conns : OnClose(l, c)
  BY <1>1, <1>2, <1>5 DEF OnClose, pool_vars
<1>6. CASE \E l \in Loops : Established(l)
  BY <1>1, <1>2, <1>6 DEF Established, pool_vars
<1>7. ASSUME UNCHANGED <<made, thread_num_, next_thread_id_, conn>> PROVE InTurn'
  BY <1>1, <1>7
<1>8. CASE BaseStep
  BY <1>4, <1>7, <1>8
  DEF BaseStep, AcceptFails, AddConnection, QueueEstablished, NewConnectionDone, pool_vars
<1>9. CASE \E l \in Loops : LoopStep(l)
  BY <1>5, <1>6, <1>7, <1>9
  DEF LoopStep, Poll, OnCloseConnection, SwapPending, BatchDone, pool_vars
<1>10. CASE UNCHANGED vars
  BY <1>7, <1>10 DEF vars, pool_vars
<1> QED
  BY <1>7, <1>8, <1>9, <1>10 DEF Next, StartThread, ClientConnects, ClientLeaves, pool_vars

(* No io thread is given two connections more than another, and the base   *)
(* loop none if there are io threads: EventLoopThreadPool.cpp:37-47.       *)
THEOREM ThreadsShareConnections == Spec => []LoadBalanced
<1> USE ConstantsTyped DEF BaseLoop
<1>1. Init => InTurn
  <2> SUFFICES ASSUME Init PROVE InTurn
    OBVIOUS
  <2>1. Made = {} /\ \A l : Given(l) = {}
    BY DEF Init, Made, Given
  <2>2. \A l : Load(l) = 0
    BY <2>1, FS_EmptySet DEF Load
  <2>3. next_thread_id_ = 0 /\ \A k \in 1 .. thread_num_ : ~(k <= 0)
    BY DEF Init
  <2> QED
    BY <2>1, <2>2, <2>3 DEF InTurn
<1>2. Inv /\ InTurn => LoadBalanced
  <2> SUFFICES ASSUME Inv, InTurn PROVE LoadBalanced
    OBVIOUS
  <2> DEFINE io == IF thread_num_ = 0 THEN {0} ELSE 1 .. thread_num_
  <2>1. \A l : Load(l) = Cardinality({c \in 1 .. made : conn[c].loop = l})
    BY DEF Load, Given, Made
  <2>2. \A l \in io : Load(l) \in Nat
    <3>1. IsFiniteSet(Made)
      BY FS_Interval DEF Made, Inv, TypeOK
    <3> QED
      BY <3>1, FS_Subset, FS_CardinalityType DEF Load, Given
  <2>3. \A k, l \in io : Load(k) <= Load(l) + 1
    BY <2>2 DEF InTurn
  <2>4. ASSUME NEW l \in Loops \ io PROVE Load(l) = 0
    <3>1. Given(l) = {}
      BY DEF InTurn, Given
    <3> QED
      BY <3>1, FS_EmptySet DEF Load
  <2> QED
    BY <2>1, <2>3, <2>4 DEF LoadBalanced
<1> QED
  BY <1>1, <1>2, InTurnStep, InvHolds, InvStep, PTL DEF Spec
=============================================================================
