-------------------------- MODULE LiveRelayProofs --------------------------
(***************************************************************************)
(* Proofs about LiveRelay for any number of publishers, viewers, paths,    *)
(* tags and requests.                                                      *)
(***************************************************************************)
EXTENDS LiveRelay, SequenceTheorems, TLAPS

(* An element of a queue in two parts is in the first or in the second.    *)
LEMMA EitherPart ==
  ASSUME NEW S, NEW s \in Seq(S), NEW t \in Seq(S), NEW i \in DOMAIN (s \o t)
  PROVE  \/ i \in 1 .. Len(s) /\ (s \o t)[i] = s[i]
         \/ i - Len(s) \in 1 .. Len(t) /\ (s \o t)[i] = t[i - Len(s)]
<1>1. Len(s) \in Nat /\ Len(t) \in Nat
  BY LenProperties
<1>2. s \o t \in Seq(S) /\ Len(s \o t) = Len(s) + Len(t)
  BY ConcatProperties
<1>3. i \in 1 .. Len(s) + Len(t)
  BY <1>2, LenProperties
<1>4. (s \o t)[i] = IF i <= Len(s) THEN s[i] ELSE t[i - Len(s)]
  BY <1>3, ConcatProperties
<1>5. CASE i <= Len(s)
  BY <1>1, <1>3, <1>4, <1>5
<1>6. CASE ~(i <= Len(s))
  BY <1>1, <1>3, <1>4, <1>6
<1> QED
  BY <1>5, <1>6

(* TypeOK is inductive only with what the positions of the handlers say of *)
(* the pointers they go through and of the tags they have read.            *)
ControlInv ==
    /\ \A p \in Publishers :
          /\ fan[p] # "idle" => last_flv_tag[p] # 0
          /\ fan[p] = "send" => at[p] \in Viewers
    /\ \A v \in Viewers :
          /\ join[v] \notin {"idle", "leave", "release"} => join_to[v] \in Publishers
          /\ join[v] = "first" => last_flv_tag[join_to[v]] # 0
          /\ join[v] \in {"leave", "release"} => status[v] = "disconnected"
          /\ join[v] = "encode" => temp[v].read < HeaderTags
          /\ join[v] \notin {"encode", "response", "body"} => temp[v] = NotEncoded
          /\ temp[v].found <= temp[v].read

(* The last tag of a publisher that has one is a tag.                      *)
LEMMA LastTagIsTag ==
  ASSUME NEW n \in 0 .. MaxTag, n # 0
  PROVE  n \in Tags
<1>1. MaxTag \in Nat
  BY RelayAssumption
<1> QED
  BY <1>1 DEF Tags

(* What Send does to a viewer keeps the types of what it touches, and      *)
(* leaves alone the other viewers and a viewer that is disconnected.       *)
LEMMA DeliverType ==
  ASSUME TypeOK, NEW v \in Viewers, NEW item \in Items, Deliver(v, item)
  PROVE  /\ out' \in [Viewers -> Seq(Items)]
         /\ status' \in [Viewers -> {"connected", "disconnecting", "disconnected"}]
         /\ \A w \in Viewers : status[w] = "disconnected" => status'[w] = "disconnected"
<1>1. out[v] \in Seq(Items)
  BY DEF TypeOK
<1>2. Append(out[v], item) \in Seq(Items)
  BY <1>1, AppendProperties
<1>3. \A w \in Viewers : status[w] = "disconnected" => status'[w] = "disconnected"
  BY DEF TypeOK, Deliver
<1> QED
  BY <1>2, <1>3 DEF TypeOK, Deliver

LEMMA InitType == Init => TypeOK /\ ControlInv
<1>1. <<>> \in Seq(Parts) /\ <<>> \in Seq(TagItems) /\ <<>> \in Seq(Items)
  BY EmptySeq
<1>2. 0 \in 0 .. MaxTag /\ 0 \in 0 .. MaxRequests /\ 0 \in Sizes
  BY RelayAssumption DEF Sizes
<1>3. Init => TypeOK
  BY <1>1, <1>2, RelayAssumption DEF Init, TypeOK, FanPositions, JoinPositions, NotEncoded
<1>4. Init => ControlInv
  BY RelayAssumption DEF Init, ControlInv, NotEncoded
<1> QED
  BY <1>3, <1>4

(* The publishers' threads.                                                *)
LEMMA PublisherType ==
  ASSUME TypeOK, ControlInv, NEW p \in Publishers, PublisherStep(p)
  PROVE  TypeOK' /\ ControlInv'
<1> USE DEF TypeOK, ControlInv, FanPositions
<1>1. ASSUME NEW path \in Paths, Bind(p, path)
      PROVE  TypeOK' /\ ControlInv'
  BY <1>1 DEF Bind, server_vars, viewer_vars
<1>2. CASE ParseHeader(p)
  <2>1. meta[p] \in 0 .. HeaderTags /\ meta[p] < HeaderTags /\ HeaderTags \in Nat
    BY <1>2, RelayAssumption DEF ParseHeader
  <2>2. meta[p] + 1 \in 0 .. HeaderTags
    BY <2>1
  <2> QED
    BY <1>2, <2>2 DEF ParseHeader, viewer_vars
<1>3. CASE NewTag(p)
  <2>1. last_flv_tag[p] + 1 \in 0 .. MaxTag /\ last_flv_tag[p] \in Sizes
    BY <1>3, RelayAssumption DEF NewTag, Sizes
  <2>2. last_flv_tag[p] + 1 # 0
    BY <2>1
  <2>3. TypeOK'
    BY <1>3, <2>1 DEF NewTag, viewer_vars
  <2>4. ControlInv'
    BY <1>3, <2>1, <2>2 DEF NewTag, viewer_vars
  <2> QED
    BY <2>3, <2>4
<1>4. CASE MakeTagBuffer(p)
  BY <1>4 DEF MakeTagBuffer, viewer_vars
<1>5. CASE Advance(p)
  <2>1. /\ ahead' \in [Publishers -> SUBSET Viewers]
        /\ at' \in [Publishers -> Viewers \cup {NULL}]
        /\ fan' \in [Publishers -> FanPositions]
    <3>1. ASSUME NEW v \in ahead[p],
                 at' = [at EXCEPT ![p] = v],
                 ahead' = [ahead EXCEPT ![p] = @ \ {v}],
                 fan' = [fan EXCEPT ![p] = "send"]
          PROVE  /\ ahead' \in [Publishers -> SUBSET Viewers]
                 /\ at' \in [Publishers -> Viewers \cup {NULL}]
                 /\ fan' \in [Publishers -> FanPositions]
      <4>1. v \in Viewers
        OBVIOUS
      <4> QED
        BY <3>1, <4>1
    <3> QED
      BY <1>5, <3>1 DEF Advance
  <2>2. TypeOK'
    BY <1>5, <2>1 DEF Advance, viewer_vars
  <2>3. ControlInv'
    BY <1>5 DEF Advance, viewer_vars
  <2> QED
    BY <2>2, <2>3
<1>6. CASE SendTag(p)
  <2>1. at[p] \in Viewers /\ last_flv_tag[p] \in Tags
    BY <1>6, RelayAssumption DEF SendTag, Tags
  <2>2. TagItem(p, last_flv_tag[p]) \in TagItems
    BY <2>1 DEF TagItem, TagItems
  <2>3. Append(pending[at[p]], TagItem(p, last_flv_tag[p])) \in Seq(TagItems)
    BY <2>1, <2>2, AppendProperties
  <2>4. pending' \in [Viewers -> Seq(TagItems)]
    BY <1>6, <2>1, <2>3 DEF SendTag
  <2>5. TypeOK'
    BY <1>6, <2>4 DEF SendTag
  <2>6. ControlInv'
    BY <1>6 DEF SendTag
  <2> QED
    BY <2>5, <2>6
<1>7. CASE UseStaleIterator(p)
  BY <1>7 DEF UseStaleIterator, server_vars, viewer_vars
<1> QED
  BY <1>1, <1>2, <1>3, <1>4, <1>5, <1>6, <1>7 DEF PublisherStep, FanOut

(* The viewers' threads.                                                   *)
LEMMA ViewerType ==
  ASSUME TypeOK, ControlInv, NEW v \in Viewers, ViewerStep(v)
  PROVE  TypeOK' /\ ControlInv'
<1> USE DEF TypeOK, ControlInv, JoinPositions
<1>1. ASSUME NEW path \in Paths, RequestFound(v, path)
      PROVE  TypeOK' /\ ControlInv'
  <2>1. requests[v] + 1 \in 0 .. MaxRequests
    BY <1>1, RelayAssumption DEF RequestFound
  <2>2. rtmp_connection_map[path] \in Publishers
    BY <1>1 DEF RequestFound
  <2>3. TypeOK'
    BY <1>1, <2>1, <2>2 DEF RequestFound, server_vars
  <2>4. ControlInv'
    BY <1>1, <2>2 DEF RequestFound, server_vars
  <2> QED
    BY <2>3, <2>4
<1>2. ASSUME NEW path \in Paths, RequestNotFound(v, path)
      PROVE  TypeOK' /\ ControlInv'
  <2>1. requests[v] + 1 \in 0 .. MaxRequests
    BY <1>2, RelayAssumption DEF RequestNotFound
  <2> QED
    BY <1>2, <2>1 DEF RequestNotFound, server_vars
<1>3. CASE Insert(v)
  <2>1. join_to[v] \in Publishers
    BY <1>3 DEF Insert
  <2>2. /\ ahead' \in [Publishers -> SUBSET Viewers]
        /\ client_connection_map' \in [Publishers -> SUBSET Viewers]
    <3> DEFINE with(m) == [m EXCEPT ![join_to[v]] = @ \cup {v}]
    <3>1. ASSUME NEW m \in [Publishers -> SUBSET Viewers]
          PROVE  with(m) \in [Publishers -> SUBSET Viewers]
      BY <2>1
    <3>2. client_connection_map' = with(client_connection_map)
      BY <1>3 DEF Insert
    <3>3. ahead' = ahead \/ ahead' = with(ahead)
      BY <1>3 DEF Insert
    <3> HIDE DEF with
    <3> QED
      BY <3>1, <3>2, <3>3
  <2>3. /\ close_to' \in [Viewers -> Publishers \cup {NULL}]
        /\ join' \in [Viewers -> JoinPositions]
    BY <1>3, <2>1 DEF Insert
  <2>4. UNCHANGED <<rtmp_connection_map, bound, meta, last_flv_tag, prev_size, header_buffer,
                    fan, fan_prev, at, status, join_to, temp, requests, pending, out, fault>>
    BY <1>3 DEF Insert
  <2>5. TypeOK'
    BY <2>2, <2>3, <2>4
  <2>6. ControlInv'
    BY <1>3 DEF Insert
  <2> QED
    BY <2>5, <2>6
<1>4. CASE CheckHeader(v)
  <2>1. TypeOK'
    BY <1>4 DEF CheckHeader, server_vars
  <2>2. temp[v].read < HeaderTags
    <3>1. join[v] = "check"
      BY <1>4 DEF CheckHeader
    <3>2. temp[v] = NotEncoded
      BY <3>1
    <3>3. HeaderTags \in Nat /\ HeaderTags # 0
      BY RelayAssumption
    <3> QED
      BY <3>2, <3>3 DEF NotEncoded
  <2>3. ControlInv'
    BY <1>4, <2>2 DEF CheckHeader, server_vars
  <2> QED
    BY <2>1, <2>3
<1>5. CASE EncodeHeader(v)
  <2> DEFINE read == temp[v].read + 1
             found == IF meta[join_to[v]] >= read THEN temp[v].found + 1 ELSE temp[v].found
             step == [read |-> read, found |-> found]
  <2>1. /\ temp[v].read \in Nat /\ temp[v].found \in Nat /\ temp[v].found <= temp[v].read
        /\ temp[v].read < HeaderTags /\ HeaderTags \in Nat
    BY <1>5, RelayAssumption DEF EncodeHeader
  <2>2. /\ read \in 0 .. HeaderTags /\ found \in 0 .. HeaderTags /\ found <= read
        /\ read # HeaderTags => read < HeaderTags
    BY <2>1
  <2>3. temp' = [temp EXCEPT ![v] = step]
    BY <1>5 DEF EncodeHeader
  <2>4. /\ join[v] = "encode" /\ join_to[v] \in Publishers
        /\ join' = [join EXCEPT ![v] = IF read = HeaderTags THEN "response" ELSE "encode"]
        /\ UNCHANGED <<rtmp_connection_map, bound, server_vars, header_buffer,
                       client_connection_map, status, join_to, close_to, requests,
                       pending, out, fault>>
    BY <1>5 DEF EncodeHeader
  <2> HIDE DEF read, found
  <2>5. temp' \in [Viewers -> [read : 0 .. HeaderTags, found : 0 .. HeaderTags]]
    BY <2>2, <2>3
  <2>6. TypeOK'
    BY <2>4, <2>5 DEF server_vars
  <2>7. /\ temp'[v].read = read /\ temp'[v].found = found
        /\ \A w \in Viewers \ {v} : temp'[w] = temp[w] /\ join'[w] = join[w]
        /\ join'[v] = IF read = HeaderTags THEN "response" ELSE "encode"
    BY <2>3, <2>4
  <2>8. ControlInv'
    BY <2>2, <2>4, <2>7 DEF server_vars
  <2> QED
    BY <2>6, <2>8
<1>6. CASE AppendHeader(v)
  <2> DEFINE part == IF join[v] = "response" THEN Response ELSE temp[v].found
  <2>1. join_to[v] \in Publishers
    BY <1>6 DEF AppendHeader
  <2>2. part \in Parts
    BY DEF Parts
  <2>3. Append(header_buffer[join_to[v]], part) \in Seq(Parts)
    BY <2>1, <2>2, AppendProperties
  <2>4. header_buffer' \in [Publishers -> Seq(Parts)]
    BY <1>6, <2>1, <2>3 DEF AppendHeader
  <2>5. temp' \in [Viewers -> [read : 0 .. HeaderTags, found : 0 .. HeaderTags]]
    BY <1>6, RelayAssumption DEF AppendHeader, NotEncoded
  <2>6. join' \in [Viewers -> JoinPositions]
    BY <1>6 DEF AppendHeader
  <2>7. TypeOK'
    BY <1>6, <2>4, <2>5, <2>6 DEF AppendHeader, server_vars
  <2>8. NotEncoded.found <= NotEncoded.read
    BY DEF NotEncoded
  <2>9. ControlInv'
    BY <1>6, <2>8 DEF AppendHeader, server_vars
  <2> QED
    BY <2>7, <2>9
<1>7. CASE SendHeader(v)
  <2> DEFINE item == HeaderItem(join_to[v])
  <2>1. item \in Items
    BY <1>7 DEF SendHeader, HeaderItem, HeaderItems, Items
  <2>2. /\ out' \in [Viewers -> Seq(Items)]
        /\ status' \in [Viewers -> {"connected", "disconnecting", "disconnected"}]
        /\ \A w \in Viewers : status[w] = "disconnected" => status'[w] = "disconnected"
    BY <1>7, <2>1, DeliverType DEF SendHeader
  <2>3. TypeOK'
    BY <1>7, <2>2 DEF SendHeader, server_vars
  <2>4. ControlInv'
    BY <1>7, <2>2 DEF SendHeader, server_vars
  <2> QED
    BY <2>3, <2>4
<1>8. CASE MarkLastTag(v)
  <2>1. HeaderTag \in Sizes
    BY DEF Sizes
  <2>2. TypeOK'
    BY <1>8, <2>1 DEF MarkLastTag
  <2>3. ControlInv'
    BY <1>8 DEF MarkLastTag
  <2> QED
    BY <2>2, <2>3
<1>9. CASE MarkNullTag(v)
  BY <1>9 DEF MarkNullTag, server_vars, viewer_vars
<1>10. CASE SendFirstTag(v)
  <2> DEFINE p == join_to[v]
             item == TagItem(p, last_flv_tag[p])
  <2>1. p \in Publishers /\ last_flv_tag[p] \in Tags
    BY <1>10, LastTagIsTag DEF SendFirstTag
  <2>2. item \in Items
    BY <2>1 DEF TagItem, TagItems, Items
  <2>3. /\ out' \in [Viewers -> Seq(Items)]
        /\ status' \in [Viewers -> {"connected", "disconnecting", "disconnected"}]
        /\ \A w \in Viewers : status[w] = "disconnected" => status'[w] = "disconnected"
    BY <1>10, <2>2, DeliverType DEF SendFirstTag
  <2>4. TypeOK'
    BY <1>10, <2>3 DEF SendFirstTag, server_vars
  <2>5. ControlInv'
    BY <1>10, <2>3 DEF SendFirstTag, server_vars
  <2> QED
    BY <2>4, <2>5
<1>11. CASE RunPending(v)
  <2>1. Head(pending[v]) \in TagItems /\ Tail(pending[v]) \in Seq(TagItems)
    BY <1>11, HeadTailProperties DEF RunPending
  <2>2. /\ out' \in [Viewers -> Seq(Items)]
        /\ status' \in [Viewers -> {"connected", "disconnecting", "disconnected"}]
        /\ \A w \in Viewers : status[w] = "disconnected" => status'[w] = "disconnected"
    BY <1>11, <2>1, DeliverType DEF RunPending, Items
  <2>3. TypeOK'
    BY <1>11, <2>1, <2>2 DEF RunPending, server_vars
  <2>4. ControlInv'
    BY <1>11, <2>2 DEF RunPending, server_vars
  <2> QED
    BY <2>3, <2>4
<1>12. CASE RunPendingOnDestroyed(v)
  <2>1. Tail(pending[v]) \in Seq(TagItems)
    BY <1>12, HeadTailProperties DEF RunPendingOnDestroyed
  <2> QED
    BY <1>12, <2>1 DEF RunPendingOnDestroyed, server_vars
<1>13. CASE Close(v)
  BY <1>13 DEF Close, server_vars
<1>14. CASE OnConnectionClose(v)
  <2>1. TypeOK'
    BY <1>14 DEF OnConnectionClose
  <2>2. ControlInv'
    BY <1>14 DEF OnConnectionClose
  <2> QED
    BY <2>1, <2>2
<1>15. CASE OnCloseConnection(v)
  BY <1>15 DEF OnCloseConnection, server_vars
<1> QED
  BY <1>1, <1>2, <1>3, <1>4, <1>5, <1>6, <1>7, <1>8, <1>9, <1>10, <1>11, <1>12, <1>13, <1>14,
     <1>15
  DEF ViewerStep, Join

LEMMA TypeStep == TypeOK /\ ControlInv /\ [Next]_vars => TypeOK' /\ ControlInv'
<1>1. ASSUME TypeOK, ControlInv, UNCHANGED vars
      PROVE  TypeOK' /\ ControlInv'
  BY <1>1 DEF TypeOK, ControlInv, vars, server_vars, viewer_vars
<1> QED
  BY <1>1, PublisherType, ViewerType DEF Next

LEMMA TypeInvariant == Spec => [](TypeOK /\ ControlInv)
  BY InitType, TypeStep, PTL DEF Spec

(* The types of the relay's variables are kept by every step of the        *)
(* publishers' and the viewers' threads (RtmpServerConnection.cpp,         *)
(* RtmpClientConnection.cpp, main.cpp).                                    *)
THEOREM RelayTypeCorrect == Spec => []TypeOK
  BY TypeInvariant, PTL

-----------------------------------------------------------------------------
(* HeaderFirst says nothing of the tags on their way.  The strengthening:  *)
(* nobody fans a tag out to a viewer that has not been served yet and is   *)
(* not being served, and the handler cannot send its first tag unserved.   *)
Served(v) == out[v] # <<>> \/ status[v] # "connected"

Joined(v) ==
    \/ \E p \in Publishers :
          v \in client_connection_map[p] \/ v \in ahead[p] \/ v = at[p]
    \/ pending[v] # <<>>

HeaderInv ==
    /\ HeaderFirst
    /\ \A v \in Viewers :
          /\ join[v] \in {"mark", "first"} => Served(v)
          /\ join[v] \in {"idle", "insert"} /\ Joined(v) => Served(v)

LEMMA HeaderInvInit == Init => HeaderInv
<1> SUFFICES ASSUME Init PROVE HeaderInv
  OBVIOUS
<1>1. ASSUME NEW v \in Viewers PROVE ~Joined(v) /\ out[v] = <<>> /\ join[v] = "idle"
  <2>1. \A p \in Publishers : at[p] # v
    BY RelayAssumption DEF Init
  <2> QED
    BY <2>1 DEF Init, Joined
<1> QED
  BY <1>1 DEF HeaderInv, HeaderFirst

(* A step that sends nothing and moves no handler of a viewer.             *)
LEMMA HeaderInvFrame ==
  ASSUME HeaderInv, UNCHANGED <<out, status, join>>,
         \A v \in Viewers : Joined(v)' => Joined(v) \/ join[v] \notin {"idle", "insert"}
  PROVE  HeaderInv'
  BY DEF HeaderInv, HeaderFirst, Served

LEMMA HeaderInvPublisher ==
  ASSUME TypeOK, ControlInv, HeaderInv, NEW p \in Publishers, PublisherStep(p)
  PROVE  HeaderInv'
<1>1. UNCHANGED <<out, status, join>>
  BY DEF PublisherStep, FanOut, Bind, ParseHeader, NewTag, MakeTagBuffer, Advance, SendTag,
         UseStaleIterator, server_vars, viewer_vars
<1>2. ASSUME NEW path \in Paths, Bind(p, path)
      PROVE  \A v \in Viewers : Joined(v)' => Joined(v)
  BY <1>2 DEF Bind, server_vars, viewer_vars, Joined
<1>3. CASE ParseHeader(p) \/ NewTag(p) \/ UseStaleIterator(p)
  <2>1. UNCHANGED <<client_connection_map, ahead, at, pending>>
    BY <1>3 DEF ParseHeader, NewTag, UseStaleIterator, server_vars, viewer_vars
  <2> QED
    BY <1>1, <2>1, HeaderInvFrame DEF Joined
<1>4. CASE MakeTagBuffer(p)
  <2>1. \A v \in Viewers : Joined(v)' => Joined(v)
    BY <1>4 DEF MakeTagBuffer, viewer_vars, Joined, TypeOK
  <2> QED
    BY <1>1, <2>1, HeaderInvFrame
<1>5. CASE Advance(p)
  <2>1. ASSUME NEW v \in Viewers, Joined(v)' PROVE Joined(v)
    <3>1. v # NULL
      BY RelayAssumption
    <3>2. UNCHANGED <<client_connection_map, pending>>
      BY <1>5 DEF Advance, viewer_vars
    <3>3. ASSUME NEW q \in Publishers, v \in ahead'[q] \/ v = at'[q]
          PROVE  v \in ahead[q] \/ v = at[q]
      <4>1. CASE q = p
        <5>1. CASE ahead[p] = {} /\ at' = [at EXCEPT ![p] = NULL] /\ ahead' = ahead
          BY <3>1, <3>3, <4>1, <5>1 DEF TypeOK
        <5>2. ASSUME NEW w \in ahead[p],
                     at' = [at EXCEPT ![p] = w], ahead' = [ahead EXCEPT ![p] = @ \ {w}]
              PROVE  v \in ahead[q] \/ v = at[q]
          BY <3>3, <4>1, <5>2 DEF TypeOK
        <5> QED
          BY <1>5, <5>1, <5>2 DEF Advance
      <4>2. CASE q # p
        <5>1. ahead'[q] = ahead[q] /\ at'[q] = at[q]
          BY <1>5, <4>2 DEF Advance, TypeOK
        <5> QED
          BY <3>3, <5>1
      <4> QED
        BY <4>1, <4>2
    <3> QED
      BY <2>1, <3>2, <3>3 DEF Joined
  <2> QED
    BY <1>1, <2>1, HeaderInvFrame
<1>6. CASE SendTag(p)
  <2>1. ASSUME NEW v \in Viewers, Joined(v)' PROVE Joined(v)
    <3>1. UNCHANGED <<client_connection_map, ahead, at>>
      BY <1>6 DEF SendTag
    <3>2. CASE v = at[p]
      BY <3>2 DEF Joined
    <3>3. CASE v # at[p]
      <4>1. pending'[v] = pending[v]
        BY <1>6, <3>3 DEF SendTag, TypeOK
      <4> QED
        BY <2>1, <3>1, <4>1 DEF Joined
    <3> QED
      BY <3>2, <3>3
  <2> QED
    BY <1>1, <2>1, HeaderInvFrame
<1> QED
  BY <1>1, <1>2, <1>3, <1>4, <1>5, <1>6, HeaderInvFrame DEF PublisherStep, FanOut

(* Send of the header, or of any item to a viewer that has been served.    *)
LEMMA DeliverServes ==
  ASSUME TypeOK, HeaderFirst, NEW v \in Viewers, NEW item \in Items, Deliver(v, item),
         item.kind = "header" \/ Served(v)
  PROVE  /\ HeaderFirst'
         /\ Served(v)'
         /\ \A w \in Viewers \ {v} : Served(w)' <=> Served(w)
<1>1. CASE status[v] = "connected" /\ out' = [out EXCEPT ![v] = Append(@, item)] /\ status' = status
  <2>1. out[v] \in Seq(Items)
    BY DEF TypeOK
  <2>2. out'[v] = Append(out[v], item) /\ \A w \in Viewers \ {v} : out'[w] = out[w]
    BY <1>1 DEF TypeOK
  <2>3. out'[v] # <<>>
    BY <2>1, <2>2, AppendProperties
  <2>4. Head(out'[v]) = IF out[v] = <<>> THEN item ELSE Head(out[v])
    BY <2>1, <2>2, HeadTailAppend
  <2>5. Head(out'[v]).kind = "header"
    BY <1>1, <2>4 DEF HeaderFirst, Served
  <2>6. HeaderFirst'
    BY <2>2, <2>5 DEF HeaderFirst
  <2> QED
    BY <1>1, <2>2, <2>3, <2>6 DEF Served
<1>2. CASE /\ status[v] = "connected"
           /\ status' = [status EXCEPT ![v] = "disconnecting"]
           /\ out' = out
  BY <1>2 DEF TypeOK, HeaderFirst, Served
<1>3. CASE status[v] # "connected" /\ UNCHANGED <<status, out>>
  BY <1>3 DEF HeaderFirst, Served
<1> QED
  BY <1>1, <1>2, <1>3 DEF Deliver

LEMMA HeaderInvViewer ==
  ASSUME TypeOK, ControlInv, HeaderInv, NEW v \in Viewers, ViewerStep(v)
  PROVE  HeaderInv'
<1>1. ASSUME NEW path \in Paths, RequestFound(v, path)
      PROVE  HeaderInv'
  <2>1. UNCHANGED <<out, status, client_connection_map, ahead, at, pending>>
    BY <1>1 DEF RequestFound, server_vars
  <2>2. join[v] = "idle" /\ join'[v] = "insert" /\ \A w \in Viewers \ {v} : join'[w] = join[w]
    BY <1>1 DEF RequestFound, TypeOK
  <2> QED
    BY <2>1, <2>2 DEF HeaderInv, HeaderFirst, Served, Joined
<1>2. ASSUME NEW path \in Paths, RequestNotFound(v, path)
      PROVE  HeaderInv'
  <2>1. UNCHANGED <<out, join, client_connection_map, ahead, at, pending>>
    BY <1>2 DEF RequestNotFound, server_vars
  <2>2. \A w \in Viewers : Served(w) => Served(w)'
    BY <1>2, <2>1 DEF RequestNotFound, TypeOK, Served
  <2> QED
    BY <2>1, <2>2 DEF HeaderInv, HeaderFirst, Joined
<1>3. CASE Insert(v)
  <2>1. UNCHANGED <<out, status, at, pending>>
    BY <1>3 DEF Insert
  <2>2. join'[v] = "check" /\ \A w \in Viewers \ {v} : join'[w] = join[w]
    BY <1>3 DEF Insert, TypeOK
  <2>3. ASSUME NEW w \in Viewers \ {v}, NEW q \in Publishers
        PROVE  /\ w \in client_connection_map'[q] => w \in client_connection_map[q]
               /\ w \in ahead'[q] => w \in ahead[q]
    BY <1>3 DEF Insert, TypeOK
  <2>4. \A w \in Viewers \ {v} : Joined(w)' => Joined(w)
    BY <2>1, <2>3 DEF Joined
  <2> QED
    BY <2>1, <2>2, <2>4 DEF HeaderInv, HeaderFirst, Served
<1>4. CASE CheckHeader(v) \/ EncodeHeader(v) \/ AppendHeader(v)
  <2>1. UNCHANGED <<out, status, client_connection_map, ahead, at, pending>>
    BY <1>4 DEF CheckHeader, EncodeHeader, AppendHeader, server_vars
  <2>2. /\ join'[v] \in {"encode", "response", "body", "header"}
        /\ \A w \in Viewers \ {v} : join'[w] = join[w]
    BY <1>4 DEF CheckHeader, EncodeHeader, AppendHeader, TypeOK
  <2> QED
    BY <2>1, <2>2 DEF HeaderInv, HeaderFirst, Served, Joined
<1>5. CASE SendHeader(v)
  <2> DEFINE item == HeaderItem(join_to[v])
  <2>1. item \in Items /\ item.kind = "header"
    BY <1>5 DEF SendHeader, HeaderItem, HeaderItems, Items, TypeOK, ControlInv
  <2>2. Deliver(v, item)
    BY <1>5 DEF SendHeader
  <2>3. HeaderFirst
    BY DEF HeaderInv
  <2> HIDE DEF item
  <2>4. HeaderFirst' /\ Served(v)' /\ \A w \in Viewers \ {v} : Served(w)' <=> Served(w)
    BY <2>1, <2>2, <2>3, DeliverServes
  <2>5. UNCHANGED <<client_connection_map, ahead, at, pending>>
    BY <1>5 DEF SendHeader, server_vars
  <2>6. \A w \in Viewers \ {v} : join'[w] = join[w]
    BY <1>5 DEF SendHeader, TypeOK
  <2> QED
    BY <2>4, <2>5, <2>6 DEF HeaderInv, Joined
<1>6. CASE MarkLastTag(v)
  <2>1. UNCHANGED <<out, status, client_connection_map, ahead, at, pending>>
    BY <1>6 DEF MarkLastTag
  <2>2. /\ join[v] = "mark" /\ join'[v] = "first"
        /\ \A w \in Viewers \ {v} : join'[w] = join[w]
    BY <1>6 DEF MarkLastTag, TypeOK
  <2> QED
    BY <2>1, <2>2 DEF HeaderInv, HeaderFirst, Served, Joined
<1>7. CASE MarkNullTag(v)
  <2>1. UNCHANGED <<out, status, join, client_connection_map, ahead, at, pending>>
    BY <1>7 DEF MarkNullTag, server_vars, viewer_vars
  <2> QED
    BY <2>1, HeaderInvFrame DEF Joined
<1>8. CASE SendFirstTag(v)
  <2> DEFINE item == TagItem(join_to[v], last_flv_tag[join_to[v]])
  <2>1. item \in Items
    <3>1. join_to[v] \in Publishers /\ last_flv_tag[join_to[v]] \in Tags
      BY <1>8, LastTagIsTag DEF SendFirstTag, TypeOK, ControlInv
    <3> QED
      BY <3>1 DEF TagItem, TagItems, Items
  <2>2. Deliver(v, item)
    BY <1>8 DEF SendFirstTag
  <2>3. HeaderFirst /\ Served(v)
    BY <1>8 DEF HeaderInv, SendFirstTag
  <2> HIDE DEF item
  <2>4. HeaderFirst' /\ Served(v)' /\ \A w \in Viewers \ {v} : Served(w)' <=> Served(w)
    BY <2>1, <2>2, <2>3, DeliverServes
  <2>5. UNCHANGED <<client_connection_map, ahead, at, pending>>
    BY <1>8 DEF SendFirstTag, server_vars
  <2>6. \A w \in Viewers \ {v} : join'[w] = join[w]
    BY <1>8 DEF SendFirstTag, TypeOK
  <2> QED
    BY <2>4, <2>5, <2>6 DEF HeaderInv, Joined
<1>9. CASE RunPending(v)
  <2>1. Head(pending[v]) \in Items
    BY <1>9, HeadTailProperties DEF RunPending, TypeOK, Items
  <2>2. Deliver(v, Head(pending[v])) /\ join[v] = "idle" /\ pending[v] # <<>>
    BY <1>9 DEF RunPending
  <2>3. HeaderFirst /\ Served(v)
    BY <2>2 DEF HeaderInv, Joined
  <2>4. HeaderFirst' /\ Served(v)' /\ \A w \in Viewers \ {v} : Served(w)' <=> Served(w)
    BY <2>1, <2>2, <2>3, DeliverServes
  <2>5. UNCHANGED <<join, client_connection_map, ahead, at>>
    BY <1>9 DEF RunPending, server_vars
  <2>6. \A w \in Viewers \ {v} : pending'[w] = pending[w]
    BY <1>9 DEF RunPending, TypeOK
  <2> QED
    BY <2>4, <2>5, <2>6 DEF HeaderInv, Joined
<1>10. CASE RunPendingOnDestroyed(v)
  <2>1. UNCHANGED <<out, status, join, client_connection_map, ahead, at>>
    BY <1>10 DEF RunPendingOnDestroyed, server_vars
  <2>2. pending[v] # <<>> /\ \A w \in Viewers \ {v} : pending'[w] = pending[w]
    BY <1>10 DEF RunPendingOnDestroyed, TypeOK
  <2>3. \A w \in Viewers : Joined(w)' => Joined(w)
    BY <2>1, <2>2 DEF Joined
  <2> QED
    BY <2>1, <2>3, HeaderInvFrame
<1>11. CASE Close(v) \/ OnConnectionClose(v) \/ OnCloseConnection(v)
  <2>1. UNCHANGED <<out, at, pending>> /\ \A w \in Viewers \ {v} : join'[w] = join[w]
    BY <1>11 DEF Close, OnConnectionClose, OnCloseConnection, server_vars, TypeOK
  <2>2. Served(v)' /\ \A w \in Viewers : Served(w) => Served(w)'
    BY <1>11, <2>1 DEF Close, OnConnectionClose, OnCloseConnection, ControlInv, TypeOK, Served
  <2>3. ASSUME NEW w \in Viewers, NEW q \in Publishers
        PROVE  /\ w \in client_connection_map'[q] => w \in client_connection_map[q]
               /\ w \in ahead'[q] => w \in ahead[q]
    BY <1>11 DEF Close, OnConnectionClose, OnCloseConnection, server_vars
  <2>4. \A w \in Viewers : Joined(w)' => Joined(w)
    BY <2>1, <2>3 DEF Joined
  <2> QED
    BY <2>1, <2>2, <2>4 DEF HeaderInv, HeaderFirst
<1> QED
  BY <1>1, <1>2, <1>3, <1>4, <1>5, <1>6, <1>7, <1>8, <1>9, <1>10, <1>11 DEF ViewerStep, Join

(* RtmpServerConnection.cpp:185-194: a viewer is in the map before its     *)
(* header is sent, and yet no tag can overtake the header.                 *)
THEOREM HeaderComesFirst == Spec => []HeaderFirst
<1>1. TypeOK /\ ControlInv /\ HeaderInv /\ [Next]_vars => HeaderInv'
  <2>1. ASSUME HeaderInv, UNCHANGED vars PROVE HeaderInv'
    BY <2>1, HeaderInvFrame DEF vars, server_vars, viewer_vars, Joined
  <2> QED
    BY <2>1, HeaderInvPublisher, HeaderInvViewer DEF Next
<1>2. HeaderInv => HeaderFirst
  BY DEF HeaderInv
<1> QED
  BY <1>1, <1>2, HeaderInvInit, TypeInvariant, PTL DEF Spec

-----------------------------------------------------------------------------
(* The viewers that have made one request: where they are known and what   *)
(* they receive.                                                           *)

(* No publisher knows the viewer and nothing was sent to it.               *)
Unserved(v) ==
    /\ out[v] = <<>> /\ pending[v] = <<>>
    /\ \A p \in Publishers :
          v \notin client_connection_map[p] /\ v \notin ahead[p] /\ at[p] # v

(* Only the publisher it asked for knows a viewer, and the close callback  *)
(* knows that publisher; an iteration is yet to reach it or has reached it.*)
Placed(v) ==
    /\ requests[v] = 0 => join[v] \in {"idle", "leave", "release"} /\ Unserved(v)
    /\ join[v] = "insert" => Unserved(v)
    /\ \A p \in Publishers :
          /\ v \in client_connection_map[p] => p = join_to[v] /\ p = close_to[v]
          /\ v \in ahead[p] => p = join_to[v] /\ at[p] # v
          /\ at[p] = v => p = join_to[v]
    /\ status[v] = "disconnected" =>
          /\ join[v] \in {"idle", "leave", "release"}
          /\ join[v] # "leave" => \A p \in Publishers : v \notin client_connection_map[p]

FromOne(v) ==
    /\ \A i \in DOMAIN out[v] : out[v][i].from = join_to[v]
    /\ \A i \in DOMAIN pending[v] : pending[v][i].from = join_to[v]

SourceOf(v) == requests[v] <= 1 => Placed(v) /\ FromOne(v)

SourceInv ==
    /\ \A p \in Publishers : fan[p] \in {"idle", "tag"} => ahead[p] = {} /\ at[p] = NULL
    /\ \A v \in Viewers : SourceOf(v)

(* The fan-out of the last tag has not reached the viewer yet.             *)
Awaits(v, p) == fan[p] = "tag" \/ v \in ahead[p] \/ (fan[p] = "send" /\ at[p] = v)

(* The tags fanned out to v so far end with this one.                      *)
UpTo(v, p) == IF Awaits(v, p) THEN last_flv_tag[p] - 1 ELSE last_flv_tag[p]

(* A viewer whose handler is at j was sent o and is to be sent q, which    *)
(* end with tag upto: from the third item on, item i is tag base + i.  The *)
(* second is the tag sent on joining, not older than the one before them.  *)
Numbered(o, q, j, upto, last) ==
    LET base == upto - Len(o) - Len(q) IN
    /\ \A i \in DOMAIN o : i > 2 => o[i].kind = "tag" /\ o[i].no = base + i
    /\ \A i \in DOMAIN q : q[i].no = base + Len(o) + i
    /\ j = "idle" =>
          /\ Len(o) >= 2 /\ base + 2 >= 0
          /\ o[2].kind = "tag" /\ o[2].no >= base + 2 /\ o[2].no \in 1 .. last
    /\ j \in {"mark", "first"} => Len(o) = 1 /\ base + 1 >= 0
    /\ j \notin {"idle", "mark", "first"} => Len(o) = 0 /\ base >= 0

InOrder(v, p) == Numbered(out[v], pending[v], join[v], UpTo(v, p), last_flv_tag[p])

OrderInv ==
    \A v \in Viewers, p \in Publishers :
        requests[v] <= 1 /\ v \in client_connection_map[p] /\ status[v] = "connected"
            => InOrder(v, p)

-----------------------------------------------------------------------------
(* What each step makes of a numbered stream.                              *)

LEMMA NumberedNewTag ==
  ASSUME NEW o \in Seq(Items), NEW q \in Seq(TagItems), NEW j, NEW u \in Int,
         NEW l \in Int, NEW m \in Int, l <= m, Numbered(o, q, j, u, l)
  PROVE  Numbered(o, q, j, u, m)
<1>1. o[2].no \in 1 .. l => o[2].no \in 1 .. m
  OBVIOUS
<1> QED
  BY <1>1 DEF Numbered

LEMMA NumberedFanned ==
  ASSUME NEW o \in Seq(Items), NEW q \in Seq(TagItems), NEW j, NEW u \in Int,
         NEW l \in Int, NEW item \in TagItems, item.no = u + 1, Numbered(o, q, j, u, l)
  PROVE  Numbered(o, Append(q, item), j, u + 1, l)
<1>1. Len(o) \in Nat /\ Len(q) \in Nat
  BY LenProperties
<1>2. /\ Append(q, item) \in Seq(TagItems)
      /\ Len(Append(q, item)) = Len(q) + 1
      /\ \A i \in 1 .. Len(q) : Append(q, item)[i] = q[i]
      /\ Append(q, item)[Len(q) + 1] = item
      /\ DOMAIN q = 1 .. Len(q) /\ DOMAIN Append(q, item) = 1 .. Len(q) + 1
  BY AppendProperties, LenProperties
<1> DEFINE base == u - Len(o) - Len(q)
<1>3. (u + 1) - Len(o) - Len(Append(q, item)) = base
  BY <1>1, <1>2
<1>4. ASSUME NEW i \in DOMAIN Append(q, item)
      PROVE  Append(q, item)[i].no = base + Len(o) + i
  <2>1. CASE i = Len(q) + 1
    BY <2>1, <1>1, <1>2
  <2>2. CASE i \in 1 .. Len(q)
    BY <2>2, <1>1, <1>2 DEF Numbered
  <2> QED
    BY <2>1, <2>2, <1>1, <1>2
<1> HIDE DEF base
<1>5. QED
  BY <1>3, <1>4 DEF Numbered, base

LEMMA NumberedHeader ==
  ASSUME NEW o \in Seq(Items), NEW q \in Seq(TagItems), NEW u \in Int,
         NEW l \in Int, NEW item \in Items, Numbered(o, q, "header", u, l)
  PROVE  Numbered(Append(o, item), q, "mark", u, l)
<1>1. Len(o) = 0 /\ Len(q) \in Nat /\ u - Len(o) - Len(q) >= 0
  BY LenProperties DEF Numbered
<1>2. Len(Append(o, item)) = 1 /\ DOMAIN Append(o, item) = 1 .. 1
  BY <1>1, AppendProperties, LenProperties
<1>3. \A i \in DOMAIN q : q[i].no = u - Len(o) - Len(q) + Len(o) + i
  BY DEF Numbered
<1>4. \A i \in DOMAIN q : i \in Int
  BY LenProperties
<1> QED
  BY <1>1, <1>2, <1>3, <1>4 DEF Numbered

LEMMA NumberedFirst ==
  ASSUME NEW o \in Seq(Items), NEW q \in Seq(TagItems), NEW u \in Int,
         NEW l \in Int, NEW item \in TagItems, item.no = l, l \in Tags, u <= l,
         Numbered(o, q, "first", u, l)
  PROVE  Numbered(Append(o, item), q, "idle", u, l)
<1>1. Len(o) = 1 /\ Len(q) \in Nat /\ u - Len(o) - Len(q) + 1 >= 0
  BY LenProperties DEF Numbered
<1>2. /\ Len(Append(o, item)) = 2 /\ DOMAIN Append(o, item) = 1 .. 2
      /\ Append(o, item)[2] = item
  <2>1. item \in Items
    BY DEF Items
  <2>2. /\ Append(o, item) \in Seq(Items)
        /\ Len(Append(o, item)) = Len(o) + 1
        /\ Append(o, item)[Len(o) + 1] = item
    BY <2>1, AppendProperties
  <2>3. DOMAIN Append(o, item) = 1 .. Len(Append(o, item))
    BY <2>2, LenProperties
  <2> QED
    BY <1>1, <2>2, <2>3
<1>3. \A i \in DOMAIN q : q[i].no = u - Len(o) - Len(q) + Len(o) + i
  BY DEF Numbered
<1>4. \A i \in DOMAIN q : i \in Int
  BY LenProperties
<1>5. item.kind = "tag" /\ l \in 1 .. l
  BY DEF TagItems, Tags
<1> QED
  BY <1>1, <1>2, <1>3, <1>4, <1>5 DEF Numbered

LEMMA NumberedServed ==
  ASSUME NEW o \in Seq(Items), NEW q \in Seq(TagItems), NEW u \in Int,
         NEW l \in Int, q # <<>>, Numbered(o, q, "idle", u, l)
  PROVE  Numbered(Append(o, Head(q)), Tail(q), "idle", u, l)
<1>1. Len(o) \in Nat /\ Len(q) \in Nat \ {0} /\ Len(o) >= 2
  BY LenProperties, EmptySeq DEF Numbered
<1>2. /\ Head(q) \in TagItems /\ Tail(q) \in Seq(TagItems)
      /\ Len(Tail(q)) = Len(q) - 1 /\ Head(q) = q[1]
      /\ \A i \in 1 .. Len(q) - 1 : Tail(q)[i] = q[i + 1]
      /\ DOMAIN q = 1 .. Len(q) /\ DOMAIN Tail(q) = 1 .. Len(q) - 1
  BY <1>1, HeadTailProperties, LenProperties
<1>3. Head(q) \in Items
  BY <1>2 DEF Items
<1>4. /\ Len(Append(o, Head(q))) = Len(o) + 1
      /\ \A i \in 1 .. Len(o) : Append(o, Head(q))[i] = o[i]
      /\ Append(o, Head(q))[Len(o) + 1] = Head(q)
      /\ DOMAIN o = 1 .. Len(o) /\ DOMAIN Append(o, Head(q)) = 1 .. Len(o) + 1
  BY <1>3, AppendProperties, LenProperties
<1> DEFINE base == u - Len(o) - Len(q)
<1>5. u - Len(Append(o, Head(q))) - Len(Tail(q)) = base /\ base \in Int
  BY <1>1, <1>2, <1>4
<1>6. ASSUME NEW i \in DOMAIN Append(o, Head(q)), i > 2
      PROVE  Append(o, Head(q))[i].kind = "tag" /\ Append(o, Head(q))[i].no = base + i
  <2>1. CASE i = Len(o) + 1
    <3>1. q[1].no = base + Len(o) + 1
      BY <1>1, <1>2 DEF Numbered
    <3>2. Head(q).kind = "tag"
      BY <1>2 DEF TagItems
    <3> QED
      BY <2>1, <3>1, <3>2, <1>1, <1>2, <1>4, <1>5
  <2>2. CASE i \in 1 .. Len(o)
    BY <2>2, <1>6, <1>4 DEF Numbered
  <2> QED
    BY <2>1, <2>2, <1>1, <1>4
<1>7. ASSUME NEW i \in DOMAIN Tail(q)
      PROVE  Tail(q)[i].no = base + Len(Append(o, Head(q))) + i
  <2>1. i + 1 \in DOMAIN q /\ Tail(q)[i] = q[i + 1]
    BY <1>1, <1>2
  <2>2. q[i + 1].no = base + Len(o) + (i + 1)
    BY <2>1 DEF Numbered
  <2> QED
    BY <2>1, <2>2, <1>1, <1>2, <1>4, <1>5
<1>8. Append(o, Head(q))[2] = o[2]
  BY <1>1, <1>4
<1> HIDE DEF base
<1>9. /\ Len(o) + 1 >= 2 /\ base + 2 >= 0
      /\ o[2].kind = "tag" /\ o[2].no >= base + 2 /\ o[2].no \in 1 .. l
  BY <1>1 DEF Numbered, base
<1> QED
  BY <1>4, <1>5, <1>6, <1>7, <1>8, <1>9 DEF Numbered

-----------------------------------------------------------------------------
(* SourceInv.                                                              *)

LEMMA SourceInit == Init => SourceInv
<1> SUFFICES ASSUME Init PROVE SourceInv
  OBVIOUS
<1>1. ASSUME NEW v \in Viewers PROVE Placed(v) /\ FromOne(v)
  <2>1. \A p \in Publishers : at[p] # v
    BY RelayAssumption DEF Init
  <2>2. DOMAIN out[v] = {} /\ DOMAIN pending[v] = {}
    BY DEF Init
  <2>3. FromOne(v)
    BY <2>2 DEF FromOne
  <2>4. Placed(v)
    BY <2>1 DEF Init, Placed, Unserved
  <2> QED
    BY <2>3, <2>4
<1> QED
  BY <1>1 DEF SourceInv, SourceOf, Init

(* A step that makes no publisher know a viewer it did not know.           *)
SameViewer(v) ==
    /\ status'[v] = status[v] /\ join'[v] = join[v] /\ join_to'[v] = join_to[v]
    /\ close_to'[v] = close_to[v] /\ requests'[v] = requests[v]
    /\ pending'[v] = pending[v] /\ out'[v] = out[v]

Unnoticed(v) ==
    \A p \in Publishers :
        /\ v \in client_connection_map'[p] => v \in client_connection_map[p]
        /\ v \in ahead'[p] => v \in ahead[p]
        /\ at'[p] = v => at[p] = v

LEMMA SourceFrame ==
  ASSUME NEW v \in Viewers, SourceOf(v), SameViewer(v), Unnoticed(v)
  PROVE  SourceOf(v)'
<1>1. Unserved(v) => Unserved(v)'
  BY DEF Unserved, SameViewer, Unnoticed
<1>2. FromOne(v) => FromOne(v)'
  BY DEF FromOne, SameViewer
<1>3. Placed(v) => Placed(v)'
  BY <1>1 DEF Placed, SameViewer, Unnoticed
<1> QED
  BY <1>2, <1>3 DEF SourceOf, SameViewer

(* The iteration over the map: begin() and ++.                             *)
LEMMA SourceIteration ==
  ASSUME TypeOK, SourceInv, NEW p \in Publishers, MakeTagBuffer(p) \/ Advance(p)
  PROVE  SourceInv'
<1>1. ASSUME NEW v \in Viewers PROVE SameViewer(v)
  BY DEF SameViewer, MakeTagBuffer, Advance, viewer_vars
<1>2. client_connection_map' = client_connection_map
  BY DEF MakeTagBuffer, Advance
<1>3. \A q \in Publishers \ {p} : ahead'[q] = ahead[q] /\ at'[q] = at[q] /\ fan'[q] = fan[q]
  BY DEF MakeTagBuffer, Advance, TypeOK
<1>4. \A v \in Viewers : v # NULL
  BY RelayAssumption
<1>5. CASE MakeTagBuffer(p)
  <2>1. ahead'[p] = client_connection_map[p] /\ at'[p] = NULL /\ fan'[p] = "advance"
    BY <1>5 DEF MakeTagBuffer, TypeOK, SourceInv
  <2>2. ASSUME NEW v \in Viewers PROVE SourceOf(v)'
    <3>1. FromOne(v) => FromOne(v)'
      BY <1>1 DEF FromOne, SameViewer
    <3>2. Unserved(v) => Unserved(v)'
      BY <1>1, <1>2, <1>3, <1>4, <2>1 DEF Unserved, SameViewer
    <3>3. Placed(v) => Placed(v)'
      BY <1>1, <1>2, <1>3, <1>4, <2>1, <3>2 DEF Placed, SameViewer
    <3> QED
      BY <1>1, <3>1, <3>3 DEF SourceInv, SourceOf, SameViewer
  <2>3. fan'[p] \notin {"idle", "tag"}
    BY <2>1
  <2> QED
    BY <1>3, <2>2, <2>3 DEF SourceInv
<1>6. CASE Advance(p)
  <2>1. CASE ahead[p] = {} /\ at' = [at EXCEPT ![p] = NULL] /\ ahead' = ahead
    <3>1. at'[p] = NULL /\ ahead'[p] = {}
      BY <2>1 DEF TypeOK
    <3>2. \A v \in Viewers : Unnoticed(v)
      BY <1>2, <1>3, <1>4, <3>1 DEF Unnoticed
    <3> QED
      BY <1>1, <1>3, <3>1, <3>2, SourceFrame DEF SourceInv
  <2>2. ASSUME NEW w \in ahead[p],
               at' = [at EXCEPT ![p] = w], ahead' = [ahead EXCEPT ![p] = @ \ {w}],
               fan' = [fan EXCEPT ![p] = "send"]
        PROVE  SourceInv'
    <3>1. at'[p] = w /\ ahead'[p] = ahead[p] \ {w} /\ fan'[p] = "send"
      BY <2>2 DEF TypeOK
    <3>2. ASSUME NEW v \in Viewers PROVE SourceOf(v)'
      <4>1. FromOne(v) => FromOne(v)'
        BY <1>1 DEF FromOne, SameViewer
      <4>2. Unserved(v) => Unserved(v)'
        BY <1>1, <1>2, <1>3, <3>1 DEF Unserved, SameViewer
      <4>3. Placed(v) => Placed(v)'
        BY <1>1, <1>2, <1>3, <3>1, <4>2 DEF Placed, SameViewer
      <4> QED
        BY <1>1, <4>1, <4>3 DEF SourceInv, SourceOf, SameViewer
    <3>3. fan'[p] \notin {"idle", "tag"}
      BY <3>1
    <3> QED
      BY <1>3, <3>2, <3>3 DEF SourceInv
  <2> QED
    BY <1>6, <2>1, <2>2 DEF Advance
<1> QED
  BY <1>5, <1>6

LEMMA SourcePublisher ==
  ASSUME TypeOK, ControlInv, SourceInv, NEW p \in Publishers, PublisherStep(p)
  PROVE  SourceInv'
<1>1. CASE ParseHeader(p) \/ NewTag(p) \/ UseStaleIterator(p) \/ \E path \in Paths : Bind(p, path)
  <2>1. UNCHANGED <<client_connection_map, ahead, at, viewer_vars>>
    BY <1>1 DEF ParseHeader, NewTag, UseStaleIterator, Bind, server_vars
  <2>2. \A v \in Viewers : SameViewer(v) /\ Unnoticed(v)
    BY <2>1 DEF SameViewer, Unnoticed, viewer_vars
  <2>3. \A v \in Viewers : SourceOf(v)'
    BY <2>2, SourceFrame DEF SourceInv
  <2>4. \A q \in Publishers : fan'[q] \in {"idle", "tag"} => fan[q] \in {"idle", "tag"}
    BY <1>1 DEF ParseHeader, NewTag, UseStaleIterator, Bind, server_vars, TypeOK
  <2> QED
    BY <2>1, <2>3, <2>4 DEF SourceInv
<1>2. CASE SendTag(p)
  <2>1. UNCHANGED <<client_connection_map, ahead, at, status, join, join_to, close_to, requests, out>>
    BY <1>2 DEF SendTag
  <2>2. \A v \in Viewers : Unnoticed(v)
    BY <2>1 DEF Unnoticed
  <2>3. ASSUME NEW v \in Viewers PROVE SourceOf(v)'
    <3>1. CASE pending'[v] = pending[v]
      BY <2>1, <2>2, <3>1, SourceFrame DEF SourceInv, SameViewer
    <3>2. CASE pending'[v] # pending[v]
      <4> SUFFICES ASSUME requests[v] <= 1 PROVE Placed(v)' /\ FromOne(v)'
        BY <2>1 DEF SourceOf
      <4> DEFINE item == TagItem(p, last_flv_tag[p])
      <4>1. at[p] = v /\ pending'[v] = Append(pending[v], item)
        BY <1>2, <3>2 DEF SendTag, TypeOK
      <4>2. p = join_to[v] /\ ~Unserved(v) /\ Placed(v) /\ FromOne(v)
        BY <4>1 DEF SourceInv, SourceOf, Placed, Unserved
      <4>3. last_flv_tag[p] \in Tags
        BY <1>2, RelayAssumption DEF SendTag, ControlInv, TypeOK, Tags
      <4>4. item \in TagItems /\ item.from = p
        BY <4>3 DEF TagItem, TagItems, TypeOK
      <4> HIDE DEF item
      <4>5. pending[v] \in Seq(TagItems)
        BY DEF TypeOK
      <4>6. ASSUME NEW i \in DOMAIN pending'[v] PROVE pending'[v][i].from = p
        <5>1. /\ pending'[v] \in Seq(TagItems)
              /\ Len(pending'[v]) = Len(pending[v]) + 1
              /\ \A k \in 1 .. Len(pending[v]) : pending'[v][k] = pending[v][k]
              /\ pending'[v][Len(pending[v]) + 1] = item
          BY <4>1, <4>4, <4>5, AppendProperties
        <5>2. Len(pending[v]) \in Nat /\ DOMAIN pending[v] = 1 .. Len(pending[v])
          BY <4>5, LenProperties
        <5>3. i \in 1 .. Len(pending[v]) + 1
          BY <5>1, LenProperties
        <5> QED
          BY <5>1, <5>2, <5>3, <4>2, <4>4 DEF FromOne
      <4>7. FromOne(v)'
        BY <2>1, <4>2, <4>6 DEF FromOne
      <4>8. Placed(v)'
        BY <2>1, <4>2 DEF Placed
      <4> QED
        BY <4>7, <4>8
    <3> QED
      BY <3>1, <3>2
  <2>4. \A q \in Publishers : fan'[q] \in {"idle", "tag"} => fan[q] \in {"idle", "tag"}
    BY <1>2 DEF SendTag, TypeOK
  <2> QED
    BY <2>1, <2>3, <2>4 DEF SourceInv
<1> QED
  BY <1>1, <1>2, SourceIteration DEF PublisherStep, FanOut

(* Send of an item of the publisher the viewer asked for.                  *)
LEMMA SourceDeliver ==
  ASSUME TypeOK, NEW v \in Viewers, NEW item \in Items, Deliver(v, item),
         item.from = join_to[v], join_to' = join_to,
         \A i \in DOMAIN out[v] : out[v][i].from = join_to[v]
  PROVE  /\ \A i \in DOMAIN out'[v] : out'[v][i].from = join_to'[v]
         /\ status[v] = "disconnected" <=> status'[v] = "disconnected"
         /\ \A w \in Viewers \ {v} : out'[w] = out[w] /\ status'[w] = status[w]
<1>1. CASE status[v] = "connected" /\ out' = [out EXCEPT ![v] = Append(@, item)] /\ status' = status
  <2>1. out[v] \in Seq(Items) /\ out'[v] = Append(out[v], item)
    BY <1>1 DEF TypeOK
  <2>2. /\ out'[v] \in Seq(Items)
        /\ Len(out'[v]) = Len(out[v]) + 1
        /\ \A i \in 1 .. Len(out[v]) : out'[v][i] = out[v][i]
        /\ out'[v][Len(out[v]) + 1] = item
    BY <2>1, AppendProperties
  <2>3. Len(out[v]) \in Nat /\ DOMAIN out[v] = 1 .. Len(out[v]) /\ DOMAIN out'[v] = 1 .. Len(out[v]) + 1
    BY <2>1, <2>2, LenProperties
  <2>4. ASSUME NEW i \in DOMAIN out'[v] PROVE out'[v][i].from = join_to'[v]
    BY <2>2, <2>3
  <2>5. \A w \in Viewers \ {v} : out'[w] = out[w] /\ status'[w] = status[w]
    BY <1>1 DEF TypeOK
  <2> QED
    BY <1>1, <2>4, <2>5
<1>2. CASE status' = [status EXCEPT ![v] = "disconnecting"] /\ status[v] = "connected" /\ out' = out
  BY <1>2 DEF TypeOK
<1>3. CASE status[v] # "connected" /\ UNCHANGED <<status, out>>
  BY <1>3
<1> QED
  BY <1>1, <1>2, <1>3 DEF Deliver

(* RequestFound, RequestNotFound and Insert: the viewer makes itself known. *)
LEMMA SourceRequest ==
  ASSUME TypeOK, ControlInv, SourceInv, NEW v \in Viewers,
         Insert(v) \/ \E path \in Paths : RequestFound(v, path) \/ RequestNotFound(v, path)
  PROVE  SourceOf(v)' /\ \A w \in Viewers \ {v} : SourceOf(w)'
<1>1. ASSUME NEW w \in Viewers \ {v} PROVE SourceOf(w)'
  <2>1. SameViewer(w)
    BY DEF SameViewer, Insert, RequestFound, RequestNotFound, TypeOK
  <2>2. Unnoticed(w)
    <3>1. CASE Insert(v)
      BY <3>1 DEF Unnoticed, Insert, TypeOK
    <3>2. CASE \E path \in Paths : RequestFound(v, path) \/ RequestNotFound(v, path)
      BY <3>2 DEF Unnoticed, RequestFound, RequestNotFound, server_vars
    <3> QED
      BY <3>1, <3>2
  <2> QED
    BY <2>1, <2>2, SourceFrame DEF SourceInv
<1>2. ASSUME NEW path \in Paths, RequestFound(v, path) \/ RequestNotFound(v, path)
      PROVE  SourceOf(v)'
  <2> SUFFICES ASSUME requests'[v] <= 1 PROVE Placed(v)' /\ FromOne(v)'
    BY DEF SourceOf
  <2>1. requests[v] = 0 /\ requests'[v] = 1 /\ status[v] # "disconnected"
    BY <1>2 DEF RequestFound, RequestNotFound, TypeOK
  <2>2. UNCHANGED <<client_connection_map, ahead, at, pending, out>>
    BY <1>2 DEF RequestFound, RequestNotFound, server_vars
  <2>3. Unserved(v)
    BY <2>1 DEF SourceInv, SourceOf, Placed
  <2>4. Unserved(v)'
    BY <2>2, <2>3 DEF Unserved
  <2>5. FromOne(v)'
    BY <2>4 DEF FromOne, Unserved
  <2>6. status'[v] # "disconnected"
    BY <1>2, <2>1 DEF RequestFound, RequestNotFound, TypeOK
  <2> QED
    BY <2>1, <2>4, <2>5, <2>6 DEF Placed, Unserved
<1>3. CASE Insert(v)
  <2> SUFFICES ASSUME requests[v] <= 1 PROVE Placed(v)' /\ FromOne(v)'
    BY <1>1, <1>3 DEF SourceOf, Insert
  <2>1. Placed(v) /\ Unserved(v) /\ requests[v] # 0 /\ status[v] # "disconnected"
    BY <1>3 DEF Insert, SourceInv, SourceOf, Placed
  <2>2. UNCHANGED <<at, status, join_to, requests, pending, out>>
    BY <1>3 DEF Insert
  <2>3. close_to'[v] = join_to[v] /\ join'[v] = "check"
    BY <1>3 DEF Insert, TypeOK
  <2>4. \A p \in Publishers : p # join_to[v] =>
            ahead'[p] = ahead[p] /\ client_connection_map'[p] = client_connection_map[p]
    BY <1>3 DEF Insert, TypeOK
  <2>5. FromOne(v)'
    BY <2>1, <2>2 DEF FromOne, Unserved
  <2> QED
    BY <2>1, <2>2, <2>3, <2>4, <2>5 DEF Placed, Unserved
<1> QED
  BY <1>1, <1>2, <1>3

(* The rest of the request handler.                                        *)
LEMMA SourceServe ==
  ASSUME TypeOK, ControlInv, SourceInv, NEW v \in Viewers,
         \/ CheckHeader(v) \/ EncodeHeader(v) \/ AppendHeader(v) \/ SendHeader(v)
         \/ MarkLastTag(v) \/ SendFirstTag(v)
  PROVE  SourceOf(v)' /\ \A w \in Viewers \ {v} : SourceOf(w)'
<1>1. UNCHANGED <<client_connection_map, ahead, at, join_to, close_to, requests, pending>>
  BY DEF CheckHeader, EncodeHeader, AppendHeader, SendHeader, MarkLastTag, SendFirstTag,
         server_vars
<1>2. /\ join[v] \notin {"idle", "insert", "leave", "release"}
      /\ join'[v] \notin {"insert", "leave", "release"}
  BY DEF CheckHeader, EncodeHeader, AppendHeader, SendHeader, MarkLastTag, SendFirstTag, TypeOK
<1>3. \A w \in Viewers \ {v} : join'[w] = join[w]
  BY DEF CheckHeader, EncodeHeader, AppendHeader, SendHeader, MarkLastTag, SendFirstTag, TypeOK
<1>4. ASSUME SourceOf(v), requests[v] <= 1
      PROVE  /\ \A i \in DOMAIN out'[v] : out'[v][i].from = join_to'[v]
             /\ status[v] = "disconnected" <=> status'[v] = "disconnected"
  <2>1. \A i \in DOMAIN out[v] : out[v][i].from = join_to[v]
    BY <1>4 DEF SourceOf, FromOne
  <2>2. CASE CheckHeader(v) \/ EncodeHeader(v) \/ AppendHeader(v) \/ MarkLastTag(v)
    BY <1>1, <2>1, <2>2 DEF CheckHeader, EncodeHeader, AppendHeader, MarkLastTag
  <2>3. CASE SendHeader(v)
    <3> DEFINE item == HeaderItem(join_to[v])
    <3>1. item \in Items /\ item.from = join_to[v]
      BY <2>3 DEF SendHeader, ControlInv, TypeOK, HeaderItem, HeaderItems, Items
    <3>2. Deliver(v, item)
      BY <2>3 DEF SendHeader
    <3> HIDE DEF item
    <3> QED
      BY <1>1, <2>1, <3>1, <3>2, SourceDeliver
  <2>4. CASE SendFirstTag(v)
    <3> DEFINE item == TagItem(join_to[v], last_flv_tag[join_to[v]])
    <3>1. join_to[v] \in Publishers /\ last_flv_tag[join_to[v]] \in Tags
      BY <2>4, LastTagIsTag DEF SendFirstTag, ControlInv, TypeOK
    <3>2. item \in Items /\ item.from = join_to[v]
      BY <3>1 DEF TypeOK, TagItem, TagItems, Items
    <3>3. Deliver(v, item)
      BY <2>4 DEF SendFirstTag
    <3> HIDE DEF item
    <3> QED
      BY <1>1, <2>1, <3>2, <3>3, SourceDeliver
  <2> QED
    BY <2>2, <2>3, <2>4
<1>5. SourceOf(v)'
  <2> SUFFICES ASSUME requests[v] <= 1 PROVE Placed(v)' /\ FromOne(v)'
    BY <1>1 DEF SourceOf
  <2>1. Placed(v) /\ FromOne(v)
    BY DEF SourceInv, SourceOf
  <2>2. requests[v] # 0 /\ status[v] # "disconnected"
    BY <1>2, <2>1 DEF Placed
  <2>3. FromOne(v)'
    BY <1>1, <1>4, <2>1 DEF SourceInv, FromOne
  <2>4. status'[v] # "disconnected"
    BY <1>4, <2>2 DEF SourceInv
  <2> QED
    BY <1>1, <1>2, <2>1, <2>2, <2>3, <2>4 DEF Placed
<1>6. ASSUME NEW w \in Viewers \ {v} PROVE SourceOf(w)'
  <2>1. out'[w] = out[w] /\ status'[w] = status[w]
    BY DEF CheckHeader, EncodeHeader, AppendHeader, SendHeader, MarkLastTag, SendFirstTag,
           Deliver, TypeOK
  <2>2. SameViewer(w) /\ Unnoticed(w)
    BY <1>1, <1>3, <2>1 DEF SameViewer, Unnoticed
  <2> QED
    BY <2>2, SourceFrame DEF SourceInv
<1> QED
  BY <1>5, <1>6

(* The sends waiting in the viewer's loop, and the end of its connection.  *)
LEMMA SourceLoop ==
  ASSUME TypeOK, ControlInv, SourceInv, NEW v \in Viewers,
         \/ RunPending(v) \/ RunPendingOnDestroyed(v)
         \/ Close(v) \/ OnConnectionClose(v) \/ OnCloseConnection(v)
  PROVE  SourceOf(v)' /\ \A w \in Viewers \ {v} : SourceOf(w)'
<1>1. UNCHANGED <<at, join_to, close_to, requests>>
  BY DEF RunPending, RunPendingOnDestroyed, Close, OnConnectionClose, OnCloseConnection,
         server_vars
<1>2. ASSUME NEW w \in Viewers \ {v} PROVE SourceOf(w)'
  <2>1. /\ out'[w] = out[w] /\ status'[w] = status[w] /\ pending'[w] = pending[w]
        /\ join'[w] = join[w]
    BY DEF RunPending, RunPendingOnDestroyed, Close, OnConnectionClose, OnCloseConnection,
           Deliver, TypeOK
  <2>2. Unnoticed(w)
    BY <1>1 DEF Unnoticed, RunPending, RunPendingOnDestroyed, Close, OnConnectionClose,
                OnCloseConnection, server_vars
  <2> QED
    BY <1>1, <2>1, <2>2, SourceFrame DEF SourceInv, SameViewer
<1>3. CASE RunPending(v) \/ RunPendingOnDestroyed(v)
  <2> SUFFICES ASSUME requests[v] <= 1 PROVE Placed(v)' /\ FromOne(v)'
    BY <1>1, <1>2 DEF SourceOf
  <2>1. UNCHANGED <<client_connection_map, ahead, join>>
    BY <1>3 DEF RunPending, RunPendingOnDestroyed, server_vars
  <2>2. Placed(v) /\ FromOne(v) /\ ~Unserved(v) /\ join[v] = "idle"
    BY <1>3 DEF RunPending, RunPendingOnDestroyed, SourceInv, SourceOf, Unserved
  <2>3. pending[v] \in Seq(TagItems) /\ pending[v] # <<>> /\ pending'[v] = Tail(pending[v])
    BY <1>3 DEF RunPending, RunPendingOnDestroyed, TypeOK
  <2>4. /\ Head(pending[v]) \in TagItems /\ Head(pending[v]) = pending[v][1]
        /\ Len(pending[v]) \in Nat \ {0} /\ DOMAIN pending[v] = 1 .. Len(pending[v])
        /\ DOMAIN Tail(pending[v]) = 1 .. Len(pending[v]) - 1
        /\ \A i \in 1 .. Len(pending[v]) - 1 : Tail(pending[v])[i] = pending[v][i + 1]
    BY <2>3, HeadTailProperties, LenProperties, EmptySeq
  <2>5. ASSUME NEW i \in DOMAIN pending'[v]
        PROVE  pending'[v][i].from = join_to[v]
    <3>1. i \in 1 .. Len(pending[v]) - 1
      BY <2>3, <2>4
    <3>2. i + 1 \in DOMAIN pending[v]
      BY <2>4, <3>1
    <3>3. pending[v][i + 1].from = join_to[v]
      BY <2>2, <3>2 DEF FromOne
    <3> QED
      BY <2>3, <2>4, <3>1, <3>3
  <2>6. Head(pending[v]) \in Items /\ Head(pending[v]).from = join_to[v]
    <3>1. 1 \in DOMAIN pending[v]
      BY <2>4
    <3>2. pending[v][1].from = join_to[v]
      BY <2>2, <3>1 DEF FromOne
    <3> QED
      BY <2>4, <3>2 DEF Items
  <2>7. /\ \A i \in DOMAIN out'[v] : out'[v][i].from = join_to'[v]
        /\ status[v] = "disconnected" <=> status'[v] = "disconnected"
    <3>1. CASE RunPending(v)
      <4>1. Deliver(v, Head(pending[v]))
        BY <3>1 DEF RunPending
      <4> QED
        BY <1>1, <2>2, <2>6, <4>1, SourceDeliver DEF FromOne
    <3>2. CASE RunPendingOnDestroyed(v)
      BY <3>2, <1>1, <2>2 DEF RunPendingOnDestroyed, FromOne
    <3> QED
      BY <1>3, <3>1, <3>2
  <2>8. FromOne(v)'
    BY <1>1, <2>5, <2>7 DEF FromOne
  <2>9. Placed(v)'
    BY <1>1, <2>1, <2>2, <2>7 DEF Placed
  <2> QED
    BY <2>8, <2>9
<1>4. CASE Close(v) \/ OnConnectionClose(v) \/ OnCloseConnection(v)
  <2> SUFFICES ASSUME requests[v] <= 1 PROVE Placed(v)' /\ FromOne(v)'
    BY <1>1, <1>2 DEF SourceOf
  <2>1. Placed(v) /\ FromOne(v)
    BY DEF SourceInv, SourceOf
  <2>2. UNCHANGED <<pending, out>>
    BY <1>4 DEF Close, OnConnectionClose, OnCloseConnection
  <2>3. \A p \in Publishers :
           /\ v \in client_connection_map'[p] => v \in client_connection_map[p]
           /\ v \in ahead'[p] => v \in ahead[p]
           /\ at'[p] = at[p]
    BY <1>4 DEF Close, OnConnectionClose, OnCloseConnection, server_vars
  <2>4. /\ join'[v] \in {"idle", "leave", "release"}
        /\ join'[v] # "leave" => \A p \in Publishers : v \notin client_connection_map'[p]
    <3>1. CASE Close(v)
      BY <3>1 DEF Close, TypeOK
    <3>2. CASE OnConnectionClose(v)
      BY <2>1, <3>2 DEF OnConnectionClose, Placed, TypeOK
    <3>3. CASE OnCloseConnection(v)
      <4>1. status[v] = "disconnected" /\ join[v] # "leave"
        BY <3>3 DEF OnCloseConnection, ControlInv
      <4> QED
        BY <2>1, <3>3, <4>1 DEF OnCloseConnection, Placed, TypeOK
    <3> QED
      BY <1>4, <3>1, <3>2, <3>3
  <2>5. FromOne(v)'
    BY <1>1, <2>1, <2>2 DEF FromOne
  <2>6. out'[v] = out[v] /\ pending'[v] = pending[v]
    BY <2>2
  <2>7. Unserved(v) => Unserved(v)'
    BY <2>3, <2>6 DEF Unserved
  <2>8. Placed(v)'
    <3>1. /\ requests'[v] = requests[v] /\ join_to'[v] = join_to[v]
          /\ close_to'[v] = close_to[v]
      BY <1>1
    <3>2. ASSUME NEW p \in Publishers
          PROVE  /\ v \in client_connection_map'[p] => p = join_to'[v] /\ p = close_to'[v]
                 /\ v \in ahead'[p] => p = join_to'[v] /\ at'[p] # v
                 /\ at'[p] = v => p = join_to'[v]
      BY <2>1, <2>3, <3>1 DEF Placed
    <3>3. requests'[v] = 0 => join'[v] \in {"idle", "leave", "release"} /\ Unserved(v)'
      BY <2>1, <2>4, <2>7, <3>1 DEF Placed
    <3> QED
      BY <2>4, <3>2, <3>3 DEF Placed
  <2> QED
    BY <2>5, <2>8
<1> QED
  BY <1>2, <1>3, <1>4

LEMMA SourceViewer ==
  ASSUME TypeOK, ControlInv, SourceInv, NEW v \in Viewers, ViewerStep(v)
  PROVE  SourceInv'
<1>1. SourceOf(v)' /\ \A w \in Viewers \ {v} : SourceOf(w)'
  <2>1. CASE MarkNullTag(v)
    <3>1. \A w \in Viewers : SameViewer(w) /\ Unnoticed(w)
      BY <2>1 DEF MarkNullTag, server_vars, viewer_vars, SameViewer, Unnoticed
    <3> QED
      BY <3>1, SourceFrame DEF SourceInv
  <2> QED
    BY <2>1, SourceRequest, SourceServe, SourceLoop DEF ViewerStep, Join
<1>2. UNCHANGED <<fan, at>>
  BY DEF ViewerStep, Join, Insert, RequestFound, RequestNotFound, CheckHeader, EncodeHeader,
         AppendHeader, SendHeader, MarkLastTag, MarkNullTag, SendFirstTag, RunPending,
         RunPendingOnDestroyed, Close, OnConnectionClose, OnCloseConnection, server_vars
<1>3. ASSUME NEW p \in Publishers, fan[p] \in {"idle", "tag"}, ahead[p] = {} PROVE ahead'[p] = {}
  <2>1. CASE Insert(v)
    BY <1>3, <2>1 DEF Insert, TypeOK
  <2>2. CASE OnConnectionClose(v)
    BY <1>3, <2>2 DEF OnConnectionClose
  <2>3. CASE ahead' = ahead
    BY <1>3, <2>3
  <2> QED
    BY <2>1, <2>2, <2>3 DEF ViewerStep, Join, RequestFound, RequestNotFound, CheckHeader,
       EncodeHeader, AppendHeader, SendHeader, MarkLastTag, MarkNullTag, SendFirstTag,
       RunPending, RunPendingOnDestroyed, Close, OnCloseConnection, server_vars
<1> QED
  BY <1>1, <1>2, <1>3 DEF SourceInv

LEMMA SourceStep == TypeOK /\ ControlInv /\ SourceInv /\ [Next]_vars => SourceInv'
<1>1. ASSUME SourceInv, UNCHANGED vars PROVE SourceInv'
  <2>1. \A v \in Viewers : SameViewer(v) /\ Unnoticed(v)
    BY <1>1 DEF vars, server_vars, viewer_vars, SameViewer, Unnoticed
  <2>2. \A v \in Viewers : SourceOf(v)'
    BY <1>1, <2>1, SourceFrame DEF SourceInv
  <2> QED
    BY <1>1, <2>2 DEF SourceInv, vars, server_vars
<1> QED
  BY <1>1, SourcePublisher, SourceViewer DEF Next

LEMMA SourceInvariant == Spec => []SourceInv
  BY SourceInit, SourceStep, TypeInvariant, PTL DEF Spec

(* main.cpp:78-87: whoever publishes on its path later, a viewer receives  *)
(* items of the publisher its path led to and of no other.                 *)
THEOREM ViewersHaveOneSource == Spec => []OneSource
<1>1. TypeOK /\ SourceInv => OneSource
  <2> SUFFICES ASSUME TypeOK, SourceInv, NEW v \in Viewers, requests[v] = 1,
                      NEW i \in DOMAIN Stream(v)
               PROVE  Stream(v)[i].from = join_to[v]
    BY DEF OneSource
  <2>1. FromOne(v)
    BY DEF SourceInv, SourceOf
  <2>2. out[v] \in Seq(Items) /\ pending[v] \in Seq(Items)
    <3>1. Seq(TagItems) \subseteq Seq(Items)
      BY DEF Items
    <3> QED
      BY <3>1 DEF TypeOK
  <2>3. \/ i \in 1 .. Len(out[v]) /\ Stream(v)[i] = out[v][i]
        \/ /\ i - Len(out[v]) \in 1 .. Len(pending[v])
           /\ Stream(v)[i] = pending[v][i - Len(out[v])]
    BY <2>2, EitherPart DEF Stream
  <2>4. DOMAIN out[v] = 1 .. Len(out[v]) /\ DOMAIN pending[v] = 1 .. Len(pending[v])
    BY <2>2, LenProperties
  <2> QED
    BY <2>1, <2>3, <2>4 DEF FromOne
<1> QED
  BY <1>1, SourceInvariant, TypeInvariant, PTL

(* RtmpClientConnection.cpp:40-50, RtmpServerConnection.cpp:252-257: the   *)
(* connection of a viewer that asked once is out of every publisher's map  *)
(* when it is closed, at whatever moment of a fan-out that is.             *)
THEOREM ClosedViewersForgotten == Spec => []ClosedViewerForgotten
<1>1. SourceInv => ClosedViewerForgotten
  BY DEF SourceInv, SourceOf, Placed, ClosedViewerForgotten, Destroyed
<1> QED
  BY <1>1, SourceInvariant, PTL

-----------------------------------------------------------------------------
(* OrderInv.                                                               *)

OrderOf(v, p) ==
    requests[v] <= 1 /\ v \in client_connection_map[p] /\ status[v] = "connected"
        => InOrder(v, p)

(* A step that changes nothing InOrder reads.                              *)
LEMMA OrderFrame ==
  ASSUME NEW v \in Viewers, NEW p \in Publishers, OrderOf(v, p), SameViewer(v),
         v \in client_connection_map'[p] => v \in client_connection_map[p],
         UpTo(v, p)' = UpTo(v, p), last_flv_tag'[p] = last_flv_tag[p]
  PROVE  OrderOf(v, p)'
  BY DEF OrderOf, InOrder, SameViewer

LEMMA UpToType ==
  ASSUME TypeOK, ControlInv, SourceInv, NEW v \in Viewers, NEW p \in Publishers
  PROVE  /\ UpTo(v, p) \in Nat /\ last_flv_tag[p] \in Int
         /\ UpTo(v, p) <= last_flv_tag[p]
<1>1. last_flv_tag[p] \in Nat
  BY RelayAssumption DEF TypeOK
<1>2. Awaits(v, p) => last_flv_tag[p] # 0
  <2>1. Awaits(v, p) => fan[p] # "idle"
    BY DEF Awaits, SourceInv
  <2> QED
    BY <2>1 DEF ControlInv
<1> QED
  BY <1>1, <1>2 DEF UpTo

(* A step of the publisher that sends nothing.                             *)
LEMMA OrderIteration ==
  ASSUME TypeOK, ControlInv, SourceInv, OrderInv, NEW p \in Publishers,
         MakeTagBuffer(p) \/ Advance(p)
  PROVE  OrderInv'
<1>1. ASSUME NEW v \in Viewers, NEW q \in Publishers PROVE OrderOf(v, q)'
  <2>1. SameViewer(v) /\ client_connection_map' = client_connection_map /\ last_flv_tag' = last_flv_tag
    BY DEF SameViewer, MakeTagBuffer, Advance, viewer_vars
  <2>2. CASE v \notin client_connection_map[q]
    BY <2>1, <2>2 DEF OrderOf
  <2>3. CASE v \in client_connection_map[q]
    <3>1. Awaits(v, q)' <=> Awaits(v, q)
      <4>1. CASE q # p
        <5>1. ahead'[q] = ahead[q] /\ at'[q] = at[q] /\ fan'[q] = fan[q]
          BY <4>1 DEF MakeTagBuffer, Advance, TypeOK
        <5> QED
          BY <5>1 DEF Awaits
      <4>2. CASE q = p /\ MakeTagBuffer(p)
        BY <2>3, <4>2 DEF MakeTagBuffer, TypeOK, Awaits
      <4>3. CASE q = p /\ Advance(p)
        <5>1. Awaits(v, p) <=> v \in ahead[p]
          BY <4>3 DEF Advance, Awaits
        <5>2. CASE ahead[p] = {} /\ fan' = [fan EXCEPT ![p] = "idle"] /\ ahead' = ahead
          BY <4>3, <5>1, <5>2 DEF Awaits, TypeOK
        <5>3. ASSUME NEW w \in ahead[p],
                     at' = [at EXCEPT ![p] = w], ahead' = [ahead EXCEPT ![p] = @ \ {w}],
                     fan' = [fan EXCEPT ![p] = "send"]
              PROVE  Awaits(v, p)' <=> v \in ahead[p]
          <6>1. at'[p] = w /\ ahead'[p] = ahead[p] \ {w} /\ fan'[p] = "send"
            BY <5>3 DEF TypeOK
          <6> QED
            BY <6>1 DEF Awaits
        <5> QED
          BY <4>3, <5>1, <5>2, <5>3 DEF Advance
      <4> QED
        BY <4>1, <4>2, <4>3
    <3>2. UpTo(v, q)' = UpTo(v, q)
      BY <2>1, <3>1 DEF UpTo
    <3> QED
      BY <2>1, <3>2, OrderFrame DEF OrderInv, OrderOf
  <2> QED
    BY <2>2, <2>3
<1> QED
  BY <1>1 DEF OrderInv, OrderOf

LEMMA OrderPublisher ==
  ASSUME TypeOK, ControlInv, SourceInv, OrderInv, NEW p \in Publishers, PublisherStep(p)
  PROVE  OrderInv'
<1>1. CASE ParseHeader(p) \/ UseStaleIterator(p) \/ \E path \in Paths : Bind(p, path)
  <2>1. UNCHANGED <<client_connection_map, fan, ahead, at, last_flv_tag, viewer_vars>>
    BY <1>1 DEF ParseHeader, UseStaleIterator, Bind, server_vars
  <2> QED
    BY <2>1 DEF OrderInv, InOrder, UpTo, Awaits, viewer_vars
<1>2. CASE NewTag(p)
  <2>1. UNCHANGED <<client_connection_map, ahead, at, viewer_vars>>
    BY <1>2 DEF NewTag
  <2>2. ASSUME NEW v \in Viewers, NEW q \in Publishers PROVE OrderOf(v, q)'
    <3>1. SameViewer(v)
      BY <2>1 DEF SameViewer, viewer_vars
    <3>2. CASE q # p
      <4>1. fan'[q] = fan[q] /\ last_flv_tag'[q] = last_flv_tag[q]
        BY <1>2, <3>2 DEF NewTag, TypeOK
      <4>2. UpTo(v, q)' = UpTo(v, q)
        BY <2>1, <4>1 DEF UpTo, Awaits
      <4> QED
        BY <2>1, <3>1, <4>1, <4>2, OrderFrame DEF OrderInv, OrderOf
    <3>3. CASE q = p
      <4>1. /\ fan[p] = "idle" /\ fan'[p] = "tag" /\ last_flv_tag'[p] = last_flv_tag[p] + 1
            /\ last_flv_tag[p] \in Int
        BY <1>2, RelayAssumption DEF NewTag, TypeOK
      <4>2. ~Awaits(v, p) /\ Awaits(v, p)'
        BY <4>1 DEF Awaits, SourceInv
      <4>3. UpTo(v, p)' = UpTo(v, p) /\ UpTo(v, p) \in Int
        BY <4>1, <4>2 DEF UpTo
      <4>4. out[v] \in Seq(Items) /\ pending[v] \in Seq(TagItems)
        BY DEF TypeOK
      <4>5. InOrder(v, p) =>
                Numbered(out[v], pending[v], join[v], UpTo(v, p), last_flv_tag[p] + 1)
        BY <4>1, <4>3, <4>4, NumberedNewTag DEF InOrder
      <4>6. InOrder(v, p) => InOrder(v, p)'
        BY <3>1, <4>1, <4>3, <4>5 DEF InOrder, SameViewer
      <4> QED
        BY <2>1, <3>1, <3>3, <4>6 DEF OrderInv, OrderOf, SameViewer
    <3> QED
      BY <3>2, <3>3
  <2> QED
    BY <2>2 DEF OrderInv, OrderOf
<1>3. CASE SendTag(p)
  <2>1. UNCHANGED <<client_connection_map, ahead, at, last_flv_tag, status, join, join_to,
                    close_to, requests, out>>
    BY <1>3 DEF SendTag
  <2>2. fan[p] = "send" /\ fan'[p] = "advance" /\ \A q \in Publishers \ {p} : fan'[q] = fan[q]
    BY <1>3 DEF SendTag, TypeOK
  <2>3. ASSUME NEW v \in Viewers, NEW q \in Publishers, requests[v] <= 1,
               v \in client_connection_map[q], status[v] = "connected"
        PROVE  InOrder(v, q)'
    <3>1. Placed(v) /\ InOrder(v, q)
      BY <2>3 DEF SourceInv, SourceOf, OrderInv
    <3>2. q = join_to[v]
      BY <2>3, <3>1 DEF Placed
    <3>3. CASE at[p] # v
      <4>1. pending'[v] = pending[v]
        BY <1>3, <3>3 DEF SendTag, TypeOK
      <4>2. Awaits(v, q)' <=> Awaits(v, q)
        BY <2>1, <2>2, <3>3 DEF Awaits
      <4> QED
        BY <2>1, <3>1, <4>1, <4>2 DEF InOrder, UpTo
    <3>4. CASE at[p] = v
      <4> DEFINE item == TagItem(p, last_flv_tag[p])
      <4>1. p = q /\ v \notin ahead[p]
        BY <3>1, <3>2, <3>4 DEF Placed
      <4>2. Awaits(v, p) /\ ~Awaits(v, p)'
        BY <2>1, <2>2, <3>4, <4>1 DEF Awaits
      <4>3. last_flv_tag[p] \in Tags /\ last_flv_tag[p] \in Int
        BY <2>2, RelayAssumption DEF ControlInv, TypeOK, Tags
      <4>4. /\ UpTo(v, p) \in Int /\ last_flv_tag[p] = UpTo(v, p) + 1
            /\ UpTo(v, p)' = UpTo(v, p) + 1
        BY <2>1, <4>2, <4>3 DEF UpTo
      <4>5. item \in TagItems /\ item.no = UpTo(v, p) + 1
        BY <4>3, <4>4 DEF TagItem, TagItems, TypeOK
      <4>6. pending'[v] = Append(pending[v], item)
        BY <1>3, <2>3, <3>4 DEF SendTag, TypeOK
      <4> HIDE DEF item
      <4>7. out[v] \in Seq(Items) /\ pending[v] \in Seq(TagItems)
        BY DEF TypeOK
      <4>8. Numbered(out[v], Append(pending[v], item), join[v], UpTo(v, p) + 1, last_flv_tag[p])
        BY <3>1, <4>1, <4>3, <4>4, <4>5, <4>7, NumberedFanned DEF InOrder
      <4> QED
        BY <2>1, <4>1, <4>4, <4>6, <4>8 DEF InOrder
    <3> QED
      BY <3>3, <3>4
  <2> QED
    BY <2>1, <2>3 DEF OrderInv
<1> QED
  BY <1>1, <1>2, <1>3, OrderIteration DEF PublisherStep, FanOut

(* A viewer's step as the others see it.                                   *)
LEMMA OrderOthers ==
  ASSUME TypeOK, OrderInv, NEW v \in Viewers, ViewerStep(v),
         NEW w \in Viewers \ {v}, NEW p \in Publishers
  PROVE  OrderOf(w, p)'
<1>1. UNCHANGED <<fan, at, last_flv_tag>>
  BY DEF ViewerStep, Join, Insert, RequestFound, RequestNotFound, CheckHeader, EncodeHeader,
         AppendHeader, SendHeader, MarkLastTag, MarkNullTag, SendFirstTag, RunPending,
         RunPendingOnDestroyed, Close, OnConnectionClose, OnCloseConnection, server_vars
<1>2. /\ w \in ahead'[p] <=> w \in ahead[p]
      /\ w \in client_connection_map'[p] <=> w \in client_connection_map[p]
  <2>1. CASE Insert(v)
    BY <2>1 DEF Insert, TypeOK
  <2>2. CASE OnConnectionClose(v)
    BY <2>2 DEF OnConnectionClose
  <2>3. CASE UNCHANGED <<ahead, client_connection_map>>
    BY <2>3
  <2> QED
    BY <2>1, <2>2, <2>3 DEF ViewerStep, Join, RequestFound, RequestNotFound, CheckHeader,
       EncodeHeader, AppendHeader, SendHeader, MarkLastTag, MarkNullTag, SendFirstTag,
       RunPending, RunPendingOnDestroyed, Close, OnCloseConnection, server_vars
<1>3. SameViewer(w)
  <2>1. CASE \E path \in Paths : RequestFound(v, path) \/ RequestNotFound(v, path)
    BY <2>1 DEF RequestFound, RequestNotFound, TypeOK, SameViewer
  <2>2. CASE Insert(v) \/ CheckHeader(v) \/ EncodeHeader(v) \/ AppendHeader(v)
    BY <2>2 DEF Insert, CheckHeader, EncodeHeader, AppendHeader, TypeOK, SameViewer
  <2>3. CASE SendHeader(v) \/ MarkLastTag(v) \/ MarkNullTag(v) \/ SendFirstTag(v)
    BY <2>3 DEF SendHeader, MarkLastTag, MarkNullTag, SendFirstTag, Deliver, viewer_vars,
       TypeOK, SameViewer
  <2>4. CASE \/ RunPending(v) \/ RunPendingOnDestroyed(v)
             \/ Close(v) \/ OnConnectionClose(v) \/ OnCloseConnection(v)
    BY <2>4 DEF RunPending, RunPendingOnDestroyed, Close, OnConnectionClose, OnCloseConnection,
       Deliver, TypeOK, SameViewer
  <2> QED
    BY <2>1, <2>2, <2>3, <2>4 DEF ViewerStep, Join
<1>4. UpTo(w, p)' = UpTo(w, p)
  BY <1>1, <1>2 DEF UpTo, Awaits
<1> QED
  BY <1>1, <1>2, <1>3, <1>4, OrderFrame DEF OrderInv, OrderOf

(* A viewer still connected after a Send was sent the item.                *)
LEMMA DeliverSends ==
  ASSUME TypeOK, NEW v \in Viewers, NEW item, Deliver(v, item), status'[v] = "connected"
  PROVE  status[v] = "connected" /\ out'[v] = Append(out[v], item)
BY DEF Deliver, TypeOK

LEMMA OrderOwn ==
  ASSUME TypeOK, ControlInv, SourceInv, OrderInv, NEW v \in Viewers, ViewerStep(v),
         NEW p \in Publishers
  PROVE  OrderOf(v, p)'
<1> SUFFICES ASSUME requests'[v] <= 1, v \in client_connection_map'[p], status'[v] = "connected"
             PROVE  InOrder(v, p)'
  BY DEF OrderOf
<1>1. /\ UNCHANGED <<fan, at, last_flv_tag>>
      /\ requests[v] <= 1
  BY DEF ViewerStep, Join, Insert, RequestFound, RequestNotFound, CheckHeader, EncodeHeader,
         AppendHeader, SendHeader, MarkLastTag, MarkNullTag, SendFirstTag, RunPending,
         RunPendingOnDestroyed, Close, OnConnectionClose, OnCloseConnection, server_vars, viewer_vars, TypeOK
<1>2. Placed(v)
  BY <1>1 DEF SourceInv, SourceOf
<1>3. out[v] \in Seq(Items) /\ pending[v] \in Seq(TagItems)
  BY DEF TypeOK
<1>4. /\ UpTo(v, p) \in Nat /\ last_flv_tag[p] \in Int
      /\ UpTo(v, p) <= last_flv_tag[p]
  BY UpToType
<1>5. CASE \E path \in Paths : RequestFound(v, path) \/ RequestNotFound(v, path)
  <2>1. requests[v] = 0 /\ client_connection_map' = client_connection_map
    BY <1>5 DEF RequestFound, RequestNotFound, TypeOK
  <2> QED
    BY <1>2, <2>1 DEF Placed, Unserved
<1>6. CASE \/ RunPendingOnDestroyed(v)
           \/ Close(v) \/ OnConnectionClose(v) \/ OnCloseConnection(v)
  BY <1>6 DEF RunPendingOnDestroyed, Destroyed, Close, OnConnectionClose, OnCloseConnection,
     ControlInv, TypeOK
<1>7. CASE Insert(v)
  <2>1. Unserved(v) /\ UNCHANGED <<pending, out>>
    BY <1>2, <1>7 DEF Insert, Placed
  <2>2. join'[v] = "check"
    BY <1>7 DEF Insert, TypeOK
  <2>3. v \in ahead'[p] => fan[p] \in {"advance", "send"}
    BY <1>7, <2>1 DEF Insert, Unserved, TypeOK
  <2>4. last_flv_tag[p] \in Nat /\ (fan[p] # "idle" => last_flv_tag[p] # 0)
    BY RelayAssumption DEF TypeOK, ControlInv
  <2>5. UpTo(v, p)' \in Nat
    <3>1. Awaits(v, p)' => fan[p] # "idle"
      BY <1>1, <2>1, <2>3 DEF Awaits, Unserved
    <3> QED
      BY <1>1, <2>4, <3>1 DEF UpTo
  <2>6. out'[v] = <<>> /\ pending'[v] = <<>>
    BY <2>1 DEF Unserved
  <2>7. Len(out'[v]) = 0 /\ Len(pending'[v]) = 0 /\ DOMAIN out'[v] = {} /\ DOMAIN pending'[v] = {}
    BY <2>6
  <2> QED
    BY <2>2, <2>5, <2>7 DEF InOrder, Numbered
<1>8. CASE \/ CheckHeader(v) \/ EncodeHeader(v) \/ AppendHeader(v) \/ SendHeader(v)
           \/ MarkLastTag(v) \/ MarkNullTag(v) \/ SendFirstTag(v) \/ RunPending(v)
  <2>1. UNCHANGED <<client_connection_map, ahead>>
    BY <1>8 DEF CheckHeader, EncodeHeader, AppendHeader, SendHeader, MarkLastTag, MarkNullTag,
       SendFirstTag, RunPending, server_vars
  <2>2. status[v] = "connected"
    BY <1>8, DeliverSends DEF CheckHeader, EncodeHeader, AppendHeader, SendHeader, MarkLastTag,
       MarkNullTag, SendFirstTag, RunPending, viewer_vars
  <2>3. InOrder(v, p) /\ p = join_to[v]
    BY <1>1, <1>2, <2>1, <2>2 DEF OrderInv, Placed
  <2>4. UpTo(v, p)' = UpTo(v, p)
    BY <1>1, <2>1 DEF UpTo, Awaits
  <2>5. CASE CheckHeader(v) \/ EncodeHeader(v) \/ AppendHeader(v)
    <3>1. /\ join[v] \notin {"idle", "mark", "first"}
          /\ join'[v] \notin {"idle", "mark", "first"}
          /\ UNCHANGED <<out, pending>>
      BY <2>5 DEF CheckHeader, EncodeHeader, AppendHeader, TypeOK
    <3> QED
      BY <1>1, <2>3, <2>4, <3>1 DEF InOrder, Numbered
  <2>6. CASE MarkLastTag(v) \/ MarkNullTag(v)
    <3>1. /\ join[v] \in {"mark", "first"}
          /\ join'[v] \in {"mark", "first"}
          /\ UNCHANGED <<out, pending>>
      BY <2>6 DEF MarkLastTag, MarkNullTag, viewer_vars, TypeOK
    <3> QED
      BY <1>1, <2>3, <2>4, <3>1 DEF InOrder, Numbered
  <2>7. CASE SendHeader(v)
    <3> DEFINE item == HeaderItem(join_to[v])
    <3>1. item \in Items
      BY <2>7 DEF SendHeader, ControlInv, TypeOK, HeaderItem, HeaderItems, Items
    <3>2. Deliver(v, item) /\ join[v] = "header" /\ join'[v] = "mark" /\ pending' = pending
      BY <2>7 DEF SendHeader, TypeOK
    <3> HIDE DEF item
    <3>3. out'[v] = Append(out[v], item)
      BY <3>2, DeliverSends
    <3>4. Numbered(Append(out[v], item), pending[v], "mark", UpTo(v, p), last_flv_tag[p])
      BY <1>3, <1>4, <2>3, <3>1, <3>2, NumberedHeader DEF InOrder
    <3> QED
      BY <1>1, <2>4, <3>2, <3>3, <3>4 DEF InOrder
  <2>8. CASE SendFirstTag(v)
    <3> DEFINE item == TagItem(p, last_flv_tag[p])
    <3>1. last_flv_tag[p] \in Tags
      BY <2>3, <2>8, RelayAssumption DEF SendFirstTag, ControlInv, TypeOK, Tags
    <3>2. item \in TagItems /\ item.no = last_flv_tag[p]
      BY <3>1 DEF TypeOK, TagItem, TagItems
    <3>3. Deliver(v, item) /\ join[v] = "first" /\ join'[v] = "idle" /\ pending' = pending
      BY <2>3, <2>8 DEF SendFirstTag, TypeOK
    <3> HIDE DEF item
    <3>4. out'[v] = Append(out[v], item)
      BY <3>3, DeliverSends
    <3>5. Numbered(Append(out[v], item), pending[v], "idle", UpTo(v, p), last_flv_tag[p])
      BY <1>3, <1>4, <2>3, <3>1, <3>2, <3>3, NumberedFirst DEF InOrder
    <3> QED
      BY <1>1, <2>4, <3>3, <3>4, <3>5 DEF InOrder
  <2>9. CASE RunPending(v)
    <3>1. /\ Deliver(v, Head(pending[v])) /\ pending[v] # <<>>
          /\ join[v] = "idle" /\ join'[v] = "idle" /\ pending'[v] = Tail(pending[v])
      BY <2>9 DEF RunPending, TypeOK
    <3>2. out'[v] = Append(out[v], Head(pending[v]))
      BY <3>1, DeliverSends
    <3>3. Numbered(Append(out[v], Head(pending[v])), Tail(pending[v]), "idle", UpTo(v, p),
                   last_flv_tag[p])
      BY <1>3, <1>4, <2>3, <3>1, NumberedServed DEF InOrder
    <3> QED
      BY <1>1, <2>4, <3>1, <3>2, <3>3 DEF InOrder
  <2> QED
    BY <1>8, <2>5, <2>6, <2>7, <2>8, <2>9
<1> QED
  BY <1>5, <1>6, <1>7, <1>8 DEF ViewerStep, Join

LEMMA OrderStep == TypeOK /\ ControlInv /\ SourceInv /\ OrderInv /\ [Next]_vars => OrderInv'
<1>1. ASSUME OrderInv, UNCHANGED vars PROVE OrderInv'
  BY <1>1 DEF OrderInv, InOrder, UpTo, Awaits, vars, server_vars, viewer_vars
<1>2. ASSUME TypeOK, ControlInv, SourceInv, OrderInv, NEW v \in Viewers, ViewerStep(v)
      PROVE  OrderInv'
  <2>1. \A w \in Viewers, p \in Publishers : OrderOf(w, p)'
    BY <1>2, OrderOthers, OrderOwn
  <2> QED
    BY <2>1 DEF OrderInv, OrderOf
<1> QED
  BY <1>1, <1>2, OrderPublisher DEF Next

LEMMA OrderInvariant == Spec => []OrderInv
<1>1. Init => OrderInv
  BY DEF Init, OrderInv
<1> QED
  BY <1>1, OrderStep, SourceInvariant, TypeInvariant, PTL DEF Spec

-----------------------------------------------------------------------------
(* What a viewer that is served has of the stream.                         *)

(* Item 2 is the tag sent on joining, then the tags are consecutive.       *)
LEMMA NumberedStream ==
  ASSUME NEW o \in Seq(Items), NEW q \in Seq(TagItems), NEW u \in Int, NEW l \in Int,
         Numbered(o, q, "idle", u, l)
  PROVE  \E base \in Int :
            /\ DOMAIN (o \o q) = 1 .. u - base /\ Len(o \o q) = u - base
            /\ base + 2 >= 0 /\ u >= base + 2
            /\ (o \o q)[1] = o[1] /\ (o \o q)[2] = o[2]
            /\ o[2].kind = "tag" /\ o[2].no >= base + 2 /\ o[2].no \in 1 .. l
            /\ \A i \in 3 .. u - base :
                  (o \o q)[i].kind = "tag" /\ (o \o q)[i].no = base + i
<1> DEFINE base == u - Len(o) - Len(q)
<1>1. /\ Len(o) \in Nat /\ Len(q) \in Nat /\ Len(o) >= 2
      /\ DOMAIN o = 1 .. Len(o) /\ DOMAIN q = 1 .. Len(q)
  BY LenProperties DEF Numbered
<1>2. o \in Seq(Items) /\ q \in Seq(Items)
  <2>1. \A i \in 1 .. Len(q) : q[i] \in Items
    BY ElementOfSeq DEF Items
  <2> QED
    BY <1>1, <2>1, IsASeq, SeqDef
<1>3. /\ o \o q \in Seq(Items) /\ Len(o \o q) = Len(o) + Len(q)
      /\ \A i \in 1 .. Len(o) + Len(q) : (o \o q)[i] = IF i <= Len(o) THEN o[i] ELSE q[i - Len(o)]
  BY <1>2, ConcatProperties
<1>4. /\ base \in Int /\ u - base = Len(o) + Len(q) /\ u >= base + 2
  BY <1>1
<1>5. DOMAIN (o \o q) = 1 .. u - base
  BY <1>3, <1>4, LenProperties
<1>6. (o \o q)[1] = o[1] /\ (o \o q)[2] = o[2]
  BY <1>1, <1>3
<1>7. /\ base + 2 >= 0
      /\ o[2].kind = "tag" /\ o[2].no >= base + 2 /\ o[2].no \in 1 .. l
  BY DEF Numbered
<1>8. ASSUME NEW i \in 3 .. u - base
      PROVE  (o \o q)[i].kind = "tag" /\ (o \o q)[i].no = base + i
  <2>1. i \in DOMAIN (o \o q) /\ i > 2
    BY <1>5
  <2>2. CASE i \in 1 .. Len(o) /\ (o \o q)[i] = o[i]
    BY <1>1, <2>1, <2>2 DEF Numbered
  <2>3. CASE i - Len(o) \in 1 .. Len(q) /\ (o \o q)[i] = q[i - Len(o)]
    <3>1. q[i - Len(o)].no = base + Len(o) + (i - Len(o))
      BY <1>1, <2>3 DEF Numbered
    <3>2. base + Len(o) + (i - Len(o)) = base + i
      BY <1>1, <1>4
    <3>3. q[i - Len(o)] \in TagItems
      BY <2>3, ElementOfSeq
    <3> QED
      BY <2>3, <3>1, <3>2, <3>3 DEF TagItems
  <2> QED
    BY <1>2, <2>1, <2>2, <2>3, EitherPart
<1> HIDE DEF base
<1> QED
  BY <1>3, <1>4, <1>5, <1>6, <1>7, <1>8

(* A viewer being watched and between two fan-outs is up to date.          *)
LEMMA WatchingInOrder ==
  ASSUME TypeOK, SourceInv, OrderInv, NEW v \in Viewers, NEW p \in Publishers, Watching(v, p)
  PROVE  /\ out[v] \in Seq(Items) /\ pending[v] \in Seq(TagItems)
         /\ UpTo(v, p) \in Int /\ last_flv_tag[p] \in 0 .. MaxTag
         /\ Numbered(out[v], pending[v], "idle", UpTo(v, p), last_flv_tag[p])
         /\ fan[p] = "idle" => UpTo(v, p) = last_flv_tag[p]
<1>1. last_flv_tag[p] \in 0 .. MaxTag /\ last_flv_tag[p] \in Int
  BY RelayAssumption DEF TypeOK
<1>2. fan[p] = "idle" => ~Awaits(v, p)
  BY DEF SourceInv, Awaits
<1>3. UpTo(v, p) \in Int /\ (fan[p] = "idle" => UpTo(v, p) = last_flv_tag[p])
  BY <1>1, <1>2 DEF UpTo
<1> QED
  BY <1>1, <1>3 DEF TypeOK, OrderInv, InOrder, Watching

LEMMA WatchedStream ==
  ASSUME TypeOK, SourceInv, OrderInv, NEW v \in Viewers, NEW p \in Publishers, Watching(v, p)
  PROVE  \E base \in Int :
            /\ DOMAIN Stream(v) = 1 .. UpTo(v, p) - base /\ Len(Stream(v)) = UpTo(v, p) - base
            /\ base + 2 >= 0 /\ UpTo(v, p) >= base + 2
            /\ Stream(v)[1] = out[v][1] /\ Stream(v)[2] = out[v][2]
            /\ out[v][2].kind = "tag" /\ out[v][2].no >= base + 2
            /\ out[v][2].no \in 1 .. last_flv_tag[p]
            /\ \A i \in 3 .. UpTo(v, p) - base :
                  Stream(v)[i].kind = "tag" /\ Stream(v)[i].no = base + i
<1>1. /\ out[v] \in Seq(Items) /\ pending[v] \in Seq(TagItems)
      /\ UpTo(v, p) \in Int /\ last_flv_tag[p] \in Int
      /\ Numbered(out[v], pending[v], "idle", UpTo(v, p), last_flv_tag[p])
  BY WatchingInOrder
<1> QED
  BY <1>1, NumberedStream DEF Stream

(* RtmpServerConnection.cpp:236-245: however joining and fanning out       *)
(* interleave, the tags after the one sent on joining reach the viewer in  *)
(* the order of the stream, each once.                                     *)
THEOREM FanOutStaysInOrder == Spec => []FanOutInOrder
<1>1. TypeOK /\ SourceInv /\ OrderInv => FanOutInOrder
  <2> SUFFICES ASSUME TypeOK, SourceInv, OrderInv, NEW v \in Viewers, NEW p \in Publishers,
                      Watching(v, p), NEW i \in 3 .. Len(Stream(v)) - 1
               PROVE  Stream(v)[i + 1].no = Stream(v)[i].no + 1
    BY DEF FanOutInOrder
  <2>1. PICK base \in Int :
           /\ Len(Stream(v)) = UpTo(v, p) - base
           /\ \A k \in 3 .. UpTo(v, p) - base : Stream(v)[k].no = base + k
    BY WatchedStream
  <2>2. i \in 3 .. UpTo(v, p) - base /\ i + 1 \in 3 .. UpTo(v, p) - base
    BY <2>1, WatchingInOrder
  <2> QED
    BY <2>1, <2>2
<1> QED
  BY <1>1, OrderInvariant, SourceInvariant, TypeInvariant, PTL

(* RtmpServerConnection.cpp:222-245: between the tag sent on joining and   *)
(* the latest one a viewer misses none, whichever of the steps of joining  *)
(* the fan-outs of those tags overlapped.                                  *)
THEOREM NoTagIsLost == Spec => []NoTagLost
<1>1. TypeOK /\ HeaderFirst /\ SourceInv /\ OrderInv => NoTagLost
  <2> SUFFICES ASSUME TypeOK, HeaderFirst, SourceInv, OrderInv,
                      NEW v \in Viewers, NEW p \in Publishers, Watching(v, p), fan[p] = "idle"
               PROVE  \E first \in Tags :
                         {Stream(v)[i].no : i \in {j \in DOMAIN Stream(v) : Stream(v)[j].kind = "tag"}}
                            = first .. last_flv_tag[p]
    BY DEF NoTagLost
  <2> DEFINE s == Stream(v)
             last == last_flv_tag[p]
  <2>1. /\ out[v] \in Seq(Items) /\ last \in 0 .. MaxTag /\ last \in Int
        /\ UpTo(v, p) = last
    BY WatchingInOrder
  <2>2. PICK base \in Int :
           /\ DOMAIN s = 1 .. last - base
           /\ base + 2 >= 0 /\ last >= base + 2
           /\ s[1] = out[v][1] /\ s[2] = out[v][2]
           /\ out[v][2].kind = "tag" /\ out[v][2].no >= base + 2 /\ out[v][2].no \in 1 .. last
           /\ \A i \in 3 .. last - base : s[i].kind = "tag" /\ s[i].no = base + i
    BY <2>1, WatchedStream
  <2>3. s[1].kind # "tag"
    <3>1. out[v] # <<>>
      <4>1. Len(out[v]) >= 2
        BY WatchingInOrder DEF Numbered
      <4> QED
        BY <4>1
    <3>2. Head(out[v]) = out[v][1]
      BY <2>1, <3>1, HeadTailProperties
    <3> QED
      BY <2>2, <3>1, <3>2 DEF HeaderFirst
  <2> HIDE DEF s, last
  <2>4. {j \in DOMAIN s : s[j].kind = "tag"} = 2 .. last - base
    <3>1. ASSUME NEW j \in DOMAIN s PROVE s[j].kind = "tag" <=> j \in 2 .. last - base
      <4>1. j = 1 \/ j = 2 \/ j \in 3 .. last - base
        BY <2>1, <2>2
      <4> QED
        BY <2>1, <2>2, <2>3, <4>1
    <3>2. 2 .. last - base \subseteq DOMAIN s
      BY <2>1, <2>2
    <3> QED
      BY <3>1, <3>2
  <2>5. PICK joined \in 1 .. last : joined = s[2].no /\ joined >= base + 2
    BY <2>2
  <2> DEFINE first == IF joined = base + 2 THEN joined ELSE base + 3
             numbers == {s[i].no : i \in 2 .. last - base}
  <2>6. first \in Tags /\ first \in Int /\ first <= joined /\ first >= base + 2
    BY <2>1, <2>2, <2>5, RelayAssumption DEF Tags
  <2>7. ASSUME NEW n \in numbers PROVE n \in first .. last
    <3>1. PICK i \in 2 .. last - base : n = s[i].no
      OBVIOUS
    <3>2. CASE i = 2
      BY <2>1, <2>5, <2>6, <3>1, <3>2
    <3>3. CASE i # 2
      <4>1. i \in 3 .. last - base
        BY <2>1, <3>3
      <4>2. n = base + i
        BY <2>2, <3>1, <4>1
      <4> QED
        BY <2>1, <2>5, <4>1, <4>2
    <3> QED
      BY <3>2, <3>3
  <2>8. ASSUME NEW n \in first .. last PROVE n \in numbers
    <3>1. CASE n = base + 2
      <4>1. n = s[2].no /\ 2 \in 2 .. last - base
        BY <2>1, <2>2, <2>5, <2>6, <3>1
      <4> QED
        BY <4>1
    <3>2. CASE n # base + 2
      <4>1. n - base \in 3 .. last - base /\ base + (n - base) = n
        BY <2>1, <2>6, <3>2
      <4>2. s[n - base].no = n /\ n - base \in 2 .. last - base
        BY <2>2, <4>1
      <4> QED
        BY <4>2
    <3> QED
      BY <3>1, <3>2
  <2> HIDE DEF first
  <2>9. numbers = first .. last
    BY <2>7, <2>8
  <2> QED
    BY <2>4, <2>6, <2>9 DEF s, last
<1> QED
  BY <1>1, HeaderComesFirst, OrderInvariant, SourceInvariant, TypeInvariant, PTL
=============================================================================
