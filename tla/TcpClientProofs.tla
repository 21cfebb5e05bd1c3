-------------------------- MODULE TcpClientProofs --------------------------
(***************************************************************************)
(* Proofs about TcpClient, for every set of descriptors and every number   *)
(* of calls.                                                               *)
(***************************************************************************)
EXTENDS TcpClient, TLAPS

(* Closing descriptors at the end of a handler frees and forgets them.     *)
LEMMA ClosingTyped ==
  ASSUME TypeOK, NEW closing \in SUBSET Fds
  PROVE  /\ After(sock, closing) \in [Fds -> SockStates]
         /\ Forget(epoll, closing) \in [Fds -> {"none", "connector", "connection"}]
  BY DEF TypeOK, SockStates, After, Forget

(* What an attempt leaves behind, connected or refused.                    *)
LEMMA AttemptTyped ==
  ASSUME TypeOK, NEW closing \in SUBSET Fds, NEW st,
         st \in {"DISCONNECTED", "CONNECTING", "CONNECTED"},
         ConnectorConnect(st, closing)
  PROVE  /\ status_' \in {"DISCONNECTED", "CONNECTING", "CONNECTED"}
         /\ channel_ptr_' \in Fds \cup {None}
         /\ sock' \in [Fds -> SockStates]
         /\ epoll' \in [Fds -> {"none", "connector", "connection"}]
<1>1. CASE Connecting(closing)
  BY <1>1 DEF Connecting, TypeOK, SockStates, After, Forget
<1>2. CASE Refused(st, closing)
  BY <1>2, ClosingTyped DEF Refused, TypeOK
<1> QED
  BY <1>1, <1>2 DEF ConnectorConnect

(* One case for each handler; the application's calls, the network and the *)
(* rounds of the loop are direct.                                          *)
LEMMA TypeStep == TypeOK /\ [Next]_vars => TypeOK'
<1> SUFFICES ASSUME TypeOK, [Next]_vars PROVE TypeOK'
  OBVIOUS
<1> USE TcpClientAssumption DEF TypeOK
<1>1. CASE Connect \/ SetReConnect \/ DisConnect
  <2>1. CASE Connect
    <3>1. {retry_, TRUE, crashed} \subseteq BOOLEAN
      OBVIOUS
    <3>2. connect_' = TRUE /\ UNCHANGED <<retry_, crashed>>
      BY <2>1 DEF Connect
    <3>3. {retry_, connect_, crashed}' \subseteq BOOLEAN
      BY <3>1, <3>2
    <3>4. /\ calls < MaxConnects /\ calls' = calls + 1
          /\ pending_func_' = pending_func_ + 1 /\ batch' = batch
      BY <2>1 DEF Connect
    <3>5. /\ {pending_func_, batch, calls}' \subseteq 0 .. MaxConnects
          /\ pending_func_' + batch' <= calls'
      BY <3>4
    <3> QED
      BY <2>1, <3>3, <3>5 DEF Connect, connector, kernel
  <2>2. CASE SetReConnect \/ DisConnect
    <3>1. {retry_, connect_, crashed}' \subseteq BOOLEAN
      BY <2>2, Zenon DEF SetReConnect, DisConnect, client
    <3> QED
      BY <2>2, <3>1 DEF SetReConnect, DisConnect, client, connector, kernel, loop
  <2> QED
    BY <1>1, <2>1, <2>2
<1>2. CASE Poll
  <2>1. active_channels_' \subseteq Channels
    BY <1>2 DEF Poll, Ready, Channels
  <2> QED
    BY <1>2, <2>1 DEF Poll, client, connector, kernel
<1>3. CASE SwapPending \/ BatchDone
  BY <1>3 DEF SwapPending, BatchDone, client, connector, kernel
<1>4. CASE RunConnect
  <2>1. /\ status_' \in {"DISCONNECTED", "CONNECTING", "CONNECTED"}
        /\ channel_ptr_' \in Fds \cup {None}
        /\ sock' \in [Fds -> SockStates]
        /\ epoll' \in [Fds -> {"none", "connector", "connection"}]
    BY <1>4, AttemptTyped DEF RunConnect
  <2>2. /\ batch > 0 /\ batch' = batch - 1
        /\ UNCHANGED <<client, active_channels_, pc, pending_func_, calls, crashed>>
    BY <1>4 DEF RunConnect
  <2> QED
    BY <2>1, <2>2 DEF client
<1>5. CASE \E f \in Fds : HandleWrite(f)
  <2>1. PICK f \in Fds : HandleWrite(f)
    BY <1>5
  <2>2. CASE status_ = "CONNECTING"
    <3> DEFINE replaced == {connection_ptr_} \cap Fds
    <3>1. /\ channel_ptr_' = None /\ status_' = "CONNECTED"
          /\ connection_ptr_' = channel_ptr_ /\ told' = channel_ptr_
          /\ connection' = [g \in Fds |-> CASE g = channel_ptr_ -> "CONNECTED"
                                            [] g \in replaced -> "none"
                                            [] OTHER -> connection[g]]
          /\ sock' = After(sock, replaced)
          /\ epoll' = Forget([epoll EXCEPT ![channel_ptr_] = "connection"], replaced)
          /\ UNCHANGED <<retry_, connect_>>
      BY <2>1, <2>2 DEF HandleWrite, Register
    <3>2. /\ active_channels_' \subseteq active_channels_
          /\ UNCHANGED <<pc, pending_func_, batch, calls, crashed>>
      BY <2>1 DEF HandleWrite, Handle
    <3>3. connection' \in [Fds -> {"none", "CONNECTED"}]
      BY <3>1
    <3>4. sock' \in [Fds -> SockStates]
      BY <3>1 DEF After, SockStates
    <3>5. epoll' \in [Fds -> {"none", "connector", "connection"}]
      BY <3>1 DEF Forget
    <3> QED
      BY <3>1, <3>2, <3>3, <3>4, <3>5
  <2>3. CASE status_ # "CONNECTING"
    BY <2>1, <2>3 DEF HandleWrite, Handle, client, connector, kernel
  <2> QED
    BY <2>2, <2>3
<1>6. CASE \E f \in Fds : ReadError(f)
  BY <1>6 DEF ReadError, SockStates, Handle, client, connector
<1>7. CASE \E f \in Fds : OnClose(f)
  <2>1. PICK f \in Fds : OnClose(f)
    BY <1>7
  <2>2. /\ told' \in Fds \cup {None} /\ connection' \in [Fds -> {"none", "CONNECTED"}]
        /\ active_channels_' \subseteq active_channels_
        /\ UNCHANGED <<retry_, connect_, pc, pending_func_, batch, calls, crashed>>
    BY <2>1 DEF OnClose, Handle, TellClosed
  <2>3. /\ status_' \in {"DISCONNECTED", "CONNECTING", "CONNECTED"}
        /\ channel_ptr_' \in Fds \cup {None} /\ connection_ptr_' \in Fds \cup {None}
        /\ sock' \in [Fds -> SockStates]
        /\ epoll' \in [Fds -> {"none", "connector", "connection"}]
    <3>1. {f} \in SUBSET Fds
      OBVIOUS
    <3>2. CASE ConnectorConnect("DISCONNECTED", {f}) /\ connection_ptr_' = None
      <4>1. "DISCONNECTED" \in {"DISCONNECTED", "CONNECTING", "CONNECTED"}
        OBVIOUS
      <4> QED
        BY <3>1, <3>2, <4>1, AttemptTyped
    <3>3. CASE /\ sock' = After(sock, {f}) /\ epoll' = Forget(epoll, {f})
               /\ UNCHANGED connector
               /\ connection_ptr_' \in {connection_ptr_, None}
      BY <3>1, <3>3, ClosingTyped DEF connector
    <3> QED
      BY <2>1, <3>2, <3>3 DEF OnClose, ReConnect
  <2> QED
    BY <2>2, <2>3
<1>8. CASE \E f \in Fds : Settles(f) \/ PeerLeaves(f)
  BY <1>8 DEF Settles, SockStates, PeerLeaves, client, connector, loop
<1>9. CASE UNCHANGED vars
  BY <1>9 DEF vars, client, connector, kernel, loop
<1> QED
  BY <1>1, <1>2, <1>3, <1>4, <1>5, <1>6, <1>7, <1>8, <1>9 DEF Next, Runs, LoopThread

LEMMA ClientInitType == Init => TypeOK
<1> SUFFICES ASSUME Init PROVE TypeOK
  OBVIOUS
<1>1. {retry_, connect_, crashed} \subseteq BOOLEAN
  BY Zenon DEF Init
<1>2. /\ {pending_func_, batch, calls} \subseteq 0 .. MaxConnects
      /\ pending_func_ + batch <= calls
  BY TcpClientAssumption DEF Init
<1> QED
  BY <1>1, <1>2 DEF Init, TypeOK, SockStates

(* The types of the client's, the Connector's and the kernel's variables,  *)
(* even for an application that does not wait for its attempts.            *)
THEOREM ClientTypeCorrect == Spec => []TypeOK
  BY ClientInitType, TypeStep, PTL DEF Spec

-----------------------------------------------------------------------------
(* An application that waits.                                              *)

(* Queued calls, attempt and connection: there is at most one of them.     *)
OneAtATime ==
    /\ channel_ptr_ # None => pending_func_ + batch = 0 /\ connection_ptr_ = None
    /\ connection_ptr_ # None => pending_func_ + batch = 0
    /\ pending_func_ + batch <= 1

(* What epoll, the kernel and the application know of each descriptor.     *)
Matched ==
    /\ told = connection_ptr_
    /\ \A f \in Fds :
          /\ connection[f] # "none" <=> f = connection_ptr_
          /\ epoll[f] = "connector" => f = channel_ptr_
          /\ epoll[f] = "connection" => f = connection_ptr_
          /\ f \in {channel_ptr_, connection_ptr_} => sock[f] # "free"

(* ChannelsLive and SocketsOwned are not inductive without these.          *)
ClientInv ==
    /\ TypeOK /\ OneAtATime /\ Matched
    /\ ChannelsLive /\ SocketsOwned

(* An attempt begins in a handler with neither an attempt nor another      *)
(* connection left; closing is what the handler closes at its end.         *)
LEMMA AttemptKeeps ==
  ASSUME TypeOK, NEW closing \in SUBSET Fds, NEW st \in {"DISCONNECTED", "CONNECTED"},
         ConnectorConnect(st, closing),
         channel_ptr_ = None, connection_ptr_' = None,
         active_channels_' = {},
         \A f \in closing : sock[f] # "free",
         \A f \in Fds \ closing : sock[f] = "free" /\ epoll[f] = "none",
         \A f \in Fds : connection'[f] = "none"
  PROVE  /\ ChannelsLive' /\ SocketsOwned'
         /\ \A f \in Fds :
               /\ epoll'[f] = "connector" => f = channel_ptr_'
               /\ epoll'[f] # "connection"
               /\ f = channel_ptr_' => sock'[f] # "free"
<1> USE TcpClientAssumption
<1>1. CASE Connecting(closing)
  <2>1. PICK g \in Fds, s \in {"open", "progress"} :
           /\ sock[g] = "free" /\ status_' = "CONNECTING" /\ channel_ptr_' = g
           /\ sock' = After([sock EXCEPT ![g] = s], closing)
           /\ epoll' = Forget([epoll EXCEPT ![g] = "connector"], closing)
    BY <1>1 DEF Connecting
  <2>2. g \notin closing /\ g # None
    BY <2>1
  <2>3. \A f \in Fds : /\ sock'[f] = IF f = g THEN s ELSE "free"
                       /\ epoll'[f] = IF f = g THEN "connector" ELSE "none"
    BY <2>1, <2>2 DEF After, Forget, TypeOK
  <2>4. <<"connector", g>> \in Live'
    BY <2>1 DEF Live, Channels
  <2> QED
    BY <2>1, <2>2, <2>3, <2>4 DEF ChannelsLive, SocketsOwned
<1>2. CASE Refused(st, closing)
  <2>1. /\ status_' # "CONNECTING" /\ channel_ptr_' = None
        /\ \A f \in Fds : sock'[f] = "free" /\ epoll'[f] = "none"
    BY <1>2 DEF Refused, After, Forget
  <2> QED
    BY <2>1 DEF ChannelsLive, SocketsOwned
<1> QED
  BY <1>1, <1>2 DEF ConnectorConnect

(* Which channels exist.                                                   *)
LEMMA LiveOnes ==
  ASSUME ClientInv
  PROVE  /\ \A f \in Fds : <<"connector", f>> \in Live <=> f = channel_ptr_
         /\ \A f \in Fds : <<"connection", f>> \in Live <=> f = connection_ptr_
         /\ \A c \in Live : \E f \in Fds : c \in {<<"connector", f>>, <<"connection", f>>}
  BY DEF ClientInv, Matched, Live, Channels

LEMMA ClientStep == Patient /\ ClientInv /\ [Next]_vars => ClientInv'
<1> SUFFICES ASSUME Patient, ClientInv, [Next]_vars PROVE ClientInv'
  OBVIOUS
<1> USE TcpClientAssumption
<1>1. TypeOK'
  BY TypeStep DEF ClientInv
<1>2. TypeOK /\ OneAtATime /\ Matched /\ ChannelsLive /\ SocketsOwned
  BY DEF ClientInv
<1>3. pending_func_ \in Nat /\ batch \in Nat /\ None \notin Fds
  BY <1>2 DEF TypeOK
(* The application, the swap and the network leave all that is matched.    *)
<1>4. ASSUME UNCHANGED <<connection_ptr_, connection, told, status_, channel_ptr_, epoll>>,
             active_channels_' \subseteq Live,
             \A f \in Fds : sock'[f] = "free" <=> sock[f] = "free",
             OneAtATime'
      PROVE  ClientInv'
  <2>1. Live' = Live
    BY <1>4 DEF Live, Channels
  <2>2. ChannelsLive' /\ SocketsOwned' /\ Matched'
    BY <1>2, <1>4, <2>1 DEF ChannelsLive, SocketsOwned, Matched
  <2> QED
    BY <1>1, <1>4, <2>2 DEF ClientInv
<1>5. active_channels_ \subseteq Live
  BY <1>2 DEF ChannelsLive
<1>6. CASE Connect
  <2>1. Idle /\ pending_func_' = pending_func_ + 1 /\ UNCHANGED batch
    BY <1>6 DEF Connect
  <2>2. OneAtATime'
    BY <1>3, <1>6, <2>1 DEF Connect, Idle, OneAtATime, connector
  <2> QED
    BY <1>4, <1>5, <1>6, <2>2 DEF Connect, connector, kernel
<1>7. CASE SetReConnect \/ DisConnect \/ UNCHANGED vars
  BY <1>2, <1>4, <1>5, <1>7
  DEF SetReConnect, DisConnect, vars, client, connector, kernel, loop, OneAtATime
<1>8. CASE Poll
  <2>1. active_channels_' \subseteq Live
    BY <1>2, <1>8 DEF Poll, Ready, ChannelsLive
  <2> QED
    BY <1>2, <1>4, <1>8, <2>1 DEF Poll, client, connector, kernel, OneAtATime
<1>9. CASE SwapPending \/ BatchDone
  <2>1. OneAtATime'
    BY <1>2, <1>3, <1>9 DEF SwapPending, BatchDone, client, connector, OneAtATime
  <2> QED
    BY <1>4, <1>5, <1>9, <2>1 DEF SwapPending, BatchDone, client, connector, kernel
<1>10. CASE \E f \in Fds : Settles(f) \/ PeerLeaves(f) \/ ReadError(f)
  <2>1. PICK f \in Fds, s \in {"open", "failed", "error", "ended"} :
           sock[f] # "free" /\ sock' = [sock EXCEPT ![f] = s]
    BY <1>10 DEF Settles, PeerLeaves, ReadError
  <2>2. \A g \in Fds : sock'[g] = "free" <=> sock[g] = "free"
    BY <1>2, <2>1 DEF TypeOK
  <2> QED
    BY <1>2, <1>4, <1>5, <1>10, <2>2
    DEF Settles, PeerLeaves, ReadError, Handle, client, connector, loop, OneAtATime
<1>11. CASE RunConnect
  <2>1. /\ batch > 0 /\ batch' = batch - 1 /\ ConnectorConnect(status_, {})
        /\ UNCHANGED <<connection_ptr_, connection, told, active_channels_, pending_func_>>
    BY <1>11 DEF RunConnect, client
  <2>2. /\ channel_ptr_ = None /\ connection_ptr_ = None /\ pending_func_ = 0 /\ batch' = 0
        /\ status_ \in {"DISCONNECTED", "CONNECTED"}
    BY <1>2, <1>3, <2>1 DEF OneAtATime, ChannelsLive, TypeOK
  <2>3. Live = {}
    BY <1>2, <2>2 DEF Live, Channels, Matched
  <2>4. \A f \in Fds : sock[f] = "free" /\ epoll[f] = "none" /\ connection'[f] = "none"
    BY <1>2, <2>1, <2>2, <2>3 DEF SocketsOwned, Matched, ChannelsLive
  <2>5. /\ ChannelsLive' /\ SocketsOwned'
        /\ \A f \in Fds :
              /\ epoll'[f] = "connector" => f = channel_ptr_'
              /\ epoll'[f] # "connection"
              /\ f = channel_ptr_' => sock'[f] # "free"
    BY <1>2, <1>5, <2>1, <2>2, <2>3, <2>4, AttemptKeeps
  <2>6. Matched'
    BY <1>2, <2>1, <2>2, <2>4, <2>5 DEF Matched
  <2>7. OneAtATime'
    BY <2>1, <2>2 DEF OneAtATime
  <2> QED
    BY <1>1, <2>5, <2>6, <2>7 DEF ClientInv
<1>12. CASE \E f \in Fds : HandleWrite(f)
  <2>1. PICK f \in Fds : HandleWrite(f)
    BY <1>12
  <2>2. /\ <<"connector", f>> \in active_channels_
        /\ active_channels_' = active_channels_ \ {<<"connector", f>>}
        /\ UNCHANGED <<pending_func_, batch>>
    BY <2>1 DEF HandleWrite, Handle
  <2>3. f = channel_ptr_ /\ status_ = "CONNECTING" /\ connection_ptr_ = None
    BY <1>2, <1>3, <1>5, <2>2, LiveOnes DEF OneAtATime, ChannelsLive
  <2>4. active_channels_' = {}
    <3>1. \A c \in Live : c = <<"connector", f>>
      BY <1>3, <2>3, LiveOnes
    <3> QED
      BY <1>5, <2>2, <3>1
  <2>5. /\ channel_ptr_' = None /\ status_' = "CONNECTED" /\ connection_ptr_' = f /\ told' = f
        /\ \A g \in Fds : /\ connection'[g] = IF g = f THEN "CONNECTED" ELSE connection[g]
                          /\ sock'[g] = sock[g]
                          /\ epoll'[g] = IF g = f THEN "connection" ELSE epoll[g]
    BY <1>2, <1>3, <2>1, <2>3 DEF HandleWrite, Register, After, Forget, TypeOK
  <2>6. \A g \in Fds : g # f => epoll[g] = "none" /\ connection[g] = "none" /\ sock[g] = "free"
    BY <1>2, <1>3, <2>3 DEF Matched, SocketsOwned, TypeOK
  <2>7. OneAtATime'
    BY <1>2, <1>3, <2>2, <2>3, <2>5 DEF OneAtATime
  <2>8. Matched' /\ SocketsOwned'
    BY <1>2, <1>3, <2>3, <2>5, <2>6 DEF Matched, SocketsOwned
  <2>9. <<"connection", f>> \in Live'
    BY <2>5 DEF Live, Channels
  <2>10. ChannelsLive'
    BY <1>3, <2>4, <2>5, <2>6, <2>9 DEF ChannelsLive
  <2> QED
    BY <1>1, <2>7, <2>8, <2>10 DEF ClientInv
<1>13. CASE \E f \in Fds : OnClose(f)
  <2>1. PICK f \in Fds : OnClose(f)
    BY <1>13
  <2>2. /\ <<"connection", f>> \in active_channels_ /\ sock[f] = "ended"
        /\ active_channels_' = active_channels_ \ {<<"connection", f>>}
        /\ UNCHANGED <<pending_func_, batch>>
        /\ told' = IF told = f THEN None ELSE told
        /\ connection' = [connection EXCEPT ![f] = "none"]
    BY <2>1 DEF OnClose, Handle, TellClosed
  <2>3. f = connection_ptr_ /\ channel_ptr_ = None /\ pending_func_ + batch = 0
    BY <1>2, <1>3, <1>5, <2>2, LiveOnes DEF OneAtATime
  <2>4. active_channels_' = {}
    <3>1. \A c \in Live : c = <<"connection", f>>
      BY <1>3, <2>3, LiveOnes
    <3> QED
      BY <1>5, <2>2, <3>1
  <2>5. /\ \A g \in Fds \ {f} : sock[g] = "free" /\ epoll[g] = "none"
        /\ \A g \in Fds : connection'[g] = "none"
    BY <1>2, <1>3, <2>2, <2>3 DEF Matched, SocketsOwned, TypeOK
  <2>6. /\ connection_ptr_' = None /\ told' = None /\ ReConnect({f})
    BY <1>2, <2>1, <2>2, <2>3 DEF OnClose, Matched
  <2>7. /\ ChannelsLive' /\ SocketsOwned'
        /\ \A g \in Fds :
              /\ epoll'[g] = "connector" => g = channel_ptr_'
              /\ epoll'[g] # "connection"
              /\ g = channel_ptr_' => sock'[g] # "free"
    <3>1. CASE ConnectorConnect("DISCONNECTED", {f})
      BY <1>2, <2>2, <2>3, <2>4, <2>5, <2>6, <3>1, AttemptKeeps
    <3>2. CASE /\ sock' = After(sock, {f}) /\ epoll' = Forget(epoll, {f})
               /\ UNCHANGED connector
      <4>1. \A g \in Fds : sock'[g] = "free" /\ epoll'[g] = "none"
        BY <2>5, <3>2 DEF After, Forget
      <4>2. channel_ptr_' = None /\ status_' # "CONNECTING"
        BY <1>2, <2>3, <3>2 DEF connector, ChannelsLive
      <4> QED
        BY <1>3, <2>4, <4>1, <4>2 DEF ChannelsLive, SocketsOwned
    <3> QED
      BY <2>6, <3>1, <3>2 DEF ReConnect
  <2>8. Matched'
    BY <1>3, <2>5, <2>6, <2>7 DEF Matched
  <2>9. OneAtATime'
    BY <1>3, <2>2, <2>3, <2>6 DEF OneAtATime
  <2> QED
    BY <1>1, <2>7, <2>8, <2>9 DEF ClientInv
<1> QED
  BY <1>6, <1>7, <1>8, <1>9, <1>10, <1>11, <1>12, <1>13 DEF Next, Runs, LoopThread

LEMMA ClientInvHolds == Patient /\ Spec => []ClientInv
<1>1. Init => ClientInv
  <2> SUFFICES ASSUME Init PROVE ClientInv
    OBVIOUS
  <2>1. TypeOK
    BY ClientInitType
  <2>2. Live = {}
    BY TcpClientAssumption DEF Init, Live, Channels
  <2>3. OneAtATime /\ Matched /\ ChannelsLive /\ SocketsOwned
    BY <2>2, TcpClientAssumption DEF Init, OneAtATime, Matched, ChannelsLive, SocketsOwned
  <2> QED
    BY <2>1, <2>3 DEF ClientInv
<1>2. SUFFICES ASSUME Patient PROVE Spec => []ClientInv
  OBVIOUS
<1>3. ClientInv /\ [Next]_vars => ClientInv'
  BY <1>2, ClientStep
<1> QED
  BY <1>1, <1>3, PTL DEF Spec

(* Connector.cpp:57-65, 93-132: no handler uses, and epoll does not hold,  *)
(* a channel that is gone, and the status says CONNECTING just while there *)
(* is one of an attempt.                                                   *)
THEOREM ClientChannelsLive == Patient /\ Spec => []ChannelsLive
<1>1. ClientInv => ChannelsLive
  BY DEF ClientInv
<1> QED
  BY <1>1, ClientInvHolds, PTL

(* Connector.cpp:79-113, TcpClient.cpp:65-107: no descriptor is left open  *)
(* by an attempt that is refused or a connection that ends.                *)
THEOREM ClientSocketsOwned == Patient /\ Spec => []SocketsOwned
<1>1. ClientInv => SocketsOwned
  BY DEF ClientInv
<1> QED
  BY <1>1, ClientInvHolds, PTL

(* TcpConnection.cpp:29-32, 116-127: the end of a connection is told       *)
(* before the beginning of the next.                                       *)
THEOREM ClientTellsBothEnds == Patient /\ Spec => ToldOfBothEnds
<1>1. ASSUME ClientInv, [Next]_vars, told' # told PROVE told = None \/ told' = None
  <2>1. PICK f \in Fds : HandleWrite(f) \/ OnClose(f)
    BY <1>1
    DEF Next, Runs, LoopThread, Connect, SetReConnect, DisConnect, Poll, SwapPending, RunConnect,
        BatchDone, ReadError, Settles, PeerLeaves, vars, client
  <2>2. CASE HandleWrite(f)
    <3>1. channel_ptr_ # None
      BY <1>1, <2>2, LiveOnes, TcpClientAssumption
      DEF HandleWrite, Handle, ClientInv, ChannelsLive, client
    <3> QED
      BY <1>1, <3>1 DEF ClientInv, OneAtATime, Matched
  <2>3. CASE OnClose(f)
    <3>1. f = connection_ptr_
      BY <1>1, <2>3, LiveOnes DEF OnClose, Handle, ClientInv, ChannelsLive
    <3> QED
      BY <1>1, <2>3, <3>1 DEF OnClose, TellClosed, ClientInv, Matched
  <2> QED
    BY <2>1, <2>2, <2>3
<1>2. ClientInv /\ [Next]_vars => [told' # told => told = None \/ told' = None]_told
  BY <1>1
<1> QED
  BY <1>2, ClientInvHolds, PTL DEF Spec, ToldOfBothEnds
=============================================================================
