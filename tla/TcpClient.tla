----------------------------- MODULE TcpClient -----------------------------
(***************************************************************************)
(* A client of the network library (network/TcpClient.cpp) with its        *)
(* Connector (network/Connector.cpp).  Connect() hands Connector::Connect  *)
(* to the loop; connect() blocks and is done, interrupted or refused; a    *)
(* channel of the Connector then waits for the socket to become writable,  *)
(* hands the descriptor over to a TcpConnection and is destroyed.  When    *)
(* the connection ends the client may connect again from within the close  *)
(* callback.                                                               *)
(*                                                                         *)
(* Handlers run one after the other on the loop's thread; the application's*)
(* calls come from any thread.  What goes over an established connection   *)
(* is the subject of TcpConnection.                                        *)
(***************************************************************************)
EXTENDS Naturals

CONSTANTS Fds,          (* the descriptors socket() gives out               *)
          None,
          Patient,      (* TRUE: the application calls Connect() only when  *)
                        (* no attempt and no connection is under way        *)
          MaxConnects   (* bound: calls of Connect()                        *)

ASSUME TcpClientAssumption ==
    None \notin Fds /\ Patient \in BOOLEAN /\ MaxConnects \in Nat

VARIABLES
    retry_, connect_,   (* members of TcpClient                             *)
    connection_ptr_,    (* its connection, named by its descriptor          *)
    status_,            (* of the Connector                                 *)
    channel_ptr_,       (* the Connector's channel, by its descriptor       *)
    connection,         (* status of the TcpConnection on a descriptor      *)
    sock,               (* the kernel's side of a descriptor; its handshake *)
                        (* failed, or an error ended what it carried        *)
    epoll,              (* whose channel is registered for a descriptor     *)
    active_channels_,   (* channels of this round not handled yet           *)
    pc,                 (* where the loop's thread is                       *)
    pending_func_,      (* queued calls of Connector::Connect               *)
    batch,              (* those swapped out and not run yet                *)
    calls,              (* calls of Connect() so far                        *)
    told,               (* the connection the application was told is up    *)
    crashed             (* a null pointer has been dereferenced             *)

client == <<retry_, connect_, connection_ptr_, connection, told>>
connector == <<status_, channel_ptr_>>
kernel == <<sock, epoll>>
loop == <<active_channels_, pc, pending_func_, batch>>
vars == <<client, connector, kernel, loop, calls, crashed>>

(* A channel is known by its owner and its descriptor.                     *)
Channels == {"connector", "connection"} \X Fds

SockStates == {"free", "progress", "open", "failed", "error", "ended"}

TypeOK ==
    /\ {retry_, connect_, crashed} \subseteq BOOLEAN
    /\ {connection_ptr_, channel_ptr_, told} \subseteq Fds \cup {None}
    /\ status_ \in {"DISCONNECTED", "CONNECTING", "CONNECTED"}
    /\ connection \in [Fds -> {"none", "CONNECTED"}]
    /\ sock \in [Fds -> SockStates]
    /\ epoll \in [Fds -> {"none", "connector", "connection"}]
    /\ active_channels_ \subseteq Channels
    /\ pc \in {"poll", "active", "pending"}
    /\ {pending_func_, batch, calls} \subseteq 0 .. MaxConnects
    /\ pending_func_ + batch <= calls

Init ==
    /\ retry_ = FALSE /\ connect_ = FALSE /\ crashed = FALSE
    /\ connection_ptr_ = None /\ channel_ptr_ = None /\ told = None
    /\ status_ = "DISCONNECTED"
    /\ connection = [f \in Fds |-> "none"]
    /\ sock = [f \in Fds |-> "free"] /\ epoll = [f \in Fds |-> "none"]
    /\ active_channels_ = {} /\ pc = "poll"
    /\ pending_func_ = 0 /\ batch = 0 /\ calls = 0

-----------------------------------------------------------------------------
(* Calls of the application.                                               *)

Idle == /\ pending_func_ = 0 /\ batch = 0
        /\ channel_ptr_ = None /\ connection_ptr_ = None

Connect ==
    /\ calls < MaxConnects /\ calls' = calls + 1
    /\ Patient => Idle
    /\ connect_' = TRUE
    /\ pending_func_' = pending_func_ + 1
    /\ UNCHANGED <<retry_, connection_ptr_, connection, told, connector, kernel,
                   active_channels_, pc, batch, crashed>>

(* The argument is not looked at.                                          *)
SetReConnect ==
    /\ retry_' = TRUE
    /\ UNCHANGED <<connect_, connection_ptr_, connection, told, connector, kernel,
                   loop, calls, crashed>>

(* RemoveConnection gets a reference to connection_ptr_, resets it and     *)
(* calls ConnectDestroyed through it: a null pointer in every case.        *)
DisConnect ==
    /\ crashed' = TRUE
    /\ UNCHANGED <<client, connector, kernel, loop, calls>>

-----------------------------------------------------------------------------
(* Connector::Connect, in a handler that ends by closing the descriptors   *)
(* in closing.  While it runs they are still open.                         *)

After(s, closing) == [f \in Fds |-> IF f \in closing THEN "free" ELSE s[f]]
Forget(e, closing) == [f \in Fds |-> IF f \in closing THEN "none" ELSE e[f]]

(* Mutant: a refused socket is left open.                                  *)
RefusedNotClosed(st, closing) ==
    /\ status_' \in {st, "DISCONNECTED"}
    /\ \E f \in Fds :
          /\ sock[f] = "free"
          /\ sock' = After([sock EXCEPT ![f] = "failed"], closing)
    /\ epoll' = Forget(epoll, closing)
    /\ UNCHANGED channel_ptr_

(* The socket is closed again.  A status other than EAGAIN and ECONNREFUSED*)
(* leaves the Connector's as it was.                                       *)
Refused(st, closing) ==
    /\ status_' \in {st, "DISCONNECTED"}
    /\ sock' = After(sock, closing) /\ epoll' = Forget(epoll, closing)
    /\ UNCHANGED channel_ptr_

(* Mutant: EnableWritable() is not called.                                 *)
ConnectingUnwatched(closing) ==
    \E f \in Fds, s \in {"open", "progress"} :
        /\ sock[f] = "free"
        /\ status_' = "CONNECTING" /\ channel_ptr_' = f
        /\ sock' = After([sock EXCEPT ![f] = s], closing)
        /\ epoll' = Forget(epoll, closing)

(* Connected, or interrupted by a signal with the handshake under way.     *)
Connecting(closing) ==
    \E f \in Fds, s \in {"open", "progress"} :
        /\ sock[f] = "free"
        /\ status_' = "CONNECTING" /\ channel_ptr_' = f
        /\ sock' = After([sock EXCEPT ![f] = s], closing)
        /\ epoll' = Forget([epoll EXCEPT ![f] = "connector"], closing)

ConnectorConnect(st, closing) == Connecting(closing) \/ Refused(st, closing)

-----------------------------------------------------------------------------
(* The loop's thread.                                                      *)

Ready(f) == \/ epoll[f] = "connector" /\ sock[f] # "progress"
            \/ epoll[f] = "connection" /\ sock[f] \in {"failed", "error", "ended"}

Poll ==
    /\ pc = "poll" /\ pc' = "active"
    /\ active_channels_' = {<<epoll[f], f>> : f \in {g \in Fds : Ready(g)}}
    /\ UNCHANGED <<client, connector, kernel, pending_func_, batch, calls, crashed>>

Handle(owner, f) ==
    /\ pc = "active" /\ <<owner, f>> \in active_channels_
    /\ active_channels_' = active_channels_ \ {<<owner, f>>}
    /\ UNCHANGED <<pc, pending_func_, batch, calls, crashed>>

(* Mutant: the channel is destroyed without leaving epoll, which refuses   *)
(* the connection's channel for the same descriptor.                       *)
RegisterWithoutRemoval(f, replaced) ==
    epoll' = Forget(epoll, replaced)

(* RemoveAndResetChannel, then Established() of the new connection.        *)
Register(f, replaced) ==
    epoll' = Forget([epoll EXCEPT ![f] = "connection"], replaced)

(* HandleWrite and OnNewConnection.  connection_ptr_ is overwritten: what  *)
(* it held is destroyed, and its descriptor closed.                        *)
HandleWrite(f) ==
    /\ Handle("connector", f)
    /\ IF status_ = "CONNECTING"
       THEN LET fd == channel_ptr_
                replaced == {connection_ptr_} \cap Fds IN
            /\ channel_ptr_' = None /\ status_' = "CONNECTED"
            /\ connection_ptr_' = fd
            /\ connection' = [g \in Fds |-> CASE g = fd -> "CONNECTED"
                                              [] g \in replaced -> "none"
                                              [] OTHER -> connection[g]]
            /\ sock' = After(sock, replaced)
            /\ Register(fd, replaced)
            /\ told' = fd
            /\ UNCHANGED <<retry_, connect_>>
       ELSE UNCHANGED <<client, connector, kernel>>

(* OnReadable: read() reports the error, once.                             *)
ReadError(f) ==
    /\ Handle("connection", f) /\ sock[f] \in {"failed", "error"}
    /\ sock' = [sock EXCEPT ![f] = "ended"]
    /\ UNCHANGED <<client, connector, epoll>>

(* Mutant: the connection callback is not called when a connection ends.   *)
NotTold(f) == UNCHANGED told

TellClosed(f) == told' = IF told = f THEN None ELSE told

(* Reconnects if wanted; otherwise the descriptors are only closed.        *)
ReConnect(closing) ==
    IF retry_ /\ connect_
    THEN ConnectorConnect("DISCONNECTED", closing)
    ELSE /\ sock' = After(sock, closing) /\ epoll' = Forget(epoll, closing)
         /\ UNCHANGED connector

(* OnReadable at the end of the stream: OnClose, RemoveConnection, where   *)
(* ConnectDestroyed finds the connection DISCONNECTED.  The guard of the   *)
(* handler is the last reference, so its end closes the descriptor.        *)
OnClose(f) ==
    /\ Handle("connection", f) /\ sock[f] = "ended"
    /\ TellClosed(f)
    /\ connection' = [connection EXCEPT ![f] = "none"]
    /\ IF connection_ptr_ = f
       THEN connection_ptr_' = None /\ ReConnect({f})
       ELSE /\ sock' = After(sock, {f}) /\ epoll' = Forget(epoll, {f})
            /\ UNCHANGED <<connection_ptr_, connector>>
    /\ UNCHANGED <<retry_, connect_>>

SwapPending ==
    /\ pc = "active" /\ active_channels_ = {}
    /\ pc' = "pending" /\ batch' = pending_func_ /\ pending_func_' = 0
    /\ UNCHANGED <<client, connector, kernel, active_channels_, calls, crashed>>

RunConnect ==
    /\ pc = "pending" /\ batch > 0
    /\ batch' = batch - 1
    /\ ConnectorConnect(status_, {})
    /\ UNCHANGED <<client, active_channels_, pc, pending_func_, calls, crashed>>

BatchDone ==
    /\ pc = "pending" /\ batch = 0 /\ pc' = "poll"
    /\ UNCHANGED <<client, connector, kernel, active_channels_, pending_func_,
                   batch, calls, crashed>>

LoopThread ==
    \/ Poll \/ SwapPending \/ RunConnect \/ BatchDone
    \/ \E f \in Fds : HandleWrite(f) \/ ReadError(f) \/ OnClose(f)

-----------------------------------------------------------------------------
(* The network: a handshake a signal has interrupted comes to its end; the *)
(* peer closes or resets.                                                  *)
Settles(f) ==
    /\ sock[f] = "progress"
    /\ \E s \in {"open", "failed"} : sock' = [sock EXCEPT ![f] = s]
    /\ UNCHANGED <<client, connector, epoll, loop, calls, crashed>>

PeerLeaves(f) ==
    /\ sock[f] = "open"
    /\ \E s \in {"ended", "error"} : sock' = [sock EXCEPT ![f] = s]
    /\ UNCHANGED <<client, connector, epoll, loop, calls, crashed>>

Runs(A) == ~crashed /\ A

Next == Runs(\/ Connect \/ SetReConnect \/ DisConnect \/ LoopThread
             \/ \E f \in Fds : Settles(f) \/ PeerLeaves(f))

Spec == Init /\ [][Next]_vars

(* The loop's thread is scheduled and the network gives up in the end.     *)
FairSpec == /\ Spec
            /\ WF_vars(Runs(LoopThread))
            /\ \A f \in Fds : WF_vars(Runs(Settles(f)))

-----------------------------------------------------------------------------
Live == {c \in Channels : \/ c[1] = "connector" /\ c[2] = channel_ptr_
                          \/ c[1] = "connection" /\ connection[c[2]] # "none"}

(* Connector.cpp:57-65, 93-132, Channel.h: epoll and the active channels   *)
(* hold plain pointers, and HandleWrite dereferences channel_ptr_ when the *)
(* status says CONNECTING; though handlers destroy the channel they were   *)
(* called by and make others, each of them designates one that exists.     *)
ChannelsLive ==
    /\ active_channels_ \subseteq Live
    /\ \A f \in Fds : epoll[f] # "none" => <<epoll[f], f>> \in Live
    /\ status_ = "CONNECTING" <=> channel_ptr_ # None

(* Connector.cpp:79-113, TcpClient.cpp:65-107: whichever way an attempt or *)
(* a connection ends, its descriptor is not left open: each open one is    *)
(* that of the attempt or that of the connection.                          *)
SocketsOwned ==
    \A f \in Fds : sock[f] # "free" => f \in {channel_ptr_, connection_ptr_}

(* TcpConnection.cpp:29-32, 116-127: of two connections one after the other*)
(* the application hears that the first is gone before the second is up.   *)
ToldOfBothEnds ==
    [][told' # told => told = None \/ told' = None]_told

(* Connector.cpp:26-132, TcpClient.cpp:65-107: an attempt does not stay    *)
(* under way: it becomes the connection or its descriptor is closed.  And  *)
(* one whose handshake failed after a signal had interrupted connect(), or *)
(* that has ended, does not keep its descriptor.                           *)
AttemptSettles ==
    \A f \in Fds :
        /\ channel_ptr_ = f ~> connection_ptr_ = f \/ sock[f] = "free" \/ crashed
        /\ sock[f] \in {"failed", "error", "ended"} ~> sock[f] = "free" \/ crashed

-----------------------------------------------------------------------------
(* What the comments say and the code does not do.                         *)

(* Connector.h:28-31 and Connector.cpp:97-99: the writable event verifies  *)
(* that the connection is established before it is handed over.            *)
HandedOverEstablished ==
    [][\A f \in Fds : told' = f /\ told # f => sock[f] # "failed"]_told
=============================================================================
