--------------------------- MODULE TcpConnection ---------------------------
(***************************************************************************)
(* One TcpConnection with its Channel (network/TcpConnection.cpp,          *)
(* network/Channel.cpp, network/multiplexing/Epoll.cpp), the io thread it  *)
(* lives on, the threads that Send through that thread's queue, and the    *)
(* kernel's socket and the peer as their environment.                      *)
(*                                                                         *)
(* Output is counted in units numbered in the order in which SendInLoop    *)
(* takes them, so that a unit lost, repeated or overtaken shows.           *)
(*                                                                         *)
(* The connection is kept alive here; what happens when the last shared    *)
(* pointer goes while a Send is queued is a matter of LiveRelay.           *)
(***************************************************************************)
EXTENDS Integers, Sequences, FiniteSetsExt

CONSTANTS Modes,        (* modes of the descriptor: TRUE non-blocking.     *)
                        (* The sockets Acceptor and Connector make are     *)
                        (* blocking, the handlers are written for both.    *)
          Room,         (* units the socket's send buffer can hold         *)
          Lengths,      (* lengths a caller passes to Send                 *)
          MaxSends,     (* bound: Sends taken by SendInLoop                *)
          MaxInputs     (* bound: messages the peer sends                  *)

ASSUME TcpAssumption ==
    /\ Modes \subseteq BOOLEAN
    /\ Room \in Nat \ {0}
    /\ Lengths \subseteq 1 .. Room
    /\ MaxSends \in Nat /\ MaxInputs \in Nat

VARIABLES
    non_blocking,     (* the mode of the descriptor                        *)
    connection_status_,
    event_,           (* Channel: what the last LoopOnce reported          *)
    ep_event_,        (* Channel: what it is registered for                *)
    registered,       (* the descriptor is in the epoll set                *)
    send_buffer_,
    wire,             (* history: units the kernel has taken               *)
    taken,            (* units SendInLoop has taken so far                 *)
    failed,           (* SendInLoop met EPIPE or ECONNRESET                *)
    write_closed,     (* shutdown(SHUT_WR) was called                      *)
    room,             (* units the kernel still has room for               *)
    peer,             (* open; closed (FIN); reset; the reset was read     *)
    fault,            (* what befalls the next send(): "none", "memory"    *)
                      (* (the kernel is short of it) or "reset" (the peer  *)
                      (* resets while the send waits)                      *)
    full,             (* the new-message callback left recv_buffer_ full   *)
    input,            (* messages of the peer not read yet                 *)
    inputs,           (* messages the peer has sent                        *)
    pending,          (* this connection's part of the loop's pending_func_ *)
    batch,            (* of it, what the current round has swapped out     *)
    sends,            (* Sends taken or queued so far                      *)
    pc,               (* where the loop's thread is                        *)
    closes            (* calls of connection_close_callback_               *)

out_vars == <<send_buffer_, wire, taken, failed, room, fault>>
in_vars == <<full, input, inputs>>
queue_vars == <<pending, batch, sends>>
channel_vars == <<ep_event_, registered>>
vars == <<non_blocking, connection_status_, event_, channel_vars, out_vars, write_closed, peer,
          in_vars, queue_vars, pc, closes>>

Events == {"in", "out"}
Established == 0        (* the task TcpServer::OnNewConnection queues      *)

TypeOK ==
    /\ non_blocking \in Modes
    /\ connection_status_ \in {"connecting", "connected", "disconnecting", "disconnected"}
    /\ event_ \subseteq Events /\ ep_event_ \subseteq Events
    /\ registered \in BOOLEAN /\ failed \in BOOLEAN /\ write_closed \in BOOLEAN
    /\ send_buffer_ \in Seq(Nat) /\ wire \in Seq(Nat)
    /\ taken \in Nat /\ room \in 0 .. Room
    /\ peer \in {"open", "closed", "reset", "gone"}
    /\ fault \in {"none", "memory", "reset"} /\ full \in BOOLEAN
    /\ input \in 0 .. MaxInputs /\ inputs \in 0 .. MaxInputs
    /\ pending \in Seq(Lengths \cup {Established})
    /\ batch \in Seq(Lengths \cup {Established})
    /\ sends \in 0 .. MaxSends
    /\ pc \in {"poll", "readable", "writable", "swap", "tasks", "callback"}
    /\ closes \in Nat

Init ==
    /\ non_blocking \in Modes
    /\ connection_status_ = "connecting"
    /\ event_ = {} /\ ep_event_ = {} /\ registered = FALSE
    /\ send_buffer_ = <<>> /\ wire = <<>> /\ taken = 0 /\ failed = FALSE
    /\ write_closed = FALSE /\ room = Room
    /\ peer = "open" /\ fault = "none" /\ full = FALSE /\ input = 0 /\ inputs = 0
    /\ pending = <<Established>> /\ batch = <<>> /\ sends = 0
    /\ pc = "poll" /\ closes = 0

-----------------------------------------------------------------------------
(* Channel.cpp and Epoll.cpp.                                              *)

IsWriting == "out" \in event_

(* Adds a channel that is not in the epoll set and modifies one that is.   *)
UpdateChannel == registered' = TRUE
RemoveChannel == registered' = FALSE

Enable(ev) == ep_event_' = ep_event_ \cup {ev} /\ UpdateChannel
DisableWritable == ep_event_' = ep_event_ \ {"out"} /\ UpdateChannel
DisableAll == ep_event_' = {} /\ RemoveChannel

Broken == peer \in {"reset", "gone"}

(* What epoll_wait reports of the events the channel asked for.            *)
Ready ==
    {ev \in ep_event_ :
        \/ ev = "in" /\ (input > 0 \/ peer # "open")
        \/ ev = "out" /\ (room > 0 \/ Broken)}

(* EPOLLHUP and EPOLLERR are reported whatever the channel asked for.      *)
Reported == registered /\ (Ready # {} \/ Broken)

(* What send() of n units may do: how many it takes, with which errno, and *)
(* what becomes of the peer.  A blocking send waits until all n are taken; *)
(* a peer that reads everything makes room for more than Room meanwhile.   *)
(* It comes back short, or with an error after which the connection lives  *)
(* on, only if something befalls it; no signal interrupts it, the program  *)
(* handles none.                                                           *)
Outcomes(n) ==
    IF Broken \/ write_closed THEN {[size |-> 0, errno |-> "fatal", peer |-> peer]}
    ELSE IF fault = "memory"
    THEN {[size |-> k, errno |-> IF k = 0 THEN "other" ELSE "none", peer |-> peer] :
             k \in 0 .. Min({n, room})}
    ELSE IF fault = "reset"
    THEN {[size |-> k, errno |-> IF k = 0 THEN "fatal" ELSE "none", peer |-> "reset"] :
             k \in 0 .. Min({n, room})}
    ELSE IF non_blocking
    THEN {[size |-> Min({n, room}), errno |-> IF room = 0 THEN "wouldblock" ELSE "none",
           peer |-> peer]}
    ELSE IF room >= Min({n, Room})
    THEN {[size |-> n, errno |-> "none", peer |-> peer]}
    ELSE {}

(* send(), as far as it does not depend on what the data is.               *)
Transfer(o) ==
    /\ peer' = o.peer
    /\ room' = IF o.size <= room THEN room - o.size ELSE 0
    /\ fault' = "none"

(* Shutdown() as far as it goes beyond connection_status_: SHUT_WR.        *)
ShutdownWrites == connection_status_ = "connected" /\ ~IsWriting

Shutdown ==
    /\ connection_status_' =
          IF connection_status_ = "connected" THEN "disconnecting" ELSE connection_status_
    /\ write_closed' = (write_closed \/ ShutdownWrites)

-----------------------------------------------------------------------------
(* SendInLoop of n units.                                                  *)

Units(n) == [i \in 1 .. n |-> taken + i]

GiveUp ==
    /\ connection_status_ \in {"disconnecting", "disconnected"}
    /\ UNCHANGED <<connection_status_, channel_vars, out_vars, write_closed, peer>>

(* What is left of the data goes to the send buffer.                       *)
Keep(rest) ==
    /\ send_buffer_' = send_buffer_ \o rest
    /\ IF rest # <<>> /\ ~IsWriting THEN Enable("out") ELSE UNCHANGED channel_vars

SendBehindBuffer(n) ==
    /\ IsWriting \/ send_buffer_ # <<>>
    /\ taken' = taken + n
    /\ Keep(Units(n))
    /\ UNCHANGED <<connection_status_, wire, failed, room, fault, write_closed, peer>>

(* Mutant: the data is buffered from its first unit on, not from &data[send_size]. *)
SendDirectKeepsAll(n) ==
    /\ ~IsWriting /\ send_buffer_ = <<>>
    /\ taken' = taken + n
    /\ \E o \in Outcomes(n) :
          /\ Transfer(o)
          /\ wire' = wire \o SubSeq(Units(n), 1, o.size)
          /\ failed' = (failed \/ o.errno = "fatal")
          /\ IF o.errno = "fatal"
             THEN Shutdown /\ UNCHANGED <<send_buffer_, channel_vars>>
             ELSE Keep(Units(n)) /\ UNCHANGED <<connection_status_, write_closed>>

SendDirect(n) ==
    /\ ~IsWriting /\ send_buffer_ = <<>>
    /\ taken' = taken + n
    /\ \E o \in Outcomes(n) :
          /\ Transfer(o)
          /\ wire' = wire \o SubSeq(Units(n), 1, o.size)
          /\ failed' = (failed \/ o.errno = "fatal")
          /\ IF o.errno = "fatal"
             THEN Shutdown /\ UNCHANGED <<send_buffer_, channel_vars>>
             ELSE /\ Keep(SubSeq(Units(n), o.size + 1, n))
                  /\ UNCHANGED <<connection_status_, write_closed>>

(* Mutant: the status is tested by Send() only.                            *)
SendInLoopUnguarded(n) == SendBehindBuffer(n) \/ SendDirect(n)

SendInLoop(n) ==
    \/ GiveUp
    \/ /\ connection_status_ = "connected"
       /\ SendBehindBuffer(n) \/ SendDirect(n)

-----------------------------------------------------------------------------
(* The loop's thread.                                                      *)

(* LoopOnce: SetEvent only if the channel is reported.                     *)
Poll ==
    /\ pc = "poll"
    /\ IF Reported THEN event_' = Ready /\ pc' = "readable"
                   ELSE pc' = "swap" /\ UNCHANGED event_
    /\ UNCHANGED <<connection_status_, channel_vars, out_vars, write_closed, peer, in_vars,
                   queue_vars, closes>>

(* What a callback of the user does with the connection: send an answer,   *)
(* shut it down, or neither.                                               *)
Callback ==
    \/ /\ sends < MaxSends /\ sends' = sends + 1
       /\ \E n \in Lengths : SendInLoop(n)
    \/ /\ Shutdown
       /\ UNCHANGED <<channel_vars, out_vars, peer, sends>>
    \/ UNCHANGED <<connection_status_, channel_vars, out_vars, write_closed, peer, sends>>

(* OnReadable, read() > 0: it takes what there is room for, and the new-   *)
(* message callback takes what it can use.                                 *)
ReadMessage ==
    /\ pc = "readable" /\ "in" \in event_ /\ input > 0 /\ ~full /\ ~Broken
    /\ input' \in 0 .. input - 1
    /\ full' \in BOOLEAN
    /\ pc' = "writable"
    /\ Callback
    /\ UNCHANGED <<event_, inputs, pending, batch, closes>>

(* read() = 0: the peer has closed, or there is no room to read into.      *)
NothingRead == full \/ (input = 0 /\ peer \in {"closed", "gone"})

(* Mutant: OnClose() without channel_.DisableAll().                        *)
ReadEndStaysRegistered ==
    /\ pc = "readable" /\ "in" \in event_ /\ NothingRead
    /\ connection_status_' = "disconnected"
    /\ closes' = closes + 1
    /\ pc' = "writable"
    /\ UNCHANGED <<event_, channel_vars, out_vars, write_closed, peer, in_vars, queue_vars>>

(* OnReadable, read() = 0: OnClose().                                      *)
ReadEnd ==
    /\ pc = "readable" /\ "in" \in event_ /\ NothingRead
    /\ connection_status_' = "disconnected"
    /\ DisableAll
    /\ closes' = closes + 1
    /\ pc' = "writable"
    /\ UNCHANGED <<event_, out_vars, write_closed, peer, in_vars, queue_vars>>

(* OnReadable, read() < 0: logged; the next read() returns 0.              *)
ReadError ==
    /\ pc = "readable" /\ "in" \in event_ /\ peer = "reset" /\ ~full
    /\ peer' = "gone" /\ input' = 0
    /\ pc' = "writable"
    /\ UNCHANGED <<connection_status_, event_, channel_vars, out_vars, write_closed, full,
                   inputs, queue_vars, closes>>

NotReadable ==
    /\ pc = "readable" /\ "in" \notin event_
    /\ pc' = "writable"
    /\ UNCHANGED <<connection_status_, event_, channel_vars, out_vars, write_closed, peer,
                   in_vars, queue_vars, closes>>

(* Mutant: the handler does not return before the buffer is empty.         *)
OnWritableUntilEmpty ==
    /\ pc = "writable" /\ IsWriting
    /\ \E o \in Outcomes(Len(send_buffer_)) :
          /\ Transfer(o)
          /\ wire' = wire \o SubSeq(send_buffer_, 1, o.size)
          /\ send_buffer_' = SubSeq(send_buffer_, o.size + 1, Len(send_buffer_))
          /\ pc' = IF send_buffer_' = <<>> THEN "swap" ELSE "writable"
          /\ IF o.size > 0 /\ send_buffer_' = <<>>
             THEN DisableWritable ELSE UNCHANGED channel_vars
    /\ UNCHANGED <<connection_status_, write_closed, event_, taken, failed, in_vars,
                   queue_vars, closes>>

(* OnWritable: HandleEvent calls it even if OnReadable has just closed the *)
(* connection.  An empty buffer makes send() return 0, which is only       *)
(* logged, as an error is.                                                 *)
OnWritable ==
    /\ pc = "writable" /\ IsWriting
    /\ pc' = "swap"
    /\ \E o \in Outcomes(Len(send_buffer_)) :
          LET rest == SubSeq(send_buffer_, o.size + 1, Len(send_buffer_)) IN
          /\ Transfer(o)
          /\ wire' = wire \o SubSeq(send_buffer_, 1, o.size)
          /\ send_buffer_' = rest
          /\ IF o.size > 0 /\ rest = <<>>
             THEN /\ DisableWritable
                  /\ IF connection_status_ = "disconnecting" THEN Shutdown
                     ELSE UNCHANGED <<connection_status_, write_closed>>
             ELSE UNCHANGED <<channel_vars, connection_status_, write_closed>>
    /\ UNCHANGED <<event_, taken, failed, in_vars, queue_vars, closes>>

NotWritable ==
    /\ pc = "writable" /\ ~IsWriting
    /\ pc' = "swap"
    /\ UNCHANGED <<connection_status_, event_, channel_vars, out_vars, write_closed, peer,
                   in_vars, queue_vars, closes>>

(* HandlePendingFunc (module EventLoop).                                   *)
SwapPending ==
    /\ pc = "swap" /\ pc' = "tasks"
    /\ batch' = pending /\ pending' = <<>>
    /\ UNCHANGED <<connection_status_, event_, channel_vars, out_vars, write_closed, peer,
                   in_vars, sends, closes>>

(* Established, then the connection callback.                              *)
RunEstablished ==
    /\ pc = "tasks" /\ batch # <<>> /\ Head(batch) = Established
    /\ batch' = Tail(batch)
    /\ connection_status_' = "connected"
    /\ Enable("in")
    /\ pc' = "callback"
    /\ UNCHANGED <<event_, out_vars, write_closed, peer, in_vars, pending, sends, closes>>

ConnectionCallback ==
    /\ pc = "callback" /\ pc' = "tasks"
    /\ Callback
    /\ UNCHANGED <<event_, in_vars, pending, batch, closes>>

RunSend ==
    /\ pc = "tasks" /\ batch # <<>> /\ Head(batch) # Established
    /\ batch' = Tail(batch)
    /\ SendInLoop(Head(batch))
    /\ UNCHANGED <<event_, in_vars, pending, sends, pc, closes>>

BatchDone ==
    /\ pc = "tasks" /\ batch = <<>>
    /\ pc' = "poll"
    /\ UNCHANGED <<connection_status_, event_, channel_vars, out_vars, write_closed, peer,
                   in_vars, queue_vars, closes>>

-----------------------------------------------------------------------------
(* Send() on another thread.                                               *)
SendRemote(n) ==
    /\ connection_status_ = "connected" /\ sends < MaxSends
    /\ sends' = sends + 1
    /\ pending' = Append(pending, n)
    /\ UNCHANGED <<connection_status_, event_, channel_vars, out_vars, write_closed, peer,
                   in_vars, batch, pc, closes>>

(* The peer and the network.                                               *)
PeerSends ==
    /\ peer = "open" /\ inputs < MaxInputs
    /\ input' = input + 1 /\ inputs' = inputs + 1
    /\ UNCHANGED <<connection_status_, event_, channel_vars, out_vars, write_closed, peer,
                   full, queue_vars, pc, closes>>

PeerReads ==
    /\ ~Broken /\ room < Room /\ room' = room + 1
    /\ UNCHANGED <<connection_status_, event_, channel_vars, send_buffer_, wire, taken, failed,
                   fault, write_closed, peer, in_vars, queue_vars, pc, closes>>

PeerLeaves ==
    /\ \/ peer = "open" /\ peer' \in {"closed", "reset"}
       \/ peer = "closed" /\ peer' = "reset"
    /\ UNCHANGED <<connection_status_, event_, channel_vars, out_vars, write_closed,
                   in_vars, queue_vars, pc, closes>>

(* The next send() meets a shortage of memory or, if it waits, a reset.    *)
Strikes ==
    /\ fault = "none" /\ ~Broken
    /\ fault' \in IF non_blocking THEN {"memory"} ELSE {"memory", "reset"}
    /\ UNCHANGED <<connection_status_, event_, channel_vars, send_buffer_, wire, taken, failed,
                   room, write_closed, peer, in_vars, queue_vars, pc, closes>>

LoopThread ==
    /\ \/ Poll
       \/ ReadMessage \/ ReadEnd \/ ReadError \/ NotReadable
       \/ OnWritable \/ NotWritable
       \/ SwapPending \/ RunEstablished \/ ConnectionCallback \/ RunSend \/ BatchDone
    /\ UNCHANGED non_blocking

Environment ==
    /\ \/ \E n \in Lengths : SendRemote(n)
       \/ PeerSends \/ PeerReads \/ PeerLeaves \/ Strikes
    /\ UNCHANGED non_blocking

Next == LoopThread \/ Environment

Spec == Init /\ [][Next]_vars

(* The loop's thread is scheduled.  Nothing is assumed of the peer: it may *)
(* stay connected and never read.                                          *)
FairSpec == Spec /\ WF_vars(LoopThread)

-----------------------------------------------------------------------------
(* TcpConnection.cpp:219-282 and 76-111: what the kernel took followed by  *)
(* what is buffered is exactly what SendInLoop took, in order, each unit   *)
(* once; after a fatal error it is a prefix of it.                         *)
StreamInOrder ==
    LET stream == wire \o send_buffer_ IN
    /\ \A i \in DOMAIN stream : stream[i] = i
    /\ ~failed => Len(stream) = taken

(* TcpConnection.cpp:118-131: the owner is told of the end of a connection *)
(* once, and only of a connection that ended; no event handled before,     *)
(* in the same round or after makes it happen again.                       *)
ClosedOnce == closes = IF connection_status_ = "disconnected" THEN 1 ELSE 0

(* TcpConnection.cpp:64-68: a connection that was closed asks for no event *)
(* any more, although a Send queued before may run and an OnWritable of    *)
(* the same round may still change what the channel asks for.              *)
ClosedNotPolled == connection_status_ = "disconnected" => ep_event_ = {}

(* EventLoop.cpp:27-40: no handler and no queued function keeps the loop's *)
(* thread from its other connections for ever, as long as the peer does    *)
(* not leave what was sent to it unread or resets the connection.          *)
LoopReturns == []<>(room = Room \/ Broken) => (pc # "poll" ~> pc = "poll")

-----------------------------------------------------------------------------
(* What comments say and the code does not do: TLC refutes these.          *)

(* TcpConnection.cpp:185-187: the write side is closed when no data waits. *)
WriteClosedAfterData == write_closed => send_buffer_ = <<>> \/ Broken

(* TcpConnection.cpp:249-252: what could not be sent waits to be sent when *)
(* there is room again.                                                    *)
WaitingIsWatched ==
    connection_status_ = "connected" /\ send_buffer_ # <<>> => "out" \in ep_event_
=============================================================================
