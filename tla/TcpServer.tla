----------------------------- MODULE TcpServer -----------------------------
(***************************************************************************)
(* TcpServer with its Acceptor and EventLoopThreadPool: connections are    *)
(* accepted on the base loop, given to the io loops in turn, established   *)
(* and closed there, and destroyed with the last shared_ptr to them.       *)
(*                                                                         *)
(* Of a connection's traffic only its end matters here (TcpConnection has  *)
(* the rest), and operations on connection_map_ are atomic, which the code *)
(* leaves to chance: no lock protects the map.                             *)
(***************************************************************************)
EXTENDS Integers, Sequences, FiniteSetsExt

CONSTANTS MaxThreads,      (* bound: io threads                            *)
          ThreadNums,      (* values of SetThreadNum                       *)
          Descriptors,     (* descriptors the process has for connections  *)
          Addresses,       (* addresses of the clients                     *)
          Keeps,           (* values of keeps                              *)
          MaxConnections   (* bound: connections made by the clients       *)

ASSUME ServerAssumption ==
    /\ MaxThreads \in Nat /\ ThreadNums \subseteq 0 .. MaxThreads /\ ThreadNums # {}
    /\ MaxConnections \in Nat
    /\ Descriptors \subseteq Nat /\ Keeps \subseteq BOOLEAN

VARIABLES keeps,            (* TRUE: main_server, whose OnConnection keeps the *)
                            (* TcpConnectionPtr for good; FALSE: client_server *)
          thread_num_,
          threads_,         (* io threads started                          *)
          backlog,          (* addresses in the queue of the listening socket *)
          made,             (* TcpConnections constructed                  *)
          connection_id_,
          next_thread_id_,
          connection_map_,  (* name -> connection or NULL                  *)
          conn,             (* the TcpConnections                          *)
          left,             (* connections whose peer has closed           *)
          held,             (* connections the application keeps           *)
          pc,               (* where each loop's thread is                 *)
          active_channels_, (* of each loop                                *)
          current,          (* connection each loop's thread is handling   *)
          pending_func_,    (* of each loop: connections to establish      *)
          batch             (* of them, what it has swapped out            *)

pool_vars == <<keeps, thread_num_, threads_, next_thread_id_>>
queue_vars == <<pending_func_, batch>>
client_vars == <<backlog, left>>
vars == <<pool_vars, made, connection_id_, connection_map_, conn, client_vars, held, pc,
          active_channels_, current, queue_vars>>

BaseLoop == 0
Loops == 0 .. MaxThreads
Conns == 1 .. MaxConnections
NULL == 0
LISTEN == 0
Names == Addresses \X (0 .. MaxConnections)

(* A TcpConnection, or the room for one.                                   *)
NoConnection == [name |-> NULL, addr |-> NULL, fd |-> -1, loop |-> BaseLoop,
                 status |-> "none", registered |-> FALSE]
TcpConnections == [name : Names, addr : Addresses, fd : Descriptors, loop : Loops,
                   status : {"connecting", "connected", "disconnected"}, registered : BOOLEAN]

TypeOK ==
    /\ keeps \in Keeps /\ thread_num_ \in ThreadNums /\ threads_ \in 0 .. thread_num_
    /\ backlog \in Seq(Addresses)
    /\ made \in 0 .. MaxConnections /\ connection_id_ \in 0 .. MaxConnections
    /\ next_thread_id_ \in 0 .. thread_num_
    /\ connection_map_ \in [Names -> Conns \cup {NULL}]
    /\ DOMAIN conn = Conns
    /\ \A c \in Conns :
          IF c > made THEN conn[c] = NoConnection ELSE conn[c] \in TcpConnections
    /\ left \subseteq Conns /\ held \subseteq Conns
    /\ pc \in [Loops -> {"poll", "active", "closing", "accepted", "added", "queued",
                       "pending", "aborted"}]
    /\ active_channels_ \in [Loops -> SUBSET (Conns \cup {LISTEN})]
    /\ current \in [Loops -> Conns \cup {NULL}]
    /\ pending_func_ \in [Loops -> Seq(Conns)] /\ batch \in [Loops -> Seq(Conns)]

Init ==
    /\ keeps \in Keeps /\ thread_num_ \in ThreadNums
    /\ threads_ = 0 /\ next_thread_id_ = 0
    /\ backlog = <<>> /\ left = {} /\ held = {}
    /\ made = 0 /\ connection_id_ = 0
    /\ connection_map_ = [name \in Names |-> NULL]
    /\ conn = [c \in Conns |-> NoConnection]
    /\ pc = [l \in Loops |-> "poll"]
    /\ active_channels_ = [l \in Loops |-> {}]
    /\ current = [l \in Loops |-> NULL]
    /\ pending_func_ = [l \in Loops |-> <<>>] /\ batch = [l \in Loops |-> <<>>]

(* A shared_ptr holds c: in the map, with the application, in a queued     *)
(* function, or in the handler that runs.                                  *)
Referenced(c) ==
    \/ \E name \in Names : connection_map_[name] = c
    \/ c \in held
    \/ \E l \in Loops :
          \/ current[l] = c
          \/ \E i \in DOMAIN pending_func_[l] : pending_func_[l][i] = c
          \/ \E i \in DOMAIN batch[l] : batch[l][i] = c

Alive(c) == c <= made /\ Referenced(c)
Released(c) == c <= made /\ ~Referenced(c)

-----------------------------------------------------------------------------
(* Start(): the pool's threads one after the other (EventLoopThread), then *)
(* Listen(), then main() runs the base loop.                               *)
StartThread ==
    /\ threads_ < thread_num_
    /\ threads_' = threads_ + 1
    /\ UNCHANGED <<keeps, thread_num_, next_thread_id_, made, connection_id_, connection_map_, conn,
                   client_vars, held, pc, active_channels_, current, queue_vars>>

Listening == threads_ = thread_num_

Aborted == pc[BaseLoop] = "aborted"

Running(l) == IF l = BaseLoop THEN Listening ELSE l <= threads_

Poll(l) ==
    /\ pc[l] = "poll" /\ Running(l)
    /\ active_channels_' = [active_channels_ EXCEPT ![l] =
          {c \in left : conn[c].loop = l /\ conn[c].registered}
          \cup {x \in {LISTEN} : l = BaseLoop /\ backlog # <<>>}]
    /\ pc' = [pc EXCEPT ![l] = "active"]
    /\ UNCHANGED <<pool_vars, made, connection_id_, connection_map_, conn, client_vars, held,
                   current, queue_vars>>

(* Mutant: % (thread_num_ - 1).                                            *)
GetNextLoopWrapsEarly ==
    /\ thread_num_ # 0
    /\ next_thread_id_' = (next_thread_id_ + 1) % (thread_num_ - 1)

(* GetNextLoop: what it does to next_thread_id_, and the loop it returns.  *)
GetNextLoop ==
    IF thread_num_ = 0 THEN UNCHANGED next_thread_id_
    ELSE next_thread_id_' = (next_thread_id_ + 1) % thread_num_

NextLoop == IF thread_num_ = 0 THEN BaseLoop ELSE next_thread_id_ + 1

Free == {d \in Descriptors : \A c \in 1 .. made : conn[c].fd = d => Released(c)}

(* Mutant: the name is the client's address.                               *)
ConnectionNameIsAddress(addr) == <<addr, 0>>

ConnectionName(addr) == <<addr, connection_id_>>

(* The acceptor's callback runs.                                          *)
OnReadable == pc[BaseLoop] = "active" /\ LISTEN \in active_channels_[BaseLoop]

(* accept() and OnNewConnection up to the new TcpConnection.               *)
Accept ==
    LET addr == Head(backlog) IN
    /\ OnReadable /\ Free # {}
    /\ active_channels_' = [active_channels_ EXCEPT ![BaseLoop] = @ \ {LISTEN}]
    /\ backlog' = Tail(backlog)
    /\ made' = made + 1 /\ connection_id_' = connection_id_ + 1
    /\ GetNextLoop
    /\ conn' = [conn EXCEPT ![made + 1] =
                   [name |-> ConnectionName(addr), addr |-> addr, fd |-> Min(Free),
                    loop |-> NextLoop, status |-> "connecting", registered |-> FALSE]]
    /\ current' = [current EXCEPT ![BaseLoop] = made + 1]
    /\ pc' = [pc EXCEPT ![BaseLoop] = "accepted"]
    /\ UNCHANGED <<keeps, thread_num_, threads_, connection_map_, left, held, queue_vars>>

(* accept() fails: assert(fd >= 0) ends the process.                       *)
AcceptFails ==
    /\ OnReadable /\ Free = {}
    /\ pc' = [l \in Loops |-> "aborted"]
    /\ UNCHANGED <<pool_vars, made, connection_id_, connection_map_, conn, client_vars, held,
                   active_channels_, current, queue_vars>>

(* Mutant: the server does not keep the connection.                        *)
AddConnectionNowhere ==
    /\ pc[BaseLoop] = "accepted"
    /\ pc' = [pc EXCEPT ![BaseLoop] = "added"]
    /\ UNCHANGED <<pool_vars, made, connection_id_, connection_map_, conn, client_vars, held,
                   active_channels_, current, queue_vars>>

(* connection_map_[connection_name] = connection_ptr.                      *)
AddConnection ==
    LET c == current[BaseLoop] IN
    /\ pc[BaseLoop] = "accepted"
    /\ connection_map_' = [connection_map_ EXCEPT ![conn[c].name] = c]
    /\ pc' = [pc EXCEPT ![BaseLoop] = "added"]
    /\ UNCHANGED <<pool_vars, made, connection_id_, conn, client_vars, held, active_channels_,
                   current, queue_vars>>

(* RunInLoop of Established, which holds a shared_ptr.                     *)
QueueEstablished ==
    LET c == current[BaseLoop] IN
    /\ pc[BaseLoop] = "added"
    /\ pending_func_' = [pending_func_ EXCEPT ![conn[c].loop] = Append(@, c)]
    /\ pc' = [pc EXCEPT ![BaseLoop] = "queued"]
    /\ UNCHANGED <<pool_vars, made, connection_id_, connection_map_, conn, client_vars, held,
                   active_channels_, current, batch>>

(* OnNewConnection returns: connection_ptr goes out of scope.              *)
NewConnectionDone ==
    /\ pc[BaseLoop] = "queued"
    /\ current' = [current EXCEPT ![BaseLoop] = NULL]
    /\ pc' = [pc EXCEPT ![BaseLoop] = "active"]
    /\ UNCHANGED <<pool_vars, made, connection_id_, connection_map_, conn, client_vars, held,
                   active_channels_, queue_vars>>

(* HandleEventWithGuard takes a shared_ptr; read() returns 0; OnClose().   *)
OnClose(l, c) ==
    /\ pc[l] = "active" /\ c \in active_channels_[l]
    /\ active_channels_' = [active_channels_ EXCEPT ![l] = @ \ {c}]
    /\ conn' = [conn EXCEPT ![c].status = "disconnected", ![c].registered = FALSE]
    /\ current' = [current EXCEPT ![l] = c]
    /\ pc' = [pc EXCEPT ![l] = "closing"]
    /\ UNCHANGED <<pool_vars, made, connection_id_, connection_map_, client_vars, held,
                   queue_vars>>

(* Mutant: the entry stays in the map.                                     *)
OnCloseConnectionKeepsEntry(l) ==
    /\ pc[l] = "closing"
    /\ current' = [current EXCEPT ![l] = NULL]
    /\ pc' = [pc EXCEPT ![l] = "active"]
    /\ UNCHANGED <<pool_vars, made, connection_id_, connection_map_, conn, client_vars, held,
                   active_channels_, queue_vars>>

(* OnCloseConnection: erase by name; then the guard goes.                  *)
OnCloseConnection(l) ==
    /\ pc[l] = "closing"
    /\ connection_map_' = [connection_map_ EXCEPT ![conn[current[l]].name] = NULL]
    /\ current' = [current EXCEPT ![l] = NULL]
    /\ pc' = [pc EXCEPT ![l] = "active"]
    /\ UNCHANGED <<pool_vars, made, connection_id_, conn, client_vars, held, active_channels_,
                   queue_vars>>

(* HandlePendingFunc (module EventLoop).                                   *)
SwapPending(l) ==
    /\ pc[l] = "active" /\ active_channels_[l] = {}
    /\ batch' = [batch EXCEPT ![l] = pending_func_[l]]
    /\ pending_func_' = [pending_func_ EXCEPT ![l] = <<>>]
    /\ pc' = [pc EXCEPT ![l] = "pending"]
    /\ UNCHANGED <<pool_vars, made, connection_id_, connection_map_, conn, client_vars, held,
                   active_channels_, current>>

Established(l) ==
    LET c == Head(batch[l]) IN
    /\ pc[l] = "pending" /\ batch[l] # <<>>
    /\ batch' = [batch EXCEPT ![l] = Tail(@)]
    /\ conn' = [conn EXCEPT ![c].status = "connected", ![c].registered = TRUE]
    /\ held' = IF keeps THEN held \cup {c} ELSE held
    /\ UNCHANGED <<pool_vars, made, connection_id_, connection_map_, client_vars, pc,
                   active_channels_, current, pending_func_>>

BatchDone(l) ==
    /\ pc[l] = "pending" /\ batch[l] = <<>>
    /\ pc' = [pc EXCEPT ![l] = "poll"]
    /\ UNCHANGED <<pool_vars, made, connection_id_, connection_map_, conn, client_vars, held,
                   active_channels_, current, queue_vars>>

-----------------------------------------------------------------------------
(* The clients.  An address is in use by one connection at a time.         *)
InUse(addr) ==
    \/ \E i \in DOMAIN backlog : backlog[i] = addr
    \/ \E c \in (1 .. made) \ left : conn[c].addr = addr

ClientConnects(addr) ==
    /\ Listening /\ ~Aborted /\ ~InUse(addr)
    /\ made + Len(backlog) < MaxConnections
    /\ backlog' = Append(backlog, addr)
    /\ UNCHANGED <<pool_vars, made, connection_id_, connection_map_, conn, left, held, pc,
                   active_channels_, current, queue_vars>>

ClientLeaves(c) ==
    /\ c <= made /\ c \notin left
    /\ left' = left \cup {c}
    /\ UNCHANGED <<pool_vars, made, connection_id_, connection_map_, conn, backlog, held, pc,
                   active_channels_, current, queue_vars>>

BaseStep == Accept \/ AcceptFails \/ AddConnection \/ QueueEstablished \/ NewConnectionDone

LoopStep(l) ==
    \/ Poll(l)
    \/ \E c \in Conns : OnClose(l, c)
    \/ OnCloseConnection(l)
    \/ SwapPending(l) \/ Established(l) \/ BatchDone(l)

Next ==
    \/ StartThread
    \/ BaseStep
    \/ \E l \in Loops : LoopStep(l)
    \/ \E addr \in Addresses : ClientConnects(addr)
    \/ \E c \in Conns : ClientLeaves(c)

Spec == Init /\ [][Next]_vars

(* Every thread is scheduled; nothing is assumed of the clients.           *)
FairSpec ==
    /\ Spec
    /\ WF_vars(StartThread) /\ WF_vars(BaseStep \/ LoopStep(BaseLoop))
    /\ \A l \in Loops \ {BaseLoop} : WF_vars(LoopStep(l))

-----------------------------------------------------------------------------
(* TcpServer.cpp:36-61 and 77-83, TcpConnection.cpp:23-34 and 118-131: a   *)
(* connection is up only after it was accepted, ends only after it was up, *)
(* and is destroyed only after it has ended, whichever threads meet.       *)
LifeOf(c) ==
    IF Released(c) THEN "released"
    ELSE IF conn[c].status = "connecting" THEN "accepted" ELSE conn[c].status
CL == INSTANCE ConnectionLife WITH Connections <- Conns, life <- [c \in Conns |-> LifeOf(c)]
ImplementsConnectionLife == CL!Spec

(* Channel.cpp:52-66: epoll and active_channels_ hold plain pointers to    *)
(* the Channel inside a TcpConnection; none of them is ever dangling.      *)
WatchedChannelsLive ==
    \A c \in Conns :
        conn[c].registered \/ (\E l \in Loops : c \in active_channels_[l]) => Alive(c)

(* EventLoopThreadPool.cpp:37-47: no io thread is given two connections    *)
(* more than another, and the base loop none if there are io threads.      *)
LoadBalanced ==
    LET load(l) == Cardinality({c \in 1 .. made : conn[c].loop = l})
        io == IF thread_num_ = 0 THEN {BaseLoop} ELSE 1 .. thread_num_
    IN  /\ \A k, l \in io : load(k) <= load(l) + 1
        /\ \A l \in Loops \ io : load(l) = 0

(* TcpServer.cpp:77-83: a connection whose peer has closed is destroyed    *)
(* and its descriptor closed, if the application does not keep it.         *)
LeftConnectionReleased ==
    \A c \in Conns : c \in left /\ ~keeps ~> Released(c) \/ Aborted
=============================================================================
