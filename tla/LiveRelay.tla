----------------------------- MODULE LiveRelay -----------------------------
(***************************************************************************)
(* The relay itself: publishers (RtmpServerConnection), the viewers joined *)
(* to them (RtmpClientConnection) and the map from paths to publishers of  *)
(* main.cpp.                                                               *)
(*                                                                         *)
(* A publisher's connection lives on an io thread of main_server, a        *)
(* viewer's on an io thread of client_server.  The publisher's thread      *)
(* parses tags and fans each of them out to client_connection_map_; a      *)
(* viewer's thread looks the publisher up, inserts itself in that very     *)
(* map, fills the cached header and reads the last tag, and erases itself  *)
(* when the peer closes.  None of that shared state is locked; only        *)
(* EventLoop's vector of pending functions is, and a Send from another     *)
(* thread goes through it (module EventLoop) as a function that holds the  *)
(* TcpConnection by a plain pointer.  An action is one access to shared    *)
(* state, of the publisher or of a connection.                             *)
(*                                                                         *)
(* Tags are numbered; tag t has size t, so the size of the tag before it   *)
(* is t - 1, and 0 for the first.                                          *)
(***************************************************************************)
EXTENDS Integers, Sequences

CONSTANTS Publishers,   (* publishing connections                          *)
          Viewers,      (* viewing connections                             *)
          Paths,        (* the paths of rtmp:// and http:// urls           *)
          NULL,         (* the null pointer                                *)
          HeaderTags,   (* tags of the header: script, audio and video     *)
          MaxTag,       (* bound: tags a publisher sends                   *)
          MaxRequests   (* bound: HTTP requests on one viewing connection  *)

ASSUME RelayAssumption ==
    /\ NULL \notin Publishers \cup Viewers
    /\ HeaderTags \in Nat \ {0} /\ MaxTag \in Nat /\ MaxRequests \in Nat

VARIABLES
    (* main.cpp *)
    rtmp_connection_map,    (* path -> publisher or NULL                   *)
    bound,                  (* publishers whose handshake has succeeded    *)
    (* one RtmpServerConnection per publisher *)
    meta,                   (* header tags parsed so far                    *)
    last_flv_tag,           (* number of the last tag, 0 for nullptr       *)
    prev_size,              (* its PreviousTagSize field                   *)
    header_buffer,          (* the cached header: the parts appended to it *)
    client_connection_map,  (* the viewers joined to it                    *)
    fan,                    (* where OnNewFlvTag is                        *)
    fan_prev,               (* PreviousTagSize copied into the FlvTagBuffer *)
    ahead,                  (* map entries its iterator has not reached    *)
    at,                     (* map entry its iterator is on, or NULL       *)
    (* one TcpConnection and RtmpClientConnection per viewer *)
    status,                 (* connection_status_                          *)
    join,                   (* where its request or close handler is       *)
    join_to,                (* the publisher being joined                  *)
    temp,                   (* header tags read into and found for        *)
                            (* header_buffer_temp                          *)
    close_to,               (* publisher its close callback erases it from *)
    requests,               (* requests received so far                    *)
    pending,                (* sends waiting in its loop's pending_func_   *)
    out,                    (* history: what was sent to it                *)
    (* the process *)
    fault                   (* undefined behaviour that took the process   *)

server_vars == <<meta, last_flv_tag, prev_size, fan, fan_prev, ahead, at>>
viewer_vars == <<status, join, join_to, temp, close_to, requests, pending, out>>
vars == <<rtmp_connection_map, bound, server_vars, header_buffer,
          client_connection_map, viewer_vars, fault>>

(* The size of the last tag inside the header.                             *)
HeaderTag == -1

Sizes == {HeaderTag} \cup 0 .. MaxTag
Tags == 1 .. MaxTag

(* What header_buffer_ is made of: the HTTP response, and chunks of the    *)
(* header tags.  Those not parsed yet are the default tags FlvManager was  *)
(* constructed with; a chunk is the number of the others.                  *)
Response == -1
Parts == {Response} \cup 0 .. HeaderTags
NotEncoded == [read |-> 0, found |-> 0]

TagItem(p, t) == [kind |-> "tag", from |-> p, no |-> t]
HeaderItem(p) == [kind |-> "header", from |-> p]

TagItems == [kind : {"tag"}, from : Publishers, no : Tags]
HeaderItems == [kind : {"header"}, from : Publishers]
Items == TagItems \cup HeaderItems

(* OnNewFlvTag: not running; last_flv_tag_ptr_ set; about to move its      *)
(* iterator; in AddNewTag of the entry it is on.                           *)
FanPositions == {"idle", "tag", "advance", "send"}

(* OnClientMessage, one position per access to state of the publisher, and *)
(* OnClose once the status is written.                                     *)
JoinPositions ==
    {"idle", "insert", "check", "encode", "response", "body", "header", "mark", "first",
     "leave", "release"}

TypeOK ==
    /\ rtmp_connection_map \in [Paths -> Publishers \cup {NULL}]
    /\ bound \subseteq Publishers
    /\ meta \in [Publishers -> 0 .. HeaderTags]
    /\ last_flv_tag \in [Publishers -> 0 .. MaxTag]
    /\ prev_size \in [Publishers -> Sizes]
    /\ header_buffer \in [Publishers -> Seq(Parts)]
    /\ client_connection_map \in [Publishers -> SUBSET Viewers]
    /\ fan \in [Publishers -> FanPositions]
    /\ fan_prev \in [Publishers -> Sizes]
    /\ ahead \in [Publishers -> SUBSET Viewers]
    /\ at \in [Publishers -> Viewers \cup {NULL}]
    /\ status \in [Viewers -> {"connected", "disconnecting", "disconnected"}]
    /\ join \in [Viewers -> JoinPositions]
    /\ join_to \in [Viewers -> Publishers \cup {NULL}]
    /\ temp \in [Viewers -> [read : 0 .. HeaderTags, found : 0 .. HeaderTags]]
    /\ close_to \in [Viewers -> Publishers \cup {NULL}]
    /\ requests \in [Viewers -> 0 .. MaxRequests]
    /\ pending \in [Viewers -> Seq(TagItems)]
    /\ out \in [Viewers -> Seq(Items)]
    /\ fault \in {"none", "null_tag", "stale_iterator", "freed_connection"}

(* A viewer's connection is established: TcpServer's connection_map_ holds *)
(* it and its Channel reads.                                               *)
Init ==
    /\ rtmp_connection_map = [path \in Paths |-> NULL]
    /\ bound = {}
    /\ meta = [p \in Publishers |-> 0]
    /\ last_flv_tag = [p \in Publishers |-> 0]
    /\ prev_size = [p \in Publishers |-> 0]
    /\ header_buffer = [p \in Publishers |-> <<>>]
    /\ client_connection_map = [p \in Publishers |-> {}]
    /\ fan = [p \in Publishers |-> "idle"]
    /\ fan_prev = [p \in Publishers |-> 0]
    /\ ahead = [p \in Publishers |-> {}]
    /\ at = [p \in Publishers |-> NULL]
    /\ status = [v \in Viewers |-> "connected"]
    /\ join = [v \in Viewers |-> "idle"]
    /\ join_to = [v \in Viewers |-> NULL]
    /\ temp = [v \in Viewers |-> NotEncoded]
    /\ close_to = [v \in Viewers |-> NULL]
    /\ requests = [v \in Viewers |-> 0]
    /\ pending = [v \in Viewers |-> <<>>]
    /\ out = [v \in Viewers |-> <<>>]
    /\ fault = "none"

-----------------------------------------------------------------------------
(* The publisher's thread.                                                 *)

(* Mutant: a publisher that takes a path over takes its viewers as well.   *)
BindTakesViewers(p, path) ==
    /\ p \notin bound
    /\ bound' = bound \cup {p}
    /\ rtmp_connection_map' = [rtmp_connection_map EXCEPT ![path] = p]
    /\ client_connection_map' =
          [q \in Publishers |->
              IF rtmp_connection_map[path] = NULL THEN client_connection_map[q]
              ELSE IF q = p THEN client_connection_map[rtmp_connection_map[path]]
              ELSE client_connection_map[q] \ client_connection_map[rtmp_connection_map[path]]]
    /\ UNCHANGED <<server_vars, header_buffer, viewer_vars, fault>>

(* OnShakeHandSuccess: the path now leads to this publisher.  Nothing ever *)
(* erases it again, not even the end of the publisher's connection.        *)
Bind(p, path) ==
    /\ p \notin bound
    /\ bound' = bound \cup {p}
    /\ rtmp_connection_map' = [rtmp_connection_map EXCEPT ![path] = p]
    /\ UNCHANGED <<server_vars, header_buffer, client_connection_map, viewer_vars, fault>>

(* ParseFirstHeader makes the next of the header tags.                     *)
ParseHeader(p) ==
    /\ p \in bound /\ meta[p] < HeaderTags
    /\ meta' = [meta EXCEPT ![p] = @ + 1]
    /\ UNCHANGED <<rtmp_connection_map, bound, last_flv_tag, prev_size, header_buffer,
                   client_connection_map, fan, fan_prev, ahead, at, viewer_vars, fault>>

(* ProcessNewFlvTag, and OnNewFlvTag up to last_flv_tag_ptr_ = tag_ptr.    *)
NewTag(p) ==
    /\ meta[p] = HeaderTags /\ fan[p] = "idle" /\ last_flv_tag[p] < MaxTag
    /\ last_flv_tag' = [last_flv_tag EXCEPT ![p] = @ + 1]
    /\ prev_size' = [prev_size EXCEPT ![p] = last_flv_tag[p]]
    /\ fan' = [fan EXCEPT ![p] = "tag"]
    /\ UNCHANGED <<rtmp_connection_map, bound, meta, header_buffer, client_connection_map,
                   fan_prev, ahead, at, viewer_vars, fault>>

(* Mutant: the iteration goes on to the entry end() designates.            *)
MakeTagBufferPastEnd(p) ==
    /\ fan[p] = "tag"
    /\ fan_prev' = [fan_prev EXCEPT ![p] = prev_size[p]]
    /\ ahead' = [ahead EXCEPT ![p] = client_connection_map[p] \cup {NULL}]
    /\ fan' = [fan EXCEPT ![p] = "advance"]
    /\ UNCHANGED <<rtmp_connection_map, bound, meta, last_flv_tag, prev_size, header_buffer,
                   client_connection_map, at, viewer_vars, fault>>

(* make_shared<FlvTagBuffer>(tag_ptr), and begin() of the map.             *)
MakeTagBuffer(p) ==
    /\ fan[p] = "tag"
    /\ fan_prev' = [fan_prev EXCEPT ![p] = prev_size[p]]
    /\ ahead' = [ahead EXCEPT ![p] = client_connection_map[p]]
    /\ fan' = [fan EXCEPT ![p] = "advance"]
    /\ UNCHANGED <<rtmp_connection_map, bound, meta, last_flv_tag, prev_size, header_buffer,
                   client_connection_map, at, viewer_vars, fault>>

(* The entry the iterator is on was erased, and its RtmpClientConnection   *)
(* destroyed, by the thread of the viewer.                                 *)
StaleIterator(p) == at[p] # NULL /\ at[p] \notin client_connection_map[p]

(* Using a stale iterator may take the process, or go unnoticed.           *)
UseStaleIterator(p) ==
    /\ fan[p] \in {"advance", "send"} /\ StaleIterator(p)
    /\ fault' = "stale_iterator"
    /\ UNCHANGED <<rtmp_connection_map, bound, server_vars, header_buffer,
                   client_connection_map, viewer_vars>>

(* ++iterator: the next entry, or the end of the map.                      *)
Advance(p) ==
    /\ fan[p] = "advance"
    /\ \/ \E v \in ahead[p] :
             /\ at' = [at EXCEPT ![p] = v]
             /\ ahead' = [ahead EXCEPT ![p] = @ \ {v}]
             /\ fan' = [fan EXCEPT ![p] = "send"]
       \/ /\ ahead[p] = {}
          /\ at' = [at EXCEPT ![p] = NULL]
          /\ fan' = [fan EXCEPT ![p] = "idle"]
          /\ UNCHANGED ahead
    /\ UNCHANGED <<rtmp_connection_map, bound, meta, last_flv_tag, prev_size, header_buffer,
                   client_connection_map, fan_prev, viewer_vars, fault>>

(* Mutant: a viewer whose loop has not run its last send yet is passed over. *)
SendTagUnlessBusy(p) ==
    /\ fan[p] = "send"
    /\ fan' = [fan EXCEPT ![p] = "advance"]
    /\ pending' = IF status[at[p]] = "connected" /\ pending[at[p]] = <<>>
                  THEN [pending EXCEPT ![at[p]] =
                           Append(@, TagItem(p, last_flv_tag[p]))]
                  ELSE pending
    /\ UNCHANGED <<rtmp_connection_map, bound, meta, last_flv_tag, prev_size, header_buffer,
                   client_connection_map, fan_prev, ahead, at, status, join, join_to, temp,
                   close_to, requests, out, fault>>

(* Mutant: the loop over the viewers is left at one that is not connected. *)
SendTagStopsAtClosed(p) ==
    /\ fan[p] = "send"
    /\ \/ /\ status[at[p]] = "connected"
          /\ pending' = [pending EXCEPT ![at[p]] =
                            Append(@, TagItem(p, last_flv_tag[p]))]
          /\ fan' = [fan EXCEPT ![p] = "advance"]
          /\ UNCHANGED <<ahead, at>>
       \/ /\ status[at[p]] # "connected"
          /\ at' = [at EXCEPT ![p] = NULL]
          /\ ahead' = [ahead EXCEPT ![p] = {}]
          /\ fan' = [fan EXCEPT ![p] = "idle"]
          /\ UNCHANGED pending
    /\ UNCHANGED <<rtmp_connection_map, bound, meta, last_flv_tag, prev_size, header_buffer,
                   client_connection_map, fan_prev, status, join, join_to, temp,
                   close_to, requests, out, fault>>

(* AddNewTag of one viewer: Send finds itself on another thread and hands  *)
(* a copy of the data to the viewer's loop.                                *)
SendTag(p) ==
    /\ fan[p] = "send"
    /\ fan' = [fan EXCEPT ![p] = "advance"]
    /\ pending' = IF status[at[p]] = "connected"
                  THEN [pending EXCEPT ![at[p]] =
                           Append(@, TagItem(p, last_flv_tag[p]))]
                  ELSE pending
    /\ UNCHANGED <<rtmp_connection_map, bound, meta, last_flv_tag, prev_size, header_buffer,
                   client_connection_map, fan_prev, ahead, at, status, join, join_to, temp,
                   close_to, requests, out, fault>>

-----------------------------------------------------------------------------
(* The viewer's thread.                                                    *)

(* Send on the viewer's own thread: the item goes out, or the peer turns   *)
(* out to be gone (EPIPE, ECONNRESET) and SendInLoop shuts down; nothing   *)
(* is sent on a connection that is not connected.                          *)
Deliver(v, item) ==
    \/ /\ status[v] = "connected"
       /\ out' = [out EXCEPT ![v] = Append(@, item)]
       /\ UNCHANGED status
    \/ /\ status[v] = "connected"
       /\ status' = [status EXCEPT ![v] = "disconnecting"]
       /\ UNCHANGED out
    \/ /\ status[v] # "connected"
       /\ UNCHANGED <<status, out>>

(* OnClientMessage: the constructor of RtmpClientConnection replaces the   *)
(* connection callback, the new object has no close callback yet.          *)
RequestFound(v, path) ==
    /\ join[v] = "idle" /\ status[v] # "disconnected" /\ requests[v] < MaxRequests
    /\ rtmp_connection_map[path] # NULL
    /\ requests' = [requests EXCEPT ![v] = @ + 1]
    /\ join' = [join EXCEPT ![v] = "insert"]
    /\ join_to' = [join_to EXCEPT ![v] = rtmp_connection_map[path]]
    /\ close_to' = [close_to EXCEPT ![v] = NULL]
    /\ UNCHANGED <<rtmp_connection_map, bound, server_vars, header_buffer,
                   client_connection_map, status, temp, pending, out, fault>>

(* No publisher on that path: Shutdown().                                  *)
RequestNotFound(v, path) ==
    /\ join[v] = "idle" /\ status[v] # "disconnected" /\ requests[v] < MaxRequests
    /\ rtmp_connection_map[path] = NULL
    /\ requests' = [requests EXCEPT ![v] = @ + 1]
    /\ status' = [status EXCEPT ![v] = "disconnecting"]
    /\ UNCHANGED <<rtmp_connection_map, bound, server_vars, header_buffer,
                   client_connection_map, join, join_to, temp, close_to, pending, out, fault>>

(* Mutant: SetCloseConnectionCallback is forgotten.                        *)
InsertWithoutCallback(v) ==
    LET p == join_to[v] IN
    /\ join[v] = "insert"
    /\ client_connection_map' = [client_connection_map EXCEPT ![p] = @ \cup {v}]
    /\ join' = [join EXCEPT ![v] = "check"]
    /\ UNCHANGED <<rtmp_connection_map, bound, server_vars, header_buffer, status, join_to,
                   temp, close_to, requests, pending, out, fault>>

(* AddClientConnection: insert into the publisher's map and set the close  *)
(* callback.  An iteration under way reaches the new entry or does not.    *)
Insert(v) ==
    LET p == join_to[v] IN
    /\ join[v] = "insert"
    /\ client_connection_map' = [client_connection_map EXCEPT ![p] = @ \cup {v}]
    /\ \/ UNCHANGED ahead
       \/ /\ fan[p] \in {"advance", "send"} /\ v \notin client_connection_map[p]
          /\ ahead' = [ahead EXCEPT ![p] = @ \cup {v}]
    /\ close_to' = [close_to EXCEPT ![v] = p]
    /\ join' = [join EXCEPT ![v] = "check"]
    /\ UNCHANGED <<rtmp_connection_map, bound, meta, last_flv_tag, prev_size, header_buffer,
                   fan, fan_prev, at, status, join_to, temp, requests, pending, out, fault>>

(* Mutant: the header is sent only by the viewer that fills the cache.     *)
CheckHeaderCachedNotSent(v) ==
    /\ join[v] = "check"
    /\ join' = [join EXCEPT ![v] =
                   IF header_buffer[join_to[v]] = <<>> THEN "encode" ELSE "mark"]
    /\ UNCHANGED <<rtmp_connection_map, bound, server_vars, header_buffer,
                   client_connection_map, status, join_to, temp, close_to, requests,
                   pending, out, fault>>

(* GetHeaderDataBuffer: header_buffer_.ReadableLength() == 0.              *)
CheckHeader(v) ==
    /\ join[v] = "check"
    /\ join' = [join EXCEPT ![v] =
                   IF header_buffer[join_to[v]] = <<>> THEN "encode" ELSE "header"]
    /\ UNCHANGED <<rtmp_connection_map, bound, server_vars, header_buffer,
                   client_connection_map, status, join_to, temp, close_to, requests,
                   pending, out, fault>>

(* EncodeHeadersToBuffer into a local buffer, one tag at a time: the       *)
(* publisher's thread may be making them.                                  *)
EncodeHeader(v) ==
    LET read == temp[v].read + 1 IN
    /\ join[v] = "encode"
    /\ temp' = [temp EXCEPT ![v] =
                   [read |-> read,
                    found |-> IF meta[join_to[v]] >= read THEN @.found + 1 ELSE @.found]]
    /\ join' = [join EXCEPT ![v] = IF read = HeaderTags THEN "response" ELSE "encode"]
    /\ UNCHANGED <<rtmp_connection_map, bound, server_vars, header_buffer,
                   client_connection_map, status, join_to, close_to, requests,
                   pending, out, fault>>

(* AppendData(response_header), then the chunk with the encoded tags.      *)
AppendHeader(v) ==
    /\ join[v] \in {"response", "body"}
    /\ header_buffer' = [header_buffer EXCEPT ![join_to[v]] =
                            Append(@, IF join[v] = "response" THEN Response ELSE temp[v].found)]
    /\ join' = [join EXCEPT ![v] = IF join[v] = "response" THEN "body" ELSE "header"]
    /\ temp' = [temp EXCEPT ![v] = IF join[v] = "response" THEN @ ELSE NotEncoded]
    /\ UNCHANGED <<rtmp_connection_map, bound, server_vars, client_connection_map, status,
                   join_to, close_to, requests, pending, out, fault>>

(* client_connection_ptr->SendHeader(header_buffer).                       *)
SendHeader(v) ==
    /\ join[v] = "header"
    /\ Deliver(v, HeaderItem(join_to[v]))
    /\ join' = [join EXCEPT ![v] = "mark"]
    /\ UNCHANGED <<rtmp_connection_map, bound, server_vars, header_buffer,
                   client_connection_map, join_to, temp, close_to, requests, pending, fault>>

(* last_flv_tag_ptr_->SetPreviousTagSize(...): the tag is shared with the  *)
(* publisher's thread and with every other viewer that joins now.          *)
MarkLastTag(v) ==
    LET p == join_to[v] IN
    /\ join[v] = "mark" /\ last_flv_tag[p] # 0
    /\ prev_size' = [prev_size EXCEPT ![p] = HeaderTag]
    /\ join' = [join EXCEPT ![v] = "first"]
    /\ UNCHANGED <<rtmp_connection_map, bound, meta, last_flv_tag, header_buffer,
                   client_connection_map, fan, fan_prev, ahead, at, status, join_to, temp,
                   close_to, requests, pending, out, fault>>

(* The same with last_flv_tag_ptr_ still nullptr.                          *)
MarkNullTag(v) ==
    /\ join[v] = "mark" /\ last_flv_tag[join_to[v]] = 0
    /\ fault' = "null_tag"
    /\ UNCHANGED <<rtmp_connection_map, bound, server_vars, header_buffer,
                   client_connection_map, viewer_vars>>

(* AddNewTag(make_shared<FlvTagBuffer>(last_flv_tag_ptr_)): the pointer is *)
(* read again.                                                             *)
SendFirstTag(v) ==
    LET p == join_to[v] IN
    /\ join[v] = "first"
    /\ Deliver(v, TagItem(p, last_flv_tag[p]))
    /\ join' = [join EXCEPT ![v] = "idle"]
    /\ UNCHANGED <<rtmp_connection_map, bound, server_vars, header_buffer,
                   client_connection_map, join_to, temp, close_to, requests, pending, fault>>

(* The last shared_ptr of the viewer's TcpConnection is gone: its handlers *)
(* have returned, TcpServer has erased it, and no RtmpClientConnection of  *)
(* any map holds it.                                                       *)
Destroyed(v) ==
    /\ status[v] = "disconnected" /\ join[v] = "idle"
    /\ \A p \in Publishers : v \notin client_connection_map[p]

(* Mutant: the pending functions are run from the back of the vector.      *)
RunPendingFromBack(v) ==
    /\ join[v] = "idle" /\ pending[v] # <<>>
    /\ ~Destroyed(v)
    /\ Deliver(v, pending[v][Len(pending[v])])
    /\ pending' = [pending EXCEPT ![v] = SubSeq(@, 1, Len(@) - 1)]
    /\ UNCHANGED <<rtmp_connection_map, bound, server_vars, header_buffer,
                   client_connection_map, join, join_to, temp, close_to, requests, fault>>

(* HandlePendingFunc runs SendInLoop on the TcpConnection of a viewer.     *)
RunPending(v) ==
    /\ join[v] = "idle" /\ pending[v] # <<>>
    /\ ~Destroyed(v)
    /\ Deliver(v, Head(pending[v]))
    /\ pending' = [pending EXCEPT ![v] = Tail(@)]
    /\ UNCHANGED <<rtmp_connection_map, bound, server_vars, header_buffer,
                   client_connection_map, join, join_to, temp, close_to, requests, fault>>

(* The same through the pointer of a destroyed TcpConnection: that may     *)
(* take the process, or find "disconnected" in the freed memory.           *)
RunPendingOnDestroyed(v) ==
    /\ join[v] = "idle" /\ pending[v] # <<>>
    /\ Destroyed(v)
    /\ pending' = [pending EXCEPT ![v] = Tail(@)]
    /\ fault' \in {"none", "freed_connection"}
    /\ UNCHANGED <<rtmp_connection_map, bound, server_vars, header_buffer,
                   client_connection_map, status, join, join_to, temp, close_to, requests, out>>

(* OnClose: connection_status_ = DISCONNECTED.                             *)
Close(v) ==
    /\ join[v] = "idle" /\ status[v] # "disconnected"
    /\ status' = [status EXCEPT ![v] = "disconnected"]
    /\ join' = [join EXCEPT ![v] = "leave"]
    /\ UNCHANGED <<rtmp_connection_map, bound, server_vars, header_buffer,
                   client_connection_map, join_to, temp, close_to, requests, pending, out,
                   fault>>

(* The connection callback: the close callback, if there is one, erases    *)
(* the viewer from the map of its publisher.                               *)
OnConnectionClose(v) ==
    LET p == close_to[v] IN
    /\ join[v] = "leave"
    /\ client_connection_map' =
          [q \in Publishers |-> client_connection_map[q] \ (IF q = p THEN {v} ELSE {})]
    /\ ahead' = [q \in Publishers |-> ahead[q] \ (IF q = p THEN {v} ELSE {})]
    /\ join' = [join EXCEPT ![v] = "release"]
    /\ UNCHANGED <<rtmp_connection_map, bound, meta, last_flv_tag, prev_size, header_buffer,
                   fan, fan_prev, at, status, join_to, temp, close_to, requests, pending, out,
                   fault>>

(* OnCloseConnection of TcpServer erases the connection.                   *)
OnCloseConnection(v) ==
    /\ join[v] = "release"
    /\ join' = [join EXCEPT ![v] = "idle"]
    /\ UNCHANGED <<rtmp_connection_map, bound, server_vars, header_buffer,
                   client_connection_map, status, join_to, temp, close_to, requests, pending,
                   out, fault>>

-----------------------------------------------------------------------------
FanOut(p) == MakeTagBuffer(p) \/ Advance(p) \/ SendTag(p) \/ UseStaleIterator(p)

PublisherStep(p) ==
    \/ \E path \in Paths : Bind(p, path)
    \/ ParseHeader(p) \/ NewTag(p)
    \/ FanOut(p)

Join(v) ==
    \/ Insert(v)
    \/ CheckHeader(v) \/ EncodeHeader(v) \/ AppendHeader(v) \/ SendHeader(v)
    \/ MarkLastTag(v) \/ MarkNullTag(v) \/ SendFirstTag(v)

ViewerStep(v) ==
    \/ \E path \in Paths : RequestFound(v, path) \/ RequestNotFound(v, path)
    \/ Join(v)
    \/ RunPending(v) \/ RunPendingOnDestroyed(v)
    \/ Close(v) \/ OnConnectionClose(v) \/ OnCloseConnection(v)

Next ==
    /\ fault = "none"
    /\ \/ \E p \in Publishers : PublisherStep(p)
       \/ \E v \in Viewers : ViewerStep(v)

Spec == Init /\ [][Next]_vars

(* OnNewFlvTag finishes: nothing in it blocks, for a Send from another     *)
(* thread only hands the data over.  A viewer's thread, which sends itself, *)
(* may be held up by its peer, and nothing obliges a publisher to send.    *)
FairSpec == Spec /\ \A p \in Publishers : WF_vars(fault = "none" /\ FanOut(p))

-----------------------------------------------------------------------------
(* RtmpServerConnection.cpp:185-194: the viewer is in the map before its   *)
(* header is sent, so tags are fanned out to it already; still the header  *)
(* is the first thing any viewer receives.                                 *)
HeaderFirst ==
    \A v \in Viewers : out[v] # <<>> => Head(out[v]).kind = "header"

(* What a viewer has received or will receive, in order: the header, the   *)
(* tag sent on joining, and the tags fanned out.                           *)
Stream(v) == out[v] \o pending[v]

(* A viewer is watching p: it made one request, which has been served.     *)
Watching(v, p) ==
    /\ status[v] = "connected" /\ join[v] = "idle" /\ requests[v] = 1
    /\ v \in client_connection_map[p]

(* RtmpServerConnection.cpp:222-245: joining and fan-out overlap freely,   *)
(* yet between the tag sent on joining and the latest one no tag is lost.  *)
NoTagLost ==
    \A v \in Viewers, p \in Publishers :
        Watching(v, p) /\ fan[p] = "idle" =>
            LET tags == {i \in DOMAIN Stream(v) : Stream(v)[i].kind = "tag"} IN
            \E first \in Tags : {Stream(v)[i].no : i \in tags} = first .. last_flv_tag[p]

(* RtmpServerConnection.cpp:236-245: after the tag sent on joining, the    *)
(* tags reach a viewer in the order of the stream, each once.              *)
FanOutInOrder ==
    \A v \in Viewers, p \in Publishers :
        Watching(v, p) =>
            \A i \in 3 .. Len(Stream(v)) - 1 : Stream(v)[i + 1].no = Stream(v)[i].no + 1

(* main.cpp:78-87: all that a viewer receives comes from the publisher its *)
(* path led to, whoever publishes on that path later.                      *)
OneSource ==
    \A v \in Viewers : requests[v] = 1 =>
        \A i \in DOMAIN Stream(v) : Stream(v)[i].from = join_to[v]

(* RtmpClientConnection.cpp:40-50 and RtmpServerConnection.cpp:252-257: a  *)
(* viewer whose connection is closed is in no publisher's map, so that its *)
(* TcpConnection is released.  One that asked twice may be in two maps,    *)
(* and its close callback knows the second.                                *)
ClosedViewerForgotten ==
    \A v \in Viewers :
        status[v] = "disconnected" /\ join[v] = "idle" /\ requests[v] <= 1 => Destroyed(v)

(* The viewer's thread gets on: its sends return.                          *)
GetsOn(v) == WF_vars(fault = "none" /\ (Join(v) \/ RunPending(v)))

(* RtmpServerConnection.cpp:236-245: a tag parsed while a viewer is joined *)
(* reaches it, whatever other viewers do (they may join, leave, or never   *)
(* read), unless its connection or the process goes first.                 *)
TagReachesViewer(v) ==
    GetsOn(v) => \A p \in Publishers, t \in Tags :
        (v \in client_connection_map[p] /\ last_flv_tag[p] = t /\ fan[p] = "tag")
        ~> \/ \E i \in DOMAIN out[v] : out[v][i].kind = "tag" /\ out[v][i].no = t
           \/ status[v] # "connected" \/ fault # "none"

-----------------------------------------------------------------------------
(* What the comments and the documentation say and the code does not do.   *)

(* Channel.cpp:52-55: once a TcpConnection is destroyed no member function *)
(* of it may be used.                                                      *)
NoUseAfterDestruction == fault # "freed_connection"

(* main.cpp:35: a path is associated with a publisher so that viewers can  *)
(* find it, as soon as its handshake has succeeded.                        *)
JoinIsSafeOnceBound == fault # "null_tag"

(* README.md:39: multi-threading is supported.                             *)
IterationIsSafe == fault # "stale_iterator"

(* RtmpClientConnection.h:39: a new viewer is sent the header once.        *)
HeaderSentOnce ==
    \A v \in Viewers : join[v] = "header" =>
        Len(SelectSeq(header_buffer[join_to[v]], LAMBDA part : part = Response)) = 1

(* RtmpClientConnection.h:39: the header contains the metadata.            *)
HeaderHasMetadata ==
    \A v \in Viewers : join[v] = "header" =>
        \A i \in DOMAIN header_buffer[join_to[v]] :
            header_buffer[join_to[v]][i] \in {Response, HeaderTags}

(* RtmpServerConnection.cpp:230: the PreviousTagSize of the first tag      *)
(* after the header is the size of the last tag in the header.             *)
FirstTagFollowsHeader ==
    \A v \in Viewers : join[v] = "first" => prev_size[join_to[v]] = HeaderTag

(* README.md:119: previous_tag_size is the size of the tag before it.      *)
PreviousTagSizes ==
    \A p \in Publishers : fan[p] = "send" => fan_prev[p] = last_flv_tag[p] - 1
=============================================================================
