----------------------------- MODULE Handshake -----------------------------
(***************************************************************************)
(* The handshake of a publisher (RtmpManager::ParseShakeHand and           *)
(* RtmpServerConnection::OnConnectionShakeHand) against the byte stream    *)
(* TCP makes of the client's messages: a read may bring half a message or  *)
(* several.                                                                *)
(*                                                                         *)
(* A message is cut into Pieces units, so that a part of it can be missing. *)
(* The client sends what README.md shows OBS sending.  OBS waits for the   *)
(* answers README.md shows it waiting for; another client may go on        *)
(* without them, also when it was refused, for Shutdown() closes the       *)
(* server's side of the connection only.  The last message stands for the  *)
(* stream the client starts to push.                                       *)
(***************************************************************************)
EXTENDS Integers, Sequences

CONSTANTS Pieces,       (* units in a message                              *)
          CreateForms,  (* the forms of createStream the client may use    *)
          AuthResults   (* results of the authentication callback          *)

ASSUME HandshakeAssumption ==
    /\ Pieces \in Nat /\ Pieces >= 2
    /\ CreateForms \subseteq {"full", "c3"}
    /\ AuthResults \subseteq BOOLEAN

VARIABLES shake_hand_status_,   (* the message ParseShakeHand expects, or  *)
                                (* SHAKE_SUCCESS                           *)
          buffer,               (* recv_buffer_                            *)
          connected,            (* CONNECTED, not DISCONNECTING            *)
          callback,             (* newmessage_callback_                    *)
          success,              (* calls of shake_hand_success_callback_   *)
          pc,                   (* the io thread: in epoll_wait, in the    *)
                                (* loop of ShakeHand, in OnBodyData        *)
          replies,              (* history: messages answered              *)
          body,                 (* history: units OnBodyData was given     *)
          form,                 (* the client's createStream: with a full  *)
                                (* header, or the 26 bytes after 0xc3      *)
          patient,              (* the client waits for answers            *)
          sent,                 (* messages the client has sent            *)
          wire                  (* units on their way to the server        *)

client_vars == <<form, patient>>
vars == <<shake_hand_status_, buffer, connected, callback, success, pc, replies,
          body, client_vars, sent, wire>>

C01 == 1
C2 == 2
SetChunkSize == 3
Connect == 4
ReleaseStream == 5
FCPublish == 6
CreateStream == 7
Publish == 8
Stream == 9
SHAKE_SUCCESS == 9

Messages == C01 .. Stream
Answered == {C01, C2, Connect, CreateStream, Publish}
Unit == Messages \X (1 .. Pieces)

(* The units of the messages m to n.                                       *)
Units(m, n) ==
    [i \in 1 .. Pieces * (n - m + 1) |-> <<m + (i - 1) \div Pieces, 1 + ((i - 1) % Pieces)>>]

TypeOK ==
    /\ shake_hand_status_ \in C01 .. SHAKE_SUCCESS
    /\ buffer \in Seq(Unit) /\ wire \in Seq(Unit) /\ body \in Seq(Unit)
    /\ connected \in BOOLEAN
    /\ callback \in {"shake", "body"}
    /\ success \in 0 .. 1
    /\ pc \in {"wait", "shake", "body"}
    /\ replies \in Seq(Answered)
    /\ form \in CreateForms /\ patient \in BOOLEAN
    /\ sent \in 0 .. Stream

Init ==
    /\ shake_hand_status_ = C01
    /\ buffer = <<>> /\ wire = <<>> /\ body = <<>>
    /\ connected = TRUE /\ callback = "shake" /\ success = 0
    /\ pc = "wait" /\ replies = <<>> /\ sent = 0
    /\ form \in CreateForms /\ patient \in BOOLEAN

-----------------------------------------------------------------------------
(* The client.                                                             *)

(* The answer README.md shows OBS waiting for before it sends m.           *)
WaitsFor(m) ==
    CASE m = C01 -> {}
      [] m = C2 -> {C01}
      [] m \in {SetChunkSize, Connect} -> {C2}
      [] m \in {ReleaseStream, FCPublish, CreateStream} -> {Connect}
      [] m = Publish -> {CreateStream}
      [] m = Stream -> {Publish}

ClientSends ==
    /\ sent < Stream
    /\ patient => \A m \in WaitsFor(sent + 1) : \E i \in DOMAIN replies : replies[i] = m
    /\ sent' = sent + 1
    /\ wire' = wire \o Units(sent + 1, sent + 1)
    /\ UNCHANGED <<shake_hand_status_, buffer, connected, callback, success, pc, replies, body,
                   client_vars>>

-----------------------------------------------------------------------------
(* The io thread.                                                          *)

(* OnReadable: n units are read, and newmessage_callback_ is called.       *)
Read(n) ==
    /\ pc = "wait"
    /\ buffer' = buffer \o SubSeq(wire, 1, n)
    /\ wire' = SubSeq(wire, n + 1, Len(wire))
    /\ pc' = callback
    /\ UNCHANGED <<shake_hand_status_, connected, callback, success, replies, body, client_vars, sent>>

(* What ParseShakeHand may make of the front of the buffer: the units it   *)
(* takes, 0 if there are too few.  The 0xc3 form is skipped by its length, *)
(* which AddReadIndex cuts down to what there is.  A front in the middle   *)
(* of a message is taken for whatever its bytes look like.                 *)
Parsed ==
    LET m == shake_hand_status_ IN
    CASE buffer = <<>> -> {0}
      [] buffer # <<>> /\ Head(buffer) # <<m, 1>> -> 0 .. Len(buffer)
      [] buffer # <<>> /\ Head(buffer) = <<m, 1>> ->
            {IF Len(buffer) >= Pieces THEN Pieces
             ELSE IF m = CreateStream /\ form = "c3" THEN Len(buffer) ELSE 0}

Consume(n) ==
    /\ buffer' = SubSeq(buffer, n + 1, Len(buffer))
    /\ shake_hand_status_' = shake_hand_status_ + 1

Shaking == pc = "shake" /\ shake_hand_status_ <= Publish

(* Mutant: a message is consumed as soon as there is a part of it.         *)
ParseMessageInPart ==
    /\ Shaking /\ shake_hand_status_ # ReleaseStream /\ buffer # <<>>
    /\ Consume(IF Len(buffer) >= Pieces THEN Pieces ELSE Len(buffer))
    /\ replies' = IF shake_hand_status_ \in Answered /\ connected
                  THEN Append(replies, shake_hand_status_) ELSE replies
    /\ UNCHANGED <<connected, callback, success, pc, body, client_vars, sent, wire>>

(* Mutant: the answer to createStream is sent after FCPublish.             *)
ParseMessageAnswersFCPublish ==
    /\ Shaking /\ shake_hand_status_ # ReleaseStream
    /\ \E n \in Parsed \ {0} : Consume(n)
    /\ replies' = IF shake_hand_status_ \in (Answered \ {CreateStream}) /\ connected
                  THEN Append(replies, shake_hand_status_)
                  ELSE IF shake_hand_status_ = FCPublish /\ connected
                  THEN Append(replies, CreateStream) ELSE replies
    /\ UNCHANGED <<connected, callback, success, pc, body, client_vars, sent, wire>>

(* Mutant: the answer to connect is missing.                               *)
ParseMessageNoConnectResult ==
    /\ Shaking /\ shake_hand_status_ # ReleaseStream
    /\ \E n \in Parsed \ {0} : Consume(n)
    /\ replies' = IF shake_hand_status_ \in (Answered \ {Connect}) /\ connected
                  THEN Append(replies, shake_hand_status_) ELSE replies
    /\ UNCHANGED <<connected, callback, success, pc, body, client_vars, sent, wire>>

(* A message is complete: it is answered, if Send() still sends, and the   *)
(* loop goes on.                                                           *)
ParseMessage ==
    /\ Shaking /\ shake_hand_status_ # ReleaseStream
    /\ \E n \in Parsed \ {0} : Consume(n)
    /\ replies' = IF shake_hand_status_ \in Answered /\ connected
                  THEN Append(replies, shake_hand_status_) ELSE replies
    /\ UNCHANGED <<connected, callback, success, pc, body, client_vars, sent, wire>>

(* Mutant: the callback is replaced on authentication.                     *)
AuthenticateToBody ==
    /\ Shaking /\ shake_hand_status_ = ReleaseStream
    /\ \E n \in Parsed \ {0} : Consume(n)
    /\ \E ok \in AuthResults : connected' = (connected /\ ok)
    /\ callback' = "body" /\ pc' = "wait"
    /\ UNCHANGED <<success, replies, body, client_vars, sent, wire>>

(* releaseStream is complete: ShakeHand returns SHAKE_AUTHENTICATE and     *)
(* OnConnectionShakeHand returns, whatever else the buffer holds.  A       *)
(* client that is refused gets no more answers; what it sends is still     *)
(* read and parsed.                                                        *)
Authenticate ==
    /\ Shaking /\ shake_hand_status_ = ReleaseStream
    /\ \E n \in Parsed \ {0} : Consume(n)
    /\ \E ok \in AuthResults : connected' = (connected /\ ok)
    /\ pc' = "wait"
    /\ UNCHANGED <<callback, success, replies, body, client_vars, sent, wire>>

(* SHAKE_DATA_NOT_ENOUGH.                                                  *)
DataNotEnough ==
    /\ Shaking /\ 0 \in Parsed
    /\ pc' = "wait"
    /\ UNCHANGED <<shake_hand_status_, buffer, connected, callback, success, replies, body,
                   client_vars, sent, wire>>

(* The path is bound and the stream handed to OnBodyData from now on.      *)
ShakeSuccess ==
    /\ pc = "shake" /\ shake_hand_status_ = SHAKE_SUCCESS
    /\ success' = success + 1
    /\ callback' = "body"
    /\ pc' = "wait"
    /\ UNCHANGED <<shake_hand_status_, buffer, connected, replies, body, client_vars, sent, wire>>

(* RtmpChunk says what becomes of the stream.                              *)
OnBodyData ==
    /\ pc = "body"
    /\ body' = body \o buffer /\ buffer' = <<>>
    /\ pc' = "wait"
    /\ UNCHANGED <<shake_hand_status_, connected, callback, success, replies, client_vars, sent, wire>>

Reads == \E n \in 1 .. Len(wire) : Read(n)

Handle ==
    \/ ParseMessage \/ Authenticate \/ DataNotEnough
    \/ ShakeSuccess \/ OnBodyData

Next == ClientSends \/ Reads \/ Handle

Spec == Init /\ [][Next]_vars

(* The client goes on, TCP delivers and the io thread is scheduled.        *)
FairSpec == Spec /\ WF_vars(ClientSends) /\ WF_vars(Reads) /\ WF_vars(Handle)

-----------------------------------------------------------------------------
(* The parser may be in the middle of a message: a createStream of the     *)
(* 0xc3 form has been skipped, in whole or in part.                        *)
Skipped == form = "c3" /\ shake_hand_status_ > CreateStream

(* RtmpManager.cpp:332-487: however TCP cuts the stream, the messages are  *)
(* told apart where the client ended them, up to a createStream of the     *)
(* 0xc3 form: what is not consumed begins with the message expected next,  *)
(* and no byte is skipped or read twice.                                   *)
InStep ==
    ~Skipped => body \o buffer \o wire = Units(shake_hand_status_, sent)

Answers == <<C01, C2, Connect, CreateStream, Publish>>

(* RtmpServerConnection.cpp:21-75: every message that has an answer gets   *)
(* it, once and in order, until the connection is shut down.               *)
RepliesInOrder ==
    /\ Len(replies) <= Len(Answers)
    /\ \A i \in DOMAIN replies : replies[i] = Answers[i]
    /\ connected => \A m \in Answered :
          (m < shake_hand_status_) <=> (\E i \in DOMAIN replies : replies[i] = m)

(* RtmpServerConnection.cpp:144-158: OnBodyData is given only data of a    *)
(* publisher whose path is bound and, if no createStream was skipped,      *)
(* nothing but its stream, whether or not the client waits for answers.    *)
BodyOnlyWhenBound ==
    /\ body # <<>> => success = 1
    /\ ~Skipped => \A i \in DOMAIN body : body[i][1] = Stream

Completed == ~connected \/ (body # <<>> /\ body[Len(body)] = <<Stream, Pieces>>)

(* Bytes the server has been handed and does not look at.                  *)
LeftUnparsed == pc = "wait" /\ Len(buffer) >= Pieces

(* RtmpServerConnection.cpp:120-175: the client is refused or hands over   *)
(* its stream, unless the server sits on a message it has been handed.  A  *)
(* client that does not wait must not use the 0xc3 form: with a part of it *)
(* skipped, the rest makes the parser take the stream for messages.        *)
CompletesOrSitsOnMessage ==
    patient \/ form = "full" => <>Completed \/ <>[]LeftUnparsed

-----------------------------------------------------------------------------
(* What the documentation says and the code does not do: TLC refutes these. *)

(* RtmpServerConnection.cpp:127-136, README.md:37: a client that fails     *)
(* authentication is shut down and publishes nothing.                      *)
RefusedNotBound == ~connected => success = 0

(* README.md:169-185: after createStream the client is answered, publishes *)
(* and the connection is ready for its stream, unless it was refused.      *)
HandshakeCompletes == patient => <>Completed
=============================================================================
