----------------------------- MODULE RtmpChunk -----------------------------
(***************************************************************************)
(* RtmpManager::ParseData: how the stream of a publisher, cut by the       *)
(* client into chunks and by TCP into reads, becomes tags again.           *)
(*                                                                         *)
(* The stream starts with the script and the first audio and video         *)
(* messages, which ParseFirstHeader takes at once.  A message after them   *)
(* is a header and a body with a one-byte header of format 3 between any   *)
(* two chunks of it.  Formats 0 and 1 carry the difference of timestamps,  *)
(* the size and the type, format 2 the difference alone, format 3 nothing: *)
(* what is left out is that of the header before.                          *)
(*                                                                         *)
(* Bytes are scaled down to units, with a header of HeaderLength[f] of     *)
(* them, and the numbers written as bytes to digits of a base Base.        *)
(***************************************************************************)
EXTENDS Integers, Sequences, FiniteSets

CONSTANTS Chunk,        (* RTMP_CHUNK_SIZE                                 *)
          Capacity,     (* units recv_buffer_ can hold                     *)
          HeaderLength, (* of the formats "fmt0" to "fmt3"                 *)
          TagHeader,    (* FLV_TAG_HEADER_LENGTH - 4                       *)
          Base,         (* 256, the values of a byte                       *)
          FirstLength,  (* length of the three messages of the first header *)
          StartLength,  (* RTMP_START_PARSE_LENGTH                         *)
          Sizes,        (* body sizes of the messages that follow          *)
          Deltas,       (* their timestamps less those before them         *)
          MaxMessages   (* bound: messages after the first header          *)

Formats == {"fmt0", "fmt1", "fmt2", "fmt3"}

(* How many numbers k digits can write; k is at most 4.                    *)
Power(k) ==
    CASE k = 0 -> 1 [] k = 1 -> Base [] k = 2 -> Base * Base
      [] k = 3 -> Base * Base * Base [] k = 4 -> Base * Base * Base * Base

ASSUME ChunkAssumption ==
    /\ {Chunk, Capacity, TagHeader, FirstLength, StartLength} \subseteq Nat \ {0}
    /\ Base \in Nat \ {0, 1}
    /\ Capacity <= Chunk
    /\ HeaderLength \in [Formats -> 1 .. Capacity - 1] /\ HeaderLength["fmt3"] = 1
    /\ FirstLength <= StartLength /\ StartLength <= Capacity
    /\ Sizes \subseteq 1 .. Power(3) - 1 /\ Deltas \subseteq 0 .. Power(3) - 1
    /\ MaxMessages \in Nat

VARIABLES parsed_status_,
          pack,             (* current_rtmp_pack_: timestamp_, data_size_, *)
                            (* av (audio or video), got (its buffer_)      *)
          timestamp_,       (* of rtmp_codec_, the sum of the differences  *)
          read_chunk_size_,
          first,            (* what flv_manager_ was given as header tags  *)
          tags,             (* history: tags given to new_flv_tag_callback_ *)
          parsed,           (* history: messages parsed to their end       *)
          buffer,           (* recv_buffer_                                *)
          pc,               (* the io thread: in epoll_wait or in ParseData *)
          due,              (* history: messages complete before the last read *)
          messages,         (* messages the client has sent                *)
          wire              (* units on their way to the server            *)

parser_vars == <<parsed_status_, pack, timestamp_, read_chunk_size_, first, tags, parsed, buffer>>
client_vars == <<messages, wire>>
vars == <<parser_vars, pc, due, client_vars>>

Message == [size : Sizes, av : BOOLEAN, time : Nat]
Unit == [kind : {"first", "body"} \cup Formats, of : 0 .. MaxMessages, at : Nat]

(* The digits of n from the most to the least significant, as RTMP and FLV *)
(* write sizes and timestamps.                                             *)
Digits(n, k) == [i \in 1 .. k |-> (n \div Power(k - i)) % Base]
Digit == 0 .. Base - 1

(* GetBodyDataSize, AddTimeStamp: the number three bytes stand for.        *)
Number(d) == d[1] * Power(2) + d[2] * Base + d[3]

(* What is kept of a chunk header, and the body so far.                    *)
Pack == [timestamp_ : [1 .. 3 -> Digit], data_size_ : [1 .. 3 -> Digit],
         av : BOOLEAN, got : Seq(Unit)]

Tag == [body : Seq(Unit), data_size : [1 .. 3 -> Digit], timestamp : [1 .. 3 -> Digit],
        previous_tag_size : [1 .. 4 -> Digit]]

FirstUnits == [i \in 1 .. FirstLength |-> [kind |-> "first", of |-> 0, at |-> i]]
HeadUnits(m, format) ==
    [i \in 1 .. HeaderLength[format] |-> [kind |-> format, of |-> m, at |-> i]]
BodyUnits(m, size) == [i \in 1 .. size |-> [kind |-> "body", of |-> m, at |-> i]]

(* The body as the client sends it: after every Chunk units of it, if it   *)
(* does not end there, a header of format 3.                               *)
ChunkedBody(m, size) ==
    [i \in 1 .. size + (size - 1) \div Chunk |->
        IF i % (Chunk + 1) = 0 THEN [kind |-> "fmt3", of |-> m, at |-> 1]
        ELSE [kind |-> "body", of |-> m, at |-> i - i \div (Chunk + 1)]]

TypeOK ==
    /\ parsed_status_ \in {"first_header", "header", "body"}
    /\ pack \in Pack
    /\ Len(pack.got) <= Number(pack.data_size_)
    /\ timestamp_ \in 0 .. Power(4) - 1
    /\ read_chunk_size_ \in 0 .. Chunk - 1
    /\ first \in {<<>>, FirstUnits}
    /\ tags \in Seq(Tag)
    /\ parsed \in 0 .. MaxMessages /\ due \in 0 .. MaxMessages
    /\ buffer \in Seq(Unit) /\ wire \in Seq(Unit)
    /\ pc \in {"wait", "parse"}
    /\ messages \in Seq(Message)

Init ==
    /\ parsed_status_ = "first_header"
    /\ pack = [timestamp_ |-> <<0, 0, 0>>, data_size_ |-> <<0, 0, 0>>, av |-> FALSE, got |-> <<>>]
    /\ read_chunk_size_ = 0 /\ timestamp_ = 0
    /\ first = <<>> /\ tags = <<>> /\ parsed = 0 /\ due = 0
    /\ buffer = <<>> /\ pc = "wait"
    /\ messages = <<>> /\ wire = FirstUnits

-----------------------------------------------------------------------------
(* The client.                                                             *)

Time(m) == IF m = 0 THEN 0 ELSE messages[m].time
Delta(m) == messages[m].time - Time(m - 1)

(* What a header may leave out, and that it has format 0, which would      *)
(* carry the time itself, only while that is 0.                            *)
MaySend(size, av, delta, format) ==
    LET m == Len(messages) IN
    /\ format = "fmt0" => Time(m) + delta = 0
    /\ format \in {"fmt2", "fmt3"} => m > 0 /\ messages[m].size = size /\ messages[m].av = av
    /\ format = "fmt3" => Delta(m) = delta

ClientSends(size, av, delta, format) ==
    LET m == Len(messages) + 1 IN
    /\ m <= MaxMessages /\ MaySend(size, av, delta, format)
    /\ messages' = Append(messages, [size |-> size, av |-> av, time |-> Time(m - 1) + delta])
    /\ wire' = wire \o HeadUnits(m, format) \o ChunkedBody(m, size)
    /\ UNCHANGED <<parser_vars, pc, due>>

-----------------------------------------------------------------------------
(* The io thread.                                                          *)

(* Messages whose last unit has been received.                             *)
Complete ==
    IF wire = <<>> THEN Len(messages)
    ELSE IF Head(wire).of = 0 THEN 0 ELSE Head(wire).of - 1

(* ReadFromSockfd takes what there is, as far as the buffer has room.      *)
Read(n) ==
    /\ pc = "wait"
    /\ n <= Capacity - Len(buffer)
    /\ due' = Complete
    /\ buffer' = buffer \o SubSeq(wire, 1, n)
    /\ wire' = SubSeq(wire, n + 1, Len(wire))
    /\ pc' = "parse"
    /\ UNCHANGED <<parsed_status_, pack, timestamp_, read_chunk_size_, first, tags, parsed, messages>>

(* The first n units of the buffer are consumed.                           *)
Front(n) == SubSeq(buffer, 1, n)
Drop(n) == buffer' = SubSeq(buffer, n + 1, Len(buffer))

FirstHeaderShort ==
    /\ pc = "parse" /\ parsed_status_ = "first_header"
    /\ Len(buffer) < StartLength
    /\ pc' = "wait"
    /\ UNCHANGED <<parser_vars, due, client_vars>>

ParseFirstHeader ==
    /\ pc = "parse" /\ parsed_status_ = "first_header"
    /\ Len(buffer) >= StartLength
    /\ first' = Front(FirstLength) /\ Drop(FirstLength)
    /\ parsed_status_' = "header"
    /\ UNCHANGED <<pack, read_chunk_size_, timestamp_, tags, parsed, pc, due, client_vars>>

(* Mutant: a header counts only with the chunk that follows it.            *)
DecodeHeaderAndChunk ==
    IF buffer = <<>> \/ Head(buffer).kind \notin Formats THEN 0
    ELSE LET n == HeaderLength[Head(buffer).kind] IN
         IF n = 1 \/ Len(buffer) >= n + Chunk THEN n ELSE 0

(* What DecodeHeader returns: 0 if the header is not all there.            *)
DecodeHeader ==
    IF buffer = <<>> \/ Head(buffer).kind \notin Formats THEN 0
    ELSE LET n == HeaderLength[Head(buffer).kind] IN
         IF Len(buffer) >= n THEN n ELSE 0

HeaderShort ==
    /\ pc = "parse" /\ parsed_status_ = "header"
    /\ DecodeHeader = 0
    /\ pc' = "wait"
    /\ UNCHANGED <<parser_vars, due, client_vars>>

(* DecodeFmt0 to DecodeFmt2: what the header carries replaces what the     *)
(* pack has kept of the one before.                                        *)
Decoded(unit) ==
    LET message == messages[unit.of] IN
    [pack EXCEPT !.timestamp_ = IF unit.kind = "fmt3" THEN @ ELSE Digits(Delta(unit.of), 3),
                 !.data_size_ = IF unit.kind \in {"fmt0", "fmt1"} THEN Digits(message.size, 3) ELSE @,
                 !.av = IF unit.kind \in {"fmt0", "fmt1"} THEN message.av ELSE @]

(* Mutant: ParseData returns after a header, as it does after a chunk.     *)
ParseHeaderReturns ==
    /\ pc = "parse" /\ parsed_status_ = "header"
    /\ DecodeHeader > 0
    /\ pack' = Decoded(Head(buffer)) /\ Drop(DecodeHeader)
    /\ parsed_status_' = "body"
    /\ pc' = "wait"
    /\ UNCHANGED <<timestamp_, read_chunk_size_, first, tags, parsed, due, client_vars>>

ParseHeader ==
    /\ pc = "parse" /\ parsed_status_ = "header"
    /\ DecodeHeader > 0
    /\ pack' = Decoded(Head(buffer)) /\ Drop(DecodeHeader)
    /\ parsed_status_' = "body"
    /\ UNCHANGED <<timestamp_, read_chunk_size_, first, tags, parsed, pc, due, client_vars>>

Remain == Number(pack.data_size_) - Len(pack.got)

(* Mutant: what is left fits into a chunk, wherever the current one began. *)
ChunkOverByRemain == Remain <= Chunk

(* No other chunk of this message follows the one being received.          *)
chunk_over_ == Remain <= Chunk /\ read_chunk_size_ = 0

InBody == pc = "parse" /\ parsed_status_ = "body"
Take(n) == pack' = [pack EXCEPT !.got = @ \o Front(n)] /\ Drop(n)

(* The end of the message has not come yet.                                *)
BodyShort ==
    /\ InBody /\ chunk_over_ /\ Len(buffer) < Remain
    /\ Take(Len(buffer))
    /\ pc' = "wait"
    /\ UNCHANGED <<parsed_status_, read_chunk_size_, timestamp_, first, tags, parsed, due, client_vars>>

(* AddTimeStamp, on an unsigned of four bytes.                             *)
AddTimeStamp(t) == (timestamp_ + Number(t)) % Power(4)

(* Mutant: the bytes of the sum in the order they have in memory.          *)
TimeStampAsStored(t) == [i \in 1 .. 3 |-> (t \div Power(i - 1)) % Base]

(* The three low bytes of the sum, ts_[2], ts_[1] and ts_[0].              *)
TimeStamp(t) == [i \in 1 .. 3 |-> (t \div Power(3 - i)) % Base]

(* The size of a tag without the four bytes of its previous_tag_size.      *)
CurrentTagSize(tag) == TagHeader + Number(tag.data_size)

(* SetPreviousTagSize; last_flv_ptr_ is the tag that was given away last.  *)
PreviousTagSize ==
    Digits(IF tags = <<>> THEN 0 ELSE CurrentTagSize(tags[Len(tags)]), 4)

(* EncodeHeaderToFlvTag and SwapBuffer, with t the sum of timestamps.      *)
EncodeTag(body, t) ==
    [body |-> body, data_size |-> pack.data_size_, timestamp |-> TimeStamp(t),
     previous_tag_size |-> PreviousTagSize]

(* It has: EncodeHeaderAndSwapBuffer and ProcessNewFlvTag, and the loop of *)
(* ParseData goes on.                                                      *)
BodyComplete ==
    /\ InBody /\ chunk_over_ /\ Len(buffer) >= Remain
    /\ pack' = [pack EXCEPT !.got = <<>>] /\ Drop(Remain)
    /\ timestamp_' = AddTimeStamp(pack.timestamp_)
    /\ tags' = IF pack.av
               THEN Append(tags, EncodeTag(pack.got \o Front(Remain), timestamp_'))
               ELSE tags
    /\ parsed' = parsed + 1
    /\ parsed_status_' = "header"
    /\ UNCHANGED <<read_chunk_size_, first, pc, due, client_vars>>

(* The end of this chunk has not come yet.                                 *)
ChunkShort ==
    /\ InBody /\ ~chunk_over_ /\ Len(buffer) < Chunk - read_chunk_size_
    /\ Take(Len(buffer))
    /\ read_chunk_size_' = read_chunk_size_ + Len(buffer)
    /\ pc' = "wait"
    /\ UNCHANGED <<parsed_status_, timestamp_, first, tags, parsed, due, client_vars>>

(* It has: ParseBody returns 0, and that ends the loop of ParseData with   *)
(* the next header still in the buffer.                                    *)
ChunkComplete ==
    /\ InBody /\ ~chunk_over_ /\ Len(buffer) >= Chunk - read_chunk_size_
    /\ Take(Chunk - read_chunk_size_)
    /\ read_chunk_size_' = 0
    /\ parsed_status_' = "header"
    /\ pc' = "wait"
    /\ UNCHANGED <<timestamp_, first, tags, parsed, due, client_vars>>

ParseData ==
    \/ FirstHeaderShort \/ ParseFirstHeader
    \/ HeaderShort \/ ParseHeader
    \/ BodyShort \/ BodyComplete \/ ChunkShort \/ ChunkComplete

Reads == \E n \in 1 .. Len(wire) : Read(n)

Next ==
    \/ \E size \in Sizes, av \in BOOLEAN, delta \in Deltas, format \in Formats :
          ClientSends(size, av, delta, format)
    \/ Reads
    \/ ParseData

Spec == Init /\ [][Next]_vars

(* TCP delivers what was sent, and the io thread is scheduled.             *)
FairSpec == Spec /\ WF_vars(Reads) /\ WF_vars(ParseData)

-----------------------------------------------------------------------------
(* The audio and video messages up to m, and the tag that m becomes.       *)
AudioVideo(m) == {n \in 1 .. m : messages[n].av}
TagNo(m) == Cardinality(AudioVideo(m))

(* RtmpManager.cpp:24-96, 242-309: whatever the sizes and wherever TCP     *)
(* cuts the stream, the tags are the client's messages in order, whole,    *)
(* and with none of the chunk headers left in them.                        *)
TagsAreMessages ==
    /\ Len(tags) = TagNo(parsed)
    /\ \A m \in AudioVideo(parsed) :
          tags[TagNo(m)].body = BodyUnits(m, messages[m].size)

(* RtmpCodec.cpp:20-53, 102-157, RtmpManager.cpp:311-330: each tag has the *)
(* size of its message, the time of it, which is the sum of the differences*)
(* of all messages up to it, those without a tag included, modulo three    *)
(* bytes, and the size of the tag before it, as long as that really is.    *)
TagHeaders ==
    \A m \in AudioVideo(parsed) :
        LET tag == tags[TagNo(m)] IN
        /\ tag.data_size = Digits(messages[m].size, 3)
        /\ tag.timestamp = Digits(messages[m].time % Power(3), 3)
        /\ tag.previous_tag_size =
              Digits(IF TagNo(m) = 1 THEN 0 ELSE TagHeader + Len(tags[TagNo(m) - 1].body), 4)

(* Buffer.cpp:111-121 and TcpConnection.cpp:53-66: a read into a full      *)
(* buffer returns 0 and would be taken for the end of the connection;      *)
(* ParseData never leaves it full.                                         *)
ReadHasRoom == pc = "wait" => Len(buffer) < Capacity

(* RtmpManager.cpp:303-307: ParseData leaves complete messages in the      *)
(* buffer when a chunk ends, but no longer than until the next read, once  *)
(* it has taken the first header, for which it waits (123-131).            *)
DeliveredByNextRead == pc = "wait" /\ parsed_status_ # "first_header" => parsed >= due

(* RtmpManager.cpp:307: after a chunk that does not end its message the    *)
(* next header is to be parsed on; so every message sent is delivered.     *)
EveryMessageParsed == \A m \in 1 .. MaxMessages : Len(messages) >= m ~> parsed >= m
=============================================================================
