--------------------------- MODULE WireConnection ---------------------------
(***************************************************************************)
(* The bytes of one connection of the gateway: what a client sends goes    *)
(* through recv, in pieces of any size, to ClientStreamParser::feed        *)
(* (src/src/wire_protocol.cpp); the engine's answers go through            *)
(* to_wire_response, encode_server_frame and ConnectionOutputBuffer        *)
(* (src/src/connection.hpp) to send, which takes any number of them.       *)
(*                                                                         *)
(* feed is a step per iteration of its loops; while it runs, the gateway   *)
(* does nothing else.  Admission, pausing and the order of the answers     *)
(* belong to Exchange: here a request is answered some time after feed     *)
(* returned it, and the answers come in the order of the requests.         *)
(***************************************************************************)
EXTENDS WireCodec

CONSTANTS
    Streams,          \* the streams of frames a client may send
    InputLimits,      \* values of maximum_input_buffer_bytes
    OutputLimits,     \* values of maximum_output_buffer_bytes
    ReceiveSizes,     \* bound: how many bytes one recv returns
    SendSizes         \* bound: how many bytes one send takes

ASSUME WireAssumption ==
    /\ InputLimits \subseteq {n \in Nat : n >= kWireFrameHeaderSize + expected_payload_length(CancelOrder)}
    /\ OutputLimits \subseteq Nat \ {0}
    /\ ReceiveSizes \subseteq Nat \ {0}
    /\ SendSizes \subseteq Nat \ {0}

VARIABLES
    \* ClientStreamParser
    buffer_, read_cursor_, maximum_buffered_bytes_, failure_,
    \* the feed in progress: where it is, its argument, how much it has taken
    at, bytes, consumed,
    \* ConnectionOutputBuffer, and the connection's flags
    bytes_, offset_, maximum_output_buffer_bytes, closing, open,
    \* the client's stream, how much of it was received
    stream, received,
    \* history: requests parsed, their answers, the frames queued, the bytes
    \* sent, and what would have been pending with a response that was refused
    messages, responses, queued, sent, refused

parser_vars == <<buffer_, read_cursor_, failure_>>
feed_vars == <<at, bytes, consumed>>
output_vars == <<bytes_, offset_, queued, sent, refused>>
config_vars == <<maximum_buffered_bytes_, maximum_output_buffer_bytes, stream>>
vars == <<parser_vars, feed_vars, output_vars, config_vars, closing, open, received,
          messages, responses>>

Init ==
    /\ stream \in Streams
    /\ maximum_buffered_bytes_ \in InputLimits /\ maximum_output_buffer_bytes \in OutputLimits
    /\ buffer_ = <<>> /\ read_cursor_ = 0 /\ failure_ = "None"
    /\ at = "recv" /\ bytes = <<>> /\ consumed = 0
    /\ bytes_ = <<>> /\ offset_ = 0 /\ closing = FALSE /\ open = TRUE
    /\ received = 0 /\ messages = <<>> /\ responses = <<>>
    /\ queued = <<>> /\ sent = <<>> /\ refused = {}

-----------------------------------------------------------------------------
(* Input *)

\* receive_from: recv returns bytes, which go to feed.
receive_from(size) ==
    /\ at = "recv" /\ open /\ ~closing /\ received < End(stream, Len(stream))
    /\ LET n == Min({received + size, End(stream, Len(stream))}) IN
       /\ bytes' = SubSeq(Bytes(stream), received + 1, n)
       /\ received' = n
    /\ consumed' = 0 /\ at' = IF failure_ = "None" THEN "process" ELSE "return"
    /\ UNCHANGED <<parser_vars, output_vars, config_vars, closing, open, messages, responses>>

\* receive_from: the stream ends, where the client likes, or recv fails.
EndOfStream ==
    /\ at = "recv" /\ open /\ ~closing /\ closing' = TRUE
    /\ UNCHANGED <<parser_vars, feed_vars, output_vars, config_vars, open, received, messages,
                   responses>>

\* An iteration of process_available.
process_available ==
    /\ at = "process"
    /\ IF read_cursor_ = Len(buffer_)
       THEN at' = "feed" /\ UNCHANGED <<read_cursor_, failure_, messages>>
       ELSE LET decoded == decode_client_frame_prefix(
                               stream, SubSeq(buffer_, read_cursor_ + 1, Len(buffer_)))
            IN
            \/ /\ decoded.error = "None"
               /\ messages' = Append(messages, decoded.envelope)
               /\ read_cursor_' = read_cursor_ + decoded.bytes_consumed
               /\ UNCHANGED <<at, failure_>>
            \/ /\ decoded.error = "TruncatedInput"
               /\ at' = "feed" /\ UNCHANGED <<read_cursor_, failure_, messages>>
            \/ /\ decoded.error \notin {"None", "TruncatedInput"}
               /\ failure_' = decoded.error
               /\ at' = "return" /\ UNCHANGED <<read_cursor_, messages>>
    /\ UNCHANGED <<buffer_, bytes, consumed, output_vars, config_vars, closing, open, received,
                   responses>>

\* compact_if_needed moves the unread bytes to the front of the buffer.
Compacts ==
    /\ read_cursor_ > 0
    /\ \/ read_cursor_ = Len(buffer_)
       \/ read_cursor_ >= Len(buffer_) \div 2
       \/ Len(buffer_) = maximum_buffered_bytes_

\* The buffer once compact_if_needed has run.
Compacted ==
    IF Compacts
    THEN [buffer |-> SubSeq(buffer_, read_cursor_ + 1, Len(buffer_)), cursor |-> 0]
    ELSE [buffer |-> buffer_, cursor |-> read_cursor_]

Unread == Len(buffer_) - read_cursor_

\* Variants with a mistake end in the name of the mistake; each is what the run
\* must tell from the definition that follows it.
RoomOfEmptyBuffer == maximum_buffered_bytes_

\* How many bytes feed may append.
Room == maximum_buffered_bytes_ - Unread

AtLimitNever == FALSE

\* An incomplete frame fills the buffer.
AtLimit == Unread = maximum_buffered_bytes_

\* An iteration of the loop of feed, or its end.
feed ==
    /\ at = "feed"
    /\ read_cursor_' = Compacted.cursor
    /\ \/ /\ consumed < Len(bytes) /\ AtLimit
          /\ failure_' = "BufferLimitExceeded" /\ buffer_' = Compacted.buffer
          /\ at' = "return" /\ UNCHANGED consumed
       \/ /\ consumed < Len(bytes) /\ ~AtLimit
          /\ LET append_count == Min({Room, Len(bytes) - consumed}) IN
             /\ buffer_' = Compacted.buffer \o SubSeq(bytes, consumed + 1, consumed + append_count)
             /\ consumed' = consumed + append_count
          /\ at' = "process" /\ UNCHANGED failure_
       \/ /\ consumed = Len(bytes)
          /\ buffer_' = Compacted.buffer
          /\ at' = "return" /\ UNCHANGED <<consumed, failure_>>
    /\ UNCHANGED <<bytes, output_vars, config_vars, closing, open, received, messages, responses>>

\* receive_from, once feed has returned.
Fed ==
    /\ at = "return" /\ at' = "recv" /\ bytes' = <<>> /\ consumed' = 0
    /\ closing' = (failure_ # "None")
    /\ UNCHANGED <<parser_vars, output_vars, config_vars, open, received, messages, responses>>

-----------------------------------------------------------------------------
(* Output *)

pending_size == Len(bytes_) - offset_

\* ConnectionOutputBuffer::append: compact, then insert.
Appended(frame) ==
    /\ bytes_' = SubSeq(bytes_, offset_ + 1, Len(bytes_)) \o frame
    /\ offset_' = 0

clear == bytes_' = <<>> /\ offset_' = 0

\* The bytes of the next frame of the output.
FrameBytes(size) == [i \in 1..size |-> <<Len(queued) + 1, i - 1>>]

queue_response(envelope) ==
    LET encoded == encode_server_frame(envelope)
        size == IF encoded.error = "None" THEN encoded.frame.size ELSE 0
    IN
    IF encoded.error = "None" /\ size <= maximum_output_buffer_bytes - pending_size
    THEN /\ Appended(FrameBytes(size))
         /\ queued' = Append(queued, encoded.frame)
         /\ UNCHANGED <<refused, closing>>
    ELSE /\ clear /\ closing' = TRUE
         /\ refused' = {pending_size + size}
         /\ UNCHANGED queued

\* drain_engine_completions, for the answer to the next request.
drain_engine_completions(response) ==
    /\ at = "recv" /\ open /\ ~closing /\ Len(responses) < Len(messages)
    /\ responses' = Append(responses, response)
    /\ queue_response(to_wire_response(messages[Len(responses) + 1].request_id, response))
    /\ UNCHANGED <<parser_vars, feed_vars, config_vars, sent, open, received, messages>>

\* drain_engine_completions, for a connection that is closing or gone: the answer
\* is dropped unseen.
DropResponse ==
    /\ at = "recv" /\ (closing \/ ~open) /\ Len(responses) < Len(messages)
    /\ responses' = Append(responses, [kind |-> "dropped"])
    /\ UNCHANGED <<parser_vars, feed_vars, config_vars, output_vars, closing, open, received,
                   messages>>

AdvanceFromFront(n) == offset_' = n /\ UNCHANGED bytes_

\* What flush does with the count that send returned.
Advance(n) ==
    IF n = pending_size THEN clear ELSE offset_' = offset_ + n /\ UNCHANGED bytes_

\* flush_output: one send, after which flush goes on or the socket would block.
flush_output(size) ==
    /\ at = "recv" /\ open /\ pending_size > 0
    /\ LET n == Min({size, pending_size}) IN
       /\ sent' = sent \o SubSeq(bytes_, offset_ + 1, offset_ + n)
       /\ Advance(n)
    /\ UNCHANGED <<parser_vars, feed_vars, config_vars, queued, refused, closing, open, received,
                   messages, responses>>

\* flush_output: send fails.
FlushFails ==
    /\ at = "recv" /\ open /\ pending_size > 0
    /\ clear /\ closing' = TRUE
    /\ UNCHANGED <<parser_vars, feed_vars, config_vars, queued, sent, refused, open, received,
                   messages, responses>>

close_if_finished ==
    /\ at = "recv" /\ open /\ closing /\ pending_size = 0
    /\ open' = FALSE
    /\ UNCHANGED <<parser_vars, feed_vars, output_vars, config_vars, closing, received, messages,
                   responses>>

\* The connection is gone and its requests are answered.
Gone ==
    /\ ~open /\ Len(responses) = Len(messages)
    /\ UNCHANGED vars

-----------------------------------------------------------------------------
Next ==
    \/ \E size \in ReceiveSizes : receive_from(size)
    \/ EndOfStream
    \/ process_available \/ feed \/ Fed
    \/ /\ Len(responses) < Len(messages)
       /\ \E response \in EngineResponse(messages[Len(responses) + 1].type) :
             drain_engine_completions(response)
    \/ DropResponse
    \/ \E size \in SendSizes : flush_output(size)
    \/ FlushFails
    \/ close_if_finished
    \/ Gone

\* The gateway's thread runs until feed returns: no call in it blocks.
FairSpec == Init /\ [][Next]_vars /\ WF_vars(process_available \/ feed \/ Fed)

-----------------------------------------------------------------------------
(* Properties *)

\* Why a frame is not a request, and how many of its bytes show it.
Defects(frame) ==
    {d \in {<<4, "BadMagic">>} : frame.magic # kWireProtocolMagic} \cup
    {d \in {<<6, "UnsupportedVersion">>} : frame.version # kWireProtocolVersion} \cup
    {d \in {<<8, "UnsupportedMessageType">>} : ~decode_message_type(frame.type)} \cup
    {d \in {<<20, "UnsupportedMessageType">>} : ~is_client_message_type(frame.type)} \cup
    {d \in {<<12, "PayloadTooLarge">>} : frame.length > kWireMaximumPayloadLength} \cup
    {d \in {<<12, "InvalidPayloadLength">>} :
        /\ frame.length <= kWireMaximumPayloadLength
        /\ decode_message_type(frame.type) => frame.length # expected_payload_length(frame.type)} \cup
    {d \in {<<maximum_buffered_bytes_ + 1, "BufferLimitExceeded">>} :
        kWireFrameHeaderSize + frame.length > maximum_buffered_bytes_}

\* Chunks do not matter: whenever feed has returned, ClientStreamParser has handed
\* over exactly the requests that are complete in the bytes received, each once
\* and in order, up to the first frame that is none, and it has failed exactly
\* when the bytes that show the defect of that frame are there, with its error.
ParsesAsWhole ==
    at = "recv" =>
        LET Complete(k) == /\ \A j \in 1..k : Defects(stream[j]) = {}
                           /\ End(stream, k) <= received
            n == Cardinality({k \in DOMAIN stream : Complete(k)})
            shown == {d \in IF n < Len(stream) THEN Defects(stream[n + 1]) ELSE {} :
                         End(stream, n) + d[1] <= received}
        IN
        /\ messages = [k \in 1..n |-> [request_id |-> stream[k].request_id, type |-> stream[k].type,
                                       payload |-> stream[k].payload]]
        /\ failure_ = IF shown = {} THEN "None"
                      ELSE (CHOOSE d \in shown : \A e \in shown : d[1] <= e[1])[2]

\* The parser's memory is bounded by twice its limit: the read part of buffer_,
\* which compact_if_needed may leave in place, is smaller than the limit.
BufferBounded ==
    /\ Unread <= maximum_buffered_bytes_
    /\ Len(buffer_) < 2 * maximum_buffered_bytes_

\* feed returns, whatever it is given: its loop never spins on a full buffer.
FeedReturns == at # "recv" ~> at = "recv"

\* What a client reads: through partial sends, compaction and closing, the bytes
\* sent are a prefix of the frames queued, no byte lost, repeated or moved; and
\* the k-th frame decodes to the engine's answer to the client's k-th request.
AnswersIntact ==
    /\ IsPrefix(sent, Bytes(queued))
    /\ ~closing => sent \o SubSeq(bytes_, offset_ + 1, Len(bytes_)) = Bytes(queued)
    /\ \A k \in DOMAIN queued :
          End(queued, k) <= Len(sent) =>
              LET decoded == decode_server_frame_prefix(
                                 queued, SubSeq(sent, End(queued, k - 1) + 1, Len(sent)))
              IN
              /\ decoded.error = "None"
              /\ decoded.bytes_consumed = queued[k].size
              /\ decoded.envelope.request_id = messages[k].request_id
              /\ FromWire(decoded.envelope) = responses[k]

\* The output buffer holds at most maximum_output_buffer_bytes, sent bytes that
\* are still in it included, and queue_response gives a connection up only for a
\* response that does not fit: every answer of the engine can be encoded.
OutputExact ==
    /\ Len(bytes_) <= maximum_output_buffer_bytes
    /\ \A n \in refused : n > maximum_output_buffer_bytes

=============================================================================
