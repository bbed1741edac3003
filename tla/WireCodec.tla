----------------------------- MODULE WireCodec ------------------------------
(***************************************************************************)
(* The wire protocol's encoders and decoders (src/src/wire_protocol.cpp)   *)
(* and the conversions to and from the engine's answers.                   *)
(*                                                                         *)
(* A stream is a sequence of frames and a byte of it is a pair <<k, i>>:   *)
(* byte i, from 0, of its k-th frame.  Reading a field gives the frame's   *)
(* value when the bytes read are exactly the field's own, and Garbage      *)
(* otherwise, so a cursor that loses its place does not go unnoticed.      *)
(* Offsets and sizes are the protocol's.  Order ids, sides, prices and     *)
(* quantities are copied and are left out of the payloads.                 *)
(***************************************************************************)
EXTENDS Integers, Sequences, SequencesExt

kWireProtocolMagic == 1296390215      \* 0x4D455847
kWireProtocolVersion == 1
kWireFrameHeaderSize == 20
kWireMaximumPayloadLength == 4096
Garbage == -1

\* WireMessageType
SubmitLimitOrder == 1
CancelOrder == 2
SubmitResult == 101
CancelResult == 102
ProtocolError == 103
EngineUnavailable == 104

is_client_message_type(type) == type \in {SubmitLimitOrder, CancelOrder}
is_server_message_type(type) ==
    type \in {SubmitResult, CancelResult, ProtocolError, EngineUnavailable}
decode_message_type(type) == is_client_message_type(type) \/ is_server_message_type(type)

expected_payload_length(type) ==
    CASE type = SubmitLimitOrder  -> 25
      [] type = CancelOrder       -> 8
      [] type = SubmitResult      -> 18
      [] type = CancelResult      -> 9
      [] type = ProtocolError     -> 2
      [] type = EngineUnavailable -> 1

-----------------------------------------------------------------------------
(* Bytes *)

\* The bytes of a stream whose k-th frame has frames[k].size of them.
Bytes(frames) == FlattenSeq([k \in DOMAIN frames |-> [i \in 1..frames[k].size |-> <<k, i - 1>>]])

\* Where the k-th frame ends.
End(frames, k) == FoldLeft(LAMBDA n, frame : n + frame.size, 0, SubSeq(frames, 1, k))

\* read_u16, read_u32, read_u64 and the reads of a payload.
Read(frames, bytes, offset, width, field) ==
    LET k == bytes[offset + 1][1] IN
    IF \A i \in offset..(offset + width - 1) : bytes[i + 1] = <<k, i>>
    THEN frames[k][field] ELSE Garbage

encode_header(type, request_id) ==
    [magic |-> kWireProtocolMagic, version |-> kWireProtocolVersion, type |-> type,
     length |-> expected_payload_length(type), request_id |-> request_id]

\* The frame of a client's request.
encode_client_frame(type, request_id, payload) ==
    encode_header(type, request_id) @@
        [payload |-> payload, size |-> kWireFrameHeaderSize + expected_payload_length(type)]

Failure(error) == [error |-> error]

\* Variants with a mistake end in the name of the mistake; each is what a run
\* must tell from the definition that follows it.
decode_headerWaits(frames, bytes) ==
    LET type == Read(frames, bytes, 6, 2, "type")
        length == Read(frames, bytes, 8, 4, "length")
    IN
    IF Len(bytes) < kWireFrameHeaderSize THEN Failure("TruncatedInput")
    ELSE IF Read(frames, bytes, 0, 4, "magic") # kWireProtocolMagic THEN Failure("BadMagic")
    ELSE IF Read(frames, bytes, 4, 2, "version") # kWireProtocolVersion THEN Failure("UnsupportedVersion")
    ELSE IF ~decode_message_type(type) THEN Failure("UnsupportedMessageType")
    ELSE IF length > kWireMaximumPayloadLength THEN Failure("PayloadTooLarge")
    ELSE IF length # expected_payload_length(type) THEN Failure("InvalidPayloadLength")
    ELSE [error |-> "None", type |-> type, length |-> length,
          request_id |-> Read(frames, bytes, 12, 8, "request_id")]

\* Every field is judged as soon as it is there.
decode_header(frames, bytes) ==
    LET type == Read(frames, bytes, 6, 2, "type")
        length == Read(frames, bytes, 8, 4, "length")
    IN
    IF Len(bytes) < 4 THEN Failure("TruncatedInput")
    ELSE IF Read(frames, bytes, 0, 4, "magic") # kWireProtocolMagic THEN Failure("BadMagic")
    ELSE IF Len(bytes) < 6 THEN Failure("TruncatedInput")
    ELSE IF Read(frames, bytes, 4, 2, "version") # kWireProtocolVersion THEN Failure("UnsupportedVersion")
    ELSE IF Len(bytes) < 8 THEN Failure("TruncatedInput")
    ELSE IF ~decode_message_type(type) THEN Failure("UnsupportedMessageType")
    ELSE IF Len(bytes) < 12 THEN Failure("TruncatedInput")
    ELSE IF length > kWireMaximumPayloadLength THEN Failure("PayloadTooLarge")
    ELSE IF length # expected_payload_length(type) THEN Failure("InvalidPayloadLength")
    ELSE IF Len(bytes) < kWireFrameHeaderSize THEN Failure("TruncatedInput")
    ELSE [error |-> "None", type |-> type, length |-> length,
          request_id |-> Read(frames, bytes, 12, 8, "request_id")]

has_complete_frame(bytes, header) == Len(bytes) >= kWireFrameHeaderSize + header.length

Decoded(frames, bytes, header) ==
    [error |-> "None",
     envelope |-> [request_id |-> header.request_id, type |-> header.type,
                   payload |-> Read(frames, bytes, kWireFrameHeaderSize, header.length, "payload")],
     bytes_consumed |-> kWireFrameHeaderSize + header.length]

decode_client_frame_prefix(frames, bytes) ==
    LET header == decode_header(frames, bytes) IN
    IF header.error # "None" THEN header
    ELSE IF ~is_client_message_type(header.type) THEN Failure("UnsupportedMessageType")
    ELSE IF ~has_complete_frame(bytes, header) THEN Failure("TruncatedInput")
    ELSE Decoded(frames, bytes, header)

-----------------------------------------------------------------------------
(* The server's messages *)

\* WireRejectionCode, 1..8 in the order of RejectionReason; 0 is None.
RejectionReason == <<"InvalidOrderId", "InvalidSide", "InvalidPrice", "InvalidQuantity",
                     "DuplicateOrderId", "QuantityOverflow", "SequenceExhausted",
                     "TradeIdExhausted">>
to_wire_rejection_code(reason) == CHOOSE code \in DOMAIN RejectionReason : RejectionReason[code] = reason
to_domain_rejection_reason(code) == IF code = 0 THEN "None" ELSE RejectionReason[code]

is_known_rejection_codeBefore8(code) == code \in 0..7

is_known_rejection_code(code) == code \in 0..Len(RejectionReason)

\* WireSubmitStatus: Accepted = 1, Rejected = 2.
valid_submit_result(payload) ==
    /\ is_known_rejection_code(payload.rejection_code)
    /\ \/ payload.status = 1 /\ payload.rejection_code = 0
       \/ payload.status = 2 /\ payload.rejection_code # 0

\* WireCancelStatus: Cancelled = 1, NotFound = 2.
to_wire_cancel_status(status) == IF status = "Cancelled" THEN 1 ELSE 2
to_domain_cancel_status(code) == IF code = 1 THEN "Cancelled" ELSE "NotFound"
valid_cancel_result(payload) == payload.status \in {1, 2}

decode_protocol_error_code(code) == code \in 1..7
decode_engine_unavailable_code(code) == code = 1

ValidPayload(type, payload) ==
    CASE type = SubmitResult      -> valid_submit_result(payload)
      [] type = CancelResult      -> valid_cancel_result(payload)
      [] type = ProtocolError     -> decode_protocol_error_code(payload.code)
      [] type = EngineUnavailable -> decode_engine_unavailable_code(payload.code)

encode_server_frame(envelope) ==
    IF ValidPayload(envelope.type, envelope.payload)
    THEN LET header == encode_header(envelope.type, envelope.request_id) IN
         [error |-> "None",
          frame |-> header @@ [payload |-> envelope.payload,
                               size |-> kWireFrameHeaderSize + header.length]]
    ELSE Failure("MalformedPayload")

decode_server_frame_prefix(frames, bytes) ==
    LET header == decode_header(frames, bytes) IN
    IF header.error # "None" THEN header
    ELSE IF ~is_server_message_type(header.type) THEN Failure("UnsupportedMessageType")
    ELSE IF ~has_complete_frame(bytes, header) THEN Failure("TruncatedInput")
    ELSE LET decoded == Decoded(frames, bytes, header) IN
         IF ValidPayload(header.type, decoded.envelope.payload)
         THEN decoded ELSE Failure("MalformedPayload")

-----------------------------------------------------------------------------
(* The engine's answers *)

\* What the engine can answer to a request of this type: the SubmitResult or
\* CancelResult that summarize carries over, or that it is unavailable.
EngineResponse(type) ==
    {[kind |-> "unavailable"]} \cup
        IF type = SubmitLimitOrder
        THEN {[kind |-> "submit", status |-> "Accepted", rejection_reason |-> "None"]} \cup
             {[kind |-> "submit", status |-> "Rejected", rejection_reason |-> RejectionReason[i]]
                : i \in DOMAIN RejectionReason}
        ELSE {[kind |-> "cancel", status |-> s] : s \in {"Cancelled", "NotFound"}}

to_wire_response(request_id, response) ==
    CASE response.kind = "submit" ->
           [request_id |-> request_id, type |-> SubmitResult,
            payload |-> [status |-> IF response.status = "Accepted" THEN 1 ELSE 2,
                         rejection_code |-> IF response.rejection_reason = "None" THEN 0
                                            ELSE to_wire_rejection_code(response.rejection_reason)]]
      [] response.kind = "cancel" ->
           [request_id |-> request_id, type |-> CancelResult,
            payload |-> [status |-> to_wire_cancel_status(response.status)]]
      [] response.kind = "unavailable" ->
           [request_id |-> request_id, type |-> EngineUnavailable, payload |-> [code |-> 1]]

\* How a client reads the answer back.
FromWire(envelope) ==
    CASE envelope.type = SubmitResult ->
           [kind |-> "submit",
            status |-> IF envelope.payload.status = 1 THEN "Accepted" ELSE "Rejected",
            rejection_reason |-> to_domain_rejection_reason(envelope.payload.rejection_code)]
      [] envelope.type = CancelResult ->
           [kind |-> "cancel", status |-> to_domain_cancel_status(envelope.payload.status)]
      [] envelope.type = EngineUnavailable -> [kind |-> "unavailable"]

=============================================================================
