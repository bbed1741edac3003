---------------------------- MODULE JournalCodec ----------------------------
(***************************************************************************)
(* The journal's encoders and decoders (src/src/journal.cpp).              *)
(*                                                                         *)
(* The file header and a frame are records of their fields; a decoder is   *)
(* also given how many bytes of them there are.  Sizes are the format's.   *)
(* A command is its record type and a payload that stands for its words.   *)
(* The checksum is the tuple of what it covers: CRC-32C is taken to tell   *)
(* apart the frames that a single damaged field tells apart.               *)
(***************************************************************************)
EXTENDS Integers, Sequences

kJournalFileMagic == "MATCHJNL"
kJournalFormatVersion == 1
kMatchingRulesVersion == 1
kJournalFrameMagic == "MJR1"
kJournalRecordVersion == 1
kJournalFileHeaderSize == 16
kJournalFrameHeaderSize == 24
kJournalMaximumPayloadLength == 64

\* JournalRecordType
SubmitLimitOrder == 1
CancelOrder == 2
decode_record_type(type) == type \in {SubmitLimitOrder, CancelOrder}

expected_payload_length(type) == IF type = SubmitLimitOrder THEN 25 ELSE 8

\* frame_crc: version, type, flags, length and sequence, then the payload.
frame_crc(frame, payload) ==
    <<frame.version, frame.type, frame.flags, frame.length, frame.sequence, payload>>

encode_file_header ==
    [magic |-> kJournalFileMagic, format |-> kJournalFormatVersion,
     rules |-> kMatchingRulesVersion, reserved |-> 0]

Check(fails, error) == IF fails THEN error ELSE "None"

\* The error of the first check that fails, in the order the code makes them.
FirstError(checks) ==
    LET failing == {i \in DOMAIN checks : checks[i] # "None"} IN
    IF failing = {} THEN "None" ELSE checks[CHOOSE i \in failing : \A j \in failing : i <= j]

decode_file_header(size, header) ==
    FirstError(<<
        Check(size < kJournalFileHeaderSize, "TruncatedInput"),
        Check(size > kJournalFileHeaderSize, "UnexpectedTrailingBytes"),
        Check(header.magic # kJournalFileMagic, "InvalidFileMagic"),
        Check(header.format # kJournalFormatVersion, "UnsupportedJournalVersion"),
        Check(header.rules # kMatchingRulesVersion, "UnsupportedMatchingRulesVersion"),
        Check(header.reserved # 0, "InvalidReservedBytes")>>)

\* encode_record of a sequence that is not 0; size is the number of its bytes.
encode_record(sequence, command) ==
    LET length == expected_payload_length(command.type)
        frame == [magic |-> kJournalFrameMagic, version |-> kJournalRecordVersion,
                  type |-> command.type, flags |-> 0, length |-> length, sequence |-> sequence,
                  checksum |-> <<>>, payload |-> command.payload,
                  size |-> kJournalFrameHeaderSize + length]
    IN  [frame EXCEPT !.checksum = frame_crc(frame, command.payload)]

\* The fields of a frame that are bytes of it.
FrameFields == {"magic", "version", "type", "flags", "length", "sequence", "checksum", "payload"}

\* Variants with a mistake end in the name of the mistake; each is what a run
\* must tell from the definition that follows it.
has_bytesOffByOne(size, offset, count) == offset <= size /\ count <= size - offset + 1
has_bytes(size, offset, count) == offset <= size /\ count <= size - offset

InvalidLengthBoundOnly(frame) == frame.length > kJournalMaximumPayloadLength

InvalidLength(frame) ==
    \/ frame.length > kJournalMaximumPayloadLength
    \/ frame.length # expected_payload_length(frame.type)

\* The payload bytes: those of the frame, unless the length is not its own.
ReadPayload(frame) ==
    IF frame.length = frame.size - kJournalFrameHeaderSize THEN frame.payload ELSE "other bytes"

\* Of the first size bytes from the start of a frame on.
decode_record_prefix(size, frame) ==
    [error |-> FirstError(<<
        Check(size < kJournalFrameHeaderSize, "TruncatedInput"),
        Check(frame.magic # kJournalFrameMagic, "InvalidFrameMagic"),
        Check(frame.version # kJournalRecordVersion, "UnsupportedRecordVersion"),
        Check(~decode_record_type(frame.type), "UnsupportedRecordType"),
        Check(frame.flags # 0, "InvalidFlags"),
        Check(InvalidLength(frame), "InvalidPayloadLength"),
        Check(~has_bytes(size, kJournalFrameHeaderSize, frame.length), "TruncatedInput"),
        Check(frame.sequence = 0, "InvalidJournalSequence"),
        Check(frame.checksum # frame_crc(frame, ReadPayload(frame)), "ChecksumMismatch")>>),
     record |-> [sequence |-> frame.sequence,
                 command |-> [type |-> frame.type, payload |-> ReadPayload(frame)]],
     bytes_consumed |-> kJournalFrameHeaderSize + frame.length]

=============================================================================
