----------------------------- MODULE JournalFile -----------------------------
(***************************************************************************)
(* The journal file byte by byte (src/src/journal_storage.cpp): what       *)
(* create, append_batch_and_sync, scan_descriptor, open_recovered and      *)
(* repair_truncated_tail_and_open do to it, when every write may stop      *)
(* after any byte and a loss of power may cut the file at any byte that is *)
(* not on disk.  One process uses the file; a step is a system call or one *)
(* iteration of the scan.                                                  *)
(*                                                                         *)
(* DurableEngine models the same file frame by frame, with the directory   *)
(* entry and the engine on top of it.                                      *)
(***************************************************************************)
EXTENDS JournalCodec

CONSTANTS
    JournalCommands,  \* commands: record type and payload
    MaxSequence,      \* the largest std::uint64_t
    MaxBatch,         \* bound: commands of one batch
    CutOffsets,       \* bound: the bytes of the header or of a frame after which a write or the disk stops
    Damages           \* bound: fields the medium may change, and to what

ASSUME JournalAssumption ==
    /\ \A c \in JournalCommands :
          c.type \in {SubmitLimitOrder, CancelOrder} /\ c = [type |-> c.type, payload |-> c.payload]
    /\ MaxSequence \in Nat \ {0} /\ MaxBatch \in Nat \ {0}
    /\ CutOffsets \subseteq Nat \ {0}
    /\ \A d \in Damages :
          /\ d = [frame |-> d.frame, field |-> d.field, value |-> d.value] /\ d.frame \in Nat
          /\ d.field \in IF d.frame = 0 THEN DOMAIN encode_file_header ELSE FrameFields
          /\ d.field \in {"type", "length", "sequence"} => d.value \in Nat

VARIABLES
    written,        \* the frames of the file and where they start; the last may be there in part
    size,           \* of the file, in bytes
    disk,           \* the file at its last fsync; it is kept up to byte disk.kept
    damage,         \* of the medium: a frame (0 is the file header), a field, a value
    process,        \* what the process does
    frames,         \* encoded_frames that are not yet written completely
    left,           \* the bytes write_all has still to write of the first
    next_sequence_, \* of the writer; 0 is nullopt
    scan,           \* JournalScan, and the error that ends it
    acknowledged    \* history: the frames whose append has returned

file_vars == <<written, size, disk, damage>>
vars == <<file_vars, process, frames, left, next_sequence_, scan, acknowledged>>

-----------------------------------------------------------------------------
NoDamage == [frame |-> -1, field |-> "none", value |-> 0]
NoScan == [call |-> "none", records |-> <<>>, valid_size |-> 0, has_truncated_tail |-> FALSE,
           next_sequence |-> 1, error |-> "None"]

SequenceAfter(sequence) == IF sequence = MaxSequence THEN 0 ELSE sequence + 1
Smaller(a, b) == IF a <= b THEN a ELSE b
EndOf(place) == place.start + place.frame.size
CommandOf(frame) == [type |-> frame.type, payload |-> frame.payload]

\* The frames of which a file cut after n bytes still has something.
Cut(s, n) ==
    SubSeq(s, 1, CHOOSE k \in 0..Len(s) : \A i \in 1..Len(s) : i <= k <=> s[i].start < n)

\* Where a file of these frames may be cut.
CutPoints(s) ==
    CutOffsets \cup {0, kJournalFileHeaderSize}
        \cup UNION {{s[k].start + n : n \in CutOffsets} \cup {EndOf(s[k])} : k \in DOMAIN s}

\* The frames the file has completely.
Complete ==
    SubSeq(written, 1, CHOOSE k \in 0..Len(written) :
                           \A i \in 1..Len(written) : i <= k <=> EndOf(written[i]) <= size)

\* What a read finds at the place of the header and of the k-th frame.
Damaged(fields, k) ==
    IF damage.frame = k THEN [fields EXCEPT ![damage.field] = damage.value] ELSE fields

Init ==
    /\ written = <<>> /\ size = 0 /\ disk = [written |-> <<>>, size |-> 0, kept |-> 0]
    /\ damage = NoDamage
    /\ process = "none" /\ frames = <<>> /\ left = 0 /\ next_sequence_ = 0
    /\ scan = NoScan /\ acknowledged = 0

Fsync == disk' = [written |-> written, size |-> size, kept |-> size]

\* The writer behind the last frame.
OpenWriter(sequence) ==
    /\ process' = "open" /\ next_sequence_' = sequence
    /\ frames' = <<>> /\ left' = 0 /\ scan' = NoScan

NoWriter(p) ==
    /\ process' = p /\ next_sequence_' = 0 /\ frames' = <<>> /\ left' = 0 /\ scan' = NoScan

-----------------------------------------------------------------------------
\* JournalWriter::create: the header, by as many writes as it takes, then fsync.
Create ==
    /\ process = "none" /\ process' = "header" /\ left' = kJournalFileHeaderSize
    /\ UNCHANGED <<file_vars, frames, next_sequence_, scan, acknowledged>>

WriteHeader(n) ==
    /\ process = "header" /\ size + n \in CutPoints(written)
    /\ size' = size + n /\ left' = left - n
    /\ UNCHANGED <<written, disk, damage, process, frames, next_sequence_, scan, acknowledged>>

CreateSync ==
    /\ process = "header" /\ left = 0
    /\ Fsync /\ OpenWriter(1)
    /\ UNCHANGED <<written, size, damage, acknowledged>>

-----------------------------------------------------------------------------
Available == IF next_sequence_ = 0 THEN 0 ELSE MaxSequence - next_sequence_ + 1

\* append_batch_and_sync: all frames are encoded before the first is written.
\* An empty batch, or one too long for the sequence numbers left, is refused.
append_batch_and_sync(commands) ==
    /\ process = "open" /\ commands # <<>> /\ Len(commands) <= Available
    /\ frames' = [i \in DOMAIN commands |-> encode_record(next_sequence_ + i - 1, commands[i])]
    /\ left' = frames'[1].size /\ process' = "append"
    /\ UNCHANGED <<file_vars, next_sequence_, scan, acknowledged>>

\* One ::write of write_all takes n bytes.
write_all(n) ==
    /\ process = "append" /\ frames # <<>>
    /\ written' = IF left = frames[1].size
                  THEN Append(written, [frame |-> frames[1], start |-> size]) ELSE written
    /\ size + n \in CutPoints(written') /\ size' = size + n
    /\ frames' = IF n = left THEN Tail(frames) ELSE frames
    /\ left' = IF n < left THEN left - n ELSE IF Len(frames) = 1 THEN 0 ELSE frames[2].size
    /\ UNCHANGED <<disk, damage, process, next_sequence_, scan, acknowledged>>

\* Variants with a mistake end in the name of the mistake; each is what a run
\* must tell from the definition that follows it.
AppendSyncForgotten ==
    /\ process = "append" /\ frames = <<>>
    /\ OpenWriter(SequenceAfter(written[Len(written)].frame.sequence))
    /\ acknowledged' = Len(written)
    /\ UNCHANGED file_vars

\* One fsync for the batch; the writer advances and the append returns.
AppendSync ==
    /\ process = "append" /\ frames = <<>>
    /\ Fsync
    /\ OpenWriter(SequenceAfter(written[Len(written)].frame.sequence))
    /\ acknowledged' = Len(written)
    /\ UNCHANGED <<written, size, damage>>

-----------------------------------------------------------------------------
\* JournalReader::scan, open_recovered and repair_truncated_tail_and_open begin
\* with scan_descriptor.
Calls == {"scan", "open_recovered", "repair_truncated_tail_and_open"}

Open(call) ==
    /\ process = "closed"
    /\ process' = "header_scan" /\ scan' = [NoScan EXCEPT !.call = call]
    /\ UNCHANGED <<file_vars, frames, left, next_sequence_, acknowledged>>

ScanFails(error) ==
    /\ process' = "scanned" /\ scan' = [scan EXCEPT !.error = error]

ScanHeader ==
    /\ process = "header_scan"
    /\ LET error == decode_file_header(Smaller(size, kJournalFileHeaderSize),
                                       Damaged(encode_file_header, 0))
       IN  IF error # "None" THEN ScanFails(error)
           ELSE /\ process' = "scan"
                /\ scan' = [scan EXCEPT !.valid_size = kJournalFileHeaderSize]
    /\ UNCHANGED <<file_vars, frames, left, next_sequence_, acknowledged>>

\* An iteration of the loop reads what is left, at most the largest frame, from
\* valid_size on.
ScanRecord(decoded) ==
    LET expected_sequence == Len(scan.records) + 1
        valid_size == scan.valid_size + decoded.bytes_consumed
        last == expected_sequence = MaxSequence
    IN
    IF decoded.error = "TruncatedInput"
    THEN process' = "scanned" /\ scan' = [scan EXCEPT !.has_truncated_tail = TRUE]
    ELSE IF decoded.error # "None" THEN ScanFails(decoded.error)
    ELSE IF decoded.record.sequence # expected_sequence \/ (last /\ valid_size # size)
    THEN ScanFails("SequenceViolation")
    ELSE /\ process' = IF last THEN "scanned" ELSE "scan"
         /\ scan' = [scan EXCEPT !.records = Append(@, decoded.record),
                                 !.valid_size = valid_size,
                                 !.next_sequence = SequenceAfter(expected_sequence)]

ScanFrame ==
    /\ process = "scan"
    /\ IF scan.valid_size = size
       THEN process' = "scanned" /\ UNCHANGED scan
       ELSE \E k \in 1..Len(written) :
               /\ written[k].start = scan.valid_size
               /\ ScanRecord(decode_record_prefix(
                     Smaller(size - scan.valid_size,
                             kJournalFrameHeaderSize + kJournalMaximumPayloadLength),
                     Damaged(written[k].frame, k)))
    /\ UNCHANGED <<file_vars, frames, left, next_sequence_, acknowledged>>

\* The scan has ended: what the call that began it returns.
Scanned ==
    /\ process = "scanned"
    /\ LET repairs == scan.call = "repair_truncated_tail_and_open"
           refuses == scan.error # "None" \/ scan.call = "scan" \/ scan.has_truncated_tail # repairs
       IN  IF refuses THEN NoWriter("closed")
           ELSE IF repairs
                THEN process' = "truncate" /\ UNCHANGED <<frames, left, next_sequence_, scan>>
                ELSE OpenWriter(scan.next_sequence)
    /\ UNCHANGED <<file_vars, acknowledged>>

Ftruncate ==
    /\ process = "truncate" /\ process' = "truncate_sync"
    /\ size' = scan.valid_size /\ written' = Cut(written, scan.valid_size)
    /\ disk' = [disk EXCEPT !.kept = Smaller(@, scan.valid_size)]
    /\ UNCHANGED <<damage, frames, left, next_sequence_, scan, acknowledged>>

RepairSync ==
    /\ process = "truncate_sync"
    /\ Fsync /\ OpenWriter(scan.next_sequence)
    /\ UNCHANGED <<written, size, damage, acknowledged>>

-----------------------------------------------------------------------------
\* A write or the fsync of an append fails: failed_, and nothing more is written.
AppendFails ==
    /\ process = "append" /\ NoWriter("failed")
    /\ UNCHANGED <<file_vars, acknowledged>>

\* Another call fails, the writer is closed, or the process ends.
Stop ==
    /\ process \notin {"none", "closed"} /\ NoWriter("closed")
    /\ UNCHANGED <<file_vars, acknowledged>>

\* The machine loses power (external): the file keeps what is on disk and, cut
\* at any byte, what was written since; a truncation that is not on disk may be
\* undone.
PowerLoss ==
    /\ process # "none" /\ NoWriter("closed")
    /\ \E file \in {disk, [written |-> written, size |-> size]} : \E n \in disk.kept..file.size :
          /\ n \in CutPoints(file.written) \cup {disk.kept, file.size}
          /\ disk' = [written |-> Cut(file.written, n), size |-> n, kept |-> n]
    /\ written' = disk'.written /\ size' = disk'.size
    /\ UNCHANGED <<damage, acknowledged>>

\* The medium changes one field of the header or of a frame on disk (external).
Rot ==
    /\ process = "closed" /\ damage = NoDamage
    /\ \E d \in Damages :
          /\ \/ /\ d.frame = 0 /\ disk.kept >= kJournalFileHeaderSize
                /\ encode_file_header[d.field] # d.value
             \/ /\ d.frame \in 1..Len(written) /\ EndOf(written[d.frame]) <= disk.kept
                /\ written[d.frame].frame[d.field] # d.value
          /\ damage' = d
    /\ UNCHANGED <<written, size, disk, process, frames, left, next_sequence_, scan, acknowledged>>

Batches == UNION {[1..n -> JournalCommands] : n \in 1..MaxBatch}

Next ==
    \/ Create \/ (\E n \in 1..left : WriteHeader(n)) \/ CreateSync
    \/ \E commands \in Batches : append_batch_and_sync(commands)
    \/ (\E n \in 1..left : write_all(n)) \/ AppendSync \/ AppendFails
    \/ (\E call \in Calls : Open(call)) \/ ScanHeader \/ ScanFrame \/ Scanned
    \/ Ftruncate \/ RepairSync
    \/ Stop \/ PowerLoss \/ Rot

Spec == Init /\ [][Next]_vars

-----------------------------------------------------------------------------
\* The numbers and the commands of the frames, in the order of the file.
Records(s) == [k \in DOMAIN s |-> [sequence |-> k, command |-> CommandOf(s[k].frame)]]

\* "An incomplete final frame is repaired" (README): wherever a write, a crash,
\* a loss of power or an interrupted repair has cut an undamaged file, the scan
\* returns exactly the complete frames, in order and numbered 1, 2, 3, ..., calls
\* the rest a truncated tail and never corruption, and says where the writer goes
\* on.  Only a file without a complete header is refused.
ScanExact ==
    process = "scanned" /\ damage = NoDamage =>
        IF size < kJournalFileHeaderSize THEN scan.error = "TruncatedInput"
        ELSE /\ scan.error = "None"
             /\ scan.records = Records(Complete)
             /\ scan.next_sequence = SequenceAfter(Len(Complete))
             /\ scan.has_truncated_tail <=> scan.valid_size # size
             /\ scan.valid_size = IF Complete = <<>> THEN kJournalFileHeaderSize
                                  ELSE EndOf(Complete[Len(Complete)])

\* "complete corruption is fatal" (README): a changed field of the header or of a
\* frame that is completely there ends the scan with an error; it is never read as
\* a command, and never taken for a truncated tail that repair would drop.
DamageRefused ==
    process = "scanned" /\ damage # NoDamage => scan.error # "None"

\* The journal as the abstract log: a frame joins it with its last byte, and an
\* append that has returned commits everything before it.
Abstract ==
    INSTANCE CommandLog WITH
        Entries <- JournalCommands,
        log <- [k \in DOMAIN Complete |-> CommandOf(Complete[k].frame)],
        committed <- acknowledged

\* Through partial writes, failed appends, cuts at any byte and repairs, the file
\* grows by whole frames at its end and loses none that was acknowledged.
FileImplementsLog == Abstract!LogSpec

=============================================================================
