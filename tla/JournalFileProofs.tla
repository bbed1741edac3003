-------------------------- MODULE JournalFileProofs --------------------------
(***************************************************************************)
(* Proofs about JournalFile: what a scan of the file returns and refuses,  *)
(* and that the file is the abstract log, for any commands, any number of  *)
(* frames and writes and losses of power that stop after any byte.         *)
(***************************************************************************)
EXTENDS JournalFile, WellFoundedInduction, TLAPS

\* What a leaf may take, in seconds, unless it names a prover; on a busy machine
\* the first attempt may find no time to start.
USE SMTT(30), ZenonT(30), SMTT(40), SMTT(50)

-----------------------------------------------------------------------------
(* The invariant.                                                              *)

FrameSet == {encode_record(k, c) : k \in 1..MaxSequence, c \in JournalCommands}
Place == [frame : FrameSet, start : Nat]

IsFrame(frame, k) == \E c \in JournalCommands : frame = encode_record(k, c)

\* Where the k-th frame ends, and the next one starts.
EndAt(s, k) == IF k = 0 THEN kJournalFileHeaderSize ELSE EndOf(s[k])

\* A file of sz bytes: frames numbered 1, 2, 3, ... one behind the other from the
\* header on, the last of which may be there in part.
Frames(s) ==
    /\ s \in Seq(Place) /\ Len(s) <= MaxSequence
    /\ \A k \in 1..Len(s) : /\ IsFrame(s[k].frame, k)
                            /\ s[k].start = EndAt(s, k - 1)
                            /\ kJournalFileHeaderSize <= s[k].start
    /\ \A i, j \in 1..Len(s) : i < j => EndOf(s[i]) <= s[j].start

Layout(s, sz) ==
    /\ Frames(s) /\ sz \in Nat
    /\ s = <<>> => sz <= kJournalFileHeaderSize
    /\ s # <<>> => s[Len(s)].start < sz /\ sz <= EndOf(s[Len(s)])

\* The first k frames are those a file of sz bytes has completely.
Whole(s, sz, k) ==
    /\ k \in 0..Len(s)
    /\ \A i \in 1..Len(s) : i <= k <=> EndOf(s[i]) <= sz

CompleteOf(s, sz) ==
    SubSeq(s, 1, CHOOSE k \in 0..Len(s) : \A i \in 1..Len(s) : i <= k <=> EndOf(s[i]) <= sz)

FileInv == Layout(written, size)

\* The file and the disk have the same frames up to the byte that is kept, and
\* the disk has no complete frame beyond it.
DiskInv ==
    /\ disk = [written |-> disk.written, size |-> disk.size, kept |-> disk.kept]
    /\ Layout(disk.written, disk.size)
    /\ disk.kept \in Nat /\ disk.kept <= size /\ disk.kept <= disk.size
    /\ \A k \in 1..Len(written) :
          written[k].start < disk.kept =>
              k \in 1..Len(disk.written) /\ disk.written[k] = written[k]
    /\ \A k \in 1..Len(disk.written) :
          disk.written[k].start < disk.kept =>
              k \in 1..Len(written) /\ disk.written[k] = written[k]
    /\ \A k \in 1..Len(disk.written) :
          EndOf(disk.written[k]) <= disk.size => EndOf(disk.written[k]) <= disk.kept

AckInv ==
    /\ acknowledged \in 0..Len(written)
    /\ acknowledged > 0 => EndOf(written[acknowledged]) <= disk.kept

\* The writer is behind a complete last frame, and knows its number.
AtEnd(sequence) ==
    /\ size = EndAt(written, Len(written))
    /\ sequence = SequenceAfter(Len(written))

\* The number before that of the first of the frames still to be written.
Base == IF left = frames[1].size THEN Len(written) ELSE Len(written) - 1

WriterInv ==
    /\ process = "none" => written = <<>> /\ size = 0 /\ disk.kept = 0
    /\ process = "header" => /\ written = <<>> /\ disk.kept = 0
                             /\ left \in 0..kJournalFileHeaderSize
                             /\ size + left = kJournalFileHeaderSize
    /\ process = "open" => AtEnd(next_sequence_)
    /\ process = "append" =>
          /\ frames = <<>> => written # <<>> /\ size = EndAt(written, Len(written))
          /\ frames # <<>> =>
                /\ frames \in Seq(FrameSet)
                /\ \A i \in 1..Len(frames) : IsFrame(frames[i], Base + i)
                /\ Base + Len(frames) <= MaxSequence
                /\ left \in 1..frames[1].size
                /\ left = frames[1].size => size = EndAt(written, Len(written))
                /\ left < frames[1].size => /\ written # <<>>
                                            /\ written[Len(written)].frame = frames[1]
                                            /\ size + left = EndOf(written[Len(written)])

\* The scan has read m frames as they were written.
ReadTo(m) ==
    /\ m \in 0..Len(written)
    /\ scan.records = [k \in 1..m |-> [sequence |-> k, command |-> CommandOf(written[k].frame)]]
    /\ scan.valid_size = EndAt(written, m)
    /\ scan.next_sequence = SequenceAfter(m)
    /\ scan.error = "None"

\* It has ended behind the last complete frame.
ReadAll(m) ==
    /\ ReadTo(m) /\ Whole(written, size, m)
    /\ scan.has_truncated_tail \in BOOLEAN
    /\ scan.has_truncated_tail <=> scan.valid_size # size

IsScan(x) ==
    x = [call |-> x.call, records |-> x.records, valid_size |-> x.valid_size,
         has_truncated_tail |-> x.has_truncated_tail, next_sequence |-> x.next_sequence,
         error |-> x.error]

ScanInv ==
    /\ IsScan(scan)
    /\ process = "header_scan" => scan = [NoScan EXCEPT !.call = scan.call]
    /\ process = "scan" =>
          /\ ReadTo(Len(scan.records)) /\ Len(scan.records) < MaxSequence
          /\ scan.valid_size <= size /\ scan.has_truncated_tail = FALSE
          /\ damage # NoDamage => Len(scan.records) < damage.frame
    /\ process = "scanned" /\ damage = NoDamage =>
          IF size < kJournalFileHeaderSize THEN scan.error = "TruncatedInput"
          ELSE \E m \in 0..Len(written) : ReadAll(m)
    /\ process = "scanned" /\ damage # NoDamage => scan.error # "None"
    /\ process = "truncate" =>
          size >= kJournalFileHeaderSize /\ \E m \in 0..Len(written) : ReadAll(m)
    /\ process = "truncate_sync" => AtEnd(scan.next_sequence)

\* A damaged file is only read, and the damage is to bytes that are kept.
DamageInv ==
    damage # NoDamage =>
        /\ process \in {"closed", "header_scan", "scan", "scanned"}
        /\ damage \in Damages
        /\ \/ /\ damage.frame = 0 /\ disk.kept >= kJournalFileHeaderSize
              /\ encode_file_header[damage.field] # damage.value
           \/ /\ damage.frame \in 1..Len(written) /\ EndOf(written[damage.frame]) <= disk.kept
              /\ written[damage.frame].frame[damage.field] # damage.value

IInv == FileInv /\ DiskInv /\ AckInv /\ WriterInv /\ ScanInv /\ DamageInv

-----------------------------------------------------------------------------
(* The shape of the file.                                                      *)

\* The frames of a file form a sequence, and its size is a number.
LEMMA LayoutShape ==
    ASSUME NEW s, NEW sz, Layout(s, sz)
    PROVE  /\ Frames(s) /\ s \in Seq(Place) /\ Len(s) \in Nat /\ Len(s) <= MaxSequence
           /\ sz \in Nat
BY DEF Layout, Frames

LEMMA FramesShape ==
    ASSUME NEW s, Frames(s)
    PROVE  s \in Seq(Place) /\ Len(s) \in Nat
BY DEF Frames

\* What the invariant says of the file the program sees,
LEMMA FileShape ==
    ASSUME IInv
    PROVE  /\ Layout(written, size) /\ Frames(written) /\ written \in Seq(Place)
           /\ Len(written) \in Nat /\ Len(written) <= MaxSequence /\ size \in Nat
<1>1. Layout(written, size)
  BY Zenon DEF IInv, FileInv
<1> QED BY <1>1, LayoutShape, Zenon

LEMMA NextFileShape ==
    ASSUME IInv'
    PROVE  Layout(written', size') /\ Frames(written') /\ Len(written') \in Nat /\ size' \in Nat
<1>1. Layout(written', size')
  BY Zenon DEF IInv, FileInv
<1> QED BY <1>1, LayoutShape, Zenon

\* and of the one the disk holds.
LEMMA DiskShape ==
    ASSUME IInv
    PROVE  /\ Layout(disk.written, disk.size) /\ Frames(disk.written)
           /\ Len(disk.written) \in Nat /\ disk.size \in Nat
           /\ disk.kept \in Nat /\ disk.kept <= size /\ disk.kept <= disk.size
<1>1. /\ Layout(disk.written, disk.size)
      /\ disk.kept \in Nat /\ disk.kept <= size /\ disk.kept <= disk.size
  BY Zenon DEF IInv, DiskInv
<1> QED BY <1>1, LayoutShape, Zenon

-----------------------------------------------------------------------------
(* The decoders.                                                               *)

\* Every nonempty set of natural numbers has a least element.
LEMMA LeastElement ==
    ASSUME NEW T \in SUBSET Nat, T # {}
    PROVE  \E x \in T : \A y \in T : x <= y
<1> DEFINE R == {ss \in Nat \X Nat : ss[1] < ss[2]}
<1>1. PICK x \in T : \A y \in T : ~ (<<y, x>> \in R)
  <2>1. IsWellFoundedOn(R, Nat)
    BY NatLessThanWellFounded DEF OpToRel
  <2>2. T \subseteq Nat
    OBVIOUS
  <2> HIDE DEF R
  <2> QED BY <2>1, <2>2, WFMin, Zenon
<1>2. \A y \in T : x <= y
  <2> SUFFICES ASSUME NEW y \in T, y < x PROVE FALSE
    OBVIOUS
  <2>1. <<y, x>> \in Nat \X Nat
    OBVIOUS
  <2>2. <<y, x>> \in R
    BY <2>1
  <2> QED BY <1>1, <2>2
<1> QED BY <1>2

\* A decoder that fails reports the first check that fails.
LEMMA FirstOf ==
    ASSUME NEW checks, NEW n \in Nat, DOMAIN checks = 1..n, \E i \in 1..n : checks[i] # "None"
    PROVE  \E i \in 1..n : /\ checks[i] # "None" /\ \A j \in 1..n : j < i => checks[j] = "None"
                           /\ FirstError(checks) = checks[i]
<1> DEFINE failing == {i \in DOMAIN checks : checks[i] # "None"}
           first == CHOOSE i \in failing : \A j \in failing : i <= j
<1>1. failing \in SUBSET Nat /\ failing # {}
  OBVIOUS
<1>2. \E i \in failing : \A j \in failing : i <= j
  <2> HIDE DEF failing
  <2> QED BY <1>1, LeastElement
<1>3. first \in failing /\ \A j \in failing : first <= j
  BY <1>2
<1>4. FirstError(checks) = checks[first]
  BY <1>1 DEF FirstError
<1> HIDE DEF first
<1> QED BY <1>3, <1>4

LEMMA NoneFails ==
    ASSUME NEW checks, \A i \in DOMAIN checks : checks[i] = "None"
    PROVE  FirstError(checks) = "None"
BY DEF FirstError

\* The header that create wrote is refused when it is there in part, and only then.
LEMMA HeaderDecoded ==
    ASSUME NEW n \in Nat
    PROVE  decode_file_header(Smaller(n, kJournalFileHeaderSize), encode_file_header)
               = IF n < kJournalFileHeaderSize THEN "TruncatedInput" ELSE "None"
<1> DEFINE sz == Smaller(n, kJournalFileHeaderSize)
           h == encode_file_header
           checks == <<
              Check(sz < kJournalFileHeaderSize, "TruncatedInput"),
              Check(sz > kJournalFileHeaderSize, "UnexpectedTrailingBytes"),
              Check(h.magic # kJournalFileMagic, "InvalidFileMagic"),
              Check(h.format # kJournalFormatVersion, "UnsupportedJournalVersion"),
              Check(h.rules # kMatchingRulesVersion, "UnsupportedMatchingRulesVersion"),
              Check(h.reserved # 0, "InvalidReservedBytes")>>
<1>1. decode_file_header(sz, h) = FirstError(checks)
  BY DEF decode_file_header
<1>2. DOMAIN checks = 1..6
  OBVIOUS
<1>3. \A i \in 2..6 : checks[i] = "None"
  BY DEF encode_file_header, Smaller, Check, kJournalFileHeaderSize
<1>4. checks[1] = IF n < kJournalFileHeaderSize THEN "TruncatedInput" ELSE "None"
  BY DEF Smaller, Check, kJournalFileHeaderSize
<1> HIDE DEF checks
<1>5. CASE n < kJournalFileHeaderSize
  <2>0. 6 \in Nat /\ \E i \in 1..6 : checks[i] # "None"
    BY <1>4, <1>5
  <2>1. PICK i \in 1..6 : checks[i] # "None" /\ FirstError(checks) = checks[i]
    BY <1>2, <2>0, FirstOf, Zenon
  <2>2. i = 1
    BY <2>1, <1>3
  <2> QED BY <1>1, <1>4, <1>5, <2>1, <2>2
<1>6. CASE ~(n < kJournalFileHeaderSize)
  <2>1. \A i \in DOMAIN checks : checks[i] = "None"
    BY <1>2, <1>3, <1>4, <1>6
  <2> QED BY <1>1, <1>6, <2>1, NoneFails
<1> QED BY <1>5, <1>6

\* A header with a changed field is refused.
LEMMA DamagedHeader ==
    ASSUME NEW n \in Nat, NEW f \in DOMAIN encode_file_header, NEW v, encode_file_header[f] # v
    PROVE  decode_file_header(n, [encode_file_header EXCEPT ![f] = v]) # "None"
<1> DEFINE h == [encode_file_header EXCEPT ![f] = v]
           checks == <<
              Check(n < kJournalFileHeaderSize, "TruncatedInput"),
              Check(n > kJournalFileHeaderSize, "UnexpectedTrailingBytes"),
              Check(h.magic # kJournalFileMagic, "InvalidFileMagic"),
              Check(h.format # kJournalFormatVersion, "UnsupportedJournalVersion"),
              Check(h.rules # kMatchingRulesVersion, "UnsupportedMatchingRulesVersion"),
              Check(h.reserved # 0, "InvalidReservedBytes")>>
<1>1. decode_file_header(n, h) = FirstError(checks)
  BY DEF decode_file_header
<1>2. DOMAIN checks = 1..6
  OBVIOUS
<1>3. f \in {"magic", "format", "rules", "reserved"}
  BY DEF encode_file_header
<1>4. 6 \in Nat /\ \E i \in 1..6 : checks[i] # "None"
  <2>1. f = "magic" => checks[3] # "None"
    BY DEF Check, encode_file_header
  <2>2. f = "format" => checks[4] # "None"
    BY DEF Check, encode_file_header
  <2>3. f = "rules" => checks[5] # "None"
    BY DEF Check, encode_file_header
  <2>4. f = "reserved" => checks[6] # "None"
    BY DEF Check, encode_file_header
  <2> HIDE DEF checks
  <2> QED BY <1>3, <2>1, <2>2, <2>3, <2>4
<1> HIDE DEF checks
<1>5. PICK i \in 1..6 : checks[i] # "None" /\ FirstError(checks) = checks[i]
  BY <1>2, <1>4, FirstOf, Zenon
<1> QED BY <1>1, <1>5

\* What encode_record writes.
LEMMA FrameFacts ==
    ASSUME NEW k \in Nat, NEW c \in JournalCommands, NEW f, f = encode_record(k, c)
    PROVE  /\ f.magic = kJournalFrameMagic /\ f.version = kJournalRecordVersion /\ f.flags = 0
           /\ f.type = c.type /\ f.type \in {SubmitLimitOrder, CancelOrder}
           /\ f.payload = c.payload /\ f.sequence = k
           /\ f.length \in {8, 25} /\ f.length = expected_payload_length(f.type)
           /\ f.size = kJournalFrameHeaderSize + f.length
           /\ f.checksum = frame_crc(f, f.payload)
           /\ CommandOf(f) = c
<1>1. c.type \in {SubmitLimitOrder, CancelOrder} /\ c = [type |-> c.type, payload |-> c.payload]
  BY JournalAssumption
<1>2. /\ f.magic = kJournalFrameMagic /\ f.version = kJournalRecordVersion /\ f.flags = 0
      /\ f.type = c.type /\ f.payload = c.payload /\ f.sequence = k
      /\ f.length = expected_payload_length(c.type)
      /\ f.size = kJournalFrameHeaderSize + expected_payload_length(c.type)
  BY DEF encode_record
<1>3. f.checksum = frame_crc(f, f.payload)
  BY <1>2 DEF encode_record, frame_crc
<1>4. f.length \in {8, 25}
  BY <1>1, <1>2 DEF expected_payload_length
<1>5. CommandOf(f) = c
  BY <1>1, <1>2 DEF CommandOf
<1> QED BY <1>1, <1>2, <1>3, <1>4, <1>5

\* The frames differ from one another in size by their types.
LEMMA LengthTellsType ==
    ASSUME NEW t \in {SubmitLimitOrder, CancelOrder}, NEW u \in {SubmitLimitOrder, CancelOrder}, t # u
    PROVE  expected_payload_length(t) # expected_payload_length(u)
BY DEF expected_payload_length, SubmitLimitOrder, CancelOrder

\* A frame as it was written is decoded when it is completely there; otherwise it
\* is a truncated input, whichever of the two checks finds it.
LEMMA FrameDecoded ==
    ASSUME NEW k \in Nat \ {0}, NEW c \in JournalCommands, NEW f, f = encode_record(k, c),
           NEW n \in Nat
    PROVE  /\ decode_record_prefix(n, f).error = IF n < f.size THEN "TruncatedInput" ELSE "None"
           /\ decode_record_prefix(n, f).record = [sequence |-> k, command |-> CommandOf(f)]
           /\ decode_record_prefix(n, f).bytes_consumed = f.size
<1> DEFINE checks == <<
              Check(n < kJournalFrameHeaderSize, "TruncatedInput"),
              Check(f.magic # kJournalFrameMagic, "InvalidFrameMagic"),
              Check(f.version # kJournalRecordVersion, "UnsupportedRecordVersion"),
              Check(~decode_record_type(f.type), "UnsupportedRecordType"),
              Check(f.flags # 0, "InvalidFlags"),
              Check(InvalidLength(f), "InvalidPayloadLength"),
              Check(~has_bytes(n, kJournalFrameHeaderSize, f.length), "TruncatedInput"),
              Check(f.sequence = 0, "InvalidJournalSequence"),
              Check(f.checksum # frame_crc(f, ReadPayload(f)), "ChecksumMismatch")>>
<1>0. /\ f.magic = kJournalFrameMagic /\ f.version = kJournalRecordVersion /\ f.flags = 0
      /\ f.type \in {SubmitLimitOrder, CancelOrder} /\ f.sequence = k
      /\ f.length \in {8, 25} /\ f.length = expected_payload_length(f.type)
      /\ f.size = kJournalFrameHeaderSize + f.length
      /\ f.checksum = frame_crc(f, f.payload)
  BY FrameFacts
<1>1. ReadPayload(f) = f.payload
  <2>1. f.length = f.size - kJournalFrameHeaderSize
    BY <1>0 DEF kJournalFrameHeaderSize
  <2> QED BY <2>1 DEF ReadPayload
<1>2. /\ decode_record_prefix(n, f).error = FirstError(checks)
      /\ decode_record_prefix(n, f).record = [sequence |-> k, command |-> CommandOf(f)]
      /\ decode_record_prefix(n, f).bytes_consumed = f.size
  BY <1>0, <1>1 DEF decode_record_prefix, CommandOf
<1>3. ~InvalidLength(f) /\ decode_record_type(f.type)
  BY <1>0 DEF InvalidLength, decode_record_type, kJournalMaximumPayloadLength
<1>4. has_bytes(n, kJournalFrameHeaderSize, f.length) <=> ~(n < f.size)
  BY <1>0 DEF has_bytes, kJournalFrameHeaderSize
<1>5. DOMAIN checks = 1..9
  OBVIOUS
<1>6. /\ checks[2] = "None" /\ checks[3] = "None" /\ checks[4] = "None" /\ checks[5] = "None"
      /\ checks[6] = "None" /\ checks[8] = "None" /\ checks[9] = "None"
  BY <1>0, <1>1, <1>3 DEF Check
<1>7. /\ checks[1] = IF n < kJournalFrameHeaderSize THEN "TruncatedInput" ELSE "None"
      /\ checks[7] = IF n < f.size THEN "TruncatedInput" ELSE "None"
  BY <1>4 DEF Check
<1> HIDE DEF checks
<1>8. CASE n < f.size
  <2>1. 9 \in Nat /\ \E i \in 1..9 : checks[i] # "None"
    BY <1>7, <1>8
  <2>2. PICK i \in 1..9 : checks[i] # "None" /\ FirstError(checks) = checks[i]
    BY <1>5, <2>1, FirstOf, Zenon
  <2>3. i \in {1, 7}
    BY <1>6, <2>2
  <2> QED BY <1>2, <1>7, <1>8, <2>2, <2>3
<1>9. CASE ~(n < f.size)
  <2>1. checks[1] = "None" /\ checks[7] = "None"
    BY <1>0, <1>7, <1>9 DEF kJournalFrameHeaderSize
  <2>2. \A i \in DOMAIN checks : checks[i] = "None"
    BY <1>5, <1>6, <2>1
  <2> QED BY <1>2, <1>9, <2>2, NoneFails
<1> QED BY <1>8, <1>9

\* A complete frame with a changed field is refused, and not as a truncated input.
LEMMA DamagedFrame ==
    ASSUME NEW k \in Nat \ {0}, NEW c \in JournalCommands, NEW f, f = encode_record(k, c),
           NEW n \in Nat, n >= f.size,
           NEW d \in FrameFields, NEW v, f[d] # v, d \in {"type", "length", "sequence"} => v \in Nat
    PROVE  decode_record_prefix(n, [f EXCEPT ![d] = v]).error \notin {"None", "TruncatedInput"}
<1> DEFINE g == [f EXCEPT ![d] = v]
           checks == <<
              Check(n < kJournalFrameHeaderSize, "TruncatedInput"),
              Check(g.magic # kJournalFrameMagic, "InvalidFrameMagic"),
              Check(g.version # kJournalRecordVersion, "UnsupportedRecordVersion"),
              Check(~decode_record_type(g.type), "UnsupportedRecordType"),
              Check(g.flags # 0, "InvalidFlags"),
              Check(InvalidLength(g), "InvalidPayloadLength"),
              Check(~has_bytes(n, kJournalFrameHeaderSize, g.length), "TruncatedInput"),
              Check(g.sequence = 0, "InvalidJournalSequence"),
              Check(g.checksum # frame_crc(g, ReadPayload(g)), "ChecksumMismatch")>>
<1>0. /\ f.magic = kJournalFrameMagic /\ f.version = kJournalRecordVersion /\ f.flags = 0
      /\ f.type \in {SubmitLimitOrder, CancelOrder} /\ f.sequence = k
      /\ f.length \in {8, 25} /\ f.length = expected_payload_length(f.type)
      /\ f.size = kJournalFrameHeaderSize + f.length
      /\ f.checksum = frame_crc(f, f.payload)
  BY FrameFacts
<1>1. DOMAIN f = FrameFields \cup {"size"}
  BY DEF encode_record, FrameFields
<1>2. \A e \in FrameFields \cup {"size"} : g[e] = IF e = d THEN v ELSE f[e]
  BY <1>1
<1>3. decode_record_prefix(n, g).error = FirstError(checks)
  BY DEF decode_record_prefix
<1>4. DOMAIN checks = 1..9
  OBVIOUS
<1>5. checks[1] = "None"
  BY <1>0 DEF Check, kJournalFrameHeaderSize
<1>6. \A i \in 1..9 : i # 7 => checks[i] # "TruncatedInput"
  BY <1>5 DEF Check
<1>7. d \in {"type", "length"} => checks[4] # "None" \/ checks[6] # "None"
  <2>1. CASE d = "type" /\ decode_record_type(v)
    <3>1. g.type = v /\ g.length = f.length
      BY <1>2, <2>1 DEF FrameFields
    <3>2. v \in {SubmitLimitOrder, CancelOrder} /\ v # f.type
      BY <2>1 DEF decode_record_type
    <3>3. InvalidLength(g)
      BY <1>0, <3>1, <3>2, LengthTellsType DEF InvalidLength
    <3> QED BY <3>3 DEF Check
  <2>2. CASE d = "type" /\ ~decode_record_type(v)
    <3>1. g.type = v
      BY <1>2, <2>2 DEF FrameFields
    <3> QED BY <2>2, <3>1 DEF Check
  <2>3. CASE d = "length"
    <3>1. g.type = f.type /\ g.length = v /\ v # f.length
      BY <1>2, <2>3 DEF FrameFields
    <3>2. InvalidLength(g)
      BY <1>0, <3>1 DEF InvalidLength
    <3> QED BY <3>2 DEF Check
  <2> QED BY <2>1, <2>2, <2>3, ZenonT(30)
<1>8. d \notin {"type", "length"} => checks[7] = "None"
  <2> SUFFICES ASSUME d \notin {"type", "length"} PROVE has_bytes(n, kJournalFrameHeaderSize, g.length)
    BY DEF Check
  <2>1. g.length = f.length
    BY <1>2 DEF FrameFields
  <2> QED BY <1>0, <2>1 DEF has_bytes, kJournalFrameHeaderSize
<1>9. d \notin {"type", "length"} => \E i \in {2, 3, 5, 9} : checks[i] # "None"
  <2>1. CASE d = "magic"
    <3>1. g.magic = v
      BY <1>2, <2>1 DEF FrameFields
    <3>2. checks[2] # "None"
      BY <1>0, <2>1, <3>1 DEF Check
    <3> QED BY <3>2
  <2>2. CASE d = "version"
    <3>1. g.version = v
      BY <1>2, <2>2 DEF FrameFields
    <3>2. checks[3] # "None"
      BY <1>0, <2>2, <3>1 DEF Check
    <3> QED BY <3>2
  <2>3. CASE d = "flags"
    <3>1. g.flags = v
      BY <1>2, <2>3 DEF FrameFields
    <3>2. checks[5] # "None"
      BY <1>0, <2>3, <3>1 DEF Check
    <3> QED BY <3>2
  <2>4. CASE d \in {"sequence", "checksum", "payload"}
    <3>1. /\ g.version = f.version /\ g.type = f.type /\ g.flags = f.flags /\ g.length = f.length
          /\ g.size = f.size
      BY <1>2, <2>4 DEF FrameFields
    <3>2. ReadPayload(g) = g.payload
      <4>1. g.length = g.size - kJournalFrameHeaderSize
        BY <1>0, <3>1 DEF kJournalFrameHeaderSize
      <4> HIDE DEF g
      <4> QED BY <4>1 DEF ReadPayload
    <3>3. /\ frame_crc(f, f.payload) = <<f.version, f.type, f.flags, f.length, f.sequence, f.payload>>
          /\ frame_crc(g, g.payload) = <<f.version, f.type, f.flags, f.length, g.sequence, g.payload>>
      BY <3>1 DEF frame_crc
    <3>4. g.checksum # frame_crc(g, g.payload)
      <4>1. CASE d = "checksum"
        <5>1. g.checksum = v /\ g.sequence = f.sequence /\ g.payload = f.payload
          BY <1>2, <4>1 DEF FrameFields
        <5> QED BY <1>0, <3>3, <4>1, <5>1
      <4>2. CASE d = "sequence"
        <5>1. g.checksum = f.checksum /\ g.sequence = v /\ g.payload = f.payload
          BY <1>2, <4>2 DEF FrameFields
        <5> QED BY <1>0, <3>3, <4>2, <5>1
      <4>3. CASE d = "payload"
        <5>1. g.checksum = f.checksum /\ g.sequence = f.sequence /\ g.payload = v
          BY <1>2, <4>3 DEF FrameFields
        <5> QED BY <1>0, <3>3, <4>3, <5>1
      <4> QED BY <2>4, <4>1, <4>2, <4>3
    <3>5. checks[9] # "None"
      BY <3>2, <3>4 DEF Check
    <3> QED BY <3>5
  <2> QED BY <2>1, <2>2, <2>3, <2>4 DEF FrameFields
<1> HIDE DEF checks
<1>10. 9 \in Nat /\ \E i \in 1..9 : checks[i] # "None"
  BY <1>7, <1>9
<1>11. PICK i \in 1..9 : /\ checks[i] # "None" /\ \A j \in 1..9 : j < i => checks[j] = "None"
                         /\ FirstError(checks) = checks[i]
  BY <1>4, <1>10, FirstOf, Zenon
<1>12. i # 7
  BY <1>7, <1>8, <1>11
<1> QED BY <1>3, <1>6, <1>11, <1>12

-----------------------------------------------------------------------------
(* Frames one behind the other.                                                *)

LEMMA FrameSize ==
    ASSUME NEW k \in Nat, NEW f, IsFrame(f, k)
    PROVE  f.size \in {32, 49} /\ f.sequence = k /\ CommandOf(f) \in JournalCommands
<1>1. PICK c \in JournalCommands : f = encode_record(k, c)
  BY DEF IsFrame
<1> QED BY <1>1, FrameFacts DEF kJournalFrameHeaderSize

LEMMA PlaceFacts ==
    ASSUME NEW s, Frames(s), NEW k \in 1..Len(s)
    PROVE  /\ s[k].start \in Nat /\ s[k].frame.size \in {32, 49}
           /\ EndOf(s[k]) \in Nat /\ s[k].start < EndOf(s[k])
           /\ s[k].frame.sequence = k /\ CommandOf(s[k].frame) \in JournalCommands
<1>1. s[k] \in Place /\ IsFrame(s[k].frame, k) /\ k \in Nat
  BY DEF Frames
<1>2. s[k].start \in Nat
  BY <1>1 DEF Place
<1> QED BY <1>1, <1>2, FrameSize DEF EndOf

\* A frame ends behind the header,
LEMMA EndAtNat ==
    ASSUME NEW s, Frames(s), NEW k \in 0..Len(s)
    PROVE  EndAt(s, k) \in Nat /\ kJournalFileHeaderSize <= EndAt(s, k)
<1>1. CASE k = 0
  BY <1>1 DEF EndAt, kJournalFileHeaderSize
<1>2. CASE k # 0
  <2>1. k \in 1..Len(s)
    BY <1>2 DEF Frames
  <2>2. kJournalFileHeaderSize <= s[k].start
    BY <2>1 DEF Frames
  <2> QED BY <1>2, <2>1, <2>2, PlaceFacts DEF EndAt, kJournalFileHeaderSize
<1> QED BY <1>1, <1>2

\* and behind the ones before it.
LEMMA EndAtFacts ==
    ASSUME NEW s, Frames(s), NEW i \in 0..Len(s), NEW j \in 0..Len(s), i <= j
    PROVE  /\ EndAt(s, i) \in Nat /\ EndAt(s, j) \in Nat
           /\ kJournalFileHeaderSize <= EndAt(s, i) /\ EndAt(s, i) <= EndAt(s, j)
           /\ i < j => EndAt(s, i) < EndAt(s, j)
<1>0. Len(s) \in Nat
  BY DEF Frames
<1>1. \A k \in 0..Len(s) : EndAt(s, k) \in Nat /\ kJournalFileHeaderSize <= EndAt(s, k)
  BY EndAtNat, Zenon
<1>2. CASE i = j
  BY <1>1, <1>2
<1>3. CASE i < j
  <2>1. j \in 1..Len(s) /\ j # 0
    BY <1>0, <1>3
  <2>2. s[j].start < EndOf(s[j]) /\ s[j].start \in Nat /\ EndOf(s[j]) \in Nat
    BY <2>1, PlaceFacts
  <2>3. EndAt(s, i) <= s[j].start
    <3>1. CASE i = 0
      BY <2>1, <3>1 DEF Frames, EndAt
    <3>2. CASE i # 0
      <4>1. i \in 1..Len(s)
        BY <1>0, <3>2
      <4> QED BY <1>3, <2>1, <3>2, <4>1 DEF Frames, EndAt
    <3> QED BY <3>1, <3>2
  <2>4. EndAt(s, j) = EndOf(s[j])
    BY <2>1 DEF EndAt
  <2> QED BY <1>1, <2>2, <2>3, <2>4
<1> QED BY <1>2, <1>3

\* The next frame starts where this one ends.
LEMMA NextStart ==
    ASSUME NEW s, Frames(s), NEW m \in 0..Len(s), m < Len(s)
    PROVE  m + 1 \in 1..Len(s) /\ s[m + 1].start = EndAt(s, m)
<1>1. Len(s) \in Nat
  BY DEF Frames
<1>2. m + 1 \in 1..Len(s) /\ (m + 1) - 1 = m
  BY <1>1
<1> QED BY <1>2 DEF Frames

\* Only the last frame can be there in part.
LEMMA WholeIs ==
    ASSUME NEW s, NEW sz, Layout(s, sz)
    PROVE  \E k \in 0..Len(s) : Whole(s, sz, k)
<1>0. Len(s) \in Nat /\ Frames(s) /\ sz \in Nat
  BY DEF Layout, Frames
<1>1. CASE s = <<>>
  <2>1. Whole(s, sz, 0)
    BY <1>0, <1>1 DEF Whole
  <2> QED BY <1>0, <2>1
<1>2. CASE s # <<>>
  <2>1. Len(s) \in 1..Len(s)
    BY <1>0, <1>2 DEF Frames
  <2>2. s[Len(s)].start < sz /\ s[Len(s)].start \in Nat /\ EndOf(s[Len(s)]) \in Nat
    BY <1>2, <2>1, <1>0, PlaceFacts DEF Layout
  <2>3. ASSUME NEW i \in 1..Len(s), i < Len(s) PROVE EndOf(s[i]) <= sz
    <3>1. EndOf(s[i]) <= s[Len(s)].start
      BY <2>1, <2>3, <1>0 DEF Frames
    <3> QED BY <1>0, <2>2, <3>1, PlaceFacts
  <2>4. CASE EndOf(s[Len(s)]) <= sz
    <3>1. Whole(s, sz, Len(s))
      BY <1>0, <2>3, <2>4 DEF Whole
    <3> QED BY <1>0, <3>1
  <2>5. CASE ~(EndOf(s[Len(s)]) <= sz)
    <3>1. Len(s) - 1 \in 0..Len(s)
      BY <1>0, <2>1
    <3>2. Whole(s, sz, Len(s) - 1)
      BY <1>0, <2>3, <2>5, <3>1 DEF Whole
    <3> QED BY <3>1, <3>2
  <2> QED BY <2>4, <2>5
<1> QED BY <1>1, <1>2

LEMMA CompleteIs ==
    ASSUME NEW s, NEW sz, Frames(s), NEW m, Whole(s, sz, m)
    PROVE  /\ CompleteOf(s, sz) = SubSeq(s, 1, m) /\ CompleteOf(s, sz) \in Seq(Place) /\ Len(CompleteOf(s, sz)) = m
           /\ \A i \in 1..m : CompleteOf(s, sz)[i] = s[i]
<1> DEFINE P(k) == \A i \in 1..Len(s) : i <= k <=> EndOf(s[i]) <= sz
           c == CHOOSE k \in 0..Len(s) : P(k)
<1>0. Len(s) \in Nat /\ s \in Seq(Place)
  BY DEF Frames
<1>1. m \in 0..Len(s) /\ P(m)
  BY DEF Whole
<1>2. c \in 0..Len(s) /\ P(c)
  BY <1>1
<1>3. ~(c < m)
  <2> SUFFICES ASSUME c < m PROVE FALSE
    OBVIOUS
  <2>1. m \in 1..Len(s) /\ ~(m <= c)
    BY <1>0, <1>1, <1>2
  <2> QED BY <1>0, <1>1, <1>2, <2>1
<1>4. ~(m < c)
  <2> SUFFICES ASSUME m < c PROVE FALSE
    OBVIOUS
  <2>1. c \in 1..Len(s) /\ ~(c <= m)
    BY <1>0, <1>1, <1>2
  <2> QED BY <1>0, <1>1, <1>2, <2>1
<1>5. c = m
  BY <1>0, <1>1, <1>2, <1>3, <1>4
<1>6. CompleteOf(s, sz) = SubSeq(s, 1, m)
  BY <1>5, Zenon DEF CompleteOf
<1> QED BY <1>0, <1>1, <1>6

\* A cut leaves the frames that start before it.
LEMMA CutIs ==
    ASSUME NEW s, NEW sz, Layout(s, sz), NEW n \in Nat
    PROVE  \E k \in 0..Len(s) : /\ \A i \in 1..Len(s) : i <= k <=> s[i].start < n
                                /\ Cut(s, n) = SubSeq(s, 1, k)
<1> DEFINE P(k) == \A i \in 1..Len(s) : i <= k <=> s[i].start < n
           c == CHOOSE k \in 0..Len(s) : P(k)
           T == {i \in 1..Len(s) : ~(s[i].start < n)}
<1>0. Len(s) \in Nat /\ Frames(s)
  BY DEF Layout, Frames
<1>1. \E k \in 0..Len(s) : P(k)
  <2>1. CASE T = {}
    <3>1. Len(s) \in 0..Len(s) /\ P(Len(s))
      BY <1>0, <2>1
    <3> QED BY <3>1, Zenon
  <2>2. CASE T # {}
    <3>1. T \in SUBSET Nat
      BY <1>0
    <3>2. PICK x \in T : \A y \in T : x <= y
      <4> HIDE DEF T
      <4> QED BY <2>2, <3>1, LeastElement
    <3>3. x \in 1..Len(s) /\ ~(s[x].start < n) /\ x - 1 \in 0..Len(s)
      BY <1>0, <3>2
    <3>4. ASSUME NEW i \in 1..Len(s) PROVE i <= x - 1 <=> s[i].start < n
      <4>1. CASE i < x
        BY <1>0, <3>2, <3>3, <4>1
      <4>2. CASE i = x
        BY <1>0, <3>3, <4>2
      <4>3. CASE x < i
        <5>1. EndOf(s[x]) <= s[i].start
          BY <1>0, <3>3, <4>3 DEF Frames
        <5>2. /\ s[x].start < EndOf(s[x]) /\ s[x].start \in Nat /\ EndOf(s[x]) \in Nat
              /\ s[i].start \in Nat
          BY <1>0, <3>3, PlaceFacts
        <5> QED BY <1>0, <3>3, <4>3, <5>1, <5>2
      <4> QED BY <1>0, <3>3, <4>1, <4>2, <4>3
    <3> QED BY <3>3, <3>4, Zenon
  <2> QED BY <2>1, <2>2
<1>2. c \in 0..Len(s) /\ P(c)
  BY <1>1
<1>3. Cut(s, n) = SubSeq(s, 1, c)
  BY DEF Cut
<1> HIDE DEF c
<1> QED BY <1>2, <1>3

\* A prefix of the frames of a file is the frames of a file.
LEMMA FramesPrefix ==
    ASSUME NEW s, Frames(s), NEW k \in 0..Len(s)
    PROVE  /\ Frames(SubSeq(s, 1, k)) /\ Len(SubSeq(s, 1, k)) = k
           /\ \A i \in 1..k : SubSeq(s, 1, k)[i] = s[i] /\ i \in 1..Len(s)
           /\ \A i \in 0..k : EndAt(SubSeq(s, 1, k), i) = EndAt(s, i)
<1> DEFINE t == SubSeq(s, 1, k)
<1>0. s \in Seq(Place) /\ Len(s) \in Nat /\ Len(s) <= MaxSequence /\ MaxSequence \in Nat
  BY JournalAssumption DEF Frames
<1>1. t \in Seq(Place) /\ Len(t) = k /\ \A i \in 1..k : t[i] = s[i] /\ i \in 1..Len(s)
  BY <1>0
<1> HIDE DEF t
<1>2. ASSUME NEW i \in 0..k PROVE EndAt(t, i) = EndAt(s, i)
  <2>1. i # 0 => i \in 1..k
    BY <1>0
  <2> QED BY <1>1, <2>1 DEF EndAt
<1>3. ASSUME NEW i \in 1..k
      PROVE  /\ IsFrame(t[i].frame, i) /\ t[i].start = EndAt(t, i - 1)
             /\ kJournalFileHeaderSize <= t[i].start
  <2>1. t[i] = s[i] /\ i \in 1..Len(s) /\ i - 1 \in 0..k
    BY <1>0, <1>1
  <2>2. EndAt(t, i - 1) = EndAt(s, i - 1)
    BY <1>2, <2>1
  <2> QED BY <2>1, <2>2 DEF Frames
<1>4. \A i, j \in 1..k : i < j => EndOf(t[i]) <= t[j].start
  BY <1>1 DEF Frames
<1>5. Frames(t)
  BY <1>0, <1>1, <1>3, <1>4 DEF Frames
<1> QED BY <1>1, <1>2, <1>5 DEF t

\* A cut file is a file.
LEMMA CutLayout ==
    ASSUME NEW s, NEW sz, Layout(s, sz), NEW n \in Nat, n <= sz
    PROVE  /\ Layout(Cut(s, n), n) /\ Len(Cut(s, n)) \in 0..Len(s)
           /\ \A i \in 1..Len(Cut(s, n)) : Cut(s, n)[i] = s[i] /\ i \in 1..Len(s)
           /\ \A i \in 1..Len(s) : i <= Len(Cut(s, n)) <=> s[i].start < n
<1>0. Len(s) \in Nat /\ Frames(s) /\ sz \in Nat /\ s \in Seq(Place)
  BY DEF Layout, Frames
<1>1. PICK k \in 0..Len(s) : /\ \A i \in 1..Len(s) : i <= k <=> s[i].start < n
                             /\ Cut(s, n) = SubSeq(s, 1, k)
  BY CutIs, Zenon
<1> DEFINE t == Cut(s, n)
<1>2. /\ Frames(t) /\ Len(t) = k /\ \A i \in 1..k : t[i] = s[i] /\ i \in 1..Len(s)
      /\ t \in Seq(Place)
  BY <1>0, <1>1, FramesPrefix DEF Frames
<1> HIDE DEF t
<1>3. t = <<>> => n <= kJournalFileHeaderSize
  <2> SUFFICES ASSUME t = <<>> PROVE n <= kJournalFileHeaderSize
    OBVIOUS
  <2>1. k = 0
    BY <1>2
  <2>2. CASE s = <<>>
    BY <1>0, <2>2 DEF Layout, kJournalFileHeaderSize
  <2>3. CASE s # <<>>
    <3>1. 0 < Len(s) /\ 0 \in 0..Len(s)
      BY <1>0, <2>3
    <3>2. 1 \in 1..Len(s) /\ s[1].start = kJournalFileHeaderSize
      BY <1>0, <3>1, NextStart DEF EndAt
    <3>3. ~(s[1].start < n)
      BY <1>1, <2>1, <3>2
    <3> QED BY <3>2, <3>3 DEF kJournalFileHeaderSize
  <2> QED BY <2>2, <2>3
<1>4. t # <<>> => t[Len(t)].start < n /\ n <= EndOf(t[Len(t)])
  <2> SUFFICES ASSUME t # <<>> PROVE t[k].start < n /\ n <= EndOf(t[k])
    BY <1>2
  <2>1. k \in 1..k /\ k \in 1..Len(s) /\ k # 0
    BY <1>0, <1>1, <1>2
  <2>2. t[k] = s[k] /\ s[k].start < n
    BY <1>1, <1>2, <2>1
  <2>3. CASE k = Len(s)
    <3>1. s # <<>> /\ n <= EndOf(s[k])
      BY <1>0, <2>1, <2>3, PlaceFacts DEF Layout
    <3> QED BY <2>2, <3>1
  <2>4. CASE k < Len(s)
    <3>1. k + 1 \in 1..Len(s) /\ s[k + 1].start = EndOf(s[k])
      BY <1>0, <2>1, <2>4, NextStart DEF EndAt
    <3>2. ~(s[k + 1].start < n)
      BY <1>0, <1>1, <3>1
    <3> QED BY <1>0, <2>1, <2>2, <3>1, <3>2, PlaceFacts
  <2> QED BY <1>0, <1>1, <2>3, <2>4
<1>5. Layout(t, n)
  BY <1>2, <1>3, <1>4 DEF Layout
<1> QED BY <1>1, <1>2, <1>5 DEF t

\* The first byte of a new frame makes it the last of the file.
LEMMA AppendFrame ==
    ASSUME NEW s, Frames(s), NEW f, Len(s) + 1 <= MaxSequence, IsFrame(f, Len(s) + 1),
           NEW n \in 1..f.size
    PROVE  LET t == Append(s, [frame |-> f, start |-> EndAt(s, Len(s))]) IN
           /\ Layout(t, EndAt(s, Len(s)) + n) /\ Len(t) = Len(s) + 1
           /\ \A i \in 1..Len(s) : t[i] = s[i]
           /\ t[Len(s) + 1].frame = f /\ t[Len(s) + 1].start = EndAt(s, Len(s))
           /\ EndOf(t[Len(s) + 1]) = EndAt(s, Len(s)) + f.size
<1> DEFINE L == Len(s)
           e == EndAt(s, L)
           t == Append(s, [frame |-> f, start |-> e])
<1>0. s \in Seq(Place) /\ L \in Nat /\ MaxSequence \in Nat /\ L + 1 \in 1..MaxSequence
  BY JournalAssumption DEF Frames
<1>1. L \in 0..L /\ e \in Nat /\ kJournalFileHeaderSize <= e
  BY <1>0, EndAtFacts
<1>2. f \in FrameSet /\ f.size \in {32, 49}
  <2>1. PICK c \in JournalCommands : f = encode_record(L + 1, c)
    BY DEF IsFrame
  <2>2. f \in FrameSet
    BY <1>0, <2>1 DEF FrameSet
  <2>3. L + 1 \in Nat /\ IsFrame(f, L + 1)
    BY <1>0
  <2> HIDE DEF L
  <2>4. f.size \in {32, 49}
    BY <2>3, FrameSize
  <2> QED BY <2>2, <2>4
<1>3. [frame |-> f, start |-> e] \in Place
  BY <1>1, <1>2 DEF Place
<1>4. /\ t \in Seq(Place) /\ Len(t) = L + 1 /\ \A i \in 1..L : t[i] = s[i]
      /\ t[L + 1] = [frame |-> f, start |-> e]
  BY <1>0, <1>3
<1> HIDE DEF t, e, L
<1>5. t[L + 1].frame = f /\ t[L + 1].start = e /\ EndOf(t[L + 1]) = e + f.size
  BY <1>4 DEF EndOf
<1>6. ASSUME NEW k \in 0..L PROVE EndAt(t, k) = EndAt(s, k)
  <2>1. k # 0 => k \in 1..L
    BY <1>0
  <2> QED BY <1>4, <2>1 DEF EndAt
<1>7. ASSUME NEW k \in 1..(L + 1)
      PROVE  /\ IsFrame(t[k].frame, k) /\ t[k].start = EndAt(t, k - 1)
             /\ kJournalFileHeaderSize <= t[k].start
  <2>1. CASE k = L + 1
    <3>1. k - 1 = L /\ L \in 0..L
      BY <1>0, <2>1
    <3>2. EndAt(t, k - 1) = e
      BY <1>6, <3>1 DEF e
    <3> QED BY <1>1, <1>5, <2>1, <3>2 DEF L
  <2>2. CASE k # L + 1
    <3>1. k \in 1..L /\ k - 1 \in 0..L
      BY <1>0, <2>2
    <3>2. t[k] = s[k] /\ EndAt(t, k - 1) = EndAt(s, k - 1)
      BY <1>4, <1>6, <3>1
    <3> QED BY <3>1, <3>2 DEF Frames, L
  <2> QED BY <2>1, <2>2
<1>8. ASSUME NEW i \in 1..(L + 1), NEW j \in 1..(L + 1), i < j PROVE EndOf(t[i]) <= t[j].start
  <2>1. i \in 1..L /\ t[i] = s[i]
    BY <1>0, <1>4, <1>8
  <2>2. CASE j = L + 1
    <3>1. EndAt(s, i) <= e /\ EndAt(s, i) = EndOf(s[i])
      BY <1>0, <2>1, EndAtFacts DEF e, L, EndAt
    <3> QED BY <1>5, <2>1, <2>2, <3>1
  <2>3. CASE j # L + 1
    <3>1. j \in 1..L /\ t[j] = s[j]
      BY <1>0, <1>4, <2>3
    <3> QED BY <1>8, <2>1, <3>1 DEF Frames, L
  <2> QED BY <2>2, <2>3
<1>9. Frames(t)
  BY <1>0, <1>4, <1>7, <1>8 DEF Frames
<1>10. e + n \in Nat /\ e < e + n /\ e + n <= e + f.size
  BY <1>1, <1>2
<1>11. Layout(t, e + n)
  <2>1. t # <<>>
    BY <1>0, <1>4
  <2> QED BY <1>4, <1>5, <1>9, <1>10, <2>1 DEF Layout
<1> QED BY <1>4, <1>5, <1>11 DEF t, e, L

-----------------------------------------------------------------------------
(* What the steps leave alone.                                                 *)

LEMMA KeepFile ==
    ASSUME FileInv, DiskInv, AckInv, UNCHANGED <<written, size, disk, acknowledged>>
    PROVE  FileInv' /\ DiskInv' /\ AckInv'
BY DEF FileInv, DiskInv, AckInv

LEMMA QuietWriter ==
    ASSUME process' \notin {"none", "header", "open", "append"}
    PROVE  WriterInv'
BY DEF WriterInv

LEMMA QuietScan ==
    ASSUME process' \notin {"header_scan", "scan", "scanned", "truncate", "truncate_sync"},
           scan' = NoScan \/ (ScanInv /\ scan' = scan)
    PROVE  ScanInv'
<1>1. IsScan(scan')
  BY DEF ScanInv, NoScan, IsScan
<1> QED BY <1>1 DEF ScanInv

LEMMA KeepDamage ==
    ASSUME DamageInv, UNCHANGED <<written, disk, damage>>,
           damage = NoDamage \/ process' \in {"closed", "header_scan", "scan", "scanned"}
    PROVE  DamageInv'
BY DEF DamageInv

LEMMA Undamaged ==
    ASSUME DamageInv, process \notin {"closed", "header_scan", "scan", "scanned"}
    PROVE  damage = NoDamage
BY DEF DamageInv

LEMMA StaysUndamaged ==
    ASSUME damage = NoDamage, damage' = damage
    PROVE  DamageInv'
BY DEF DamageInv

\* fsync puts the file on disk as it is.
LEMMA FsyncDisk ==
    ASSUME FileInv, Fsync, UNCHANGED <<written, size>>
    PROVE  FileInv' /\ DiskInv' /\ disk'.kept = size
<1>1. /\ disk' = [written |-> written, size |-> size, kept |-> size]
      /\ disk'.written = written /\ disk'.size = size /\ disk'.kept = size
  BY DEF Fsync
<1>2. size \in Nat /\ Layout(written, size)
  BY DEF FileInv, Layout
<1>3. disk' = [written |-> disk'.written, size |-> disk'.size, kept |-> disk'.kept]
  BY <1>1
<1> QED BY <1>1, <1>2, <1>3 DEF FileInv, DiskInv

LEMMA FsyncAck ==
    ASSUME FileInv, DiskInv, AckInv, Fsync, UNCHANGED <<written, size, acknowledged>>
    PROVE  AckInv'
<1>1. disk'.kept = size /\ size \in Nat /\ disk.kept \in Nat /\ disk.kept <= size
  BY DEF Fsync, FileInv, Layout, DiskInv
<1>2. acknowledged > 0 => EndOf(written[acknowledged]) \in Nat
  <2>1. Len(written) \in Nat /\ Frames(written)
    BY DEF FileInv, Layout, Frames
  <2> QED BY <2>1, PlaceFacts DEF AckInv
<1> QED BY <1>1, <1>2 DEF AckInv

\* A complete file has no frame behind its last byte.
LEMMA AtEndWhole ==
    ASSUME NEW s, NEW sz, Layout(s, sz), sz = EndAt(s, Len(s))
    PROVE  Whole(s, sz, Len(s))
<1>0. Frames(s) /\ Len(s) \in Nat
  BY DEF Layout, Frames
<1>1. ASSUME NEW i \in 1..Len(s) PROVE EndOf(s[i]) <= sz
  <2>1. EndAt(s, i) <= EndAt(s, Len(s)) /\ EndAt(s, i) = EndOf(s[i])
    BY <1>0, EndAtFacts DEF EndAt
  <2> QED BY <2>1
<1> QED BY <1>0, <1>1 DEF Whole

\* What ends at the last byte is the whole file.
LEMMA WholeAtEnd ==
    ASSUME Layout(written, size), NEW m \in 0..Len(written), size = EndAt(written, m)
    PROVE  m = Len(written)
<1>0. Frames(written) /\ Len(written) \in Nat
  BY DEF Layout, Frames
<1>1. SUFFICES ASSUME m < Len(written) PROVE FALSE
  BY <1>0
<1>2. Len(written) \in 1..Len(written) /\ written # <<>>
  BY <1>0, <1>1
<1>3. written[Len(written)].start < size
  BY <1>2 DEF Layout
<1>4. EndAt(written, m) <= written[Len(written)].start
  <2>1. CASE m = 0
    BY <1>0, <1>2, <2>1 DEF EndAt, Frames
  <2>2. CASE m # 0
    <3>1. m \in 1..Len(written)
      BY <1>0, <2>2
    <3> QED BY <1>0, <1>1, <1>2, <2>2, <3>1 DEF EndAt, Frames
  <2> QED BY <2>1, <2>2
<1>5. EndAt(written, m) \in Nat /\ written[Len(written)].start \in Nat
  BY <1>0, <1>2, EndAtFacts, PlaceFacts
<1> QED BY <1>3, <1>4, <1>5

-----------------------------------------------------------------------------
(* The writer.                                                                 *)

LEMMA InitInv == Init => IInv
<1> SUFFICES ASSUME Init PROVE IInv
  OBVIOUS
<1> USE DEF Init
<1>0. MaxSequence \in Nat
  BY JournalAssumption
<1>1. Frames(<<>>)
  BY <1>0 DEF Frames
<1>2. Layout(<<>>, 0)
  BY <1>1 DEF Layout, kJournalFileHeaderSize
<1>3. FileInv
  BY <1>2 DEF FileInv
<1>4. DiskInv
  BY <1>2 DEF DiskInv
<1>5. AckInv
  BY DEF AckInv
<1>6. WriterInv
  BY DEF WriterInv
<1>7. ScanInv
  BY DEF ScanInv, NoScan, IsScan
<1>8. DamageInv
  BY DEF DamageInv
<1> QED BY <1>3, <1>4, <1>5, <1>6, <1>7, <1>8 DEF IInv

LEMMA CreateStep == ASSUME IInv, Create PROVE IInv'
<1>1. process = "none" /\ process' = "header" /\ left' = kJournalFileHeaderSize
      /\ UNCHANGED <<written, size, disk, damage, frames, next_sequence_, scan, acknowledged>>
  BY DEF Create, file_vars
<1>2. FileInv' /\ DiskInv' /\ AckInv'
  BY <1>1, KeepFile DEF IInv
<1>3. WriterInv'
  BY <1>1 DEF IInv, WriterInv, kJournalFileHeaderSize
<1>4. ScanInv'
  BY <1>1, QuietScan DEF IInv
<1>5. DamageInv'
  BY <1>1, Undamaged, StaysUndamaged DEF IInv
<1> QED BY <1>2, <1>3, <1>4, <1>5 DEF IInv

LEMMA WriteHeaderStep == ASSUME IInv, NEW n \in 1..left, WriteHeader(n) PROVE IInv'
<1>1. /\ process = "header" /\ process' = "header" /\ size' = size + n /\ left' = left - n
      /\ UNCHANGED <<written, disk, damage, frames, next_sequence_, scan, acknowledged>>
  BY DEF WriteHeader
<1>2. /\ written = <<>> /\ disk.kept = 0 /\ left \in 0..kJournalFileHeaderSize
      /\ size + left = kJournalFileHeaderSize /\ size \in Nat
  BY <1>1 DEF IInv, WriterInv, FileInv, Layout
<1>3. left' \in 0..kJournalFileHeaderSize /\ size' + left' = kJournalFileHeaderSize
      /\ size' \in Nat /\ size' <= kJournalFileHeaderSize
  BY <1>1, <1>2 DEF kJournalFileHeaderSize
<1>4. FileInv'
  BY <1>1, <1>2, <1>3 DEF IInv, FileInv, Layout
<1>5. DiskInv'
  <2>1. disk'.kept <= size'
    BY <1>1, <1>2, <1>3
  <2> QED BY <1>1, <2>1 DEF IInv, DiskInv
<1>6. AckInv'
  BY <1>1 DEF IInv, AckInv
<1>7. WriterInv'
  BY <1>1, <1>2, <1>3 DEF WriterInv
<1>8. ScanInv'
  BY <1>1, QuietScan DEF IInv
<1>9. DamageInv'
  BY <1>1, Undamaged, StaysUndamaged DEF IInv
<1> QED BY <1>4, <1>5, <1>6, <1>7, <1>8, <1>9 DEF IInv

LEMMA OpenInv ==
    ASSUME NEW sequence, OpenWriter(sequence), FileInv, UNCHANGED <<written, size>>, AtEnd(sequence)
    PROVE  WriterInv' /\ ScanInv'
<1>1. process' = "open" /\ next_sequence_' = sequence /\ scan' = NoScan
  BY DEF OpenWriter
<1>2. WriterInv'
  BY <1>1 DEF WriterInv, AtEnd
<1>3. ScanInv'
  BY <1>1, QuietScan
<1> QED BY <1>2, <1>3

LEMMA CreateSyncStep == ASSUME IInv, CreateSync PROVE IInv'
<1>1. /\ process = "header" /\ left = 0 /\ Fsync /\ OpenWriter(1)
      /\ UNCHANGED <<written, size, damage, acknowledged>>
  BY DEF CreateSync
<1>2. FileInv' /\ DiskInv' /\ AckInv'
  BY <1>1, FsyncDisk, FsyncAck DEF IInv
<1>3. AtEnd(1)
  <2>1. written = <<>> /\ size = kJournalFileHeaderSize
    BY <1>1 DEF IInv, WriterInv, FileInv, Layout, kJournalFileHeaderSize
  <2>2. MaxSequence # 0 /\ Len(written) = 0
    BY <2>1, JournalAssumption
  <2> QED BY <2>1, <2>2 DEF AtEnd, EndAt, SequenceAfter
<1>4. WriterInv' /\ ScanInv'
  BY <1>1, <1>3, OpenInv DEF IInv
<1>5. DamageInv'
  BY <1>1, Undamaged, StaysUndamaged DEF IInv
<1> QED BY <1>2, <1>4, <1>5 DEF IInv

LEMMA AppendStep ==
    ASSUME IInv, NEW commands \in Batches, append_batch_and_sync(commands) PROVE IInv'
<1>1. /\ process = "open" /\ process' = "append" /\ commands # <<>> /\ Len(commands) <= Available
      /\ frames' = [i \in DOMAIN commands |-> encode_record(next_sequence_ + i - 1, commands[i])]
      /\ left' = frames'[1].size
      /\ UNCHANGED <<written, size, disk, damage, next_sequence_, scan, acknowledged>>
  BY DEF append_batch_and_sync, file_vars
<1>2. PICK b \in 1..MaxBatch : commands \in [1..b -> JournalCommands]
  BY DEF Batches
<1>3. DOMAIN commands = 1..b /\ b \in Nat \ {0} /\ Len(commands) = b
  BY <1>2, JournalAssumption
<1>4. /\ size = EndAt(written, Len(written)) /\ next_sequence_ = SequenceAfter(Len(written))
      /\ Len(written) \in Nat
  BY <1>1, FileShape, Zenon DEF IInv, WriterInv, AtEnd
<1>5. /\ next_sequence_ = Len(written) + 1 /\ Len(written) + b <= MaxSequence
      /\ MaxSequence \in Nat
  BY <1>1, <1>3, <1>4, JournalAssumption DEF Available, SequenceAfter
<1>6. ASSUME NEW i \in 1..b
      PROVE  IsFrame(frames'[i], Len(written) + i) /\ frames'[i] \in FrameSet
  <2>1. commands[i] \in JournalCommands /\ frames'[i] = encode_record(next_sequence_ + i - 1, commands[i])
    BY <1>1, <1>2, <1>3
  <2>2. next_sequence_ + i - 1 = Len(written) + i /\ Len(written) + i \in 1..MaxSequence
    BY <1>3, <1>4, <1>5
  <2> QED BY <2>1, <2>2 DEF IsFrame, FrameSet
<1>7. frames' \in Seq(FrameSet) /\ Len(frames') = b /\ frames' # <<>>
  <2>1. frames' \in [1..b -> FrameSet]
    BY <1>1, <1>3, <1>6
  <2> QED BY <1>3, <2>1
<1>8. Base' = Len(written)
  BY <1>1 DEF Base
<1>9. left' \in 1..frames'[1].size
  <2>1. 1 \in 1..b /\ Len(written) + 1 \in Nat
    BY <1>3, <1>4
  <2>2. frames'[1].size \in {32, 49}
    BY <1>6, <2>1, FrameSize
  <2> QED BY <1>1, <2>2
<1>10. ~(left' < frames'[1].size)
  BY <1>1, <1>9
<1>11. WriterInv'
  BY <1>1, <1>4, <1>5, <1>6, <1>7, <1>8, <1>9, <1>10, ZenonT(30) DEF WriterInv
<1>12. FileInv' /\ DiskInv' /\ AckInv'
  BY <1>1, KeepFile DEF IInv
<1>13. ScanInv'
  BY <1>1, QuietScan DEF IInv
<1>14. DamageInv'
  BY <1>1, Undamaged, StaysUndamaged DEF IInv
<1> QED BY <1>11, <1>12, <1>13, <1>14 DEF IInv

\* Bytes behind the kept ones do not touch what is on disk or acknowledged.
LEMMA GrowFile ==
    ASSUME FileInv, DiskInv, AckInv, UNCHANGED <<disk, acknowledged>>, size' \in Nat, size <= size',
           FileInv', Len(written) <= Len(written'), \A i \in 1..Len(written) : written'[i] = written[i],
           \A i \in 1..Len(written') : i \in 1..Len(written) \/ written'[i].start >= size
    PROVE  DiskInv' /\ AckInv'
<1>0. /\ Len(written) \in Nat /\ Len(written') \in Nat /\ size \in Nat /\ disk.kept \in Nat
      /\ disk.kept <= size /\ Frames(written)
  BY DEF FileInv, Layout, Frames, DiskInv
<1>1. \A i \in 1..Len(written') : written'[i].start \in Nat
  BY PlaceFacts, ZenonT(30) DEF FileInv, Layout
<1>2. ASSUME NEW k \in 1..Len(written'), written'[k].start < disk.kept
      PROVE  k \in 1..Len(disk.written) /\ disk.written[k] = written'[k]
  <2>1. k \in 1..Len(written)
    BY <1>0, <1>1, <1>2
  <2> QED BY <1>2, <2>1 DEF DiskInv
<1>3. ASSUME NEW k \in 1..Len(disk.written), disk.written[k].start < disk.kept
      PROVE  k \in 1..Len(written') /\ disk.written[k] = written'[k]
  BY <1>0, <1>3 DEF DiskInv
<1>4. disk.kept <= size'
  BY <1>0
<1>5. DiskInv'
  BY <1>2, <1>3, <1>4 DEF DiskInv
<1>6. AckInv'
  <2>1. acknowledged \in 0..Len(written')
    BY <1>0 DEF AckInv
  <2>2. acknowledged > 0 => acknowledged \in 1..Len(written)
    BY <1>0 DEF AckInv
  <2> QED BY <2>1, <2>2 DEF AckInv
<1> QED BY <1>5, <1>6

\* What write_all has before it.
LEMMA AppendFacts ==
    ASSUME IInv, process = "append", frames # <<>>
    PROVE  /\ frames \in Seq(FrameSet) /\ Len(frames) \in Nat \ {0} /\ Base \in Nat
           /\ Len(written) \in Nat /\ Base + Len(frames) <= MaxSequence
           /\ \A i \in 1..Len(frames) : IsFrame(frames[i], Base + i) /\ frames[i].size \in {32, 49}
           /\ left \in 1..frames[1].size /\ left \in Nat /\ size \in Nat
           /\ left = frames[1].size => Base = Len(written) /\ size = EndAt(written, Len(written))
           /\ left # frames[1].size => /\ Base = Len(written) - 1 /\ written # <<>>
                                       /\ written[Len(written)].frame = frames[1]
                                       /\ size + left = EndOf(written[Len(written)])
<1>1. /\ frames \in Seq(FrameSet) /\ \A i \in 1..Len(frames) : IsFrame(frames[i], Base + i)
      /\ Base + Len(frames) <= MaxSequence /\ left \in 1..frames[1].size
      /\ left = frames[1].size => size = EndAt(written, Len(written))
      /\ left < frames[1].size => /\ written # <<>> /\ written[Len(written)].frame = frames[1]
                                  /\ size + left = EndOf(written[Len(written)])
  BY ZenonT(30) DEF IInv, WriterInv
<1>2. written \in Seq(Place) /\ Len(written) \in Nat /\ size \in Nat
  BY FileShape, Zenon
<1>3. Len(frames) \in Nat \ {0} /\ 1 \in 1..Len(frames)
  BY <1>1
<1>4. ASSUME NEW f \in FrameSet PROVE f.size \in {32, 49}
  <2>1. PICK k \in 1..MaxSequence, c \in JournalCommands : f = encode_record(k, c)
    BY DEF FrameSet
  <2>2. k \in Nat /\ IsFrame(f, k)
    BY <2>1, JournalAssumption DEF IsFrame
  <2> QED BY <2>2, FrameSize
<1>5. \A i \in 1..Len(frames) : frames[i].size \in {32, 49}
  BY <1>1, <1>4
<1>6. left \in Nat /\ (left # frames[1].size => left < frames[1].size)
  BY <1>1, <1>3, <1>5
<1>7. /\ left = frames[1].size => Base = Len(written)
      /\ left # frames[1].size => Base = Len(written) - 1
  BY DEF Base
<1>8. Base \in Nat
  <2>1. CASE left = frames[1].size
    BY <1>2, <1>7, <2>1
  <2>2. CASE left # frames[1].size
    <3>1. written # <<>>
      BY <1>1, <1>6, <2>2
    <3>2. Len(written) # 0
      BY <1>2, <3>1
    <3> QED BY <1>2, <1>7, <2>2, <3>2
  <2> QED BY <2>1, <2>2
<1> HIDE DEF Base
<1> QED BY <1>1, <1>2, <1>3, <1>5, <1>6, <1>7, <1>8

\* One ::write puts the file some bytes further into the frame at hand.
LEMMA WriteFile ==
    ASSUME IInv, NEW n \in 1..left, write_all(n)
    PROVE  /\ FileInv' /\ DiskInv' /\ AckInv'
           /\ Len(written') = Base + 1 /\ written'[Base + 1].frame = frames[1]
           /\ \A i \in 1..Base : written'[i] = written[i]
           /\ n = left => size' = EndOf(written'[Base + 1])
           /\ n # left => size' + (left - n) = EndOf(written'[Base + 1])
<1>1. /\ process = "append" /\ frames # <<>> /\ size' = size + n
      /\ UNCHANGED <<disk, acknowledged>>
      /\ left = frames[1].size => written' = Append(written, [frame |-> frames[1], start |-> size])
      /\ left # frames[1].size => written' = written
  BY ZenonT(30) DEF write_all
<1> DEFINE f == frames[1]
           L == Len(written)
<1>2. /\ L \in Nat /\ Base \in Nat /\ left \in 1..f.size /\ f.size \in {32, 49} /\ size \in Nat
      /\ IsFrame(f, Base + 1) /\ Base + 1 <= MaxSequence
      /\ left = f.size => Base = L /\ size = EndAt(written, L)
      /\ left # f.size => /\ Base = L - 1 /\ written # <<>> /\ written[L].frame = f
                          /\ size + left = EndOf(written[L])
  <2>1. 1 \in 1..Len(frames) /\ Len(frames) >= 1
    BY <1>1, AppendFacts
  <2>2. Base + 1 <= MaxSequence
    <3>1. Base \in Nat /\ Len(frames) \in Nat \ {0} /\ Base + Len(frames) <= MaxSequence
      BY <1>1, AppendFacts, ZenonT(30)
    <3>2. MaxSequence \in Nat
      BY JournalAssumption, ZenonT(30)
    <3> QED BY <3>1, <3>2
  <2> QED BY <1>1, <2>1, <2>2, AppendFacts, ZenonT(30)
<1>3. n \in Nat \ {0} /\ n <= left /\ n \in 1..f.size /\ size' \in Nat /\ size < size'
  BY <1>1, <1>2
<1>4. FileInv /\ DiskInv /\ AckInv /\ Frames(written)
  BY FileShape, Zenon DEF IInv
<1>5. CASE left = f.size
  <2> DEFINE t == Append(written, [frame |-> f, start |-> EndAt(written, L)])
  <2>1. /\ Layout(t, EndAt(written, L) + n) /\ Len(t) = L + 1
        /\ \A i \in 1..L : t[i] = written[i]
        /\ t[L + 1].frame = f /\ t[L + 1].start = EndAt(written, L)
        /\ EndOf(t[L + 1]) = EndAt(written, L) + f.size
    <3> HIDE DEF f
    <3> QED BY <1>2, <1>3, <1>4, <1>5, AppendFrame, ZenonT(30)
  <2>2. written' = t
    BY <1>1, <1>2, <1>5
  <2> HIDE DEF t, f, L
  <2>3. FileInv'
    BY <1>1, <1>2, <1>5, <2>1, <2>2 DEF FileInv
  <2>4. /\ Len(written) <= Len(written') /\ \A i \in 1..Len(written) : written'[i] = written[i]
        /\ \A i \in 1..Len(written') : i \in 1..Len(written) \/ written'[i].start >= size
    <3>1. \A i \in 1..(L + 1) : i \in 1..L \/ i = L + 1
      BY <1>2
    <3> QED BY <1>2, <1>5, <2>1, <2>2, <3>1 DEF L
  <2>5. DiskInv' /\ AckInv'
    <3>1. size' \in Nat /\ size <= size'
      BY <1>2, <1>3
    <3> QED BY <1>1, <1>4, <2>3, <2>4, <3>1, GrowFile
  <2>6. /\ n = left => size' = EndOf(written'[L + 1])
        /\ n # left => size' + (left - n) = EndOf(written'[L + 1])
    BY <1>1, <1>2, <1>3, <1>5, <2>1, <2>2
  <2> QED BY <1>2, <1>5, <2>1, <2>2, <2>3, <2>5, <2>6, ZenonT(30) DEF f
<1>6. CASE left # f.size
  <2>1. written' = written /\ Base + 1 = L /\ Len(written') = L
    BY <1>1, <1>2, <1>6
  <2> HIDE DEF f
  <2>2. /\ n = left => size' = EndOf(written[L])
        /\ n # left => size' + (left - n) = EndOf(written[L])
    BY <1>1, <1>2, <1>3, <1>6, <2>1
  <2>3. size' <= EndOf(written[L])
    BY <1>1, <1>2, <1>3, <1>6
  <2>4. L \in 1..L
    BY <1>2, <2>1
  <2>5. written[L].start < size'
    <3>1. written[L].start < size /\ written[L].start \in Nat
      BY <1>2, <1>4, <1>6, <2>4, PlaceFacts DEF FileInv, Layout
    <3> QED BY <1>2, <1>3, <3>1
  <2>6. FileInv'
    BY <1>2, <1>3, <1>4, <1>6, <2>1, <2>3, <2>5 DEF FileInv, Layout
  <2>7. DiskInv' /\ AckInv'
    <3>1. /\ Len(written) <= Len(written') /\ \A i \in 1..Len(written) : written'[i] = written[i]
          /\ \A i \in 1..Len(written') : i \in 1..Len(written) \/ written'[i].start >= size
      BY <1>2, <2>1
    <3> QED BY <1>1, <1>2, <1>3, <1>4, <2>6, <3>1, GrowFile
  <2> QED BY <1>2, <1>6, <2>1, <2>2, <2>6, <2>7, ZenonT(30) DEF f
<1> QED BY <1>5, <1>6, ZenonT(30)

LEMMA WriteStep == ASSUME IInv, NEW n \in 1..left, write_all(n) PROVE IInv'
<1>1. /\ process = "append" /\ process' = "append" /\ frames # <<>>
      /\ UNCHANGED <<disk, damage, next_sequence_, scan, acknowledged>>
      /\ n = left => frames' = Tail(frames)
      /\ n # left => frames' = frames
      /\ n < left => left' = left - n
      /\ n = left /\ Len(frames) > 1 => left' = frames[2].size
  <2>1. left' = IF n < left THEN left - n ELSE IF Len(frames) = 1 THEN 0 ELSE frames[2].size
    BY DEF write_all
  <2>2. left \in Nat /\ Len(frames) \in Nat
    BY AppendFacts DEF write_all
  <2>3. n = left => ~(n < left)
    BY <2>2
  <2>4. \A m \in Nat : m > 1 => m # 1
    OBVIOUS
  <2>5. Len(frames) > 1 => Len(frames) # 1
    BY <2>2, <2>4, Zenon
  <2> QED BY <2>1, <2>3, <2>5, Zenon DEF write_all
<1> DEFINE f == frames[1]
           B == Base + 1
<1>2. /\ FileInv' /\ DiskInv' /\ AckInv'
      /\ Len(written') = B /\ written'[B].frame = f
      /\ n = left => size' = EndOf(written'[B])
      /\ n # left => size' + (left - n) = EndOf(written'[B])
  BY WriteFile
<1>3. /\ frames \in Seq(FrameSet) /\ Len(frames) \in Nat \ {0} /\ Base \in Nat
      /\ Base + Len(frames) <= MaxSequence /\ left \in 1..f.size /\ f.size \in {32, 49}
      /\ left \in Nat
      /\ \A i \in 1..Len(frames) : IsFrame(frames[i], Base + i) /\ frames[i].size \in {32, 49}
  BY <1>1, AppendFacts
<1>4. written' \in Seq(Place) /\ size' \in Nat /\ Frames(written')
  BY <1>2 DEF FileInv, Layout, Frames
<1>5. B \in Nat \ {0} /\ written' # <<>> /\ MaxSequence \in Nat
  BY <1>2, <1>3, <1>4, JournalAssumption
<1>6. ASSUME n # left PROVE WriterInv'
  <2>1. frames' = frames /\ left' = left - n /\ left' \in 1..f.size /\ left' < f.size
    BY <1>1, <1>3, <1>6
  <2>2. Base' = Base
    <3>1. Base' = Len(written') - 1
      BY <2>1 DEF Base
    <3> QED BY <1>2, <1>3, <3>1
  <2> HIDE DEF Base
  <2>3. \A i \in 1..Len(frames') : IsFrame(frames'[i], Base' + i)
    BY <1>3, <2>1, <2>2
  <2>4. Base' + Len(frames') <= MaxSequence /\ frames' \in Seq(FrameSet)
    BY <1>3, <2>1, <2>2
  <2>5. left' \in 1..frames'[1].size /\ left' # frames'[1].size
    BY <1>3, <2>1
  <2>6. /\ written'[Len(written')].frame = frames'[1]
        /\ size' + left' = EndOf(written'[Len(written')])
    BY <1>2, <1>6, <2>1
  <2> QED BY <1>1, <1>5, <2>1, <2>3, <2>4, <2>5, <2>6, Zenon DEF WriterInv
<1>7. ASSUME n = left PROVE WriterInv'
  <2>1. frames' = Tail(frames) /\ size' = EndOf(written'[B])
    BY <1>1, <1>2, <1>7
  <2>2. size' = EndAt(written', Len(written'))
    BY <1>2, <1>5, <2>1 DEF EndAt
  <2>3. CASE ~(Len(frames) > 1)
    <3>1. frames \in Seq(FrameSet) /\ Len(frames) <= 1 /\ frames # <<>>
      BY <1>1, <1>3, <2>3
    <3>2. frames' = <<>>
      BY <2>1, <3>1
    <3> QED BY <1>1, <1>5, <2>2, <3>2, Zenon DEF WriterInv
  <2>4. CASE Len(frames) > 1
    <3>1. /\ frames' \in Seq(FrameSet) /\ Len(frames') = Len(frames) - 1 /\ frames' # <<>>
          /\ 1 \in 1..Len(frames') /\ \A i \in 1..Len(frames') : frames'[i] = frames[i + 1]
      <4>1. frames \in Seq(FrameSet) /\ frames' = Tail(frames)
        BY <1>3, <2>1
      <4> QED BY <2>4, <4>1
    <3>2. left' = frames[2].size /\ frames'[1] = frames[2] /\ 2 \in 1..Len(frames)
      BY <1>1, <1>3, <1>7, <2>4, <3>1
    <3>3. left' = frames'[1].size /\ left' \in {32, 49}
      BY <1>3, <3>2
    <3>4. Base' = B
      BY <1>2, <3>3 DEF Base
    <3> HIDE DEF Base, B
    <3>5. ASSUME NEW i \in 1..Len(frames') PROVE IsFrame(frames'[i], Base' + i)
      <4>1. Len(frames') = Len(frames) - 1 /\ Len(frames) \in Nat /\ Base \in Nat
        BY <1>3, <3>1
      <4>2. i \in Nat /\ i + 1 \in 1..Len(frames)
        BY <4>1
      <4>3. \A b, k \in Nat : (b + 1) + k = b + (k + 1)
        OBVIOUS
      <4>4. Base' + i = Base + (i + 1)
        BY <3>4, <4>1, <4>2, <4>3, Zenon DEF B
      <4> QED BY <1>3, <3>1, <4>2, <4>4, Zenon
    <3>6. Base' + Len(frames') <= MaxSequence
      BY <1>3, <1>5, <3>1, <3>4 DEF B
    <3>7. left' \in 1..frames'[1].size /\ ~(left' < frames'[1].size)
      BY <3>3
    <3> QED BY <1>1, <2>2, <3>1, <3>5, <3>6, <3>7, Zenon DEF WriterInv
  <2> QED BY <2>3, <2>4
<1>8. ScanInv'
  BY <1>1, QuietScan DEF IInv
<1>9. DamageInv'
  BY <1>1, Undamaged, StaysUndamaged DEF IInv
<1> QED BY <1>2, <1>6, <1>7, <1>8, <1>9 DEF IInv

LEMMA AppendSyncStep == ASSUME IInv, AppendSync PROVE IInv'
<1>1. /\ process = "append" /\ frames = <<>> /\ Fsync /\ acknowledged' = Len(written)
      /\ OpenWriter(SequenceAfter(written[Len(written)].frame.sequence))
      /\ UNCHANGED <<written, size, damage>>
  BY DEF AppendSync
<1>2. /\ written # <<>> /\ size = EndAt(written, Len(written)) /\ Frames(written)
      /\ written \in Seq(Place) /\ Len(written) \in Nat
  <2>1. written # <<>> /\ size = EndAt(written, Len(written))
    BY <1>1, Zenon DEF IInv, WriterInv
  <2> QED BY <2>1, FileShape, Zenon
<1>3. Len(written) \in 1..Len(written) /\ Len(written) # 0
  BY <1>2
<1>4. FileInv' /\ DiskInv' /\ disk'.kept = size
  BY <1>1, FsyncDisk DEF IInv
<1>5. size = EndOf(written[Len(written)]) /\ size \in Nat
  BY <1>2, <1>3, PlaceFacts DEF EndAt
<1>6. AckInv'
  BY <1>1, <1>3, <1>4, <1>5 DEF AckInv
<1>7. AtEnd(SequenceAfter(written[Len(written)].frame.sequence))
  BY <1>2, <1>3, PlaceFacts DEF AtEnd
<1>8. WriterInv' /\ ScanInv'
  BY <1>1, <1>7, OpenInv DEF IInv
<1>9. DamageInv'
  BY <1>1, Undamaged, StaysUndamaged DEF IInv
<1> QED BY <1>4, <1>6, <1>8, <1>9 DEF IInv

-----------------------------------------------------------------------------
(* The scan.                                                                   *)

\* A step of the scan changes nothing but the scan.
LEMMA ScanOnly ==
    ASSUME IInv, UNCHANGED <<written, size, disk, damage, acknowledged>>,
           process' \in {"header_scan", "scan", "scanned"}, ScanInv'
    PROVE  IInv'
<1>1. FileInv' /\ DiskInv' /\ AckInv'
  BY KeepFile DEF IInv
<1>2. WriterInv'
  BY QuietWriter
<1>3. DamageInv'
  BY KeepDamage DEF IInv
<1> QED BY <1>1, <1>2, <1>3 DEF IInv

\* What a scan that goes on, and one that has ended, must leave.
LEMMA ScanGoesOn ==
    ASSUME NEW m \in Nat, IsScan(scan'), ReadTo(m)', Len(scan'.records) = m, m < MaxSequence,
           scan'.valid_size <= size', scan'.has_truncated_tail = FALSE,
           damage' # NoDamage => m < damage'.frame, process' = "scan"
    PROVE  ScanInv'
BY Zenon DEF ScanInv

LEMMA ScanEnds ==
    ASSUME IsScan(scan'), process' = "scanned",
           damage' = NoDamage =>
              IF size' < kJournalFileHeaderSize THEN scan'.error = "TruncatedInput"
              ELSE \E m \in 0..Len(written') : ReadAll(m)',
           damage' # NoDamage => scan'.error # "None"
    PROVE  ScanInv'
BY Zenon DEF ScanInv

LEMMA OpenStep == ASSUME IInv, NEW call \in Calls, Open(call) PROVE IInv'
<1>1. /\ process' = "header_scan" /\ scan' = [NoScan EXCEPT !.call = call]
      /\ UNCHANGED <<written, size, disk, damage, acknowledged>>
  BY DEF Open, file_vars
<1>2. scan'.call = call /\ IsScan(scan')
  BY <1>1, Zenon DEF NoScan, IsScan
<1>3. ScanInv'
  BY <1>1, <1>2, Zenon DEF ScanInv
<1> QED BY <1>1, <1>3, ScanOnly

\* Which bytes are damaged.
LEMMA DamageFacts ==
    ASSUME IInv, damage # NoDamage
    PROVE  /\ damage.frame \in Nat
           /\ damage.field \in {"type", "length", "sequence"} => damage.value \in Nat
           /\ damage.frame = 0 => /\ damage.field \in DOMAIN encode_file_header
                                  /\ encode_file_header[damage.field] # damage.value
           /\ damage.frame # 0 => /\ damage.frame \in 1..Len(written)
                                  /\ damage.field \in FrameFields
                                  /\ EndOf(written[damage.frame]) <= size
                                  /\ written[damage.frame].frame[damage.field] # damage.value
           /\ kJournalFileHeaderSize <= size
<1>1. /\ damage \in Damages
      /\ \/ /\ damage.frame = 0 /\ disk.kept >= kJournalFileHeaderSize
            /\ encode_file_header[damage.field] # damage.value
         \/ /\ damage.frame \in 1..Len(written) /\ EndOf(written[damage.frame]) <= disk.kept
            /\ written[damage.frame].frame[damage.field] # damage.value
  BY DEF IInv, DamageInv
<1>2. /\ damage.frame \in Nat
      /\ damage.field \in IF damage.frame = 0 THEN DOMAIN encode_file_header ELSE FrameFields
      /\ damage.field \in {"type", "length", "sequence"} => damage.value \in Nat
  BY <1>1, JournalAssumption
<1>3. disk.kept \in Nat /\ size \in Nat /\ disk.kept <= size /\ Frames(written) /\ Len(written) \in Nat
  BY FileShape, DiskShape, Zenon
<1>4. CASE damage.frame = 0
  <2>1. disk.kept >= kJournalFileHeaderSize /\ encode_file_header[damage.field] # damage.value
    BY <1>1, <1>4
  <2> QED BY <1>2, <1>3, <1>4, <2>1 DEF kJournalFileHeaderSize
<1>5. CASE damage.frame # 0
  <2>1. /\ damage.frame \in 1..Len(written) /\ EndOf(written[damage.frame]) <= disk.kept
        /\ written[damage.frame].frame[damage.field] # damage.value
    BY <1>1, <1>5
  <2>2. EndOf(written[damage.frame]) \in Nat /\ kJournalFileHeaderSize <= EndOf(written[damage.frame])
    <3>1. EndAt(written, damage.frame) = EndOf(written[damage.frame])
      BY <1>5 DEF EndAt
    <3>2. damage.frame \in 0..Len(written)
      BY <1>3, <2>1
    <3> QED BY <1>3, <3>1, <3>2, EndAtNat, Zenon
  <2>3. EndOf(written[damage.frame]) <= size /\ kJournalFileHeaderSize <= size
    BY <1>3, <2>1, <2>2 DEF kJournalFileHeaderSize
  <2> QED BY <1>2, <1>5, <2>1, <2>3
<1> QED BY <1>4, <1>5

LEMMA ScanHeaderStep == ASSUME IInv, ScanHeader PROVE IInv'
<1> DEFINE h == Damaged(encode_file_header, 0)
           error == decode_file_header(Smaller(size, kJournalFileHeaderSize), h)
<1>1. /\ process = "header_scan" /\ UNCHANGED <<written, size, disk, damage, acknowledged>>
      /\ error # "None" => process' = "scanned" /\ scan' = [scan EXCEPT !.error = error]
      /\ error = "None" => /\ process' = "scan"
                           /\ scan' = [scan EXCEPT !.valid_size = kJournalFileHeaderSize]
  BY DEF ScanHeader, ScanFails, file_vars
<1>2. scan = [NoScan EXCEPT !.call = scan.call]
  BY <1>1 DEF IInv, ScanInv
<1>3. size \in Nat /\ Smaller(size, kJournalFileHeaderSize) \in Nat
  BY FileShape DEF Smaller, kJournalFileHeaderSize
<1>4. /\ damage.frame # 0 =>
            error = IF size < kJournalFileHeaderSize THEN "TruncatedInput" ELSE "None"
      /\ damage.frame = 0 => error # "None"
  <2>1. CASE damage.frame # 0
    BY <1>3, <2>1, HeaderDecoded DEF Damaged
  <2>2. CASE damage.frame = 0
    <3>1. damage # NoDamage
      BY <2>2 DEF NoDamage
    <3>2. damage.field \in DOMAIN encode_file_header /\ encode_file_header[damage.field] # damage.value
      BY <2>2, <3>1, DamageFacts
    <3>3. h = [encode_file_header EXCEPT ![damage.field] = damage.value]
      BY <2>2 DEF Damaged
    <3> HIDE DEF h
    <3> QED BY <1>3, <2>2, <3>2, <3>3, DamagedHeader, Zenon
  <2> QED BY <2>1, <2>2
<1>5. damage = NoDamage => damage.frame # 0
  BY DEF NoDamage
<1> HIDE DEF error
<1>6. CASE error # "None"
  <2>1. process' = "scanned" /\ scan' = [scan EXCEPT !.error = error]
    BY <1>1, <1>6
  <2>2. IsScan(scan') /\ scan'.error = error
    BY <1>2, <2>1 DEF IsScan, NoScan
  <2>3. damage = NoDamage => size < kJournalFileHeaderSize /\ error = "TruncatedInput"
    BY <1>4, <1>5, <1>6
  <2>4. ScanInv'
    BY <1>1, <1>6, <2>1, <2>2, <2>3, ScanEnds
  <2> QED BY <1>1, <2>1, <2>4, ScanOnly
<1>7. CASE error = "None"
  <2>1. process' = "scan" /\ scan' = [scan EXCEPT !.valid_size = kJournalFileHeaderSize]
    BY <1>1, <1>7
  <2>2. /\ IsScan(scan') /\ scan'.valid_size = kJournalFileHeaderSize /\ scan'.records = <<>>
        /\ scan'.next_sequence = 1 /\ scan'.error = "None" /\ scan'.has_truncated_tail = FALSE
    BY <1>2, <2>1 DEF IsScan, NoScan
  <2>3. damage.frame # 0 /\ ~(size < kJournalFileHeaderSize)
    BY <1>4, <1>7
  <2>4. damage # NoDamage => damage.frame \in Nat
    BY DamageFacts
  <2>5. damage # NoDamage => 0 < damage.frame
    BY <2>3, <2>4
  <2>6. kJournalFileHeaderSize <= size
    BY <1>3, <2>3 DEF kJournalFileHeaderSize
  <2>7. ReadTo(0)'
    <3>1. /\ 0 \in 0..Len(written') /\ EndAt(written', 0) = kJournalFileHeaderSize
          /\ SequenceAfter(0) = 1
      BY <1>1, FileShape, JournalAssumption DEF EndAt, SequenceAfter
    <3>2. scan'.records = [k \in 1..0 |-> [sequence |-> k, command |-> CommandOf(written'[k].frame)]]
      BY <2>2
    <3> QED BY <2>2, <3>1, <3>2 DEF ReadTo
  <2>8. 0 \in Nat /\ Len(scan'.records) = 0 /\ 0 < MaxSequence
    BY <2>2, JournalAssumption
  <2>9. ScanInv'
    BY <1>1, <2>1, <2>2, <2>5, <2>6, <2>7, <2>8, ScanGoesOn, Zenon
  <2> QED BY <1>1, <2>1, <2>9, ScanOnly
<1> QED BY <1>6, <1>7

LEMMA EndAtDiffers ==
    ASSUME NEW s, Frames(s), NEW i \in 0..Len(s), NEW j \in 0..Len(s), i < j
    PROVE  EndAt(s, i) # EndAt(s, j)
<1>1. i <= j
  BY DEF Frames
<1>2. EndAt(s, i) \in Nat /\ EndAt(s, i) < EndAt(s, j)
  BY <1>1, EndAtFacts, Zenon
<1> QED BY <1>2

\* The frame that starts where the first m end is the next one.
LEMMA NextOnly ==
    ASSUME NEW s, Frames(s), NEW m \in 0..Len(s), NEW k \in 1..Len(s), s[k].start = EndAt(s, m)
    PROVE  k = m + 1
<1>1. Len(s) \in Nat /\ k - 1 \in 0..Len(s) /\ s[k].start = EndAt(s, k - 1)
  BY DEF Frames
<1>2. PICK j \in 0..Len(s) : j = k - 1
  BY <1>1
<1>3. EndAt(s, j) = EndAt(s, m)
  BY <1>1, <1>2
<1>4. ~(j < m)
  BY <1>3, EndAtDiffers, Zenon
<1>5. ~(m < j)
  BY <1>3, EndAtDiffers, Zenon
<1> QED BY <1>1, <1>2, <1>4, <1>5

\* What decode_record_prefix makes of the bytes at the place of the k-th frame.
LEMMA FrameRead ==
    ASSUME IInv, NEW k \in 1..Len(written), written[k].start <= size, NEW d,
           d = decode_record_prefix(
                  Smaller(size - written[k].start,
                          kJournalFrameHeaderSize + kJournalMaximumPayloadLength),
                  Damaged(written[k].frame, k))
    PROVE  /\ damage.frame # k =>
                 /\ d.error = IF size < EndOf(written[k]) THEN "TruncatedInput" ELSE "None"
                 /\ d.record = [sequence |-> k, command |-> CommandOf(written[k].frame)]
                 /\ written[k].start + d.bytes_consumed = EndOf(written[k])
           /\ damage.frame = k => d.error \notin {"None", "TruncatedInput"}
<1> DEFINE f == written[k].frame
           n == Smaller(size - written[k].start,
                        kJournalFrameHeaderSize + kJournalMaximumPayloadLength)
<1>1. Frames(written) /\ size \in Nat /\ k \in Nat \ {0}
  <2>1. Frames(written) /\ size \in Nat /\ Len(written) \in Nat
    BY FileShape, Zenon
  <2>2. \A l \in Nat : \A i \in 1..l : i \in Nat \ {0}
    OBVIOUS
  <2> QED BY <2>1, <2>2, Zenon
<1>2. /\ written[k].start \in Nat /\ f.size \in {32, 49}
      /\ EndOf(written[k]) = written[k].start + f.size
  BY <1>1, PlaceFacts DEF EndOf
<1>3. PICK c \in JournalCommands : f = encode_record(k, c)
  <2>1. IsFrame(f, k)
    BY <1>1 DEF Frames
  <2> QED BY <2>1 DEF IsFrame
<1>4. n \in Nat /\ (n < f.size <=> size < EndOf(written[k]))
  <2> HIDE DEF f
  <2> QED BY <1>1, <1>2 DEF Smaller, kJournalFrameHeaderSize, kJournalMaximumPayloadLength
<1>5. d = decode_record_prefix(n, Damaged(f, k))
  OBVIOUS
<1> HIDE DEF n
<1>6. ASSUME damage.frame # k
      PROVE  /\ d.error = IF size < EndOf(written[k]) THEN "TruncatedInput" ELSE "None"
             /\ d.record = [sequence |-> k, command |-> CommandOf(f)]
             /\ written[k].start + d.bytes_consumed = EndOf(written[k])
  <2>1. d = decode_record_prefix(n, f)
    BY <1>5, <1>6 DEF Damaged
  <2> HIDE DEF f
  <2>2. /\ decode_record_prefix(n, f).error = IF n < f.size THEN "TruncatedInput" ELSE "None"
        /\ decode_record_prefix(n, f).record = [sequence |-> k, command |-> CommandOf(f)]
        /\ decode_record_prefix(n, f).bytes_consumed = f.size
    BY <1>1, <1>3, <1>4, FrameDecoded
  <2> QED BY <1>2, <1>4, <2>1, <2>2, ZenonT(30)
<1>7. ASSUME damage.frame = k PROVE d.error \notin {"None", "TruncatedInput"}
  <2>1. d = decode_record_prefix(n, [f EXCEPT ![damage.field] = damage.value])
    BY <1>5, <1>7 DEF Damaged
  <2>2. damage # NoDamage /\ damage.frame # 0
    BY <1>1, <1>7 DEF NoDamage
  <2>3. /\ damage.field \in {"type", "length", "sequence"} => damage.value \in Nat
        /\ damage.field \in FrameFields /\ f[damage.field] # damage.value
        /\ EndOf(written[k]) <= size
    BY <1>7, <2>2, DamageFacts
  <2>4. n >= f.size
    BY <1>1, <1>2, <1>4, <2>3
  <2> HIDE DEF f
  <2> QED BY <1>1, <1>3, <1>4, <2>1, <2>3, <2>4, DamagedFrame, Zenon
<1> QED BY <1>6, <1>7

\* The frame with the greatest number is the last one, and ends the file.
LEMMA LastNumber ==
    ASSUME NEW s, NEW sz, Layout(s, sz), NEW m \in Nat, m + 1 = MaxSequence, m < Len(s),
           EndOf(s[m + 1]) <= sz
    PROVE  m + 1 = Len(s) /\ sz = EndOf(s[m + 1]) /\ sz = EndAt(s, m + 1)
<1>1. Frames(s) /\ sz \in Nat /\ Len(s) \in Nat /\ Len(s) <= MaxSequence
  BY LayoutShape, Zenon
<1>2. m + 1 = Len(s) /\ m + 1 \in 1..Len(s) /\ s # <<>> /\ m + 1 # 0
  BY <1>1
<1>3. EndOf(s[m + 1]) \in Nat
  BY <1>1, <1>2, PlaceFacts, Zenon
<1>4. sz <= EndOf(s[m + 1])
  BY <1>2 DEF Layout
<1>5. sz = EndOf(s[m + 1])
  BY <1>1, <1>3, <1>4
<1> QED BY <1>2, <1>5, Zenon DEF EndAt

\* The end of the file behind the m-th frame, or within the next.
LEMMA WholeUpTo ==
    ASSUME NEW s, NEW sz, Layout(s, sz), NEW m \in 0..Len(s), EndAt(s, m) <= sz,
           m < Len(s) => sz < EndOf(s[m + 1])
    PROVE  Whole(s, sz, m)
<1>1. Frames(s) /\ sz \in Nat /\ Len(s) \in Nat
  BY DEF Layout, Frames
<1>2. ASSUME NEW i \in 1..Len(s) PROVE i <= m <=> EndOf(s[i]) <= sz
  <2>1. i \in 0..Len(s) /\ EndAt(s, i) = EndOf(s[i]) /\ EndOf(s[i]) \in Nat
    BY <1>1, PlaceFacts DEF EndAt
  <2>2. CASE i <= m
    <3>1. EndAt(s, i) <= EndAt(s, m) /\ EndAt(s, m) \in Nat
      BY <1>1, <2>1, <2>2, EndAtFacts
    <3> QED BY <1>1, <2>1, <2>2, <3>1
  <2>3. CASE m < i
    <3>1. m + 1 \in 0..Len(s) /\ m + 1 <= i /\ m + 1 # 0 /\ m < Len(s)
      BY <1>1, <2>3
    <3>2. EndAt(s, m + 1) <= EndAt(s, i) /\ EndAt(s, m + 1) \in Nat
      BY <1>1, <2>1, <3>1, EndAtFacts
    <3>3. EndAt(s, m + 1) = EndOf(s[m + 1])
      BY <3>1 DEF EndAt
    <3> QED BY <1>1, <2>1, <2>3, <3>1, <3>2, <3>3
  <2> QED BY <1>1, <2>2, <2>3
<1> QED BY <1>2 DEF Whole

\* A damaged frame of a file is complete, and so are those before it.
LEMMA DamagedComplete ==
    ASSUME IInv, damage # NoDamage, NEW k \in 1..Len(written), k <= damage.frame
    PROVE  damage.frame \in 1..Len(written) /\ EndOf(written[k]) <= size
<1>1. Frames(written) /\ size \in Nat /\ Len(written) \in Nat /\ k # 0
  BY FileShape
<1>2. damage.frame \in 1..Len(written) /\ EndOf(written[damage.frame]) <= size /\ damage.frame # 0
  BY <1>1, DamageFacts
<1>3. /\ EndAt(written, k) <= EndAt(written, damage.frame)
      /\ EndAt(written, k) \in Nat /\ EndAt(written, damage.frame) \in Nat
  BY <1>1, <1>2, EndAtFacts
<1> QED BY <1>1, <1>2, <1>3 DEF EndAt

\* The loop ends with the file.
LEMMA ScanAtEnd ==
    ASSUME IInv, process = "scan", scan.valid_size = size, process' = "scanned",
           UNCHANGED <<scan, written, size, damage>>
    PROVE  ScanInv'
<1>1. /\ IsScan(scan) /\ ReadTo(Len(scan.records)) /\ scan.has_truncated_tail = FALSE
      /\ damage # NoDamage => Len(scan.records) < damage.frame
  BY DEF IInv, ScanInv
<1>2. PICK m \in 0..Len(written) : m = Len(scan.records) /\ ReadTo(m)
  BY <1>1, Zenon DEF ReadTo
<1>3. Layout(written, size) /\ Frames(written) /\ size \in Nat /\ Len(written) \in Nat
  BY FileShape, Zenon
<1>4. size = EndAt(written, m) /\ m = Len(written)
  <2>1. size = EndAt(written, m)
    BY <1>2 DEF ReadTo
  <2> QED BY <1>3, <2>1, WholeAtEnd
<1>5. ReadAll(m)'
  <2>1. Whole(written, size, m)
    BY <1>3, <1>4, AtEndWhole
  <2> QED BY <1>1, <1>2, <2>1, Zenon DEF ReadAll, ReadTo, Whole
<1>6. kJournalFileHeaderSize <= size
  BY <1>3, <1>4, EndAtNat, Zenon
<1>7. ~(size < kJournalFileHeaderSize)
  BY <1>3, <1>6 DEF kJournalFileHeaderSize
<1>8. damage = NoDamage
  <2> SUFFICES ASSUME damage # NoDamage PROVE FALSE
    OBVIOUS
  <2>1. m < damage.frame
    BY <1>1, <1>2
  <2>2. damage.frame \in 1..Len(written)
    BY <1>3, <2>1, DamageFacts
  <2> QED BY <1>3, <1>4, <2>1, <2>2
<1>9. m \in 0..Len(written')
  OBVIOUS
<1> QED BY <1>1, <1>5, <1>7, <1>8, <1>9, ScanEnds, Zenon

\* The scan has read one frame more.
LEMMA ReadOneMore ==
    ASSUME NEW m \in Nat, m < Len(written), Frames(written), ReadTo(m), UNCHANGED written,
           scan'.records = Append(scan.records,
              [sequence |-> m + 1, command |-> CommandOf(written[m + 1].frame)]),
           scan'.valid_size = EndOf(written[m + 1]), scan'.next_sequence = SequenceAfter(m + 1),
           scan'.error = "None"
    PROVE  ReadTo(m + 1)' /\ Len(scan'.records) = m + 1
<1>1. m + 1 \in 0..Len(written) /\ m + 1 # 0
  BY DEF Frames
<1>2. scan.records = [k \in 1..m |-> [sequence |-> k, command |-> CommandOf(written[k].frame)]]
  BY DEF ReadTo
<1>3. scan'.records =
        [k \in 1..(m + 1) |-> [sequence |-> k, command |-> CommandOf(written[k].frame)]]
  BY <1>2
<1>4. Len(scan'.records) = m + 1
  BY <1>3
<1>5. scan'.valid_size = EndAt(written, m + 1)
  BY <1>1 DEF EndAt
<1> QED BY <1>1, <1>3, <1>4, <1>5 DEF ReadTo

\* The loop reads the bytes of a frame.
LEMMA ScanRecordStep ==
    ASSUME IInv, process = "scan", UNCHANGED <<written, size, damage>>, scan.valid_size # size,
           NEW k \in 1..Len(written), written[k].start = scan.valid_size, NEW d, ScanRecord(d),
           d = decode_record_prefix(
                  Smaller(size - scan.valid_size,
                          kJournalFrameHeaderSize + kJournalMaximumPayloadLength),
                  Damaged(written[k].frame, k))
    PROVE  process' \in {"scan", "scanned"} /\ ScanInv'
<1>1. /\ IsScan(scan) /\ ReadTo(Len(scan.records)) /\ scan.has_truncated_tail = FALSE
      /\ damage # NoDamage => Len(scan.records) < damage.frame
      /\ scan.valid_size <= size
  BY DEF IInv, ScanInv
<1>2. PICK m \in 0..Len(written) : m = Len(scan.records) /\ ReadTo(m)
  BY <1>1, Zenon DEF ReadTo
<1>3. /\ Layout(written, size) /\ Frames(written) /\ size \in Nat /\ Len(written) \in Nat
      /\ Len(written) <= MaxSequence /\ MaxSequence \in Nat \ {0}
  BY FileShape, JournalAssumption, Zenon
<1>4. scan.valid_size = EndAt(written, m) /\ scan.error = "None"
  BY <1>2 DEF ReadTo
<1>5. k = m + 1 /\ m \in Nat /\ m < Len(written)
  <2>1. k = m + 1
    BY <1>3, <1>4, NextOnly
  <2>2. \A l \in Nat : \A i \in 1..l : \A j \in 0..l : i = j + 1 => j \in Nat /\ j < l
    OBVIOUS
  <2> QED BY <1>3, <2>1, <2>2, Zenon
<1>6. /\ damage.frame # k =>
            /\ d.error = IF size < EndOf(written[k]) THEN "TruncatedInput" ELSE "None"
            /\ d.record = [sequence |-> k, command |-> CommandOf(written[k].frame)]
            /\ scan.valid_size + d.bytes_consumed = EndOf(written[k])
      /\ damage.frame = k => d.error \notin {"None", "TruncatedInput"}
  BY <1>1, FrameRead, ZenonT(30)
<1>7. /\ scan.valid_size \in Nat /\ kJournalFileHeaderSize <= size
      /\ EndOf(written[k]) \in Nat
  <2>1. EndAt(written, m) \in Nat /\ kJournalFileHeaderSize <= EndAt(written, m)
    BY <1>3, EndAtNat, Zenon
  <2>2. EndOf(written[k]) \in Nat
    BY <1>3, PlaceFacts, Zenon
  <2>3. \A x, y \in Nat : kJournalFileHeaderSize <= x /\ x <= y => kJournalFileHeaderSize <= y
    BY DEF kJournalFileHeaderSize
  <2> QED BY <1>1, <1>3, <1>4, <2>1, <2>2, <2>3, Zenon
<1>8. ~(size < kJournalFileHeaderSize)
  BY <1>3, <1>7 DEF kJournalFileHeaderSize
<1>9. CASE d.error = "TruncatedInput"
  <2>1. process' = "scanned" /\ scan' = [scan EXCEPT !.has_truncated_tail = TRUE]
    BY <1>9 DEF ScanRecord
  <2>2. /\ IsScan(scan') /\ scan'.has_truncated_tail = TRUE /\ scan'.records = scan.records
        /\ scan'.valid_size = scan.valid_size /\ scan'.next_sequence = scan.next_sequence
        /\ scan'.error = scan.error
    BY <1>1, <2>1, Zenon DEF IsScan
  <2>3. damage.frame # k /\ size < EndOf(written[k])
    BY <1>6, <1>9
  <2>4. damage = NoDamage
    <3> SUFFICES ASSUME damage # NoDamage PROVE FALSE
      OBVIOUS
    <3>1. m < damage.frame /\ damage.frame \in Nat
      BY <1>1, <1>2, DamageFacts, ZenonT(30)
    <3>2. k <= damage.frame
      <4>1. \A i, j \in Nat : i < j => i + 1 <= j
        OBVIOUS
      <4> QED BY <1>5, <3>1, <4>1, Zenon
    <3>3. EndOf(written[k]) <= size
      BY <3>2, DamagedComplete
    <3> QED BY <1>3, <1>7, <2>3, <3>3
  <2>5. ReadAll(m)'
    <3>1. Whole(written, size, m)
      BY <1>1, <1>3, <1>4, <1>5, <2>3, WholeUpTo
    <3> QED BY <1>2, <2>2, <3>1, Zenon DEF ReadAll, ReadTo, Whole
  <2> QED BY <1>8, <2>1, <2>2, <2>4, <2>5, ScanEnds
<1>10. CASE d.error \notin {"None", "TruncatedInput"}
  <2>1. process' = "scanned" /\ scan' = [scan EXCEPT !.error = d.error]
    BY <1>10 DEF ScanRecord, ScanFails
  <2>2. IsScan(scan') /\ scan'.error = d.error
    BY <1>1, <2>1 DEF IsScan
  <2>3. damage # NoDamage
    <3>1. damage.frame = k
      BY <1>6, <1>10
    <3> QED BY <3>1 DEF NoDamage
  <2> QED BY <1>10, <2>1, <2>2, <2>3, ScanEnds
<1>11. CASE d.error = "None"
  <2> DEFINE last == m + 1 = MaxSequence
  <2>1. damage.frame # k /\ EndOf(written[k]) <= size
    <3>1. damage.frame # k /\ ~(size < EndOf(written[k]))
      BY <1>6, <1>11, ZenonT(30)
    <3>2. \A x, y \in Nat : ~(x < y) => y <= x
      OBVIOUS
    <3> QED BY <1>3, <1>7, <3>1, <3>2, ZenonT(30)
  <2>2. /\ d.record = [sequence |-> k, command |-> CommandOf(written[k].frame)]
        /\ scan.valid_size + d.bytes_consumed = EndOf(written[k]) /\ d.record.sequence = k
    <3>1. /\ d.record = [sequence |-> k, command |-> CommandOf(written[k].frame)]
          /\ scan.valid_size + d.bytes_consumed = EndOf(written[k])
      BY <1>6, <2>1, Zenon
    <3>2. \A c : [sequence |-> k, command |-> c].sequence = k
      OBVIOUS
    <3> QED BY <3>1, <3>2, Zenon
  <2>3. last => m + 1 = Len(written) /\ size = EndOf(written[k]) /\ size = EndAt(written, m + 1)
    BY <1>3, <1>5, <2>1, LastNumber, Zenon
  <2>4. /\ process' = IF last THEN "scanned" ELSE "scan"
        /\ scan' = [scan EXCEPT !.records = Append(@, d.record),
                                !.valid_size = EndOf(written[k]),
                                !.next_sequence = SequenceAfter(m + 1)]
    BY <1>2, <1>5, <1>11, <2>2, <2>3, ZenonT(30) DEF ScanRecord
  <2>5. /\ IsScan(scan') /\ scan'.has_truncated_tail = FALSE
        /\ scan'.records = Append(scan.records, d.record)
        /\ scan'.valid_size = EndOf(written[k]) /\ scan'.next_sequence = SequenceAfter(m + 1)
        /\ scan'.error = "None"
    BY <1>1, <1>4, <2>4, Zenon DEF IsScan
  <2>6. ReadTo(m + 1)' /\ Len(scan'.records) = m + 1
    BY <1>2, <1>3, <1>5, <2>2, <2>5, ReadOneMore, ZenonT(30)
  <2>7. damage # NoDamage => m + 1 < damage.frame /\ damage.frame \in 1..Len(written)
    <3> SUFFICES ASSUME damage # NoDamage
                 PROVE  m + 1 < damage.frame /\ damage.frame \in 1..Len(written)
      OBVIOUS
    <3>1. m < damage.frame /\ damage.frame \in Nat
      BY <1>1, <1>2, DamageFacts
    <3>2. damage.frame \in 1..Len(written)
      BY <1>5, <3>1, DamageFacts
    <3> QED BY <1>5, <2>1, <3>1, <3>2
  <2> HIDE DEF last
  <2>8. CASE last
    <3>1. process' = "scanned" /\ m + 1 = Len(written) /\ size = EndAt(written, m + 1)
          /\ size = EndOf(written[k])
      BY <2>3, <2>4, <2>8
    <3>2. damage = NoDamage
      <4>1. \A i \in Nat : \A j \in 1..i : ~(i < j)
        OBVIOUS
      <4> QED BY <1>3, <2>7, <3>1, <4>1, Zenon
    <3>3. ReadAll(m + 1)'
      <4>1. Whole(written, size, m + 1)
        BY <1>3, <3>1, AtEndWhole
      <4> QED BY <2>5, <2>6, <3>1, <4>1, Zenon DEF ReadAll, Whole
    <3>4. m + 1 \in 0..Len(written')
      BY <1>3, <3>1
    <3> QED BY <1>8, <2>5, <3>1, <3>2, <3>3, <3>4, ScanEnds
  <2>9. CASE ~last
    <3>1. process' = "scan" /\ m + 1 < MaxSequence /\ m + 1 \in Nat
      BY <1>3, <1>5, <2>4, <2>9 DEF last
    <3>2. scan'.valid_size <= size' /\ (damage' # NoDamage => m + 1 < damage'.frame)
      BY <2>1, <2>5, <2>7
    <3> QED BY <2>5, <2>6, <3>1, <3>2, ScanGoesOn, Zenon
  <2> QED BY <2>8, <2>9
<1> QED BY <1>9, <1>10, <1>11

LEMMA ScanFrameStep == ASSUME IInv, ScanFrame PROVE IInv'
<1>1. process = "scan" /\ UNCHANGED <<written, size, disk, damage, acknowledged>>
  BY DEF ScanFrame, file_vars
<1>2. CASE scan.valid_size = size
  <2>1. process' = "scanned" /\ UNCHANGED scan
    BY <1>2 DEF ScanFrame
  <2> QED BY <1>1, <1>2, <2>1, ScanAtEnd, ScanOnly
<1>3. CASE scan.valid_size # size
  <2>1. PICK k \in 1..Len(written) :
            /\ written[k].start = scan.valid_size
            /\ ScanRecord(decode_record_prefix(
                  Smaller(size - scan.valid_size,
                          kJournalFrameHeaderSize + kJournalMaximumPayloadLength),
                  Damaged(written[k].frame, k)))
    BY <1>3, Zenon DEF ScanFrame
  <2>2. process' \in {"scan", "scanned"} /\ ScanInv'
    BY <1>1, <1>3, <2>1, ScanRecordStep
  <2> QED BY <1>1, <2>2, ScanOnly
<1> QED BY <1>2, <1>3

-----------------------------------------------------------------------------
(* The end of a scan, and the repair.                                          *)

\* The writer is given a file that ends with a complete frame.
LEMMA OpensAtEnd ==
    ASSUME IInv, NEW sequence, OpenWriter(sequence), AtEnd(sequence), damage = NoDamage,
           UNCHANGED <<written, size, damage>>
    PROVE  WriterInv' /\ ScanInv' /\ DamageInv'
<1>1. process' = "open" /\ next_sequence_' = sequence /\ scan' = NoScan
  BY DEF OpenWriter
<1>2. WriterInv'
  BY <1>1 DEF WriterInv, AtEnd
<1>3. ScanInv' /\ DamageInv'
  BY <1>1, QuietScan, StaysUndamaged
<1> QED BY <1>2, <1>3

LEMMA NoWriterLeaves ==
    ASSUME NEW p \in {"closed", "failed"}, NoWriter(p)
    PROVE  WriterInv' /\ ScanInv'
BY QuietWriter, QuietScan DEF NoWriter

LEMMA ScannedStep == ASSUME IInv, Scanned PROVE IInv'
<1> DEFINE repairs == scan.call = "repair_truncated_tail_and_open"
           refuses == scan.error # "None" \/ scan.call = "scan" \/ scan.has_truncated_tail # repairs
<1>1. /\ process = "scanned" /\ UNCHANGED <<written, size, disk, damage, acknowledged>>
      /\ refuses => NoWriter("closed")
      /\ ~refuses /\ repairs => process' = "truncate" /\ UNCHANGED scan
      /\ ~refuses /\ ~repairs => OpenWriter(scan.next_sequence)
  BY DEF Scanned, file_vars
<1>2. FileInv' /\ DiskInv' /\ AckInv' /\ DamageInv
  BY <1>1, KeepFile DEF IInv
<1>3. CASE refuses
  <2>1. process' = "closed" /\ NoWriter("closed")
    BY <1>1, <1>3 DEF NoWriter
  <2>2. WriterInv' /\ ScanInv' /\ DamageInv'
    BY <1>1, <1>2, <2>1, NoWriterLeaves, KeepDamage
  <2> QED BY <1>2, <2>2 DEF IInv
<1>4. CASE ~refuses
  <2>1. scan.error = "None" /\ scan.has_truncated_tail = repairs
    BY <1>4
  <2>2. damage = NoDamage /\ ~(size < kJournalFileHeaderSize)
        /\ \E m \in 0..Len(written) : ReadAll(m)
    <3>1. /\ damage = NoDamage =>
                IF size < kJournalFileHeaderSize THEN scan.error = "TruncatedInput"
                ELSE \E m \in 0..Len(written) : ReadAll(m)
          /\ damage # NoDamage => scan.error # "None"
      BY <1>1 DEF IInv, ScanInv
    <3> QED BY <2>1, <3>1
  <2>3. PICK m \in 0..Len(written) : ReadAll(m)
    BY <2>2
  <2> HIDE DEF refuses
  <2>4. CASE repairs
    <3>1. process' = "truncate" /\ UNCHANGED scan
      BY <1>1, <1>4, <2>4
    <3>2. size \in Nat /\ kJournalFileHeaderSize <= size
      BY <2>2, FileShape DEF kJournalFileHeaderSize
    <3>3. ReadAll(m)'
      BY <1>1, <2>3, <3>1 DEF ReadAll, ReadTo, Whole
    <3>4. IsScan(scan')
      BY <3>1 DEF IInv, ScanInv
    <3>5. size' >= kJournalFileHeaderSize /\ m \in 0..Len(written')
      BY <1>1, <3>2
    <3>6. ScanInv'
      BY <3>1, <3>3, <3>4, <3>5, Zenon DEF ScanInv
    <3>7. WriterInv' /\ DamageInv'
      BY <1>1, <2>2, <3>1, QuietWriter, StaysUndamaged
    <3> QED BY <1>2, <3>6, <3>7 DEF IInv
  <2>5. CASE ~repairs
    <3>1. OpenWriter(scan.next_sequence)
      BY <1>1, <1>4, <2>5
    <3>2. scan.valid_size = size
      BY <2>1, <2>3, <2>5, Zenon DEF ReadAll
    <3>3. size = EndAt(written, m) /\ scan.next_sequence = SequenceAfter(m)
      BY <2>3, <3>2 DEF ReadAll, ReadTo
    <3>4. m = Len(written)
      BY <3>3, WholeAtEnd DEF IInv, FileInv
    <3>5. AtEnd(scan.next_sequence)
      BY <3>3, <3>4 DEF AtEnd
    <3>6. WriterInv' /\ ScanInv' /\ DamageInv'
      BY <1>1, <2>2, <3>1, <3>5, OpensAtEnd
    <3> QED BY <1>2, <3>6 DEF IInv
  <2> QED BY <2>4, <2>5
<1> QED BY <1>3, <1>4

LEMMA RepairSyncStep == ASSUME IInv, RepairSync PROVE IInv'
<1>1. /\ process = "truncate_sync" /\ Fsync /\ OpenWriter(scan.next_sequence)
      /\ UNCHANGED <<written, size, damage, acknowledged>>
  BY DEF RepairSync
<1>2. damage = NoDamage
  BY <1>1, Undamaged DEF IInv
<1>3. AtEnd(scan.next_sequence)
  BY <1>1 DEF IInv, ScanInv
<1>4. FileInv' /\ DiskInv' /\ AckInv'
  BY <1>1, FsyncDisk, FsyncAck DEF IInv
<1>5. WriterInv' /\ ScanInv' /\ DamageInv'
  BY <1>1, <1>2, <1>3, OpensAtEnd
<1> QED BY <1>4, <1>5 DEF IInv

\* A power loss, a failed call and the end of the process leave no writer.
LEMMA ClosesStep ==
    ASSUME IInv, NEW p \in {"closed", "failed"}, NoWriter(p),
           UNCHANGED <<file_vars, acknowledged>>, p = "failed" => process = "append"
    PROVE  IInv'
<1>1. process' = p /\ UNCHANGED <<written, size, disk, damage, acknowledged>>
  BY DEF NoWriter, file_vars
<1>2. FileInv' /\ DiskInv' /\ AckInv'
  BY <1>1, KeepFile DEF IInv
<1>3. damage = NoDamage \/ p = "closed"
  BY Undamaged DEF IInv
<1>4. DamageInv'
  BY <1>1, <1>3, KeepDamage DEF IInv
<1> QED BY <1>2, <1>4, NoWriterLeaves DEF IInv

LEMMA StopStep == ASSUME IInv, AppendFails \/ Stop PROVE IInv'
BY ClosesStep DEF AppendFails, Stop

LEMMA RotStep == ASSUME IInv, Rot PROVE IInv'
<1>1. /\ process = "closed" /\ damage' \in Damages
      /\ UNCHANGED <<written, size, disk, process, frames, left, next_sequence_, scan, acknowledged>>
      /\ \/ /\ damage'.frame = 0 /\ disk.kept >= kJournalFileHeaderSize
            /\ encode_file_header[damage'.field] # damage'.value
         \/ /\ damage'.frame \in 1..Len(written) /\ EndOf(written[damage'.frame]) <= disk.kept
            /\ written[damage'.frame].frame[damage'.field] # damage'.value
  BY DEF Rot
<1>2. FileInv' /\ DiskInv' /\ AckInv'
  BY <1>1, KeepFile DEF IInv
<1>3. WriterInv' /\ ScanInv'
  BY <1>1, QuietWriter, QuietScan DEF IInv
<1>4. DamageInv'
  BY <1>1, Zenon DEF DamageInv
<1> QED BY <1>2, <1>3, <1>4 DEF IInv

\* A frame starts before the end of the m-th when it is one of the first m.
LEMMA StartsBefore ==
    ASSUME NEW s, Frames(s), NEW m \in 0..Len(s), NEW i \in 1..Len(s)
    PROVE  s[i].start < EndAt(s, m) <=> i <= m
<1>1. Len(s) \in Nat /\ i - 1 \in 0..Len(s) /\ s[i].start = EndAt(s, i - 1)
  BY DEF Frames
<1>2. PICK j \in 0..Len(s) : j = i - 1
  BY <1>1
<1>3. EndAt(s, j) \in Nat /\ EndAt(s, m) \in Nat
  BY EndAtNat, Zenon
<1>4. CASE j < m
  <2>1. j <= m
    BY <1>1, <1>4
  <2>2. EndAt(s, j) < EndAt(s, m)
    BY <1>4, <2>1, EndAtFacts, Zenon
  <2> QED BY <1>1, <1>2, <1>4, <2>2
<1>5. CASE ~(j < m)
  <2>1. m <= j
    BY <1>1, <1>5
  <2>2. EndAt(s, m) <= EndAt(s, j)
    BY <2>1, EndAtFacts, Zenon
  <2> QED BY <1>1, <1>2, <1>3, <1>5, <2>2
<1> QED BY <1>4, <1>5

LEMMA FtruncateFile ==
    ASSUME IInv, Ftruncate, NEW m \in 0..Len(written), ReadAll(m), kJournalFileHeaderSize <= size
    PROVE  /\ Layout(written', size') /\ Len(written') = m /\ size' = EndAt(written, m)
           /\ size' <= size /\ \A i \in 1..m : written'[i] = written[i] /\ i \in 1..Len(written)
<1>1. Layout(written, size) /\ Frames(written) /\ size \in Nat /\ Len(written) \in Nat
  BY FileShape, Zenon
<1>2. size' = EndAt(written, m) /\ written' = Cut(written, EndAt(written, m))
  BY DEF Ftruncate, ReadAll, ReadTo
<1>3. EndAt(written, m) \in Nat
  BY <1>1, EndAtNat, Zenon
<1>4. EndAt(written, m) <= size
  <2>1. CASE m = 0
    BY <2>1 DEF EndAt
  <2>2. CASE m # 0
    <3>1. m \in 1..Len(written) /\ m <= m
      BY <1>1, <2>2
    <3> QED BY <2>2, <3>1 DEF ReadAll, Whole, EndAt
  <2> QED BY <2>1, <2>2
<1> DEFINE v == EndAt(written, m)
           c == Len(Cut(written, v))
<1> HIDE DEF v
<1>5. /\ Layout(Cut(written, v), v) /\ c \in 0..Len(written)
      /\ \A i \in 1..c : Cut(written, v)[i] = written[i] /\ i \in 1..Len(written)
      /\ \A i \in 1..Len(written) : i <= c <=> written[i].start < v
  BY <1>1, <1>3, <1>4, CutLayout DEF v
<1>6. \A i \in 1..Len(written) : i <= c <=> i <= m
  BY <1>1, <1>5, StartsBefore DEF v
<1> HIDE DEF c
<1>7. c = m
  <2>1. ~(c < m)
    <3> SUFFICES ASSUME c < m PROVE FALSE
      OBVIOUS
    <3>1. m \in 1..Len(written) /\ m <= m /\ ~(m <= c)
      BY <1>1, <1>5
    <3> QED BY <1>6, <3>1
  <2>2. ~(m < c)
    <3> SUFFICES ASSUME m < c PROVE FALSE
      OBVIOUS
    <3>1. c \in 1..Len(written) /\ c <= c /\ ~(c <= m)
      BY <1>1, <1>5
    <3> QED BY <1>6, <3>1
  <2> QED BY <1>1, <1>5, <2>1, <2>2
<1> QED BY <1>2, <1>4, <1>5, <1>7 DEF v, c

\* The truncation takes no frame that is kept.
LEMMA KeptIsRead ==
    ASSUME IInv, NEW m \in 0..Len(written), ReadAll(m), NEW k \in 1..Len(written),
           EndOf(written[k]) <= disk.kept
    PROVE  k <= m /\ EndOf(written[k]) <= EndAt(written, m)
<1>1. /\ Frames(written) /\ size \in Nat /\ Len(written) \in Nat
      /\ disk.kept \in Nat /\ disk.kept <= size
  BY FileShape, DiskShape, Zenon
<1>2. EndOf(written[k]) \in Nat
  BY <1>1, PlaceFacts
<1>3. EndOf(written[k]) <= size
  BY <1>1, <1>2
<1>4. k <= m
  BY <1>3 DEF ReadAll, Whole
<1>5. k \in 0..Len(written) /\ k # 0
  BY <1>1
<1>6. EndAt(written, k) <= EndAt(written, m)
  BY <1>1, <1>4, <1>5, EndAtFacts, Zenon
<1> QED BY <1>4, <1>5, <1>6 DEF EndAt

LEMMA FtruncateDisk ==
    ASSUME IInv, Ftruncate, NEW m \in 0..Len(written), ReadAll(m),
           Len(written') = m, size' = EndAt(written, m),
           \A i \in 1..m : written'[i] = written[i] /\ i \in 1..Len(written)
    PROVE  DiskInv' /\ AckInv'
<1>1. /\ Frames(written) /\ size \in Nat /\ Len(written) \in Nat
      /\ Layout(disk.written, disk.size) /\ Frames(disk.written) /\ Len(disk.written) \in Nat
      /\ disk.size \in Nat /\ disk.kept \in Nat /\ disk.kept <= size /\ disk.kept <= disk.size
  BY FileShape, DiskShape, Zenon
<1>2. /\ disk = [written |-> disk.written, size |-> disk.size, kept |-> disk.kept]
      /\ \A k \in 1..Len(written) :
            written[k].start < disk.kept => k \in 1..Len(disk.written) /\ disk.written[k] = written[k]
      /\ \A k \in 1..Len(disk.written) :
            disk.written[k].start < disk.kept => k \in 1..Len(written) /\ disk.written[k] = written[k]
      /\ \A k \in 1..Len(disk.written) :
            EndOf(disk.written[k]) <= disk.size => EndOf(disk.written[k]) <= disk.kept
  BY DEF IInv, DiskInv
<1>3. EndAt(written, m) \in Nat
  BY <1>1, EndAtNat, Zenon
<1>4. /\ disk' = [written |-> disk'.written, size |-> disk'.size, kept |-> disk'.kept]
      /\ disk'.written = disk.written /\ disk'.size = disk.size
      /\ disk'.kept = Smaller(disk.kept, EndAt(written, m)) /\ UNCHANGED acknowledged
  BY <1>2 DEF Ftruncate, ReadAll, ReadTo
<1>5. disk'.kept \in Nat /\ disk'.kept <= disk.kept /\ disk'.kept <= EndAt(written, m)
      /\ \A x \in Nat : x <= disk.kept /\ x <= EndAt(written, m) => x <= disk'.kept
  BY <1>1, <1>3, <1>4 DEF Smaller
<1>6. Layout(disk'.written, disk'.size)
  BY <1>1, <1>4
<1>7. disk'.kept <= size' /\ disk'.kept <= disk'.size
  BY <1>1, <1>4, <1>5
<1>8. ASSUME NEW k \in 1..Len(written'), written'[k].start < disk'.kept
      PROVE  k \in 1..Len(disk'.written) /\ disk'.written[k] = written'[k]
  <2>1. k \in 1..m /\ written'[k] = written[k] /\ k \in 1..Len(written)
    OBVIOUS
  <2>2. written[k].start \in Nat
    BY <1>1, <2>1, PlaceFacts
  <2>3. written[k].start < disk.kept
    <3>1. written[k].start < disk'.kept
      BY <1>8, <2>1, Zenon
    <3> QED BY <1>1, <1>5, <2>2, <3>1
  <2> QED BY <1>2, <1>4, <2>1, <2>3
<1>9. ASSUME NEW k \in 1..Len(disk'.written), disk'.written[k].start < disk'.kept
      PROVE  k \in 1..Len(written') /\ disk'.written[k] = written'[k]
  <2>1. k \in 1..Len(disk.written) /\ disk.written[k].start < disk'.kept
    BY <1>4, <1>9
  <2>2. disk.written[k].start \in Nat
    BY <1>1, <2>1, PlaceFacts
  <2>3. disk.written[k].start < disk.kept /\ disk.written[k].start < EndAt(written, m)
    BY <1>1, <1>3, <1>5, <2>1, <2>2
  <2>4. k \in 1..Len(written) /\ disk.written[k] = written[k]
    BY <1>2, <2>1, <2>3
  <2>5. k <= m
    BY <1>1, <2>3, <2>4, StartsBefore
  <2> QED BY <1>1, <1>4, <2>4, <2>5
<1>10. ASSUME NEW k \in 1..Len(disk'.written), EndOf(disk'.written[k]) <= disk'.size
       PROVE  EndOf(disk'.written[k]) <= disk'.kept
  <2>1. k \in 1..Len(disk.written) /\ EndOf(disk.written[k]) <= disk.kept
    BY <1>2, <1>4, <1>10
  <2>2. /\ disk.written[k].start \in Nat /\ EndOf(disk.written[k]) \in Nat
        /\ disk.written[k].start < EndOf(disk.written[k])
    BY <1>1, <2>1, PlaceFacts
  <2>3. disk.written[k].start < disk.kept
    BY <1>1, <2>1, <2>2
  <2>4. k \in 1..Len(written) /\ disk.written[k] = written[k]
    BY <1>2, <2>1, <2>3
  <2>5. EndOf(disk.written[k]) <= EndAt(written, m)
    BY <2>1, <2>4, KeptIsRead
  <2> QED BY <1>4, <1>5, <2>1, <2>2, <2>5
<1>11. AckInv'
  <2>1. acknowledged \in 0..Len(written)
        /\ (acknowledged > 0 => EndOf(written[acknowledged]) <= disk.kept)
    BY DEF IInv, AckInv
  <2>2. CASE acknowledged = 0
    BY <1>1, <1>4, <2>2 DEF AckInv
  <2>3. CASE acknowledged # 0
    <3>1. acknowledged \in 1..Len(written) /\ EndOf(written[acknowledged]) <= disk.kept
      BY <1>1, <2>1, <2>3
    <3>2. acknowledged <= m /\ EndOf(written[acknowledged]) <= EndAt(written, m)
          /\ EndOf(written[acknowledged]) \in Nat
      BY <1>1, <3>1, KeptIsRead, PlaceFacts, ZenonT(30)
    <3>3. acknowledged \in 1..m /\ EndOf(written[acknowledged]) <= disk'.kept
      BY <1>1, <1>5, <3>1, <3>2
    <3> QED BY <1>4, <3>3 DEF AckInv
  <2> QED BY <2>2, <2>3
<1> QED BY <1>4, <1>5, <1>6, <1>7, <1>8, <1>9, <1>10, <1>11, Zenon DEF DiskInv

LEMMA FtruncateStep == ASSUME IInv, Ftruncate PROVE IInv'
<1>1. process = "truncate" /\ process' = "truncate_sync" /\ UNCHANGED <<damage, scan>>
  BY DEF Ftruncate
<1>2. size >= kJournalFileHeaderSize /\ \E m \in 0..Len(written) : ReadAll(m)
  BY <1>1 DEF IInv, ScanInv
<1>3. PICK m \in 0..Len(written) : ReadAll(m)
  BY <1>2
<1>4. Frames(written) /\ kJournalFileHeaderSize <= size
  BY <1>2, FileShape DEF kJournalFileHeaderSize
<1>5. /\ Layout(written', size') /\ Len(written') = m /\ size' = EndAt(written, m)
      /\ \A i \in 1..m : written'[i] = written[i] /\ i \in 1..Len(written)
  BY <1>3, <1>4, FtruncateFile
<1>6. DiskInv' /\ AckInv'
  BY <1>3, <1>5, FtruncateDisk
<1>7. FileInv'
  BY <1>5 DEF FileInv
<1>8. WriterInv' /\ DamageInv'
  BY <1>1, QuietWriter, Undamaged, StaysUndamaged DEF IInv
<1>9. AtEnd(scan.next_sequence)'
  <2>1. EndAt(written', m) = EndAt(written, m)
    <3>1. m # 0 => m \in 1..m
      BY <1>4 DEF Frames
    <3> QED BY <1>5, <3>1 DEF EndAt
  <2>2. scan'.next_sequence = SequenceAfter(m)
    BY <1>1, <1>3 DEF ReadAll, ReadTo
  <2> QED BY <1>5, <2>1, <2>2 DEF AtEnd
<1>10. ScanInv'
  <2>1. IsScan(scan')
    BY <1>1 DEF IInv, ScanInv
  <2> QED BY <1>1, <1>9, <2>1, Zenon DEF ScanInv
<1> QED BY <1>6, <1>7, <1>8, <1>10 DEF IInv

-----------------------------------------------------------------------------
(* A loss of power.                                                            *)

\* The file is cut, or it is the one on disk and cut, behind what is kept.
LEMMA PowerLossFile ==
    ASSUME IInv, PowerLoss
    PROVE  \E s, sz :
              /\ Layout(s, sz) /\ size' \in Nat /\ disk.kept <= size' /\ size' <= sz
              /\ written' = Cut(s, size')
              /\ disk' = [written |-> written', size |-> size', kept |-> size']
              /\ (s = written /\ sz = size) \/ (s = disk.written /\ sz = disk.size)
<1>1. PICK file \in {disk, [written |-> written, size |-> size]} : \E n \in disk.kept..file.size :
            disk' = [written |-> Cut(file.written, n), size |-> n, kept |-> n]
  BY DEF PowerLoss
<1>2. PICK n \in disk.kept..file.size :
            disk' = [written |-> Cut(file.written, n), size |-> n, kept |-> n]
  BY <1>1
<1>3. written' = disk'.written /\ size' = disk'.size
  BY DEF PowerLoss
<1>4. Layout(written, size) /\ Layout(disk.written, disk.size) /\ disk.kept \in Nat
  BY DEF IInv, FileInv, DiskInv
<1>5. /\ Layout(file.written, file.size)
      /\ \/ file.written = written /\ file.size = size
         \/ file.written = disk.written /\ file.size = disk.size
  <2>1. CASE file = disk
    BY <1>4, <2>1
  <2>2. CASE file = [written |-> written, size |-> size]
    BY <1>4, <2>2
  <2> QED BY <1>1, <2>1, <2>2
<1>6. size' = n /\ written' = Cut(file.written, n)
  BY <1>2, <1>3
<1>7. file.size \in Nat
  BY <1>5 DEF Layout
<1>8. size' \in Nat /\ disk.kept <= size' /\ size' <= file.size
  BY <1>2, <1>4, <1>6, <1>7
<1> QED BY <1>2, <1>5, <1>6, <1>8, Zenon

\* A frame that is kept survives it where it was.
LEMMA KeptSurvives ==
    ASSUME IInv, NEW s, NEW sz, Layout(s, sz), size' \in Nat, disk.kept <= size', size' <= sz,
           written' = Cut(s, size'), s = written \/ s = disk.written,
           NEW k \in 1..Len(written), EndOf(written[k]) <= disk.kept
    PROVE  k \in 1..Len(written') /\ written'[k] = written[k] /\ EndOf(written'[k]) <= size'
<1>1. Frames(written) /\ disk.kept \in Nat /\ Frames(s) /\ Len(s) \in Nat
  BY FileShape, DiskShape, Zenon
<1>2. written[k].start \in Nat /\ EndOf(written[k]) \in Nat /\ written[k].start < EndOf(written[k])
  BY <1>1, PlaceFacts
<1>3. written[k].start < disk.kept /\ written[k].start < size' /\ EndOf(written[k]) <= size'
  BY <1>1, <1>2
<1>4. k \in 1..Len(s) /\ s[k] = written[k]
  BY <1>3 DEF IInv, DiskInv
<1>5. /\ Len(Cut(s, size')) \in 0..Len(s)
      /\ \A i \in 1..Len(Cut(s, size')) : Cut(s, size')[i] = s[i] /\ i \in 1..Len(s)
      /\ \A i \in 1..Len(s) : i <= Len(Cut(s, size')) <=> s[i].start < size'
  BY CutLayout
<1>6. k <= Len(written')
  BY <1>3, <1>4, <1>5
<1>7. k \in 1..Len(written')
  BY <1>1, <1>5, <1>6
<1> QED BY <1>3, <1>4, <1>5, <1>7

LEMMA PowerLossStep == ASSUME IInv, PowerLoss PROVE IInv'
<1>1. NoWriter("closed") /\ process' = "closed" /\ UNCHANGED <<damage, acknowledged>>
  BY DEF PowerLoss, NoWriter
<1>2. PICK s, sz : /\ Layout(s, sz) /\ size' \in Nat /\ disk.kept <= size' /\ size' <= sz
                   /\ written' = Cut(s, size')
                   /\ disk' = [written |-> written', size |-> size', kept |-> size']
                   /\ (s = written /\ sz = size) \/ (s = disk.written /\ sz = disk.size)
  BY PowerLossFile
<1>3. Layout(written', size') /\ Len(written') \in Nat
  <2>1. Layout(written', size')
    BY <1>2, CutLayout
  <2> QED BY <2>1 DEF Layout, Frames
<1>4. FileInv' /\ DiskInv'
  <2>1. /\ disk' = [written |-> disk'.written, size |-> disk'.size, kept |-> disk'.kept]
        /\ disk'.written = written' /\ disk'.size = size' /\ disk'.kept = size'
    BY <1>2
  <2> QED BY <1>2, <1>3, <2>1 DEF FileInv, DiskInv
<1>5. disk'.kept = size'
  BY <1>2
<1>6. ASSUME NEW k \in 1..Len(written), EndOf(written[k]) <= disk.kept
      PROVE  k \in 1..Len(written') /\ written'[k] = written[k] /\ EndOf(written'[k]) <= size'
  BY <1>2, <1>6, KeptSurvives
<1>7. AckInv'
  <2>1. /\ acknowledged \in 0..Len(written) /\ Len(written) \in Nat
        /\ acknowledged > 0 => EndOf(written[acknowledged]) <= disk.kept
    BY FileShape, Zenon DEF IInv, AckInv
  <2>2. CASE acknowledged = 0
    BY <1>1, <1>3, <2>2 DEF AckInv
  <2>3. CASE acknowledged # 0
    <3>1. acknowledged \in 1..Len(written) /\ EndOf(written[acknowledged]) <= disk.kept
      BY <2>1, <2>3
    <3>2. acknowledged \in 1..Len(written') /\ EndOf(written'[acknowledged]) <= size'
      BY <1>6, <3>1
    <3>3. acknowledged \in 0..Len(written')
      BY <1>3, <3>2
    <3> QED BY <1>1, <1>5, <3>2, <3>3 DEF AckInv
  <2> QED BY <2>2, <2>3
<1>8. DamageInv'
  <2> SUFFICES ASSUME damage # NoDamage PROVE DamageInv'
    BY <1>1, StaysUndamaged
  <2>1. /\ damage \in Damages
        /\ \/ /\ damage.frame = 0 /\ disk.kept >= kJournalFileHeaderSize
              /\ encode_file_header[damage.field] # damage.value
           \/ /\ damage.frame \in 1..Len(written) /\ EndOf(written[damage.frame]) <= disk.kept
              /\ written[damage.frame].frame[damage.field] # damage.value
    BY DEF IInv, DamageInv
  <2>2. CASE damage.frame = 0 /\ disk.kept >= kJournalFileHeaderSize
             /\ encode_file_header[damage.field] # damage.value
    <3>1. disk'.kept >= kJournalFileHeaderSize
      BY <1>2, <1>5, <2>2 DEF IInv, DiskInv, kJournalFileHeaderSize
    <3> QED BY <1>1, <2>1, <2>2, <3>1, Zenon DEF DamageInv
  <2>3. CASE damage.frame \in 1..Len(written) /\ EndOf(written[damage.frame]) <= disk.kept
             /\ written[damage.frame].frame[damage.field] # damage.value
    <3>1. /\ damage.frame \in 1..Len(written') /\ EndOf(written'[damage.frame]) <= disk'.kept
          /\ written'[damage.frame] = written[damage.frame]
      BY <1>5, <1>6, <2>3
    <3> QED BY <1>1, <2>1, <2>3, <3>1, Zenon DEF DamageInv
  <2> QED BY <2>1, <2>2, <2>3
<1> QED BY <1>1, <1>4, <1>7, <1>8, NoWriterLeaves DEF IInv

-----------------------------------------------------------------------------
LEMMA StepInv == IInv /\ [Next]_vars => IInv'
<1> SUFFICES ASSUME IInv, [Next]_vars PROVE IInv'
  OBVIOUS
<1>1. CASE Create
  BY <1>1, CreateStep
<1>2. CASE \E n \in 1..left : WriteHeader(n)
  BY <1>2, WriteHeaderStep
<1>3. CASE CreateSync
  BY <1>3, CreateSyncStep
<1>4. CASE \E commands \in Batches : append_batch_and_sync(commands)
  BY <1>4, AppendStep
<1>5. CASE \E n \in 1..left : write_all(n)
  BY <1>5, WriteStep
<1>6. CASE AppendSync
  BY <1>6, AppendSyncStep
<1>7. CASE \E call \in Calls : Open(call)
  BY <1>7, OpenStep
<1>8. CASE ScanHeader
  BY <1>8, ScanHeaderStep
<1>9. CASE ScanFrame
  BY <1>9, ScanFrameStep
<1>10. CASE Scanned
  BY <1>10, ScannedStep
<1>11. CASE Ftruncate
  BY <1>11, FtruncateStep
<1>12. CASE RepairSync
  BY <1>12, RepairSyncStep
<1>13. CASE AppendFails \/ Stop
  BY <1>13, StopStep
<1>14. CASE PowerLoss
  BY <1>14, PowerLossStep
<1>15. CASE Rot
  BY <1>15, RotStep
<1>16. CASE UNCHANGED vars
  <2>1. UNCHANGED <<written, size, disk, damage, process, frames, left, next_sequence_, scan,
                    acknowledged>>
    BY <1>16 DEF vars, file_vars
  <2>2. FileInv' /\ DiskInv' /\ AckInv'
    BY <2>1, KeepFile DEF IInv
  <2>3. WriterInv'
    BY <2>1 DEF IInv, WriterInv, AtEnd, Base
  <2>4. ScanInv'
    BY <2>1, ZenonT(30) DEF IInv, ScanInv, AtEnd, ReadTo, ReadAll
  <2>5. DamageInv'
    BY <2>1 DEF IInv, DamageInv
  <2> QED BY <2>2, <2>3, <2>4, <2>5 DEF IInv
<1> QED BY <1>1, <1>2, <1>3, <1>4, <1>5, <1>6, <1>7, <1>8, <1>9, <1>10, <1>11, <1>12, <1>13,
           <1>14, <1>15, <1>16, Zenon DEF Next

\* The invariant holds in every reachable state: the file is a row of frames
\* numbered 1, 2, 3, ... of which the last may be cut, the disk agrees with it up
\* to what is kept, and every call finds the writer and the scan where it left them.
THEOREM Invariance == Spec => []IInv
<1>1. Init => IInv
  BY InitInv
<1>2. IInv /\ [Next]_vars => IInv'
  BY StepInv
<1> QED BY <1>1, <1>2, PTL DEF Spec

\* Wherever the file was cut, scan_descriptor returns exactly the complete frames
\* of an undamaged file, and where the writer goes on, for every number of frames,
\* every set of commands and every place of the cut.
THEOREM ScanIsExact == Spec => []ScanExact
<1>1. IInv => ScanExact
  <2> SUFFICES ASSUME IInv, process = "scanned", damage = NoDamage, ~(size < kJournalFileHeaderSize)
               PROVE  /\ scan.error = "None" /\ scan.records = Records(Complete)
                      /\ scan.next_sequence = SequenceAfter(Len(Complete))
                      /\ scan.has_truncated_tail <=> scan.valid_size # size
                      /\ scan.valid_size = IF Complete = <<>> THEN kJournalFileHeaderSize
                                           ELSE EndOf(Complete[Len(Complete)])
    BY DEF IInv, ScanInv, ScanExact
  <2>1. PICK m \in 0..Len(written) : ReadAll(m)
    BY DEF IInv, ScanInv
  <2>2. /\ scan.records = [k \in 1..m |-> [sequence |-> k, command |-> CommandOf(written[k].frame)]]
        /\ scan.valid_size = EndAt(written, m) /\ scan.next_sequence = SequenceAfter(m)
        /\ scan.error = "None" /\ Whole(written, size, m)
        /\ scan.has_truncated_tail <=> scan.valid_size # size
    BY <2>1 DEF ReadAll, ReadTo
  <2>3. Frames(written) /\ Len(written) \in Nat
    BY FileShape, Zenon
  <2>4. /\ Complete \in Seq(Place) /\ Len(Complete) = m
        /\ \A i \in 1..m : Complete[i] = written[i]
    <3>1. Complete = CompleteOf(written, size)
      BY DEF Complete, CompleteOf
    <3>2. Frames(written) /\ Whole(written, size, m)
      BY <2>2, <2>3
    <3>3. /\ CompleteOf(written, size) \in Seq(Place) /\ Len(CompleteOf(written, size)) = m
          /\ \A i \in 1..m : CompleteOf(written, size)[i] = written[i]
      BY <3>2, CompleteIs
    <3> QED BY <3>1, <3>3
  <2>5. scan.records = Records(Complete)
    <3>1. DOMAIN Complete = 1..m
      BY <2>4
    <3> QED BY <2>2, <2>4, <3>1 DEF Records
  <2>6. scan.valid_size = IF Complete = <<>> THEN kJournalFileHeaderSize
                          ELSE EndOf(Complete[Len(Complete)])
    <3>1. CASE m = 0
      BY <2>2, <2>4, <3>1 DEF EndAt
    <3>2. CASE m # 0
      <4>1. m \in 1..m /\ Complete # <<>>
        BY <2>3, <2>4, <3>2
      <4> QED BY <2>2, <2>4, <3>2, <4>1 DEF EndAt
    <3> QED BY <3>1, <3>2
  <2> QED BY <2>2, <2>4, <2>5, <2>6, ZenonT(30)
<1> QED BY <1>1, Invariance, PTL

\* A changed field of the header or of a complete frame ends the scan with an
\* error: it is never read as a command, nor taken for a tail that repair drops.
THEOREM DamageIsRefused == Spec => []DamageRefused
<1>1. IInv => DamageRefused
  BY DEF IInv, ScanInv, DamageRefused
<1> QED BY <1>1, Invariance, PTL

-----------------------------------------------------------------------------
(* The file implements the abstract log.                                       *)

LogOf(c) == [k \in DOMAIN c |-> CommandOf(c[k].frame)]
Log == LogOf(Complete)

LEMMA LogIs ==
    ASSUME NEW s, NEW sz, Frames(s), NEW m, Whole(s, sz, m)
    PROVE  LogOf(CompleteOf(s, sz)) = [k \in 1..m |-> CommandOf(s[k].frame)]
<1> DEFINE c == CompleteOf(s, sz)
<1>1. c \in Seq(Place) /\ Len(c) = m /\ \A i \in 1..m : c[i] = s[i]
  BY CompleteIs
<1> HIDE DEF c
<1>2. DOMAIN c = 1..m
  BY <1>1
<1>3. LogOf(c) = [k \in 1..m |-> CommandOf(s[k].frame)]
  BY <1>1, <1>2 DEF LogOf
<1> QED BY <1>3 DEF c

\* The log before and after a step, as the complete frames of the file.
LEMMA LogNow ==
    ASSUME IInv, NEW m, Whole(written, size, m)
    PROVE  /\ Log = [k \in 1..m |-> CommandOf(written[k].frame)]
           /\ m \in Nat /\ Len(Log) = m /\ m <= Len(written)
<1>1. Frames(written) /\ Log = LogOf(CompleteOf(written, size)) /\ Len(written) \in Nat
  <2>1. Log = LogOf(CompleteOf(written, size))
    BY Zenon DEF Log, Complete, CompleteOf
  <2> QED BY <2>1, FileShape, Zenon
<1>2. Log = [k \in 1..m |-> CommandOf(written[k].frame)]
  BY <1>1, LogIs
<1>3. m \in Nat /\ m <= Len(written)
  BY <1>1 DEF Whole
<1> QED BY <1>2, <1>3

LEMMA LogThen ==
    ASSUME IInv', NEW m, Whole(written', size', m)
    PROVE  Log' = [k \in 1..m |-> CommandOf(written'[k].frame)]
<1>1. Frames(written') /\ Log' = LogOf(CompleteOf(written', size'))
  <2>1. Log' = LogOf(CompleteOf(written', size'))
    BY Zenon DEF Log, LogOf, Complete, CompleteOf
  <2> QED BY <2>1, NextFileShape, Zenon
<1> QED BY <1>1, LogIs

\* What the steps of the abstract log are here.
LEMMA AbstractSteps ==
    /\ \A c \in JournalCommands :
          Log' = Append(Log, c) /\ UNCHANGED acknowledged => Abstract!LogNext
    /\ acknowledged' = Len(Log) /\ UNCHANGED Log => Abstract!LogNext
    /\ \A n \in acknowledged..Len(Log) :
          Log' = SubSeq(Log, 1, n) /\ UNCHANGED acknowledged => Abstract!LogNext
    /\ UNCHANGED <<Log, acknowledged>> => UNCHANGED Abstract!log_vars
BY Zenon DEF Log, LogOf, Abstract!LogNext, Abstract!Extend, Abstract!Commit, Abstract!Lose,
       Abstract!log_vars

\* The last byte of a frame appends its command; another write appends nothing.
LEMMA WriteLog ==
    ASSUME IInv, NEW n \in 1..left, write_all(n), IInv'
    PROVE  \/ UNCHANGED <<Log, acknowledged>>
           \/ UNCHANGED acknowledged /\ \E c \in JournalCommands : Log' = Append(Log, c)
<1> DEFINE b == Base
<1>1. process = "append" /\ frames # <<>> /\ UNCHANGED acknowledged /\ size' = size + n
  BY DEF write_all
<1>2. /\ Len(written') = b + 1 /\ written'[b + 1].frame = frames[1]
      /\ \A i \in 1..b : written'[i] = written[i]
      /\ n = left => size' = EndOf(written'[b + 1])
      /\ n # left => size' + (left - n) = EndOf(written'[b + 1])
  BY WriteFile
<1>3. /\ b \in Nat /\ Len(written) \in Nat /\ left \in Nat /\ size \in Nat
      /\ left \in 1..frames[1].size /\ frames[1].size \in {32, 49} /\ IsFrame(frames[1], b + 1)
      /\ left = frames[1].size => b = Len(written) /\ size = EndAt(written, Len(written))
      /\ left # frames[1].size => /\ b = Len(written) - 1 /\ written # <<>>
                                  /\ size + left = EndOf(written[Len(written)])
  <2>1. 1 \in 1..Len(frames)
    BY <1>1, AppendFacts
  <2> QED BY <1>1, <2>1, AppendFacts
<1> HIDE DEF b
<1>4. Layout(written, size) /\ Layout(written', size') /\ Frames(written) /\ Frames(written')
  BY FileShape, NextFileShape, Zenon
<1>5. Whole(written, size, b)
  <2>1. CASE left = frames[1].size
    BY <1>3, <1>4, <2>1, AtEndWhole
  <2>2. CASE left # frames[1].size
    <3>1. b \in 0..Len(written) /\ b < Len(written) /\ b + 1 = Len(written)
      BY <1>3, <2>2
    <3>2. written[b + 1].start = EndAt(written, b)
      BY <1>4, <3>1, NextStart
    <3>3. written[b + 1].start < size /\ EndAt(written, b) \in Nat
      BY <1>3, <1>4, <2>2, <3>1, EndAtFacts DEF Layout
    <3>4. EndAt(written, b) <= size /\ size < EndOf(written[b + 1])
      BY <1>3, <2>2, <3>1, <3>2, <3>3
    <3> QED BY <1>4, <3>1, <3>4, WholeUpTo
  <2> QED BY <2>1, <2>2
<1>6. Log = [k \in 1..b |-> CommandOf(written[k].frame)]
  BY <1>5, LogNow
<1>7. CASE n = left
  <2>1. size' = EndAt(written', Len(written'))
    BY <1>2, <1>3, <1>7 DEF EndAt
  <2>2. Whole(written', size', b + 1)
    BY <1>2, <1>4, <2>1, AtEndWhole
  <2>3. Log' = [k \in 1..(b + 1) |-> CommandOf(written'[k].frame)]
    BY <2>2, LogThen
  <2>4. Log' = Append(Log, CommandOf(frames[1]))
    BY <1>2, <1>3, <1>6, <2>3
  <2>5. CommandOf(frames[1]) \in JournalCommands
    <3>1. b + 1 \in Nat /\ IsFrame(frames[1], b + 1)
      BY <1>3
    <3> QED BY <3>1, FrameSize, Zenon
  <2> QED BY <1>1, <2>4, <2>5
<1>8. CASE n # left
  <2>1. b \in 0..Len(written') /\ b < Len(written')
    BY <1>2, <1>3
  <2>2. written'[b + 1].start = EndAt(written', b)
    BY <1>4, <2>1, NextStart
  <2>3. size' \in Nat /\ size' < EndOf(written'[b + 1])
    BY <1>1, <1>2, <1>3, <1>8
  <2>4. written' # <<>> /\ EndAt(written', b) \in Nat
    BY <1>2, <1>3, <1>4, <2>1, EndAtFacts
  <2>5. EndAt(written', b) <= size'
    BY <1>2, <1>4, <2>2, <2>3, <2>4 DEF Layout
  <2>6. Whole(written', size', b)
    BY <1>4, <2>1, <2>3, <2>5, WholeUpTo
  <2>7. Log' = [k \in 1..b |-> CommandOf(written'[k].frame)]
    BY <2>6, LogThen
  <2>8. Log' = Log
    BY <1>2, <1>6, <2>7
  <2> QED BY <1>1, <2>8
<1> QED BY <1>7, <1>8

\* A loss of power takes frames from the end only, and none that is acknowledged.
LEMMA PowerLossLog ==
    ASSUME IInv, PowerLoss, IInv'
    PROVE  UNCHANGED acknowledged /\ \E n \in acknowledged..Len(Log) : Log' = SubSeq(Log, 1, n)
<1>1. UNCHANGED acknowledged
  BY DEF PowerLoss
<1>2. PICK s, sz : /\ Layout(s, sz) /\ size' \in Nat /\ disk.kept <= size' /\ size' <= sz
                   /\ written' = Cut(s, size')
                   /\ disk' = [written |-> written', size |-> size', kept |-> size']
                   /\ (s = written /\ sz = size) \/ (s = disk.written /\ sz = disk.size)
  BY PowerLossFile
<1>3. /\ Layout(written, size) /\ Frames(written) /\ Len(written) \in Nat /\ size \in Nat
      /\ Layout(written', size') /\ Frames(written') /\ Len(written') \in Nat
      /\ disk.kept \in Nat /\ disk.kept <= size /\ Frames(s) /\ sz \in Nat
  <2>1. Frames(s) /\ sz \in Nat
    BY <1>2, LayoutShape, Zenon
  <2> QED BY <2>1, FileShape, NextFileShape, DiskShape, Zenon
<1>4. PICK m \in 0..Len(written) : Whole(written, size, m)
  BY <1>3, WholeIs
<1>5. PICK n \in 0..Len(written') : Whole(written', size', n)
  BY <1>3, WholeIs
<1>6. ASSUME NEW k \in 1..n
      PROVE  k \in 1..Len(written) /\ written'[k] = written[k] /\ EndOf(written[k]) <= size
  <2>1. k \in 1..Len(written') /\ EndOf(written'[k]) <= size'
    BY <1>3, <1>5 DEF Whole
  <2>2. k \in 1..Len(s) /\ written'[k] = s[k]
    BY <1>2, <2>1, CutLayout
  <2>3. s[k].start \in Nat /\ EndOf(s[k]) \in Nat /\ s[k].start < EndOf(s[k])
    BY <1>3, <2>2, PlaceFacts
  <2>4. EndOf(s[k]) <= sz
    BY <1>2, <1>3, <2>1, <2>2, <2>3
  <2>5. CASE s = written /\ sz = size
    BY <2>2, <2>4, <2>5
  <2>6. CASE s = disk.written /\ sz = disk.size
    <3>1. EndOf(s[k]) <= disk.kept
      BY <2>2, <2>4, <2>6 DEF IInv, DiskInv
    <3>2. s[k].start < disk.kept
      BY <1>3, <2>3, <3>1
    <3>3. k \in 1..Len(written) /\ s[k] = written[k]
      BY <2>2, <2>6, <3>2 DEF IInv, DiskInv
    <3>4. EndOf(s[k]) <= size
      BY <1>3, <2>3, <3>1
    <3> QED BY <2>2, <3>3, <3>4, Zenon
  <2> QED BY <1>2, <2>5, <2>6
<1>7. n \in Nat /\ m \in Nat /\ n <= m
  <2>1. CASE n = 0
    BY <1>3, <2>1
  <2>2. CASE n # 0
    <3>1. n \in 1..n
      BY <1>3, <2>2
    <3>2. n \in 1..Len(written) /\ EndOf(written[n]) <= size
      BY <1>6, <3>1
    <3> QED BY <1>3, <1>4, <3>2 DEF Whole
  <2> QED BY <2>1, <2>2
<1>8. acknowledged \in 0..n
  <2>1. /\ acknowledged \in 0..Len(written') /\ disk'.kept = size'
        /\ acknowledged > 0 => EndOf(written'[acknowledged]) <= disk'.kept
    BY <1>1, <1>2 DEF IInv, AckInv
  <2>2. CASE acknowledged = 0
    BY <1>7, <2>2
  <2>3. CASE acknowledged # 0
    <3>1. acknowledged \in 1..Len(written') /\ EndOf(written'[acknowledged]) <= size'
      BY <1>3, <2>1, <2>3
    <3> QED BY <1>3, <1>5, <1>7, <3>1 DEF Whole
  <2> QED BY <2>2, <2>3
<1>9. Log = [k \in 1..m |-> CommandOf(written[k].frame)] /\ Len(Log) = m
  BY <1>4, LogNow
<1>10. Log' = [k \in 1..n |-> CommandOf(written'[k].frame)]
  BY <1>5, LogThen
<1>11. Log' = [k \in 1..n |-> CommandOf(written[k].frame)]
  BY <1>6, <1>10
<1>12. Log' = SubSeq(Log, 1, n)
  BY <1>7, <1>9, <1>11
<1>13. n \in acknowledged..Len(Log)
  BY <1>7, <1>8, <1>9
<1> QED BY <1>1, <1>12, <1>13

\* repair_truncated_tail_and_open drops the incomplete frame and nothing else.
LEMMA FtruncateLog ==
    ASSUME IInv, Ftruncate, IInv'
    PROVE  UNCHANGED <<Log, acknowledged>>
<1>1. process = "truncate" /\ UNCHANGED acknowledged
  BY DEF Ftruncate
<1>2. size >= kJournalFileHeaderSize /\ \E m \in 0..Len(written) : ReadAll(m)
  BY <1>1 DEF IInv, ScanInv
<1>3. PICK m \in 0..Len(written) : ReadAll(m)
  BY <1>2
<1>4. kJournalFileHeaderSize <= size /\ Frames(written) /\ Len(written) \in Nat
  BY <1>2, FileShape DEF kJournalFileHeaderSize
<1>5. /\ Layout(written', size') /\ Len(written') = m /\ size' = EndAt(written, m)
      /\ \A i \in 1..m : written'[i] = written[i]
  BY <1>3, <1>4, FtruncateFile
<1>6. size' = EndAt(written', m)
  <2>1. m # 0 => m \in 1..m
    BY <1>4
  <2> QED BY <1>5, <2>1 DEF EndAt
<1>7. Whole(written', size', m)
  BY <1>5, <1>6, AtEndWhole
<1>8. Whole(written, size, m)
  BY <1>3 DEF ReadAll
<1>9. Log = [k \in 1..m |-> CommandOf(written[k].frame)]
  BY <1>8, LogNow
<1>10. Log' = [k \in 1..m |-> CommandOf(written'[k].frame)]
  BY <1>7, LogThen
<1>11. Log' = Log
  BY <1>5, <1>9, <1>10
<1> QED BY <1>1, <1>11

LEMMA AppendSyncLog ==
    ASSUME IInv, AppendSync
    PROVE  acknowledged' = Len(Log) /\ UNCHANGED Log
<1>1. /\ process = "append" /\ frames = <<>> /\ acknowledged' = Len(written)
      /\ UNCHANGED <<written, size>>
  BY DEF AppendSync
<1>2. Layout(written, size) /\ size = EndAt(written, Len(written))
  BY <1>1 DEF IInv, FileInv, WriterInv
<1>3. Whole(written, size, Len(written))
  BY <1>2, AtEndWhole
<1>4. Len(Log) = Len(written)
  BY <1>3, LogNow
<1>5. UNCHANGED Log
  BY <1>1 DEF Log, LogOf, Complete
<1> QED BY <1>1, <1>4, <1>5

LEMMA WriteHeaderLog ==
    ASSUME IInv, NEW n \in 1..left, WriteHeader(n), IInv'
    PROVE  UNCHANGED <<Log, acknowledged>>
<1>1. written = <<>> /\ written' = <<>> /\ UNCHANGED acknowledged
  BY ZenonT(30) DEF WriteHeader, IInv, WriterInv
<1>2. Whole(written, size, 0) /\ Whole(written', size', 0)
  BY <1>1 DEF Whole
<1>3. Log = [k \in 1..0 |-> CommandOf(written[k].frame)]
  BY <1>2, LogNow
<1>4. Log' = [k \in 1..0 |-> CommandOf(written'[k].frame)]
  BY <1>2, LogThen
<1> QED BY <1>1, <1>3, <1>4

LEMMA SameLog ==
    ASSUME UNCHANGED <<written, size, acknowledged>>
    PROVE  UNCHANGED <<Log, acknowledged>>
BY DEF Log, LogOf, Complete

\* The file implements the abstract log: a frame joins it with its last byte, an
\* append that returns commits it, a loss of power takes what is not committed from
\* the end, and the repair of a tail, the scan and a failed append change nothing.
THEOREM FileImplementsCommandLog == Spec => FileImplementsLog
<1>1. Init => Abstract!LogInit
  <2> SUFFICES ASSUME Init PROVE Log = <<>> /\ acknowledged = 0
    BY DEF Abstract!LogInit, Log, LogOf
  <2>1. written = <<>> /\ acknowledged = 0 /\ IInv
    BY InitInv DEF Init
  <2>2. Whole(written, size, 0)
    BY <2>1 DEF Whole
  <2>3. Log = [k \in 1..0 |-> CommandOf(written[k].frame)]
    BY <2>1, <2>2, LogNow
  <2> QED BY <2>1, <2>3
<1>2. IInv /\ IInv' /\ [Next]_vars => [Abstract!LogNext]_(Abstract!log_vars)
  <2> SUFFICES ASSUME IInv, IInv', [Next]_vars
               PROVE  Abstract!LogNext \/ UNCHANGED Abstract!log_vars
    OBVIOUS
  <2>1. CASE \E n \in 1..left : WriteHeader(n)
    BY <2>1, WriteHeaderLog, AbstractSteps
  <2>2. CASE \E n \in 1..left : write_all(n)
    <3>1. \/ UNCHANGED <<Log, acknowledged>>
          \/ UNCHANGED acknowledged /\ \E c \in JournalCommands : Log' = Append(Log, c)
      BY <2>2, WriteLog
    <3> QED BY <3>1, AbstractSteps
  <2>3. CASE AppendSync
    BY <2>3, AppendSyncLog, AbstractSteps
  <2>4. CASE Ftruncate
    BY <2>4, FtruncateLog, AbstractSteps
  <2>5. CASE PowerLoss
    BY <2>5, PowerLossLog, AbstractSteps
  <2>6. CASE \/ Create \/ CreateSync \/ AppendFails \/ Scanned \/ ScanHeader \/ ScanFrame
             \/ RepairSync \/ Stop \/ Rot
    <3>1. UNCHANGED <<written, size, acknowledged>>
      BY <2>6 DEF Create, CreateSync, AppendFails, Scanned, ScanHeader, ScanFrame, RepairSync,
                  Stop, Rot, file_vars
    <3> QED BY <3>1, SameLog, AbstractSteps
  <2>7. CASE \/ \E commands \in Batches : append_batch_and_sync(commands)
             \/ \E call \in Calls : Open(call)
    <3>1. UNCHANGED <<written, size, acknowledged>>
      BY <2>7 DEF append_batch_and_sync, Open, file_vars
    <3> QED BY <3>1, SameLog, AbstractSteps
  <2>8. CASE UNCHANGED vars
    <3>1. UNCHANGED <<written, size, acknowledged>>
      BY <2>8 DEF vars, file_vars
    <3> QED BY <3>1, SameLog, AbstractSteps
  <2> QED BY <2>1, <2>2, <2>3, <2>4, <2>5, <2>6, <2>7, <2>8, Zenon DEF Next
<1> QED BY <1>1, <1>2, Invariance, PTL DEF Spec, FileImplementsLog, Abstract!LogSpec

=============================================================================
