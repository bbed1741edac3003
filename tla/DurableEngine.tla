---------------------------- MODULE DurableEngine ----------------------------
(***************************************************************************)
(* DurableEngine over JournalWriter and JournalReader                      *)
(* (src/src/durable_engine.cpp, src/src/journal_storage.cpp): a write-     *)
(* ahead journal whose frames are written one by one, made durable by one  *)
(* fsync per batch and only then applied to the book; creation and         *)
(* recovery of the journal file; crashes of the process and losses of      *)
(* power between any two of these steps.                                   *)
(*                                                                         *)
(* The order book is deterministic, so its state is the sequence of the    *)
(* commands applied to it.  A frame is its sequence number and its         *)
(* command; a torn tail is any nonempty proper part of a frame after the   *)
(* last complete one.  The file system is external: what a write puts in   *)
(* the file is seen by every later open and survives a crash of the        *)
(* process; a loss of power keeps what the last successful fsync covered   *)
(* and some prefix of what was written after it.                           *)
(***************************************************************************)
EXTENDS Integers, Sequences

CONSTANTS
    Commands,        \* the journal commands (submit or cancel with their fields)
    MaxSequence,     \* the largest journal sequence number, 2^64 - 1
    MaxBatch,        \* bound: the largest batch the caller passes
    MaxFaults,       \* bound: crashes, failed system calls and exceptions
    EntryWithFile    \* does fsync of a new file also make its directory entry
                     \* durable (ext4, XFS), or only fsync of the directory (POSIX)

ASSUME EngineAssumption ==
    /\ MaxSequence \in Nat \ {0}
    /\ MaxBatch \in Nat
    /\ MaxFaults \in Nat
    /\ EntryWithFile \in BOOLEAN

VARIABLES
    header,      \* the file: "none" (no file), "partial" (under 16 bytes), "whole"
    frames,      \* the complete frames after the header, as any open sees them
    torn,        \* is there an incomplete frame after them?
    rotten,      \* positions of complete frames that no longer decode
    disk,        \* what a loss of power cannot take: the directory entry, the
                 \* header, a number of frames; and whether it may bring back
                 \* torn bytes that were cut off
    phase,       \* where the process is
    next_sequence_,  \* of the writer; 0 is std::nullopt
    batch,       \* the commands of the execute_batch in progress
    done,        \* frames of the batch written, then commands of it applied
    book,        \* the commands applied in whole to the live order book
    acked,       \* history: the frames whose command returned a result
    faults       \* faults so far

file_vars == <<header, frames, torn, rotten, disk>>
process_vars == <<phase, next_sequence_, batch, done, book>>
vars == <<file_vars, process_vars, acked, faults>>

-----------------------------------------------------------------------------
Frame == [sequence: 1..MaxSequence, command: Commands]
Commands_of(s) == [i \in 1..Len(s) |-> s[i].command]
Batches == UNION {[1..n -> Commands] : n \in 0..MaxBatch}

\* The engine exists and its state_ is Healthy.
Healthy == phase \in {"idle", "write", "apply"}
Phases == {"down", "create_header", "create_sync", "create_directory",
           "repair_truncate", "repair_sync", "idle", "write", "apply", "failed", "midway"}

Fault == faults < MaxFaults /\ faults' = faults + 1

\* Variants with a mistake end in the name of the mistake; each is what a run
\* must tell from the definition that follows it.
SequenceAfterOverflows(n) == n + 1
SequenceAfterLastRead(n) == IF n = 0 THEN 1 ELSE n

\* next_sequence of a scan that read n records.
SequenceAfter(n) == IF n = MaxSequence THEN 0 ELSE n + 1

ScanFailsOnTail ==
    \/ header # "whole"
    \/ rotten # {}
    \/ torn

\* scan_descriptor returns an error: no complete header, a frame that does not
\* decode, a sequence number out of order, or bytes after the last sequence.
ScanFails ==
    \/ header # "whole"
    \/ rotten # {}
    \/ \E i \in 1..Len(frames) : frames[i].sequence # i
    \/ torn /\ Len(frames) = MaxSequence

Init ==
    /\ header = "none" /\ frames = <<>> /\ torn = FALSE /\ rotten = {}
    /\ disk = [entry |-> FALSE, header |-> FALSE, frames |-> 0, torn |-> FALSE]
    /\ phase = "down" /\ next_sequence_ = 0 /\ batch = <<>> /\ done = 0 /\ book = <<>>
    /\ acked = {} /\ faults = 0

\* The process lost its engine; what it wrote is still in the file.
Stop(p) ==
    /\ phase' = p /\ next_sequence_' = 0 /\ batch' = <<>> /\ done' = 0 /\ book' = <<>>
    /\ UNCHANGED acked

\* state_ becomes Failed: no later call changes the engine.  It is "midway" when
\* the book also holds a part of the command after those in book.
Fail(p) ==
    /\ phase' = p /\ batch' = <<>> /\ done' = 0
    /\ UNCHANGED <<next_sequence_, acked>>

\* The engine with its book and a writer behind n frames.
Start(n) ==
    /\ phase' = "idle" /\ next_sequence_' = SequenceAfter(n)
    /\ batch' = <<>> /\ done' = 0
    /\ book' = Commands_of(frames)
    /\ UNCHANGED acked

-----------------------------------------------------------------------------
\* JournalWriter::create: open with O_EXCL, write the header, fsync the file,
\* fsync the directory.
CreateOpen ==
    /\ phase = "down" /\ header = "none"
    /\ header' = "partial" /\ phase' = "create_header"
    /\ UNCHANGED <<frames, torn, rotten, disk, next_sequence_, batch, done, book, acked, faults>>

CreateWriteHeader ==
    /\ phase = "create_header"
    /\ header' = "whole" /\ phase' = "create_sync"
    /\ UNCHANGED <<frames, torn, rotten, disk, next_sequence_, batch, done, book, acked, faults>>

FsyncFileSkipped == UNCHANGED disk

\* A successful fsync of the journal: everything in the file is on disk.
FsyncFile ==
    disk' = [entry |-> disk.entry \/ EntryWithFile, header |-> TRUE,
             frames |-> Len(frames), torn |-> torn]

CreateSync ==
    /\ phase = "create_sync"
    /\ FsyncFile /\ phase' = "create_directory"
    /\ UNCHANGED <<header, frames, torn, rotten, next_sequence_, batch, done, book, acked, faults>>

CreateSyncDirectory ==
    /\ phase = "create_directory"
    /\ disk' = [disk EXCEPT !.entry = TRUE]
    /\ Start(0)
    /\ UNCHANGED <<header, frames, torn, rotten, faults>>

\* Any of these calls fails (or the book cannot be allocated): create returns
\* the error and leaves the file behind.
CreateFails ==
    /\ phase \in {"create_header", "create_sync", "create_directory"}
    /\ Fault /\ Stop("down")
    /\ UNCHANGED file_vars

-----------------------------------------------------------------------------
RecoverBehindTail ==
    /\ phase = "down" /\ ~ScanFails
    /\ Start(Len(frames))
    /\ UNCHANGED <<file_vars, faults>>

\* DurableEngine::recover of a journal without a torn tail: scan, replay, and
\* open_recovered, which scans again and does not fsync.
Recover ==
    /\ phase = "down" /\ ~ScanFails /\ ~torn
    /\ Start(Len(frames))
    /\ UNCHANGED <<file_vars, faults>>

\* recover of a journal with a torn tail goes through
\* repair_truncated_tail_and_open: ftruncate to the last complete frame, fsync,
\* and then a second scan and the replay.
RecoverTorn ==
    /\ phase = "down" /\ ~ScanFails /\ torn
    /\ phase' = "repair_truncate"
    /\ UNCHANGED <<file_vars, next_sequence_, batch, done, book, acked, faults>>

RepairTruncateTooFar ==
    /\ phase = "repair_truncate" /\ Len(frames) > 0
    /\ frames' = SubSeq(frames, 1, Len(frames) - 1) /\ torn' = FALSE /\ phase' = "repair_sync"
    /\ UNCHANGED <<header, rotten, disk, next_sequence_, batch, done, book, acked, faults>>

RepairTruncate ==
    /\ phase = "repair_truncate"
    /\ torn' = FALSE /\ disk' = [disk EXCEPT !.torn = TRUE] /\ phase' = "repair_sync"
    /\ UNCHANGED <<header, frames, rotten, next_sequence_, batch, done, book, acked, faults>>

RepairSync ==
    /\ phase = "repair_sync"
    /\ FsyncFile
    /\ IF ScanFails THEN Stop("down") ELSE Start(Len(frames))
    /\ UNCHANGED <<header, frames, torn, rotten, faults>>

\* open, ftruncate, fsync or the replay fails: recover returns the error.
RecoverFails ==
    /\ phase \in {"repair_truncate", "repair_sync"}
    /\ Fault /\ Stop("down")
    /\ UNCHANGED file_vars

-----------------------------------------------------------------------------
\* execute_batch up to the first write.  An empty batch, too few sequence
\* numbers or an exception while encoding writes nothing, and fails the engine.
Available == IF next_sequence_ = 0 THEN 0 ELSE MaxSequence - next_sequence_ + 1

ExecuteBatch(commands) ==
    /\ phase = "idle"
    /\ IF commands = <<>> \/ Len(commands) > Available
       THEN Fail("failed") /\ UNCHANGED book
       ELSE /\ phase' = "write" /\ batch' = commands /\ done' = 0
            /\ UNCHANGED <<next_sequence_, book, acked>>
    /\ UNCHANGED <<file_vars, faults>>

\* ::write transferred only part of the frame; write_all goes on.
WritePartial ==
    /\ phase = "write" /\ done < Len(batch) /\ ~torn
    /\ torn' = TRUE
    /\ UNCHANGED <<header, frames, rotten, disk, process_vars, acked, faults>>

\* write_all has written the next frame of the batch completely.
WriteFrame ==
    /\ phase = "write" /\ done < Len(batch)
    /\ frames' = Append(frames, [sequence |-> next_sequence_ + done,
                                 command |-> batch[done + 1]])
    /\ torn' = FALSE /\ disk' = [disk EXCEPT !.torn = FALSE] /\ done' = done + 1
    /\ UNCHANGED <<header, rotten, phase, next_sequence_, batch, book, acked, faults>>

\* All frames are written and fsync succeeds: the writer advances.
Sync ==
    /\ phase = "write" /\ done = Len(batch)
    /\ FsyncFile
    /\ next_sequence_' = IF Len(batch) = Available THEN 0 ELSE next_sequence_ + Len(batch)
    /\ phase' = "apply" /\ done' = 0
    /\ UNCHANGED <<header, frames, torn, rotten, batch, book, acked, faults>>

\* Encoding throws, or a write or the fsync fails: nothing is applied.
JournalFails ==
    /\ phase = "write" /\ Fault /\ Fail("failed")
    /\ UNCHANGED <<file_vars, book>>

ApplyThrowsHealthy ==
    /\ phase = "apply" /\ done < Len(batch) /\ Fault
    /\ Fail("idle") /\ UNCHANGED <<file_vars, book>>

\* Applying a command throws: before its effect (the hook, the sets and the
\* trades it makes room for), after it (invariants_hold, where it is asserted),
\* or within it, when insert_resting_order finds no memory for an order whose
\* id is used and whose trades are executed.  No result of the batch is returned.
\* Commands are not told apart here, so a cancel too may stop midway.
ApplyThrows ==
    /\ phase = "apply" /\ done < Len(batch) /\ Fault
    /\ \/ Fail("failed") /\ book' \in {book, Append(book, batch[done + 1])}
       \/ Fail("midway") /\ UNCHANGED book
    /\ UNCHANGED file_vars

\* The commands are applied in order; the results of the whole batch are
\* returned together.
Apply ==
    /\ phase = "apply" /\ done < Len(batch)
    /\ book' = Append(book, batch[done + 1]) /\ done' = done + 1
    /\ UNCHANGED <<file_vars, phase, next_sequence_, batch, acked, faults>>

Return ==
    /\ phase = "apply" /\ done = Len(batch)
    /\ acked' = acked \cup {frames[i] : i \in (Len(frames) - Len(batch) + 1)..Len(frames)}
    /\ phase' = "idle" /\ batch' = <<>> /\ done' = 0
    /\ UNCHANGED <<file_vars, next_sequence_, book, faults>>

-----------------------------------------------------------------------------
\* The process ends at any point, by a crash or after a failure.
Crash ==
    /\ phase # "down" /\ Fault /\ Stop("down")
    /\ UNCHANGED file_vars

\* A failed engine is shut down so that the journal can be recovered.
Shutdown ==
    /\ phase \in {"failed", "midway"} /\ Stop("down")
    /\ UNCHANGED <<file_vars, faults>>

\* The machine loses power (external): the file keeps what is on disk and a
\* prefix of the rest; a file whose directory entry is not on disk may be gone.
PowerLoss ==
    /\ Fault /\ Stop("down")
    /\ \/ /\ ~disk.entry
          /\ header' = "none" /\ frames' = <<>> /\ torn' = FALSE /\ rotten' = {}
       \/ /\ ~disk.header /\ header # "none"
          /\ header' = "partial" /\ frames' = <<>> /\ torn' = FALSE /\ rotten' = {}
       \/ \E n \in disk.frames..Len(frames) :
             /\ frames' = SubSeq(frames, 1, n) /\ header' = header
             /\ rotten' = rotten \cap (1..n)
             /\ torn' \in {FALSE, n < Len(frames) \/ torn \/ disk.torn}
    /\ disk' = [entry |-> header' # "none", header |-> header' = "whole",
                frames |-> Len(frames'), torn |-> torn']

\* The medium damages a complete frame while no engine runs (external).
Rot ==
    /\ phase = "down" /\ Fault
    /\ \E i \in (1..Len(frames)) \ rotten : rotten' = rotten \cup {i}
    /\ UNCHANGED <<header, frames, torn, disk, process_vars, acked>>

CreateStep == CreateOpen \/ CreateWriteHeader \/ CreateSync \/ CreateSyncDirectory
RecoverStep == Recover \/ RecoverTorn \/ RepairTruncate \/ RepairSync
BatchStep == WriteFrame \/ Sync \/ Apply \/ Return

Next ==
    \/ CreateStep \/ CreateFails
    \/ RecoverStep \/ RecoverFails
    \/ \E commands \in Batches : ExecuteBatch(commands)
    \/ WritePartial \/ BatchStep \/ JournalFails \/ ApplyThrows
    \/ Crash \/ Shutdown \/ PowerLoss \/ Rot

Spec == Init /\ [][Next]_vars

\* An operator restarts a stopped engine with create or recover until it runs,
\* and a call in progress goes on: both threads of control are scheduled.
FairSpec ==
    /\ Spec
    /\ WF_vars(RecoverStep) /\ WF_vars(BatchStep) /\ WF_vars(Shutdown)
    /\ WF_vars(CreateWriteHeader \/ CreateSync \/ CreateSyncDirectory)

-----------------------------------------------------------------------------
IsPrefixOf(s, t) == Len(s) <= Len(t) /\ \A i \in 1..Len(s) : s[i] = t[i]

\* Every variable holds a value of its type.
TypeOK ==
    /\ header \in {"none", "partial", "whole"}
    /\ frames \in Seq(Frame)
    /\ torn \in BOOLEAN
    /\ rotten \subseteq 1..Len(frames)
    /\ disk \in [entry: BOOLEAN, header: BOOLEAN, frames: Nat, torn: BOOLEAN]
    /\ phase \in Phases
    /\ next_sequence_ \in 0..MaxSequence
    /\ batch \in Seq(Commands)
    /\ done \in Nat
    /\ book \in Seq(Commands)
    /\ acked \subseteq Frame
    /\ faults \in 0..MaxFaults

\* A successful response follows durable commit: the frame of every command
\* whose result was returned is on disk at its sequence number, in a file that a
\* loss of power cannot remove.
AckedDurable ==
    acked # {} =>
        /\ disk.entry /\ disk.header
        /\ \A f \in acked : f.sequence <= disk.frames /\ f = frames[f.sequence]

\* Whatever fails, and wherever a crash cuts the journal or recovery repairs it,
\* the numbers of the frames are 1, 2, 3, ...: scan never meets a sequence
\* violation of the writer's own making.
SequencesConsecutive ==
    \A i \in 1..Len(frames) : frames[i].sequence = i

\* The live book is the journal: the commands applied in whole are those of the
\* first frames, in order and each once.  A book that also holds a part of a
\* command replays no prefix of the journal; the part is of a command whose frame
\* comes next, so that recovery applies it in whole, and only a Failed engine has
\* such a book: between calls a healthy one has applied every frame.
BookIsJournal ==
    /\ phase \in {"idle", "write", "apply", "failed", "midway"} =>
          IsPrefixOf(book, Commands_of(frames))
    /\ phase = "midway" => Len(book) < Len(frames)
    /\ phase = "idle" => Len(book) = Len(frames)

\* No fault other than damage to the medium leaves a journal that recovery
\* refuses: once the header is written, scan_descriptor reads what any crash,
\* torn write, failed repair or exhausted sequence leaves in the file.
Recoverable ==
    header = "whole" /\ rotten = {} => ~ScanFails

\* An idle engine appends behind the last frame and not behind torn bytes.
WriterAtEnd ==
    phase = "idle" => ~torn /\ next_sequence_ = SequenceAfter(Len(frames))

\* What is on disk is never rewritten, shortened or reordered: not by recovery,
\* not by a repair, not by a later batch.
DiskOnlyGrows ==
    [][\A i \in 1..disk.frames :
          /\ i <= Len(frames') /\ frames'[i] = frames[i]
          /\ i <= disk.frames']_vars

\* A journal that exists with its header, and that the medium has not damaged,
\* is brought back by recovery.
RecoveryCompletes ==
    (phase = "down" /\ header = "whole") ~>
        (phase = "idle" \/ rotten # {} \/ header # "whole")

\* "every submit or cancellation is appended and fsynced before it is applied to
\* the OrderBook" (README): the commands in the live book are on disk.
AppliedIsSynced ==
    Healthy => Len(book) <= disk.frames

=============================================================================
