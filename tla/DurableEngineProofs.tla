------------------------- MODULE DurableEngineProofs -------------------------
(***************************************************************************)
(* Proofs about DurableEngine, for every set of commands, every largest    *)
(* sequence number, every batch size and every number of faults, on a file *)
(* system that makes a new file's directory entry durable with its first   *)
(* fsync (EntryWithFile).                                                  *)
(***************************************************************************)
EXTENDS DurableEngineRefinement, TLAPS

\* What a leaf may take, in seconds, unless it names a prover; on a busy machine
\* the first attempt may find no time to start.
USE SMTT(30), ZenonT(30), SMTT(40), SMTT(50)

\* The file by itself: frames only behind a whole header, numbered from 1, and
\* what is on disk is part of what is in the file.
FileInv ==
    /\ header # "whole" => frames = <<>> /\ ~torn /\ ~disk.torn
    /\ torn \/ disk.torn => Len(frames) < MaxSequence
    /\ SequencesConsecutive
    /\ disk.frames <= Len(frames)
    /\ disk.header => header = "whole" /\ disk.entry
    /\ disk.frames > 0 => disk.header

\* Where the writer stands.  While a batch is written, its first done commands
\* are the last frames; while it is applied, all of it is on disk.
WriterInv ==
    /\ phase \in {"create_header", "create_sync", "create_directory"} => frames = <<>> /\ ~torn
    /\ phase = "create_header" => header = "partial"
    /\ phase \in {"create_sync", "create_directory", "repair_truncate", "repair_sync",
                  "idle", "write", "apply"} => header = "whole"
    /\ phase = "create_directory" => disk.header
    /\ phase = "repair_truncate" => torn
    /\ phase = "repair_sync" => ~torn
    /\ phase = "idle" => ~torn /\ next_sequence_ = SequenceAfter(Len(frames))
    /\ phase = "write" =>
          /\ next_sequence_ # 0 /\ done <= Len(batch) /\ Len(batch) > 0
          /\ Len(batch) <= MaxSequence - next_sequence_ + 1
          /\ Len(frames) = next_sequence_ - 1 + done
          /\ \A i \in 1..done : frames[next_sequence_ - 1 + i].command = batch[i]
          /\ done = Len(batch) => ~torn
    /\ phase = "apply" =>
          /\ ~torn /\ next_sequence_ = SequenceAfter(Len(frames))
          /\ disk.header /\ disk.frames = Len(frames)
          /\ done <= Len(batch) /\ Len(batch) <= Len(frames)
          /\ \A i \in 1..Len(batch) : frames[Len(frames) - Len(batch) + i].command = batch[i]

\* The commands in the book.
BookInv ==
    /\ phase \in {"idle", "write", "apply", "failed", "midway"} =>
          /\ Len(book) <= Len(frames)
          /\ \A i \in 1..Len(book) : book[i] = frames[i].command
    /\ phase = "midway" => Len(book) < Len(frames)
    /\ phase = "idle" => Len(book) = Len(frames)
    /\ phase = "write" => Len(book) = next_sequence_ - 1
    /\ phase = "apply" => Len(book) = Len(frames) - Len(batch) + done

\* What was returned to a caller is on disk.
AckInv ==
    /\ acked # {} => disk.header
    /\ \A f \in acked : f.sequence <= disk.frames /\ f = frames[f.sequence]

IInv == TypeOK /\ FileInv /\ WriterInv /\ BookInv /\ AckInv

-----------------------------------------------------------------------------
\* The commands of the frames, as replay applies them.
LEMMA CommandsOfSequence ==
    ASSUME NEW s \in Seq(Frame)
    PROVE  /\ Commands_of(s) \in Seq(Commands)
           /\ Len(Commands_of(s)) = Len(s)
           /\ \A i \in 1..Len(s) : Commands_of(s)[i] = s[i].command
<1> DEFINE C == Commands_of(s)
<1>1. Len(s) \in Nat /\ \A i \in 1..Len(s) : s[i] \in Frame
  OBVIOUS
<1>2. C \in [1..Len(s) -> Commands]
  BY <1>1 DEF Commands_of, Frame
<1>3. C \in Seq(Commands) /\ Len(C) = Len(s)
  <2> HIDE DEF C
  <2> QED BY <1>1, <1>2
<1> QED BY <1>3 DEF Commands_of

LEMMA CommandsOfFrames ==
    ASSUME frames \in Seq(Frame)
    PROVE  /\ Commands_of(frames) \in Seq(Commands)
           /\ Len(Commands_of(frames)) = Len(frames)
           /\ \A i \in 1..Len(frames) : Commands_of(frames)[i] = frames[i].command
  BY CommandsOfSequence

\* A journal that is numbered from 1 has no more frames than sequence numbers.
LEMMA LengthBound ==
    ASSUME TypeOK, SequencesConsecutive
    PROVE  Len(frames) \in 0..MaxSequence
<1>1. CASE frames = <<>>
  BY <1>1, EngineAssumption
<1>2. CASE frames # <<>>
  <2>1. Len(frames) \in 1..Len(frames) /\ frames[Len(frames)] \in Frame
    BY <1>2 DEF TypeOK
  <2>2. frames[Len(frames)].sequence = Len(frames)
    BY <2>1 DEF SequencesConsecutive
  <2> QED BY <2>1, <2>2, EngineAssumption DEF Frame
<1> QED BY <1>1, <1>2

\* SequenceAfter is a sequence number or 0 for nullopt.
LEMMA SequenceAfterType ==
    ASSUME NEW n \in 0..MaxSequence
    PROVE  SequenceAfter(n) \in 0..MaxSequence
  BY EngineAssumption DEF SequenceAfter

\* No journal and no engine yet.
LEMMA InitInv ==
    Init => IInv
<1> SUFFICES ASSUME Init PROVE IInv
  OBVIOUS
<1> USE EngineAssumption DEF Init
<1>1. TypeOK
  <2>1. disk \in [entry: BOOLEAN, header: BOOLEAN, frames: Nat, torn: BOOLEAN]
    OBVIOUS
  <2>2. rotten \subseteq 1..Len(frames) /\ acked \subseteq Frame
    OBVIOUS
  <2>3. frames \in Seq(Frame) /\ batch \in Seq(Commands) /\ book \in Seq(Commands)
    OBVIOUS
  <2>4. header \in {"none", "partial", "whole"} /\ torn \in BOOLEAN /\ phase \in Phases
    BY Zenon DEF Phases
  <2>5. next_sequence_ \in 0..MaxSequence /\ done \in Nat /\ faults \in 0..MaxFaults
    BY SMT
  <2> HIDE DEF Init
  <2> QED BY <2>1, <2>2, <2>3, <2>4, <2>5 DEF TypeOK
<1>2. FileInv
  BY DEF FileInv, SequencesConsecutive
<1>3. WriterInv /\ BookInv /\ AckInv
  BY DEF WriterInv, BookInv, AckInv
<1> QED BY <1>1, <1>2, <1>3 DEF IInv

\* Whatever stops the engine and leaves the file alone.
LEMMA StopInv ==
    ASSUME IInv, Stop("down"), UNCHANGED file_vars, faults' \in 0..MaxFaults
    PROVE  IInv'
  BY EngineAssumption
  DEF IInv, TypeOK, FileInv, WriterInv, BookInv, AckInv, SequencesConsecutive, Phases, Stop, file_vars

\* An engine starts behind the last frame of a journal without torn bytes.
LEMMA StartInv ==
    ASSUME IInv, Start(Len(frames)), header = "whole", ~torn,
           UNCHANGED <<header, frames, torn, rotten, faults>>,
           disk' \in [entry: BOOLEAN, header: BOOLEAN, frames: Nat, torn: BOOLEAN],
           FileInv', AckInv'
    PROVE  IInv'
<1>1. Len(frames) \in 0..MaxSequence
  BY LengthBound DEF IInv, FileInv
<1>2. next_sequence_' \in 0..MaxSequence /\ next_sequence_' = SequenceAfter(Len(frames))
  BY <1>1, SequenceAfterType DEF Start
<1>3. /\ book' \in Seq(Commands) /\ Len(book') = Len(frames)
      /\ \A i \in 1..Len(frames) : book'[i] = frames[i].command
  BY CommandsOfFrames DEF Start, IInv, TypeOK
<1>4. TypeOK'
  BY <1>2, <1>3 DEF IInv, TypeOK, Start, Phases
<1>5. WriterInv' /\ BookInv'
  BY <1>1, <1>2, <1>3 DEF WriterInv, BookInv, Start
<1> QED BY <1>4, <1>5 DEF IInv

\* create, up to the first engine.
LEMMA CreateInv ==
    ASSUME IInv, EntryWithFile = TRUE, CreateStep \/ CreateFails
    PROVE  IInv'
<1> USE EngineAssumption DEF IInv, TypeOK, FileInv, WriterInv, BookInv, AckInv, SequencesConsecutive, Phases
<1>1. CASE CreateOpen
  BY <1>1 DEF CreateOpen
<1>2. CASE CreateWriteHeader
  BY <1>2 DEF CreateWriteHeader
<1>3. CASE CreateSync
  <2>1. disk' = [entry |-> TRUE, header |-> TRUE, frames |-> 0, torn |-> FALSE]
    BY <1>3, ZenonT(30) DEF CreateSync, FsyncFile
  <2> QED BY <1>3, <2>1 DEF CreateSync
<1>4. CASE CreateSyncDirectory
  <2>1. Len(frames) = 0
    BY <1>4 DEF CreateSyncDirectory
  <2>2. FileInv' /\ AckInv' /\ header = "whole" /\ ~torn
    BY <1>4 DEF CreateSyncDirectory, Start
  <2>3. disk' \in [entry: BOOLEAN, header: BOOLEAN, frames: Nat, torn: BOOLEAN]
    BY <1>4, ZenonT(30) DEF CreateSyncDirectory
  <2> HIDE DEF IInv, FileInv, AckInv
  <2> QED BY <1>4, <2>1, <2>2, <2>3, StartInv DEF CreateSyncDirectory
<1>5. CASE CreateFails
  <2>1. faults' \in 0..MaxFaults
    BY <1>5 DEF CreateFails, Fault
  <2> QED BY <1>5, <2>1, StopInv, ZenonT(30) DEF CreateFails
<1> QED BY <1>1, <1>2, <1>3, <1>4, <1>5, ZenonT(30) DEF CreateStep

\* recover, with or without a repair.
LEMMA RecoverInv ==
    ASSUME IInv, EntryWithFile = TRUE, RecoverStep \/ RecoverFails
    PROVE  IInv'
<1>1. CASE Recover
  <2>1. FileInv' /\ AckInv' /\ header = "whole" /\ ~torn
    BY <1>1 DEF Recover, Start, IInv, FileInv, AckInv, file_vars, ScanFails, SequencesConsecutive
  <2>2. disk' \in [entry: BOOLEAN, header: BOOLEAN, frames: Nat, torn: BOOLEAN]
    BY <1>1 DEF Recover, file_vars, IInv, TypeOK
  <2> QED BY <1>1, <2>1, <2>2, StartInv DEF Recover, file_vars
<1>2. CASE RecoverTorn
  BY <1>2 DEF RecoverTorn, ScanFails, file_vars, IInv, TypeOK, FileInv, WriterInv, BookInv, AckInv,
              SequencesConsecutive, Phases
<1>3. CASE RepairTruncate
  BY <1>3, ZenonT(30) DEF RepairTruncate, IInv, TypeOK, FileInv, WriterInv, BookInv, AckInv,
              SequencesConsecutive, Phases
<1>4. CASE RepairSync
  <2>1. disk' = [entry |-> TRUE, header |-> TRUE, frames |-> Len(frames), torn |-> FALSE]
    BY <1>4, ZenonT(30) DEF RepairSync, FsyncFile, IInv, TypeOK, WriterInv
  <2>2. header = "whole" /\ ~torn /\ UNCHANGED <<header, frames, torn, rotten, faults, acked>>
    BY <1>4 DEF RepairSync, Start, Stop, IInv, WriterInv
  <2>3. FileInv'
    BY <2>1, <2>2 DEF IInv, TypeOK, FileInv, SequencesConsecutive
  <2>7. AckInv'
    <3>1. ASSUME NEW f \in acked PROVE f.sequence <= Len(frames) /\ f = frames[f.sequence]
      BY <3>1 DEF IInv, TypeOK, FileInv, AckInv, Frame
    <3> QED BY <2>1, <2>2, <3>1 DEF AckInv
  <2>4. disk' \in [entry: BOOLEAN, header: BOOLEAN, frames: Nat, torn: BOOLEAN]
    BY <2>1 DEF IInv, TypeOK
  <2>5. CASE Start(Len(frames))
    BY <2>2, <2>3, <2>7, <2>4, <2>5, StartInv
  <2>6. CASE Stop("down")
    BY <2>2, <2>3, <2>7, <2>4, <2>6, EngineAssumption DEF Stop, IInv, TypeOK, WriterInv, BookInv, Phases
  <2> QED BY <1>4, <2>5, <2>6 DEF RepairSync
<1>5. CASE RecoverFails
  <2>1. faults' \in 0..MaxFaults
    BY <1>5, EngineAssumption DEF RecoverFails, Fault, IInv, TypeOK
  <2> QED BY <1>5, <2>1, StopInv DEF RecoverFails
<1> QED BY <1>1, <1>2, <1>3, <1>4, <1>5 DEF RecoverStep

\* The engine becomes Failed with its book as it is, or midway in a command.
LEMMA FailInv ==
    ASSUME IInv, NEW p \in {"failed", "midway"}, Fail(p), UNCHANGED file_vars, faults' \in 0..MaxFaults,
           phase \in {"idle", "write", "apply"}, book' \in Seq(Commands),
           Len(book') <= Len(frames), p = "midway" => Len(book') < Len(frames),
           \A i \in 1..Len(book') : book'[i] = frames[i].command
    PROVE  IInv'
<1>1. TypeOK'
  BY EngineAssumption DEF IInv, TypeOK, Fail, file_vars, Phases
<1>2. FileInv' /\ AckInv'
  BY DEF IInv, FileInv, AckInv, SequencesConsecutive, Fail, file_vars
<1>3. WriterInv' /\ BookInv'
  BY DEF IInv, WriterInv, BookInv, Fail, file_vars
<1> QED BY <1>1, <1>2, <1>3 DEF IInv

\* execute_batch, from the first write to the returned results.
LEMMA BatchInv ==
    ASSUME IInv, EntryWithFile = TRUE,
           \/ \E commands \in Batches : ExecuteBatch(commands)
           \/ WritePartial \/ BatchStep \/ JournalFails \/ ApplyThrows
    PROVE  IInv'
<1> USE EngineAssumption
<1>1. ASSUME NEW commands \in Batches, ExecuteBatch(commands) PROVE IInv'
  <2>1. commands \in Seq(Commands)
    BY DEF Batches
  <2>2. CASE commands = <<>> \/ Len(commands) > Available
    <3>1. phase = "idle" /\ Fail("failed") /\ UNCHANGED <<file_vars, book, faults>>
      BY <1>1, <2>2 DEF ExecuteBatch
    <3>2. /\ book \in Seq(Commands) /\ Len(book) <= Len(frames) /\ faults \in 0..MaxFaults
          /\ \A i \in 1..Len(book) : book[i] = frames[i].command
      BY <3>1 DEF IInv, TypeOK, BookInv
    <3> QED BY <3>1, <3>2, FailInv
  <2>3. CASE ~(commands = <<>> \/ Len(commands) > Available)
    <3>1. /\ phase = "idle" /\ phase' = "write" /\ batch' = commands /\ done' = 0
          /\ UNCHANGED <<next_sequence_, book, acked, file_vars, faults>>
      BY <1>1, <2>3 DEF ExecuteBatch
    <3>2. next_sequence_ # 0 /\ Len(commands) > 0 /\ Len(commands) <= MaxSequence - next_sequence_ + 1
      BY <2>1, <2>3 DEF Available, IInv, TypeOK
    <3>3. Len(frames) \in 0..MaxSequence
      BY LengthBound DEF IInv, FileInv
    <3>4. Len(frames) = next_sequence_ - 1
      BY <3>1, <3>2, <3>3 DEF IInv, WriterInv, SequenceAfter
    <3>5. TypeOK'
      BY <2>1, <3>1 DEF IInv, TypeOK, Phases, file_vars
    <3>6. FileInv' /\ AckInv'
      BY <3>1 DEF IInv, FileInv, AckInv, SequencesConsecutive, file_vars
    <3>7. WriterInv' /\ BookInv'
      BY <2>1, <3>1, <3>2, <3>4 DEF IInv, TypeOK, WriterInv, BookInv, file_vars
    <3> QED BY <3>5, <3>6, <3>7 DEF IInv
  <2> QED BY <2>2, <2>3
<1>2. CASE WritePartial
  BY <1>2 DEF WritePartial, process_vars, IInv, TypeOK, FileInv, WriterInv, BookInv, AckInv,
              SequencesConsecutive, Phases
<1>3. CASE WriteFrame
  <2> DEFINE f == [sequence |-> next_sequence_ + done, command |-> batch[done + 1]]
  <2>1. /\ phase = "write" /\ done < Len(batch) /\ next_sequence_ # 0
        /\ torn' = FALSE /\ done' = done + 1
        /\ disk' = [disk EXCEPT !.torn = FALSE] /\ header = "whole"
        /\ UNCHANGED <<header, rotten, phase, next_sequence_, batch, book, acked, faults>>
    BY <1>3 DEF WriteFrame, IInv, WriterInv
  <2>2. next_sequence_ \in 1..MaxSequence /\ done \in Nat
    BY <2>1 DEF IInv, TypeOK
  <2>3. Len(batch) \in Nat /\ Len(frames) \in Nat
    BY DEF IInv, TypeOK
  <2>4. /\ Len(batch) <= MaxSequence - next_sequence_ + 1
        /\ Len(frames) = next_sequence_ - 1 + done
    BY <2>1 DEF IInv, WriterInv
  <2>5. f \in Frame
    <3>1. batch[done + 1] \in Commands
      BY <2>1, <2>2, <2>3 DEF IInv, TypeOK
    <3>2. next_sequence_ + done \in 1..MaxSequence
      BY <2>1, <2>2, <2>3, <2>4
    <3> QED BY <3>1, <3>2 DEF Frame
  <2>6. /\ frames' \in Seq(Frame) /\ Len(frames') = Len(frames) + 1
        /\ frames'[Len(frames) + 1] = f
        /\ \A i \in 1..Len(frames) : frames'[i] = frames[i]
    <3>1. frames' = Append(frames, f)
      BY <1>3 DEF WriteFrame
    <3> HIDE DEF f
    <3> QED BY <2>5, <3>1 DEF IInv, TypeOK
  <2>7. /\ disk' \in [entry: BOOLEAN, header: BOOLEAN, frames: Nat, torn: BOOLEAN]
        /\ disk'.entry = disk.entry /\ disk'.header = disk.header /\ disk'.frames = disk.frames
    BY <2>1, ZenonT(30) DEF IInv, TypeOK
  <2>8. TypeOK'
    <3>1. rotten' \subseteq 1..Len(frames')
      BY <2>1, <2>3, <2>6 DEF IInv, TypeOK
    <3>2. torn' \in BOOLEAN
      BY <2>1, Zenon
    <3>3. done' \in Nat
      BY <2>1, <2>2
    <3> QED BY <2>1, <2>6, <2>7, <3>1, <3>2, <3>3 DEF IInv, TypeOK
  <2>9. FileInv'
    <3>1. frames'[Len(frames) + 1].sequence = Len(frames) + 1
      BY <2>2, <2>4, <2>6
    <3>2. SequencesConsecutive'
      BY <2>3, <2>6, <3>1 DEF IInv, FileInv, SequencesConsecutive
    <3>3. disk.frames \in Nat /\ disk.frames <= Len(frames)
      BY DEF IInv, TypeOK, FileInv
    <3> QED BY <2>1, <2>3, <2>6, <2>7, <3>2, <3>3 DEF IInv, FileInv
  <2>10. WriterInv'
    <3>1. ASSUME NEW i \in 1..(done + 1)
          PROVE  frames'[next_sequence_ - 1 + i].command = batch[i]
      <4>1. CASE i = done + 1
        BY <2>2, <2>4, <2>6, <4>1
      <4>2. CASE i \in 1..done
        <5>1. frames[next_sequence_ - 1 + i].command = batch[i]
          BY <2>1, <4>2 DEF IInv, WriterInv
        <5>2. next_sequence_ - 1 + i \in 1..Len(frames)
          BY <2>2, <2>4, <4>2
        <5> QED BY <2>6, <5>1, <5>2
      <4> QED BY <2>2, <4>1, <4>2
    <3> QED BY <2>1, <2>2, <2>3, <2>4, <2>6, <3>1 DEF IInv, WriterInv
  <2>11. BookInv'
    <3>1. Len(book) \in Nat /\ Len(book) <= Len(frames) /\ Len(book) = next_sequence_ - 1
      BY <2>1 DEF IInv, TypeOK, BookInv
    <3>2. \A i \in 1..Len(book) : i \in 1..Len(frames) /\ book[i] = frames[i].command
      BY <2>1, <2>3, <3>1 DEF IInv, BookInv
    <3> QED BY <2>1, <2>3, <2>6, <3>1, <3>2 DEF BookInv
  <2>12. AckInv'
    <3>1. ASSUME NEW g \in acked PROVE g.sequence \in 1..Len(frames)
      BY <3>1 DEF IInv, TypeOK, FileInv, AckInv, Frame
    <3> QED BY <2>1, <2>6, <2>7, <3>1 DEF IInv, AckInv
  <2> QED BY <2>8, <2>9, <2>10, <2>11, <2>12 DEF IInv
<1>4. CASE Sync
  <2>1. /\ phase = "write" /\ done = Len(batch) /\ phase' = "apply" /\ done' = 0
        /\ UNCHANGED <<header, frames, torn, rotten, batch, book, acked, faults>>
    BY <1>4 DEF Sync
  <2>2. /\ next_sequence_ # 0 /\ Len(batch) <= MaxSequence - next_sequence_ + 1
        /\ Len(frames) = next_sequence_ - 1 + Len(batch) /\ ~torn /\ header = "whole"
        /\ \A i \in 1..Len(batch) : frames[next_sequence_ - 1 + i].command = batch[i]
    BY <2>1 DEF IInv, WriterInv
  <2>3. next_sequence_ \in 1..MaxSequence /\ Len(batch) \in Nat /\ Len(frames) \in Nat
    BY <2>2 DEF IInv, TypeOK
  <2>4. disk' = [entry |-> TRUE, header |-> TRUE, frames |-> Len(frames), torn |-> torn]
    BY <1>4, ZenonT(30) DEF Sync, FsyncFile
  <2>5. /\ disk' \in [entry: BOOLEAN, header: BOOLEAN, frames: Nat, torn: BOOLEAN]
        /\ disk'.entry /\ disk'.header /\ disk'.frames = Len(frames) /\ disk'.torn = torn
    BY <2>3, <2>4 DEF IInv, TypeOK
  <2>6. next_sequence_' = SequenceAfter(Len(frames))
    <3>1. next_sequence_' = IF Len(batch) = Available THEN 0 ELSE next_sequence_ + Len(batch)
      BY <1>4 DEF Sync
    <3> QED BY <2>2, <2>3, <3>1 DEF Available, SequenceAfter
  <2>7. next_sequence_' \in 0..MaxSequence
    BY <2>6, SequenceAfterType, LengthBound DEF IInv, FileInv
  <2>8. TypeOK'
    BY <2>1, <2>5, <2>7 DEF IInv, TypeOK, Phases
  <2>9. FileInv'
    BY <2>1, <2>2, <2>3, <2>5 DEF IInv, FileInv, SequencesConsecutive
  <2>10. WriterInv'
    <3>1. \A i \in 1..Len(batch) : frames[Len(frames) - Len(batch) + i].command = batch[i]
      BY <2>2, <2>3
    <3> QED BY <2>1, <2>2, <2>3, <2>5, <2>6, <3>1 DEF WriterInv
  <2>11. BookInv'
    <3>1. /\ Len(book) \in Nat /\ Len(book) <= Len(frames) /\ Len(book) = next_sequence_ - 1
          /\ \A i \in 1..Len(book) : book[i] = frames[i].command
      BY <2>1 DEF IInv, TypeOK, BookInv
    <3>2. Len(book) = Len(frames) - Len(batch) + 0
      BY <2>2, <2>3, <3>1
    <3> QED BY <2>1, <3>1, <3>2 DEF BookInv
  <2>12. AckInv'
    <3>1. disk.frames \in Nat /\ disk.frames <= Len(frames)
      BY DEF IInv, TypeOK, FileInv
    <3>2. \A g \in acked : g.sequence \in Nat /\ g.sequence <= disk.frames /\ g = frames[g.sequence]
      BY DEF IInv, TypeOK, AckInv, Frame
    <3> QED BY <2>1, <2>3, <2>5, <3>1, <3>2 DEF AckInv
  <2> QED BY <2>8, <2>9, <2>10, <2>11, <2>12 DEF IInv
<1>5. ASSUME phase = "apply", done < Len(batch)
      PROVE  LET b == Append(book, batch[done + 1])
             IN  /\ b \in Seq(Commands) /\ Len(b) = Len(book) + 1 /\ Len(b) <= Len(frames)
                 /\ \A i \in 1..Len(b) : b[i] = frames[i].command
  <2>1. /\ Len(batch) \in Nat /\ Len(frames) \in Nat /\ done \in Nat /\ Len(book) \in Nat
        /\ batch \in Seq(Commands) /\ book \in Seq(Commands)
    BY DEF IInv, TypeOK
  <2>2. batch[done + 1] \in Commands
    BY <1>5, <2>1
  <2>3. Len(batch) <= Len(frames) /\ Len(book) = Len(frames) - Len(batch) + done
    BY <1>5 DEF IInv, WriterInv, BookInv
  <2>4. batch[done + 1] = frames[Len(book) + 1].command
    <3>1. done + 1 \in 1..Len(batch) /\ Len(frames) - Len(batch) + (done + 1) = Len(book) + 1
      BY <1>5, <2>1, <2>3
    <3>2. frames[Len(frames) - Len(batch) + (done + 1)].command = batch[done + 1]
      BY <1>5, <3>1 DEF IInv, WriterInv
    <3> QED BY <3>1, <3>2
  <2>5. \A i \in 1..Len(book) : book[i] = frames[i].command
    BY <1>5 DEF IInv, BookInv
  <2> DEFINE c == batch[done + 1]
  <2>6. c \in Commands /\ c = frames[Len(book) + 1].command
    BY <2>2, <2>4
  <2> HIDE DEF c
  <2>7. /\ Append(book, c) \in Seq(Commands) /\ Len(Append(book, c)) = Len(book) + 1
        /\ \A i \in 1..Len(book) : Append(book, c)[i] = book[i]
        /\ Append(book, c)[Len(book) + 1] = c
    BY <2>1, <2>6
  <2>8. Len(book) + 1 <= Len(frames)
    BY <1>5, <2>1, <2>3
  <2>9. \A i \in 1..(Len(book) + 1) : i \in 1..Len(book) \/ i = Len(book) + 1
    BY <2>1
  <2> QED BY <2>5, <2>6, <2>7, <2>8, <2>9 DEF c
<1>6. CASE Apply
  <2>1. /\ phase = "apply" /\ done < Len(batch) /\ done' = done + 1
        /\ book' = Append(book, batch[done + 1])
        /\ UNCHANGED <<header, frames, torn, rotten, disk, phase, next_sequence_, batch, acked, faults>>
    BY <1>6 DEF Apply, file_vars
  <2>2. /\ book' \in Seq(Commands) /\ Len(book') = Len(book) + 1 /\ Len(book') <= Len(frames)
        /\ \A i \in 1..Len(book') : book'[i] = frames[i].command
    BY <1>5, <2>1
  <2>3. done \in Nat /\ Len(batch) \in Nat /\ Len(book) \in Nat /\ Len(frames) \in Nat
    BY DEF IInv, TypeOK
  <2>4. done' \in Nat /\ done' <= Len(batch)
    BY <2>1, <2>3
  <2>5. TypeOK'
    BY <2>1, <2>2, <2>4 DEF IInv, TypeOK
  <2>6. FileInv' /\ AckInv'
    BY <2>1 DEF IInv, FileInv, AckInv, SequencesConsecutive
  <2>7. WriterInv'
    BY <2>1, <2>4 DEF IInv, WriterInv
  <2>8. BookInv'
    <3>1. Len(book) = Len(frames) - Len(batch) + done
      BY <2>1 DEF IInv, BookInv
    <3>2. Len(book') = Len(frames) - Len(batch) + done'
      BY <2>1, <2>2, <2>3, <3>1
    <3> QED BY <2>1, <2>2, <3>2 DEF BookInv
  <2> QED BY <2>5, <2>6, <2>7, <2>8 DEF IInv
<1>7. CASE Return
  <2>1. /\ phase = "apply" /\ done = Len(batch) /\ phase' = "idle" /\ batch' = <<>> /\ done' = 0
        /\ acked' = acked \cup {frames[i] : i \in (Len(frames) - Len(batch) + 1)..Len(frames)}
        /\ UNCHANGED <<header, frames, torn, rotten, disk, next_sequence_, book, faults>>
    BY <1>7 DEF Return, file_vars
  <2>2. /\ Len(batch) \in Nat /\ Len(frames) \in Nat /\ Len(batch) <= Len(frames)
        /\ disk.header /\ disk.frames = Len(frames)
    BY <2>1 DEF IInv, TypeOK, WriterInv
  <2>3. ASSUME NEW i \in (Len(frames) - Len(batch) + 1)..Len(frames)
        PROVE  frames[i] \in Frame /\ frames[i].sequence = i /\ i <= disk.frames
    <3>1. i \in 1..Len(frames)
      BY <2>2
    <3> QED BY <2>2, <3>1 DEF IInv, TypeOK, FileInv, SequencesConsecutive
  <2>4. TypeOK'
    <3>1. acked' \subseteq Frame
      BY <2>1, <2>3 DEF IInv, TypeOK
    <3> QED BY <2>1, <3>1 DEF IInv, TypeOK, Phases
  <2>5. FileInv'
    BY <2>1 DEF IInv, FileInv, SequencesConsecutive
  <2>6. WriterInv' /\ BookInv'
    BY <2>1, <2>2 DEF IInv, WriterInv, BookInv
  <2>7. AckInv'
    <3>1. ASSUME NEW g \in acked' PROVE g.sequence <= disk.frames /\ g = frames[g.sequence]
      <4>1. CASE g \in acked
        BY <4>1, Zenon DEF IInv, AckInv
      <4>2. CASE \E i \in (Len(frames) - Len(batch) + 1)..Len(frames) : g = frames[i]
        BY <2>3, <4>2, Zenon
      <4> QED BY <2>1, <4>1, <4>2
    <3> QED BY <2>1, <2>2, <3>1 DEF AckInv
  <2> QED BY <2>4, <2>5, <2>6, <2>7 DEF IInv
<1>8. CASE JournalFails
  <2>1. faults' \in 0..MaxFaults
    BY <1>8 DEF JournalFails, Fault, IInv, TypeOK
  <2>2. /\ book \in Seq(Commands) /\ Len(book) <= Len(frames)
        /\ \A i \in 1..Len(book) : book[i] = frames[i].command
    BY <1>8 DEF JournalFails, IInv, TypeOK, BookInv
  <2> QED BY <1>8, <2>1, <2>2, FailInv DEF JournalFails
<1>9. CASE ApplyThrows
  <2>1. /\ phase = "apply" /\ done < Len(batch) /\ UNCHANGED file_vars
        /\ \/ Fail("failed") /\ (book' = book \/ book' = Append(book, batch[done + 1]))
           \/ Fail("midway") /\ book' = book
    BY <1>9 DEF ApplyThrows
  <2>2. faults' \in 0..MaxFaults
    BY <1>9 DEF ApplyThrows, Fault, IInv, TypeOK
  <2>3. CASE book' = book
    <3>1. /\ book' \in Seq(Commands) /\ Len(book') < Len(frames)
          /\ \A i \in 1..Len(book') : book'[i] = frames[i].command
      BY <2>1, <2>3 DEF IInv, TypeOK, WriterInv, BookInv
    <3>2. Len(book') <= Len(frames)
      BY <3>1 DEF IInv, TypeOK
    <3>3. PICK p \in {"failed", "midway"} : Fail(p)
      BY <2>1
    <3> QED BY <2>1, <2>2, <3>1, <3>2, <3>3, FailInv
  <2>4. CASE Fail("failed") /\ book' = Append(book, batch[done + 1])
    <3>1. /\ book' \in Seq(Commands) /\ Len(book') <= Len(frames)
          /\ \A i \in 1..Len(book') : book'[i] = frames[i].command
      BY <1>5, <2>1, <2>4
    <3> QED BY <2>1, <2>2, <2>4, <3>1, FailInv
  <2> QED BY <2>1, <2>3, <2>4
<1> QED BY <1>1, <1>2, <1>3, <1>4, <1>6, <1>7, <1>8, <1>9 DEF BatchStep

\* A loss of power takes only what is not on disk, and nothing that was returned
\* to a caller is among it.
LEMMA PowerLossInv ==
    ASSUME IInv, PowerLoss
    PROVE  IInv'
<1> USE EngineAssumption
<1>1. faults' \in 0..MaxFaults
  BY DEF PowerLoss, Fault, IInv, TypeOK
<1>2. /\ phase' = "down" /\ next_sequence_' = 0 /\ batch' = <<>> /\ done' = 0 /\ book' = <<>>
      /\ UNCHANGED acked
  BY DEF PowerLoss, Stop
<1>3. disk' = [entry |-> header' # "none", header |-> header' = "whole",
               frames |-> Len(frames'), torn |-> torn']
  BY DEF PowerLoss
<1>4. disk.frames \in Nat /\ Len(frames) \in Nat /\ disk.frames <= Len(frames)
  BY DEF IInv, TypeOK, FileInv
<1>5. SUFFICES
        /\ header' \in {"none", "partial", "whole"} /\ frames' \in Seq(Frame) /\ torn' \in BOOLEAN
        /\ rotten' \subseteq 1..Len(frames')
        /\ header' # "whole" => frames' = <<>> /\ ~torn'
        /\ torn' => Len(frames') < MaxSequence
        /\ SequencesConsecutive'
        /\ acked # {} => header' = "whole"
        /\ \A f \in acked : f.sequence <= Len(frames') /\ f = frames'[f.sequence]
  <2>1. /\ disk' \in [entry: BOOLEAN, header: BOOLEAN, frames: Nat, torn: BOOLEAN]
        /\ disk'.entry = (header' # "none") /\ disk'.header = (header' = "whole")
        /\ disk'.frames = Len(frames') /\ disk'.torn = torn'
    BY <1>3, <1>5
  <2>2. TypeOK'
    BY <1>1, <1>2, <1>5, <2>1 DEF IInv, TypeOK, Phases
  <2>3. Len(frames') \in Nat /\ (frames' = <<>> => Len(frames') = 0)
    BY <1>5
  <2>4. FileInv'
    BY <1>5, <2>1, <2>3 DEF FileInv
  <2>5. WriterInv' /\ BookInv'
    BY <1>2 DEF WriterInv, BookInv
  <2>6. AckInv'
    BY <1>2, <1>5, <2>1 DEF AckInv
  <2> QED BY <2>2, <2>4, <2>5, <2>6 DEF IInv
<1>6. CASE /\ ~disk.entry \/ ~disk.header
           /\ header' \in {"none", "partial"} /\ frames' = <<>> /\ torn' = FALSE /\ rotten' = {}
  <2>1. acked = {}
    BY <1>6 DEF IInv, FileInv, AckInv
  <2>2. torn' \in BOOLEAN /\ ~torn'
    BY <1>6, Zenon
  <2> QED BY <1>6, <2>1, <2>2 DEF SequencesConsecutive
<1>7. ASSUME NEW n \in disk.frames..Len(frames),
             frames' = SubSeq(frames, 1, n), header' = header, rotten' = rotten \cap (1..n),
             torn' \in {FALSE, n < Len(frames) \/ torn \/ disk.torn}
      PROVE  /\ header' \in {"none", "partial", "whole"} /\ frames' \in Seq(Frame) /\ torn' \in BOOLEAN
             /\ rotten' \subseteq 1..Len(frames')
             /\ header' # "whole" => frames' = <<>> /\ ~torn'
             /\ torn' => Len(frames') < MaxSequence
             /\ SequencesConsecutive'
             /\ acked # {} => header' = "whole"
             /\ \A f \in acked : f.sequence <= Len(frames') /\ f = frames'[f.sequence]
  <2>1. n \in Nat /\ n <= Len(frames)
    BY <1>4
  <2>2. /\ frames' \in Seq(Frame) /\ Len(frames') = n
        /\ \A i \in 1..n : i \in 1..Len(frames) /\ frames'[i] = frames[i]
    BY <1>7, <2>1 DEF IInv, TypeOK
  <2>3. SequencesConsecutive'
    BY <2>1, <2>2 DEF IInv, FileInv, SequencesConsecutive
  <2>4. \A f \in acked : f.sequence <= Len(frames') /\ f = frames'[f.sequence]
    <3>1. \A f \in acked : f.sequence \in 1..disk.frames /\ f = frames[f.sequence]
      BY <1>4 DEF IInv, TypeOK, AckInv, Frame
    <3>2. 1..disk.frames \subseteq 1..n
      BY <1>4, <2>1
    <3> QED BY <2>1, <2>2, <3>1, <3>2
  <2>5. acked # {} => header' = "whole"
    BY <1>7 DEF IInv, FileInv, AckInv
  <2>6. header' # "whole" => frames' = <<>> /\ ~torn'
    <3>1. SUFFICES ASSUME header # "whole" PROVE frames' = <<>> /\ ~torn'
      BY <1>7
    <3>2. frames = <<>> /\ ~torn /\ ~disk.torn
      BY <3>1 DEF IInv, FileInv
    <3>3. n = 0 /\ Len(frames) = 0
      BY <2>1, <3>2
    <3>4. frames' = <<>>
      BY <2>2, <3>3
    <3>5. ~(n < Len(frames))
      BY <3>3
    <3> QED BY <1>7, <3>2, <3>4, <3>5, ZenonT(30)
  <2>7. torn' \in BOOLEAN
    BY <1>7, ZenonT(30) DEF IInv, TypeOK
  <2>8. torn' => Len(frames') < MaxSequence
    <3>1. Len(frames) \in 0..MaxSequence
      BY LengthBound DEF IInv, FileInv
    <3>2. CASE n < Len(frames)
      BY <2>1, <2>2, <3>1, <3>2
    <3>3. CASE ~(n < Len(frames))
      <4>1. Len(frames') = Len(frames)
        BY <1>4, <2>1, <2>2, <3>3
      <4>2. torn' => torn \/ disk.torn
        BY <1>7, <3>3, ZenonT(30)
      <4> QED BY <4>1, <4>2 DEF IInv, FileInv
    <3> QED BY <3>2, <3>3
  <2> QED BY <1>7, <2>2, <2>3, <2>4, <2>5, <2>6, <2>7, <2>8, ZenonT(30) DEF IInv, TypeOK
<1> QED BY <1>6, <1>7, ZenonT(30) DEF PowerLoss

\* The faults that leave the file alone or only damage a frame in it.
LEMMA FaultInv ==
    ASSUME IInv, Crash \/ Shutdown \/ Rot
    PROVE  IInv'
<1> USE EngineAssumption
<1>1. CASE Crash
  <2>1. faults' \in 0..MaxFaults
    BY <1>1 DEF Crash, Fault, IInv, TypeOK
  <2> QED BY <1>1, <2>1, StopInv DEF Crash
<1>2. CASE Shutdown
  <2>1. faults' \in 0..MaxFaults
    BY <1>2 DEF Shutdown, IInv, TypeOK
  <2> QED BY <1>2, <2>1, StopInv DEF Shutdown
<1>3. CASE Rot
  <2>1. faults' \in 0..MaxFaults
    BY <1>3 DEF Rot, Fault, IInv, TypeOK
  <2>2. /\ rotten' \subseteq 1..Len(frames)
        /\ UNCHANGED <<header, frames, torn, disk, phase, next_sequence_, batch, done, book, acked>>
    BY <1>3 DEF Rot, process_vars, IInv, TypeOK
  <2>3. TypeOK'
    BY <2>1, <2>2 DEF IInv, TypeOK
  <2>4. FileInv' /\ WriterInv' /\ BookInv' /\ AckInv'
    BY <2>2 DEF IInv, FileInv, WriterInv, BookInv, AckInv, SequencesConsecutive
  <2> QED BY <2>3, <2>4 DEF IInv
<1> QED BY <1>1, <1>2, <1>3

\* Every step keeps the inductive invariant.
LEMMA StepInv ==
    ASSUME IInv, EntryWithFile = TRUE, [Next]_vars
    PROVE  IInv'
<1>1. CASE CreateStep \/ CreateFails
  BY <1>1, CreateInv
<1>2. CASE RecoverStep \/ RecoverFails
  BY <1>2, RecoverInv
<1>3. CASE \/ \E commands \in Batches : ExecuteBatch(commands)
           \/ WritePartial \/ BatchStep \/ JournalFails \/ ApplyThrows
  BY <1>3, BatchInv
<1>4. CASE PowerLoss
  BY <1>4, PowerLossInv
<1>5. CASE Crash \/ Shutdown \/ Rot
  BY <1>5, FaultInv
<1>6. CASE UNCHANGED vars
  BY <1>6 DEF vars, file_vars, process_vars, IInv, TypeOK, FileInv, WriterInv, BookInv, AckInv,
              SequencesConsecutive
<1> QED BY <1>1, <1>2, <1>3, <1>4, <1>5, <1>6 DEF Next

-----------------------------------------------------------------------------
\* The file, the writer, the book and what was returned stay related as IInv
\* says, through any batches, failures, crashes, power losses and recoveries.
THEOREM Invariance ==
    EntryWithFile = TRUE /\ Spec => []IInv
<1> SUFFICES ASSUME EntryWithFile = TRUE PROVE Spec => []IInv
  OBVIOUS
<1>1. Init => IInv
  BY InitInv
<1>2. IInv /\ [Next]_vars => IInv'
  BY StepInv
<1> QED BY <1>1, <1>2, PTL DEF Spec

\* Every variable keeps its type.
THEOREM TypeCorrect ==
    EntryWithFile = TRUE /\ Spec => []TypeOK
<1>1. IInv => TypeOK
  BY DEF IInv
<1> QED BY <1>1, Invariance, PTL

\* A successful response follows durable commit: no crash and no loss of power,
\* at any point and however often, takes a command that append_and_sync or
\* append_batch_and_sync reported and execute_batch returned.
THEOREM Durability ==
    EntryWithFile = TRUE /\ Spec => []AckedDurable
<1>1. IInv => AckedDurable
  BY DEF IInv, AckInv, FileInv, AckedDurable
<1> QED BY <1>1, Invariance, PTL

\* The journal is numbered 1, 2, 3, ... through every failure and recovery.
THEOREM Consecutive ==
    EntryWithFile = TRUE /\ Spec => []SequencesConsecutive
<1>1. IInv => SequencesConsecutive
  BY DEF IInv, FileInv
<1> QED BY <1>1, Invariance, PTL

\* What is applied in whole to the live book is a prefix of the journal, and all
\* of it between calls of a healthy engine; a command applied in part by a call
\* that threw is the one of the next frame.
THEOREM BookReplaysJournal ==
    EntryWithFile = TRUE /\ Spec => []BookIsJournal
<1>1. IInv => BookIsJournal
  <2> SUFFICES ASSUME IInv PROVE BookIsJournal
    OBVIOUS
  <2>1. /\ Len(Commands_of(frames)) = Len(frames)
        /\ \A i \in 1..Len(frames) : Commands_of(frames)[i] = frames[i].command
    BY CommandsOfFrames DEF IInv, TypeOK
  <2>2. Len(book) \in Nat /\ Len(frames) \in Nat
    BY DEF IInv, TypeOK
  <2>3. ASSUME phase \in {"idle", "write", "apply", "failed", "midway"}
        PROVE  IsPrefixOf(book, Commands_of(frames))
    <3>1. Len(book) <= Len(frames) /\ \A i \in 1..Len(book) : book[i] = frames[i].command
      BY <2>3 DEF IInv, BookInv
    <3>2. \A i \in 1..Len(book) : i \in 1..Len(frames)
      BY <2>2, <3>1
    <3> QED BY <2>1, <3>1, <3>2 DEF IsPrefixOf
  <2> QED BY <2>3 DEF IInv, BookInv, BookIsJournal
<1> QED BY <1>1, Invariance, PTL

\* Whatever the faults, short of damage to the medium, the journal can be
\* recovered.
THEOREM AlwaysRecoverable ==
    EntryWithFile = TRUE /\ Spec => []Recoverable
<1>1. IInv => Recoverable
  BY DEF IInv, FileInv, SequencesConsecutive, ScanFails, Recoverable
<1> QED BY <1>1, Invariance, PTL

\* An idle writer stands behind the last complete frame.
THEOREM WriterStandsAtEnd ==
    EntryWithFile = TRUE /\ Spec => []WriterAtEnd
<1>1. IInv => WriterAtEnd
  BY DEF IInv, WriterInv, WriterAtEnd
<1> QED BY <1>1, Invariance, PTL

\* No step rewrites, shortens or reorders what is on disk.
THEOREM DiskGrows ==
    EntryWithFile = TRUE /\ Spec => DiskOnlyGrows
<1> SUFFICES ASSUME EntryWithFile = TRUE PROVE Spec => DiskOnlyGrows
  OBVIOUS
<1> DEFINE Kept == \A i \in 1..disk.frames :
                      /\ i <= Len(frames') /\ frames'[i] = frames[i]
                      /\ i <= disk.frames'
<1>1. IInv /\ [Next]_vars => [Kept]_vars
  <2> SUFFICES ASSUME IInv, Next PROVE Kept
    OBVIOUS
  <2>1. /\ disk.frames \in Nat /\ Len(frames) \in Nat /\ disk.frames <= Len(frames)
        /\ frames \in Seq(Frame)
    BY DEF IInv, TypeOK, FileInv
  <2>2. CASE frames' = frames /\ disk'.frames \in {disk.frames, Len(frames)}
    BY <2>1, <2>2
  <2>3. CASE CreateStep \/ CreateFails
    BY <2>2, <2>3 DEF CreateStep, CreateOpen, CreateWriteHeader, CreateSync, CreateSyncDirectory,
                      CreateFails, FsyncFile, file_vars, IInv, TypeOK
  <2>4. CASE RecoverStep \/ RecoverFails
    BY <2>2, <2>4 DEF RecoverStep, Recover, RecoverTorn, RepairTruncate, RepairSync,
                      RecoverFails, FsyncFile, file_vars, IInv, TypeOK
  <2>5. CASE \/ \E commands \in Batches : ExecuteBatch(commands)
             \/ WritePartial \/ JournalFails \/ ApplyThrows \/ Crash \/ Shutdown \/ Rot
    BY <2>2, <2>5 DEF ExecuteBatch, WritePartial, JournalFails, ApplyThrows, Crash, Shutdown, Rot,
                      file_vars
  <2>6. CASE Sync \/ Apply \/ Return
    BY <2>2, <2>6 DEF Sync, Apply, Return, FsyncFile, file_vars
  <2>7. CASE WriteFrame
    <3>1. disk'.frames = disk.frames
      BY <2>7 DEF WriteFrame, IInv, TypeOK
    <3> DEFINE f == [sequence |-> next_sequence_ + done, command |-> batch[done + 1]]
    <3>2. frames' = Append(frames, f)
      BY <2>7 DEF WriteFrame
    <3> HIDE DEF f
    <3>3. Len(frames') = Len(frames) + 1 /\ \A i \in 1..Len(frames) : frames'[i] = frames[i]
      BY <2>1, <3>2
    <3> QED BY <2>1, <3>1, <3>3
  <2>8. CASE PowerLoss
    <3>1. disk'.frames = Len(frames')
      BY <2>8 DEF PowerLoss
    <3>2. CASE ~disk.entry \/ ~disk.header
      <4>1. disk.frames = 0
        BY <2>1, <3>2 DEF IInv, FileInv
      <4> QED BY <4>1
    <3>3. ASSUME NEW n \in disk.frames..Len(frames), frames' = SubSeq(frames, 1, n)
          PROVE  Kept
      <4>1. n \in Nat /\ n <= Len(frames) /\ disk.frames <= n
        BY <2>1
      <4>2. Len(frames') = n /\ \A i \in 1..n : frames'[i] = frames[i]
        BY <2>1, <3>3, <4>1
      <4> QED BY <2>1, <3>1, <4>1, <4>2
    <3> QED BY <2>8, <3>2, <3>3, ZenonT(30) DEF PowerLoss
  <2> QED BY <2>3, <2>4, <2>5, <2>6, <2>7, <2>8 DEF Next, BatchStep
<1>2. []IInv /\ [][Next]_vars => [][Kept]_vars
  BY <1>1, PTL
<1> QED BY <1>2, Invariance, PTL DEF Spec, DiskOnlyGrows


-----------------------------------------------------------------------------
(* DurableEngine implements CommandLog.                                     *)

\* Of the frames that callers have answers for, one comes last.
LastAnswered ==
    acked # {} => \E g \in acked : \A f \in acked : f.sequence <= g.sequence

\* The number that Acknowledged chooses is the one of the last frame.
LEMMA AcknowledgedIsLast ==
    ASSUME NEW A \in SUBSET Frame, NEW g \in A, \A f \in A : f.sequence <= g.sequence
    PROVE  (CHOOSE n \in {f.sequence : f \in A} : \A f \in A : f.sequence <= n) = g.sequence
<1> DEFINE N == {f.sequence : f \in A}
           Last(n) == \A f \in A : f.sequence <= n
<1>1. \A f \in A : f.sequence \in 1..MaxSequence
  BY DEF Frame
<1>2. g.sequence \in N /\ Last(g.sequence)
  OBVIOUS
<1>3. \A n \in N : Last(n) => n = g.sequence
  <2> SUFFICES ASSUME NEW f \in A, Last(f.sequence) PROVE f.sequence = g.sequence
    OBVIOUS
  <2>1. g.sequence <= f.sequence /\ f.sequence <= g.sequence
    OBVIOUS
  <2>2. f.sequence \in Nat /\ g.sequence \in Nat
    BY <1>1, EngineAssumption
  <2> QED BY <2>1, <2>2
<1>4. (CHOOSE n \in N : Last(n)) = g.sequence
  <2> HIDE DEF N, Last
  <2> QED BY <1>2, <1>3
<1> QED BY <1>4

\* Every answered frame is on disk, so the committed part of the log is.
LEMMA AcknowledgedBound ==
    ASSUME IInv, LastAnswered
    PROVE  /\ Acknowledged \in Nat /\ Acknowledged <= disk.frames
           /\ ~disk.header => Acknowledged = 0
<1>1. disk.frames \in Nat
  BY DEF IInv, TypeOK
<1>2. CASE acked = {}
  BY <1>1, <1>2 DEF Acknowledged
<1>3. CASE acked # {}
  <2>1. PICK g \in acked : \A f \in acked : f.sequence <= g.sequence
    BY <1>3 DEF LastAnswered
  <2>2. Acknowledged = g.sequence
    BY <1>3, <2>1, AcknowledgedIsLast, ZenonT(30) DEF IInv, TypeOK, Acknowledged
  <2>3. g.sequence \in Nat /\ g.sequence <= disk.frames /\ disk.header
    BY <1>3, EngineAssumption DEF IInv, TypeOK, Frame, AckInv
  <2> QED BY <2>2, <2>3
<1> QED BY <1>2, <1>3

\* Commands_of of a cut journal is the cut log.
LEMMA CommandsOfPrefix ==
    ASSUME NEW s \in Seq(Frame), NEW n \in 0..Len(s)
    PROVE  Commands_of(SubSeq(s, 1, n)) = SubSeq(Commands_of(s), 1, n)
<1>1. Len(s) \in Nat /\ n \in Nat /\ n <= Len(s)
  OBVIOUS
<1> DEFINE t == SubSeq(s, 1, n)
           C == Commands_of(s)
           D == SubSeq(C, 1, n)
<1>2. Len(t) = n /\ \A i \in 1..n : t[i] = s[i]
  BY <1>1
<1>3. C \in Seq(Commands) /\ Len(C) = Len(s) /\ \A i \in 1..Len(s) : C[i] = s[i].command
  BY <1>1, CommandsOfSequence
<1>4. D \in Seq(Commands) /\ Len(D) = n /\ \A i \in 1..n : D[i] = C[i]
  <2> HIDE DEF C
  <2> QED BY <1>1, <1>3
<1>5. D = [i \in 1..n |-> D[i]]
  <2> HIDE DEF D
  <2> QED BY <1>4
<1>6. Commands_of(t) = [i \in 1..n |-> t[i].command]
  BY <1>2 DEF Commands_of
<1>7. \A i \in 1..n : t[i].command = D[i]
  BY <1>1, <1>2, <1>3, <1>4
<1>8. Commands_of(t) = D
  <2> HIDE DEF t, D
  <2> QED BY <1>5, <1>6, <1>7
<1> QED BY <1>8

\* Commands_of of a journal with one more frame is the log with one more command.
LEMMA CommandsOfAppend ==
    ASSUME NEW s \in Seq(Frame), NEW f \in Frame
    PROVE  Commands_of(Append(s, f)) = Append(Commands_of(s), f.command)
<1>1. Len(s) \in Nat /\ f.command \in Commands
  BY DEF Frame
<1> DEFINE t == Append(s, f)
           C == Commands_of(s)
           D == Append(C, f.command)
           n == Len(s) + 1
<1>2. Len(t) = n /\ t[n] = f /\ \A i \in 1..Len(s) : t[i] = s[i]
  BY <1>1
<1>3. C \in Seq(Commands) /\ Len(C) = Len(s) /\ \A i \in 1..Len(s) : C[i] = s[i].command
  BY <1>1, CommandsOfSequence
<1>4. /\ D \in Seq(Commands) /\ Len(D) = n /\ D[n] = f.command
      /\ \A i \in 1..Len(s) : D[i] = C[i]
  <2> HIDE DEF C
  <2> QED BY <1>1, <1>3
<1>5. D = [i \in 1..n |-> D[i]]
  <2> HIDE DEF D
  <2> QED BY <1>4
<1>6. Commands_of(t) = [i \in 1..n |-> t[i].command]
  BY <1>2 DEF Commands_of
<1>7. \A i \in 1..n : t[i].command = D[i]
  <2> SUFFICES ASSUME NEW i \in 1..n PROVE t[i].command = D[i]
    BY ZenonT(30)
  <2>1. CASE i = n
    BY <1>2, <1>4, <2>1
  <2>2. CASE i # n
    <3>1. i \in 1..Len(s)
      BY <1>1, <2>2
    <3> QED BY <1>2, <1>3, <1>4, <3>1
  <2> QED BY <2>1, <2>2, ZenonT(30)
<1>8. Commands_of(t) = D
  <2> HIDE DEF t, D
  <2> QED BY <1>5, <1>6, <1>7
<1> QED BY <1>8

\* Returning the results of a batch commits the whole journal; it is the only
\* step that commits.
LEMMA ReturnCommits ==
    ASSUME IInv, LastAnswered, Return, EntryWithFile = TRUE
    PROVE  /\ LastAnswered'
           /\ \/ UNCHANGED <<frames, acked>>
              \/ frames' = frames /\ Acknowledged' = Len(frames)
<1>1. /\ TypeOK /\ TypeOK' /\ Len(frames) \in Nat /\ Len(batch) \in Nat
      /\ Len(batch) <= Len(frames) /\ frames' = frames
      /\ \A i \in 1..Len(frames) : frames[i].sequence = i
  <2>1. IInv'
    BY StepInv DEF Next, BatchStep
  <2> QED BY <2>1, ZenonT(30) DEF IInv, TypeOK, WriterInv, FileInv, SequencesConsecutive, Return, file_vars
<1> DEFINE new == {frames[i] : i \in (Len(frames) - Len(batch) + 1)..Len(frames)}
<1>2. acked' = acked \cup new
  BY DEF Return
<1>3. CASE Len(batch) = 0
  <2>1. new = {}
    BY <1>1, <1>3
  <2>2. acked' = acked
    BY <1>2, <2>1, ZenonT(30)
  <2> QED BY <1>1, <2>2 DEF LastAnswered
<1>4. CASE Len(batch) # 0
  <2> DEFINE g == frames[Len(frames)]
  <2>1. g \in new /\ g.sequence = Len(frames)
    BY <1>1, <1>4
  <2>2. \A f \in new : f.sequence <= Len(frames)
    BY <1>1
  <2>3. \A f \in acked : f.sequence <= Len(frames)
    <3> SUFFICES ASSUME NEW f \in acked PROVE f.sequence <= Len(frames)
      OBVIOUS
    <3>1. f.sequence \in Nat /\ f.sequence <= disk.frames
      BY EngineAssumption DEF IInv, TypeOK, Frame, AckInv
    <3>2. disk.frames \in Nat /\ disk.frames <= Len(frames)
      BY DEF IInv, TypeOK, FileInv
    <3> QED BY <1>1, <3>1, <3>2
  <2> HIDE DEF g, new
  <2>4. g \in acked' /\ \A f \in acked' : f.sequence <= g.sequence
    BY <1>2, <2>1, <2>2, <2>3
  <2>5. LastAnswered'
    BY <2>4 DEF LastAnswered
  <2>6. Acknowledged' = g.sequence
    <3>1. acked' \in SUBSET Frame /\ acked' # {}
      BY <1>1, <2>4 DEF TypeOK
    <3>2. (CHOOSE n \in {f.sequence : f \in acked'} : \A f \in acked' : f.sequence <= n) = g.sequence
      BY <2>4, <3>1, AcknowledgedIsLast
    <3> QED BY <3>1, <3>2, ZenonT(30) DEF Acknowledged
  <2> QED BY <1>1, <2>1, <2>5, <2>6
<1> QED BY <1>3, <1>4

\* The steps that neither write nor cut the journal nor answer a caller.
LEMMA OtherStepsStutter ==
    ASSUME Next
    PROVE  UNCHANGED <<frames, acked>> \/ WriteFrame \/ Return \/ PowerLoss
<1>1. CASE CreateStep \/ CreateFails
  BY <1>1 DEF CreateStep, CreateOpen, CreateWriteHeader, CreateSync, CreateSyncDirectory,
              CreateFails, Start, Stop, file_vars
<1>2. CASE RecoverStep \/ RecoverFails
  BY <1>2 DEF RecoverStep, Recover, RecoverTorn, RepairTruncate, RepairSync, RecoverFails,
              Start, Stop, file_vars
<1>3. CASE \/ \E commands \in Batches : ExecuteBatch(commands)
           \/ WritePartial \/ JournalFails \/ ApplyThrows \/ Crash \/ Shutdown \/ Rot
  BY <1>3 DEF ExecuteBatch, WritePartial, JournalFails, ApplyThrows, Crash, Shutdown, Rot,
              Fail, Stop, file_vars
<1>4. CASE Sync \/ Apply
  BY <1>4 DEF Sync, Apply, file_vars
<1> QED BY <1>1, <1>2, <1>3, <1>4 DEF Next, BatchStep

\* A written frame extends the log by its command.
LEMMA WriteFrameExtends ==
    ASSUME IInv, WriteFrame, EntryWithFile = TRUE
    PROVE  /\ UNCHANGED acked
           /\ \E c \in Commands : Commands_of(frames)' = Append(Commands_of(frames), c)
<1> DEFINE f == [sequence |-> next_sequence_ + done, command |-> batch[done + 1]]
<1>1. frames' = Append(frames, f) /\ acked' = acked
  BY DEF WriteFrame
<1>2. frames \in Seq(Frame) /\ frames' \in Seq(Frame)
  <2>1. IInv'
    BY StepInv DEF Next, BatchStep
  <2> QED BY <2>1 DEF IInv, TypeOK
<1>3. f \in Frame
  <2> HIDE DEF f
  <2>1. Len(frames) \in Nat /\ Len(frames') = Len(frames) + 1 /\ frames'[Len(frames) + 1] = f
    BY <1>1, <1>2
  <2> QED BY <1>2, <2>1
<1>4. Commands_of(frames') = Append(Commands_of(frames), f.command) /\ f.command \in Commands
  <2> HIDE DEF f
  <2> QED BY <1>1, <1>2, <1>3, CommandsOfAppend, ZenonT(30) DEF Frame
<1>5. Commands_of(frames)' = Commands_of(frames')
  BY DEF Commands_of
<1> QED BY <1>1, <1>4, <1>5

\* A loss of power takes a tail that nobody has an answer for.
LEMMA PowerLossLoses ==
    ASSUME IInv, LastAnswered, PowerLoss
    PROVE  /\ UNCHANGED acked
           /\ \E n \in Acknowledged..Len(Commands_of(frames)) :
                 Commands_of(frames)' = SubSeq(Commands_of(frames), 1, n)
<1>1. acked' = acked
  BY DEF PowerLoss, Stop
<1>2. frames \in Seq(Frame) /\ Len(frames) \in Nat /\ disk.frames \in Nat
  BY DEF IInv, TypeOK
<1>3. Len(Commands_of(frames)) = Len(frames)
  BY <1>2, CommandsOfFrames
<1>4. PICK n \in 0..Len(frames) : Acknowledged <= n /\ frames' = SubSeq(frames, 1, n)
  <2>1. CASE ~disk.entry \/ ~disk.header
    <3>1. Acknowledged = 0
      BY <2>1, AcknowledgedBound DEF IInv, FileInv
    <3>2. CASE frames' = <<>>
      <4>1. SubSeq(frames, 1, 0) = <<>>
        BY <1>2
      <4> QED BY <1>2, <3>1, <3>2, <4>1
    <3>3. CASE \E n \in disk.frames..Len(frames) : frames' = SubSeq(frames, 1, n)
      BY <1>2, <3>1, <3>3
    <3> QED BY <3>2, <3>3, ZenonT(30) DEF PowerLoss
  <2>2. CASE disk.entry /\ disk.header
    <3>1. PICK n \in disk.frames..Len(frames) : frames' = SubSeq(frames, 1, n)
      BY <2>2, ZenonT(30) DEF PowerLoss
    <3>2. n \in 0..Len(frames) /\ disk.frames <= n
      BY <1>2
    <3>3. Acknowledged \in Nat /\ Acknowledged <= disk.frames
      BY AcknowledgedBound
    <3>4. Acknowledged <= n
      BY <1>2, <3>2, <3>3
    <3> QED BY <3>1, <3>2, <3>4
  <2> QED BY <2>1, <2>2
<1>5. Commands_of(frames') = SubSeq(Commands_of(frames), 1, n)
  BY <1>2, <1>4, CommandsOfPrefix
<1>6. Commands_of(frames)' = Commands_of(frames')
  BY DEF Commands_of
<1>7. n \in Acknowledged..Len(Commands_of(frames))
  BY <1>2, <1>3, <1>4, AcknowledgedBound
<1> QED BY <1>1, <1>5, <1>6, <1>7

\* Steps that leave acked alone leave what is committed alone.
LEMMA AcknowledgedKept ==
    ASSUME LastAnswered, UNCHANGED acked
    PROVE  LastAnswered' /\ UNCHANGED Acknowledged
  BY DEF LastAnswered, Acknowledged

\* DurableEngine implements CommandLog: create, execute_batch, recovery and every
\* fault below them leave the callers a log that grows by one command at a time,
\* is committed by the return of results, and loses no committed command.
THEOREM EngineImplementsLog ==
    EntryWithFile = TRUE /\ Spec => ImplementsCommandLog
<1> SUFFICES ASSUME EntryWithFile = TRUE PROVE Spec => ImplementsCommandLog
  OBVIOUS
<1>1. Init => LastAnswered /\ Abstract!LogInit
  <2> SUFFICES ASSUME Init PROVE LastAnswered /\ Abstract!LogInit
    OBVIOUS
  <2>1. frames = <<>> /\ acked = {}
    BY DEF Init
  <2>2. Commands_of(frames) = <<>>
    <3>1. Commands_of(frames) \in Seq(Commands) /\ Len(Commands_of(frames)) = 0
      BY <2>1, CommandsOfFrames
    <3> QED BY <3>1
  <2> QED BY <2>1, <2>2 DEF LastAnswered, Acknowledged, Abstract!LogInit
<1>2. IInv /\ LastAnswered /\ [Next]_vars => LastAnswered' /\ [Abstract!LogNext]_(Abstract!log_vars)
  <2> SUFFICES ASSUME IInv, LastAnswered, [Next]_vars
               PROVE  LastAnswered' /\ [Abstract!LogNext]_(Abstract!log_vars)
    OBVIOUS
  <2>1. CASE UNCHANGED <<frames, acked>>
    <3>1. LastAnswered' /\ UNCHANGED Acknowledged
      BY <2>1, AcknowledgedKept
    <3>2. UNCHANGED Commands_of(frames)
      BY <2>1 DEF Commands_of
    <3> QED BY <3>1, <3>2 DEF Abstract!log_vars
  <2>2. CASE WriteFrame
    <3>1. LastAnswered' /\ UNCHANGED Acknowledged
      BY <2>2, WriteFrameExtends, AcknowledgedKept
    <3>2. Abstract!LogNext
      BY <2>2, <3>1, WriteFrameExtends DEF Abstract!LogNext, Abstract!Extend
    <3> QED BY <3>1, <3>2
  <2>3. CASE Return
    <3>1. LastAnswered'
      BY <2>3, ReturnCommits
    <3>2. CASE frames' = frames /\ Acknowledged' = Len(frames)
      <4>1. UNCHANGED Commands_of(frames)
        BY <3>2 DEF Commands_of
      <4>2. Len(Commands_of(frames)) = Len(frames)
        BY CommandsOfFrames DEF IInv, TypeOK
      <4>3. Abstract!LogNext
        BY <3>2, <4>1, <4>2 DEF Abstract!LogNext, Abstract!Commit
      <4> QED BY <3>1, <4>3
    <3> QED BY <2>1, <2>3, <3>2, ReturnCommits
  <2>4. CASE PowerLoss
    <3>1. LastAnswered' /\ UNCHANGED Acknowledged
      BY <2>4, PowerLossLoses, AcknowledgedKept
    <3>2. Abstract!LogNext
      BY <2>4, <3>1, PowerLossLoses DEF Abstract!LogNext, Abstract!Lose
    <3> QED BY <3>1, <3>2
  <2>5. CASE UNCHANGED vars
    BY <2>1, <2>5 DEF vars, file_vars
  <2> QED BY <2>1, <2>2, <2>3, <2>4, <2>5, OtherStepsStutter
<1>3. Spec => []IInv
  BY Invariance
<1> QED BY <1>1, <1>2, <1>3, PTL DEF Spec, ImplementsCommandLog, Abstract!LogSpec
=============================================================================
