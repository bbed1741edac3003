----------------------------- MODULE CommandLog -----------------------------
(***************************************************************************)
(* What the journal promises, without files, frames, bytes or fsync: a log *)
(* of commands that grows at its end, of which a prefix is committed.  A   *)
(* command whose caller has an answer is committed.  The others are in     *)
(* doubt: a failure may keep them or lose them, from the end backwards.    *)
(***************************************************************************)
EXTENDS Integers, Sequences

CONSTANT Entries

VARIABLES
    log,         \* the commands, in order
    committed    \* how many of them nothing can take back

log_vars == <<log, committed>>

LogInit == log = <<>> /\ committed = 0

Extend(c) ==
    /\ log' = Append(log, c)
    /\ UNCHANGED committed

Commit ==
    /\ committed' = Len(log)
    /\ UNCHANGED log

Lose ==
    /\ \E n \in committed..Len(log) : log' = SubSeq(log, 1, n)
    /\ UNCHANGED committed

LogNext == (\E c \in Entries : Extend(c)) \/ Commit \/ Lose

LogSpec == LogInit /\ [][LogNext]_log_vars

=============================================================================
