----------------------- MODULE DurableEngineRefinement -----------------------
(***************************************************************************)
(* DurableEngine implements CommandLog: the engine's callers see a log of  *)
(* commands, whatever fails below them.  JournalFile implements the same   *)
(* log byte by byte.                                                       *)
(***************************************************************************)
EXTENDS DurableEngine

\* The last frame whose command returned a result; everything before it is on
\* disk with it.
Acknowledged ==
    IF acked = {} THEN 0
    ELSE CHOOSE n \in {f.sequence : f \in acked} : \A f \in acked : f.sequence <= n

Abstract ==
    INSTANCE CommandLog WITH
        Entries <- Commands, log <- Commands_of(frames), committed <- Acknowledged

\* Through batches, failed calls, crashes, losses of power and repairs, the
\* journal under the engine only grows at its end, by one command at a time;
\* returning the results of a batch commits all that was written before, and what
\* a fault or a repair takes back is a tail that no caller has an answer for.
ImplementsCommandLog == Abstract!LogSpec

=============================================================================
