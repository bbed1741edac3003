--------------------------- MODULE MCJournalFile ---------------------------
(* Small instances of JournalFile: a submit and a cancel, whose frames differ *)
(* in size, and a change of every field to each value that the decoder might  *)
(* take for another.                                                          *)
EXTENDS JournalFile

SmallCommands ==
    {[type |-> SubmitLimitOrder, payload |-> "order"], [type |-> CancelOrder, payload |-> "id"]}

Change(k, field, value) == [frame |-> k, field |-> field, value |-> value]

SmallDamages ==
    {Change(0, "magic", "other"), Change(0, "format", 2), Change(0, "rules", 2), Change(0, "reserved", 1)}
        \cup UNION {{Change(k, "magic", "other"), Change(k, "version", 2), Change(k, "flags", 1),
                     Change(k, "checksum", <<>>), Change(k, "payload", "other")}
                    \cup {Change(k, "type", t) : t \in {SubmitLimitOrder, CancelOrder, 3}}
                    \cup {Change(k, "length", n) : n \in {8, 25, 64, 65}}
                    \cup {Change(k, "sequence", n) : n \in 0..MaxSequence} :
                    k \in 1..MaxSequence}

=============================================================================
