----------------------------- MODULE MCExchange -----------------------------
(* Small instances of Exchange: the unreliable connections have Requests     *)
(* requests each, the others one.                                            *)
EXTENDS Exchange

CONSTANT Requests
Sent == [c \in Connections |-> IF c \in Unreliable THEN Requests ELSE 1]

=============================================================================
