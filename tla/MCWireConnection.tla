-------------------------- MODULE MCWireConnection --------------------------
(* Small instances of WireConnection: one request, a second that is a cancel,*)
(* a submit between two cancels, or at most a cancel followed by a frame     *)
(* with a defect.                                                            *)
EXTENDS WireConnection

Request(type, id) == encode_client_frame(type, id, id)
Requests(n) == {[k \in 1..n |-> Request(t[k], k)] : t \in [1..n -> {SubmitLimitOrder, CancelOrder}]}

Base == Request(CancelOrder, 9)
Defective ==
    {[Base EXCEPT !.magic = 0], [Base EXCEPT !.version = 2], [Base EXCEPT !.type = 3],
     [Base EXCEPT !.length = 5000], [Base EXCEPT !.length = 25],
     encode_client_frame(EngineUnavailable, 9, 9)}

SmallStreams ==
    Requests(1) \cup {s \in Requests(2) : s[2].type = CancelOrder} \cup
    {<<Request(CancelOrder, 1), Request(SubmitLimitOrder, 2), Request(CancelOrder, 3)>>} \cup
    {Append(s, f) : s \in {<<>>, <<Request(CancelOrder, 1)>>}, f \in Defective}

=============================================================================
