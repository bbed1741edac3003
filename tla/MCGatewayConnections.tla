------------------------ MODULE MCGatewayConnections ------------------------
(* A small instance of GatewayConnections: two connections at a time and two *)
(* connection numbers.  The third client finds the gateway full or out of    *)
(* numbers, and gets the descriptor of one that left; with the fourth, a     *)
(* gateway that went on counting would be back at the number of the first    *)
(* while an answer for it may still be on its way.                           *)
EXTENDS GatewayConnections

SmallClients == 1..4
SmallDescriptors == 1..3
SmallRequests == <<2, 0, 0, 0>>
SmallLeaves == <<{"ended", "reset"}, {"malformed"}, {}, {}>>

=============================================================================
