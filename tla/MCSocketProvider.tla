-------------------------- MODULE MCSocketProvider --------------------------
(* Three gateways, so that one is outside the preferred set, and two       *)
(* callers that open tunnels and make GETs for ever.                       *)
EXTENDS SocketProvider

CONSTANTS g1, g2, g3, o1, o2

GatewaySet == {g1, g2, g3}
Shuffle == <<g1, g2, g3>>
OpSet == {o1, o2}
=============================================================================
