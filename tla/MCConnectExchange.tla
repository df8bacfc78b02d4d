------------------------- MODULE MCConnectExchange -------------------------
(* Two streams of one client IP that may hold one tunnel at a time: the    *)
(* first brings any request and carries bytes, the second is a CONNECT to  *)
(* a relay that contends for the slot.                                     *)
EXTENDS ConnectExchange, TLC

CONSTANTS s1, s2, ip

StreamSet == {s1, s2}
IpSet == {ip}
IpMap == [s \in StreamSet |-> ip]
Units == (s1 :> 2) @@ (s2 :> 0)
Rivals == [big : {FALSE}, te : {FALSE}, host : {TRUE},
           method : {"CONNECT"}, target : {"relay"}]
AskMap == (s1 :> Requests) @@ (s2 :> Rivals)
=============================================================================
