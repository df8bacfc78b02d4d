-------------------------- MODULE MCTunnelTracker --------------------------
(* Five streams on three connections of two clients: client A can reach its *)
(* own cap, its connection's cap and, with B, the global one.              *)
EXTENDS TunnelTracker, TLC

CONSTANTS s1, s2, s3, s4, s5, c1, c2, c3, ipA, ipB

MCStreams == {s1, s2, s3, s4, s5}
MCConns == {c1, c2, c3}
MCIps == {ipA, ipB}
MCConnOf == s1 :> c1 @@ s2 :> c1 @@ s3 :> c2 @@ s4 :> c3 @@ s5 :> c3
MCIpOf == s1 :> ipA @@ s2 :> ipA @@ s3 :> ipA @@ s4 :> ipB @@ s5 :> ipB
=============================================================================
