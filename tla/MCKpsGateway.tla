---------------------------- MODULE MCKpsGateway ----------------------------
(* A GET and a CONNECT over at most two dials.                             *)
EXTENDS KpsGateway, TLC

CONSTANTS f1, t1

TwoCalls == {f1, t1}
KindOfTwo == (f1 :> "fetch") @@ (t1 :> "connect")
=============================================================================
