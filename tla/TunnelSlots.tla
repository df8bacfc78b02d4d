---------------------------- MODULE TunnelSlots ----------------------------
(***************************************************************************)
(* What the gateway's tunnel limiter promises a client IP, without saying  *)
(* how the counters are kept: a stream is granted a slot only while its    *)
(* client IP holds fewer than PerIp of them, and a granted slot is given   *)
(* back once.  TunnelTracker implements this (see Slots there).            *)
(***************************************************************************)
EXTENDS Integers, FiniteSets

CONSTANTS Streams,   \* KPS streams, each one CONNECT exchange at a time
          Ips,       \* client IP addresses
          IpOf,      \* the client IP a stream comes from
          PerIp      \* TunnelLimits.per_ip

VARIABLE slots       \* the streams that hold a slot

SlotsOf(ip) == {s \in slots : IpOf[s] = ip}

Init == slots = {}

Grant(s) ==
  /\ s \notin slots
  /\ Cardinality(SlotsOf(IpOf[s])) < PerIp
  /\ slots' = slots \cup {s}

Release(s) ==
  /\ s \in slots
  /\ slots' = slots \ {s}

Next == \E s \in Streams : Grant(s) \/ Release(s)

Spec == Init /\ [][Next]_slots
=============================================================================
