-------------------------- MODULE ConnectExchange --------------------------
(***************************************************************************)
(* One KPS stream from its opening to its end: serve_stream reads one      *)
(* request head, handle_request and validate_target decide, handle_connect *)
(* takes a tunnel slot, dials, answers, and relay copies bytes both ways   *)
(* until both directions closed or something aborted the tunnel.           *)
(*                                                                         *)
(* Slots are taken and given back through the abstract limiter of          *)
(* TunnelSlots, which TunnelTracker implements.  Bytes are numbered units: *)
(* the k-th unit a side sends is k, so order, loss and duplication show.   *)
(*                                                                         *)
(* Direction "up" runs client -> target, "down" target -> client.  `src`   *)
(* is the state of the side that sends in a direction (open, fin: it half- *)
(* closed, gone: it reset or its connection was lost); `sink` is the end   *)
(* of stream the receiving side has seen (open, fin, rst).                 *)
(***************************************************************************)
EXTENDS Integers, FiniteSets, Sequences

CONSTANTS Streams, Ips, IpOf, PerIp,
          HasIpv6,   \* Gateway.has_ipv6
          Asks,      \* bound of the model: the requests a stream may carry
          MaxUnits   \* bound of the model: units each side of a stream sends

(* What the ladder looks at in a request.  `target` is the authority:      *)
(* unparseable, an IPv6 address, a local address, a public one that is not *)
(* in the allowlist, or an IPv4 relay of the consensus.                    *)
Requests == [big : BOOLEAN, te : BOOLEAN, host : BOOLEAN,
             method : {"CONNECT", "GET", "BREW"},
             target : {"bad", "v6relay", "v6local", "local", "other", "relay"}]

ASSUME ExchangeAssumption ==
  /\ IsFiniteSet(Streams) /\ IpOf \in [Streams -> Ips] /\ PerIp \in Nat \ {0}
  /\ Asks \in [Streams -> SUBSET Requests]
  /\ HasIpv6 \in BOOLEAN /\ MaxUnits \in [Streams -> Nat]

Dirs == {"up", "down"}
Opposite(d) == IF d = "up" THEN "down" ELSE "up"

VARIABLES stage,    \* open, dialing, upgrading, leftover, relaying, ended
          slots,    \* the streams holding a TunnelGuard
          reply,    \* the status answered, "none" before
          dialed,   \* the class of target that was dialed, "none" before
          sent,     \* units the source of each direction has sent
          src,      \* open, fin or gone, per direction
          taken,    \* units the relay (or hyper, before it) has read
          buf,      \* units read and not written yet
          got,      \* units the receiving side has, in order
          sink,     \* the end of stream the receiving side has seen
          cause     \* how the exchange ended: "none", "refused", "upgrade",
                    \* "done", "abort"

dataVars == <<sent, src, taken, buf, got, sink>>
vars == <<stage, slots, reply, dialed, dataVars, cause>>

Limiter == INSTANCE TunnelSlots

\* Stages in which the exchange owns its TunnelGuard.
Tunnelling == {"dialing", "upgrading", "leftover", "relaying"}

PerDir(v) == [s \in Streams |-> [d \in Dirs |-> v]]

Init ==
  /\ stage = [s \in Streams |-> "open"]
  /\ slots = {}
  /\ reply = [s \in Streams |-> "none"]
  /\ dialed = [s \in Streams |-> "none"]
  /\ cause = [s \in Streams |-> "none"]
  /\ sent = PerDir(0) /\ src = PerDir("open")
  /\ taken = PerDir(0) /\ buf = PerDir(<<>>)
  /\ got = PerDir(<<>>) /\ sink = PerDir("open")

-----------------------------------------------------------------------------
(* The two peers.                                                          *)

\* A client may send tunnel bytes as soon as its request is out; the target
\* once it is connected.
Live(s, d) ==
  /\ src[s][d] = "open"
  /\ stage[s] \in IF d = "up" THEN Tunnelling ELSE Tunnelling \ {"dialing"}

PeerSends(s, d) ==
  /\ Live(s, d) /\ sent[s][d] < MaxUnits[s]
  /\ sent' = [sent EXCEPT ![s][d] = @ + 1]
  /\ UNCHANGED <<stage, slots, reply, dialed, src, taken, buf, got, sink, cause>>

PeerFins(s, d) ==
  /\ Live(s, d)
  /\ src' = [src EXCEPT ![s][d] = "fin"]
  /\ UNCHANGED <<stage, slots, reply, dialed, sent, taken, buf, got, sink, cause>>

\* A reset or a lost connection: it can come after the peer's own FIN.
PeerLost(s, d) ==
  /\ src[s][d] # "gone"
  /\ stage[s] \in IF d = "up" THEN Tunnelling ELSE Tunnelling \ {"dialing"}
  /\ src' = [src EXCEPT ![s][d] = "gone"]
  /\ UNCHANGED <<stage, slots, reply, dialed, sent, taken, buf, got, sink, cause>>

-----------------------------------------------------------------------------
(* Admission: no await between the request head and the verdict.           *)

\* validate_target: the first rung that applies decides.  The switch of the
\* tests for local targets is off.
Refusal(target) ==
  CASE target = "bad" -> "400"
    [] target \in {"v6relay", "v6local"} /\ ~HasIpv6 -> "400"
    [] target \in {"local", "v6local"} -> "403"
    [] target = "other" -> "403"
    [] OTHER -> "none"

\* handle_request, up to the CONNECT handler or the router.
ProfileRefusal(req) ==
  CASE req.big -> "431"
    [] ~req.big /\ req.te -> "400"
    [] ~req.big /\ ~req.te /\ req.method # "CONNECT" /\ ~req.host -> "400"
    [] ~req.big /\ ~req.te /\ req.method = "BREW" /\ req.host -> "501"
    [] OTHER -> "none"

End(s, why) ==
  /\ stage' = [stage EXCEPT ![s] = "ended"]
  /\ cause' = [cause EXCEPT ![s] = why]

Answer(s, status) == reply' = [reply EXCEPT ![s] = status]

Refuse(s, status) ==
  /\ End(s, "refused") /\ Answer(s, status)
  /\ UNCHANGED <<slots, dialed, dataVars>>

RefuseProfile(s, req) ==
  /\ stage[s] = "open" /\ ProfileRefusal(req) # "none"
  /\ Refuse(s, ProfileRefusal(req))

RefuseTarget(s, req) ==
  /\ stage[s] = "open" /\ ProfileRefusal(req) = "none" /\ req.method = "CONNECT"
  /\ Refusal(req.target) # "none"
  /\ Refuse(s, Refusal(req.target))

\* Not a CONNECT: the router answers and the exchange is over.
Route(s, req) ==
  /\ stage[s] = "open" /\ ProfileRefusal(req) = "none" /\ req.method # "CONNECT"
  /\ Refuse(s, "routed")

Admissible(s, req) ==
  /\ stage[s] = "open" /\ ProfileRefusal(req) = "none" /\ req.method = "CONNECT"
  /\ Refusal(req.target) = "none"

\* acquire() said no.  That the client IP has PerIp tunnels is not the only
\* reason: the caps of its connection and of the whole gateway are used up by
\* tunnels that are not among Streams.
RefuseBusy(s, req) == Admissible(s, req) /\ Refuse(s, "429")

Admit(s, req) ==
  /\ Admissible(s, req) /\ Limiter!Grant(s)
  /\ stage' = [stage EXCEPT ![s] = "dialing"]
  /\ dialed' = [dialed EXCEPT ![s] = req.target]
  /\ UNCHANGED <<reply, dataVars, cause>>

\* 30 s without a complete request head: the stream is dropped.
HeadTimeout(s) ==
  /\ stage[s] = "open"
  /\ End(s, "refused")
  /\ UNCHANGED <<slots, reply, dialed, dataVars>>

-----------------------------------------------------------------------------
(* Dial and upgrade.  hyper (half_close) does not watch the client while   *)
(* the handler runs: a client that went away is noticed when the answer    *)
(* cannot be written, and the upgrade then fails.                          *)

\* 502 on an error, 504 after DIAL_TIMEOUT; the guard is dropped on return.
DialFails(s) ==
  /\ stage[s] = "dialing"
  /\ \E status \in {"502", "504"} : Answer(s, status)
  /\ End(s, "refused") /\ Limiter!Release(s)
  /\ UNCHANGED <<dialed, dataVars>>

Dialed(s) ==
  /\ stage[s] = "dialing"
  /\ stage' = [stage EXCEPT ![s] = "upgrading"]
  /\ Answer(s, "200")
  /\ UNCHANGED <<slots, dialed, dataVars, cause>>

\* What a side sees when its half of the tunnel ends, unless it already saw
\* an end of stream or is gone itself.
Seen(s, d, end) ==
  IF sink[s][d] = "open" /\ src[s][Opposite(d)] # "gone" THEN end ELSE sink[s][d]

\* Mutated form of UpgradeFails: the guard is not moved into the task.
UpgradeFailsKeepsSlot(s) ==
  /\ stage[s] = "upgrading" /\ src[s]["up"] = "gone"
  /\ End(s, "upgrade")
  /\ UNCHANGED <<slots, reply, dialed, dataVars>>

\* The TCP socket is dropped without SO_LINGER: the target sees a FIN.
UpgradeFails(s) ==
  /\ stage[s] = "upgrading" /\ src[s]["up"] = "gone"
  /\ End(s, "upgrade") /\ Limiter!Release(s)
  /\ sink' = [sink EXCEPT ![s]["up"] = Seen(s, "up", "fin")]
  /\ UNCHANGED <<reply, dialed, sent, src, taken, buf, got>>

\* hyper hands the stream over with the tunnel bytes it already read.  It is
\* the stream serve_stream gave it, so the downcast succeeds.
Upgraded(s) ==
  /\ stage[s] = "upgrading"
  /\ \E k \in 0..sent[s]["up"] :
       /\ taken' = [taken EXCEPT ![s]["up"] = k]
       /\ buf' = [buf EXCEPT ![s]["up"] = [i \in 1..k |-> i]]
  /\ stage' = [stage EXCEPT ![s] = "leftover"]
  /\ UNCHANGED <<slots, reply, dialed, sent, src, got, sink, cause>>

-----------------------------------------------------------------------------
(* relay *)

\* Both sides are torn down abortively: stream reset, TCP RST.
Abort(s) ==
  /\ End(s, "abort") /\ Limiter!Release(s)
  /\ sink' = [sink EXCEPT ![s] = [d \in Dirs |->
                IF src[s][Opposite(d)] # "gone" THEN "rst" ELSE sink[s][d]]]
  /\ UNCHANGED <<reply, dialed, sent, src, taken, buf, got>>

\* write_all of the bytes in hand, if the receiving side takes them.
Deliver(s, d) ==
  /\ buf[s][d] = <<>> \/ src[s][Opposite(d)] # "gone"
  /\ got' = [got EXCEPT ![s][d] = @ \o buf[s][d]]
  /\ buf' = [buf EXCEPT ![s][d] = <<>>]

\* Mutated form of LeftoverWritten: the handed-over bytes are dropped.
LeftoverDropped(s) ==
  /\ stage[s] = "leftover"
  /\ buf' = [buf EXCEPT ![s]["up"] = <<>>]
  /\ stage' = [stage EXCEPT ![s] = "relaying"]
  /\ UNCHANGED <<slots, reply, dialed, sent, src, taken, got, sink, cause>>

\* The bytes hyper read go to the target before the two directions start.
LeftoverWritten(s) ==
  /\ stage[s] = "leftover"
  /\ Deliver(s, "up")
  /\ stage' = [stage EXCEPT ![s] = "relaying"]
  /\ UNCHANGED <<slots, reply, dialed, sent, src, taken, sink, cause>>

LeftoverFails(s) ==
  /\ stage[s] = "leftover" /\ buf[s]["up"] # <<>> /\ src[s]["down"] = "gone"
  /\ Abort(s)

\* A direction is over once it passed the end of stream on.
DirDone(s, d) == sink[s][d] = "fin"
Reading(s, d) == stage[s] = "relaying" /\ ~DirDone(s, d) /\ buf[s][d] = <<>>
Available(s, d) == sent[s][d] - taken[s][d]

Read(s, d) ==
  /\ Reading(s, d) /\ src[s][d] # "gone"
  /\ \E k \in 1..Available(s, d) :
       /\ taken' = [taken EXCEPT ![s][d] = @ + k]
       /\ buf' = [buf EXCEPT ![s][d] = [i \in 1..k |-> taken[s][d] + i]]
  /\ UNCHANGED <<stage, slots, reply, dialed, sent, src, got, sink, cause>>

Write(s, d) ==
  /\ stage[s] = "relaying" /\ buf[s][d] # <<>>
  /\ Deliver(s, d)
  /\ UNCHANGED <<stage, slots, reply, dialed, sent, src, taken, sink, cause>>

\* Mutated form of PassFin: the end of stream overtakes the bytes before it.
PassFinEarly(s, d) ==
  /\ Reading(s, d) /\ src[s][d] = "fin"
  /\ sink' = [sink EXCEPT ![s][d] = "fin"]
  /\ UNCHANGED <<stage, slots, reply, dialed, sent, src, taken, buf, got, cause>>

\* End of stream on one side: shut down the other side's write half.  An
\* error of the shutdown is ignored, the direction is over all the same.
PassFin(s, d) ==
  /\ Reading(s, d) /\ src[s][d] = "fin" /\ Available(s, d) = 0
  /\ sink' = [sink EXCEPT ![s][d] = "fin"]
  /\ UNCHANGED <<stage, slots, reply, dialed, sent, src, taken, buf, got, cause>>

ReadFails(s, d) ==
  /\ Reading(s, d) /\ src[s][d] = "gone"
  /\ Abort(s)

WriteFails(s, d) ==
  /\ stage[s] = "relaying" /\ buf[s][d] # <<>> /\ src[s][Opposite(d)] = "gone"
  /\ Abort(s)

\* idle_timeout: a read of one direction waited that long for nothing.
IdleTimeout(s, d) ==
  /\ Reading(s, d) /\ src[s][d] = "open" /\ Available(s, d) = 0
  /\ Abort(s)

\* Mutated form of LifetimeOver: only an idle tunnel is ever aborted.
LifetimeOverIdle(s) ==
  /\ stage[s] = "relaying" /\ \A d \in Dirs : DirDone(s, d) /\ Reading(s, d)
  /\ Abort(s)

\* max_lifetime, counted from the moment the leftover bytes are written.
LifetimeOver(s) ==
  /\ stage[s] = "relaying" /\ ~\A d \in Dirs : DirDone(s, d)
  /\ Abort(s)

\* try_join saw both directions through: close the stream, drop the guard.
Finish(s) ==
  /\ stage[s] = "relaying" /\ \A d \in Dirs : DirDone(s, d)
  /\ End(s, "done") /\ Limiter!Release(s)
  /\ UNCHANGED <<reply, dialed, dataVars>>

-----------------------------------------------------------------------------
Peer(s) ==
  \E d \in Dirs : PeerSends(s, d) \/ PeerFins(s, d) \/ PeerLost(s, d)

Verdict(s) ==
  \/ \E req \in Asks[s] : RefuseProfile(s, req) \/ RefuseTarget(s, req)
                            \/ Route(s, req) \/ RefuseBusy(s, req) \/ Admit(s, req)
  \/ HeadTimeout(s)

Setup(s) ==
  \/ DialFails(s) \/ Dialed(s) \/ UpgradeFails(s) \/ Upgraded(s)
  \/ LeftoverWritten(s) \/ LeftoverFails(s)

Relay(s) ==
  \E d \in Dirs : Read(s, d) \/ Write(s, d) \/ PassFin(s, d)
                  \/ ReadFails(s, d) \/ WriteFails(s, d) \/ IdleTimeout(s, d)

Next ==
  \E s \in Streams : Peer(s) \/ Verdict(s) \/ Setup(s) \/ Relay(s)
                     \/ LifetimeOver(s) \/ Finish(s)

Spec == Init /\ [][Next]_vars

(* Only timers and the gateway's own steps are fair: the header timeout,   *)
(* DIAL_TIMEOUT around the dial, hyper's answer to the client, the write   *)
(* of the leftover bytes (at most HEADER_CAP, below a socket's send        *)
(* buffer) and the lifetime timer.  Nothing is assumed of the peers, nor   *)
(* that a read or a write between them ever completes.                     *)
Fairness ==
  \A s \in Streams :
    /\ WF_vars(HeadTimeout(s)) /\ WF_vars(Setup(s))
    /\ WF_vars(LifetimeOver(s)) /\ WF_vars(Finish(s))

FairSpec == Spec /\ Fairness

-----------------------------------------------------------------------------
BuffersOK ==
  buf \in [Streams -> [Dirs -> Seq(Nat)]] /\ got \in [Streams -> [Dirs -> Seq(Nat)]]

(* Types: every variable keeps its type.                                   *)
TypeOK ==
  /\ BuffersOK
  /\ stage \in [Streams -> {"open", "ended"} \cup Tunnelling]
  /\ slots \subseteq Streams
  /\ reply \in [Streams -> {"none", "routed", "200", "400", "403", "429",
                            "431", "501", "502", "504"}]
  /\ dialed \in [Streams -> {"none", "relay", "v6relay"}]
  /\ cause \in [Streams -> {"none", "refused", "upgrade", "done", "abort"}]
  /\ src \in [Streams -> [Dirs -> {"open", "fin", "gone"}]]
  /\ sink \in [Streams -> [Dirs -> {"open", "fin", "rst"}]]
  /\ sent \in [Streams -> [Dirs -> Nat]] /\ taken \in [Streams -> [Dirs -> Nat]]
  /\ \A s \in Streams, d \in Dirs :
       /\ sent[s][d] \in 0..MaxUnits[s]
       /\ taken[s][d] \in 0..sent[s][d]

\* The numbers from one to n, in order.
Upto(n) == [i \in 1..n |-> i]

(* Relaying neither loses, repeats nor reorders a byte: what the receiving *)
(* side has, followed by what the relay holds, is what was read from the   *)
(* sending side, from its first byte, across the hand-over from hyper      *)
(* (read_buf first) and until an abort.                                    *)
BytesInOrder ==
  \A s \in Streams, d \in Dirs : got[s][d] \o buf[s][d] = Upto(taken[s][d])

(* A truncated transfer never looks like a complete one: a FIN is passed   *)
(* on only after every byte before it, and when the tunnel ends short of   *)
(* what a side sent, the other side, if still there, sees a reset.  The    *)
(* failed upgrade is the exception (its TCP socket is merely dropped).     *)
NoSilentTruncation ==
  \A s \in Streams, d \in Dirs :
    cause[s] \notin {"upgrade", "refused"} =>
      /\ sink[s][d] = "fin" => /\ src[s][d] # "open"
                               /\ Len(got[s][d]) = sent[s][d]
      /\ /\ stage[s] = "ended" /\ Len(got[s][d]) < sent[s][d]
         /\ src[s][Opposite(d)] # "gone"
         => sink[s][d] = "rst"

(* Together: the tunnel is a faithful byte pipe in both directions, from   *)
(* the hand-over to whichever end comes first (tunnel.rs:281-407).         *)
RelayFaithful == BytesInOrder /\ NoSilentTruncation

(* A stream holds a tunnel slot exactly while it dials, upgrades or        *)
(* relays: no error path of handle_connect or of the relay task keeps the  *)
(* guard, and none gives it back while the sockets are still open.         *)
SlotsMatchTunnels ==
  \A s \in Streams : s \in slots <=> stage[s] \in Tunnelling

(* Every admitted CONNECT comes to an end and its slot is free again,      *)
(* whatever the two peers do or fail to do: dial timeout, failed upgrade,  *)
(* FIN both ways, error, or in the end max_lifetime.                       *)
EveryTunnelEnds ==
  \A s \in Streams : s \in slots ~> s \notin slots
=============================================================================
