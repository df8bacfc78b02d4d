--------------------------- MODULE TunnelTracker ---------------------------
(***************************************************************************)
(* The gateway's ConnectionTracker: who may hold a tunnel.                 *)
(*                                                                         *)
(* Every KPS stream is served by a task of a multi-threaded runtime, so    *)
(* acquire() and the guard's drop run concurrently on up to Workers        *)
(* threads.  Neither contains an await: a thread that starts one finishes  *)
(* it, and each atomic load, atomic add and critical section of the per-IP *)
(* mutex is one step here.  Between two of them any other thread may run.  *)
(*                                                                         *)
(* pc[s] says how far stream s is:                                         *)
(*   idle            no CONNECT being admitted                             *)
(*   total_ok        loaded `total`, below max_tunnels                     *)
(*   conn_ok         loaded the connection's counter, below per_conn       *)
(*   ip_counted      counted in the per-IP map (under the mutex)           *)
(*   total_counted   counted in `total`                                    *)
(*   held            owns a TunnelGuard (counted everywhere)               *)
(*   total_released  the guard is being dropped, gone from `total`         *)
(*   ip_released     gone from the per-IP map                              *)
(*   refused         acquire returned None: answered 429                   *)
(***************************************************************************)
EXTENDS Integers, FiniteSets

CONSTANTS Streams,      \* KPS streams, each one CONNECT exchange at a time
          Conns,        \* KPS connections
          Ips,          \* client IP addresses
          ConnOf,       \* the connection a stream was opened on
          IpOf,         \* the (canonical) client IP of a stream
          MaxTunnels,   \* TunnelLimits.max_tunnels
          PerIp,        \* TunnelLimits.per_ip
          PerConn,      \* TunnelLimits.per_conn
          Workers       \* runtime threads that can be inside acquire or drop

ASSUME StreamsAssumption ==
  /\ IsFiniteSet(Streams)
  /\ ConnOf \in [Streams -> Conns]
  /\ IpOf \in [Streams -> Ips]

ASSUME LimitsAssumption ==
  /\ MaxTunnels \in Nat
  /\ PerIp \in Nat \ {0}
  /\ PerConn \in Nat
  /\ Workers \in Nat \ {0}

VARIABLES total,       \* ConnectionTracker.total
          per_ip,      \* ConnectionTracker.per_ip: its domain is the map's keys
          conn_count,  \* ConnCtx.conn_tunnels of each connection
          pc

vars == <<total, per_ip, conn_count, pc>>

-----------------------------------------------------------------------------
(* The streams each counter is meant to count.                             *)

Phases == {"idle", "total_ok", "conn_ok", "ip_counted", "total_counted",
           "held", "total_released", "ip_released", "refused"}

At(T, phases) == {s \in T : pc[s] \in phases}
FromIp(ip) == {s \in Streams : IpOf[s] = ip}
OnConn(c) == {s \in Streams : ConnOf[s] = c}

InTotal == At(Streams, {"total_counted", "held"})

InIp(ip) ==
  At(FromIp(ip), {"ip_counted", "total_counted", "held", "total_released"})

InConn(c) == At(OnConn(c), {"held", "total_released", "ip_released"})

\* Inside acquire or drop, hence occupying a thread.
Working == At(Streams, Phases \ {"idle", "held", "refused"})

\* Past the check of `total` (of c's counter) but not counted there yet.
Racing == At(Streams, {"total_ok", "conn_ok", "ip_counted"})
RacingOn(c) == At(OnConn(c), {"conn_ok", "ip_counted", "total_counted"})

-----------------------------------------------------------------------------

Init ==
  /\ total = 0
  /\ per_ip = [ip \in {} |-> 0]
  /\ conn_count = [c \in Conns |-> 0]
  /\ pc = [s \in Streams |-> "idle"]

Goto(s, from, to) ==
  /\ pc[s] = from
  /\ pc' = [pc EXCEPT ![s] = to]

ThreadFree == Cardinality(Working) < Workers

\* Entries of the per-IP map.
EntryOf(ip) == IF ip \in DOMAIN per_ip THEN per_ip[ip] ELSE 0

WithEntry(ip, n) ==
  [i \in DOMAIN per_ip \cup {ip} |-> IF i = ip THEN n ELSE per_ip[i]]

WithoutEntry(ip) == [i \in DOMAIN per_ip \ {ip} |-> per_ip[i]]

\* release(): a missing entry is skipped, one that reaches zero is removed.
Decremented(ip) ==
  IF ip \notin DOMAIN per_ip THEN per_ip
  ELSE IF per_ip[ip] - 1 = 0 THEN WithoutEntry(ip)
  ELSE WithEntry(ip, per_ip[ip] - 1)

(* acquire *)

\* Mutated form of LoadTotal: the cap is off by one.
LoadTotalOffByOne(s) ==
  /\ ThreadFree
  /\ \/ total <= MaxTunnels /\ Goto(s, "idle", "total_ok")
     \/ total > MaxTunnels /\ Goto(s, "idle", "refused")
  /\ UNCHANGED <<total, per_ip, conn_count>>

LoadTotal(s) ==
  /\ ThreadFree
  /\ \/ total < MaxTunnels /\ Goto(s, "idle", "total_ok")
     \/ total >= MaxTunnels /\ Goto(s, "idle", "refused")
  /\ UNCHANGED <<total, per_ip, conn_count>>

LoadConn(s) ==
  /\ \/ conn_count[ConnOf[s]] < PerConn /\ Goto(s, "total_ok", "conn_ok")
     \/ conn_count[ConnOf[s]] >= PerConn /\ Goto(s, "total_ok", "refused")
  /\ UNCHANGED <<total, per_ip, conn_count>>

\* Mutated form of CheckAndCountIp: the check lets one tunnel too many pass.
CheckAndCountIpOffByOne(s) ==
  LET ip == IpOf[s] IN
  /\ \/ /\ EntryOf(ip) <= PerIp
        /\ Goto(s, "conn_ok", "ip_counted")
        /\ per_ip' = WithEntry(ip, EntryOf(ip) + 1)
     \/ /\ EntryOf(ip) > PerIp
        /\ Goto(s, "conn_ok", "refused")
        /\ per_ip' = WithEntry(ip, EntryOf(ip))
  /\ UNCHANGED <<total, conn_count>>

\* entry(ip).or_insert(0) is made before the check, so it stays on a refusal.
CheckAndCountIp(s) ==
  LET ip == IpOf[s] IN
  /\ \/ /\ EntryOf(ip) < PerIp
        /\ Goto(s, "conn_ok", "ip_counted")
        /\ per_ip' = WithEntry(ip, EntryOf(ip) + 1)
     \/ /\ EntryOf(ip) >= PerIp
        /\ Goto(s, "conn_ok", "refused")
        /\ per_ip' = WithEntry(ip, EntryOf(ip))
  /\ UNCHANGED <<total, conn_count>>

CountTotal(s) ==
  /\ Goto(s, "ip_counted", "total_counted")
  /\ total' = total + 1
  /\ UNCHANGED <<per_ip, conn_count>>

CountConn(s) ==
  /\ Goto(s, "total_counted", "held")
  /\ conn_count' = [conn_count EXCEPT ![ConnOf[s]] = @ + 1]
  /\ UNCHANGED <<total, per_ip>>

(* drop of the guard *)

ReleaseTotal(s) ==
  /\ ThreadFree
  /\ Goto(s, "held", "total_released")
  /\ total' = total - 1
  /\ UNCHANGED <<per_ip, conn_count>>

ReleaseIp(s) ==
  /\ Goto(s, "total_released", "ip_released")
  /\ per_ip' = Decremented(IpOf[s])
  /\ UNCHANGED <<total, conn_count>>

\* Mutated form of ReleaseConn: the guard forgets its connection's counter.
ReleaseConnForgotten(s) ==
  /\ Goto(s, "ip_released", "idle")
  /\ UNCHANGED <<total, per_ip, conn_count>>

ReleaseConn(s) ==
  /\ Goto(s, "ip_released", "idle")
  /\ conn_count' = [conn_count EXCEPT ![ConnOf[s]] = @ - 1]
  /\ UNCHANGED <<total, per_ip>>

\* The stream that was answered 429 is over; its client may open another.
Answered(s) ==
  /\ Goto(s, "refused", "idle")
  /\ UNCHANGED <<total, per_ip, conn_count>>

Step(s) ==
  \/ LoadConn(s) \/ CheckAndCountIp(s) \/ CountTotal(s) \/ CountConn(s)
  \/ ReleaseIp(s) \/ ReleaseConn(s) \/ Answered(s)

Next == \E s \in Streams : LoadTotal(s) \/ ReleaseTotal(s) \/ Step(s)

Spec == Init /\ [][Next]_vars

-----------------------------------------------------------------------------

TypeOK ==
  /\ total \in Nat
  /\ DOMAIN per_ip \subseteq Ips
  /\ \A ip \in DOMAIN per_ip : per_ip[ip] \in Nat
  /\ conn_count \in [Conns -> Nat]
  /\ pc \in [Streams -> Phases]

\* Whatever the interleaving, each counter equals the number of streams it is
\* meant to count: no acquire or drop is lost, counted twice, or charged to
\* another client (TunnelGuard carries the ip and the connection it took).
CountersExact ==
  /\ total = Cardinality(InTotal)
  /\ \A ip \in Ips : EntryOf(ip) = Cardinality(InIp(ip))
  /\ \A c \in Conns : conn_count[c] = Cardinality(InConn(c))

\* The per-IP cap is strict, because check and increment share the mutex.
PerIpCapStrict == \A ip \in Ips : Cardinality(InIp(ip)) <= PerIp

\* The map never keeps an entry of a client without tunnels (the test
\* per_ip_entries_are_removed_at_zero), in any interleaving.
NoEmptyEntries == \A ip \in DOMAIN per_ip : per_ip[ip] # 0

\* The global cap is checked without a lock: admitted tunnels can exceed it,
\* but only by the threads that were between the check and the increment.
GlobalOvershootBounded == Cardinality(InTotal) <= MaxTunnels + Workers - 1

\* The same for the cap per KPS connection.
ConnOvershootBounded ==
  \A c \in Conns : Cardinality(InConn(c)) <= PerConn + Workers - 1

\* A 429 is never spurious: at the check that refuses, other streams really
\* use up the limit (a slot being released counts until it is).
NoSpuriousRefusal ==
  [][\A s \in Streams :
       pc[s] # "refused" /\ pc'[s] = "refused" =>
         \/ Cardinality(InTotal) >= MaxTunnels
         \/ Cardinality(InConn(ConnOf[s])) >= PerConn
         \/ Cardinality(InIp(IpOf[s])) >= PerIp]_vars

\* What acquire()'s comment promises ("None if a limit would be exceeded") and
\* the README's "Global concurrent tunnel cap": the code does not keep it.
GlobalCapStrict == Cardinality(InTotal) <= MaxTunnels

\* The slots of the abstract limiter: from the per-IP increment to the
\* per-IP decrement.
Slots == INSTANCE TunnelSlots
           WITH slots <- At(Streams, {"ip_counted", "total_counted",
                                      "held", "total_released"})

ImplementsSlots == Slots!Spec
=============================================================================
