------------------------ MODULE TunnelTrackerProofs ------------------------
(***************************************************************************)
(* For any number of streams, clients, connections and threads: the        *)
(* counters are exact, the per-IP cap is strict, and the two caps checked  *)
(* without a lock are exceeded by at most Workers - 1.                     *)
(***************************************************************************)
EXTENDS TunnelTracker, FiniteSetTheorems, TLAPS

\* Whoever passed a lock-free check was below the cap then, and at most
\* Workers streams are past the check and uncounted: that is what the caps
\* together with the increments still to come can add up to.
RacersBounded ==
  /\ Cardinality(Working) <= Workers
  /\ total + Cardinality(Racing) <= MaxTunnels + Workers - 1
  /\ \A c \in Conns :
       conn_count[c] + Cardinality(RacingOn(c)) <= PerConn + Workers - 1

EntriesCapped == \A ip \in Ips : EntryOf(ip) <= PerIp

IInv == TypeOK /\ CountersExact /\ RacersBounded /\ EntriesCapped /\ NoEmptyEntries

-----------------------------------------------------------------------------

\* What a move between two phases adds to the size of a class of phases.
Delta(from, to, P) ==
  (IF to \in P THEN 1 ELSE 0) - (IF from \in P THEN 1 ELSE 0)

\* Streams being finite, so is every class.
LEMMA ClassSize ==
  ASSUME NEW T \in SUBSET Streams, NEW P
  PROVE  /\ IsFiniteSet(At(T, P)) /\ IsFiniteSet(At(T, P)')
         /\ Cardinality(At(T, P)) \in Nat /\ Cardinality(At(T, P)') \in Nat
<1>1. At(T, P) \in SUBSET Streams /\ At(T, P)' \in SUBSET Streams
  BY DEF At
<1>2. IsFiniteSet(At(T, P)) /\ IsFiniteSet(At(T, P)')
  BY <1>1, FS_Subset, StreamsAssumption
<1>3. QED
  BY <1>2, FS_CardinalityType

\* One stream that moves changes the number of the streams of T that are in a
\* class by Delta if it belongs to T, and not at all otherwise.
LEMMA Move ==
  ASSUME TypeOK, NEW s \in Streams, NEW from, NEW to \in Phases,
         Goto(s, from, to), NEW T \in SUBSET Streams, NEW P
  PROVE  Cardinality(At(T, P)') = Cardinality(At(T, P))
           + (IF s \in T THEN Delta(from, to, P) ELSE 0)
<1>1. IsFiniteSet(At(T, P)) /\ IsFiniteSet(At(T, P)')
  BY ClassSize
<1>2. Cardinality(At(T, P)) \in Nat /\ Cardinality(At(T, P)') \in Nat
  BY ClassSize
<1>3. \A x \in Streams : pc'[x] = IF x = s THEN to ELSE pc[x]
  BY DEF TypeOK, Goto
<1>4. pc[s] = from
  BY DEF Goto
<1>5. CASE s \in T /\ from \notin P /\ to \in P
  <2>1. At(T, P)' = At(T, P) \cup {s} /\ s \notin At(T, P)
    BY <1>3, <1>4, <1>5 DEF At
  <2>2. QED
    BY <1>1, <1>2, <1>5, <2>1, FS_AddElement DEF Delta
<1>6. CASE s \in T /\ from \in P /\ to \notin P
  <2>1. At(T, P)' = At(T, P) \ {s} /\ s \in At(T, P)
    BY <1>3, <1>4, <1>6 DEF At
  <2>2. QED
    BY <1>1, <1>2, <1>6, <2>1, FS_RemoveElement DEF Delta
<1>7. CASE s \notin T \/ (from \in P <=> to \in P)
  <2>1. At(T, P)' = At(T, P)
    BY <1>3, <1>4, <1>7 DEF At
  <2>2. QED
    BY <1>2, <1>7, <2>1 DEF Delta
<1>8. QED
  BY <1>2, <1>5, <1>6, <1>7

\* The same for the classes the counters and the bounds are about.
LEMMA MoveClasses ==
  ASSUME TypeOK, NEW s \in Streams, NEW from, NEW to \in Phases,
         Goto(s, from, to)
  PROVE  /\ Cardinality(InTotal) \in Nat /\ Cardinality(InTotal)' \in Nat
         /\ Cardinality(InTotal)' =
              Cardinality(InTotal) + Delta(from, to, {"total_counted", "held"})
         /\ \A ip \in Ips :
              /\ Cardinality(InIp(ip)) \in Nat /\ Cardinality(InIp(ip))' \in Nat
              /\ Cardinality(InIp(ip))' = Cardinality(InIp(ip)) +
                   (IF ip = IpOf[s]
                    THEN Delta(from, to, {"ip_counted", "total_counted",
                                          "held", "total_released"})
                    ELSE 0)
         /\ \A c \in Conns :
              /\ Cardinality(InConn(c)) \in Nat /\ Cardinality(InConn(c))' \in Nat
              /\ Cardinality(InConn(c))' = Cardinality(InConn(c)) +
                   (IF c = ConnOf[s]
                    THEN Delta(from, to, {"held", "total_released", "ip_released"})
                    ELSE 0)
         /\ Cardinality(Working) \in Nat /\ Cardinality(Working)' \in Nat
         /\ Cardinality(Working)' = Cardinality(Working)
              + Delta(from, to, Phases \ {"idle", "held", "refused"})
         /\ Cardinality(Racing) \in Nat /\ Cardinality(Racing)' \in Nat
         /\ Cardinality(Racing)' = Cardinality(Racing)
              + Delta(from, to, {"total_ok", "conn_ok", "ip_counted"})
         /\ \A c \in Conns :
              /\ Cardinality(RacingOn(c)) \in Nat /\ Cardinality(RacingOn(c))' \in Nat
              /\ Cardinality(RacingOn(c))' = Cardinality(RacingOn(c)) +
                   (IF c = ConnOf[s]
                    THEN Delta(from, to, {"conn_ok", "ip_counted", "total_counted"})
                    ELSE 0)
<1>1. \A ip \in Ips : FromIp(ip) \in SUBSET Streams /\ (s \in FromIp(ip) <=> ip = IpOf[s])
  BY DEF FromIp
<1>2. \A c \in Conns : OnConn(c) \in SUBSET Streams /\ (s \in OnConn(c) <=> c = ConnOf[s])
  BY DEF OnConn
<1>3. Streams \in SUBSET Streams
  OBVIOUS
<1>4. ASSUME NEW T \in SUBSET Streams, NEW P
      PROVE  Cardinality(At(T, P)') = Cardinality(At(T, P))
               + (IF s \in T THEN Delta(from, to, P) ELSE 0)
  BY Move
<1>5. /\ Cardinality(InTotal) \in Nat /\ Cardinality(InTotal)' \in Nat
      /\ Cardinality(InTotal)' =
           Cardinality(InTotal) + Delta(from, to, {"total_counted", "held"})
  BY <1>3, <1>4, ClassSize DEF InTotal
<1>6. \A ip \in Ips :
        /\ Cardinality(InIp(ip)) \in Nat /\ Cardinality(InIp(ip))' \in Nat
        /\ Cardinality(InIp(ip))' = Cardinality(InIp(ip)) +
             (IF ip = IpOf[s]
              THEN Delta(from, to, {"ip_counted", "total_counted",
                                    "held", "total_released"})
              ELSE 0)
  BY <1>1, <1>4, ClassSize DEF InIp
<1>7. \A c \in Conns :
        /\ Cardinality(InConn(c)) \in Nat /\ Cardinality(InConn(c))' \in Nat
        /\ Cardinality(InConn(c))' = Cardinality(InConn(c)) +
             (IF c = ConnOf[s]
              THEN Delta(from, to, {"held", "total_released", "ip_released"})
              ELSE 0)
  BY <1>2, <1>4, ClassSize DEF InConn
<1>8. QED
  BY <1>2, <1>3, <1>4, <1>5, <1>6, <1>7, ClassSize DEF Working, Racing, RacingOn

LEMMA Start == Init => IInv
<1> SUFFICES ASSUME Init PROVE IInv
  OBVIOUS
<1>1. \A T, P : "idle" \notin P /\ T \subseteq Streams => Cardinality(At(T, P)) = 0
  BY FS_EmptySet DEF Init, At
<1>2. /\ Cardinality(InTotal) = 0 /\ Cardinality(Working) = 0
      /\ Cardinality(Racing) = 0
  BY <1>1 DEF InTotal, Working, Racing
<1>3. \A ip \in Ips : Cardinality(InIp(ip)) = 0
  BY <1>1 DEF InIp, FromIp
<1>4. \A c \in Conns : Cardinality(InConn(c)) = 0 /\ Cardinality(RacingOn(c)) = 0
  BY <1>1 DEF InConn, RacingOn, OnConn
<1>5. TypeOK /\ NoEmptyEntries /\ \A ip \in Ips : EntryOf(ip) = 0
  BY DEF Init, TypeOK, NoEmptyEntries, EntryOf, Phases
<1>6. CountersExact /\ RacersBounded /\ EntriesCapped
  BY <1>2, <1>3, <1>4, <1>5, LimitsAssumption
     DEF Init, CountersExact, RacersBounded, EntriesCapped
<1>7. QED
  BY <1>5, <1>6 DEF IInv

\* Whoever races on a check occupies a thread.
LEMMA RacersWork ==
  /\ Cardinality(Racing)' <= Cardinality(Working)'
  /\ \A c \in Conns : Cardinality(RacingOn(c))' <= Cardinality(Working)'
<1>1. IsFiniteSet(Working')
  BY ClassSize DEF Working
<1>2. Racing' \in SUBSET Working' /\ \A c \in Conns : RacingOn(c)' \in SUBSET Working'
  BY DEF Racing, RacingOn, Working, OnConn, At, Phases
<1>3. QED
  BY <1>1, <1>2, FS_Subset

-----------------------------------------------------------------------------
(* One lemma per action.  Each first says how the classes change, then      *)
(* that every part of the invariant survives.                              *)

LEMMA LoadTotalOK == ASSUME IInv, NEW s \in Streams, LoadTotal(s) PROVE IInv'
<1>1. UNCHANGED <<total, per_ip, conn_count>> /\ ThreadFree
  BY DEF LoadTotal
<1>2. PICK to \in {"total_ok", "refused"} :
        Goto(s, "idle", to) /\ (to = "total_ok" => total < MaxTunnels)
  BY DEF LoadTotal
<1>3. to \in Phases /\ TypeOK
  BY DEF Phases, IInv
<1>4. /\ Cardinality(InTotal)' = Cardinality(InTotal)
      /\ \A ip \in Ips : Cardinality(InIp(ip))' = Cardinality(InIp(ip))
      /\ \A c \in Conns : Cardinality(InConn(c))' = Cardinality(InConn(c))
      /\ \A c \in Conns : Cardinality(RacingOn(c))' = Cardinality(RacingOn(c))
  BY <1>2, <1>3, MoveClasses DEF Delta
<1>5. TypeOK'
  BY <1>1, <1>2, <1>3 DEF TypeOK, Goto
<1>6. CountersExact' /\ EntriesCapped' /\ NoEmptyEntries'
  BY <1>1, <1>4 DEF IInv, CountersExact, EntriesCapped, NoEmptyEntries, EntryOf
<1>7. RacersBounded'
  <2>1. /\ Cardinality(Working) \in Nat /\ Cardinality(Working)' \in Nat
        /\ Cardinality(Racing) \in Nat /\ Cardinality(Racing)' \in Nat
    BY <1>2, <1>3, MoveClasses
  <2>2. Cardinality(Working)' <= Cardinality(Working) + 1
    BY <1>2, <1>3, <2>1, MoveClasses DEF Delta, Phases
  <2>3. Cardinality(Working)' <= Workers
    BY <1>1, <2>1, <2>2, LimitsAssumption DEF ThreadFree
  <2>4. total' + Cardinality(Racing)' <= MaxTunnels + Workers - 1
    <3>1. CASE to = "total_ok"
      BY <1>1, <1>2, <1>3, <2>1, <2>3, <3>1, RacersWork, LimitsAssumption
         DEF TypeOK
    <3>2. CASE to = "refused"
      <4>1. Cardinality(Racing)' = Cardinality(Racing)
        BY <1>2, <1>3, <3>2, <2>1, MoveClasses DEF Delta
      <4>2. QED
        BY <1>1, <4>1 DEF IInv, RacersBounded
    <3>3. QED
      BY <3>1, <3>2
  <2>5. QED
    BY <1>1, <1>4, <2>3, <2>4 DEF IInv, RacersBounded
<1>8. QED
  BY <1>5, <1>6, <1>7 DEF IInv

LEMMA LoadConnOK == ASSUME IInv, NEW s \in Streams, LoadConn(s) PROVE IInv'
<1> DEFINE c == ConnOf[s]
<1>1. UNCHANGED <<total, per_ip, conn_count>>
  BY DEF LoadConn
<1>2. PICK to \in {"conn_ok", "refused"} :
        Goto(s, "total_ok", to) /\ (to = "conn_ok" => conn_count[c] < PerConn)
  BY DEF LoadConn
<1>3. to \in Phases /\ TypeOK /\ c \in Conns
  BY StreamsAssumption DEF Phases, IInv
<1>4. /\ Cardinality(InTotal)' = Cardinality(InTotal)
      /\ \A ip \in Ips : Cardinality(InIp(ip))' = Cardinality(InIp(ip))
      /\ \A d \in Conns : Cardinality(InConn(d))' = Cardinality(InConn(d))
  BY <1>2, <1>3, MoveClasses DEF Delta
<1>5. TypeOK'
  BY <1>1, <1>2, <1>3 DEF TypeOK, Goto
<1>6. CountersExact' /\ EntriesCapped' /\ NoEmptyEntries'
  BY <1>1, <1>4 DEF IInv, CountersExact, EntriesCapped, NoEmptyEntries, EntryOf
<1>7. RacersBounded'
  <2>1. /\ Cardinality(Working) \in Nat /\ Cardinality(Working)' \in Nat
        /\ Cardinality(Racing) \in Nat /\ Cardinality(Racing)' \in Nat
    BY <1>2, <1>3, MoveClasses
  <2>2. Cardinality(Working)' <= Cardinality(Working)
    BY <1>2, <1>3, <2>1, MoveClasses DEF Delta, Phases
  <2>3. Cardinality(Racing)' <= Cardinality(Racing)
    BY <1>2, <1>3, <2>1, MoveClasses DEF Delta
  <2>4. Cardinality(Working)' <= Workers
    BY <2>1, <2>2, LimitsAssumption DEF IInv, RacersBounded
  <2>5. total' + Cardinality(Racing)' <= MaxTunnels + Workers - 1
    BY <1>1, <1>3, <2>1, <2>3, LimitsAssumption DEF IInv, RacersBounded, TypeOK
  <2>6. ASSUME NEW d \in Conns
        PROVE  conn_count'[d] + Cardinality(RacingOn(d))' <= PerConn + Workers - 1
    <3>1. /\ Cardinality(RacingOn(d)) \in Nat /\ Cardinality(RacingOn(d))' \in Nat
          /\ Cardinality(RacingOn(d))' <= Cardinality(Working)'
      BY <1>2, <1>3, MoveClasses, RacersWork
    <3>2. CASE d = c /\ to = "conn_ok"
      BY <1>1, <1>2, <1>3, <2>1, <2>4, <3>1, <3>2, LimitsAssumption DEF TypeOK
    <3>3. CASE d # c \/ to = "refused"
      <4>1. Cardinality(RacingOn(d))' = Cardinality(RacingOn(d))
        BY <1>2, <1>3, <3>1, <3>3, MoveClasses DEF Delta
      <4>2. QED
        BY <1>1, <4>1 DEF IInv, RacersBounded
    <3>4. QED
      BY <1>2, <3>2, <3>3
  <2>7. QED
    BY <2>4, <2>5, <2>6 DEF RacersBounded
<1>8. QED
  BY <1>5, <1>6, <1>7 DEF IInv

\* A step inside acquire or drop that only moves a count from "racing" to
\* "counted", or gives one back, keeps the bounds.
LEMMA BoundsKept ==
  ASSUME IInv,
         Cardinality(Working)' \in Nat,
         Cardinality(Racing)' \in Nat, total' \in Nat,
         \A c \in Conns : conn_count'[c] \in Nat /\ Cardinality(RacingOn(c))' \in Nat,
         Cardinality(Working)' <= Workers,
         total' + Cardinality(Racing)' <= total + Cardinality(Racing),
         \A c \in Conns : conn_count'[c] + Cardinality(RacingOn(c))'
                            <= conn_count[c] + Cardinality(RacingOn(c))
  PROVE  RacersBounded'
<1>1. /\ total + Cardinality(Racing) \in Int
      /\ \A c \in Conns : conn_count[c] + Cardinality(RacingOn(c)) \in Int
  BY ClassSize DEF IInv, TypeOK, Racing, RacingOn, OnConn
<1>2. QED
  BY <1>1, LimitsAssumption DEF IInv, RacersBounded

LEMMA CheckAndCountIpOK ==
  ASSUME IInv, NEW s \in Streams, CheckAndCountIp(s) PROVE IInv'
<1> DEFINE ip == IpOf[s]
<1>1. UNCHANGED <<total, conn_count>>
  BY DEF CheckAndCountIp
<1>2. PICK to \in {"ip_counted", "refused"} :
        /\ Goto(s, "conn_ok", to)
        /\ to = "ip_counted" =>
             EntryOf(ip) < PerIp /\ per_ip' = WithEntry(ip, EntryOf(ip) + 1)
        /\ to = "refused" =>
             EntryOf(ip) >= PerIp /\ per_ip' = WithEntry(ip, EntryOf(ip))
  BY DEF CheckAndCountIp
<1>3. to \in Phases /\ TypeOK /\ ip \in Ips /\ EntryOf(ip) \in Nat
  BY StreamsAssumption DEF Phases, IInv, TypeOK, EntryOf
<1>4. /\ Cardinality(InTotal)' = Cardinality(InTotal)
      /\ \A i \in Ips : Cardinality(InIp(i))' = Cardinality(InIp(i)) +
                          (IF i = ip /\ to = "ip_counted" THEN 1 ELSE 0)
      /\ \A c \in Conns : Cardinality(InConn(c))' = Cardinality(InConn(c))
  BY <1>2, <1>3, MoveClasses DEF Delta
<1>5. /\ DOMAIN per_ip' = DOMAIN per_ip \cup {ip}
      /\ per_ip'[ip] = EntryOf(ip) + (IF to = "ip_counted" THEN 1 ELSE 0)
      /\ \A i \in DOMAIN per_ip : i # ip => per_ip'[i] = per_ip[i]
  BY <1>2, <1>3 DEF WithEntry
<1>6. TypeOK'
  BY <1>1, <1>2, <1>3, <1>5 DEF TypeOK, Goto
<1>7. \A i \in Ips : EntryOf(i)' = EntryOf(i) +
                       (IF i = ip /\ to = "ip_counted" THEN 1 ELSE 0)
  BY <1>3, <1>5 DEF EntryOf, TypeOK
<1>8. CountersExact'
  BY <1>1, <1>4, <1>7 DEF IInv, CountersExact
<1>9. EntriesCapped'
  BY <1>2, <1>3, <1>7, LimitsAssumption DEF IInv, EntriesCapped, EntryOf, TypeOK
<1>10. NoEmptyEntries'
  BY <1>2, <1>3, <1>5, LimitsAssumption DEF IInv, NoEmptyEntries
<1>11. RacersBounded'
  <2>1. /\ Cardinality(Working) \in Nat /\ Cardinality(Working)' \in Nat
        /\ Cardinality(Racing) \in Nat /\ Cardinality(Racing)' \in Nat
        /\ \A c \in Conns : /\ Cardinality(RacingOn(c)) \in Nat
                            /\ Cardinality(RacingOn(c))' \in Nat
    BY <1>2, <1>3, MoveClasses
  <2>2. /\ Cardinality(Working)' <= Cardinality(Working)
        /\ Cardinality(Racing)' <= Cardinality(Racing)
    BY <1>2, <1>3, <2>1, MoveClasses DEF Delta, Phases
  <2>3. \A c \in Conns : Cardinality(RacingOn(c))' <= Cardinality(RacingOn(c))
    BY <1>2, <1>3, <2>1, MoveClasses DEF Delta
  <2>4. Cardinality(Working)' <= Workers
    BY <2>1, <2>2, LimitsAssumption DEF IInv, RacersBounded
  <2>5. /\ total' + Cardinality(Racing)' <= total + Cardinality(Racing)
        /\ \A c \in Conns : conn_count'[c] + Cardinality(RacingOn(c))'
                              <= conn_count[c] + Cardinality(RacingOn(c))
    BY <1>1, <1>3, <2>1, <2>2, <2>3 DEF TypeOK
  <2>6. total' \in Nat /\ \A c \in Conns : conn_count'[c] \in Nat
    BY <1>6 DEF TypeOK
  <2>7. QED
    BY <2>1, <2>4, <2>5, <2>6, BoundsKept
<1>12. QED
  BY <1>6, <1>8, <1>9, <1>10, <1>11 DEF IInv

\* The two increments: a racer becomes counted.
LEMMA CountTotalOK == ASSUME IInv, NEW s \in Streams, CountTotal(s) PROVE IInv'
<1>1. /\ Goto(s, "ip_counted", "total_counted")
      /\ total' = total + 1 /\ UNCHANGED <<per_ip, conn_count>>
  BY DEF CountTotal
<1>2. "total_counted" \in Phases /\ TypeOK
  BY DEF Phases, IInv
<1>3. /\ Cardinality(InTotal)' = Cardinality(InTotal) + 1
      /\ \A ip \in Ips : Cardinality(InIp(ip))' = Cardinality(InIp(ip))
      /\ \A c \in Conns : Cardinality(InConn(c))' = Cardinality(InConn(c))
  BY <1>1, <1>2, MoveClasses DEF Delta
<1>4. TypeOK'
  BY <1>1, <1>2 DEF TypeOK, Goto
<1>5. CountersExact' /\ EntriesCapped' /\ NoEmptyEntries'
  BY <1>1, <1>3 DEF IInv, CountersExact, EntriesCapped, NoEmptyEntries, EntryOf
<1>6. RacersBounded'
  <2>1. /\ Cardinality(Working)' = Cardinality(Working)
        /\ Cardinality(Racing)' = Cardinality(Racing) - 1
        /\ \A c \in Conns : Cardinality(RacingOn(c))' = Cardinality(RacingOn(c))
    BY <1>1, <1>2, MoveClasses DEF Delta, Phases
  <2>2. /\ Cardinality(Racing) \in Nat /\ Cardinality(Working) \in Nat
        /\ Cardinality(Racing)' \in Nat
        /\ \A c \in Conns : Cardinality(RacingOn(c)) \in Nat
    BY <1>1, <1>2, MoveClasses
  <2>3. QED
    BY <1>1, <1>2, <2>1, <2>2, LimitsAssumption DEF IInv, RacersBounded, TypeOK
<1>7. QED
  BY <1>4, <1>5, <1>6 DEF IInv

LEMMA CountConnOK == ASSUME IInv, NEW s \in Streams, CountConn(s) PROVE IInv'
<1> DEFINE c == ConnOf[s]
<1>1. /\ Goto(s, "total_counted", "held")
      /\ conn_count' = [conn_count EXCEPT ![c] = @ + 1]
      /\ UNCHANGED <<total, per_ip>>
  BY DEF CountConn
<1>2. "held" \in Phases /\ TypeOK /\ c \in Conns
  BY StreamsAssumption DEF Phases, IInv
<1>3. /\ Cardinality(InTotal)' = Cardinality(InTotal)
      /\ \A ip \in Ips : Cardinality(InIp(ip))' = Cardinality(InIp(ip))
      /\ \A d \in Conns : Cardinality(InConn(d))' =
                            Cardinality(InConn(d)) + (IF d = c THEN 1 ELSE 0)
  BY <1>1, <1>2, MoveClasses DEF Delta
<1>4. \A d \in Conns : conn_count'[d] = conn_count[d] + (IF d = c THEN 1 ELSE 0)
  BY <1>1, <1>2 DEF TypeOK
<1>5. TypeOK'
  BY <1>1, <1>2 DEF TypeOK, Goto
<1>6. CountersExact' /\ EntriesCapped' /\ NoEmptyEntries'
  BY <1>1, <1>3, <1>4 DEF IInv, CountersExact, EntriesCapped, NoEmptyEntries, EntryOf
<1>7. RacersBounded'
  <2>1. /\ Cardinality(Working)' = Cardinality(Working) - 1
        /\ Cardinality(Racing)' = Cardinality(Racing)
        /\ \A d \in Conns : Cardinality(RacingOn(d))' =
                              Cardinality(RacingOn(d)) - (IF d = c THEN 1 ELSE 0)
    BY <1>1, <1>2, MoveClasses DEF Delta, Phases
  <2>2. /\ Cardinality(Racing) \in Nat /\ Cardinality(Working) \in Nat
        /\ \A d \in Conns : Cardinality(RacingOn(d)) \in Nat
    BY <1>1, <1>2, MoveClasses
  <2>3. \A d \in Conns : conn_count'[d] + Cardinality(RacingOn(d))'
                           = conn_count[d] + Cardinality(RacingOn(d))
    BY <1>2, <1>4, <2>1, <2>2 DEF TypeOK
  <2>4. QED
    BY <1>1, <2>1, <2>2, <2>3, LimitsAssumption DEF IInv, RacersBounded
<1>8. QED
  BY <1>5, <1>6, <1>7 DEF IInv

\* The three decrements give back what this stream was counted for, so the
\* counter is positive before them.
LEMMA ReleaseTotalOK == ASSUME IInv, NEW s \in Streams, ReleaseTotal(s) PROVE IInv'
<1>1. /\ Goto(s, "held", "total_released") /\ ThreadFree
      /\ total' = total - 1 /\ UNCHANGED <<per_ip, conn_count>>
  BY DEF ReleaseTotal
<1>2. "total_released" \in Phases /\ TypeOK
  BY DEF Phases, IInv
<1>3. /\ Cardinality(InTotal)' = Cardinality(InTotal) - 1
      /\ Cardinality(InTotal)' \in Nat
      /\ \A ip \in Ips : Cardinality(InIp(ip))' = Cardinality(InIp(ip))
      /\ \A c \in Conns : Cardinality(InConn(c))' = Cardinality(InConn(c))
  BY <1>1, <1>2, MoveClasses DEF Delta
<1>4. total' = Cardinality(InTotal)'
  BY <1>1, <1>3 DEF IInv, CountersExact
<1>5. TypeOK'
  BY <1>1, <1>2, <1>3, <1>4 DEF TypeOK, Goto
<1>6. CountersExact' /\ EntriesCapped' /\ NoEmptyEntries'
  BY <1>1, <1>3, <1>4 DEF IInv, CountersExact, EntriesCapped, NoEmptyEntries, EntryOf
<1>7. RacersBounded'
  <2>1. /\ Cardinality(Working)' = Cardinality(Working) + 1
        /\ Cardinality(Racing)' = Cardinality(Racing)
        /\ \A c \in Conns : Cardinality(RacingOn(c))' = Cardinality(RacingOn(c))
    BY <1>1, <1>2, MoveClasses DEF Delta, Phases
  <2>2. Cardinality(Racing) \in Nat /\ Cardinality(Working) \in Nat
    BY <1>1, <1>2, MoveClasses
  <2>3. Cardinality(Working)' <= Workers
    BY <1>1, <2>1, <2>2, LimitsAssumption DEF ThreadFree
  <2>4. total' + Cardinality(Racing)' <= MaxTunnels + Workers - 1
    BY <1>1, <1>2, <2>1, <2>2, LimitsAssumption DEF IInv, RacersBounded, TypeOK
  <2>5. QED
    BY <1>1, <2>1, <2>3, <2>4 DEF IInv, RacersBounded
<1>8. QED
  BY <1>5, <1>6, <1>7 DEF IInv

LEMMA ReleaseIpOK == ASSUME IInv, NEW s \in Streams, ReleaseIp(s) PROVE IInv'
<1> DEFINE ip == IpOf[s]
<1>1. /\ Goto(s, "total_released", "ip_released")
      /\ per_ip' = Decremented(ip) /\ UNCHANGED <<total, conn_count>>
  BY DEF ReleaseIp
<1>2. "ip_released" \in Phases /\ TypeOK /\ ip \in Ips
  BY StreamsAssumption DEF Phases, IInv
<1>3. /\ Cardinality(InTotal)' = Cardinality(InTotal)
      /\ \A i \in Ips : Cardinality(InIp(i))' =
                          Cardinality(InIp(i)) - (IF i = ip THEN 1 ELSE 0)
      /\ \A c \in Conns : Cardinality(InConn(c))' = Cardinality(InConn(c))
      /\ Cardinality(InIp(ip)) \in Nat /\ Cardinality(InIp(ip))' \in Nat
  BY <1>1, <1>2, MoveClasses DEF Delta
<1>4. ip \in DOMAIN per_ip /\ per_ip[ip] \in Nat \ {0}
  BY <1>2, <1>3 DEF IInv, CountersExact, EntryOf, TypeOK
<1>5. /\ \A i \in Ips : EntryOf(i)' = EntryOf(i) - (IF i = ip THEN 1 ELSE 0)
      /\ TypeOK' /\ NoEmptyEntries'
  <2>1. CASE per_ip[ip] = 1
    <3>1. per_ip' = WithoutEntry(ip)
      BY <1>1, <1>4, <2>1 DEF Decremented
    <3>2. QED
      BY <1>1, <1>2, <1>4, <2>1, <3>1
         DEF TypeOK, Goto, WithoutEntry, EntryOf, IInv, NoEmptyEntries
  <2>2. CASE per_ip[ip] # 1
    <3>1. per_ip' = WithEntry(ip, per_ip[ip] - 1)
      BY <1>1, <1>4, <2>2 DEF Decremented
    <3>2. QED
      BY <1>1, <1>2, <1>4, <2>2, <3>1
         DEF TypeOK, Goto, WithEntry, EntryOf, IInv, NoEmptyEntries
  <2>3. QED
    BY <2>1, <2>2
<1>6. CountersExact'
  BY <1>1, <1>3, <1>5 DEF IInv, CountersExact
<1>7. EntriesCapped'
  BY <1>5, LimitsAssumption DEF IInv, EntriesCapped, EntryOf, TypeOK
<1>8. RacersBounded'
  <2>1. /\ Cardinality(Working)' = Cardinality(Working)
        /\ Cardinality(Racing)' = Cardinality(Racing)
        /\ \A c \in Conns : Cardinality(RacingOn(c))' = Cardinality(RacingOn(c))
    BY <1>1, <1>2, MoveClasses DEF Delta, Phases
  <2>2. QED
    BY <1>1, <2>1 DEF IInv, RacersBounded
<1>9. QED
  BY <1>5, <1>6, <1>7, <1>8 DEF IInv

LEMMA ReleaseConnOK == ASSUME IInv, NEW s \in Streams, ReleaseConn(s) PROVE IInv'
<1> DEFINE c == ConnOf[s]
<1>1. /\ Goto(s, "ip_released", "idle")
      /\ conn_count' = [conn_count EXCEPT ![c] = @ - 1]
      /\ UNCHANGED <<total, per_ip>>
  BY DEF ReleaseConn
<1>2. "idle" \in Phases /\ TypeOK /\ c \in Conns
  BY StreamsAssumption DEF Phases, IInv
<1>3. /\ Cardinality(InTotal)' = Cardinality(InTotal)
      /\ \A ip \in Ips : Cardinality(InIp(ip))' = Cardinality(InIp(ip))
      /\ \A d \in Conns : /\ Cardinality(InConn(d))' \in Nat
                          /\ Cardinality(InConn(d))' =
                               Cardinality(InConn(d)) - (IF d = c THEN 1 ELSE 0)
  BY <1>1, <1>2, MoveClasses DEF Delta
<1>4. \A d \in Conns : conn_count'[d] = conn_count[d] - (IF d = c THEN 1 ELSE 0)
  BY <1>1, <1>2 DEF TypeOK
<1>5. \A d \in Conns : conn_count'[d] = Cardinality(InConn(d))'
  BY <1>3, <1>4 DEF IInv, CountersExact
<1>6. TypeOK'
  BY <1>1, <1>2, <1>3, <1>5 DEF TypeOK, Goto
<1>7. CountersExact' /\ EntriesCapped' /\ NoEmptyEntries'
  BY <1>1, <1>3, <1>5 DEF IInv, CountersExact, EntriesCapped, NoEmptyEntries, EntryOf
<1>8. RacersBounded'
  <2>1. /\ Cardinality(Working)' = Cardinality(Working) - 1
        /\ Cardinality(Racing)' = Cardinality(Racing)
        /\ \A d \in Conns : Cardinality(RacingOn(d))' = Cardinality(RacingOn(d))
    BY <1>1, <1>2, MoveClasses DEF Delta, Phases
  <2>2. /\ Cardinality(Working) \in Nat
        /\ \A d \in Conns : Cardinality(RacingOn(d)) \in Nat
    BY <1>1, <1>2, MoveClasses
  <2>3. Cardinality(Working)' <= Workers
    BY <2>1, <2>2, LimitsAssumption DEF IInv, RacersBounded
  <2>4. \A d \in Conns :
          conn_count'[d] + Cardinality(RacingOn(d))' <= PerConn + Workers - 1
    BY <1>2, <1>4, <2>1, <2>2, LimitsAssumption DEF IInv, RacersBounded, TypeOK
  <2>5. QED
    BY <1>1, <2>1, <2>3, <2>4 DEF IInv, RacersBounded
<1>9. QED
  BY <1>6, <1>7, <1>8 DEF IInv

LEMMA AnsweredOK == ASSUME IInv, NEW s \in Streams, Answered(s) PROVE IInv'
<1>1. Goto(s, "refused", "idle") /\ UNCHANGED <<total, per_ip, conn_count>>
  BY DEF Answered
<1>2. "idle" \in Phases /\ TypeOK
  BY DEF Phases, IInv
<1>3. /\ Cardinality(InTotal)' = Cardinality(InTotal)
      /\ \A ip \in Ips : Cardinality(InIp(ip))' = Cardinality(InIp(ip))
      /\ \A c \in Conns : Cardinality(InConn(c))' = Cardinality(InConn(c))
  BY <1>1, <1>2, MoveClasses DEF Delta
<1>4. /\ Cardinality(Working)' = Cardinality(Working)
      /\ Cardinality(Racing)' = Cardinality(Racing)
      /\ \A c \in Conns : Cardinality(RacingOn(c))' = Cardinality(RacingOn(c))
  BY <1>1, <1>2, MoveClasses DEF Delta, Phases
<1>5. TypeOK'
  BY <1>1, <1>2 DEF TypeOK, Goto
<1>6. QED
  BY <1>1, <1>3, <1>4, <1>5
     DEF IInv, CountersExact, RacersBounded, EntriesCapped, NoEmptyEntries, EntryOf

LEMMA StutterOK == ASSUME IInv, UNCHANGED vars PROVE IInv'
BY DEF vars, IInv, TypeOK, CountersExact, RacersBounded, EntriesCapped,
       NoEmptyEntries, EntryOf, InTotal, InIp, InConn, Working, Racing,
       RacingOn, At, FromIp, OnConn

-----------------------------------------------------------------------------

\* The counters are what they are meant to be, the caps hold or are exceeded
\* by at most the racers: in every reachable state, for every configuration.
THEOREM Inductive == Spec => []IInv
<1>1. Init => IInv
  BY Start
<1>2. IInv /\ [Next]_vars => IInv'
  <2> SUFFICES ASSUME IInv, [Next]_vars PROVE IInv'
    OBVIOUS
  <2>1. ASSUME NEW s \in Streams, LoadTotal(s) \/ ReleaseTotal(s) \/ Step(s)
        PROVE IInv'
    BY <2>1, LoadTotalOK, LoadConnOK, CheckAndCountIpOK, CountTotalOK,
       CountConnOK, ReleaseTotalOK, ReleaseIpOK, ReleaseConnOK, AnsweredOK
       DEF Step
  <2>2. CASE UNCHANGED vars
    BY <2>2, StutterOK
  <2>3. QED
    BY <2>1, <2>2 DEF Next
<1>3. QED
  BY <1>1, <1>2, PTL DEF Spec

\* The counters of ConnectionTracker and of each ConnCtx always equal the
\* number of streams they count, and no value leaves its type.
THEOREM TypeCorrect == Spec => []TypeOK
<1>1. IInv => TypeOK
  BY DEF IInv
<1>2. QED
  BY <1>1, Inductive, PTL

THEOREM Exact == Spec => []CountersExact
<1>1. IInv => CountersExact
  BY DEF IInv
<1>2. QED
  BY <1>1, Inductive, PTL

\* acquire() and the drop of a guard never leave an entry at zero behind.
THEOREM MapStaysSmall == Spec => []NoEmptyEntries
<1>1. IInv => NoEmptyEntries
  BY DEF IInv
<1>2. QED
  BY <1>1, Inductive, PTL

\* No client IP ever has more than per_ip tunnels, however many threads run.
THEOREM PerIpCap == Spec => []PerIpCapStrict
<1>1. IInv => PerIpCapStrict
  BY DEF IInv, CountersExact, EntriesCapped, PerIpCapStrict
<1>2. QED
  BY <1>1, Inductive, PTL

\* max_tunnels can be exceeded, by fewer tunnels than there are threads.
THEOREM GlobalOvershoot == Spec => []GlobalOvershootBounded
<1>1. IInv => GlobalOvershootBounded
  <2> SUFFICES ASSUME IInv PROVE GlobalOvershootBounded
    OBVIOUS
  <2>1. Cardinality(Racing) \in Nat
    BY ClassSize DEF Racing
  <2>2. QED
    BY <2>1, LimitsAssumption
       DEF IInv, TypeOK, CountersExact, RacersBounded, GlobalOvershootBounded
<1>2. QED
  BY <1>1, Inductive, PTL

\* So can per_conn, on every connection.
THEOREM ConnOvershoot == Spec => []ConnOvershootBounded
<1>1. IInv => ConnOvershootBounded
  <2> SUFFICES ASSUME IInv, NEW c \in Conns
               PROVE Cardinality(InConn(c)) <= PerConn + Workers - 1
    BY DEF ConnOvershootBounded
  <2>1. Cardinality(RacingOn(c)) \in Nat
    BY ClassSize DEF RacingOn, OnConn
  <2>2. QED
    BY <2>1, LimitsAssumption DEF IInv, TypeOK, CountersExact, RacersBounded
<1>2. QED
  BY <1>1, Inductive, PTL

\* A 429 is never spurious: the counter a check reads counts streams that
\* really hold, or are still giving back, the slots of the limit.
THEOREM RefusalsJustified == Spec => NoSpuriousRefusal
<1> DEFINE Justified(s) == \/ Cardinality(InTotal) >= MaxTunnels
                           \/ Cardinality(InConn(ConnOf[s])) >= PerConn
                           \/ Cardinality(InIp(IpOf[s])) >= PerIp
<1>1. ASSUME IInv, [Next]_vars, NEW s \in Streams,
             pc[s] # "refused", pc'[s] = "refused"
      PROVE  Justified(s)
  <2>1. ConnOf[s] \in Conns /\ IpOf[s] \in Ips /\ TypeOK /\ CountersExact
    BY <1>1, StreamsAssumption DEF IInv
  <2>2. ASSUME NEW t \in Streams, NEW from, NEW to, Goto(t, from, to)
        PROVE  t = s /\ to = "refused"
    BY <1>1, <2>1, <2>2 DEF Goto, TypeOK
  <2>3. CASE LoadTotal(s)
    BY <2>1, <2>2, <2>3 DEF LoadTotal, CountersExact
  <2>4. CASE LoadConn(s)
    BY <2>1, <2>2, <2>4 DEF LoadConn, CountersExact
  <2>5. CASE CheckAndCountIp(s)
    BY <2>1, <2>2, <2>5 DEF CheckAndCountIp, CountersExact
  <2>6. pc' # pc
    BY <1>1
  <2>7. PICK t \in Streams : LoadTotal(t) \/ ReleaseTotal(t) \/ Step(t)
    BY <1>1, <2>6 DEF Next, vars
  <2>8. t = s
    BY <2>2, <2>7
       DEF LoadTotal, ReleaseTotal, Step, LoadConn, CheckAndCountIp, CountTotal,
           CountConn, ReleaseIp, ReleaseConn, Answered
  <2>9. ~ (ReleaseTotal(t) \/ CountTotal(t) \/ CountConn(t) \/ ReleaseIp(t)
            \/ ReleaseConn(t) \/ Answered(t))
    BY <2>2 DEF ReleaseTotal, CountTotal, CountConn, ReleaseIp, ReleaseConn, Answered
  <2>10. QED
    BY <2>3, <2>4, <2>5, <2>7, <2>8, <2>9 DEF Step
<1>2. IInv /\ [Next]_vars =>
        [\A s \in Streams : pc[s] # "refused" /\ pc'[s] = "refused" => Justified(s)]_vars
  BY <1>1
<1>3. QED
  BY <1>2, Inductive, PTL DEF Spec, NoSpuriousRefusal

-----------------------------------------------------------------------------
(* The limiter implements the abstract one: its slots are the streams       *)
(* between the per-IP increment and the per-IP decrement.                  *)

Holding == {"ip_counted", "total_counted", "held", "total_released"}

LEMMA SlotsOfIsInIp ==
  ASSUME NEW ip PROVE Slots!SlotsOf(ip) = InIp(ip)
BY DEF Slots!SlotsOf, InIp, FromIp, At

\* Steps that neither enter nor leave the holding phases are stutters.
LEMMA SlotsStutter ==
  ASSUME TypeOK, NEW s \in Streams, NEW from, NEW to, Goto(s, from, to),
         from \in Holding <=> to \in Holding
  PROVE  At(Streams, Holding)' = At(Streams, Holding)
BY DEF TypeOK, Goto, At

\* Spec => Slots!Spec: initial states map to initial states, each step to a
\* Grant, a Release or a stutter.
THEOREM Refinement == Spec => ImplementsSlots
<1>1. Init => Slots!Init
  BY DEF Init, Slots!Init, At
<1>2. ASSUME IInv, [Next]_vars
      PROVE  [Slots!Next]_(At(Streams, {"ip_counted", "total_counted",
                                        "held", "total_released"}))
  <2> DEFINE S == At(Streams, {"ip_counted", "total_counted", "held", "total_released"})
  <2>1. TypeOK
    BY <1>2 DEF IInv
  <2>2. ASSUME NEW s \in Streams, CheckAndCountIp(s)
        PROVE  Slots!Grant(s) \/ S' = S
    <3>1. CASE Goto(s, "conn_ok", "refused")
      BY <2>1, <3>1, SlotsStutter DEF Holding
    <3>2. CASE Goto(s, "conn_ok", "ip_counted") /\ EntryOf(IpOf[s]) < PerIp
      <4>1. s \notin S /\ S' = S \cup {s}
        BY <2>1, <3>2 DEF TypeOK, Goto, At
      <4>2. Cardinality(Slots!SlotsOf(IpOf[s])) < PerIp
        BY <1>2, <3>2, SlotsOfIsInIp, StreamsAssumption DEF IInv, CountersExact
      <4>3. Slots!Cardinality(Slots!SlotsOf(IpOf[s])) = Cardinality(Slots!SlotsOf(IpOf[s]))
        BY Zenon DEF Slots!Cardinality, Cardinality, Slots!IsFiniteSet, IsFiniteSet
      <4>4. QED
        BY <4>1, <4>2, <4>3 DEF Slots!Grant
    <3>3. QED
      BY <2>2, <3>1, <3>2 DEF CheckAndCountIp
  <2>3. ASSUME NEW s \in Streams, ReleaseIp(s)
        PROVE  Slots!Release(s)
    BY <2>1, <2>3 DEF ReleaseIp, Slots!Release, TypeOK, Goto, At
  <2>4. ASSUME NEW s \in Streams,
               LoadTotal(s) \/ LoadConn(s) \/ CountTotal(s) \/ CountConn(s)
                 \/ ReleaseTotal(s) \/ ReleaseConn(s) \/ Answered(s)
        PROVE  S' = S
    BY <2>1, <2>4, SlotsStutter
       DEF Holding, LoadTotal, LoadConn, CountTotal, CountConn, ReleaseTotal,
           ReleaseConn, Answered
  <2>5. CASE UNCHANGED vars
    BY <2>5 DEF vars, At
  <2>6. QED
    BY <1>2, <2>2, <2>3, <2>4, <2>5 DEF Next, Step, Slots!Next
<1>3. QED
  BY <1>1, <1>2, Inductive, PTL DEF Spec, ImplementsSlots, Slots!Spec
=============================================================================
