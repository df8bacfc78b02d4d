------------------------ MODULE ConnectExchangeProofs ------------------------
(***************************************************************************)
(* For any number of streams, any requests and any amount of data: types,  *)
(* a tunnel slot is held exactly while a stream tunnels, the tunnel is a   *)
(* faithful byte pipe, and the exchange uses the limiter as TunnelSlots    *)
(* says.                                                                   *)
(***************************************************************************)
EXTENDS ConnectExchange, SequenceTheorems, FiniteSetTheorems, TLAPS

\* BytesInOrder, for one stream.
InOrder(s) == \A d \in Dirs : got[s][d] \o buf[s][d] = Upto(taken[s][d])

\* Nothing is read before the hand-over, and hyper hands over bytes of the
\* client only.
Unread(s) ==
  \A d \in Dirs :
    \/ stage[s] \in {"open", "dialing", "upgrading"}
    \/ stage[s] = "leftover" /\ d = "down"
    => taken[s][d] = 0 /\ got[s][d] = <<>> /\ buf[s][d] = <<>>

\* An end of stream is passed on by the two directions of the relay only.
Unclosed(s) ==
  stage[s] \in {"open", "dialing", "upgrading", "leftover"} =>
    \A d \in Dirs : sink[s][d] = "open"

\* Only what has ended has a cause.
Ongoing(s) == stage[s] # "ended" => cause[s] = "none"

\* A direction that passed a FIN on read, and wrote, all there ever will be.
Passed(s) ==
  \A d \in Dirs :
    sink[s][d] = "fin" /\ cause[s] # "upgrade" =>
      src[s][d] # "open" /\ taken[s][d] = sent[s][d] /\ buf[s][d] = <<>>

\* An end that came too early was not a clean one.
Reported(s) ==
  \A d \in Dirs :
    /\ stage[s] = "ended" /\ cause[s] \notin {"upgrade", "refused"}
    /\ Len(got[s][d]) < sent[s][d] /\ src[s][Opposite(d)] # "gone"
    => sink[s][d] = "rst"

Fine(s) ==
  InOrder(s) /\ Unread(s) /\ Unclosed(s) /\ Ongoing(s) /\ Passed(s) /\ Reported(s)

IInv == TypeOK /\ SlotsMatchTunnels /\ \A s \in Streams : Fine(s)

-----------------------------------------------------------------------------

LEMMA UptoExtends ==
  ASSUME NEW n \in Nat, NEW k \in Nat
  PROVE  /\ Upto(n) \in Seq(Nat) /\ [i \in 1..k |-> n + i] \in Seq(Nat)
         /\ Len(Upto(n)) = n
         /\ Upto(n) \o [i \in 1..k |-> n + i] = Upto(n + k)
<1> DEFINE tail == [i \in 1..k |-> n + i]
           both == Upto(n) \o tail
<1>1. Upto(n) \in Seq(Nat) /\ Len(Upto(n)) = n
  BY DEF Upto
<1>2. tail \in Seq(Nat) /\ Len(tail) = k
  OBVIOUS
<1>3. Upto(n + k) \in Seq(Nat) /\ Len(Upto(n + k)) = n + k
  BY DEF Upto
<1>4. \A i \in 1..(n + k) : both[i] = Upto(n + k)[i]
  BY <1>1, <1>2, <1>3 DEF Upto
<1>5. both \in Seq(Nat) /\ Len(both) = n + k
  BY <1>1, <1>2, ConcatProperties
<1> HIDE DEF both
<1>6. both = Upto(n + k)
  BY <1>3, <1>4, <1>5, SeqEqual
<1>7. QED
  BY <1>1, <1>2, <1>6 DEF both

\* What a step may use of the types.
LEMMA Types ==
  ASSUME IInv, NEW s \in Streams
  PROVE  /\ MaxUnits[s] \in Nat
         /\ \A d \in Dirs :
              /\ Opposite(d) \in Dirs
              /\ sent[s][d] \in Nat /\ sent[s][d] <= MaxUnits[s]
              /\ taken[s][d] \in Nat /\ taken[s][d] <= sent[s][d]
              /\ buf[s][d] \in Seq(Nat) /\ got[s][d] \in Seq(Nat)
<1>1. MaxUnits[s] \in Nat
  BY ExchangeAssumption
<1>2. QED
  BY <1>1 DEF IInv, TypeOK, BuffersOK, Dirs, Opposite

\* Nothing of any stream but s changes.
OnlyOf(s) ==
  \A x \in Streams \ {s} :
    /\ stage'[x] = stage[x] /\ cause'[x] = cause[x]
    /\ sent'[x] = sent[x] /\ src'[x] = src[x] /\ taken'[x] = taken[x]
    /\ buf'[x] = buf[x] /\ got'[x] = got[x] /\ sink'[x] = sink[x]

LEMMA Local ==
  ASSUME IInv, NEW s \in Streams, OnlyOf(s), Fine(s)', TypeOK', SlotsMatchTunnels'
  PROVE  IInv'
<1>1. ASSUME NEW x \in Streams \ {s} PROVE Fine(x)'
  <2>1. Fine(x)
    BY DEF IInv
  <2>2. InOrder(x)' /\ Unread(x)'
    BY <2>1 DEF Fine, InOrder, Unread, OnlyOf
  <2>3. Unclosed(x)' /\ Ongoing(x)' /\ Passed(x)'
    BY <2>1 DEF Fine, Unclosed, Ongoing, Passed, OnlyOf
  <2>4. Reported(x)'
    BY <2>1 DEF Fine, Reported, OnlyOf
  <2>5. QED
    BY <2>2, <2>3, <2>4 DEF Fine
<1>2. QED
  BY <1>1 DEF IInv

-----------------------------------------------------------------------------
\* The peers.

LEMMA PeerOK ==
  ASSUME IInv, NEW s \in Streams, NEW d \in Dirs,
         PeerSends(s, d) \/ PeerFins(s, d) \/ PeerLost(s, d)
  PROVE  IInv'
<1>1. UNCHANGED <<stage, slots, reply, dialed, taken, buf, got, sink, cause>>
  BY DEF PeerSends, PeerFins, PeerLost
<1>2. \/ /\ src[s][d] = "open" /\ sent[s][d] < MaxUnits[s]
         /\ sent' = [sent EXCEPT ![s][d] = @ + 1] /\ src' = src
      \/ /\ \E end \in {"fin", "gone"} : src' = [src EXCEPT ![s][d] = end]
         /\ sent' = sent
  BY DEF PeerSends, PeerFins, PeerLost, Live
<1>3. sent[s][d] \in Nat /\ MaxUnits[s] \in Nat
  BY Types
<1>4. TypeOK'
  <2>1. \A x \in Streams, e \in Dirs :
          sent'[x][e] \in 0..MaxUnits[x] /\ taken'[x][e] \in 0..sent'[x][e]
    <3>1. CASE sent' = sent
      BY <1>1, <3>1 DEF IInv, TypeOK
    <3>2. CASE sent' = [sent EXCEPT ![s][d] = @ + 1] /\ sent[s][d] < MaxUnits[s]
      <4>1. \A x \in Streams, e \in Dirs :
              /\ sent[x][e] \in Nat /\ taken[x][e] \in Nat /\ MaxUnits[x] \in Nat
              /\ sent[x][e] <= MaxUnits[x] /\ taken[x][e] <= sent[x][e]
        BY Types
      <4>2. \A x \in Streams, e \in Dirs :
              \/ sent'[x][e] = sent[x][e]
              \/ x = s /\ e = d /\ sent'[x][e] = sent[s][d] + 1
        BY <3>2 DEF IInv, TypeOK
      <4>3. QED
        BY <1>1, <3>2, <4>1, <4>2
    <3>3. QED
      BY <1>2, <3>1, <3>2
  <2>2. src' \in [Streams -> [Dirs -> {"open", "fin", "gone"}]]
    <3>1. CASE src' = src
      BY <3>1 DEF IInv, TypeOK
    <3>2. ASSUME NEW end \in {"fin", "gone"}, src' = [src EXCEPT ![s][d] = end]
          PROVE  src' \in [Streams -> [Dirs -> {"open", "fin", "gone"}]]
      BY <3>2 DEF IInv, TypeOK
    <3>3. QED
      BY <1>2, <3>1, <3>2
  <2>3. sent' \in [Streams -> [Dirs -> Nat]]
    <3>1. CASE sent' = sent
      BY <3>1 DEF IInv, TypeOK
    <3>2. CASE sent' = [sent EXCEPT ![s][d] = @ + 1]
      BY <1>3, <3>2 DEF IInv, TypeOK
    <3>3. QED
      BY <1>2, <3>1, <3>2
  <2>4. QED
    BY <1>1, <2>1, <2>2, <2>3 DEF IInv, TypeOK, BuffersOK
<1>5. SlotsMatchTunnels'
  BY <1>1 DEF IInv, SlotsMatchTunnels
<1>6. OnlyOf(s)
  <2>1. \A x \in Streams \ {s} : sent'[x] = sent[x] /\ src'[x] = src[x]
    BY <1>2 DEF IInv, TypeOK
  <2>2. QED
    BY <1>1, <2>1 DEF OnlyOf
<1>7. stage[s] # "ended"
  BY DEF PeerSends, PeerFins, PeerLost, Live, Tunnelling
<1>8. Fine(s)
  BY DEF IInv
<1>9. InOrder(s)' /\ Unread(s)' /\ Unclosed(s)' /\ Ongoing(s)'
  BY <1>1, <1>8 DEF Fine, InOrder, Unread, Unclosed, Ongoing
<1>10. Passed(s)'
  <2>1. ASSUME NEW e \in Dirs, sink[s][e] = "fin"
        PROVE  src'[s][e] # "open" /\ taken[s][e] = sent'[s][e] /\ buf[s][e] = <<>>
    <3>1. src[s][e] # "open" /\ taken[s][e] = sent[s][e] /\ buf[s][e] = <<>>
      BY <1>7, <1>8, <2>1 DEF Fine, Passed, Ongoing
    <3>2. sent'[s][e] = sent[s][e]
      BY <1>2, <3>1 DEF IInv, TypeOK
    <3>3. src'[s][e] # "open"
      BY <1>2, <3>1 DEF IInv, TypeOK
    <3>4. QED
      BY <3>1, <3>2, <3>3
  <2>2. QED
    BY <1>1, <2>1 DEF Passed
<1>11. Reported(s)'
  BY <1>1, <1>7 DEF Reported
<1>12. QED
  BY <1>4, <1>5, <1>6, <1>9, <1>10, <1>11, Local DEF Fine

-----------------------------------------------------------------------------
\* Admission and set-up.

\* A step before any byte is relayed: the exchange goes on, or is refused.
LEMMA BeforeDataOK ==
  ASSUME IInv, NEW s \in Streams, NEW to \in {"dialing", "upgrading", "ended"},
         stage[s] \in {"open", "dialing"},
         stage' = [stage EXCEPT ![s] = to],
         cause' = [cause EXCEPT ![s] = IF to = "ended" THEN "refused" ELSE @],
         UNCHANGED dataVars,
         TypeOK', SlotsMatchTunnels'
  PROVE  IInv'
<1>1. OnlyOf(s)
  BY DEF IInv, TypeOK, OnlyOf, dataVars
<1>2. stage'[s] = to /\ cause'[s] = IF to = "ended" THEN "refused" ELSE cause[s]
  BY DEF IInv, TypeOK
<1>3. Fine(s)
  BY DEF IInv
<1>4. InOrder(s)' /\ Unread(s)' /\ Unclosed(s)' /\ Ongoing(s)'
  BY <1>2, <1>3 DEF Fine, InOrder, Unread, Unclosed, Ongoing, dataVars
<1>5. Passed(s)' /\ Reported(s)'
  BY <1>2, <1>3 DEF Fine, Passed, Reported, Unclosed, dataVars
<1>6. QED
  BY <1>1, <1>4, <1>5, Local DEF Fine

LEMMA RefuseOK ==
  ASSUME IInv, NEW s \in Streams, stage[s] = "open",
         NEW status \in {"none", "routed", "400", "403", "429", "431", "501"},
         Refuse(s, status)
  PROVE  IInv'
<1>1. TypeOK'
  BY DEF IInv, TypeOK, BuffersOK, Refuse, End, Answer, dataVars
<1>2. SlotsMatchTunnels'
  BY DEF IInv, TypeOK, SlotsMatchTunnels, Refuse, End, Tunnelling
<1>3. QED
  BY <1>1, <1>2, BeforeDataOK DEF Refuse, End

LEMMA HeadTimeoutOK ==
  ASSUME IInv, NEW s \in Streams, HeadTimeout(s) PROVE IInv'
<1>1. TypeOK'
  BY DEF IInv, TypeOK, BuffersOK, HeadTimeout, End, dataVars
<1>2. SlotsMatchTunnels'
  BY DEF IInv, TypeOK, SlotsMatchTunnels, HeadTimeout, End, Tunnelling
<1>3. QED
  BY <1>1, <1>2, BeforeDataOK DEF HeadTimeout, End

\* The ladder answers with a status, or admits a relay of the consensus.
LEMMA Ladder ==
  ASSUME NEW req \in Requests
  PROVE  /\ ProfileRefusal(req) \in {"none", "400", "431", "501"}
         /\ Refusal(req.target) \in {"none", "400", "403"}
         /\ Refusal(req.target) = "none" => req.target \in {"relay", "v6relay"}
<1>1. ProfileRefusal(req) \in {"none", "400", "431", "501"}
  BY DEF ProfileRefusal
<1>2. req.target \in {"bad", "v6relay", "v6local", "local", "other", "relay"}
  BY DEF Requests
<1>3. QED
  BY <1>1, <1>2 DEF Refusal

LEMMA AdmitOK ==
  ASSUME IInv, NEW s \in Streams, NEW req \in Requests, Admit(s, req)
  PROVE  IInv'
<1>1. req.target \in {"relay", "v6relay"}
  BY Ladder DEF Admit, Admissible
<1>2. slots' = slots \cup {s}
  BY DEF Admit, Limiter!Grant
<1>3. TypeOK'
  BY <1>1, <1>2 DEF IInv, TypeOK, BuffersOK, Admit, Tunnelling, dataVars
<1>4. SlotsMatchTunnels'
  BY <1>2 DEF IInv, TypeOK, SlotsMatchTunnels, Admit, Tunnelling
<1>5. /\ stage' = [stage EXCEPT ![s] = "dialing"] /\ stage[s] = "open"
      /\ cause' = [cause EXCEPT ![s] = IF "dialing" = "ended" THEN "refused" ELSE @]
      /\ UNCHANGED dataVars
  BY DEF Admit, Admissible, IInv, TypeOK
<1>6. QED
  BY <1>3, <1>4, <1>5, BeforeDataOK

LEMMA DialFailsOK ==
  ASSUME IInv, NEW s \in Streams, DialFails(s) PROVE IInv'
<1>1. slots' = slots \ {s}
  BY DEF DialFails, Limiter!Release
<1>2. TypeOK'
  BY <1>1 DEF IInv, TypeOK, BuffersOK, DialFails, End, Answer, dataVars
<1>3. SlotsMatchTunnels'
  BY <1>1 DEF IInv, TypeOK, SlotsMatchTunnels, DialFails, End, Tunnelling
<1>4. QED
  BY <1>2, <1>3, BeforeDataOK DEF DialFails, End

LEMMA DialedOK ==
  ASSUME IInv, NEW s \in Streams, Dialed(s) PROVE IInv'
<1>1. TypeOK'
  BY DEF IInv, TypeOK, BuffersOK, Dialed, Answer, Tunnelling, dataVars
<1>2. SlotsMatchTunnels'
  BY DEF IInv, TypeOK, SlotsMatchTunnels, Dialed, Tunnelling
<1>3. QED
  BY <1>1, <1>2, BeforeDataOK DEF Dialed, IInv, TypeOK

\* The way a guard and its tunnel end together.
LEMMA EndReleases ==
  ASSUME IInv, NEW s \in Streams,
         NEW why \in {"refused", "upgrade", "done", "abort"},
         End(s, why), Limiter!Release(s)
  PROVE  /\ SlotsMatchTunnels' /\ slots' \subseteq Streams
         /\ stage' \in [Streams -> {"open", "ended"} \cup Tunnelling]
         /\ cause' \in [Streams -> {"none", "refused", "upgrade", "done", "abort"}]
         /\ stage'[s] = "ended" /\ cause'[s] = why
         /\ \A x \in Streams \ {s} : stage'[x] = stage[x] /\ cause'[x] = cause[x]
BY DEF IInv, TypeOK, SlotsMatchTunnels, End, Limiter!Release, Tunnelling

LEMMA UpgradeFailsOK ==
  ASSUME IInv, NEW s \in Streams, UpgradeFails(s) PROVE IInv'
<1>1. /\ SlotsMatchTunnels' /\ slots' \subseteq Streams
      /\ stage' \in [Streams -> {"open", "ended"} \cup Tunnelling]
      /\ cause' \in [Streams -> {"none", "refused", "upgrade", "done", "abort"}]
      /\ stage'[s] = "ended" /\ cause'[s] = "upgrade"
      /\ \A x \in Streams \ {s} : stage'[x] = stage[x] /\ cause'[x] = cause[x]
  BY EndReleases DEF UpgradeFails
<1>2. TypeOK'
  <2>1. Seen(s, "up", "fin") \in {"open", "fin", "rst"}
    BY DEF IInv, TypeOK, Seen, Dirs
  <2>2. sink' \in [Streams -> [Dirs -> {"open", "fin", "rst"}]]
    BY <2>1 DEF IInv, TypeOK, UpgradeFails
  <2>3. QED
    BY <1>1, <2>2 DEF IInv, TypeOK, BuffersOK, UpgradeFails
<1>3. OnlyOf(s)
  BY <1>1 DEF IInv, TypeOK, OnlyOf, UpgradeFails
<1>4. Fine(s)
  BY DEF IInv
<1>5. Fine(s)'
  BY <1>1, <1>4
     DEF Fine, InOrder, Unread, Unclosed, Ongoing, Passed, Reported, UpgradeFails
<1>6. QED
  BY <1>1, <1>2, <1>3, <1>5, Local

LEMMA UpgradedOK ==
  ASSUME IInv, NEW s \in Streams, Upgraded(s) PROVE IInv'
<1>1. PICK k \in 0..sent[s]["up"] :
        /\ taken' = [taken EXCEPT ![s]["up"] = k]
        /\ buf' = [buf EXCEPT ![s]["up"] = [i \in 1..k |-> i]]
  BY DEF Upgraded
<1>2. k \in Nat /\ "up" \in Dirs /\ sent[s]["up"] \in Nat
  BY Types DEF Dirs
<1>3. [i \in 1..k |-> i] = Upto(k) /\ Upto(k) \in Seq(Nat)
  BY <1>2, UptoExtends DEF Upto
<1>4. TypeOK'
  <2>1. \A x \in Streams, e \in Dirs : taken'[x][e] \in 0..sent'[x][e]
    BY <1>1, <1>2 DEF IInv, TypeOK, Upgraded
  <2>2. stage' \in [Streams -> {"open", "ended"} \cup Tunnelling]
    BY DEF IInv, TypeOK, Upgraded, Tunnelling
  <2>3. taken' \in [Streams -> [Dirs -> Nat]]
    BY <1>1, <1>2 DEF IInv, TypeOK
  <2>4. BuffersOK'
    BY <1>1, <1>3 DEF IInv, TypeOK, BuffersOK, Upgraded
  <2>5. QED
    BY <2>1, <2>2, <2>3, <2>4 DEF IInv, TypeOK, Upgraded
<1>6. SlotsMatchTunnels'
  BY DEF IInv, TypeOK, SlotsMatchTunnels, Upgraded, Tunnelling
<1>7. OnlyOf(s)
  BY <1>1 DEF IInv, TypeOK, BuffersOK, OnlyOf, Upgraded
<1>8. Fine(s)
  BY DEF IInv
<1>9. Fine(s)'
  <2>1. /\ taken'[s]["up"] = k /\ taken'[s]["down"] = 0
        /\ buf'[s]["up"] = Upto(k) /\ buf'[s]["down"] = <<>>
        /\ got'[s]["up"] = <<>> /\ got'[s]["down"] = <<>>
    BY <1>1, <1>3, <1>8
       DEF IInv, TypeOK, BuffersOK, Dirs, Fine, Unread, Upgraded
  <2>2. InOrder(s)'
    <3>1. <<>> \o Upto(k) = Upto(k) /\ <<>> \o <<>> = <<>> /\ Upto(0) = <<>>
      BY <1>3, ConcatEmptySeq, EmptySeq DEF Upto
    <3>2. QED
      BY <2>1, <3>1 DEF InOrder, Dirs
  <2>3. stage[s] = "upgrading" /\ stage'[s] = "leftover"
    BY DEF IInv, TypeOK, Upgraded
  <2>4. Unread(s)' /\ Unclosed(s)' /\ Ongoing(s)' /\ Passed(s)' /\ Reported(s)'
    BY <1>8, <2>1, <2>3
       DEF Fine, Unread, Unclosed, Ongoing, Passed, Reported, Dirs, Upgraded
  <2>5. QED
    BY <2>2, <2>4 DEF Fine
<1>10. QED
  BY <1>4, <1>6, <1>7, <1>9, Local

-----------------------------------------------------------------------------
\* The relay.

LEMMA DeliverOK ==
  ASSUME IInv, NEW s \in Streams, NEW d \in Dirs, Deliver(s, d),
         \/ stage[s] = "leftover" /\ d = "up" /\ stage' = [stage EXCEPT ![s] = "relaying"]
         \/ stage[s] = "relaying" /\ buf[s][d] # <<>> /\ UNCHANGED stage,
         UNCHANGED <<slots, reply, dialed, sent, src, taken, sink, cause>>
  PROVE  IInv'
<1>1. got[s][d] \in Seq(Nat) /\ buf[s][d] \in Seq(Nat) /\ <<>> \in Seq(Nat)
      /\ got[s][d] \o buf[s][d] \in Seq(Nat)
  BY Types, ConcatProperties, EmptySeq
<1>2. BuffersOK'
  <2>1. got' \in [Streams -> [Dirs -> Seq(Nat)]]
    BY <1>1 DEF IInv, TypeOK, BuffersOK, Deliver
  <2>2. buf' \in [Streams -> [Dirs -> Seq(Nat)]]
    BY <1>1 DEF IInv, TypeOK, BuffersOK, Deliver
  <2>3. QED
    BY <2>1, <2>2 DEF BuffersOK
<1>3. TypeOK'
  BY <1>2 DEF IInv, TypeOK, Tunnelling
<1>4. SlotsMatchTunnels'
  BY DEF IInv, TypeOK, SlotsMatchTunnels, Tunnelling
<1>5. OnlyOf(s)
  BY DEF IInv, TypeOK, BuffersOK, OnlyOf, Deliver
<1>6. Fine(s)
  BY DEF IInv
<1>7. Fine(s)'
  <2>1. /\ got'[s][d] = got[s][d] \o buf[s][d] /\ buf'[s][d] = <<>>
        /\ \A e \in Dirs \ {d} : got'[s][e] = got[s][e] /\ buf'[s][e] = buf[s][e]
        /\ stage'[s] = "relaying"
    BY DEF IInv, TypeOK, BuffersOK, Deliver
  <2>2. InOrder(s)'
    <3>1. got'[s][d] \o buf'[s][d] = got[s][d] \o buf[s][d]
      BY <1>1, <2>1, ConcatEmptySeq
    <3>2. QED
      BY <1>6, <2>1, <3>1 DEF Fine, InOrder
  <2>3. Unread(s)' /\ Unclosed(s)' /\ Reported(s)'
    BY <2>1 DEF Unread, Unclosed, Reported
  <2>4. Ongoing(s)' /\ Passed(s)'
    BY <1>6, <2>1 DEF Fine, Ongoing, Passed
  <2>5. QED
    BY <2>2, <2>3, <2>4 DEF Fine
<1>8. QED
  BY <1>3, <1>4, <1>5, <1>7, Local

LEMMA ReadOK ==
  ASSUME IInv, NEW s \in Streams, NEW d \in Dirs, Read(s, d) PROVE IInv'
<1>1. PICK k \in 1..Available(s, d) :
        /\ taken' = [taken EXCEPT ![s][d] = @ + k]
        /\ buf' = [buf EXCEPT ![s][d] = [i \in 1..k |-> taken[s][d] + i]]
  BY DEF Read
<1>2. /\ taken[s][d] \in Nat /\ sent[s][d] \in Nat /\ got[s][d] \in Seq(Nat)
      /\ buf[s][d] = <<>>
  BY Types DEF Read, Reading
<1>3. k \in Nat /\ k > 0 /\ taken[s][d] + k <= sent[s][d]
  BY <1>2 DEF Available
<1>4. TypeOK'
  <2>1. \A x \in Streams, e \in Dirs : taken'[x][e] \in 0..sent'[x][e]
    BY <1>1, <1>2, <1>3 DEF IInv, TypeOK, Read
  <2>2. taken' \in [Streams -> [Dirs -> Nat]]
    BY <1>1, <1>2, <1>3 DEF IInv, TypeOK
  <2>3. [i \in 1..k |-> taken[s][d] + i] \in Seq(Nat)
    BY <1>2, <1>3, UptoExtends
  <2>4. BuffersOK'
    BY <1>1, <2>3 DEF IInv, TypeOK, BuffersOK, Read
  <2>5. QED
    BY <2>1, <2>2, <2>4 DEF IInv, TypeOK, Read
<1>6. SlotsMatchTunnels' /\ OnlyOf(s)
  BY <1>1 DEF IInv, TypeOK, BuffersOK, SlotsMatchTunnels, OnlyOf, Read
<1>7. Fine(s)
  BY DEF IInv
<1>8. Fine(s)'
  <2>1. /\ buf'[s][d] = [i \in 1..k |-> taken[s][d] + i]
        /\ taken'[s][d] = taken[s][d] + k
        /\ \A e \in Dirs \ {d} : taken'[s][e] = taken[s][e] /\ buf'[s][e] = buf[s][e]
    BY <1>1 DEF IInv, TypeOK, BuffersOK
  <2>2. InOrder(s)'
    <3>1. got[s][d] = Upto(taken[s][d])
      BY <1>2, <1>7, ConcatEmptySeq DEF Fine, InOrder
    <3>2. got[s][d] \o buf'[s][d] = Upto(taken'[s][d])
      BY <1>2, <1>3, <2>1, <3>1, UptoExtends
    <3>3. QED
      BY <1>7, <2>1, <3>2 DEF Fine, InOrder, Read
  <2>3. Unread(s)' /\ Unclosed(s)' /\ Ongoing(s)' /\ Reported(s)'
    BY <1>7 DEF Fine, Unread, Unclosed, Ongoing, Reported, Read, Reading
  <2>4. Passed(s)'
    BY <1>7, <2>1 DEF Fine, Passed, Read, Reading, DirDone
  <2>5. QED
    BY <2>2, <2>3, <2>4 DEF Fine
<1>9. QED
  BY <1>4, <1>6, <1>8, Local

LEMMA PassFinOK ==
  ASSUME IInv, NEW s \in Streams, NEW d \in Dirs, PassFin(s, d) PROVE IInv'
<1>1. TypeOK'
  BY DEF IInv, TypeOK, BuffersOK, PassFin
<1>2. SlotsMatchTunnels' /\ OnlyOf(s)
  BY DEF IInv, TypeOK, SlotsMatchTunnels, OnlyOf, PassFin
<1>3. taken[s][d] = sent[s][d]
  <2>1. taken[s][d] \in Nat /\ sent[s][d] \in Nat
    BY Types
  <2>2. QED
    BY <2>1 DEF PassFin, Available
<1>4. Fine(s)
  BY DEF IInv
<1>5. InOrder(s)' /\ Unread(s)' /\ Unclosed(s)' /\ Ongoing(s)' /\ Reported(s)'
  BY <1>4 DEF Fine, InOrder, Unread, Unclosed, Ongoing, Reported, PassFin, Reading
<1>6. Passed(s)'
  BY <1>3, <1>4 DEF IInv, TypeOK, Fine, Passed, PassFin, Reading
<1>7. QED
  BY <1>1, <1>2, <1>5, <1>6, Local DEF Fine

\* A direction that passed its FIN on is complete, and the others are reset.
LEMMA AbortOK ==
  ASSUME IInv, NEW s \in Streams, stage[s] \in {"leftover", "relaying"}, Abort(s)
  PROVE  IInv'
<1>1. /\ SlotsMatchTunnels' /\ slots' \subseteq Streams
      /\ stage' \in [Streams -> {"open", "ended"} \cup Tunnelling]
      /\ cause' \in [Streams -> {"none", "refused", "upgrade", "done", "abort"}]
      /\ stage'[s] = "ended" /\ cause'[s] = "abort"
      /\ \A x \in Streams \ {s} : stage'[x] = stage[x] /\ cause'[x] = cause[x]
  BY EndReleases DEF Abort
<1>2. \A d \in Dirs :
        sink'[s][d] = IF src[s][Opposite(d)] # "gone" THEN "rst" ELSE sink[s][d]
  BY DEF IInv, TypeOK, Abort
<1>3. TypeOK'
  <2>1. sink' \in [Streams -> [Dirs -> {"open", "fin", "rst"}]]
    BY DEF IInv, TypeOK, Abort
  <2>2. QED
    BY <1>1, <2>1 DEF IInv, TypeOK, BuffersOK, Abort
<1>4. OnlyOf(s)
  BY <1>1 DEF IInv, TypeOK, OnlyOf, Abort
<1>5. Fine(s)
  BY DEF IInv
<1>6. InOrder(s)' /\ Unread(s)' /\ Unclosed(s)' /\ Ongoing(s)'
  BY <1>1, <1>5 DEF Fine, InOrder, Unread, Unclosed, Ongoing, Abort
<1>7. Passed(s)'
  BY <1>1, <1>2, <1>5 DEF Fine, Passed, Ongoing, Abort
<1>8. Reported(s)'
  BY <1>2 DEF Reported, Abort
<1>9. QED
  BY <1>1, <1>3, <1>4, <1>6, <1>7, <1>8, Local DEF Fine

LEMMA FinishOK ==
  ASSUME IInv, NEW s \in Streams, Finish(s) PROVE IInv'
<1>1. /\ SlotsMatchTunnels' /\ slots' \subseteq Streams
      /\ stage' \in [Streams -> {"open", "ended"} \cup Tunnelling]
      /\ cause' \in [Streams -> {"none", "refused", "upgrade", "done", "abort"}]
      /\ stage'[s] = "ended" /\ cause'[s] = "done"
      /\ \A x \in Streams \ {s} : stage'[x] = stage[x] /\ cause'[x] = cause[x]
  BY EndReleases DEF Finish
<1>2. TypeOK'
  BY <1>1 DEF IInv, TypeOK, BuffersOK, Finish, dataVars
<1>3. OnlyOf(s)
  BY <1>1 DEF IInv, TypeOK, OnlyOf, Finish, dataVars
<1>4. Fine(s)
  BY DEF IInv
<1>5. InOrder(s)' /\ Unread(s)' /\ Unclosed(s)' /\ Ongoing(s)' /\ Passed(s)'
  BY <1>1, <1>4
     DEF Fine, InOrder, Unread, Unclosed, Ongoing, Passed, Finish, dataVars
<1>6. Reported(s)'
  <2>1. ASSUME NEW d \in Dirs PROVE Len(got[s][d]) = sent[s][d]
    <3>1. sink[s][d] = "fin" /\ cause[s] # "upgrade"
      BY <1>4 DEF Finish, DirDone, Fine, Ongoing
    <3>2. taken[s][d] = sent[s][d] /\ buf[s][d] = <<>>
      BY <1>4, <3>1 DEF Fine, Passed
    <3>3. got[s][d] = Upto(sent[s][d])
      BY <1>4, <3>2, Types, ConcatEmptySeq DEF Fine, InOrder
    <3>4. QED
      BY <3>3, Types, UptoExtends
  <2>2. \A d \in Dirs : got'[s][d] = got[s][d] /\ sent'[s][d] = sent[s][d]
                        /\ sent[s][d] \in Nat
    BY Types DEF Finish, dataVars
  <2>3. QED
    BY <2>1, <2>2 DEF Reported
<1>7. QED
  BY <1>1, <1>2, <1>3, <1>5, <1>6, Local DEF Fine

-----------------------------------------------------------------------------

LEMMA Start == Init => IInv
<1> SUFFICES ASSUME Init PROVE IInv
  OBVIOUS
<1>1. BuffersOK
  <2>1. <<>> \in Seq(Nat)
    BY EmptySeq
  <2>2. buf \in [Streams -> [Dirs -> Seq(Nat)]] /\ got \in [Streams -> [Dirs -> Seq(Nat)]]
    BY <2>1 DEF Init, PerDir
  <2>3. QED
    BY <2>2 DEF BuffersOK
<1>2. TypeOK
  <2>1. \A s \in Streams, d \in Dirs :
          sent[s][d] \in 0..MaxUnits[s] /\ taken[s][d] \in 0..sent[s][d]
    BY ExchangeAssumption DEF Init, PerDir
  <2>2. /\ src \in [Streams -> [Dirs -> {"open", "fin", "gone"}]]
        /\ sink \in [Streams -> [Dirs -> {"open", "fin", "rst"}]]
    BY DEF Init, PerDir
  <2>3. QED
    BY <1>1, <2>1, <2>2 DEF Init, TypeOK, PerDir
<1>3. SlotsMatchTunnels
  BY DEF Init, SlotsMatchTunnels, Tunnelling
<1>4. ASSUME NEW s \in Streams PROVE Fine(s)
  <2>1. \A d \in Dirs : /\ taken[s][d] = 0 /\ got[s][d] = <<>> /\ buf[s][d] = <<>>
                        /\ sink[s][d] = "open"
    BY DEF Init, PerDir
  <2>2. <<>> \o <<>> = <<>> /\ Upto(0) = <<>>
    BY ConcatEmptySeq, EmptySeq DEF Upto
  <2>3. stage[s] = "open" /\ cause[s] = "none"
    BY DEF Init
  <2>4. InOrder(s)
    BY <2>1, <2>2 DEF InOrder
  <2>5. QED
    BY <2>1, <2>3, <2>4
       DEF Fine, Unread, Unclosed, Ongoing, Passed, Reported
<1>5. QED
  BY <1>1, <1>2, <1>3, <1>4 DEF IInv

LEMMA VerdictOK ==
  ASSUME IInv, NEW s \in Streams, Verdict(s) PROVE IInv'
<1>1. CASE HeadTimeout(s)
  BY <1>1, HeadTimeoutOK
<1>2. ASSUME NEW req \in Asks[s],
             RefuseProfile(s, req) \/ RefuseTarget(s, req) \/ Route(s, req)
               \/ RefuseBusy(s, req)
      PROVE  IInv'
  <2>1. req \in Requests
    BY ExchangeAssumption
  <2>2. QED
    BY <1>2, <2>1, Ladder, RefuseOK
       DEF RefuseProfile, RefuseTarget, Route, RefuseBusy, Admissible
<1>3. ASSUME NEW req \in Asks[s], Admit(s, req) PROVE IInv'
  BY <1>3, AdmitOK, ExchangeAssumption
<1>4. QED
  BY <1>1, <1>2, <1>3 DEF Verdict

LEMMA SetupOK ==
  ASSUME IInv, NEW s \in Streams, Setup(s) PROVE IInv'
<1>1. CASE LeftoverWritten(s)
  BY <1>1, DeliverOK DEF LeftoverWritten, Dirs
<1>2. CASE LeftoverFails(s)
  BY <1>2, AbortOK DEF LeftoverFails
<1>3. QED
  BY <1>1, <1>2, DialFailsOK, DialedOK, UpgradeFailsOK, UpgradedOK DEF Setup

LEMMA RelayOK ==
  ASSUME IInv, NEW s \in Streams, Relay(s) PROVE IInv'
<1>1. PICK d \in Dirs : Read(s, d) \/ Write(s, d) \/ PassFin(s, d)
                        \/ ReadFails(s, d) \/ WriteFails(s, d) \/ IdleTimeout(s, d)
  BY DEF Relay
<1>2. CASE Write(s, d)
  BY <1>2, DeliverOK DEF Write
<1>3. CASE ReadFails(s, d) \/ WriteFails(s, d) \/ IdleTimeout(s, d)
  BY <1>3, AbortOK DEF ReadFails, WriteFails, IdleTimeout, Reading
<1>4. QED
  BY <1>1, <1>2, <1>3, ReadOK, PassFinOK

LEMMA StutterOK == ASSUME IInv, UNCHANGED vars PROVE IInv'
<1>1. UNCHANGED <<stage, slots, reply, dialed, cause>>
      /\ UNCHANGED <<sent, src, taken, buf, got, sink>>
  BY DEF vars, dataVars
<1>2. TypeOK' /\ SlotsMatchTunnels'
  BY <1>1 DEF IInv, TypeOK, BuffersOK, SlotsMatchTunnels
<1>3. ASSUME NEW s \in Streams PROVE Fine(s)'
  <2>1. Fine(s)
    BY DEF IInv
  <2>2. QED
    BY <1>1, <2>1 DEF Fine, InOrder, Unread, Unclosed, Ongoing, Passed, Reported
<1>4. QED
  BY <1>2, <1>3 DEF IInv

LEMMA StepOK == IInv /\ [Next]_vars => IInv'
<1> SUFFICES ASSUME IInv, [Next]_vars PROVE IInv'
  OBVIOUS
<1>1. CASE UNCHANGED vars
  BY <1>1, StutterOK
<1>2. ASSUME NEW s \in Streams,
             Peer(s) \/ Verdict(s) \/ Setup(s) \/ Relay(s) \/ LifetimeOver(s)
               \/ Finish(s)
      PROVE  IInv'
  BY <1>2, PeerOK, VerdictOK, SetupOK, RelayOK, AbortOK, FinishOK
     DEF Peer, LifetimeOver
<1>3. QED
  BY <1>1, <1>2 DEF Next

LEMMA Faithful == ASSUME IInv PROVE RelayFaithful
<1>1. BytesInOrder
  BY DEF IInv, BytesInOrder, Fine, InOrder
<1>2. NoSilentTruncation
  <2>1. ASSUME NEW s \in Streams, NEW d \in Dirs,
               cause[s] \notin {"upgrade", "refused"}, sink[s][d] = "fin"
        PROVE  src[s][d] # "open" /\ Len(got[s][d]) = sent[s][d]
    <3>1. Fine(s)
      BY DEF IInv
    <3>2. src[s][d] # "open" /\ taken[s][d] = sent[s][d] /\ buf[s][d] = <<>>
      BY <2>1, <3>1 DEF Fine, Passed
    <3>3. got[s][d] = Upto(sent[s][d])
      BY <3>1, <3>2, Types, ConcatEmptySeq DEF Fine, InOrder
    <3>4. QED
      BY <3>2, <3>3, Types, UptoExtends
  <2>2. QED
    BY <2>1 DEF NoSilentTruncation, IInv, Fine, Reported
<1>3. QED
  BY <1>1, <1>2 DEF RelayFaithful

-----------------------------------------------------------------------------
\* Each step of the exchange is a grant, a release or nothing to the limiter.

LEMMA SlotStep == IInv /\ [Next]_vars => [Limiter!Next]_slots
<1> SUFFICES ASSUME IInv, [Next]_vars PROVE [Limiter!Next]_slots
  OBVIOUS
<1>1. CASE UNCHANGED vars
  BY <1>1 DEF vars
<1>2. ASSUME NEW s \in Streams, Peer(s) PROVE UNCHANGED slots
  BY <1>2 DEF Peer, PeerSends, PeerFins, PeerLost
<1>3. ASSUME NEW s \in Streams, Verdict(s)
      PROVE  Limiter!Grant(s) \/ UNCHANGED slots
  BY <1>3 DEF Verdict, RefuseProfile, RefuseTarget, Route, RefuseBusy, Refuse, Admit,
              HeadTimeout
<1>4. ASSUME NEW s \in Streams, Setup(s)
      PROVE  Limiter!Release(s) \/ UNCHANGED slots
  BY <1>4 DEF Setup, DialFails, Dialed, UpgradeFails, Upgraded, LeftoverWritten,
              LeftoverFails, Abort
<1>5. ASSUME NEW s \in Streams, Relay(s) \/ LifetimeOver(s) \/ Finish(s)
      PROVE  Limiter!Release(s) \/ UNCHANGED slots
  BY <1>5 DEF Relay, Read, Write, PassFin, ReadFails, WriteFails, IdleTimeout,
              LifetimeOver, Finish, Abort
<1>6. QED
  BY <1>1, <1>2, <1>3, <1>4, <1>5 DEF Next, Limiter!Next

\* No client IP tunnels more than it may.
IpCapped == \A ip \in Ips : Cardinality(Limiter!SlotsOf(ip)) <= PerIp

LEMMA CapStep == TypeOK /\ TypeOK' /\ IpCapped /\ [Limiter!Next]_slots => IpCapped'
<1> SUFFICES ASSUME TypeOK, TypeOK', IpCapped, [Limiter!Next]_slots, NEW ip \in Ips
             PROVE  Cardinality(Limiter!SlotsOf(ip)') <= PerIp
  BY DEF IpCapped
<1>1. /\ IsFiniteSet(Limiter!SlotsOf(ip)) /\ Cardinality(Limiter!SlotsOf(ip)) \in Nat
      /\ Limiter!SlotsOf(ip)' \subseteq Streams
  <2>1. Limiter!SlotsOf(ip) \subseteq Streams /\ Limiter!SlotsOf(ip)' \subseteq Streams
    BY DEF TypeOK, Limiter!SlotsOf
  <2>2. QED
    BY <2>1, ExchangeAssumption, FS_Subset, FS_CardinalityType
<1>2. PerIp \in Nat
  BY ExchangeAssumption
<1>3. CASE Limiter!SlotsOf(ip)' \subseteq Limiter!SlotsOf(ip)
  <2>1. Cardinality(Limiter!SlotsOf(ip)') <= Cardinality(Limiter!SlotsOf(ip))
        /\ Cardinality(Limiter!SlotsOf(ip)') \in Nat
    BY <1>1, <1>3, FS_Subset, FS_CardinalityType
  <2>2. QED
    BY <1>1, <1>2, <2>1 DEF IpCapped
<1>4. ASSUME NEW s \in Streams, Limiter!Grant(s), IpOf[s] = ip
      PROVE  Cardinality(Limiter!SlotsOf(ip)') <= PerIp
  <2>1. Limiter!SlotsOf(ip)' = Limiter!SlotsOf(ip) \cup {s} /\ s \notin Limiter!SlotsOf(ip)
    BY <1>4 DEF Limiter!Grant, Limiter!SlotsOf
  <2>2. Cardinality(Limiter!SlotsOf(ip)') = Cardinality(Limiter!SlotsOf(ip)) + 1
    BY <1>1, <2>1, FS_AddElement
  <2>3. Cardinality(Limiter!SlotsOf(ip)) < PerIp
    <3>1. Limiter!Cardinality(Limiter!SlotsOf(ip)) < PerIp
      BY <1>4 DEF Limiter!Grant
    <3>2. Limiter!Cardinality(Limiter!SlotsOf(ip)) = Cardinality(Limiter!SlotsOf(ip))
      BY Zenon DEF Limiter!Cardinality, Cardinality, Limiter!IsFiniteSet, IsFiniteSet
    <3>3. QED
      BY <3>1, <3>2
  <2>4. QED
    BY <1>1, <1>2, <2>2, <2>3
<1>5. QED
  BY <1>3, <1>4 DEF Limiter!Next, Limiter!Grant, Limiter!Release, Limiter!SlotsOf

LEMMA CapStart == Init => IpCapped
<1> SUFFICES ASSUME Init, NEW ip \in Ips PROVE Cardinality(Limiter!SlotsOf(ip)) <= PerIp
  BY DEF IpCapped
<1>1. Limiter!SlotsOf(ip) = {}
  BY DEF Init, Limiter!SlotsOf
<1>2. QED
  BY <1>1, FS_EmptySet, ExchangeAssumption

-----------------------------------------------------------------------------
\* Every variable of the exchange keeps its type; in particular only relays of
\* the consensus are dialed (kps_server.rs, handle_request to relay).
THEOREM TypesHold == Spec => []TypeOK
<1>1. IInv => TypeOK
  BY DEF IInv
<1>2. QED
  BY Start, StepOK, <1>1, PTL DEF Spec

\* No path of handle_connect, of the upgrade or of the relay task keeps the
\* guard of a tunnel that ended, or drops the guard of one that goes on.
THEOREM SlotsExact == Spec => []SlotsMatchTunnels
<1>1. IInv => SlotsMatchTunnels
  BY DEF IInv
<1>2. QED
  BY Start, StepOK, <1>1, PTL DEF Spec

\* The tunnel loses, repeats and reorders nothing, and whatever ends it short
\* of what a side sent shows as a reset (tunnel.rs, relay and its directions).
THEOREM RelayIsFaithful == Spec => []RelayFaithful
<1>1. IInv => RelayFaithful
  BY Faithful
<1>2. QED
  BY Start, StepOK, <1>1, PTL DEF Spec

\* The exchange takes and gives back slots as the limiter's abstract
\* specification says: one at a time, below the cap, each given back once.
THEOREM UsesLimiter == Spec => Limiter!Spec
<1>1. Init => Limiter!Init
  BY DEF Init, Limiter!Init
<1>2. QED
  BY Start, StepOK, SlotStep, <1>1, PTL DEF Spec, Limiter!Spec

\* No client IP has more than PerIp tunnels in any stage, the one whose dial
\* is under way included (limits.rs, acquire; tunnel.rs, handle_connect).
THEOREM IpCap == Spec => []IpCapped
<1>1. IInv => TypeOK
  BY DEF IInv
<1>2. QED
  BY Start, StepOK, SlotStep, CapStart, CapStep, <1>1, PTL DEF Spec
=============================================================================
