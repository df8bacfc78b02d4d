------------------------- MODULE ClientStreamProofs -------------------------
(***************************************************************************)
(* The two layers of the client that hand bytes on.                        *)
(*                                                                         *)
(* JsProxyStream, for any peer, any writes and any sizes of buffers: both  *)
(* directions of the stream implement BytePipe, no loss stays unreported   *)
(* and no socket outlives its stream.  HttpFetch, for any call, any peer   *)
(* and any way its bytes arrive: the body delivered is the body of the     *)
(* response, its end is not made up, an aborted call yields nothing new,   *)
(* and a request cut off is not one that ended.                            *)
(*                                                                         *)
(* The two share a module for the facts about sequences they both need.    *)
(* FlattenSeq and the reference decoders of HttpMessages are recursive;    *)
(* that a function satisfies its recursion, and what it computes, is shown *)
(* by induction on the sets of numbers for which it holds (Induct).        *)
(***************************************************************************)
EXTENDS JsProxyStream, HttpFetch,
        SequenceTheorems, NaturalsInduction, WellFoundedInduction, TLAPS

-----------------------------------------------------------------------------
\* A set with 0 and every successor of its members has every number.
LEMMA Induct ==
  ASSUME NEW T, 0 \in T, \A n \in Nat : n \in T => n + 1 \in T
  PROVE  Nat \subseteq T
<1> SUFFICES ASSUME Nat \ T # {} PROVE FALSE
  OBVIOUS
<1>1. IsWellFoundedOn(OpToRel(<, Nat), Nat)
  BY NatLessThanWellFounded
<1>2. PICK x \in Nat \ T : \A y \in Nat \ T : ~(<<y, x>> \in OpToRel(<, Nat))
  BY <1>1, WFMin
<1>3. x # 0 /\ x \in Nat
  BY <1>2
<1>3a. x - 1 \in Nat /\ x - 1 < x /\ (x - 1) + 1 = x
  BY <1>3
<1>4. x - 1 \in T
  BY <1>2, <1>3, <1>3a DEF OpToRel
<1>5. QED
  BY <1>2, <1>3a, <1>4

\* The partial results of FlattenSeq over the first n sequences of s.
Partial(f, s, n) ==
  \A i \in 1..n : f[i] = IF i = 1 THEN s[i] ELSE f[i - 1] \o s[i]

\* The partial results exist, whatever the sequences.
LEMMA PartialExists ==
  ASSUME NEW S, NEW s \in Seq(Seq(S))
  PROVE  \A n \in 0..Len(s) : \E f \in [1..n -> Seq(S)] : Partial(f, s, n)
<1> DEFINE T == {n \in Nat : n <= Len(s) => \E f \in [1..n -> Seq(S)] : Partial(f, s, n)}
<1>1. 0 \in T
  <2>1. [i \in 1..0 |-> <<>>] \in [1..0 -> Seq(S)]
    OBVIOUS
  <2>2. Partial([i \in 1..0 |-> <<>>], s, 0)
    BY DEF Partial
  <2>3. QED
    BY <2>1, <2>2
<1>2. ASSUME NEW n \in Nat, n \in T PROVE n + 1 \in T
  <2>1. SUFFICES ASSUME n + 1 <= Len(s)
                 PROVE \E f \in [1..(n + 1) -> Seq(S)] : Partial(f, s, n + 1)
    OBVIOUS
  <2>2. PICK f \in [1..n -> Seq(S)] : Partial(f, s, n)
    BY <1>2, <2>1
  <2>3. s[n + 1] \in Seq(S) /\ (n > 0 => f[n] \in Seq(S))
    BY <2>1
  <2>4. n > 0 => f[n] \o s[n + 1] \in Seq(S)
    BY <2>3, ConcatProperties
  <2> DEFINE e == IF n = 0 THEN s[1] ELSE f[n] \o s[n + 1]
             h == [i \in 1..(n + 1) |-> IF i = n + 1 THEN e ELSE f[i]]
  <2>5. e \in Seq(S)
    BY <2>3, <2>4
  <2> HIDE DEF e
  <2>6. h \in [1..(n + 1) -> Seq(S)]
    BY <2>5
  <2>7. Partial(h, s, n + 1)
    <3>1. ASSUME NEW i \in 1..(n + 1)
          PROVE  h[i] = IF i = 1 THEN s[i] ELSE h[i - 1] \o s[i]
      <4>1. CASE i = n + 1
        BY <4>1 DEF e
      <4>2. CASE i # n + 1
        <5>1. i \in 1..n /\ h[i] = f[i] /\ (i # 1 => h[i - 1] = f[i - 1])
          BY <4>2
        <5>2. QED
          BY <2>2, <5>1 DEF Partial
      <4>3. QED
        BY <4>1, <4>2
    <3> HIDE DEF h
    <3>2. QED
      BY <3>1 DEF Partial
  <2>8. QED
    BY <2>6, <2>7
<1> HIDE DEF T
<1>3. Nat \subseteq T
  BY <1>1, <1>2, Induct
<1>4. QED
  BY <1>3 DEF T

\* FlattenSeq is the last of the partial results.
LEMMA FlattenIsPartial ==
  ASSUME NEW S, NEW s \in Seq(Seq(S)), Len(s) > 0
  PROVE  \E f \in [1..Len(s) -> Seq(S)] :
           Partial(f, s, Len(s)) /\ FlattenSeq(s) = f[Len(s)]
<1> DEFINE n == Len(s)
<1>1. PICK f \in [1..n -> Seq(S)] : Partial(f, s, n)
  BY PartialExists
<1> DEFINE IsRec(g) == g = [i \in 1..n |-> IF i = 1 THEN s[i] ELSE g[i - 1] \o s[i]]
           F == CHOOSE g : IsRec(g)
<1>2. IsRec(f)
  BY <1>1 DEF Partial
<1>3. IsRec(F)
  BY <1>2
<1>4. FlattenSeq(s) = F[n]
  BY DEF FlattenSeq
<1> HIDE DEF F
<1>5. \A i \in 1..n : F[i] = IF i = 1 THEN s[i] ELSE F[i - 1] \o s[i]
  BY <1>3
<1> DEFINE T == {k \in Nat : k \in 1..n => F[k] = f[k]}
<1>6. ASSUME NEW k \in Nat, k \in T PROVE k + 1 \in T
  <2>1. SUFFICES ASSUME k + 1 \in 1..n PROVE F[k + 1] = f[k + 1]
    OBVIOUS
  <2>2. CASE k = 0
    <3>1. 1 \in 1..n /\ k + 1 = 1
      BY <2>1, <2>2
    <3>2. F[1] = s[1]
      BY <1>5, <3>1
    <3>3. f[1] = s[1]
      BY <1>1, <3>1 DEF Partial
    <3>4. QED
      BY <3>1, <3>2, <3>3
  <2>3. CASE k > 0
    <3>1. F[k] = f[k] /\ (k + 1) - 1 = k /\ k + 1 # 1
      BY <1>6, <2>1, <2>3
    <3>2. f[k + 1] = f[(k + 1) - 1] \o s[k + 1]
      BY <1>1, <2>1, <3>1 DEF Partial
    <3>3. F[k + 1] = F[(k + 1) - 1] \o s[k + 1]
      BY <1>5, <2>1, <3>1
    <3>4. QED
      BY <3>1, <3>2, <3>3
  <2>4. QED
    BY <2>2, <2>3
<1>7. 0 \in T
  OBVIOUS
<1> HIDE DEF T
<1>8. Nat \subseteq T
  BY <1>6, <1>7, Induct
<1>9. F[n] = f[n]
  <2>1. n \in Nat /\ n \in 1..n
    OBVIOUS
  <2>2. QED
    BY <1>8, <2>1 DEF T
<1>10. QED
  BY <1>1, <1>4, <1>9

LEMMA RegroupAll ==
  ASSUME NEW S
  PROVE  \A a, b, c \in Seq(S) : (a \o b) \o c = a \o (b \o c)
BY ConcatAssociative

\* The first sequence, then all that follow it.
LEMMA FlattenStep ==
  ASSUME NEW S, NEW s \in Seq(Seq(S)), s # <<>>
  PROVE  /\ FlattenSeq(s) \in Seq(S)
         /\ FlattenSeq(s) = s[1] \o FlattenSeq(Tail(s))
<1> DEFINE t == Tail(s)
           n == Len(s)
<1>1. /\ s[1] \in Seq(S) /\ t \in Seq(Seq(S)) /\ Len(t) = n - 1
      /\ n \in Nat /\ n > 0
      /\ \A i \in 1..(n - 1) : t[i] = s[i + 1]
  BY HeadTailProperties, EmptySeq
<1>2. PICK f \in [1..n -> Seq(S)] : Partial(f, s, n) /\ FlattenSeq(s) = f[n]
  BY <1>1, FlattenIsPartial
<1>3. \A a, b, c \in Seq(S) : (a \o b) \o c = a \o (b \o c)
  BY RegroupAll
<1> HIDE DEF t, n
<1>4. CASE n = 1
  <2>1. t = <<>>
    <3>1. Len(t) = 0
      BY <1>1, <1>4
    <3>2. QED
      BY <1>1, <3>1, EmptySeq
  <2>2. FlattenSeq(t) = <<>>
    BY <2>1 DEF FlattenSeq
  <2>3. FlattenSeq(s) = s[1]
    BY <1>2, <1>4 DEF Partial
  <2>4. QED
    BY <1>1, <2>2, <2>3, ConcatEmptySeq DEF t
<1>5. CASE n > 1
  <2>1. PICK g \in [1..(n - 1) -> Seq(S)] :
               Partial(g, t, n - 1) /\ FlattenSeq(t) = g[n - 1]
    <3>1. Len(t) = n - 1 /\ Len(t) > 0
      BY <1>1, <1>5
    <3>2. \E g \in [1..Len(t) -> Seq(S)] :
            Partial(g, t, Len(t)) /\ FlattenSeq(t) = g[Len(t)]
      BY <1>1, <3>1, FlattenIsPartial
    <3>3. QED
      BY <3>1, <3>2
  <2> DEFINE Shifted(k) == k \in 1..(n - 1) => f[k + 1] = s[1] \o g[k]
             T == {k \in Nat : Shifted(k)}
  <2>2. 0 \in T
    OBVIOUS
  <2>3. ASSUME NEW k \in Nat, k \in T PROVE k + 1 \in T
    <3>1. SUFFICES ASSUME k + 1 \in 1..(n - 1)
                   PROVE f[(k + 1) + 1] = s[1] \o g[k + 1]
      <4> HIDE DEF Shifted
      <4>1. SUFFICES Shifted(k + 1)
        OBVIOUS
      <4> USE DEF Shifted
      <4>2. QED
        OBVIOUS
    <3> HIDE DEF Shifted, T
    <3>2. /\ (k + 1) + 1 \in 1..n /\ (k + 1) + 1 # 1 /\ ((k + 1) + 1) - 1 = k + 1
          /\ (k + 1) - 1 = k
      BY <1>1, <3>1
    <3>3. f[(k + 1) + 1] = f[k + 1] \o t[k + 1]
      BY <1>1, <1>2, <3>1, <3>2 DEF Partial
    <3>4. t[k + 1] \in Seq(S)
      BY <1>1, <3>1
    <3>5. CASE k = 0
      <4>1. k + 1 = 1 /\ 1 \in 1..(n - 1) /\ 1 \in 1..n
        BY <1>1, <3>1, <3>5
      <4>2. g[1] = t[1]
        BY <2>1, <4>1 DEF Partial
      <4>3. f[1] = s[1]
        BY <1>2, <4>1 DEF Partial
      <4>4. QED
        BY <3>3, <4>1, <4>2, <4>3
    <3>6. CASE k > 0
      <4>1. k \in 1..(n - 1) /\ k + 1 # 1
        BY <1>1, <3>1, <3>6
      <4>2. g[k + 1] = g[k] \o t[k + 1] /\ g[k] \in Seq(S)
        BY <2>1, <3>1, <3>2, <4>1 DEF Partial
      <4>3. f[k + 1] = s[1] \o g[k]
        BY <2>3, <4>1 DEF Shifted, T
      <4>4. (s[1] \o g[k]) \o t[k + 1] = s[1] \o (g[k] \o t[k + 1])
        <5>1. s[1] \in Seq(S)
          BY <1>1
        <5>2. QED
          BY <3>4, <4>2, <5>1, <1>3, Zenon
      <4>5. QED
        BY <3>3, <4>2, <4>3, <4>4
    <3>7. k = 0 \/ k > 0
      OBVIOUS
    <3>8. QED
      BY <3>5, <3>6, <3>7, Zenon
  <2> HIDE DEF T
  <2>4. Nat \subseteq T
    BY <2>2, <2>3, Induct
  <2>5. f[n] = s[1] \o g[n - 1]
    <3>1. n - 1 \in Nat /\ n - 1 \in 1..(n - 1) /\ (n - 1) + 1 = n
      BY <1>1, <1>5
    <3>2. QED
      BY <2>4, <3>1 DEF T
  <2>6. f[n] \in Seq(S)
    BY <1>1
  <2>7. QED
    BY <1>2, <2>1, <2>5, <2>6 DEF t
<1>6. QED
  BY <1>1, <1>4, <1>5

LEMMA FlattenNone == FlattenSeq(<<>>) = <<>>
BY EmptySeq DEF FlattenSeq

-----------------------------------------------------------------------------
(* JsProxyStream: the inductive invariant                                  *)

\* What the peer sent is what arti has read, then what poll_read has left
\* over, then the chunk at hand, then the chunks to come.
ReadSide ==
  /\ FlattenSeq(peer.chunks) =
       got \o (read_buf \o (pending_read.data \o FlattenSeq(inbox)))
  /\ pending_read.state # "chunk" => pending_read.data = <<>>
  /\ pending_read.state # "none" => read_buf = <<>>
  /\ pending_read.state = "done" => inbox = <<>>
  /\ read_done => read_buf = <<>> /\ pending_read.state = "none"
  /\ read_done <=> readEnd # "open"

\* Until a write fails, what arti wrote is what the socket took and the chunk
\* that is under way; a failure comes from a socket that has broken for good.
WriteSide ==
  /\ pending_write.state # "waiting" \/ write_closing => pending_write.data = <<>>
  /\ reported \/ pending_write.state = "failed" => broken
  /\ ~reported /\ pending_write.state # "failed" =>
       taken = accepted \o pending_write.data
  /\ write_closing => fin \/ reported \/ pending_write.state \in {"waiting", "failed"}
  /\ fin => write_closing /\ pending_write.state # "waiting"

StreamInv == StreamTypeOK /\ ReadSide /\ WriteSide /\ FailureReported /\ SocketReleased

\* The steps of connect and drop, and the socket's: a socket may break, the
\* bytes stay where they are.
LEMMA ConnectFrame ==
  ASSUME StreamInv, UNCHANGED <<peer, readVars, writeVars>>,
         broken' \in BOOLEAN, broken => broken',
         stage' \in {"idle", "connecting", "failed", "open", "gaveup", "dropped"},
         socket' \in {"none", "open", "closed"}, SocketReleased'
  PROVE  StreamInv'
<1>1. UNCHANGED <<peer, inbox, pending_read, read_buf, read_done, got, readEnd>>
  BY DEF readVars
<1>2. UNCHANGED <<outbox, pending_write, write_closing, write_closed, taken,
                  accepted, fin, reported, assured>>
  BY DEF writeVars
<1>3. StreamTypeOK'
  BY <1>1, <1>2 DEF StreamInv, StreamTypeOK
<1>4. ReadSide'
  BY <1>1 DEF StreamInv, ReadSide
<1>5. WriteSide'
  BY <1>2 DEF StreamInv, WriteSide
<1>6. FailureReported'
  BY <1>2 DEF StreamInv, FailureReported
<1>7. QED
  BY <1>3, <1>4, <1>5, <1>6 DEF StreamInv

LEMMA ConnectOK ==
  ASSUME StreamInv,
         \/ Connect \/ ConnectRejects \/ WrapFails \/ Opens \/ GivesUp \/ OpensLate \/ Drop \/ Breaks
         \/ UNCHANGED streamVars
  PROVE  StreamInv'
<1>1. UNCHANGED <<peer, readVars, writeVars>>
  BY DEF Connect, ConnectRejects, WrapFails, Opens, GivesUp, OpensLate, Drop, Breaks, Moves, streamVars
<1>2. broken' \in BOOLEAN /\ (broken => broken')
  BY DEF StreamInv, StreamTypeOK, Connect, ConnectRejects, WrapFails, Opens, GivesUp, OpensLate, Drop,
         Breaks, Moves, streamVars
<1>3. /\ stage' \in {"idle", "connecting", "failed", "open", "gaveup", "dropped"}
      /\ socket' \in {"none", "open", "closed"}
      /\ SocketReleased'
  BY DEF StreamInv, StreamTypeOK, SocketReleased, Connect, ConnectRejects, WrapFails, Opens, GivesUp,
         OpensLate, Drop, Breaks, Moves, streamVars
<1>4. QED
  BY <1>1, <1>2, <1>3, ConnectFrame

-----------------------------------------------------------------------------
(* JsProxyStream: reads                                                    *)

LEMMA ReadFrame ==
  ASSUME StreamInv, ReadStep, ReadSide',
         pending_read' \in [state : States \ {"ok"}, data : Seq(Byte)],
         inbox' \in Seq(Seq(Byte)), read_buf' \in Seq(Byte), got' \in Seq(Byte),
         read_done' \in BOOLEAN, readEnd' \in {"open", "ended", "broken"}
  PROVE  StreamInv'
<1>1. UNCHANGED <<peer, stage, socket, broken>>
  BY DEF ReadStep
<1>2. UNCHANGED <<outbox, pending_write, write_closing, write_closed, taken,
                  accepted, fin, reported, assured>>
  BY DEF ReadStep, writeVars
<1>3. StreamTypeOK'
  BY <1>1, <1>2 DEF StreamInv, StreamTypeOK
<1>4. WriteSide'
  BY <1>1, <1>2 DEF StreamInv, WriteSide
<1>5. FailureReported' /\ SocketReleased'
  BY <1>1, <1>2 DEF StreamInv, FailureReported, SocketReleased
<1>6. QED
  BY <1>3, <1>4, <1>5 DEF StreamInv

\* A chunk is cut into what fits the buffer and what is left over.
LEMMA CutAt ==
  ASSUME NEW data \in Seq(Byte), NEW room \in Buffers
  PROVE  /\ Given(data, room) \in Seq(Byte) /\ Over(data, room) \in Seq(Byte)
         /\ Given(data, room) \o Over(data, room) = data
         /\ data # <<>> => Given(data, room) # <<>>
         /\ data = <<>> => Given(data, room) = <<>> /\ Over(data, room) = <<>>
<1> DEFINE n == Len(data)
           k == IF room < n THEN room ELSE n
<1>1. room \in Nat /\ room > 0 /\ n \in Nat /\ k \in 0..n
  BY StreamAssumption
<1>2. Given(data, room) = SubSeq(data, 1, k)
  BY DEF Given
<1>3. Over(data, room) = SubSeq(data, k + 1, n)
  <2>1. CASE room < n
    BY <2>1 DEF Over
  <2>2. CASE ~(room < n)
    BY <1>1, <2>2, SubSeqEmpty DEF Over
  <2>3. QED
    BY <2>1, <2>2
<1> HIDE DEF k
<1>4. Given(data, room) \in Seq(Byte) /\ Over(data, room) \in Seq(Byte)
  BY <1>1, <1>2, <1>3, SubSeqProperties
<1>5. Given(data, room) \o Over(data, room) = data
  <2>1. SubSeq(data, 1, k) \o SubSeq(data, k + 1, n) = SubSeq(data, 1, n)
    <3>1. 1 \in 1..(n + 1) /\ k \in (1 - 1)..n /\ n \in k..n
      BY <1>1
    <3>2. QED
      BY <3>1, ConcatAdjacentSubSeq
  <2>2. SubSeq(data, 1, n) = data
    BY SubSeqFull
  <2>3. QED
    BY <1>2, <1>3, <2>1, <2>2
<1>6. Len(Given(data, room)) = k
  BY <1>1, <1>2, SubSeqProperties
<1>7. data # <<>> => k > 0
  BY <1>1, EmptySeq DEF k
<1>8. data # <<>> => Given(data, room) # <<>>
  BY <1>6, <1>7
<1>9. data = <<>> => Given(data, room) = <<>> /\ Over(data, room) = <<>>
  BY <1>4, <1>5, ConcatEqualIffEmpty
<1>10. QED
  BY <1>4, <1>5, <1>8, <1>9

\* The chunks to come have their bytes.
LEMMA FlatTyped ==
  ASSUME NEW s \in Seq(Seq(Byte)) PROVE FlattenSeq(s) \in Seq(Byte)
<1>1. CASE s = <<>>
  BY <1>1, FlattenNone, EmptySeq
<1>2. CASE s # <<>>
  BY <1>2, FlattenStep
<1>3. QED
  BY <1>1, <1>2

\* What poll_read moves from the front of the rest to the end of `got`.
Moved(a, g, o, x) == a \o ((g \o o) \o x) = (a \o g) \o (o \o x)

LEMMA Handed == \A a, g, o, x \in Seq(Byte) : Moved(a, g, o, x)
<1> SUFFICES ASSUME NEW a \in Seq(Byte), NEW g \in Seq(Byte), NEW o \in Seq(Byte),
                    NEW x \in Seq(Byte)
             PROVE  a \o ((g \o o) \o x) = (a \o g) \o (o \o x)
  BY DEF Moved
<1>1. (g \o o) \o x = g \o (o \o x) /\ o \o x \in Seq(Byte)
  BY ConcatAssociative, ConcatProperties
<1> DEFINE y == o \o x
<1>2. y \in Seq(Byte) /\ (g \o o) \o x = g \o y
  BY <1>1
<1> HIDE DEF y
<1>3. (a \o g) \o y = a \o (g \o y)
  BY <1>2, ConcatAssociative
<1>4. QED
  BY <1>2, <1>3 DEF y

LEMMA Emptied == ASSUME NEW a \in Seq(Byte) PROVE a \o <<>> = a /\ <<>> \o a = a
BY ConcatEmptySeq

LEMMA BufferedOK ==
  ASSUME StreamInv, NEW room \in Buffers, PollReadBuffered(room) PROVE StreamInv'
<1> DEFINE G == Given(read_buf, room)
           O == Over(read_buf, room)
           X == pending_read.data \o FlattenSeq(inbox)
<1>1. /\ got \in Seq(Byte) /\ read_buf \in Seq(Byte) /\ inbox \in Seq(Seq(Byte))
      /\ pending_read.data \in Seq(Byte) /\ read_buf # <<>> /\ ~read_done
      /\ pending_read.state = "none"
  BY DEF StreamInv, StreamTypeOK, ReadSide, PollReadBuffered
<1>2. G \in Seq(Byte) /\ O \in Seq(Byte) /\ G \o O = read_buf
  BY <1>1, CutAt
<1>3. X \in Seq(Byte)
  BY <1>1, FlatTyped, ConcatProperties
<1>4. /\ got' = got \o G /\ read_buf' = O /\ ReadStep /\ peer' = peer
      /\ UNCHANGED <<inbox, pending_read, read_done, readEnd>>
  BY DEF PollReadBuffered, ReadStep
<1> HIDE DEF G, O, X
<1>5. got \o ((G \o O) \o X) = (got \o G) \o (O \o X)
  <2>1. Moved(got, G, O, X)
    BY <1>1, <1>2, <1>3, Handed
  <2>2. QED
    BY <2>1 DEF Moved
<1>6. got' \in Seq(Byte)
  BY <1>1, <1>2, <1>4, ConcatProperties
<1>7. ReadSide'
  BY <1>1, <1>2, <1>4, <1>5 DEF StreamInv, ReadSide, X
<1>8. QED
  BY <1>2, <1>4, <1>6, <1>7, ReadFrame DEF StreamInv, StreamTypeOK

LEMMA AsksOK == ASSUME StreamInv, PollReadAsks PROVE StreamInv'
<1>1. /\ ReadStep /\ peer' = peer /\ UNCHANGED <<inbox, read_buf, read_done, got, readEnd>>
      /\ pending_read.state = "none" /\ pending_read.data = <<>>
      /\ pending_read'.state = "waiting" /\ pending_read'.data = <<>>
      /\ read_buf = <<>> /\ ~read_done
  BY DEF StreamInv, ReadSide, PollReadAsks, Promise, ReadStep
<1>2. ReadSide'
  BY <1>1 DEF StreamInv, ReadSide
<1>3. pending_read' \in [state : States \ {"ok"}, data : Seq(Byte)]
  BY EmptySeq DEF PollReadAsks, Promise, States
<1>4. QED
  BY <1>1, <1>2, <1>3, ReadFrame DEF StreamInv, StreamTypeOK

LEMMA TakesOK ==
  ASSUME StreamInv, NEW room \in Buffers, PollReadTakes(room) PROVE StreamInv'
<1> DEFINE d == pending_read.data
           G == Given(d, room)
           O == Over(d, room)
           F == FlattenSeq(inbox)
<1>1. /\ got \in Seq(Byte) /\ inbox \in Seq(Seq(Byte)) /\ d \in Seq(Byte)
      /\ read_buf = <<>> /\ ~read_done /\ readEnd = "open"
      /\ FlattenSeq(peer.chunks) = got \o (read_buf \o (d \o F))
  BY DEF StreamInv, StreamTypeOK, ReadSide, PollReadTakes
<1>2. /\ G \in Seq(Byte) /\ O \in Seq(Byte) /\ G \o O = d
      /\ d = <<>> => O = <<>>
  BY <1>1, CutAt
<1>3. F \in Seq(Byte) /\ d \o F \in Seq(Byte) /\ got \o G \in Seq(Byte)
  BY <1>1, <1>2, FlatTyped, ConcatProperties
<1>4. /\ got' = got \o G /\ read_buf' = O /\ ReadStep /\ peer' = peer
      /\ UNCHANGED <<inbox, read_done, readEnd>>
      /\ pending_read' = IF d = <<>> THEN Promise("waiting", <<>>) ELSE NoPromise
  BY DEF PollReadTakes, ReadStep
<1>5. /\ pending_read'.data = <<>> /\ pending_read'.state \in {"waiting", "none"}
      /\ pending_read'.state = "waiting" => read_buf' = <<>>
      /\ pending_read' \in [state : States \ {"ok"}, data : Seq(Byte)]
  BY <1>2, <1>4, EmptySeq DEF Promise, NoPromise, States
<1>6. FlattenSeq(peer.chunks) = (got \o G) \o (O \o (<<>> \o F))
  <2>1. <<>> \o (d \o F) = d \o F /\ <<>> \o F = F
    BY <1>3, Emptied
  <2>2. got \o ((G \o O) \o F) = (got \o G) \o (O \o F)
    <3> HIDE DEF d, G, O, F
    <3>1. Moved(got, G, O, F)
      BY <1>1, <1>2, <1>3, Handed
    <3>2. QED
      BY <3>1 DEF Moved
  <2>3. QED
    BY <1>1, <1>2, <2>1, <2>2
<1> HIDE DEF d, G, O, F
<1>7. ReadSide'
  BY <1>1, <1>4, <1>5, <1>6 DEF ReadSide, F
<1>8. QED
  BY <1>1, <1>2, <1>3, <1>4, <1>5, <1>7, ReadFrame DEF StreamInv, StreamTypeOK

LEMMA ReadEndsOK == ASSUME StreamInv, PollReadEnds PROVE StreamInv'
<1>1. /\ ReadStep /\ peer' = peer /\ UNCHANGED <<inbox, read_buf, got>>
      /\ pending_read.data = <<>> /\ pending_read' = NoPromise
      /\ read_buf = <<>> /\ read_done' = TRUE /\ readEnd' \in {"ended", "broken"}
  BY DEF StreamInv, ReadSide, PollReadEnds, ReadStep
<1>2. /\ pending_read'.state = "none" /\ pending_read'.data = <<>>
      /\ pending_read' \in [state : States \ {"ok"}, data : Seq(Byte)]
  BY <1>1, EmptySeq DEF NoPromise, Promise, States
<1>3. ReadSide'
  BY <1>1, <1>2 DEF StreamInv, ReadSide
<1>4. QED
  BY <1>1, <1>2, <1>3, ReadFrame DEF StreamInv, StreamTypeOK

LEMMA ReadSettlesOK == ASSUME StreamInv, ReadSettles PROVE StreamInv'
<1>1. /\ ReadStep /\ peer' = peer /\ UNCHANGED <<read_buf, read_done, got, readEnd>>
      /\ pending_read.data = <<>> /\ pending_read.state = "waiting"
      /\ read_buf = <<>> /\ ~read_done /\ inbox \in Seq(Seq(Byte))
  BY DEF StreamInv, StreamTypeOK, ReadSide, ReadSettles, ReadStep
<1>2. CASE /\ inbox # <<>> /\ inbox' = Tail(inbox)
           /\ pending_read' = Promise("chunk", inbox[1])
  <2>1. inbox[1] \in Seq(Byte) /\ inbox' \in Seq(Seq(Byte))
    BY <1>1, <1>2, HeadTailProperties
  <2>2. FlattenSeq(inbox) = inbox[1] \o FlattenSeq(inbox') /\ FlattenSeq(inbox) \in Seq(Byte)
    BY <1>1, <1>2, FlattenStep
  <2>3. <<>> \o FlattenSeq(inbox) = FlattenSeq(inbox)
    BY <2>2, Emptied
  <2>4. /\ pending_read'.state = "chunk" /\ pending_read'.data = inbox[1]
        /\ pending_read' \in [state : States \ {"ok"}, data : Seq(Byte)]
    BY <1>2, <2>1 DEF Promise, States
  <2>5. ReadSide'
    BY <1>1, <2>2, <2>3, <2>4 DEF StreamInv, ReadSide
  <2>6. QED
    BY <1>1, <2>1, <2>4, <2>5, ReadFrame DEF StreamInv, StreamTypeOK
<1>3. CASE /\ inbox' = inbox
           /\ \/ pending_read' = Promise("done", <<>>) /\ inbox = <<>>
              \/ pending_read' = Promise("failed", <<>>)
  <2>1. CASE pending_read' = Promise("done", <<>>) /\ inbox = <<>>
    <3>1. /\ pending_read'.state = "done" /\ pending_read'.data = <<>>
          /\ pending_read' \in [state : States \ {"ok"}, data : Seq(Byte)]
      BY <2>1, EmptySeq DEF Promise, States
    <3>2. ReadSide'
      BY <1>1, <1>3, <2>1, <3>1 DEF StreamInv, ReadSide
    <3>3. QED
      BY <1>1, <1>3, <3>1, <3>2, ReadFrame DEF StreamInv, StreamTypeOK
  <2>2. CASE pending_read' = Promise("failed", <<>>)
    <3>1. /\ pending_read'.state = "failed" /\ pending_read'.data = <<>>
          /\ pending_read' \in [state : States \ {"ok"}, data : Seq(Byte)]
      BY <2>2, EmptySeq DEF Promise, States
    <3>2. ReadSide'
      BY <1>1, <1>3, <3>1 DEF StreamInv, ReadSide
    <3>3. QED
      BY <1>1, <1>3, <3>1, <3>2, ReadFrame DEF StreamInv, StreamTypeOK
  <2>3. QED
    BY <1>3, <2>1, <2>2
<1>4. QED
  BY <1>2, <1>3 DEF ReadSettles

-----------------------------------------------------------------------------
(* JsProxyStream: writes                                                   *)

LEMMA WriteFrame ==
  ASSUME StreamInv, UNCHANGED <<peer, stage, socket, broken, readVars>>,
         WriteSide', FailureReported',
         pending_write' \in [state : States \ {"chunk", "done"}, data : Seq(Byte)],
         outbox' \in Seq(Seq(Byte)), taken' \in Seq(Byte), accepted' \in Seq(Byte),
         write_closing' \in BOOLEAN, write_closed' \in BOOLEAN, fin' \in BOOLEAN,
         reported' \in BOOLEAN, assured' \in Nat
  PROVE  StreamInv'
<1>1. UNCHANGED <<inbox, pending_read, read_buf, read_done, got, readEnd>>
  BY DEF readVars
<1>2. StreamTypeOK'
  BY <1>1 DEF StreamInv, StreamTypeOK
<1>3. ReadSide'
  BY <1>1 DEF StreamInv, ReadSide
<1>4. SocketReleased'
  BY DEF StreamInv, SocketReleased
<1>5. QED
  BY <1>2, <1>3, <1>4 DEF StreamInv

\* Nothing is under way: what arti wrote is what the socket took.
LEMMA Idle ==
  ASSUME StreamInv, Free
  PROVE  /\ pending_write.data = <<>> /\ taken \in Seq(Byte) /\ accepted \in Seq(Byte)
         /\ Len(taken) \in Nat
         /\ ~reported => taken = accepted
         /\ write_closing => fin \/ reported
         /\ pending_write.state \notin {"failed", "waiting"}
<1>1. pending_write.state \notin {"failed", "waiting"}
  BY DEF Free
<1>2. pending_write.data = <<>> /\ taken \in Seq(Byte) /\ accepted \in Seq(Byte)
  BY <1>1 DEF StreamInv, StreamTypeOK, WriteSide
<1>3. ~reported => taken = accepted
  <2>1. ~reported => taken = accepted \o <<>>
    BY <1>1, <1>2 DEF StreamInv, WriteSide
  <2>2. QED
    BY <1>2, <2>1, Emptied
<1>4. write_closing => fin \/ reported
  BY <1>1 DEF StreamInv, WriteSide
<1>5. Len(taken) \in Nat
  BY <1>2
<1>6. QED
  BY <1>1, <1>2, <1>3, <1>4, <1>5

LEMMA NothingPends ==
  /\ NoPromise.state = "none" /\ NoPromise.data = <<>>
  /\ NoPromise \in [state : States \ {"chunk", "done"}, data : Seq(Byte)]
BY EmptySeq DEF NoPromise, Promise, States

LEMMA Waiting ==
  ASSUME NEW d \in Seq(Byte)
  PROVE  /\ Promise("waiting", d).state = "waiting" /\ Promise("waiting", d).data = d
         /\ Promise("waiting", d) \in [state : States \ {"chunk", "done"}, data : Seq(Byte)]
BY DEF Promise, States

LEMMA FindsOK == ASSUME StreamInv, PollFinds PROVE StreamInv'
<1>1. /\ pending_write.state = "failed" /\ pending_write' = NoPromise /\ reported' = TRUE
      /\ UNCHANGED <<outbox, write_closing, write_closed, taken, accepted, fin, assured>>
      /\ UNCHANGED <<peer, stage, socket, broken, readVars>>
  BY DEF PollFinds, WriteStep
<1>2. WriteSide'
  BY <1>1, NothingPends DEF StreamInv, WriteSide
<1>3. FailureReported'
  BY <1>1 DEF FailureReported
<1>4. QED
  BY <1>1, <1>2, <1>3, NothingPends, WriteFrame DEF StreamInv, StreamTypeOK

LEMMA WriteOK == ASSUME StreamInv, PollWrite PROVE StreamInv'
<1>1. /\ Free /\ ~write_closing /\ outbox # <<>> /\ outbox \in Seq(Seq(Byte))
      /\ pending_write' = Promise("waiting", outbox[1])
      /\ taken' = taken \o outbox[1] /\ outbox' = Tail(outbox)
      /\ UNCHANGED <<write_closing, write_closed, accepted, fin, reported, assured>>
      /\ UNCHANGED <<peer, stage, socket, broken, readVars>>
  BY DEF StreamInv, StreamTypeOK, PollWrite, WriteStep
<1>2. outbox[1] \in Seq(Byte) /\ outbox' \in Seq(Seq(Byte))
  BY <1>1, HeadTailProperties
<1>3. /\ pending_write'.state = "waiting" /\ pending_write'.data = outbox[1]
      /\ pending_write' \in [state : States \ {"chunk", "done"}, data : Seq(Byte)]
  BY <1>1, <1>2, Waiting
<1>4. taken' \in Seq(Byte)
  BY <1>1, <1>2, Idle, ConcatProperties
<1>5. ~reported => taken' = accepted' \o pending_write'.data
  BY <1>1, <1>3, Idle
<1>6. WriteSide'
  BY <1>1, <1>3, <1>5 DEF StreamInv, WriteSide
<1>7. FailureReported'
  BY <1>1 DEF StreamInv, FailureReported
<1>8. QED
  BY <1>1, <1>2, <1>3, <1>4, <1>6, <1>7, WriteFrame DEF StreamInv, StreamTypeOK

LEMMA FlushOK == ASSUME StreamInv, PollFlush PROVE StreamInv'
<1>1. /\ Free /\ pending_write' = NoPromise /\ assured' = Len(taken)
      /\ UNCHANGED <<outbox, write_closing, write_closed, taken, accepted, fin, reported>>
      /\ UNCHANGED <<peer, stage, socket, broken, readVars>>
  BY DEF PollFlush, WriteStep
<1>2. WriteSide'
  <2>1. ~reported => taken = accepted \o pending_write.data
    BY <1>1, Idle DEF StreamInv, WriteSide
  <2>2. QED
    BY <1>1, <2>1, Idle, NothingPends DEF StreamInv, WriteSide
<1>3. FailureReported'
  BY <1>1, Idle DEF StreamInv, FailureReported
<1>4. QED
  BY <1>1, <1>2, <1>3, Idle, NothingPends, WriteFrame DEF StreamInv, StreamTypeOK

LEMMA CloseAsksOK == ASSUME StreamInv, PollCloseAsks PROVE StreamInv'
<1>1. /\ Free /\ ~write_closing /\ write_closing' = TRUE
      /\ pending_write' = Promise("waiting", <<>>)
      /\ UNCHANGED <<outbox, write_closed, taken, accepted, fin, reported, assured>>
      /\ UNCHANGED <<peer, stage, socket, broken, readVars>>
  BY DEF PollCloseAsks, WriteStep
<1>2. /\ pending_write'.state = "waiting" /\ pending_write'.data = <<>>
      /\ pending_write' \in [state : States \ {"chunk", "done"}, data : Seq(Byte)]
  BY <1>1, Waiting, EmptySeq
<1>3. WriteSide'
  <2>1. ~reported => taken = accepted \o pending_write.data
    BY <1>1, Idle DEF StreamInv, WriteSide
  <2>2. QED
    BY <1>1, <1>2, <2>1, Idle DEF StreamInv, WriteSide
<1>4. FailureReported'
  BY <1>1 DEF StreamInv, FailureReported
<1>5. QED
  BY <1>1, <1>2, <1>3, <1>4, WriteFrame DEF StreamInv, StreamTypeOK

LEMMA CloseEndsOK == ASSUME StreamInv, PollCloseEnds PROVE StreamInv'
<1>1. /\ Free /\ write_closing /\ pending_write' = NoPromise
      /\ write_closed' = TRUE /\ assured' = Len(taken)
      /\ UNCHANGED <<outbox, write_closing, taken, accepted, fin, reported>>
      /\ UNCHANGED <<peer, stage, socket, broken, readVars>>
  BY DEF PollCloseEnds, WriteStep
<1>2. WriteSide'
  <2>1. ~reported => taken = accepted \o pending_write.data
    BY <1>1, Idle DEF StreamInv, WriteSide
  <2>2. QED
    BY <1>1, <2>1, Idle, NothingPends DEF StreamInv, WriteSide
<1>3. FailureReported'
  BY <1>1, Idle DEF FailureReported
<1>4. QED
  BY <1>1, <1>2, <1>3, Idle, NothingPends, WriteFrame DEF StreamInv, StreamTypeOK

LEMMA WriteSettlesOK == ASSUME StreamInv, WriteSettles PROVE StreamInv'
<1>1. /\ pending_write.state = "waiting" /\ pending_write.data \in Seq(Byte)
      /\ ~fin /\ taken \in Seq(Byte) /\ accepted \in Seq(Byte)
      /\ broken \in BOOLEAN /\ write_closing \in BOOLEAN
      /\ UNCHANGED <<outbox, write_closing, write_closed, taken, reported, assured>>
      /\ UNCHANGED <<peer, stage, socket, broken, readVars>>
  BY DEF StreamInv, StreamTypeOK, WriteSide, WriteSettles
<1>2. CASE broken
  <2>1. pending_write' = Promise("failed", <<>>) /\ accepted' = accepted /\ fin' = FALSE
    BY <1>1, <1>2 DEF WriteSettles
  <2>2. /\ pending_write'.state = "failed" /\ pending_write'.data = <<>>
        /\ pending_write' \in [state : States \ {"chunk", "done"}, data : Seq(Byte)]
    BY <2>1, EmptySeq DEF Promise, States
  <2>3. WriteSide'
    BY <1>1, <1>2, <2>1, <2>2 DEF StreamInv, WriteSide
  <2>4. FailureReported'
    BY <1>1, <2>1 DEF StreamInv, FailureReported
  <2>5. QED
    BY <1>1, <2>1, <2>2, <2>3, <2>4, WriteFrame DEF StreamInv, StreamTypeOK
<1>3. CASE ~broken
  <2>1. /\ pending_write' = Promise("ok", <<>>)
        /\ accepted' = accepted \o pending_write.data /\ fin' = write_closing
    BY <1>1, <1>3 DEF WriteSettles
  <2>2. /\ pending_write'.state = "ok" /\ pending_write'.data = <<>>
        /\ pending_write' \in [state : States \ {"chunk", "done"}, data : Seq(Byte)]
    BY <2>1, EmptySeq DEF Promise, States
  <2>3. ~reported /\ taken = accepted \o pending_write.data
    BY <1>1, <1>3 DEF StreamInv, WriteSide
  <2>4. accepted' \in Seq(Byte) /\ accepted' = taken /\ Len(accepted') >= Len(accepted)
    BY <1>1, <2>1, <2>3, ConcatProperties
  <2>5. taken' = accepted' \o pending_write'.data
    BY <1>1, <2>2, <2>4, Emptied
  <2>6. WriteSide'
    BY <1>1, <2>1, <2>2, <2>3, <2>5 DEF StreamInv, WriteSide
  <2>7. FailureReported'
    <3>1. assured \in Nat /\ Len(accepted) \in Nat /\ Len(accepted') \in Nat
      BY <1>1, <2>4 DEF StreamInv, StreamTypeOK
    <3>2. assured <= Len(accepted) /\ (write_closed => fin)
      BY <2>3 DEF StreamInv, FailureReported
    <3>3. assured' <= Len(accepted') /\ ~write_closed'
      BY <1>1, <2>4, <3>1, <3>2
    <3>4. QED
      BY <3>3 DEF FailureReported
  <2>8. QED
    BY <1>1, <2>1, <2>2, <2>4, <2>6, <2>7, WriteFrame DEF StreamInv, StreamTypeOK
<1>4. QED
  BY <1>2, <1>3

-----------------------------------------------------------------------------
LEMMA StreamStart == StreamInit => StreamInv
<1> SUFFICES ASSUME StreamInit PROVE StreamInv
  OBVIOUS
<1>1. /\ peer \in Inputs /\ peer.chunks \in Seq(Seq(Byte)) /\ outbox \in Seq(Seq(Byte))
      /\ inbox = peer.chunks
  BY StreamAssumption DEF StreamInit
<1>2. /\ NoPromise.state = "none" /\ NoPromise.data = <<>>
      /\ NoPromise \in [state : States \ {"ok"}, data : Seq(Byte)]
  BY EmptySeq DEF NoPromise, Promise, States
<1>3. <<>> \in Seq(Byte) /\ Len(<<>>) = 0
  BY EmptySeq
<1>4. StreamTypeOK
  BY <1>1, <1>2, <1>3, NothingPends DEF StreamInit, StreamTypeOK
<1>5. ReadSide
  <2>1. FlattenSeq(inbox) \in Seq(Byte)
    BY <1>1, FlatTyped
  <2>2. FlattenSeq(peer.chunks) = <<>> \o (<<>> \o (<<>> \o FlattenSeq(inbox)))
    BY <1>1, <2>1, Emptied
  <2>3. QED
    BY <1>2, <2>2 DEF StreamInit, ReadSide
<1>6. WriteSide
  <2>1. <<>> = <<>> \o <<>>
    BY <1>3, Emptied
  <2>2. QED
    BY <1>2, <2>1 DEF StreamInit, WriteSide
<1>7. FailureReported /\ SocketReleased
  BY <1>3 DEF StreamInit, FailureReported, SocketReleased
<1>8. QED
  BY <1>4, <1>5, <1>6, <1>7 DEF StreamInv

LEMMA StepOK == StreamInv /\ [StreamNext]_streamVars => StreamInv'
<1> SUFFICES ASSUME StreamInv, [StreamNext]_streamVars PROVE StreamInv'
  OBVIOUS
<1>1. CASE StreamReads
  BY <1>1, BufferedOK, TakesOK, AsksOK, ReadEndsOK, ReadSettlesOK DEF StreamReads
<1>2. CASE Writes
  BY <1>2, FindsOK, WriteOK, FlushOK, CloseAsksOK, CloseEndsOK, WriteSettlesOK DEF Writes
<1>3. QED
  BY <1>1, <1>2, ConnectOK DEF StreamNext

-----------------------------------------------------------------------------
(* JsProxyStream: both directions implement BytePipe                       *)

\* A part that is not empty makes a longer sequence.
LEMMA Longer ==
  ASSUME NEW a \in Seq(Byte), NEW b \in Seq(Byte)
  PROVE  /\ Len(a) <= Len(a \o b)
         /\ SubSeq(a, 1, Len(a)) = SubSeq(a \o b, 1, Len(a))
         /\ b # <<>> => a # a \o b
<1>1. a \o b \in Seq(Byte) /\ Len(a \o b) = Len(a) + Len(b) /\ Len(b) >= 0
  BY ConcatProperties
<1>2. SubSeq(a, 1, Len(a)) = SubSeq(a \o b, 1, Len(a))
  <2>1. CASE Len(a) = 0
    BY <2>1, SubSeqEmpty
  <2>2. CASE Len(a) > 0
    <3>1. 1 \in 1..Len(a) /\ Len(a) \in 1..Len(a)
      BY <2>2
    <3>2. QED
      BY <3>1, SubSeqOfConcat1
  <2>3. QED
    BY <2>1, <2>2
<1>3. b # <<>> => a # a \o b
  BY ConcatEqualIffEmpty
<1>4. QED
  BY <1>1, <1>2, <1>3

LEMMA ReadLonger ==
  ASSUME NEW a \in Seq(Byte), NEW b \in Seq(Byte)
  PROVE  /\ ReadPipe!IsPrefix(a, a \o b)
         /\ b # <<>> => ReadPipe!IsStrictPrefix(a, a \o b)
BY Longer DEF ReadPipe!IsPrefix, ReadPipe!IsStrictPrefix

LEMMA WriteLonger ==
  ASSUME NEW a \in Seq(Byte), NEW b \in Seq(Byte)
  PROVE  /\ WritePipe!IsPrefix(a, a \o b)
         /\ b # <<>> => WritePipe!IsStrictPrefix(a, a \o b)
BY Longer DEF WritePipe!IsPrefix, WritePipe!IsStrictPrefix

LEMMA ReadPipeInit == StreamInit => ReadPipe!Init
BY DEF StreamInit, ReadPipe!Init

LEMMA ReadPipeStep == StreamInv /\ StreamInv' /\ [StreamNext]_streamVars => [ReadPipe!Next]_ReadPipe!vars
<1> SUFFICES ASSUME StreamInv, StreamInv', [StreamNext]_streamVars
             PROVE  ReadPipe!Next \/ UNCHANGED ReadPipe!vars
  OBVIOUS
<1>1. CASE UNCHANGED <<peer, got, readEnd>>
  BY <1>1 DEF ReadPipe!vars
<1>2. peer' = peer /\ FlattenSeq(peer.chunks)' = FlattenSeq(peer.chunks)
  BY DEF StreamNext, streamVars, StreamReads, Writes, Connect, ConnectRejects, WrapFails, Opens, GivesUp, OpensLate,
         Drop, Breaks, Moves, PollReadBuffered, PollReadTakes, PollReadAsks,
         PollReadEnds, ReadSettles, ReadStep, PollFinds, PollWrite, PollFlush,
         PollCloseAsks, PollCloseEnds, WriteSettles, WriteStep
\* What was read stays a prefix of what the peer sent.
<1>3. ReadPipe!IsPrefix(got', FlattenSeq(peer.chunks))
  <2> DEFINE rest == read_buf \o (pending_read.data \o FlattenSeq(inbox))
  <2>1. FlattenSeq(peer.chunks) = got' \o rest'
    BY <1>2 DEF StreamInv, ReadSide
  <2>2. got' \in Seq(Byte) /\ rest' \in Seq(Byte)
    BY FlatTyped, ConcatProperties DEF StreamInv, StreamTypeOK
  <2> HIDE DEF rest
  <2>3. QED
    BY <2>1, <2>2, ReadLonger
<1>4. ASSUME NEW room \in Buffers, PollReadBuffered(room) PROVE ReadPipe!Next
  <2>1. /\ got \in Seq(Byte) /\ read_buf \in Seq(Byte) /\ read_buf # <<>>
        /\ got' = got \o Given(read_buf, room) /\ readEnd' = readEnd /\ readEnd = "open"
    BY <1>4 DEF StreamInv, StreamTypeOK, ReadSide, PollReadBuffered
  <2>2. Given(read_buf, room) \in Seq(Byte) /\ Given(read_buf, room) # <<>>
    BY <2>1, CutAt
  <2>3. ReadPipe!IsStrictPrefix(got, got')
    BY <2>1, <2>2, ReadLonger
  <2>4. QED
    BY <1>2, <1>3, <2>1, <2>3 DEF ReadPipe!Next, ReadPipe!Get
<1>5. ASSUME NEW room \in Buffers, PollReadTakes(room)
      PROVE  ReadPipe!Next \/ UNCHANGED ReadPipe!vars
  <2>1. /\ got \in Seq(Byte) /\ pending_read.data \in Seq(Byte)
        /\ got' = got \o Given(pending_read.data, room)
        /\ readEnd' = readEnd /\ readEnd = "open"
    BY <1>5 DEF StreamInv, StreamTypeOK, ReadSide, PollReadTakes
  <2>2. /\ Given(pending_read.data, room) \in Seq(Byte)
        /\ pending_read.data = <<>> => Given(pending_read.data, room) = <<>>
        /\ pending_read.data # <<>> => Given(pending_read.data, room) # <<>>
    BY <2>1, CutAt
  <2>3. CASE pending_read.data = <<>>
    <3>1. got' = got
      BY <2>1, <2>2, <2>3, Emptied
    <3>2. QED
      BY <1>1, <1>2, <2>1, <3>1
  <2>4. CASE pending_read.data # <<>>
    <3>1. ReadPipe!IsStrictPrefix(got, got')
      BY <2>1, <2>2, <2>4, ReadLonger
    <3>2. QED
      BY <1>2, <1>3, <2>1, <3>1 DEF ReadPipe!Next, ReadPipe!Get
  <2>5. QED
    BY <2>3, <2>4
<1>6. CASE PollReadEnds
  <2>1. got' = got /\ got \in Seq(Byte) /\ readEnd = "open"
    BY <1>6 DEF StreamInv, StreamTypeOK, ReadSide, PollReadEnds
  <2>2. CASE pending_read.state = "done"
    <3>1. readEnd' = "ended"
      BY <1>6, <2>2 DEF PollReadEnds
    <3>2. /\ read_buf = <<>> /\ pending_read.data = <<>> /\ inbox = <<>>
          /\ FlattenSeq(peer.chunks) =
               got \o (read_buf \o (pending_read.data \o FlattenSeq(inbox)))
      BY <1>6, <2>2 DEF StreamInv, ReadSide, PollReadEnds
    <3>3. FlattenSeq(peer.chunks) = got \o (<<>> \o (<<>> \o <<>>))
      BY <3>2, FlattenNone
    <3>4. got = FlattenSeq(peer.chunks)
      BY <2>1, <3>3, Emptied, EmptySeq
    <3>5. QED
      BY <1>2, <2>1, <3>1, <3>4 DEF ReadPipe!Next, ReadPipe!End
  <2>3. CASE pending_read.state # "done"
    <3>1. readEnd' = "broken"
      BY <1>6, <2>3 DEF PollReadEnds
    <3>2. QED
      BY <1>2, <2>1, <3>1 DEF ReadPipe!Next, ReadPipe!Break
  <2>4. QED
    BY <2>2, <2>3
<1>7. CASE PollReadAsks \/ ReadSettles \/ UNCHANGED streamVars
  BY <1>1, <1>7 DEF PollReadAsks, ReadSettles, ReadStep, streamVars, readVars
<1>8. CASE Writes
  BY <1>1, <1>8 DEF Writes, PollFinds, PollWrite, PollFlush, PollCloseAsks,
                    PollCloseEnds, WriteSettles, WriteStep, readVars
<1>9. CASE Connect \/ ConnectRejects \/ WrapFails \/ Opens \/ GivesUp \/ OpensLate \/ Drop \/ Breaks
  BY <1>1, <1>9 DEF Connect, ConnectRejects, WrapFails, Opens, GivesUp, OpensLate, Drop, Breaks,
                    Moves, readVars
<1>10. QED
  BY <1>4, <1>5, <1>6, <1>7, <1>8, <1>9 DEF StreamNext, StreamReads

LEMMA WritePipeInit == StreamInit => WritePipe!Init
BY DEF StreamInit, WritePipe!Init

LEMMA WritePipeStep == StreamInv /\ [StreamNext]_streamVars => [WritePipe!Next]_WritePipe!vars
<1> SUFFICES ASSUME StreamInv, [StreamNext]_streamVars
             PROVE  WritePipe!Next \/ UNCHANGED WritePipe!vars
  OBVIOUS
<1>1. CASE UNCHANGED <<taken, accepted, fin, reported>>
  BY <1>1 DEF WritePipe!vars
<1>2. CASE PollFinds
  <2>1. reported' = TRUE /\ UNCHANGED <<taken, accepted, fin>>
    BY <1>2 DEF PollFinds
  <2>2. CASE fin
    BY <2>1, <2>2 DEF WritePipe!vars
  <2>3. CASE ~fin /\ reported
    BY <2>1, <2>3 DEF WritePipe!vars
  <2>4. CASE ~fin /\ ~reported
    BY <2>1, <2>4 DEF WritePipe!Next, WritePipe!Break
  <2>5. QED
    BY <2>2, <2>3, <2>4
<1>3. CASE PollWrite
  <2>1. /\ taken \in Seq(Byte) /\ outbox[1] \in Seq(Byte) /\ ~fin
        /\ taken' = taken \o outbox[1] /\ UNCHANGED <<accepted, fin, reported>>
    BY <1>3 DEF StreamInv, StreamTypeOK, WriteSide, PollWrite
  <2>2. CASE outbox[1] = <<>>
    <3>1. taken' = taken
      BY <2>1, <2>2, Emptied
    <3>2. QED
      BY <1>1, <2>1, <3>1
  <2>3. CASE outbox[1] # <<>>
    <3>1. WritePipe!IsStrictPrefix(taken, taken')
      BY <2>1, <2>3, WriteLonger
    <3>2. QED
      BY <2>1, <3>1 DEF WritePipe!Next, WritePipe!Put
  <2>4. QED
    BY <2>2, <2>3
<1>4. CASE WriteSettles
  <2>1. /\ pending_write.state = "waiting" /\ ~fin /\ UNCHANGED <<taken, reported>>
        /\ fin = FALSE /\ write_closing \in BOOLEAN
        /\ taken \in Seq(Byte) /\ accepted \in Seq(Byte) /\ pending_write.data \in Seq(Byte)
    BY <1>4 DEF StreamInv, StreamTypeOK, WriteSide, WriteSettles
  <2>2. CASE broken
    <3>1. accepted' = accepted /\ fin' = FALSE
      BY <1>4, <2>1, <2>2 DEF WriteSettles
    <3>2. QED
      BY <1>1, <2>1, <3>1
  <2>3. CASE ~broken
    <3>1. /\ ~reported /\ taken = accepted \o pending_write.data
          /\ accepted' = taken /\ fin' = write_closing
      BY <1>4, <2>1, <2>3 DEF StreamInv, WriteSide, WriteSettles
    <3>2. CASE write_closing
      <4>1. accepted = taken
        BY <2>1, <3>1, <3>2, Emptied DEF StreamInv, WriteSide
      <4>2. QED
        BY <2>1, <3>1, <3>2, <4>1 DEF WritePipe!Next, WritePipe!End
    <3>3. CASE ~write_closing /\ pending_write.data = <<>>
      <4>1. accepted = taken
        BY <2>1, <3>1, <3>3, Emptied
      <4>2. fin' = FALSE
        BY <3>1, <3>3
      <4>3. QED
        BY <1>1, <2>1, <3>1, <4>1, <4>2
    <3>4. CASE ~write_closing /\ pending_write.data # <<>>
      <4>1. WritePipe!IsStrictPrefix(accepted, accepted')
        BY <2>1, <3>1, <3>4, WriteLonger
      <4>2. WritePipe!IsPrefix(accepted', taken)
        <5>1. taken \o <<>> = taken /\ <<>> \in Seq(Byte)
          BY <2>1, Emptied, EmptySeq
        <5>2. QED
          BY <2>1, <3>1, <5>1, WriteLonger
      <4>3. QED
        BY <2>1, <3>1, <3>4, <4>1, <4>2 DEF WritePipe!Next, WritePipe!Get
    <3>5. QED
      BY <3>2, <3>3, <3>4
  <2>4. QED
    BY <2>2, <2>3
<1>5. CASE PollFlush \/ PollCloseAsks \/ PollCloseEnds \/ UNCHANGED streamVars
  BY <1>1, <1>5 DEF PollFlush, PollCloseAsks, PollCloseEnds, streamVars, writeVars
<1>6. CASE StreamReads
  BY <1>1, <1>6 DEF StreamReads, PollReadBuffered, PollReadTakes, PollReadAsks,
                    PollReadEnds, ReadSettles, ReadStep, writeVars
<1>7. CASE Connect \/ ConnectRejects \/ WrapFails \/ Opens \/ GivesUp \/ OpensLate \/ Drop \/ Breaks
  BY <1>1, <1>7 DEF Connect, ConnectRejects, WrapFails, Opens, GivesUp, OpensLate, Drop, Breaks,
                    Moves, writeVars
<1>8. QED
  BY <1>2, <1>3, <1>4, <1>5, <1>6, <1>7 DEF StreamNext, Writes

-----------------------------------------------------------------------------
\* Every variable of the stream keeps its type (runtime.rs, JsProxyStream).
THEOREM StreamTypesHold == StreamSpec => []StreamTypeOK
<1>1. StreamInv => StreamTypeOK
  BY DEF StreamInv
<1>2. QED
  BY StreamStart, StepOK, <1>1, PTL DEF StreamSpec

\* No flush or close succeeds over bytes that are lost before a failure has
\* been reported (runtime.rs, poll_pending_write and poll_close).
THEOREM LossIsReported == StreamSpec => []FailureReported
<1>1. StreamInv => FailureReported
  BY DEF StreamInv
<1>2. QED
  BY StreamStart, StepOK, <1>1, PTL DEF StreamSpec

\* Except for one that opened after arti gave up on it, a socket is open only
\* while arti has its stream (runtime.rs, connect and drop).
THEOREM SocketsEnd == StreamSpec => []SocketReleased
<1>1. StreamInv => SocketReleased
  BY DEF StreamInv
<1>2. QED
  BY StreamStart, StepOK, <1>1, PTL DEF StreamSpec

\* For every peer, every sequence of writes and every size of buffers, both
\* directions are faithful pipes (runtime.rs, poll_read and poll_write).
THEOREM PipesAreFaithful == StreamSpec => ImplementsPipes
<1>1. StreamSpec => ReadPipe!Spec
  BY StreamStart, StepOK, ReadPipeInit, ReadPipeStep, PTL DEF StreamSpec, ReadPipe!Spec
<1>2. StreamSpec => WritePipe!Spec
  BY StreamStart, StepOK, WritePipeInit, WritePipeStep, PTL DEF StreamSpec, WritePipe!Spec
<1>3. QED
  BY <1>1, <1>2 DEF ImplementsPipes, ImplementsReadPipe, ImplementsWritePipe

-----------------------------------------------------------------------------
(* Least numbers                                                           *)

\* A set of numbers has a least one.
LEMMA FirstIs ==
  ASSUME NEW S \in SUBSET Nat, S # {}
  PROVE  First(S) \in S /\ \A j \in S : First(S) <= j
<1>1. IsWellFoundedOn(OpToRel(<, Nat), Nat)
  BY NatLessThanWellFounded
<1>2. PICK x \in S : \A y \in S : ~(<<y, x>> \in OpToRel(<, Nat))
  BY <1>1, WFMin
<1>3. ASSUME NEW y \in S PROVE x <= y
  <2>1. x \in Nat /\ y \in Nat
    OBVIOUS
  <2>2. y < x => <<y, x>> \in OpToRel(<, Nat)
    BY <2>1 DEF OpToRel
  <2>3. ~(y < x)
    BY <1>2, <2>2
  <2>4. QED
    BY <2>1, <2>3
<1>4. QED
  BY <1>2, <1>3 DEF First

-----------------------------------------------------------------------------
(* Recursion from each place to a later one                                *)

Solves(F, N, V, next, stop, go) ==
  \A i \in 1..N :
    /\ next[i] = 0 => F[i] = stop[i]
    /\ next[i] # 0 /\ F[next[i]] \in V => F[i] = go[i][F[next[i]]]

\* From each place of 1..N it goes on to a later one, or stops.
Forward(N, V, next, stop, go) ==
  /\ N \in Nat /\ stop \in [1..N -> V] /\ go \in [1..N -> [V -> V]]
  /\ \A i \in 1..N : next[i] = 0 \/ next[i] \in (i + 1)..N

\* There is one solution.
Solved(N, V, next, stop, go) ==
  \E g \in [1..N -> V] :
    /\ Solves(g, N, V, next, stop, go)
    /\ \A F : Solves(F, N, V, next, stop, go) => \A i \in 1..N : F[i] = g[i]

LEMMA OneSolution ==
  ASSUME NEW N, NEW V, NEW next, NEW stop, NEW go, Forward(N, V, next, stop, go)
  PROVE  Solved(N, V, next, stop, go)
<1> SUFFICES ASSUME N \in Nat, stop \in [1..N -> V], go \in [1..N -> [V -> V]],
                    \A i \in 1..N : next[i] = 0 \/ next[i] \in (i + 1)..N
             PROVE  Solved(N, V, next, stop, go)
  BY DEF Forward
<1> DEFINE Part(g, m) ==
             \A i \in (N + 1 - m)..N :
               g[i] = IF next[i] = 0 THEN stop[i] ELSE go[i][g[next[i]]]
           T == {m \in Nat : m <= N => \E g \in [(N + 1 - m)..N -> V] : Part(g, m)}
<1>1. 0 \in T
  <2>1. [i \in (N + 1 - 0)..N |-> 0] \in [(N + 1 - 0)..N -> V]
    OBVIOUS
  <2>2. Part([i \in (N + 1 - 0)..N |-> 0], 0)
    OBVIOUS
  <2>3. QED
    BY <2>1, <2>2
<1>2. ASSUME NEW m \in Nat, m \in T PROVE m + 1 \in T
  <2>1. SUFFICES ASSUME m + 1 <= N
                 PROVE \E g \in [(N + 1 - (m + 1))..N -> V] : Part(g, m + 1)
    OBVIOUS
  <2>2. PICK g \in [(N + 1 - m)..N -> V] : Part(g, m)
    BY <1>2, <2>1
  <2> DEFINE k == N - m
             e == IF next[k] = 0 THEN stop[k] ELSE go[k][g[next[k]]]
             h == [i \in k..N |-> IF i = k THEN e ELSE g[i]]
  <2>3. k \in 1..N /\ k + 1 = N + 1 - m /\ k = N + 1 - (m + 1)
    BY <2>1
  <2>4. e \in V
    <3>1. CASE next[k] = 0
      BY <2>3, <3>1
    <3>2. CASE next[k] # 0
      <4>1. next[k] \in (N + 1 - m)..N
        BY <2>3, <3>2
      <4>2. g[next[k]] \in V
        BY <4>1
      <4>3. go[k] \in [V -> V]
        BY <2>3
      <4>4. QED
        BY <3>2, <4>2, <4>3
    <3>3. QED
      BY <3>1, <3>2
  <2> HIDE DEF e
  <2>5. h \in [k..N -> V]
    <3>1. \A i \in k..N : i # k => i \in (N + 1 - m)..N
      BY <2>3
    <3>2. QED
      BY <2>4, <3>1
  <2>6. ASSUME NEW i \in k..N
        PROVE  h[i] = IF next[i] = 0 THEN stop[i] ELSE go[i][h[next[i]]]
    <3>1. i \in 1..N /\ k \in Int
      BY <2>3
    <3>2. next[i] # 0 => next[i] \in k..N /\ next[i] # k /\ h[next[i]] = g[next[i]]
      <4>1. next[i] # 0 => next[i] \in (i + 1)..N
        BY <3>1
      <4>2. next[i] # 0 => next[i] \in k..N /\ next[i] # k
        BY <3>1, <4>1
      <4>3. QED
        BY <4>2
    <3>3. CASE i = k
      <4>1. h[i] = e
        BY <3>3
      <4>2. QED
        BY <3>2, <3>3, <4>1 DEF e
    <3>4. CASE i # k
      <4>1. i \in (N + 1 - m)..N
        BY <2>3, <3>1, <3>4
      <4>2. h[i] = g[i]
        BY <3>4
      <4>3. g[i] = IF next[i] = 0 THEN stop[i] ELSE go[i][g[next[i]]]
        BY <2>2, <4>1
      <4> HIDE DEF h, k
      <4>4. QED
        BY <3>2, <4>2, <4>3
    <3>5. QED
      BY <3>3, <3>4
  <2> HIDE DEF h
  <2>7. Part(h, m + 1)
    BY <2>3, <2>6
  <2> HIDE DEF Part
  <2>8. QED
    BY <2>3, <2>5, <2>7
<1> HIDE DEF T
<1>3. Nat \subseteq T
  BY <1>1, <1>2, Induct
<1>4. PICK g \in [1..N -> V] : Part(g, N)
  <2>1. N \in T /\ N + 1 - N = 1
    BY <1>3
  <2>2. QED
    BY <2>1 DEF T
<1>5. \A i \in 1..N : g[i] = IF next[i] = 0 THEN stop[i] ELSE go[i][g[next[i]]]
  BY <1>4
<1> HIDE DEF Part
<1>6. Solves(g, N, V, next, stop, go)
  BY <1>5 DEF Solves
<1>7. ASSUME NEW F, Solves(F, N, V, next, stop, go)
      PROVE  \A i \in 1..N : F[i] = g[i]
  <2> DEFINE U == {m \in Nat : \A i \in 1..N : i >= N + 1 - m => F[i] = g[i]}
  <2>1. 0 \in U
    OBVIOUS
  <2>2. ASSUME NEW m \in Nat, m \in U PROVE m + 1 \in U
    <3>1. SUFFICES ASSUME NEW i \in 1..N, i >= N + 1 - (m + 1) PROVE F[i] = g[i]
      OBVIOUS
    <3>2. CASE next[i] = 0
      BY <1>5, <1>7, <3>2 DEF Solves
    <3>3. CASE next[i] # 0
      <4>1. next[i] \in (i + 1)..N
        BY <3>3
      <4>2. next[i] \in 1..N /\ next[i] >= N + 1 - m
        BY <3>1, <4>1
      <4>3. F[next[i]] = g[next[i]] /\ g[next[i]] \in V
        BY <2>2, <4>2
      <4>4. F[i] = go[i][F[next[i]]]
        BY <1>7, <3>3, <4>3 DEF Solves
      <4>5. QED
        BY <1>5, <3>3, <4>3, <4>4
    <3>4. QED
      BY <3>2, <3>3
  <2> HIDE DEF U
  <2>3. Nat \subseteq U
    BY <2>1, <2>2, Induct
  <2>4. N \in U
    BY <2>3
  <2>5. QED
    BY <2>4 DEF U
<1>8. QED
  BY <1>6, <1>7 DEF Solved

-----------------------------------------------------------------------------
(* Parts of a sequence, and what of an input is still to be decoded        *)

LEMMA SubSeqIs ==
  ASSUME NEW S, NEW s \in Seq(S), NEW m \in Nat, NEW n \in Int, m > 0, n <= Len(s)
  PROVE  /\ SubSeq(s, m, n) \in Seq(S)
         /\ Len(SubSeq(s, m, n)) = IF m <= n THEN n - m + 1 ELSE 0
         /\ \A i \in 1..(n - m + 1) : SubSeq(s, m, n)[i] = s[m + i - 1]
<1>1. \A i \in m..n : s[i] \in S
  BY ElementOfSeq, LenProperties
<1>2. QED
  BY <1>1, SubSeqProperties

\* s is seen from p on: a, which has been read, and b, which has not.
Views(s, p, a, b) ==
  /\ s \in Seq(Bytes) /\ a \in Seq(Bytes) /\ b \in Seq(Bytes)
  /\ p \in 1..(Len(s) + 1) /\ a \o b = SubSeq(s, p, Len(s))

\* Some of the beginning a of what s has from p on is taken away.
Consumed(s, p, a, b, n) ==
  /\ Len(a) + Len(b) = Len(s) + 1 - p
  /\ Views(s, p + n, SubSeq(a, n + 1, Len(a)), b)
  /\ SubSeq(a, 1, n) \in Seq(Bytes)
  /\ Len(SubSeq(a, n + 1, Len(a))) = Len(a) - n
  /\ SubSeq(a, 1, n) = SubSeq(s, p, p + n - 1)
  /\ \A i \in 1..Len(a) : a[i] = s[p + i - 1]

LEMMA Consume ==
  ASSUME NEW s, NEW p, NEW a, NEW b, Views(s, p, a, b), NEW n \in 0..Len(a)
  PROVE  Consumed(s, p, a, b, n)
<1>0. s \in Seq(Bytes) /\ a \in Seq(Bytes) /\ b \in Seq(Bytes)
      /\ p \in 1..(Len(s) + 1) /\ a \o b = SubSeq(s, p, Len(s))
  BY DEF Views
<1> USE <1>0
<1>1. Len(a) \in Nat /\ Len(b) \in Nat /\ Len(s) \in Nat
  BY LenProperties
<1>2. /\ Len(SubSeq(s, p, Len(s))) = Len(s) + 1 - p
      /\ \A i \in 1..(Len(s) + 1 - p) : SubSeq(s, p, Len(s))[i] = s[p + i - 1]
  BY <1>1, SubSeqIs
<1>3. /\ Len(a \o b) = Len(a) + Len(b)
      /\ \A i \in 1..(Len(a) + Len(b)) : (a \o b)[i] = IF i <= Len(a) THEN a[i] ELSE b[i - Len(a)]
  BY ConcatProperties
<1>4. Len(a) + Len(b) = Len(s) + 1 - p
  BY <1>2, <1>3
<1>5. \A i \in 1..(Len(a) + Len(b)) : s[p + i - 1] = IF i <= Len(a) THEN a[i] ELSE b[i - Len(a)]
  BY <1>2, <1>3, <1>4
<1>6. p + n \in 1..(Len(s) + 1)
  BY <1>1, <1>4
<1> DEFINE c == SubSeq(a, n + 1, Len(a))
           d == SubSeq(a, 1, n)
<1>7. /\ c \in Seq(Bytes) /\ Len(c) = Len(a) - n
      /\ \A i \in 1..(Len(a) - n) : c[i] = a[n + i]
  <2>1. n + 1 \in Nat /\ n + 1 > 0
    OBVIOUS
  <2>2. /\ c \in Seq(Bytes) /\ Len(c) = IF n + 1 <= Len(a) THEN Len(a) - (n + 1) + 1 ELSE 0
        /\ \A i \in 1..(Len(a) - (n + 1) + 1) : c[i] = a[(n + 1) + i - 1]
    BY <1>1, <2>1, SubSeqIs
  <2> HIDE DEF c
  <2>3. QED
    BY <1>1, <2>2
<1>8. /\ d \in Seq(Bytes) /\ Len(d) = n
      /\ \A i \in 1..n : d[i] = a[i]
  <2>2. /\ d \in Seq(Bytes) /\ Len(d) = IF 1 <= n THEN n - 1 + 1 ELSE 0
        /\ \A i \in 1..(n - 1 + 1) : d[i] = a[1 + i - 1]
    BY <1>1, SubSeqIs
  <2> HIDE DEF d
  <2>3. QED
    BY <1>1, <2>2
<1>9. c \o b = SubSeq(s, p + n, Len(s))
  <2> DEFINE r == SubSeq(s, p + n, Len(s))
  <2>1. /\ r \in Seq(Bytes) /\ Len(r) = Len(s) + 1 - (p + n)
        /\ \A i \in 1..(Len(s) + 1 - (p + n)) : r[i] = s[p + n + i - 1]
    <3>1. p + n \in Nat /\ p + n > 0
      OBVIOUS
    <3>2. /\ r \in Seq(Bytes) /\ Len(r) = IF p + n <= Len(s) THEN Len(s) - (p + n) + 1 ELSE 0
          /\ \A i \in 1..(Len(s) - (p + n) + 1) : r[i] = s[(p + n) + i - 1]
      BY <1>1, <3>1, SubSeqIs
    <3> HIDE DEF r
    <3>3. QED
      BY <1>1, <1>6, <3>2
  <2> HIDE DEF c, d, r
  <2>2. /\ c \o b \in Seq(Bytes) /\ Len(c \o b) = Len(c) + Len(b)
        /\ \A i \in 1..(Len(c) + Len(b)) : (c \o b)[i] = IF i <= Len(c) THEN c[i] ELSE b[i - Len(c)]
    BY <1>7, ConcatProperties
  <2>3. Len(c \o b) = Len(r)
    BY <1>1, <1>4, <1>7, <2>1, <2>2
  <2>4. ASSUME NEW i \in 1..Len(c \o b) PROVE (c \o b)[i] = r[i]
    <3>1. i \in 1..(Len(s) + 1 - (p + n)) /\ n + i \in 1..(Len(a) + Len(b)) /\ p + n + i - 1 = p + (n + i) - 1
      BY <1>1, <1>4, <1>7, <2>2
    <3>2. r[i] = IF n + i <= Len(a) THEN a[n + i] ELSE b[n + i - Len(a)]
      BY <1>5, <2>1, <3>1
    <3>3. CASE i <= Len(c)
      BY <1>1, <1>7, <2>2, <3>2, <3>3
    <3>4. CASE ~(i <= Len(c))
      <4>1. i - Len(c) = n + i - Len(a) /\ ~(n + i <= Len(a))
        BY <1>1, <1>7, <3>4
      <4>2. QED
        BY <1>1, <2>2, <3>2, <3>4, <4>1
    <3>5. QED
      BY <3>3, <3>4
  <2>5. c \o b = r
    BY <2>1, <2>2, <2>3, <2>4, SeqEqual
  <2>6. QED
    BY <2>5 DEF r
<1>10. d = SubSeq(s, p, p + n - 1)
  <2> DEFINE r == SubSeq(s, p, p + n - 1)
  <2>1. /\ r \in Seq(Bytes) /\ Len(r) = n
        /\ \A i \in 1..n : r[i] = s[p + i - 1]
    <3>1. p + n - 1 \in Int /\ p + n - 1 <= Len(s) /\ p \in Nat /\ p > 0
      BY <1>1, <1>6
    <3>2. /\ r \in Seq(Bytes) /\ Len(r) = IF p <= p + n - 1 THEN (p + n - 1) - p + 1 ELSE 0
          /\ \A i \in 1..((p + n - 1) - p + 1) : r[i] = s[p + i - 1]
      BY <3>1, SubSeqIs
    <3> HIDE DEF r
    <3>3. QED
      BY <3>1, <3>2
  <2> HIDE DEF c, d, r
  <2>2. ASSUME NEW i \in 1..n PROVE d[i] = r[i]
    <3>1. i \in 1..(Len(a) + Len(b)) /\ i <= Len(a)
      BY <1>1
    <3>2. s[p + i - 1] = a[i]
      BY <1>5, <3>1
    <3>3. d[i] = a[i] /\ r[i] = s[p + i - 1]
      BY <1>8, <2>1
    <3>4. QED
      BY <3>2, <3>3
  <2>3. d = r
    BY <1>8, <2>1, <2>2, SeqEqual
  <2>4. QED
    BY <2>3 DEF r
<1>11. \A i \in 1..Len(a) : a[i] = s[p + i - 1]
  BY <1>1, <1>5
<1>12. Views(s, p + n, c, b)
  <2> HIDE DEF c
  <2>1. QED
    BY <1>6, <1>7, <1>9 DEF Views
<1>13. QED
  BY <1>4, <1>7, <1>8, <1>10, <1>11, <1>12 DEF Consumed

LEMMA Regroup ==
  ASSUME NEW x \in Seq(Bytes), NEW y \in Seq(Bytes), NEW z \in Seq(Bytes)
  PROVE  (x \o y) \o z = x \o (y \o z)
BY ConcatAssociative

\* What is read from b goes behind a.
LEMMA Refill ==
  ASSUME NEW a \in Seq(Bytes), NEW b \in Seq(Bytes), NEW n \in 0..Len(b)
  PROVE  /\ SubSeq(b, 1, n) \in Seq(Bytes) /\ SubSeq(b, n + 1, Len(b)) \in Seq(Bytes)
         /\ Len(SubSeq(b, 1, n)) = n /\ Len(SubSeq(b, n + 1, Len(b))) = Len(b) - n
         /\ (a \o SubSeq(b, 1, n)) \o SubSeq(b, n + 1, Len(b)) = a \o b
<1> DEFINE c == SubSeq(b, 1, n)
           d == SubSeq(b, n + 1, Len(b))
<1>1. Len(b) \in Nat /\ n \in Nat /\ n <= Len(b)
  BY LenProperties
<1>2. c \in Seq(Bytes) /\ Len(c) = n
  BY <1>1, SubSeqIs
<1>3. d \in Seq(Bytes) /\ Len(d) = Len(b) - n
  <2>1. n + 1 \in Nat /\ n + 1 > 0
    BY <1>1
  <2>2. d \in Seq(Bytes) /\ Len(d) = IF n + 1 <= Len(b) THEN Len(b) - (n + 1) + 1 ELSE 0
    BY <1>1, <2>1, SubSeqIs
  <2> HIDE DEF d
  <2>3. QED
    BY <1>1, <2>2
<1>4. c \o d = b
  <2>1. 1 \in 1..(Len(b) + 1) /\ n \in (1 - 1)..Len(b) /\ Len(b) \in n..Len(b)
    BY <1>1
  <2>2. c \o d = SubSeq(b, 1, Len(b))
    BY <2>1, ConcatAdjacentSubSeq
  <2>3. QED
    BY <2>2, SubSeqFull
<1> HIDE DEF c, d
<1>5. (a \o c) \o d = a \o (c \o d)
  <2>1. a \in Seq(Bytes) /\ c \in Seq(Bytes) /\ d \in Seq(Bytes)
    BY <1>2, <1>3
  <2>2. QED
    BY <2>1, Regroup
<1>6. (a \o c) \o d = a \o b
  BY <1>4, <1>5
<1>7. /\ c \in Seq(Bytes) /\ d \in Seq(Bytes) /\ Len(c) = n /\ Len(d) = Len(b) - n
      /\ (a \o c) \o d = a \o b
  BY <1>2, <1>3, <1>6
<1>8. QED
  BY <1>7 DEF c, d

\* A stretch of s, seen in a, which begins at p of s.
LEMMA Stretch ==
  ASSUME NEW s \in Seq(Bytes), NEW a \in Seq(Bytes), NEW p \in 1..(Len(s) + 1),
         p + Len(a) <= Len(s) + 1, \A k \in 1..Len(a) : a[k] = s[p + k - 1],
         NEW i \in Nat, i > 0, NEW j \in Int, j <= Len(a)
  PROVE  SubSeq(a, i, j) = SubSeq(s, p + i - 1, p + j - 1)
<1> DEFINE c == SubSeq(a, i, j)
           d == SubSeq(s, p + i - 1, p + j - 1)
           n == IF i <= j THEN j - i + 1 ELSE 0
<1>1. Len(a) \in Nat /\ Len(s) \in Nat
  BY LenProperties
<1>2. /\ c \in Seq(Bytes) /\ Len(c) = n
      /\ \A k \in 1..(j - i + 1) : c[k] = a[i + k - 1]
  BY <1>1, SubSeqIs
<1>3. /\ d \in Seq(Bytes) /\ Len(d) = n
      /\ \A k \in 1..(j - i + 1) : d[k] = s[(p + i - 1) + k - 1]
  <2>1. p + i - 1 \in Nat /\ p + i - 1 > 0 /\ p + j - 1 \in Int /\ p + j - 1 <= Len(s)
    BY <1>1
  <2>2. /\ d \in Seq(Bytes)
        /\ Len(d) = IF p + i - 1 <= p + j - 1 THEN (p + j - 1) - (p + i - 1) + 1 ELSE 0
        /\ \A k \in 1..((p + j - 1) - (p + i - 1) + 1) : d[k] = s[(p + i - 1) + k - 1]
    BY <2>1, SubSeqIs
  <2>3. (p + j - 1) - (p + i - 1) + 1 = j - i + 1 /\ (p + i - 1 <= p + j - 1 <=> i <= j)
    BY <1>1
  <2> HIDE DEF d
  <2>4. QED
    BY <2>2, <2>3
<1> HIDE DEF c, d
<1>4. ASSUME NEW k \in 1..n PROVE c[k] = d[k]
  <2>1. k \in 1..(j - i + 1) /\ i + k - 1 \in 1..Len(a) /\ (p + i - 1) + k - 1 = p + (i + k - 1) - 1
    BY <1>1
  <2>2. a[i + k - 1] = s[p + (i + k - 1) - 1]
    BY <2>1
  <2>3. QED
    BY <1>2, <1>3, <2>1, <2>2
<1>5. c = d
  BY <1>2, <1>3, <1>4, SeqEqual
<1>6. QED
  BY <1>5 DEF c, d

\* Where a part is found in a, it is found in s.
LEMMA FoundIn ==
  ASSUME NEW s \in Seq(Bytes), NEW a \in Seq(Bytes), NEW p \in 1..(Len(s) + 1),
         p + Len(a) <= Len(s) + 1, \A k \in 1..Len(a) : a[k] = s[p + k - 1],
         NEW part, Len(part) \in Nat, Len(part) > 0, NEW i \in Nat, i > 0
  PROVE  i \in Found(a, part) <=>
           i + Len(part) - 1 <= Len(a) /\ p + i - 1 \in Found(s, part)
<1> DEFINE m == Len(part)
<1>1. Len(a) \in Nat /\ Len(s) \in Nat
  BY LenProperties
<1>2. i \in Found(a, part) <=> i + m - 1 <= Len(a) /\ SubSeq(a, i, i + m - 1) = part
  BY <1>1 DEF Found
<1>3. p + i - 1 \in Found(s, part)
        <=> (p + i - 1) + m - 1 <= Len(s) /\ SubSeq(s, p + i - 1, (p + i - 1) + m - 1) = part
  BY <1>1 DEF Found
<1>4. i + m - 1 <= Len(a) =>
        /\ SubSeq(a, i, i + m - 1) = SubSeq(s, p + i - 1, (p + i - 1) + m - 1)
        /\ (p + i - 1) + m - 1 <= Len(s)
  <2>1. SUFFICES ASSUME i + m - 1 <= Len(a)
                 PROVE /\ SubSeq(a, i, i + m - 1) = SubSeq(s, p + i - 1, (p + i - 1) + m - 1)
                       /\ (p + i - 1) + m - 1 <= Len(s)
    OBVIOUS
  <2> DEFINE j == i + m - 1
  <2>1a. j \in Int /\ j <= Len(a)
    BY <1>1, <2>1
  <2> HIDE DEF j
  <2>1b. SubSeq(a, i, j) = SubSeq(s, p + i - 1, p + j - 1)
    BY <2>1a, Stretch
  <2>2. SubSeq(a, i, i + m - 1) = SubSeq(s, p + i - 1, p + (i + m - 1) - 1)
    BY <2>1b DEF j
  <2>3. p + (i + m - 1) - 1 = (p + i - 1) + m - 1
    BY <1>1
  <2>4. QED
    BY <1>1, <2>1, <2>2, <2>3
<1> HIDE DEF m
<1>5. QED
  BY <1>2, <1>3, <1>4 DEF m

-----------------------------------------------------------------------------
(* Marks, sizes and digits                                                 *)

LEMMA Marks ==
  /\ CRLF \in Seq(Bytes) /\ Len(CRLF) = 2
  /\ Separator \in Seq(Bytes) /\ Len(Separator) = 4
<1>1. CRLF \in Seq(Bytes) /\ Len(CRLF) = 2
  BY DEF CRLF, Bytes
<1>2. CRLF \o CRLF \in Seq(Bytes) /\ Len(CRLF \o CRLF) = Len(CRLF) + Len(CRLF)
  BY <1>1, ConcatProperties
<1>3. QED
  BY <1>1, <1>2 DEF Separator

LEMMA FoundTyped ==
  ASSUME NEW s \in Seq(Bytes), NEW part, Len(part) \in Nat
  PROVE  /\ Found(s, part) \in SUBSET Nat
         /\ \A j \in Found(s, part) : j \in 1..(Len(s) - Len(part) + 1)
<1>1. Len(s) \in Nat
  BY LenProperties
<1>2. QED
  BY <1>1 DEF Found

Bounded(s, part, i) ==
  LET from == {j \in Found(s, part) : j >= i}
  IN /\ Found(s, part) \in SUBSET Nat /\ from \in SUBSET Nat
     /\ \A j \in Found(s, part) : j \in 1..(Len(s) - Len(part) + 1)
     /\ from # {} => /\ First(from) \in Found(s, part) /\ First(from) >= i
                     /\ \A j \in Found(s, part) : j >= i => First(from) <= j

LEMMA FoundBounds ==
  ASSUME NEW s \in Seq(Bytes), NEW part, Len(part) \in Nat, NEW i \in Nat
  PROVE  Bounded(s, part, i)
<1> DEFINE from == {j \in Found(s, part) : j >= i}
<1>1. Len(s) \in Nat
  BY LenProperties
<1>2. \A j \in Found(s, part) : j \in 1..(Len(s) - Len(part) + 1)
  BY DEF Found
<1>3. Found(s, part) \in SUBSET Nat /\ from \in SUBSET Nat
  BY <1>1, <1>2
<1>4. from # {} => First(from) \in from /\ \A j \in from : First(from) <= j
  BY <1>3, FirstIs
<1>5. QED
  BY <1>2, <1>3, <1>4 DEF Bounded

LEMMA DigitIsNat == \A d \in ToSet(Digits) : DigitValue(d) \in 0..3
<1> SUFFICES ASSUME NEW d \in ToSet(Digits) PROVE DigitValue(d) \in 0..3
  OBVIOUS
<1>1. DOMAIN Digits = 1..4
  BY DEF Digits
<1>2. \E i \in 1..4 : Digits[i] = d
  BY <1>1 DEF ToSet
<1> DEFINE i == CHOOSE i \in DOMAIN Digits : Digits[i] = d
<1>3. i \in 1..4
  BY <1>1, <1>2
<1> HIDE DEF i
<1>4. DigitValue(d) = i - 1
  BY DEF DigitValue, i
<1>5. QED
  BY <1>3, <1>4

LEMMA SizeIsNat ==
  ASSUME NEW text \in Seq(Bytes), IsSize(text)
  PROVE  SizeOf(text) \in Nat
<1> DEFINE n == Len(text)
           Part(f, m) == \A i \in 0..m : f[i] = IF i = 0 THEN 0
                                                ELSE 16 * f[i - 1] + DigitValue(text[i])
           T == {m \in Nat : m <= n => \E f \in [0..m -> Nat] : Part(f, m)}
<1>1. n \in Nat /\ \A i \in 1..n : DigitValue(text[i]) \in Nat
  BY LenProperties, DigitIsNat DEF IsSize
<1>2. 0 \in T
  <2>1. [i \in 0..0 |-> 0] \in [0..0 -> Nat] /\ Part([i \in 0..0 |-> 0], 0)
    OBVIOUS
  <2>2. QED
    BY <2>1
<1>3. ASSUME NEW m \in Nat, m \in T PROVE m + 1 \in T
  <2>1. SUFFICES ASSUME m + 1 <= n PROVE \E f \in [0..(m + 1) -> Nat] : Part(f, m + 1)
    <3> HIDE DEF Part
    <3>1. QED
      OBVIOUS
  <2>2. PICK f \in [0..m -> Nat] : Part(f, m)
    <3> HIDE DEF Part
    <3>1. m <= n
      BY <1>1, <2>1
    <3>2. QED
      BY <1>3, <3>1
  <2> DEFINE h == [i \in 0..(m + 1) |-> IF i = m + 1 THEN 16 * f[m] + DigitValue(text[m + 1]) ELSE f[i]]
  <2>3. DigitValue(text[m + 1]) \in Nat /\ f[m] \in Nat
    BY <1>1, <2>1
  <2>4. h \in [0..(m + 1) -> Nat]
    BY <2>3
  <2>5. ASSUME NEW i \in 0..(m + 1)
        PROVE  h[i] = IF i = 0 THEN 0 ELSE 16 * h[i - 1] + DigitValue(text[i])
    <3>1. CASE i = m + 1
      <4>1. i - 1 = m /\ i # 0 /\ h[i - 1] = f[m]
        BY <3>1
      <4>2. QED
        BY <3>1, <4>1
    <3>2. CASE i # m + 1
      <4>1. i \in 0..m /\ h[i] = f[i] /\ (i # 0 => h[i - 1] = f[i - 1])
        BY <3>2
      <4>2. QED
        BY <2>2, <4>1
    <3>3. QED
      BY <3>1, <3>2
  <2> HIDE DEF h
  <2>6. Part(h, m + 1)
    BY <2>5
  <2>7. QED
    BY <2>4, <2>6
<1> HIDE DEF T, n
<1>4. Nat \subseteq T
  BY <1>2, <1>3, Induct
<1>5. PICK f \in [0..n -> Nat] : Part(f, n)
  <2> HIDE DEF Part
  <2>1. n \in T /\ n <= n
    BY <1>1, <1>4
  <2>2. QED
    BY <2>1 DEF T
<1> DEFINE IsRec(g) == g = [i \in 0..n |-> IF i = 0 THEN 0 ELSE 16 * g[i - 1] + DigitValue(text[i])]
           F == CHOOSE g : IsRec(g)
<1>6. IsRec(f)
  BY <1>5
<1>7. IsRec(F)
  BY <1>6
<1>8. SizeOf(text) = F[n]
  BY DEF SizeOf, n
<1> HIDE DEF F
<1>9. \A i \in 0..n : F[i] = IF i = 0 THEN 0 ELSE 16 * F[i - 1] + DigitValue(text[i])
  BY <1>7
<1> DEFINE U == {m \in Nat : m <= n => F[m] \in Nat}
<1>10. 0 \in U
  BY <1>1, <1>9
<1>11. ASSUME NEW m \in Nat, m \in U PROVE m + 1 \in U
  <2>1. SUFFICES ASSUME m + 1 <= n PROVE F[m + 1] \in Nat
    OBVIOUS
  <2>2. m + 1 \in 0..n /\ m + 1 # 0 /\ (m + 1) - 1 = m /\ m + 1 \in 1..n
    BY <1>1, <2>1
  <2>3. F[m + 1] = 16 * F[m] + DigitValue(text[m + 1])
    BY <1>9, <2>2
  <2>4. F[m] \in Nat /\ DigitValue(text[m + 1]) \in Nat
    BY <1>1, <1>11, <2>1, <2>2
  <2>5. QED
    BY <2>3, <2>4
<1> HIDE DEF U
<1>12. Nat \subseteq U
  BY <1>10, <1>11, Induct
<1>13. QED
  BY <1>1, <1>8, <1>12 DEF U

\* SizeOf of a text of one digit.
LEMMA OneDigit ==
  ASSUME NEW d \in ToSet(Digits) PROVE SizeOf(<<d>>) = DigitValue(d)
<1> DEFINE text == <<d>>
           IsRec(g) == g = [i \in 0..1 |-> IF i = 0 THEN 0 ELSE 16 * g[i - 1] + DigitValue(text[i])]
           F == CHOOSE g : IsRec(g)
           f == [i \in 0..1 |-> IF i = 0 THEN 0 ELSE DigitValue(d)]
<1>1. DigitValue(d) \in Nat
  BY DigitIsNat
<1>2. IsRec(f)
  <2>1. \A i \in 0..1 : f[i] = IF i = 0 THEN 0 ELSE 16 * f[i - 1] + DigitValue(text[i])
    BY <1>1
  <2>2. QED
    BY <2>1
<1>3. IsRec(F)
  BY <1>2
<1>4. SizeOf(text) = F[1]
  BY DEF SizeOf
<1> HIDE DEF F
<1>5. F[0] = 0 /\ F[1] = 16 * F[0] + DigitValue(text[1])
  BY <1>3
<1>6. QED
  BY <1>1, <1>4, <1>5

LEMMA TrimTyped ==
  ASSUME NEW s \in Seq(Bytes) PROVE Trim(s) \in Seq(Bytes)
<1> DEFINE text == {i \in DOMAIN s : IsText(s[i])}
           m == First(text)
           n == CHOOSE i \in text : \A j \in text : j <= i
<1>1. CASE text = {}
  BY <1>1, EmptySeq DEF Trim
<1>2. CASE text # {}
  <2>1. DOMAIN s = 1..Len(s) /\ Len(s) \in Nat
    BY LenProperties
  <2>2. m \in text
    <3>1. text \in SUBSET Nat
      BY <2>1
    <3> HIDE DEF text
    <3>2. QED
      BY <1>2, <3>1, FirstIs
  <2>3. n \in text
    <3> DEFINE back == {Len(s) - i : i \in text}
    <3>1. back \in SUBSET Nat /\ back # {}
      BY <1>2, <2>1
    <3>2. First(back) \in back /\ \A j \in back : First(back) <= j
      BY <3>1, FirstIs
    <3>3. PICK i \in text : First(back) = Len(s) - i
      BY <3>2
    <3>4. ASSUME NEW j \in text PROVE j <= i
      <4>1. Len(s) - j \in back
        OBVIOUS
      <4>2. Len(s) - i <= Len(s) - j
        BY <3>2, <3>3, <4>1
      <4>3. QED
        BY <2>1, <4>2
    <3>5. QED
      BY <3>4
  <2>4. Trim(s) = SubSeq(s, m, n)
    BY <1>2 DEF Trim
  <2> HIDE DEF m, n
  <2>5. m \in Nat /\ m > 0 /\ n \in Int /\ n <= Len(s)
    BY <2>1, <2>2, <2>3
  <2>6. QED
    BY <2>4, <2>5, SubSeqIs
<1>3. QED
  BY <1>1, <1>2

LEMMA SizeTextTyped ==
  ASSUME NEW s \in Seq(Bytes) PROVE SizeText(s) \in Seq(Bytes)
<1> DEFINE mark == <<"SEMI">>
           extension == Found(s, mark)
<1>1. Len(mark) = 1 /\ Len(mark) \in Nat /\ Len(s) \in Nat
  BY LenProperties
<1>2. extension \in SUBSET Nat /\ \A j \in extension : j \in 1..Len(s)
  <2> HIDE DEF mark
  <2>1. Found(s, mark) \in SUBSET Nat /\ \A j \in Found(s, mark) : j \in 1..(Len(s) - Len(mark) + 1)
    BY <1>1, FoundTyped
  <2>2. QED
    BY <1>1, <2>1
<1>3. extension # {} => First(extension) \in 1..Len(s)
  BY <1>2, FirstIs
<1>4. extension # {} => SubSeq(s, 1, First(extension) - 1) \in Seq(Bytes)
  <2>1. SUFFICES ASSUME extension # {} PROVE SubSeq(s, 1, First(extension) - 1) \in Seq(Bytes)
    OBVIOUS
  <2> DEFINE n == First(extension) - 1
  <2>2. n \in Int /\ n <= Len(s) /\ 1 \in Nat /\ 1 > 0
    <3> DEFINE k == First(extension)
    <3>1. k \in 1..Len(s)
      BY <1>3, <2>1
    <3> HIDE DEF k, extension
    <3>2. k - 1 \in Int /\ k - 1 <= Len(s)
      BY <1>1, <3>1
    <3>3. QED
      BY <3>2 DEF k
  <2> HIDE DEF n, extension
  <2>3. SubSeq(s, 1, n) \in Seq(Bytes)
    BY <2>2, SubSeqIs
  <2>4. QED
    BY <2>3 DEF n
<1>5. QED
  BY <1>4, TrimTyped DEF SizeText

-----------------------------------------------------------------------------
(* ChunkedFrom satisfies its recursion                                     *)

LEMMA LessEnd ==
  ASSUME NEW s \in Seq(Bytes), NEW m \in Nat, NEW n \in Int, m > 0
  PROVE  SubSeq(s, m, Smaller(n, Len(s))) \in Seq(Bytes)
<1>1. Smaller(n, Len(s)) \in Int /\ Smaller(n, Len(s)) <= Len(s)
  BY LenProperties DEF Smaller
<1>2. QED
  BY <1>1, SubSeqIs

LEMMA ChunkTyped ==
  ASSUME NEW s \in Seq(Bytes), NEW i \in 1..(Len(s) + 1)
  PROVE  LET c == ChunkAt(s, i)
         IN /\ c.data \in Seq(Bytes) /\ c.whole \in BOOLEAN
            /\ c.next = 0 \/ c.next \in (i + 1)..(Len(s) + 1)
<1> DEFINE eol == {j \in Found(s, CRLF) : j >= i}
           f == First(eol)
           start == f + 2
           text == SizeText(SubSeq(s, i, f - 1))
           n == SizeOf(text)
           after == start + n
           Stop(data, whole) == [data |-> data, next |-> 0, whole |-> whole]
           GoOn(data, next) == [data |-> data, next |-> next, whole |-> FALSE]
<1>0. Len(s) \in Nat /\ Len(CRLF) = 2 /\ Len(CRLF) \in Nat
  BY LenProperties, Marks
<1>1. ChunkAt(s, i) =
        IF eol = {} THEN Stop(<<>>, FALSE)
        ELSE IF text = <<>> THEN GoOn(<<>>, start)
        ELSE IF ~IsSize(text) THEN Stop(<<>>, FALSE)
        ELSE IF n = 0 THEN Stop(<<>>, TRUE)
        ELSE IF after < Len(s) /\ SubSeq(s, after, after + 1) = CRLF
             THEN GoOn(SubSeq(s, start, after - 1), after + 2)
        ELSE Stop(SubSeq(s, start, Smaller(after - 1, Len(s))), FALSE)
  BY DEF ChunkAt
<1>2. eol # {} => f \in i..(Len(s) - 1)
  <2>1. SUFFICES ASSUME eol # {} PROVE f \in i..(Len(s) - 1)
    OBVIOUS
  <2>2. f \in Found(s, CRLF) /\ f >= i
    BY <1>0, <2>1, FoundBounds DEF Bounded
  <2>3. \A j \in Found(s, CRLF) : j \in 1..(Len(s) - Len(CRLF) + 1)
    BY <1>0, FoundTyped
  <2>4. QED
    BY <1>0, <2>2, <2>3
<1>3. eol # {} => text \in Seq(Bytes)
  <2>1. SUFFICES ASSUME eol # {} PROVE text \in Seq(Bytes)
    OBVIOUS
  <2>2. f \in i..(Len(s) - 1)
    BY <1>2, <2>1
  <2> HIDE DEF f
  <2>3. f - 1 \in Int /\ f - 1 <= Len(s) /\ i \in Nat /\ i > 0
    BY <1>0, <2>2
  <2>4. SubSeq(s, i, f - 1) \in Seq(Bytes)
    BY <2>3, SubSeqIs
  <2>5. QED
    BY <2>4, SizeTextTyped
<1>4. eol # {} /\ IsSize(text) => n \in Nat
  BY <1>3, SizeIsNat
<1>5. <<>> \in Seq(Bytes)
  BY EmptySeq
<1> HIDE DEF eol, f, text, n
<1>6. CASE eol = {} \/ text = <<>> \/ ~IsSize(text) \/ n = 0
  BY <1>0, <1>1, <1>2, <1>5, <1>6
<1>7. CASE eol # {} /\ text # <<>> /\ IsSize(text) /\ n # 0
  <2>1. start \in Nat /\ start > i /\ n \in Nat /\ n > 0 /\ after \in Nat /\ after > start
    BY <1>0, <1>2, <1>4, <1>7
  <2>2. SubSeq(s, start, Smaller(after - 1, Len(s))) \in Seq(Bytes)
    BY <2>1, LessEnd
  <2>3. after < Len(s) => SubSeq(s, start, after - 1) \in Seq(Bytes)
    <3> HIDE DEF start, after
    <3>1. after < Len(s) => after - 1 \in Int /\ after - 1 <= Len(s)
      BY <1>0, <2>1
    <3>2. QED
      BY <2>1, <3>1, SubSeqIs
  <2>4. after < Len(s) => after + 2 \in (i + 1)..(Len(s) + 1)
    BY <1>0, <2>1
  <2> HIDE DEF start, after
  <2>5. CASE after < Len(s) /\ SubSeq(s, after, after + 1) = CRLF
    BY <1>1, <1>7, <2>3, <2>4, <2>5
  <2>6. CASE ~(after < Len(s) /\ SubSeq(s, after, after + 1) = CRLF)
    BY <1>1, <1>7, <2>2, <2>6
  <2>7. QED
    BY <2>5, <2>6
<1>8. QED
  BY <1>6, <1>7

Body == [body : Seq(Bytes), whole : BOOLEAN]

\* ChunkedFrom satisfies its recursion.
LEMMA ChunkedStep ==
  ASSUME NEW s \in Seq(Bytes), NEW i \in 1..(Len(s) + 1)
  PROVE  LET c == ChunkAt(s, i)
             F == ChunkedFrom(s)
         IN /\ F[i] \in Body
            /\ F[i] = IF c.next = 0 THEN [body |-> c.data, whole |-> c.whole]
                      ELSE [body |-> c.data \o F[c.next].body, whole |-> F[c.next].whole]
<1> DEFINE N == Len(s) + 1
           next == [j \in 1..N |-> ChunkAt(s, j).next]
           stop == [j \in 1..N |-> [body |-> ChunkAt(s, j).data, whole |-> ChunkAt(s, j).whole]]
           go == [j \in 1..N |-> [v \in Body |->
                    [body |-> ChunkAt(s, j).data \o v.body, whole |-> v.whole]]]
           Rec(f, j) == IF ChunkAt(s, j).next = 0
                        THEN [body |-> ChunkAt(s, j).data, whole |-> ChunkAt(s, j).whole]
                        ELSE [body |-> ChunkAt(s, j).data \o f[ChunkAt(s, j).next].body,
                              whole |-> f[ChunkAt(s, j).next].whole]
<1>1. N \in Nat /\ i \in 1..N
  BY LenProperties
<1>2. ASSUME NEW j \in 1..N
      PROVE  /\ ChunkAt(s, j).data \in Seq(Bytes) /\ ChunkAt(s, j).whole \in BOOLEAN
             /\ ChunkAt(s, j).next = 0 \/ ChunkAt(s, j).next \in (j + 1)..N
  BY ChunkTyped
<1>3. stop \in [1..N -> Body]
  BY <1>2 DEF Body
<1>4. go \in [1..N -> [Body -> Body]]
  <2>1. ASSUME NEW j \in 1..N, NEW v \in Body
        PROVE  [body |-> ChunkAt(s, j).data \o v.body, whole |-> v.whole] \in Body
    <3>1. v.body \in Seq(Bytes) /\ v.whole \in BOOLEAN
      BY DEF Body
    <3>2. ChunkAt(s, j).data \o v.body \in Seq(Bytes)
      BY <1>2, <3>1, ConcatProperties
    <3>3. QED
      BY <3>1, <3>2 DEF Body
  <2>2. QED
    BY <2>1
<1>5. \A j \in 1..N : next[j] = 0 \/ next[j] \in (j + 1)..N
  BY <1>2
<1> HIDE DEF next, stop, go, N
<1>5a. Forward(N, Body, next, stop, go)
  BY <1>1, <1>3, <1>4, <1>5 DEF Forward
<1>5b. Solved(N, Body, next, stop, go)
  BY <1>5a, OneSolution
<1>6. PICK g \in [1..N -> Body] :
        /\ Solves(g, N, Body, next, stop, go)
        /\ \A F : Solves(F, N, Body, next, stop, go) => \A j \in 1..N : F[j] = g[j]
  BY <1>5b DEF Solved
<1>7. ASSUME NEW j \in 1..N PROVE g[j] = Rec(g, j)
  <2>1. CASE next[j] = 0
    <3>1. g[j] = stop[j]
      BY <1>6, <2>1 DEF Solves
    <3>2. QED
      BY <2>1, <3>1 DEF next, stop
  <2>2. CASE next[j] # 0
    <3>1. g[next[j]] \in Body
      BY <1>1, <1>5, <2>2
    <3>2. g[j] = go[j][g[next[j]]]
      BY <1>6, <2>2, <3>1 DEF Solves
    <3>3. QED
      BY <2>2, <3>1, <3>2 DEF next, go
  <2>3. QED
    BY <2>1, <2>2
<1> DEFINE IsRec(f) == f = [j \in 1..(Len(s) + 1) |-> Rec(f, j)]
           G == CHOOSE f : IsRec(f)
<1>8. IsRec(g)
  <2> HIDE DEF Rec
  <2>1. QED
    BY <1>7 DEF N
<1>9. IsRec(G)
  <2> HIDE DEF IsRec
  <2>1. QED
    BY <1>8
<1>10. ChunkedFrom(s) = G
  BY DEF ChunkedFrom
<1> HIDE DEF G
<1>11. \A j \in 1..N : G[j] = Rec(G, j)
  <2> HIDE DEF Rec
  <2>1. QED
    BY <1>9 DEF N
<1>12. Solves(G, N, Body, next, stop, go)
  <2> SUFFICES ASSUME NEW j \in 1..N
               PROVE /\ next[j] = 0 => G[j] = stop[j]
                     /\ next[j] # 0 /\ G[next[j]] \in Body => G[j] = go[j][G[next[j]]]
    BY DEF Solves
  <2>1. G[j] = Rec(G, j) /\ next[j] = ChunkAt(s, j).next
    BY <1>11 DEF next
  <2>2. next[j] = 0 => G[j] = stop[j]
    BY <2>1 DEF stop
  <2>3. next[j] # 0 /\ G[next[j]] \in Body => G[j] = go[j][G[next[j]]]
    BY <2>1 DEF go
  <2>4. QED
    BY <2>2, <2>3
<1>13. G[i] = g[i]
  BY <1>1, <1>6, <1>12
<1>14. G[i] \in Body
  BY <1>1, <1>6, <1>13
<1>15. G[i] = Rec(G, i)
  BY <1>1, <1>11
<1>16. QED
  BY <1>10, <1>14, <1>15

-----------------------------------------------------------------------------
(* FinalFrom satisfies its recursion                                       *)

\* Induction from the end to the beginning.
LEMMA Backward ==
  ASSUME NEW N \in Nat, NEW S, \A i \in 1..N : (\A j \in (i + 1)..N : j \in S) => i \in S
  PROVE  1..N \subseteq S
<1> DEFINE T == {m \in Nat : \A i \in 1..N : i >= N + 1 - m => i \in S}
<1>1. 0 \in T
  OBVIOUS
<1>2. ASSUME NEW m \in Nat, m \in T PROVE m + 1 \in T
  <2>1. SUFFICES ASSUME NEW i \in 1..N, i >= N + 1 - (m + 1) PROVE i \in S
    OBVIOUS
  <2>2. \A j \in (i + 1)..N : j \in 1..N /\ j >= N + 1 - m
    BY <2>1
  <2>3. QED
    BY <1>2, <2>2
<1> HIDE DEF T
<1>3. N \in T
  BY <1>1, <1>2, Induct
<1>4. QED
  BY <1>3 DEF T

LEMMA HeadTyped ==
  ASSUME NEW s \in Seq(Bytes), NEW i \in 1..(Len(s) + 1)
  PROVE  LET h == HeadAt(s, i)
             ends == {j \in Found(s, Separator) : j >= i}
         IN /\ h.ok \in BOOLEAN /\ h.interim \in BOOLEAN
            /\ h.next \in 1..(Len(s) + 1)
            /\ h.ok <=> /\ ends # {} /\ IsHead(SubSeq(s, i, First(ends) - 1))
                        /\ Heads[SubSeq(s, i, First(ends) - 1)[1]].status # 101
            /\ h.ok => /\ h.name = SubSeq(s, i, First(ends) - 1)[1] /\ h.name \in DOMAIN Heads
                       /\ Heads[h.name].status # 101
                       /\ h.next = First(ends) + 4
                       /\ h.next - 4 \in Found(s, Separator) /\ h.next - 4 >= i
            /\ h.interim <=> h.ok /\ Heads[h.name].status < 200
<1> DEFINE ends == {j \in Found(s, Separator) : j >= i}
           f == First(ends)
           head == SubSeq(s, i, f - 1)
           Is(ok, interim, name, next) ==
             [ok |-> ok, interim |-> interim, name |-> name, next |-> next]
<1>1. HeadAt(s, i) =
        IF ends = {} THEN Is(FALSE, FALSE, "", i)
        ELSE IF ~IsHead(head) \/ Heads[head[1]].status = 101 THEN Is(FALSE, FALSE, "", f + 4)
        ELSE Is(TRUE, Heads[head[1]].status < 200, head[1], f + 4)
  BY DEF HeadAt
<1>2. Len(s) \in Nat /\ Len(Separator) = 4 /\ Len(Separator) \in Nat
  BY LenProperties, Marks
<1>3. ends # {} => f \in Found(s, Separator) /\ f >= i /\ f \in 1..(Len(s) - 3)
  <2>1. SUFFICES ASSUME ends # {} PROVE f \in Found(s, Separator) /\ f >= i /\ f \in 1..(Len(s) - 3)
    OBVIOUS
  <2>2. f \in Found(s, Separator) /\ f >= i
    BY <1>2, <2>1, FoundBounds DEF Bounded
  <2>3. \A j \in Found(s, Separator) : j \in 1..(Len(s) - Len(Separator) + 1)
    BY <1>2, FoundTyped
  <2>4. QED
    BY <1>2, <2>2, <2>3
<1>4. IsHead(head) => head[1] \in DOMAIN Heads
  BY DEF IsHead
<1> DEFINE h == HeadAt(s, i)
<1> HIDE DEF ends, f, head
<1>5. CASE ends = {}
  <2>1. h = Is(FALSE, FALSE, "", i)
    BY <1>1, <1>5
  <2> HIDE DEF h
  <2>2. h.ok = FALSE /\ h.interim = FALSE /\ h.next = i
    BY <2>1
  <2>3. QED
    BY <1>2, <1>5, <2>2 DEF ends, f, head, h
<1>6. CASE ends # {} /\ (~IsHead(head) \/ Heads[head[1]].status = 101)
  <2>1. h = Is(FALSE, FALSE, "", f + 4)
    BY <1>1, <1>6
  <2> HIDE DEF h
  <2>2. h.ok = FALSE /\ h.interim = FALSE /\ h.next = f + 4
    BY <2>1
  <2>3. h.next \in 1..(Len(s) + 1)
    BY <1>2, <1>3, <1>6, <2>2
  <2>4. QED
    BY <1>6, <2>2, <2>3 DEF ends, f, head, h
<1>7. CASE ends # {} /\ IsHead(head) /\ Heads[head[1]].status # 101
  <2>1. h = Is(TRUE, Heads[head[1]].status < 200, head[1], f + 4)
    BY <1>1, <1>7
  <2> HIDE DEF h
  <2>2. h.ok = TRUE /\ h.name = head[1] /\ h.next = f + 4 /\ h.interim \in BOOLEAN
    BY <2>1
  <2>3. h.interim <=> Heads[h.name].status < 200
    BY <2>1
  <2>4. h.next \in 1..(Len(s) + 1) /\ h.next - 4 = f
    BY <1>2, <1>3, <1>7, <2>2
  <2>5. head[1] \in DOMAIN Heads /\ f \in Found(s, Separator) /\ f >= i
    BY <1>3, <1>4, <1>7
  <2>6. /\ h.ok \in BOOLEAN /\ h.ok
        /\ h.name \in DOMAIN Heads /\ Heads[h.name].status # 101
        /\ h.next - 4 \in Found(s, Separator) /\ h.next - 4 >= i
        /\ h.interim <=> h.ok /\ Heads[h.name].status < 200
    <3>1. h.name \in DOMAIN Heads /\ Heads[h.name].status # 101
      BY <1>7, <2>2, <2>5
    <3>2. h.next - 4 \in Found(s, Separator) /\ h.next - 4 >= i
      BY <2>4, <2>5, Zenon
    <3>3. h.ok
      BY <2>2
    <3>4. QED
      BY <2>3, <3>1, <3>2, <3>3
  <2>7. QED
    BY <1>7, <2>2, <2>4, <2>6 DEF ends, f, head, h
<1>8. QED
  BY <1>5, <1>6, <1>7

\* FinalFrom satisfies its recursion.
LEMMA FinalStep ==
  ASSUME NEW s \in Seq(Bytes), NEW i \in 1..(Len(s) + 1)
  PROVE  FinalFrom(s)[i] = IF HeadAt(s, i).interim THEN FinalFrom(s)[HeadAt(s, i).next]
                           ELSE HeadAt(s, i)
<1> DEFINE N == Len(s) + 1
           V == {HeadAt(s, j) : j \in 1..N}
           next == [j \in 1..N |-> IF HeadAt(s, j).interim THEN HeadAt(s, j).next ELSE 0]
           stop == [j \in 1..N |-> HeadAt(s, j)]
           go == [j \in 1..N |-> [v \in V |-> v]]
           Rec(f, j) == IF HeadAt(s, j).interim THEN f[HeadAt(s, j).next] ELSE HeadAt(s, j)
<1>1. N \in Nat /\ i \in 1..N
  BY LenProperties
<1>2. ASSUME NEW j \in 1..N
      PROVE  HeadAt(s, j).interim => HeadAt(s, j).next \in (j + 1)..N
  <2>1. Len(s) \in Nat /\ j \in 1..(Len(s) + 1)
    BY LenProperties
  <2>2. /\ HeadAt(s, j).next \in 1..(Len(s) + 1)
        /\ HeadAt(s, j).interim => HeadAt(s, j).next - 4 >= j
    BY HeadTyped
  <2>3. QED
    BY <2>1, <2>2
<1>3. stop \in [1..N -> V]
  OBVIOUS
<1>4. go \in [1..N -> [V -> V]]
  OBVIOUS
<1>5. \A j \in 1..N : next[j] = 0 \/ next[j] \in (j + 1)..N
  BY <1>2
<1>5c. \A j \in 1..N : next[j] # 0 <=> HeadAt(s, j).interim
  BY <1>1, <1>2
<1> HIDE DEF next, stop, go, N, V
<1>5a. Forward(N, V, next, stop, go)
  BY <1>1, <1>3, <1>4, <1>5 DEF Forward
<1>5b. Solved(N, V, next, stop, go)
  BY <1>5a, OneSolution
<1>6. PICK g \in [1..N -> V] : Solves(g, N, V, next, stop, go)
  BY <1>5b DEF Solved
<1>7. ASSUME NEW j \in 1..N PROVE g[j] = Rec(g, j)
  <2>1. CASE next[j] = 0
    <3>1. g[j] = stop[j]
      BY <1>6, <2>1 DEF Solves
    <3>2. QED
      BY <1>5c, <2>1, <3>1 DEF stop
  <2>2. CASE next[j] # 0
    <3>1. g[next[j]] \in V
      BY <1>1, <1>5, <2>2
    <3>2. g[j] = go[j][g[next[j]]]
      BY <1>6, <2>2, <3>1 DEF Solves
    <3>3. next[j] = HeadAt(s, j).next
      BY <1>5c, <2>2 DEF next
    <3>4. QED
      BY <1>5c, <2>2, <3>1, <3>2, <3>3 DEF go
  <2>3. QED
    BY <2>1, <2>2
<1> DEFINE IsRec(f) == f = [j \in 1..(Len(s) + 1) |-> Rec(f, j)]
           G == CHOOSE f : IsRec(f)
<1>8. IsRec(g)
  <2> HIDE DEF Rec
  <2>1. QED
    BY <1>7 DEF N
<1>9. IsRec(G)
  <2> HIDE DEF IsRec
  <2>1. QED
    BY <1>8
<1>10. FinalFrom(s) = G
  BY DEF FinalFrom
<1> HIDE DEF G
<1>11. G[i] = Rec(G, i)
  <2> HIDE DEF Rec
  <2>1. QED
    BY <1>1, <1>9 DEF N
<1>12. QED
  BY <1>10, <1>11

\* The final head, from wherever a head begins.
LEMMA FinalTyped ==
  ASSUME NEW s \in Seq(Bytes), NEW i \in 1..(Len(s) + 1)
  PROVE  LET h == FinalFrom(s)[i]
         IN /\ h.ok \in BOOLEAN /\ h.next \in 1..(Len(s) + 1)
            /\ h.ok => /\ h.name \in DOMAIN Heads /\ Heads[h.name].status >= 200
                       /\ h.next - 4 \in Found(s, Separator) /\ h.next - 4 >= i
<1> DEFINE N == Len(s) + 1
           F(j) == FinalFrom(s)[j]
           Typed(j) == /\ F(j).ok \in BOOLEAN /\ F(j).next \in 1..N
                       /\ F(j).ok => /\ F(j).name \in DOMAIN Heads
                                     /\ Heads[F(j).name].status >= 200
                                     /\ F(j).next - 4 \in Found(s, Separator) /\ F(j).next - 4 >= j
           S == {j \in 1..N : Typed(j)}
<1>1. N \in Nat
  BY LenProperties
<1>2. ASSUME NEW j \in 1..N, \A k \in (j + 1)..N : k \in S PROVE j \in S
  <2> DEFINE h == HeadAt(s, j)
  <2>1. /\ h.ok \in BOOLEAN /\ h.interim \in BOOLEAN /\ h.next \in 1..N
        /\ h.ok => /\ h.name \in DOMAIN Heads
                   /\ h.next - 4 \in Found(s, Separator) /\ h.next - 4 >= j
        /\ h.interim <=> h.ok /\ Heads[h.name].status < 200
    BY HeadTyped
  <2>2. F(j) = IF h.interim THEN F(h.next) ELSE h
    BY FinalStep
  <2> HIDE DEF h, F
  <2>3. CASE h.interim
    <3>1. h.next \in (j + 1)..N
      BY <2>1, <2>3, <1>1
    <3>2. Typed(h.next)
      BY <1>2, <3>1
    <3>3. F(j) = F(h.next)
      BY <2>2, <2>3
    <3>4. h.next - 4 >= j /\ h.next > j /\ j \in Int /\ h.next \in Int
      BY <2>1, <2>3
    <3>5. Typed(j)
      <4> HIDE DEF N
      <4>1. /\ F(h.next).ok \in BOOLEAN /\ F(h.next).next \in 1..N
            /\ F(h.next).ok => /\ F(h.next).name \in DOMAIN Heads
                               /\ Heads[F(h.next).name].status >= 200
                               /\ F(h.next).next - 4 \in Found(s, Separator)
                               /\ F(h.next).next - 4 >= h.next
        BY <3>2
      <4>2. F(h.next).next - 4 >= h.next => F(h.next).next - 4 >= j
        BY <1>1, <3>4, <4>1
      <4>3. QED
        BY <3>3, <4>1, <4>2
    <3>6. QED
      BY <3>5
  <2>4. CASE ~h.interim
    <3>1. F(j) = h
      BY <2>2, <2>4
    <3>2. h.ok => Heads[h.name].status >= 200
      <4> SUFFICES ASSUME h.ok PROVE Heads[h.name].status >= 200
        OBVIOUS
      <4> DEFINE x == Heads[h.name].status
      <4>1. ~(x < 200) /\ x \in 100..599
        BY <2>1, <2>4, HeadsAssumption
      <4> HIDE DEF x
      <4>2. x >= 200
        BY <4>1
      <4>3. QED
        BY <4>2 DEF x
    <3>3. Typed(j)
      BY <2>1, <3>1, <3>2
    <3>4. QED
      BY <3>3
  <2>5. QED
    BY <2>1, <2>3, <2>4
<1>3. 1..N \subseteq S
  <2> HIDE DEF S, N
  <2>1. QED
    BY <1>1, <1>2, Backward
<1>4. Typed(i)
  BY <1>3
<1>5. QED
  BY <1>4

-----------------------------------------------------------------------------
(* What is found in the buffer is found in the input                       *)

LEMMA ViewIs ==
  ASSUME NEW s, NEW p, NEW a, NEW b, Views(s, p, a, b)
  PROVE  /\ s \in Seq(Bytes) /\ a \in Seq(Bytes) /\ b \in Seq(Bytes)
         /\ Len(s) \in Nat /\ Len(a) \in Nat /\ Len(b) \in Nat
         /\ p \in 1..(Len(s) + 1)
         /\ Len(a) + Len(b) = Len(s) + 1 - p
         /\ p + Len(a) <= Len(s) + 1
         /\ \A k \in 1..Len(a) : a[k] = s[p + k - 1]
<1>1. s \in Seq(Bytes) /\ a \in Seq(Bytes) /\ b \in Seq(Bytes) /\ p \in 1..(Len(s) + 1)
      /\ a \o b = SubSeq(s, p, Len(s))
  BY DEF Views
<1>2. Len(s) \in Nat /\ Len(a) \in Nat /\ Len(b) \in Nat
  BY <1>1, LenProperties
<1>3. 0 \in 0..Len(a)
  BY <1>2
<1>3a. Consumed(s, p, a, b, 0)
  BY <1>3, Consume
<1>4. Len(a) + Len(b) = Len(s) + 1 - p /\ \A k \in 1..Len(a) : a[k] = s[p + k - 1]
  BY <1>3a DEF Consumed
<1>5. QED
  BY <1>1, <1>2, <1>4

\* n bytes of b are read.
ReadMore(s, p, a, b, n) ==
  /\ Views(s, p, a \o SubSeq(b, 1, n), SubSeq(b, n + 1, Len(b)))
  /\ Len(a \o SubSeq(b, 1, n)) = Len(a) + n
  /\ Len(SubSeq(b, n + 1, Len(b))) = Len(b) - n

LEMMA ReadIn ==
  ASSUME NEW s, NEW p, NEW a, NEW b, Views(s, p, a, b), NEW n \in 0..Len(b)
  PROVE  ReadMore(s, p, a, b, n)
<1>1. s \in Seq(Bytes) /\ a \in Seq(Bytes) /\ b \in Seq(Bytes) /\ p \in 1..(Len(s) + 1)
      /\ a \o b = SubSeq(s, p, Len(s))
  BY DEF Views
<1>2. /\ SubSeq(b, 1, n) \in Seq(Bytes) /\ SubSeq(b, n + 1, Len(b)) \in Seq(Bytes)
      /\ Len(SubSeq(b, 1, n)) = n /\ Len(SubSeq(b, n + 1, Len(b))) = Len(b) - n
      /\ (a \o SubSeq(b, 1, n)) \o SubSeq(b, n + 1, Len(b)) = a \o b
  BY <1>1, Refill
<1>3. a \o SubSeq(b, 1, n) \in Seq(Bytes) /\ Len(a \o SubSeq(b, 1, n)) = Len(a) + n
  BY <1>1, <1>2, ConcatProperties
<1>4. Views(s, p, a \o SubSeq(b, 1, n), SubSeq(b, n + 1, Len(b)))
  <2>1. (a \o SubSeq(b, 1, n)) \o SubSeq(b, n + 1, Len(b)) = SubSeq(s, p, Len(s))
    BY <1>1, <1>2
  <2>2. QED
    BY <1>1, <1>2, <1>3, <2>1 DEF Views
<1>5. QED
  BY <1>1, <1>2, <1>3, <1>4 DEF ReadMore

\* The first part in a is the first one in s; with none in a it is later.
Firsts(s, p, a, part) ==
  LET from == {j \in Found(s, part) : j >= p}
      f == First(Found(a, part))
  IN /\ Found(a, part) # {} =>
          /\ f \in 1..(Len(a) - Len(part) + 1)
          /\ from # {} /\ First(from) = p + f - 1
     /\ Found(a, part) = {} /\ from # {} => First(from) + Len(part) > p + Len(a)

LEMMA FirstIn ==
  ASSUME NEW s, NEW p, NEW a, NEW b, Views(s, p, a, b),
         NEW part, Len(part) \in Nat, Len(part) > 0
  PROVE  Firsts(s, p, a, part)
<1> DEFINE from == {j \in Found(s, part) : j >= p}
           here == Found(a, part)
           f == First(here)
           m == Len(part)
<1>1. /\ s \in Seq(Bytes) /\ a \in Seq(Bytes)
      /\ Len(s) \in Nat /\ Len(a) \in Nat /\ p \in 1..(Len(s) + 1)
      /\ p + Len(a) <= Len(s) + 1
      /\ \A k \in 1..Len(a) : a[k] = s[p + k - 1]
  BY ViewIs
<1>2. m \in Nat /\ m > 0
  OBVIOUS
<1>3. \A i \in Nat : i > 0 =>
        (i \in here <=> i + m - 1 <= Len(a) /\ p + i - 1 \in Found(s, part))
  BY <1>1, <1>2, FoundIn
<1>4. here \in SUBSET Nat /\ \A j \in here : j \in 1..(Len(a) - m + 1)
  BY <1>1, <1>2, FoundTyped
<1>5. here # {} => f \in here /\ \A j \in here : f <= j
  BY <1>4, FirstIs
<1>6. /\ from \in SUBSET Nat
      /\ from # {} => /\ First(from) \in Found(s, part) /\ First(from) >= p
                      /\ \A j \in Found(s, part) : j >= p => First(from) <= j
  <2>1. p \in Nat /\ Len(part) \in Nat
    BY <1>1
  <2>2. QED
    BY <1>1, <2>1, FoundBounds DEF Bounded
<1>6a. \A j \in from : j \in Found(s, part) /\ j >= p
  OBVIOUS
<1>6b. \A j \in Found(s, part) : j >= p => j \in from
  OBVIOUS
<1>6c. from # {} => First(from) \in from
  BY <1>6, <1>6b
<1>7. ASSUME here # {}
      PROVE  f \in 1..(Len(a) - m + 1) /\ from # {} /\ First(from) = p + f - 1
  <2>1. f \in here /\ f \in 1..(Len(a) - m + 1) /\ f \in Nat /\ f > 0
    BY <1>4, <1>5, <1>7
  <2>2. p + f - 1 \in Found(s, part) /\ p + f - 1 >= p
    BY <1>1, <1>3, <2>1
  <2>3. from # {}
    BY <2>2, <1>6b
  <2> DEFINE g == First(from)
  <2>4. g \in Found(s, part) /\ g >= p /\ g <= p + f - 1 /\ g \in Nat
    BY <1>6, <1>6c, <2>2, <2>3
  <2> HIDE DEF g, f, from, here, m
  <2>4a. p \in Nat /\ f \in Nat /\ f + m - 1 <= Len(a)
    <3>1. p \in Nat /\ Len(a) \in Nat
      BY <1>1
    <3>2. QED
      BY <1>2, <2>1, <3>1
  <2>5. g - p + 1 \in Nat /\ g - p + 1 > 0 /\ p + (g - p + 1) - 1 = g /\ (g - p + 1) + m - 1 <= Len(a)
    BY <1>2, <2>4, <2>4a
  <2>6. g - p + 1 \in here
    BY <1>3, <2>4, <2>5
  <2>7. f <= g - p + 1
    BY <1>5, <1>7, <2>6
  <2>8. g = p + f - 1
    BY <2>4, <2>4a, <2>7
  <2>9. QED
    BY <2>1, <2>3, <2>8 DEF g
<1>8. ASSUME here = {}, from # {}
      PROVE  First(from) + m > p + Len(a)
  <2> DEFINE g == First(from)
  <2>1. g \in Found(s, part) /\ g >= p /\ g \in Nat
    BY <1>6, <1>6c, <1>8
  <2> HIDE DEF g, from, here, m
  <2>2. g - p + 1 \in Nat /\ g - p + 1 > 0 /\ p + (g - p + 1) - 1 = g
    BY <1>1, <2>1
  <2>3. ~((g - p + 1) + m - 1 <= Len(a))
    BY <1>3, <1>8, <2>1, <2>2
  <2>4. g + m > p + Len(a)
    BY <1>1, <1>2, <2>1, <2>3
  <2>5. QED
    BY <2>4 DEF g
<1>9. QED
  BY <1>7, <1>8 DEF Firsts

\* Nothing in s from p on, when a is all of it and has nothing.
LEMMA NoneIn ==
  ASSUME NEW s, NEW p, NEW a, Views(s, p, a, <<>>),
         NEW part, Len(part) \in Nat, Len(part) > 0, Found(a, part) = {}
  PROVE  {j \in Found(s, part) : j >= p} = {}
<1> DEFINE from == {j \in Found(s, part) : j >= p}
<1>1. s \in Seq(Bytes) /\ Len(s) \in Nat /\ Len(a) \in Nat /\ p \in 1..(Len(s) + 1)
      /\ Len(a) + Len(<<>>) = Len(s) + 1 - p /\ Len(<<>>) = 0
  BY ViewIs
<1>2. SUFFICES ASSUME from # {} PROVE FALSE
  OBVIOUS
<1>2a. Firsts(s, p, a, part)
  BY FirstIn
<1>3. First(from) + Len(part) > p + Len(a)
  BY <1>2, <1>2a DEF Firsts
<1>4. First(from) \in Found(s, part)
  BY <1>1, <1>2, FoundBounds DEF Bounded
<1>5. First(from) \in 1..(Len(s) - Len(part) + 1)
  BY <1>1, <1>4, FoundTyped
<1> HIDE DEF from
<1>6. QED
  BY <1>1, <1>3, <1>5

-----------------------------------------------------------------------------
(* A chunk decoded in pieces                                               *)

\* What is left of a chunked body, from p on, in a chunk whose data ends before t.
InChunk(s, p, t) ==
  IF t < Len(s) /\ SubSeq(s, t, t + 1) = CRLF
  THEN [body |-> SubSeq(s, p, t - 1) \o ChunkedFrom(s)[t + 2].body,
        whole |-> ChunkedFrom(s)[t + 2].whole]
  ELSE [body |-> SubSeq(s, p, Smaller(t - 1, Len(s))), whole |-> FALSE]

LEMMA InChunkTyped ==
  ASSUME NEW s \in Seq(Bytes), NEW p \in 1..(Len(s) + 1), NEW t \in Nat, p <= t
  PROVE  InChunk(s, p, t) \in Body
<1>1. Len(s) \in Nat /\ p \in Nat /\ p > 0 /\ t - 1 \in Int
  BY LenProperties
<1>2. CASE t < Len(s) /\ SubSeq(s, t, t + 1) = CRLF
  <2> DEFINE r == ChunkedFrom(s)[t + 2]
  <2>1. r \in Body
    <3>1. t + 2 \in 1..(Len(s) + 1)
      BY <1>1, <1>2
    <3>2. QED
      BY <3>1, ChunkedStep
  <2>2. SubSeq(s, p, t - 1) \in Seq(Bytes)
    <3>1. t - 1 <= Len(s)
      BY <1>1, <1>2
    <3>2. QED
      BY <1>1, <3>1, SubSeqIs
  <2> HIDE DEF r
  <2>3. r.body \in Seq(Bytes) /\ r.whole \in BOOLEAN
    BY <2>1 DEF Body
  <2>4. SubSeq(s, p, t - 1) \o r.body \in Seq(Bytes)
    BY <2>2, <2>3, ConcatProperties
  <2>5. InChunk(s, p, t) = [body |-> SubSeq(s, p, t - 1) \o r.body, whole |-> r.whole]
    BY <1>2 DEF InChunk, r
  <2>6. QED
    BY <2>3, <2>4, <2>5 DEF Body
<1>3. CASE ~(t < Len(s) /\ SubSeq(s, t, t + 1) = CRLF)
  <2>1. SubSeq(s, p, Smaller(t - 1, Len(s))) \in Seq(Bytes)
    BY <1>1, LessEnd
  <2>2. InChunk(s, p, t) = [body |-> SubSeq(s, p, Smaller(t - 1, Len(s))), whole |-> FALSE]
    BY <1>3 DEF InChunk
  <2>3. QED
    BY <2>1, <2>2 DEF Body
<1>4. QED
  BY <1>2, <1>3

\* The data from p up to q is taken.
LEMMA InChunkTaken ==
  ASSUME NEW s \in Seq(Bytes), NEW p \in 1..(Len(s) + 1), NEW t \in Nat,
         NEW q \in p..(Len(s) + 1), q <= t
  PROVE  /\ InChunk(s, p, t).body = SubSeq(s, p, q - 1) \o InChunk(s, q, t).body
         /\ InChunk(s, p, t).whole = InChunk(s, q, t).whole
<1> DEFINE a == SubSeq(s, p, q - 1)
<1>1. /\ Len(s) \in Nat /\ q \in 1..(Len(s) + 1) /\ p \in Nat /\ p > 0 /\ q \in Nat /\ q > 0
      /\ q - 1 \in Int /\ q - 1 <= Len(s) /\ q - 1 >= p - 1
  BY LenProperties
<1>2. a \in Seq(Bytes)
  BY <1>1, SubSeqIs
<1>3. ASSUME NEW e \in Int, q - 1 <= e, e <= Len(s)
      PROVE  SubSeq(s, p, e) = a \o SubSeq(s, q, e) /\ SubSeq(s, q, e) \in Seq(Bytes)
  <2>1. p \in 1..(Len(s) + 1) /\ q - 1 \in (p - 1)..Len(s) /\ e \in (q - 1)..Len(s)
    BY <1>1, <1>3
  <2>2. SubSeq(s, p, q - 1) \o SubSeq(s, (q - 1) + 1, e) = SubSeq(s, p, e)
    BY <2>1, ConcatAdjacentSubSeq
  <2>3. (q - 1) + 1 = q
    BY <1>1
  <2>4. SubSeq(s, q, e) \in Seq(Bytes)
    BY <1>1, <1>3, SubSeqIs
  <2>5. QED
    BY <2>2, <2>3, <2>4
<1>4. CASE t < Len(s) /\ SubSeq(s, t, t + 1) = CRLF
  <2>1. InChunk(s, p, t) = [body |-> SubSeq(s, p, t - 1) \o ChunkedFrom(s)[t + 2].body,
                            whole |-> ChunkedFrom(s)[t + 2].whole]
    BY <1>4 DEF InChunk
  <2>2. InChunk(s, q, t) = [body |-> SubSeq(s, q, t - 1) \o ChunkedFrom(s)[t + 2].body,
                            whole |-> ChunkedFrom(s)[t + 2].whole]
    BY <1>4 DEF InChunk
  <2> DEFINE r == ChunkedFrom(s)[t + 2]
             d == SubSeq(s, p, t - 1)
             c == SubSeq(s, q, t - 1)
  <2>3. d = a \o c /\ c \in Seq(Bytes)
    <3>1. t - 1 \in Int /\ q - 1 <= t - 1 /\ t - 1 <= Len(s)
      BY <1>1, <1>4
    <3> HIDE DEF a
    <3>2. QED
      BY <1>3, <3>1
  <2>4. r.body \in Seq(Bytes)
    <3>1. t + 2 \in 1..(Len(s) + 1)
      BY <1>1, <1>4
    <3>2. r \in Body
      BY <3>1, ChunkedStep
    <3>3. QED
      BY <3>2 DEF Body
  <2>2a. InChunk(s, p, t) = [body |-> d \o r.body, whole |-> r.whole]
    BY <2>1
  <2>2b. InChunk(s, q, t) = [body |-> c \o r.body, whole |-> r.whole]
    BY <2>2
  <2> HIDE DEF a, c, d, r
  <2>5. d \o r.body = a \o (c \o r.body)
    BY <1>2, <2>3, <2>4, Regroup
  <2>6. InChunk(s, p, t).body = a \o InChunk(s, q, t).body /\ InChunk(s, p, t).whole = InChunk(s, q, t).whole
    <3> DEFINE x == d \o r.body
               y == c \o r.body
    <3>0. \A b, w : [body |-> b, whole |-> w].body = b
      OBVIOUS
    <3>1a. InChunk(s, p, t).body = x
      BY <2>2a, <3>0, Zenon
    <3>1b. InChunk(s, q, t).body = y
      BY <2>2b, <3>0, Zenon
    <3>1. InChunk(s, p, t).body = x /\ InChunk(s, q, t).body = y
      BY <3>1a, <3>1b
    <3>2. x = a \o y
      BY <2>5
    <3>3. InChunk(s, p, t).whole = InChunk(s, q, t).whole
      BY <2>2a, <2>2b
    <3> HIDE DEF x, y
    <3>4. QED
      BY <3>1, <3>2, <3>3
  <2>7. QED
    BY <2>6 DEF a
<1>5. CASE ~(t < Len(s) /\ SubSeq(s, t, t + 1) = CRLF)
  <2> DEFINE e == Smaller(t - 1, Len(s))
  <2>1. InChunk(s, p, t) = [body |-> SubSeq(s, p, e), whole |-> FALSE]
    BY <1>5 DEF InChunk
  <2>2. InChunk(s, q, t) = [body |-> SubSeq(s, q, e), whole |-> FALSE]
    BY <1>5 DEF InChunk
  <2>3. e \in Int /\ q - 1 <= e /\ e <= Len(s)
    BY <1>1 DEF Smaller
  <2> DEFINE x == SubSeq(s, p, e)
             y == SubSeq(s, q, e)
  <2>3a. InChunk(s, p, t) = [body |-> x, whole |-> FALSE] /\ InChunk(s, q, t) = [body |-> y, whole |-> FALSE]
    BY <2>1, <2>2
  <2> HIDE DEF a, e
  <2>4. x = a \o y
    BY <1>3, <2>3
  <2> HIDE DEF x, y
  <2>5. InChunk(s, p, t).body = a \o InChunk(s, q, t).body /\ InChunk(s, p, t).whole = InChunk(s, q, t).whole
    BY <2>3a, <2>4
  <2>6. QED
    BY <2>5 DEF a
<1>6. QED
  BY <1>4, <1>5

\* At the CRLF of a chunk.
LEMMA AtChunkEnd ==
  ASSUME NEW s \in Seq(Bytes), NEW p \in 1..(Len(s) + 1)
  PROVE  /\ p < Len(s) /\ SubSeq(s, p, p + 1) = CRLF => InChunk(s, p, p) = ChunkedFrom(s)[p + 2]
         /\ ~(p < Len(s) /\ SubSeq(s, p, p + 1) = CRLF) => InChunk(s, p, p).whole = FALSE
<1>1. Len(s) \in Nat /\ p \in Nat /\ p > 0 /\ p - 1 \in Int /\ p - 1 <= Len(s)
  BY LenProperties
<1>2. CASE p < Len(s) /\ SubSeq(s, p, p + 1) = CRLF
  <2> DEFINE r == ChunkedFrom(s)[p + 2]
  <2>1. r \in Body
    <3>1. p + 2 \in 1..(Len(s) + 1)
      BY <1>1, <1>2
    <3>2. QED
      BY <3>1, ChunkedStep
  <2>2. SubSeq(s, p, p - 1) = <<>>
    <3>1. Len(SubSeq(s, p, p - 1)) = 0 /\ SubSeq(s, p, p - 1) \in Seq(Bytes)
      BY <1>1, SubSeqIs
    <3>2. QED
      BY <3>1, EmptySeq
  <2>3. InChunk(s, p, p) = [body |-> SubSeq(s, p, p - 1) \o r.body, whole |-> r.whole]
    BY <1>2 DEF InChunk
  <2> HIDE DEF r
  <2>4. r.body \in Seq(Bytes) /\ r = [body |-> r.body, whole |-> r.whole]
    BY <2>1 DEF Body
  <2>5. <<>> \o r.body = r.body
    BY <2>4, ConcatEmptySeq
  <2>6. QED
    BY <1>2, <2>2, <2>3, <2>4, <2>5 DEF r
<1>3. CASE ~(p < Len(s) /\ SubSeq(s, p, p + 1) = CRLF)
  BY <1>3 DEF InChunk
<1>4. QED
  BY <1>2, <1>3

\* The size line of f - 1 bytes, whose text is `text`, is at p of s.
SizeLine(s, p, f, text) ==
  LET F == ChunkedFrom(s)
  IN /\ text = <<>> => F[p] = F[p + f + 1]
     /\ text # <<>> /\ ~IsSize(text) => F[p].whole = FALSE
     /\ text # <<>> /\ IsSize(text) /\ SizeOf(text) = 0 => F[p] = [body |-> <<>>, whole |-> TRUE]
     /\ text # <<>> /\ IsSize(text) /\ SizeOf(text) # 0 =>
          /\ SizeOf(text) \in Nat \ {0}
          /\ F[p] = InChunk(s, p + f + 1, p + f + 1 + SizeOf(text))

\* At a size line that is there: what the decoder makes of it.
LEMMA AtSizeLine ==
  ASSUME NEW s, NEW p, NEW a, NEW b, Views(s, p, a, b), Found(a, CRLF) # {}
  PROVE  LET f == First(Found(a, CRLF))
         IN f \in 1..(Len(a) - 1) /\ SizeLine(s, p, f, SizeText(SubSeq(a, 1, f - 1)))
<1> DEFINE f == First(Found(a, CRLF))
           line == SubSeq(a, 1, f - 1)
           text == SizeText(line)
           n == SizeOf(text)
           F == ChunkedFrom(s)
           c == ChunkAt(s, p)
           from == {j \in Found(s, CRLF) : j >= p}
           start == p + f + 1
           after == start + n
           Stop(data, whole) == [data |-> data, next |-> 0, whole |-> whole]
           GoOn(data, next) == [data |-> data, next |-> next, whole |-> FALSE]
<1>1. /\ s \in Seq(Bytes) /\ a \in Seq(Bytes) /\ Len(s) \in Nat /\ Len(a) \in Nat
      /\ p \in 1..(Len(s) + 1) /\ p + Len(a) <= Len(s) + 1
      /\ \A k \in 1..Len(a) : a[k] = s[p + k - 1]
  BY ViewIs
<1>2. f \in 1..(Len(a) - Len(CRLF) + 1) /\ from # {} /\ First(from) = p + f - 1
  <2>1. Len(CRLF) \in Nat /\ Len(CRLF) > 0
    BY Marks
  <2>2. Firsts(s, p, a, CRLF)
    BY <2>1, FirstIn
  <2>3. QED
    BY <2>2 DEF Firsts
<1>2a. Len(CRLF) = 2
  BY Marks
<1> HIDE DEF f, from
<1>3. /\ f \in 1..(Len(a) - 1) /\ start \in 1..(Len(s) + 1) /\ First(from) + 2 = start
      /\ f - 1 \in Int /\ f - 1 <= Len(a)
      /\ First(from) - 1 = p + (f - 1) - 1 /\ p + 1 - 1 = p
  BY <1>1, <1>2, <1>2a
<1>4. line \in Seq(Bytes) /\ line = SubSeq(s, p, First(from) - 1)
  <2>1. SubSeq(a, 1, f - 1) \in Seq(Bytes)
    BY <1>1, <1>3, SubSeqIs
  <2>2. SubSeq(a, 1, f - 1) = SubSeq(s, p + 1 - 1, p + (f - 1) - 1)
    BY <1>1, <1>3, Stretch
  <2>3. QED
    BY <1>3, <2>1, <2>2
<1>5. text \in Seq(Bytes)
  BY <1>4, SizeTextTyped
<1>6. IsSize(text) => n \in Nat
  BY <1>5, SizeIsNat
<1>7. c = IF text = <<>> THEN GoOn(<<>>, start)
          ELSE IF ~IsSize(text) THEN Stop(<<>>, FALSE)
          ELSE IF n = 0 THEN Stop(<<>>, TRUE)
          ELSE IF after < Len(s) /\ SubSeq(s, after, after + 1) = CRLF
               THEN GoOn(SubSeq(s, start, after - 1), after + 2)
          ELSE Stop(SubSeq(s, start, Smaller(after - 1, Len(s))), FALSE)
  <2> DEFINE start2 == First(from) + 2
             text2 == SizeText(SubSeq(s, p, First(from) - 1))
             after2 == start2 + SizeOf(text2)
  <2>1. c = IF from = {} THEN Stop(<<>>, FALSE)
            ELSE IF text2 = <<>> THEN GoOn(<<>>, start2)
            ELSE IF ~IsSize(text2) THEN Stop(<<>>, FALSE)
            ELSE IF SizeOf(text2) = 0 THEN Stop(<<>>, TRUE)
            ELSE IF after2 < Len(s) /\ SubSeq(s, after2, after2 + 1) = CRLF
                 THEN GoOn(SubSeq(s, start2, after2 - 1), after2 + 2)
            ELSE Stop(SubSeq(s, start2, Smaller(after2 - 1, Len(s))), FALSE)
    BY DEF ChunkAt, from
  <2>2. text2 = text
    BY <1>4
  <2>3. start2 = start
    BY <1>3
  <2>4. after2 = after
    BY <2>2, <2>3
  <2> HIDE DEF start2, text2, after2, start, after, text, c
  <2>5. QED
    BY <1>2, <2>1, <2>2, <2>3, <2>4 DEF n
<1>8. /\ c.data \in Seq(Bytes) /\ c.whole \in BOOLEAN
      /\ c.next = 0 \/ c.next \in (p + 1)..(Len(s) + 1)
  BY <1>1, ChunkTyped
<1>9. /\ F[p] \in Body
      /\ F[p] = IF c.next = 0 THEN [body |-> c.data, whole |-> c.whole]
                ELSE [body |-> c.data \o F[c.next].body, whole |-> F[c.next].whole]
  BY <1>1, ChunkedStep
<1>10. ASSUME NEW i \in 1..(Len(s) + 1)
       PROVE  /\ F[i].body \in Seq(Bytes) /\ F[i] = [body |-> F[i].body, whole |-> F[i].whole]
              /\ <<>> \o F[i].body = F[i].body
  <2>1. F[i] \in Body
    BY <1>1, ChunkedStep
  <2> HIDE DEF F
  <2>2. F[i].body \in Seq(Bytes) /\ F[i] = [body |-> F[i].body, whole |-> F[i].whole]
    BY <2>1 DEF Body
  <2>3. QED
    BY <2>2, ConcatEmptySeq
<1> HIDE DEF F, c, line, text, n
<1>11. text = <<>> => F[p] = F[start]
  <2> SUFFICES ASSUME text = <<>> PROVE F[p] = F[start]
    OBVIOUS
  <2>1. c.data = <<>> /\ c.next = start /\ start # 0
    BY <1>3, <1>7
  <2> HIDE DEF start
  <2>2. F[p] = [body |-> <<>> \o F[start].body, whole |-> F[start].whole]
    BY <1>9, <2>1
  <2>3. QED
    BY <1>3, <1>10, <2>2
<1>12. text # <<>> /\ ~IsSize(text) => F[p].whole = FALSE
  <2> SUFFICES ASSUME text # <<>>, ~IsSize(text) PROVE F[p].whole = FALSE
    OBVIOUS
  <2>1. c.next = 0 /\ c.whole = FALSE
    BY <1>7
  <2>2. QED
    BY <1>9, <2>1
<1>13. text # <<>> /\ IsSize(text) /\ n = 0 => F[p] = [body |-> <<>>, whole |-> TRUE]
  <2> SUFFICES ASSUME text # <<>>, IsSize(text), n = 0 PROVE F[p] = [body |-> <<>>, whole |-> TRUE]
    OBVIOUS
  <2>1. c.next = 0 /\ c.data = <<>> /\ c.whole = TRUE
    BY <1>7
  <2>2. QED
    BY <1>9, <2>1
<1>14. text # <<>> /\ IsSize(text) /\ n # 0 => n \in Nat \ {0} /\ F[p] = InChunk(s, start, start + n)
  <2> SUFFICES ASSUME text # <<>>, IsSize(text), n # 0
               PROVE  n \in Nat \ {0} /\ F[p] = InChunk(s, start, after)
    OBVIOUS
  <2>1. n \in Nat \ {0} /\ after \in Nat
    BY <1>3, <1>6
  <2> HIDE DEF start, after
  <2>2. CASE after < Len(s) /\ SubSeq(s, after, after + 1) = CRLF
    <3>1. c = GoOn(SubSeq(s, start, after - 1), after + 2)
      BY <1>7, <2>2
    <3> DEFINE d == SubSeq(s, start, after - 1)
               g == after + 2
    <3>1a. g # 0
      BY <2>1
    <3> HIDE DEF d, g
    <3>1b. c = [data |-> d, next |-> g, whole |-> FALSE]
      BY <3>1 DEF d, g
    <3>2. c.data = d /\ c.next = g /\ c.next # 0
      BY <3>1a, <3>1b
    <3>2a. F[p] = [body |-> d \o F[g].body, whole |-> F[g].whole]
      BY <1>9, <3>2
    <3>3. F[p] = [body |-> SubSeq(s, start, after - 1) \o F[after + 2].body, whole |-> F[after + 2].whole]
      BY <3>2a DEF d, g
    <3>4. QED
      BY <2>1, <2>2, <3>3 DEF InChunk, F
  <2>3. CASE ~(after < Len(s) /\ SubSeq(s, after, after + 1) = CRLF)
    <3>1. c = Stop(SubSeq(s, start, Smaller(after - 1, Len(s))), FALSE)
      BY <1>7, <2>3
    <3>2. c.data = SubSeq(s, start, Smaller(after - 1, Len(s))) /\ c.next = 0 /\ c.whole = FALSE
      BY <3>1
    <3>3. F[p] = [body |-> SubSeq(s, start, Smaller(after - 1, Len(s))), whole |-> FALSE]
      BY <1>9, <3>2
    <3>4. QED
      BY <2>1, <2>3, <3>3 DEF InChunk
  <2>4. QED
    BY <2>2, <2>3
<1>15. SizeLine(s, p, f, text)
  BY <1>11, <1>12, <1>13, <1>14 DEF SizeLine, n, F
<1>16. QED
  BY <1>3, <1>15 DEF f, line, text

\* At a size line that is not all there, and never will be.
LEMMA NoSizeLine ==
  ASSUME NEW s \in Seq(Bytes), NEW p \in 1..(Len(s) + 1), {j \in Found(s, CRLF) : j >= p} = {}
  PROVE  ChunkedFrom(s)[p].whole = FALSE
<1> DEFINE c == ChunkAt(s, p)
           F == ChunkedFrom(s)
<1>1. c = [data |-> <<>>, next |-> 0, whole |-> FALSE]
  BY DEF ChunkAt
<1>2. F[p] = IF c.next = 0 THEN [body |-> c.data, whole |-> c.whole]
             ELSE [body |-> c.data \o F[c.next].body, whole |-> F[c.next].whole]
  BY ChunkedStep
<1> HIDE DEF c, F
<1>3. c.next = 0 /\ c.whole = FALSE
  BY <1>1
<1>4. F[p].whole = FALSE
  BY <1>2, <1>3
<1>5. QED
  BY <1>4 DEF F

-----------------------------------------------------------------------------
(* HttpFetch: the inductive invariant of the response                      *)

Items == [ok : BOOLEAN, data : Seq(Bytes)]
Framings == {"None", "Chunked", "ContentLength", "UntilEof"}

\* Types of everything, of the decoder's record too.
Typed ==
  /\ call \in Calls /\ TypeOK
  /\ reader \in [framing : Framings, length : Int, read : Nat, left : Nat, crlf : BOOLEAN]
  /\ upload \in Seq(Items) /\ \A i \in DOMAIN upload : Len(upload[i].data) < Len(Digits)

Input == call.response
Final == FinalHead(Input)
FinalFields == Heads[Final.name]
Rest == SubSeq(Input, Final.next, Len(Input))

\* Where in s the bytes not decoded yet begin.
At(s, a, b) == Len(s) + 1 - Len(a) - Len(b)
Pos(s) == At(s, buf, incoming)
View(s) == Views(s, Pos(s), buf, incoming)

Fresh == status = 0 /\ reader = NewReader("None", -1) /\ delivered = <<>> /\ late = 0
Before == {"start", "connecting", "tls", "head", "upload", "flush"}

RequestFirst == pc \in Before => Fresh /\ incoming = Input /\ buf = <<>>

HeadsRead ==
  pc = "headers" =>
    /\ Fresh /\ View(Input)
    /\ Pos(Input) = 1 \/ Pos(Input) - 4 \in Found(Input, Separator)
    /\ Final = FinalFrom(Input)[Pos(Input)]

Undecoded ==
  IF reader.left = 0 /\ ~reader.crlf THEN ChunkedFrom(Rest)[Pos(Rest)]
  ELSE InChunk(Rest, Pos(Rest), Pos(Rest) + reader.left)

Decoding ==
  /\ reader.framing = "None" => delivered = <<>>
  /\ reader.framing \in {"ContentLength", "UntilEof"} =>
       /\ Pos(Rest) = reader.read + 1 /\ delivered = SubSeq(Rest, 1, reader.read)
       /\ reader.framing = "ContentLength" => reader.read <= reader.length
  /\ reader.framing = "Chunked" =>
       /\ reader.left > 0 => ~reader.crlf
       /\ ChunkedBody(Rest).body = delivered \o Undecoded.body
       /\ ChunkedBody(Rest).whole = Undecoded.whole

BodyRead ==
  pc \in {"answer", "response", "chunk"} =>
    /\ Final.ok /\ status = FinalFields.status
    /\ reader.framing = Framing(FinalFields, call.method)
    /\ reader.length = FinalFields.length
    /\ View(Rest) /\ Decoding

LateOnce == late = 0 \/ (late = 1 /\ aborted /\ pc \in {"response", "failed"})

Answering ==
  /\ RequestFirst /\ HeadsRead /\ BodyRead /\ LateOnce
  /\ Settled => DeliversBody
  /\ EndsHonest

-----------------------------------------------------------------------------
(* HttpFetch: types                                                        *)

USE DEF aborted

LEMMA Empty == <<>> \in Seq(Bytes) /\ Len(<<>>) = 0
BY EmptySeq

LEMMA CallTyped ==
  ASSUME NEW c \in Calls
  PROVE  /\ c.valid \in BOOLEAN /\ c.https \in BOOLEAN
         /\ c.fields \subseteq Fields /\ IsBody(c.body)
         /\ c.response \in Seq(Bytes) /\ c.end \in {"fin", "reset", "open"}
BY FetchAssumption

LEMMA UploadTyped ==
  ASSUME call \in Calls
  PROVE  /\ Upload.kind \in {"none", "bytes", "stream", "invalid"}
         /\ Upload.bytes \in Seq(Bytes)
         /\ Upload.items \in Seq(Items)
         /\ \A i \in DOMAIN Upload.items : Len(Upload.items[i].data) < Len(Digits)
<1> DEFINE given == call.body
           items == [i \in DOMAIN given.chunks |-> Item(given.chunks[i])]
           body(kind, bytes, its) == [kind |-> kind, bytes |-> bytes, items |-> its]
<1>1. /\ given.type \in {"string", "Uint8Array", "ArrayBuffer"} => given.data \in Seq(Bytes)
      /\ given.type = "ReadableStream" =>
           /\ given.chunks \in Seq([type : STRING, data : Seq(Bytes)])
           /\ \A i \in DOMAIN given.chunks : Len(given.chunks[i].data) < Len(Digits)
  BY CallTyped DEF IsBody
<1>2. Upload = CASE given.type = "null" -> body("none", <<>>, <<>>)
                 [] given.type \in {"string", "Uint8Array", "ArrayBuffer"} -> body("bytes", given.data, <<>>)
                 [] given.type = "ReadableStream" -> body("stream", <<>>, items)
                 [] OTHER -> body("invalid", <<>>, <<>>)
  BY DEF Upload, RequestBody
<1>3. <<>> \in Seq(Bytes) /\ <<>> \in Seq(Items) /\ DOMAIN <<>> = {}
  <2>1. <<>> \in Seq(Bytes) /\ <<>> \in Seq(Items)
    BY EmptySeq
  <2>2. QED
    BY <2>1
<1>4. given.type = "ReadableStream" =>
        items \in Seq(Items) /\ \A i \in DOMAIN items : Len(items[i].data) < Len(Digits)
  <2> SUFFICES ASSUME given.type = "ReadableStream"
               PROVE items \in Seq(Items) /\ \A i \in DOMAIN items : Len(items[i].data) < Len(Digits)
    OBVIOUS
  <2> DEFINE n == Len(given.chunks)
  <2>1. DOMAIN given.chunks = 1..n /\ n \in Nat
    BY <1>1, LenProperties
  <2>2. ASSUME NEW i \in 1..n
        PROVE  /\ Item(given.chunks[i]) \in Items
               /\ Len(Item(given.chunks[i]).data) < Len(Digits)
    <3> DEFINE ch == given.chunks[i]
    <3>1. ch \in [type : STRING, data : Seq(Bytes)] /\ Len(ch.data) < Len(Digits)
      BY <1>1, <2>1, ElementOfSeq
    <3>2. Len(<<>>) < Len(Digits)
      BY DEF Digits
    <3> HIDE DEF ch
    <3>3. CASE ch.type = "Uint8Array"
      <4>1. Item(ch) = [ok |-> TRUE, data |-> ch.data]
        BY <3>3 DEF Item
      <4>2. Item(ch) \in Items /\ Item(ch).data = ch.data
        BY <3>1, <4>1 DEF Items
      <4>3. QED
        BY <3>1, <4>2 DEF ch
    <3>4. CASE ch.type # "Uint8Array"
      <4>1. Item(ch) = [ok |-> FALSE, data |-> <<>>]
        BY <3>4 DEF Item
      <4>2. Item(ch) \in Items /\ Item(ch).data = <<>>
        BY <1>3, <4>1 DEF Items
      <4>3. QED
        BY <3>2, <4>2 DEF ch
    <3>5. QED
      BY <3>3, <3>4
  <2>3. items \in [1..n -> Items]
    BY <2>1, <2>2
  <2>4. items \in Seq(Items)
    BY <2>1, <2>3, SeqDef
  <2>5. \A i \in DOMAIN items : items[i] = Item(given.chunks[i]) /\ i \in 1..n
    BY <2>1
  <2>6. QED
    BY <2>2, <2>4, <2>5
<1> HIDE DEF items, given
<1>5. CASE given.type = "null"
  BY <1>2, <1>3, <1>5
<1>6. CASE given.type \in {"string", "Uint8Array", "ArrayBuffer"}
  <2>1. Upload = body("bytes", given.data, <<>>)
    BY <1>2, <1>6
  <2>2. QED
    BY <1>1, <1>3, <1>6, <2>1
<1>7. CASE given.type = "ReadableStream"
  <2>1. Upload = body("stream", <<>>, items)
    BY <1>2, <1>7
  <2>2. QED
    BY <1>3, <1>4, <1>7, <2>1
<1>8. CASE given.type \notin {"null", "string", "Uint8Array", "ArrayBuffer", "ReadableStream"}
  <2>1. Upload = body("invalid", <<>>, <<>>)
    BY <1>2, <1>8
  <2>2. QED
    BY <1>3, <2>1
<1>9. QED
  BY <1>5, <1>6, <1>7, <1>8

LEMMA FrameTyped ==
  /\ \A data \in Seq(Bytes) : Len(data) < Len(Digits) => Frame(data) \in Seq(Bytes)
  /\ LastFrame \in Seq(Bytes)
<1>1. ASSUME NEW data \in Seq(Bytes), Len(data) < Len(Digits)
      PROVE  Frame(data) \in Seq(Bytes)
  <2>1. Digits[Len(data) + 1] \in Bytes
    <3>1. Len(data) + 1 \in 1..4 /\ Len(Digits) = 4
      BY <1>1, LenProperties DEF Digits
    <3>2. DOMAIN Digits = 1..4
      BY DEF Digits
    <3>3. Digits[Len(data) + 1] \in ToSet(Digits)
      BY <3>1, <3>2 DEF ToSet
    <3>4. QED
      BY <3>3 DEF Bytes
  <2> DEFINE d == <<Digits[Len(data) + 1]>>
  <2>2. d \in Seq(Bytes)
    BY <2>1
  <2> HIDE DEF d
  <2>3. d \o CRLF \in Seq(Bytes)
    BY <2>2, Marks, ConcatProperties
  <2>4. (d \o CRLF) \o data \in Seq(Bytes)
    BY <2>3, ConcatProperties
  <2>5. ((d \o CRLF) \o data) \o CRLF \in Seq(Bytes)
    BY <2>4, Marks, ConcatProperties
  <2>6. QED
    BY <2>5 DEF Frame, d
<1>2. LastFrame \in Seq(Bytes)
  <2> DEFINE z == <<"0">>
  <2>1. "0" \in Bytes
    <3>1. DOMAIN Digits = 1..4 /\ Digits[1] = "0"
      BY DEF Digits
    <3>2. QED
      BY <3>1 DEF Bytes, ToSet
  <2>2. z \in Seq(Bytes)
    BY <2>1
  <2> HIDE DEF z
  <2>3. z \o Separator \in Seq(Bytes)
    BY <2>2, Marks, ConcatProperties
  <2>4. QED
    BY <2>3 DEF LastFrame, z
<1>3. QED
  BY <1>1, <1>2

LEMMA NextTyped ==
  ASSUME Typed PROVE NextWrite \in Seq(Bytes)
<1>1. call \in Calls /\ upload \in Seq(Items) /\ \A i \in DOMAIN upload : Len(upload[i].data) < Len(Digits)
  BY DEF Typed
<1>2. Upload.bytes \in Seq(Bytes)
  BY <1>1, UploadTyped
<1>3. upload # <<>> => upload[1].data \in Seq(Bytes) /\ Len(upload[1].data) < Len(Digits)
  <2> SUFFICES ASSUME upload # <<>> PROVE upload[1].data \in Seq(Bytes) /\ Len(upload[1].data) < Len(Digits)
    OBVIOUS
  <2>1. 1 \in 1..Len(upload) /\ DOMAIN upload = 1..Len(upload)
    BY <1>1, EmptySeq, LenProperties
  <2>2. upload[1] \in Items
    BY <1>1, <2>1, ElementOfSeq
  <2>3. QED
    BY <1>1, <2>1, <2>2 DEF Items
<1>4. upload # <<>> => Frame(upload[1].data) \in Seq(Bytes)
  BY <1>3, FrameTyped
<1>5. LastFrame \in Seq(Bytes) /\ <<>> \in Seq(Bytes)
  BY FrameTyped, Empty
<1>6. QED
  BY <1>2, <1>4, <1>5 DEF NextWrite

TypedPlace == call \in Calls /\ abortedAt \in Places \cup {"never"} /\ pc \in Places
TypedRequest ==
  /\ request \subseteq Fields \ {"injected"} /\ sent \in Seq(Bytes)
  /\ upload \in Seq(Items) /\ \A i \in DOMAIN upload : Len(upload[i].data) < Len(Digits)
TypedInput == incoming \in Seq(Bytes) /\ buf \in Seq(Bytes)
TypedBody ==
  /\ status \in {0} \cup 200..599 /\ delivered \in Seq(Bytes) /\ late \in Nat
  /\ reader \in [framing : Framings, length : Int, read : Nat, left : Nat, crlf : BOOLEAN]

LEMMA TypedIs == Typed <=> TypedPlace /\ TypedRequest /\ TypedInput /\ TypedBody
<1>1. Typed => TypedPlace /\ TypedRequest /\ TypedInput /\ TypedBody
  BY DEF Typed, TypeOK, TypedPlace, TypedRequest, TypedInput, TypedBody
<1>2. ASSUME TypedPlace, TypedRequest, TypedInput, TypedBody PROVE Typed
  <2>1. call.valid \in BOOLEAN /\ call.https \in BOOLEAN /\ call.fields \subseteq Fields
        /\ call.end \in {"fin", "reset", "open"}
    BY <1>2, CallTyped DEF TypedPlace
  <2>2. Upload.kind \in {"none", "bytes", "stream", "invalid"}
    BY <1>2, UploadTyped DEF TypedPlace
  <2>3. reader.read \in Nat /\ reader.left \in Nat /\ reader.crlf \in BOOLEAN
    BY <1>2 DEF TypedBody
  <2>4. QED
    BY <1>2, <2>1, <2>2, <2>3 DEF Typed, TypeOK, TypedPlace, TypedRequest, TypedInput, TypedBody
<1>3. QED
  BY <1>1, <1>2

LEMMA InitTyped == Init => Typed
<1> SUFFICES ASSUME Init PROVE Typed
  OBVIOUS
<1>1. TypedPlace
  BY DEF Init, TypedPlace, Places
<1>2. TypedRequest
  <2>1. Upload.items \in Seq(Items)
        /\ \A i \in DOMAIN Upload.items : Len(Upload.items[i].data) < Len(Digits)
    BY UploadTyped DEF Init
  <2>2. QED
    BY <2>1, Empty DEF Init, TypedRequest
<1>3. TypedInput
  BY CallTyped, Empty DEF Init, TypedInput
<1>4. TypedBody
  BY Empty DEF Init, TypedBody, NewReader, Framings
<1>5. QED
  BY <1>1, <1>2, <1>3, <1>4, TypedIs

\* One read: what is taken and what is left are bytes.
LEMMA ReadTyped ==
  ASSUME incoming \in Seq(Bytes), NEW limit, NEW n \in Nat \ {0}, Reads(limit, n)
  PROVE  n \in 1..Len(incoming) /\ Got(n) \in Seq(Bytes) /\ incoming' \in Seq(Bytes)
<1>1. Len(incoming) \in Nat /\ n \in 0..Len(incoming) /\ n \in 1..Len(incoming)
  BY LenProperties DEF Reads
<1>2. SubSeq(incoming, 1, n) \in Seq(Bytes) /\ SubSeq(incoming, n + 1, Len(incoming)) \in Seq(Bytes)
  BY <1>1, Refill
<1>3. QED
  BY <1>1, <1>2 DEF Reads, Got

\* The first n of buf go to the caller.
LEMMA SplitTyped ==
  ASSUME buf \in Seq(Bytes), NEW n \in 0..Len(buf)
  PROVE  SubSeq(buf, 1, n) \in Seq(Bytes) /\ SubSeq(buf, n + 1, Len(buf)) \in Seq(Bytes)
BY Refill

LEMMA SmallerIs ==
  ASSUME NEW m \in Int, NEW n \in Int
  PROVE  Smaller(m, n) \in {m, n} /\ Smaller(m, n) <= m /\ Smaller(m, n) <= n
BY DEF Smaller

LEMMA FramingTyped ==
  ASSUME NEW head, NEW method, head.chunked \in BOOLEAN, head.length \in Nat \cup {-1, -2}
  PROVE  LET f == Framing(head, method)
         IN /\ f \in Framings \cup {"Invalid"}
            /\ f = "ContentLength" => head.length \in Nat
BY DEF Framing, Framings

LEMMA FoundHere ==
  ASSUME buf \in Seq(Bytes), NEW part, Len(part) \in Nat, Found(buf, part) # {}
  PROVE  LET f == First(Found(buf, part)) IN f \in 1..(Len(buf) - Len(part) + 1)
<1>1. Found(buf, part) \in SUBSET Nat /\ \A j \in Found(buf, part) : j \in 1..(Len(buf) - Len(part) + 1)
  BY FoundTyped
<1>2. First(Found(buf, part)) \in Found(buf, part)
  BY <1>1, FirstIs
<1>3. QED
  BY <1>1, <1>2

LEMMA TypedNext ==
  ASSUME Typed, call' = call, TypedPlace', TypedRequest', TypedInput', TypedBody'
  PROVE  Typed'
<1>1. call.valid \in BOOLEAN /\ call.https \in BOOLEAN /\ call.fields \subseteq Fields
      /\ call.end \in {"fin", "reset", "open"}
      /\ Upload.kind \in {"none", "bytes", "stream", "invalid"}
  BY DEF Typed, TypeOK
<1>2. Upload' = Upload
  BY DEF Upload
<1>3. reader'.read \in Nat /\ reader'.left \in Nat /\ reader'.crlf \in BOOLEAN
  BY DEF TypedBody
<1>4. pc' \in Places /\ abortedAt' \in Places \cup {"never"} /\ call' \in Calls
  BY DEF TypedPlace
<1>5. TypeOK'
  BY <1>1, <1>2, <1>3, <1>4 DEF TypeOK, TypedRequest, TypedInput, TypedBody
<1>6. QED
  BY <1>4, <1>5 DEF Typed, TypedRequest, TypedBody

\* A step that only goes on elsewhere.
LEMMA TypedGoto ==
  ASSUME Typed, NEW next \in Places, Goto(next), TypedRequest'
  PROVE  Typed'
<1>1. TypedPlace /\ TypedRequest /\ TypedInput /\ TypedBody
  BY TypedIs
<1>2. call' = call /\ TypedPlace' /\ TypedInput' /\ TypedBody'
  BY <1>1 DEF Goto, TypedPlace, TypedInput, TypedBody, bodyVars
<1>3. QED
  BY <1>2, TypedNext

LEMMA TypedKept ==
  ASSUME Typed, UNCHANGED requestVars
  PROVE  TypedRequest'
BY TypedIs DEF TypedRequest, requestVars

LEMMA TailIs ==
  ASSUME NEW q \in Seq(Items), q # <<>>
  PROVE  /\ Tail(q) \in Seq(Items) /\ Len(Tail(q)) = Len(q) - 1
         /\ \A i \in 1..Len(Tail(q)) : Tail(q)[i] = q[i + 1]
BY HeadTailProperties

LEMMA TypedSent ==
  ASSUME Typed, request' = request, upload' = upload \/ (upload # <<>> /\ upload' = Tail(upload)),
         NEW bytes \in Seq(Bytes), sent' = sent \o bytes
  PROVE  TypedRequest'
<1>1. TypedRequest
  BY TypedIs
<1>2. sent' \in Seq(Bytes)
  BY <1>1, ConcatProperties DEF TypedRequest
<1>3. upload' \in Seq(Items) /\ \A i \in DOMAIN upload' : Len(upload'[i].data) < Len(Digits)
  <2>1. upload \in Seq(Items) /\ \A i \in DOMAIN upload : Len(upload[i].data) < Len(Digits)
    BY <1>1 DEF TypedRequest
  <2>2. CASE upload' = upload
    BY <2>1, <2>2
  <2>3. CASE upload # <<>> /\ upload' = Tail(upload)
    <3>1. /\ upload' \in Seq(Items) /\ Len(upload') = Len(upload) - 1
          /\ \A i \in 1..Len(upload') : upload'[i] = upload[i + 1]
      BY <2>1, <2>3, TailIs
    <3>2. DOMAIN upload = 1..Len(upload) /\ DOMAIN upload' = 1..Len(upload') /\ Len(upload) \in Nat
      BY <2>1, <3>1, LenProperties
    <3>3. ASSUME NEW i \in DOMAIN upload' PROVE Len(upload'[i].data) < Len(Digits)
      <4>1. i \in 1..Len(upload') /\ i + 1 \in DOMAIN upload
        BY <3>1, <3>2
      <4>2. upload'[i] = upload[i + 1]
        BY <3>1, <4>1
      <4>3. Len(upload[i + 1].data) < Len(Digits)
        BY <2>1, <4>1
      <4>4. QED
        BY <4>2, <4>3
    <3>4. QED
      BY <3>1, <3>3
  <2>4. QED
    BY <2>2, <2>3
<1>4. QED
  BY <1>1, <1>2, <1>3 DEF TypedRequest

LEMMA TypedRequestStep ==
  ASSUME Typed, Abort \/ ConnectFails \/ HandshakeFails \/ WriteFails \/ Request
  PROVE  Typed'
<1>1. TypedPlace /\ TypedRequest /\ TypedInput /\ TypedBody
  BY TypedIs
<1>2. CASE Abort
  <2>1. call' = call /\ TypedPlace' /\ TypedRequest' /\ TypedInput' /\ TypedBody'
    BY <1>1, <1>2 DEF Abort, TypedPlace, TypedRequest, TypedInput, TypedBody, requestVars, bodyVars
  <2>2. QED
    BY <2>1, TypedNext
<1>3. CASE ConnectFails \/ HandshakeFails
  BY <1>3, TypedGoto, TypedKept DEF ConnectFails, HandshakeFails, Places
<1>4. CASE Start
  <2>1. (IF call.valid /\ Upload.kind # "invalid" /\ ~aborted THEN "connecting" ELSE "failed") \in Places
    BY DEF Places
  <2>2. QED
    BY <1>4, <2>1, TypedGoto, TypedKept DEF Start
<1>5. CASE Connected
  <2>1. CASE aborted \/ "injected" \in call.fields
    BY <1>5, <2>1, TypedGoto, TypedKept DEF Connected, Places
  <2>2. CASE ~(aborted \/ "injected" \in call.fields)
    <3>1. /\ request' = RequestHead(call.fields, Upload.kind) /\ UNCHANGED <<sent, upload>>
          /\ Goto(IF call.https THEN "tls" ELSE "head")
      BY <1>5, <2>2 DEF Connected
    <3>2. call.fields \subseteq Fields
      BY DEF Typed, TypeOK
    <3>3. RequestHead(call.fields, Upload.kind) \subseteq Fields \ {"injected"}
      BY <2>2, <3>2 DEF RequestHead, FramingField, Fields
    <3>4. TypedRequest'
      BY <1>1, <3>1, <3>3 DEF TypedRequest
    <3>5. (IF call.https THEN "tls" ELSE "head") \in Places
      BY DEF Places
    <3>6. QED
      BY <3>1, <3>4, <3>5, TypedGoto
  <2>3. QED
    BY <2>1, <2>2
<1>6. CASE Handshake \/ SendHead \/ Flush
  BY <1>6, TypedGoto, TypedKept DEF Handshake, SendHead, Flush, Places
<1>7. CASE SendBytes \/ SendLast
  <2>1. TypedRequest'
    BY <1>7, NextTyped, TypedSent DEF SendBytes, SendLast
  <2>2. QED
    BY <1>7, <2>1, TypedGoto DEF SendBytes, SendLast, Places
<1>8. CASE SendItem
  <2>1. TypedRequest'
    BY <1>8, NextTyped, TypedSent DEF SendItem
  <2>2. (IF upload[1].ok THEN "upload" ELSE "failed") \in Places
    BY DEF Places
  <2>3. QED
    BY <1>8, <2>1, <2>2, TypedGoto DEF SendItem
<1>9. CASE WriteFails
  <2>1. PICK n \in 0..Len(NextWrite) : sent' = sent \o SubSeq(NextWrite, 1, n)
    BY <1>9 DEF WriteFails
  <2>2. NextWrite \in Seq(Bytes)
    BY NextTyped
  <2> DEFINE w == NextWrite
  <2> HIDE DEF w
  <2>3. w \in Seq(Bytes) /\ n \in 0..Len(w) /\ sent' = sent \o SubSeq(w, 1, n)
    BY <2>1, <2>2 DEF w
  <2>4. SubSeq(w, 1, n) \in Seq(Bytes)
    BY <2>3, Refill
  <2>5. TypedRequest'
    BY <1>9, <2>3, <2>4, TypedSent DEF WriteFails
  <2>6. QED
    BY <1>9, <2>5, TypedGoto DEF WriteFails, Places
<1>10. QED
  BY <1>2, <1>3, <1>4, <1>5, <1>6, <1>7, <1>8, <1>9 DEF Request

\* A step of the response leaves the request alone.
LEMMA TypedResponse ==
  ASSUME Typed, call' = call, abortedAt' = abortedAt, pc' \in Places, UNCHANGED requestVars,
         TypedInput', TypedBody'
  PROVE  Typed'
<1>1. TypedPlace' /\ TypedRequest'
  BY TypedIs, TypedKept DEF TypedPlace
<1>2. QED
  BY <1>1, TypedNext

LEMMA ReaderIs ==
  ASSUME TypedBody
  PROVE  /\ reader.framing \in Framings /\ reader.length \in Int
         /\ reader.read \in Nat /\ reader.left \in Nat /\ reader.crlf \in BOOLEAN
BY DEF TypedBody

LEMMA ReaderFields ==
  ASSUME TypedBody
  PROVE  /\ \A n \in Nat : [reader EXCEPT !.read = n] \in
              [framing : Framings, length : Int, read : Nat, left : Nat, crlf : BOOLEAN]
         /\ \A n \in Nat : \A b \in BOOLEAN : [reader EXCEPT !.left = n, !.crlf = b] \in
              [framing : Framings, length : Int, read : Nat, left : Nat, crlf : BOOLEAN]
         /\ \A n \in Nat : [reader EXCEPT !.left = n] \in
              [framing : Framings, length : Int, read : Nat, left : Nat, crlf : BOOLEAN]
         /\ \A b \in BOOLEAN : [reader EXCEPT !.crlf = b] \in
              [framing : Framings, length : Int, read : Nat, left : Nat, crlf : BOOLEAN]
BY DEF TypedBody

LEMMA YieldTyped ==
  ASSUME TypedBody, NEW bytes \in Seq(Bytes), Yield(bytes)
  PROVE  delivered' \in Seq(Bytes) /\ late' \in Nat /\ pc' \in Places
<1>1. delivered \o bytes \in Seq(Bytes)
  BY ConcatProperties DEF TypedBody
<1>2. QED
  BY <1>1 DEF Yield, TypedBody, Places

LEMMA TakenTyped ==
  ASSUME TypedBody, NEW n \in Nat, n <= reader.left
  PROVE  Taken(n) \in [framing : Framings, length : Int, read : Nat, left : Nat, crlf : BOOLEAN]
<1> DEFINE m == reader.left - n
           b == reader.crlf \/ reader.left = n
<1>1. m \in Nat
  BY ReaderIs
<1>2. Taken(n) = [reader EXCEPT !.left = m, !.crlf = b]
  BY DEF Taken
<1>3. b \in BOOLEAN
  OBVIOUS
<1> HIDE DEF m, b
<1>4. QED
  BY <1>1, <1>2, <1>3, ReaderFields

LEMMA TypedResponseStep ==
  ASSUME Typed, Response
  PROVE  Typed'
<1>1. TypedPlace /\ TypedRequest /\ TypedInput /\ TypedBody
  BY TypedIs
<1>2. buf \in Seq(Bytes) /\ incoming \in Seq(Bytes) /\ Len(buf) \in Nat
  BY <1>1, LenProperties DEF TypedInput
<1>2a. reader.length \in Int /\ reader.read \in Nat /\ reader.left \in Nat /\ ReadSize \in Nat \ {0}
  BY <1>1, ReaderIs, FetchAssumption
<1> USE DEF requestVars, bodyVars, BodyStep
<1>3. CASE ReadHead \/ Fill
  <2>1. PICK n \in 1..ReadSize : Reads(ReadSize, n) /\ buf' = buf \o Got(n)
    BY <1>3 DEF ReadHead, Fill
  <2>2. n \in Nat \ {0}
    BY <2>1, FetchAssumption
  <2>3. Got(n) \in Seq(Bytes) /\ incoming' \in Seq(Bytes)
    BY <1>2, <2>1, <2>2, ReadTyped
  <2>4. TypedInput'
    BY <1>2, <2>1, <2>3, ConcatProperties DEF TypedInput
  <2>5. /\ call' = call /\ abortedAt' = abortedAt /\ pc' = pc /\ UNCHANGED requestVars
        /\ UNCHANGED bodyVars
    BY <1>3 DEF ReadHead, Fill
  <2>6. TypedBody' /\ pc' \in Places
    BY <1>1, <2>5 DEF TypedBody, TypedPlace
  <2>7. QED
    BY <2>4, <2>5, <2>6, TypedResponse
<1>4. CASE HeadFails \/ Answer
  <2>1. (IF status \in NullBodyStatus \/ status > 599 THEN "failed" ELSE "response") \in Places
        /\ "failed" \in Places
    BY DEF Places
  <2>2. QED
    BY <1>4, <2>1, TypedGoto, TypedKept DEF HeadFails, Answer
<1>5. CASE ParseHead
  <2> DEFINE at == First(Found(buf, Separator))
             lines == SubSeq(buf, 1, at - 1)
             head == Heads[lines[1]]
             bad == \/ ~IsHead(lines)
                    \/ head.status = 101
                    \/ head.status >= 200 /\ Framing(head, call.method) = "Invalid"
  <2>1. /\ pc = "headers" /\ Found(buf, Separator) # {}
        /\ IF bad THEN pc' = "failed" /\ UNCHANGED <<buf, status, reader>>
           ELSE /\ buf' = Behind(at, head)
                /\ IF head.status < 200 THEN UNCHANGED <<pc, status, reader>>
                   ELSE /\ pc' = "answer"
                        /\ status' = head.status
                        /\ reader' = NewReader(Framing(head, call.method), head.length)
        /\ UNCHANGED <<call, abortedAt, requestVars, incoming, delivered, late>>
    BY <1>5 DEF ParseHead
  <2>2. at \in 1..(Len(buf) - 3)
    <3>1. Len(Separator) \in Nat /\ Len(Separator) = 4
      BY Marks
    <3>2. First(Found(buf, Separator)) \in 1..(Len(buf) - Len(Separator) + 1)
      BY <1>2, <2>1, <3>1, FoundHere
    <3>3. QED
      BY <1>2, <3>1, <3>2
  <2>3. SubSeq(buf, at + 4, Len(buf)) \in Seq(Bytes)
    <3> HIDE DEF at
    <3>1. at + 4 \in Nat /\ at + 4 > 0 /\ Len(buf) \in Int
      BY <1>2, <2>2
    <3>2. QED
      BY <1>2, <3>1, SubSeqIs
  <2>4. IsHead(lines) => head.status \in 100..599 /\ head.chunked \in BOOLEAN
                         /\ head.length \in Nat \cup {-1, -2}
    BY HeadsAssumption DEF IsHead
  <2>5. IsHead(lines) => Framing(head, call.method) \in Framings \cup {"Invalid"}
                         /\ head.length \in Int
    <3> SUFFICES ASSUME IsHead(lines) PROVE Framing(head, call.method) \in Framings \cup {"Invalid"}
                                            /\ head.length \in Int
      OBVIOUS
    <3>1. head.chunked \in BOOLEAN /\ head.length \in Nat \cup {-1, -2}
      BY <2>4
    <3> HIDE DEF head
    <3>2. QED
      BY <3>1, FramingTyped
  <2> HIDE DEF at, lines, head
  <2>6. TypedInput'
    BY <1>2, <2>1, <2>3 DEF TypedInput, Behind
  <2>7. CASE bad
    BY <1>1, <2>1, <2>6, <2>7, TypedResponse DEF TypedBody, Places
  <2>8. CASE ~bad /\ head.status < 200
    <3>1. pc' = pc /\ UNCHANGED bodyVars
      BY <2>1, <2>8
    <3>2. TypedBody' /\ pc' \in Places
      BY <1>1, <3>1 DEF TypedBody, TypedPlace
    <3> HIDE DEF bad
    <3>3. QED
      BY <2>1, <2>6, <3>2, TypedResponse
  <2>9. CASE ~bad /\ ~(head.status < 200)
    <3>1. /\ pc' = "answer" /\ status' = head.status
          /\ reader' = NewReader(Framing(head, call.method), head.length)
          /\ UNCHANGED <<delivered, late>>
      BY <2>1, <2>9
    <3>2. head.status \in 200..599
      BY <2>4, <2>9
    <3>3. Framing(head, call.method) \in Framings
      BY <2>5, <2>9, <3>2
    <3>4. reader' \in [framing : Framings, length : Int, read : Nat, left : Nat, crlf : BOOLEAN]
      BY <2>5, <2>9, <3>1, <3>3 DEF NewReader
    <3>5. TypedBody' /\ pc' \in Places
      BY <1>1, <3>1, <3>2, <3>4 DEF TypedBody, Places
    <3>6. QED
      BY <2>1, <2>6, <3>5, TypedResponse
  <2>10. QED
    BY <2>7, <2>8, <2>9
<1>6. CASE Pull \/ NoBody \/ PlainDone \/ PlainEnds \/ ChunkEnds
  <2>1. /\ call' = call /\ abortedAt' = abortedAt /\ UNCHANGED requestVars
        /\ UNCHANGED <<incoming, buf, bodyVars>> /\ pc' \in Places
    BY <1>6 DEF Pull, NoBody, PlainDone, PlainEnds, ChunkEnds, Ends, Fails, Places
  <2>2. TypedInput' /\ TypedBody'
    BY <1>1, <2>1 DEF TypedInput, TypedBody
  <2>3. QED
    BY <2>1, <2>2, TypedResponse
<1>7. CASE PlainBuffered
  <2> DEFINE n == IF reader.framing = "UntilEof" THEN Len(buf) ELSE Smaller(Len(buf), Owed)
  <2>1. /\ Plain /\ Owed > 0 /\ buf' = SubSeq(buf, n + 1, Len(buf))
        /\ reader' = [reader EXCEPT !.read = @ + n] /\ Yield(SubSeq(buf, 1, n))
        /\ UNCHANGED <<status, incoming>> /\ BodyStep
    BY <1>7 DEF PlainBuffered
  <2>2. n \in 0..Len(buf)
    <3>1. Owed \in Int
      BY <1>2a DEF Owed
    <3>2. Smaller(Len(buf), Owed) \in 0..Len(buf)
      BY <1>2, <2>1, <3>1 DEF Smaller
    <3>3. QED
      BY <1>2, <3>2
  <2> HIDE DEF n
  <2>3. SubSeq(buf, 1, n) \in Seq(Bytes) /\ SubSeq(buf, n + 1, Len(buf)) \in Seq(Bytes)
    BY <1>2, <2>2, SplitTyped
  <2>4. reader.read + n \in Nat
    BY <1>2a, <1>2, <2>2
  <2>5. TypedInput'
    BY <1>2, <2>1, <2>3 DEF TypedInput
  <2>6. reader' \in [framing : Framings, length : Int, read : Nat, left : Nat, crlf : BOOLEAN]
    BY <1>1, <2>1, <2>4, ReaderFields
  <2>7. TypedBody' /\ pc' \in Places
    BY <1>1, <2>1, <2>3, <2>6, YieldTyped DEF TypedBody
  <2>8. QED
    BY <2>1, <2>5, <2>7, TypedResponse
<1>8. CASE PlainRead
  <2>1. PICK n \in 1..ReadSize :
          /\ Reads(Smaller(ReadSize, Owed), n)
          /\ reader' = [reader EXCEPT !.read = @ + n] /\ Yield(Got(n))
    BY <1>8 DEF PlainRead
  <2>2. n \in Nat \ {0}
    BY <2>1, FetchAssumption
  <2>3. Got(n) \in Seq(Bytes) /\ incoming' \in Seq(Bytes)
    BY <1>2, <2>1, <2>2, ReadTyped
  <2>4. reader.read + n \in Nat
    BY <1>2a, <1>2, <2>2
  <2>5. TypedInput'
    BY <1>2, <1>8, <2>3 DEF TypedInput, PlainRead
  <2>6. reader' \in [framing : Framings, length : Int, read : Nat, left : Nat, crlf : BOOLEAN]
    BY <1>1, <2>1, <2>4, ReaderFields
  <2>7. TypedBody' /\ pc' \in Places
    BY <1>1, <1>8, <2>1, <2>3, <2>6, YieldTyped DEF TypedBody, PlainRead
  <2>8. QED
    BY <1>8, <2>5, <2>7, TypedResponse DEF PlainRead
<1>9. CASE ChunkBuffered
  <2> DEFINE n == Smaller(Len(buf), reader.left)
  <2>1. /\ buf' = SubSeq(buf, n + 1, Len(buf))
        /\ reader' = Taken(n) /\ Yield(SubSeq(buf, 1, n))
        /\ UNCHANGED <<status, incoming>> /\ BodyStep
    BY <1>9 DEF ChunkBuffered
  <2>2. n \in 0..Len(buf) /\ n \in Nat /\ n <= reader.left
    BY <1>2, <1>2a DEF Smaller
  <2> HIDE DEF n
  <2>3. SubSeq(buf, 1, n) \in Seq(Bytes) /\ SubSeq(buf, n + 1, Len(buf)) \in Seq(Bytes)
    BY <1>2, <2>2, SplitTyped
  <2>4. TypedInput'
    BY <1>2, <2>1, <2>3 DEF TypedInput
  <2>5. reader' \in [framing : Framings, length : Int, read : Nat, left : Nat, crlf : BOOLEAN]
    BY <1>1, <2>1, <2>2, TakenTyped
  <2>6. TypedBody' /\ pc' \in Places
    BY <1>1, <2>1, <2>3, <2>5, YieldTyped DEF TypedBody
  <2>7. QED
    BY <2>1, <2>4, <2>6, TypedResponse
<1>10. CASE ChunkRead
  <2>1. PICK n \in 1..ReadSize :
          /\ Reads(Smaller(ReadSize, reader.left), n) /\ reader' = Taken(n) /\ Yield(Got(n))
    BY <1>10 DEF ChunkRead
  <2>2. n \in Nat \ {0} /\ n \in Nat /\ n <= reader.left
    <3>1. n <= Smaller(ReadSize, reader.left) /\ n \in Nat \ {0}
      BY <2>1, FetchAssumption DEF Reads
    <3>2. Smaller(ReadSize, reader.left) \in {ReadSize, reader.left} /\ Smaller(ReadSize, reader.left) <= reader.left
      BY <1>2a DEF Smaller
    <3>3. QED
      BY <1>2a, <3>1, <3>2
  <2>3. Got(n) \in Seq(Bytes) /\ incoming' \in Seq(Bytes)
    BY <1>2, <2>1, <2>2, ReadTyped
  <2>4. TypedInput'
    BY <1>2, <1>10, <2>3 DEF TypedInput, ChunkRead
  <2>5. reader' \in [framing : Framings, length : Int, read : Nat, left : Nat, crlf : BOOLEAN]
    BY <1>1, <2>1, <2>2, TakenTyped
  <2>6. TypedBody' /\ pc' \in Places
    BY <1>1, <1>10, <2>1, <2>3, <2>5, YieldTyped DEF TypedBody, ChunkRead
  <2>7. QED
    BY <1>10, <2>4, <2>6, TypedResponse DEF ChunkRead
<1>11. CASE TakeCrlf
  <2>1. CASE SubSeq(buf, 1, 2) = CRLF
    <3>1. /\ Len(buf) >= 2 /\ buf' = SubSeq(buf, 3, Len(buf)) /\ reader' = [reader EXCEPT !.crlf = FALSE]
          /\ BodyStep /\ UNCHANGED <<pc, status, incoming, delivered, late>>
      BY <1>11, <2>1 DEF TakeCrlf
    <3>2. SubSeq(buf, 3, Len(buf)) \in Seq(Bytes)
      BY <1>2, SubSeqIs
    <3>3. TypedInput'
      BY <1>2, <3>1, <3>2 DEF TypedInput
    <3>4. TypedBody' /\ pc' \in Places
      BY <1>1, <3>1, ReaderFields DEF TypedBody, TypedPlace
    <3>5. QED
      BY <3>1, <3>3, <3>4, TypedResponse
  <2>2. CASE SubSeq(buf, 1, 2) # CRLF
    <3>1. Fails
      BY <1>11, <2>2 DEF TakeCrlf
    <3>2. TypedInput' /\ TypedBody' /\ pc' \in Places
      BY <1>1, <3>1 DEF TypedInput, TypedBody, Fails, Places
    <3>3. QED
      BY <3>1, <3>2, TypedResponse DEF Fails
  <2>3. QED
    BY <2>1, <2>2
<1>12. CASE TakeSize
  <2> DEFINE line == First(Found(buf, CRLF))
             text == SizeText(SubSeq(buf, 1, line - 1))
             rest == SubSeq(buf, line + 2, Len(buf))
  <2>1. /\ AtSize /\ Found(buf, CRLF) # {}
        /\ IF text # <<>> /\ ~IsSize(text) THEN Fails
           ELSE /\ buf' = rest
                /\ IF text # <<>> /\ SizeOf(text) = 0 THEN pc' = "ended" /\ UNCHANGED reader
                   ELSE /\ reader' = [reader EXCEPT !.left = IF text = <<>> THEN 0 ELSE SizeOf(text)]
                        /\ UNCHANGED pc
                /\ BodyStep /\ UNCHANGED <<status, incoming, delivered, late>>
    BY <1>12 DEF TakeSize
  <2>2. line \in 1..(Len(buf) - 1)
    <3>1. Len(CRLF) \in Nat /\ Len(CRLF) = 2
      BY Marks
    <3>2. First(Found(buf, CRLF)) \in 1..(Len(buf) - Len(CRLF) + 1)
      BY <1>2, <2>1, <3>1, FoundHere
    <3>3. QED
      BY <1>2, <3>1, <3>2
  <2>3. rest \in Seq(Bytes) /\ SubSeq(buf, 1, line - 1) \in Seq(Bytes)
    <3> HIDE DEF line
    <3>1. line + 2 \in Nat /\ line + 2 > 0 /\ Len(buf) \in Int /\ line - 1 \in Int /\ line - 1 <= Len(buf)
      BY <1>2, <2>2
    <3>2. SubSeq(buf, line + 2, Len(buf)) \in Seq(Bytes)
      BY <1>2, <3>1, SubSeqIs
    <3>3. SubSeq(buf, 1, line - 1) \in Seq(Bytes)
      BY <1>2, <3>1, SubSeqIs
    <3>4. QED
      BY <3>2, <3>3
  <2>4. IsSize(text) => SizeOf(text) \in Nat
    BY <2>3, SizeTextTyped, SizeIsNat
  <2> HIDE DEF line, text, rest
  <2>5. CASE text # <<>> /\ ~IsSize(text)
    <3>1. Fails
      BY <2>1, <2>5
    <3>2. TypedInput' /\ TypedBody' /\ pc' \in Places
      BY <1>1, <3>1 DEF TypedInput, TypedBody, Fails, Places
    <3>3. QED
      BY <3>1, <3>2, TypedResponse DEF Fails
  <2>6. CASE ~(text # <<>> /\ ~IsSize(text))
    <3>1. /\ buf' = rest /\ BodyStep /\ UNCHANGED <<status, incoming, delivered, late>>
          /\ IF text # <<>> /\ SizeOf(text) = 0 THEN pc' = "ended" /\ UNCHANGED reader
             ELSE /\ reader' = [reader EXCEPT !.left = IF text = <<>> THEN 0 ELSE SizeOf(text)]
                  /\ UNCHANGED pc
      BY <2>1, <2>6
    <3>2. TypedInput'
      BY <1>2, <2>3, <3>1 DEF TypedInput
    <3>3. (IF text = <<>> THEN 0 ELSE SizeOf(text)) \in Nat
      BY <2>4, <2>6
    <3>4. reader' \in [framing : Framings, length : Int, read : Nat, left : Nat, crlf : BOOLEAN]
          /\ pc' \in Places
      <4>1. CASE text # <<>> /\ SizeOf(text) = 0
        BY <1>1, <3>1, <4>1 DEF TypedBody, Places
      <4>2. CASE ~(text # <<>> /\ SizeOf(text) = 0)
        BY <1>1, <3>1, <3>3, <4>2, ReaderFields DEF TypedPlace
      <4>3. QED
        BY <4>1, <4>2
    <3>5. TypedBody'
      BY <1>1, <3>1, <3>4 DEF TypedBody
    <3>6. QED
      BY <3>1, <3>2, <3>4, <3>5, TypedResponse
  <2>7. QED
    BY <2>5, <2>6
<1>13. QED
  BY <1>3, <1>4, <1>5, <1>6, <1>7, <1>8, <1>9, <1>10, <1>11, <1>12 DEF Response

LEMMA TypedStep ==
  ASSUME Typed, [Next]_vars PROVE Typed'
<1>1. CASE Next
  BY <1>1, TypedRequestStep, TypedResponseStep DEF Next
<1>2. CASE UNCHANGED vars
  <2>1. call' = call /\ UNCHANGED requestVars
    BY <1>2 DEF vars
  <2>2. TypedPlace' /\ TypedInput' /\ TypedBody'
    BY <1>2, TypedIs DEF vars, bodyVars, TypedPlace, TypedInput, TypedBody
  <2>3. QED
    BY <2>1, <2>2, TypedKept, TypedNext
<1>3. QED
  BY <1>1, <1>2

\* The types hold: of every variable, and of the decoder's position.
THEOREM TypesHold == Spec => []TypeOK
<1>1. Spec => []Typed
  BY InitTyped, TypedStep, PTL DEF Spec
<1>2. Typed => TypeOK
  BY DEF Typed
<1>3. QED
  BY <1>1, <1>2, PTL

-----------------------------------------------------------------------------
(* HttpFetch: the promised body; steps that leave the response alone       *)

LEMMA PrefixOf ==
  ASSUME NEW x \in Seq(Bytes), NEW y \in Seq(Bytes)
  PROVE  IsPrefix(x, x \o y)
<1>1. Len(x) \in Nat /\ Len(y) \in Nat
  BY LenProperties
<1>2. /\ x \o y \in Seq(Bytes) /\ Len(x \o y) = Len(x) + Len(y)
      /\ \A i \in 1..(Len(x) + Len(y)) : (x \o y)[i] = IF i <= Len(x) THEN x[i] ELSE y[i - Len(x)]
  BY ConcatProperties
<1> DEFINE z == x \o y
           a == SubSeq(z, 1, Len(x))
<1> HIDE DEF z
<1>3. /\ z \in Seq(Bytes) /\ Len(x) <= Len(z)
      /\ \A i \in 1..Len(x) : z[i] = x[i]
  BY <1>1, <1>2 DEF z
<1>4. /\ a \in Seq(Bytes) /\ Len(a) = IF 1 <= Len(x) THEN Len(x) - 1 + 1 ELSE 0
      /\ \A i \in 1..(Len(x) - 1 + 1) : a[i] = z[1 + i - 1]
  BY <1>1, <1>3, SubSeqIs
<1> HIDE DEF a
<1>5. Len(a) = Len(x)
  BY <1>1, <1>4
<1>6. ASSUME NEW i \in 1..Len(a) PROVE a[i] = x[i]
  <2>1. i \in 1..(Len(x) - 1 + 1) /\ i \in 1..Len(x) /\ 1 + i - 1 = i
    BY <1>1, <1>5
  <2>2. QED
    BY <1>3, <1>4, <2>1
<1>7. a = x
  BY <1>4, <1>5, <1>6, SeqEqual
<1>8. SubSeq(x, 1, Len(x)) = x
  BY SubSeqFull
<1>9. QED
  BY <1>3, <1>7, <1>8 DEF IsPrefix, a, z

LEMMA Adjacent ==
  ASSUME NEW s \in Seq(Bytes), NEW m \in 0..Len(s), NEW n \in m..Len(s)
  PROVE  /\ SubSeq(s, 1, m) \in Seq(Bytes) /\ SubSeq(s, m + 1, n) \in Seq(Bytes)
         /\ SubSeq(s, 1, m) \o SubSeq(s, m + 1, n) = SubSeq(s, 1, n)
<1>1. Len(s) \in Nat /\ m \in Nat /\ n \in Nat /\ m <= Len(s) /\ n <= Len(s) /\ m + 1 > 0 /\ m + 1 \in Nat
  BY LenProperties
<1>2. SubSeq(s, 1, m) \in Seq(Bytes) /\ SubSeq(s, m + 1, n) \in Seq(Bytes)
  BY <1>1, SubSeqIs
<1>3. 1 \in 1..(Len(s) + 1) /\ m \in (1 - 1)..Len(s)
  BY <1>1
<1>4. SubSeq(s, 1, m) \o SubSeq(s, m + 1, n) = SubSeq(s, 1, n)
  BY <1>3, ConcatAdjacentSubSeq
<1>5. QED
  BY <1>2, <1>4

LEMMA RestIs ==
  ASSUME Typed
  PROVE  /\ Input \in Seq(Bytes) /\ Len(Input) \in Nat
         /\ Final.ok \in BOOLEAN /\ Final.next \in 1..(Len(Input) + 1)
         /\ Final.ok => Final.name \in DOMAIN Heads /\ FinalFields.status \in 200..599
                        /\ FinalFields.chunked \in BOOLEAN /\ FinalFields.length \in Nat \cup {-1, -2}
         /\ Rest \in Seq(Bytes) /\ Len(Rest) \in Nat
         /\ Final.next - 1 + Len(Rest) = Len(Input)
<1>1. Input \in Seq(Bytes) /\ Len(Input) \in Nat
  BY CallTyped, LenProperties DEF Typed, Input
<1>2. 1 \in 1..(Len(Input) + 1) /\ Final = FinalFrom(Input)[1]
  BY <1>1 DEF Final, FinalHead
<1>3. /\ Final.ok \in BOOLEAN /\ Final.next \in 1..(Len(Input) + 1)
      /\ Final.ok => Final.name \in DOMAIN Heads /\ Heads[Final.name].status >= 200
  BY <1>1, <1>2, FinalTyped
<1>4. Final.ok => FinalFields.status \in 200..599
                  /\ FinalFields.chunked \in BOOLEAN /\ FinalFields.length \in Nat \cup {-1, -2}
  <2> SUFFICES ASSUME Final.ok
               PROVE FinalFields.status \in 200..599
                  /\ FinalFields.chunked \in BOOLEAN /\ FinalFields.length \in Nat \cup {-1, -2}
    OBVIOUS
  <2>1. /\ FinalFields.status \in 100..599 /\ FinalFields.status >= 200
        /\ FinalFields.chunked \in BOOLEAN /\ FinalFields.length \in Nat \cup {-1, -2}
    BY <1>3, HeadsAssumption DEF FinalFields
  <2>2. QED
    BY <2>1
<1>5. /\ Rest \in Seq(Bytes)
      /\ Len(Rest) = IF Final.next <= Len(Input) THEN Len(Input) - Final.next + 1 ELSE 0
  BY <1>1, <1>3, SubSeqIs DEF Rest
<1>6. Len(Rest) \in Nat /\ Final.next - 1 + Len(Rest) = Len(Input)
  BY <1>1, <1>3, <1>5
<1>7. QED
  BY <1>1, <1>3, <1>4, <1>5, <1>6

Answered == pc \in {"answer", "response", "chunk"}

\* What the whole input carries, when the head says how it is framed.
LEMMA WholeIs ==
  ASSUME Typed
  PROVE  /\ ~Final.ok => Whole.body = <<>> /\ Whole.whole = FALSE
         /\ Final.ok => Whole.framing = Framing(FinalFields, call.method)
         /\ Final.ok /\ Whole.framing = "Invalid" => Whole.body = <<>> /\ Whole.whole = FALSE
         /\ Final.ok /\ Whole.framing = "None" => Whole.body = <<>> /\ Whole.whole = TRUE
         /\ Final.ok /\ Whole.framing = "Chunked" =>
              Whole.body = ChunkedBody(Rest).body /\ Whole.whole = ChunkedBody(Rest).whole
         /\ Final.ok /\ Whole.framing = "ContentLength" =>
              /\ Whole.body = SubSeq(Rest, 1, Smaller(FinalFields.length, Len(Rest)))
              /\ Whole.whole <=> Len(Rest) >= FinalFields.length
         /\ Final.ok /\ Whole.framing = "UntilEof" =>
              /\ Whole.body = Rest /\ (Whole.whole <=> call.end = "fin")
<1> DEFINE f == Framing(FinalFields, call.method)
           Is(body, whole) == [body |-> body, whole |-> whole, framing |-> f]
<1>1. Whole = IF ~Final.ok THEN [body |-> <<>>, whole |-> FALSE, framing |-> "None"]
              ELSE CASE f = "Invalid" -> Is(<<>>, FALSE)
                     [] f = "None" -> Is(<<>>, TRUE)
                     [] f = "Chunked" -> Is(ChunkedBody(Rest).body, ChunkedBody(Rest).whole)
                     [] f = "ContentLength" ->
                          Is(SubSeq(Rest, 1, Smaller(FinalFields.length, Len(Rest))),
                             Len(Rest) >= FinalFields.length)
                     [] OTHER -> Is(Rest, call.end = "fin")
  BY DEF Whole, WholeBody, Final, Rest, Input, FinalFields
<1>2. Final.ok => f \in Framings \cup {"Invalid"}
  BY RestIs, FramingTyped
<1>3. ~Final.ok => Whole.body = <<>> /\ Whole.whole = FALSE
  BY <1>1
<1> HIDE DEF f
<1> SUFFICES ASSUME Final.ok
             PROVE  /\ Whole.framing = f
                    /\ f = "Invalid" => Whole.body = <<>> /\ Whole.whole = FALSE
                    /\ f = "None" => Whole.body = <<>> /\ Whole.whole = TRUE
                    /\ f = "Chunked" =>
                         Whole.body = ChunkedBody(Rest).body /\ Whole.whole = ChunkedBody(Rest).whole
                    /\ f = "ContentLength" =>
                         /\ Whole.body = SubSeq(Rest, 1, Smaller(FinalFields.length, Len(Rest)))
                         /\ Whole.whole <=> Len(Rest) >= FinalFields.length
                    /\ f = "UntilEof" => /\ Whole.body = Rest /\ (Whole.whole <=> call.end = "fin")
  BY <1>3 DEF f
<1>4. CASE f = "Invalid"
  <2>1. Whole = Is(<<>>, FALSE)
    BY <1>1, <1>4
  <2>2. QED
    BY <1>4, <2>1
<1>5. CASE f = "None"
  <2>1. Whole = Is(<<>>, TRUE)
    BY <1>1, <1>5
  <2>2. QED
    BY <1>5, <2>1
<1>6. CASE f = "Chunked"
  <2>1. Whole = Is(ChunkedBody(Rest).body, ChunkedBody(Rest).whole)
    BY <1>1, <1>6
  <2>2. QED
    BY <1>6, <2>1
<1>7. CASE f = "ContentLength"
  <2> DEFINE x == SubSeq(Rest, 1, Smaller(FinalFields.length, Len(Rest)))
             b == Len(Rest) >= FinalFields.length
  <2>1. Whole = Is(x, b)
    BY <1>1, <1>7
  <2> HIDE DEF x, b
  <2>2. Whole.framing = f /\ Whole.body = x /\ (Whole.whole <=> b)
    BY <2>1
  <2>3. QED
    BY <1>7, <2>2 DEF x, b
<1>8. CASE f = "UntilEof"
  <2>1. Whole = Is(Rest, call.end = "fin")
    BY <1>1, <1>8
  <2>2. QED
    BY <1>8, <2>1
<1>9. QED
  BY <1>2, <1>4, <1>5, <1>6, <1>7, <1>8 DEF Framings

\* Where the decoder is in the rest of the input.
LEMMA PosIs ==
  ASSUME Typed, NEW s \in Seq(Bytes), View(s)
  PROVE  /\ Len(s) \in Nat /\ Len(buf) \in Nat /\ Len(incoming) \in Nat
         /\ Pos(s) \in 1..(Len(s) + 1) /\ Pos(s) + Len(buf) + Len(incoming) = Len(s) + 1
         /\ Pos(s) + Len(buf) <= Len(s) + 1
<1>1. buf \in Seq(Bytes) /\ incoming \in Seq(Bytes)
  BY TypedIs DEF TypedInput
<1>2. Len(s) \in Nat /\ Len(buf) \in Nat /\ Len(incoming) \in Nat
  BY <1>1, LenProperties
<1>3. Pos(s) \in 1..(Len(s) + 1)
  BY DEF View, Views
<1>4. QED
  BY <1>2, <1>3 DEF Pos, At

\* Undecoded is a body.
LEMMA UndecodedTyped ==
  ASSUME Typed, View(Rest)
  PROVE  Undecoded \in Body
<1>1. Rest \in Seq(Bytes) /\ Pos(Rest) \in 1..(Len(Rest) + 1) /\ reader.left \in Nat
  BY RestIs, PosIs, TypedIs, ReaderIs
<1>2. ChunkedFrom(Rest)[Pos(Rest)] \in Body
  BY <1>1, ChunkedStep
<1>3. Pos(Rest) + reader.left \in Nat /\ Pos(Rest) <= Pos(Rest) + reader.left
  BY <1>1
<1>4. InChunk(Rest, Pos(Rest), Pos(Rest) + reader.left) \in Body
  BY <1>1, <1>3, InChunkTyped
<1>5. QED
  BY <1>2, <1>4 DEF Undecoded

\* What has been handed over is the beginning of what the input carries.
LEMMA BodyDelivers ==
  ASSUME Typed, BodyRead, Answered
  PROVE  DeliversBody
<1>1. /\ Final.ok /\ reader.framing = Framing(FinalFields, call.method)
      /\ reader.length = FinalFields.length /\ View(Rest) /\ Decoding
  BY DEF BodyRead, Answered
<1>2. /\ Rest \in Seq(Bytes) /\ Len(Rest) \in Nat /\ Pos(Rest) \in 1..(Len(Rest) + 1)
      /\ reader.read \in Nat /\ reader.length \in Int /\ reader.framing \in Framings
      /\ delivered \in Seq(Bytes) /\ <<>> \in Seq(Bytes)
  BY <1>1, RestIs, PosIs, TypedIs, ReaderIs, Empty DEF TypedBody
<1>3. \A x \in Seq(Bytes) : IsPrefix(x, x)
  <2> SUFFICES ASSUME NEW x \in Seq(Bytes) PROVE IsPrefix(x, x)
    OBVIOUS
  <2>1. x \o <<>> = x /\ <<>> \in Seq(Bytes)
    BY Empty, ConcatEmptySeq
  <2>2. IsPrefix(x, x \o <<>>)
    BY <2>1, PrefixOf
  <2>3. QED
    BY <2>1, <2>2
<1>4. CASE reader.framing = "None"
  <2>1. Whole.body = <<>> /\ delivered = <<>>
    BY <1>1, <1>4, WholeIs DEF Decoding
  <2>2. QED
    BY <1>2, <1>3, <2>1 DEF DeliversBody
<1>5. CASE reader.framing \in {"ContentLength", "UntilEof"}
  <2>1. /\ delivered = SubSeq(Rest, 1, reader.read) /\ Pos(Rest) = reader.read + 1
        /\ reader.framing = "ContentLength" => reader.read <= reader.length
    BY <1>1, <1>5 DEF Decoding
  <2> DEFINE m == IF reader.framing = "ContentLength" THEN Smaller(reader.length, Len(Rest)) ELSE Len(Rest)
  <2>2. Whole.body = SubSeq(Rest, 1, m)
    <3>1. SubSeq(Rest, 1, Len(Rest)) = Rest
      BY <1>2, SubSeqFull
    <3>2. QED
      BY <1>1, <1>5, <3>1, WholeIs
  <2>3. reader.read \in 0..Len(Rest) /\ m \in reader.read..Len(Rest)
    BY <1>2, <1>5, <2>1 DEF Smaller
  <2> HIDE DEF m
  <2>4. /\ SubSeq(Rest, reader.read + 1, m) \in Seq(Bytes)
        /\ SubSeq(Rest, 1, reader.read) \o SubSeq(Rest, reader.read + 1, m) = SubSeq(Rest, 1, m)
    BY <1>2, <2>3, Adjacent
  <2>5. IsPrefix(delivered, delivered \o SubSeq(Rest, reader.read + 1, m))
    BY <1>2, <2>4, PrefixOf
  <2>6. QED
    BY <2>1, <2>2, <2>4, <2>5 DEF DeliversBody
<1>6. CASE reader.framing = "Chunked"
  <2>1. Whole.body = delivered \o Undecoded.body
    BY <1>1, <1>6, WholeIs DEF Decoding
  <2>2. Undecoded.body \in Seq(Bytes)
    BY <1>1, UndecodedTyped DEF Body
  <2>3. QED
    BY <1>2, <2>1, <2>2, PrefixOf DEF DeliversBody
<1>7. QED
  BY <1>2, <1>4, <1>5, <1>6 DEF Framings

LEMMA WholeTyped ==
  ASSUME Typed PROVE Whole.body \in Seq(Bytes)
<1>1. Rest \in Seq(Bytes) /\ Len(Rest) \in Nat /\ <<>> \in Seq(Bytes)
      /\ (Final.ok => FinalFields.length \in Nat \cup {-1, -2} /\ FinalFields.chunked \in BOOLEAN)
  BY RestIs, Empty
<1>2. ChunkedBody(Rest).body \in Seq(Bytes)
  <2>1. 1 \in 1..(Len(Rest) + 1)
    BY <1>1
  <2>2. ChunkedFrom(Rest)[1] \in Body
    BY <1>1, <2>1, ChunkedStep
  <2>3. QED
    BY <2>2 DEF ChunkedBody, Body
<1>3. Final.ok => SubSeq(Rest, 1, Smaller(FinalFields.length, Len(Rest))) \in Seq(Bytes)
  <2>1. Final.ok => FinalFields.length \in Int
    BY <1>1
  <2>2. 1 \in Nat /\ 1 > 0
    OBVIOUS
  <2>3. QED
    BY <1>1, <2>1, <2>2, LessEnd
<1>4. Final.ok => Whole.framing \in Framings \cup {"Invalid"}
  BY <1>1, WholeIs, FramingTyped
<1>5. QED
  BY <1>1, <1>2, <1>3, <1>4, WholeIs DEF Framings

LEMMA AnswersDeliver ==
  ASSUME Typed, Answering
  PROVE  DeliversBody
<1>1. pc \in Places
  BY TypedIs DEF TypedPlace
<1>2. CASE Answered
  BY <1>2, BodyDelivers DEF Answering
<1>3. CASE Settled
  BY <1>3 DEF Answering
<1>4. CASE pc \in Before \/ pc = "headers"
  <2>1. delivered = <<>>
    BY <1>4 DEF Answering, RequestFirst, HeadsRead, Fresh
  <2>2. <<>> \in Seq(Bytes) /\ Whole.body \in Seq(Bytes)
    BY Empty, WholeTyped
  <2>3. <<>> \o Whole.body = Whole.body
    BY <2>2, ConcatEmptySeq
  <2>4. IsPrefix(<<>>, <<>> \o Whole.body)
    BY <2>2, PrefixOf
  <2>5. QED
    BY <2>1, <2>3, <2>4 DEF DeliversBody
<1>5. QED
  BY <1>1, <1>2, <1>3, <1>4 DEF Places, Answered, Settled, Before

LEMMA KeepsWhole ==
  ASSUME call' = call
  PROVE  /\ Input' = Input /\ Final' = Final /\ FinalFields' = FinalFields
         /\ Rest' = Rest /\ Whole' = Whole
BY DEF Input, Final, FinalFields, Rest, Whole

\* Steps into the end of the fetch.
LEMMA ToFailed ==
  ASSUME Typed, Answering, call' = call, abortedAt' = abortedAt, pc' = "failed",
         UNCHANGED <<status, delivered, late, incoming>>,
         incoming # Input /\ ~aborted =>
           ~Whole.whole \/ LongHead(Input, MaxHeader) \/ status \in NullBodyStatus
  PROVE  Answering'
<1>1. DeliversBody'
  BY AnswersDeliver, KeepsWhole DEF DeliversBody
<1>2. EndsHonest'
  BY KeepsWhole DEF EndsHonest, EndMeansWhole, WholeNeverFails, Input
<1>3. LateOnce'
  BY DEF Answering, LateOnce
<1>4. QED
  BY <1>1, <1>2, <1>3 DEF Answering, RequestFirst, HeadsRead, BodyRead, Before

LEMMA ToEnded ==
  ASSUME Typed, Answering, call' = call, pc = "chunk", pc' = "ended",
         UNCHANGED <<delivered, late>>,
         delivered = Whole.body,
         Whole.whole \/ (Whole.framing = "UntilEof" /\ call.end = "reset" /\ delivered # <<>>)
  PROVE  Answering'
<1>1. DeliversBody'
  BY AnswersDeliver, KeepsWhole DEF DeliversBody
<1>2. EndsHonest'
  BY KeepsWhole DEF EndsHonest, EndMeansWhole, WholeNeverFails
<1>3. LateOnce'
  BY DEF Answering, LateOnce
<1>4. QED
  BY <1>1, <1>2, <1>3 DEF Answering, RequestFirst, HeadsRead, BodyRead, Before

\* Steps in the body.
LEMMA ToBody ==
  ASSUME pc' \in {"answer", "response", "chunk"}, BodyRead', LateOnce'
  PROVE  Answering'
BY DEF Answering, RequestFirst, HeadsRead, Before, Settled, EndsHonest, EndMeansWhole, WholeNeverFails

\* Steps up to the response.
LEMMA ToRequest ==
  ASSUME Typed, Answering, call' = call, abortedAt' = abortedAt, pc \in Before,
         pc' \in Before \cup {"headers", "failed"},
         UNCHANGED <<incoming, buf, bodyVars>>
  PROVE  Answering'
<1>1. Fresh /\ incoming = Input /\ buf = <<>>
  BY DEF Answering, RequestFirst
<1>2. UNCHANGED <<status, reader, delivered, late, incoming, buf>>
  BY DEF bodyVars
<1>3. CASE pc' = "failed"
  BY <1>1, <1>2, <1>3, ToFailed
<1>4. CASE pc' \in Before \cup {"headers"}
  <2>1. Fresh' /\ incoming' = Input' /\ buf' = <<>>
    BY <1>1, <1>2, KeepsWhole DEF Fresh
  <2>2. /\ Views(Input, 1, <<>>, Input) /\ At(Input, <<>>, Input) = 1
    <3>1. Input \in Seq(Bytes) /\ Len(Input) \in Nat /\ <<>> \in Seq(Bytes) /\ Len(<<>>) = 0
      BY RestIs, Empty
    <3>2. <<>> \o Input = SubSeq(Input, 1, Len(Input))
      BY <3>1, ConcatEmptySeq, SubSeqFull
    <3>3. QED
      BY <3>1, <3>2 DEF Views, At
  <2>3. View(Input)' /\ Pos(Input)' = 1
    BY <2>1, <2>2, KeepsWhole DEF View, Pos
  <2>4. Final' = FinalFrom(Input')[1]
    BY DEF Final, FinalHead
  <2>5. RequestFirst' /\ HeadsRead'
    BY <2>1, <2>3, <2>4 DEF RequestFirst, HeadsRead
  <2>6. LateOnce' /\ BodyRead' /\ ~Settled' /\ EndsHonest'
    BY <1>4, <2>1 DEF LateOnce, Fresh, BodyRead, Before, Settled, EndsHonest, EndMeansWhole, WholeNeverFails
  <2>7. QED
    BY <2>5, <2>6 DEF Answering
<1>5. QED
  BY <1>3, <1>4

LEMMA RequestAnswers ==
  ASSUME Typed, Answering, ConnectFails \/ HandshakeFails \/ WriteFails \/ Request
  PROVE  Answering'
<1>1. /\ call' = call /\ abortedAt' = abortedAt /\ UNCHANGED <<incoming, buf, bodyVars>>
      /\ pc \in Before /\ pc' \in Before \cup {"headers", "failed"}
  <2> USE DEF Goto, Before
  <2>1. CASE ConnectFails \/ HandshakeFails \/ WriteFails
    BY <2>1 DEF ConnectFails, HandshakeFails, WriteFails
  <2>2. CASE Start \/ Connected \/ Handshake \/ SendHead
    BY <2>2 DEF Start, Connected, Handshake, SendHead
  <2>3. CASE SendBytes \/ SendItem \/ SendLast \/ Flush
    BY <2>3 DEF SendBytes, SendItem, SendLast, Flush
  <2>4. QED
    BY <2>1, <2>2, <2>3 DEF Request
<1>2. QED
  BY <1>1, ToRequest

LEMMA AbortAnswers ==
  ASSUME Typed, Answering, Abort
  PROVE  Answering'
<1>0. pc # "never"
  BY DEF Typed, TypeOK, Places
<1>1. /\ call' = call /\ aborted' /\ ~aborted /\ ~Settled
      /\ UNCHANGED <<pc, incoming, buf, status, reader, delivered, late>>
  BY <1>0 DEF Abort, bodyVars
<1>2. RequestFirst' /\ HeadsRead'
  <2>1. Fresh <=> Fresh'
    BY <1>1 DEF Fresh
  <2>2. \A s : (View(s) <=> Views(s, At(s, buf', incoming'), buf', incoming'))
               /\ Pos(s) = At(s, buf', incoming')
    BY <1>1 DEF View, Pos
  <2>3. QED
    BY <1>1, <2>1, <2>2, KeepsWhole DEF Answering, RequestFirst, HeadsRead, View, Pos
<1>3. BodyRead'
  <2>1. Pos(Rest)' = Pos(Rest) /\ (View(Rest)' <=> View(Rest))
    BY <1>1, KeepsWhole DEF Pos, View
  <2>2. Undecoded' = Undecoded
    BY <1>1, <2>1, KeepsWhole DEF Undecoded
  <2>3. Decoding' <=> Decoding
    BY <1>1, <2>1, <2>2, KeepsWhole DEF Decoding
  <2>4. QED
    BY <1>1, <2>1, <2>3, KeepsWhole DEF Answering, BodyRead
<1>4. LateOnce' /\ ~Settled' /\ EndsHonest'
  BY <1>1 DEF Answering, LateOnce, Settled, EndsHonest, EndMeansWhole, WholeNeverFails
<1>5. QED
  BY <1>2, <1>3, <1>4 DEF Answering

-----------------------------------------------------------------------------
(* HttpFetch: reading a head                                               *)

LEMMA AtMoves ==
  ASSUME NEW s, NEW a, NEW b, NEW c, NEW d, NEW n \in Int, Len(s) \in Nat,
         Len(a) \in Nat, Len(b) \in Nat, Len(c) \in Nat, Len(d) \in Nat,
         Len(c) + Len(d) = Len(a) + Len(b) - n
  PROVE  At(s, a, b) \in Int /\ At(s, c, d) = At(s, a, b) + n
BY DEF At

\* n more bytes are read behind buf.
LEMMA Filled ==
  ASSUME Typed, call' = call, NEW n \in Nat \ {0}, NEW limit, Reads(limit, n), buf' = buf \o Got(n)
  PROVE  /\ View(Input) => View(Input)' /\ Pos(Input)' = Pos(Input)
         /\ View(Rest) => View(Rest)' /\ Pos(Rest)' = Pos(Rest)
<1>1. incoming \in Seq(Bytes) /\ buf \in Seq(Bytes) /\ Len(incoming) \in Nat /\ Len(buf) \in Nat
  BY TypedIs, LenProperties DEF TypedInput
<1>2. n \in 0..Len(incoming) /\ incoming' = SubSeq(incoming, n + 1, Len(incoming))
  BY <1>1 DEF Reads
<1>3. ASSUME NEW s, Views(s, At(s, buf, incoming), buf, incoming)
      PROVE  At(s, buf', incoming') = At(s, buf, incoming) /\ Views(s, At(s, buf, incoming), buf', incoming')
  <2> DEFINE at == At(s, buf, incoming)
  <2>1. ReadMore(s, at, buf, incoming, n)
    BY <1>2, <1>3, ReadIn
  <2>2. Views(s, at, buf', incoming') /\ Len(buf') = Len(buf) + n /\ Len(incoming') = Len(incoming) - n
    BY <1>2, <2>1 DEF Got, ReadMore
  <2>3. Len(s) \in Nat /\ Len(buf') \in Nat /\ Len(incoming') \in Nat
    BY <2>2, ViewIs
  <2>4. At(s, buf', incoming') = at + 0 /\ at \in Int
    <3>1. Len(buf') + Len(incoming') = Len(buf) + Len(incoming) - 0 /\ 0 \in Int
      BY <1>1, <2>2, <2>3
    <3> DEFINE c == buf'
               d == incoming'
    <3>2. /\ Len(c) \in Nat /\ Len(d) \in Nat /\ Len(c) + Len(d) = Len(buf) + Len(incoming) - 0
      BY <2>3, <3>1
    <3> HIDE DEF c, d
    <3>3. At(s, buf, incoming) \in Int /\ At(s, c, d) = At(s, buf, incoming) + 0
      BY <1>1, <2>3, <3>1, <3>2, AtMoves
    <3>4. QED
      BY <3>3 DEF c, d
  <2>5. QED
    BY <2>2, <2>4
<1>4. ASSUME NEW s, View(s)
      PROVE  Views(s, At(s, buf', incoming'), buf', incoming') /\ At(s, buf', incoming') = Pos(s)
  BY <1>3, <1>4 DEF View, Pos
<1>5. QED
  BY <1>4, KeepsWhole DEF View, Pos

\* n bytes of buf are used up.
LEMMA Used ==
  ASSUME Typed, NEW s, View(s), NEW n \in 0..Len(buf)
  PROVE  /\ Views(s, Pos(s) + n, SubSeq(buf, n + 1, Len(buf)), incoming)
         /\ At(s, SubSeq(buf, n + 1, Len(buf)), incoming) = Pos(s) + n
         /\ SubSeq(buf, 1, n) = SubSeq(s, Pos(s), Pos(s) + n - 1)
         /\ SubSeq(buf, 1, n) \in Seq(Bytes)
<1>1. Len(incoming) \in Nat /\ Len(buf) \in Nat /\ Len(s) \in Nat
  BY TypedIs, LenProperties DEF TypedInput, View, Views
<1>a. Consumed(s, Pos(s), buf, incoming, n)
  BY Consume DEF View
<1>2. /\ Views(s, Pos(s) + n, SubSeq(buf, n + 1, Len(buf)), incoming)
      /\ Len(SubSeq(buf, n + 1, Len(buf))) = Len(buf) - n
      /\ SubSeq(buf, 1, n) = SubSeq(s, Pos(s), Pos(s) + n - 1)
      /\ SubSeq(buf, 1, n) \in Seq(Bytes)
  BY <1>a DEF Consumed
<1>3. At(s, SubSeq(buf, n + 1, Len(buf)), incoming) = Pos(s) + n
  <2> DEFINE c == SubSeq(buf, n + 1, Len(buf))
  <2>1. Len(c) = Len(buf) - n
    BY <1>2
  <2> HIDE DEF c
  <2>2. Len(c) \in Nat /\ Len(c) + Len(incoming) = Len(buf) + Len(incoming) - n
    BY <1>1, <2>1
  <2>3. At(s, c, incoming) = At(s, buf, incoming) + n
    BY <1>1, <2>2, AtMoves
  <2>4. QED
    BY <2>3 DEF c, Pos
<1>4. QED
  BY <1>2, <1>3

\* n bytes that come straight from the peer are handed over.
LEMMA Passed ==
  ASSUME Typed, NEW s, View(s), buf = <<>>, NEW n \in Nat \ {0}, NEW limit, Reads(limit, n)
  PROVE  /\ Views(s, Pos(s) + n, <<>>, incoming')
         /\ At(s, <<>>, incoming') = Pos(s) + n
         /\ Got(n) = SubSeq(s, Pos(s), Pos(s) + n - 1)
         /\ Got(n) \in Seq(Bytes)
<1>1. incoming \in Seq(Bytes) /\ Len(incoming) \in Nat /\ Len(s) \in Nat /\ <<>> \in Seq(Bytes)
      /\ Len(<<>>) = 0
  BY TypedIs, LenProperties, Empty DEF TypedInput, View, Views
<1>2. n \in 0..Len(incoming) /\ incoming' = SubSeq(incoming, n + 1, Len(incoming))
  BY <1>1 DEF Reads
<1> DEFINE p == Pos(s)
           a == <<>> \o SubSeq(incoming, 1, n)
<1>3. Views(s, p, <<>>, incoming)
  BY DEF View
<1>4. /\ Views(s, p, a, incoming') /\ Len(a) = Len(<<>>) + n
      /\ Len(SubSeq(incoming, n + 1, Len(incoming))) = Len(incoming) - n
  <2> HIDE DEF p
  <2>1. ReadMore(s, p, <<>>, incoming, n)
    BY <1>2, <1>3, ReadIn
  <2>2. QED
    BY <1>2, <2>1 DEF ReadMore
<1>5. a = Got(n) /\ Got(n) \in Seq(Bytes)
  <2>1. SubSeq(incoming, 1, n) \in Seq(Bytes)
    BY <1>1, <1>2, Refill
  <2>2. QED
    BY <2>1, ConcatEmptySeq DEF Got
<1> HIDE DEF a, p
<1>6. /\ Len(a) = n /\ n \in 0..Len(a)
      /\ Len(incoming') = Len(incoming) - n
  BY <1>1, <1>2, <1>4
<1>b. Consumed(s, p, a, incoming', n)
  BY <1>4, <1>6, Consume
<1>7. /\ Views(s, p + n, SubSeq(a, n + 1, Len(a)), incoming')
      /\ SubSeq(a, 1, n) = SubSeq(s, p, p + n - 1)
      /\ Len(SubSeq(a, n + 1, Len(a))) = Len(a) - n
      /\ Len(a) + Len(incoming') = Len(s) + 1 - p
  BY <1>b DEF Consumed
<1>8. SubSeq(a, n + 1, Len(a)) = <<>> /\ SubSeq(a, 1, n) = a
  <2>1. SubSeq(a, n + 1, Len(a)) = <<>>
    BY <1>6, SubSeqEmpty
  <2>2. SubSeq(a, 1, Len(a)) = a
    BY <1>5, SubSeqFull
  <2>3. QED
    BY <1>6, <2>1, <2>2
<1>9. p \in Int
  BY <1>3 DEF Views
<1>10. At(s, <<>>, incoming') = p + n
  <2> DEFINE d == incoming'
  <2>1. Len(d) = Len(incoming) - n /\ Len(d) + n = Len(s) + 1 - p /\ Len(<<>>) = 0
    BY <1>1, <1>6, <1>7
  <2> HIDE DEF d
  <2>2. Len(d) \in Int
    BY <1>1, <1>2, <2>1
  <2>3. Len(s) + 1 - Len(<<>>) - Len(d) = p + n
    BY <1>1, <1>2, <1>9, <2>1, <2>2
  <2>4. QED
    BY <2>3 DEF At, d
<1>11. QED
  BY <1>5, <1>7, <1>8, <1>10 DEF p

LEMMA ReadHeadAnswers ==
  ASSUME Typed, Answering, ReadHead
  PROVE  Answering'
<1>1. PICK n \in 1..ReadSize : Reads(ReadSize, n) /\ buf' = buf \o Got(n)
  BY DEF ReadHead
<1>2. /\ pc = "headers" /\ call' = call /\ abortedAt' = abortedAt /\ pc' = pc /\ n \in Nat \ {0}
      /\ UNCHANGED <<status, reader, delivered, late>>
  BY <1>1, FetchAssumption DEF ReadHead, bodyVars
<1>3. /\ Fresh /\ View(Input)
      /\ Pos(Input) = 1 \/ Pos(Input) - 4 \in Found(Input, Separator)
      /\ Final = FinalFrom(Input)[Pos(Input)]
  BY <1>2 DEF Answering, HeadsRead
<1>4. View(Input)' /\ Pos(Input)' = Pos(Input)
  BY <1>1, <1>2, <1>3, Filled
<1>5. HeadsRead'
  <2>1. Input' = Input /\ Final' = Final /\ Fresh'
    BY <1>2, <1>3, KeepsWhole DEF Fresh
  <2>2. QED
    BY <1>3, <1>4, <2>1 DEF HeadsRead
<1>6. LateOnce' /\ BodyRead' /\ ~Settled' /\ EndsHonest' /\ RequestFirst'
  BY <1>2, <1>3 DEF LateOnce, Fresh, BodyRead, RequestFirst, Before, Settled, EndsHonest, EndMeansWhole, WholeNeverFails
<1>7. QED
  BY <1>5, <1>6 DEF Answering

LEMMA HeadFailsAnswers ==
  ASSUME Typed, Answering, HeadFails
  PROVE  Answering'
<1>1. /\ pc = "headers" /\ Found(buf, Separator) = {} /\ (Len(buf) > MaxHeader \/ AtEnd)
      /\ call' = call /\ abortedAt' = abortedAt /\ pc' = "failed"
      /\ UNCHANGED <<status, delivered, late, incoming>>
  BY DEF HeadFails, Goto, bodyVars
<1>2. /\ View(Input)
      /\ Pos(Input) = 1 \/ Pos(Input) - 4 \in Found(Input, Separator)
      /\ Final = FinalFrom(Input)[Pos(Input)]
  BY <1>1 DEF Answering, HeadsRead
<1> DEFINE s == Input
           p == Pos(Input)
           from == {j \in Found(s, Separator) : j >= p}
<1>3. /\ s \in Seq(Bytes) /\ Views(s, p, buf, incoming) /\ p \in 1..(Len(s) + 1)
      /\ Len(s) \in Nat /\ Len(buf) \in Nat /\ p + Len(buf) <= Len(s) + 1
      /\ \A k \in 1..Len(buf) : buf[k] = s[p + k - 1]
  BY <1>2, RestIs, ViewIs DEF View
<1>4. Len(Separator) \in Nat /\ Len(Separator) > 0 /\ Len(Separator) = 4
  BY Marks
<1>5. Final.ok => Final.next - 4 \in from /\ Final.next \in 1..(Len(s) + 1)
  <2>1. Final.ok => Final.next - 4 \in Found(s, Separator) /\ Final.next - 4 >= p
                    /\ Final.next \in 1..(Len(s) + 1)
    BY <1>2, <1>3, FinalTyped
  <2>2. QED
    BY <2>1
<1>6. CASE AtEnd
  <2>1. Views(s, p, buf, <<>>)
    BY <1>3, <1>6 DEF AtEnd
  <2>2. from = {}
    BY <1>1, <1>4, <2>1, NoneIn
  <2>3. ~Whole.whole
    BY <1>5, <2>2, WholeIs
  <2>4. QED
    BY <1>1, <2>3, ToFailed
<1>7. CASE Len(buf) > MaxHeader
  <2>1. Firsts(s, p, buf, Separator)
    BY <1>3, <1>4, FirstIn
  <2>2. Final.ok => Final.next - 4 + 4 > p + Len(buf)
    <3> SUFFICES ASSUME Final.ok PROVE Final.next - 4 + 4 > p + Len(buf)
      OBVIOUS
    <3> DEFINE g == First(from)
    <3>1. from # {} /\ Final.next - 4 \in Found(s, Separator) /\ Final.next - 4 >= p
      BY <1>5
    <3>2. g + 4 > p + Len(buf)
      BY <1>1, <1>4, <2>1, <3>1 DEF Firsts
    <3>a. Bounded(s, Separator, p)
      BY <1>3, <1>4, FoundBounds
    <3>3. /\ g \in Found(s, Separator)
          /\ \A j \in Found(s, Separator) : j >= p => g <= j
      BY <3>1, <3>a DEF Bounded
    <3>4. g \in Nat
      BY <1>3, <1>4, <3>3, FoundTyped
    <3>5. g <= Final.next - 4
      BY <3>1, <3>3
    <3> HIDE DEF g, p
    <3>6. QED
      BY <1>3, <1>5, <3>2, <3>4, <3>5
  <2>3. Final.ok => LongHead(s, MaxHeader)
    <3> SUFFICES ASSUME Final.ok PROVE LongHead(s, MaxHeader)
      OBVIOUS
    <3> DEFINE a == SubSeq(s, p, p + MaxHeader)
    <3>1. MaxHeader \in Nat /\ Final.next \in 1..(Len(s) + 1)
      BY <1>5, FetchAssumption
    <3>2. p \in 1..(Final.next - MaxHeader - 1)
      <4> HIDE DEF p
      <4>1. QED
        BY <1>3, <1>7, <2>2, <3>1
    <3>3. p = 1 \/ p - 4 \in Found(s, Separator)
      BY <1>2
    <3>4. a = SubSeq(buf, 1, MaxHeader + 1)
      <4>1. SubSeq(buf, 1, MaxHeader + 1) = SubSeq(s, p + 1 - 1, p + (MaxHeader + 1) - 1)
        <5> HIDE DEF p
        <5>1. MaxHeader + 1 \in Int /\ MaxHeader + 1 <= Len(buf) /\ buf \in Seq(Bytes)
          BY <1>3, <1>7, <3>1, ViewIs
        <5>2. 1 \in Nat /\ 1 > 0
          OBVIOUS
        <5>3. QED
          BY <1>3, <5>1, <5>2, Stretch
      <4>2. p + 1 - 1 = p /\ p + (MaxHeader + 1) - 1 = p + MaxHeader
        <5> HIDE DEF p
        <5>1. QED
          BY <1>3, <3>1
      <4>3. QED
        BY <4>1, <4>2
    <3>5. Found(a, Separator) = {}
      <4> DEFINE m == MaxHeader + 1
                 b == SubSeq(buf, 1, m)
      <4>1. buf \in Seq(Bytes) /\ m \in Int /\ m <= Len(buf) /\ 1 <= m
        BY <1>3, <1>7, <3>1, ViewIs
      <4>2. b \in Seq(Bytes) /\ Len(b) = m /\ \A i \in 1..m : b[i] = buf[1 + i - 1]
        <5> HIDE DEF m
        <5>1. /\ b \in Seq(Bytes) /\ Len(b) = m - 1 + 1
              /\ \A i \in 1..(m - 1 + 1) : b[i] = buf[1 + i - 1]
          BY <4>1, SubSeqIs
        <5>2. m - 1 + 1 = m
          BY <4>1
        <5>3. QED
          BY <5>1, <5>2
      <4> HIDE DEF m, b
      <4>3. 1 \in 1..(Len(buf) + 1) /\ 1 + Len(b) <= Len(buf) + 1 /\ \A i \in 1..Len(b) : b[i] = buf[1 + i - 1]
        BY <1>3, <4>1, <4>2
      <4>4. \A i \in Found(b, Separator) : 1 + i - 1 \in Found(buf, Separator)
        <5>1. \A i \in Found(b, Separator) : i \in Nat /\ i > 0
          <6>1. \A i \in Found(b, Separator) : i \in 1..(Len(b) - Len(Separator) + 1)
            BY <1>4, <4>2, FoundTyped
          <6>2. QED
            BY <6>1
        <5>2. QED
          BY <1>4, <4>1, <4>2, <4>3, <5>1, FoundIn
      <4>5. Found(b, Separator) = {}
        <5>1. Found(buf, Separator) = {}
          BY <1>1
        <5>2. QED
          BY <4>4, <5>1
      <4>6. QED
        BY <3>4, <4>5 DEF b, m
    <3>6. Final = FinalHead(s)
      BY DEF Final
    <3> HIDE DEF a, p, s
    <3>7. p \in 1..(FinalHead(s).next - MaxHeader - 1)
      BY <3>2, <3>6
    <3>8. /\ p = 1 \/ p - 4 \in Found(s, Separator)
          /\ Found(SubSeq(s, p, p + MaxHeader), Separator) = {}
      BY <3>3, <3>5 DEF a
    <3>9. QED
      BY <3>7, <3>8 DEF LongHead
  <2>4. QED
    BY <1>1, <2>3, ToFailed, WholeIs
<1>8. QED
  BY <1>1, <1>6, <1>7

-----------------------------------------------------------------------------
(* HttpFetch: parsing a head                                               *)

\* The head that begins buf is the one at p of s.
HeadHere(s, p, at, lines) ==
  LET h == HeadAt(s, p)
      ok == IsHead(lines) /\ Heads[lines[1]].status # 101
  IN /\ at \in 1..(Len(buf) - 3)
     /\ ~ok => h.ok = FALSE /\ h.interim = FALSE
     /\ ok => /\ h.ok = TRUE /\ h.name = lines[1] /\ h.name \in DOMAIN Heads
              /\ h.next = p + at + 3 /\ h.next - 4 \in Found(s, Separator)
              /\ h.interim <=> Heads[lines[1]].status < 200

LEMMA HeadIs ==
  ASSUME Typed, NEW s, View(s), Found(buf, Separator) # {}
  PROVE  LET at == First(Found(buf, Separator))
         IN HeadHere(s, Pos(s), at, SubSeq(buf, 1, at - 1))
<1> DEFINE p == Pos(s)
           at == First(Found(buf, Separator))
           lines == SubSeq(buf, 1, at - 1)
           from == {j \in Found(s, Separator) : j >= p}
           g == First(from)
           h == HeadAt(s, p)
<1>1. /\ Views(s, p, buf, incoming) /\ s \in Seq(Bytes) /\ p \in 1..(Len(s) + 1)
      /\ Len(s) \in Nat /\ Len(buf) \in Nat /\ p + Len(buf) <= Len(s) + 1
      /\ buf \in Seq(Bytes)
      /\ \A k \in 1..Len(buf) : buf[k] = s[p + k - 1]
  <2>1. Views(s, p, buf, incoming)
    BY DEF View
  <2> HIDE DEF p
  <2>2. QED
    BY <2>1, ViewIs
<1>2. Len(Separator) \in Nat /\ Len(Separator) > 0 /\ Len(Separator) = 4
  BY Marks
<1>3. Firsts(s, p, buf, Separator)
  BY <1>1, <1>2, FirstIn
<1>4. at \in 1..(Len(buf) - Len(Separator) + 1) /\ from # {} /\ g = p + at - 1
  BY <1>3 DEF Firsts
<1>5. at \in 1..(Len(buf) - 3)
  <2> HIDE DEF at
  <2>1. QED
    BY <1>1, <1>2, <1>4
<1>6. lines = SubSeq(s, p, g - 1)
  <2> HIDE DEF at, p, g
  <2>1. /\ 1 \in Nat /\ 1 > 0 /\ at - 1 \in Int /\ at - 1 <= Len(buf)
        /\ p + 1 - 1 = p /\ p + (at - 1) - 1 = g - 1
    BY <1>1, <1>4, <1>5
  <2>2. SubSeq(buf, 1, at - 1) = SubSeq(s, p + 1 - 1, p + (at - 1) - 1)
    BY <1>1, <2>1, Stretch
  <2>3. QED
    BY <2>1, <2>2 DEF at
<1>7. /\ h.ok \in BOOLEAN /\ h.interim \in BOOLEAN
      /\ h.ok <=> /\ from # {} /\ IsHead(SubSeq(s, p, g - 1))
                  /\ Heads[SubSeq(s, p, g - 1)[1]].status # 101
      /\ h.ok => /\ h.name = SubSeq(s, p, g - 1)[1] /\ h.name \in DOMAIN Heads
                 /\ h.next = g + 4
                 /\ h.next - 4 \in Found(s, Separator)
      /\ h.interim <=> h.ok /\ Heads[h.name].status < 200
  <2> HIDE DEF p
  <2>1. QED
    BY <1>1, HeadTyped DEF h, g, from
<1> HIDE DEF h, lines, at, from, g
<1>8. h.ok => h.next = p + at + 3
  <2> HIDE DEF p
  <2> DEFINE n == h.next
  <2>1. h.ok => n = g + 4
    BY <1>7
  <2> HIDE DEF n
  <2>2. h.ok => n = p + at + 3
    BY <1>1, <1>4, <1>5, <2>1
  <2>3. QED
    BY <2>2 DEF n
<1>9. h.ok <=> IsHead(lines) /\ Heads[lines[1]].status # 101
  BY <1>4, <1>6, <1>7
<1>10. h.ok => h.name = lines[1]
  BY <1>6, <1>7
<1>11. HeadHere(s, p, at, lines)
  <2> HIDE DEF p
  <2>1. CASE h.ok
    BY <1>5, <1>7, <1>8, <1>9, <1>10, <2>1 DEF HeadHere, h
  <2>2. CASE ~h.ok
    BY <1>5, <1>7, <1>9, <2>2 DEF HeadHere, h
  <2>3. QED
    BY <2>1, <2>2
<1>12. QED
  BY <1>11 DEF at, lines

\* The body begins where the final head ends.
LEMMA BodyBegins ==
  ASSUME Typed, Final.ok, NEW a, NEW b, Views(Input, Final.next, a, b)
  PROVE  Views(Rest, 1, a, b) /\ At(Rest, a, b) = 1
<1>1. /\ a \in Seq(Bytes) /\ b \in Seq(Bytes) /\ a \o b = Rest
      /\ Len(a) \in Nat /\ Len(b) \in Nat
      /\ Len(a) + Len(b) = Len(Input) + 1 - Final.next
  <2>1. /\ a \in Seq(Bytes) /\ b \in Seq(Bytes) /\ Len(a) \in Nat /\ Len(b) \in Nat
        /\ Len(a) + Len(b) = Len(Input) + 1 - Final.next
    BY ViewIs
  <2>2. a \o b = Rest
    BY DEF Views, Rest
  <2>3. QED
    BY <2>1, <2>2
<1>2. Rest \in Seq(Bytes) /\ Len(Rest) \in Nat /\ Len(Rest) = Len(Input) + 1 - Final.next
  <2> DEFINE n == Final.next
  <2>1. /\ Rest \in Seq(Bytes) /\ Len(Rest) \in Nat /\ n \in 1..(Len(Input) + 1) /\ Len(Input) \in Nat
        /\ n - 1 + Len(Rest) = Len(Input)
    BY RestIs
  <2> HIDE DEF n
  <2>2. Len(Rest) = Len(Input) + 1 - n
    BY <2>1
  <2>3. QED
    BY <2>1, <2>2 DEF n
<1>3. a \o b = SubSeq(Rest, 1, Len(Rest))
  BY <1>1, <1>2, SubSeqFull
<1>4. 1 \in 1..(Len(Rest) + 1)
  BY <1>2
<1>5. Len(Rest) + 1 - Len(a) - Len(b) = 1
  <2>1. Len(Rest) = Len(a) + Len(b)
    BY <1>1, <1>2
  <2>2. QED
    BY <1>1, <1>2, <2>1
<1>6. Views(Rest, 1, a, b)
  BY <1>1, <1>2, <1>3, <1>4 DEF Views
<1>7. QED
  BY <1>5, <1>6 DEF At

LEMMA ParseHeadAnswers ==
  ASSUME Typed, Answering, ParseHead
  PROVE  Answering'
<1> DEFINE s == Input
           p == Pos(s)
           at == First(Found(buf, Separator))
           lines == SubSeq(buf, 1, at - 1)
           head == Heads[lines[1]]
           bad == \/ ~IsHead(lines)
                  \/ head.status = 101
                  \/ head.status >= 200 /\ Framing(head, call.method) = "Invalid"
           h == HeadAt(s, p)
<1>1. /\ pc = "headers" /\ Found(buf, Separator) # {}
      /\ IF bad THEN pc' = "failed" /\ UNCHANGED <<buf, status, reader>>
         ELSE /\ buf' = Behind(at, head)
              /\ IF head.status < 200 THEN UNCHANGED <<pc, status, reader>>
                 ELSE /\ pc' = "answer"
                      /\ status' = head.status
                      /\ reader' = NewReader(Framing(head, call.method), head.length)
      /\ UNCHANGED <<call, abortedAt, requestVars, incoming, delivered, late>>
  BY DEF ParseHead
<1>2. Fresh /\ View(s) /\ Final = FinalFrom(s)[p]
  BY <1>1 DEF Answering, HeadsRead
<1>3. HeadHere(s, p, at, lines)
  BY <1>1, <1>2, HeadIs
<1>4. Final = IF h.interim THEN FinalFrom(s)[h.next] ELSE h
  <2>1. s \in Seq(Bytes) /\ p \in 1..(Len(s) + 1)
    BY <1>2, RestIs, PosIs
  <2>2. FinalFrom(s)[p] = IF HeadAt(s, p).interim THEN FinalFrom(s)[HeadAt(s, p).next]
                          ELSE HeadAt(s, p)
    <3> HIDE DEF p, s
    <3>1. QED
      BY <2>1, FinalStep
  <2>3. QED
    BY <1>2, <2>2
<1> DEFINE n == at + 3
<1>5. /\ at \in 1..(Len(buf) - 3) /\ n \in 0..Len(buf) /\ n + 1 = at + 4 /\ p + n = p + at + 3
      /\ p \in Int
  <2>1. at \in 1..(Len(buf) - 3) /\ Len(buf) \in Nat /\ p \in Int
    <3>1. Len(buf) \in Nat /\ p \in Int
      <4>1. Len(buf) \in Nat /\ Len(s) \in Nat /\ p \in 1..(Len(s) + 1)
        BY <1>2, RestIs, PosIs
      <4> HIDE DEF p, s
      <4>2. QED
        BY <4>1
    <3>2. at \in 1..(Len(buf) - 3)
      BY <1>3 DEF HeadHere
    <3>3. QED
      BY <3>1, <3>2
  <2> HIDE DEF at, p
  <2>2. QED
    BY <2>1
<1>6. Views(s, p + n, SubSeq(buf, n + 1, Len(buf)), incoming)
      /\ At(s, SubSeq(buf, n + 1, Len(buf)), incoming) = p + n
  <2> HIDE DEF n
  <2>1. QED
    BY <1>2, <1>5, Used
<1>7. IsHead(lines) => head.status \in 100..599 /\ head.chunked \in BOOLEAN
                       /\ head.length \in Nat \cup {-1, -2}
  BY HeadsAssumption DEF IsHead
<1>8. IsHead(lines) /\ head.status # 101 =>
        /\ h.ok = TRUE /\ Heads[h.name] = head /\ h.next = p + n
        /\ h.next - 4 \in Found(s, Separator) /\ (h.interim <=> head.status < 200)
  <2> HIDE DEF lines, p, at
  <2>1. QED
    BY <1>3, <1>5 DEF HeadHere
<1>9. ~(IsHead(lines) /\ head.status # 101) => h.ok = FALSE /\ h.interim = FALSE
  BY <1>3 DEF HeadHere
<1> HIDE DEF h, lines, at, n, p
<1>11. CASE bad
  <2>1. ~Whole.whole
    <3>1. CASE ~(IsHead(lines) /\ head.status # 101)
      BY <1>4, <1>9, <3>1, WholeIs
    <3>2. CASE IsHead(lines) /\ head.status # 101
      <4>1. head.status >= 200 /\ Framing(head, call.method) = "Invalid"
        BY <1>11, <3>2
      <4>2. ~h.interim
        <5>1. ~(head.status < 200)
          <6>1. head.status \in 100..599 /\ head.status >= 200
            BY <1>7, <3>2, <4>1
          <6> HIDE DEF head
          <6>2. QED
            BY <6>1
        <5>2. QED
          BY <1>8, <3>2, <5>1
      <4>3. Final.ok /\ FinalFields = head
        BY <1>4, <1>8, <3>2, <4>2 DEF FinalFields
      <4>4. QED
        BY <4>1, <4>3, WholeIs
    <3>3. QED
      BY <3>1, <3>2
  <2>2. QED
    BY <1>1, <1>11, <2>1, ToFailed
<1>12. CASE ~bad /\ head.status < 200
  <2>1. /\ call' = call /\ abortedAt' = abortedAt /\ pc' = "headers" /\ incoming' = incoming
        /\ buf' = SubSeq(buf, n + 1, Len(buf)) /\ UNCHANGED <<status, reader, delivered, late>>
    BY <1>1, <1>5, <1>12 DEF Behind
  <2>2. h.interim /\ h.next = p + n /\ h.next - 4 \in Found(s, Separator)
    BY <1>8, <1>12
  <2>3. Views(s, p + n, buf', incoming') /\ At(s, buf', incoming') = p + n
    BY <1>6, <2>1
  <2>4. Views(s, At(s, buf', incoming'), buf', incoming') /\ At(s, buf', incoming') = h.next
    BY <2>2, <2>3
  <2>5. View(Input)' /\ Pos(Input)' = h.next
    BY <2>1, <2>4, KeepsWhole DEF View, Pos
  <2>6. Final' = FinalFrom(Input)[h.next] /\ Input' = Input
    BY <1>4, <2>1, <2>2, KeepsWhole
  <2>7. Fresh'
    BY <1>2, <2>1 DEF Fresh
  <2>8. HeadsRead' /\ RequestFirst'
    BY <2>1, <2>2, <2>5, <2>6, <2>7 DEF HeadsRead, RequestFirst, Before
  <2>9. LateOnce' /\ BodyRead' /\ ~Settled' /\ EndsHonest'
    BY <1>2, <2>1 DEF LateOnce, Fresh, BodyRead, Settled, EndsHonest, EndMeansWhole, WholeNeverFails
  <2>10. QED
    BY <2>8, <2>9 DEF Answering
<1>13. CASE ~bad /\ ~(head.status < 200)
  <2> DEFINE f == Framing(head, call.method)
  <2>1. /\ call' = call /\ abortedAt' = abortedAt /\ pc' = "answer" /\ incoming' = incoming
        /\ buf' = SubSeq(buf, n + 1, Len(buf)) /\ UNCHANGED <<delivered, late>>
        /\ status' = head.status /\ reader' = NewReader(f, head.length)
    BY <1>1, <1>5, <1>13 DEF Behind
  <2>1a. IsHead(lines) /\ head.status # 101
    BY <1>13
  <2>1b. head.status \in 100..599
    BY <1>7, <2>1a
  <2>1c. head.status >= 200
    BY <1>13, <2>1b
  <2>1d. f # "Invalid"
    BY <1>13, <2>1c
  <2>2. IsHead(lines) /\ head.status # 101 /\ f # "Invalid" /\ head.status \in Int
    BY <2>1a, <2>1b, <2>1d
  <2>3. Final = h /\ Final.ok /\ FinalFields = head /\ Final.next = p + n
    BY <1>4, <1>8, <1>13, <2>2 DEF FinalFields
  <2>4. Views(Rest, 1, buf', incoming') /\ At(Rest, buf', incoming') = 1
    <3>1. Views(Input, Final.next, buf', incoming')
      BY <1>6, <2>1, <2>3
    <3>2. QED
      BY <2>3, <3>1, BodyBegins
  <2>5. View(Rest)' /\ Pos(Rest)' = 1 /\ Rest' = Rest
    BY <2>1, <2>4, KeepsWhole DEF View, Pos
  <2> HIDE DEF f
  <2>6. /\ reader'.framing = f /\ reader'.length = head.length /\ reader'.read = 0
        /\ reader'.left = 0 /\ reader'.crlf = FALSE
    <3> DEFINE k == head.length
    <3>1. reader' = NewReader(f, k)
      BY <2>1
    <3> HIDE DEF k
    <3>2. QED
      BY <3>1 DEF NewReader, k
  <2>7. delivered' = <<>> /\ late' = 0
    BY <1>2, <2>1 DEF Fresh
  <2>8. f = "ContentLength" => head.length \in Nat
    BY <1>7, <2>2, FramingTyped DEF f
  <2>9. Decoding'
    <3>1. SubSeq(Rest, 1, 0) = <<>> /\ Rest \in Seq(Bytes)
      BY RestIs, SubSeqEmpty
    <3>2. Undecoded' = ChunkedBody(Rest)
      BY <2>5, <2>6 DEF Undecoded, ChunkedBody
    <3>3. ChunkedBody(Rest) \in Body
      <4>1. 1 \in 1..(Len(Rest) + 1)
        BY RestIs
      <4>2. QED
        BY <3>1, <4>1, ChunkedStep DEF ChunkedBody
    <3>4. ChunkedBody(Rest).body = <<>> \o ChunkedBody(Rest).body
      BY <3>3, ConcatEmptySeq DEF Body
    <3>5. reader'.framing \in {"ContentLength", "UntilEof"} =>
            /\ Pos(Rest)' = reader'.read + 1 /\ delivered' = SubSeq(Rest', 1, reader'.read)
            /\ reader'.framing = "ContentLength" => reader'.read <= reader'.length
      BY <2>5, <2>6, <2>7, <2>8, <3>1
    <3>6. /\ reader'.left > 0 => ~reader'.crlf
          /\ ChunkedBody(Rest').body = delivered' \o Undecoded'.body
          /\ ChunkedBody(Rest').whole = Undecoded'.whole
      BY <2>5, <2>6, <2>7, <3>2, <3>4
    <3>7. QED
      BY <2>7, <3>5, <3>6 DEF Decoding
  <2>10. BodyRead'
    <3>1. /\ Final'.ok /\ status' = FinalFields'.status
          /\ reader'.framing = Framing(FinalFields', call'.method)
          /\ reader'.length = FinalFields'.length
      BY <2>1, <2>3, <2>6, KeepsWhole DEF f
    <3>2. QED
      BY <2>5, <2>9, <3>1 DEF BodyRead
  <2>11. LateOnce'
    BY <2>7 DEF LateOnce
  <2>12. QED
    BY <2>1, <2>10, <2>11, ToBody
<1>14. QED
  BY <1>11, <1>12, <1>13

-----------------------------------------------------------------------------
(* HttpFetch: a body that is not chunked                                   *)

LEMMA ReadingIs ==
  ASSUME Typed, Answering, Answered
  PROVE  /\ Final.ok /\ status = FinalFields.status
         /\ reader.framing = Framing(FinalFields, call.method) /\ reader.framing = Whole.framing
         /\ reader.length = FinalFields.length /\ View(Rest) /\ Decoding /\ BodyRead /\ LateOnce
BY WholeIs DEF Answering, BodyRead, Answered

LEMMA BodyKept ==
  ASSUME Typed, Answering, Answered, call' = call, pc' \in {"response", "chunk"},
         UNCHANGED <<incoming, buf, status, reader, delivered>>, LateOnce'
  PROVE  Answering'
<1>1. /\ Input' = Input /\ Final' = Final /\ FinalFields' = FinalFields /\ Rest' = Rest
      /\ Pos(Rest)' = Pos(Rest) /\ View(Rest)' = View(Rest)
  BY KeepsWhole DEF Pos, View
<1>2. Undecoded' = Undecoded
  BY <1>1 DEF Undecoded
<1>3. Decoding' = Decoding
  BY <1>1, <1>2 DEF Decoding
<1>4. BodyRead'
  BY <1>1, <1>3, ReadingIs DEF BodyRead
<1>5. QED
  BY <1>4, ToBody

LEMMA AnswerAnswers ==
  ASSUME Typed, Answering, Answer
  PROVE  Answering'
<1>1. /\ pc = "answer" /\ call' = call /\ abortedAt' = abortedAt
      /\ UNCHANGED <<incoming, buf, status, reader, delivered, late>>
      /\ pc' = IF status \in NullBodyStatus \/ status > 599 THEN "failed" ELSE "response"
  BY DEF Answer, Goto, bodyVars
<1>2. status \in {0} \cup 200..599
  BY TypedIs DEF TypedBody
<1>3. CASE status \in NullBodyStatus
  BY <1>1, <1>3, ToFailed
<1>4. CASE status \notin NullBodyStatus
  <2>1. pc' = "response"
    BY <1>1, <1>2, <1>4
  <2>2. LateOnce'
    BY <1>1 DEF LateOnce, Answering
  <2>3. QED
    BY <1>1, <2>1, <2>2, BodyKept DEF Answered
<1>5. QED
  BY <1>3, <1>4

LEMMA PullAnswers ==
  ASSUME Typed, Answering, Pull
  PROVE  Answering'
<1>1. /\ pc = "response" /\ call' = call /\ abortedAt' = abortedAt
      /\ UNCHANGED <<incoming, buf, status, reader, delivered, late>>
      /\ pc' = IF aborted THEN "failed" ELSE "chunk"
  BY DEF Pull, BodyStep, bodyVars
<1>2. CASE aborted
  BY <1>1, <1>2, ToFailed
<1>3. CASE ~aborted
  <2>1. LateOnce'
    BY <1>1, <1>3 DEF LateOnce, Answering
  <2>2. QED
    BY <1>1, <1>3, <2>1, BodyKept DEF Answered
<1>4. QED
  BY <1>2, <1>3

LEMMA EndsAnswers ==
  ASSUME Typed, Answering, pc = "chunk", Ends, delivered = Whole.body,
         Whole.whole \/ (Whole.framing = "UntilEof" /\ call.end = "reset" /\ delivered # <<>>)
  PROVE  Answering'
BY ToEnded DEF Ends, BodyStep, bodyVars

LEMMA FailsAnswers ==
  ASSUME Typed, Answering, Fails, ~Whole.whole
  PROVE  Answering'
BY ToFailed DEF Fails, BodyStep, bodyVars

LEMMA NoBodyAnswers ==
  ASSUME Typed, Answering, NoBody
  PROVE  Answering'
<1>1. pc = "chunk" /\ reader.framing = "None" /\ Ends /\ Answered
  BY DEF NoBody, Answered
<1>2. Final.ok /\ Whole.framing = "None" /\ delivered = <<>>
  BY <1>1, ReadingIs DEF Decoding
<1>3. QED
  BY <1>1, <1>2, WholeIs, EndsAnswers

\* A chunk that comes through: at most one after the abort.
LEMMA YieldOnce ==
  ASSUME LateOnce, pc = "chunk", NEW bytes, Yield(bytes), abortedAt' = abortedAt, aborted \in BOOLEAN
  PROVE  LateOnce'
BY DEF LateOnce, Yield

\* A body of a known length, or up to the end.
LEMMA PlainIs ==
  ASSUME Typed, Answering, Plain
  PROVE  /\ pc = "chunk" /\ Answered /\ Final.ok /\ View(Rest) /\ LateOnce
         /\ reader.framing \in {"ContentLength", "UntilEof"} /\ Whole.framing = reader.framing
         /\ reader.length = FinalFields.length
         /\ reader.read \in Nat /\ reader.length \in Int
         /\ Rest \in Seq(Bytes) /\ Len(Rest) \in Nat
         /\ Len(buf) \in Nat /\ Len(incoming) \in Nat
         /\ Pos(Rest) = reader.read + 1 /\ delivered = SubSeq(Rest, 1, reader.read)
         /\ reader.read <= Len(Rest)
         /\ reader.read + Len(buf) + Len(incoming) = Len(Rest)
         /\ reader.framing = "ContentLength" =>
              reader.read <= reader.length /\ Owed = reader.length - reader.read
<1>1. pc = "chunk" /\ Answered /\ reader.framing \in {"ContentLength", "UntilEof"}
  BY DEF Plain, Answered
<1>2. /\ Final.ok /\ Whole.framing = reader.framing /\ reader.length = FinalFields.length
      /\ View(Rest) /\ Decoding /\ LateOnce
  BY <1>1, ReadingIs
<1>3. reader.read \in Nat /\ reader.length \in Int
  BY TypedIs, ReaderIs
<1>4. /\ Pos(Rest) = reader.read + 1 /\ delivered = SubSeq(Rest, 1, reader.read)
      /\ reader.framing = "ContentLength" => reader.read <= reader.length
  BY <1>1, <1>2 DEF Decoding
<1>5. /\ Rest \in Seq(Bytes) /\ Len(Rest) \in Nat /\ Len(buf) \in Nat /\ Len(incoming) \in Nat
      /\ Pos(Rest) + Len(buf) + Len(incoming) = Len(Rest) + 1
  BY <1>2, RestIs, PosIs
<1>6. reader.read <= Len(Rest) /\ reader.read + Len(buf) + Len(incoming) = Len(Rest)
  BY <1>3, <1>4, <1>5
<1>7. QED
  BY <1>1, <1>2, <1>3, <1>4, <1>5, <1>6 DEF Owed

LEMMA PlainDoneAnswers ==
  ASSUME Typed, Answering, PlainDone
  PROVE  Answering'
<1>1. Plain /\ reader.framing = "ContentLength" /\ Owed = 0 /\ Ends
  BY DEF PlainDone
<1>2. /\ pc = "chunk" /\ Final.ok /\ Whole.framing = "ContentLength" /\ reader.length = FinalFields.length
      /\ reader.read \in Nat /\ reader.length \in Int /\ Len(Rest) \in Nat
      /\ delivered = SubSeq(Rest, 1, reader.read)
      /\ reader.read <= Len(Rest) /\ Owed = reader.length - reader.read
  BY <1>1, PlainIs
<1>3. reader.length = reader.read /\ Smaller(reader.length, Len(Rest)) = reader.read
  BY <1>1, <1>2 DEF Smaller
<1>4. Whole.body = delivered /\ Whole.whole
  BY <1>2, <1>3, WholeIs
<1>5. QED
  BY <1>1, <1>2, <1>4, EndsAnswers

\* n bytes more of it are handed over.
LEMMA PlainTakes ==
  ASSUME Typed, Answering, Plain, NEW n \in Nat,
         Views(Rest, Pos(Rest) + n, buf', incoming'), At(Rest, buf', incoming') = Pos(Rest) + n,
         reader.framing = "ContentLength" => n <= Owed,
         reader' = [reader EXCEPT !.read = @ + n],
         Yield(SubSeq(Rest, Pos(Rest), Pos(Rest) + n - 1)), BodyStep, status' = status
  PROVE  Answering'
<1>1. call' = call /\ abortedAt' = abortedAt /\ pc' = "response" /\ aborted \in BOOLEAN
  BY TypedIs DEF BodyStep, Yield, TypedPlace
<1>2. /\ pc = "chunk" /\ Answered /\ Final.ok /\ View(Rest) /\ LateOnce
      /\ reader.framing \in {"ContentLength", "UntilEof"}
      /\ reader.read \in Nat /\ reader.length \in Int
      /\ Rest \in Seq(Bytes) /\ Len(Rest) \in Nat
      /\ Pos(Rest) = reader.read + 1 /\ delivered = SubSeq(Rest, 1, reader.read)
      /\ reader.read <= Len(Rest)
      /\ reader.framing = "ContentLength" =>
           reader.read <= reader.length /\ Owed = reader.length - reader.read
  BY PlainIs
<1> DEFINE r == reader.read
<1>3. /\ reader'.framing = reader.framing /\ reader'.length = reader.length
      /\ reader'.read = r + n /\ reader'.left = reader.left /\ reader'.crlf = reader.crlf
  BY TypedIs DEF TypedBody
<1>4. Pos(Rest) + n \in 1..(Len(Rest) + 1)
  BY DEF Views
<1> DEFINE p == Pos(Rest)
<1> HIDE DEF p
<1>5. r + n <= Len(Rest) /\ p + n = (r + n) + 1 /\ p + n - 1 = r + n /\ p = r + 1
  BY <1>2, <1>4 DEF p
<1>6. delivered' = SubSeq(Rest, 1, r + n)
  <2>1. delivered' = SubSeq(Rest, 1, r) \o SubSeq(Rest, r + 1, r + n)
    BY <1>2, <1>5 DEF Yield, p
  <2>2. r \in 0..Len(Rest) /\ r + n \in r..Len(Rest)
    BY <1>2, <1>5
  <2> DEFINE m == r + n
  <2> HIDE DEF m, r
  <2>3. SubSeq(Rest, 1, r) \o SubSeq(Rest, r + 1, m) = SubSeq(Rest, 1, m)
    BY <1>2, <2>2, Adjacent DEF m
  <2>4. QED
    BY <2>1, <2>3 DEF m
<1>7. View(Rest)' /\ Pos(Rest)' = p + n /\ Rest' = Rest
  BY <1>1, KeepsWhole DEF View, Pos, p
<1>8. reader.framing = "ContentLength" => r + n <= reader.length
  BY <1>2
<1>9. Decoding'
  BY <1>2, <1>3, <1>5, <1>6, <1>7, <1>8 DEF Decoding
<1>10. BodyRead'
  BY <1>1, <1>2, <1>3, <1>7, <1>9, ReadingIs, KeepsWhole DEF BodyRead
<1>11. LateOnce'
  BY <1>1, <1>2, YieldOnce
<1>12. QED
  BY <1>1, <1>10, <1>11, ToBody

LEMMA PlainBufferedAnswers ==
  ASSUME Typed, Answering, PlainBuffered
  PROVE  Answering'
<1> DEFINE n == IF reader.framing = "UntilEof" THEN Len(buf) ELSE Smaller(Len(buf), Owed)
<1>1. /\ Plain /\ Owed > 0 /\ buf' = SubSeq(buf, n + 1, Len(buf))
      /\ reader' = [reader EXCEPT !.read = @ + n] /\ Yield(SubSeq(buf, 1, n))
      /\ status' = status /\ incoming' = incoming /\ BodyStep
  BY DEF PlainBuffered
<1>2. /\ View(Rest) /\ Len(buf) \in Nat /\ reader.framing \in {"ContentLength", "UntilEof"}
      /\ reader.read \in Nat /\ reader.length \in Int
      /\ reader.framing = "ContentLength" => Owed = reader.length - reader.read
  BY <1>1, PlainIs
<1>3. n \in 0..Len(buf) /\ (reader.framing = "ContentLength" => n <= Owed)
  <2>1. CASE reader.framing = "UntilEof"
    BY <1>2, <2>1
  <2>2. CASE reader.framing = "ContentLength"
    BY <1>1, <1>2, <2>2 DEF Smaller
  <2>3. QED
    BY <1>2, <2>1, <2>2
<1> HIDE DEF n
<1>4. /\ Views(Rest, Pos(Rest) + n, SubSeq(buf, n + 1, Len(buf)), incoming)
      /\ At(Rest, SubSeq(buf, n + 1, Len(buf)), incoming) = Pos(Rest) + n
      /\ SubSeq(buf, 1, n) = SubSeq(Rest, Pos(Rest), Pos(Rest) + n - 1)
  BY <1>2, <1>3, Used
<1>5. n \in Nat /\ Views(Rest, Pos(Rest) + n, buf', incoming') /\ At(Rest, buf', incoming') = Pos(Rest) + n
      /\ Yield(SubSeq(Rest, Pos(Rest), Pos(Rest) + n - 1))
  <2> DEFINE p == Pos(Rest) + n
             c == SubSeq(buf, n + 1, Len(buf))
  <2>1. Views(Rest, p, c, incoming) /\ At(Rest, c, incoming) = p /\ buf' = c /\ incoming' = incoming
    BY <1>1, <1>4
  <2>2. Yield(SubSeq(Rest, Pos(Rest), Pos(Rest) + n - 1)) /\ n \in Nat
    <3>1. Yield(SubSeq(buf, 1, n)) /\ n \in Nat
      BY <1>1, <1>3
    <3>2. SubSeq(buf, 1, n) = SubSeq(Rest, Pos(Rest), Pos(Rest) + n - 1)
      BY <1>4
    <3>3. QED
      BY <3>1, <3>2, Zenon
  <2> HIDE DEF p, c
  <2>3. Views(Rest, p, buf', incoming') /\ At(Rest, buf', incoming') = p
    BY <2>1
  <2>4. QED
    BY <2>2, <2>3 DEF p
<1>6. QED
  BY <1>1, <1>3, <1>5, PlainTakes

LEMMA PlainReadAnswers ==
  ASSUME Typed, Answering, PlainRead
  PROVE  Answering'
<1>1. PICK n \in 1..ReadSize :
        /\ Reads(Smaller(ReadSize, Owed), n)
        /\ reader' = [reader EXCEPT !.read = @ + n] /\ Yield(Got(n))
  BY DEF PlainRead
<1>2. Plain /\ Owed > 0 /\ buf = <<>> /\ buf' = <<>> /\ status' = status /\ BodyStep
  BY DEF PlainRead
<1>3. /\ View(Rest) /\ reader.read \in Nat /\ reader.length \in Int
      /\ reader.framing = "ContentLength" => Owed = reader.length - reader.read
  BY <1>2, PlainIs
<1>4. n \in Nat \ {0} /\ ReadSize \in Nat
  BY <1>1, FetchAssumption
<1>5. reader.framing = "ContentLength" => n <= Owed
  BY <1>1, <1>3, <1>4 DEF Reads, Smaller
<1>6. /\ Views(Rest, Pos(Rest) + n, <<>>, incoming')
      /\ At(Rest, <<>>, incoming') = Pos(Rest) + n
      /\ Got(n) = SubSeq(Rest, Pos(Rest), Pos(Rest) + n - 1)
  BY <1>1, <1>2, <1>3, <1>4, Passed
<1>7. n \in Nat /\ Views(Rest, Pos(Rest) + n, buf', incoming') /\ At(Rest, buf', incoming') = Pos(Rest) + n
      /\ Yield(SubSeq(Rest, Pos(Rest), Pos(Rest) + n - 1))
  BY <1>1, <1>2, <1>4, <1>6
<1>8. QED
  BY <1>1, <1>2, <1>5, <1>7, PlainTakes

LEMMA PlainEndsAnswers ==
  ASSUME Typed, Answering, PlainEnds
  PROVE  Answering'
<1>1. /\ Plain /\ Owed > 0 /\ buf = <<>> /\ incoming = <<>> /\ call.end # "open"
      /\ IF reader.framing = "UntilEof" /\ (call.end = "fin" \/ reader.read > 0) THEN Ends ELSE Fails
  BY DEF PlainEnds, AtEnd
<1>2. /\ pc = "chunk" /\ Final.ok /\ reader.framing \in {"ContentLength", "UntilEof"}
      /\ Whole.framing = reader.framing /\ reader.length = FinalFields.length
      /\ reader.read \in Nat /\ reader.length \in Int
      /\ Rest \in Seq(Bytes) /\ Len(Rest) \in Nat
      /\ delivered = SubSeq(Rest, 1, reader.read)
      /\ reader.read + Len(buf) + Len(incoming) = Len(Rest)
      /\ reader.framing = "ContentLength" => Owed = reader.length - reader.read
  BY <1>1, PlainIs
<1>3. reader.read = Len(Rest)
  BY <1>1, <1>2, Empty
<1>4. CASE reader.framing = "ContentLength"
  <2>1. ~(Len(Rest) >= FinalFields.length)
    BY <1>1, <1>2, <1>3, <1>4
  <2>2. QED
    BY <1>1, <1>2, <1>4, <2>1, WholeIs, FailsAnswers
<1>5. CASE reader.framing = "UntilEof"
  <2>1. delivered = Rest /\ Whole.body = delivered /\ (Whole.whole <=> call.end = "fin")
    BY <1>2, <1>3, <1>5, SubSeqFull, WholeIs
  <2>2. call.end \in {"fin", "reset", "open"}
    BY CallTyped DEF Typed
  <2>3. CASE call.end = "fin"
    BY <1>1, <1>2, <1>5, <2>1, <2>3, EndsAnswers
  <2>4. CASE call.end = "reset" /\ reader.read > 0
    <3>1. delivered # <<>>
      BY <1>2, <1>3, <2>1, <2>4, Empty
    <3>2. QED
      BY <1>1, <1>2, <1>5, <2>1, <2>4, <3>1, EndsAnswers
  <2>5. CASE call.end = "reset" /\ ~(reader.read > 0)
    BY <1>1, <2>1, <2>5, FailsAnswers
  <2>6. QED
    BY <1>1, <2>2, <2>3, <2>4, <2>5
<1>6. QED
  BY <1>2, <1>4, <1>5

-----------------------------------------------------------------------------
(* HttpFetch: a chunked body                                               *)

\* A chunked body.
LEMMA ChunkedIs ==
  ASSUME Typed, Answering, Chunked
  PROVE  /\ pc = "chunk" /\ Answered /\ Final.ok /\ View(Rest) /\ LateOnce /\ BodyRead
         /\ Whole.framing = "Chunked" /\ reader.framing = "Chunked"
         /\ reader.left \in Nat /\ reader.crlf \in BOOLEAN
         /\ reader.left > 0 => ~reader.crlf
         /\ Rest \in Seq(Bytes) /\ Len(Rest) \in Nat
         /\ Len(buf) \in Nat /\ Len(incoming) \in Nat
         /\ Pos(Rest) \in 1..(Len(Rest) + 1) /\ Pos(Rest) \in Nat
         /\ Pos(Rest) + Len(buf) + Len(incoming) = Len(Rest) + 1
         /\ delivered \in Seq(Bytes) /\ Undecoded \in Body
         /\ ChunkedBody(Rest).body = delivered \o Undecoded.body
         /\ ChunkedBody(Rest).whole = Undecoded.whole
         /\ Whole.body = ChunkedBody(Rest).body /\ Whole.whole = ChunkedBody(Rest).whole
<1>1. pc = "chunk" /\ Answered /\ reader.framing = "Chunked"
  BY DEF Chunked, Answered
<1>2. /\ Final.ok /\ Whole.framing = "Chunked" /\ View(Rest) /\ Decoding /\ LateOnce /\ BodyRead
  BY <1>1, ReadingIs
<1>3. reader.left \in Nat /\ reader.crlf \in BOOLEAN /\ delivered \in Seq(Bytes)
  BY TypedIs, ReaderIs DEF TypedBody
<1>4. /\ Rest \in Seq(Bytes) /\ Len(Rest) \in Nat /\ Len(buf) \in Nat /\ Len(incoming) \in Nat
      /\ Pos(Rest) \in 1..(Len(Rest) + 1)
      /\ Pos(Rest) + Len(buf) + Len(incoming) = Len(Rest) + 1
  BY <1>2, RestIs, PosIs
<1>5. Pos(Rest) \in Nat
  BY <1>4
<1>6. /\ reader.left > 0 => ~reader.crlf
      /\ ChunkedBody(Rest).body = delivered \o Undecoded.body
      /\ ChunkedBody(Rest).whole = Undecoded.whole
  BY <1>1, <1>2 DEF Decoding
<1>7. Undecoded \in Body
  BY <1>2, UndecodedTyped
<1>8. Whole.body = ChunkedBody(Rest).body /\ Whole.whole = ChunkedBody(Rest).whole
  BY <1>2, WholeIs
<1>9. QED
  BY <1>1, <1>2, <1>3, <1>4, <1>5, <1>6, <1>7, <1>8

\* The decoder moves on: what is handed over and what is left still make the body.
LEMMA ChunkMoves ==
  ASSUME Typed, Answering, Chunked, BodyStep, status' = status, pc' \in {"response", "chunk"},
         reader'.framing = reader.framing, reader'.length = reader.length,
         reader'.left > 0 => ~reader'.crlf,
         View(Rest)', LateOnce',
         NEW bytes \in Seq(Bytes), delivered' = delivered \o bytes,
         Undecoded' \in Body,
         Undecoded.body = bytes \o Undecoded'.body, Undecoded.whole = Undecoded'.whole
  PROVE  Answering'
<1>1. call' = call /\ Rest' = Rest /\ Final' = Final /\ FinalFields' = FinalFields
  BY KeepsWhole DEF BodyStep
<1>2. /\ reader.framing = "Chunked" /\ BodyRead /\ Answered /\ delivered \in Seq(Bytes)
      /\ ChunkedBody(Rest).body = delivered \o Undecoded.body
      /\ ChunkedBody(Rest).whole = Undecoded.whole
  BY ChunkedIs
<1>3. (delivered \o bytes) \o Undecoded'.body = delivered \o (bytes \o Undecoded'.body)
  <2> DEFINE rest == Undecoded'.body
  <2>1. rest \in Seq(Bytes)
    BY DEF Body
  <2> HIDE DEF rest
  <2>2. (delivered \o bytes) \o rest = delivered \o (bytes \o rest)
    BY <1>2, <2>1, Regroup
  <2>3. QED
    BY <2>2 DEF rest
<1>4. ChunkedBody(Rest').body = delivered' \o Undecoded'.body /\ ChunkedBody(Rest').whole = Undecoded'.whole
  BY <1>1, <1>2, <1>3
<1>5. Decoding'
  BY <1>2, <1>4 DEF Decoding
<1>6. BodyRead'
  BY <1>1, <1>2, <1>5 DEF BodyRead, Answered
<1>7. QED
  BY <1>6, ToBody

\* n bytes of a chunk's data are handed over.
LEMMA ChunkTakes ==
  ASSUME Typed, Answering, InData, NEW n \in Nat, n <= reader.left,
         Views(Rest, Pos(Rest) + n, buf', incoming'), At(Rest, buf', incoming') = Pos(Rest) + n,
         SubSeq(Rest, Pos(Rest), Pos(Rest) + n - 1) \in Seq(Bytes),
         reader' = Taken(n),
         Yield(SubSeq(Rest, Pos(Rest), Pos(Rest) + n - 1)), BodyStep, status' = status
  PROVE  Answering'
<1> DEFINE p == Pos(Rest)
           t == p + reader.left
           bytes == SubSeq(Rest, p, p + n - 1)
<1>1. Chunked /\ reader.left > 0
  BY DEF InData
<1>2. /\ pc = "chunk" /\ LateOnce /\ reader.left \in Nat /\ ~reader.crlf
      /\ Rest \in Seq(Bytes) /\ Len(Rest) \in Nat /\ p \in 1..(Len(Rest) + 1) /\ p \in Nat
      /\ delivered \in Seq(Bytes) /\ Undecoded \in Body
  BY <1>1, ChunkedIs
<1>3. /\ reader'.framing = reader.framing /\ reader'.length = reader.length
      /\ reader'.left = reader.left - n
      /\ reader.left = n => reader'.crlf = TRUE
      /\ reader.left # n => reader'.crlf = FALSE
  BY <1>2, TypedIs DEF TypedBody, Taken
<1>4. abortedAt' = abortedAt /\ call' = call /\ aborted \in BOOLEAN
  BY TypedIs DEF BodyStep, TypedPlace
<1>5. Rest' = Rest
  BY <1>4, KeepsWhole
<1>6. View(Rest)' /\ Pos(Rest)' = p + n
  BY <1>5 DEF View, Pos
<1>7. Undecoded = InChunk(Rest, p, t)
  BY <1>1, <1>2 DEF Undecoded
<1>8. p + n \in p..(Len(Rest) + 1) /\ p + n <= t /\ t \in Nat /\ p + n \in 1..(Len(Rest) + 1)
  <2>1. p + n \in 1..(Len(Rest) + 1)
    BY DEF Views
  <2> HIDE DEF p
  <2>2. QED
    BY <1>2, <2>1
<1>9. Undecoded' = InChunk(Rest, p + n, t)
  <2>1. Undecoded' = InChunk(Rest, p + n, p + n + reader'.left)
    <3>1. CASE reader.left = n
      <4>1. reader'.left = 0 /\ reader'.crlf = TRUE
        BY <1>2, <1>3, <3>1
      <4>2. QED
        BY <1>5, <1>6, <4>1 DEF Undecoded
    <3>2. CASE reader.left # n
      <4>1. reader'.left # 0
        BY <1>2, <1>3, <3>2
      <4>2. QED
        BY <1>5, <1>6, <4>1 DEF Undecoded
    <3>3. QED
      BY <3>1, <3>2
  <2>2. p + n + reader'.left = t
    <3> HIDE DEF p
    <3>1. QED
      BY <1>2, <1>3
  <2>3. QED
    BY <2>1, <2>2
<1> HIDE DEF p, t
<1> DEFINE q == p + n
<1> HIDE DEF q
<1>10. /\ InChunk(Rest, p, t).body = SubSeq(Rest, p, q - 1) \o InChunk(Rest, q, t).body
       /\ InChunk(Rest, p, t).whole = InChunk(Rest, q, t).whole
  BY <1>2, <1>8, InChunkTaken DEF q
<1>11. InChunk(Rest, q, t) \in Body
  BY <1>2, <1>8, InChunkTyped DEF q
<1>12. Undecoded' = InChunk(Rest, q, t) /\ SubSeq(Rest, p, q - 1) = bytes
  <2>1. Undecoded' = InChunk(Rest, q, t)
    BY <1>9 DEF q
  <2>2. SubSeq(Rest, p, q - 1) = bytes
    <3>1. q - 1 = p + n - 1
      BY <1>2 DEF q
    <3>2. QED
      BY <3>1, Zenon
  <2>3. QED
    BY <2>1, <2>2
<1>13. bytes \in Seq(Bytes) /\ delivered' = delivered \o bytes /\ Yield(bytes)
  BY DEF Yield, p
<1>14. LateOnce' /\ pc' \in {"response", "chunk"}
  <2>1. pc' = "response"
    BY DEF Yield
  <2> HIDE DEF bytes
  <2>2. QED
    BY <1>2, <1>4, <1>13, <2>1, YieldOnce
<1>15. reader'.left > 0 => ~reader'.crlf
  <2>1. reader'.left > 0 => reader.left # n
    BY <1>2, <1>3
  <2>2. QED
    BY <1>3, <2>1
<1>16. Undecoded.body = bytes \o Undecoded'.body /\ Undecoded.whole = Undecoded'.whole /\ Undecoded' \in Body
  BY <1>7, <1>10, <1>11, <1>12
<1> HIDE DEF bytes
<1>17. QED
  BY <1>1, <1>3, <1>6, <1>13, <1>14, <1>15, <1>16, ChunkMoves

LEMMA ChunkBufferedAnswers ==
  ASSUME Typed, Answering, ChunkBuffered
  PROVE  Answering'
<1> DEFINE n == Smaller(Len(buf), reader.left)
<1>1. /\ InData /\ buf' = SubSeq(buf, n + 1, Len(buf)) /\ reader' = Taken(n)
      /\ Yield(SubSeq(buf, 1, n)) /\ status' = status /\ incoming' = incoming /\ BodyStep
  BY DEF ChunkBuffered
<1>2. View(Rest) /\ Len(buf) \in Nat /\ reader.left \in Nat
  BY <1>1, ChunkedIs DEF InData
<1>3. n \in 0..Len(buf) /\ n <= reader.left
  BY <1>2 DEF Smaller
<1> HIDE DEF n
<1>4. /\ Views(Rest, Pos(Rest) + n, SubSeq(buf, n + 1, Len(buf)), incoming)
      /\ At(Rest, SubSeq(buf, n + 1, Len(buf)), incoming) = Pos(Rest) + n
      /\ SubSeq(buf, 1, n) = SubSeq(Rest, Pos(Rest), Pos(Rest) + n - 1)
      /\ SubSeq(buf, 1, n) \in Seq(Bytes)
  BY <1>2, <1>3, Used
<1> DEFINE p == Pos(Rest) + n
           c == SubSeq(buf, n + 1, Len(buf))
<1>5. Views(Rest, p, c, incoming) /\ At(Rest, c, incoming) = p /\ buf' = c /\ incoming' = incoming
  BY <1>1, <1>4
<1>6. Yield(SubSeq(Rest, Pos(Rest), Pos(Rest) + n - 1)) /\ n \in Nat
      /\ SubSeq(Rest, Pos(Rest), Pos(Rest) + n - 1) \in Seq(Bytes)
  <2>1. Yield(SubSeq(buf, 1, n)) /\ n \in Nat
    BY <1>1, <1>3
  <2>2. SubSeq(buf, 1, n) = SubSeq(Rest, Pos(Rest), Pos(Rest) + n - 1) /\ SubSeq(buf, 1, n) \in Seq(Bytes)
    BY <1>4
  <2>3. QED
    BY <2>1, <2>2, Zenon
<1> HIDE DEF p, c
<1>7. Views(Rest, p, buf', incoming') /\ At(Rest, buf', incoming') = p
  BY <1>5
<1>8. QED
  BY <1>1, <1>3, <1>6, <1>7, ChunkTakes DEF p

LEMMA ChunkReadAnswers ==
  ASSUME Typed, Answering, ChunkRead
  PROVE  Answering'
<1>1. PICK n \in 1..ReadSize :
        Reads(Smaller(ReadSize, reader.left), n) /\ reader' = Taken(n) /\ Yield(Got(n))
  BY DEF ChunkRead
<1>2. InData /\ buf = <<>> /\ buf' = <<>> /\ status' = status /\ BodyStep
  BY DEF ChunkRead
<1>3. View(Rest) /\ reader.left \in Nat
  BY <1>2, ChunkedIs DEF InData
<1>4. n \in Nat \ {0} /\ n <= reader.left
  <2>1. n \in Nat \ {0} /\ ReadSize \in Nat
    BY <1>1, FetchAssumption
  <2>2. QED
    BY <1>1, <1>3, <2>1 DEF Reads, Smaller
<1>5. /\ Views(Rest, Pos(Rest) + n, <<>>, incoming')
      /\ At(Rest, <<>>, incoming') = Pos(Rest) + n
      /\ Got(n) = SubSeq(Rest, Pos(Rest), Pos(Rest) + n - 1)
      /\ Got(n) \in Seq(Bytes)
  BY <1>1, <1>2, <1>3, <1>4, Passed
<1>6. n \in Nat /\ Views(Rest, Pos(Rest) + n, buf', incoming') /\ At(Rest, buf', incoming') = Pos(Rest) + n
      /\ Yield(SubSeq(Rest, Pos(Rest), Pos(Rest) + n - 1))
      /\ SubSeq(Rest, Pos(Rest), Pos(Rest) + n - 1) \in Seq(Bytes)
  BY <1>1, <1>2, <1>4, <1>5
<1>7. QED
  BY <1>1, <1>2, <1>4, <1>6, ChunkTakes

LEMMA MoreIsChunked ==
  ASSUME NeedsMore PROVE Chunked
BY DEF NeedsMore, AtCrlf, AtSize

LEMMA FillAnswers ==
  ASSUME Typed, Answering, Fill
  PROVE  Answering'
<1>1. PICK n \in 1..ReadSize : Reads(ReadSize, n) /\ buf' = buf \o Got(n)
  BY DEF Fill
<1>2. NeedsMore /\ BodyStep /\ pc' = pc /\ UNCHANGED <<status, reader, delivered, late>> /\ n \in Nat \ {0}
  BY <1>1, FetchAssumption DEF Fill, bodyVars
<1>3. /\ Chunked /\ pc = "chunk" /\ View(Rest) /\ LateOnce /\ delivered \in Seq(Bytes)
      /\ Undecoded \in Body /\ (reader.left > 0 => ~reader.crlf)
  BY <1>2, MoreIsChunked, ChunkedIs
<1>4. call' = call /\ Rest' = Rest /\ abortedAt' = abortedAt
  BY <1>2, KeepsWhole DEF BodyStep
<1>5. View(Rest)' /\ Pos(Rest)' = Pos(Rest)
  BY <1>1, <1>2, <1>3, <1>4, Filled
<1>6. Undecoded' = Undecoded
  BY <1>2, <1>4, <1>5 DEF Undecoded
<1>7. /\ <<>> \in Seq(Bytes) /\ delivered' = delivered \o <<>>
      /\ Undecoded.body = <<>> \o Undecoded'.body /\ Undecoded.whole = Undecoded'.whole
      /\ Undecoded' \in Body
  <2>1. Undecoded.body \in Seq(Bytes)
    BY <1>3 DEF Body
  <2>2. QED
    BY <1>2, <1>3, <1>6, <2>1, Empty, ConcatEmptySeq
<1>8. LateOnce'
  BY <1>2, <1>3, <1>4 DEF LateOnce
<1>9. pc' \in {"response", "chunk"} /\ status' = status /\ reader'.framing = reader.framing
      /\ reader'.length = reader.length /\ (reader'.left > 0 => ~reader'.crlf)
  BY <1>2, <1>3
<1>10. QED
  BY <1>2, <1>3, <1>5, <1>7, <1>8, <1>9, ChunkMoves

LEMMA ChunkEndsAnswers ==
  ASSUME Typed, Answering, ChunkEnds
  PROVE  Answering'
<1> DEFINE p == Pos(Rest)
<1>1. (NeedsMore \/ (InData /\ buf = <<>>)) /\ incoming = <<>> /\ Fails
  BY DEF ChunkEnds, AtEnd
<1>2. Chunked
  BY <1>1, MoreIsChunked DEF InData
<1>3. /\ Rest \in Seq(Bytes) /\ Len(Rest) \in Nat /\ Len(buf) \in Nat /\ p \in Nat
      /\ p + Len(buf) + Len(incoming) = Len(Rest) + 1 /\ View(Rest)
      /\ p \in 1..(Len(Rest) + 1) /\ reader.left \in Nat /\ Whole.whole = Undecoded.whole
  BY <1>2, ChunkedIs
<1>4. p + Len(buf) = Len(Rest) + 1
  <2> HIDE DEF p
  <2>1. QED
    BY <1>1, <1>3, Empty
<1>5. CASE InData /\ buf = <<>>
  <2>1. reader.left > 0
    BY <1>5 DEF InData
  <2>2. Undecoded = InChunk(Rest, p, p + reader.left)
    BY <1>3, <2>1 DEF Undecoded
  <2>3. ~(p + reader.left < Len(Rest))
    <3> HIDE DEF p
    <3>1. QED
      BY <1>3, <1>4, <1>5, Empty
  <2>4. ~Undecoded.whole
    BY <2>2, <2>3 DEF InChunk
  <2>5. QED
    BY <1>1, <1>3, <2>4, FailsAnswers
<1>6. CASE AtCrlf /\ Len(buf) < 2
  <2>1. reader.left = 0 /\ reader.crlf
    BY <1>6 DEF AtCrlf
  <2>2. Undecoded = InChunk(Rest, p, p + reader.left)
    BY <2>1 DEF Undecoded
  <2>3. ~(p + reader.left < Len(Rest))
    <3> HIDE DEF p
    <3>1. QED
      BY <1>3, <1>4, <1>6, <2>1
  <2>4. ~Undecoded.whole
    BY <2>2, <2>3 DEF InChunk
  <2>5. QED
    BY <1>1, <1>3, <2>4, FailsAnswers
<1>7. CASE AtSize /\ Found(buf, CRLF) = {}
  <2>1. Undecoded = ChunkedFrom(Rest)[p]
    BY <1>7 DEF Undecoded, AtSize
  <2>2. Views(Rest, p, buf, <<>>)
    BY <1>1, <1>3 DEF View
  <2>3. Len(CRLF) \in Nat /\ Len(CRLF) > 0
    BY Marks
  <2> HIDE DEF p
  <2>4. {j \in Found(Rest, CRLF) : j >= p} = {}
    BY <1>7, <2>2, <2>3, NoneIn
  <2>5. ~Undecoded.whole
    BY <1>3, <2>1, <2>4, NoSizeLine
  <2>6. QED
    BY <1>1, <1>3, <2>5, FailsAnswers
<1>8. QED
  BY <1>1, <1>5, <1>6, <1>7 DEF NeedsMore

-----------------------------------------------------------------------------
(* HttpFetch: every step; what is delivered                                *)

\* Steps in a chunked body that hand nothing over.
LEMMA ChunkSkips ==
  ASSUME Typed, Answering, Chunked, BodyStep, pc' = pc, UNCHANGED <<status, delivered, late>>,
         reader'.framing = reader.framing, reader'.length = reader.length,
         reader'.left > 0 => ~reader'.crlf, View(Rest)',
         Undecoded' = Undecoded
  PROVE  Answering'
<1>1. /\ pc = "chunk" /\ LateOnce /\ Undecoded \in Body
  BY ChunkedIs
<1>2. /\ <<>> \in Seq(Bytes) /\ delivered' = delivered \o <<>> /\ Undecoded' \in Body
      /\ Undecoded.body = <<>> \o Undecoded'.body /\ Undecoded.whole = Undecoded'.whole
  <2>1. Undecoded.body \in Seq(Bytes) /\ delivered \in Seq(Bytes)
    BY <1>1, ChunkedIs DEF Body
  <2>2. QED
    BY <1>1, <2>1, Empty, ConcatEmptySeq
<1>3. LateOnce' /\ pc' \in {"response", "chunk"}
  BY <1>1 DEF LateOnce, BodyStep
<1>4. QED
  BY <1>2, <1>3, ChunkMoves

LEMMA TakeCrlfAnswers ==
  ASSUME Typed, Answering, TakeCrlf
  PROVE  Answering'
<1> DEFINE p == Pos(Rest)
<1>1. Chunked /\ reader.left = 0 /\ reader.crlf /\ Len(buf) >= 2
  BY DEF TakeCrlf, AtCrlf
<1>2. /\ Rest \in Seq(Bytes) /\ Len(Rest) \in Nat /\ Len(buf) \in Nat /\ p \in Nat
      /\ View(Rest) /\ p \in 1..(Len(Rest) + 1) /\ Whole.whole = Undecoded.whole
      /\ Len(incoming) \in Nat /\ p + Len(buf) + Len(incoming) = Len(Rest) + 1
  BY <1>1, ChunkedIs
<1>3. p < Len(Rest) /\ p + 0 = p /\ 2 \in 0..Len(buf)
  <2> HIDE DEF p
  <2>1. QED
    BY <1>1, <1>2
<1>4. Undecoded = InChunk(Rest, p, p)
  BY <1>1, <1>3 DEF Undecoded
<1>5. /\ Views(Rest, p + 2, SubSeq(buf, 2 + 1, Len(buf)), incoming)
      /\ At(Rest, SubSeq(buf, 2 + 1, Len(buf)), incoming) = p + 2
      /\ SubSeq(buf, 1, 2) = SubSeq(Rest, p, p + 2 - 1)
  BY <1>2, <1>3, Used
<1>6. SubSeq(buf, 1, 2) = SubSeq(Rest, p, p + 1)
  <2>1. p + 2 - 1 = p + 1
    <3> HIDE DEF p
    <3>1. QED
      BY <1>2
  <2>2. QED
    BY <1>5, <2>1
<1>7. CASE SubSeq(buf, 1, 2) = CRLF
  <2>1. /\ buf' = SubSeq(buf, 2 + 1, Len(buf)) /\ reader' = [reader EXCEPT !.crlf = FALSE]
        /\ BodyStep /\ UNCHANGED <<pc, status, incoming, delivered, late>>
    BY <1>7 DEF TakeCrlf
  <2>2. /\ reader'.framing = reader.framing /\ reader'.length = reader.length
        /\ reader'.left = 0 /\ reader'.crlf = FALSE
    BY <1>1, <2>1, TypedIs DEF TypedBody
  <2>3. Rest' = Rest
    BY <2>1, KeepsWhole DEF BodyStep
  <2>4. View(Rest)' /\ Pos(Rest)' = p + 2
    <3>1. Views(Rest, p + 2, buf', incoming') /\ At(Rest, buf', incoming') = p + 2
      BY <1>5, <2>1
    <3>2. QED
      BY <2>3, <3>1 DEF View, Pos
  <2>5. Undecoded' = ChunkedFrom(Rest)[p + 2]
    BY <2>2, <2>3, <2>4 DEF Undecoded
  <2>6. InChunk(Rest, p, p) = ChunkedFrom(Rest)[p + 2]
    <3> HIDE DEF p
    <3>1. QED
      BY <1>2, <1>3, <1>6, <1>7, AtChunkEnd
  <2>7. UNCHANGED <<status, delivered, late>> /\ pc' = pc /\ BodyStep
    BY <2>1
  <2>8. reader'.left > 0 => ~reader'.crlf
    BY <2>2
  <2>9. Undecoded' = Undecoded
    BY <1>4, <2>5, <2>6
  <2>10. QED
    BY <1>1, <2>2, <2>4, <2>7, <2>8, <2>9, ChunkSkips
<1>8. CASE SubSeq(buf, 1, 2) # CRLF
  <2>1. Fails
    BY <1>8 DEF TakeCrlf
  <2>2. InChunk(Rest, p, p).whole = FALSE
    <3> HIDE DEF p
    <3>1. QED
      BY <1>2, <1>6, <1>8, AtChunkEnd
  <2>3. QED
    BY <1>2, <1>4, <2>1, <2>2, FailsAnswers
<1>9. QED
  BY <1>7, <1>8

LEMMA TakeSizeAnswers ==
  ASSUME Typed, Answering, TakeSize
  PROVE  Answering'
<1> DEFINE p == Pos(Rest)
           line == First(Found(buf, CRLF))
           text == SizeText(SubSeq(buf, 1, line - 1))
           rest == SubSeq(buf, line + 2, Len(buf))
           F == ChunkedFrom(Rest)
           n == line + 1
           size == SizeOf(text)
<1>1. /\ AtSize /\ Found(buf, CRLF) # {}
      /\ IF text # <<>> /\ ~IsSize(text) THEN Fails
         ELSE /\ buf' = rest
              /\ IF text # <<>> /\ size = 0 THEN pc' = "ended" /\ UNCHANGED reader
                 ELSE /\ reader' = [reader EXCEPT !.left = IF text = <<>> THEN 0 ELSE size]
                      /\ UNCHANGED pc
              /\ BodyStep /\ UNCHANGED <<status, incoming, delivered, late>>
  BY DEF TakeSize
<1>2. Chunked /\ reader.left = 0 /\ reader.crlf = FALSE
  BY <1>1, TypedIs, ReaderIs DEF AtSize
<1>3. /\ pc = "chunk" /\ Len(buf) \in Nat /\ p \in Nat /\ View(Rest)
      /\ Whole.whole = Undecoded.whole /\ Whole.body = delivered \o Undecoded.body
      /\ delivered \in Seq(Bytes)
  BY <1>2, ChunkedIs
<1>4. Undecoded = F[p]
  BY <1>2 DEF Undecoded
<1>5. /\ line \in 1..(Len(buf) - 1)
      /\ text = <<>> => F[p] = F[p + line + 1]
      /\ text # <<>> /\ ~IsSize(text) => F[p].whole = FALSE
      /\ text # <<>> /\ IsSize(text) /\ size = 0 => F[p] = [body |-> <<>>, whole |-> TRUE]
      /\ text # <<>> /\ IsSize(text) /\ size # 0 =>
           /\ size \in Nat \ {0}
           /\ F[p] = InChunk(Rest, p + line + 1, p + line + 1 + size)
  <2>1. Views(Rest, p, buf, incoming)
    BY <1>3 DEF View
  <2>2. line \in 1..(Len(buf) - 1) /\ SizeLine(Rest, p, line, text)
    <3> HIDE DEF p
    <3>1. QED
      BY <1>1, <2>1, AtSizeLine
  <2> HIDE DEF p, line, text
  <2>3. QED
    BY <2>2 DEF SizeLine
<1>6. n \in 0..Len(buf) /\ n + 1 = line + 2 /\ p + n = p + line + 1
  <2> HIDE DEF p, line
  <2>1. QED
    BY <1>3, <1>5
<1>7. Views(Rest, p + n, rest, incoming) /\ At(Rest, rest, incoming) = p + n
  <2> HIDE DEF n
  <2>1. /\ Views(Rest, p + n, SubSeq(buf, n + 1, Len(buf)), incoming)
        /\ At(Rest, SubSeq(buf, n + 1, Len(buf)), incoming) = p + n
    BY <1>3, <1>6, Used
  <2>2. QED
    BY <1>6, <2>1
<1> HIDE DEF text, line, rest, F, n, size
<1>8. CASE text # <<>> /\ ~IsSize(text)
  BY <1>1, <1>3, <1>4, <1>5, <1>8, FailsAnswers
<1>9. CASE text # <<>> /\ IsSize(text) /\ size = 0
  <2>1. call' = call /\ pc' = "ended" /\ UNCHANGED <<delivered, late>>
    BY <1>1, <1>9 DEF BodyStep
  <2>2. Undecoded = [body |-> <<>>, whole |-> TRUE]
    BY <1>4, <1>5, <1>9
  <2>3. delivered = Whole.body /\ Whole.whole
    BY <1>3, <2>2, ConcatEmptySeq
  <2>4. QED
    BY <1>3, <2>1, <2>3, ToEnded
<1>10. CASE text = <<>> \/ (text # <<>> /\ IsSize(text) /\ size # 0)
  <2> DEFINE left == IF text = <<>> THEN 0 ELSE size
  <2>1. /\ buf' = rest /\ reader' = [reader EXCEPT !.left = left]
        /\ BodyStep /\ UNCHANGED <<pc, status, incoming, delivered, late>>
    BY <1>1, <1>10
  <2>2. left \in Nat /\ (text # <<>> => left # 0)
    BY <1>5, <1>10
  <2>3. F[p] = IF left = 0 THEN F[p + n] ELSE InChunk(Rest, p + n, p + n + left)
    BY <1>5, <1>6, <1>10
  <2> HIDE DEF left
  <2>4. /\ reader'.framing = reader.framing /\ reader'.length = reader.length
        /\ reader'.left = left /\ reader'.crlf = FALSE
    BY <1>2, <2>1, TypedIs DEF TypedBody
  <2>5. Rest' = Rest
    BY <2>1, KeepsWhole DEF BodyStep
  <2>6. View(Rest)' /\ Pos(Rest)' = p + n
    <3>1. Views(Rest, p + n, buf', incoming') /\ At(Rest, buf', incoming') = p + n
      BY <1>7, <2>1
    <3>2. QED
      BY <2>5, <3>1 DEF View, Pos
  <2>7. Undecoded' = IF left = 0 THEN F[p + n] ELSE InChunk(Rest, p + n, p + n + left)
    BY <2>4, <2>5, <2>6 DEF Undecoded, F
  <2>8. Undecoded' = Undecoded /\ (reader'.left > 0 => ~reader'.crlf)
    BY <1>4, <2>3, <2>4, <2>7
  <2>9. UNCHANGED <<status, delivered, late>> /\ pc' = pc /\ BodyStep
    BY <2>1
  <2>10. QED
    BY <1>2, <2>4, <2>6, <2>8, <2>9, ChunkSkips
<1>11. QED
  BY <1>8, <1>9, <1>10

LEMMA StutterAnswers ==
  ASSUME Answering, UNCHANGED vars
  PROVE  Answering'
<1>1. /\ call' = call
      /\ UNCHANGED <<pc, abortedAt, incoming, buf, status, reader, delivered, late>>
  BY DEF vars, bodyVars
<1>2. /\ Input' = Input /\ Final' = Final /\ FinalFields' = FinalFields /\ Rest' = Rest
      /\ Whole' = Whole /\ Pos(Rest)' = Pos(Rest) /\ View(Rest)' = View(Rest)
      /\ Pos(Input)' = Pos(Input) /\ View(Input)' = View(Input)
  BY <1>1, KeepsWhole DEF Pos, View
<1>3. Fresh' = Fresh /\ Undecoded' = Undecoded
  BY <1>1, <1>2 DEF Fresh, Undecoded
<1>4. Decoding' = Decoding
  BY <1>1, <1>2, <1>3 DEF Decoding
<1>5. RequestFirst' /\ HeadsRead' /\ BodyRead' /\ LateOnce'
  BY <1>1, <1>2, <1>3, <1>4 DEF Answering, RequestFirst, HeadsRead, BodyRead, LateOnce
<1>6. (Settled => DeliversBody)' /\ EndsHonest'
  BY <1>1, <1>2 DEF Answering, Settled, DeliversBody, EndsHonest, EndMeansWhole, WholeNeverFails, Input
<1>7. QED
  BY <1>5, <1>6 DEF Answering

LEMMA AnswersStep ==
  ASSUME Typed, Answering, [Next]_vars
  PROVE  Answering'
<1>1. CASE Abort \/ ConnectFails \/ HandshakeFails \/ WriteFails \/ Request
  BY <1>1, AbortAnswers, RequestAnswers
<1>2. CASE ReadHead \/ HeadFails \/ ParseHead \/ Answer \/ Pull
  BY <1>2, ReadHeadAnswers, HeadFailsAnswers, ParseHeadAnswers, AnswerAnswers, PullAnswers
<1>3. CASE NoBody \/ PlainDone \/ PlainBuffered \/ PlainRead \/ PlainEnds
  BY <1>3, NoBodyAnswers, PlainDoneAnswers, PlainBufferedAnswers, PlainReadAnswers, PlainEndsAnswers
<1>4. CASE ChunkBuffered \/ ChunkRead \/ Fill \/ ChunkEnds \/ TakeCrlf \/ TakeSize
  BY <1>4, ChunkBufferedAnswers, ChunkReadAnswers, FillAnswers, ChunkEndsAnswers, TakeCrlfAnswers,
     TakeSizeAnswers
<1>5. CASE UNCHANGED vars
  BY <1>5, StutterAnswers
<1>6. QED
  BY <1>1, <1>2, <1>3, <1>4, <1>5 DEF Next, Response

LEMMA InitAnswers == Init => Answering
<1> SUFFICES ASSUME Init PROVE Answering
  OBVIOUS
<1>1. pc = "start" /\ Fresh /\ incoming = Input /\ buf = <<>>
  BY DEF Init, Fresh, Input
<1>2. QED
  BY <1>1 DEF Answering, RequestFirst, HeadsRead, BodyRead, LateOnce, Fresh, Settled, EndsHonest,
              EndMeansWhole, WholeNeverFails

LEMMA AnswersAlways == Spec => [](Typed /\ Answering)
<1>1. Init => Typed /\ Answering
  BY InitTyped, InitAnswers
<1>2. Typed /\ Answering /\ [Next]_vars => (Typed /\ Answering)'
  BY TypedStep, AnswersStep
<1>3. QED
  BY <1>1, <1>2, PTL DEF Spec

\* However the response is cut into reads, what has been handed over is the
\* beginning of the body it carries.
THEOREM BodyIsDelivered == Spec => []DeliversBody
<1>1. Typed /\ Answering => DeliversBody
  BY AnswersDeliver
<1>2. QED
  BY <1>1, AnswersAlways, PTL

\* A body that ends was whole, and a response that is whole never fails.
THEOREM EndIsHonest == Spec => []EndsHonest
<1>1. Typed /\ Answering => EndsHonest
  BY DEF Answering
<1>2. QED
  BY <1>1, AnswersAlways, PTL

-----------------------------------------------------------------------------
(* The request body: FlattenSeq over sequences that agree                  *)

Alike(s, t, n) == \A i \in 1..n : s[i] = t[i]

\* The partial results are determined.
LEMMA PartialSame ==
  ASSUME NEW s, NEW t, NEW n \in Nat, NEW f, NEW g, Partial(f, s, n), Partial(g, t, n),
         Alike(s, t, n)
  PROVE  Alike(f, g, n)
<1> DEFINE T == {k \in Nat : k \in 1..n => f[k] = g[k]}
<1>1. 0 \in T
  OBVIOUS
<1>2. ASSUME NEW k \in Nat, k \in T PROVE k + 1 \in T
  <2>1. SUFFICES ASSUME k + 1 \in 1..n PROVE f[k + 1] = g[k + 1]
    OBVIOUS
  <2>2. CASE k = 0
    <3>1. 1 \in 1..n /\ k + 1 = 1
      BY <2>1, <2>2
    <3>2. QED
      BY <3>1 DEF Partial, Alike
  <2>3. CASE k > 0
    <3>1. f[k] = g[k] /\ (k + 1) - 1 = k /\ k + 1 # 1
      BY <1>2, <2>1, <2>3
    <3>2. f[k + 1] = f[(k + 1) - 1] \o s[k + 1] /\ g[k + 1] = g[(k + 1) - 1] \o t[k + 1]
      BY <2>1, <3>1 DEF Partial
    <3>3. QED
      BY <2>1, <3>1, <3>2 DEF Alike
  <2>4. QED
    BY <2>2, <2>3
<1> HIDE DEF T
<1>3. Nat \subseteq T
  BY <1>1, <1>2, Induct
<1>4. QED
  BY <1>3 DEF T, Alike

\* All but the last sequence, then the last.
LEMMA FlattenLast ==
  ASSUME NEW s \in Seq(Seq(Bytes)), NEW t \in Seq(Seq(Bytes)), Len(s) = Len(t) + 1,
         \A i \in 1..Len(t) : s[i] = t[i]
  PROVE  /\ FlattenSeq(t) \in Seq(Bytes) /\ FlattenSeq(s) \in Seq(Bytes)
         /\ FlattenSeq(s) = FlattenSeq(t) \o s[Len(s)]
<1> DEFINE n == Len(t)
<1>1. n \in Nat /\ Len(s) = n + 1 /\ s[n + 1] \in Seq(Bytes)
  <2>1. n \in Nat /\ Len(s) \in Nat
    BY LenProperties
  <2>2. n + 1 \in 1..Len(s)
    BY <2>1
  <2>3. s[n + 1] \in Seq(Bytes)
    BY <2>2, ElementOfSeq
  <2>4. QED
    BY <2>1, <2>3
<1>2. PICK f \in [1..(n + 1) -> Seq(Bytes)] : Partial(f, s, n + 1) /\ FlattenSeq(s) = f[n + 1]
  <2>1. Len(s) > 0
    BY <1>1
  <2>2. \E f \in [1..Len(s) -> Seq(Bytes)] : Partial(f, s, Len(s)) /\ FlattenSeq(s) = f[Len(s)]
    BY <2>1, FlattenIsPartial
  <2>3. QED
    BY <1>1, <2>2
<1>0. Len(t) = n /\ t \in Seq(Seq(Bytes)) /\ \A i \in 1..n : s[i] = t[i]
  OBVIOUS
<1> HIDE DEF n
<1>3. FlattenSeq(s) \in Seq(Bytes)
  BY <1>1, <1>2
<1>4. CASE n = 0
  <2>1. t = <<>> /\ <<>> \in Seq(Bytes)
    BY <1>0, <1>4, EmptySeq
  <2>2. FlattenSeq(t) = <<>>
    BY <2>1, EmptySeq DEF FlattenSeq
  <2>3. FlattenSeq(s) = s[1]
    BY <1>2, <1>4 DEF Partial
  <2>4. <<>> \o s[1] = s[1]
    BY <1>1, <1>4, ConcatEmptySeq
  <2>5. QED
    <3>1. Len(s) = 1
      BY <1>1, <1>4
    <3>2. FlattenSeq(s) = FlattenSeq(t) \o s[1] /\ FlattenSeq(t) \in Seq(Bytes)
      BY <2>1, <2>2, <2>3, <2>4
    <3>3. QED
      BY <1>3, <3>1, <3>2
<1>5. CASE n > 0
  <2>1. PICK g \in [1..n -> Seq(Bytes)] : Partial(g, t, n) /\ FlattenSeq(t) = g[n]
    BY <1>0, <1>5, FlattenIsPartial
  <2>2. Partial(f, s, n)
    <3>1. \A i \in 1..(n + 1) : f[i] = IF i = 1 THEN s[i] ELSE f[i - 1] \o s[i]
      BY <1>2 DEF Partial
    <3>2. \A i \in 1..n : i \in 1..(n + 1)
      BY <1>1
    <3>3. QED
      BY <3>1, <3>2 DEF Partial
  <2>3. \A i \in 1..n : f[i] = g[i]
    <3>1. n \in Nat /\ Partial(f, s, n) /\ Partial(g, t, n) /\ Alike(s, t, n)
      BY <1>0, <1>1, <2>1, <2>2 DEF Alike
    <3>2. Alike(f, g, n)
      BY <3>1, PartialSame
    <3>3. QED
      BY <3>2 DEF Alike
  <2>4. n \in 1..n /\ n + 1 \in 1..(n + 1) /\ n + 1 # 1 /\ (n + 1) - 1 = n
    BY <1>1, <1>5
  <2>5. f[n + 1] = f[(n + 1) - 1] \o s[n + 1]
    BY <1>2, <2>4 DEF Partial
  <2>6. f[n] = g[n] /\ g[n] \in Seq(Bytes)
    BY <2>1, <2>3, <2>4
  <2>7. QED
    BY <1>1, <1>2, <1>3, <2>1, <2>4, <2>5, <2>6
<1>6. QED
  BY <1>1, <1>4, <1>5

-----------------------------------------------------------------------------
(* One chunk as it is written                                              *)

LEMMA DigitIs ==
  ASSUME NEW m \in 0..3
  PROVE  LET d == Digits[m + 1]
         IN /\ d \in ToSet(Digits) /\ d \in Bytes /\ d \notin {"CR", "LF", "SEMI"}
            /\ DigitValue(d) = m
<1> DEFINE d == Digits[m + 1]
<1>1. DOMAIN Digits = 1..4 /\ Digits[1] = "0" /\ Digits[2] = "1" /\ Digits[3] = "2" /\ Digits[4] = "3"
  BY DEF Digits
<1>2. m + 1 \in DOMAIN Digits /\ d \notin {"CR", "LF", "SEMI"}
  <2>1. CASE m = 0
    BY <1>1, <2>1
  <2>2. CASE m = 1
    BY <1>1, <2>2
  <2>3. CASE m = 2
    BY <1>1, <2>3
  <2>4. CASE m = 3
    BY <1>1, <2>4
  <2>5. QED
    BY <2>1, <2>2, <2>3, <2>4
<1>3. d \in ToSet(Digits) /\ d \in Bytes
  BY <1>2 DEF ToSet, Bytes
<1>4. \A i \in DOMAIN Digits : Digits[i] = d => i = m + 1
  BY <1>1
<1> DEFINE i == CHOOSE j \in DOMAIN Digits : Digits[j] = d
<1>5. i \in DOMAIN Digits /\ Digits[i] = d
  BY <1>2
<1>6. i = m + 1
  BY <1>4, <1>5
<1> HIDE DEF i
<1>7. i - 1 = m
  BY <1>6
<1>8. DigitValue(d) = m
  BY <1>7 DEF DigitValue, i
<1>9. QED
  BY <1>2, <1>3, <1>8

LEMMA OneIs ==
  ASSUME NEW d \in Bytes
  PROVE  <<d>> \in Seq(Bytes) /\ Len(<<d>>) = 1 /\ <<d>>[1] = d /\ DOMAIN <<d>> = 1..1
         /\ SubSeq(<<d>>, 1, 1) = <<d>>
<1> DEFINE q == <<d>>
<1>1. q \in Seq(Bytes) /\ Len(q) = 1 /\ q[1] = d /\ DOMAIN q = 1..1
  OBVIOUS
<1> HIDE DEF q
<1>2. SubSeq(q, 1, Len(q)) = q
  BY <1>1, SubSeqFull
<1>3. SubSeq(q, 1, 1) = q
  BY <1>1, <1>2
<1>4. QED
  BY <1>1, <1>3 DEF q

LEMMA OneText ==
  ASSUME NEW d \in Bytes, d \notin {"CR", "LF", "SEMI"}
  PROVE  SizeText(<<d>>) = <<d>>
<1> DEFINE q == <<d>>
           mark == <<"SEMI">>
           text == {i \in DOMAIN q : IsText(q[i])}
<1>1. /\ q \in Seq(Bytes) /\ Len(q) = 1 /\ q[1] = d /\ DOMAIN q = 1..1 /\ SubSeq(q, 1, 1) = q
  BY OneIs
<1>2. Len(mark) = 1 /\ mark[1] = "SEMI"
  OBVIOUS
<1> HIDE DEF q, mark, text
<1>3. Found(q, mark) = {}
  <2>1. ASSUME NEW i \in Found(q, mark) PROVE FALSE
    <3>0. i \in 1..(Len(q) - Len(mark) + 1) /\ SubSeq(q, i, i + Len(mark) - 1) = mark
      BY DEF Found
    <3>1. i = 1 /\ SubSeq(q, i, i + Len(mark) - 1) = mark
      <4>1. Len(q) - Len(mark) + 1 = 1
        BY <1>1, <1>2
      <4>2. i \in 1..1
        BY <3>0, <4>1
      <4>3. QED
        BY <3>0, <4>2
    <3>2. i + Len(mark) - 1 = 1
      <4>1. 1 + 1 - 1 = 1
        OBVIOUS
      <4>2. QED
        BY <1>2, <3>1, <4>1
    <3>3. q = mark
      BY <1>1, <3>1, <3>2
    <3>4. QED
      BY <1>1, <1>2, <3>3
  <2>2. QED
    BY <2>1
<1>4. text = {1}
  <2>1. IsText(q[1])
    BY <1>1 DEF IsText
  <2>2. DOMAIN q = {1}
    BY <1>1
  <2>3. QED
    BY <2>1, <2>2 DEF text
<1>5. First({1}) = 1
  <2>1. {1} \in SUBSET Nat /\ {1} # {}
    OBVIOUS
  <2>2. First({1}) \in {1}
    BY <2>1, FirstIs
  <2>3. QED
    BY <2>2
<1>6. (CHOOSE i \in {1} : \A j \in {1} : j <= i) = 1
  <2>1. \E i \in {1} : \A j \in {1} : j <= i
    OBVIOUS
  <2>2. (CHOOSE i \in {1} : \A j \in {1} : j <= i) \in {1}
    BY <2>1
  <2>3. QED
    BY <2>2
<1>7. Trim(q) = q
  <2>1. Trim(q) = IF text = {} THEN <<>>
                  ELSE SubSeq(q, First(text), CHOOSE i \in text : \A j \in text : j <= i)
    BY DEF Trim, text
  <2>2. QED
    BY <1>1, <1>4, <1>5, <1>6, <2>1
<1>8. SizeText(q) = Trim(q)
  BY <1>3 DEF SizeText, mark
<1>9. QED
  BY <1>7, <1>8 DEF q

\* a begins with a size line of the digit m.
Sized(a, m) ==
  /\ a \in Seq(Bytes) /\ Len(a) >= 3
  /\ a[1] = Digits[m + 1] /\ a[2] = "CR" /\ a[3] = "LF"

LEMMA TwoIs ==
  /\ CRLF = <<"CR", "LF">> /\ CRLF[1] = "CR" /\ CRLF[2] = "LF"
BY DEF CRLF

LEMMA SizedLine ==
  ASSUME NEW m \in 0..3, NEW a, Sized(a, m)
  PROVE  /\ Found(a, CRLF) # {} /\ First(Found(a, CRLF)) = 2
         /\ SubSeq(a, 1, 2 - 1) = <<Digits[m + 1]>>
<1> DEFINE d == Digits[m + 1]
           here == Found(a, CRLF)
<1>1. /\ a \in Seq(Bytes) /\ Len(a) \in Nat /\ Len(a) >= 3 /\ a[1] = d /\ a[2] = "CR" /\ a[3] = "LF"
      /\ d # "CR" /\ d \in Bytes
  BY LenProperties, DigitIs DEF Sized
<1> HIDE DEF d
<1>2. CRLF \in Seq(Bytes) /\ Len(CRLF) = 2 /\ CRLF[1] = "CR" /\ CRLF[2] = "LF"
  BY Marks, TwoIs
<1>3. ASSUME NEW i \in Nat, i > 0, i + 1 <= Len(a)
      PROVE  /\ SubSeq(a, i, i + 1) \in Seq(Bytes) /\ Len(SubSeq(a, i, i + 1)) = 2
             /\ SubSeq(a, i, i + 1)[1] = a[i] /\ SubSeq(a, i, i + 1)[2] = a[i + 1]
  <2> DEFINE n == i + 1
             c == SubSeq(a, i, n)
  <2>1. n \in Int /\ n <= Len(a) /\ n - i + 1 = 2 /\ i <= n
    BY <1>1, <1>3
  <2> HIDE DEF n
  <2>2. /\ c \in Seq(Bytes) /\ Len(c) = IF i <= n THEN n - i + 1 ELSE 0
        /\ \A k \in 1..(n - i + 1) : c[k] = a[i + k - 1]
    BY <1>1, <1>3, <2>1, SubSeqIs
  <2> HIDE DEF c
  <2>3. Len(c) = 2 /\ c[1] = a[i + 1 - 1] /\ c[2] = a[i + 2 - 1]
    BY <2>1, <2>2
  <2>4. i + 1 - 1 = i /\ i + 2 - 1 = i + 1
    BY <1>3
  <2>5. QED
    BY <2>2, <2>3, <2>4 DEF c, n
<1>4. SubSeq(a, 2, 2 + 1) = CRLF
  <2> DEFINE c == SubSeq(a, 2, 2 + 1)
  <2>1. c \in Seq(Bytes) /\ Len(c) = 2 /\ c[1] = "CR" /\ c[2] = "LF"
    BY <1>1, <1>3
  <2> HIDE DEF c
  <2>2. c = CRLF
    BY <1>2, <2>1, SeqEqual
  <2>3. QED
    BY <2>2 DEF c
<1>5. SubSeq(a, 1, 1 + 1) # CRLF
  BY <1>1, <1>2, <1>3
<1>6. here = {i \in 1..(Len(a) - 1) : SubSeq(a, i, i + 1) = CRLF}
  <2>1. Len(a) - Len(CRLF) + 1 = Len(a) - 1
    BY <1>1, <1>2
  <2>2. \A i \in 1..(Len(a) - 1) : i + Len(CRLF) - 1 = i + 1
    BY <1>1, <1>2
  <2>3. QED
    BY <2>1, <2>2 DEF Found
<1> HIDE DEF here
<1>7. 2 \in here /\ 1 \notin here /\ here \in SUBSET Nat /\ \A j \in here : j >= 1
  BY <1>1, <1>4, <1>5, <1>6
<1>8. First(here) = 2
  <2>1. First(here) \in here /\ First(here) <= 2 /\ First(here) >= 1
    <3>1. First(here) \in here /\ \A j \in here : First(here) <= j
      BY <1>7, FirstIs
    <3>2. QED
      BY <1>7, <3>1
  <2>2. First(here) \in Nat
    BY <1>7, <2>1
  <2>3. QED
    BY <1>7, <2>1, <2>2
<1>9. SubSeq(a, 1, 1) = <<d>>
  <2> DEFINE c == SubSeq(a, 1, 1)
             q == <<d>>
  <2>1. /\ c \in Seq(Bytes) /\ Len(c) = IF 1 <= 1 THEN 1 - 1 + 1 ELSE 0
        /\ \A k \in 1..(1 - 1 + 1) : c[k] = a[1 + k - 1]
    BY <1>1, SubSeqIs
  <2>2. q \in Seq(Bytes) /\ Len(q) = 1 /\ q[1] = d
    BY <1>1, OneIs
  <2> HIDE DEF c, q
  <2>3. Len(c) = 1 /\ c[1] = d
    BY <1>1, <2>1
  <2>4. c = q
    BY <2>1, <2>2, <2>3, SeqEqual
  <2>5. QED
    BY <2>4 DEF c, q
<1>10. QED
  BY <1>7, <1>8, <1>9 DEF here, d

LEMMA SizedText ==
  ASSUME NEW m \in 0..3
  PROVE  LET text == SizeText(<<Digits[m + 1]>>)
         IN text # <<>> /\ IsSize(text) /\ SizeOf(text) = m
<1> DEFINE d == Digits[m + 1]
<1>1. /\ d \in ToSet(Digits) /\ d \in Bytes /\ d \notin {"CR", "LF", "SEMI"} /\ DigitValue(d) = m
  BY DigitIs
<1> HIDE DEF d
<1>2. SizeText(<<d>>) = <<d>> /\ SizeOf(<<d>>) = m
  BY <1>1, OneText, OneDigit
<1>3. <<d>> # <<>> /\ IsSize(<<d>>)
  <2> DEFINE q == <<d>>
  <2>1. Len(q) = 1 /\ q[1] = d /\ DOMAIN q = 1..1
    BY <1>1, OneIs
  <2> HIDE DEF q
  <2>2. q # <<>>
    BY <2>1, EmptySeq
  <2>3. \A i \in DOMAIN q : q[i] \in ToSet(Digits)
    BY <1>1, <2>1
  <2>4. IsSize(q)
    BY <2>2, <2>3 DEF IsSize
  <2>5. QED
    BY <2>2, <2>4 DEF q
<1>4. QED
  BY <1>2, <1>3 DEF d

\* What a size line of one digit begins.
LEMMA SizedChunk ==
  ASSUME NEW m \in 0..3, NEW s, NEW p, NEW a, NEW b, Views(s, p, a, b), Sized(a, m)
  PROVE  IF m = 0 THEN ChunkedFrom(s)[p] = [body |-> <<>>, whole |-> TRUE]
         ELSE ChunkedFrom(s)[p] = InChunk(s, p + 3, p + 3 + m)
<1> DEFINE text == SizeText(<<Digits[m + 1]>>)
<1>1. Found(a, CRLF) # {} /\ First(Found(a, CRLF)) = 2 /\ SubSeq(a, 1, 2 - 1) = <<Digits[m + 1]>>
  BY SizedLine
<1>2. LET f == First(Found(a, CRLF)) IN SizeLine(s, p, f, SizeText(SubSeq(a, 1, f - 1)))
  BY <1>1, AtSizeLine
<1>3. SizeLine(s, p, 2, text)
  BY <1>1, <1>2
<1>4. text # <<>> /\ IsSize(text) /\ SizeOf(text) = m
  BY SizedText
<1>5. p + 2 + 1 = p + 3
  BY DEF Views
<1> HIDE DEF text
<1>6. /\ m = 0 => ChunkedFrom(s)[p] = [body |-> <<>>, whole |-> TRUE]
      /\ m # 0 => ChunkedFrom(s)[p] = InChunk(s, p + 2 + 1, p + 2 + 1 + m)
  BY <1>3, <1>4 DEF SizeLine
<1>7. QED
  BY <1>5, <1>6

-----------------------------------------------------------------------------
(* Frames on the wire                                                      *)

\* The parts of a concatenation.
Joined(x, y, z) ==
  LET s == x \o (y \o z)
  IN /\ s \in Seq(Bytes) /\ Len(s) = Len(x) + Len(y) + Len(z)
     /\ SubSeq(s, Len(x) + 1, Len(x) + Len(y)) = y
     /\ \A i \in 1..Len(x) : s[i] = x[i]

LEMMA JoinedIs ==
  ASSUME NEW x \in Seq(Bytes), NEW y \in Seq(Bytes), NEW z \in Seq(Bytes)
  PROVE  Joined(x, y, z)
<1> DEFINE r == y \o z
           s == x \o r
<1>1. Len(x) \in Nat /\ Len(y) \in Nat /\ Len(z) \in Nat
  BY LenProperties
<1>2. /\ r \in Seq(Bytes) /\ Len(r) = Len(y) + Len(z)
      /\ \A i \in 1..(Len(y) + Len(z)) : r[i] = IF i <= Len(y) THEN y[i] ELSE z[i - Len(y)]
  BY ConcatProperties
<1> HIDE DEF r
<1>2a. r \in Seq(Bytes)
  BY <1>2
<1>3. /\ s \in Seq(Bytes) /\ Len(s) = Len(x) + Len(r)
      /\ \A i \in 1..(Len(x) + Len(r)) : s[i] = IF i <= Len(x) THEN x[i] ELSE r[i - Len(x)]
  BY <1>2a, ConcatProperties
<1> DEFINE m == Len(x) + 1
           n == Len(x) + Len(y)
           c == SubSeq(s, m, n)
<1>4. m \in Nat /\ m > 0 /\ n \in Int /\ n <= Len(s) /\ n - m + 1 = Len(y)
  BY <1>1, <1>2, <1>3
<1> HIDE DEF s
<1>5. /\ c \in Seq(Bytes) /\ Len(c) = IF m <= n THEN n - m + 1 ELSE 0
      /\ \A i \in 1..(n - m + 1) : c[i] = s[m + i - 1]
  <2> HIDE DEF m, n
  <2>1. QED
    BY <1>3, <1>4, SubSeqIs
<1> HIDE DEF c
<1>6. Len(c) = Len(y)
  BY <1>1, <1>4, <1>5
<1>7. ASSUME NEW i \in 1..Len(y) PROVE c[i] = y[i]
  <2>1. /\ m + i - 1 \in 1..(Len(x) + Len(r)) /\ ~(m + i - 1 <= Len(x)) /\ (m + i - 1) - Len(x) = i
        /\ i \in 1..(Len(y) + Len(z)) /\ i <= Len(y)
    BY <1>1, <1>2
  <2>2. c[i] = s[m + i - 1]
    BY <1>4, <1>5
  <2>3. s[m + i - 1] = r[i]
    BY <1>3, <2>1
  <2>4. QED
    BY <1>2, <2>1, <2>2, <2>3
<1>8. c = y
  BY <1>5, <1>6, <1>7, SeqEqual
<1>9. \A i \in 1..Len(x) : s[i] = x[i]
  BY <1>1, <1>2, <1>3
<1>10. Len(s) = Len(x) + Len(y) + Len(z)
  BY <1>1, <1>2, <1>3
<1>11. QED
  BY <1>3, <1>8, <1>9, <1>10 DEF Joined, s, r, c

\* The size line of a frame.
Line(m) == <<Digits[m + 1]>> \o CRLF

LEMMA LineIs ==
  ASSUME NEW m \in 0..3
  PROVE  /\ Line(m) \in Seq(Bytes) /\ Len(Line(m)) = 3
         /\ Line(m)[1] = Digits[m + 1] /\ Line(m)[2] = "CR" /\ Line(m)[3] = "LF"
<1> DEFINE d == Digits[m + 1]
           q == <<d>>
           z == q \o CRLF
<1>1. d \in Bytes
  BY DigitIs
<1>2. q \in Seq(Bytes) /\ Len(q) = 1 /\ q[1] = d
  BY <1>1, OneIs
<1>3. CRLF \in Seq(Bytes) /\ Len(CRLF) = 2 /\ CRLF[1] = "CR" /\ CRLF[2] = "LF"
  BY Marks, TwoIs
<1> HIDE DEF d, q
<1>4. /\ z \in Seq(Bytes) /\ Len(z) = Len(q) + Len(CRLF)
      /\ \A i \in 1..(Len(q) + Len(CRLF)) : z[i] = IF i <= Len(q) THEN q[i] ELSE CRLF[i - Len(q)]
  BY <1>2, <1>3, ConcatProperties
<1> HIDE DEF z
<1>5. Len(z) = 3 /\ z[1] = q[1] /\ z[2] = CRLF[2 - 1] /\ z[3] = CRLF[3 - 1]
  BY <1>2, <1>3, <1>4
<1>6. 2 - 1 = 1 /\ 3 - 1 = 2
  OBVIOUS
<1>7. z[2] = "CR" /\ z[3] = "LF"
  BY <1>3, <1>5, <1>6
<1>8. QED
  BY <1>2, <1>4, <1>5, <1>7 DEF Line, z, q, d

LEMMA FramesAre ==
  /\ \A d : Frame(d) = (Line(Len(d)) \o d) \o CRLF
  /\ LastFrame = <<"0">> \o Separator /\ Digits[0 + 1] = "0" /\ Len(Digits) = 4
<1>1. Digits[1] = "0" /\ Len(Digits) = 4 /\ 0 + 1 = 1
  BY DEF Digits
<1>2. Digits[0 + 1] = "0"
  BY <1>1
<1>3. QED
  BY <1>1, <1>2 DEF Frame, Line, LastFrame

\* A frame, and what is behind it.
LEMMA FrameThen ==
  ASSUME NEW d \in Seq(Bytes), Len(d) \in 0..3, NEW t \in Seq(Bytes)
  PROVE  /\ Frame(d) \in Seq(Bytes) /\ Len(Frame(d)) = Len(d) + 5
         /\ Frame(d) \o t = Line(Len(d)) \o (d \o (CRLF \o t))
         /\ Sized(Frame(d) \o t, Len(d))
<1> DEFINE m == Len(d)
           z == Line(m)
           f == (z \o d) \o CRLF
           g == d \o (CRLF \o t)
           u == z \o g
<1>1. /\ z \in Seq(Bytes) /\ Len(z) = 3
      /\ z[1] = Digits[m + 1] /\ z[2] = "CR" /\ z[3] = "LF"
  BY LineIs
<1>2. CRLF \in Seq(Bytes) /\ Len(CRLF) = 2 /\ m \in Nat
  BY Marks
<1> HIDE DEF z
<1>3. z \o d \in Seq(Bytes) /\ Len(z \o d) = Len(z) + Len(d)
  BY <1>1, ConcatProperties
<1>4. f \in Seq(Bytes) /\ Len(f) = Len(z \o d) + Len(CRLF)
  BY <1>2, <1>3, ConcatProperties
<1>5. f \o t = (z \o d) \o (CRLF \o t)
  BY <1>2, <1>3, Regroup
<1>6. CRLF \o t \in Seq(Bytes)
  BY <1>2, ConcatProperties
<1>7. (z \o d) \o (CRLF \o t) = z \o (d \o (CRLF \o t))
  BY <1>1, <1>6, Regroup
<1>8. f \o t = u
  BY <1>5, <1>7
<1>9. Frame(d) = f
  BY FramesAre DEF z
<1>10. Len(f) = Len(d) + 5
  BY <1>1, <1>2, <1>3, <1>4
<1>11. g \in Seq(Bytes) /\ Len(g) \in Nat
  BY <1>6, ConcatProperties, LenProperties
<1> HIDE DEF g
<1>12. /\ u \in Seq(Bytes) /\ Len(u) = Len(z) + Len(g)
       /\ \A i \in 1..(Len(z) + Len(g)) : u[i] = IF i <= Len(z) THEN z[i] ELSE g[i - Len(z)]
  BY <1>1, <1>11, ConcatProperties
<1> HIDE DEF u
<1>13. Len(u) >= 3 /\ u[1] = z[1] /\ u[2] = z[2] /\ u[3] = z[3]
  BY <1>1, <1>11, <1>12
<1>14. Sized(u, m)
  BY <1>1, <1>12, <1>13 DEF Sized
<1> HIDE DEF f
<1>15. QED
  BY <1>4, <1>8, <1>9, <1>10, <1>14 DEF z, g, u

-----------------------------------------------------------------------------
(* The reference decoder over what was written                             *)

\* What is written behind w is seen from its end on.
LEMMA TailView ==
  ASSUME NEW w \in Seq(Bytes), NEW c \in Seq(Bytes)
  PROVE  Views(w \o c, Len(w) + 1, c, <<>>)
<1> DEFINE s == w \o c
           p == Len(w) + 1
<1>1. Len(w) \in Nat /\ Len(c) \in Nat /\ <<>> \in Seq(Bytes)
  BY LenProperties, Empty
<1>2. w \o c \in Seq(Bytes) /\ Len(w \o c) = Len(w) + Len(c)
  BY ConcatProperties
<1>3. c \o <<>> = c
  BY ConcatEmptySeq
<1>4. s = w \o (c \o <<>>)
  BY <1>3
<1>5. SubSeq(w \o (c \o <<>>), Len(w) + 1, Len(w) + Len(c)) = c
  BY <1>1, JoinedIs DEF Joined
<1>6. SubSeq(s, p, Len(s)) = c
  BY <1>2, <1>3, <1>5
<1>7. p \in 1..(Len(s) + 1)
  BY <1>1, <1>2
<1>8. c \o <<>> = SubSeq(s, p, Len(s))
  BY <1>3, <1>6
<1> HIDE DEF s, p
<1>9. s \in Seq(Bytes)
  BY <1>2 DEF s
<1>10. Views(s, p, c, <<>>)
  BY <1>1, <1>7, <1>8, <1>9 DEF Views
<1>11. QED
  BY <1>10 DEF s, p

\* The frame of d behind w.
FrameAt(w, d, t) ==
  LET s == w \o (Frame(d) \o t)
      p == Len(w) + 1
      q == Len(w) + Len(d) + 5 + 1
  IN /\ s \in Seq(Bytes) /\ p \in 1..(Len(s) + 1) /\ q \in 1..(Len(s) + 1)
     /\ ChunkedFrom(s)[p].body = d \o ChunkedFrom(s)[q].body
     /\ ChunkedFrom(s)[p].whole = ChunkedFrom(s)[q].whole

LEMMA FrameRead ==
  ASSUME NEW w \in Seq(Bytes), NEW d \in Seq(Bytes), Len(d) \in 1..3, NEW t \in Seq(Bytes)
  PROVE  FrameAt(w, d, t)
<1> DEFINE m == Len(d)
           z == Line(m)
           a == Frame(d) \o t
           s == w \o a
           p == Len(w) + 1
           x == w \o z
           g == CRLF \o t
           f == Frame(d)
<1>0. m \in 1..3 /\ m \in 0..3 /\ m \in Nat /\ d \in Seq(Bytes) /\ Len(d) = m
  OBVIOUS
<1>1. z \in Seq(Bytes) /\ Len(z) = 3
  <2> HIDE DEF m
  <2>1. QED
    BY <1>0, LineIs
<1>2. CRLF \in Seq(Bytes) /\ Len(CRLF) = 2
  BY Marks
<1>3. f \in Seq(Bytes) /\ Len(f) = m + 5 /\ a = z \o (d \o g) /\ Sized(a, m)
  <2>1. Len(d) \in 0..3
    BY <1>0
  <2>2. /\ Frame(d) \in Seq(Bytes) /\ Len(Frame(d)) = Len(d) + 5
        /\ Frame(d) \o t = Line(Len(d)) \o (d \o (CRLF \o t))
        /\ Sized(Frame(d) \o t, Len(d))
    BY <2>1, FrameThen
  <2>3. QED
    BY <2>2
<1>4. x \in Seq(Bytes) /\ Len(x) = Len(w) + 3 /\ Len(w) \in Nat /\ Len(t) \in Nat
  <2> HIDE DEF z
  <2>1. w \o z \in Seq(Bytes) /\ Len(w \o z) = Len(w) + Len(z)
    BY <1>1, ConcatProperties
  <2>2. QED
    BY <1>1, <2>1, LenProperties
<1>5. g \in Seq(Bytes) /\ Len(g) = 2 + Len(t)
  <2>1. CRLF \o t \in Seq(Bytes) /\ Len(CRLF \o t) = Len(CRLF) + Len(t)
    BY <1>2, ConcatProperties
  <2>2. QED
    BY <1>2, <2>1
<1> HIDE DEF m, z, g
<1>6. d \o g \in Seq(Bytes)
  BY <1>5, ConcatProperties
<1>7. s = x \o (d \o g)
  <2>1. (w \o z) \o (d \o g) = w \o (z \o (d \o g))
    BY <1>1, <1>6, Regroup
  <2>2. QED
    BY <1>3, <2>1
<1>8. a \in Seq(Bytes)
  BY <1>3 DEF Sized
<1> HIDE DEF a, f, x
<1>9. s \in Seq(Bytes) /\ Len(s) = Len(w) + m + 5 + Len(t)
  <2>1. x \o (d \o g) \in Seq(Bytes) /\ Len(x \o (d \o g)) = Len(x) + Len(d) + Len(g)
    <3>1. Joined(x, d, g)
      BY <1>0, <1>4, <1>5, JoinedIs
    <3>2. QED
      BY <3>1 DEF Joined
  <2>2. Len(x) + Len(d) + Len(g) = Len(w) + m + 5 + Len(t)
    BY <1>0, <1>4, <1>5
  <2>3. QED
    BY <1>7, <2>1, <2>2
<1>10. SubSeq(s, p + 3, p + 3 + m - 1) = d
  <2>1. SubSeq(x \o (d \o g), Len(x) + 1, Len(x) + Len(d)) = d
    BY <1>4, <1>5, JoinedIs DEF Joined
  <2>2. Len(x) + 1 = p + 3 /\ Len(x) + Len(d) = p + 3 + m - 1
    BY <1>0, <1>4
  <2> HIDE DEF s, p
  <2>3. QED
    BY <1>7, <2>1, <2>2
<1>11. SubSeq(s, p + 3 + m, p + 3 + m + 1) = CRLF
  <2> DEFINE y == x \o d
  <2>1. y \in Seq(Bytes) /\ Len(y) = Len(x) + Len(d)
    BY <1>0, <1>4, ConcatProperties
  <2>2. (x \o d) \o (CRLF \o t) = x \o (d \o (CRLF \o t))
    <3>1. CRLF \o t \in Seq(Bytes)
      BY <1>5 DEF g
    <3>2. QED
      BY <1>4, <3>1, Regroup
  <2>3. s = y \o (CRLF \o t)
    BY <1>7, <2>2 DEF g
  <2> HIDE DEF y
  <2>4. SubSeq(y \o (CRLF \o t), Len(y) + 1, Len(y) + Len(CRLF)) = CRLF
    BY <1>2, <2>1, JoinedIs DEF Joined
  <2>5. Len(y) + 1 = p + 3 + m /\ Len(y) + Len(CRLF) = p + 3 + m + 1
    BY <1>0, <1>2, <1>4, <2>1
  <2> HIDE DEF s, p
  <2>6. QED
    BY <2>3, <2>4, <2>5
<1>12. Views(s, p, a, <<>>)
  BY <1>8, TailView
<1>13. p \in 1..(Len(s) + 1) /\ p + m + 5 \in 1..(Len(s) + 1) /\ p + 3 + m < Len(s) /\ m # 0
       /\ p + 3 + m + 2 = p + m + 5 /\ p + m + 5 = Len(w) + m + 5 + 1
  BY <1>0, <1>4, <1>9
<1> HIDE DEF s, p
<1>14. ChunkedFrom(s)[p] = InChunk(s, p + 3, p + 3 + m)
  BY <1>0, <1>3, <1>12, <1>13, SizedChunk
<1> DEFINE r == ChunkedFrom(s)[p + 3 + m + 2]
<1>15. InChunk(s, p + 3, p + 3 + m) = [body |-> SubSeq(s, p + 3, p + 3 + m - 1) \o r.body, whole |-> r.whole]
  <2> DEFINE e == p + 3 + m
  <2>1. e < Len(s) /\ SubSeq(s, e, e + 1) = CRLF
    BY <1>11, <1>13
  <2>2. r = ChunkedFrom(s)[e + 2]
    OBVIOUS
  <2>2a. e = p + 3 + m /\ e - 1 = p + 3 + m - 1
    BY <1>0, <1>13
  <2> HIDE DEF r, e
  <2>3. InChunk(s, p + 3, e) = [body |-> SubSeq(s, p + 3, e - 1) \o r.body, whole |-> r.whole]
    BY <2>1, <2>2 DEF InChunk
  <2>4. QED
    <3> DEFINE k == p + 3 + m
               n == p + 3 + m - 1
    <3>1. e = k /\ e - 1 = n
      BY <2>2a
    <3> HIDE DEF k, n
    <3>2. InChunk(s, p + 3, k) = [body |-> SubSeq(s, p + 3, n) \o r.body, whole |-> r.whole]
      BY <2>3, <3>1
    <3>3. QED
      BY <3>2 DEF k, n
<1>16. InChunk(s, p + 3, p + 3 + m) = [body |-> d \o r.body, whole |-> r.whole]
  BY <1>10, <1>15
<1> HIDE DEF r
<1> DEFINE e == d \o r.body
<1>17. ChunkedFrom(s)[p] = [body |-> e, whole |-> r.whole]
  BY <1>14, <1>16
<1> HIDE DEF e
<1>18. ChunkedFrom(s)[p].body = e /\ ChunkedFrom(s)[p].whole = r.whole
  BY <1>17
<1>19. r = ChunkedFrom(s)[Len(w) + m + 5 + 1]
  BY <1>13 DEF r
<1>20. Len(w) + m + 5 + 1 \in 1..(Len(s) + 1)
  BY <1>13
<1>21. QED
  BY <1>9, <1>13, <1>18, <1>19, <1>20 DEF FrameAt, e, s, p, a, m

\* Without a whole size line there is no last chunk.
LEMMA NoLine ==
  ASSUME NEW w \in Seq(Bytes), NEW c \in Seq(Bytes), Len(c) < 3, Len(c) > 0 => c[1] # "CR"
  PROVE  ChunkedFrom(w \o c)[Len(w) + 1].whole = FALSE
<1> DEFINE s == w \o c
           p == Len(w) + 1
<1>1. Views(s, p, c, <<>>)
  BY TailView
<1>2. s \in Seq(Bytes) /\ p \in 1..(Len(s) + 1) /\ Len(c) \in Nat
  BY <1>1, LenProperties DEF Views
<1>3. CRLF \in Seq(Bytes) /\ Len(CRLF) = 2 /\ CRLF[1] = "CR" /\ Len(CRLF) \in Nat /\ Len(CRLF) > 0
  BY Marks, TwoIs
<1> HIDE DEF s, p
<1>4. Found(c, CRLF) = {}
  <2>1. ASSUME NEW i \in Found(c, CRLF) PROVE FALSE
    <3>1. i \in 1..(Len(c) - Len(CRLF) + 1) /\ SubSeq(c, i, i + Len(CRLF) - 1) = CRLF
      BY DEF Found
    <3>2. i = 1 /\ Len(c) = 2
      BY <1>2, <1>3, <3>1
    <3>3. i + Len(CRLF) - 1 = Len(c)
      BY <1>3, <3>2
    <3>4. SubSeq(c, 1, Len(c)) = CRLF
      BY <3>1, <3>2, <3>3
    <3>5. c = CRLF
      BY <3>4, SubSeqFull
    <3>6. QED
      BY <1>3, <3>2, <3>5
  <2>2. QED
    BY <2>1
<1>5. {j \in Found(s, CRLF) : j >= p} = {}
  BY <1>1, <1>3, <1>4, NoneIn
<1>6. ChunkedFrom(s)[p].whole = FALSE
  BY <1>2, <1>5, NoSizeLine
<1>7. QED
  BY <1>6 DEF s, p

-----------------------------------------------------------------------------
(* The frames of a source                                                  *)

\* Whatever comes behind w, what is before it reads as x.
CarriesTo(w, x, t) ==
  LET F == ChunkedFrom(w \o t)
  IN /\ F[1].body = x \o F[Len(w) + 1].body
     /\ F[1].whole = F[Len(w) + 1].whole
     /\ F[Len(w) + 1].body \in Seq(Bytes)
Carries(w, x) ==
  w \in Seq(Bytes) /\ x \in Seq(Bytes) /\ \A t \in Seq(Bytes) : CarriesTo(w, x, t)

LEMMA BodyIs ==
  ASSUME NEW s \in Seq(Bytes), NEW i \in 1..(Len(s) + 1)
  PROVE  ChunkedFrom(s)[i].body \in Seq(Bytes)
<1>1. ChunkedFrom(s)[i] \in Body
  BY ChunkedStep
<1>2. QED
  BY <1>1 DEF Body

LEMMA CarriesNone == Carries(<<>>, <<>>)
<1> DEFINE w == <<>>
<1>1. w \in Seq(Bytes) /\ Len(w) = 0
  BY Empty
<1>2. ASSUME NEW t \in Seq(Bytes) PROVE CarriesTo(w, w, t)
  <2>1. w \o t = t
    BY ConcatEmptySeq
  <2>2. Len(w) + 1 = 1 /\ Len(t) \in Nat /\ 1 \in 1..(Len(t) + 1)
    BY <1>1, LenProperties
  <2> DEFINE b == ChunkedFrom(t)[1].body
  <2>3. b \in Seq(Bytes)
    BY <2>2, BodyIs
  <2>4. w \o b = b
    BY <2>3, ConcatEmptySeq
  <2> HIDE DEF w
  <2>5. QED
    BY <2>1, <2>2, <2>3, <2>4 DEF CarriesTo
<1> HIDE DEF w
<1>3. Carries(w, w)
  BY <1>1, <1>2 DEF Carries
<1>4. QED
  BY <1>3 DEF w

LEMMA CarriesFrame ==
  ASSUME NEW w, NEW x, Carries(w, x), NEW d \in Seq(Bytes), Len(d) \in 1..3
  PROVE  Carries(w \o Frame(d), x \o d)
<1> DEFINE f == Frame(d)
           v == w \o f
           y == x \o d
<1>1. w \in Seq(Bytes) /\ x \in Seq(Bytes) /\ \A t \in Seq(Bytes) : CarriesTo(w, x, t)
  BY DEF Carries
<1>2. Len(d) \in 0..3 /\ <<>> \in Seq(Bytes)
  BY Empty
<1>3. f \in Seq(Bytes) /\ Len(f) = Len(d) + 5
  BY <1>2, FrameThen
<1>4. y \in Seq(Bytes)
  BY <1>1, ConcatProperties
<1> HIDE DEF f
<1>5. v \in Seq(Bytes) /\ Len(v) = Len(w) + Len(f) /\ Len(w) \in Nat
  BY <1>1, <1>3, ConcatProperties, LenProperties
<1>6. ASSUME NEW t \in Seq(Bytes) PROVE CarriesTo(v, y, t)
  <2>1. v \o t = w \o (f \o t)
    BY <1>1, <1>3, Regroup
  <2>2. f \o t \in Seq(Bytes)
    BY <1>3, ConcatProperties
  <2> DEFINE s == w \o (f \o t)
             F == ChunkedFrom(s)
             p == Len(w) + 1
             q == Len(w) + Len(d) + 5 + 1
  <2>3. CarriesTo(w, x, f \o t)
    BY <1>1, <2>2
  <2>4. F[1].body = x \o F[p].body /\ F[1].whole = F[p].whole
    BY <2>3 DEF CarriesTo
  <2>5. FrameAt(w, d, t)
    BY <1>1, FrameRead
  <2>6. /\ s \in Seq(Bytes) /\ q \in 1..(Len(s) + 1)
        /\ F[p].body = d \o F[q].body /\ F[p].whole = F[q].whole
    BY <2>5 DEF FrameAt, f
  <2>7. q = Len(v) + 1
    BY <1>3, <1>5
  <2> DEFINE b == F[q].body
  <2>8. b \in Seq(Bytes)
    BY <2>6, BodyIs
  <2>9. (x \o d) \o b = x \o (d \o b)
    BY <1>1, <2>8, Regroup
  <2> HIDE DEF F, p
  <2>10. F[1].body = y \o b /\ F[1].whole = F[q].whole
    BY <2>4, <2>6, <2>9
  <2>11. F = ChunkedFrom(v \o t)
    BY <2>1 DEF F
  <2> HIDE DEF y, v, q
  <2>12. QED
    BY <2>7, <2>8, <2>10, <2>11 DEF CarriesTo
<1> HIDE DEF v, y
<1>7. Carries(v, y)
  BY <1>4, <1>5, <1>6 DEF Carries
<1>8. QED
  BY <1>7 DEF v, y, f

\* A write of a stream's chunk, and what its first k chunks make.
Framed(d) == IF d = <<>> THEN <<>> ELSE Frame(d)
WireOf(q, k) == FlattenSeq([i \in 1..k |-> Framed(q[i])])
SourceOf(q, k) == FlattenSeq([i \in 1..k |-> q[i]])

\* The chunks of a source: data of at most three bytes each.
Chunks(q) == q \in Seq(Seq(Bytes)) /\ \A i \in 1..Len(q) : Len(q[i]) \in 0..3

LEMMA FramedIs ==
  ASSUME NEW d \in Seq(Bytes), Len(d) \in 0..3
  PROVE  /\ Framed(d) \in Seq(Bytes)
         /\ d # <<>> => Framed(d) = Frame(d) /\ Len(d) \in 1..3
<1>1. d # <<>> => Len(d) \in 1..3
  BY EmptySeq
<1>2. Frame(d) \in Seq(Bytes)
  BY Empty, FrameThen
<1>3. QED
  BY <1>1, <1>2, Empty DEF Framed

\* The writes of k + 1 chunks are those of k and one more.
OneMore(q, k) ==
  /\ WireOf(q, k) \in Seq(Bytes) /\ SourceOf(q, k) \in Seq(Bytes)
  /\ WireOf(q, k + 1) = WireOf(q, k) \o Framed(q[k + 1])
  /\ SourceOf(q, k + 1) = SourceOf(q, k) \o q[k + 1]

LEMMA OneMoreIs ==
  ASSUME NEW q, Chunks(q), NEW k \in Nat, k < Len(q)
  PROVE  OneMore(q, k)
<1>1. \A i \in 1..(k + 1) : q[i] \in Seq(Bytes) /\ Len(q[i]) \in 0..3
  <2>1. q \in Seq(Seq(Bytes)) /\ Len(q) \in Nat /\ \A i \in 1..Len(q) : Len(q[i]) \in 0..3
    BY LenProperties DEF Chunks
  <2>2. QED
    BY <2>1, ElementOfSeq
<1>2. \A i \in 1..(k + 1) : Framed(q[i]) \in Seq(Bytes)
  <2>1. ASSUME NEW i \in 1..(k + 1) PROVE Framed(q[i]) \in Seq(Bytes)
    <3>1. q[i] \in Seq(Bytes) /\ Len(q[i]) \in 0..3
      BY <1>1
    <3>2. QED
      BY <3>1, FramedIs
  <2>2. QED
    BY <2>1
<1> DEFINE s == [i \in 1..(k + 1) |-> Framed(q[i])]
           t == [i \in 1..k |-> Framed(q[i])]
           u == [i \in 1..(k + 1) |-> q[i]]
           v == [i \in 1..k |-> q[i]]
<1>3. /\ s \in Seq(Seq(Bytes)) /\ t \in Seq(Seq(Bytes)) /\ Len(s) = k + 1 /\ Len(t) = k
      /\ (\A i \in 1..k : s[i] = t[i]) /\ s[k + 1] = Framed(q[k + 1])
  BY <1>2
<1>4. /\ u \in Seq(Seq(Bytes)) /\ v \in Seq(Seq(Bytes)) /\ Len(u) = k + 1 /\ Len(v) = k
      /\ (\A i \in 1..k : u[i] = v[i]) /\ u[k + 1] = q[k + 1]
  BY <1>1
<1> HIDE DEF s, t, u, v
<1>5. /\ FlattenSeq(t) \in Seq(Bytes) /\ FlattenSeq(s) = FlattenSeq(t) \o s[Len(s)]
  BY <1>3, FlattenLast
<1>6. /\ FlattenSeq(v) \in Seq(Bytes) /\ FlattenSeq(u) = FlattenSeq(v) \o u[Len(u)]
  BY <1>4, FlattenLast
<1>7. /\ WireOf(q, k) = FlattenSeq(t) /\ WireOf(q, k + 1) = FlattenSeq(s)
      /\ SourceOf(q, k) = FlattenSeq(v) /\ SourceOf(q, k + 1) = FlattenSeq(u)
  BY DEF WireOf, SourceOf, s, t, u, v
<1>8. QED
  BY <1>3, <1>4, <1>5, <1>6, <1>7 DEF OneMore

\* What is on the wire for k chunks reads as their data.
LEMMA WireCarries ==
  ASSUME NEW q, Chunks(q), NEW k \in 0..Len(q)
  PROVE  Carries(WireOf(q, k), SourceOf(q, k))
<1> DEFINE T == {n \in Nat : n <= Len(q) => Carries(WireOf(q, n), SourceOf(q, n))}
<1>1. 0 \in T
  <2>1. WireOf(q, 0) = <<>> /\ SourceOf(q, 0) = <<>>
    <3>1. [i \in 1..0 |-> Framed(q[i])] = <<>> /\ [i \in 1..0 |-> q[i]] = <<>>
      OBVIOUS
    <3>2. FlattenSeq(<<>>) = <<>>
      BY EmptySeq DEF FlattenSeq
    <3>3. QED
      BY <3>1, <3>2 DEF WireOf, SourceOf
  <2>2. QED
    BY <2>1, CarriesNone
<1>2. ASSUME NEW n \in Nat, n \in T PROVE n + 1 \in T
  <2> SUFFICES ASSUME n + 1 <= Len(q) PROVE Carries(WireOf(q, n + 1), SourceOf(q, n + 1))
    OBVIOUS
  <2>1. q \in Seq(Seq(Bytes)) /\ Len(q) \in Nat /\ \A i \in 1..Len(q) : Len(q[i]) \in 0..3
    BY LenProperties DEF Chunks
  <2>2. n < Len(q) /\ n + 1 \in 1..Len(q)
    BY <2>1
  <2>3. Carries(WireOf(q, n), SourceOf(q, n))
    BY <1>2, <2>2
  <2> DEFINE d == q[n + 1]
             w == WireOf(q, n)
             x == SourceOf(q, n)
  <2>4. d \in Seq(Bytes) /\ Len(d) \in 0..3
    BY <2>1, <2>2, ElementOfSeq
  <2>5. OneMore(q, n)
    BY <2>2, OneMoreIs
  <2>6. /\ w \in Seq(Bytes) /\ x \in Seq(Bytes) /\ WireOf(q, n + 1) = w \o Framed(d) /\ SourceOf(q, n + 1) = x \o d
    BY <2>5 DEF OneMore
  <2> HIDE DEF d, w, x
  <2>7. CASE d = <<>>
    <3>1. Framed(d) = <<>>
      BY <2>7 DEF Framed
    <3>2. w \o <<>> = w /\ x \o <<>> = x
      BY <2>6, ConcatEmptySeq
    <3>3. WireOf(q, n + 1) = w /\ SourceOf(q, n + 1) = x
      BY <2>6, <2>7, <3>1, <3>2
    <3>4. QED
      BY <2>3, <3>3 DEF w, x
  <2>8. CASE d # <<>>
    <3>1. Framed(d) = Frame(d) /\ Len(d) \in 1..3
      BY <2>4, <2>8, FramedIs
    <3>2. Carries(w, x)
      BY <2>3 DEF w, x
    <3>3. Carries(w \o Frame(d), x \o d)
      BY <2>4, <3>1, <3>2, CarriesFrame
    <3>4. QED
      BY <2>6, <3>1, <3>3
  <2>9. QED
    BY <2>7, <2>8
<1> HIDE DEF T
<1>3. Nat \subseteq T
  BY <1>1, <1>2, Induct
<1>4. k \in Nat /\ k <= Len(q)
  BY LenProperties DEF Chunks
<1>5. QED
  BY <1>3, <1>4 DEF T

-----------------------------------------------------------------------------
(* Where an upload stops                                                   *)

\* What is left of a chunked upload is no whole one, or has no data.
StopsShort(w, c) == ChunkedFrom(w \o c)[Len(w) + 1].whole = FALSE
StopsDone(w, c) == ChunkedFrom(w \o c)[Len(w) + 1] = [body |-> <<>>, whole |-> TRUE]

LEMMA NothingStops ==
  ASSUME NEW w \in Seq(Bytes) PROVE StopsShort(w, <<>>)
<1>1. <<>> \in Seq(Bytes) /\ Len(<<>>) = 0
  BY Empty
<1> DEFINE c == <<>>
<1>2. c \in Seq(Bytes) /\ Len(c) < 3 /\ ~(Len(c) > 0)
  BY <1>1
<1> HIDE DEF c
<1>3. ChunkedFrom(w \o c)[Len(w) + 1].whole = FALSE
  BY <1>2, NoLine
<1>4. QED
  BY <1>3 DEF StopsShort, c

\* A size line, and all that is behind it.
LEMMA SizedStops ==
  ASSUME NEW w \in Seq(Bytes), NEW c, NEW m \in 0..3, Sized(c, m), m # 0 => Len(c) < m + 5
  PROVE  IF m = 0 THEN StopsDone(w, c) ELSE StopsShort(w, c)
<1> DEFINE s == w \o c
           p == Len(w) + 1
           e == p + 3 + m
<1>1. c \in Seq(Bytes) /\ Len(c) \in Nat /\ Len(w) \in Nat
  BY LenProperties DEF Sized
<1>2. Views(s, p, c, <<>>) /\ Len(s) = Len(w) + Len(c)
  BY <1>1, TailView, ConcatProperties
<1>3. m # 0 => ~(e < Len(s))
  BY <1>1, <1>2
<1> HIDE DEF s, p
<1>4. IF m = 0 THEN ChunkedFrom(s)[p] = [body |-> <<>>, whole |-> TRUE]
      ELSE ChunkedFrom(s)[p] = InChunk(s, p + 3, p + 3 + m)
  BY <1>2, SizedChunk
<1> HIDE DEF e
<1>5. m # 0 => InChunk(s, p + 3, e).whole = FALSE
  BY <1>3 DEF InChunk
<1>6. m # 0 => ChunkedFrom(s)[p].whole = FALSE
  BY <1>4, <1>5 DEF e
<1>7. QED
  BY <1>4, <1>6 DEF StopsDone, StopsShort, s, p

\* A beginning of what starts with a size line.
LEMMA CutStops ==
  ASSUME NEW w \in Seq(Bytes), NEW f, NEW m \in 0..3, Sized(f, m),
         NEW n \in 0..Len(f), m # 0 => n < m + 5
  PROVE  LET c == SubSeq(f, 1, n)
         IN /\ c \in Seq(Bytes)
            /\ n < 3 \/ m # 0 => StopsShort(w, c)
            /\ n >= 3 /\ m = 0 => StopsDone(w, c)
<1> DEFINE c == SubSeq(f, 1, n)
<1>1. /\ f \in Seq(Bytes) /\ Len(f) \in Nat
      /\ f[1] = Digits[m + 1] /\ f[2] = "CR" /\ f[3] = "LF"
  BY LenProperties DEF Sized
<1>2. /\ c \in Seq(Bytes) /\ Len(c) = IF 1 <= n THEN n - 1 + 1 ELSE 0
      /\ \A i \in 1..(n - 1 + 1) : c[i] = f[1 + i - 1]
  BY <1>1, SubSeqIs
<1> HIDE DEF c
<1>3. Len(c) = n
  BY <1>1, <1>2
<1>4. \A i \in 1..n : c[i] = f[i]
  BY <1>1, <1>2
<1>5. CASE n < 3
  <2>1. f[1] # "CR"
    BY <1>1, DigitIs
  <2>2. Len(c) > 0 => c[1] # "CR"
    BY <1>3, <1>4, <2>1
  <2>3. ChunkedFrom(w \o c)[Len(w) + 1].whole = FALSE
    BY <1>2, <1>3, <1>5, <2>2, NoLine
  <2>4. StopsShort(w, c)
    BY <2>3 DEF StopsShort
  <2>5. QED
    BY <1>2, <1>5, <2>4 DEF c
<1>6. CASE ~(n < 3)
  <2>1. c[1] = f[1] /\ c[2] = f[2] /\ c[3] = f[3] /\ Len(c) >= 3
    BY <1>1, <1>3, <1>4, <1>6
  <2>2. Sized(c, m) /\ (m # 0 => Len(c) < m + 5)
    BY <1>1, <1>2, <1>3, <2>1 DEF Sized
  <2>3. IF m = 0 THEN StopsDone(w, c) ELSE StopsShort(w, c)
    BY <2>2, SizedStops
  <2>4. QED
    BY <1>2, <1>6, <2>3 DEF c
<1>7. QED
  BY <1>5, <1>6

LEMMA LastIs == Sized(LastFrame, 0)
<1> DEFINE z == <<"0">>
           f == CRLF \o CRLF
           s == z \o f
<1>1. "0" = Digits[0 + 1] /\ "0" \in Bytes
  <2>1. 0 \in 0..3
    OBVIOUS
  <2>2. Digits[0 + 1] \in Bytes
    BY <2>1, DigitIs
  <2>3. QED
    BY <2>2, FramesAre
<1>2. z \in Seq(Bytes) /\ Len(z) = 1 /\ z[1] = "0"
  BY <1>1, OneIs
<1>3. CRLF \in Seq(Bytes) /\ Len(CRLF) = 2 /\ CRLF[1] = "CR" /\ CRLF[2] = "LF"
  BY Marks, TwoIs
<1> HIDE DEF z
<1>4. /\ f \in Seq(Bytes) /\ Len(f) = Len(CRLF) + Len(CRLF)
      /\ \A i \in 1..(Len(CRLF) + Len(CRLF)) : f[i] = IF i <= Len(CRLF) THEN CRLF[i] ELSE CRLF[i - Len(CRLF)]
  BY <1>3, ConcatProperties
<1>4a. f[1] = "CR" /\ f[2] = "LF" /\ Len(f) = 4
  BY <1>3, <1>4
<1>4b. f \in Seq(Bytes)
  BY <1>4
<1> HIDE DEF f
<1>5. /\ s \in Seq(Bytes) /\ Len(s) = Len(z) + Len(f)
      /\ \A i \in 1..(Len(z) + Len(f)) : s[i] = IF i <= Len(z) THEN z[i] ELSE f[i - Len(z)]
  BY <1>2, <1>4b, ConcatProperties
<1>5a. s \in Seq(Bytes)
  BY <1>5
<1>6. Len(s) = 5 /\ s[1] = z[1] /\ s[2] = f[2 - 1] /\ s[3] = f[3 - 1]
  <2> HIDE DEF s
  <2>1. QED
    BY <1>2, <1>4a, <1>5
<1>7. 2 - 1 = 1 /\ 3 - 1 = 2
  OBVIOUS
<1>8. LastFrame = s
  BY DEF LastFrame, Separator, z, f
<1> HIDE DEF s
<1>9. s[1] = Digits[0 + 1] /\ s[2] = "CR" /\ s[3] = "LF"
  BY <1>1, <1>2, <1>4a, <1>6, <1>7
<1>10. QED
  <2>1. Sized(s, 0)
    <3>1. s \in Seq(Bytes) /\ Len(s) >= 3
      BY <1>5a, <1>6
    <3>2. QED
      BY <1>9, <3>1, Zenon DEF Sized
  <2>2. QED
    BY <1>8, <2>1

\* What an upload that stops there reads as.
LEMMA StopReads ==
  ASSUME NEW w, NEW x, Carries(w, x), NEW c \in Seq(Bytes)
  PROVE  /\ StopsShort(w, c) => ChunkedBody(w \o c).whole = FALSE
         /\ StopsDone(w, c) => ChunkedBody(w \o c) .body = x /\ ChunkedBody(w \o c).whole = TRUE
<1> DEFINE F == ChunkedFrom(w \o c)
           p == Len(w) + 1
<1>1. w \in Seq(Bytes) /\ x \in Seq(Bytes) /\ CarriesTo(w, x, c)
  BY DEF Carries
<1>2. F[1].body = x \o F[p].body /\ F[1].whole = F[p].whole
  BY <1>1 DEF CarriesTo
<1>3. ChunkedBody(w \o c) = F[1]
  BY DEF ChunkedBody
<1>4. x \o <<>> = x
  BY <1>1, ConcatEmptySeq
<1>5. /\ StopsShort(w, c) => F[p].whole = FALSE
      /\ StopsDone(w, c) => F[p] = [body |-> <<>>, whole |-> TRUE]
  BY DEF StopsShort, StopsDone
<1> HIDE DEF F, p
<1>6. StopsShort(w, c) => F[1].whole = FALSE
  BY <1>2, <1>5
<1>7. StopsDone(w, c) => F[1].body = x /\ F[1].whole = TRUE
  <2> SUFFICES ASSUME StopsDone(w, c) PROVE F[1].body = x /\ F[1].whole = TRUE
    OBVIOUS
  <2>1. F[p].body = <<>> /\ F[p].whole = TRUE
    BY <1>5
  <2>2. F[1].body = x \o <<>>
    BY <1>2, <2>1
  <2>3. QED
    BY <1>2, <1>4, <2>1, <2>2
<1>8. QED
  BY <1>3, <1>6, <1>7

\* Before the last chunk an upload is never whole.
LEMMA NotWhole ==
  ASSUME NEW w, NEW x, Carries(w, x)
  PROVE  ChunkedBody(w).whole = FALSE
<1>1. w \in Seq(Bytes) /\ <<>> \in Seq(Bytes)
  BY Empty DEF Carries
<1>2. w \o <<>> = w
  BY <1>1, ConcatEmptySeq
<1>3. StopsShort(w, <<>>)
  BY <1>1, NothingStops
<1>4. ChunkedBody(w \o <<>>).whole = FALSE
  BY <1>1, <1>3, StopReads
<1>5. QED
  BY <1>2, <1>4

-----------------------------------------------------------------------------
(* HttpFetch: the inductive invariant of the upload                        *)

Datas == [i \in DOMAIN call.body.chunks |-> call.body.chunks[i].data]
Begun == {"start", "connecting", "tls", "head"}

\* The request is built at once, for an upload that can be sent.
Requested ==
  /\ request = {} \/ request = RequestHead(call.fields, Upload.kind)
  /\ pc \notin {"start", "failed"} => Upload.kind # "invalid"
  /\ pc \in {"start", "connecting"} => request = {}
  /\ pc \notin {"start", "connecting", "failed"} => request # {}
  /\ request = {} => sent = <<>>
  /\ request # {} => Upload.kind # "invalid"

\* The writes of a streamed upload, so far.
Sending ==
  LET k == Len(Upload.items) - Len(upload)
  IN /\ k \in 0..Len(Upload.items)
     /\ \A j \in 1..Len(upload) : upload[j] = Upload.items[k + j]
     /\ \A i \in 1..k : Upload.items[i].ok
     /\ sent = WireOf(Datas, k)

Uploading ==
  /\ pc \in Begun => sent = <<>> /\ upload = Upload.items
  /\ pc = "upload" /\ Upload.kind # "stream" => sent = <<>>
  /\ pc = "upload" /\ Upload.kind = "stream" => Sending

\* If w reads as complete to the peer, it is what the caller gave.
Honest(w) ==
  /\ Upload.kind = "stream" /\ ChunkedBody(w).whole =>
       ChunkedBody(w).body = CallersBody /\ ~SourceFails
  /\ Upload.kind = "bytes" /\ Len(w) = Len(Upload.bytes) => w = CallersBody
  /\ Upload.kind = "none" => w = <<>>

Written == Requested /\ Uploading /\ Honest(sent)
IInv == Typed /\ Answering /\ Written

-----------------------------------------------------------------------------
(* HttpFetch: the upload, step by step                                     *)

\* A streamed upload, chunk by chunk.
StreamUpload ==
  /\ Chunks(Datas) /\ Len(Datas) \in Nat /\ Len(Upload.items) = Len(Datas)
  /\ \A i \in 1..Len(Datas) : Upload.items[i].ok => Upload.items[i].data = Datas[i]
  /\ CallersBody = SourceOf(Datas, Len(Datas))
  /\ SourceFails => \E i \in 1..Len(Datas) : ~Upload.items[i].ok

LEMMA StreamIs ==
  ASSUME call \in Calls, Upload.kind = "stream"
  PROVE  StreamUpload
<1> DEFINE given == call.body
           items == [i \in DOMAIN given.chunks |-> Item(given.chunks[i])]
           body(kind, bytes, its) == [kind |-> kind, bytes |-> bytes, items |-> its]
           n == Len(given.chunks)
<1>1. Upload = CASE given.type = "null" -> body("none", <<>>, <<>>)
                 [] given.type \in {"string", "Uint8Array", "ArrayBuffer"} -> body("bytes", given.data, <<>>)
                 [] given.type = "ReadableStream" -> body("stream", <<>>, items)
                 [] OTHER -> body("invalid", <<>>, <<>>)
  BY DEF Upload, RequestBody
<1>2. given.type = "ReadableStream"
  <2> HIDE DEF items, given
  <2>1. given.type # "ReadableStream" => Upload.kind # "stream"
    <3>1. CASE given.type = "null"
      BY <1>1, <3>1
    <3>2. CASE given.type \in {"string", "Uint8Array", "ArrayBuffer"}
      BY <1>1, <3>2
    <3>3. CASE given.type \notin {"null", "string", "Uint8Array", "ArrayBuffer", "ReadableStream"}
      BY <1>1, <3>3
    <3>4. QED
      BY <3>1, <3>2, <3>3
  <2>2. QED
    BY <2>1
<1>3. /\ given.chunks \in Seq([type : STRING, data : Seq(Bytes)])
      /\ \A i \in DOMAIN given.chunks : Len(given.chunks[i].data) < Len(Digits)
  BY <1>2, CallTyped DEF IsBody
<1>4. DOMAIN given.chunks = 1..n /\ n \in Nat
  BY <1>3, LenProperties
<1>5. \A i \in 1..n : given.chunks[i].data \in Seq(Bytes) /\ Len(given.chunks[i].data) \in 0..3
  <2> SUFFICES ASSUME NEW i \in 1..n
               PROVE given.chunks[i].data \in Seq(Bytes) /\ Len(given.chunks[i].data) \in 0..3
    OBVIOUS
  <2>1. given.chunks[i] \in [type : STRING, data : Seq(Bytes)]
    BY <1>3, <1>4, ElementOfSeq
  <2>2. given.chunks[i].data \in Seq(Bytes)
    BY <2>1
  <2>3. Len(given.chunks[i].data) \in Nat /\ Len(given.chunks[i].data) < 4
    BY <1>3, <1>4, <2>2, LenProperties, FramesAre
  <2> DEFINE e == Len(given.chunks[i].data)
  <2>4. e \in Nat /\ e < 4
    BY <2>3
  <2> HIDE DEF e
  <2>5. e \in 0..3
    BY <2>4
  <2>6. QED
    BY <2>2, <2>5 DEF e
<1>6. /\ Datas \in Seq(Seq(Bytes)) /\ Len(Datas) = n
      /\ \A i \in 1..n : Datas[i] = given.chunks[i].data
  <2>1. Datas = [i \in 1..n |-> given.chunks[i].data]
    BY <1>4 DEF Datas
  <2>2. QED
    BY <1>4, <1>5, <2>1
<1>7. Chunks(Datas)
  BY <1>5, <1>6 DEF Chunks
<1>8. Upload.items = items
  <2> HIDE DEF items, given
  <2>1. Upload = body("stream", <<>>, items)
    BY <1>1, <1>2
  <2>2. QED
    BY <2>1
<1>9. Len(items) = n /\ \A i \in 1..n : items[i] = Item(given.chunks[i])
  <2>1. items = [i \in 1..n |-> Item(given.chunks[i])]
    BY <1>4
  <2>2. QED
    BY <1>4, <2>1
<1>10. \A i \in 1..n : /\ items[i].ok => items[i].data = Datas[i]
                       /\ given.chunks[i].type # "Uint8Array" => ~items[i].ok
  <2> SUFFICES ASSUME NEW i \in 1..n
               PROVE /\ items[i].ok => items[i].data = Datas[i]
                     /\ given.chunks[i].type # "Uint8Array" => ~items[i].ok
    OBVIOUS
  <2> DEFINE ch == given.chunks[i]
  <2>1. items[i] = Item(ch) /\ Datas[i] = ch.data
    BY <1>6, <1>9
  <2> HIDE DEF ch, items
  <2>2. QED
    BY <2>1 DEF Item, ch
<1>11. CallersBody = FlattenSeq(Datas)
  BY <1>2 DEF CallersBody, Datas
<1>12. Datas = [i \in 1..n |-> Datas[i]]
  BY <1>4, <1>6 DEF Datas
<1>13. CallersBody = SourceOf(Datas, n)
  BY <1>11, <1>12 DEF SourceOf
<1>14. SourceFails => \E i \in 1..n : ~items[i].ok
  BY <1>4, <1>10 DEF SourceFails
<1> HIDE DEF n, items
<1>15. QED
  BY <1>4, <1>6, <1>7, <1>8, <1>9, <1>10, <1>13, <1>14 DEF StreamUpload

\* The other kinds of body.
LEMMA KindsAre ==
  ASSUME call \in Calls
  PROVE  /\ Upload.kind = "bytes" => Upload.bytes = CallersBody /\ CallersBody \in Seq(Bytes) /\ ~SourceFails
         /\ Upload.kind = "none" => CallersBody = <<>> /\ ~SourceFails
         /\ Upload.kind # "stream" => Upload.items = <<>>
<1> DEFINE given == call.body
           items == [i \in DOMAIN given.chunks |-> Item(given.chunks[i])]
           body(kind, bytes, its) == [kind |-> kind, bytes |-> bytes, items |-> its]
<1>1. Upload = CASE given.type = "null" -> body("none", <<>>, <<>>)
                 [] given.type \in {"string", "Uint8Array", "ArrayBuffer"} -> body("bytes", given.data, <<>>)
                 [] given.type = "ReadableStream" -> body("stream", <<>>, items)
                 [] OTHER -> body("invalid", <<>>, <<>>)
  BY DEF Upload, RequestBody
<1>2. given.type \in {"string", "Uint8Array", "ArrayBuffer"} => given.data \in Seq(Bytes)
  BY CallTyped DEF IsBody
<1>3. /\ given.type = "null" => CallersBody = <<>>
      /\ given.type \in {"string", "Uint8Array", "ArrayBuffer"} => CallersBody = given.data
      /\ given.type # "ReadableStream" => ~SourceFails
  BY DEF CallersBody, SourceFails
<1> HIDE DEF given, items
<1>4. CASE given.type = "null"
  BY <1>1, <1>3, <1>4
<1>5. CASE given.type \in {"string", "Uint8Array", "ArrayBuffer"}
  <2>1. Upload = body("bytes", given.data, <<>>)
    BY <1>1, <1>5
  <2>2. QED
    BY <1>2, <1>3, <1>5, <2>1
<1>6. CASE given.type = "ReadableStream"
  BY <1>1, <1>6
<1>7. CASE given.type \notin {"null", "string", "Uint8Array", "ArrayBuffer", "ReadableStream"}
  BY <1>1, <1>7
<1>8. QED
  BY <1>4, <1>5, <1>6, <1>7

\* What follows for the peer.
LEMMA WrittenHonest ==
  ASSUME Typed, Written
  PROVE  UploadHonest
<1> SUFFICES ASSUME request # {}, PeerHasAll PROVE PeerBody = CallersBody /\ ~SourceFails
  BY DEF UploadHonest
<1>1. request = RequestHead(call.fields, Upload.kind) /\ Upload.kind # "invalid" /\ Honest(sent)
  BY DEF Written, Requested
<1>2. call \in Calls /\ Upload.kind \in {"none", "bytes", "stream", "invalid"}
  BY DEF Typed, TypeOK
<1>3. /\ "transfer-encoding" \in request <=> Upload.kind = "stream"
      /\ "content-length" \in request <=> Upload.kind = "bytes"
  BY <1>1 DEF RequestHead, FramingField
<1>4. CASE Upload.kind = "stream"
  BY <1>1, <1>3, <1>4 DEF PeerHasAll, PeerBody, Honest
<1>5. CASE Upload.kind = "bytes"
  BY <1>1, <1>2, <1>3, <1>5, KindsAre DEF PeerHasAll, PeerBody, Honest
<1>6. CASE Upload.kind = "none"
  BY <1>1, <1>2, <1>3, <1>6, KindsAre DEF PeerHasAll, PeerBody, Honest
<1>7. QED
  BY <1>1, <1>2, <1>4, <1>5, <1>6

LEMMA KeepsCall ==
  ASSUME call' = call
  PROVE  /\ Upload' = Upload /\ Datas' = Datas /\ CallersBody' = CallersBody
         /\ SourceFails' = SourceFails
BY DEF Upload, Datas, CallersBody, SourceFails

\* A step that leaves the request alone.
Later == {"flush", "headers", "answer", "response", "chunk", "ended"}

LEMMA WrittenKept ==
  ASSUME Written, call' = call, UNCHANGED requestVars,
         pc' \in {pc, "failed"} \/ (pc \in Later /\ pc' \in Later)
  PROVE  Written'
<1>1. Upload' = Upload /\ Datas' = Datas /\ CallersBody' = CallersBody /\ SourceFails' = SourceFails
  BY KeepsCall
<1>2. request' = request /\ sent' = sent /\ upload' = upload
  BY DEF requestVars
<1>3. Requested'
  BY <1>1, <1>2 DEF Written, Requested, Later
<1>4. Sending' = Sending
  BY <1>1, <1>2 DEF Sending
<1>5. Uploading'
  BY <1>1, <1>2, <1>4 DEF Written, Uploading, Begun, Later
<1>6. Honest(sent)'
  BY <1>1, <1>2 DEF Written, Honest
<1>7. QED
  BY <1>3, <1>5, <1>6 DEF Written

\* A write that goes on, ends or fails.
LEMMA WrittenSent ==
  ASSUME Written, call' = call, request' = request, pc = "upload" \/ UNCHANGED sent,
         pc \in {"upload", "flush", "head"}, pc' \in {"flush", "failed"}, Honest(sent')
  PROVE  Written'
<1>1. Upload' = Upload /\ CallersBody' = CallersBody /\ SourceFails' = SourceFails
  BY KeepsCall
<1>2. Requested'
  <2>1. request # {}
    BY DEF Written, Requested
  <2>2. QED
    BY <1>1, <2>1 DEF Written, Requested
<1>3. Uploading'
  BY DEF Uploading, Begun
<1>4. Honest(sent)'
  BY <1>1 DEF Honest
<1>5. QED
  BY <1>2, <1>3, <1>4 DEF Written

\* Where a streamed upload is.
SendingAt(k) ==
  /\ k \in Nat /\ k + Len(upload) = Len(Datas) /\ Len(upload) \in Nat
  /\ Chunks(Datas) /\ k \in 0..Len(Datas)
  /\ \A j \in 1..Len(upload) : upload[j] = Upload.items[k + j]
  /\ \A i \in 1..k : Upload.items[i].ok
  /\ sent = WireOf(Datas, k) /\ Carries(sent, SourceOf(Datas, k))

LEMMA SendingIs ==
  ASSUME Typed, Upload.kind = "stream", Sending
  PROVE  SendingAt(Len(Upload.items) - Len(upload))
<1> DEFINE k == Len(Upload.items) - Len(upload)
<1>1. call \in Calls /\ upload \in Seq(Items)
  BY DEF Typed
<1>2. StreamUpload /\ Len(upload) \in Nat
  BY <1>1, StreamIs, LenProperties
<1>3. Chunks(Datas) /\ Len(Datas) \in Nat /\ Len(Upload.items) = Len(Datas)
  BY <1>2 DEF StreamUpload
<1>4. /\ k \in 0..Len(Upload.items)
      /\ \A j \in 1..Len(upload) : upload[j] = Upload.items[k + j]
      /\ \A i \in 1..k : Upload.items[i].ok
      /\ sent = WireOf(Datas, k)
  BY DEF Sending
<1>5. k + Len(upload) = Len(Datas) /\ k \in Nat /\ k \in 0..Len(Datas)
  BY <1>2, <1>3, <1>4
<1> HIDE DEF k
<1>6. Carries(WireOf(Datas, k), SourceOf(Datas, k))
  BY <1>3, <1>5, WireCarries
<1>7. SendingAt(k)
  BY <1>2, <1>3, <1>4, <1>5, <1>6 DEF SendingAt
<1>8. QED
  BY <1>7 DEF k

\* The next chunk.
LEMMA NextChunk ==
  ASSUME Typed, Upload.kind = "stream", pc = "upload", NEW k, SendingAt(k), upload # <<>>
  PROVE  /\ k + 1 \in 1..Len(Datas) /\ Datas[k + 1] \in Seq(Bytes) /\ Len(Datas[k + 1]) \in 0..3
         /\ upload[1] = Upload.items[k + 1]
         /\ upload[1].ok => NextWrite = Framed(Datas[k + 1])
         /\ ~upload[1].ok => NextWrite = <<>>
<1>1. call \in Calls /\ upload \in Seq(Items)
  BY DEF Typed
<1>2. StreamUpload
  BY <1>1, StreamIs
<1>3. Len(upload) \in Nat /\ Len(upload) # 0
  BY <1>1, EmptySeq, LenProperties
<1>4. k + 1 \in 1..Len(Datas) /\ 1 \in 1..Len(upload)
  BY <1>2, <1>3 DEF SendingAt, StreamUpload
<1>5. upload[1] = Upload.items[k + 1]
  BY <1>4 DEF SendingAt
<1>6. Datas[k + 1] \in Seq(Bytes) /\ Len(Datas[k + 1]) \in 0..3
  BY <1>4, ElementOfSeq DEF SendingAt, Chunks
<1>7. NextWrite = IF upload[1].ok /\ upload[1].data # <<>> THEN Frame(upload[1].data) ELSE <<>>
  BY DEF NextWrite
<1>8. upload[1].ok => upload[1].data = Datas[k + 1]
  BY <1>2, <1>4, <1>5 DEF StreamUpload
<1>9. QED
  BY <1>4, <1>5, <1>6, <1>7, <1>8 DEF Framed

\* An upload that stops in or behind a write reads as complete only behind
\* the last one, and has everything then.
LEMMA StreamStops ==
  ASSUME Typed, Upload.kind = "stream", pc = "upload", Sending,
         NEW n \in 0..Len(NextWrite)
  PROVE  Honest(sent \o SubSeq(NextWrite, 1, n))
<1> DEFINE k == Len(Upload.items) - Len(upload)
           x == SourceOf(Datas, k)
           f == NextWrite
           c == SubSeq(f, 1, n)
<1>1. SendingAt(k)
  BY SendingIs
<1>1a. f \in Seq(Bytes)
  BY NextTyped
<1> HIDE DEF k
<1>2. Carries(sent, x) /\ sent \in Seq(Bytes)
  BY <1>1 DEF SendingAt, Carries
<1>3. n \in 0..Len(f) /\ n \in Nat
  BY LenProperties
<1>4. SUFFICES ChunkedBody(sent \o c).whole => ChunkedBody(sent \o c).body = CallersBody /\ ~SourceFails
  BY DEF Honest
<1> HIDE DEF f, x
<1>5. CASE upload = <<>>
  <2>1. f = LastFrame
    BY <1>5 DEF f, NextWrite
  <2>2. Sized(f, 0) /\ 0 \in 0..3
    BY <2>1, LastIs
  <2>3. c \in Seq(Bytes) /\ (StopsShort(sent, c) \/ StopsDone(sent, c))
    BY <1>2, <1>3, <2>2, CutStops
  <2>4. CallersBody = x /\ ~SourceFails
    <3>1. call \in Calls
      BY DEF Typed
    <3>2. StreamUpload
      BY <3>1, StreamIs
    <3>3. k = Len(Datas)
      BY <1>1, <1>5, Empty DEF SendingAt
    <3>4. CallersBody = x
      BY <3>2, <3>3 DEF StreamUpload, x
    <3>5. ~SourceFails
      BY <1>1, <3>2, <3>3 DEF StreamUpload, SendingAt
    <3>6. QED
      BY <3>4, <3>5
  <2> HIDE DEF c
  <2>5. CASE StopsShort(sent, c)
    <3>1. ChunkedBody(sent \o c).whole = FALSE
      BY <1>2, <2>3, <2>5, StopReads
    <3>2. QED
      BY <3>1
  <2>6. CASE StopsDone(sent, c)
    <3>1. ChunkedBody(sent \o c).body = x
      BY <1>2, <2>3, <2>6, StopReads
    <3>2. QED
      BY <2>4, <3>1
  <2>7. QED
    BY <2>3, <2>5, <2>6
<1>6. CASE upload # <<>>
  <2> SUFFICES ChunkedBody(sent \o c).whole = FALSE
    OBVIOUS
  <2> DEFINE d == Datas[k + 1]
             m == Len(d)
  <2>1. /\ d \in Seq(Bytes) /\ m \in 0..3
        /\ upload[1].ok => f = Framed(d)
        /\ ~upload[1].ok => f = <<>>
    BY <1>1, <1>6, NextChunk DEF f
  <2> HIDE DEF d
  <2>2. CASE f = <<>>
    <3>1. Len(f) = 0 /\ n = 0
      BY <1>3, <2>2, Empty
    <3>2. c \in Seq(Bytes) /\ Len(c) = 0
      BY <1>1a, <3>1, SubSeqIs
    <3>3. c = <<>>
      BY <3>2, EmptySeq
    <3> HIDE DEF c
    <3>4. sent \o c = sent
      BY <1>2, <3>3, ConcatEmptySeq
    <3>5. ChunkedBody(sent).whole = FALSE
      BY <1>2, NotWhole
    <3>6. QED
      BY <3>4, <3>5
  <2>3. CASE f # <<>>
    <3>1. f = Frame(d) /\ m \in 1..3
      <4>1. f = Framed(d)
        BY <2>1, <2>3
      <4>0. d \in Seq(Bytes) /\ Len(d) \in 0..3
        BY <2>1
      <4>1a. d # <<>>
        BY <2>3, <4>1 DEF Framed
      <4>2. Framed(d) = Frame(d) /\ Len(d) \in 1..3
        BY <4>0, <4>1a, FramedIs
      <4>3. QED
        BY <2>3, <4>1, <4>2
    <3>2. Len(f) = m + 5 /\ Sized(f, m)
      <4>1. <<>> \in Seq(Bytes)
        BY Empty
      <4>2. Len(Frame(d)) = Len(d) + 5 /\ Sized(Frame(d) \o <<>>, Len(d))
        BY <2>1, <4>1, FrameThen
      <4>3. f \o <<>> = f
        BY <1>1a, ConcatEmptySeq
      <4>4. QED
        BY <3>1, <4>2, <4>3
    <3>3. CASE n < m + 5
      <4>1. c \in Seq(Bytes) /\ StopsShort(sent, c)
        <5>1. m \in 0..3 /\ m # 0
          BY <3>1
        <5> HIDE DEF m
        <5>2. QED
          BY <1>2, <1>3, <3>2, <3>3, <5>1, CutStops
      <4> HIDE DEF c
      <4>2. QED
        BY <1>2, <4>1, StopReads
    <3>4. CASE ~(n < m + 5)
      <4>1. n = Len(f)
        BY <1>3, <2>1, <3>2, <3>4
      <4>2. c = f
        BY <1>1a, <4>1, SubSeqFull
      <4>3. Carries(sent \o Frame(d), x \o d)
        BY <1>2, <2>1, <3>1, CarriesFrame
      <4>4. ChunkedBody(sent \o Frame(d)).whole = FALSE
        BY <4>3, NotWhole
      <4> HIDE DEF c
      <4>5. QED
        BY <3>1, <4>2, <4>4
    <3>5. QED
      BY <3>3, <3>4
  <2>4. QED
    BY <2>2, <2>3
<1>7. QED
  BY <1>5, <1>6

\* Steps up to the upload.
LEMMA BegunStep ==
  ASSUME Written, call' = call, UNCHANGED <<sent, upload>>, pc \in Begun, pc' \in Begun, Requested'
  PROVE  Written'
<1>1. Upload' = Upload /\ CallersBody' = CallersBody /\ SourceFails' = SourceFails
  BY KeepsCall
<1>2. Uploading'
  BY <1>1 DEF Written, Uploading, Begun
<1>3. Honest(sent)'
  BY <1>1 DEF Written, Honest
<1>4. QED
  BY <1>2, <1>3 DEF Written

LEMMA StartWritten ==
  ASSUME Written, Start PROVE Written'
<1>1. call' = call /\ UNCHANGED requestVars /\ pc = "start" /\ pc' \in {"connecting", "failed"}
      /\ (pc' = "connecting" => Upload.kind # "invalid")
  BY DEF Start, Goto
<1>2. CASE pc' = "failed"
  BY <1>1, <1>2, WrittenKept
<1>3. CASE pc' = "connecting"
  <2>1. Upload' = Upload /\ request' = request /\ sent' = sent /\ upload' = upload
    BY <1>1, KeepsCall DEF requestVars
  <2>2. Requested'
    BY <1>1, <1>3, <2>1 DEF Written, Requested
  <2>3. QED
    BY <1>1, <1>3, <2>1, <2>2, BegunStep DEF Begun
<1>4. QED
  BY <1>1, <1>2, <1>3

LEMMA ConnectedWritten ==
  ASSUME Written, Connected PROVE Written'
<1>1. CASE aborted \/ "injected" \in call.fields
  <2>1. call' = call /\ UNCHANGED requestVars /\ pc' = "failed"
    BY <1>1 DEF Connected, Goto
  <2>2. QED
    BY <2>1, WrittenKept
<1>2. CASE ~(aborted \/ "injected" \in call.fields)
  <2>1. /\ call' = call /\ request' = RequestHead(call.fields, Upload.kind) /\ UNCHANGED <<sent, upload>>
        /\ pc = "connecting" /\ pc' \in {"tls", "head"}
    BY <1>2 DEF Connected, Goto
  <2>2. Upload' = Upload /\ call'.fields = call.fields
    BY <2>1, KeepsCall
  <2>3. request' # {}
    BY <2>1 DEF RequestHead
  <2>4. Requested'
    BY <2>1, <2>2, <2>3 DEF Written, Requested
  <2>5. QED
    BY <2>1, <2>4, BegunStep DEF Begun
<1>3. QED
  BY <1>1, <1>2

LEMMA HandshakeWritten ==
  ASSUME Written, Handshake PROVE Written'
<1>1. call' = call /\ UNCHANGED requestVars /\ pc = "tls" /\ pc' = "head"
  BY DEF Handshake, Goto
<1>2. Upload' = Upload /\ request' = request /\ sent' = sent /\ upload' = upload
  BY <1>1, KeepsCall DEF requestVars
<1>3. Requested'
  BY <1>1, <1>2 DEF Written, Requested
<1>4. QED
  BY <1>1, <1>2, <1>3, BegunStep DEF Begun

LEMMA SendHeadWritten ==
  ASSUME Typed, Written, SendHead PROVE Written'
<1>1. call' = call /\ UNCHANGED requestVars /\ pc = "head" /\ pc' = "upload"
  BY DEF SendHead, Goto
<1>2. /\ Upload' = Upload /\ request' = request /\ sent' = sent /\ upload' = upload
      /\ Datas' = Datas /\ CallersBody' = CallersBody /\ SourceFails' = SourceFails
  BY <1>1, KeepsCall DEF requestVars
<1>3. Requested'
  BY <1>1, <1>2 DEF Written, Requested
<1>4. sent = <<>> /\ upload = Upload.items
  BY <1>1 DEF Written, Uploading, Begun
<1>5. Upload.kind = "stream" => Sending
  <2> DEFINE n == Len(Upload.items)
  <2>1. n \in Nat /\ n - n = 0
    BY UploadTyped, LenProperties DEF Typed
  <2>2. WireOf(Datas, 0) = <<>>
    <3>1. [i \in 1..0 |-> Framed(Datas[i])] = <<>>
      OBVIOUS
    <3>2. FlattenSeq(<<>>) = <<>>
      BY EmptySeq DEF FlattenSeq
    <3>3. QED
      BY <3>1, <3>2 DEF WireOf
  <2>3. Len(Upload.items) - Len(upload) = 0
    BY <1>4, <2>1
  <2>4. \A j \in 1..Len(upload) : upload[j] = Upload.items[0 + j]
    <3>1. \A j \in 1..Len(upload) : 0 + j = j
      BY <1>4, <2>1
    <3>2. QED
      BY <1>4, <3>1
  <2>5. QED
    BY <1>4, <2>1, <2>2, <2>3, <2>4 DEF Sending
<1>6. Sending' = Sending
  BY <1>2 DEF Sending
<1>7. Uploading'
  BY <1>1, <1>2, <1>4, <1>5, <1>6 DEF Uploading, Begun
<1>8. Honest(sent)'
  BY <1>2 DEF Written, Honest
<1>9. QED
  BY <1>3, <1>7, <1>8 DEF Written

LEMMA BytesStops ==
  ASSUME Typed, Written, pc = "upload", Upload.kind # "stream", NEW n \in 0..Len(NextWrite)
  PROVE  Honest(sent \o SubSeq(NextWrite, 1, n))
<1> DEFINE c == SubSeq(NextWrite, 1, n)
<1>1. sent = <<>> /\ Upload.kind # "invalid"
  BY DEF Written, Uploading, Requested
<1>2. call \in Calls /\ Upload.kind \in {"none", "bytes", "stream", "invalid"}
  BY DEF Typed, TypeOK
<1>3. CASE Upload.kind = "bytes"
  <2>1. /\ NextWrite = Upload.bytes /\ Upload.bytes = CallersBody /\ Upload.bytes \in Seq(Bytes)
    BY <1>2, <1>3, KindsAre DEF NextWrite
  <2> DEFINE b == Upload.bytes
  <2>2. b \in Seq(Bytes) /\ n \in 0..Len(b) /\ c = SubSeq(b, 1, n) /\ b = CallersBody
    BY <2>1
  <2> HIDE DEF b, c
  <2>3. c \in Seq(Bytes) /\ Len(c) = n
    BY <2>2, Refill, Empty
  <2>4. sent \o c = c
    BY <1>1, <2>3, ConcatEmptySeq
  <2>5. Len(c) = Len(b) => c = b
    BY <2>2, <2>3, SubSeqFull
  <2>6. Honest(c)
    BY <1>3, <2>2, <2>5 DEF Honest, b
  <2>7. QED
    BY <2>4, <2>6 DEF c
<1>4. CASE Upload.kind = "none"
  <2>1. NextWrite = <<>>
    BY <1>4 DEF NextWrite
  <2>2. n = 0 /\ Len(<<>>) = 0 /\ <<>> \in Seq(Bytes)
    BY <2>1, Empty
  <2>3. SubSeq(<<>>, 1, 0) = <<>>
    <3> DEFINE e == <<>>
    <3>1. e \in Seq(Bytes) /\ 0 = Len(e)
      BY <2>2
    <3> HIDE DEF e
    <3>2. SubSeq(e, 1, 0) = e
      BY <3>1, SubSeqFull
    <3>3. QED
      BY <3>2 DEF e
  <2>4. c = <<>>
    BY <2>1, <2>2, <2>3
  <2> HIDE DEF c
  <2>5. sent \o c = <<>>
    BY <1>1, <2>2, <2>4, ConcatEmptySeq
  <2>6. Honest(<<>>)
    BY <1>4 DEF Honest
  <2>7. QED
    BY <2>5, <2>6 DEF c
<1>5. QED
  BY <1>1, <1>2, <1>3, <1>4

\* Wherever the upload stops, the peer is not misled.
LEMMA UploadStops ==
  ASSUME Typed, Written, pc = "upload", NEW n \in 0..Len(NextWrite)
  PROVE  Honest(sent \o SubSeq(NextWrite, 1, n))
<1>1. CASE Upload.kind = "stream"
  <2>1. Sending
    BY <1>1 DEF Written, Uploading
  <2>2. QED
    BY <1>1, <2>1, StreamStops
<1>2. CASE Upload.kind # "stream"
  BY <1>2, BytesStops
<1>3. QED
  BY <1>1, <1>2

\* The whole of the next write.
LEMMA UploadWrites ==
  ASSUME Typed, Written, pc = "upload"
  PROVE  Honest(sent \o NextWrite)
<1> DEFINE w == NextWrite
<1>1. w \in Seq(Bytes) /\ Len(w) \in Nat
  BY NextTyped, LenProperties
<1>2. Len(w) \in 0..Len(w)
  BY <1>1
<1>3. Honest(sent \o SubSeq(w, 1, Len(w)))
  BY <1>2, UploadStops
<1> HIDE DEF w
<1>4. SubSeq(w, 1, Len(w)) = w
  BY <1>1, SubSeqFull
<1>5. Honest(sent \o w)
  BY <1>3, <1>4
<1>6. QED
  BY <1>5 DEF w

LEMMA SendItemWritten ==
  ASSUME Typed, Written, SendItem PROVE Written'
<1>1. /\ call' = call /\ request' = request /\ pc = "upload" /\ Upload.kind = "stream"
      /\ upload # <<>> /\ upload' = Tail(upload) /\ sent' = sent \o NextWrite
      /\ pc' = IF upload[1].ok THEN "upload" ELSE "failed"
  BY DEF SendItem, Goto
<1>2. Honest(sent')
  BY <1>1, UploadWrites
<1>3. CASE ~upload[1].ok
  BY <1>1, <1>2, <1>3, WrittenSent
<1>4. CASE upload[1].ok
  <2> DEFINE k == Len(Upload.items) - Len(upload)
  <2>1. Sending
    BY <1>1 DEF Written, Uploading
  <2>2. SendingAt(k)
    BY <1>1, <2>1, SendingIs
  <2>2a. StreamUpload /\ call \in Calls /\ upload \in Seq(Items)
    BY <1>1, StreamIs DEF Typed
  <2>2b. Len(Upload.items) = Len(Datas)
    BY <2>2a DEF StreamUpload
  <2> HIDE DEF k
  <2>3. /\ k + 1 \in 1..Len(Datas) /\ upload[1] = Upload.items[k + 1]
        /\ NextWrite = Framed(Datas[k + 1])
    BY <1>1, <1>4, <2>2, NextChunk
  <2>4. /\ k \in Nat /\ k + Len(upload) = Len(Datas) /\ Len(upload) \in Nat /\ Chunks(Datas)
        /\ \A j \in 1..Len(upload) : upload[j] = Upload.items[k + j]
        /\ \A i \in 1..k : Upload.items[i].ok
        /\ sent = WireOf(Datas, k)
    BY <2>2 DEF SendingAt
  <2>5. k < Len(Datas) /\ Len(Datas) \in Nat
    BY <2>3, <2>4
  <2>6. WireOf(Datas, k + 1) = WireOf(Datas, k) \o Framed(Datas[k + 1])
    BY <2>4, <2>5, OneMoreIs DEF OneMore
  <2>7. sent' = WireOf(Datas, k + 1)
    BY <1>1, <2>3, <2>4, <2>6
  <2>8. /\ Len(upload') = Len(upload) - 1
        /\ \A i \in 1..Len(upload') : upload'[i] = upload[i + 1]
    BY <1>1, <2>2a, TailIs
  <2>9. Len(Upload.items) - Len(upload') = k + 1 /\ k + 1 \in 0..Len(Upload.items)
    <3> DEFINE a == Len(Upload.items)
               b == Len(upload')
               m == Len(upload)
    <3>1. a = k + m /\ k \in Nat /\ m \in Nat /\ b = m - 1 /\ k < a
      BY <2>2b, <2>4, <2>5, <2>8
    <3> HIDE DEF a, b, m
    <3>2. a - b = k + 1 /\ k + 1 \in 0..a
      BY <3>1
    <3>3. QED
      BY <3>2 DEF a, b
  <2>10. ASSUME NEW j \in 1..Len(upload') PROVE upload'[j] = Upload.items[(k + 1) + j]
    <3>1. j + 1 \in 1..Len(upload) /\ k + (j + 1) = (k + 1) + j
      BY <2>4, <2>8
    <3>2. upload'[j] = upload[j + 1]
      BY <2>8
    <3>3. upload[j + 1] = Upload.items[k + (j + 1)]
      BY <2>4, <3>1
    <3>4. QED
      BY <3>1, <3>2, <3>3
  <2>11. ASSUME NEW i \in 1..(k + 1) PROVE Upload.items[i].ok
    <3>1. CASE i = k + 1
      BY <1>4, <2>3, <3>1
    <3>2. CASE i # k + 1
      <4>1. i \in 1..k
        BY <2>4, <3>2
      <4>2. QED
        BY <2>4, <4>1
    <3>3. QED
      BY <3>1, <3>2
  <2>12. /\ Upload' = Upload /\ Datas' = Datas /\ CallersBody' = CallersBody /\ SourceFails' = SourceFails
    BY <1>1, KeepsCall
  <2>13. Sending'
    <3> DEFINE n == Len(Upload.items) - Len(upload')
    <3>1. n = k + 1 /\ n \in 0..Len(Upload.items)
      BY <2>9
    <3> HIDE DEF n
    <3>2. /\ \A j \in 1..Len(upload') : upload'[j] = Upload.items[n + j]
          /\ \A i \in 1..n : Upload.items[i].ok
          /\ sent' = WireOf(Datas, n)
      BY <2>7, <2>10, <2>11, <3>1
    <3>3. QED
      BY <2>12, <3>1, <3>2 DEF Sending, n
  <2>14. Requested'
    BY <1>1, <1>4, <2>12 DEF Written, Requested
  <2>15. Uploading'
    BY <1>1, <1>4, <2>12, <2>13 DEF Uploading, Begun
  <2>16. Honest(sent)'
    BY <1>2, <2>12 DEF Honest
  <2>17. QED
    BY <2>14, <2>15, <2>16 DEF Written
<1>5. QED
  BY <1>3, <1>4

LEMMA SendRestWritten ==
  ASSUME Typed, Written, SendBytes \/ SendLast PROVE Written'
<1>1. /\ call' = call /\ request' = request /\ pc = "upload"
      /\ sent' = sent \o NextWrite /\ pc' = "flush"
  BY DEF SendBytes, SendLast, Goto
<1>2. Honest(sent')
  BY <1>1, UploadWrites
<1>3. QED
  BY <1>1, <1>2, WrittenSent

LEMMA WriteFailsWritten ==
  ASSUME Typed, Written, WriteFails PROVE Written'
<1>1. PICK n \in 0..Len(NextWrite) : sent' = sent \o SubSeq(NextWrite, 1, n)
  BY DEF WriteFails
<1>2. /\ call' = call /\ request' = request /\ pc \in {"head", "upload", "flush"} /\ pc' = "failed"
  BY DEF WriteFails, Goto
<1>3. CASE pc = "upload"
  <2>1. Honest(sent')
    BY <1>1, <1>3, UploadStops
  <2>2. QED
    BY <1>2, <1>3, <2>1, WrittenSent
<1>4. CASE pc # "upload"
  <2>1. NextWrite = <<>>
    BY <1>4 DEF NextWrite
  <2>2. n = 0 /\ sent \in Seq(Bytes)
    BY <2>1, Empty DEF Typed, TypeOK
  <2>3. SubSeq(<<>>, 1, 0) = <<>>
    <3> DEFINE e == <<>>
    <3>1. e \in Seq(Bytes) /\ 0 = Len(e)
      BY Empty
    <3> HIDE DEF e
    <3>2. SubSeq(e, 1, 0) = e
      BY <3>1, SubSeqFull
    <3>3. QED
      BY <3>2 DEF e
  <2>4. sent' = sent
    BY <1>1, <2>1, <2>2, <2>3, ConcatEmptySeq
  <2>5. Honest(sent')
    BY <2>4 DEF Written
  <2>6. QED
    BY <1>2, <1>4, <2>4, <2>5, WrittenSent
<1>5. QED
  BY <1>3, <1>4

\* The steps that leave the request alone.
LEMMA RestWritten ==
  ASSUME Written, Abort \/ ConnectFails \/ HandshakeFails \/ Flush \/ Response \/ UNCHANGED vars
  PROVE  Written'
<1>1. /\ call' = call /\ UNCHANGED requestVars
      /\ pc' \in {pc, "failed"} \/ (pc \in Later /\ pc' \in Later)
  <2>1. CASE Abort \/ ConnectFails \/ HandshakeFails \/ Flush \/ UNCHANGED vars
    BY <2>1 DEF Abort, ConnectFails, HandshakeFails, Flush, vars, Goto, Later
  <2>2. CASE ReadHead \/ HeadFails \/ Answer \/ Pull
    BY <2>2 DEF ReadHead, HeadFails, Answer, Pull, BodyStep, Goto, Later
  <2>3. CASE ParseHead
    BY <2>3 DEF ParseHead, Later
  <2> USE DEF BodyStep, Ends, Fails, Yield, Later
  <2>4. CASE NoBody \/ PlainDone \/ PlainBuffered \/ PlainRead \/ PlainEnds
    BY <2>4 DEF NoBody, PlainDone, PlainBuffered, PlainRead, PlainEnds, Plain
  <2>5. CASE ChunkBuffered \/ ChunkRead \/ Fill \/ ChunkEnds
    BY <2>5 DEF ChunkBuffered, ChunkRead, Fill, ChunkEnds, InData, NeedsMore, AtCrlf, AtSize, Chunked
  <2>6. CASE TakeCrlf \/ TakeSize
    BY <2>6 DEF TakeCrlf, TakeSize, AtCrlf, AtSize, Chunked
  <2>7. QED
    BY <2>1, <2>2, <2>3, <2>4, <2>5, <2>6 DEF Response
<1>2. QED
  BY <1>1, WrittenKept

LEMMA WrittenStep ==
  ASSUME Typed, Written, [Next]_vars
  PROVE  Written'
<1>1. CASE Start \/ Connected \/ Handshake \/ SendHead
  BY <1>1, StartWritten, ConnectedWritten, HandshakeWritten, SendHeadWritten
<1>2. CASE SendBytes \/ SendItem \/ SendLast \/ WriteFails
  BY <1>2, SendItemWritten, SendRestWritten, WriteFailsWritten
<1>3. CASE Abort \/ ConnectFails \/ HandshakeFails \/ Flush \/ Response \/ UNCHANGED vars
  BY <1>3, RestWritten
<1>4. QED
  BY <1>1, <1>2, <1>3 DEF Next, Request

LEMMA InitWritten == Init => Written
<1> SUFFICES ASSUME Init PROVE Written
  OBVIOUS
<1>1. call \in Calls /\ pc = "start" /\ request = {} /\ sent = <<>> /\ upload = Upload.items
  BY DEF Init
<1>2. Requested /\ Uploading
  BY <1>1 DEF Requested, Uploading, Begun
<1>3. Upload.kind = "stream" => ChunkedBody(<<>>).whole = FALSE
  BY CarriesNone, NotWhole
<1>4. Upload.kind = "bytes" /\ Len(<<>>) = Len(Upload.bytes) => <<>> = CallersBody
  BY <1>1, KindsAre, EmptySeq, Empty
<1>5. Honest(sent)
  BY <1>1, <1>3, <1>4 DEF Honest
<1>6. QED
  BY <1>2, <1>5 DEF Written

LEMMA WrittenAlways == Spec => [](Typed /\ Answering /\ Written)
<1>1. Init => Typed /\ Written
  BY InitTyped, InitWritten
<1>2. Typed /\ Written /\ [Next]_vars => (Typed /\ Written)'
  BY TypedStep, WrittenStep
<1>3. QED
  BY <1>1, <1>2, AnswersAlways, PTL DEF Spec

\* An abort before the request ends the fetch where it was.
Heeded ==
  /\ abortedAt = "start" => pc \in {"start", "failed"}
  /\ abortedAt = "connecting" => pc \in {"connecting", "failed"}
  /\ abortedAt \in {"start", "connecting"} => request = {}

\* Past the request, the history of the abort stays, and so does the request.
LEMMA LaterHeeded ==
  ASSUME Heeded, pc \notin {"start", "connecting", "failed"},
         abortedAt' \in {abortedAt, pc}
  PROVE  Heeded'
BY DEF Heeded

LEMMA HeededStep ==
  ASSUME Typed, Written, Heeded, [Next]_vars
  PROVE  Heeded'
<1>1. pc \in {"start", "connecting"} => request = {}
  BY DEF Written, Requested
<1>2. CASE UNCHANGED vars
  BY <1>2 DEF Heeded, vars, requestVars
<1>3. CASE Abort
  BY <1>1, <1>3 DEF Heeded, Abort, requestVars, Settled
<1>4. CASE Start
  BY <1>1, <1>4 DEF Heeded, Start, Goto, requestVars
<1>5. CASE Connected
  BY <1>1, <1>5 DEF Heeded, Connected, Goto, requestVars
<1>6. CASE ConnectFails
  BY <1>6 DEF Heeded, ConnectFails, Goto, requestVars
<1>7. CASE HandshakeFails \/ WriteFails \/ Handshake \/ SendHead
  BY <1>7, LaterHeeded DEF HandshakeFails, WriteFails, Handshake, SendHead, Goto
<1>8. CASE SendBytes \/ SendItem \/ SendLast \/ Flush
  BY <1>8, LaterHeeded DEF SendBytes, SendItem, SendLast, Flush, Goto
<1>9. CASE Response
  <2>1. abortedAt' = abortedAt /\ pc \in {"headers", "answer", "response", "chunk"}
    <3>1. CASE ReadHead \/ HeadFails \/ Answer \/ Pull \/ ParseHead
      BY <3>1 DEF ReadHead, HeadFails, Answer, Pull, ParseHead, BodyStep, Goto
    <3> USE DEF BodyStep, Ends, Fails
    <3>2. CASE NoBody \/ PlainDone \/ PlainBuffered \/ PlainRead \/ PlainEnds
      BY <3>2 DEF NoBody, PlainDone, PlainBuffered, PlainRead, PlainEnds, Plain
    <3>3. CASE ChunkBuffered \/ ChunkRead \/ Fill \/ ChunkEnds
      BY <3>3 DEF ChunkBuffered, ChunkRead, Fill, ChunkEnds, InData, NeedsMore, AtCrlf, AtSize, Chunked
    <3>4. CASE TakeCrlf \/ TakeSize
      BY <3>4 DEF TakeCrlf, TakeSize, AtCrlf, AtSize, Chunked
    <3>5. QED
      BY <1>9, <3>1, <3>2, <3>3, <3>4 DEF Response
  <2>2. QED
    BY <2>1, LaterHeeded
<1>10. QED
  BY <1>2, <1>3, <1>4, <1>5, <1>6, <1>7, <1>8, <1>9 DEF Next, Request

\* After the abort at most the chunk that was being read comes through; a
\* fetch aborted before it connects never does, one aborted before its
\* request is built never sends anything.
THEOREM AbortIsHeeded == Spec => []AbortStops
<1>1. Init => Heeded
  BY DEF Init, Heeded
<1>2. Typed /\ Written /\ Heeded /\ [Next]_vars => Heeded'
  BY HeededStep
<1>3. Typed /\ Answering /\ Written /\ Heeded => AbortStops
  <2> SUFFICES ASSUME Typed, Answering, Written, Heeded PROVE AbortStops
    OBVIOUS
  <2>1. late <= 1
    BY DEF Answering, LateOnce
  <2>2. request = {} => sent = <<>>
    BY DEF Written, Requested
  <2>3. QED
    BY <2>1, <2>2 DEF AbortStops, Heeded
<1>4. QED
  BY <1>1, <1>2, <1>3, WrittenAlways, PTL DEF Spec

\* Wherever a write or the caller's stream fails, what the peer takes for a
\* complete request body is the caller's whole one.
THEOREM UploadIsHonest == Spec => []UploadHonest
<1>1. Typed /\ Answering /\ Written => UploadHonest
  BY WrittenHonest
<1>2. QED
  BY <1>1, WrittenAlways, PTL

=============================================================================
