--------------------------- MODULE TorClientProofs ---------------------------
(***************************************************************************)
(* The TorClient, and the socket provider it owns.                         *)
(*                                                                         *)
(* SocketProvider, for any number of gateways and callers: the list of     *)
(* candidates is the order SelectionSound describes, the loads are exact,  *)
(* and an operation fails only after every gateway.  Its first part is     *)
(* about sorting.  That a sorted sequence exists is shown by a smallest    *)
(* counterexample: a smallest set of gateways that cannot be sorted is not *)
(* empty, so it has a first element, and the rest of it, being smaller,    *)
(* can be sorted.                                                          *)
(*                                                                         *)
(* ClientLifecycle, for any number of clients, callers and levels: each    *)
(* listener gets its events, close() lets go for good of what it finds,    *)
(* and nobody waits for a promise that was cleared.                        *)
(***************************************************************************)
EXTENDS SocketProvider, ClientLifecycle,
        FiniteSetTheorems, SequenceTheorems, WellFoundedInduction, TLAPS

-----------------------------------------------------------------------------
(* Least numbers and smallest sets                                        *)

LEMMA LeastNat ==
  ASSUME NEW T, T \subseteq Nat, T # {}
  PROVE  \E x \in T : \A y \in T : x <= y
<1>1. IsWellFoundedOn(OpToRel(<, Nat), Nat)
  BY NatLessThanWellFounded
<1>2. PICK x \in T : \A y \in T : ~(<<y, x>> \in OpToRel(<, Nat))
  BY <1>1, WFMin
<1>3. \A y \in T : ~(y < x)
  BY <1>2 DEF OpToRel
<1>4. \A y \in T : x <= y
  <2>1. \A a, b \in Nat : ~(b < a) => a <= b
    OBVIOUS
  <2>2. QED
    BY <1>3, <2>1
<1>5. QED
  BY <1>4

LEMMA Smallest ==
  ASSUME NEW S, IsFiniteSet(S), NEW T, T \subseteq SUBSET S, T # {}
  PROVE  \E x \in T : \A y \in T : y \subseteq x => y = x
<1>1. SUBSET S = FiniteSubsetsOf(S)
  BY FS_FiniteSubsetsOfFinite
<1>2. IsWellFoundedOn(StrictSubsetOrdering(S), SUBSET S)
  BY <1>1, FS_StrictSubsetOrderingWellFounded
<1>3. PICK x \in T : \A y \in T : ~(<<y, x>> \in StrictSubsetOrdering(S))
  BY <1>2, WFMin
<1>4. QED
  BY <1>3 DEF StrictSubsetOrdering

LEMMA Positions ==
  /\ \A g \in Gateways : Position(g) \in Nat /\ Order[Position(g)] = g
  /\ \A g, h \in Gateways : Position(g) = Position(h) => g = h
<1>1. ASSUME NEW g \in Gateways
      PROVE  Position(g) \in DOMAIN Order /\ Order[Position(g)] = g
  <2>1. \E i \in DOMAIN Order : Order[i] = g
    BY ProviderAssumption DEF ToSet
  <2>2. QED
    BY <2>1 DEF Position
<1>2. DOMAIN Order \subseteq Nat
  BY ProviderAssumption, FS_CardinalityType
<1>3. QED
  BY <1>1, <1>2

LEMMA FirstExists ==
  ASSUME NEW S \in SUBSET Gateways, S # {}, NEW key \in [Gateways -> Nat]
  PROVE  \E m \in S : \A h \in S \ {m} : Precedes(m, h, key)
<1>1. PICK k \in {key[g] : g \in S} : \A y \in {key[g] : g \in S} : k <= y
  <2>1. {key[g] : g \in S} \subseteq Nat /\ {key[g] : g \in S} # {}
    OBVIOUS
  <2>2. QED
    BY <2>1, LeastNat
<1> DEFINE P == {Position(g) : g \in {h \in S : key[h] = k}}
<1>2. PICK p \in P : \A y \in P : p <= y
  <2>1. P \subseteq Nat
    BY Positions
  <2>2. P # {}
    BY <1>1
  <2>3. QED
    BY <2>1, <2>2, LeastNat
<1>3. PICK m \in S : key[m] = k /\ Position(m) = p
  BY <1>2
<1>4. ASSUME NEW h \in S \ {m} PROVE Precedes(m, h, key)
  <2>1. key[m] \in Nat /\ key[h] \in Nat /\ key[m] <= key[h]
    BY <1>1, <1>3
  <2>2. CASE key[h] = k
    <3>1. Position(h) \in Nat /\ Position(m) \in Nat /\ Position(m) # Position(h)
      BY Positions
    <3>2. Position(m) <= Position(h)
      BY <1>2, <1>3, <2>2
    <3>3. QED
      BY <3>1, <3>2, <1>3, <2>2 DEF Precedes
  <2>3. CASE key[h] # k
    BY <2>1, <2>3, <1>3 DEF Precedes
  <2>4. QED
    BY <2>2, <2>3
<1>5. QED
  BY <1>4

InOrder(s, S, key) ==
  \A i, j \in 1..Cardinality(S) : i < j => Precedes(s[i], s[j], key)

LEMMA SortExists ==
  ASSUME NEW S \in SUBSET Gateways, NEW key \in [Gateways -> Nat]
  PROVE  \E s \in [1..Cardinality(S) -> S] : InOrder(s, S, key)
<1> DEFINE Sortable(T) == \E s \in [1..Cardinality(T) -> T] : InOrder(s, T, key)
           Bad == {T \in SUBSET Gateways : ~Sortable(T)}
<1>1. SUFFICES ASSUME Bad # {} PROVE FALSE
  OBVIOUS
<1>2. PICK T \in Bad : \A U \in Bad : U \subseteq T => U = T
  <2>1. Bad \subseteq SUBSET Gateways
    OBVIOUS
  <2>2. IsFiniteSet(Gateways)
    BY ProviderAssumption
  <2> HIDE DEF Bad
  <2>3. QED
    BY <1>1, <2>1, <2>2, Smallest
<1>3. CASE T = {}
  <2>1. 1..Cardinality({}) = {}
    BY FS_EmptySet
  <2>2. Sortable({})
    <3>1. [i \in 1..Cardinality({}) |-> i] \in [1..Cardinality({}) -> {}]
      BY <2>1
    <3>2. QED
      BY <2>1, <3>1 DEF InOrder
  <2>3. QED
    BY <1>3, <2>2
<1>4. CASE T # {}
  <2>1. PICK m \in T : \A h \in T \ {m} : Precedes(m, h, key)
    BY <1>4, FirstExists
  <2> DEFINE U == T \ {m}
             n == Cardinality(U)
  <2>2. n \in Nat /\ Cardinality(T) = n + 1
    BY ProviderAssumption, FS_Subset, FS_CardinalityType, FS_RemoveElement
  <2>3. U \in SUBSET Gateways /\ U \subseteq T /\ U # T
    OBVIOUS
  <2>4. Sortable(U)
    BY <1>2, <2>3
  <2>5. PICK s \in [1..n -> U] : InOrder(s, U, key)
    BY <2>4
  <2> DEFINE t == [i \in 1..(n + 1) |-> IF i = 1 THEN m ELSE s[i - 1]]
  <2> HIDE DEF n, U
  <2>6. \A i \in 1..(n + 1) : i # 1 => i - 1 \in 1..n
    BY <2>2
  <2>7. t \in [1..(n + 1) -> T]
    BY <2>6, <2>5 DEF U
  <2>8. ASSUME NEW i \in 1..(n + 1), NEW j \in 1..(n + 1), i < j
        PROVE  Precedes(t[i], t[j], key)
    <3>1. j # 1 /\ j - 1 \in 1..n /\ t[j] = s[j - 1]
      BY <2>2, <2>8
    <3>2. s[j - 1] \in T \ {m}
      BY <2>5, <3>1 DEF U
    <3>3. CASE i = 1
      BY <2>1, <2>2, <3>1, <3>2, <3>3
    <3>4. CASE i # 1
      <4>1. i - 1 \in 1..n /\ t[i] = s[i - 1] /\ i - 1 < j - 1
        BY <2>2, <2>8, <3>4
      <4>2. QED
        BY <2>5, <3>1, <4>1 DEF InOrder, n
    <3>5. QED
      BY <3>3, <3>4
  <2>9. Sortable(T)
    BY <2>2, <2>7, <2>8 DEF InOrder
  <2>10. QED
    BY <2>9
<1>5. QED
  BY <1>3, <1>4

LEMMA Sorted ==
  ASSUME NEW S \in SUBSET Gateways, NEW key \in [Gateways -> Nat]
  PROVE  LET s == StableSort(S, key)
             n == Cardinality(S)
         IN  /\ n \in Nat /\ s \in [1..n -> S]
             /\ \A i, j \in 1..n : i < j => Precedes(s[i], s[j], key)
             /\ \A i, j \in 1..n : s[i] = s[j] => i = j
             /\ \A g \in S : \E i \in 1..n : s[i] = g
<1> DEFINE s == StableSort(S, key)
           n == Cardinality(S)
<1>1. n \in Nat /\ IsFiniteSet(S)
  BY ProviderAssumption, FS_Subset, FS_CardinalityType
<1>2. s \in [1..n -> S] /\ \A i, j \in 1..n : i < j => Precedes(s[i], s[j], key)
  <2>1. \E q \in [1..n -> S] : \A i, j \in 1..n : i < j => Precedes(q[i], q[j], key)
    BY SortExists DEF InOrder
  <2>2. QED
    BY <2>1 DEF StableSort
<1> HIDE DEF s, n
<1>3. ASSUME NEW i \in 1..n, NEW j \in 1..n, s[i] = s[j] PROVE i = j
  <2>1. \A g \in Gateways : ~Precedes(g, g, key)
    BY Positions DEF Precedes
  <2>2. s[i] \in Gateways /\ s[j] \in Gateways
    BY <1>2
  <2>3. ~(i < j) /\ ~(j < i)
    BY <1>2, <1>3, <2>1, <2>2
  <2>4. QED
    BY <1>1, <2>3
<1>4. ASSUME NEW g \in S PROVE \E i \in 1..n : s[i] = g
  <2>1. s \in Injection(1..n, S)
    BY <1>2, <1>3 DEF Injection, IsInjective
  <2>2. Cardinality(1..n) = n /\ IsFiniteSet(1..n)
    BY <1>1, FS_Interval
  <2>3. s \in Surjection(1..n, S)
    BY <1>1, <2>1, <2>2, FS_Injection DEF n
  <2>4. QED
    BY <2>3 DEF Surjection
<1>5. QED
  BY <1>1, <1>2, <1>3, <1>4 DEF s, n

-----------------------------------------------------------------------------
\* The parts of the list of candidates.

LoadsOK == inFlight \in [Gateways -> Nat] /\ cool \in [Gateways -> Nat]

ReadySet == {g \in Gateways : Ready(g)}
ReadySeq == Filtered(ReadySet)
ReadyCount == Cardinality(ReadySet)
FrontCount == IF ReadyCount < Preferred THEN ReadyCount ELSE Preferred
FrontSet == {ReadySeq[i] : i \in 1..FrontCount}
FrontSeq == StableSort(FrontSet, inFlight)
CoolSeq == StableSort(Gateways \ ReadySet, cool)

LEMMA ReadyShape ==
  /\ ReadyCount \in Nat /\ ReadySeq \in [1..ReadyCount -> ReadySet]
  /\ \A i, j \in 1..ReadyCount :
       i < j => Position(ReadySeq[i]) < Position(ReadySeq[j])
  /\ \A i, j \in 1..ReadyCount : ReadySeq[i] = ReadySeq[j] => i = j
  /\ \A g \in ReadySet : \E i \in 1..ReadyCount : ReadySeq[i] = g
<1> DEFINE zero == [g \in Gateways |-> 0]
<1>1. zero \in [Gateways -> Nat] /\ ReadySet \in SUBSET Gateways
  BY DEF ReadySet
<1>2. ReadySeq = StableSort(ReadySet, zero)
  BY DEF ReadySeq, Filtered
<1>3. /\ ReadyCount \in Nat /\ ReadySeq \in [1..ReadyCount -> ReadySet]
      /\ \A i, j \in 1..ReadyCount : i < j => Precedes(ReadySeq[i], ReadySeq[j], zero)
      /\ \A i, j \in 1..ReadyCount : ReadySeq[i] = ReadySeq[j] => i = j
      /\ \A g \in ReadySet : \E i \in 1..ReadyCount : ReadySeq[i] = g
  <2> DEFINE n == Cardinality(ReadySet)
             s == StableSort(ReadySet, zero)
  <2>1. /\ n \in Nat /\ s \in [1..n -> ReadySet]
        /\ \A i, j \in 1..n : i < j => Precedes(s[i], s[j], zero)
        /\ \A i, j \in 1..n : s[i] = s[j] => i = j
        /\ \A g \in ReadySet : \E i \in 1..n : s[i] = g
    <3> HIDE DEF zero
    <3> QED
      BY <1>1, Sorted
  <2> HIDE DEF s, zero
  <2>2. s = ReadySeq /\ n = ReadyCount
    BY <1>2 DEF s, ReadyCount
  <2>3. QED
    BY <2>1, <2>2
<1>4. \A g, h \in Gateways : Precedes(g, h, zero) => Position(g) < Position(h)
  BY DEF Precedes
<1>5. \A i \in 1..ReadyCount : ReadySeq[i] \in Gateways
  BY <1>1, <1>3
<1> HIDE DEF zero
<1>6. QED
  BY <1>3, <1>4, <1>5

LEMMA FrontShape ==
  ASSUME LoadsOK
  PROVE  /\ FrontCount \in 0..ReadyCount /\ FrontCount <= Preferred
         /\ ReadyCount > FrontCount => FrontCount = Preferred
         /\ FrontSet \subseteq ReadySet
         /\ FrontSeq \in [1..FrontCount -> FrontSet]
         /\ \A i, j \in 1..FrontCount :
              i < j => inFlight[FrontSeq[i]] <= inFlight[FrontSeq[j]]
         /\ \A i, j \in 1..FrontCount : FrontSeq[i] = FrontSeq[j] => i = j
         /\ \A g \in FrontSet : \E i \in 1..FrontCount : FrontSeq[i] = g
<1>1. /\ FrontCount \in 0..ReadyCount /\ FrontCount <= Preferred
      /\ ReadyCount > FrontCount => FrontCount = Preferred
  BY ReadyShape DEF FrontCount, Preferred
<1>2. \A i \in 1..FrontCount : i \in 1..ReadyCount
  BY <1>1, ReadyShape
<1>3. FrontSet \subseteq ReadySet /\ ReadySet \subseteq Gateways
  BY <1>2, ReadyShape DEF FrontSet, ReadySet
<1>4. Cardinality(FrontSet) = FrontCount
  <2> DEFINE f == [i \in 1..FrontCount |-> ReadySeq[i]]
  <2>1. f \in Bijection(1..FrontCount, FrontSet)
    BY <1>2, ReadyShape
       DEF FrontSet, Bijection, Injection, Surjection, IsInjective
  <2>2. ExistsBijection(1..FrontCount, FrontSet)
    BY <2>1 DEF ExistsBijection
  <2>3. FrontCount \in Nat
    BY <1>1
  <2>4. QED
    BY <2>2, <2>3, FS_CountingElements
<1>5. /\ FrontSeq \in [1..FrontCount -> FrontSet]
      /\ \A i, j \in 1..FrontCount : i < j => Precedes(FrontSeq[i], FrontSeq[j], inFlight)
      /\ \A i, j \in 1..FrontCount : FrontSeq[i] = FrontSeq[j] => i = j
      /\ \A g \in FrontSet : \E i \in 1..FrontCount : FrontSeq[i] = g
  BY <1>3, <1>4, Sorted DEF FrontSeq, LoadsOK
<1>6. \A g, h \in Gateways : Precedes(g, h, inFlight) => inFlight[g] <= inFlight[h]
  BY DEF Precedes, LoadsOK
<1>7. \A i \in 1..FrontCount : FrontSeq[i] \in Gateways
  BY <1>3, <1>5
<1>8. QED
  BY <1>1, <1>3, <1>5, <1>6, <1>7

LEMMA CoolShape ==
  ASSUME LoadsOK
  PROVE  LET n == Cardinality(Gateways) - ReadyCount
         IN  /\ n \in Nat /\ CoolSeq \in [1..n -> Gateways \ ReadySet]
             /\ \A i, j \in 1..n : i < j => cool[CoolSeq[i]] <= cool[CoolSeq[j]]
             /\ \A i, j \in 1..n : CoolSeq[i] = CoolSeq[j] => i = j
             /\ \A g \in Gateways \ ReadySet : \E i \in 1..n : CoolSeq[i] = g
<1> DEFINE n == Cardinality(Gateways) - ReadyCount
           S == Gateways \ ReadySet
<1>1. S \in SUBSET Gateways
  OBVIOUS
<1>2. Cardinality(S) = n
  <2>1. Gateways \cap ReadySet = ReadySet
    BY DEF ReadySet
  <2>2. IsFiniteSet(Gateways)
    BY ProviderAssumption
  <2>3. Cardinality(Gateways \ ReadySet)
          = Cardinality(Gateways) - Cardinality(Gateways \cap ReadySet)
    BY <2>2, FS_Difference
  <2>4. QED
    BY <2>1, <2>3 DEF ReadyCount
<1>3. /\ Cardinality(S) \in Nat /\ CoolSeq \in [1..Cardinality(S) -> S]
      /\ \A i, j \in 1..Cardinality(S) : i < j => Precedes(CoolSeq[i], CoolSeq[j], cool)
      /\ \A i, j \in 1..Cardinality(S) : CoolSeq[i] = CoolSeq[j] => i = j
      /\ \A g \in S : \E i \in 1..Cardinality(S) : CoolSeq[i] = g
  <2> DEFINE s == StableSort(S, cool)
             m == Cardinality(S)
  <2>1. /\ m \in Nat /\ s \in [1..m -> S]
        /\ \A i, j \in 1..m : i < j => Precedes(s[i], s[j], cool)
        /\ \A i, j \in 1..m : s[i] = s[j] => i = j
        /\ \A g \in S : \E i \in 1..m : s[i] = g
    <3> HIDE DEF S
    <3> QED
      BY <1>1, Sorted DEF LoadsOK
  <2> HIDE DEF s
  <2>2. s = CoolSeq
    BY DEF s, CoolSeq
  <2>3. QED
    BY <2>1, <2>2
<1>4. \A g, h \in Gateways : Precedes(g, h, cool) => cool[g] <= cool[h]
  BY DEF Precedes, LoadsOK
<1> HIDE DEF n
<1>5. \A i \in 1..n : CoolSeq[i] \in Gateways
  BY <1>2, <1>3
<1>6. QED
  BY <1>2, <1>3, <1>4, <1>5 DEF n

\* The list, index by index.
LEMMA CandidatesShape ==
  ASSUME LoadsOK
  PROVE  LET C == Candidates
             N == Cardinality(Gateways)
         IN  /\ N \in Nat \ {0} /\ C \in Seq(Gateways) /\ Len(C) = N
             /\ \A i \in 1..FrontCount : C[i] = FrontSeq[i]
             /\ \A i \in (FrontCount + 1)..ReadyCount : C[i] = ReadySeq[i]
             /\ \A i \in (ReadyCount + 1)..N : C[i] = CoolSeq[i - ReadyCount]
<1> DEFINE N == Cardinality(Gateways)
           n == ReadyCount
           k == FrontCount
           rest == SubSeq(ReadySeq, Preferred + 1, n)
<1>1. N \in Nat \ {0} /\ n \in 0..N /\ k \in 0..n /\ (n > k => k = 2) /\ k <= 2
  <2>1. N \in Nat /\ N # 0
    BY ProviderAssumption, FS_CardinalityType, FS_EmptySet
  <2>2. N - n \in Nat /\ n \in Nat
    BY CoolShape, ReadyShape
  <2>3. QED
    BY <2>1, <2>2, FrontShape DEF Preferred
<1>2. ReadySeq \in Seq(Gateways) /\ Len(ReadySeq) = n
  <2>1. ReadySeq \in [1..n -> Gateways]
    BY ReadyShape DEF ReadySet
  <2>2. QED
    BY <1>1, <2>1
<1>3. FrontSeq \in Seq(Gateways) /\ Len(FrontSeq) = k
  <2>1. FrontSeq \in [1..k -> Gateways]
    BY FrontShape DEF ReadySet
  <2>2. QED
    BY <1>1, <2>1
<1>4. CoolSeq \in Seq(Gateways) /\ Len(CoolSeq) = N - n
  <2>1. CoolSeq \in [1..(N - n) -> Gateways] /\ N - n \in Nat
    BY CoolShape
  <2>2. QED
    BY <2>1
<1>5. /\ rest \in Seq(Gateways) /\ Len(rest) = n - k
      /\ \A i \in 1..(n - k) : rest[i] = ReadySeq[i + k]
  <2>1. CASE n > k
    BY <1>1, <1>2, <2>1, SubSeqProperties DEF Preferred
  <2>2. CASE n = k
    BY <1>1, <1>2, <2>2, SubSeqProperties DEF Preferred
  <2>3. QED
    BY <1>1, <2>1, <2>2
<1>6. ToSet(SubSeq(ReadySeq, 1, k)) = FrontSet
  <2> DEFINE h == SubSeq(ReadySeq, 1, k)
  <2>1. DOMAIN h = 1..k /\ \A i \in 1..k : h[i] = ReadySeq[i]
    BY <1>1, <1>2, SubSeqProperties
  <2> HIDE DEF h
  <2>2. QED
    BY <2>1 DEF ToSet, FrontSet, h
<1>7. ToSet(ReadySeq) = ReadySet
  BY ReadyShape DEF ToSet
<1>8. Candidates = FrontSeq \o rest \o CoolSeq
  BY <1>2, <1>6, <1>7
     DEF Candidates, ReadySeq, ReadySet, FrontCount, FrontSeq, CoolSeq
<1> HIDE DEF N, n, k, rest
<1>9. FrontSeq \o rest \in Seq(Gateways) /\ Len(FrontSeq \o rest) = n
      /\ \A i \in 1..n : (FrontSeq \o rest)[i] =
           IF i <= k THEN FrontSeq[i] ELSE rest[i - k]
  BY <1>1, <1>3, <1>5, ConcatProperties
<1>10. Candidates \in Seq(Gateways) /\ Len(Candidates) = N
       /\ \A i \in 1..N : Candidates[i] =
            IF i <= n THEN (FrontSeq \o rest)[i] ELSE CoolSeq[i - n]
  <2> DEFINE front == FrontSeq \o rest
  <2> HIDE DEF front
  <2>1. front \in Seq(Gateways) /\ Len(front) = n /\ Candidates = front \o CoolSeq
    BY <1>8, <1>9 DEF front
  <2>2. /\ Len(Candidates) = n + (N - n) /\ Candidates \in Seq(Gateways)
        /\ \A i \in 1..(n + (N - n)) : Candidates[i] =
             IF i <= n THEN front[i] ELSE CoolSeq[i - n]
    BY <1>4, <2>1, ConcatProperties
  <2>3. n + (N - n) = N
    BY <1>1
  <2>4. QED
    BY <2>2, <2>3 DEF front
<1>11. \A i \in 1..k : Candidates[i] = FrontSeq[i]
  BY <1>1, <1>9, <1>10
<1>12. \A i \in (k + 1)..n : Candidates[i] = ReadySeq[i]
  <2>1. ASSUME NEW i \in (k + 1)..n PROVE Candidates[i] = ReadySeq[i]
    <3>1. i \in 1..N /\ i <= n /\ ~(i <= k) /\ i - k \in 1..(n - k) /\ (i - k) + k = i
          /\ i \in 1..n
      BY <1>1
    <3>2. Candidates[i] = rest[i - k]
      BY <1>9, <1>10, <3>1
    <3>3. rest[i - k] = ReadySeq[(i - k) + k]
      BY <1>5, <3>1
    <3>4. QED
      BY <3>1, <3>2, <3>3
  <2>2. QED
    BY <2>1
<1>13. \A i \in (n + 1)..N : Candidates[i] = CoolSeq[i - n]
  BY <1>1, <1>10
<1>14. QED
  BY <1>1, <1>10, <1>11, <1>12, <1>13 DEF N, n, k

\* Every gateway once.
LEMMA CandidatesPermute ==
  ASSUME LoadsOK
  PROVE  LET C == Candidates
             N == Cardinality(Gateways)
         IN  /\ \A g \in Gateways : \E i \in 1..N : C[i] = g
             /\ \A i, j \in 1..N : C[i] = C[j] => i = j
             /\ \A i \in 1..N : C[i] \in Gateways
             /\ \A i \in 1..N : C[i] \in ReadySet <=> i <= ReadyCount
             /\ \A i \in 1..N : C[i] \in FrontSet <=> i <= FrontCount
<1> DEFINE C == Candidates
           N == Cardinality(Gateways)
           n == ReadyCount
           k == FrontCount
<1>1. /\ N \in Nat /\ n \in 0..N /\ k \in 0..n
  <2>1. N \in Nat /\ N - n \in Nat /\ n \in Nat
    BY CandidatesShape, CoolShape, ReadyShape
  <2>2. QED
    BY <2>1, FrontShape
<1>2. ASSUME NEW i \in 1..k
      PROVE  i \in 1..N /\ i \in 1..n /\ C[i] = FrontSeq[i] /\ C[i] \in FrontSet
  BY <1>1, CandidatesShape, FrontShape
<1>3. ASSUME NEW i \in 1..N, i > k, i <= n
      PROVE  i \in 1..n /\ C[i] = ReadySeq[i] /\ C[i] \in ReadySet /\ C[i] \notin FrontSet
  <2>1. i \in (k + 1)..n /\ i \in 1..n
    BY <1>1, <1>3
  <2>2. C[i] = ReadySeq[i] /\ C[i] \in ReadySet
    BY <2>1, CandidatesShape, ReadyShape
  <2>3. \A j \in 1..k : j \in 1..n /\ j # i
    BY <1>1, <1>3
  <2>4. QED
    BY <2>1, <2>2, <2>3, ReadyShape DEF FrontSet
<1>4. ASSUME NEW i \in 1..N, i > n
      PROVE  i - n \in 1..(N - n) /\ C[i] = CoolSeq[i - n] /\ C[i] \in Gateways \ ReadySet
  <2>1. i - n \in 1..(N - n) /\ i \in (n + 1)..N
    BY <1>1, <1>4
  <2>2. QED
    BY <2>1, CandidatesShape, CoolShape
<1>5. FrontSet \subseteq ReadySet /\ ReadySet \subseteq Gateways
  BY FrontShape DEF ReadySet
<1> HIDE DEF C, N, n, k
<1>6. \A i \in 1..N : (i \in 1..k \/ (i > k /\ i <= n) \/ i > n)
  BY <1>1
<1>7. ASSUME NEW i \in 1..N
      PROVE  /\ C[i] \in Gateways /\ (C[i] \in ReadySet <=> i <= n)
             /\ (C[i] \in FrontSet <=> i <= k)
  <2>1. CASE i \in 1..k
    BY <1>1, <1>2, <1>5, <2>1
  <2>2. CASE i > k /\ i <= n
    BY <1>1, <1>3, <1>5, <2>2
  <2>3. CASE i > n
    BY <1>1, <1>4, <1>5, <2>3
  <2>4. QED
    BY <1>6, <2>1, <2>2, <2>3
<1>8. ASSUME NEW i \in 1..N, NEW j \in 1..N, C[i] = C[j] PROVE i = j
  <2>1. (i <= n <=> j <= n) /\ (i <= k <=> j <= k)
    BY <1>7, <1>8
  <2>2. CASE i \in 1..k
    <3>1. j \in 1..k
      BY <1>1, <2>1, <2>2
    <3>2. QED
      BY <1>2, <1>8, <2>2, <3>1, FrontShape DEF k
  <2>3. CASE i > k /\ i <= n
    <3>1. j > k /\ j <= n
      BY <1>1, <2>1, <2>3
    <3>2. ReadySeq[i] = ReadySeq[j] /\ i \in 1..n /\ j \in 1..n
      BY <1>3, <1>8, <2>3, <3>1
    <3>3. QED
      BY <3>2, ReadyShape DEF n
  <2>4. CASE i > n
    <3>1. j > n
      BY <1>1, <2>1, <2>4
    <3>2. /\ CoolSeq[i - n] = CoolSeq[j - n]
          /\ i - n \in 1..(N - n) /\ j - n \in 1..(N - n)
      BY <1>4, <1>8, <2>4, <3>1
    <3>3. i - n = j - n
      BY <3>2, CoolShape DEF n, N
    <3>4. QED
      BY <1>1, <3>3
  <2>5. QED
    BY <1>6, <2>2, <2>3, <2>4
<1>9. ASSUME NEW g \in Gateways PROVE \E i \in 1..N : C[i] = g
  <2>1. CASE g \in FrontSet
    <3>1. PICK i \in 1..k : FrontSeq[i] = g
      BY <2>1, FrontShape DEF k
    <3>2. QED
      BY <1>2, <3>1
  <2>2. CASE g \in ReadySet \ FrontSet
    <3>1. PICK i \in 1..n : ReadySeq[i] = g
      BY <2>2, ReadyShape DEF n
    <3>2. i > k
      BY <1>1, <2>2, <3>1 DEF FrontSet, k
    <3>3. i \in 1..N /\ i <= n
      BY <1>1
    <3>4. QED
      BY <1>3, <3>1, <3>2, <3>3
  <2>3. CASE g \notin ReadySet
    <3>1. PICK i \in 1..(N - n) : CoolSeq[i] = g
      BY <2>3, CoolShape DEF n, N
    <3>2. i + n \in 1..N /\ i + n > n /\ (i + n) - n = i
      BY <1>1
    <3>3. QED
      BY <1>4, <3>1, <3>2
  <2>4. QED
    BY <2>1, <2>2, <2>3
<1>10. QED
  BY <1>7, <1>8, <1>9 DEF C, N, n, k

\* The preferred ones are the first ready gateways of the shuffle.
LEMMA FrontIsFirst ==
  ASSUME LoadsOK
  PROVE  FrontSet = {g \in ReadySet :
           Cardinality({h \in ReadySet : Position(h) < Position(g)}) < Preferred}
<1> DEFINE n == ReadyCount
<1>1. n \in Nat /\ FrontCount \in 0..n
  BY ReadyShape, FrontShape
<1>2. ASSUME NEW i \in 1..n
      PROVE  Cardinality({h \in ReadySet : Position(h) < Position(ReadySeq[i])}) = i - 1
  <2> DEFINE S == {h \in ReadySet : Position(h) < Position(ReadySeq[i])}
             f == [j \in 1..(i - 1) |-> ReadySeq[j]]
  <2>1. \A j \in 1..n : Position(ReadySeq[j]) \in Nat
    BY ReadyShape, Positions DEF ReadySet
  <2>2. \A j \in 1..n : Position(ReadySeq[j]) < Position(ReadySeq[i]) => j < i
    <3>1. ASSUME NEW j \in 1..n, ~(j < i)
          PROVE  ~(Position(ReadySeq[j]) < Position(ReadySeq[i]))
      <4>1. CASE i < j
        <5>1. Position(ReadySeq[i]) < Position(ReadySeq[j])
          BY <4>1, ReadyShape
        <5>2. QED
          BY <2>1, <5>1
      <4>2. CASE i = j
        BY <2>1, <4>2
      <4>3. QED
        BY <1>1, <3>1, <4>1, <4>2
    <3>2. QED
      BY <3>1
  <2>3. \A j \in 1..(i - 1) : j \in 1..n /\ j < i
    BY <1>1
  <2>4. f \in [1..(i - 1) -> S]
    BY <2>3, ReadyShape
  <2>5. \A a, b \in 1..(i - 1) : f[a] = f[b] => a = b
    BY <2>3, ReadyShape
  <2>6. \A h \in S : \E j \in 1..(i - 1) : f[j] = h
    <3>1. ASSUME NEW h \in S PROVE \E j \in 1..(i - 1) : f[j] = h
      <4>1. PICK j \in 1..n : ReadySeq[j] = h
        BY ReadyShape
      <4>2. j < i
        BY <2>2, <4>1
      <4>3. j \in 1..(i - 1)
        BY <1>1, <4>2
      <4>4. QED
        BY <4>1, <4>3
    <3>2. QED
      BY <3>1
  <2> HIDE DEF f, S
  <2>7. ExistsBijection(1..(i - 1), S)
    BY <2>4, <2>5, <2>6
       DEF ExistsBijection, Bijection, Injection, Surjection, IsInjective
  <2>8. i - 1 \in Nat
    BY <1>1
  <2>9. QED
    BY <2>7, <2>8, FS_CountingElements DEF S
<1>3. \A i \in 1..n : i - 1 < Preferred <=> i <= FrontCount
  BY <1>1 DEF FrontCount, Preferred
<1>4. \A i \in 1..n : ReadySeq[i] \in FrontSet <=> i <= FrontCount
  <2>1. \A i \in 1..FrontCount : i \in 1..n
    BY <1>1
  <2>2. QED
    BY <1>1, <2>1, ReadyShape DEF FrontSet
<1>5. \A g \in ReadySet : \E i \in 1..n : ReadySeq[i] = g
  BY ReadyShape
<1>6. FrontSet \subseteq ReadySet
  BY FrontShape
<1> HIDE DEF n
<1>7. \A g \in ReadySet : g \in FrontSet <=>
        Cardinality({h \in ReadySet : Position(h) < Position(g)}) < Preferred
  <2>1. ASSUME NEW g \in ReadySet
        PROVE g \in FrontSet <=>
                Cardinality({h \in ReadySet : Position(h) < Position(g)}) < Preferred
    <3>1. PICK i \in 1..n : ReadySeq[i] = g
      BY <1>5
    <3>2. Cardinality({h \in ReadySet : Position(h) < Position(g)}) = i - 1
      BY <1>2, <3>1
    <3>3. QED
      BY <1>3, <1>4, <3>1, <3>2
  <2>2. QED
    BY <2>1
<1>8. QED
  BY <1>6, <1>7

LEMMA OrderSound == ASSUME LoadsOK PROVE CandidatesSound
<1> DEFINE C == Candidates
           N == Cardinality(Gateways)
           n == ReadyCount
           k == FrontCount
<1>1. /\ N \in Nat /\ n \in 0..N /\ k \in 0..n
  <2>1. N \in Nat /\ N - n \in Nat /\ n \in Nat
    BY CandidatesShape, CoolShape, ReadyShape
  <2>2. QED
    BY <2>1, FrontShape
<1>2. Len(C) = N /\ ToSet(C) = Gateways
  <2>1. C \in Seq(Gateways) /\ Len(C) = N
    BY CandidatesShape
  <2>2. DOMAIN C = 1..N
    BY <2>1
  <2>3. QED
    BY <2>1, <2>2, CandidatesPermute DEF ToSet
<1>3. ASSUME NEW i \in 1..N, NEW j \in 1..N, i < j
      PROVE  /\ C[j] \in ReadySet => C[i] \in ReadySet
             /\ C[j] \in FrontSet => C[i] \in FrontSet
             /\ {C[i], C[j]} \subseteq FrontSet => inFlight[C[i]] <= inFlight[C[j]]
             /\ {C[i], C[j]} \subseteq ReadySet \ FrontSet =>
                  Position(C[i]) < Position(C[j])
             /\ {C[i], C[j]} \cap ReadySet = {} => cool[C[i]] <= cool[C[j]]
  <2>1. /\ C[i] \in ReadySet <=> i <= n
        /\ C[j] \in ReadySet <=> j <= n
        /\ C[i] \in FrontSet <=> i <= k
        /\ C[j] \in FrontSet <=> j <= k
    BY CandidatesPermute
  <2>2. C[j] \in ReadySet => C[i] \in ReadySet
    BY <1>1, <1>3, <2>1
  <2>3. C[j] \in FrontSet => C[i] \in FrontSet
    BY <1>1, <1>3, <2>1
  <2>4. ASSUME i <= k, j <= k PROVE inFlight[C[i]] <= inFlight[C[j]]
    <3>1. i \in 1..k /\ j \in 1..k
      BY <1>1, <2>4
    <3>2. C[i] = FrontSeq[i] /\ C[j] = FrontSeq[j]
      BY <3>1, CandidatesShape
    <3>3. QED
      BY <1>3, <3>1, <3>2, FrontShape
  <2>5. ASSUME ~(i <= k), ~(j <= k), i <= n, j <= n PROVE Position(C[i]) < Position(C[j])
    <3>1. /\ i \in (k + 1)..n /\ j \in (k + 1)..n /\ i \in 1..n /\ j \in 1..n
      BY <1>1, <2>5
    <3>2. C[i] = ReadySeq[i] /\ C[j] = ReadySeq[j]
      BY <3>1, CandidatesShape
    <3>3. QED
      BY <1>3, <3>1, <3>2, ReadyShape
  <2>6. ASSUME ~(i <= n), ~(j <= n) PROVE cool[C[i]] <= cool[C[j]]
    <3>1. /\ i \in (n + 1)..N /\ j \in (n + 1)..N
          /\ i - n \in 1..(N - n) /\ j - n \in 1..(N - n) /\ i - n < j - n
      BY <1>1, <1>3, <2>6
    <3>2. C[i] = CoolSeq[i - n] /\ C[j] = CoolSeq[j - n]
      BY <3>1, CandidatesShape
    <3>3. QED
      BY <3>1, <3>2, CoolShape
  <2> HIDE DEF C, N, n, k
  <2>7. QED
    BY <2>1, <2>2, <2>3, <2>4, <2>5, <2>6
<1> DEFINE upNow == {g \in Gateways : Ready(g)}
           front == {g \in upNow :
             Cardinality({h \in upNow : Position(h) < Position(g)}) < Preferred}
<1>4. upNow = ReadySet
  BY DEF ReadySet
<1>5. front = FrontSet
  BY FrontIsFirst DEF ReadySet
<1> HIDE DEF C, N, upNow, front
<1>6. \A i, j \in 1..N : i < j =>
        /\ C[j] \in upNow => C[i] \in upNow
        /\ C[j] \in front => C[i] \in front
        /\ {C[i], C[j]} \subseteq front => inFlight[C[i]] <= inFlight[C[j]]
        /\ {C[i], C[j]} \subseteq upNow \ front => Position(C[i]) < Position(C[j])
        /\ {C[i], C[j]} \cap upNow = {} => cool[C[i]] <= cool[C[j]]
  BY <1>3, <1>4, <1>5
<1>7. QED
  BY <1>2, <1>6 DEF CandidatesSound, C, N, upNow, front

-----------------------------------------------------------------------------
\* The state machine.

\* The operations whose tunnel, or attempt at one, is on a gateway.
Carries(o, g) ==
  /\ kind[o] = "connect"
  /\ \/ stage[o] = "trying" /\ Head(plan[o]) = g
     \/ stage[o] = "tunnel" /\ at[o] = g

Carriers(g) == {o \in Ops : Carries(o, g)}

\* A list of candidates that is being walked holds no gateway twice.
NoneTwice ==
  \A o \in Ops : \A i, j \in 1..Len(plan[o]) : plan[o][i] = plan[o][j] => i = j

IInv == TypeOK /\ InFlightExact /\ NoneTwice /\ FailsOnlyAfterAll

\* What an operation's own walk satisfies.
WalkOK(o) ==
  /\ \A i, j \in 1..Len(plan[o]) : plan[o][i] = plan[o][j] => i = j
  /\ stage[o] = "trying" =>
       /\ tried[o] = (Gateways \ ToSet(plan[o])) \cup {Head(plan[o])}
       /\ Len(plan[o]) + Cardinality(tried[o]) = Cardinality(Gateways) + 1

LEMMA Powers == \A k \in Nat : 2 ^ k \in Nat
<1>1. ASSUME NEW k \in Nat PROVE 2 ^ k \in Nat
  <2>1. IsFiniteSet(1..k) /\ Cardinality(1..k) = k
    BY FS_Interval
  <2>2. IsFiniteSet(SUBSET (1..k)) /\ Cardinality(SUBSET (1..k)) = 2 ^ k
    BY <2>1, FS_SUBSET
  <2>3. QED
    BY <2>2, FS_CardinalityType
<1>2. QED
  BY <1>1

LEMMA LoadsTyped == TypeOK => LoadsOK
<1>1. Cardinality(Ops) \in Nat /\ CooldownMax \in Nat
  BY ProviderAssumption, FS_CardinalityType
<1>2. QED
  BY <1>1 DEF TypeOK, LoadsOK

LEMMA ExactIsCarriers == InFlightExact <=> \A g \in Gateways : inFlight[g] = Cardinality(Carriers(g))
BY DEF InFlightExact, Carriers, Carries

LEMMA ExactIsCarriersNext ==
  InFlightExact' <=> \A g \in Gateways : inFlight'[g] = Cardinality(Carriers(g)')
BY DEF InFlightExact, Carriers, Carries

\* One operation that starts or stops to burden a gateway changes the load of
\* that gateway by one.
LEMMA OneMoves ==
  ASSUME NEW o \in Ops, NEW g \in Gateways,
         inFlight[g] = Cardinality(Carriers(g)),
         \A x \in Ops \ {o} : Carries(x, g)' <=> Carries(x, g),
         inFlight'[g] = inFlight[g] + (IF Carries(o, g)' THEN 1 ELSE 0)
                                    - (IF Carries(o, g) THEN 1 ELSE 0)
  PROVE  /\ inFlight'[g] = Cardinality(Carriers(g)')
         /\ inFlight'[g] \in 0..Cardinality(Ops)
<1>1. Carriers(g) \in SUBSET Ops /\ Carriers(g)' \in SUBSET Ops
  BY DEF Carriers
<1>2. /\ IsFiniteSet(Carriers(g)) /\ Cardinality(Carriers(g)) \in Nat
      /\ IsFiniteSet(Carriers(g)') /\ Cardinality(Carriers(g)') \in Nat
      /\ Cardinality(Carriers(g)') <= Cardinality(Ops) /\ Cardinality(Ops) \in Nat
  BY <1>1, ProviderAssumption, FS_Subset, FS_CardinalityType
<1>3. inFlight'[g] = Cardinality(Carriers(g)')
  <2>1. CASE Carries(o, g)' /\ ~Carries(o, g)
    <3>1. Carriers(g)' = Carriers(g) \cup {o} /\ o \notin Carriers(g)
      BY <2>1 DEF Carriers
    <3>2. Cardinality(Carriers(g)') = Cardinality(Carriers(g)) + 1
      BY <1>2, <3>1, FS_AddElement
    <3>3. QED
      BY <1>2, <2>1, <3>2
  <2>2. CASE ~Carries(o, g)' /\ Carries(o, g)
    <3>1. Carriers(g)' = Carriers(g) \ {o} /\ o \in Carriers(g)
      BY <2>2 DEF Carriers
    <3>2. Cardinality(Carriers(g)') = Cardinality(Carriers(g)) - 1
      BY <1>2, <3>1, FS_RemoveElement
    <3>3. QED
      BY <1>2, <2>2, <3>2
  <2>3. CASE Carries(o, g)' <=> Carries(o, g)
    <3>1. Carriers(g)' = Carriers(g)
      BY <2>3 DEF Carriers
    <3>2. QED
      BY <1>2, <2>3, <3>1
  <2>4. QED
    BY <2>1, <2>2, <2>3
<1>4. QED
  BY <1>2, <1>3

\* Nothing of any operation but o changes.
OnlyOf(o) ==
  \A x \in Ops \ {o} :
    /\ kind'[x] = kind[x] /\ stage'[x] = stage[x] /\ plan'[x] = plan[x]
    /\ at'[x] = at[x] /\ tried'[x] = tried[x]

\* A step of one operation: its own walk, its types and the loads are left.
LEMMA Local ==
  ASSUME IInv, NEW o \in Ops, OnlyOf(o), WalkOK(o)',
         failures' \in [Gateways -> 0..FailureCap],
         cool' \in [Gateways -> 0..CooldownMax],
         kind' \in [Ops -> {"connect", "fetch"}],
         stage' \in [Ops -> {"idle", "direct", "trying", "tunnel", "socket"}],
         at' \in [Ops -> Gateways], tried' \in [Ops -> SUBSET Gateways],
         plan' \in [Ops -> Seq(Gateways)], stage'[o] = "trying" <=> plan'[o] # <<>>,
         DOMAIN inFlight' = Gateways, inFlight' = [g \in Gateways |-> inFlight'[g]],
         \A g \in Gateways : inFlight'[g] =
           inFlight[g] + (IF Carries(o, g)' THEN 1 ELSE 0)
                       - (IF Carries(o, g) THEN 1 ELSE 0)
  PROVE  IInv'
<1>1. ASSUME NEW g \in Gateways
      PROVE  /\ inFlight'[g] = Cardinality(Carriers(g)')
             /\ inFlight'[g] \in 0..Cardinality(Ops)
  <2>1. \A x \in Ops \ {o} : Carries(x, g)' <=> Carries(x, g)
    BY DEF OnlyOf, Carries
  <2>2. inFlight[g] = Cardinality(Carriers(g))
    BY ExactIsCarriers DEF IInv
  <2>3. QED
    BY <2>1, <2>2, OneMoves
<1>2. InFlightExact'
  BY <1>1, ExactIsCarriersNext
<1>3. TypeOK'
  <2>1. \A x \in Ops : stage'[x] = "trying" <=> plan'[x] # <<>>
    BY DEF IInv, TypeOK, OnlyOf
  <2>2. inFlight' \in [Gateways -> 0..Cardinality(Ops)]
    BY <1>1
  <2>3. QED
    BY <2>1, <2>2 DEF TypeOK
<1>4. \A x \in Ops \ {o} : WalkOK(x)'
  <2>1. \A x \in Ops : WalkOK(x)
    BY DEF IInv, WalkOK, NoneTwice, FailsOnlyAfterAll
  <2>2. ASSUME NEW x \in Ops \ {o} PROVE WalkOK(x)'
    <3>1. plan'[x] = plan[x] /\ stage'[x] = stage[x] /\ tried'[x] = tried[x]
      BY DEF OnlyOf
    <3>2. WalkOK(x)
      BY <2>1
    <3>3. WalkOK(x)' <=> WalkOK(x)
      BY <3>1, Zenon DEF WalkOK
    <3>4. QED
      BY <3>2, <3>3
  <2>3. QED
    BY <2>2
<1>5. NoneTwice' /\ FailsOnlyAfterAll'
  BY <1>4 DEF WalkOK, NoneTwice, FailsOnlyAfterAll
<1>6. QED
  BY <1>2, <1>3, <1>5 DEF IInv

\* Sequences without repetition: how the head and the tail share the set.
LEMMA NoRepeat ==
  ASSUME NEW s \in Seq(Gateways), s # <<>>,
         \A i, j \in 1..Len(s) : s[i] = s[j] => i = j
  PROVE  /\ Head(s) \in Gateways /\ Head(s) = s[1]
         /\ Tail(s) \in Seq(Gateways) /\ Len(Tail(s)) = Len(s) - 1
         /\ \A i, j \in 1..Len(Tail(s)) : Tail(s)[i] = Tail(s)[j] => i = j
         /\ ToSet(Tail(s)) = ToSet(s) \ {s[1]}
         /\ Len(s) > 1 => /\ s[2] \in Gateways /\ s[2] # s[1]
                          /\ Head(Tail(s)) = s[2] /\ s[2] \in ToSet(s)
         /\ ToSet(s) \subseteq Gateways
<1>1. Len(s) \in Nat /\ Len(s) > 0 /\ DOMAIN s = 1..Len(s)
  BY EmptySeq, LenProperties
<1>2. /\ Head(s) = s[1] /\ Tail(s) \in Seq(Gateways) /\ Len(Tail(s)) = Len(s) - 1
      /\ \A i \in 1..Len(Tail(s)) : Tail(s)[i] = s[i + 1]
      /\ DOMAIN Tail(s) = 1..(Len(s) - 1)
  BY <1>1, HeadTailProperties
<1>3. \A i \in 1..Len(s) : s[i] \in Gateways
  BY ElementOfSeq
<1>4. \A i, j \in 1..Len(Tail(s)) : Tail(s)[i] = Tail(s)[j] => i = j
  <2>1. \A i \in 1..Len(Tail(s)) : i + 1 \in 1..Len(s)
    BY <1>1, <1>2
  <2>2. ASSUME NEW i \in 1..Len(Tail(s)), NEW j \in 1..Len(Tail(s)),
               Tail(s)[i] = Tail(s)[j]
        PROVE  i = j
    <3>1. i + 1 = j + 1
      BY <1>2, <2>1, <2>2
    <3>2. QED
      BY <3>1
  <2>3. QED
    BY <2>2
<1>5. ToSet(Tail(s)) = ToSet(s) \ {s[1]}
  <2>1. \A x : x \in ToSet(Tail(s)) <=> \E i \in 1..(Len(s) - 1) : s[i + 1] = x
    <3>1. \A x : x \in ToSet(Tail(s)) <=> \E i \in 1..(Len(s) - 1) : Tail(s)[i] = x
      BY <1>2 DEF ToSet
    <3>2. \A i \in 1..(Len(s) - 1) : Tail(s)[i] = s[i + 1]
      BY <1>2
    <3>3. QED
      BY <3>1, <3>2
  <2>2. \A x : x \in ToSet(s) \ {s[1]} <=> \E i \in 1..Len(s) : s[i] = x /\ i # 1
    BY <1>1 DEF ToSet
  <2>3. ASSUME NEW x, NEW i \in 1..Len(s), s[i] = x, i # 1
        PROVE  \E j \in 1..(Len(s) - 1) : s[j + 1] = x
    <3>1. i - 1 \in 1..(Len(s) - 1) /\ (i - 1) + 1 = i
      BY <1>1, <2>3
    <3>2. QED
      BY <2>3, <3>1
  <2>4. ASSUME NEW x, NEW j \in 1..(Len(s) - 1), s[j + 1] = x
        PROVE  \E i \in 1..Len(s) : s[i] = x /\ i # 1
    <3>1. j + 1 \in 1..Len(s) /\ j + 1 # 1
      BY <1>1
    <3>2. QED
      BY <2>4, <3>1
  <2>5. \A x : x \in ToSet(Tail(s)) <=> x \in ToSet(s) \ {s[1]}
    BY <2>1, <2>2, <2>3, <2>4
  <2>6. QED
    BY <2>5
<1>6. ASSUME Len(s) > 1
      PROVE  /\ s[2] \in Gateways /\ s[2] # s[1]
             /\ Head(Tail(s)) = s[2] /\ s[2] \in ToSet(s)
  <2>1. 1 \in 1..Len(s) /\ 2 \in 1..Len(s) /\ Len(Tail(s)) > 0 /\ 1 \in 1..Len(Tail(s))
    BY <1>1, <1>2, <1>6
  <2>2. s[2] \in Gateways /\ s[2] # s[1] /\ s[2] \in ToSet(s)
    BY <1>1, <1>3, <2>1 DEF ToSet
  <2>3. Tail(s)[1] = s[2]
    BY <1>2, <2>1
  <2>4. Head(Tail(s)) = Tail(s)[1]
    BY <1>2, <2>1, EmptySeq, HeadTailProperties
  <2>5. QED
    BY <2>2, <2>3, <2>4
<1>7. ToSet(s) \subseteq Gateways /\ Head(s) \in Gateways
  BY <1>1, <1>2, <1>3 DEF ToSet
<1>8. QED
  BY <1>2, <1>4, <1>5, <1>6, <1>7

\* The list an operation starts with: all gateways, once each.
LEMMA Fresh ==
  ASSUME TypeOK
  PROVE  LET C == Candidates
         IN  /\ C \in Seq(Gateways) /\ C # <<>> /\ Len(C) = Cardinality(Gateways)
             /\ C[1] \in Gateways /\ Head(C) = C[1] /\ ToSet(C) = Gateways
             /\ \A i, j \in 1..Len(C) : C[i] = C[j] => i = j
<1> DEFINE C == Candidates
           N == Cardinality(Gateways)
<1>1. N \in Nat \ {0} /\ C \in Seq(Gateways) /\ Len(C) = N
  BY LoadsTyped, CandidatesShape
<1>2. /\ \A g \in Gateways : \E i \in 1..N : C[i] = g
      /\ \A i, j \in 1..N : C[i] = C[j] => i = j
      /\ \A i \in 1..N : C[i] \in Gateways
  BY LoadsTyped, CandidatesPermute
<1> HIDE DEF C, N
<1>3. DOMAIN C = 1..N /\ C # <<>> /\ 1 \in 1..N
  BY <1>1, EmptySeq, LenProperties
<1>4. ToSet(C) = Gateways
  BY <1>2, <1>3 DEF ToSet
<1>5. Head(C) = C[1]
  BY <1>1, <1>3, HeadTailProperties
<1>6. QED
  BY <1>1, <1>2, <1>3, <1>4, <1>5 DEF C, N

LEMMA Walks == ASSUME IInv, NEW o \in Ops PROVE WalkOK(o)
BY DEF IInv, WalkOK, NoneTwice, FailsOnlyAfterAll

LEMMA EngageOK ==
  ASSUME IInv, NEW o \in Ops, NEW what \in {"connect", "fetch"},
         stage[o] \in {"idle", "direct"}, Engage(o, what)
  PROVE  IInv'
<1> DEFINE C == Candidates
<1>1. /\ C \in Seq(Gateways) /\ C # <<>> /\ Len(C) = Cardinality(Gateways)
      /\ C[1] \in Gateways /\ Head(C) = C[1] /\ ToSet(C) = Gateways
      /\ \A i, j \in 1..Len(C) : C[i] = C[j] => i = j
  BY Fresh DEF IInv
<1>2. /\ plan' = [plan EXCEPT ![o] = C]
      /\ inFlight' = [inFlight EXCEPT ![C[1]] = @ + Load(what)]
      /\ tried' = [tried EXCEPT ![o] = {C[1]}]
      /\ stage' = [stage EXCEPT ![o] = "trying"]
      /\ kind' = [kind EXCEPT ![o] = what]
      /\ UNCHANGED <<failures, cool, at>>
  BY DEF Engage, Take
<1> HIDE DEF C
<1>3. /\ failures' \in [Gateways -> 0..FailureCap]
      /\ cool' \in [Gateways -> 0..CooldownMax]
      /\ kind' \in [Ops -> {"connect", "fetch"}]
      /\ stage' \in [Ops -> {"idle", "direct", "trying", "tunnel", "socket"}]
      /\ at' \in [Ops -> Gateways] /\ tried' \in [Ops -> SUBSET Gateways]
      /\ plan' \in [Ops -> Seq(Gateways)]
  BY <1>1, <1>2 DEF IInv, TypeOK
<1>4. /\ plan'[o] = C /\ stage'[o] = "trying" /\ tried'[o] = {C[1]}
      /\ kind'[o] = what
  BY <1>2 DEF IInv, TypeOK
<1>5. OnlyOf(o)
  BY <1>2 DEF IInv, TypeOK, OnlyOf
<1>6. WalkOK(o)'
  <2>1. tried'[o] = (Gateways \ ToSet(C)) \cup {Head(C)}
    BY <1>1, <1>4
  <2>2. Cardinality(tried'[o]) = 1 /\ Cardinality(Gateways) \in Nat
    BY <1>4, FS_Singleton, FS_CardinalityType, ProviderAssumption
  <2>3. Len(C) + Cardinality(tried'[o]) = Cardinality(Gateways) + 1
    BY <1>1, <2>2
  <2>4. QED
    BY <1>1, <1>4, <2>1, <2>3 DEF WalkOK
<1>7. ASSUME NEW g \in Gateways
      PROVE  inFlight'[g] = inFlight[g] + (IF Carries(o, g)' THEN 1 ELSE 0)
                                        - (IF Carries(o, g) THEN 1 ELSE 0)
  <2>1. ~Carries(o, g)
    BY DEF Carries
  <2>2. Carries(o, g)' <=> what = "connect" /\ C[1] = g
    BY <1>1, <1>4 DEF Carries
  <2>3. inFlight[g] \in Int
    BY ProviderAssumption, FS_CardinalityType DEF IInv, TypeOK
  <2>4. inFlight'[g] = IF C[1] = g THEN inFlight[g] + Load(what) ELSE inFlight[g]
    BY <1>2 DEF IInv, TypeOK
  <2>5. QED
    BY <2>1, <2>2, <2>3, <2>4 DEF Load
<1>8. DOMAIN inFlight' = Gateways /\ inFlight' = [g \in Gateways |-> inFlight'[g]]
  BY <1>2 DEF IInv, TypeOK
<1>9. QED
  BY <1>1, <1>3, <1>4, <1>5, <1>6, <1>7, <1>8, Local

LEMMA BeginOK == ASSUME IInv, NEW o \in Ops, Begin(o) PROVE IInv'
<1>1. PICK what \in {"connect", "fetch"} : Engage(o, what)
  BY DEF Begin
<1>2. QED
  BY <1>1, EngageOK DEF Begin

LEMMA DirectFailsOK == ASSUME IInv, NEW o \in Ops, DirectFails(o) PROVE IInv'
BY EngageOK DEF DirectFails

\* A direct connection, or none: no gateway is burdened before or after.
LEMMA DirectOK ==
  ASSUME IInv, NEW o \in Ops, NEW to \in {"direct", "socket", "idle"},
         stage[o] \in {"idle", "direct", "socket"},
         stage' = [stage EXCEPT ![o] = to],
         UNCHANGED <<stateVars, kind, plan, at, tried>>
  PROVE  IInv'
<1>1. /\ failures' \in [Gateways -> 0..FailureCap]
      /\ cool' \in [Gateways -> 0..CooldownMax]
      /\ kind' \in [Ops -> {"connect", "fetch"}]
      /\ stage' \in [Ops -> {"idle", "direct", "trying", "tunnel", "socket"}]
      /\ at' \in [Ops -> Gateways] /\ tried' \in [Ops -> SUBSET Gateways]
      /\ plan' \in [Ops -> Seq(Gateways)]
      /\ stage'[o] = to /\ plan'[o] = plan[o] /\ plan[o] = <<>>
  BY DEF IInv, TypeOK, stateVars
<1>2. OnlyOf(o)
  BY DEF IInv, TypeOK, OnlyOf
<1>3. WalkOK(o)'
  BY <1>1, Walks DEF WalkOK
<1>4. ASSUME NEW g \in Gateways
      PROVE  inFlight'[g] = inFlight[g] + (IF Carries(o, g)' THEN 1 ELSE 0)
                                        - (IF Carries(o, g) THEN 1 ELSE 0)
  <2>1. ~Carries(o, g) /\ ~Carries(o, g)'
    BY <1>1 DEF Carries
  <2>2. inFlight[g] \in Int /\ inFlight'[g] = inFlight[g]
    BY ProviderAssumption, FS_CardinalityType DEF IInv, TypeOK, stateVars
  <2>3. QED
    BY <2>1, <2>2
<1>5. DOMAIN inFlight' = Gateways /\ inFlight' = [g \in Gateways |-> inFlight'[g]]
  BY DEF IInv, TypeOK, stateVars
<1>6. QED
  BY <1>1, <1>2, <1>3, <1>4, <1>5, Local

\* What the bookkeeping of an attempt leaves in failures and cool.
LEMMA OutcomeTypes ==
  ASSUME TypeOK, NEW g \in Gateways, OnSuccess(g) \/ OnFailure(g)
  PROVE  /\ failures' \in [Gateways -> 0..FailureCap]
         /\ cool' \in [Gateways -> 0..CooldownMax]
<1>1. FailureCap \in Nat /\ FailureCap # 0 /\ CooldownMax \in Nat /\ CooldownBase \in Nat
  BY ProviderAssumption, FailureCapAssumption
<1>2. failures[g] \in Nat
  BY <1>1 DEF TypeOK
<1>3. CASE OnSuccess(g)
  BY <1>1, <1>3 DEF TypeOK, OnSuccess
<1>4. CASE OnFailure(g)
  <2> DEFINE n == Smaller(FailureCap, failures[g] + 1)
             exp == Smaller(CooldownMax, CooldownBase * 2 ^ (n - 1))
  <2>1. n \in 0..FailureCap /\ n - 1 \in Nat
    BY <1>1, <1>2 DEF Smaller
  <2>2. exp \in 0..CooldownMax
    <3>1. 2 ^ (n - 1) \in Nat
      BY <2>1, Powers
    <3>2. CooldownBase * 2 ^ (n - 1) \in Nat
      BY <1>1, <3>1
    <3>3. QED
      BY <1>1, <3>2 DEF Smaller
  <2>3. /\ failures' = [failures EXCEPT ![g] = n]
        /\ \E d \in ((exp + 1) \div 2)..exp : cool' = [cool EXCEPT ![g] = d]
    BY <1>4 DEF OnFailure
  <2> HIDE DEF n, exp
  <2>4. \A d \in ((exp + 1) \div 2)..exp : d \in 0..CooldownMax
    BY <1>1, <2>2
  <2>5. QED
    BY <2>1, <2>3, <2>4 DEF TypeOK
<1>5. QED
  BY <1>3, <1>4

LEMMA SucceedsOK == ASSUME IInv, NEW o \in Ops, Succeeds(o) PROVE IInv'
<1> DEFINE g == Head(plan[o])
<1>1. g \in Gateways
  <2>1. plan[o] \in Seq(Gateways) /\ plan[o] # <<>>
    BY DEF IInv, TypeOK, Succeeds
  <2>2. QED
    BY <2>1, Walks, NoRepeat DEF WalkOK
<1>2. /\ failures' \in [Gateways -> 0..FailureCap]
      /\ cool' \in [Gateways -> 0..CooldownMax]
  BY <1>1, OutcomeTypes DEF IInv, Succeeds
<1>3. /\ stage[o] = "trying" /\ UNCHANGED inFlight
      /\ stage' = [stage EXCEPT ![o] = IF kind[o] = "connect" THEN "tunnel" ELSE "idle"]
      /\ kind' = [kind EXCEPT ![o] = "connect"]
      /\ at' = IF kind[o] = "connect" THEN [at EXCEPT ![o] = g] ELSE at
      /\ plan' = [plan EXCEPT ![o] = <<>>]
      /\ tried' = [tried EXCEPT ![o] = {}]
  BY DEF Succeeds
<1> HIDE DEF g
<1>4. /\ kind' \in [Ops -> {"connect", "fetch"}]
      /\ stage' \in [Ops -> {"idle", "direct", "trying", "tunnel", "socket"}]
      /\ at' \in [Ops -> Gateways] /\ tried' \in [Ops -> SUBSET Gateways]
      /\ plan' \in [Ops -> Seq(Gateways)]
  BY <1>1, <1>3, EmptySeq DEF IInv, TypeOK
<1>5. /\ plan'[o] = <<>> /\ kind'[o] = "connect" /\ kind[o] \in {"connect", "fetch"}
      /\ stage'[o] = IF kind[o] = "connect" THEN "tunnel" ELSE "idle"
      /\ kind[o] = "connect" => at'[o] = g
  BY <1>3 DEF IInv, TypeOK
<1>6. OnlyOf(o)
  BY <1>3 DEF IInv, TypeOK, OnlyOf
<1>7. WalkOK(o)'
  BY <1>5 DEF WalkOK
<1>8. ASSUME NEW h \in Gateways
      PROVE  inFlight'[h] = inFlight[h] + (IF Carries(o, h)' THEN 1 ELSE 0)
                                        - (IF Carries(o, h) THEN 1 ELSE 0)
  <2>1. Carries(o, h) <=> kind[o] = "connect" /\ g = h
    BY <1>3 DEF Carries, g
  <2>2. Carries(o, h)' <=> kind[o] = "connect" /\ g = h
    BY <1>5 DEF Carries
  <2>3. inFlight[h] \in Int /\ inFlight'[h] = inFlight[h]
    BY <1>3, ProviderAssumption, FS_CardinalityType DEF IInv, TypeOK
  <2>4. QED
    BY <2>1, <2>2, <2>3
<1>9. DOMAIN inFlight' = Gateways /\ inFlight' = [h \in Gateways |-> inFlight'[h]]
  BY <1>3 DEF IInv, TypeOK
<1>10. QED
  BY <1>2, <1>4, <1>5, <1>6, <1>7, <1>8, <1>9, Local

LEMMA FailsOverOK == ASSUME IInv, NEW o \in Ops, FailsOver(o) PROVE IInv'
<1> DEFINE s == plan[o]
           g == s[1]
           next == s[2]
<1>1. s \in Seq(Gateways) /\ s # <<>> /\ Len(s) > 1 /\ Len(s) \in Nat
      /\ stage[o] = "trying"
  BY DEF IInv, TypeOK, FailsOver
<1>2. /\ g \in Gateways /\ Head(s) = g
      /\ Tail(s) \in Seq(Gateways) /\ Len(Tail(s)) = Len(s) - 1
      /\ \A i, j \in 1..Len(Tail(s)) : Tail(s)[i] = Tail(s)[j] => i = j
      /\ ToSet(Tail(s)) = ToSet(s) \ {g} /\ ToSet(s) \subseteq Gateways
      /\ next \in Gateways /\ next # g /\ Head(Tail(s)) = next /\ next \in ToSet(s)
  BY <1>1, Walks, NoRepeat DEF WalkOK
<1>3. Tail(s) # <<>>
  <2>1. Len(Tail(s)) > 0
    BY <1>1, <1>2
  <2>2. Len(<<>>) = 0
    BY EmptySeq
  <2>3. QED
    BY <2>1, <2>2
<1>4. /\ inFlight' = [[inFlight EXCEPT ![g] = @ - Load(kind[o])]
                        EXCEPT ![next] = @ + Load(kind[o])]
      /\ plan' = [plan EXCEPT ![o] = Tail(s)]
      /\ tried' = [tried EXCEPT ![o] = @ \cup {next}]
      /\ UNCHANGED <<kind, stage, at>>
      /\ OnFailure(g)
  BY <1>2 DEF FailsOver, Drop
<1>5. /\ failures' \in [Gateways -> 0..FailureCap]
      /\ cool' \in [Gateways -> 0..CooldownMax]
  BY <1>2, <1>4, OutcomeTypes DEF IInv
<1> HIDE DEF s, g, next
<1>6. /\ kind' \in [Ops -> {"connect", "fetch"}]
      /\ stage' \in [Ops -> {"idle", "direct", "trying", "tunnel", "socket"}]
      /\ at' \in [Ops -> Gateways] /\ tried' \in [Ops -> SUBSET Gateways]
      /\ plan' \in [Ops -> Seq(Gateways)]
  BY <1>2, <1>4 DEF IInv, TypeOK
<1>7. /\ plan'[o] = Tail(s) /\ kind'[o] = kind[o] /\ kind[o] \in {"connect", "fetch"}
      /\ stage'[o] = "trying" /\ tried'[o] = tried[o] \cup {next}
  BY <1>1, <1>4 DEF IInv, TypeOK
<1>8. OnlyOf(o)
  BY <1>4 DEF IInv, TypeOK, OnlyOf
<1>9. WalkOK(o)'
  <2>1. /\ tried[o] = (Gateways \ ToSet(s)) \cup {g}
        /\ Len(s) + Cardinality(tried[o]) = Cardinality(Gateways) + 1
    BY <1>1, <1>2, Walks DEF WalkOK, s
  <2>2. tried'[o] = (Gateways \ ToSet(Tail(s))) \cup {Head(Tail(s))}
    BY <1>2, <1>7, <2>1
  <2>3. next \notin tried[o]
    BY <1>2, <2>1
  <2>4. IsFiniteSet(tried[o]) /\ Cardinality(tried[o]) \in Nat
        /\ Cardinality(Gateways) \in Nat
    <3>1. tried[o] \in SUBSET Gateways
      BY DEF IInv, TypeOK
    <3>2. QED
      BY <3>1, ProviderAssumption, FS_Subset, FS_CardinalityType
  <2>5. Cardinality(tried'[o]) = Cardinality(tried[o]) + 1
    BY <1>7, <2>3, <2>4, FS_AddElement
  <2>6. Len(Tail(s)) + Cardinality(tried'[o]) = Cardinality(Gateways) + 1
    BY <1>1, <1>2, <2>1, <2>4, <2>5
  <2>7. QED
    BY <1>2, <1>7, <2>2, <2>6 DEF WalkOK
<1>10. ASSUME NEW h \in Gateways
       PROVE  inFlight'[h] = inFlight[h] + (IF Carries(o, h)' THEN 1 ELSE 0)
                                         - (IF Carries(o, h) THEN 1 ELSE 0)
  <2>1. Carries(o, h) <=> kind[o] = "connect" /\ g = h
    BY <1>1, <1>2 DEF Carries, s
  <2>2. Carries(o, h)' <=> kind[o] = "connect" /\ next = h
    BY <1>2, <1>7 DEF Carries
  <2>3. inFlight[h] \in Int
    BY ProviderAssumption, FS_CardinalityType DEF IInv, TypeOK
  <2>4. inFlight'[h] = IF h = g THEN inFlight[h] - Load(kind[o])
                       ELSE IF h = next THEN inFlight[h] + Load(kind[o])
                       ELSE inFlight[h]
    BY <1>2, <1>4 DEF IInv, TypeOK
  <2>5. QED
    BY <1>2, <1>7, <2>1, <2>2, <2>3, <2>4 DEF Load
<1>11. DOMAIN inFlight' = Gateways /\ inFlight' = [h \in Gateways |-> inFlight'[h]]
  BY <1>4 DEF IInv, TypeOK
<1>12. QED
  BY <1>3, <1>5, <1>6, <1>7, <1>8, <1>9, <1>10, <1>11, Local

\* A gateway is relieved by the end of what an operation had on it.
LEMMA RelievesOK ==
  ASSUME IInv, NEW o \in Ops, NEW g \in Gateways,
         \A h \in Gateways : Carries(o, h) <=> kind[o] = "connect" /\ g = h,
         inFlight' = Drop(kind[o], g),
         failures' \in [Gateways -> 0..FailureCap],
         cool' \in [Gateways -> 0..CooldownMax],
         stage' = [stage EXCEPT ![o] = "idle"],
         kind' = [kind EXCEPT ![o] = kind'[o]], kind'[o] \in {"connect", "fetch"},
         at' = [at EXCEPT ![o] = at'[o]], at'[o] \in Gateways,
         plan' = [plan EXCEPT ![o] = <<>>],
         tried' = [tried EXCEPT ![o] = tried'[o]], tried'[o] \in SUBSET Gateways
  PROVE  IInv'
<1>1. /\ kind' \in [Ops -> {"connect", "fetch"}]
      /\ stage' \in [Ops -> {"idle", "direct", "trying", "tunnel", "socket"}]
      /\ at' \in [Ops -> Gateways] /\ tried' \in [Ops -> SUBSET Gateways]
      /\ plan' \in [Ops -> Seq(Gateways)]
  <2>1. kind' \in [Ops -> {"connect", "fetch"}]
    BY DEF IInv, TypeOK
  <2>2. stage' \in [Ops -> {"idle", "direct", "trying", "tunnel", "socket"}]
    BY DEF IInv, TypeOK
  <2>3. at' \in [Ops -> Gateways]
    BY DEF IInv, TypeOK
  <2>4. tried' \in [Ops -> SUBSET Gateways]
    BY DEF IInv, TypeOK
  <2>5. plan' \in [Ops -> Seq(Gateways)]
    BY EmptySeq DEF IInv, TypeOK
  <2>6. QED
    BY <2>1, <2>2, <2>3, <2>4, <2>5
<1>2. plan'[o] = <<>> /\ stage'[o] = "idle" /\ kind[o] \in {"connect", "fetch"}
  BY DEF IInv, TypeOK
<1>3. OnlyOf(o)
  BY DEF IInv, TypeOK, OnlyOf
<1>4. WalkOK(o)'
  BY <1>2 DEF WalkOK
<1>5. ASSUME NEW h \in Gateways
      PROVE  inFlight'[h] = inFlight[h] + (IF Carries(o, h)' THEN 1 ELSE 0)
                                        - (IF Carries(o, h) THEN 1 ELSE 0)
  <2>1. ~Carries(o, h)'
    BY <1>2 DEF Carries
  <2>2. inFlight[h] \in Int
    BY ProviderAssumption, FS_CardinalityType DEF IInv, TypeOK
  <2>3. inFlight'[h] = IF h = g THEN inFlight[h] - Load(kind[o]) ELSE inFlight[h]
    BY DEF IInv, TypeOK, Drop
  <2>4. QED
    BY <1>2, <2>1, <2>2, <2>3 DEF Load
<1>6. DOMAIN inFlight' = Gateways /\ inFlight' = [h \in Gateways |-> inFlight'[h]]
  BY DEF IInv, TypeOK, Drop
<1>7. QED
  BY <1>1, <1>2, <1>3, <1>4, <1>5, <1>6, Local

LEMMA FailsForGoodOK == ASSUME IInv, NEW o \in Ops, FailsForGood(o) PROVE IInv'
<1> DEFINE g == Head(plan[o])
<1>1. g \in Gateways
  <2>1. plan[o] \in Seq(Gateways) /\ plan[o] # <<>>
    BY DEF IInv, TypeOK, FailsForGood
  <2>2. QED
    BY <2>1, Walks, NoRepeat DEF WalkOK
<1>2. \A h \in Gateways : Carries(o, h) <=> kind[o] = "connect" /\ g = h
  BY DEF FailsForGood, Carries
<1>3. /\ failures' \in [Gateways -> 0..FailureCap]
      /\ cool' \in [Gateways -> 0..CooldownMax]
  BY <1>1, OutcomeTypes DEF IInv, FailsForGood
<1>4. /\ kind' = [kind EXCEPT ![o] = "connect"] /\ at' = at
      /\ tried' = [tried EXCEPT ![o] = {}]
      /\ stage' = [stage EXCEPT ![o] = "idle"] /\ plan' = [plan EXCEPT ![o] = <<>>]
      /\ inFlight' = Drop(kind[o], g)
  BY DEF FailsForGood
<1>5. /\ kind'[o] = "connect" /\ tried'[o] = {} /\ at'[o] \in Gateways
      /\ at' = [at EXCEPT ![o] = at'[o]]
  BY <1>4 DEF IInv, TypeOK
<1> HIDE DEF g
<1>6. QED
  BY <1>1, <1>2, <1>3, <1>4, <1>5, RelievesOK

LEMMA SocketClosesOK == ASSUME IInv, NEW o \in Ops, SocketCloses(o) PROVE IInv'
<1> DEFINE g == at[o]
<1>1. g \in Gateways /\ Order[1] \in Gateways
  <2>1. 1 \in 1..Cardinality(Gateways)
    BY ProviderAssumption, FS_CardinalityType, FS_EmptySet
  <2>2. QED
    BY <2>1, ProviderAssumption DEF IInv, TypeOK
<1>2. \A h \in Gateways : Carries(o, h) <=> kind[o] = "connect" /\ g = h
  BY DEF SocketCloses, Carries
<1>3. /\ failures' \in [Gateways -> 0..FailureCap]
      /\ cool' \in [Gateways -> 0..CooldownMax]
  BY DEF IInv, TypeOK, SocketCloses
<1>4. /\ kind' = kind /\ at' = [at EXCEPT ![o] = Order[1]] /\ tried' = tried
      /\ stage' = [stage EXCEPT ![o] = "idle"] /\ plan' = plan
      /\ inFlight' = Drop(kind[o], g)
  BY DEF SocketCloses
<1>5. /\ kind' = [kind EXCEPT ![o] = kind'[o]] /\ kind'[o] \in {"connect", "fetch"}
      /\ tried' = [tried EXCEPT ![o] = tried'[o]] /\ tried'[o] \in SUBSET Gateways
      /\ at'[o] = Order[1]
  BY <1>4 DEF IInv, TypeOK
<1>6. plan' = [plan EXCEPT ![o] = <<>>]
  <2>1. plan[o] = <<>>
    BY DEF IInv, TypeOK, SocketCloses
  <2>2. QED
    BY <1>4, <2>1 DEF IInv, TypeOK
<1> HIDE DEF g
<1>7. QED
  BY <1>1, <1>2, <1>3, <1>4, <1>5, <1>6, RelievesOK

LEMMA TickOK == ASSUME IInv, Tick PROVE IInv'
<1>1. cool' \in [Gateways -> 0..CooldownMax]
  BY ProviderAssumption DEF IInv, TypeOK, Tick
<1>2. UNCHANGED <<inFlight, failures, kind, stage, plan, at, tried>>
  BY DEF Tick
<1>3. QED
  BY <1>1, <1>2 DEF IInv, TypeOK, InFlightExact, NoneTwice, FailsOnlyAfterAll

LEMMA Start == Init => IInv
<1> SUFFICES ASSUME Init PROVE IInv
  OBVIOUS
<1>1. Order[1] \in Gateways
  <2>1. 1 \in 1..Cardinality(Gateways)
    BY ProviderAssumption, FS_CardinalityType, FS_EmptySet
  <2>2. QED
    BY <2>1, ProviderAssumption
<1>2. /\ Cardinality(Ops) \in Nat /\ FailureCap \in Nat /\ CooldownMax \in Nat
      /\ <<>> \in Seq(Gateways) /\ Len(<<>>) = 0
  BY ProviderAssumption, FailureCapAssumption, FS_CardinalityType, EmptySeq
<1>3. TypeOK
  BY <1>1, <1>2 DEF Init, TypeOK
<1>4. InFlightExact
  <2>1. ASSUME NEW g \in Gateways PROVE Carriers(g) = {} /\ inFlight[g] = 0
    BY DEF Init, Carriers, Carries
  <2>2. QED
    BY <2>1, FS_EmptySet, ExactIsCarriers
<1>5. NoneTwice /\ FailsOnlyAfterAll
  BY <1>2 DEF Init, NoneTwice, FailsOnlyAfterAll
<1>6. QED
  BY <1>3, <1>4, <1>5 DEF IInv

LEMMA StutterOK == ASSUME IInv, UNCHANGED vars PROVE IInv'
<1> SUFFICES ASSUME IInv, UNCHANGED vars PROVE IInv'
  OBVIOUS
<1>1. UNCHANGED <<inFlight, failures, cool, kind, stage, plan, at, tried>>
  BY DEF vars, stateVars
<1>2. TypeOK'
  BY <1>1 DEF IInv, TypeOK
<1>3. InFlightExact'
  BY <1>1 DEF IInv, InFlightExact
<1>4. NoneTwice'
  BY <1>1 DEF IInv, NoneTwice
<1>5. FailsOnlyAfterAll'
  BY <1>1 DEF IInv, FailsOnlyAfterAll
<1>6. QED
  BY <1>2, <1>3, <1>4, <1>5 DEF IInv

LEMMA StepOK == IInv /\ [Next]_vars => IInv'
<1> SUFFICES ASSUME IInv, [Next]_vars PROVE IInv'
  OBVIOUS
<1>1. CASE UNCHANGED vars
  BY <1>1, StutterOK
<1>2. CASE Tick
  BY <1>2, TickOK
<1>3. ASSUME NEW o \in Ops, BeginDirect(o) \/ DirectOpens(o) \/ DirectCloses(o)
      PROVE  IInv'
  BY <1>3, DirectOK DEF BeginDirect, DirectOpens, DirectCloses
<1>4. ASSUME NEW o \in Ops,
             Begin(o) \/ DirectFails(o) \/ Attempt(o) \/ SocketCloses(o)
      PROVE  IInv'
  BY <1>4, BeginOK, DirectFailsOK, SucceedsOK, FailsOverOK, FailsForGoodOK,
     SocketClosesOK DEF Attempt
<1>5. QED
  BY <1>1, <1>2, <1>3, <1>4 DEF Next

-----------------------------------------------------------------------------
\* The state of the provider keeps its types; a cooldown never exceeds its
\* ceiling (socketProvider.ts, #onFailure).
THEOREM TypesHold == Spec => []TypeOK
<1>1. IInv => TypeOK
  BY DEF IInv
<1>2. QED
  BY Start, StepOK, <1>1, PTL DEF Spec

\* A new operation picks among all gateways, in the promised order, by loads
\* that are the real ones (socketProvider.ts, #candidates and #connectKps).
THEOREM SelectionIsSound == Spec => []SelectionSound
<1>1. IInv => SelectionSound
  BY LoadsTyped, OrderSound DEF IInv, SelectionSound
<1>2. QED
  BY Start, StepOK, <1>1, PTL DEF Spec

\* No operation fails, or tries a gateway again, before it tried them all
\* (socketProvider.ts, connect and gatewayFetch).
THEOREM EveryGatewayTried == Spec => []FailsOnlyAfterAll
<1>1. IInv => FailsOnlyAfterAll
  BY DEF IInv
<1>2. QED
  BY Start, StepOK, <1>1, PTL DEF Spec

-----------------------------------------------------------------------------
(* ClientLifecycle: the log filter                                         *)

LEMMA LeastIs ==
  ASSUME NEW S, S \subseteq Levels, S # {}
  PROVE  Least(S) \in S /\ \A l \in S : Least(S) <= l
<1>1. \E x \in S : \A y \in S : x <= y
  BY LeastNat, LifecycleAssumption
<1>2. QED
  BY <1>1 DEF Least

\* The filter is no narrower than any listener's own level.
FilterLow == \A c \in listeners : filter <= level[c]

LEMMA SetFilterOK ==
  ASSUME LifeTypeOK, NEW ls \in SUBSET Clients, NEW lv \in [Clients -> Levels],
         SetFilter(ls, lv)
  PROVE  filter' \in Levels /\ FilterLow'
<1>1. CASE ls = {}
  BY <1>1 DEF SetFilter, FilterLow, LifeTypeOK
<1>2. CASE ls # {}
  <2> DEFINE wanted == {lv[c] : c \in ls}
  <2>1. wanted \subseteq Levels /\ wanted # {}
    BY <1>2
  <2>2. Least(wanted) \in wanted /\ \A l \in wanted : Least(wanted) <= l
    BY <2>1, LeastIs
  <2>3. filter' = Least(wanted) /\ listeners' = ls /\ level' = lv
    BY <1>2 DEF SetFilter
  <2>4. QED
    BY <2>1, <2>2, <2>3 DEF FilterLow
<1>3. QED
  BY <1>1, <1>2

LEMMA FilterFrame == ASSUME FilterLow, UNCHANGED logVars PROVE FilterLow'
  BY DEF FilterLow, logVars

-----------------------------------------------------------------------------
(* ClientLifecycle: the inductive invariant                                *)

\* Listener and provider are made in the step after the load and in no later
\* one, so what close() found is all there will be, or the client is late.
Owned == \A c \in Clients :
  /\ boot[c] \in {"new", "wasm"} => provider[c] = "none" /\ c \notin listeners
  /\ closed[c] => \/ c \in late
                  \/ /\ boot[c] \notin {"new", "wasm"}
                     /\ c \notin listeners /\ provider[c] # "open"

LifeInv == LifeTypeOK /\ FilterLow /\ Owned /\ NobodyForgotten

LEMMA OwnedFrame ==
  ASSUME Owned, UNCHANGED <<boot, provider, listeners, closed, late>>
  PROVE  Owned'
  BY DEF Owned

LEMMA ForgottenFrame ==
  ASSUME NobodyForgotten, UNCHANGED callVars, worker' # "waiting" \/ UNCHANGED worker
  PROVE  NobodyForgotten'
  BY DEF NobodyForgotten, callVars

LEMMA LifeStart == LifeInit => LifeInv
<1> SUFFICES ASSUME LifeInit PROVE LifeInv
  OBVIOUS
<1>1. Least(Levels) \in Levels
  BY LeastIs, LifecycleAssumption
<1>2. LifeTypeOK
  BY <1>1, LifecycleAssumption DEF LifeInit, LifeTypeOK, NoCall
<1>3. FilterLow /\ Owned /\ NobodyForgotten
  BY DEF LifeInit, FilterLow, Owned, NobodyForgotten, NoCall
<1>4. QED
  BY <1>2, <1>3 DEF LifeInv

-----------------------------------------------------------------------------
(* ClientLifecycle: bootstrap and close                                    *)

LEMMA WasmLoadsOK == ASSUME LifeInv, WasmLoads PROVE LifeInv'
<1>1. Least(Levels) \in Levels /\ \A l \in Levels : Least(Levels) <= l
  BY LeastIs, LifecycleAssumption
<1>2. LifeTypeOK' /\ FilterLow'
  BY <1>1 DEF WasmLoads, LifeInv, LifeTypeOK, FilterLow, ownVars, callVars
<1>3. Owned' /\ NobodyForgotten'
  BY OwnedFrame, ForgottenFrame DEF WasmLoads, LifeInv, ownVars
<1>4. QED
  BY <1>2, <1>3 DEF LifeInv

LEMMA WasmFailsOK == ASSUME LifeInv, WasmFails PROVE LifeInv'
<1>1. LifeTypeOK'
  BY DEF WasmFails, LifeInv, LifeTypeOK, logVars, ownVars, callVars
<1>2. FilterLow' /\ Owned' /\ NobodyForgotten'
  BY FilterFrame, OwnedFrame, ForgottenFrame DEF WasmFails, LifeInv, ownVars, logVars
<1>3. QED
  BY <1>1, <1>2 DEF LifeInv

LEMMA SetLogLevelOK ==
  ASSUME LifeInv, NEW c \in Clients, NEW l \in Levels, SetLogLevel(c, l) PROVE LifeInv'
<1>1. SetFilter(listeners, [level EXCEPT ![c] = l]) /\ listeners \in SUBSET Clients
      /\ [level EXCEPT ![c] = l] \in [Clients -> Levels]
  BY DEF SetLogLevel, LifeInv, LifeTypeOK
<1>2. filter' \in Levels /\ FilterLow'
  BY <1>1, SetFilterOK DEF LifeInv
<1>3. LifeTypeOK'
  BY <1>1, <1>2 DEF SetLogLevel, SetFilter, LifeInv, LifeTypeOK, ownVars, callVars
<1>4. Owned' /\ NobodyForgotten'
  BY OwnedFrame, ForgottenFrame DEF SetLogLevel, SetFilter, LifeInv, ownVars
<1>5. QED
  BY <1>2, <1>3, <1>4 DEF LifeInv

LEMMA RegistersOK == ASSUME LifeInv, NEW c \in Clients, Registers(c) PROVE LifeInv'
<1>1. PICK l \in Levels : SetFilter(listeners \cup {c}, [level EXCEPT ![c] = l])
  BY DEF Registers
<1>2. listeners \cup {c} \in SUBSET Clients /\ [level EXCEPT ![c] = l] \in [Clients -> Levels]
  BY DEF LifeInv, LifeTypeOK
<1>3. filter' \in Levels /\ FilterLow'
  BY <1>1, <1>2, SetFilterOK DEF LifeInv
<1>4. LifeTypeOK'
  BY <1>1, <1>2, <1>3
     DEF Registers, Options, SetFilter, LifeInv, LifeTypeOK, callVars
<1>5. Owned'
  BY <1>1 DEF Registers, SetFilter, LifeInv, LifeTypeOK, Owned
<1>6. NobodyForgotten'
  BY ForgottenFrame DEF Registers, LifeInv
<1>7. QED
  BY <1>3, <1>4, <1>5, <1>6 DEF LifeInv

LEMMA ProviderFailsOK == ASSUME LifeInv, NEW c \in Clients, ProviderFails(c) PROVE LifeInv'
<1>1. PICK l \in Levels : SetFilter(listeners \cup {c}, [level EXCEPT ![c] = l])
  BY DEF ProviderFails
<1>2. listeners \cup {c} \in SUBSET Clients /\ [level EXCEPT ![c] = l] \in [Clients -> Levels]
  BY DEF LifeInv, LifeTypeOK
<1>3. filter' \in Levels /\ FilterLow'
  BY <1>1, <1>2, SetFilterOK DEF LifeInv
<1>4. LifeTypeOK'
  BY <1>1, <1>2, <1>3 DEF ProviderFails, SetFilter, LifeInv, LifeTypeOK, callVars
<1>5. Owned'
  BY <1>1 DEF ProviderFails, SetFilter, LifeInv, LifeTypeOK, Owned
<1>6. NobodyForgotten'
  BY ForgottenFrame DEF ProviderFails, LifeInv
<1>7. QED
  BY <1>3, <1>4, <1>5, <1>6 DEF LifeInv

\* Past the load the steps of create() touch neither listener nor provider.
LEMMA MovesOK ==
  ASSUME LifeInv, NEW c \in Clients,
         NEW next \in {"storage", "fast", "bootstrap", "up", "failed"}, Moves(c, next),
         fast' \subseteq Clients, inner' \in [Clients -> BOOLEAN],
         lock' \in Clients \cup {NoOne, Stuck}
  PROVE  LifeInv'
<1>1. LifeTypeOK'
  BY DEF Moves, LifeInv, LifeTypeOK, logVars, callVars
<1>2. Owned'
  BY DEF Moves, LifeInv, LifeTypeOK, Owned, logVars
<1>3. FilterLow' /\ NobodyForgotten'
  BY FilterFrame, ForgottenFrame DEF Moves, LifeInv
<1>4. QED
  BY <1>1, <1>2, <1>3 DEF LifeInv

LEMMA StartingOK == ASSUME LifeInv, NEW c \in Clients, Starting(c) PROVE LifeInv'
<1> USE DEF LifeInv
<1>1. fast \subseteq Clients /\ inner \in [Clients -> BOOLEAN]
      /\ lock \in Clients \cup {NoOne, Stuck} /\ Locked(c) \in Clients \cup {NoOne, Stuck}
  BY DEF LifeTypeOK, Locked
<1>2. CASE Registers(c)
  BY <1>2, RegistersOK
<1>2a. CASE ProviderFails(c)
  BY <1>2a, ProviderFailsOK
<1>3. CASE NeverLoaded(c)
  BY <1>1, <1>3, MovesOK DEF NeverLoaded
<1>4. CASE StorageOpens(c)
  BY <1>1, <1>4, MovesOK DEF StorageOpens
<1>5. CASE StorageFails(c)
  BY <1>1, <1>5, MovesOK DEF StorageFails
<1>6. CASE FastBootstrapped(c)
  BY <1>1, <1>6, MovesOK DEF FastBootstrapped
<1>7. CASE Bootstrapped(c)
  BY <1>1, <1>7, MovesOK DEF Bootstrapped
<1>8. CASE BootstrapFails(c)
  BY <1>1, <1>8, MovesOK DEF BootstrapFails
<1>9. QED
  BY <1>2, <1>2a, <1>3, <1>4, <1>5, <1>6, <1>7, <1>8 DEF Starting

\* What close() does to the variables it assigns.
LEMMA ClosingOK ==
  ASSUME LifeInv, NEW c \in Clients, boot[c] # "new", Closing(c)
  PROVE  /\ filter' \in Levels /\ FilterLow'
         /\ listeners' \subseteq Clients /\ level' \in [Clients -> Levels]
         /\ closed' \in [Clients -> BOOLEAN] /\ late' \subseteq Clients
         /\ provider' \in [Clients -> {"none", "open", "closed"}]
         /\ UNCHANGED boot => Owned'
<1>1. Least(Levels) \in Levels
  BY LeastIs, LifecycleAssumption
<1>2. SetFilter(listeners \ {c}, [level EXCEPT ![c] = Least(Levels)])
      /\ listeners \ {c} \in SUBSET Clients
      /\ [level EXCEPT ![c] = Least(Levels)] \in [Clients -> Levels]
  BY <1>1 DEF Closing, LifeInv, LifeTypeOK
<1>3. filter' \in Levels /\ FilterLow'
  BY <1>2, SetFilterOK DEF LifeInv
<1>4. /\ listeners' \subseteq Clients /\ level' \in [Clients -> Levels]
      /\ closed' \in [Clients -> BOOLEAN] /\ late' \subseteq Clients
      /\ provider' \in [Clients -> {"none", "open", "closed"}]
  BY <1>2 DEF Closing, SetFilter, LifeInv, LifeTypeOK
<1>5. UNCHANGED boot => Owned'
  BY <1>2 DEF Closing, SetFilter, LifeInv, LifeTypeOK, Owned
<1>6. QED
  BY <1>3, <1>4, <1>5

LEMMA InnerOK ==
  ASSUME LifeInv, NEW c \in Clients, ClosesInner(c) \/ Unlocks(c) PROVE LifeInv'
<1>1. LifeTypeOK'
  BY DEF ClosesInner, Unlocks, LifeInv, LifeTypeOK, logVars, callVars
<1>2. FilterLow' /\ Owned' /\ NobodyForgotten'
  BY FilterFrame, OwnedFrame, ForgottenFrame DEF ClosesInner, Unlocks, LifeInv, logVars
<1>3. QED
  BY <1>1, <1>2 DEF LifeInv

-----------------------------------------------------------------------------
(* ClientLifecycle: ready() and fetch()                                    *)

\* A step of the callers touches none of what a client owns.
LEMMA CallersOK ==
  ASSUME LifeInv, UNCHANGED <<realm, wasm, logVars, ownVars>>, LifeTypeOK', NobodyForgotten'
  PROVE  LifeInv'
BY FilterFrame, OwnedFrame DEF LifeInv, ownVars, logVars

\* readyPromise is made if it is not there, and never cleared by it.
LEMMA JoinsOK ==
  ASSUME LifeTypeOK, NEW c \in Clients, JoinReady(c)
  PROVE  /\ ready' \in [Clients -> {"none", "client", "events"}]
         /\ ready'[c] # "none" /\ \A d \in Clients : ready[d] # "none" => ready'[d] # "none"
BY DEF LifeTypeOK, JoinReady

LEMMA HasClientOK == ASSUME LifeInv, NEW k \in Calls, HasClient(k) PROVE LifeInv'
<1> DEFINE c == call[k].on
<1>1. c \in Clients /\ UNCHANGED <<realm, wasm, logVars, ownVars, usable, worker>>
  BY DEF HasClient, CallStep, LifeInv, LifeTypeOK
<1>2. CASE At(k, "waiting") /\ JoinReady(c)
  <2>1. /\ ready' \in [Clients -> {"none", "client", "events"}]
        /\ ready'[c] # "none" /\ \A d \in Clients : ready[d] # "none" => ready'[d] # "none"
    BY <1>1, <1>2, JoinsOK DEF LifeInv
  <2>2. LifeTypeOK'
    BY <1>1, <1>2, <2>1 DEF At, LifeInv, LifeTypeOK, logVars, ownVars
  <2>3. NobodyForgotten'
    BY <1>1, <1>2, <2>1 DEF At, LifeInv, LifeTypeOK, NobodyForgotten
  <2>4. QED
    BY <1>1, <2>2, <2>3, CallersOK
<1>3. CASE Over(k) /\ UNCHANGED ready
  <2>1. LifeTypeOK'
    BY <1>1, <1>3 DEF Over, NoCall, LifeInv, LifeTypeOK, logVars, ownVars
  <2>2. NobodyForgotten'
    BY <1>1, <1>3 DEF Over, NoCall, LifeInv, LifeTypeOK, NobodyForgotten
  <2>3. QED
    BY <1>1, <2>1, <2>2, CallersOK
<1>4. QED
  BY <1>2, <1>3 DEF HasClient

LEMMA SettleOK ==
  ASSUME LifeInv, NEW c \in Clients, NEW ok \in BOOLEAN, Settle(c, ok) PROVE LifeInv'
<1>1. LifeTypeOK'
  BY DEF Settle, Waits, NoCall, LifeInv, LifeTypeOK, logVars, ownVars
<1>2. worker' # "waiting"
  BY DEF Settle
<1>3. ASSUME NEW k \in Calls, call'[k].at = "waiting" PROVE ready'[call'[k].on] # "none"
  <2>1. call'[k] = call[k] /\ ~Waits(k, c)
    BY <1>3 DEF Settle, NoCall, LifeInv, LifeTypeOK
  <2>2. call[k].on # c /\ call[k].on \in Clients /\ ready[call[k].on] # "none"
    BY <1>3, <2>1 DEF Waits, LifeInv, LifeTypeOK, NobodyForgotten
  <2>3. QED
    BY <2>1, <2>2 DEF Settle, LifeInv, LifeTypeOK
<1>4. QED
  BY <1>1, <1>2, <1>3, CallersOK DEF Settle, NobodyForgotten

LEMMA ReadyOK ==
  ASSUME LifeInv, NEW c \in Clients, ReadyAsks(c) \/ ReadyEvent(c) \/ EventsEnd(c)
  PROVE  LifeInv'
<1>1. CASE Settle(c, inner[c]) \/ Settle(c, TRUE) \/ Settle(c, FALSE)
  BY <1>1, SettleOK DEF LifeInv, LifeTypeOK
<1>2. CASE ready' = [ready EXCEPT ![c] = "events"] /\ UNCHANGED call /\ CallStep
  <2>1. LifeTypeOK'
    BY <1>2 DEF CallStep, LifeInv, LifeTypeOK, logVars, ownVars
  <2>2. NobodyForgotten'
    BY <1>2 DEF CallStep, LifeInv, LifeTypeOK, NobodyForgotten
  <2>3. QED
    BY <1>2, <2>1, <2>2, CallersOK DEF CallStep
<1>3. QED
  BY <1>1, <1>2 DEF ReadyAsks, ReadyEvent, EventsEnd

LEMMA FetchOK ==
  ASSUME LifeInv, NEW k \in Calls, FetchStarts(k) \/ FetchEnds(k) PROVE LifeInv'
<1>1. /\ At(k, "fetching") \/ Over(k)
      /\ UNCHANGED ready /\ CallStep /\ call[k].at # "idle"
  BY DEF FetchStarts, FetchEnds
<1>2. LifeTypeOK'
  BY <1>1 DEF At, Over, NoCall, CallStep, LifeInv, LifeTypeOK, logVars, ownVars
<1>3. NobodyForgotten'
  BY <1>1 DEF At, Over, NoCall, CallStep, LifeInv, LifeTypeOK, NobodyForgotten
<1>4. QED
  BY <1>1, <1>2, <1>3, CallersOK DEF CallStep

LEMMA StatusOK == ASSUME LifeInv, NEW c \in Clients, StatusChanges(c) PROVE LifeInv'
<1>1. LifeTypeOK'
  BY DEF StatusChanges, LifeInv, LifeTypeOK, logVars, ownVars, callVars
<1>2. NobodyForgotten'
  BY ForgottenFrame DEF StatusChanges, LifeInv
<1>3. QED
  BY <1>1, <1>2, CallersOK DEF StatusChanges

\* Who begins is not yet waiting, or waits for a promise made in this step.
LEMMA BeginsOK ==
  ASSUME LifeInv, NEW k \in Calls, NEW c \in Clients, NEW what \in {"ready", "fetch"},
         Begins(k, c, what), UNCHANGED <<realm, wasm, logVars, ownVars, usable, worker>>
  PROVE  LifeInv'
<1>1. call' = [call EXCEPT ![k] = [kind |-> what, on |-> c,
                                   at |-> IF what = "fetch" THEN "client" ELSE "waiting"]]
  BY DEF Begins
<1>2. /\ ready' \in [Clients -> {"none", "client", "events"}]
      /\ what = "ready" => ready'[c] # "none"
      /\ \A d \in Clients : ready[d] # "none" => ready'[d] # "none"
  BY JoinsOK DEF Begins, LifeInv, LifeTypeOK
<1>3. LifeTypeOK'
  BY <1>1, <1>2 DEF LifeInv, LifeTypeOK, logVars, ownVars
<1>4. NobodyForgotten'
  BY <1>1, <1>2 DEF LifeInv, LifeTypeOK, NobodyForgotten
<1>5. QED
  BY <1>3, <1>4, CallersOK

-----------------------------------------------------------------------------
(* ClientLifecycle: a page, and the worker                                 *)

LEMMA ConstructOK ==
  ASSUME LifeInv, NEW c \in Clients, Construct(c),
         UNCHANGED <<realm, logVars, closed, provider, fast, inner, lock, late, callVars, usable>>,
         worker' \in {worker, "retrying"}
  PROVE  LifeInv'
<1>1. LifeTypeOK'
  BY DEF Construct, LifeInv, LifeTypeOK, logVars, callVars
<1>2. Owned'
  BY DEF Construct, LifeInv, LifeTypeOK, Owned, logVars
<1>3. FilterLow' /\ NobodyForgotten'
  BY FilterFrame, ForgottenFrame DEF LifeInv
<1>4. QED
  BY <1>1, <1>2, <1>3 DEF LifeInv

LEMMA ClosesOK ==
  ASSUME LifeInv, NEW c \in Clients, boot[c] # "new", Closing(c),
         UNCHANGED <<realm, wasm, boot, fast, inner, lock, callVars, usable>>,
         worker' \in {worker, "ended"}
  PROVE  LifeInv'
<1>1. LifeTypeOK'
  BY ClosingOK DEF LifeInv, LifeTypeOK, callVars
<1>2. FilterLow' /\ Owned' /\ NobodyForgotten'
  BY ClosingOK, ForgottenFrame DEF LifeInv
<1>3. QED
  BY <1>1, <1>2 DEF LifeInv

LEMMA ConfigureOK ==
  ASSUME LifeInv, NEW c \in Clients, NEW d \in Clients, Configure(c, d) PROVE LifeInv'
<1>1. /\ boot[c] # "new" /\ boot[d] = "new" /\ c # d /\ Closing(c)
      /\ boot' = [boot EXCEPT ![d] = "wasm"] /\ wasm' \in {wasm, "loading"}
      /\ UNCHANGED <<realm, worker, usable, fast, inner, lock, callVars>>
  BY DEF Configure, Page, Construct
<1>2. LifeTypeOK'
  BY <1>1, ClosingOK DEF LifeInv, LifeTypeOK, callVars
<1>3. Owned'
  BY <1>1 DEF Closing, SetFilter, LifeInv, LifeTypeOK, Owned
<1>4. FilterLow' /\ NobodyForgotten'
  BY <1>1, ClosingOK, ForgottenFrame DEF LifeInv
<1>5. QED
  BY <1>2, <1>3, <1>4 DEF LifeInv

LEMMA PageOK == ASSUME LifeInv, PageStep PROVE LifeInv'
<1>1. PICK c \in Clients :
        \/ NewClient(c) \/ CloseClient(c)
        \/ \E d \in Clients : Configure(c, d)
        \/ \E k \in Calls : PageCalls(k, c)
  BY DEF PageStep
<1>2. CASE NewClient(c)
  BY <1>2, ConstructOK DEF NewClient, Page
<1>3. CASE CloseClient(c)
  BY <1>3, ClosesOK DEF CloseClient, Page
<1>4. CASE \E d \in Clients : Configure(c, d)
  BY <1>4, ConfigureOK
<1>5. CASE \E k \in Calls : PageCalls(k, c)
  BY <1>5, BeginsOK DEF PageCalls, Page, ownVars
<1>6. QED
  BY <1>1, <1>2, <1>3, <1>4, <1>5

LEMMA RetriesOK == ASSUME LifeInv, NEW c \in Clients, WorkerRetries(c) PROVE LifeInv'
<1>1. /\ ready' \in [Clients -> {"none", "client", "events"}]
      /\ ready'[c] # "none" /\ \A d \in Clients : ready[d] # "none" => ready'[d] # "none"
  BY JoinsOK DEF WorkerRetries, LifeInv
<1>2. LifeTypeOK'
  BY <1>1 DEF WorkerRetries, WorkerStep, LifeInv, LifeTypeOK, logVars
<1>3. NobodyForgotten'
  BY <1>1 DEF WorkerRetries, LifeInv, LifeTypeOK, NobodyForgotten
<1>4. QED
  BY <1>2, <1>3, CallersOK DEF WorkerRetries, WorkerStep, ownVars

LEMMA WorkerMovesOK == ASSUME LifeInv, WorkerFails \/ WorkerWakes PROVE LifeInv'
<1>1. LifeTypeOK'
  BY DEF WorkerFails, WorkerWakes, WorkerStep, LifeInv, LifeTypeOK, logVars, callVars
<1>2. NobodyForgotten'
  BY ForgottenFrame DEF WorkerFails, WorkerWakes, LifeInv
<1>3. QED
  BY <1>1, <1>2, CallersOK DEF WorkerFails, WorkerWakes, WorkerStep, ownVars

LEMMA WorkerOK ==
  ASSUME LifeInv, NEW c \in Clients,
         Trying(c) \/ WorkerEnds(c) \/ \E k \in Calls : WorkerAccepts(k, c)
  PROVE  LifeInv'
<1>1. CASE WorkerStarts(c)
  BY <1>1, ConstructOK DEF WorkerStarts, WorkerStep
<1>2. CASE WorkerRetries(c)
  BY <1>2, RetriesOK
<1>3. CASE WorkerEnds(c)
  BY <1>3, ClosesOK DEF WorkerEnds, WorkerStep
<1>4. CASE \E k \in Calls : WorkerAccepts(k, c)
  BY <1>4, BeginsOK DEF WorkerAccepts, WorkerStep, ownVars
<1>5. QED
  BY <1>1, <1>2, <1>3, <1>4 DEF Trying

-----------------------------------------------------------------------------
(* ClientLifecycle: the theorems                                           *)

LEMMA LifeStutter == ASSUME LifeInv, UNCHANGED lifeVars PROVE LifeInv'
<1>1. LifeTypeOK'
  BY DEF LifeInv, LifeTypeOK, lifeVars, logVars, ownVars, callVars
<1>2. NobodyForgotten'
  BY ForgottenFrame DEF LifeInv, lifeVars
<1>3. QED
  BY <1>1, <1>2, CallersOK DEF lifeVars

LEMMA LifeStep == LifeInv /\ [LifeNext]_lifeVars => LifeInv'
<1> SUFFICES ASSUME LifeInv, [LifeNext]_lifeVars PROVE LifeInv'
  OBVIOUS
<1>1. CASE UNCHANGED lifeVars
  BY <1>1, LifeStutter
<1>2. CASE WasmLoads \/ WasmFails \/ PageStep \/ WorkerFails \/ WorkerWakes
  BY <1>2, WasmLoadsOK, WasmFailsOK, PageOK, WorkerMovesOK
<1>3. ASSUME NEW c \in Clients,
             \/ Starting(c) \/ ClosesInner(c) \/ Unlocks(c) \/ ReadyAsks(c) \/ ReadyEvent(c)
             \/ EventsEnd(c) \/ StatusChanges(c)
      PROVE  LifeInv'
  BY <1>3, StartingOK, InnerOK, ReadyOK, StatusOK
<1>4. ASSUME NEW c \in Clients,
             \/ Trying(c) \/ WorkerEnds(c)
             \/ \E l \in Levels : SetLogLevel(c, l)
             \/ \E k \in Calls : WorkerAccepts(k, c)
      PROVE  LifeInv'
  BY <1>4, WorkerOK, SetLogLevelOK
<1>5. CASE \E k \in Calls : Answering(k)
  BY <1>5, HasClientOK, FetchOK DEF Answering
<1>6. QED
  BY <1>1, <1>2, <1>3, <1>4, <1>5 DEF LifeNext

LEMMA LifeAlways == LifeSpec => []LifeInv
  BY LifeStart, LifeStep, PTL DEF LifeSpec

\* Every variable of the clients, their users and the WASM module keeps its
\* type; a caller that is answered is on a client.
THEOREM LifeTypesHold == LifeSpec => []LifeTypeOK
<1>1. LifeInv => LifeTypeOK
  BY DEF LifeInv
<1>2. QED
  BY <1>1, LifeAlways, PTL

\* For any number of clients and levels, each listener gets the events it
\* asked for, whatever the others do to the one filter (wasm.ts:30-69).
THEOREM ListenersGetTheirs == LifeSpec => []ListenersHeard
<1>1. LifeInv => ListenersHeard
  <2> SUFFICES ASSUME LifeInv, NEW c \in listeners, NEW l \in Levels, l >= level[c]
               PROVE  c \in Hears(l)
    BY DEF ListenersHeard
  <2>1. filter \in Nat /\ l \in Nat /\ level[c] \in Nat /\ filter <= level[c]
    BY LifecycleAssumption DEF LifeInv, LifeTypeOK, FilterLow
  <2>2. ~(l < filter) /\ level[c] <= l
    BY <2>1
  <2>3. QED
    BY <2>2 DEF Hears
<1>2. QED
  BY <1>1, LifeAlways, PTL

\* No step of bootstrap() brings back what close() let go of, but for clients
\* closed during the load of the WASM module (TorClient.ts:53-93, 154-161).
THEOREM CloseLetsGo == LifeSpec => []LetsGo
<1>1. LifeInv => LetsGo
  BY DEF LifeInv, Owned, LetsGo
<1>2. QED
  BY <1>1, LifeAlways, PTL

\* Nobody waits for a readyPromise that was cleared (TorClient.ts:118-138).
THEOREM WaitersRemembered == LifeSpec => []NobodyForgotten
<1>1. LifeInv => NobodyForgotten
  BY DEF LifeInv
<1>2. QED
  BY <1>1, LifeAlways, PTL
=============================================================================
