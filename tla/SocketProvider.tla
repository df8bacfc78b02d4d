--------------------------- MODULE SocketProvider ---------------------------
(***************************************************************************)
(* Gateway selection (src/socketProvider.ts): which gateways an operation  *)
(* tries and in which order, the load and failure bookkeeping the order is *)
(* computed from, and failover.                                            *)
(*                                                                         *)
(* Time is relative: `cool` is how long a gateway still has to cool off    *)
(* (notBefore - now, 0 once it is ready), so no clock has to be bounded.   *)
(* One attempt on a gateway (KpsGateway, see there) succeeds or fails, at  *)
(* any time; close() makes attempts fail and tunnels end, so it adds       *)
(* nothing to what can happen here.                                        *)
(***************************************************************************)
EXTENDS Integers, Sequences, FiniteSets, SequencesExt

CONSTANTS Gateways,
          Order,         \* the gateways in the order the constructor shuffled
          Ops,           \* callers, one operation at a time each
          HasDirect,     \* strategies: "direct" before "kps", or "kps" only
          CooldownBase, CooldownMax,
          FailureCap     \* bound of the model, see FailureCapAssumption

ASSUME ProviderAssumption ==
  /\ IsFiniteSet(Gateways) /\ Gateways # {} /\ IsFiniteSet(Ops)
  /\ Order \in [1..Cardinality(Gateways) -> Gateways]
  /\ ToSet(Order) = Gateways
  /\ HasDirect \in BOOLEAN
  /\ CooldownBase \in Nat \ {0} /\ CooldownMax \in Nat /\ CooldownMax >= CooldownBase

\* `failures` only matters through the cooldown, which stops growing here.
ASSUME FailureCapAssumption ==
  FailureCap \in Nat \ {0} /\ CooldownBase * 2 ^ (FailureCap - 1) >= CooldownMax

Preferred == 2   \* PREFERRED_GATEWAYS

VARIABLES inFlight, failures, cool,   \* GatewayState, per gateway
          kind,      \* "fetch" during a gatewayFetch(), else "connect"
          stage,     \* idle, direct, trying, tunnel (direct ones: "socket")
          plan,      \* candidates not tried yet; the first is being tried
          at,        \* the gateway that carries the caller's tunnel
          tried      \* history: gateways the current operation has tried

stateVars == <<inFlight, failures, cool>>
vars == <<stateVars, kind, stage, plan, at, tried>>

Init ==
  /\ inFlight = [g \in Gateways |-> 0]
  /\ failures = [g \in Gateways |-> 0]
  /\ cool = [g \in Gateways |-> 0]
  /\ kind = [o \in Ops |-> "connect"]
  /\ stage = [o \in Ops |-> "idle"]
  /\ plan = [o \in Ops |-> <<>>]
  /\ at = [o \in Ops |-> Order[1]]
  /\ tried = [o \in Ops |-> {}]

-----------------------------------------------------------------------------
(* #candidates                                                             *)

Ready(g) == cool[g] = 0
Position(g) == CHOOSE i \in DOMAIN Order : Order[i] = g

Precedes(g, h, key) ==
  key[g] < key[h] \/ (key[g] = key[h] /\ Position(g) < Position(h))

\* Array.sort is stable: equal keys keep the order of the shuffle.
StableSort(S, key) ==
  CHOOSE s \in [1..Cardinality(S) -> S] :
    \A i, j \in 1..Cardinality(S) : i < j => Precedes(s[i], s[j], key)

\* Array.filter keeps the order of the shuffle.
Filtered(S) == StableSort(S, [g \in Gateways |-> 0])

Candidates ==
  LET ready == Filtered({g \in Gateways : Ready(g)})
      head == SubSeq(ready, 1, IF Len(ready) < Preferred THEN Len(ready) ELSE Preferred)
      rest == SubSeq(ready, Preferred + 1, Len(ready))
  IN StableSort(ToSet(head), inFlight) \o rest
     \o StableSort(Gateways \ ToSet(ready), cool)

-----------------------------------------------------------------------------
(* Attempts                                                                *)

\* A tunnel counts against its gateway from the attempt on; a GET does not.
Load(what) == IF what = "connect" THEN 1 ELSE 0

Take(what, g) == [inFlight EXCEPT ![g] = @ + Load(what)]
Drop(what, g) == [inFlight EXCEPT ![g] = @ - Load(what)]

\* The first candidate is tried in the step that computes the list.
Engage(o, what) ==
  /\ plan' = [plan EXCEPT ![o] = Candidates]
  /\ inFlight' = Take(what, Candidates[1])
  /\ tried' = [tried EXCEPT ![o] = {Candidates[1]}]
  /\ stage' = [stage EXCEPT ![o] = "trying"]
  /\ kind' = [kind EXCEPT ![o] = what]
  /\ UNCHANGED <<failures, cool, at>>

\* gatewayFetch(), or connect() with "kps" as the only strategy.
Begin(o) ==
  /\ stage[o] = "idle"
  /\ \E what \in {"fetch"} \cup IF HasDirect THEN {} ELSE {"connect"} :
       Engage(o, what)

BeginDirect(o) ==
  /\ stage[o] = "idle" /\ HasDirect
  /\ stage' = [stage EXCEPT ![o] = "direct"]
  /\ UNCHANGED <<stateVars, kind, plan, at, tried>>

DirectOpens(o) ==
  /\ stage[o] = "direct"
  /\ stage' = [stage EXCEPT ![o] = "socket"]
  /\ UNCHANGED <<stateVars, kind, plan, at, tried>>

DirectFails(o) == stage[o] = "direct" /\ Engage(o, "connect")

OnSuccess(g) ==
  /\ failures' = [failures EXCEPT ![g] = 0]
  /\ cool' = [cool EXCEPT ![g] = 0]

Smaller(a, b) == IF a < b THEN a ELSE b

\* min(max, base * 2^(n-1)), jittered to 50..100 percent and rounded.
OnFailure(g) ==
  LET n == Smaller(FailureCap, failures[g] + 1)
      exp == Smaller(CooldownMax, CooldownBase * 2 ^ (n - 1))
  IN /\ failures' = [failures EXCEPT ![g] = n]
     /\ \E d \in ((exp + 1) \div 2)..exp : cool' = [cool EXCEPT ![g] = d]

\* Any HTTP status of a GET counts as a success.
Succeeds(o) ==
  LET g == Head(plan[o])
  IN /\ stage[o] = "trying"
     /\ OnSuccess(g)
     /\ stage' = [stage EXCEPT ![o] = IF kind[o] = "connect" THEN "tunnel" ELSE "idle"]
     /\ kind' = [kind EXCEPT ![o] = "connect"]
     /\ at' = IF kind[o] = "connect" THEN [at EXCEPT ![o] = g] ELSE at
     /\ plan' = [plan EXCEPT ![o] = <<>>]
     /\ tried' = [tried EXCEPT ![o] = {}]
     /\ UNCHANGED inFlight

\* Mutated form of FailsOver: the order is computed anew for each attempt.
FailsOverResorted(o) ==
  LET g == Head(plan[o])
      left == SubSeq(Candidates, Len(Candidates) - Len(plan[o]) + 2, Len(Candidates))
  IN /\ stage[o] = "trying" /\ Len(plan[o]) > 1
     /\ OnFailure(g)
     /\ inFlight' = [Drop(kind[o], g) EXCEPT ![left[1]] = @ + Load(kind[o])]
     /\ plan' = [plan EXCEPT ![o] = left]
     /\ tried' = [tried EXCEPT ![o] = @ \cup {left[1]}]
     /\ UNCHANGED <<kind, stage, at>>

\* The loop goes on with the next of the candidates computed at the start.
FailsOver(o) ==
  LET g == Head(plan[o])
      next == plan[o][2]
  IN /\ stage[o] = "trying" /\ Len(plan[o]) > 1
     /\ OnFailure(g)
     /\ inFlight' = [Drop(kind[o], g) EXCEPT ![next] = @ + Load(kind[o])]
     /\ plan' = [plan EXCEPT ![o] = Tail(@)]
     /\ tried' = [tried EXCEPT ![o] = @ \cup {next}]
     /\ UNCHANGED <<kind, stage, at>>

\* "all gateways failed"
FailsForGood(o) ==
  LET g == Head(plan[o])
  IN /\ stage[o] = "trying" /\ Len(plan[o]) = 1
     /\ OnFailure(g)
     /\ inFlight' = Drop(kind[o], g)
     /\ plan' = [plan EXCEPT ![o] = <<>>]
     /\ stage' = [stage EXCEPT ![o] = "idle"]
     /\ kind' = [kind EXCEPT ![o] = "connect"]
     /\ tried' = [tried EXCEPT ![o] = {}]
     /\ UNCHANGED at

\* Mutated form of SocketCloses: the count is released for an attempt only.
SocketClosesCounted(o) ==
  /\ stage[o] = "tunnel"
  /\ stage' = [stage EXCEPT ![o] = "idle"]
  /\ UNCHANGED <<stateVars, kind, plan, at, tried>>

\* sock.closed settled.
SocketCloses(o) ==
  /\ stage[o] = "tunnel"
  /\ inFlight' = Drop(kind[o], at[o])
  /\ stage' = [stage EXCEPT ![o] = "idle"]
  /\ at' = [at EXCEPT ![o] = Order[1]]
  /\ UNCHANGED <<failures, cool, kind, plan, tried>>

DirectCloses(o) ==
  /\ stage[o] = "socket"
  /\ stage' = [stage EXCEPT ![o] = "idle"]
  /\ UNCHANGED <<stateVars, kind, plan, at, tried>>

Tick ==
  /\ \E g \in Gateways : cool[g] > 0
  /\ cool' = [g \in Gateways |-> IF cool[g] > 0 THEN cool[g] - 1 ELSE 0]
  /\ UNCHANGED <<inFlight, failures, kind, stage, plan, at, tried>>

-----------------------------------------------------------------------------
Attempt(o) == Succeeds(o) \/ FailsOver(o) \/ FailsForGood(o)

Next ==
  \/ Tick
  \/ \E o \in Ops : \/ Begin(o) \/ BeginDirect(o) \/ DirectOpens(o) \/ DirectFails(o)
                    \/ Attempt(o) \/ SocketCloses(o) \/ DirectCloses(o)

Spec == Init /\ [][Next]_vars

-----------------------------------------------------------------------------
(* Types: every variable keeps its type; a cooldown never exceeds the      *)
(* configured ceiling.                                                     *)
TypeOK ==
  /\ inFlight \in [Gateways -> 0..Cardinality(Ops)]
  /\ failures \in [Gateways -> 0..FailureCap]
  /\ cool \in [Gateways -> 0..CooldownMax]
  /\ kind \in [Ops -> {"connect", "fetch"}]
  /\ stage \in [Ops -> {"idle", "direct", "trying", "tunnel", "socket"}]
  /\ at \in [Ops -> Gateways] /\ tried \in [Ops -> SUBSET Gateways]
  /\ plan \in [Ops -> Seq(Gateways)]
  /\ \A o \in Ops : stage[o] = "trying" <=> plan[o] # <<>>

(* The load that decides between gateways is the real one: the tunnels a   *)
(* gateway carries and the attempts under way on it, through failovers,    *)
(* refusals and closes of any number of concurrent callers.                *)
InFlightExact ==
  \A g \in Gateways : inFlight[g] = Cardinality({o \in Ops :
    /\ kind[o] = "connect"
    /\ \/ stage[o] = "trying" /\ Head(plan[o]) = g
       \/ stage[o] = "tunnel" /\ at[o] = g})

(* The order of candidates, stated without sorting: every gateway once;    *)
(* the ready ones first; the pick is one of the first two ready gateways   *)
(* of the shuffle and no more loaded than the other; the rest keep the     *)
(* shuffle's order, the cooling ones follow soonest-ready first.           *)
CandidatesSound ==
  LET C == Candidates
      N == Cardinality(Gateways)
      ready == {g \in Gateways : Ready(g)}
      front == {g \in ready :
                  Cardinality({h \in ready : Position(h) < Position(g)}) < Preferred}
  IN /\ Len(C) = N /\ ToSet(C) = Gateways
     /\ \A i, j \in 1..N : i < j =>
          /\ C[j] \in ready => C[i] \in ready
          /\ C[j] \in front => C[i] \in front
          /\ {C[i], C[j]} \subseteq front => inFlight[C[i]] <= inFlight[C[j]]
          /\ {C[i], C[j]} \subseteq ready \ front => Position(C[i]) < Position(C[j])
          /\ {C[i], C[j]} \cap ready = {} => cool[C[i]] <= cool[C[j]]

(* Together: a new operation picks by loads that are exact, whatever other *)
(* operations are waiting, opening or closing (socketProvider.ts:268-287,  *)
(* 361-398).                                                               *)
SelectionSound == InFlightExact /\ CandidatesSound

(* An operation fails only after it has tried every gateway, and tries     *)
(* none of them twice.                                                     *)
FailsOnlyAfterAll ==
  \A o \in Ops : stage[o] = "trying" =>
    /\ tried[o] = (Gateways \ ToSet(plan[o])) \cup {Head(plan[o])}
    /\ Len(plan[o]) + Cardinality(tried[o]) = Cardinality(Gateways) + 1

=============================================================================
