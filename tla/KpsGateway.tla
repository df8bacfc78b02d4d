----------------------------- MODULE KpsGateway -----------------------------
(***************************************************************************)
(* The client's connection to one gateway (src/kpsGateway.ts): a KPS       *)
(* connection dialed lazily, shared by every call and dialed again after   *)
(* it dropped; GET exchanges and CONNECT tunnels, each on a stream of its  *)
(* own; a deadline per call; the teardowns that end the calls of a         *)
(* connection that died.                                                   *)
(*                                                                         *)
(* The code is single-threaded: an action is the work between two awaits.  *)
(* The KPS library is external and modelled as its comments describe it: a *)
(* connection may die without settling the streams on it, a dial, an       *)
(* openStream or a write may hang.                                         *)
(***************************************************************************)
EXTENDS Integers, FiniteSets

CONSTANTS Calls,     \* calls of fetch() and connect()
          Kind,      \* which of the two a call is
          MaxDials   \* bound of the model: dials ever started

ASSUME GatewayAssumption ==
  /\ IsFiniteSet(Calls) /\ Kind \in [Calls -> {"fetch", "connect"}]
  /\ MaxDials \in Nat

Dials == 1..MaxDials

VARIABLES closed,     \* #closed
          current,    \* the dial behind #connPromise, 0 for null
          dial,       \* unused, pending, up, failed, dead
          doomed,     \* dials whose connection close() wants closed
          teardowns,  \* #teardowns: the calls registered per connection
          stage,      \* where a call is
          on,         \* the dial a call awaits or uses, 0 before
          expired,    \* calls whose deadline has passed
          streams,    \* calls whose stream is open and was not closed by us
          cancelled,  \* calls whose reader a teardown cancelled
          head,       \* the response head received: "none", "200", "other"
          fin,        \* calls whose stream the gateway has ended with a FIN
          outcome     \* "none", "ok", "error", "write" (the request failed)

wireVars == <<head, fin>>
connVars == <<closed, current, dial, doomed>>
callVars == <<stage, on, expired, streams, cancelled, outcome>>
vars == <<connVars, teardowns, callVars, wireVars>>

Init ==
  /\ closed = FALSE /\ current = 0 /\ doomed = {}
  /\ dial = [i \in Dials |-> "unused"]
  /\ teardowns = [i \in Dials |-> {}]
  /\ stage = [c \in Calls |-> "idle"] /\ on = [c \in Calls |-> 0]
  /\ expired = {} /\ streams = {} /\ cancelled = {}
  /\ head = [c \in Calls |-> "none"] /\ fin = {}
  /\ outcome = [c \in Calls |-> "none"]

Goto(c, st) == stage' = [stage EXCEPT ![c] = st]

-----------------------------------------------------------------------------
(* #connection                                                             *)

StartRefused(c) ==
  /\ stage[c] = "idle" /\ closed
  /\ Goto(c, "over") /\ outcome' = [outcome EXCEPT ![c] = "error"]
  /\ UNCHANGED <<connVars, teardowns, on, expired, streams, cancelled, wireVars>>

\* #connPromise is assigned in the same step that found it null.
StartDials(c) ==
  /\ stage[c] = "idle" /\ ~closed /\ current = 0
  /\ \E i \in Dials :
       /\ dial[i] = "unused" /\ \A j \in 1..(i - 1) : dial[j] # "unused"
       /\ dial' = [dial EXCEPT ![i] = "pending"]
       /\ current' = i
       /\ on' = [on EXCEPT ![c] = i]
  /\ Goto(c, "dialing")
  /\ UNCHANGED <<closed, doomed, teardowns, expired, streams, cancelled, outcome, wireVars>>

StartShares(c) ==
  /\ stage[c] = "idle" /\ ~closed /\ current # 0
  /\ on' = [on EXCEPT ![c] = current]
  /\ Goto(c, "dialing")
  /\ UNCHANGED <<connVars, teardowns, expired, streams, cancelled, outcome, wireVars>>

Forget(i) == current' = IF current = i THEN 0 ELSE current

DialSucceeds(i) ==
  /\ dial[i] = "pending"
  /\ dial' = [dial EXCEPT ![i] = "up"]
  /\ teardowns' = [teardowns EXCEPT ![i] = {}]
  /\ UNCHANGED <<closed, current, doomed, callVars, wireVars>>

\* Mutated form of DialFails: the rejected promise stays cached.
DialFailsCached(i) ==
  /\ dial[i] = "pending"
  /\ dial' = [dial EXCEPT ![i] = "failed"]
  /\ UNCHANGED <<closed, current, doomed, teardowns, callVars, wireVars>>

DialFails(i) ==
  /\ dial[i] = "pending"
  /\ dial' = [dial EXCEPT ![i] = "failed"]
  /\ Forget(i)
  /\ UNCHANGED <<closed, doomed, teardowns, callVars, wireVars>>

\* onClosed: forget the connection, run and drop its teardowns.  A teardown
\* cancels the reader, which ends a pending read, and closes the stream.
OnClosed(i) ==
  /\ dial' = [dial EXCEPT ![i] = "dead"]
  /\ Forget(i)
  /\ cancelled' = cancelled \cup teardowns[i]
  /\ streams' = streams \ teardowns[i]
  /\ teardowns' = [teardowns EXCEPT ![i] = {}]
  /\ UNCHANGED <<closed, doomed, stage, on, expired, outcome, wireVars>>

ConnectionDies(i) == dial[i] = "up" /\ OnClosed(i)

\* close(): the connection is closed once its dial lands.
Close ==
  /\ ~closed
  /\ closed' = TRUE /\ current' = 0
  /\ doomed' = doomed \cup ({current} \ {0})
  /\ UNCHANGED <<dial, teardowns, callVars, wireVars>>

CloseLands(i) == dial[i] = "up" /\ i \in doomed /\ OnClosed(i)

-----------------------------------------------------------------------------
(* Steps common to fetch and connect.                                      *)

Registered(c) == \E i \in Dials : c \in teardowns[i]

\* Mutated form of Ends: the finally block does not close the stream.
EndsOpen(c, why) ==
  /\ Goto(c, "over") /\ outcome' = [outcome EXCEPT ![c] = why]
  /\ teardowns' = [i \in Dials |-> teardowns[i] \ {c}]
  /\ UNCHANGED streams

\* How a call ends.  fetch: `finally` removes the teardown and closes the
\* stream.  connect: its error paths close the stream.
Ends(c, why) ==
  /\ Goto(c, "over") /\ outcome' = [outcome EXCEPT ![c] = why]
  /\ streams' = streams \ {c}
  /\ teardowns' = [i \in Dials |-> teardowns[i] \ {c}]

\* #addTeardown, for a stream that is open; on a connection that is already
\* closed the teardown runs as the next microtask.
AddTeardown(c) ==
  IF dial[on[c]] = "up"
  THEN /\ teardowns' = [teardowns EXCEPT ![on[c]] = @ \cup {c}]
       /\ streams' = streams \cup {c}
       /\ UNCHANGED cancelled
  ELSE /\ streams' = streams \ {c}
       /\ cancelled' = cancelled \cup {c}
       /\ UNCHANGED teardowns

DialRejects(c) ==
  /\ stage[c] = "dialing" /\ dial[on[c]] = "failed"
  /\ Ends(c, "error")
  /\ UNCHANGED <<connVars, on, expired, cancelled, wireVars>>

Connected(c) ==
  /\ stage[c] = "dialing" /\ dial[on[c]] \in {"up", "dead"}
  /\ Goto(c, "opening")
  /\ UNCHANGED <<connVars, teardowns, on, expired, streams, cancelled, outcome, wireVars>>

\* fetch registers its teardown at once, connect only for a tunnel.
StreamOpens(c) ==
  /\ stage[c] = "opening" /\ dial[on[c]] \in {"up", "dead"}
  /\ Goto(c, "writing")
  /\ IF Kind[c] = "fetch" THEN AddTeardown(c)
     ELSE streams' = streams \cup {c} /\ UNCHANGED <<teardowns, cancelled>>
  /\ UNCHANGED <<connVars, on, expired, outcome, wireVars>>

OpenFails(c) ==
  /\ stage[c] = "opening"
  /\ Ends(c, "error")
  /\ UNCHANGED <<connVars, on, expired, cancelled, wireVars>>

\* The request is written.  Nothing races the write (`await writer.write`,
\* and `writer.close` of a fetch), so it settles when the stream has room or
\* breaks, if it ever does; abortRace then rejects at once if the deadline
\* has passed meanwhile.
Written(c) ==
  /\ stage[c] = "writing" /\ c \notin expired
  /\ Goto(c, "head")
  /\ UNCHANGED <<connVars, teardowns, on, expired, streams, cancelled, outcome, wireVars>>

WrittenTooLate(c) ==
  /\ stage[c] = "writing" /\ c \in expired
  /\ Ends(c, "error")
  /\ UNCHANGED <<connVars, on, expired, cancelled, wireVars>>

\* The write comes before connect's try: nothing closes its stream.
WriteFails(c) ==
  /\ stage[c] = "writing"
  /\ IF Kind[c] = "fetch" THEN Ends(c, "write")
     ELSE /\ Goto(c, "over") /\ outcome' = [outcome EXCEPT ![c] = "write"]
          /\ UNCHANGED <<streams, teardowns>>
  /\ UNCHANGED <<connVars, on, expired, cancelled, wireVars>>

\* Mutated form of Expires: openStream is called without the signal.
ExpiresUnbounded(c) ==
  /\ stage[c] \in {"dialing", "writing", "head"} /\ c \notin expired
  /\ expired' = expired \cup {c}
  /\ IF stage[c] = "writing" THEN UNCHANGED <<stage, outcome, streams, teardowns>>
     ELSE Ends(c, "error")
  /\ UNCHANGED <<connVars, on, cancelled, wireVars>>

\* The deadline: it ends a wait for the dial, the stream or the head, and is
\* only remembered during the write.
Expires(c) ==
  /\ stage[c] \in {"dialing", "opening", "writing", "head"} /\ c \notin expired
  /\ expired' = expired \cup {c}
  /\ IF stage[c] = "writing" THEN UNCHANGED <<stage, outcome, streams, teardowns>>
     ELSE Ends(c, "error")
  /\ UNCHANGED <<connVars, on, cancelled, wireVars>>

-----------------------------------------------------------------------------
(* The gateway's side of a stream.                                         *)
Answerable(c) == c \in streams /\ dial[on[c]] = "up"

GatewayAnswers(c) ==
  /\ Answerable(c) /\ stage[c] = "head" /\ c \notin fin /\ head[c] = "none"
  /\ \E status \in {"200", "other"} : head' = [head EXCEPT ![c] = status]
  /\ UNCHANGED <<connVars, teardowns, callVars, fin>>

GatewayFins(c) ==
  /\ Answerable(c) /\ stage[c] \in {"head", "body", "diag", "tunnel"}
  /\ c \notin fin
  /\ fin' = fin \cup {c}
  /\ UNCHANGED <<connVars, teardowns, callVars, head>>

-----------------------------------------------------------------------------
(* The response.                                                           *)

\* The pending read is over: the gateway's FIN, or the cancelled reader,
\* which resolves a pending read as done.
ReadDone(c) == c \in fin \/ c \in cancelled

\* Mutated form of HeadRead: the teardown of a tunnel is not registered.
HeadReadUnregistered(c) ==
  /\ stage[c] = "head" /\ head[c] # "none" /\ c \notin cancelled
  /\ Goto(c, IF Kind[c] = "fetch" THEN "body"
             ELSE IF head[c] = "200" THEN "tunnel" ELSE "diag")
  /\ UNCHANGED <<connVars, teardowns, on, expired, streams, cancelled, outcome, wireVars>>

\* 200 to CONNECT: the stream becomes the tunnel, with a teardown.
HeadRead(c) ==
  /\ stage[c] = "head" /\ head[c] # "none" /\ c \notin cancelled
  /\ Goto(c, IF Kind[c] = "fetch" THEN "body"
             ELSE IF head[c] = "200" THEN "tunnel" ELSE "diag")
  /\ IF Kind[c] = "connect" /\ head[c] = "200" THEN AddTeardown(c)
     ELSE UNCHANGED <<streams, teardowns, cancelled>>
  /\ UNCHANGED <<connVars, on, expired, outcome, wireVars>>

HeadEnds(c) ==
  /\ stage[c] = "head" /\ ReadDone(c) /\ (head[c] = "none" \/ c \in cancelled)
  /\ Ends(c, "error")
  /\ UNCHANGED <<connVars, on, expired, cancelled, wireVars>>

BodyEnds(c) ==
  /\ stage[c] = "body" /\ ReadDone(c)
  /\ Ends(c, "ok")
  /\ UNCHANGED <<connVars, on, expired, cancelled, wireVars>>

DiagEnds(c) ==
  /\ stage[c] = "diag" /\ ReadDone(c)
  /\ Ends(c, "error")
  /\ UNCHANGED <<connVars, on, expired, cancelled, wireVars>>

\* The stream broke and its reads reject: a reset, or a connection loss that
\* the KPS client does report on the stream.
ReadFails(c) ==
  /\ stage[c] \in {"head", "body", "diag"}
  /\ Ends(c, "error")
  /\ UNCHANGED <<connVars, on, expired, cancelled, wireVars>>

\* stream.closed settled: the consumer closed the socket, the stream broke,
\* or a teardown closed it.
TunnelBreaks(c) ==
  /\ stage[c] = "tunnel"
  /\ Ends(c, "ok")
  /\ UNCHANGED <<connVars, on, expired, cancelled, wireVars>>

TunnelClosed(c) == c \notin streams /\ TunnelBreaks(c)

-----------------------------------------------------------------------------
Start(c) == StartRefused(c) \/ StartDials(c) \/ StartShares(c)

\* The write of the request settles, which is up to the network.
WriteSettles(c) == Written(c) \/ WrittenTooLate(c) \/ WriteFails(c)

\* What the event loop runs once it is due.
Proceed(c) ==
  \/ DialRejects(c) \/ Connected(c)
  \/ HeadRead(c) \/ HeadEnds(c) \/ BodyEnds(c) \/ DiagEnds(c) \/ TunnelClosed(c)

Next ==
  \/ Close
  \/ \E i \in Dials : DialSucceeds(i) \/ DialFails(i) \/ ConnectionDies(i)
                      \/ CloseLands(i)
  \/ \E c \in Calls : \/ Start(c) \/ Proceed(c) \/ Expires(c)
                      \/ StreamOpens(c) \/ OpenFails(c) \/ WriteSettles(c)
                      \/ GatewayAnswers(c) \/ GatewayFins(c)
                      \/ ReadFails(c) \/ TunnelBreaks(c)

Spec == Init /\ [][Next]_vars

(* Fair: continuations that are due, the timer of a call (the provider     *)
(* gives every call one), and the close of a connection that is up.  Not   *)
(* fair: the network, that is a dial, an openStream, the write of the      *)
(* request, an answer or a FIN.                                            *)
Fairness ==
  /\ \A c \in Calls : WF_vars(Proceed(c)) /\ WF_vars(Expires(c))
  /\ \A i \in Dials : WF_vars(CloseLands(i))

FairSpec == Spec /\ Fairness

-----------------------------------------------------------------------------
(* Types: every variable keeps its type, and a call that is under way has  *)
(* a dial to wait for or to use.                                           *)
TypeOK ==
  /\ closed \in BOOLEAN /\ current \in 0..MaxDials
  /\ dial \in [Dials -> {"unused", "pending", "up", "failed", "dead"}]
  /\ doomed \subseteq Dials
  /\ teardowns \in [Dials -> SUBSET Calls]
  /\ stage \in [Calls -> {"idle", "dialing", "opening", "writing", "head",
                          "body", "diag", "tunnel", "over"}]
  /\ on \in [Calls -> 0..MaxDials]
  /\ \A c \in Calls : stage[c] \notin {"idle", "over"} => on[c] \in Dials
  /\ expired \subseteq Calls /\ streams \subseteq Calls
  /\ cancelled \subseteq Calls /\ fin \subseteq Calls
  /\ head \in [Calls -> {"none", "200", "other"}]
  /\ outcome \in [Calls -> {"none", "ok", "error", "write"}]

(* All calls share one dial: a dial that is pending or a connection that   *)
(* is up is the one #connPromise holds, unless close() has doomed it, and  *)
(* #connPromise never holds a dial that failed or a connection that died.  *)
OneSharedDial ==
  {i \in Dials : dial[i] \in {"pending", "up"}} \ doomed = {current} \ {0}

(* A teardown is registered exactly for the fetches in progress and the    *)
(* open tunnels of a connection that is up: none is missing when the       *)
(* connection dies, and none outlives its call or its connection.          *)
TeardownsExact ==
  \A i \in Dials : teardowns[i] =
    IF dial[i] # "up" THEN {} ELSE
    {c \in Calls : /\ on[c] = i
                   /\ stage[c] \in IF Kind[c] = "fetch"
                                   THEN {"writing", "head", "body"}
                                   ELSE {"tunnel"}}

(* A call that is over has closed its stream.  The exception is a connect  *)
(* whose request could not be written.                                     *)
StreamsReleased ==
  \A c \in streams :
    stage[c] = "over" => Kind[c] = "connect" /\ outcome[c] = "write"

(* Together: whatever way a call ends, before or after its connection, the *)
(* code leaves neither a stream nor a teardown behind and drops none early *)
(* (kpsGateway.ts:133-150, 180-300).                                       *)
CleanupExact == TeardownsExact /\ StreamsReleased

(* The deadline of a call bounds the waits that abortRace and openStream   *)
(* get the signal for: a call that awaits the dial or its stream gets to   *)
(* the write of its request or ends, and one that awaits the response head *)
(* gets it or ends, though a dial, an openStream and an answer may hang    *)
(* for ever.  Between the two lies the write, which nothing bounds.        *)
HeadIsDeadlined ==
  \A c \in Calls :
    /\ stage[c] = "dialing" ~> stage[c] \in {"writing", "over"}
    /\ stage[c] = "head" ~> stage[c] \in {"body", "diag", "tunnel", "over"}

(* The death of a connection, or close(), ends each of its fetches and     *)
(* tunnels, though the KPS client may leave their reads pending for ever.  *)
DeathEndsCalls ==
  \A c \in Calls, i \in Dials :
    (on[c] = i /\ (dial[i] = "dead" \/ closed) /\ stage[c] \in {"body", "tunnel"})
      ~> stage[c] = "over"

(* A response body ends at the gateway's FIN: a fetch that returns a       *)
(* response has all of it.                                                 *)
BodyEndsAtFin ==
  \A c \in Calls : Kind[c] = "fetch" /\ outcome[c] = "ok" => c \in fin

(* `signal` bounds setup (dial, stream, CONNECT reply): every connect gets *)
(* its tunnel or an error.                                                 *)
SetupBounded ==
  \A c \in Calls :
    Kind[c] = "connect" /\ stage[c] = "dialing" ~> stage[c] \in {"tunnel", "over"}
=============================================================================
