-------------------------- MODULE KpsGatewayProofs --------------------------
(***************************************************************************)
(* For any number of calls and dials: the types of the gateway client,     *)
(* that its calls share one dial, and that every call cleans up exactly    *)
(* what it left behind.                                                    *)
(***************************************************************************)
EXTENDS KpsGateway, TLAPS

\* close() dooms dials that were started: StartDials never finds its new dial
\* doomed already.
DoomedStarted == \A i \in doomed : dial[i] # "unused"

\* A call past #connection uses a connection that came up; a dial that
\* succeeds has no call on it to be missed by its empty set of teardowns.
UsesLanded ==
  \A c \in Calls :
    stage[c] \in {"opening", "writing", "head", "body", "diag", "tunnel"} =>
      dial[on[c]] \in {"up", "dead"}

\* Before openStream there is no stream.
StreamsOpened ==
  \A c \in streams : stage[c] \notin {"idle", "dialing", "opening"}

IInv ==
  /\ TypeOK /\ OneSharedDial /\ DoomedStarted
  /\ UsesLanded /\ TeardownsExact /\ StreamsReleased /\ StreamsOpened

-----------------------------------------------------------------------------

\* The call c needs a teardown on the connection of dial i.
Needs(c, i) ==
  /\ dial[i] = "up" /\ on[c] = i
  /\ stage[c] \in IF Kind[c] = "fetch" THEN {"writing", "head", "body"} ELSE {"tunnel"}

\* TeardownsExact, call by call.
LEMMA ExactPointwise ==
  ASSUME TypeOK
  PROVE  TeardownsExact <=>
           \A i \in Dials, c \in Calls : c \in teardowns[i] <=> Needs(c, i)
BY DEF TypeOK, TeardownsExact, Needs

LEMMA ExactPointwiseNext ==
  ASSUME TypeOK'
  PROVE  TeardownsExact' <=>
           \A i \in Dials, c \in Calls : c \in teardowns'[i] <=> Needs(c, i)'
BY DEF TypeOK, TeardownsExact, Needs

LEMMA Begin == Init => IInv
<1> SUFFICES ASSUME Init PROVE IInv
  OBVIOUS
<1>1. TypeOK
  <2>1. current \in 0..MaxDials /\ on \in [Calls -> 0..MaxDials]
    BY GatewayAssumption DEF Init
  <2>2. QED
    BY <2>1 DEF Init, TypeOK
<1> DoomedStarted /\ UsesLanded
  BY DEF Init, DoomedStarted, UsesLanded
<1>2. OneSharedDial
  BY DEF Init, OneSharedDial
<1>3. TeardownsExact /\ StreamsReleased /\ StreamsOpened
  BY DEF Init, TeardownsExact, StreamsReleased, StreamsOpened
<1>4. QED
  BY <1>1, <1>2, <1>3 DEF IInv

\* Whatever a call was doing: when it ends, its stream and its teardown go.
LEMMA EndsOK ==
  ASSUME IInv, NEW c \in Calls, NEW why \in {"ok", "error", "write"},
         Ends(c, why), UNCHANGED <<connVars, on, cancelled, wireVars>>,
         expired' \subseteq Calls
  PROVE  IInv'
<1>1. TypeOK'
  BY DEF IInv, TypeOK, Ends, Goto, connVars, wireVars
<1>2. OneSharedDial' /\ DoomedStarted'
  BY DEF IInv, OneSharedDial, DoomedStarted, connVars
<1>3. UsesLanded'
  BY DEF IInv, TypeOK, UsesLanded, Ends, Goto, connVars
<1>4. TeardownsExact'
  BY DEF IInv, TypeOK, TeardownsExact, Ends, Goto, connVars
<1>5. StreamsReleased' /\ StreamsOpened'
  BY DEF IInv, TypeOK, StreamsReleased, StreamsOpened, Ends, Goto
<1>6. QED
  BY <1>1, <1>2, <1>3, <1>4, <1>5 DEF IInv

\* The death of a connection takes all of its teardowns with it.
LEMMA OnClosedOK ==
  ASSUME IInv, NEW i \in Dials, dial[i] = "up", OnClosed(i)
  PROVE  IInv'
<1>1. TypeOK'
  <2>1. current' \in 0..MaxDials
    BY GatewayAssumption DEF IInv, TypeOK, OnClosed, Forget
  <2>2. QED
    BY <2>1 DEF IInv, TypeOK, OnClosed, wireVars
<1>2. OneSharedDial'
  BY DEF IInv, TypeOK, OneSharedDial, OnClosed, Forget, Dials
<1>3. DoomedStarted' /\ UsesLanded'
  BY DEF IInv, TypeOK, DoomedStarted, UsesLanded, OnClosed
<1>4. TeardownsExact'
  BY DEF IInv, TypeOK, TeardownsExact, OnClosed
<1>5. StreamsReleased' /\ StreamsOpened'
  BY DEF IInv, TypeOK, StreamsReleased, StreamsOpened, OnClosed
<1>6. QED
  BY <1>1, <1>2, <1>3, <1>4, <1>5 DEF IInv

\* A call that moves on without touching its stream or its connection.
LEMMA MovesOK ==
  ASSUME IInv, NEW c \in Calls,
         NEW to \in {"opening", "head", "body", "diag", "over"},
         Goto(c, to), outcome' \in [Calls -> {"none", "ok", "error", "write"}],
         \A x \in Calls \ {c} : outcome'[x] = outcome[x],
         UNCHANGED <<connVars, teardowns, on, expired, streams, cancelled, wireVars>>,
         to # "over" => on[c] \in Dials /\ dial[on[c]] \in {"up", "dead"},
         to = "opening" => c \notin streams,
         c \in streams /\ to = "over" =>
           Kind[c] = "connect" /\ outcome'[c] = "write",
         \* the call has a teardown after the step if it has one before
         Kind[c] = "fetch" =>
           (stage[c] \in {"writing", "head", "body"} <=> to \in {"head", "body"}),
         Kind[c] = "connect" => stage[c] # "tunnel"
  PROVE  IInv'
<1>1. TypeOK'
  BY DEF IInv, TypeOK, Goto, connVars, wireVars
<1>2. OneSharedDial' /\ DoomedStarted'
  BY DEF IInv, OneSharedDial, DoomedStarted, connVars
<1>3. UsesLanded'
  BY DEF IInv, TypeOK, UsesLanded, Goto, connVars
<1>4. TeardownsExact'
  <2>1. \A i \in Dials, x \in Calls : x \in teardowns[i] <=> Needs(x, i)
    BY ExactPointwise DEF IInv
  <2>2. \A i \in Dials : Needs(c, i)' <=> Needs(c, i)
    <3>1. stage'[c] = to /\ dial' = dial /\ on' = on
      BY DEF IInv, TypeOK, Goto, connVars
    <3>2. Kind[c] = "fetch" \/ Kind[c] = "connect"
      BY GatewayAssumption
    <3>3. QED
      BY <3>1, <3>2 DEF Needs
  <2>3. \A i \in Dials, x \in Calls \ {c} : Needs(x, i)' <=> Needs(x, i)
    BY DEF IInv, TypeOK, Needs, Goto, connVars
  <2>4. \A i \in Dials, x \in Calls : x \in teardowns'[i] <=> Needs(x, i)'
    BY <2>1, <2>2, <2>3
  <2>5. QED
    BY <1>1, <2>4, ExactPointwiseNext
<1>5. StreamsReleased' /\ StreamsOpened'
  BY DEF IInv, TypeOK, StreamsReleased, StreamsOpened, Goto
<1>6. QED
  BY <1>1, <1>2, <1>3, <1>4, <1>5 DEF IInv

LEMMA StartRefusedOK ==
  ASSUME IInv, NEW c \in Calls, StartRefused(c) PROVE IInv'
<1>1. c \notin streams
  BY DEF IInv, StreamsOpened, StartRefused
<1>2. outcome' = [outcome EXCEPT ![c] = "error"]
      /\ outcome' \in [Calls -> {"none", "ok", "error", "write"}]
  BY DEF IInv, TypeOK, StartRefused
<1>3. QED
  BY <1>1, <1>2, MovesOK DEF StartRefused, IInv, TypeOK

LEMMA StartDialsOK ==
  ASSUME IInv, NEW c \in Calls, StartDials(c) PROVE IInv'
<1>1. PICK i \in Dials : /\ dial[i] = "unused"
                         /\ dial' = [dial EXCEPT ![i] = "pending"]
                         /\ current' = i /\ on' = [on EXCEPT ![c] = i]
  BY DEF StartDials
<1>2. i \in 0..MaxDials /\ i # 0
  BY GatewayAssumption DEF Dials
<1>3. TypeOK'
  BY <1>1, <1>2 DEF IInv, TypeOK, StartDials, Goto, wireVars, Dials
<1>4. OneSharedDial'
  BY <1>1, <1>2 DEF IInv, TypeOK, OneSharedDial, DoomedStarted, StartDials
<1>5. DoomedStarted' /\ UsesLanded'
  BY <1>1 DEF IInv, TypeOK, DoomedStarted, UsesLanded, StartDials, Goto
<1>6. TeardownsExact'
  BY <1>1 DEF IInv, TypeOK, TeardownsExact, StartDials, Goto
<1>7. StreamsReleased' /\ StreamsOpened'
  BY DEF IInv, TypeOK, StreamsReleased, StreamsOpened, StartDials, Goto
<1>8. QED
  BY <1>3, <1>4, <1>5, <1>6, <1>7 DEF IInv

LEMMA StartSharesOK ==
  ASSUME IInv, NEW c \in Calls, StartShares(c) PROVE IInv'
<1>1. TypeOK'
  BY DEF IInv, TypeOK, StartShares, Goto, connVars, wireVars, Dials
<1>2. OneSharedDial' /\ DoomedStarted'
  BY DEF IInv, OneSharedDial, DoomedStarted, StartShares, connVars
<1>3. UsesLanded' /\ TeardownsExact'
  BY DEF IInv, TypeOK, UsesLanded, TeardownsExact, StartShares, Goto, connVars
<1>4. StreamsReleased' /\ StreamsOpened'
  BY DEF IInv, TypeOK, StreamsReleased, StreamsOpened, StartShares, Goto
<1>5. QED
  BY <1>1, <1>2, <1>3, <1>4 DEF IInv

LEMMA DialSucceedsOK ==
  ASSUME IInv, NEW i \in Dials, DialSucceeds(i) PROVE IInv'
<1>1. TypeOK'
  BY DEF IInv, TypeOK, DialSucceeds, callVars, wireVars
<1>2. OneSharedDial'
  BY DEF IInv, TypeOK, OneSharedDial, DialSucceeds
<1>3. DoomedStarted' /\ UsesLanded'
  BY DEF IInv, TypeOK, DoomedStarted, UsesLanded, DialSucceeds, callVars
<1>4. TeardownsExact'
  <2>1. \A j \in Dials, x \in Calls : x \in teardowns'[j] <=> Needs(x, j)'
    BY ExactPointwise DEF IInv, TypeOK, Needs, UsesLanded, DialSucceeds, callVars
  <2>2. QED
    BY <1>1, <2>1, ExactPointwiseNext
<1>5. StreamsReleased' /\ StreamsOpened'
  BY DEF IInv, StreamsReleased, StreamsOpened, DialSucceeds, callVars
<1>6. QED
  BY <1>1, <1>2, <1>3, <1>4, <1>5 DEF IInv

LEMMA DialFailsOK ==
  ASSUME IInv, NEW i \in Dials, DialFails(i) PROVE IInv'
<1>1. TypeOK'
  <2>1. current' \in 0..MaxDials
    BY GatewayAssumption DEF IInv, TypeOK, DialFails, Forget
  <2>2. QED
    BY <2>1 DEF IInv, TypeOK, DialFails, callVars, wireVars
<1>2. OneSharedDial'
  BY DEF IInv, TypeOK, OneSharedDial, DialFails, Forget, Dials
<1>3. DoomedStarted' /\ UsesLanded' /\ TeardownsExact'
  BY DEF IInv, TypeOK, DoomedStarted, UsesLanded, TeardownsExact, DialFails, callVars
<1>4. StreamsReleased' /\ StreamsOpened'
  BY DEF IInv, StreamsReleased, StreamsOpened, DialFails, callVars
<1>5. QED
  BY <1>1, <1>2, <1>3, <1>4 DEF IInv

LEMMA CloseOK == ASSUME IInv, Close PROVE IInv'
<1>1. TypeOK'
  BY GatewayAssumption DEF IInv, TypeOK, Close, callVars, wireVars, Dials
<1>2. OneSharedDial'
  BY DEF IInv, TypeOK, OneSharedDial, Close, Dials
<1>3. DoomedStarted'
  BY DEF IInv, TypeOK, OneSharedDial, DoomedStarted, Close, Dials
<1>4. UsesLanded' /\ TeardownsExact' /\ StreamsReleased' /\ StreamsOpened'
  BY DEF IInv, UsesLanded, TeardownsExact, StreamsReleased, StreamsOpened, Close,
         callVars
<1>5. QED
  BY <1>1, <1>2, <1>3, <1>4 DEF IInv

LEMMA ConnectedOK ==
  ASSUME IInv, NEW c \in Calls, Connected(c) PROVE IInv'
<1>1. c \notin streams /\ on[c] \in Dials
  BY DEF IInv, TypeOK, StreamsOpened, Connected
<1>2. QED
  BY <1>1, MovesOK DEF Connected, IInv, TypeOK

\* A stream whose teardown is registered, or runs because the connection is
\* already dead.
LEMMA RegistersOK ==
  ASSUME IInv, NEW c \in Calls, AddTeardown(c),
         on[c] \in Dials /\ dial[on[c]] \in {"up", "dead"},
         \/ Kind[c] = "fetch" /\ stage[c] = "opening" /\ Goto(c, "writing")
         \/ Kind[c] = "connect" /\ stage[c] = "head" /\ Goto(c, "tunnel"),
         UNCHANGED <<connVars, on, expired, outcome, wireVars>>
  PROVE  IInv'
<1>1. TypeOK'
  BY DEF IInv, TypeOK, AddTeardown, Goto, connVars, wireVars
<1>2. OneSharedDial' /\ DoomedStarted'
  BY DEF IInv, OneSharedDial, DoomedStarted, connVars
<1>3. UsesLanded'
  BY DEF IInv, TypeOK, UsesLanded, Goto, connVars
<1>4. TeardownsExact'
  <2>1. \A i \in Dials, x \in Calls : x \in teardowns'[i] <=> Needs(x, i)'
    BY ExactPointwise DEF IInv, TypeOK, Needs, AddTeardown, Goto, connVars
  <2>2. QED
    BY <1>1, <2>1, ExactPointwiseNext
<1>5. StreamsReleased' /\ StreamsOpened'
  BY DEF IInv, TypeOK, StreamsReleased, StreamsOpened, AddTeardown, Goto
<1>6. QED
  BY <1>1, <1>2, <1>3, <1>4, <1>5 DEF IInv

LEMMA StreamOpensOK ==
  ASSUME IInv, NEW c \in Calls, StreamOpens(c) PROVE IInv'
<1>1. on[c] \in Dials
  BY DEF IInv, TypeOK, StreamOpens
<1>2. CASE Kind[c] = "fetch"
  BY <1>1, <1>2, RegistersOK DEF StreamOpens
<1>3. CASE Kind[c] = "connect"
  <2>1. /\ Goto(c, "writing") /\ streams' = streams \cup {c}
        /\ UNCHANGED <<teardowns, cancelled>>
    BY <1>3 DEF StreamOpens
  <2>2. TypeOK'
    BY <2>1, <1>1 DEF IInv, TypeOK, StreamOpens, Goto, connVars, wireVars
  <2>3. OneSharedDial' /\ DoomedStarted'
    BY DEF IInv, OneSharedDial, DoomedStarted, StreamOpens, connVars
  <2>4. UsesLanded' /\ TeardownsExact'
    BY <1>3, <2>1
       DEF IInv, TypeOK, UsesLanded, TeardownsExact, StreamOpens, Goto, connVars
  <2>5. StreamsReleased' /\ StreamsOpened'
    BY <2>1 DEF IInv, TypeOK, StreamsReleased, StreamsOpened, StreamOpens, Goto
  <2>6. QED
    BY <2>2, <2>3, <2>4, <2>5 DEF IInv
<1>4. QED
  BY <1>2, <1>3, GatewayAssumption

LEMMA WrittenOK ==
  ASSUME IInv, NEW c \in Calls, Written(c) PROVE IInv'
<1>1. on[c] \in Dials /\ dial[on[c]] \in {"up", "dead"}
  BY DEF IInv, TypeOK, UsesLanded, Written
<1>2. QED
  BY <1>1, MovesOK DEF Written, IInv, TypeOK

LEMMA WriteFailsOK ==
  ASSUME IInv, NEW c \in Calls, WriteFails(c) PROVE IInv'
<1>1. CASE Kind[c] = "fetch"
  BY <1>1, EndsOK DEF WriteFails, IInv, TypeOK
<1>2. CASE Kind[c] = "connect"
  <2>1. /\ Goto(c, "over") /\ outcome' = [outcome EXCEPT ![c] = "write"]
        /\ UNCHANGED <<streams, teardowns>>
    BY <1>2 DEF WriteFails
  <2>2. outcome' \in [Calls -> {"none", "ok", "error", "write"}]
        /\ outcome'[c] = "write"
    BY <2>1 DEF IInv, TypeOK
  <2>3. QED
    BY <1>2, <2>1, <2>2, MovesOK DEF WriteFails, IInv, TypeOK
<1>3. QED
  BY <1>1, <1>2, GatewayAssumption

LEMMA ExpiresOK ==
  ASSUME IInv, NEW c \in Calls, Expires(c) PROVE IInv'
<1>1. CASE stage[c] # "writing"
  BY <1>1, EndsOK DEF Expires, IInv, TypeOK
<1>2. CASE stage[c] = "writing"
  <2>1. TypeOK'
    BY <1>2 DEF IInv, TypeOK, Expires, connVars, wireVars
  <2>2. OneSharedDial' /\ DoomedStarted' /\ UsesLanded' /\ TeardownsExact'
    BY <1>2 DEF IInv, OneSharedDial, DoomedStarted, UsesLanded, TeardownsExact,
                Expires, connVars
  <2>3. StreamsReleased' /\ StreamsOpened'
    BY <1>2 DEF IInv, StreamsReleased, StreamsOpened, Expires
  <2>4. QED
    BY <2>1, <2>2, <2>3 DEF IInv
<1>3. QED
  BY <1>1, <1>2

LEMMA HeadReadOK ==
  ASSUME IInv, NEW c \in Calls, HeadRead(c) PROVE IInv'
<1>1. on[c] \in Dials /\ dial[on[c]] \in {"up", "dead"}
  BY DEF IInv, TypeOK, UsesLanded, HeadRead
<1>2. CASE Kind[c] = "connect" /\ head[c] = "200"
  BY <1>1, <1>2, RegistersOK DEF HeadRead
<1>3. CASE Kind[c] = "fetch"
  BY <1>1, <1>3, MovesOK DEF HeadRead, IInv, TypeOK
<1>4. CASE Kind[c] = "connect" /\ head[c] # "200"
  BY <1>1, <1>4, MovesOK DEF HeadRead, IInv, TypeOK
<1>5. QED
  BY <1>2, <1>3, <1>4, GatewayAssumption

LEMMA GatewayOK ==
  ASSUME IInv, NEW c \in Calls, GatewayAnswers(c) \/ GatewayFins(c)
  PROVE  IInv'
<1>1. TypeOK'
  BY DEF IInv, TypeOK, GatewayAnswers, GatewayFins, connVars, callVars
<1>2. UNCHANGED <<connVars, teardowns, callVars>>
  BY DEF GatewayAnswers, GatewayFins
<1>3. QED
  BY <1>1, <1>2 DEF IInv, OneSharedDial, DoomedStarted, UsesLanded, TeardownsExact,
                    StreamsReleased, StreamsOpened, connVars, callVars

LEMMA StutterOK == ASSUME IInv, UNCHANGED vars PROVE IInv'
BY DEF IInv, TypeOK, OneSharedDial, DoomedStarted, UsesLanded, TeardownsExact,
       StreamsReleased, StreamsOpened, vars, connVars, callVars, wireVars

LEMMA StepOK == IInv /\ [Next]_vars => IInv'
<1> SUFFICES ASSUME IInv, [Next]_vars PROVE IInv'
  OBVIOUS
<1>1. CASE Close
  BY <1>1, CloseOK
<1>2. ASSUME NEW i \in Dials,
             DialSucceeds(i) \/ DialFails(i) \/ ConnectionDies(i) \/ CloseLands(i)
      PROVE  IInv'
  BY <1>2, DialSucceedsOK, DialFailsOK, OnClosedOK DEF ConnectionDies, CloseLands
<1>3. ASSUME NEW c \in Calls, Start(c) \/ Expires(c) \/ StreamOpens(c)
      PROVE  IInv'
  BY <1>3, StartRefusedOK, StartDialsOK, StartSharesOK, ExpiresOK, StreamOpensOK
     DEF Start
<1>4. ASSUME NEW c \in Calls,
             \/ DialRejects(c) \/ OpenFails(c) \/ WrittenTooLate(c) \/ HeadEnds(c)
             \/ BodyEnds(c) \/ DiagEnds(c) \/ ReadFails(c) \/ TunnelBreaks(c)
      PROVE  IInv'
  BY <1>4, EndsOK
     DEF DialRejects, OpenFails, WrittenTooLate, HeadEnds, BodyEnds, DiagEnds,
         ReadFails, TunnelBreaks, IInv, TypeOK
<1>5. ASSUME NEW c \in Calls, Proceed(c) \/ WriteSettles(c)
      PROVE  IInv'
  BY <1>4, <1>5, ConnectedOK, WrittenOK, WriteFailsOK, HeadReadOK
     DEF Proceed, WriteSettles, TunnelClosed
<1>6. ASSUME NEW c \in Calls, GatewayAnswers(c) \/ GatewayFins(c)
      PROVE  IInv'
  BY <1>6, GatewayOK
<1>7. CASE UNCHANGED vars
  BY <1>7, StutterOK
<1>8. QED
  BY <1>1, <1>2, <1>3, <1>4, <1>5, <1>6, <1>7 DEF Next

-----------------------------------------------------------------------------
\* The state of a gateway client keeps its types, and a call under way has a
\* dial to wait for or to use (kpsGateway.ts).
THEOREM TypesHold == Spec => []TypeOK
<1>1. IInv => TypeOK
  BY DEF IInv
<1>2. QED
  BY Begin, StepOK, <1>1, PTL DEF Spec

\* All calls share the dial that #connPromise holds, and it never holds one
\* that failed or died (kpsGateway.ts, #connection and close).
THEOREM DialIsShared == Spec => []OneSharedDial
<1>1. IInv => OneSharedDial
  BY DEF IInv
<1>2. QED
  BY Begin, StepOK, <1>1, PTL DEF Spec

\* However calls, answers, deadlines and deaths of connections interleave, the
\* registered teardowns are the ones still needed, and a call that is over has
\* closed its stream, a connect that could not write excepted (kpsGateway.ts,
\* fetch, connect, #addTeardown and onClosed).
THEOREM CallsCleanUp == Spec => []CleanupExact
<1>1. IInv => CleanupExact
  BY DEF IInv, CleanupExact
<1>2. QED
  BY Begin, StepOK, <1>1, PTL DEF Spec
=============================================================================
