--------------------------- MODULE ClientLifecycle ---------------------------
(***************************************************************************)
(* The life of a client: TorClient.ts over the WASM TorClient of lib.rs,   *)
(* the loader and log listeners of wasm.ts, and their two users, a page    *)
(* (directly and through singleton.ts) and the anon-rpc worker (worker.ts). *)
(*                                                                         *)
(* JavaScript runs to its next await: an action is what runs without one.  *)
(* What a client owns while it lives: a log listener, a socket provider,   *)
(* the arti client behind `inner` and with it the lock of the storage.     *)
(***************************************************************************)
EXTENDS Integers, FiniteSets

CONSTANTS Clients,   \* numbered in the order they are made
          Calls,
          NoOne, Stuck,
          Levels     \* LEVEL_ORDER, from the broadest up

ASSUME LifecycleAssumption ==
  /\ Clients \subseteq Nat /\ {NoOne, Stuck} \cap Clients = {} /\ NoOne # Stuck
  /\ IsFiniteSet(Levels) /\ Levels \subseteq Nat /\ Levels # {}

VARIABLES realm,      \* page or worker
          wasm,       \* initPromise: none, loading, ready or failed
          filter,     \* the level set in the WASM module
          listeners,  \* logListeners, as the clients they belong to
          level,      \* the level of each client's listener
          boot,       \* where bootstrap() of a client is: new before the
                      \* constructor, up or failed once clientPromise settled
          closed,
          provider,   \* none, open or closed
          fast,       \* clients whose options have a fast bootstrap callback
          inner,      \* the WASM client still has its arti client
          lock,       \* whose CachedJsStorage holds the storage lock; Stuck if
                      \* it is held and nobody is left to release it
          ready,      \* readyPromise: none, client or events, for what it waits
          usable,     \* ready_for_traffic
          call,       \* the callers of ready() and fetch()
          worker,     \* where the worker's main function is
          late        \* history: clients closed before the load was over for them

logVars == <<filter, listeners, level>>
ownVars == <<boot, closed, provider, fast, inner, lock, late>>
callVars == <<ready, call>>
lifeVars == <<realm, wasm, logVars, ownVars, callVars, usable, worker>>

NoCall == [kind |-> "none", on |-> NoOne, at |-> "idle"]

Least(S) == CHOOSE x \in S : \A y \in S : x <= y

LifeInit ==
  /\ realm \in {"page", "worker"}
  /\ wasm = "none"
  /\ filter = Least(Levels) /\ listeners = {} /\ level = [c \in Clients |-> Least(Levels)]
  /\ boot = [c \in Clients |-> "new"] /\ closed = [c \in Clients |-> FALSE]
  /\ provider = [c \in Clients |-> "none"] /\ inner = [c \in Clients |-> FALSE]
  /\ lock = NoOne /\ fast = {} /\ late = {}
  /\ ready = [c \in Clients |-> "none"] /\ usable = [c \in Clients |-> FALSE]
  /\ call = [k \in Calls |-> NoCall]
  /\ worker = IF realm = "worker" THEN "starts" ELSE "off"

-----------------------------------------------------------------------------
(* wasm.ts: one load for all, and the log listeners                        *)

\* doInit, then init() and the fan-out callback.
WasmLoads ==
  /\ wasm = "loading" /\ wasm' = "ready"
  /\ filter' = Least(Levels)
  /\ UNCHANGED <<realm, listeners, level, ownVars, callVars, usable, worker>>

\* The rejected promise is kept.
WasmFails ==
  /\ wasm = "loading" /\ wasm' = "failed"
  /\ UNCHANGED <<realm, logVars, ownVars, callVars, usable, worker>>

\* syncWasmLogLevel, unless nobody listens any more.
SetFilter(ls, lv) ==
  /\ listeners' = ls /\ level' = lv
  /\ filter' = IF ls = {} THEN filter ELSE Least({lv[c] : c \in ls})

\* Who gets an event of this level: past the filter, then past its own level.
Hears(l) == IF l < filter THEN {} ELSE {c \in listeners : level[c] <= l}

SetLogLevel(c, l) ==
  /\ c \in listeners /\ level[c] # l
  /\ SetFilter(listeners, [level EXCEPT ![c] = l])
  /\ UNCHANGED <<realm, wasm, ownVars, callVars, usable, worker>>

-----------------------------------------------------------------------------
(* constructor and bootstrap                                               *)

Construct(c) ==
  /\ boot[c] = "new" /\ \A d \in Clients : d < c => boot[d] # "new"
  /\ boot' = [boot EXCEPT ![c] = "wasm"]
  /\ wasm' = IF wasm = "none" THEN "loading" ELSE wasm

\* TorClientOptions: a connect function and a storage always, the callback
\* where there is a gateway.
Options(c) == fast' \in {fast, fast \cup {c}}

\* ensureWasmInitialized has resolved: listener, provider and options, and
\* create() is called, all without an await, closed or not.
Registers(c) ==
  /\ boot[c] = "wasm" /\ wasm = "ready"
  /\ \E l \in Levels : SetFilter(listeners \cup {c}, [level EXCEPT ![c] = l])
  /\ provider' = [provider EXCEPT ![c] = "open"]
  /\ Options(c) /\ boot' = [boot EXCEPT ![c] = "storage"]
  /\ UNCHANGED <<realm, wasm, closed, inner, lock, late, callVars, usable, worker>>

\* The provider's constructor throws, on an address that is none; the
\* listener is there by then.  The worker comes with a provider.
ProviderFails(c) ==
  /\ boot[c] = "wasm" /\ wasm = "ready" /\ realm = "page"
  /\ \E l \in Levels : SetFilter(listeners \cup {c}, [level EXCEPT ![c] = l])
  /\ boot' = [boot EXCEPT ![c] = "failed"]
  /\ UNCHANGED <<realm, wasm, closed, provider, fast, inner, lock, late, callVars,
                 usable, worker>>

Moves(c, next) ==
  /\ boot' = [boot EXCEPT ![c] = next]
  /\ UNCHANGED <<realm, wasm, logVars, closed, provider, late, callVars, usable, worker>>

NeverLoaded(c) ==
  boot[c] = "wasm" /\ wasm = "failed" /\ Moves(c, "failed") /\ UNCHANGED <<fast, inner, lock>>

\* A client that finds the lock taken goes on with an overlay.
Locked(c) == IF lock = NoOne THEN c ELSE lock

\* The archive is asked for if the options say how.
StorageOpens(c) ==
  /\ boot[c] = "storage" /\ lock' = Locked(c) /\ UNCHANGED inner
  /\ Moves(c, IF c \in fast THEN "fast" ELSE "bootstrap") /\ fast' = fast \ {c}

\* Before it has the lock, while it reads the store, which drops the storage
\* and its lock, or between the two calls of tryLock(), where no storage is
\* there yet to be dropped.
StorageFails(c) ==
  /\ boot[c] = "storage" /\ UNCHANGED inner
  /\ lock' \in {lock, Locked(c), IF lock = NoOne THEN Stuck ELSE lock}
  /\ Moves(c, "failed") /\ fast' = fast \ {c}

\* Whatever becomes of it.
FastBootstrapped(c) ==
  boot[c] = "fast" /\ Moves(c, "bootstrap") /\ UNCHANGED <<fast, inner, lock>>

Bootstrapped(c) ==
  /\ boot[c] = "bootstrap" /\ Moves(c, "up")
  /\ inner' = [inner EXCEPT ![c] = TRUE] /\ UNCHANGED <<fast, lock>>

BootstrapFails(c) ==
  boot[c] = "bootstrap" /\ Moves(c, "failed") /\ UNCHANGED <<fast, inner, lock>>

-----------------------------------------------------------------------------
(* close                                                                   *)

\* Mutated form of Closing: the provider is left to its sockets.
ClosingListener(c) ==
  /\ ~closed[c] /\ closed' = [closed EXCEPT ![c] = TRUE]
  /\ SetFilter(listeners \ {c}, [level EXCEPT ![c] = Least(Levels)])
  /\ late' = IF boot[c] = "wasm" THEN late \cup {c} ELSE late
  /\ UNCHANGED provider

\* What close() does at once.
Closing(c) ==
  /\ ~closed[c] /\ closed' = [closed EXCEPT ![c] = TRUE]
  /\ SetFilter(listeners \ {c}, [level EXCEPT ![c] = Least(Levels)])
  /\ provider' = [provider EXCEPT ![c] = IF @ = "open" THEN "closed" ELSE @]
  /\ late' = IF boot[c] = "wasm" THEN late \cup {c} ELSE late

\* And once clientPromise is fulfilled: the WASM client's close().
ClosesInner(c) ==
  /\ closed[c] /\ boot[c] = "up" /\ inner[c]
  /\ inner' = [inner EXCEPT ![c] = FALSE]
  /\ UNCHANGED <<realm, wasm, logVars, boot, closed, provider, fast, lock, late,
                 callVars, usable, worker>>

\* What goes on inside keeps the arti client: create(), a ready() that waits
\* for events, a fetch.
Busy(c) ==
  \/ boot[c] \in {"storage", "fast", "bootstrap"} \/ ready[c] = "events"
  \/ \E k \in Calls : call[k].on = c /\ call[k].at = "fetching"

Held(c) == inner[c] \/ Busy(c)

\* The last reference is gone: CachedJsStorage is dropped and unlocks, if
\* the storage lets it.
Unlocks(c) ==
  /\ lock = c /\ ~Held(c)
  /\ lock' \in {NoOne, Stuck}
  /\ UNCHANGED <<realm, wasm, logVars, boot, closed, provider, fast, inner, late,
                 callVars, usable, worker>>

-----------------------------------------------------------------------------
(* ready and fetch                                                         *)

At(k, where) == call' = [call EXCEPT ![k].at = where]
JoinReady(c) == ready' = [ready EXCEPT ![c] = IF @ = "none" THEN "client" ELSE @]

Over(k) == call' = [call EXCEPT ![k] = NoCall]

\* ready() shares a promise, fetch() waits for the client first; both reject
\* at once on a closed client, which leaves nothing to model.
Begins(k, c, kind) ==
  /\ call[k].at = "idle" /\ boot[c] # "new" /\ ~closed[c]
  /\ call' = [call EXCEPT ![k] = [kind |-> kind, on |-> c, at |->
                IF kind = "fetch" THEN "client" ELSE "waiting"]]
  /\ IF kind = "ready" THEN JoinReady(c) ELSE UNCHANGED ready

CallStep == UNCHANGED <<realm, wasm, logVars, ownVars, usable, worker>>

\* Mutated form of HasClient: a rejected clientPromise is not passed on.
HasClientOnly(k) ==
  LET c == call[k].on
  IN /\ call[k].at = "client" /\ boot[c] = "up"
     /\ IF ~closed[c] THEN At(k, "waiting") /\ JoinReady(c)
        ELSE Over(k) /\ UNCHANGED ready
     /\ CallStep

\* clientPromise has settled; fetch() goes on to ready(), which looks at
\* `closed` again.
HasClient(k) ==
  LET c == call[k].on
  IN /\ call[k].at = "client" /\ boot[c] \in {"up", "failed"}
     /\ IF boot[c] = "up" /\ ~closed[c] THEN At(k, "waiting") /\ JoinReady(c)
        ELSE Over(k) /\ UNCHANGED ready
     /\ CallStep

Waits(k, c) == call[k].on = c /\ call[k].at = "waiting"

\* readyPromise settles: for every one who shares it, and the cache is clear.
Settle(c, ok) ==
  /\ ready' = [ready EXCEPT ![c] = "none"]
  /\ call' = [k \in Calls |->
       IF ~Waits(k, c) THEN call[k]
       ELSE IF ok /\ call[k].kind = "fetch" THEN [call[k] EXCEPT !.at = "go"]
       ELSE NoCall]
  /\ worker' = IF worker # "waiting" THEN worker ELSE IF ok THEN "serving" ELSE "sleeping"
  /\ UNCHANGED <<realm, wasm, logVars, ownVars, usable>>

\* The status first, then the events, with no await in between.
ReadyAsks(c) ==
  /\ ready[c] = "client" /\ boot[c] \in {"up", "failed"}
  /\ IF inner[c] /\ ~usable[c]
     THEN ready' = [ready EXCEPT ![c] = "events"] /\ UNCHANGED call /\ CallStep
     ELSE Settle(c, inner[c])

ReadyEvent(c) == ready[c] = "events" /\ usable[c] /\ Settle(c, TRUE)

\* The stream of events is at its end.
EventsEnd(c) == ready[c] = "events" /\ Settle(c, FALSE)

\* A closed WASM client answers not_initialized.
FetchStarts(k) ==
  /\ call[k].at = "go"
  /\ IF inner[call[k].on] THEN At(k, "fetching") ELSE Over(k)
  /\ UNCHANGED ready /\ CallStep

\* HttpFetch; with a peer that says nothing it does not end.
FetchEnds(k) ==
  call[k].at = "fetching" /\ Over(k) /\ UNCHANGED ready /\ CallStep

\* arti has a guard and a directory, or has lost them.
StatusChanges(c) ==
  /\ boot[c] = "up" /\ Held(c)
  /\ usable' = [usable EXCEPT ![c] = ~@]
  /\ UNCHANGED <<realm, wasm, logVars, ownVars, callVars, worker>>

-----------------------------------------------------------------------------
(* A page.  The singleton of singleton.ts is one that holds one client.    *)

Page == realm = "page" /\ UNCHANGED <<realm, worker, usable, fast, inner, lock>>

\* open(), and fetch() of singleton.ts with no client.
NewClient(c) ==
  Page /\ Construct(c) /\ UNCHANGED <<logVars, closed, provider, late, callVars>>

CloseClient(c) ==
  Page /\ boot[c] # "new" /\ Closing(c) /\ UNCHANGED <<wasm, boot, callVars>>

\* configure(): the new client is there before the old one lets go of anything.
Configure(c, d) ==
  Page /\ boot[c] # "new" /\ Closing(c) /\ Construct(d) /\ UNCHANGED callVars

PageCalls(k, c) ==
  /\ Page /\ \E kind \in {"ready", "fetch"} : Begins(k, c, kind)
  /\ UNCHANGED <<wasm, logVars, boot, closed, provider, late>>

-----------------------------------------------------------------------------
(* The worker: one client for life                                         *)

WorkerStep == UNCHANGED <<realm, fast, inner, lock, usable>>

WorkerStarts(c) ==
  /\ worker = "starts" /\ Construct(c) /\ worker' = "retrying"
  /\ WorkerStep /\ UNCHANGED <<logVars, closed, provider, late, callVars>>

\* No gateway in the configuration, or a bad one: signalFailed.
WorkerFails ==
  /\ worker = "starts" /\ worker' = "failed"
  /\ WorkerStep /\ UNCHANGED <<wasm, logVars, boot, closed, provider, late, callVars>>

WorkerRetries(c) ==
  /\ worker = "retrying" /\ boot[c] # "new" /\ JoinReady(c) /\ worker' = "waiting"
  /\ WorkerStep /\ UNCHANGED <<wasm, logVars, boot, closed, provider, late, call>>

\* After a rejection, whatever the reason.
WorkerWakes ==
  /\ worker = "sleeping" /\ worker' = "retrying"
  /\ WorkerStep /\ UNCHANGED <<wasm, logVars, boot, closed, provider, late, callVars>>

WorkerAccepts(k, c) ==
  /\ worker = "serving" /\ Begins(k, c, "fetch")
  /\ WorkerStep /\ UNCHANGED <<wasm, logVars, boot, closed, provider, late, worker>>

\* acceptCall rejects: the client is closed, what it still serves goes on.
WorkerEnds(c) ==
  /\ worker = "serving" /\ boot[c] # "new" /\ Closing(c) /\ worker' = "ended"
  /\ WorkerStep /\ UNCHANGED <<wasm, boot, callVars>>

-----------------------------------------------------------------------------
Starting(c) ==
  \/ Registers(c) \/ ProviderFails(c) \/ NeverLoaded(c) \/ StorageOpens(c) \/ StorageFails(c)
  \/ FastBootstrapped(c) \/ Bootstrapped(c) \/ BootstrapFails(c)

Answering(k) == HasClient(k) \/ FetchStarts(k) \/ FetchEnds(k)

PageStep ==
  \E c \in Clients :
    \/ NewClient(c) \/ CloseClient(c)
    \/ \E d \in Clients : Configure(c, d)
    \/ \E k \in Calls : PageCalls(k, c)

Trying(c) == WorkerStarts(c) \/ WorkerRetries(c)

LifeNext ==
  \/ WasmLoads \/ WasmFails \/ PageStep \/ WorkerFails \/ WorkerWakes
  \/ \E c \in Clients :
       \/ Starting(c) \/ ClosesInner(c) \/ Unlocks(c) \/ ReadyAsks(c) \/ ReadyEvent(c)
       \/ EventsEnd(c) \/ StatusChanges(c) \/ Trying(c) \/ WorkerEnds(c)
       \/ \E l \in Levels : SetLogLevel(c, l)
       \/ \E k \in Calls : WorkerAccepts(k, c)
  \/ \E k \in Calls : Answering(k)

(* Promises that are settled resume who awaits them, the drop of the last  *)
(* reference runs, timers of the worker fire.  Nothing else has to happen: *)
(* the load of the WASM module, the storage, the archive, the bootstrap,   *)
(* the events and the answer to a fetch have no timeout.                   *)
Fairness ==
  /\ WF_lifeVars(WorkerWakes \/ \E c \in Clients : Trying(c))
  /\ \A c \in Clients :
       /\ WF_lifeVars(Registers(c) \/ NeverLoaded(c))
       /\ WF_lifeVars(ClosesInner(c) \/ Unlocks(c))
       /\ WF_lifeVars(ReadyAsks(c)) /\ WF_lifeVars(ReadyEvent(c))
  /\ \A k \in Calls : WF_lifeVars(HasClient(k) \/ FetchStarts(k))

LifeSpec == LifeInit /\ [][LifeNext]_lifeVars /\ Fairness

-----------------------------------------------------------------------------
(* Properties                                                              *)

\* Types of every variable.
LifeTypeOK ==
  /\ realm \in {"page", "worker"} /\ wasm \in {"none", "loading", "ready", "failed"}
  /\ filter \in Levels /\ listeners \subseteq Clients /\ level \in [Clients -> Levels]
  /\ lock \in Clients \cup {NoOne, Stuck}
  /\ boot \in [Clients -> {"new", "wasm", "storage", "fast", "bootstrap", "up", "failed"}]
  /\ closed \in [Clients -> BOOLEAN] /\ inner \in [Clients -> BOOLEAN]
  /\ provider \in [Clients -> {"none", "open", "closed"}]
  /\ ready \in [Clients -> {"none", "client", "events"}]
  /\ usable \in [Clients -> BOOLEAN] /\ late \cup fast \subseteq Clients
  /\ call \in [Calls -> [kind : {"none", "ready", "fetch"}, on : Clients \cup {NoOne},
                         at : {"idle", "client", "waiting", "go", "fetching"}]]
  /\ \A k \in Calls : call[k].at # "idle" => call[k].on \in Clients
  /\ worker \in {"off", "starts", "retrying", "waiting", "sleeping", "serving", "failed", "ended"}

\* Whatever listeners come, go and change, the one filter of the WASM module
\* lets through what each of them asked for (wasm.ts:30-69).
ListenersHeard == \A c \in listeners, l \in Levels : l >= level[c] => c \in Hears(l)

\* What close() lets go of at once, and no later step of bootstrap() may bring
\* back.  One exception is the code's: a client closed before its bootstrap()
\* has got past the load of the WASM module makes a listener and a provider
\* that nobody closes (TorClient.ts:59-64, 160).
LetsGo == \A c \in Clients :
  closed[c] => c \in late \/ (c \notin listeners /\ provider[c] # "open")

\* What is left once close() has run its course.  Something that is still
\* under way keeps the lock, as long as it takes: a create() (lib.rs:378),
\* a fetch, a ready() that waits for events (lib.rs:335, 354).
Released(c) == ~inner[c] /\ (lock # c \/ Busy(c))

\* Wherever bootstrap, ready() and the fetches of a client are when close()
\* falls between two of their steps, it ends up released; and until then
\* and afterwards the other clients get their log lines.
ClosedIsReleased ==
  /\ [](ListenersHeard /\ LetsGo)
  /\ <>[](\A c \in Clients : closed[c] => Released(c))

\* "Close the TorClient and release resources" (TorClient.ts:152), with no
\* exception once bootstrap() is over: not what the code does.
CloseReleases ==
  <>[](\A c \in Clients :
         closed[c] /\ boot[c] \in {"up", "failed"} =>
           c \notin listeners /\ provider[c] # "open" /\ lock # c)

\* Whoever waits for ready(), the worker too, waits for a promise that is
\* still there to be settled: readyPromise is cleared for all or for none of
\* those who share it (TorClient.ts:118-138).  EverySettles needs it.
NobodyForgotten ==
  /\ \A k \in Calls : call[k].at = "waiting" => ready[call[k].on] # "none"
  /\ worker = "waiting" => \E c \in Clients : ready[c] # "none"

\* What the caller awaits is for others to end: bootstrap(), the next event
\* of arti, the answer to the request.
BootPending(c) ==
  \/ boot[c] = "wasm" /\ wasm = "loading"
  \/ boot[c] \in {"storage", "fast", "bootstrap"}
EventPending(c) == ready[c] = "events" /\ ~usable[c]
Pending(k) ==
  LET c == call[k].on
  IN \/ call[k].at \in {"client", "waiting"} /\ BootPending(c)
     \/ call[k].at = "waiting" /\ EventPending(c)
     \/ call[k].at = "fetching"

\* Every ready() and fetch() is answered, through a shared promise that is
\* cleared and made anew, failed loads and bootstraps and closes at any
\* point, unless the one thing it awaits then does not end (for which the
\* code has no timeout).  Likewise the worker gets to serve or gives its
\* host an error, unless the bootstrap of its client failed: then it retries
\* for ever, in vain.
EverySettles ==
  /\ \A k \in Calls : call[k].at # "idle" ~> call[k].at = "idle" \/ Pending(k)
  /\ worker \in {"starts", "retrying", "waiting", "sleeping"} ~>
       \/ worker \in {"failed", "serving"}
       \/ \E c \in Clients : boot[c] = "failed" \/ BootPending(c) \/ EventPending(c)

\* "Bootstrap the Tor way: retry indefinitely" (worker.ts:63): retrying
\* would get the worker to serve.  Not what the code does.
RetryHelps ==
  (worker = "sleeping" /\ \E c \in Clients : boot[c] = "failed") ~> worker = "serving"
=============================================================================
