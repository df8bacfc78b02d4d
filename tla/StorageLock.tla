----------------------------- MODULE StorageLock -----------------------------
(***************************************************************************)
(* The write lock of the client's storage: addLocking (locking.ts) and its *)
(* user CachedJsStorage (storage.rs), over several clients that share one  *)
(* store.  The lock is a Web Lock of the browser, or a lock file that      *)
(* every file operation finds in whatever state the others left it.        *)
(*                                                                         *)
(* A client tries the lock, releases it and tries again, runs, writes      *)
(* batches back while it does anything else, and is dropped.               *)
(***************************************************************************)
EXTENDS Integers, FiniteSets

CONSTANTS Clients,
          NoOne,     \* no holder, no lock file
          Stale,     \* STALE_MS, in ticks
          MaxBatch,  \* entries of a set_many still to write; bound of the model
          MaxDeaths  \* bound of the model

ASSUME LockAssumption ==
  /\ IsFiniteSet(Clients) /\ NoOne \notin Clients
  /\ Stale \in Nat \ {0} /\ MaxBatch \in Nat \ {0} /\ MaxDeaths \in Nat

VARIABLES browser,  \* navigator.locks exists
          lock,     \* who the browser granted the lock, or who wrote the file
          age,      \* ticks since the file was last touched
          stage,    \* where a client is: off, create, stat, take, release, clear, ready
          again,    \* its second tryLock is over or under way
          real,     \* hasRealLock
          overlay,  \* overlay is not null
          path,     \* lockPath is set: heartbeat and exit handler are active
          batch,    \* entries of its set_many still to be written
          owned,    \* history: it ran with the real lock
          leaked,   \* history: clients that wrote to the store and never owned
          takeover, \* history: a lock file was taken over
          deaths

wrapper == <<real, overlay, path>>
lockVars == <<lock, age>>
history == <<owned, leaked, takeover>>
lockingVars == <<browser, lockVars, stage, again, wrapper, batch, history, deaths>>

LockInit ==
  /\ browser \in BOOLEAN
  /\ lock = NoOne /\ age = 0
  /\ stage = [c \in Clients |-> "off"] /\ again = [c \in Clients |-> FALSE]
  /\ real = [c \in Clients |-> FALSE] /\ overlay = [c \in Clients |-> FALSE]
  /\ path = [c \in Clients |-> FALSE] /\ batch = [c \in Clients |-> 0]
  /\ owned = [c \in Clients |-> FALSE] /\ leaked = {} /\ takeover = FALSE
  /\ deaths = 0

MovesTo(c, st) == stage' = [stage EXCEPT ![c] = st]

-----------------------------------------------------------------------------
(* tryLock                                                                 *)

\* CachedJsStorage::new tries, unlocks and tries again.
Tried(c) == MovesTo(c, IF again[c] THEN "ready" ELSE "release")

Acquired(c) ==
  /\ lock' = c /\ age' = 0
  /\ real' = [real EXCEPT ![c] = TRUE] /\ overlay' = [overlay EXCEPT ![c] = FALSE]
  /\ path' = [path EXCEPT ![c] = ~browser]
  /\ owned' = [owned EXCEPT ![c] = again[c]]
  /\ Tried(c)

\* tryLock answers true all the same.
Denied(c) ==
  /\ overlay' = [overlay EXCEPT ![c] = TRUE]
  /\ Tried(c)
  /\ UNCHANGED <<lockVars, real, path, owned>>

\* Mutated form of Creates: the file is written whether or not it exists.
CreatesAnyway(c) ==
  /\ stage[c] = "create" /\ Acquired(c)
  /\ UNCHANGED <<browser, again, batch, leaked, takeover, deaths>>

\* Granted by the browser, or the file is created with "wx".
Creates(c) ==
  /\ stage[c] = "create" /\ lock = NoOne /\ Acquired(c)
  /\ UNCHANGED <<browser, again, batch, leaked, takeover, deaths>>

FindsHeld(c) ==
  /\ stage[c] = "create" /\ lock # NoOne
  /\ IF browser THEN Denied(c)
     ELSE MovesTo(c, "stat") /\ UNCHANGED <<lockVars, wrapper, owned>>
  /\ UNCHANGED <<browser, again, batch, leaked, takeover, deaths>>

\* Mutated form of Stats: a lock file is never stale.
StatsFresh(c) ==
  /\ stage[c] = "stat" /\ Denied(c)
  /\ UNCHANGED <<browser, again, batch, leaked, takeover, deaths>>

\* By the time of the stat the file may be gone, which counts as held.
Stats(c) ==
  /\ stage[c] = "stat"
  /\ IF lock = NoOne \/ age < Stale THEN Denied(c)
     ELSE MovesTo(c, "take") /\ UNCHANGED <<lockVars, wrapper, owned>>
  /\ UNCHANGED <<browser, again, batch, leaked, takeover, deaths>>

\* The file is overwritten as it is now, not as it was found.
TakesOver(c) ==
  /\ stage[c] = "take" /\ Acquired(c) /\ takeover' = TRUE
  /\ UNCHANGED <<browser, again, batch, leaked, deaths>>

-----------------------------------------------------------------------------
(* unlock                                                                  *)

\* The browser frees the lock; the file is unlinked, whoever wrote it.
Releases(c) ==
  /\ stage[c] = "release" /\ MovesTo(c, "clear")
  /\ lock' = IF (browser /\ lock = c) \/ path[c] THEN NoOne ELSE lock
  /\ path' = [path EXCEPT ![c] = FALSE]
  /\ UNCHANGED <<browser, age, again, real, overlay, batch, history, deaths>>

Clears(c) ==
  /\ stage[c] = "clear"
  /\ real' = [real EXCEPT ![c] = FALSE] /\ overlay' = [overlay EXCEPT ![c] = FALSE]
  /\ MovesTo(c, IF again[c] THEN "off" ELSE "create")
  /\ again' = [again EXCEPT ![c] = ~@]
  /\ UNCHANGED <<browser, lockVars, path, batch, history, deaths>>

Heartbeat(c) ==
  /\ path[c] /\ lock # NoOne /\ age > 0 /\ age' = 0
  /\ UNCHANGED <<browser, lock, stage, again, wrapper, batch, history, deaths>>

-----------------------------------------------------------------------------
(* CachedJsStorage                                                         *)

Starts(c) ==
  /\ stage[c] = "off" /\ batch[c] = 0
  /\ MovesTo(c, "create") /\ owned' = [owned EXCEPT ![c] = FALSE]
  /\ UNCHANGED <<browser, lockVars, again, wrapper, batch, leaked, takeover, deaths>>

\* A write reaches the overlay if there is one, the shared store otherwise.
Leaks(c) == IF overlay[c] \/ owned[c] THEN leaked ELSE leaked \cup {c}

\* set_many: one task that awaits each entry; it outlives the storage.
SetMany(c) ==
  /\ stage[c] = "ready" /\ batch[c] = 0
  /\ batch' = [batch EXCEPT ![c] = MaxBatch]
  /\ UNCHANGED <<browser, lockVars, stage, again, wrapper, history, deaths>>

Persists(c) ==
  /\ batch[c] > 0
  /\ batch' = [batch EXCEPT ![c] = @ - 1] /\ leaked' = Leaks(c)
  /\ UNCHANGED <<browser, lockVars, stage, again, wrapper, owned, takeover, deaths>>

ClientDrops(c) ==
  /\ stage[c] = "ready" /\ MovesTo(c, "release")
  /\ UNCHANGED <<browser, lockVars, again, wrapper, batch, history, deaths>>

-----------------------------------------------------------------------------
(* The surroundings.                                                       *)

\* A tab or process ends: the browser frees its lock, the exit handler
\* unlinks the file, unless the process was killed.
ClientDies(c) ==
  /\ stage[c] # "off" /\ deaths < MaxDeaths /\ deaths' = deaths + 1
  /\ MovesTo(c, "off")
  /\ lock' \in IF browser THEN {IF lock = c THEN NoOne ELSE lock}
               ELSE IF path[c] THEN {lock, NoOne} ELSE {lock}
  /\ again' = [again EXCEPT ![c] = FALSE] /\ real' = [real EXCEPT ![c] = FALSE]
  /\ overlay' = [overlay EXCEPT ![c] = FALSE] /\ path' = [path EXCEPT ![c] = FALSE]
  /\ batch' = [batch EXCEPT ![c] = 0]
  /\ UNCHANGED <<browser, age, history>>

\* A heartbeat may be late: the process is suspended, its loop is busy.
Tick ==
  /\ ~browser /\ lock # NoOne /\ age < Stale /\ age' = age + 1
  /\ UNCHANGED <<browser, lock, stage, again, wrapper, batch, history, deaths>>

-----------------------------------------------------------------------------
LockStep(c) ==
  Creates(c) \/ FindsHeld(c) \/ Stats(c) \/ TakesOver(c) \/ Releases(c) \/ Clears(c)

LockNext ==
  \/ Tick
  \/ \E c \in Clients :
       \/ LockStep(c) \/ Heartbeat(c) \/ ClientDies(c)
       \/ Starts(c) \/ SetMany(c) \/ Persists(c) \/ ClientDrops(c)

LockSpec == LockInit /\ [][LockNext]_lockingVars

(* Every storage call ends, time passes, and clients come and go.          *)
Fairness ==
  /\ WF_lockingVars(Tick)
  /\ \A c \in Clients :
       /\ WF_lockingVars(LockStep(c)) /\ WF_lockingVars(Persists(c))
       /\ WF_lockingVars(Starts(c)) /\ WF_lockingVars(ClientDrops(c))

FairLockSpec == LockSpec /\ Fairness

-----------------------------------------------------------------------------
(* Types, and that a running client is never without both the lock and an  *)
(* overlay, nor has both.                                                  *)
LockTypeOK ==
  /\ browser \in BOOLEAN /\ lock \in Clients \cup {NoOne} /\ age \in 0..Stale
  /\ stage \in [Clients -> {"off", "create", "stat", "take", "release", "clear", "ready"}]
  /\ \A f \in {again, real, overlay, path, owned} : f \in [Clients -> BOOLEAN]
  /\ batch \in [Clients -> 0..MaxBatch] /\ leaked \subseteq Clients
  /\ takeover \in BOOLEAN /\ deaths \in 0..MaxDeaths
  /\ \A c \in Clients : stage[c] = "ready" => real[c] # overlay[c]

(* Two running clients think they own the store at once only after a lock  *)
(* file was taken over: not through the lock-unlock-lock of start-up, late *)
(* flags, deaths or a file that vanishes between two calls.                *)
ExclusiveUntilTakeover ==
  takeover \/ \A c, d \in Clients :
    stage[c] = "ready" /\ stage[d] = "ready" /\ real[c] /\ real[d] => c = d

(* A lock is never lost: whoever dies with it, and whatever file is left   *)
(* behind, it is granted again and again as long as clients come and go.   *)
LockReturns == []<>(\E c \in Clients : real[c])

(* A client that could not get the lock writes to its overlay only.        *)
OverlayKeepsWrites == leaked = {}
=============================================================================
