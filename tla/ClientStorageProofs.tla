------------------------ MODULE ClientStorageProofs ------------------------
(***************************************************************************)
(* The storage of the client: its lock, and what is written through it.    *)
(*                                                                         *)
(* StorageLock, for any number of clients: two running clients own the     *)
(* store at once only after a lock file was taken over, which for a lock   *)
(* of the browser never happens.  FastBootstrap, for any keys, any archive *)
(* and any number of starts, writes and failures: after the write-back the *)
(* storage holds what the cache says, a start that skips the archive has   *)
(* all of it, each up to the exceptions that the code makes, and the       *)
(* archive reader returns whole members only.                              *)
(***************************************************************************)
EXTENDS StorageLock, FastBootstrap,
        SequenceTheorems, NaturalsInduction, WellFoundedInduction, TLAPS

-----------------------------------------------------------------------------
(* StorageLock: the inductive invariant, and every step                    *)

\* Whoever tries the lock has none of what a lock comes with: the first
\* tryLock of CachedJsStorage::new is undone before the second.
TriesBare ==
  \A c \in Clients :
    /\ stage[c] \in {"off", "create", "stat", "take"} =>
         ~real[c] /\ ~overlay[c] /\ ~path[c]
    /\ stage[c] = "clear" => ~path[c]
    /\ stage[c] = "release" => real[c] # overlay[c]

\* Until a lock file is taken over, a client that has the real lock, or set
\* lockPath, is the one the lock is recorded for.
HoldersHold ==
  takeover \/ \A c \in Clients :
    /\ path[c] => lock = c
    /\ real[c] /\ stage[c] \in {"ready", "release"} =>
         lock = c /\ (browser \/ path[c])

\* A Web Lock is not taken over: only a lock file can be stale.
WebLockStays ==
  browser => ~takeover /\ \A c \in Clients : stage[c] \notin {"stat", "take"}

LockInv == LockTypeOK /\ TriesBare /\ HoldersHold /\ WebLockStays

\* Two running clients do not both think they own the store.
OneOwner ==
  \A c, d \in Clients :
    stage[c] = "ready" /\ stage[d] = "ready" /\ real[c] /\ real[d] => c = d

LEMMA LockStart == LockInit => LockInv
<1> SUFFICES ASSUME LockInit PROVE LockInv
  OBVIOUS
<1>1. \A f \in {again, real, overlay, path, owned} : f \in [Clients -> BOOLEAN]
  BY DEF LockInit
<1>2. LockTypeOK
  <2>1. \A c \in Clients : stage[c] = "ready" => real[c] # overlay[c]
    BY DEF LockInit
  <2>2. age \in 0..Stale /\ deaths \in 0..MaxDeaths
        /\ batch \in [Clients -> 0..MaxBatch]
    BY LockAssumption DEF LockInit
  <2>3. QED
    BY <1>1, <2>1, <2>2 DEF LockInit, LockTypeOK
<1>3. TriesBare /\ HoldersHold /\ WebLockStays
  BY DEF LockInit, TriesBare, HoldersHold, WebLockStays
<1>4. QED
  BY <1>2, <1>3 DEF LockInv

\* The flags of a client, one by one.
LEMMA Flags ==
  ASSUME LockTypeOK
  PROVE  /\ again \in [Clients -> BOOLEAN] /\ real \in [Clients -> BOOLEAN]
         /\ overlay \in [Clients -> BOOLEAN] /\ path \in [Clients -> BOOLEAN]
         /\ owned \in [Clients -> BOOLEAN] /\ browser \in BOOLEAN
BY DEF LockTypeOK

LEMMA CreatesOK == ASSUME LockInv, NEW c \in Clients, Creates(c) PROVE LockInv'
<1>1. LockTypeOK'
  <2>1. /\ again' \in [Clients -> BOOLEAN] /\ real' \in [Clients -> BOOLEAN]
        /\ overlay' \in [Clients -> BOOLEAN] /\ path' \in [Clients -> BOOLEAN]
        /\ owned' \in [Clients -> BOOLEAN]
    BY Flags DEF LockInv, Creates, Acquired, Tried, MovesTo
  <2>2. \A x \in Clients : stage'[x] = "ready" => real'[x] # overlay'[x]
    BY DEF LockInv, LockTypeOK, TriesBare, Creates, Acquired, Tried, MovesTo
  <2>3. /\ browser' \in BOOLEAN /\ lock' \in Clients \cup {NoOne}
        /\ age' \in 0..Stale /\ leaked' \subseteq Clients
        /\ takeover' \in BOOLEAN /\ deaths' \in 0..MaxDeaths
    BY LockAssumption DEF LockInv, LockTypeOK, Creates, Acquired, Tried, MovesTo
  <2>4. batch' \in [Clients -> 0..MaxBatch]
    BY LockAssumption DEF LockInv, LockTypeOK, Creates, Acquired, Tried, MovesTo
  <2>5. stage' \in [Clients -> {"off", "create", "stat", "take",
                               "release", "clear", "ready"}]
    BY DEF LockInv, LockTypeOK, Creates, Acquired, Tried, MovesTo
  <2>6. QED
    BY <2>1, <2>2, <2>3, <2>4, <2>5 DEF LockTypeOK
<1>2. TriesBare'
  BY DEF LockInv, LockTypeOK, TriesBare, Creates, Acquired, Tried, MovesTo
<1>3. HoldersHold'
  BY LockAssumption DEF LockInv, LockTypeOK, TriesBare, HoldersHold, Creates,
     Acquired, Tried, MovesTo
<1>4. WebLockStays'
  BY DEF LockInv, LockTypeOK, WebLockStays, Creates, Acquired, Tried, MovesTo
<1>5. QED
  BY <1>1, <1>2, <1>3, <1>4 DEF LockInv

LEMMA FindsHeldOK == ASSUME LockInv, NEW c \in Clients, FindsHeld(c) PROVE LockInv'
<1>1. LockTypeOK'
  <2>1. /\ again' \in [Clients -> BOOLEAN] /\ real' \in [Clients -> BOOLEAN]
        /\ overlay' \in [Clients -> BOOLEAN] /\ path' \in [Clients -> BOOLEAN]
        /\ owned' \in [Clients -> BOOLEAN]
    BY Flags DEF LockInv, FindsHeld, Denied, Tried, MovesTo, lockVars, wrapper
  <2>2. \A x \in Clients : stage'[x] = "ready" => real'[x] # overlay'[x]
    BY DEF LockInv, LockTypeOK, TriesBare, FindsHeld, Denied, Tried, MovesTo, lockVars,
       wrapper
  <2>3. /\ browser' \in BOOLEAN /\ lock' \in Clients \cup {NoOne}
        /\ age' \in 0..Stale /\ leaked' \subseteq Clients
        /\ takeover' \in BOOLEAN /\ deaths' \in 0..MaxDeaths
    BY LockAssumption DEF LockInv, LockTypeOK, FindsHeld, Denied, Tried, MovesTo,
       lockVars, wrapper
  <2>4. batch' \in [Clients -> 0..MaxBatch]
    BY LockAssumption DEF LockInv, LockTypeOK, FindsHeld, Denied, Tried, MovesTo,
       lockVars, wrapper
  <2>5. stage' \in [Clients -> {"off", "create", "stat", "take",
                               "release", "clear", "ready"}]
    BY DEF LockInv, LockTypeOK, FindsHeld, Denied, Tried, MovesTo, lockVars, wrapper
  <2>6. QED
    BY <2>1, <2>2, <2>3, <2>4, <2>5 DEF LockTypeOK
<1>2. TriesBare'
  BY DEF LockInv, LockTypeOK, TriesBare, FindsHeld, Denied, Tried, MovesTo, lockVars,
     wrapper
<1>3. HoldersHold'
  BY LockAssumption DEF LockInv, LockTypeOK, TriesBare, HoldersHold, FindsHeld, Denied,
     Tried, MovesTo, lockVars, wrapper
<1>4. WebLockStays'
  BY DEF LockInv, LockTypeOK, WebLockStays, FindsHeld, Denied, Tried, MovesTo, lockVars,
     wrapper
<1>5. QED
  BY <1>1, <1>2, <1>3, <1>4 DEF LockInv

LEMMA StatsOK == ASSUME LockInv, NEW c \in Clients, Stats(c) PROVE LockInv'
<1>1. LockTypeOK'
  <2>1. /\ again' \in [Clients -> BOOLEAN] /\ real' \in [Clients -> BOOLEAN]
        /\ overlay' \in [Clients -> BOOLEAN] /\ path' \in [Clients -> BOOLEAN]
        /\ owned' \in [Clients -> BOOLEAN]
    BY Flags DEF LockInv, Stats, Denied, Tried, MovesTo, lockVars, wrapper
  <2>2. \A x \in Clients : stage'[x] = "ready" => real'[x] # overlay'[x]
    BY DEF LockInv, LockTypeOK, TriesBare, Stats, Denied, Tried, MovesTo, lockVars,
       wrapper
  <2>3. /\ browser' \in BOOLEAN /\ lock' \in Clients \cup {NoOne}
        /\ age' \in 0..Stale /\ leaked' \subseteq Clients
        /\ takeover' \in BOOLEAN /\ deaths' \in 0..MaxDeaths
    BY LockAssumption DEF LockInv, LockTypeOK, Stats, Denied, Tried, MovesTo, lockVars,
       wrapper
  <2>4. batch' \in [Clients -> 0..MaxBatch]
    BY LockAssumption DEF LockInv, LockTypeOK, Stats, Denied, Tried, MovesTo, lockVars,
       wrapper
  <2>5. stage' \in [Clients -> {"off", "create", "stat", "take",
                               "release", "clear", "ready"}]
    BY DEF LockInv, LockTypeOK, Stats, Denied, Tried, MovesTo, lockVars, wrapper
  <2>6. QED
    BY <2>1, <2>2, <2>3, <2>4, <2>5 DEF LockTypeOK
<1>2. TriesBare'
  BY DEF LockInv, LockTypeOK, TriesBare, Stats, Denied, Tried, MovesTo, lockVars,
     wrapper
<1>3. HoldersHold'
  BY LockAssumption DEF LockInv, LockTypeOK, TriesBare, HoldersHold, Stats, Denied,
     Tried, MovesTo, lockVars, wrapper
<1>4. WebLockStays'
  BY DEF LockInv, LockTypeOK, WebLockStays, Stats, Denied, Tried, MovesTo, lockVars,
     wrapper
<1>5. QED
  BY <1>1, <1>2, <1>3, <1>4 DEF LockInv

LEMMA TakesOverOK == ASSUME LockInv, NEW c \in Clients, TakesOver(c) PROVE LockInv'
<1>1. LockTypeOK'
  <2>1. /\ again' \in [Clients -> BOOLEAN] /\ real' \in [Clients -> BOOLEAN]
        /\ overlay' \in [Clients -> BOOLEAN] /\ path' \in [Clients -> BOOLEAN]
        /\ owned' \in [Clients -> BOOLEAN]
    BY Flags DEF LockInv, TakesOver, Acquired, Tried, MovesTo
  <2>2. \A x \in Clients : stage'[x] = "ready" => real'[x] # overlay'[x]
    BY DEF LockInv, LockTypeOK, TriesBare, TakesOver, Acquired, Tried, MovesTo
  <2>3. /\ browser' \in BOOLEAN /\ lock' \in Clients \cup {NoOne}
        /\ age' \in 0..Stale /\ leaked' \subseteq Clients
        /\ takeover' \in BOOLEAN /\ deaths' \in 0..MaxDeaths
    BY LockAssumption DEF LockInv, LockTypeOK, TakesOver, Acquired, Tried, MovesTo
  <2>4. batch' \in [Clients -> 0..MaxBatch]
    BY LockAssumption DEF LockInv, LockTypeOK, TakesOver, Acquired, Tried, MovesTo
  <2>5. stage' \in [Clients -> {"off", "create", "stat", "take",
                               "release", "clear", "ready"}]
    BY DEF LockInv, LockTypeOK, TakesOver, Acquired, Tried, MovesTo
  <2>6. QED
    BY <2>1, <2>2, <2>3, <2>4, <2>5 DEF LockTypeOK
<1>2. TriesBare'
  BY DEF LockInv, LockTypeOK, TriesBare, TakesOver, Acquired, Tried, MovesTo
<1>3. HoldersHold'
  BY LockAssumption DEF LockInv, LockTypeOK, TriesBare, HoldersHold, TakesOver,
     Acquired, Tried, MovesTo
<1>4. WebLockStays'
  BY DEF LockInv, LockTypeOK, WebLockStays, TakesOver, Acquired, Tried, MovesTo
<1>5. QED
  BY <1>1, <1>2, <1>3, <1>4 DEF LockInv

LEMMA ReleasesOK == ASSUME LockInv, NEW c \in Clients, Releases(c) PROVE LockInv'
<1>1. LockTypeOK'
  <2>1. /\ again' \in [Clients -> BOOLEAN] /\ real' \in [Clients -> BOOLEAN]
        /\ overlay' \in [Clients -> BOOLEAN] /\ path' \in [Clients -> BOOLEAN]
        /\ owned' \in [Clients -> BOOLEAN]
    BY Flags DEF LockInv, Releases, MovesTo, history
  <2>2. \A x \in Clients : stage'[x] = "ready" => real'[x] # overlay'[x]
    BY DEF LockInv, LockTypeOK, TriesBare, Releases, MovesTo, history
  <2>3. /\ browser' \in BOOLEAN /\ lock' \in Clients \cup {NoOne}
        /\ age' \in 0..Stale /\ leaked' \subseteq Clients
        /\ takeover' \in BOOLEAN /\ deaths' \in 0..MaxDeaths
    BY LockAssumption DEF LockInv, LockTypeOK, Releases, MovesTo, history
  <2>4. batch' \in [Clients -> 0..MaxBatch]
    BY LockAssumption DEF LockInv, LockTypeOK, Releases, MovesTo, history
  <2>5. stage' \in [Clients -> {"off", "create", "stat", "take",
                               "release", "clear", "ready"}]
    BY DEF LockInv, LockTypeOK, Releases, MovesTo, history
  <2>6. QED
    BY <2>1, <2>2, <2>3, <2>4, <2>5 DEF LockTypeOK
<1>2. TriesBare'
  BY DEF LockInv, LockTypeOK, TriesBare, Releases, MovesTo, history
<1>3. HoldersHold'
  BY LockAssumption DEF LockInv, LockTypeOK, TriesBare, HoldersHold, Releases, MovesTo,
     history
<1>4. WebLockStays'
  BY DEF LockInv, LockTypeOK, WebLockStays, Releases, MovesTo, history
<1>5. QED
  BY <1>1, <1>2, <1>3, <1>4 DEF LockInv

LEMMA ClearsOK == ASSUME LockInv, NEW c \in Clients, Clears(c) PROVE LockInv'
<1>1. LockTypeOK'
  <2>1. /\ again' \in [Clients -> BOOLEAN] /\ real' \in [Clients -> BOOLEAN]
        /\ overlay' \in [Clients -> BOOLEAN] /\ path' \in [Clients -> BOOLEAN]
        /\ owned' \in [Clients -> BOOLEAN]
    BY Flags DEF LockInv, Clears, MovesTo, lockVars, history
  <2>2. \A x \in Clients : stage'[x] = "ready" => real'[x] # overlay'[x]
    BY DEF LockInv, LockTypeOK, TriesBare, Clears, MovesTo, lockVars, history
  <2>3. /\ browser' \in BOOLEAN /\ lock' \in Clients \cup {NoOne}
        /\ age' \in 0..Stale /\ leaked' \subseteq Clients
        /\ takeover' \in BOOLEAN /\ deaths' \in 0..MaxDeaths
    BY LockAssumption DEF LockInv, LockTypeOK, Clears, MovesTo, lockVars, history
  <2>4. batch' \in [Clients -> 0..MaxBatch]
    BY LockAssumption DEF LockInv, LockTypeOK, Clears, MovesTo, lockVars, history
  <2>5. stage' \in [Clients -> {"off", "create", "stat", "take",
                               "release", "clear", "ready"}]
    BY DEF LockInv, LockTypeOK, Clears, MovesTo, lockVars, history
  <2>6. QED
    BY <2>1, <2>2, <2>3, <2>4, <2>5 DEF LockTypeOK
<1>2. TriesBare'
  BY DEF LockInv, LockTypeOK, TriesBare, Clears, MovesTo, lockVars, history
<1>3. HoldersHold'
  BY LockAssumption DEF LockInv, LockTypeOK, TriesBare, HoldersHold, Clears, MovesTo,
     lockVars, history
<1>4. WebLockStays'
  BY DEF LockInv, LockTypeOK, WebLockStays, Clears, MovesTo, lockVars, history
<1>5. QED
  BY <1>1, <1>2, <1>3, <1>4 DEF LockInv

LEMMA HeartbeatOK == ASSUME LockInv, NEW c \in Clients, Heartbeat(c) PROVE LockInv'
<1>1. LockTypeOK'
  <2>1. /\ again' \in [Clients -> BOOLEAN] /\ real' \in [Clients -> BOOLEAN]
        /\ overlay' \in [Clients -> BOOLEAN] /\ path' \in [Clients -> BOOLEAN]
        /\ owned' \in [Clients -> BOOLEAN]
    BY Flags DEF LockInv, Heartbeat, wrapper, history
  <2>2. \A x \in Clients : stage'[x] = "ready" => real'[x] # overlay'[x]
    BY DEF LockInv, LockTypeOK, TriesBare, Heartbeat, wrapper, history
  <2>3. /\ browser' \in BOOLEAN /\ lock' \in Clients \cup {NoOne}
        /\ age' \in 0..Stale /\ leaked' \subseteq Clients
        /\ takeover' \in BOOLEAN /\ deaths' \in 0..MaxDeaths
    BY LockAssumption DEF LockInv, LockTypeOK, Heartbeat, wrapper, history
  <2>4. batch' \in [Clients -> 0..MaxBatch]
    BY LockAssumption DEF LockInv, LockTypeOK, Heartbeat, wrapper, history
  <2>5. stage' \in [Clients -> {"off", "create", "stat", "take",
                               "release", "clear", "ready"}]
    BY DEF LockInv, LockTypeOK, Heartbeat, wrapper, history
  <2>6. QED
    BY <2>1, <2>2, <2>3, <2>4, <2>5 DEF LockTypeOK
<1>2. TriesBare'
  BY DEF LockInv, LockTypeOK, TriesBare, Heartbeat, wrapper, history
<1>3. HoldersHold'
  BY LockAssumption DEF LockInv, LockTypeOK, TriesBare, HoldersHold, Heartbeat,
     wrapper, history
<1>4. WebLockStays'
  BY DEF LockInv, LockTypeOK, WebLockStays, Heartbeat, wrapper, history
<1>5. QED
  BY <1>1, <1>2, <1>3, <1>4 DEF LockInv

LEMMA ClientDiesOK == ASSUME LockInv, NEW c \in Clients, ClientDies(c) PROVE LockInv'
<1>1. LockTypeOK'
  <2>1. /\ again' \in [Clients -> BOOLEAN] /\ real' \in [Clients -> BOOLEAN]
        /\ overlay' \in [Clients -> BOOLEAN] /\ path' \in [Clients -> BOOLEAN]
        /\ owned' \in [Clients -> BOOLEAN]
    BY Flags DEF LockInv, ClientDies, MovesTo, history
  <2>2. \A x \in Clients : stage'[x] = "ready" => real'[x] # overlay'[x]
    BY DEF LockInv, LockTypeOK, TriesBare, ClientDies, MovesTo, history
  <2>3. /\ browser' \in BOOLEAN /\ lock' \in Clients \cup {NoOne}
        /\ age' \in 0..Stale /\ leaked' \subseteq Clients
        /\ takeover' \in BOOLEAN /\ deaths' \in 0..MaxDeaths
    BY LockAssumption DEF LockInv, LockTypeOK, ClientDies, MovesTo, history
  <2>4. batch' \in [Clients -> 0..MaxBatch]
    BY LockAssumption DEF LockInv, LockTypeOK, ClientDies, MovesTo, history
  <2>5. stage' \in [Clients -> {"off", "create", "stat", "take",
                               "release", "clear", "ready"}]
    BY DEF LockInv, LockTypeOK, ClientDies, MovesTo, history
  <2>6. QED
    BY <2>1, <2>2, <2>3, <2>4, <2>5 DEF LockTypeOK
<1>2. TriesBare'
  BY DEF LockInv, LockTypeOK, TriesBare, ClientDies, MovesTo, history
<1>3. HoldersHold'
  BY LockAssumption DEF LockInv, LockTypeOK, TriesBare, HoldersHold, ClientDies, MovesTo,
     history
<1>4. WebLockStays'
  BY DEF LockInv, LockTypeOK, WebLockStays, ClientDies, MovesTo, history
<1>5. QED
  BY <1>1, <1>2, <1>3, <1>4 DEF LockInv

LEMMA StartsOK == ASSUME LockInv, NEW c \in Clients, Starts(c) PROVE LockInv'
<1>1. LockTypeOK'
  <2>1. /\ again' \in [Clients -> BOOLEAN] /\ real' \in [Clients -> BOOLEAN]
        /\ overlay' \in [Clients -> BOOLEAN] /\ path' \in [Clients -> BOOLEAN]
        /\ owned' \in [Clients -> BOOLEAN]
    BY Flags DEF LockInv, Starts, MovesTo, lockVars, wrapper
  <2>2. \A x \in Clients : stage'[x] = "ready" => real'[x] # overlay'[x]
    BY DEF LockInv, LockTypeOK, TriesBare, Starts, MovesTo, lockVars, wrapper
  <2>3. /\ browser' \in BOOLEAN /\ lock' \in Clients \cup {NoOne}
        /\ age' \in 0..Stale /\ leaked' \subseteq Clients
        /\ takeover' \in BOOLEAN /\ deaths' \in 0..MaxDeaths
    BY LockAssumption DEF LockInv, LockTypeOK, Starts, MovesTo, lockVars, wrapper
  <2>4. batch' \in [Clients -> 0..MaxBatch]
    BY LockAssumption DEF LockInv, LockTypeOK, Starts, MovesTo, lockVars, wrapper
  <2>5. stage' \in [Clients -> {"off", "create", "stat", "take",
                               "release", "clear", "ready"}]
    BY DEF LockInv, LockTypeOK, Starts, MovesTo, lockVars, wrapper
  <2>6. QED
    BY <2>1, <2>2, <2>3, <2>4, <2>5 DEF LockTypeOK
<1>2. TriesBare'
  BY DEF LockInv, LockTypeOK, TriesBare, Starts, MovesTo, lockVars, wrapper
<1>3. HoldersHold'
  BY LockAssumption DEF LockInv, LockTypeOK, TriesBare, HoldersHold, Starts, MovesTo,
     lockVars, wrapper
<1>4. WebLockStays'
  BY DEF LockInv, LockTypeOK, WebLockStays, Starts, MovesTo, lockVars, wrapper
<1>5. QED
  BY <1>1, <1>2, <1>3, <1>4 DEF LockInv

LEMMA SetManyOK == ASSUME LockInv, NEW c \in Clients, SetMany(c) PROVE LockInv'
<1>1. LockTypeOK'
  <2>1. /\ again' \in [Clients -> BOOLEAN] /\ real' \in [Clients -> BOOLEAN]
        /\ overlay' \in [Clients -> BOOLEAN] /\ path' \in [Clients -> BOOLEAN]
        /\ owned' \in [Clients -> BOOLEAN]
    BY Flags DEF LockInv, SetMany, lockVars, wrapper, history
  <2>2. \A x \in Clients : stage'[x] = "ready" => real'[x] # overlay'[x]
    BY DEF LockInv, LockTypeOK, TriesBare, SetMany, lockVars, wrapper, history
  <2>3. /\ browser' \in BOOLEAN /\ lock' \in Clients \cup {NoOne}
        /\ age' \in 0..Stale /\ leaked' \subseteq Clients
        /\ takeover' \in BOOLEAN /\ deaths' \in 0..MaxDeaths
    BY LockAssumption DEF LockInv, LockTypeOK, SetMany, lockVars, wrapper, history
  <2>4. batch' \in [Clients -> 0..MaxBatch]
    BY LockAssumption DEF LockInv, LockTypeOK, SetMany, lockVars, wrapper, history
  <2>5. stage' \in [Clients -> {"off", "create", "stat", "take",
                               "release", "clear", "ready"}]
    BY DEF LockInv, LockTypeOK, SetMany, lockVars, wrapper, history
  <2>6. QED
    BY <2>1, <2>2, <2>3, <2>4, <2>5 DEF LockTypeOK
<1>2. TriesBare'
  BY DEF LockInv, LockTypeOK, TriesBare, SetMany, lockVars, wrapper, history
<1>3. HoldersHold'
  BY LockAssumption DEF LockInv, LockTypeOK, TriesBare, HoldersHold, SetMany,
     lockVars, wrapper, history
<1>4. WebLockStays'
  BY DEF LockInv, LockTypeOK, WebLockStays, SetMany, lockVars, wrapper, history
<1>5. QED
  BY <1>1, <1>2, <1>3, <1>4 DEF LockInv

LEMMA PersistsOK == ASSUME LockInv, NEW c \in Clients, Persists(c) PROVE LockInv'
<1>1. LockTypeOK'
  <2>1. /\ again' \in [Clients -> BOOLEAN] /\ real' \in [Clients -> BOOLEAN]
        /\ overlay' \in [Clients -> BOOLEAN] /\ path' \in [Clients -> BOOLEAN]
        /\ owned' \in [Clients -> BOOLEAN]
    BY Flags DEF LockInv, Persists, Leaks, lockVars, wrapper
  <2>2. \A x \in Clients : stage'[x] = "ready" => real'[x] # overlay'[x]
    BY DEF LockInv, LockTypeOK, TriesBare, Persists, Leaks, lockVars, wrapper
  <2>3. /\ browser' \in BOOLEAN /\ lock' \in Clients \cup {NoOne}
        /\ age' \in 0..Stale /\ leaked' \subseteq Clients
        /\ takeover' \in BOOLEAN /\ deaths' \in 0..MaxDeaths
    BY LockAssumption DEF LockInv, LockTypeOK, Persists, Leaks, lockVars, wrapper
  <2>4. batch' \in [Clients -> 0..MaxBatch]
    BY LockAssumption DEF LockInv, LockTypeOK, Persists, Leaks, lockVars, wrapper
  <2>5. stage' \in [Clients -> {"off", "create", "stat", "take",
                               "release", "clear", "ready"}]
    BY DEF LockInv, LockTypeOK, Persists, Leaks, lockVars, wrapper
  <2>6. QED
    BY <2>1, <2>2, <2>3, <2>4, <2>5 DEF LockTypeOK
<1>2. TriesBare'
  BY DEF LockInv, LockTypeOK, TriesBare, Persists, Leaks, lockVars, wrapper
<1>3. HoldersHold'
  BY LockAssumption DEF LockInv, LockTypeOK, TriesBare, HoldersHold, Persists, Leaks,
     lockVars, wrapper
<1>4. WebLockStays'
  BY DEF LockInv, LockTypeOK, WebLockStays, Persists, Leaks, lockVars, wrapper
<1>5. QED
  BY <1>1, <1>2, <1>3, <1>4 DEF LockInv

LEMMA ClientDropsOK == ASSUME LockInv, NEW c \in Clients, ClientDrops(c) PROVE LockInv'
<1>1. LockTypeOK'
  <2>1. /\ again' \in [Clients -> BOOLEAN] /\ real' \in [Clients -> BOOLEAN]
        /\ overlay' \in [Clients -> BOOLEAN] /\ path' \in [Clients -> BOOLEAN]
        /\ owned' \in [Clients -> BOOLEAN]
    BY Flags DEF LockInv, ClientDrops, MovesTo, lockVars, wrapper, history
  <2>2. \A x \in Clients : stage'[x] = "ready" => real'[x] # overlay'[x]
    BY DEF LockInv, LockTypeOK, TriesBare, ClientDrops, MovesTo, lockVars, wrapper, history
  <2>3. /\ browser' \in BOOLEAN /\ lock' \in Clients \cup {NoOne}
        /\ age' \in 0..Stale /\ leaked' \subseteq Clients
        /\ takeover' \in BOOLEAN /\ deaths' \in 0..MaxDeaths
    BY LockAssumption DEF LockInv, LockTypeOK, ClientDrops, MovesTo, lockVars, wrapper,
       history
  <2>4. batch' \in [Clients -> 0..MaxBatch]
    BY LockAssumption DEF LockInv, LockTypeOK, ClientDrops, MovesTo, lockVars, wrapper,
       history
  <2>5. stage' \in [Clients -> {"off", "create", "stat", "take",
                               "release", "clear", "ready"}]
    BY DEF LockInv, LockTypeOK, ClientDrops, MovesTo, lockVars, wrapper, history
  <2>6. QED
    BY <2>1, <2>2, <2>3, <2>4, <2>5 DEF LockTypeOK
<1>2. TriesBare'
  BY DEF LockInv, LockTypeOK, TriesBare, ClientDrops, MovesTo, lockVars, wrapper, history
<1>3. HoldersHold'
  BY LockAssumption DEF LockInv, LockTypeOK, TriesBare, HoldersHold, ClientDrops, MovesTo,
     lockVars, wrapper, history
<1>4. WebLockStays'
  BY DEF LockInv, LockTypeOK, WebLockStays, ClientDrops, MovesTo, lockVars, wrapper, history
<1>5. QED
  BY <1>1, <1>2, <1>3, <1>4 DEF LockInv

LEMMA TickOK == ASSUME LockInv, Tick PROVE LockInv'
BY LockAssumption DEF LockInv, LockTypeOK, TriesBare, HoldersHold, WebLockStays,
   Tick, wrapper, history

LEMMA LockStutterOK == ASSUME LockInv, UNCHANGED lockingVars PROVE LockInv'
BY DEF LockInv, LockTypeOK, TriesBare, HoldersHold, WebLockStays, lockingVars, lockVars,
   wrapper, history

LEMMA LockStepOK == LockInv /\ [LockNext]_lockingVars => LockInv'
<1> SUFFICES ASSUME LockInv, [LockNext]_lockingVars PROVE LockInv'
  OBVIOUS
<1>1. CASE Tick
  BY <1>1, TickOK
<1>2. ASSUME NEW c \in Clients, LockStep(c) PROVE LockInv'
  BY <1>2, CreatesOK, FindsHeldOK, StatsOK, TakesOverOK, ReleasesOK, ClearsOK
     DEF LockStep
<1>3. ASSUME NEW c \in Clients,
             Heartbeat(c) \/ ClientDies(c) \/ Starts(c) \/ SetMany(c)
               \/ Persists(c) \/ ClientDrops(c)
      PROVE  LockInv'
  BY <1>3, HeartbeatOK, ClientDiesOK, StartsOK, SetManyOK, PersistsOK, ClientDropsOK
<1>4. CASE UNCHANGED lockingVars
  BY <1>4, LockStutterOK
<1>5. QED
  BY <1>1, <1>2, <1>3, <1>4 DEF LockNext

LEMMA Exclusive ==
  ASSUME LockInv PROVE ExclusiveUntilTakeover /\ (browser => OneOwner)
BY DEF LockInv, HoldersHold, WebLockStays, ExclusiveUntilTakeover, OneOwner

\* The lock and the flags of addLocking keep their types, and a running client
\* has the real lock or an overlay, and never both (locking.ts, tryLock and
\* unlock).
THEOREM LockTypesHold == LockSpec => []LockTypeOK
<1>1. LockInv => LockTypeOK
  BY DEF LockInv
<1>2. QED
  BY LockStart, LockStepOK, <1>1, PTL DEF LockSpec

\* Two running clients think they own the store at once only after a lock file
\* was taken over (locking.ts, tryLock and unlock; CachedJsStorage::new).
THEOREM Ownership == LockSpec => []ExclusiveUntilTakeover
<1>1. LockInv => ExclusiveUntilTakeover
  BY Exclusive
<1>2. QED
  BY LockStart, LockStepOK, <1>1, PTL DEF LockSpec

\* With navigator.locks there is no exception: at most one running client
\* thinks that it owns the store (locking.ts, the Web Locks branch).
THEOREM WebLockOwnership == LockSpec => [](browser => OneOwner)
<1>1. LockInv => (browser => OneOwner)
  BY Exclusive
<1>2. QED
  BY LockStart, LockStepOK, <1>1, PTL DEF LockSpec

-----------------------------------------------------------------------------
(* Sequences                                                               *)

\* A set with 0 and every successor of its members has every number.
LEMMA Induct ==
  ASSUME NEW T, 0 \in T, \A n \in Nat : n \in T => n + 1 \in T
  PROVE  Nat \subseteq T
<1> SUFFICES ASSUME Nat \ T # {} PROVE FALSE
  OBVIOUS
<1>1. IsWellFoundedOn(OpToRel(<, Nat), Nat)
  BY NatLessThanWellFounded
<1>2. PICK x \in Nat \ T : \A y \in Nat \ T : ~(<<y, x>> \in OpToRel(<, Nat))
  BY <1>1, WFMin
<1>3. x # 0 /\ x \in Nat
  BY <1>2
<1>3a. x - 1 \in Nat /\ x - 1 < x /\ (x - 1) + 1 = x
  BY <1>3
<1>4. x - 1 \in T
  BY <1>2, <1>3, <1>3a DEF OpToRel
<1>5. QED
  BY <1>2, <1>3a, <1>4

\* The partial results of FlattenSeq over the first n sequences of s.
Partial(f, s, n) ==
  \A i \in 1..n : f[i] = IF i = 1 THEN s[i] ELSE f[i - 1] \o s[i]

\* The partial results exist, whatever the sequences.
LEMMA PartialExists ==
  ASSUME NEW S, NEW s \in Seq(Seq(S))
  PROVE  \A n \in 0..Len(s) : \E f \in [1..n -> Seq(S)] : Partial(f, s, n)
<1> DEFINE T == {n \in Nat : n <= Len(s) => \E f \in [1..n -> Seq(S)] : Partial(f, s, n)}
<1>1. 0 \in T
  <2>1. [i \in 1..0 |-> <<>>] \in [1..0 -> Seq(S)]
    OBVIOUS
  <2>2. Partial([i \in 1..0 |-> <<>>], s, 0)
    BY DEF Partial
  <2>3. QED
    BY <2>1, <2>2
<1>2. ASSUME NEW n \in Nat, n \in T PROVE n + 1 \in T
  <2>1. SUFFICES ASSUME n + 1 <= Len(s)
                 PROVE \E f \in [1..(n + 1) -> Seq(S)] : Partial(f, s, n + 1)
    OBVIOUS
  <2>2. PICK f \in [1..n -> Seq(S)] : Partial(f, s, n)
    BY <1>2, <2>1
  <2>3. s[n + 1] \in Seq(S) /\ (n > 0 => f[n] \in Seq(S))
    BY <2>1
  <2>4. n > 0 => f[n] \o s[n + 1] \in Seq(S)
    BY <2>3, ConcatProperties
  <2> DEFINE e == IF n = 0 THEN s[1] ELSE f[n] \o s[n + 1]
             h == [i \in 1..(n + 1) |-> IF i = n + 1 THEN e ELSE f[i]]
  <2>5. e \in Seq(S)
    BY <2>3, <2>4
  <2> HIDE DEF e
  <2>6. h \in [1..(n + 1) -> Seq(S)]
    BY <2>5
  <2>7. Partial(h, s, n + 1)
    <3>1. ASSUME NEW i \in 1..(n + 1)
          PROVE  h[i] = IF i = 1 THEN s[i] ELSE h[i - 1] \o s[i]
      <4>1. CASE i = n + 1
        BY <4>1 DEF e
      <4>2. CASE i # n + 1
        <5>1. i \in 1..n /\ h[i] = f[i] /\ (i # 1 => h[i - 1] = f[i - 1])
          BY <4>2
        <5>2. QED
          BY <2>2, <5>1 DEF Partial
      <4>3. QED
        BY <4>1, <4>2
    <3> HIDE DEF h
    <3>2. QED
      BY <3>1 DEF Partial
  <2>8. QED
    BY <2>6, <2>7
<1> HIDE DEF T
<1>3. Nat \subseteq T
  BY <1>1, <1>2, Induct
<1>4. QED
  BY <1>3 DEF T

\* FlattenSeq is the last of the partial results.
LEMMA FlattenIsPartial ==
  ASSUME NEW S, NEW s \in Seq(Seq(S)), Len(s) > 0
  PROVE  \E f \in [1..Len(s) -> Seq(S)] :
           Partial(f, s, Len(s)) /\ FlattenSeq(s) = f[Len(s)]
<1> DEFINE n == Len(s)
<1>1. PICK f \in [1..n -> Seq(S)] : Partial(f, s, n)
  BY PartialExists
<1> DEFINE IsRec(g) == g = [i \in 1..n |-> IF i = 1 THEN s[i] ELSE g[i - 1] \o s[i]]
           F == CHOOSE g : IsRec(g)
<1>2. IsRec(f)
  BY <1>1 DEF Partial
<1>3. IsRec(F)
  BY <1>2
<1>4. FlattenSeq(s) = F[n]
  BY DEF FlattenSeq
<1> HIDE DEF F
<1>5. \A i \in 1..n : F[i] = IF i = 1 THEN s[i] ELSE F[i - 1] \o s[i]
  BY <1>3
<1> DEFINE T == {k \in Nat : k \in 1..n => F[k] = f[k]}
<1>6. ASSUME NEW k \in Nat, k \in T PROVE k + 1 \in T
  <2>1. SUFFICES ASSUME k + 1 \in 1..n PROVE F[k + 1] = f[k + 1]
    OBVIOUS
  <2>2. CASE k = 0
    <3>1. 1 \in 1..n /\ k + 1 = 1
      BY <2>1, <2>2
    <3>2. F[1] = s[1]
      BY <1>5, <3>1
    <3>3. f[1] = s[1]
      BY <1>1, <3>1 DEF Partial
    <3>4. QED
      BY <3>1, <3>2, <3>3
  <2>3. CASE k > 0
    <3>1. F[k] = f[k] /\ (k + 1) - 1 = k /\ k + 1 # 1
      BY <1>6, <2>1, <2>3
    <3>2. f[k + 1] = f[(k + 1) - 1] \o s[k + 1]
      BY <1>1, <2>1, <3>1 DEF Partial
    <3>3. F[k + 1] = F[(k + 1) - 1] \o s[k + 1]
      BY <1>5, <2>1, <3>1
    <3>4. QED
      BY <3>1, <3>2, <3>3
  <2>4. QED
    BY <2>2, <2>3
<1>7. 0 \in T
  OBVIOUS
<1> HIDE DEF T
<1>8. Nat \subseteq T
  BY <1>6, <1>7, Induct
<1>9. F[n] = f[n]
  <2>1. n \in Nat /\ n \in 1..n
    OBVIOUS
  <2>2. QED
    BY <1>8, <2>1 DEF T
<1>10. QED
  BY <1>1, <1>4, <1>9

LEMMA SubSeqIs ==
  ASSUME NEW S, NEW s \in Seq(S), NEW m \in Nat, NEW n \in Int, m > 0, n <= Len(s)
  PROVE  /\ SubSeq(s, m, n) \in Seq(S)
         /\ Len(SubSeq(s, m, n)) = IF m <= n THEN n - m + 1 ELSE 0
         /\ \A i \in 1..(n - m + 1) : SubSeq(s, m, n)[i] = s[m + i - 1]
<1>1. \A i \in m..n : s[i] \in S
  BY ElementOfSeq, LenProperties
<1>2. QED
  BY <1>1, SubSeqProperties

-----------------------------------------------------------------------------
(* The archive reader                                                      *)

\* A recursion from each place to a later one has a solution.
Solution(g, N, next, stop, go) ==
  \A i \in 0..N : g[i] = IF next[i] = -1 THEN stop[i] ELSE go[i][g[next[i]]]

LEMMA SolutionExists ==
  ASSUME NEW N \in Nat, NEW V, NEW next, NEW stop \in [0..N -> V],
         NEW go \in [0..N -> [V -> V]],
         \A i \in 0..N : next[i] = -1 \/ next[i] \in (i + 1)..N
  PROVE  \E g \in [0..N -> V] : Solution(g, N, next, stop, go)
<1> DEFINE Part(g, m) ==
             \A i \in (N + 1 - m)..N :
               g[i] = IF next[i] = -1 THEN stop[i] ELSE go[i][g[next[i]]]
           T == {m \in Nat : m <= N + 1 => \E g \in [(N + 1 - m)..N -> V] : Part(g, m)}
<1>1. 0 \in T
  <2>1. [i \in (N + 1 - 0)..N |-> 0] \in [(N + 1 - 0)..N -> V]
    OBVIOUS
  <2>2. Part([i \in (N + 1 - 0)..N |-> 0], 0)
    OBVIOUS
  <2>3. QED
    BY <2>1, <2>2
<1>2. ASSUME NEW m \in Nat, m \in T PROVE m + 1 \in T
  <2>1. SUFFICES ASSUME m + 1 <= N + 1
                 PROVE \E g \in [(N + 1 - (m + 1))..N -> V] : Part(g, m + 1)
    OBVIOUS
  <2>2. PICK g \in [(N + 1 - m)..N -> V] : Part(g, m)
    BY <1>2, <2>1
  <2> DEFINE k == N - m
             e == IF next[k] = -1 THEN stop[k] ELSE go[k][g[next[k]]]
             h == [i \in k..N |-> IF i = k THEN e ELSE g[i]]
  <2>3. k \in 0..N /\ k + 1 = N + 1 - m /\ k = N + 1 - (m + 1)
    BY <2>1
  <2>4. e \in V
    <3>1. CASE next[k] = -1
      BY <2>3, <3>1
    <3>2. CASE next[k] # -1
      <4>1. next[k] \in (N + 1 - m)..N
        BY <2>3, <3>2
      <4>2. g[next[k]] \in V
        BY <4>1
      <4>3. go[k] \in [V -> V]
        BY <2>3
      <4>4. QED
        BY <3>2, <4>2, <4>3
    <3>3. QED
      BY <3>1, <3>2
  <2> HIDE DEF e
  <2>5. h \in [k..N -> V]
    <3>1. \A i \in k..N : i # k => i \in (N + 1 - m)..N
      BY <2>3
    <3>2. QED
      BY <2>4, <3>1
  <2>6. ASSUME NEW i \in k..N
        PROVE  h[i] = IF next[i] = -1 THEN stop[i] ELSE go[i][h[next[i]]]
    <3>1. i \in 0..N /\ k \in Int
      BY <2>3
    <3>2. next[i] # -1 => next[i] \in k..N /\ next[i] # k /\ h[next[i]] = g[next[i]]
      <4>1. next[i] # -1 => next[i] \in (i + 1)..N
        BY <3>1
      <4>2. next[i] # -1 => next[i] \in k..N /\ next[i] # k
        BY <3>1, <4>1
      <4>3. QED
        BY <4>2
    <3>3. CASE i = k
      <4>1. h[i] = e
        BY <3>3
      <4>2. QED
        BY <3>2, <3>3, <4>1 DEF e
    <3>4. CASE i # k
      <4>1. i \in (N + 1 - m)..N
        BY <2>3, <3>1, <3>4
      <4>2. h[i] = g[i]
        BY <3>4
      <4>3. g[i] = IF next[i] = -1 THEN stop[i] ELSE go[i][g[next[i]]]
        BY <2>2, <4>1
      <4> HIDE DEF h, k
      <4>4. QED
        BY <3>2, <4>2, <4>3
    <3>5. QED
      BY <3>3, <3>4
  <2> HIDE DEF h
  <2>7. Part(h, m + 1)
    BY <2>3, <2>6
  <2> HIDE DEF Part
  <2>8. QED
    BY <2>3, <2>5, <2>7
<1> HIDE DEF T
<1>3. Nat \subseteq T
  BY <1>1, <1>2, Induct
<1>4. PICK g \in [0..N -> V] : Part(g, N + 1)
  <2>1. N + 1 \in T /\ N + 1 - (N + 1) = 0
    BY <1>3
  <2>2. QED
    BY <2>1 DEF T
<1>5. \A i \in 0..N : g[i] = IF next[i] = -1 THEN stop[i] ELSE go[i][g[next[i]]]
  BY <1>4
<1>6. QED
  BY <1>5 DEF Solution

\* Where the members of an archive begin.
LEMMA StartExists ==
  ASSUME NEW L \in [Nat -> Nat]
  PROVE  \A n \in Nat : \E f \in [1..n -> Nat] :
           \A i \in 1..n : f[i] = IF i = 1 THEN 0 ELSE f[i - 1] + L[i - 1]
<1> DEFINE Sums(f, n) == \A i \in 1..n : f[i] = IF i = 1 THEN 0 ELSE f[i - 1] + L[i - 1]
           T == {n \in Nat : \E f \in [1..n -> Nat] : Sums(f, n)}
<1>1. 0 \in T
  <2>1. [i \in 1..0 |-> 0] \in [1..0 -> Nat] /\ Sums([i \in 1..0 |-> 0], 0)
    OBVIOUS
  <2>2. QED
    BY <2>1
<1>2. ASSUME NEW n \in Nat, n \in T PROVE n + 1 \in T
  <2>1. PICK f \in [1..n -> Nat] : Sums(f, n)
    BY <1>2
  <2> HIDE DEF T
  <2> DEFINE e == IF n = 0 THEN 0 ELSE f[n] + L[n]
             h == [i \in 1..(n + 1) |-> IF i = n + 1 THEN e ELSE f[i]]
  <2>2. e \in Nat
    <3>1. CASE n = 0
      BY <3>1
    <3>2. CASE n # 0
      <4>1. n \in 1..n
        BY <3>2
      <4>2. f[n] \in Nat /\ L[n] \in Nat
        BY <4>1
      <4>3. \A x, y \in Nat : x + y \in Nat
        OBVIOUS
      <4>4. QED
        BY <3>2, <4>2, <4>3
    <3>3. QED
      BY <3>1, <3>2
  <2> HIDE DEF e
  <2>3. h \in [1..(n + 1) -> Nat]
    <3>1. ASSUME NEW i \in 1..(n + 1), i # n + 1 PROVE f[i] \in Nat
      <4>1. i \in 1..n
        BY <3>1
      <4>2. QED
        BY <4>1
    <3>2. QED
      BY <2>2, <3>1
  <2>4. ASSUME NEW i \in 1..(n + 1)
        PROVE  h[i] = IF i = 1 THEN 0 ELSE h[i - 1] + L[i - 1]
    <3>1. CASE i = n + 1
      BY <3>1 DEF e
    <3>2. CASE i # n + 1
      <4>1. i \in 1..n /\ h[i] = f[i] /\ (i # 1 => h[i - 1] = f[i - 1])
        BY <3>2
      <4>2. QED
        BY <2>1, <4>1
    <3>3. QED
      BY <3>1, <3>2
  <2> HIDE DEF h
  <2>5. Sums(h, n + 1)
    BY <2>4
  <2> HIDE DEF Sums
  <2>6. \E g \in [1..(n + 1) -> Nat] : Sums(g, n + 1)
    BY <2>3, <2>5
  <2>7. n + 1 \in Nat
    OBVIOUS
  <2>8. QED
    BY <2>6, <2>7 DEF T
<1> HIDE DEF T
<1>3. Nat \subseteq T
  BY <1>1, <1>2, Induct
<1>4. QED
  BY <1>3 DEF T

IsArchive(a) == a \in [received : Nat, members : Seq(Members), zstd : {"ok", "broken"}]

LEMMA LengthIs ==
  ASSUME NEW m \in Members
  PROVE  Length(m) \in Nat /\ Length(m) >= HeaderLen /\ HeaderLen = 30
BY DEF Length, HeaderLen, Members

LEMMA StartIs ==
  ASSUME NEW a, IsArchive(a)
  PROVE  /\ StartOf(a, 1) = 0
         /\ \A n \in 1..(Len(a.members) + 1) : StartOf(a, n) \in Nat
         /\ \A n \in 1..Len(a.members) :
              StartOf(a, n + 1) = StartOf(a, n) + Length(a.members[n])
<1> DEFINE N == Len(a.members) + 1
           L == [n \in Nat |-> IF n \in 1..Len(a.members) THEN Length(a.members[n]) ELSE 0]
           Rec(f, n) == IF n = 1 THEN 0 ELSE f[n - 1] + Length(a.members[n - 1])
           IsRec(f) == f = [n \in 1..(Len(a.members) + 1) |-> Rec(f, n)]
           G == CHOOSE f : IsRec(f)
<1>1. a.members \in Seq(Members) /\ Len(a.members) \in Nat /\ N \in Nat
  BY LenProperties DEF IsArchive
<1>2. \A n \in 1..Len(a.members) : a.members[n] \in Members
  BY <1>1, ElementOfSeq
<1>3. \A n \in 1..Len(a.members) : Length(a.members[n]) \in Nat
  BY <1>2, LengthIs
<1>4. L \in [Nat -> Nat]
  BY <1>3
<1> HIDE DEF L
<1>5. PICK g \in [1..N -> Nat] :
        \A i \in 1..N : g[i] = IF i = 1 THEN 0 ELSE g[i - 1] + L[i - 1]
  BY <1>1, <1>4, StartExists
<1>6. ASSUME NEW i \in 1..N PROVE g[i] = Rec(g, i)
  <2>1. i # 1 => i - 1 \in 1..Len(a.members)
    BY <1>1
  <2>2. i # 1 => L[i - 1] = Length(a.members[i - 1])
    BY <2>1 DEF L
  <2>3. QED
    BY <1>5, <2>2
<1>7. IsRec(g)
  <2> HIDE DEF Rec
  <2>1. QED
    BY <1>6
<1>8. IsRec(G)
  <2> HIDE DEF IsRec
  <2>1. QED
    BY <1>7
<1>9. \A i : StartOf(a, i) = G[i]
  BY DEF StartOf
<1> HIDE DEF G
<1>10. \A i \in 1..N : G[i] = Rec(G, i)
  <2> HIDE DEF Rec
  <2>1. QED
    BY <1>8
<1>11. G[1] = 0
  BY <1>1, <1>10
<1>12. \A n \in 1..Len(a.members) : G[n + 1] = G[n] + Length(a.members[n])
  BY <1>1, <1>10
<1> DEFINE T == {n \in Nat : n + 1 <= N => G[n + 1] \in Nat}
<1>13. 0 \in T
  BY <1>11
<1>14. ASSUME NEW n \in Nat, n \in T PROVE n + 1 \in T
  <2>1. SUFFICES ASSUME (n + 1) + 1 <= N PROVE G[(n + 1) + 1] \in Nat
    OBVIOUS
  <2>2. n + 1 \in 1..Len(a.members) /\ G[n + 1] \in Nat
    BY <1>1, <1>14, <2>1
  <2>3. QED
    BY <1>3, <1>12, <2>2
<1> HIDE DEF T
<1>15. Nat \subseteq T
  BY <1>13, <1>14, Induct
<1>16. \A n \in 1..N : G[n] \in Nat
  <2>1. SUFFICES ASSUME NEW n \in 1..N PROVE G[n] \in Nat
    OBVIOUS
  <2>2. n - 1 \in T /\ (n - 1) + 1 = n
    BY <1>15
  <2>3. QED
    BY <2>2 DEF T
<1>17. QED
  BY <1>9, <1>11, <1>12, <1>16

\* Members begin one behind the other.
LEMMA StartsGrow ==
  ASSUME NEW a, IsArchive(a), NEW i \in 1..(Len(a.members) + 1),
         NEW j \in 1..(Len(a.members) + 1), i < j
  PROVE  StartOf(a, i) < StartOf(a, j)
<1> DEFINE N == Len(a.members) + 1
           B(n) == StartOf(a, n)
           T == {d \in Nat : i + d + 1 <= N => B(i) < B(i + d + 1)}
<1>1. a.members \in Seq(Members) /\ Len(a.members) \in Nat
  BY LenProperties DEF IsArchive
<1>2. \A n \in 1..Len(a.members) : Length(a.members[n]) \in Nat /\ Length(a.members[n]) >= 30
  <2>1. \A n \in 1..Len(a.members) : a.members[n] \in Members
    BY <1>1, ElementOfSeq
  <2>2. QED
    BY <2>1, LengthIs
<1>3. /\ \A n \in 1..N : B(n) \in Nat
      /\ \A n \in 1..Len(a.members) : B(n + 1) = B(n) + Length(a.members[n])
  BY StartIs
<1> HIDE DEF B
<1>3a. \A n \in 1..Len(a.members) : B(n) < B(n + 1)
  <2>1. SUFFICES ASSUME NEW n \in 1..Len(a.members) PROVE B(n) < B(n + 1)
    OBVIOUS
  <2>2. B(n) \in Nat /\ B(n + 1) = B(n) + Length(a.members[n])
    BY <1>1, <1>3
  <2>3. Length(a.members[n]) \in Nat /\ Length(a.members[n]) >= 30
    BY <1>2
  <2>4. QED
    BY <2>2, <2>3
<1>4. 0 \in T
  BY <1>1, <1>3a
<1>5. ASSUME NEW d \in Nat, d \in T PROVE d + 1 \in T
  <2>1. SUFFICES ASSUME i + (d + 1) + 1 <= N PROVE B(i) < B(i + (d + 1) + 1)
    OBVIOUS
  <2>2. i + d + 1 \in 1..Len(a.members) /\ (i + d + 1) + 1 = i + (d + 1) + 1
    BY <1>1, <2>1
  <2>3. B(i) < B(i + d + 1)
    BY <1>1, <1>5, <2>1
  <2>4. B(i + d + 1) < B(i + (d + 1) + 1)
    BY <1>3a, <2>2
  <2>5. B(i) \in Nat /\ B(i + d + 1) \in Nat /\ B(i + (d + 1) + 1) \in Nat
    BY <1>1, <1>3, <2>2
  <2>6. QED
    BY <2>3, <2>4, <2>5
<1> HIDE DEF T
<1>6. Nat \subseteq T
  BY <1>4, <1>5, Induct
<1>7. j - i - 1 \in T /\ i + (j - i - 1) + 1 = j
  BY <1>1, <1>6
<1>8. QED
  BY <1>7 DEF T, B

Statuses == {"ok", "UnsupportedMethod", "Truncated", "InvalidContent"}

\* What the walk does at an offset: it never goes back, nor too far.
Visited(a, offset, v) ==
  \/ v.next = -1 /\ v.status \in Statuses
  \/ /\ v.next \in (offset + 1)..a.received /\ v.status = "ok"
     /\ v.member \in DOMAIN a.members /\ StartOf(a, v.member) = offset
     /\ LET m == a.members[v.member]
        IN v.next = offset + HeaderLen + m.name_len + m.extra_len + m.compressed_size

LEMMA VisitIs ==
  ASSUME NEW a, IsArchive(a), NEW offset \in 0..a.received
  PROVE  Visited(a, offset, Visit(a, offset))
<1> DEFINE i == CHOOSE n \in HeaderAt(a, offset) : TRUE
           m == a.members[i]
           data_start == Sum(Sum(offset + HeaderLen, m.name_len), m.extra_len)
           data_end == Sum(data_start, m.compressed_size)
<1>1. a.members \in Seq(Members) /\ Len(a.members) \in Nat /\ a.received \in Nat
  BY LenProperties DEF IsArchive
<1>2. CASE offset + HeaderLen > a.received \/ HeaderAt(a, offset) = {}
  <2>1. Visit(a, offset) = [status |-> "ok", member |-> 0, next |-> -1]
    BY <1>2 DEF Visit, WalkEnds
  <2>2. QED
    BY <2>1 DEF Visited, Statuses
<1>3. CASE ~(offset + HeaderLen > a.received \/ HeaderAt(a, offset) = {})
  <2>1. i \in HeaderAt(a, offset)
    BY <1>3
  <2>2. i \in DOMAIN a.members /\ StartOf(a, i) = offset
    BY <2>1 DEF HeaderAt
  <2>3. m \in Members
    BY <1>1, <2>2, ElementOfSeq
  <2>4. m.name_len \in Nat /\ m.extra_len \in Nat /\ m.compressed_size \in Nat
    BY <2>3 DEF Members
  <2>5. Visit(a, offset) =
          IF ~m.stored THEN WalkEnds("UnsupportedMethod")
          ELSE IF data_end > a.received THEN WalkEnds("Truncated")
          ELSE IF data_end < data_start THEN WalkEnds("panic")
          ELSE IF ~m.utf8 THEN WalkEnds("InvalidContent")
          ELSE [status |-> "ok", member |-> i, next |-> data_end]
    BY <1>3 DEF Visit
  <2> HIDE DEF i, m
  <2>6. /\ data_start = offset + 30 + m.name_len + m.extra_len
        /\ data_end = data_start + m.compressed_size
        /\ data_start \in Nat /\ data_end \in Nat /\ data_end >= data_start /\ data_end > offset
    BY <2>4 DEF Sum, HeaderLen
  <2>7. data_end = offset + HeaderLen + m.name_len + m.extra_len + m.compressed_size
    BY <2>4, <2>6 DEF HeaderLen
  <2> HIDE DEF data_start, data_end
  <2>8. CASE ~m.stored \/ data_end > a.received \/ ~m.utf8
    <3>1. \E status \in Statuses : Visit(a, offset) = [status |-> status, member |-> 0, next |-> -1]
      BY <2>5, <2>6, <2>8 DEF WalkEnds, Statuses
    <3>2. QED
      BY <3>1 DEF Visited
  <2>9. CASE ~(~m.stored \/ data_end > a.received \/ ~m.utf8)
    <3>1. Visit(a, offset) = [status |-> "ok", member |-> i, next |-> data_end]
      BY <2>5, <2>6, <2>9
    <3>2. data_end \in (offset + 1)..a.received
      BY <1>1, <2>6, <2>9
    <3>3. QED
      BY <2>2, <2>7, <3>1, <3>2 DEF Visited, m
  <2>10. QED
    BY <2>8, <2>9
<1>4. QED
  BY <1>2, <1>3

\* What the walk from an offset on returns: an error comes with nothing.
Results(a) ==
  {r \in [status : Statuses, found : SUBSET (1..Len(a.members))] :
     r.status = "ok" \/ r.found = {}}

\* The walk from one offset on, given the walks from later ones on.
Onward(a, from, offset) ==
  LET here == Visit(a, offset)
      rest == from[here.next]
  IN IF here.next = -1 THEN [status |-> here.status, found |-> {}]
     ELSE IF rest.status # "ok" THEN rest
     ELSE [status |-> "ok", found |-> rest.found \cup {here.member}]

LEMMA ParseIs ==
  ASSUME NEW a, IsArchive(a)
  PROVE  \E F \in [0..a.received -> Results(a)] :
           /\ Parse(a) = F[0]
           /\ \A offset \in 0..a.received : F[offset] = Onward(a, F, offset)
<1> DEFINE N == a.received
           V == Results(a)
           next == [i \in 0..N |-> Visit(a, i).next]
           stop == [i \in 0..N |-> IF Visit(a, i).next = -1
                                   THEN [status |-> Visit(a, i).status, found |-> {}]
                                   ELSE [status |-> "ok", found |-> {}]]
           go == [i \in 0..N |-> [r \in V |->
                    IF Visit(a, i).next = -1 \/ r.status # "ok" THEN r
                    ELSE [status |-> "ok", found |-> r.found \cup {Visit(a, i).member}]]]
           Rec(f, i) == Onward(a, f, i)
           IsRec(f) == f = [i \in 0..a.received |-> Rec(f, i)]
           G == CHOOSE f : IsRec(f)
<1>1. N \in Nat /\ a.members \in Seq(Members) /\ Len(a.members) \in Nat
  BY LenProperties DEF IsArchive
<1>2. \A i \in 0..N : Visited(a, i, Visit(a, i))
  BY VisitIs
<1>3. ASSUME NEW i \in 0..N PROVE next[i] = -1 \/ next[i] \in (i + 1)..N
  BY <1>2 DEF Visited
<1>4. stop \in [0..N -> V]
  <2>1. ASSUME NEW i \in 0..N
        PROVE  (IF Visit(a, i).next = -1 THEN [status |-> Visit(a, i).status, found |-> {}]
                ELSE [status |-> "ok", found |-> {}]) \in V
    <3>1. Visit(a, i).next = -1 => Visit(a, i).status \in Statuses
      BY <1>2 DEF Visited, Statuses
    <3>2. QED
      BY <3>1 DEF Results, Statuses
  <2> HIDE DEF V
  <2>2. QED
    BY <2>1
<1>5. go \in [0..N -> [V -> V]]
  <2>1. ASSUME NEW i \in 0..N, NEW r \in V
        PROVE  (IF Visit(a, i).next = -1 \/ r.status # "ok" THEN r
                ELSE [status |-> "ok", found |-> r.found \cup {Visit(a, i).member}]) \in V
    <3>1. CASE Visit(a, i).next = -1 \/ r.status # "ok"
      BY <3>1
    <3>2. CASE ~(Visit(a, i).next = -1 \/ r.status # "ok")
      <4>1. Visit(a, i).member \in DOMAIN a.members
        BY <1>2, <3>2 DEF Visited
      <4>2. DOMAIN a.members = 1..Len(a.members)
        BY <1>1, LenProperties
      <4>3. r.found \subseteq 1..Len(a.members)
        BY DEF Results
      <4>4. r.found \cup {Visit(a, i).member} \subseteq 1..Len(a.members)
        BY <4>1, <4>2, <4>3
      <4>5. QED
        BY <3>2, <4>4 DEF Results, Statuses
    <3>3. QED
      BY <3>1, <3>2
  <2> HIDE DEF V
  <2>2. QED
    BY <2>1
<1> HIDE DEF next, stop, go, V
<1>6. PICK g \in [0..N -> V] : Solution(g, N, next, stop, go)
  BY <1>1, <1>3, <1>4, <1>5, SolutionExists
<1>7. ASSUME NEW i \in 0..N PROVE g[i] = Rec(g, i)
  <2>1. g[i] = IF next[i] = -1 THEN stop[i] ELSE go[i][g[next[i]]]
    BY <1>6 DEF Solution
  <2>2. next[i] = Visit(a, i).next
    BY DEF next
  <2>3. CASE next[i] = -1
    <3>1. stop[i] = [status |-> Visit(a, i).status, found |-> {}]
      BY <2>2, <2>3 DEF stop
    <3>2. QED
      BY <2>1, <2>2, <2>3, <3>1 DEF Onward
  <2>4. CASE next[i] # -1
    <3>1. g[next[i]] \in V
      BY <1>1, <1>3, <2>4
    <3>2. go[i][g[next[i]]] =
            IF g[next[i]].status # "ok" THEN g[next[i]]
            ELSE [status |-> "ok", found |-> g[next[i]].found \cup {Visit(a, i).member}]
      BY <2>2, <2>4, <3>1 DEF go
    <3>3. QED
      BY <2>1, <2>2, <2>4, <3>2 DEF Onward
  <2>5. QED
    BY <2>3, <2>4
<1>8. IsRec(g)
  <2> HIDE DEF Rec
  <2>1. QED
    BY <1>7
<1>9. IsRec(G)
  <2> HIDE DEF IsRec
  <2>1. QED
    BY <1>8
<1>10. Parse(a) = G[0]
  BY DEF Parse, Onward
<1> HIDE DEF G
<1>11. \A i \in 0..N : G[i] = Rec(G, i)
  <2> HIDE DEF Rec
  <2>1. QED
    BY <1>9
<1>12. G = [i \in 0..N |-> Rec(G, i)]
  BY <1>9
<1> DEFINE T == {m \in Nat : \A i \in 0..N : i + m >= N => G[i] \in V}
<1>13. \A i \in 0..N : (\A j \in (i + 1)..N : G[j] \in V) => G[i] \in V
  <2>1. SUFFICES ASSUME NEW i \in 0..N, \A j \in (i + 1)..N : G[j] \in V PROVE G[i] \in V
    OBVIOUS
  <2>2. G[i] = Onward(a, G, i) /\ next[i] = Visit(a, i).next
    BY <1>11 DEF next
  <2>3. CASE next[i] = -1
    <3>1. G[i] = stop[i]
      BY <2>2, <2>3 DEF Onward, stop
    <3>2. QED
      BY <1>4, <3>1
  <2>4. CASE next[i] # -1
    <3>1. G[next[i]] \in V
      BY <1>3, <2>1, <2>4
    <3>2. G[i] = go[i][G[next[i]]]
      BY <2>2, <2>4, <3>1 DEF Onward, go
    <3>3. go[i] \in [V -> V]
      BY <1>5
    <3>4. QED
      BY <3>1, <3>2, <3>3
  <2>5. QED
    BY <2>3, <2>4
<1>14. 0 \in T
  BY <1>1, <1>13
<1>15. ASSUME NEW m \in Nat, m \in T PROVE m + 1 \in T
  <2>1. SUFFICES ASSUME NEW i \in 0..N, i + (m + 1) >= N PROVE G[i] \in V
    OBVIOUS
  <2>2. \A j \in (i + 1)..N : j \in 0..N /\ j + m >= N
    BY <1>1, <2>1
  <2>3. \A j \in (i + 1)..N : G[j] \in V
    BY <1>15, <2>2
  <2>4. QED
    BY <1>13, <2>3
<1> HIDE DEF T
<1>16. Nat \subseteq T
  BY <1>14, <1>15, Induct
<1>17. \A i \in 0..N : G[i] \in V
  <2>1. N \in T
    BY <1>1, <1>16
  <2>2. QED
    BY <1>1, <2>1 DEF T
<1>18. G \in [0..N -> V]
  <2> HIDE DEF Rec
  <2>1. QED
    BY <1>12, <1>17
<1>19. QED
  BY <1>10, <1>11, <1>18 DEF V

LEMMA ParseTyped ==
  ASSUME NEW a, IsArchive(a)
  PROVE  Parse(a).status \in Statuses /\ Parse(a).found \subseteq DOMAIN a.members
<1>1. a.received \in Nat /\ a.members \in Seq(Members)
  BY DEF IsArchive
<1>2. DOMAIN a.members = 1..Len(a.members)
  BY <1>1, LenProperties
<1>3. PICK F \in [0..a.received -> Results(a)] : Parse(a) = F[0]
  BY ParseIs
<1>4. Parse(a) \in Results(a)
  BY <1>1, <1>3
<1>5. QED
  BY <1>2, <1>4 DEF Results

\* Found from member n on: whole members, each behind the one before it.
Whole(a, found, n) ==
  \A i \in found : /\ i >= n /\ StartOf(a, i + 1) <= a.received
                   /\ i > n => i - 1 \in found

\* With honest headers the walk goes from member to member.
LEMMA WalkIsWhole ==
  ASSUME NEW a, IsArchive(a), \A i \in DOMAIN a.members : Honest(a.members[i]),
         NEW F \in [0..a.received -> Results(a)],
         \A offset \in 0..a.received : F[offset] = Onward(a, F, offset),
         NEW n \in 1..(Len(a.members) + 1), StartOf(a, n) <= a.received,
         n <= Len(a.members) /\ StartOf(a, n + 1) <= a.received =>
           Whole(a, F[StartOf(a, n + 1)].found, n + 1)
  PROVE  Whole(a, F[StartOf(a, n)].found, n)
<1> DEFINE N == Len(a.members) + 1
           B(k) == StartOf(a, k)
           o == B(n)
           v == Visit(a, o)
           rest == F[v.next]
<1>1. /\ a.members \in Seq(Members) /\ Len(a.members) \in Nat /\ a.received \in Nat
      /\ DOMAIN a.members = 1..Len(a.members)
  BY LenProperties DEF IsArchive
<1>2. /\ \A k \in 1..N : B(k) \in Nat
      /\ \A k \in 1..Len(a.members) : B(k + 1) = B(k) + Length(a.members[k])
  BY StartIs
<1>3. o \in 0..a.received
  BY <1>1, <1>2
<1>4. Visited(a, o, v)
  BY <1>3, VisitIs
<1>5. F[o] = IF v.next = -1 THEN [status |-> v.status, found |-> {}]
             ELSE IF rest.status # "ok" THEN rest
             ELSE [status |-> "ok", found |-> rest.found \cup {v.member}]
  BY <1>3 DEF Onward
<1> HIDE DEF v, rest
<1>6. CASE v.next = -1
  BY <1>5, <1>6 DEF Whole
<1>7. CASE v.next # -1
  <2>1. /\ v.next \in (o + 1)..a.received /\ v.member \in 1..Len(a.members)
        /\ B(v.member) = o
        /\ v.next = o + HeaderLen + a.members[v.member].name_len
                      + a.members[v.member].extra_len + a.members[v.member].compressed_size
    BY <1>1, <1>4, <1>7 DEF Visited
  <2>2. v.member = n
    <3>1. v.member \in 1..N /\ n \in 1..N /\ B(v.member) = B(n)
      BY <1>1, <2>1
    <3>2. ~(v.member < n)
      <4>1. v.member < n => B(v.member) < B(n)
        BY <3>1, StartsGrow
      <4>2. QED
        BY <1>2, <3>1, <4>1
    <3>3. ~(n < v.member)
      <4>1. n < v.member => B(n) < B(v.member)
        BY <3>1, StartsGrow
      <4>2. QED
        BY <1>2, <3>1, <4>1
    <3>4. QED
      BY <1>1, <3>1, <3>2, <3>3
  <2>3. n \in 1..Len(a.members)
    BY <2>1, <2>2
  <2> DEFINE m == a.members[n]
  <2>4. m \in Members /\ m.compressed_size = m.text_len
    <3>1. m \in Members
      BY <1>1, <2>3, ElementOfSeq
    <3>2. Honest(m)
      BY <1>1, <2>3
    <3>3. QED
      BY <3>1, <3>2 DEF Honest
  <2>5. v.next = B(n + 1)
    <3>1. m.name_len \in Nat /\ m.extra_len \in Nat /\ m.text_len \in Nat
      BY <2>4 DEF Members
    <3>2. Length(m) = HeaderLen + m.name_len + m.extra_len + m.text_len
      BY DEF Length
    <3>3. B(n + 1) = o + Length(m)
      BY <1>2, <2>3
    <3>4. v.next = o + HeaderLen + m.name_len + m.extra_len + m.text_len
      BY <2>1, <2>2, <2>4
    <3>5. o \in Nat /\ HeaderLen \in Nat
      BY <1>3 DEF HeaderLen
    <3>6. \A p, h, x, y, z \in Nat : p + h + x + y + z = p + (h + x + y + z)
      OBVIOUS
    <3> DEFINE L == Length(m)
    <3> HIDE DEF o, B, m, L
    <3>7. o + HeaderLen + m.name_len + m.extra_len + m.text_len
            = o + (HeaderLen + m.name_len + m.extra_len + m.text_len)
      BY <3>1, <3>5, <3>6
    <3>8. v.next = o + L
      BY <3>2, <3>4, <3>7 DEF L
    <3>9. QED
      BY <3>3, <3>8 DEF L
  <2>6. B(n + 1) <= a.received /\ B(n + 1) \in 0..a.received
    BY <1>3, <2>1, <2>5
  <2>7. Whole(a, rest.found, n + 1)
    BY <2>3, <2>5, <2>6 DEF rest
  <2>8. rest \in Results(a)
    BY <2>5, <2>6 DEF rest
  <2> HIDE DEF B, o
  <2>9. CASE rest.status # "ok"
    <3>1. F[o] = rest /\ rest.found = {}
      BY <1>5, <1>7, <2>8, <2>9 DEF Results
    <3>2. QED
      BY <3>1 DEF Whole, o, B
  <2>10. CASE rest.status = "ok"
    <3>1. F[o].found = rest.found \cup {n}
      BY <1>5, <1>7, <2>2, <2>10
    <3>2. rest.found \subseteq 1..Len(a.members)
      BY <2>8 DEF Results
    <3>3. ASSUME NEW i \in F[o].found
          PROVE  /\ i >= n /\ StartOf(a, i + 1) <= a.received
                 /\ i > n => i - 1 \in F[o].found
      <4>1. CASE i \in rest.found
        <5>1. i \in Nat /\ i >= n + 1 /\ StartOf(a, i + 1) <= a.received
              /\ (i > n + 1 => i - 1 \in rest.found)
          BY <2>7, <3>2, <4>1 DEF Whole
        <5>2. i = n + 1 => i - 1 = n
          BY <2>3
        <5>3. QED
          BY <1>1, <2>3, <3>1, <5>1, <5>2
      <4>2. CASE i = n
        BY <2>3, <2>6, <4>2 DEF B
      <4>3. QED
        BY <3>1, <4>1, <4>2
    <3>4. Whole(a, F[o].found, n)
      BY <3>3 DEF Whole
    <3>5. QED
      BY <3>4 DEF o, B
  <2>11. QED
    BY <2>9, <2>10
<1>8. QED
  BY <1>6, <1>7

LEMMA ParseWhole ==
  ASSUME NEW a, IsArchive(a), \A i \in DOMAIN a.members : Honest(a.members[i])
  PROVE  Whole(a, Parse(a).found, 1)
<1> DEFINE N == Len(a.members) + 1
<1>1. /\ a.members \in Seq(Members) /\ Len(a.members) \in Nat /\ a.received \in Nat /\ N \in Nat
  BY LenProperties DEF IsArchive
<1>2. PICK F \in [0..a.received -> Results(a)] :
        /\ Parse(a) = F[0]
        /\ \A offset \in 0..a.received : F[offset] = Onward(a, F, offset)
  BY ParseIs
<1> DEFINE Holds(n) == StartOf(a, n) <= a.received => Whole(a, F[StartOf(a, n)].found, n)
           T == {m \in Nat : \A n \in 1..N : n + m >= N => Holds(n)}
<1>3. ASSUME NEW n \in 1..N, n + 1 \in 1..N => Holds(n + 1) PROVE Holds(n)
  <2>1. SUFFICES ASSUME StartOf(a, n) <= a.received
                 PROVE Whole(a, F[StartOf(a, n)].found, n)
    OBVIOUS
  <2>2. n <= Len(a.members) /\ StartOf(a, n + 1) <= a.received =>
          Whole(a, F[StartOf(a, n + 1)].found, n + 1)
    BY <1>1, <1>3
  <2>3. QED
    BY <1>2, <2>1, <2>2, WalkIsWhole
<1> HIDE DEF Holds
<1>4. 0 \in T
  BY <1>1, <1>3
<1>5. ASSUME NEW m \in Nat, m \in T PROVE m + 1 \in T
  <2>1. SUFFICES ASSUME NEW n \in 1..N, n + (m + 1) >= N PROVE Holds(n)
    OBVIOUS
  <2>2. n + 1 \in 1..N => (n + 1) + m >= N
    BY <1>1, <2>1
  <2>3. n + 1 \in 1..N => Holds(n + 1)
    BY <1>5, <2>2
  <2>4. QED
    BY <1>3, <2>3
<1> HIDE DEF T
<1>6. Nat \subseteq T
  BY <1>4, <1>5, Induct
<1>7. Holds(1)
  <2>1. N \in T /\ 1 \in 1..N /\ 1 + N >= N
    BY <1>1, <1>6
  <2>2. QED
    BY <2>1 DEF T
<1>8. StartOf(a, 1) = 0
  BY StartIs
<1>9. QED
  BY <1>1, <1>2, <1>7, <1>8 DEF Holds

LEMMA ArchiveIs ==
  ASSUME NEW a \in Archives
  PROVE  /\ IsArchive(a)
         /\ \A i \in DOMAIN a.members :
              \/ a.members[i].docs \in Seq(Keys)
              \/ a.members[i].name = "certs" /\ a.members[i].docs[1] = "garbage"
BY BootAssumption DEF IsArchive

LEMMA ArchivesSound == ASSUME NEW a \in Archives PROVE Sound(a, Parse(a))
<1>1. IsArchive(a)
  BY ArchiveIs
<1>2. Parse(a).status \in Statuses
  BY <1>1, ParseTyped
<1>3. (\A i \in DOMAIN a.members : Honest(a.members[i])) => Whole(a, Parse(a).found, 1)
  BY <1>1, ParseWhole
<1>4. QED
  BY <1>2, <1>3 DEF Sound, Whole, Statuses

\* The archive reader (fast_bootstrap.rs, parse_stored_zip) neither leaves
\* the bytes it got nor returns a member that is not whole, whatever the
\* archive that the callback returns.
THEOREM ReaderIsSound == Spec => []ParseSound
<1>1. ParseSound
  BY ArchivesSound DEF ParseSound
<1>2. QED
  BY <1>1, PTL

-----------------------------------------------------------------------------
(* The write-back: the inductive invariant                                 *)

Batched == [key : Keys, value : {"archive"}]
Writes == [key : Keys, value : {Absent, "archive", "arti"}, rest : Seq(Batched)]

InHead(q, k) == \E i \in DOMAIN q : q[i].key = k
InRest(q, k) == \E i \in DOMAIN q : \E j \in DOMAIN q[i].rest : q[i].rest[j].key = k
IsLast(q, i) == \A j \in DOMAIN q : j > i => q[j].key # q[i].key

\* What is stored of k, and what is still to be written, ends with one of V.
EndsIn(files, q, stored, k, V) ==
  /\ \A i \in DOMAIN q : \A j \in DOMAIN q[i].rest :
       q[i].rest[j].key = k => q[i].rest[j].value \in V
  /\ \A i \in DOMAIN q :
       q[i].key = k /\ (files \/ (IsLast(q, i) /\ ~InRest(q, k))) => q[i].value \in V
  /\ ~InHead(q, k) /\ ~InRest(q, k) => stored \in V

\* The rest of a task is one of the archive: only a batch has several entries.
Typed == TypeOK /\ queue \in Seq(Writes) /\ descs \in Seq(Keys)

\* Of a key without excuse, what is stored and to be written ends with the
\* value the cache has.
Converging ==
  phase # "off" => \A k \in Keys \ excused : EndsIn(backend = "files", queue, store[k], k, {cache[k]})

\* Of a key that was not lost, it ends with a document, and a start that finds
\* a consensus has loaded one.
Kept ==
  /\ \A k \in Keys \ lost : EndsIn(backend = "files", queue, store[k], k, {"archive", "arti"})
  /\ phase = "checking" \/ skipped => \A k \in Keys \ lost : cache[k] \in {"archive", "arti"}
  /\ skipped => phase = "running"

BootInv == Typed /\ Converging /\ Kept

-----------------------------------------------------------------------------
(* The writes that are on their way                                        *)

\* The queue when the i-th write of it is done with.
Rest(q, i) == RemoveAt(q, i) \o Issue(q[i].rest)

\* Where the writes of Rest(q, i) come from.
Comes(q, i, r) ==
  LET n == Len(q)
      t == q[i].rest
  IN /\ r \in Seq(Writes)
     /\ DOMAIN r = 1..(IF t = <<>> THEN n - 1 ELSE n)
     /\ \A j \in 1..(n - 1) : r[j] = IF j < i THEN q[j] ELSE q[j + 1]
     /\ t # <<>> => /\ r[n].key = t[1].key /\ r[n].value = t[1].value
                    /\ DOMAIN r[n].rest = 1..(Len(t) - 1)
                    /\ \A j \in 1..(Len(t) - 1) : r[n].rest[j] = t[j + 1]

\* A write of the queue, and the rest of its task.
LEMMA WriteIs ==
  ASSUME NEW q \in Seq(Writes), NEW i \in DOMAIN q
  PROVE  /\ q[i] \in Writes /\ q[i].rest \in Seq(Batched) /\ q[i].key \in Keys
         /\ Len(q) \in Nat /\ DOMAIN q = 1..Len(q)
         /\ Len(q[i].rest) \in Nat /\ DOMAIN q[i].rest = 1..Len(q[i].rest)
         /\ \A j \in DOMAIN q[i].rest :
              /\ q[i].rest[j] \in Batched /\ q[i].rest[j].key \in Keys
              /\ q[i].rest[j].value = "archive"
<1>1. Len(q) \in Nat /\ DOMAIN q = 1..Len(q)
  BY LenProperties
<1>2. q[i] \in Writes
  BY <1>1, ElementOfSeq
<1>3. q[i].rest \in Seq(Batched) /\ q[i].key \in Keys
  BY <1>2 DEF Writes
<1>4. Len(q[i].rest) \in Nat /\ DOMAIN q[i].rest = 1..Len(q[i].rest)
  BY <1>3, LenProperties
<1>5. \A j \in DOMAIN q[i].rest : q[i].rest[j] \in Batched
  BY <1>3, <1>4, ElementOfSeq
<1>6. QED
  BY <1>1, <1>2, <1>3, <1>4, <1>5 DEF Batched

\* The first write of a task, with the rest of it.
LEMMA IssueIs ==
  ASSUME NEW t \in Seq([key : Keys, value : {Absent, "archive", "arti"}]), t # <<>>,
         Tail(t) \in Seq(Batched)
  PROVE  /\ Issue(t) \in Seq(Writes) /\ Len(Issue(t)) = 1
         /\ Issue(t)[1].key = t[1].key /\ Issue(t)[1].value = t[1].value
         /\ Issue(t)[1].rest = Tail(t)
<1> DEFINE w == [key |-> Head(t).key, value |-> Head(t).value, rest |-> Tail(t)]
<1>1. Head(t) = t[1] /\ t[1] \in [key : Keys, value : {Absent, "archive", "arti"}]
  <2>1. 1 \in 1..Len(t)
    BY EmptySeq
  <2>2. Head(t) = t[1]
    <3>1. SubSeq(t, 1, Len(t)) = t
      BY SubSeqFull
    <3>2. Len(t) \in 1..Len(t)
      BY <2>1
    <3>3. QED
      BY <2>1, <3>1, <3>2, HeadTailOfSubSeq
  <2>3. QED
    BY <2>1, <2>2, ElementOfSeq
<1>2. w \in Writes
  BY <1>1 DEF Writes
<1>3. Issue(t) = <<w>>
  BY DEF Issue
<1>4. <<w>> \in Seq(Writes) /\ Len(<<w>>) = 1 /\ <<w>>[1] = w
  BY <1>2
<1>5. QED
  BY <1>1, <1>3, <1>4

\* The queue after a write is made of what Comes says.
LEMMA RestIs ==
  ASSUME NEW q \in Seq(Writes), NEW i \in DOMAIN q
  PROVE  Comes(q, i, Rest(q, i))
<1> DEFINE n == Len(q)
           t == q[i].rest
           a == SubSeq(q, 1, i - 1)
           b == SubSeq(q, i + 1, Len(q))
           c == RemoveAt(q, i)
           u == Issue(t)
           r == c \o u
<1>1. n \in Nat /\ i \in 1..n /\ t \in Seq(Batched) /\ Len(t) \in Nat
  BY WriteIs
<1>2. /\ a \in Seq(Writes) /\ Len(a) = i - 1
      /\ \A j \in 1..(i - 1) : a[j] = q[j]
  <2>1. /\ a \in Seq(Writes)
        /\ Len(a) = IF 1 <= i - 1 THEN (i - 1) - 1 + 1 ELSE 0
        /\ \A j \in 1..((i - 1) - 1 + 1) : a[j] = q[1 + j - 1]
    BY <1>1, SubSeqIs
  <2> HIDE DEF a
  <2>2. QED
    BY <1>1, <2>1
<1>3. /\ b \in Seq(Writes) /\ Len(b) = n - i
      /\ \A j \in 1..(n - i) : b[j] = q[i + j]
  <2>1. /\ b \in Seq(Writes)
        /\ Len(b) = IF i + 1 <= n THEN n - (i + 1) + 1 ELSE 0
        /\ \A j \in 1..(n - (i + 1) + 1) : b[j] = q[(i + 1) + j - 1]
    BY <1>1, SubSeqIs
  <2> HIDE DEF b
  <2>2. QED
    BY <1>1, <2>1
<1>4. c = a \o b
  BY DEF RemoveAt
<1> HIDE DEF a, b, c
<1>5. /\ c \in Seq(Writes) /\ Len(c) = n - 1
      /\ \A j \in 1..(n - 1) : c[j] = IF j < i THEN q[j] ELSE q[j + 1]
  <2>1. /\ c \in Seq(Writes) /\ Len(c) = Len(a) + Len(b)
        /\ \A j \in 1..(Len(a) + Len(b)) : c[j] = IF j <= Len(a) THEN a[j] ELSE b[j - Len(a)]
    BY <1>2, <1>3, <1>4, ConcatProperties
  <2>2. ASSUME NEW j \in 1..(n - 1) PROVE c[j] = IF j < i THEN q[j] ELSE q[j + 1]
    <3>1. /\ j \in 1..(Len(a) + Len(b)) /\ j \in Nat /\ i \in Nat
          /\ j <= Len(a) <=> j < i
          /\ Len(a) = i - 1
      BY <1>1, <1>2, <1>3
    <3>2. c[j] = IF j <= Len(a) THEN a[j] ELSE b[j - Len(a)]
      BY <2>1, <3>1
    <3>3. CASE j < i
      <4>1. j \in 1..(i - 1)
        BY <3>1, <3>3
      <4>2. QED
        BY <1>2, <3>1, <3>2, <3>3, <4>1
    <3>4. CASE ~(j < i)
      <4>1. j - Len(a) \in 1..(n - i) /\ i + (j - Len(a)) = j + 1
        BY <1>1, <3>1, <3>4
      <4>2. b[j - Len(a)] = q[i + (j - Len(a))]
        BY <1>3, <4>1
      <4>3. QED
        BY <3>1, <3>2, <3>4, <4>1, <4>2
    <3>5. QED
      BY <3>3, <3>4
  <2>3. QED
    BY <1>1, <1>2, <1>3, <2>1, <2>2
<1>6. CASE t = <<>>
  <2>1. u = <<>>
    BY <1>6 DEF Issue
  <2>2. r = c
    BY <1>5, <2>1, ConcatEmptySeq
  <2>3. DOMAIN c = 1..(n - 1)
    BY <1>5, LenProperties
  <2>4. QED
    BY <1>5, <1>6, <2>2, <2>3 DEF Comes, Rest, c
<1>7. CASE t # <<>>
  <2>1. Tail(t) \in Seq(Batched) /\ Len(Tail(t)) = Len(t) - 1
        /\ \A j \in 1..(Len(t) - 1) : Tail(t)[j] = t[j + 1]
    BY <1>1, <1>7, HeadTailProperties, EmptySeq
  <2>2. t \in Seq([key : Keys, value : {Absent, "archive", "arti"}])
    <3>1. Batched \subseteq [key : Keys, value : {Absent, "archive", "arti"}]
      BY DEF Batched
    <3>2. QED
      BY <1>1, <3>1, SeqMonotonic
  <2>3. /\ u \in Seq(Writes) /\ Len(u) = 1
        /\ u[1].key = t[1].key /\ u[1].value = t[1].value /\ u[1].rest = Tail(t)
    BY <1>7, <2>1, <2>2, IssueIs
  <2> HIDE DEF u, t
  <2>4. /\ r \in Seq(Writes) /\ Len(r) = n
        /\ \A j \in 1..n : r[j] = IF j <= n - 1 THEN c[j] ELSE u[j - (n - 1)]
    <3>1. /\ r \in Seq(Writes) /\ Len(r) = Len(c) + Len(u)
          /\ \A j \in 1..(Len(c) + Len(u)) : r[j] = IF j <= Len(c) THEN c[j] ELSE u[j - Len(c)]
      BY <1>5, <2>3, ConcatProperties
    <3>2. Len(c) + Len(u) = n
      BY <1>1, <1>5, <2>3
    <3> HIDE DEF r
    <3>3. QED
      BY <1>5, <3>1, <3>2
  <2> HIDE DEF r
  <2>5. DOMAIN r = 1..n
    BY <2>4, LenProperties
  <2>6. r[n] = u[1] /\ \A j \in 1..(n - 1) : r[j] = c[j]
    <3>1. n \in 1..n /\ ~(n <= n - 1) /\ n - (n - 1) = 1
      BY <1>1
    <3>2. r[n] = u[1]
      BY <2>4, <3>1
    <3>3. ASSUME NEW j \in 1..(n - 1) PROVE j \in 1..n /\ j <= n - 1
      BY <1>1
    <3>4. QED
      BY <2>4, <3>2, <3>3
  <2>7. DOMAIN Tail(t) = 1..(Len(t) - 1)
    BY <2>1, LenProperties
  <2>8. Comes(q, i, r)
    BY <1>5, <1>7, <2>1, <2>3, <2>4, <2>5, <2>6, <2>7 DEF Comes, t
  <2>9. QED
    BY <2>8 DEF r, c, u, t, Rest
<1>8. QED
  BY <1>6, <1>7

\* When a write is done with, what is to be written of a key still ends alike,
\* whether the write took effect or not, unless it was the last one of it.
LEMMA SettleKeepsEnd ==
  ASSUME NEW q \in Seq(Writes), NEW i \in DOMAIN q, NEW files \in BOOLEAN, files \/ i = 1,
         NEW v, NEW k \in Keys, NEW V, EndsIn(files, q, v, k, V)
  PROVE  EndsIn(files, Rest(q, i), IF q[i].key = k THEN q[i].value ELSE v, k, V)
<1> DEFINE n == Len(q)
           t == q[i].rest
           r == Rest(q, i)
           src(j) == IF j < i THEN j ELSE j + 1
           pos(j) == IF j < i THEN j ELSE j - 1
<1>1. /\ n \in Nat /\ DOMAIN q = 1..n /\ i \in 1..n
      /\ Len(t) \in Nat /\ DOMAIN t = 1..Len(t)
  BY WriteIs
<1>2. /\ DOMAIN r = 1..(IF t = <<>> THEN n - 1 ELSE n)
      /\ \A j \in 1..(n - 1) : r[j] = IF j < i THEN q[j] ELSE q[j + 1]
      /\ t # <<>> => /\ r[n].key = t[1].key /\ r[n].value = t[1].value
                     /\ DOMAIN r[n].rest = 1..(Len(t) - 1)
                     /\ \A j \in 1..(Len(t) - 1) : r[n].rest[j] = t[j + 1]
  BY RestIs DEF Comes
<1>3. t = <<>> <=> Len(t) = 0
  BY WriteIs, EmptySeq
<1>4. /\ \A x \in DOMAIN q : \A j \in DOMAIN q[x].rest :
           q[x].rest[j].key = k => q[x].rest[j].value \in V
      /\ \A x \in DOMAIN q :
           q[x].key = k /\ (files \/ (IsLast(q, x) /\ ~InRest(q, k))) => q[x].value \in V
      /\ ~InHead(q, k) /\ ~InRest(q, k) => v \in V
  BY DEF EndsIn
<1> HIDE DEF r, t, n
<1>5. ASSUME NEW j \in 1..(n - 1)
      PROVE  src(j) \in 1..n /\ src(j) # i /\ r[j] = q[src(j)] /\ j \in DOMAIN r
  BY <1>1, <1>2
<1>6. ASSUME NEW x \in 1..n, x # i
      PROVE  pos(x) \in 1..(n - 1) /\ r[pos(x)] = q[x] /\ pos(x) \in DOMAIN r
  <2>1. pos(x) \in 1..(n - 1) /\ src(pos(x)) = x
    BY <1>1, <1>6
  <2> HIDE DEF src, pos
  <2>2. QED
    BY <1>5, <2>1
<1>7. ASSUME NEW j \in DOMAIN r PROVE j \in 1..(n - 1) \/ (j = n /\ t # <<>> /\ Len(t) \in Nat \ {0})
  BY <1>1, <1>2, <1>3
<1> HIDE DEF src, pos
<1>8. ASSUME ~InRest(r, k), t # <<>> => t[1].key # k PROVE ~InRest(q, k)
  <2>1. SUFFICES ASSUME NEW x \in DOMAIN q, NEW j \in DOMAIN q[x].rest, q[x].rest[j].key = k
                 PROVE  FALSE
    BY DEF InRest
  <2>2. CASE x # i
    BY <1>1, <1>6, <1>8, <2>1, <2>2 DEF InRest
  <2>3. CASE x = i
    <3>1. j \in 1..Len(t) /\ t[j].key = k
      BY <1>1, <2>1, <2>3 DEF t
    <3>2. t # <<>> /\ j # 1
      BY <1>1, <1>3, <1>8, <3>1
    <3>3. j - 1 \in 1..(Len(t) - 1) /\ (j - 1) + 1 = j
      BY <1>1, <3>1, <3>2
    <3>4. j - 1 \in DOMAIN r[n].rest /\ r[n].rest[j - 1] = t[j]
      BY <1>2, <3>2, <3>3
    <3>5. n \in DOMAIN r
      BY <1>1, <1>2, <3>2
    <3>6. QED
      BY <1>8, <3>1, <3>4, <3>5 DEF InRest
  <2>4. QED
    BY <2>2, <2>3
<1>9. ASSUME NEW x \in DOMAIN r, NEW j \in DOMAIN r[x].rest, r[x].rest[j].key = k
      PROVE  r[x].rest[j].value \in V
  <2>1. CASE x \in 1..(n - 1)
    <3>1. src(x) \in DOMAIN q /\ r[x] = q[src(x)]
      BY <1>1, <1>5, <2>1
    <3>2. QED
      BY <1>4, <1>9, <3>1
  <2>2. CASE x = n /\ t # <<>> /\ Len(t) \in Nat \ {0}
    <3>1. j \in 1..(Len(t) - 1) /\ r[n].rest[j] = t[j + 1]
      BY <1>2, <1>9, <2>2
    <3>2. j + 1 \in DOMAIN t /\ t[j + 1] = q[i].rest[j + 1]
      BY <1>1, <2>2, <3>1 DEF t
    <3>3. j + 1 \in DOMAIN q[i].rest
      BY <3>2 DEF t
    <3>4. QED
      BY <1>4, <1>9, <2>2, <3>1, <3>2, <3>3
  <2>3. QED
    BY <1>7, <2>1, <2>2
<1>10. ASSUME NEW x \in DOMAIN r, r[x].key = k, files \/ (IsLast(r, x) /\ ~InRest(r, k))
       PROVE  r[x].value \in V
  <2>1. CASE x = n /\ t # <<>> /\ Len(t) \in Nat \ {0}
    <3>1. 1 \in DOMAIN q[i].rest /\ q[i].rest[1].key = k /\ r[x].value = q[i].rest[1].value
      BY <1>1, <1>2, <1>10, <2>1 DEF t
    <3>2. QED
      BY <1>4, <3>1
  <2>2. CASE x \in 1..(n - 1)
    <3>1. src(x) \in DOMAIN q /\ src(x) # i /\ r[x] = q[src(x)]
      BY <1>1, <1>5, <2>2
    <3>2. CASE files
      BY <1>4, <1>10, <3>1, <3>2
    <3>3. CASE ~files
      <4>1. i = 1 /\ IsLast(r, x) /\ ~InRest(r, k)
        BY <1>10, <3>3
      <4>2. src(x) = x + 1
        BY <2>2, <4>1, <1>1 DEF src
      <4>3. t # <<>> => t[1].key # k
        <5>1. t # <<>> => n \in DOMAIN r /\ n > x
          BY <1>1, <1>2, <2>2
        <5>2. QED
          BY <1>2, <1>10, <4>1, <5>1 DEF IsLast
      <4>4. ~InRest(q, k)
        BY <1>8, <4>1, <4>3
      <4>5. IsLast(q, src(x))
        <5>1. SUFFICES ASSUME NEW y \in 1..n, y > src(x) PROVE q[y].key # k
          BY <1>1, <1>10, <3>1 DEF IsLast
        <5>2. y # i /\ pos(y) = y - 1 /\ y - 1 > x
          BY <1>1, <2>2, <4>1, <4>2, <5>1 DEF pos
        <5>3. pos(y) \in DOMAIN r /\ r[pos(y)] = q[y] /\ pos(y) > x
          BY <1>6, <5>2
        <5>4. QED
          BY <1>10, <4>1, <5>3 DEF IsLast
      <4>6. QED
        BY <1>4, <1>10, <3>1, <4>4, <4>5
    <3>4. QED
      BY <3>2, <3>3
  <2>3. QED
    BY <1>7, <2>1, <2>2
<1>11. ASSUME ~InHead(r, k), ~InRest(r, k)
       PROVE  (IF q[i].key = k THEN q[i].value ELSE v) \in V
  <2>1. t # <<>> => t[1].key # k
    <3>1. t # <<>> => n \in DOMAIN r
      BY <1>1, <1>2
    <3>2. QED
      BY <1>2, <1>11, <3>1 DEF InHead
  <2>2. ~InRest(q, k)
    BY <1>8, <1>11, <2>1
  <2>3. \A x \in DOMAIN q : x # i => q[x].key # k
    BY <1>1, <1>6, <1>11 DEF InHead
  <2>4. CASE q[i].key = k
    <3>1. IsLast(q, i)
      <4>1. \A x \in DOMAIN q : x > i => x # i
        BY <1>1
      <4>2. QED
        BY <2>3, <2>4, <4>1 DEF IsLast
    <3>2. QED
      BY <1>4, <2>2, <2>4, <3>1
  <2>5. CASE q[i].key # k
    <3>1. ~InHead(q, k)
      BY <2>3, <2>5 DEF InHead
    <3>2. QED
      BY <1>4, <2>2, <2>5, <3>1
  <2>6. QED
    BY <2>4, <2>5
<1>12. EndsIn(files, r, IF q[i].key = k THEN q[i].value ELSE v, k, V)
  BY <1>9, <1>10, <1>11 DEF EndsIn
<1>13. QED
  BY <1>12 DEF r

\* Two queues one behind the other.
LEMMA ConcatIs ==
  ASSUME NEW q \in Seq(Writes), NEW add \in Seq(Writes)
  PROVE  /\ q \o add \in Seq(Writes)
         /\ Len(q) \in Nat /\ Len(add) \in Nat
         /\ DOMAIN q = 1..Len(q) /\ DOMAIN add = 1..Len(add)
         /\ DOMAIN (q \o add) = 1..(Len(q) + Len(add))
         /\ \A j \in 1..Len(q) : (q \o add)[j] = q[j]
         /\ \A j \in 1..Len(add) : (q \o add)[Len(q) + j] = add[j]
         /\ \A j \in DOMAIN (q \o add) :
              j \in 1..Len(q) \/ (j - Len(q) \in 1..Len(add) /\ Len(q) + (j - Len(q)) = j)
<1> DEFINE c == q \o add
           n == Len(q)
           m == Len(add)
<1>1. n \in Nat /\ m \in Nat /\ DOMAIN q = 1..n /\ DOMAIN add = 1..m
  BY LenProperties
<1>2. /\ c \in Seq(Writes) /\ Len(c) = n + m
      /\ \A j \in 1..(n + m) : c[j] = IF j <= n THEN q[j] ELSE add[j - n]
  BY ConcatProperties
<1> HIDE DEF c
<1>3. DOMAIN c = 1..(n + m)
  BY <1>2, LenProperties
<1> HIDE DEF n, m
<1>4. ASSUME NEW j \in 1..n PROVE c[j] = q[j]
  BY <1>1, <1>2
<1>5. ASSUME NEW j \in 1..m PROVE c[n + j] = add[j]
  <2>1. n + j \in 1..(n + m) /\ ~(n + j <= n) /\ (n + j) - n = j
    BY <1>1
  <2>2. QED
    BY <1>2, <2>1
<1>6. ASSUME NEW j \in 1..(n + m) PROVE j \in 1..n \/ (j - n \in 1..m /\ n + (j - n) = j)
  BY <1>1
<1>7. QED
  BY <1>1, <1>2, <1>3, <1>4, <1>5, <1>6 DEF c, n, m

\* What is in either queue is in both of them together.
LEMMA InConcat ==
  ASSUME NEW q \in Seq(Writes), NEW add \in Seq(Writes), NEW k
  PROVE  /\ InHead(q \o add, k) <=> InHead(q, k) \/ InHead(add, k)
         /\ InRest(q \o add, k) <=> InRest(q, k) \/ InRest(add, k)
<1> DEFINE c == q \o add
           n == Len(q)
           m == Len(add)
<1>1. /\ n \in Nat /\ m \in Nat /\ DOMAIN q = 1..n /\ DOMAIN add = 1..m
      /\ DOMAIN c = 1..(n + m)
      /\ \A j \in 1..n : c[j] = q[j]
      /\ \A j \in 1..m : c[n + j] = add[j]
      /\ \A j \in DOMAIN c : j \in 1..n \/ (j - n \in 1..m /\ n + (j - n) = j)
  BY ConcatIs
<1> HIDE DEF c, n, m
<1>2. \A j \in 1..n : j \in DOMAIN c
  BY <1>1
<1>3. \A j \in 1..m : n + j \in DOMAIN c
  BY <1>1
<1>4. \A j \in DOMAIN c : (\E x \in DOMAIN q : c[j] = q[x]) \/ (\E x \in DOMAIN add : c[j] = add[x])
  BY <1>1
<1>5. \A x \in DOMAIN q : \E j \in DOMAIN c : c[j] = q[x]
  BY <1>1, <1>2
<1>6. \A x \in DOMAIN add : \E j \in DOMAIN c : c[j] = add[x]
  BY <1>1, <1>3
<1>7. InHead(c, k) <=> InHead(q, k) \/ InHead(add, k)
  BY <1>4, <1>5, <1>6 DEF InHead
<1>8. InRest(c, k) <=> InRest(q, k) \/ InRest(add, k)
  BY <1>4, <1>5, <1>6 DEF InRest
<1>9. QED
  BY <1>7, <1>8 DEF c

\* Writes of other keys change nothing for a key.
LEMMA OthersKeepEnd ==
  ASSUME NEW q \in Seq(Writes), NEW add \in Seq(Writes), NEW files \in BOOLEAN,
         NEW v, NEW k \in Keys, NEW V, EndsIn(files, q, v, k, V), ~InHead(add, k), ~InRest(add, k)
  PROVE  EndsIn(files, q \o add, v, k, V)
<1> DEFINE c == q \o add
           n == Len(q)
           m == Len(add)
<1>1. /\ n \in Nat /\ m \in Nat /\ DOMAIN q = 1..n /\ DOMAIN add = 1..m
      /\ DOMAIN c = 1..(n + m)
      /\ \A j \in 1..n : c[j] = q[j]
      /\ \A j \in 1..m : c[n + j] = add[j]
      /\ \A j \in DOMAIN c : j \in 1..n \/ (j - n \in 1..m /\ n + (j - n) = j)
  BY ConcatIs
<1>2. (InHead(c, k) <=> InHead(q, k)) /\ (InRest(c, k) <=> InRest(q, k))
  BY InConcat
<1> HIDE DEF c, n, m
<1>3. /\ \A x \in DOMAIN q : \A j \in DOMAIN q[x].rest :
           q[x].rest[j].key = k => q[x].rest[j].value \in V
      /\ \A x \in DOMAIN q :
           q[x].key = k /\ (files \/ (IsLast(q, x) /\ ~InRest(q, k))) => q[x].value \in V
      /\ ~InHead(q, k) /\ ~InRest(q, k) => v \in V
  BY DEF EndsIn
<1>4. ASSUME NEW x \in DOMAIN c, NEW j \in DOMAIN c[x].rest, c[x].rest[j].key = k
      PROVE  c[x].rest[j].value \in V
  <2>1. x \in 1..n
    <3>1. SUFFICES ASSUME x - n \in 1..m, n + (x - n) = x PROVE FALSE
      BY <1>1
    <3>2. x - n \in DOMAIN add /\ c[x] = add[x - n]
      BY <1>1, <3>1
    <3>3. QED
      BY <1>4, <3>2 DEF InRest
  <2>2. QED
    BY <1>1, <1>3, <1>4, <2>1
<1>5. ASSUME NEW x \in DOMAIN c, c[x].key = k, files \/ (IsLast(c, x) /\ ~InRest(c, k))
      PROVE  c[x].value \in V
  <2>1. x \in 1..n
    <3>1. SUFFICES ASSUME x - n \in 1..m, n + (x - n) = x PROVE FALSE
      BY <1>1
    <3>2. x - n \in DOMAIN add /\ c[x] = add[x - n]
      BY <1>1, <3>1
    <3>3. QED
      BY <1>5, <3>2 DEF InHead
  <2>2. IsLast(c, x) => IsLast(q, x)
    <3>1. \A y \in 1..n : y \in DOMAIN c /\ c[y] = q[y]
      BY <1>1
    <3>2. QED
      BY <1>1, <2>1, <3>1 DEF IsLast
  <2>3. QED
    BY <1>1, <1>2, <1>3, <1>5, <2>1, <2>2
<1>6. EndsIn(files, c, v, k, V)
  BY <1>2, <1>3, <1>4, <1>5 DEF EndsIn
<1>7. QED
  BY <1>6 DEF c

\* Writes of a key decide what it ends with, unless an older one may overtake.
LEMMA WritesSetEnd ==
  ASSUME NEW q \in Seq(Writes), NEW add \in Seq(Writes), NEW files \in BOOLEAN,
         NEW v, NEW k \in Keys, NEW V, InHead(add, k) \/ InRest(add, k),
         \A i \in DOMAIN add : add[i].key = k => add[i].value \in V,
         \A i \in DOMAIN add : \A j \in DOMAIN add[i].rest :
           add[i].rest[j].key = k => add[i].rest[j].value \in V,
         \A i \in DOMAIN q : \A j \in DOMAIN q[i].rest :
           q[i].rest[j].key = k => q[i].rest[j].value \in V,
         files => \A i \in DOMAIN q : q[i].key = k => q[i].value \in V
  PROVE  EndsIn(files, q \o add, v, k, V)
<1> DEFINE c == q \o add
           n == Len(q)
           m == Len(add)
<1>1. /\ n \in Nat /\ m \in Nat /\ DOMAIN q = 1..n /\ DOMAIN add = 1..m
      /\ DOMAIN c = 1..(n + m)
      /\ \A j \in 1..n : c[j] = q[j]
      /\ \A j \in 1..m : c[n + j] = add[j]
      /\ \A j \in DOMAIN c : j \in 1..n \/ (j - n \in 1..m /\ n + (j - n) = j)
  BY ConcatIs
<1>2. (InHead(c, k) <=> InHead(q, k) \/ InHead(add, k)) /\ (InRest(c, k) <=> InRest(q, k) \/ InRest(add, k))
  BY InConcat
<1> HIDE DEF c, n, m
<1>3. ASSUME NEW x \in DOMAIN c
      PROVE  (x \in DOMAIN q /\ c[x] = q[x]) \/ (x - n \in DOMAIN add /\ c[x] = add[x - n])
  <2>1. CASE x \in 1..n
    BY <1>1, <2>1
  <2>2. CASE x - n \in 1..m /\ n + (x - n) = x
    <3>1. c[n + (x - n)] = add[x - n]
      BY <1>1, <2>2
    <3>2. QED
      BY <1>1, <2>2, <3>1
  <2>3. QED
    BY <1>1, <2>1, <2>2
<1>4. ASSUME NEW x \in DOMAIN c, NEW j \in DOMAIN c[x].rest, c[x].rest[j].key = k
      PROVE  c[x].rest[j].value \in V
  BY <1>3, <1>4
<1>5. ASSUME NEW x \in DOMAIN c, c[x].key = k, files \/ (IsLast(c, x) /\ ~InRest(c, k))
      PROVE  c[x].value \in V
  <2>1. CASE x - n \in DOMAIN add /\ c[x] = add[x - n]
    BY <1>5, <2>1
  <2>2. CASE x \in DOMAIN q /\ c[x] = q[x]
    <3>1. CASE files
      BY <1>5, <2>2, <3>1
    <3>2. CASE ~files
      <4>1. IsLast(c, x) /\ ~InRest(c, k)
        BY <1>5, <3>2
      <4>2. PICK i \in DOMAIN add : add[i].key = k
        BY <1>2, <4>1 DEF InHead
      <4>3. n + i \in DOMAIN c /\ c[n + i] = add[i] /\ n + i > x
        BY <1>1, <2>2, <4>2
      <4>4. QED
        BY <1>5, <4>1, <4>2, <4>3 DEF IsLast
    <3>3. QED
      BY <3>1, <3>2
  <2>3. QED
    BY <1>3, <2>1, <2>2
<1>6. EndsIn(files, c, v, k, V)
  BY <1>2, <1>4, <1>5 DEF EndsIn
<1>7. QED
  BY <1>6 DEF c

-----------------------------------------------------------------------------
(* What a task adds to the queue                                           *)

Written == {Absent, "archive", "arti"}

\* Writes of x to the keys K, and to no other.
Says(add, K, x) ==
  /\ add \in Seq(Writes)
  /\ \A k : k \in K <=> InHead(add, k) \/ InRest(add, k)
  /\ \A i \in DOMAIN add : add[i].value = x
  /\ \A i \in DOMAIN add : \A j \in DOMAIN add[i].rest : add[i].rest[j].value = x

\* A call that writes x to the keys K.
Spawned(add, K, x) ==
  /\ Says(add, K, x)
  /\ queue' = queue \o add
  /\ cache' = [k \in Keys |-> IF k \in K THEN x ELSE cache[k]]
  /\ excused' = (excused \ K) \cup (K \cap Overtaken)
  /\ UNCHANGED <<backend, store>>

\* The keys that entries name.
LEMMA KeysAre ==
  ASSUME NEW S, NEW t \in Seq(S)
  PROVE  \A k : k \in KeysOf(t) <=> \E j \in DOMAIN t : t[j].key = k
BY DEF KeysOf, ToSet

\* Entries together name the keys of both.
LEMMA ConcatKeys ==
  ASSUME NEW S, NEW t \in Seq(S), NEW u \in Seq(S)
  PROVE  KeysOf(t \o u) = KeysOf(t) \cup KeysOf(u)
<1> DEFINE c == t \o u
           n == Len(t)
           m == Len(u)
<1>1. n \in Nat /\ m \in Nat /\ DOMAIN t = 1..n /\ DOMAIN u = 1..m
  BY LenProperties
<1>2. /\ c \in Seq(S) /\ Len(c) = n + m
      /\ \A j \in 1..(n + m) : c[j] = IF j <= n THEN t[j] ELSE u[j - n]
  BY ConcatProperties
<1> HIDE DEF c
<1>3. DOMAIN c = 1..(n + m)
  BY <1>2, LenProperties
<1> HIDE DEF n, m
<1>4. ASSUME NEW j \in DOMAIN c
      PROVE  (\E x \in DOMAIN t : c[j] = t[x]) \/ (\E x \in DOMAIN u : c[j] = u[x])
  <2>1. CASE j <= n
    BY <1>1, <1>2, <1>3, <2>1
  <2>2. CASE ~(j <= n)
    <3>1. j - n \in DOMAIN u
      BY <1>1, <1>3, <2>2
    <3>2. QED
      BY <1>2, <1>3, <2>2, <3>1
  <2>3. QED
    BY <2>1, <2>2
<1>5. ASSUME NEW x \in DOMAIN t PROVE x \in DOMAIN c /\ c[x] = t[x]
  BY <1>1, <1>2, <1>3
<1>6. ASSUME NEW x \in DOMAIN u PROVE n + x \in DOMAIN c /\ c[n + x] = u[x]
  <2>1. n + x \in 1..(n + m) /\ ~(n + x <= n) /\ (n + x) - n = x
    BY <1>1
  <2>2. QED
    BY <1>2, <1>3, <2>1
<1>7. \A k : k \in KeysOf(c) <=> k \in KeysOf(t) \/ k \in KeysOf(u)
  BY <1>4, <1>5, <1>6 DEF KeysOf, ToSet
<1>8. QED
  BY <1>7 DEF c

\* The first write of a task of one value, with the rest of it.
LEMMA IssueSays ==
  ASSUME NEW x \in Written, NEW t \in Seq([key : Keys, value : {x}]),
         x = "archive" \/ Len(t) = 1
  PROVE  Says(Issue(t), KeysOf(t), x)
<1> DEFINE E == [key : Keys, value : {x}]
<1>1. Len(t) \in Nat /\ DOMAIN t = 1..Len(t) /\ \A j \in 1..Len(t) : t[j] \in E
  BY LenProperties, ElementOfSeq
<1>2. \A k : k \in KeysOf(t) <=> \E j \in DOMAIN t : t[j].key = k
  BY KeysAre
<1>3. CASE t = <<>>
  <2>1. Issue(t) = <<>>
    BY <1>3 DEF Issue
  <2>2. Issue(t) \in Seq(Writes) /\ DOMAIN Issue(t) = {}
    BY <2>1
  <2>3. DOMAIN t = {}
    BY <1>3
  <2>4. QED
    BY <1>2, <2>2, <2>3 DEF Says, InHead, InRest
<1>4. CASE t # <<>>
  <2>1. Len(t) \in Nat \ {0}
    BY <1>4, EmptySeq
  <2>2. /\ Tail(t) \in Seq(E) /\ Len(Tail(t)) = Len(t) - 1
        /\ \A j \in 1..Len(Tail(t)) : Tail(t)[j] = t[j + 1]
    BY <1>4, HeadTailProperties
  <2>3. Tail(t) \in Seq(Batched)
    <3>1. CASE x = "archive"
      BY <2>2, <3>1 DEF Batched
    <3>2. CASE Len(t) = 1
      <4>1. Tail(t) = <<>>
        <5>1. Len(Tail(t)) = 0 /\ Tail(t) \in Seq(E)
          BY <2>2, <3>2
        <5> HIDE DEF E
        <5>2. QED
          BY <5>1, EmptySeq
      <4>2. QED
        BY <4>1, EmptySeq
    <3>3. QED
      BY <3>1, <3>2
  <2>4. t \in Seq([key : Keys, value : {Absent, "archive", "arti"}])
    <3>1. E \subseteq [key : Keys, value : {Absent, "archive", "arti"}]
      BY DEF Written
    <3>2. QED
      BY <3>1, SeqMonotonic
  <2>5. /\ Issue(t) \in Seq(Writes) /\ Len(Issue(t)) = 1
        /\ Issue(t)[1].key = t[1].key /\ Issue(t)[1].value = t[1].value
        /\ Issue(t)[1].rest = Tail(t)
    BY <1>4, <2>3, <2>4, IssueIs
  <2> DEFINE u == Issue(t)
  <2> HIDE DEF u
  <2>6. DOMAIN u = {1}
    BY <2>5, LenProperties DEF u
  <2>7. /\ u \in Seq(Writes) /\ u[1].key = t[1].key /\ u[1].value = t[1].value
        /\ DOMAIN u[1].rest = 1..(Len(t) - 1)
        /\ \A j \in 1..(Len(t) - 1) : u[1].rest[j] = t[j + 1]
    BY <2>2, <2>5, LenProperties DEF u
  <2>8. t[1] \in E /\ \A j \in 1..(Len(t) - 1) : j + 1 \in 1..Len(t) /\ t[j + 1] \in E
    BY <1>1, <2>1
  <2>9. /\ \A i \in DOMAIN u : u[i].value = x
        /\ \A i \in DOMAIN u : \A j \in DOMAIN u[i].rest : u[i].rest[j].value = x
    <3>1. u[1].value = x
      BY <2>7, <2>8
    <3>2. ASSUME NEW j \in DOMAIN u[1].rest PROVE u[1].rest[j].value = x
      <4>1. j \in 1..(Len(t) - 1)
        BY <2>7
      <4>2. u[1].rest[j] = t[j + 1] /\ t[j + 1] \in E
        BY <2>7, <2>8, <4>1
      <4>3. QED
        BY <4>2
    <3>3. QED
      BY <2>6, <3>1, <3>2
  <2>10. ASSUME NEW k PROVE k \in KeysOf(t) <=> InHead(u, k) \/ InRest(u, k)
    <3>1. InHead(u, k) <=> t[1].key = k
      BY <2>6, <2>7 DEF InHead
    <3>2. InRest(u, k) <=> \E j \in 1..(Len(t) - 1) : t[j + 1].key = k
      <4>1. InRest(u, k) <=> \E j \in DOMAIN u[1].rest : u[1].rest[j].key = k
        BY <2>6 DEF InRest
      <4>2. InRest(u, k) <=> \E j \in 1..(Len(t) - 1) : u[1].rest[j].key = k
        BY <2>7, <4>1
      <4>3. QED
        BY <2>7, <4>2
    <3>3. ASSUME NEW j \in DOMAIN t, t[j].key = k
          PROVE  t[1].key = k \/ \E i \in 1..(Len(t) - 1) : t[i + 1].key = k
      <4>1. CASE j = 1
        BY <3>3, <4>1
      <4>2. CASE j # 1
        <5>1. j - 1 \in 1..(Len(t) - 1) /\ (j - 1) + 1 = j
          BY <1>1, <4>2
        <5>2. QED
          BY <3>3, <5>1
      <4>3. QED
        BY <4>1, <4>2
    <3>4. 1 \in DOMAIN t /\ \A j \in 1..(Len(t) - 1) : j + 1 \in DOMAIN t
      BY <1>1, <2>1
    <3>5. QED
      BY <1>2, <3>1, <3>2, <3>3, <3>4
  <2>11. QED
    BY <2>7, <2>9, <2>10 DEF Says, u
<1>5. QED
  BY <1>3, <1>4

\* Two tasks of one value.
LEMMA ConcatSays ==
  ASSUME NEW x, NEW K, NEW L, NEW a, NEW b, Says(a, K, x), Says(b, L, x)
  PROVE  Says(a \o b, K \cup L, x)
<1> DEFINE c == a \o b
           n == Len(a)
<1>1. a \in Seq(Writes) /\ b \in Seq(Writes)
  BY DEF Says
<1>2. /\ c \in Seq(Writes)
      /\ DOMAIN a = 1..n /\ DOMAIN b = 1..Len(b)
      /\ \A j \in 1..n : c[j] = a[j]
      /\ \A j \in 1..Len(b) : c[n + j] = b[j]
      /\ \A j \in DOMAIN c : j \in 1..n \/ (j - n \in 1..Len(b) /\ n + (j - n) = j)
  BY <1>1, ConcatIs
<1>3. \A k : /\ InHead(c, k) <=> InHead(a, k) \/ InHead(b, k)
             /\ InRest(c, k) <=> InRest(a, k) \/ InRest(b, k)
  BY <1>1, InConcat
<1> HIDE DEF c, n
<1>4. \A j \in DOMAIN c : (\E i \in DOMAIN a : c[j] = a[i]) \/ (\E i \in DOMAIN b : c[j] = b[i])
  BY <1>2
<1>5. \A k : k \in K \cup L <=> InHead(c, k) \/ InRest(c, k)
  BY <1>3 DEF Says
<1>6. /\ \A i \in DOMAIN c : c[i].value = x
      /\ \A i \in DOMAIN c : \A j \in DOMAIN c[i].rest : c[i].rest[j].value = x
  BY <1>4 DEF Says
<1>7. Says(c, K \cup L, x)
  BY <1>2, <1>5, <1>6 DEF Says
<1>8. QED
  BY <1>7 DEF c

\* FlattenSeq of one sequence and of two.
LEMMA FlattenShort ==
  ASSUME NEW S, NEW t \in Seq(S), NEW u \in Seq(S)
  PROVE  FlattenSeq(<<t>>) = t /\ FlattenSeq(<<t, u>>) = t \o u
<1>1. FlattenSeq(<<t>>) = t
  <2> DEFINE s == <<t>>
  <2>1. s \in Seq(Seq(S)) /\ Len(s) = 1 /\ s[1] = t
    OBVIOUS
  <2> HIDE DEF s
  <2>2. PICK f \in [1..Len(s) -> Seq(S)] : Partial(f, s, Len(s)) /\ FlattenSeq(s) = f[Len(s)]
    <3>1. Len(s) > 0
      BY <2>1
    <3>2. QED
      BY <2>1, <3>1, FlattenIsPartial
  <2>3. f[1] = t
    BY <2>1, <2>2 DEF Partial
  <2>4. QED
    BY <2>1, <2>2, <2>3 DEF s
<1>2. FlattenSeq(<<t, u>>) = t \o u
  <2> DEFINE s == <<t, u>>
  <2>1. s \in Seq(Seq(S)) /\ Len(s) = 2 /\ s[1] = t /\ s[2] = u
    OBVIOUS
  <2> HIDE DEF s
  <2>2. PICK f \in [1..Len(s) -> Seq(S)] : Partial(f, s, Len(s)) /\ FlattenSeq(s) = f[Len(s)]
    <3>1. Len(s) > 0
      BY <2>1
    <3>2. QED
      BY <2>1, <3>1, FlattenIsPartial
  <2>3. 1 \in 1..2 /\ 2 \in 1..2 /\ 2 # 1 /\ 2 - 1 = 1
    OBVIOUS
  <2>4. f[1] = t /\ f[2] = f[1] \o u
    BY <2>1, <2>2, <2>3 DEF Partial
  <2>5. QED
    BY <2>1, <2>2, <2>4 DEF s
<1>3. QED
  BY <1>1, <1>2

\* The value of a key in entries that all have one.
LEMMA ValueIs ==
  ASSUME NEW x, NEW t \in Seq([key : Keys, value : {x}]), NEW k \in KeysOf(t)
  PROVE  ValueIn(t, k) = x
<1>1. \A e \in ToSet(t) : e.value = x
  <2>1. \A j \in DOMAIN t : t[j] \in [key : Keys, value : {x}]
    BY LenProperties, ElementOfSeq
  <2>2. QED
    BY <2>1 DEF ToSet
<1>2. \E e \in ToSet(t) : e.key = k
  BY DEF KeysOf
<1>3. QED
  BY <1>1, <1>2 DEF ValueIn

\* A call that writes one value, in one task.
LEMMA SpawnOne ==
  ASSUME NEW x \in Written, NEW t \in Seq([key : Keys, value : {x}]),
         x = "archive" \/ Len(t) = 1, Spawn(<<t>>)
  PROVE  Spawned(Issue(t), KeysOf(t), x)
<1> DEFINE E == [key : Keys, value : {x}]
<1>1. Says(Issue(t), KeysOf(t), x)
  BY IssueSays
<1>2. FlattenSeq(<<t>>) = t
  BY FlattenShort
<1>3. [i \in DOMAIN <<t>> |-> Issue(<<t>>[i])] = <<Issue(t)>>
  OBVIOUS
<1>4. FlattenSeq(<<Issue(t)>>) = Issue(t)
  BY <1>1, FlattenShort DEF Says
<1>5. \A k \in KeysOf(t) : ValueIn(t, k) = x
  BY ValueIs
<1>6. cache' = [k \in Keys |-> IF k \in KeysOf(t) THEN x ELSE cache[k]]
  BY <1>2, <1>5 DEF Spawn
<1>7. /\ queue' = queue \o Issue(t)
      /\ excused' = (excused \ KeysOf(t)) \cup (KeysOf(t) \cap Overtaken)
      /\ UNCHANGED <<backend, store>>
  BY <1>2, <1>3, <1>4 DEF Spawn
<1>8. QED
  BY <1>1, <1>6, <1>7 DEF Spawned

\* Two calls one after the other.
LEMMA SpawnTwo ==
  ASSUME NEW x \in Written, x = "archive", NEW t \in Seq([key : Keys, value : {x}]),
         NEW u \in Seq([key : Keys, value : {x}]), Spawn(<<t, u>>)
  PROVE  Spawned(Issue(t) \o Issue(u), KeysOf(t \o u), x)
<1> DEFINE E == [key : Keys, value : {x}]
<1>1. Says(Issue(t), KeysOf(t), x) /\ Says(Issue(u), KeysOf(u), x)
  BY IssueSays
<1>2. Says(Issue(t) \o Issue(u), KeysOf(t \o u), x)
  <2>1. KeysOf(t \o u) = KeysOf(t) \cup KeysOf(u)
    BY ConcatKeys
  <2>2. QED
    BY <1>1, <2>1, ConcatSays
<1>3. FlattenSeq(<<t, u>>) = t \o u
  BY FlattenShort
<1>4. [i \in DOMAIN <<t, u>> |-> Issue(<<t, u>>[i])] = <<Issue(t), Issue(u)>>
  OBVIOUS
<1>5. FlattenSeq(<<Issue(t), Issue(u)>>) = Issue(t) \o Issue(u)
  BY <1>1, FlattenShort DEF Says
<1>6. t \o u \in Seq(E)
  BY ConcatProperties
<1>7. \A k \in KeysOf(t \o u) : ValueIn(t \o u, k) = x
  BY <1>6, ValueIs
<1>8. cache' = [k \in Keys |-> IF k \in KeysOf(t \o u) THEN x ELSE cache[k]]
  BY <1>3, <1>7 DEF Spawn
<1>9. /\ queue' = queue \o (Issue(t) \o Issue(u))
      /\ excused' = (excused \ KeysOf(t \o u)) \cup (KeysOf(t \o u) \cap Overtaken)
      /\ UNCHANGED <<backend, store>>
  BY <1>3, <1>4, <1>5 DEF Spawn
<1>10. QED
  BY <1>2, <1>8, <1>9 DEF Spawned

-----------------------------------------------------------------------------
(* What is pending                                                         *)

PendingOf(q) == UNION {{w.key} \cup Later(w) : w \in ToSet(q)}

\* A key is pending in a write or in the rest of its task.
LEMMA PendingIs ==
  ASSUME NEW q \in Seq(Writes)
  PROVE  /\ PendingOf(q) \subseteq Keys
         /\ \A k : k \in PendingOf(q) <=> InHead(q, k) \/ InRest(q, k)
         /\ \A k : k \in UNION {Later(w) : w \in ToSet(q)} <=> InRest(q, k)
<1>1. ASSUME NEW i \in DOMAIN q, NEW k
      PROVE  k \in Later(q[i]) <=> \E j \in DOMAIN q[i].rest : q[i].rest[j].key = k
  <2>1. q[i].rest \in Seq(Batched)
    BY WriteIs
  <2>2. QED
    BY <2>1, KeysAre DEF Later
<1>2. \A k : k \in UNION {Later(w) : w \in ToSet(q)} <=> \E i \in DOMAIN q : k \in Later(q[i])
  BY DEF ToSet
<1>3. \A k : k \in UNION {Later(w) : w \in ToSet(q)} <=> InRest(q, k)
  BY <1>1, <1>2 DEF InRest
<1>4. \A k : k \in PendingOf(q) <=> \E i \in DOMAIN q : k = q[i].key \/ k \in Later(q[i])
  BY DEF PendingOf, ToSet
<1>5. \A k : k \in PendingOf(q) <=> InHead(q, k) \/ InRest(q, k)
  BY <1>1, <1>4 DEF InHead, InRest
<1>6. \A k : InHead(q, k) \/ InRest(q, k) => k \in Keys
  BY WriteIs DEF InHead, InRest
<1>7. QED
  BY <1>3, <1>5, <1>6

\* The same of the queue, with the keys an older write may still change.
LEMMA QueueIs ==
  ASSUME Typed
  PROVE  /\ queue \in Seq(Writes)
         /\ backend \in {"ordered", "files"}
         /\ \A k : k \in Pending <=> InHead(queue, k) \/ InRest(queue, k)
         /\ \A k : k \in Overtaken <=>
              InRest(queue, k) \/ (backend = "files" /\ InHead(queue, k))
         /\ Undone \subseteq Keys
         /\ \A k \in Keys \ Undone : backend = "files" =>
              \A i \in DOMAIN queue : queue[i].key = k => queue[i].value \in {"archive", "arti"}
         /\ \A k : \A i \in DOMAIN queue : \A j \in DOMAIN queue[i].rest :
              queue[i].rest[j].value = "archive"
<1>1. queue \in Seq(Writes)
  BY DEF Typed
<1>2. backend \in {"ordered", "files"}
  BY BackendAssumption DEF Typed, TypeOK
<1>3. Pending = PendingOf(queue)
  BY DEF Pending, PendingOf
<1>4. /\ \A k : k \in Pending <=> InHead(queue, k) \/ InRest(queue, k)
      /\ \A k : k \in UNION {Later(w) : w \in ToSet(queue)} <=> InRest(queue, k)
  BY <1>1, <1>3, PendingIs
<1>5. \A k : k \in Overtaken <=> InRest(queue, k) \/ (backend = "files" /\ InHead(queue, k))
  <2>1. CASE backend = "ordered"
    BY <1>4, <2>1 DEF Overtaken
  <2>2. CASE backend = "files"
    BY <1>4, <2>2 DEF Overtaken
  <2>3. QED
    BY <1>2, <2>1, <2>2
<1>6. \A i \in DOMAIN queue : queue[i] \in Writes /\ queue[i].key \in Keys
  BY <1>1, WriteIs
<1>7. Undone \subseteq Keys
  BY <1>6 DEF Undone, ToSet
<1>8. ASSUME NEW k \in Keys \ Undone, backend = "files", NEW i \in DOMAIN queue, queue[i].key = k
      PROVE  queue[i].value \in {"archive", "arti"}
  <2>1. queue[i].value # Absent
    BY <1>8 DEF Undone, ToSet
  <2>2. QED
    BY <1>6, <2>1 DEF Writes
<1>9. \A i \in DOMAIN queue : \A j \in DOMAIN queue[i].rest : queue[i].rest[j].value = "archive"
  BY <1>1, WriteIs
<1>10. QED
  BY <1>1, <1>2, <1>4, <1>5, <1>7, <1>8, <1>9

\* The types of a state, from its queue.
LEMMA TypedNext ==
  ASSUME TypeOK, backend' = backend, queue' \in Seq(Writes), descs' \in Seq(Keys),
         cache' \in [Keys -> Values], store' \in [Keys -> Values],
         excused' \subseteq Keys, lost' \subseteq Keys,
         phase' \in {"off", "checking", "fetching", "digesting", "running"},
         skipped' \in BOOLEAN, starts' \in 0..MaxStarts, ops' \in 0..MaxOps,
         fails' \in 0..MaxFails
  PROVE  Typed'
<1>1. Pending' = PendingOf(queue')
  BY DEF Pending, PendingOf, Later, KeysOf
<1>2. Pending' \subseteq Keys
  BY <1>1, PendingIs
<1>3. QED
  BY <1>2 DEF Typed, TypeOK

-----------------------------------------------------------------------------
(* A call that writes keeps the invariant                                  *)

\* A call that writes keeps the types of the storage.
LEMMA SpawnedTypes ==
  ASSUME Typed, NEW add, NEW K \in SUBSET Keys, NEW x \in Written, Spawned(add, K, x)
  PROVE  /\ queue' \in Seq(Writes) /\ backend' = backend /\ store' = store
         /\ cache' \in [Keys -> Values] /\ excused' \subseteq Keys
<1>1. queue' \in Seq(Writes)
  BY QueueIs, ConcatIs DEF Spawned, Says
<1>2. cache \in [Keys -> Values] /\ excused \subseteq Keys /\ x \in Values
  BY DEF Typed, TypeOK, Written, Values
<1>3. cache' \in [Keys -> Values]
  <2>1. cache' = [k \in Keys |-> IF k \in K THEN x ELSE cache[k]]
    BY DEF Spawned
  <2>2. QED
    BY <1>2, <2>1
<1>4. excused' \subseteq Keys
  BY <1>2 DEF Spawned
<1>5. QED
  BY <1>1, <1>3, <1>4 DEF Spawned

\* What it writes to the cache is what the storage ends with, unless an older
\* write may settle after.
LEMMA SpawnedConverges ==
  ASSUME Typed, Converging, phase # "off", NEW add, NEW K \in SUBSET Keys, NEW x \in Written,
         Spawned(add, K, x)
  PROVE  Converging'
<1> DEFINE files == backend = "files"
<1>1. SUFFICES ASSUME NEW k \in Keys, k \notin excused'
               PROVE  EndsIn(files, queue \o add, store[k], k, {cache'[k]})
  BY DEF Converging, Spawned
<1>2. /\ queue \in Seq(Writes) /\ add \in Seq(Writes) /\ files \in BOOLEAN
      /\ k \in K <=> InHead(add, k) \/ InRest(add, k)
  BY QueueIs DEF Spawned, Says
<1>3. cache'[k] = IF k \in K THEN x ELSE cache[k]
  BY DEF Spawned
<1>4. CASE k \notin K
  <2>1. k \notin excused
    BY <1>1, <1>4 DEF Spawned
  <2>2. EndsIn(files, queue, store[k], k, {cache[k]})
    BY <2>1 DEF Converging
  <2> HIDE DEF files
  <2>3. EndsIn(files, queue \o add, store[k], k, {cache[k]})
    BY <1>2, <1>4, <2>2, OthersKeepEnd
  <2>4. QED
    BY <1>3, <1>4, <2>3
<1>5. CASE k \in K
  <2>1. k \notin Overtaken
    BY <1>1, <1>5 DEF Spawned
  <2>2. ~InRest(queue, k) /\ (files => ~InHead(queue, k))
    BY <2>1, QueueIs
  <2>3. /\ \A i \in DOMAIN queue : \A j \in DOMAIN queue[i].rest : queue[i].rest[j].key # k
        /\ files => \A i \in DOMAIN queue : queue[i].key # k
    BY <2>2 DEF InRest, InHead
  <2>4. /\ \A i \in DOMAIN add : add[i].value \in {x}
        /\ \A i \in DOMAIN add : \A j \in DOMAIN add[i].rest : add[i].rest[j].value \in {x}
    BY DEF Spawned, Says
  <2> HIDE DEF files
  <2>5. EndsIn(files, queue \o add, store[k], k, {x})
    BY <1>2, <1>5, <2>3, <2>4, WritesSetEnd
  <2>6. QED
    BY <1>3, <1>5, <2>5
<1>6. QED
  BY <1>4, <1>5

\* What the client counts on is among the keys that no exception takes out.
LEMMA SpawnedKeeps ==
  ASSUME Typed, NEW add, NEW K \in SUBSET Keys, NEW x \in {"archive", "arti"},
         Spawned(add, K, x), NEW k \in Keys,
         \/ k \in K /\ k \notin Undone
         \/ EndsIn(backend = "files", queue, store[k], k, {"archive", "arti"})
  PROVE  EndsIn(backend = "files", queue \o add, store[k], k, {"archive", "arti"})
<1> DEFINE files == backend = "files"
           V == {"archive", "arti"}
<1>1. /\ queue \in Seq(Writes) /\ add \in Seq(Writes) /\ files \in BOOLEAN
      /\ k \in K <=> InHead(add, k) \/ InRest(add, k)
  BY QueueIs DEF Spawned, Says
<1>2. CASE k \notin K
  <2>1. EndsIn(files, queue, store[k], k, V)
    BY <1>2
  <2> HIDE DEF files, V
  <2>2. EndsIn(files, queue \o add, store[k], k, V)
    BY <1>1, <1>2, <2>1, OthersKeepEnd
  <2>3. QED
    BY <2>2 DEF files, V
<1>3. CASE k \in K
  <2>1. \A i \in DOMAIN queue : \A j \in DOMAIN queue[i].rest : queue[i].rest[j].value \in V
    BY QueueIs
  <2>2. files => \A i \in DOMAIN queue : queue[i].key = k => queue[i].value \in V
    <3>1. CASE k \notin Undone
      BY <3>1, QueueIs
    <3>2. CASE EndsIn(files, queue, store[k], k, V)
      BY <3>2 DEF EndsIn
    <3>3. QED
      BY <1>3, <3>1, <3>2
  <2>3. /\ \A i \in DOMAIN add : add[i].value \in V
        /\ \A i \in DOMAIN add : \A j \in DOMAIN add[i].rest : add[i].rest[j].value \in V
    BY DEF Spawned, Says
  <2> HIDE DEF files, V
  <2>4. EndsIn(files, queue \o add, store[k], k, V)
    BY <1>1, <1>3, <2>1, <2>2, <2>3, WritesSetEnd
  <2>5. QED
    BY <2>4 DEF files, V
<1>4. QED
  BY <1>2, <1>3

-----------------------------------------------------------------------------
(* The documents of an archive                                             *)

\* Two tasks.
LEMMA PairIs == ASSUME NEW t, NEW u PROVE <<t>> \o <<u>> = <<t, u>>
<1> DEFINE S == {t, u}
           a == <<t>>
           b == <<u>>
           c == a \o b
           d == <<t, u>>
<1>1. /\ a \in Seq(S) /\ b \in Seq(S) /\ d \in Seq(S)
      /\ Len(a) = 1 /\ Len(b) = 1 /\ Len(d) = 2
      /\ a[1] = t /\ b[1] = u /\ d[1] = t /\ d[2] = u
  OBVIOUS
<1> HIDE DEF a, b, d, S
<1>2. /\ c \in Seq(S) /\ Len(c) = Len(a) + Len(b)
      /\ \A i \in 1..(Len(a) + Len(b)) : c[i] = IF i <= Len(a) THEN a[i] ELSE b[i - Len(a)]
  BY <1>1, ConcatProperties
<1> HIDE DEF c
<1>3. Len(c) = 2 /\ c[1] = t /\ c[2] = u
  BY <1>1, <1>2
<1>4. \A i \in 1..Len(c) : c[i] = d[i]
  BY <1>1, <1>3
<1>5. c = d
  BY <1>1, <1>2, <1>3, <1>4, SeqEqual
<1>6. QED
  BY <1>5 DEF a, b, c, d

\* A set of indices has a last one.
LEMMA LastIndex ==
  ASSUME NEW n \in Nat, NEW T, T \subseteq 1..n, T # {}
  PROVE  \E x \in T : \A y \in T : y <= x
<1> DEFINE U == {n - x : x \in T}
<1>1. U \subseteq Nat /\ U # {}
  <2>1. \A x \in 1..n : n - x \in Nat
    OBVIOUS
  <2>2. PICK x \in T : TRUE
    OBVIOUS
  <2>3. n - x \in U
    OBVIOUS
  <2>4. QED
    BY <2>1, <2>3
<1>2. IsWellFoundedOn(OpToRel(<, Nat), Nat)
  BY NatLessThanWellFounded
<1>3. PICK u \in U : \A v \in U : ~(<<v, u>> \in OpToRel(<, Nat))
  BY <1>1, <1>2, WFMin
<1>4. \A v \in U : ~(v < u)
  BY <1>1, <1>3 DEF OpToRel
<1>5. PICK x \in T : u = n - x
  OBVIOUS
<1>6. ASSUME NEW y \in T PROVE y <= x
  <2>1. n - y \in U /\ y \in Nat /\ x \in Nat
    OBVIOUS
  <2>2. ~(n - y < n - x)
    BY <1>4, <1>5, <2>1
  <2>3. QED
    BY <2>1, <2>2
<1>7. QED
  BY <1>6

\* A document has keys, but for certificates that begin unreadably.
LEMMA DocsAre ==
  ASSUME NEW a \in Archives, NEW name
  PROVE  /\ name # "certs" => Docs(a, name) \in Seq(Keys)
         /\ ~(Docs(a, name) # <<>> /\ Docs(a, name)[1] = "garbage") => Docs(a, name) \in Seq(Keys)
<1> DEFINE is == {i \in Parse(a).found : a.members[i].name = name}
           c == CHOOSE i \in is : \A j \in is : j <= i
<1>1. CASE is = {}
  <2>1. Docs(a, name) = <<>>
    BY <1>1 DEF Docs
  <2>2. QED
    BY <2>1
<1>2. CASE is # {}
  <2>1. c \in is
    <3>1. is \subseteq DOMAIN a.members /\ DOMAIN a.members = 1..Len(a.members)
          /\ Len(a.members) \in Nat
      BY ArchiveIs, ParseTyped
    <3>2. QED
      BY <1>2, <3>1, LastIndex
  <2>2. Docs(a, name) = a.members[c].docs
    BY <1>2 DEF Docs
  <2>3. IsArchive(a) /\ c \in DOMAIN a.members /\ a.members[c].name = name
    BY <2>1, ArchiveIs, ParseTyped
  <2> HIDE DEF c, is
  <2>4. \/ a.members[c].docs \in Seq(Keys)
        \/ name = "certs" /\ a.members[c].docs[1] = "garbage"
    BY <2>3, ArchiveIs
  <2>5. a.members[c].docs = <<>> => a.members[c].docs \in Seq(Keys)
    OBVIOUS
  <2>6. QED
    BY <2>2, <2>4, <2>5
<1>3. QED
  BY <1>1, <1>2

\* One entry for each key of a document.
LEMMA EntriesAre ==
  ASSUME NEW docs \in Seq(Keys)
  PROVE  /\ Entries(docs) \in Seq([key : Keys, value : {"archive"}])
         /\ KeysOf(Entries(docs)) = ToSet(docs) /\ ToSet(docs) \subseteq Keys
<1>1. Len(docs) \in Nat /\ DOMAIN docs = 1..Len(docs) /\ \A i \in 1..Len(docs) : docs[i] \in Keys
  BY LenProperties, ElementOfSeq
<1>2. Entries(docs) = [i \in 1..Len(docs) |-> [key |-> docs[i], value |-> "archive"]]
  BY <1>1 DEF Entries, Entry
<1>3. Entries(docs) \in Seq([key : Keys, value : {"archive"}])
  BY <1>1, <1>2
<1>4. DOMAIN Entries(docs) = DOMAIN docs /\ \A i \in DOMAIN docs : Entries(docs)[i].key = docs[i]
  BY <1>1, <1>2
<1>5. \A k : k \in KeysOf(Entries(docs)) <=> \E j \in DOMAIN docs : docs[j] = k
  BY <1>3, <1>4, KeysAre
<1>6. \A k : k \in ToSet(docs) <=> \E j \in DOMAIN docs : docs[j] = k
  BY DEF ToSet
<1>7. QED
  BY <1>1, <1>3, <1>5, <1>6

\* store_consensus and store_authcerts as one write of the archive's keys.
LEMMA PopulatesIs ==
  ASSUME Typed, NEW a \in Archives, Populates(a)
  PROVE  \E K \in SUBSET Keys : \E add :
           /\ Spawned(add, K, "archive")
           /\ lost' = (Keys \ K) \cup Undone
           /\ descs' \in Seq(Keys)
<1> DEFINE cons == Docs(a, "consensus")
           certs == Docs(a, "certs")
           unreadable == certs # <<>> /\ certs[1] = "garbage"
           tasks == <<Entries(cons)>> \o (IF unreadable THEN <<>> ELSE <<Entries(certs)>>)
           E == [key : Keys, value : {"archive"}]
<1>1. cons \in Seq(Keys) /\ Docs(a, "microdescs") \in Seq(Keys)
  BY DocsAre
<1>2. /\ Spawn(tasks) /\ lost' = (Keys \ KeysOf(FlattenSeq(tasks))) \cup Undone
      /\ descs' = IF unreadable THEN <<>> ELSE Docs(a, "microdescs")
  BY DEF Populates
<1>3. descs' \in Seq(Keys)
  BY <1>1, <1>2
<1>4. Entries(cons) \in Seq(E) /\ KeysOf(Entries(cons)) \subseteq Keys
  BY <1>1, EntriesAre
<1>5. "archive" \in Written
  BY DEF Written
<1>6. CASE unreadable
  <2>1. tasks = <<Entries(cons)>>
    BY <1>6
  <2> HIDE DEF tasks, cons
  <2>2. FlattenSeq(tasks) = Entries(cons)
    BY <1>4, <2>1, FlattenShort
  <2>3. Spawned(Issue(Entries(cons)), KeysOf(Entries(cons)), "archive")
    BY <1>2, <1>4, <1>5, <2>1, SpawnOne
  <2>4. QED
    BY <1>2, <1>3, <1>4, <2>2, <2>3
<1>7. CASE ~unreadable
  <2>1. certs \in Seq(Keys)
    BY <1>7, DocsAre
  <2>2. Entries(certs) \in Seq(E) /\ KeysOf(Entries(certs)) \subseteq Keys
    BY <2>1, EntriesAre
  <2>3. tasks = <<Entries(cons), Entries(certs)>>
    <3>1. tasks = <<Entries(cons)>> \o <<Entries(certs)>>
      BY <1>7
    <3> HIDE DEF tasks, cons, certs
    <3>2. QED
      BY <3>1, PairIs
  <2> HIDE DEF tasks, cons, certs
  <2> DEFINE K == KeysOf(Entries(cons) \o Entries(certs))
  <2>4. FlattenSeq(tasks) = Entries(cons) \o Entries(certs)
    BY <1>4, <2>2, <2>3, FlattenShort
  <2>5. Spawned(Issue(Entries(cons)) \o Issue(Entries(certs)), K, "archive")
    BY <1>2, <1>4, <1>5, <2>2, <2>3, SpawnTwo
  <2>6. K \subseteq Keys
    BY <1>4, <2>2, ConcatKeys
  <2>7. QED
    BY <1>2, <1>3, <2>4, <2>5, <2>6
<1>8. QED
  BY <1>6, <1>7

-----------------------------------------------------------------------------
(* The invariant and the steps                                             *)

\* With nothing on its way, a key ends with what is stored.
LEMMA NothingPending ==
  ASSUME NEW files, NEW q \in Seq(Writes), NEW v, NEW k, NEW V,
         ~InHead(q, k), ~InRest(q, k), v \in V
  PROVE  EndsIn(files, q, v, k, V)
BY DEF EndsIn, InHead, InRest

\* A storage begins empty, and nothing is counted on.
LEMMA BootInit == Init => BootInv
<1> SUFFICES ASSUME Init PROVE BootInv
  OBVIOUS
<1> USE DEF Init, StorageInit
<1>1. queue \in Seq(Writes) /\ descs \in Seq(Keys) /\ DOMAIN queue = {}
  OBVIOUS
<1>2. \A k : ~InHead(queue, k) /\ ~InRest(queue, k)
  BY <1>1 DEF InHead, InRest
<1>3. Typed
  <2>1. Pending = {}
    <3>1. Pending = PendingOf(queue)
      BY DEF Pending, PendingOf
    <3>2. QED
      BY <1>1, <1>2, <3>1, PendingIs
  <2>2. cache \in [Keys -> Values] /\ store \in [Keys -> Values]
    BY DEF Values
  <2>3. starts \in 0..MaxStarts /\ ops \in 0..MaxOps /\ fails \in 0..MaxFails
    BY BootAssumption
  <2>4. phase \in {"off", "checking", "fetching", "digesting", "running"} /\ backend \in Backends
    OBVIOUS
  <2>5. QED
    BY <1>1, <2>1, <2>2, <2>3, <2>4 DEF Typed, TypeOK
<1>4. Converging
  BY DEF Converging
<1>5. Kept
  BY DEF Kept
<1>6. QED
  BY <1>3, <1>4, <1>5 DEF BootInv

\* A start reads what is stored; what is on its way there is lost to it.
LEMMA StartStep == ASSUME BootInv, Start PROVE BootInv'
<1> DEFINE files == backend = "files"
           V == {"archive", "arti"}
<1>1. /\ phase = "off" /\ phase' = "checking" /\ skipped' = FALSE /\ starts' = starts + 1
      /\ cache' = store /\ excused' = Pending /\ lost' = lost \cup Pending
      /\ backend' = backend /\ store' = store /\ queue' = queue
      /\ descs' = descs /\ ops' = ops /\ fails' = fails /\ starts < MaxStarts
  BY DEF Start, Preload
<1>2. Typed
  BY DEF BootInv
<1>3. /\ queue \in Seq(Writes)
      /\ \A k \in Keys \ Pending : ~InHead(queue, k) /\ ~InRest(queue, k)
  BY <1>2, QueueIs
<1>4. Typed'
  <2>1. TypeOK /\ descs \in Seq(Keys)
    BY <1>2 DEF Typed
  <2>2. starts' \in 0..MaxStarts
    BY <1>1, <2>1, BootAssumption DEF TypeOK
  <2>3. QED
    BY <1>1, <1>3, <2>1, <2>2, TypedNext DEF TypeOK
<1>5. Converging'
  <2>1. ASSUME NEW k \in Keys \ Pending PROVE EndsIn(files, queue, store[k], k, {store[k]})
    BY <1>3, NothingPending
  <2>2. QED
    BY <1>1, <2>1 DEF Converging
<1>6. \A k \in Keys \ lost : EndsIn(files, queue, store[k], k, V)
  BY DEF BootInv, Kept
<1>7. \A k \in Keys \ lost' : store[k] \in V
  BY <1>1, <1>3, <1>6 DEF EndsIn
<1>8. Kept'
  BY <1>1, <1>6, <1>7 DEF Kept
<1>9. QED
  BY <1>4, <1>5, <1>8 DEF BootInv

\* The steps of maybe_fast_bootstrap that write nothing.
LEMMA QuietStep ==
  ASSUME BootInv, Skip \/ Asks \/ CallbackFails \/ DigestFails \/ \E a \in Archives : Rejects(a)
  PROVE  BootInv'
<1>1. /\ UNCHANGED <<storageVars, starts, ops, fails, lost>>
      /\ descs' \in Seq(Keys) /\ phase # "off"
      /\ phase' \in {"fetching", "running"}
      /\ skipped' \in BOOLEAN
      /\ skipped' => phase' = "running" /\ (phase = "checking" \/ skipped)
  <2>1. descs \in Seq(Keys) /\ skipped \in BOOLEAN /\ (skipped => phase = "running")
    BY DEF BootInv, Typed, TypeOK, Kept
  <2>2. <<>> \in Seq(Keys)
    BY EmptySeq
  <2>3. CASE Skip
    BY <2>1, <2>3 DEF Skip, Goto
  <2>4. CASE Asks
    BY <2>1, <2>4 DEF Asks, Goto
  <2>5. CASE CallbackFails
    BY <2>1, <2>5 DEF CallbackFails, Goto
  <2>6. CASE DigestFails
    BY <2>1, <2>2, <2>6 DEF DigestFails, Goto
  <2>7. CASE \E a \in Archives : Rejects(a)
    BY <2>1, <2>7 DEF Rejects, Goto
  <2>8. QED
    BY <2>3, <2>4, <2>5, <2>6, <2>7
<1>2. /\ backend' = backend /\ cache' = cache /\ store' = store /\ queue' = queue
      /\ excused' = excused /\ starts' = starts /\ ops' = ops /\ fails' = fails /\ lost' = lost
  BY <1>1 DEF storageVars
<1>3. Typed'
  BY <1>1, <1>2, TypedNext DEF BootInv, Typed, TypeOK
<1>4. Converging'
  BY <1>1, <1>2 DEF BootInv, Converging
<1>5. Kept'
  BY <1>1, <1>2 DEF BootInv, Kept
<1>6. QED
  BY <1>3, <1>4, <1>5 DEF BootInv

\* Consensus and certificates of the archive become what is counted on.
LEMMA PopulatesStep == ASSUME BootInv, NEW a \in Archives, Populates(a) PROVE BootInv'
<1>1. Typed /\ Converging /\ Kept
  BY DEF BootInv
<1>2. /\ phase = "fetching" /\ phase' \in {"running", "digesting"}
      /\ skipped' = skipped /\ starts' = starts /\ ops' = ops /\ fails' = fails
  BY DEF Populates
<1>3. PICK K \in SUBSET Keys : \E add :
         Spawned(add, K, "archive") /\ lost' = (Keys \ K) \cup Undone /\ descs' \in Seq(Keys)
  BY <1>1, PopulatesIs
<1>3a. PICK add :
         Spawned(add, K, "archive") /\ lost' = (Keys \ K) \cup Undone /\ descs' \in Seq(Keys)
  BY <1>3
<1>4. "archive" \in Written
  BY DEF Written
<1>5. /\ queue' \in Seq(Writes) /\ backend' = backend /\ store' = store
      /\ cache' \in [Keys -> Values] /\ excused' \subseteq Keys
  BY <1>1, <1>3a, <1>4, SpawnedTypes
<1>6. Typed'
  <2>1. lost' \subseteq Keys
    BY <1>1, <1>3a, QueueIs
  <2>2. TypeOK
    BY <1>1 DEF Typed
  <2>3. QED
    BY <1>2, <1>3a, <1>5, <2>1, <2>2, TypedNext DEF TypeOK
<1>7. Converging'
  BY <1>1, <1>2, <1>3a, <1>4, SpawnedConverges
<1>8. Kept'
  <2>1. ASSUME NEW k \in Keys \ lost'
        PROVE  EndsIn(backend = "files", queue \o add, store[k], k, {"archive", "arti"})
    <3>1. k \in K /\ k \notin Undone
      BY <1>3a, <2>1
    <3>2. QED
      BY <1>1, <1>3a, <3>1, SpawnedKeeps
  <2>2. queue' = queue \o add
    BY <1>3a DEF Spawned
  <2>3. ~skipped
    BY <1>1, <1>2 DEF Kept
  <2>4. QED
    BY <1>2, <1>5, <2>1, <2>2, <2>3 DEF Kept
<1>9. QED
  BY <1>6, <1>7, <1>8 DEF BootInv

\* The microdescriptors join them after their digests.
LEMMA DigestedStep == ASSUME BootInv, Digested PROVE BootInv'
<1> DEFINE K == ToSet(descs)
           t == Entries(descs)
           add == Issue(t)
<1>1. Typed /\ Converging /\ Kept
  BY DEF BootInv
<1>2. /\ phase = "digesting" /\ phase' = "running" /\ descs' = <<>>
      /\ skipped' = skipped /\ starts' = starts /\ ops' = ops /\ fails' = fails
      /\ Spawn(<<t>>) /\ lost' = lost \ (K \ Undone)
  BY DEF Digested
<1>3. t \in Seq([key : Keys, value : {"archive"}]) /\ KeysOf(t) = K /\ K \in SUBSET Keys
  BY <1>1, EntriesAre DEF Typed
<1>4. "archive" \in Written
  BY DEF Written
<1>5. Spawned(add, K, "archive")
  <2> HIDE DEF t, K
  <2>1. Spawned(Issue(t), KeysOf(t), "archive")
    BY <1>2, <1>3, <1>4, SpawnOne
  <2>2. QED
    BY <1>3, <2>1
<1> HIDE DEF add, t, K
<1>6. /\ queue' \in Seq(Writes) /\ backend' = backend /\ store' = store
      /\ cache' \in [Keys -> Values] /\ excused' \subseteq Keys
  BY <1>1, <1>3, <1>4, <1>5, SpawnedTypes
<1>7. Typed'
  <2>1. TypeOK
    BY <1>1 DEF Typed
  <2>2. lost' \subseteq Keys /\ <<>> \in Seq(Keys)
    BY <1>2, <2>1 DEF TypeOK
  <2>3. QED
    BY <1>2, <1>6, <2>1, <2>2, TypedNext DEF TypeOK
<1>8. Converging'
  BY <1>1, <1>2, <1>3, <1>4, <1>5, SpawnedConverges
<1>9. Kept'
  <2>1. ASSUME NEW k \in Keys \ lost'
        PROVE  EndsIn(backend = "files", queue \o add, store[k], k, {"archive", "arti"})
    <3>1. \/ k \in K /\ k \notin Undone
          \/ EndsIn(backend = "files", queue, store[k], k, {"archive", "arti"})
      BY <1>1, <1>2, <2>1 DEF Kept
    <3>2. QED
      BY <1>1, <1>3, <1>5, <3>1, SpawnedKeeps
  <2>2. queue' = queue \o add
    BY <1>5 DEF Spawned
  <2>3. ~skipped
    BY <1>1, <1>2 DEF Kept
  <2>4. QED
    BY <1>2, <1>6, <2>1, <2>2, <2>3 DEF Kept
<1>10. QED
  BY <1>7, <1>8, <1>9 DEF BootInv

\* arti sets or deletes a key; a deleted one is no longer counted on.
LEMMA ArtiWritesStep ==
  ASSUME BootInv, NEW k \in Keys, NEW value \in {"arti", Absent}, ArtiWrites(k, value)
  PROVE  BootInv'
<1> DEFINE t == <<Entry(k, value)>>
           add == Issue(t)
<1>1. Typed /\ Converging /\ Kept
  BY DEF BootInv
<1>2. /\ phase = "running" /\ phase' = phase /\ descs' = descs /\ skipped' = skipped
      /\ starts' = starts /\ fails' = fails /\ ops < MaxOps /\ ops' = ops + 1
      /\ Spawn(<<t>>)
      /\ lost' = IF value = Absent THEN lost \cup {k} ELSE lost
  BY DEF ArtiWrites
<1>3. t \in Seq([key : Keys, value : {value}]) /\ Len(t) = 1 /\ DOMAIN t = {1} /\ t[1].key = k
  BY DEF Entry
<1>4. value \in Written
  BY DEF Written
<1>5. KeysOf(t) = {k}
  <2> HIDE DEF t
  <2>1. QED
    BY <1>3, KeysAre
<1>6. Spawned(add, {k}, value)
  <2> HIDE DEF t
  <2>1. QED
    BY <1>2, <1>3, <1>4, <1>5, SpawnOne
<1> HIDE DEF add, t
<1>7. {k} \in SUBSET Keys
  OBVIOUS
<1>8. /\ queue' \in Seq(Writes) /\ backend' = backend /\ store' = store
      /\ cache' \in [Keys -> Values] /\ excused' \subseteq Keys
  BY <1>1, <1>4, <1>6, <1>7, SpawnedTypes
<1>9. Typed'
  <2>1. TypeOK /\ descs \in Seq(Keys)
    BY <1>1 DEF Typed
  <2>2. lost' \subseteq Keys /\ ops' \in 0..MaxOps
    BY <1>2, <2>1, BootAssumption DEF TypeOK
  <2>3. QED
    BY <1>2, <1>8, <2>1, <2>2, TypedNext DEF TypeOK
<1>10. Converging'
  <2>1. phase # "off"
    BY <1>2
  <2>2. QED
    BY <1>1, <1>4, <1>6, <1>7, <2>1, SpawnedConverges
<1>11. queue' = queue \o add
  BY <1>6 DEF Spawned
<1>12. \A x \in Keys \ lost' : x \in Keys \ lost /\ (x = k => value = "arti")
  BY <1>2
<1>13. ASSUME NEW x \in Keys \ lost'
       PROVE  EndsIn(backend = "files", queue \o add, store[x], x, {"archive", "arti"})
  <2>1. EndsIn(backend = "files", queue, store[x], x, {"archive", "arti"})
    BY <1>1, <1>12, <1>13 DEF Kept
  <2>2. CASE value = "arti"
    BY <1>1, <1>6, <1>7, <2>1, <2>2, SpawnedKeeps
  <2>3. CASE value # "arti"
    <3>1. x # k
      BY <1>12, <1>13, <2>3
    <3>2. ~InHead(add, x) /\ ~InRest(add, x)
      BY <1>6, <3>1 DEF Spawned, Says
    <3>3. queue \in Seq(Writes) /\ add \in Seq(Writes) /\ (backend = "files") \in BOOLEAN
      BY <1>1, <1>6 DEF Typed, Spawned, Says
    <3>4. QED
      BY <2>1, <3>2, <3>3, OthersKeepEnd
  <2>4. QED
    BY <2>2, <2>3
<1>14. ASSUME skipped, NEW x \in Keys \ lost' PROVE cache'[x] \in {"archive", "arti"}
  <2>1. cache[x] \in {"archive", "arti"}
    BY <1>1, <1>12, <1>14 DEF Kept
  <2>2. cache'[x] = IF x = k THEN value ELSE cache[x]
    BY <1>6 DEF Spawned
  <2>3. QED
    BY <1>12, <1>14, <2>1, <2>2
<1>15. Kept'
  <2>1. \A x \in Keys \ lost' : EndsIn(backend' = "files", queue', store'[x], x, {"archive", "arti"})
    BY <1>8, <1>11, <1>13
  <2>2. phase' # "checking" /\ (skipped' => skipped) /\ phase' = "running"
    BY <1>2
  <2>3. QED
    BY <1>14, <2>1, <2>2 DEF Kept
<1>16. QED
  BY <1>9, <1>10, <1>15 DEF BootInv

\* An ordered storage settles the oldest write.
LEMMA DueIs == ASSUME Typed, NEW i \in Due PROVE i \in DOMAIN queue /\ (backend = "files" \/ i = 1)
BY QueueIs DEF Due

\* Either way the task goes on with its next write.
LEMMA GoesOnTypes ==
  ASSUME Typed, NEW i \in DOMAIN queue, GoesOn(i)
  PROVE  queue' = Rest(queue, i) /\ queue' \in Seq(Writes)
<1>1. queue' = Rest(queue, i)
  BY DEF GoesOn, Rest
<1>2. QED
  BY <1>1, QueueIs, RestIs DEF Comes

\* A write takes effect: what its key ends with stays the same.
LEMMA WriteSettlesStep == ASSUME BootInv, WriteSettles PROVE BootInv'
<1> DEFINE files == backend = "files"
           V == {"archive", "arti"}
<1>1. Typed /\ Converging /\ Kept
  BY DEF BootInv
<1>2. PICK i \in Due : Settles(i) /\ UNCHANGED bootVars
  BY DEF WriteSettles
<1>3. i \in DOMAIN queue /\ (files \/ i = 1)
  BY <1>1, <1>2, DueIs
<1>4. /\ store' = [store EXCEPT ![queue[i].key] = queue[i].value]
      /\ backend' = backend /\ cache' = cache /\ excused' = excused
      /\ phase' = phase /\ descs' = descs /\ skipped' = skipped /\ lost' = lost
      /\ starts' = starts /\ ops' = ops /\ fails' = fails
  BY <1>2 DEF Settles, bootVars
<1>5. queue' = Rest(queue, i) /\ queue' \in Seq(Writes)
  BY <1>1, <1>2, <1>3, GoesOnTypes DEF Settles
<1>6. queue \in Seq(Writes) /\ queue[i] \in Writes /\ store \in [Keys -> Values]
  BY <1>1, <1>3, QueueIs, WriteIs DEF Typed, TypeOK
<1>7. \A k \in Keys : store'[k] = IF queue[i].key = k THEN queue[i].value ELSE store[k]
  BY <1>4, <1>6
<1>8. ASSUME NEW k \in Keys, NEW S, EndsIn(files, queue, store[k], k, S)
      PROVE  EndsIn(files, queue', store'[k], k, S)
  <2> HIDE DEF files
  <2>1. files \in BOOLEAN
    BY DEF files
  <2>2. EndsIn(files, Rest(queue, i), IF queue[i].key = k THEN queue[i].value ELSE store[k], k, S)
    BY <1>3, <1>6, <1>8, <2>1, SettleKeepsEnd
  <2>3. QED
    BY <1>5, <1>7, <2>2
<1>9. Typed'
  <2>1. store' \in [Keys -> Values]
    BY <1>4, <1>6 DEF Writes, Values
  <2>2. QED
    BY <1>1, <1>4, <1>5, <2>1, TypedNext DEF Typed, TypeOK
<1>10. Converging'
  BY <1>1, <1>4, <1>8 DEF Converging
<1>11. Kept'
  BY <1>1, <1>4, <1>8 DEF Kept
<1>12. QED
  BY <1>9, <1>10, <1>11 DEF BootInv

\* A write without effect excuses its key, and its task goes on.
LEMMA WriteFailsStep == ASSUME BootInv, WriteFails PROVE BootInv'
<1> DEFINE files == backend = "files"
           V == {"archive", "arti"}
<1>1. Typed /\ Converging /\ Kept
  BY DEF BootInv
<1>2. PICK i \in Due :
         /\ fails < MaxFails /\ fails' = fails + 1
         /\ FailsAt(i) /\ lost' = lost \cup {queue[i].key}
         /\ UNCHANGED <<phase, descs, skipped, starts, ops>>
  BY DEF WriteFails
<1>3. i \in DOMAIN queue /\ (files \/ i = 1)
  BY <1>1, <1>2, DueIs
<1>4. /\ \A k \in Keys : k # queue[i].key => store'[k] = store[k]
      /\ store' \in [Keys -> Values] /\ backend' = backend /\ cache' = cache
      /\ excused' = excused \cup {queue[i].key}
      /\ phase' = phase /\ descs' = descs /\ skipped' = skipped
      /\ starts' = starts /\ ops' = ops
  BY <1>1, <1>2 DEF FailsAt, Typed, TypeOK, Values
<1>5. queue' = Rest(queue, i) /\ queue' \in Seq(Writes)
  BY <1>1, <1>2, <1>3, GoesOnTypes DEF FailsAt
<1>6. queue \in Seq(Writes) /\ queue[i].key \in Keys
  BY <1>1, <1>3, QueueIs, WriteIs
<1>7. ASSUME NEW k \in Keys, k # queue[i].key, NEW S, EndsIn(files, queue, store[k], k, S)
      PROVE  EndsIn(files, queue', store'[k], k, S)
  <2> HIDE DEF files
  <2>1. files \in BOOLEAN
    BY DEF files
  <2>2. EndsIn(files, Rest(queue, i), IF queue[i].key = k THEN queue[i].value ELSE store[k], k, S)
    BY <1>3, <1>6, <1>7, <2>1, SettleKeepsEnd
  <2>3. QED
    BY <1>4, <1>5, <1>7, <2>2
<1>8. Typed'
  <2>1. fails' \in 0..MaxFails
    BY <1>1, <1>2, BootAssumption DEF Typed, TypeOK
  <2>2. QED
    BY <1>1, <1>2, <1>4, <1>5, <1>6, <2>1, TypedNext DEF Typed, TypeOK
<1>9. Converging'
  BY <1>1, <1>4, <1>7 DEF Converging
<1>10. Kept'
  BY <1>1, <1>2, <1>4, <1>7 DEF Kept
<1>11. QED
  BY <1>8, <1>9, <1>10 DEF BootInv

\* The tasks of a dropped client still count for the next one.
LEMMA DropsStep == ASSUME BootInv, Drops PROVE BootInv'
<1>1. Typed /\ Kept
  BY DEF BootInv
<1>2. /\ phase' = "off" /\ skipped' = FALSE /\ cache' = [k \in Keys |-> Absent] /\ excused' = {}
      /\ backend' = backend /\ store' = store /\ queue' = queue
      /\ descs' = descs /\ lost' = lost /\ starts' = starts /\ ops' = ops /\ fails' = fails
  BY DEF Drops, Forget
<1>3. Typed'
  <2>1. cache' \in [Keys -> Values]
    BY <1>2 DEF Values
  <2>2. QED
    BY <1>1, <1>2, <2>1, TypedNext DEF Typed, TypeOK
<1>4. Converging'
  BY <1>2 DEF Converging
<1>5. Kept'
  BY <1>1, <1>2 DEF Kept
<1>6. QED
  BY <1>3, <1>4, <1>5 DEF BootInv

\* A kill tears only what was being written, and that is lost.
LEMMA DiesStep == ASSUME BootInv, Dies PROVE BootInv'
<1> DEFINE open == {w.key : w \in {v \in ToSet(queue) : v.value # Absent}}
           V == {"archive", "arti"}
<1>1. Typed /\ Kept
  BY DEF BootInv
<1>2. /\ phase' = "off" /\ descs' = <<>> /\ skipped' = FALSE /\ lost' = lost \cup Pending
      /\ starts' = starts /\ ops' = ops /\ fails' = fails
      /\ cache' = [k \in Keys |-> Absent] /\ queue' = <<>> /\ excused' = {} /\ backend' = backend
  BY DEF Dies, Killed
<1>3. PICK torn \in SUBSET open : store' = [k \in Keys |-> IF k \in torn THEN Torn ELSE store[k]]
  BY DEF Dies, Killed
<1>4. open \subseteq Pending
  BY DEF Pending
<1>5. queue' \in Seq(Writes) /\ DOMAIN queue' = {}
  BY <1>2
<1>6. \A k : ~InHead(queue', k) /\ ~InRest(queue', k)
  BY <1>5 DEF InHead, InRest
<1>7. ASSUME NEW k \in Keys \ lost' PROVE store'[k] \in V
  <2>1. k \notin lost /\ k \notin Pending /\ store'[k] = store[k]
    BY <1>2, <1>3, <1>4, <1>7
  <2>2. EndsIn(backend = "files", queue, store[k], k, V)
    BY <1>1, <1>7, <2>1 DEF Kept
  <2>3. ~InHead(queue, k) /\ ~InRest(queue, k)
    BY <1>1, <2>1, QueueIs
  <2>4. QED
    BY <2>1, <2>2, <2>3 DEF EndsIn
<1>8. Typed'
  <2>1. TypeOK
    BY <1>1 DEF Typed
  <2>2. cache' \in [Keys -> Values] /\ store' \in [Keys -> Values]
    BY <1>2, <1>3, <2>1 DEF TypeOK, Values
  <2>3. <<>> \in Seq(Keys) /\ lost' \subseteq Keys
    BY <1>2, <2>1 DEF TypeOK
  <2>4. QED
    BY <1>2, <1>5, <2>1, <2>2, <2>3, TypedNext DEF TypeOK
<1>9. Converging'
  BY <1>2 DEF Converging
<1>10. Kept'
  <2>1. \A k \in Keys \ lost' : EndsIn(backend' = "files", queue', store'[k], k, V)
    BY <1>5, <1>6, <1>7, NothingPending
  <2>2. QED
    BY <1>2, <2>1 DEF Kept
<1>11. QED
  BY <1>8, <1>9, <1>10 DEF BootInv

\* Every step keeps the invariant.
LEMMA BootStep == BootInv /\ [Next]_vars => BootInv'
<1> SUFFICES ASSUME BootInv, [Next]_vars PROVE BootInv'
  OBVIOUS
<1>1. CASE Start
  BY <1>1, StartStep
<1>2. CASE Skip \/ Asks \/ CallbackFails \/ DigestFails \/ \E a \in Archives : Rejects(a)
  BY <1>2, QuietStep
<1>3. CASE \E a \in Archives : Populates(a)
  BY <1>3, PopulatesStep
<1>4. CASE Digested
  BY <1>4, DigestedStep
<1>5. CASE \E k \in Keys, v \in {"arti", Absent} : ArtiWrites(k, v)
  BY <1>5, ArtiWritesStep
<1>6. CASE WriteSettles
  BY <1>6, WriteSettlesStep
<1>7. CASE WriteFails
  BY <1>7, WriteFailsStep
<1>8. CASE Drops
  BY <1>8, DropsStep
<1>9. CASE Dies
  BY <1>9, DiesStep
<1>10. CASE UNCHANGED vars
  <2>1. /\ backend' = backend /\ cache' = cache /\ store' = store /\ queue' = queue
        /\ excused' = excused /\ phase' = phase /\ descs' = descs /\ skipped' = skipped
        /\ lost' = lost /\ starts' = starts /\ ops' = ops /\ fails' = fails
    BY <1>10 DEF vars, storageVars, bootVars
  <2>2. Typed'
    BY <2>1, TypedNext DEF BootInv, Typed, TypeOK
  <2>3. Converging' /\ Kept'
    BY <2>1 DEF BootInv, Converging, Kept
  <2>4. QED
    BY <2>2, <2>3 DEF BootInv
<1>11. QED
  BY <1>1, <1>2, <1>3, <1>4, <1>5, <1>6, <1>7, <1>8, <1>9, <1>10 DEF Next

\* The invariant holds in every state of a client and its storage.
-----------------------------------------------------------------------------
(* Theorems                                                                *)
LEMMA BootAlways == Spec => []BootInv
BY BootInit, BootStep, PTL DEF Spec

\* The cache, the storage and the writes on their way to it keep their types
\* (CachedJsStorage), and so does the start (maybe_fast_bootstrap).
THEOREM BootTypesHold == Spec => []TypeOK
<1>1. BootInv => TypeOK
  BY DEF BootInv, Typed
<1>2. QED
  BY <1>1, BootAlways, PTL

\* Once every task of set, delete and set_many (storage.rs, schedule_persist,
\* set_many, schedule_delete) is done, storage and cache agree, up to the
\* exceptions that the property names.
THEOREM WriteBackIsComplete == Spec => []WriteBackConverges
<1>1. BootInv => WriteBackConverges
  <2>1. SUFFICES ASSUME BootInv, phase # "off", queue = <<>>, NEW k \in Keys \ excused
                 PROVE  store[k] = cache[k]
    BY DEF WriteBackConverges
  <2>2. EndsIn(backend = "files", queue, store[k], k, {cache[k]})
    BY <2>1 DEF BootInv, Converging
  <2>3. DOMAIN queue = {}
    BY <2>1
  <2>4. ~InHead(queue, k) /\ ~InRest(queue, k)
    BY <2>3 DEF InHead, InRest
  <2>5. QED
    BY <2>2, <2>4 DEF EndsIn
<1>2. QED
  BY <1>1, BootAlways, PTL

\* A client that skips the archive for a consensus it found
\* (maybe_fast_bootstrap) has all other documents too, up to the exceptions
\* that the property names.
THEOREM SkippedIsWhole == Spec => []SkipMeansWhole
<1>1. BootInv => SkipMeansWhole
  BY DEF BootInv, Kept, SkipMeansWhole, Absent, Torn
<1>2. QED
  BY <1>1, BootAlways, PTL
=============================================================================
