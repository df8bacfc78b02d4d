--------------------------- MODULE CachedStorage ---------------------------
(***************************************************************************)
(* The client's storage: a cache in memory that arti reads and writes at   *)
(* once, and the tasks that carry the writes to the JavaScript storage     *)
(* (src/crates/tor-js-wasm/src/storage.rs, CachedJsStorage).               *)
(*                                                                         *)
(* A task issues its writes one by one, each when the one before it has    *)
(* settled.  The storage is either one that settles writes in the order    *)
(* they were issued (IndexedDB, memory, the wrapper's overlay) or the file *)
(* system, where concurrent writes settle in any order and a failed write  *)
(* or a killed process may leave a file half written.  Two writes of one   *)
(* file at once are one of the two, never a mixture.                       *)
(*                                                                         *)
(* This module has the operations; FastBootstrap says who calls them.      *)
(***************************************************************************)
EXTENDS Integers, Sequences, FiniteSets, SequencesExt

CONSTANTS Keys, Backends

ASSUME BackendAssumption == Backends \subseteq {"ordered", "files"}

VARIABLES backend,
          cache, store,   \* the value of each key, in memory and behind it
          queue,          \* the writes issued and not settled, each with the
                          \* rest of its task
          excused         \* history: keys whose store may end up different

storageVars == <<backend, cache, store, queue, excused>>

Absent == "absent"
Torn == "torn"
Entry(key, value) == [key |-> key, value |-> value]

StorageInit ==
  /\ backend \in Backends
  /\ cache = [k \in Keys |-> Absent] /\ store = [k \in Keys |-> Absent]
  /\ queue = <<>> /\ excused = {}

KeysOf(entries) == {e.key : e \in ToSet(entries)}
Later(write) == KeysOf(write.rest)
Pending == UNION {{w.key} \cup Later(w) : w \in ToSet(queue)}

\* The keys for which an earlier write may settle after one issued now.
Overtaken ==
  IF backend = "ordered" THEN UNION {Later(w) : w \in ToSet(queue)} ELSE Pending

\* A task's next write, if it has one.
Issue(entries) ==
  IF entries = <<>> THEN <<>>
  ELSE <<[key |-> Head(entries).key, value |-> Head(entries).value, rest |-> Tail(entries)]>>

ValueIn(entries, k) == (CHOOSE e \in ToSet(entries) : e.key = k).value

\* set, delete and set_many: the cache at once, then one task per call.
Spawn(tasks) ==
  LET entries == FlattenSeq(tasks)
      keys == KeysOf(entries)
  IN /\ cache' = [k \in Keys |-> IF k \in keys THEN ValueIn(entries, k) ELSE cache[k]]
     /\ queue' = queue \o FlattenSeq([i \in DOMAIN tasks |-> Issue(tasks[i])])
     /\ excused' = (excused \ keys) \cup (keys \cap Overtaken)
     /\ UNCHANGED <<backend, store>>

\* The writes that may settle next.
Due == IF backend = "ordered" THEN {1} \cap DOMAIN queue ELSE DOMAIN queue

\* The task goes on with its next write, after a failure too.
GoesOn(i) == queue' = RemoveAt(queue, i) \o Issue(queue[i].rest)

Settles(i) ==
  /\ store' = [store EXCEPT ![queue[i].key] = queue[i].value]
  /\ GoesOn(i)
  /\ UNCHANGED <<backend, cache, excused>>

\* Mutated form of FailsAt: the first error ends the task.
FailsAtForGood(i) ==
  /\ queue' = RemoveAt(queue, i)
  /\ excused' = excused \cup {queue[i].key}
  /\ UNCHANGED <<backend, cache, store>>

\* A file is written in place: a write that fails may leave part of it.
FailsAt(i) ==
  LET key == queue[i].key
  IN /\ GoesOn(i) /\ excused' = excused \cup {key}
     /\ \/ UNCHANGED store
        \/ /\ backend = "files" /\ queue[i].value # Absent
           /\ store' = [store EXCEPT ![key] = Torn]
     /\ UNCHANGED <<backend, cache>>

\* CachedJsStorage::new reads everything the storage has.
Preload ==
  /\ cache' = store /\ excused' = Pending
  /\ UNCHANGED <<backend, store, queue>>

\* The cache goes with its client, the tasks stay.
Forget ==
  /\ cache' = [k \in Keys |-> Absent] /\ excused' = {}
  /\ UNCHANGED <<backend, store, queue>>

\* The process is killed: cache and tasks are gone, files may be torn.
Killed ==
  LET open == {w.key : w \in {v \in ToSet(queue) : v.value # Absent}}
  IN /\ \E torn \in SUBSET (IF backend = "files" THEN open ELSE {}) :
          store' = [k \in Keys |-> IF k \in torn THEN Torn ELSE store[k]]
     /\ cache' = [k \in Keys |-> Absent] /\ queue' = <<>> /\ excused' = {}
     /\ UNCHANGED backend
=============================================================================
