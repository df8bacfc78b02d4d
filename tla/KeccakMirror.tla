---------------------------- MODULE KeccakMirror ----------------------------
(***************************************************************************)
(* The mirror of a hash-addressed object tree (keccak_mirror.rs) and the   *)
(* route that serves it (routes.rs): a poll and client triggers reconcile  *)
(* the object directory with a branch, one sync at a time, while objects   *)
(* are served, the branch is pushed to and the gateway may crash.          *)
(*                                                                         *)
(* An object is its hash.  A file is good, or rotten: its bytes no longer  *)
(* hash to its name.  Time is what is left of the throttle window.         *)
(***************************************************************************)
EXTENDS Integers, FiniteSets

CONSTANTS Hashes,
          Clients,    \* callers of POST /keccak/sync
          Poll,       \* the actor of poll_loop
          NoOne,      \* no holder of sync_lock
          Window,     \* manual_min_interval, in ticks
          MaxPushes,  \* bound of the model: changes of the branch
          MaxCrashes  \* bound of the model: crashes and rotten files

ASSUME MirrorAssumption ==
  /\ IsFiniteSet(Hashes) /\ IsFiniteSet(Clients)
  /\ Poll \notin Clients /\ NoOne \notin Clients \cup {Poll}
  /\ Window \in Nat \ {0} /\ MaxPushes \in Nat /\ MaxCrashes \in Nat

Actors == Clients \cup {Poll}

VARIABLES branch,    \* the objects the branch holds
          disk,      \* absent, good or rotten, per object
          enabled,   \* syncs_enabled; with --no-mirror nobody polls either
          lock,      \* holder of sync_lock
          phase,     \* idle, stamped, waiting, listing, fetching, pruning
          missing,   \* what the sync of an actor has still to fetch
          stale,     \* what it has still to prune
          failed,    \* fetches of it that failed
          left,      \* ticks left of the throttle window
          reading,   \* objects of which a request holds the bytes it read,
                     \* good ones, and has not looked at them yet
          verified,  \* verified_bundles
          since,     \* history: ticks since a triggered sync began
          dropped,   \* history: objects the branch lacked since they landed
          spoiled,   \* history: objects that went bad once read or verified
          pushes, crashes

syncVars == <<lock, phase, missing, stale, failed>>
served == <<reading, verified>>
history == <<since, dropped, spoiled>>
envVars == <<branch, enabled, pushes, crashes>>
vars == <<envVars, disk, syncVars, left, served, history>>

Present == {h \in Hashes : disk[h] # "absent"}

Nothing == [a \in Actors |-> {}]

Init ==
  /\ branch \in SUBSET Hashes
  /\ disk = [h \in Hashes |-> "absent"]
  /\ enabled \in BOOLEAN
  /\ lock = NoOne /\ phase = [a \in Actors |-> "idle"]
  /\ missing = Nothing /\ stale = Nothing /\ failed = Nothing
  /\ left = 0 /\ reading = {} /\ verified = {}
  /\ since = Window /\ dropped = {} /\ spoiled = {}
  /\ pushes = 0 /\ crashes = 0

Goto(a, ph) == phase' = [phase EXCEPT ![a] = ph]

-----------------------------------------------------------------------------
(* trigger and poll_loop                                                   *)

\* Mutated form of TriggerStamps: the window is checked but not charged.
TriggerUncharged(c) ==
  /\ phase[c] = "idle" /\ enabled /\ left = 0
  /\ Goto(c, "stamped")
  /\ UNCHANGED <<envVars, disk, lock, missing, stale, failed, left, served, history>>

\* The window is checked and charged under last_manual; outside of it, or
\* while syncs are disabled, a trigger changes nothing.
TriggerStamps(c) ==
  /\ phase[c] = "idle" /\ enabled /\ left = 0
  /\ left' = Window
  /\ Goto(c, "stamped")
  /\ UNCHANGED <<envVars, disk, lock, missing, stale, failed, served, history>>

TriggerLocks(c) ==
  /\ phase[c] = "stamped" /\ lock = NoOne
  /\ lock' = c /\ Goto(c, "listing") /\ since' = 0
  /\ UNCHANGED <<envVars, disk, missing, stale, failed, left, served, dropped, spoiled>>

\* 409: the window stays charged.
TriggerBusy(c) ==
  /\ phase[c] = "stamped" /\ lock # NoOne
  /\ Goto(c, "idle")
  /\ UNCHANGED <<envVars, disk, lock, missing, stale, failed, left, served, history>>

PollWakes ==
  /\ phase[Poll] = "idle" /\ enabled
  /\ IF lock = NoOne THEN lock' = Poll /\ Goto(Poll, "listing")
     ELSE UNCHANGED lock /\ Goto(Poll, "waiting")
  /\ UNCHANGED <<envVars, disk, missing, stale, failed, left, served, history>>

-----------------------------------------------------------------------------
(* sync_locked and reconcile                                               *)

\* Mutated form of EndSync: the lock is released without serving its queue.
EndSyncUnfair(a) ==
  /\ lock' = NoOne
  /\ Goto(a, "idle")
  /\ missing' = [missing EXCEPT ![a] = {}] /\ stale' = [stale EXCEPT ![a] = {}]
  /\ failed' = [failed EXCEPT ![a] = {}]

\* The lock is fair: it is handed to the poll if that is waiting.
EndSync(a) ==
  /\ IF phase[Poll] = "waiting"
     THEN /\ lock' = Poll
          /\ phase' = [phase EXCEPT ![a] = "idle", ![Poll] = "listing"]
     ELSE lock' = NoOne /\ Goto(a, "idle")
  /\ missing' = [missing EXCEPT ![a] = {}] /\ stale' = [stale EXCEPT ![a] = {}]
  /\ failed' = [failed EXCEPT ![a] = {}]

\* Mutated form of Lists: what is on disk is not compared with the branch.
ListsKeepsStale(a) ==
  /\ phase[a] = "listing"
  /\ missing' = [missing EXCEPT ![a] = branch \ Present]
  /\ Goto(a, "fetching")
  /\ UNCHANGED <<envVars, disk, lock, stale, failed, left, served, history>>

\* Mutated form of Lists: a truncated listing passes for the whole branch.
ListsTruncated(a) ==
  /\ phase[a] = "listing"
  /\ \E wanted \in SUBSET branch :
       /\ missing' = [missing EXCEPT ![a] = wanted \ Present]
       /\ stale' = [stale EXCEPT ![a] = Present \ wanted]
  /\ Goto(a, "fetching")
  /\ UNCHANGED <<envVars, disk, lock, failed, left, served, history>>

\* head_commit, tree and the scan: a rotten file counts as present.
Lists(a) ==
  /\ phase[a] = "listing"
  /\ missing' = [missing EXCEPT ![a] = branch \ Present]
  /\ stale' = [stale EXCEPT ![a] = Present \ branch]
  /\ Goto(a, "fetching")
  /\ UNCHANGED <<envVars, disk, lock, failed, left, served, history>>

\* The source is unreachable, its listing unusable or truncated.
ListFails(a) ==
  /\ phase[a] = "listing" /\ EndSync(a)
  /\ UNCHANGED <<envVars, disk, left, served, history>>

\* Mutated form of FetchLands: the bytes are not hashed before the rename.
FetchLandsUnhashed(a, h) ==
  /\ phase[a] = "fetching" /\ h \in missing[a]
  /\ missing' = [missing EXCEPT ![a] = @ \ {h}]
  /\ \E bytes \in {"good", "rotten"} : disk' = [disk EXCEPT ![h] = bytes]
  /\ dropped' = IF h \in branch THEN dropped \ {h} ELSE dropped \cup {h}
  /\ spoiled' = spoiled \ {h}
  /\ UNCHANGED <<envVars, lock, phase, stale, failed, left, served, since>>

\* Only bytes that hash to the name are written, to a file that readers and
\* the scan ignore until it is renamed: the file appears whole.
FetchLands(a, h) ==
  /\ phase[a] = "fetching" /\ h \in missing[a]
  /\ missing' = [missing EXCEPT ![a] = @ \ {h}]
  /\ disk' = [disk EXCEPT ![h] = "good"]
  /\ dropped' = IF h \in branch THEN dropped \ {h} ELSE dropped \cup {h}
  /\ spoiled' = spoiled \ {h}
  /\ UNCHANGED <<envVars, lock, phase, stale, failed, left, served, since>>

\* HTTP error, size, hash mismatch or I/O: per object, the sync goes on.
FetchFails(a, h) ==
  /\ phase[a] = "fetching" /\ h \in missing[a]
  /\ missing' = [missing EXCEPT ![a] = @ \ {h}]
  /\ failed' = [failed EXCEPT ![a] = @ \cup {h}]
  /\ UNCHANGED <<envVars, disk, lock, phase, stale, left, served, history>>

FetchesDone(a) ==
  /\ phase[a] = "fetching" /\ missing[a] = {}
  /\ Goto(a, "pruning")
  /\ UNCHANGED <<envVars, disk, lock, missing, stale, failed, left, served, history>>

Prune(a, h) ==
  /\ phase[a] = "pruning" /\ h \in stale[a]
  /\ stale' = [stale EXCEPT ![a] = @ \ {h}]
  /\ disk' = [disk EXCEPT ![h] = "absent"]
  /\ UNCHANGED <<envVars, lock, phase, missing, failed, left, served, history>>

\* A file that cannot be removed stays.
PruneFails(a, h) ==
  /\ phase[a] = "pruning" /\ h \in stale[a]
  /\ stale' = [stale EXCEPT ![a] = @ \ {h}]
  /\ UNCHANGED <<envVars, disk, lock, phase, missing, failed, left, served, history>>

Reconciled(a) ==
  /\ phase[a] = "pruning" /\ stale[a] = {}
  /\ EndSync(a)
  /\ UNCHANGED <<envVars, disk, left, served, history>>

-----------------------------------------------------------------------------
(* handle_worker_bundle                                                    *)

\* Mutated form of Answer: the file is trusted as the mirror wrote it.
AnswerUnchecked(h) == disk[h]

\* What a request for an object gets: its bytes, or a 404.
Answer(h) == IF disk[h] = "rotten" /\ h \notin verified THEN "absent" ELSE disk[h]

\* The first request for an object reads its file; a rotten one it refuses.
Reads(h) ==
  /\ disk[h] = "good" /\ h \notin reading \cup verified
  /\ reading' = reading \cup {h}
  /\ UNCHANGED <<envVars, disk, syncVars, left, verified, history>>

\* It hashes what it read, whatever has become of the file, and remembers it.
Serve(h) ==
  /\ h \in reading
  /\ reading' = reading \ {h} /\ verified' = verified \cup {h}
  /\ UNCHANGED <<envVars, disk, syncVars, left, history>>

-----------------------------------------------------------------------------
(* The surroundings.                                                       *)

\* No await lies between the stamp and the lock: no time passes there.
Tick ==
  /\ left > 0 \/ since < Window
  /\ \A c \in Clients : phase[c] # "stamped"
  /\ left' = IF left > 0 THEN left - 1 ELSE 0
  /\ since' = IF since < Window THEN since + 1 ELSE since
  /\ UNCHANGED <<envVars, disk, syncVars, served, dropped, spoiled>>

Push ==
  /\ pushes < MaxPushes /\ pushes' = pushes + 1
  /\ branch' \in SUBSET Hashes
  /\ dropped' = dropped \cup (Present \ branch')
  /\ UNCHANGED <<enabled, crashes, disk, syncVars, left, served, since, spoiled>>

\* A file goes bad on disk.
Rots(h) ==
  /\ crashes < MaxCrashes /\ crashes' = crashes + 1
  /\ disk[h] = "good" /\ disk' = [disk EXCEPT ![h] = "rotten"]
  /\ spoiled' = IF h \in reading \cup verified THEN spoiled \cup {h} ELSE spoiled
  /\ UNCHANGED <<branch, enabled, pushes, syncVars, left, served, since, dropped>>

\* The process dies and starts again: adopt_existing serves what is there.
Crash ==
  /\ crashes < MaxCrashes /\ crashes' = crashes + 1
  /\ lock' = NoOne /\ phase' = [a \in Actors |-> "idle"]
  /\ missing' = Nothing /\ stale' = Nothing /\ failed' = Nothing
  /\ left' = 0 /\ reading' = {} /\ verified' = {} /\ since' = Window /\ spoiled' = {}
  /\ UNCHANGED <<branch, enabled, pushes, disk, dropped>>

-----------------------------------------------------------------------------
Trigger(c) == TriggerStamps(c) \/ TriggerLocks(c) \/ TriggerBusy(c)

SyncStep(a) ==
  \/ Lists(a) \/ ListFails(a) \/ FetchesDone(a) \/ Reconciled(a)
  \/ \E h \in Hashes : FetchLands(a, h) \/ FetchFails(a, h)
                        \/ Prune(a, h) \/ PruneFails(a, h)

Next ==
  \/ \E c \in Clients : Trigger(c)
  \/ PollWakes \/ Tick \/ Push \/ Crash
  \/ \E a \in Actors : SyncStep(a)
  \/ \E h \in Hashes : Reads(h) \/ Serve(h) \/ Rots(h)

Spec == Init /\ [][Next]_vars

(* The poll wakes up, a sync makes progress (every request times out), and *)
(* what the poll does with the source and the disk succeeds now and then.  *)
Fairness ==
  /\ WF_vars(PollWakes) /\ WF_vars(\E a \in Actors : SyncStep(a))
  /\ SF_vars(Lists(Poll))
  /\ \A h \in Hashes : SF_vars(FetchLands(Poll, h)) /\ SF_vars(Prune(Poll, h))

FairSpec == Spec /\ Fairness

-----------------------------------------------------------------------------
(* Types: every variable keeps its type.                                   *)
TypeOK ==
  /\ branch \in SUBSET Hashes /\ enabled \in BOOLEAN
  /\ disk \in [Hashes -> {"absent", "good", "rotten"}]
  /\ lock \in Actors \cup {NoOne}
  /\ phase \in [Actors -> {"idle", "stamped", "waiting", "listing", "fetching", "pruning"}]
  /\ missing \in [Actors -> SUBSET Hashes] /\ stale \in [Actors -> SUBSET Hashes]
  /\ failed \in [Actors -> SUBSET Hashes]
  /\ left \in 0..Window /\ since \in 0..Window
  /\ reading \cup verified \subseteq Hashes /\ dropped \subseteq Hashes /\ spoiled \subseteq Hashes
  /\ pushes \in 0..MaxPushes /\ crashes \in 0..MaxCrashes

(* One sync at a time, by its holder: whoever lists, fetches or prunes has *)
(* sync_lock, so no two syncs reconcile the directory with two trees.      *)
OneSync ==
  \A a \in Actors : phase[a] \in {"listing", "fetching", "pruning"} <=> lock = a

(* The throttle bounds how often clients make the gateway talk to its      *)
(* source: a triggered sync begins no sooner than Window after the last,   *)
(* whatever became of that one and however many clients ask at once.       *)
TriggersThrottled ==
  [][\A c \in Clients : phase[c] = "stamped" /\ phase'[c] = "listing"
       => since = Window]_vars

(* An object is removed only if the branch lacked it at some time since it *)
(* landed: no partial listing, failed sync, crash or concurrent trigger    *)
(* takes away what has been published all along.                           *)
PublishedStays ==
  [][\A h \in Hashes : disk[h] # "absent" /\ disk'[h] = "absent" => h \in dropped]_vars

(* No bytes are served under a hash they do not have: not bytes the source *)
(* passed off, nor a file that went bad before this process first read it  *)
(* to serve it.  Only what goes bad after that is served: the object is in *)
(* verified_bundles, for the good bytes of that read (routes.rs:187-202).  *)
ServedBytesMatch == \A h \in Hashes : Answer(h) = "rotten" => h \in spoiled

(* A poll that is due gets its turn, however clients trigger.              *)
PollGetsItsTurn == phase[Poll] = "waiting" ~> phase[Poll] = "fetching"

(* Once the branch is left alone the mirror holds exactly its objects.     *)
Converges == enabled => <>[](Present = branch)

(* Fetch first, prune second: a sync that could not fetch what the branch  *)
(* gained does not remove what the branch dropped.                         *)
FailedFetchKeepsOld ==
  [][\A a \in Actors, h \in Hashes :
       phase[a] = "pruning" /\ failed[a] # {} /\ disk[h] # "absent"
         => disk'[h] # "absent"]_vars
=============================================================================
