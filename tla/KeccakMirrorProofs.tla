------------------------- MODULE KeccakMirrorProofs -------------------------
(***************************************************************************)
(* For any number of objects, clients, pushes and crashes: syncs exclude   *)
(* each other, no object is pruned that was published all along, no bytes  *)
(* are served that were not verified, and triggers are throttled.          *)
(***************************************************************************)
EXTENDS KeccakMirror, TLAPS

Active == {"listing", "fetching", "pruning"}

\* Only the sync that holds the lock has anything left to fetch or to prune.
HolderWorks == \A a \in Actors : lock # a => missing[a] = {} /\ stale[a] = {}

\* What the branch lacks and the disk has was dropped since it landed, and so
\* was what a sync is about to prune, which it never fetches as well.
DropsKnown ==
  /\ \A h \in Hashes : disk[h] # "absent" /\ h \notin branch => h \in dropped
  /\ \A a \in Actors : \A h \in stale[a] :
       h \notin missing[a] /\ (disk[h] # "absent" => h \in dropped)

\* What is left of the window makes up for the time since the last triggered
\* sync, and a trigger between its stamp and the lock is alone there.
WindowCharged ==
  /\ left + since >= Window
  /\ \A c \in Clients : phase[c] = "stamped" =>
       /\ left = Window /\ since = Window
       /\ \A d \in Clients : phase[d] = "stamped" => d = c

\* A file that is rotten though a request holds its good bytes, or held them,
\* is one that went bad after they were read.
RotKnown ==
  \A h \in Hashes : disk[h] = "rotten" /\ h \in reading \cup verified => h \in spoiled

IInv == TypeOK /\ OneSync /\ RotKnown /\ HolderWorks /\ DropsKnown /\ WindowCharged

\* The variables each part of the invariant speaks of.
LEMMA Frames ==
  ASSUME IInv
  PROVE  /\ UNCHANGED <<disk, served, spoiled>> => RotKnown'
         /\ UNCHANGED <<lock, phase>> => OneSync'
         /\ UNCHANGED <<lock, missing, stale>> => HolderWorks'
         /\ UNCHANGED <<branch, disk, dropped, missing, stale>> => DropsKnown'
         /\ UNCHANGED <<left, since, phase>> => WindowCharged'
BY DEF IInv, RotKnown, OneSync, HolderWorks, DropsKnown, WindowCharged, served

\* A fresh mirror, with nothing on disk and nobody syncing, satisfies it.
LEMMA Start == Init => IInv
<1> SUFFICES ASSUME Init PROVE IInv
  OBVIOUS
<1>1. TypeOK
  BY MirrorAssumption DEF Init, TypeOK, Nothing, Actors, served
<1>2. OneSync
  BY MirrorAssumption DEF Init, OneSync, Actors
<1>3. RotKnown
  BY DEF Init, RotKnown, served
<1>4. HolderWorks /\ DropsKnown
  BY DEF Init, HolderWorks, DropsKnown, Nothing
<1>5. WindowCharged
  BY MirrorAssumption DEF Init, WindowCharged, Actors
<1>6. QED
  BY <1>1, <1>2, <1>3, <1>4, <1>5 DEF IInv

-----------------------------------------------------------------------------
(* Triggers and the poll.                                                  *)

\* Charging the window leaves one trigger in it: left was 0, so since was Window.
LEMMA TriggerStampsOK == ASSUME IInv, NEW c \in Clients, TriggerStamps(c) PROVE IInv'
<1>1. /\ phase[c] = "idle" /\ left = 0 /\ left' = Window
      /\ phase' = [phase EXCEPT ![c] = "stamped"]
      /\ UNCHANGED <<envVars, disk, lock, missing, stale, failed, served, history>>
  BY DEF TriggerStamps, Goto
<1>2. c \in Actors
  BY DEF Actors
<1>3. TypeOK'
  BY <1>1, <1>2, MirrorAssumption DEF IInv, TypeOK, envVars, history, served
<1>4. OneSync'
  BY <1>1, <1>2 DEF IInv, OneSync, TypeOK, served
<1>5. RotKnown' /\ HolderWorks' /\ DropsKnown'
  BY <1>1, Frames DEF envVars, history, served
<1>6. WindowCharged'
  BY <1>1, <1>2, MirrorAssumption DEF IInv, TypeOK, WindowCharged, history, Actors, served
<1>7. QED
  BY <1>3, <1>4, <1>5, <1>6 DEF IInv

\* The trigger that charged the window is alone, so since may start again.
LEMMA TriggerLocksOK == ASSUME IInv, NEW c \in Clients, TriggerLocks(c) PROVE IInv'
<1>1. /\ phase[c] = "stamped" /\ lock = NoOne /\ lock' = c /\ since' = 0
      /\ phase' = [phase EXCEPT ![c] = "listing"]
      /\ UNCHANGED <<envVars, disk, missing, stale, failed, left, served, dropped, spoiled>>
  BY DEF TriggerLocks, Goto
<1>2. c \in Actors /\ NoOne \notin Actors
  BY MirrorAssumption DEF Actors
<1>3. TypeOK'
  BY <1>1, <1>2, MirrorAssumption DEF IInv, TypeOK, envVars, served
<1>4. OneSync'
  BY <1>1, <1>2 DEF IInv, OneSync, TypeOK, served
<1>5. RotKnown' /\ DropsKnown'
  BY <1>1, Frames DEF envVars, served
<1>6. HolderWorks'
  BY <1>1, <1>2 DEF IInv, HolderWorks
<1>7. WindowCharged'
  BY <1>1, <1>2, MirrorAssumption DEF IInv, TypeOK, WindowCharged, Actors, served
<1>8. QED
  BY <1>3, <1>4, <1>5, <1>6, <1>7 DEF IInv

\* A trigger that is refused gives up no lock and leaves the window charged.
LEMMA TriggerBusyOK == ASSUME IInv, NEW c \in Clients, TriggerBusy(c) PROVE IInv'
<1>1. /\ phase[c] = "stamped" /\ phase' = [phase EXCEPT ![c] = "idle"]
      /\ UNCHANGED <<envVars, disk, lock, missing, stale, failed, left, served, history>>
  BY DEF TriggerBusy, Goto
<1>2. c \in Actors
  BY DEF Actors
<1>3. TypeOK'
  BY <1>1, <1>2 DEF IInv, TypeOK, envVars, history, served
<1>4. OneSync'
  BY <1>1, <1>2 DEF IInv, OneSync, TypeOK, served
<1>5. RotKnown' /\ HolderWorks' /\ DropsKnown'
  BY <1>1, Frames DEF envVars, history, served
<1>6. WindowCharged'
  BY <1>1, <1>2 DEF IInv, TypeOK, WindowCharged, history, Actors, served
<1>7. QED
  BY <1>3, <1>4, <1>5, <1>6 DEF IInv

\* The poll takes a free lock, or queues for a held one.
LEMMA PollWakesOK == ASSUME IInv, PollWakes PROVE IInv'
<1>1. /\ phase[Poll] = "idle"
      /\ UNCHANGED <<envVars, disk, missing, stale, failed, left, served, history>>
  BY DEF PollWakes
<1>2. Poll \in Actors /\ Poll \notin Clients /\ NoOne \notin Actors
  BY MirrorAssumption DEF Actors
<1>3. RotKnown' /\ DropsKnown'
  BY <1>1, Frames DEF envVars, history, served
<1>4. CASE lock = NoOne
  <2>1. lock' = Poll /\ phase' = [phase EXCEPT ![Poll] = "listing"]
    BY <1>4 DEF PollWakes, Goto
  <2>2. TypeOK'
    BY <1>1, <1>2, <2>1 DEF IInv, TypeOK, envVars, history, served
  <2>3. OneSync' /\ HolderWorks'
    BY <1>1, <1>2, <1>4, <2>1 DEF IInv, OneSync, HolderWorks, TypeOK, served
  <2>4. WindowCharged'
    BY <1>1, <1>2, <2>1 DEF IInv, TypeOK, WindowCharged, history, Actors, served
  <2>5. QED
    BY <1>3, <2>2, <2>3, <2>4 DEF IInv
<1>5. CASE lock # NoOne
  <2>1. lock' = lock /\ phase' = [phase EXCEPT ![Poll] = "waiting"]
    BY <1>5 DEF PollWakes, Goto
  <2>2. TypeOK'
    BY <1>1, <1>2, <2>1 DEF IInv, TypeOK, envVars, history, served
  <2>3. OneSync' /\ HolderWorks'
    BY <1>1, <1>2, <1>5, <2>1 DEF IInv, OneSync, HolderWorks, TypeOK, served
  <2>4. WindowCharged'
    BY <1>1, <1>2, <2>1 DEF IInv, TypeOK, WindowCharged, history, Actors, served
  <2>5. QED
    BY <1>3, <2>2, <2>3, <2>4 DEF IInv
<1>6. QED
  BY <1>4, <1>5

-----------------------------------------------------------------------------
(* One sync: its end, its listing, its fetches and what it prunes.         *)

\* A working actor holds the lock, and nobody else has work to do.
LEMMA Holder ==
  ASSUME IInv, NEW a \in Actors, phase[a] \in Active
  PROVE  /\ lock = a
         /\ \A b \in Actors : b # a => missing[b] = {} /\ stale[b] = {}
         /\ \A b \in Actors : b # a => phase[b] \notin Active
BY DEF IInv, OneSync, HolderWorks, Active

\* A sync that ends, well or badly, hands the lock to the poll if that waits.
LEMMA EndSyncOK ==
  ASSUME IInv, NEW a \in Actors, phase[a] \in Active, EndSync(a),
         UNCHANGED <<envVars, disk, left, served, history>>
  PROVE  IInv'
<1>1. Poll \in Actors /\ Poll \notin Clients /\ NoOne \notin Actors
  BY MirrorAssumption DEF Actors
<1>2. /\ missing' = [missing EXCEPT ![a] = {}] /\ stale' = [stale EXCEPT ![a] = {}]
      /\ failed' = [failed EXCEPT ![a] = {}]
  BY DEF EndSync
<1>3. \/ /\ phase[Poll] = "waiting" /\ lock' = Poll
         /\ phase' = [phase EXCEPT ![a] = "idle", ![Poll] = "listing"]
      \/ lock' = NoOne /\ phase' = [phase EXCEPT ![a] = "idle"]
  BY DEF EndSync, Goto
<1>4. TypeOK'
  <2>1. lock' \in Actors \cup {NoOne}
    BY <1>1, <1>3
  <2>2. phase' \in [Actors -> {"idle", "stamped", "waiting", "listing", "fetching", "pruning"}]
    BY <1>1, <1>3 DEF IInv, TypeOK, served
  <2>3. /\ missing' \in [Actors -> SUBSET Hashes] /\ stale' \in [Actors -> SUBSET Hashes]
        /\ failed' \in [Actors -> SUBSET Hashes]
    BY <1>2 DEF IInv, TypeOK, served
  <2>4. QED
    BY <2>1, <2>2, <2>3 DEF IInv, TypeOK, envVars, history, served
<1>5. OneSync'
  BY <1>1, <1>3, Holder DEF IInv, OneSync, TypeOK, Active, served
<1>6. RotKnown'
  BY Frames DEF history, served
<1>7. \A b \in Actors : missing'[b] = {} /\ stale'[b] = {}
  BY <1>2, Holder DEF IInv, TypeOK, served
<1>8. HolderWorks' /\ DropsKnown'
  BY <1>7 DEF IInv, HolderWorks, DropsKnown, envVars, history, served
<1>9. WindowCharged'
  BY <1>1, <1>3 DEF IInv, TypeOK, WindowCharged, history, Actors, served
<1>10. QED
  BY <1>4, <1>5, <1>6, <1>8, <1>9 DEF IInv

\* What is found stale is on disk and not in the branch: it was dropped.
LEMMA ListsOK == ASSUME IInv, NEW a \in Actors, Lists(a) PROVE IInv'
<1>1. /\ phase[a] = "listing" /\ phase' = [phase EXCEPT ![a] = "fetching"]
      /\ missing' = [missing EXCEPT ![a] = branch \ Present]
      /\ stale' = [stale EXCEPT ![a] = Present \ branch]
      /\ UNCHANGED <<envVars, disk, lock, failed, left, served, history>>
  BY DEF Lists, Goto
<1>2. lock = a
  BY <1>1, Holder DEF Active
<1>3. Present \subseteq Hashes
  BY DEF Present
<1>4. TypeOK'
  BY <1>1, <1>3 DEF IInv, TypeOK, envVars, history, served
<1>5. OneSync' /\ HolderWorks'
  BY <1>1, <1>2 DEF IInv, OneSync, HolderWorks, TypeOK, served
<1>6. RotKnown'
  BY <1>1, Frames DEF history, served
<1>7. DropsKnown'
  <2>1. ASSUME NEW h \in Present \ branch PROVE h \in dropped
    BY <2>1 DEF IInv, DropsKnown, Present
  <2>2. QED
    BY <1>1, <2>1 DEF IInv, TypeOK, DropsKnown, envVars, history, served
<1>8. WindowCharged'
  BY <1>1 DEF IInv, TypeOK, WindowCharged, history, Actors, served
<1>9. QED
  BY <1>4, <1>5, <1>6, <1>7, <1>8 DEF IInv

\* A listing that fails ends the sync before it changes the directory.
LEMMA ListFailsOK == ASSUME IInv, NEW a \in Actors, ListFails(a) PROVE IInv'
BY EndSyncOK DEF ListFails, Active

\* An object that lands is good, and no sync is about to prune it.
LEMMA FetchLandsOK ==
  ASSUME IInv, NEW a \in Actors, NEW h \in Hashes, FetchLands(a, h) PROVE IInv'
<1>1. /\ phase[a] = "fetching" /\ h \in missing[a]
      /\ missing' = [missing EXCEPT ![a] = missing[a] \ {h}]
      /\ disk' = [disk EXCEPT ![h] = "good"]
      /\ dropped' = IF h \in branch THEN dropped \ {h} ELSE dropped \cup {h}
      /\ spoiled' = spoiled \ {h}
      /\ UNCHANGED <<envVars, lock, phase, stale, failed, left, served, since>>
  BY DEF FetchLands, IInv, TypeOK, served
<1>2. TypeOK'
  BY <1>1 DEF IInv, TypeOK, envVars, served
<1>3. OneSync' /\ WindowCharged'
  BY <1>1, Frames
<1>4. RotKnown'
  BY <1>1 DEF IInv, TypeOK, RotKnown, served
<1>5. HolderWorks'
  BY <1>1 DEF IInv, TypeOK, HolderWorks, served
<1>6. DropsKnown'
  <2>1. \A b \in Actors : h \notin stale[b]
    BY <1>1, Holder DEF IInv, DropsKnown, Active
  <2>2. ASSUME NEW g \in Hashes, disk'[g] # "absent", g \notin branch' PROVE g \in dropped'
    BY <1>1, <2>2 DEF IInv, TypeOK, DropsKnown, envVars, served
  <2>3. ASSUME NEW b \in Actors, NEW g \in stale'[b]
        PROVE  g \notin missing'[b] /\ (disk'[g] # "absent" => g \in dropped')
    <3>1. g \in stale[b] /\ g # h /\ g \in Hashes
      BY <1>1, <2>1 DEF IInv, TypeOK, served
    <3>2. missing'[b] \subseteq missing[b]
      BY <1>1 DEF IInv, TypeOK, served
    <3>3. disk'[g] = disk[g] /\ (g \in dropped => g \in dropped')
      BY <1>1, <3>1 DEF IInv, TypeOK, served
    <3>4. QED
      BY <3>1, <3>2, <3>3 DEF IInv, DropsKnown
  <2>4. QED
    BY <2>2, <2>3 DEF DropsKnown
<1>7. QED
  BY <1>2, <1>3, <1>4, <1>5, <1>6 DEF IInv

\* A fetch that fails only takes the object off the list.
LEMMA FetchFailsOK ==
  ASSUME IInv, NEW a \in Actors, NEW h \in Hashes, FetchFails(a, h) PROVE IInv'
<1>1. /\ missing' = [missing EXCEPT ![a] = missing[a] \ {h}]
      /\ failed' = [failed EXCEPT ![a] = failed[a] \cup {h}]
      /\ UNCHANGED <<envVars, disk, lock, phase, stale, left, served, history>>
  BY DEF FetchFails, IInv, TypeOK, served
<1>2. TypeOK'
  BY <1>1 DEF IInv, TypeOK, envVars, history, served
<1>3. OneSync' /\ WindowCharged' /\ RotKnown'
  BY <1>1, Frames DEF history, served
<1>4. HolderWorks' /\ DropsKnown'
  BY <1>1 DEF IInv, TypeOK, HolderWorks, DropsKnown, envVars, history, served
<1>5. QED
  BY <1>2, <1>3, <1>4 DEF IInv

\* When nothing is left to fetch the holder goes on to prune.
LEMMA FetchesDoneOK == ASSUME IInv, NEW a \in Actors, FetchesDone(a) PROVE IInv'
<1>1. /\ phase[a] = "fetching" /\ phase' = [phase EXCEPT ![a] = "pruning"]
      /\ UNCHANGED <<envVars, disk, lock, missing, stale, failed, left, served, history>>
  BY DEF FetchesDone, Goto
<1>2. TypeOK'
  BY <1>1 DEF IInv, TypeOK, envVars, history, served
<1>3. RotKnown' /\ HolderWorks' /\ DropsKnown'
  BY <1>1, Frames DEF envVars, history, served
<1>4. OneSync'
  BY <1>1 DEF IInv, TypeOK, OneSync, served
<1>5. WindowCharged'
  BY <1>1 DEF IInv, TypeOK, WindowCharged, history, Actors, served
<1>6. QED
  BY <1>2, <1>3, <1>4, <1>5 DEF IInv

\* Pruning, or failing to, only shrinks what is on disk and what is stale.
LEMMA PruneOK ==
  ASSUME IInv, NEW a \in Actors, NEW h \in Hashes, Prune(a, h) \/ PruneFails(a, h)
  PROVE  IInv'
<1>1. /\ stale' = [stale EXCEPT ![a] = stale[a] \ {h}]
      /\ disk' = [disk EXCEPT ![h] = "absent"] \/ disk' = disk
      /\ UNCHANGED <<envVars, lock, phase, missing, failed, left, served, history>>
  BY DEF Prune, PruneFails, IInv, TypeOK, served
<1>2. TypeOK'
  BY <1>1 DEF IInv, TypeOK, envVars, history, served
<1>3. OneSync' /\ WindowCharged'
  BY <1>1, Frames DEF history, served
<1>4. RotKnown'
  BY <1>1 DEF IInv, TypeOK, RotKnown, history, served
<1>5. HolderWorks'
  BY <1>1 DEF IInv, TypeOK, HolderWorks, served
<1>6. DropsKnown'
  <2>1. \A g \in Hashes : disk'[g] # "absent" => disk[g] # "absent"
    BY <1>1 DEF IInv, TypeOK, served
  <2>2. \A b \in Actors : stale'[b] \subseteq stale[b] /\ stale[b] \subseteq Hashes
    BY <1>1 DEF IInv, TypeOK, served
  <2>3. QED
    BY <1>1, <2>1, <2>2 DEF IInv, DropsKnown, envVars, history, served
<1>7. QED
  BY <1>2, <1>3, <1>4, <1>5, <1>6 DEF IInv

\* A sync that has pruned ends.
LEMMA ReconciledOK == ASSUME IInv, NEW a \in Actors, Reconciled(a) PROVE IInv'
BY EndSyncOK DEF Reconciled, Active

-----------------------------------------------------------------------------
(* Requests, time, pushes, rot and crashes.                                *)

\* Only a good file is read with good bytes, and only what was read is
\* remembered as verified.
LEMMA ServeOK == ASSUME IInv, NEW h \in Hashes, Reads(h) \/ Serve(h) PROVE IInv'
<1>1. /\ \/ disk[h] = "good" /\ reading' = reading \cup {h} /\ verified' = verified
         \/ h \in reading /\ reading' = reading \ {h} /\ verified' = verified \cup {h}
      /\ UNCHANGED <<envVars, disk, syncVars, left, history>>
  BY DEF Reads, Serve
<1>2. TypeOK'
  BY <1>1 DEF IInv, TypeOK, envVars, syncVars, history, served
<1>3. OneSync' /\ HolderWorks' /\ DropsKnown' /\ WindowCharged'
  BY <1>1, Frames DEF envVars, syncVars, history, served
<1>4. RotKnown'
  BY <1>1 DEF IInv, RotKnown, history, served
<1>5. QED
  BY <1>2, <1>3, <1>4 DEF IInv

\* A tick takes from left no more than it adds to since, while since can grow.
LEMMA TickOK == ASSUME IInv, Tick PROVE IInv'
<1>1. /\ \A c \in Clients : phase[c] # "stamped"
      /\ left' = IF left > 0 THEN left - 1 ELSE 0
      /\ since' = IF since < Window THEN since + 1 ELSE since
      /\ UNCHANGED <<envVars, disk, syncVars, served, dropped, spoiled>>
  BY DEF Tick
<1>2. Window \in Nat /\ left \in 0..Window /\ since \in 0..Window
  BY MirrorAssumption DEF IInv, TypeOK, served
<1>3. left' \in 0..Window /\ since' \in 0..Window
  BY <1>1, <1>2
<1>4. TypeOK'
  BY <1>1, <1>3 DEF IInv, TypeOK, envVars, syncVars, served
<1>5. OneSync' /\ HolderWorks' /\ DropsKnown' /\ RotKnown'
  BY <1>1, Frames DEF envVars, syncVars, served
<1>6. left' + since' >= Window
  BY <1>1, <1>2 DEF IInv, WindowCharged
<1>7. WindowCharged'
  BY <1>1, <1>6 DEF WindowCharged, syncVars, served
<1>8. QED
  BY <1>4, <1>5, <1>7 DEF IInv

\* A push records what the branch no longer holds of what is on disk.
LEMMA PushOK == ASSUME IInv, Push PROVE IInv'
<1>1. /\ pushes < MaxPushes /\ pushes' = pushes + 1 /\ branch' \in SUBSET Hashes
      /\ dropped' = dropped \cup (Present \ branch')
      /\ UNCHANGED <<enabled, crashes, disk, syncVars, left, served, since, spoiled>>
  BY DEF Push
<1>2. TypeOK'
  <2>1. pushes' \in 0..MaxPushes
    BY <1>1, MirrorAssumption DEF IInv, TypeOK, served
  <2>2. QED
    BY <1>1, <2>1 DEF IInv, TypeOK, syncVars, Present, served
<1>3. OneSync' /\ HolderWorks' /\ WindowCharged' /\ RotKnown'
  BY <1>1, Frames DEF syncVars, served
<1>4. DropsKnown'
  BY <1>1 DEF IInv, DropsKnown, Present, syncVars, served
<1>5. QED
  BY <1>2, <1>3, <1>4 DEF IInv

\* A file that goes bad after it was read is recorded as spoiled.
LEMMA RotsOK == ASSUME IInv, NEW h \in Hashes, Rots(h) PROVE IInv'
<1>1. /\ crashes < MaxCrashes /\ crashes' = crashes + 1
      /\ disk[h] = "good" /\ disk' = [disk EXCEPT ![h] = "rotten"]
      /\ spoiled' = IF h \in reading \cup verified THEN spoiled \cup {h} ELSE spoiled
      /\ UNCHANGED <<branch, enabled, pushes, syncVars, left, served, since, dropped>>
  BY DEF Rots
<1>2. TypeOK'
  <2>1. crashes' \in 0..MaxCrashes
    BY <1>1, MirrorAssumption DEF IInv, TypeOK, served
  <2>2. QED
    BY <1>1, <2>1 DEF IInv, TypeOK, syncVars, served
<1>3. OneSync' /\ HolderWorks' /\ WindowCharged'
  BY <1>1, Frames DEF syncVars, served
<1>4. RotKnown'
  BY <1>1 DEF IInv, TypeOK, RotKnown, served
<1>5. DropsKnown'
  <2>1. \A g \in Hashes : disk'[g] # "absent" => disk[g] # "absent"
    BY <1>1 DEF IInv, TypeOK, served
  <2>2. \A b \in Actors : stale[b] \subseteq Hashes
    BY DEF IInv, TypeOK, served
  <2>3. QED
    BY <1>1, <2>1, <2>2 DEF IInv, DropsKnown, syncVars, served
<1>6. QED
  BY <1>2, <1>3, <1>4, <1>5 DEF IInv

\* A restart forgets lock, work, window and verified files, but not the disk.
LEMMA CrashOK == ASSUME IInv, Crash PROVE IInv'
<1>1. /\ crashes < MaxCrashes /\ crashes' = crashes + 1
      /\ lock' = NoOne /\ phase' = [a \in Actors |-> "idle"]
      /\ missing' = Nothing /\ stale' = Nothing /\ failed' = Nothing
      /\ left' = 0 /\ reading' = {} /\ verified' = {} /\ since' = Window /\ spoiled' = {}
      /\ UNCHANGED <<branch, enabled, pushes, disk, dropped>>
  BY DEF Crash
<1>2. NoOne \notin Actors /\ Window \in Nat
  BY MirrorAssumption DEF Actors
<1>3. TypeOK'
  <2>1. crashes' \in 0..MaxCrashes
    BY <1>1, MirrorAssumption DEF IInv, TypeOK, served
  <2>2. left' \in 0..Window /\ since' \in 0..Window
    BY <1>1, <1>2
  <2>3. Nothing \in [Actors -> SUBSET Hashes]
    BY DEF Nothing
  <2>4. QED
    BY <1>1, <2>1, <2>2, <2>3 DEF IInv, TypeOK, served
<1>4. OneSync'
  BY <1>1, <1>2 DEF OneSync
<1>5. RotKnown'
  BY <1>1 DEF IInv, TypeOK, RotKnown, served
<1>6. HolderWorks' /\ DropsKnown'
  BY <1>1 DEF IInv, HolderWorks, DropsKnown, Nothing
<1>7. WindowCharged'
  BY <1>1, <1>2 DEF WindowCharged, Actors
<1>8. QED
  BY <1>3, <1>4, <1>5, <1>6, <1>7 DEF IInv

-----------------------------------------------------------------------------
(* What the lemmas add up to.                                              *)

\* Whatever the poll, the triggers, a sync, a push, rot or a crash do next,
\* the invariant stands.
LEMMA StepOK == IInv /\ [Next]_vars => IInv'
<1> SUFFICES ASSUME IInv, [Next]_vars PROVE IInv'
  OBVIOUS
<1>1. ASSUME NEW c \in Clients, Trigger(c) PROVE IInv'
  BY <1>1, TriggerStampsOK, TriggerLocksOK, TriggerBusyOK DEF Trigger
<1>2. CASE PollWakes \/ Tick \/ Push \/ Crash
  BY <1>2, PollWakesOK, TickOK, PushOK, CrashOK
<1>3. ASSUME NEW a \in Actors, SyncStep(a) PROVE IInv'
  <2>1. CASE Lists(a) \/ ListFails(a) \/ FetchesDone(a) \/ Reconciled(a)
    BY <2>1, ListsOK, ListFailsOK, FetchesDoneOK, ReconciledOK
  <2>2. ASSUME NEW h \in Hashes,
               FetchLands(a, h) \/ FetchFails(a, h) \/ Prune(a, h) \/ PruneFails(a, h)
        PROVE  IInv'
    BY <2>2, FetchLandsOK, FetchFailsOK, PruneOK
  <2>3. QED
    BY <1>3, <2>1, <2>2 DEF SyncStep
<1>4. ASSUME NEW h \in Hashes, Reads(h) \/ Serve(h) \/ Rots(h) PROVE IInv'
  BY <1>4, ServeOK, RotsOK
<1>5. CASE UNCHANGED vars
  <2>1. TypeOK'
    BY <1>5 DEF IInv, TypeOK, vars, envVars, syncVars, history, served
  <2>2. QED
    BY <1>5, <2>1, Frames DEF IInv, vars, envVars, syncVars, history, served
<1>6. QED
  BY <1>1, <1>2, <1>3, <1>4, <1>5 DEF Next

\* The inductive invariant holds in every state the mirror reaches.
THEOREM Inductive == Spec => []IInv
BY Start, StepOK, PTL DEF Spec

\* Every variable keeps its type, for any objects, clients and window.
THEOREM TypeCorrect == Spec => []TypeOK
<1>1. IInv => TypeOK
  BY DEF IInv
<1>2. QED
  BY <1>1, Inductive, PTL

\* However many clients trigger while the poll runs, only the holder of
\* sync_lock lists, fetches or prunes.
THEOREM OneSyncAtATime == Spec => []OneSync
<1>1. IInv => OneSync
  BY DEF IInv
<1>2. QED
  BY <1>1, Inductive, PTL

\* No bytes are served under a hash they do not have, but for a file that
\* went bad after this process first read it to serve it.
THEOREM BytesMatch == Spec => []ServedBytesMatch
<1>1. IInv => ServedBytesMatch
  BY DEF IInv, RotKnown, ServedBytesMatch, Answer
<1>2. QED
  BY <1>1, Inductive, PTL

\* An object that the branch held ever since it landed is never removed.
THEOREM NothingPublishedPruned == Spec => PublishedStays
<1>1. IInv /\ [Next]_vars => [\A h \in Hashes : disk[h] # "absent" /\ disk'[h] = "absent"
                                => h \in dropped]_vars
  <2> SUFFICES ASSUME IInv, Next, NEW h \in Hashes,
                      disk[h] # "absent", disk'[h] = "absent"
               PROVE  h \in dropped
    OBVIOUS
  <2>1. disk' # disk
    OBVIOUS
  <2>2. ASSUME NEW g \in Hashes, NEW bytes \in {"good", "rotten"}
        PROVE  disk' # [disk EXCEPT ![g] = bytes]
    BY DEF IInv, TypeOK, served
  <2>3. PICK a \in Actors, g \in Hashes : Prune(a, g)
    <3>1. ASSUME NEW c \in Clients, Trigger(c) PROVE FALSE
      BY <2>1, <3>1 DEF Trigger, TriggerStamps, TriggerLocks, TriggerBusy
    <3>2. CASE PollWakes \/ Tick \/ Push \/ Crash
      BY <2>1, <3>2 DEF PollWakes, Tick, Push, Crash
    <3>3. ASSUME NEW g \in Hashes, Reads(g) \/ Serve(g) \/ Rots(g) PROVE FALSE
      BY <2>1, <2>2, <3>3 DEF Reads, Serve, Rots
    <3>4. PICK a \in Actors : SyncStep(a)
      BY <3>1, <3>2, <3>3 DEF Next, PollWakes, Tick, Push, Crash
    <3>5. ~(Lists(a) \/ ListFails(a) \/ FetchesDone(a) \/ Reconciled(a))
      BY <2>1 DEF Lists, ListFails, FetchesDone, Reconciled
    <3>6. \A g \in Hashes : ~(FetchLands(a, g) \/ FetchFails(a, g) \/ PruneFails(a, g))
      BY <2>1, <2>2 DEF FetchLands, FetchFails, PruneFails
    <3>7. QED
      BY <3>4, <3>5, <3>6 DEF SyncStep
  <2>4. g = h /\ h \in stale[a]
    BY <2>3 DEF Prune, IInv, TypeOK, served
  <2>5. QED
    BY <2>4 DEF IInv, DropsKnown
<1>2. QED
  BY <1>1, Inductive, PTL DEF Spec, PublishedStays

\* However many clients ask at once, and whatever became of the last sync
\* that one of them began, the next begins no sooner than Window after it.
THEOREM Throttled == Spec => TriggersThrottled
<1>1. IInv => \A c \in Clients : phase[c] = "stamped" => since = Window
  BY DEF IInv, WindowCharged
<1>2. IInv => [\A c \in Clients : phase[c] = "stamped" /\ phase'[c] = "listing"
                  => since = Window]_vars
  BY <1>1
<1>3. QED
  BY <1>2, Inductive, PTL DEF Spec, TriggersThrottled
=============================================================================
