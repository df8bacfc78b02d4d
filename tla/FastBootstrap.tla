--------------------------- MODULE FastBootstrap ---------------------------
(***************************************************************************)
(* The start of a client over its storage, and the archive that saves it   *)
(* the directory download                                                  *)
(* (src/crates/tor-js-wasm/src/fast_bootstrap.rs, maybe_fast_bootstrap,    *)
(* called by create_client in lib.rs).                                     *)
(*                                                                         *)
(* The archive's documents become one storage key each.  Starts, arti's    *)
(* own writes and failing writes are bounded: MaxStarts, MaxOps, MaxFails. *)
(***************************************************************************)
EXTENDS CachedStorage, StoredZip

CONSTANTS Consensus,   \* the key of the consensus
          Archives,    \* what the callback may return
          MaxStarts, MaxOps, MaxFails

Members ==
  [name : STRING, docs : Seq(Keys \cup {"garbage"}), stored : BOOLEAN, utf8 : BOOLEAN,
   name_len : Nat, extra_len : Nat, text_len : Nat, compressed_size : Nat]

\* A document has its key, or the certificates begin with one that has none.
ASSUME BootAssumption ==
  /\ Consensus \in Keys
  /\ MaxStarts \in Nat /\ MaxOps \in Nat /\ MaxFails \in Nat
  /\ \A a \in Archives :
       /\ a \in [received : Nat, members : Seq(Members), zstd : {"ok", "broken"}]
       /\ \A i \in DOMAIN a.members :
            \/ a.members[i].docs \in Seq(Keys)
            \/ a.members[i].name = "certs" /\ a.members[i].docs[1] = "garbage"

VARIABLES phase,       \* of the client
          descs,       \* the microdescriptors whose digests are awaited
          skipped,     \* this start found a consensus
          lost,        \* history: keys that the code may be without, and why not
          starts, ops, fails

bootVars == <<phase, descs, skipped, lost, starts, ops, fails>>
vars == <<storageVars, bootVars>>

Init ==
  /\ StorageInit
  /\ phase = "off" /\ descs = <<>> /\ skipped = FALSE
  /\ lost = Keys /\ starts = 0 /\ ops = 0 /\ fails = 0

-----------------------------------------------------------------------------
(* create_client and maybe_fast_bootstrap                                  *)

\* What was still being written by a client before is not in the cache.
Start ==
  /\ phase = "off" /\ starts < MaxStarts
  /\ Preload
  /\ phase' = "checking" /\ starts' = starts + 1 /\ skipped' = FALSE
  /\ lost' = lost \cup Pending
  /\ UNCHANGED <<descs, ops, fails>>

Goto(next) == phase' = next /\ UNCHANGED <<storageVars, starts, ops, fails>>

Skip ==
  /\ phase = "checking" /\ cache[Consensus] # Absent
  /\ skipped' = TRUE
  /\ Goto("running") /\ UNCHANGED <<descs, lost>>

Asks ==
  /\ phase = "checking" /\ cache[Consensus] = Absent
  /\ Goto("fetching") /\ UNCHANGED <<descs, skipped, lost>>

CallbackFails ==
  /\ phase = "fetching"
  /\ Goto("running") /\ UNCHANGED <<descs, skipped, lost>>

\* The documents of a member of an archive, if it was found: of the last one
\* that has the name.
Docs(a, name) ==
  LET is == {i \in Parse(a).found : a.members[i].name = name}
  IN IF is = {} THEN <<>> ELSE a.members[CHOOSE i \in is : \A j \in is : j <= i].docs

Entries(docs) == [i \in DOMAIN docs |-> Entry(docs[i], "archive")]

\* Decompression, zip, a missing or an unreadable consensus: nothing stored.
Refused(a) ==
  \/ a.zstd = "broken" \/ Parse(a).status # "ok"
  \/ Docs(a, "consensus") = <<>>

\* The callback resolves.
Rejects(a) ==
  /\ phase = "fetching" /\ Refused(a)
  /\ Goto("running") /\ UNCHANGED <<descs, skipped, lost>>

\* On files, the keys that an older deletion may still remove.
Undone ==
  IF backend = "files" THEN {w.key : w \in {v \in ToSet(queue) : v.value = Absent}} ELSE {}

\* store_consensus and store_authcerts, in one go with the callback's answer;
\* then the digests of the microdescriptors are awaited, if there are any.
Populates(a) ==
  /\ phase = "fetching" /\ ~Refused(a)
  /\ LET certs == Docs(a, "certs")
         unreadable == certs # <<>> /\ certs[1] = "garbage"
         tasks == <<Entries(Docs(a, "consensus"))>>
                    \o (IF unreadable THEN <<>> ELSE <<Entries(certs)>>)
     IN /\ Spawn(tasks)
        /\ lost' = (Keys \ KeysOf(FlattenSeq(tasks))) \cup Undone
        /\ descs' = IF unreadable THEN <<>> ELSE Docs(a, "microdescs")
  /\ phase' = IF descs' = <<>> THEN "running" ELSE "digesting"
  /\ UNCHANGED <<skipped, starts, ops, fails>>

\* Mutated form of Digested: the batch reaches the cache only.
DigestedUnsaved ==
  /\ phase = "digesting"
  /\ cache' = [k \in Keys |-> IF k \in ToSet(descs) THEN "archive" ELSE cache[k]]
  /\ lost' = lost \ (ToSet(descs) \ Undone)
  /\ phase' = "running" /\ descs' = <<>>
  /\ UNCHANGED <<backend, store, queue, excused, skipped, starts, ops, fails>>

\* store_microdescs after its await.
Digested ==
  /\ phase = "digesting"
  /\ Spawn(<<Entries(descs)>>) /\ lost' = lost \ (ToSet(descs) \ Undone)
  /\ phase' = "running" /\ descs' = <<>>
  /\ UNCHANGED <<skipped, starts, ops, fails>>

DigestFails ==
  /\ phase = "digesting" /\ descs' = <<>>
  /\ Goto("running") /\ UNCHANGED <<skipped, lost>>

-----------------------------------------------------------------------------
(* arti at work, the storage, the end of the client                        *)

ArtiWrites(k, value) ==
  /\ phase = "running" /\ ops < MaxOps /\ ops' = ops + 1
  /\ Spawn(<<<<Entry(k, value)>>>>)
  /\ lost' = IF value = Absent THEN lost \cup {k} ELSE lost
  /\ UNCHANGED <<phase, descs, skipped, starts, fails>>

WriteSettles == \E i \in Due : Settles(i) /\ UNCHANGED bootVars

WriteFails ==
  \E i \in Due :
    /\ fails < MaxFails /\ fails' = fails + 1
    /\ FailsAt(i) /\ lost' = lost \cup {queue[i].key}
    /\ UNCHANGED <<phase, descs, skipped, starts, ops>>

\* The client is dropped; its tasks go on.
Drops ==
  /\ phase = "running" /\ phase' = "off" /\ skipped' = FALSE
  /\ Forget
  /\ UNCHANGED <<descs, lost, starts, ops, fails>>

Dies ==
  /\ phase # "off" \/ queue # <<>>
  /\ Killed
  /\ phase' = "off" /\ descs' = <<>> /\ skipped' = FALSE
  /\ lost' = lost \cup Pending
  /\ UNCHANGED <<starts, ops, fails>>

Next ==
  \/ Start \/ Skip \/ Asks \/ CallbackFails
  \/ \E a \in Archives : Rejects(a) \/ Populates(a)
  \/ Digested \/ DigestFails
  \/ \E k \in Keys, v \in {"arti", Absent} : ArtiWrites(k, v)
  \/ WriteSettles \/ WriteFails \/ Drops \/ Dies

Spec == Init /\ [][Next]_vars

-----------------------------------------------------------------------------
(* Properties                                                              *)

Values == {Absent, Torn, "archive", "arti"}

\* Types of every variable.
TypeOK ==
  /\ backend \in Backends
  /\ cache \in [Keys -> Values] /\ store \in [Keys -> Values]
  /\ Pending \subseteq Keys /\ excused \subseteq Keys /\ lost \subseteq Keys
  /\ phase \in {"off", "checking", "fetching", "digesting", "running"}
  /\ skipped \in BOOLEAN /\ starts \in 0..MaxStarts /\ ops \in 0..MaxOps /\ fails \in 0..MaxFails

\* When the writes are done, the storage holds what the cache says, so that a
\* restart finds it.  The exceptions are the code's (storage.rs:277-320): a
\* key whose write failed and was not repeated, one written again while an
\* earlier write could still settle after (a batch that has not come to it
\* yet; on files, any), and one that an older client was still writing.
WriteBackConverges ==
  phase # "off" /\ queue = <<>> =>
    \A k \in Keys \ excused : store[k] = cache[k]

\* A client skips the archive for any consensus it finds
\* (fast_bootstrap.rs:58-66).  It then lacks another of the archive's
\* documents only if that was never stored, failed to be, was deleted (on
\* files an older deletion may settle after the write), or was cut off by a
\* kill or a start that came before the end of the write-back.
SkipMeansWhole ==
  skipped /\ phase = "running" =>
    \A k \in Keys \ lost : cache[k] \notin {Absent, Torn}

\* Whatever the callback returns, the archive reader never leaves the bytes
\* it got, whatever a header declares, and of an archive cut off anywhere it
\* returns whole members only or an error (fast_bootstrap.rs:168-228): a cut
\* between two members gives the members before it.
Honest(m) == m.compressed_size = m.text_len
Sound(a, result) ==
  /\ result.status # "panic"
  /\ (\A i \in DOMAIN a.members : Honest(a.members[i])) =>
       \A i \in result.found :
         /\ StartOf(a, i + 1) <= a.received
         /\ i > 1 => i - 1 \in result.found
ParseSound == phase = "fetching" => \A a \in Archives : Sound(a, Parse(a))
=============================================================================
