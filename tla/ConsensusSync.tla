---------------------------- MODULE ConsensusSync ----------------------------
(***************************************************************************)
(* The consensus sync of the gateway (sync.rs, store/, the loop of         *)
(* main.rs): fetch a consensus, verify it, admit its relays, write the     *)
(* files and the bootstrap archive, while the network moves on, any step   *)
(* may fail and the process may die between two of them.                   *)
(*                                                                         *)
(* A consensus is its valid-after and its fresh-until (periods, from 1),   *)
(* and whether its signatures suffice; an archive is what was zipped.  The *)
(* digest of a consensus covers the signed part only: two texts with the   *)
(* same dates share it.                                                    *)
(***************************************************************************)
EXTENDS Integers, FiniteSets

CONSTANTS Periods,    \* bound of the model: periods of the network
          Lifetime,   \* periods a consensus stays valid once superseded
          Listed,     \* the microdescriptors a consensus lists, per period
          Forged,     \* texts the authorities did not make
          MaxCrashes  \* bound of the model

ASSUME SyncAssumption ==
  /\ Periods \in Nat \ {0} /\ Lifetime \in Nat /\ MaxCrashes \in Nat
  /\ DOMAIN Listed = 1..Periods
  /\ Forged \subseteq [period : 1..(Periods + 1), until : 1..(Periods + 1),
                       signed : {FALSE}]

Microdescs == UNION {Listed[p] : p \in 1..Periods}

\* What the authorities made, perhaps without enough of its signatures.  What
\* they did not make has any dates, those that are still to come included.
Made == {[period |-> p, until |-> p, signed |-> b] : p \in 1..Periods, b \in BOOLEAN}
Docs == Made \cup Forged

NoDoc == [period |-> 0, until |-> 0, signed |-> TRUE]
NoArchive == [doc |-> NoDoc, mds |-> {}]

VARIABLES latest,   \* the current period of the network
          expired,  \* its consensus is past fresh-until, with no successor yet
          store,    \* ConsensusStore: what the last response resolved to
          mds,      \* MicrodescStore
          covered,  \* AuthCertStore holds a valid certificate per authority
          allow,    \* the relay allowlist: whose relays, and which addresses
          pc,       \* where sync_once is; idle after an error, done after Ok
          text,     \* consensus_text
          old,      \* old_digest
          fdoc, fcerts, fmds,  \* consensus-microdesc, authority-certs, microdescs
          ftag, fzip, fzst,    \* bootstrap.etag, .zip and .zip.zst
          crashes,
          kept,     \* history: nothing was published since the process started
          forgot    \* history: a start could not read its consensus file back

network == <<latest, expired>>
stores == <<store, mds, covered>>
sync == <<pc, text, old>>
files == <<fdoc, fcerts, fmds>>
archive == <<ftag, fzip, fzst>>
history == <<crashes, kept, forgot>>
vars == <<network, stores, allow, sync, files, archive, history>>

\* RelayAllowlist: the addresses of a consensus, by family.
Families == {"v4", "v6"}
Admitting(p, families) == [period |-> p, families |-> families]
NoRelays == Admitting(0, {})

\* Mutated form of Fresh: whatever is stored passes for fresh.
FreshOnceStored(d) == d.period > 0

\* Whoever wrote the text: the store looks at its fresh-until alone.
Fresh(d) == d.until > latest \/ (d.until = latest /\ ~expired)
Timely(d) == d.period <= latest /\ latest - d.period <= Lifetime
Digest(d) == <<d.period, d.until>>

\* MicrodescStore: keyed by digest, so what is in twice is in once.
Missing(wanted) == wanted \ mds
Ingest(sent) == mds \cup sent
Retain(wanted) == mds \cap wanted

\* dir::get, as what a response may yield: nothing where it is an error.  A
\* body that is not compressed may end early unnoticed; signatures come last.
Responses == [status : {200, 304, 503}, coded : BOOLEAN, whole : BOOLEAN, doc : Made]
Get(r) ==
  CASE r.status = 304 -> {NoDoc}
    [] r.status # 200 \/ (r.coded /\ ~r.whole) -> {}
    [] r.status = 200 /\ r.whole -> {r.doc}
    [] OTHER -> {[r.doc EXCEPT !.signed = b] : b \in {FALSE, r.doc.signed}}

\* What a directory hands out, which may lag by a period; a bad one makes up
\* its answer.
Received ==
  {d \in UNION {Get(r) : r \in Responses} : d.period \in {0, latest - 1, latest}}
    \cup Forged

\* sync_once returns; its locals are gone.
Return(how) == pc' = how /\ text' = NoDoc /\ old' = Digest(NoDoc)

Init ==
  /\ latest = 1 /\ expired = FALSE
  /\ store = NoDoc /\ mds = {} /\ covered = FALSE /\ allow = NoRelays
  /\ pc = "idle" /\ text = NoDoc /\ old = Digest(NoDoc)
  /\ fdoc = NoDoc /\ fcerts = FALSE /\ fmds = {}
  /\ ftag = NoArchive /\ fzip = NoArchive /\ fzst = NoArchive
  /\ crashes = 0 /\ kept = TRUE /\ forgot = FALSE

-----------------------------------------------------------------------------
(* Fetch.                                                                  *)

\* After an error, a 304 or the start the loop runs at any time; after a
\* success not before fresh_until (relay_sync_delay).
Begin ==
  /\ pc = "idle" \/ (pc = "done" /\ ~Fresh(store))
  /\ old' = Digest(store)
  /\ IF Fresh(store) THEN text' = store /\ pc' = "certs"
     ELSE text' = NoDoc /\ pc' = "asking"
  /\ UNCHANGED <<network, stores, allow, files, archive, history>>

\* Mutated form of Resolves: an older consensus is taken too.
ResolvesAny(d) ==
  /\ pc = "asking" /\ d \in Received \ {NoDoc}
  /\ store' = d /\ text' = d /\ pc' = "certs"
  /\ UNCHANGED <<network, mds, covered, allow, old, files, archive, history>>

\* resolve_response: a full document or a diff; stored before it is verified.
Resolves(d) ==
  /\ pc = "asking" /\ d \in Received \ {NoDoc}
  /\ d.period >= store.period
  /\ store' = d /\ text' = d /\ pc' = "certs"
  /\ UNCHANGED <<network, mds, covered, allow, old, files, archive, history>>

NotModified ==
  /\ pc = "asking" /\ NoDoc \in Received
  /\ Return("idle")
  /\ UNCHANGED <<network, stores, allow, files, archive, history>>

\* No circuit, no response, one that is older or unusable, no certificates.
FetchFails ==
  /\ pc = "asking" \/ (pc = "certs" /\ ~covered)
  /\ Return("idle")
  /\ UNCHANGED <<network, stores, allow, files, archive, history>>

\* Fetched only if coverage is incomplete, which it may remain.
CertsReady ==
  /\ pc = "certs"
  /\ covered' \in (IF covered THEN {TRUE} ELSE BOOLEAN)
  /\ pc' = "verify"
  /\ UNCHANGED <<network, store, mds, allow, text, old, files, archive, history>>

-----------------------------------------------------------------------------
(* Verify.                                                                 *)

\* Mutated form of Verifies: the signatures are not checked.
VerifiesUnsigned ==
  /\ pc = "verify" /\ Timely(text)
  /\ allow' = Admitting(text.period, Families)
  /\ mds' = Retain(Listed[text.period])
  /\ pc' = "microdescs"
  /\ UNCHANGED <<network, store, covered, text, old, files, archive, history>>

\* Mutated form of Verifies: the relays of the consensus are not admitted.
VerifiesUnadmitted ==
  /\ pc = "verify" /\ text.signed /\ Timely(text)
  /\ mds' = Retain(Listed[text.period])
  /\ pc' = "microdescs"
  /\ UNCHANGED <<network, store, covered, allow, text, old, files, archive, history>>

\* A majority of certificates is enough for the signatures.
Verifies ==
  /\ pc = "verify" /\ text.signed /\ Timely(text)
  /\ allow' = Admitting(text.period, Families)
  /\ mds' = Retain(Listed[text.period])
  /\ pc' = "microdescs"
  /\ UNCHANGED <<network, store, covered, text, old, files, archive, history>>

VerifyFails ==
  /\ pc = "verify" /\ (text.signed /\ Timely(text) => ~covered)
  /\ Return("idle")
  /\ UNCHANGED <<network, stores, allow, files, archive, history>>

\* Batches that fail are skipped, what was not asked for is kept; a response
\* that is not text ends the sync.
Microdescriptors ==
  /\ pc = "microdescs"
  /\ LET missing == Missing(Listed[text.period])
     IN /\ \E sent \in SUBSET (IF missing = {} THEN {} ELSE Microdescs) : mds' = Ingest(sent)
        /\ \/ missing # {} /\ Return("idle")
           \/ pc' = "write consensus" /\ UNCHANGED <<text, old>>
  /\ UNCHANGED <<network, store, covered, allow, files, archive, history>>

-----------------------------------------------------------------------------
(* Write.                                                                  *)

WriteConsensus ==
  /\ pc = "write consensus" /\ fdoc' = text /\ pc' = "write certs"
  /\ kept' = FALSE
  /\ UNCHANGED <<network, stores, allow, text, old, fcerts, fmds, archive, crashes, forgot>>

WriteCerts ==
  /\ pc = "write certs" /\ fcerts' = covered /\ pc' = "write microdescs"
  /\ UNCHANGED <<network, stores, allow, text, old, fdoc, fmds, archive, history>>

\* The archive is made if the digest changed in this sync or no zip exists.
WriteMicrodescs ==
  /\ pc = "write microdescs" /\ fmds' = mds
  /\ IF Digest(store) # old \/ fzip = NoArchive THEN pc' = "write etag" /\ UNCHANGED <<text, old>>
     ELSE Return("done")
  /\ UNCHANGED <<network, stores, allow, fdoc, fcerts, archive, history>>

Built == [doc |-> text, mds |-> mds]

WriteEtag ==
  /\ pc = "write etag" /\ ftag' = Built /\ pc' = "write zip"
  /\ UNCHANGED <<network, stores, allow, text, old, files, fzip, fzst, history>>

\* Mutated form of WriteZip: the zst is not written.
WriteZipOnly ==
  /\ pc = "write zip" /\ fzip' = Built /\ Return("done")
  /\ UNCHANGED <<network, stores, allow, files, ftag, fzst, history>>

WriteZip ==
  /\ pc = "write zip" /\ fzip' = Built /\ pc' = "write zst"
  /\ UNCHANGED <<network, stores, allow, text, old, files, ftag, fzst, history>>

WriteZst ==
  /\ pc = "write zst" /\ fzst' = Built /\ Return("done")
  /\ UNCHANGED <<network, stores, allow, files, ftag, fzip, history>>

Writing == {"write consensus", "write certs", "write microdescs",
            "write etag", "write zip", "write zst"}

WriteFails ==
  /\ pc \in Writing /\ Return("idle")
  /\ UNCHANGED <<network, stores, allow, files, archive, history>>

-----------------------------------------------------------------------------
(* The surroundings.                                                       *)

Publish ==
  /\ latest < Periods /\ latest' = latest + 1 /\ expired' = FALSE
  /\ UNCHANGED <<stores, allow, sync, files, archive, history>>

Expires ==
  /\ ~expired /\ expired' = TRUE
  /\ UNCHANGED <<latest, stores, allow, sync, files, archive, history>>

CertsExpire ==
  /\ covered' = FALSE /\ fcerts' = FALSE /\ (covered \/ fcerts)
  /\ UNCHANGED <<network, store, mds, allow, sync, fdoc, fmds, archive, history>>

\* preload_allowlist: the `r` lines of the consensus file have the IPv4
\* addresses of its relays only; a file that cannot be read admits nobody.
Preloaded ==
  {NoRelays, IF fdoc = NoDoc THEN NoRelays ELSE Admitting(fdoc.period, {"v4"})}

\* The process dies and starts again: stores and allowlist come from the
\* files, each read by itself and unverified.  A consensus that cannot be
\* read leaves the store empty.
Crash ==
  /\ crashes < MaxCrashes /\ crashes' = crashes + 1
  /\ store' \in {fdoc, NoDoc} /\ mds' = fmds /\ covered' = fcerts
  /\ allow' \in Preloaded
  /\ kept' = TRUE /\ forgot' = (forgot \/ store' # fdoc)
  /\ Return("idle")
  /\ UNCHANGED <<network, files, archive>>

-----------------------------------------------------------------------------
SyncStep ==
  \/ Begin \/ (\E d \in Docs : Resolves(d)) \/ NotModified \/ FetchFails
  \/ CertsReady \/ Verifies \/ VerifyFails \/ Microdescriptors
  \/ WriteConsensus \/ WriteCerts \/ WriteMicrodescs
  \/ WriteEtag \/ WriteZip \/ WriteZst \/ WriteFails

Next == SyncStep \/ Publish \/ Expires \/ CertsExpire \/ Crash

Spec == Init /\ [][Next]_vars

Current == [period |-> latest, until |-> latest, signed |-> TRUE]

(* Every fetch and every await of sync_once ends and the loop sleeps for a *)
(* bounded time; time passes; a directory hands out the current consensus  *)
(* now and then, and what a sync does with it does not fail for ever.      *)
Fairness ==
  /\ WF_vars(SyncStep) /\ WF_vars(Expires)
  /\ SF_vars(Resolves(Current))
  /\ SF_vars(CertsReady /\ text = Current) /\ SF_vars(Verifies /\ text = Current)
  /\ SF_vars(Microdescriptors /\ text = Current /\ pc' # "idle")
  /\ SF_vars(WriteConsensus /\ text = Current)

FairSpec == Spec /\ Fairness

-----------------------------------------------------------------------------
(* Types: every variable keeps its type, and sync_once holds a text from   *)
(* the response to the end.                                                *)
TypeOK ==
  /\ latest \in 1..Periods /\ expired \in BOOLEAN
  /\ store \in Docs \cup {NoDoc} /\ mds \subseteq Microdescs /\ covered \in BOOLEAN
  /\ allow \in [period : 0..Periods, families : SUBSET Families]
  /\ old \in (0..(Periods + 1)) \X (0..(Periods + 1))
  /\ pc \in {"idle", "asking", "certs", "verify", "microdescs", "done"} \cup Writing
  /\ text \in Docs \cup {NoDoc}
  /\ pc \in {"idle", "asking", "done"} <=> text = NoDoc
  /\ fdoc \in Docs \cup {NoDoc} /\ fcerts \in BOOLEAN /\ fmds \subseteq Microdescs
  /\ {ftag.doc, fzip.doc, fzst.doc} \subseteq Docs \cup {NoDoc}
  /\ fzip.mds \subseteq Microdescs /\ fzst.mds \subseteq Microdescs
  /\ crashes \in 0..MaxCrashes /\ kept \in BOOLEAN /\ forgot \in BOOLEAN

(* The store holds unverified text, and the files are loaded back without  *)
(* verification: still nothing unverified gets into a file or an archive.  *)
OnlyVerifiedPublished ==
  fdoc.signed /\ ftag.doc.signed /\ fzip.doc.signed /\ fzst.doc.signed

(* The published consensus and the archive never go back to an older       *)
(* period, over lagging directories, failed syncs and restarts.  A start   *)
(* that cannot read its consensus file (consensus.rs:46-52) forgets how    *)
(* far the gateway was: after it nothing is said.                          *)
NoRollback ==
  [][forgot' \/ (/\ fdoc'.period >= fdoc.period
                 /\ fzip'.doc.period >= fzip.doc.period
                 /\ fzst'.doc.period >= fzst.doc.period)]_vars

Admitted(families) == allow.period >= fdoc.period /\ families \subseteq allow.families

(* A client that bootstrapped from what this process published finds that  *)
(* the gateway tunnels to all addresses of relays at least as recent.      *)
(* What an earlier process left is served from the start as well: until    *)
(* the next verification its relays are admitted by their IPv4 addresses   *)
(* only, or not at all where preload_allowlist could not read the file.    *)
(* The archive is never ahead of the consensus that was admitted.          *)
AllowlistCovers ==
  \/ forgot
  \/ /\ Admitted(Families) \/ (kept /\ (Admitted({"v4"}) \/ allow = NoRelays))
     /\ fdoc.period >= fzip.doc.period
     /\ fzip.doc.period >= fzst.doc.period

\* The store holds a text with a date to come.  No such text passes the
\* verification, but resolve_response stored it before: while it counts as
\* fresh nothing is fetched, and what is fetched counts as older.
Poisoned == store.period > latest \/ store.until > latest

(* However syncs fail, once the network is still the consensus on disk is  *)
(* that of its last period and all of its relays are admitted.  What       *)
(* prevents it, up to the next restart, is a poisoned store.               *)
CatchesUp ==
  <>[](Poisoned \/ (fdoc.period = latest /\ allow = Admitting(latest, Families)))

(* After a successful sync bootstrap.zip is a zip of the consensus file.   *)
ArchiveHoldsConsensus == pc = "done" => fzip.doc = fdoc
=============================================================================
