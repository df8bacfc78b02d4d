------------------------- MODULE ConsensusSyncProofs -------------------------
(* What the gateway publishes and what its bootstrap route sends, proved   *)
(* for any number of periods, any microdescriptors and any number of       *)
(* restarts.                                                               *)
EXTENDS BootstrapRoute, TLAPS

Idle == {"idle", "asking", "done"}
Verified == {"microdescs", "write consensus", "write certs", "write microdescs",
             "write etag", "write zip", "write zst"}
Filed == {"write certs", "write microdescs", "write etag",
          "write zip", "write zst"}
Torn == cut \/ pc \in {"write zip", "write zst"}

(* What the comparisons below need of the types.                           *)
Numbers ==
  /\ store.period \in Nat /\ allow.period \in Nat /\ fdoc.period \in Nat
  /\ ftag.doc.period \in Nat /\ rtag.doc.period \in Nat
  /\ fzip.doc.period \in Nat /\ fzst.doc.period \in Nat

(* The text of a sync is what the store holds, which is not behind the     *)
(* consensus on disk unless a start forgot that; past the verification all *)
(* of its relays are admitted, past the first file it is that file.        *)
TextHeld ==
  /\ forgot \/ store.period >= fdoc.period
  /\ pc \notin Idle => text = store
  /\ pc \in Verified => allow = Admitting(text.period, Families)
  /\ pc \in Filed => text = fdoc
  /\ pc = "write zst" => fzip.doc = text

(* Past the verification the text is signed, and with it what is made of   *)
(* it.                                                                     *)
SignedHeld ==
  /\ pc \in Verified => text.signed
  /\ OnlyVerifiedPublished /\ rtag.doc.signed

(* Every tag there is was taken from a consensus no newer than the file,   *)
(* and one newer than the zst is there only while or after it is torn.     *)
TagsKnown ==
  forgot \/ (ftag.doc.period <= fdoc.period /\ rtag.doc.period <= fdoc.period)
TagsFit ==
  forgot \/ Torn \/ ( /\ ftag.doc.period <= fzst.doc.period
                      /\ fzip.doc.period <= fzst.doc.period
                      /\ rtag.doc.period <= fzst.doc.period )

Ordered == Numbers /\ TextHeld /\ AllowlistCovers /\ TagsKnown /\ TagsFit
IInv == Ordered /\ SignedHeld

-----------------------------------------------------------------------------
(* An archive that is not there is older than any, and nothing unverified. *)
LEMMA NoArchiveIsOldest ==
  NoArchive.doc.period \in Nat /\ NoArchive.doc.period = 0
BY DEF NoArchive, NoDoc

LEMMA NoArchiveIsSigned == NoArchive.doc.signed
BY DEF NoArchive, NoDoc

(* So is a tag that was written in part.                                   *)
LEMMA CutTagIsOldest ==
  CutTag.doc.period \in Nat /\ CutTag.doc.period = 0 /\ CutTag.doc.signed
BY DEF CutTag, NoArchive, NoDoc

(* A new gateway, or one with the files an earlier release left.           *)
LEMMA InitOK == RouteInit => IInv
<1>1. ASSUME RouteInit, Init PROVE IInv
  BY <1>1, SyncAssumption DEF RouteInit, Init, NoDoc, NoArchive, NoRelays,
     Admitting, Families, Admitted, IInv,
     SignedHeld, OnlyVerifiedPublished, Verified, Ordered, Numbers, TextHeld,
     AllowlistCovers, Admitted, TagsKnown, TagsFit, Torn, Idle, Filed
<1>2. ASSUME RouteInit, Earlier PROVE IInv
  BY <1>2, SyncAssumption DEF RouteInit, Earlier, NoDoc, NoArchive,
     Admitting, Families, Admitted, IInv,
     SignedHeld, OnlyVerifiedPublished, Verified, Ordered, Numbers, TextHeld,
     AllowlistCovers, Admitted, TagsKnown, TagsFit, Torn, Idle, Filed
<1> QED
  BY <1>1, <1>2 DEF RouteInit

(* Whoever made a text, it has a valid-after.                              *)
LEMMA DocIsDated == \A d \in Docs : d.period \in Nat
<1>1. \A d \in Made : d.period \in Nat
  BY SyncAssumption DEF Made
<1>2. \A d \in Forged : d.period \in 1..(Periods + 1)
  BY SyncAssumption
<1> QED
  BY <1>1, <1>2 DEF Docs

(* One lemma per action: the periods stay in order, then the signatures.   *)
LEMMA BeginOK ==
  ASSUME IInv, Begin, Beside PROVE IInv'
<1>1. Ordered'
  BY DEF Begin, Beside, Return, network, stores, sync, files, archive, history, route,
     IInv, Ordered, Numbers, TextHeld, AllowlistCovers, Admitted, TagsKnown, TagsFit,
     Torn, Idle, Verified, Filed
<1>2. SignedHeld'
  BY DEF Begin, Beside, Return, network, stores, sync, files, archive, history, route,
     IInv, SignedHeld, OnlyVerifiedPublished, Verified
<1> QED
  BY <1>1, <1>2 DEF IInv

LEMMA ResolvesOK ==
  ASSUME NEW d \in Docs, IInv, Resolves(d), Beside PROVE IInv'
<1>1. Ordered'
  BY DocIsDated DEF Resolves, Beside, network, stores, sync, files, archive, history, route,
     IInv, Ordered, Numbers, TextHeld, AllowlistCovers, Admitted, TagsKnown, TagsFit,
     Torn, Idle, Verified, Filed
<1>2. SignedHeld'
  BY DEF Resolves, Beside, network, stores, sync, files, archive, history, route,
     IInv, SignedHeld, OnlyVerifiedPublished, Verified
<1> QED
  BY <1>1, <1>2 DEF IInv

LEMMA NotModifiedOK ==
  ASSUME IInv, NotModified, Beside PROVE IInv'
<1>1. Ordered'
  BY DEF NotModified, Beside, Return, network, stores, sync, files, archive, history,
     route, IInv, Ordered, Numbers, TextHeld, AllowlistCovers, Admitted, TagsKnown,
     TagsFit, Torn, Idle, Verified, Filed
<1>2. SignedHeld'
  BY DEF NotModified, Beside, Return, network, stores, sync, files, archive, history,
     route, IInv, SignedHeld, OnlyVerifiedPublished, Verified
<1> QED
  BY <1>1, <1>2 DEF IInv

LEMMA FetchFailsOK ==
  ASSUME IInv, FetchFails, Beside PROVE IInv'
<1>1. Ordered'
  BY DEF FetchFails, Beside, Return, network, stores, sync, files, archive, history,
     route, IInv, Ordered, Numbers, TextHeld, AllowlistCovers, Admitted, TagsKnown,
     TagsFit, Torn, Idle, Verified, Filed
<1>2. SignedHeld'
  BY DEF FetchFails, Beside, Return, network, stores, sync, files, archive, history,
     route, IInv, SignedHeld, OnlyVerifiedPublished, Verified
<1> QED
  BY <1>1, <1>2 DEF IInv

LEMMA CertsReadyOK ==
  ASSUME IInv, CertsReady, Beside PROVE IInv'
<1>1. Ordered'
  BY DEF CertsReady, Beside, network, stores, sync, files, archive, history, route,
     IInv, Ordered, Numbers, TextHeld, AllowlistCovers, Admitted, TagsKnown, TagsFit,
     Torn, Idle, Verified, Filed
<1>2. SignedHeld'
  BY DEF CertsReady, Beside, network, stores, sync, files, archive, history, route,
     IInv, SignedHeld, OnlyVerifiedPublished, Verified
<1> QED
  BY <1>1, <1>2 DEF IInv

LEMMA VerifiesOK ==
  ASSUME IInv, Verifies, Beside PROVE IInv'
<1>1. Ordered'
  BY DEF Verifies, Beside, Admitting, network, stores, sync, files, archive, history,
     route, IInv, Ordered, Numbers, TextHeld, AllowlistCovers, Admitted, TagsKnown, TagsFit, Torn,
     Idle, Verified, Filed
<1>2. SignedHeld'
  BY DEF Verifies, Beside, network, stores, sync, files, archive, history, route, IInv,
     SignedHeld, OnlyVerifiedPublished, Verified
<1> QED
  BY <1>1, <1>2 DEF IInv

LEMMA VerifyFailsOK ==
  ASSUME IInv, VerifyFails, Beside PROVE IInv'
<1>1. Ordered'
  BY DEF VerifyFails, Beside, Return, network, stores, sync, files, archive, history,
     route, IInv, Ordered, Numbers, TextHeld, AllowlistCovers, Admitted, TagsKnown,
     TagsFit, Torn, Idle, Verified, Filed
<1>2. SignedHeld'
  BY DEF VerifyFails, Beside, Return, network, stores, sync, files, archive, history,
     route, IInv, SignedHeld, OnlyVerifiedPublished, Verified
<1> QED
  BY <1>1, <1>2 DEF IInv

LEMMA MicrodescriptorsOK ==
  ASSUME IInv, Microdescriptors, Beside PROVE IInv'
<1>1. Ordered'
  BY DEF Microdescriptors, Beside, Return, network, stores, sync, files,
     archive, history, route, IInv, Ordered, Numbers, TextHeld, AllowlistCovers, Admitted,
     TagsKnown, TagsFit, Torn, Idle, Verified, Filed
<1>2. SignedHeld'
  BY DEF Microdescriptors, Beside, Return, network, stores, sync, files,
     archive, history, route, IInv, SignedHeld, OnlyVerifiedPublished, Verified
<1> QED
  BY <1>1, <1>2 DEF IInv

LEMMA WriteConsensusOK ==
  ASSUME IInv, WriteConsensus, Beside PROVE IInv'
<1>1. Ordered'
  <2>1. pc = "write consensus" /\ pc' = "write certs"
    BY DEF WriteConsensus
  <2>2. UNCHANGED <<store, allow, text, ftag, fzip, fzst, rtag, forgot>>
    BY <2>1 DEF WriteConsensus, Beside, network, stores, sync, files, archive,
       route
  <2>3. text = store /\ fdoc' = text /\ allow = Admitting(text.period, Families)
    BY DEF WriteConsensus, IInv, Ordered, TextHeld, Idle, Verified
  <2>4. /\ fdoc'.period = store.period /\ allow.period = store.period
        /\ allow.families = Families
    BY <2>3 DEF Admitting
  <2>5. fdoc'.period \in Nat /\ (forgot \/ fdoc'.period >= fdoc.period)
    BY <2>4 DEF IInv, Ordered, Numbers, TextHeld
  <2>6. Numbers'
    BY <2>2, <2>5 DEF IInv, Ordered, Numbers
  <2>7. store'.period >= fdoc'.period
    BY <2>2, <2>4 DEF IInv, Ordered, Numbers
  <2>8. TextHeld'
    BY <2>1, <2>2, <2>3, <2>7 DEF TextHeld, Idle, Verified, Filed
  <2>9. AllowlistCovers'
    <3>1. Admitted(Families)'
      BY <2>2, <2>4, <2>6 DEF Numbers, Admitted
    <3> QED
      BY <2>2, <2>5, <2>6, <3>1 DEF IInv, Ordered, Numbers, AllowlistCovers
  <2>10. TagsKnown'
    BY <2>2, <2>5, <2>6 DEF IInv, Ordered, Numbers, TagsKnown
  <2>11. UNCHANGED Torn
    BY <2>1 DEF WriteConsensus, Beside, Torn
  <2>12. TagsFit'
    BY <2>2, <2>11 DEF IInv, Ordered, TagsFit
  <2> QED
    BY <2>6, <2>8, <2>9, <2>10, <2>12 DEF Ordered
<1>2. SignedHeld'
  BY DEF WriteConsensus, Beside, network, stores, sync, files, archive, history,
     route, IInv, SignedHeld, OnlyVerifiedPublished, Verified
<1> QED
  BY <1>1, <1>2 DEF IInv

LEMMA WriteCertsOK ==
  ASSUME IInv, WriteCerts, Beside PROVE IInv'
<1>1. Ordered'
  BY DEF WriteCerts, Beside, network, stores, sync, files, archive, history, route,
     IInv, Ordered, Numbers, TextHeld, AllowlistCovers, Admitted, TagsKnown, TagsFit,
     Torn, Idle, Verified, Filed
<1>2. SignedHeld'
  BY DEF WriteCerts, Beside, network, stores, sync, files, archive, history, route,
     IInv, SignedHeld, OnlyVerifiedPublished, Verified
<1> QED
  BY <1>1, <1>2 DEF IInv

LEMMA WriteMicrodescsOK ==
  ASSUME IInv, WriteMicrodescs, Beside PROVE IInv'
<1>1. Ordered'
  BY DEF WriteMicrodescs, Beside, Return, network, stores, sync, files,
     archive, history, route, IInv, Ordered, Numbers, TextHeld, AllowlistCovers, Admitted,
     TagsKnown, TagsFit, Torn, Idle, Verified, Filed
<1>2. SignedHeld'
  BY DEF WriteMicrodescs, Beside, Return, network, stores, sync, files,
     archive, history, route, IInv, SignedHeld, OnlyVerifiedPublished, Verified
<1> QED
  BY <1>1, <1>2 DEF IInv

LEMMA WriteEtagOK ==
  ASSUME IInv, WriteEtag, Beside PROVE IInv'
<1>1. Ordered'
  BY DEF WriteEtag, Beside, Built, network, stores, sync, files, archive, history,
     route, IInv, Ordered, Numbers, TextHeld, AllowlistCovers, Admitted, TagsKnown,
     TagsFit, Torn, Idle, Verified, Filed
<1>2. SignedHeld'
  BY DEF WriteEtag, Beside, Built, network, stores, sync, files, archive, history,
     route, IInv, SignedHeld, OnlyVerifiedPublished, Verified
<1> QED
  BY <1>1, <1>2 DEF IInv

LEMMA WriteZipOK ==
  ASSUME IInv, WriteZip, Beside PROVE IInv'
<1>1. Ordered'
  <2>1. pc = "write zip" /\ pc' = "write zst"
    BY DEF WriteZip
  <2>2. UNCHANGED <<store, allow, text, fdoc, ftag, fzst, rtag, kept, forgot>>
    BY <2>1 DEF WriteZip, Beside, network, stores, sync, files, archive, history, route
  <2>3. /\ text = fdoc /\ fzip'.doc = text
        /\ allow = Admitting(text.period, Families)
    BY DEF WriteZip, Built, IInv, Ordered, TextHeld, Verified, Filed
  <2>4. fzip'.doc.period = fdoc.period
    BY <2>3
  <2>5. Numbers'
    BY <2>2, <2>4 DEF IInv, Ordered, Numbers
  <2>6. TextHeld'
    BY <2>1, <2>2, <2>3 DEF IInv, Ordered, TextHeld, Idle, Verified, Filed
  <2>7. AllowlistCovers'
    BY <2>2, <2>4, <2>5 DEF IInv, Ordered, Numbers, AllowlistCovers, Admitted
  <2>8. TagsKnown'
    BY <2>2 DEF IInv, Ordered, TagsKnown
  <2>9. TagsFit'
    BY <2>1 DEF TagsFit, Torn
  <2> QED
    BY <2>5, <2>6, <2>7, <2>8, <2>9 DEF Ordered
<1>2. SignedHeld'
  BY DEF WriteZip, Beside, Built, network, stores, sync, files, archive, history, route,
     IInv, SignedHeld, OnlyVerifiedPublished, Verified
<1> QED
  BY <1>1, <1>2 DEF IInv

LEMMA WriteZstOK ==
  ASSUME IInv, WriteZst, Beside PROVE IInv'
<1>1. Ordered'
  BY DEF WriteZst, Beside, Return, Built, network, stores, sync, files,
     archive, history, route, IInv, Ordered, Numbers, TextHeld, AllowlistCovers, Admitted,
     TagsKnown, TagsFit, Torn, Idle, Verified, Filed
<1>2. SignedHeld'
  BY DEF WriteZst, Beside, Return, Built, network, stores, sync, files,
     archive, history, route, IInv, SignedHeld, OnlyVerifiedPublished, Verified
<1> QED
  BY <1>1, <1>2 DEF IInv

LEMMA WriteFailsOK ==
  ASSUME IInv, WriteFails, Beside PROVE IInv'
<1>1. Ordered'
  BY DEF WriteFails, Beside, Return, Writing, network, stores, sync, files,
     archive, history, route, IInv, Ordered, Numbers, TextHeld, AllowlistCovers, Admitted,
     TagsKnown, TagsFit, Torn, Idle, Verified, Filed
<1>2. SignedHeld'
  BY DEF WriteFails, Beside, Return, Writing, network, stores, sync, files,
     archive, history, route, IInv, SignedHeld, OnlyVerifiedPublished, Verified
<1> QED
  BY <1>1, <1>2 DEF IInv

LEMMA PublishOK ==
  ASSUME IInv, Publish, Beside PROVE IInv'
<1>1. Ordered'
  BY DEF Publish, Beside, network, stores, sync, files, archive, history, route, IInv,
     Ordered, Numbers, TextHeld, AllowlistCovers, Admitted, TagsKnown, TagsFit, Torn,
     Idle, Verified, Filed
<1>2. SignedHeld'
  BY DEF Publish, Beside, network, stores, sync, files, archive, history, route, IInv,
     SignedHeld, OnlyVerifiedPublished, Verified
<1> QED
  BY <1>1, <1>2 DEF IInv

LEMMA ExpiresOK ==
  ASSUME IInv, Expires, Beside PROVE IInv'
<1>1. Ordered'
  BY DEF Expires, Beside, network, stores, sync, files, archive, history, route, IInv,
     Ordered, Numbers, TextHeld, AllowlistCovers, Admitted, TagsKnown, TagsFit, Torn,
     Idle, Verified, Filed
<1>2. SignedHeld'
  BY DEF Expires, Beside, network, stores, sync, files, archive, history, route, IInv,
     SignedHeld, OnlyVerifiedPublished, Verified
<1> QED
  BY <1>1, <1>2 DEF IInv

LEMMA CertsExpireOK ==
  ASSUME IInv, CertsExpire, Beside PROVE IInv'
<1>1. Ordered'
  BY DEF CertsExpire, Beside, network, stores, sync, files, archive, history, route,
     IInv, Ordered, Numbers, TextHeld, AllowlistCovers, Admitted, TagsKnown, TagsFit,
     Torn, Idle, Verified, Filed
<1>2. SignedHeld'
  BY DEF CertsExpire, Beside, network, stores, sync, files, archive, history, route,
     IInv, SignedHeld, OnlyVerifiedPublished, Verified
<1> QED
  BY <1>1, <1>2 DEF IInv

(* A restart reads what it finds: an allowlist that is narrower but no      *)
(* older, and the consensus, or it has forgotten it.                       *)
LEMMA CrashOK ==
  ASSUME IInv, Crash, Beside PROVE IInv'
<1>1. Ordered'
  <2>1. pc' = "idle"
    BY DEF Crash, Return
  <2>2. UNCHANGED <<fdoc, ftag, fzip, fzst>>
    BY DEF Crash, files, archive
  <2>3. /\ store' = fdoc \/ store' = NoDoc
        /\ forgot' <=> (forgot \/ store' # fdoc)
    BY DEF Crash
  <2>4. store'.period \in Nat /\ (forgot' \/ store'.period >= fdoc.period)
    <3>1. NoDoc.period \in Nat
      BY DEF NoDoc
    <3>2. fdoc.period \in Nat
      BY DEF IInv, Ordered, Numbers
    <3>3. CASE store' = fdoc
      BY <3>2, <3>3
    <3>4. CASE store' # fdoc
      BY <2>3, <3>1, <3>4
    <3> QED
      BY <3>3, <3>4
  <2>5. forgot => forgot'
    BY <2>3
  <2>6. /\ allow'.period \in Nat /\ kept'
        /\ \/ allow'.period >= fdoc.period /\ {"v4"} \subseteq allow'.families
           \/ allow' = NoRelays
    BY DEF Crash, Preloaded, Admitting, NoRelays, IInv, Ordered, Numbers
  <2>7. rtag' = NoArchive \/ rtag' = rtag
    BY DEF Beside, route
  <2>8. rtag'.doc.period \in Nat /\ rtag'.doc.period <= rtag.doc.period
    BY <2>7, NoArchiveIsOldest DEF IInv, Ordered, Numbers
  <2>9. Torn => Torn'
    BY <2>1 DEF Beside, Torn
  <2>10. Numbers'
    BY <2>2, <2>4, <2>6, <2>8 DEF IInv, Ordered, Numbers
  <2>11. TextHeld'
    BY <2>1, <2>2, <2>4 DEF TextHeld, Idle, Verified, Filed
  <2>12. AllowlistCovers'
    BY <2>2, <2>5, <2>6, <2>10
       DEF IInv, Ordered, Numbers, AllowlistCovers, Admitted, NoRelays, Admitting
  <2>13. TagsKnown'
    BY <2>2, <2>5, <2>8, <2>10 DEF IInv, Ordered, Numbers, TagsKnown
  <2>14. TagsFit'
    BY <2>2, <2>5, <2>8, <2>9, <2>10 DEF IInv, Ordered, Numbers, TagsFit
  <2> QED
    BY <2>10, <2>11, <2>12, <2>13, <2>14 DEF Ordered
<1>2. SignedHeld'
  BY NoArchiveIsSigned DEF Crash, Beside, Return, network, stores, sync, files,
     archive, history, route, IInv, SignedHeld, OnlyVerifiedPublished, Verified
<1> QED
  BY <1>1, <1>2 DEF IInv

LEMMA ReadTagOK ==
  ASSUME IInv, ReadTag PROVE IInv'
<1>1. Ordered'
  BY DEF ReadTag, AtRoute, network, stores, sync, files, history, archive, IInv,
     Ordered, Numbers, TextHeld, AllowlistCovers, Admitted, TagsKnown, TagsFit, Torn,
     Idle, Verified, Filed
<1>2. SignedHeld'
  BY DEF ReadTag, AtRoute, network, stores, sync, files, history, archive, IInv,
     SignedHeld, OnlyVerifiedPublished, Verified
<1> QED
  BY <1>1, <1>2 DEF IInv

LEMMA ReadZipOK ==
  ASSUME IInv, ReadZip PROVE IInv'
<1>1. Ordered'
  BY DEF ReadZip, AtRoute, network, stores, sync, files, history, archive, IInv,
     Ordered, Numbers, TextHeld, AllowlistCovers, Admitted, TagsKnown, TagsFit, Torn,
     Idle, Verified, Filed
<1>2. SignedHeld'
  BY DEF ReadZip, AtRoute, network, stores, sync, files, history, archive, IInv,
     SignedHeld, OnlyVerifiedPublished, Verified
<1> QED
  BY <1>1, <1>2 DEF IInv

LEMMA WriteBackOK ==
  ASSUME IInv, WriteBack PROVE IInv'
<1>1. ftag' = ftag \/ ftag' = rtag \/ ftag' = CutTag
  BY DEF WriteBack
<1>2. UNCHANGED <<store, allow, text, pc, fdoc, fzip, fzst, rtag, cut, kept, forgot>>
  BY DEF WriteBack, AtRoute, network, stores, sync, files, history
<1>3. Ordered'
  <2>1. /\ ftag'.doc.period \in Nat
        /\ \/ ftag'.doc.period <= ftag.doc.period
           \/ ftag'.doc.period <= rtag.doc.period
    BY <1>1, CutTagIsOldest DEF IInv, Ordered, Numbers
  <2>2. Numbers'
    BY <1>2, <2>1 DEF IInv, Ordered, Numbers
  <2>3. TextHeld'
    BY <1>2 DEF IInv, Ordered, TextHeld, Idle, Verified, Filed
  <2>4. AllowlistCovers'
    BY <1>2 DEF IInv, Ordered, AllowlistCovers, Admitted
  <2>5. TagsKnown'
    BY <1>2, <2>1 DEF IInv, Ordered, Numbers, TagsKnown
  <2>6. TagsFit'
    <3>1. UNCHANGED <<Torn, forgot>>
      BY <1>2 DEF Torn
    <3>2. CASE forgot \/ Torn
      BY <3>1, <3>2 DEF TagsFit
    <3>3. CASE ~forgot /\ ~Torn
      <4>1. /\ ftag.doc.period <= fzst.doc.period
            /\ fzip.doc.period <= fzst.doc.period
            /\ rtag.doc.period <= fzst.doc.period
        BY <3>3 DEF IInv, Ordered, TagsFit
      <4>2. ftag'.doc.period <= fzst.doc.period
        BY <2>1, <4>1 DEF IInv, Ordered, Numbers
      <4> QED
        BY <1>2, <4>1, <4>2 DEF TagsFit
    <3> QED
      BY <3>2, <3>3
  <2> QED
    BY <2>2, <2>3, <2>4, <2>5, <2>6 DEF Ordered
<1>4. SignedHeld'
  BY <1>1, <1>2, CutTagIsOldest
     DEF IInv, SignedHeld, OnlyVerifiedPublished, Verified
<1> QED
  BY <1>3, <1>4 DEF IInv

LEMMA NotModifiedSinceOK ==
  ASSUME IInv, NotModifiedSince PROVE IInv'
<1>1. Ordered'
  <2>1. UNCHANGED <<store, allow, text, pc, fdoc, ftag, fzip, fzst, kept, forgot>>
    BY DEF NotModifiedSince, AtRoute, network, stores, sync, files, history, archive
  <2>2. UNCHANGED Torn
    BY DEF NotModifiedSince, AtRoute, network, stores, sync, files, history, archive,
       Torn
  <2>3. rtag'.doc.period \in Nat /\ rtag'.doc.period = 0
    BY NoArchiveIsOldest DEF NotModifiedSince
  <2>4. Numbers'
    BY <2>1, <2>3 DEF IInv, Ordered, Numbers
  <2>5. TextHeld'
    BY <2>1 DEF IInv, Ordered, TextHeld, Idle, Verified, Filed
  <2>6. AllowlistCovers'
    BY <2>1 DEF IInv, Ordered, AllowlistCovers, Admitted
  <2>7. TagsKnown'
    BY <2>1, <2>3 DEF IInv, Ordered, Numbers, TagsKnown
  <2>8. TagsFit'
    BY <2>1, <2>2, <2>3 DEF IInv, Ordered, Numbers, TagsFit
  <2> QED
    BY <2>4, <2>5, <2>6, <2>7, <2>8 DEF Ordered
<1>2. SignedHeld'
  BY NoArchiveIsSigned DEF NotModifiedSince, AtRoute, network, stores, sync,
     files, history, archive, IInv, SignedHeld, OnlyVerifiedPublished, Verified
<1> QED
  BY <1>1, <1>2 DEF IInv

LEMMA ServeOK ==
  ASSUME IInv, Serve PROVE IInv'
<1>1. Ordered'
  <2>1. UNCHANGED <<store, allow, text, pc, fdoc, ftag, fzip, fzst, kept, forgot>>
    BY DEF Serve, AtRoute, network, stores, sync, files, history, archive
  <2>2. UNCHANGED Torn
    BY DEF Serve, AtRoute, network, stores, sync, files, history, archive, Torn
  <2>3. rtag'.doc.period \in Nat /\ rtag'.doc.period = 0
    BY NoArchiveIsOldest DEF Serve
  <2>4. Numbers'
    BY <2>1, <2>3 DEF IInv, Ordered, Numbers
  <2>5. TextHeld'
    BY <2>1 DEF IInv, Ordered, TextHeld, Idle, Verified, Filed
  <2>6. AllowlistCovers'
    BY <2>1 DEF IInv, Ordered, AllowlistCovers, Admitted
  <2>7. TagsKnown'
    BY <2>1, <2>3 DEF IInv, Ordered, Numbers, TagsKnown
  <2>8. TagsFit'
    BY <2>1, <2>2, <2>3 DEF IInv, Ordered, Numbers, TagsFit
  <2> QED
    BY <2>4, <2>5, <2>6, <2>7, <2>8 DEF Ordered
<1>2. SignedHeld'
  BY NoArchiveIsSigned DEF Serve, AtRoute, network, stores, sync, files, history,
     archive, IInv, SignedHeld, OnlyVerifiedPublished, Verified
<1> QED
  BY <1>1, <1>2 DEF IInv

-----------------------------------------------------------------------------
(* Every step of the sync, of its surroundings and of a request.           *)
LEMMA StepOK == IInv /\ [RouteNext]_routeVars => IInv'
<1> SUFFICES ASSUME IInv, [RouteNext]_routeVars PROVE IInv'
  OBVIOUS
<1>1. ASSUME Next, Beside PROVE IInv'
  BY <1>1, BeginOK, NotModifiedOK, FetchFailsOK, CertsReadyOK, VerifiesOK,
     VerifyFailsOK, MicrodescriptorsOK, WriteConsensusOK, WriteCertsOK,
     WriteMicrodescsOK, WriteEtagOK, WriteZipOK, WriteZstOK, WriteFailsOK,
     PublishOK, ExpiresOK, CertsExpireOK, CrashOK, ResolvesOK DEF Next,
     SyncStep
<1>2. CASE ReadTag
  BY <1>2, ReadTagOK
<1>3. CASE ReadZip
  BY <1>3, ReadZipOK
<1>4. CASE WriteBack
  BY <1>4, WriteBackOK
<1>5. CASE NotModifiedSince
  BY <1>5, NotModifiedSinceOK
<1>6. CASE Serve
  BY <1>6, ServeOK
<1>7. CASE UNCHANGED routeVars
  <2>1. Ordered'
    BY <1>7 DEF routeVars, vars, network, stores, sync, files, archive, history, route,
       IInv, Ordered, Numbers, TextHeld, AllowlistCovers, Admitted, TagsKnown, TagsFit,
       Torn, Idle, Verified, Filed
  <2>2. SignedHeld'
    BY <1>7 DEF routeVars, vars, network, stores, sync, files, archive, history, route,
       IInv, SignedHeld, OnlyVerifiedPublished, Verified
  <2> QED
    BY <2>1, <2>2 DEF IInv
<1> QED
  BY <1>1, <1>2, <1>3, <1>4, <1>5, <1>6, <1>7 DEF RouteNext

(* The inductive invariant holds over every fault of the sync and beside   *)
(* every request.                                                          *)
THEOREM Invariance == RouteSpec => []IInv
BY InitOK, StepOK, PTL DEF RouteSpec

(* Nothing unverified is ever published, though the store holds unverified *)
(* text and the files are loaded back without verification, whatever steps *)
(* of sync_once fail and wherever the process dies.                        *)
THEOREM VerifiedOnly == RouteSpec => []OnlyVerifiedPublished
<1>1. IInv => OnlyVerifiedPublished
  BY DEF IInv, SignedHeld
<1> QED
  BY <1>1, Invariance, PTL

(* The relays of a consensus are admitted before anybody can bootstrap     *)
(* from what this process publishes: all their addresses once it has       *)
(* published, the IPv4 addresses that were read back (or none, where the   *)
(* file could not be read) until then; the archive is never ahead.         *)
THEOREM AdmittedFirst == RouteSpec => []AllowlistCovers
<1>1. IInv => AllowlistCovers
  BY DEF IInv, Ordered
<1> QED
  BY <1>1, Invariance, PTL

(* The bootstrap route reads the tag before the body as the sync writes    *)
(* them: an ETag newer than its body goes out only while the archive is    *)
(* torn.                                                                   *)
THEOREM TagsServed == RouteSpec => []ServedTagFits
<1>1. ASSUME IInv PROVE ServedTagFits
  <2>1. CASE Torn
    BY <2>1 DEF Torn, ServedTagFits
  <2>2. CASE ~Torn
    <3>1. forgot \/ ~(rtag.doc.period > fzst.doc.period)
      BY <1>1, <2>2 DEF IInv, Ordered, Numbers, TagsFit
    <3> QED
      BY <3>1 DEF ServedTagFits
  <2> QED
    BY <2>1, <2>2
<1> QED
  BY <1>1, Invariance, PTL

-----------------------------------------------------------------------------
(* One step of NoRollback.                                                 *)
Forward ==
  forgot' \/ (/\ fdoc'.period >= fdoc.period
              /\ fzip'.doc.period >= fzip.doc.period
              /\ fzst'.doc.period >= fzst.doc.period)

LEMMA StaysPut == ASSUME IInv, UNCHANGED <<fdoc, fzip, fzst>> PROVE Forward
BY DEF IInv, Ordered, Numbers, Forward

(* Three steps of sync_once put a file in place, and each puts there what  *)
(* is at least as recent as the file it replaces.                          *)
LEMMA OnlyWritesPublish ==
  ASSUME Next
  PROVE  WriteConsensus \/ WriteZip \/ WriteZst \/ UNCHANGED <<fdoc, fzip, fzst>>
BY DEF Next, SyncStep, files, archive, Begin, NotModified, FetchFails,
   CertsReady, Verifies, VerifyFails, Microdescriptors, WriteConsensus,
   WriteCerts, WriteMicrodescs, WriteEtag, WriteZip, WriteZst, WriteFails,
   Publish, Expires, CertsExpire, Crash, Resolves

LEMMA WritesForward ==
  ASSUME IInv, WriteConsensus \/ WriteZip \/ WriteZst PROVE Forward
<1>1. forgot' = forgot
  BY DEF WriteConsensus, WriteZip, WriteZst, history
<1> SUFFICES ASSUME ~forgot PROVE Forward
  BY <1>1 DEF Forward
<1>2. CASE WriteConsensus
  <2>1. UNCHANGED <<fzip, fzst>>
    BY <1>2 DEF WriteConsensus, archive
  <2>2. text = store /\ fdoc' = text
    BY <1>2 DEF WriteConsensus, IInv, Ordered, TextHeld, Idle
  <2>3. fdoc'.period = store.period
    BY <2>2
  <2>4. store.period >= fdoc.period
    BY DEF IInv, Ordered, TextHeld
  <2> QED
    BY <2>1, <2>3, <2>4 DEF IInv, Ordered, Numbers, Forward
<1>3. CASE WriteZip
  <2>1. UNCHANGED <<fdoc, fzst>>
    BY <1>3 DEF WriteZip, files
  <2>2. text = fdoc /\ fzip'.doc = text
    BY <1>3 DEF WriteZip, Built, IInv, Ordered, TextHeld, Filed
  <2>3. fzip'.doc.period = fdoc.period
    BY <2>2
  <2> QED
    BY <2>1, <2>3 DEF IInv, Ordered, Numbers, AllowlistCovers, Forward
<1>4. CASE WriteZst
  <2>1. UNCHANGED <<fdoc, fzip>>
    BY <1>4 DEF WriteZst, files
  <2>2. text = fzip.doc /\ fzst'.doc = text
    BY <1>4 DEF WriteZst, Built, IInv, Ordered, TextHeld
  <2>3. fzst'.doc.period = fzip.doc.period
    BY <2>2
  <2> QED
    BY <2>1, <2>3 DEF IInv, Ordered, Numbers, AllowlistCovers, Forward
<1> QED
  BY <1>2, <1>3, <1>4

LEMMA StepForward == IInv /\ [RouteNext]_routeVars => [Forward]_vars
<1> SUFFICES ASSUME IInv, [RouteNext]_routeVars PROVE Forward
  OBVIOUS
<1>1. CASE Next
  BY <1>1, OnlyWritesPublish, WritesForward, StaysPut
<1>2. ASSUME ReadTag \/ ReadZip \/ WriteBack \/ NotModifiedSince \/ Serve \/
     UNCHANGED routeVars
      PROVE  UNCHANGED <<fdoc, fzip, fzst>>
  BY <1>2 DEF ReadTag, ReadZip, WriteBack, NotModifiedSince, Serve, AtRoute,
     routeVars, vars, files, archive
<1> QED
  BY <1>1, <1>2, StaysPut DEF RouteNext

(* The consensus file, the zip and the zst only move to the same or later  *)
(* periods, over lagging directories, failed syncs and restarts that read  *)
(* their consensus back.                                                   *)
THEOREM ForwardOnly == RouteSpec => NoRollback
<1>1. RouteSpec => [][Forward]_vars
  BY Invariance, StepForward, PTL DEF RouteSpec
<1> QED
  BY <1>1, PTL DEF NoRollback, Forward
=============================================================================
