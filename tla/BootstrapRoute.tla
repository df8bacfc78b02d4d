--------------------------- MODULE BootstrapRoute ---------------------------
(***************************************************************************)
(* GET /bootstrap.zip.zst (routes.rs): a request that reads the three      *)
(* files of the bootstrap archive one after the other, beside the sync     *)
(* that renames them into place one after the other.                       *)
(*                                                                         *)
(* An ETag is the hash of a zip, here the archive it was taken from.  The  *)
(* length of the zip that goes into a header is left out.                  *)
(***************************************************************************)
EXTENDS ConsensusSync

VARIABLES rpc,  \* where the request is: idle, zip (no etag file), back, body
          rtag, \* the ETag it has read, NoArchive for none
          cut   \* history: the last archive was left with its etag written
                \* and its zst not

route == <<rpc, rtag>>
routeVars == <<vars, route, cut>>

\* The data directory of a gateway that wrote no etag yet, and the stores
\* loaded from it.
Earlier ==
  LET doc == [period |-> 1, until |-> 1, signed |-> TRUE]
  IN /\ latest = 1 /\ expired = FALSE
     /\ store = doc /\ mds = Listed[1] /\ covered = TRUE
     /\ allow = Admitting(1, {"v4"})
     /\ pc = "idle" /\ text = NoDoc /\ old = Digest(NoDoc)
     /\ fdoc = doc /\ fcerts = TRUE /\ fmds = Listed[1]
     /\ ftag = NoArchive /\ fzip = [doc |-> doc, mds |-> Listed[1]] /\ fzst = fzip
     /\ crashes = 0 /\ kept = TRUE /\ forgot = FALSE

RouteInit == (Init \/ Earlier) /\ rpc = "idle" /\ rtag = NoArchive /\ cut = FALSE

-----------------------------------------------------------------------------
AtRoute(next) == rpc' = next /\ UNCHANGED <<network, stores, allow, sync, files, history, cut>>

\* read_etag
ReadTag ==
  /\ rpc = "idle" /\ rtag' = ftag
  /\ AtRoute(IF ftag = NoArchive THEN "zip" ELSE "body") /\ UNCHANGED archive

ReadZip ==
  /\ rpc = "zip" /\ rtag' = fzip
  /\ AtRoute(IF fzip = NoArchive THEN "body" ELSE "back") /\ UNCHANGED archive

\* A plain write, over whatever a sync has renamed into place since.  It may
\* fail, before the file is opened or with a part of the hash in it.
CutTag == [NoArchive EXCEPT !.mds = {"cut"}]

WriteBack ==
  /\ rpc = "back" /\ ftag' \in {ftag, rtag, CutTag}
  /\ AtRoute("body") /\ UNCHANGED <<rtag, fzip, fzst>>

\* check_not_modified: the client's If-None-Match names the tag, or is "*".
NotModifiedSince ==
  /\ rpc = "body" /\ rtag # NoArchive
  /\ rtag' = NoArchive /\ AtRoute("idle") /\ UNCHANGED archive

\* The body is read and sent with the tag read before; 503 if there is none.
Serve ==
  /\ rpc = "body" /\ rtag' = NoArchive
  /\ AtRoute("idle") /\ UNCHANGED archive

-----------------------------------------------------------------------------
\* A step of the gateway's sync, with what it does to `cut`; a request does
\* not survive the process.
Beside ==
  /\ cut' = IF pc = "write zst" /\ pc' = "done" THEN FALSE
            ELSE IF pc \in {"write zip", "write zst"} /\ pc' = "idle" THEN TRUE
            ELSE cut
  /\ IF crashes' # crashes THEN rpc' = "idle" /\ rtag' = NoArchive ELSE UNCHANGED route

RouteNext ==
  \/ Next /\ Beside
  \/ ReadTag \/ ReadZip \/ WriteBack \/ NotModifiedSince \/ Serve

RouteSpec == RouteInit /\ [][RouteNext]_routeVars /\ Fairness

(* A request reads the tag first and the body last, a sync writes them in  *)
(* that order too: so a client gets an ETag newer than its body, which     *)
(* later 304s would make it keep, only while a sync is between these two   *)
(* files or after one that got no further (or if a start forgot what was   *)
(* published and an older archive replaced it).                            *)
ServedTagFits ==
  rpc = "body" /\ fzst # NoArchive /\ rtag.doc.period > fzst.doc.period
    => cut \/ forgot \/ pc \in {"write zip", "write zst"}

\* "Supports ETag/304" (routes.rs:262), as: the ETag of a 200 is that of the
\* archive in its body or of an older one.  Not what the code does.
TagNotAhead == rpc = "body" /\ fzst # NoArchive => rtag.doc.period <= fzst.doc.period
=============================================================================
