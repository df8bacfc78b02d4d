----------------------------- MODULE HttpFetch -----------------------------
(***************************************************************************)
(* One fetch() through Tor (fetch_impl in lib.rs, and fetch.rs): connect,  *)
(* TLS, the request written piece by piece, the response head read, and    *)
(* the body decoded on demand, a read at a time.  The peer is an input:    *)
(* what it sends and how it ends the connection are fixed by the call, but *)
(* every read returns as many of those bytes as the network pleases.       *)
(*                                                                         *)
(* The steps of the decoder that run without an await in between are       *)
(* separate actions; only the abort signal can fall between them, and it   *)
(* is not looked at there.                                                 *)
(***************************************************************************)
EXTENDS HttpMessages

VARIABLES call,        \* the arguments of fetch() and the peer
          abortedAt,   \* where it was when the AbortSignal fired, or "never"
          pc,          \* where fetch_impl or the body stream is
          request,     \* header fields of the request, once it is built
          sent,        \* body bytes of the request the stream took
          upload,      \* items of a streamed request body not read yet
          incoming,    \* bytes of the peer not read yet
          buf,         \* header_buf, then BodyReader.buffer
          status,      \* of the final response, 0 before
          reader,      \* BodyReader: framing and the decoder's position
          delivered,   \* body bytes handed to the caller
          late         \* history: chunks handed over after the abort

requestVars == <<request, sent, upload>>
bodyVars == <<status, reader, delivered, late>>
vars == <<call, abortedAt, pc, requestVars, incoming, buf, bodyVars>>

NewReader(framing, length) ==
  [framing |-> framing, length |-> length, read |-> 0, left |-> 0, crlf |-> FALSE]

\* extract_body_from_js: what the caller gave as a body, by its type.  A
\* chunk of a stream that is no Uint8Array is an error of the source.
Item(chunk) ==
  IF chunk.type = "Uint8Array" THEN [ok |-> TRUE, data |-> chunk.data]
  ELSE [ok |-> FALSE, data |-> <<>>]

RequestBody(given) ==
  LET body(kind, bytes, items) == [kind |-> kind, bytes |-> bytes, items |-> items]
  IN CASE given.type = "null" -> body("none", <<>>, <<>>)
       [] given.type \in {"string", "Uint8Array", "ArrayBuffer"} -> body("bytes", given.data, <<>>)
       [] given.type = "ReadableStream" ->
            body("stream", <<>>, [i \in DOMAIN given.chunks |-> Item(given.chunks[i])])
       [] OTHER -> body("invalid", <<>>, <<>>)

Upload == RequestBody(call.body)

\* Statuses the platform's Response takes no body for (Fetch standard).
NullBodyStatus == {101, 103, 204, 205, 304}

Init ==
  /\ call \in Calls
  /\ abortedAt = "never"
  /\ pc = "start"
  /\ request = {} /\ sent = <<>> /\ upload = Upload.items
  /\ incoming = call.response
  /\ buf = <<>>
  /\ status = 0 /\ reader = NewReader("None", -1) /\ delivered = <<>> /\ late = 0

aborted == abortedAt # "never"
Settled == pc \in {"failed", "ended"}

\* AbortController.abort() by the caller.
Abort ==
  /\ ~aborted /\ ~Settled
  /\ abortedAt' = pc
  /\ UNCHANGED <<call, pc, requestVars, incoming, buf, bodyVars>>

-----------------------------------------------------------------------------
(* Up to the request                                                       *)

Goto(next) == pc' = next /\ UNCHANGED <<call, abortedAt, incoming, buf, bodyVars>>

\* Arguments that do not parse fail first, then the signal is looked at.
Start ==
  /\ pc = "start"
  /\ Goto(IF call.valid /\ Upload.kind # "invalid" /\ ~aborted THEN "connecting" ELSE "failed")
  /\ UNCHANGED requestVars

ConnectFails == pc = "connecting" /\ Goto("failed") /\ UNCHANGED requestVars

\* What the head says of the body.
FramingField(kind) ==
  CASE kind = "bytes" -> {"content-length"}
    [] kind = "stream" -> {"transfer-encoding"}
    [] OTHER -> {}

\* build_request_head: the caller's Host and framing fields are replaced.
RequestHead(fields, kind) ==
  (fields \ {"host", "content-length", "transfer-encoding"})
    \cup {"host", "accept", "connection"} \cup FramingField(kind)

\* The stream is there: abort check, then build_request_head.
Connected ==
  /\ pc = "connecting"
  /\ IF aborted \/ "injected" \in call.fields
     THEN Goto("failed") /\ UNCHANGED requestVars
     ELSE /\ request' = RequestHead(call.fields, Upload.kind)
          /\ Goto(IF call.https THEN "tls" ELSE "head")
          /\ UNCHANGED <<sent, upload>>

Handshake == pc = "tls" /\ Goto("head") /\ UNCHANGED requestVars
HandshakeFails == pc = "tls" /\ Goto("failed") /\ UNCHANGED requestVars

-----------------------------------------------------------------------------
(* write_request                                                           *)

SendHead == pc = "head" /\ Goto("upload") /\ UNCHANGED requestVars

\* The next write_all of the body.
NextWrite ==
  CASE pc = "upload" /\ Upload.kind = "bytes" -> Upload.bytes
    [] pc = "upload" /\ Upload.kind = "stream" ->
         IF upload = <<>> THEN LastFrame
         ELSE IF upload[1].ok /\ upload[1].data # <<>> THEN Frame(upload[1].data) ELSE <<>>
    [] OTHER -> <<>>

\* No body, or a whole one.
SendBytes ==
  /\ pc = "upload" /\ Upload.kind # "stream"
  /\ sent' = sent \o NextWrite
  /\ Goto("flush")
  /\ UNCHANGED <<request, upload>>

\* Mutated form of SendItem: the end of a failed source is taken for its end.
SendItemLenient ==
  /\ pc = "upload" /\ Upload.kind = "stream" /\ upload # <<>>
  /\ upload' = IF upload[1].ok THEN Tail(upload) ELSE <<>>
  /\ sent' = sent \o NextWrite
  /\ Goto("upload")
  /\ UNCHANGED request

\* A chunk of the source becomes a frame, an empty one nothing at all; an
\* error of the source ends the fetch, with no last chunk.
SendItem ==
  /\ pc = "upload" /\ Upload.kind = "stream" /\ upload # <<>>
  /\ upload' = Tail(upload)
  /\ sent' = sent \o NextWrite
  /\ Goto(IF upload[1].ok THEN "upload" ELSE "failed")
  /\ UNCHANGED request

SendLast ==
  /\ pc = "upload" /\ Upload.kind = "stream" /\ upload = <<>>
  /\ sent' = sent \o NextWrite
  /\ Goto("flush")
  /\ UNCHANGED <<request, upload>>

Flush == pc = "flush" /\ Goto("headers") /\ UNCHANGED requestVars

\* Any write may fail, with any part of it on its way.
WriteFails ==
  /\ pc \in {"head", "upload", "flush"}
  /\ \E n \in 0..Len(NextWrite) : sent' = sent \o SubSeq(NextWrite, 1, n)
  /\ Goto("failed")
  /\ UNCHANGED <<request, upload>>

-----------------------------------------------------------------------------
(* read_response_headers                                                   *)

\* One read of at most `limit` bytes: some bytes, or none at the end, or an
\* error after a reset; it waits while the peer keeps the connection open.
Reads(limit, n) ==
  /\ n \in 1..limit /\ n <= Len(incoming)
  /\ incoming' = SubSeq(incoming, n + 1, Len(incoming))
Got(n) == SubSeq(incoming, 1, n)
AtEnd == incoming = <<>> /\ call.end # "open"

ReadHead ==
  /\ pc = "headers" /\ Found(buf, Separator) = {} /\ Len(buf) <= MaxHeader
  /\ \E n \in 1..ReadSize : Reads(ReadSize, n) /\ buf' = buf \o Got(n)
  /\ UNCHANGED <<call, abortedAt, pc, requestVars, bodyVars>>

HeadFails ==
  /\ pc = "headers" /\ Found(buf, Separator) = {}
  /\ Len(buf) > MaxHeader \/ AtEnd
  /\ Goto("failed") /\ UNCHANGED requestVars

\* Mutated form of Behind: what came with an interim head is dropped.
BehindFinal(at, head) == IF head.status < 200 THEN <<>> ELSE SubSeq(buf, at + 4, Len(buf))

\* The bytes read past the separator: the next response, or the body.
Behind(at, head) == SubSeq(buf, at + 4, Len(buf))

\* A head is complete: an interim one gives way to what follows it, the
\* final one to the body and its framing.
ParseHead ==
  LET at == First(Found(buf, Separator))
      lines == SubSeq(buf, 1, at - 1)
      head == Heads[lines[1]]
      bad == \/ ~IsHead(lines)
             \/ head.status = 101
             \/ head.status >= 200 /\ Framing(head, call.method) = "Invalid"
  IN /\ pc = "headers" /\ Found(buf, Separator) # {}
     /\ IF bad THEN pc' = "failed" /\ UNCHANGED <<buf, status, reader>>
        ELSE /\ buf' = Behind(at, head)
             /\ IF head.status < 200 THEN UNCHANGED <<pc, status, reader>>
                ELSE /\ pc' = "answer"
                     /\ status' = head.status
                     /\ reader' = NewReader(Framing(head, call.method), head.length)
     /\ UNCHANGED <<call, abortedAt, requestVars, incoming, delivered, late>>

\* fetch_impl hands the platform a Response that always has a body stream;
\* its constructor refuses that for some statuses, and so does fetch().  The
\* header fields are such as the platform's Headers take.
Answer ==
  /\ pc = "answer"
  /\ Goto(IF status \in NullBodyStatus \/ status > 599 THEN "failed" ELSE "response")
  /\ UNCHANGED requestVars

-----------------------------------------------------------------------------
(* The body stream: the signal, then BodyReader::read_chunk                *)

BodyStep == UNCHANGED <<call, abortedAt, requestVars>>

\* Mutated form of Pull: only the start of the body looks at the signal.
PullChecksOnce ==
  /\ pc = "response"
  /\ pc' = IF aborted /\ delivered = <<>> THEN "failed" ELSE "chunk"
  /\ BodyStep /\ UNCHANGED <<incoming, buf, bodyVars>>

\* The caller asks the Response's stream for a chunk.
Pull ==
  /\ pc = "response"
  /\ pc' = IF aborted THEN "failed" ELSE "chunk"
  /\ BodyStep /\ UNCHANGED <<incoming, buf, bodyVars>>

\* read_chunk returns these bytes.
Yield(bytes) ==
  /\ delivered' = delivered \o bytes
  /\ late' = late + (IF aborted THEN 1 ELSE 0)
  /\ pc' = "response"

Ends == pc' = "ended" /\ BodyStep /\ UNCHANGED <<incoming, buf, bodyVars>>
Fails == pc' = "failed" /\ BodyStep /\ UNCHANGED <<incoming, buf, bodyVars>>

NoBody == pc = "chunk" /\ reader.framing = "None" /\ Ends

\* read_chunk_content_length, read_chunk_eof
Owed == IF reader.framing = "ContentLength"
        THEN reader.length - reader.read ELSE ReadSize
Plain == pc = "chunk" /\ reader.framing \in {"ContentLength", "UntilEof"}

PlainDone == Plain /\ reader.framing = "ContentLength" /\ Owed = 0 /\ Ends

\* Mutated form of PlainBuffered: what is over after the body goes along.
PlainBufferedAll ==
  /\ Plain /\ Owed > 0 /\ buf # <<>>
  /\ buf' = <<>>
  /\ reader' = [reader EXCEPT !.read = @ + Len(buf)]
  /\ Yield(buf)
  /\ BodyStep /\ UNCHANGED <<status, incoming>>

\* Bytes that came with the head go first; UntilEof takes them all.
PlainBuffered ==
  LET n == IF reader.framing = "UntilEof" THEN Len(buf) ELSE Smaller(Len(buf), Owed)
  IN /\ Plain /\ Owed > 0 /\ buf # <<>>
     /\ buf' = SubSeq(buf, n + 1, Len(buf))
     /\ reader' = [reader EXCEPT !.read = @ + n]
     /\ Yield(SubSeq(buf, 1, n))
     /\ BodyStep /\ UNCHANGED <<status, incoming>>

PlainRead ==
  /\ Plain /\ Owed > 0 /\ buf = <<>>
  /\ \E n \in 1..ReadSize :
       /\ Reads(Smaller(ReadSize, Owed), n)
       /\ reader' = [reader EXCEPT !.read = @ + n]
       /\ Yield(Got(n))
  /\ BodyStep /\ UNCHANGED <<status, buf>>

\* A body of known length is cut short; one that lasts until the end of the
\* connection is complete, after a reset too if any of it has come.
PlainEnds ==
  /\ Plain /\ Owed > 0 /\ buf = <<>> /\ AtEnd
  /\ IF reader.framing = "UntilEof" /\ (call.end = "fin" \/ reader.read > 0) THEN Ends ELSE Fails

-----------------------------------------------------------------------------
(* read_chunk_chunked                                                      *)

Chunked == pc = "chunk" /\ reader.framing = "Chunked"
InData == Chunked /\ reader.left > 0
AtCrlf == Chunked /\ reader.left = 0 /\ reader.crlf
AtSize == Chunked /\ reader.left = 0 /\ ~reader.crlf

\* n bytes of the chunk's data were taken.
Taken(n) == [reader EXCEPT !.left = @ - n, !.crlf = @ \/ reader.left = n]

ChunkBuffered ==
  LET n == Smaller(Len(buf), reader.left)
  IN /\ InData /\ buf # <<>>
     /\ buf' = SubSeq(buf, n + 1, Len(buf))
     /\ reader' = Taken(n)
     /\ Yield(SubSeq(buf, 1, n))
     /\ BodyStep /\ UNCHANGED <<status, incoming>>

ChunkRead ==
  /\ InData /\ buf = <<>>
  /\ \E n \in 1..ReadSize :
       /\ Reads(Smaller(ReadSize, reader.left), n)
       /\ reader' = Taken(n)
       /\ Yield(Got(n))
  /\ BodyStep /\ UNCHANGED <<status, buf>>

\* fill_buffer_from_stream, for the CRLF or for a size line.
NeedsMore == (AtCrlf /\ Len(buf) < 2) \/ (AtSize /\ Found(buf, CRLF) = {})

Fill ==
  /\ NeedsMore
  /\ \E n \in 1..ReadSize : Reads(ReadSize, n) /\ buf' = buf \o Got(n)
  /\ BodyStep /\ UNCHANGED <<pc, bodyVars>>

\* Mutated form of ChunkEnds: at a size line the end is a clean one.
ChunkEndsClean ==
  /\ NeedsMore \/ (InData /\ buf = <<>>)
  /\ AtEnd
  /\ IF AtSize THEN Ends ELSE Fails

\* The peer is gone before the last chunk.
ChunkEnds ==
  /\ NeedsMore \/ (InData /\ buf = <<>>)
  /\ AtEnd
  /\ Fails

TakeCrlf ==
  /\ AtCrlf /\ Len(buf) >= 2
  /\ IF SubSeq(buf, 1, 2) = CRLF
     THEN /\ buf' = SubSeq(buf, 3, Len(buf))
          /\ reader' = [reader EXCEPT !.crlf = FALSE]
          /\ BodyStep /\ UNCHANGED <<pc, status, incoming, delivered, late>>
     ELSE Fails

\* A blank line is passed over, a size that is none is an error, 0 ends.
TakeSize ==
  LET line == First(Found(buf, CRLF))
      text == SizeText(SubSeq(buf, 1, line - 1))
      rest == SubSeq(buf, line + 2, Len(buf))
  IN /\ AtSize /\ Found(buf, CRLF) # {}
     /\ IF text # <<>> /\ ~IsSize(text) THEN Fails
        ELSE /\ buf' = rest
             /\ IF text # <<>> /\ SizeOf(text) = 0 THEN pc' = "ended" /\ UNCHANGED reader
                ELSE /\ reader' = [reader EXCEPT !.left = IF text = <<>> THEN 0 ELSE SizeOf(text)]
                     /\ UNCHANGED pc
             /\ BodyStep /\ UNCHANGED <<status, incoming, delivered, late>>

-----------------------------------------------------------------------------

Request ==
  \/ Start \/ Connected \/ Handshake
  \/ SendHead \/ SendBytes \/ SendItem \/ SendLast \/ Flush

Response ==
  \/ ReadHead \/ HeadFails \/ ParseHead \/ Answer \/ Pull
  \/ NoBody \/ PlainDone \/ PlainBuffered \/ PlainRead \/ PlainEnds
  \/ ChunkBuffered \/ ChunkRead \/ Fill \/ ChunkEnds \/ TakeCrlf \/ TakeSize

Next == Abort \/ ConnectFails \/ HandshakeFails \/ WriteFails \/ Request \/ Response

\* The client's own steps go on while their read or write can, and the
\* caller keeps asking for chunks; nothing has to fail, nobody has to abort.
Spec == Init /\ [][Next]_vars /\ WF_vars(Request) /\ WF_vars(Response)

-----------------------------------------------------------------------------
(* Properties                                                              *)

Places == {"start", "connecting", "tls", "head", "upload", "flush", "headers",
           "answer", "response", "chunk", "ended", "failed"}

\* Types of every variable; the position of the decoder stays within bounds.
TypeOK ==
  /\ call.valid \in BOOLEAN /\ call.https \in BOOLEAN
  /\ call.fields \subseteq Fields
  /\ Upload.kind \in {"none", "bytes", "stream", "invalid"}
  /\ call.end \in {"fin", "reset", "open"}
  /\ pc \in Places /\ abortedAt \in Places \cup {"never"}
  /\ request \subseteq Fields \ {"injected"}
  /\ sent \in Seq(Bytes) /\ delivered \in Seq(Bytes)
  /\ incoming \in Seq(Bytes) /\ buf \in Seq(Bytes)
  /\ status \in {0} \cup 200..599
  /\ reader.read \in Nat /\ reader.left \in Nat /\ reader.crlf \in BOOLEAN
  /\ late \in Nat

\* What the peer's bytes say when they are read in one piece.
Whole == WholeBody(call.response, call.end, call.method)

\* However the network cuts the response into reads, and however damaged or
\* short it is, what the caller has been given is the beginning of the body
\* it carries: the decoder's fields carry its position over every read
\* (fetch.rs:226-343), and the bytes that came with the head are not lost.
DeliversBody == IsPrefix(delivered, Whole.body)

\* A body stream that ends has given all of a body that was all there.  The
\* exception is the code's (fetch.rs:209-215): a body that lasts until the
\* end of the connection is taken as complete when a reset ends it after
\* the first byte.
EndMeansWhole ==
  pc = "ended" =>
    /\ delivered = Whole.body
    /\ Whole.whole \/ (Whole.framing = "UntilEof" /\ call.end = "reset" /\ delivered # <<>>)

\* A response that is all there is never turned into an error, in whatever
\* pieces it comes; only a head longer than MAX_HEADER_SIZE may be, and one
\* the platform's Response takes no body for always is.
WholeNeverFails ==
  pc = "failed" /\ incoming # call.response /\ ~aborted =>
    \/ ~Whole.whole
    \/ LongHead(call.response, MaxHeader)
    \/ status \in NullBodyStatus

\* Together: what fetch() makes of a response is decided by the bytes sent and
\* by how they end, never by the reads they come in, and a body that was cut
\* short never looks complete (lib.rs:570-603, fetch.rs:141-343).
EndsHonest == EndMeansWhole /\ WholeNeverFails

\* "No body expected (HEAD response, 204, 304, 1xx)" (fetch.rs:69): an
\* answer without a body is one of the framings, so fetch() resolves with it.
BodilessResolves == pc = "failed" => Whole.framing # "None" \/ ~Whole.whole \/ aborted
                                     \/ incoming = call.response

\* After the abort at most the chunk that was being read comes through
\* (lib.rs:573).  A fetch aborted before it connects never does (lib.rs:543),
\* and one aborted while it connects never sends a request (lib.rs:553),
\* however long it goes on after that.
AbortStops ==
  /\ late <= 1
  /\ abortedAt = "start" => pc \in {"start", "failed"}
  /\ abortedAt \in {"start", "connecting"} => request = {} /\ sent = <<>>

\* What the peer makes of the request body, by the framing it was told.
PeerBody == IF "transfer-encoding" \in request THEN ChunkedBody(sent).body ELSE sent
PeerHasAll ==
  IF "transfer-encoding" \in request THEN ChunkedBody(sent).whole
  ELSE "content-length" \in request => Len(sent) = Len(Upload.bytes)
CallersBody ==
  CASE call.body.type = "null" -> <<>>
    [] call.body.type = "ReadableStream" ->
         FlattenSeq([i \in DOMAIN call.body.chunks |-> call.body.chunks[i].data])
    [] OTHER -> call.body.data
SourceFails ==
  call.body.type = "ReadableStream" /\
    \E i \in DOMAIN call.body.chunks : call.body.chunks[i].type # "Uint8Array"

\* The peer never takes a cut-off upload for a complete one, whether the
\* write or the caller's stream failed, and whatever framing fields the
\* caller asked for: if the request reads as complete, it is the whole body
\* (fetch.rs:411-416, 444-468).
UploadHonest ==
  pc \notin {"start", "connecting", "tls", "head"} /\ request # {} /\ PeerHasAll =>
    PeerBody = CallersBody /\ ~SourceFails

\* Once the request is out, a fetch whose peer has sent a whole response or
\* gone away comes to an end: it never waits for a byte the peer has no
\* reason to send (fetch.rs:505-508), even if the connection stays open.
FetchSettles == (pc = "headers" /\ (Whole.whole \/ call.end # "open")) ~> Settled
=============================================================================
