--------------------------- MODULE JsProxyStream ---------------------------
(***************************************************************************)
(* A JavaScript socket as arti's byte stream                               *)
(* (src/crates/tor-js-wasm/src/runtime.rs, JsProxyStream and connect).     *)
(* arti polls; each poll may leave one promise behind, of reader.read()    *)
(* or of writer.write() and writer.close(), which JavaScript settles in a  *)
(* step of its own before a later poll looks at it.                        *)
(*                                                                         *)
(* The socket is the wrapper's own (ArtiSocket in socketProvider.ts) or    *)
(* that of a provider of the caller's, which may lack a stream.  Its       *)
(* chunks are byte arrays, and it may break at any time, which makes every *)
(* promise of its streams reject.                                          *)
(***************************************************************************)
EXTENDS Integers, Sequences, FiniteSets, SequencesExt

CONSTANTS Inputs,    \* what a peer may send: a sequence of chunks, "fin" or "reset"
          Outputs,   \* what arti may write: a sequence of chunks
          Buffers    \* the sizes of the buffers arti reads into

Byte == 0..255

ASSUME StreamAssumption ==
  /\ Buffers \subseteq Nat \ {0} /\ Buffers # {}
  /\ \A input \in Inputs :
       input \in [chunks : Seq(Seq(Byte)), end : {"fin", "reset"}]
  /\ Outputs \subseteq Seq(Seq(Byte))

VARIABLES peer,       \* the input chosen
          stage,      \* of arti's connect and stream
          socket,     \* none, open or closed
          broken,     \* the socket's streams have errored
          inbox,      \* chunks the socket has not been asked for yet
          pending_read, read_buf, read_done,
          got,        \* bytes poll_read returned
          readEnd,    \* history: the first end poll_read reported
          outbox,     \* chunks arti has still to write
          pending_write, write_closing, write_closed,
          taken,      \* bytes poll_write said were written
          accepted,   \* bytes the socket took
          fin,        \* the socket was closed for writing
          reported,   \* history: a write, flush or close has failed
          assured     \* history: bytes written before a flush or close that succeeded

readVars == <<inbox, pending_read, read_buf, read_done, got, readEnd>>
writeVars == <<outbox, pending_write, write_closing, write_closed,
               taken, accepted, fin, reported, assured>>
streamVars == <<peer, stage, socket, broken, readVars, writeVars>>

\* A promise, and what it is about or settled with.
Promise(state, data) == [state |-> state, data |-> data]
NoPromise == Promise("none", <<>>)

StreamInit ==
  /\ peer \in Inputs
  /\ stage = "idle" /\ socket = "none" /\ broken = FALSE
  /\ inbox = peer.chunks
  /\ pending_read = NoPromise /\ read_buf = <<>> /\ read_done = FALSE
  /\ got = <<>> /\ readEnd = "open"
  /\ outbox \in Outputs
  /\ pending_write = NoPromise /\ write_closing = FALSE /\ write_closed = FALSE
  /\ taken = <<>> /\ accepted = <<>> /\ fin = FALSE
  /\ reported = FALSE /\ assured = 0

-----------------------------------------------------------------------------
(* WasmRuntime::connect and the stream's drop                              *)

Moves(next) == stage' = next /\ UNCHANGED <<peer, broken, readVars, writeVars>>

Connect == stage = "idle" /\ Moves("connecting") /\ UNCHANGED socket
ConnectRejects == stage = "connecting" /\ Moves("failed") /\ UNCHANGED socket

\* What the promise resolved to has no streams to take: wrap() fails, and
\* the socket is left as it is.
WrapFails == stage = "connecting" /\ Moves("failed") /\ socket' = "open"

Opens == stage = "connecting" /\ Moves("open") /\ socket' = "open"

\* arti drops the future of connect(); the promise behind it goes on.
GivesUp == stage = "connecting" /\ Moves("gaveup") /\ UNCHANGED socket
OpensLate == stage = "gaveup" /\ socket = "none" /\ socket' = "open" /\ Moves("gaveup")

\* Mutated form of Drop: the socket is not closed.
DropKeepsSocket == stage = "open" /\ Moves("dropped") /\ UNCHANGED socket

\* JsProxyStream::drop: the reader is cancelled, the socket closed.
Drop ==
  /\ stage = "open" /\ stage' = "dropped"
  /\ socket' = "closed" /\ broken' = TRUE
  /\ UNCHANGED <<peer, readVars, writeVars>>

\* The connection under the socket goes away.
Breaks ==
  /\ socket = "open" /\ ~broken /\ broken' = TRUE
  /\ UNCHANGED <<peer, stage, socket, readVars, writeVars>>

-----------------------------------------------------------------------------
(* poll_read                                                               *)

ReadStep == UNCHANGED <<peer, stage, socket, broken, writeVars>>

\* What fits the caller's buffer, and what is left over.
Given(data, room) == SubSeq(data, 1, IF room < Len(data) THEN room ELSE Len(data))
Over(data, room) == SubSeq(data, room + 1, Len(data))

PollReadBuffered(room) ==
  /\ stage = "open" /\ read_buf # <<>>
  /\ got' = got \o Given(read_buf, room)
  /\ read_buf' = Over(read_buf, room)
  /\ UNCHANGED <<inbox, pending_read, read_done, readEnd>> /\ ReadStep

\* No chunk is there and none is asked for: one is asked for.
PollReadAsks ==
  /\ stage = "open" /\ read_buf = <<>> /\ ~read_done
  /\ pending_read.state = "none"
  /\ pending_read' = Promise("waiting", <<>>)
  /\ UNCHANGED <<inbox, read_buf, read_done, got, readEnd>> /\ ReadStep

\* The chunk is there; after an empty one the next is asked for at once.
PollReadTakes(room) ==
  /\ stage = "open" /\ read_buf = <<>> /\ ~read_done
  /\ pending_read.state = "chunk"
  /\ pending_read' = IF pending_read.data = <<>> THEN Promise("waiting", <<>>) ELSE NoPromise
  /\ got' = got \o Given(pending_read.data, room)
  /\ read_buf' = Over(pending_read.data, room)
  /\ UNCHANGED <<inbox, read_done, readEnd>> /\ ReadStep

\* Mutated form of PollReadEnds: a failed read is asked again.
PollReadEndsRetries ==
  /\ stage = "open" /\ read_buf = <<>> /\ ~read_done
  /\ pending_read.state \in {"done", "failed"}
  /\ pending_read' = NoPromise
  /\ read_done' = (pending_read.state = "done")
  /\ readEnd' = IF pending_read.state = "done" THEN "ended" ELSE readEnd
  /\ UNCHANGED <<inbox, read_buf, got>> /\ ReadStep

\* The end, or a failure: either way the reads are over, and every later
\* poll returns 0.
PollReadEnds ==
  /\ stage = "open" /\ read_buf = <<>> /\ ~read_done
  /\ pending_read.state \in {"done", "failed"}
  /\ pending_read' = NoPromise /\ read_done' = TRUE
  /\ readEnd' = IF pending_read.state = "done" THEN "ended" ELSE "broken"
  /\ UNCHANGED <<inbox, read_buf, got>> /\ ReadStep

\* JavaScript settles reader.read().
ReadSettles ==
  /\ pending_read.state = "waiting"
  /\ \/ /\ ~broken /\ inbox # <<>>
        /\ pending_read' = Promise("chunk", inbox[1]) /\ inbox' = Tail(inbox)
     \/ /\ ~broken /\ inbox = <<>> /\ peer.end = "fin"
        /\ pending_read' = Promise("done", <<>>) /\ UNCHANGED inbox
     \/ /\ broken \/ (inbox = <<>> /\ peer.end = "reset")
        /\ pending_read' = Promise("failed", <<>>) /\ UNCHANGED inbox
  /\ UNCHANGED <<read_buf, read_done, got, readEnd>> /\ ReadStep

-----------------------------------------------------------------------------
(* poll_write, poll_flush, poll_close                                      *)

WriteStep == stage = "open" /\ UNCHANGED <<peer, stage, socket, broken, readVars>>

\* poll_pending_write: nothing is in flight any more.
Free == pending_write.state \in {"none", "ok"}

\* Any of the three polls finds that the last write or close failed.
PollFinds ==
  /\ pending_write.state = "failed"
  /\ pending_write' = NoPromise /\ reported' = TRUE
  /\ UNCHANGED <<outbox, write_closing, write_closed, taken, accepted, fin, assured>>
  /\ WriteStep

\* Mutated form of PollWrite: only part of the chunk goes out, all of it counts.
PollWritePart ==
  /\ Free /\ ~write_closing /\ outbox # <<>>
  /\ pending_write' = Promise("waiting", <<Head(outbox[1])>>)
  /\ taken' = taken \o outbox[1]
  /\ outbox' = Tail(outbox)
  /\ UNCHANGED <<write_closing, write_closed, accepted, fin, reported, assured>>
  /\ WriteStep

\* arti does not write after it has begun to close.
PollWrite ==
  /\ Free /\ ~write_closing /\ outbox # <<>>
  /\ pending_write' = Promise("waiting", outbox[1])
  /\ taken' = taken \o outbox[1]
  /\ outbox' = Tail(outbox)
  /\ UNCHANGED <<write_closing, write_closed, accepted, fin, reported, assured>>
  /\ WriteStep

PollFlush ==
  /\ Free
  /\ pending_write' = NoPromise /\ assured' = Len(taken)
  /\ UNCHANGED <<outbox, write_closing, write_closed, taken, accepted, fin, reported>>
  /\ WriteStep

PollCloseAsks ==
  /\ Free /\ ~write_closing
  /\ pending_write' = Promise("waiting", <<>>) /\ write_closing' = TRUE
  /\ UNCHANGED <<outbox, write_closed, taken, accepted, fin, reported, assured>>
  /\ WriteStep

\* Mutated form of PollCloseEnds: the promise of close() is not awaited.
PollCloseEndsEarly ==
  /\ write_closing
  /\ pending_write' = NoPromise /\ write_closed' = TRUE /\ assured' = Len(taken)
  /\ UNCHANGED <<outbox, write_closing, taken, accepted, fin, reported>>
  /\ WriteStep

\* close() resolved, or it failed and a poll has reported that already.
PollCloseEnds ==
  /\ Free /\ write_closing
  /\ pending_write' = NoPromise /\ write_closed' = TRUE /\ assured' = Len(taken)
  /\ UNCHANGED <<outbox, write_closing, taken, accepted, fin, reported>>
  /\ WriteStep

\* JavaScript settles writer.write() or writer.close(): the socket takes the
\* chunk or the end, or has errored.
WriteSettles ==
  /\ pending_write.state = "waiting"
  /\ pending_write' = Promise(IF broken THEN "failed" ELSE "ok", <<>>)
  /\ accepted' = IF broken THEN accepted ELSE accepted \o pending_write.data
  /\ fin' = (fin \/ (~broken /\ write_closing))
  /\ UNCHANGED <<peer, stage, socket, broken, readVars>>
  /\ UNCHANGED <<outbox, write_closing, write_closed, taken, reported, assured>>

-----------------------------------------------------------------------------

StreamReads ==
  \/ \E room \in Buffers : PollReadBuffered(room) \/ PollReadTakes(room)
  \/ PollReadAsks \/ PollReadEnds \/ ReadSettles

Writes ==
  \/ PollFinds \/ PollWrite \/ PollFlush \/ PollCloseAsks \/ PollCloseEnds \/ WriteSettles

StreamNext ==
  \/ Connect \/ ConnectRejects \/ WrapFails \/ Opens \/ GivesUp \/ OpensLate \/ Drop \/ Breaks
  \/ StreamReads \/ Writes

\* arti keeps polling a read, JavaScript settles its promises.
StreamSpec == StreamInit /\ [][StreamNext]_streamVars /\ WF_streamVars(StreamReads) /\ WF_streamVars(WriteSettles)

-----------------------------------------------------------------------------
(* Properties                                                              *)

States == {"none", "waiting", "chunk", "done", "failed", "ok"}

\* Types of every variable.
StreamTypeOK ==
  /\ peer \in Inputs
  /\ stage \in {"idle", "connecting", "failed", "open", "gaveup", "dropped"}
  /\ socket \in {"none", "open", "closed"} /\ broken \in BOOLEAN
  /\ pending_read \in [state : States \ {"ok"}, data : Seq(Byte)]
  /\ pending_write \in [state : States \ {"chunk", "done"}, data : Seq(Byte)]
  /\ inbox \in Seq(Seq(Byte)) /\ read_buf \in Seq(Byte) /\ got \in Seq(Byte)
  /\ read_done \in BOOLEAN /\ readEnd \in {"open", "ended", "broken"}
  /\ outbox \in Seq(Seq(Byte)) /\ taken \in Seq(Byte) /\ accepted \in Seq(Byte)
  /\ write_closing \in BOOLEAN /\ write_closed \in BOOLEAN
  /\ fin \in BOOLEAN /\ reported \in BOOLEAN
  /\ assured \in Nat

\* What arti reads is what the peer sent, in order, each byte once, over any
\* sizes of chunks and buffers, and it is told the end only after all of it;
\* a connection that breaks is not taken for one that ended.
ReadPipe == INSTANCE BytePipe
  WITH put <- FlattenSeq(peer.chunks), got <- got, status <- readEnd
ImplementsReadPipe == ReadPipe!Spec

\* What the socket takes is what arti wrote, in order, each byte once; the
\* FIN goes out only behind the last byte, and after a write failed nothing
\* more goes out.
WritePipe == INSTANCE BytePipe
  WITH put <- taken, got <- accepted,
       status <- IF fin THEN "ended" ELSE IF reported THEN "broken" ELSE "open"
ImplementsWritePipe == WritePipe!Spec

\* Both directions of the stream (runtime.rs:324-480) are faithful pipes.
ImplementsPipes == ImplementsReadPipe /\ ImplementsWritePipe

\* poll_write says "written" when the promise is made: the failure of the
\* last write reaches arti by a flush or close, which never succeed over
\* bytes that are lost, unless a failure has been reported before
\* (runtime.rs:423-476: after a failed close, the next poll_close succeeds).
FailureReported ==
  /\ assured <= Len(accepted) \/ reported
  /\ write_closed => fin \/ reported

\* A socket stays open only as long as arti has its stream.  The exceptions
\* are the code's: when arti gives up on connect(), the socket that opens
\* later is nobody's (runtime.rs:566-577), nor is one that wrap() refuses
\* (runtime.rs:572).
SocketReleased ==
  socket = "open" => stage \in {"open", "gaveup", "failed"}

\* Reads do not hang: once the stream is open and arti goes on reading, the
\* peer's bytes and its end arrive, or the failure does, or arti drops it.
ReadsEnd == (stage = "open") ~> (readEnd # "open" \/ stage = "dropped")
=============================================================================
