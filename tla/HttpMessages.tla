---------------------------- MODULE HttpMessages ----------------------------
(***************************************************************************)
(* HTTP/1.1 on the wire, as src/crates/tor-js-wasm/src/fetch.rs reads and  *)
(* writes it: the conversions its two loops are made of, and what a whole  *)
(* response says, defined over the complete input.  HttpFetch decodes the  *)
(* same bytes read by read; its properties compare the two.                *)
(*                                                                         *)
(* A byte is a short string.  "CR", "LF" and "SEMI" (the mark of a chunk   *)
(* extension) are themselves; the digits are themselves and stand for body *)
(* data as well.  A name in DOMAIN Heads stands for a status line with its *)
(* header fields, which Heads gives: the text of a head is not looked into *)
(* further.                                                                *)
(***************************************************************************)
EXTENDS Integers, Sequences, FiniteSets, SequencesExt

CONSTANTS Heads,      \* name -> [status, chunked, length]; length -1: no such field,
                      \* length -2: one that is no number
          Calls,      \* the arguments of fetch(), and the peer of each call
          ReadSize,   \* 8192: the buffer of one read
          MaxHeader   \* MAX_HEADER_SIZE

CRLF == <<"CR", "LF">>
Separator == CRLF \o CRLF
Digits == <<"0", "1", "2", "3">>
Bytes == ToSet(Digits) \cup {"CR", "LF", "SEMI"} \cup DOMAIN Heads
Fields == {"host", "accept", "connection", "content-length", "transfer-encoding",
           "injected", "other"}

ASSUME HeadsAssumption ==
  \A h \in DOMAIN Heads :
    /\ Heads[h].status \in 100..599
    /\ Heads[h].chunked \in BOOLEAN
    /\ Heads[h].length \in Nat \cup {-1, -2}

\* A body given to fetch(), by its type; a chunk's size is one digit here.
IsBody(body) ==
  /\ body.type \in {"string", "Uint8Array", "ArrayBuffer"} => body.data \in Seq(Bytes)
  /\ body.type = "ReadableStream" =>
       /\ body.chunks \in Seq([type : STRING, data : Seq(Bytes)])
       /\ \A i \in DOMAIN body.chunks : Len(body.chunks[i].data) < Len(Digits)

ASSUME FetchAssumption ==
  /\ ReadSize \in Nat \ {0} /\ MaxHeader \in Nat
  /\ \A c \in Calls :
       /\ c.valid \in BOOLEAN /\ c.https \in BOOLEAN
       /\ c.fields \subseteq Fields /\ IsBody(c.body)
       /\ c.response \in Seq(Bytes) /\ c.end \in {"fin", "reset", "open"}

\* find_subsequence, find_crlf: where `part` begins in `s`.
Found(s, part) == {i \in 1..(Len(s) - Len(part) + 1) : SubSeq(s, i, i + Len(part) - 1) = part}
First(S) == CHOOSE i \in S : \A j \in S : i <= j
Smaller(m, n) == IF m <= n THEN m ELSE n

\* str::trim(): white space at the ends goes.
IsText(b) == b \notin {"CR", "LF"}
Trim(s) ==
  LET text == {i \in DOMAIN s : IsText(s[i])}
  IN IF text = {} THEN <<>>
     ELSE SubSeq(s, First(text), CHOOSE i \in text : \A j \in text : j <= i)

\* A size line up to its extension.
SizeText(line) ==
  LET extension == Found(line, <<"SEMI">>)
  IN Trim(IF extension = {} THEN line ELSE SubSeq(line, 1, First(extension) - 1))

\* usize::from_str_radix(_, 16), of the digits there are here.
IsSize(text) == text # <<>> /\ \A i \in DOMAIN text : text[i] \in ToSet(Digits)
DigitValue(d) == (CHOOSE i \in DOMAIN Digits : Digits[i] = d) - 1
SizeOf(text) ==
  LET value[i \in 0..Len(text)] ==
        IF i = 0 THEN 0 ELSE 16 * value[i - 1] + DigitValue(text[i])
  IN value[Len(text)]

\* A chunk of an upload on the wire (at most three bytes of data here).
Frame(data) == <<Digits[Len(data) + 1]>> \o CRLF \o data \o CRLF
LastFrame == <<"0">> \o Separator

\* The status line of a head, when it has one.
IsHead(head) == head # <<>> /\ head[1] \in DOMAIN Heads

Framing(head, method) ==
  CASE method = "HEAD" \/ head.status \in {204, 304} -> "None"
    [] OTHER -> IF head.chunked THEN "Chunked"
                ELSE IF head.length >= 0 THEN "ContentLength"
                ELSE IF head.length = -1 THEN "UntilEof" ELSE "Invalid"

-----------------------------------------------------------------------------
(* What a whole input says                                                 *)

\* What the size line at i of s begins: data, and where the next size line is;
\* next is 0 when there is none, and whole then tells if that is the last chunk.
ChunkAt(s, i) ==
  LET eol == {j \in Found(s, CRLF) : j >= i}
      start == First(eol) + 2
      text == SizeText(SubSeq(s, i, First(eol) - 1))
      after == start + SizeOf(text)
      Stop(data, whole) == [data |-> data, next |-> 0, whole |-> whole]
      GoOn(data, next) == [data |-> data, next |-> next, whole |-> FALSE]
  IN IF eol = {} THEN Stop(<<>>, FALSE)
     ELSE IF text = <<>> THEN GoOn(<<>>, start)
     ELSE IF ~IsSize(text) THEN Stop(<<>>, FALSE)
     ELSE IF SizeOf(text) = 0 THEN Stop(<<>>, TRUE)
     ELSE IF after < Len(s) /\ SubSeq(s, after, after + 1) = CRLF
          THEN GoOn(SubSeq(s, start, after - 1), after + 2)
     ELSE Stop(SubSeq(s, start, Smaller(after - 1, Len(s))), FALSE)

\* The chunked body that is left from each size line of s on, and whether its
\* last chunk is there.
ChunkedFrom(s) ==
  LET From[i \in 1..(Len(s) + 1)] ==
        LET chunk == ChunkAt(s, i)
        IN IF chunk.next = 0 THEN [body |-> chunk.data, whole |-> chunk.whole]
           ELSE [body |-> chunk.data \o From[chunk.next].body, whole |-> From[chunk.next].whole]
  IN From

ChunkedBody(s) == ChunkedFrom(s)[1]

\* The response head at i of s: the head of an interim response goes on to the
\* next one; ok is FALSE for what is no head, or none that can be passed over.
HeadAt(s, i) ==
  LET ends == {j \in Found(s, Separator) : j >= i}
      head == SubSeq(s, i, First(ends) - 1)
      Is(ok, interim, name, next) == [ok |-> ok, interim |-> interim, name |-> name, next |-> next]
  IN IF ends = {} THEN Is(FALSE, FALSE, "", i)
     ELSE IF ~IsHead(head) \/ Heads[head[1]].status = 101 THEN Is(FALSE, FALSE, "", First(ends) + 4)
     ELSE Is(TRUE, Heads[head[1]].status < 200, head[1], First(ends) + 4)

\* The final response in s, read from each head on.
FinalFrom(s) ==
  LET From[i \in 1..(Len(s) + 1)] ==
        IF HeadAt(s, i).interim THEN From[HeadAt(s, i).next] ELSE HeadAt(s, i)
  IN From

FinalHead(s) == FinalFrom(s)[1]

\* A head before the final one's end takes more than n bytes.
LongHead(s, n) ==
  \E i \in 1..(FinalHead(s).next - n - 1) :
    /\ i = 1 \/ i - 4 \in Found(s, Separator)
    /\ Found(SubSeq(s, i, i + n), Separator) = {}

\* The body that input s, ended by `end`, carries for a request by `method`.
WholeBody(s, end, method) ==
  LET final == FinalHead(s)
      rest == SubSeq(s, final.next, Len(s))
      framing == Framing(Heads[final.name], method)
      length == Heads[final.name].length
      Is(body, whole) == [body |-> body, whole |-> whole, framing |-> framing]
  IN IF ~final.ok THEN [body |-> <<>>, whole |-> FALSE, framing |-> "None"]
     ELSE CASE framing = "Invalid" -> Is(<<>>, FALSE)
            [] framing = "None" -> Is(<<>>, TRUE)
            [] framing = "Chunked" -> Is(ChunkedBody(rest).body, ChunkedBody(rest).whole)
            [] framing = "ContentLength" ->
                 Is(SubSeq(rest, 1, Smaller(length, Len(rest))), Len(rest) >= length)
            [] OTHER -> Is(rest, end = "fin")
=============================================================================
