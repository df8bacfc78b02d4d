---------------------------- MODULE MCHttpFetch ----------------------------
(* Peers that send a response of every framing, with interim heads, whole, *)
(* cut at every byte, and with any byte of the chunked one lost or changed; *)
(* and requests with every kind of body.                                   *)
EXTENDS HttpFetch

HeadsHere ==
  [k |-> [status |-> 200, chunked |-> TRUE, length |-> -1],
   b |-> [status |-> 200, chunked |-> TRUE, length |-> 1],
   c |-> [status |-> 200, chunked |-> FALSE, length |-> 2],
   u |-> [status |-> 200, chunked |-> FALSE, length |-> -1],
   n |-> [status |-> 204, chunked |-> FALSE, length |-> 1],
   z |-> [status |-> 200, chunked |-> FALSE, length |-> -2],
   i |-> [status |-> 103, chunked |-> FALSE, length |-> -1],
   w |-> [status |-> 101, chunked |-> FALSE, length |-> -1]]

EndsHere == {"fin", "reset", "open"}

Resp(name) == <<name>> \o Separator
TwoChunks == Resp("k") \o <<"2", "SEMI">> \o CRLF \o <<"1", "0">> \o CRLF
                       \o <<"1">> \o CRLF \o <<"2">> \o CRLF \o LastFrame
Interim == Resp("i") \o Resp("c") \o <<"1", "2", "0">>
Plain2 == {Resp("c") \o <<"1", "2">>, Resp("u") \o <<"1", "2">>, Resp("n"),
           Resp("b") \o Frame(<<"1">>) \o LastFrame,
           Resp("i") \o Resp("i") \o Resp("u"), Resp("z"), Resp("w"), Interim}

\* An interim head, and one as long as the limit allows, or longer.
Filled(n) == Resp("i") \o <<"c">> \o [i \in 1..n |-> "1"] \o Separator \o <<"1", "2">>
Long == {Filled(n) : n \in {8, 9, 12}}

Cuts(s) == {SubSeq(s, 1, n) : n \in 0..Len(s)}
Losses(s) == {SubSeq(s, 1, n - 1) \o SubSeq(s, n + 1, Len(s)) : n \in DOMAIN s}
Changes(s) == {[s EXCEPT ![n] = b] : n \in DOMAIN s, b \in {"CR", "LF", "0", "1", "SEMI"}}

NoUpload == [type |-> "null"]
Call(method, body, fields, response, end) ==
  [valid |-> TRUE, https |-> FALSE, method |-> method, body |-> body,
   fields |-> fields, response |-> response, end |-> end]
Get(response, end) == Call("GET", NoUpload, {}, response, end)

Downloads ==
  {Get(s, end) : s \in UNION {Cuts(p) : p \in Plain2 \cup {TwoChunks}}, end \in EndsHere}
  \cup {Get(s, "fin") : s \in Losses(TwoChunks) \cup Changes(TwoChunks)}
  \cup {Get(s, "fin") : s \in Long}
  \cup {Call("HEAD", NoUpload, {}, Resp("c"), "open")}

Chunk(data) == [type |-> "Uint8Array", data |-> data]
Broken == [type |-> "error", data |-> <<>>]
Text == [type |-> "string", data |-> <<"1">>]
Sources == {<<>>, <<Chunk(<<>>)>>, <<Chunk(<<"1">>), Chunk(<<>>), Chunk(<<"0", "2">>)>>,
            <<Chunk(<<"1", "1">>), Broken>>, <<Broken>>, <<Chunk(<<"2">>), Text, Chunk(<<"2">>)>>}
UploadsHere == {[type |-> "ReadableStream", chunks |-> s] : s \in Sources}
               \cup {[type |-> "string", data |-> <<>>], [type |-> "Uint8Array", data |-> <<"1", "2">>],
                     [type |-> "ArrayBuffer", data |-> <<"0">>], [type |-> "Blob", data |-> <<"1">>]}
Uploads ==
  {Call("GET", u, f, Resp("u"), "fin") :
     u \in UploadsHere,
     f \in {{}, {"host", "content-length"}, {"transfer-encoding", "other"}, {"injected"}}}

CallsHere ==
  Downloads \cup Uploads
    \cup {[Get(Resp("n"), "fin") EXCEPT !.valid = FALSE],
          [Get(Resp("n"), "fin") EXCEPT !.https = TRUE]}
=============================================================================
