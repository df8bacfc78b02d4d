----------------------------- MODULE StoredZip -----------------------------
(***************************************************************************)
(* The reader of the bootstrap archive                                     *)
(* (src/crates/tor-js-wasm/src/fast_bootstrap.rs, parse_stored_zip): it    *)
(* walks from one local header to the next by the sizes they declare.      *)
(*                                                                         *)
(* An archive is what was received: its members with the lengths their     *)
(* headers declare and the length their text really has, and the number of *)
(* bytes that arrived.  Behind the members comes the central directory.    *)
(* InvalidContent stands for InvalidName too.                              *)
(***************************************************************************)
EXTENDS Integers, Sequences, SequencesExt

HeaderLen == 30
Width == 2 ^ 16    \* stands for the 2^32 of a size field and of usize

\* Where a member begins, and how long it is in the archive.
Length(m) == HeaderLen + m.name_len + m.extra_len + m.text_len
StartOf(a, i) ==
  LET start[n \in 1..(Len(a.members) + 1)] ==
        IF n = 1 THEN 0 ELSE start[n - 1] + Length(a.members[n - 1])
  IN start[i]

\* The member whose header is at an offset; none: another signature is there.
HeaderAt(a, offset) == {i \in DOMAIN a.members : StartOf(a, i) = offset}

\* Mutated form of Sum: the offsets are added up in 32 bits.
SumWraps(offset, n) == (offset + n) % Width

\* The offsets are added up in 64 bits.
Sum(offset, n) == offset + n

\* What the walk does at an offset: it ends, or takes a member and goes on.
WalkEnds(status) == [status |-> status, member |-> 0, next |-> -1]
Visit(a, offset) ==
  IF offset + HeaderLen > a.received \/ HeaderAt(a, offset) = {} THEN WalkEnds("ok")
  ELSE LET i == CHOOSE n \in HeaderAt(a, offset) : TRUE
           m == a.members[i]
           data_start == Sum(Sum(offset + HeaderLen, m.name_len), m.extra_len)
           data_end == Sum(data_start, m.compressed_size)
       IN IF ~m.stored THEN WalkEnds("UnsupportedMethod")
          ELSE IF data_end > a.received THEN WalkEnds("Truncated")
          ELSE IF data_end < data_start THEN WalkEnds("panic")
          ELSE IF ~m.utf8 THEN WalkEnds("InvalidContent")
          ELSE [status |-> "ok", member |-> i, next |-> data_end]

\* What parse_stored_zip returns: the members found from the start on, or
\* none and the error.
Parse(a) ==
  LET from[offset \in 0..a.received] ==
        LET here == Visit(a, offset)
            rest == from[here.next]
        IN IF here.next = -1 THEN [status |-> here.status, found |-> {}]
           ELSE IF rest.status # "ok" THEN rest
           ELSE [status |-> "ok", found |-> rest.found \cup {here.member}]
  IN from[0]
=============================================================================
