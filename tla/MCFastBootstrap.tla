-------------------------- MODULE MCFastBootstrap --------------------------
(* A consensus and two documents more: both are microdescriptors, or one   *)
(* is a certificate in the archive that has certificates, which keeps      *)
(* three starts in reach.  The archive comes whole, cut off at every kind  *)
(* of place, with one damaged header, without a member, in an order of its *)
(* own, and with unreadable documents.                                     *)
EXTENDS FastBootstrap

KeysHere == {"cons", "doc1", "doc2"}

Member(name, docs) ==
  [name |-> name, docs |-> docs, stored |-> TRUE, utf8 |-> TRUE,
   name_len |-> 2, extra_len |-> 1, text_len |-> 3, compressed_size |-> 3]

ConsensusMember == Member("consensus", <<"cons">>)
CertsMember == Member("certs", <<>>)
DescsMember == Member("microdescs", <<"doc1", "doc2">>)
Written == <<ConsensusMember, CertsMember, DescsMember>>
DirectoryLen == 4

Full(members) ==
  LET a == [received |-> 0, members |-> members, zstd |-> "ok"]
  IN [a EXCEPT !.received = StartOf(a, Len(members) + 1) + DirectoryLen]

\* Every kind of place: in a header, between its fields, in a text, between members.
Places == {n \in 0..Full(Written).received : n % 36 \in {0, 1, 29, 30, 33, 35}}
Cut == {[Full(Written) EXCEPT !.received = n] : n \in Places}
Sizes == {0, 5, 39, Width - 40, Width - 1}
Damaged ==
  {Full([Written EXCEPT ![i].compressed_size = n]) : i \in DOMAIN Written, n \in Sizes}
    \cup {Full([Written EXCEPT ![2].stored = FALSE]), Full([Written EXCEPT ![3].utf8 = FALSE]),
          [Full(Written) EXCEPT !.zstd = "broken"]}
Unusual ==
  {Full(<<DescsMember, ConsensusMember>>), Full(<<CertsMember>>),
   Full([Written EXCEPT ![1].docs = <<>>]), Full([Written EXCEPT ![2].docs = <<"garbage">>]),
   Full([Written EXCEPT ![2].docs = <<"doc1", "doc2">>, ![3].docs = <<>>])}

ArchivesHere == Cut \cup Damaged \cup Unusual
=============================================================================
