--------------------------- MODULE MCKeccakMirror ---------------------------
(* Two objects, two clients that trigger and the poll.                     *)
EXTENDS KeccakMirror

CONSTANTS h1, h2, c1, c2

HashSet == {h1, h2}
ClientSet == {c1, c2}
=============================================================================
