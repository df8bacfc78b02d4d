---------------------------- MODULE MCStorageLock ----------------------------
(* Two clients of one store.                                               *)
EXTENDS StorageLock

CONSTANTS c1, c2

ClientSet == {c1, c2}
=============================================================================
