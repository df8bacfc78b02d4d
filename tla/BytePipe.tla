------------------------------ MODULE BytePipe ------------------------------
(***************************************************************************)
(* What one direction of a stream promises: the bytes that went in come    *)
(* out in order and once; the end is told only after all of them came out; *)
(* a pipe that broke passes nothing more and is never told to have ended.  *)
(***************************************************************************)
EXTENDS Sequences, SequencesExt

VARIABLES put,     \* the bytes that went in
          got,     \* the bytes that came out
          status   \* open, ended or broken

vars == <<put, got, status>>

Init == got = <<>> /\ status = "open"

Put ==
  /\ status # "ended"
  /\ IsStrictPrefix(put, put')
  /\ UNCHANGED <<got, status>>

Get ==
  /\ status = "open"
  /\ IsStrictPrefix(got, got') /\ IsPrefix(got', put)
  /\ UNCHANGED <<put, status>>

End == status = "open" /\ got = put /\ status' = "ended" /\ UNCHANGED <<put, got>>

Break == status = "open" /\ status' = "broken" /\ UNCHANGED <<put, got>>

Next == Put \/ Get \/ End \/ Break

Spec == Init /\ [][Next]_vars
=============================================================================
