--------------------------- MODULE MCConsensusSync ---------------------------
(* Two periods; a relay joins in the second.  The forged text has a        *)
(* valid-after and a fresh-until beyond the last period.                   *)
EXTENDS BootstrapRoute

ListedMC == <<{}, {"a"}>>
ForgedMC == {[period |-> 3, until |-> 3, signed |-> FALSE]}
=============================================================================
