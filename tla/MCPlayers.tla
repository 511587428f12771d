------------------------------ MODULE MCPlayers ------------------------------
(***************************************************************************)
(* Instances of Players for TLC: two codes that any colour range allows.   *)
(* Liveness is checked without symmetry.                                   *)
(***************************************************************************)
EXTENDS Players

CONSTANTS right, wrong

MCHighest == [c \in Code |-> 4]
=============================================================================
