-------------------------- MODULE MCConcurrentGame --------------------------
(***************************************************************************)
(* Instances of ConcurrentGame for TLC.                                    *)
(***************************************************************************)
EXTENDS ConcurrentGame

MCHighest == [c \in Code |-> 9]
=============================================================================
