--------------------------- MODULE MCThreadedTest ---------------------------
(***************************************************************************)
(* The instance of ThreadedTest for TLC: the test as it is.                *)
(***************************************************************************)
EXTENDS ThreadedTest

MCHighest == [c \in Code |-> IF c = first THEN 3 ELSE 2]
=============================================================================
