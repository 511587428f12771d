---------------------------- MODULE MCSingleCore ----------------------------
(***************************************************************************)
(* Instances of SingleCore for TLC, with the codes of MCMastermind and a   *)
(* second caller of a Codebreaker's file.                                  *)
(***************************************************************************)
EXTENDS SingleCore, TLC

CONSTANTS low, high, b1, bson

MCHighest == [c \in Code |-> IF c = low THEN 4 ELSE 5]

BreakerShared == bson :> b1

Symmetry == Permutations(Breaker \cap Sole) \cup Permutations(Maker)

\* All but ret and the scores, on which no step depends and of which no property
\* says more than the type.
ButResults ==
    <<round, bufs, counts, [f \in File |-> <<data[f].turns, data[f].round_id>>],
      pc, asleep>>
=============================================================================
