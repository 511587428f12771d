---------------------------- MODULE MCMastermind ----------------------------
(***************************************************************************)
(* Instances of Mastermind for TLC: two codes, of which the second uses a  *)
(* colour that only the wider of the two colour ranges allows.             *)
(***************************************************************************)
EXTENDS MastermindDoc, TLC

CONSTANTS low, high

MCHighest == low :> 4 @@ high :> 5

\* Callers that are alike, the files that are shared with their sharers apart.
Alike(S) == Permutations(S \cap Sole)
Symmetry == Alike(Maker) \cup Alike(Breaker)

\* All but ret: no step and none of the properties of the runs that use this
\* view depends on what the last call returned.
ButReturns == <<round, bufs, counts, data, pc, asleep>>

\* Files with a second caller: a Codemaker's, a Codebreaker's, and both.
CONSTANTS m1, b1, mson, bson
MakerShared == mson :> m1
BreakerShared == bson :> b1
BothShared == MakerShared @@ BreakerShared
=============================================================================
