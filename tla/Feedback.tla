------------------------------ MODULE Feedback ------------------------------
(***************************************************************************)
(* generateFeedback of mastermind.h, one action per iteration of a loop.   *)
(* resultBuf is the part of the buffer that has been written, so that      *)
(* Len(resultBuf) is the code's resultBufIndex; the arrays guessBufPaired  *)
(* and codeBufPaired are the sets of the positions they mark.              *)
(***************************************************************************)
EXTENDS Integers, Sequences, FiniteSets

CONSTANT Colour

VARIABLES
    guessBuf, codeBuf, resultBuf, guessBufPaired, codeBufPaired,
    i, j,
    pc,      \* the loop the function is in, "same" or "pair", or "done"
    result   \* what it returns

paired == <<guessBufPaired, codeBufPaired>>
vars   == <<guessBuf, codeBuf, resultBuf, paired, i, j, pc, result>>

Position == 0..3

Init ==
    /\ guessBuf \in [Position -> Colour] /\ codeBuf \in [Position -> Colour]
    /\ resultBuf = <<>> /\ guessBufPaired = {} /\ codeBufPaired = {}
    /\ i = 0 /\ j = 0
    /\ pc = "same" /\ result = 0

\* The position in place of the mark.                               (mutant)
MarkPosition(g, c, v) ==
    /\ resultBuf' = Append(resultBuf, c)
    /\ guessBufPaired' = guessBufPaired \cup {g}
    /\ codeBufPaired' = codeBufPaired \cup {c}

\* A peg of the guess and a peg of the code are paired, for a mark of v.
Mark(g, c, v) ==
    /\ resultBuf' = Append(resultBuf, v)
    /\ guessBufPaired' = guessBufPaired \cup {g}
    /\ codeBufPaired' = codeBufPaired \cup {c}

\* First loop: the peg that is right where it is.
Same ==
    /\ pc = "same" /\ i < 4
    /\ \/ guessBuf[i] = codeBuf[i] /\ Mark(i, i, 2)
       \/ guessBuf[i] # codeBuf[i] /\ UNCHANGED <<resultBuf, paired>>
    /\ i' = i + 1
    /\ UNCHANGED <<guessBuf, codeBuf, j, pc, result>>

NearlyAll == Len(resultBuf) >= 3                                    \* mutant
AllSame == Len(resultBuf) = 4

SameDone ==
    /\ pc = "same" /\ i = 4
    /\ \/ AllSame /\ pc' = "done" /\ result' = 1 /\ UNCHANGED i
       \/ ~AllSame /\ pc' = "pair" /\ i' = 0 /\ UNCHANGED result
    /\ UNCHANGED <<guessBuf, codeBuf, resultBuf, paired, j>>

SameColour == guessBuf[i] = codeBuf[j]                              \* mutant
FirstOnly ==                                                        \* mutant
    i \notin guessBufPaired /\ j \notin codeBufPaired /\ guessBuf[i] = codeBuf[j]
Pairs == j \notin codeBufPaired /\ guessBuf[i] = codeBuf[j]

\* Second loop.  The outer loop asks whether peg i of the guess is paired, the
\* inner one does not ask again and goes on after it has paired it.
Pair ==
    /\ pc = "pair" /\ i < 4 /\ j < 4
    /\ j = 0 => i \notin guessBufPaired
    /\ \/ Pairs /\ Mark(i, j, 1)
       \/ ~Pairs /\ UNCHANGED <<resultBuf, paired>>
    /\ j' = j + 1
    /\ UNCHANGED <<guessBuf, codeBuf, i, pc, result>>

NextPeg ==
    /\ pc = "pair" /\ i < 4
    /\ j = 4 \/ (j = 0 /\ i \in guessBufPaired)
    /\ i' = i + 1 /\ j' = 0
    /\ UNCHANGED <<guessBuf, codeBuf, resultBuf, paired, pc, result>>

\* Third loop: zeros up to the end of the buffer.
Pad ==
    /\ pc = "pair" /\ i = 4
    /\ resultBuf' = resultBuf \o [k \in 1..(4 - Len(resultBuf)) |-> 0]
    /\ pc' = "done"
    /\ UNCHANGED <<guessBuf, codeBuf, paired, i, j, result>>

Next == Same \/ SameDone \/ Pair \/ NextPeg \/ Pad

Spec == Init /\ [][Next]_vars

-----------------------------------------------------------------------------
\* The type invariant.
TypeOK ==
    /\ guessBuf \in [Position -> Colour] /\ codeBuf \in [Position -> Colour]
    /\ resultBuf \in Seq(0..2)
    /\ guessBufPaired \subseteq Position /\ codeBufPaired \subseteq Position
    /\ i \in 0..4 /\ j \in 0..4
    /\ pc \in {"same", "pair", "done"}
    /\ result \in 0..1

\* No call writes beyond the four marks its callers have room for, although one
\* peg of the guess may be paired with several pegs of the code.
ResultFits == Len(resultBuf) <= 4

\* The result by which the driver awards the round is that of a comparison of
\* guess and password (generateFeedback in module Mastermind).
WinsIfEqual == pc = "done" => (result = 1 <=> guessBuf = codeBuf)

\* The positions in which guess and code agree.
Right == {p \in Position : guessBuf[p] = codeBuf[p]}

\* The pegs of the code that the second loop pairs: all those whose colour is
\* still there in the guess, however few pegs of the guess have it.
Misplaced ==
    {c \in Position \ Right :
        \E g \in Position \ Right : guessBuf[g] = codeBuf[c]}

\* The marks: a 2 for every peg in its place, then a 1 for every other peg of
\* the code whose colour a misplaced peg of the guess has, then zeros.
MarksOfGuess ==
    pc = "done" =>
        resultBuf = [k \in 1..4 |->
            IF k <= Cardinality(Right) THEN 2
            ELSE IF k <= Cardinality(Right) + Cardinality(Misplaced) THEN 1
            ELSE 0]
=============================================================================
