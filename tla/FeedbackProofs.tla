--------------------------- MODULE FeedbackProofs ---------------------------
(***************************************************************************)
(* generateFeedback stays within its buffer and recognises the password,   *)
(* whatever the colours are.                                               *)
(***************************************************************************)
EXTENDS Feedback, FiniteSetTheorems, TLAPS

\* Why it stays within the buffer: it writes one mark for each peg of the code
\* that it pairs, and pairs none twice.
Inv ==
    /\ TypeOK
    /\ pc \in {"same", "pair"} => /\ Len(resultBuf) = Cardinality(codeBufPaired)
                                  /\ result = 0
    /\ pc = "same" => codeBufPaired = {p \in Right : p < i}
    /\ pc = "pair" => guessBuf # codeBuf
    /\ pc = "done" => /\ Len(resultBuf) = 4
                      /\ result = 1 <=> guessBuf = codeBuf

LEMMA Positions ==
    ASSUME NEW S \in SUBSET Position
    PROVE  /\ IsFiniteSet(S) /\ Cardinality(S) \in 0..4
           /\ Cardinality(S) = 4 <=> S = Position
<1>1. IsFiniteSet(0..3) /\ Cardinality(0..3) = 4
  <2>1. /\ IsFiniteSet(0..3)
        /\ Cardinality(0..3) = IF 0 > 3 THEN 0 ELSE 3 - 0 + 1
    <3>1. 0 \in Int /\ 3 \in Int
      OBVIOUS
    <3> QED
      BY <3>1, FS_Interval, Zenon
  <2> QED
    BY <2>1
<1>2. /\ IsFiniteSet(S) /\ Cardinality(S) <= Cardinality(0..3)
      /\ Cardinality(S) = Cardinality(0..3) => S = 0..3
  BY <1>1, FS_Subset DEF Position
<1>3. Cardinality(S) \in Nat
  BY <1>2, FS_CardinalityType
<1> QED
  BY <1>1, <1>2, <1>3 DEF Position

LEMMA Zeros ==
    ASSUME NEW n \in Nat
    PROVE  /\ [k \in 1..n |-> 0] \in Seq(0..2)
           /\ Len([k \in 1..n |-> 0]) = n
  OBVIOUS

LEMMA InvInit == Init => Inv
<1> SUFFICES ASSUME Init PROVE Inv
  OBVIOUS
<1>1. {p \in Right : p < i} = {}
  BY DEF Init, Right, Position
<1> QED
  BY <1>1, FS_EmptySet DEF Init, Inv, TypeOK

\* A new mark for a peg of the code that was not paired.
LEMMA MarkOne ==
    ASSUME TypeOK, Len(resultBuf) = Cardinality(codeBufPaired),
           NEW g \in Position, NEW c \in Position, c \notin codeBufPaired,
           NEW v \in 0..2, Mark(g, c, v)
    PROVE  /\ resultBuf' \in Seq(0..2)
           /\ guessBufPaired' \subseteq Position /\ codeBufPaired' \subseteq Position
           /\ Len(resultBuf') = Cardinality(codeBufPaired')
<1>1. Len(resultBuf') = Len(resultBuf) + 1 /\ resultBuf' \in Seq(0..2)
  BY DEF TypeOK, Mark
<1>2. Cardinality(codeBufPaired') = Cardinality(codeBufPaired) + 1
  BY Positions, FS_AddElement DEF TypeOK, Mark
<1> QED
  BY <1>1, <1>2 DEF TypeOK, Mark

LEMMA InvStep == Inv /\ [Next]_vars => Inv'
<1> SUFFICES ASSUME Inv, [Next]_vars PROVE Inv'
  OBVIOUS
<1>0. TypeOK /\ Right \subseteq Position
  BY DEF Inv, Right
<1>1. CASE UNCHANGED vars
  BY <1>1 DEF Inv, TypeOK, Right, vars, paired
<1>2. CASE Same
  <2>1. i \in Position /\ i + 1 \in 0..4 /\ i' = i + 1
    BY <1>0, <1>2 DEF Same, TypeOK, Position
  <2>2. UNCHANGED Right
    BY <1>2 DEF Same, Right
  <2>3. CASE guessBuf[i] = codeBuf[i] /\ Mark(i, i, 2)
    <3>1. i \notin codeBufPaired
      BY <1>2, <2>1 DEF Same, Inv, Position
    <3>2. codeBufPaired' = {p \in Right : p < i + 1}
      BY <1>2, <2>1, <2>3 DEF Same, Mark, Inv, Right, Position
    <3>3. /\ resultBuf' \in Seq(0..2)
          /\ guessBufPaired' \subseteq Position /\ codeBufPaired' \subseteq Position
          /\ Len(resultBuf') = Cardinality(codeBufPaired')
      BY <1>0, <1>2, <2>1, <2>3, <3>1, MarkOne DEF Same, Inv
    <3> QED
      BY <1>2, <2>1, <2>2, <3>2, <3>3 DEF Same, Inv, TypeOK
  <2>4. CASE guessBuf[i] # codeBuf[i] /\ UNCHANGED <<resultBuf, paired>>
    <3>1. codeBufPaired' = {p \in Right : p < i + 1}
      BY <1>2, <2>1, <2>4 DEF Same, Inv, Right, Position, paired
    <3> QED
      BY <1>2, <2>1, <2>2, <2>4, <3>1 DEF Same, Inv, TypeOK, paired
  <2> QED
    BY <1>2, <2>3, <2>4 DEF Same
<1>3. CASE SameDone
  <2>1. codeBufPaired = Right /\ Len(resultBuf) = Cardinality(Right) /\ result = 0
    <3>1. /\ codeBufPaired = {p \in Right : p < 4} /\ result = 0
          /\ Len(resultBuf) = Cardinality(codeBufPaired)
      BY <1>3 DEF SameDone, Inv
    <3>2. \A p \in Right : p < 4
      BY <1>0 DEF Position
    <3>3. {p \in Right : p < 4} = Right
      BY <3>2, Zenon
    <3> QED
      BY <3>1, <3>3
  <2>2. Cardinality(Right) = 4 <=> Right = Position
    BY <1>0, Positions
  <2>3. Right = Position <=> guessBuf = codeBuf
    BY <1>0 DEF Right, TypeOK
  <2>4. AllSame <=> guessBuf = codeBuf
    BY <2>1, <2>2, <2>3 DEF AllSame
  <2> QED
    BY <1>3, <2>1, <2>4 DEF SameDone, AllSame, Inv, TypeOK, paired
<1>4. CASE Pair
  <2>1. i \in Position /\ j \in Position /\ j + 1 \in 0..4 /\ j' = j + 1
    BY <1>0, <1>4 DEF Pair, TypeOK, Position
  <2>2. CASE Pairs /\ Mark(i, j, 1)
    <3>1. /\ resultBuf' \in Seq(0..2)
          /\ guessBufPaired' \subseteq Position /\ codeBufPaired' \subseteq Position
          /\ Len(resultBuf') = Cardinality(codeBufPaired')
      BY <1>0, <1>4, <2>1, <2>2, MarkOne DEF Pair, Pairs, Inv
    <3> QED
      BY <1>4, <2>1, <3>1 DEF Pair, Inv, TypeOK
  <2>3. CASE UNCHANGED <<resultBuf, paired>>
    BY <1>4, <2>1, <2>3 DEF Pair, Inv, TypeOK, paired
  <2> QED
    BY <1>4, <2>2, <2>3 DEF Pair
<1>5. CASE NextPeg
  <2>1. i' \in 0..4 /\ j' \in 0..4
    BY <1>0, <1>5 DEF NextPeg, TypeOK
  <2> QED
    BY <1>5, <2>1 DEF NextPeg, Inv, TypeOK, paired
<1>6. CASE Pad
  <2> DEFINE zeros == [k \in 1..(4 - Len(resultBuf)) |-> 0]
  <2>1. Len(resultBuf) \in 0..4
    BY <1>0, <1>6, Positions DEF Pad, Inv, TypeOK
  <2>2. zeros \in Seq(0..2) /\ Len(zeros) = 4 - Len(resultBuf)
    <3>1. \A n \in 0..4 : 4 - n \in Nat
      OBVIOUS
    <3>2. 4 - Len(resultBuf) \in Nat
      BY <2>1, <3>1, Zenon
    <3> QED
      BY <3>2, Zeros, Zenon
  <2>3. resultBuf' = resultBuf \o zeros
    BY <1>6 DEF Pad
  <2> HIDE DEF zeros
  <2>4. resultBuf' \in Seq(0..2) /\ Len(resultBuf') = 4
    BY <1>0, <2>1, <2>2, <2>3 DEF TypeOK
  <2>5. /\ pc' = "done" /\ result' = 0 /\ guessBuf' # codeBuf'
    BY <1>6 DEF Pad, Inv
  <2>6. TypeOK'
    BY <1>0, <1>6, <2>4, <2>5 DEF Pad, TypeOK, paired
  <2> QED
    BY <2>4, <2>5, <2>6 DEF Inv
<1> QED
  BY <1>1, <1>2, <1>3, <1>4, <1>5, <1>6 DEF Next

\* Marks, positions and indices stay in their ranges.
THEOREM FeedbackTypes == Spec => []TypeOK
<1>1. Inv => TypeOK
  BY DEF Inv
<1> QED
  BY <1>1, InvInit, InvStep, PTL DEF Spec

\* generateFeedback never writes beyond four marks, whatever the colours.
THEOREM FeedbackFits == Spec => []ResultFits
<1>1. Inv => ResultFits
  <2> SUFFICES ASSUME Inv PROVE ResultFits
    OBVIOUS
  <2>1. CASE pc = "done"
    <3>1. Len(resultBuf) = 4
      BY <2>1, Zenon DEF Inv
    <3> QED
      BY <3>1 DEF ResultFits
  <2>2. CASE pc # "done"
    <3>1. codeBufPaired \in SUBSET Position
      BY DEF Inv, TypeOK
    <3>2. Cardinality(codeBufPaired) \in 0..4
      BY <3>1, Positions
    <3>3. Len(resultBuf) = Cardinality(codeBufPaired)
      BY <2>2 DEF Inv, TypeOK
    <3> QED
      BY <3>2, <3>3 DEF ResultFits
  <2> QED
    BY <2>1, <2>2
<1> QED
  BY <1>1, InvInit, InvStep, PTL DEF Spec

\* Its result is 1 exactly for the password: the driver models take it for a
\* comparison of the two codes.
THEOREM FeedbackRecognises == Spec => []WinsIfEqual
<1>1. Inv => WinsIfEqual
  BY DEF Inv, WinsIfEqual
<1> QED
  BY <1>1, InvInit, InvStep, PTL DEF Spec

-----------------------------------------------------------------------------
(* The marks.                                                              *)

\* The pegs of the code that the second loop has paired when it is at i and j.
PairedBefore(m, n) ==
    {c \in Position \ Right :
        \E g \in Position \ Right :
            guessBuf[g] = codeBuf[c] /\ (g < m \/ (g = m /\ c < n))}

MarksInv ==
    /\ pc = "same" =>
          /\ j = 0
          /\ guessBufPaired = {p \in Right : p < i}
          /\ \A k \in 1..Len(resultBuf) : resultBuf[k] = 2
    /\ pc = "pair" =>
          /\ \A p \in Position : p > i \/ (p = i /\ j = 0) =>
                                    (p \in guessBufPaired <=> p \in Right)
          /\ j # 0 => i \notin Right
          /\ codeBufPaired = Right \cup PairedBefore(i, j)
          /\ \A k \in 1..Len(resultBuf) :
                resultBuf[k] = IF k <= Cardinality(Right) THEN 2 ELSE 1
    /\ MarksOfGuess

LEMMA MarksInit == Init => MarksInv
<1> SUFFICES ASSUME Init PROVE MarksInv
  OBVIOUS
<1>1. {p \in Right : p < 0} = {}
  BY DEF Right, Position
<1> QED
  BY <1>1 DEF Init, MarksInv, MarksOfGuess

\* The code and the guess stay, and with them what is said of them alone.
LEMMA CodesStay ==
    ASSUME UNCHANGED <<guessBuf, codeBuf>>
    PROVE  /\ Right' = Right /\ Misplaced' = Misplaced
           /\ \A m, n : PairedBefore(m, n)' = PairedBefore(m, n)
BY DEF Right, Misplaced, PairedBefore

\* A mark is added behind the others.
LEMMA MarkLast ==
    ASSUME resultBuf \in Seq(0..2), NEW g, NEW c, NEW v \in 0..2, Mark(g, c, v)
    PROVE  /\ Len(resultBuf') = Len(resultBuf) + 1
           /\ \A k \in 1..Len(resultBuf) : resultBuf'[k] = resultBuf[k]
           /\ resultBuf'[Len(resultBuf) + 1] = v
BY DEF Mark

LEMMA MarksSame == ASSUME Inv, MarksInv, Same PROVE MarksInv'
<1>1. /\ pc = "same" /\ pc' = "same" /\ j' = 0 /\ i \in 0..3 /\ i' = i + 1
      /\ UNCHANGED <<guessBuf, codeBuf>> /\ resultBuf \in Seq(0..2)
  BY DEF Same, MarksInv, Inv, TypeOK
<1>2. Right' = Right
  BY <1>1, CodesStay
<1>3. CASE guessBuf[i] = codeBuf[i] /\ Mark(i, i, 2)
  <2>1. guessBufPaired' = {p \in Right : p < i + 1}
    BY <1>1, <1>3 DEF Mark, MarksInv, Right, Position
  <2>2. \A k \in 1..Len(resultBuf') : resultBuf'[k] = 2
    BY <1>1, <1>3, MarkLast DEF MarksInv
  <2> QED
    BY <1>1, <1>2, <2>1, <2>2 DEF MarksInv, MarksOfGuess
<1>4. CASE guessBuf[i] # codeBuf[i] /\ UNCHANGED <<resultBuf, paired>>
  <2>1. guessBufPaired' = {p \in Right : p < i + 1}
    BY <1>1, <1>4 DEF paired, MarksInv, Right, Position
  <2> QED
    BY <1>1, <1>2, <1>4, <2>1 DEF MarksInv, MarksOfGuess
<1> QED
  BY <1>3, <1>4 DEF Same

LEMMA MarksSameDone == ASSUME Inv, MarksInv, SameDone PROVE MarksInv'
<1>1. /\ pc = "same" /\ i = 4 /\ j = 0 /\ j' = 0
      /\ UNCHANGED <<guessBuf, codeBuf, resultBuf, paired>>
      /\ resultBuf \in Seq(0..2)
  BY DEF SameDone, MarksInv, Inv, TypeOK
<1>2. Right' = Right /\ Misplaced' = Misplaced /\ Right \subseteq Position
  BY <1>1, CodesStay DEF Right
<1>3. {p \in Right : p < 4} = Right
  <2>1. \A p \in Right : p < 4
    BY <1>2 DEF Position
  <2> QED
    BY <2>1, Zenon
<1>4. codeBufPaired = Right /\ guessBufPaired = Right /\ Len(resultBuf) = Cardinality(Right)
  BY <1>1, <1>3 DEF Inv, MarksInv
<1>5. \A k \in 1..Len(resultBuf) : resultBuf[k] = 2
  BY <1>1 DEF MarksInv
<1>6. Cardinality(Right) \in 0..4
  BY <1>2, Positions
<1>7. CASE AllSame /\ pc' = "done"
  <2>1. Cardinality(Right) = 4 /\ DOMAIN resultBuf = 1..4
    BY <1>1, <1>4, <1>7 DEF AllSame
  <2>2. resultBuf = [k \in 1..4 |-> 2]
    BY <1>1, <1>4, <1>5, <2>1
  <2>3. MarksOfGuess'
    BY <1>1, <1>2, <2>1, <2>2 DEF MarksOfGuess
  <2> QED
    BY <1>7, <2>3 DEF MarksInv
<1>8. CASE pc' = "pair" /\ i' = 0
  <2>1. PairedBefore(0, 0) = {}
    BY DEF PairedBefore, Position
  <2>2. PairedBefore(i, j)' = {}
    BY <1>1, <1>8, <2>1 DEF PairedBefore, Right
  <2> QED
    BY <1>1, <1>2, <1>4, <1>5, <1>6, <1>8, <2>2 DEF MarksInv, MarksOfGuess, paired
<1> QED
  BY <1>7, <1>8 DEF SameDone

LEMMA MarksPair == ASSUME Inv, MarksInv, Pair PROVE MarksInv'
<1>1. /\ pc = "pair" /\ pc' = "pair" /\ i \in Position /\ j \in Position
      /\ i' = i /\ j' = j + 1
      /\ UNCHANGED <<guessBuf, codeBuf>> /\ resultBuf \in Seq(0..2)
  BY DEF Pair, Inv, TypeOK, Position
<1>2. Right' = Right /\ Right \subseteq Position
  BY <1>1, CodesStay DEF Right
<1>3. i \notin Right
  BY <1>1 DEF Pair, MarksInv
<1>4. codeBufPaired = Right \cup PairedBefore(i, j)
  BY <1>1 DEF MarksInv
<1>5. PairedBefore(i, j)' = PairedBefore(i, j + 1)
  BY <1>1, <1>2 DEF PairedBefore
<1>6. PairedBefore(i, j + 1)
         = PairedBefore(i, j) \cup {c \in {j} \ Right : guessBuf[i] = codeBuf[c]}
  BY <1>1, <1>3 DEF PairedBefore, Position
<1>7. CASE Pairs /\ Mark(i, j, 1)
  <2>1. codeBufPaired' = Right \cup PairedBefore(i, j + 1)
    BY <1>4, <1>6, <1>7 DEF Pairs, Mark
  <2>2. \A p \in Position : p > i => (p \in guessBufPaired' <=> p \in Right)
    BY <1>1, <1>7 DEF Mark, MarksInv, Position
  <2>3. Cardinality(Right) \in Nat /\ Cardinality(Right) <= Len(resultBuf)
    <3>1. codeBufPaired \in SUBSET Position /\ Right \subseteq codeBufPaired
      BY <1>4 DEF Inv, TypeOK
    <3>2. /\ IsFiniteSet(codeBufPaired)
          /\ Cardinality(Right) \in 0..4
      BY <1>2, <3>1, Positions
    <3>3. Cardinality(Right) <= Cardinality(codeBufPaired)
      BY <3>1, <3>2, FS_Subset
    <3> QED
      BY <1>1, <3>2, <3>3 DEF Inv
  <2>4. \A k \in 1..Len(resultBuf) :
           resultBuf[k] = IF k <= Cardinality(Right) THEN 2 ELSE 1
    BY <1>1 DEF MarksInv
  <2>5. /\ Len(resultBuf') = Len(resultBuf) + 1
        /\ \A k \in 1..Len(resultBuf) : resultBuf'[k] = resultBuf[k]
        /\ resultBuf'[Len(resultBuf) + 1] = 1
    BY <1>1, <1>7, MarkLast
  <2>6. \A k \in 1..Len(resultBuf') :
           resultBuf'[k] = IF k <= Cardinality(Right) THEN 2 ELSE 1
    BY <1>1, <2>3, <2>4, <2>5
  <2> QED
    BY <1>1, <1>2, <1>3, <1>5, <2>1, <2>2, <2>6 DEF MarksInv, MarksOfGuess, Position
<1>8. CASE ~Pairs /\ UNCHANGED <<resultBuf, paired>>
  <2>1. codeBufPaired' = Right \cup PairedBefore(i, j + 1)
    BY <1>4, <1>6, <1>8 DEF Pairs, paired
  <2>2. \A p \in Position : p > i => (p \in guessBufPaired' <=> p \in Right)
    BY <1>1, <1>8 DEF paired, MarksInv, Position
  <2> QED
    BY <1>1, <1>2, <1>3, <1>5, <1>8, <2>1, <2>2 DEF MarksInv, MarksOfGuess, Position
<1> QED
  BY <1>7, <1>8 DEF Pair

LEMMA MarksNextPeg == ASSUME Inv, MarksInv, NextPeg PROVE MarksInv'
<1>1. /\ pc = "pair" /\ pc' = "pair" /\ i \in Position /\ i' = i + 1 /\ j' = 0
      /\ UNCHANGED <<guessBuf, codeBuf, resultBuf, paired>>
  BY DEF NextPeg, Inv, TypeOK, Position
<1>2. Right' = Right
  BY <1>1, CodesStay
<1>3. j = 4 \/ i \in Right
  BY <1>1 DEF NextPeg, MarksInv
<1>4. PairedBefore(i + 1, 0) = PairedBefore(i, j)
  BY <1>1, <1>3 DEF PairedBefore, Position
<1>5. PairedBefore(i, j)' = PairedBefore(i + 1, 0)
  BY <1>1, <1>2 DEF PairedBefore
<1>6. codeBufPaired' = Right \cup PairedBefore(i + 1, 0)
  BY <1>1, <1>4 DEF MarksInv, paired
<1>7. \A p \in Position : p > i => (p \in guessBufPaired' <=> p \in Right)
  BY <1>1 DEF MarksInv, paired, Position
<1>8. \A p \in Position : p > i + 1 \/ p = i + 1 => p > i
  BY <1>1 DEF Position
<1> QED
  BY <1>1, <1>2, <1>5, <1>6, <1>7, <1>8 DEF MarksInv, MarksOfGuess

LEMMA MarksPad == ASSUME Inv, MarksInv, Pad PROVE MarksInv'
<1> DEFINE zeros == [k \in 1..(4 - Len(resultBuf)) |-> 0]
           n == Len(resultBuf)
           r == Cardinality(Right)
<1>1. /\ pc = "pair" /\ pc' = "done" /\ i = 4 /\ j \in 0..4
      /\ UNCHANGED <<guessBuf, codeBuf>> /\ resultBuf \in Seq(0..2)
      /\ resultBuf' = resultBuf \o zeros
  BY DEF Pad, Inv, TypeOK
<1>2. Right' = Right /\ Misplaced' = Misplaced /\ Right \subseteq Position
  BY <1>1, CodesStay DEF Right
<1>3. PairedBefore(4, j) = Misplaced
  BY <1>1 DEF PairedBefore, Misplaced, Position
<1>4. n = Cardinality(Right \cup Misplaced)
  BY <1>1, <1>3 DEF MarksInv, Inv
<1>5. Misplaced \subseteq Position /\ Right \cap Misplaced = {}
  BY DEF Misplaced
<1>6. /\ IsFiniteSet(Right) /\ IsFiniteSet(Misplaced)
      /\ r \in Nat /\ Cardinality(Misplaced) \in Nat
  BY <1>2, <1>5, Positions
<1>7. n = r + Cardinality(Misplaced)
  <2>1. Cardinality(Right \cup Misplaced)
           = Cardinality(Right) + Cardinality(Misplaced) - Cardinality(Right \cap Misplaced)
    BY <1>6, FS_Union
  <2>2. Cardinality(Right \cap Misplaced) = 0
    BY <1>5, FS_EmptySet
  <2> QED
    BY <1>4, <1>6, <2>1, <2>2
<1>8. n \in 0..4
  <2>1. Right \cup Misplaced \in SUBSET Position
    BY <1>2, <1>5
  <2> QED
    BY <1>4, <2>1, Positions
<1>9. zeros \in Seq(0..2) /\ Len(zeros) = 4 - n /\ \A k \in 1..(4 - n) : zeros[k] = 0
  <2>1. \A m \in 0..4 : 4 - m \in Nat
    OBVIOUS
  <2>2. 4 - n \in Nat
    BY <1>8, <2>1, Zenon
  <2>3. \A m \in Nat : \A k \in 1..m : [l \in 1..m |-> 0][k] = 0
    OBVIOUS
  <2>4. zeros \in Seq(0..2) /\ Len(zeros) = 4 - n
    BY <2>2, Zeros, Zenon
  <2> QED
    BY <2>2, <2>3, <2>4, Zenon
<1>10. \A k \in 1..n : resultBuf[k] = IF k <= r THEN 2 ELSE 1
  BY <1>1 DEF MarksInv
<1> HIDE DEF zeros, r
<1>11. /\ resultBuf' \in Seq(0..2) /\ Len(resultBuf') = 4
       /\ \A k \in 1..4 : resultBuf'[k] = IF k <= n THEN resultBuf[k] ELSE zeros[k - n]
  BY <1>1, <1>8, <1>9
<1>12. \A k \in 1..4 :
          resultBuf'[k] = IF k <= r THEN 2 ELSE IF k <= n THEN 1 ELSE 0
  BY <1>6, <1>7, <1>8, <1>9, <1>10, <1>11
<1>13. resultBuf' = [k \in 1..4 |-> IF k <= r THEN 2 ELSE IF k <= n THEN 1 ELSE 0]
  BY <1>11, <1>12
<1>14. MarksOfGuess'
  BY <1>2, <1>7, <1>13 DEF MarksOfGuess, r
<1> QED
  BY <1>1, <1>14 DEF MarksInv

\* generateFeedback writes the marks that a declarative reading of its loops
\* gives, whatever the colours: also where one peg of the guess has the colour
\* of several of the code.
THEOREM FeedbackMarks == Spec => []MarksOfGuess
<1>1. Inv /\ MarksInv /\ [Next]_vars => MarksInv'
  <2>1. UNCHANGED vars /\ MarksInv => MarksInv'
    BY DEF vars, paired, MarksInv, MarksOfGuess, Right, Misplaced, PairedBefore
  <2> QED
    BY <2>1, MarksSame, MarksSameDone, MarksPair, MarksNextPeg, MarksPad DEF Next
<1>2. MarksInv => MarksOfGuess
  BY DEF MarksInv
<1> QED
  BY <1>1, <1>2, InvInit, InvStep, MarksInit, PTL DEF Spec
=============================================================================
