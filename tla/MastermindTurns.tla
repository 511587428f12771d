-------------------------- MODULE MastermindTurns ---------------------------
(***************************************************************************)
(* The turns of the Codebreakers and the counter of those that still play, *)
(* for any numbers of callers, files, codes, turns and rounds.             *)
(***************************************************************************)
EXTENDS MastermindProofs

\* c is in a write that is going to spend a turn.
Holds(c) == pc[c] \in {"wrWait", "gsCopy"}

\* No turn is spent, refilled or thrown away, and no such write begins.
NoTurn ==
    /\ UNCHANGED num_of_codebrakers_playing
    /\ \A b \in Breaker \cap File : data'[b].turns = data[b].turns
    /\ \A c \in Breaker : Holds(c)' => Holds(c)

\* A write works on d: it has just found turns in it, or it did before it slept.
Checked(c, d) == ~Exhausted(d.turns) \/ (Holds(c) /\ d = private_data(c))

\* A handler saves the private data of c's file, perhaps refilled.
Saves(c) ==
    /\ IsOpen(fileOf(c))
    /\ UNCHANGED num_of_codebrakers_playing
    /\ \E d \in {private_data(c), Refreshed(c)} :
           Save(c, d) /\ (Holds(c)' => Checked(c, d))
    /\ \A b \in Breaker \ {c} : Holds(b)' => Holds(b)

\* A guess of c is accepted.
Spends(c) ==
    /\ IsOpen(fileOf(c))
    /\ \E d \in {private_data(c), Refreshed(c)}, g \in Code \cup {Blank} :
           AcceptGuess(c, d, g) /\ Checked(c, d)

\* A refill leaves turns where there were some, and no more than NUM_TURNS.
LEMMA RefreshedTurns ==
    ASSUME TypeOK, NEW c \in Breaker
    PROVE  /\ private_data(c).turns \in Int /\ Refreshed(c).turns \in Int
           /\ Refreshed(c).turns \in {private_data(c).turns, NUM_TURNS}
           /\ private_data(c).turns > 0 => Refreshed(c).turns > 0
<1>1. c \in Caller /\ NUM_TURNS \in Nat \ {0}
  BY ConstantsAssumption, Files
<1>2. private_data(c) \in PrivateData
  BY <1>1, PrivateDataType
<1> QED
  BY <1>1, <1>2 DEF Refreshed, Data, PrivateData

\* The numbers that are kept for a Codebreaker's file.
LEMMA TurnsOf ==
    ASSUME TypeOK, NEW b \in Breaker \cap File
    PROVE  data[b].turns \in Int /\ data[b].round_id \in Nat
BY DEF TypeOK, CallsTypeOK, PrivateData

\* A handler saves the data of one file.
LEMMA SavesOne ==
    ASSUME TypeOK, NEW c \in Caller, NEW d, Save(c, d)
    PROVE  /\ data'[fileOf(c)] = d
           /\ \A b \in File \ {fileOf(c)} : data'[b] = data[b]
BY Files DEF TypeOK, CallsTypeOK, Save

LEMMA OthersStay ==
    ASSUME TypeOK, NEW c \in Caller, NEW l \in Location, Goto(c, l)
    PROVE  /\ \A b \in Caller \ {c} : pc'[b] = pc[b]
           /\ pc'[c] = l
BY DEF TypeOK, CallsTypeOK, Goto

LEMMA TurnStep ==
    ASSUME TypeOK, InOpenFile, [Next]_vars
    PROVE  \/ NoTurn
           \/ \E c \in Caller : Admits(c)
           \/ \E c \in Breaker : Saves(c) \/ Spends(c) \/ BreakerRelease(c)
<1>0. Breaker \subseteq Caller
  BY Files
\* How the smaller parts of the actions move.
<1>1. ASSUME NEW c \in Caller, UNCHANGED <<num_of_codebrakers_playing, data>>,
             \/ UNCHANGED pc
             \/ \E l \in Location \ {"wrWait", "gsCopy"} : Goto(c, l)
      PROVE  NoTurn
  BY <1>0, <1>1, OthersStay DEF NoTurn, Holds
<1>2. ASSUME NEW c \in Breaker, IsOpen(fileOf(c)),
             UNCHANGED num_of_codebrakers_playing,
             NEW d \in {private_data(c), Refreshed(c)}, Save(c, d),
             NEW l \in Location, Goto(c, l),
             l \in {"wrWait", "gsCopy"} => Checked(c, d)
      PROVE  Saves(c)
  <2>1. Holds(c)' => Checked(c, d)
    BY <1>0, <1>2, OthersStay DEF Holds
  <2>2. \A b \in Breaker \ {c} : Holds(b)' => Holds(b)
    BY <1>0, <1>2, OthersStay DEF Holds
  <2> QED
    BY <1>2, <2>1, <2>2 DEF Saves
<1>3. ASSUME NEW c \in Breaker, CopyFeedback(c) \/ TakeFeedback(c)
      PROVE  \E l \in Location \ {"wrWait", "gsCopy"} : Goto(c, l)
  BY <1>3, Names DEF CopyFeedback, TakeFeedback, SleepIn, Return
<1>4. ASSUME NEW c \in Breaker, IsOpen(fileOf(c)),
             NEW d \in {private_data(c), Refreshed(c)}, Checked(c, d),
             CopyGuess(c, d) \/ WriteGuess(c, d)
      PROVE  Saves(c) \/ Spends(c)
  <2>1. ASSUME NEW g, RejectGuess(c, d, g) PROVE Saves(c)
    BY <1>2, <1>4, <2>1, Names DEF RejectGuess, Return, counts
  <2>2. CASE SleepIn(c, "gsCopy") /\ Save(c, d) /\ UNCHANGED counts
    BY <1>2, <1>4, <2>2, Names DEF SleepIn, counts
  <2>3. ASSUME NEW g \in Code \cup {Blank}, AcceptGuess(c, d, g) PROVE Spends(c)
    BY <1>4, <2>3 DEF Spends
  <2>4. guessBuf \in Code \cup {Blank}
    BY DEF TypeOK
  <2>5. WriteGuess(c, d) => Saves(c) \/ Spends(c)
    BY <2>1, <2>3, <2>4 DEF WriteGuess
  <2> QED
    BY <1>4, <2>2, <2>5 DEF CopyGuess
\* A call is made on an open file.
<1>a. ASSUME NEW c \in Caller,
             Ready(c) \/ \E l \in {"rdWait", "wrWait", "gsCopy", "rdCopy"} : At(c, l)
      PROVE  IsOpen(fileOf(c))
  BY <1>a DEF Ready, InOpenFile, InCall, At
<1> USE DEF Return, counts
\* The actions.
<1>5. ASSUME NEW c \in Caller, Open(c) \/ OpenAllocated(c)
      PROVE  NoTurn \/ Admits(c)
  <2>1. CASE UNCHANGED <<counts, data, pc>>
    BY <1>1, <2>1
  <2>2. CASE SleepIn(c, "opening") /\ UNCHANGED <<counts, data>>
    BY <1>1, <2>2, Names DEF SleepIn
  <2> QED
    BY <1>5, <2>1, <2>2 DEF Open, OpenAllocated, Admits
<1>6. ASSUME NEW c \in Caller, MakerRelease(c) PROVE NoTurn
  <2>1. c \in Maker /\ Goto(c, "closed") /\ Save(c, NoData)
    BY <1>6 DEF MakerRelease, Gone
  <2>2. \A b \in Breaker \cap File : data'[b] = data[b]
    BY <2>1, Files, SavesOne
  <2>3. \A b \in Breaker : pc'[b] = pc[b]
    BY <2>1, Files, Names, OthersStay
  <2> QED
    BY <1>6, <2>2, <2>3 DEF NoTurn, Holds, MakerRelease
<1>7. ASSUME NEW c \in Caller, MakerRead(c) \/ MakerReadWoken(c) PROVE NoTurn
  BY <1>1, <1>7, Names DEF MakerRead, MakerReadWoken, CopyOut, SleepOn
<1>8. ASSUME NEW c \in Caller, BreakerRead(c)
      PROVE  NoTurn \/ (c \in Breaker /\ Saves(c))
  <2>1. c \in Breaker /\ IsOpen(fileOf(c))
    BY <1>8, <1>a DEF BreakerRead
  <2>2. \E l \in Location \ {"wrWait", "gsCopy"} : Goto(c, l)
    BY <1>3, <1>8, <2>1, Names DEF BreakerRead, SleepOn
  <2>3. UNCHANGED num_of_codebrakers_playing
    BY <1>8 DEF BreakerRead
  <2>4. CASE UNCHANGED data
    BY <1>1, <2>2, <2>3, <2>4
  <2>5. CASE Save(c, Refreshed(c))
    BY <1>2, <2>1, <2>2, <2>3, <2>5
  <2> QED
    BY <1>8, <2>1, <2>4, <2>5 DEF BreakerRead
<1>9. ASSUME NEW c \in Caller, BreakerReadWoken(c) \/ BreakerReadCopied(c)
      PROVE  NoTurn
  <2>1. \E l \in Location \ {"wrWait", "gsCopy"} : Goto(c, l)
    BY <1>3, <1>9, Names DEF BreakerReadWoken, BreakerReadCopied
  <2> QED
    BY <1>1, <1>9, <2>1 DEF BreakerReadWoken, BreakerReadCopied
<1>10. ASSUME NEW c \in Caller, SetPassword(c), UNCHANGED counts PROVE NoTurn
  BY <1>1, <1>10, Names DEF SetPassword
<1>11. ASSUME NEW c \in Caller, NEW won, UNCHANGED num_of_codebrakers_playing,
              Goto(c, "idle"), Save(c, Scored(private_data(c), won))
       PROVE  NoTurn
  <2>1. \A b \in Breaker \cap File : data'[b].turns = data[b].turns
    BY <1>11, SavesOne DEF Scored, Data, private_data
  <2> QED
    BY <1>0, <1>11, <2>1, OthersStay, Names DEF NoTurn, Holds
<1>12. ASSUME NEW c \in Caller, MakerWrite(c) \/ MakerWriteCopied(c) PROVE NoTurn
  <2>1. SetFeedback(c) /\ UNCHANGED counts => NoTurn
    BY <1>11 DEF SetFeedback
  <2>2. CASE MakerWrite(c)
    BY <1>1, <1>10, <2>1, <2>2, Names DEF MakerWrite, SleepIn
  <2>3. CASE MakerWriteCopied(c)
    BY <1>1, <1>10, <2>1, <2>3, Names DEF MakerWriteCopied, SpoilPassword
  <2> QED
    BY <1>12, <2>2, <2>3
<1>13. ASSUME NEW c \in Caller, BreakerWrite(c)
       PROVE  NoTurn \/ (c \in Breaker /\ (Saves(c) \/ Spends(c)))
  <2>1. c \in Breaker /\ IsOpen(fileOf(c))
    BY <1>13, <1>a DEF BreakerWrite
  <2>2. CASE UNCHANGED <<counts, data>> /\ Goto(c, "idle")
    BY <1>1, <2>2, Names
  <2>3. CASE UNCHANGED counts /\ Save(c, Refreshed(c)) /\ Goto(c, "idle")
    BY <1>2, <2>1, <2>3, Names
  <2>4. CASE /\ UNCHANGED counts /\ Save(c, Refreshed(c))
             /\ SleepOn(c, "wrWait") /\ ~Exhausted(Refreshed(c).turns)
    BY <1>2, <2>1, <2>4, Names DEF SleepOn, Checked
  <2>5. CASE CopyGuess(c, Refreshed(c)) /\ ~Exhausted(Refreshed(c).turns)
    BY <1>4, <2>1, <2>5 DEF Checked
  <2> QED
    BY <1>13, <2>1, <2>2, <2>3, <2>4, <2>5 DEF BreakerWrite
<1>14. ASSUME NEW c \in Caller, BreakerWriteWoken(c) \/ BreakerWriteCopied(c)
       PROVE  NoTurn \/ (c \in Breaker /\ (Saves(c) \/ Spends(c)))
  <2>1. /\ c \in Breaker /\ IsOpen(fileOf(c))
        /\ Checked(c, private_data(c))
    BY <1>14, <1>a
    DEF BreakerWriteWoken, BreakerWriteCopied, Woken, At, Checked, Holds
  <2>2. CASE UNCHANGED <<counts, data>> /\ Goto(c, "idle")
    BY <1>1, <2>2, Names
  <2> QED
    BY <1>4, <1>14, <2>1, <2>2 DEF BreakerWriteWoken, BreakerWriteCopied, SpoilGuess
<1>15. ASSUME NEW c \in Caller, SleepAgain(c) \/ Signal(c) PROVE NoTurn
  BY <1>1, <1>15, Names DEF SleepAgain, Signal
<1>16. ASSUME NEW c \in Caller, NEW arg \in Arg, RoundStart(c, arg) PROVE NoTurn
  BY <1>1, <1>16, Names DEF RoundStart
<1>17. ASSUME NEW c \in Caller, GetMyScore(c) PROVE NoTurn
  BY <1>11, <1>17 DEF GetMyScore
<1>18. CASE UNCHANGED vars
  BY <1>18 DEF vars, NoTurn, Holds
<1>19. ASSUME NEW c \in Caller, BreakerRelease(c) PROVE c \in Breaker
  BY <1>19 DEF BreakerRelease
<1>20. CASE Next
  BY <1>5, <1>6, <1>7, <1>8, <1>9, <1>12, <1>13, <1>14, <1>15, <1>16, <1>17,
     <1>19, <1>20, Zenon DEF Next
<1> QED
  BY <1>18, <1>20, Zenon

\* Turns stay in their range; the write of a Codebreaker whose file nobody shares
\* has the turn it is going to spend, once it has passed the check of the turns,
\* however long it sleeps.
THEOREM TurnsInHand == Spec => []TurnInHand
<1>1. Init => TurnInHand
  <2> SUFFICES ASSUME Init PROVE TurnInHand
    OBVIOUS
  <2>1. \A b \in File : data[b].turns = 0 /\ pc[b] = "closed"
    BY Files DEF Init, CallsInit, NoData, Data, File
  <2> QED
    BY <2>1, Files, ConstantsAssumption DEF TurnInHand
<1>2. TypeOK /\ InOpenFile /\ TurnInHand /\ [Next]_vars => TurnInHand'
  <2> SUFFICES ASSUME TypeOK, InOpenFile, TurnInHand, [Next]_vars,
                      NEW b \in Breaker \cap File
               PROVE  /\ data'[b].turns <= NUM_TURNS
                      /\ b \in Sole => /\ data'[b].turns >= 0
                                       /\ Holds(b)' => data'[b].turns > 0
    BY Files DEF TurnInHand, Holds
  <2>0. /\ data[b].turns \in Int /\ data[b].turns <= NUM_TURNS
        /\ b \in Sole => /\ data[b].turns >= 0
                         /\ Holds(b) => data[b].turns > 0
        /\ NUM_TURNS \in Nat \ {0}
    BY TurnsOf, ConstantsAssumption DEF TurnInHand, Holds
  <2> DEFINE Good == /\ data'[b].turns <= NUM_TURNS
                     /\ b \in Sole => /\ data'[b].turns >= 0
                                      /\ Holds(b)' => data'[b].turns > 0
  <2>1. ASSUME data'[b].turns = data[b].turns, b \in Sole => (Holds(b)' => Holds(b))
        PROVE  Good
    BY <2>0, <2>1
  <2>2. CASE NoTurn
    BY <2>1, <2>2 DEF NoTurn
  <2>3. ASSUME NEW c \in Caller, fileOf(c) # b, NEW d, Save(c, d)
        PROVE  data'[b] = data[b] /\ c # b
    BY <2>3, SavesOne, Files
  <2>4. ASSUME NEW c \in Caller, c # b, NEW l \in Location, Goto(c, l)
        PROVE  Holds(b)' => Holds(b)
    BY <2>4, Files, OthersStay DEF Holds
  <2>5. ASSUME NEW c \in Caller, NEW d, Save(c, d), Goto(c, "idle") \/ Goto(c, "closed"),
               d.turns \in 0..NUM_TURNS
        PROVE  Good
    <3>1. CASE fileOf(c) # b
      BY <2>1, <2>3, <2>4, <2>5, <3>1, Names
    <3>2. CASE fileOf(c) = b
      <4>1. data'[b].turns \in 0..NUM_TURNS
        BY <2>5, <3>2, SavesOne
      <4>2. b \in Sole => c = b
        BY <3>2, Files
      <4>3. c = b => ~Holds(b)'
        BY <2>5, Names, OthersStay DEF Holds
      <4> QED
        BY <2>0, <4>1, <4>2, <4>3
    <3> QED
      BY <3>1, <3>2
  <2>6. ASSUME NEW c \in Caller, Admits(c) PROVE Good
    <3>1. Save(c, Fresh(c)) /\ Goto(c, "idle")
      BY <2>6 DEF Admits, Enrol, Return
    <3>2. Fresh(c).turns \in 0..NUM_TURNS
      BY <2>0 DEF Fresh, Data
    <3> QED
      BY <2>5, <3>1, <3>2
  <2>7. ASSUME NEW c \in Breaker, BreakerRelease(c) PROVE Good
    <3>1. Save(c, NoData) /\ Goto(c, "closed")
      BY <2>7 DEF BreakerRelease, Gone
    <3>2. NoData.turns \in 0..NUM_TURNS
      BY <2>0 DEF NoData, Data
    <3> QED
      BY <2>5, <3>1, <3>2, Files
  \* What a handler of b's file finds there.
  <2>8. ASSUME NEW c \in Breaker, fileOf(c) = b,
               NEW d \in {private_data(c), Refreshed(c)}
        PROVE  /\ d.turns \in Int /\ d.turns <= NUM_TURNS
               /\ b \in Sole => d.turns >= 0 /\ c = b
               /\ b \in Sole /\ Checked(c, d) => d.turns > 0
    <3>1. private_data(c) = data[b]
      BY <2>8 DEF private_data
    <3>2. d.turns \in {data[b].turns, NUM_TURNS}
      BY <2>8, <3>1, RefreshedTurns
    <3>3. b \in Sole => c = b
      BY <2>8, Files
    <3> QED
      BY <2>0, <3>1, <3>2, <3>3 DEF Checked, Exhausted
  <2>9. ASSUME NEW c \in Breaker, Saves(c) PROVE Good
    <3>1. PICK d \in {private_data(c), Refreshed(c)} :
            Save(c, d) /\ (Holds(c)' => Checked(c, d))
      BY <2>9 DEF Saves
    <3>2. CASE fileOf(c) = b
      <4>1. data'[b] = d
        BY <3>1, <3>2, SavesOne, Files
      <4> QED
        BY <2>8, <3>1, <3>2, <4>1
    <3>3. CASE fileOf(c) # b
      <4>1. data'[b] = data[b] /\ c # b
        BY <2>3, <3>1, <3>3, Files
      <4>2. Holds(b)' => Holds(b)
        BY <2>9, <4>1 DEF Saves
      <4> QED
        BY <2>1, <4>1, <4>2
    <3> QED
      BY <3>2, <3>3
  <2>10. ASSUME NEW c \in Breaker, Spends(c) PROVE Good
    <3>1. PICK d \in {private_data(c), Refreshed(c)}, g \in Code \cup {Blank} :
            AcceptGuess(c, d, g) /\ Checked(c, d)
      BY <2>10 DEF Spends
    <3>2. PICK won : Save(c, Scored(Data(d.turns - 1, d.score, d.round_id), won))
      BY <3>1 DEF AcceptGuess
    <3>3. Goto(c, "idle")
      BY <3>1 DEF AcceptGuess, Return
    <3>4. CASE fileOf(c) = b
      <4>1. data'[b].turns = d.turns - 1
        BY <3>2, <3>4, SavesOne, Files DEF Scored, Data
      <4>2. pc'[c] = "idle"
        BY <3>3, Names, OthersStay, Files
      <4>3. /\ d.turns \in Int /\ d.turns <= NUM_TURNS
            /\ b \in Sole => c = b /\ d.turns > 0
        BY <2>8, <3>1, <3>4
      <4>4. b \in Sole => ~Holds(b)'
        BY <4>2, <4>3 DEF Holds
      <4> QED
        BY <2>0, <4>1, <4>3, <4>4
    <3>5. CASE fileOf(c) # b
      BY <2>1, <2>3, <2>4, <3>2, <3>3, <3>5, Names, Files
    <3> QED
      BY <3>4, <3>5
  <2> QED
    BY <2>2, <2>6, <2>7, <2>9, <2>10, TurnStep
<1> QED
  BY <1>1, <1>2, TypeCorrect, AlwaysInOpenFile, PTL DEF Spec

-----------------------------------------------------------------------------
(* The counter of those that still play.                                   *)

LEMMA LiveFinite ==
    /\ IsFiniteSet(Live) /\ Cardinality(Live) \in Nat
    /\ \A S \in SUBSET Breaker : IsFiniteSet(S) /\ Cardinality(S) \in Nat
<1>1. IsFiniteSet(Breaker) /\ Live \subseteq Breaker
  BY ConstantsAssumption DEF Live
<1> QED
  BY <1>1, FS_Subset, FS_CardinalityType

\* More Codebreakers are live after a step that takes no live one away; when it
\* takes f away they are at most one fewer, when it adds f one more.
LEMMA MoreLive ==
    ASSUME Live \subseteq Live'
    PROVE  Cardinality(Live) <= Cardinality(Live')
<1>1. Live' \subseteq Breaker
  BY DEF Live
<1> QED
  BY <1>1, LiveFinite, FS_Subset

LEMMA OneLess ==
    ASSUME NEW f, Live \ {f} \subseteq Live'
    PROVE  Cardinality(Live) - 1 <= Cardinality(Live')
<1>1. Live' \subseteq Breaker /\ Live \ {f} \subseteq Breaker
  BY DEF Live
<1>2. Cardinality(Live \ {f}) <= Cardinality(Live')
  BY <1>1, LiveFinite, FS_Subset
<1>3. Cardinality(Live) - 1 <= Cardinality(Live \ {f})
  BY LiveFinite, FS_RemoveElement
<1> QED
  BY <1>1, <1>2, <1>3, LiveFinite

LEMMA OneMore ==
    ASSUME NEW f, f \notin Live, Live \cup {f} \subseteq Live'
    PROVE  Cardinality(Live) + 1 <= Cardinality(Live')
<1>1. Live' \subseteq Breaker /\ Live \cup {f} \subseteq Breaker
  BY DEF Live
<1>2. Cardinality(Live \cup {f}) <= Cardinality(Live')
  BY <1>1, LiveFinite, FS_Subset
<1>3. Cardinality(Live \cup {f}) = Cardinality(Live) + 1
  BY LiveFinite, FS_AddElement
<1> QED
  BY <1>2, <1>3

\* Who is live after a handler has saved d for c's file.
LEMMA LiveSaved ==
    ASSUME TypeOK, NEW c \in Breaker, NEW d, Save(c, d)
    PROVE  /\ Live' \ {fileOf(c)} = Live \ {fileOf(c)}
           /\ fileOf(c) \in Live' <=> d.turns > 0
           /\ fileOf(c) \in Live <=> private_data(c).turns > 0
<1>1. c \in Caller /\ fileOf(c) \in Breaker \cap File
  BY Files
<1> QED
  BY <1>1, SavesOne DEF Live, private_data

\* A save for a Codemaker's file concerns no Codebreaker.
LEMMA LiveKept ==
    ASSUME TypeOK, NEW c \in Maker, NEW d, Save(c, d)
    PROVE  Live' = Live
<1>1. c \in Caller /\ fileOf(c) \notin Breaker
  BY Files
<1> QED
  BY <1>1, SavesOne DEF Live

\* Only open Codebreakers have turns: a step gives none to another file.
LiveIsOpen == Live \subseteq Enrolled(Breaker)

LEMMA LiveStep ==
    ASSUME TypeOK, InOpenFile, LiveIsOpen, [Next]_vars
    PROVE  LiveIsOpen'
<1> SUFFICES ASSUME NEW b \in Breaker \cap File, b \in Live'
             PROVE  b \in Enrolled(Breaker)'
  BY DEF LiveIsOpen, Live
<1>1. ASSUME NEW c \in Caller, Admits(c), c = b PROVE b \in Enrolled(Breaker)'
  BY <1>1, Names, OthersStay DEF Admits, Enrol, Return, Enrolled, IsOpen
<1>2. b \in Enrolled(Breaker) \/ \E c \in Caller : Admits(c) /\ c = b
  <2>1. CASE NoTurn
    BY <2>1 DEF NoTurn, Live, LiveIsOpen
  <2>2. ASSUME NEW c \in Caller, c \in Maker \/ fileOf(c) # b, NEW d, Save(c, d)
        PROVE  b \in Enrolled(Breaker)
    BY <2>2, Files, LiveSaved, LiveKept DEF LiveIsOpen
  <2>3. ASSUME NEW c \in Caller, Admits(c), c # b PROVE b \in Enrolled(Breaker)
    BY <2>2, <2>3, Files DEF Admits, Enrol
  <2>4. ASSUME NEW c \in Breaker, Saves(c) \/ Spends(c), fileOf(c) = b
        PROVE  b \in Enrolled(Breaker)
    BY <2>4 DEF Saves, Spends, Enrolled
  <2>5. ASSUME NEW c \in Breaker, Saves(c) \/ Spends(c) \/ BreakerRelease(c)
        PROVE  \E d : Save(c, d)
    BY <2>5 DEF Saves, Spends, AcceptGuess, BreakerRelease, Gone
  <2>6. ASSUME NEW c \in Breaker, BreakerRelease(c), fileOf(c) = b PROVE FALSE
    BY <2>6, LiveSaved DEF BreakerRelease, Gone, NoData, Data
  <2> QED
    BY <2>1, <2>2, <2>3, <2>4, <2>5, <2>6, Files, TurnStep
<1>3. CASE b \in Enrolled(Breaker)
  <2>1. CASE Enrolled(Breaker)' = Enrolled(Breaker)
    BY <1>3, <2>1
  <2>2. ASSUME NEW c \in Caller, NEW l \in Location, Goto(c, l), c # b
        PROVE  b \in Enrolled(Breaker)'
    BY <1>3, <2>2, Files, OthersStay DEF Enrolled, IsOpen
  <2>3. ASSUME NEW c \in Caller, Admits(c) \/ MakerRelease(c) \/ BreakerRelease(c)
        PROVE  \E l \in Location : Goto(c, l)
    BY <2>3, Names DEF Admits, Enrol, Return, MakerRelease, BreakerRelease, Gone
  <2>4. ASSUME NEW c \in Caller, MakerRelease(c) PROVE c # b
    BY <2>4, Files DEF MakerRelease
  <2>5. ASSUME NEW c \in Caller, BreakerRelease(c) PROVE c # b
    BY <2>5, Files, LiveSaved DEF BreakerRelease, Gone, NoData, Data
  <2> QED
    BY <1>1, <2>1, <2>2, <2>3, <2>4, <2>5, EnrolStep
<1> QED
  BY <1>1, <1>2, <1>3

\* At first nobody has turns.
LEMMA NoneLiveAtFirst == Init => Live = {} /\ Cardinality(Live) = 0
BY FS_EmptySet DEF Init, CallsInit, Live, NoData, Data

\* What an accepted guess does to the counter and to those that are live.
LEMMA SpendStep ==
    ASSUME TypeOK, NEW c \in Breaker, Spends(c)
    PROVE  /\ Live \ {fileOf(c)} = Live' \ {fileOf(c)}
           /\ num_of_codebrakers_playing' \in
                  {num_of_codebrakers_playing, num_of_codebrakers_playing - 1}
           /\ \E d \in {private_data(c), Refreshed(c)} :
                  /\ fileOf(c) \in Live' <=> d.turns > 1
                  /\ fileOf(c) \in Live => d.turns > 0
                  /\ num_of_codebrakers_playing' = num_of_codebrakers_playing - 1
                         <=> d.turns = 1
<1>1. PICK d \in {private_data(c), Refreshed(c)}, g \in Code \cup {Blank} :
          AcceptGuess(c, d, g)
  BY DEF Spends
<1>2. num_of_codebrakers_playing \in Int /\ d.turns \in Int
  BY RefreshedTurns DEF TypeOK
<1>3. PICK won : Save(c, Scored(Data(d.turns - 1, d.score, d.round_id), won))
  BY <1>1 DEF AcceptGuess
<1>4. /\ Live' \ {fileOf(c)} = Live \ {fileOf(c)}
      /\ fileOf(c) \in Live' <=> d.turns - 1 > 0
      /\ fileOf(c) \in Live <=> private_data(c).turns > 0
  BY <1>3, LiveSaved DEF Scored, Data
<1>5. num_of_codebrakers_playing' =
          num_of_codebrakers_playing - (IF d.turns - 1 = 0 THEN 1 ELSE 0)
  BY <1>1 DEF AcceptGuess, Exhausted
<1>6. fileOf(c) \in Live => d.turns > 0
  BY <1>4, RefreshedTurns
<1>7. fileOf(c) \in Live' <=> d.turns > 1
  BY <1>2, <1>4
<1>8. num_of_codebrakers_playing' = num_of_codebrakers_playing - 1 <=> d.turns = 1
  BY <1>2, <1>5
<1>9. num_of_codebrakers_playing' \in
           {num_of_codebrakers_playing, num_of_codebrakers_playing - 1}
  BY <1>2, <1>5
<1> QED
  BY <1>4, <1>6, <1>7, <1>8, <1>9

\* What a Codebreaker's file that closes takes from both.
LEMMA LeaveStep ==
    ASSUME TypeOK, NEW c \in Breaker, BreakerRelease(c)
    PROVE  /\ Live' = Live \ {c}
           /\ num_of_codebrakers_playing' =
                  num_of_codebrakers_playing - (IF c \in Live THEN 1 ELSE 0)
<1>1. Save(c, NoData) /\ fileOf(c) = c
  BY Files DEF BreakerRelease, Unused, Gone
<1>2. /\ Live' \ {c} = Live \ {c} /\ c \notin Live'
      /\ c \in Live <=> private_data(c).turns > 0
  BY <1>1, LiveSaved DEF NoData, Data
<1>3. private_data(c) = data[c]
  BY <1>1 DEF private_data
<1> QED
  BY <1>2, <1>3 DEF BreakerRelease, CanPlay

\* And what one that opens adds.
LEMMA JoinStep ==
    ASSUME TypeOK, LiveIsOpen, NEW c \in Caller, Admits(c)
    PROVE  \/ Live' = Live /\ UNCHANGED num_of_codebrakers_playing
           \/ /\ c \in Breaker /\ c \notin Live /\ Live' = Live \cup {c}
              /\ num_of_codebrakers_playing' = num_of_codebrakers_playing + 1
<1>1. Save(c, Fresh(c)) /\ fileOf(c) = c
  BY Files DEF Admits, Enrol
<1>2. CASE c \in Maker
  BY <1>1, <1>2, LiveKept DEF Admits, Enrol
<1>3. CASE c \notin Maker
  <2>1. c \in Breaker /\ num_of_codebrakers_playing' = num_of_codebrakers_playing + 1
    BY <1>3, Files DEF Admits, Enrol
  <2>2. c \notin Live
    BY DEF Admits, At, LiveIsOpen, Enrolled, IsOpen
  <2>3. Fresh(c).turns > 0
    BY <2>1, ConstantsAssumption DEF Fresh, Data
  <2>4. Live' \ {c} = Live \ {c} /\ c \in Live'
    BY <1>1, <2>1, <2>3, LiveSaved
  <2> QED
    BY <2>1, <2>2, <2>4
<1> QED
  BY <1>2, <1>3

\* The counter never counts more players than there are Codebreakers with turns.
THEOREM PlayingIsBounded == Spec => []PlayingBound
<1>1. Init => LiveIsOpen /\ PlayingBound
  BY NoneLiveAtFirst DEF Init, LiveIsOpen, PlayingBound
<1>2. TypeOK /\ InOpenFile /\ LiveIsOpen /\ PlayingBound /\ [Next]_vars
      => LiveIsOpen' /\ PlayingBound'
  <2> SUFFICES ASSUME TypeOK, InOpenFile, LiveIsOpen, PlayingBound, [Next]_vars
               PROVE  PlayingBound'
    BY LiveStep
  <2>0. /\ num_of_codebrakers_playing \in Int
        /\ num_of_codebrakers_playing <= Cardinality(Live)
        /\ Cardinality(Live) \in Nat /\ Cardinality(Live') \in Nat
    BY LiveFinite DEF TypeOK, PlayingBound, Live
  <2>1. ASSUME Live \subseteq Live',
               num_of_codebrakers_playing' <= num_of_codebrakers_playing,
               num_of_codebrakers_playing' \in Int
        PROVE  PlayingBound'
    BY <2>0, <2>1, MoreLive DEF PlayingBound
  <2>2. CASE NoTurn
    BY <2>0, <2>1, <2>2 DEF NoTurn, Live
  <2>3. ASSUME NEW c \in Caller, Admits(c) PROVE PlayingBound'
    BY <2>0, <2>1, <2>3, JoinStep, OneMore DEF PlayingBound
  <2>4. ASSUME NEW c \in Breaker, Saves(c) PROVE PlayingBound'
    <3>1. PICK d \in {private_data(c), Refreshed(c)} : Save(c, d)
      BY <2>4 DEF Saves
    <3>2. Live \subseteq Live'
      BY <3>1, RefreshedTurns, LiveSaved
    <3> QED
      BY <2>0, <2>1, <2>4, <3>2 DEF Saves
  <2>5. ASSUME NEW c \in Breaker, Live \ {c} \subseteq Live',
               num_of_codebrakers_playing' = num_of_codebrakers_playing - 1
        PROVE  PlayingBound'
    <3>1. Cardinality(Live) - 1 <= Cardinality(Live')
      BY <2>5, OneLess
    <3> QED
      BY <2>0, <2>5, <3>1 DEF PlayingBound
  <2>6. ASSUME NEW c \in Breaker, Spends(c) PROVE PlayingBound'
    <3>1. fileOf(c) \in Breaker
      BY Files
    <3>2. PICK d \in {private_data(c), Refreshed(c)} :
            /\ fileOf(c) \in Live' <=> d.turns > 1
            /\ fileOf(c) \in Live => d.turns > 0
            /\ num_of_codebrakers_playing' = num_of_codebrakers_playing - 1
                   <=> d.turns = 1
      BY <2>6, SpendStep
    <3>3. /\ Live \ {fileOf(c)} = Live' \ {fileOf(c)}
          /\ num_of_codebrakers_playing' \in
                 {num_of_codebrakers_playing, num_of_codebrakers_playing - 1}
          /\ d.turns \in Int
      BY <2>6, SpendStep, RefreshedTurns
    <3>4. CASE d.turns = 1
      BY <2>5, <3>1, <3>2, <3>3, <3>4
    <3>5. CASE d.turns # 1
      <4>1. Live \subseteq Live'
        BY <3>2, <3>3, <3>5
      <4> QED
        BY <2>0, <2>1, <3>2, <3>3, <3>5, <4>1
    <3> QED
      BY <3>4, <3>5
  <2>7. ASSUME NEW c \in Breaker, BreakerRelease(c) PROVE PlayingBound'
    <3>1. CASE c \in Live
      BY <2>5, <2>7, <3>1, LeaveStep
    <3>2. CASE c \notin Live
      BY <2>0, <2>1, <2>7, <3>2, LeaveStep
    <3> QED
      BY <3>1, <3>2
  <2> QED
    BY <2>2, <2>3, <2>4, <2>6, <2>7, TurnStep
<1> QED
  BY <1>1, <1>2, TypeCorrect, AlwaysInOpenFile, PTL DEF Spec

-----------------------------------------------------------------------------
(* The counter is exact up to the end of the first round.                  *)

\* A call on the file b is in a write that is going to spend a turn.
Held(b) == \E c \in Caller : fileOf(c) = b /\ Holds(c)

\* b has no turn left or is about to spend one, so it has been in a round.
Charged(b) == Held(b) \/ (IsOpen(b) /\ data[b].turns <= 0)

\* Nothing that matters of b changes.
Rests(b) ==
    /\ data'[b].turns = data[b].turns /\ data'[b].round_id = data[b].round_id
    /\ Held(b)' => Held(b)
    /\ IsOpen(b)' => IsOpen(b)

\* A call on b sees the round in progress and refills, or goes on with a write.
Plays(b) ==
    \/ in_round /\ data'[b].round_id = round_id
    \/ Held(b) /\ data'[b].round_id = data[b].round_id

\* b is opened or closed.
Changes(b) ==
    /\ ~Held(b)'
    /\ \/ data'[b] = Data(NUM_TURNS, 0, round_id)
       \/ data'[b] = NoData /\ ~IsOpen(b)'

\* A call begins such a write only by going to one of its places.
LEMMA HeldStays ==
    ASSUME TypeOK, NEW b \in File, NEW c \in Caller, NEW l \in Location, Goto(c, l),
           l \in {"wrWait", "gsCopy"} /\ fileOf(c) = b => Holds(c)
    PROVE  Held(b)' => Held(b)
<1> SUFFICES ASSUME NEW e \in Caller, fileOf(e) = b, Holds(e)' PROVE Holds(e)
  BY DEF Held, fileOf
<1> QED
  BY OthersStay DEF Holds

\* Nor does a file open but by open.
LEMMA OpenStays ==
    ASSUME TypeOK, NEW b \in File, NEW c \in Caller, NEW l \in Location, Goto(c, l),
           c = b /\ l \notin {"closed", "opening"} => IsOpen(b)
    PROVE  IsOpen(b)' => IsOpen(b)
BY OthersStay, Files DEF IsOpen

LEMMA PlayStep ==
    ASSUME TypeOK, InOpenFile, [Next]_vars, NEW b \in Breaker \cap File
    PROVE  Rests(b) \/ Plays(b) \/ Changes(b)
<1>1. ASSUME NEW c \in Caller, NEW l \in Location, Goto(c, l), UNCHANGED data,
             fileOf(c) = b => /\ l \in {"wrWait", "gsCopy"} => Holds(c)
                              /\ l \notin {"closed", "opening"} => IsOpen(b)
      PROVE  Rests(b)
  BY <1>1, HeldStays, OpenStays, Files DEF Rests
<1>2. UNCHANGED <<pc, data>> => Rests(b)
  BY DEF Rests, Held, Holds, IsOpen, fileOf
\* A handler of another file that saves its private data.
<1>3. ASSUME NEW c \in Caller, fileOf(c) # b, NEW d, Save(c, d),
             NEW l \in Location, Goto(c, l)
      PROVE  Rests(b)
  <2>1. data'[b] = data[b] /\ c # b
    BY <1>3, SavesOne, Files
  <2> QED
    BY <1>3, <2>1, HeldStays, OpenStays DEF Rests
<1>4. ASSUME NEW c \in Breaker, fileOf(c) = b, Save(c, Refreshed(c)), in_round
      PROVE  Plays(b)
  BY <1>4, SavesOne, Files DEF Refreshed, Data, Plays
<1>5. ASSUME NEW c \in Caller,
             Ready(c) \/ \E l \in {"rdWait", "wrWait", "gsCopy", "rdCopy"} : At(c, l)
      PROVE  IsOpen(fileOf(c))
  BY <1>5 DEF Ready, InOpenFile, InCall, At
<1> USE DEF Return
<1>6. ASSUME NEW c \in Caller, Open(c) \/ OpenAllocated(c)
      PROVE  Rests(b) \/ Changes(b)
  <2>0. c \in File /\ fileOf(c) = c /\ ~IsOpen(c)
    BY <1>6, Files DEF Open, OpenAllocated, At, IsOpen
  <2>1. CASE UNCHANGED <<data, pc>>
    BY <1>2, <2>1
  <2>2. CASE SleepIn(c, "opening") /\ UNCHANGED data
    BY <1>1, <2>2, Names DEF SleepIn
  <2>3. CASE Enrol(c) /\ c # b
    BY <1>3, <2>0, <2>3, Names DEF Enrol
  <2>4. CASE Enrol(c) /\ c = b
    <3>1. ~Held(b)
      BY <2>0, <2>4 DEF Held, Holds, InOpenFile, InCall
    <3>2. ~Held(b)'
      BY <2>4, <3>1, HeldStays, Names DEF Enrol
    <3>3. data'[b] = Data(NUM_TURNS, 0, round_id)
      BY <2>0, <2>4, SavesOne DEF Enrol, Fresh
    <3> QED
      BY <3>2, <3>3 DEF Changes
  <2> QED
    BY <1>6, <2>1, <2>2, <2>3, <2>4 DEF Open, OpenAllocated
<1>7. ASSUME NEW c \in Caller, MakerRelease(c) \/ BreakerRelease(c)
      PROVE  Rests(b) \/ Changes(b)
  <2>1. Save(c, NoData) /\ Goto(c, "closed") /\ Unused(c) /\ fileOf(c) = c
    BY <1>7, Files DEF MakerRelease, BreakerRelease, Gone, Unused
  <2>2. CASE c # b
    BY <1>3, <2>1, <2>2, Names
  <2>3. CASE c = b
    <3>1. ~Held(b)
      BY <2>1, <2>3 DEF Unused, At, Held, Holds
    <3>2. ~Held(b)'
      BY <2>1, <2>3, <3>1, HeldStays, Names
    <3>3. data'[b] = NoData /\ ~IsOpen(b)'
      BY <2>1, <2>3, SavesOne, OthersStay, Names DEF IsOpen
    <3> QED
      BY <3>2, <3>3 DEF Changes
  <2> QED
    BY <2>2, <2>3
<1>8. ASSUME NEW c \in Maker PROVE c \in Caller /\ fileOf(c) # b
  BY Files
<1>9. ASSUME NEW c \in Caller, MakerRead(c) \/ MakerReadWoken(c) PROVE Rests(b)
  BY <1>1, <1>8, <1>9, Names DEF MakerRead, MakerReadWoken, CopyOut, SleepOn
<1>10. ASSUME NEW c \in Caller, MakerWrite(c) \/ MakerWriteCopied(c) PROVE Rests(b)
  <2>1. c \in Maker /\ fileOf(c) # b
    BY <1>8, <1>10 DEF MakerWrite, MakerWriteCopied
  <2>2. SetPassword(c) \/ SetFeedback(c) => Rests(b)
    BY <1>1, <1>3, <2>1, Names DEF SetPassword, SetFeedback
  <2> QED
    BY <1>1, <1>10, <2>1, <2>2, Names
    DEF MakerWrite, MakerWriteCopied, SpoilPassword, SleepIn
<1>11. ASSUME NEW c \in Caller, CopyFeedback(c) \/ TakeFeedback(c)
       PROVE  \E l \in {"idle", "rdCopy"} : Goto(c, l)
  BY <1>11 DEF CopyFeedback, TakeFeedback, SleepIn
<1>12. ASSUME NEW c \in Caller,
              BreakerRead(c) \/ BreakerReadWoken(c) \/ BreakerReadCopied(c)
       PROVE  Rests(b) \/ Plays(b)
  <2>1. PICK l \in {"idle", "rdWait", "rdCopy"} : Goto(c, l)
    BY <1>11, <1>12 DEF BreakerRead, BreakerReadWoken, BreakerReadCopied, SleepOn
  <2>2. c \in Breaker /\ IsOpen(fileOf(c))
    BY <1>5, <1>12 DEF BreakerRead, BreakerReadWoken, BreakerReadCopied, Woken
  <2>3. CASE UNCHANGED data
    BY <1>1, <2>1, <2>2, <2>3, Names
  <2>4. CASE in_round /\ Save(c, Refreshed(c))
    BY <1>3, <1>4, <2>1, <2>2, <2>4, Names
  <2> QED
    BY <1>12, <2>3, <2>4 DEF BreakerRead, BreakerReadWoken, BreakerReadCopied
\* The parts of a Codebreaker's write.
<1>13. ASSUME NEW c \in Breaker, NEW d, CopyGuess(c, d) \/ WriteGuess(c, d)
       PROVE  /\ \E l \in {"idle", "gsCopy"} : Goto(c, l)
              /\ \E e : Save(c, e) /\ e.round_id = d.round_id
  <2>1. ASSUME NEW g, RejectGuess(c, d, g)
        PROVE  Goto(c, "idle") /\ Save(c, d)
    BY <2>1 DEF RejectGuess
  <2>2. ASSUME NEW g, AcceptGuess(c, d, g)
        PROVE  Goto(c, "idle") /\ \E e : Save(c, e) /\ e.round_id = d.round_id
    BY <2>2 DEF AcceptGuess, Scored, Data
  <2>3. CASE SleepIn(c, "gsCopy") /\ Save(c, d)
    BY <2>3 DEF SleepIn
  <2> QED
    BY <1>13, <2>1, <2>2, <2>3 DEF CopyGuess, WriteGuess
<1>14. ASSUME NEW c \in Breaker, NEW d, CopyGuess(c, d) \/ WriteGuess(c, d),
              \/ in_round /\ d = Refreshed(c)
              \/ Holds(c) /\ d = private_data(c)
       PROVE  Rests(b) \/ Plays(b)
  <2>1. PICK e : Save(c, e) /\ e.round_id = d.round_id
    BY <1>13, <1>14
  <2>2. PICK l \in {"idle", "gsCopy"} : Goto(c, l)
    BY <1>13, <1>14
  <2>3. CASE fileOf(c) = b
    <3>1. data'[b].round_id = d.round_id
      BY <2>1, <2>3, SavesOne, Files
    <3>2. Refreshed(c).round_id = round_id
      BY DEF Refreshed, Data
    <3>3. Holds(c) => Held(b)
      BY <2>3, Files DEF Held
    <3> QED
      BY <1>14, <2>3, <3>1, <3>2, <3>3 DEF Plays, private_data
  <2>4. CASE fileOf(c) # b
    BY <1>3, <2>1, <2>2, <2>4, Names, Files
  <2> QED
    BY <2>3, <2>4
<1>15. ASSUME NEW c \in Caller, BreakerWrite(c) PROVE Rests(b) \/ Plays(b)
  <2>1. c \in Breaker /\ IsOpen(fileOf(c))
    BY <1>5, <1>15 DEF BreakerWrite
  <2>2. CASE UNCHANGED data /\ Goto(c, "idle")
    BY <1>1, <2>1, <2>2, Names
  <2>3. ASSUME ~RoundOver, Save(c, Refreshed(c)), NEW l \in Location, Goto(c, l)
        PROVE  Rests(b) \/ Plays(b)
    BY <1>3, <1>4, <2>1, <2>3 DEF RoundOver
  <2>4. CASE ~RoundOver /\ CopyGuess(c, Refreshed(c))
    BY <1>14, <2>1, <2>4 DEF RoundOver
  <2> QED
    BY <1>15, <2>2, <2>3, <2>4, Names DEF BreakerWrite, SleepOn
<1>16. ASSUME NEW c \in Caller, BreakerWriteWoken(c) \/ BreakerWriteCopied(c)
       PROVE  Rests(b) \/ Plays(b)
  <2>1. c \in Breaker /\ Holds(c) /\ IsOpen(fileOf(c))
    BY <1>5, <1>16 DEF BreakerWriteWoken, BreakerWriteCopied, Woken, At, Holds
  <2>2. CASE UNCHANGED data /\ Goto(c, "idle")
    BY <1>1, <2>1, <2>2, Names
  <2> QED
    BY <1>14, <1>16, <2>1, <2>2 DEF BreakerWriteWoken, BreakerWriteCopied, SpoilGuess
<1>17. ASSUME NEW c \in Caller, SleepAgain(c) \/ Signal(c) PROVE Rests(b)
  <2>1. CASE UNCHANGED <<pc, data>>
    BY <1>2, <2>1
  <2>2. CASE Signal(c) /\ Goto(c, "idle")
    <3>1. IsOpen(fileOf(c)) /\ UNCHANGED data
      BY <1>5, <2>2 DEF Signal, Waiting, At
    <3> QED
      BY <1>1, <2>2, <3>1, Names
  <2> QED
    BY <1>17, <2>1, <2>2 DEF SleepAgain, Signal
<1>18. ASSUME NEW c \in Caller, NEW arg \in Arg, RoundStart(c, arg) PROVE Rests(b)
  BY <1>1, <1>5, <1>18, Names DEF RoundStart
<1>19. ASSUME NEW c \in Caller, GetMyScore(c) PROVE Rests(b)
  <2>1. PICK won : Save(c, Scored(private_data(c), won)) /\ Goto(c, "idle")
    BY <1>19 DEF GetMyScore
  <2>2. IsOpen(fileOf(c))
    BY <1>5, <1>19 DEF GetMyScore
  <2>3. CASE fileOf(c) # b
    BY <1>3, <2>1, <2>3, Names
  <2>4. CASE fileOf(c) = b
    <3>1. /\ data'[b].turns = data[b].turns
          /\ data'[b].round_id = data[b].round_id
      BY <2>1, <2>4, SavesOne DEF Scored, Data, private_data
    <3> QED
      BY <2>1, <2>2, <2>4, <3>1, HeldStays, OpenStays, Names DEF Rests
  <2> QED
    BY <2>3, <2>4
<1>20. UNCHANGED vars => Rests(b)
  BY <1>2 DEF vars
<1>21. Next => Rests(b) \/ Plays(b) \/ Changes(b)
  BY <1>6, <1>7, <1>9, <1>10, <1>12, <1>15, <1>16, <1>17, <1>18, <1>19, Zenon
  DEF Next
<1> QED
  BY <1>20, <1>21

\* Rounds are numbered from 1, and only ROUND_START begins one.
LEMMA RoundIdStep ==
    ASSUME TypeOK, [Next]_vars
    PROVE  \/ UNCHANGED round_id /\ (in_round' => in_round)
           \/ round_id' = round_id + 1
<1> DEFINE Same == UNCHANGED round_id /\ (in_round' => in_round)
<1> USE DEF round
<1>1. UNCHANGED round => Same
  OBVIOUS
<1>2. ASSUME NEW c \in Caller, Open(c) \/ OpenAllocated(c) PROVE Same
  BY <1>2 DEF Open, OpenAllocated
<1>3. ASSUME NEW c \in Caller, MakerRelease(c) \/ BreakerRelease(c) PROVE Same
  <2>1. MakerRelease(c) => Same
    BY DEF MakerRelease, ForgetRound
  <2>2. BreakerRelease(c) => Same
    BY DEF BreakerRelease
  <2> QED
    BY <1>3, <2>1, <2>2
<1>4. ASSUME NEW c \in Caller, MakerRead(c) \/ MakerReadWoken(c) PROVE Same
  BY <1>4 DEF MakerRead, MakerReadWoken
<1>5. ASSUME NEW c \in Caller,
             BreakerRead(c) \/ BreakerReadWoken(c) \/ BreakerReadCopied(c)
      PROVE  Same
  <2>1. TakeFeedback(c) => Same
    BY DEF TakeFeedback
  <2> QED
    BY <1>5, <2>1
    DEF BreakerRead, BreakerReadWoken, BreakerReadCopied, CopyFeedback
<1>6. ASSUME NEW c \in Caller, MakerWrite(c) \/ MakerWriteCopied(c) PROVE Same
  <2>1. SetPassword(c) => Same
    BY DEF SetPassword
  <2>2. SetFeedback(c) => Same
    BY DEF SetFeedback
  <2> QED
    BY <1>6, <2>1, <2>2 DEF MakerWrite, MakerWriteCopied, SpoilPassword
<1>7. ASSUME NEW c \in Caller, NEW d, CopyGuess(c, d) \/ WriteGuess(c, d)
      PROVE  Same
  BY <1>7 DEF CopyGuess, WriteGuess, RejectGuess, AcceptGuess
<1>8. ASSUME NEW c \in Caller,
             BreakerWrite(c) \/ BreakerWriteWoken(c) \/ BreakerWriteCopied(c)
      PROVE  Same
  BY <1>7, <1>8 DEF BreakerWrite, BreakerWriteWoken, BreakerWriteCopied, SpoilGuess
<1>9. ASSUME NEW c \in Caller, SleepAgain(c) \/ Signal(c) PROVE Same
  BY <1>9 DEF SleepAgain, Signal
<1>10. ASSUME NEW c \in Caller, GetMyScore(c) PROVE Same
  <2>1. UNCHANGED round_id
    BY <1>10 DEF GetMyScore
  <2>2. in_round' => in_round
    BY <1>10 DEF GetMyScore
  <2> QED
    BY <2>1, <2>2
<1>11. ASSUME NEW c \in Caller, NEW arg \in Arg, RoundStart(c, arg)
       PROVE  Same \/ round_id' = round_id + 1
  BY <1>11 DEF RoundStart
<1>12. UNCHANGED vars => Same
  BY DEF vars
<1> HIDE DEF Same
<1>13. Next => Same \/ round_id' = round_id + 1
  BY <1>2, <1>3, <1>4, <1>5, <1>6, <1>8, <1>9, <1>10, <1>11, Zenon DEF Next
<1> QED
  BY <1>12, <1>13 DEF Same

\* Who has no turn left, or is spending one, belongs to a round that began.
ChargedInRound ==
    /\ in_round => round_id >= 1
    /\ \A b \in Breaker \cap File : /\ data[b].round_id <= round_id
                                    /\ Charged(b) => data[b].round_id >= 1

LEMMA ChargedStep ==
    TypeOK /\ InOpenFile /\ ChargedInRound /\ [Next]_vars => ChargedInRound'
<1> SUFFICES ASSUME TypeOK, InOpenFile, ChargedInRound, [Next]_vars
             PROVE  ChargedInRound'
  OBVIOUS
<1>1. round_id \in Nat /\ round_id' \in {round_id, round_id + 1}
  BY RoundIdStep DEF TypeOK
<1>2. in_round' => round_id' >= 1
  BY <1>1, RoundIdStep DEF ChargedInRound
<1>3. ASSUME NEW b \in Breaker \cap File
      PROVE  /\ data'[b].round_id <= round_id'
             /\ Charged(b)' => data'[b].round_id >= 1
  <2>1. /\ data[b].round_id \in Nat /\ data[b].round_id <= round_id
        /\ Charged(b) => data[b].round_id >= 1
        /\ in_round => round_id >= 1
    BY TurnsOf DEF ChargedInRound
  <2>2. CASE Rests(b)
    <3>1. Charged(b)' => Charged(b)
      BY <2>2 DEF Rests, Charged
    <3> QED
      BY <1>1, <2>1, <2>2, <3>1 DEF Rests
  <2>3. CASE Plays(b)
    <3>1. Held(b) => Charged(b)
      BY DEF Charged
    <3> QED
      BY <1>1, <2>1, <2>3, <3>1 DEF Plays
  <2>4. CASE Changes(b)
    <3>1. CASE data'[b] = Data(NUM_TURNS, 0, round_id) /\ ~Held(b)'
      <4>1. ~Charged(b)'
        BY <3>1, ConstantsAssumption DEF Charged, Data
      <4> QED
        BY <1>1, <3>1, <4>1 DEF Data
    <3>2. CASE data'[b] = NoData /\ ~IsOpen(b)' /\ ~Held(b)'
      <4>1. ~Charged(b)'
        BY <3>2 DEF Charged
      <4> QED
        BY <1>1, <3>2, <4>1 DEF NoData, Data
    <3> QED
      BY <2>4, <3>1, <3>2 DEF Changes
  <2> QED
    BY <2>2, <2>3, <2>4, PlayStep
<1> QED
  BY <1>2, <1>3 DEF ChargedInRound

\* In the first round nobody's turns are refilled from nothing.
LEMMA NotFromNothing ==
    ASSUME TypeOK, ChargedInRound, round_id <= 1,
           NEW c \in Breaker, IsOpen(fileOf(c))
    PROVE  Refreshed(c).turns > 0 <=> private_data(c).turns > 0
<1> DEFINE b == fileOf(c)
<1>1. b \in Breaker \cap File /\ private_data(c) = data[b]
  BY Files DEF private_data
<1>2. /\ data[b].turns \in Int /\ data[b].round_id \in Nat /\ round_id \in Nat
      /\ data[b].round_id <= round_id
      /\ data[b].turns <= 0 => data[b].round_id >= 1
  BY <1>1, TurnsOf DEF TypeOK, ChargedInRound, Charged
<1>3. CASE data[b].turns <= 0
  <2>1. data[b].round_id = round_id
    BY <1>2, <1>3
  <2> QED
    BY <1>1, <2>1 DEF Refreshed
<1>4. CASE data[b].turns > 0
  BY <1>1, <1>4, RefreshedTurns
<1> QED
  BY <1>2, <1>3, <1>4

\* Until a second round begins, num_of_codebrakers_playing is the number of
\* Codebreakers with turns left.
THEOREM PlayingIsExact == Spec => []PlayingExact
<1> DEFINE Inv == LiveIsOpen /\ ChargedInRound /\ PlayingExact
<1>1. Init => Inv
  <2> SUFFICES ASSUME Init PROVE Inv
    OBVIOUS
  <2>1. \A c \in Caller : pc[c] \in {"idle", "closed"}
    BY DEF Init, CallsInit
  <2>2. \A b \in File : /\ data[b].round_id = 0 /\ data[b].turns = 0
                        /\ ~IsOpen(b)
    BY Files DEF Init, CallsInit, NoData, Data, IsOpen, File
  <2>3. ChargedInRound
    BY <2>1, <2>2 DEF Init, ChargedInRound, Charged, Held, Holds
  <2> QED
    BY <2>3, NoneLiveAtFirst DEF Init, LiveIsOpen, PlayingExact
<1>2. TypeOK /\ InOpenFile /\ Inv /\ [Next]_vars => Inv'
  <2> SUFFICES ASSUME TypeOK, InOpenFile, LiveIsOpen, ChargedInRound, PlayingExact,
                      [Next]_vars, round_id' <= 1
               PROVE  num_of_codebrakers_playing' = Cardinality(Live')
    BY LiveStep, ChargedStep DEF PlayingExact, Live
  <2>0. /\ round_id <= 1
        /\ num_of_codebrakers_playing \in Int
        /\ num_of_codebrakers_playing = Cardinality(Live)
    <3>1. round_id \in Nat /\ round_id' \in {round_id, round_id + 1}
      BY RoundIdStep DEF TypeOK
    <3>2. round_id <= 1
      BY <3>1
    <3> QED
      BY <3>2 DEF TypeOK, PlayingExact
  <2>1. ASSUME Live' = Live, UNCHANGED num_of_codebrakers_playing
        PROVE  num_of_codebrakers_playing' = Cardinality(Live')
    BY <2>0, <2>1
  <2>2. ASSUME NEW f \in Breaker, f \in Live, Live' = Live \ {f},
               num_of_codebrakers_playing' = num_of_codebrakers_playing - 1
        PROVE  num_of_codebrakers_playing' = Cardinality(Live')
    <3>1. Cardinality(Live \ {f}) = Cardinality(Live) - 1
      BY <2>2, LiveFinite, FS_RemoveElement
    <3> QED
      BY <2>0, <2>2, <3>1
  <2>3. CASE NoTurn
    BY <2>1, <2>3 DEF NoTurn, Live
  <2>4. ASSUME NEW c \in Caller, Admits(c)
        PROVE  num_of_codebrakers_playing' = Cardinality(Live')
    <3>1. CASE Live' = Live /\ UNCHANGED num_of_codebrakers_playing
      BY <2>1, <3>1
    <3>2. CASE /\ c \notin Live /\ Live' = Live \cup {c}
               /\ num_of_codebrakers_playing' = num_of_codebrakers_playing + 1
      <4>1. Cardinality(Live \cup {c}) = Cardinality(Live) + 1
        BY <3>2, LiveFinite, FS_AddElement
      <4> QED
        BY <2>0, <3>2, <4>1
    <3> QED
      BY <2>4, <3>1, <3>2, JoinStep
  <2>5. ASSUME NEW c \in Breaker, Saves(c)
        PROVE  num_of_codebrakers_playing' = Cardinality(Live')
    <3>1. PICK d \in {private_data(c), Refreshed(c)} : Save(c, d)
      BY <2>5 DEF Saves
    <3>2. d.turns > 0 <=> private_data(c).turns > 0
      BY <2>0, <2>5, NotFromNothing DEF Saves
    <3>3. Live' = Live
      BY <3>1, <3>2, LiveSaved
    <3> QED
      BY <2>1, <2>5, <3>3 DEF Saves
  <2>6. ASSUME NEW c \in Breaker, Spends(c)
        PROVE  num_of_codebrakers_playing' = Cardinality(Live')
    <3>1. PICK d \in {private_data(c), Refreshed(c)} :
            /\ fileOf(c) \in Live' <=> d.turns > 1
            /\ num_of_codebrakers_playing' = num_of_codebrakers_playing - 1
                   <=> d.turns = 1
      BY <2>6, SpendStep
    <3>2. /\ Live \ {fileOf(c)} = Live' \ {fileOf(c)}
          /\ num_of_codebrakers_playing' \in
                 {num_of_codebrakers_playing, num_of_codebrakers_playing - 1}
          /\ d.turns \in Int
      BY <2>6, SpendStep, RefreshedTurns
    <3>3. fileOf(c) \in Live <=> d.turns > 0
      <4>1. \E e : Save(c, e)
        BY <2>6 DEF Spends, AcceptGuess
      <4>2. fileOf(c) \in Live <=> private_data(c).turns > 0
        BY <4>1, LiveSaved
      <4>3. Refreshed(c).turns > 0 <=> private_data(c).turns > 0
        BY <2>0, <2>6, NotFromNothing DEF Spends
      <4> QED
        BY <4>2, <4>3
    <3>4. CASE d.turns = 1
      <4>1. fileOf(c) \in Live /\ Live' = Live \ {fileOf(c)}
        BY <3>1, <3>2, <3>3, <3>4
      <4> QED
        BY <2>2, <3>1, <3>4, <4>1, Files
    <3>5. CASE d.turns # 1
      <4>1. Live' = Live
        BY <3>1, <3>2, <3>3, <3>5
      <4> QED
        BY <2>1, <3>1, <3>2, <3>5, <4>1
    <3> QED
      BY <3>4, <3>5
  <2>7. ASSUME NEW c \in Breaker, BreakerRelease(c)
        PROVE  num_of_codebrakers_playing' = Cardinality(Live')
    <3>1. CASE c \in Live
      BY <2>2, <2>7, <3>1, LeaveStep
    <3>2. CASE c \notin Live
      <4>1. Live' = Live /\ num_of_codebrakers_playing' = num_of_codebrakers_playing - 0
        BY <2>7, <3>2, LeaveStep
      <4> QED
        BY <2>0, <4>1
    <3> QED
      BY <3>1, <3>2
  <2> QED
    BY <2>3, <2>4, <2>5, <2>6, <2>7, TurnStep
<1>3. Inv => PlayingExact
  OBVIOUS
<1> HIDE DEF Inv
<1> QED
  BY <1>1, <1>2, <1>3, TypeCorrect, AlwaysInOpenFile, PTL DEF Spec
=============================================================================
