-------------------------- MODULE SingleCoreProofs --------------------------
(***************************************************************************)
(* Theorems about the older driver SingleCore, for any sets of callers and *)
(* codes, any numbers of turns and rounds, and with every failure of the   *)
(* kernel that the model has: its types, the turns, the two counts by      *)
(* which it decides whether a round can start and whether a read answers   *)
(* EOF, and the guess that waits for its feedback.                         *)
(***************************************************************************)
EXTENDS SingleCore, FiniteSetTheorems, TLAPS

-----------------------------------------------------------------------------
(* Types.                                                                  *)

\* A caller's file is one that a caller of its kind opens.
LEMMA Files ==
    /\ File \subseteq Caller /\ Sole \subseteq File
    /\ \A c \in Caller : fileOf(c) \in File
    /\ \A c \in Maker : fileOf(c) \in Maker
    /\ \A c \in Breaker : fileOf(c) \in Breaker
    /\ \A f \in File : fileOf(f) = f
    /\ \A c \in Caller : fileOf(c) \in Sole => fileOf(c) = c
    /\ Caller = Maker \cup Breaker /\ Maker \cap Breaker = {}
BY ConstantsAssumption DEF File, Caller, Sharer, Sole, fileOf

RetType == [caller : Caller \cup {"kernel"}, op : Op, val : Int]

\* The calls, the numbers that they return, and the places they may be in.
LEMMA Names ==
    /\ \A v \in {-EPERM, -EINTR, -EIO, -ENOMEM, -EFAULT, -EBUSY, -EINVAL, EOF,
                 -1, 0, 1} : v \in Int
    /\ {"open", "release", "read", "write", "ROUND_START", "GET_MY_SCORE"}
          \subseteq Op
    /\ {"closed", "opening", "idle", "rdWait", "wrWait", "pwCopy", "fbCopy",
        "gsCopy", "rdCopy"} \subseteq Location
BY DEF EPERM, EINTR, EIO, ENOMEM, EFAULT, EBUSY, EINVAL, EOF, Op, Location,
       Waiting, Copying

\* A call that ends, one that moves on, one that saves its private data.
LEMMA ReturnType ==
    ASSUME CallsTypeOK, NEW c \in Caller, NEW op \in Op, NEW v \in Int,
           Return(c, op, v)
    PROVE  pc' \in [Caller -> Location] /\ ret' \in RetType
BY DEF CallsTypeOK, Return, Goto, Answer, Location, RetType

LEMMA GotoType ==
    ASSUME CallsTypeOK, NEW c \in Caller, NEW l \in Location, Goto(c, l)
    PROVE  pc' \in [Caller -> Location]
BY DEF CallsTypeOK, Goto

LEMMA SaveType ==
    ASSUME CallsTypeOK, NEW c \in Caller, NEW d \in PrivateData, Save(c, d)
    PROVE  data' \in [File -> PrivateData]
BY Files DEF CallsTypeOK, Save

\* The values that handlers save.
LEMMA DataTypes ==
    ASSUME TypeOK, NEW c \in Caller
    PROVE  /\ NoData \in PrivateData /\ private_data(c) \in PrivateData
           /\ Fresh(c) \in PrivateData /\ Refreshed(c) \in PrivateData
           /\ \A d \in PrivateData : \A won : Scored(d, won) \in PrivateData
<1>1. private_data(c) \in PrivateData /\ round_id \in Nat
  BY Files DEF TypeOK, CallsTypeOK, private_data
<1> QED
  BY <1>1, ConstantsAssumption
  DEF NoData, Fresh, Refreshed, Scored, Data, PrivateData

\* The parts of the type invariant.
RoundTypes ==
    /\ in_round \in BOOLEAN /\ guessedCorrect \in BOOLEAN
    /\ round_id \in Nat /\ colour_range \in Nat
BufTypes ==
    /\ passwordBuf \in Code \cup {Blank} /\ guessBuf \in Code \cup {Blank}
    /\ feedbackBuf \in BOOLEAN /\ passwordReady \in BOOLEAN
    /\ feedbackReady \in BOOLEAN /\ guessReady \in BOOLEAN
CountTypes ==
    /\ codemaker_exists \in BOOLEAN /\ num_of_codemakers \in Int
    /\ num_of_codebrakers \in Int /\ num_of_codebrakers_playing \in Int

LEMMA TypeParts ==
    /\ TypeOK <=> CallsTypeOK /\ RoundTypes /\ BufTypes /\ CountTypes
    /\ TypeOK' <=> CallsTypeOK' /\ RoundTypes' /\ BufTypes' /\ CountTypes'
BY DEF TypeOK, RoundTypes, BufTypes, CountTypes

LEMMA TypesStay ==
    ASSUME TypeOK
    PROVE  /\ UNCHANGED round => RoundTypes'
           /\ UNCHANGED bufs => BufTypes'
           /\ UNCHANGED counts => CountTypes'
BY TypeParts DEF round, bufs, counts, RoundTypes, BufTypes, CountTypes

\* A step of a call that ends, or moves on, with private data of their type.
Ends(c) == /\ \E op \in Op, v \in Int : Return(c, op, v)
           /\ asleep' \in SUBSET Caller
Moves(c) == /\ \E l \in Location : Goto(c, l)
            /\ asleep' \in SUBSET Caller /\ UNCHANGED ret

LEMMA CallsStep ==
    ASSUME TypeOK, NEW c \in Caller, Ends(c) \/ Moves(c),
           UNCHANGED data \/ \E d \in PrivateData : Save(c, d)
    PROVE  CallsTypeOK'
<1> USE TypeParts
<1>1. data' \in [File -> PrivateData]
  BY SaveType DEF CallsTypeOK
<1>2. pc' \in [Caller -> Location] /\ ret' \in RetType
  <2>1. CASE Ends(c)
    BY <2>1, ReturnType DEF Ends
  <2>2. CASE Moves(c)
    BY <2>2, GotoType DEF Moves, CallsTypeOK, RetType
  <2> QED
    BY <2>1, <2>2
<1>3. asleep' \in SUBSET Caller
  BY DEF Ends, Moves
<1> QED
  BY <1>1, <1>2, <1>3 DEF CallsTypeOK, RetType

\* How the smaller parts of the actions move.
LEMMA Moving ==
    ASSUME TypeOK, NEW c \in Caller
    PROVE  /\ \A l \in Location : SleepIn(c, l) \/ SleepOn(c, l) => Moves(c)
           /\ \A op \in Op, v \in Int :
                  /\ Return(c, op, v) /\ UNCHANGED asleep => Ends(c)
                  /\ Return(c, op, v) /\ wake_up => Ends(c)
BY TypeParts DEF SleepIn, SleepOn, wake_up, Moves, Ends, CallsTypeOK

LEMMA CopyFeedbackType ==
    ASSUME TypeOK, NEW c \in Caller, NEW d \in PrivateData,
           CopyFeedback(c, d) \/ TakeFeedback(c, d), UNCHANGED counts
    PROVE  TypeOK'
<1>1. CASE TakeFeedback(c, d)
  <2>1. CallsTypeOK'
    <3>1. \E e \in PrivateData : Save(c, e)
      BY <1>1, DataTypes DEF TakeFeedback
    <3> QED
      BY <1>1, <3>1, Names, Moving, CallsStep DEF TakeFeedback
  <2>2. RoundTypes'
    <3>1. in_round' \in BOOLEAN
      BY <1>1 DEF TakeFeedback
    <3> QED
      BY <1>1, <3>1, TypeParts DEF TakeFeedback, RoundTypes
  <2>3. BufTypes'
    BY <1>1, TypeParts DEF TakeFeedback, BufTypes
  <2> QED
    BY <2>1, <2>2, <2>3, TypesStay, TypeParts
<1>2. CASE SleepIn(c, "rdCopy") /\ Save(c, d) /\ UNCHANGED <<round, bufs>>
  BY <1>2, Names, Moving, CallsStep, TypesStay, TypeParts
<1> QED
  BY <1>1, <1>2 DEF CopyFeedback

LEMMA SetPasswordType ==
    ASSUME TypeOK, NEW c \in Caller, SetPassword(c), UNCHANGED <<round, counts>>
    PROVE  TypeOK'
<1>1. CallsTypeOK'
  BY Names, Moving, CallsStep DEF SetPassword
<1>2. BufTypes'
  BY TypeParts DEF SetPassword, BufTypes
<1> QED
  BY <1>1, <1>2, TypesStay, TypeParts

LEMMA SetFeedbackType ==
    ASSUME TypeOK, NEW c \in Caller, NEW right, SetFeedback(c, right),
           RoundTypes', UNCHANGED counts
    PROVE  TypeOK'
<1>1. CallsTypeOK'
  BY Names, Moving, CallsStep, DataTypes DEF SetFeedback
<1>2. BufTypes'
  BY TypeParts DEF SetFeedback, BufTypes
<1> QED
  BY <1>1, <1>2, TypesStay, TypeParts

LEMMA WriteGuessType ==
    ASSUME TypeOK, NEW c \in Caller, NEW d \in PrivateData,
           CopyGuess(c, d) \/ WriteGuess(c, d)
    PROVE  TypeOK'
<1>1. CASE SleepIn(c, "gsCopy") /\ Save(c, d) /\ UNCHANGED <<round, bufs, counts>>
  BY <1>1, Names, Moving, CallsStep, TypesStay, TypeParts
<1>2. CASE WriteGuess(c, d)
  <2>1. PICK g \in Code \cup {Blank} : RejectGuess(c, d, g) \/ AcceptGuess(c, d, g)
    BY <1>2, TypeParts DEF WriteGuess, BufTypes
  <2>2. UNCHANGED <<round, passwordBuf, feedbackBuf, passwordReady,
                    feedbackReady, asleep>>
    BY <1>2 DEF WriteGuess
  <2>3. CASE RejectGuess(c, d, g)
    <3>1. CallsTypeOK'
      BY <2>2, <2>3, Names, Moving, CallsStep DEF RejectGuess
    <3>2. BufTypes'
      BY <2>2, <2>3, TypeParts DEF RejectGuess, BufTypes
    <3> QED
      BY <2>2, <2>3, <3>1, <3>2, TypesStay, TypeParts DEF RejectGuess
  <2>4. CASE AcceptGuess(c, d, g)
    <3>1. Data(d.turns - 1, d.score, d.round_id) \in PrivateData
      BY DEF Data, PrivateData
    <3>2. CallsTypeOK'
      BY <2>2, <2>4, <3>1, Names, Moving, CallsStep DEF AcceptGuess
    <3>3. BufTypes' /\ CountTypes'
      BY <2>2, <2>4, TypeParts DEF AcceptGuess, BufTypes, CountTypes
    <3> QED
      BY <2>2, <3>2, <3>3, TypesStay, TypeParts
  <2> QED
    BY <2>1, <2>3, <2>4
<1> QED
  BY <1>1, <1>2 DEF CopyGuess

LEMMA ReadType ==
    ASSUME TypeOK, NEW c \in Caller, UNCHANGED <<bufs, counts, data>>,
           Ends(c) \/ Moves(c), CopyOut(c) \/ UNCHANGED round
    PROVE  TypeOK'
<1>1. RoundTypes'
  BY TypesStay, TypeParts DEF CopyOut, generateFeedback, RoundTypes
<1> QED
  BY <1>1, CallsStep, TypesStay, TypeParts

\* Every variable keeps its type.
LEMMA TypeStep == TypeOK /\ [Next]_vars => TypeOK'
<1> SUFFICES ASSUME TypeOK, [Next]_vars PROVE TypeOK'
  OBVIOUS
<1> USE Names
<1>1. CASE UNCHANGED vars
  <2>1. CallsTypeOK'
    BY <1>1, TypeParts DEF CallsTypeOK, vars
  <2> QED
    BY <1>1, <2>1, TypesStay, TypeParts DEF vars
<1>2. ASSUME NEW c \in Caller, Enrol(c), UNCHANGED <<round, bufs, asleep>>
      PROVE  TypeOK'
  <2>1. CallsTypeOK'
    BY <1>2, Moving, CallsStep, DataTypes DEF Enrol
  <2>2. CountTypes'
    <3>1. CountTypes
      BY TypeParts
    <3>2. codemaker_exists' \in BOOLEAN
      BY <1>2, <3>1 DEF Enrol, CountTypes
    <3>3. /\ num_of_codemakers' \in Int /\ num_of_codebrakers' \in Int
          /\ num_of_codebrakers_playing' \in Int
      BY <1>2, <3>1 DEF Enrol, CountTypes
    <3> QED
      BY <3>2, <3>3 DEF CountTypes
  <2> QED
    BY <1>2, <2>1, <2>2, TypesStay, TypeParts
<1>3. ASSUME NEW c \in Caller, Open(c) \/ OpenAllocated(c) PROVE TypeOK'
  <2>1. ASSUME NEW v \in {-EPERM, -ENOMEM}, Answer(c, "open", v),
               UNCHANGED <<counts, data, pc, round, bufs, asleep>>
        PROVE  TypeOK'
    <3>1. CallsTypeOK'
      BY <2>1, TypeParts DEF CallsTypeOK, Answer
    <3> QED
      BY <2>1, <3>1, TypesStay, TypeParts
  <2>2. CASE SleepIn(c, "opening") /\ UNCHANGED <<round, bufs, counts, data>>
    BY <2>2, Moving, CallsStep, TypesStay, TypeParts
  <2> QED
    BY <1>2, <1>3, <2>1, <2>2 DEF Open, OpenAllocated
<1>4. ASSUME NEW c \in Caller, NEW v \in Int, Gone(c, v), asleep' \in SUBSET Caller
      PROVE  CallsTypeOK'
  BY <1>4, DataTypes, SaveType, GotoType, TypeParts
  DEF Gone, Answer, CallsTypeOK
<1>5. ASSUME NEW c \in Caller, MakerRelease(c) PROVE TypeOK'
  <2>1. CallsTypeOK'
    BY <1>4, <1>5, TypeParts DEF MakerRelease, wake_up, CallsTypeOK
  <2>2. CountTypes'
    BY <1>5, TypeParts DEF MakerRelease, CountTypes
  <2> QED
    BY <1>5, <2>1, <2>2, TypesStay, TypeParts DEF MakerRelease
<1>6. ASSUME NEW c \in Caller, BreakerRelease(c) PROVE TypeOK'
  <2>1. CallsTypeOK'
    BY <1>4, <1>6, TypeParts DEF BreakerRelease, CallsTypeOK
  <2>2. CountTypes'
    BY <1>6, TypeParts DEF BreakerRelease, Leaves, Stops, CountTypes
  <2> QED
    BY <1>6, <2>1, <2>2, TypesStay, TypeParts DEF BreakerRelease
<1>7. ASSUME NEW c \in Caller, MakerRead(c) \/ MakerReadWoken(c) PROVE TypeOK'
  <2>1. CopyOut(c) /\ UNCHANGED asleep => Ends(c)
    BY Moving DEF CopyOut
  <2>2. Ends(c) \/ Moves(c)
    BY <1>7, <2>1, Moving DEF MakerRead, MakerReadWoken
  <2> QED
    BY <1>7, <2>2, ReadType DEF MakerRead, MakerReadWoken
<1>8. ASSUME NEW c \in Caller, BreakerRead(c) PROVE TypeOK'
  <2>1. Refreshed(c) \in PrivateData
    BY DataTypes
  <2>2. CASE /\ Ends(c) \/ Moves(c)
             /\ UNCHANGED data \/ Save(c, Refreshed(c))
             /\ UNCHANGED <<round, bufs, counts>>
    BY <2>1, <2>2, CallsStep, TypesStay, TypeParts
  <2>3. CASE CopyFeedback(c, Refreshed(c))
    BY <1>8, <2>1, <2>3, CopyFeedbackType DEF BreakerRead
  <2> QED
    BY <1>8, <2>2, <2>3, Moving DEF BreakerRead
<1>9. ASSUME NEW c \in Caller, BreakerReadWoken(c) \/ BreakerReadCopied(c)
      PROVE  TypeOK'
  <2>1. private_data(c) \in PrivateData
    BY DataTypes
  <2>2. CASE /\ \E v \in {-EIO, -EFAULT} : Return(c, "read", v)
             /\ UNCHANGED <<round, bufs, counts, data, asleep>>
    BY <2>2, Moving, CallsStep, TypesStay, TypeParts
  <2> QED
    BY <1>9, <2>1, <2>2, CopyFeedbackType DEF BreakerReadWoken, BreakerReadCopied
<1>10. ASSUME NEW c \in Caller, MakerWrite(c) PROVE TypeOK'
  <2>1. RoundTypes'
    BY <1>10, TypeParts DEF MakerWrite, generateFeedback, RoundTypes
  <2>2. CASE UNCHANGED <<bufs, data>> /\ (Ends(c) \/ Moves(c))
    BY <1>10, <2>1, <2>2, CallsStep, TypesStay, TypeParts DEF MakerWrite
  <2>3. CASE ~in_round /\ SetPassword(c)
    BY <1>10, <2>3, SetPasswordType DEF MakerWrite, round
  <2>4. ASSUME NEW right, SetFeedback(c, right) PROVE TypeOK'
    BY <1>10, <2>1, <2>4, SetFeedbackType DEF MakerWrite
  <2>5. CASE /\ SleepIn(c, "fbCopy")
             /\ feedbackBuf' = generateFeedback(guessBuf, passwordBuf)
             /\ UNCHANGED <<passwordBuf, guessBuf, passwordReady,
                            feedbackReady, guessReady, data>>
    <3>1. CallsTypeOK'
      BY <2>5, Moving, CallsStep
    <3>2. BufTypes'
      BY <2>5, TypeParts DEF BufTypes, generateFeedback
    <3> QED
      BY <1>10, <2>1, <3>1, <3>2, TypesStay, TypeParts DEF MakerWrite
  <2> QED
    BY <1>10, <2>2, <2>3, <2>4, <2>5, Moving DEF MakerWrite
<1>11. ASSUME NEW c \in Caller, MakerWriteCopied(c) PROVE TypeOK'
  <2>1. UNCHANGED <<round, counts>>
    BY <1>11 DEF MakerWriteCopied
  <2>2. CASE SetPassword(c)
    BY <2>1, <2>2, SetPasswordType
  <2>3. ASSUME NEW right, SetFeedback(c, right) PROVE TypeOK'
    BY <2>1, <2>3, TypesStay, SetFeedbackType
  <2>4. CASE /\ IF At(c, "pwCopy")
                THEN passwordBuf' = Blank /\ UNCHANGED feedbackBuf
                ELSE feedbackBuf' = FALSE /\ UNCHANGED passwordBuf
             /\ Return(c, "write", -EFAULT)
             /\ UNCHANGED <<guessBuf, passwordReady, feedbackReady, guessReady,
                            data, asleep>>
    <3>1. CallsTypeOK'
      BY <2>4, Moving, CallsStep
    <3>2. BufTypes'
      BY <2>4, TypeParts DEF BufTypes
    <3> QED
      BY <2>1, <3>1, <3>2, TypesStay, TypeParts
  <2> QED
    BY <1>11, <2>2, <2>3, <2>4 DEF MakerWriteCopied
<1>12. ASSUME NEW c \in Caller, BreakerWrite(c) PROVE TypeOK'
  <2>1. Refreshed(c) \in PrivateData
    BY DataTypes
  <2>2. CASE /\ Ends(c) \/ Moves(c)
             /\ UNCHANGED data \/ Save(c, Refreshed(c))
             /\ UNCHANGED <<round, bufs, counts>>
    BY <2>1, <2>2, CallsStep, TypesStay, TypeParts
  <2>3. CASE CopyGuess(c, Refreshed(c))
    BY <2>1, <2>3, WriteGuessType
  <2> QED
    BY <1>12, <2>2, <2>3, Moving DEF BreakerWrite
<1>13. ASSUME NEW c \in Caller, BreakerWriteWoken(c) \/ BreakerWriteCopied(c)
       PROVE  TypeOK'
  <2>1. private_data(c) \in PrivateData
    BY DataTypes
  <2>2. CASE Return(c, "write", -EIO) /\ UNCHANGED <<round, bufs, counts, data, asleep>>
    BY <2>2, Moving, CallsStep, TypesStay, TypeParts
  <2>3. CASE /\ guessBuf' = Blank
             /\ Return(c, "write", -EFAULT)
             /\ UNCHANGED <<round, passwordBuf, feedbackBuf, passwordReady,
                            feedbackReady, guessReady, counts, data, asleep>>
    <3>1. CallsTypeOK'
      BY <2>3, Moving, CallsStep
    <3>2. BufTypes'
      BY <2>3, TypeParts DEF BufTypes
    <3> QED
      BY <2>3, <3>1, <3>2, TypesStay, TypeParts
  <2> QED
    BY <1>13, <2>1, <2>2, <2>3, WriteGuessType
    DEF BreakerWriteWoken, BreakerWriteCopied
<1>14. ASSUME NEW c \in Caller, SleepAgain(c) \/ Signal(c) PROVE TypeOK'
  <2>1. UNCHANGED <<round, bufs, counts, data>> /\ asleep' \in SUBSET Caller
    BY <1>14, TypeParts DEF SleepAgain, Signal, CallsTypeOK
  <2>2. UNCHANGED <<pc, ret>> \/ Ends(c)
    BY <1>14, <2>1 DEF SleepAgain, Signal, Ends
  <2>3. CallsTypeOK'
    BY <2>1, <2>2, CallsStep, TypeParts DEF CallsTypeOK
  <2> QED
    BY <2>1, <2>3, TypesStay, TypeParts
<1>15. ASSUME NEW c \in Caller, NEW arg \in Arg, RoundStart(c, arg) PROVE TypeOK'
  <2>1. Ends(c)
    BY <1>15, Moving DEF RoundStart
  <2>2. RoundTypes'
    <3>1. RoundTypes /\ arg \in Nat
      BY ConstantsAssumption, TypeParts
    <3>2. /\ \/ UNCHANGED <<in_round, round_id>>
             \/ in_round' = TRUE /\ round_id' = round_id + 1
          /\ colour_range' \in {colour_range, arg}
          /\ UNCHANGED guessedCorrect
      BY <1>15 DEF RoundStart
    <3>3. in_round' \in BOOLEAN /\ guessedCorrect' \in BOOLEAN
      BY <3>1, <3>2 DEF RoundTypes
    <3>4. round_id' \in Nat
      BY <3>1, <3>2 DEF RoundTypes
    <3> QED
      BY <3>1, <3>2, <3>3, <3>4 DEF RoundTypes
  <2> QED
    BY <1>15, <2>1, <2>2, CallsStep, TypesStay, TypeParts DEF RoundStart
<1>16. ASSUME NEW c \in Caller, GetMyScore(c) PROVE TypeOK'
  <2>1. private_data(c).score \in Int
    BY DataTypes DEF PrivateData
  <2>2. Ends(c)
    BY <1>16, <2>1, Moving DEF GetMyScore
  <2> QED
    BY <1>16, <2>2, CallsStep, TypesStay, TypeParts DEF GetMyScore
<1> QED
  BY <1>1, <1>3, <1>5, <1>6, <1>7, <1>8, <1>9, <1>10, <1>11, <1>12, <1>13,
     <1>14, <1>15, <1>16, Zenon DEF Next

\* Every variable of the older driver always has a value of its type.
THEOREM TypeCorrect == Spec => []TypeOK
<1>1. Init => TypeOK
  <2> SUFFICES ASSUME Init PROVE TypeOK
    OBVIOUS
  <2>1. NoData \in PrivateData
    BY DEF NoData, Data, PrivateData
  <2>2. CallsTypeOK
    BY <2>1, Files DEF Init, CallsInit, CallsTypeOK, Op, Location
  <2>3. RoundTypes
    BY DEF Init, RoundTypes
  <2>4. BufTypes
    BY DEF Init, BufTypes
  <2>5. codemaker_exists \in BOOLEAN
    BY DEF Init
  <2>6. CountTypes
    BY <2>5 DEF Init, CountTypes
  <2> QED
    BY <2>2, <2>3, <2>4, <2>6, TypeParts
<1> QED
  BY <1>1, TypeStep, PTL DEF Spec

-----------------------------------------------------------------------------
(* How many files are open.                                                *)

\* The places of a call on a file that open has enrolled.
InCall == {"idle", "rdWait", "wrWait", "pwCopy", "fbCopy", "gsCopy", "rdCopy"}

\* The call of c moves from one place to another, or stays; it began with the
\* file of c open.
Walks(c) ==
    /\ pc[c] \in InCall
    /\ At(c, "idle") => IsOpen(fileOf(c))
    /\ \E l \in InCall : Goto(c, l) \/ UNCHANGED pc

LEMMA WalkKeepsEnrolled ==
    ASSUME TypeOK, NEW c \in Caller, Walks(c), NEW S
    PROVE  Enrolled(S)' = Enrolled(S)
BY Files DEF TypeOK, CallsTypeOK, Walks, Enrolled, IsOpen, Goto, InCall

\* open enrols c.
Admits(c) == c \in File /\ pc[c] \in {"closed", "opening"} /\ Enrol(c)

\* c has passed the check of open and waits for its memory.
WaitsToOpen(c) ==
    c \in File /\ At(c, "closed") /\ SleepIn(c, "opening") /\ UNCHANGED counts

SameNumbers == UNCHANGED num_of_codebrakers

\* Nothing but open and release changes what the device counts.
LEMMA StepKinds ==
    ASSUME TypeOK, [Next]_vars
    PROVE  \/ SameNumbers /\ UNCHANGED pc
           \/ \E c \in Caller : \/ Walks(c) /\ SameNumbers
                              \/ WaitsToOpen(c) \/ Admits(c)
                              \/ MakerRelease(c) \/ BreakerRelease(c)
<1>4. ASSUME NEW c \in Caller, Open(c) \/ OpenAllocated(c)
      PROVE  (SameNumbers /\ UNCHANGED pc) \/ WaitsToOpen(c) \/ Admits(c)
  BY <1>4 DEF At, Open, OpenAllocated, Admits, WaitsToOpen, SameNumbers, counts
<1> USE DEF InCall, At, Ready, Unused, SameNumbers
<1>5. ASSUME NEW c \in Caller, MakerRead(c) \/ MakerReadWoken(c)
      PROVE  Walks(c) /\ SameNumbers
  BY <1>5 DEF MakerRead, MakerReadWoken, Woken, CopyOut, SleepOn, Return, Walks,
     counts
<1>6. ASSUME NEW c \in Caller, NEW d, CopyFeedback(c, d) \/ TakeFeedback(c, d),
             pc[c] \in InCall, pc[c] = "idle" => IsOpen(fileOf(c))
      PROVE  Walks(c)
  BY <1>6 DEF CopyFeedback, TakeFeedback, SleepIn, Return, Walks
<1>7. ASSUME NEW c \in Caller,
             BreakerRead(c) \/ BreakerReadWoken(c) \/ BreakerReadCopied(c)
      PROVE  Walks(c) /\ SameNumbers
  BY <1>6, <1>7 DEF BreakerRead, BreakerReadWoken, BreakerReadCopied, Woken,
     SleepOn, Return, Walks, counts
<1>8. ASSUME NEW c \in Caller, MakerWrite(c) \/ MakerWriteCopied(c)
      PROVE  Walks(c) /\ SameNumbers
  BY <1>8 DEF MakerWrite, MakerWriteCopied, SetPassword, SetFeedback, SleepIn,
     Return, Walks, counts
<1>9. ASSUME NEW c \in Caller, NEW d, pc[c] \in InCall,
             pc[c] = "idle" => IsOpen(fileOf(c)),
             CopyGuess(c, d) \/ WriteGuess(c, d)
      PROVE  Walks(c) /\ SameNumbers
  BY <1>9 DEF CopyGuess, WriteGuess, RejectGuess, AcceptGuess, SleepIn, Return, Walks, counts
<1>10. ASSUME NEW c \in Caller,
              BreakerWrite(c) \/ BreakerWriteWoken(c) \/ BreakerWriteCopied(c)
       PROVE  Walks(c) /\ SameNumbers
  <2>1. pc[c] \in InCall /\ (pc[c] = "idle" => IsOpen(fileOf(c)))
    BY <1>10 DEF BreakerWrite, BreakerWriteWoken, BreakerWriteCopied, Woken
  <2>2. CASE BreakerWrite(c)
    BY <1>9, <2>1, <2>2 DEF BreakerWrite, SleepOn, Return, Walks, counts
  <2>3. CASE BreakerWriteWoken(c)
    BY <1>9, <2>1, <2>3 DEF BreakerWriteWoken, Return, Walks, counts
  <2>4. CASE BreakerWriteCopied(c)
    BY <1>9, <2>1, <2>4 DEF BreakerWriteCopied, Return, Walks, counts
  <2> QED
    BY <1>10, <2>2, <2>3, <2>4
<1>11. ASSUME NEW c \in Caller,
              \/ SleepAgain(c) \/ Signal(c) \/ GetMyScore(c)
              \/ \E arg \in Arg : RoundStart(c, arg)
       PROVE  Walks(c) /\ SameNumbers
  BY <1>11 DEF SleepAgain, Signal, GetMyScore, RoundStart, Waiting, Return, Walks,
     counts
<1>12. CASE UNCHANGED vars
  BY <1>12 DEF vars, counts
<1> HIDE DEF InCall, At, Ready, Unused, SameNumbers
<1>13. CASE Next
  BY <1>4, <1>5, <1>7, <1>8, <1>10, <1>11, <1>13, Zenon DEF Next
<1> QED
  BY <1>12, <1>13

\* A step that does neither leaves the same files open.
LEMMA EnrolStep ==
    ASSUME TypeOK, [Next]_vars
    PROVE  \/ /\ SameNumbers
              /\ Enrolled(Breaker)' = Enrolled(Breaker)
           \/ \E c \in Caller : Admits(c) \/ MakerRelease(c) \/ BreakerRelease(c)
<1> DEFINE Kept == /\ SameNumbers
                   /\ Enrolled(Breaker)' = Enrolled(Breaker)
<1>1. ASSUME NEW c \in Caller, Walks(c), SameNumbers PROVE Kept
  BY <1>1, WalkKeepsEnrolled
<1>2. ASSUME SameNumbers, UNCHANGED pc PROVE Kept
  BY <1>2 DEF Enrolled, IsOpen
<1>3. ASSUME NEW c \in Caller, WaitsToOpen(c) PROVE Kept
  BY <1>3 DEF TypeOK, CallsTypeOK, WaitsToOpen, SleepIn, Goto, At, Enrolled, IsOpen,
     SameNumbers, counts
<1> QED
  BY <1>1, <1>2, <1>3, StepKinds

\* A call is made on a file that is open, and stays open while the call lasts.
InOpenFile ==
    \A c \in Caller : pc[c] \in InCall \ {"idle"} => IsOpen(fileOf(c))

LEMMA InOpenFileStep == TypeOK /\ InOpenFile /\ [Next]_vars => InOpenFile'
<1> SUFFICES ASSUME TypeOK, InOpenFile, [Next]_vars,
                    NEW g \in Caller, pc'[g] \in InCall \ {"idle"}
             PROVE  IsOpen(fileOf(g))'
  BY DEF InOpenFile, fileOf
<1>1. CASE UNCHANGED pc
  BY <1>1 DEF InOpenFile, IsOpen, fileOf
<1>2. ASSUME NEW c \in Caller, Walks(c) PROVE IsOpen(fileOf(g))'
  <2>1. pc[c] \in InCall /\ (At(c, "idle") => IsOpen(fileOf(c)))
    BY <1>2 DEF Walks
  <2>2. PICK l \in InCall : Goto(c, l) \/ UNCHANGED pc
    BY <1>2 DEF Walks
  <2>3. g = c \/ pc'[g] = pc[g]
    BY <2>2 DEF Goto, TypeOK, CallsTypeOK
  <2>4. IsOpen(fileOf(g))
    BY <2>1, <2>3 DEF InOpenFile, At
  <2> QED
    BY <2>1, <2>2, <2>4, Files
    DEF InCall, IsOpen, Goto, fileOf, TypeOK, CallsTypeOK
<1>3. ASSUME NEW c \in Caller, WaitsToOpen(c) \/ Admits(c)
      PROVE  IsOpen(fileOf(g))'
  <2>1. /\ Goto(c, "opening") \/ Goto(c, "idle")
        /\ ~IsOpen(c)
    BY <1>3 DEF WaitsToOpen, Admits, Enrol, SleepIn, Return, At, IsOpen
  <2>2. pc[g] = pc'[g]
    BY <2>1 DEF Goto, InCall, TypeOK, CallsTypeOK
  <2>3. IsOpen(fileOf(g)) /\ fileOf(g) # c
    BY <2>1, <2>2 DEF InOpenFile
  <2> QED
    BY <2>1, <2>3, Files DEF Goto, IsOpen, fileOf, TypeOK, CallsTypeOK
<1>4. ASSUME NEW c \in Caller, MakerRelease(c) \/ BreakerRelease(c)
      PROVE  IsOpen(fileOf(g))'
  <2>1. Goto(c, "closed") /\ Unused(c)
    BY <1>4 DEF MakerRelease, BreakerRelease, Gone
  <2>2. pc[g] = pc'[g] /\ fileOf(g) # c
    BY <2>1 DEF Unused, At, Goto, InCall, TypeOK, CallsTypeOK
  <2> QED
    BY <2>1, <2>2 DEF Goto, InOpenFile, IsOpen, fileOf, TypeOK, CallsTypeOK
<1> QED
  BY <1>1, <1>2, <1>3, <1>4, StepKinds

LEMMA AlwaysInOpenFile == Spec => []InOpenFile
<1>1. Init => InOpenFile
  BY Files DEF Init, CallsInit, InOpenFile, InCall, Caller
<1> QED
  BY <1>1, InOpenFileStep, TypeCorrect, PTL DEF Spec

-----------------------------------------------------------------------------
(* The count of Codebreakers.                                              *)

LEMMA SubsetsFinite ==
    \A S \in SUBSET Breaker : IsFiniteSet(S) /\ Cardinality(S) \in Nat
BY ConstantsAssumption, FS_Subset, FS_CardinalityType

\* ROUND_START does not turn a Codemaker away for want of players when there is
\* one: no open Codebreaker is ever missing from num_of_codebrakers.
THEOREM BreakersAreRemembered == Spec => []BreakersNotForgotten
<1>1. Init => BreakersNotForgotten
  <2> SUFFICES ASSUME Init PROVE BreakersNotForgotten
    OBVIOUS
  <2>1. Enrolled(Breaker) = {}
    BY Files DEF Init, CallsInit, Enrolled, IsOpen, File
  <2> QED
    BY <2>1, FS_EmptySet DEF Init, BreakersNotForgotten
<1>2. TypeOK /\ BreakersNotForgotten /\ [Next]_vars => BreakersNotForgotten'
  <2> DEFINE E == Enrolled(Breaker)
  <2> SUFFICES ASSUME TypeOK, BreakersNotForgotten, [Next]_vars
               PROVE  Cardinality(E') <= num_of_codebrakers'
    BY DEF BreakersNotForgotten
  <2>1. /\ IsFiniteSet(E) /\ Cardinality(E) \in Nat
        /\ num_of_codebrakers \in Int /\ Cardinality(E) <= num_of_codebrakers
    <3>1. E \subseteq Breaker
      BY DEF Enrolled
    <3> QED
      BY <3>1, SubsetsFinite, TypeParts DEF CountTypes, BreakersNotForgotten
  <2>2. CASE SameNumbers /\ E' = E
    BY <2>1, <2>2 DEF SameNumbers
  <2>3. ASSUME NEW c \in Caller, Admits(c)
        PROVE  Cardinality(E') <= num_of_codebrakers'
    <3>1. c \notin E /\ Goto(c, "idle") /\ c \in File
      BY <2>3 DEF Admits, Enrol, Return, Enrolled, IsOpen
    <3>2. CASE c \in Maker
      <4>1. E' = E
        BY <3>1, <3>2, Files, TypeParts DEF CallsTypeOK, Goto, Enrolled, IsOpen
      <4>2. UNCHANGED num_of_codebrakers
        BY <2>3, <3>2 DEF Admits, Enrol
      <4> QED
        BY <2>1, <4>1, <4>2
    <3>3. CASE c \notin Maker
      <4>1. E' = E \cup {c}
        BY <3>1, <3>3, Files, TypeParts DEF CallsTypeOK, Goto, Enrolled, IsOpen
      <4>2. Cardinality(E') = Cardinality(E) + 1
        BY <2>1, <3>1, <4>1, FS_AddElement
      <4>3. num_of_codebrakers' = num_of_codebrakers + 1
        BY <2>3, <3>3 DEF Admits, Enrol
      <4> QED
        BY <2>1, <4>2, <4>3
    <3> QED
      BY <3>2, <3>3
  <2>4. ASSUME NEW c \in Caller, MakerRelease(c)
        PROVE  Cardinality(E') <= num_of_codebrakers'
    <3>1. c \notin Breaker /\ Goto(c, "closed") /\ UNCHANGED num_of_codebrakers
      BY <2>4, Files DEF MakerRelease, Gone
    <3>2. E' = E
      BY <3>1, Files, TypeParts DEF CallsTypeOK, Goto, Enrolled, IsOpen
    <3> QED
      BY <2>1, <3>1, <3>2
  <2>5. ASSUME NEW c \in Caller, BreakerRelease(c)
        PROVE  Cardinality(E') <= num_of_codebrakers'
    <3>1. c \in Breaker /\ c \in File /\ Goto(c, "closed") /\ IsOpen(c)
      BY <2>5 DEF BreakerRelease, Unused, Gone
    <3>2. E' = E \ {c} /\ c \in E
      BY <3>1, Files, TypeParts DEF CallsTypeOK, Goto, Enrolled, IsOpen
    <3>3. Cardinality(E') = Cardinality(E) - 1
      BY <2>1, <3>2, FS_RemoveElement
    <3>4. \E n \in {0, 1} : num_of_codebrakers' = num_of_codebrakers - n
      BY <2>5 DEF BreakerRelease, Leaves
    <3> QED
      BY <2>1, <3>3, <3>4
  <2> QED
    BY <2>2, <2>3, <2>4, <2>5, EnrolStep
<1> QED
  BY <1>1, <1>2, TypeCorrect, PTL DEF Spec

-----------------------------------------------------------------------------
(* The turns.                                                              *)

\* c is in a write that is going to spend a turn.
Holds(c) == pc[c] \in {"wrWait", "gsCopy"}

\* No turn is spent, refilled or thrown away, and no such write begins.
NoTurn ==
    /\ UNCHANGED num_of_codebrakers_playing
    /\ \A b \in Breaker \cap File : data'[b].turns = data[b].turns
    /\ \A c \in Breaker : Holds(c)' => Holds(c)

\* A write works on d: it has just found turns in it, or it did before it slept.
Checked(c, d) == ~Exhausted(d.turns) \/ (Holds(c) /\ d = private_data(c))

\* A handler saves d for c's file, with a point or without.
SavesLike(c, d) ==
    \E e : Save(c, e) /\ e.turns = d.turns /\ e.round_id = d.round_id

\* A handler saves the private data of c's file, perhaps refilled.
Saves(c) ==
    /\ IsOpen(fileOf(c))
    /\ UNCHANGED num_of_codebrakers_playing
    /\ \E d \in {private_data(c), Refreshed(c)} :
           SavesLike(c, d) /\ (Holds(c)' => Checked(c, d))
    /\ \A b \in Breaker \ {c} : Holds(b)' => Holds(b)

\* A guess of c is accepted.
Spends(c) ==
    /\ IsOpen(fileOf(c))
    /\ \E d \in {private_data(c), Refreshed(c)}, g \in Code \cup {Blank} :
           AcceptGuess(c, d, g) /\ Checked(c, d)

\* A refill leaves turns where there were some, and no more than NUM_TURNS.
LEMMA RefreshedTurns ==
    ASSUME TypeOK, NEW c \in Breaker
    PROVE  /\ private_data(c).turns \in Int /\ Refreshed(c).turns \in Int
           /\ Refreshed(c).turns \in {private_data(c).turns, NUM_TURNS}
           /\ private_data(c).turns > 0 => Refreshed(c).turns > 0
<1>1. c \in Caller /\ NUM_TURNS \in Nat \ {0}
  BY ConstantsAssumption, Files
<1>2. private_data(c) \in PrivateData
  BY <1>1, DataTypes
<1> QED
  BY <1>1, <1>2 DEF Refreshed, Data, PrivateData

\* The numbers that are kept for a Codebreaker's file.
LEMMA TurnsOf ==
    ASSUME TypeOK, NEW b \in Breaker \cap File
    PROVE  data[b].turns \in Int /\ data[b].round_id \in Nat
BY TypeParts DEF CallsTypeOK, PrivateData

\* A handler saves the data of one file.
LEMMA SavesOne ==
    ASSUME TypeOK, NEW c \in Caller, NEW d, Save(c, d)
    PROVE  /\ data'[fileOf(c)] = d
           /\ \A b \in File \ {fileOf(c)} : data'[b] = data[b]
BY Files DEF TypeOK, CallsTypeOK, Save

LEMMA OthersStay ==
    ASSUME TypeOK, NEW c \in Caller, NEW l \in Location, Goto(c, l)
    PROVE  /\ \A b \in Caller \ {c} : pc'[b] = pc[b]
           /\ pc'[c] = l
BY DEF TypeOK, CallsTypeOK, Goto

\* Handlers save what they read, with a point or without.
LEMMA SaveIsLike ==
    ASSUME NEW c \in Caller, NEW d, Save(c, d) \/ \E won : Save(c, Scored(d, won))
    PROVE  SavesLike(c, d)
<1>1. CASE Save(c, d)
  BY <1>1 DEF SavesLike
<1>2. ASSUME NEW won, Save(c, Scored(d, won)) PROVE SavesLike(c, d)
  <2>1. Scored(d, won).turns = d.turns /\ Scored(d, won).round_id = d.round_id
    BY DEF Scored, Data
  <2> QED
    BY <1>2, <2>1 DEF SavesLike
<1> QED
  BY <1>1, <1>2

LEMMA TurnStep ==
    ASSUME TypeOK, InOpenFile, [Next]_vars
    PROVE  \/ NoTurn
           \/ \E c \in Caller : Admits(c)
           \/ \E c \in Breaker : Saves(c) \/ Spends(c) \/ BreakerRelease(c)
<1>0. Breaker \subseteq Caller
  BY Files
\* How the smaller parts of the actions move.
<1>1. ASSUME NEW c \in Caller, UNCHANGED <<num_of_codebrakers_playing, data>>,
             \/ UNCHANGED pc
             \/ \E l \in Location \ {"wrWait", "gsCopy"} : Goto(c, l)
      PROVE  NoTurn
  BY <1>0, <1>1, OthersStay DEF NoTurn, Holds
<1>2. ASSUME NEW c \in Breaker, IsOpen(fileOf(c)),
             UNCHANGED num_of_codebrakers_playing,
             NEW d \in {private_data(c), Refreshed(c)}, SavesLike(c, d),
             NEW l \in Location, Goto(c, l),
             l \in {"wrWait", "gsCopy"} => Checked(c, d)
      PROVE  Saves(c)
  <2>1. Holds(c)' => Checked(c, d)
    BY <1>0, <1>2, OthersStay DEF Holds
  <2>2. \A b \in Breaker \ {c} : Holds(b)' => Holds(b)
    BY <1>0, <1>2, OthersStay DEF Holds
  <2> QED
    BY <1>2, <2>1, <2>2 DEF Saves
<1>3. ASSUME NEW c \in Breaker, NEW d,
             CopyFeedback(c, d) \/ TakeFeedback(c, d)
      PROVE  /\ SavesLike(c, d)
             /\ \E l \in Location \ {"wrWait", "gsCopy"} : Goto(c, l)
  BY <1>0, <1>3, Names, SaveIsLike DEF CopyFeedback, TakeFeedback, SleepIn, Return
<1>4. ASSUME NEW c \in Breaker, IsOpen(fileOf(c)),
             NEW d \in {private_data(c), Refreshed(c)}, Checked(c, d),
             CopyGuess(c, d) \/ WriteGuess(c, d)
      PROVE  Saves(c) \/ Spends(c)
  <2>1. ASSUME NEW g, RejectGuess(c, d, g) PROVE Saves(c)
    BY <1>0, <1>2, <1>4, <2>1, Names, SaveIsLike DEF RejectGuess, Return, counts
  <2>2. CASE SleepIn(c, "gsCopy") /\ Save(c, d) /\ UNCHANGED counts
    BY <1>0, <1>2, <1>4, <2>2, Names, SaveIsLike DEF SleepIn, counts
  <2>3. ASSUME NEW g \in Code \cup {Blank}, AcceptGuess(c, d, g) PROVE Spends(c)
    BY <1>4, <2>3 DEF Spends
  <2>4. guessBuf \in Code \cup {Blank}
    BY TypeParts DEF BufTypes
  <2>5. WriteGuess(c, d) => Saves(c) \/ Spends(c)
    BY <2>1, <2>3, <2>4 DEF WriteGuess
  <2> QED
    BY <1>4, <2>2, <2>5 DEF CopyGuess
\* A call is made on an open file.
<1>a. ASSUME NEW c \in Caller,
             Ready(c) \/ \E l \in {"rdWait", "wrWait", "gsCopy", "rdCopy"} : At(c, l)
      PROVE  IsOpen(fileOf(c))
  BY <1>a DEF Ready, InOpenFile, InCall, At
<1> USE DEF Return, counts
\* The actions.
<1>5. ASSUME NEW c \in Caller, Open(c) \/ OpenAllocated(c)
      PROVE  NoTurn \/ Admits(c)
  <2>1. CASE UNCHANGED <<counts, data, pc>>
    BY <1>1, <2>1
  <2>2. CASE SleepIn(c, "opening") /\ UNCHANGED <<counts, data>>
    BY <1>1, <2>2, Names DEF SleepIn
  <2> QED
    BY <1>5, <2>1, <2>2 DEF At, Open, OpenAllocated, Admits
<1>6. ASSUME NEW c \in Caller, MakerRelease(c) PROVE NoTurn
  <2>1. c \in Maker /\ Goto(c, "closed") /\ Save(c, NoData)
    BY <1>6 DEF MakerRelease, Gone
  <2>2. \A b \in Breaker \cap File : data'[b] = data[b]
    BY <2>1, Files, SavesOne
  <2>3. \A b \in Breaker : pc'[b] = pc[b]
    BY <2>1, Files, Names, OthersStay
  <2> QED
    BY <1>6, <2>2, <2>3 DEF NoTurn, Holds, MakerRelease
<1>7. ASSUME NEW c \in Caller, MakerRead(c) \/ MakerReadWoken(c) PROVE NoTurn
  BY <1>1, <1>7, Names DEF MakerRead, MakerReadWoken, CopyOut, SleepOn
<1>8. ASSUME NEW c \in Caller, BreakerRead(c)
      PROVE  NoTurn \/ (c \in Breaker /\ Saves(c))
  <2>1. c \in Breaker /\ IsOpen(fileOf(c))
    BY <1>8, <1>a DEF BreakerRead
  <2>2. \E l \in Location \ {"wrWait", "gsCopy"} : Goto(c, l)
    BY <1>3, <1>8, <2>1, Names DEF BreakerRead, SleepOn
  <2>3. UNCHANGED num_of_codebrakers_playing
    BY <1>8 DEF BreakerRead
  <2>4. CASE UNCHANGED data
    BY <1>1, <2>2, <2>3, <2>4
  <2>5. CASE Save(c, Refreshed(c)) \/ CopyFeedback(c, Refreshed(c))
    BY <1>2, <1>3, <2>1, <2>2, <2>3, <2>5, SaveIsLike, Files
  <2> QED
    BY <1>8, <2>1, <2>4, <2>5 DEF BreakerRead
<1>b. ASSUME NEW c \in Caller, UNCHANGED num_of_codebrakers_playing,
              NEW l \in Location \ {"wrWait", "gsCopy"}, Goto(c, l),
              SavesLike(c, private_data(c))
       PROVE  NoTurn
  <2>1. \A b \in Breaker \cap File : data'[b].turns = data[b].turns
    BY <1>b, SavesOne DEF SavesLike, private_data
  <2> QED
    BY <1>0, <1>b, <2>1, OthersStay DEF NoTurn, Holds
<1>9. ASSUME NEW c \in Caller, BreakerReadWoken(c) \/ BreakerReadCopied(c)
      PROVE  NoTurn
  <2>1. UNCHANGED num_of_codebrakers_playing /\ c \in Breaker
    BY <1>9 DEF BreakerReadWoken, BreakerReadCopied
  <2>2. CASE UNCHANGED data /\ Goto(c, "idle")
    BY <1>1, <2>1, <2>2, Names
  <2>3. CASE CopyFeedback(c, private_data(c)) \/ TakeFeedback(c, private_data(c))
    BY <1>3, <1>b, <2>1, <2>3, Files
  <2> QED
    BY <1>9, <2>2, <2>3 DEF BreakerReadWoken, BreakerReadCopied
<1>10. ASSUME NEW c \in Caller, SetPassword(c), UNCHANGED counts PROVE NoTurn
  BY <1>1, <1>10, Names DEF SetPassword
<1>12. ASSUME NEW c \in Caller, MakerWrite(c) \/ MakerWriteCopied(c) PROVE NoTurn
  <2>1. ASSUME NEW right, SetFeedback(c, right), UNCHANGED counts PROVE NoTurn
    BY <1>b, <2>1, SaveIsLike, Names DEF SetFeedback
  <2>2. CASE MakerWrite(c)
    BY <1>1, <1>10, <2>1, <2>2, Names DEF MakerWrite, SleepIn
  <2>3. CASE MakerWriteCopied(c)
    BY <1>1, <1>10, <2>1, <2>3, Names DEF MakerWriteCopied
  <2> QED
    BY <1>12, <2>2, <2>3
<1>13. ASSUME NEW c \in Caller, BreakerWrite(c)
       PROVE  NoTurn \/ (c \in Breaker /\ (Saves(c) \/ Spends(c)))
  <2>1. c \in Breaker /\ IsOpen(fileOf(c))
    BY <1>13, <1>a DEF BreakerWrite
  <2>2. CASE UNCHANGED <<counts, data>> /\ Goto(c, "idle")
    BY <1>1, <2>2, Names
  <2>3. CASE UNCHANGED counts /\ Save(c, Refreshed(c)) /\ Goto(c, "idle")
    BY <1>0, <1>2, <2>1, <2>3, Names, SaveIsLike
  <2>4. CASE /\ UNCHANGED counts /\ Save(c, Refreshed(c))
             /\ SleepOn(c, "wrWait") /\ ~Exhausted(Refreshed(c).turns)
    BY <1>0, <1>2, <2>1, <2>4, Names, SaveIsLike DEF SleepOn, Checked
  <2>5. CASE CopyGuess(c, Refreshed(c)) /\ ~Exhausted(Refreshed(c).turns)
    BY <1>4, <2>1, <2>5 DEF Checked
  <2> QED
    BY <1>13, <2>1, <2>2, <2>3, <2>4, <2>5 DEF BreakerWrite
<1>14. ASSUME NEW c \in Caller, BreakerWriteWoken(c) \/ BreakerWriteCopied(c)
       PROVE  NoTurn \/ (c \in Breaker /\ (Saves(c) \/ Spends(c)))
  <2>1. /\ c \in Breaker /\ IsOpen(fileOf(c))
        /\ Checked(c, private_data(c))
    BY <1>14, <1>a
    DEF BreakerWriteWoken, BreakerWriteCopied, Woken, At, Checked, Holds
  <2>2. CASE UNCHANGED <<counts, data>> /\ Goto(c, "idle")
    BY <1>1, <2>2, Names
  <2> QED
    BY <1>4, <1>14, <2>1, <2>2 DEF BreakerWriteWoken, BreakerWriteCopied
<1>15. ASSUME NEW c \in Caller, SleepAgain(c) \/ Signal(c) PROVE NoTurn
  BY <1>1, <1>15, Names DEF SleepAgain, Signal
<1>16. ASSUME NEW c \in Caller, NEW arg \in Arg, RoundStart(c, arg) PROVE NoTurn
  BY <1>1, <1>16, Names DEF RoundStart
<1>17. ASSUME NEW c \in Caller, GetMyScore(c) PROVE NoTurn
  BY <1>1, <1>17, Names DEF GetMyScore
<1>18. CASE UNCHANGED vars
  BY <1>18 DEF vars, NoTurn, Holds
<1>19. ASSUME NEW c \in Caller, BreakerRelease(c) PROVE c \in Breaker
  BY <1>19 DEF BreakerRelease
<1>20. CASE Next
  BY <1>5, <1>6, <1>7, <1>8, <1>9, <1>12, <1>13, <1>14, <1>15, <1>16, <1>17,
     <1>19, <1>20, Zenon DEF Next
<1> QED
  BY <1>18, <1>20, Zenon

\* Turns stay in their range; the write of a Codebreaker whose file nobody shares
\* has the turn it is going to spend, once it has passed the check of the turns,
\* however long it sleeps.
THEOREM TurnsInHand == Spec => []TurnInHand
<1>1. Init => TurnInHand
  <2> SUFFICES ASSUME Init PROVE TurnInHand
    OBVIOUS
  <2>1. \A b \in File : data[b].turns = 0 /\ pc[b] = "closed"
    BY Files DEF Init, CallsInit, NoData, Data, File
  <2> QED
    BY <2>1, Files, ConstantsAssumption DEF TurnInHand
<1>2. TypeOK /\ InOpenFile /\ TurnInHand /\ [Next]_vars => TurnInHand'
  <2> SUFFICES ASSUME TypeOK, InOpenFile, TurnInHand, [Next]_vars,
                      NEW b \in Breaker \cap File
               PROVE  /\ data'[b].turns <= NUM_TURNS
                      /\ b \in Sole => /\ data'[b].turns >= 0
                                       /\ Holds(b)' => data'[b].turns > 0
    BY Files DEF TurnInHand, Holds
  <2>0. /\ data[b].turns \in Int /\ data[b].turns <= NUM_TURNS
        /\ b \in Sole => /\ data[b].turns >= 0
                         /\ Holds(b) => data[b].turns > 0
        /\ NUM_TURNS \in Nat \ {0}
    BY TurnsOf, ConstantsAssumption DEF TurnInHand, Holds
  <2> DEFINE Good == /\ data'[b].turns <= NUM_TURNS
                     /\ b \in Sole => /\ data'[b].turns >= 0
                                      /\ Holds(b)' => data'[b].turns > 0
  <2>1. ASSUME data'[b].turns = data[b].turns, b \in Sole => (Holds(b)' => Holds(b))
        PROVE  Good
    BY <2>0, <2>1
  <2>2. CASE NoTurn
    BY <2>1, <2>2 DEF NoTurn
  <2>3. ASSUME NEW c \in Caller, fileOf(c) # b, NEW d, Save(c, d)
        PROVE  data'[b] = data[b] /\ c # b
    BY <2>3, SavesOne, Files
  <2>4. ASSUME NEW c \in Caller, c # b, NEW l \in Location, Goto(c, l)
        PROVE  Holds(b)' => Holds(b)
    BY <2>4, Files, OthersStay DEF Holds
  <2>5. ASSUME NEW c \in Caller, NEW d, Save(c, d), Goto(c, "idle") \/ Goto(c, "closed"),
               d.turns \in 0..NUM_TURNS
        PROVE  Good
    <3>1. CASE fileOf(c) # b
      BY <2>1, <2>3, <2>4, <2>5, <3>1, Names
    <3>2. CASE fileOf(c) = b
      <4>1. data'[b].turns \in 0..NUM_TURNS
        BY <2>5, <3>2, SavesOne
      <4>2. b \in Sole => c = b
        BY <3>2, Files
      <4>3. c = b => ~Holds(b)'
        BY <2>5, Names, OthersStay DEF Holds
      <4> QED
        BY <2>0, <4>1, <4>2, <4>3
    <3> QED
      BY <3>1, <3>2
  <2>6. ASSUME NEW c \in Caller, Admits(c) PROVE Good
    <3>1. Save(c, Fresh(c)) /\ Goto(c, "idle")
      BY <2>6 DEF Admits, Enrol, Return
    <3>2. Fresh(c).turns \in 0..NUM_TURNS
      BY <2>0 DEF Fresh, Data
    <3> QED
      BY <2>5, <3>1, <3>2
  <2>7. ASSUME NEW c \in Breaker, BreakerRelease(c) PROVE Good
    <3>1. Save(c, NoData) /\ Goto(c, "closed")
      BY <2>7 DEF BreakerRelease, Gone
    <3>2. NoData.turns \in 0..NUM_TURNS
      BY <2>0 DEF NoData, Data
    <3> QED
      BY <2>5, <3>1, <3>2, Files
  \* What a handler of b's file finds there.
  <2>8. ASSUME NEW c \in Breaker, fileOf(c) = b,
               NEW d \in {private_data(c), Refreshed(c)}
        PROVE  /\ d.turns \in Int /\ d.turns <= NUM_TURNS
               /\ b \in Sole => d.turns >= 0 /\ c = b
               /\ b \in Sole /\ Checked(c, d) => d.turns > 0
    <3>1. private_data(c) = data[b]
      BY <2>8 DEF private_data
    <3>2. d.turns \in {data[b].turns, NUM_TURNS}
      BY <2>8, <3>1, RefreshedTurns
    <3>3. b \in Sole => c = b
      BY <2>8, Files
    <3> QED
      BY <2>0, <3>1, <3>2, <3>3 DEF Checked, Exhausted
  <2>9. ASSUME NEW c \in Breaker, Saves(c) PROVE Good
    <3>1. PICK d \in {private_data(c), Refreshed(c)} :
            SavesLike(c, d) /\ (Holds(c)' => Checked(c, d))
      BY <2>9 DEF Saves
    <3>2. CASE fileOf(c) = b
      <4>1. data'[b].turns = d.turns
        BY <3>1, <3>2, SavesOne, Files DEF SavesLike
      <4> QED
        BY <2>8, <3>1, <3>2, <4>1
    <3>3. CASE fileOf(c) # b
      <4>1. data'[b] = data[b] /\ c # b
        BY <2>3, <3>1, <3>3, Files DEF SavesLike
      <4>2. Holds(b)' => Holds(b)
        BY <2>9, <4>1 DEF Saves
      <4> QED
        BY <2>1, <4>1, <4>2
    <3> QED
      BY <3>2, <3>3
  <2>10. ASSUME NEW c \in Breaker, Spends(c) PROVE Good
    <3>1. PICK d \in {private_data(c), Refreshed(c)}, g \in Code \cup {Blank} :
            AcceptGuess(c, d, g) /\ Checked(c, d)
      BY <2>10 DEF Spends
    <3>2. Save(c, Data(d.turns - 1, d.score, d.round_id))
      BY <3>1 DEF AcceptGuess
    <3>3. Goto(c, "idle")
      BY <3>1 DEF AcceptGuess, Return
    <3>4. CASE fileOf(c) = b
      <4>1. data'[b].turns = d.turns - 1
        BY <3>2, <3>4, SavesOne, Files DEF Data
      <4>2. pc'[c] = "idle"
        BY <3>3, Names, OthersStay, Files
      <4>3. /\ d.turns \in Int /\ d.turns <= NUM_TURNS
            /\ b \in Sole => c = b /\ d.turns > 0
        BY <2>8, <3>1, <3>4
      <4>4. b \in Sole => ~Holds(b)'
        BY <4>2, <4>3 DEF Holds
      <4> QED
        BY <2>0, <4>1, <4>3, <4>4
    <3>5. CASE fileOf(c) # b
      BY <2>1, <2>3, <2>4, <3>2, <3>3, <3>5, Names, Files
    <3> QED
      BY <3>4, <3>5
  <2> QED
    BY <2>2, <2>6, <2>7, <2>9, <2>10, TurnStep
<1> QED
  BY <1>1, <1>2, TypeCorrect, AlwaysInOpenFile, PTL DEF Spec

-----------------------------------------------------------------------------
(* The count of Codebreakers that still play.                              *)

LEMMA LiveFinite == IsFiniteSet(Live) /\ Cardinality(Live) \in Nat
BY SubsetsFinite DEF Live

\* Who is live after a handler has saved d for c's file.
LEMMA LiveSaved ==
    ASSUME TypeOK, NEW c \in Breaker, NEW d, Save(c, d)
    PROVE  /\ Live' \ {fileOf(c)} = Live \ {fileOf(c)}
           /\ fileOf(c) \in Live' <=> d.turns > 0
           /\ fileOf(c) \in Live <=> private_data(c).turns > 0
<1>1. c \in Caller /\ fileOf(c) \in Breaker \cap File
  BY Files
<1> QED
  BY <1>1, SavesOne DEF Live, private_data

\* A save for a Codemaker's file concerns no Codebreaker.
LEMMA LiveKept ==
    ASSUME TypeOK, NEW c \in Maker, NEW d, Save(c, d)
    PROVE  Live' = Live
<1>1. c \in Caller /\ fileOf(c) \notin Breaker
  BY Files
<1> QED
  BY <1>1, SavesOne DEF Live

\* Only open Codebreakers have turns: a step gives none to another file.
LiveIsOpen == Live \subseteq Enrolled(Breaker)

LEMMA LiveStep ==
    ASSUME TypeOK, InOpenFile, LiveIsOpen, [Next]_vars
    PROVE  LiveIsOpen'
<1> SUFFICES ASSUME NEW b \in Breaker \cap File, b \in Live'
             PROVE  b \in Enrolled(Breaker)'
  BY DEF LiveIsOpen, Live
<1>1. ASSUME NEW c \in Caller, Admits(c), c = b PROVE b \in Enrolled(Breaker)'
  BY <1>1, Names, OthersStay DEF Admits, Enrol, Return, Enrolled, IsOpen
<1>2. b \in Enrolled(Breaker) \/ \E c \in Caller : Admits(c) /\ c = b
  <2>1. CASE NoTurn
    BY <2>1 DEF NoTurn, Live, LiveIsOpen
  <2>2. ASSUME NEW c \in Caller, c \in Maker \/ fileOf(c) # b, NEW d, Save(c, d)
        PROVE  b \in Enrolled(Breaker)
    BY <2>2, Files, LiveSaved, LiveKept DEF LiveIsOpen
  <2>3. ASSUME NEW c \in Caller, Admits(c), c # b PROVE b \in Enrolled(Breaker)
    BY <2>2, <2>3, Files DEF Admits, Enrol
  <2>4. ASSUME NEW c \in Breaker, Saves(c) \/ Spends(c), fileOf(c) = b
        PROVE  b \in Enrolled(Breaker)
    BY <2>4 DEF Saves, Spends, Enrolled
  <2>5. ASSUME NEW c \in Breaker, Saves(c) \/ Spends(c) \/ BreakerRelease(c)
        PROVE  \E d : Save(c, d)
    BY <2>5 DEF Saves, SavesLike, Spends, AcceptGuess, BreakerRelease, Gone
  <2>6. ASSUME NEW c \in Breaker, BreakerRelease(c), fileOf(c) = b PROVE FALSE
    BY <2>6, LiveSaved DEF BreakerRelease, Gone, NoData, Data
  <2> QED
    BY <2>1, <2>2, <2>3, <2>4, <2>5, <2>6, Files, TurnStep
<1>3. CASE b \in Enrolled(Breaker)
  <2>1. CASE Enrolled(Breaker)' = Enrolled(Breaker)
    BY <1>3, <2>1
  <2>2. ASSUME NEW c \in Caller, NEW l \in Location, Goto(c, l), c # b
        PROVE  b \in Enrolled(Breaker)'
    BY <1>3, <2>2, Files, OthersStay DEF Enrolled, IsOpen
  <2>3. ASSUME NEW c \in Caller, Admits(c) \/ MakerRelease(c) \/ BreakerRelease(c)
        PROVE  \E l \in Location : Goto(c, l)
    BY <2>3, Names DEF Admits, Enrol, Return, MakerRelease, BreakerRelease, Gone
  <2>4. ASSUME NEW c \in Caller, MakerRelease(c) PROVE c # b
    BY <2>4, Files DEF MakerRelease
  <2>5. ASSUME NEW c \in Caller, BreakerRelease(c) PROVE c # b
    BY <2>5, Files, LiveSaved DEF BreakerRelease, Gone, NoData, Data
  <2> QED
    BY <1>1, <2>1, <2>2, <2>3, <2>4, <2>5, EnrolStep
<1> QED
  BY <1>1, <1>2, <1>3

\* At first nobody has turns.
LEMMA NoneLiveAtFirst == Init => Live = {} /\ Cardinality(Live) = 0
BY FS_EmptySet DEF Init, CallsInit, Live, NoData, Data

\* What an accepted guess does to the counter and to those that are live.
LEMMA SpendStep ==
    ASSUME TypeOK, NEW c \in Breaker, Spends(c)
    PROVE  /\ Live \ {fileOf(c)} = Live' \ {fileOf(c)}
           /\ num_of_codebrakers_playing' \in
                  {num_of_codebrakers_playing, num_of_codebrakers_playing - 1}
           /\ \E d \in {private_data(c), Refreshed(c)} :
                  /\ fileOf(c) \in Live' <=> d.turns > 1
                  /\ fileOf(c) \in Live => d.turns > 0
                  /\ num_of_codebrakers_playing' = num_of_codebrakers_playing - 1
                         <=> d.turns = 1
<1>1. PICK d \in {private_data(c), Refreshed(c)}, g \in Code \cup {Blank} :
          AcceptGuess(c, d, g)
  BY DEF Spends
<1>2. num_of_codebrakers_playing \in Int /\ d.turns \in Int
  BY RefreshedTurns, TypeParts DEF CountTypes
<1>3. Save(c, Data(d.turns - 1, d.score, d.round_id))
  BY <1>1 DEF AcceptGuess
<1>4. /\ Live' \ {fileOf(c)} = Live \ {fileOf(c)}
      /\ fileOf(c) \in Live' <=> d.turns - 1 > 0
      /\ fileOf(c) \in Live <=> private_data(c).turns > 0
  BY <1>3, LiveSaved DEF Data
<1>5. num_of_codebrakers_playing' =
          num_of_codebrakers_playing - (IF d.turns - 1 = 0 THEN 1 ELSE 0)
  BY <1>1 DEF AcceptGuess, Exhausted
<1>6. fileOf(c) \in Live => d.turns > 0
  BY <1>4, RefreshedTurns
<1>7. fileOf(c) \in Live' <=> d.turns > 1
  BY <1>2, <1>4
<1>8. num_of_codebrakers_playing' = num_of_codebrakers_playing - 1 <=> d.turns = 1
  BY <1>2, <1>5
<1>9. num_of_codebrakers_playing' \in
           {num_of_codebrakers_playing, num_of_codebrakers_playing - 1}
  BY <1>2, <1>5
<1> QED
  BY <1>4, <1>6, <1>7, <1>8, <1>9

\* A Codebreaker's file that closes is no longer live, and the counter stays.
LEMMA LeaveStep ==
    ASSUME TypeOK, NEW c \in Breaker, BreakerRelease(c)
    PROVE  Live' \subseteq Live /\ UNCHANGED num_of_codebrakers_playing
<1>1. Save(c, NoData) /\ fileOf(c) = c
  BY Files DEF BreakerRelease, Unused, Gone
<1>2. Live' \ {c} = Live \ {c} /\ c \notin Live'
  BY <1>1, LiveSaved DEF NoData, Data
<1>3. data[c].turns \in Int /\ num_of_codebrakers_playing \in Int
  <2>1. c \in Breaker \cap File
    BY DEF BreakerRelease, Unused
  <2> QED
    BY <2>1, TurnsOf, TypeParts DEF CountTypes
<1>4. Stops(data[c].turns) = 0
  BY <1>3 DEF Stops
<1> QED
  BY <1>2, <1>3, <1>4 DEF BreakerRelease

\* And what one that opens adds.
LEMMA JoinStep ==
    ASSUME TypeOK, LiveIsOpen, NEW c \in Caller, Admits(c)
    PROVE  \/ Live' = Live /\ UNCHANGED num_of_codebrakers_playing
           \/ /\ c \in Breaker /\ c \notin Live /\ Live' = Live \cup {c}
              /\ num_of_codebrakers_playing' = num_of_codebrakers_playing + 1
<1>1. Save(c, Fresh(c)) /\ fileOf(c) = c
  BY Files DEF Admits, Enrol
<1>2. CASE c \in Maker
  BY <1>1, <1>2, LiveKept DEF Admits, Enrol
<1>3. CASE c \notin Maker
  <2>1. c \in Breaker /\ num_of_codebrakers_playing' = num_of_codebrakers_playing + 1
    BY <1>3, Files DEF Admits, Enrol
  <2>2. c \notin Live
    BY DEF Admits, LiveIsOpen, Enrolled, IsOpen
  <2>3. Fresh(c).turns > 0
    BY <2>1, ConstantsAssumption DEF Fresh, Data
  <2>4. Live' \ {c} = Live \ {c} /\ c \in Live'
    BY <1>1, <2>1, <2>3, LiveSaved
  <2> QED
    BY <2>1, <2>2, <2>4
<1> QED
  BY <1>2, <1>3

\* A call on the file b is in a write that is going to spend a turn.
Held(b) == \E c \in Caller : fileOf(c) = b /\ Holds(c)

\* b has no turn left or is about to spend one, so it has been in a round.
Charged(b) == Held(b) \/ (IsOpen(b) /\ data[b].turns <= 0)

\* Nothing that matters of b changes.
Rests(b) ==
    /\ data'[b].turns = data[b].turns /\ data'[b].round_id = data[b].round_id
    /\ Held(b)' => Held(b)
    /\ IsOpen(b)' => IsOpen(b)

\* A call on b sees the round in progress and refills, or goes on with a write.
Plays(b) ==
    \/ in_round /\ data'[b].round_id = round_id
    \/ Held(b) /\ data'[b].round_id = data[b].round_id

\* b is opened or closed.
Changes(b) ==
    /\ ~Held(b)'
    /\ \/ data'[b] = Data(NUM_TURNS, 0, round_id)
       \/ data'[b] = NoData /\ ~IsOpen(b)'

\* A call begins such a write only by going to one of its places.
LEMMA HeldStays ==
    ASSUME TypeOK, NEW b \in File, NEW c \in Caller, NEW l \in Location, Goto(c, l),
           l \in {"wrWait", "gsCopy"} /\ fileOf(c) = b => Holds(c)
    PROVE  Held(b)' => Held(b)
<1> SUFFICES ASSUME NEW e \in Caller, fileOf(e) = b, Holds(e)' PROVE Holds(e)
  BY DEF Held, fileOf
<1> QED
  BY OthersStay DEF Holds

\* Nor does a file open but by open.
LEMMA OpenStays ==
    ASSUME TypeOK, NEW b \in File, NEW c \in Caller, NEW l \in Location, Goto(c, l),
           c = b /\ l \notin {"closed", "opening"} => IsOpen(b)
    PROVE  IsOpen(b)' => IsOpen(b)
BY OthersStay, Files DEF IsOpen

LEMMA PlayStep ==
    ASSUME TypeOK, InOpenFile, [Next]_vars, NEW b \in Breaker \cap File
    PROVE  Rests(b) \/ Plays(b) \/ Changes(b)
<1>1. ASSUME NEW c \in Caller, NEW l \in Location, Goto(c, l), UNCHANGED data,
             fileOf(c) = b => /\ l \in {"wrWait", "gsCopy"} => Holds(c)
                              /\ l \notin {"closed", "opening"} => IsOpen(b)
      PROVE  Rests(b)
  BY <1>1, HeldStays, OpenStays, Files DEF Rests
<1>2. UNCHANGED <<pc, data>> => Rests(b)
  BY DEF Rests, Held, Holds, IsOpen, fileOf
\* A handler of another file that saves its private data.
<1>3. ASSUME NEW c \in Caller, fileOf(c) # b, NEW d, Save(c, d),
             NEW l \in Location, Goto(c, l)
      PROVE  Rests(b)
  <2>1. data'[b] = data[b] /\ c # b
    BY <1>3, SavesOne, Files
  <2> QED
    BY <1>3, <2>1, HeldStays, OpenStays DEF Rests
<1>4. ASSUME NEW c \in Breaker, fileOf(c) = b, SavesLike(c, Refreshed(c)), in_round
      PROVE  Plays(b)
  BY <1>4, SavesOne, Files DEF SavesLike, Refreshed, Data, Plays
<1>5. ASSUME NEW c \in Caller,
             Ready(c) \/ \E l \in {"rdWait", "wrWait", "gsCopy", "rdCopy"} : At(c, l)
      PROVE  IsOpen(fileOf(c))
  BY <1>5 DEF Ready, InOpenFile, InCall, At
<1> USE DEF Return
<1>6. ASSUME NEW c \in Caller, Open(c) \/ OpenAllocated(c)
      PROVE  Rests(b) \/ Changes(b)
  <2>0. c \in File /\ fileOf(c) = c /\ ~IsOpen(c)
    BY <1>6, Files DEF Open, OpenAllocated, At, IsOpen
  <2>1. CASE UNCHANGED <<data, pc>>
    BY <1>2, <2>1
  <2>2. CASE SleepIn(c, "opening") /\ UNCHANGED data
    BY <1>1, <2>2, Names DEF SleepIn
  <2>3. CASE Enrol(c) /\ c # b
    BY <1>3, <2>0, <2>3, Names DEF Enrol
  <2>4. CASE Enrol(c) /\ c = b
    <3>1. ~Held(b)
      BY <2>0, <2>4 DEF Held, Holds, InOpenFile, InCall
    <3>2. ~Held(b)'
      BY <2>4, <3>1, HeldStays, Names DEF Enrol
    <3>3. data'[b] = Data(NUM_TURNS, 0, round_id)
      BY <2>0, <2>4, SavesOne DEF Enrol, Fresh
    <3> QED
      BY <3>2, <3>3 DEF Changes
  <2> QED
    BY <1>6, <2>1, <2>2, <2>3, <2>4 DEF Open, OpenAllocated
<1>7. ASSUME NEW c \in Caller, MakerRelease(c) \/ BreakerRelease(c)
      PROVE  Rests(b) \/ Changes(b)
  <2>1. Save(c, NoData) /\ Goto(c, "closed") /\ Unused(c) /\ fileOf(c) = c
    BY <1>7, Files DEF MakerRelease, BreakerRelease, Gone, Unused
  <2>2. CASE c # b
    BY <1>3, <2>1, <2>2, Names
  <2>3. CASE c = b
    <3>1. ~Held(b)
      BY <2>1, <2>3 DEF Unused, At, Held, Holds
    <3>2. ~Held(b)'
      BY <2>1, <2>3, <3>1, HeldStays, Names
    <3>3. data'[b] = NoData /\ ~IsOpen(b)'
      BY <2>1, <2>3, SavesOne, OthersStay, Names DEF IsOpen
    <3> QED
      BY <3>2, <3>3 DEF Changes
  <2> QED
    BY <2>2, <2>3
<1>8. ASSUME NEW c \in Maker PROVE c \in Caller /\ fileOf(c) # b
  BY Files
<1>9. ASSUME NEW c \in Caller, MakerRead(c) \/ MakerReadWoken(c) PROVE Rests(b)
  BY <1>1, <1>8, <1>9, Names DEF MakerRead, MakerReadWoken, CopyOut, SleepOn
<1>10. ASSUME NEW c \in Caller, MakerWrite(c) \/ MakerWriteCopied(c) PROVE Rests(b)
  <2>1. c \in Maker /\ fileOf(c) # b
    BY <1>8, <1>10 DEF MakerWrite, MakerWriteCopied
  <2>2. ASSUME NEW right, SetPassword(c) \/ SetFeedback(c, right) PROVE Rests(b)
    BY <1>1, <1>3, <2>1, <2>2, Names DEF SetPassword, SetFeedback
  <2> QED
    BY <1>1, <1>10, <2>1, <2>2, Names
    DEF MakerWrite, MakerWriteCopied, SleepIn
<1>11. ASSUME NEW c \in Caller, NEW d, CopyFeedback(c, d) \/ TakeFeedback(c, d)
       PROVE  SavesLike(c, d) /\ \E l \in {"idle", "rdCopy"} : Goto(c, l)
  BY <1>11, SaveIsLike DEF CopyFeedback, TakeFeedback, SleepIn
<1>a. ASSUME NEW c \in Breaker, SavesLike(c, private_data(c)), IsOpen(fileOf(c)),
             NEW l \in {"idle", "rdCopy"}, Goto(c, l)
      PROVE  Rests(b)
  <2>1. CASE fileOf(c) # b
    BY <1>3, <1>a, <2>1, Names, Files DEF SavesLike
  <2>2. CASE fileOf(c) = b
    <3>1. /\ data'[b].turns = data[b].turns
          /\ data'[b].round_id = data[b].round_id
      BY <1>a, <2>2, SavesOne, Files DEF SavesLike, private_data
    <3> QED
      BY <1>a, <2>2, <3>1, HeldStays, OpenStays, Names, Files DEF Rests
  <2> QED
    BY <2>1, <2>2
<1>12. ASSUME NEW c \in Caller,
              BreakerRead(c) \/ BreakerReadWoken(c) \/ BreakerReadCopied(c)
       PROVE  Rests(b) \/ Plays(b)
  <2>1. PICK l \in {"idle", "rdWait", "rdCopy"} : Goto(c, l)
    BY <1>11, <1>12 DEF BreakerRead, BreakerReadWoken, BreakerReadCopied, SleepOn
  <2>2. c \in Breaker /\ IsOpen(fileOf(c))
    BY <1>5, <1>12 DEF BreakerRead, BreakerReadWoken, BreakerReadCopied, Woken
  <2>3. CASE UNCHANGED data
    BY <1>1, <2>1, <2>2, <2>3, Names
  <2>4. CASE in_round /\ SavesLike(c, Refreshed(c))
    BY <1>3, <1>4, <2>1, <2>2, <2>4, Names DEF SavesLike
  <2>5. CASE BreakerRead(c)
    BY <1>11, <2>2, <2>3, <2>4, <2>5, SaveIsLike, Files DEF BreakerRead
  <2>6. CASE BreakerReadWoken(c) \/ BreakerReadCopied(c)
    <3>1. ASSUME CopyFeedback(c, private_data(c)) \/ TakeFeedback(c, private_data(c))
          PROVE  Rests(b)
      BY <1>11, <1>a, <2>2, <3>1, Files
    <3> QED
      BY <2>3, <2>6, <3>1 DEF BreakerReadWoken, BreakerReadCopied
  <2> QED
    BY <1>12, <2>5, <2>6
\* The parts of a Codebreaker's write.
<1>13. ASSUME NEW c \in Breaker, NEW d, CopyGuess(c, d) \/ WriteGuess(c, d)
       PROVE  /\ \E l \in {"idle", "gsCopy"} : Goto(c, l)
              /\ \E e : Save(c, e) /\ e.round_id = d.round_id
  <2>1. ASSUME NEW g, RejectGuess(c, d, g)
        PROVE  Goto(c, "idle") /\ Save(c, d)
    BY <2>1 DEF RejectGuess
  <2>2. ASSUME NEW g, AcceptGuess(c, d, g)
        PROVE  Goto(c, "idle") /\ \E e : Save(c, e) /\ e.round_id = d.round_id
    BY <2>2 DEF AcceptGuess, Data
  <2>3. CASE SleepIn(c, "gsCopy") /\ Save(c, d)
    BY <2>3 DEF SleepIn
  <2> QED
    BY <1>13, <2>1, <2>2, <2>3 DEF CopyGuess, WriteGuess
<1>14. ASSUME NEW c \in Breaker, NEW d, CopyGuess(c, d) \/ WriteGuess(c, d),
              \/ in_round /\ d = Refreshed(c)
              \/ Holds(c) /\ d = private_data(c)
       PROVE  Rests(b) \/ Plays(b)
  <2>1. PICK e : Save(c, e) /\ e.round_id = d.round_id
    BY <1>13, <1>14
  <2>2. PICK l \in {"idle", "gsCopy"} : Goto(c, l)
    BY <1>13, <1>14
  <2>3. CASE fileOf(c) = b
    <3>1. data'[b].round_id = d.round_id
      BY <2>1, <2>3, SavesOne, Files
    <3>2. Refreshed(c).round_id = round_id
      BY DEF Refreshed, Data
    <3>3. Holds(c) => Held(b)
      BY <2>3, Files DEF Held
    <3> QED
      BY <1>14, <2>3, <3>1, <3>2, <3>3 DEF Plays, private_data
  <2>4. CASE fileOf(c) # b
    BY <1>3, <2>1, <2>2, <2>4, Names, Files
  <2> QED
    BY <2>3, <2>4
<1>15. ASSUME NEW c \in Caller, BreakerWrite(c) PROVE Rests(b) \/ Plays(b)
  <2>1. c \in Breaker /\ IsOpen(fileOf(c))
    BY <1>5, <1>15 DEF BreakerWrite
  <2>2. CASE UNCHANGED data /\ Goto(c, "idle")
    BY <1>1, <2>1, <2>2, Names
  <2>3. ASSUME in_round, Save(c, Refreshed(c)), NEW l \in Location, Goto(c, l)
        PROVE  Rests(b) \/ Plays(b)
    BY <1>3, <1>4, <2>1, <2>3, SaveIsLike
  <2>4. CASE in_round /\ CopyGuess(c, Refreshed(c))
    BY <1>14, <2>1, <2>4
  <2> QED
    BY <1>15, <2>2, <2>3, <2>4, Names DEF BreakerWrite, SleepOn
<1>16. ASSUME NEW c \in Caller, BreakerWriteWoken(c) \/ BreakerWriteCopied(c)
       PROVE  Rests(b) \/ Plays(b)
  <2>1. c \in Breaker /\ Holds(c) /\ IsOpen(fileOf(c))
    BY <1>5, <1>16 DEF BreakerWriteWoken, BreakerWriteCopied, Woken, At, Holds
  <2>2. CASE UNCHANGED data /\ Goto(c, "idle")
    BY <1>1, <2>1, <2>2, Names
  <2> QED
    BY <1>14, <1>16, <2>1, <2>2 DEF BreakerWriteWoken, BreakerWriteCopied
<1>17. ASSUME NEW c \in Caller, SleepAgain(c) \/ Signal(c) PROVE Rests(b)
  <2>1. CASE UNCHANGED <<pc, data>>
    BY <1>2, <2>1
  <2>2. CASE Signal(c) /\ Goto(c, "idle")
    <3>1. IsOpen(fileOf(c)) /\ UNCHANGED data
      BY <1>5, <2>2 DEF Signal, Waiting, At
    <3> QED
      BY <1>1, <2>2, <3>1, Names
  <2> QED
    BY <1>17, <2>1, <2>2 DEF SleepAgain, Signal
<1>18. ASSUME NEW c \in Caller, NEW arg \in Arg, RoundStart(c, arg) PROVE Rests(b)
  BY <1>1, <1>5, <1>18, Names DEF RoundStart
<1>19. ASSUME NEW c \in Caller, GetMyScore(c) PROVE Rests(b)
  BY <1>1, <1>5, <1>19, Names DEF GetMyScore
<1>20. UNCHANGED vars => Rests(b)
  BY <1>2 DEF vars
<1>21. Next => Rests(b) \/ Plays(b) \/ Changes(b)
  BY <1>6, <1>7, <1>9, <1>10, <1>12, <1>15, <1>16, <1>17, <1>18, <1>19, Zenon
  DEF Next
<1> QED
  BY <1>20, <1>21

\* Rounds are numbered from 1, and only ROUND_START begins one.
LEMMA RoundIdStep ==
    ASSUME [Next]_vars
    PROVE  \/ UNCHANGED round_id /\ (in_round' => in_round)
           \/ round_id' = round_id + 1
<1> DEFINE Same == UNCHANGED round_id /\ (in_round' => in_round)
<1> USE DEF round
<1>1. ASSUME NEW c \in Caller,
             \/ Open(c) \/ OpenAllocated(c)
             \/ MakerRelease(c) \/ BreakerRelease(c)
             \/ SleepAgain(c) \/ Signal(c) \/ GetMyScore(c)
      PROVE  Same
  BY <1>1 DEF Open, OpenAllocated, MakerRelease, BreakerRelease, SleepAgain,
     Signal, GetMyScore
<1>2. ASSUME NEW c \in Caller, MakerRead(c) \/ MakerReadWoken(c) PROVE Same
  BY <1>2 DEF MakerRead, MakerReadWoken, CopyOut
<1>3. ASSUME NEW c \in Caller,
             BreakerRead(c) \/ BreakerReadWoken(c) \/ BreakerReadCopied(c)
      PROVE  Same
  <2>1. ASSUME NEW d, CopyFeedback(c, d) \/ TakeFeedback(c, d) PROVE Same
    <3>1. UNCHANGED round_id
      BY <2>1 DEF CopyFeedback, TakeFeedback
    <3>2. in_round' => in_round
      BY <2>1 DEF CopyFeedback, TakeFeedback
    <3> QED
      BY <3>1, <3>2
  <2> QED
    BY <1>3, <2>1 DEF BreakerRead, BreakerReadWoken, BreakerReadCopied
<1>4. ASSUME NEW c \in Caller, MakerWrite(c) \/ MakerWriteCopied(c) PROVE Same
  BY <1>4 DEF MakerWrite, MakerWriteCopied
<1>5. ASSUME NEW c \in Caller,
             BreakerWrite(c) \/ BreakerWriteWoken(c) \/ BreakerWriteCopied(c)
      PROVE  Same
  BY <1>5 DEF BreakerWrite, BreakerWriteWoken, BreakerWriteCopied, CopyGuess,
     WriteGuess
<1>6. ASSUME NEW c \in Caller, NEW arg \in Arg, RoundStart(c, arg)
      PROVE  Same \/ round_id' = round_id + 1
  BY <1>6 DEF RoundStart
<1>7. UNCHANGED vars => Same
  BY DEF vars
<1> HIDE DEF Same
<1>8. Next => Same \/ round_id' = round_id + 1
  BY <1>1, <1>2, <1>3, <1>4, <1>5, <1>6, Zenon DEF Next
<1> QED
  BY <1>7, <1>8 DEF Same

\* Who has no turn left, or is spending one, belongs to a round that began.
ChargedInRound ==
    /\ in_round => round_id >= 1
    /\ \A b \in Breaker \cap File : /\ data[b].round_id <= round_id
                                    /\ Charged(b) => data[b].round_id >= 1

LEMMA ChargedStep ==
    TypeOK /\ InOpenFile /\ ChargedInRound /\ [Next]_vars => ChargedInRound'
<1> SUFFICES ASSUME TypeOK, InOpenFile, ChargedInRound, [Next]_vars
             PROVE  ChargedInRound'
  OBVIOUS
<1>1. round_id \in Nat /\ round_id' \in {round_id, round_id + 1}
  BY RoundIdStep, TypeParts DEF RoundTypes
<1>2. in_round' => round_id' >= 1
  BY <1>1, RoundIdStep DEF ChargedInRound
<1>3. ASSUME NEW b \in Breaker \cap File
      PROVE  /\ data'[b].round_id <= round_id'
             /\ Charged(b)' => data'[b].round_id >= 1
  <2>1. /\ data[b].round_id \in Nat /\ data[b].round_id <= round_id
        /\ Charged(b) => data[b].round_id >= 1
        /\ in_round => round_id >= 1
    BY TurnsOf DEF ChargedInRound
  <2>2. CASE Rests(b)
    <3>1. Charged(b)' => Charged(b)
      BY <2>2 DEF Rests, Charged
    <3> QED
      BY <1>1, <2>1, <2>2, <3>1 DEF Rests
  <2>3. CASE Plays(b)
    <3>1. Held(b) => Charged(b)
      BY DEF Charged
    <3> QED
      BY <1>1, <2>1, <2>3, <3>1 DEF Plays
  <2>4. CASE Changes(b)
    <3>1. CASE data'[b] = Data(NUM_TURNS, 0, round_id) /\ ~Held(b)'
      <4>1. ~Charged(b)'
        BY <3>1, ConstantsAssumption DEF Charged, Data
      <4> QED
        BY <1>1, <3>1, <4>1 DEF Data
    <3>2. CASE data'[b] = NoData /\ ~IsOpen(b)' /\ ~Held(b)'
      <4>1. ~Charged(b)'
        BY <3>2 DEF Charged
      <4> QED
        BY <1>1, <3>2, <4>1 DEF NoData, Data
    <3> QED
      BY <2>4, <3>1, <3>2 DEF Changes
  <2> QED
    BY <2>2, <2>3, <2>4, PlayStep
<1> QED
  BY <1>2, <1>3 DEF ChargedInRound

\* In the first round nobody's turns are refilled from nothing.
LEMMA NotFromNothing ==
    ASSUME TypeOK, ChargedInRound, round_id <= 1,
           NEW c \in Breaker, IsOpen(fileOf(c))
    PROVE  Refreshed(c).turns > 0 <=> private_data(c).turns > 0
<1> DEFINE b == fileOf(c)
<1>1. b \in Breaker \cap File /\ private_data(c) = data[b]
  BY Files DEF private_data
<1>2. /\ data[b].turns \in Int /\ data[b].round_id \in Nat /\ round_id \in Nat
      /\ data[b].round_id <= round_id
      /\ data[b].turns <= 0 => data[b].round_id >= 1
  BY <1>1, TurnsOf, TypeParts DEF RoundTypes, ChargedInRound, Charged
<1>3. CASE data[b].turns <= 0
  <2>1. data[b].round_id = round_id
    BY <1>2, <1>3
  <2> QED
    BY <1>1, <2>1 DEF Refreshed
<1>4. CASE data[b].turns > 0
  BY <1>1, <1>4, RefreshedTurns
<1> QED
  BY <1>2, <1>3, <1>4

\* In the first round a read of the Codemaker does not take a Codebreaker for
\* one that has lost its turns: num_of_codebrakers_playing never falls behind
\* the number of Codebreakers that have some.
THEOREM PlayersAreRemembered == Spec => []PlayersNotForgotten
<1> DEFINE Inv == LiveIsOpen /\ ChargedInRound /\ PlayersNotForgotten
<1>1. Init => Inv
  <2> SUFFICES ASSUME Init PROVE Inv
    OBVIOUS
  <2>1. \A c \in Caller : pc[c] \in {"idle", "closed"}
    BY DEF Init, CallsInit
  <2>2. \A b \in File : /\ data[b].round_id = 0 /\ data[b].turns = 0
                        /\ ~IsOpen(b)
    BY Files DEF Init, CallsInit, NoData, Data, IsOpen, File
  <2>3. ChargedInRound
    BY <2>1, <2>2 DEF Init, ChargedInRound, Charged, Held, Holds
  <2> QED
    BY <2>3, NoneLiveAtFirst DEF Init, LiveIsOpen, PlayersNotForgotten
<1>2. TypeOK /\ InOpenFile /\ Inv /\ [Next]_vars => Inv'
  <2> SUFFICES ASSUME TypeOK, InOpenFile, LiveIsOpen, ChargedInRound, PlayersNotForgotten,
                      [Next]_vars, round_id' <= 1
               PROVE  Cardinality(Live') <= num_of_codebrakers_playing'
    BY LiveStep, ChargedStep DEF PlayersNotForgotten, Live
  <2>0. /\ round_id <= 1
        /\ num_of_codebrakers_playing \in Int
        /\ Cardinality(Live) <= num_of_codebrakers_playing
        /\ Cardinality(Live) \in Nat
    <3>1. round_id \in Nat /\ round_id' \in {round_id, round_id + 1}
      BY RoundIdStep, TypeParts DEF RoundTypes
    <3>2. round_id <= 1
      BY <3>1
    <3> QED
      BY <3>2, LiveFinite, TypeParts DEF CountTypes, PlayersNotForgotten
  <2>1. ASSUME Live' = Live, UNCHANGED num_of_codebrakers_playing
        PROVE  Cardinality(Live') <= num_of_codebrakers_playing'
    BY <2>0, <2>1
  <2>2. ASSUME NEW f \in Breaker, f \in Live, Live' = Live \ {f},
               num_of_codebrakers_playing' = num_of_codebrakers_playing - 1
        PROVE  Cardinality(Live') <= num_of_codebrakers_playing'
    <3>1. Cardinality(Live \ {f}) = Cardinality(Live) - 1
      BY <2>2, LiveFinite, FS_RemoveElement
    <3> QED
      BY <2>0, <2>2, <3>1
  <2>3. CASE NoTurn
    BY <2>1, <2>3 DEF NoTurn, Live
  <2>4. ASSUME NEW c \in Caller, Admits(c)
        PROVE  Cardinality(Live') <= num_of_codebrakers_playing'
    <3>1. CASE Live' = Live /\ UNCHANGED num_of_codebrakers_playing
      BY <2>1, <3>1
    <3>2. CASE /\ c \notin Live /\ Live' = Live \cup {c}
               /\ num_of_codebrakers_playing' = num_of_codebrakers_playing + 1
      <4>1. Cardinality(Live \cup {c}) = Cardinality(Live) + 1
        BY <3>2, LiveFinite, FS_AddElement
      <4> QED
        BY <2>0, <3>2, <4>1
    <3> QED
      BY <2>4, <3>1, <3>2, JoinStep
  <2>5. ASSUME NEW c \in Breaker, Saves(c)
        PROVE  Cardinality(Live') <= num_of_codebrakers_playing'
    <3>1. PICK d \in {private_data(c), Refreshed(c)} : SavesLike(c, d)
      BY <2>5 DEF Saves
    <3>2. d.turns > 0 <=> private_data(c).turns > 0
      BY <2>0, <2>5, NotFromNothing DEF Saves
    <3>3. Live' = Live
      BY <3>1, <3>2, LiveSaved DEF SavesLike
    <3> QED
      BY <2>1, <2>5, <3>3 DEF Saves
  <2>6. ASSUME NEW c \in Breaker, Spends(c)
        PROVE  Cardinality(Live') <= num_of_codebrakers_playing'
    <3>1. PICK d \in {private_data(c), Refreshed(c)} :
            /\ fileOf(c) \in Live' <=> d.turns > 1
            /\ num_of_codebrakers_playing' = num_of_codebrakers_playing - 1
                   <=> d.turns = 1
      BY <2>6, SpendStep
    <3>2. /\ Live \ {fileOf(c)} = Live' \ {fileOf(c)}
          /\ num_of_codebrakers_playing' \in
                 {num_of_codebrakers_playing, num_of_codebrakers_playing - 1}
          /\ d.turns \in Int
      BY <2>6, SpendStep, RefreshedTurns
    <3>3. fileOf(c) \in Live <=> d.turns > 0
      <4>1. \E e : Save(c, e)
        BY <2>6 DEF Spends, AcceptGuess
      <4>2. fileOf(c) \in Live <=> private_data(c).turns > 0
        BY <4>1, LiveSaved
      <4>3. Refreshed(c).turns > 0 <=> private_data(c).turns > 0
        BY <2>0, <2>6, NotFromNothing DEF Spends
      <4> QED
        BY <4>2, <4>3
    <3>4. CASE d.turns = 1
      <4>1. fileOf(c) \in Live /\ Live' = Live \ {fileOf(c)}
        BY <3>1, <3>2, <3>3, <3>4
      <4> QED
        BY <2>2, <3>1, <3>4, <4>1, Files
    <3>5. CASE d.turns # 1
      <4>1. Live' = Live
        BY <3>1, <3>2, <3>3, <3>5
      <4> QED
        BY <2>1, <3>1, <3>2, <3>5, <4>1
    <3> QED
      BY <3>4, <3>5
  <2>7. ASSUME NEW c \in Breaker, BreakerRelease(c)
        PROVE  Cardinality(Live') <= num_of_codebrakers_playing'
    <3>1. Live' \subseteq Live /\ UNCHANGED num_of_codebrakers_playing
      BY <2>7, LeaveStep
    <3>2. Cardinality(Live') \in Nat /\ Cardinality(Live') <= Cardinality(Live)
      BY <3>1, LiveFinite, FS_Subset, FS_CardinalityType
    <3> QED
      BY <2>0, <3>1, <3>2
  <2> QED
    BY <2>3, <2>4, <2>5, <2>6, <2>7, TurnStep
<1>3. Inv => PlayersNotForgotten
  OBVIOUS
<1> HIDE DEF Inv
<1> QED
  BY <1>1, <1>2, <1>3, TypeCorrect, AlwaysInOpenFile, PTL DEF Spec

-----------------------------------------------------------------------------
(* The guess.                                                              *)

\* Only the writes of Codebreakers change the guess: each has just found the
\* buffer free, or was asleep in the copy.
LEMMA GuessStep ==
    ASSUME [Next]_vars
    PROVE  \/ UNCHANGED guessBuf
           \/ ~guessReady
           \/ \E b \in Breaker : At(b, "gsCopy")
<1> USE DEF bufs
<1>1. ASSUME NEW c \in Caller,
             \/ Open(c) \/ OpenAllocated(c)
             \/ MakerRelease(c) \/ BreakerRelease(c)
             \/ SleepAgain(c) \/ Signal(c) \/ GetMyScore(c)
             \/ \E arg \in Arg : RoundStart(c, arg)
      PROVE  UNCHANGED guessBuf
  BY <1>1 DEF Open, OpenAllocated, MakerRelease, BreakerRelease, SleepAgain,
     Signal, GetMyScore, RoundStart
<1>2. ASSUME NEW c \in Caller,
             \/ MakerRead(c) \/ MakerReadWoken(c)
             \/ MakerWrite(c) \/ MakerWriteCopied(c)
      PROVE  UNCHANGED guessBuf
  BY <1>2 DEF MakerRead, MakerReadWoken, MakerWrite, MakerWriteCopied,
     SetPassword, SetFeedback
<1>3. ASSUME NEW c \in Caller,
             BreakerRead(c) \/ BreakerReadWoken(c) \/ BreakerReadCopied(c)
      PROVE  UNCHANGED guessBuf
  <2>1. ASSUME NEW d, CopyFeedback(c, d) \/ TakeFeedback(c, d)
        PROVE  UNCHANGED guessBuf
    BY <2>1 DEF CopyFeedback, TakeFeedback
  <2> QED
    BY <1>3, <2>1 DEF BreakerRead, BreakerReadWoken, BreakerReadCopied
<1>4. ASSUME NEW c \in Caller, BreakerWrite(c)
      PROVE  UNCHANGED guessBuf \/ ~guessReady
  BY <1>4 DEF BreakerWrite
<1>5. ASSUME NEW c \in Caller, BreakerWriteWoken(c)
      PROVE  ~guessReady
  BY <1>5 DEF BreakerWriteWoken, Woken, At, Condition
<1>6. ASSUME NEW c \in Caller, BreakerWriteCopied(c)
      PROVE  \E b \in Breaker : At(b, "gsCopy")
  BY <1>6 DEF BreakerWriteCopied
<1>7. UNCHANGED vars => UNCHANGED guessBuf
  BY DEF vars
<1>8. CASE Next
  BY <1>1, <1>2, <1>3, <1>4, <1>5, <1>6, <1>8, Zenon DEF Next
<1> QED
  BY <1>7, <1>8

\* A guess that waits for its feedback is not overwritten unless a writer slept
\* in the copy of its own: a writer that waited looks at the buffer again, and
\* nothing comes between that look and the copy when it does not sleep.
THEOREM GuessesAreKept == Spec => GuessKept
<1>1. [Next]_vars =>
          [guessReady /\ guessReady' /\ (\A b \in Breaker : ~At(b, "gsCopy")) =>
               UNCHANGED guessBuf]_vars
  BY GuessStep
<1> QED
  BY <1>1, PTL DEF Spec, GuessKept
=============================================================================
