-------------------------- MODULE MastermindProofs --------------------------
(***************************************************************************)
(* Theorems about the driver Mastermind, for any sets of callers and codes *)
(* and any numbers of turns and rounds: its types, the counters of open    *)
(* files, by which it decides who may open, whether a round can start and  *)
(* whether to wait or to return EOF, and the password of a round.          *)
(***************************************************************************)
EXTENDS Mastermind, FiniteSetTheorems, TLAPS

-----------------------------------------------------------------------------
(* Types.                                                                  *)

\* A caller's file is one that a caller of its kind opens.
LEMMA Files ==
    /\ File \subseteq Caller /\ Sole \subseteq File
    /\ \A c \in Caller : fileOf(c) \in File
    /\ \A c \in Maker : fileOf(c) \in Maker
    /\ \A c \in Breaker : fileOf(c) \in Breaker
    /\ \A f \in File : fileOf(f) = f
    /\ \A c \in Caller : fileOf(c) \in Sole => fileOf(c) = c
    /\ Caller = Maker \cup Breaker /\ Maker \cap Breaker = {}
BY ConstantsAssumption DEF File, Caller, Sharer, Sole, fileOf

\* A call that ends leaves control and answer with their types.
LEMMA ReturnType ==
    ASSUME TypeOK, NEW c \in Caller, NEW op \in Op, NEW v \in Int,
           Return(c, op, v)
    PROVE  /\ pc' \in [Caller -> Location]
           /\ ret' \in [caller : Caller \cup {"kernel"}, op : Op, val : Int]
BY DEF TypeOK, CallsTypeOK, Return, Goto, Answer, Location

\* So does one that moves on to another place.
LEMMA GotoType ==
    ASSUME TypeOK, NEW c \in Caller, NEW l \in Location, Goto(c, l)
    PROVE  pc' \in [Caller -> Location]
BY DEF TypeOK, CallsTypeOK, Goto

\* A save of private data keeps their type, as do a refill and a point.
LEMMA SaveType ==
    ASSUME TypeOK, NEW c \in Caller, NEW d \in PrivateData, Save(c, d)
    PROVE  data' \in [File -> PrivateData]
BY Files DEF TypeOK, CallsTypeOK, Save

\* The private data that a caller works on are those of its file.
LEMMA PrivateDataType ==
    ASSUME TypeOK, NEW c \in Caller
    PROVE  private_data(c) \in PrivateData
BY Files DEF TypeOK, CallsTypeOK, private_data

LEMMA ScoredType ==
    ASSUME NEW d \in PrivateData, NEW won
    PROVE  Scored(d, won) \in PrivateData
BY DEF Scored, Data, PrivateData

LEMMA RefreshedType ==
    ASSUME TypeOK, NEW c \in Caller
    PROVE  Refreshed(c) \in PrivateData
BY ConstantsAssumption, PrivateDataType
DEF TypeOK, CallsTypeOK, Refreshed, PrivateData, Data

LEMMA FreshType ==
    ASSUME TypeOK, NEW c \in Caller
    PROVE  Fresh(c) \in PrivateData /\ NoData \in PrivateData
BY ConstantsAssumption DEF TypeOK, CallsTypeOK, Fresh, NoData, PrivateData, Data

\* The numbers that calls return, the calls, and the places they may be in.
LEMMA Names ==
    /\ \A v \in {-EPERM, -EINTR, -EIO, -ENOMEM, -EFAULT, -EBUSY, -EINVAL, EOF,
                 -1, 0, 1} : v \in Int
    /\ {"open", "release", "read", "write", "ROUND_START", "GET_MY_SCORE"}
          \subseteq Op
    /\ {"closed", "opening", "idle", "rdWait", "wrWait", "pwCopy", "fbCopy",
        "gsCopy", "rdCopy"} \subseteq Location
BY DEF EPERM, EINTR, EIO, ENOMEM, EFAULT, EBUSY, EINVAL, EOF, Op, Location,
       Waiting, Copying

\* The helpers of the actions that set several variables.
LEMMA CopyFeedbackType ==
    ASSUME TypeOK, NEW c \in Caller, CopyFeedback(c) \/ TakeFeedback(c),
           UNCHANGED counts, data' \in [File -> PrivateData]
    PROVE  TypeOK'
<1>1. CASE TakeFeedback(c)
  BY <1>1, Names, ReturnType DEF TypeOK, CallsTypeOK, TakeFeedback, wake_up, counts
<1>2. CASE SleepIn(c, "rdCopy") /\ UNCHANGED <<round, bufs>>
  BY <1>2, Names, GotoType DEF TypeOK, CallsTypeOK, SleepIn, round, bufs, counts
<1> QED
  BY <1>1, <1>2 DEF CopyFeedback

LEMMA SetPasswordType ==
    ASSUME TypeOK, NEW c \in Caller, SetPassword(c), UNCHANGED counts
    PROVE  TypeOK'
BY Names, ReturnType DEF TypeOK, CallsTypeOK, SetPassword, wake_up, round, counts

LEMMA SetFeedbackType ==
    ASSUME TypeOK, NEW c \in Caller, SetFeedback(c), UNCHANGED counts
    PROVE  TypeOK'
<1>1. private_data(c) \in PrivateData
  BY PrivateDataType
<1>2. data' \in [File -> PrivateData]
  BY <1>1, ScoredType, SaveType DEF SetFeedback
<1> QED
  BY <1>2, Names, ReturnType DEF TypeOK, CallsTypeOK, SetFeedback, wake_up, counts

LEMMA RejectGuessType ==
    ASSUME TypeOK, NEW c \in Caller, NEW d \in PrivateData, NEW g \in Code,
           RejectGuess(c, d, g)
    PROVE  TypeOK'
<1>1. data' \in [File -> PrivateData]
  BY SaveType DEF RejectGuess
<1> QED
  BY <1>1, Names, ReturnType DEF TypeOK, CallsTypeOK, RejectGuess, round, counts

LEMMA AcceptGuessType ==
    ASSUME TypeOK, NEW c \in Caller, NEW d \in PrivateData,
           NEW g \in Code \cup {Blank}, AcceptGuess(c, d, g)
    PROVE  TypeOK'
<1>1. Data(d.turns - 1, d.score, d.round_id) \in PrivateData
  BY DEF Data, PrivateData
<1>2. data' \in [File -> PrivateData]
  BY <1>1, ScoredType, SaveType DEF AcceptGuess
<1>3. num_of_codebrakers_playing' \in Int
  BY DEF TypeOK, CallsTypeOK, AcceptGuess
<1>4. maker_won' \in BOOLEAN /\ breaker_won' \in BOOLEAN
  BY DEF AcceptGuess
<1> QED
  BY <1>2, <1>3, <1>4, Names, ReturnType DEF TypeOK, CallsTypeOK, AcceptGuess, wake_up

LEMMA WriteGuessType ==
    ASSUME TypeOK, NEW c \in Caller, NEW d \in PrivateData, WriteGuess(c, d)
    PROVE  TypeOK'
<1>1. guessBuf \in Code \cup {Blank}
  BY DEF TypeOK
<1> QED
  BY <1>1, RejectGuessType, AcceptGuessType DEF WriteGuess

LEMMA CopyGuessType ==
    ASSUME TypeOK, NEW c \in Caller, NEW d \in PrivateData, CopyGuess(c, d)
    PROVE  TypeOK'
<1>1. CASE SleepIn(c, "gsCopy") /\ Save(c, d) /\ UNCHANGED <<round, bufs, counts>>
  BY <1>1, Names, GotoType, SaveType DEF TypeOK, CallsTypeOK, SleepIn, round, bufs, counts
<1> QED
  BY <1>1, WriteGuessType DEF CopyGuess

\* Every variable keeps its type.
LEMMA TypeStep == TypeOK /\ [Next]_vars => TypeOK'
<1> SUFFICES ASSUME TypeOK, [Next]_vars PROVE TypeOK'
  OBVIOUS
<1>1. CASE UNCHANGED vars
  BY <1>1 DEF TypeOK, CallsTypeOK, vars, round, bufs, counts
<1>2. ASSUME NEW c \in Caller, Open(c) PROVE TypeOK'
  <2>1. CASE Enrol(c) /\ UNCHANGED <<round, bufs, asleep>>
    <3>1. data' \in [File -> PrivateData]
      BY <2>1, FreshType, SaveType DEF Enrol
    <3> QED
      BY <2>1, <3>1, Names, ReturnType DEF TypeOK, CallsTypeOK, Enrol, round, bufs
  <2>2. CASE SleepIn(c, "opening") /\ UNCHANGED <<round, bufs, counts, data>>
    <3>1. pc' \in [Caller -> Location]
      BY <2>2, Names, GotoType DEF SleepIn
    <3> QED
      BY <2>2, <3>1 DEF TypeOK, CallsTypeOK, SleepIn, round, bufs, counts
  <2>3. ASSUME NEW v \in {-EPERM, -ENOMEM}, Answer(c, "open", v),
               UNCHANGED <<counts, data, pc>>
        PROVE  TypeOK'
    BY <1>2, <2>3, Names DEF TypeOK, CallsTypeOK, Open, Answer, round, bufs, counts
  <2> QED
    BY <1>2, <2>1, <2>2, <2>3 DEF Open
<1>3. ASSUME NEW c \in Caller, OpenAllocated(c) PROVE TypeOK'
  <2>1. data' \in [File -> PrivateData]
    BY <1>3, FreshType, SaveType DEF OpenAllocated, Enrol
  <2> QED
    BY <1>3, <2>1, Names, ReturnType DEF TypeOK, CallsTypeOK, OpenAllocated, Enrol, round, bufs
<1>4. ASSUME NEW c \in Caller, NEW v \in Int, Gone(c, v)
      PROVE  /\ data' \in [File -> PrivateData]
             /\ pc' \in [Caller -> Location]
             /\ ret' \in [caller : Caller \cup {"kernel"}, op : Op, val : Int]
  BY <1>4, Names, FreshType, SaveType, GotoType DEF Gone, Answer
<1>5. ASSUME NEW c \in Caller, MakerRelease(c) PROVE TypeOK'
  <2>1. \E v \in Int : Gone(c, v)
    BY <1>5, Names DEF MakerRelease
  <2>2. /\ data' \in [File -> PrivateData]
        /\ pc' \in [Caller -> Location]
        /\ ret' \in [caller : Caller \cup {"kernel"}, op : Op, val : Int]
    BY <1>4, <2>1
  <2>3. CASE UNCHANGED <<round, passwordReady, num_of_codemakers, asleep>>
    BY <1>5, <2>2, <2>3 DEF TypeOK, CallsTypeOK, MakerRelease, round
  <2>4. CASE /\ num_of_codemakers' = num_of_codemakers - 1
             /\ ForgetRound /\ wake_up
             /\ UNCHANGED <<round_id, colour_range>>
    <3>1. /\ passwordBuf' \in Code \cup {Blank} /\ guessBuf' \in Code \cup {Blank}
          /\ guessReady' \in BOOLEAN /\ feedbackReady' \in BOOLEAN
          /\ num_of_codebrakers' \in Int /\ num_of_codebrakers_playing' \in Int
      BY <1>5 DEF MakerRelease, TypeOK, CallsTypeOK
    <3>2. /\ in_round' \in BOOLEAN /\ maker_won' \in BOOLEAN
          /\ breaker_won' \in BOOLEAN /\ passwordReady' \in BOOLEAN
      BY <2>4 DEF ForgetRound
    <3>3. /\ num_of_codemakers' \in Int /\ round_id' \in Nat
          /\ colour_range' \in Nat /\ asleep' \subseteq Caller
      BY <2>4 DEF TypeOK, CallsTypeOK, wake_up
    <3> QED
      BY <2>2, <3>1, <3>2, <3>3 DEF TypeOK, CallsTypeOK
  <2> QED
    BY <1>5, <2>3, <2>4 DEF MakerRelease
<1>6. ASSUME NEW c \in Caller, BreakerRelease(c) PROVE TypeOK'
  <2>1. num_of_codebrakers_playing' \in Int /\ num_of_codebrakers' \in Int
    BY <1>6 DEF TypeOK, CallsTypeOK, BreakerRelease, Less
  <2>2. maker_won' \in BOOLEAN
    BY <1>6 DEF BreakerRelease
  <2> QED
    BY <1>4, <1>6, <2>1, <2>2, Names DEF TypeOK, CallsTypeOK, BreakerRelease, bufs
<1>7. ASSUME NEW c \in Caller, MakerRead(c) PROVE TypeOK'
  <2>1. CASE SleepOn(c, "rdWait")
    BY <1>7, <2>1, Names, GotoType
    DEF TypeOK, CallsTypeOK, MakerRead, SleepOn, round, bufs, counts
  <2>2. CASE UNCHANGED asleep /\ \E v \in {-EIO, EOF, 1, -EFAULT} : Return(c, "read", v)
    BY <1>7, <2>2, Names, ReturnType DEF TypeOK, CallsTypeOK, MakerRead, round, bufs, counts
  <2> QED
    BY <1>7, <2>1, <2>2 DEF MakerRead, CopyOut
<1>8. ASSUME NEW c \in Caller, MakerReadWoken(c) PROVE TypeOK'
  <2>1. \E v \in {-EIO, 1, -EFAULT} : Return(c, "read", v)
    BY <1>8 DEF MakerReadWoken, CopyOut
  <2> QED
    BY <1>8, <2>1, Names, ReturnType
    DEF TypeOK, CallsTypeOK, MakerReadWoken, round, bufs, counts
<1>9. ASSUME NEW c \in Caller, BreakerRead(c) PROVE TypeOK'
  <2>1. data' \in [File -> PrivateData]
    BY <1>9, RefreshedType, SaveType DEF BreakerRead, TypeOK, CallsTypeOK
  <2>2. CASE SleepOn(c, "rdWait") /\ UNCHANGED <<round, bufs>>
    BY <1>9, <2>1, <2>2, Names, GotoType
    DEF TypeOK, CallsTypeOK, BreakerRead, SleepOn, round, bufs, counts
  <2>3. CASE /\ UNCHANGED <<round, bufs, asleep>>
             /\ \E v \in {-EIO, -EPERM, EOF} : Return(c, "read", v)
    BY <1>9, <2>1, <2>3, Names, ReturnType
    DEF TypeOK, CallsTypeOK, BreakerRead, round, bufs, counts
  <2> QED
    BY <1>9, <2>1, <2>2, <2>3, CopyFeedbackType DEF BreakerRead
<1>10. ASSUME NEW c \in Caller, BreakerReadWoken(c) PROVE TypeOK'
  <2>1. CASE Return(c, "read", -EIO) /\ UNCHANGED <<round, bufs, asleep>>
    BY <1>10, <2>1, Names, ReturnType
    DEF TypeOK, CallsTypeOK, BreakerReadWoken, round, bufs, counts
  <2> QED
    BY <1>10, <2>1, CopyFeedbackType DEF BreakerReadWoken, TypeOK, CallsTypeOK
<1>11. ASSUME NEW c \in Caller, BreakerReadCopied(c) PROVE TypeOK'
  <2>1. CASE Return(c, "read", -EFAULT) /\ UNCHANGED <<round, bufs, asleep>>
    BY <1>11, <2>1, Names, ReturnType
    DEF TypeOK, CallsTypeOK, BreakerReadCopied, round, bufs, counts
  <2> QED
    BY <1>11, <2>1, CopyFeedbackType DEF BreakerReadCopied, TypeOK, CallsTypeOK
<1>12. ASSUME NEW c \in Caller, MakerWrite(c) PROVE TypeOK'
  <2>1. ASSUME NEW l \in {"pwCopy", "fbCopy"}, SleepIn(c, l),
               UNCHANGED <<round, bufs, data>>
        PROVE  TypeOK'
    BY <1>12, <2>1, Names, GotoType
    DEF TypeOK, CallsTypeOK, MakerWrite, SleepIn, round, bufs, counts
  <2>2. CASE Return(c, "write", -EBUSY) /\ UNCHANGED <<round, bufs, data, asleep>>
    BY <1>12, <2>2, Names, ReturnType DEF TypeOK, CallsTypeOK, MakerWrite, round, bufs, counts
  <2> QED
    BY <1>12, <2>1, <2>2, SetPasswordType, SetFeedbackType DEF MakerWrite
<1>13. ASSUME NEW c \in Caller, MakerWriteCopied(c) PROVE TypeOK'
  <2>1. CASE Return(c, "write", -EFAULT) /\ UNCHANGED <<round, bufs, data, asleep>>
    BY <1>13, <2>1, Names, ReturnType
    DEF TypeOK, CallsTypeOK, MakerWriteCopied, round, bufs, counts
  <2>2. ASSUME SpoilPassword(c), UNCHANGED counts PROVE TypeOK'
    BY <2>2, Names, ReturnType DEF SpoilPassword, TypeOK, CallsTypeOK, round, counts
  <2> QED
    BY <1>13, <2>1, <2>2, SetPasswordType, SetFeedbackType DEF MakerWriteCopied
<1>14. ASSUME NEW c \in Caller, BreakerWrite(c) PROVE TypeOK'
  <2>1. Refreshed(c) \in PrivateData
    BY RefreshedType
  <2>2. CASE /\ \E v \in {-EIO, -EPERM, EOF} : Return(c, "write", v)
             /\ Save(c, Refreshed(c)) \/ UNCHANGED data
             /\ UNCHANGED <<round, bufs, counts, asleep>>
    <3>1. data' \in [File -> PrivateData]
      BY <2>1, <2>2, SaveType DEF TypeOK, CallsTypeOK
    <3> QED
      BY <2>2, <3>1, Names, ReturnType DEF TypeOK, CallsTypeOK, round, bufs, counts
  <2>3. CASE /\ Save(c, Refreshed(c)) /\ SleepOn(c, "wrWait")
             /\ UNCHANGED <<round, bufs, counts>>
    BY <2>1, <2>3, Names, GotoType, SaveType
    DEF TypeOK, CallsTypeOK, SleepOn, round, bufs, counts
  <2> QED
    BY <1>14, <2>1, <2>2, <2>3, CopyGuessType DEF BreakerWrite
<1>15. ASSUME NEW c \in Caller, BreakerWriteWoken(c) \/ BreakerWriteCopied(c)
       PROVE  TypeOK'
  <2>1. private_data(c) \in PrivateData
    BY PrivateDataType
  <2>2. CASE /\ \E v \in {-EIO, -EFAULT} : Return(c, "write", v)
             /\ UNCHANGED <<round, bufs, counts, data, asleep>>
    BY <2>2, Names, ReturnType DEF TypeOK, CallsTypeOK, round, bufs, counts
  <2>3. CASE BreakerWriteWoken(c)
    BY <2>1, <2>2, <2>3, CopyGuessType DEF BreakerWriteWoken
  <2>4. CASE BreakerWriteCopied(c)
    <3>1. ASSUME SpoilGuess(c) PROVE TypeOK'
      BY <3>1, Names, ReturnType DEF SpoilGuess, TypeOK, CallsTypeOK, round, counts
    <3> QED
      BY <2>1, <2>4, <3>1, WriteGuessType DEF BreakerWriteCopied
  <2> QED
    BY <1>15, <2>3, <2>4
<1>16. ASSUME NEW c \in Caller, SleepAgain(c) PROVE TypeOK'
  BY <1>16 DEF TypeOK, CallsTypeOK, SleepAgain, round, bufs, counts
<1>17. ASSUME NEW c \in Caller, Signal(c) PROVE TypeOK'
  <2>1. CASE \E op \in {"read", "write"} : Return(c, op, -EINTR)
    BY <1>17, <2>1, Names, ReturnType DEF TypeOK, CallsTypeOK, Signal, round, bufs, counts
  <2>2. CASE UNCHANGED <<pc, ret>>
    BY <1>17, <2>2 DEF TypeOK, CallsTypeOK, Signal, round, bufs, counts
  <2> QED
    BY <1>17, <2>1, <2>2 DEF Signal
<1>18. ASSUME NEW c \in Caller, NEW arg \in Arg, RoundStart(c, arg) PROVE TypeOK'
  <2>1. \E v \in {-EPERM, -EINVAL, -EBUSY, -1, 1} : Return(c, "ROUND_START", v)
    BY <1>18 DEF RoundStart
  <2>2. /\ pc' \in [Caller -> Location]
        /\ ret' \in [caller : Caller \cup {"kernel"}, op : Op, val : Int]
    BY <2>1, Names, ReturnType
  <2>3. arg \in Nat
    BY ConstantsAssumption
  <2>4. /\ \/ UNCHANGED <<in_round, round_id>>
           \/ in_round' = TRUE /\ round_id' = round_id + 1
        /\ colour_range' \in {colour_range, arg}
    BY <1>18 DEF RoundStart, round
  <2>5. /\ passwordBuf' \in Code \cup {Blank} /\ guessBuf' \in Code \cup {Blank}
        /\ guessReady' \in BOOLEAN /\ feedbackReady' \in BOOLEAN
        /\ passwordReady' \in BOOLEAN
        /\ maker_won' \in BOOLEAN /\ breaker_won' \in BOOLEAN
    BY <1>18 DEF TypeOK, CallsTypeOK, RoundStart, round, bufs
  <2>6. /\ num_of_codemakers' \in Int /\ num_of_codebrakers' \in Int
        /\ num_of_codebrakers_playing' \in Int
        /\ data' \in [File -> PrivateData] /\ asleep' \in SUBSET Caller
    BY <1>18 DEF RoundStart, TypeOK, CallsTypeOK, counts
  <2>7. round_id' \in Nat /\ colour_range' \in Nat
    BY <2>3, <2>4 DEF TypeOK, CallsTypeOK
  <2>8. in_round' \in BOOLEAN
    BY <2>4 DEF TypeOK, CallsTypeOK
  <2> QED
    BY <2>2, <2>5, <2>6, <2>7, <2>8 DEF TypeOK, CallsTypeOK
<1>19. ASSUME NEW c \in Caller, GetMyScore(c) PROVE TypeOK'
  <2> DEFINE d == Scored(private_data(c), c \in Maker /\ maker_won)
  <2>1. d \in PrivateData
    BY ScoredType, PrivateDataType
  <2>2. d.score \in Int
    BY <2>1 DEF PrivateData
  <2>3. Save(c, d) /\ Return(c, "GET_MY_SCORE", d.score)
    BY <1>19 DEF GetMyScore
  <2> HIDE DEF d
  <2>4. data' \in [File -> PrivateData]
    BY <2>1, <2>3, SaveType
  <2> QED
    BY <1>19, <2>2, <2>3, <2>4, Names, ReturnType
    DEF TypeOK, CallsTypeOK, GetMyScore, bufs, counts
<1> QED
  BY <1>1, <1>2, <1>3, <1>5, <1>6, <1>7, <1>8, <1>9, <1>10, <1>11, <1>12, <1>13,
     <1>14, <1>15, <1>16, <1>17, <1>18, <1>19 DEF Next

\* Every variable of the driver always has a value of its type.
THEOREM TypeCorrect == Spec => []TypeOK
<1>1. NoData \in PrivateData
  BY DEF NoData, Data, PrivateData
<1>2. Init => TypeOK
  <2> SUFFICES ASSUME Init PROVE TypeOK
    OBVIOUS
  <2>1. /\ pc \in [Caller -> Location]
        /\ ret \in [caller : Caller \cup {"kernel"}, op : Op, val : Int]
    BY DEF Init, CallsInit, Op, Location
  <2>2. data \in [File -> PrivateData]
    BY <1>1 DEF Init, CallsInit
  <2> QED
    BY <2>1, <2>2 DEF Init, CallsInit, TypeOK, CallsTypeOK
<1> QED
  BY <1>2, TypeStep, PTL DEF Spec

-----------------------------------------------------------------------------
(* How many files are open.                                                *)

\* The places of a call on a file that open has enrolled.
InCall == {"idle", "rdWait", "wrWait", "pwCopy", "fbCopy", "gsCopy", "rdCopy"}

\* The call of c moves from one place to another, or stays; it began with the
\* file of c open.
Walks(c) ==
    /\ pc[c] \in InCall
    /\ At(c, "idle") => IsOpen(fileOf(c))
    /\ \E l \in InCall : Goto(c, l) \/ UNCHANGED pc

LEMMA WalkKeepsEnrolled ==
    ASSUME TypeOK, NEW c \in Caller, Walks(c), NEW S
    PROVE  Enrolled(S)' = Enrolled(S)
BY Files DEF TypeOK, CallsTypeOK, Walks, Enrolled, IsOpen, Goto, InCall

LEMMA EnrolledFinite ==
    /\ IsFiniteSet(Enrolled(Maker)) /\ Cardinality(Enrolled(Maker)) \in Nat
    /\ IsFiniteSet(Enrolled(Breaker)) /\ Cardinality(Enrolled(Breaker)) \in Nat
<1>1. IsFiniteSet(Maker) /\ IsFiniteSet(Breaker)
  BY ConstantsAssumption
<1>2. Enrolled(Maker) \subseteq Maker /\ Enrolled(Breaker) \subseteq Breaker
  BY DEF Enrolled
<1> QED
  BY <1>1, <1>2, FS_Subset, FS_CardinalityType

\* open enrols c, of which it refused none that it would have to refuse.
Admits(c) == /\ c \in File /\ Enrol(c)
             /\ \/ At(c, "opening")
                \/ At(c, "closed") /\ ~(c \in Maker /\ MakerExists)

\* c has passed the check of open and waits for its memory.
WaitsToOpen(c) ==
    AllocSleeps /\ c \in File /\ At(c, "closed") /\ SleepIn(c, "opening") /\ UNCHANGED counts

SameNumbers == UNCHANGED <<num_of_codemakers, num_of_codebrakers>>

\* Nothing but open and release changes what the device counts.
LEMMA StepKinds ==
    ASSUME TypeOK, [Next]_vars
    PROVE  \/ SameNumbers /\ UNCHANGED pc
           \/ \E c \in Caller : \/ Walks(c) /\ SameNumbers
                              \/ WaitsToOpen(c) \/ Admits(c)
                              \/ MakerRelease(c) \/ BreakerRelease(c)
<1>4. ASSUME NEW c \in Caller, Open(c) \/ OpenAllocated(c)
      PROVE  (SameNumbers /\ UNCHANGED pc) \/ WaitsToOpen(c) \/ Admits(c)
  BY <1>4 DEF Open, OpenAllocated, Admits, WaitsToOpen, SameNumbers, counts
<1> USE DEF InCall, At, Ready, Unused, SameNumbers
<1>5. ASSUME NEW c \in Caller, MakerRead(c) \/ MakerReadWoken(c)
      PROVE  Walks(c) /\ SameNumbers
  BY <1>5 DEF MakerRead, MakerReadWoken, Woken, CopyOut, SleepOn, Return, Walks,
     counts
<1>6. ASSUME NEW c \in Caller, CopyFeedback(c) \/ TakeFeedback(c),
             pc[c] \in InCall, pc[c] = "idle" => IsOpen(fileOf(c))
      PROVE  Walks(c)
  BY <1>6 DEF CopyFeedback, TakeFeedback, SleepIn, Return, Walks
<1>7. ASSUME NEW c \in Caller,
             BreakerRead(c) \/ BreakerReadWoken(c) \/ BreakerReadCopied(c)
      PROVE  Walks(c) /\ SameNumbers
  BY <1>6, <1>7 DEF BreakerRead, BreakerReadWoken, BreakerReadCopied, Woken,
     SleepOn, Return, Walks, counts
<1>8. ASSUME NEW c \in Caller, MakerWrite(c) \/ MakerWriteCopied(c)
      PROVE  Walks(c) /\ SameNumbers
  BY <1>8 DEF MakerWrite, MakerWriteCopied, SpoilPassword, SetPassword, SetFeedback, SleepIn,
     Return, Walks, counts
<1>9. ASSUME NEW c \in Caller, NEW d, pc[c] \in InCall,
             pc[c] = "idle" => IsOpen(fileOf(c)),
             CopyGuess(c, d) \/ WriteGuess(c, d)
      PROVE  Walks(c) /\ SameNumbers
  BY <1>9 DEF CopyGuess, WriteGuess, RejectGuess, AcceptGuess, SleepIn, Return, Walks, counts
<1>10. ASSUME NEW c \in Caller,
              BreakerWrite(c) \/ BreakerWriteWoken(c) \/ BreakerWriteCopied(c)
       PROVE  Walks(c) /\ SameNumbers
  <2>1. pc[c] \in InCall /\ (pc[c] = "idle" => IsOpen(fileOf(c)))
    BY <1>10 DEF BreakerWrite, BreakerWriteWoken, BreakerWriteCopied, Woken
  <2>2. CASE BreakerWrite(c)
    BY <1>9, <2>1, <2>2 DEF BreakerWrite, SleepOn, Return, Walks, counts
  <2>3. CASE BreakerWriteWoken(c)
    BY <1>9, <2>1, <2>3 DEF BreakerWriteWoken, Return, Walks, counts
  <2>4. CASE BreakerWriteCopied(c)
    BY <1>9, <2>1, <2>4 DEF BreakerWriteCopied, SpoilGuess, Return, Walks, counts
  <2> QED
    BY <1>10, <2>2, <2>3, <2>4
<1>11. ASSUME NEW c \in Caller,
              \/ SleepAgain(c) \/ Signal(c) \/ GetMyScore(c)
              \/ \E arg \in Arg : RoundStart(c, arg)
       PROVE  Walks(c) /\ SameNumbers
  BY <1>11 DEF SleepAgain, Signal, GetMyScore, RoundStart, Waiting, Return, Walks,
     counts
<1>12. CASE UNCHANGED vars
  BY <1>12 DEF vars, counts
<1> HIDE DEF InCall, At, Ready, Unused, SameNumbers
<1>13. CASE Next
  BY <1>4, <1>5, <1>7, <1>8, <1>10, <1>11, <1>13, Zenon DEF Next
<1> QED
  BY <1>12, <1>13

\* A step that does neither leaves the same files open.
LEMMA EnrolStep ==
    ASSUME TypeOK, [Next]_vars
    PROVE  \/ /\ SameNumbers
              /\ Enrolled(Maker)' = Enrolled(Maker)
              /\ Enrolled(Breaker)' = Enrolled(Breaker)
           \/ \E c \in Caller : Admits(c) \/ MakerRelease(c) \/ BreakerRelease(c)
<1> DEFINE Kept == /\ SameNumbers
                   /\ Enrolled(Maker)' = Enrolled(Maker)
                   /\ Enrolled(Breaker)' = Enrolled(Breaker)
<1>1. ASSUME NEW c \in Caller, Walks(c), SameNumbers PROVE Kept
  BY <1>1, WalkKeepsEnrolled
<1>2. ASSUME SameNumbers, UNCHANGED pc PROVE Kept
  BY <1>2 DEF Enrolled, IsOpen
<1>3. ASSUME NEW c \in Caller, WaitsToOpen(c) PROVE Kept
  BY <1>3 DEF TypeOK, CallsTypeOK, WaitsToOpen, SleepIn, Goto, At, Enrolled, IsOpen,
     SameNumbers, counts
<1> QED
  BY <1>1, <1>2, <1>3, StepKinds

\* The number by which ROUND_START decides whether anyone is there to play is
\* the number of open Codebreakers.
THEOREM BreakersAreCounted == Spec => []BreakersCounted
<1>1. Init => BreakersCounted
  <2> SUFFICES ASSUME Init PROVE BreakersCounted
    OBVIOUS
  <2>1. Enrolled(Breaker) = {}
    BY Files DEF Init, CallsInit, Enrolled, IsOpen, File
  <2> QED
    BY <2>1, FS_EmptySet DEF Init, BreakersCounted
<1>2. TypeOK /\ BreakersCounted /\ [Next]_vars => BreakersCounted'
  <2> SUFFICES ASSUME TypeOK, BreakersCounted, [Next]_vars PROVE BreakersCounted'
    OBVIOUS
  <2>1. CASE /\ SameNumbers
             /\ Enrolled(Breaker)' = Enrolled(Breaker)
    BY <2>1 DEF SameNumbers, BreakersCounted
  <2>2. ASSUME NEW c \in Caller, Admits(c)
        PROVE  BreakersCounted'
    <3>1. CASE c \in Maker
      <4>1. Enrolled(Breaker)' = Enrolled(Breaker)
        BY <2>2, <3>1, ConstantsAssumption
        DEF TypeOK, CallsTypeOK, Admits, At, Enrol, Return, Goto, Enrolled, IsOpen
      <4> QED
        BY <2>2, <3>1, <4>1 DEF Admits, Enrol, BreakersCounted
    <3>2. CASE c \notin Maker
      <4>1. /\ Enrolled(Breaker)' = Enrolled(Breaker) \cup {c}
            /\ c \notin Enrolled(Breaker)
        BY <2>2, <3>2, Files DEF TypeOK, CallsTypeOK, Admits, At, Enrol, Return, Goto, Enrolled, IsOpen
      <4>2. Cardinality(Enrolled(Breaker)') = Cardinality(Enrolled(Breaker)) + 1
        BY <4>1, EnrolledFinite, FS_AddElement
      <4> QED
        BY <2>2, <3>2, <4>2 DEF Admits, Enrol, BreakersCounted
    <3> QED
      BY <3>1, <3>2
  <2>3. ASSUME NEW c \in Caller, MakerRelease(c) PROVE BreakersCounted'
    <3>1. Enrolled(Breaker)' = Enrolled(Breaker)
      BY <2>3, Files
      DEF TypeOK, CallsTypeOK, MakerRelease, Unused, Gone, Goto, Enrolled, IsOpen
    <3> QED
      BY <2>3, <3>1 DEF MakerRelease, BreakersCounted
  <2>4. ASSUME NEW c \in Caller, BreakerRelease(c) PROVE BreakersCounted'
    <3>1. /\ Enrolled(Breaker)' = Enrolled(Breaker) \ {c}
          /\ c \in Enrolled(Breaker)
      BY <2>4, Files DEF TypeOK, CallsTypeOK, BreakerRelease, Unused, At, Gone, Goto, Enrolled, IsOpen
    <3>2. Cardinality(Enrolled(Breaker)') = Cardinality(Enrolled(Breaker)) - 1
      BY <3>1, EnrolledFinite, FS_RemoveElement
    <3> QED
      BY <2>4, <3>2 DEF BreakerRelease, Less, BreakersCounted
  <2> QED
    BY <2>1, <2>2, <2>3, <2>4, EnrolStep
<1> QED
  BY <1>1, <1>2, TypeCorrect, PTL DEF Spec

\* A Codemaker that is open is counted, however many open at the same time.
LEMMA MakersStep == TypeOK /\ MakersCounted /\ [Next]_vars => MakersCounted'
<1> SUFFICES ASSUME TypeOK, MakersCounted, [Next]_vars PROVE MakersCounted'
  OBVIOUS
<1>1. CASE /\ SameNumbers
           /\ Enrolled(Maker)' = Enrolled(Maker)
  BY <1>1 DEF SameNumbers, MakersCounted
<1>2. ASSUME NEW c \in Caller, Admits(c) PROVE MakersCounted'
  <2>1. CASE c \notin Maker
    <3>1. Enrolled(Maker)' = Enrolled(Maker)
      BY <1>2, <2>1 DEF TypeOK, CallsTypeOK, Admits, At, Enrol, Return, Goto, Enrolled, IsOpen
    <3> QED
      BY <1>2, <2>1, <3>1 DEF Admits, Enrol, MakersCounted
  <2>2. CASE c \in Maker
    <3>1. /\ Enrolled(Maker)' = Enrolled(Maker) \cup {c}
          /\ c \notin Enrolled(Maker)
      BY <1>2, <2>2 DEF TypeOK, CallsTypeOK, Admits, At, Enrol, Return, Goto, Enrolled, IsOpen
    <3>2. Cardinality(Enrolled(Maker)') = Cardinality(Enrolled(Maker)) + 1
      BY <3>1, EnrolledFinite, FS_AddElement
    <3>3. num_of_codemakers' = num_of_codemakers + 1
      BY <1>2, <2>2 DEF Admits, Enrol
    <3> QED
      BY <3>2, <3>3, EnrolledFinite DEF TypeOK, CallsTypeOK, MakersCounted
  <2> QED
    BY <2>1, <2>2
<1>3. ASSUME NEW c \in Caller, BreakerRelease(c) PROVE MakersCounted'
  <2>1. Enrolled(Maker)' = Enrolled(Maker)
    BY <1>3, ConstantsAssumption
    DEF TypeOK, CallsTypeOK, BreakerRelease, Gone, Goto, Enrolled, IsOpen
  <2> QED
    BY <1>3, <2>1 DEF BreakerRelease, MakersCounted
<1>4. ASSUME NEW c \in Caller, MakerRelease(c) PROVE MakersCounted'
  <2>1. /\ Enrolled(Maker)' = Enrolled(Maker) \ {c}
        /\ c \in Enrolled(Maker)
    BY <1>4, Files DEF TypeOK, CallsTypeOK, MakerRelease, Unused, At, Gone, Goto, Enrolled, IsOpen
  <2>2. Cardinality(Enrolled(Maker)') = Cardinality(Enrolled(Maker)) - 1
    BY <2>1, EnrolledFinite, FS_RemoveElement
  <2>3. num_of_codemakers' \in {num_of_codemakers, num_of_codemakers - 1}
    BY <1>4 DEF MakerRelease
  <2> QED
    BY <2>2, <2>3, EnrolledFinite DEF TypeOK, CallsTypeOK, MakersCounted
<1> QED
  BY <1>1, <1>2, <1>3, <1>4, EnrolStep

LEMMA NoMakersAtFirst == Init => MakersCounted /\ AtMostOneMaker
<1> SUFFICES ASSUME Init PROVE MakersCounted /\ AtMostOneMaker
  OBVIOUS
<1>1. Enrolled(Maker) = {}
  BY Files DEF Init, CallsInit, Enrolled, IsOpen, File
<1> QED
  BY <1>1, FS_EmptySet DEF Init, MakersCounted, AtMostOneMaker

\* While a Codemaker is open the driver knows of one, so that no Codebreaker is
\* told EOF because "no Codemaker exists".
THEOREM MakersAreCounted == Spec => []MakersCounted
BY NoMakersAtFirst, MakersStep, TypeCorrect, PTL DEF Spec

\* open admits one Codemaker at a time, provided that kmalloc does not sleep
\* between its look at num_of_codemakers and the increment.
THEOREM OneMaker == ASSUME AllocSleeps = FALSE PROVE Spec => []AtMostOneMaker
<1> DEFINE NoneOpening == \A c \in Caller : ~At(c, "opening")
<1> DEFINE Inv == MakersCounted /\ NoneOpening /\ AtMostOneMaker
<1>1. Init => Inv
  BY NoMakersAtFirst DEF Init, CallsInit, At
<1>2. TypeOK /\ Inv /\ [Next]_vars => Inv'
  <2> SUFFICES ASSUME TypeOK, Inv, [Next]_vars PROVE Inv'
    OBVIOUS
  <2>1. MakersCounted'
    BY MakersStep
  <2>2. NoneOpening'
    <3>1. ASSUME NEW c \in Caller, NEW l \in Location \ {"opening"}, Goto(c, l)
          PROVE  NoneOpening'
      BY <3>1 DEF TypeOK, CallsTypeOK, Goto, At
    <3>2. ASSUME NEW c \in Caller,
                 Walks(c) \/ Admits(c) \/ MakerRelease(c) \/ BreakerRelease(c)
          PROVE  UNCHANGED pc \/ \E l \in Location \ {"opening"} : Goto(c, l)
      BY <3>2, Names DEF Walks, InCall, Admits, Enrol, Return, MakerRelease,
         BreakerRelease, Gone
    <3>3. ASSUME NEW c \in Caller, WaitsToOpen(c) PROVE FALSE
      BY <3>3 DEF WaitsToOpen
    <3>4. CASE UNCHANGED pc
      BY <3>4 DEF At
    <3> QED
      BY <3>1, <3>2, <3>3, <3>4, StepKinds
  <2>3. AtMostOneMaker'
    <3>1. CASE /\ SameNumbers
               /\ Enrolled(Maker)' = Enrolled(Maker)
      BY <3>1 DEF AtMostOneMaker
    <3>2. ASSUME NEW c \in Caller, Admits(c) PROVE AtMostOneMaker'
      <4>1. CASE c \notin Maker
        <5>1. Enrolled(Maker)' = Enrolled(Maker)
          BY <3>2, <4>1
          DEF TypeOK, CallsTypeOK, Admits, At, Enrol, Return, Goto, Enrolled, IsOpen
        <5> QED
          BY <5>1 DEF AtMostOneMaker
      <4>2. CASE c \in Maker
        <5>1. num_of_codemakers = 0
          BY <3>2, <4>2 DEF Admits, MakerExists
        <5>2. Cardinality(Enrolled(Maker)) = 0
          BY <5>1, EnrolledFinite DEF MakersCounted
        <5>3. Enrolled(Maker) = {}
          BY <5>2, EnrolledFinite, FS_EmptySet
        <5>4. Enrolled(Maker)' = {c}
          BY <3>2, <4>2, <5>3
          DEF TypeOK, CallsTypeOK, Admits, At, Enrol, Return, Goto, Enrolled, IsOpen
        <5>5. Cardinality({c}) = 1
          BY FS_Singleton
        <5> QED
          BY <5>4, <5>5 DEF AtMostOneMaker
      <4> QED
        BY <4>1, <4>2
    <3>3. ASSUME NEW c \in Caller, MakerRelease(c) \/ BreakerRelease(c)
          PROVE  AtMostOneMaker'
      <4>1. Enrolled(Maker)' \subseteq Enrolled(Maker)
        BY <3>3, Files DEF TypeOK, CallsTypeOK, MakerRelease, BreakerRelease, Unused, At, Gone, Goto,
           Enrolled, IsOpen
      <4>2. Cardinality(Enrolled(Maker)') <= Cardinality(Enrolled(Maker))
        BY <4>1, EnrolledFinite, FS_Subset
      <4>3. Cardinality(Enrolled(Maker)') \in Nat
        BY <4>1, EnrolledFinite, FS_Subset, FS_CardinalityType
      <4> QED
        BY <4>2, <4>3, EnrolledFinite DEF AtMostOneMaker
    <3> QED
      BY <3>1, <3>2, <3>3, EnrolStep
  <2> QED
    BY <2>1, <2>2, <2>3
<1>3. Inv => AtMostOneMaker
  OBVIOUS
<1> HIDE DEF Inv
<1> QED
  BY <1>1, <1>2, <1>3, TypeCorrect, PTL DEF Spec

-----------------------------------------------------------------------------
(* The password.                                                           *)

\* No round begins and the password stays.
NoNewRound ==
    (in_round' => in_round) /\ UNCHANGED <<passwordReady, passwordBuf>>

\* A caller that is in no other call begins a round with the password there.
Begins(c) ==
    /\ c \in Maker /\ Ready(c) /\ passwordReady
    /\ UNCHANGED <<pc, passwordReady, passwordBuf>>

\* A write sets the password, having found no round in progress.
Sets(c) == c \in Maker /\ SetPassword(c) /\ (At(c, "pwCopy") \/ ~in_round)

\* The copy of a password faults.
Spoils(c) ==
    /\ PageFaults /\ c \in Maker /\ At(c, "pwCopy")
    /\ UNCHANGED <<round, passwordReady>>

LEMMA PasswordStep ==
    ASSUME TypeOK, [Next]_vars
    PROVE  \/ NoNewRound
           \/ ForgetRound /\ UNCHANGED passwordBuf
           \/ \E c \in Caller : Begins(c) \/ Sets(c) \/ Spoils(c)
<1> USE DEF NoNewRound, round, bufs
<1>1. ASSUME NEW c \in Caller, Open(c) \/ OpenAllocated(c) PROVE NoNewRound
  BY <1>1 DEF Open, OpenAllocated
<1>2. ASSUME NEW c \in Caller, MakerRelease(c)
      PROVE  NoNewRound \/ (ForgetRound /\ UNCHANGED passwordBuf)
  BY <1>2 DEF MakerRelease
<1>3. ASSUME NEW c \in Caller, BreakerRelease(c) PROVE NoNewRound
  BY <1>3 DEF BreakerRelease
<1>4. ASSUME NEW c \in Caller, MakerRead(c) \/ MakerReadWoken(c) PROVE NoNewRound
  BY <1>4 DEF MakerRead, MakerReadWoken
<1>5. ASSUME NEW c \in Caller,
             BreakerRead(c) \/ BreakerReadWoken(c) \/ BreakerReadCopied(c)
      PROVE  NoNewRound
  <2>1. TakeFeedback(c) => NoNewRound
    BY DEF TakeFeedback
  <2>2. CopyFeedback(c) => NoNewRound
    BY <2>1 DEF CopyFeedback
  <2> QED
    BY <1>5, <2>1, <2>2 DEF BreakerRead, BreakerReadWoken, BreakerReadCopied
<1>6. ASSUME NEW c \in Caller, MakerWrite(c) \/ MakerWriteCopied(c)
      PROVE  NoNewRound \/ Sets(c) \/ Spoils(c)
  <2>1. SetFeedback(c) => NoNewRound
    BY DEF SetFeedback
  <2>2. CASE MakerWrite(c)
    BY <2>1, <2>2 DEF MakerWrite, Sets
  <2>3. CASE MakerWriteCopied(c)
    BY <2>1, <2>3 DEF MakerWriteCopied, SpoilPassword, Sets, Spoils
  <2> QED
    BY <1>6, <2>2, <2>3
<1>7. ASSUME NEW c \in Caller, NEW d,
             CopyGuess(c, d) \/ WriteGuess(c, d)
      PROVE  NoNewRound
  BY <1>7 DEF CopyGuess, WriteGuess, RejectGuess, AcceptGuess
<1>8. ASSUME NEW c \in Caller,
             BreakerWrite(c) \/ BreakerWriteWoken(c) \/ BreakerWriteCopied(c)
      PROVE  NoNewRound
  BY <1>7, <1>8 DEF BreakerWrite, BreakerWriteWoken, BreakerWriteCopied, SpoilGuess
<1>9. ASSUME NEW c \in Caller, SleepAgain(c) \/ Signal(c) \/ GetMyScore(c)
      PROVE  NoNewRound
  <2>1. CASE SleepAgain(c) \/ Signal(c)
    BY <2>1 DEF SleepAgain, Signal
  <2>2. CASE GetMyScore(c)
    <3>1. in_round' => in_round
      BY <2>2 DEF GetMyScore
    <3>2. UNCHANGED <<passwordReady, passwordBuf>>
      BY <2>2 DEF GetMyScore
    <3> QED
      BY <3>1, <3>2
  <2> QED
    BY <1>9, <2>1, <2>2
<1>10. ASSUME NEW c \in Caller, NEW arg \in Arg, RoundStart(c, arg)
       PROVE  NoNewRound \/ Begins(c)
  <2>1. Ready(c) /\ \E v : Return(c, "ROUND_START", v)
    BY <1>10 DEF RoundStart
  <2>2. UNCHANGED pc
    BY <2>1 DEF Ready, Return, Goto, At, TypeOK, CallsTypeOK
  <2>3. UNCHANGED <<passwordReady, passwordBuf>>
    BY <1>10 DEF RoundStart
  <2>4. UNCHANGED in_round \/ (c \in Maker /\ passwordReady)
    BY <1>10 DEF RoundStart
  <2> QED
    BY <2>1, <2>2, <2>3, <2>4 DEF Begins
<1>11. CASE UNCHANGED vars
  BY <1>11 DEF vars
<1> HIDE DEF NoNewRound, round, bufs
<1>12. CASE Next
  BY <1>1, <1>2, <1>3, <1>4, <1>5, <1>6, <1>8, <1>9, <1>10, <1>12, Zenon
  DEF Next
<1> QED
  BY <1>11, <1>12

\* A round in progress has a password: one that was announced, and where writes
\* pass whole passwords and do not fault, one that was set.
THEOREM RoundsHavePasswords == Spec => []RoundHasPassword
<1> DEFINE Inv == /\ in_round => passwordReady
                  /\ passwordReady =>
                        PageFaults \/ OddCounts \/ passwordBuf # Blank
<1>1. Init => Inv
  BY DEF Init
<1>2. TypeOK /\ Inv /\ [Next]_vars => Inv'
  <2> SUFFICES ASSUME TypeOK, Inv, [Next]_vars PROVE Inv'
    OBVIOUS
  <2>1. CASE NoNewRound
    BY <2>1 DEF NoNewRound
  <2>2. CASE ForgetRound
    BY <2>2 DEF ForgetRound
  <2>3. ASSUME NEW c \in Caller, Begins(c) PROVE Inv'
    BY <2>3 DEF Begins
  <2>4. ASSUME NEW c \in Caller, Sets(c) PROVE Inv'
    BY <2>4, ConstantsAssumption DEF Sets, SetPassword, Blank
  <2>5. ASSUME NEW c \in Caller, Spoils(c) PROVE Inv'
    BY <2>5 DEF Spoils, round
  <2> QED
    BY <2>1, <2>2, <2>3, <2>4, <2>5, PasswordStep
<1>3. Inv => RoundHasPassword
  BY DEF RoundHasPassword
<1> HIDE DEF Inv
<1> QED
  BY <1>1, <1>2, <1>3, TypeCorrect, PTL DEF Spec

\* A call gets to the copying of a password from a write between two rounds.
LEMMA PasswordCopyStep ==
    ASSUME TypeOK, [Next]_vars, NEW m \in Caller, pc'[m] = "pwCopy"
    PROVE  \/ pc[m] = "pwCopy"
           \/ m \in Maker /\ ~in_round /\ ~in_round' /\ UNCHANGED passwordBuf
<1>1. ASSUME NEW c \in Caller, NEW l \in Location \ {"pwCopy"}, Goto(c, l)
      PROVE  pc[m] = "pwCopy"
  BY <1>1 DEF TypeOK, CallsTypeOK, Goto
<1>2. CASE UNCHANGED pc
  BY <1>2
<1> USE Names DEF Return
<1>3. ASSUME NEW c \in Caller, Open(c) \/ OpenAllocated(c) PROVE pc[m] = "pwCopy"
  BY <1>1, <1>2, <1>3 DEF Open, OpenAllocated, Enrol, SleepIn
<1>4. ASSUME NEW c \in Caller, MakerRelease(c) \/ BreakerRelease(c)
      PROVE  pc[m] = "pwCopy"
  BY <1>1, <1>4 DEF MakerRelease, BreakerRelease, Gone
<1>5. ASSUME NEW c \in Caller, MakerRead(c) \/ MakerReadWoken(c)
      PROVE  pc[m] = "pwCopy"
  BY <1>1, <1>5 DEF MakerRead, MakerReadWoken, CopyOut, SleepOn
<1>6. ASSUME NEW c \in Caller,
             BreakerRead(c) \/ BreakerReadWoken(c) \/ BreakerReadCopied(c)
      PROVE  pc[m] = "pwCopy"
  BY <1>1, <1>6 DEF BreakerRead, BreakerReadWoken, BreakerReadCopied,
     CopyFeedback, TakeFeedback, SleepIn, SleepOn
<1>7. ASSUME NEW c \in Caller, SetPassword(c) \/ SetFeedback(c)
      PROVE  pc[m] = "pwCopy"
  BY <1>1, <1>7 DEF SetPassword, SetFeedback
<1>8. ASSUME NEW c \in Caller, MakerWrite(c), pc[m] # "pwCopy"
      PROVE  m \in Maker /\ ~in_round /\ ~in_round' /\ UNCHANGED passwordBuf
  <2>1. SleepIn(c, "pwCopy") /\ c \in Maker /\ ~in_round /\ UNCHANGED <<round, bufs>>
    BY <1>1, <1>7, <1>8 DEF MakerWrite, SleepIn
  <2> QED
    BY <1>8, <2>1 DEF SleepIn, Goto, round, bufs, TypeOK, CallsTypeOK
<1>9. ASSUME NEW c \in Caller, MakerWriteCopied(c) PROVE pc[m] = "pwCopy"
  BY <1>1, <1>7, <1>9 DEF MakerWriteCopied, SpoilPassword
<1>10. ASSUME NEW c \in Caller, NEW d,
              CopyGuess(c, d) \/ WriteGuess(c, d)
       PROVE  pc[m] = "pwCopy"
  BY <1>1, <1>10 DEF CopyGuess, WriteGuess, RejectGuess, AcceptGuess, SleepIn
<1>11. ASSUME NEW c \in Caller,
              BreakerWrite(c) \/ BreakerWriteWoken(c) \/ BreakerWriteCopied(c)
       PROVE  pc[m] = "pwCopy"
  BY <1>1, <1>10, <1>11 DEF BreakerWrite, BreakerWriteWoken, BreakerWriteCopied, SpoilGuess,
     SleepOn
<1>12. ASSUME NEW c \in Caller,
              \/ SleepAgain(c) \/ Signal(c) \/ GetMyScore(c)
              \/ \E arg \in Arg : RoundStart(c, arg)
       PROVE  pc[m] = "pwCopy"
  BY <1>1, <1>2, <1>12 DEF SleepAgain, Signal, GetMyScore, RoundStart
<1>13. CASE UNCHANGED vars
  BY <1>2, <1>13 DEF vars
<1>14. CASE Next
  BY <1>3, <1>4, <1>5, <1>6, <1>8, <1>9, <1>11, <1>12, <1>14, Zenon DEF Next
<1> QED
  BY <1>13, <1>14

\* Two Codemakers that are open are one, if there is at most one.
LEMMA SameMaker ==
    ASSUME AtMostOneMaker, NEW m \in Enrolled(Maker), NEW n \in Enrolled(Maker)
    PROVE  m = n
<1>1. Cardinality(Enrolled(Maker)) \in {0, 1}
  BY EnrolledFinite DEF AtMostOneMaker
<1>2. Cardinality(Enrolled(Maker)) # 0
  BY EnrolledFinite, FS_EmptySet
<1>3. \E x : Enrolled(Maker) = {x}
  BY <1>1, <1>2, EnrolledFinite, FS_Singleton
<1> QED
  BY <1>3

\* A call is made on a file that is open, and stays open while the call lasts.
InOpenFile ==
    \A c \in Caller : pc[c] \in InCall \ {"idle"} => IsOpen(fileOf(c))

LEMMA InOpenFileStep == TypeOK /\ InOpenFile /\ [Next]_vars => InOpenFile'
<1> SUFFICES ASSUME TypeOK, InOpenFile, [Next]_vars,
                    NEW g \in Caller, pc'[g] \in InCall \ {"idle"}
             PROVE  IsOpen(fileOf(g))'
  BY DEF InOpenFile, fileOf
<1>1. CASE UNCHANGED pc
  BY <1>1 DEF InOpenFile, IsOpen, fileOf
<1>2. ASSUME NEW c \in Caller, Walks(c) PROVE IsOpen(fileOf(g))'
  <2>1. pc[c] \in InCall /\ (At(c, "idle") => IsOpen(fileOf(c)))
    BY <1>2 DEF Walks
  <2>2. PICK l \in InCall : Goto(c, l) \/ UNCHANGED pc
    BY <1>2 DEF Walks
  <2>3. g = c \/ pc'[g] = pc[g]
    BY <2>2 DEF Goto, TypeOK, CallsTypeOK
  <2>4. IsOpen(fileOf(g))
    BY <2>1, <2>3 DEF InOpenFile, At
  <2> QED
    BY <2>1, <2>2, <2>4, Files
    DEF InCall, IsOpen, Goto, fileOf, TypeOK, CallsTypeOK
<1>3. ASSUME NEW c \in Caller, WaitsToOpen(c) \/ Admits(c)
      PROVE  IsOpen(fileOf(g))'
  <2>1. /\ Goto(c, "opening") \/ Goto(c, "idle")
        /\ ~IsOpen(c)
    BY <1>3 DEF WaitsToOpen, Admits, Enrol, SleepIn, Return, At, IsOpen
  <2>2. pc[g] = pc'[g]
    BY <2>1 DEF Goto, InCall, TypeOK, CallsTypeOK
  <2>3. IsOpen(fileOf(g)) /\ fileOf(g) # c
    BY <2>1, <2>2 DEF InOpenFile
  <2> QED
    BY <2>1, <2>3, Files DEF Goto, IsOpen, fileOf, TypeOK, CallsTypeOK
<1>4. ASSUME NEW c \in Caller, MakerRelease(c) \/ BreakerRelease(c)
      PROVE  IsOpen(fileOf(g))'
  <2>1. Goto(c, "closed") /\ Unused(c)
    BY <1>4 DEF MakerRelease, BreakerRelease, Gone
  <2>2. pc[g] = pc'[g] /\ fileOf(g) # c
    BY <2>1 DEF Unused, At, Goto, InCall, TypeOK, CallsTypeOK
  <2> QED
    BY <2>1, <2>2 DEF Goto, InOpenFile, IsOpen, fileOf, TypeOK, CallsTypeOK
<1> QED
  BY <1>1, <1>2, <1>3, <1>4, StepKinds

LEMMA AlwaysInOpenFile == Spec => []InOpenFile
<1>1. Init => InOpenFile
  BY Files DEF Init, CallsInit, InOpenFile, InCall, Caller
<1> QED
  BY <1>1, InOpenFileStep, TypeCorrect, PTL DEF Spec

\* The password of a round does not change while the round lasts, although the
\* write that sets it may sleep between its look at in_round and the copy.  One
\* who could start the round meanwhile would have to share the Codemaker's file,
\* for there is one Codemaker and it is in that write.
THEOREM PasswordsAreFrozen ==
    ASSUME AllocSleeps = FALSE PROVE Spec => PasswordFrozen
<1> DEFINE Inv == \A m \in Maker \cap Sole : At(m, "pwCopy") => ~in_round
<1>1. Init => Inv
  BY DEF Init
<1>2. TypeOK /\ AtMostOneMaker /\ Inv /\ [Next]_vars => Inv'
  <2> SUFFICES ASSUME TypeOK, AtMostOneMaker, Inv, [Next]_vars,
                      NEW m \in Maker \cap Sole, pc'[m] = "pwCopy"
               PROVE  ~in_round'
    BY DEF At
  <2>1. CASE pc[m] # "pwCopy"
    BY <2>1, Files, PasswordCopyStep
  <2>2. CASE pc[m] = "pwCopy"
    <3>1. ~in_round
      BY <2>2 DEF At
    <3>2. CASE NoNewRound
      BY <3>1, <3>2 DEF NoNewRound
    <3>3. CASE ForgetRound
      BY <3>1, <3>3 DEF ForgetRound
    <3>4. ASSUME NEW c \in Caller, Begins(c) PROVE FALSE
      <4>1. fileOf(c) \in Enrolled(Maker) /\ m \in Enrolled(Maker)
        BY <2>2, <3>4, Files DEF Begins, Ready, IsOpen, Enrolled
      <4>2. fileOf(c) = m
        BY <4>1, SameMaker
      <4>3. c = m
        BY <4>2, Files
      <4> QED
        BY <2>2, <3>4, <4>3 DEF Begins, Ready, At
    <3>5. ASSUME NEW c \in Caller, Sets(c) \/ Spoils(c) PROVE UNCHANGED in_round
      BY <3>5 DEF Sets, SetPassword, Spoils, round
    <3> QED
      BY <3>1, <3>2, <3>3, <3>4, <3>5, PasswordStep
  <2> QED
    BY <2>1, <2>2
<1>3. /\ TypeOK /\ InOpenFile /\ Inv /\ [Next]_vars
      => [in_round /\ in_round' /\ Enrolled(Maker) \subseteq Sole
             => UNCHANGED passwordBuf]_vars
  <2> SUFFICES ASSUME TypeOK, InOpenFile, Inv, [Next]_vars, in_round, in_round',
                      Enrolled(Maker) \subseteq Sole
               PROVE  UNCHANGED passwordBuf
    OBVIOUS
  <2>1. ASSUME NEW c \in Caller, Sets(c) \/ Spoils(c) PROVE FALSE
    <3>1. At(c, "pwCopy")
      BY <2>1 DEF Sets, Spoils
    <3>2. fileOf(c) \in Enrolled(Maker)
      BY <2>1, <3>1, Files DEF InOpenFile, InCall, At, Enrolled, Sets, Spoils
    <3>3. c \in Maker \cap Sole
      BY <2>1, <3>2, Files DEF Sets, Spoils
    <3> QED
      BY <2>1, <3>1, <3>3 DEF Sets, SetPassword, Spoils, round
  <2> QED
    BY <2>1, PasswordStep DEF NoNewRound, Begins, ForgetRound
<1> HIDE DEF Inv
<1> QED
  BY <1>1, <1>2, <1>3, TypeCorrect, OneMaker, AlwaysInOpenFile, PTL
  DEF Spec, PasswordFrozen
=============================================================================
