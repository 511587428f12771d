------------------------- MODULE MastermindGuesses -------------------------
(***************************************************************************)
(* Sleeping readers and the guess they wait for, for any numbers of        *)
(* callers, files, codes, turns and rounds.                                *)
(***************************************************************************)
EXTENDS MastermindProofs

-----------------------------------------------------------------------------
(* The wake-ups of read.                                                   *)

\* What a read of m waits for.
Answered(m) == IF m \in Maker THEN guessReady ELSE passwordReady /\ feedbackReady

\* No reader's condition becomes true.
Quiet ==
    /\ guessReady' => guessReady
    /\ passwordReady' /\ feedbackReady' => passwordReady /\ feedbackReady

\* At most c begins to sleep in read, and only on a condition that is false.
Joins(c) ==
    \A m \in asleep' :
        pc'[m] = "rdWait" => \/ m \in asleep /\ pc[m] = "rdWait"
                             \/ m = c /\ ~Answered(c)

LEMMA WaitStep ==
    ASSUME TypeOK, [Next]_vars
    PROVE  asleep' = {} \/ (Quiet /\ \E c \in Caller : Joins(c)) \/ UNCHANGED vars
<1> USE DEF bufs, Return
\* The ways in which a step can leave a caller asleep.
<1>1. ASSUME NEW c \in Caller, NEW l \in Location \ {"rdWait"}, Goto(c, l),
             asleep' \subseteq asleep \cup {c}
      PROVE  Joins(c)
  BY <1>1 DEF TypeOK, CallsTypeOK, Goto, Joins
<1>2. ASSUME NEW c \in Caller, UNCHANGED <<pc, asleep>> PROVE Joins(c)
  BY <1>2 DEF Joins
<1>3. ASSUME NEW c \in Caller, SleepOn(c, "rdWait"), ~Answered(c) PROVE Joins(c)
  BY <1>3 DEF TypeOK, CallsTypeOK, SleepOn, Goto, Joins
<1>4. UNCHANGED bufs => Quiet
  BY DEF Quiet
\* The actions.
<1>5. ASSUME NEW c \in Caller, Open(c) \/ OpenAllocated(c) PROVE Quiet /\ Joins(c)
  BY <1>1, <1>2, <1>4, <1>5, Names DEF Open, OpenAllocated, Enrol, SleepIn
<1>6. ASSUME NEW c \in Caller, MakerRelease(c)
      PROVE  asleep' = {} \/ (Quiet /\ Joins(c))
  <2>1. Goto(c, "closed")
    BY <1>6 DEF MakerRelease, Gone
  <2>2. asleep' = {} \/ UNCHANGED <<bufs, asleep>>
    BY <1>6 DEF MakerRelease, wake_up
  <2>3. UNCHANGED asleep => Joins(c)
    BY <1>1, <2>1, Names
  <2> QED
    BY <1>4, <2>2, <2>3
<1>7. ASSUME NEW c \in Caller, BreakerRelease(c) PROVE Quiet /\ Joins(c)
  BY <1>1, <1>4, <1>7, Names DEF BreakerRelease, Gone
<1>8. ASSUME NEW c \in Caller, MakerRead(c) \/ MakerReadWoken(c)
      PROVE  Quiet /\ Joins(c)
  BY <1>1, <1>3, <1>4, <1>8, Names
  DEF MakerRead, MakerReadWoken, CopyOut, Answered
<1>9. ASSUME NEW c \in Breaker, CopyFeedback(c)
      PROVE  asleep' = {} \/ (Quiet /\ Joins(c))
  BY <1>1, <1>4, <1>9, Names, Files
  DEF CopyFeedback, TakeFeedback, SleepIn, wake_up
<1>10. ASSUME NEW c \in Caller,
              BreakerRead(c) \/ BreakerReadWoken(c) \/ BreakerReadCopied(c)
       PROVE  asleep' = {} \/ (Quiet /\ Joins(c))
  <2>1. c \in Breaker /\ c \notin Maker
    BY <1>10, ConstantsAssumption DEF BreakerRead, BreakerReadWoken, BreakerReadCopied
  <2>2. CASE BreakerRead(c)
    BY <1>1, <1>3, <1>4, <1>9, <2>1, <2>2, Names DEF BreakerRead, Answered
  <2>3. CASE BreakerReadWoken(c) \/ BreakerReadCopied(c)
    BY <1>1, <1>4, <1>9, <2>1, <2>3, Names
    DEF BreakerReadWoken, BreakerReadCopied, TakeFeedback, wake_up
  <2> QED
    BY <1>10, <2>2, <2>3
<1>11. ASSUME NEW c \in Caller, MakerWrite(c) \/ MakerWriteCopied(c)
       PROVE  asleep' = {} \/ (Quiet /\ Joins(c))
  <2>1. SetPassword(c) \/ SetFeedback(c) => asleep' = {}
    BY DEF SetPassword, SetFeedback, wake_up
  <2> QED
    BY <1>1, <1>4, <1>11, <2>1, Names
    DEF MakerWrite, MakerWriteCopied, SleepIn, SpoilPassword, Quiet
<1>12. ASSUME NEW c \in Breaker, NEW d,
              CopyGuess(c, d) \/ WriteGuess(c, d)
       PROVE  asleep' = {} \/ (Quiet /\ Joins(c))
  <2>1. ASSUME NEW g, RejectGuess(c, d, g) PROVE Quiet /\ Joins(c)
    BY <1>1, <2>1, Names, Files DEF RejectGuess, Quiet
  <2>2. ASSUME NEW g, AcceptGuess(c, d, g) PROVE asleep' = {}
    BY <2>2 DEF AcceptGuess, wake_up
  <2> QED
    BY <1>1, <1>4, <1>12, <2>1, <2>2, Names, Files DEF CopyGuess, WriteGuess, SleepIn
<1>13. ASSUME NEW c \in Caller,
              BreakerWrite(c) \/ BreakerWriteWoken(c) \/ BreakerWriteCopied(c)
       PROVE  asleep' = {} \/ (Quiet /\ Joins(c))
  <2>1. CASE BreakerWrite(c)
    BY <1>1, <1>4, <1>12, <2>1, Names DEF BreakerWrite, SleepOn
  <2>2. ASSUME SpoilGuess(c) PROVE Quiet /\ Joins(c)
    BY <1>1, <2>2, Names DEF SpoilGuess, Quiet
  <2>3. CASE BreakerWriteWoken(c) \/ BreakerWriteCopied(c)
    BY <1>1, <1>4, <1>12, <2>2, <2>3, Names DEF BreakerWriteWoken, BreakerWriteCopied
  <2> QED
    BY <1>13, <2>1, <2>3
<1>14. ASSUME NEW c \in Caller, SleepAgain(c) PROVE Quiet /\ Joins(c)
  BY <1>4, <1>14 DEF SleepAgain, Joins, Condition, Answered
<1>15. ASSUME NEW c \in Caller, Signal(c) PROVE Quiet /\ Joins(c)
  BY <1>4, <1>15 DEF Signal, Goto, Joins, TypeOK, CallsTypeOK
<1>16. ASSUME NEW c \in Caller, NEW arg \in Arg, RoundStart(c, arg)
       PROVE  Quiet /\ Joins(c)
  <2>1. Quiet
    BY <1>16 DEF RoundStart, Quiet
  <2> QED
    BY <1>1, <1>16, <2>1, Names DEF RoundStart
<1>17. ASSUME NEW c \in Caller, GetMyScore(c) PROVE Quiet /\ Joins(c)
  BY <1>1, <1>4, <1>17, Names DEF GetMyScore
<1>18. CASE Next
  BY <1>5, <1>6, <1>7, <1>8, <1>10, <1>11, <1>13, <1>14, <1>15, <1>16, <1>17,
     <1>18, Zenon DEF Next
<1> QED
  BY <1>18

\* No read sleeps on after what it waits for has come.
THEOREM ReadersAreWoken == Spec => []NoLostWakeupInRead
<1>1. Init => NoLostWakeupInRead
  BY DEF Init, CallsInit, NoLostWakeupInRead
<1>2. TypeOK /\ NoLostWakeupInRead /\ [Next]_vars => NoLostWakeupInRead'
  <2> SUFFICES ASSUME TypeOK, NoLostWakeupInRead, [Next]_vars,
                      NEW m \in asleep', pc'[m] = "rdWait"
               PROVE  ~Answered(m)'
    BY DEF NoLostWakeupInRead, At, Condition, Answered
  <2>1. m \in asleep /\ pc[m] = "rdWait" => ~Answered(m)
    BY DEF NoLostWakeupInRead, At, Condition, Answered
  <2>2. CASE Quiet /\ \E c \in Caller : Joins(c)
    <3>1. ~Answered(m)
      BY <2>1, <2>2 DEF Joins
    <3> QED
      BY <2>2, <3>1 DEF Quiet, Answered
  <2>3. CASE UNCHANGED vars
    BY <2>1, <2>3 DEF vars, bufs, Answered
  <2> QED
    BY <2>2, <2>3, WaitStep
<1> QED
  BY <1>1, <1>2, TypeCorrect, PTL DEF Spec

-----------------------------------------------------------------------------
(* The guess and the point, when user pages are resident.                  *)

\* A guess replaces what is in the buffer, and a point is earned, only in a
\* write that has just looked at the buffer and at the round, or in one that has
\* slept in the copy since it did.
LEMMA GuessStep ==
    ASSUME TypeOK, [Next]_vars
    PROVE  \/ /\ UNCHANGED guessBuf
              /\ \A b \in Breaker \cap File : data'[b].score <= data[b].score
           \/ ~guessReady /\ ~RoundOver
           \/ \E c \in Caller : pc[c] = "gsCopy"
<1> DEFINE Kept == /\ UNCHANGED guessBuf
                   /\ \A b \in Breaker \cap File : data'[b].score <= data[b].score
<1> USE DEF bufs
<1>1. \A b \in Breaker \cap File : data[b].score \in Nat /\ data[b].score <= data[b].score
  BY DEF TypeOK, CallsTypeOK, PrivateData
<1>2. UNCHANGED <<guessBuf, data>> => Kept
  BY <1>1
<1>3. ASSUME NEW c \in Caller, NEW d, Save(c, d), UNCHANGED guessBuf,
             c \in Maker \/ d.score <= private_data(c).score
      PROVE  Kept
  <2>1. ASSUME NEW b \in Breaker \cap File PROVE data'[b].score <= data[b].score
    <3>1. CASE fileOf(c) = b
      <4>1. data'[b] = d /\ c \notin Maker
        BY <1>3, <3>1, Files DEF TypeOK, CallsTypeOK, Save
      <4> QED
        BY <1>3, <3>1, <4>1 DEF private_data
    <3>2. CASE fileOf(c) # b
      BY <1>1, <1>3, <3>2 DEF TypeOK, CallsTypeOK, Save
    <3> QED
      BY <3>1, <3>2
  <2> QED
    BY <1>3, <2>1
<1>4. ASSUME NEW c \in Breaker
      PROVE  /\ Fresh(c).score <= private_data(c).score
             /\ NoData.score <= private_data(c).score
             /\ Refreshed(c).score <= private_data(c).score
             /\ Scored(private_data(c), FALSE).score <= private_data(c).score
  <2>1. private_data(c).score \in Nat
    BY Files, PrivateDataType DEF PrivateData
  <2> QED
    BY <2>1 DEF Fresh, NoData, Refreshed, Scored, Data
<1>5. ASSUME NEW c \in Caller, Open(c) \/ OpenAllocated(c) PROVE Kept
  BY <1>2, <1>3, <1>4, <1>5, Files DEF Open, OpenAllocated, Enrol
<1>6. ASSUME NEW c \in Caller, MakerRelease(c) \/ BreakerRelease(c) PROVE Kept
  BY <1>3, <1>4, <1>6 DEF MakerRelease, BreakerRelease, Gone
<1>7. ASSUME NEW c \in Caller, MakerRead(c) \/ MakerReadWoken(c) PROVE Kept
  BY <1>2, <1>7 DEF MakerRead, MakerReadWoken
<1>8. ASSUME NEW c \in Caller,
             BreakerRead(c) \/ BreakerReadWoken(c) \/ BreakerReadCopied(c)
      PROVE  Kept
  <2>1. CopyFeedback(c) \/ TakeFeedback(c) => UNCHANGED guessBuf
    BY DEF CopyFeedback, TakeFeedback
  <2> QED
    BY <1>2, <1>3, <1>4, <1>8, <2>1
    DEF BreakerRead, BreakerReadWoken, BreakerReadCopied
<1>9. ASSUME NEW c \in Caller, MakerWrite(c) \/ MakerWriteCopied(c) PROVE Kept
  <2>1. c \in Maker
    BY <1>9 DEF MakerWrite, MakerWriteCopied
  <2>2. SetPassword(c) \/ SetFeedback(c) => Kept
    BY <1>2, <1>3, <2>1 DEF SetPassword, SetFeedback
  <2> QED
    BY <1>2, <1>9, <2>2 DEF MakerWrite, MakerWriteCopied, SpoilPassword
<1>10. ASSUME NEW c \in Caller, BreakerWrite(c)
       PROVE  Kept \/ (~guessReady /\ ~RoundOver)
  BY <1>2, <1>3, <1>4, <1>10 DEF BreakerWrite
<1>11. ASSUME NEW c \in Caller, BreakerWriteWoken(c)
       PROVE  Kept \/ (~guessReady /\ ~RoundOver)
  BY <1>2, <1>11 DEF BreakerWriteWoken, Woken, At, Condition
<1>12. ASSUME NEW c \in Caller, BreakerWriteCopied(c)
       PROVE  pc[c] = "gsCopy"
  BY <1>12 DEF BreakerWriteCopied, At
<1>13. ASSUME NEW c \in Caller,
              SleepAgain(c) \/ Signal(c) \/ \E arg \in Arg : RoundStart(c, arg)
       PROVE  Kept
  BY <1>2, <1>13 DEF SleepAgain, Signal, RoundStart
<1>14. ASSUME NEW c \in Caller, GetMyScore(c) PROVE Kept
  <2>1. CASE c \in Maker
    BY <1>3, <1>14, <2>1 DEF GetMyScore
  <2>2. CASE c \in Breaker
    <3>1. Save(c, Scored(private_data(c), FALSE)) /\ UNCHANGED guessBuf
      BY <1>14, <2>2, ConstantsAssumption DEF GetMyScore
    <3> QED
      BY <1>3, <1>4, <2>2, <3>1, Files
  <2> QED
    BY <2>1, <2>2, Files
<1>15. UNCHANGED vars => Kept
  BY <1>2 DEF vars
<1> HIDE DEF Kept
<1>16. Next => \/ Kept
               \/ ~guessReady /\ ~RoundOver
               \/ \E c \in Caller : pc[c] = "gsCopy"
  BY <1>5, <1>6, <1>7, <1>8, <1>9, <1>10, <1>11, <1>12, <1>13, <1>14, Zenon
  DEF Next
<1> QED
  BY <1>15, <1>16 DEF Kept

\* With resident pages no call is ever interrupted in a copy.
Resident == \A c \in Caller : pc[c] \notin Copying

LEMMA ResidentStep ==
    ASSUME PageFaults = FALSE, TypeOK, Resident, [Next]_vars
    PROVE  Resident'
<1> USE DEF Return
<1>1. ASSUME NEW c \in Caller, NEW l \in Location \ Copying, Goto(c, l)
      PROVE  Resident'
  BY <1>1 DEF TypeOK, CallsTypeOK, Goto, Resident
<1>2. UNCHANGED pc => Resident'
  BY DEF Resident
<1>3. {"closed", "opening", "idle", "rdWait", "wrWait"} \subseteq Location \ Copying
  BY DEF Location, Waiting, Copying
<1>4. ASSUME NEW c \in Caller, Open(c) \/ OpenAllocated(c) PROVE Resident'
  BY <1>1, <1>2, <1>3, <1>4 DEF Open, OpenAllocated, Enrol, SleepIn
<1>5. ASSUME NEW c \in Caller, MakerRelease(c) \/ BreakerRelease(c) PROVE Resident'
  BY <1>1, <1>3, <1>5 DEF MakerRelease, BreakerRelease, Gone
<1>6. ASSUME NEW c \in Caller, MakerRead(c) \/ MakerReadWoken(c) PROVE Resident'
  BY <1>1, <1>3, <1>6 DEF MakerRead, MakerReadWoken, CopyOut, SleepOn
<1>7. ASSUME NEW c \in Caller,
             BreakerRead(c) \/ BreakerReadWoken(c) \/ BreakerReadCopied(c)
      PROVE  Resident'
  BY <1>1, <1>3, <1>7 DEF BreakerRead, BreakerReadWoken, BreakerReadCopied,
     CopyFeedback, TakeFeedback, SleepOn
<1>8. ASSUME NEW c \in Caller, MakerWrite(c) \/ MakerWriteCopied(c) PROVE Resident'
  BY <1>1, <1>3, <1>8
  DEF MakerWrite, MakerWriteCopied, SpoilPassword, SetPassword, SetFeedback
<1>9. ASSUME NEW c \in Caller, NEW d,
             CopyGuess(c, d) \/ WriteGuess(c, d)
      PROVE  Resident'
  BY <1>1, <1>3, <1>9 DEF CopyGuess, WriteGuess, RejectGuess, AcceptGuess
<1>10. ASSUME NEW c \in Caller,
              BreakerWrite(c) \/ BreakerWriteWoken(c) \/ BreakerWriteCopied(c)
       PROVE  Resident'
  BY <1>1, <1>3, <1>9, <1>10
  DEF BreakerWrite, BreakerWriteWoken, BreakerWriteCopied, SpoilGuess, SleepOn
<1>11. ASSUME NEW c \in Caller,
              \/ SleepAgain(c) \/ Signal(c) \/ GetMyScore(c)
              \/ \E arg \in Arg : RoundStart(c, arg)
       PROVE  Resident'
  BY <1>1, <1>2, <1>3, <1>11 DEF SleepAgain, Signal, GetMyScore, RoundStart
<1>12. CASE UNCHANGED vars
  BY <1>2, <1>12 DEF vars
<1>13. CASE Next
  BY <1>4, <1>5, <1>6, <1>7, <1>8, <1>10, <1>11, <1>13, Zenon DEF Next
<1> QED
  BY <1>12, <1>13

LEMMA AlwaysResident ==
    ASSUME PageFaults = FALSE PROVE Spec => []Resident
<1>1. Init => Resident
  BY DEF Init, CallsInit, Resident, Copying
<1>2. TypeOK /\ Resident /\ [Next]_vars => Resident'
  BY ResidentStep
<1> QED
  BY <1>1, <1>2, TypeCorrect, PTL DEF Spec

\* A guess that waits for its feedback is not overwritten.
THEOREM GuessesAreKept == ASSUME PageFaults = FALSE PROVE Spec => GuessKept
<1>1. TypeOK /\ Resident /\ [Next]_vars
      => [guessReady /\ guessReady' => UNCHANGED guessBuf]_vars
  BY GuessStep DEF Resident, Copying
<1> QED
  BY <1>1, TypeCorrect, AlwaysResident, PTL DEF Spec, GuessKept

\* A round that a Codebreaker has won earns no Codebreaker another point.
THEOREM OnlyOneWins == ASSUME PageFaults = FALSE PROVE Spec => OneWinner
<1>1. TypeOK /\ Resident /\ [Next]_vars
      => [breaker_won /\ breaker_won' =>
              \A b \in Breaker \cap File : data'[b].score <= data[b].score]_vars
  BY GuessStep DEF Resident, Copying, RoundOver
<1> QED
  BY <1>1, TypeCorrect, AlwaysResident, PTL DEF Spec, OneWinner
=============================================================================
