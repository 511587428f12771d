----------------------------- MODULE SingleCore -----------------------------
(***************************************************************************)
(* The former driver kept beside mastermind.c, the file "mastermind -      *)
(* Single Core - Simple Test passing.c".  It differs where it matters most *)
(* for several processes: a flag says that a Codemaker exists, feedback is *)
(* what the Codemaker writes, the guess buffer is emptied by the feedback  *)
(* and not by its reader, and hardly anything wakes the queue.             *)
(***************************************************************************)
EXTENDS Calls

CONSTANT MaxCount      \* bound: the two counts of Codebreakers

ASSUME MaxCountAssumption == MaxCount \in Nat

VARIABLES
    codemaker_exists, colour_range, in_round, round_id, guessedCorrect,
    passwordBuf, guessBuf,
    feedbackBuf,      \* TRUE if the feedback says 2222
    passwordReady, feedbackReady, guessReady,
    num_of_codemakers, num_of_codebrakers, num_of_codebrakers_playing

round  == <<colour_range, in_round, round_id, guessedCorrect>>
bufs   == <<passwordBuf, guessBuf, feedbackBuf,
            passwordReady, feedbackReady, guessReady>>
counts == <<codemaker_exists, num_of_codemakers, num_of_codebrakers,
            num_of_codebrakers_playing>>
vars   == <<round, bufs, counts, data, pc, asleep, ret>>

Init ==
    /\ in_round = FALSE /\ guessedCorrect = FALSE
    /\ round_id = 0 /\ colour_range = 0
    /\ passwordBuf = Blank /\ guessBuf = Blank /\ feedbackBuf = FALSE
    /\ passwordReady = FALSE /\ feedbackReady = FALSE /\ guessReady = FALSE
    /\ codemaker_exists = FALSE /\ num_of_codemakers = 0
    /\ num_of_codebrakers = 0 /\ num_of_codebrakers_playing = 0
    /\ CallsInit

-----------------------------------------------------------------------------
\* The condition of the wait_event_interruptible that c is in.
AnyWakeUp(c) == TRUE                                                \* mutant
Condition(c) ==
    IF pc[c] = "wrWait" THEN ~guessReady
    ELSE IF c \in Maker THEN guessReady
    ELSE feedbackReady

Woken(c, l) == At(c, l) /\ c \notin asleep /\ Condition(c)

checkInput(g) == Highest[g] <= colour_range

generateFeedback(g, p) == g = p

NegativeTurns(turns) == turns < 0
Exhausted(turns) == turns = 0

\* The private data of c after a handler has refilled its turns.
Refreshed(c) ==
    IF private_data(c).round_id = round_id THEN private_data(c)
    ELSE Data(NUM_TURNS, private_data(c).score, round_id)

Scored(d, won) == Data(d.turns, IF won THEN d.score + 1 ELSE d.score, d.round_id)

-----------------------------------------------------------------------------
(* open and release                                                        *)

JunkScore(f) == Data(0, -1, round_id)                               \* mutant
Fresh(f) == Data(IF f \in Breaker THEN NUM_TURNS ELSE 0, 0, round_id)

Enrol(f) ==
    /\ Save(f, Fresh(f))
    /\ IF f \in Maker
       THEN /\ codemaker_exists' = TRUE
            /\ num_of_codemakers' = num_of_codemakers + 1
            /\ UNCHANGED <<num_of_codebrakers, num_of_codebrakers_playing>>
       ELSE /\ num_of_codebrakers < MaxCount
            /\ num_of_codebrakers_playing < MaxCount
            /\ num_of_codebrakers' = num_of_codebrakers + 1
            /\ num_of_codebrakers_playing' = num_of_codebrakers_playing + 1
            /\ UNCHANGED <<codemaker_exists, num_of_codemakers>>
    /\ Return(f, "open", 0)

Refuses(f) == f \in Maker /\ codemaker_exists

Open(f) ==
    /\ f \in File /\ At(f, "closed")
    /\ \/ /\ \/ Refuses(f) /\ Answer(f, "open", -EPERM)
             \/ ~Refuses(f) /\ Answer(f, "open", -ENOMEM)
          /\ UNCHANGED <<counts, data, pc>>
       \/ ~Refuses(f) /\ Enrol(f)
       \/ /\ AllocSleeps /\ ~Refuses(f)
          /\ SleepIn(f, "opening")
          /\ UNCHANGED <<counts, data>>
    /\ UNCHANGED <<round, bufs, asleep>>

OpenAllocated(f) ==
    /\ f \in File /\ At(f, "opening")
    /\ Enrol(f)
    /\ UNCHANGED <<round, bufs, asleep>>

Gone(f, v) ==
    /\ Goto(f, "closed")
    /\ Save(f, NoData)
    /\ Answer(f, "release", v)

MakerRelease(f) ==
    /\ f \in Maker /\ IsOpen(f) /\ Unused(f)
    /\ \/ /\ in_round
          /\ Gone(f, -EBUSY)
          /\ UNCHANGED <<num_of_codemakers, asleep>>
       \/ /\ ~in_round
          /\ Gone(f, 0)
          /\ num_of_codemakers' = num_of_codemakers - 1
          /\ wake_up
    /\ UNCHANGED <<round, bufs, codemaker_exists, num_of_codebrakers,
                   num_of_codebrakers_playing>>

\* What a Codebreaker that leaves with t turns takes from the two counters:
\* the test for the second is nested in that for the first and never holds.
LeavesTwice(t) == IF t > 0 THEN 2 ELSE 0                            \* mutant
Leaves(t) == IF t > 0 THEN 1 ELSE 0
StopsAgain(t) == IF t = 0 THEN 1 ELSE 0                             \* mutant
Stops(t) == IF t > 0 /\ t = 0 THEN 1 ELSE 0

BreakerRelease(f) ==
    /\ f \in Breaker /\ IsOpen(f) /\ Unused(f)
    /\ num_of_codebrakers' = num_of_codebrakers - Leaves(data[f].turns)
    /\ num_of_codebrakers_playing' =
           num_of_codebrakers_playing - Stops(data[f].turns)
    /\ Gone(f, 0)
    /\ UNCHANGED <<round, bufs, codemaker_exists, num_of_codemakers, asleep>>

-----------------------------------------------------------------------------
(* read                                                                    *)

CopyOut(c) ==
    /\ guessedCorrect' = generateFeedback(guessBuf, passwordBuf)
    /\ \/ Return(c, "read", 1)
       \/ PageFaults /\ Return(c, "read", -EFAULT)
    /\ UNCHANGED <<colour_range, in_round, round_id>>

MakerRead(c) ==
    /\ c \in Maker /\ Ready(c)
    /\ \/ /\ ~in_round
          /\ Return(c, "read", -EIO)
          /\ UNCHANGED <<round, asleep>>
       \/ /\ in_round /\ ~guessReady /\ num_of_codebrakers_playing = 0
          /\ Return(c, "read", EOF)
          /\ UNCHANGED <<round, asleep>>
       \/ /\ in_round /\ ~guessReady /\ num_of_codebrakers_playing # 0
          /\ SleepOn(c, "rdWait")
          /\ UNCHANGED round
       \/ in_round /\ guessReady /\ CopyOut(c) /\ UNCHANGED asleep
    /\ UNCHANGED <<bufs, counts, data>>

MakerReadWoken(c) ==
    /\ c \in Maker /\ Woken(c, "rdWait")
    /\ \/ ~in_round /\ Return(c, "read", -EIO) /\ UNCHANGED round
       \/ in_round /\ CopyOut(c)
    /\ UNCHANGED <<bufs, counts, data, asleep>>

EndsRound(right) == right \/ num_of_codebrakers_playing = 0

\* What follows the copy: the point of a right guess, and the end of the round.
\* The guess is right if all the pegs that the user asked for are marked 2.
TakeFeedback(c, d) ==
    /\ \E guessed \in {feedbackBuf} \cup (IF OddCounts THEN BOOLEAN ELSE {}) :
           /\ in_round' = (in_round /\ ~EndsRound(guessed))
           /\ Save(c, Scored(d, guessed))
    /\ feedbackReady' = FALSE
    /\ Return(c, "read", 1)
    /\ UNCHANGED <<colour_range, round_id, guessedCorrect, passwordBuf, guessBuf,
                   feedbackBuf, passwordReady, guessReady, asleep>>

CopyFeedback(c, d) ==
    \/ TakeFeedback(c, d)
    \/ /\ PageFaults /\ SleepIn(c, "rdCopy")
       /\ Save(c, d)
       /\ UNCHANGED <<round, bufs>>

BreakerRead(c) ==
    LET d == Refreshed(c) IN
    /\ c \in Breaker /\ Ready(c)
    /\ \/ /\ ~in_round
          /\ Return(c, "read", -EIO)
          /\ UNCHANGED <<round, bufs, data, asleep>>
       \/ /\ in_round
          /\ \/ NegativeTurns(d.turns) /\ Return(c, "read", -EPERM)
             \/ /\ ~NegativeTurns(d.turns) /\ ~feedbackReady
                /\ num_of_codemakers = 0
                /\ Return(c, "read", EOF)
          /\ Save(c, d)
          /\ UNCHANGED <<round, bufs, asleep>>
       \/ /\ in_round /\ ~NegativeTurns(d.turns) /\ ~feedbackReady
          /\ num_of_codemakers # 0
          /\ Save(c, d)
          /\ SleepOn(c, "rdWait")
          /\ UNCHANGED <<round, bufs>>
       \/ /\ in_round /\ ~NegativeTurns(d.turns) /\ feedbackReady
          /\ CopyFeedback(c, d)
    /\ UNCHANGED counts

BreakerReadWoken(c) ==
    /\ c \in Breaker /\ Woken(c, "rdWait")
    /\ \/ /\ ~in_round
          /\ Return(c, "read", -EIO)
          /\ UNCHANGED <<round, bufs, data, asleep>>
       \/ in_round /\ CopyFeedback(c, private_data(c))
    /\ UNCHANGED counts

BreakerReadCopied(c) ==
    /\ c \in Breaker /\ At(c, "rdCopy")
    /\ \/ TakeFeedback(c, private_data(c))
       \/ Return(c, "read", -EFAULT) /\ UNCHANGED <<round, bufs, data, asleep>>
    /\ UNCHANGED counts

-----------------------------------------------------------------------------
(* write                                                                   *)

SetPassword(c) ==
    /\ \/ \E p \in Code : passwordBuf' = p
       \/ OddCounts /\ UNCHANGED passwordBuf
    /\ passwordReady' = TRUE
    /\ wake_up
    /\ Return(c, "write", 1)
    /\ UNCHANGED <<guessBuf, feedbackBuf, feedbackReady, guessReady, data>>

\* Whether the guess is right was settled before the copy of the feedback.
SetFeedback(c, right) ==
    /\ feedbackBuf' \in BOOLEAN
    /\ feedbackReady' = TRUE /\ guessReady' = FALSE
    /\ Save(c, Scored(private_data(c), num_of_codebrakers_playing = 0 /\ ~right))
    /\ Return(c, "write", 1)
    /\ UNCHANGED <<passwordBuf, guessBuf, passwordReady, asleep>>

MakerWrite(c) ==
    LET right == generateFeedback(guessBuf, passwordBuf) IN
    /\ c \in Maker /\ Ready(c)
    /\ \/ /\ ~in_round
          /\ \/ SetPassword(c)
             \/ PageFaults /\ SleepIn(c, "pwCopy") /\ UNCHANGED <<bufs, data>>
          /\ UNCHANGED guessedCorrect
       \/ /\ in_round /\ feedbackReady
          /\ Return(c, "write", -EBUSY)
          /\ UNCHANGED <<bufs, data, asleep, guessedCorrect>>
       \/ /\ in_round /\ ~feedbackReady
          /\ guessedCorrect' = right
          /\ \/ SetFeedback(c, right)
             \/ /\ PageFaults /\ SleepIn(c, "fbCopy")
                /\ feedbackBuf' = right
                /\ UNCHANGED <<passwordBuf, guessBuf, passwordReady,
                               feedbackReady, guessReady, data>>
    /\ UNCHANGED <<colour_range, in_round, round_id, counts>>

\* A copy that faults has put a zero in the buffer.
MakerWriteCopied(c) ==
    /\ c \in Maker
    /\ \/ At(c, "pwCopy") /\ SetPassword(c)
       \/ At(c, "fbCopy") /\ SetFeedback(c, guessedCorrect)
       \/ /\ pc[c] \in {"pwCopy", "fbCopy"}
          /\ IF At(c, "pwCopy")
             THEN passwordBuf' = Blank /\ UNCHANGED feedbackBuf
             ELSE feedbackBuf' = FALSE /\ UNCHANGED passwordBuf
          /\ Return(c, "write", -EFAULT)
          /\ UNCHANGED <<guessBuf, passwordReady, feedbackReady, guessReady,
                         data, asleep>>
    /\ UNCHANGED <<round, counts>>

\* The buffer takes five pegs: four good ones and an illegal one are refused too.
RejectGuess(c, d, g) ==
    /\ ~checkInput(g) \/ OddCounts
    /\ guessBuf' = g
    /\ Save(c, d)
    /\ Return(c, "write", -EINVAL)
    /\ UNCHANGED <<counts, guessReady>>

AcceptGuess(c, d, g) ==
    LET left == d.turns - 1 IN
    /\ left >= -MaxDebt
    /\ guessBuf' = g /\ guessReady' = TRUE
    /\ Save(c, Data(left, d.score, d.round_id))
    /\ num_of_codebrakers_playing' =
           num_of_codebrakers_playing - (IF Exhausted(left) THEN 1 ELSE 0)
    /\ Return(c, "write", 1)
    /\ UNCHANGED <<codemaker_exists, num_of_codemakers, num_of_codebrakers>>

\* The pegs that the user passes are checked, those that they leave are not.
WriteGuess(c, d) ==
    /\ \/ \E g \in Code :
              RejectGuess(c, d, g) \/ (checkInput(g) /\ AcceptGuess(c, d, g))
       \/ OddCounts /\ AcceptGuess(c, d, guessBuf)
    /\ UNCHANGED <<round, passwordBuf, feedbackBuf, passwordReady, feedbackReady,
                   asleep>>

CopyGuess(c, d) ==
    \/ WriteGuess(c, d)
    \/ /\ PageFaults /\ SleepIn(c, "gsCopy")
       /\ Save(c, d)
       /\ UNCHANGED <<round, bufs, counts>>

BreakerWrite(c) ==
    LET d == Refreshed(c) IN
    /\ c \in Breaker /\ Ready(c)
    /\ \/ /\ ~in_round
          /\ Return(c, "write", -EIO)
          /\ UNCHANGED <<round, bufs, counts, data, asleep>>
       \/ /\ in_round
          /\ \/ Exhausted(d.turns) /\ Return(c, "write", -EPERM)
             \/ /\ ~Exhausted(d.turns) /\ guessReady /\ ~codemaker_exists
                /\ Return(c, "write", EOF)
          /\ Save(c, d)
          /\ UNCHANGED <<round, bufs, counts, asleep>>
       \/ /\ in_round /\ ~Exhausted(d.turns) /\ guessReady /\ codemaker_exists
          /\ Save(c, d)
          /\ SleepOn(c, "wrWait")
          /\ UNCHANGED <<round, bufs, counts>>
       \/ in_round /\ ~Exhausted(d.turns) /\ ~guessReady /\ CopyGuess(c, d)

BreakerWriteWoken(c) ==
    /\ c \in Breaker /\ Woken(c, "wrWait")
    /\ \/ /\ ~in_round
          /\ Return(c, "write", -EIO)
          /\ UNCHANGED <<round, bufs, counts, data, asleep>>
       \/ in_round /\ CopyGuess(c, private_data(c))

BreakerWriteCopied(c) ==
    /\ c \in Breaker /\ At(c, "gsCopy")
    /\ \/ WriteGuess(c, private_data(c))
       \/ /\ guessBuf' = Blank
          /\ Return(c, "write", -EFAULT)
          /\ UNCHANGED <<round, passwordBuf, feedbackBuf, passwordReady,
                         feedbackReady, guessReady, counts, data, asleep>>

-----------------------------------------------------------------------------
(* The rest of wait_event_interruptible, and ioctl.                        *)

SleepAgain(c) ==
    /\ pc[c] \in Waiting /\ c \notin asleep /\ ~Condition(c)
    /\ asleep' = asleep \cup {c}
    /\ UNCHANGED <<round, bufs, counts, data, pc, ret>>

Signal(c) ==
    /\ pc[c] \in Waiting
    /\ \/ /\ ~Condition(c)
          /\ Return(c, IF At(c, "wrWait") THEN "write" ELSE "read", -EINTR)
       \/ c \in asleep /\ Condition(c) /\ UNCHANGED <<pc, ret>>
    /\ asleep' = asleep \ {c}
    /\ UNCHANGED <<round, bufs, counts, data>>

RoundStart(c, arg) ==
    /\ Ready(c)
    /\ \/ /\ \/ c \in Breaker /\ Return(c, "ROUND_START", -EPERM)
             \/ c \in Maker /\ arg \notin 4..10 /\ Return(c, "ROUND_START", -EINVAL)
          /\ UNCHANGED <<colour_range, in_round, round_id>>
       \/ /\ c \in Maker /\ arg \in 4..10
          /\ colour_range' = arg
          /\ \/ /\ \/ in_round /\ Return(c, "ROUND_START", -EBUSY)
                   \/ /\ ~in_round /\ num_of_codebrakers = 0
                      /\ Return(c, "ROUND_START", -EPERM)
                   \/ /\ ~in_round /\ num_of_codebrakers # 0 /\ ~passwordReady
                      /\ Return(c, "ROUND_START", -1)
                /\ UNCHANGED <<in_round, round_id>>
             \/ /\ ~in_round /\ num_of_codebrakers # 0 /\ passwordReady
                /\ round_id < MaxRound
                /\ in_round' = TRUE /\ round_id' = round_id + 1
                /\ Return(c, "ROUND_START", 0)
    /\ UNCHANGED <<guessedCorrect, bufs, counts, data, asleep>>

GetMyScore(c) ==
    /\ Ready(c)
    /\ Return(c, "GET_MY_SCORE", private_data(c).score)
    /\ UNCHANGED <<round, bufs, counts, data, asleep>>

-----------------------------------------------------------------------------
Next ==
    \E c \in Caller :
        \/ Open(c) \/ OpenAllocated(c)
        \/ MakerRelease(c) \/ BreakerRelease(c)
        \/ MakerRead(c) \/ MakerReadWoken(c)
        \/ BreakerRead(c) \/ BreakerReadWoken(c) \/ BreakerReadCopied(c)
        \/ MakerWrite(c) \/ MakerWriteCopied(c)
        \/ BreakerWrite(c) \/ BreakerWriteWoken(c) \/ BreakerWriteCopied(c)
        \/ SleepAgain(c) \/ Signal(c)
        \/ \E arg \in Arg : RoundStart(c, arg)
        \/ GetMyScore(c)

Spec == Init /\ [][Next]_vars
-----------------------------------------------------------------------------
(* What holds.                                                             *)

\* The type invariant.
TypeOK ==
    /\ CallsTypeOK
    /\ {codemaker_exists, in_round, guessedCorrect, feedbackBuf, passwordReady,
        feedbackReady, guessReady} \subseteq BOOLEAN
    /\ {round_id, colour_range} \subseteq Nat
    /\ {passwordBuf, guessBuf} \subseteq Code \cup {Blank}
    /\ {num_of_codemakers, num_of_codebrakers, num_of_codebrakers_playing}
           \subseteq Int

\* No Codebreaker ever has more than NUM_TURNS turns; whatever the write of one
\* whose file nobody shares slept on, it still has the turn it is about to spend.
TurnInHand ==
    /\ \A b \in Breaker \cap File : data[b].turns <= NUM_TURNS
    /\ \A b \in Breaker \cap Sole :
           /\ data[b].turns >= 0
           /\ pc[b] \in {"wrWait", "gsCopy"} => data[b].turns > 0

\* ROUND_START never turns a Codemaker away for want of players when there is
\* one: the count can only be too high (who leaves without turns stays in it).
BreakersNotForgotten == Cardinality(Enrolled(Breaker)) <= num_of_codebrakers

\* In the first round the Codemaker's read does not answer EOF while somebody
\* has turns: this count, too, can only be too high.
PlayersNotForgotten ==
    round_id <= 1 => Cardinality(Live) <= num_of_codebrakers_playing

\* A guess that waits for its feedback is not overwritten by a writer that was
\* woken or has just come, but only by one that slept while it copied its own.
GuessKept ==
    [][guessReady /\ guessReady' /\ (\A b \in Breaker : ~At(b, "gsCopy")) =>
           UNCHANGED guessBuf]_vars

-----------------------------------------------------------------------------
(* What the comments of the file say and the code does not do.             *)

\* "If the buffer is empty [...] then the Codemaker should wait until something
\* is written into it" (read, 182-183), and a Codebreaker "until the buffer is
\* filled by the Codemaker" (230-231): nobody sleeps on in read when it is.
NoLostWakeupInRead ==
    \A c \in asleep : At(c, "rdWait") => ~Condition(c)
=============================================================================
