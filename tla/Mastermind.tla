----------------------------- MODULE Mastermind -----------------------------
(***************************************************************************)
(* The character device of mastermind.c: one Codemaker (minor 0) sets a    *)
(* password and answers guesses, Codebreakers (minor 1) guess it, and all  *)
(* of them meet in the global variables of the module.  Calls says what a  *)
(* caller is, where its call can sleep, and what an action is.             *)
(***************************************************************************)
EXTENDS Calls

VARIABLES
    in_round, round_id, colour_range, maker_won, breaker_won,
    passwordBuf, guessBuf, passwordReady, guessReady, feedbackReady,
    num_of_codemakers, num_of_codebrakers, num_of_codebrakers_playing

round  == <<in_round, round_id, colour_range, maker_won, breaker_won>>
bufs   == <<passwordBuf, guessBuf, passwordReady, guessReady, feedbackReady>>
counts == <<num_of_codemakers, num_of_codebrakers, num_of_codebrakers_playing>>
vars   == <<round, bufs, counts, data, pc, asleep, ret>>

Init ==
    /\ in_round = FALSE /\ maker_won = FALSE /\ breaker_won = FALSE
    /\ round_id = 0 /\ colour_range = 0
    /\ passwordBuf = Blank /\ guessBuf = Blank
    /\ passwordReady = FALSE /\ guessReady = FALSE /\ feedbackReady = FALSE
    /\ num_of_codemakers = 0 /\ num_of_codebrakers = 0
    /\ num_of_codebrakers_playing = 0
    /\ CallsInit

-----------------------------------------------------------------------------
(* The tests the handlers share.                                           *)

\* The condition of the wait_event_interruptible that c is in.
AnyWakeUp(c) == TRUE                                                \* mutant
Condition(c) ==
    IF pc[c] = "wrWait" THEN ~guessReady
    ELSE IF c \in Maker THEN guessReady
    ELSE passwordReady /\ feedbackReady

\* c runs again after a wake-up and leaves the wait.
Woken(c, l) == At(c, l) /\ c \notin asleep /\ Condition(c)

NotInRound == ~in_round                                             \* mutant
RoundOver == ~in_round \/ breaker_won \/ maker_won

MoreMakers == num_of_codemakers > 1                                 \* mutant
MakerExists == num_of_codemakers # 0

NegativeTurns(turns) == turns < 0
Exhausted(turns) == turns = 0

MoreThanOne(turns) == turns > 1                                     \* mutant
NotNegative(turns) == turns >= 0                                    \* mutant
CanPlay(turns) == turns > 0

\* get_user and checkInput on a whole guess.
checkInput(g) == Highest[g] <= colour_range

generateFeedback(g, p) == g = p

\* As if the refill did not note the round it is for.               (mutant)
RefilledAlways(c) ==
    IF private_data(c).round_id = round_id THEN private_data(c)
    ELSE Data(NUM_TURNS, private_data(c).score, private_data(c).round_id)

\* The private data of c after a handler has refilled its turns.
Refreshed(c) ==
    IF private_data(c).round_id = round_id THEN private_data(c)
    ELSE Data(NUM_TURNS, private_data(c).score, round_id)

\* d with the point of a round that it has won.
Scored(d, won) == Data(d.turns, IF won THEN d.score + 1 ELSE d.score, d.round_id)

-----------------------------------------------------------------------------
(* open                                                                    *)

\* The private data of a new file.  What kmalloc left in the turns of a
\* Codemaker is never read; it is 0 here.
JunkScore(f) == Data(0, -1, round_id)                               \* mutant
Fresh(f) == Data(IF f \in Breaker THEN NUM_TURNS ELSE 0, 0, round_id)

\* As if num_of_codemakers were a flag and not a count.            (mutant)
EnrolFlag(f) ==
    /\ Save(f, Fresh(f))
    /\ num_of_codemakers' = IF f \in Maker THEN 1 ELSE num_of_codemakers
    /\ UNCHANGED <<num_of_codebrakers, num_of_codebrakers_playing>>
    /\ Return(f, "open", 0)

Enrol(f) ==
    /\ Save(f, Fresh(f))
    /\ IF f \in Maker
       THEN /\ num_of_codemakers' = num_of_codemakers + 1
            /\ UNCHANGED <<num_of_codebrakers, num_of_codebrakers_playing>>
       ELSE /\ num_of_codebrakers' = num_of_codebrakers + 1
            /\ num_of_codebrakers_playing' = num_of_codebrakers_playing + 1
            /\ UNCHANGED num_of_codemakers
    /\ Return(f, "open", 0)

Open(f) ==
    LET refused == f \in Maker /\ MakerExists IN
    /\ f \in File /\ At(f, "closed")
    /\ \/ /\ refused
          /\ Answer(f, "open", -EPERM)
          /\ UNCHANGED <<counts, data, pc>>
       \/ /\ ~refused
          /\ Answer(f, "open", -ENOMEM)
          /\ UNCHANGED <<counts, data, pc>>
       \/ ~refused /\ Enrol(f)
       \/ /\ AllocSleeps /\ ~refused
          /\ SleepIn(f, "opening")
          /\ UNCHANGED <<counts, data>>
    /\ UNCHANGED <<round, bufs, asleep>>

OpenAllocated(f) ==
    /\ f \in File /\ At(f, "opening")
    /\ Enrol(f)
    /\ UNCHANGED <<round, bufs, asleep>>

-----------------------------------------------------------------------------
(* release.  The kernel runs it when the last reference to the file goes   *)
(* and ignores its result: the file is gone whatever release returns.      *)

Gone(f, v) ==
    /\ Goto(f, "closed")
    /\ Save(f, NoData)
    /\ Answer(f, "release", v)

\* The round of a Codemaker who leaves is forgotten.
ForgetPassword ==                                                   \* mutant
    passwordReady' = FALSE /\ UNCHANGED <<in_round, maker_won, breaker_won>>

ForgetRound ==
    /\ in_round' = FALSE /\ passwordReady' = FALSE
    /\ maker_won' = FALSE /\ breaker_won' = FALSE

MakerRelease(f) ==
    /\ f \in Maker /\ IsOpen(f) /\ Unused(f)
    /\ \/ /\ in_round /\ ~breaker_won /\ ~maker_won
          /\ Gone(f, -EBUSY)
          /\ UNCHANGED <<round, passwordReady, num_of_codemakers, asleep>>
       \/ /\ ~in_round \/ breaker_won \/ maker_won
          /\ Gone(f, 0)
          /\ num_of_codemakers' = num_of_codemakers - 1
          /\ ForgetRound
          /\ wake_up
          /\ UNCHANGED <<round_id, colour_range>>
    /\ UNCHANGED <<passwordBuf, guessBuf, guessReady, feedbackReady,
                   num_of_codebrakers, num_of_codebrakers_playing>>

\* What num_of_codebrakers becomes when f leaves.
LessIfPlaying(f) ==                                                 \* mutant
    IF CanPlay(data[f].turns) THEN num_of_codebrakers - 1 ELSE num_of_codebrakers
Less(f) == num_of_codebrakers - 1

BreakerRelease(f) ==
    LET plays   == CanPlay(data[f].turns)
        playing == num_of_codebrakers_playing - (IF plays THEN 1 ELSE 0) IN
    /\ f \in Breaker /\ IsOpen(f) /\ Unused(f)
    /\ num_of_codebrakers_playing' = playing
    /\ num_of_codebrakers' = Less(f)
    /\ maker_won' = (maker_won \/ (plays /\ in_round /\ playing = 0))
    /\ Gone(f, 0)
    /\ UNCHANGED <<in_round, round_id, colour_range, breaker_won, bufs,
                   num_of_codemakers, asleep>>

-----------------------------------------------------------------------------
(* read by the Codemaker.  Nothing shared changes after its put_user, so   *)
(* the copy to the user is not a step of its own.                          *)

CopyOut(c) ==
    \/ Return(c, "read", 1)
    \/ PageFaults /\ Return(c, "read", -EFAULT)

MakerRead(c) ==
    /\ c \in Maker /\ Ready(c)
    /\ \/ ~in_round /\ Return(c, "read", -EIO) /\ UNCHANGED asleep
       \/ /\ in_round /\ ~guessReady /\ num_of_codebrakers_playing = 0
          /\ Return(c, "read", EOF) /\ UNCHANGED asleep
       \/ /\ in_round /\ ~guessReady /\ num_of_codebrakers_playing # 0
          /\ SleepOn(c, "rdWait")
       \/ in_round /\ guessReady /\ CopyOut(c) /\ UNCHANGED asleep
    /\ UNCHANGED <<round, bufs, counts, data>>

MakerReadWoken(c) ==
    /\ c \in Maker /\ Woken(c, "rdWait")
    /\ \/ ~in_round /\ Return(c, "read", -EIO)
       \/ in_round /\ CopyOut(c)
    /\ UNCHANGED <<round, bufs, counts, data, asleep>>

-----------------------------------------------------------------------------
(* read by a Codebreaker                                                   *)

\* As if only the feedback buffer were emptied.                     (mutant)
TakeFeedbackOnly(c) ==
    /\ feedbackReady' = FALSE
    /\ wake_up
    /\ in_round' = (in_round /\ num_of_codebrakers_playing # 0)
    /\ Return(c, "read", 1)
    /\ UNCHANGED <<round_id, colour_range, maker_won, breaker_won,
                   passwordBuf, guessBuf, passwordReady, guessReady>>

\* The code after the copy to the user: empty both buffers.
TakeFeedback(c) ==
    /\ feedbackReady' = FALSE /\ guessReady' = FALSE
    /\ wake_up
    /\ in_round' = (in_round /\ num_of_codebrakers_playing # 0)
    /\ Return(c, "read", 1)
    /\ UNCHANGED <<round_id, colour_range, maker_won, breaker_won,
                   passwordBuf, guessBuf, passwordReady>>

CopyFeedback(c) ==
    \/ TakeFeedback(c)
    \/ PageFaults /\ SleepIn(c, "rdCopy") /\ UNCHANGED <<round, bufs>>

BreakerRead(c) ==
    LET d == Refreshed(c) IN
    /\ c \in Breaker /\ Ready(c)
    /\ \/ /\ ~in_round
          /\ Return(c, "read", -EIO)
          /\ UNCHANGED <<round, bufs, data, asleep>>
       \/ /\ in_round
          /\ Save(c, d)
          /\ \/ /\ NegativeTurns(d.turns)
                /\ Return(c, "read", -EPERM)
                /\ UNCHANGED <<round, bufs, asleep>>
             \/ /\ ~NegativeTurns(d.turns) /\ ~feedbackReady /\ ~MakerExists
                /\ Return(c, "read", EOF)
                /\ UNCHANGED <<round, bufs, asleep>>
             \/ /\ ~NegativeTurns(d.turns) /\ ~feedbackReady /\ MakerExists
                /\ SleepOn(c, "rdWait")
                /\ UNCHANGED <<round, bufs>>
             \/ ~NegativeTurns(d.turns) /\ feedbackReady /\ CopyFeedback(c)
    /\ UNCHANGED counts

BreakerReadWoken(c) ==
    /\ c \in Breaker /\ Woken(c, "rdWait")
    /\ \/ /\ ~in_round
          /\ Return(c, "read", -EIO)
          /\ UNCHANGED <<round, bufs, asleep>>
       \/ in_round /\ CopyFeedback(c)
    /\ UNCHANGED <<counts, data>>

BreakerReadCopied(c) ==
    /\ c \in Breaker /\ At(c, "rdCopy")
    /\ \/ TakeFeedback(c)
       \/ Return(c, "read", -EFAULT) /\ UNCHANGED <<round, bufs, asleep>>
    /\ UNCHANGED <<counts, data>>

-----------------------------------------------------------------------------
(* write by the Codemaker: the password between rounds, feedback in one.   *)

\* The pegs that the user passes; when they are too few, those that were there
\* stay behind them.
SetPassword(c) ==
    /\ \/ \E p \in Code : passwordBuf' = p
       \/ OddCounts /\ UNCHANGED passwordBuf
    /\ passwordReady' = TRUE /\ guessReady' = FALSE /\ feedbackReady' = FALSE
    /\ wake_up
    /\ Return(c, "write", 1)
    /\ UNCHANGED <<round, guessBuf, data>>

\* The copy of the password faults.
SpoilPassword(c) ==
    /\ PageFaults
    /\ passwordBuf' = Blank
    /\ Return(c, "write", -EFAULT)
    /\ UNCHANGED <<round, guessBuf, passwordReady, guessReady, feedbackReady,
                   data, asleep>>

\* The feedback the user wrote goes to a local buffer that is then dropped.
SetFeedback(c) ==
    /\ feedbackReady' = TRUE
    /\ wake_up
    /\ Save(c, Scored(private_data(c), maker_won))
    /\ in_round' = (in_round /\ ~maker_won)
    /\ maker_won' = FALSE
    /\ Return(c, "write", 1)
    /\ UNCHANGED <<round_id, colour_range, breaker_won,
                   passwordBuf, guessBuf, passwordReady, guessReady>>

MakerWrite(c) ==
    /\ c \in Maker /\ Ready(c)
    /\ \/ /\ ~in_round
          /\ \/ SetPassword(c)
             \/ /\ PageFaults /\ SleepIn(c, "pwCopy")
                /\ UNCHANGED <<round, bufs, data>>
       \/ /\ in_round /\ feedbackReady
          /\ Return(c, "write", -EBUSY)
          /\ UNCHANGED <<round, bufs, data, asleep>>
       \/ /\ in_round /\ ~feedbackReady
          /\ \/ SetFeedback(c)
             \/ /\ PageFaults /\ SleepIn(c, "fbCopy")
                /\ UNCHANGED <<round, bufs, data>>
    /\ UNCHANGED counts

MakerWriteCopied(c) ==
    /\ c \in Maker
    /\ \/ At(c, "pwCopy") /\ SetPassword(c)
       \/ At(c, "fbCopy") /\ SetFeedback(c)
       \/ At(c, "pwCopy") /\ SpoilPassword(c)
       \/ /\ PageFaults /\ At(c, "fbCopy")
          /\ Return(c, "write", -EFAULT)
          /\ UNCHANGED <<round, bufs, data, asleep>>
    /\ UNCHANGED counts

-----------------------------------------------------------------------------
(* write by a Codebreaker; d is the private data the handler works on.     *)

RejectGuess(c, d, g) ==
    /\ ~checkInput(g)
    /\ guessBuf' = g
    /\ Save(c, d)
    /\ Return(c, "write", -EINVAL)
    /\ UNCHANGED <<round, counts, passwordBuf, passwordReady, guessReady,
                   feedbackReady, asleep>>

AcceptGuess(c, d, g) ==
    LET left    == d.turns - 1
        playing == num_of_codebrakers_playing - (IF Exhausted(left) THEN 1 ELSE 0)
        guessed == generateFeedback(g, passwordBuf)
    IN
    /\ left >= -MaxDebt
    /\ guessBuf' = g /\ guessReady' = TRUE
    /\ Save(c, Scored(Data(left, d.score, d.round_id), guessed))
    /\ num_of_codebrakers_playing' = playing
    /\ breaker_won' = (breaker_won \/ guessed)
    /\ maker_won' = (maker_won \/ (playing = 0 /\ ~guessed))
    /\ wake_up
    /\ Return(c, "write", 1)
    /\ UNCHANGED <<in_round, round_id, colour_range, passwordBuf, passwordReady,
                   feedbackReady, num_of_codemakers, num_of_codebrakers>>

\* The copy of the guess faults.
SpoilGuess(c) ==
    /\ PageFaults
    /\ guessBuf' = Blank
    /\ Return(c, "write", -EFAULT)
    /\ UNCHANGED <<round, passwordBuf, passwordReady, guessReady, feedbackReady,
                   counts, data, asleep>>

\* The pegs that the user passes are checked, those that they leave are not.
WriteGuess(c, d) ==
    \/ \E g \in Code : RejectGuess(c, d, g) \/ (checkInput(g) /\ AcceptGuess(c, d, g))
    \/ OddCounts /\ AcceptGuess(c, d, guessBuf)

CopyGuess(c, d) ==
    \/ WriteGuess(c, d)
    \/ /\ PageFaults /\ SleepIn(c, "gsCopy")
       /\ Save(c, d)
       /\ UNCHANGED <<round, bufs, counts>>

BreakerWrite(c) ==
    LET d == Refreshed(c) IN
    /\ c \in Breaker /\ Ready(c)
    /\ \/ /\ RoundOver
          /\ Return(c, "write", -EIO)
          /\ UNCHANGED <<round, bufs, counts, data, asleep>>
       \/ /\ ~RoundOver /\ Exhausted(d.turns)
          /\ Save(c, d)
          /\ Return(c, "write", -EPERM)
          /\ UNCHANGED <<round, bufs, counts, asleep>>
       \/ /\ ~RoundOver /\ ~Exhausted(d.turns) /\ guessReady /\ ~MakerExists
          /\ Save(c, d)
          /\ Return(c, "write", EOF)
          /\ UNCHANGED <<round, bufs, counts, asleep>>
       \/ /\ ~RoundOver /\ ~Exhausted(d.turns) /\ guessReady /\ MakerExists
          /\ Save(c, d)
          /\ SleepOn(c, "wrWait")
          /\ UNCHANGED <<round, bufs, counts>>
       \/ ~RoundOver /\ ~Exhausted(d.turns) /\ ~guessReady /\ CopyGuess(c, d)

BreakerWriteWoken(c) ==
    /\ c \in Breaker /\ Woken(c, "wrWait")
    /\ \/ /\ RoundOver
          /\ Return(c, "write", -EIO)
          /\ UNCHANGED <<round, bufs, counts, data, asleep>>
       \/ ~RoundOver /\ CopyGuess(c, private_data(c))

BreakerWriteCopied(c) ==
    /\ c \in Breaker /\ At(c, "gsCopy")
    /\ \/ WriteGuess(c, private_data(c))
       \/ SpoilGuess(c)

-----------------------------------------------------------------------------
(* The rest of wait_event_interruptible: a wake-up that finds the          *)
(* condition false again, and a signal.                                    *)

SleepAgain(c) ==
    /\ pc[c] \in Waiting /\ c \notin asleep /\ ~Condition(c)
    /\ asleep' = asleep \cup {c}
    /\ UNCHANGED <<round, bufs, counts, data, pc, ret>>

Signal(c) ==
    /\ pc[c] \in Waiting
    /\ \/ /\ ~Condition(c)
          /\ Return(c, IF At(c, "wrWait") THEN "write" ELSE "read", -EINTR)
       \/ c \in asleep /\ Condition(c) /\ UNCHANGED <<pc, ret>>
    /\ asleep' = asleep \ {c}
    /\ UNCHANGED <<round, bufs, counts, data>>

-----------------------------------------------------------------------------
(* ioctl                                                                   *)

RoundStart(c, arg) ==
    /\ Ready(c)
    /\ \/ /\ c \in Breaker
          /\ Return(c, "ROUND_START", -EPERM)
          /\ UNCHANGED <<round, bufs>>
       \/ /\ c \in Maker /\ (arg < 4 \/ arg > 10)
          /\ Return(c, "ROUND_START", -EINVAL)
          /\ UNCHANGED <<round, bufs>>
       \/ /\ c \in Maker /\ arg \in 4..10
          /\ colour_range' = arg
          /\ \/ /\ in_round
                /\ Return(c, "ROUND_START", -EBUSY)
                /\ UNCHANGED <<in_round, round_id, bufs>>
             \/ /\ ~in_round /\ num_of_codebrakers = 0
                /\ Return(c, "ROUND_START", -EPERM)
                /\ UNCHANGED <<in_round, round_id, bufs>>
             \/ /\ ~in_round /\ num_of_codebrakers # 0 /\ ~passwordReady
                /\ Return(c, "ROUND_START", -1)
                /\ UNCHANGED <<in_round, round_id, bufs>>
             \/ /\ ~in_round /\ num_of_codebrakers # 0 /\ passwordReady
                /\ round_id < MaxRound
                /\ in_round' = TRUE
                /\ guessReady' = FALSE /\ feedbackReady' = FALSE
                /\ round_id' = round_id + 1
                /\ Return(c, "ROUND_START", 1)
                /\ UNCHANGED <<passwordBuf, guessBuf, passwordReady>>
          /\ UNCHANGED <<maker_won, breaker_won>>
    /\ UNCHANGED <<counts, data, asleep>>

GetMyScore(c) ==
    LET won    == c \in Maker /\ maker_won
        scored == Scored(private_data(c), won) IN
    /\ Ready(c)
    /\ maker_won' = (maker_won /\ ~won)
    /\ in_round' = (in_round /\ ~won)
    /\ Save(c, scored)
    /\ Return(c, "GET_MY_SCORE", scored.score)
    /\ UNCHANGED <<round_id, colour_range, breaker_won, bufs, counts, asleep>>

-----------------------------------------------------------------------------
Next ==
    \E c \in Caller :
        \/ Open(c) \/ OpenAllocated(c)
        \/ MakerRelease(c) \/ BreakerRelease(c)
        \/ MakerRead(c) \/ MakerReadWoken(c)
        \/ BreakerRead(c) \/ BreakerReadWoken(c) \/ BreakerReadCopied(c)
        \/ MakerWrite(c) \/ MakerWriteCopied(c)
        \/ BreakerWrite(c) \/ BreakerWriteWoken(c) \/ BreakerWriteCopied(c)
        \/ SleepAgain(c) \/ Signal(c)
        \/ \E arg \in Arg : RoundStart(c, arg)
        \/ GetMyScore(c)

Spec == Init /\ [][Next]_vars

-----------------------------------------------------------------------------
(* Types.                                                                  *)

\* The type invariant: every variable of the module has a value of its type.
TypeOK ==
    /\ in_round \in BOOLEAN /\ maker_won \in BOOLEAN /\ breaker_won \in BOOLEAN
    /\ round_id \in Nat /\ colour_range \in Nat
    /\ passwordBuf \in Code \cup {Blank} /\ guessBuf \in Code \cup {Blank}
    /\ passwordReady \in BOOLEAN
    /\ guessReady \in BOOLEAN /\ feedbackReady \in BOOLEAN
    /\ num_of_codemakers \in Int /\ num_of_codebrakers \in Int
    /\ num_of_codebrakers_playing \in Int
    /\ CallsTypeOK

-----------------------------------------------------------------------------
(* Properties that hold for any processes, faults and interleaving.        *)

\* No Codebreaker ever has more than NUM_TURNS turns.  One whose file nobody
\* shares has no fewer than none, and its write, once it has passed the check of
\* the turns, still has the turn it is going to spend after it slept waiting for
\* the buffer or for its page: neither what others did meanwhile nor a new round
\* has taken it away.
TurnInHand ==
    /\ \A b \in Breaker \cap File : data[b].turns <= NUM_TURNS
    /\ \A b \in Breaker \cap Sole :
           /\ data[b].turns >= 0
           /\ pc[b] \in {"wrWait", "gsCopy"} => data[b].turns > 0

\* num_of_codebrakers, by which ROUND_START decides whether anyone is there to
\* play, is the number of open Codebreakers.
BreakersCounted == num_of_codebrakers = Cardinality(Enrolled(Breaker))

\* No open Codemaker is missing from num_of_codemakers, so that a Codebreaker
\* is never told EOF ("no Codemaker exists") while there is one.
MakersCounted == Cardinality(Enrolled(Maker)) <= num_of_codemakers

\* num_of_codebrakers_playing errs only downwards: while it is positive there are
\* that many Codebreakers with turns, whoever leaves, is refilled or spends the
\* turns of a shared file.  (It may fall short of them, and below zero, where the
\* Codemaker's read waits although nobody can play: MastermindDoc.)
PlayingBound == num_of_codebrakers_playing <= Cardinality(Live)

\* Up to the end of the first round the counter is exact.  (It is not after
\* that: a new round refills the turns, not the counter.)
PlayingExact ==
    round_id <= 1 => num_of_codebrakers_playing = Cardinality(Live)

\* A round is played against a password that was set: no end of a round, nor a
\* Codemaker who leaves, nor another Codemaker or caller of the same file, lets
\* one start or go on without.  That the flag tells the truth takes writes of
\* whole passwords that do not fault: one that faults spoils the buffer and leaves
\* passwordReady, an empty one sets passwordReady and no password.
RoundHasPassword ==
    in_round => passwordReady /\ (PageFaults \/ OddCounts \/ passwordBuf # Blank)

\* No call of read sleeps on although what it waits for has come: every
\* assignment that can make the condition true is followed by a wake-up.
NoLostWakeupInRead ==
    \A c \in asleep : At(c, "rdWait") => ~Condition(c)

-----------------------------------------------------------------------------
(* Properties that hold when kmalloc does not sleep in open.               *)

\* open never admits a second Codemaker.
AtMostOneMaker == Cardinality(Enrolled(Maker)) <= 1

\* The password stays what it is for as long as a round lasts, although the
\* Codemaker's write checks in_round before it copies the password and sets
\* nothing until after: provided that only one caller uses the Codemaker's file,
\* for two can start the round in the middle of the write.
PasswordFrozen ==
    [][in_round /\ in_round' /\ Enrolled(Maker) \subseteq Sole =>
           UNCHANGED passwordBuf]_vars

-----------------------------------------------------------------------------
(* Properties that hold when the users' pages are resident.                *)

\* A guess waiting for its feedback is not overwritten by another writer.
GuessKept == [][guessReady /\ guessReady' => UNCHANGED guessBuf]_vars

\* Once a Codebreaker has won a round, no Codebreaker earns a point in it any
\* more.  (The Codemaker may, when the winner leaves with turns: MastermindDoc.)
OneWinner ==
    [][breaker_won /\ breaker_won' =>
           \A b \in Breaker \cap File : data'[b].score <= data[b].score]_vars
=============================================================================
