------------------------------- MODULE Players -------------------------------
(***************************************************************************)
(* The driver with clients that play the game.  Each client makes the      *)
(* calls that the test programs of the repository make on one descriptor,  *)
(* in their order, as a process of its own:                                *)
(*   - a Codemaker sets a password, starts a round, and reads and answers  *)
(*     guesses until the round is over; then it asks for its score and     *)
(*     starts another round or leaves;                                     *)
(*   - a Codebreaker writes a guess, reads its feedback, and so on.        *)
(* todo[f] is the call that the client of f makes next, or is in.  No      *)
(* client shares its descriptor, a call passes four pegs, the buffers they *)
(* pass exist and are resident, and kmalloc does not sleep.                *)
(***************************************************************************)
EXTENDS Mastermind

CONSTANTS
    LeavesEarly,  \* BOOLEAN: the Codemaker leaves without waiting for others
    Quits         \* BOOLEAN: a Codebreaker may leave between two turns

NoOne == "none"

ASSUME PlayersAssumption ==
    /\ LeavesEarly \in BOOLEAN /\ Quits \in BOOLEAN
    /\ NoOne \notin Breaker
    /\ Sharer = {}
    /\ AllocSleeps = FALSE /\ PageFaults = FALSE /\ OddCounts = FALSE

VARIABLES
    todo,
    owner,        \* the Codebreaker whose guess was accepted last
    used          \* used[b]: guesses accepted from b in this round

players == <<vars, todo, owner, used>>

PlayersInit ==
    /\ Init
    /\ todo = [f \in Caller |-> "open"]
    /\ owner = NoOne
    /\ used = [b \in Breaker |-> 0]

-----------------------------------------------------------------------------
\* The call of f has returned in this step.
Done(f) == pc'[f] \in {"idle", "closed"}

\* f goes on to next when its call has returned.
Then(f, next) == todo' = [todo EXCEPT ![f] = IF Done(f) THEN next ELSE @]

-----------------------------------------------------------------------------
(* The Codemaker.  A guess that it sees to be right, or a read that fails, *)
(* tells it that the round is over.                                        *)

MakerOpens(m) ==
    /\ todo[m] = "open"
    /\ Open(m)
    /\ Then(m, IF ret'.val = 0 THEN "password" ELSE "open")
    /\ UNCHANGED <<owner, used>>

MakerSets(m) ==
    /\ todo[m] = "password"
    /\ MakerWrite(m)
    /\ Then(m, "start")
    /\ UNCHANGED <<owner, used>>

\* It tries again while there is nobody to play with.
MakerStarts(m) ==
    /\ todo[m] = "start"
    /\ \E arg \in Arg : RoundStart(m, arg)
    /\ Then(m, IF ret'.val = 1 THEN "read"
               ELSE IF ret'.val = -EPERM THEN "start" ELSE "close")
    /\ used' = [b \in Breaker |-> IF ret'.val = 1 THEN 0 ELSE used[b]]
    /\ UNCHANGED owner

MakerReads(m) ==
    /\ todo[m] = "read"
    /\ MakerRead(m) \/ MakerReadWoken(m)
    /\ Then(m, IF ret'.val # 1 THEN "score"
               ELSE IF generateFeedback(guessBuf, passwordBuf) THEN "last"
               ELSE "answer")
    /\ UNCHANGED <<owner, used>>

\* It tries again while the last answer has not been read.
MakerAnswers(m) ==
    /\ todo[m] \in {"answer", "last"}
    /\ MakerWrite(m)
    /\ Then(m, IF ret'.val = -EBUSY THEN todo[m]
               ELSE IF todo[m] = "answer" THEN "read" ELSE "score")
    /\ UNCHANGED <<owner, used>>

\* Another round keeps the password (main.c) or sets a new one (HW4Test.cpp).
MakerScores(m) ==
    /\ todo[m] = "score"
    /\ GetMyScore(m)
    /\ \E next \in IF round_id < MaxRound
                   THEN {"password", "start", "close"} ELSE {"close"} :
           Then(m, next)
    /\ UNCHANGED <<owner, used>>

\* No Codebreaker is in a call, or between its guess and its feedback.
AllQuiet ==
    \A b \in Breaker : pc[b] \in {"idle", "closed"} /\ todo[b] # "read"

MakerLeaves(m) ==
    /\ todo[m] = "close"
    /\ LeavesEarly \/ AllQuiet
    /\ MakerRelease(m)
    /\ Then(m, IF round_id < MaxRound THEN "open" ELSE "gone")
    /\ UNCHANGED <<owner, used>>

-----------------------------------------------------------------------------
(* A Codebreaker                                                           *)

BreakerOpens(b) ==
    /\ todo[b] = "open"
    /\ Open(b)
    /\ Then(b, IF ret'.val = 0 THEN "write" ELSE "open")
    /\ UNCHANGED <<owner, used>>

\* A write that fails is tried again: another round may start.
BreakerWrites(b) ==
    LET accepted == Done(b) /\ ret'.val = 1 IN
    /\ todo[b] = "write"
    /\ BreakerWrite(b) \/ BreakerWriteWoken(b)
    /\ Then(b, IF ret'.val = 1 THEN "read" ELSE "write")
    /\ owner' = IF accepted THEN b ELSE owner
    /\ used' = [used EXCEPT ![b] = IF accepted THEN @ + 1 ELSE @]

BreakerReads(b) ==
    /\ todo[b] = "read"
    /\ BreakerRead(b) \/ BreakerReadWoken(b)
    /\ Then(b, "write")
    /\ UNCHANGED <<owner, used>>

\* Only after a full turn, as the comment at release asks.
BreakerQuits(b) ==
    /\ Quits /\ todo[b] = "write"
    /\ BreakerRelease(b)
    /\ Then(b, "gone")
    /\ UNCHANGED <<owner, used>>

-----------------------------------------------------------------------------
\* A wake-up that finds the condition false again.
SleepsAgain(f) == SleepAgain(f) /\ UNCHANGED <<todo, owner, used>>

\* What the client of f does without being free to leave it.
Proceeds(f) ==
    \/ /\ f \in Maker
       /\ \/ MakerOpens(f) \/ MakerSets(f) \/ MakerStarts(f) \/ MakerReads(f)
          \/ MakerAnswers(f) \/ MakerScores(f) \/ MakerLeaves(f)
    \/ /\ f \in Breaker
       /\ BreakerOpens(f) \/ BreakerWrites(f) \/ BreakerReads(f)
    \/ SleepsAgain(f)

PlayersNext ==
    \/ \E f \in Caller : Proceeds(f)
    \/ \E b \in Breaker : BreakerQuits(b)

\* The scheduler runs every process that is able to run, sooner or later.
Fairness == \A f \in Caller : WF_players(Proceeds(f))

PlayersSafe == PlayersInit /\ [][PlayersNext]_players
PlayersSpec == PlayersSafe /\ Fairness

-----------------------------------------------------------------------------
(* Properties.                                                             *)

Todo == {"open", "password", "start", "read", "answer", "last", "score",
         "close", "gone", "write"}

\* The type invariant of the composition.
PlayersTypeOK ==
    /\ TypeOK
    /\ todo \in [Caller -> Todo]
    /\ owner \in Breaker \cup {NoOne}
    /\ used \in [Breaker -> Nat]

\* A Codebreaker's read gives it the feedback of the guess that it made: nobody
\* else's guess is in the buffer when read computes the feedback (282), long
\* after the guess was written (442).
FeedbackIsOwn ==
    [][\A b \in Breaker :
           todo[b] = "read" /\ todo'[b] # "read" /\ ret'.val = 1 => owner = b]_players

\* A Codebreaker whose guess was accepted does not wait for its feedback for
\* ever: the Codemaker is woken by the guess (473), the Codebreaker by the
\* answer (380), and neither misses the other.
GuessIsAnswered ==
    \A b \in Breaker : todo[b] = "read" ~> todo[b] # "read"

\* A Codebreaker that waits in write for the buffer to be emptied (429) gets
\* its turn, or is told that the round is over.
WriterIsServed ==
    \A b \in Breaker : At(b, "wrWait") ~> ~At(b, "wrWait")

\* A Codemaker that waits in read for a guess (199) gets one, or is told that
\* there is none to come.
MakerIsServed ==
    \A m \in Maker : At(m, "rdWait") ~> ~At(m, "rdWait")

\* "If the buffer is empty and no Codebreakers with available turns exist this
\* function should return EOF" (read, 174-175): also if they leave while the
\* Codemaker is already waiting.
MakerIsTold ==
    \A m \in Maker :
        At(m, "rdWait") /\ num_of_codebrakers_playing = 0 ~> ~At(m, "rdWait")

\* "If the buffer is empty and no Codemaker exists this function should return
\* EOF" (read, 236): also if the Codemaker leaves while the Codebreaker waits.
BreakerIsTold ==
    \A b \in Breaker : At(b, "rdWait") /\ ~MakerExists ~> ~At(b, "rdWait")

\* "the Codebreaker should wait until it is emptied" (write, 400-402) and no
\* longer: nobody sleeps on in front of an empty guess buffer.
NoLostWakeupInWrite ==
    \A f \in asleep : At(f, "wrWait") => ~Condition(f)

\* A Codebreaker makes no more guesses in a round than it has turns.
GuessesWithinTurns == \A b \in Breaker : used[b] <= NUM_TURNS

\* What is left of it over several rounds: a write that slept from one round
\* into the next spends a turn of the old round, and it is the only one.
OneGuessTooMany == \A b \in Breaker : used[b] <= NUM_TURNS + 1

-----------------------------------------------------------------------------
(* The slot that a guess goes through, with its owner.                     *)

\* Outside a round both buffers count as empty, whatever is left in them.
S == INSTANCE Slot WITH playing <- in_round,
                        slot    <- IF in_round /\ guessReady THEN owner ELSE NoOne,
                        posted  <- in_round /\ feedbackReady

\* In one round the device is such a slot: an accepted guess stays in the
\* buffer until its owner has read the feedback, and that does come about,
\* unless the round ends.
ImplementsSlot == S!Spec
=============================================================================
