---------------------------- MODULE ThreadedTest ----------------------------
(***************************************************************************)
(* test1_files/test.c against the driver: a Codemaker's thread that gives  *)
(* three answers, and one thread for each of three Codebreakers that makes *)
(* one guess.  An assertion that fails ends its thread and, through a flag *)
(* that every assertion looks at first, the other threads too.  The sleeps *)
(* of the threads are taken to be long enough for what they are there for: *)
(* all files are open before the round starts, it has started before the   *)
(* first guess, and the Codemaker closes when the others can do no more.   *)
(* No descriptor is shared, calls pass four pegs, the buffers they pass    *)
(* exist and are resident, and kmalloc does not sleep.                     *)
(***************************************************************************)
EXTENDS Mastermind

CONSTANTS
    maker, game1, game2, game3,    \* the threads, each with its file
    right,                         \* "2021", the password and guess of game2
    first, third,                  \* "0013" and "2222", the other guesses
    Answers                        \* how many the Codemaker gives

ASSUME ThreadedTestAssumption ==
    /\ Maker = {maker} /\ Breaker = {game1, game2, game3}
    /\ game1 # game2 /\ game1 # game3 /\ game2 # game3
    /\ Code = {first, right, third}
    /\ first # right /\ first # third /\ right # third
    /\ Answers \in Nat
    /\ 4 \in Arg
    /\ Sharer = {}
    /\ AllocSleeps = FALSE /\ PageFaults = FALSE /\ OddCounts = FALSE

guess(b) == CASE b = game1 -> first [] b = game2 -> right [] b = game3 -> third

VARIABLES
    todo,     \* todo[t]: the call that thread t makes next, or is in
    answers,  \* how many the Codemaker has given
    failed    \* flgTestFailed

threads == <<vars, todo, answers, failed>>

ThreadsInit ==
    /\ Init
    /\ todo = [t \in Caller |-> "open"]
    /\ answers = 0
    /\ failed = FALSE

-----------------------------------------------------------------------------
Over(t) == pc'[t] \in {"idle", "closed"}

\* t is in the call op, or may make it: an assertion looks at the flag first.
May(t, op) == todo[t] = op /\ (failed => pc[t] \in Waiting)

\* ASSERT_EQ: when the call of t has returned, t goes on to next if ok.
Assert(t, ok, next) ==
    /\ todo' = [todo EXCEPT ![t] = IF ~Over(t) THEN @ ELSE IF ok THEN next ELSE "end"]
    /\ failed' = (failed \/ (Over(t) /\ ~ok))

\* An assertion that finds the flag set ends the thread without its call.
GivesUp(t) ==
    /\ failed /\ todo[t] \notin {"answer", "close", "end"}
    /\ pc[t] \in {"idle", "closed"}
    /\ todo' = [todo EXCEPT ![t] = "end"]
    /\ UNCHANGED <<vars, answers, failed>>

Opens(t, next) ==
    /\ May(t, "open")
    /\ Open(t) /\ ret'.val # -ENOMEM
    /\ Assert(t, ret'.val = 0, next)
    /\ UNCHANGED answers

Closes(t) ==
    /\ todo[t] = "close"
    /\ MakerRelease(t) \/ BreakerRelease(t)
    /\ todo' = [todo EXCEPT ![t] = "end"]
    /\ UNCHANGED <<answers, failed>>

-----------------------------------------------------------------------------
(* start_game                                                              *)

SetsPassword ==
    /\ May(maker, "password")
    /\ MakerWrite(maker) /\ passwordBuf' = right
    /\ Assert(maker, ret'.val = 1, "start")
    /\ UNCHANGED answers

\* After sleep(2).
StartsRound ==
    /\ May(maker, "start")
    /\ \A b \in Breaker : pc[b] = "idle"
    /\ RoundStart(maker, 4)
    /\ Assert(maker, ret'.val >= 0, "score")
    /\ UNCHANGED answers

AsksScore ==
    /\ May(maker, "score")
    /\ GetMyScore(maker)
    /\ Assert(maker, ret'.val = 0, "read")
    /\ UNCHANGED answers

ReadsGuess ==
    /\ May(maker, "read")
    /\ MakerRead(maker) \/ MakerReadWoken(maker)
    /\ Assert(maker, ret'.val = 1, "answer")
    /\ UNCHANGED answers

\* The loop of writes is no assertion; what comes after it is.
AnswersGuess ==
    /\ todo[maker] = "answer"
    /\ MakerWrite(maker)
    /\ ~in_round => passwordBuf' = right
    /\ IF ret'.val = -EBUSY
       THEN UNCHANGED <<todo, answers, failed>>
       ELSE /\ answers' = answers + 1
            /\ todo' = [todo EXCEPT ![maker] =
                   CASE failed \/ ret'.val # 1 -> "end"
                     [] answers' < Answers     -> "read"
                     [] OTHER                  -> "close"]
            /\ failed' = (failed \/ ret'.val # 1)

\* After sleep(4): nobody runs any more.
ClosesLast ==
    /\ \A b \in Breaker : todo[b] = "end" \/ b \in asleep
    /\ Closes(maker)

-----------------------------------------------------------------------------
(* game1, game2, game3                                                     *)

\* After sleep(3).
Guesses(b) ==
    /\ May(b, "write")
    /\ todo[maker] \notin {"open", "password", "start", "score"}
    /\ BreakerWrite(b) \/ BreakerWriteWoken(b)
    /\ Over(b) /\ ret'.val \in {1, -EINVAL} => guessBuf' = guess(b)
    /\ Assert(b, ret'.val = 1, "read")
    /\ UNCHANGED answers

\* Two assertions: the read succeeds, and what it has read is the feedback
\* of b's own guess (check_result).
ReadsFeedback(b) ==
    /\ May(b, "read")
    /\ BreakerRead(b) \/ BreakerReadWoken(b)
    /\ Assert(b, ret'.val = 1 /\ guessBuf = guess(b),
              IF b = game2 THEN "score" ELSE "close")
    /\ UNCHANGED answers

AsksPoint ==
    /\ May(game2, "score")
    /\ GetMyScore(game2)
    /\ Assert(game2, ret'.val = 1, "close")
    /\ UNCHANGED answers

-----------------------------------------------------------------------------
Runs(t) ==
    \/ t = maker /\ (SetsPassword \/ StartsRound \/ AsksScore \/ ReadsGuess
                     \/ AnswersGuess \/ ClosesLast)
    \/ t = maker /\ Opens(t, "password")
    \/ t # maker /\ (Opens(t, "write") \/ Guesses(t) \/ ReadsFeedback(t) \/ Closes(t))
    \/ t = game2 /\ AsksPoint
    \/ GivesUp(t)
    \/ SleepAgain(t) /\ UNCHANGED <<todo, answers, failed>>

ThreadsNext == \E t \in Caller : Runs(t)

ThreadsSafe == ThreadsInit /\ [][ThreadsNext]_threads
ThreadsSpec == ThreadsSafe /\ \A t \in Caller : WF_threads(Runs(t))

-----------------------------------------------------------------------------
\* What the threads assert (test.c 31-50, 67-75, 85-94, 104-112).
AssertionsHold == ~failed

\* Of these assertions, those on what a read has returned and on the winner's
\* score hold in every interleaving: a read that succeeds has the feedback of
\* the thread's own guess, and the right guess has earned its point.
ReadsAreChecked ==
    [][\A b \in Breaker :
           ret' # ret /\ ret'.caller = b =>
               /\ todo[b] = "read" /\ ret'.val = 1 => guessBuf = guess(b)
               /\ todo[b] = "score" => ret'.val = 1]_threads

\* Three answers are enough for the three guesses, although the Codemaker may
\* answer the same guess twice: a feedback posted too early serves the next
\* guess.  The test ends unless an assertion fails.
TestEnds == <>(failed \/ \A t \in Caller : todo[t] = "end")
=============================================================================
