--------------------------- MODULE ConcurrentGame ---------------------------
(***************************************************************************)
(* ConcurrentGameTest of test2_files/HW4Test.cpp against the driver: the   *)
(* threads of a Codemaker and of the Codebreakers play round after round,  *)
(* and agree on the rounds by a mutex, two condition variables and the     *)
(* variables breakers_ready, NumOfRound and is_breaker_win.  A check that  *)
(* fails is reported, and its thread goes on.  A stretch of code under the *)
(* mutex is one step, except the one in which the Codemaker calls the      *)
(* driver.  Condition variables have no spurious wake-ups; no descriptor   *)
(* is shared, calls pass four pegs, their buffers exist and are resident,  *)
(* and kmalloc does not sleep.                                             *)
(***************************************************************************)
EXTENDS Mastermind

CONSTANTS
    maker,            \* the Codemaker's file and thread
    right, wrong,     \* the password of each round, and any other code
    num_of_rounds

ASSUME ConcurrentGameAssumption ==
    /\ Maker = {maker} /\ Code = {right, wrong}
    /\ num_of_rounds \in Nat
    /\ 10 \in Arg
    /\ Sharer = {}
    /\ AllocSleeps = FALSE /\ PageFaults = FALSE /\ OddCounts = FALSE

VARIABLES
    todo,             \* todo[t]: what thread t does next, or is in
    held,             \* the Codemaker holds global_mut
    waiting,          \* threads in pthread_cond_wait, not yet signalled
    breakers_ready, NumOfRound, is_breaker_win,
    num_of_iterations,
    played,           \* played[t]: the rounds that t has finished
    tries,            \* tries[b]: guesses that b has made in its round
    won,              \* won[t]: the buffer of t holds "2222"
    expected_score

sync  == <<held, waiting, breakers_ready, NumOfRound, is_breaker_win>>
local == <<num_of_iterations, played, tries, won, expected_score>>
game  == <<vars, todo, sync, local>>

GameInit ==
    /\ Init
    /\ todo = [t \in Caller |-> "open"]
    /\ held = FALSE /\ waiting = {}
    /\ breakers_ready = 0 /\ NumOfRound = 0 /\ is_breaker_win = 0
    /\ num_of_iterations = 0
    /\ played = [t \in Caller |-> 0]
    /\ tries = [b \in Breaker |-> 0]
    /\ won = [t \in Caller |-> FALSE]
    /\ expected_score = [t \in Caller |-> 0]

-----------------------------------------------------------------------------
Turns == NUM_TURNS * Cardinality(Breaker)   \* the answers of a lost round

Over(t) == pc'[t] \in {"idle", "closed"}
Goes(t, l) == todo' = [todo EXCEPT ![t] = l]

\* t makes the driver call of this step, and goes on when it has returned.
Calls(t, next) == Goes(t, IF Over(t) THEN next ELSE todo[t])

\* What a read that succeeds leaves in the buffer of t; others leave it alone.
Received(t) ==
    won' = [won EXCEPT ![t] = IF Over(t) /\ ret'.val = 1
                              THEN generateFeedback(guessBuf, passwordBuf) ELSE @]

\* t leaves the loop over the guesses of its round.
EndsRound(t, first) ==
    /\ played' = [played EXCEPT ![t] = @ + 1]
    /\ Goes(t, IF played[t] + 1 = num_of_rounds THEN "score" ELSE first)

\* The test opens the Codebreakers, then the Codemaker, then creates threads.
Opens(t) ==
    /\ todo[t] = "open"
    /\ t = maker => \A b \in Breaker : todo[b] # "open"
    /\ Open(t) /\ ret'.val # -ENOMEM
    /\ Goes(t, IF t = maker THEN "ready" ELSE "enter")
    /\ UNCHANGED <<sync, local>>

-----------------------------------------------------------------------------
(* MakerRoutine                                                            *)

\* while (breakers_ready != g_num_of_breakers) pthread_cond_wait(...)
AwaitsBreakers ==
    /\ todo[maker] = "ready" /\ ~held /\ maker \notin waiting
    /\ IF breakers_ready = Cardinality(Breaker)
       THEN held' = TRUE /\ Goes(maker, "password") /\ UNCHANGED waiting
       ELSE waiting' = waiting \cup {maker} /\ UNCHANGED <<held, todo>>
    /\ UNCHANGED <<vars, breakers_ready, NumOfRound, is_breaker_win, local>>

SetsPassword ==
    /\ todo[maker] = "password"
    /\ MakerWrite(maker)
    /\ ~in_round => passwordBuf' = right
    /\ Goes(maker, "start")
    /\ UNCHANGED <<sync, local>>

StartsRound ==
    /\ todo[maker] = "start"
    /\ RoundStart(maker, 10)
    /\ is_breaker_win' = 0 /\ NumOfRound' = NumOfRound + 1
    /\ waiting' = {}
    /\ held' = FALSE
    /\ num_of_iterations' = 0
    /\ Goes(maker, "read")
    /\ UNCHANGED <<breakers_ready, played, tries, won, expected_score>>

ReadsGuess ==
    /\ todo[maker] = "read"
    /\ MakerRead(maker) \/ MakerReadWoken(maker)
    /\ Received(maker)
    /\ Calls(maker, "answer")
    /\ UNCHANGED <<sync, num_of_iterations, played, tries, expected_score>>

\* Outside a round its answer is taken for a password.
AnswersGuess ==
    /\ todo[maker] = "answer"
    /\ MakerWrite(maker)
    /\ ~in_round => passwordBuf' = wrong
    /\ Goes(maker, "count")
    /\ UNCHANGED <<sync, local>>

\* WaitMs(25) is long enough for the Codebreaker to take its feedback.
CountsAnswer ==
    /\ todo[maker] = "count"
    /\ feedbackReady => \A b \in Breaker : todo[b] \notin {"check", "read"}
    /\ \/ /\ won[maker]
          /\ EndsRound(maker, "ready")
          /\ UNCHANGED <<is_breaker_win, num_of_iterations, expected_score>>
       \/ /\ ~won[maker]
          /\ num_of_iterations' = num_of_iterations + 1
          /\ IF num_of_iterations' = Turns
             THEN /\ expected_score' = [expected_score EXCEPT ![maker] = @ + 1]
                  /\ is_breaker_win' = -1
                  /\ EndsRound(maker, "ready")
             ELSE /\ Goes(maker, "read")
                  /\ UNCHANGED <<expected_score, is_breaker_win, played>>
    /\ UNCHANGED <<vars, held, waiting, breakers_ready, NumOfRound, tries, won>>

-----------------------------------------------------------------------------
(* BreakerRoutine                                                          *)

\* Who still waits when that many are ready: the last one signals maker_cond.
SignalsAtOnce(ready) ==                                             \* mutant
    waiting \ (IF ready = 1 THEN {maker} ELSE {})
Signals(ready) ==
    waiting \ (IF ready = Cardinality(Breaker) THEN {maker} ELSE {})

\* Who is early waits for its round.  Threads are created when all is open.
EntersRound(b) ==
    LET ready == breakers_ready + 1
        early == NumOfRound # played[b] + 1
        told  == Signals(ready)
    IN
    /\ todo[b] = "enter" /\ todo[maker] # "open" /\ ~held
    /\ waiting' = IF early THEN told \cup {b} ELSE told
    /\ breakers_ready' = IF early THEN ready ELSE breakers_ready
    /\ Goes(b, IF early THEN "entered" ELSE "write")
    /\ tries' = [tries EXCEPT ![b] = 0]
    /\ UNCHANGED <<vars, held, NumOfRound, is_breaker_win, num_of_iterations,
                   played, won, expected_score>>

\* It does not look at NumOfRound again.
HasEntered(b) ==
    /\ todo[b] = "entered" /\ ~held /\ b \notin waiting
    /\ breakers_ready' = breakers_ready - 1
    /\ Goes(b, "write")
    /\ UNCHANGED <<vars, held, waiting, NumOfRound, is_breaker_win, local>>

Guesses(b) ==
    /\ todo[b] = "write"
    /\ BreakerWrite(b) \/ BreakerWriteWoken(b)
    /\ Calls(b, "check")
    /\ tries' = [tries EXCEPT ![b] = IF Over(b) THEN @ + 1 ELSE @]
    /\ UNCHANGED <<sync, num_of_iterations, played, won, expected_score>>

ChecksRound(b) ==
    /\ todo[b] = "check" /\ ~held
    /\ IF is_breaker_win # 0
       THEN EndsRound(b, "enter")
       ELSE Goes(b, "read") /\ UNCHANGED played
    /\ UNCHANGED <<vars, sync, num_of_iterations, tries, won, expected_score>>

ReadsFeedback(b) ==
    /\ todo[b] = "read"
    /\ BreakerRead(b) \/ BreakerReadWoken(b)
    /\ Received(b)
    /\ Calls(b, "look")
    /\ UNCHANGED <<sync, num_of_iterations, played, tries, expected_score>>

LooksAtFeedback(b) ==
    /\ todo[b] = "look" /\ ~held
    /\ \/ /\ won[b]
          /\ expected_score' = [expected_score EXCEPT ![b] = @ + 1]
          /\ is_breaker_win' = 1
          /\ EndsRound(b, "enter")
       \/ /\ ~won[b]
          /\ IF tries[b] = NUM_TURNS
             THEN EndsRound(b, "enter")
             ELSE Goes(b, "write") /\ UNCHANGED played
          /\ UNCHANGED <<expected_score, is_breaker_win>>
    /\ UNCHANGED <<vars, held, waiting, breakers_ready, NumOfRound,
                   num_of_iterations, tries, won>>

-----------------------------------------------------------------------------
\* When all threads have ended, the test asks for the scores, the Codemaker's
\* last, and compares them with what it expects.
ComparesScore(t) ==
    /\ todo[t] = "score"
    /\ \A u \in Caller : todo[u] \in {"score", "end"}
    /\ t = maker => \A b \in Breaker : todo[b] = "end"
    /\ GetMyScore(t)
    /\ Goes(t, "end")
    /\ UNCHANGED <<sync, local>>

Runs(t) ==
    \/ Opens(t) \/ ComparesScore(t)
    \/ t = maker /\ (AwaitsBreakers \/ SetsPassword \/ StartsRound
                     \/ ReadsGuess \/ AnswersGuess \/ CountsAnswer)
    \/ t \in Breaker /\ (EntersRound(t) \/ HasEntered(t) \/ Guesses(t)
                         \/ ChecksRound(t) \/ ReadsFeedback(t) \/ LooksAtFeedback(t))
    \/ SleepAgain(t) /\ UNCHANGED <<todo, sync, local>>

GameNext == \E t \in Caller : Runs(t)

GameSafe == GameInit /\ [][GameNext]_game
GameSpec == GameSafe /\ \A t \in Caller : WF_game(Runs(t))

-----------------------------------------------------------------------------
\* "Breaker id %d points dont match", "Maker points dont match" (502, 505): the
\* driver gives the points that the players count from what they read.
ScoresMatch ==
    [][\A t \in Caller :
           todo[t] = "score" /\ todo'[t] = "end" =>
               ret'.val = expected_score[t]]_game

\* Every point that a player has is that of a round: the points can be spread
\* over n rounds so that no round gives two.
PointsOf(n) ==
    \E R \in SUBSET (1..n) : \E earner \in [R -> Caller] :
        \A t \in Caller : data[t].score = Cardinality({r \in R : earner[r] = t})

\* The players never get more points from the driver than rounds were played:
\* the winner's point, and the Codemaker's for a lost round, exclude each other.
OnePointARound == PointsOf(round_id)

\* No thread sleeps on a condition variable after what it waits for has come:
\* the Codemaker when all Codebreakers are ready (373), a Codebreaker when its
\* round has started (431).
NoLostSignal ==
    /\ maker \in waiting => breakers_ready # Cardinality(Breaker)
    /\ \A b \in Breaker \cap waiting : NumOfRound # played[b] + 1

\* "Before writing passwords we wait for breakers to be ready" (371): when the
\* Codemaker starts a round every Codebreaker has come to that round.
AllAreReady ==
    [][NumOfRound' # NumOfRound =>
           \A b \in Breaker : todo[b] = "entered" /\ played[b] = NumOfRound]_game

\* All threads can be joined (495-497): nobody sleeps for ever in the driver or
\* on a condition variable.
GameEnds == <>(\A t \in Caller : todo[t] = "end")

\* "Maker starts round %d and should succeed" (380).
RoundsStart ==
    [][todo[maker] = "start" /\ todo'[maker] = "read" => ret'.val = 1]_game

\* "Breaker id %d reads his feedback" (447).
FeedbackIsRead ==
    [][\A b \in Breaker :
           todo[b] = "read" /\ todo'[b] = "look" => ret'.val = 1]_game
=============================================================================
