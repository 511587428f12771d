------------------------- MODULE ThreadedTestProofs -------------------------
(***************************************************************************)
(* The threaded test against the driver, for any number of turns, answers  *)
(* and colours: the test takes only steps of the driver, and what it       *)
(* asserts of a successful read and of the winner's score holds in every   *)
(* interleaving.                                                           *)
(***************************************************************************)
EXTENDS ThreadedTest, MastermindProofs

-----------------------------------------------------------------------------
(* The test takes only steps of the driver.                                *)

LEMMA ThreadsConstants ==
    /\ Breaker = {game1, game2, game3} /\ Breaker \subseteq Caller
    /\ maker \in Caller /\ maker \notin Breaker /\ game2 \in Caller
    /\ game1 # game2 /\ game1 # game3 /\ game2 # game3
    /\ Caller = {maker} \cup Breaker
    /\ 4 \in Arg
    /\ AllocSleeps = FALSE /\ PageFaults = FALSE /\ OddCounts = FALSE
BY ConstantsAssumption, ThreadedTestAssumption DEF Caller

\* Nobody shares a descriptor, so each thread has a file of its own.
LEMMA Alone ==
    /\ File = Caller
    /\ \A t \in Caller : fileOf(t) = t /\ private_data(t) = data[t]
BY ThreadedTestAssumption DEF File, fileOf, private_data

LEMMA GuessesDiffer ==
    /\ guess(game2) = right
    /\ \A b, c \in Breaker : guess(b) = guess(c) => b = c
BY ThreadsConstants, ThreadedTestAssumption DEF guess

LEMMA ThreadsPlayDriver == [ThreadsNext]_threads => [Next]_vars
<1> SUFFICES ASSUME [ThreadsNext]_threads PROVE [Next]_vars
  OBVIOUS
<1> USE ThreadsConstants
<1>1. CASE UNCHANGED threads
  BY <1>1 DEF threads
<1>2. ASSUME SetsPassword \/ StartsRound \/ AsksScore \/ ReadsGuess \/ AnswersGuess
      PROVE  Next
  BY <1>2 DEF SetsPassword, StartsRound, AsksScore, ReadsGuess, AnswersGuess, Next
<1>3. ASSUME NEW t \in Caller, NEW l, Opens(t, l) PROVE Next
  BY <1>3 DEF Opens, Next
<1>4. ASSUME NEW t \in Caller, ClosesLast \/ Closes(t) PROVE Next
  BY <1>4 DEF ClosesLast, Closes, Next
<1>5. ASSUME NEW b \in Caller, Guesses(b) \/ ReadsFeedback(b) \/ SleepAgain(b)
      PROVE  Next
  BY <1>5 DEF Guesses, ReadsFeedback, Next
<1>6. ASSUME AsksPoint PROVE Next
  BY <1>6 DEF AsksPoint, Next
<1>7. ASSUME NEW t \in Caller, GivesUp(t) PROVE UNCHANGED vars
  BY <1>7 DEF GivesUp
<1>8. ASSUME NEW t \in Caller, Runs(t) PROVE [Next]_vars
  BY <1>2, <1>3, <1>4, <1>5, <1>6, <1>7, <1>8, Zenon DEF Runs
<1> QED
  BY <1>1, <1>8, Zenon DEF ThreadsNext

\* What is proved of the driver under any processes holds in this test.
THEOREM ThreadsAreProcesses == ThreadsSafe => Spec
<1>1. ThreadsInit => Init
  BY DEF ThreadsInit
<1> QED
  BY <1>1, ThreadsPlayDriver, PTL DEF ThreadsSafe, Spec

-----------------------------------------------------------------------------
(* The invariant.                                                          *)

Todo == {"open", "password", "start", "score", "read", "answer", "write",
         "close", "end"}

\* Up to here the Codemaker's thread has not begun to read guesses.
Early == {"open", "password", "start", "score"}

\* In a round only one thread reads a feedback: the one whose guess is in the
\* buffer.
ReadersOwn ==
    \A b \in Breaker :
        todo[b] = "read" /\ in_round => guessReady /\ guessBuf = guess(b)

\* No thread reads before the round that the Codemaker starts.
NobodyEarly == todo[maker] \in Early => \A b \in Breaker : todo[b] # "read"

\* The right guess has its point when its thread reads, and not before.
PointOfRight ==
    /\ todo[game2] \in {"open", "write"} => data[game2].score = 0
    /\ todo[game2] \in {"read", "score"} => data[game2].score = 1

ThreadInv ==
    /\ todo \in [Caller -> Todo]
    /\ ReadersOwn /\ NobodyEarly /\ PointOfRight
    /\ passwordBuf \in {Blank, right}
    /\ \A b \in Breaker \ {game2} : todo[b] # "score"

-----------------------------------------------------------------------------
(* How a thread goes on, and what that takes to keep the invariant.        *)

SameScore == data'[game2].score = data[game2].score

MakerGoes(l) ==
    /\ l \in Todo /\ (l \in Early => todo[maker] \in Early)
    /\ SameScore
BreakerGoes(b, l) ==
    \/ l = todo[b] /\ SameScore
    \/ l \in {"close", "end"} /\ (b = game2 \/ SameScore)
    \/ todo[b] = "open" /\ l = "write" /\ SameScore
    \/ todo[b] = "read" /\ l = "score" /\ b = game2 /\ SameScore
    \/ /\ todo[b] = "write" /\ l = "read" /\ todo[maker] \notin Early
       /\ IF b = game2 THEN data'[game2].score = 1 ELSE SameScore

Goes(t, l) ==
    /\ todo' = [todo EXCEPT ![t] = l]
    /\ (t = maker /\ MakerGoes(l)) \/ (t \in Breaker /\ BreakerGoes(t, l))

LEMMA GoesKeeps ==
    ASSUME ThreadInv, NEW t \in Caller, NEW l, Goes(t, l), ReadersOwn',
           passwordBuf' \in {passwordBuf, right}
    PROVE  ThreadInv'
<1> USE ThreadsConstants DEF ThreadInv
<1>1. passwordBuf' \in {Blank, right}
  OBVIOUS
<1>2. CASE t = maker /\ MakerGoes(l)
  <2>1. todo' \in [Caller -> Todo] /\ \A b \in Breaker : todo'[b] = todo[b]
    BY <1>2 DEF Goes, MakerGoes
  <2>2. NobodyEarly'
    BY <1>2, <2>1 DEF Goes, MakerGoes, NobodyEarly
  <2>3. PointOfRight'
    BY <1>2, <2>1 DEF MakerGoes, PointOfRight, SameScore
  <2> QED
    BY <1>1, <2>1, <2>2, <2>3
<1>3. CASE t \in Breaker /\ BreakerGoes(t, l)
  <2>1. todo' = [todo EXCEPT ![t] = l] /\ todo'[maker] = todo[maker] /\ todo'[t] = l
    BY <1>3 DEF Goes
  <2>2. l \in Todo
    BY <1>3 DEF BreakerGoes, Todo
  <2>3. NobodyEarly'
    BY <1>3, <2>1 DEF BreakerGoes, NobodyEarly
  <2>4. PointOfRight'
    BY <1>3, <2>1 DEF BreakerGoes, PointOfRight, SameScore
  <2>5. \A b \in Breaker \ {game2} : todo'[b] # "score"
    BY <1>3, <2>1 DEF BreakerGoes
  <2> QED
    BY <1>1, <2>1, <2>2, <2>3, <2>4, <2>5
<1> QED
  BY <1>2, <1>3 DEF Goes

\* A step in which nobody begins to read, and after which no round goes on
\* unless its guess does.
Quiet ==
    /\ \A b \in Breaker : todo'[b] = "read" => todo[b] = "read"
    /\ in_round' => in_round /\ UNCHANGED <<guessReady, guessBuf>>

LEMMA QuietKeeps == ASSUME ThreadInv, Quiet PROVE ReadersOwn'
BY DEF ThreadInv, Quiet, ReadersOwn

LEMMA SavedScore ==
    ASSUME TypeOK, NEW f \in Caller, NEW d, Save(f, d),
           f = game2 => d.score = data[f].score
    PROVE  SameScore
BY ThreadsConstants, Alone DEF TypeOK, CallsTypeOK, Save, SameScore

\* A thread that asserts goes on to the next call, stays in this one, or ends.
LEMMA AssertGoes ==
    ASSUME ThreadInv, NEW t \in Caller, NEW ok, NEW next, Assert(t, ok, next)
    PROVE  \E l : /\ todo' = [todo EXCEPT ![t] = l]
                  /\ \/ l = todo[t] /\ ~Over(t)
                     \/ l = next /\ Over(t) /\ ok
                     \/ l = "end"
<1> DEFINE l == IF ~Over(t) THEN todo[t] ELSE IF ok THEN next ELSE "end"
<1>1. todo' = [todo EXCEPT ![t] = l]
  BY DEF Assert
<1>2. (l = todo[t] /\ ~Over(t)) \/ (l = next /\ Over(t) /\ ok) \/ l = "end"
  OBVIOUS
<1> QED
  BY <1>1, <1>2

-----------------------------------------------------------------------------
(* The Codemaker's steps.                                                  *)

LEMMA MakerAsserts ==
    ASSUME ThreadInv, NEW ok, NEW next \in Todo, Assert(maker, ok, next),
           next \in Early => todo[maker] \in Early, SameScore
    PROVE  /\ \E l : Goes(maker, l)
           /\ \A b \in Breaker : todo'[b] = todo[b]
<1>1. PICK l : /\ todo' = [todo EXCEPT ![maker] = l]
               /\ l \in {todo[maker], next, "end"}
  BY AssertGoes, ThreadsConstants
<1>2. MakerGoes(l)
  BY <1>1, ThreadsConstants DEF ThreadInv, MakerGoes, Todo, Early
<1> QED
  BY <1>1, <1>2, ThreadsConstants DEF ThreadInv, Goes

\* Its password is the right one, and its writes leave a round's guess alone.
LEMMA MakerWrites ==
    ASSUME TypeOK, MakerWrite(maker), ~in_round => passwordBuf' = right
    PROVE  /\ SameScore /\ passwordBuf' \in {passwordBuf, right}
           /\ in_round' => in_round /\ UNCHANGED <<guessReady, guessBuf>>
<1> USE ThreadsConstants
<1>1. CASE SetFeedback(maker)
  <2>1. Save(maker, Scored(data[maker], maker_won))
        /\ UNCHANGED <<guessReady, guessBuf, passwordBuf>>
        /\ (in_round' => in_round)
    BY <1>1, Alone DEF SetFeedback
  <2> QED
    BY <2>1, SavedScore DEF Scored, Data
<1>2. CASE ~in_round /\ SetPassword(maker)
  BY <1>2 DEF SetPassword, round, SameScore
<1>3. CASE UNCHANGED <<round, bufs, data>>
  BY <1>3 DEF round, bufs, SameScore
<1> QED
  BY <1>1, <1>2, <1>3 DEF MakerWrite

LEMMA MakerStep ==
    ASSUME TypeOK, ThreadInv,
           \/ SetsPassword \/ StartsRound \/ AsksScore \/ ReadsGuess
           \/ AnswersGuess \/ ClosesLast \/ Opens(maker, "password")
    PROVE  ThreadInv'
<1> USE ThreadsConstants
<1>1. CASE SetsPassword
  <2>1. /\ SameScore /\ passwordBuf' \in {passwordBuf, right}
        /\ in_round' => in_round /\ UNCHANGED <<guessReady, guessBuf>>
    BY <1>1, MakerWrites DEF SetsPassword
  <2>2. todo[maker] \in Early /\ "start" \in Todo
    BY <1>1 DEF SetsPassword, May, Early, Todo
  <2> QED
    BY <1>1, <2>1, <2>2, MakerAsserts, QuietKeeps, GoesKeeps
    DEF SetsPassword, Quiet
<1>2. CASE StartsRound
  <2>1. SameScore /\ UNCHANGED passwordBuf
    BY <1>2 DEF StartsRound, RoundStart, round, bufs, SameScore
  <2>2. todo[maker] \in Early /\ "score" \in Todo
    BY <1>2 DEF StartsRound, May, Early, Todo
  <2>3. (\E l : Goes(maker, l)) /\ \A b \in Breaker : todo'[b] = todo[b]
    BY <1>2, <2>1, <2>2, MakerAsserts DEF StartsRound
  <2>4. ReadersOwn'
    BY <2>2, <2>3 DEF ThreadInv, NobodyEarly, ReadersOwn
  <2> QED
    BY <2>1, <2>3, <2>4, GoesKeeps
<1>3. CASE AsksScore
  <2>1. /\ Save(maker, Scored(data[maker], maker \in Maker /\ maker_won))
        /\ UNCHANGED bufs /\ (in_round' => in_round)
    BY <1>3, Alone DEF AsksScore, GetMyScore
  <2>2. SameScore
    BY <2>1, SavedScore
  <2>3. "read" \in Todo \ Early
    BY DEF Early, Todo
  <2> QED
    BY <1>3, <2>1, <2>2, <2>3, MakerAsserts, QuietKeeps, GoesKeeps
    DEF AsksScore, Quiet, bufs
<1>4. CASE ReadsGuess
  <2>1. UNCHANGED <<round, bufs, data>>
    BY <1>4 DEF ReadsGuess, MakerRead, MakerReadWoken
  <2>2. SameScore /\ UNCHANGED <<in_round, guessReady, guessBuf, passwordBuf>>
    BY <2>1 DEF SameScore, round, bufs
  <2>3. "answer" \in Todo \ Early
    BY DEF Early, Todo
  <2> QED
    BY <1>4, <2>2, <2>3, MakerAsserts, QuietKeeps, GoesKeeps
    DEF ReadsGuess, Quiet
<1>5. CASE AnswersGuess
  <2>1. /\ SameScore /\ passwordBuf' \in {passwordBuf, right}
        /\ in_round' => in_round /\ UNCHANGED <<guessReady, guessBuf>>
    BY <1>5, MakerWrites DEF AnswersGuess
  <2>2. \E l \in {"answer", "read", "close", "end"} :
            todo' = [todo EXCEPT ![maker] = l]
    <3>1. CASE UNCHANGED todo
      BY <1>5, <3>1 DEF AnswersGuess, ThreadInv
    <3> DEFINE l == CASE failed \/ ret'.val # 1 -> "end"
                      [] answers' < Answers     -> "read"
                      [] OTHER                  -> "close"
    <3>2. l \in {"read", "close", "end"}
      OBVIOUS
    <3> HIDE DEF l
    <3>3. CASE todo' = [todo EXCEPT ![maker] = l]
      BY <3>2, <3>3
    <3> QED
      BY <1>5, <3>1, <3>3, Zenon DEF AnswersGuess, l
  <2>3. PICK l \in Todo \ Early : todo' = [todo EXCEPT ![maker] = l]
    BY <2>2 DEF Todo, Early
  <2>4. Goes(maker, l) /\ \A b \in Breaker : todo'[b] = todo[b]
    BY <2>1, <2>3 DEF Goes, MakerGoes, ThreadInv
  <2> QED
    BY <2>1, <2>4, QuietKeeps, GoesKeeps DEF Quiet
<1>6. CASE ClosesLast
  <2>1. /\ todo' = [todo EXCEPT ![maker] = "end"]
        /\ MakerRelease(maker)
    BY <1>6 DEF ClosesLast, Closes, BreakerRelease
  <2>2. Save(maker, NoData) /\ UNCHANGED <<guessReady, guessBuf, passwordBuf>>
        /\ (in_round' => in_round)
    BY <2>1 DEF MakerRelease, Gone, ForgetRound, round
  <2>3. SameScore
    BY <2>2, SavedScore
  <2>4. Goes(maker, "end") /\ \A b \in Breaker : todo'[b] = todo[b]
    BY <2>1, <2>3 DEF Goes, MakerGoes, ThreadInv, Todo, Early
  <2> QED
    BY <2>2, <2>4, QuietKeeps, GoesKeeps DEF Quiet
<1>7. CASE Opens(maker, "password")
  <2>1. UNCHANGED <<round, bufs>> /\ (UNCHANGED data \/ Save(maker, Fresh(maker)))
    BY <1>7 DEF Opens, Open, Enrol
  <2>2. SameScore /\ UNCHANGED <<in_round, guessReady, guessBuf, passwordBuf>>
    BY <2>1, SavedScore DEF SameScore, round, bufs
  <2>3. todo[maker] \in Early /\ "password" \in Todo
    BY <1>7 DEF Opens, May, Early, Todo
  <2> QED
    BY <1>7, <2>2, <2>3, MakerAsserts, QuietKeeps, GoesKeeps DEF Opens, Quiet
<1> QED
  BY <1>1, <1>2, <1>3, <1>4, <1>5, <1>6, <1>7

-----------------------------------------------------------------------------
(* The Codebreakers' steps.                                                *)

\* A step that leaves the round's guess alone, after which nobody new reads.
LEMMA BreakerQuiet ==
    ASSUME ThreadInv, NEW b \in Breaker, NEW l, todo' = [todo EXCEPT ![b] = l],
           BreakerGoes(b, l), l = "read" => todo[b] = "read",
           UNCHANGED <<guessReady, guessBuf, passwordBuf>>, in_round' => in_round
    PROVE  ThreadInv'
<1>1. b \in Caller /\ Goes(b, l)
  BY ThreadsConstants DEF Goes
<1>2. Quiet
  BY <1>1 DEF ThreadInv, Quiet
<1> QED
  BY <1>1, <1>2, QuietKeeps, GoesKeeps

LEMMA BreakerOpens ==
    ASSUME TypeOK, ThreadInv, NEW b \in Breaker, Opens(b, "write")
    PROVE  ThreadInv'
<1>0. b \in Caller /\ todo[b] = "open"
  BY ThreadsConstants DEF Opens, May
<1>1. UNCHANGED <<round, bufs>> /\ (UNCHANGED data \/ Save(b, Fresh(b)))
  BY ThreadsConstants DEF Opens, Open, Enrol
<1>2. b = game2 => data[b].score = 0
  BY <1>0 DEF ThreadInv, PointOfRight
<1>3. SameScore
  BY <1>0, <1>1, <1>2, SavedScore DEF SameScore, Fresh, Data
<1>4. PICK l : /\ todo' = [todo EXCEPT ![b] = l]
               /\ l \in {todo[b], "write", "end"}
  BY <1>0, AssertGoes DEF Opens
<1>5. BreakerGoes(b, l) /\ (l = "read" => todo[b] = "read")
  BY <1>0, <1>3, <1>4 DEF BreakerGoes
<1> QED
  BY <1>1, <1>4, <1>5, BreakerQuiet DEF round, bufs

LEMMA BreakerCloses ==
    ASSUME TypeOK, ThreadInv, NEW b \in Breaker, Closes(b)
    PROVE  ThreadInv'
<1>1. /\ todo' = [todo EXCEPT ![b] = "end"]
      /\ BreakerRelease(b)
  BY ConstantsAssumption DEF Closes, MakerRelease
<1>2. Save(b, NoData) /\ UNCHANGED <<guessReady, guessBuf, passwordBuf, in_round>>
  BY <1>1 DEF BreakerRelease, Gone, bufs
<1>3. b = game2 \/ SameScore
  BY <1>2, SavedScore, ThreadsConstants
<1>4. BreakerGoes(b, "end")
  BY <1>3 DEF BreakerGoes
<1> QED
  BY <1>1, <1>2, <1>4, BreakerQuiet

\* Whoever takes a feedback is the only reader, and takes that of its guess.
LEMMA BreakerReads ==
    ASSUME TypeOK, ThreadInv, NEW b \in Breaker, ReadsFeedback(b)
    PROVE  /\ ThreadInv'
           /\ ret' # ret /\ ret'.val = 1 => guessBuf = guess(b)
<1> DEFINE next == IF b = game2 THEN "score" ELSE "close"
<1>0. b \in Caller /\ b \notin Maker /\ todo[b] = "read"
  BY ThreadsConstants, ConstantsAssumption DEF ReadsFeedback, May
<1>1. SameScore
  <2>1. Refreshed(b).score = data[b].score
    BY <1>0, Alone DEF Refreshed, Data
  <2>2. UNCHANGED data \/ Save(b, Refreshed(b))
    BY DEF ReadsFeedback, BreakerRead, BreakerReadWoken
  <2> QED
    BY <1>0, <2>1, <2>2, SavedScore DEF SameScore
<1>2. PICK l : /\ todo' = [todo EXCEPT ![b] = l]
               /\ \/ l = todo[b] /\ ~Over(b)
                  \/ l = next /\ Over(b)
                  \/ l = "end"
  BY <1>0, AssertGoes DEF ReadsFeedback
<1>3. BreakerGoes(b, l)
  BY <1>0, <1>1, <1>2 DEF BreakerGoes
<1>4. \/ UNCHANGED <<round, bufs>> /\ (ret' = ret \/ ret'.val # 1)
      \/ in_round /\ TakeFeedback(b)
  BY ThreadsConstants
  DEF ReadsFeedback, BreakerRead, BreakerReadWoken, CopyFeedback, Return, Answer,
      SleepOn, EIO, EPERM, EOF
<1>5. CASE UNCHANGED <<round, bufs>> /\ (ret' = ret \/ ret'.val # 1)
  BY <1>0, <1>2, <1>3, <1>5, BreakerQuiet DEF round, bufs
<1>6. CASE in_round /\ TakeFeedback(b)
  <2>1. UNCHANGED <<guessBuf, passwordBuf>> /\ pc' = [pc EXCEPT ![b] = "idle"]
    BY <1>6 DEF TakeFeedback, Return, Goto
  <2>2. guessBuf = guess(b)
    BY <1>0, <1>6 DEF ThreadInv, ReadersOwn
  <2>3. Over(b)
    BY <1>0, <2>1 DEF TypeOK, CallsTypeOK, Over
  <2>4. l # "read"
    BY <1>2, <2>3
  <2>5. ASSUME NEW c \in Breaker, todo'[c] = "read" PROVE FALSE
    <3>1. todo[c] = "read" /\ c # b
      BY <1>0, <1>2, <2>4, <2>5, ThreadsConstants DEF ThreadInv
    <3>2. guessBuf = guess(c)
      BY <1>6, <3>1 DEF ThreadInv, ReadersOwn
    <3> QED
      BY <2>2, <3>1, <3>2, GuessesDiffer
  <2>6. ReadersOwn'
    BY <2>5 DEF ReadersOwn
  <2>7. Goes(b, l)
    BY <1>2, <1>3 DEF Goes
  <2> QED
    BY <1>0, <2>1, <2>2, <2>6, <2>7, GoesKeeps
<1> QED
  BY <1>4, <1>5, <1>6

\* The guess of a thread is written while nobody reads, and the right one
\* earns its point.
LEMMA GuessCopied ==
    ASSUME TypeOK, ThreadInv, RoundHasPassword, NEW b \in Breaker, NEW d,
           d.score = data[b].score, CopyGuess(b, d), ~RoundOver, ~guessReady,
           todo[b] = "write", todo[maker] \notin Early,
           Over(b) /\ ret'.val \in {1, -EINVAL} => guessBuf' = guess(b),
           Assert(b, ret'.val = 1, "read")
    PROVE  ThreadInv'
<1>0. b \in Caller /\ in_round
  BY ThreadsConstants DEF RoundOver
<1>1. \A c \in Breaker : todo[c] # "read"
  BY <1>0 DEF ThreadInv, ReadersOwn
<1>2. PICK g \in Code : RejectGuess(b, d, g) \/ AcceptGuess(b, d, g)
  BY ThreadsConstants DEF CopyGuess, WriteGuess
<1>3. pc' = [pc EXCEPT ![b] = "idle"] /\ UNCHANGED passwordBuf /\ guessBuf' = g
  BY <1>2 DEF RejectGuess, AcceptGuess, Return, Goto
<1>4. Over(b)
  BY <1>0, <1>3 DEF TypeOK, CallsTypeOK, Over
<1>5. PICK l : /\ todo' = [todo EXCEPT ![b] = l]
               /\ (l = "read" /\ ret'.val = 1) \/ l = "end"
  <2>1. CASE ret'.val = 1
    BY <1>4, <2>1, Zenon DEF Assert
  <2>2. CASE ret'.val # 1
    BY <1>4, <2>2, Zenon DEF Assert
  <2> QED
    BY <2>1, <2>2
<1>6. CASE RejectGuess(b, d, g)
  <2>1. Save(b, d) /\ ret'.val = -EINVAL
    BY <1>6 DEF RejectGuess, Return, Answer
  <2>2. SameScore /\ l = "end"
    BY <1>0, <1>5, <2>1, SavedScore DEF EINVAL
  <2>3. Goes(b, l)
    BY <1>5, <2>2 DEF Goes, BreakerGoes
  <2>4. ReadersOwn'
    BY <1>0, <1>1, <1>5, <2>2 DEF ThreadInv, ReadersOwn
  <2> QED
    BY <1>0, <1>3, <2>3, <2>4, GoesKeeps
<1>7. CASE AcceptGuess(b, d, g)
  <2> DEFINE guessed == generateFeedback(g, passwordBuf)
             e == Scored(Data(d.turns - 1, d.score, d.round_id), guessed)
  <2>1. Save(b, e) /\ ret'.val = 1 /\ guessReady'
    BY <1>7 DEF AcceptGuess, Return, Answer
  <2>2. g = guess(b)
    BY <1>3, <1>4, <2>1
  <2>3. b = game2 => e.score = 1
    <3>1. passwordBuf = right
      BY <1>0, ThreadsConstants DEF ThreadInv, RoundHasPassword
    <3>2. b = game2 => guessed /\ d.score = 0
      BY <2>2, <3>1, GuessesDiffer
      DEF generateFeedback, ThreadInv, PointOfRight
    <3> QED
      BY <3>2 DEF Scored, Data
  <2>4. IF b = game2 THEN data'[game2].score = 1 ELSE SameScore
    <3>1. CASE b = game2
      BY <1>0, <2>1, <2>3, <3>1, Alone DEF TypeOK, CallsTypeOK, Save
    <3>2. CASE b # game2
      BY <1>0, <2>1, <3>2, SavedScore
    <3> QED
      BY <3>1, <3>2
  <2>5. Goes(b, l)
    BY <1>5, <2>4 DEF Goes, BreakerGoes
  <2>6. ReadersOwn'
    BY <1>0, <1>1, <1>3, <1>5, <2>1, <2>2 DEF ThreadInv, ReadersOwn
  <2> QED
    BY <1>0, <1>3, <2>5, <2>6, GoesKeeps
<1> QED
  BY <1>2, <1>6, <1>7

LEMMA BreakerGuesses ==
    ASSUME TypeOK, ThreadInv, RoundHasPassword, NEW b \in Breaker, Guesses(b)
    PROVE  ThreadInv'
<1>0. b \in Caller /\ todo[b] = "write" /\ todo[maker] \notin Early
  BY ThreadsConstants DEF Guesses, May, Early
<1>1. Refreshed(b).score = data[b].score /\ private_data(b) = data[b]
  BY <1>0, Alone DEF Refreshed, Data
<1>2. CASE /\ UNCHANGED <<round, bufs>>
           /\ UNCHANGED data \/ Save(b, Refreshed(b))
           /\ Over(b) => ret'.val # 1
  <2>1. SameScore
    BY <1>0, <1>1, <1>2, SavedScore DEF SameScore
  <2>2. PICK l : todo' = [todo EXCEPT ![b] = l] /\ l \in {todo[b], "end"}
    BY <1>0, <1>2, AssertGoes DEF Guesses
  <2>3. BreakerGoes(b, l) /\ (l = "read" => todo[b] = "read")
    BY <1>0, <2>1, <2>2 DEF BreakerGoes
  <2> QED
    BY <1>2, <2>2, <2>3, BreakerQuiet DEF round, bufs
<1>3. CASE ~RoundOver /\ ~guessReady
           /\ (CopyGuess(b, data[b]) \/ CopyGuess(b, Refreshed(b)))
  BY <1>0, <1>1, <1>3, GuessCopied DEF Guesses
<1>4. ASSUME NEW v \in {-EIO, -EPERM, EOF}, Return(b, "write", v)
      PROVE  ret'.val # 1
  BY <1>4 DEF Return, Answer, EIO, EPERM, EOF
<1>5. ASSUME SleepOn(b, "wrWait") PROVE ~Over(b)
  BY <1>0, <1>5 DEF TypeOK, CallsTypeOK, SleepOn, Goto, Over
<1>6. CASE BreakerWrite(b)
  BY <1>2, <1>3, <1>4, <1>5, <1>6 DEF BreakerWrite
<1>7. CASE BreakerWriteWoken(b)
  <2>1. ~guessReady
    BY <1>7 DEF BreakerWriteWoken, Woken, Condition, At
  <2> QED
    BY <1>1, <1>2, <1>3, <1>4, <1>7, <2>1 DEF BreakerWriteWoken
<1> QED
  BY <1>6, <1>7 DEF Guesses

\* The winner is told its point.
LEMMA WinnerAsks ==
    ASSUME TypeOK, ThreadInv, AsksPoint
    PROVE  ThreadInv' /\ ret'.val = 1
<1>0. /\ todo[game2] = "score" /\ data[game2].score = 1 /\ game2 \notin Maker
      /\ game2 \in Breaker /\ game2 \in Caller
  BY ThreadsConstants, ConstantsAssumption
  DEF AsksPoint, May, ThreadInv, PointOfRight
<1> DEFINE w == game2 \in Maker /\ maker_won
<1>1. /\ Save(game2, Scored(data[game2], w))
      /\ UNCHANGED bufs /\ (in_round' => in_round)
      /\ Return(game2, "GET_MY_SCORE", Scored(data[game2], w).score)
  BY <1>0, Alone DEF AsksPoint, GetMyScore
<1>2. Scored(data[game2], w).score = data[game2].score
  BY <1>0 DEF Scored, Data
<1>3. ret'.val = 1
  BY <1>0, <1>1, <1>2 DEF Return, Answer
<1>4. SameScore
  BY <1>0, <1>1, <1>2, SavedScore
<1>5. PICK l : todo' = [todo EXCEPT ![game2] = l] /\ l \in {todo[game2], "close", "end"}
  BY <1>0, AssertGoes DEF AsksPoint
<1>6. BreakerGoes(game2, l) /\ l # "read"
  BY <1>0, <1>4, <1>5 DEF BreakerGoes
<1> QED
  BY <1>0, <1>1, <1>3, <1>5, <1>6, BreakerQuiet DEF bufs

LEMMA ThreadStep ==
    TypeOK /\ RoundHasPassword /\ ThreadInv /\ [ThreadsNext]_threads => ThreadInv'
<1> SUFFICES ASSUME TypeOK, RoundHasPassword, ThreadInv, [ThreadsNext]_threads
             PROVE  ThreadInv'
  OBVIOUS
<1> USE ThreadsConstants
<1>1. ASSUME UNCHANGED <<todo, data, in_round, guessReady, guessBuf, passwordBuf>>
      PROVE  ThreadInv'
  BY <1>1 DEF ThreadInv, ReadersOwn, NobodyEarly, PointOfRight
<1>2. CASE UNCHANGED threads
  BY <1>1, <1>2 DEF threads, vars, round, bufs
<1>3. ASSUME NEW t \in Caller, SleepAgain(t), UNCHANGED todo PROVE ThreadInv'
  BY <1>1, <1>3 DEF SleepAgain, round, bufs
<1>4. ASSUME NEW t \in Caller, GivesUp(t) PROVE ThreadInv'
  <2>1. /\ todo' = [todo EXCEPT ![t] = "end"]
        /\ UNCHANGED <<data, in_round, guessReady, guessBuf, passwordBuf>>
    BY <1>4 DEF GivesUp, vars, round, bufs
  <2>2. Goes(t, "end")
    BY <2>1 DEF Goes, MakerGoes, BreakerGoes, SameScore, Todo, Early
  <2>3. Quiet
    BY <2>1 DEF Quiet, ThreadInv
  <2> QED
    BY <2>1, <2>2, <2>3, QuietKeeps, GoesKeeps
<1>5. ASSUME NEW t \in Caller, t # maker,
             Opens(t, "write") \/ Guesses(t) \/ ReadsFeedback(t) \/ Closes(t)
      PROVE  ThreadInv'
  BY <1>5, BreakerOpens, BreakerGuesses, BreakerReads, BreakerCloses
<1>6. ASSUME NEW t \in Caller, Runs(t) PROVE ThreadInv'
  BY <1>3, <1>4, <1>5, <1>6, MakerStep, WinnerAsks, Zenon DEF Runs
<1> QED
  BY <1>2, <1>6, Zenon DEF ThreadsNext

LEMMA ThreadInvariant == ThreadsSafe => [](TypeOK /\ ThreadInv)
<1>1. ThreadsInit => ThreadInv
  <2> SUFFICES ASSUME ThreadsInit PROVE ThreadInv
    OBVIOUS
  <2>1. /\ todo = [t \in Caller |-> "open"] /\ passwordBuf = Blank
        /\ data[game2].score = 0
    BY ThreadsConstants, Alone DEF ThreadsInit, Init, CallsInit, NoData, Data
  <2> QED
    BY <2>1, ThreadsConstants
    DEF ThreadInv, ReadersOwn, NobodyEarly, PointOfRight, Todo
<1>2. ThreadsSafe => [](TypeOK /\ RoundHasPassword)
  BY ThreadsAreProcesses, TypeCorrect, RoundsHavePasswords, PTL
<1> QED
  BY <1>1, <1>2, ThreadStep, PTL DEF ThreadsSafe

-----------------------------------------------------------------------------
(* What the threads are answered.                                          *)

\* A step of the thread t that returns from a call returns to t.
LEMMA OwnAnswer ==
    ASSUME NEW t \in Caller, Runs(t)
    PROVE  ret' = ret \/ ret'.caller = t
<1> DEFINE Own(f) == ret' = ret \/ ret'.caller = f
<1> USE DEF Return, Answer
<1>1. ASSUME NEW f \in Caller, NEW l, Opens(f, l) PROVE Own(f)
  BY <1>1 DEF Opens, Open, Enrol, SleepIn
<1>2. ASSUME NEW f \in Caller, Closes(f) PROVE Own(f)
  BY <1>2 DEF Closes, MakerRelease, BreakerRelease, Gone
<1>3. ASSUME NEW f \in Caller, MakerWrite(f) PROVE Own(f)
  BY <1>3 DEF MakerWrite, SetPassword, SetFeedback, SleepIn
<1>4. ASSUME NEW f \in Caller, MakerRead(f) \/ MakerReadWoken(f) PROVE Own(f)
  BY <1>4 DEF MakerRead, MakerReadWoken, CopyOut, SleepOn
<1>5. ASSUME NEW f \in Caller, RoundStart(f, 4) \/ GetMyScore(f) PROVE Own(f)
  BY <1>5 DEF RoundStart, GetMyScore
<1>6. ASSUME NEW f \in Caller, NEW d, CopyGuess(f, d) PROVE Own(f)
  BY <1>6 DEF CopyGuess, WriteGuess, RejectGuess, AcceptGuess, SleepIn
<1>7. ASSUME NEW f \in Caller, Guesses(f) PROVE Own(f)
  BY <1>6, <1>7 DEF Guesses, BreakerWrite, BreakerWriteWoken, SleepOn
<1>8. ASSUME NEW f \in Caller, ReadsFeedback(f) PROVE Own(f)
  BY <1>8 DEF ReadsFeedback, BreakerRead, BreakerReadWoken, CopyFeedback,
              TakeFeedback, SleepIn, SleepOn
<1>9. ASSUME SetsPassword \/ StartsRound \/ AsksScore \/ ReadsGuess \/ AnswersGuess
      PROVE  Own(maker)
  BY <1>3, <1>4, <1>5, <1>9, ThreadsConstants
  DEF SetsPassword, StartsRound, AsksScore, ReadsGuess, AnswersGuess
<1>10. ASSUME AsksPoint PROVE Own(game2)
  BY <1>5, <1>10, ThreadsConstants DEF AsksPoint
<1>11. ASSUME GivesUp(t) \/ SleepAgain(t) PROVE Own(t)
  BY <1>11 DEF GivesUp, SleepAgain, vars
<1> HIDE DEF Own
<1>12. Own(t)
  BY <1>1, <1>2, <1>7, <1>8, <1>9, <1>10, <1>11, ThreadsConstants, Zenon
  DEF Runs, ClosesLast
<1> QED
  BY <1>12 DEF Own

\* In every interleaving of the test, a read that succeeds returns the feedback
\* of the thread's own guess, and the winner is told one point.
THEOREM ReadsChecked == ThreadsSafe => ReadsAreChecked
<1> DEFINE Checked ==
        \A b \in Breaker :
            ret' # ret /\ ret'.caller = b =>
                /\ todo[b] = "read" /\ ret'.val = 1 => guessBuf = guess(b)
                /\ todo[b] = "score" => ret'.val = 1
<1>1. TypeOK /\ ThreadInv /\ [ThreadsNext]_threads => [Checked]_threads
  <2> SUFFICES ASSUME TypeOK, ThreadInv, ThreadsNext,
                      NEW b \in Breaker, ret' # ret, ret'.caller = b
               PROVE  /\ todo[b] = "read" /\ ret'.val = 1 => guessBuf = guess(b)
                      /\ todo[b] = "score" => ret'.val = 1
    OBVIOUS
  <2>1. PICK t \in Caller : Runs(t)
    BY DEF ThreadsNext
  <2>2. t = b /\ b # maker
    BY <2>1, OwnAnswer, ThreadsConstants
  <2>3. ~GivesUp(b) /\ ~SleepAgain(b)
    BY DEF GivesUp, SleepAgain, vars
  <2>4. \/ ReadsFeedback(b)
        \/ b = game2 /\ AsksPoint
        \/ todo[b] \in {"open", "write", "close"}
    BY <2>1, <2>2, <2>3 DEF Runs, Opens, Guesses, Closes, May
  <2>5. CASE ReadsFeedback(b)
    BY <2>5, BreakerReads DEF ReadsFeedback, May
  <2>6. CASE b = game2 /\ AsksPoint
    BY <2>6, WinnerAsks DEF AsksPoint, May
  <2>7. CASE todo[b] \in {"open", "write", "close"}
    BY <2>7
  <2> QED
    BY <2>4, <2>5, <2>6, <2>7
<1> QED
  BY <1>1, ThreadInvariant, PTL DEF ThreadsSafe, ReadsAreChecked
=============================================================================
