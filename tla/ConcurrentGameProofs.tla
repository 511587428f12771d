------------------------ MODULE ConcurrentGameProofs ------------------------
(***************************************************************************)
(* ConcurrentGameTest against the driver, for any number of Codebreakers,  *)
(* turns and rounds: the test takes only steps of the driver, no thread    *)
(* sleeps on a condition variable after what it waits for has come, and    *)
(* the driver gives no more points than rounds.                            *)
(***************************************************************************)
EXTENDS ConcurrentGame, MastermindProofs

-----------------------------------------------------------------------------
(* The test takes only steps of the driver.                                *)

LEMMA GameConstants ==
    /\ maker \in Caller /\ maker \notin Breaker /\ Breaker \subseteq Caller
    /\ 10 \in Arg
    /\ IsFiniteSet(Breaker) /\ Cardinality(Breaker) \in Nat
BY ConstantsAssumption, ConcurrentGameAssumption, FS_CardinalityType DEF Caller

\* Nobody shares a descriptor, so each thread has a file of its own.
LEMMA Alone ==
    /\ File = Caller
    /\ \A t \in Caller : fileOf(t) = t /\ private_data(t) = data[t]
BY ConcurrentGameAssumption DEF File, fileOf, private_data

LEMMA GamePlaysDriver == [GameNext]_game => [Next]_vars
<1> SUFFICES ASSUME [GameNext]_game PROVE [Next]_vars
  OBVIOUS
<1>1. CASE UNCHANGED game
  BY <1>1 DEF game
<1>2. ASSUME NEW t \in Caller, Opens(t) \/ ComparesScore(t) \/ SleepAgain(t)
      PROVE  Next
  BY <1>2 DEF Opens, ComparesScore, Next
<1>3. ASSUME SetsPassword \/ StartsRound \/ ReadsGuess \/ AnswersGuess
      PROVE  Next
  BY <1>3, GameConstants
  DEF SetsPassword, StartsRound, ReadsGuess, AnswersGuess, Next
<1>4. ASSUME NEW b \in Caller, Guesses(b) \/ ReadsFeedback(b)
      PROVE  Next
  BY <1>4 DEF Guesses, ReadsFeedback, Next
<1>5. ASSUME NEW b \in Caller,
             \/ AwaitsBreakers \/ CountsAnswer \/ EntersRound(b) \/ HasEntered(b)
             \/ ChecksRound(b) \/ LooksAtFeedback(b)
      PROVE  UNCHANGED vars
  BY <1>5 DEF AwaitsBreakers, CountsAnswer, EntersRound, HasEntered,
              ChecksRound, LooksAtFeedback
<1>6. ASSUME NEW t \in Caller, Runs(t) PROVE [Next]_vars
  BY <1>2, <1>3, <1>4, <1>5, <1>6, Zenon DEF Runs
<1> QED
  BY <1>1, <1>6, Zenon DEF GameNext

\* What is proved of the driver under any processes holds in this test.
THEOREM GameIsOfProcesses == GameSafe => Spec
<1>1. GameInit => Init
  BY DEF GameInit
<1> QED
  BY <1>1, GamePlaysDriver, PTL DEF GameSafe, Spec

-----------------------------------------------------------------------------
(* The condition variables.                                                *)

\* The Codebreakers that are counted in breakers_ready: they have entered
\* pthread_cond_wait, and have not yet got the mutex again after it.
Entered == {b \in Breaker : todo[b] = "entered"}

Todo == {"open", "ready", "password", "start", "read", "answer", "count",
         "enter", "entered", "write", "check", "look", "score", "end"}

SyncOK ==
    /\ todo \in [Caller -> Todo]
    /\ played \in [Caller -> Nat]
    /\ NumOfRound \in Nat
    /\ waiting \in SUBSET Caller

\* breakers_ready counts them, and every Codebreaker that sleeps is one.
ReadyCounted ==
    /\ breakers_ready = Cardinality(Entered)
    /\ Breaker \cap waiting \subseteq Entered

SignalInv == SyncOK /\ ReadyCounted /\ NoLostSignal

LEMMA Todos ==
    {"open", "ready", "password", "start", "read", "answer", "count", "enter",
     "write", "check", "look", "score", "end"} \subseteq Todo \ {"entered"}
BY DEF Todo

LEMMA EnteredFinite ==
    /\ IsFiniteSet(Entered) /\ Cardinality(Entered) \in Nat
    /\ Cardinality(Entered) <= Cardinality(Breaker)
BY GameConstants, FS_Subset, FS_CardinalityType DEF Entered

\* A step of a thread that has not entered, and does not enter, keeps the
\* invariant if it lets nobody sleep and lets all run when it starts a round.
LEMMA Elsewhere ==
    ASSUME SignalInv, NEW t \in Caller, NEW l \in Todo \ {"entered"},
           todo[t] # "entered", Goes(t, l),
           waiting' \subseteq waiting, UNCHANGED breakers_ready,
           \/ UNCHANGED NumOfRound
           \/ waiting' = {} /\ NumOfRound' = NumOfRound + 1,
           \/ UNCHANGED played
           \/ played' = [played EXCEPT ![t] = @ + 1]
    PROVE  SignalInv'
<1>1. SyncOK'
  BY DEF SignalInv, SyncOK, Goes
<1>2. Entered' = Entered
  BY GameConstants DEF SignalInv, SyncOK, Goes, Entered
<1>3. ReadyCounted'
  BY <1>2 DEF SignalInv, ReadyCounted
<1>4. NoLostSignal'
  <2>1. maker \in waiting' => breakers_ready' # Cardinality(Breaker)
    BY DEF SignalInv, NoLostSignal
  <2>2. ASSUME NEW b \in Breaker \cap waiting' PROVE NumOfRound' # played'[b] + 1
    <3>1. b \in Breaker \cap waiting /\ b \in Entered /\ b \in Caller
      BY <2>2, GameConstants DEF SignalInv, ReadyCounted
    <3>2. b # t /\ played'[b] = played[b]
      BY <3>1 DEF SignalInv, SyncOK, Entered
    <3> QED
      BY <2>2, <3>1, <3>2 DEF SignalInv, NoLostSignal
  <2> QED
    BY <2>1, <2>2 DEF NoLostSignal
<1> QED
  BY <1>1, <1>3, <1>4 DEF SignalInv

LEMMA CallGoesOn ==
    ASSUME SyncOK, NEW t \in Caller, NEW l, Calls(t, l)
    PROVE  Goes(t, l) \/ Goes(t, todo[t])
BY DEF Calls

LEMMA MakerSignals ==
    ASSUME SignalInv,
           \/ AwaitsBreakers \/ SetsPassword \/ StartsRound
           \/ ReadsGuess \/ AnswersGuess \/ CountsAnswer
    PROVE  SignalInv'
<1> USE GameConstants, Todos
<1>1. CASE AwaitsBreakers
  <2>1. CASE Goes(maker, "password") /\ UNCHANGED waiting
    BY <1>1, <2>1, Elsewhere DEF AwaitsBreakers, local
  <2>2. CASE /\ breakers_ready # Cardinality(Breaker)
             /\ waiting' = waiting \cup {maker} /\ UNCHANGED todo
    <3>1. UNCHANGED <<todo, breakers_ready, NumOfRound, played>>
      BY <1>1, <2>2 DEF AwaitsBreakers, local
    <3>2. SyncOK' /\ ReadyCounted'
      BY <2>2, <3>1 DEF SignalInv, SyncOK, ReadyCounted, Entered
    <3>3. NoLostSignal'
      BY <2>2, <3>1 DEF SignalInv, NoLostSignal
    <3> QED
      BY <3>2, <3>3 DEF SignalInv
  <2> QED
    BY <1>1, <2>1, <2>2 DEF AwaitsBreakers
<1>2. CASE SetsPassword
  BY <1>2, Elsewhere DEF SetsPassword, sync, local
<1>3. CASE StartsRound
  BY <1>3, Elsewhere DEF StartsRound
<1>4. CASE ReadsGuess
  <2>1. Goes(maker, "answer") \/ Goes(maker, "read")
    BY <1>4, CallGoesOn DEF ReadsGuess, SignalInv
  <2> QED
    BY <1>4, <2>1, Elsewhere DEF ReadsGuess, sync
<1>5. CASE AnswersGuess
  BY <1>5, Elsewhere DEF AnswersGuess, sync, local
<1>6. CASE CountsAnswer
  <2>1. todo[maker] # "entered"
        /\ UNCHANGED <<waiting, breakers_ready, NumOfRound>>
    BY <1>6 DEF CountsAnswer
  <2>2. CASE EndsRound(maker, "ready")
    BY <2>1, <2>2, Elsewhere DEF EndsRound
  <2>3. CASE Goes(maker, "read") /\ UNCHANGED played
    BY <2>1, <2>3, Elsewhere
  <2> QED
    BY <1>6, <2>2, <2>3 DEF CountsAnswer
<1> QED
  BY <1>1, <1>2, <1>3, <1>4, <1>5, <1>6

\* The last Codebreaker to enter wakes the Codemaker.
LEMMA EnterSignals ==
    ASSUME SignalInv, NEW b \in Breaker, EntersRound(b)
    PROVE  SignalInv'
<1> USE GameConstants, Todos
<1>1. b \in Caller /\ todo[b] = "enter" /\ b \notin Entered /\ b \notin waiting
  BY DEF EntersRound, Entered, SignalInv, ReadyCounted
<1>2. UNCHANGED <<NumOfRound, played>>
  BY DEF EntersRound
<1>3. CASE NumOfRound # played[b] + 1
  <2>1. /\ waiting' = Signals(breakers_ready + 1) \cup {b}
        /\ breakers_ready' = breakers_ready + 1
        /\ Goes(b, "entered")
    BY <1>3 DEF EntersRound
  <2>2. SyncOK'
    BY <1>1, <1>2, <2>1 DEF SignalInv, SyncOK, Goes, Signals, Todo
  <2>3. Entered' = Entered \cup {b}
    BY <1>1, <2>1 DEF SignalInv, SyncOK, Goes, Entered
  <2>4. Cardinality(Entered') = Cardinality(Entered) + 1
    BY <1>1, <2>3, EnteredFinite, FS_AddElement
  <2>5. ReadyCounted'
    BY <2>1, <2>3, <2>4 DEF SignalInv, ReadyCounted, Signals
  <2>6. NoLostSignal'
    BY <1>1, <1>2, <1>3, <2>1 DEF SignalInv, NoLostSignal, Signals
  <2> QED
    BY <2>2, <2>5, <2>6 DEF SignalInv
<1>4. CASE NumOfRound = played[b] + 1
  <2>1. /\ waiting' = Signals(breakers_ready + 1)
        /\ UNCHANGED breakers_ready
        /\ Goes(b, "write")
    BY <1>4 DEF EntersRound
  <2> QED
    BY <1>1, <1>2, <2>1, Elsewhere DEF Signals
<1> QED
  BY <1>3, <1>4

LEMMA BreakerSignals ==
    ASSUME SignalInv, NEW b \in Breaker,
           \/ EntersRound(b) \/ HasEntered(b) \/ Guesses(b)
           \/ ChecksRound(b) \/ ReadsFeedback(b) \/ LooksAtFeedback(b)
    PROVE  SignalInv'
<1> USE GameConstants, Todos
<1>0. b \in Caller
  OBVIOUS
<1>1. CASE EntersRound(b)
  BY <1>1, EnterSignals
<1>2. CASE HasEntered(b)
  <2>1. /\ breakers_ready' = breakers_ready - 1
        /\ Goes(b, "write")
        /\ UNCHANGED <<waiting, NumOfRound, played>>
        /\ b \in Entered /\ b \notin waiting
    BY <1>2 DEF HasEntered, Entered, local
  <2>2. SyncOK'
    BY <1>0, <2>1 DEF SignalInv, SyncOK, Goes
  <2>3. Entered' = Entered \ {b}
    BY <1>0, <2>1 DEF SignalInv, SyncOK, Goes, Entered
  <2>4. Cardinality(Entered') = Cardinality(Entered) - 1
    BY <2>1, <2>3, EnteredFinite, FS_RemoveElement
  <2>5. ReadyCounted'
    BY <2>1, <2>3, <2>4 DEF SignalInv, ReadyCounted
  <2>6. breakers_ready' # Cardinality(Breaker)
    BY <2>1, EnteredFinite DEF SignalInv, ReadyCounted
  <2>7. NoLostSignal'
    BY <2>1, <2>6 DEF SignalInv, NoLostSignal
  <2> QED
    BY <2>2, <2>5, <2>7 DEF SignalInv
<1>3. CASE Guesses(b)
  <2>1. Goes(b, "check") \/ Goes(b, "write")
    BY <1>0, <1>3, CallGoesOn DEF Guesses, SignalInv
  <2> QED
    BY <1>0, <1>3, <2>1, Elsewhere DEF Guesses, sync
<1>4. CASE ReadsFeedback(b)
  <2>1. Goes(b, "look") \/ Goes(b, "read")
    BY <1>0, <1>4, CallGoesOn DEF ReadsFeedback, SignalInv
  <2> QED
    BY <1>0, <1>4, <2>1, Elsewhere DEF ReadsFeedback, sync
<1>5. CASE ChecksRound(b) \/ LooksAtFeedback(b)
  <2>1. /\ todo[b] # "entered"
        /\ UNCHANGED <<waiting, breakers_ready, NumOfRound>>
    BY <1>5 DEF ChecksRound, LooksAtFeedback, sync
  <2>2. CASE EndsRound(b, "enter")
    BY <1>0, <2>1, <2>2, Elsewhere DEF EndsRound
  <2>3. CASE (Goes(b, "read") \/ Goes(b, "write")) /\ UNCHANGED played
    BY <1>0, <2>1, <2>3, Elsewhere
  <2> QED
    BY <1>5, <2>2, <2>3 DEF ChecksRound, LooksAtFeedback
<1> QED
  BY <1>1, <1>2, <1>3, <1>4, <1>5

LEMMA SignalStep == SignalInv /\ [GameNext]_game => SignalInv'
<1> SUFFICES ASSUME SignalInv, [GameNext]_game PROVE SignalInv'
  OBVIOUS
<1>1. ASSUME UNCHANGED <<todo, sync, local>> PROVE SignalInv'
  BY <1>1 DEF SignalInv, SyncOK, ReadyCounted, NoLostSignal, Entered, sync, local
<1>2. CASE UNCHANGED game
  BY <1>1, <1>2 DEF game
<1>3. ASSUME NEW t \in Caller, Opens(t) PROVE SignalInv'
  BY <1>3, Todos, Elsewhere DEF Opens, sync, local
<1>4. ASSUME NEW t \in Caller, ComparesScore(t) PROVE SignalInv'
  BY <1>4, Todos, Elsewhere DEF ComparesScore, sync, local
<1>5. ASSUME NEW t \in Caller, Runs(t) PROVE SignalInv'
  BY <1>1, <1>3, <1>4, <1>5, MakerSignals, BreakerSignals, Zenon DEF Runs
<1> QED
  BY <1>2, <1>5, Zenon DEF GameNext

\* No thread of the test sleeps on a condition variable after what it waits
\* for has come, however many Codebreakers play however many rounds.
THEOREM SignalsArrive == GameSafe => []NoLostSignal
<1>1. GameInit => SignalInv
  <2> SUFFICES ASSUME GameInit PROVE SignalInv
    OBVIOUS
  <2>1. SyncOK
    BY Todos DEF GameInit, SyncOK
  <2>2. Entered = {}
    BY GameConstants DEF GameInit, Entered
  <2>3. ReadyCounted
    BY <2>2, FS_EmptySet DEF GameInit, ReadyCounted
  <2>4. NoLostSignal
    BY DEF GameInit, NoLostSignal
  <2> QED
    BY <2>1, <2>3, <2>4 DEF SignalInv
<1>2. SignalInv => NoLostSignal
  BY DEF SignalInv
<1> QED
  BY <1>1, <1>2, SignalStep, PTL DEF GameSafe

-----------------------------------------------------------------------------
(* Points.                                                                 *)

\* The scores s can be earned in n rounds, at most one point in each.
Spread(s, n) ==
    \E R \in SUBSET (1..n) : \E earner \in [R -> Caller] :
        \A t \in Caller : s[t].score = Cardinality({r \in R : earner[r] = t})

LEMMA PointsAreSpread == \A n : PointsOf(n) <=> Spread(data, n)
BY DEF PointsOf, Spread

\* Only the scores matter, and more rounds can give them as well.
LEMMA SpreadSame ==
    ASSUME NEW n, NEW s, Spread(s, n),
           NEW z, \A t \in Caller : z[t].score = s[t].score
    PROVE  Spread(z, n)
BY DEF Spread

LEMMA SpreadMore ==
    ASSUME NEW n \in Int, NEW s, Spread(s, n)
    PROVE  Spread(s, n + 1)
<1>1. SUBSET (1..n) \subseteq SUBSET (1..(n + 1))
  OBVIOUS
<1> QED
  BY <1>1 DEF Spread

LEMMA SpreadNone ==
    ASSUME NEW s, \A t \in Caller : s[t].score = 0
    PROVE  Spread(s, 0)
<1> DEFINE earner == [r \in {} |-> maker]
<1>1. {} \in SUBSET (1..0) /\ earner \in [{} -> Caller]
  OBVIOUS
<1>2. ASSUME NEW t \in Caller PROVE s[t].score = Cardinality({r \in {} : earner[r] = t})
  <2>1. {r \in {} : earner[r] = t} = {}
    OBVIOUS
  <2> QED
    BY <2>1, FS_EmptySet
<1> QED
  BY <1>1, <1>2 DEF Spread

\* Who has earned no point yet in the last of the rounds may earn it.
LEMMA SpreadPoint ==
    ASSUME NEW n \in Nat, n >= 1, NEW s, Spread(s, n - 1), NEW z, NEW f \in Caller,
           z[f].score = s[f].score + 1,
           \A t \in Caller \ {f} : z[t].score = s[t].score
    PROVE  Spread(z, n)
<1>1. PICK R \in SUBSET (1..(n - 1)) : \E earner \in [R -> Caller] :
          \A t \in Caller : s[t].score = Cardinality({r \in R : earner[r] = t})
  BY DEF Spread
<1>2. PICK earner \in [R -> Caller] :
          \A t \in Caller : s[t].score = Cardinality({r \in R : earner[r] = t})
  BY <1>1
<1> DEFINE Q == R \cup {n}
           who == [r \in Q |-> IF r = n THEN f ELSE earner[r]]
<1>3. n \notin R /\ Q \in SUBSET (1..n)
  <2>1. \A r \in R : r \in 1..n /\ r # n
    BY <1>1
  <2> QED
    BY <2>1
<1>4. who \in [Q -> Caller]
  BY <1>2, <1>3
<1>5. ASSUME NEW t \in Caller \ {f} PROVE {r \in Q : who[r] = t} = {r \in R : earner[r] = t}
  BY <1>3, <1>5
<1>6. {r \in Q : who[r] = f} = {r \in R : earner[r] = f} \cup {n}
  BY <1>3
<1>7. Cardinality({r \in Q : who[r] = f}) = Cardinality({r \in R : earner[r] = f}) + 1
  <2>1. IsFiniteSet(1..(n - 1))
    BY FS_Interval
  <2>2. IsFiniteSet({r \in R : earner[r] = f})
    BY <2>1, FS_Subset
  <2> QED
    BY <1>3, <1>6, <2>2, FS_AddElement
<1> HIDE DEF Q, who
<1>8. ASSUME NEW t \in Caller PROVE z[t].score = Cardinality({r \in Q : who[r] = t})
  BY <1>2, <1>5, <1>7, <1>8
<1> QED
  BY <1>3, <1>4, <1>8 DEF Spread

-----------------------------------------------------------------------------
(* Which steps give points.                                                *)

\* The point of the round may still be given to somebody.
Unsettled == maker_won \/ (in_round /\ ~breaker_won)

ScoresSame == \A t \in Caller : data'[t].score = data[t].score
ClosedSame == \A t \in Caller : pc'[t] = "closed" => pc[t] = "closed"

NoPoint ==
    /\ ScoresSame /\ ClosedSame /\ UNCHANGED round_id
    /\ Unsettled' => Unsettled
NewRound ==
    ScoresSame /\ ClosedSame /\ round_id' = round_id + 1
Point(f) ==
    /\ pc[f] # "closed" /\ ClosedSame /\ UNCHANGED round_id
    /\ Unsettled /\ ~Unsettled'
    /\ data'[f].score = data[f].score + 1
    /\ \A t \in Caller \ {f} : data'[t].score = data[t].score

\* What the proofs below need of a call that moves.
LEMMA ClosedStays ==
    ASSUME TypeOK, NEW f \in Caller, NEW l \in Location \ {"closed"}, Goto(f, l)
    PROVE  ClosedSame
BY DEF TypeOK, CallsTypeOK, Goto, ClosedSame

LEMMA ReturnStays ==
    ASSUME TypeOK, NEW f \in Caller, NEW op, NEW v, Return(f, op, v)
    PROVE  ClosedSame
BY Names, ClosedStays DEF Return

LEMMA ScoreSaved ==
    ASSUME TypeOK, NEW f \in Caller, NEW d, Save(f, d), d.score = data[f].score
    PROVE  ScoresSame
BY Alone DEF TypeOK, CallsTypeOK, Save, ScoresSame

LEMMA PointSaved ==
    ASSUME TypeOK, NEW f \in Caller, NEW d, Save(f, d), d.score = data[f].score + 1
    PROVE  /\ data'[f].score = data[f].score + 1
           /\ \A t \in Caller \ {f} : data'[t].score = data[t].score
BY Alone DEF TypeOK, CallsTypeOK, Save

\* The calls of the test, one by one.
LEMMA OpenPoints ==
    ASSUME TypeOK, NEW f \in Caller, Open(f), data[f].score = 0
    PROVE  NoPoint
<1>1. UNCHANGED round
  BY DEF Open
<1>2. CASE Enrol(f)
  <2>1. Fresh(f).score = data[f].score
    BY DEF Fresh, Data
  <2> QED
    BY <1>1, <1>2, <2>1, ReturnStays, ScoreSaved
    DEF Enrol, NoPoint, round, Unsettled
<1>3. CASE UNCHANGED <<data, pc>>
  BY <1>1, <1>3 DEF NoPoint, ScoresSame, ClosedSame, round, Unsettled
<1> QED
  BY <1>2, <1>3, ConcurrentGameAssumption DEF Open

LEMMA MakerReadPoints ==
    ASSUME TypeOK, NEW f \in Caller, MakerRead(f) \/ MakerReadWoken(f)
    PROVE  NoPoint
<1>1. UNCHANGED <<round, data>>
  BY DEF MakerRead, MakerReadWoken
<1>2. ClosedSame
  BY Names, ReturnStays, ClosedStays DEF MakerRead, MakerReadWoken, CopyOut, SleepOn
<1> QED
  BY <1>1, <1>2 DEF NoPoint, ScoresSame, round, Unsettled

LEMMA BreakerReadPoints ==
    ASSUME TypeOK, NEW f \in Caller, BreakerRead(f) \/ BreakerReadWoken(f)
    PROVE  NoPoint
<1>1. ScoresSame
  <2>1. Refreshed(f).score = data[f].score
    BY Alone DEF Refreshed, Data
  <2>2. CASE UNCHANGED data
    BY <2>2 DEF ScoresSame
  <2> QED
    BY <2>1, <2>2, ScoreSaved DEF BreakerRead, BreakerReadWoken
<1>2. ASSUME TakeFeedback(f)
      PROVE  ClosedSame /\ UNCHANGED round_id /\ (Unsettled' => Unsettled)
  BY <1>2, ReturnStays DEF TakeFeedback, Unsettled
<1>3. ASSUME UNCHANGED round,
             \/ \E v \in {-EIO, -EPERM, EOF} : Return(f, "read", v)
             \/ SleepOn(f, "rdWait")
      PROVE  ClosedSame /\ UNCHANGED round_id /\ (Unsettled' => Unsettled)
  BY <1>3, Names, ReturnStays, ClosedStays DEF SleepOn, Unsettled, round
<1>4. ClosedSame /\ UNCHANGED round_id /\ (Unsettled' => Unsettled)
  BY <1>2, <1>3, ConcurrentGameAssumption
  DEF BreakerRead, BreakerReadWoken, CopyFeedback
<1> QED
  BY <1>1, <1>4 DEF NoPoint

\* The feedback after which the Codemaker has won gives it its point.
LEMMA MakerWritePoints ==
    ASSUME TypeOK, NEW f \in Caller, MakerWrite(f)
    PROVE  NoPoint \/ Point(f)
<1>1. CASE SetFeedback(f)
  <2>1. ClosedSame /\ UNCHANGED <<round_id, breaker_won>>
    BY <1>1, ReturnStays DEF SetFeedback
  <2>2. pc[f] # "closed"
    BY DEF MakerWrite, Ready, At
  <2>0. Save(f, Scored(data[f], maker_won))
    <3>1. private_data(f) = data[f]
      BY Alone
    <3> QED
      BY <1>1, <3>1 DEF SetFeedback
  <2>3. CASE maker_won
    <3>1. /\ Save(f, Scored(data[f], TRUE))
          /\ maker_won' = FALSE /\ in_round' = FALSE
      BY <1>1, <2>0, <2>3, Zenon DEF SetFeedback
    <3>2. Scored(data[f], TRUE).score = data[f].score + 1
      BY DEF Scored, Data
    <3> QED
      BY <2>1, <2>2, <2>3, <3>1, <3>2, PointSaved DEF Point, Unsettled
  <2>4. CASE ~maker_won
    <3>1. Save(f, Scored(data[f], maker_won)) /\ ~maker_won'
          /\ (in_round' => in_round)
      BY <1>1, <2>0 DEF SetFeedback
    <3>2. Scored(data[f], maker_won).score = data[f].score
      BY <2>4 DEF Scored, Data
    <3> QED
      BY <2>1, <3>1, <3>2, ScoreSaved DEF NoPoint, Unsettled
  <2> QED
    BY <2>3, <2>4
<1>2. CASE UNCHANGED <<round, data>> /\ \E v \in {1, -EBUSY} : Return(f, "write", v)
  BY <1>2, ReturnStays DEF NoPoint, ScoresSame, Unsettled, round
<1> QED
  BY <1>1, <1>2, ConcurrentGameAssumption DEF MakerWrite, SetPassword

\* A right guess gives its point while the round has none.
LEMMA CopyGuessPoints ==
    ASSUME TypeOK, NEW f \in Caller, NEW d, d.score = data[f].score,
           CopyGuess(f, d), ~RoundOver, pc[f] # "closed"
    PROVE  NoPoint \/ Point(f)
<1>1. ASSUME NEW g \in Code, RejectGuess(f, d, g) PROVE NoPoint
  BY <1>1, ReturnStays, ScoreSaved DEF RejectGuess, NoPoint, Unsettled, round
<1>2. ASSUME NEW g \in Code, AcceptGuess(f, d, g) PROVE NoPoint \/ Point(f)
  <2> DEFINE guessed == generateFeedback(g, passwordBuf)
             playing == num_of_codebrakers_playing
                        - (IF Exhausted(d.turns - 1) THEN 1 ELSE 0)
  <2>1. /\ ClosedSame /\ UNCHANGED <<round_id, in_round>>
        /\ Save(f, Scored(Data(d.turns - 1, d.score, d.round_id), guessed))
    BY <1>2, ReturnStays DEF AcceptGuess
  <2>2. /\ breaker_won' = (breaker_won \/ guessed)
        /\ maker_won' = (maker_won \/ (playing = 0 /\ ~guessed))
    BY <1>2, Zenon DEF AcceptGuess
  <2>3. Unsettled /\ ~maker_won
    BY DEF Unsettled, RoundOver
  <2> HIDE DEF guessed, playing
  <2>4. CASE guessed
    <3>1. Scored(Data(d.turns - 1, d.score, d.round_id), guessed).score
            = data[f].score + 1
      BY <2>4 DEF Scored, Data
    <3>2. ~Unsettled'
      BY <2>2, <2>3, <2>4 DEF Unsettled
    <3> QED
      BY <2>1, <2>3, <3>1, <3>2, PointSaved DEF Point
  <2>5. CASE ~guessed
    <3>1. Scored(Data(d.turns - 1, d.score, d.round_id), guessed).score
            = data[f].score
      BY <2>5 DEF Scored, Data
    <3> QED
      BY <2>1, <2>3, <3>1, ScoreSaved DEF NoPoint
  <2> QED
    BY <2>4, <2>5
<1> QED
  BY <1>1, <1>2, ConcurrentGameAssumption DEF CopyGuess, WriteGuess

LEMMA BreakerWritePoints ==
    ASSUME TypeOK, NEW f \in Caller, BreakerWrite(f) \/ BreakerWriteWoken(f)
    PROVE  NoPoint \/ Point(f)
<1>1. Refreshed(f).score = data[f].score /\ private_data(f) = data[f]
  BY Alone DEF Refreshed, Data
<1>2. pc[f] # "closed"
  BY DEF BreakerWrite, BreakerWriteWoken, Woken, Ready, At
<1>3. ASSUME UNCHANGED data \/ Save(f, Refreshed(f)), UNCHANGED round,
             \/ \E v \in {-EIO, -EPERM, EOF} : Return(f, "write", v)
             \/ SleepOn(f, "wrWait")
      PROVE  NoPoint
  <2>1. ScoresSame
    <3>1. CASE UNCHANGED data
      BY <3>1 DEF ScoresSame
    <3> QED
      BY <1>1, <1>3, <3>1, ScoreSaved
  <2>2. ClosedSame
    BY <1>3, Names, ReturnStays, ClosedStays DEF SleepOn
  <2> QED
    BY <1>3, <2>1, <2>2 DEF NoPoint, Unsettled, round
<1> QED
  BY <1>1, <1>2, <1>3, CopyGuessPoints DEF BreakerWrite, BreakerWriteWoken

LEMMA ScorePoints ==
    ASSUME TypeOK, NEW f \in Caller, GetMyScore(f)
    PROVE  NoPoint \/ Point(f)
<1> DEFINE w == f \in Maker /\ maker_won
<1>1. /\ maker_won' = (maker_won /\ ~w) /\ in_round' = (in_round /\ ~w)
      /\ UNCHANGED <<round_id, breaker_won>>
      /\ Save(f, Scored(data[f], w)) /\ ClosedSame /\ pc[f] # "closed"
  <2>1. private_data(f) = data[f]
    BY Alone
  <2> QED
    BY <2>1, ReturnStays DEF GetMyScore, Ready, At
<1>2. w => maker_won
  OBVIOUS
<1> HIDE DEF w
<1>3. CASE w
  <2>1. Scored(data[f], w).score = data[f].score + 1
    BY <1>3 DEF Scored, Data
  <2>2. Unsettled /\ ~Unsettled'
    BY <1>1, <1>2, <1>3 DEF Unsettled
  <2> QED
    BY <1>1, <2>1, <2>2, PointSaved DEF Point
<1>4. CASE ~w
  <2>1. Scored(data[f], w).score = data[f].score
    BY <1>4 DEF Scored, Data
  <2>2. Unsettled' => Unsettled
    BY <1>1 DEF Unsettled
  <2> QED
    BY <1>1, <2>1, <2>2, ScoreSaved DEF NoPoint
<1> QED
  BY <1>3, <1>4

LEMMA StartPoints ==
    ASSUME TypeOK, NEW f \in Caller, NEW arg, RoundStart(f, arg)
    PROVE  NoPoint \/ NewRound
<1>1. ScoresSame /\ ClosedSame
  BY ReturnStays DEF RoundStart, ScoresSame
<1>2. UNCHANGED <<in_round, round_id, maker_won, breaker_won>>
      \/ round_id' = round_id + 1
  BY DEF RoundStart, round
<1> QED
  BY <1>1, <1>2 DEF NoPoint, NewRound, Unsettled

-----------------------------------------------------------------------------
(* The points of the test.                                                 *)

\* While the point of the round may still be given, the points are those of
\* the rounds before it; and who has not opened has none.
PointInv ==
    /\ PointsOf(round_id)
    /\ Unsettled => round_id >= 1 /\ PointsOf(round_id - 1)
    /\ \A f \in Caller : pc[f] = "closed" => data[f].score = 0

LEMMA PointKinds ==
    ASSUME TypeOK, PointInv, NEW t \in Caller, Runs(t)
    PROVE  NoPoint \/ NewRound \/ \E f \in Caller : Point(f)
<1> USE GameConstants
<1>1. ASSUME Opens(t) PROVE NoPoint
  BY <1>1, OpenPoints DEF Opens, PointInv, Open, At
<1>2. ASSUME ComparesScore(t) PROVE NoPoint \/ Point(t)
  BY <1>2, ScorePoints DEF ComparesScore
<1>3. ASSUME UNCHANGED <<round, data, pc>> PROVE NoPoint
  BY <1>3 DEF NoPoint, ScoresSame, ClosedSame, round, Unsettled
<1>4. ASSUME AwaitsBreakers \/ CountsAnswer \/ SleepAgain(t) PROVE NoPoint
  BY <1>3, <1>4 DEF AwaitsBreakers, CountsAnswer, SleepAgain, vars
<1>5. ASSUME SetsPassword \/ AnswersGuess PROVE NoPoint \/ Point(maker)
  BY <1>5, MakerWritePoints DEF SetsPassword, AnswersGuess
<1>6. ASSUME StartsRound PROVE NoPoint \/ NewRound
  BY <1>6, StartPoints DEF StartsRound
<1>7. ASSUME ReadsGuess PROVE NoPoint
  BY <1>7, MakerReadPoints DEF ReadsGuess
<1>8. ASSUME EntersRound(t) \/ HasEntered(t) \/ ChecksRound(t) \/ LooksAtFeedback(t)
      PROVE  NoPoint
  BY <1>3, <1>8 DEF EntersRound, HasEntered, ChecksRound, LooksAtFeedback, vars
<1>9. ASSUME Guesses(t) PROVE NoPoint \/ Point(t)
  BY <1>9, BreakerWritePoints DEF Guesses
<1>10. ASSUME ReadsFeedback(t) PROVE NoPoint
  BY <1>10, BreakerReadPoints DEF ReadsFeedback
<1> QED
  BY <1>1, <1>2, <1>4, <1>5, <1>6, <1>7, <1>8, <1>9, <1>10, Zenon DEF Runs

LEMMA PointStep == TypeOK /\ PointInv /\ [GameNext]_game => PointInv'
<1> SUFFICES ASSUME TypeOK, PointInv, [GameNext]_game PROVE PointInv'
  OBVIOUS
<1>0. /\ round_id \in Nat /\ Spread(data, round_id)
      /\ Unsettled => round_id >= 1 /\ Spread(data, round_id - 1)
      /\ \A f \in Caller : pc[f] = "closed" => data[f].score = 0
  BY PointsAreSpread DEF TypeOK, CallsTypeOK, PointInv
<1>1. ASSUME Spread(data', round_id'),
             Unsettled' => round_id' >= 1 /\ Spread(data', round_id' - 1),
             \A f \in Caller : pc'[f] = "closed" => data'[f].score = 0
      PROVE  PointInv'
  BY <1>1 DEF PointInv, PointsOf, Spread
<1>2. CASE NoPoint
  BY <1>0, <1>1, <1>2, SpreadSame DEF NoPoint, ScoresSame, ClosedSame
<1>3. CASE NewRound
  <2>1. Spread(data', round_id) /\ round_id' = round_id + 1
    BY <1>0, <1>3, SpreadSame DEF NewRound, ScoresSame
  <2>2. Spread(data', round_id') /\ round_id' - 1 = round_id /\ round_id' >= 1
    BY <1>0, <2>1, SpreadMore
  <2> QED
    BY <1>0, <1>1, <1>3, <2>1, <2>2 DEF NewRound, ScoresSame, ClosedSame
<1>4. ASSUME NEW f \in Caller, Point(f) PROVE PointInv'
  <2>1. Spread(data', round_id)
    BY <1>0, <1>4, SpreadPoint DEF Point
  <2>2. ASSUME NEW g \in Caller, pc'[g] = "closed" PROVE data'[g].score = 0
    BY <1>0, <1>4, <2>2 DEF Point, ClosedSame
  <2> QED
    BY <1>1, <1>4, <2>1, <2>2 DEF Point
<1>5. CASE UNCHANGED game
  <2>1. NoPoint
    BY <1>5 DEF game, vars, round, NoPoint, ScoresSame, ClosedSame, Unsettled
  <2> QED
    BY <1>2, <2>1
<1>6. CASE GameNext
  BY <1>2, <1>3, <1>4, <1>6, PointKinds, Zenon DEF GameNext
<1> QED
  BY <1>5, <1>6

\* The driver gives the players of the test no more points than it has played
\* rounds, and no round gives two: neither to two Codebreakers nor to one of
\* them and the Codemaker.
THEOREM OnePointEach == GameSafe => []OnePointARound
<1>1. GameInit => PointInv
  <2> SUFFICES ASSUME GameInit PROVE PointInv
    OBVIOUS
  <2>1. round_id = 0 /\ ~Unsettled /\ \A f \in Caller : data[f].score = 0
    BY Alone DEF GameInit, Init, CallsInit, NoData, Data, Unsettled
  <2> QED
    BY <2>1, SpreadNone, PointsAreSpread DEF PointInv
<1>2. PointInv => OnePointARound
  BY DEF PointInv, OnePointARound
<1>3. GameSafe => []TypeOK
  BY GameIsOfProcesses, TypeCorrect, PTL
<1> QED
  BY <1>1, <1>2, <1>3, PointStep, PTL DEF GameSafe
=============================================================================
