---------------------------- MODULE PlayersProofs ----------------------------
(***************************************************************************)
(* The composition of the driver with its clients: it is the driver, with  *)
(* the types of its own variables; and in one round every step of it is a  *)
(* step of Slot, so that each Codebreaker reads the feedback of its own    *)
(* guess; and over any number of rounds a Codebreaker gets at most one     *)
(* guess too many: its turns are refilled when it first notices the new    *)
(* round, and a write that slept from one round into the next does not     *)
(* notice it.                                                              *)
(***************************************************************************)
EXTENDS Players, MastermindTurns

-----------------------------------------------------------------------------
(* The composition takes only steps of the driver.                         *)

LEMMA PlaysDriver == [PlayersNext]_players => [Next]_vars
<1> SUFFICES ASSUME [PlayersNext]_players PROVE [Next]_vars
  OBVIOUS
<1>1. CASE UNCHANGED players
  BY <1>1 DEF players
<1>2. ASSUME NEW m \in Caller,
             MakerOpens(m) \/ MakerSets(m) \/ MakerStarts(m) \/ MakerReads(m)
             \/ MakerAnswers(m) \/ MakerScores(m) \/ MakerLeaves(m)
      PROVE  Next
  BY <1>2 DEF MakerOpens, MakerSets, MakerStarts, MakerReads, MakerAnswers,
              MakerScores, MakerLeaves, Next
<1>3. ASSUME NEW b \in Caller,
             BreakerOpens(b) \/ BreakerWrites(b) \/ BreakerReads(b)
             \/ BreakerQuits(b) \/ SleepsAgain(b)
      PROVE  Next
  BY <1>3 DEF BreakerOpens, BreakerWrites, BreakerReads, BreakerQuits,
              SleepsAgain, Next
<1>4. CASE \E f \in Caller : Proceeds(f)
  BY <1>2, <1>3, <1>4 DEF Proceeds
<1>5. CASE \E b \in Breaker : BreakerQuits(b)
  BY <1>3, <1>5 DEF Caller
<1> QED
  BY <1>1, <1>4, <1>5 DEF PlayersNext

\* What is proved of the driver under any processes holds with these clients.
THEOREM PlayersAreProcesses == PlayersSafe => Spec
<1>1. PlayersInit => Init
  BY DEF PlayersInit
<1> QED
  BY <1>1, PlaysDriver, PTL DEF PlayersSafe, Spec

\* No client shares its descriptor, so each caller has a file of its own.
LEMMA Alone ==
    /\ File = Caller /\ Sole = Caller
    /\ \A c \in Caller : fileOf(c) = c /\ private_data(c) = data[c]
    /\ Maker \subseteq Caller /\ Breaker \subseteq Caller /\ Maker \cap Breaker = {}
BY PlayersAssumption, ConstantsAssumption DEF File, Caller, Sole, fileOf, private_data

-----------------------------------------------------------------------------
(* Types.                                                                  *)

ClientsOK ==
    /\ todo \in [Caller -> Todo]
    /\ owner \in Breaker \cup {NoOne}
    /\ used \in [Breaker -> Nat]

LEMMA ThenType ==
    ASSUME ClientsOK, NEW f \in Caller, NEW next \in Todo, Then(f, next)
    PROVE  todo' \in [Caller -> Todo]
BY DEF ClientsOK, Then

LEMMA Todos ==
    {"open", "password", "start", "read", "answer", "last", "score",
     "close", "gone", "write"} \subseteq Todo
BY DEF Todo

LEMMA ClientsStep == ClientsOK /\ [PlayersNext]_players => ClientsOK'
<1> SUFFICES ASSUME ClientsOK, [PlayersNext]_players PROVE ClientsOK'
  OBVIOUS
<1> DEFINE Idle == UNCHANGED <<owner, used>>
<1>1. CASE UNCHANGED players
  BY <1>1 DEF ClientsOK, players
<1>2. ASSUME NEW f \in Caller, NEW next \in Todo, Then(f, next), Idle
      PROVE  ClientsOK'
  BY <1>2, ThenType DEF ClientsOK
<1>3. ASSUME NEW m \in Caller,
             MakerOpens(m) \/ MakerSets(m) \/ MakerReads(m) \/ MakerAnswers(m)
             \/ MakerScores(m) \/ MakerLeaves(m)
      PROVE  ClientsOK'
  <2>1. todo[m] \in Todo
    BY DEF ClientsOK
  <2>2. \E next \in Todo : Then(m, next) /\ Idle
    BY <1>3, <2>1, Todos
    DEF MakerOpens, MakerSets, MakerReads, MakerAnswers, MakerScores, MakerLeaves
  <2> QED
    BY <1>2, <2>2
<1>4. ASSUME NEW m \in Caller, MakerStarts(m) PROVE ClientsOK'
  <2>1. \E next \in Todo : Then(m, next)
    BY <1>4, Todos DEF MakerStarts
  <2>2. used' \in [Breaker -> Nat] /\ owner' = owner
    BY <1>4 DEF MakerStarts, ClientsOK
  <2> QED
    BY <2>1, <2>2, ThenType DEF ClientsOK
<1>5. ASSUME NEW b \in Caller, BreakerOpens(b) \/ BreakerReads(b) \/ BreakerQuits(b)
      PROVE  ClientsOK'
  <2>1. \E next \in Todo : Then(b, next) /\ Idle
    BY <1>5, Todos DEF BreakerOpens, BreakerReads, BreakerQuits
  <2> QED
    BY <1>2, <2>1
<1>6. ASSUME NEW b \in Breaker, BreakerWrites(b) PROVE ClientsOK'
  <2>1. \E next \in Todo : Then(b, next)
    BY <1>6, Todos DEF BreakerWrites
  <2>2. used' \in [Breaker -> Nat] /\ owner' \in {b, owner}
    BY <1>6 DEF BreakerWrites, ClientsOK
  <2> QED
    BY <2>1, <2>2, ThenType DEF ClientsOK, Caller
<1>7. ASSUME NEW f \in Caller, SleepsAgain(f) PROVE ClientsOK'
  BY <1>7 DEF SleepsAgain, ClientsOK
<1> QED
  BY <1>1, <1>3, <1>4, <1>5, <1>6, <1>7 DEF PlayersNext, Proceeds, Caller

\* The driver and its clients keep their types.
THEOREM PlayersTypes == PlayersSafe => []PlayersTypeOK
<1>1. PlayersInit => ClientsOK
  BY Todos DEF PlayersInit, ClientsOK
<1>2. PlayersSafe => []ClientsOK
  BY <1>1, ClientsStep, PTL DEF PlayersSafe
<1>3. TypeOK /\ ClientsOK => PlayersTypeOK
  BY DEF ClientsOK, PlayersTypeOK
<1> QED
  BY <1>2, <1>3, PlayersAreProcesses, TypeCorrect, PTL

-----------------------------------------------------------------------------
(* The kinds of step, as far as the slot can tell them apart.              *)

Device == <<in_round, round_id, guessReady, feedbackReady>>

\* Codebreakers that have written a guess and not read its feedback.
Readers == {b \in Breaker : todo[b] = "read"}

Quiet   == UNCHANGED Device /\ UNCHANGED owner /\ Readers' \subseteq Readers
Starts  == /\ ~in_round /\ in_round' /\ ~guessReady' /\ ~feedbackReady'
           /\ round_id < MaxRound /\ round_id' = round_id + 1
           /\ Readers' \subseteq Readers
Outside == ~in_round' /\ round_id' = round_id /\ Readers' \subseteq Readers
Posts   == /\ in_round /\ ~feedbackReady /\ feedbackReady'
           /\ UNCHANGED <<in_round, round_id, guessReady, owner>>
           /\ Readers' \subseteq Readers
Puts(b) == /\ in_round /\ ~guessReady /\ guessReady' /\ owner' = b
           /\ UNCHANGED <<in_round, round_id, feedbackReady>>
           /\ Readers' \subseteq Readers \cup {b}
Takes(b) == /\ in_round /\ in_round' /\ feedbackReady
            /\ ~guessReady' /\ ~feedbackReady'
            /\ UNCHANGED <<round_id, owner>>
            /\ b \in Readers /\ Readers' \subseteq Readers \ {b}

\* What a read that gives a feedback does to the device.
Taken == /\ in_round /\ feedbackReady /\ ~guessReady' /\ ~feedbackReady'
         /\ UNCHANGED round_id

\* A client that goes on to anything but "read" adds no reader.
LEMMA NoNewReader ==
    ASSUME ClientsOK, NEW f \in Caller, NEW next, Then(f, next),
           Done(f) => next # "read" \/ f \notin Breaker
    PROVE  Readers' \subseteq Readers
BY DEF ClientsOK, Then, Readers

LEMMA OneNewReader ==
    ASSUME ClientsOK, NEW b \in Breaker, NEW next, Then(b, next)
    PROVE  Readers' \subseteq Readers \cup {b}
BY DEF ClientsOK, Then, Readers, Caller

\* The Codemaker's calls.
LEMMA MakerKinds ==
    ASSUME TypeOK, ClientsOK, NEW m \in Maker,
           MakerSets(m) \/ MakerStarts(m) \/ MakerReads(m)
           \/ MakerAnswers(m) \/ MakerScores(m) \/ MakerLeaves(m)
    PROVE  Quiet \/ Starts \/ Outside \/ Posts
<1>1. m \in Caller /\ m \notin Breaker
  BY ConstantsAssumption DEF Caller
<1>2. Readers' \subseteq Readers /\ owner' = owner
  BY <1>1, NoNewReader
  DEF MakerSets, MakerStarts, MakerReads, MakerAnswers, MakerScores, MakerLeaves
<1>3. ASSUME MakerWrite(m) PROVE Quiet \/ Outside \/ Posts
  <2>1. CASE ~in_round /\ SetPassword(m)
    BY <1>2, <2>1 DEF SetPassword, round, Outside
  <2>2. CASE in_round /\ ~feedbackReady /\ SetFeedback(m)
    BY <1>2, <2>2 DEF TypeOK, CallsTypeOK, SetFeedback, Outside, Posts
  <2>3. CASE UNCHANGED <<round, bufs>>
    BY <1>2, <2>3 DEF round, bufs, Quiet, Device
  <2> QED
    BY <1>3, <2>1, <2>2, <2>3, PlayersAssumption DEF MakerWrite
<1>4. ASSUME NEW arg \in Arg, RoundStart(m, arg) PROVE Quiet \/ Starts
  <2>1. CASE UNCHANGED <<in_round, round_id, bufs>>
    BY <1>2, <2>1 DEF bufs, Quiet, Device
  <2>2. CASE /\ ~in_round /\ round_id < MaxRound /\ in_round' = TRUE
             /\ guessReady' = FALSE /\ feedbackReady' = FALSE
             /\ round_id' = round_id + 1
    BY <1>2, <2>2 DEF Starts
  <2> QED
    BY <1>4, <2>1, <2>2 DEF RoundStart, round
<1>5. ASSUME MakerRead(m) \/ MakerReadWoken(m) PROVE Quiet
  BY <1>2, <1>5 DEF MakerRead, MakerReadWoken, round, bufs, Quiet, Device
<1>6. ASSUME GetMyScore(m) PROVE Quiet \/ Outside
  BY <1>2, <1>6 DEF TypeOK, CallsTypeOK, GetMyScore, bufs, Quiet, Device, Outside
<1>7. ASSUME MakerRelease(m) PROVE Quiet \/ Outside
  BY <1>2, <1>7 DEF MakerRelease, ForgetRound, round, Quiet, Device, Outside
<1> QED
  BY <1>3, <1>4, <1>5, <1>6, <1>7
  DEF MakerSets, MakerStarts, MakerReads, MakerAnswers, MakerScores, MakerLeaves

\* Only a read that takes a feedback in a round returns 1.
LEMMA ReadKinds ==
    ASSUME TypeOK, NEW b \in Breaker,
           BreakerRead(b) \/ BreakerReadWoken(b)
    PROVE  \/ Done(b) /\ Taken
           \/ UNCHANGED Device /\ (Done(b) => ret'.val # 1)
<1>1. b \in Caller
  BY DEF Caller
<1>2. ASSUME TakeFeedback(b), in_round, feedbackReady PROVE Done(b) /\ Taken
  BY <1>1, <1>2 DEF TypeOK, CallsTypeOK, TakeFeedback, Return, Goto, Done, Taken
<1>3. ASSUME NEW v \in {-EIO, -EPERM, EOF}, Return(b, "read", v), UNCHANGED <<round, bufs>>
      PROVE  UNCHANGED Device /\ ret'.val # 1
  BY <1>3 DEF Return, Answer, round, bufs, Device, EIO, EPERM, EOF
<1>4. ASSUME SleepOn(b, "rdWait"), UNCHANGED <<round, bufs>>
      PROVE  UNCHANGED Device /\ ~Done(b)
  BY <1>1, <1>4 DEF TypeOK, CallsTypeOK, SleepOn, Goto, Done, round, bufs, Device
<1>5. CASE BreakerRead(b)
  BY <1>2, <1>3, <1>4, <1>5, PlayersAssumption DEF BreakerRead, CopyFeedback
<1>6. CASE BreakerReadWoken(b)
  <2>1. At(b, "rdWait") /\ Condition(b)
    BY <1>6 DEF BreakerReadWoken, Woken
  <2>2. feedbackReady
    BY <2>1, ConstantsAssumption DEF At, Condition
  <2> QED
    BY <1>2, <1>3, <1>6, <2>2, PlayersAssumption DEF BreakerReadWoken, CopyFeedback
<1> QED
  BY <1>5, <1>6

\* Only a write that puts its guess into the empty buffer returns 1.
LEMMA WriteKinds ==
    ASSUME TypeOK, NEW b \in Breaker,
           BreakerWrite(b) \/ BreakerWriteWoken(b)
    PROVE  \/ /\ in_round /\ ~guessReady /\ guessReady' /\ Done(b) /\ ret'.val = 1
              /\ UNCHANGED <<in_round, round_id, feedbackReady>>
           \/ UNCHANGED Device /\ ~(Done(b) /\ ret'.val = 1)
<1> DEFINE Put  == /\ guessReady' /\ Done(b) /\ ret'.val = 1
                   /\ UNCHANGED <<in_round, round_id, feedbackReady>>
           Kept == UNCHANGED Device /\ ~(Done(b) /\ ret'.val = 1)
<1>1. b \in Caller
  BY DEF Caller
<1>2. ASSUME NEW d, NEW g, AcceptGuess(b, d, g) PROVE Put
  <2>1. Return(b, "write", 1)
    BY <1>2 DEF AcceptGuess
  <2>2. Done(b) /\ ret'.val = 1
    BY <1>1, <2>1 DEF TypeOK, CallsTypeOK, Return, Goto, Answer, Done
  <2> QED
    BY <1>2, <2>2 DEF AcceptGuess
<1>3. ASSUME NEW v \in {-EIO, -EPERM, EOF, -EINVAL}, Return(b, "write", v)
      PROVE  ret'.val # 1
  BY <1>3 DEF Return, Answer, EIO, EPERM, EOF, EINVAL
<1>4. ASSUME NEW d, NEW g, RejectGuess(b, d, g) PROVE Kept
  BY <1>3, <1>4 DEF RejectGuess, round, Device
<1>5. ASSUME SleepOn(b, "wrWait"), UNCHANGED <<round, bufs>> PROVE Kept
  BY <1>1, <1>5 DEF TypeOK, CallsTypeOK, SleepOn, Goto, Done, round, bufs, Device
<1>6. ASSUME NEW v \in {-EIO, -EPERM, EOF}, Return(b, "write", v),
             UNCHANGED <<round, bufs>>
      PROVE  Kept
  BY <1>3, <1>6 DEF round, bufs, Device
<1>7. ASSUME NEW d, CopyGuess(b, d) PROVE Put \/ Kept
  BY <1>2, <1>4, <1>7, PlayersAssumption DEF CopyGuess, WriteGuess
<1> HIDE DEF Put, Kept
<1>8. CASE BreakerWrite(b)
  <2>1. CASE CopyGuess(b, Refreshed(b)) /\ ~RoundOver /\ ~guessReady
    BY <1>7, <2>1 DEF RoundOver, Put, Kept
  <2>2. CASE Kept
    BY <2>2 DEF Kept
  <2> QED
    BY <1>5, <1>6, <1>8, <2>1, <2>2 DEF BreakerWrite
<1>9. CASE BreakerWriteWoken(b)
  <2>1. At(b, "wrWait") /\ Condition(b)
    BY <1>9 DEF BreakerWriteWoken, Woken
  <2>2. ~guessReady
    BY <2>1 DEF At, Condition
  <2>3. CASE CopyGuess(b, private_data(b)) /\ ~RoundOver
    BY <1>7, <2>2, <2>3 DEF RoundOver, Put, Kept
  <2>4. CASE Kept
    BY <2>4 DEF Kept
  <2> QED
    BY <1>6, <1>9, <2>3, <2>4 DEF BreakerWriteWoken
<1> QED
  BY <1>8, <1>9

\* Every step is of one of the kinds.
LEMMA Kinds ==
    ASSUME TypeOK, ClientsOK, [PlayersNext]_players
    PROVE  \/ Quiet \/ Starts \/ Outside \/ Posts
           \/ \E b \in Breaker : Puts(b) \/ Takes(b)
<1>1. CASE UNCHANGED players
  BY <1>1 DEF players, vars, round, bufs, Quiet, Device, Readers
<1>2. ASSUME NEW f \in Caller, MakerOpens(f) \/ BreakerOpens(f) PROVE Quiet
  <2>1. Readers' \subseteq Readers
    BY <1>2, NoNewReader DEF MakerOpens, BreakerOpens
  <2> QED
    BY <1>2, <2>1 DEF MakerOpens, BreakerOpens, Open, round, bufs, Quiet, Device
<1>3. ASSUME NEW b \in Breaker, BreakerQuits(b) PROVE Quiet
  <2>1. Readers' \subseteq Readers
    BY <1>3, NoNewReader DEF BreakerQuits, Caller
  <2> QED
    BY <1>3, <2>1 DEF BreakerQuits, BreakerRelease, bufs, Quiet, Device
<1>4. ASSUME NEW f \in Caller, SleepsAgain(f) PROVE Quiet
  BY <1>4 DEF SleepsAgain, SleepAgain, round, bufs, Quiet, Device, Readers
<1>5. ASSUME NEW b \in Breaker, BreakerReads(b) PROVE Quiet \/ Outside \/ Takes(b)
  <2>1. Readers' \subseteq Readers /\ owner' = owner
    BY <1>5, NoNewReader DEF BreakerReads, Caller
  <2>2. CASE UNCHANGED Device
    BY <2>1, <2>2 DEF Quiet
  <2>3. CASE Done(b) /\ Taken
    <3>1. todo'[b] = "write"
      BY <1>5, <2>3 DEF BreakerReads, Then, ClientsOK, Caller
    <3>2. b \in Readers /\ Readers' \subseteq Readers \ {b}
      BY <1>5, <2>1, <3>1 DEF BreakerReads, Readers
    <3> QED
      BY <2>1, <2>3, <3>2 DEF Taken, Takes, Outside
  <2> QED
    BY <1>5, <2>2, <2>3, ReadKinds DEF BreakerReads
<1>6. ASSUME NEW b \in Breaker, BreakerWrites(b) PROVE Quiet \/ Puts(b)
  <2>1. CASE UNCHANGED Device /\ ~(Done(b) /\ ret'.val = 1)
    <3>1. Readers' \subseteq Readers
      BY <1>6, <2>1, NoNewReader DEF BreakerWrites, Caller
    <3> QED
      BY <1>6, <2>1, <3>1 DEF BreakerWrites, Quiet
  <2>2. CASE /\ in_round /\ ~guessReady /\ guessReady' /\ Done(b) /\ ret'.val = 1
             /\ UNCHANGED <<in_round, round_id, feedbackReady>>
    <3>1. Readers' \subseteq Readers \cup {b}
      BY <1>6, OneNewReader DEF BreakerWrites
    <3> QED
      BY <1>6, <2>2, <3>1 DEF BreakerWrites, Puts
  <2> QED
    BY <1>6, <2>1, <2>2, WriteKinds DEF BreakerWrites
<1> QED
  BY <1>1, <1>2, <1>3, <1>4, <1>5, <1>6, MakerKinds DEF PlayersNext, Proceeds

-----------------------------------------------------------------------------
(* One round.                                                              *)

\* A Codebreaker that has not read its feedback yet has its guess in the
\* buffer.  Nobody else can take the guess away, and none is left over from an
\* earlier round, since there is none.
InFirstRound ==
    /\ round_id = 0 => ~in_round /\ Readers = {}
    /\ in_round => \A b \in Readers : guessReady /\ owner = b

LEMMA FirstRoundStep ==
    ASSUME MaxRound \in 0..1, TypeOK, ClientsOK, InFirstRound,
           [PlayersNext]_players
    PROVE  InFirstRound'
<1>1. round_id \in Nat /\ Readers \subseteq Breaker
  BY DEF TypeOK, CallsTypeOK, Readers
<1>2. CASE Quiet
  BY <1>2 DEF Quiet, Device, InFirstRound
<1>3. CASE Starts
  BY <1>1, <1>3 DEF Starts, InFirstRound
<1>4. CASE Outside
  BY <1>4 DEF Outside, InFirstRound
<1>5. CASE Posts
  BY <1>5 DEF Posts, InFirstRound
<1>6. ASSUME NEW b \in Breaker, Puts(b) PROVE InFirstRound'
  BY <1>6 DEF Puts, InFirstRound
<1>7. ASSUME NEW b \in Breaker, Takes(b) PROVE InFirstRound'
  BY <1>7 DEF Takes, InFirstRound
<1> QED
  BY <1>2, <1>3, <1>4, <1>5, <1>6, <1>7, Kinds

LEMMA FirstRound ==
    ASSUME MaxRound \in 0..1
    PROVE  PlayersSafe => [](TypeOK /\ ClientsOK /\ InFirstRound)
<1>1. PlayersInit => InFirstRound
  BY DEF PlayersInit, Init, CallsInit, InFirstRound, Readers, Caller
<1>2. TypeOK /\ ClientsOK /\ InFirstRound /\ [PlayersNext]_players => InFirstRound'
  BY FirstRoundStep
<1>3. PlayersSafe => [](TypeOK /\ ClientsOK)
  <2>1. PlayersTypeOK => TypeOK /\ ClientsOK
    BY DEF PlayersTypeOK, ClientsOK
  <2> QED
    BY <2>1, PlayersTypes, PTL
<1> QED
  BY <1>1, <1>2, <1>3, PTL DEF PlayersSafe

\* The device, in one round with its clients, implements the slot, up to the
\* fairness of the slot (refinement of the guess and feedback buffers).
THEOREM DeviceIsSlot ==
    ASSUME MaxRound \in 0..1 PROVE PlayersSafe => S!Safe
<1>1. PlayersInit => S!Init
  BY DEF PlayersInit, Init, CallsInit, S!Init
<1>2. ASSUME TypeOK, ClientsOK, InFirstRound, [PlayersNext]_players
      PROVE  [S!Next]_S!slotVars
  <2>1. in_round \in BOOLEAN /\ in_round' \in BOOLEAN
    BY <1>2, PlaysDriver, TypeStep DEF TypeOK, CallsTypeOK
  <2>2. CASE Quiet
    BY <2>2 DEF Quiet, Device, S!slotVars
  <2>3. CASE Starts
    BY <2>3 DEF Starts, S!Next, S!Start, S!Emptied
  <2>4. CASE Outside
    BY <2>1, <2>4 DEF Outside, S!Next, S!End, S!Emptied, S!slotVars
  <2>5. CASE Posts
    BY <2>5 DEF Posts, S!Next, S!Post
  <2>6. ASSUME NEW b \in Breaker, Puts(b) PROVE S!Next
    BY <2>6 DEF Puts, S!Next, S!Put
  <2>7. ASSUME NEW b \in Breaker, Takes(b) PROVE S!Next
    BY <1>2, <2>7 DEF Takes, InFirstRound, S!Next, S!Take, S!Emptied
  <2> QED
    BY <1>2, <2>2, <2>3, <2>4, <2>5, <2>6, <2>7, Kinds
<1> QED
  BY <1>1, <1>2, FirstRound, PTL DEF PlayersSafe, S!Safe

\* In one round no Codebreaker reads the feedback of another one's guess, for
\* any numbers of Codebreakers, turns and codes.
THEOREM FeedbackOfOwnGuess ==
    ASSUME MaxRound \in 0..1 PROVE PlayersSafe => FeedbackIsOwn
<1> DEFINE Own == \A b \in Breaker :
                     todo[b] = "read" /\ todo'[b] # "read" /\ ret'.val = 1 => owner = b
<1>1. ASSUME TypeOK, ClientsOK, InFirstRound, PlayersNext, NEW b \in Breaker,
             todo[b] = "read", todo'[b] # "read", ret'.val = 1
      PROVE  owner = b
  <2>1. ASSUME NEW f \in Caller, NEW next, Then(f, next), todo[f] # "read" \/ f \in Maker
        PROVE  FALSE
    BY <1>1, <2>1, ConstantsAssumption DEF Then, ClientsOK, Caller
  <2>2. ASSUME NEW m \in Maker,
               MakerOpens(m) \/ MakerSets(m) \/ MakerStarts(m) \/ MakerReads(m)
               \/ MakerAnswers(m) \/ MakerScores(m) \/ MakerLeaves(m)
        PROVE  FALSE
    BY <2>1, <2>2
    DEF MakerOpens, MakerSets, MakerStarts, MakerReads, MakerAnswers, MakerScores,
        MakerLeaves, Caller
  <2>3. ASSUME NEW c \in Breaker, BreakerOpens(c) \/ BreakerWrites(c) \/ BreakerQuits(c)
        PROVE  FALSE
    BY <2>1, <2>3 DEF BreakerOpens, BreakerWrites, BreakerQuits, Caller
  <2>4. ASSUME NEW f \in Caller, SleepsAgain(f) PROVE FALSE
    BY <1>1, <2>4 DEF SleepsAgain
  <2>5. PICK c \in Breaker : BreakerReads(c)
    BY <1>1, <2>2, <2>3, <2>4 DEF PlayersNext, Proceeds
  <2>6. c = b /\ Done(c)
    BY <1>1, <2>5 DEF BreakerReads, Then, ClientsOK, Caller
  <2>7. in_round
    BY <1>1, <2>5, <2>6, ReadKinds DEF BreakerReads, Taken
  <2> QED
    BY <1>1, <2>7 DEF InFirstRound, Readers
<1>2. TypeOK /\ ClientsOK /\ InFirstRound /\ [PlayersNext]_players => [Own]_players
  BY <1>1
<1> QED
  BY <1>2, FirstRound, PTL DEF PlayersSafe, FeedbackIsOwn

-----------------------------------------------------------------------------
(* The guesses that a Codebreaker gets in a round.                         *)

\* The turns of b are those of an earlier round.
Stale(b) == data[b].round_id # round_id

\* What b has used and what it has left make up its turns and at most one more.
\* A Codebreaker with stale turns has made at most one guess in this round, and
\* none if it is still in the write that may make it.
Budget(b) ==
    /\ used[b] \in 0..(NUM_TURNS + 1)
    /\ data[b].round_id <= round_id
    /\ todo[b] = "open" => used[b] = 0
    /\ pc[b] # "closed" =>
          /\ ~Stale(b) => used[b] + data[b].turns <= NUM_TURNS + 1
          /\ Stale(b) => used[b] <= 1 /\ (At(b, "wrWait") => used[b] = 0)

-----------------------------------------------------------------------------
(* What a step does to one Codebreaker.                                    *)

Keeps(b) ==
    /\ UNCHANGED <<data[b], used[b], round_id>>
    /\ (pc'[b] = "wrWait" => pc[b] = "wrWait") /\ (pc[b] = "closed" => pc'[b] = "closed")
    /\ todo'[b] = "open" => todo[b] = "open"

\* The private data of b is saved, refilled if it is going to wait in write.
Refills(b) ==
    /\ UNCHANGED <<used[b], round_id>> /\ pc[b] # "closed"
    /\ data'[b] \in {data[b], Refreshed(b)}
    /\ pc'[b] = "wrWait" => data'[b] = Refreshed(b)
    /\ todo'[b] # "open"

\* A guess of b is accepted, for a turn of this round or of the one in which
\* the write began.
Guesses(b) ==
    /\ used'[b] = used[b] + 1 /\ UNCHANGED round_id /\ pc[b] # "closed"
    /\ \E d \in {data[b], Refreshed(b)} :
          /\ d = Refreshed(b) \/ At(b, "wrWait")
          /\ d.turns > 0
          /\ data'[b].turns = d.turns - 1 /\ data'[b].round_id = d.round_id
    /\ pc'[b] # "wrWait" /\ todo'[b] # "open"

Enters(b) ==
    /\ todo[b] = "open" /\ UNCHANGED <<used[b], round_id>>
    /\ data'[b] = Fresh(b) /\ pc'[b] # "wrWait"

Leaves(b) ==
    /\ UNCHANGED <<used[b], round_id>>
    /\ data'[b].round_id = 0 /\ pc'[b] = "closed" /\ todo'[b] # "open"

NewRound(b) ==
    /\ round_id' = round_id + 1 /\ used'[b] = 0
    /\ UNCHANGED <<data[b], pc[b], todo[b]>>

LEMMA BudgetStep ==
    ASSUME TypeOK, ClientsOK, TurnInHand, NEW b \in Breaker, Budget(b),
           \/ Keeps(b) \/ Refills(b) \/ Guesses(b)
           \/ Enters(b) \/ Leaves(b) \/ NewRound(b)
    PROVE  Budget(b)'
<1> USE DEF Budget, Stale, At
<1>1. /\ b \in Caller /\ data[b] \in PrivateData /\ round_id \in Nat
      /\ used[b] \in Nat /\ data[b].turns \in 0..NUM_TURNS
      /\ NUM_TURNS \in Nat \ {0}
  <2>1. b \in Breaker \cap File /\ b \in Breaker \cap Sole
    BY Alone
  <2>2. data[b].turns <= NUM_TURNS /\ data[b].turns >= 0
    BY <2>1 DEF TurnInHand
  <2>3. data[b].turns \in Int
    BY <2>1, TurnsOf
  <2> QED
    BY <2>1, <2>2, <2>3, ConstantsAssumption, Alone
    DEF TypeOK, CallsTypeOK, ClientsOK
<1>2. /\ data[b].round_id \in Nat /\ data[b].turns \in Nat
  BY <1>1 DEF PrivateData
<1>3. /\ Refreshed(b).round_id = round_id
      /\ Refreshed(b).turns = IF Stale(b) THEN NUM_TURNS ELSE data[b].turns
  BY <1>1, Alone DEF Refreshed, Data
<1>4. CASE Keeps(b)
  BY <1>1, <1>2, <1>4 DEF Keeps
<1>5. CASE Refills(b)
  BY <1>1, <1>2, <1>3, <1>5 DEF Refills
<1>6. CASE Guesses(b)
  <2>1. PICK d \in {data[b], Refreshed(b)} :
          /\ d = Refreshed(b) \/ At(b, "wrWait")
          /\ d.turns > 0
          /\ data'[b].turns = d.turns - 1 /\ data'[b].round_id = d.round_id
    BY <1>6 DEF Guesses
  <2>2. d.turns \in Nat /\ d.round_id \in Nat /\ d.round_id <= round_id
    BY <1>1, <1>2, <1>3
  <2>3. CASE d.round_id = round_id
    <3>1. used[b] + d.turns <= NUM_TURNS + 1
      BY <1>1, <1>2, <1>3, <1>6, <2>1, <2>3 DEF Guesses
    <3> QED
      BY <1>1, <1>6, <2>1, <2>2, <2>3, <3>1 DEF Guesses
  <2>4. CASE d.round_id # round_id
    <3>1. Stale(b) /\ At(b, "wrWait")
      BY <1>3, <2>1, <2>4
    <3>2. used[b] = 0
      BY <3>1
    <3> QED
      BY <1>1, <1>6, <2>1, <2>2, <2>4, <3>2 DEF Guesses
  <2> QED
    BY <2>3, <2>4
<1>7. CASE Enters(b)
  BY <1>1, <1>7 DEF Enters, Fresh, Data
<1>8. CASE Leaves(b)
  BY <1>1, <1>8 DEF Leaves
<1>9. CASE NewRound(b)
  BY <1>1, <1>2, <1>9 DEF NewRound
<1> QED
  BY <1>4, <1>5, <1>6, <1>7, <1>8, <1>9

-----------------------------------------------------------------------------
(* Every step is one of these for every Codebreaker.                       *)

AnyOf(b) == \/ Keeps(b) \/ Refills(b) \/ Guesses(b)
            \/ Enters(b) \/ Leaves(b) \/ NewRound(b)

\* Where a call moves to, and what it saves.
LEMMA Moves ==
    ASSUME TypeOK, NEW f \in Caller
    PROVE  /\ \A l : Goto(f, l) => pc'[f] = l /\ \A g \in Caller \ {f} : pc'[g] = pc[g]
           /\ \A d : Save(f, d) => data'[f] = d /\ \A g \in Caller \ {f} : data'[g] = data[g]
BY Alone DEF TypeOK, CallsTypeOK, Goto, Save

LEMMA Thens ==
    ASSUME ClientsOK, NEW f \in Caller, NEW next, Then(f, next)
    PROVE  /\ \A g \in Caller \ {f} : todo'[g] = todo[g]
           /\ todo'[f] = IF Done(f) THEN next ELSE todo[f]
BY DEF ClientsOK, Then

\* A Codemaker's call, and the wake-ups, leave a Codebreaker as it is, but for
\* the start of a round.
LEMMA MakerKeeps ==
    ASSUME TypeOK, ClientsOK, NEW b \in Breaker, NEW m \in Maker,
           MakerOpens(m) \/ MakerSets(m) \/ MakerReads(m) \/ MakerAnswers(m)
           \/ MakerScores(m) \/ MakerLeaves(m)
    PROVE  Keeps(b)
<1>1. m \in Caller /\ b \in Caller \ {m}
  BY ConstantsAssumption DEF Caller
<1>2. todo'[b] = todo[b] /\ used' = used
  BY <1>1, Thens
  DEF MakerOpens, MakerSets, MakerReads, MakerAnswers, MakerScores, MakerLeaves
<1>3. ASSUME UNCHANGED round_id, pc' = pc \/ \E l : Goto(m, l),
             data' = data \/ \E d : Save(m, d)
      PROVE  Keeps(b)
  BY <1>1, <1>2, <1>3, Moves DEF Keeps
<1> USE DEF Return, round
<1>4. CASE Open(m)
  BY <1>3, <1>4 DEF Open, Enrol, SleepIn
<1>5. CASE MakerWrite(m)
  BY <1>3, <1>5 DEF MakerWrite, SetPassword, SetFeedback, SleepIn
<1>6. CASE MakerRead(m) \/ MakerReadWoken(m)
  BY <1>3, <1>6 DEF MakerRead, MakerReadWoken, CopyOut, SleepOn
<1>7. CASE GetMyScore(m)
  BY <1>3, <1>7 DEF GetMyScore
<1>8. CASE MakerRelease(m)
  BY <1>3, <1>8 DEF MakerRelease, Gone
<1> QED
  BY <1>4, <1>5, <1>6, <1>7, <1>8
  DEF MakerOpens, MakerSets, MakerReads, MakerAnswers, MakerScores, MakerLeaves

LEMMA RoundKeeps ==
    ASSUME TypeOK, ClientsOK, NEW b \in Breaker, NEW m \in Maker, MakerStarts(m)
    PROVE  Keeps(b) \/ NewRound(b)
<1>1. m \in Caller /\ b \in Caller \ {m}
  BY ConstantsAssumption DEF Caller
<1>2. PICK arg \in Arg : RoundStart(m, arg)
  BY DEF MakerStarts
<1>3. UNCHANGED <<todo[b], pc[b], data[b]>>
  <2>1. (\E v : Return(m, "ROUND_START", v)) /\ data' = data
    BY <1>2 DEF RoundStart
  <2> QED
    BY <1>1, <2>1, Moves, Thens DEF MakerStarts, Return
<1>4. CASE UNCHANGED round_id /\ ret'.val # 1
  BY <1>3, <1>4 DEF MakerStarts, Keeps, ClientsOK
<1>5. CASE round_id' = round_id + 1 /\ ret'.val = 1
  BY <1>3, <1>5 DEF MakerStarts, NewRound
<1> QED
  BY <1>2, <1>4, <1>5 DEF RoundStart, Return, Answer, round, EPERM, EINVAL, EBUSY

\* So do the calls of the other Codebreakers.
LEMMA OthersKeep ==
    ASSUME TypeOK, ClientsOK, NEW b \in Breaker, NEW c \in Breaker \ {b},
           BreakerOpens(c) \/ BreakerWrites(c) \/ BreakerReads(c) \/ BreakerQuits(c)
    PROVE  Keeps(b)
<1>1. c \in Caller /\ b \in Caller \ {c}
  BY DEF Caller
<1>2. todo'[b] = todo[b] /\ used'[b] = used[b]
  BY <1>1, Thens
  DEF BreakerOpens, BreakerWrites, BreakerReads, BreakerQuits, ClientsOK
<1>3. ASSUME UNCHANGED round_id, pc' = pc \/ \E l : Goto(c, l),
             data' = data \/ \E d : Save(c, d)
      PROVE  Keeps(b)
  BY <1>1, <1>2, <1>3, Moves DEF Keeps
<1> USE DEF Return, round
<1>4. CASE Open(c)
  BY <1>3, <1>4 DEF Open, Enrol, SleepIn
<1>5. CASE BreakerRead(c) \/ BreakerReadWoken(c)
  BY <1>3, <1>5 DEF BreakerRead, BreakerReadWoken, CopyFeedback, TakeFeedback,
                    SleepIn, SleepOn
<1>6. CASE BreakerWrite(c) \/ BreakerWriteWoken(c)
  BY <1>3, <1>6 DEF BreakerWrite, BreakerWriteWoken, CopyGuess, WriteGuess, RejectGuess,
                    AcceptGuess, SleepIn, SleepOn
<1>7. CASE BreakerRelease(c)
  BY <1>3, <1>7 DEF BreakerRelease, Gone
<1> QED
  BY <1>4, <1>5, <1>6, <1>7
  DEF BreakerOpens, BreakerWrites, BreakerReads, BreakerQuits

LEMMA OwnOpen ==
    ASSUME TypeOK, ClientsOK, NEW b \in Breaker, BreakerOpens(b)
    PROVE  Keeps(b) \/ Enters(b)
<1>1. b \in Caller /\ todo[b] = "open" /\ used' = used /\ round_id' = round_id
  BY DEF BreakerOpens, Open, round, Caller
<1>2. CASE Enrol(b)
  BY <1>1, <1>2, Moves DEF Enrol, Return, Enters
<1>3. CASE UNCHANGED <<data, pc>>
  BY <1>1, <1>3 DEF Keeps
<1> QED
  BY <1>2, <1>3, PlayersAssumption DEF BreakerOpens, Open

LEMMA OwnRead ==
    ASSUME TypeOK, ClientsOK, NEW b \in Breaker, BreakerReads(b)
    PROVE  Refills(b)
<1>1. b \in Caller /\ todo[b] = "read" /\ used' = used
  BY DEF BreakerReads, Caller
<1>2. todo'[b] # "open"
  BY <1>1, Thens DEF BreakerReads
<1>3. pc[b] # "closed" /\ round_id' = round_id
  BY DEF BreakerReads, BreakerRead, BreakerReadWoken, Woken, Ready, At, CopyFeedback,
         TakeFeedback, round
<1>4. data'[b] \in {data[b], Refreshed(b)}
  BY <1>1, Moves DEF BreakerReads, BreakerRead, BreakerReadWoken
<1>5. \E l \in {"idle", "rdWait", "rdCopy"} : Goto(b, l)
  BY DEF BreakerReads, BreakerRead, BreakerReadWoken, CopyFeedback, TakeFeedback,
         Return, SleepOn, SleepIn
<1>6. pc'[b] # "wrWait"
  BY <1>1, <1>5, Moves
<1> QED
  BY <1>1, <1>2, <1>3, <1>4, <1>6 DEF Refills

LEMMA OwnQuit ==
    ASSUME TypeOK, ClientsOK, NEW b \in Breaker, BreakerQuits(b)
    PROVE  Leaves(b)
<1>1. b \in Caller /\ used' = used /\ round_id' = round_id
  BY DEF BreakerQuits, BreakerRelease, Caller
<1>2. pc'[b] = "closed" /\ data'[b] = NoData
  BY <1>1, Moves DEF BreakerQuits, BreakerRelease, Gone
<1>3. todo'[b] # "open"
  BY <1>1, <1>2, Thens DEF BreakerQuits, Done
<1> QED
  BY <1>1, <1>2, <1>3 DEF Leaves, NoData, Data

LEMMA OwnWrite ==
    ASSUME TypeOK, ClientsOK, TurnInHand, NEW b \in Breaker, BreakerWrites(b)
    PROVE  Refills(b) \/ Guesses(b)
<1>1. b \in Caller /\ todo[b] = "write"
  BY DEF BreakerWrites, Caller
<1>2. todo'[b] # "open"
  BY <1>1, Thens DEF BreakerWrites
<1>3. pc[b] # "closed"
  BY DEF BreakerWrites, BreakerWrite, BreakerWriteWoken, Woken, Ready, At
<1>4. used' = [used EXCEPT ![b] = IF Done(b) /\ ret'.val = 1 THEN @ + 1 ELSE @]
  BY DEF BreakerWrites
<1>5. ASSUME NEW d \in {data[b], Refreshed(b)}, NEW g, AcceptGuess(b, d, g),
             d = Refreshed(b) \/ At(b, "wrWait"), d.turns > 0
      PROVE  Guesses(b)
  <2>1. /\ Return(b, "write", 1) /\ round_id' = round_id
        /\ \E won : Save(b, Scored(Data(d.turns - 1, d.score, d.round_id), won))
    BY <1>5 DEF AcceptGuess
  <2>2. pc'[b] = "idle" /\ Done(b) /\ ret'.val = 1
    BY <1>1, <2>1, Moves DEF Return, Answer, Done
  <2>3. data'[b].turns = d.turns - 1 /\ data'[b].round_id = d.round_id
    BY <1>1, <2>1, Moves DEF Scored, Data
  <2>4. used'[b] = used[b] + 1
    BY <1>4, <2>2 DEF ClientsOK
  <2> QED
    BY <1>2, <1>3, <1>5, <2>1, <2>2, <2>3, <2>4 DEF Guesses
<1>6. ASSUME UNCHANGED round_id, ret'.val # 1 \/ ~Done(b),
             data'[b] \in {data[b], Refreshed(b)},
             pc'[b] = "wrWait" => data'[b] = Refreshed(b)
      PROVE  Refills(b)
  BY <1>2, <1>3, <1>4, <1>6 DEF Refills, ClientsOK
<1>7. ASSUME NEW v \in {-EIO, -EPERM, EOF, -EINVAL}, Return(b, "write", v)
      PROVE  ret'.val # 1 /\ pc'[b] = "idle"
  BY <1>1, <1>7, Moves DEF Return, Answer, EIO, EPERM, EOF, EINVAL
<1>8. ASSUME NEW d \in {data[b], Refreshed(b)}, NEW g, RejectGuess(b, d, g)
      PROVE  Refills(b)
  <2>1. Return(b, "write", -EINVAL) /\ Save(b, d) /\ round_id' = round_id
    BY <1>8 DEF RejectGuess, round
  <2> QED
    BY <1>1, <1>6, <1>7, <2>1, Moves
<1>9. CASE BreakerWrite(b)
  <2>1. ASSUME ~Exhausted(Refreshed(b).turns) PROVE Refreshed(b).turns > 0
    <3>1. b \in Breaker \cap File /\ b \in Breaker \cap Sole
      BY Alone
    <3>2. data[b].turns >= 0 /\ data[b].turns \in Int /\ NUM_TURNS \in Nat \ {0}
      BY <3>1, TurnsOf, ConstantsAssumption DEF TurnInHand
    <3>3. Refreshed(b).turns \in {data[b].turns, NUM_TURNS}
      BY <1>1, RefreshedTurns, Alone
    <3> QED
      BY <2>1, <3>2, <3>3 DEF Exhausted
  <2>2. CASE CopyGuess(b, Refreshed(b)) /\ ~Exhausted(Refreshed(b).turns)
    BY <1>5, <1>8, <2>1, <2>2, PlayersAssumption DEF CopyGuess, WriteGuess
  <2>3. CASE /\ \E v \in {-EIO, -EPERM, EOF} : Return(b, "write", v)
             /\ Save(b, Refreshed(b)) \/ UNCHANGED data
             /\ UNCHANGED round
    BY <1>1, <1>6, <1>7, <2>3, Moves DEF round
  <2>4. CASE Save(b, Refreshed(b)) /\ SleepOn(b, "wrWait") /\ UNCHANGED round
    <3>1. data'[b] = Refreshed(b) /\ ~Done(b)
      BY <1>1, <2>4, Moves DEF SleepOn, Done
    <3> QED
      BY <1>6, <2>4, <3>1 DEF round
  <2> QED
    BY <1>9, <2>2, <2>3, <2>4 DEF BreakerWrite
<1>10. CASE BreakerWriteWoken(b)
  <2>1. At(b, "wrWait") /\ data[b].turns > 0
    <3>1. b \in Breaker \cap Sole
      BY Alone
    <3>2. pc[b] = "wrWait"
      BY <1>10 DEF BreakerWriteWoken, Woken, At
    <3> QED
      BY <3>1, <3>2 DEF TurnInHand, At
  <2>2. CASE CopyGuess(b, private_data(b))
    <3>1. CopyGuess(b, data[b])
      BY <1>1, <2>2, Alone
    <3> QED
      BY <1>5, <1>8, <2>1, <3>1, PlayersAssumption DEF CopyGuess, WriteGuess
  <2>3. CASE Return(b, "write", -EIO) /\ UNCHANGED <<round, data>>
    BY <1>6, <1>7, <2>3 DEF round
  <2> QED
    BY <1>10, <2>2, <2>3 DEF BreakerWriteWoken
<1> QED
  BY <1>9, <1>10 DEF BreakerWrites

LEMMA EveryStep ==
    ASSUME TypeOK, ClientsOK, TurnInHand, [PlayersNext]_players, NEW b \in Breaker
    PROVE  AnyOf(b)
<1> USE DEF AnyOf
<1>1. CASE UNCHANGED players
  BY <1>1 DEF players, vars, round, Keeps
<1>2. ASSUME NEW f \in Caller, SleepsAgain(f) PROVE Keeps(b)
  BY <1>2 DEF SleepsAgain, SleepAgain, round, Keeps
<1>3. ASSUME NEW m \in Maker,
             MakerOpens(m) \/ MakerSets(m) \/ MakerStarts(m) \/ MakerReads(m)
             \/ MakerAnswers(m) \/ MakerScores(m) \/ MakerLeaves(m)
      PROVE  AnyOf(b)
  BY <1>3, MakerKeeps, RoundKeeps
<1>4. ASSUME NEW c \in Breaker,
             BreakerOpens(c) \/ BreakerWrites(c) \/ BreakerReads(c) \/ BreakerQuits(c)
      PROVE  AnyOf(b)
  <2>1. CASE c = b
    BY <1>4, <2>1, OwnOpen, OwnRead, OwnWrite, OwnQuit
  <2>2. CASE c # b
    BY <1>4, <2>2, OthersKeep
  <2> QED
    BY <2>1, <2>2
<1> QED
  BY <1>1, <1>2, <1>3, <1>4 DEF PlayersNext, Proceeds

\* Over any number of rounds no Codebreaker gets more than one guess beyond its
\* turns in a round.
THEOREM AtMostOneGuessTooMany == PlayersSafe => []OneGuessTooMany
<1> DEFINE Inv == \A b \in Breaker : Budget(b)
<1>1. PlayersInit => Inv
  <2> SUFFICES ASSUME PlayersInit, NEW b \in Breaker PROVE Budget(b)
    OBVIOUS
  <2>1. b \in Caller /\ NUM_TURNS \in Nat
    BY ConstantsAssumption DEF Caller
  <2>2. used[b] = 0 /\ data[b].round_id = 0 /\ round_id = 0 /\ pc[b] = "closed"
    BY <2>1, PlayersAssumption, Alone DEF PlayersInit, Init, CallsInit, NoData, Data
  <2> QED
    BY <2>1, <2>2 DEF Budget
<1>2. TypeOK /\ ClientsOK /\ TurnInHand /\ Inv /\ [PlayersNext]_players => Inv'
  BY EveryStep, BudgetStep DEF AnyOf
<1>3. Inv => OneGuessTooMany
  <2> SUFFICES ASSUME Inv, NEW b \in Breaker PROVE used[b] <= NUM_TURNS + 1
    BY DEF OneGuessTooMany
  <2> QED
    BY ConstantsAssumption DEF Budget
<1>4. PlayersSafe => [](TypeOK /\ ClientsOK)
  <2>1. PlayersTypeOK => TypeOK /\ ClientsOK
    BY DEF PlayersTypeOK, ClientsOK
  <2> QED
    BY <2>1, PlayersTypes, PTL
<1>5. PlayersSafe => []TurnInHand
  BY PlayersAreProcesses, TurnsInHand, PTL
<1> QED
  BY <1>1, <1>2, <1>3, <1>4, <1>5, PTL DEF PlayersSafe
=============================================================================
