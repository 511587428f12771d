# Mastermind device: TLA+ models, checks and proofs

The repository is a Linux 2.4 character driver, `src/mastermind.c`, through which
processes play Mastermind: a *Codemaker* (minor number 0) writes a password and
answers guesses, *Codebreakers* (minor number 1) write guesses and read the
answers. Its global variables are shared by all of them, and its handlers sleep.

## 1. Inventory

| Part | State | Operations | Interacts with |
|---|---|---|---|
| Driver, `src/mastermind.c` | `in_round`, `round_id`, `colour_range`, `maker_won`, `breaker_won`; `passwordBuf`, `guessBuf`, `passwordReady`, `guessReady`, `feedbackReady`; three counters; per open file `turns`, `score`, `round_id` | `open`, `release`, `read`, `write`, `ioctl` (`ROUND_START`, `GET_MY_SCORE`), `llseek` | its callers; the wait queue `wq`; `generateFeedback` |
| `generateFeedback`, `src/mastermind.h` | its locals and the caller's 4-byte buffer | one call | called by `read` and `write` |
| Wait queue and user copies (Linux) | sleepers of `wq` | `wait_event_interruptible`, `wake_up_interruptible`, signals, `get_user`, `put_user`, `kmalloc` | every handler that may sleep |
| Lock `spin_lock` | free or held | `spin_lock`, `spin_unlock` | every handler (no effect in the build modelled, see 2) |
| `init_module`, `cleanup_module` | all of the above | load, unload | the kernel |
| Clients: `main.c`, `test1_files/test.c`, `test2_files/HW4Test.cpp` | their scripts and expected scores; the mutex, condition variables and counters of `ConcurrentGameTest` | sequences of calls, by processes and threads | the driver, and one another |
| Older driver, `mastermind - Single Core - ...c` | as the driver, with the flag `codemaker_exists` and without the flags of who won | the same handlers | as the driver |
| `examples/`, build files, scripts | - | - | not part of the running system |

What is hard in this code:

- **Interleaving.** All callers share one guess slot, one feedback flag and one
  wait queue. A handler that has slept must look again at everything it tested
  before; several of them do so only in part.
- **Sleeping where it is not obvious.** `kmalloc(GFP_KERNEL)` in `open` and every
  `get_user`/`put_user` may give up the processor between a check and the
  assignment that relies on it.
- **Two ledgers for one fact.** A file's `turns` are refilled lazily, when its
  owner next calls; `num_of_codebrakers_playing` is kept eagerly and is not
  raised again by a new round.
- **Lazy endings.** A round is over when any of `~in_round`, `maker_won`,
  `breaker_won` holds, and different handlers look at different ones of the three.
- **Descriptors that are shared.** Threads, and the sons of a process that forks
  (HW4Test.cpp, 270 and 318), use one `struct file`: several calls run on the same
  `private_data`, and no handler expects that.
- **A close that cannot be refused.** The kernel ignores what `release` returns.
- **Wake-ups.** Whoever makes a sleeper's condition true has to wake the queue, and
  a sleeper is told only what its condition looks at.
- **Clients that rely on more than the driver gives.** The tests agree on rounds
  by variables of their own, next to those of the driver.

What makes the parts correct: the counters agree with the files; a file's turns
stay within bounds and a guess always has a turn to spend; a round has a password
and keeps it; one Codemaker; a guess is answered before it is replaced; one winner
per round; no sleeper misses what it waits for; `generateFeedback` stays inside
its buffer and recognises the password. `PROJECT.json` lists the hazards line by
line with the properties that watch them, or with the reason why none does.

## 2. What is modelled and how

| Module | What it is | Extends or instantiates |
|---|---|---|
| `Calls` | open files, and how a call moves, sleeps, is woken and returns | - |
| `Mastermind` | the driver `mastermind.c` | `Calls` |
| `MastermindDoc` | claims of comments and tests about it | `Mastermind` |
| `Feedback` | `generateFeedback` | - |
| `SingleCore` | the older driver | `Calls` |
| `Slot` | abstract: the place a guess goes through | - |
| `Players` | the driver with clients that play; implements `Slot` | `Mastermind`, `Slot` |
| `Scripts` | the driver with `main.c` and the scripted tests | `Mastermind` |
| `ThreadedTest` | the driver with the threads of `test.c` | `Mastermind` |
| `ConcurrentGame` | the driver with the threads of `ConcurrentGameTest` | `Mastermind` |
| `MC...` | instances for TLC | the module named |
| `Mastermind{Proofs,Turns,Guesses}`, `FeedbackProofs`, `PlayersProofs`, `ConcurrentGameProofs`, `ThreadedTestProofs`, `SingleCoreProofs` | theorems and proofs | see 4 |

### `Calls` and `Mastermind`: the driver

A *caller* of the model is a thread of control with the one call it is in; `pc[c]` says
where that call is. A *file* bears the name of the caller that opens it, and `data[f]` is
its `device_private_data`. The constant `shared` gives further callers, those that open
nothing themselves, the file whose descriptor they share (`fileOf`); `Sharer` is its domain, and
it is empty (`Unshared`) where no descriptor is shared. `Sole` is the set of the files with
only one caller: the owner and its sharers may call at the same time, and `release` comes when
none of them is in a call (`Unused`).

`asleep` holds the callers blocked on `wq`: `wake_up` empties it, a woken call runs again
in a later step, tests its `Condition`, and goes on (`...Woken`), sleeps again
(`SleepAgain`) or is interrupted (`Signal`). `ret` is the last value a call returned.

| Code (`src/mastermind.c`) | Actions |
|---|---|
| `init_module` 568-589 | `Init` |
| `open` 83-121 | `Open`; `OpenAllocated` after a `kmalloc` that slept |
| `release` 131-168 | `MakerRelease`, `BreakerRelease` |
| `read`, Codemaker 186-230 | `MakerRead`, `MakerReadWoken` |
| `read`, Codebreaker 245-310 | `BreakerRead`, `BreakerReadWoken`, `BreakerReadCopied` after a copy that slept |
| `write`, Codemaker 341-391 | `MakerWrite` (`SetPassword`, `SetFeedback`), `MakerWriteCopied` (`SpoilPassword` if the page does not exist) |
| `write`, Codebreaker 405-476 | `BreakerWrite`, `BreakerWriteWoken`, `BreakerWriteCopied` (`WriteGuess`: `RejectGuess` or `AcceptGuess`; `SpoilGuess`) |
| `ioctl` 500-542 | `RoundStart`, `GetMyScore` |
| `wait_event_interruptible` | `SleepOn`, `Woken`, `SleepAgain`, `Signal` |

*Granularity.* `spin_lock(spin_lock)` passes the structure by value. That compiles
only where `spin_lock` is a macro without effect: Linux 2.4 on one processor.
Kernel code is not preempted there, so that a handler is atomic between two places
where it can sleep: the wait queue, `kmalloc` (constant `AllocSleeps`) and the
copies from and to user memory (constant `PageFaults`).

*Abstractions.*

- A code is a model value; all the driver learns of it is whether it equals the
  password and whether its largest colour (`Highest`) is within `colour_range`. A
  rejected guess replaces the whole of `guessBuf`, which is exact for codes whose
  offending peg is the last one. A
  peg below `'0'`, which the code refuses too, counts as one above every range.
- Calls that pass another number of pegs than four (`i < count` at 219, 285, 347, 373 and 441) come
  with the constant `OddCounts`: a write of none leaves the buffer as it is and still sets
  `passwordReady` or makes a guess of what is there; one of some pegs makes some code of them
  and the old ones. What an accepted guess keeps of the old one is not checked.
- A user's buffer lies in one page: a copy sleeps or fails at its first byte or
  not at all. A `get_user` that fails stores a zero first, as that of Linux 2.4
  does: the password or the guess is spoilt (it becomes `Blank`) and its flag
  stays as it was.
- The Codemaker's `read` changes nothing shared after it looked at the guess, so
  its copy to the user is not a step of its own. The marks that `read` copies out
  and the bytes that the Codemaker writes as feedback (which the code drops) are
  left out.
- Files are opened for reading and writing (the `return -1` of `release`, 167,
  is for others), and only minors 0 and 1 exist.
- A descriptor that is shared is shared from `open` on: a sharer makes no call while the
  file is closed. Who forked whom is left out.
- `llseek` and unknown `ioctl` commands change nothing.

### `MastermindDoc`: what the comments and tests say

Extends `Mastermind` with the claims of the repository's own text that the code does
not keep, each with its quotation.

### `Feedback`: `generateFeedback`

One action per iteration of its loops. The driver model takes the function for a
comparison (`generateFeedback(g, p) == g = p`): `WinsIfEqual` is what justifies it.

### `Slot` and `Players`: the game as its players need it

`Players` gives each file a client that makes the calls of the test programs on it, in
their order: `todo[f]` is the call that comes next, or that `f` is in. The Codemaker sets
a password, starts a round, reads and answers until it has seen the right guess or its read
fails, asks for its score and goes on or leaves; a Codebreaker writes a guess and reads the
feedback. `LeavesEarly` lets the Codemaker close while others are in a call; `Quits` lets a
Codebreaker close between two turns, which the comment at `release` (128-129) allows. Two
auxiliary variables, on which no step depends, say whose guess was accepted last (`owner`)
and how many guesses each made in this round (`used`). Signals, sleeping allocations and
absent pages, shared descriptors and odd counts are left to `Mastermind`: in `Players` nobody
interrupts a call, and each client has a file of its own.

`Slot` is what the two buffers are for: one place, empty or with the guess of one
Codebreaker, and a feedback, posted or not, that only the owner takes; and whatever
enters it gets its answer unless the round ends. `Players` implements it under the mapping

    playing <- in_round
    slot    <- owner if in_round and guessReady, else nobody
    posted  <- in_round and feedbackReady

`Slot` had to allow a feedback that is posted before its guess: the Codemaker's `read` does
not empty the buffer, and a Codemaker that reads again before the Codebreaker has, answers
the same guess twice. The second answer waits for the next guess. It does no harm, for
`read` computes the feedback afresh from the buffers.

The implementation holds for one round. Over two it does not: a Codebreaker whose guess
went unanswered may read in the next round, and takes another one's feedback (`MCPlayersOwn.cfg`).

### `Scripts`, `ThreadedTest`, `ConcurrentGame`: the repository's tests

`Scripts` holds the straight-line tests as sequences of steps (call, file, argument, the
results its check accepts), run by a parent and, where the test forks, a son: `main.c`,
`BasicMasterBringUp`, `SimpleGameTest`, `BreakerWriteEIOTest`, `SignalInterruptTest`. A read
whose bytes are checked also says whether they must be "2222". `KillStep` is a `SIGINT` that
meets the son asleep. Tests run one after another on the same loaded module. The comment at
line 273 of HW4Test.cpp, "should cause son to wait", is not so: the right guess has been
written by then and the son gets `-EIO` at once, which is what the test checks.

`ThreadedTest` has the four threads of `test.c` and the flag of its assertion macro: an
assertion that fails ends its thread, and every other thread at its next assertion.

`ConcurrentGame` has the Codemaker's and the Codebreakers' threads with the mutex, the two
condition variables, `breakers_ready`, `NumOfRound`, `is_breaker_win` and the scores they
expect. A failed `TEST_CHECK_` only prints; its thread goes on. Each stretch under the mutex
is one step; the mutex is explicit (`held`) where the Codemaker calls the driver under it.
Every round has the same password, and a Codebreaker may guess it with any guess.

`OnePointARound` says that the points players have can be spread over the rounds started so
that no round gives two. It holds because nobody closes a file before the scores are
compared; with a winner that closes early it fails (`MCBothWon.cfg`).

`OneWinner` of `Mastermind`, which quantifies over Codebreakers only, holds without that.

In all three, sleeps (`sleep`, `WaitMs`) are taken to be long enough for what they are
there for, and so become guards; the definitions concerned say so. What fails fails
although they are. In `ThreadedTest` and `ConcurrentGame` it is an assumption of the module
that no allocation sleeps and that the buffers are resident. Sons that `Scripts` forks make
their calls in turn with the parent, by the files they inherit; no two are in calls on one file
at a time, so that nobody is a sharer there either.

### `SingleCore`: the older driver

The former version of the driver (`codemaker_exists`, feedback as the Codemaker writes
it, one wake-up less almost everywhere), with the actions and granularity of `Mastermind`.
Its counts can grow without limit, because a Codebreaker that leaves without turns stays
counted: `MaxCount` caps them in `Enrol`.

### `MCMastermind`

Instances for TLC: two codes, `low` (colours up to 4) and `high` (up to 5), and the
symmetry of the callers on the same minor that share nothing; `MCSingleCore` has the same. A second caller of a
file is `mson` (with `m1`) or `bson` (with `b1`). A Codemaker's file is shared in `MCPasswordShared.cfg` only: in a
passing run that would take too long, and that `MakersCounted`, `RoundHasPassword` and `NoLostWakeupInRead` hold of such files is
left to the theorems of 4, which are about any sharing. So are the odd counts in `SingleCore`. All their properties are
invariants or properties of single steps, for which symmetry is sound. `faults` and
`two_makers` tell states apart by all variables but `ret` (`VIEW ButReturns`): no step of
`Mastermind` reads it, nor does a property of these runs look at more than its type. `single_faults` leaves the scores out
as well (`VIEW ButResults`), for the same reason. The other MC
modules, some of whose properties are liveness, use none.

Operators marked *mutant* in the modules are deliberately wrong variants of the
operator below them. No specification uses them; with one in place of the
right operator TLC finds the property named in `PROJECT.json` violated.

## 3. What TLC checks

The three runs that end in a counterexample are under *Disagreements* below.

| Run | Instance | Shows |
|---|---|---|
| `faults` | 2 Codemakers, 3 Codebreakers (2 on one descriptor), 1 turn, 1 round, pages may sleep or fail, any number of pegs | `TypeOK`, `BreakersCounted`, `PlayingExact`, `NoLostWakeupInRead`, `AtMostOneMaker`, `PasswordFrozen` |
| `two_makers` | 2 Codemakers, 2 Codebreakers, 2 turns, 2 rounds, ranges 3 and 4, allocations may sleep or fail | `MakersCounted`, `RoundHasPassword`, `TurnInHand`, `PlayingExact`, `PlayingBound` |
| `players_round` | 1 Codemaker, 3 Codebreakers, 2 turns, 1 round, fair | `PlayersTypeOK`, `FeedbackIsOwn`; liveness: `GuessIsAnswered`, `WriterIsServed`; refinement: `ImplementsSlot` |
| `players_rounds` | 1 Codemaker, 2 Codebreakers, 2 turns, 3 rounds, all may leave | `OneGuessTooMany`, `GuessKept`, `OneWinner` |
| `scripts` | 10 turns; the tests in every order of three, the last one possibly `main.c` | `ChecksPass`; liveness: `TestsEnd` |
| `threaded_test` | the test as it is | `ReadsAreChecked`; liveness: `TestEnds` |
| `game` | 2 Codebreakers, 2 turns, 3 rounds | `OnePointARound`, `NoLostSignal` |
| `single_faults` | older driver: 1 Codemaker, 3 Codebreakers (2 on one descriptor), 1 turn, 1 round, allocations and pages may sleep or fail | `TypeOK`, `BreakersNotForgotten`, `PlayersNotForgotten`, `TurnInHand`, `GuessKept` |
| `feedback` | all pairs of codes over 3 colours | `TypeOK`, `ResultFits`, `WinsIfEqual`, `MarksOfGuess` |

Bounds: `MaxRound` caps the rounds started (a guard of `RoundStart`; scores are bounded
by it), `MaxDebt` how far the turns of a shared file go below none (a guard of
`AcceptGuess`, which never bites on a file with one caller) and `MaxCount` the counts of the
older driver; everything else is finite by itself. `MaxDebt` is 1: the second of two writes on one
descriptor takes the turns to -1, where neither 417 nor a third write behaves in a new way.
Two rounds are enough for what goes wrong at a boundary between rounds; three rounds
let a file miss a whole round between refills. With two turns a player can win with
a turn left and lose one before it; one turn makes the first guess the last one as well. Two Codebreakers are what the races
for the guess slot need, two Codemakers what the races of `open` need; with three players one
reads, one waits in `write`, and a third contends with it for the wake-up. The scripted tests
run with the ten turns they assume.

In `Mastermind` and `SingleCore` clients are arbitrary: any caller may make any call
when it is in none and its file is open. A property that holds here needs no
assumption on the order in which clients call.

Which kernel behaviour a property needs is part of the result:

- for any: `TypeOK`, `BreakersCounted`, `MakersCounted`, `PlayingBound`, `PlayingExact`,
  `NoLostWakeupInRead` (`faults` keeps `open` from sleeping, for the sake of the next
  properties; the proofs of 4 do not need that for these);
- for any, of a file with only one caller: the halves of `TurnInHand` on turns that are not negative and on
  the turn of a sleeping write. On a shared one both fail (`MCTurnsShared.cfg`);
- `open` does not sleep in `kmalloc`: `AtMostOneMaker`, and, while the Codemaker's file has
  only one caller, `PasswordFrozen`. With two it fails (`MCPasswordShared.cfg`);
- calls pass four pegs from resident pages: that the password of a round is there. `two_makers`
  checks it so; that `passwordReady` is set, the rest of `RoundHasPassword`, is for any;
- user pages are resident: `GuessKept`, `OneWinner`. `players_rounds` checks these
  with the players as clients, the proofs with arbitrary ones. The older driver's
  `GuessKept` excepts the steps taken while a write is asleep in its copy.

What two of the properties do not say: `PlayingBound` is an upper bound. The counter of players
may be too low, and even -1, where the test for nobody at 194, `== 0`, misses and the Codemaker
waits for nobody (`MCWaitsForNobody.cfg`). And `OneWinner` is about Codebreakers: the Codemaker may
earn a point of a round that one of them has won (`MCBothWon.cfg`).

*Fairness.* `Players`, `ThreadedTest` and `ConcurrentGame` have weak fairness of each client's
own steps, in the driver and outside: a process that can run is run by the
scheduler in the end. A call asleep on the queue cannot run until it is woken, so
nothing is assumed of wake-ups; and what a client is free to do (a Codebreaker's
`close`, a signal) has no fairness. A Codemaker refused with `-EBUSY` retries in a loop,
which weak fairness lets others break. `Scripts`, where one of two processes
usually waits for the other, needs only that some step is taken whenever one is possible.

The compositions switch deadlock detection off where they really stop: at the end of a
test, or when the last client has left. In `players_round` it is on, because there
Codebreakers go on trying.

### Disagreements with the repository's text

Three are runs that end in a counterexample, and findings in `PROJECT.json`:

| Run | Property | Text | What the code does |
|---|---|---|---|
| `doc_one_maker` | `AtMostOneMaker` | "make sure that no other Codemaker exists" (79-80) | two enter when `kmalloc` sleeps between the check (87) and the count (110) |
| `doc_served` | `MakerIsServed` | after a correct guess "the round needs to end" (241) | a win with turns left leaves the Codemaker asleep in `read` for ever |
| `doc_writer` | `NoLostWakeupInWrite` | a writer "should wait until it is emptied" (400-401) | `ROUND_START` empties it and wakes nobody (525) |

The others are instances of the same modules that are kept beside the runs. `tlc -config`
with the file named finds the counterexample.

| Config | Text | What the code does |
|---|---|---|
| `MCRefused.cfg` | `-EPERM` because one exists (79-80) | after a close during a round nobody can be Codemaker again (138-141) |
| `MCTurnsShared.cfg` | ten turns each (81) | two writes on one descriptor pass 417 with one turn, sleep at 429 and leave -1, which 417 no longer refuses (453) |
| `MCPasswordShared.cfg` | a write sets the password if no round has started (325-326) | on a shared descriptor the round starts while the write sleeps in `get_user` (348) |
| `MCWaitsForNobody.cfg` | waits while somebody can play (176-177) | in a later round the counter is -1 and the Codemaker waits with no player left (152, 194) |
| `MCEOF.cfg` | EOF without players (174-175) | EOF in a second round although Codebreakers can play: the counter is not raised with the turns |
| `MCWinner.cfg` | a correct guess ends the round (240-241) | `in_round` is cleared only when no turns are left (305) |
| `MCBothWon.cfg` | the Codemaker wins if nobody did (296) | the winner's `close` with turns left makes the Codemaker win too (155-157) |
| `MCColourRange.cfg` | a range per round, `-EBUSY` during one (490-493) | the refused call has already changed the range (510) |
| `MCMakerWins.cfg` | the Codemaker wins with the last breaker's last turn (296) | in a second round others still have turns: the counter was not raised with them (455, 468) |
| `MCPlayersTold.cfg` | EOF without players (174-175) | a Codemaker already asleep is not told when the last one leaves (199) |
| `MCPlayersLeaves.cfg` | EOF without a Codemaker (236) | a Codebreaker already asleep is woken and sleeps again (267) |
| `MCPlayersOwn.cfg` | a feedback is that of the guess (test.c, 75) | across rounds it is computed from another one's guess (282) |
| `MCPlayersTurns.cfg` | ten turns each (81; main.c, 86) | a write that sleeps into the next round spends a turn of the old one (437) |
| `MCScriptsAgain.cfg` | every read succeeds (HW4Test.cpp, 185) | after `main.c` the counter of players is -1, and the last turns of `SimpleGameTest` fail (152) |
| `MCThreadedAsserts.cfg` | every guess is accepted (test.c, 71) | not after game2 has won (407) |
| `MCGameScore.cfg` | scores match (HW4Test.cpp, 502) | a loser reads the winner's feedback and counts a point |
| `MCGameEnds.cfg` | all threads are joined (HW4Test.cpp, 496) | a loser that looks at `is_breaker_win` too early sleeps in `read` for ever |
| `MCGameStart.cfg` | rounds start (HW4Test.cpp, 380) | `-EBUSY` after a round that was won (305) |
| `MCGameRead.cfg` | feedback is read (HW4Test.cpp, 447) | the last answer ends the round (382), its read returns `-EIO` |
| `MCGameReady.cfg` | all are ready before a round (HW4Test.cpp, 371) | a woken thread that has not run counts as ready (433) |
| `MCSingleWakeup.cfg` | older driver: a sleeper in `read` goes on when there is something to read (182-183, 230-231) | guesses and feedback wake nobody |
| `MCNewRound.cfg` | guesses succeed after `ROUND_START` (HW4Test.cpp, 380 and 445) | the flags of the last round's winner survive; every write returns `-EIO` |

## 4. What is proved

For all sets of callers and codes, any sharing of descriptors, any number of turns, rounds and
colours, and with the kernel constants and `OddCounts` arbitrary unless said otherwise. The
assumptions are `ConstantsAssumption` of `Calls` (finite disjoint sets of callers, each sharer with
a file of its own minor, positive `NUM_TURNS`, types of the rest) and those of the module a theorem is
about: `PlayersAssumption`, `ConcurrentGameAssumption` and `ThreadedTestAssumption` (no sharer, no
sleeping allocation, no absent page, four pegs a call; the last two also name the files and codes that the test uses).

The driver `Mastermind`:

| Module | Theorem | Argument |
|---|---|---|
| `MastermindProofs` | `TypeCorrect`: `[]TypeOK` | inductive as it stands |
| | `BreakersAreCounted` | inductive with `TypeOK`; a file enters or leaves `Enrolled` exactly where the counter moves, by the cardinality lemmas for one element more or less |
| | `MakersAreCounted` | an inequality: a close that is refused takes a Codemaker from the files but not from the count |
| | `OneMaker` (no sleep in `open`) | strengthened with "no Codemaker is inside `kmalloc`": then the check and the count are one step, and `MakersCounted` makes the check strong enough |
| | `RoundsHavePasswords` | inductive: `passwordReady` is cleared only together with `in_round`, and, if calls pass four pegs from resident pages, set only with `passwordBuf`; that is all it says: other calls do start rounds without a password |
| | `PasswordsAreFrozen` (no sleep in `open`, no sharer of the Codemaker's file) | strengthened with "nobody copies a password in a round if the Codemaker's file has one caller", which needs that the one who would start the round is the one who copies, hence `OneMaker`; the sharers of other files do not matter |
| `MastermindTurns` | `TurnsInHand` | the turns of a file change only in calls on it, and on a file with one caller these follow each other: what a write tested before it slept still holds after. The theorem says so of every such file, whoever shares others; of shared ones it says only that turns never exceed `NUM_TURNS` |
| | `PlayingIsBounded` | inductive with `TurnsInHand`: a player leaves `Live` only in a step that lowers the counter; refilling only enlarges `Live` |
| | `PlayingIsExact` (up to the end of round 1) | strengthened with `ChargedInRound`: a file with no turn left, or in a write that will spend one, has been in a round already, so that in round 1 nobody's turns are refilled from nothing; then every step moves counter and `Live` together |
| `MastermindGuesses` | `ReadersAreWoken`: `[]NoLostWakeupInRead` | inductive with `TypeOK`: a step either wakes everybody, or makes no reader's condition true and puts at most one to sleep, whose condition is false |
| | `GuessesAreKept`, `OnlyOneWins` (pages resident) | the guess is replaced, and a Codebreaker's point earned, only in a step that has just seen an empty buffer and an undecided round, unless the call had slept in its copy; `Resident`: none ever does |
| `FeedbackProofs` | `FeedbackMarks`: `[]MarksOfGuess` | the loops' invariant says which pairs have been looked at: a position of the code is marked exactly when one of them matched, and the marks written are counted by the two sets of marked positions |
| | `FeedbackTypes`, `FeedbackFits`, `FeedbackRecognises` | the number of marks is the cardinality of `codeBufPaired`, a subset of four positions; after the first loop that set is the set of equal positions |

The driver with its clients. Each of these modules first proves that the clients take only
steps of the driver, so that everything above holds of them; `Alone` says that each has a file of its
own, because its module has no sharer:

| Module | Theorem | Argument |
|---|---|---|
| `PlayersProofs` | `PlayersAreProcesses`: `PlayersSafe => Spec` | each step of a client is a step of the driver |
| | `PlayersTypes`: `[]PlayersTypeOK` | inductive, with the types of the driver from the theorem before |
| | `DeviceIsSlot`: `PlayersSafe => S!Safe` (one round) | strengthened with `InFirstRound`: in a round whoever has yet to read its feedback owns the guess in the buffer, so that whoever empties the buffers owns the guess; the steps are sorted into those that start, end, put, post, take or do nothing, each a step of `Slot` or a stutter |
| | `FeedbackOfOwnGuess`: `FeedbackIsOwn` (one round) | from the same invariant |
| | `AtMostOneGuessTooMany`: `[]OneGuessTooMany` | strengthened with an account of turns, `Budget`: guesses made are at most `NUM_TURNS + 1`; for a file whose `round_id` is the current one, guesses made and turns left together are no more than that; one that is behind has made at most one guess in this round, and none while it still sleeps in `write`, so that only the guess of a write that slept across the start of the round comes on top |
| `ConcurrentGameProofs` | `GameIsOfProcesses`: `GameSafe => Spec` | as above |
| | `SignalsArrive`: `[]NoLostSignal` | strengthened with `ReadyCounted`: `breakers_ready` is the number of Codebreakers inside their wait, and each that sleeps is one of them. So the count grows only in the step that compares it and signals; a thread that lowers it makes it smaller than the number of Codebreakers; and `played` never changes under a sleeper. The invariant does not say that the threads counted are in the same round: they are not (`MCGameReady.cfg`) |
| | `OnePointEach`: `[]OnePointARound` | strengthened with "while the point of the round may still be given, the points are those of the rounds before it" (`Unsettled` in `PointInv`): a step gives no point, starts a round, or gives one point and settles the round at the same time, whether to a Codebreaker (`breaker_won` set), or to the Codemaker at its next write or question for its score (`maker_won` and `in_round` cleared) |
| `ThreadedTestProofs` | `ThreadsAreProcesses`: `ThreadsSafe => Spec` | as above |
| | `ReadsChecked`: `ReadsAreChecked` | strengthened with `ReadersOwn`: in a round whoever is to read has its own guess in the buffer, so that only one thread is; no thread is before the round starts (`NobodyEarly`); and the right guess has its point exactly from the moment it is written (`PointOfRight`), because the password of a round is the test's, by `RoundsHavePasswords` |

The older driver:

| Module | Theorem | Argument |
|---|---|---|
| `SingleCoreProofs` | `TypeCorrect`: `[]TypeOK` | inductive as it stands |
| | `TurnsInHand` | as for the driver |
| | `BreakersAreRemembered`: `[]BreakersNotForgotten` | an inequality, because who leaves without turns is not taken from the count; with the lemma on steps that `TurnsInHand` rests on: a call on an open file leaves count and files alone, `open` adds one to both, `release` takes one from the files and at most one from the count |
| | `PlayersAreRemembered`: `[]PlayersNotForgotten` | strengthened with "only open Codebreakers have turns" (`LiveIsOpen`) and `ChargedInRound`, as for `PlayingIsExact` |
| | `GuessesAreKept`: `GuessKept` | the guess is replaced only in a step that has just seen an empty buffer, or that ends a copy in which it slept |

`MastermindTurns`, `MastermindGuesses` and the proofs of the two tests extend
`MastermindProofs`; `PlayersProofs` extends `MastermindTurns`. A lemma first sorts the steps of the
model into the few kinds that matter to the invariant; the theorem then has one case per
kind. Every strengthening was checked by TLC on an instance before it was proved.

Left to TLC:

- the liveness properties (`GuessIsAnswered`, `WriterIsServed`, `TestsEnd`, `TestEnds`) and the
  fairness half of `ImplementsSlot`, which are out of the prover's reach;
- `ChecksPass` of `Scripts`. Its scripts are fixed sequences of some hundred calls, each with a
  result of its own: an inductive invariant would have to give the state of the device at
  every step of every script, which is what TLC's run does.

## 5. Not modelled

- *The lock on a multiprocessor.* Taken twice by one handler (342 and 363, 187 and 214,
  271 and 276), kept by returns (88), released unheld (161), held over `get_user`
  (374). The lock is passed by value, so no multiprocessor build exists; a model of one
  would be of some other program.
- *`cleanup_module`*: only unregisters, and cannot run while a file is open.
- *The harness of HW4Test* (`cutest.h`, `test_utils`, the parameter files): a test runner and
  wrappers. The `HW4_DEBUG` sections of the tests use commands the driver lacks.
- *The examples and build files*: not part of the program.
- *A process that dies in a call*: the kernel closes its files as a `close` does, after the call has
  been interrupted; `Signal` followed by a release.

## 6. Plan

Done: the drivers, `Feedback`, `Slot`, the compositions with all the clients of the
repository, and the proofs of 4: every safety property that a passing run checks is a theorem,
except `ChecksPass`. What could follow: the refinement of `Slot` beyond the first round, for
clients that read every guess they have written (without that it fails, `MCPlayersOwn.cfg`).
