------------------------------- MODULE Scripts -------------------------------
(***************************************************************************)
(* The test programs of the repository that follow a script, run against   *)
(* the driver: main.c, and BasicMasterBringUp, SimpleGameTest,             *)
(* BreakerWriteEIOTest and SignalInterruptTest of HW4Test.cpp.  A test is  *)
(* a parent process and, where it forks, a son that shares its             *)
(* descriptors; no two of their calls on one descriptor overlap, so that   *)
(* each file has one caller.  Tests run one after another on the same      *)
(* loaded module.                                                          *)
(* Of a feedback the tests' checks need to know only whether it is "2222". *)
(***************************************************************************)
EXTENDS Mastermind, Sequences

LOCAL INSTANCE SequencesExt

CONSTANTS
    m1, m2, b1, b2, b3,      \* the files that the tests open
    right, wrong, illegal,   \* the password, another code, and "abcdjk"
    Orders                   \* the sequences of tests to run

ASSUME ScriptsAssumption ==
    /\ Maker = {m1, m2} /\ Breaker = {b1, b2, b3}
    /\ Code = {right, wrong, illegal}
    /\ Sharer = {} /\ OddCounts = FALSE

-----------------------------------------------------------------------------
(* A step: the call, its file and argument, the results that the test      *)
(* accepts, and whether the feedback it reads has to be "2222".            *)

Step(op, f, arg, want, won) ==
    [op |-> op, file |-> f, arg |-> arg, want |-> want, won |-> won]

Anything == Int
Fails    == {-EPERM, -EINTR, -EIO, -EFAULT, -EBUSY, -EINVAL, EOF}

open(f, want)         == Step("open", f, 0, want, BOOLEAN)
close(f)              == Step("close", f, 0, Anything, BOOLEAN)
write(f, c, want)     == Step("write", f, c, want, BOOLEAN)
read(f, want, won)    == Step("read", f, 0, want, won)
start(f, range, want) == Step("start", f, range, want, BOOLEAN)
score(f, want)        == Step("score", f, 0, want, BOOLEAN)
kill(f)               == Step("kill", f, 0, Anything, BOOLEAN)
\* Waits until the other process has made its first n steps.
await(n)              == Step("await", b1, n, Anything, BOOLEAN)

Times(n, steps) == FlattenSeq([i \in 1..n |-> steps])

\* A guess, the Codemaker's read and answer, and the read of the feedback.
Turn(b, g, won) ==
    <<write(b, g, {1}), read(m1, {1}, {won}), write(m1, wrong, {1}),
      read(b, {1}, {won})>>
\* The same turn in main.c, which looks at none of the results.
FreeTurn(b, g) ==
    <<write(b, g, Anything), read(m1, Anything, BOOLEAN), write(m1, wrong, Anything),
      read(b, Anything, BOOLEAN)>>

-----------------------------------------------------------------------------
(* The tests                                                               *)

main ==
    LET parent ==
        <<open(m1, {0}), open(b1, {0}), open(b2, {0}), open(m2, Fails),
          write(m1, right, Anything), write(b1, right, Fails), start(m1, 5, Nat),
          write(b1, wrong, {1}), read(m1, Anything, BOOLEAN), write(m1, wrong, Anything),
          read(b1, Anything, BOOLEAN)>>
        \o Times(NUM_TURNS - 1, FreeTurn(b1, wrong))
        \o <<write(b1, wrong, Fails)>>
        \o Times(NUM_TURNS, FreeTurn(b2, wrong))
        \o <<score(m1, Anything), score(b1, Anything), score(b2, Anything), start(m1, 4, Nat)>>
        \o FreeTurn(b1, right)
        \o <<score(m1, Anything), score(b1, Anything), score(b2, Anything),
             close(m1), close(b1), close(b2)>>
    IN [parent |-> parent, son |-> <<>>]

BasicMasterBringUp ==
    LET parent ==
        <<open(m1, {0}), open(m2, {-EPERM}), open(b1, {0}),
          write(b1, wrong, {-EIO}), write(m1, right, {1}),
          start(b1, 5, {-EPERM}), start(m1, 5, {1})>>
        \o Turn(b1, wrong, FALSE)
        \o <<score(b1, {0}), write(b1, illegal, {-EINVAL})>>
        \o Turn(b1, right, TRUE)
        \o <<score(b1, {1}), close(b1), close(m1)>>
    IN [parent |-> parent, son |-> <<>>]

\* Its second close of breaker1 has no effect, and b2 is closed by its exit.
SimpleGameTest ==
    LET parent ==
        <<open(m1, {0}), open(b1, {0}), write(m1, right, {1}),
          start(m1, 8, {1}), open(b2, {0})>>
        \o Times(NUM_TURNS, Turn(b1, wrong, FALSE))
        \o <<write(b1, wrong, {-EPERM}), open(b3, {0})>>
        \o Times(NUM_TURNS, Turn(b2, wrong, FALSE))
        \o <<score(m1, {0}), close(b3), write(b1, wrong, {-EIO}),
             write(b2, wrong, {-EIO}), score(m1, {1}),
             close(m1), close(b1), close(b2)>>
    IN [parent |-> parent, son |-> <<>>]

\* The parent forks after its fifth step, writes to the pipe after its sixth,
\* and closes by exit once the son has ended.
BreakerWriteEIOTest ==
    [parent |-> <<open(b1, {0}), open(b2, {0}), open(m1, {0}),
                  write(m1, right, {1}), start(m1, 8, {1})>>
                \o Turn(b1, right, TRUE)
                \o <<await(2), close(b1), close(b2), close(m1)>>,
     son    |-> <<await(6), write(b2, wrong, {-EIO})>>]

\* The parent leaves its son the time to go to sleep before each signal; a
\* file is closed when the last process that shares it has closed it.
SignalInterruptTest ==
    [parent |-> <<open(b1, {0}), open(m1, {0}), write(m1, right, {1}),
                  start(m1, 8, {1}), kill(m1), kill(b1), kill(b1),
                  await(5), close(b1), close(m1)>>,
     son    |-> <<await(4), read(m1, {-EINTR}, BOOLEAN), write(b1, wrong, {1}),
                  write(b1, wrong, {-EINTR}), read(b1, {-EINTR}, BOOLEAN)>>]

Test(name) ==
    CASE name = "main"                -> main
      [] name = "BasicMasterBringUp"  -> BasicMasterBringUp
      [] name = "SimpleGameTest"      -> SimpleGameTest
      [] name = "BreakerWriteEIOTest" -> BreakerWriteEIOTest
      [] name = "SignalInterruptTest" -> SignalInterruptTest

-----------------------------------------------------------------------------
VARIABLES
    left,         \* the tests still to run, the first of them running
    at            \* at[p]: the step that process p of the test is at

scripts == <<vars, left, at>>

Process == {"parent", "son"}

steps(p) == Test(Head(left))[p]
Ended(p) == at[p] > Len(steps(p))
Cur(p)   == steps(p)[at[p]]

ScriptsInit ==
    /\ Init
    /\ left \in Orders
    /\ at = [p \in Process |-> 1]

\* The call on f has returned in this step; p goes on to its next step.
Over(f) == pc'[f] \in {"idle", "closed"}
Moves(p, f) == at' = [at EXCEPT ![p] = IF Over(f) THEN @ + 1 ELSE @]

OpenStep(p) ==
    /\ Cur(p).op = "open"
    /\ Open(Cur(p).file) /\ ret'.val # -ENOMEM
    /\ Moves(p, Cur(p).file)

CloseStep(p) ==
    /\ Cur(p).op = "close"
    /\ MakerRelease(Cur(p).file) \/ BreakerRelease(Cur(p).file)
    /\ Moves(p, Cur(p).file)

\* The handlers take any code: here it is the one of the step.
WriteStep(p) ==
    LET f == Cur(p).file IN
    /\ Cur(p).op = "write"
    /\ MakerWrite(f) \/ BreakerWrite(f) \/ BreakerWriteWoken(f)
    /\ f \in Maker /\ ~in_round => passwordBuf' = Cur(p).arg
    /\ f \in Breaker /\ Over(f) /\ ret'.val \in {1, -EINVAL} => guessBuf' = Cur(p).arg
    /\ Moves(p, f)

ReadStep(p) ==
    LET f == Cur(p).file IN
    /\ Cur(p).op = "read"
    /\ MakerRead(f) \/ MakerReadWoken(f) \/ BreakerRead(f) \/ BreakerReadWoken(f)
    /\ Moves(p, f)

StartStep(p) ==
    /\ Cur(p).op = "start"
    /\ RoundStart(Cur(p).file, Cur(p).arg)
    /\ Moves(p, Cur(p).file)

ScoreStep(p) ==
    /\ Cur(p).op = "score"
    /\ GetMyScore(Cur(p).file)
    /\ Moves(p, Cur(p).file)

AwaitStep(p) ==
    /\ Cur(p).op = "await"
    /\ \E q \in Process \ {p} : at[q] > Cur(p).arg
    /\ at' = [at EXCEPT ![p] = @ + 1]
    /\ UNCHANGED vars

\* SIGINT ends the call that the son sleeps in.
KillStep ==
    /\ ~Ended("parent") /\ Cur("parent").op = "kill"
    /\ Cur("parent").file \in asleep
    /\ Signal(Cur("parent").file)
    /\ Over(Cur("parent").file)
    /\ at' = [p \in Process |-> at[p] + 1]

\* A sleeper that finds its condition false again.
AgainStep == \E f \in Caller : SleepAgain(f) /\ UNCHANGED at

Runs(p) ==
    /\ ~Ended(p)
    /\ \/ OpenStep(p) \/ CloseStep(p) \/ WriteStep(p) \/ ReadStep(p)
       \/ StartStep(p) \/ ScoreStep(p) \/ AwaitStep(p)

NextTest ==
    /\ \A p \in Process : Ended(p)
    /\ Len(left) > 1
    /\ left' = Tail(left)
    /\ at' = [p \in Process |-> 1]
    /\ UNCHANGED vars

ScriptsNext ==
    \/ (\E p \in Process : Runs(p)) /\ UNCHANGED left
    \/ (KillStep \/ AgainStep) /\ UNCHANGED left
    \/ NextTest

ScriptsSpec == ScriptsInit /\ [][ScriptsNext]_scripts /\ WF_scripts(ScriptsNext)

-----------------------------------------------------------------------------
\* Every check of the tests passes: each call returns what the test expects of
\* it, whenever the two processes run (main.c 17-135, HW4Test.cpp 68-346).
ChecksPass ==
    [][\A p \in Process :
           ~Ended(p) /\ Len(left') = Len(left) /\ at'[p] > at[p]
               /\ Cur(p).op \notin {"kill", "await"} =>
               /\ ret'.val \in Cur(p).want
               /\ Cur(p).op = "read" /\ ret'.val = 1
                      => generateFeedback(guessBuf, passwordBuf) \in Cur(p).won]_scripts

\* No test hangs: the last of them comes to its end.
TestsEnd == <>(Len(left) = 1 /\ \A p \in Process : Ended(p))
=============================================================================
