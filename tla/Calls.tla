-------------------------------- MODULE Calls --------------------------------
(***************************************************************************)
(* What the drivers of the repository share: their open files, and how a   *)
(* call on one of them moves, sleeps on the wait queue and is woken.       *)
(*                                                                         *)
(* A caller is a thread of control that uses one open file of the device,  *)
(* with the call it is in.  Files bear the name of the caller that opens   *)
(* them; further callers may share a file's descriptor: threads, and the   *)
(* sons of a process that forks (HW4Test.cpp, 270 and 318).                *)
(*                                                                         *)
(* The kernel is Linux 2.4 on one processor, the only configuration the    *)
(* source compiles for: it passes the variable spin_lock by value to       *)
(* spin_lock(), a macro without effect there.  Kernel code is not          *)
(* preempted, so a handler runs without interleaving up to the next place  *)
(* where it can sleep:                                                     *)
(*   - wait_event_interruptible, on the one wait queue;                    *)
(*   - kmalloc(GFP_KERNEL) in open, when AllocSleeps;                      *)
(*   - get_user and put_user, when PageFaults: the user's page may be      *)
(*     absent (the call sleeps while it is read in) or not exist (EFAULT;  *)
(*     get_user then stores a zero).                                       *)
(* An action is the code from one such place to the next.                  *)
(***************************************************************************)
EXTENDS Integers, FiniteSets

CONSTANTS
    Maker,        \* callers on minor 0
    Breaker,      \* callers on minor 1
    shared,       \* shared[c]: the file of a caller c that opens none itself
    Code,         \* the codes that processes write
    Highest,      \* Highest[c]: the largest colour code c uses
    Arg,          \* the colour ranges passed to ROUND_START
    NUM_TURNS,
    MaxRound,     \* bound: rounds started in a behaviour
    MaxDebt,      \* bound: turns that a shared file goes below none
    AllocSleeps,  \* BOOLEAN
    PageFaults,   \* BOOLEAN
    OddCounts     \* BOOLEAN: calls may pass another number of pegs than four

Sharer == DOMAIN shared
Caller == Maker \cup Breaker
File   == Caller \ Sharer

ASSUME ConstantsAssumption ==
    /\ IsFiniteSet(Maker) /\ IsFiniteSet(Breaker)
    /\ Maker \cap Breaker = {}
    /\ Sharer \subseteq Caller
    /\ \A s \in Sharer : shared[s] \in (IF s \in Maker THEN Maker ELSE Breaker) \ Sharer
    /\ Highest \in [Code -> Nat]
    /\ "blank" \notin Code
    /\ Arg \subseteq Nat
    /\ NUM_TURNS \in Nat \ {0}
    /\ MaxRound \in Nat /\ MaxDebt \in Nat
    /\ {AllocSleeps, PageFaults, OddCounts} \subseteq BOOLEAN

\* The value of shared when every caller has a descriptor of its own.
Unshared == <<>>

fileOf(c) == IF c \in Sharer THEN shared[c] ELSE c

\* The files that only one caller uses.
Sole == {f \in File : \A s \in Sharer : shared[s] # f}

VARIABLES
    data,         \* data[f]: the device_private_data of f
    pc,           \* pc[c]: where the call of c is, "idle" between calls
    asleep,       \* callers blocked on the queue and not yet woken
    ret           \* the last value a call returned, and to whom

EPERM == 1
EINTR == 4
EIO == 5
ENOMEM == 12
EFAULT == 14
EBUSY == 16
EINVAL == 22
EOF == -1

Blank  == "blank"   \* the zeroed contents of a buffer of the module

\* The device_private_data of an open file.
Data(t, s, r) == [turns |-> t, score |-> s, round_id |-> r]
NoData == Data(0, 0, 0)
private_data(c) == data[fileOf(c)]

Waiting == {"rdWait", "wrWait"}
Copying == {"pwCopy", "fbCopy", "gsCopy", "rdCopy"}

-----------------------------------------------------------------------------
At(c, l)   == pc[c] = l
Goto(c, l) == pc' = [pc EXCEPT ![c] = l]

Answer(c, op, v) == ret' = [caller |-> c, op |-> op, val |-> v]
Return(c, op, v) == Goto(c, "idle") /\ Answer(c, op, v)

IsOpen(f) == pc[f] \notin {"closed", "opening"}

\* c can make a call on its file; release comes when no caller is in one.
Ready(c) == At(c, "idle") /\ IsOpen(fileOf(c))
Unused(f) == f \in File /\ \A c \in Caller : fileOf(c) = f => At(c, "idle")

\* The call gives up the processor inside get_user, put_user or kmalloc.
SleepIn(c, l) == Goto(c, l) /\ UNCHANGED <<asleep, ret>>

\* The call found its condition false and queues.
SleepOn(c, l) == Goto(c, l) /\ asleep' = asleep \cup {c} /\ UNCHANGED ret

\* wake_up_interruptible: every sleeper of the queue becomes runnable.
NoWakeUp == UNCHANGED asleep                                        \* mutant
wake_up == asleep' = {}

Save(c, d) == data' = [data EXCEPT ![fileOf(c)] = d]

-----------------------------------------------------------------------------
\* The files of S that open has enrolled and release has not yet dropped.
Enrolled(S) == {f \in S \cap File : IsOpen(f)}

\* The Codebreakers with turns left.
Live == {b \in Breaker \cap File : data[b].turns > 0}

Op == {"init_module", "open", "release", "read", "write",
       "ROUND_START", "GET_MY_SCORE"}
PrivateData == [turns : Int, score : Nat, round_id : Nat]
Location == {"closed", "opening", "idle"} \cup Waiting \cup Copying

\* The types of the variables that all the drivers have.
CallsTypeOK ==
    /\ data \in [File -> PrivateData]
    /\ pc \in [Caller -> Location]
    /\ asleep \in SUBSET Caller
    /\ ret \in [caller : Caller \cup {"kernel"}, op : Op, val : Int]

\* At first every file is closed, and those that share one have made no call.
CallsInit ==
    /\ data = [f \in File |-> NoData]
    /\ pc = [c \in Caller |-> IF c \in Sharer THEN "idle" ELSE "closed"]
    /\ asleep = {}
    /\ ret = [caller |-> "kernel", op |-> "init_module", val |-> 0]
=============================================================================
