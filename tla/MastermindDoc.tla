---------------------------- MODULE MastermindDoc ----------------------------
(***************************************************************************)
(* What the comments and tests of the repository say the device does and   *)
(* the code does not do.  Each property quotes the text it states; TLC     *)
(* finds a behaviour of Mastermind that violates it.                       *)
(***************************************************************************)
EXTENDS Mastermind

\* c's call op has just returned v.
Returned(c, op, v) ==
    ret' # ret /\ ret'.caller = c /\ ret'.op = op /\ ret'.val = v

\* "you should make sure that no other Codemaker exists, otherwise this
\* function should close the module and return -EPERM" (open, 79-80).  The
\* converse: open refuses a Codemaker only while another one is open.
RefusedOnlyIfMakerExists ==
    [][\A m \in Maker : Returned(m, "open", -EPERM) => Enrolled(Maker) # {}]_vars

\* "If the buffer is empty and no Codebreakers with available turns exist this
\* function should return EOF" (read, 174-175).  A Codebreaker whose turns are
\* of an older round has all the turns of this one.
Playable(b) == b \in Enrolled(Breaker) /\ Refreshed(b).turns > 0

EOFOnlyWithoutPlayers ==
    [][\A m \in Maker :
           Returned(m, "read", EOF) => \A b \in Breaker : ~Playable(b)]_vars

\* "If the buffer is empty but any Codebreaker exist that can still play (has
\* turns available) then the Codemaker should wait" (read, 176-177): it begins to
\* wait only if there is one.
WaitsOnlyForPlayers ==
    [][\A m \in Maker :
           At(m, "idle") /\ pc'[m] = "rdWait" => \E b \in Breaker : Playable(b)]_vars

\* "Codebreakers should get 10 turns (each)" (open, 81): nobody who opened the
\* device, alone or with the sons it forked, spends more turns than it got.
TurnsNotOverspent == \A b \in Breaker \cap File : data[b].turns >= 0

\* "If the round hasn't started - this function writes the contents of buf into
\* the password buffer.  While a round is in progre[ss] - attempts to write [...]
\* into the feedback buffer" (write, 325-329): no write changes the password of a
\* round that is in progress.
PasswordNotInRound == [][in_round /\ in_round' => UNCHANGED passwordBuf]_vars

\* "if the feedback buffer's value is 2222 then that means the Codebreaker's
\* guess was correct, in which case he should earn a point and the round needs
\* to end" (read, 239-241): once a correct guess has earned its point, the read
\* that returns its feedback ends the round.
WinnerEndsRound ==
    [][\A b \in Breaker :
           /\ breaker_won /\ guessReady /\ feedbackReady
           /\ generateFeedback(guessBuf, passwordBuf)
           /\ Returned(b, "read", 1)
           => ~in_round']_vars

\* "If the executing Breaker didn't win, exhausted his last turn, and was the
\* last breaker with any turns left [...] the Codemaker needs to win" (read,
\* 296), with "Codebreakers only invoke [release] after playing a full turn"
\* (128-129; its guess is made and the buffer is empty again): a round that a
\* Codebreaker has won is not won by the Codemaker too.
NotBothWon ==
    [][/\ breaker_won
       /\ \A b \in Breaker :
              At(b, "idle") /\ pc'[b] = "closed" =>
                  data[b].turns < NUM_TURNS /\ ~guessReady
       => (maker_won' => maker_won)]_vars

\* "If the executing Breaker didn't win, exhausted his last turn, and was the
\* last breaker with any turns left [...] the Codemaker needs to win" (read,
\* 296): a guess makes the Codemaker win only when no Codebreaker is left that
\* could make another one in this round.
MakerWinsLast ==
    [][\A b \in Breaker :
           Returned(b, "write", 1) /\ ~maker_won /\ maker_won' =>
               \A c \in Breaker \ {b} : ~Playable(c)]_vars

\* "Starts a new round, with a colour-range specified in arg.  [...] If a round
\* is already in progress this should return -EBUSY" (ioctl, 490-493): the
\* range of a round is the one it was started with.
ColourRangeFixed == [][in_round /\ in_round' => UNCHANGED colour_range]_vars

\* After ROUND_START a Codebreaker's write "should succeed" (HW4Test.cpp, 380
\* and 445): a new round starts with neither side having won it.
NewRoundUndecided ==
    [][~in_round /\ in_round' => ~maker_won' /\ ~breaker_won']_vars
=============================================================================
