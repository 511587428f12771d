-------------------------------- MODULE Slot --------------------------------
(***************************************************************************)
(* What the guess buffer and the feedback buffer promise to those who play *)
(* a round: a slot that holds the guess of one Codebreaker at a time until *)
(* that Codebreaker has taken the feedback for it, or the round is over.   *)
(* The Codemaker may post a feedback before the guess it is for: its read  *)
(* leaves a guess in the slot, so that it can answer the same guess twice. *)
(***************************************************************************)
CONSTANTS
    Breaker,
    NoOne         \* not a Codebreaker

VARIABLES
    playing,      \* a round is in progress
    slot,         \* whose guess is in the slot, or NoOne
    posted        \* a feedback is waiting to be taken

slotVars == <<playing, slot, posted>>

Init == playing = FALSE /\ slot = NoOne /\ posted = FALSE

Emptied == slot' = NoOne /\ posted' = FALSE

Start == ~playing /\ playing' = TRUE /\ Emptied

\* b's guess enters the empty slot.
Put(b) ==
    /\ playing /\ slot = NoOne
    /\ slot' = b
    /\ UNCHANGED <<playing, posted>>

\* The Codemaker posts a feedback where there is none.
Post ==
    /\ playing /\ ~posted
    /\ posted' = TRUE
    /\ UNCHANGED <<playing, slot>>

\* b takes the feedback of its own guess.
Take(b) ==
    /\ playing /\ slot = b /\ posted
    /\ Emptied
    /\ UNCHANGED playing

\* Only the end of a round takes a guess or a feedback away from its owner.
End == playing /\ playing' = FALSE /\ Emptied

Next == Start \/ End \/ Post \/ \E b \in Breaker : Put(b) \/ Take(b)

Safe == Init /\ [][Next]_slotVars

\* Every guess is answered, and every feedback taken, unless the round ends.
Spec ==
    /\ Safe
    /\ WF_slotVars(slot # NoOne /\ Post)
    /\ \A b \in Breaker : WF_slotVars(Take(b))
=============================================================================
