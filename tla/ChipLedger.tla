------------------------------ MODULE ChipLedger ------------------------------
(***************************************************************************)
(* What the server promises about chips, without any of its machinery:     *)
(* between two hands all chips are in the two stacks; a hand begins by     *)
(* taking the blinds from both; during a hand chips move only from the     *)
(* stack of the player who was asked to act, into the pot; the whole pot   *)
(* is paid to the players at once; and the game closes when a player is    *)
(* left without chips, or was removed with the chips he had.               *)
(***************************************************************************)
EXTENDS Integers

CONSTANT Total  \* the chips of the game

VARIABLES
    stack,  \* per player
    pot,    \* everything bet in this hand
    asked,  \* the player asked to act, or 2
    open    \* the game goes on

ledger == <<stack, pot, asked, open>>

Players == {0, 1}

LedgerInit ==
    /\ pot \in 1..Total
    /\ stack \in [Players -> 0..Total]
    /\ stack[0] + stack[1] + pot = Total
    /\ asked = 2
    /\ open = TRUE

\* The next decision is this player's.
Ask(s) == pot > 0 /\ asked' = s /\ UNCHANGED <<stack, pot, open>>

\* The player asked to act bets n chips, or none.
Wager(n) ==
    /\ asked \in Players
    /\ n <= stack[asked]
    /\ stack' = [stack EXCEPT ![asked] = @ - n]
    /\ pot' = pot + n
    /\ asked' = 2
    /\ UNCHANGED open

\* The pot is paid out in full.
Award(won) ==
    /\ pot > 0 /\ open
    /\ won <= pot
    /\ stack' = [stack EXCEPT ![0] = @ + won, ![1] = @ + (pot - won)]
    /\ stack'[0] > 0 /\ stack'[1] > 0
    /\ pot' = 0
    /\ UNCHANGED <<asked, open>>

\* The last pot is paid out: somebody is broke or was removed.
Close(won, removed) ==
    /\ pot > 0 /\ open
    /\ won <= pot
    /\ stack' = [p \in Players |->
                   IF p \in removed THEN 0
                   ELSE stack[p] + (IF p = 0 THEN won ELSE pot - won)]
    /\ \E p \in Players : stack'[p] = 0
    /\ pot' = 0
    /\ open' = FALSE
    /\ UNCHANGED asked

\* Both players pay their blinds.
Blinds(b0, b1) ==
    /\ pot = 0 /\ open
    /\ b0 \in 1..stack[0] /\ b1 \in 1..stack[1]
    /\ stack' = [stack EXCEPT ![0] = @ - b0, ![1] = @ - b1]
    /\ pot' = b0 + b1
    /\ UNCHANGED <<asked, open>>

LedgerNext ==
    \/ \E s \in Players : Ask(s)
    \/ \E n \in 0..Total : Wager(n)
    \/ \E won \in 0..Total : Award(won)
    \/ \E won \in 0..Total, removed \in SUBSET Players : Close(won, removed)
    \/ \E b0, b1 \in 1..Total : Blinds(b0, b1)

LedgerSpec == LedgerInit /\ [][LedgerNext]_ledger
=============================================================================
