--------------------------- MODULE PotDistribution ---------------------------
(***************************************************************************)
(* LocalBoard::distributePot for any number of seats, one step per pass of *)
(* its level loop.  The engine was written for full tables and the code is *)
(* still general, as is test_distribute_regression.cpp, which plays three  *)
(* seats; HandEngine has the two-seat case that this build can reach.      *)
(*                                                                         *)
(* Every seat is active.  The bound MAX_NUMBER_OF_PLAYERS on the search    *)
(* for the next winner is taken to be the number of seats.                 *)
(***************************************************************************)
EXTENDS Integers, FiniteSets, Functions

CONSTANTS
    N,                \* seats
    MaxContribution,  \* bound: the most a seat paid into the pot
    MaxValue,         \* bound: how many different hand values there are
    ShareUnit         \* what the reference takes a chip to be divided into:
                      \* any number of winners can share a chip exactly

ASSUME PotAssumption ==
    /\ N \in Nat \ {0, 1}
    /\ MaxContribution \in Nat \ {0}
    /\ MaxValue \in Nat \ {0}
    /\ ShareUnit \in Nat \ {0}
    /\ \A n \in 1..N : ShareUnit % n = 0

PotSeats == 0..(N - 1)

VARIABLES
    paid,    \* myRoundStartCash - myCash of each seat
    values,  \* myCardsValueInt of each seat
    folded,  \* the seats whose action is FOLD
    dealer,  \* dealerPosition
    level,   \* passes of the level loop done so far
    left,    \* playerSets
    carry,   \* potCarryOver
    won,     \* lastMoneyWon of each seat
    pot      \* LocalBoard::pot

vars == <<paid, values, folded, dealer, level, left, carry, won, pot>>

Total(f) == SumFunction(f)

\* Somebody has not folded, and a hand never ends with an empty pot.
Init ==
    /\ paid \in [PotSeats -> 0..MaxContribution]
    /\ values \in [PotSeats -> 1..MaxValue]
    /\ folded \in (SUBSET PotSeats) \ {PotSeats}
    /\ dealer \in PotSeats
    /\ level = 0
    /\ left = paid
    /\ carry = 0
    /\ won = [s \in PotSeats |-> 0]
    /\ pot = Total(paid)
    /\ pot > 0

NonFolded == PotSeats \ folded

BestOf(S) == {s \in S : \A t \in S : values[t] <= values[s]}

\* The (level + 1)-th smallest of what is left: playerSetsSort[level].
LevelAmount ==
    CHOOSE a \in {left[s] : s \in PotSeats} :
        /\ Cardinality({s \in PotSeats : left[s] < a}) <= level
        /\ Cardinality({s \in PotSeats : left[s] <= a}) > level

Entitled(amount) == {s \in NonFolded : left[s] >= amount}

LevelWinners_IgnoreContribution(amount) == BestOf(NonFolded)

\* Nobody in the level is left in the hand: the best of the others take it.
LevelWinners(amount) ==
    IF Entitled(amount) # {} THEN BestOf(Entitled(amount)) ELSE BestOf(NonFolded)

IsFinalPot(amount) ==
    \/ Entitled(amount) = {}
    \/ \E s \in LevelWinners(amount) : left[s] = amount

\* How far clockwise from the dealer; the dealer himself comes last.
Distance(s) == IF s > dealer THEN s - dealer ELSE N - dealer + s

OddShare_FromSeatZero(winners, sum, s) ==
    LET earlier == {w \in winners : w < s}
    IN sum \div Cardinality(winners)
         + (IF Cardinality(earlier) < sum % Cardinality(winners) THEN 1 ELSE 0)

\* Equal shares; odd chips go one each to the first winners after the dealer.
OddShare(winners, sum, s) ==
    LET earlier == {w \in winners : Distance(w) < Distance(s)}
    IN sum \div Cardinality(winners)
         + (IF Cardinality(earlier) < sum % Cardinality(winners) THEN 1 ELSE 0)

PayLevel(amount, sum) ==
    LET winners == LevelWinners(amount)
    IN /\ won' = [s \in PotSeats |->
                    won[s] + (IF s \in winners THEN OddShare(winners, sum, s) ELSE 0)]
       /\ pot' = pot - sum
       /\ carry' = 0

CarryOver(sum) == carry' = sum /\ UNCHANGED <<won, pot>>

DistributeLevel ==
    LET amount == LevelAmount
        sum == (N - level) * amount + carry
    IN /\ level < N
       /\ level' = level + 1
       /\ IF amount = 0 THEN UNCHANGED <<won, pot, carry>>
          ELSE IF IsFinalPot(amount) THEN PayLevel(amount, sum)
          ELSE CarryOver(sum)
       /\ left' = [s \in PotSeats |-> left[s] - (IF left[s] < amount THEN left[s] ELSE amount)]
       /\ UNCHANGED <<paid, values, folded, dealer>>

\* The pot is distributed.
Distributed == level = N /\ UNCHANGED vars

Next == DistributeLevel \/ Distributed

Spec == Init /\ [][Next]_vars

(***************************************************************************)
(* Properties                                                              *)
(***************************************************************************)

(***************************************************************************)
(* The reference: chip layer k is what everybody who paid k or more put in *)
(* k-th; it belongs, in equal parts, to the best hands among them that did *)
(* not fold, or among all that did not fold if they all did.               *)
(***************************************************************************)
LayerOwners(k) ==
    LET in == {s \in NonFolded : paid[s] >= k}
    IN IF in # {} THEN BestOf(in) ELSE BestOf(NonFolded)

\* Counted in 1/ShareUnit chips, so that it is exact.
LayerShare(k, s) ==
    IF s \notin LayerOwners(k) THEN 0
    ELSE (ShareUnit * Cardinality({p \in PotSeats : paid[p] >= k}))
            \div Cardinality(LayerOwners(k))

ExactShare(s) == SumFunction([k \in 1..MaxContribution |-> LayerShare(k, s)])

\* No level overdraws the pot, every chip that leaves it is paid to somebody,
\* and when the loop ends nothing is left over for the code's
\* "distributePot-ERROR" branches.
PotIsPaidOut ==
    /\ pot >= 0
    /\ Total(won) + pot = Total(paid)
    /\ level = N => pot = 0 /\ carry = 0

\* Working level by level, with carry-over and the fallback for folded excess,
\* gives every seat what the layers give it, to less than one chip for each
\* seat but one: so many levels at most have odd chips.
LayersAreShared ==
    level = N =>
        \A s \in PotSeats : /\ ShareUnit * won[s] - ExactShare(s) < ShareUnit * (N - 1)
                            /\ ExactShare(s) - ShareUnit * won[s] < ShareUnit * (N - 1)
                            /\ ExactShare(s) = 0 => won[s] = 0

\* Who paid the same and holds an equal hand gets the same, but that odd chips
\* go to the one who sits nearer after the dealer.
EqualsShareAlike ==
    level = N =>
        \A s, t \in NonFolded :
            (paid[s] = paid[t] /\ values[s] = values[t] /\ Distance(s) < Distance(t))
                => won[s] - won[t] \in 0..(N - 1)

\* distributePot pays the pot as the rules of side pots divide it.
SharesAreExact == PotIsPaidOut /\ LayersAreShared /\ EqualsShareAlike
=============================================================================
