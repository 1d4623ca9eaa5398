------------------------------ MODULE ShowCards ------------------------------
(***************************************************************************)
(* LocalBoard::determinePlayerNeedToShowCards, for the pot of              *)
(* PotDistribution: whose cards are turned up.  Who acted last shows       *)
(* first, and the others follow clockwise.  A level is a hand that has     *)
(* been shown: its value and the most that was paid with it, the weakest   *)
(* hand first.                                                             *)
(***************************************************************************)
EXTENDS PotDistribution, SequencesExt

LevelOf(s) == [value |-> values[s], paid |-> paid[s]]

\* At this level it is decided whether seat s adds a hand to what was shown.
DecidesFor(levels, s, k) ==
    \/ values[s] = levels[k].value
    \/ values[s] > levels[k].value /\ k = Len(levels)
    \/ values[s] < levels[k].value /\ paid[s] > levels[k].paid

InsertLevel(levels, s, k) ==
    IF values[s] > levels[k].value THEN Append(levels, LevelOf(s))
    ELSE IF values[s] < levels[k].value THEN InsertAt(levels, k, LevelOf(s))
    ELSE IF paid[s] > levels[k].paid THEN [levels EXCEPT ![k].paid = paid[s]]
    ELSE levels

\* An equal hand is no news if a better one was shown by somebody who paid as
\* much.
AddsHand(levels, s, k) ==
    values[s] = levels[k].value =>
        k = Len(levels) \/ paid[s] > levels[k + 1].paid

VisitSeat_NoFallback(acc, s) ==
    LET deciding == {k \in DOMAIN acc.levels : DecidesFor(acc.levels, s, k)}
        k == Min(deciding)
    IN IF s \in folded \/ deciding = {} THEN acc
       ELSE IF AddsHand(acc.levels, s, k)
       THEN [shown |-> acc.shown \cup {s}, levels |-> InsertLevel(acc.levels, s, k)]
       ELSE acc

\* A seat that has not folded and adds nothing is shown all the same.
VisitSeat(acc, s) ==
    LET deciding == {k \in DOMAIN acc.levels : DecidesFor(acc.levels, s, k)}
        k == Min(deciding)
    IN IF s \in folded THEN acc
       ELSE IF deciding # {} /\ AddsHand(acc.levels, s, k)
       THEN [shown |-> acc.shown \cup {s}, levels |-> InsertLevel(acc.levels, s, k)]
       ELSE [acc EXCEPT !.shown = @ \cup {s}]

\* Who shows first: the last to act, or the first seat if he has folded.
FirstToShow(lastActionPlayer) ==
    IF lastActionPlayer \in NonFolded THEN lastActionPlayer ELSE Min(NonFolded)

\* Once around, from the seat after the first to show.
AroundFrom(s) == [i \in 1..N |-> (s + i) % N]

SeatsThatShow(allInCondition, lastActionPlayer) ==
    LET first == FirstToShow(lastActionPlayer)
    IN IF allInCondition \/ NonFolded = {} THEN NonFolded
       ELSE FoldLeft(VisitSeat, [shown |-> {first}, levels |-> <<LevelOf(first)>>],
                     AroundFrom(first)).shown

\* Everybody who is left in the hand shows, whatever he holds and has paid and
\* whoever acted last; nobody else does (test_showcards.cpp:15).
AllInTheHandShow ==
    level = 0 =>
        \A allIn \in BOOLEAN, last \in PotSeats : SeatsThatShow(allIn, last) = NonFolded
=============================================================================
