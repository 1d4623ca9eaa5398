----------------------------- MODULE PokerRules -----------------------------
(***************************************************************************)
(* The order of poker hands as the rules give it, independent of the code: *)
(* the reference that CardsValue is compared with.  A card is a number     *)
(* from 0 to 51, thirteen ranks (deuce 0, ace 12) in each of four suits.   *)
(***************************************************************************)
EXTENDS Integers, FiniteSets, FiniteSetsExt

SuitOf(card) == card \div 13
RankOf(card) == card % 13

RanksOf(hand) == {RankOf(c) : c \in hand}
CopiesOf(hand, r) == Cardinality({c \in hand : RankOf(c) = r})

IsFlush(hand) == Cardinality({SuitOf(c) : c \in hand}) = 1

\* The rank of the highest card of a straight, -1 if there is none.  The ace
\* also stands below the deuce.
StraightTop(hand) ==
    LET ranks == RanksOf(hand)
    IN IF \E top \in ranks : ranks = (top - 4)..top THEN Max(ranks)
       ELSE IF ranks = {12, 0, 1, 2, 3} THEN 3
       ELSE -1

\* The ranks that make up the category (the four, the three, both pairs ...).
MainRanks(hand) ==
    LET most == Max({CopiesOf(hand, r) : r \in RanksOf(hand)})
    IN {r \in RanksOf(hand) : CopiesOf(hand, r) = most}

Category(hand) ==
    LET most == Max({CopiesOf(hand, r) : r \in RanksOf(hand)})
        kinds == Cardinality(RanksOf(hand))
    IN IF IsFlush(hand) /\ StraightTop(hand) >= 0 THEN 8
       ELSE IF most = 4 THEN 7
       ELSE IF most = 3 /\ kinds = 2 THEN 6
       ELSE IF IsFlush(hand) THEN 5
       ELSE IF StraightTop(hand) >= 0 THEN 4
       ELSE IF most = 3 THEN 3
       ELSE IF most = 2 /\ kinds = 3 THEN 2
       ELSE IF most = 2 THEN 1
       ELSE 0

\* Of two sets of ranks of one size the one with the greatest rank that is not
\* in both is the better: the order of these numbers.
Bits(ranks) == MapThenSumSet(LAMBDA r : 2^r, ranks)

\* Greater for the better of two hands of five cards, equal for equal ones.
Strength(hand) ==
    LET main == IF StraightTop(hand) >= 0 THEN {StraightTop(hand)}
                ELSE MainRanks(hand)
        kickers == IF StraightTop(hand) >= 0 THEN {}
                   ELSE RanksOf(hand) \ MainRanks(hand)
    IN Category(hand) * 2^26 + Bits(main) * 2^13 + Bits(kickers)
=============================================================================
