---------------------------- MODULE MCCardsValue ----------------------------
(***************************************************************************)
(* Decks for TLC, each made for the categories that meet in it.            *)
(***************************************************************************)
EXTENDS CardsValue

Card(suit, r) == 13 * suit + r
Cards(suit, ranks) == {Card(suit, r) : r \in ranks}

MCDecks == {
    \* Straights and straight flushes at both ends of the ranks, with gaps.
    Cards(0, {12, 0, 1, 2, 3, 4}) \cup Cards(1, {3, 5, 12}),
    Cards(2, {7, 8, 9, 10, 11, 12}) \cup Cards(3, {6, 8, 9}),
    \* Fours, full houses, two threes.
    UNION {Cards(suit, {5, 9}) : suit \in 0..3} \cup {Card(0, 11)},
    Cards(0, {2, 6, 9, 12}) \cup Cards(1, {6, 9, 12}) \cup Cards(2, {6, 9}),
    \* Two and three pairs with kickers.
    Cards(0, {2, 6, 9, 12, 4}) \cup Cards(1, {2, 6, 9, 12}),
    \* High cards and flushes with close kickers, some of them low.
    Cards(0, {12, 9, 7, 5, 3}) \cup Cards(1, {10, 8, 2, 0}),
    Cards(3, {12, 11, 10, 9, 7, 5, 4, 2, 0}),
    Cards(3, {8, 5, 4, 3, 2, 0}) \cup Cards(1, {8, 5, 0}),
    Cards(1, {12, 11, 10, 9, 7}) \cup Cards(2, {6, 5, 3}) \cup Cards(3, {12}) }

MCFollowed == {
    <<Card(0, 0), Card(1, 0), Card(2, 5), Card(2, 6), Card(2, 9), Card(0, 12), Card(2, 1)>>,
    <<Card(1, 12), Card(1, 4), Card(1, 0), Card(1, 1), Card(2, 2), Card(0, 9), Card(3, 3)>>,
    <<Card(3, 3), Card(0, 11), Card(1, 11), Card(2, 11), Card(3, 11), Card(1, 3), Card(2, 12)>> }
=============================================================================
