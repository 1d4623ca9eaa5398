----------------------------- MODULE CardsValue -----------------------------
(***************************************************************************)
(* engine/local_engine/cardsvalue.cpp: the value of seven cards, the five  *)
(* cards that make it, the name of a hand next to the other hands that are *)
(* shown, and the categories that are still possible before the river.     *)
(* Places in the array of seven cards count from 1, the two hole cards     *)
(* first, where the code counts from 0.                                    *)
(***************************************************************************)
EXTENDS PokerRules, Sequences, TLC

CONSTANTS
    Decks,      \* bound: the sets of cards hands are dealt from
    Followed    \* bound: the deals (hole cards, then board) followed by round

ASSUME CardsAssumption ==
    /\ \A deck \in Decks : deck \subseteq 0..51 /\ Cardinality(deck) >= 9
    /\ \A deal \in Followed : deal \in [1..7 -> 0..51]

Players == {0, 1}

Places == <<1, 2, 3, 4, 5, 6, 7>>

(***************************************************************************)
(* cardsValue                                                              *)
(***************************************************************************)

\* By suit, and from the ace down within a suit.
BySuit(cards) ==
    SortSeq(Places, LAMBDA i, j :
        \/ SuitOf(cards[i]) > SuitOf(cards[j])
        \/ SuitOf(cards[i]) = SuitOf(cards[j]) /\ RankOf(cards[i]) > RankOf(cards[j]))

\* From the ace down; of one rank, the cards of the board come first.
ByRank(cards) ==
    SortSeq(Places, LAMBDA i, j :
        \/ RankOf(cards[i]) > RankOf(cards[j])
        \/ RankOf(cards[i]) = RankOf(cards[j]) /\ i > j)

At(cards, order, Of(_)) ==
    <<Of(cards[order[1]]), Of(cards[order[2]]), Of(cards[order[3]]), Of(cards[order[4]]),
      Of(cards[order[5]]), Of(cards[order[6]]), Of(cards[order[7]])>>

RanksIn(cards, order) == At(cards, order, RankOf)
SuitsIn(cards, order) == At(cards, order, SuitOf)

NoResult == [value |-> -1, best |-> {}]

\* The hand with this value, made of the cards at these places of the order.
Result(value, order, chosen) ==
    [value |-> value, best |-> {order[k] : k \in chosen}]

\* The first n places of the order that are not used yet.
Kickers(used, n) ==
    LET rest == SelectSeq(Places, LAMBDA k : k \notin used)
    IN SubSeq(rest, 1, n)

Elements(seq) == {seq[k] : k \in DOMAIN seq}

StraightFlush(cards) ==
    LET order == BySuit(cards)
        r == RanksIn(cards, order)
        s == SuitsIn(cards, order)
        runs == {k \in 1..3 : \A i \in 1..4 : s[k + i] = s[k] /\ r[k + i] = r[k] - i}
        wheels == {w \in (1..7) \X (1..4) :
                     /\ r[w[1]] = 12
                     /\ r[w[2]] = 3
                     /\ s[w[2]] = s[w[1]]
                     /\ \A i \in 1..3 : s[w[2] + i] = s[w[2]] /\ r[w[2] + i] = 3 - i}
        k == Min(runs)
        w == CHOOSE wheel \in wheels : TRUE
    IN IF runs # {}
       THEN Result(IF r[k] = 12 THEN 900000000 ELSE 800000000 + r[k] * 1000000,
                   order, k..(k + 4))
       ELSE IF wheels # {}
       THEN Result(803000000, order, {w[1]} \cup w[2]..(w[2] + 3))
       ELSE NoResult

Flush_PlacesByRank(cards) ==
    LET order == BySuit(cards)
        r == RanksIn(cards, order)
        s == SuitsIn(cards, order)
        starts == {k \in 1..3 : s[k] = s[k + 4]}
        k == Min(starts)
    IN IF starts = {} THEN NoResult
       ELSE Result(500000000 + r[k] * 1000000 + r[k + 1] * 10000
                     + r[k + 2] * 100 + r[k + 3] * 10 + r[k + 4],
                   ByRank(cards), k..(k + 4))

Flush(cards) ==
    LET order == BySuit(cards)
        r == RanksIn(cards, order)
        s == SuitsIn(cards, order)
        starts == {k \in 1..3 : s[k] = s[k + 4]}
        k == Min(starts)
    IN IF starts = {} THEN NoResult
       ELSE Result(500000000 + r[k] * 1000000 + r[k + 1] * 10000
                     + r[k + 2] * 100 + r[k + 3] * 10 + r[k + 4],
                   order, k..(k + 4))

FourOfAKind(cards) ==
    LET order == ByRank(cards)
        r == RanksIn(cards, order)
        starts == {k \in 1..4 : r[k] = r[k + 3]}
        four == Min(starts)..(Min(starts) + 3)
        kicker == Kickers(four, 1)
    IN IF starts = {} THEN NoResult
       ELSE Result(700000000 + r[Min(starts)] * 1000000 + r[kicker[1]] * 10000,
                   order, four \cup {kicker[1]})

\* Five places in ascending order, as the five nested loops choose them.
FivePlaces ==
    {<<t[1], t[2], t[3], t[4], t[5]>> :
        t \in {u \in [1..5 -> 1..7] : \A i \in 1..4 : u[i] < u[i + 1]}}

\* The choice that the nested loops meet first.
FirstOf(choices) ==
    CHOOSE t \in choices : \A u \in choices \ {t} :
        \E i \in 1..5 : t[i] < u[i] /\ \A j \in 1..(i - 1) : t[j] = u[j]

Straight(cards) ==
    LET order == ByRank(cards)
        r == RanksIn(cards, order)
        runs == {t \in FivePlaces : \A i \in 1..4 : r[t[i + 1]] = r[t[i]] - 1}
        t == FirstOf(runs)
    IN IF runs = {} THEN NoResult
       ELSE Result(400000000 + r[t[1]] * 1000000, order, Elements(t))

FullHouse_FirstIsThree(cards) ==
    LET order == ByRank(cards)
        r == RanksIn(cards, order)
        full == {t \in FivePlaces :
                   /\ r[t[1]] = r[t[2]]
                   /\ r[t[4]] = r[t[5]]
                   /\ r[t[3]] \in {r[t[1]], r[t[4]]}}
        t == FirstOf(full)
    IN IF full = {} THEN NoResult
       ELSE Result(600000000 + r[t[1]] * 1000000 + r[t[4]] * 10000, order, Elements(t))

FullHouse(cards) ==
    LET order == ByRank(cards)
        r == RanksIn(cards, order)
        full == {t \in FivePlaces :
                   /\ r[t[1]] = r[t[2]]
                   /\ r[t[4]] = r[t[5]]
                   /\ r[t[3]] \in {r[t[1]], r[t[4]]}}
        t == FirstOf(full)
        drei == r[t[3]]
        zwei == IF r[t[3]] = r[t[1]] THEN r[t[4]] ELSE r[t[1]]
    IN IF full = {} THEN NoResult
       ELSE Result(600000000 + drei * 1000000 + zwei * 10000, order, Elements(t))

\* The special case 5 4 3 2 A.
Wheel(cards) ==
    LET order == ByRank(cards)
        r == RanksIn(cards, order)
        runs == {t \in FivePlaces :
                   /\ r[t[2]] = r[t[1]] - 9
                   /\ \A i \in 2..4 : r[t[i + 1]] = r[t[i]] - 1}
        t == FirstOf(runs)
    IN IF runs = {} THEN NoResult
       ELSE Result(400000000 + r[t[2]] * 1000000, order, Elements(t))

ThreeOfAKind(cards) ==
    LET order == ByRank(cards)
        r == RanksIn(cards, order)
        starts == {k \in 1..5 : r[k] = r[k + 2]}
        three == Min(starts)..(Min(starts) + 2)
        kicker == Kickers(three, 2)
    IN IF starts = {} THEN NoResult
       ELSE Result(300000000 + r[Min(starts)] * 1000000
                     + r[kicker[1]] * 10000 + r[kicker[2]] * 100,
                   order, three \cup Elements(kicker))

TwoPair(cards) ==
    LET order == ByRank(cards)
        r == RanksIn(cards, order)
        pairs == {k \in 1..6 : r[k] = r[k + 1]}
        high == Min(pairs)
        low == Min({k \in pairs : k >= high + 2})
        four == {high, high + 1, low, low + 1}
        kicker == Kickers(four, 1)
    IN IF pairs = {} \/ {k \in pairs : k >= high + 2} = {} THEN NoResult
       ELSE Result(200000000 + r[high] * 1000000 + r[low] * 10000 + r[kicker[1]] * 100,
                   order, four \cup {kicker[1]})

OnePair(cards) ==
    LET order == ByRank(cards)
        r == RanksIn(cards, order)
        pairs == {k \in 1..6 : r[k] = r[k + 1]}
        k == Min(pairs)
        kicker == Kickers({k, k + 1}, 3)
    IN IF pairs = {} THEN NoResult
       ELSE Result(100000000 + r[k] * 1000000 + r[kicker[1]] * 10000
                     + r[kicker[2]] * 100 + r[kicker[3]],
                   order, {k, k + 1} \cup Elements(kicker))

HighCard(cards) ==
    LET order == ByRank(cards)
        r == RanksIn(cards, order)
    IN Result(r[1] * 1000000 + r[2] * 10000 + r[3] * 100 + r[4] * 10 + r[5],
              order, 1..5)

\* The tests in the order in which the code makes them.  Of Straight and
\* FullHouse, made in the same loops, seven cards cannot have both.
Evaluate(cards) ==
    LET straightFlush == StraightFlush(cards)
        flush == Flush(cards)
        four == FourOfAKind(cards)
        straight == Straight(cards)
        full == FullHouse(cards)
        wheel == Wheel(cards)
        three == ThreeOfAKind(cards)
        twoPair == TwoPair(cards)
        pair == OnePair(cards)
    IN IF straightFlush # NoResult THEN straightFlush
       ELSE IF flush # NoResult THEN flush
       ELSE IF four # NoResult THEN four
       ELSE IF straight # NoResult THEN straight
       ELSE IF full # NoResult THEN full
       ELSE IF wheel # NoResult THEN wheel
       ELSE IF three # NoResult THEN three
       ELSE IF twoPair # NoResult THEN twoPair
       ELSE IF pair # NoResult THEN pair
       ELSE HighCard(cards)

CategoryOf(value) == value \div 100000000

(***************************************************************************)
(* translateCardsValueCode: a part of a name is the category, a rank, or   *)
(* ErrorPart where the code's table has no entry.                          *)
(***************************************************************************)
ErrorPart == -1

Entry(table, r) == IF r \in table THEN r ELSE ErrorPart

Second(value) == (value \div 1000000) % 100
Third(value)  == (value \div 10000) % 100
Fourth(value) == (value \div 100) % 100
Fifth(value)  == value % 100
FifthA(value) == (value \div 10) % 10
FifthB(value) == value % 10

AnyRank == 0..12

RoyalFlushName(value)    == <<>>
StraightFlushName(value) == <<Entry(3..11, Second(value))>>
FourOfAKindName(value)   == <<Entry(AnyRank, Second(value)), Entry(AnyRank, Third(value))>>
FullHouseName(value)     == <<Entry(AnyRank, Second(value)), Entry(AnyRank, Third(value))>>

FlushName(value) ==
    <<Entry(4..12, Second(value)), Entry(AnyRank, Third(value)),
      Entry(AnyRank, Fourth(value)), Entry(0..9, FifthA(value)), Entry(0..9, FifthB(value))>>

StraightName(value) == <<Entry(3..12, Second(value))>>

ThreeOfAKindName(value) ==
    <<Entry(AnyRank, Second(value)), Entry(AnyRank, Third(value)),
      Entry(AnyRank, Fourth(value))>>

TwoPairName(value) ==
    <<Entry(AnyRank, Second(value)), Entry(AnyRank, Third(value)),
      Entry(AnyRank, Fourth(value))>>

OnePairName(value) ==
    <<Entry(AnyRank, Second(value)), Entry(AnyRank, Third(value)),
      Entry(AnyRank, Fourth(value)), Entry(AnyRank, Fifth(value))>>

HighCardName(value) ==
    <<Entry(AnyRank, Second(value)), Entry(AnyRank, Third(value)),
      Entry(AnyRank, Fourth(value)), Entry(0..9, FifthA(value)), Entry(0..9, FifthB(value))>>

TranslateCardsValueCode(value) ==
    CASE CategoryOf(value) = 9 -> RoyalFlushName(value)
      [] CategoryOf(value) = 8 -> StraightFlushName(value)
      [] CategoryOf(value) = 7 -> FourOfAKindName(value)
      [] CategoryOf(value) = 6 -> FullHouseName(value)
      [] CategoryOf(value) = 5 -> FlushName(value)
      [] CategoryOf(value) = 4 -> StraightName(value)
      [] CategoryOf(value) = 3 -> ThreeOfAKindName(value)
      [] CategoryOf(value) = 2 -> TwoPairName(value)
      [] CategoryOf(value) = 1 -> OnePairName(value)
      [] CategoryOf(value) = 0 -> HighCardName(value)

(***************************************************************************)
(* determineHandName: the category with its main ranks, and those kickers  *)
(* that decide between this hand and another one that is shown.            *)
(***************************************************************************)

NameWeights_PairsSkipped(category) ==
    CASE category = 7 -> <<1000000, 10000>>
      [] category = 5 -> <<1000000, 10000, 100, 10, 1>>
      [] category = 3 -> <<1000000, 10000, 100>>
      [] category = 2 -> <<1000000, 100>>
      [] category = 1 -> <<1000000, 10000, 100>>
      [] category = 0 -> <<1000000, 10000, 100, 10, 1>>
      [] OTHER -> <<1>>

\* What two hands must have in common for the first kicker to matter, and the
\* weight of each kicker.
NameWeights(category) ==
    CASE category = 7 -> <<1000000, 10000>>
      [] category = 5 -> <<1000000, 10000, 100, 10, 1>>
      [] category = 3 -> <<1000000, 10000, 100>>
      [] category = 2 -> <<10000, 100>>
      [] category = 1 -> <<1000000, 10000, 100, 1>>
      [] category = 0 -> <<1000000, 10000, 100, 10, 1>>
      [] OTHER -> <<1>>

\* How many ranks every hand of a category is called by.
MainParts(category) ==
    CASE category = 9 -> 0
      [] category \in {6, 2} -> 2
      [] OTHER -> 1

\* The i-th kicker is named if another shown hand agrees with this one up to it
\* and differs in it.  (The code drops one copy of the own value from the list
\* first; it would not differ.)
KickerNamed(value, shown, i) ==
    LET weights == NameWeights(CategoryOf(value))
    IN \E other \in shown :
           /\ other \div weights[i] = value \div weights[i]
           /\ other \div weights[i + 1] # value \div weights[i + 1]

\* The name as a set of parts, each with its place: "fourth card" is one.
DetermineHandName(value, shown) ==
    LET category == CategoryOf(value)
        parts == TranslateCardsValueCode(value)
        main == MainParts(category)
        named == {i \in 1..(Len(NameWeights(category)) - 1) : KickerNamed(value, shown, i)}
    IN {<<0, category>>}
         \cup {<<k, parts[k]>> : k \in (1..main) \cup {main + i : i \in named}}

(***************************************************************************)
(* calcCardsChance: which categories are still possible.  The percentages  *)
(* next to them are left out.                                              *)
(***************************************************************************)
HoleCardsToIntCode_Unordered(hole) ==
    RankOf(hole[1]) * 1000 + RankOf(hole[2]) * 10
      + (IF RankOf(hole[1]) # RankOf(hole[2]) /\ SuitOf(hole[1]) = SuitOf(hole[2])
         THEN 1 ELSE 0)

HoleCardsToIntCode(hole) ==
    LET low == Min({RankOf(hole[1]), RankOf(hole[2])})
        high == Max({RankOf(hole[1]), RankOf(hole[2])})
        suited == RankOf(hole[1]) # RankOf(hole[2]) /\ SuitOf(hole[1]) = SuitOf(hole[2])
    IN low * 1000 + high * 10 + (IF suited THEN 1 ELSE 0)

\* The rows of handChancePreflop: pairs, off suit, suited.
PairRows == {r * 1000 + r * 10 : r \in AnyRank}
PreflopRows ==
    PairRows \cup {p[1] * 1000 + p[2] * 10 + p[3] :
                     p \in {q \in AnyRank \X AnyRank \X {0, 1} : q[1] < q[2]}}

\* In its row every category is marked, except that a pair is no high card.
\* A code without a row leaves everything at 0.
PossiblePreflop(code) ==
    IF code \in PairRows THEN 1..9
    ELSE IF code \in PreflopRows THEN 0..9
    ELSE {}

CategoryOfCards(cards) == CategoryOf(Evaluate(cards).value)

PossibleOnFlop(hole, flop) ==
    LET seen == Elements(hole) \cup Elements(flop)
    IN {CategoryOfCards(hole \o flop \o <<i, j>>) :
          <<i, j>> \in {p \in ((0..51) \ seen) \X ((0..51) \ seen) : p[1] < p[2]}}

PossibleOnTurn(hole, four) ==
    {CategoryOfCards(hole \o four \o <<i>>) : i \in (0..51) \ (Elements(hole) \cup Elements(four))}

CalcCardsChance(round, hole, board) ==
    CASE round = "preflop" -> PossiblePreflop(HoleCardsToIntCode(hole))
      [] round = "flop" -> PossibleOnFlop(hole, SubSeq(board, 1, 3))
      [] round = "turn" -> PossibleOnTurn(hole, SubSeq(board, 1, 4))
      [] round = "river" -> {CategoryOfCards(hole \o board)}

(***************************************************************************)
(* A hand is dealt (the constructor of LocalHand); a followed one goes on  *)
(* from round to round, with the chances of the first player.              *)
(***************************************************************************)
VARIABLES
    dealt,     \* the cards are out
    hole,      \* the hole cards of each player
    board,     \* the five cards of the board
    result,    \* myCardsValueInt and myBestHandPosition of each player
    round,     \* how much of the board is open
    possible   \* the categories marked possible; the first player's, if followed

vars == <<dealt, hole, board, result, round, possible>>

Rounds == <<"preflop", "flop", "turn", "river">>

Init ==
    /\ dealt = FALSE
    /\ hole = [p \in Players |-> <<>>]
    /\ board = <<>>
    /\ result = [p \in Players |-> NoResult]
    /\ round = "preflop"
    /\ possible = {}

\* n cards of S, in ascending order: which of two hole cards comes first, or
\* of the cards of the board, decides nothing but their places.
Ascending(S, n) == {t \in [1..n -> S] : \A i \in 1..(n - 1) : t[i] < t[i + 1]}

Dealt(first, second, cards) ==
    /\ hole' = [p \in Players |-> IF p = 0 THEN first ELSE second]
    /\ board' = cards
    /\ result' = [p \in Players |-> Evaluate(hole'[p] \o cards)]
    /\ dealt' = TRUE

DealHand ==
    /\ ~dealt
    /\ \E deck \in Decks :
         \E cards \in Ascending(deck, 5) :
           \E first \in Ascending(deck \ Elements(cards), 2) :
             \E second \in Ascending(deck \ (Elements(cards) \cup Elements(first)), 2) :
               Dealt(first, second, cards)
    /\ round' = "river"
    /\ UNCHANGED possible

\* The second player's cards are of no account here.
DealFollowed ==
    /\ ~dealt
    /\ UNCHANGED round
    /\ \E deal \in Followed :
         /\ Dealt(SubSeq(deal, 1, 2), SubSeq(deal, 1, 2), SubSeq(deal, 3, 7))
         /\ possible' = CalcCardsChance("preflop", SubSeq(deal, 1, 2), SubSeq(deal, 3, 7))

NextRound ==
    /\ dealt
    /\ \E k \in 1..3 :
         /\ round = Rounds[k]
         /\ round' = Rounds[k + 1]
         /\ possible' = CalcCardsChance(Rounds[k + 1], hole[0], board)
    /\ UNCHANGED <<dealt, hole, board, result>>

\* Everything there is to see is seen.
Shown == dealt /\ round = "river" /\ UNCHANGED vars

Next == DealHand \/ DealFollowed \/ NextRound \/ Shown

Spec == Init /\ [][Next]_vars

(***************************************************************************)
(* Properties                                                              *)
(***************************************************************************)

\* The strength of the best five of seven cards, by the rules.
BestStrength(cards) == Max({Strength(five) : five \in kSubset(5, Elements(cards))})

SevenCards(p) == hole[p] \o board

\* cardsValue orders hands as the rules of poker do: of two hands at one board
\* the better has the greater value, and hands of the same rank, whatever their
\* suits, have the same.
ShowdownIsFair ==
    dealt =>
        \A p, q \in Players :
            result[p].value >= result[q].value
                <=> BestStrength(SevenCards(p)) >= BestStrength(SevenCards(q))

\* The five marked cards are the hand that was valued, and a hole card is among
\* them only if it improves on the board: no card of the same rank is left there
\* ("erst board, dann hole cards", cardsvalue.cpp:390).  In flushes the suit
\* decides.
BestHandIsMarked ==
    dealt =>
        \A p \in Players :
            LET cards == SevenCards(p)
                best == result[p].best
            IN /\ Cardinality(best) = 5
               /\ Strength({cards[k] : k \in best}) = BestStrength(cards)
               /\ CategoryOf(result[p].value) \notin {5, 8, 9} =>
                     \A i \in best \cap {1, 2}, k \in (3..7) \ best :
                         RankOf(cards[i]) # RankOf(cards[k])

ShownValues == {result[p].value : p \in Players}

NameOf(p) == DetermineHandName(result[p].value, ShownValues)

\* The names at a showdown are complete (every value that comes up has an entry
\* in the tables), tell the better hand from the worse, and call equal hands by
\* equal names.
NamesTellApart ==
    dealt =>
        /\ \A p, q \in Players : result[p].value = result[q].value <=> NameOf(p) = NameOf(q)
        /\ \A p \in Players :
               LET parts == TranslateCardsValueCode(result[p].value)
               IN \A k \in DOMAIN parts : parts[k] # ErrorPart

\* A category that is marked impossible never becomes possible as more of the
\* board is seen, and the one that comes was never marked impossible.
ImpossibleStaysImpossible ==
    [][dealt /\ round' # round => possible' \subseteq possible /\ possible' # {}]_vars
=============================================================================
