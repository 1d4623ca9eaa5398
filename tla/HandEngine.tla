----------------------------- MODULE HandEngine -----------------------------
(***************************************************************************)
(* The poker engine of the server (src/src/engine/local_engine): one       *)
(* heads-up hand, as a record, and the operations of LocalHand, LocalBeRo, *)
(* LocalBoard and LocalPlayer on it.  The build plays with                 *)
(* MAX_NUMBER_OF_PLAYERS = 2 (game_defs.h:35), so seatsList and            *)
(* activePlayerList are both the two seats for as long as a game lasts.    *)
(*                                                                         *)
(* The five BeRo objects (one per betting round) are created with the hand *)
(* and each is used for one round only, so the record keeps the fields of  *)
(* the current one and EnterRound gives them their constructor values.     *)
(*                                                                         *)
(*   cash, set, action   myCash, mySet, myAction of each player            *)
(*   start               myRoundStartCash (the stack before the blinds)    *)
(*   value               myCardsValueInt, which cards are dealt is left    *)
(*                       out: only the order of the two hands matters      *)
(*   running             runningPlayerList                                 *)
(*   pot, sets           LocalBoard::pot, and its cache of the sum of sets *)
(*   allIn, shown        allInCondition, cardsShown                        *)
(*   round               currentRound                                      *)
(*   dealer              dealerPosition, heads-up also the small blind     *)
(*   turn, lastTurn      currentPlayersTurnId, firstRoundLastPlayersTurnId *)
(*   firstRound          LocalBeRo::firstRound of the current round        *)
(*   firstRun            LocalBeRo::firstRun of the preflop round          *)
(*   error               an engine exception was thrown                    *)
(*                                                                         *)
(* The server skips the GUI run of the later rounds (skipFirstRunGui, in   *)
(* StartNewHand), so a pass of LocalBeRo::run is always a betting pass.    *)
(*                                                                         *)
(* lastActionPlayerID is left out: determinePlayerNeedToShowCards makes    *)
(* every player who has not folded show, whoever shows first.              *)
(***************************************************************************)
EXTENDS Integers

Seats == {0, 1}
NoSeat == 2
Other(s) == 1 - s

PREFLOP == 0
FLOP == 1
TURN == 2
RIVER == 3
POST_RIVER == 4
Rounds == 0..4

Actions == {"none", "fold", "check", "call", "bet", "raise", "allin"}
CardValues == 1..2

HandType ==
    [cash : [Seats -> Nat], set : [Seats -> Nat], action : [Seats -> Actions],
     start : [Seats -> Nat], value : [Seats -> CardValues],
     running : SUBSET Seats, pot : Nat, sets : Nat,
     allIn : BOOLEAN, shown : BOOLEAN, round : Rounds, dealer : Seats,
     smallBlind : Nat, highestSet : Nat, minimumRaise : Nat,
     firstRound : BOOLEAN, firstRun : BOOLEAN,
     turn : Seats \cup {NoSeat}, lastTurn : Seats \cup {NoSeat},
     error : BOOLEAN]

SmallBlindSeat(h) == h.dealer
BigBlindSeat(h) == Other(h.dealer)
NonFold(h) == {s \in Seats : h.action[s] # "fold"}
AllInSeats(h) == {s \in Seats : h.action[s] = "allin"}

\* A LocalException leaves the operation; the caller closes the game.
Throw(h) == [h EXCEPT !.error = TRUE]

(***************************************************************************)
(* Chips                                                                   *)
(***************************************************************************)

Clamp(n, limit) == IF n > limit THEN limit ELSE IF n < 0 THEN 0 ELSE n

\* The player's bet never exceeds his cash (LocalPlayer::setMySet).
SetMySet(h, s, n) ==
    [h EXCEPT !.set[s] = @ + Clamp(n, h.cash[s]),
              !.cash[s] = @ - Clamp(n, h.cash[s])]

CollectSets(h) == [h EXCEPT !.sets = h.set[0] + h.set[1]]

CollectPot_KeepSets(h) == [h EXCEPT !.pot = @ + h.sets, !.sets = 0]
CollectPot(h) ==
    [h EXCEPT !.pot = @ + h.sets, !.sets = 0, !.set = [s \in Seats |-> 0]]

(***************************************************************************)
(* The start of a hand                                                     *)
(***************************************************************************)

\* The constructor values of the round's own BeRo object.
EnterRound(h, r) ==
    [h EXCEPT !.round = r,
              !.highestSet = IF r = PREFLOP THEN 2 * h.smallBlind ELSE 0,
              !.minimumRaise = 2 * h.smallBlind,
              !.firstRound = TRUE, !.firstRun = TRUE,
              !.turn = NoSeat, !.lastTurn = NoSeat]

\* A blind a player cannot pay in full puts him all in.
PostBlind(h, s, blind) ==
    IF h.cash[s] <= blind
    THEN [SetMySet(h, s, h.cash[s]) EXCEPT !.action[s] = "allin"]
    ELSE SetMySet(h, s, blind)

SetBlinds(h) ==
    PostBlind(PostBlind(h, SmallBlindSeat(h), h.smallBlind),
              BigBlindSeat(h), 2 * h.smallBlind)

(***************************************************************************)
(* Game::initHand, the LocalHand constructor and LocalHand::start.  dealer *)
(* is Game::dealerPosition, which initHand moves to the other seat for the *)
(* hand after this one.                                                    *)
(***************************************************************************)
NewHand(h, dealer, smallBlind, value) ==
    LET fresh ==
          [h EXCEPT !.action = [s \in Seats |-> "none"], !.start = h.cash,
                    !.value = value, !.running = Seats, !.allIn = FALSE,
                    !.shown = FALSE, !.dealer = dealer,
                    !.smallBlind = smallBlind]
    IN CollectSets(SetBlinds(EnterRound(fresh, PREFLOP)))

\* The players as the Game constructor makes them, before the first hand.
EmptyHand(startCash) ==
    [cash |-> [s \in Seats |-> startCash], set |-> [s \in Seats |-> 0],
     action |-> [s \in Seats |-> "none"], start |-> [s \in Seats |-> startCash],
     value |-> [s \in Seats |-> 1], running |-> {}, pot |-> 0, sets |-> 0,
     allIn |-> FALSE, shown |-> FALSE, round |-> PREFLOP, dealer |-> 0,
     smallBlind |-> 0, highestSet |-> 0, minimumRaise |-> 0,
     firstRound |-> TRUE, firstRun |-> TRUE, turn |-> NoSeat,
     lastTurn |-> NoSeat, error |-> FALSE]

(***************************************************************************)
(* LocalHand::switchRounds                                                 *)
(***************************************************************************)

(***************************************************************************)
(* Folded and all-in players leave runningPlayerList; the turn goes to the *)
(* player before each one that leaves, so that "next" is his successor.    *)
(* Seat 0 is erased first: when both leave, the turn stays with seat 1.    *)
(***************************************************************************)
RefreshRunning(h) ==
    LET leaving == {s \in h.running : h.action[s] \in {"fold", "allin"}}
        left == h.running \ leaving
        before == IF leaving = {} THEN h.turn
                  ELSE IF left = {0} THEN 0
                  ELSE IF left = {1} THEN 1
                  ELSE IF leaving = Seats THEN 1 ELSE h.turn
    IN [h EXCEPT !.running = left, !.turn = before]

\* "2) all players but one all in and he has highest set"
LastRunnerHasHighestSet(h) ==
    \E s \in h.running : h.set[s] >= h.highestSet

\* "exception no.1": everybody all in for less than the small blind.
SmallAllInException(h) ==
    /\ h.round = PREFLOP
    /\ h.firstRound
    /\ SmallBlindSeat(h) \in h.running
    /\ h.set[BigBlindSeat(h)] <= h.smallBlind
    /\ \A s \in AllInSeats(h) : h.set[s] <= h.smallBlind

\* "exception no.2": heads up, the big blind is all in for less than it.
BigBlindException(h) ==
    /\ h.round = PREFLOP
    /\ h.action[BigBlindSeat(h)] = "allin"
    /\ h.set[BigBlindSeat(h)] <= h.smallBlind

AllInCondition_AllOnly(h) == h.allIn \/ AllInSeats(h) = Seats
AllInCondition(h) ==
    \/ h.allIn
    \/ AllInSeats(h) = Seats
    \/ /\ AllInSeats(h) # {}
       /\ \/ LastRunnerHasHighestSet(h)
          \/ SmallAllInException(h)
          \/ BigBlindException(h)

(***************************************************************************)
(* One player left: his is the pot.  All-in condition: the round is closed *)
(* and the next one begins.  Otherwise the betting round goes on.          *)
(***************************************************************************)
SwitchRounds(hand) ==
    LET h == RefreshRunning(hand)
    IN IF NonFold(h) # Seats
       THEN IF NonFold(h) = {} THEN h ELSE EnterRound(CollectPot(h), POST_RIVER)
       ELSE IF AllInCondition(h)
       THEN LET c == [CollectPot(h) EXCEPT !.allIn = TRUE]
            IN IF h.round < POST_RIVER THEN EnterRound(c, h.round + 1) ELSE c
       ELSE h

(***************************************************************************)
(* LocalBeRoPreflop::run, LocalBeRo::run                                   *)
(***************************************************************************)

AllHighestSet(h) == \A s \in h.running : h.set[s] = h.highestSet

\* The successor of a running player in runningPlayerList.
NextRunning(h, s) == IF Other(s) \in h.running THEN Other(s) ELSE s

\* Round over: actions cleared, bets moved to the pot.
CloseBetting(h) ==
    LET cleared == [h EXCEPT !.action = [s \in Seats |->
                        IF s \in h.running THEN "none" ELSE h.action[s]]]
    IN CollectPot(CollectSets(cleared))

PreflopFirstRun_AlwaysBigBlind(h) ==
    IF ~h.firstRun THEN h
    ELSE [h EXCEPT !.lastTurn = BigBlindSeat(h), !.turn = BigBlindSeat(h), !.firstRun = FALSE]

\* Preflop, heads up, the dealer acts first and the big blind last.
PreflopFirstRun(h) ==
    LET last == IF BigBlindSeat(h) \in h.running
                THEN BigBlindSeat(h) ELSE SmallBlindSeat(h)
    IN IF ~h.firstRun THEN h
       ELSE IF h.running = {} THEN [h EXCEPT !.firstRound = FALSE, !.firstRun = FALSE]
       ELSE [h EXCEPT !.lastTurn = last, !.turn = last, !.firstRun = FALSE]

RunPreflop(hand) ==
    LET h == PreflopFirstRun(hand)
        next == NextRunning(h, h.turn)
    IN IF hand.firstRun /\ h.running = {} THEN h
       ELSE IF h.turn \notin h.running THEN Throw(h)
       ELSE IF ~h.firstRound /\ AllHighestSet(h)
       THEN SwitchRounds(CloseBetting(EnterRound(h, FLOP)))
       ELSE [h EXCEPT !.turn = next,
                      !.firstRound = @ /\ next # h.lastTurn]

\* "heads up: bigBlind begins -> dealer/smallBlind is running player before"
BeRoFirstRound(h) ==
    IF ~h.firstRound THEN h
    ELSE IF h.allIn THEN [h EXCEPT !.firstRound = FALSE]
    ELSE [h EXCEPT !.lastTurn = SmallBlindSeat(h), !.turn = SmallBlindSeat(h)]

RunBeRo(hand) ==
    LET h == BeRoFirstRound(hand)
        next == NextRunning(h, h.turn)
        closed == SwitchRounds(CloseBetting(h))
    IN IF ~h.firstRound /\ AllHighestSet(h)
       THEN IF closed.round < POST_RIVER THEN EnterRound(closed, h.round + 1) ELSE closed
       ELSE IF h.turn \notin h.running THEN Throw(h)
       ELSE [h EXCEPT !.turn = next, !.firstRound = @ /\ next # h.lastTurn]

\* One pass of the engine: ServerGameStateHand::EngineLoop, first half.
PlayHand(hand) ==
    LET h == SwitchRounds(hand)
    IN IF h.allIn \/ h.round = POST_RIVER THEN h
       ELSE IF h.round = PREFLOP THEN RunPreflop(h)
       ELSE RunBeRo(h)

(***************************************************************************)
(* A player's action                                                       *)
(***************************************************************************)

\* LocalPlayer::checkMyAction returns 0.
CheckMyAction(h, s, action, bet) ==
    \/ action = "fold"
    \/ action = "check" /\ h.set[s] >= h.highestSet
    \/ /\ action = "call"
       /\ h.cash[s] > 0
       /\ \/ h.set[s] >= h.highestSet
          \/ /\ bet <= h.cash[s]
             /\ \/ h.cash[s] + h.set[s] >= h.highestSet /\ bet = h.highestSet - h.set[s]
                \/ h.cash[s] + h.set[s] <= h.highestSet /\ bet = h.cash[s]
    \/ action = "bet" /\ h.highestSet = 0 /\ bet \in (2 * h.smallBlind)..h.cash[s]
    \/ /\ action = "raise"
       /\ h.highestSet > 0
       /\ h.set[s] + bet >= h.highestSet + h.minimumRaise
       /\ bet <= h.cash[s]
    \/ action = "allin" /\ bet = h.cash[s] /\ h.cash[s] > 0

\* "If the client omitted some values, fill them in."
FillIn(h, s, action, bet) ==
    LET a == IF /\ action = "call" /\ bet = 0
                /\ h.highestSet >= h.set[s] + h.cash[s]
             THEN "allin" ELSE action
        b == IF bet # 0 THEN bet
             ELSE IF a = "allin" THEN h.cash[s]
             ELSE IF a = "call" THEN h.highestSet - h.set[s]
             ELSE 0
    IN [action |-> a, bet |-> b]

\* The least legal raise after this action.
NewMinimumRaise(h, s, action, bet, set) ==
    LET raise == set - h.highestSet
    IN IF action = "bet" THEN bet
       ELSE IF action = "raise" /\ raise > 0 THEN raise
       ELSE IF action = "allin" /\ raise > h.minimumRaise THEN raise
       ELSE h.minimumRaise

PerformPlayerAction_NoCollect(h, s, action, bet) ==
    LET acted == [h EXCEPT !.action[s] = action]
        paid == SetMySet(acted, s, bet)
    IN IF action \in {"fold", "check"} THEN acted
       ELSE [paid EXCEPT !.highestSet = IF paid.set[s] > @ THEN paid.set[s] ELSE @,
                         !.minimumRaise = NewMinimumRaise(h, s, action, bet, paid.set[s])]

PerformPlayerAction_NoHighest(h, s, action, bet) ==
    LET acted == [h EXCEPT !.action[s] = action]
    IN IF action \in {"fold", "check"} THEN acted
       ELSE CollectSets(SetMySet(acted, s, bet))

PerformPlayerAction(h, s, action, bet) ==
    LET acted == [h EXCEPT !.action[s] = action]
        paid == SetMySet(acted, s, bet)
    IN IF action \in {"fold", "check"} THEN acted
       ELSE CollectSets(
              [paid EXCEPT !.highestSet = IF paid.set[s] > @ THEN paid.set[s] ELSE @,
                           !.minimumRaise = NewMinimumRaise(h, s, action, bet, paid.set[s])])

(***************************************************************************)
(* The end of a hand: LocalBoard::distributePot for the two seats.  A pot  *)
(* level is [amount |-> what each contributor still in it pays, sum |->    *)
(* what it holds].  p is the loop's state: the cash and pot it updates,    *)
(* the contributions not yet paid out and the level carried over.          *)
(***************************************************************************)

Contribution(h, s) == IF h.start[s] > h.cash[s] THEN h.start[s] - h.cash[s] ELSE 0

Best(h, S) == {s \in S : \A t \in S : h.value[t] <= h.value[s]}

\* The best hands that paid the level; if all who did folded, the best left.
LevelWinners(h, p, amount) ==
    LET paid == {s \in NonFold(h) : p.left[s] >= amount}
    IN IF paid # {} THEN Best(h, paid) ELSE Best(h, NonFold(h))

\* A level is paid out when it is the last one for some winner.
IsFinalPot(h, p, amount) ==
    LET paid == {s \in NonFold(h) : p.left[s] >= amount}
    IN paid = {} \/ \E s \in Best(h, paid) : p.left[s] = amount

\* An odd chip goes to the first winner after the dealer.
Share(h, winners, sum, s) ==
    IF winners = {s} THEN sum
    ELSE IF s \notin winners THEN 0
    ELSE sum \div 2 + (IF s = Other(h.dealer) THEN sum % 2 ELSE 0)

PayLevel(h, p, amount, sum) ==
    LET winners == LevelWinners(h, p, amount)
        left == [s \in Seats |-> p.left[s] - Clamp(amount, p.left[s])]
    IN IF IsFinalPot(h, p, amount)
       THEN [cash |-> [s \in Seats |-> p.cash[s] + Share(h, winners, sum, s)],
             pot |-> p.pot - sum, left |-> left, carry |-> 0,
             won |-> p.won \cup winners]
       ELSE [p EXCEPT !.left = left, !.carry = sum]

\* Pass i = 0, 1 of the level loop, over the sorted contributions.
LowLevel(h, p) ==
    LET amount == IF p.left[0] <= p.left[1] THEN p.left[0] ELSE p.left[1]
    IN IF amount = 0 THEN p ELSE PayLevel(h, p, amount, 2 * amount + p.carry)

HighLevel(h, p) ==
    LET amount == IF p.left[0] <= p.left[1] THEN p.left[1] ELSE p.left[0]
    IN IF amount = 0 THEN p ELSE PayLevel(h, p, amount, amount + p.carry)

\* Chips no level accounts for go to the first winner.  (The code takes the
\* lowest player id; PotDistribution!SharesAreExact: none are ever left.)
PayRemainder(p) ==
    IF p.pot <= 0 \/ p.won = {} THEN p.cash
    ELSE LET w == IF 0 \in p.won THEN 0 ELSE 1
         IN [p.cash EXCEPT ![w] = @ + p.pot]

PotLevels(h) ==
    HighLevel(h, LowLevel(h,
        [cash |-> h.cash, pot |-> h.pot, carry |-> 0, won |-> {},
         left |-> [s \in Seats |-> Contribution(h, s)]]))

DistributePot(h) ==
    IF NonFold(h) = {} THEN Throw(h)
    ELSE [h EXCEPT !.cash = PayRemainder(PotLevels(h)), !.pot = 0]

\* LocalBeRoPostRiver::postRiverRun; who must show his cards is only sent out.
PostRiverRun(h) == [DistributePot(h) EXCEPT !.pot = 0]
=============================================================================
