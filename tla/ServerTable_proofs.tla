-------------------------- MODULE ServerTable_proofs --------------------------
(***************************************************************************)
(* The server's table, for every start stack, blind schedule and time      *)
(* limit, and every number of hands, actions, timeouts, departures and     *)
(* returns: it keeps its types and its chips, exactly one handler is live, *)
(* the engine never throws, nobody is asked once the betting is settled,   *)
(* the pot is paid out by the rules, and the table implements the ledger   *)
(* of ChipLedger.                                                          *)
(***************************************************************************)
EXTENDS ServerTable, TLAPS

(***************************************************************************)
(* The engine                                                              *)
(*                                                                         *)
(* What the operations of the poker engine do to a hand: they keep its     *)
(* type, move chips only out of the stacks until the pot is paid out, lose *)
(* none, pay out exactly the pot, and play the hand by the rules.          *)
(***************************************************************************)

\* All chips of a hand.
Chips(h) == h.cash[0] + h.cash[1] + h.set[0] + h.set[1] + h.pot

\* LocalBoard's cached sum of the bets is the sum of the bets.
InSync(h) == h.sets = h.set[0] + h.set[1]

\* No bets are on the table.
NoBets(h) == h.set = [s \in Seats |-> 0]

\* A hand enters its last round only after the bets went to the pot.
Settled(h) == h.round = POST_RIVER => NoBets(h)

\* From h to g chips move from the stacks to bets and pot, and none is lost.
Moves(h, g) ==
    /\ Chips(g) = Chips(h)
    /\ g.start = h.start
    /\ \A s \in Seats : g.cash[s] <= h.cash[s]

\* g is a well-formed successor of h.
Keeps(h, g) == g \in HandType /\ InSync(g) /\ Moves(h, g)

\* A sequence of operations moves chips as each of them does.
LEMMA KeepsTransitive ==
    ASSUME NEW f \in HandType, NEW g \in HandType, NEW h,
           Moves(f, g), Keeps(g, h)
    PROVE  Keeps(f, h)
  BY DEF Keeps, Moves, HandType

(***************************************************************************)
(* Single operations                                                       *)
(***************************************************************************)

\* LocalPlayer::setMySet moves at most the player's cash to his bet.
LEMMA SetMySetMoves ==
    ASSUME NEW h \in HandType, NEW s \in Seats, NEW n \in Int
    PROVE  SetMySet(h, s, n) \in HandType /\ Moves(h, SetMySet(h, s, n))
  <1> DEFINE c == Clamp(n, h.cash[s])
  <1>1. c \in Nat /\ c <= h.cash[s]
    BY DEF Clamp, HandType
  <1>2. h.set[s] + c \in Nat /\ h.cash[s] - c \in Nat
    BY <1>1 DEF HandType
  <1>3. SetMySet(h, s, n) \in HandType
    BY <1>2 DEF SetMySet, HandType
  <1>4. Moves(h, SetMySet(h, s, n))
    BY <1>1 DEF SetMySet, HandType, Moves, Chips, Seats
  <1> QED BY <1>3, <1>4

\* LocalBoard::collectSets refreshes the cached sum.
LEMMA CollectSetsKeeps ==
    ASSUME NEW h \in HandType
    PROVE  Keeps(h, CollectSets(h)) /\ CollectSets(h).round = h.round
  <1>1. CollectSets(h) \in HandType
    BY DEF CollectSets, HandType, Seats
  <1>2. InSync(CollectSets(h)) /\ CollectSets(h).round = h.round
    BY DEF CollectSets, HandType, InSync
  <1>3. Moves(h, CollectSets(h))
    BY DEF CollectSets, HandType, Moves, Chips, Seats
  <1> QED BY <1>1, <1>2, <1>3 DEF Keeps

\* LocalBoard::collectPot moves all bets to the pot, if the cached sum is right.
LEMMA CollectPotKeeps ==
    ASSUME NEW h \in HandType, InSync(h)
    PROVE  Keeps(h, CollectPot(h)) /\ NoBets(CollectPot(h))
  <1>1. [s \in Seats |-> 0] \in [Seats -> Nat]
    OBVIOUS
  <1>2. h.pot + h.sets \in Nat
    BY DEF HandType
  <1>3. CollectPot(h) \in HandType
    BY <1>1, <1>2 DEF CollectPot, HandType
  <1>4. InSync(CollectPot(h)) /\ NoBets(CollectPot(h))
    BY DEF CollectPot, HandType, InSync, NoBets, Seats
  <1>5. Moves(h, CollectPot(h))
    BY DEF CollectPot, HandType, InSync, Moves, Chips, Seats
  <1> QED BY <1>3, <1>4, <1>5 DEF Keeps

\* The constructor values of a betting round concern no chips.
LEMMA EnterRoundKeeps ==
    ASSUME NEW h \in HandType, InSync(h), NEW r \in Rounds
    PROVE  /\ Keeps(h, EnterRound(h, r))
           /\ EnterRound(h, r).round = r
           /\ NoBets(h) => NoBets(EnterRound(h, r))
  <1> DEFINE highest == IF r = PREFLOP THEN 2 * h.smallBlind ELSE 0
             least == 2 * h.smallBlind
  <1>1. highest \in Nat /\ least \in Nat
    BY DEF HandType
  <1>2. EnterRound(h, r) \in HandType
    <2>1. EnterRound(h, r) =
            [h EXCEPT !.round = r, !.highestSet = highest, !.minimumRaise = least,
                      !.firstRound = TRUE, !.firstRun = TRUE,
                      !.turn = NoSeat, !.lastTurn = NoSeat]
      BY DEF EnterRound
    <2> HIDE DEF highest, least
    <2> QED BY <1>1, <2>1, ZenonT(60) DEF HandType
  <1>3. /\ InSync(EnterRound(h, r)) /\ EnterRound(h, r).round = r
        /\ NoBets(h) => NoBets(EnterRound(h, r))
    BY DEF EnterRound, HandType, InSync, NoBets
  <1>4. Moves(h, EnterRound(h, r))
    BY DEF EnterRound, HandType, Moves, Chips, Seats
  <1> QED BY <1>2, <1>3, <1>4 DEF Keeps

\* An exception only sets the error flag.
LEMMA ThrowKeeps ==
    ASSUME NEW h \in HandType, InSync(h)
    PROVE  Keeps(h, Throw(h)) /\ Throw(h).round = h.round
  <1>1. Throw(h) \in HandType
    BY DEF Throw, HandType
  <1> QED BY <1>1 DEF Throw, HandType, InSync, Moves, Chips, Seats, Keeps

(***************************************************************************)
(* The start of a hand                                                     *)
(***************************************************************************)

\* A blind moves chips from the player's stack to his bet.
LEMMA PostBlindMoves ==
    ASSUME NEW h \in HandType, NEW s \in Seats, NEW blind \in Nat
    PROVE  /\ PostBlind(h, s, blind) \in HandType
           /\ Moves(h, PostBlind(h, s, blind))
           /\ PostBlind(h, s, blind).dealer = h.dealer
           /\ PostBlind(h, s, blind).smallBlind = h.smallBlind
           /\ PostBlind(h, s, blind).round = h.round
  <1> DEFINE g == SetMySet(h, s, h.cash[s])
  <1>1. h.cash[s] \in Nat /\ "allin" \in Actions
    BY DEF HandType, Actions
  <1>2. g \in HandType /\ Moves(h, g)
    BY <1>1, SetMySetMoves
  <1>3. g.dealer = h.dealer /\ g.smallBlind = h.smallBlind /\ g.round = h.round
    BY DEF SetMySet, HandType
  <1>4. CASE h.cash[s] <= blind
    <2> HIDE DEF g
    <2>1. PostBlind(h, s, blind) = [g EXCEPT !.action[s] = "allin"]
      BY <1>4 DEF PostBlind, g
    <2>2. [g EXCEPT !.action[s] = "allin"] \in HandType
      BY <1>1, <1>2 DEF HandType
    <2>3. Moves(h, [g EXCEPT !.action[s] = "allin"])
      BY <1>2 DEF Moves, Chips, HandType, Seats
    <2>4. LET f == [g EXCEPT !.action[s] = "allin"]
          IN f.dealer = g.dealer /\ f.smallBlind = g.smallBlind /\ f.round = g.round
      BY <1>2 DEF HandType
    <2> QED BY <1>3, <2>1, <2>2, <2>3, <2>4
  <1>5. CASE ~(h.cash[s] <= blind)
    <2>1. PostBlind(h, s, blind) = SetMySet(h, s, blind)
      BY <1>5 DEF PostBlind
    <2>2. /\ SetMySet(h, s, blind).dealer = h.dealer
          /\ SetMySet(h, s, blind).smallBlind = h.smallBlind
          /\ SetMySet(h, s, blind).round = h.round
      BY DEF SetMySet, HandType
    <2> QED BY <2>1, <2>2, SetMySetMoves
  <1> QED BY <1>4, <1>5

\* Game::initHand and LocalHand::start: the stacks become the start stacks, the
\* blinds are taken from them, and nothing is lost.
LEMMA NewHandDeals ==
    ASSUME NEW h \in HandType, NEW dealer \in Seats, NEW smallBlind \in Nat,
           NEW value \in [Seats -> CardValues], NoBets(h), h.pot = 0
    PROVE  LET g == NewHand(h, dealer, smallBlind, value)
           IN /\ g \in HandType
              /\ InSync(g)
              /\ Chips(g) = h.cash[0] + h.cash[1]
              /\ g.start = h.cash
              /\ \A s \in Seats : g.cash[s] <= g.start[s]
              /\ g.round = PREFLOP
  <1> DEFINE none == [s \in Seats |-> "none"]
             fresh == [h EXCEPT !.action = none, !.start = h.cash,
                                !.value = value, !.running = Seats,
                                !.allIn = FALSE, !.shown = FALSE,
                                !.dealer = dealer, !.smallBlind = smallBlind]
             blank == EnterRound(fresh, PREFLOP)
             small == PostBlind(blank, SmallBlindSeat(blank), blank.smallBlind)
             big == PostBlind(small, BigBlindSeat(blank), 2 * blank.smallBlind)
  <1>1. none \in [Seats -> Actions]
    BY DEF Actions
  <1>2. fresh \in HandType
    <2> HIDE DEF none
    <2> QED BY <1>1 DEF HandType
  <1>3. /\ fresh.cash = h.cash /\ fresh.start = h.cash /\ NoBets(fresh)
        /\ fresh.pot = 0
    BY DEF HandType, NoBets
  <1> HIDE DEF fresh
  <1>4. Chips(fresh) = h.cash[0] + h.cash[1]
    BY <1>3 DEF Chips, HandType, NoBets, Seats
  <1>5. /\ blank \in HandType /\ Moves(fresh, blank) /\ blank.round = PREFLOP
    <2>1. (IF PREFLOP = PREFLOP THEN 2 * fresh.smallBlind ELSE 0) \in Nat
      BY <1>2 DEF HandType
    <2>2. PREFLOP \in Rounds
      BY DEF PREFLOP, Rounds
    <2>3. blank \in HandType
      BY <1>2, <2>1, <2>2, ZenonT(60) DEF EnterRound, HandType
    <2> QED BY <1>2, <2>3 DEF EnterRound, HandType, Moves, Chips, Seats
  <1> HIDE DEF blank
  <1>6. /\ SmallBlindSeat(blank) \in Seats /\ BigBlindSeat(blank) \in Seats
        /\ blank.smallBlind \in Nat /\ 2 * blank.smallBlind \in Nat
    BY <1>5 DEF SmallBlindSeat, BigBlindSeat, Other, Seats, HandType
  <1>7. small \in HandType /\ Moves(blank, small) /\ small.round = PREFLOP
    BY <1>5, <1>6, PostBlindMoves
  <1>8. big \in HandType /\ Moves(small, big) /\ big.round = PREFLOP
    <2> HIDE DEF small
    <2> QED BY <1>6, <1>7, PostBlindMoves
  <1>9. NewHand(h, dealer, smallBlind, value) = CollectSets(big)
    <2>1. small.dealer = blank.dealer /\ small.smallBlind = blank.smallBlind
      BY <1>5, <1>6, PostBlindMoves
    <2>2. SetBlinds(blank) = big
      BY <2>1 DEF SetBlinds, BigBlindSeat, SmallBlindSeat
    <2> QED BY <2>2 DEF NewHand, blank, fresh
  <1> HIDE DEF small, big
  <1>10. Keeps(big, CollectSets(big)) /\ CollectSets(big).round = big.round
    BY <1>8, CollectSetsKeeps
  <1>11. Moves(fresh, CollectSets(big)) /\ CollectSets(big) \in HandType
    BY <1>2, <1>5, <1>7, <1>8, <1>10 DEF Keeps, Moves, HandType
  <1> QED BY <1>3, <1>4, <1>8, <1>9, <1>10, <1>11 DEF Keeps, Moves

\* The players of a new game.
LEMMA EmptyHandType ==
    ASSUME NEW cash \in Nat
    PROVE  LET g == EmptyHand(cash)
           IN g \in HandType /\ NoBets(g) /\ g.pot = 0
                /\ g.cash[0] = cash /\ g.cash[1] = cash
  <1>1. /\ [s \in Seats |-> cash] \in [Seats -> Nat]
        /\ [s \in Seats |-> 0] \in [Seats -> Nat]
        /\ [s \in Seats |-> "none"] \in [Seats -> Actions]
        /\ [s \in Seats |-> 1] \in [Seats -> CardValues]
    BY DEF Actions, CardValues
  <1>2. PREFLOP \in Rounds /\ 0 \in Seats
    BY DEF PREFLOP, Rounds, Seats
  <1>3. EmptyHand(cash) \in HandType
    BY <1>1, <1>2 DEF EmptyHand, HandType
  <1> QED BY <1>3 DEF EmptyHand, NoBets, Seats

(***************************************************************************)
(* The betting rounds                                                      *)
(***************************************************************************)

\* Folded and all-in players leave the running list with their chips.
LEMMA RefreshRunningKeeps ==
    ASSUME NEW h \in HandType, InSync(h)
    PROVE  Keeps(h, RefreshRunning(h)) /\ RefreshRunning(h).round = h.round
  <1> DEFINE leaving == {s \in h.running : h.action[s] \in {"fold", "allin"}}
             left == h.running \ leaving
             before == IF leaving = {} THEN h.turn
                       ELSE IF left = {0} THEN 0
                       ELSE IF left = {1} THEN 1
                       ELSE IF leaving = Seats THEN 1 ELSE h.turn
             g == [h EXCEPT !.running = left, !.turn = before]
  <1>1. left \in SUBSET Seats
    BY DEF HandType
  <1>2. before \in Seats \cup {NoSeat}
    BY DEF HandType, Seats
  <1>3. RefreshRunning(h) = g
    BY DEF RefreshRunning
  <1> HIDE DEF left, before
  <1>4. g \in HandType
    BY <1>1, <1>2 DEF HandType
  <1>5. InSync(g) /\ Moves(h, g) /\ g.round = h.round
    BY DEF HandType, InSync, Moves, Chips, Seats
  <1> QED BY <1>3, <1>4, <1>5 DEF Keeps

\* LocalHand::switchRounds: a round is left only with its bets in the pot.
LEMMA SwitchRoundsKeeps ==
    ASSUME NEW deal \in HandType, InSync(deal)
    PROVE  /\ Keeps(deal, SwitchRounds(deal))
           /\ SwitchRounds(deal).round = deal.round \/ NoBets(SwitchRounds(deal))
           /\ NoBets(deal) => NoBets(SwitchRounds(deal))
  <1> DEFINE h == RefreshRunning(deal)
             p == CollectPot(h)
             c == [p EXCEPT !.allIn = TRUE]
  <1>1. h \in HandType /\ InSync(h) /\ Moves(deal, h) /\ h.round = deal.round
    BY RefreshRunningKeeps DEF Keeps
  <1>2. NoBets(deal) => NoBets(h)
    BY DEF RefreshRunning, NoBets, HandType
  <1> HIDE DEF h
  <1>3. p \in HandType /\ InSync(p) /\ Moves(h, p) /\ NoBets(p)
    BY <1>1, CollectPotKeeps DEF Keeps
  <1>4. c \in HandType /\ InSync(c) /\ Moves(h, c) /\ NoBets(c)
    <2> HIDE DEF p
    <2>1. c \in HandType
      BY <1>3 DEF HandType
    <2>2. InSync(c) /\ NoBets(c)
      BY <1>3 DEF InSync, NoBets, HandType
    <2>3. Moves(h, c)
      BY <1>3 DEF Moves, Chips, HandType
    <2> QED BY <2>1, <2>2, <2>3
  <1> HIDE DEF p, c
  <1>5. \A r \in Rounds : /\ Keeps(h, EnterRound(p, r)) /\ NoBets(EnterRound(p, r))
                          /\ Keeps(h, EnterRound(c, r)) /\ NoBets(EnterRound(c, r))
    BY <1>1, <1>3, <1>4, EnterRoundKeeps, KeepsTransitive
  <1>6. /\ Keeps(h, SwitchRounds(deal))
        /\ SwitchRounds(deal) = h \/ NoBets(SwitchRounds(deal))
    <2>1. POST_RIVER \in Rounds /\ (h.round < POST_RIVER => h.round + 1 \in Rounds)
      BY <1>1 DEF POST_RIVER, Rounds, HandType
    <2>2. Keeps(h, h)
      BY <1>1 DEF Keeps, Moves, HandType
    <2>3. CASE NonFold(h) # Seats
      BY <1>5, <2>1, <2>2, <2>3 DEF SwitchRounds, h, p
    <2>4. CASE NonFold(h) = Seats /\ AllInCondition(h)
      <3>1. SwitchRounds(deal) = IF h.round < POST_RIVER
                                 THEN EnterRound(c, h.round + 1) ELSE c
        BY <2>4 DEF SwitchRounds, h, p, c
      <3>2. Keeps(h, c)
        BY <1>4 DEF Keeps
      <3> QED BY <1>4, <1>5, <2>1, <3>1, <3>2
    <2>5. CASE NonFold(h) = Seats /\ ~AllInCondition(h)
      <3>1. SwitchRounds(deal) = h
        BY <2>5 DEF SwitchRounds, h
      <3> QED BY <2>2, <3>1
    <2> QED BY <2>3, <2>4, <2>5
  <1>7. Keeps(deal, SwitchRounds(deal))
    BY <1>1, <1>6, KeepsTransitive
  <1> QED BY <1>1, <1>2, <1>6, <1>7

\* The end of a betting round moves all bets to the pot.
LEMMA CloseBettingKeeps ==
    ASSUME NEW h \in HandType
    PROVE  Keeps(h, CloseBetting(h)) /\ NoBets(CloseBetting(h))
  <1> DEFINE none == [s \in Seats |-> IF s \in h.running THEN "none" ELSE h.action[s]]
             cleared == [h EXCEPT !.action = none]
  <1>1. none \in [Seats -> Actions]
    BY DEF Actions, HandType
  <1>2. cleared \in HandType /\ Moves(h, cleared)
    <2> HIDE DEF none
    <2> QED BY <1>1 DEF HandType, Moves, Chips
  <1>3. CloseBetting(h) = CollectPot(CollectSets(cleared))
    BY DEF CloseBetting
  <1> HIDE DEF cleared
  <1>4. Keeps(cleared, CollectSets(cleared))
    BY <1>2, CollectSetsKeeps
  <1>5. Keeps(CollectSets(cleared), CloseBetting(h)) /\ NoBets(CloseBetting(h))
    BY <1>3, <1>4, CollectPotKeeps DEF Keeps
  <1>6. Keeps(cleared, CloseBetting(h))
    BY <1>2, <1>4, <1>5, KeepsTransitive DEF Keeps
  <1> QED BY <1>2, <1>5, <1>6, KeepsTransitive

\* LocalBeRoPreflop::run: the turn moves on, or the flop begins with all bets
\* in the pot.
LEMMA RunPreflopKeeps ==
    ASSUME NEW deal \in HandType, InSync(deal)
    PROVE  /\ Keeps(deal, RunPreflop(deal))
           /\ RunPreflop(deal).round = deal.round \/ NoBets(RunPreflop(deal))
  <1> DEFINE h == PreflopFirstRun(deal)
             next == NextRunning(h, h.turn)
             flop == EnterRound(h, FLOP)
             more == [h EXCEPT !.turn = next, !.firstRound = @ /\ next # h.lastTurn]
  <1>1. Keeps(deal, h) /\ h.round = deal.round
    <2> DEFINE last == IF BigBlindSeat(deal) \in deal.running
                       THEN BigBlindSeat(deal) ELSE SmallBlindSeat(deal)
    <2>1. last \in Seats
      BY DEF SmallBlindSeat, BigBlindSeat, Other, Seats, HandType
    <2>2. \/ h = deal
          \/ h = [deal EXCEPT !.firstRound = FALSE, !.firstRun = FALSE]
          \/ h = [deal EXCEPT !.lastTurn = last, !.turn = last, !.firstRun = FALSE]
      BY DEF PreflopFirstRun
    <2> HIDE DEF last, h
    <2>3. CASE h = deal
      BY <2>3 DEF Keeps, Moves, HandType
    <2>4. CASE h = [deal EXCEPT !.firstRound = FALSE, !.firstRun = FALSE]
      <3>1. h \in HandType
        BY <2>4 DEF HandType
      <3> QED BY <2>4, <3>1 DEF Keeps, InSync, Moves, Chips, HandType
    <2>5. CASE h = [deal EXCEPT !.lastTurn = last, !.turn = last, !.firstRun = FALSE]
      <3>1. h \in HandType
        BY <2>1, <2>5 DEF HandType
      <3> QED BY <2>5, <3>1 DEF Keeps, InSync, Moves, Chips, HandType
    <2> QED BY <2>2, <2>3, <2>4, <2>5
  <1> HIDE DEF h
  <1>2. Keeps(h, h) /\ h \in HandType /\ InSync(h) /\ Moves(deal, h)
    BY <1>1 DEF Keeps, Moves, HandType
  <1>3. Keeps(h, Throw(h)) /\ Throw(h).round = h.round
    BY <1>2, ThrowKeeps
  <1>4. LET g == SwitchRounds(CloseBetting(flop)) IN Keeps(h, g) /\ NoBets(g)
    <2>1. Keeps(h, flop)
      BY <1>2, EnterRoundKeeps DEF FLOP, Rounds
    <2> HIDE DEF flop
    <2>2. Keeps(flop, CloseBetting(flop)) /\ NoBets(CloseBetting(flop))
      BY <2>1, CloseBettingKeeps DEF Keeps
    <2>3. /\ Keeps(CloseBetting(flop), SwitchRounds(CloseBetting(flop)))
          /\ NoBets(SwitchRounds(CloseBetting(flop)))
      BY <2>2, SwitchRoundsKeeps DEF Keeps
    <2>4. Keeps(flop, SwitchRounds(CloseBetting(flop)))
      BY <2>1, <2>2, <2>3, KeepsTransitive DEF Keeps
    <2> QED BY <1>2, <2>1, <2>3, <2>4, KeepsTransitive DEF Keeps
  <1>5. Keeps(h, more) /\ more.round = h.round
    <2>1. next \in Seats \cup {NoSeat}
      BY <1>2 DEF NextRunning, HandType
    <2>2. more \in HandType
      <3> HIDE DEF next
      <3> QED BY <1>2, <2>1, ZenonT(60) DEF HandType
    <2> QED BY <1>2, <2>2 DEF Keeps, InSync, Moves, Chips, HandType
  <1>6. \/ RunPreflop(deal) \in {h, Throw(h), more}
        \/ RunPreflop(deal) = SwitchRounds(CloseBetting(flop))
    BY DEF RunPreflop, h
  <1>7. /\ Keeps(h, RunPreflop(deal))
        /\ RunPreflop(deal).round = h.round \/ NoBets(RunPreflop(deal))
    <2> HIDE DEF more, flop
    <2> QED BY <1>2, <1>3, <1>4, <1>5, <1>6
  <1> QED BY <1>1, <1>2, <1>7, KeepsTransitive

\* LocalBeRo::run: the turn moves on, or the next round begins with all bets in
\* the pot.
LEMMA RunBeRoKeeps ==
    ASSUME NEW deal \in HandType, InSync(deal), deal.round # POST_RIVER
    PROVE  /\ Keeps(deal, RunBeRo(deal))
           /\ RunBeRo(deal).round = deal.round \/ NoBets(RunBeRo(deal))
  <1> DEFINE h == BeRoFirstRound(deal)
             next == NextRunning(h, h.turn)
             closed == SwitchRounds(CloseBetting(h))
             more == [h EXCEPT !.turn = next, !.firstRound = @ /\ next # h.lastTurn]
  <1>1. Keeps(deal, h) /\ h.round = deal.round
    <2>1. SmallBlindSeat(deal) \in Seats
      BY DEF SmallBlindSeat, HandType
    <2>2. \/ h = deal
          \/ h = [deal EXCEPT !.firstRound = FALSE]
          \/ h = [deal EXCEPT !.lastTurn = SmallBlindSeat(deal),
                              !.turn = SmallBlindSeat(deal)]
      BY DEF BeRoFirstRound
    <2> HIDE DEF h
    <2>3. CASE h = deal
      BY <2>3 DEF Keeps, Moves, HandType
    <2>4. CASE h = [deal EXCEPT !.firstRound = FALSE]
      <3>1. h \in HandType
        BY <2>4 DEF HandType
      <3> QED BY <2>4, <3>1 DEF Keeps, InSync, Moves, Chips, HandType
    <2>5. CASE h = [deal EXCEPT !.lastTurn = SmallBlindSeat(deal),
                                !.turn = SmallBlindSeat(deal)]
      <3>1. h \in HandType
        BY <2>1, <2>5 DEF HandType
      <3> QED BY <2>5, <3>1 DEF Keeps, InSync, Moves, Chips, HandType
    <2> QED BY <2>2, <2>3, <2>4, <2>5
  <1> HIDE DEF h
  <1>2. h \in HandType /\ InSync(h) /\ Moves(deal, h)
    BY <1>1 DEF Keeps
  <1>3. Keeps(h, Throw(h)) /\ Throw(h).round = h.round
    BY <1>2, ThrowKeeps
  <1>4. Keeps(h, closed) /\ NoBets(closed)
    <2>1. Keeps(h, CloseBetting(h)) /\ NoBets(CloseBetting(h))
      BY <1>2, CloseBettingKeeps
    <2>2. Keeps(CloseBetting(h), closed) /\ NoBets(closed)
      BY <2>1, SwitchRoundsKeeps DEF Keeps
    <2> QED BY <1>2, <2>1, <2>2, KeepsTransitive DEF Keeps
  <1>5. LET g == EnterRound(closed, h.round + 1) IN Keeps(h, g) /\ NoBets(g)
    <2>1. h.round + 1 \in Rounds
      BY <1>1, <1>2 DEF HandType, Rounds, POST_RIVER
    <2> HIDE DEF closed
    <2>2. /\ Keeps(closed, EnterRound(closed, h.round + 1))
          /\ NoBets(EnterRound(closed, h.round + 1))
      BY <1>4, <2>1, EnterRoundKeeps DEF Keeps
    <2> QED BY <1>2, <1>4, <2>2, KeepsTransitive DEF Keeps
  <1>6. Keeps(h, more) /\ more.round = h.round
    <2>1. next \in Seats \cup {NoSeat}
      BY <1>2 DEF NextRunning, HandType
    <2>2. more \in HandType
      <3> HIDE DEF next
      <3> QED BY <1>2, <2>1, ZenonT(60) DEF HandType
    <2> QED BY <1>2, <2>2 DEF Keeps, InSync, Moves, Chips, HandType
  <1>7. RunBeRo(deal) \in {Throw(h), more, closed, EnterRound(closed, h.round + 1)}
    BY DEF RunBeRo, h
  <1>8. /\ Keeps(h, RunBeRo(deal))
        /\ RunBeRo(deal).round = h.round \/ NoBets(RunBeRo(deal))
    <2> HIDE DEF more, closed
    <2> QED BY <1>3, <1>4, <1>5, <1>6, <1>7
  <1> QED BY <1>1, <1>2, <1>8, KeepsTransitive

\* One pass of the engine loses no chips and ends a hand with no bets left.
LEMMA PlayHandKeeps ==
    ASSUME NEW deal \in HandType, InSync(deal)
    PROVE  /\ Keeps(deal, PlayHand(deal))
           /\ deal.round # POST_RIVER => Settled(PlayHand(deal))
  <1> DEFINE h == SwitchRounds(deal)
  <1>1. Keeps(deal, h) /\ (deal.round # POST_RIVER => Settled(h))
    BY SwitchRoundsKeeps DEF Settled
  <1> HIDE DEF h
  <1>2. h \in HandType /\ InSync(h) /\ Moves(deal, h)
    BY <1>1 DEF Keeps
  <1>3. CASE h.allIn \/ h.round = POST_RIVER
    <2>1. PlayHand(deal) = h
      BY <1>3 DEF PlayHand, h
    <2> QED BY <1>1, <2>1
  <1>4. CASE ~(h.allIn \/ h.round = POST_RIVER) /\ h.round = PREFLOP
    <2>1. PlayHand(deal) = RunPreflop(h)
      BY <1>4 DEF PlayHand, h
    <2>2. Keeps(h, PlayHand(deal)) /\ Settled(PlayHand(deal))
      BY <1>2, <1>4, <2>1, RunPreflopKeeps DEF Settled
    <2> QED BY <1>2, <2>2, KeepsTransitive
  <1>5. CASE ~(h.allIn \/ h.round = POST_RIVER) /\ h.round # PREFLOP
    <2>1. PlayHand(deal) = RunBeRo(h)
      BY <1>5 DEF PlayHand, h
    <2>2. Keeps(h, PlayHand(deal)) /\ Settled(PlayHand(deal))
      BY <1>2, <1>5, <2>1, RunBeRoKeeps DEF Settled
    <2> QED BY <1>2, <2>2, KeepsTransitive
  <1> QED BY <1>3, <1>4, <1>5

\* PerformPlayerAction moves the player's bet, and the cached sum follows.
LEMMA PerformPlayerActionKeeps ==
    ASSUME NEW h \in HandType, InSync(h), NEW action \in Actions, NEW bet \in Int,
           NEW s \in Seats \cup {NoSeat},
           action \notin {"fold", "check"} => s \in Seats,
           action = "bet" => bet \in Nat
    PROVE  /\ Keeps(h, PerformPlayerAction(h, s, action, bet))
           /\ PerformPlayerAction(h, s, action, bet).round = h.round
  <1> DEFINE acted == [h EXCEPT !.action[s] = action]
             paid == SetMySet(acted, s, bet)
             highest == IF paid.set[s] > paid.highestSet THEN paid.set[s] ELSE paid.highestSet
             least == NewMinimumRaise(h, s, action, bet, paid.set[s])
             raised == [paid EXCEPT !.highestSet = highest, !.minimumRaise = least]
  <1>1. acted \in HandType
    BY DEF HandType
  <1>2. InSync(acted) /\ Moves(h, acted) /\ acted.round = h.round
    BY DEF HandType, InSync, Moves, Chips
  <1> HIDE DEF acted
  <1>3. CASE action \in {"fold", "check"}
    <2>1. PerformPlayerAction(h, s, action, bet) = acted
      BY <1>3 DEF PerformPlayerAction, acted
    <2> QED BY <1>1, <1>2, <2>1 DEF Keeps
  <1>4. CASE action \notin {"fold", "check"}
    <2>1. paid \in HandType /\ Moves(acted, paid)
      BY <1>1, <1>4, SetMySetMoves
    <2>2. paid.round = h.round
      BY <1>1, <1>2 DEF SetMySet, HandType
    <2> HIDE DEF paid
    <2>3. highest \in Nat /\ least \in Nat
      BY <1>4, <2>1 DEF NewMinimumRaise, HandType
    <2> HIDE DEF highest, least
    <2>4. raised \in HandType /\ raised.round = h.round
      BY <2>1, <2>2, <2>3 DEF HandType
    <2>5. Moves(paid, raised)
      BY <2>1 DEF Moves, Chips, HandType
    <2>6. Moves(h, raised)
      BY <1>1, <1>2, <2>1, <2>4, <2>5 DEF Moves, HandType
    <2>7. PerformPlayerAction(h, s, action, bet) = CollectSets(raised)
      BY <1>4 DEF PerformPlayerAction, acted, paid, highest, least
    <2> HIDE DEF raised
    <2> QED BY <2>4, <2>6, <2>7, CollectSetsKeeps, KeepsTransitive
  <1> QED BY <1>3, <1>4

(***************************************************************************)
(* The payout                                                              *)
(***************************************************************************)

\* The state of the level loop.
LoopType ==
    [cash : [Seats -> Nat], pot : Int, carry : Nat, won : SUBSET Seats,
     left : [Seats -> Nat]]

\* Of the players in a set at least one has the best hand.
LEMMA BestExists ==
    ASSUME NEW h \in HandType, NEW S \in SUBSET Seats, S # {}
    PROVE  Best(h, S) # {} /\ Best(h, S) \subseteq S
  <1>1. h.value[0] \in Int /\ h.value[1] \in Int
    BY DEF HandType, CardValues, Seats
  <1>2. S = {0} \/ S = {1} \/ S = {0, 1}
    BY DEF Seats
  <1> QED BY <1>1, <1>2 DEF Best

\* The shares of a level add up to the level.
LEMMA SharesAddUp ==
    ASSUME NEW h \in HandType, NEW W \in SUBSET Seats, W # {}, NEW sum \in Nat
    PROVE  /\ Share(h, W, sum, 0) \in Nat /\ Share(h, W, sum, 1) \in Nat
           /\ Share(h, W, sum, 0) + Share(h, W, sum, 1) = sum
  <1>1. W = {0} \/ W = {1} \/ W = {0, 1}
    BY DEF Seats
  <1>2. h.dealer = 0 \/ h.dealer = 1
    BY DEF HandType, Seats
  <1>3. 2 * (sum \div 2) + (sum % 2) = sum /\ sum \div 2 \in Nat /\ sum % 2 \in Nat
    OBVIOUS
  <1>4. CASE W = {0}
    BY <1>4 DEF Share
  <1>5. CASE W = {1}
    BY <1>5 DEF Share
  <1>6. CASE W = {0, 1}
    BY <1>2, <1>3, <1>6 DEF Share, Other
  <1> QED BY <1>1, <1>4, <1>5, <1>6

\* q is the state of the loop after a pass that paid out the level, or carried
\* it over.
LevelDone(h, p, amount, sum, q) ==
    /\ q \in LoopType
    /\ \A s \in Seats :
          q.left[s] = IF p.left[s] < amount THEN 0 ELSE p.left[s] - amount
    /\ IsFinalPot(h, p, amount) =>
          /\ q.cash[0] + q.cash[1] = p.cash[0] + p.cash[1] + sum
          /\ q.pot = p.pot - sum
          /\ q.carry = 0
    /\ ~IsFinalPot(h, p, amount) =>
          q.cash = p.cash /\ q.pot = p.pot /\ q.carry = sum

\* A pass of the level loop pays the level out in full, or carries it over.
LEMMA PayLevelPays ==
    ASSUME NEW h \in HandType, NonFold(h) # {}, NEW p \in LoopType,
           NEW amount \in Nat, NEW sum \in Nat
    PROVE  LevelDone(h, p, amount, sum, PayLevel(h, p, amount, sum))
  <1> USE DEF LevelDone
  <1> DEFINE q == PayLevel(h, p, amount, sum)
             winners == LevelWinners(h, p, amount)
             left == [s \in Seats |-> p.left[s] - Clamp(amount, p.left[s])]
             cash == [s \in Seats |-> p.cash[s] + Share(h, winners, sum, s)]
  <1>1. winners \in SUBSET Seats /\ winners # {}
    <2>1. NonFold(h) \in SUBSET Seats
      BY DEF NonFold
    <2>2. {s \in NonFold(h) : p.left[s] >= amount} \in SUBSET Seats
      BY <2>1
    <2> QED BY <2>1, <2>2, BestExists DEF LevelWinners
  <1> HIDE DEF winners
  <1>2. left \in [Seats -> Nat]
        /\ \A s \in Seats :
              left[s] = IF p.left[s] < amount THEN 0 ELSE p.left[s] - amount
    BY DEF Clamp, LoopType
  <1>3. cash \in [Seats -> Nat] /\ cash[0] + cash[1] = p.cash[0] + p.cash[1] + sum
    <2>1. /\ Share(h, winners, sum, 0) \in Nat /\ Share(h, winners, sum, 1) \in Nat
          /\ Share(h, winners, sum, 0) + Share(h, winners, sum, 1) = sum
      BY <1>1, SharesAddUp
    <2>2. p.cash[0] \in Nat /\ p.cash[1] \in Nat
      BY DEF LoopType, Seats
    <2>3. /\ cash[0] = p.cash[0] + Share(h, winners, sum, 0)
          /\ cash[1] = p.cash[1] + Share(h, winners, sum, 1)
      BY DEF Seats
    <2>4. cash \in [Seats -> Nat]
      <3> SUFFICES ASSUME NEW s \in Seats
                   PROVE  p.cash[s] + Share(h, winners, sum, s) \in Nat
        OBVIOUS
      <3> QED BY <2>1, <2>2 DEF Seats
    <2> QED BY <2>1, <2>2, <2>3, <2>4
  <1>4. CASE IsFinalPot(h, p, amount)
    <2>1. q = [cash |-> cash, pot |-> p.pot - sum, left |-> left, carry |-> 0,
               won |-> p.won \cup winners]
      BY <1>4 DEF PayLevel, winners
    <2> HIDE DEF cash, left, q
    <2>2. q \in LoopType
      BY <1>1, <1>2, <1>3, <2>1 DEF LoopType
    <2> QED BY <1>2, <1>3, <1>4, <2>1, <2>2 DEF q
  <1>5. CASE ~IsFinalPot(h, p, amount)
    <2>1. q = [p EXCEPT !.left = left, !.carry = sum]
      BY <1>5 DEF PayLevel
    <2> HIDE DEF left, q
    <2>2. q \in LoopType
      BY <1>2, <2>1 DEF LoopType
    <2>3. q.cash = p.cash /\ q.pot = p.pot /\ q.carry = sum /\ q.left = left
      BY <2>1 DEF LoopType
    <2> QED BY <1>2, <1>5, <2>2, <2>3 DEF q
  <1> QED BY <1>4, <1>5

\* The two passes of the level loop pay out all that was contributed.
LEMMA PotLevelsPay ==
    ASSUME NEW h \in HandType, NonFold(h) # {},
           \A s \in Seats : h.cash[s] <= h.start[s],
           h.start[0] + h.start[1] = h.cash[0] + h.cash[1] + h.pot
    PROVE  LET q == PotLevels(h)
           IN /\ q \in LoopType
              /\ q.pot = 0
              /\ q.cash[0] + q.cash[1] = h.start[0] + h.start[1]
  <1> DEFINE c == [s \in Seats |-> Contribution(h, s)]
             p == [cash |-> h.cash, pot |-> h.pot, carry |-> 0, won |-> {}, left |-> c]
             low == IF c[0] <= c[1] THEN c[0] ELSE c[1]
             q == LowLevel(h, p)
             high == IF q.left[0] <= q.left[1] THEN q.left[1] ELSE q.left[0]
             r == HighLevel(h, q)
  <1>1. /\ c \in [Seats -> Nat] /\ c[0] + c[1] = h.pot
        /\ h.cash[0] \in Nat /\ h.cash[1] \in Nat /\ h.pot \in Nat
    BY DEF Contribution, HandType, Seats
  <1>2. c[0] \in Nat /\ c[1] \in Nat
    BY <1>1 DEF Seats
  <1>3. p \in LoopType /\ p.left = c /\ p.pot = h.pot /\ p.cash = h.cash /\ p.carry = 0
    <2> HIDE DEF c
    <2> QED BY <1>1 DEF LoopType, HandType
  <1>4. PotLevels(h) = r
    BY DEF PotLevels
  <1> HIDE DEF c, p
  \* After the first pass one contribution is used up, and what is left of the
  \* pot is the other one and the level carried over.
  <1>5. /\ q \in LoopType
        /\ q.cash[0] + q.cash[1] + q.pot = h.start[0] + h.start[1]
        /\ q.pot = q.left[0] + q.left[1] + q.carry
        /\ q.left[0] = 0 \/ q.left[1] = 0
        /\ q.left[0] = 0 /\ q.left[1] = 0 => q.carry = 0
    <2>1. low \in Nat /\ low <= c[0] /\ low <= c[1] /\ (low = c[0] \/ low = c[1])
      BY <1>2
    <2>2. CASE low = 0
      <3>1. q = p
        BY <1>3, <2>2 DEF LowLevel
      <3> QED BY <1>1, <1>2, <1>3, <2>1, <2>2, <3>1 DEF HandType, Seats
    <2>3. CASE low # 0
      <3>1. q = PayLevel(h, p, low, 2 * low)
        <4>1. q = PayLevel(h, p, low, 2 * low + p.carry)
          BY <1>3, <2>3 DEF LowLevel
        <4> QED BY <1>3, <2>1, <4>1
      <3> HIDE DEF low, q
      <3>2. /\ q \in LoopType
            /\ q.left[0] = c[0] - low /\ q.left[1] = c[1] - low
            /\ IsFinalPot(h, p, low) =>
                 /\ q.cash[0] + q.cash[1] = h.cash[0] + h.cash[1] + 2 * low
                 /\ q.pot = h.pot - 2 * low
                 /\ q.carry = 0
            /\ ~IsFinalPot(h, p, low) =>
                 q.cash = h.cash /\ q.pot = h.pot /\ q.carry = 2 * low
        <4>1. 2 * low \in Nat /\ 0 \in Seats /\ 1 \in Seats
          BY <2>1 DEF Seats
        <4>2. LevelDone(h, p, low, 2 * low, q)
          BY <1>3, <2>1, <3>1, <4>1, PayLevelPays
        <4>3. q.left[0] = c[0] - low /\ q.left[1] = c[1] - low
          <5>1. /\ q.left[0] = IF c[0] < low THEN 0 ELSE c[0] - low
                /\ q.left[1] = IF c[1] < low THEN 0 ELSE c[1] - low
            BY <1>3, <4>1, <4>2 DEF LevelDone
          <5> QED BY <1>2, <2>1, <5>1
        <4> QED BY <1>3, <4>2, <4>3 DEF LevelDone
      <3>3. CASE IsFinalPot(h, p, low)
        BY <1>1, <1>2, <2>1, <3>2, <3>3 DEF HandType, Seats
      <3>4. CASE ~IsFinalPot(h, p, low)
        \* A level is carried over because a winner contributed to the next one.
        <4>1. \E s \in Seats : c[s] # low
          <5> DEFINE S == {s \in NonFold(h) : p.left[s] >= low}
          <5>1. S # {} /\ \A s \in Best(h, S) : p.left[s] # low
            BY <3>4 DEF IsFinalPot
          <5>2. S \in SUBSET Seats
            BY DEF NonFold
          <5> HIDE DEF S
          <5>3. PICK s \in Best(h, S) : s \in Seats
            BY <5>1, <5>2, BestExists
          <5> QED BY <1>3, <5>1, <5>3
        <4>2. ~(q.left[0] = 0 /\ q.left[1] = 0)
          BY <1>2, <2>1, <3>2, <4>1 DEF Seats
        <4> QED BY <1>1, <1>2, <2>1, <3>2, <3>4, <4>2 DEF HandType, Seats
      <3> QED BY <3>3, <3>4
    <2> QED BY <2>2, <2>3
  <1> HIDE DEF q
  \* The second pass pays all of that.
  <1>6. /\ q.left[0] \in Nat /\ q.left[1] \in Nat /\ q.carry \in Nat
        /\ q.cash[0] \in Nat /\ q.cash[1] \in Nat
    BY <1>5 DEF LoopType, Seats
  <1>7. high \in Nat /\ q.left[0] <= high /\ q.left[1] <= high
        /\ q.pot = high + q.carry
    BY <1>5, <1>6
  <1>8. CASE high = 0
    <2>1. r = q
      BY <1>8 DEF HighLevel
    <2>2. q.pot = 0
      BY <1>5, <1>6, <1>7, <1>8
    <2>3. q.cash[0] + q.cash[1] = h.start[0] + h.start[1]
      <3>1. h.start[0] \in Nat /\ h.start[1] \in Nat
        BY DEF HandType, Seats
      <3>2. q.cash[0] + q.cash[1] + 0 = h.start[0] + h.start[1]
        BY <1>5, <2>2
      <3> QED BY <1>6, <3>1, <3>2
    <2> HIDE DEF r
    <2> QED BY <1>4, <1>5, <2>1, <2>2, <2>3
  <1>9. CASE high # 0
    <2>1. r = PayLevel(h, q, high, high + q.carry)
      BY <1>9 DEF HighLevel
    <2> HIDE DEF high, r
    <2>2. IsFinalPot(h, q, high)
      <3> DEFINE S == {s \in NonFold(h) : q.left[s] >= high}
      <3>1. SUFFICES ASSUME S # {} PROVE \E s \in Best(h, S) : q.left[s] = high
        BY DEF IsFinalPot
      <3>2. S \in SUBSET Seats /\ \A s \in S : q.left[s] = high
        BY <1>6, <1>7 DEF NonFold, Seats
      <3> HIDE DEF S
      <3> QED BY <3>1, <3>2, BestExists
    <2>3. high + q.carry \in Nat
      BY <1>6, <1>7
    <2>4. /\ r \in LoopType
          /\ r.cash[0] + r.cash[1] = q.cash[0] + q.cash[1] + (high + q.carry)
          /\ r.pot = q.pot - (high + q.carry)
      <3>1. LevelDone(h, q, high, high + q.carry, r)
        BY <1>5, <1>7, <2>1, <2>3, PayLevelPays
      <3> QED BY <2>2, <3>1 DEF LevelDone
    <2> QED BY <1>4, <1>5, <1>6, <1>7, <2>3, <2>4
  <1> QED BY <1>8, <1>9

\* Paying out the pot changes the stacks and the pot only.
LEMMA EmptyPotType ==
    ASSUME NEW h \in HandType, NEW cash \in [Seats -> Nat]
    PROVE  LET g == [h EXCEPT !.cash = cash, !.pot = 0]
           IN /\ g \in HandType /\ g.cash = cash /\ g.pot = 0
              /\ g.set = h.set /\ g.sets = h.sets
  BY DEF HandType

\* LocalBoard::distributePot pays the players exactly the pot.
LEMMA PostRiverRunPays ==
    ASSUME NEW h \in HandType, NonFold(h) # {},
           \A s \in Seats : h.cash[s] <= h.start[s],
           h.start[0] + h.start[1] = h.cash[0] + h.cash[1] + h.pot
    PROVE  LET g == PostRiverRun(h)
           IN /\ g \in HandType
              /\ g.cash[0] + g.cash[1] = h.start[0] + h.start[1]
              /\ g.pot = 0 /\ g.set = h.set /\ g.sets = h.sets
  <1> DEFINE q == PotLevels(h)
  <1>1. q \in LoopType /\ q.pot = 0 /\ q.cash[0] + q.cash[1] = h.start[0] + h.start[1]
    BY PotLevelsPay
  <1> HIDE DEF q
  <1>2. PayRemainder(q) = q.cash /\ q.cash \in [Seats -> Nat]
    BY <1>1 DEF PayRemainder, LoopType
  <1>3. DistributePot(h) = [h EXCEPT !.cash = q.cash, !.pot = 0]
    BY <1>2 DEF DistributePot, q
  <1>4. /\ DistributePot(h) \in HandType /\ DistributePot(h).cash = q.cash
        /\ DistributePot(h).set = h.set /\ DistributePot(h).sets = h.sets
    <2>1. LET g == [h EXCEPT !.cash = q.cash, !.pot = 0]
          IN /\ g \in HandType /\ g.cash = q.cash /\ g.pot = 0
             /\ g.set = h.set /\ g.sets = h.sets
      BY <1>2, EmptyPotType
    <2> QED BY <1>3, <2>1
  <1> HIDE DEF q
  <1>5. /\ PostRiverRun(h) \in HandType /\ PostRiverRun(h).cash = q.cash
        /\ PostRiverRun(h).pot = 0
        /\ PostRiverRun(h).set = h.set /\ PostRiverRun(h).sets = h.sets
    <2>1. DistributePot(h).cash \in [Seats -> Nat]
      BY <1>2, <1>4
    <2>2. PostRiverRun(h) = [DistributePot(h) EXCEPT !.cash = DistributePot(h).cash, !.pot = 0]
      BY <1>4 DEF PostRiverRun, HandType
    <2>3. LET d == DistributePot(h)
              g == [d EXCEPT !.cash = d.cash, !.pot = 0]
          IN /\ g \in HandType /\ g.cash = d.cash /\ g.pot = 0
             /\ g.set = d.set /\ g.sets = d.sets
      BY <1>4, <2>1, EmptyPotType
    <2> QED BY <1>4, <2>2, <2>3
  <1> QED BY <1>1, <1>5

(***************************************************************************)
(* How a hand is played: from a hand the engine can go on with, a pass of  *)
(* the engine never throws, and ends with the next round or with a player  *)
(* who may be asked, the betting not being settled; an action of that      *)
(* player gives a hand the engine can go on with; and the pot is paid out  *)
(* by the rules.                                                           *)
(***************************************************************************)

\* highestSet is the highest bet; before the flop it is at least that.
Highest(h) ==
    /\ \A s \in Seats : h.set[s] <= h.highestSet
    /\ h.round # PREFLOP => \E s \in Seats : h.highestSet = h.set[s]

OutOfBetting == {"fold", "allin"}

(***************************************************************************)
(* The betting of the round can go on.  Before the flop the first pass     *)
(* gives the turn to a player; afterwards it is with a running one.  After *)
(* the flop every pass starts the first round over (see                    *)
(* ServerTable!TurnPasses), until the big blind is all in and the small    *)
(* blind has to answer.                                                    *)
(***************************************************************************)
BettingGoesOn(h) ==
    \/ /\ h.round = PREFLOP
       /\ IF h.firstRun THEN h.running = Seats ELSE h.turn \in h.running
    \/ /\ h.round # PREFLOP /\ h.firstRound
       /\ h.running = Seats
       /\ h.action[SmallBlindSeat(h)] \notin OutOfBetting
    \/ /\ h.round # PREFLOP /\ ~h.firstRound
       /\ h.turn = SmallBlindSeat(h) /\ h.running = {SmallBlindSeat(h)}
       /\ h.action[BigBlindSeat(h)] = "allin"

\* A hand with which a pass of the engine can begin.
ReadyToPlay(h) ==
    /\ NonFold(h) # {}
    /\ \A s \in Seats \ h.running : h.action[s] \in OutOfBetting
    /\ h.allIn \/ BettingGoesOn(h)

\* A hand in which the player whose turn it is may be asked: the betting is not
\* settled, he is not all in, and whom a blind left without chips has acted.
Decides(h) ==
    /\ ReadyToPlay(h)
    /\ h.turn \in h.running
    /\ h.action[h.turn] # "allin"
    /\ NonFold(h) = Seats
    /\ ~h.allIn
    /\ h.action[Other(h.turn)] = "allin" => h.set[h.turn] < h.highestSet
    /\ h.round = PREFLOP => ~h.firstRun
    /\ h.round # PREFLOP /\ h.firstRound => h.turn = BigBlindSeat(h)

\* From h to g nobody's stack and cards change, nobody folds, and who is all in
\* stays so.
SamePlayers(h, g) ==
    /\ g.cash = h.cash /\ g.start = h.start /\ g.value = h.value
    /\ g.dealer = h.dealer /\ g.smallBlind = h.smallBlind
    /\ \A s \in Seats : g.action[s] = "fold" <=> h.action[s] = "fold"
    /\ \A s \in Seats : h.action[s] = "allin" => g.action[s] = "allin"

\* Nor do the bets, the pot and what the next bet has to be.
SameBets(h, g) ==
    /\ g.set = h.set /\ g.sets = h.sets /\ g.pot = h.pot
    /\ g.highestSet = h.highestSet /\ g.minimumRaise = h.minimumRaise

(***************************************************************************)
(* What the operations of a pass do to the fields they are about           *)
(***************************************************************************)

\* A new round has no highest bet yet and its turn is not decided.
LEMMA EnterRoundFields ==
    ASSUME NEW h \in HandType, NEW r \in Rounds, r # PREFLOP
    PROVE  LET g == EnterRound(h, r)
           IN /\ SamePlayers(h, g) /\ g.action = h.action /\ g.running = h.running
              /\ g.set = h.set /\ g.allIn = h.allIn /\ g.error = h.error
              /\ g.round = r /\ g.highestSet = 0
              /\ g.firstRound = TRUE /\ g.turn = NoSeat
  BY DEF EnterRound, HandType, SamePlayers

\* Moving the bets to the pot leaves no bets.
LEMMA CollectPotFields ==
    ASSUME NEW h \in HandType
    PROVE  LET g == CollectPot(h)
           IN /\ SamePlayers(h, g) /\ g.action = h.action /\ g.running = h.running
              /\ NoBets(g) /\ g.allIn = h.allIn /\ g.error = h.error
              /\ g.round = h.round /\ g.highestSet = h.highestSet
              /\ g.firstRound = h.firstRound /\ g.turn = h.turn
  BY DEF CollectPot, HandType, SamePlayers, NoBets

\* Who folded or is all in no longer runs; the turn stays with a player who does.
LEMMA RefreshRunningFields ==
    ASSUME NEW h \in HandType
    PROVE  LET g == RefreshRunning(h)
           IN /\ SamePlayers(h, g) /\ SameBets(h, g) /\ g.action = h.action
              /\ g.running = {s \in h.running : h.action[s] \notin OutOfBetting}
              /\ g.set = h.set /\ g.allIn = h.allIn /\ g.error = h.error
              /\ g.round = h.round /\ g.highestSet = h.highestSet
              /\ g.firstRound = h.firstRound /\ g.firstRun = h.firstRun
              /\ g.running = h.running => g.turn = h.turn
              /\ \A s \in Seats : g.running = {s} /\ h.running # {s} => g.turn = s
  <1> DEFINE leaving == {s \in h.running : h.action[s] \in {"fold", "allin"}}
             left == h.running \ leaving
             before == IF leaving = {} THEN h.turn
                       ELSE IF left = {0} THEN 0
                       ELSE IF left = {1} THEN 1
                       ELSE IF leaving = Seats THEN 1 ELSE h.turn
             g == [h EXCEPT !.running = left, !.turn = before]
  <1>1. RefreshRunning(h) = g
    BY DEF RefreshRunning
  <1>2. left = {s \in h.running : h.action[s] \notin OutOfBetting}
    BY DEF OutOfBetting
  <1>3. left = h.running => leaving = {}
    OBVIOUS
  <1>4. \A s \in Seats : left = {s} /\ h.running # {s} => before = s
    BY DEF Seats
  <1> HIDE DEF left, before, leaving
  <1>5. g.running = left /\ g.turn = before
    BY DEF HandType
  <1>6. left = h.running => before = h.turn
    BY <1>3 DEF before
  <1>7. /\ SamePlayers(h, g) /\ SameBets(h, g) /\ g.action = h.action
        /\ g.set = h.set /\ g.allIn = h.allIn /\ g.error = h.error
        /\ g.round = h.round /\ g.highestSet = h.highestSet
        /\ g.firstRound = h.firstRound /\ g.firstRun = h.firstRun
    BY DEF HandType, SamePlayers, SameBets
  <1> HIDE DEF g
  <1> QED BY <1>1, <1>2, <1>4, <1>5, <1>6, <1>7

\* The end of a betting round clears the actions of the running players.
LEMMA CloseBettingFields ==
    ASSUME NEW h \in HandType, \A s \in h.running : h.action[s] \notin OutOfBetting
    PROVE  LET g == CloseBetting(h)
           IN /\ SamePlayers(h, g)
              /\ g.action = [s \in Seats |-> IF s \in h.running THEN "none" ELSE h.action[s]]
              /\ g.running = h.running
              /\ NoBets(g) /\ g.allIn = h.allIn /\ g.error = h.error
              /\ g.round = h.round /\ g.highestSet = h.highestSet
              /\ g.firstRound = h.firstRound /\ g.turn = h.turn
  <1> DEFINE none == [s \in Seats |-> IF s \in h.running THEN "none" ELSE h.action[s]]
             cleared == [h EXCEPT !.action = none]
             summed == CollectSets(cleared)
  <1>1. none \in [Seats -> Actions]
    BY DEF Actions, HandType
  <1>2. cleared \in HandType
    <2> HIDE DEF none
    <2> QED BY <1>1 DEF HandType
  <1>3. summed \in HandType
    BY <1>2, CollectSetsKeeps DEF Keeps
  <1>4. CloseBetting(h) = CollectPot(summed)
    BY DEF CloseBetting
  <1>5. /\ cleared.action = none
        /\ \A f \in {"cash", "start", "value", "dealer", "smallBlind", "running",
                     "allIn", "error", "round", "highestSet", "firstRound", "turn"} :
              cleared[f] = h[f]
    <2> HIDE DEF none
    <2> QED BY DEF HandType
  <1>6. \A f \in {"action", "cash", "start", "value", "dealer", "smallBlind", "running",
                  "allIn", "error", "round", "highestSet", "firstRound", "turn"} :
           summed[f] = cleared[f]
    <2> HIDE DEF cleared
    <2> QED BY <1>2 DEF HandType, CollectSets
  <1> HIDE DEF cleared, summed
  <1>7. LET g == CollectPot(summed)
        IN /\ SamePlayers(summed, g) /\ g.action = none /\ g.running = h.running
           /\ NoBets(g) /\ g.allIn = h.allIn /\ g.error = h.error
           /\ g.round = h.round /\ g.highestSet = h.highestSet
           /\ g.firstRound = h.firstRound /\ g.turn = h.turn
    <2> HIDE DEF none
    <2> QED BY <1>3, <1>5, <1>6, CollectPotFields
  <1>8. SamePlayers(h, summed)
    <2>1. summed.action = none
      BY <1>5, <1>6
    <2> QED BY <1>5, <1>6, <2>1 DEF SamePlayers, OutOfBetting
  <1> QED BY <1>4, <1>7, <1>8 DEF SamePlayers

(***************************************************************************)
(* A pass of the engine                                                    *)
(***************************************************************************)

\* The hand is over, or the next round begins; an all-in condition stays.
RoundOver(h, g) ==
    /\ SamePlayers(h, g) /\ ~g.error
    /\ h.allIn => g.allIn
    /\ NoBets(g) /\ g.highestSet = 0
    /\ NonFold(g) # {}
    /\ g.round \in Rounds /\ g.round > h.round
    /\ g.round # POST_RIVER => ReadyToPlay(g)

\* Only the players who can still bet run, and if there is just one, his
\* opponent's bet is higher.
CanBet(h, g) ==
    /\ g = RefreshRunning(h) /\ g \in HandType
    /\ SamePlayers(h, g) /\ ~g.error /\ ~g.allIn
    /\ NonFold(g) = Seats
    /\ g.running = {s \in Seats : g.action[s] # "allin"}
    /\ g.running # {}
    /\ g.running # Seats => \A s \in g.running : g.set[s] < g.highestSet

\* LocalHand::switchRounds ends the hand or the round, or leaves it to the
\* players who can still bet.
LEMMA SwitchRoundsPlays ==
    ASSUME NEW deal \in HandType, InSync(deal), deal.round # POST_RIVER,
           ~deal.error, ReadyToPlay(deal)
    PROVE  LET g == SwitchRounds(deal)
           IN \/ RoundOver(deal, g) /\ (g.allIn \/ g.round = POST_RIVER)
              \/ CanBet(deal, g) /\ ~deal.allIn
  <1> DEFINE h == RefreshRunning(deal)
             p == CollectPot(h)
             c == [p EXCEPT !.allIn = TRUE]
             g == SwitchRounds(deal)
  <1>1. /\ h \in HandType /\ InSync(h)
        /\ SamePlayers(deal, h) /\ h.action = deal.action
        /\ h.running = {s \in deal.running : deal.action[s] \notin OutOfBetting}
        /\ h.set = deal.set /\ h.allIn = deal.allIn /\ h.error = deal.error
        /\ h.round = deal.round /\ h.highestSet = deal.highestSet
    BY RefreshRunningKeeps, RefreshRunningFields DEF Keeps
  <1>2. NonFold(h) # {} /\ \A s \in Seats \ deal.running : h.action[s] \in OutOfBetting
    BY <1>1 DEF ReadyToPlay, NonFold
  <1>3. deal.running \in SUBSET Seats /\ deal.round \in Rounds
    BY DEF HandType
  <1>4. h.running = {s \in Seats : h.action[s] \notin OutOfBetting}
    BY <1>1, <1>2, <1>3
  <1> HIDE DEF h
  <1>5. CASE NonFold(h) # Seats
    <2>1. p \in HandType /\ InSync(p)
      BY <1>1, CollectPotKeeps DEF Keeps
    <2>2. /\ SamePlayers(h, p) /\ NoBets(p) /\ p.error = h.error /\ p.action = h.action
          /\ p.allIn = h.allIn
      BY <1>1, CollectPotFields
    <2>3. POST_RIVER \in Rounds /\ POST_RIVER # PREFLOP /\ POST_RIVER > deal.round
      BY <1>3 DEF POST_RIVER, PREFLOP, Rounds
    <2>4. g = EnterRound(p, POST_RIVER)
      BY <1>2, <1>5 DEF SwitchRounds, h, p
    <2> HIDE DEF p, g
    <2>5. /\ SamePlayers(p, g) /\ g.action = p.action /\ g.set = p.set
          /\ g.error = p.error /\ g.round = POST_RIVER /\ g.highestSet = 0
          /\ g.allIn = p.allIn
      BY <2>1, <2>3, <2>4, EnterRoundFields
    <2>6. NonFold(g) = NonFold(h)
      BY <2>2, <2>5 DEF NonFold
    <2>7. NoBets(g) /\ SamePlayers(deal, g)
      BY <1>1, <2>2, <2>5 DEF NoBets, SamePlayers
    <2>8. RoundOver(deal, g)
      BY <1>1, <1>2, <2>2, <2>3, <2>5, <2>6, <2>7 DEF RoundOver
    <2> QED BY <2>5, <2>8 DEF g
  <1>6. CASE NonFold(h) = Seats /\ AllInCondition(h)
    <2>1. p \in HandType /\ InSync(p)
      BY <1>1, CollectPotKeeps DEF Keeps
    <2>2. /\ SamePlayers(h, p) /\ NoBets(p) /\ p.error = h.error /\ p.action = h.action
          /\ p.running = h.running
      BY <1>1, CollectPotFields
    <2> HIDE DEF p
    <2>3. /\ c \in HandType /\ SamePlayers(p, c) /\ NoBets(c) /\ c.error = p.error
          /\ c.action = p.action /\ c.allIn = TRUE /\ c.running = p.running
      BY <2>1, <2>2 DEF HandType, SamePlayers, NoBets
    <2>4. /\ h.round < POST_RIVER /\ h.round + 1 \in Rounds /\ h.round + 1 # PREFLOP
          /\ h.round + 1 > deal.round
      BY <1>1, <1>3 DEF POST_RIVER, PREFLOP, Rounds
    <2>5. g = EnterRound(c, h.round + 1)
      BY <1>6, <2>4 DEF SwitchRounds, h, p, c
    <2> HIDE DEF c, g
    <2>6. /\ SamePlayers(c, g) /\ g.action = c.action /\ g.set = c.set
          /\ g.error = c.error /\ g.round = h.round + 1 /\ g.highestSet = 0
          /\ g.allIn = TRUE /\ g.running = c.running
      BY <2>3, <2>4, <2>5, EnterRoundFields, ZenonT(60)
    <2>7. NonFold(g) = NonFold(h)
      BY <2>2, <2>3, <2>6 DEF NonFold
    <2>8. NoBets(g) /\ SamePlayers(deal, g)
      BY <1>1, <2>2, <2>3, <2>6 DEF NoBets, SamePlayers
    <2>9. ReadyToPlay(g)
      BY <1>2, <1>4, <2>2, <2>3, <2>6, <2>7 DEF ReadyToPlay
    <2>10. RoundOver(deal, g)
      BY <1>1, <1>2, <2>2, <2>3, <2>4, <2>6, <2>7, <2>8, <2>9 DEF RoundOver
    <2> QED BY <2>6, <2>10 DEF g
  <1>7. CASE NonFold(h) = Seats /\ ~AllInCondition(h)
    <2>1. g = h
      BY <1>7 DEF SwitchRounds, h
    <2>2. ~h.allIn /\ AllInSeats(h) # Seats
      BY <1>7 DEF AllInCondition
    <2>3. AllInSeats(h) # {} => \A s \in h.running : ~(h.set[s] >= h.highestSet)
      BY <1>7 DEF AllInCondition, LastRunnerHasHighestSet
    <2>4. h.running = {s \in Seats : h.action[s] # "allin"}
      BY <1>4, <1>7 DEF NonFold, OutOfBetting
    <2>5. h.running # {}
      BY <2>2, <2>4 DEF AllInSeats
    <2>6. \A s \in h.running : h.set[s] \in Nat /\ h.highestSet \in Nat
      BY <1>1, <2>4 DEF HandType
    <2>7. h.running # Seats => \A s \in h.running : h.set[s] < h.highestSet
      <3>1. h.running # Seats => AllInSeats(h) # {}
        BY <2>4 DEF AllInSeats
      <3>2. \A s \in h.running : ~(h.set[s] >= h.highestSet) => h.set[s] < h.highestSet
        BY <2>6
      <3> QED BY <2>3, <3>1, <3>2
    <2>8. CanBet(deal, h) /\ ~deal.allIn
      BY <1>1, <1>7, <2>2, <2>4, <2>5, <2>7 DEF CanBet, h
    <2> QED BY <2>1, <2>8
  <1> QED BY <1>5, <1>6, <1>7

\* The betting round goes on with a player who may be asked.
PlayerAsked(h, g) ==
    /\ ~h.allIn
    /\ SamePlayers(h, g) /\ SameBets(h, g) /\ ~g.error /\ g.round = h.round
    /\ g.action = h.action
    /\ Highest(g) /\ Decides(g)

\* The turn passes among the players who can bet, in the same betting round.
LEMMA TurnGiven ==
    ASSUME NEW deal \in HandType, NEW h, CanBet(deal, h), Highest(deal),
           NEW g \in HandType, SamePlayers(h, g), SameBets(h, g), ~g.error, ~g.allIn,
           g.action = h.action, g.round = h.round, g.running = h.running,
           g.turn \in g.running, BettingGoesOn(g),
           g.round = PREFLOP => ~g.firstRun,
           g.round # PREFLOP /\ g.firstRound => g.turn = BigBlindSeat(g)
    PROVE  PlayerAsked(deal, g)
  <1>1. /\ h = RefreshRunning(deal) /\ SamePlayers(deal, h)
        /\ NonFold(h) = Seats
        /\ h.running = {s \in Seats : h.action[s] # "allin"}
        /\ h.running # Seats => \A s \in h.running : h.set[s] < h.highestSet
    BY DEF CanBet
  <1>2. /\ h.round = deal.round /\ SameBets(deal, h) /\ ~deal.allIn
        /\ h.action = deal.action
    BY <1>1, RefreshRunningFields DEF CanBet
  <1>3. Highest(g)
    BY <1>2 DEF Highest, SameBets
  <1>4. NonFold(g) = Seats
    BY <1>1 DEF NonFold
  <1>5. ReadyToPlay(g)
    <2>1. \A s \in Seats \ g.running : g.action[s] = "allin"
      BY <1>1
    <2> QED BY <1>4, <2>1 DEF ReadyToPlay, OutOfBetting, Seats
  <1>6. g.action[Other(g.turn)] = "allin" => g.set[g.turn] < g.highestSet
    <2>1. g.turn \in Seats /\ Other(g.turn) \in Seats
      BY <1>1 DEF Seats, Other
    <2>2. g.action[Other(g.turn)] = "allin" => h.running # Seats
      BY <1>1, <2>1
    <2> QED BY <1>1, <2>2 DEF SameBets
  <1>7. SamePlayers(deal, g) /\ SameBets(deal, g)
    BY <1>1, <1>2 DEF SamePlayers, SameBets
  <1>8. g.action[g.turn] # "allin"
    BY <1>1
  <1> QED BY <1>2, <1>3, <1>4, <1>5, <1>6, <1>7, <1>8 DEF PlayerAsked, Decides

\* Before the flop a player is asked, or both have matched the highest bet and
\* the flop begins.
LEMMA RunPreflopPlays ==
    ASSUME NEW deal \in HandType, InSync(deal), deal.round = PREFLOP,
           ReadyToPlay(deal), ~deal.allIn, Highest(deal),
           NEW h, CanBet(deal, h)
    PROVE  LET g == RunPreflop(h) IN RoundOver(deal, g) \/ PlayerAsked(deal, g)
  <1> DEFINE k == PreflopFirstRun(h)
             last == IF BigBlindSeat(h) \in h.running
                     THEN BigBlindSeat(h) ELSE SmallBlindSeat(h)
             next == NextRunning(k, k.turn)
             g == RunPreflop(h)
  <1>1. /\ h \in HandType /\ SamePlayers(deal, h) /\ ~h.error /\ ~h.allIn
        /\ NonFold(h) = Seats
        /\ h.running = {s \in Seats : h.action[s] # "allin"} /\ h.running # {}
        /\ h.running # Seats => \A s \in h.running : h.set[s] < h.highestSet
    BY DEF CanBet
  <1>2. /\ h.round = PREFLOP /\ h.firstRun = deal.firstRun
        /\ h.running = deal.running => h.turn = deal.turn
        /\ \A s \in Seats : h.running = {s} /\ deal.running # {s} => h.turn = s
        /\ h.running \subseteq deal.running
    BY RefreshRunningFields DEF CanBet
  <1>3. h.running = {0} \/ h.running = {1} \/ h.running = Seats
    BY <1>1 DEF Seats
  <1>4. ~h.firstRun => h.turn \in h.running
    <2>1. ~deal.firstRun => deal.turn \in deal.running
      BY DEF ReadyToPlay, BettingGoesOn
    <2>2. deal.running \in SUBSET Seats
      BY DEF HandType
    <2> QED BY <1>2, <1>3, <2>1, <2>2 DEF Seats
  <1>5. last \in h.running
    BY <1>1, <1>3 DEF SmallBlindSeat, BigBlindSeat, Other, Seats, HandType
  <1>6. /\ k \in HandType /\ InSync(k) /\ SamePlayers(h, k) /\ k.error = h.error
        /\ k.allIn = h.allIn /\ k.action = h.action /\ k.set = h.set /\ k.round = PREFLOP
        /\ k.highestSet = h.highestSet /\ k.running = h.running
        /\ k.turn \in h.running /\ k.firstRun = FALSE /\ SameBets(h, k)
    <2>1. InSync(h)
      BY RefreshRunningKeeps DEF CanBet, Keeps
    <2>2. CASE ~h.firstRun
      <3>1. k = h
        BY <2>2 DEF PreflopFirstRun
      <3> QED BY <1>1, <1>2, <1>4, <2>1, <2>2, <3>1
              DEF SamePlayers, SameBets, HandType
    <2>3. CASE h.firstRun
      <3>1. k = [h EXCEPT !.lastTurn = last, !.turn = last, !.firstRun = FALSE]
        BY <1>1, <2>3 DEF PreflopFirstRun
      <3>2. last \in Seats
        BY <1>1, <1>5
      <3> HIDE DEF k, last
      <3> QED BY <1>1, <1>2, <1>5, <2>1, <3>1, <3>2, ZenonT(60)
              DEF HandType, SamePlayers, SameBets, InSync
    <2> QED BY <2>2, <2>3
  <1>7. g = IF ~k.firstRound /\ AllHighestSet(k)
            THEN SwitchRounds(CloseBetting(EnterRound(k, FLOP)))
            ELSE [k EXCEPT !.turn = next, !.firstRound = @ /\ next # k.lastTurn]
    <2>1. k.running # {} /\ k.turn \in k.running
      BY <1>1, <1>6
    <2> QED BY <2>1 DEF RunPreflop
  <1> HIDE DEF k, last, g
  <1>8. CASE ~k.firstRound /\ AllHighestSet(k)
    <2> DEFINE flop == EnterRound(k, FLOP)
               e == CloseBetting(flop)
               r == RefreshRunning(e)
    <2>1. h.running = Seats
      <3>1. \A s \in h.running : ~(h.set[s] < h.highestSet)
        <4>1. \A s \in h.running : h.set[s] = h.highestSet
          BY <1>6, <1>8 DEF AllHighestSet
        <4>2. h.highestSet \in Nat
          BY <1>1 DEF HandType
        <4> QED BY <4>1, <4>2
      <3> QED BY <1>1, <3>1
    <2>2. FLOP \in Rounds /\ FLOP # PREFLOP /\ FLOP > PREFLOP /\ FLOP # POST_RIVER
      BY DEF FLOP, PREFLOP, Rounds, POST_RIVER
    <2>3. /\ flop \in HandType
          /\ SamePlayers(k, flop) /\ flop.action = k.action /\ flop.running = Seats
          /\ flop.allIn = k.allIn /\ flop.error = k.error
          /\ flop.round = FLOP /\ flop.highestSet = 0 /\ flop.firstRound = TRUE
      BY <1>6, <2>1, <2>2, EnterRoundFields, EnterRoundKeeps DEF Keeps
    <2> HIDE DEF flop
    <2>4. \A s \in flop.running : flop.action[s] \notin OutOfBetting
      BY <1>1, <1>6, <2>1, <2>3 DEF NonFold, OutOfBetting
    <2>5. /\ e \in HandType /\ SamePlayers(flop, e)
          /\ e.action = [s \in Seats |-> "none"] /\ e.running = Seats
          /\ NoBets(e) /\ e.allIn = FALSE /\ ~e.error
          /\ e.round = FLOP /\ e.highestSet = 0 /\ e.firstRound = TRUE
      <3>1. e.action = [s \in Seats |-> "none"]
        <4>1. e.action = [s \in Seats |-> IF s \in flop.running THEN "none"
                                                               ELSE flop.action[s]]
          BY <2>3, <2>4, CloseBettingFields
        <4> QED BY <2>3, <4>1
      <3>2. k.allIn = FALSE
        BY <1>1, <1>6 DEF HandType
      <3> QED BY <1>1, <1>6, <2>3, <2>4, <3>1, <3>2, CloseBettingFields, CloseBettingKeeps
              DEF Keeps
    <2> HIDE DEF e
    <2>6. /\ r \in HandType /\ SamePlayers(e, r) /\ r.action = [s \in Seats |-> "none"]
          /\ r.running = Seats /\ NoBets(r) /\ r.allIn = FALSE /\ ~r.error
          /\ r.round = FLOP /\ r.highestSet = 0 /\ r.firstRound = TRUE
      <3>1. e.running = {s \in e.running : e.action[s] \notin OutOfBetting}
        BY <2>5 DEF OutOfBetting
      <3>2. InSync(e)
        BY <2>3, CloseBettingKeeps DEF e, Keeps
      <3> QED BY <2>5, <3>1, <3>2, RefreshRunningFields, RefreshRunningKeeps
              DEF Keeps, NoBets
    <2> HIDE DEF r
    <2>7. NonFold(r) = Seats /\ AllInSeats(r) = {}
      BY <2>6 DEF NonFold, AllInSeats
    <2>8. g = r
      <3>1. ~AllInCondition(r)
        BY <2>6, <2>7 DEF AllInCondition, Seats
      <3>2. SwitchRounds(e) = r
        BY <2>7, <3>1 DEF SwitchRounds, r
      <3> QED BY <1>7, <1>8, <3>2 DEF e, flop
    <2>9. ReadyToPlay(r)
      <3>1. SmallBlindSeat(r) \in Seats
        BY <2>6 DEF SmallBlindSeat, HandType
      <3>2. BettingGoesOn(r)
        BY <2>2, <2>6, <3>1 DEF BettingGoesOn, OutOfBetting
      <3> QED BY <2>6, <2>7, <3>2 DEF ReadyToPlay, Seats
    <2>10. SamePlayers(deal, r)
      BY <1>1, <1>6, <2>3, <2>5, <2>6 DEF SamePlayers
    <2>11. RoundOver(deal, r)
      BY <2>2, <2>6, <2>7, <2>9, <2>10 DEF RoundOver, Seats
    <2> QED BY <2>8, <2>11 DEF g
  <1>9. CASE ~(~k.firstRound /\ AllHighestSet(k))
    <2>1. next \in h.running
      BY <1>6 DEF NextRunning
    <2> DEFINE b == k.firstRound /\ next # k.lastTurn
    <2>2. g = [k EXCEPT !.turn = next, !.firstRound = b] /\ b \in BOOLEAN
      BY <1>7, <1>9
    <2>3. next \in Seats
      BY <1>1, <2>1
    <2> HIDE DEF next, b
    <2>4. g \in HandType
      BY <1>6, <2>2, <2>3 DEF HandType
    <2>5. /\ SamePlayers(h, g) /\ ~g.error /\ ~g.allIn
          /\ g.action = h.action /\ g.set = h.set /\ g.round = PREFLOP
          /\ g.highestSet = h.highestSet /\ g.running = h.running
          /\ g.turn = next /\ g.firstRun = FALSE /\ SameBets(h, g)
      BY <1>1, <1>6, <2>2 DEF HandType, SamePlayers, SameBets
    <2>6. BettingGoesOn(g)
      BY <2>1, <2>5 DEF BettingGoesOn
    <2> QED BY <1>2, <2>1, <2>4, <2>5, <2>6, TurnGiven DEF g
  <1> QED BY <1>8, <1>9

\* After the flop a player is asked: the big blind in the pass that starts the
\* round over, or the small blind once the big blind is all in.
LEMMA RunBeRoPlays ==
    ASSUME NEW deal \in HandType, deal.round # PREFLOP,
           ReadyToPlay(deal), ~deal.allIn, Highest(deal),
           NEW h, CanBet(deal, h)
    PROVE  PlayerAsked(deal, RunBeRo(h))
  <1> DEFINE k == BeRoFirstRound(h)
             small == SmallBlindSeat(h)
             big == BigBlindSeat(h)
             next == NextRunning(k, k.turn)
             b == k.firstRound /\ next # k.lastTurn
             g == RunBeRo(h)
  <1>1. /\ h \in HandType /\ SamePlayers(deal, h) /\ ~h.error /\ ~h.allIn
        /\ h.running = {s \in Seats : h.action[s] # "allin"} /\ h.running # {}
        /\ h.running # Seats => \A s \in h.running : h.set[s] < h.highestSet
    BY DEF CanBet
  <1>2. /\ h.round # PREFLOP /\ h.firstRound = deal.firstRound /\ h.action = deal.action
        /\ h.running \subseteq deal.running
        /\ h.running = deal.running => h.turn = deal.turn
    BY RefreshRunningFields DEF CanBet
  <1>3. /\ small \in Seats /\ big = Other(small) /\ Seats = {small, big} /\ small # big
    BY <1>1 DEF SmallBlindSeat, BigBlindSeat, Other, Seats, HandType
  <1>4. /\ SmallBlindSeat(deal) = small /\ BigBlindSeat(deal) = big
    BY <1>1 DEF SamePlayers, SmallBlindSeat, BigBlindSeat
  <1>5. /\ h.firstRound => small \in h.running
        /\ ~h.firstRound => h.turn = small /\ h.running = {small}
    <2>1. BettingGoesOn(deal)
      BY DEF ReadyToPlay
    <2>2. CASE deal.firstRound
      <3>1. deal.action[small] \notin OutOfBetting
        BY <1>4, <2>1, <2>2 DEF BettingGoesOn
      <3> QED BY <1>1, <1>2, <1>3, <2>2, <3>1 DEF OutOfBetting
    <2>3. CASE ~deal.firstRound
      <3>1. deal.turn = small /\ deal.running = {small}
        BY <1>4, <2>1, <2>3 DEF BettingGoesOn
      <3>2. h.running = {small}
        BY <1>1, <1>2, <3>1
      <3> QED BY <1>2, <2>3, <3>1, <3>2
    <2> QED BY <2>2, <2>3
  <1>6. /\ k \in HandType /\ SamePlayers(h, k) /\ k.error = h.error
        /\ k.allIn = h.allIn /\ k.action = h.action /\ k.set = h.set
        /\ k.round = h.round /\ k.highestSet = h.highestSet
        /\ k.running = h.running /\ k.firstRound = h.firstRound
        /\ k.turn = small /\ (h.firstRound => k.lastTurn = small) /\ SameBets(h, k)
    <2> HIDE DEF small
    <2>1. CASE ~h.firstRound
      <3>1. k = h
        BY <2>1 DEF BeRoFirstRound
      <3> QED BY <1>1, <1>5, <2>1, <3>1 DEF SamePlayers, SameBets
    <2>2. CASE h.firstRound
      <3>1. k = [h EXCEPT !.lastTurn = small, !.turn = small]
        BY <1>1, <2>2 DEF BeRoFirstRound, small
      <3> HIDE DEF k
      <3> QED BY <1>1, <1>3, <2>2, <3>1, ZenonT(60) DEF HandType, SamePlayers, SameBets
    <2> QED BY <2>1, <2>2
  <1>7. small \in h.running
    BY <1>5
  <1>8. k.firstRound \/ ~AllHighestSet(k)
    <2> SUFFICES ASSUME ~k.firstRound PROVE ~AllHighestSet(k)
      OBVIOUS
    <2>1. h.running = {small} /\ h.running # Seats
      BY <1>3, <1>5, <1>6
    <2>2. h.set[small] < h.highestSet /\ h.highestSet \in Nat
      BY <1>1, <2>1 DEF HandType
    <2> QED BY <1>6, <2>1, <2>2 DEF AllHighestSet
  <1>9. next = IF big \in h.running THEN big ELSE small
    BY <1>3, <1>6 DEF NextRunning
  <1>10. g = [k EXCEPT !.turn = next, !.firstRound = b] /\ b \in BOOLEAN
    <2>1. k.turn \in k.running
      BY <1>6, <1>7
    <2> QED BY <1>8, <2>1 DEF RunBeRo
  <1>11. next \in h.running /\ next \in Seats
    BY <1>3, <1>7, <1>9
  <1>12. b <=> (h.firstRound /\ big \in h.running)
    BY <1>3, <1>6, <1>9
  <1> HIDE DEF k, next, b, g, small, big
  <1>13. g \in HandType
    BY <1>6, <1>10, <1>11 DEF HandType
  <1>14. /\ SamePlayers(h, g) /\ ~g.error /\ ~g.allIn
         /\ g.action = h.action /\ g.set = h.set /\ g.round = h.round
         /\ g.highestSet = h.highestSet /\ g.running = h.running
         /\ g.turn = next /\ g.firstRound = b /\ SameBets(h, g)
    BY <1>1, <1>6, <1>10 DEF HandType, SamePlayers, SameBets
  <1>15. SmallBlindSeat(g) = small /\ BigBlindSeat(g) = big
    BY <1>14 DEF SamePlayers, SmallBlindSeat, BigBlindSeat, small, big
  <1>16. CASE big \in h.running
    <2>1. h.running = Seats /\ g.firstRound /\ g.turn = big
      BY <1>1, <1>3, <1>5, <1>7, <1>9, <1>12, <1>14, <1>16
    <2>2. g.action[small] \notin OutOfBetting
      <3>1. g.action[small] # "allin"
        BY <1>1, <1>7, <1>14
      <3>2. g.action[small] # "fold"
        BY <1>3, <1>14 DEF CanBet, NonFold
      <3> QED BY <3>1, <3>2 DEF OutOfBetting
    <2>3. BettingGoesOn(g)
      BY <1>2, <1>14, <1>15, <2>1, <2>2 DEF BettingGoesOn
    <2> QED BY <1>2, <1>11, <1>13, <1>14, <1>15, <2>1, <2>3, TurnGiven DEF g
  <1>17. CASE big \notin h.running
    <2>1. h.running = {small} /\ ~g.firstRound /\ g.turn = small /\ g.action[big] = "allin"
      BY <1>1, <1>3, <1>7, <1>9, <1>12, <1>14, <1>17
    <2>2. BettingGoesOn(g)
      BY <1>2, <1>14, <1>15, <2>1 DEF BettingGoesOn
    <2> QED BY <1>2, <1>11, <1>13, <1>14, <2>1, <2>2, TurnGiven DEF g
  <1> QED BY <1>16, <1>17

\* One pass of the engine never throws: the next round begins, the hand is over
\* or a player is asked, the betting not being settled.
LEMMA PlayHandPlays ==
    ASSUME NEW deal \in HandType, InSync(deal), deal.round # POST_RIVER,
           ~deal.error, ReadyToPlay(deal), Highest(deal)
    PROVE  LET g == PlayHand(deal) IN RoundOver(deal, g) \/ PlayerAsked(deal, g)
  <1> DEFINE h == SwitchRounds(deal)
             g == PlayHand(deal)
  <1>1. CASE RoundOver(deal, h) /\ (h.allIn \/ h.round = POST_RIVER)
    <2>1. g = h
      BY <1>1 DEF PlayHand
    <2> QED BY <1>1, <2>1
  <1>2. CASE CanBet(deal, h) /\ ~deal.allIn
    <2>1. ~h.allIn /\ h.round = deal.round
      BY <1>2, RefreshRunningFields DEF CanBet
    <2>2. CASE deal.round = PREFLOP
      <3>1. g = RunPreflop(h)
        BY <2>1, <2>2 DEF PlayHand
      <3> HIDE DEF h
      <3> QED BY <1>2, <2>2, <3>1, RunPreflopPlays
    <2>3. CASE deal.round # PREFLOP
      <3>1. g = RunBeRo(h)
        BY <2>1, <2>3 DEF PlayHand
      <3> HIDE DEF h
      <3> QED BY <1>2, <2>3, <3>1, RunBeRoPlays
    <2> QED BY <2>2, <2>3
  <1> QED BY <1>1, <1>2, SwitchRoundsPlays

(***************************************************************************)
(* A player's action                                                       *)
(***************************************************************************)

\* From h to g player s bets n chips more.
Bets(h, g, s, n) ==
    /\ g.cash = [h.cash EXCEPT ![s] = @ - n]
    /\ g.set = [h.set EXCEPT ![s] = @ + n]
    /\ g.pot = h.pot

\* An action changes the player's own action and bet, and the highest bet with
\* it, and nothing of the round.
LEMMA PerformPlayerActionFields ==
    ASSUME NEW h \in HandType, NEW s \in Seats, NEW action \in Actions, NEW bet \in Int,
           h.set[s] <= h.highestSet
    PROVE  LET g == PerformPlayerAction(h, s, action, bet)
           IN /\ \E n \in 0..h.cash[s] : Bets(h, g, s, n)
              /\ g.action = [h.action EXCEPT ![s] = action]
              /\ g.highestSet = IF g.set[s] > h.highestSet THEN g.set[s] ELSE h.highestSet
              /\ g.start = h.start /\ g.value = h.value /\ g.dealer = h.dealer
              /\ g.running = h.running /\ g.allIn = h.allIn /\ g.error = h.error
              /\ g.round = h.round /\ g.firstRound = h.firstRound
              /\ g.firstRun = h.firstRun /\ g.turn = h.turn
  <1> DEFINE g == PerformPlayerAction(h, s, action, bet)
             n == Clamp(bet, h.cash[s])
             acted == [h EXCEPT !.action[s] = action]
             paid == SetMySet(acted, s, bet)
             highest == IF paid.set[s] > paid.highestSet THEN paid.set[s] ELSE paid.highestSet
             least == NewMinimumRaise(h, s, action, bet, paid.set[s])
             raised == [paid EXCEPT !.highestSet = highest, !.minimumRaise = least]
  <1>1. h.cash[s] \in Nat /\ h.set[s] \in Nat /\ h.highestSet \in Nat
    BY DEF HandType
  <1>2. acted \in HandType /\ acted.action = [h.action EXCEPT ![s] = action]
    BY DEF HandType
  <1>3. \A f \in {"cash", "set", "start", "value", "running", "pot", "sets", "allIn",
                  "shown", "round", "dealer", "smallBlind", "highestSet", "minimumRaise",
                  "firstRound", "firstRun", "turn", "lastTurn", "error"} :
           acted[f] = h[f]
    BY DEF HandType
  <1> HIDE DEF acted
  <1>4. CASE action \in {"fold", "check"}
    <2>1. g = acted
      BY <1>4 DEF PerformPlayerAction, acted
    <2> HIDE DEF g
    <2>2. 0 \in 0..h.cash[s] /\ Bets(h, g, s, 0)
      BY <1>1, <1>3, <2>1 DEF Bets, HandType
    <2>3. ~(g.set[s] > h.highestSet)
      BY <1>1, <1>3, <2>1
    <2>4. \E m \in 0..h.cash[s] : Bets(h, g, s, m)
      BY <2>2
    <2>5. g.action = [h.action EXCEPT ![s] = action]
      BY <1>2, <2>1
    <2>6. /\ g.highestSet = IF g.set[s] > h.highestSet THEN g.set[s] ELSE h.highestSet
          /\ g.start = h.start /\ g.value = h.value /\ g.dealer = h.dealer
          /\ g.running = h.running /\ g.allIn = h.allIn /\ g.error = h.error
          /\ g.round = h.round /\ g.firstRound = h.firstRound
          /\ g.firstRun = h.firstRun /\ g.turn = h.turn
      BY <1>3, <2>1, <2>3
    <2> QED BY <2>4, <2>5, <2>6 DEF g
  <1>5. CASE action \notin {"fold", "check"}
    <2>1. n \in 0..h.cash[s]
      BY <1>1 DEF Clamp
    <2>2. /\ paid.cash = [h.cash EXCEPT ![s] = @ - n]
          /\ paid.set = [h.set EXCEPT ![s] = @ + n]
          /\ paid.action = acted.action
          /\ \A f \in {"start", "value", "running", "pot", "allIn", "round", "dealer",
                       "highestSet", "firstRound", "firstRun", "turn", "error"} :
                paid[f] = h[f]
      BY <1>2, <1>3 DEF SetMySet, HandType
    <2>3. paid \in HandType
      BY <1>2, SetMySetMoves
    <2> HIDE DEF paid, n, highest, least
    <2>4. /\ raised.highestSet = highest
          /\ \A f \in {"cash", "set", "action", "start", "value", "running", "pot", "allIn",
                       "round", "dealer", "firstRound", "firstRun", "turn", "error"} :
                raised[f] = paid[f]
      BY <2>3 DEF HandType
    <2>5. g = CollectSets(raised)
      BY <1>5 DEF PerformPlayerAction, acted, paid, highest, least
    <2>6. \A f \in {"cash", "set", "action", "start", "value", "running", "pot", "allIn",
                    "round", "dealer", "firstRound", "firstRun", "turn", "error",
                    "highestSet"} :
             g[f] = raised[f]
      BY <2>3, <2>5 DEF CollectSets, HandType
    <2> HIDE DEF g, raised
    <2>7. Bets(h, g, s, n)
      BY <2>2, <2>4, <2>6 DEF Bets
    <2>8. g.highestSet = IF g.set[s] > h.highestSet THEN g.set[s] ELSE h.highestSet
      BY <2>2, <2>4, <2>6 DEF highest
    <2>9. g.action = [h.action EXCEPT ![s] = action]
      BY <1>2, <2>2, <2>4, <2>6
    <2>10. /\ g.start = h.start /\ g.value = h.value /\ g.dealer = h.dealer
           /\ g.running = h.running /\ g.allIn = h.allIn /\ g.error = h.error
           /\ g.round = h.round /\ g.firstRound = h.firstRound
           /\ g.firstRun = h.firstRun /\ g.turn = h.turn
      BY <2>2, <2>4, <2>6
    <2> QED BY <2>1, <2>7, <2>8, <2>9, <2>10 DEF g
  <1> QED BY <1>4, <1>5

\* After the action of the player who was asked, or the one the server takes for
\* him, the engine can go on.
LEMMA ActedReady ==
    ASSUME NEW h \in HandType, Decides(h), Highest(h), ~h.error,
           NEW action \in Actions, NEW bet \in Int
    PROVE  LET g == PerformPlayerAction(h, h.turn, action, bet)
           IN ReadyToPlay(g) /\ Highest(g) /\ ~g.error
  <1> DEFINE s == h.turn
             o == Other(s)
             g == PerformPlayerAction(h, s, action, bet)
  <1>1. /\ s \in Seats /\ s \in h.running /\ o \in Seats /\ o # s /\ Seats = {s, o}
        /\ h.running \in SUBSET Seats
    BY DEF Decides, HandType, Other, Seats
  <1>2. h.set[s] <= h.highestSet
    BY <1>1 DEF Highest
  <1>3. /\ \E n \in 0..h.cash[s] : Bets(h, g, s, n)
        /\ g.action = [h.action EXCEPT ![s] = action]
        /\ g.highestSet = IF g.set[s] > h.highestSet THEN g.set[s] ELSE h.highestSet
        /\ g.dealer = h.dealer
        /\ g.running = h.running /\ g.allIn = h.allIn /\ g.error = h.error
        /\ g.round = h.round /\ g.firstRound = h.firstRound
        /\ g.firstRun = h.firstRun /\ g.turn = s
    BY <1>1, <1>2, PerformPlayerActionFields
  <1> HIDE DEF g
  <1>4. g.action[o] = h.action[o]
    BY <1>1, <1>3 DEF HandType
  <1>5. h.action[o] # "fold"
    BY <1>1 DEF Decides, NonFold
  <1>6. NonFold(g) # {}
    BY <1>1, <1>4, <1>5 DEF NonFold
  <1>7. \A t \in Seats \ g.running : g.action[t] \in OutOfBetting
    BY <1>1, <1>3, <1>4 DEF Decides, ReadyToPlay
  <1>8. BettingGoesOn(g)
    <2>1. BettingGoesOn(h) /\ (h.round = PREFLOP => ~h.firstRun)
          /\ (h.round # PREFLOP /\ h.firstRound => s = BigBlindSeat(h))
      BY DEF Decides, ReadyToPlay
    <2>2. SmallBlindSeat(g) = SmallBlindSeat(h) /\ BigBlindSeat(g) = BigBlindSeat(h)
      BY <1>3 DEF SmallBlindSeat, BigBlindSeat
    <2>3. /\ s = BigBlindSeat(h) => SmallBlindSeat(h) = o
          /\ s = SmallBlindSeat(h) => BigBlindSeat(h) = o
      BY <1>1 DEF SmallBlindSeat, BigBlindSeat, Other, Seats, HandType
    <2>4. CASE h.round = PREFLOP
      BY <1>1, <1>3, <2>1, <2>4 DEF BettingGoesOn
    <2>5. CASE h.round # PREFLOP /\ h.firstRound
      BY <1>3, <1>4, <2>1, <2>2, <2>3, <2>5 DEF BettingGoesOn
    <2>6. CASE h.round # PREFLOP /\ ~h.firstRound
      BY <1>3, <1>4, <2>1, <2>2, <2>3, <2>6 DEF BettingGoesOn
    <2> QED BY <2>4, <2>5, <2>6
  <1>9. Highest(g)
    <2>1. PICK n \in 0..h.cash[s] : Bets(h, g, s, n)
      BY <1>3
    <2>2. /\ h.set[s] \in Nat /\ h.set[o] \in Nat /\ h.highestSet \in Nat /\ n \in Nat
          /\ g.set[s] = h.set[s] + n /\ g.set[o] = h.set[o]
      BY <1>1, <2>1 DEF Bets, HandType
    <2>3. g.set[s] <= g.highestSet /\ g.set[o] <= g.highestSet
      BY <1>1, <1>3, <2>2 DEF Highest
    <2>4. ASSUME g.round # PREFLOP PROVE g.highestSet = g.set[s] \/ g.highestSet = g.set[o]
      <3>1. h.highestSet = h.set[s] \/ h.highestSet = h.set[o]
        BY <1>1, <1>3, <2>4 DEF Highest
      <3> QED BY <1>3, <2>2, <3>1
    <2> QED BY <1>1, <2>3, <2>4 DEF Highest
  <1> QED BY <1>3, <1>6, <1>7, <1>8, <1>9 DEF ReadyToPlay, g

(***************************************************************************)
(* A new hand                                                              *)
(***************************************************************************)

\* Before the flop, who has no chips left has acted or is all in by his blind.
BrokeHasActed(h) ==
    h.round = PREFLOP => \A s \in Seats : h.cash[s] = 0 => h.action[s] # "none"

\* From h to g player s posted a blind: a bet of at least one chip and of at most
\* the blind, which puts him all in if it leaves him no chips.
BlindPosted(h, g, s, blind) ==
    /\ \E n \in 1..h.cash[s] : n <= blind /\ Bets(h, g, s, n)
    /\ \A t \in Seats : g.action[t] = "allin" \/ g.action[t] = h.action[t]
    /\ g.cash[s] = 0 => g.action[s] = "allin"
    /\ g.running = h.running /\ g.allIn = h.allIn /\ g.error = h.error
    /\ g.round = h.round /\ g.highestSet = h.highestSet
    /\ g.firstRun = h.firstRun

\* That is what LocalHand::setBlinds does for each player.
LEMMA PostBlindPosts ==
    ASSUME NEW h \in HandType, NEW s \in Seats, NEW blind \in Nat \ {0}, h.cash[s] > 0
    PROVE  BlindPosted(h, PostBlind(h, s, blind), s, blind)
  <1> DEFINE g == PostBlind(h, s, blind)
             n == IF h.cash[s] <= blind THEN h.cash[s] ELSE blind
             p == SetMySet(h, s, n)
  <1>1. h.cash[s] \in Nat /\ n \in 1..h.cash[s] /\ n <= blind /\ Clamp(n, h.cash[s]) = n
    BY DEF HandType, Clamp
  <1>2. p \in HandType
    <2>1. n \in Int
      BY <1>1
    <2> HIDE DEF n
    <2> QED BY <2>1, SetMySetMoves
  <1>3. (g = p /\ n < h.cash[s]) \/ g = [p EXCEPT !.action[s] = "allin"]
    BY <1>1 DEF PostBlind
  <1> HIDE DEF n, g
  <1>4. /\ Bets(h, p, s, n) /\ p.action = h.action
        /\ p.running = h.running /\ p.allIn = h.allIn /\ p.error = h.error
        /\ p.round = h.round /\ p.highestSet = h.highestSet
        /\ p.firstRun = h.firstRun
    BY <1>1 DEF SetMySet, Bets, HandType
  <1> HIDE DEF p
  <1>5. CASE g = p /\ n < h.cash[s]
    <2>1. p.cash[s] # 0
      BY <1>1, <1>4, <1>5 DEF Bets, HandType
    <2> QED BY <1>1, <1>4, <1>5, <2>1 DEF g, BlindPosted
  <1>6. CASE g = [p EXCEPT !.action[s] = "allin"]
    <2>1. /\ g.cash = p.cash /\ g.set = p.set /\ g.pot = p.pot
          /\ g.running = p.running /\ g.allIn = p.allIn /\ g.error = p.error
          /\ g.round = p.round /\ g.highestSet = p.highestSet
          /\ g.firstRun = p.firstRun
          /\ \A t \in Seats : g.action[t] = "allin" \/ g.action[t] = p.action[t]
          /\ g.action[s] = "allin"
      BY <1>2, <1>6 DEF HandType
    <2>2. Bets(h, g, s, n)
      BY <1>4, <2>1 DEF Bets
    <2> QED BY <1>1, <1>4, <2>1, <2>2 DEF g, BlindPosted
  <1> QED BY <1>3, <1>5, <1>6

\* A new hand takes a blind from each stack, none of which exceeds the big
\* blind, and the engine can begin.  Who has no chips left is all in.
LEMMA NewHandReady ==
    ASSUME NEW h \in HandType, NEW dealer \in Seats, NEW smallBlind \in Nat \ {0},
           NEW value \in [Seats -> CardValues], NoBets(h), h.pot = 0, ~h.error,
           \A s \in Seats : h.cash[s] > 0
    PROVE  LET g == NewHand(h, dealer, smallBlind, value)
           IN /\ ReadyToPlay(g) /\ Highest(g) /\ ~g.error
              /\ BrokeHasActed(g)
              /\ g.pot = 0
              /\ \A s \in Seats : /\ g.set[s] \in 1..h.cash[s]
                                  /\ g.cash[s] = h.cash[s] - g.set[s]
  <1> DEFINE none == [s \in Seats |-> "none"]
             fresh == [h EXCEPT !.action = none, !.start = h.cash,
                                !.value = value, !.running = Seats,
                                !.allIn = FALSE, !.shown = FALSE,
                                !.dealer = dealer, !.smallBlind = smallBlind]
             blank == EnterRound(fresh, PREFLOP)
             a == SmallBlindSeat(blank)
             b == BigBlindSeat(blank)
             small == PostBlind(blank, a, blank.smallBlind)
             big == PostBlind(small, b, 2 * blank.smallBlind)
             g == NewHand(h, dealer, smallBlind, value)
  <1>1. /\ fresh \in HandType /\ fresh.cash = h.cash /\ fresh.set = h.set /\ fresh.pot = 0
        /\ fresh.action = none /\ fresh.running = Seats /\ fresh.allIn = FALSE
        /\ fresh.error = h.error /\ fresh.smallBlind = smallBlind
    <2>1. none \in [Seats -> Actions]
      BY DEF Actions
    <2> HIDE DEF none
    <2> QED BY <2>1 DEF HandType
  <1> HIDE DEF fresh
  <1>2. /\ blank \in HandType /\ blank.cash = h.cash /\ blank.set = h.set /\ blank.pot = 0
        /\ blank.action = none /\ blank.running = Seats /\ blank.allIn = FALSE
        /\ blank.error = h.error /\ blank.smallBlind = smallBlind
        /\ blank.round = PREFLOP /\ blank.firstRun = TRUE
        /\ blank.highestSet = 2 * smallBlind
    <2>1. 2 * fresh.smallBlind \in Nat /\ PREFLOP \in Rounds
      BY <1>1 DEF HandType, PREFLOP, Rounds
    <2>2. blank \in HandType
      BY <1>1, <2>1, ZenonT(60) DEF EnterRound, HandType
    <2> QED BY <1>1, <2>2 DEF EnterRound, HandType
  <1> HIDE DEF none, blank
  <1>3. /\ a \in Seats /\ b \in Seats /\ a # b /\ Seats = {a, b}
        /\ 2 * smallBlind \in Nat \ {0}
    BY <1>2 DEF SmallBlindSeat, BigBlindSeat, Other, Seats, HandType
  <1>4. g = CollectSets(big)
    <2>1. small.dealer = blank.dealer /\ small.smallBlind = blank.smallBlind
      BY <1>2, <1>3, PostBlindMoves, ZenonT(60)
    <2>2. SetBlinds(blank) = big
      BY <2>1 DEF SetBlinds, BigBlindSeat, SmallBlindSeat
    <2> QED BY <2>2 DEF NewHand, blank, fresh, none
  <1> HIDE DEF a, b
  <1>5. /\ small \in HandType
        /\ \E n \in 1..blank.cash[a] : n <= smallBlind /\ Bets(blank, small, a, n)
        /\ \A t \in Seats : small.action[t] = "allin" \/ small.action[t] = blank.action[t]
        /\ small.cash[a] = 0 => small.action[a] = "allin"
        /\ small.running = Seats /\ small.allIn = FALSE /\ small.error = h.error
        /\ small.round = PREFLOP /\ small.highestSet = 2 * smallBlind
        /\ small.firstRun = TRUE
    <2>1. blank.cash[a] > 0 /\ blank.smallBlind \in Nat \ {0} /\ blank.smallBlind \in Nat
      BY <1>2, <1>3
    <2>2. small \in HandType
      BY <1>2, <1>3, <2>1, PostBlindMoves
    <2>3. BlindPosted(blank, small, a, smallBlind)
      BY <1>2, <1>3, <2>1, PostBlindPosts
    <2> HIDE DEF small
    <2> QED BY <1>2, <2>2, <2>3 DEF BlindPosted
  <1>6. PICK n \in 1..blank.cash[a] : n <= smallBlind /\ Bets(blank, small, a, n)
    BY <1>5
  <1> HIDE DEF small
  <1>7. /\ n \in 1..h.cash[a] /\ small.cash[a] = h.cash[a] - n /\ small.cash[b] = h.cash[b]
        /\ small.set[a] = n /\ small.set[b] = 0 /\ small.pot = 0
    BY <1>2, <1>3, <1>6 DEF Bets, HandType, NoBets
  <1>8. /\ big \in HandType
        /\ \E m \in 1..small.cash[b] : m <= 2 * smallBlind /\ Bets(small, big, b, m)
        /\ \A t \in Seats : big.action[t] = "allin" \/ big.action[t] = small.action[t]
        /\ big.cash[b] = 0 => big.action[b] = "allin"
        /\ big.running = Seats /\ big.allIn = FALSE /\ big.error = h.error
        /\ big.round = PREFLOP /\ big.highestSet = 2 * smallBlind
        /\ big.firstRun = TRUE
    <2>1. small.cash[b] > 0
      BY <1>3, <1>7
    <2>2. big = PostBlind(small, b, 2 * smallBlind) /\ 2 * smallBlind \in Nat
      BY <1>2, <1>3
    <2>3. big \in HandType
      BY <1>3, <1>5, <2>2, PostBlindMoves
    <2>4. BlindPosted(small, big, b, 2 * smallBlind)
      BY <1>3, <1>5, <2>1, <2>2, PostBlindPosts
    <2> HIDE DEF big
    <2> QED BY <1>5, <2>3, <2>4 DEF BlindPosted
  <1>9. PICK m \in 1..small.cash[b] : m <= 2 * smallBlind /\ Bets(small, big, b, m)
    BY <1>8
  <1> HIDE DEF big
  <1>10. /\ m \in 1..h.cash[b] /\ big.cash[a] = h.cash[a] - n /\ big.cash[b] = h.cash[b] - m
         /\ big.set[a] = n /\ big.set[b] = m /\ big.pot = 0
    BY <1>3, <1>5, <1>7, <1>9 DEF Bets, HandType
  <1>11. /\ g.cash = big.cash /\ g.set = big.set /\ g.pot = big.pot /\ g.action = big.action
         /\ g.running = Seats /\ g.allIn = FALSE /\ g.error = h.error
         /\ g.round = PREFLOP /\ g.highestSet = 2 * smallBlind /\ g.firstRun = TRUE
    BY <1>4, <1>8 DEF CollectSets, HandType
  <1> HIDE DEF g
  <1>12. Highest(g)
    <2>1. n <= 2 * smallBlind /\ m <= 2 * smallBlind
      BY <1>6, <1>7, <1>9, <1>10
    <2> QED BY <1>3, <1>10, <1>11, <2>1 DEF Highest
  <1>13. \A t \in Seats : g.action[t] \in {"none", "allin"}
    <2>1. \A t \in Seats : blank.action[t] = "none"
      BY <1>2 DEF none
    <2>2. \A t \in Seats : small.action[t] \in {"none", "allin"}
      BY <1>5, <2>1
    <2>3. \A t \in Seats : big.action[t] \in {"none", "allin"}
      BY <1>8, <2>2
    <2> QED BY <1>11, <2>3
  <1>14. ReadyToPlay(g)
    <2>1. NonFold(g) = Seats
      BY <1>13 DEF NonFold
    <2> QED BY <1>11, <2>1 DEF ReadyToPlay, BettingGoesOn, Seats
  <1>15. \A s \in Seats : g.set[s] \in 1..h.cash[s] /\ g.cash[s] = h.cash[s] - g.set[s]
    BY <1>3, <1>7, <1>10, <1>11
  <1>16. BrokeHasActed(g)
    <2>1. big.cash[a] = small.cash[a]
      BY <1>7, <1>10
    <2>2. \A t \in Seats : big.cash[t] = 0 => big.action[t] = "allin"
      BY <1>3, <1>5, <1>8, <2>1
    <2> QED BY <1>11, <2>2 DEF BrokeHasActed
  <1> QED BY <1>10, <1>11, <1>12, <1>14, <1>15, <1>16 DEF g

(***************************************************************************)
(* The payout                                                              *)
(***************************************************************************)

\* A level goes to its winners by their shares, or stays in the pot.
LEMMA PayLevelShares ==
    ASSUME NEW h \in HandType, NonFold(h) # {}, NEW p \in LoopType,
           NEW amount \in Nat, NEW sum \in Nat, NEW s \in Seats
    PROVE  PayLevel(h, p, amount, sum).cash[s] =
              p.cash[s] + (IF IsFinalPot(h, p, amount)
                           THEN Share(h, LevelWinners(h, p, amount), sum, s) ELSE 0)
  <1> DEFINE q == PayLevel(h, p, amount, sum)
             winners == LevelWinners(h, p, amount)
  <1>1. p.cash[s] \in Nat
    BY DEF LoopType
  <1>2. CASE IsFinalPot(h, p, amount)
    BY <1>2 DEF PayLevel
  <1>3. CASE ~IsFinalPot(h, p, amount)
    <2>1. LevelDone(h, p, amount, sum, q)
      BY PayLevelPays
    <2> QED BY <1>1, <1>3, <2>1 DEF LevelDone
  <1> QED BY <1>2, <1>3

\* The hand is about to be paid out: what was paid in is the pot.
PotIsPaidIn(h) ==
    /\ NonFold(h) # {}
    /\ \A s \in Seats : h.cash[s] <= h.start[s]
    /\ h.start[0] + h.start[1] = h.cash[0] + h.cash[1] + h.pot

(***************************************************************************)
(* What the two passes of the level loop pay to player s, when a paid in   *)
(* no more than his opponent b.  The lower level, which both paid, goes to *)
(* the best hands if it is the last one for one of them; otherwise it is   *)
(* carried to the upper level, which only b paid.                          *)
(***************************************************************************)
LowLevelFinal(h, a) ==
    \E s \in Best(h, NonFold(h)) : Contribution(h, s) = Contribution(h, a)

UpperWinner(h, a, b) == IF b \in NonFold(h) THEN b ELSE a

TwoLevels(h, a, b, s) ==
    LET low == Contribution(h, a)
        upper == Contribution(h, b) - low
    IN IF LowLevelFinal(h, a)
       THEN Share(h, Best(h, NonFold(h)), 2 * low, s)
              + (IF s = UpperWinner(h, a, b) THEN upper ELSE 0)
       ELSE IF s = UpperWinner(h, a, b) THEN upper + 2 * low ELSE 0

\* The level loop pays out the two levels.
LEMMA PotLevelsShares ==
    ASSUME NEW h \in HandType, PotIsPaidIn(h), NEW a \in Seats, NEW b \in Seats,
           a # b, Contribution(h, a) <= Contribution(h, b), NEW s \in Seats
    PROVE  PotLevels(h).cash[s] = h.cash[s] + TwoLevels(h, a, b, s)
  <1> DEFINE c == [t \in Seats |-> Contribution(h, t)]
             p == [cash |-> h.cash, pot |-> h.pot, carry |-> 0, won |-> {}, left |-> c]
             W == Best(h, NonFold(h))
             u == UpperWinner(h, a, b)
             low == Contribution(h, a)
             upper == Contribution(h, b) - low
             early == LowLevelFinal(h, a)
             carried == IF early THEN 0 ELSE 2 * low
             q == LowLevel(h, p)
             r == HighLevel(h, q)
  <1>1. /\ \A t \in Seats : Contribution(h, t) \in Nat
        /\ Seats = {a, b} /\ 0 \in Seats /\ 1 \in Seats
        /\ low \in Nat /\ upper \in Nat
    <2>1. \A t \in Seats : Contribution(h, t) \in Nat
      BY DEF Contribution, HandType
    <2> QED BY <2>1 DEF Seats
  <1>2. /\ p \in LoopType /\ p.cash = h.cash /\ p.carry = 0
        /\ \A t \in Seats : p.left[t] = Contribution(h, t)
    <2>1. c \in [Seats -> Nat]
      BY <1>1
    <2>2. \A t \in Seats : c[t] = Contribution(h, t)
      OBVIOUS
    <2> HIDE DEF c
    <2> QED BY <2>1, <2>2 DEF LoopType, HandType
  <1>3. W # {} /\ W \subseteq NonFold(h) /\ NonFold(h) \subseteq Seats
    BY BestExists DEF PotIsPaidIn, NonFold
  <1>4. PotLevels(h) = r
    BY DEF PotLevels
  <1>5. h.cash[s] \in Nat
    BY DEF HandType
  <1> HIDE DEF c, p
  <1>6. Share(h, W, 0, s) = 0
    BY DEF Share
  \* The first pass.
  <1>7. /\ q \in LoopType
        /\ q.cash[s] = h.cash[s] + (IF early THEN Share(h, W, 2 * low, s) ELSE 0)
        /\ q.carry = carried
        /\ q.left[a] = 0 /\ q.left[b] = upper
    <2>1. (IF p.left[0] <= p.left[1] THEN p.left[0] ELSE p.left[1]) = low
      BY <1>1, <1>2 DEF Seats
    <2>2. CASE low = 0
      <3>1. q = p
        BY <2>1, <2>2 DEF LowLevel
      <3>2. q.left[a] = 0 /\ q.left[b] = upper
        BY <1>1, <1>2, <2>2, <3>1
      <3>3. carried = 0 /\ 2 * low = 0
        BY <2>2
      <3>4. q.cash[s] = h.cash[s] + (IF early THEN Share(h, W, 2 * low, s) ELSE 0)
        BY <1>2, <1>5, <1>6, <3>1, <3>3
      <3> QED BY <1>2, <3>1, <3>2, <3>3, <3>4
    <2>3. CASE low # 0
      <3>1. q = PayLevel(h, p, low, 2 * low)
        <4>1. q = PayLevel(h, p, low, 2 * low + p.carry)
          BY <2>1, <2>3 DEF LowLevel
        <4> QED BY <1>1, <1>2, <4>1
      <3> HIDE DEF q
      <3>2. {t \in NonFold(h) : p.left[t] >= low} = NonFold(h)
        <4>1. \A t \in Seats : Contribution(h, t) >= low
          BY <1>1
        <4> QED BY <1>2, <1>3, <4>1
      <3>3. LevelWinners(h, p, low) = W /\ (IsFinalPot(h, p, low) <=> early)
        <4>1. LevelWinners(h, p, low) = W
          BY <3>2 DEF LevelWinners
        <4>2. IsFinalPot(h, p, low) <=> \E t \in W : p.left[t] = low
          BY <3>2 DEF IsFinalPot, PotIsPaidIn
        <4> QED BY <1>2, <1>3, <4>1, <4>2 DEF LowLevelFinal
      <3>4. LevelDone(h, p, low, 2 * low, q) /\ 2 * low \in Nat
        BY <1>1, <1>2, <3>1, PayLevelPays DEF PotIsPaidIn
      <3>5. q.cash[s] = p.cash[s] + (IF early THEN Share(h, W, 2 * low, s) ELSE 0)
        BY <1>1, <1>2, <3>1, <3>3, <3>4, PayLevelShares DEF PotIsPaidIn
      <3>6. q.left[a] = 0 /\ q.left[b] = upper
        <4>1. /\ q.left[a] = IF p.left[a] < low THEN 0 ELSE p.left[a] - low
              /\ q.left[b] = IF p.left[b] < low THEN 0 ELSE p.left[b] - low
          BY <3>4 DEF LevelDone
        <4> QED BY <1>1, <1>2, <4>1
      <3>7. q.carry = carried
        BY <1>2, <3>3, <3>4 DEF LevelDone
      <3> QED BY <1>2, <3>4, <3>5, <3>6, <3>7 DEF LevelDone
    <2> QED BY <2>2, <2>3
  <1> HIDE DEF q
  \* The second pass.
  <1>8. r.cash[s] = q.cash[s] + (IF upper # 0 /\ s = u THEN upper + carried ELSE 0)
    <2>1. (IF q.left[0] <= q.left[1] THEN q.left[1] ELSE q.left[0]) = upper
      BY <1>1, <1>7 DEF Seats
    <2>2. CASE upper = 0
      <3>1. r = q /\ q.cash[s] \in Nat
        BY <1>7, <2>1, <2>2 DEF HighLevel, LoopType
      <3> QED BY <2>2, <3>1
    <2>3. CASE upper # 0
      <3>1. r = PayLevel(h, q, upper, upper + carried)
        BY <1>7, <2>1, <2>3 DEF HighLevel
      <3>2. upper + carried \in Nat
        BY <1>1
      <3> DEFINE S == {t \in NonFold(h) : q.left[t] >= upper}
      <3>3. S = IF b \in NonFold(h) THEN {b} ELSE {}
        BY <1>1, <1>3, <1>7, <2>3
      <3>4. IsFinalPot(h, q, upper) /\ LevelWinners(h, q, upper) = {u}
        <4>1. CASE b \in NonFold(h)
          <5>1. Best(h, {b}) = {b}
            BY DEF Best, HandType, CardValues
          <5> QED BY <1>7, <3>3, <4>1, <5>1 DEF IsFinalPot, LevelWinners, UpperWinner
        <4>2. CASE b \notin NonFold(h)
          <5>1. W = {a}
            BY <1>1, <1>3, <4>2
          <5> QED BY <3>3, <4>2, <5>1 DEF IsFinalPot, LevelWinners, UpperWinner
        <4> QED BY <4>1, <4>2
      <3>5. r.cash[s] = q.cash[s] + Share(h, {u}, upper + carried, s)
        <4>1. NonFold(h) # {} /\ upper \in Nat /\ q \in LoopType
          BY <1>1, <1>7 DEF PotIsPaidIn
        <4> HIDE DEF upper, carried, u
        <4>2. PayLevel(h, q, upper, upper + carried).cash[s] =
                q.cash[s] + (IF IsFinalPot(h, q, upper)
                             THEN Share(h, LevelWinners(h, q, upper), upper + carried, s)
                             ELSE 0)
          BY <3>2, <4>1, PayLevelShares
        <4> QED BY <3>1, <3>4, <4>2
      <3>6. Share(h, {u}, upper + carried, s) = IF s = u THEN upper + carried ELSE 0
        BY DEF Share
      <3> QED BY <2>3, <3>5, <3>6
    <2> QED BY <2>2, <2>3
  <1> HIDE DEF r
  \* A level is carried only if there is an upper one.
  <1>9. ~early => upper # 0
    <2>1. PICK t \in W : t \in Seats
      BY <1>3
    <2>2. upper = 0 => Contribution(h, t) = low
      BY <1>1, <2>1
    <2> QED BY <2>1, <2>2 DEF LowLevelFinal
  <1>10. Share(h, W, 2 * low, s) \in Int
    <2>1. W \in SUBSET Seats /\ 2 * low \in Nat
      BY <1>1, <1>3
    <2>2. Share(h, W, 2 * low, 0) \in Nat /\ Share(h, W, 2 * low, 1) \in Nat
      BY <1>3, <2>1, SharesAddUp
    <2> QED BY <2>2 DEF Seats
  <1>11. CASE early
    <2>1. TwoLevels(h, a, b, s) = Share(h, W, 2 * low, s) + (IF s = u THEN upper ELSE 0)
      BY <1>11 DEF TwoLevels
    <2>2. q.cash[s] = h.cash[s] + Share(h, W, 2 * low, s) /\ carried = 0
      BY <1>7, <1>11
    <2> HIDE DEF W, low, upper, early, carried, u
    <2> QED BY <1>1, <1>4, <1>5, <1>8, <1>10, <2>1, <2>2
  <1>12. CASE ~early
    <2>1. TwoLevels(h, a, b, s) = IF s = u THEN upper + 2 * low ELSE 0
      BY <1>12 DEF TwoLevels
    <2>2. q.cash[s] = h.cash[s] /\ carried = 2 * low /\ upper # 0
      BY <1>5, <1>7, <1>9, <1>12
    <2> HIDE DEF W, low, upper, early, carried, u
    <2> QED BY <1>1, <1>4, <1>5, <1>8, <2>1, <2>2
  <1> QED BY <1>11, <1>12

\* distributePot pays what the level loop does: no chip is left over.  The rest
\* of the hand stays as it is.
LEMMA PostRiverRunFields ==
    ASSUME NEW h \in HandType, PotIsPaidIn(h)
    PROVE  LET g == PostRiverRun(h)
           IN /\ g.cash = PotLevels(h).cash
              /\ g.set = h.set /\ g.highestSet = h.highestSet
              /\ g.round = h.round /\ g.error = h.error
  <1> DEFINE q == PotLevels(h)
  <1>1. q \in LoopType /\ q.pot = 0 /\ NonFold(h) # {}
    BY PotLevelsPay DEF PotIsPaidIn
  <1>2. PayRemainder(q) = q.cash
    BY <1>1 DEF PayRemainder
  <1>3. DistributePot(h) = [h EXCEPT !.cash = q.cash, !.pot = 0]
    BY <1>1, <1>2 DEF DistributePot
  <1> HIDE DEF q
  <1>4. PostRiverRun(h) = [[h EXCEPT !.cash = q.cash, !.pot = 0] EXCEPT !.pot = 0]
    BY <1>3 DEF PostRiverRun
  <1>5. LET g == [[h EXCEPT !.cash = q.cash, !.pot = 0] EXCEPT !.pot = 0]
        IN /\ g.cash = q.cash
           /\ g.set = h.set /\ g.highestSet = h.highestSet
           /\ g.round = h.round /\ g.error = h.error
    BY DEF HandType
  <1> QED BY <1>4, <1>5 DEF q

\* Whoever paid in more takes the role of b.
LEMMA PayoutShares ==
    ASSUME NEW h \in HandType, PotIsPaidIn(h)
    PROVE  \E a, b \in Seats :
              /\ a # b /\ Contribution(h, a) <= Contribution(h, b)
              /\ \A s \in Seats :
                    PostRiverRun(h).cash[s] = h.cash[s] + TwoLevels(h, a, b, s)
  <1>1. PICK a, b \in Seats : a # b /\ Contribution(h, a) <= Contribution(h, b)
    <2>1. Contribution(h, 0) \in Nat /\ Contribution(h, 1) \in Nat
      BY DEF Contribution, HandType, Seats
    <2>2. Contribution(h, 0) <= Contribution(h, 1) \/ Contribution(h, 1) <= Contribution(h, 0)
      BY <2>1
    <2> QED BY <2>2 DEF Seats
  <1>2. PostRiverRun(h).cash = PotLevels(h).cash
    BY PostRiverRunFields
  <1>3. \A s \in Seats : PotLevels(h).cash[s] = h.cash[s] + TwoLevels(h, a, b, s)
    BY <1>1, PotLevelsShares
  <1> QED BY <1>1, <1>2, <1>3

\* The best of the hands that are left.
LEMMA BestOfTwo ==
    ASSUME NEW h \in HandType, NEW s \in Seats, NEW o \in Seats, s # o
    PROVE  LET W == Best(h, NonFold(h))
           IN /\ s \notin NonFold(h) /\ o \in NonFold(h) => W = {o}
              /\ s \in NonFold(h) /\ o \in NonFold(h) =>
                    /\ h.value[s] > h.value[o] => W = {s}
                    /\ h.value[s] < h.value[o] => W = {o}
                    /\ h.value[s] = h.value[o] => W = Seats
  <1>1. h.value[s] \in Int /\ h.value[o] \in Int /\ Seats = {s, o}
    BY DEF HandType, CardValues, Seats
  <1>2. NonFold(h) \subseteq {s, o}
    BY <1>1 DEF NonFold
  <1>3. CASE s \notin NonFold(h) /\ o \in NonFold(h)
    <2>1. NonFold(h) = {o}
      BY <1>2, <1>3
    <2> QED BY <1>1, <1>3, <2>1 DEF Best
  <1>4. CASE s \in NonFold(h) /\ o \in NonFold(h)
    <2>1. NonFold(h) = {s, o}
      BY <1>2, <1>4
    <2> QED BY <1>1, <1>4, <2>1 DEF Best
  <1>5. CASE o \notin NonFold(h)
    BY <1>5
  <1> QED BY <1>3, <1>4, <1>5

(***************************************************************************)
(* The table                                                               *)
(***************************************************************************)

(***************************************************************************)
(* ChipConservation is not inductive: that the payout returns exactly the  *)
(* pot depends on what the players had when the hand began and on the bets *)
(* having been collected.                                                  *)
(***************************************************************************)

\* LocalBoard's cached sum is right, and no chip is lost while the game is on.
ChipsSound == InSync(hand) /\ (game => Chips(hand) = 2 * StartCash)

\* During a hand the stacks it began with held all chips and have not grown,
\* and it is not paid out yet.
HandSound ==
    (game /\ state \in {"Hand", "WaitPlayerAction"}) =>
        /\ hand.start[0] + hand.start[1] = 2 * StartCash
        /\ \A s \in Seats : hand.cash[s] <= hand.start[s]
        /\ hand.round # POST_RIVER

\* Between two hands the game is on and all chips are in the stacks.
BetweenHands ==
    state = "WaitNextHand" => game /\ NoBets(hand) /\ hand.pot = 0

IInv == TypeOK /\ ChipsSound /\ HandSound /\ BetweenHands

(***************************************************************************)
(* The blind schedule                                                      *)
(***************************************************************************)

\* Game::raiseBlinds always leaves a positive small blind.
LEMMA RaisedBlindsType ==
    ASSUME NEW b \in [small : Nat \ {0}, since : Int, list : Seq(Nat \ {0})]
    PROVE  RaisedBlinds(b) \in ScheduleType
  <1> USE SettingsAssumption
  <1>1. MaxBlind \in Nat \ {0}
    BY DEF MaxBlind
  <1>2. \A n \in Nat \ {0} : Capped(n) \in Nat \ {0}
    BY <1>1 DEF Capped
  <1>3. b.small \in Nat \ {0} /\ b.since \in Int /\ b.list \in Seq(Nat \ {0})
    OBVIOUS
  <1>4. DoubledBlind(b.small) \in Nat \ {0}
    <2>1. Capped(2 * b.small) \in Nat \ {0}
      <3>1. 2 * b.small \in Nat \ {0}
        BY <1>3
      <3> QED BY <1>2, <3>1
    <2> QED BY <1>1, <2>1 DEF DoubledBlind
  <1>5. BlindAfterList(b.small) \in Nat \ {0}
    <2>1. b.small + RaiseAbout \in Nat \ {0}
      BY <1>3
    <2>2. Capped(b.small + RaiseAbout) \in Nat \ {0}
      BY <1>2, <2>1
    <2> QED BY <1>3, <1>4, <2>2 DEF BlindAfterList
  <1>6. CASE RaiseMode = "double"
    BY <1>2, <1>4, <1>6 DEF RaisedBlinds, ScheduleType
  <1>7. CASE RaiseMode # "double" /\ b.list # << >>
    <2>1. /\ Capped(Head(b.list)) \in Nat \ {0}
          /\ Tail(b.list) \in Seq(Nat \ {0})
      BY <1>2, <1>3, <1>7
    <2>2. RaisedBlinds(b) =
            [small |-> Capped(Head(b.list)), since |-> 0, list |-> Tail(b.list)]
      BY <1>7 DEF RaisedBlinds
    <2> QED BY <2>1, <2>2 DEF ScheduleType
  <1>8. CASE RaiseMode # "double" /\ b.list = << >>
    BY <1>2, <1>5, <1>8 DEF RaisedBlinds, ScheduleType
  <1> QED BY <1>6, <1>7, <1>8

\* A hand that does not raise the blinds is counted.
LEMMA RaiseBlindsType ==
    ASSUME NEW b \in ScheduleType, NEW minutesUp \in BOOLEAN
    PROVE  RaiseBlinds(b, minutesUp) \in ScheduleType
  <1>1. RaisedBlinds(b) \in ScheduleType
    BY RaisedBlindsType DEF ScheduleType
  <1>2. CASE ~RaiseDue(b, minutesUp)
    <2> DEFINE since == IF RaiseOnHands THEN b.since + 1 ELSE b.since
    <2>1. since \in Nat
      BY DEF ScheduleType
    <2>2. RaiseBlinds(b, minutesUp) = [b EXCEPT !.since = since]
      BY <1>2 DEF RaiseBlinds
    <2> HIDE DEF since
    <2> QED BY <2>1, <2>2 DEF ScheduleType
  <1> QED BY <1>1, <1>2 DEF RaiseBlinds

(***************************************************************************)
(* The initial states and the actions                                      *)
(***************************************************************************)

\* The first hand takes its blinds from two full stacks.
LEMMA InitSound == Init => IInv
  <1> USE SettingsAssumption, TableAssumption
  <1> SUFFICES ASSUME Init PROVE IInv
    OBVIOUS
  <1>1. PICK dealer \in Seats, value \in Deals :
            hand = NewHand(EmptyHand(StartCash), dealer, FirstSmallBlind, value)
    BY DEF Init
  <1>2. /\ EmptyHand(StartCash) \in HandType /\ NoBets(EmptyHand(StartCash))
        /\ EmptyHand(StartCash).pot = 0
        /\ EmptyHand(StartCash).cash[0] = StartCash
        /\ EmptyHand(StartCash).cash[1] = StartCash
    BY EmptyHandType
  <1>3. value \in [Seats -> CardValues] /\ FirstSmallBlind \in Nat
    BY <1>1 DEF Deals
  <1>4. /\ hand \in HandType /\ InSync(hand)
        /\ Chips(hand) = EmptyHand(StartCash).cash[0] + EmptyHand(StartCash).cash[1]
        /\ hand.start = EmptyHand(StartCash).cash
        /\ \A s \in Seats : hand.cash[s] <= hand.start[s]
        /\ hand.round = PREFLOP
    BY <1>1, <1>2, <1>3, NewHandDeals
  <1>5. Chips(hand) = 2 * StartCash /\ hand.start[0] + hand.start[1] = 2 * StartCash
    BY <1>2, <1>4
  <1>6. blinds \in ScheduleType
    BY DEF Init, FirstBlinds, ScheduleType
  <1>7. TypeOK
    BY <1>4, <1>6 DEF Init, TypeOK, States, Handlers
  <1>8. hand.round # POST_RIVER
    BY <1>4 DEF PREFLOP, POST_RIVER
  <1> QED BY <1>4, <1>5, <1>7, <1>8 DEF Init, IInv, ChipsSound, HandSound, BetweenHands

\* Whatever SetState is asked for, it arms the timer with a handler or none.
LEMMA SetStateType ==
    ASSUME NEW new \in States, SetState(new)
    PROVE  state' = new /\ state' \in States /\ timer' \in Handlers \cup {"none"}
  BY DEF SetState, Handlers

\* Running a handler takes it off the queue.
LEMMA RunsType ==
    ASSUME TypeOK, NEW handler \in Handlers, Runs(handler)
    PROVE  ready' \in Seq(Handlers) /\ state = StateOf(handler)
  BY DEF TypeOK, Runs

\* The invariant's claims about chips.
ChipInv == ChipsSound /\ HandSound /\ BetweenHands

\* A step that leaves the hand alone, and at most ends the game.
LEMMA SameHandSound ==
    ASSUME IInv, UNCHANGED <<hand, game>>, state' \in {state, "Init", "Final"}
    PROVE  ChipInv'
  BY DEF IInv, ChipInv, ChipsSound, HandSound, BetweenHands, InSync, Chips, NoBets

\* A step in which the hand goes on with chips that only moved.
LEMMA MovedHandSound ==
    ASSUME IInv, UNCHANGED game, state \in {"Hand", "WaitPlayerAction"},
           Keeps(hand, hand'),
           \/ state' \in {"Hand", "WaitPlayerAction"} /\ (game => hand'.round # POST_RIVER)
           \/ state' = "Final"
    PROVE  ChipInv'
  <1>1. hand \in HandType /\ hand' \in HandType
    BY DEF IInv, TypeOK, Keeps
  <1>2. InSync(hand') /\ Chips(hand') = Chips(hand) /\ hand'.start = hand.start
        /\ \A s \in Seats : hand'.cash[s] <= hand.cash[s]
    BY DEF Keeps, Moves
  <1>3. ChipsSound'
    BY <1>2 DEF IInv, ChipsSound
  <1>4. HandSound'
    <2> SUFFICES ASSUME game, state' \in {"Hand", "WaitPlayerAction"}
                 PROVE  /\ hand'.start[0] + hand'.start[1] = 2 * StartCash
                        /\ \A s \in Seats : hand'.cash[s] <= hand'.start[s]
                        /\ hand'.round # POST_RIVER
      BY DEF HandSound
    <2>1. /\ hand.start[0] + hand.start[1] = 2 * StartCash
          /\ \A s \in Seats : hand.cash[s] <= hand.start[s]
      BY DEF IInv, HandSound
    <2>2. \A s \in Seats : /\ hand.cash[s] \in Nat /\ hand.start[s] \in Nat
                           /\ hand'.cash[s] \in Nat
      BY <1>1 DEF HandType
    <2>3. \A s \in Seats : hand'.cash[s] <= hand'.start[s]
      BY <1>2, <2>1, <2>2
    <2> QED BY <1>2, <2>1, <2>3
  <1>5. BetweenHands'
    BY DEF BetweenHands
  <1> QED BY <1>3, <1>4, <1>5 DEF ChipInv

\* Closing the game leaves the chips where they are.
LEMMA RemoveAllSessionsType ==
    ASSUME TypeOK, RemoveAllSessions, hand' \in HandType, ready' \in Seq(Handlers)
    PROVE  TypeOK' /\ state' = "Final" /\ UNCHANGED game
  <1>1. "Final" \in States
    BY DEF States
  <1>2. state' = "Final" /\ state' \in States /\ timer' \in Handlers \cup {"none"}
    BY <1>1, SetStateType DEF RemoveAllSessions
  <1> QED BY <1>2 DEF TypeOK, RemoveAllSessions

\* The io_context's own steps.
LEMMA TimerExpiresSound == IInv /\ TimerExpires => IInv'
  <1> SUFFICES ASSUME IInv, TimerExpires PROVE IInv'
    OBVIOUS
  <1>1. TypeOK'
    BY DEF IInv, TypeOK, TimerExpires, players, Handlers
  <1>2. ChipInv'
    BY SameHandSound DEF TimerExpires
  <1> QED BY <1>1, <1>2 DEF IInv, ChipInv

\* A handler whose state was left only leaves the queue.
LEMMA StaleHandlerSound == IInv /\ StaleHandler => IInv'
  <1> SUFFICES ASSUME IInv, StaleHandler PROVE IInv'
    OBVIOUS
  <1>1. TypeOK'
    BY DEF IInv, TypeOK, StaleHandler, players
  <1>2. ChipInv'
    BY SameHandSound DEF StaleHandler
  <1> QED BY <1>1, <1>2 DEF IInv, ChipInv

\* Showing the all-in players' cards moves no chips.
LEMMA TimerShowCardsSound == IInv /\ TimerShowCards => IInv'
  <1> SUFFICES ASSUME IInv, TimerShowCards PROVE IInv'
    OBVIOUS
  <1>1. TypeOK'
    <2>1. ready' \in Seq(Handlers)
      BY RunsType DEF IInv, TimerShowCards, Handlers
    <2> QED BY <2>1 DEF IInv, TypeOK, TimerShowCards, StayWith, players, Handlers
  <1>2. ChipInv'
    BY SameHandSound DEF TimerShowCards, StayWith
  <1> QED BY <1>1, <1>2 DEF IInv, ChipInv

\* Reopening the table after the last hand moves no chips.
LEMMA TimerNextGameSound == IInv /\ TimerNextGame => IInv'
  <1> SUFFICES ASSUME IInv, TimerNextGame PROVE IInv'
    OBVIOUS
  <1>1. state' = "Init" /\ state' \in States /\ timer' \in Handlers \cup {"none"}
    BY SetStateType DEF TimerNextGame, States
  <1>2. TypeOK'
    <2>1. ready' \in Seq(Handlers)
      BY RunsType DEF IInv, TimerNextGame, Handlers
    <2> QED BY <1>1, <2>1 DEF IInv, TypeOK, TimerNextGame, players
  <1>3. ChipInv'
    BY <1>1, SameHandSound DEF TimerNextGame
  <1> QED BY <1>2, <1>3 DEF IInv, ChipInv

\* Players who come and go take no chips along.
LEMMA PlayersComeAndGoSound ==
    ASSUME IInv, NEW s \in Seats, NEW b \in BOOLEAN,
           LeaveGame(s, b) \/ RejoinGame(s, b) \/ ResetTimeout(s)
    PROVE  IInv'
  <1> USE TableAssumption
  <1>1. UNCHANGED <<hand, blinds, game, state, timer, ready, kicked, active>>
    BY DEF LeaveGame, RejoinGame, ResetTimeout
  <1>2. /\ link' \in [Seats -> {"in", "pending", "out"}]
        /\ guid' \in [Seats -> {"own", "none", "lost"}]
        /\ rejoin' \in SUBSET Seats /\ reactivate' \in SUBSET Seats
    <2>1. CASE LeaveGame(s, b)
      BY <2>1 DEF LeaveGame, IInv, TypeOK
    <2>2. CASE RejoinGame(s, b)
      BY <2>2 DEF RejoinGame, IInv, TypeOK
    <2>3. CASE ResetTimeout(s)
      BY <2>3 DEF ResetTimeout, IInv, TypeOK
    <2> QED BY <2>1, <2>2, <2>3
  <1>3. incidents' \in 0..MaxIncidents
    BY DEF LeaveGame, RejoinGame, ResetTimeout, IInv, TypeOK
  <1>4. TypeOK'
    BY <1>1, <1>2, <1>3 DEF IInv, TypeOK
  <1>5. ChipInv'
    BY <1>1, SameHandSound
  <1> QED BY <1>4, <1>5 DEF IInv, ChipInv

\* The game is closed while a player is waited for, or by the lobby.
LEMMA GameClosedSound ==
    ASSUME IInv, RemoveAllSessions, UNCHANGED <<hand, ready>>
    PROVE  IInv'
  <1>1. hand' \in HandType /\ ready' \in Seq(Handlers)
    BY DEF IInv, TypeOK
  <1>2. TypeOK' /\ state' = "Final" /\ UNCHANGED game
    BY <1>1, RemoveAllSessionsType DEF IInv
  <1>3. ChipInv'
    BY <1>2, SameHandSound
  <1> QED BY <1>2, <1>3 DEF IInv, ChipInv

(***************************************************************************)
(* A player acts, or the server for him                                    *)
(***************************************************************************)

\* The server checks or folds for a player who ran out of time.
LEMMA TimerTimeoutSound == IInv /\ TimerTimeout => IInv'
  <1> SUFFICES ASSUME IInv, TimerTimeout PROVE IInv'
    OBVIOUS
  <1> DEFINE action == IF hand.highestSet = hand.set[hand.turn] THEN "check" ELSE "fold"
  <1>1. hand \in HandType /\ InSync(hand) /\ hand.turn \in Seats \cup {NoSeat}
    BY DEF IInv, TypeOK, ChipsSound, HandType
  <1>2. action \in Actions /\ action \in {"fold", "check"} /\ action # "bet"
    BY DEF Actions
  <1>3. hand' = PerformPlayerAction(hand, hand.turn, action, 0)
    BY DEF TimerTimeout
  <1> HIDE DEF action
  <1>4. Keeps(hand, hand') /\ hand'.round = hand.round
    BY <1>1, <1>2, <1>3, PerformPlayerActionKeeps
  <1>5. ready' \in Seq(Handlers) /\ state = "WaitPlayerAction"
    BY RunsType DEF IInv, TimerTimeout, Handlers, StateOf
  <1>6. state' = "Hand" /\ state' \in States /\ timer' \in Handlers \cup {"none"}
    BY SetStateType DEF TimerTimeout, States
  <1>7. TypeOK'
    BY <1>4, <1>5, <1>6 DEF IInv, TypeOK, TimerTimeout, players, Keeps
  <1>8. game => hand'.round # POST_RIVER
    BY <1>4, <1>5 DEF IInv, HandSound
  <1>9. ChipInv'
    BY <1>4, <1>5, <1>6, <1>8, MovedHandSound DEF TimerTimeout
  <1> QED BY <1>7, <1>9 DEF IInv, ChipInv

\* What the server fills in for the client is an action and a whole number.
LEMMA FillInType ==
    ASSUME NEW h \in HandType, NEW s \in Seats, NEW action \in Actions, NEW bet \in Int
    PROVE  LET request == FillIn(h, s, action, bet)
           IN request.action \in Actions /\ request.bet \in Int
  <1>1. /\ h.set[s] \in Nat /\ h.cash[s] \in Nat /\ h.highestSet \in Nat
    BY DEF HandType
  <1> QED BY <1>1 DEF FillIn, Actions

\* An accepted request is one of the player whose turn it is, for the round, and
\* the amount of a bet is not negative, whatever the client sent.
LEMMA AcceptedRequest ==
    ASSUME hand \in HandType, NEW s \in Seats, NEW round, NEW action \in Actions,
           NEW bet \in Int, MyActionRequest(s, round, action, bet)
    PROVE  /\ state = "WaitPlayerAction" /\ SetState("Hand")
           /\ link[s] = "in" /\ s = hand.turn
           /\ active' = [active EXCEPT ![s] = TRUE]
           /\ UNCHANGED <<blinds, game, ready, link, guid, kicked, rejoin, reactivate,
                          incidents>>
           /\ \E a \in Actions, b \in Int :
                 /\ a # "none"
                 /\ a = "bet" => b \in Nat
                 /\ hand' = PerformPlayerAction(hand, s, a, b)
  <1> DEFINE request == FillIn(hand, s, action, bet)
  <1>1. request.action \in Actions /\ request.bet \in Int
    BY FillInType
  <1>2. /\ state = "WaitPlayerAction" /\ SetState("Hand")
        /\ link[s] = "in" /\ s = hand.turn
        /\ active' = [active EXCEPT ![s] = TRUE]
        /\ UNCHANGED <<blinds, game, ready, link, guid, kicked, rejoin, reactivate,
                       incidents>>
        /\ CheckMyAction(hand, s, request.action, request.bet)
        /\ hand' = PerformPlayerAction(hand, s, request.action, request.bet)
    BY DEF MyActionRequest, ActionValid
  <1> HIDE DEF request
  <1>3. request.action = "bet" => request.bet \in Nat
    <2>1. hand.smallBlind \in Nat /\ hand.cash[s] \in Nat
      BY DEF HandType
    <2> QED BY <1>2, <2>1 DEF CheckMyAction
  <1>4. request.action # "none"
    BY <1>2 DEF CheckMyAction
  <1> QED BY <1>1, <1>2, <1>3, <1>4

\* An accepted action moves chips of the player who acts.
LEMMA MyActionRequestSound ==
    ASSUME IInv, NEW s \in Seats, NEW round, NEW action \in Actions, NEW bet \in Int,
           MyActionRequest(s, round, action, bet)
    PROVE  IInv'
  <1>1. hand \in HandType /\ InSync(hand)
    BY DEF IInv, TypeOK, ChipsSound
  <1>2. /\ state = "WaitPlayerAction" /\ SetState("Hand")
        /\ active' = [active EXCEPT ![s] = TRUE]
        /\ UNCHANGED <<blinds, game, ready, link, guid, kicked, rejoin, reactivate,
                       incidents>>
    BY <1>1, AcceptedRequest
  <1>3. PICK a \in Actions, b \in Int :
            /\ a = "bet" => b \in Nat
            /\ hand' = PerformPlayerAction(hand, s, a, b)
    BY <1>1, AcceptedRequest
  <1>4. Keeps(hand, hand') /\ hand'.round = hand.round
    BY <1>1, <1>3, PerformPlayerActionKeeps
  <1>5. state' = "Hand" /\ state' \in States /\ timer' \in Handlers \cup {"none"}
    BY <1>2, SetStateType DEF States
  <1>6. TypeOK'
    BY <1>2, <1>4, <1>5 DEF IInv, TypeOK, Keeps
  <1>7. game => hand'.round # POST_RIVER
    BY <1>2, <1>4 DEF IInv, HandSound
  <1>8. ChipInv'
    BY <1>2, <1>4, <1>5, <1>7, MovedHandSound
  <1> QED BY <1>6, <1>8 DEF IInv, ChipInv

(***************************************************************************)
(* The next hand                                                           *)
(***************************************************************************)

\* The next hand starts with all chips in the stacks.
LEMMA TimerNextHandSound ==
    ASSUME IInv, NEW idle \in SUBSET Seats, NEW forced \in SUBSET Seats,
           NEW minutesUp \in BOOLEAN, NEW value \in Deals,
           TimerNextHand(idle, forced, minutesUp, value)
    PROVE  IInv'
  <1> USE TableAssumption
  <1> DEFINE raised == RaiseBlinds(blinds, minutesUp)
             next == Other(hand.dealer)
  <1>1. ready' \in Seq(Handlers) /\ state = "WaitNextHand"
    BY RunsType DEF IInv, TimerNextHand, Handlers, StateOf
  <1>2. /\ hand \in HandType /\ game /\ NoBets(hand) /\ hand.pot = 0
        /\ Chips(hand) = 2 * StartCash
    BY <1>1 DEF IInv, TypeOK, ChipsSound, BetweenHands
  <1>3. raised \in ScheduleType /\ raised.small \in Nat
    BY RaiseBlindsType DEF IInv, TypeOK, ScheduleType
  <1>4. next \in Seats /\ value \in [Seats -> CardValues]
    BY <1>2 DEF HandType, Seats, Other, Deals
  <1>5. hand' = NewHand(hand, next, raised.small, value)
    BY DEF TimerNextHand
  <1> HIDE DEF raised, next
  <1>6. /\ hand' \in HandType /\ InSync(hand')
        /\ Chips(hand') = hand.cash[0] + hand.cash[1]
        /\ hand'.start = hand.cash
        /\ \A s \in Seats : hand'.cash[s] <= hand'.start[s]
        /\ hand'.round = PREFLOP
    BY <1>2, <1>3, <1>4, <1>5, NewHandDeals
  <1>7. hand.cash[0] + hand.cash[1] = 2 * StartCash
    BY <1>2 DEF Chips, NoBets, HandType, Seats
  <1>8. state' = "Hand" /\ state' \in States /\ timer' \in Handlers \cup {"none"}
    BY SetStateType DEF TimerNextHand, States
  <1>9. TypeOK'
    <2>1. /\ link' \in [Seats -> {"in", "pending", "out"}]
          /\ guid' \in [Seats -> {"own", "none", "lost"}]
      BY DEF TimerNextHand, IInv, TypeOK
    <2>2. kicked' \in [Seats -> BOOLEAN] /\ active' \in [Seats -> BOOLEAN]
      BY Zenon DEF TimerNextHand, IInv, TypeOK
    <2>3. incidents' \in 0..MaxIncidents
      BY DEF TimerNextHand, IInv, TypeOK
    <2>4. blinds' \in ScheduleType
      BY <1>3 DEF TimerNextHand, raised
    <2> QED BY <1>1, <1>6, <1>8, <2>1, <2>2, <2>3, <2>4 DEF TimerNextHand, IInv, TypeOK
  <1>10. hand'.round # POST_RIVER
    BY <1>6 DEF PREFLOP, POST_RIVER
  <1> QED BY <1>6, <1>7, <1>8, <1>9, <1>10
          DEF IInv, ChipsSound, HandSound, BetweenHands

(***************************************************************************)
(* The engine loop                                                         *)
(***************************************************************************)

\* Dealing cards, asking and skipping a player, and failing, lose no chips.
LEMMA HandGoesOnSound ==
    ASSUME IInv, state = "Hand", ready' \in Seq(Handlers), NEW h, h = PlayHand(hand),
           EngineThrows(h) \/ DealRound(h) \/ SkipAbsent(h) \/ AskPlayer(h)
    PROVE  IInv'
  <1>1. hand \in HandType /\ InSync(hand)
    BY DEF IInv, TypeOK, ChipsSound
  <1>2. h \in HandType /\ InSync(h) /\ Moves(hand, h) /\ Keeps(hand, h)
    BY <1>1, PlayHandKeeps DEF Keeps
  <1>3. CASE EngineThrows(h)
    <2>1. hand' = Throw(h) \/ hand' = Throw(hand)
      BY <1>3 DEF EngineThrows
    <2>2. Keeps(hand, hand') /\ hand' \in HandType
      <3>1. Keeps(h, Throw(h)) /\ Keeps(hand, Throw(hand))
        BY <1>1, <1>2, ThrowKeeps
      <3>2. Keeps(hand, Throw(h))
        BY <1>1, <1>2, <3>1, KeepsTransitive
      <3> QED BY <2>1, <3>1, <3>2 DEF Keeps
    <2>3. TypeOK' /\ state' = "Final" /\ UNCHANGED game
      BY <1>3, <2>2, RemoveAllSessionsType DEF EngineThrows, IInv
    <2>4. ChipInv'
      BY <2>2, <2>3, MovedHandSound
    <2> QED BY <2>3, <2>4 DEF IInv, ChipInv
  <1>4. CASE DealRound(h)
    <2> DEFINE show == h.allIn /\ ~h.shown /\ NonFold(h) = Seats
               b == h.shown \/ show
    <2>1. hand' = [h EXCEPT !.shown = b] /\ b \in BOOLEAN
      BY <1>4 DEF DealRound
    <2> HIDE DEF b
    <2>2. hand' \in HandType /\ hand'.round = h.round
      BY <1>2, <2>1 DEF HandType
    <2>3. InSync(hand') /\ Moves(h, hand')
      BY <1>2, <2>1 DEF InSync, Moves, Chips, HandType
    <2>4. Keeps(hand, hand')
      BY <1>1, <1>2, <2>2, <2>3, KeepsTransitive DEF Keeps
    <2>5. /\ state' = "Hand" /\ timer' \in Handlers /\ h.round # POST_RIVER
          /\ UNCHANGED <<blinds, game>> /\ UNCHANGED players
      BY <1>4 DEF DealRound, StayWith, Handlers
    <2>6. TypeOK'
      BY <2>2, <2>5 DEF IInv, TypeOK, players, States
    <2>7. ChipInv'
      BY <2>2, <2>4, <2>5, MovedHandSound
    <2> QED BY <2>6, <2>7 DEF IInv, ChipInv
  <1>5. CASE SkipAbsent(h)
    <2>1. h.turn \in Seats \cup {NoSeat} /\ "fold" \in Actions /\ 0 \in Int
      BY <1>2 DEF HandType, Actions
    <2>2. hand' = PerformPlayerAction(h, h.turn, "fold", 0)
      BY <1>5 DEF SkipAbsent
    <2>3. Keeps(h, hand') /\ hand'.round = h.round
      BY <1>2, <2>1, <2>2, PerformPlayerActionKeeps
    <2>4. Keeps(hand, hand') /\ hand' \in HandType
      BY <1>1, <1>2, <2>3, KeepsTransitive DEF Keeps
    <2>5. /\ state' = "Hand" /\ timer' \in Handlers /\ h.round # POST_RIVER
          /\ UNCHANGED <<blinds, game>> /\ UNCHANGED players
      BY <1>5 DEF SkipAbsent, StayWith, Handlers
    <2>6. TypeOK'
      BY <2>4, <2>5 DEF IInv, TypeOK, players, States
    <2>7. ChipInv'
      BY <2>3, <2>4, <2>5, MovedHandSound
    <2> QED BY <2>6, <2>7 DEF IInv, ChipInv
  <1>6. CASE AskPlayer(h)
    <2>1. /\ state' = "WaitPlayerAction" /\ timer' \in Handlers \cup {"none"}
          /\ state' \in States
      BY <1>6, SetStateType DEF AskPlayer, States
    <2>2. hand' = h /\ h.round # POST_RIVER /\ UNCHANGED <<blinds, game>> /\ UNCHANGED players
      BY <1>6 DEF AskPlayer
    <2>3. TypeOK'
      BY <1>2, <2>1, <2>2 DEF IInv, TypeOK, players
    <2>4. ChipInv'
      BY <1>2, <2>1, <2>2, MovedHandSound
    <2> QED BY <2>3, <2>4 DEF IInv, ChipInv
  <1> QED BY <1>3, <1>4, <1>5, <1>6

\* The payout returns the pot to the stacks; if a player was removed or is broke
\* the game is over, otherwise all chips are in the two stacks.
LEMMA FinishHandSound ==
    ASSUME IInv, state = "Hand", ready' \in Seq(Handlers), NEW h, h = PlayHand(hand),
           FinishHand(h)
    PROVE  IInv'
  <1> DEFINE paid == PostRiverRun(h)
             cash == [s \in Seats |-> IF Unreachable(s) THEN 0 ELSE paid.cash[s]]
             rich == {s \in Seats : cash[s] > 0}
  <1>1. game /\ NonFold(h) # {} /\ h.round = POST_RIVER
    BY DEF FinishHand, EngineFails
  <1>2. /\ hand \in HandType /\ InSync(hand) /\ hand.round # POST_RIVER
        /\ Chips(hand) = 2 * StartCash
        /\ hand.start[0] + hand.start[1] = 2 * StartCash
        /\ \A s \in Seats : hand.cash[s] <= hand.start[s]
    BY <1>1 DEF IInv, TypeOK, ChipsSound, HandSound
  <1>3. h \in HandType /\ InSync(h) /\ Moves(hand, h) /\ NoBets(h)
    BY <1>1, <1>2, PlayHandKeeps DEF Keeps, Settled
  <1>4. /\ \A s \in Seats : h.cash[s] <= h.start[s]
        /\ h.start[0] + h.start[1] = 2 * StartCash
        /\ h.start[0] + h.start[1] = h.cash[0] + h.cash[1] + h.pot
    <2>1. h.start = hand.start /\ Chips(h) = 2 * StartCash
      BY <1>2, <1>3 DEF Moves
    <2>2. \A s \in Seats : h.cash[s] \in Nat /\ hand.cash[s] \in Nat /\ hand.start[s] \in Nat
      BY <1>2, <1>3 DEF HandType
    <2>3. \A s \in Seats : h.cash[s] <= h.start[s]
      BY <1>2, <1>3, <2>1, <2>2 DEF Moves
    <2>4. Chips(h) = h.cash[0] + h.cash[1] + h.pot
      BY <1>3 DEF Chips, NoBets, HandType, Seats
    <2> QED BY <1>2, <2>1, <2>3, <2>4
  <1>5. /\ paid \in HandType
        /\ paid.cash[0] + paid.cash[1] = h.start[0] + h.start[1]
        /\ paid.pot = 0 /\ paid.set = h.set /\ paid.sets = h.sets
    BY <1>1, <1>3, <1>4, PostRiverRunPays
  <1>6. hand' = [paid EXCEPT !.cash = cash] /\ game' = (rich = Seats)
    BY DEF FinishHand
  <1> HIDE DEF paid
  <1>7. cash \in [Seats -> Nat]
    BY <1>5 DEF HandType
  <1>8. /\ hand' \in HandType /\ hand'.cash = cash /\ hand'.pot = 0
        /\ hand'.set = h.set /\ hand'.sets = h.sets
    <2> HIDE DEF cash
    <2>1. hand' \in HandType
      BY <1>5, <1>6, <1>7 DEF HandType
    <2> QED BY <1>5, <1>6, <2>1 DEF HandType
  <1>9. InSync(hand') /\ NoBets(hand')
    BY <1>3, <1>8 DEF InSync, NoBets
  <1>10. game' => Chips(hand') = 2 * StartCash
    <2> SUFFICES ASSUME rich = Seats PROVE Chips(hand') = 2 * StartCash
      BY <1>6
    <2>1. \A s \in Seats : cash[s] = paid.cash[s]
      <3> SUFFICES ASSUME NEW s \in Seats PROVE cash[s] = paid.cash[s]
        OBVIOUS
      <3>1. cash[s] > 0
        OBVIOUS
      <3> QED BY <3>1
    <2> HIDE DEF cash
    <2>2. hand'.cash[0] + hand'.cash[1] = 2 * StartCash
      BY <1>4, <1>5, <1>8, <2>1 DEF Seats
    <2>3. hand'.cash[0] \in Nat /\ hand'.cash[1] \in Nat
          /\ hand'.set[0] = 0 /\ hand'.set[1] = 0
      BY <1>8, <1>9 DEF NoBets, HandType, Seats
    <2> QED BY <1>8, <2>2, <2>3 DEF Chips
  <1>11. /\ state' \in States /\ timer' \in Handlers \cup {"none"}
         /\ state' = "WaitNextHand" => game'
         /\ state' \in {"Hand", "WaitPlayerAction"} => ~game'
    <2>1. CASE rich = Seats /\ SetState("WaitNextHand")
      <3>1. state' = "WaitNextHand" /\ state' \in States /\ timer' \in Handlers \cup {"none"}
        BY <2>1, SetStateType DEF States
      <3> QED BY <1>6, <2>1, <3>1
    <2>2. CASE rich = {} /\ SetState("Init")
      <3>1. state' = "Init" /\ state' \in States /\ timer' \in Handlers \cup {"none"}
        BY <2>2, SetStateType DEF States
      <3> QED BY <3>1
    <2>3. CASE rich \notin {Seats, {}} /\ StayWith("NextGame")
      <3>1. state' = "Hand" /\ timer' = "NextGame" /\ ~game'
        BY <1>6, <2>3 DEF StayWith
      <3> QED BY <3>1 DEF States, Handlers
    <2> QED BY <2>1, <2>2, <2>3 DEF FinishHand, paid
  <1>12. TypeOK'
    <2>1. guid' \in [Seats -> {"own", "none", "lost"}]
      BY DEF FinishHand, IInv, TypeOK
    <2>2. active' \in [Seats -> BOOLEAN]
      BY Zenon DEF FinishHand, IInv, TypeOK
    <2>3. game' \in BOOLEAN
      BY <1>6
    <2> QED BY <1>8, <1>11, <2>1, <2>2, <2>3 DEF FinishHand, IInv, TypeOK
  <1> QED BY <1>8, <1>9, <1>10, <1>11, <1>12
          DEF IInv, ChipsSound, HandSound, BetweenHands

\* A pass of the engine loop.
LEMMA TimerLoopSound == IInv /\ TimerLoop => IInv'
  <1> SUFFICES ASSUME IInv, TimerLoop PROVE IInv'
    OBVIOUS
  <1> DEFINE h == PlayHand(hand)
  <1>1. ready' \in Seq(Handlers) /\ state = "Hand"
    BY RunsType DEF IInv, TimerLoop, Handlers, StateOf
  <1>2. EngineThrows(h) \/ DealRound(h) \/ SkipAbsent(h) \/ AskPlayer(h) \/ FinishHand(h)
    BY DEF TimerLoop, EngineLoop
  <1> HIDE DEF h
  <1>3. h = PlayHand(hand)
    BY DEF h
  <1> QED BY <1>1, <1>2, <1>3, HandGoesOnSound, FinishHandSound

(***************************************************************************)
(* The theorems                                                            *)
(***************************************************************************)

\* Every step of the server keeps the invariant.
LEMMA NextSound == IInv /\ [Next]_vars => IInv'
  <1> SUFFICES ASSUME IInv, [Next]_vars PROVE IInv'
    OBVIOUS
  <1>1. CASE TimerExpires \/ StaleHandler \/ TimerShowCards \/ TimerNextGame
    BY <1>1, TimerExpiresSound, StaleHandlerSound, TimerShowCardsSound, TimerNextGameSound
  <1>2. CASE TimerLoop
    BY <1>2, TimerLoopSound
  <1>3. CASE TimerTimeout
    BY <1>3, TimerTimeoutSound
  <1>4. CASE \E idle, forced \in SUBSET Seats, minutesUp \in BOOLEAN, value \in Deals :
                TimerNextHand(idle, forced, minutesUp, value)
    BY <1>4, TimerNextHandSound
  <1>5. CASE \E s \in Seats, round \in Rounds, action \in Actions, bet \in 0..MaxBet :
                MyActionRequest(s, round, action, bet)
    BY <1>5, MyActionRequestSound, TableAssumption
  <1>6. CASE TimerRemoveGame \/ \E s \in Seats : UnknownPlayerAction(s)
    BY <1>6, GameClosedSound DEF TimerRemoveGame, UnknownPlayerAction
  <1>7. CASE \E s \in Seats : ResetTimeout(s)
    BY <1>7, PlayersComeAndGoSound
  <1>8. CASE \E s \in Seats, relogin \in BOOLEAN : LeaveGame(s, relogin)
    BY <1>8, PlayersComeAndGoSound
  <1>9. CASE \E s \in Seats, sameSession \in BOOLEAN : RejoinGame(s, sameSession)
    BY <1>9, PlayersComeAndGoSound
  <1>10. CASE UNCHANGED vars
    BY <1>10 DEF vars, IInv, TypeOK, ChipsSound, HandSound, BetweenHands, InSync,
                 Chips, NoBets
  <1> QED
    BY <1>1, <1>2, <1>3, <1>4, <1>5, <1>6, <1>7, <1>8, <1>9, <1>10 DEF Next, GameOver

\* IInv holds in every reachable state of the table.
LEMMA InvariantHolds == Spec => []IInv
  BY InitSound, NextSound, PTL DEF Spec

\* Every variable of the server keeps its type: among others no stack, bet or
\* pot is ever negative, and the small blind is never zero.
THEOREM TypeCorrect == Spec => []TypeOK
  <1>1. IInv => TypeOK
    BY DEF IInv
  <1> QED BY <1>1, InvariantHolds, PTL

\* While a game is on no chip is created or lost, whatever the start stack, the
\* blinds, the bets and the comings and goings of the players.
THEOREM ChipsConserved == Spec => []ChipConservation
  <1>1. IInv => ChipConservation
    BY DEF IInv, ChipsSound, Chips, ChipConservation
  <1> QED BY <1>1, InvariantHolds, PTL

\* The sum of the bets that LocalBoard caches is never stale.
THEOREM SetsStayInSync == Spec => []SetsInSync
  <1>1. IInv => SetsInSync
    BY DEF IInv, ChipsSound, InSync, SetsInSync
  <1> QED BY <1>1, InvariantHolds, PTL

(***************************************************************************)
(* The timer and the queue of the io_context                               *)
(***************************************************************************)

(***************************************************************************)
(* OneLiveHandler is not inductive: that a handler which runs leaves no    *)
(* other live one behind depends on what the queue can hold.  A live       *)
(* handler is always the last one in the queue, since the timer that would *)
(* queue another one is armed again only when it runs; and a game that is  *)
(* over has only the timer that reopens the table.                         *)
(***************************************************************************)
QueueHolds(S) == \A i \in 1..Len(ready) : ready[i] \in S

HandlersFit ==
    /\ state = "Hand" =>
          IF game
          THEN /\ timer \in {"Loop", "ShowCards", "none"}
               /\ QueueHolds({"Loop", "ShowCards", "Timeout"})
          ELSE timer \in {"NextGame", "none"} /\ QueueHolds({"NextGame"})
    /\ state = "WaitPlayerAction" => game /\ QueueHolds({"Timeout"})
    /\ state = "WaitNextHand" => QueueHolds({"NextHand"})
    /\ \A i \in 1..Len(ready) : StateOf(ready[i]) = state => i = Len(ready)

HInv == OneLiveHandler /\ HandlersFit

\* The states in which a handler must be live.
HandlerWanted(s) == s \in Running /\ (s = "WaitPlayerAction" => ActionTimeout)

\* A live handler is queued.
LiveQueued == \E i \in 1..Len(ready) : StateOf(ready[i]) = state

\* OneLiveHandler without the set of live positions.
OneLive ==
    /\ timer # "none" => StateOf(timer) = state
    /\ HandlerWanted(state) <=> (timer # "none" \/ LiveQueued)
    /\ ~(timer # "none" /\ LiveQueued)

\* When a live handler can only be the last one in the queue, there is at most
\* one in it.
LEMMA OneLiveSplit == HandlersFit => (OneLiveHandler <=> OneLive)
  <1> SUFFICES ASSUME HandlersFit PROVE OneLiveHandler <=> OneLive
    OBVIOUS
  <1> DEFINE live == {i \in 1..Len(ready) : StateOf(ready[i]) = state}
  <1>1. live # {} <=> LiveQueued
    BY DEF LiveQueued
  <1>2. \A i, j \in live : i = j
    BY DEF HandlersFit
  <1>3. OneLiveHandler <=>
          /\ timer # "none" => StateOf(timer) = state
          /\ \A i, j \in live : i = j
          /\ HandlerWanted(state) <=> (timer # "none" \/ live # {})
          /\ ~(timer # "none" /\ live # {})
    BY DEF OneLiveHandler, HandlerWanted
  <1> HIDE DEF live
  <1> QED BY <1>1, <1>2, <1>3 DEF OneLive

\* The same of the next state.
LEMMA OneLiveSplitNext == HandlersFit' => (OneLiveHandler' <=> OneLive')
  BY OneLiveSplit, PTL

\* SetState arms the timer with the handler of the new state, if it wants one.
LEMMA SetStateArms ==
    ASSUME NEW new \in States, SetState(new)
    PROVE  /\ state' = new
           /\ timer' # "none" => StateOf(timer') = new
           /\ timer' # "none" <=> HandlerWanted(new)
           /\ new = "Hand" => timer' = "Loop"
  <1> USE TableAssumption
  <1>1. CASE new = "WaitPlayerAction"
    BY <1>1 DEF SetState, StateOf, HandlerWanted, Running
  <1>2. CASE new # "WaitPlayerAction"
    BY <1>2 DEF SetState, StateOf, HandlerWanted, Running, States
  <1> QED BY <1>1, <1>2

\* A handler that runs was the last in the queue.
LEMMA RunsLast ==
    ASSUME TypeOK, HInv, NEW handler \in Handlers, Runs(handler)
    PROVE  ready' = << >> /\ state = StateOf(handler)
  <1>1. /\ ready \in Seq(Handlers) /\ ready # << >>
        /\ ready[1] = handler /\ state = StateOf(handler) /\ ready' = Tail(ready)
    BY DEF TypeOK, Runs
  <1>2. 1 = Len(ready)
    <2>1. 1 \in 1..Len(ready)
      BY <1>1
    <2> QED BY <1>1, <2>1 DEF HInv, HandlersFit
  <1> QED BY <1>1, <1>2

\* After a handler ran, the timer alone decides.
LEMMA EmptyQueueFits ==
    ASSUME ready' = << >>,
           timer' # "none" => StateOf(timer') = state',
           timer' # "none" <=> HandlerWanted(state'),
           state' = "Hand" => IF game' THEN timer' \in {"Loop", "ShowCards", "none"}
                                       ELSE timer' \in {"NextGame", "none"},
           state' = "WaitPlayerAction" => game'
    PROVE  HInv'
  <1>1. \A i : i \notin 1..Len(ready')
    OBVIOUS
  <1>2. HandlersFit'
    BY <1>1 DEF HandlersFit, QueueHolds
  <1>3. ~LiveQueued'
    BY <1>1 DEF LiveQueued
  <1>4. OneLive'
    BY <1>3 DEF OneLive
  <1> QED BY <1>2, <1>4, OneLiveSplitNext DEF HInv

\* The first table state has its loop timer armed and nothing queued.
LEMMA InitHandlers == Init => HInv
  <1> SUFFICES ASSUME Init PROVE HInv
    OBVIOUS
  <1>1. \A i : i \notin 1..Len(ready)
    BY DEF Init
  <1>2. HandlersFit
    BY <1>1 DEF HandlersFit, QueueHolds, Init
  <1>3. OneLive
    BY <1>1 DEF OneLive, LiveQueued, Init, StateOf, HandlerWanted, Running
  <1> QED BY <1>2, <1>3, OneLiveSplit DEF HInv

\* Steps that touch neither the state, nor the timer, nor the queue.
LEMMA SameHandlers ==
    ASSUME HInv, UNCHANGED <<game, state, timer, ready>>
    PROVE  HInv'
  BY DEF HInv, OneLiveHandler, HandlersFit, QueueHolds

\* A state change that cancels the timer and leaves the queue: what is queued
\* there was meant for the state that was left.
LEMMA LeftStateHandlers ==
    ASSUME TypeOK, HInv, UNCHANGED <<game, ready>>,
           NEW new \in States, SetState(new),
           \/ new = "Final"
           \/ state = "WaitPlayerAction" /\ new = "Hand"
    PROVE  HInv'
  <1>1. /\ state' = new
        /\ timer' # "none" => StateOf(timer') = new
        /\ timer' # "none" <=> HandlerWanted(new)
        /\ new = "Hand" => timer' = "Loop"
    BY SetStateArms
  <1>2. \A i \in 1..Len(ready') : StateOf(ready'[i]) # state'
    <2>1. CASE new = "Final"
      BY <1>1, <2>1 DEF StateOf
    <2>2. CASE state = "WaitPlayerAction" /\ new = "Hand"
      BY <1>1, <2>2 DEF HInv, HandlersFit, QueueHolds, StateOf
    <2> QED BY <2>1, <2>2
  <1>3. HandlersFit'
    <2>1. CASE new = "Final"
      BY <1>1, <1>2, <2>1 DEF HandlersFit
    <2>2. CASE state = "WaitPlayerAction" /\ new = "Hand"
      BY <1>1, <1>2, <2>2 DEF HInv, HandlersFit, QueueHolds
    <2> QED BY <2>1, <2>2
  <1>4. OneLive'
    BY <1>1, <1>2 DEF OneLive, LiveQueued
  <1> QED BY <1>3, <1>4, OneLiveSplitNext DEF HInv

\* An expired timer's handler becomes the last in the queue.
LEMMA TimerExpiresHandlers == TypeOK /\ HInv /\ TimerExpires => HInv'
  <1> SUFFICES ASSUME TypeOK, HInv, TimerExpires PROVE HInv'
    OBVIOUS
  <1> DEFINE n == Len(ready)
  <1>1. /\ timer # "none" /\ timer' = "none" /\ UNCHANGED <<game, state>>
        /\ n \in Nat /\ Len(ready') = n + 1 /\ ready'[n + 1] = timer
        /\ \A i \in 1..n : ready'[i] = ready[i]
    BY DEF TimerExpires, TypeOK
  <1>2. StateOf(timer) = state /\ HandlerWanted(state) /\ ~LiveQueued
    BY <1>1, OneLiveSplit DEF HInv, OneLive
  <1>3. \A i \in 1..n : StateOf(ready[i]) # state
    BY <1>2 DEF LiveQueued
  <1>4. \A i \in 1..(n + 1) : i \in 1..n \/ i = n + 1
    BY <1>1
  <1>5. \A S : QueueHolds(S) /\ timer \in S => QueueHolds(S)'
    BY <1>1, <1>4 DEF QueueHolds
  <1>6. HandlersFit'
    <2>1. /\ timer \in Handlers
          /\ StateOf(timer) = "Hand" => timer \in {"Loop", "ShowCards", "NextGame"}
          /\ StateOf(timer) = "WaitPlayerAction" => timer = "Timeout"
          /\ StateOf(timer) = "WaitNextHand" => timer = "NextHand"
      BY <1>1 DEF TypeOK, Handlers, StateOf
    <2>2. \A i \in 1..Len(ready') : StateOf(ready'[i]) = state' => i = Len(ready')
      BY <1>1, <1>3, <1>4
    <2>3. (state = "Hand" /\ game) => QueueHolds({"Loop", "ShowCards", "Timeout"})'
      BY <1>1, <1>5 DEF HInv, HandlersFit
    <2>4. (state = "Hand" /\ ~game) => QueueHolds({"NextGame"})'
      BY <1>1, <1>5 DEF HInv, HandlersFit
    <2>5. state = "WaitPlayerAction" => game /\ QueueHolds({"Timeout"})'
      BY <1>2, <1>5, <2>1 DEF HInv, HandlersFit
    <2>6. state = "WaitNextHand" => QueueHolds({"NextHand"})'
      BY <1>2, <1>5, <2>1 DEF HInv, HandlersFit
    <2> QED BY <1>1, <2>2, <2>3, <2>4, <2>5, <2>6 DEF HandlersFit, QueueHolds
  <1>7. OneLive'
    <2>1. LiveQueued'
      <3>1. n + 1 \in 1..Len(ready') /\ StateOf(ready'[n + 1]) = state'
        BY <1>1, <1>2
      <3> QED BY <3>1 DEF LiveQueued
    <2> QED BY <1>1, <1>2, <2>1 DEF OneLive
  <1> QED BY <1>6, <1>7, OneLiveSplitNext DEF HInv

\* A stale handler leaves the queue without having been the live one.
LEMMA StaleHandlerHandlers == TypeOK /\ HInv /\ StaleHandler => HInv'
  <1> SUFFICES ASSUME TypeOK, HInv, StaleHandler PROVE HInv'
    OBVIOUS
  <1> DEFINE n == Len(ready)
  <1>1. /\ UNCHANGED <<game, state, timer>>
        /\ n \in Nat \ {0} /\ Len(ready') = n - 1
        /\ \A i \in 1..(n - 1) : i + 1 \in 1..n /\ ready'[i] = ready[i + 1]
        /\ StateOf(ready[1]) # state
    BY DEF StaleHandler, TypeOK
  <1>2. HandlersFit'
    <2>1. \A S : QueueHolds(S) => QueueHolds(S)'
      BY <1>1 DEF QueueHolds
    <2>2. \A i \in 1..Len(ready') : StateOf(ready'[i]) = state' => i = Len(ready')
      BY <1>1 DEF HInv, HandlersFit
    <2>3. /\ (state = "Hand" /\ game) => QueueHolds({"Loop", "ShowCards", "Timeout"})'
          /\ (state = "Hand" /\ ~game) => QueueHolds({"NextGame"})'
          /\ state = "WaitPlayerAction" => game /\ QueueHolds({"Timeout"})'
          /\ state = "WaitNextHand" => QueueHolds({"NextHand"})'
      BY <2>1 DEF HInv, HandlersFit
    <2> QED BY <1>1, <2>2, <2>3 DEF HInv, HandlersFit, QueueHolds
  <1>3. LiveQueued' <=> LiveQueued
    <2>1. ASSUME LiveQueued PROVE LiveQueued'
      <3>1. PICK i \in 1..n : StateOf(ready[i]) = state
        BY <2>1 DEF LiveQueued
      <3>2. i - 1 \in 1..(n - 1) /\ (i - 1) + 1 = i
        BY <1>1, <3>1
      <3> QED BY <1>1, <3>1, <3>2 DEF LiveQueued
    <2>2. ASSUME LiveQueued' PROVE LiveQueued
      BY <1>1, <2>2 DEF LiveQueued
    <2> QED BY <2>1, <2>2
  <1>4. OneLive'
    BY <1>1, <1>3, OneLiveSplit DEF HInv, OneLive
  <1> QED BY <1>2, <1>4, OneLiveSplitNext DEF HInv

\* A handler that runs leaves the queue empty and arms the timer again as its
\* new state wants it.
LEMMA RunsHandlers ==
    ASSUME TypeOK, HInv, NEW handler \in Handlers, Runs(handler),
           \/ \E new \in States : SetState(new)
           \/ \E next \in Handlers : StayWith(next) /\ StateOf(next) = state,
           state' = "Hand" => IF game' THEN timer' \in {"Loop", "ShowCards", "none"}
                                       ELSE timer' \in {"NextGame", "none"},
           state' = "WaitPlayerAction" => game'
    PROVE  HInv'
  <1>1. ready' = << >> /\ state = StateOf(handler)
    BY RunsLast
  <1>2. CASE \E new \in States : SetState(new)
    <2>1. PICK new \in States : SetState(new)
      BY <1>2
    <2>2. /\ state' = new
          /\ timer' # "none" => StateOf(timer') = new
          /\ timer' # "none" <=> HandlerWanted(new)
      BY <2>1, SetStateArms
    <2> QED BY <1>1, <2>2, EmptyQueueFits
  <1>3. CASE \E next \in Handlers : StayWith(next) /\ StateOf(next) = state
    <2>1. state' = state /\ StateOf(timer') = state /\ timer' # "none"
      BY <1>3 DEF StayWith, Handlers
    <2>2. HandlerWanted(state)
      <3>1. LiveQueued
        <4>1. 1 \in 1..Len(ready) /\ StateOf(ready[1]) = state
          BY DEF Runs, TypeOK
        <4> QED BY <4>1 DEF LiveQueued
      <3> QED BY <3>1, OneLiveSplit DEF HInv, OneLive
    <2> QED BY <1>1, <2>1, <2>2, EmptyQueueFits
  <1> QED BY <1>2, <1>3

\* The passes of the loop, the payout and the handlers that follow it.
LEMMA TimerLoopHandlers == TypeOK /\ HInv /\ TimerLoop => HInv'
  <1> SUFFICES ASSUME TypeOK, HInv, TimerLoop PROVE HInv'
    OBVIOUS
  <1> DEFINE h == PlayHand(hand)
  <1>1. Runs("Loop") /\ "Loop" \in Handlers /\ state = "Hand"
    BY DEF TimerLoop, Runs, Handlers, StateOf
  <1>2. EngineThrows(h) \/ DealRound(h) \/ SkipAbsent(h) \/ AskPlayer(h) \/ FinishHand(h)
    BY DEF TimerLoop, EngineLoop
  <1> HIDE DEF h
  <1>3. CASE EngineThrows(h)
    <2>1. SetState("Final") /\ "Final" \in States /\ state' = "Final"
      BY <1>3, SetStateArms DEF EngineThrows, RemoveAllSessions, States
    <2> QED BY <1>1, <2>1, RunsHandlers
  <1>4. CASE DealRound(h) \/ SkipAbsent(h)
    <2>1. PICK next \in {"Loop", "ShowCards"} : StayWith(next)
      BY <1>4 DEF DealRound, SkipAbsent
    <2>2. next \in Handlers /\ StateOf(next) = state /\ timer' = next /\ state' = state
      BY <1>1, <2>1 DEF Handlers, StateOf, StayWith
    <2>3. game'
      BY <1>4 DEF DealRound, SkipAbsent, EngineFails
    <2> QED BY <1>1, <2>1, <2>2, <2>3, RunsHandlers
  <1>5. CASE AskPlayer(h)
    <2>1. SetState("WaitPlayerAction") /\ "WaitPlayerAction" \in States /\ game'
      BY <1>5 DEF AskPlayer, EngineFails, States
    <2>2. state' = "WaitPlayerAction"
      BY <2>1 DEF SetState
    <2> QED BY <1>1, <2>1, <2>2, RunsHandlers
  <1>6. CASE FinishHand(h)
    <2> DEFINE paid == PostRiverRun(h)
               cash == [s \in Seats |-> IF Unreachable(s) THEN 0 ELSE paid.cash[s]]
               rich == {s \in Seats : cash[s] > 0}
    <2>1. /\ game' = (rich = Seats)
          /\ \/ rich = Seats /\ SetState("WaitNextHand")
             \/ rich = {} /\ SetState("Init")
             \/ rich \notin {Seats, {}} /\ StayWith("NextGame")
      BY <1>6 DEF FinishHand
    <2> HIDE DEF rich
    <2>2. CASE SetState("WaitNextHand") \/ SetState("Init")
      <3>1. PICK new \in {"WaitNextHand", "Init"} : SetState(new)
        BY <2>2
      <3>2. new \in States /\ state' = new
        BY <3>1 DEF States, SetState
      <3> QED BY <1>1, <3>1, <3>2, RunsHandlers
    <2>3. CASE rich # Seats /\ StayWith("NextGame")
      <3>1. /\ "NextGame" \in Handlers /\ StateOf("NextGame") = state
            /\ timer' = "NextGame" /\ state' = "Hand" /\ ~game'
        BY <1>1, <2>1, <2>3 DEF Handlers, StateOf, StayWith
      <3> QED BY <1>1, <2>3, <3>1, RunsHandlers
    <2> QED BY <2>1, <2>2, <2>3
  <1> QED BY <1>2, <1>3, <1>4, <1>5, <1>6

\* The other handlers.
LEMMA OtherHandlers ==
    ASSUME TypeOK, BetweenHands, HInv,
           \/ TimerShowCards \/ TimerNextGame \/ TimerTimeout
           \/ \E idle, forced \in SUBSET Seats, minutesUp \in BOOLEAN, value \in Deals :
                 TimerNextHand(idle, forced, minutesUp, value)
    PROVE  HInv'
  <1>1. PICK handler \in Handlers : Runs(handler)
    BY DEF TimerShowCards, TimerNextGame, TimerTimeout, TimerNextHand, Handlers
  <1>2. CASE TimerShowCards
    <2>1. Runs("ShowCards") /\ StayWith("Loop") /\ UNCHANGED game /\ "ShowCards" \in Handlers
      BY <1>2 DEF TimerShowCards, Handlers
    <2>2. state = "Hand" /\ "Loop" \in Handlers /\ StateOf("Loop") = state
      BY <2>1 DEF Runs, StateOf, Handlers
    <2>3. game
      <3>1. 1 \in 1..Len(ready) /\ ready[1] = "ShowCards"
        BY <2>1 DEF Runs, TypeOK
      <3> QED BY <2>2, <3>1 DEF HInv, HandlersFit, QueueHolds
    <2>4. timer' = "Loop" /\ state' = state
      BY <2>1 DEF StayWith
    <2> QED BY <1>1, <2>1, <2>2, <2>3, <2>4, RunsHandlers
  <1>3. CASE TimerNextGame
    <2>1. SetState("Init") /\ "Init" \in States /\ state' = "Init"
      BY <1>3, SetStateArms DEF TimerNextGame, States
    <2> QED BY <1>1, <2>1, RunsHandlers
  <1>4. CASE ~TimerShowCards /\ ~TimerNextGame
    <2>1. SetState("Hand") /\ "Hand" \in States /\ UNCHANGED game
      BY <1>4 DEF TimerTimeout, TimerNextHand, States
    <2>2. state' = "Hand" /\ timer' = "Loop"
      BY <2>1, SetStateArms
    <2>3. game
      <3>1. state = "WaitPlayerAction" \/ state = "WaitNextHand"
        BY <1>4 DEF TimerTimeout, TimerNextHand, Runs, StateOf
      <3> QED BY <3>1 DEF BetweenHands, HInv, HandlersFit
    <2> QED BY <1>1, <2>1, <2>2, <2>3, RunsHandlers
  <1> QED BY <1>2, <1>3, <1>4

\* Every step of the server keeps exactly the wanted handler live.
LEMMA NextHandlers == IInv /\ HInv /\ [Next]_vars => HInv'
  <1> SUFFICES ASSUME IInv, HInv, [Next]_vars PROVE HInv'
    OBVIOUS
  <1>1. TypeOK /\ BetweenHands
    BY DEF IInv
  <1>2. CASE TimerExpires \/ StaleHandler
    BY <1>1, <1>2, TimerExpiresHandlers, StaleHandlerHandlers
  <1>3. CASE TimerLoop
    BY <1>1, <1>3, TimerLoopHandlers
  <1>4. CASE \/ TimerShowCards \/ TimerNextGame \/ TimerTimeout
             \/ \E idle, forced \in SUBSET Seats, minutesUp \in BOOLEAN, value \in Deals :
                   TimerNextHand(idle, forced, minutesUp, value)
    BY <1>1, <1>4, OtherHandlers
  <1>5. CASE \E s \in Seats, round \in Rounds, action \in Actions, bet \in 0..MaxBet :
                MyActionRequest(s, round, action, bet)
    <2>1. /\ state = "WaitPlayerAction" /\ SetState("Hand") /\ "Hand" \in States
          /\ UNCHANGED <<game, ready>>
      BY <1>5 DEF MyActionRequest, States
    <2> QED BY <1>1, <2>1, LeftStateHandlers
  <1>6. CASE TimerRemoveGame \/ \E s \in Seats : UnknownPlayerAction(s)
    <2>1. SetState("Final") /\ "Final" \in States /\ UNCHANGED <<game, ready>>
      BY <1>6 DEF TimerRemoveGame, UnknownPlayerAction, RemoveAllSessions, States
    <2> QED BY <1>1, <2>1, LeftStateHandlers
  <1>7. CASE \/ \E s \in Seats : ResetTimeout(s)
             \/ \E s \in Seats, b \in BOOLEAN : LeaveGame(s, b) \/ RejoinGame(s, b)
    <2>1. UNCHANGED <<game, state, timer, ready>>
      BY <1>7 DEF ResetTimeout, LeaveGame, RejoinGame
    <2> QED BY <2>1, SameHandlers
  <1>8. CASE UNCHANGED vars
    BY <1>8, SameHandlers DEF vars
  <1> QED BY <1>2, <1>3, <1>4, <1>5, <1>6, <1>7, <1>8 DEF Next, GameOver

\* HInv holds in every reachable state of the table.
LEMMA HandlersHold == Spec => []HInv
  BY InitHandlers, NextHandlers, InvariantHolds, PTL DEF Spec

\* In every state that waits for a timer exactly one handler of that state is
\* armed or queued: no stale timeout acts for a player who has only just been
\* asked, no hand is dealt twice, and no table hangs for want of a timer.
THEOREM HandlerIsLive == Spec => []OneLiveHandler
  <1>1. HInv => OneLiveHandler
    BY DEF HInv
  <1> QED BY <1>1, HandlersHold, PTL

(***************************************************************************)
(* The payout                                                              *)
(***************************************************************************)

\* LocalBoard::distributePot leaves each player the stack the rules give him.
LEMMA PayoutIsFair ==
    ASSUME NEW h \in HandType, PotIsPaidIn(h), NEW s \in Seats
    PROVE  PostRiverRun(h).cash[s] = FairStack(h, s)
  <1> DEFINE o == Other(s)
             cs == Contribution(h, s)
             co == Contribution(h, o)
             W == Best(h, NonFold(h))
             matched == IF cs <= co THEN cs ELSE co
  <1>1. o \in Seats /\ o # s /\ Seats = {s, o}
    BY DEF Other, Seats
  <1>2. /\ cs \in Nat /\ co \in Nat /\ h.cash[s] \in Nat /\ h.start[s] \in Nat
        /\ cs = h.start[s] - h.cash[s] /\ co = h.start[o] - h.cash[o]
        /\ h.value[s] \in Int /\ h.value[o] \in Int
    BY <1>1 DEF Contribution, HandType, PotIsPaidIn, CardValues
  <1>3. PICK a, b \in Seats :
           /\ a # b /\ Contribution(h, a) <= Contribution(h, b)
           /\ PostRiverRun(h).cash[s] = h.cash[s] + TwoLevels(h, a, b, s)
    BY PayoutShares
  <1>4. (a = s /\ b = o) \/ (a = o /\ b = s)
    BY <1>1, <1>3
  <1>5. s \in NonFold(h) \/ o \in NonFold(h)
    BY <1>1 DEF PotIsPaidIn, NonFold
  <1>6. FairStack(h, s) =
           IF s \notin NonFold(h) THEN h.cash[s]
           ELSE IF o \notin NonFold(h) THEN h.start[s] + co
           ELSE IF h.value[s] > h.value[o] THEN h.start[s] + matched
           ELSE IF h.value[s] < h.value[o] THEN h.start[s] - matched
           ELSE h.start[s]
    BY <1>1, <1>2 DEF FairStack, NonFold
  <1> DEFINE low == Contribution(h, a)
             upper == Contribution(h, b) - low
  <1>7. /\ matched = low /\ low \in Nat /\ upper \in Nat
        /\ a = s => cs = low /\ co = low + upper
        /\ a = o => co = low /\ cs = low + upper
    BY <1>2, <1>3, <1>4
  <1>8. TwoLevels(h, a, b, s) =
           IF LowLevelFinal(h, a)
           THEN Share(h, W, 2 * low, s) + (IF s = UpperWinner(h, a, b) THEN upper ELSE 0)
           ELSE IF s = UpperWinner(h, a, b) THEN upper + 2 * low ELSE 0
    BY DEF TwoLevels
  <1>9. LowLevelFinal(h, a) <=> \E t \in W : Contribution(h, t) = low
    BY DEF LowLevelFinal
  <1> HIDE DEF o, W, low, upper, cs, co, matched
  <1>10. CASE s \notin NonFold(h)
    <2>1. W = {o}
      BY <1>1, <1>5, <1>10, BestOfTwo DEF W
    <2>2. UpperWinner(h, a, b) = o
      BY <1>4, <1>5, <1>10 DEF UpperWinner
    <2>3. Share(h, W, 2 * low, s) = 0
      BY <1>1, <2>1 DEF Share
    <2>4. TwoLevels(h, a, b, s) = 0
      BY <1>1, <1>8, <2>2, <2>3
    <2> QED BY <1>2, <1>3, <1>6, <1>10, <2>4
  <1>11. CASE s \in NonFold(h) /\ o \notin NonFold(h)
    <2>1. W = {s}
      BY <1>1, <1>11, BestOfTwo DEF W
    <2>2. UpperWinner(h, a, b) = s
      BY <1>1, <1>4, <1>11 DEF UpperWinner
    <2>3. Share(h, W, 2 * low, s) = 2 * low
      BY <2>1 DEF Share
    <2>4. TwoLevels(h, a, b, s) = upper + 2 * low
      BY <1>7, <1>8, <2>2, <2>3
    <2> QED BY <1>2, <1>3, <1>4, <1>6, <1>7, <1>11, <2>4
  <1>12. CASE s \in NonFold(h) /\ o \in NonFold(h) /\ h.value[s] > h.value[o]
    <2>1. W = {s} /\ UpperWinner(h, a, b) = b
      BY <1>1, <1>4, <1>12, BestOfTwo DEF W, UpperWinner
    <2>2. Share(h, W, 2 * low, s) = 2 * low
      BY <2>1 DEF Share
    <2>3. LowLevelFinal(h, a) <=> cs = low
      BY <1>9, <2>1 DEF cs
    <2>4. TwoLevels(h, a, b, s) = IF s = a THEN 2 * low ELSE upper + 2 * low
      BY <1>1, <1>4, <1>7, <1>8, <2>1, <2>2, <2>3
    <2> QED BY <1>1, <1>2, <1>3, <1>4, <1>6, <1>7, <1>12, <2>4
  <1>13. CASE s \in NonFold(h) /\ o \in NonFold(h) /\ h.value[s] < h.value[o]
    <2>1. W = {o} /\ UpperWinner(h, a, b) = b
      BY <1>1, <1>4, <1>13, BestOfTwo DEF W, UpperWinner
    <2>2. Share(h, W, 2 * low, s) = 0
      BY <1>1, <2>1 DEF Share
    <2>3. LowLevelFinal(h, a) <=> co = low
      BY <1>9, <2>1 DEF co
    <2>4. TwoLevels(h, a, b, s) = IF s = a THEN 0 ELSE upper
      BY <1>1, <1>4, <1>7, <1>8, <2>1, <2>2, <2>3
    <2>5. FairStack(h, s) = h.start[s] - matched
      <3>1. ~(h.value[s] > h.value[o])
        BY <1>2, <1>13
      <3> QED BY <1>6, <1>13, <3>1
    <2>6. h.start[s] = h.cash[s] + cs
      BY <1>2
    <2>7. PostRiverRun(h).cash[s] = h.cash[s] + cs - low
      <3>1. h.cash[s] \in Nat
        BY <1>2
      <3>2. CASE s = a
        BY <1>3, <1>7, <2>4, <3>1, <3>2
      <3>3. CASE a = o
        BY <1>1, <1>3, <1>7, <2>4, <3>1, <3>3
      <3> QED BY <1>4, <3>2, <3>3
    <2>8. h.cash[s] \in Nat /\ cs \in Nat /\ low \in Nat /\ matched = low
      BY <1>2, <1>7
    <2> QED BY <2>5, <2>6, <2>7, <2>8
  <1>14. CASE s \in NonFold(h) /\ o \in NonFold(h) /\ h.value[s] = h.value[o]
    <2>1. W = Seats /\ UpperWinner(h, a, b) = b
      BY <1>1, <1>4, <1>14, BestOfTwo DEF W, UpperWinner
    <2>2. Share(h, W, 2 * low, s) = low
      <3>1. W # {s} /\ s \in W
        BY <1>1, <2>1
      <3>2. (2 * low) \div 2 = low /\ (2 * low) % 2 = 0
        BY <1>7
      <3> QED BY <1>7, <3>1, <3>2 DEF Share
    <2>3. LowLevelFinal(h, a)
      BY <1>9, <2>1 DEF low
    <2>4. TwoLevels(h, a, b, s) = IF s = a THEN low ELSE low + upper
      BY <1>1, <1>4, <1>7, <1>8, <2>1, <2>2, <2>3
    <2> QED BY <1>1, <1>2, <1>3, <1>4, <1>6, <1>7, <1>14, <2>4
  <1> QED BY <1>2, <1>10, <1>11, <1>12, <1>13, <1>14

(***************************************************************************)
(* The hand in every state of the table                                    *)
(***************************************************************************)

(***************************************************************************)
(* That the engine never throws is not inductive: it depends on the hand   *)
(* being one a pass can begin with whenever the loop runs, and on the      *)
(* player who acts being the one who may be asked.  A bet is on            *)
(* the table from the blinds to the payout, and the next hand is dealt     *)
(* only to two players with chips.                                         *)
(***************************************************************************)
OnTable(h) == h.pot + h.set[0] + h.set[1]

EInv ==
    /\ ~hand.error
    /\ game => Highest(hand)
    /\ state = "Hand" /\ game => ReadyToPlay(hand)
    /\ state = "WaitPlayerAction" => game /\ Decides(hand)
    /\ game /\ state \in {"Hand", "WaitPlayerAction"} => OnTable(hand) > 0
    /\ state = "WaitNextHand" => game /\ \A s \in Seats : hand.cash[s] > 0

TInv == IInv /\ HInv /\ EInv

\* The first hand is one the engine can begin with.
LEMMA FirstHand ==
    ASSUME NEW dealer \in Seats, NEW value \in Deals
    PROVE  LET g == NewHand(EmptyHand(StartCash), dealer, FirstSmallBlind, value)
           IN /\ ReadyToPlay(g) /\ Highest(g) /\ ~g.error
              /\ BrokeHasActed(g)
              /\ g.pot = 0
              /\ \A s \in Seats : g.set[s] \in 1..StartCash /\ g.cash[s] = StartCash - g.set[s]
  <1> USE SettingsAssumption
  <1> DEFINE e == EmptyHand(StartCash)
  <1>1. /\ e \in HandType /\ NoBets(e) /\ e.pot = 0
    BY EmptyHandType
  <1>2. ~e.error /\ \A s \in Seats : e.cash[s] = StartCash
    BY DEF EmptyHand
  <1>3. value \in [Seats -> CardValues]
    BY DEF Deals
  <1>4. \A s \in Seats : e.cash[s] > 0
    <2>1. StartCash > 0
      OBVIOUS
    <2> QED BY <1>2, <2>1
  <1> HIDE DEF e
  <1> DEFINE g == NewHand(e, dealer, FirstSmallBlind, value)
  <1>5. /\ ReadyToPlay(g) /\ Highest(g) /\ ~g.error /\ BrokeHasActed(g)
        /\ g.pot = 0
        /\ \A s \in Seats : g.set[s] \in 1..e.cash[s] /\ g.cash[s] = e.cash[s] - g.set[s]
    BY <1>1, <1>2, <1>3, <1>4, NewHandReady
  <1> HIDE DEF g
  <1>6. /\ ReadyToPlay(g) /\ Highest(g) /\ ~g.error /\ BrokeHasActed(g)
        /\ g.pot = 0
        /\ \A s \in Seats : g.set[s] \in 1..StartCash /\ g.cash[s] = StartCash - g.set[s]
    BY <1>2, <1>5
  <1> QED BY <1>6 DEF g, e

\* The game begins with that hand, in state Hand.
LEMMA InitEngine == Init => EInv
  <1> SUFFICES ASSUME Init PROVE EInv
    OBVIOUS
  <1> USE SettingsAssumption
  <1>1. PICK dealer \in Seats, value \in Deals :
            hand = NewHand(EmptyHand(StartCash), dealer, FirstSmallBlind, value)
    BY DEF Init
  <1>2. /\ ReadyToPlay(hand) /\ Highest(hand) /\ ~hand.error
        /\ hand.pot = 0
        /\ \A s \in Seats : hand.set[s] \in 1..StartCash
    BY <1>1, FirstHand
  <1>3. OnTable(hand) > 0
    BY <1>2 DEF OnTable, Seats
  <1> QED BY <1>2, <1>3 DEF Init, EInv

\* Steps that leave the hand alone and at most end the game.
LEMMA SameHandEngine ==
    ASSUME EInv, UNCHANGED <<hand, game>>, state' \in {state, "Init", "Final"}
    PROVE  EInv'
  BY DEF EInv

\* The loop runs only while the game is on.
LEMMA LoopRunsInGame ==
    ASSUME TypeOK, HInv, Runs("Loop")
    PROVE  state = "Hand" /\ game
  <1>1. state = "Hand" /\ 1 \in 1..Len(ready) /\ ready[1] = "Loop"
    BY DEF Runs, TypeOK, StateOf
  <1> QED BY <1>1 DEF HInv, HandlersFit, QueueHolds

\* The bets of a player's action come from his stack.
LEMMA BetsOnTable ==
    ASSUME NEW h \in HandType, NEW g \in HandType, NEW s \in Seats,
           NEW n \in 0..h.cash[s], Bets(h, g, s, n)
    PROVE  OnTable(g) = OnTable(h) + n /\ g.cash[s] = h.cash[s] - n
  <1>1. /\ \A t \in Seats : h.set[t] \in Nat /\ h.cash[t] \in Nat
        /\ h.pot \in Nat /\ n \in Nat
        /\ g.pot = h.pot
        /\ g.set = [h.set EXCEPT ![s] = @ + n] /\ g.cash = [h.cash EXCEPT ![s] = @ - n]
        /\ h.set \in [Seats -> Nat] /\ h.cash \in [Seats -> Nat]
    BY DEF Bets, HandType
  <1>2. CASE s = 0
    BY <1>1, <1>2 DEF OnTable, Seats
  <1>3. CASE s = 1
    BY <1>1, <1>3 DEF OnTable, Seats
  <1> QED BY <1>2, <1>3 DEF Seats

\* What is true of the hand after the pass of the engine.
PassDone(h) ==
    /\ h \in HandType /\ InSync(h) /\ h = PlayHand(hand)
    /\ RoundOver(hand, h) \/ PlayerAsked(hand, h)
    /\ hand.round \in Rounds /\ hand.round # POST_RIVER
    /\ ~EngineFails(h)
    /\ OnTable(h) = OnTable(hand)
    /\ h.round = POST_RIVER => PotIsPaidIn(h)

\* The loop finds a hand the engine can go on with, and no exception is thrown.
LEMMA PassSucceeds ==
    ASSUME IInv, EInv, state = "Hand", game, NEW h, h = PlayHand(hand)
    PROVE  PassDone(h)
  <1>1. /\ hand \in HandType /\ InSync(hand) /\ hand.round # POST_RIVER /\ hand.round \in Rounds
        /\ ~hand.error /\ ReadyToPlay(hand) /\ Highest(hand)
        /\ Chips(hand) = 2 * StartCash
        /\ hand.start[0] + hand.start[1] = 2 * StartCash
        /\ \A s \in Seats : hand.cash[s] <= hand.start[s]
    BY DEF IInv, TypeOK, ChipsSound, HandSound, EInv, HandType
  <1>2. RoundOver(hand, h) \/ PlayerAsked(hand, h)
    BY <1>1, PlayHandPlays
  <1>3. h \in HandType /\ InSync(h) /\ Moves(hand, h)
    BY <1>1, PlayHandKeeps DEF Keeps
  <1>4. h.cash = hand.cash /\ h.start = hand.start /\ ~h.error
    BY <1>2 DEF RoundOver, PlayerAsked, SamePlayers
  <1>5. OnTable(h) = OnTable(hand)
    <2>1. Chips(h) = Chips(hand)
      BY <1>3 DEF Moves
    <2>2. /\ h.cash[0] \in Nat /\ h.cash[1] \in Nat /\ h.pot \in Nat
          /\ h.set[0] \in Nat /\ h.set[1] \in Nat
      BY <1>3 DEF HandType, Seats
    <2>3. hand.pot \in Nat /\ hand.set[0] \in Nat /\ hand.set[1] \in Nat
      BY <1>1 DEF HandType, Seats
    <2> QED BY <1>4, <2>1, <2>2, <2>3 DEF Chips, OnTable
  <1>6. ~EngineFails(h)
    <2>1. CASE RoundOver(hand, h)
      BY <1>1, <1>4, <2>1 DEF EngineFails, RoundOver, Rounds
    <2>2. CASE PlayerAsked(hand, h)
      <3>1. h.turn \in Seats /\ ~h.allIn /\ NonFold(h) # {} /\ h.round = hand.round
        BY <1>3, <2>2 DEF PlayerAsked, Decides, ReadyToPlay, HandType
      <3> QED BY <1>1, <1>4, <3>1 DEF EngineFails, Seats, NoSeat, Rounds
    <2> QED BY <1>2, <2>1, <2>2
  <1>7. ASSUME h.round = POST_RIVER PROVE PotIsPaidIn(h)
    <2>1. RoundOver(hand, h)
      BY <1>1, <1>2, <1>7 DEF PlayerAsked
    <2>2. h.set[0] = 0 /\ h.set[1] = 0
      BY <2>1 DEF RoundOver, NoBets, Seats
    <2>3. Chips(h) = h.start[0] + h.start[1]
      BY <1>1, <1>3, <1>4 DEF Moves
    <2>4. h.cash[0] \in Nat /\ h.cash[1] \in Nat /\ h.pot \in Nat
      BY <1>3 DEF HandType, Seats
    <2>5. Chips(h) = h.cash[0] + h.cash[1] + h.pot
      BY <2>2, <2>4 DEF Chips
    <2> QED BY <1>1, <1>4, <2>1, <2>3, <2>5 DEF PotIsPaidIn, RoundOver
  <1> QED BY <1>1, <1>2, <1>3, <1>5, <1>6, <1>7 DEF PassDone

\* Which cards were shown matters only to who shows them.
LEMMA ShownFields ==
    ASSUME NEW h \in HandType, NEW shown \in BOOLEAN
    PROVE  LET g == [h EXCEPT !.shown = shown]
           IN /\ ReadyToPlay(g) <=> ReadyToPlay(h)
              /\ Highest(g) <=> Highest(h)
              /\ OnTable(g) = OnTable(h) /\ g.error = h.error
              /\ g.cash = h.cash /\ g.round = h.round
  <1> DEFINE g == [h EXCEPT !.shown = shown]
  <1>1. /\ g.action = h.action /\ g.running = h.running /\ g.allIn = h.allIn
        /\ g.round = h.round /\ g.firstRun = h.firstRun /\ g.firstRound = h.firstRound
        /\ g.turn = h.turn /\ g.dealer = h.dealer /\ g.set = h.set /\ g.pot = h.pot
        /\ g.highestSet = h.highestSet /\ g.error = h.error /\ g.cash = h.cash
    BY DEF HandType
  <1> HIDE DEF g
  <1>2. SmallBlindSeat(g) = SmallBlindSeat(h) /\ BigBlindSeat(g) = BigBlindSeat(h)
    BY <1>1 DEF SmallBlindSeat, BigBlindSeat
  <1>3. NonFold(g) = NonFold(h)
    BY <1>1 DEF NonFold
  <1>4. BettingGoesOn(g) <=> BettingGoesOn(h)
    BY <1>1, <1>2 DEF BettingGoesOn
  <1>5. ReadyToPlay(g) <=> ReadyToPlay(h)
    BY <1>1, <1>3, <1>4 DEF ReadyToPlay
  <1>6. Highest(g) <=> Highest(h)
    BY <1>1 DEF Highest
  <1>7. OnTable(g) = OnTable(h)
    BY <1>1 DEF OnTable
  <1> QED BY <1>1, <1>5, <1>6, <1>7 DEF g

\* Without bets and with no highest bet, highestSet is right.
LEMMA NoBetsHighest ==
    ASSUME NEW h, NoBets(h), h.highestSet = 0
    PROVE  Highest(h)
  BY DEF NoBets, Highest, Seats

\* An action of the player who was asked leaves a hand the engine can go on with,
\* and nothing is taken off the table.
LEMMA ActedEngine ==
    ASSUME NEW h \in HandType, InSync(h), Decides(h), Highest(h), ~h.error,
           NEW action \in Actions, NEW bet \in Int, action = "bet" => bet \in Nat
    PROVE  LET g == PerformPlayerAction(h, h.turn, action, bet)
           IN /\ ReadyToPlay(g) /\ Highest(g) /\ ~g.error /\ g.round = h.round
              /\ \E n \in 0..h.cash[h.turn] :
                    /\ g.cash = [h.cash EXCEPT ![h.turn] = @ - n]
                    /\ OnTable(g) = OnTable(h) + n
  <1> DEFINE s == h.turn
             g == PerformPlayerAction(h, s, action, bet)
  <1>1. s \in Seats /\ h.set[s] <= h.highestSet
    BY DEF Decides, Highest, HandType
  <1>2. ReadyToPlay(g) /\ Highest(g) /\ ~g.error
    BY ActedReady
  <1> HIDE DEF s
  <1>3. g \in HandType
    BY <1>1, PerformPlayerActionKeeps DEF Keeps
  <1>4. /\ \E n \in 0..h.cash[s] : Bets(h, g, s, n)
        /\ g.action = [h.action EXCEPT ![s] = action]
        /\ g.round = h.round
    BY <1>1, PerformPlayerActionFields
  <1> HIDE DEF g
  <1>5. PICK n \in 0..h.cash[s] : Bets(h, g, s, n)
    BY <1>4
  <1>6. OnTable(g) = OnTable(h) + n
    BY <1>1, <1>3, <1>5, BetsOnTable
  <1>7. g.cash = [h.cash EXCEPT ![s] = @ - n]
    BY <1>5 DEF Bets
  <1> QED BY <1>2, <1>4, <1>6, <1>7 DEF g, s

\* What is on the table is a number of chips.
LEMMA OnTableType ==
    ASSUME NEW h \in HandType
    PROVE  OnTable(h) \in Nat
  <1>1. h.pot \in Nat /\ h.set[0] \in Nat /\ h.set[1] \in Nat
    BY DEF HandType, Seats
  <1> QED BY <1>1 DEF OnTable

(***************************************************************************)
(* The engine loop keeps the hand one the engine can go on with            *)
(***************************************************************************)

\* The next round is dealt: its hand is ready, and the bets are in the pot.
LEMMA DealRoundEngine ==
    ASSUME state = "Hand", game, OnTable(hand) > 0, NEW h, PassDone(h), DealRound(h)
    PROVE  EInv'
  <1>1. h \in HandType /\ RoundOver(hand, h) /\ h.round # POST_RIVER
    BY DEF PassDone, PlayerAsked, DealRound
  <1>2. PICK b \in BOOLEAN : hand' = [h EXCEPT !.shown = b]
    <2> DEFINE b == h.shown \/ (h.allIn /\ ~h.shown /\ NonFold(h) = Seats)
    <2>1. b \in BOOLEAN /\ hand' = [h EXCEPT !.shown = b]
      BY DEF DealRound
    <2> QED BY <2>1
  <1>3. state' = "Hand" /\ UNCHANGED game
    BY DEF DealRound, StayWith
  <1>4. ReadyToPlay(h) /\ ~h.error /\ Highest(h)
    BY <1>1, NoBetsHighest DEF RoundOver
  <1>5. OnTable(h) > 0
    BY DEF PassDone
  <1>6. ReadyToPlay(hand') /\ Highest(hand') /\ ~hand'.error /\ OnTable(hand') = OnTable(h)
    BY <1>1, <1>2, <1>4, ShownFields
  <1> QED BY <1>3, <1>5, <1>6 DEF EInv

\* The pass has found a player to ask: he may be asked.
LEMMA PassAsks ==
    ASSUME NEW h, PassDone(h), h.round = hand.round
    PROVE  /\ h \in HandType /\ InSync(h) /\ PlayerAsked(hand, h)
           /\ Decides(h) /\ Highest(h) /\ ~h.error
           /\ OnTable(h) = OnTable(hand)
  <1>1. hand.round \in Nat /\ ~RoundOver(hand, h)
    BY DEF PassDone, RoundOver, Rounds
  <1>2. PlayerAsked(hand, h)
    BY <1>1 DEF PassDone
  <1> QED BY <1>2 DEF PassDone, PlayerAsked

\* The loop folds for an absent player and goes on.
LEMMA SkipAbsentEngine ==
    ASSUME state = "Hand", game, OnTable(hand) > 0, NEW h, PassDone(h), SkipAbsent(h)
    PROVE  EInv'
  <1>1. /\ h \in HandType /\ InSync(h) /\ Decides(h) /\ Highest(h) /\ ~h.error
        /\ OnTable(h) > 0
    BY PassAsks DEF SkipAbsent
  <1>2. hand' = PerformPlayerAction(h, h.turn, "fold", 0)
    BY DEF SkipAbsent
  <1>3. state' = "Hand" /\ UNCHANGED game
    BY DEF SkipAbsent, StayWith
  <1>4. "fold" \in Actions /\ 0 \in Nat
    BY DEF Actions
  <1>5. /\ ReadyToPlay(hand') /\ Highest(hand') /\ ~hand'.error /\ hand'.round = h.round
        /\ \E n \in 0..h.cash[h.turn] :
              /\ hand'.cash = [h.cash EXCEPT ![h.turn] = @ - n]
              /\ OnTable(hand') = OnTable(h) + n
    BY <1>1, <1>2, <1>4, ActedEngine
  <1>6. OnTable(hand') > 0
    BY <1>1, <1>5, OnTableType
  <1> QED BY <1>3, <1>5, <1>6 DEF EInv

\* The player who is asked is the one the pass has found.
LEMMA AskPlayerEngine ==
    ASSUME state = "Hand", game, OnTable(hand) > 0, NEW h, PassDone(h), AskPlayer(h)
    PROVE  EInv'
  <1>1. Decides(h) /\ Highest(h) /\ ~h.error /\ OnTable(h) > 0
    BY PassAsks DEF AskPlayer
  <1>2. hand' = h /\ UNCHANGED game /\ state' = "WaitPlayerAction"
    BY DEF AskPlayer, SetState
  <1> QED BY <1>1, <1>2 DEF EInv

\* What FinishHand does to the hand and the game.
LEMMA FinishHandFields ==
    ASSUME state = "Hand", NEW h, PassDone(h), FinishHand(h)
    PROVE  /\ PotIsPaidIn(h) /\ RoundOver(hand, h)
           /\ hand' = [PostRiverRun(h) EXCEPT !.cash =
                          [s \in Seats |-> IF Unreachable(s) THEN 0
                                           ELSE PostRiverRun(h).cash[s]]]
           /\ PostRiverRun(h) \in HandType
           /\ hand'.cash = [s \in Seats |-> IF Unreachable(s) THEN 0
                                            ELSE PostRiverRun(h).cash[s]]
           /\ hand'.set = h.set /\ hand'.highestSet = h.highestSet
           /\ hand'.round = POST_RIVER /\ ~hand'.error
           /\ hand'.pot = 0
           /\ game' = (\A s \in Seats : hand'.cash[s] > 0)
           /\ \/ game' /\ state' = "WaitNextHand"
              \/ ~game' /\ state' \in {"Init", "Hand"}
  <1> DEFINE paid == PostRiverRun(h)
             cash == [s \in Seats |-> IF Unreachable(s) THEN 0 ELSE paid.cash[s]]
             rich == {s \in Seats : cash[s] > 0}
  <1>1. h \in HandType /\ h.round = POST_RIVER /\ PotIsPaidIn(h) /\ RoundOver(hand, h)
    BY DEF PassDone, FinishHand, PlayerAsked
  <1>2. /\ paid.set = h.set /\ paid.highestSet = h.highestSet
        /\ paid.round = POST_RIVER /\ ~paid.error
    BY <1>1, PostRiverRunFields DEF RoundOver
  <1>3. paid \in HandType /\ paid.pot = 0
    BY <1>1, PostRiverRunPays DEF PotIsPaidIn
  <1>4. /\ hand' = [paid EXCEPT !.cash = cash]
        /\ game' = (rich = Seats)
        /\ \/ rich = Seats /\ SetState("WaitNextHand")
           \/ rich = {} /\ SetState("Init")
           \/ rich \notin {Seats, {}} /\ StayWith("NextGame")
    BY DEF FinishHand
  <1> HIDE DEF paid
  <1>5. (rich = Seats) <=> \A s \in Seats : cash[s] > 0
    OBVIOUS
  <1> HIDE DEF cash
  <1>6. /\ hand'.cash = cash /\ hand'.set = h.set /\ hand'.highestSet = h.highestSet
        /\ hand'.round = POST_RIVER /\ ~hand'.error /\ hand'.pot = 0
    BY <1>2, <1>3, <1>4 DEF HandType
  <1>7. \/ rich = Seats /\ state' = "WaitNextHand"
        \/ rich # Seats /\ state' \in {"Init", "Hand"}
    <2>1. rich = {} => rich # Seats
      BY DEF Seats
    <2> HIDE DEF rich
    <2> QED BY <1>4, <2>1 DEF SetState, StayWith
  <1> HIDE DEF rich
  <1>8. game' = (\A s \in Seats : hand'.cash[s] > 0)
    BY <1>4, <1>5, <1>6
  <1>9. \/ game' /\ state' = "WaitNextHand"
        \/ ~game' /\ state' \in {"Init", "Hand"}
    BY <1>4, <1>7
  <1> QED BY <1>1, <1>3, <1>4, <1>6, <1>8, <1>9 DEF paid, cash

\* The hand is over: the game goes on only if both have chips.
LEMMA FinishHandEngine ==
    ASSUME state = "Hand", NEW h, PassDone(h), FinishHand(h)
    PROVE  EInv'
  <1>1. RoundOver(hand, h)
    BY FinishHandFields
  <1>2. NoBets(hand') /\ hand'.highestSet = 0
    BY <1>1, FinishHandFields DEF RoundOver, NoBets
  <1>3. Highest(hand')
    BY <1>2, NoBetsHighest
  <1>4. /\ ~hand'.error
        /\ game' => state' = "WaitNextHand" /\ \A s \in Seats : hand'.cash[s] > 0
        /\ state' = "WaitNextHand" => game'
        /\ state' # "WaitPlayerAction"
    BY FinishHandFields
  <1> QED BY <1>3, <1>4 DEF EInv

\* A pass of the loop is one of its four outcomes, on the hand the engine's pass
\* has made of the one before.
LEMMA LoopOutcomes ==
    ASSUME TInv, TimerLoop
    PROVE  /\ state = "Hand" /\ game
           /\ \E h : /\ PassDone(h)
                     /\ DealRound(h) \/ SkipAbsent(h) \/ AskPlayer(h) \/ FinishHand(h)
  <1> DEFINE h == PlayHand(hand)
  <1>1. state = "Hand" /\ game
    BY LoopRunsInGame DEF TInv, IInv, TimerLoop
  <1>2. PassDone(h)
    BY <1>1, PassSucceeds DEF TInv
  <1>3. DealRound(h) \/ SkipAbsent(h) \/ AskPlayer(h) \/ FinishHand(h)
    BY <1>2 DEF TimerLoop, EngineLoop, EngineThrows, PassDone
  <1> QED BY <1>1, <1>2, <1>3

\* All four keep the hand one the engine can go on with.
LEMMA TimerLoopEngine == TInv /\ TimerLoop => EInv'
  <1> SUFFICES ASSUME TInv, TimerLoop PROVE EInv'
    OBVIOUS
  <1>1. state = "Hand" /\ game
    BY LoopOutcomes
  <1>2. PICK h : /\ PassDone(h)
                 /\ DealRound(h) \/ SkipAbsent(h) \/ AskPlayer(h) \/ FinishHand(h)
    BY LoopOutcomes
  <1>3. OnTable(hand) > 0
    BY <1>1 DEF TInv, EInv
  <1> QED BY <1>1, <1>2, <1>3, DealRoundEngine, SkipAbsentEngine, AskPlayerEngine,
             FinishHandEngine

(***************************************************************************)
(* The other handlers                                                      *)
(***************************************************************************)

\* The player who was asked has acted, or the server has for him.
LEMMA ActedHand ==
    ASSUME TInv, state = "WaitPlayerAction", UNCHANGED game, state' = "Hand",
           NEW action \in Actions, NEW bet \in Int, action = "bet" => bet \in Nat,
           hand' = PerformPlayerAction(hand, hand.turn, action, bet)
    PROVE  /\ EInv'
           /\ hand'.round = hand.round
           /\ \E n \in 0..hand.cash[hand.turn] :
                 /\ hand'.cash = [hand.cash EXCEPT ![hand.turn] = @ - n]
                 /\ OnTable(hand') = OnTable(hand) + n
  <1>1. /\ hand \in HandType /\ InSync(hand) /\ game /\ Decides(hand) /\ Highest(hand)
        /\ ~hand.error /\ OnTable(hand) > 0
    BY DEF TInv, IInv, TypeOK, ChipsSound, EInv
  <1>2. /\ ReadyToPlay(hand') /\ Highest(hand') /\ ~hand'.error /\ hand'.round = hand.round
        /\ \E n \in 0..hand.cash[hand.turn] :
              /\ hand'.cash = [hand.cash EXCEPT ![hand.turn] = @ - n]
              /\ OnTable(hand') = OnTable(hand) + n
    BY <1>1, ActedEngine
  <1>3. OnTable(hand') > 0
    BY <1>1, <1>2, OnTableType
  <1>4. EInv'
    BY <1>2, <1>3 DEF EInv
  <1> QED BY <1>2, <1>4

\* The time limit of the player who was asked is over.
LEMMA TimerTimeoutActs ==
    ASSUME TInv, TimerTimeout
    PROVE  /\ state = "WaitPlayerAction" /\ state' = "Hand" /\ UNCHANGED game
           /\ \E action \in {"check", "fold"} :
                 hand' = PerformPlayerAction(hand, hand.turn, action, 0)
  BY DEF TimerTimeout, Runs, StateOf, SetState, players

\* A timeout or an accepted action.
PlayerActs ==
    /\ state = "WaitPlayerAction" /\ state' = "Hand" /\ UNCHANGED game
    /\ \E action \in Actions, bet \in Int :
          /\ action # "none"
          /\ action = "bet" => bet \in Nat
          /\ hand' = PerformPlayerAction(hand, hand.turn, action, bet)

\* An accepted action is one of the player whose turn it is.
LEMMA MyActionRequestActs ==
    ASSUME TInv, NEW s \in Seats, NEW round, NEW action \in Actions, NEW bet \in Int,
           MyActionRequest(s, round, action, bet)
    PROVE  PlayerActs
  <1>1. hand \in HandType
    BY DEF TInv, IInv, TypeOK
  <1> QED BY <1>1, AcceptedRequest DEF SetState, PlayerActs

\* The next hand is dealt to two players with chips.
LEMMA TimerNextHandDeals ==
    ASSUME TInv, NEW idle \in SUBSET Seats, NEW forced \in SUBSET Seats,
           NEW minutesUp \in BOOLEAN, NEW value \in Deals,
           TimerNextHand(idle, forced, minutesUp, value)
    PROVE  /\ EInv'
           /\ state = "WaitNextHand" /\ state' = "Hand" /\ game /\ UNCHANGED game
           /\ NoBets(hand) /\ hand.pot = 0
           /\ hand'.round = PREFLOP /\ hand'.pot = 0 /\ BrokeHasActed(hand')
           /\ \A s \in Seats : /\ hand'.set[s] \in 1..hand.cash[s]
                               /\ hand'.cash[s] = hand.cash[s] - hand'.set[s]
  <1> DEFINE raised == RaiseBlinds(blinds, minutesUp)
             next == Other(hand.dealer)
  <1>1. state = "WaitNextHand" /\ state' = "Hand" /\ UNCHANGED game
    BY DEF TimerNextHand, Runs, StateOf, SetState
  <1>2. /\ hand \in HandType /\ game /\ NoBets(hand) /\ hand.pot = 0 /\ ~hand.error
        /\ \A s \in Seats : hand.cash[s] > 0
    BY <1>1 DEF TInv, IInv, TypeOK, BetweenHands, EInv
  <1>3. raised.small \in Nat \ {0}
    BY RaiseBlindsType DEF TInv, IInv, TypeOK, ScheduleType
  <1>4. next \in Seats /\ value \in [Seats -> CardValues]
    BY <1>2 DEF HandType, Seats, Other, Deals
  <1>5. hand' = NewHand(hand, next, raised.small, value)
    BY DEF TimerNextHand
  <1> HIDE DEF raised, next
  <1>6. /\ ReadyToPlay(hand') /\ Highest(hand') /\ ~hand'.error
        /\ BrokeHasActed(hand')
        /\ hand'.pot = 0
        /\ \A s \in Seats : /\ hand'.set[s] \in 1..hand.cash[s]
                            /\ hand'.cash[s] = hand.cash[s] - hand'.set[s]
    BY <1>2, <1>3, <1>4, <1>5, NewHandReady
  <1>7. hand'.round = PREFLOP
    BY <1>2, <1>3, <1>4, <1>5, NewHandDeals
  <1>8. OnTable(hand') > 0
    <2>1. hand'.set[0] \in Nat /\ hand'.set[1] \in Nat /\ hand'.set[0] > 0
      BY <1>6 DEF Seats
    <2> QED BY <1>6, <2>1 DEF OnTable
  <1>9. EInv'
    BY <1>1, <1>6, <1>8 DEF EInv
  <1> QED BY <1>1, <1>2, <1>6, <1>7, <1>9

\* The steps that leave the hand alone: the queue, the players who come and go,
\* and the end of a game.
IdleStep ==
    \/ TimerExpires \/ StaleHandler \/ TimerShowCards \/ TimerNextGame
    \/ \E s \in Seats : UnknownPlayerAction(s) \/ ResetTimeout(s)
    \/ \E s \in Seats, b \in BOOLEAN : LeaveGame(s, b) \/ RejoinGame(s, b)
    \/ TimerRemoveGame
    \/ UNCHANGED vars

\* They do, and the state stays or the game is over.
LEMMA IdleStepFields ==
    ASSUME IdleStep
    PROVE  UNCHANGED <<hand, game>> /\ state' \in {state, "Init", "Final"}
  <1>1. CASE TimerExpires \/ StaleHandler \/ TimerShowCards \/ TimerNextGame
    BY <1>1 DEF TimerExpires, StaleHandler, TimerShowCards, TimerNextGame, StayWith, SetState
  <1>2. CASE \E s \in Seats : UnknownPlayerAction(s) \/ ResetTimeout(s)
    BY <1>2 DEF UnknownPlayerAction, ResetTimeout, RemoveAllSessions, SetState
  <1>3. CASE \E s \in Seats, b \in BOOLEAN : LeaveGame(s, b) \/ RejoinGame(s, b)
    BY <1>3 DEF LeaveGame, RejoinGame
  <1>4. CASE TimerRemoveGame
    BY <1>4 DEF TimerRemoveGame, RemoveAllSessions, SetState
  <1>5. CASE UNCHANGED vars
    BY <1>5 DEF vars
  <1> QED BY <1>1, <1>2, <1>3, <1>4, <1>5 DEF IdleStep

\* The steps that change the hand.
HandStep ==
    \/ TimerLoop
    \/ TimerTimeout
    \/ \E idle, forced \in SUBSET Seats, minutesUp \in BOOLEAN, value \in Deals :
          TimerNextHand(idle, forced, minutesUp, value)
    \/ \E s \in Seats, round \in Rounds, action \in Actions, bet \in 0..MaxBet :
          MyActionRequest(s, round, action, bet)

\* Every step is of one of the two kinds.
LEMMA NextSplit == [Next]_vars => IdleStep \/ HandStep
  BY DEF Next, GameOver, IdleStep, HandStep

\* The steps that change the hand are a pass of the loop, the next hand, or
\* somebody acts.
LEMMA HandStepSplit ==
    ASSUME TInv, HandStep
    PROVE  \/ TimerLoop
           \/ \E idle, forced \in SUBSET Seats, minutesUp \in BOOLEAN, value \in Deals :
                 TimerNextHand(idle, forced, minutesUp, value)
           \/ PlayerActs
  <1>1. CASE TimerTimeout
    <2>1. "check" \in Actions /\ "fold" \in Actions /\ 0 \in Nat
      BY DEF Actions
    <2> QED BY <1>1, <2>1, TimerTimeoutActs DEF PlayerActs
  <1>2. ASSUME NEW s \in Seats, NEW round \in Rounds, NEW action \in Actions,
               NEW bet \in 0..MaxBet, MyActionRequest(s, round, action, bet)
        PROVE  PlayerActs
    BY <1>2, MyActionRequestActs, TableAssumption
  <1> QED BY <1>1, <1>2 DEF HandStep

\* Every step keeps the hand one the engine can go on with.
LEMMA NextEngine == TInv /\ [Next]_vars => EInv'
  <1> SUFFICES ASSUME TInv, [Next]_vars PROVE EInv'
    OBVIOUS
  <1>1. CASE IdleStep
    BY <1>1, IdleStepFields, SameHandEngine DEF TInv
  <1>2. CASE TimerLoop
    BY <1>2, TimerLoopEngine
  <1>3. CASE \E idle, forced \in SUBSET Seats, minutesUp \in BOOLEAN, value \in Deals :
                TimerNextHand(idle, forced, minutesUp, value)
    BY <1>3, TimerNextHandDeals
  <1>4. CASE PlayerActs
    BY <1>4, ActedHand DEF PlayerActs
  <1> QED BY <1>1, <1>2, <1>3, <1>4, NextSplit, HandStepSplit

\* They also do when a request has a larger amount than the bound of Next.
LEMMA AnyRequestKeeps ==
    ASSUME TInv, NEW s \in Seats, NEW round, NEW action \in Actions, NEW bet \in Int,
           MyActionRequest(s, round, action, bet)
    PROVE  TInv'
  <1>1. IInv' /\ EInv'
    BY MyActionRequestSound, MyActionRequestActs, ActedHand DEF TInv, PlayerActs
  <1>2. /\ state = "WaitPlayerAction" /\ SetState("Hand") /\ "Hand" \in States
        /\ UNCHANGED <<game, ready>>
    BY DEF MyActionRequest, States
  <1>3. HInv'
    BY <1>2, LeftStateHandlers DEF TInv, IInv
  <1> QED BY <1>1, <1>3 DEF TInv

\* TInv holds in every reachable state of the table.
LEMMA EngineHolds == Spec => []TInv
  <1>1. Init => TInv
    BY InitSound, InitHandlers, InitEngine DEF TInv
  <1>2. TInv /\ [Next]_vars => TInv'
    BY NextSound, NextHandlers, NextEngine DEF TInv
  <1> QED BY <1>1, <1>2, PTL DEF Spec

\* No sequence of actions, timeouts, departures and returns, with whatever stacks
\* and blinds, makes the engine throw the exception that closes the game.
THEOREM EngineIsSafe == Spec => []EngineNeverThrows
  <1>1. TInv => EngineNeverThrows
    BY DEF TInv, EInv, EngineNeverThrows
  <1> QED BY <1>1, EngineHolds, PTL

\* The betting round's highestSet is always the highest bet on the table, and at
\* least that before the flop.
THEOREM HighestSetHolds == Spec => []HighestSetIsHighest
  <1>1. TInv => HighestSetIsHighest
    BY DEF TInv, EInv, Highest, HighestSetIsHighest
  <1> QED BY <1>1, EngineHolds, PTL

\* Who is all in stays so while the hand is played: the engine asks only who is
\* not, and its passes clear no such action.
LEMMA AllInStays ==
    ASSUME TInv, IdleStep \/ TimerLoop \/ PlayerActs,
           game', state' \in {"Hand", "WaitPlayerAction"}
    PROVE  /\ game /\ state \in {"Hand", "WaitPlayerAction"}
           /\ \A s \in Seats : hand.action[s] = "allin" => hand'.action[s] = "allin"
  <1>1. CASE IdleStep
    BY <1>1, IdleStepFields
  <1>2. CASE TimerLoop
    <2>1. state = "Hand" /\ game
      BY <1>2, LoopOutcomes
    <2>2. PICK h : /\ PassDone(h)
                   /\ DealRound(h) \/ SkipAbsent(h) \/ AskPlayer(h) \/ FinishHand(h)
      BY <1>2, LoopOutcomes
    <2>3. h \in HandType /\ SamePlayers(hand, h)
      BY <2>2 DEF PassDone, RoundOver, PlayerAsked
    <2>4. \A s \in Seats : hand.action[s] = "allin" => h.action[s] = "allin"
      BY <2>3 DEF SamePlayers
    <2>5. CASE DealRound(h)
      <3>1. \E b : hand' = [h EXCEPT !.shown = b]
        BY <2>5 DEF DealRound
      <3>2. hand'.action = h.action
        BY <2>3, <3>1 DEF HandType
      <3> QED BY <2>1, <2>4, <3>2
    <2>6. CASE SkipAbsent(h)
      <3>1. h.round = hand.round /\ hand' = PerformPlayerAction(h, h.turn, "fold", 0)
        BY <2>6 DEF SkipAbsent
      <3>2. Decides(h) /\ Highest(h)
        BY <2>2, <3>1, PassAsks
      <3>3. /\ h.turn \in Seats /\ "fold" \in Actions /\ h.set[h.turn] <= h.highestSet
            /\ h.action[h.turn] # "allin"
        BY <2>3, <3>2 DEF Decides, HandType, Actions, Highest
      <3>4. hand'.action = [h.action EXCEPT ![h.turn] = "fold"]
        BY <2>3, <3>1, <3>3, PerformPlayerActionFields
      <3>5. h.action \in [Seats -> Actions]
        BY <2>3 DEF HandType
      <3> QED BY <2>1, <2>4, <3>3, <3>4, <3>5
    <2>7. CASE AskPlayer(h)
      BY <2>1, <2>4, <2>7 DEF AskPlayer
    <2>8. CASE FinishHand(h)
      <3>1. ~game' \/ state' \notin {"Hand", "WaitPlayerAction"}
        BY <2>8 DEF FinishHand, SetState
      <3> QED BY <3>1
    <2> QED BY <2>2, <2>5, <2>6, <2>7, <2>8
  <1>3. CASE PlayerActs
    <2>1. hand \in HandType /\ game /\ Decides(hand) /\ Highest(hand)
      BY <1>3 DEF PlayerActs, TInv, IInv, TypeOK, EInv
    <2>2. /\ hand.turn \in Seats /\ hand.set[hand.turn] <= hand.highestSet
          /\ hand.action[hand.turn] # "allin" /\ hand.action \in [Seats -> Actions]
      BY <2>1 DEF Decides, HandType, Highest
    <2>3. PICK action \in Actions :
             hand'.action = [hand.action EXCEPT ![hand.turn] = action]
      BY <1>3, <2>1, <2>2, PerformPlayerActionFields DEF PlayerActs
    <2> QED BY <1>3, <2>1, <2>2, <2>3 DEF PlayerActs
  <1> QED BY <1>1, <1>2, <1>3

\* Who acts has not acted with "none".
LEMMA ActedHasActed ==
    ASSUME NEW h \in HandType, BrokeHasActed(h), NEW s \in Seats,
           NEW action \in Actions, action # "none", NEW bet \in Int,
           action = "bet" => bet \in Nat, InSync(h), h.set[s] <= h.highestSet
    PROVE  BrokeHasActed(PerformPlayerAction(h, s, action, bet))
  <1> DEFINE g == PerformPlayerAction(h, s, action, bet)
  <1>1. /\ \E n \in 0..h.cash[s] : Bets(h, g, s, n)
        /\ g.action = [h.action EXCEPT ![s] = action]
        /\ g.round = h.round
    BY PerformPlayerActionFields
  <1> HIDE DEF g
  <1>2. \A t \in Seats \ {s} : g.cash[t] = h.cash[t] /\ g.action[t] = h.action[t]
    BY <1>1 DEF Bets, HandType
  <1>3. g.action[s] = action
    BY <1>1 DEF HandType
  <1>4. BrokeHasActed(g)
    BY <1>1, <1>2, <1>3 DEF BrokeHasActed
  <1> QED BY <1>4 DEF g

\* A pass of the loop ends before the flop only by asking a player, or by folding
\* for one who is absent.
LEMMA LoopHasActed ==
    ASSUME TInv, BrokeHasActed(hand), TimerLoop
    PROVE  BrokeHasActed(hand')
  <1>1. PICK h : /\ PassDone(h)
                 /\ DealRound(h) \/ SkipAbsent(h) \/ AskPlayer(h) \/ FinishHand(h)
    BY LoopOutcomes
  <1>2. h \in HandType /\ hand.round \in Nat
    BY <1>1 DEF PassDone, Rounds
  <1>3. CASE RoundOver(hand, h) /\ (DealRound(h) \/ FinishHand(h))
    <2>1. hand'.round = h.round
      <3>1. CASE DealRound(h)
        BY <1>2, <3>1 DEF DealRound, HandType
      <3>2. CASE FinishHand(h)
        BY <1>1, <1>2, <3>2, LoopOutcomes, FinishHandFields DEF FinishHand
      <3> QED BY <1>3, <3>1, <3>2
    <2>2. hand'.round # PREFLOP
      BY <1>2, <1>3, <2>1 DEF RoundOver, PREFLOP, Rounds
    <2> QED BY <2>2 DEF BrokeHasActed
  <1>4. CASE SkipAbsent(h) \/ AskPlayer(h)
    <2>1. /\ PlayerAsked(hand, h) /\ InSync(h) /\ Decides(h) /\ Highest(h)
      BY <1>1, <1>4, PassAsks DEF SkipAbsent, AskPlayer
    <2>2. BrokeHasActed(h)
      BY <2>1 DEF PlayerAsked, SamePlayers, BrokeHasActed
    <2>3. CASE AskPlayer(h)
      BY <2>2, <2>3 DEF AskPlayer
    <2>4. CASE SkipAbsent(h)
      <3>1. hand' = PerformPlayerAction(h, h.turn, "fold", 0)
        BY <2>4 DEF SkipAbsent
      <3>2. h.turn \in Seats /\ h.set[h.turn] <= h.highestSet
        BY <1>2, <2>1 DEF Decides, Highest, HandType
      <3>3. "fold" \in Actions
        BY DEF Actions
      <3> QED BY <1>2, <2>1, <2>2, <3>1, <3>2, <3>3, ActedHasActed
    <2> QED BY <1>4, <2>3, <2>4
  <1>5. RoundOver(hand, h) \/ ~(DealRound(h) \/ FinishHand(h))
    BY <1>1 DEF PassDone, PlayerAsked, DealRound, FinishHand
  <1> QED BY <1>1, <1>3, <1>4, <1>5

\* Nobody is asked to act once the betting is settled, and before the flop nobody
\* is asked whom a blind left without chips.
THEOREM DecisionsMatter == Spec => []NoPointlessDecision
  <1> DEFINE acted == BrokeHasActed(hand)
  <1>1. Init => acted
    BY FirstHand DEF Init
  <1>2. TInv /\ acted /\ [Next]_vars => acted'
    <2> SUFFICES ASSUME TInv, BrokeHasActed(hand), [Next]_vars
                 PROVE  BrokeHasActed(hand')
      OBVIOUS
    <2>1. CASE IdleStep
      BY <2>1, IdleStepFields
    <2>2. CASE TimerLoop
      BY <2>2, LoopHasActed
    <2>3. CASE \E idle, forced \in SUBSET Seats, minutesUp \in BOOLEAN, value \in Deals :
                  TimerNextHand(idle, forced, minutesUp, value)
      BY <2>3, TimerNextHandDeals
    <2>4. CASE PlayerActs
      <3>1. /\ hand \in HandType /\ InSync(hand) /\ Decides(hand) /\ Highest(hand)
        BY <2>4 DEF PlayerActs, TInv, IInv, TypeOK, ChipsSound, EInv
      <3>2. hand.turn \in Seats /\ hand.set[hand.turn] <= hand.highestSet
        BY <3>1 DEF Decides, Highest, HandType
      <3> QED BY <2>4, <3>1, <3>2, ActedHasActed DEF PlayerActs
    <2> QED BY <2>1, <2>2, <2>3, <2>4, NextSplit, HandStepSplit
  <1>3. TInv /\ acted => NoPointlessDecision
    BY DEF TInv, IInv, TypeOK, HandType, EInv, Decides, BrokeHasActed, NoPointlessDecision
  <1> HIDE DEF acted
  <1> QED BY <1>1, <1>2, <1>3, EngineHolds, PTL DEF Spec

(***************************************************************************)
(* The payout of every hand is fair                                        *)
(***************************************************************************)

\* What the rules give a player depends on the players only.
LEMMA SameFairStack ==
    ASSUME NEW h, NEW g, SamePlayers(h, g), NEW s \in Seats
    PROVE  FairStack(g, s) = FairStack(h, s)
  <1>1. Other(s) \in Seats
    BY DEF Other, Seats
  <1>2. /\ g.action[s] = "fold" <=> h.action[s] = "fold"
        /\ g.action[Other(s)] = "fold" <=> h.action[Other(s)] = "fold"
        /\ g.cash = h.cash /\ g.start = h.start /\ g.value = h.value
    BY <1>1 DEF SamePlayers
  <1> QED BY <1>2 DEF FairStack

\* A pass of the loop that does not end the hand leaves it before its end.
LEMMA LoopGoesOn ==
    ASSUME NEW h, PassDone(h), DealRound(h) \/ SkipAbsent(h) \/ AskPlayer(h)
    PROVE  hand'.round # POST_RIVER
  <1>1. CASE DealRound(h)
    <2>1. hand'.round = h.round
      BY <1>1 DEF DealRound, PassDone, HandType
    <2> QED BY <1>1, <2>1 DEF DealRound
  <1>2. CASE SkipAbsent(h)
    <2>1. /\ h \in HandType /\ hand' = PerformPlayerAction(h, h.turn, "fold", 0)
          /\ h.round # POST_RIVER
      BY <1>2 DEF SkipAbsent, PassDone
    <2>2. hand'.round = h.round
      BY <2>1 DEF PerformPlayerAction, HandType
    <2> QED BY <2>1, <2>2
  <1>3. CASE AskPlayer(h)
    BY <1>3 DEF AskPlayer
  <1> QED BY <1>1, <1>2, <1>3

\* Only the pass of the loop that ends the hand reaches the end of a hand.
LEMMA HandEnds ==
    ASSUME TInv, [Next]_vars, hand.round # POST_RIVER, hand'.round = POST_RIVER
    PROVE  state = "Hand" /\ \E h : PassDone(h) /\ FinishHand(h)
  <1>1. ~IdleStep
    BY IdleStepFields
  <1>2. ASSUME NEW idle \in SUBSET Seats, NEW forced \in SUBSET Seats,
               NEW minutesUp \in BOOLEAN, NEW value \in Deals,
               TimerNextHand(idle, forced, minutesUp, value)
        PROVE  FALSE
    <2>1. hand'.round = PREFLOP
      BY <1>2, TimerNextHandDeals
    <2> QED BY <2>1 DEF PREFLOP, POST_RIVER
  <1>3. ~PlayerActs
    <2> SUFFICES ASSUME PlayerActs PROVE FALSE
      OBVIOUS
    <2>1. hand'.round = hand.round
      BY ActedHand DEF PlayerActs
    <2> QED BY <2>1
  <1>4. TimerLoop
    BY <1>1, <1>2, <1>3, NextSplit, HandStepSplit
  <1> QED BY <1>4, LoopOutcomes, LoopGoesOn

\* A hand ends with the stacks the heads-up rules give, whatever was bet and
\* whoever left: the level loop of distributePot pays each player what he won and
\* no more.  Only who is gone and cannot rejoin loses his stack.
THEOREM PayoutsAreFair == Spec => FairPayout
  <1> DEFINE Fair == (hand.round # POST_RIVER /\ hand'.round = POST_RIVER /\ ~hand'.error) =>
                        \A s \in Seats :
                           hand'.cash[s] =
                              IF link[s] # "in" /\ (kicked[s] \/ guid[s] = "none")
                              THEN 0 ELSE FairStack(hand, s)
  <1>1. TInv /\ [Next]_vars => [Fair]_vars
    <2> SUFFICES ASSUME TInv, [Next]_vars, hand.round # POST_RIVER,
                        hand'.round = POST_RIVER, NEW s \in Seats
                 PROVE  hand'.cash[s] =
                           IF link[s] # "in" /\ (kicked[s] \/ guid[s] = "none")
                           THEN 0 ELSE FairStack(hand, s)
      OBVIOUS
    <2>1. PICK h : PassDone(h) /\ FinishHand(h) /\ state = "Hand"
      BY HandEnds
    <2>2. PotIsPaidIn(h) /\ SamePlayers(hand, h) /\ h \in HandType
      BY <2>1, FinishHandFields DEF RoundOver, PassDone
    <2>3. hand'.cash[s] = IF Unreachable(s) THEN 0 ELSE PostRiverRun(h).cash[s]
      <3>1. hand'.cash = [t \in Seats |-> IF Unreachable(t) THEN 0
                                          ELSE PostRiverRun(h).cash[t]]
        BY <2>1, FinishHandFields
      <3> QED BY <3>1
    <2>4. PostRiverRun(h).cash[s] = FairStack(hand, s)
      BY <2>2, PayoutIsFair, SameFairStack
    <2> QED BY <2>3, <2>4 DEF Unreachable
  <1> QED BY <1>1, EngineHolds, PTL DEF Spec, FairPayout

(***************************************************************************)
(* The table implements the chip ledger                                    *)
(***************************************************************************)

\* The ledger's view of who is asked.
AskedSeat == IF state = "WaitPlayerAction" THEN hand.turn ELSE 2

\* While the game is on, the stacks and the table hold all chips.
LEMMA LedgerChips ==
    ASSUME TInv
    PROVE  /\ hand \in HandType
           /\ \A s \in Seats : hand.cash[s] \in Nat
           /\ OnTable(hand) \in Nat
           /\ StartCash \in Nat
           /\ game => hand.cash[0] + hand.cash[1] + OnTable(hand) = 2 * StartCash
           /\ game => \A s \in Seats : hand.cash[s] <= 2 * StartCash
  <1> USE SettingsAssumption
  <1>1. hand \in HandType /\ (game => Chips(hand) = 2 * StartCash)
    BY DEF TInv, IInv, TypeOK, ChipsSound
  <1>2. \A s \in Seats : hand.cash[s] \in Nat
    BY <1>1 DEF HandType
  <1>3. OnTable(hand) \in Nat
    BY <1>1, OnTableType
  <1>4. Chips(hand) = hand.cash[0] + hand.cash[1] + OnTable(hand)
    <2>1. hand.pot \in Nat /\ hand.set[0] \in Nat /\ hand.set[1] \in Nat
          /\ hand.cash[0] \in Nat /\ hand.cash[1] \in Nat
      BY <1>1 DEF HandType, Seats
    <2> QED BY <2>1 DEF Chips, OnTable
  <1> QED BY <1>1, <1>2, <1>3, <1>4 DEF Seats

\* The first hand's blinds are the ledger's first pot.
LEMMA InitLedger == Init => Ledger!LedgerInit
  <1> SUFFICES ASSUME Init PROVE Ledger!LedgerInit
    OBVIOUS
  <1>1. PICK dealer \in Seats, value \in Deals :
            hand = NewHand(EmptyHand(StartCash), dealer, FirstSmallBlind, value)
    BY DEF Init
  <1>2. /\ hand.pot = 0
        /\ \A s \in Seats : /\ hand.set[s] \in 1..StartCash
                            /\ hand.cash[s] = StartCash - hand.set[s]
    BY <1>1, FirstHand
  <1>3. hand.cash \in [Seats -> Nat]
    BY InitSound DEF IInv, TypeOK, HandType
  <1>4. /\ hand.set[0] \in 1..StartCash /\ hand.set[1] \in 1..StartCash
        /\ hand.cash[0] = StartCash - hand.set[0] /\ hand.cash[1] = StartCash - hand.set[1]
    BY <1>2 DEF Seats
  <1>5. hand.cash \in [Seats -> 0..(2 * StartCash)]
    <2>1. \A s \in Seats : hand.cash[s] \in 0..(2 * StartCash)
      BY <1>4, SettingsAssumption DEF Seats
    <2> QED BY <1>3, <2>1
  <1>6. /\ hand.pot + hand.set[0] + hand.set[1] = hand.set[0] + hand.set[1]
        /\ StartCash \in Nat
    BY <1>2, <1>4, SettingsAssumption
  <1>7. /\ hand.pot + hand.set[0] + hand.set[1] \in 1..(2 * StartCash)
        /\ hand.cash[0] + hand.cash[1] + (hand.pot + hand.set[0] + hand.set[1]) = 2 * StartCash
    BY <1>4, <1>6
  <1>8. state = "Hand" /\ game = TRUE
    BY DEF Init
  <1> QED BY <1>5, <1>7, <1>8 DEF Ledger!LedgerInit, Ledger!Players, Seats

\* The steps that leave the hand alone leave the ledger alone, or the player who
\* was asked bets nothing because the game is closed.
LEMMA IdleStepLedger ==
    ASSUME TInv, IdleStep
    PROVE  Ledger!LedgerNext \/ UNCHANGED Ledger!ledger
  <1>1. UNCHANGED <<hand, game>> /\ state' \in {state, "Init", "Final"}
    BY IdleStepFields
  <1>2. CASE state' = state \/ state # "WaitPlayerAction"
    BY <1>1, <1>2 DEF Ledger!ledger
  <1>3. CASE state = "WaitPlayerAction" /\ state' # state
    <2>1. hand \in HandType /\ hand.turn \in Seats
      BY <1>3 DEF TInv, IInv, TypeOK, EInv, Decides, HandType
    <2>2. hand.cash[hand.turn] \in Nat /\ OnTable(hand) \in Nat /\ StartCash \in Nat
      BY <2>1, LedgerChips
    <2>3. hand.cash = [hand.cash EXCEPT ![hand.turn] = @ - 0]
      BY <2>1, <2>2 DEF HandType
    <2>4. state' # "WaitPlayerAction"
      BY <1>1, <1>3
    <2>5. Ledger!Wager(0)
      BY <1>1, <1>3, <2>1, <2>2, <2>3, <2>4 DEF Ledger!Wager, Ledger!Players, OnTable, Seats
    <2> QED BY <2>2, <2>5 DEF Ledger!LedgerNext
  <1> QED BY <1>2, <1>3

\* An action or a timeout is a wager of the player who was asked.
LEMMA PlayerActsLedger ==
    ASSUME TInv, PlayerActs
    PROVE  Ledger!LedgerNext
  <1>1. state = "WaitPlayerAction" /\ state' = "Hand" /\ UNCHANGED game
    BY DEF PlayerActs
  <1>2. game /\ hand \in HandType /\ hand.turn \in Seats
    BY <1>1 DEF TInv, IInv, TypeOK, EInv, Decides, HandType
  <1>3. PICK n \in 0..hand.cash[hand.turn] :
           /\ hand'.cash = [hand.cash EXCEPT ![hand.turn] = @ - n]
           /\ OnTable(hand') = OnTable(hand) + n
    BY ActedHand DEF PlayerActs
  <1>4. n \in 0..(2 * StartCash) /\ n <= hand.cash[hand.turn]
    BY <1>2, <1>3, LedgerChips
  <1>5. Ledger!Wager(n)
    BY <1>1, <1>2, <1>3, <1>4 DEF Ledger!Wager, Ledger!Players, OnTable, Seats
  <1> QED BY <1>4, <1>5 DEF Ledger!LedgerNext

\* The next hand takes its blinds.
LEMMA NextHandLedger ==
    ASSUME TInv, NEW idle \in SUBSET Seats, NEW forced \in SUBSET Seats,
           NEW minutesUp \in BOOLEAN, NEW value \in Deals,
           TimerNextHand(idle, forced, minutesUp, value)
    PROVE  Ledger!LedgerNext
  <1> DEFINE b0 == hand'.set[0]
             b1 == hand'.set[1]
  <1>1. /\ state = "WaitNextHand" /\ state' = "Hand" /\ game /\ UNCHANGED game
        /\ NoBets(hand) /\ hand.pot = 0 /\ hand'.pot = 0
        /\ \A s \in Seats : /\ hand'.set[s] \in 1..hand.cash[s]
                            /\ hand'.cash[s] = hand.cash[s] - hand'.set[s]
    BY TimerNextHandDeals
  <1>2. /\ b0 \in 1..hand.cash[0] /\ b1 \in 1..hand.cash[1]
        /\ hand'.cash[0] = hand.cash[0] - b0 /\ hand'.cash[1] = hand.cash[1] - b1
    BY <1>1 DEF Seats
  <1>3. hand \in HandType /\ hand' \in HandType
    BY NextSound DEF TInv, IInv, TypeOK, Next
  <1>4. hand'.cash = [hand.cash EXCEPT ![0] = @ - b0, ![1] = @ - b1]
    <2>1. /\ hand.cash \in [Seats -> Nat] /\ hand'.cash \in [Seats -> Nat]
      BY <1>3 DEF HandType
    <2> HIDE DEF b0, b1
    <2> QED BY <1>2, <2>1 DEF Seats
  <1>5. hand.pot + hand.set[0] + hand.set[1] = 0
    BY <1>1 DEF NoBets, Seats
  <1>6. hand'.pot + hand'.set[0] + hand'.set[1] = b0 + b1
    BY <1>1, <1>2
  <1>7. b0 \in 1..(2 * StartCash) /\ b1 \in 1..(2 * StartCash)
    <2>1. /\ hand.cash[0] \in Nat /\ hand.cash[0] <= 2 * StartCash
          /\ hand.cash[1] \in Nat /\ hand.cash[1] <= 2 * StartCash /\ StartCash \in Nat
      BY <1>1, LedgerChips DEF Seats
    <2> HIDE DEF b0, b1
    <2> QED BY <1>2, <2>1
  <1> HIDE DEF b0, b1
  <1>8. Ledger!Blinds(b0, b1)
    BY <1>1, <1>2, <1>4, <1>5, <1>6 DEF Ledger!Blinds
  <1> QED BY <1>7, <1>8 DEF Ledger!LedgerNext

\* The engine's pass moves no chips between the stacks and the table.
LEMMA PassLedger ==
    ASSUME NEW h, PassDone(h)
    PROVE  h \in HandType /\ h.cash = hand.cash /\ OnTable(h) = OnTable(hand)
  BY DEF PassDone, RoundOver, PlayerAsked, SamePlayers

\* Dealing a round and folding for an absent player leave the ledger alone.
LEMMA DealOrSkipLedger ==
    ASSUME TInv, state = "Hand", NEW h, PassDone(h), DealRound(h) \/ SkipAbsent(h)
    PROVE  UNCHANGED Ledger!ledger
  <1>1. h \in HandType /\ h.cash = hand.cash /\ OnTable(h) = OnTable(hand)
    BY PassLedger
  <1>2. state' = "Hand" /\ UNCHANGED game
    BY DEF DealRound, SkipAbsent, StayWith
  <1>3. hand'.cash = h.cash /\ OnTable(hand') = OnTable(h)
    <2>1. CASE DealRound(h)
      BY <1>1, <2>1 DEF DealRound, OnTable, HandType
    <2>2. CASE SkipAbsent(h)
      BY <1>1, <2>2 DEF SkipAbsent, PerformPlayerAction, OnTable, HandType
    <2> QED BY <2>1, <2>2
  <1>4. hand'.pot + hand'.set[0] + hand'.set[1] = hand.pot + hand.set[0] + hand.set[1]
    BY <1>1, <1>3 DEF OnTable
  <1> QED BY <1>1, <1>2, <1>3, <1>4 DEF Ledger!ledger

\* Asking a player is the ledger's Ask.
LEMMA AskPlayerLedger ==
    ASSUME TInv, state = "Hand", game, NEW h, PassDone(h), AskPlayer(h)
    PROVE  Ledger!LedgerNext
  <1>1. h.cash = hand.cash /\ OnTable(h) = OnTable(hand) /\ OnTable(hand) > 0
    BY PassLedger DEF TInv, EInv
  <1>2. hand' = h /\ state' = "WaitPlayerAction" /\ UNCHANGED game
    BY DEF AskPlayer, SetState
  <1>3. h.turn \in Seats
    BY PassAsks DEF AskPlayer, Decides, HandType
  <1>4. Ledger!Ask(h.turn)
    BY <1>1, <1>2 DEF Ledger!Ask, OnTable
  <1> QED BY <1>3, <1>4 DEF Ledger!LedgerNext, Ledger!Players, Seats

\* Nobody has less after the payout, and the two have won the pot between them.
LEMMA PayoutWins ==
    ASSUME NEW h \in HandType, PotIsPaidIn(h)
    PROVE  \E won \in 0..h.pot :
              /\ PostRiverRun(h).cash[0] = h.cash[0] + won
              /\ PostRiverRun(h).cash[1] = h.cash[1] + (h.pot - won)
  <1> DEFINE paid == PostRiverRun(h)
             won == paid.cash[0] - h.cash[0]
  <1>1. paid \in HandType /\ paid.cash[0] + paid.cash[1] = h.start[0] + h.start[1]
    BY PostRiverRunPays DEF PotIsPaidIn
  <1>2. \A s \in Seats : paid.cash[s] = FairStack(h, s)
    BY PayoutIsFair
  <1>3. \A s \in Seats : FairStack(h, s) >= h.cash[s]
    <2> SUFFICES ASSUME NEW s \in Seats PROVE FairStack(h, s) >= h.cash[s]
      OBVIOUS
    <2> DEFINE o == Other(s)
               ps == h.start[s] - h.cash[s]
               po == h.start[o] - h.cash[o]
               matched == IF ps <= po THEN ps ELSE po
    <2>1. o \in Seats
      BY DEF Other, Seats
    <2>2. /\ h.cash[s] \in Nat /\ h.start[s] \in Nat /\ ps \in Nat /\ po \in Nat
          /\ h.start[s] = h.cash[s] + ps
      BY <2>1 DEF PotIsPaidIn, HandType
    <2>3. FairStack(h, s) =
             IF h.action[s] = "fold" THEN h.cash[s]
             ELSE IF h.action[o] = "fold" THEN h.start[s] + po
             ELSE IF h.value[s] > h.value[o] THEN h.start[s] + matched
             ELSE IF h.value[s] < h.value[o] THEN h.start[s] - matched
             ELSE h.start[s]
      BY DEF FairStack
    <2>4. matched \in Nat /\ matched <= ps
      BY <2>2
    <2> HIDE DEF matched, ps, po, o
    <2> QED BY <2>2, <2>3, <2>4
  <1>4. /\ h.cash[0] \in Nat /\ h.cash[1] \in Nat /\ h.pot \in Nat
        /\ paid.cash[0] \in Nat /\ paid.cash[1] \in Nat
        /\ h.start[0] + h.start[1] = h.cash[0] + h.cash[1] + h.pot
    BY <1>1 DEF HandType, Seats, PotIsPaidIn
  <1>5. paid.cash[0] >= h.cash[0] /\ paid.cash[1] >= h.cash[1]
    BY <1>2, <1>3 DEF Seats
  <1> HIDE DEF paid
  <1>6. /\ won \in 0..h.pot /\ paid.cash[0] = h.cash[0] + won
        /\ paid.cash[1] = h.cash[1] + (h.pot - won)
    BY <1>1, <1>4, <1>5
  <1> QED BY <1>6 DEF paid

\* The end of a hand is the ledger's award of the pot, or its last one.
LEMMA FinishHandLedger ==
    ASSUME TInv, state = "Hand", game, NEW h, PassDone(h), FinishHand(h)
    PROVE  Ledger!LedgerNext
  <1> DEFINE pot == hand.pot + hand.set[0] + hand.set[1]
             removed == {s \in Seats : Unreachable(s)}
  <1>1. /\ h \in HandType /\ PotIsPaidIn(h) /\ RoundOver(hand, h)
        /\ PostRiverRun(h) \in HandType
        /\ hand'.cash = [s \in Seats |-> IF Unreachable(s) THEN 0
                                         ELSE PostRiverRun(h).cash[s]]
        /\ hand'.set = h.set /\ hand'.pot = 0
        /\ game' = (\A s \in Seats : hand'.cash[s] > 0)
        /\ \/ game' /\ state' = "WaitNextHand"
           \/ ~game' /\ state' \in {"Init", "Hand"}
    <2>1. h \in HandType
      BY DEF PassDone
    <2> QED BY <2>1, FinishHandFields
  <1>2. h.cash = hand.cash /\ h.pot = pot
    <2>1. h.pot \in Nat /\ h.set[0] = 0 /\ h.set[1] = 0
      BY <1>1 DEF RoundOver, NoBets, HandType, Seats
    <2>2. OnTable(h) = OnTable(hand) /\ h.cash = hand.cash
      BY PassLedger
    <2> QED BY <2>1, <2>2 DEF OnTable
  <1>3. PICK won \in 0..h.pot :
           /\ PostRiverRun(h).cash[0] = h.cash[0] + won
           /\ PostRiverRun(h).cash[1] = h.cash[1] + (h.pot - won)
    BY <1>1, PayoutWins
  <1>4. pot > 0 /\ pot \in Nat /\ pot <= 2 * StartCash /\ StartCash \in Nat
    <2>1. OnTable(hand) > 0
      BY DEF TInv, EInv
    <2>2. /\ OnTable(hand) \in Nat /\ hand.cash[0] \in Nat /\ hand.cash[1] \in Nat
          /\ hand.cash[0] + hand.cash[1] + OnTable(hand) = 2 * StartCash
          /\ StartCash \in Nat
      BY LedgerChips DEF Seats
    <2> QED BY <2>1, <2>2 DEF OnTable
  <1>5. /\ hand'.cash = [s \in Seats |->
              IF s \in removed THEN 0
              ELSE hand.cash[s] + (IF s = 0 THEN won ELSE pot - won)]
        /\ hand'.pot + hand'.set[0] + hand'.set[1] = 0
    <2>1. \A s \in Seats : PostRiverRun(h).cash[s] =
                              hand.cash[s] + (IF s = 0 THEN won ELSE pot - won)
      BY <1>2, <1>3 DEF Seats
    <2>2. hand'.set[0] = 0 /\ hand'.set[1] = 0
      BY <1>1 DEF RoundOver, NoBets, Seats
    <2> HIDE DEF pot
    <2> QED BY <1>1, <2>1, <2>2
  <1>6. state' # "WaitPlayerAction"
    BY <1>1
  <1>7. won \in 0..(2 * StartCash) /\ won <= pot
    BY <1>2, <1>3, <1>4
  <1> HIDE DEF pot, removed
  <1>8. CASE game'
    <2>1. hand'.cash[0] > 0 /\ hand'.cash[1] > 0
      BY <1>1, <1>8 DEF Seats
    <2>2. removed = {}
      <3> SUFFICES ASSUME NEW s \in removed PROVE FALSE
        OBVIOUS
      <3>1. s \in Seats /\ hand'.cash[s] = 0
        BY <1>5 DEF removed
      <3> QED BY <2>1, <3>1 DEF Seats
    <2>3. hand'.cash = [hand.cash EXCEPT ![0] = @ + won, ![1] = @ + (pot - won)]
      <3>1. hand.cash \in [Seats -> Nat]
        BY LedgerChips DEF HandType
      <3> QED BY <1>5, <2>2, <3>1 DEF Seats
    <2>4. Ledger!Award(won)
      BY <1>4, <1>5, <1>6, <1>7, <1>8, <2>1, <2>3 DEF Ledger!Award, pot
    <2> QED BY <1>7, <2>4 DEF Ledger!LedgerNext
  <1>9. CASE ~game'
    <2>1. PICK s \in Seats : hand'.cash[s] = 0
      <3>1. \A s \in Seats : hand'.cash[s] \in Nat
        BY <1>1 DEF HandType
      <3> QED BY <1>1, <1>9, <3>1
    <2>2. removed \in SUBSET Ledger!Players /\ Seats = Ledger!Players
      BY DEF removed, Ledger!Players, Seats
    <2>3. Ledger!Close(won, removed)
      BY <1>4, <1>5, <1>6, <1>7, <1>9, <2>1, <2>2 DEF Ledger!Close, pot
    <2> QED BY <1>7, <2>2, <2>3 DEF Ledger!LedgerNext
  <1> QED BY <1>8, <1>9

\* The table implements the chip ledger: chips move only from the stack of the
\* player who was asked into the pot, and from the pot, in full, to the players.
THEOREM LedgerImplemented == Spec => LedgerSpec
  <1>1. TInv /\ [Next]_vars => [Ledger!LedgerNext]_(Ledger!ledger)
    <2> SUFFICES ASSUME TInv, [Next]_vars
                 PROVE  Ledger!LedgerNext \/ UNCHANGED Ledger!ledger
      OBVIOUS
    <2>1. CASE IdleStep
      BY <2>1, IdleStepLedger
    <2>2. CASE TimerLoop
      BY <2>2, LoopOutcomes, DealOrSkipLedger, AskPlayerLedger, FinishHandLedger
    <2>3. CASE \E idle, forced \in SUBSET Seats, minutesUp \in BOOLEAN, value \in Deals :
                  TimerNextHand(idle, forced, minutesUp, value)
      BY <2>3, NextHandLedger
    <2>4. CASE PlayerActs
      BY <2>4, PlayerActsLedger
    <2> QED BY <2>1, <2>2, <2>3, <2>4, NextSplit, HandStepSplit
  <1> QED BY <1>1, InitLedger, EngineHolds, PTL DEF Spec, LedgerSpec, Ledger!LedgerSpec

(***************************************************************************)
(* The stakes: what a bet or a raise has to be at least                    *)
(***************************************************************************)

\* The blind is what it was, and so is the least raise, unless a round begins.
KeepsRaise(h, g) ==
    /\ g.smallBlind = h.smallBlind
    /\ g.minimumRaise \in {h.minimumRaise, 2 * h.smallBlind}

LEMMA SameRaise ==
    ASSUME NEW h, NEW g, SamePlayers(h, g), SameBets(h, g)
    PROVE  KeepsRaise(h, g)
  BY DEF KeepsRaise, SamePlayers, SameBets

LEMMA ThenRaise ==
    ASSUME NEW f, NEW g, NEW h, KeepsRaise(f, g), KeepsRaise(g, h)
    PROVE  KeepsRaise(f, h)
  BY DEF KeepsRaise

LEMMA EnterRoundRaise ==
    ASSUME NEW h \in HandType, NEW r
    PROVE  KeepsRaise(h, EnterRound(h, r))
  BY DEF KeepsRaise, EnterRound, HandType

LEMMA CollectPotRaise ==
    ASSUME NEW h \in HandType
    PROVE  KeepsRaise(h, CollectPot(h))
  BY DEF KeepsRaise, CollectPot, HandType

LEMMA CloseBettingRaise ==
    ASSUME NEW h \in HandType
    PROVE  KeepsRaise(h, CloseBetting(h))
  <1> DEFINE none == [s \in Seats |-> IF s \in h.running THEN "none" ELSE h.action[s]]
             cleared == [h EXCEPT !.action = none]
  <1>1. none \in [Seats -> Actions]
    BY DEF Actions, HandType
  <1>2. cleared \in HandType /\ KeepsRaise(h, cleared)
    <2> HIDE DEF none
    <2> QED BY <1>1 DEF HandType, KeepsRaise
  <1>3. CloseBetting(h) = CollectPot(CollectSets(cleared))
    BY DEF CloseBetting
  <1> HIDE DEF cleared
  <1>4. CollectSets(cleared) \in HandType
    BY <1>2, CollectSetsKeeps DEF Keeps
  <1>5. KeepsRaise(cleared, CollectSets(cleared))
    BY <1>2 DEF KeepsRaise, CollectSets, HandType
  <1> QED BY <1>2, <1>3, <1>4, <1>5, CollectPotRaise, ThenRaise

LEMMA SwitchRoundsRaise ==
    ASSUME NEW k \in HandType, InSync(k)
    PROVE  KeepsRaise(k, SwitchRounds(k))
  <1> DEFINE h == RefreshRunning(k)
             p == CollectPot(h)
             c == [p EXCEPT !.allIn = TRUE]
  <1>1. /\ h \in HandType /\ InSync(h) /\ KeepsRaise(k, h)
    BY RefreshRunningKeeps, RefreshRunningFields, SameRaise DEF Keeps
  <1>2. SwitchRounds(k) \in {h, c} \cup {EnterRound(g, r) : g \in {p, c}, r \in Int}
    <2>1. h.round + 1 \in Int /\ POST_RIVER \in Int
      BY <1>1 DEF HandType, Rounds, POST_RIVER
    <2> HIDE DEF h
    <2> QED BY <2>1 DEF SwitchRounds, h, p, c
  <1> HIDE DEF h
  <1>3. p \in HandType /\ KeepsRaise(h, p)
    BY <1>1, CollectPotKeeps, CollectPotRaise DEF Keeps
  <1> HIDE DEF p
  <1>4. c \in HandType /\ KeepsRaise(p, c)
    BY <1>3 DEF HandType, KeepsRaise
  <1> HIDE DEF c
  <1>5. \A r : KeepsRaise(p, EnterRound(p, r)) /\ KeepsRaise(c, EnterRound(c, r))
    BY <1>3, <1>4, EnterRoundRaise
  <1>6. KeepsRaise(k, p) /\ KeepsRaise(k, c)
    BY <1>1, <1>3, <1>4, ThenRaise
  <1> QED BY <1>1, <1>2, <1>5, <1>6, ThenRaise

LEMMA RunPreflopRaise ==
    ASSUME NEW k \in HandType, InSync(k)
    PROVE  KeepsRaise(k, RunPreflop(k))
  <1> DEFINE h == PreflopFirstRun(k)
             next == NextRunning(h, h.turn)
             flop == EnterRound(h, FLOP)
             more == [h EXCEPT !.turn = next, !.firstRound = @ /\ next # h.lastTurn]
             last == IF BigBlindSeat(k) \in k.running
                     THEN BigBlindSeat(k) ELSE SmallBlindSeat(k)
  <1>1. h \in HandType /\ InSync(h) /\ KeepsRaise(k, h)
    <2>1. last \in Seats
      BY DEF SmallBlindSeat, BigBlindSeat, Other, Seats, HandType
    <2>2. \/ h = k
          \/ h = [k EXCEPT !.firstRound = FALSE, !.firstRun = FALSE]
          \/ h = [k EXCEPT !.lastTurn = last, !.turn = last, !.firstRun = FALSE]
      BY DEF PreflopFirstRun
    <2> HIDE DEF last, h
    <2>3. CASE h = k
      BY <2>3 DEF KeepsRaise
    <2>4. CASE h = [k EXCEPT !.firstRound = FALSE, !.firstRun = FALSE]
      <3>1. h \in HandType
        BY <2>4 DEF HandType
      <3> QED BY <2>4, <3>1 DEF InSync, HandType, KeepsRaise
    <2>5. CASE h = [k EXCEPT !.lastTurn = last, !.turn = last, !.firstRun = FALSE]
      <3>1. h \in HandType
        BY <2>1, <2>5 DEF HandType
      <3> QED BY <2>5, <3>1 DEF InSync, HandType, KeepsRaise
    <2> QED BY <2>2, <2>3, <2>4, <2>5
  <1>2. RunPreflop(k) \in {h, Throw(h), SwitchRounds(CloseBetting(flop)), more}
    <2> HIDE DEF h
    <2> QED BY DEF RunPreflop, h
  <1> HIDE DEF h
  <1>3. KeepsRaise(h, Throw(h)) /\ KeepsRaise(h, more) /\ KeepsRaise(h, h)
    BY <1>1 DEF Throw, HandType, KeepsRaise
  <1>4. KeepsRaise(h, SwitchRounds(CloseBetting(flop)))
    <2>1. flop \in HandType /\ KeepsRaise(h, flop)
      BY <1>1, EnterRoundKeeps, EnterRoundRaise DEF FLOP, Rounds, Keeps
    <2> HIDE DEF flop
    <2>2. CloseBetting(flop) \in HandType /\ InSync(CloseBetting(flop))
      BY <2>1, CloseBettingKeeps DEF Keeps
    <2>3. KeepsRaise(flop, CloseBetting(flop))
      BY <2>1, CloseBettingRaise
    <2>4. KeepsRaise(CloseBetting(flop), SwitchRounds(CloseBetting(flop)))
      BY <2>2, SwitchRoundsRaise
    <2> QED BY <2>1, <2>3, <2>4, ThenRaise
  <1> QED BY <1>1, <1>2, <1>3, <1>4, ThenRaise

LEMMA RunBeRoRaise ==
    ASSUME NEW k \in HandType, InSync(k)
    PROVE  KeepsRaise(k, RunBeRo(k))
  <1> DEFINE h == BeRoFirstRound(k)
             next == NextRunning(h, h.turn)
             closed == SwitchRounds(CloseBetting(h))
             more == [h EXCEPT !.turn = next, !.firstRound = @ /\ next # h.lastTurn]
  <1>1. h \in HandType /\ KeepsRaise(k, h)
    <2>1. SmallBlindSeat(k) \in Seats
      BY DEF SmallBlindSeat, HandType
    <2>2. \/ h = k
          \/ h = [k EXCEPT !.firstRound = FALSE]
          \/ h = [k EXCEPT !.lastTurn = SmallBlindSeat(k), !.turn = SmallBlindSeat(k)]
      BY DEF BeRoFirstRound
    <2> HIDE DEF h
    <2>3. CASE h = k
      BY <2>3 DEF KeepsRaise
    <2>4. CASE h = [k EXCEPT !.firstRound = FALSE]
      BY <2>4 DEF HandType, KeepsRaise
    <2>5. CASE h = [k EXCEPT !.lastTurn = SmallBlindSeat(k),
                                !.turn = SmallBlindSeat(k)]
      BY <2>1, <2>5 DEF HandType, KeepsRaise
    <2> QED BY <2>2, <2>3, <2>4, <2>5
  <1>2. RunBeRo(k) \in {EnterRound(closed, h.round + 1), closed, Throw(h), more}
    <2> HIDE DEF h
    <2> QED BY DEF RunBeRo, h
  <1> HIDE DEF h
  <1>3. KeepsRaise(h, Throw(h)) /\ KeepsRaise(h, more)
    BY <1>1 DEF Throw, HandType, KeepsRaise
  <1>4. CloseBetting(h) \in HandType /\ InSync(CloseBetting(h))
    BY <1>1, CloseBettingKeeps DEF Keeps
  <1>5. closed \in HandType /\ KeepsRaise(CloseBetting(h), closed)
    BY <1>4, SwitchRoundsKeeps, SwitchRoundsRaise DEF Keeps
  <1>6. KeepsRaise(h, closed)
    BY <1>1, <1>5, CloseBettingRaise, ThenRaise
  <1> HIDE DEF closed
  <1>7. KeepsRaise(closed, EnterRound(closed, h.round + 1))
    BY <1>5, EnterRoundRaise
  <1> QED BY <1>1, <1>2, <1>3, <1>6, <1>7, ThenRaise

LEMMA PlayHandRaise ==
    ASSUME NEW k \in HandType, InSync(k)
    PROVE  KeepsRaise(k, PlayHand(k))
  <1> DEFINE h == SwitchRounds(k)
  <1>1. h \in HandType /\ InSync(h) /\ KeepsRaise(k, h)
    BY SwitchRoundsKeeps, SwitchRoundsRaise DEF Keeps
  <1>2. PlayHand(k) \in {h, RunPreflop(h), RunBeRo(h)}
    BY DEF PlayHand
  <1> HIDE DEF h
  <1> QED BY <1>1, <1>2, RunPreflopRaise, RunBeRoRaise, ThenRaise

\* Player s may do this: what CheckMyAction lets him, and what the server does for
\* him.
LEMMA ActionRaise ==
    ASSUME NEW h \in HandType, NEW s \in Seats, NEW action \in Actions, NEW bet \in Int,
           CheckMyAction(h, s, action, bet), h.set[s] <= h.highestSet
    PROVE  LET g == PerformPlayerAction(h, s, action, bet)
           IN /\ g.smallBlind = h.smallBlind
              /\ \/ g.minimumRaise >= h.minimumRaise
                 \/ g.minimumRaise >= 2 * h.smallBlind
  <1> DEFINE g == PerformPlayerAction(h, s, action, bet)
             n == Clamp(bet, h.cash[s])
             acted == [h EXCEPT !.action[s] = action]
             paid == SetMySet(acted, s, bet)
             highest == IF paid.set[s] > paid.highestSet THEN paid.set[s] ELSE paid.highestSet
             least == NewMinimumRaise(h, s, action, bet, paid.set[s])
             raised == [paid EXCEPT !.highestSet = highest, !.minimumRaise = least]
  <1>1. /\ h.cash[s] \in Nat /\ h.set[s] \in Nat /\ h.highestSet \in Nat
        /\ h.minimumRaise \in Nat /\ h.smallBlind \in Nat
    BY DEF HandType
  <1>2. /\ acted \in HandType /\ acted.cash = h.cash /\ acted.set = h.set
        /\ acted.smallBlind = h.smallBlind /\ acted.minimumRaise = h.minimumRaise
    BY DEF HandType
  <1> HIDE DEF acted
  <1>3. CASE action \in {"fold", "check"}
    <2>1. g = acted
      BY <1>3 DEF PerformPlayerAction, acted
    <2> HIDE DEF g
    <2> QED BY <1>1, <1>2, <2>1 DEF g
  <1>4. CASE action \notin {"fold", "check"}
    <2>1. n \in 0..h.cash[s] /\ (bet \in 0..h.cash[s] => n = bet)
      BY <1>1 DEF Clamp
    <2>2. paid.set[s] = h.set[s] + n /\ paid.smallBlind = h.smallBlind
      BY <1>2 DEF SetMySet, HandType
    <2>3. paid \in HandType
      BY <1>2, SetMySetMoves
    <2> HIDE DEF paid, n, highest, least
    <2>4. raised.minimumRaise = least /\ raised.smallBlind = paid.smallBlind
      BY <2>3 DEF HandType
    <2>5. g = CollectSets(raised)
      BY <1>4 DEF PerformPlayerAction, acted, paid, highest, least
    <2>6. "minimumRaise" \in DOMAIN raised /\ "smallBlind" \in DOMAIN raised
      BY <2>3 DEF HandType
    <2> HIDE DEF raised, g
    <2>7. g.minimumRaise = raised.minimumRaise /\ g.smallBlind = raised.smallBlind
      BY <2>5, <2>6 DEF CollectSets
    <2>8. least >= h.minimumRaise \/ least >= 2 * h.smallBlind
      <3>1. least = NewMinimumRaise(h, s, action, bet, h.set[s] + n)
        BY <2>2 DEF least
      <3>2. action = "raise" => bet \in 0..h.cash[s] /\ h.set[s] + bet >= h.highestSet + h.minimumRaise
        BY <1>1 DEF CheckMyAction
      <3>3. action = "bet" => bet >= 2 * h.smallBlind
        BY <1>1 DEF CheckMyAction
      <3>4. n \in Int
        BY <2>1
      <3>5. CASE action = "bet"
        BY <3>1, <3>3, <3>5 DEF NewMinimumRaise
      <3>6. CASE action = "raise"
        BY <1>1, <2>1, <3>1, <3>2, <3>4, <3>6 DEF NewMinimumRaise
      <3>7. CASE action \notin {"bet", "raise"}
        BY <1>1, <3>1, <3>4, <3>7 DEF NewMinimumRaise
      <3> QED BY <3>5, <3>6, <3>7
    <2> QED BY <2>2, <2>4, <2>7, <2>8 DEF g
  <1> QED BY <1>3, <1>4

\* A new hand.
LEMMA NewHandRaise ==
    ASSUME NEW h \in HandType, NEW dealer \in Seats, NEW smallBlind \in Nat, NEW value
    PROVE  LET g == NewHand(h, dealer, smallBlind, value)
           IN /\ g.smallBlind = smallBlind /\ g.minimumRaise = 2 * smallBlind
              /\ g.highestSet = 2 * smallBlind
  <1> DEFINE fresh == [h EXCEPT !.action = [s \in Seats |-> "none"], !.start = h.cash,
                                !.value = value, !.running = Seats, !.allIn = FALSE,
                                !.shown = FALSE, !.dealer = dealer,
                                !.smallBlind = smallBlind]
             blank == EnterRound(fresh, PREFLOP)
             small == PostBlind(blank, SmallBlindSeat(blank), blank.smallBlind)
             big == PostBlind(small, BigBlindSeat(blank), 2 * blank.smallBlind)
             Stakes(g) == /\ {"smallBlind", "minimumRaise", "highestSet"} \subseteq DOMAIN g
                          /\ g.smallBlind = smallBlind /\ g.minimumRaise = 2 * smallBlind
                          /\ g.highestSet = 2 * smallBlind
  <1>1. /\ fresh.smallBlind = smallBlind
        /\ {"smallBlind", "minimumRaise", "highestSet"} \subseteq DOMAIN fresh
    BY DEF HandType
  <1> HIDE DEF fresh
  <1>2. Stakes(blank)
    BY <1>1 DEF EnterRound
  <1> HIDE DEF blank
  <1>3. ASSUME NEW g, NEW s, NEW blind, Stakes(g)
        PROVE  Stakes(PostBlind(g, s, blind))
    <2>1. \A n : Stakes(SetMySet(g, s, n))
      BY <1>3 DEF SetMySet
    <2> QED BY <2>1 DEF PostBlind
  <1>4. Stakes(small)
    BY <1>2, <1>3
  <1> HIDE DEF small
  <1>5. Stakes(big)
    BY <1>3, <1>4
  <1>6. NewHand(h, dealer, smallBlind, value) = CollectSets(big)
    <2>1. SetBlinds(blank) = big
      <3>1. small.dealer = blank.dealer /\ small.smallBlind = blank.smallBlind
        <4>1. \A g, s, blind : "dealer" \in DOMAIN g => PostBlind(g, s, blind).dealer = g.dealer
          BY DEF PostBlind, SetMySet
        <4>2. "dealer" \in DOMAIN blank
          BY DEF blank, EnterRound, fresh, HandType
        <4> QED BY <1>2, <1>4, <4>1, <4>2 DEF small
      <3> QED BY <3>1 DEF SetBlinds, BigBlindSeat, SmallBlindSeat, big, small
    <2> QED BY <2>1 DEF NewHand, blank, fresh
  <1> HIDE DEF big
  <1> QED BY <1>5, <1>6 DEF CollectSets

\* The blind is not free, no raise is less than the big blind, and before the flop
\* nobody plays for less.
StakesFit(h) ==
    /\ h.smallBlind > 0
    /\ h.minimumRaise >= 2 * h.smallBlind
    /\ h.round = PREFLOP => h.highestSet >= 2 * h.smallBlind

\* While a hand is played.
StakesInv == game /\ state \in {"Hand", "WaitPlayerAction"} => StakesFit(hand)

\* A pass of the engine that asks a player or begins a round.
LEMMA PassStakes ==
    ASSUME NEW h, PassDone(h), hand \in HandType, InSync(hand), StakesFit(hand)
    PROVE  StakesFit(h)
  <1>1. /\ hand.smallBlind \in Nat /\ hand.minimumRaise \in Nat /\ hand.round \in Nat
        /\ hand.highestSet \in Nat /\ h.round \in Nat
    BY DEF PassDone, HandType, Rounds
  <1>2. h.smallBlind = hand.smallBlind /\ h.minimumRaise >= 2 * h.smallBlind
    BY <1>1, PlayHandRaise DEF PassDone, KeepsRaise, StakesFit
  <1>3. CASE RoundOver(hand, h)
    <2>1. h.round # PREFLOP
      BY <1>1, <1>3 DEF RoundOver, PREFLOP
    <2> QED BY <1>2, <2>1 DEF StakesFit
  <1>4. CASE PlayerAsked(hand, h)
    BY <1>2, <1>4 DEF PlayerAsked, SameBets, StakesFit
  <1> QED BY <1>3, <1>4 DEF PassDone

\* An action takes the bet to match up, in the same round.
LEMMA ActionHighest ==
    ASSUME NEW h \in HandType, NEW s \in Seats, NEW action \in Actions, NEW bet \in Int,
           h.set[s] <= h.highestSet
    PROVE  LET g == PerformPlayerAction(h, s, action, bet)
           IN /\ g.highestSet = IF g.set[s] > h.highestSet THEN g.set[s] ELSE h.highestSet
              /\ g.round = h.round
  <1> DEFINE g == PerformPlayerAction(h, s, action, bet)
  <1>1. /\ \E n \in 0..h.cash[s] : Bets(h, g, s, n)
        /\ g.action = [h.action EXCEPT ![s] = action]
        /\ g.highestSet = IF g.set[s] > h.highestSet THEN g.set[s] ELSE h.highestSet
        /\ g.start = h.start /\ g.value = h.value /\ g.dealer = h.dealer
        /\ g.running = h.running /\ g.allIn = h.allIn /\ g.error = h.error
        /\ g.round = h.round /\ g.firstRound = h.firstRound
        /\ g.firstRun = h.firstRun /\ g.turn = h.turn
    BY PerformPlayerActionFields
  <1> QED BY <1>1

\* An action the code accepts.
LEMMA ActionStakes ==
    ASSUME NEW h \in HandType, NEW s \in Seats, NEW action \in Actions, NEW bet \in Int,
           CheckMyAction(h, s, action, bet), InSync(h), Highest(h), StakesFit(h)
    PROVE  StakesFit(PerformPlayerAction(h, s, action, bet))
  <1> DEFINE g == PerformPlayerAction(h, s, action, bet)
  <1>0. action = "bet" => bet \in Nat
    BY DEF CheckMyAction, HandType
  <1>1. h.set[s] <= h.highestSet
    BY DEF Highest
  <1>2. /\ g.smallBlind = h.smallBlind
        /\ g.minimumRaise >= h.minimumRaise \/ g.minimumRaise >= 2 * h.smallBlind
    BY <1>1, ActionRaise
  <1>3. /\ g.highestSet = IF g.set[s] > h.highestSet THEN g.set[s] ELSE h.highestSet
        /\ g.round = h.round
    BY <1>1, ActionHighest
  <1>4. g \in HandType
    <2> HIDE DEF g
    <2>1. Keeps(h, PerformPlayerAction(h, s, action, bet))
      BY <1>0, PerformPlayerActionKeeps
    <2> QED BY <2>1 DEF Keeps, g
  <1> HIDE DEF g
  <1>5. /\ g.minimumRaise \in Nat /\ g.highestSet \in Nat /\ g.set[s] \in Nat
        /\ h.minimumRaise \in Nat /\ h.smallBlind \in Nat /\ h.highestSet \in Nat
    BY <1>4 DEF HandType
  <1>6. g.minimumRaise >= 2 * g.smallBlind
    BY <1>2, <1>5 DEF StakesFit
  <1>7. g.round = PREFLOP => g.highestSet >= 2 * g.smallBlind
    BY <1>2, <1>3, <1>5 DEF StakesFit
  <1> QED BY <1>2, <1>6, <1>7 DEF StakesFit, g

\* The player whose turn it is does what the code accepts, or the server folds or
\* checks for him.
PlayerBets ==
    /\ state = "WaitPlayerAction" /\ UNCHANGED game
    /\ \E action \in Actions, bet \in Int :
          /\ CheckMyAction(hand, hand.turn, action, bet)
          /\ hand' = PerformPlayerAction(hand, hand.turn, action, bet)

LEMMA RequestBets ==
    ASSUME hand \in HandType, NEW s \in Seats, NEW round, NEW action \in Actions,
           NEW bet \in Int, MyActionRequest(s, round, action, bet)
    PROVE  PlayerBets
  <1> DEFINE request == FillIn(hand, s, action, bet)
  <1>1. request.action \in Actions /\ request.bet \in Int
    BY FillInType
  <1>2. /\ state = "WaitPlayerAction" /\ UNCHANGED game /\ s = hand.turn
        /\ CheckMyAction(hand, s, request.action, request.bet)
        /\ hand' = PerformPlayerAction(hand, s, request.action, request.bet)
    BY DEF MyActionRequest, ActionValid
  <1> HIDE DEF request
  <1> QED BY <1>1, <1>2 DEF PlayerBets

LEMMA TimeoutBets ==
    ASSUME TInv, TimerTimeout
    PROVE  PlayerBets
  <1> DEFINE action == IF hand.highestSet = hand.set[hand.turn] THEN "check" ELSE "fold"
  <1>1. /\ state = "WaitPlayerAction" /\ UNCHANGED game
        /\ hand' = PerformPlayerAction(hand, hand.turn, action, 0)
    BY DEF TimerTimeout, Runs, StateOf, players
  <1>2. action \in Actions /\ 0 \in Int
    BY DEF Actions
  <1>3. hand \in HandType /\ hand.turn \in Seats
    BY <1>1 DEF TInv, IInv, TypeOK, EInv, Decides, HandType
  <1>4. hand.highestSet \in Nat /\ hand.set[hand.turn] \in Nat
    BY <1>3 DEF HandType
  <1>5. CheckMyAction(hand, hand.turn, action, 0)
    BY <1>4 DEF CheckMyAction
  <1> HIDE DEF action
  <1> QED BY <1>1, <1>2, <1>5 DEF PlayerBets

LEMMA PlayerBetsStakes ==
    ASSUME TInv, StakesInv, PlayerBets
    PROVE  StakesInv'
  <1>1. /\ hand \in HandType /\ InSync(hand) /\ game
        /\ Decides(hand) /\ Highest(hand) /\ StakesFit(hand)
    BY DEF TInv, IInv, TypeOK, ChipsSound, EInv, PlayerBets, StakesInv
  <1>2. hand.turn \in Seats
    BY <1>1 DEF Decides, HandType
  <1>3. StakesFit(hand')
    BY <1>1, <1>2, ActionStakes DEF PlayerBets
  <1> QED BY <1>3 DEF StakesInv

\* Cards shown and bets folded for an absent player are no bets.
LEMMA LoopStakes ==
    ASSUME TInv, StakesInv, TimerLoop
    PROVE  StakesInv'
  <1>1. state = "Hand" /\ game
    BY LoopOutcomes
  <1>2. PICK h : /\ PassDone(h)
                 /\ DealRound(h) \/ SkipAbsent(h) \/ AskPlayer(h) \/ FinishHand(h)
    BY LoopOutcomes
  <1>3. hand \in HandType /\ InSync(hand) /\ StakesFit(hand)
    BY <1>1 DEF TInv, IInv, TypeOK, ChipsSound, StakesInv
  <1>4. h \in HandType /\ StakesFit(h)
    BY <1>2, <1>3, PassStakes DEF PassDone
  <1>5. CASE DealRound(h)
    <2>1. \E b : hand' = [h EXCEPT !.shown = b]
      BY <1>5 DEF DealRound
    <2>2. StakesFit(hand')
      BY <1>4, <2>1 DEF StakesFit, HandType
    <2> QED BY <2>2 DEF StakesInv
  <1>6. CASE SkipAbsent(h)
    <2>1. h.round = hand.round /\ hand' = PerformPlayerAction(h, h.turn, "fold", 0)
      BY <1>6 DEF SkipAbsent
    <2>2. Decides(h) /\ Highest(h) /\ InSync(h)
      BY <1>2, <2>1, PassAsks
    <2>3. h.turn \in Seats /\ "fold" \in Actions /\ CheckMyAction(h, h.turn, "fold", 0)
      BY <1>4, <2>2 DEF Decides, HandType, Actions, CheckMyAction
    <2>4. StakesFit(hand')
      BY <1>4, <2>1, <2>2, <2>3, ActionStakes
    <2> QED BY <2>4 DEF StakesInv
  <1>7. CASE AskPlayer(h)
    BY <1>4, <1>7 DEF AskPlayer, StakesInv
  <1>8. CASE FinishHand(h)
    <2>1. ~game' \/ state' \notin {"Hand", "WaitPlayerAction"}
      BY <1>8 DEF FinishHand, SetState
    <2> QED BY <2>1 DEF StakesInv
  <1> QED BY <1>2, <1>5, <1>6, <1>7, <1>8

LEMMA NextHandStakes ==
    ASSUME TInv, NEW idle, NEW forced, NEW minutesUp \in BOOLEAN, NEW value,
           TimerNextHand(idle, forced, minutesUp, value)
    PROVE  StakesInv'
  <1> DEFINE raised == RaiseBlinds(blinds, minutesUp)
  <1>1. raised.small \in Nat \ {0}
    BY RaiseBlindsType DEF TInv, IInv, TypeOK, ScheduleType
  <1>2. hand' = NewHand(hand, Other(hand.dealer), raised.small, value)
    BY DEF TimerNextHand
  <1>3. hand \in HandType /\ Other(hand.dealer) \in Seats
    BY DEF TInv, IInv, TypeOK, HandType, Seats, Other
  <1> HIDE DEF raised
  <1>4. StakesFit(hand')
    BY <1>1, <1>2, <1>3, NewHandRaise DEF StakesFit
  <1> QED BY <1>4 DEF StakesInv

LEMMA IdleStakes ==
    ASSUME StakesInv, IdleStep
    PROVE  StakesInv'
  BY IdleStepFields DEF StakesInv

LEMMA InitStakes == Init => StakesInv
  <1> SUFFICES ASSUME Init PROVE StakesInv
    OBVIOUS
  <1> USE SettingsAssumption
  <1>1. PICK dealer \in Seats, value \in Deals :
           hand = NewHand(EmptyHand(StartCash), dealer, FirstSmallBlind, value)
    BY DEF Init
  <1>2. EmptyHand(StartCash) \in HandType
    BY EmptyHandType
  <1>3. FirstSmallBlind \in Nat \ {0}
    OBVIOUS
  <1> QED BY <1>1, <1>2, <1>3, NewHandRaise DEF StakesInv, StakesFit

\* The stakes hold in every reachable state of the table.
LEMMA NextStakes == TInv /\ StakesInv /\ [Next]_vars => StakesInv'
  <1> SUFFICES ASSUME TInv, StakesInv, [Next]_vars PROVE StakesInv'
    OBVIOUS
  <1>1. CASE IdleStep
    BY <1>1, IdleStakes
  <1>2. CASE TimerLoop
    BY <1>2, LoopStakes
  <1>3. CASE TimerTimeout
    BY <1>3, TimeoutBets, PlayerBetsStakes
  <1>4. CASE \E idle, forced \in SUBSET Seats, minutesUp \in BOOLEAN, value \in Deals :
                TimerNextHand(idle, forced, minutesUp, value)
    BY <1>4, NextHandStakes
  <1>5. ASSUME NEW s \in Seats, NEW round \in Rounds, NEW action \in Actions,
               NEW bet \in 0..MaxBet, MyActionRequest(s, round, action, bet)
        PROVE  StakesInv'
    <2>1. hand \in HandType /\ bet \in Int
      BY TableAssumption DEF TInv, IInv, TypeOK
    <2> QED BY <1>5, <2>1, RequestBets, PlayerBetsStakes
  <1> QED BY <1>1, <1>2, <1>3, <1>4, <1>5, NextSplit DEF HandStep

\* Whatever is bet, no legal raise is smaller than the big blind, and before the
\* flop nobody plays for less than it.
THEOREM StakesHold == Spec => []StakesInv
  <1>1. Init => TInv
    BY InitSound, InitHandlers, InitEngine DEF TInv
  <1>2. TInv /\ [Next]_vars => TInv'
    BY NextSound, NextHandlers, NextEngine DEF TInv
  <1> QED BY <1>1, <1>2, InitStakes, NextStakes, PTL DEF Spec
=============================================================================
