----------------------------- MODULE ClientTable -----------------------------
(***************************************************************************)
(* One client at the table: the server's running game (ServerTable), the   *)
(* messages it sends to the player Me, the client's states from the start  *)
(* event to the end of the game (src/src/net/clientstate.cpp), its copy of *)
(* the table (src/src/engine/network_engine) and the buttons of its window *)
(* (ActionButtons), whose clicks become requests to the server.            *)
(*                                                                         *)
(* Both directions are TCP: messages arrive in order, late, or not at all  *)
(* because the connection is gone.  The other player's client is not       *)
(* modelled, his requests are arbitrary.  A handler of the client and what *)
(* the window makes of its signals are one step: after every message of a  *)
(* hand the network thread waits for the window (waitForGuiUpdateDone at   *)
(* the end of InternalHandlePacket).  It does not wait for the window's    *)
(* timers: those that turn up the cards of a round and that which clears   *)
(* the buttons after a hand end at any time later, between any messages.   *)
(*                                                                         *)
(* A player id is his seat and a generation: who logs in again has a new   *)
(* one, which the game takes over when his rejoin is performed.            *)
(***************************************************************************)
EXTENDS ServerTable, ActionButtons

CONSTANTS
    MaxDown,   \* bound: messages the client has not got when the server sends more
    MaxUp,     \* bound: requests on their way to the server
    MaxHands,  \* bound: the hands of a game
    Dealt      \* bound: the ways in which two hands compare

ASSUME ClientAssumption ==
    MaxDown \in Nat /\ MaxUp \in Nat /\ MaxHands \in Nat \ {0} /\ Dealt \subseteq Deals

VARIABLES
    hands,    \* Game::currentHandID of the server
    ids,      \* per seat: generation of the id the game knows
    logins,   \* per seat: generation of the id of the latest session
    down,     \* messages on their way to the client
    up,       \* requests on their way to the server
    client,   \* the client's state and its copy of the table
    buttons,  \* the buttons of the window
    astray    \* history: the last hand in which a request of the client's was
              \* refused, or taken though it was made for an earlier hand

clientVars == <<client, buttons, up, astray>>
net == <<down, up, client, buttons, astray>>
allVars == <<vars, hands, ids, logins, down, up, client, buttons, astray>>

You == Other(Me)

(***************************************************************************)
(* The client before it has a game, and the Game it makes from a start     *)
(* message: hand is currentHandID, gen and nextDealer the ids it knows.    *)
(***************************************************************************)
NoTable(cstate) ==
    [state |-> cstate, hand |-> 0, gen |-> [s \in Seats |-> 0],
     nextDealer |-> <<0, 0>>, cash |-> [s \in Seats |-> 0],
     set |-> [s \in Seats |-> 0], action |-> [s \in Seats |-> "none"],
     relative |-> 0, pot |-> 0, sets |-> 0, highestSet |-> 0, minimumRaise |-> 0,
     fullBetRule |-> FALSE, round |-> PREFLOP, smallBlind |-> 0,
     blinds |-> FirstBlinds, bigBlind |-> FALSE, active |-> TRUE, allIn |-> FALSE,
     previous |-> "none", answered |-> FALSE]

NewGame(gen, cash, dealer, handNumber) ==
    [NoTable("WaitHand") EXCEPT !.gen = gen, !.cash = cash, !.nextDealer = dealer,
                                !.hand = handNumber, !.blinds.since = handNumber - 1]

\* Messages to the client.
StartEvent == [type |-> "StartEvent"]
GameStartInitial(dealer) == [type |-> "GameStartInitial", dealer |-> <<dealer, 0>>]
GameStartRejoin(gen) ==
    [type |-> "GameStartRejoin", gen |-> gen, cash |-> hand.cash,
     dealer |-> <<Other(hand.dealer), gen[Other(hand.dealer)]>>, hand |-> hands]
PlayerIdChanged(s, old, new) ==
    [type |-> "PlayerIdChanged", who |-> s, old |-> old, new |-> new]
HandStart(h, number, isActive) ==
    [type |-> "HandStart", small |-> h.smallBlind, hand |-> number, active |-> isActive]
ActionDone(h, s, gen, blind) ==
    [type |-> "ActionDone", who |-> s, gen |-> gen, blind |-> blind,
     action |-> h.action[s], set |-> h.set[s], cash |-> h.cash[s],
     highestSet |-> h.highestSet, minimumRaise |-> h.minimumRaise]
PlayersTurn(h) ==
    [type |-> "PlayersTurn", who |-> h.turn, gen |-> ids[h.turn], round |-> h.round]
DealCards == [type |-> "DealCards"]
AllInShowCards == [type |-> "AllInShowCards", gen |-> ids]
EndOfHandHide(h, s) ==
    [type |-> "EndOfHandHide", who |-> s, gen |-> ids[s], cash |-> h.cash[s]]
EndOfHandShow(h) == [type |-> "EndOfHandShow", gen |-> ids, cash |-> h.cash]
EndOfGame(s) == [type |-> "EndOfGame", who |-> s, gen |-> ids[s]]

BlindsPaid(h, gen) ==
    << ActionDone(h, SmallBlindSeat(h), gen[SmallBlindSeat(h)], "small"),
       ActionDone(h, BigBlindSeat(h), gen[BigBlindSeat(h)], "big") >>

\* The client has just been told to start: it confirms, or the server's
\* timeout starts the game without it.
ClientInit ==
    /\ Init
    /\ hand.value \in Dealt
    /\ hands = 1
    /\ ids = [s \in Seats |-> 0]
    /\ logins = [s \in Seats |-> 0]
    /\ down = << GameStartInitial(hand.dealer), HandStart(hand, 1, TRUE) >>
                 \o BlindsPaid(hand, ids)
    /\ up = << >>
    /\ \E cstate \in {"Synchronize", "WaitStart"} : client = NoTable(cstate)
    /\ buttons = BlankButtons
    /\ astray = 0

(***************************************************************************)
(* The server's steps, with what they send to the client                   *)
(***************************************************************************)

\* SendToAllPlayers reaches the sessions in the game, also those whose rejoin
\* is pending.
Send(messages) ==
    /\ down' = IF link[Me] = "out" THEN down ELSE down \o messages
    /\ Len(down) <= MaxDown
    /\ UNCHANGED <<up, client, buttons, astray>>

KeepIds == UNCHANGED <<hands, ids, logins>>

\* The session is closed or sent back to the lobby: nothing more arrives.
Disconnect ==
    /\ down' = << >>
    /\ up' = << >>
    /\ client' = NoTable("Closed")
    /\ buttons' = BlankButtons
    /\ UNCHANGED astray

SEngine ==
    LET h == PlayHand(hand)
    IN \/ EngineThrows(h) /\ Disconnect
       \/ DealRound(h) /\ Send(<<IF h.allIn /\ ~h.shown /\ NonFold(h) = Seats
                                 THEN AllInShowCards ELSE DealCards>>)
       \/ SkipAbsent(h) /\ Send(<<PlayersTurn(h), ActionDone(hand', h.turn, ids[h.turn], "no")>>)
       \/ AskPlayer(h) /\ Send(<<PlayersTurn(h)>>)
       \/ FinishHand(h) /\ Send(
             <<IF NonFold(h) = Seats THEN EndOfHandShow(PostRiverRun(h))
               ELSE EndOfHandHide(PostRiverRun(h), CHOOSE s \in NonFold(h) : TRUE)>>
             \o IF state' = "Init" THEN <<EndOfGame(Other(hand.dealer))>> ELSE << >>)

SLoop == Runs("Loop") /\ SEngine /\ KeepIds
SShowCards == TimerShowCards /\ Send(<<DealCards>>) /\ KeepIds

\* The winner is the only one with chips.
SNextGame ==
    /\ TimerNextGame
    /\ Send(<<EndOfGame(CHOOSE s \in Seats : hand.cash[s] > 0)>>)
    /\ KeepIds

STimeout ==
    /\ TimerTimeout
    /\ Send(<<ActionDone(hand', hand.turn, ids[hand.turn], "no")>>)
    /\ KeepIds

\* PerformRejoin, in the order in which the players came back: the one who came
\* back gets the whole game, the other one is told the new id.
Rejoined(order) ==
    LET now(i) == [s \in Seats |-> IF \E j \in 1..i : order[j] = s THEN logins[s] ELSE ids[s]]
    IN [i \in 1..Len(order) |->
          IF order[i] = Me THEN GameStartRejoin(now(i))
          ELSE PlayerIdChanged(order[i], ids[order[i]], logins[order[i]])]

SNextHand(idle, forced, minutesUp, value, order) ==
    /\ hands < MaxHands
    /\ {order[i] : i \in 1..Len(order)} = rejoin
    /\ TimerNextHand(idle, forced, minutesUp, value)
    /\ hands' = hands + 1
    /\ ids' = [s \in Seats |-> IF s \in rejoin THEN logins[s] ELSE ids[s]]
    /\ IF Me \in forced THEN Disconnect
       ELSE Send(Rejoined(order) \o <<HandStart(hand', hands', active'[Me])>>
                 \o BlindsPaid(hand', ids'))
    /\ UNCHANGED logins

SOtherActs(round, action, bet) ==
    /\ MyActionRequest(You, round, action, bet)
    /\ Send(<<ActionDone(hand', You, ids[You], "no")>>)
    /\ KeepIds

\* The oldest request of the client.  One that is not allowed, not his turn, for
\* another round or in another state changes nothing; the client has no handler
\* for the reject message.  The number of the hand is not compared.
SRequest ==
    /\ up # << >>
    /\ up' = Tail(up)
    /\ LET r == Head(up)
           a == FillIn(hand, Me, r.action, r.bet)
       IN IF state = "WaitPlayerAction" /\ link[Me] = "in" /\ ActionValid(Me, r.round, a)
          THEN /\ MyActionRequest(Me, r.round, r.action, r.bet)
               /\ down' = Append(down, ActionDone(hand', Me, ids[Me], "no"))
               /\ Len(down) <= MaxDown
               /\ astray' = IF r.hand = hands THEN astray ELSE hands
          ELSE astray' = hands /\ UNCHANGED <<vars, down>>
    /\ UNCHANGED <<client, buttons>> /\ KeepIds

SResetTimeout == \E s \in Seats : ResetTimeout(s) /\ UNCHANGED net /\ KeepIds

SLeave(s, relogin) ==
    /\ LeaveGame(s, relogin)
    /\ IF s = Me THEN Disconnect ELSE UNCHANGED net
    /\ KeepIds

\* The rejoin is accepted: the session is told to start ("Wait for rejoining
\* player to confirm start of game").
SRejoin(s, sameSession) ==
    /\ RejoinGame(s, sameSession)
    /\ logins' = [logins EXCEPT ![s] = IF sameSession THEN @ ELSE @ + 1]
    /\ IF s = Me
       THEN /\ down' = <<StartEvent>>
            /\ client' = NoTable("WaitGame")
            /\ UNCHANGED <<up, buttons, astray>>
       ELSE UNCHANGED net
    /\ UNCHANGED <<hands, ids>>

SQuiet == (TimerExpires \/ StaleHandler) /\ UNCHANGED net /\ KeepIds
SUnknown == UnknownPlayerAction(You) /\ Disconnect /\ KeepIds

\* Nothing is left to run, or the bound on the hands is reached.
Over ==
    /\ (state \notin Running /\ ready = << >>) \/ (state = "WaitNextHand" /\ hands = MaxHands)
    /\ UNCHANGED allVars

(***************************************************************************)
(* The client's handlers.  m is the oldest message on its way.             *)
(***************************************************************************)
Receives(type) ==
    /\ down # << >>
    /\ Head(down).type = type
    /\ down' = Tail(down)
    /\ UNCHANGED <<vars, hands, ids, logins>>

Becomes(c, b) == client' = c /\ buttons' = b /\ UNCHANGED <<up, astray>>

\* A ClientException: the client is disconnected.
Throws == Becomes([client EXCEPT !.state = "Thrown"], BlankButtons)

Knows(s, gen) == client.gen[s] = gen

\* Messages that the client's state does not handle are dropped.
Expects(cstate) ==
    CASE cstate = "WaitGame" -> {"StartEvent"}
      [] cstate = "Synchronize" -> {"GameStartInitial"}
      [] cstate = "WaitStart" -> {"GameStartInitial", "GameStartRejoin"}
      [] cstate = "WaitHand" -> {"HandStart", "EndOfGame", "PlayerIdChanged"}
      [] cstate = "RunHand" -> {"ActionDone", "PlayersTurn", "DealCards", "AllInShowCards",
                                "EndOfHandHide", "EndOfHandShow"}
      [] OTHER -> {}

CDrop ==
    /\ down # << >>
    /\ client.state # "Thrown"
    /\ Head(down).type \notin Expects(client.state)
    /\ Receives(Head(down).type)
    /\ UNCHANGED clientVars

Handles(type) == type \in Expects(client.state) /\ Receives(type)

CStartEvent ==
    /\ Handles("StartEvent")
    /\ Becomes([client EXCEPT !.state = "Synchronize"], buttons)

\* ClientStateSynchronizeStart::TimerLoop: the infos of all players are there.
CSynchronized ==
    /\ client.state = "Synchronize"
    /\ Becomes([client EXCEPT !.state = "WaitStart"], buttons)
    /\ UNCHANGED <<vars, hands, ids, logins, down>>

\* "Try to start anyway": a start of the game is handled while synchronizing.
CGameStartInitial ==
    /\ Handles("GameStartInitial")
    /\ Becomes(NewGame([s \in Seats |-> 0], [s \in Seats |-> StartCash],
                       Head(down).dealer, 0), buttons)

CGameStartRejoin ==
    /\ Handles("GameStartRejoin")
    /\ LET m == Head(down)
       IN Becomes(NewGame(m.gen, m.cash, m.dealer, m.hand), buttons)

\* Wrong: the next dealer keeps the old id.
CPlayerIdChanged_KeepDealer ==
    /\ Handles("PlayerIdChanged")
    /\ LET m == Head(down)
       IN IF ~Knows(m.who, m.old) THEN Throws
          ELSE Becomes([client EXCEPT !.gen[m.who] = m.new], buttons)

\* The new id also replaces the old one as that of the next dealer.
CPlayerIdChanged ==
    /\ Handles("PlayerIdChanged")
    /\ LET m == Head(down)
       IN IF ~Knows(m.who, m.old) THEN Throws
          ELSE Becomes([client EXCEPT !.gen[m.who] = m.new, !.nextDealer =
                           IF @ = <<m.who, m.old>> THEN <<m.who, m.new>> ELSE @], buttons)

(***************************************************************************)
(* The cards are for one hand number only; Game::initHand finds the dealer *)
(* by his id, raises the client's own blinds and makes the rounds with     *)
(* them; the hand and its first round get the server's blind.              *)
(***************************************************************************)
CHandStart(minutesUp) ==
    /\ Handles("HandStart")
    /\ minutesUp => ~RaiseOnHands
    /\ LET m == Head(down)
           d == client.nextDealer
       IN IF m.hand # client.hand + 1 \/ ~Knows(d[1], d[2]) THEN Throws
          ELSE Becomes(
              [client EXCEPT !.state = "RunHand", !.hand = m.hand, !.active = m.active,
                 !.nextDealer = <<Other(d[1]), client.gen[Other(d[1])]>>,
                 !.blinds = RaiseBlinds(@, minutesUp), !.smallBlind = m.small,
                 !.minimumRaise = 2 * m.small, !.highestSet = 0, !.fullBetRule = FALSE,
                 !.action = [s \in Seats |-> "none"], !.round = PREFLOP,
                 !.bigBlind = FALSE, !.allIn = FALSE, !.previous = "none"],
              CleanButtons(buttons))

\* Blinds and actions: the table takes over what the server says.
CActionDone ==
    /\ Handles("ActionDone")
    /\ LET m == Head(down)
           set == [client.set EXCEPT ![m.who] = m.set]
           done == [client EXCEPT !.action[m.who] = m.action, !.set = set,
                      !.cash[m.who] = m.cash, !.sets = set[0] + set[1],
                      !.highestSet = m.highestSet, !.minimumRaise = m.minimumRaise,
                      !.bigBlind = IF m.who = Me /\ m.blind # "no" THEN m.blind = "big" ELSE @,
                      !.previous = IF m.blind # "no" THEN @
                                   ELSE IF m.who = Me THEN "me" ELSE "other"]
       IN IF ~Knows(m.who, m.gen) \/ (m.blind = "no" /\ m.set < client.set[m.who])
          THEN Throws
          ELSE \E b \in UpdateMyButtonsState(done, Played(buttons), -1) : Becomes(done, b)

\* The first turn of a round: actions are reset, and the round's own highest
\* bet and least raise, made with the client's blinds, take over.
TurnRound(c, round) ==
    IF c.round = round THEN c
    ELSE [c EXCEPT !.round = round, !.action = [s \in Seats |-> "none"],
                   !.highestSet = 0, !.minimumRaise = 2 * c.blinds.small,
                   !.fullBetRule = FALSE]

Answer(t) ==
    /\ up' = Append(up, Request(t))
    /\ Len(up') <= MaxUp
    /\ UNCHANGED astray
    /\ client' = [t EXCEPT !.answered = TRUE]

\* meInAction: the buttons are painted, then a remembered action is clicked.
MeInAction(t) ==
    \E b \in Asked(t, buttons) :
        LET button == Remembered(buttons, b)
        IN IF button # "none" /\ Acts(b, button)
           THEN /\ Answer(Act(t, b, button))
                /\ buttons' = [ForgetTicks(b) EXCEPT !.raising = {}]
           ELSE Becomes(t, ForgetTicks(b))

CPlayersTurn ==
    /\ Handles("PlayersTurn")
    /\ LET m == Head(down)
           t == TurnRound(client, m.round)
       IN IF ~Knows(m.who, m.gen) THEN Throws
          ELSE IF m.who = Me THEN MeInAction([t EXCEPT !.answered = FALSE])
          ELSE Becomes(t, buttons)

\* Wrong: the players' bets are not taken back.
CollectBets_KeepSets(c) == [c EXCEPT !.pot = @ + c.sets, !.sets = 0, !.relative = 0]

\* ClientBoard::collectPot and setMySetNull; the pot takes what was collected.
CollectBets(c) ==
    [c EXCEPT !.pot = @ + c.sets, !.sets = 0, !.set = [s \in Seats |-> 0], !.relative = 0]

\* New cards: the bets go to the pot, in the round that is still the old one,
\* and the buttons wait for the cards to be turned up.
CDealCards ==
    /\ Handles("DealCards")
    /\ Becomes([CollectBets(client) EXCEPT !.highestSet = 0, !.previous = "none"],
               DealBeRoCards(buttons))

CAllInShowCards ==
    /\ Handles("AllInShowCards")
    /\ IF \E s \in Seats : ~Knows(s, Head(down).gen[s]) THEN Throws
       ELSE Becomes([client EXCEPT !.allIn = TRUE], buttons)

CEndOfHandHide ==
    /\ Handles("EndOfHandHide")
    /\ LET m == Head(down)
       IN IF ~Knows(m.who, m.gen) THEN Throws
          ELSE Becomes([CollectBets(client) EXCEPT !.cash[m.who] = m.cash, !.pot = 0,
                                                   !.state = "WaitHand"],
                       PostRiverRunAnimation1(buttons))

CEndOfHandShow ==
    /\ Handles("EndOfHandShow")
    /\ LET m == Head(down)
       IN IF \E s \in Seats : ~Knows(s, m.gen[s]) THEN Throws
          ELSE Becomes([CollectBets(client) EXCEPT !.cash = m.cash, !.pot = 0,
                          !.round = POST_RIVER, !.state = "WaitHand"],
                       PostRiverRunAnimation1(buttons))

CEndOfGame ==
    /\ Handles("EndOfGame")
    /\ IF ~Knows(Head(down).who, Head(down).gen) THEN Throws
       ELSE Becomes(NoTable("WaitGame"), BlankButtons)

(***************************************************************************)
(* The window's timers and the user, at any time while there is a hand to  *)
(* show: the buttons are painted after a hand until a timer cleans them.   *)
(***************************************************************************)

AtTheTable ==
    /\ client.state \in {"RunHand", "WaitHand"}
    /\ UNCHANGED <<vars, hands, ids, logins, down>>

CDealCardsEnd ==
    /\ AtTheTable
    /\ buttons.deals > 0
    /\ \E b \in DealCardsEnd(client, buttons) : Becomes(client, b)

CPostRiverRunAnimation2 ==
    /\ AtTheTable
    /\ buttons.clean
    /\ Becomes(client, PostRiverRunAnimation2(buttons))

\* A click ticks a button in advance.
TickButton(button) ==
    /\ AtTheTable
    /\ IsCheckable(buttons, button)
    /\ Becomes(client, Tick(buttons, button))

\* A click acts.  The buttons stay until the server's answer comes, so they may
\* be clicked again.
ClickButton(button) ==
    /\ AtTheTable
    /\ ~IsCheckable(buttons, button)
    /\ Acts(buttons, button)
    /\ Answer(Act(client, buttons, button))
    /\ buttons' = [buttons EXCEPT !.raising = {}]

\* The spin box changes the amount on the bet button.
SpinBoxBetValueChanged(value) ==
    /\ AtTheTable
    /\ buttons.bet.text # ""
    /\ ~client.answered
    /\ value \in LeastBet(client, buttons.bet.text)..client.cash[Me]
    /\ LET label == Label(buttons.bet.text, value)
       IN Becomes(client, [buttons EXCEPT !.bet = label,
                             !.seen = IF buttons.memory = "bet" THEN label ELSE @])

ServerStep ==
    \/ SLoop \/ SShowCards \/ SNextGame \/ STimeout
    \/ /\ state = "WaitNextHand" /\ ready # << >>
       /\ \E idle, forced \in SUBSET Seats, minutesUp \in BOOLEAN, value \in Dealt,
             order \in {<< >>, <<0>>, <<1>>, <<0, 1>>, <<1, 0>>} :
             SNextHand(idle, forced, minutesUp, value, order)
    \/ /\ state = "WaitPlayerAction" /\ hand.turn = You
       /\ \E action \in Actions, bet \in 0..MaxBet :
             SOtherActs(hand.round, action, bet)
    \/ SRequest
    \/ SResetTimeout
    \/ \E s \in Seats, relogin \in BOOLEAN : SLeave(s, relogin)
    \/ \E s \in Seats, sameSession \in BOOLEAN : SRejoin(s, sameSession)
    \/ SQuiet \/ SUnknown

ClientStep ==
    \/ CDrop \/ CStartEvent \/ CSynchronized \/ CGameStartInitial \/ CGameStartRejoin
    \/ CPlayerIdChanged \/ \E minutesUp \in BOOLEAN : CHandStart(minutesUp)
    \/ CActionDone \/ CPlayersTurn \/ CDealCards \/ CAllInShowCards
    \/ CEndOfHandHide \/ CEndOfHandShow \/ CEndOfGame
    \/ CDealCardsEnd \/ CPostRiverRunAnimation2

UserStep ==
    \/ \E button \in Buttons : TickButton(button) \/ ClickButton(button)
    \/ \E value \in 0..MaxBet : SpinBoxBetValueChanged(value)

ClientNext == ServerStep \/ ClientStep \/ UserStep \/ Over

ClientSpec == ClientInit /\ [][ClientNext]_allVars

(***************************************************************************)
(* Properties                                                              *)
(***************************************************************************)

\* Whatever the server sends, and however late it comes, the client finds every
\* id it is told about, every hand follows the one before, and no bet is below
\* what the client already counted: none of the exceptions that would throw the
\* player out of his game is reached.
ClientNeverThrows == client.state # "Thrown"

\* The server waits for Me, his client has got everything it was sent and has
\* not acted yet, and no earlier request went astray in this hand.
WaitsForMe ==
    /\ state = "WaitPlayerAction" /\ hand.turn = Me /\ link[Me] = "in"
    /\ down = << >> /\ up = << >> /\ astray # hands
    /\ client.state \notin {"WaitGame", "Synchronize", "WaitStart"}
    /\ ~client.answered

\* When a player is asked and his client has a game, it is in the hand and its
\* copy of the table is the server's: stacks, bets, pot, the bet to match, the
\* least raise, the round and the blind.  (The client does not take back what it
\* changed for a request that was refused, and does not know which of its
\* requests was taken.)
AskedSeesTheTable ==
    WaitsForMe =>
        /\ client.state = "RunHand"
        /\ client.cash = hand.cash
        /\ client.set = hand.set
        /\ client.pot = hand.pot
        /\ client.highestSet = hand.highestSet
        /\ client.round = hand.round
        /\ client.smallBlind = hand.smallBlind
        /\ hand.highestSet > 0 => client.minimumRaise = hand.minimumRaise

\* The request that clicking a button would send.
Offered(button) == Request(Act(client, buttons, button))

\* Every action the player who is asked can take with a click is one the server
\* accepts, with the amount the button shows.  (A button that is checkable is
\* only ticked: when the cards are turned up after the player was asked, his
\* buttons are.)  Without chips he can still fold and check: a raise clicked again
\* before the answer came may be taken twice and stake all he has without making
\* him all in, so that he is asked once more.
OfferIsAccepted(button) ==
    LET r == Offered(button)
    IN Acts(buttons, button) /\ ~IsCheckable(buttons, button)
       /\ (hand.cash[Me] > 0 \/ r.action \in {"fold", "check"})
          => ActionValid(Me, r.round, FillIn(hand, Me, r.action, r.bet))

\* Whenever the window's timers end, and as long as the client's blinds are the
\* server's, all offers are accepted; a client that came back may offer a first
\* bet of its own, lower blind.
OffersAreAccepted ==
    WaitsForMe =>
        \A button \in Buttons :
            (button = "bet" => client.minimumRaise = hand.minimumRaise)
               => OfferIsAccepted(button)

\* A remembered action is what its button said when it was ticked: "Call" pays
\* the amount that was shown, "Check" never pays, a bet stays a bet (its amount
\* follows the spin box), and "Check / Fold" folds only if a check is not free.
\* That is so unless the buttons were repainted late: when the cards are turned up
\* after somebody has acted, the buttons say "Check" and "Check / Fold" for a bet
\* that is not free, and a tick there becomes a call.
RememberedActionAsShown ==
    [][(/\ buttons.memory # "none" /\ buttons.repaint # "late"
        /\ down' # down /\ up' # up /\ Len(up') > Len(up)) =>
          LET r == up'[Len(up')]
              said == buttons.seen
          IN CASE said.text = "Fold" -> r.action = "fold"
               [] said.text = "CheckFold" ->
                    r.action = IF client'.set[Me] < client'.highestSet THEN "fold" ELSE "check"
               [] said.text = "Check" -> r.action = "check"
               [] said.text = "Call" -> r.action \in {"call", "allin"} /\ r.bet = said.amount
               [] said.text \in {"Bet", "Raise"} -> r.action \in {"bet", "raise", "allin"}
               [] said.text = "AllIn" -> r.action = "allin"
               [] OTHER -> FALSE]_allVars
=============================================================================
