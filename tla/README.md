# A TLA+ verification of PokerTH

This directory models the parts of PokerTH that decide about a game played over
the network: the poker engine the server runs and the evaluation of the cards
(`src/src/engine`), the server's running game with its timer, its packets and
players who leave, are kicked and come back, the life cycle of a game before and
after the table, the sessions of the server from connection to close
(`src/src/net/server*.cpp`), the buffers that carry packets over a connection,
and the client: its way into a session and back to a game it has left, its list of
games, its states at the table, its copy of the game and the four action buttons. TLC checks small instances; TLAPS proves the central properties
of the chips, of the life cycle, of the sessions and of the subscription to the
game list for every size.

All line numbers below refer to the files under `src/`.

## 1. The system

### Components

| Component | Source | State | Operations | Modelled |
|---|---|---|---|---|
| Hand and betting rounds | `engine/local_engine/localhand.cpp`, `localbero*.cpp` | round, running players, turn, highest set, minimum raise, all-in condition | `start`, `setBlinds`, `switchRounds`, `run` of each round, `postRiverRun` | `HandEngine` |
| Board | `localboard.cpp` | pot, cached sum of the bets | `collectSets`, `collectPot`, `distributePot` | `HandEngine`, `PotDistribution` |
| Players | `localplayer.cpp/.h` | cash, set, action | `setMySet`, `checkMyAction`; the computer player | partly (no computer player) |
| Game | `engine/game.cpp` | dealer, blinds, hand number | `initHand`, `raiseBlinds` | `BlindSchedule`, `HandEngine` |
| Card evaluation | `engine/local_engine/cardsvalue.cpp` | tables | seven cards to a value and marked cards, names at a showdown, what the chance display rules out | `CardsValue`, `PokerRules` |
| Showdown | `localboard.cpp` | who must show | `determinePlayerNeedToShowCards` | `ShowCards` |
| Running game | `net/servergamestate.cpp` | current state, state timer | `TimerLoop`/`EngineLoop`, `TimerShowCards`, `TimerTimeout`, `InternalProcessPacket`, `StartNewHand` ... | `ServerTable` |
| Game life cycle | `net/servergamestate.cpp` | current state (Init, StartGame, Final), two state timers, confirmations | join, start, confirm, `TimerAutoStart`, `TimerAdminWarning`, `TimerAdminTimeout`, `DoStart` | `ServerGame` |
| Game object | `net/servergame.cpp` | sessions, admin, computer players, kicked players, rejoin, reactivate and auto leave lists, ranking, votes | add, remove, kick, rejoin, hand over the admin, start, end, reopen | `ServerGame`, `ServerTable`; no ranking, no votes |
| Lobby | `net/serverlobbythread.cpp` | sessions, the list of games, pending logins | connect, init, avatar, login, create, join, rejoin, remove, close, `TimerRemoveGame`; game list and its changes, subscription | `ServerLobby`, `GameList`; no chat, reports, statistics |
| Sessions | `net/sessiondata.cpp`, `sessionmanager.cpp` | session state, three timers, id maps | | `ServerLobby` |
| Buffers | `net/asiosendbuffer.cpp`, `asioreceivebuffer.cpp`, `senderhelper.cpp` | two send buffers, a receive buffer | append, swap, scan | `Connection` |
| Client's states | `net/clientstate.cpp`, `clientthread.cpp` | current state, the id of its player, the guid of its session (on disk) | from the start of the thread to the end of the game; rejoining; the list of games | `ClientSession`, `ClientTable`, `GameList`; no avatars, players' data, chat |
| Client's copy of the table | `engine/network_engine` | stacks, bets, pot, round, turn | | `ClientTable` |
| Action buttons | `gui/qt/gametable/gametableimpl.cpp` | labels, ticked action, bet amount | paint, tick, click, perform the ticked action | `ActionButtons` |
| Ban manager, bots, chat cleaner, database thread | `net/serverbanmanager.cpp`, `net/*bot.cpp`, `chatcleaner/`, `dbofficial/` | | | no |
| Other windows, config, avatars, log, third-party code | `gui/`, `config/`, `core/`, `third_party/` | | | no |

### How they interact

Every handler of the server runs on the thread of one `io_context`, one at a
time: expired timers, received packets, the lobby's periodic timers. A running
game is a state machine (`ServerGame::SetState`) whose states share one timer.
In state `Hand` each `TimerLoop` makes one pass of the engine (`switchRounds`,
then `run` of the current round) and looks at what became of the hand: a new
round is dealt, an absent player is folded, a present one is asked (state
`WaitPlayerAction`), or the pot is paid out and the game goes on
(`WaitNextHand`), ends with a winner, or is over. A player's action, or the
timeout, calls `PerformPlayerAction` and returns to `Hand`. An exception of the
engine closes the game for everybody.

Around the table, a game is created by its admin (`Init`), joined, and started
by him or, when it is full, by a second timer; everybody confirms (`StartGame`)
or is waited for until a timeout; when it ends it opens again. The lobby holds
the list of games, moves sessions into and out of them, and looks every 500 ms
for games nobody is in. A connection becomes a session with an init and an
activity timer; its login waits for the database and may throw out another
session of the same player. A session's packets go through a double send buffer,
TCP and a receive buffer that cuts the stream into packets.

Every client keeps the list of games: the server sends it whole at the login and
every change from then on. A client whose own game begins unsubscribes; when that
game is over it forgets its list and subscribes again, and the whole list comes
once more.

A client's thread downloads or reads the list of servers, resolves, connects, is
announced to, asks for the login, and waits in the lobby. The guid the server
gave its session is written to disk when a game starts; the next login names it,
and the server offers the seat that has this guid.

The client builds its own copy of the table from single messages, one handler
per message type and state. When the server asks its player, the window works
out what the four buttons offer; a click changes the client's copy at once and
sends a request. A button may be ticked in advance, and is performed when the
turn comes. When the cards of a round are dealt the window cleans the buttons and
starts a chain of timers that turns the cards up and, seconds later, paints the
buttons for whoever wants to tick one in advance; another timer cleans them after
a hand. The network thread does not wait for these timers.

### What is hard about it

- **Late and stale events.** A cancelled timer does not take back a handler that
  has expired and is queued; `IsCurrentState` is the only protection. Players
  act late, out of turn, for another round.
- **Coming and going.** A player may leave in any state, be kicked for idleness,
  rejoin with a new session (whose id the game learns at the next hand), leave
  again before that. Whether his chips stay is decided at the end of the hand.
- **Cached values.** The board caches the sum of the bets, the round caches the
  highest bet, the players' action codes decide who is still in the betting.
- **Three copies of the admin.** The game's id, the flag of the player data and
  the timer that watches him are each updated by some of the departures, joins
  and logins.
- **Bytes and packets.** Appending while a write is in progress, a close that
  must wait for what was sent before, frames cut anywhere, packets that cannot be
  parsed.
- **Boundaries.** Blinds above the stacks, all-ins below the small blind, folded
  players who paid most, odd chips, the blind cap.
- **Sessions that move.** A login, a removal or a timeout finds its session
  logged in, in a game, back in the lobby, or closed; packets that came with the
  one that closed a session are still handled.
- **Coming back.** The guid of a seat is set by the server when a game starts or a
  player is seated again; the client's file of it is written when it hears of
  this, and the program or its machine may stop anywhere in between.
- **Timers of the window.** They paint the buttons while messages are handled: the
  other player may have bet, or the player may have been asked, before the cards of
  the round are turned up.
- **Two tables.** The client's copy lags behind, is rebuilt after a rejoin, uses
  formulas of its own, and is changed by clicks the server may refuse.
- **Lists that follow.** A client's game list is a snapshot and the changes after
  it, with both on their way while the client clears the list and asks again.
- **Progress.** Nothing moves the game but the next timer handler; each handler
  must arm the next one.

### What makes it correct

Chips are neither made nor lost; bets and caches agree; the hand ends with the
stacks the rules give; nobody is asked once the betting is settled;
exactly one live handler exists; waiting ends; an abandoned game goes away. A
game has one admin, who passes it on when he goes;
people and computers never take more than the seats; a start settles. Packets
arrive whole and in order, or not at all. A session is kept where its state says
and ends for good. The better hand has the higher value. The client never meets
a message it cannot handle, and a subscribed one lists the games as they are; who
is asked sees the server's table and sends with a click only what the server accepts. An
attempt to connect comes to something, and whoever plays may be cut off at any
moment and come back.

## 2. The modules

| Module | Models | Extends / uses |
|---|---|---|
| `HandEngine` | the heads-up hand as a record, every engine operation as an operator on it | |
| `BlindSchedule` | `Game::raiseBlinds` | |
| `ServerTable` | the running game: states, timer, packets, sessions | `HandEngine`, `BlindSchedule` |
| `ChipLedger` | abstract specification: what the server promises about chips | implemented by `ServerTable` (`LedgerSpec`) |
| `PotDistribution` | `LocalBoard::distributePot` for any number of seats, one step per level | |
| `ServerGame` | the life cycle of a game: Init, StartGame, Running as one state, Final, both timers, the lobby's side of joining and removing | |
| `GameView` | abstract specification: what the lobby and its players see of a game | implemented by `ServerGame` (`ViewSpec`) |
| `GameList` | the listed game in another player's client: snapshot, changes, unsubscribing and subscribing again | `GameView` |
| `Connection` | one direction of a session, byte by byte: send buffer, wire, receive buffer | |
| `PacketChannel` | abstract specification: a FIFO channel of packets | implemented by `Connection` (`ChannelSpec`) |
| `PokerRules` | the order of poker hands, from the rules of the game: the reference | |
| `CardsValue` | `cardsvalue.cpp`: value, marked cards, names, impossible combinations | `PokerRules` |
| `ShowCards` | who must show at a showdown | `PotDistribution` |
| `ServerLobby` | the sessions: connections, login, lobby and game, removal, timers, closing | |
| `ActionButtons` | the buttons of the window as operators on a record | `HandEngine` |
| `ClientTable` | one client at the server's table, with messages in both directions | `ServerTable`, `ActionButtons` |
| `ClientSession` | one player's logins, from the start of the client to the table and back to his seat | |
| `MCServerTable`, `MCConnection`, `MCCardsValue`, `MCClientTable` | instances for TLC | |
| `ServerTable_proofs` | lemmas on the engine (what its operators keep; how a hand is played: a pass, an action, a new hand, the payout); the table's chips, timer, engine and payout: inductive invariant, theorems and the step simulation of `ChipLedger` | `ServerTable`, `TLAPS` |
| `ShowCards_proofs` | the invariant of the pot's level loop, and who shows, for any number of seats; lemmas on sums over finite sets | `ShowCards`, `TLAPS` |
| `ServerGame_proofs` | the life cycle's inductive invariant, its theorems and the step simulation of `GameView` | `ServerGame`, `TLAPS` |
| `ServerLobby_proofs` | the sessions' inductive invariant and theorems | `ServerLobby`, `TLAPS` |
| `GameList_proofs` | the subscription's and the list's invariants | `GameList`, `TLAPS` |
| `ClientSession_proofs` | the invariant of a player's logins: his guid on disk and his offer to come back | `ClientSession`, `TLAPS` |
| `ClientTable_proofs` | the invariant of client, server and the messages between them | `ClientTable`, `ServerTable_proofs` |
| `Connection_proofs` | the framing invariant of a connection and the step simulation of `PacketChannel` | `Connection`, `TLAPS` |

**HandEngine.** The build fixes `MAX_NUMBER_OF_PLAYERS` to 2
(`src/game_defs.h:35`), so the model plays heads up: the seats are 0 and 1, the
dealer is the small blind. `SwitchRounds`, `RunPreflop`, `RunBeRo`, `PlayHand`,
`CheckMyAction`, `FillIn`, `PerformPlayerAction` and `PostRiverRun` keep every
condition of the code, including the two all-in exceptions and the lookups that
throw. Of the cards only the order of the two hands is kept. Definitions with a
suffix (`CollectPot_KeepSets`) are wrong variants that show each property can
fail.

**ServerTable.** `state` is the current state, `timer` the handler the timer is
armed with, `ready` the queue of expired handlers. `TimerExpires` moves the
timer's handler into the queue; `Runs(handler)` takes the oldest one;
`StaleHandler` is a handler whose state was left. Each handler is one action, in
full: `TimerLoop` is a whole pass of the engine, its cases are `DealRound`,
`SkipAbsent`, `AskPlayer`, `FinishHand` and `EngineThrows`. `MyActionRequest` is
an accepted action of a client, `UnknownPlayerAction` the request of a session
the game does not know yet; rejected requests change nothing. `TimerNextHand` is
`StartNewHand` with reactivation, rejoin, idle and kicked players and the raised
blinds. `link`, `guid`, `kicked`, `active`, `rejoin` and `reactivate` hold what
the code knows about each player's session.

**PotDistribution.** The level loop of `distributePot` for `N` seats, checked
against a reference that gives each layer of chips to its owners. The reference
counts in parts of a chip: `ShareUnit` is any number that 1 to `N` divide (6 for
three seats; `N` factorial always is one), so that any number of owners share a
chip exactly. `SharesAreExact` has three parts: every chip is in the pot or was
paid out, and the pot ends empty (`PotIsPaidOut`); every seat gets what the layers
give it, but for less than one chip per level that can have odd chips
(`LayersAreShared`); and equal hands with equal contributions get the same, but for
odd chips, which go to the one who sits nearer after the dealer
(`EqualsShareAlike`). What the two-seat operators of `HandEngine` pay is stated by
`FairPayout`.

**ServerGame.** `inGame` are the players in the game's `SessionManager`,
`attached` those whose session belongs to the game, whether it is in it or not;
`adminId`, `admins` and `timer1` are the three places that know the admin.
`expired` is the queue of expired handlers, in the order they will run:
re-arming or cancelling a timer leaves it alone, and `StaleHandler` is the
`IsCurrentState` check. `RemovePlayers`, `HandOverAdmin` and `NotifyLeft` are the
code every departure runs; `JoinInit`, `JoinRefused`, `Rejoin` and `JoinFinal` are
what the state makes of a join. The table is the state Running, of which
`EndGame` and `CloseOnError` are left; `ServerTable` refines what happens there
(a rejoin needs the guid, which is one of its inputs). Invitations and chat only
send messages.

**GameView, GameList.** `GameView` is a game with nothing in it that others
cannot see: no sessions, flags, confirmations, joins counted or timers. That
`ServerGame` implements it (`ViewSpec`) lets `GameList` take it as its
environment: each of its steps announces what the code's `Notify...` functions
send, in their order (a new admin before the one who left; the computer players
of a start one by one, which the model counts; an admin who is not found again
is nobody). `wants` is the server's flag of the watcher's session, `subscribed`
the client's; `toServer` and `toClient` are FIFO, as `Connection` shows. The
watcher plays in another game, of which only the four messages matter that make
his client unsubscribe or subscribe. `raced` is history: when the client cleared
its list, an unsubscribe or messages from before were still under way; what then
happens is an observation of section 6. A closing game and its players are one
step, as in the handler. The sorting of the list in the window is not modelled,
nor is the list of players, which is kept in the same way.

**Connection.** A byte is a packet and a place in its frame, so that a receiver
out of step reads a wrong size. `Send` is `SenderHelper::Send` with
`InternalStorePacket` and `AsyncSendNextPacket`; `Transmit` is what TCP takes of
`curWriteBuf`; `HandleWrite` swaps the buffers; `HandleRead` is one read with all
the packets `ScanPackets` finds and `ProcessPackets`, whose handlers may close
the session. A frame that does not fit into the send buffer is dropped without
a word to the caller, as in the code. The SSL variants have the same control.

**CardsValue.** A hand is a sequence of seven cards. The code sorts them, looks
for each category with its own loops and packs category and ranks into one
number; the operators keep the order in which the categories are tried, what
each writes over what the one before it marked, and the weights of the number.
`PokerRules!Strength` says what the best five of seven are worth, by looking at
all of them. The names are kept as the ranks they name, because what matters is
which kickers are named.

**ServerLobby.** `server` holds each session's state, its player data, the three
managers a session can be in (`lobby`, `gameSessions`, the game's `members`), the
session's pointer to its game (`attached`), its armed timers and what its socket
still delivers (`reading`); `pending` are the logins the database has not
answered. The operators on `server` (`CloseSession`, `SessionError`,
`MoveSessionToGame`, `HandleReAddedSession`, `InternalRemovePlayer` ...) are the
functions of the code and call each other as these do. A handler of an expired
timer may run although the timer was cancelled, once the session was closed. The
packets of one read are handled without anything in between (`batch`). There is
one game at a time; why a login, a game name or a join is refused is left open,
so every refusal may happen at any time.

**ActionButtons, ClientTable.** `ActionButtons` translates the functions of the
window that decide what the buttons say and do. `ClientTable` takes the whole of
`ServerTable`, adds to each step the messages the code sends, and the client's
handlers. A handler and what the window makes of its signals are one step because
the network thread waits for the window after every message of a hand
(`waitForGuiUpdateDone`, `clientstate.cpp:2045`). It does not wait for the window's
timers, which are actions of their own: `DealBeRoCards` cleans the buttons and starts
a chain of timers (`deals`), whose end is `CDealCardsEnd` (`dealFlopCards6`,
`dealTurnCards2`, `dealRiverCards2`): it paints the buttons in mode 0 on the table as
it is then, unless all are all in; the end of a hand arms the timer (`clean`) of
`CPostRiverRunAnimation2`. Either may come at any later time, between any messages;
nothing stops them before the game ends. `repaint` is history: whether a repaint came
"late", after somebody had acted in the round or the player had been asked. What
slider and spin box make of a new range is any amount in it. The other player's
requests are arbitrary. A player id is a seat and a generation, since who logs in
again has a new one. The client's confirmation of a start is not a message of
the model: a running game ignores it. `astray` remembers a request that the
server refused: the client has no handler for the refusal.

**ClientSession.** `client` is the client's thread: its state, its login, the guid
it holds and whether it was offered its seat; `disk` is the guid in its file.
`server` has the states of the player's sessions (one per login, which is also
its player id and its guid), what they have not read yet, the guid each login
named, and his seat; `down` is what has been sent to the running client.
`HandlePacket` is the client's dispatch: errors, then what every receiving state
handles, then the state's own messages. The server's side is the part of
`ServerLobby`, `ServerGame` and `ServerTable` that concerns one player, with the
other players' doings left open: games are created, start, deal hands and end at
any time. Of the list of servers only that it may be bad is kept. The guid's file
is taken to be writable; it is truncated before it is written, so a stop may
leave it empty. `doubled` is history: two sessions of the player were
established at once, which section 6 explains.

## 3. The runs

| Run | Instance | Shows |
|---|---|---|
| `betting` | stacks of 6, any bet up to 7, no departures; a manual blind list beyond the cap, then doubling, raised by the clock | `ChipConservation`, `SetsInSync`, `HighestSetIsHighest`, `EngineNeverThrows`, `NoPointlessDecision` |
| `players` | stacks of 3, time limit, two incidents (leave, idle, reset), fairness | `OneLiveHandler`, `FairPayout`, refinement of `ChipLedger`; `AskedPlayerServed`, `AllInRunsOut`, `AbandonedGameRemoved` |
| `pot_levels` | 3 seats, up to 4 chips and 3 hand values each, any folds, any dealer | `SharesAreExact`, `AllInTheHandShow` |
| `cards` | every pair of hands dealt from nine decks of nine cards | `ShowdownIsFair`, `BestHandIsMarked`, `NamesTellApart`, `ImpossibleStaysImpossible` |
| `connection` | five kinds of packet, three sends, buffers a few bytes long, fairness | refinement of `PacketChannel`, `ValidPeerKept`; `TakenIsDelivered` |
| `game` | two players, two seats, normal, ranking and LAN games, fairness | refinement of `GameView`; `AdminIsUnique`, `NeverOverfull`, `AdminHandedOver`; `StartSettles`, `FullGameStarts` |
| `lobby` | two connections of one player, a lobby for one, fairness | `SessionsFiled`, `LateEventsReviveNobody`, `RemovedPlayerGoes`; `EverySessionEnds` |
| `client` | stacks of 3, two hands, one incident, time limit | `ClientNeverThrows`, `AskedSeesTheTable`, `OffersAreAccepted`, `RememberedActionAsShown` |
| `game_list` | two players in the listed game, three messages under way, one own game of the watcher, fairness | `ListIsCurrent`, `SubscriptionsAgree`; `ListComesBack` |
| `login` | three logins of one player, one request and two answers under way, fairness | `RejoinPossible`, `OfferHolds`; `AttemptEnds` |
| `turn_passes`, `revived` | instances of the same modules | the findings of section 6 |

**Bounds.** Stacks of six chips with blinds 1/2 are enough for a bet, a raise
above the minimum and an all-in in one hand, for short stacks below the small
and below the big blind once the blinds have doubled, for unequal all-ins, and
for odd pots. `MaxBet` is one above the largest stack that matters, so refused
bets occur; bets larger than a stack are refused by `CheckMyAction` whatever
their size. There is no bound on the number of hands: the state space is finite
because the chips are. `MaxIncidents = 2` allows leave-rejoin-leave and
kick-rejoin within one game, in every order with the betting. With three chips
per player the all-in cases happen in the first hand. Deadlock is checked in
every run but `revived` and `login` (whose connections are used up in the end); the only states without a real successor are a game
that is over (`GameOver`, `Over`), one that is gone (`GameGone`), a
listed game of which everything has been heard (`NothingLeft`), a server all of
whose connections have come and gone (`AllGone`), a connection with nothing left
to carry (`Idle`), and a computation that is done (`Shown`, `Distributed`).

Four chips per seat and three values give every shape of level: two players on
one layer, folded chips above everybody's, ties of two and three, odd remainders
for each dealer.

Two players are all that a game of this build holds. `MaxJoins = 2` stands for
the limit of joins per game: a player can come, go, come back and be refused.
`MaxExpired = 1` lets each of the five handlers wait in the queue once, so
that any of them can be stale behind any other. The proofs of section 4 need
neither bound.

A header of two bytes, bodies of one to three and a receive buffer of five let
a read end in a header, in a body and between packets, and a second packet fit
or not; a send buffer of seven overflows on the third packet. Three packets are
enough for one that is being written, one that is appended meanwhile and one
that comes after the swap.

A full deck has too many pairs of hands, so each of the nine decks (`MCDecks`) is
made for categories that meet in it: straights with and without the ace against
flushes, full houses of two triples, three pairs, kickers that tie. Every deal of
two hands over a common board is compared; the chance display is followed card
by card from the hole cards of `MCFollowed`.

Two sessions of one player are what a second login, a rejoin and a late removal
need; a lobby for one makes a return from a game fail. `revived` has room for a
third session and a fuller lobby.

In the `client` run one incident is one player who leaves and comes back. Three
chips, blinds that double with the second hand and two hands give short stacks,
all-ins of both players, a rejoin, and a game that ends. The server goes on when
the client has at most one message (`MaxDown`) of its earlier steps still to come,
so it is up to a step and a whole announcement ahead. The window's timers need no
messages under way: they end before or after any later message is handled, so a
repaint meets the other player's bet, the turn, the player's own timeout and the
next deal in every order.
One request on its way lets it cross the timeout. Seat 0 has the better cards, which shortens nothing but
the ties.

The largest announcement of one step is a new admin, who left and the mode, so
`MaxUnderWay = 3` is the least that lets every step happen; a snapshot and two
changes, or changes before and after a clearing, are then under way at once. One
own game of the watcher (`MaxGames = 1`) is one round of unsubscribing and
subscribing again, which crosses every state of the listed game. The proof of
section 4 needs neither bound.

Three logins are the first one, the one that comes back, and one more that comes
back to the seat the second one left, or meets it. Two answers under way are
the join and the start event of a rejoin; one request lets a removal, an end of
the game or a timeout cross it.

**Fairness** (`FairSpec` of each module, `FairListSpec` of `GameList`). `ServerTable`: weak fairness on
`TimerExpires` (an armed timer expires), on the steps that take a handler off the
queue (the `io_context` keeps running), and on the lobby's periodic
`TimerRemoveGame`. None on players: they may never act, leave or return.
`ServerGame`: the same for `Expire1`, `Expire2`, `HandlerRuns` and
`TimerRemoveGame`; none on players, nor on a running game's end. `ServerLobby`:
a read's packets are processed to their end, and of each session the warning's
timer runs, and the end of its shut down read or one of its timeouts; none on clients, the database, games or
late handlers. `GameList`: the client handles what has arrived, and the server a
subscription request; the latter strongly, because `MaxUnderWay`, which is not in
the code, may hold the server up again and again. None on the listed game, the
login or the watcher's own game. `ClientSession`: the resolver answers or fails, the
timeout of a connection attempt runs, the client handles what it receives; the
server goes on accepting connections, handling what it has read and running its
init timers. None on the player, the download, the database or the game. `ClientTable` claims safety only. `Connection`:
`Transmit` (TCP moves bytes while the connection lasts), `HandleWrite` and
`ReadSome` (both sides run the handlers of what has completed); a connection may
be lost at any time, and need not be.

## 4. What is proved

### The table

For every start stack, blind schedule, time limit and bound
(`SettingsAssumption`, `TableAssumption`), and any number of hands:

- `TypeCorrect`: `Spec => []TypeOK` (no run lists it, since it is proved);
- `ChipsConserved`: `Spec => []ChipConservation`;
- `SetsStayInSync`: `Spec => []SetsInSync`;
- `HandlerIsLive`: `Spec => []OneLiveHandler`;
- `EngineIsSafe`: `Spec => []EngineNeverThrows`;
- `HighestSetHolds`: `Spec => []HighestSetIsHighest`;
- `StakesHold`: `Spec => []StakesInv`, which the client's buttons rely on;
- `DecisionsMatter`: `Spec => []NoPointlessDecision`;
- `PayoutsAreFair`: `Spec => FairPayout`, an action property;
- `LedgerImplemented`: `Spec => LedgerSpec`, the refinement of `ChipLedger`.

None of the state properties but `SetsInSync` is inductive. The invariant is built
in three layers:

    IInv == TypeOK /\ ChipsSound /\ HandSound /\ BetweenHands
    HInv == OneLiveHandler /\ HandlersFit
    EInv == ~hand.error, Highest(hand), and per state what the next handler needs
    TInv == IInv /\ HInv /\ EInv

**The chips** (`ServerTable_proofs`). That the payout returns exactly the pot
depends on the contributions the code computes as `start - cash`: their sum
is the pot only if the stacks at the start of the hand held all chips, no stack
has grown since, and the bets have been moved to the pot. Moving them uses the
cached sum, so the cache must be right as well. The first half of
`ServerTable_proofs` shows operation by operation that the engine keeps `IInv`: each betting operation moves
chips from a stack to a bet or from bets to the pot (`Moves`, `Keeps`), and
`PotLevelsPay` and `PostRiverRunPays` show that the two passes of the level loop
leave exactly nothing in the pot. `NextSound` has one lemma per action.

**The handlers** (`ServerTable_proofs`). That a handler which runs leaves no other
live one behind depends on what can be in the queue. `HandlersFit` says which
handlers each state can find there (behind a player's action, the timeout he beat
may still be queued; a game that is over has only the timer that reopens the
table), and that a live one is always the last: the timer that would queue another
is armed again only when it runs. From this `LoopRunsInGame`: the engine loop never
runs without a game.

**The engine** (`ServerTable_proofs`). A pass that throws,
finds nobody to ask or goes back a round would be a lookup in `runningPlayerList`
that fails, so the invariant follows the turn and that list. `ReadyToPlay(hand)` is
a hand a pass can begin with: somebody is left, whoever does not run has folded or
is all in, and the betting goes on (`BettingGoesOn`) in one of three ways: before
the flop, after it with both running, or after it with the big blind all in and the
small blind to answer. `Decides(hand)` is a hand in which the betting is not settled
and waits for the player whose turn it is. Four lemmas carry the argument:

- `PlayHandPlays`: from `ReadyToPlay`, a pass of the engine does not throw and ends
  with the next round, the hand over (`RoundOver`), or a player who `Decides`;
- `ActedReady`: from `Decides`, any action of that player gives a hand that is
  `ReadyToPlay` again;
- `NewHandReady`: so does dealing to two players with chips, with a positive blind;
- `ActedHasActed` and `LoopHasActed`: before the flop, who has no chips left has acted
  or is all in by his blind (`BrokeHasActed`, which `NewHandReady` starts). With
  `Decides` this is `DecisionsMatter`: nobody is asked once the betting is settled,
  and before the flop nobody whom a blind left without chips. The theorem does not
  say that he has chips: who called, bet or raised all he had is asked again
  (section 6).

That only the player whose turn it is acts is `ActionValid` of the code; that the
blind stays positive is `RaiseBlindsType`; that both have chips is what
`FinishHand` checks before it goes on.

**The payout.** `PotLevelsShares` computes what the two levels pay, and
`PayoutIsFair` compares it with the heads-up rules, folded, better, worse and equal
hand by hand. `HandEnds` adds that no step but the end of the engine loop reaches
`POST_RIVER`. In the refinement of `ChipLedger` asking a player is `Ask`, an action,
a timeout or the closing of the game under a player who was asked is `Wager`, the end
of a hand `Award` or `Close`, the next hand `Blinds`; everything else stutters.

### The life cycle

For any finite set of players, any number of seats from two on, any limit of
joins and any number of expired handlers in the queue (`GameAssumption`):

- `GameTypeCorrect`: `Spec => []TypeOK` (no run lists this type invariant, since
  it is proved);
- `OneAdmin`: `Spec => []AdminIsUnique`;
- `ConfirmationsAreCurrent`: `Spec => []ReadyIsCurrent` (proved, and in no run);
- `GameNeverOverfull`: `Spec => []NeverOverfull`;
- `AdminPassedOn`: `Spec => AdminHandedOver`, an action property;
- `ImplementsGameView`: `Spec => ViewSpec`, the refinement of `GameView`.

`NeverOverfull` is the one that is not inductive. A rejoin looks neither at the
seats nor at the computer players; it is safe because only the seated of the
running game come back, and these had their place when it started. The invariant
adds exactly this:

    SeatsFit == game /\ state = "Running" =>
                   /\ inGame \subseteq seated
                   /\ Cardinality(seated) + computers <= MaxPlayers
    IInv == TypeOK /\ AdminIsUnique /\ ReadyIsCurrent /\ NeverOverfull /\ SeatsFit

`AdminPassedOn` needs `AdminIsUnique`: when the admin goes, the hand-over finds
him by the game's id, and only because flag and id agree is the one who goes the
one who is replaced.

`ImplementsGameView` has one lemma per handler, over lemmas on the operators they
share (`HandOverGoes`: the id passes on only if the admin goes). One step needs
more than `IInv`: the handler that opens a game again after its winner was shown
must not find a new game running. `WinnerShown` says that this handler is armed
or queued at most once, and that until it has run no game is set:

    WinnerShownHolds == Spec => []WinnerShown

### The sessions

For any number of connections, any names and any limits of the lobby and the
games (`LobbyAssumption`):

- `SessionsTypeCorrect`: `Spec => []TypeOK` (no run lists it, since it is proved);
- `SessionsStayFiled`: `Spec => []SessionsFiled`;
- `LobbyNeverOverfull`: `Spec => []LobbyWithinLimit`;
- `RemovalsFindTheirPlayer`: `Spec => []RemovedPlayerGoes`;
- `NobodyRevivedLate`: `Spec => LateEventsReviveNobody`, an action property.

`LobbyWithinLimit` is proved and in no run.

A rejoining login closes the connection its seat had and then moves its own
session into the game. That filing survives this depends on the two being
different sessions, which no state says by itself. The invariant adds why: a
seat's guid is that of its player's login (`SeatGuids`), and a client logs in
with the guid of another login, never with the one it is about to get
(`OldGuids`):

    Sound(server) == server \in ServerType /\ WithinLimit(server)
                       /\ MembersNamed(server) /\ SeatGuids(server)
                       /\ OldGuids(server) /\ \A s \in Sessions : FiledAt(server, s)
    IInv == Sound(server) /\ pending \in SUBSET Sessions
                       /\ \A s \in pending : server.name[s] # NoName

The code's handlers call each other in the middle of moving a session, so the
lemmas are about operators on a server value: `SoundBut(v, s)` is a server in
which all but `s` are filed, `CloseSession`, `MoveSessionToGame` and the others
lead from it back to `Sound`. `NobodyRevivedLate` has a second pass over the
same operators: each leaves alone whoever is `Quiet` (closed and not read from).

### The subscription

`SubscriptionsStayAgreed`: `ListSpec => []SubscriptionsAgree`, for any players and
bounds. The property is inductive once the types of the two flags and of the
queue of requests are known. It is why a client that has subscribed again never
waits for a list the server does not mean to send: a request is sent only when the
client's flag changes, and the server does what the last one says.

`ListStaysCurrent`: `ListSpec => []ListIsCurrent`, under `ListAssumption` (the seats
are a number, and "no entry" is no element of the list); `ListTypeCorrect` gives the
types. `ListIsCurrent` speaks of the element a client will have once it has handled
all that is under way, `Coming`. It is not inductive: whether a snapshot fits what
is in front of it is decided when the client clears its list, long before the
server sends the snapshot. So the invariant remembers

    LInv == GameSound /\ WatcherType /\ SInv /\ NotYetOnline /\ Cleared /\ ComingIsCurrent

- `Cleared`: a request to subscribe again that raced with nothing is the only one
  under way, the server's flag is off, nothing is listed and nothing under way
  would list anything (`Quiet`);
- `NotYetOnline`: before the login nothing was said or asked for;
- `GameSound`: a game object exists only in a running or closed game, so that a
  snapshot never calls an open game started;
- `ComingIsCurrent`: the property without its exception for a `Begin` under way,
  which the proof shows not to be needed.

`After(e, ms)` is a recursive function of the number of messages handled. There is
no induction over them here; its laws (`AfterOneMore`, `AfterFirst`, `AfterMore`,
`AfterQuiet`, `AfterForgets`) are each shown by the least message at which the two
sides would differ (`SmallestNumber`). The first three turn every step of the
specification into one call of `Update`: the server's steps add at the end
(`Announced`), the client's take from the front (`HandledInTurn`), and what is left
is what `Update` makes of an element that was right (`ArrivalsHandled`,
`DeparturesHandled`, `LastMode`, `ListShown`). `AfterForgets` is for the admin who
is away and logs in: his old id vanishes from what is listed, from what is under
way, and so from what is coming.

### The way back to a seat

For any number of connections and any bounds on the messages under way
(`SessionAssumption`):

- `SessionTypes`: `Spec => []TypeOK` (no run lists it, since it is proved);
- `SeatCanBeRejoined`: `Spec => []RejoinPossible`;
- `OfferIsForTheSeat`: `Spec => []OfferHolds`.

Neither property is inductive. They compare the client's file or its offer with the
server's seat, and the two change at different times, so the invariant has to say
what the messages between them can still be:

    Sound(v)   == v \in Servers /\ MembersPlay(v) /\ UnreadFits(v) /\ OneSeat(v)
    SessionInv == ClientFits /\ OthersIdle /\ SeatIsMine /\ OfferUnanswered /\ OfferedSeat
    CInv       == TypeOK /\ Sound(server) /\ OneLogin /\ SessionInv

- `ClientFits`: until the server has taken its login a client can only hear of
  `Early` messages; the answer is the first of the others and comes once.
- `OthersIdle`: once the client's login has been taken no other session of the
  player is in the game, and one whose login is taken later has nothing to ask for,
  since its client is gone and had sent no more than its login.
- `SeatIsMine`: from the moment the server has sent the start of the game the seat
  has the client's guid, so this is what `InitGame` may write to disk.
- `OfferUnanswered` and `OfferedSeat`: between the server's offer and the player's
  answer he has asked for nothing, so he is not in the game, and nobody is given
  his seat.

`OneLogin` is the reason for `doubled` in the properties: unless two sessions of the
player have been established at once, at most one is. The proof separates three
kinds of steps. Most steps of the server are `Quiet`: they take no login of the
client and the client merely hears of them; `QuietStep` shows once that these keep
the invariant, and each handler is shown to be one. Taking the client's own login is
`AcceptsOwn`, and for the client's own steps `ClientMoves` says what is left to show.
`SmallestOfSet` gets the least element of a set of numbers from the well-foundedness
of `<` on `Nat`; `RemoveFirst` needs it.

### The client at the table

For every start stack, blind schedule, time limit, number of hands and number of
messages and requests on their way (`ClientAssumption`):

- `ClientIsSafe`: `ClientSpec => []ClientNeverThrows`;
- `AskedPlayerSees`: `ClientSpec => []AskedSeesTheTable`;
- `OffersHold`: `ClientSpec => []OffersAreAccepted`.

Client and server hardly ever agree: the client may be any number of messages
behind, and a click changes its own copy before the server knows. What is
invariant is what the client *will* show. `View(c)` is what the messages alone
determine of the client's table, `Mine(c)` what a click changes too (the own stack,
the bet to match, the least raise). `Sees(v, m, w)` and `SeesMine` relate the view
before and after a message, `Ends(exact, v, e, ms, w, x)` before and after a
sequence of them. With these

    IsCurrent(v)  == v shows the server's table as it is now (or the client has none)
    AllCurrent    == Ends(FALSE, View(client), e, down, w, x) => IsCurrent(w)
    AllExact      == the same for Mine, unless a request is under way or went astray
    Present       == a closed client is that of a player who is out, and nobody
                     who is out is coming back
    RunsOut       == cards are shown only in a hand in which the betting is closed
    NetInv        == NetTypeOK /\ AllCurrent /\ AllExact /\ Present /\ RunsOut
    ClientInv     == TInv /\ NetInv

`Sees` is a relation in which a message the client does not know what to do with
leads to a view that never becomes current again (`ThrownStays`). So
`ClientNeverThrows` follows from `AllCurrent`: a client that had thrown would end
with such a view. `AskedSeesTheTable` is `AllCurrent` and `AllExact` when nothing
is on its way.

- *The client's steps.* Each handler takes the oldest message as `Sees` and
  `SeesMine` say (`ClientTakes`, one lemma per handler); then what will be seen has
  not changed (`EndsFirst`). A click changes neither the view nor, except for the
  request it sends, anything the server's side depends on (`ClickedView`).
- *The server's steps.* Whatever it sends at once must lead from every view that
  is current before the step to one that is current after it (`KeepsView` for one
  message, `EndsBoth` and `EndsTwo` for more). These lemmas use the engine: a pass
  that asks a player has posted no chips (`PlayerAsked`), one that ends a round has
  moved the bets (`SameBets`), an accepted action does what `ActionDone` says
  (`TurnSeenBy`), and the blinds of a new hand are the bets it starts with
  (`NewHandSeen`).
- *Coming back.* Whoever comes back has no table in his client until he is given
  the ids, dealer and hand number of `GameStartRejoin`; the others learn his new id
  from `PlayerIdChanged`. `RejoinedSeen` goes through the orders in which both
  players can come back in one step.

`down` may be of any length, and `Ends` speaks of the views after each of its
messages as a function on `0..Len(ms)`: its laws cut and join such functions, so
no induction over messages is needed. TLC checks the properties themselves on
the run `client`; `AllCurrent` quantifies over all views and is not for TLC.

`OffersAreAccepted` relates three things: the server's table, the client's, and what
was painted on the buttons. Its invariant adds four parts to `ClientInv`:

    StakesInv == in a hand the least raise is two small blinds or more, and so is
                 the bet to match before the flop (StakesHold, ServerTable_proofs)
    LastTurn  == while the server waits for Me, his turn is the last message under
                 way, and once it is handled he has answered or OfferFits
    OfferFits(t, b) == unless they are only ticked, a check is on the call button only
                 where it is free, a bet or raise only where it is allowed, by one
                 name, with the least amount at least or all chips
    HandNumbers == neither the client nor a message to it is ahead of the server's hand
    RuleKnown == while the server plays the hand of a client that has the full bet rule,
                 this client's request to go all in is under way, was refused, or was
                 taken (WentAllIn)
    OfferInv  == ClientInv /\ StakesInv /\ LastTurn /\ HandNumbers /\ RuleKnown

- *Painting.* Whatever `ProvideMyActions` paints for a player who is asked fits
  (`PaintedFits`), wherever the slider moves the amount (`AmountsFit`,
  `UserStepTurn`). What was painted before, in another mode or for another round,
  does not matter, because the turn is the last message before he acts.
- *Repainting.* The timer that turns up the cards may end after that and offer a check
  or a bet that is not allowed; but it makes the buttons checkable, so that a click
  only ticks them (`OfferFits`). The one button it would leave as it is, the bet
  under the full bet rule, is excluded by `RuleKnown`: the client has this rule only
  after an all-in of its own, and the server does not ask who is all in
  (`AllInStays`, `ServerTable_proofs`).
- *Clicking.* `SetAsks`, `CallAsks` and `AllInAsks` say which request a click makes,
  `BetAccepted`, `CallAccepted` and the like which the server takes; in between
  `BetIsEnough` and `RaiseIsEnough` turn the client's formula for the least amount
  into the server's. Here `AskedSeesTheTable` is needed, and `StakesInv`: a request
  with a bet of 0 would be filled in by the server as something else.

### The connection

For every set of packets, every size of each, and every size of header, buffers and
packets that a receive buffer can hold (`ConnectionAssumption`):

- `ConnectionIsChannel`: `Spec => ChannelSpec`, the refinement of `PacketChannel`;
- `ValidPeerStays`: `Spec => ValidPeerKept`, an action property;
- `TypeCorrect`: `Spec => []TypeOK` (no run lists it, since it is proved).

That the receiver finds the packets depends on its being in step with the sender,
and nothing in the receive buffer says so. The invariant does:

    ConnInv   == TypeOK /\ NothingUnsent(out) /\ StreamInv
    StreamInv == while the session is read, the bytes the receiver may still get
                 (Stream) are frames one after the other, of which only the last may
                 be cut (Framed); as long as the sender is there, none is (Whole)

- *The recursive functions.* `ScanPackets` and `PacketsIn` are recursive functions
  on sequences. That such a definition has a solution is shown by solutions on
  sequences of at most n bytes (`ScanHasSolution`, `CountHasSolution`), from which
  the equations follow (`ScanUnfolds`, `CountUnfolds`). What holds of all sequences
  is shown by the shortest one for which it would not (`LeastNumber`).
- *The scan* (`ScanIsGood`). In a stream that is `Framed` the header in front is
  that of the packet whose first byte is in front (`FrontFrame`), so the scan takes
  out whole frames, and hands on their packets but for a last one that cannot be
  parsed. If all packets are acceptable it goes on to the end, and leaves less than
  a frame, which is less than the buffer holds.
- *The steps.* Swapping the buffers, a write and its completion leave `Stream` as it
  is (`SameStream`); `Send` adds a whole frame or nothing; a read takes whole frames
  off the front (`HandleReadStep`); a lost connection cuts off the end
  (`ConnectionLostStep`). Each is a step of the channel or a stutter.

### The pot and the showdown

For every number of seats from two on, all contributions and hands, and any
`ShareUnit` that 1 to `N` divide (`PotAssumption`, which `N` factorial satisfies):

- `SharesStayExact`: `Spec => []SharesAreExact`;
- `ShowdownIsComplete`: `Spec => []AllInTheHandShow`.

`SharesAreExact` speaks mostly of the end of the loop. The invariant says how far the
loop has got:

    PotInv == /\ PotType
              /\ LevelsUseSeats   every level has used up a seat's contribution
              /\ ChipsAreThere    no chip is lost; what is carried over has a taker
              /\ for some a: LayersGone(a)  a layers have been distributed, and
                             Accounted(a)   won and Owed make up these layers' shares
              /\ EqualsAreNear    equal claims have got the same, but for odd chips

- *Carried-over chips* are not won by anybody yet: they count as `Owed` to the best
  hands still in. The level that finally pays them has the same winners
  (`LayersOfLevel`: all layers of a level have the same owners, and the level's
  winners are they).
- *Odd chips.* A level's shares miss the exact ones by less than a chip
  (`SharesAreNear`), so `N` levels would allow a difference of `N` chips;
  `LayersAreShared` claims `N - 1`. `OddLevels` finds the level to spare: in the last
  level of the last contender either he is alone and takes all, without odd chips, or
  two seats are used up at once and there is a level less (`TwoAtOnce`,
  `OddLevelsGrow`). `EqualsAreNear` counts in the same way.
- *Sums.* `Total` is a fold over the seats. Like the recursive functions of the
  connection, it is shown to be what it should be by solutions on subsets
  (`SumHasSolution`); a lemma fails for a smallest set or not at all
  (`NumbersByInduction`, `SetsByInduction`, stated for sets instead of operators).
- *Who shows* does not change during the loop: that everybody left in the hand does
  follows from a fold over the seats, from the first to show round the table
  (`RoundTheTable`, `VisitShows`): a visit to a seat that has not folded makes it show,
  because it adds a hand to the levels or through the code's last branch.

### Only model-checked

The liveness properties, which are beyond the prover; everything about
`CardsValue`; of `ServerLobby` what is not named above; of `ClientTable` the action property `RememberedActionAsShown`, which needs to
know how the messages of a round are ordered. What `CardsValue` computes for all
decks is a question about thousands of combinations of cards, not about
interleavings, and better left to enumeration.

## 5. What is not modelled

Computer players at the table: at this commit `localplayer.cpp` is not a program
from line 1549 on. `preflopEngine` ends there, the head of `flopEngine` is
missing and its body stands outside any function up to line 1799, and
`flopEngine3` ends (lines 4413 to 4458) with a copy of `preflopEngine`'s last
part, whose `bet` and `raise` it does not declare. What these engines should do
cannot be read from the code, so `TimerComputerAction` is not an action; the
functions before them (`checkMyAction`) are modelled.

On the server: chat, invitations, reports and statistics only send messages or
write to the database; votes need three players in a game, which this build does
not hold; ranking, the database itself and the authentication exchange; the ban
manager and the list of bad names (`ServerLobby` lets any login be refused at any
time); the packet validator, which looks at one packet at a time; bots, IRC and
the chat cleaner, which never touch a game; the WebSocket transport. The vectors
of the send buffer grow by doubling; only their limit decides anything.

On the client: what is in the server list, the exchange of the password (no
`SetState` leads to the states that would wait for a challenge), the data of the
other players, avatars, chat and the cards shown after a hand; the local game against computer
players. Of the table's window, everything that only paints, the repaint of the
buttons when the settings are changed (`gametableimpl.cpp:607`), the automatic
playing modes (they click at once, as the user may), keyboard shortcuts and the
guard against accidental calls (it ignores clicks for a moment). All other
windows, the log and the configuration file.

## 6. Findings

Each is a comment in the code that a run refutes.

1. `TurnPasses` (`src/engine/local_engine/localbero.cpp:106`): after the flop
   the block that sets the turn to the player before the big blind is repeated
   on every pass while `firstRound` is true, so the big blind is asked again and
   again. As long as he checks, the hand does not go on.
2. `ClosedStaysClosed` (`asioreceivebuffer.cpp:174`): packets received behind the
   one that closed the session are handled, and the lobby takes a closed session
   for an established one: it moves it into a game.

Observations that follow from the models and that no run states. On the server:

- A call with an amount, when there is nothing to call, is accepted because the
  amount "is irrelevant" (`localplayer.cpp:1073`); it is paid in and raises.
- Without a time limit the hand waits for ever for a player who left while he was
  asked (`servergamestate.cpp:1019`).
- Who joins after the last player has left and before the lobby has removed the
  game finds no admin (`servergame.cpp:1021`).
- The next hand seats a rejoining player whether or not his client has confirmed
  the start (`servergamestate.cpp:1429`); a client that is still synchronizing
  drops the game it is sent (`clientstate.cpp:1408`) and stays without it.
- A list sent while a game waits for its players' confirmations calls it open
  (`serverlobbythread.cpp:2686` asks whether the game object exists), and nothing
  corrects this while it runs; a join is refused then. `ListIsCurrent` claims only
  that no open game is called started.
- An automatic start that has expired runs after a player has left, and does not
  count (`servergamestate.cpp:600`).
- A game closed by an error is listed until the next `TimerRemoveGame`; who joins
  it is neither in the lobby nor in the game and gets no answer
  (`serverlobbythread.cpp:404`); a removal does not find him either (`Limbo`).
- A rejoining login drops the connection of the id the seat had in the last hand,
  not that of his name (`serverlobbythread.cpp:1895`): after a second rejoin in
  one hand two sessions of one player are established.
- A session that is still sending its avatar is not found by name, so a second
  login of the same player is not noticed.
- Kicking a player clears the guid of the seat with his session's id
  (`servergame.cpp:173`), which for a player who has rejoined in this hand is not
  his seat's.
- A revived session can exceed the total number of sessions.
- A packet under way while the game sends its player back to the lobby closes the
  session, since it is not for the lobby (`serverlobbythread.cpp:1038`).
- The number of the hand in a request is not compared (`servergamestate.cpp:1566`):
  a late request may be taken in a later hand of the same round.
- Everybody who has not folded shows at a showdown.
- With three seats a folded player's excess is a level of its own, so two odd
  chips of one pot can go to the same winner (a tie over four chips may be paid 3
  to 1). It cannot happen heads up.
- A call, bet or raise of exactly the whole stack does not make the player all in
  (`localplayer.cpp:1080`); he stays in the betting and is asked to act without
  chips.
- `TimerAdminTimeout` (`servergamestate.cpp:627`) removes the admin of its own
  moment: one who has just become the admin can be removed by the timeout that
  was queued for his predecessor, without the warning.
- The auto leave flag is stored for refused joins too and is not taken back when
  the player leaves (`serverlobbythread.cpp:407`).
- The sender accepts any packet that fits `MAX_SEND_BUF_SIZE`, while the receiver
  closes the session on one above `MAX_PACKET_SIZE`. A frame that does not fit
  the send buffer is dropped silently.
- A packet that cannot be parsed ends the scan, and a complete packet behind it is
  not handled until more bytes come (`asioreceivebuffer.cpp:141`, `166`).
- A kicked player's seat has an empty guid, and so has a login that named none: he
  can rejoin after all (`servergame.cpp:168`, `servergamestate.cpp:843`).
- Of two sessions of one player that both wait to be seated again the one that
  joined last gets the seat, be it the older and dead one; the newer one then
  cannot come back. `RejoinPossible` and `OfferHolds` except this (`doubled`).
- On the official server the login of a connection that is already dead may remove
  the live session of the same player, as it looks only at the name.
- Who was in an invite-only game is always refused when he rejoins
  (`serverlobbythread.cpp:1534`).
- "Receive buf full" cannot happen for a peer within the limits as long as
  `RECV_BUF_SIZE >= MAX_PACKET_SIZE + NET_HEADER_SIZE` (`ValidPeerKept`).

On the client:

- An exception thrown while a state is entered is swallowed
  (`clientthread.cpp:1160` to `1188`): the thread rests in its final state and
  tells nobody. A cached list of servers that turns out bad is therefore not
  deleted, as `clientthread.cpp:604` would, and is used until it is a day old.
- An error the server reports is shown as a lost connection, because the receive
  buffer catches what the handler throws and closes the session
  (`clientstate.cpp:914`).
- While it synchronizes it ignores the start of a rejoined game, so the guid in
  its file stays the old one.
- When it clears its list while changes, or its own unsubscribe request, are
  still under way (a removal from its game right after it has synchronized), it
  may insert a game by an old message and then keep that element, since `insert`
  leaves what is there (`clientthread.cpp:1037`, `1525`): the list can stay stale,
  or show a game that is closed, until it is cleared again. `ListIsCurrent`
  excepts exactly this (`raced`).
- It has no handler for the reject message: what a refused click changed in its
  table is not undone. A bet button of the next round may then act at once, and
  after a refused all-in no button appears.
- A second click before the server's answer sends a second request. A raise
  clicked twice can be taken twice, when the other player answers in between, and
  then stakes the whole stack as a raise: the player is not all in, is asked again
  without a chip, and what his buttons offer besides fold and check is refused.
  `OffersAreAccepted` excepts a player without chips. (The proof showed this; with
  the stacks of 3 of the run `client` it cannot happen, with 10 TLC finds it after
  38 states.)
- An amount typed into the bet field is rounded to the slider's step when the
  button is painted again, also while it is ticked (`gametableimpl.cpp:3194`).
- After the flop a check or a bet of a player who is asked again blanks his
  buttons (`gametableimpl.cpp:1484`), which together with finding 1 leaves him
  without any.
- The timers that turn up the cards may end after the other player has bet
  (`gametableimpl.cpp:1371`, `1417`, `1464`), since messages may be late and nothing
  stops the timers. The buttons then say "Check", "Check / Fold" and "Bet" as if
  nobody had bet. Who ticks "Check" there pays the bet when his turn comes: the label
  becomes "Call" while `meInAction` paints, where the comment promises to "uncheck a
  previous checked button to prevent unwanted action" (`gametableimpl.cpp:1573`), but
  the tick was taken off the screen at its beginning and the memory is kept.
  `RememberedActionAsShown` excepts these repaints (`repaint` is "late").
- When they end after the player himself was asked, his buttons become checkable:
  his clicks only tick and nothing is sent, so unless he is asked again he runs into
  the timeout. `OffersAreAccepted` speaks of the buttons that act.
- After a rejoin the client counts the blinds from the first one again; the first
  bet it offers may be below the server's minimum. `OffersAreAccepted` excepts
  this too.

## 7. Plan

Done: the hand, the pot, the showdown, the cards, the blinds, the table, the chip
ledger, the life cycle, the sessions and the lobby, the connection and the packet
channel, the client at the table with its buttons, the game list, the way into a session and
back to a seat; the proofs of section 4. Next,
in this order:

1. Proofs: `RememberedActionAsShown` of `ClientTable`.
2. The ban manager, as a component of `ServerLobby`'s login.
