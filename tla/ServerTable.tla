----------------------------- MODULE ServerTable -----------------------------
(***************************************************************************)
(* A running game on the server: the states Hand, WaitPlayerAction and     *)
(* WaitNextHand of ServerGame (src/src/net/servergamestate.cpp) driving    *)
(* the poker engine, the timer and the packets they react to, and players  *)
(* who leave, are kicked and come back.                                    *)
(*                                                                         *)
(* All handlers run one at a time, on the thread of the io_context, in the *)
(* order in which they become ready.  The game owns one state timer: timer *)
(* is the handler it is armed with, ready the handlers that have expired   *)
(* and not run yet.  Cancelling or re-arming the timer does not take back  *)
(* a handler that is already in ready.                                     *)
(*                                                                         *)
(* A behaviour is one game, from its first hand (StartGame's DoStart) to   *)
(* its end: state Init when it is over, Final when the server closed it.   *)
(***************************************************************************)
EXTENDS HandEngine, BlindSchedule

CONSTANTS
    ActionTimeout,  \* playerActionTimeoutSec > 0; a LAN game may have 0
    MaxBet,         \* bound: the largest myRelativeBet a client sends
    MaxIncidents    \* bound: how often players leave, go idle or reset their
                    \* timeout during the game

ASSUME TableAssumption ==
    /\ ActionTimeout \in BOOLEAN
    /\ MaxBet \in Nat
    /\ MaxIncidents \in Nat

VARIABLES
    hand,        \* Game::currentHand, with the players and the board
    blinds,      \* Game's blind schedule
    game,        \* ServerGame::m_game is set
    state,       \* ServerGame::m_curState
    timer,       \* the handler m_stateTimer1 is armed with
    ready,       \* expired handlers the io_context has not run yet
    link,        \* per seat: session "in" the game under the player's id,
                 \* "pending" under a new id until the next hand, or "out"
    guid,        \* per seat: "own" (the player can show it), "none" (empty)
                 \* or "lost" (the player holds a newer one)
    kicked,      \* per seat: PlayerInterface::isKicked
    active,      \* per seat: isSessionActive
    rejoin,      \* seats in m_rejoinPlayerList
    reactivate,  \* seats in m_reactivatePlayerList
    incidents    \* how often players left, went idle or reset so far

vars == <<hand, blinds, game, state, timer, ready, link, guid, kicked, active,
          rejoin, reactivate, incidents>>
players == <<link, guid, kicked, active, rejoin, reactivate, incidents>>

States == {"Hand", "WaitPlayerAction", "WaitNextHand", "Init", "Final"}
Running == {"Hand", "WaitPlayerAction", "WaitNextHand"}
Handlers == {"Loop", "ShowCards", "NextGame", "Timeout", "NextHand"}

\* The state whose IsCurrentState check lets a handler act.
StateOf(handler) ==
    CASE handler = "Timeout" -> "WaitPlayerAction"
      [] handler = "NextHand" -> "WaitNextHand"
      [] OTHER -> "Hand"

\* The three ways two hands can compare.
Deals == {v \in [Seats -> CardValues] : v[0] = 1 \/ v[1] = 1}

TypeOK ==
    /\ hand \in HandType
    /\ blinds \in ScheduleType
    /\ game \in BOOLEAN
    /\ state \in States
    /\ timer \in Handlers \cup {"none"}
    /\ ready \in Seq(Handlers)
    /\ link \in [Seats -> {"in", "pending", "out"}]
    /\ guid \in [Seats -> {"own", "none", "lost"}]
    /\ kicked \in [Seats -> BOOLEAN]
    /\ active \in [Seats -> BOOLEAN]
    /\ rejoin \in SUBSET Seats
    /\ reactivate \in SUBSET Seats
    /\ incidents \in 0..MaxIncidents

\* InternalStartGame and the first StartNewHand: the start dealer is drawn.
Init ==
    /\ \E dealer \in Seats, value \in Deals :
          hand = NewHand(EmptyHand(StartCash), dealer, FirstSmallBlind, value)
    /\ blinds = FirstBlinds
    /\ game = TRUE
    /\ state = "Hand"
    /\ timer = "Loop"
    /\ ready = << >>
    /\ link = [s \in Seats |-> "in"]
    /\ guid = [s \in Seats |-> "own"]
    /\ kicked = [s \in Seats |-> FALSE]
    /\ active = [s \in Seats |-> TRUE]
    /\ rejoin = {}
    /\ reactivate = {}
    /\ incidents = 0

(***************************************************************************)
(* The state machine and its timer                                         *)
(***************************************************************************)

\* Exit of the old state cancels the timer, Enter of the new one arms it.
SetState(new) ==
    /\ state' = new
    /\ timer' = CASE new = "Hand" -> "Loop"
                  [] new = "WaitPlayerAction" /\ ActionTimeout -> "Timeout"
                  [] new = "WaitNextHand" -> "NextHand"
                  [] OTHER -> "none"

StayWith(handler) == state' = state /\ timer' = handler

\* The timer expires: its handler joins the queue of the io_context.
TimerExpires ==
    /\ timer # "none"
    /\ ready' = Append(ready, timer)
    /\ timer' = "none"
    /\ UNCHANGED <<hand, blinds, game, state>> /\ UNCHANGED players

\* The io_context runs the oldest handler, in the state it is meant for.
Runs(handler) ==
    /\ ready # << >>
    /\ Head(ready) = handler
    /\ state = StateOf(handler)
    /\ ready' = Tail(ready)

\* A handler whose state was left in the meantime does nothing.
StaleHandler ==
    /\ ready # << >>
    /\ state # StateOf(Head(ready))
    /\ ready' = Tail(ready)
    /\ UNCHANGED <<hand, blinds, game, state, timer>> /\ UNCHANGED players

\* ServerGame::RemoveAllSessions: every session is closed.
RemoveAllSessions ==
    /\ SetState("Final")
    /\ link' = [s \in Seats |-> "out"]
    /\ rejoin' = {}
    /\ UNCHANGED <<blinds, game, guid, kicked, active, reactivate, incidents>>

(***************************************************************************)
(* ServerGameStateHand::TimerLoop and EngineLoop; h is the hand after the  *)
(* engine's pass.                                                          *)
(***************************************************************************)

EngineFails(h) ==
    \/ ~game
    \/ h.error
    \/ h.round < hand.round
    \/ h.round = POST_RIVER /\ NonFold(h) = {}
    \/ /\ h.round = hand.round
       /\ h.round # POST_RIVER
       /\ h.allIn \/ h.turn = NoSeat

\* An exception closes the game; without a Game object the engine does not run.
EngineThrows(h) ==
    /\ EngineFails(h)
    /\ hand' = Throw(IF game THEN h ELSE hand)
    /\ RemoveAllSessions

\* A new round: its cards are dealt, all-in players first show their hands.
DealRound_Forget(h) ==
    LET show == h.allIn /\ ~h.shown /\ NonFold(h) = Seats
    IN /\ ~EngineFails(h)
       /\ h.round # hand.round /\ h.round # POST_RIVER
       /\ hand' = [h EXCEPT !.shown = @ \/ show]
       /\ StayWith(IF show THEN "none" ELSE "Loop")
       /\ UNCHANGED <<blinds, game>> /\ UNCHANGED players

DealRound(h) ==
    LET show == h.allIn /\ ~h.shown /\ NonFold(h) = Seats
    IN /\ ~EngineFails(h)
       /\ h.round # hand.round /\ h.round # POST_RIVER
       /\ hand' = [h EXCEPT !.shown = @ \/ show]
       /\ StayWith(IF show THEN "ShowCards" ELSE "Loop")
       /\ UNCHANGED <<blinds, game>> /\ UNCHANGED players

Absent(s) == link[s] # "in" \/ ~active[s]

\* "If the player we are waiting for left, continue without him."
SkipAbsent(h) ==
    /\ ~EngineFails(h)
    /\ h.round = hand.round /\ h.round # POST_RIVER
    /\ Absent(h.turn)
    /\ hand' = PerformPlayerAction(h, h.turn, "fold", 0)
    /\ StayWith("Loop")
    /\ UNCHANGED <<blinds, game>> /\ UNCHANGED players

AskPlayer(h) ==
    /\ ~EngineFails(h)
    /\ h.round = hand.round /\ h.round # POST_RIVER
    /\ ~Absent(h.turn)
    /\ hand' = h
    /\ SetState("WaitPlayerAction")
    /\ UNCHANGED <<blinds, game>> /\ UNCHANGED players

\* ServerGame::RemoveDisconnectedPlayers: who cannot come back loses his chips.
Unreachable_Any(s) == link[s] # "in"
Unreachable(s) == link[s] # "in" /\ (kicked[s] \/ guid[s] = "none")

(***************************************************************************)
(* The hand is over: the pot is paid out, players who are gone for good    *)
(* are removed, and the number of players with chips decides how the game  *)
(* goes on.  InternalEndGame drops m_game; with one winner the table is    *)
(* reopened after a delay, in which the state is still Hand.               *)
(***************************************************************************)
FinishHand(h) ==
    LET paid == PostRiverRun(h)
        cash == [s \in Seats |-> IF Unreachable(s) THEN 0 ELSE paid.cash[s]]
        rich == {s \in Seats : cash[s] > 0}
    IN /\ ~EngineFails(h)
       /\ h.round = POST_RIVER
       /\ hand' = [paid EXCEPT !.cash = cash]
       /\ guid' = [s \in Seats |-> IF Unreachable(s) THEN "none" ELSE guid[s]]
       /\ active' = [s \in Seats |-> active[s] /\ link[s] = "in"]
       /\ game' = (rich = Seats)
       /\ \/ rich = Seats /\ SetState("WaitNextHand")
          \/ rich = {} /\ SetState("Init")
          \/ rich \notin {Seats, {}} /\ StayWith("NextGame")
       /\ UNCHANGED <<blinds, link, kicked, rejoin, reactivate, incidents>>

EngineLoop ==
    LET h == PlayHand(hand)
    IN \/ EngineThrows(h)
       \/ DealRound(h)
       \/ SkipAbsent(h)
       \/ AskPlayer(h)
       \/ FinishHand(h)

TimerLoop == Runs("Loop") /\ EngineLoop

\* The cards of the new round follow the all-in players' cards.
TimerShowCards ==
    /\ Runs("ShowCards")
    /\ StayWith("Loop")
    /\ UNCHANGED <<hand, blinds, game>> /\ UNCHANGED players

\* The table is open for a new game.
TimerNextGame ==
    /\ Runs("NextGame")
    /\ SetState("Init")
    /\ UNCHANGED <<hand, blinds, game>> /\ UNCHANGED players

(***************************************************************************)
(* ServerGameStateWaitPlayerAction                                         *)
(***************************************************************************)

\* "Player did not act fast enough. Act for him."
TimerTimeout_FoldOnly ==
    /\ Runs("Timeout")
    /\ IF hand.highestSet = hand.set[hand.turn]
       THEN UNCHANGED <<hand, state, timer>>
       ELSE /\ hand' = PerformPlayerAction(hand, hand.turn, "fold", 0)
            /\ SetState("Hand")
    /\ UNCHANGED <<blinds, game>> /\ UNCHANGED players

TimerTimeout ==
    /\ Runs("Timeout")
    /\ hand' = PerformPlayerAction(hand, hand.turn,
                  IF hand.highestSet = hand.set[hand.turn] THEN "check" ELSE "fold", 0)
    /\ SetState("Hand")
    /\ UNCHANGED <<blinds, game>> /\ UNCHANGED players

(***************************************************************************)
(* A MyActionRequestMessage of a player whose id the game knows.  The      *)
(* message names a round; a request for another round, out of turn or not  *)
(* allowed is answered with a reject message and changes nothing.          *)
(***************************************************************************)
ActionValid(s, round, request) ==
    /\ round = hand.round
    /\ s = hand.turn
    /\ CheckMyAction(hand, s, request.action, request.bet)

MyActionRequest_RunsEngine(s, round, action, bet) ==
    LET request == FillIn(hand, s, action, bet)
        acted == PerformPlayerAction(hand, s, request.action, request.bet)
        h == PlayHand(acted)
    IN /\ state = "WaitPlayerAction"
       /\ link[s] = "in"
       /\ ActionValid(s, round, request)
       /\ ~h.error /\ h.round = hand.round /\ h.turn # NoSeat
       /\ hand' = h
       /\ SetState("WaitPlayerAction")
       /\ active' = [active EXCEPT ![s] = TRUE]
       /\ UNCHANGED <<blinds, game, ready, link, guid, kicked, rejoin, reactivate, incidents>>

MyActionRequest_AnyPlayer(s, round, action, bet) ==
    LET request == FillIn(hand, s, action, bet)
    IN /\ state = "WaitPlayerAction"
       /\ link[s] = "in"
       /\ round = hand.round
       /\ CheckMyAction(hand, s, request.action, request.bet)
       /\ hand' = PerformPlayerAction(hand, s, request.action, request.bet)
       /\ SetState("Hand")
       /\ active' = [active EXCEPT ![s] = TRUE]
       /\ UNCHANGED <<blinds, game, ready, link, guid, kicked, rejoin, reactivate, incidents>>

MyActionRequest(s, round, action, bet) ==
    LET request == FillIn(hand, s, action, bet)
    IN /\ state = "WaitPlayerAction"
       /\ link[s] = "in"
       /\ ActionValid(s, round, request)
       /\ hand' = PerformPlayerAction(hand, s, request.action, request.bet)
       /\ SetState("Hand")
       /\ active' = [active EXCEPT ![s] = TRUE]
       /\ UNCHANGED <<blinds, game, ready, link, guid, kicked, rejoin, reactivate, incidents>>

\* A rejoined session's id is unknown to the game until the next hand: its
\* action request throws ERR_NET_UNKNOWN_PLAYER_ID, which closes the game.
UnknownPlayerAction(s) ==
    /\ state = "WaitPlayerAction"
    /\ link[s] = "pending"
    /\ RemoveAllSessions
    /\ UNCHANGED <<hand, ready>>

(***************************************************************************)
(* ServerGameStateWaitNextHand::TimerTimeout and StartNewHand: inactive    *)
(* players who asked for it are active again, rejoined sessions take their *)
(* seats, players who were idle for too long are marked inactive and then  *)
(* kicked, and the next hand is dealt.  How long a player was idle is an   *)
(* input, except that one who was just reactivated was not.                *)
(***************************************************************************)
TimerNextHand(idle, forced, minutesUp, value) ==
    LET back == reactivate \cup rejoin
        raised == RaiseBlinds(blinds, minutesUp)
    IN /\ Runs("NextHand")
       /\ idle \subseteq Seats \ back
       /\ idle # {} => ActionTimeout /\ incidents < MaxIncidents
       /\ incidents' = IF idle = {} THEN incidents ELSE incidents + 1
       /\ forced \subseteq idle
       /\ minutesUp => ~RaiseOnHands
       /\ active' = [s \in Seats |-> s \notin idle /\ (active[s] \/ s \in back)]
       /\ kicked' = [s \in Seats |-> kicked[s] \/ s \in forced]
       /\ guid' = [s \in Seats |-> IF s \in rejoin THEN "own"
                                   ELSE IF s \in forced THEN "none" ELSE guid[s]]
       /\ link' = [s \in Seats |-> IF s \in rejoin THEN "in"
                                   ELSE IF s \in forced THEN "out" ELSE link[s]]
       /\ rejoin' = {}
       /\ reactivate' = {}
       /\ blinds' = raised
       /\ hand' = NewHand(hand, Other(hand.dealer), raised.small, value)
       /\ SetState("Hand")
       /\ UNCHANGED game

(***************************************************************************)
(* Players come and go                                                     *)
(***************************************************************************)

\* AbstractServerGameStateRunning: a ResetTimeoutMessage.
ResetTimeout(s) ==
    /\ state \in Running
    /\ link[s] = "in"
    /\ s \notin reactivate
    /\ incidents < MaxIncidents
    /\ incidents' = incidents + 1
    /\ reactivate' = reactivate \cup {s}
    /\ UNCHANGED <<hand, blinds, game, state, timer, ready, link, guid, kicked,
                   active, rejoin>>

\* A player leaves or loses the connection.  One who has to log in again
\* gets a new guid; the game learns it only when his rejoin is performed.
LeaveGame(s, relogin) ==
    /\ state \in Running
    /\ link[s] # "out"
    /\ incidents < MaxIncidents
    /\ link' = [link EXCEPT ![s] = "out"]
    /\ guid' = [guid EXCEPT ![s] =
                  IF link[s] = "pending" /\ relogin /\ @ = "own" THEN "lost" ELSE @]
    /\ rejoin' = rejoin \ {s}
    /\ incidents' = incidents + 1
    /\ UNCHANGED <<hand, blinds, game, state, timer, ready, kicked, active, reactivate>>

\* AbstractServerGameStateRunning::HandleNewPlayer: the guids must match.  A
\* kicked player's is empty, as is that of a session which never had one.
RejoinGame(s, sameSession) ==
    /\ state \in Running
    /\ game
    /\ link[s] = "out"
    /\ guid[s] = "own" \/ (guid[s] = "none" /\ kicked[s])
    /\ sameSession => guid[s] = "none"
    /\ link' = [link EXCEPT ![s] = IF sameSession THEN "in" ELSE "pending"]
    /\ rejoin' = rejoin \cup {s}
    /\ UNCHANGED <<hand, blinds, game, state, timer, ready, guid, kicked,
                   active, reactivate, incidents>>

TimerRemoveGame_BetweenHands ==
    /\ state = "WaitNextHand"
    /\ \A s \in Seats : link[s] = "out"
    /\ RemoveAllSessions
    /\ UNCHANGED <<hand, ready>>

\* ServerLobbyThread::TimerRemoveGame: a game without sessions is removed.
TimerRemoveGame ==
    /\ state \in Running
    /\ \A s \in Seats : link[s] = "out"
    /\ RemoveAllSessions
    /\ UNCHANGED <<hand, ready>>

\* The game is over; nothing of it is left to run.
GameOver ==
    /\ state \notin Running
    /\ ready = << >>
    /\ UNCHANGED vars

Next ==
    \/ TimerExpires
    \/ StaleHandler
    \/ TimerLoop
    \/ TimerShowCards
    \/ TimerNextGame
    \/ TimerTimeout
    \/ \E idle, forced \in SUBSET Seats, minutesUp \in BOOLEAN, value \in Deals :
          TimerNextHand(idle, forced, minutesUp, value)
    \/ \E s \in Seats, round \in Rounds, action \in Actions, bet \in 0..MaxBet :
          MyActionRequest(s, round, action, bet)
    \/ \E s \in Seats : UnknownPlayerAction(s)
    \/ \E s \in Seats : ResetTimeout(s)
    \/ \E s \in Seats, relogin \in BOOLEAN : LeaveGame(s, relogin)
    \/ \E s \in Seats, sameSession \in BOOLEAN : RejoinGame(s, sameSession)
    \/ TimerRemoveGame
    \/ GameOver

Spec == Init /\ [][Next]_vars

\* The io_context runs a handler: a step that takes one off the queue.  Such a
\* step is possible whenever a handler is queued.
HandlerRuns == ready # << >> /\ ready' = Tail(ready)

\* The io_context goes on: armed timers expire, queued handlers are run, and the
\* lobby's periodic timer keeps looking for empty games.  There is no fairness
\* on players: they may never act, leave or come back.
FairSpec ==
    /\ Spec
    /\ WF_vars(TimerExpires)
    /\ WF_ready(HandlerRuns)
    /\ WF_vars(TimerRemoveGame)

(***************************************************************************)
(* Properties                                                              *)
(***************************************************************************)

\* While a game is on, every chip is in a stack, in a bet or in the pot: the
\* blinds, betting (PerformPlayerAction), collectPot and distributePot neither
\* create nor destroy chips.
ChipConservation ==
    game => hand.cash[0] + hand.cash[1] + hand.set[0] + hand.set[1] + hand.pot
              = 2 * StartCash

\* LocalBoard's cached sum of the bets, which collectPot moves to the pot, is
\* never stale when it is used.
SetsInSync == game => hand.sets = hand.set[0] + hand.set[1]

\* The betting round's highestSet, which decides what a call costs, whether a
\* check is allowed and when the round is over, is the highest bet on the
\* table; before the flop it is at least the big blind.
HighestSetIsHighest ==
    game => /\ \A s \in Seats : hand.set[s] <= hand.highestSet
            /\ hand.round # PREFLOP =>
                  \E s \in Seats : hand.highestSet = hand.set[s]

\* No sequence of actions, timeouts and departures makes the engine throw (a
\* player not found in a list, a round that went backwards, a pot without a
\* winner): exceptions close the game for everybody.
EngineNeverThrows == ~hand.error

\* Nobody is asked to act once the betting is settled: both are still in the
\* hand, he is one of the running players, and if his opponent is all in he has
\* not matched the bet yet.  He need not have chips: who called, bet or raised
\* all he had is not taken for all in (PerformPlayerAction keeps the name of the
\* action) and is asked again.  But before the flop he has then acted himself:
\* whom a blind left without chips is all in and never asked.
NoPointlessDecision ==
    state = "WaitPlayerAction" =>
        /\ hand.turn \in hand.running
        /\ NonFold(hand) = Seats
        /\ ~hand.allIn
        /\ hand.action[Other(hand.turn)] = "allin" =>
              hand.set[hand.turn] < hand.highestSet
        /\ hand.round = PREFLOP /\ hand.cash[hand.turn] = 0 =>
              hand.action[hand.turn] # "none"

\* Exactly one handler is armed or queued that will act in the current state,
\* and none while the game waits for a player without a time limit or is over.
\* With two, a stale timeout would act for a player who has only just been
\* asked, or a hand would be dealt twice; with none, the table would hang.
OneLiveHandler ==
    LET live == {i \in 1..Len(ready) : StateOf(ready[i]) = state}
        armed == timer # "none"
        wanted == state \in Running /\ (state = "WaitPlayerAction" => ActionTimeout)
    IN /\ armed => StateOf(timer) = state
       /\ \A i, j \in live : i = j
       /\ wanted <=> (armed \/ live # {})
       /\ ~(armed /\ live # {})

\* What heads-up rules give a player at the end of a hand.
FairStack(h, s) ==
    LET paid(p) == h.start[p] - h.cash[p]
        o == Other(s)
        matched == IF paid(s) <= paid(o) THEN paid(s) ELSE paid(o)
    IN IF h.action[s] = "fold" THEN h.cash[s]
       ELSE IF h.action[o] = "fold" THEN h.start[s] + paid(o)
       ELSE IF h.value[s] > h.value[o] THEN h.start[s] + matched
       ELSE IF h.value[s] < h.value[o] THEN h.start[s] - matched
       ELSE h.start[s]

\* The hand ends with the stacks the rules give: the better hand wins exactly
\* what the other player matched, ties get their bets back, who folded loses
\* what he paid.  Only a player who is gone and cannot rejoin (kicked, or no
\* guid) loses his stack; a lost connection costs nothing.
FairPayout ==
    [][(hand.round # POST_RIVER /\ hand'.round = POST_RIVER /\ ~hand'.error) =>
          \A s \in Seats :
             hand'.cash[s] = IF link[s] # "in" /\ (kicked[s] \/ guid[s] = "none")
                             THEN 0 ELSE FairStack(hand, s)]_vars

\* The server implements the chip ledger.
Ledger == INSTANCE ChipLedger WITH
    Total <- 2 * StartCash,
    stack <- hand.cash,
    pot <- hand.pot + hand.set[0] + hand.set[1],
    asked <- IF state = "WaitPlayerAction" THEN hand.turn ELSE 2,
    open <- game
LedgerSpec == Ledger!LedgerSpec

\* With a time limit, the server never waits for a player for ever.
AskedPlayerServed ==
    (state = "WaitPlayerAction") ~> (state # "WaitPlayerAction")

\* Once the all-in condition holds, the remaining rounds are dealt and the pot
\* is paid out without anybody's help.
AllInRunsOut == (hand.allIn /\ state = "Hand") ~> (hand.round = POST_RIVER \/ state = "Final")

\* A game that everybody has left, in whatever state it is (waiting for one of
\* them, between hands, with a timer running), does not stay in the lobby.
AbandonedGameRemoved ==
    (\A s \in Seats : link[s] = "out")
       ~> (state \notin Running \/ \E s \in Seats : link[s] # "out")

(***************************************************************************)
(* What the repository says and the code does not do                       *)
(***************************************************************************)

\* "heads up: bigBlind begins" (localbero.cpp:142), then "determine next
\* running player" (localbero.cpp:223): after the flop the turn passes to the
\* other player while both can still bet.  LocalBeRo::run starts its first
\* round over each time, so the big blind is asked again and again.
TurnPasses ==
    [][(/\ state = "Hand" /\ state' = "WaitPlayerAction"
        /\ hand.round \in {FLOP, TURN, RIVER} /\ hand'.round = hand.round
        /\ hand.turn # NoSeat /\ hand'.running = Seats)
          => hand'.turn # hand.turn]_vars
=============================================================================
