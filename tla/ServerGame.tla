------------------------------ MODULE ServerGame ------------------------------
(***************************************************************************)
(* The life cycle of a game on the server: players join and leave it in    *)
(* the lobby, the admin starts it or it starts when it is full, everybody  *)
(* confirms, it runs, it ends and opens again, and at last the lobby       *)
(* removes it (ServerGameStateInit, StartGame, Running and Final in        *)
(* src/src/net/servergamestate.cpp, ServerGame, ServerLobbyThread).        *)
(*                                                                         *)
(* What happens at the table while the game runs is ServerTable; here it   *)
(* is the state Running, of which only EndGame and CloseOnError matter.    *)
(*                                                                         *)
(* The game owns two timers.  An expired handler waits in the queue of the *)
(* io_context, and re-arming or cancelling its timer does not take it back.*)
(***************************************************************************)
EXTENDS Integers, Sequences, FiniteSets

CONSTANTS
    Players,     \* the players (by name) who may come to the game
    NoPlayer,    \* no player has this id
    MaxPlayers,  \* maxNumberOfPlayers of the game
    MaxJoins,    \* GAME_MAX_NUM_JOINS_PER_PLAYER
    MaxExpired   \* bound: how often one handler waits in the queue

ASSUME GameAssumption ==
    /\ IsFiniteSet(Players)
    /\ NoPlayer \notin Players
    /\ MaxPlayers \in Nat /\ MaxPlayers >= 2
    /\ MaxJoins \in Nat \ {0}
    /\ MaxExpired \in Nat

VARIABLES
    kind,       \* "normal" or "ranking" game of an internet server, or "lan"
    state,      \* ServerGame::m_curState
    listed,     \* the game is in the lobby's m_gameMap
    game,       \* ServerGame::m_game is set
    inGame,     \* the players in the game's SessionManager
    attached,   \* the players whose session belongs to this game
    computers,  \* size of m_computerPlayerList
    adminId,    \* m_adminPlayerId, NoPlayer if its session is gone for good
    admins,     \* the players with PlayerData::IsGameAdmin
    confirmed,  \* the players whose session has the ready flag
    joins,      \* m_numJoinsPerPlayer
    seated,     \* the players of m_game
    autoLeave,  \* m_autoLeavePlayerList
    timer1,     \* the handler m_stateTimer1 is armed with
    timer2,     \* the handler m_stateTimer2 is armed with
    expired     \* expired handlers the io_context has not run yet

people == <<inGame, attached, adminId, admins, confirmed>>
timers == <<timer1, timer2>>
record == <<computers, joins, seated, autoLeave, game, listed>>
vars == <<kind, state, people, timers, record, expired>>

States == {"Init", "StartGame", "Running", "Final"}
Handlers == {"AdminWarning", "AdminTimeout", "AutoStart", "StartTimeout",
             "NextGame"}

\* The state whose IsCurrentState check lets a handler act.
StateOf(handler) ==
    CASE handler = "StartTimeout" -> "StartGame"
      [] handler = "NextGame" -> "Running"
      [] OTHER -> "Init"

\* Bookkeeping is well formed and whoever is in the game belongs to it.
TypeOK ==
    /\ kind \in {"normal", "ranking", "lan"}
    /\ state \in States
    /\ listed \in BOOLEAN /\ game \in BOOLEAN
    /\ attached \in SUBSET Players /\ inGame \in SUBSET attached
    /\ computers \in Nat
    /\ adminId \in Players \cup {NoPlayer}
    /\ admins \in SUBSET Players /\ confirmed \in SUBSET Players
    /\ joins \in [Players -> 0..MaxJoins]
    /\ seated \in SUBSET Players /\ autoLeave \in SUBSET Players
    /\ timer1 \in Handlers \cup {"none"} /\ timer2 \in {"AutoStart", "none"}
    /\ expired \in Seq(Handlers)

NumberOfPlayers == Cardinality(inGame) + computers
Full == NumberOfPlayers >= MaxPlayers

\* Only a normal game of an internet server has an admin timeout.
AdminTimer == IF kind = "normal" THEN "AdminWarning" ELSE "none"

\* HandleNetPacketCreateGame: the creator is the admin and the first to join.
Init ==
    /\ kind \in {"normal", "ranking", "lan"}
    /\ state = "Init" /\ listed = TRUE /\ game = FALSE
    /\ \E p \in Players :
          /\ inGame = {p} /\ attached = {p} /\ adminId = p /\ admins = {p}
          /\ joins = [q \in Players |-> IF q = p THEN 1 ELSE 0]
          /\ autoLeave \in SUBSET {p}
    /\ computers = 0 /\ confirmed = {} /\ seated = {}
    /\ timer1 = AdminTimer
    /\ timer2 = "none"
    /\ expired = << >>

(***************************************************************************)
(* Leaving: RemoveSession, RemovePlayerData and what the state makes of it *)
(***************************************************************************)

\* Wrong: the flag is handed over and the game keeps the old admin's id.
HandOverAdmin_KeepId(gone) ==
    LET rest == inGame \ gone
    IN  /\ UNCHANGED adminId
        /\ IF admins \cap gone = {} THEN UNCHANGED admins
           ELSE \E q \in IF rest = {} THEN gone ELSE rest :
                   admins' = (admins \ gone) \cup ({q} \cap rest)

\* The flag of an admin who leaves passes to a player who stays, and with it
\* the game's admin id, which nobody else's leaving changes.
HandOverAdmin(gone) ==
    LET rest == inGame \ gone
    IN  IF admins \cap gone = {}
        THEN UNCHANGED <<adminId, admins>>
        ELSE \E q \in IF rest = {} THEN gone ELSE rest :
                /\ adminId' = q
                /\ admins' = (admins \ gone) \cup ({q} \cap rest)

RemovePlayers(gone) ==
    /\ inGame' = inGame \ gone
    /\ attached' = attached \ gone
    /\ confirmed' = confirmed \ gone
    /\ HandOverAdmin(gone)

\* Wrong: the new admin gets what is left of the old admin's time.
NotifyLeft_OldTimer(gone) ==
    /\ UNCHANGED timer1
    /\ timer2' = IF state = "Init" THEN "none" ELSE timer2

\* NotifyGameAdminChanged and NotifySessionRemoved: only Init cares.
NotifyLeft(gone) ==
    IF state # "Init" THEN UNCHANGED timers
    ELSE /\ timer1' = IF admins \cap gone # {} /\ inGame # gone
                      THEN AdminTimer ELSE timer1
         /\ timer2' = "none"

MoveSessionToLobby(p) ==
    RemovePlayers({p}) /\ NotifyLeft({p}) /\ UNCHANGED <<kind, state, record>>

\* A player leaves, or his connection is closed.
LeaveGame(p) ==
    /\ p \in inGame
    /\ MoveSessionToLobby(p)
    /\ UNCHANGED expired

\* The connection of a session that never got into the game is closed.
LeaveLimbo(p) ==
    /\ p \in attached \ inGame
    /\ attached' = attached \ {p}
    /\ UNCHANGED <<kind, state, inGame, adminId, admins, confirmed>>
    /\ UNCHANGED <<timers, record, expired>>

\* A player who logs in again gets a new unique id: lists of ids that hold
\* the old one do not know him any more.
Login(p) ==
    /\ p \notin attached
    /\ adminId = p \/ p \in autoLeave
    /\ adminId' = IF adminId = p THEN NoPlayer ELSE adminId
    /\ autoLeave' = autoLeave \ {p}
    /\ UNCHANGED <<kind, state, inGame, attached, admins, confirmed>>
    /\ UNCHANGED <<timers, computers, joins, seated, game, listed, expired>>

\* The admin kicks a player out while no game is set; a ranking game does not
\* let him.
KickPlayer(p, q) ==
    /\ ~game
    /\ kind # "ranking"
    /\ p \in admins /\ q \in inGame
    /\ MoveSessionToLobby(q)
    /\ UNCHANGED expired

(***************************************************************************)
(* Joining: MoveSessionToGame and the state's HandleNewPlayer              *)
(***************************************************************************)

\* The session enters the game; who still has the game's admin id is the
\* admin again.
AcceptNewSession(p) ==
    /\ inGame' = inGame \cup {p}
    /\ attached' = attached \cup {p}
    /\ admins' = IF p = adminId THEN admins \cup {p} ELSE admins \ {p}
    /\ UNCHANGED <<adminId, confirmed>>

\* The auto leave flag is stored after the game has decided, and so for a
\* refused session too.
StoreAutoLeave(p, auto) ==
    autoLeave' = IF auto THEN autoLeave \cup {p} ELSE autoLeave

JoinRequest(p) == listed /\ p \notin attached

\* Wrong: the players are counted before the new one is in.
JoinInit_CountedEarly(p, auto) ==
    /\ JoinRequest(p) /\ state = "Init"
    /\ ~Full /\ joins[p] < MaxJoins
    /\ joins' = [joins EXCEPT ![p] = @ + 1]
    /\ AcceptNewSession(p)
    /\ timer2' = IF NumberOfPlayers = MaxPlayers /\ kind # "lan"
                 THEN "AutoStart" ELSE timer2
    /\ StoreAutoLeave(p, auto)
    /\ UNCHANGED <<kind, state, computers, seated, game, listed, timer1, expired>>

\* Wrong: somebody may join while the others confirm.
JoinInit_WhileStarting(p, auto) ==
    /\ JoinRequest(p) /\ state \in {"Init", "StartGame"}
    /\ ~Full /\ joins[p] < MaxJoins
    /\ joins' = [joins EXCEPT ![p] = @ + 1]
    /\ AcceptNewSession(p)
    /\ timer2' = IF NumberOfPlayers + 1 = MaxPlayers /\ kind # "lan"
                 THEN "AutoStart" ELSE timer2
    /\ StoreAutoLeave(p, auto)
    /\ UNCHANGED <<kind, state, computers, seated, game, listed, timer1, expired>>

JoinInit(p, auto) ==
    /\ JoinRequest(p) /\ state = "Init"
    /\ ~Full /\ joins[p] < MaxJoins
    /\ joins' = [joins EXCEPT ![p] = @ + 1]
    /\ AcceptNewSession(p)
    /\ timer2' = IF NumberOfPlayers + 1 = MaxPlayers /\ kind # "lan"
                 THEN "AutoStart" ELSE timer2
    /\ StoreAutoLeave(p, auto)
    /\ UNCHANGED <<kind, state, computers, seated, game, listed, timer1, expired>>

\* Full, joined too often, about to start, or running without him: the
\* session goes back to the lobby.
JoinRefused(p, auto) ==
    /\ JoinRequest(p)
    /\ \/ state = "Init" /\ (Full \/ joins[p] >= MaxJoins)
       \/ state = "StartGame"
       \/ state = "Running"
    /\ StoreAutoLeave(p, auto)
    /\ UNCHANGED <<kind, state, people, timers, expired>>
    /\ UNCHANGED <<computers, joins, seated, game, listed>>

\* Wrong: the returning player is not looked for in the running game.
Rejoin_Anybody(p, auto) ==
    /\ JoinRequest(p) /\ state = "Running"
    /\ game
    /\ AcceptNewSession(p)
    /\ StoreAutoLeave(p, auto)
    /\ UNCHANGED <<kind, state, computers, joins, seated, game, listed>>
    /\ UNCHANGED <<timers, expired>>

\* A player of the running game who can show its guid comes back; without
\* the guid (ServerTable tells the two apart) he is refused as anybody else.
Rejoin(p, auto) ==
    /\ JoinRequest(p) /\ state = "Running"
    /\ game /\ p \in seated
    /\ AcceptNewSession(p)
    /\ StoreAutoLeave(p, auto)
    /\ UNCHANGED <<kind, state, computers, joins, seated, game, listed>>
    /\ UNCHANGED <<timers, expired>>

\* The final state does not answer: the session has left the lobby for a
\* game it is not in.
JoinFinal(p, auto) ==
    /\ JoinRequest(p) /\ state = "Final"
    /\ attached' = attached \cup {p}
    /\ StoreAutoLeave(p, auto)
    /\ UNCHANGED <<kind, state, inGame, adminId, admins, confirmed>>
    /\ UNCHANGED <<computers, joins, seated, game, listed, timers, expired>>

(***************************************************************************)
(* Starting                                                                *)
(***************************************************************************)

MayStart(p) == p \in admins /\ (kind # "ranking" \/ NumberOfPlayers = MaxPlayers)

\* Wrong: the confirmations are waited for without a timeout.
SendStartEvent_NoTimeout(fill) ==
    /\ computers' = IF fill /\ ~Full THEN MaxPlayers - Cardinality(inGame)
                    ELSE computers
    /\ state' = "StartGame"
    /\ timer1' = "none" /\ timer2' = "none"
    /\ UNCHANGED <<kind, people, joins, seated, autoLeave, game, listed>>

\* Computer players take the free slots, everybody is asked to confirm, and
\* the start timeout replaces the timers of Init.
SendStartEvent(fill) ==
    /\ computers' = IF fill /\ ~Full THEN MaxPlayers - Cardinality(inGame)
                    ELSE computers
    /\ state' = "StartGame"
    /\ timer1' = "StartTimeout" /\ timer2' = "none"
    /\ UNCHANGED <<kind, people, joins, seated, autoLeave, game, listed>>

StartEvent(p, fill) ==
    /\ state = "Init" /\ p \in inGame /\ MayStart(p)
    /\ SendStartEvent(fill)
    /\ UNCHANGED expired

\* Who tries to start and is not allowed to is moved to the lobby.
StartRefused(p) ==
    /\ state = "Init" /\ p \in inGame /\ ~MayStart(p)
    /\ MoveSessionToLobby(p)
    /\ UNCHANGED expired

\* The admin is still there.
ResetTimeout(p) ==
    /\ state = "Init" /\ p \in inGame /\ p \in admins
    /\ kind = "normal"
    /\ timer1' = AdminTimer
    /\ UNCHANGED <<kind, state, people, record, timer2, expired>>

\* DoStart: with two players or more, computers included, the game begins.
\* A single player is moved to the lobby, and the state stays.
DoStart ==
    /\ confirmed' = {}
    /\ IF NumberOfPlayers >= 2
       THEN /\ game' = TRUE /\ seated' = inGame /\ state' = "Running"
            /\ timer1' = "none"
            /\ UNCHANGED <<inGame, attached, adminId, admins, autoLeave>>
       ELSE /\ inGame' = {} /\ attached' = attached \ inGame
            /\ HandOverAdmin(inGame)
            /\ UNCHANGED <<game, seated, state, timer1, autoLeave>>
    /\ UNCHANGED <<kind, computers, joins, listed, timer2>>

\* StartEventAck: the session is ready; the last one starts the game.
StartEventAck(p) ==
    /\ state = "StartGame" /\ p \in inGame
    /\ IF confirmed \cup {p} = inGame
       THEN DoStart
       ELSE /\ confirmed' = confirmed \cup {p}
            /\ UNCHANGED <<kind, state, inGame, attached, adminId, admins>>
            /\ UNCHANGED <<timers, record>>
    /\ UNCHANGED expired

(***************************************************************************)
(* The timers                                                              *)
(***************************************************************************)

Expire(handler) ==
    /\ handler # "none"
    /\ Cardinality({i \in DOMAIN expired : expired[i] = handler}) < MaxExpired
    /\ expired' = Append(expired, handler)
    /\ UNCHANGED <<kind, state, people, record>>

Expire1 == Expire(timer1) /\ timer1' = "none" /\ UNCHANGED timer2
Expire2 == Expire(timer2) /\ timer2' = "none" /\ UNCHANGED timer1

\* The io_context runs the oldest handler, in the state it is meant for.
Runs(handler) ==
    /\ expired # << >>
    /\ Head(expired) = handler
    /\ state = StateOf(handler)
    /\ expired' = Tail(expired)

\* A handler whose state was left in the meantime does nothing.
StaleHandler ==
    /\ expired # << >>
    /\ state # StateOf(Head(expired))
    /\ expired' = Tail(expired)
    /\ UNCHANGED <<kind, state, people, timers, record>>

\* The warning, a message to the admin, is sent if he is in the game; the
\* timeout follows anyway.
TimerAdminWarning ==
    /\ Runs("AdminWarning")
    /\ timer1' = "AdminTimeout"
    /\ UNCHANGED <<kind, state, people, timer2, record>>

TimerAdminTimeout ==
    /\ Runs("AdminTimeout")
    /\ IF adminId \in inGame THEN MoveSessionToLobby(adminId)
       ELSE UNCHANGED <<kind, state, people, timers, record>>

TimerAutoStart == Runs("AutoStart") /\ SendStartEvent(FALSE)

TimerStartTimeout == Runs("StartTimeout") /\ DoStart

(***************************************************************************)
(* The end of the game and the end of the object                           *)
(***************************************************************************)

\* Auto leave players go, computer players are dropped, and Init begins anew.
Reopen ==
    /\ RemovePlayers(inGame \cap autoLeave)
    /\ autoLeave' = {}
    /\ computers' = 0
    /\ state' = "Init" /\ timer1' = AdminTimer /\ timer2' = "none"

\* A hand ends with one player left who has chips (the winner is shown
\* first) or with none.  The game's own handlers come after whatever expired
\* before it began.
EndGame ==
    /\ state = "Running" /\ game /\ expired = << >>
    /\ game' = FALSE /\ seated' = {}
    /\ joins' = [p \in Players |-> 0]
    /\ \/ /\ timer1' = "NextGame"
          /\ UNCHANGED <<state, people, timer2, computers, autoLeave>>
       \/ Reopen
    /\ UNCHANGED <<kind, listed, expired>>

TimerNextGame ==
    /\ Runs("NextGame")
    /\ Reopen
    /\ UNCHANGED <<kind, joins, seated, game, listed>>

\* RemoveAllSessions: the connections of all in the game are closed, one after
\* the other, so that the admin id ends with the last of them.
RemoveAllSessions ==
    /\ HandOverAdmin(inGame)
    /\ inGame' = {} /\ attached' = attached \ inGame
    /\ confirmed' = {}
    /\ state' = "Final" /\ timer1' = "none" /\ timer2' = "none"
    /\ UNCHANGED <<kind, joins, seated, autoLeave, game, expired>>

\* An exception while the game runs.  The lobby still lists the game.
CloseOnError ==
    /\ state = "Running" /\ game
    /\ RemoveAllSessions
    /\ UNCHANGED <<computers, listed>>

InternalRemoveGame ==
    /\ listed
    /\ RemoveAllSessions
    /\ computers' = 0 /\ listed' = FALSE

\* The lobby's periodic timer removes a game nobody is in.
TimerRemoveGame == inGame = {} /\ InternalRemoveGame

\* A server admin removes any game.
AdminRemoveGame == inGame # {} /\ InternalRemoveGame

\* Nothing is left of the game.
GameGone ==
    /\ ~listed /\ attached = {} /\ expired = << >>
    /\ UNCHANGED vars

Next ==
    \/ \E p \in Players : LeaveGame(p) \/ LeaveLimbo(p) \/ Login(p)
    \/ \E p, q \in Players : KickPlayer(p, q)
    \/ \E p \in Players, auto \in BOOLEAN :
          \/ JoinInit(p, auto) \/ JoinRefused(p, auto)
          \/ Rejoin(p, auto) \/ JoinFinal(p, auto)
    \/ \E p \in Players, fill \in BOOLEAN : StartEvent(p, fill)
    \/ \E p \in Players : StartRefused(p) \/ ResetTimeout(p) \/ StartEventAck(p)
    \/ Expire1 \/ Expire2 \/ StaleHandler
    \/ TimerAdminWarning \/ TimerAdminTimeout \/ TimerAutoStart
    \/ TimerStartTimeout \/ EndGame \/ TimerNextGame
    \/ CloseOnError \/ TimerRemoveGame \/ AdminRemoveGame \/ GameGone

Spec == Init /\ [][Next]_vars

\* Timers expire, the io_context runs what has expired, and the lobby's timer
\* comes round.  Nothing is assumed of the players, nor that a game ends.
HandlerRuns ==
    \/ StaleHandler \/ TimerAdminWarning \/ TimerAdminTimeout
    \/ TimerAutoStart \/ TimerStartTimeout \/ TimerNextGame

FairSpec ==
    /\ Spec
    /\ WF_vars(Expire1) /\ WF_vars(Expire2)
    /\ WF_vars(HandlerRuns)
    /\ WF_vars(TimerRemoveGame)

(***************************************************************************)
(* Properties                                                              *)
(***************************************************************************)

\* Whoever has the admin's flag is in the game and is the one the game knows
\* as its admin, so a game has one admin at most, through every departure,
\* kick, return and new login.
AdminIsUnique == \A p \in admins : p \in inGame /\ p = adminId

\* A confirmation counts for one start: it is of somebody who is in the game,
\* and none is left over when the state StartGame is left.
ReadyIsCurrent == confirmed \subseteq inGame /\ (state # "StartGame" => confirmed = {})

\* People and computer players together never take more than the seats, also
\* when players leave a game filled up with computers and come back.
NeverOverfull == NumberOfPlayers <= MaxPlayers

\* When the admin goes and others stay, one of them is the admin at once, and
\* before the start he has the whole admin timeout for himself.
HandedOver ==
    \A p \in admins \ inGame' :
        inGame' # {} =>
            /\ admins' # {}
            /\ state' = "Init" /\ kind = "normal" => timer1' = "AdminWarning"
AdminHandedOver == [][HandedOver]_vars

\* Whatever sessions, flags, confirmations and timers do, the game changes for
\* the lobby only in the ways of GameView: nobody comes while it is about to
\* start, the admin's id passes on only when he goes, computer players stay
\* until it opens again or closes.
View == INSTANCE GameView
ViewSpec == View!Spec

\* Waiting for confirmations ends, whoever confirms, leaves or is lost.
StartSettles == (state = "StartGame") ~> (state # "StartGame")

\* A game of an internet server that somebody's joining made full starts, if
\* nobody leaves it.
FullGameStarts ==
    (state = "Init" /\ Full /\ kind # "lan" /\ \E p \in Players : joins[p] > 0)
        ~> (state # "Init" \/ ~Full)
=============================================================================
