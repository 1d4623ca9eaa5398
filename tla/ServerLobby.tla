------------------------------ MODULE ServerLobby ------------------------------
(***************************************************************************)
(* The sessions of the server: how a connection becomes a session, logs    *)
(* in, moves between the lobby and a game, is thrown out, and ends         *)
(* (ServerLobbyThread, SessionData and SessionManager in src/src/net).     *)
(*                                                                         *)
(* Everything runs in one io_context, a handler at a time, but a session   *)
(* may be gone, or be somebody else's, when a handler that concerns it     *)
(* runs: an expired timer, the answer of the database, a removal that was  *)
(* posted, the packets that came with the one that closed it.              *)
(*                                                                         *)
(* Of games there is one at a time, and of its course only what the        *)
(* sessions meet: the module ServerGame has its life cycle.                *)
(***************************************************************************)
EXTENDS Integers, FiniteSets

CONSTANTS
    MaxSessions,  \* bound: connections in the life of the server
    Names,        \* the players' names
    NoName,       \* a session without player data
    LobbyLimits,  \* what SERVER_MAX_NUM_LOBBY_SESSIONS may be
    MaxTotal,     \* SERVER_MAX_NUM_TOTAL_SESSIONS
    MaxPlayers    \* maxNumberOfPlayers of the game

ASSUME LobbyAssumption ==
    /\ MaxSessions \in Nat /\ LobbyLimits \subseteq Nat
    /\ MaxTotal \in Nat /\ MaxPlayers \in Nat
    /\ NoName \notin Names

\* A session is known by its number, which stands for the id of its player and
\* for the guid of its login, too: each is given out once.
Sessions == 1..MaxSessions
Nobody == 0

States == {"none", "Init", "ReceivingAvatar", "Established", "Game", "Closed"}

\* The handlers of a session's timers: the activity timer is armed with the
\* warning first and with the timeout after it.  The init timer is not listed: it
\* is armed in the state Init and its handler does nothing in any other.
Handlers == {"global", "warning", "timeout"}

VARIABLES
    server,   \* the sessions and the game, see ServerType
    pending   \* logins the database has not answered

vars == <<server, pending>>

ServerType ==
    [maxLobby: LobbyLimits,          \* SERVER_MAX_NUM_LOBBY_SESSIONS
     state: [Sessions -> States],
     name: [Sessions -> Names \cup {NoName}],  \* of the session's player data
     oldGuid: [Sessions -> 0..MaxSessions],  \* as the client says, or Nobody
     lobby: SUBSET Sessions,         \* m_sessionManager
     gameSessions: SUBSET Sessions,  \* m_gameSessionManager
     attached: SUBSET Sessions,      \* sessions with a pointer to the game
     members: SUBSET Sessions,       \* the game's own SessionManager
     phase: {"none", "open", "running", "final"},  \* the game in the list
     seats: SUBSET [id: Sessions, name: Names,
                    guid: 0..MaxSessions, solvent: BOOLEAN],
     rejoining: SUBSET Sessions,     \* m_rejoinPlayerList
     armed: [Sessions -> SUBSET Handlers],
     reading: [Sessions -> {"no", "open", "shut"}],
     batch: 0..MaxSessions]          \* whose packets are being processed

\* Everything is well formed; only sessions with player data wait for the
\* database and sit in a game.
TypeOK ==
    /\ server \in ServerType
    /\ pending \in SUBSET Sessions
    /\ \A s \in pending \cup server.members : server.name[s] # NoName

Init ==
    /\ \E limit \in LobbyLimits :
          server = [maxLobby |-> limit,
                    state |-> [s \in Sessions |-> "none"],
                    name |-> [s \in Sessions |-> NoName],
                    oldGuid |-> [s \in Sessions |-> Nobody],
                    lobby |-> {}, gameSessions |-> {},
                    attached |-> {}, members |-> {},
                    phase |-> "none", seats |-> {}, rejoining |-> {},
                    armed |-> [s \in Sessions |-> {}],
                    reading |-> [s \in Sessions |-> "no"],
                    batch |-> Nobody]
    /\ pending = {}

(***************************************************************************)
(* Closing sessions and moving them, on a server v                         *)
(***************************************************************************)

\* The socket is shut down: a read that is waiting ends without a packet, but
\* the packets that are being processed are not dropped.  Bound: they are when
\* the session is closed a second time.
LastRead(v, s) == IF v.batch = s /\ v.reading[s] = "open" THEN "shut" ELSE "no"

\* Wrong: the session stays in the game it is closed in.
CloseSession_KeepMember(v, s) ==
    IF v.state[s] = "Closed" THEN v
    ELSE [v EXCEPT !.state[s] = "Closed",
                   !.attached = @ \ {s},
                   !.lobby = @ \ {s},
                   !.gameSessions = @ \ {s},
                   !.reading[s] = LastRead(v, s),
                   !.armed[s] = {}]

\* The state is set first, which makes the rest happen once.
CloseSession(v, s) ==
    IF v.state[s] = "Closed" THEN v
    ELSE [v EXCEPT !.state[s] = "Closed",
                   !.members = IF s \in v.attached THEN @ \ {s} ELSE @,
                   !.attached = @ \ {s},
                   !.lobby = @ \ {s},
                   !.gameSessions = @ \ {s},
                   !.reading[s] = LastRead(v, s),
                   !.armed[s] = {}]

\* The player's seat cannot be taken up again.
MarkPlayerAsKicked(v, s) ==
    IF s \notin v.attached THEN v
    ELSE [v EXCEPT !.seats = {IF p.id = s THEN [p EXCEPT !.guid = Nobody] ELSE p :
                                 p \in v.seats}]

SessionError(v, s, kicked) ==
    CloseSession(IF kicked THEN MarkPlayerAsKicked(v, s) ELSE v, s)

\* A session that comes back from a game is closed if the lobby is full.
HandleReAddedSession(v, s) ==
    LET w == [v EXCEPT !.gameSessions = @ \ {s}, !.attached = @ \ {s}]
    IN  IF Cardinality(w.lobby) < w.maxLobby
        THEN [w EXCEPT !.state[s] = "Established", !.lobby = @ \cup {s}]
        ELSE SessionError(w, s, FALSE)

MoveSessionToLobby(v, s) ==
    HandleReAddedSession([v EXCEPT !.members = @ \ {s}], s)

\* getPlayerByName: the first seat of that name, for which the lowest id stands
\* here (the order of the seats is drawn at the start).
SeatsOf(v, name) ==
    LET named == {p \in v.seats : p.name = name}
    IN  {p \in named : \A q \in named : p.id <= q.id}

MayRejoin(v, s) == \E p \in SeatsOf(v, v.name[s]) : p.guid = v.oldGuid[s]

\* What the state of the game makes of a session that is given to it.  An open
\* game also refuses who has joined too often.  The final state does nothing.
HandleNewPlayer(v, s) ==
    CASE v.phase = "open" ->
            {MoveSessionToLobby(v, s)}
            \cup (IF Cardinality(v.members) < MaxPlayers
                  THEN {[v EXCEPT !.members = @ \cup {s}]} ELSE {})
      [] v.phase = "running" ->
            {IF MayRejoin(v, s)
             THEN [v EXCEPT !.members = @ \cup {s}, !.rejoining = @ \cup {s}]
             ELSE MoveSessionToLobby(v, s)}
      [] OTHER -> {v}

\* AddSession throws when the session is among the game sessions already; the
\* exception closes it.
MoveSessionToGame(v, s) ==
    LET w == [v EXCEPT !.lobby = @ \ {s}, !.state[s] = "Game"]
    IN  IF s \in v.gameSessions THEN {SessionError(w, s, FALSE)}
        ELSE HandleNewPlayer([w EXCEPT !.gameSessions = @ \cup {s},
                                       !.attached = @ \cup {s}], s)

\* ServerGame::RemoveAllSessions: everybody in the game is closed.
RemoveAllSessions(v) ==
    LET gone(s) == s \in v.members /\ v.state[s] # "Closed"
    IN  [v EXCEPT
           !.state = [s \in Sessions |-> IF gone(s) THEN "Closed" ELSE @[s]],
           !.lobby = {s \in @ : ~gone(s)},
           !.gameSessions = {s \in @ : ~gone(s)},
           !.attached = {s \in @ : ~gone(s)},
           !.reading = [s \in Sessions |->
                          IF ~gone(s) THEN @[s]
                          ELSE LastRead(v, s)],
           !.armed = [s \in Sessions |-> IF gone(s) THEN {} ELSE @[s]],
           !.members = {},
           !.phase = "final"]

\* The game is gone with the list's reference to it, and so are the sessions'
\* weak pointers.
InternalRemoveGame(v) ==
    [RemoveAllSessions(v) EXCEPT !.phase = "none", !.attached = {},
                                 !.seats = {}, !.rejoining = {}]

\* Wrong: who is in a game is not looked for there.
InternalRemovePlayer_LobbyOnly(v, s, kicked) ==
    IF s \in v.lobby THEN SessionError(v, s, kicked) ELSE v

\* The player is looked for in the lobby and then in his game.
InternalRemovePlayer(v, s, kicked) ==
    IF s \in v.lobby \cup (v.members \cap v.attached)
    THEN SessionError([v EXCEPT !.members = @ \ {s}], s, kicked) ELSE v

(***************************************************************************)
(* Login                                                                   *)
(***************************************************************************)

\* GetPlayerId: the oldest session of that name, in the lobby first.
SessionOfName(v, name) ==
    LET named(S) == {s \in S : v.state[s] # "Init" /\ v.name[s] = name}
        oldest(S) == CHOOSE s \in S : \A t \in S : s <= t
    IN  IF named(v.lobby) # {} THEN oldest(named(v.lobby))
        ELSE IF named(v.gameSessions) # {} THEN oldest(named(v.gameSessions))
        ELSE Nobody

\* GetRejoinGameIdForPlayer: the seat of his name, if it still has chips and
\* the client says that its guid was his.
RejoinSeat(v, s) ==
    {p \in SeatsOf(v, v.name[s]) :
        v.oldGuid[s] # Nobody /\ p.guid = v.oldGuid[s] /\ p.solvent}

Established(v, s) == [v EXCEPT !.state[s] = "Established"]

\* A login with the name of a session that is there is refused, or, on the
\* official server and not over a websocket, ends that session.
EstablishSession(v, s) ==
    LET previous == SessionOfName(v, v.name[s])
    IN  IF RejoinSeat(v, s) # {}
        THEN {Established(InternalRemovePlayer(v, p.id, FALSE), s) :
                 p \in RejoinSeat(v, s)}
        ELSE IF previous \in {Nobody, s} THEN {Established(v, s)}
        ELSE {SessionError(v, s, FALSE),
              Established(InternalRemovePlayer(v, previous, FALSE), s)}

(***************************************************************************)
(* Connections and their packets                                           *)
(***************************************************************************)

\* A refused connection is closed at once, the others get their three timers.
AddConnection(s) ==
    LET full == \/ Cardinality(server.lobby) >= server.maxLobby
                \/ Cardinality(server.lobby)
                     + Cardinality(server.gameSessions) >= MaxTotal
        new == [server EXCEPT !.state[s] = "Init"]
    IN  /\ server.batch = Nobody
        /\ server.state[s] = "none" /\ \A t \in 1..(s - 1) : server.state[t] # "none"
        /\ server' = IF full THEN SessionError(new, s, FALSE)
                     ELSE [new EXCEPT !.lobby = @ \cup {s},
                                      !.armed[s] = {"global", "warning"},
                                      !.reading[s] = "open"]
        /\ UNCHANGED pending

\* The packets of one read are handled one after the other and nothing else
\* runs meanwhile, whatever one of them did to the session.  As long as it is
\* open that makes no difference, so batch is only kept for a closed one.
Receives(s) ==
    /\ server.reading[s] # "no"
    /\ server.batch \in {Nobody, s}

Handle(s, results) ==
    server' \in {[v EXCEPT !.batch = IF v.state[s] = "Closed" /\ v.reading[s] = "shut"
                                       THEN s ELSE Nobody] : v \in results}

\* DispatchPacket: the packets of a session with a game go to the game.
LobbyReceives(s, states) ==
    Receives(s) /\ s \notin server.attached /\ server.state[s] \in states
GameReceives(s) ==
    Receives(s) /\ s \in server.attached /\ UNCHANGED pending

Packet(s) == [server EXCEPT !.batch = s]

\* Wrong: the session's timers are cancelled, all of them.
Active_CancelTimers(s) ==
    [Packet(s) EXCEPT !.armed[s] = {"warning"}]

\* The packet counts as activity of the client: the activity timer begins anew.
Active(s) ==
    [Packet(s) EXCEPT !.armed[s] = (@ \ {"timeout"}) \cup {"warning"}]

\* The init names the player and, if his client has one, the guid of another login
\* of his, which may be a later connection's.
SetPlayerData(v, s, n, g) == [v EXCEPT !.name[s] = n, !.oldGuid[s] = g]

KnownGuids == {Nobody} \cup {t \in Sessions : server.name[t] # NoName}

\* The inits the server accepts: any name, with the guid of any login or none.
Logins(s) == {SetPlayerData(Active(s), s, n, g) : n \in Names, g \in KnownGuids}

\* The address may be locked or banned, the version or the password wrong, the
\* name not allowed or banned, and one init is all a session may send.
InitMessage(s) ==
    /\ LobbyReceives(s, {"Init"})
    /\ \/ /\ Handle(s, {SessionError(Active(s), s, FALSE)})
          /\ UNCHANGED pending
       \/ /\ server.name[s] = NoName
          /\ Handle(s, Logins(s))
          /\ pending' = pending \cup {s}

AvatarHeader(s) ==
    /\ LobbyReceives(s, {"Init"}) /\ server.name[s] # NoName
    /\ Handle(s, {[Packet(s) EXCEPT !.state[s] = "ReceivingAvatar"],
                  SessionError(Packet(s), s, FALSE)})
    /\ UNCHANGED pending

UnknownAvatar(s) ==
    /\ LobbyReceives(s, {"Init"}) /\ server.name[s] # NoName
    /\ Handle(s, EstablishSession(Packet(s), s))
    /\ UNCHANGED pending

\* A block is stored, or is more than was announced.
AvatarFile(s) ==
    /\ LobbyReceives(s, {"ReceivingAvatar"})
    /\ Handle(s, {Packet(s), SessionError(Packet(s), s, FALSE)})
    /\ UNCHANGED pending

AvatarEnd(s) ==
    /\ LobbyReceives(s, {"ReceivingAvatar"})
    /\ Handle(s, {SessionError(Packet(s), s, FALSE)}
                   \cup EstablishSession(Packet(s), s))
    /\ UNCHANGED pending

\* The lobby does not check that the session is not closed.
InLobby == {"Established", "Game", "Closed"}

\* A bad name or settings; or a new game, to which the session is given.
CreateGame(s) ==
    /\ LobbyReceives(s, InLobby)
    /\ Handle(s, {Active(s)}
                   \cup IF server.name[s] # NoName /\ server.phase = "none"
                        THEN MoveSessionToGame([Active(s) EXCEPT !.phase = "open"], s)
                        ELSE {})
    /\ UNCHANGED pending

\* No such game, not invited, a wrong password; or the session is given to it.
JoinGame(s) ==
    /\ LobbyReceives(s, InLobby)
    /\ Handle(s, {Active(s)}
                   \cup IF server.name[s] # NoName /\ server.phase # "none"
                        THEN MoveSessionToGame(Active(s), s) ELSE {})
    /\ UNCHANGED pending

\* An administrator in the lobby removes the game, whoever is in it.
AdminRemoveGame(s) ==
    /\ LobbyReceives(s, InLobby)
    /\ server.name[s] # NoName /\ server.phase # "none"
    /\ Handle(s, {InternalRemoveGame(Packet(s))})
    /\ UNCHANGED pending

\* A packet that is not for the state the session is in, such as the action of
\* a player who has just been moved to the lobby, or one that throws.
InvalidPacket(s) ==
    /\ LobbyReceives(s, States)
    /\ Handle(s, {SessionError(v, s, FALSE) : v \in {Active(s), Packet(s)}})
    /\ UNCHANGED pending

\* The final state of a game ignores all packets.
LeaveGame(s) ==
    /\ GameReceives(s) /\ server.phase # "final"
    /\ Handle(s, {MoveSessionToLobby(Active(s), s)})

GameRequest(s) ==
    /\ GameReceives(s) /\ server.phase # "final"
    /\ Handle(s, {Active(s)})

\* An exception while the game handles a packet closes it for everybody.
GameThrows(s) ==
    /\ GameReceives(s) /\ server.phase # "final"
    /\ Handle(s, {RemoveAllSessions(Packet(s))})

\* Reading does not go on when the session is closed at the last packet.
ProcessPacketsEnds ==
    /\ server.batch # Nobody
    /\ server' = [server EXCEPT !.batch = Nobody, !.reading[server.batch] = "no"]
    /\ UNCHANGED pending

\* The peer closes the connection; after a close of ours the read may also end
\* because the socket is gone, which is ignored.
ReadEnds(s) ==
    /\ server.batch = Nobody /\ server.reading[s] # "no"
    /\ \/ server' = [CloseSession(server, s) EXCEPT !.reading[s] = "no"]
       \/ /\ server.reading[s] = "shut"
          /\ server' = [server EXCEPT !.reading[s] = "no"]
    /\ UNCHANGED pending

(***************************************************************************)
(* What the io_context runs between packets                                *)
(***************************************************************************)

Idle == server.batch = Nobody

\* Wrong: the session is not looked for.
UserValid_NoLookup(s) ==
    /\ Idle /\ s \in pending
    /\ server' \in EstablishSession(server, s)
    /\ pending' = pending \ {s}

\* UserValid: the session is looked for in the lobby only.
UserValid(s) ==
    /\ Idle /\ s \in pending
    /\ server' \in IF s \in server.lobby
                   THEN EstablishSession(server, s)
                          \cup {SessionError(server, s, FALSE)}
                   ELSE {server}
    /\ pending' = pending \ {s}

\* UserInvalid, UserBlocked
UserInvalid(s) ==
    /\ Idle /\ s \in pending /\ s \in server.lobby
    /\ server' = SessionError(server, s, FALSE)
    /\ pending' = pending \ {s}

\* An administrator kicked or banned a player whom he found in the lobby or in a
\* game, and the removal he posted runs, wherever the player is by now.
RemovePlayer(s) ==
    /\ Idle /\ server.state[s] \notin {"none", "Init"} /\ server.name[s] # NoName
    /\ server' = InternalRemovePlayer(server, s, TRUE)
    /\ UNCHANGED pending

\* A session that has been closed at least once.
ClosedBefore(s) == server.state[s] # "none" /\ server.reading[s] # "open"

\* A timer of session s has expired and its handler runs; cancelling the timers
\* of a session that is closed does not take back what is queued.  (An expired
\* timer that is armed anew before its handler runs is covered by one that
\* expires after that.)
Timer(s, handler) ==
    /\ Idle
    /\ handler \in server.armed[s] \/ ClosedBefore(s)
    /\ UNCHANGED pending

Disarmed(s, handler) == [server EXCEPT !.armed[s] = @ \ {handler}]

TimerInitTimeout(s) ==
    /\ Idle /\ server.state[s] = "Init"
    /\ server' = SessionError(server, s, TRUE)
    /\ UNCHANGED pending

TimerSessionTimeout(s, handler) ==
    /\ handler \in {"global", "timeout"} /\ Timer(s, handler)
    /\ server' = SessionError(Disarmed(s, handler), s, TRUE)

\* The client is warned; then the same timer runs for the last minute.
TimerActivityWarning(s) ==
    /\ Timer(s, "warning")
    /\ server' = [Disarmed(s, "warning") EXCEPT !.armed[s] = @ \cup {"timeout"}]

TimerRemoveGame ==
    /\ Idle /\ server.phase # "none" /\ server.members = {}
    /\ server' = InternalRemoveGame(server)
    /\ UNCHANGED pending

(***************************************************************************)
(* What a game does to its sessions; see ServerGame                        *)
(***************************************************************************)

GameStep ==
    /\ Idle /\ server.phase \in {"open", "running"}
    /\ UNCHANGED pending

\* The seats of the game are those of the players who are in it.
StartGame ==
    /\ GameStep /\ server.phase = "open" /\ server.members # {}
    /\ server' = [server EXCEPT
                    !.phase = "running",
                    !.seats = {[id |-> s, name |-> server.name[s],
                                guid |-> s, solvent |-> TRUE] :
                                  s \in server.members}]

\* PerformRejoin: the seat gets the id and the guid of the player who came back
\* (the younger, if two did).
Reseated(v, p) ==
    LET back == {s \in v.rejoining \cap v.members : v.name[s] = p.name}
        last == {s \in back : \A t \in back : t <= s}
    IN  IF back = {} \/ p \notin SeatsOf(v, p.name) THEN {p}
        ELSE {[p EXCEPT !.id = s, !.guid = s] : s \in last}

\* Players come back, others have lost their chips; so has, for the server, who
\* is not there and cannot come back.
StartNewHand ==
    /\ GameStep /\ server.phase = "running"
    /\ \E broke \in SUBSET server.seats :
          LET after(p) ==
                IF p \in broke \/ (p.guid = Nobody /\ p.id \notin server.members)
                THEN [p EXCEPT !.solvent = FALSE] ELSE p
              v == [server EXCEPT !.seats = {after(p) : p \in @}]
          IN  server' = [v EXCEPT !.seats = UNION {Reseated(v, p) : p \in @},
                                  !.rejoining = {}]

\* The game is over and opens again; who was to be seated again is not forgotten.
EndGame ==
    /\ GameStep /\ server.phase = "running"
    /\ server' = [server EXCEPT !.phase = "open", !.seats = {}]

\* Kicked, auto leave, not confirmed: the game sends a session back.
SendBack(s) ==
    /\ GameStep /\ s \in server.members
    /\ \E kicked \in BOOLEAN :
          server' = MoveSessionToLobby(IF kicked THEN MarkPlayerAsKicked(server, s)
                                       ELSE server, s)

\* An exception in a handler of the game's timers.
GameError ==
    /\ GameStep
    /\ server' = RemoveAllSessions(server)

LobbyStep ==
    \/ \E s \in Sessions :
          \/ AddConnection(s)
          \/ InitMessage(s) \/ AvatarHeader(s) \/ UnknownAvatar(s)
          \/ AvatarFile(s) \/ AvatarEnd(s)
          \/ CreateGame(s) \/ JoinGame(s) \/ AdminRemoveGame(s)
          \/ InvalidPacket(s)
          \/ LeaveGame(s) \/ GameRequest(s) \/ GameThrows(s)
          \/ ReadEnds(s)
    \/ ProcessPacketsEnds

HandlerStep ==
    \/ \E s \in Sessions :
          \/ UserValid(s) \/ UserInvalid(s)
          \/ RemovePlayer(s)
          \/ TimerInitTimeout(s) \/ TimerActivityWarning(s)
          \/ \E h \in Handlers : TimerSessionTimeout(s, h)
    \/ TimerRemoveGame

TableStep ==
    \/ StartGame \/ StartNewHand \/ EndGame \/ GameError
    \/ \E s \in Sessions : SendBack(s)

\* All connections have come and gone.
AllGone ==
    /\ \A s \in Sessions : server.state[s] = "Closed"
    /\ UNCHANGED vars

Next == LobbyStep \/ HandlerStep \/ TableStep \/ AllGone

Spec == Init /\ [][Next]_vars

\* The receive buffer holds finitely many packets, armed timers expire, and a
\* socket that was shut down ends its read.  Nothing is assumed of clients, the
\* database, games and handlers that were cancelled.
FairSpec ==
    /\ Spec
    /\ WF_vars(ProcessPacketsEnds)
    /\ \A s \in Sessions :
          /\ WF_vars("warning" \in server.armed[s] /\ TimerActivityWarning(s))
          /\ WF_vars(\/ server.reading[s] = "shut" /\ ReadEnds(s)
                     \/ \E h \in {"global", "timeout"} :
                           h \in server.armed[s] /\ TimerSessionTimeout(s, h))

(***************************************************************************)
(* Properties                                                              *)
(***************************************************************************)

\* However sessions log in, are moved, sent back, thrown out and closed, each is
\* kept where its state says: in the lobby's manager, in that of the game
\* sessions, or in none; and only game sessions are in the game.
SessionsFiled ==
    \A s \in Sessions :
       /\ s \in server.lobby <=>
             server.state[s] \in {"Init", "ReceivingAvatar", "Established"}
       /\ s \in server.gameSessions <=> server.state[s] = "Game"
       /\ s \in server.members => s \in server.attached
       /\ s \in server.attached => s \in server.gameSessions

\* The lobby never holds more sessions than allowed, though sessions come to it
\* from new connections and from games.
LobbyWithinLimit == Cardinality(server.lobby) <= server.maxLobby

\* A session that is closed and not read from any more stays closed: no timer,
\* database answer, posted removal or game brings it back.
LateEventsReviveNobody ==
    [][\A s \in Sessions :
          server.state[s] = "Closed" /\ server.reading[s] = "no"
             => server'.state[s] = "Closed" /\ server'.reading[s] = "no"]_vars

\* A session in the state Game that is in no game: its game was closed when it
\* joined.
Limbo(s) == server.state[s] = "Game" /\ s \notin server.members

\* A removal that runs now ends the session of its player, wherever he has moved
\* since it was posted, unless he is in limbo.
RemovedPlayerGoes ==
    \A s \in Sessions :
       \/ server.state[s] \in {"none", "Closed"} \/ Limbo(s)
       \/ InternalRemovePlayer(server, s, TRUE).state[s] = "Closed"

\* Every session ends for good, whatever its client, the database and the games
\* do: the forced timeout of a day is never reset, and a session that is revived
\* after it was closed has the activity timer and a socket that is shut down.
EverySessionEnds ==
    <>[](\A s \in Sessions : server.state[s] \in {"none", "Closed"})

(***************************************************************************)
(* What comments of the code say and its steps do not                      *)
(***************************************************************************)

\* "Close this session after send." (serverlobbythread.cpp:449)
ClosedStaysClosed ==
    [][\A s \in Sessions :
          server.state[s] = "Closed" => server'.state[s] = "Closed"]_vars
=============================================================================
