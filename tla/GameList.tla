------------------------------- MODULE GameList -------------------------------
(***************************************************************************)
(* A game as another player's client lists it: the server sends the whole  *)
(* list at the login, then every change, until the client unsubscribes     *)
(* because its own game begins; when that game is over the client clears   *)
(* its list and subscribes again (ServerLobbyThread::Notify* and           *)
(* SendGameList, SessionManager::SendLobbyMsgToAllSessions, and in the     *)
(* client ClientThread's m_gameInfoMap and Un/ResubscribeLobbyMsg).        *)
(*                                                                         *)
(* The listed game is that of GameView, which ServerGame implements.  The  *)
(* watcher, who is not one of its players, has a connection of his own and *)
(* plays in some other game, of which only its messages to him matter.     *)
(***************************************************************************)
EXTENDS GameView, Sequences, SequencesExt

CONSTANTS
    NoEntry,      \* the client does not list the game
    MaxUnderWay,  \* bound: messages under way to the watcher
    MaxGames      \* bound: own games of his, each with at most two requests

VARIABLES
    online,       \* the watcher's session is established
    wants,        \* SessionData::m_wantsLobbyMsg of it
    games,        \* the watcher's own games so far
    other,        \* the watcher's own game: "none", "starting" or "playing"
    toServer,     \* the watcher's subscription requests under way
    toClient,     \* the messages under way to him
    clientState,  \* ClientThread's state
    subscribed,   \* ClientContext::m_hasSubscribedLobbyMsg
    entry,        \* the game's element of m_gameInfoMap, or NoEntry
    raced         \* history: when the list was last cleared, an unsubscribe
                  \* or what was sent before it was still under way

watcher == <<online, wants, games, other, toServer, toClient, clientState, subscribed, entry, raced>>
listVars == <<viewVars, watcher>>

\* What a client knows of a listed game: GameInfo.
Entries ==
    [admin: Players \cup {NoPlayer}, people: SUBSET Players, bots: Nat,
     mode: {"created", "started"}]

ASSUME ListAssumption == MaxPlayers \in Nat /\ MaxGames \in Nat /\ NoEntry \notin Entries

ListMessages == {"New", "Joined", "Left", "Admin", "Mode"}
OwnMessages == {"Start", "Begin", "Removed", "End"}

Messages ==
    [type: {"New"}, admin: Players \cup {NoPlayer}, people: SUBSET Players, bots: Nat,
     mode: {"created", "started"}]
    \cup [type: {"Joined", "Left"}, people: SUBSET Players, bots: Nat]
    \cup [type: {"Admin"}, admin: Players \cup {NoPlayer}]
    \cup [type: {"Mode"}, mode: {"created", "started", "closed"}]
    \cup [type: OwnMessages]

ListTypeOK ==
    /\ listed \in BOOLEAN /\ game \in BOOLEAN
    /\ state \in {"Init", "StartGame", "Running", "Final"}
    /\ inGame \in SUBSET Players /\ computers \in 0..MaxPlayers
    /\ adminId \in Players \cup {NoPlayer}
    /\ online \in BOOLEAN /\ wants \in BOOLEAN
    /\ other \in {"none", "starting", "playing"} /\ games \in 0..MaxGames
    /\ toServer \in Seq({"unsubscribe", "resubscribe"})
    /\ toClient \in Seq(Messages)
    /\ clientState \in {"Lobby", "Synchronize", "Playing"}
    /\ subscribed \in BOOLEAN /\ raced \in BOOLEAN
    /\ entry \in Entries \cup {NoEntry}

(***************************************************************************)
(* What the server sends                                                   *)
(***************************************************************************)

\* CreateNetPacketGameListNew
New ==
    [type |-> "New", admin |-> adminId, people |-> inGame, bots |-> computers,
     mode |-> IF game THEN "started" ELSE "created"]

\* SendGameList
GameListOf == IF listed THEN << New >> ELSE << >>

Joined(who, n) == [type |-> "Joined", people |-> who, bots |-> n]
Left(who, n) == [type |-> "Left", people |-> who, bots |-> n]
AdminChanged(p) == [type |-> "Admin", admin |-> p]
Mode(mode) == [type |-> "Mode", mode |-> mode]

\* RemovePlayerData for each who goes, computer players included: the new admin
\* is announced first.
Departures ==
    (IF adminId' # adminId THEN << AdminChanged(adminId') >> ELSE << >>)
        \o (IF inGame' # inGame \/ computers' # computers
            THEN << Left(inGame \ inGame', computers - computers') >> ELSE << >>)

\* Players who come, one by one, or the computer players of a start.
Arrivals ==
    IF inGame' # inGame \/ computers' # computers
    THEN << Joined(inGame' \ inGame, computers' - computers) >> ELSE << >>

\* SendLobbyMsgToAllSessions, for the watcher's session.
Announce(messages) ==
    /\ toClient' = IF online /\ wants THEN toClient \o messages ELSE toClient
    /\ Len(toClient') <= MaxUnderWay
    /\ UNCHANGED <<online, wants, games, other, toServer, clientState, subscribed, entry, raced>>

(***************************************************************************)
(* The steps of the listed game, with what they announce                   *)
(***************************************************************************)

PlayerComes ==
    /\ \E p \in Players : Arrive(p)
    /\ Announce(Arrivals)

\* Leaving, a kick, a refused start or a timeout, of one player or of several.
PlayersGo ==
    /\ \E gone \in SUBSET inGame : gone # {} /\ Depart(gone)
    /\ Announce(Departures)

\* The start event: the game counts as running from here on.
GameStarts == Start /\ Announce(Arrivals \o << Mode("started") >>)

\* Only a game that goes back to Init is announced, as open again.
GameReopens == Reopen /\ Announce(Departures \o << Mode("created") >>)

GameFails == Fail /\ Announce(Departures)

GameRemoved == RemoveGame /\ Announce(Departures \o << Mode("closed") >>)

\* Nothing the lobby is told of.
GameQuiet == (Begin \/ Finish) /\ UNCHANGED watcher

\* A player's new id is not the one the lists know.
Unknown(p, r) == IF r.admin = p THEN [r EXCEPT !.admin = NoPlayer] ELSE r

AdminLogsIn ==
    /\ ForgetAdmin
    /\ entry' = IF entry = NoEntry THEN NoEntry ELSE Unknown(adminId, entry)
    /\ toClient' = [i \in DOMAIN toClient |->
          IF toClient[i].type \in {"New", "Admin"} THEN Unknown(adminId, toClient[i])
          ELSE toClient[i]]
    /\ UNCHANGED <<online, wants, games, other, toServer, clientState, subscribed, raced>>

(***************************************************************************)
(* The watcher's session on the server                                     *)
(***************************************************************************)

\* EstablishSession: a new session wants lobby messages and gets the list.
EstablishSession ==
    /\ ~online
    /\ online' = TRUE /\ toClient' = GameListOf
    /\ UNCHANGED <<viewVars, wants, games, other, toServer, clientState, subscribed, entry, raced>>

\* Messages of the watcher's own game.
Tell(type) ==
    /\ online /\ Len(toClient) < MaxUnderWay
    /\ toClient' = Append(toClient, [type |-> type])
    /\ UNCHANGED <<viewVars, online, wants, toServer, clientState, subscribed, entry, raced>>

StartOther ==
    /\ other = "none" /\ other' = "starting"
    /\ games < MaxGames /\ games' = games + 1
    /\ Tell("Start")

\* All have confirmed, or the start timeout has not waited for the watcher.
BeginOther == other = "starting" /\ other' = "playing" /\ Tell("Begin") /\ UNCHANGED games

\* He leaves, is kicked or timed out (ReAddSession).
LeaveOther == other # "none" /\ other' = "none" /\ Tell("Removed") /\ UNCHANGED games

EndOther == other = "playing" /\ other' = "none" /\ Tell("End") /\ UNCHANGED games

\* Wrong: who subscribes again hears what is new and nothing else.
InternalResubscribeMsg_NoList ==
    IF wants THEN UNCHANGED <<wants, toClient>>
    ELSE wants' = TRUE /\ UNCHANGED toClient

\* Wrong: the list is sent and nothing after it.
InternalResubscribeMsg_FlagForgotten ==
    /\ UNCHANGED wants
    /\ toClient' = IF wants THEN toClient ELSE toClient \o GameListOf

InternalResubscribeMsg ==
    IF wants THEN UNCHANGED <<wants, toClient>>
    ELSE /\ wants' = TRUE
         /\ toClient' = toClient \o GameListOf

\* A SubscriptionRequest, handled alike by the lobby and by a game.
HandleSubscriptionRequest ==
    /\ toServer # << >> /\ Len(toClient) < MaxUnderWay
    /\ toServer' = Tail(toServer)
    /\ IF Head(toServer) = "unsubscribe"
       THEN wants' = FALSE /\ UNCHANGED toClient
       ELSE InternalResubscribeMsg
    /\ UNCHANGED <<viewVars, online, games, other, clientState, subscribed, entry, raced>>

(***************************************************************************)
(* The watcher's client                                                    *)
(***************************************************************************)

\* What a message makes of the game's element.  A new game is inserted, which
\* leaves an element that is there alone; everything else needs one.  The
\* computer players, who come and go together, are only counted.
Update(e, m) ==
    CASE m.type = "New" /\ e = NoEntry ->
            [admin |-> m.admin, people |-> m.people, bots |-> m.bots, mode |-> m.mode]
      [] m.type = "Joined" /\ e # NoEntry ->
            [e EXCEPT !.people = @ \cup m.people, !.bots = @ + m.bots]
      [] m.type = "Left" /\ e # NoEntry ->
            [e EXCEPT !.people = @ \ m.people, !.bots = IF @ > m.bots THEN @ - m.bots ELSE 0]
      [] m.type = "Admin" /\ e # NoEntry -> [e EXCEPT !.admin = m.admin]
      [] m.type = "Mode" /\ e # NoEntry ->
            IF m.mode = "closed" THEN NoEntry ELSE [e EXCEPT !.mode = m.mode]
      [] OTHER -> e

UnsubscribeLobbyMsg ==
    /\ subscribed' = FALSE
    /\ toServer' = IF subscribed THEN Append(toServer, "unsubscribe") ELSE toServer
    /\ UNCHANGED <<entry, raced>>

\* Wrong: the list of before the game is kept.
ResubscribeLobbyMsg_KeepList ==
    /\ subscribed' = TRUE
    /\ toServer' = IF subscribed THEN toServer ELSE Append(toServer, "resubscribe")
    /\ UNCHANGED <<entry, raced>>

ResubscribeLobbyMsg ==
    /\ subscribed' = TRUE
    /\ IF subscribed THEN UNCHANGED <<toServer, entry, raced>>
       ELSE /\ entry' = NoEntry
            /\ toServer' = Append(toServer, "resubscribe")
            /\ raced' = \/ toServer # << >>
                        \/ \E m \in Range(Tail(toClient)) : m.type \in ListMessages

Receive(type) ==
    /\ toClient # << >> /\ Head(toClient).type = type
    /\ toClient' = Tail(toClient)
    /\ UNCHANGED <<viewVars, online, wants, games, other>>

HandleListMessage ==
    /\ \E type \in ListMessages : Receive(type)
    /\ entry' = Update(entry, Head(toClient))
    /\ UNCHANGED <<toServer, clientState, subscribed, raced>>

\* ClientStateWaitGame: the game starts, the players' infos are completed.
HandleStart ==
    /\ Receive("Start")
    /\ clientState' = IF clientState = "Lobby" THEN "Synchronize" ELSE clientState
    /\ UNCHANGED <<toServer, subscribed, entry, raced>>

\* They are complete: the start is confirmed.
Synchronized ==
    /\ clientState = "Synchronize"
    /\ UnsubscribeLobbyMsg
    /\ clientState' = "Playing"
    /\ UNCHANGED <<viewVars, online, wants, games, other, toClient>>

\* The game begins, with or without that confirmation.
HandleBegin ==
    /\ Receive("Begin")
    /\ IF clientState = "Synchronize"
       THEN UnsubscribeLobbyMsg /\ clientState' = "Playing"
       ELSE UNCHANGED <<toServer, clientState, subscribed, entry, raced>>

HandleRemoved ==
    /\ Receive("Removed")
    /\ ResubscribeLobbyMsg
    /\ clientState' = "Lobby"

\* Only while the game is played is its end heard.
HandleEnd ==
    /\ Receive("End")
    /\ IF clientState = "Playing"
       THEN ResubscribeLobbyMsg /\ clientState' = "Lobby"
       ELSE UNCHANGED <<toServer, clientState, subscribed, entry, raced>>

(***************************************************************************)
(* The specification                                                       *)
(***************************************************************************)

\* InternalAddGame: who is online when the game is created hears of it before
\* its creator is in it.
ListInit ==
    /\ Init
    /\ \/ online = FALSE /\ toClient = << >>
       \/ online = TRUE /\ toClient = << [New EXCEPT !.people = {}], Joined(inGame, 0) >>
    /\ wants = TRUE /\ other = "none" /\ games = 0 /\ toServer = << >>
    /\ clientState = "Lobby" /\ subscribed = TRUE
    /\ entry = NoEntry /\ raced = FALSE

ClientHandles ==
    \/ HandleListMessage \/ HandleStart \/ HandleBegin \/ HandleRemoved \/ HandleEnd

\* The game is closed and the watcher has heard everything.
NothingLeft ==
    /\ online /\ ~listed /\ other = "none" /\ games = MaxGames
    /\ toServer = << >> /\ toClient = << >>
    /\ UNCHANGED listVars

ListNext ==
    \/ PlayerComes \/ PlayersGo \/ GameStarts \/ GameReopens \/ GameFails
    \/ GameRemoved \/ GameQuiet \/ AdminLogsIn
    \/ EstablishSession
    \/ StartOther \/ BeginOther \/ LeaveOther \/ EndOther
    \/ HandleSubscriptionRequest \/ ClientHandles \/ Synchronized
    \/ NothingLeft

ListSpec == ListInit /\ [][ListNext]_listVars

\* Both sides handle what has arrived.  The bound of toClient, which the code
\* does not have, may hold the server up again and again but not for ever.
FairListSpec ==
    /\ ListSpec
    /\ WF_listVars(ClientHandles) /\ SF_listVars(HandleSubscriptionRequest)

(***************************************************************************)
(* Properties                                                              *)
(***************************************************************************)

\* What the element e has become once the messages ms are handled.
After(e, ms) ==
    LET after[i \in 0..Len(ms)] == IF i = 0 THEN e ELSE Update(after[i - 1], ms[i])
    IN after[Len(ms)]

\* What the watcher will list once he has handled all that is under way.
Coming == After(entry, toClient)

Undisturbed ==
    /\ online /\ wants /\ subscribed /\ toServer = << >> /\ ~raced
    /\ \A m \in Range(toClient) : m.type # "Begin"

\* A subscribed client lists exactly the games there are, each with its
\* players, its computer players and its admin as they are on the server, and
\* never calls a game started that is open: the snapshot and the changes sent
\* after it always add up.
ListIsCurrent ==
    Undisturbed =>
        /\ Coming # NoEntry <=> listed
        /\ listed =>
              /\ Coming.people = inGame /\ Coming.bots = computers
              /\ Coming.admin = adminId
              /\ Coming.mode = "started" => state # "Init"

\* The last of the client's requests under way, or the server's flag if there
\* is none, is what the client holds for its subscription, so that it never
\* waits for messages the server does not mean to send.
SubscriptionsAgree ==
    subscribed = IF toServer = << >> THEN wants ELSE Last(toServer) = "resubscribe"

\* A client that subscribes again gets to see the games that are still there.
ListComesBack ==
    (online /\ subscribed /\ listed)
        ~> (~online \/ ~subscribed \/ ~listed \/ entry # NoEntry)
=============================================================================
