---------------------------- MODULE ClientSession ----------------------------
(***************************************************************************)
(* A player's way to the table and back to it: the states of the client's *)
(* thread from the start of a login to the game, the guid of the session   *)
(* of its last game, which it keeps on disk, its connections, one per      *)
(* login, and what the server knows of the one player behind them: his     *)
(* sessions and his seat.  The client or its machine may stop at any       *)
(* moment, connections may break, and a player who comes back names the    *)
(* guid of his last game.                                                  *)
(*                                                                         *)
(* Login s gives the session, the player id and the guid the number s.     *)
(* The list of servers may be cached or not, and a list to read may be bad *)
(* at any time: what its file holds is left out.  Avatars are not exchanged *)
(* (see ServerLobby), and the start of a game is not acknowledged: it      *)
(* starts after its timeout anyway (see ServerGame).                       *)
(***************************************************************************)
EXTENDS Naturals, Sequences, SequencesExt

CONSTANTS
    MaxLogins,    \* bound: connections in all
    MaxRequests,  \* bound: requests of the player the server has not read
    MaxAnswers    \* bound: messages on their way to the client

ASSUME SessionAssumption ==
    MaxLogins \in Nat \ {0} /\ MaxRequests \in Nat /\ MaxAnswers \in Nat

Logins == 1..MaxLogins
Nobody == 0

VARIABLES
    client,   \* the client's thread
    disk,     \* the guid in the file of the client, Nobody if there is none
    server,   \* the player's sessions and what they have not read yet, his game
              \* and his seat in it
    down,     \* what the server has sent to the running client
    ended,    \* logins whose connection has ended at the client's side
    doubled   \* two of the player's sessions were established at once

vars == <<client, disk, server, down, ended, doubled>>

Connected == {"StartSession", "EnterLogin", "WaitSession", "WaitJoin",
              "WaitGame", "Synchronize", "WaitStart", "Playing"}

\* States in which the player can only wait.
Attempts == {"Resolve", "Connect", "StartSession", "WaitSession"}

ClientStates == {"Off", "Final", "Downloading", "ChooseServer", "Resolve",
                 "Connect"} \cup Connected

SessionStates == {"none", "Connecting", "Init", "Login", "Established", "Game",
                  "Closed"}

Requests == {<<"Join">>, <<"Leave">>}
              \cup {<<"Init", guid>> : guid \in 0..MaxLogins}

Answers == {"Announce", "Error", "End", "InitAck", "InitAckRejoin", "JoinAck",
            "JoinFailed", "Removed", "StartEvent", "StartInitial",
            "StartRejoin", "GameEnd"}

Seats == [id: Logins, guid: 0..MaxLogins, solvent: BOOLEAN]

Servers ==
    [state: [Logins -> SessionStates], unread: [Logins -> Seq(Requests)],
     oldGuid: [Logins -> 0..MaxLogins],
     phase: {"none", "open", "starting", "running"}, members: SUBSET Logins,
     seats: SUBSET Seats, rejoining: Seq(Logins)]

TypeOK ==
    /\ client \in [state: ClientStates, login: 0..MaxLogins,
                   guid: 0..MaxLogins, offered: BOOLEAN]
    /\ disk \in 0..MaxLogins
    /\ server \in Servers
    /\ down \in Seq(Answers)
    /\ ended \in SUBSET Logins
    /\ doubled \in BOOLEAN

Off == [state |-> "Off", login |-> Nobody, guid |-> Nobody, offered |-> FALSE]

Init ==
    /\ client = Off
    /\ disk = Nobody
    /\ server = [state |-> [s \in Logins |-> "none"],
                 unread |-> [s \in Logins |-> <<>>],
                 oldGuid |-> [s \in Logins |-> Nobody],
                 phase |-> "none", members |-> {}, seats |-> {},
                 rejoining |-> <<>>]
    /\ down = <<>>
    /\ ended = {}
    /\ doubled = FALSE

(***************************************************************************)
(* The client's thread before it is connected                              *)
(***************************************************************************)

ClientOnly == UNCHANGED <<server, doubled>>

\* The thread ends and its socket is closed.
ClientGone ==
    /\ client' = Off
    /\ down' = <<>>
    /\ ended' = ended \cup ({client.login} \ {Nobody})

\* Main: an exception ends the thread.
Fail == ClientGone /\ UNCHANGED disk

\* ReadingServerList: a list that cannot be read ends in a state that does nothing,
\* as does every exception while a state is entered.
AfterReading == {"Final", "Resolve", "ChooseServer"}

\* The settings may be wrong.  A server in the local network or given by its address
\* needs no list, and a list may have been cached.  The guid of the last game is
\* read from disk.
StartLogin ==
    /\ client.state = "Off"
    /\ \E s \in Logins : server.state[s] = "none"
    /\ \E state \in {"Downloading"} \cup AfterReading :
          client' = [Off EXCEPT !.state = state, !.guid = disk]
    /\ ClientOnly /\ UNCHANGED <<disk, down, ended>>

\* What is downloaded need not be a list.
DownloadEnds ==
    /\ client.state = "Downloading"
    /\ ClientOnly
    /\ \/ Fail
       \/ /\ \E state \in AfterReading : client' = [client EXCEPT !.state = state]
          /\ UNCHANGED <<disk, down, ended>>

ServerChosen ==
    /\ client.state = "ChooseServer"
    /\ client' = [client EXCEPT !.state = "Resolve"]
    /\ ClientOnly /\ UNCHANGED <<disk, down, ended>>

HandleResolve ==
    /\ client.state = "Resolve"
    /\ ClientOnly
    /\ \/ Fail
       \/ /\ client' = [client EXCEPT !.state = "Connect"]
          /\ UNCHANGED <<disk, down, ended>>

\* All addresses are tried one after the other within one timeout, which is for
\* the TLS handshake as well.
HandleConnect ==
    /\ client.state = "Connect"
    /\ \E s \in Logins :
          /\ server.state[s] = "none" /\ \A t \in 1..(s - 1) : server.state[t] # "none"
          /\ client' = [client EXCEPT !.state = "StartSession", !.login = s]
          /\ server' = [server EXCEPT !.state[s] = "Connecting"]
    /\ UNCHANGED <<disk, down, ended, doubled>>

ConnectFails ==
    /\ client.state = "Connect"
    /\ Fail
    /\ ClientOnly

(***************************************************************************)
(* The client's thread in its session                                      *)
(***************************************************************************)

\* Nobody reads what is sent to a session that is closed.
Request(m) ==
    server' = IF server.state[client.login] = "Closed" THEN server
              ELSE [server EXCEPT !.unread[client.login] = Append(@, m)]

\* Wrong: who comes back to his game keeps the guid he came back with.
InitGame_GuidKept(c) ==
    /\ client' = [c EXCEPT !.state = "Playing"]
    /\ disk' = IF Head(down) = "StartInitial" THEN c.guid ELSE disk
    /\ down' = Tail(down)
    /\ UNCHANGED <<server, ended>>

\* InitGame stores the guid of the session, in case the game must be rejoined.
InitGame(c) ==
    /\ client' = [c EXCEPT !.state = "Playing"]
    /\ disk' = c.guid
    /\ down' = Tail(down)
    /\ UNCHANGED <<server, ended>>

\* An exception before or after, or a stop while the file, which is truncated first,
\* is written.
StartFails ==
    /\ ClientGone
    /\ disk' \in {disk, Nobody, client.guid}
    /\ UNCHANGED server

Enter(state) ==
    /\ client' = [client EXCEPT !.state = state]
    /\ down' = Tail(down)
    /\ UNCHANGED <<disk, server, ended>>

\* The session is established: the guid is the new one, and what was asked for
\* before is sent: in a local network that is to join the game.
HandleInitAck(offered) ==
    /\ \/ /\ client' = [client EXCEPT !.state = "WaitJoin", !.guid = client.login,
                                      !.offered = offered]
          /\ UNCHANGED server
       \/ /\ client' = [client EXCEPT !.state = "WaitJoin", !.guid = client.login]
          /\ Request(<<"Join">>)
    /\ down' = Tail(down)
    /\ UNCHANGED <<disk, ended>>

\* What a state has no handler for is ignored.
Ignore == Enter(client.state)

\* The handler of each state for message m: errors first, then what all
\* receiving states handle, then what only the state does.
HandlePacket(m) ==
    IF m \in {"Error", "End"} THEN Fail /\ UNCHANGED server
    ELSE IF client.state # "EnterLogin" /\ m = "Removed" THEN Enter("WaitJoin")
    ELSE CASE client.state = "StartSession" /\ m = "Announce" -> Enter("EnterLogin")
           [] client.state = "WaitSession" /\ m = "InitAck" -> HandleInitAck(FALSE)
           [] client.state = "WaitSession" /\ m = "InitAckRejoin" -> HandleInitAck(TRUE)
           [] client.state = "WaitJoin" /\ m = "JoinAck" -> Enter("WaitGame")
           [] client.state = "WaitGame" /\ m = "StartEvent" -> Enter("Synchronize")
           [] \/ client.state = "Synchronize" /\ m = "StartInitial"
              \/ client.state = "WaitStart" /\ m \in {"StartInitial", "StartRejoin"}
              -> InitGame(client) \/ StartFails
           [] client.state = "Playing" /\ m = "GameEnd" -> Enter("WaitGame")
           [] OTHER -> Ignore

Receive ==
    /\ client.state \in Connected /\ down # <<>>
    /\ HandlePacket(Head(down))
    /\ UNCHANGED doubled

MayRequest ==
    /\ client.state \in Connected /\ Len(server.unread[client.login]) < MaxRequests
    /\ UNCHANGED <<disk, down, ended, doubled>>

\* Name and password have been entered; the guid of the last game goes along.
LoginEntered ==
    /\ MayRequest /\ client.state = "EnterLogin"
    /\ Request(<<"Init", client.guid>>)
    /\ client' = [client EXCEPT !.state = "WaitSession"]

\* The player joins the game, or accepts the offer to come back to it.
JoinRequested ==
    /\ MayRequest /\ client.state = "WaitJoin"
    /\ Request(<<"Join">>)
    /\ client' = [client EXCEPT !.offered = FALSE]

LeaveRequested ==
    /\ MayRequest /\ client.state \in {"WaitGame", "Synchronize", "WaitStart", "Playing"}
    /\ Request(<<"Leave">>)
    /\ UNCHANGED client

\* The data of all players has arrived.
Synchronized ==
    /\ client.state = "Synchronize"
    /\ client' = [client EXCEPT !.state = "WaitStart"]
    /\ ClientOnly /\ UNCHANGED <<disk, down, ended>>

\* The player gives up, or the program or its machine stops.
ClientStops ==
    /\ client.state # "Off"
    /\ ClientGone
    /\ UNCHANGED disk /\ ClientOnly

\* Both sides notice, each in its time.
ConnectionLost ==
    /\ client.state \in Connected /\ client.login \notin ended
    /\ down' = Append(down, "End")
    /\ ended' = ended \cup {client.login}
    /\ UNCHANGED <<client, disk>> /\ ClientOnly

(***************************************************************************)
(* The server: the player's sessions, on a server v                        *)
(***************************************************************************)

Live(v) == {s \in Logins : v.state[s] \notin {"none", "Connecting", "Closed"}}
LoggedIn(v) == {s \in Logins : v.state[s] \in {"Established", "Game"}}

\* What is sent to sessions S, of which the running client has one at most.
Tell(S, messages) ==
    /\ down' = IF client.login \in S \ ended THEN down \o messages ELSE down
    /\ Len(down') <= MaxAnswers

CloseSession(v, s) ==
    [v EXCEPT !.state[s] = "Closed", !.unread[s] = <<>>, !.oldGuid[s] = Nobody,
              !.members = @ \ {s}]

\* The player's seat cannot be taken up again.
MarkPlayerAsKicked(v, s) ==
    IF s \notin v.members THEN v
    ELSE [v EXCEPT !.seats = {IF p.id = s THEN [p EXCEPT !.guid = Nobody] ELSE p :
                                 p \in v.seats}]

MoveSessionToLobby(v, s) ==
    [v EXCEPT !.state[s] = "Established", !.members = @ \ {s}]

ServerStep == UNCHANGED <<client, disk, ended>>

\* The connection is accepted, or refused since the server is full.
AddConnection(s) ==
    /\ server.state[s] = "Connecting"
    /\ \/ /\ server' = [server EXCEPT !.state[s] = "Init"]
          /\ Tell({s}, <<"Announce">>)
       \/ /\ server' = CloseSession(server, s)
          /\ Tell({s}, <<"Error">>)
    /\ ServerStep /\ UNCHANGED doubled

\* Version, password, name or address may not do; else the login is looked up.
HandleInit(v, s, guid) ==
    \/ /\ server' = CloseSession(v, s)
       /\ Tell({s}, <<"Error">>)
    \/ /\ server' = [v EXCEPT !.state[s] = "Login", !.oldGuid[s] = guid]
       /\ UNCHANGED down

\* HandleNewPlayer of the game's state.  A running game takes whose guid is that
\* of the seat; he is seated with the next hand.  (Who is noted twice is seated
\* twice, which changes nothing: his last note is enough.)
JoinGame(v, s) ==
    LET joined == [v EXCEPT !.state[s] = "Game", !.members = @ \cup {s}]
        mayRejoin == \E p \in v.seats : p.guid = v.oldGuid[s]
    IN  CASE v.phase = "open" ->
                \/ server' = joined /\ Tell({s}, <<"JoinAck">>)
                \/ server' = v /\ Tell({s}, <<"Removed">>)
          [] v.phase = "running" /\ mayRejoin ->
                /\ server' = [joined EXCEPT !.rejoining = Append(RemoveFirst(@, s), s)]
                /\ Tell({s}, <<"JoinAck", "StartEvent">>)
          [] OTHER -> server' = v /\ Tell({s}, <<"Removed">>)

\* The lobby may refuse: no such game, not invited, wrong password.
HandleJoin(v, s) ==
    CASE v.state[s] = "Established" ->
            \/ server' = v /\ Tell({s}, <<"JoinFailed">>)
            \/ v.phase # "none" /\ JoinGame(v, s)
      [] OTHER -> server' = v /\ UNCHANGED down

\* In the lobby nobody can leave a game: the session is closed.
HandleLeave(v, s) ==
    IF v.state[s] = "Game"
    THEN server' = MoveSessionToLobby(v, s) /\ Tell({s}, <<"Removed">>)
    ELSE server' = CloseSession(v, s) /\ Tell({s}, <<"Error">>)

DispatchPacket(s) ==
    /\ s \in Live(server) /\ server.unread[s] # <<>>
    /\ LET m == Head(server.unread[s])
           v == [server EXCEPT !.unread[s] = Tail(@)]
       IN  CASE m[1] = "Init" -> HandleInit(v, s, m[2])
             [] m[1] = "Join" -> HandleJoin(v, s)
             [] m[1] = "Leave" -> HandleLeave(v, s)
    /\ ServerStep /\ UNCHANGED doubled

\* Wrong: the offer is made to everybody of that name.
RejoinSeat_ByName(s) == {p \in server.seats : p.solvent}

\* GetRejoinGameIdForPlayer
RejoinSeat(s) ==
    {p \in server.seats : /\ server.oldGuid[s] # Nobody
                          /\ p.guid = server.oldGuid[s] /\ p.solvent}

\* GetPlayerId: the oldest session of that name, in the lobby first.
Previous ==
    LET oldest(state) == {s \in Logins : /\ server.state[s] = state
                                        /\ \A t \in 1..(s - 1) : server.state[t] # state}
    IN  IF oldest("Established") # {} THEN oldest("Established") ELSE oldest("Game")

\* InternalRemovePlayer: at most one session, in the lobby or in its game.
RemovePlayer(v, S) == IF S = {} THEN v ELSE CloseSession(v, CHOOSE s \in S : TRUE)

\* A player who may come back to his seat takes the place of the session that
\* had it.  Else he is refused if he is there already, or, on the official
\* server, takes the place of that session.
EstablishSession(s) ==
    /\ server.state[s] = "Login"
    /\ LET accept(S, answer) ==
              /\ server' = [RemovePlayer(server, S) EXCEPT !.state[s] = "Established"]
              /\ doubled' = (doubled \/ LoggedIn(server) \ S # {})
              /\ IF client.login \in S THEN Tell(S, <<"Error">>)
                 ELSE Tell({s}, <<answer>>)
       IN  IF RejoinSeat(s) # {}
           THEN accept(LoggedIn(server) \cap {p.id : p \in RejoinSeat(s)},
                       "InitAckRejoin")
           ELSE \/ accept(Previous, "InitAck")
                \/ /\ Previous # {}
                   /\ server' = CloseSession(server, s)
                   /\ Tell({s}, <<"Error">>)
                   /\ UNCHANGED doubled
    /\ ServerStep

\* The login is refused by the database, or cannot be answered any more.
LoginRefused(s) ==
    /\ server.state[s] = "Login"
    /\ server' = CloseSession(server, s)
    /\ Tell({s}, <<"Error">>)
    /\ ServerStep /\ UNCHANGED doubled

\* Wrong: the timer is over once the login has been sent.
TimerInitTimeout_BeforeLogin(s) ==
    /\ server.state[s] = "Init"
    /\ server' = CloseSession(server, s)
    /\ Tell({s}, <<"Error">>)
    /\ ServerStep /\ UNCHANGED doubled

TimerInitTimeout(s) ==
    /\ server.state[s] \in {"Init", "Login"}
    /\ server' = CloseSession(server, s)
    /\ Tell({s}, <<"Error">>)
    /\ ServerStep /\ UNCHANGED doubled

TimerSessionTimeout(s) ==
    /\ s \in LoggedIn(server)
    /\ server' = CloseSession(MarkPlayerAsKicked(server, s), s)
    /\ Tell({s}, <<"Error">>)
    /\ ServerStep /\ UNCHANGED doubled

\* The server notices that the connection has ended; what it had not read yet may
\* be lost.
ReadEnds(s) ==
    /\ s \in ended \cap Live(server)
    /\ server' = CloseSession(server, s)
    /\ ServerStep /\ UNCHANGED <<down, doubled>>

(***************************************************************************)
(* The game, whose other players and admin are not modelled                *)
(***************************************************************************)

GameStep == ServerStep /\ UNCHANGED doubled

CreateGame ==
    /\ server.phase = "none"
    /\ server' = [server EXCEPT !.phase = "open"]
    /\ GameStep /\ UNCHANGED down

StartEvent ==
    /\ server.phase = "open"
    /\ server' = [server EXCEPT !.phase = "starting"]
    /\ Tell(server.members, <<"StartEvent">>)
    /\ GameStep

\* Members who have come back.
Back(v) == ToSet(v.rejoining) \cap v.members

\* The last of them, if there is one.
LastBack(v) ==
    LET back == {i \in 1..Len(v.rejoining) : v.rejoining[i] \in v.members}
    IN  {v.rejoining[i] : i \in {k \in back : \A j \in back : j <= k}}

\* StartNewHand: players without chips stay; who was kicked and is not there loses
\* them.  PerformRejoin gives the seat to who has come back, one after the other.
Dealt(v, broke) ==
    LET played(p) ==
            [p EXCEPT !.solvent = @ /\ ~broke
                        /\ (p.guid # Nobody \/ p.id \in v.members)]
        reseated(p) == IF Back(v) = {} THEN {p}
                       ELSE {[p EXCEPT !.id = s, !.guid = s] : s \in LastBack(v)}
    IN  [v EXCEPT !.seats = UNION {reseated(played(p)) : p \in @}, !.rejoining = <<>>]

\* DoStart: everybody has confirmed, or has had his time.  (Of two members of one
\* name the first has the seat that is found by the name.)
DoStart ==
    /\ server.phase = "starting"
    /\ server' = Dealt([server EXCEPT
                          !.phase = "running",
                          !.seats = {[id |-> s, guid |-> s, solvent |-> TRUE] :
                                       s \in {t \in server.members :
                                                \A r \in server.members : t <= r}}],
                       FALSE)
    /\ Tell(server.members,
            <<"StartInitial">> \o (IF client.login \in Back(server)
                                  THEN <<"StartRejoin">> ELSE <<>>))
    /\ GameStep

StartNewHand ==
    /\ server.phase = "running"
    /\ \E broke \in BOOLEAN : server' = Dealt(server, broke)
    /\ Tell(Back(server), <<"StartRejoin">>)
    /\ GameStep

\* The game is over and opens again, with the same members.
EndGame ==
    /\ server.phase = "running"
    /\ server' = [server EXCEPT !.phase = "open", !.seats = {}]
    /\ Tell(server.members, <<"GameEnd">>)
    /\ GameStep

\* Kicked, timed out, the start failed: a member is sent to the lobby.
SendBack(s) ==
    /\ s \in server.members
    /\ \E kicked \in BOOLEAN :
          server' = MoveSessionToLobby(IF kicked THEN MarkPlayerAsKicked(server, s)
                                       ELSE server, s)
    /\ Tell({s}, <<"Removed">>)
    /\ GameStep

\* An error, or nobody is left.
GameCloses ==
    /\ server.phase # "none"
    /\ server' = [server EXCEPT
                    !.phase = "none", !.seats = {}, !.members = {},
                    !.rejoining = <<>>,
                    !.state = [s \in Logins |->
                                 IF s \in server.members THEN "Established" ELSE @[s]]]
    /\ Tell(server.members, <<"Removed">>)
    /\ GameStep

(***************************************************************************)
(* The specification                                                       *)
(***************************************************************************)

ClientStep ==
    \/ StartLogin \/ DownloadEnds \/ ServerChosen
    \/ HandleResolve \/ HandleConnect \/ ConnectFails
    \/ Receive \/ LoginEntered \/ JoinRequested \/ LeaveRequested \/ Synchronized
    \/ ClientStops \/ ConnectionLost

ServerLobbyStep ==
    \E s \in Logins :
       \/ AddConnection(s) \/ DispatchPacket(s)
       \/ EstablishSession(s) \/ LoginRefused(s)
       \/ TimerInitTimeout(s) \/ TimerSessionTimeout(s) \/ ReadEnds(s)

TableStep ==
    \/ CreateGame \/ StartEvent \/ DoStart \/ StartNewHand \/ EndGame \/ GameCloses
    \/ \E s \in Logins : SendBack(s)

Next == ClientStep \/ ServerLobbyStep \/ TableStep

Spec == Init /\ [][Next]_vars

\* The resolver answers, the timeout of the connection runs, the client handles
\* what it receives, and the server goes on accepting connections, handling what
\* it has read and ending logins that take too long.  Nothing is assumed of the
\* player, the download, the database or the other players.
FairSpec ==
    /\ Spec
    /\ WF_vars(HandleResolve \/ ConnectFails \/ Receive)
    /\ WF_vars(\E s \in Logins :
                  AddConnection(s) \/ DispatchPacket(s) \/ TimerInitTimeout(s))

(***************************************************************************)
(* Properties                                                              *)
(***************************************************************************)

\* The seat that a login may come back to.
OpenSeats == {p \in server.seats : p.guid # Nobody}

\* Whoever plays can stop at any moment and come back: the guid on his disk is
\* that of his seat, though the one is written by the client when it hears of
\* the start of a game and the other by the server when it starts one or seats
\* a player again.
RejoinPossible ==
    client.state = "Playing" /\ ~doubled => \A p \in OpenSeats : p.guid = disk

\* An offer to come back that the player has not answered yet holds as long as
\* the game goes on: the seat is still the one his login named.
OfferHolds ==
    (client.offered /\ ~doubled /\ server.state[client.login] = "Established")
      => \A p \in OpenSeats : p.guid = server.oldGuid[client.login]

\* Once an attempt to connect is under way it comes to something, as does a request
\* for a session and the wait for the server's announcement.
AttemptEnds ==
    client.state \in Attempts ~> client.state \notin Attempts

=============================================================================
