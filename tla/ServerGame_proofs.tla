--------------------------- MODULE ServerGame_proofs ---------------------------
(***************************************************************************)
(* The invariants of ServerGame, for every set of players, every number of *)
(* seats and every bound.                                                  *)
(***************************************************************************)
EXTENDS ServerGame, FiniteSetTheorems, TLAPS

\* What keeps a player's return from overfilling the table: while the game
\* runs, the people in it are among the seated, who fit with the computers.
SeatsFit ==
    game /\ state = "Running" =>
        /\ inGame \subseteq seated
        /\ Cardinality(seated) + computers <= MaxPlayers

IInv == TypeOK /\ AdminIsUnique /\ ReadyIsCurrent /\ NeverOverfull /\ SeatsFit

\* The part of TypeOK that speaks of people.
PeopleType ==
    /\ attached \in SUBSET Players /\ inGame \in SUBSET attached
    /\ adminId \in Players \cup {NoPlayer}
    /\ admins \in SUBSET Players /\ confirmed \in SUBSET Players

\* Sets of players are finite, and a part of one is not larger.
LEMMA PartsAreSmaller ==
    ASSUME NEW S \in SUBSET Players, NEW T \in SUBSET S
    PROVE  /\ Cardinality(S) \in Nat /\ Cardinality(T) \in Nat
           /\ Cardinality(T) <= Cardinality(S)
  <1>1. IsFiniteSet(S)
    BY FS_Subset, GameAssumption
  <1>2. IsFiniteSet(T) /\ Cardinality(T) <= Cardinality(S)
    BY <1>1, FS_Subset
  <1> QED BY <1>1, <1>2, FS_CardinalityType

\* The handler that is run leaves a queue of handlers.
LEMMA RunsType ==
    ASSUME TypeOK, NEW handler, Runs(handler)
    PROVE  expired' \in Seq(Handlers) /\ state = StateOf(handler)
  BY DEF TypeOK, Runs

\* The admin timeout begins with the warning, if there is one.
LEMMA AdminTimerType == AdminTimer \in Handlers \cup {"none"}
  BY DEF AdminTimer, Handlers

\* Players who leave take their flags and confirmations with them.
LEMMA RemovePlayersSound ==
    ASSUME IInv, NEW gone \in SUBSET inGame, RemovePlayers(gone)
    PROVE  /\ PeopleType' /\ AdminIsUnique'
           /\ inGame' \subseteq inGame /\ confirmed' \subseteq confirmed
           /\ confirmed' \subseteq inGame'
           /\ Cardinality(inGame') \in Nat
           /\ Cardinality(inGame') <= Cardinality(inGame)
  <1>1. /\ inGame' = inGame \ gone /\ attached' = attached \ gone
        /\ confirmed' = confirmed \ gone
        /\ HandOverAdmin(gone)
    BY DEF RemovePlayers
  <1>2. TypeOK /\ AdminIsUnique /\ ReadyIsCurrent
    BY DEF IInv
  <1>3. /\ adminId' \in Players \cup {NoPlayer} /\ admins' \in SUBSET Players
        /\ AdminIsUnique'
    <2>1. CASE admins \cap gone = {}
      BY <2>1, <1>1, <1>2 DEF HandOverAdmin, TypeOK, AdminIsUnique
    <2>2. CASE admins \cap gone # {}
      <3>1. PICK q \in IF inGame \ gone = {} THEN gone ELSE inGame \ gone :
               adminId' = q /\ admins' = (admins \ gone) \cup ({q} \cap (inGame \ gone))
        BY <2>2, <1>1 DEF HandOverAdmin
      <3>2. q \in Players
        BY <3>1, <1>2 DEF TypeOK
      <3>3. admins \ gone = {}
        BY <2>2, <1>2 DEF AdminIsUnique
      <3> QED BY <3>1, <3>2, <3>3, <1>1 DEF AdminIsUnique
    <2> QED BY <2>1, <2>2
  <1>4. Cardinality(inGame') \in Nat /\ Cardinality(inGame') <= Cardinality(inGame)
    BY <1>1, <1>2, PartsAreSmaller DEF TypeOK
  <1> QED BY <1>1, <1>2, <1>3, <1>4 DEF PeopleType, TypeOK, ReadyIsCurrent

\* One player is moved to the lobby.
LEMMA MoveSessionToLobbySound ==
    ASSUME IInv, NEW p \in inGame, MoveSessionToLobby(p), expired' \in Seq(Handlers)
    PROVE  IInv'
  <1>1. RemovePlayers({p}) /\ NotifyLeft({p}) /\ UNCHANGED <<kind, state, record>>
    BY DEF MoveSessionToLobby
  <1>2. /\ PeopleType' /\ AdminIsUnique'
        /\ inGame' \subseteq inGame /\ confirmed' \subseteq confirmed
        /\ confirmed' \subseteq inGame'
        /\ Cardinality(inGame') \in Nat
        /\ Cardinality(inGame') <= Cardinality(inGame)
    BY <1>1, RemovePlayersSound
  <1>3. TypeOK /\ ReadyIsCurrent /\ NeverOverfull /\ SeatsFit
    BY DEF IInv
  <1>4. timer1' \in Handlers \cup {"none"} /\ timer2' \in {"AutoStart", "none"}
    BY <1>1, <1>3, AdminTimerType DEF NotifyLeft, timers, TypeOK
  <1>5. TypeOK'
    BY <1>1, <1>2, <1>3, <1>4 DEF TypeOK, PeopleType, record
  <1>6. ReadyIsCurrent' /\ SeatsFit'
    BY <1>1, <1>2, <1>3 DEF ReadyIsCurrent, SeatsFit, record
  <1>7. NeverOverfull'
    <2>1. Cardinality(inGame) \in Nat
      BY <1>3, PartsAreSmaller DEF TypeOK
    <2> QED BY <2>1, <1>1, <1>2, <1>3, GameAssumption
            DEF NeverOverfull, NumberOfPlayers, record, TypeOK
  <1> QED BY <1>2, <1>5, <1>6, <1>7 DEF IInv

\* Nothing the invariant speaks of changes, but the timers and the queue.
LEMMA OnlyTimersSound ==
    ASSUME IInv, UNCHANGED <<kind, state, inGame, attached, adminId, admins, confirmed>>,
           UNCHANGED <<computers, joins, seated, game>>,
           autoLeave' \in SUBSET Players, listed' \in BOOLEAN,
           timer1' \in Handlers \cup {"none"}, timer2' \in {"AutoStart", "none"},
           expired' \in Seq(Handlers)
    PROVE  IInv'
  <1>1. TypeOK'
    BY DEF IInv, TypeOK
  <1> QED BY <1>1 DEF IInv, TypeOK, AdminIsUnique, ReadyIsCurrent, NeverOverfull,
                      NumberOfPlayers, SeatsFit

\* A new game.
LEMMA InitSound == Init => IInv
  <1> SUFFICES ASSUME Init PROVE IInv
    OBVIOUS
  <1>1. PICK p \in Players :
           /\ inGame = {p} /\ attached = {p} /\ adminId = p /\ admins = {p}
           /\ joins = [q \in Players |-> IF q = p THEN 1 ELSE 0]
           /\ autoLeave \in SUBSET {p}
    BY DEF Init
  <1>2. joins \in [Players -> 0..MaxJoins]
    BY <1>1, GameAssumption
  <1>3. expired \in Seq(Handlers)
    BY DEF Init
  <1>4. TypeOK
    BY <1>1, <1>2, <1>3, AdminTimerType DEF Init, TypeOK, States
  <1>5. NeverOverfull
    <2>1. Cardinality(inGame) = 1
      BY <1>1, FS_Singleton
    <2> QED BY <2>1, GameAssumption DEF Init, NeverOverfull, NumberOfPlayers
  <1> QED BY <1>1, <1>4, <1>5 DEF Init, IInv, AdminIsUnique, ReadyIsCurrent, SeatsFit

\* A player leaves, is kicked, may not start, or was the idle admin.
LEMMA LeavingSound ==
    ASSUME IInv, NEW p \in Players, NEW q \in Players,
           LeaveGame(p) \/ KickPlayer(p, q) \/ StartRefused(p)
    PROVE  IInv'
  <1>1. expired' \in Seq(Handlers)
    BY DEF IInv, TypeOK, LeaveGame, KickPlayer, StartRefused
  <1> QED BY <1>1, MoveSessionToLobbySound DEF LeaveGame, KickPlayer, StartRefused

\* A player who is not in the game leaves nothing behind.
LEMMA OutsideSound ==
    ASSUME IInv, NEW p \in Players, LeaveLimbo(p) \/ Login(p)
    PROVE  IInv'
  <1>1. TypeOK /\ AdminIsUnique
    BY DEF IInv
  <1>2. CASE LeaveLimbo(p)
    <2>1. TypeOK'
      BY <1>1, <1>2 DEF LeaveLimbo, TypeOK, timers, record
    <2> QED BY <2>1, <1>2 DEF LeaveLimbo, timers, record, IInv, AdminIsUnique,
               ReadyIsCurrent, NeverOverfull, NumberOfPlayers, SeatsFit
  <1>3. CASE Login(p)
    <2>1. TypeOK'
      BY <1>1, <1>3 DEF Login, TypeOK, timers
    <2>2. AdminIsUnique'
      BY <1>1, <1>3 DEF Login, TypeOK, AdminIsUnique
    <2> QED BY <2>1, <2>2, <1>3 DEF Login, timers, IInv, ReadyIsCurrent,
               NeverOverfull, NumberOfPlayers, SeatsFit
  <1> QED BY <1>2, <1>3

\* Whoever is accepted has the flag exactly if the game has his id.
LEMMA AcceptNewSessionSound ==
    ASSUME IInv, NEW p \in Players, AcceptNewSession(p), p \notin attached
    PROVE  /\ PeopleType' /\ AdminIsUnique' /\ confirmed' \subseteq inGame'
           /\ confirmed' = confirmed /\ inGame' = inGame \cup {p}
           /\ Cardinality(inGame) \in Nat
           /\ Cardinality(inGame') = Cardinality(inGame) + 1
  <1>1. TypeOK /\ AdminIsUnique /\ ReadyIsCurrent
    BY DEF IInv
  <1>2. IsFiniteSet(inGame) /\ p \notin inGame
    BY <1>1, FS_Subset, GameAssumption DEF TypeOK
  <1>3. /\ Cardinality(inGame) \in Nat
        /\ Cardinality(inGame \cup {p}) = Cardinality(inGame) + 1
    BY <1>2, FS_AddElement, FS_CardinalityType
  <1>4. PeopleType'
    BY <1>1 DEF AcceptNewSession, TypeOK, PeopleType
  <1>5. AdminIsUnique'
    BY <1>1 DEF AcceptNewSession, AdminIsUnique
  <1> QED BY <1>1, <1>3, <1>4, <1>5 DEF AcceptNewSession, ReadyIsCurrent

\* A free slot is taken.
LEMMA JoinInitSound ==
    ASSUME IInv, NEW p \in Players, NEW auto \in BOOLEAN, JoinInit(p, auto)
    PROVE  IInv'
  <1>1. TypeOK /\ SeatsFit /\ ReadyIsCurrent
    BY DEF IInv
  <1>2. AcceptNewSession(p) /\ p \notin attached /\ state = "Init" /\ ~Full
    BY DEF JoinInit, JoinRequest
  <1>3. /\ PeopleType' /\ AdminIsUnique' /\ confirmed' \subseteq inGame'
        /\ confirmed' = confirmed
        /\ Cardinality(inGame) \in Nat
        /\ Cardinality(inGame') = Cardinality(inGame) + 1
    BY <1>2, AcceptNewSessionSound
  <1>4. joins' \in [Players -> 0..MaxJoins]
    BY <1>1, GameAssumption DEF JoinInit, TypeOK
  <1>5. TypeOK'
    BY <1>1, <1>3, <1>4 DEF JoinInit, StoreAutoLeave, TypeOK, PeopleType
  <1>6. NeverOverfull'
    BY <1>1, <1>2, <1>3, GameAssumption
       DEF JoinInit, Full, NeverOverfull, NumberOfPlayers, TypeOK
  <1>7. ReadyIsCurrent' /\ SeatsFit'
    BY <1>1, <1>2, <1>3 DEF JoinInit, ReadyIsCurrent, SeatsFit
  <1> QED BY <1>3, <1>5, <1>6, <1>7 DEF IInv

\* The returning player was seated, and the seated fit.
LEMMA RejoinSound ==
    ASSUME IInv, NEW p \in Players, NEW auto \in BOOLEAN, Rejoin(p, auto)
    PROVE  IInv'
  <1>1. TypeOK /\ SeatsFit /\ ReadyIsCurrent
    BY DEF IInv
  <1>2. /\ AcceptNewSession(p) /\ p \notin attached /\ state = "Running"
        /\ game /\ p \in seated
    BY DEF Rejoin, JoinRequest
  <1>3. /\ PeopleType' /\ AdminIsUnique' /\ confirmed' \subseteq inGame'
        /\ confirmed' = confirmed /\ inGame' = inGame \cup {p}
        /\ Cardinality(inGame) \in Nat
        /\ Cardinality(inGame') = Cardinality(inGame) + 1
    BY <1>2, AcceptNewSessionSound
  <1>4. TypeOK'
    BY <1>1, <1>3 DEF Rejoin, StoreAutoLeave, TypeOK, PeopleType, timers
  <1>5. ReadyIsCurrent' /\ SeatsFit'
    BY <1>1, <1>2, <1>3 DEF Rejoin, ReadyIsCurrent, SeatsFit
  <1>6. NeverOverfull'
    <2>1. inGame' \subseteq seated /\ seated \in SUBSET Players
      BY <1>1, <1>2, <1>3 DEF SeatsFit, TypeOK
    <2>2. /\ Cardinality(inGame') <= Cardinality(seated)
          /\ Cardinality(inGame') \in Nat /\ Cardinality(seated) \in Nat
      BY <2>1, PartsAreSmaller
    <2>3. Cardinality(seated) + computers <= MaxPlayers /\ computers' = computers
      BY <1>1, <1>2 DEF SeatsFit, Rejoin
    <2> QED BY <2>2, <2>3, <1>1, GameAssumption DEF NeverOverfull, NumberOfPlayers, TypeOK
  <1> QED BY <1>3, <1>4, <1>5, <1>6 DEF IInv

\* A session that is not accepted changes no list but that of auto leave, or
\* is attached to a game that has ended.
LEMMA NotAcceptedSound ==
    ASSUME IInv, NEW p \in Players, NEW auto \in BOOLEAN,
           JoinRefused(p, auto) \/ JoinFinal(p, auto)
    PROVE  IInv'
  <1>1. TypeOK
    BY DEF IInv
  <1>2. autoLeave' \in SUBSET Players
    BY <1>1 DEF JoinRefused, JoinFinal, StoreAutoLeave, TypeOK
  <1>3. TypeOK'
    BY <1>1, <1>2 DEF JoinRefused, JoinFinal, TypeOK, people, timers
  <1> QED BY <1>3 DEF JoinRefused, JoinFinal, people, timers, IInv, AdminIsUnique,
             ReadyIsCurrent, NeverOverfull, NumberOfPlayers, SeatsFit

\* Computer players take the slots that are free and no more.
LEMMA SendStartEventSound ==
    ASSUME IInv, NEW fill \in BOOLEAN, SendStartEvent(fill), state = "Init",
           expired' \in Seq(Handlers)
    PROVE  IInv'
  <1>1. TypeOK /\ NeverOverfull /\ SeatsFit
    BY DEF IInv
  <1>2. Cardinality(inGame) \in Nat
    BY <1>1, PartsAreSmaller DEF TypeOK
  <1>3. computers' \in Nat /\ Cardinality(inGame) + computers' <= MaxPlayers
    BY <1>1, <1>2, GameAssumption
       DEF SendStartEvent, Full, NeverOverfull, NumberOfPlayers, TypeOK
  <1>4. TypeOK'
    BY <1>1, <1>3 DEF SendStartEvent, TypeOK, people, States, Handlers
  <1>5. NeverOverfull'
    BY <1>3 DEF SendStartEvent, people, NeverOverfull, NumberOfPlayers
  <1> QED BY <1>1, <1>4, <1>5
          DEF SendStartEvent, people, IInv, AdminIsUnique, ReadyIsCurrent, SeatsFit

\* Everybody confirmed or the time is up: the people in the game are seated.
LEMMA DoStartSound ==
    ASSUME IInv, DoStart, state = "StartGame", expired' \in Seq(Handlers)
    PROVE  IInv'
  <1>1. TypeOK /\ AdminIsUnique /\ NeverOverfull /\ SeatsFit
    BY DEF IInv
  <1>2. CASE NumberOfPlayers >= 2
    <2>1. TypeOK'
      BY <1>1, <1>2 DEF DoStart, TypeOK, States, Handlers
    <2>2. NeverOverfull' /\ SeatsFit'
      BY <1>1, <1>2 DEF DoStart, NeverOverfull, NumberOfPlayers, SeatsFit
    <2> QED BY <1>1, <1>2, <2>1, <2>2 DEF DoStart, IInv, AdminIsUnique, ReadyIsCurrent
  <1>3. CASE ~(NumberOfPlayers >= 2)
    <2>1. /\ inGame' = {} /\ attached' = attached \ inGame
          /\ confirmed' = {} /\ HandOverAdmin(inGame)
          /\ UNCHANGED <<game, seated, state, timer1, autoLeave>>
          /\ UNCHANGED <<kind, computers, joins, listed, timer2>>
      BY <1>3 DEF DoStart
    <2>2. admins' = {} /\ adminId' \in Players \cup {NoPlayer}
      <3>1. CASE admins \cap inGame = {}
        BY <3>1, <2>1, <1>1 DEF HandOverAdmin, AdminIsUnique, TypeOK
      <3>2. CASE admins \cap inGame # {}
        BY <3>2, <2>1, <1>1 DEF HandOverAdmin, AdminIsUnique, TypeOK
      <3> QED BY <3>1, <3>2
    <2>3. TypeOK'
      BY <1>1, <2>1, <2>2 DEF TypeOK
    <2>4. NeverOverfull'
      <3>1. Cardinality(inGame') = 0 /\ Cardinality(inGame) \in Nat
        BY <1>1, <2>1, FS_EmptySet, PartsAreSmaller DEF TypeOK
      <3> QED BY <1>1, <2>1, <3>1, GameAssumption DEF NeverOverfull, NumberOfPlayers, TypeOK
    <2> QED BY <1>1, <2>1, <2>2, <2>3, <2>4
            DEF IInv, AdminIsUnique, ReadyIsCurrent, SeatsFit
  <1> QED BY <1>2, <1>3

\* The handlers that move a start along.
LEMMA HandlerStartsSound ==
    ASSUME IInv, TimerAutoStart \/ TimerStartTimeout
    PROVE  IInv'
  <1>1. TypeOK
    BY DEF IInv
  <1>2. CASE TimerAutoStart
    <2>1. expired' \in Seq(Handlers) /\ state = "Init"
      BY <1>1, <1>2, RunsType DEF TimerAutoStart, StateOf
    <2> QED BY <2>1, <1>2, SendStartEventSound DEF TimerAutoStart
  <1>3. CASE TimerStartTimeout
    <2>1. expired' \in Seq(Handlers) /\ state = "StartGame"
      BY <1>1, <1>3, RunsType DEF TimerStartTimeout, StateOf
    <2> QED BY <2>1, <1>3, DoStartSound DEF TimerStartTimeout
  <1> QED BY <1>2, <1>3

\* The admin starts the game.
LEMMA StartEventSound ==
    ASSUME IInv, NEW p \in Players, NEW fill \in BOOLEAN, StartEvent(p, fill)
    PROVE  IInv'
  BY SendStartEventSound DEF StartEvent, IInv, TypeOK

\* A player confirms, the last one or not.
LEMMA StartEventAckSound ==
    ASSUME IInv, NEW p \in Players, StartEventAck(p)
    PROVE  IInv'
  <1>1. TypeOK
    BY DEF IInv
  <1>2. CASE confirmed \cup {p} = inGame
    BY <1>1, <1>2, DoStartSound DEF StartEventAck, TypeOK
  <1>3. CASE confirmed \cup {p} # inGame
    <2>1. TypeOK'
      BY <1>1, <1>3 DEF StartEventAck, TypeOK, timers, record
    <2> QED BY <2>1, <1>3 DEF StartEventAck, timers, record, IInv, AdminIsUnique,
               ReadyIsCurrent, NeverOverfull, NumberOfPlayers, SeatsFit
  <1> QED BY <1>2, <1>3

\* Timers that expire and handlers that leave the game where it is.
LEMMA TimersSound ==
    ASSUME IInv,
           \/ Expire1 \/ Expire2 \/ StaleHandler \/ TimerAdminWarning
           \/ TimerAdminTimeout
    PROVE  IInv'
  <1>1. TypeOK
    BY DEF IInv
  <1>2. CASE Expire1 \/ Expire2
    <2>1. expired' \in Seq(Handlers)
      BY <1>1, <1>2 DEF Expire1, Expire2, Expire, TypeOK, Handlers
    <2> QED BY <1>1, <1>2, <2>1, OnlyTimersSound
            DEF Expire1, Expire2, Expire, TypeOK, people, record
  <1>3. CASE StaleHandler
    <2>1. expired' \in Seq(Handlers)
      BY <1>1, <1>3 DEF StaleHandler, TypeOK
    <2> QED BY <1>1, <1>3, <2>1, OnlyTimersSound
            DEF StaleHandler, TypeOK, people, timers, record
  <1>4. CASE TimerAdminWarning
    <2>1. expired' \in Seq(Handlers)
      BY <1>1, <1>4, RunsType DEF TimerAdminWarning
    <2>2. /\ UNCHANGED <<kind, state, inGame, attached, adminId, admins, confirmed>>
          /\ UNCHANGED <<computers, joins, seated, game>>
      BY <1>4 DEF TimerAdminWarning, people, record
    <2>3. /\ autoLeave' \in SUBSET Players /\ listed' \in BOOLEAN
      BY <1>1, <1>4 DEF TimerAdminWarning, TypeOK, record
    <2>4. timer1' \in Handlers \cup {"none"} /\ timer2' \in {"AutoStart", "none"}
      BY <1>1, <1>4 DEF TimerAdminWarning, TypeOK, Handlers
    <2> QED BY <2>1, <2>2, <2>3, <2>4, OnlyTimersSound
  <1>5. CASE TimerAdminTimeout
    <2>1. expired' \in Seq(Handlers)
      BY <1>1, <1>5, RunsType DEF TimerAdminTimeout
    <2>2. CASE adminId \in inGame
      BY <1>5, <2>1, <2>2, MoveSessionToLobbySound DEF TimerAdminTimeout
    <2>3. CASE adminId \notin inGame
      BY <1>1, <1>5, <2>1, <2>3, OnlyTimersSound
         DEF TimerAdminTimeout, TypeOK, people, timers, record
    <2> QED BY <2>2, <2>3
  <1> QED BY <1>2, <1>3, <1>4, <1>5

\* The admin gets a new timeout.
LEMMA ResetTimeoutSound ==
    ASSUME IInv, NEW p \in Players, ResetTimeout(p)
    PROVE  IInv'
  BY OnlyTimersSound, AdminTimerType DEF ResetTimeout, IInv, TypeOK, people, record

\* The game is over; those who stay are in a new Init.
LEMMA ReopenSound ==
    ASSUME IInv, Reopen, state = "Running", UNCHANGED <<kind, listed>>,
           game' \in BOOLEAN, expired' \in Seq(Handlers),
           joins' \in [Players -> 0..MaxJoins], seated' \in SUBSET Players
    PROVE  IInv'
  <1>1. TypeOK /\ NeverOverfull /\ ReadyIsCurrent
    BY DEF IInv
  <1>2. /\ PeopleType' /\ AdminIsUnique' /\ confirmed' \subseteq confirmed
        /\ Cardinality(inGame') \in Nat
        /\ Cardinality(inGame') <= Cardinality(inGame)
    BY RemovePlayersSound DEF Reopen
  <1>3. TypeOK'
    BY <1>1, <1>2, AdminTimerType DEF Reopen, TypeOK, PeopleType, States
  <1>4. NeverOverfull'
    <2>1. Cardinality(inGame) \in Nat
      BY <1>1, PartsAreSmaller DEF TypeOK
    <2> QED BY <1>1, <1>2, <2>1, GameAssumption
            DEF Reopen, NeverOverfull, NumberOfPlayers, TypeOK
  <1>5. ReadyIsCurrent' /\ SeatsFit'
    BY <1>1, <1>2 DEF Reopen, ReadyIsCurrent, SeatsFit
  <1> QED BY <1>2, <1>3, <1>4, <1>5 DEF IInv

\* The end of a game, at once or after the winner was shown.
LEMMA EndGameSound ==
    ASSUME IInv, EndGame \/ TimerNextGame
    PROVE  IInv'
  <1>1. TypeOK /\ SeatsFit
    BY DEF IInv
  <1>2. CASE EndGame
    <2>1. joins' \in [Players -> 0..MaxJoins]
      BY <1>2, GameAssumption DEF EndGame
    <2>2. CASE Reopen
      BY <1>1, <1>2, <2>1, <2>2, ReopenSound DEF EndGame, TypeOK
    <2>3. CASE timer1' = "NextGame" /\ UNCHANGED <<state, people, timer2, computers, autoLeave>>
      <3>1. TypeOK'
        BY <1>1, <1>2, <2>1, <2>3 DEF EndGame, TypeOK, people, Handlers
      <3> QED BY <1>2, <2>3, <3>1 DEF EndGame, people, IInv, AdminIsUnique,
                 ReadyIsCurrent, NeverOverfull, NumberOfPlayers, SeatsFit
    <2> QED BY <1>2, <2>2, <2>3 DEF EndGame
  <1>3. CASE TimerNextGame
    <2>1. expired' \in Seq(Handlers) /\ state = "Running"
      BY <1>1, <1>3, RunsType DEF TimerNextGame, StateOf
    <2>2. /\ Reopen /\ UNCHANGED <<kind, listed>>
          /\ UNCHANGED <<game, joins, seated>>
      BY <1>3 DEF TimerNextGame
    <2> QED BY <1>1, <2>1, <2>2, ReopenSound DEF TypeOK
  <1> QED BY <1>2, <1>3

\* Everybody is removed.
LEMMA RemovalSound ==
    ASSUME IInv, CloseOnError \/ TimerRemoveGame \/ AdminRemoveGame
    PROVE  IInv'
  <1>1. TypeOK /\ NeverOverfull /\ SeatsFit
    BY DEF IInv
  <1>2. RemoveAllSessions /\ computers' \in {computers, 0} /\ listed' \in BOOLEAN
    BY <1>1 DEF CloseOnError, TimerRemoveGame, AdminRemoveGame, InternalRemoveGame, TypeOK
  <1>3. admins' = {} /\ adminId' \in Players \cup {NoPlayer}
    <2>1. admins \subseteq inGame /\ inGame \subseteq Players
      BY <1>1 DEF IInv, AdminIsUnique, TypeOK
    <2> QED BY <1>1, <1>2, <2>1 DEF RemoveAllSessions, HandOverAdmin, TypeOK
  <1>4. TypeOK'
    BY <1>1, <1>2, <1>3 DEF RemoveAllSessions, TypeOK, States
  <1>5. Cardinality(inGame') = 0 /\ Cardinality(inGame) \in Nat /\ Cardinality(seated) \in Nat
    BY <1>1, <1>2, FS_EmptySet, PartsAreSmaller DEF RemoveAllSessions, TypeOK
  <1>6. NeverOverfull'
    <2>1. computers \in Nat /\ Cardinality(inGame) + computers <= MaxPlayers
      BY <1>1 DEF NeverOverfull, NumberOfPlayers, TypeOK
    <2>2. computers' \in Nat /\ computers' <= MaxPlayers
      BY <2>1, <1>2, <1>5, GameAssumption
    <2> QED BY <2>2, <1>5 DEF NeverOverfull, NumberOfPlayers
  <1>7. SeatsFit'
    BY <1>1, <1>2, <1>5, GameAssumption DEF RemoveAllSessions, SeatsFit, TypeOK
  <1> QED BY <1>2, <1>3, <1>4, <1>6, <1>7
          DEF RemoveAllSessions, IInv, AdminIsUnique, ReadyIsCurrent

\* Every step of the life cycle keeps the invariant.
LEMMA NextSound == IInv /\ [Next]_vars => IInv'
  <1> SUFFICES ASSUME IInv, [Next]_vars PROVE IInv'
    OBVIOUS
  <1>1. CASE \E p \in Players : LeaveGame(p) \/ StartRefused(p)
    BY <1>1, LeavingSound
  <1>2. CASE \E p, q \in Players : KickPlayer(p, q)
    BY <1>2, LeavingSound
  <1>3. CASE \E p \in Players : LeaveLimbo(p) \/ Login(p)
    BY <1>3, OutsideSound
  <1>4. CASE \E p \in Players, auto \in BOOLEAN : JoinInit(p, auto) \/ Rejoin(p, auto)
    BY <1>4, JoinInitSound, RejoinSound
  <1>5. CASE \E p \in Players, auto \in BOOLEAN :
                JoinRefused(p, auto) \/ JoinFinal(p, auto)
    BY <1>5, NotAcceptedSound
  <1>6. CASE \E p \in Players, fill \in BOOLEAN : StartEvent(p, fill)
    BY <1>6, StartEventSound
  <1>7. CASE \E p \in Players : StartEventAck(p)
    BY <1>7, StartEventAckSound
  <1>8. CASE TimerAutoStart \/ TimerStartTimeout
    BY <1>8, HandlerStartsSound
  <1>9. CASE \E p \in Players : ResetTimeout(p)
    BY <1>9, ResetTimeoutSound
  <1>10. CASE \/ Expire1 \/ Expire2 \/ StaleHandler \/ TimerAdminWarning
              \/ TimerAdminTimeout
    BY <1>10, TimersSound
  <1>11. CASE EndGame \/ TimerNextGame
    BY <1>11, EndGameSound
  <1>12. CASE CloseOnError \/ TimerRemoveGame \/ AdminRemoveGame
    BY <1>12, RemovalSound
  <1>13. CASE UNCHANGED vars
    BY <1>13 DEF vars, people, timers, record, IInv, TypeOK, AdminIsUnique,
                 ReadyIsCurrent, NeverOverfull, NumberOfPlayers, SeatsFit
  <1> QED
    BY <1>1, <1>2, <1>3, <1>4, <1>5, <1>6, <1>7, <1>8, <1>9, <1>10, <1>11, <1>12,
       <1>13 DEF Next, GameGone

\* IInv holds in every reachable state.
LEMMA InvariantHolds == Spec => []IInv
  BY InitSound, NextSound, PTL DEF Spec

\* The bookkeeping stays well formed; nobody joins more often than allowed.
THEOREM GameTypeCorrect == Spec => []TypeOK
  <1>1. IInv => TypeOK
    BY DEF IInv
  <1> QED BY <1>1, InvariantHolds, PTL

\* A game has one admin at most, who is in it and whose id it knows, through
\* every departure, kick, return and new login.
THEOREM OneAdmin == Spec => []AdminIsUnique
  <1>1. IInv => AdminIsUnique
    BY DEF IInv
  <1> QED BY <1>1, InvariantHolds, PTL

\* Confirmations are of those who are in the game, and of this start.
THEOREM ConfirmationsAreCurrent == Spec => []ReadyIsCurrent
  <1>1. IInv => ReadyIsCurrent
    BY DEF IInv
  <1> QED BY <1>1, InvariantHolds, PTL

\* People and computer players together never exceed the seats.
THEOREM GameNeverOverfull == Spec => []NeverOverfull
  <1>1. IInv => NeverOverfull
    BY DEF IInv
  <1> QED BY <1>1, InvariantHolds, PTL

\* Where nobody leaves, no admin does.
LEMMA NobodyLeaves == IInv /\ inGame \subseteq inGame' => HandedOver
  BY DEF IInv, AdminIsUnique, HandedOver

\* A removal that leaves somebody behind leaves an admin behind.
LEMMA RemovalHandsOver ==
    ASSUME IInv, NEW gone \in SUBSET inGame, RemovePlayers(gone),
           NEW p \in admins \ inGame', inGame' # {}
    PROVE  admins \cap gone # {} /\ inGame # gone /\ admins' # {}
  <1>1. admins \cap gone # {} /\ inGame \ gone # {}
    BY DEF IInv, AdminIsUnique, RemovePlayers
  <1>2. PICK q \in inGame \ gone :
           admins' = (admins \ gone) \cup ({q} \cap (inGame \ gone))
    BY <1>1 DEF RemovePlayers, HandOverAdmin
  <1> QED BY <1>1, <1>2

\* One player is moved to the lobby, maybe the admin.
LEMMA MoveHandsOver ==
    ASSUME IInv, NEW q \in inGame, MoveSessionToLobby(q)
    PROVE  HandedOver
  <1> SUFFICES ASSUME NEW p \in admins \ inGame', inGame' # {}
               PROVE  /\ admins' # {}
                      /\ state' = "Init" /\ kind = "normal" => timer1' = "AdminWarning"
    BY DEF HandedOver
  <1>1. admins \cap {q} # {} /\ inGame # {q} /\ admins' # {}
    BY RemovalHandsOver DEF MoveSessionToLobby
  <1> QED BY <1>1 DEF MoveSessionToLobby, NotifyLeft, AdminTimer

\* The auto leave players go, maybe the admin among them.
LEMMA ReopenHandsOver ==
    ASSUME IInv, Reopen
    PROVE  HandedOver
  <1> SUFFICES ASSUME NEW p \in admins \ inGame', inGame' # {}
               PROVE  /\ admins' # {}
                      /\ state' = "Init" /\ kind = "normal" => timer1' = "AdminWarning"
    BY DEF HandedOver
  <1>1. admins' # {}
    BY RemovalHandsOver DEF Reopen
  <1> QED BY <1>1 DEF Reopen, AdminTimer

\* Whoever starts a game alone leaves it empty.
LEMMA DoStartHandsOver == IInv /\ DoStart => HandedOver
  <1>1. CASE NumberOfPlayers >= 2
    BY <1>1, NobodyLeaves DEF DoStart
  <1>2. CASE ~(NumberOfPlayers >= 2)
    BY <1>2 DEF DoStart, HandedOver
  <1> QED BY <1>1, <1>2

\* Every step hands over.
LEMMA StepHandsOver == IInv /\ [Next]_vars => [HandedOver]_vars
  <1> SUFFICES ASSUME IInv, Next PROVE HandedOver
    OBVIOUS
  <1>1. CASE \E p \in Players : LeaveGame(p) \/ StartRefused(p)
    BY <1>1, MoveHandsOver DEF LeaveGame, StartRefused
  <1>2. CASE \E p, q \in Players : KickPlayer(p, q)
    BY <1>2, MoveHandsOver DEF KickPlayer
  <1>3. CASE \E p \in Players : LeaveLimbo(p) \/ Login(p) \/ ResetTimeout(p)
    BY <1>3, NobodyLeaves DEF LeaveLimbo, Login, ResetTimeout, people
  <1>4. CASE \E p \in Players, auto \in BOOLEAN :
                \/ JoinInit(p, auto) \/ JoinRefused(p, auto)
                \/ Rejoin(p, auto) \/ JoinFinal(p, auto)
    BY <1>4, NobodyLeaves
       DEF JoinInit, JoinRefused, Rejoin, JoinFinal, AcceptNewSession, people
  <1>5. CASE \/ \E p \in Players, fill \in BOOLEAN : StartEvent(p, fill)
             \/ TimerAutoStart
    BY <1>5, NobodyLeaves DEF StartEvent, TimerAutoStart, SendStartEvent, people
  <1>6. CASE \E p \in Players : StartEventAck(p)
    BY <1>6, NobodyLeaves, DoStartHandsOver DEF StartEventAck
  <1>7. CASE Expire1 \/ Expire2 \/ StaleHandler \/ TimerAdminWarning
    BY <1>7, NobodyLeaves
       DEF Expire1, Expire2, Expire, StaleHandler, TimerAdminWarning, people
  <1>8. CASE TimerAdminTimeout
    BY <1>8, NobodyLeaves, MoveHandsOver DEF TimerAdminTimeout, people
  <1>9. CASE TimerStartTimeout
    BY <1>9, DoStartHandsOver DEF TimerStartTimeout
  <1>10. CASE EndGame \/ TimerNextGame
    BY <1>10, NobodyLeaves, ReopenHandsOver DEF EndGame, TimerNextGame, people
  <1>11. CASE CloseOnError \/ TimerRemoveGame \/ AdminRemoveGame
    BY <1>11 DEF CloseOnError, TimerRemoveGame, AdminRemoveGame, InternalRemoveGame,
                 RemoveAllSessions, HandedOver
  <1>12. CASE GameGone
    BY <1>12, NobodyLeaves DEF GameGone, vars, people
  <1> QED BY <1>1, <1>2, <1>3, <1>4, <1>5, <1>6, <1>7, <1>8, <1>9, <1>10, <1>11, <1>12
          DEF Next

\* An admin who leaves players behind leaves them an admin, with a timeout of
\* his own before the start.
THEOREM AdminPassedOn == Spec => AdminHandedOver
  BY InvariantHolds, StepHandsOver, PTL DEF Spec, AdminHandedOver

(***************************************************************************)
(* ServerGame implements GameView                                          *)
(***************************************************************************)

\* Who hands the admin over is the one the game knows by its id, and hands it
\* to somebody who is in the game.
LEMMA HandOverGoes ==
    ASSUME IInv, NEW gone \in SUBSET inGame, inGame' = inGame \ gone, HandOverAdmin(gone)
    PROVE  View!Go(gone)
  <1>1. CASE admins \cap gone = {}
    BY <1>1 DEF HandOverAdmin, View!Go
  <1>2. CASE admins \cap gone # {}
    <2>1. adminId \in gone
      BY <1>2 DEF IInv, AdminIsUnique
    <2>2. adminId' \in inGame
      BY <1>2 DEF HandOverAdmin
    <2> QED BY <2>1, <2>2 DEF View!Go
  <1> QED BY <1>1, <1>2

LEMMA RemovePlayersGo ==
    ASSUME IInv, NEW gone \in SUBSET inGame, RemovePlayers(gone)
    PROVE  View!Go(gone)
  BY HandOverGoes DEF RemovePlayers

LEMMA MoveDeparts ==
    ASSUME IInv, NEW p \in inGame, MoveSessionToLobby(p)
    PROVE  View!Next
  <1>1. View!Depart({p})
    BY RemovePlayersGo DEF MoveSessionToLobby, record, View!Depart
  <1> QED BY <1>1 DEF View!Next

LEMMA ArrivalsShow ==
    ASSUME IInv, NEW p \in Players, NEW auto \in BOOLEAN,
           JoinInit(p, auto) \/ Rejoin(p, auto)
    PROVE  View!Next
  <1>1. p \notin inGame /\ listed /\ state \in {"Init", "Running"}
    BY DEF IInv, TypeOK, JoinInit, Rejoin, JoinRequest
  <1>2. View!Arrive(p)
    BY <1>1 DEF JoinInit, Rejoin, AcceptNewSession, View!Arrive
  <1> QED BY <1>2 DEF View!Next

LEMMA StartShows ==
    ASSUME IInv, NEW fill \in BOOLEAN, state = "Init", SendStartEvent(fill)
    PROVE  View!Next
  <1>1. computers \in Nat /\ Cardinality(inGame) \in Nat
    BY PartsAreSmaller DEF IInv, TypeOK
  <1>2. computers' \in computers..MaxPlayers
    <2>1. computers <= MaxPlayers
      BY <1>1, GameAssumption DEF IInv, NeverOverfull, NumberOfPlayers
    <2> QED BY <1>1, <2>1, GameAssumption DEF SendStartEvent, Full, NumberOfPlayers
  <1>3. View!Start
    BY <1>2 DEF SendStartEvent, people, View!Start
  <1> QED BY <1>3 DEF View!Next

\* The last confirmation, or the timeout.
LEMMA DoStartShows ==
    ASSUME IInv, state = "StartGame", DoStart
    PROVE  View!Next
  <1>1. CASE NumberOfPlayers >= 2
    <2>1. View!Begin
      BY <1>1 DEF DoStart, View!Begin
    <2> QED BY <2>1 DEF View!Next
  <1>2. CASE ~(NumberOfPlayers >= 2)
    <2>1. View!Go(inGame)
      BY <1>2, HandOverGoes DEF DoStart
    <2>2. View!Depart(inGame)
      BY <1>2, <2>1 DEF DoStart, View!Depart
    <2> QED BY <2>2 DEF View!Next
  <1> QED BY <1>1, <1>2

LEMMA ReopenShows ==
    ASSUME IInv, state = "Running", Reopen, game' = FALSE, UNCHANGED listed
    PROVE  View!Next
  <1>1. View!Go(inGame \cap autoLeave)
    BY RemovePlayersGo DEF Reopen
  <1>2. View!Reopen
    BY <1>1 DEF Reopen, View!Reopen
  <1> QED BY <1>2 DEF View!Next

\* The handler that opens the game again after its winner was shown is pending
\* once at most, and no new game begins before it has run.
WinnerShown ==
    /\ timer1 = "NextGame" => state = "Running" /\ ~game
    /\ \A i \in DOMAIN expired : expired[i] = "NextGame" =>
          /\ state \in {"Running", "Final"} /\ ~game
          /\ timer1 # "NextGame"
          /\ \A j \in DOMAIN expired : expired[j] = "NextGame" => j = i

\* What is left in the queue when the oldest handler has run.
LEMMA QueueTail ==
    ASSUME IInv, expired # << >>, expired' = Tail(expired)
    PROVE  /\ 1 \in DOMAIN expired /\ Head(expired) = expired[1]
           /\ \A i \in DOMAIN expired' :
                 i \in Int /\ i + 1 \in DOMAIN expired /\ i + 1 # 1
                 /\ expired'[i] = expired[i + 1]
  <1>1. expired \in Seq(Handlers)
    BY DEF IInv, TypeOK
  <1> QED BY <1>1

\* Steps that neither arm nor queue the handler and stay in the state.
LEMMA WinnerShownKept ==
    ASSUME IInv, WinnerShown, UNCHANGED <<state, game>>,
           timer1' = timer1 \/ timer1' # "NextGame",
           expired' = expired \/ (expired # << >> /\ expired' = Tail(expired))
    PROVE  WinnerShown'
  <1>1. CASE expired' = expired
    BY <1>1 DEF WinnerShown
  <1>2. CASE expired # << >> /\ expired' = Tail(expired)
    <2>1. \A i, j \in DOMAIN expired' : i + 1 = j + 1 => i = j
      BY <1>2, QueueTail
    <2> QED BY <1>2, <2>1, QueueTail DEF WinnerShown
  <1> QED BY <1>1, <1>2

\* Where the handler is not pending, a step that does not arm it may change
\* the state.
LEMMA WinnerShownUnarmed ==
    ASSUME IInv, timer1' # "NextGame",
           expired' = expired \/ (expired # << >> /\ expired' = Tail(expired)),
           \A i \in DOMAIN expired : expired[i] = "NextGame" => i = 1 /\ expired' # expired
    PROVE  WinnerShown'
  BY QueueTail DEF WinnerShown

\* An expired handler is queued.
LEMMA WinnerShownExpire ==
    ASSUME IInv, WinnerShown, Expire1 \/ Expire2
    PROVE  WinnerShown'
  <1>1. expired \in Seq(Handlers) /\ timer2 # "NextGame"
    BY DEF IInv, TypeOK
  <1>2. PICK h \in {timer1, timer2} :
           /\ expired' = Append(expired, h)
           /\ timer1' = IF Expire1 THEN "none" ELSE timer1
           /\ Expire1 \/ h = timer2
    <2>1. CASE Expire1
      BY <2>1 DEF Expire1, Expire
    <2>2. CASE ~Expire1
      BY <2>2 DEF Expire2, Expire
    <2> QED BY <2>1, <2>2
  <1>3. /\ Len(expired) \in Nat /\ DOMAIN expired = 1..Len(expired)
        /\ DOMAIN expired' = 1..(Len(expired) + 1)
        /\ \A i \in DOMAIN expired : expired'[i] = expired[i]
        /\ expired'[Len(expired) + 1] = h
    BY <1>1, <1>2
  <1>4. UNCHANGED <<state, game>>
    BY DEF Expire1, Expire2, Expire, record
  <1> QED BY <1>1, <1>2, <1>3, <1>4 DEF WinnerShown

\* Before the game runs the handler is not pending.
LEMMA NotPending ==
    ASSUME IInv, WinnerShown, state \in {"Init", "StartGame"} \/ game
    PROVE  timer1 # "NextGame" /\ \A i \in DOMAIN expired : expired[i] # "NextGame"
  BY DEF WinnerShown

LEMMA WinnerShownStart ==
    ASSUME IInv, WinnerShown, state = "StartGame", DoStart,
           expired' = expired \/ (expired # << >> /\ expired' = Tail(expired))
    PROVE  WinnerShown'
  BY NotPending, WinnerShownUnarmed DEF DoStart

LEMMA WinnerShownStep == IInv /\ WinnerShown /\ [Next]_vars => WinnerShown'
  <1> SUFFICES ASSUME IInv, WinnerShown, [Next]_vars PROVE WinnerShown'
    OBVIOUS
  <1>0. AdminTimer # "NextGame"
    BY DEF AdminTimer
  <1>1. CASE \E p \in Players : LeaveGame(p) \/ StartRefused(p)
    BY <1>1, <1>0, WinnerShownKept
       DEF LeaveGame, StartRefused, MoveSessionToLobby, NotifyLeft, timers, record
  <1>2. CASE \E p, q \in Players : KickPlayer(p, q)
    BY <1>2, <1>0, WinnerShownKept DEF KickPlayer, MoveSessionToLobby, NotifyLeft, timers, record
  <1>3. CASE \E p \in Players : LeaveLimbo(p) \/ ResetTimeout(p) \/ Login(p)
    BY <1>3, <1>0, WinnerShownKept DEF LeaveLimbo, ResetTimeout, Login, timers, record
  <1>4. CASE \E p \in Players, auto \in BOOLEAN :
                \/ JoinInit(p, auto) \/ JoinRefused(p, auto)
                \/ Rejoin(p, auto) \/ JoinFinal(p, auto)
    BY <1>4, WinnerShownKept DEF JoinInit, JoinRefused, Rejoin, JoinFinal, timers
  <1>5. CASE \E p \in Players, fill \in BOOLEAN : StartEvent(p, fill)
    BY <1>5, NotPending, WinnerShownUnarmed DEF StartEvent, SendStartEvent
  <1>6. CASE TimerAutoStart
    <2>1. state = "Init"
      BY <1>6, RunsType DEF TimerAutoStart, StateOf, IInv
    <2> QED BY <1>6, <2>1, NotPending, WinnerShownUnarmed DEF TimerAutoStart, SendStartEvent, Runs
  <1>7. CASE \E p \in Players : StartEventAck(p)
    <2>1. PICK p \in Players : StartEventAck(p)
      BY <1>7
    <2>2. CASE confirmed \cup {p} = inGame
      BY <2>1, <2>2, WinnerShownStart DEF StartEventAck
    <2>3. CASE confirmed \cup {p} # inGame
      BY <2>1, <2>3, WinnerShownKept DEF StartEventAck, timers, record
    <2> QED BY <2>2, <2>3
  <1>8. CASE Expire1 \/ Expire2
    BY <1>8, WinnerShownExpire
  <1>9. CASE StaleHandler \/ TimerAdminWarning
    BY <1>9, WinnerShownKept DEF StaleHandler, TimerAdminWarning, Runs, timers, record
  <1>10. CASE TimerAdminTimeout
    BY <1>10, <1>0, WinnerShownKept
       DEF TimerAdminTimeout, Runs, MoveSessionToLobby, NotifyLeft, timers, record
  <1>11. CASE TimerStartTimeout
    <2>1. state = "StartGame"
      BY <1>11, RunsType DEF TimerStartTimeout, StateOf, IInv
    <2> QED BY <1>11, <2>1, WinnerShownStart DEF TimerStartTimeout, Runs
  <1>12. CASE EndGame
    <2>1. expired' = << >> /\ ~game'
      BY <1>12 DEF EndGame
    <2>2. timer1' # "NextGame" \/ state' = "Running"
      BY <1>12, <1>0 DEF EndGame, Reopen
    <2> QED BY <2>1, <2>2 DEF WinnerShown
  <1>13. CASE TimerNextGame
    <2>1. /\ expired # << >> /\ expired' = Tail(expired) /\ Head(expired) = "NextGame"
          /\ timer1' # "NextGame"
      BY <1>13, <1>0 DEF TimerNextGame, Runs, Reopen
    <2>2. \A i \in DOMAIN expired : expired[i] = "NextGame" => i = 1
      BY <2>1, QueueTail DEF WinnerShown
    <2>3. expired' # expired
      BY <2>1 DEF IInv, TypeOK
    <2> QED BY <2>1, <2>2, <2>3, WinnerShownUnarmed
  <1>14. CASE CloseOnError \/ TimerRemoveGame \/ AdminRemoveGame
    BY <1>14 DEF CloseOnError, TimerRemoveGame, AdminRemoveGame, InternalRemoveGame,
                 RemoveAllSessions, WinnerShown
  <1>15. CASE GameGone \/ UNCHANGED vars
    BY <1>15, WinnerShownKept DEF GameGone, vars, timers, record
  <1> QED BY <1>1, <1>2, <1>3, <1>4, <1>5, <1>6, <1>7, <1>8, <1>9, <1>10, <1>11, <1>12,
             <1>13, <1>14, <1>15 DEF Next

LEMMA WinnerShownHolds == Spec => []WinnerShown
  <1>1. Init => WinnerShown
    BY DEF Init, WinnerShown, AdminTimer
  <1> QED BY <1>1, WinnerShownStep, InvariantHolds, PTL DEF Spec

LEMMA EndShows ==
    ASSUME IInv, WinnerShown, EndGame \/ TimerNextGame
    PROVE  View!Next
  <1>1. CASE EndGame /\ UNCHANGED <<state, people, computers>>
    <2>1. View!Finish
      BY <1>1 DEF EndGame, people, View!Finish
    <2> QED BY <2>1 DEF View!Next
  <1>2. CASE EndGame /\ Reopen
    BY <1>2, ReopenShows DEF EndGame
  <1>3. CASE TimerNextGame
    <2>1. state = "Running"
      BY <1>3, RunsType DEF TimerNextGame, StateOf, IInv
    <2>2. ~game
      <3>1. expired \in Seq(Handlers) /\ expired # << >> /\ Head(expired) = "NextGame"
        BY <1>3 DEF TimerNextGame, Runs, IInv, TypeOK
      <3> QED BY <3>1 DEF WinnerShown
    <2> QED BY <1>3, <2>1, <2>2, ReopenShows DEF TimerNextGame, IInv, TypeOK
  <1> QED BY <1>1, <1>2, <1>3 DEF EndGame

LEMMA RemovalShows ==
    ASSUME IInv, CloseOnError \/ TimerRemoveGame \/ AdminRemoveGame
    PROVE  View!Next
  <1>1. RemoveAllSessions
    BY DEF CloseOnError, TimerRemoveGame, AdminRemoveGame, InternalRemoveGame
  <1>2. View!Go(inGame)
    BY <1>1, HandOverGoes DEF RemoveAllSessions
  <1>3. CASE CloseOnError
    <2>1. View!Fail
      BY <1>2, <1>3 DEF CloseOnError, RemoveAllSessions, View!Fail
    <2> QED BY <2>1 DEF View!Next
  <1>4. CASE TimerRemoveGame \/ AdminRemoveGame
    <2>1. View!RemoveGame
      BY <1>2, <1>4 DEF TimerRemoveGame, AdminRemoveGame, InternalRemoveGame,
                        RemoveAllSessions, View!RemoveGame
    <2> QED BY <2>1 DEF View!Next
  <1> QED BY <1>3, <1>4

LEMMA LoginShows ==
    ASSUME IInv, NEW p \in Players, Login(p)
    PROVE  View!Next \/ UNCHANGED View!viewVars
  <1>1. CASE adminId = p
    <2>1. View!ForgetAdmin
      BY <1>1 DEF Login, IInv, TypeOK, View!ForgetAdmin
    <2> QED BY <2>1 DEF View!Next
  <1>2. CASE adminId # p
    BY <1>2 DEF Login, View!viewVars
  <1> QED BY <1>1, <1>2

\* Every step is one that GameView has, or shows nothing.
LEMMA StepShows == IInv /\ WinnerShown /\ [Next]_vars => [View!Next]_View!viewVars
  <1> SUFFICES ASSUME IInv, WinnerShown, [Next]_vars PROVE View!Next \/ UNCHANGED View!viewVars
    OBVIOUS
  <1>1. CASE \E p \in Players : LeaveGame(p) \/ StartRefused(p)
    BY <1>1, MoveDeparts DEF LeaveGame, StartRefused
  <1>2. CASE \E p, q \in Players : KickPlayer(p, q)
    BY <1>2, MoveDeparts DEF KickPlayer
  <1>3. CASE \E p \in Players : LeaveLimbo(p) \/ ResetTimeout(p)
    BY <1>3 DEF LeaveLimbo, ResetTimeout, people, record, View!viewVars
  <1>4. CASE \E p \in Players : Login(p)
    BY <1>4, LoginShows
  <1>5. CASE \E p \in Players, auto \in BOOLEAN : JoinInit(p, auto) \/ Rejoin(p, auto)
    BY <1>5, ArrivalsShow
  <1>6. CASE \E p \in Players, auto \in BOOLEAN : JoinRefused(p, auto) \/ JoinFinal(p, auto)
    BY <1>6 DEF JoinRefused, JoinFinal, people, View!viewVars
  <1>7. CASE \/ \E p \in Players, fill \in BOOLEAN : StartEvent(p, fill)
             \/ TimerAutoStart
    <2>1. CASE TimerAutoStart
      <3>1. state = "Init"
        BY <2>1, RunsType DEF TimerAutoStart, StateOf, IInv
      <3> QED BY <2>1, <3>1, StartShows DEF TimerAutoStart
    <2>2. CASE \E p \in Players, fill \in BOOLEAN : StartEvent(p, fill)
      BY <2>2, StartShows DEF StartEvent
    <2> QED BY <1>7, <2>1, <2>2
  <1>8. CASE \E p \in Players : StartEventAck(p)
    <2>1. PICK p \in Players : StartEventAck(p)
      BY <1>8
    <2>2. CASE confirmed \cup {p} = inGame
      BY <2>1, <2>2, DoStartShows DEF StartEventAck
    <2>3. CASE confirmed \cup {p} # inGame
      BY <2>1, <2>3 DEF StartEventAck, record, View!viewVars
    <2> QED BY <2>2, <2>3
  <1>9. CASE Expire1 \/ Expire2 \/ StaleHandler \/ TimerAdminWarning
    BY <1>9 DEF Expire1, Expire2, Expire, StaleHandler, TimerAdminWarning, people, record,
                View!viewVars
  <1>10. CASE TimerAdminTimeout
    BY <1>10, MoveDeparts DEF TimerAdminTimeout, people, record, View!viewVars
  <1>11. CASE TimerStartTimeout
    <2>1. state = "StartGame"
      BY <1>11, RunsType DEF TimerStartTimeout, StateOf, IInv
    <2> QED BY <1>11, <2>1, DoStartShows DEF TimerStartTimeout
  <1>12. CASE EndGame \/ TimerNextGame
    BY <1>12, EndShows
  <1>13. CASE CloseOnError \/ TimerRemoveGame \/ AdminRemoveGame
    BY <1>13, RemovalShows
  <1>14. CASE GameGone \/ UNCHANGED vars
    BY <1>14 DEF GameGone, vars, people, record, View!viewVars
  <1> QED BY <1>1, <1>2, <1>3, <1>4, <1>5, <1>6, <1>7, <1>8, <1>9, <1>10, <1>11, <1>12,
             <1>13, <1>14 DEF Next

\* What the lobby sees of a game follows GameView, for every number of players
\* and seats.
THEOREM ImplementsGameView == Spec => ViewSpec
  <1>1. Init => View!Init
    BY DEF Init, View!Init
  <1>2. IInv /\ WinnerShown /\ [Next]_vars => [View!Next]_View!viewVars
    BY StepShows
  <1> QED BY <1>1, <1>2, InvariantHolds, WinnerShownHolds, PTL DEF Spec, ViewSpec, View!Spec
=============================================================================
