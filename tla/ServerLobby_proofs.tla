--------------------------- MODULE ServerLobby_proofs ---------------------------
(***************************************************************************)
(* The invariants of ServerLobby, for every number of connections, every   *)
(* set of names and every limit of the lobby and the games.                *)
(***************************************************************************)
EXTENDS ServerLobby, FiniteSetTheorems, TLAPS

\* The parts of the invariants, of a server v instead of the variable.
FiledAt(v, s) ==
    /\ s \in v.lobby <=> v.state[s] \in {"Init", "ReceivingAvatar", "Established"}
    /\ s \in v.gameSessions <=> v.state[s] = "Game"
    /\ s \in v.members => s \in v.attached
    /\ s \in v.attached => s \in v.gameSessions

WithinLimit(v) == Cardinality(v.lobby) <= v.maxLobby

\* Who is in the game has player data.
MembersNamed(v) == \A s \in v.members : v.name[s] # NoName

\* What makes it safe that a rejoining login drops the connection its seat had:
\* the guid of a seat is the one its player logged in with, and a client logs in
\* with the guid of another login, so the seat's connection is another.
SeatGuids(v) == \A p \in v.seats : p.guid \in {p.id, Nobody}
OldGuids(v) == \A s \in Sessions : v.oldGuid[s] # s

\* A server in the middle of moving session s, which is closed or still to be
\* filed where it belongs.
SoundBut(v, s) ==
    /\ v \in ServerType
    /\ WithinLimit(v) /\ MembersNamed(v) /\ SeatGuids(v) /\ OldGuids(v)
    /\ \A t \in Sessions \ {s} : FiledAt(v, t)
    /\ s \in v.members => s \in v.attached
    /\ v.state[s] = "Closed" => FiledAt(v, s)

Sound(v) ==
    /\ v \in ServerType
    /\ WithinLimit(v) /\ MembersNamed(v) /\ SeatGuids(v) /\ OldGuids(v)
    /\ \A s \in Sessions : FiledAt(v, s)

\* Nobody's player data changes.
SameNames(v, w) == w.name = v.name /\ w.oldGuid = v.oldGuid

IInv ==
    /\ Sound(server)
    /\ pending \in SUBSET Sessions
    /\ \A s \in pending : server.name[s] # NoName

(***************************************************************************)
(* Sets of sessions                                                        *)
(***************************************************************************)

\* Sets of sessions are finite, and a part of one is not larger.
LEMMA PartsAreSmaller ==
    ASSUME NEW S \in SUBSET Sessions, NEW T \in SUBSET S
    PROVE  /\ Cardinality(S) \in Nat /\ Cardinality(T) \in Nat
           /\ Cardinality(T) <= Cardinality(S)
  <1>1. IsFiniteSet(Sessions)
    BY FS_Interval, LobbyAssumption DEF Sessions
  <1>2. IsFiniteSet(S)
    BY <1>1, FS_Subset
  <1>3. IsFiniteSet(T) /\ Cardinality(T) <= Cardinality(S)
    BY <1>2, FS_Subset
  <1> QED BY <1>2, <1>3, FS_CardinalityType

\* One session more takes one more place.
LEMMA OneMore ==
    ASSUME NEW S \in SUBSET Sessions, NEW s \in Sessions
    PROVE  Cardinality(S \cup {s}) <= Cardinality(S) + 1
  <1>1. IsFiniteSet(Sessions)
    BY FS_Interval, LobbyAssumption DEF Sessions
  <1>2. IsFiniteSet(S)
    BY <1>1, FS_Subset
  <1>3. Cardinality(S) \in Nat
    BY <1>2, FS_CardinalityType
  <1>4. Cardinality(S \cup {s}) = IF s \in S THEN Cardinality(S) ELSE Cardinality(S) + 1
    BY <1>2, FS_AddElement
  <1> QED BY <1>3, <1>4

(***************************************************************************)
(* Closing and moving sessions                                             *)
(***************************************************************************)

\* A sound server is sound but for any session.
LEMMA SoundIsSoundBut ==
    ASSUME NEW v, Sound(v), NEW s \in Sessions
    PROVE  SoundBut(v, s)
  BY DEF Sound, SoundBut, FiledAt

\* The lobby does not grow.
LEMMA SmallerLobby ==
    ASSUME NEW v, NEW w, v \in ServerType, WithinLimit(v),
           w.lobby \in SUBSET v.lobby, w.maxLobby = v.maxLobby
    PROVE  WithinLimit(w)
  <1>1. v.lobby \in SUBSET Sessions /\ v.maxLobby \in Nat
    BY LobbyAssumption DEF ServerType
  <1>2. /\ Cardinality(v.lobby) \in Nat /\ Cardinality(w.lobby) \in Nat
        /\ Cardinality(w.lobby) <= Cardinality(v.lobby)
    BY <1>1, PartsAreSmaller
  <1> QED BY <1>1, <1>2 DEF WithinLimit

\* Whatever the session was, closing it files it nowhere.
LEMMA CloseSessionSound ==
    ASSUME NEW v, NEW s \in Sessions, SoundBut(v, s)
    PROVE  /\ Sound(CloseSession(v, s)) /\ SameNames(v, CloseSession(v, s))
           /\ CloseSession(v, s).lobby = v.lobby \ {s}
           /\ CloseSession(v, s).state = [v.state EXCEPT ![s] = "Closed"]
  <1>1. CASE v.state[s] = "Closed"
    <2>1. CloseSession(v, s) = v
      BY <1>1 DEF CloseSession
    <2>2. s \notin v.lobby /\ v.state \in [Sessions -> States]
      BY <1>1 DEF SoundBut, FiledAt, ServerType
    <2> QED BY <1>1, <2>1, <2>2 DEF SoundBut, Sound, SameNames
  <1>2. CASE v.state[s] # "Closed"
    <2> DEFINE w == CloseSession(v, s)
    <2>1. v \in ServerType
      BY DEF SoundBut
    <2>2. /\ w.maxLobby = v.maxLobby
          /\ w.state = [v.state EXCEPT ![s] = "Closed"]
          /\ w.members = IF s \in v.attached THEN v.members \ {s} ELSE v.members
          /\ w.attached = v.attached \ {s}
          /\ w.lobby = v.lobby \ {s}
          /\ w.gameSessions = v.gameSessions \ {s}
          /\ w.seats = v.seats
          /\ SameNames(v, w)
      BY <1>2, <2>1 DEF CloseSession, ServerType, SameNames
    <2>3. w \in ServerType
      <3>1. LastRead(v, s) \in {"no", "open", "shut"}
        BY DEF LastRead
      <3>2. PICK m \in SUBSET Sessions :
               m = IF s \in v.attached THEN v.members \ {s} ELSE v.members
        BY <2>1 DEF ServerType
      <3>3. w = [v EXCEPT !.state[s] = "Closed", !.members = m,
                          !.attached = @ \ {s}, !.lobby = @ \ {s},
                          !.gameSessions = @ \ {s},
                          !.reading[s] = LastRead(v, s), !.armed[s] = {}]
        BY <1>2, <3>2, Zenon DEF CloseSession
      <3>4. [v EXCEPT !.state[s] = "Closed", !.members = m,
                      !.attached = @ \ {s}, !.lobby = @ \ {s},
                      !.gameSessions = @ \ {s},
                      !.reading[s] = LastRead(v, s), !.armed[s] = {}] \in ServerType
        BY <2>1, <3>1, ZenonT(60) DEF ServerType, States
      <3> QED BY <3>3, <3>4
    <2>4. WithinLimit(w)
      BY <2>1, <2>2, SmallerLobby DEF SoundBut
    <2>5. MembersNamed(w) /\ SeatGuids(w) /\ OldGuids(w)
      BY <2>2 DEF SoundBut, MembersNamed, SeatGuids, OldGuids, SameNames
    <2>6. \A t \in Sessions : FiledAt(w, t)
      <3> TAKE t \in Sessions
      <3>1. CASE t = s
        BY <3>1, <2>1, <2>2 DEF SoundBut, FiledAt, ServerType
      <3>2. CASE t # s
        <4>1. FiledAt(v, t)
          BY <3>2 DEF SoundBut
        <4> QED BY <4>1, <3>2, <2>1, <2>2 DEF FiledAt, ServerType
      <3> QED BY <3>1, <3>2
    <2> QED BY <2>2, <2>3, <2>4, <2>5, <2>6 DEF Sound
  <1> QED BY <1>1, <1>2

\* What a change of the other fields has to keep.
LEMMA OtherFields ==
    ASSUME NEW v, NEW w, NEW s \in Sessions, w \in ServerType,
           w.maxLobby = v.maxLobby, w.lobby = v.lobby, w.state = v.state,
           w.gameSessions = v.gameSessions, w.attached = v.attached,
           w.members = v.members, SameNames(v, w), SeatGuids(w)
    PROVE  /\ Sound(v) => Sound(w)
           /\ SoundBut(v, s) => SoundBut(w, s)
  <1>1. /\ WithinLimit(v) => WithinLimit(w)
        /\ MembersNamed(v) => MembersNamed(w)
        /\ OldGuids(v) => OldGuids(w)
    BY DEF WithinLimit, MembersNamed, OldGuids, SameNames
  <1>2. \A t \in Sessions : FiledAt(v, t) => FiledAt(w, t)
    BY DEF FiledAt
  <1> QED BY <1>1, <1>2 DEF Sound, SoundBut

\* A kick takes the guid of a seat away.
LEMMA MarkPlayerAsKickedSound ==
    ASSUME NEW v, NEW s \in Sessions, SoundBut(v, s)
    PROVE  LET w == MarkPlayerAsKicked(v, s)
           IN  /\ SoundBut(w, s) /\ SameNames(v, w)
               /\ w.lobby = v.lobby /\ w.state = v.state /\ w.reading = v.reading
               /\ w.gameSessions = v.gameSessions /\ w.attached = v.attached
               /\ w.members = v.members
  <1>1. CASE s \notin v.attached
    BY <1>1 DEF MarkPlayerAsKicked, SameNames
  <1>2. CASE s \in v.attached
    <2> DEFINE kicked == {IF p.id = s THEN [p EXCEPT !.guid = Nobody] ELSE p : p \in v.seats}
    <2> DEFINE w == [v EXCEPT !.seats = kicked]
    <2>1. MarkPlayerAsKicked(v, s) = w
      BY <1>2 DEF MarkPlayerAsKicked
    <2>2. v \in ServerType /\ SeatGuids(v)
      BY DEF SoundBut
    <2>3. v.seats \in SUBSET [id: Sessions, name: Names, guid: 0..MaxSessions, solvent: BOOLEAN]
      BY <2>2 DEF ServerType
    <2>4. /\ kicked \in SUBSET [id: Sessions, name: Names, guid: 0..MaxSessions, solvent: BOOLEAN]
          /\ \A p \in kicked : p.guid \in {p.id, Nobody}
      BY <2>2, <2>3, LobbyAssumption DEF SeatGuids, Nobody
    <2> HIDE DEF kicked
    <2>5. w \in ServerType
      BY <2>2, <2>4 DEF ServerType
    <2>6. /\ w.maxLobby = v.maxLobby /\ w.lobby = v.lobby /\ w.state = v.state
          /\ w.gameSessions = v.gameSessions /\ w.attached = v.attached
          /\ w.members = v.members /\ w.reading = v.reading
          /\ SameNames(v, w) /\ w.seats = kicked
      BY <2>2 DEF ServerType, SameNames
    <2>7. SeatGuids(w)
      BY <2>4, <2>6 DEF SeatGuids
    <2> HIDE DEF w
    <2>8. SoundBut(w, s)
      BY <2>5, <2>6, <2>7, OtherFields
    <2> QED BY <2>1, <2>6, <2>8
  <1> QED BY <1>1, <1>2

\* Who has a kicked player's seat is still filed where he was.
LEMMA KickSound ==
    ASSUME NEW v, Sound(v), NEW s \in Sessions, NEW kicked \in BOOLEAN
    PROVE  LET w == IF kicked THEN MarkPlayerAsKicked(v, s) ELSE v
           IN  /\ Sound(w) /\ SameNames(v, w)
               /\ w.state = v.state /\ w.reading = v.reading
  <1> DEFINE w == MarkPlayerAsKicked(v, s)
  <1>1. /\ SoundBut(w, s) /\ SameNames(v, w)
        /\ w.lobby = v.lobby /\ w.state = v.state /\ w.reading = v.reading
        /\ w.gameSessions = v.gameSessions /\ w.attached = v.attached
        /\ w.members = v.members
    BY SoundIsSoundBut, MarkPlayerAsKickedSound
  <1> HIDE DEF w
  <1>2. Sound(w)
    BY <1>1 DEF Sound, SoundBut, FiledAt
  <1> QED BY <1>1, <1>2 DEF w, SameNames

\* The same of an error, with or without a kick.
LEMMA SessionErrorSound ==
    ASSUME NEW v, NEW s \in Sessions, SoundBut(v, s), NEW kicked \in BOOLEAN
    PROVE  LET w == SessionError(v, s, kicked)
           IN  /\ Sound(w) /\ SameNames(v, w)
               /\ w.lobby = v.lobby \ {s}
               /\ w.state = [v.state EXCEPT ![s] = "Closed"]
  <1> DEFINE u == IF kicked THEN MarkPlayerAsKicked(v, s) ELSE v
  <1>1. SoundBut(u, s) /\ SameNames(v, u) /\ u.lobby = v.lobby /\ u.state = v.state
    BY MarkPlayerAsKickedSound DEF SameNames
  <1>2. SessionError(v, s, kicked) = CloseSession(u, s)
    BY DEF SessionError
  <1> HIDE DEF u
  <1> QED BY <1>1, <1>2, CloseSessionSound DEF SameNames

\* Leaving a game ends in the lobby, if there is room, or closed.
LEMMA MoveSessionToLobbySound ==
    ASSUME NEW v, Sound(v), NEW s \in Sessions
    PROVE  Sound(MoveSessionToLobby(v, s)) /\ SameNames(v, MoveSessionToLobby(v, s))
  <1> DEFINE w == [v EXCEPT !.members = @ \ {s}, !.gameSessions = @ \ {s},
                            !.attached = @ \ {s}]
  <1> DEFINE back == [w EXCEPT !.state[s] = "Established", !.lobby = @ \cup {s}]
  <1>1. MoveSessionToLobby(v, s) = IF Cardinality(w.lobby) < w.maxLobby
                                   THEN back ELSE SessionError(w, s, FALSE)
    BY DEF MoveSessionToLobby, HandleReAddedSession
  <1>2. v \in ServerType /\ \A t \in Sessions : FiledAt(v, t)
    BY DEF Sound
  <1>3. /\ w.maxLobby = v.maxLobby /\ w.lobby = v.lobby /\ w.state = v.state
        /\ w.gameSessions = v.gameSessions \ {s}
        /\ w.attached = v.attached \ {s} /\ w.members = v.members \ {s}
        /\ SameNames(v, w) /\ w.seats = v.seats
    BY <1>2 DEF ServerType, SameNames
  <1>4. w \in ServerType
    BY <1>2 DEF ServerType
  <1>5. /\ back.maxLobby = v.maxLobby /\ back.lobby = v.lobby \cup {s}
        /\ back.state = [v.state EXCEPT ![s] = "Established"]
        /\ back.gameSessions = w.gameSessions /\ back.attached = w.attached
        /\ back.members = w.members /\ back.seats = v.seats /\ SameNames(v, back)
    BY <1>2 DEF ServerType, SameNames
  <1>6. back \in ServerType
    BY <1>2, ZenonT(60) DEF ServerType, States
  <1> HIDE DEF w, back
  <1>7. /\ MembersNamed(w) /\ SeatGuids(w) /\ OldGuids(w)
        /\ MembersNamed(back) /\ SeatGuids(back) /\ OldGuids(back)
    BY <1>3, <1>5 DEF Sound, MembersNamed, SeatGuids, OldGuids, SameNames
  <1>8. \A t \in Sessions \ {s} : FiledAt(w, t) /\ FiledAt(back, t)
    BY <1>2, <1>3, <1>5 DEF FiledAt, ServerType
  <1>9. SoundBut(w, s)
    <2>1. WithinLimit(w)
      BY <1>3 DEF Sound, WithinLimit
    <2>2. w.state[s] = "Closed" => FiledAt(w, s)
      BY <1>2, <1>3 DEF FiledAt
    <2> QED BY <1>3, <1>4, <1>7, <1>8, <2>1, <2>2 DEF SoundBut
  <1>10. CASE Cardinality(w.lobby) < w.maxLobby
    <2>1. v.lobby \in SUBSET Sessions /\ v.maxLobby \in Nat
      BY <1>2, LobbyAssumption DEF ServerType
    <2>2. /\ Cardinality(v.lobby) \in Nat /\ Cardinality(v.lobby \cup {s}) \in Nat
          /\ Cardinality(v.lobby \cup {s}) <= Cardinality(v.lobby) + 1
      BY <2>1, OneMore, PartsAreSmaller
    <2>3. WithinLimit(back)
      BY <1>3, <1>5, <1>10, <2>1, <2>2 DEF WithinLimit
    <2>4. FiledAt(back, s)
      BY <1>2, <1>3, <1>5 DEF FiledAt, ServerType
    <2> QED BY <1>1, <1>5, <1>6, <1>7, <1>8, <1>10, <2>3, <2>4 DEF Sound
  <1>11. CASE ~(Cardinality(w.lobby) < w.maxLobby)
    <2>1. /\ Sound(SessionError(w, s, FALSE))
          /\ SameNames(w, SessionError(w, s, FALSE))
      BY <1>9, SessionErrorSound
    <2> QED BY <1>1, <1>3, <1>11, <2>1 DEF SameNames
  <1> QED BY <1>10, <1>11

\* Whatever the game makes of a session that has been given to it.
LEMMA HandleNewPlayerSound ==
    ASSUME NEW v, Sound(v), NEW s \in v.attached, v.name[s] # NoName,
           NEW w \in HandleNewPlayer(v, s)
    PROVE  Sound(w) /\ SameNames(v, w)
  <1>1. v \in ServerType /\ s \in Sessions
    BY DEF Sound, ServerType
  <1> DEFINE joined == [v EXCEPT !.members = @ \cup {s}]
  <1> DEFINE back == [v EXCEPT !.members = @ \cup {s}, !.rejoining = @ \cup {s}]
  <1>2. w = v \/ w = MoveSessionToLobby(v, s) \/ w = joined \/ w = back
    <2>1. CASE v.phase = "open"
      BY <2>1 DEF HandleNewPlayer
    <2>2. CASE v.phase = "running"
      BY <2>2 DEF HandleNewPlayer
    <2>3. CASE v.phase \notin {"open", "running"}
      BY <2>3 DEF HandleNewPlayer
    <2> QED BY <2>1, <2>2, <2>3
  <1>3. /\ joined \in ServerType /\ back \in ServerType
        /\ \A u \in {joined, back} :
              /\ u.maxLobby = v.maxLobby /\ u.lobby = v.lobby /\ u.state = v.state
              /\ u.gameSessions = v.gameSessions /\ u.attached = v.attached
              /\ u.members = v.members \cup {s} /\ u.seats = v.seats
              /\ SameNames(v, u)
    BY <1>1, ZenonT(60) DEF ServerType, SameNames
  <1> HIDE DEF joined, back
  <1>4. \A u \in {joined, back} : Sound(u)
    <2> TAKE u \in {joined, back}
    <2>1. /\ WithinLimit(u) /\ MembersNamed(u) /\ SeatGuids(u) /\ OldGuids(u)
      BY <1>3 DEF Sound, WithinLimit, MembersNamed, SeatGuids, OldGuids, SameNames
    <2>2. \A t \in Sessions : FiledAt(u, t)
      BY <1>3 DEF Sound, FiledAt
    <2> QED BY <1>3, <2>1, <2>2 DEF Sound
  <1>5. Sound(MoveSessionToLobby(v, s)) /\ SameNames(v, MoveSessionToLobby(v, s))
    BY <1>1, MoveSessionToLobbySound
  <1> QED BY <1>2, <1>3, <1>4, <1>5 DEF SameNames

\* A session that creates or joins a game; one that is in a game already, which
\* AddSession refuses, is closed.
LEMMA MoveSessionToGameSound ==
    ASSUME NEW v, Sound(v), NEW s \in Sessions, v.name[s] # NoName,
           NEW w \in MoveSessionToGame(v, s)
    PROVE  Sound(w) /\ SameNames(v, w)
  <1>1. v \in ServerType /\ \A t \in Sessions : FiledAt(v, t)
    BY DEF Sound
  <1>2. s \in v.gameSessions => v.state[s] = "Game"
    BY <1>1 DEF FiledAt
  <1> DEFINE out == [v EXCEPT !.lobby = @ \ {s}, !.state[s] = "Game"]
  <1> DEFINE in == [out EXCEPT !.gameSessions = @ \cup {s}, !.attached = @ \cup {s}]
  <1>3. /\ out \in ServerType /\ in \in ServerType
        /\ \A u \in {out, in} :
              /\ u.maxLobby = v.maxLobby /\ u.lobby = v.lobby \ {s}
              /\ u.state = [v.state EXCEPT ![s] = "Game"]
              /\ u.members = v.members /\ u.seats = v.seats
              /\ SameNames(v, u)
        /\ out.gameSessions = v.gameSessions /\ out.attached = v.attached
        /\ in.gameSessions = v.gameSessions \cup {s}
        /\ in.attached = v.attached \cup {s}
    BY <1>1, ZenonT(60) DEF ServerType, States, SameNames
  <1>4. w \in IF s \in v.gameSessions THEN {SessionError(out, s, FALSE)}
              ELSE HandleNewPlayer(in, s)
    BY <1>1 DEF MoveSessionToGame, ServerType
  <1> HIDE DEF out, in
  <1>5. \A u \in {out, in} :
           /\ WithinLimit(u) /\ MembersNamed(u) /\ SeatGuids(u) /\ OldGuids(u)
           /\ \A t \in Sessions \ {s} : FiledAt(u, t)
    <2> TAKE u \in {out, in}
    <2>1. WithinLimit(u)
      BY <1>1, <1>3, SmallerLobby DEF Sound
    <2>2. MembersNamed(u) /\ SeatGuids(u) /\ OldGuids(u)
      BY <1>3 DEF Sound, MembersNamed, SeatGuids, OldGuids, SameNames
    <2>3. \A t \in Sessions \ {s} : FiledAt(u, t)
      BY <1>1, <1>3 DEF FiledAt, ServerType
    <2> QED BY <2>1, <2>2, <2>3
  <1>6. out.state[s] = "Game" /\ in.state[s] = "Game"
    BY <1>1, <1>3 DEF ServerType
  <1>7. CASE s \in v.gameSessions
    <2>1. SoundBut(out, s)
      BY <1>1, <1>3, <1>5, <1>6 DEF SoundBut, FiledAt
    <2>2. Sound(SessionError(out, s, FALSE)) /\ SameNames(out, SessionError(out, s, FALSE))
      BY <2>1, SessionErrorSound
    <2> QED BY <1>3, <1>4, <1>7, <2>2 DEF SameNames
  <1>8. CASE s \notin v.gameSessions
    <2>1. FiledAt(in, s)
      BY <1>1, <1>3, <1>6 DEF FiledAt
    <2>2. Sound(in)
      BY <1>3, <1>5, <2>1 DEF Sound
    <2>3. s \in in.attached /\ in.name[s] # NoName
      BY <1>3 DEF SameNames
    <2> QED BY <1>3, <1>4, <1>8, <2>2, <2>3, HandleNewPlayerSound DEF SameNames
  <1> QED BY <1>7, <1>8

\* Everybody in the game is closed, and nobody else is touched.
LEMMA RemoveAllSessionsSound ==
    ASSUME NEW v, Sound(v)
    PROVE  LET w == RemoveAllSessions(v)
           IN  Sound(w) /\ SameNames(v, w) /\ w.members = {}
  <1> DEFINE gone(s) == s \in v.members /\ v.state[s] # "Closed"
  <1> DEFINE states == [s \in Sessions |-> IF gone(s) THEN "Closed" ELSE v.state[s]]
  <1> DEFINE reads == [s \in Sessions |->
                         IF ~gone(s) THEN v.reading[s] ELSE LastRead(v, s)]
  <1> DEFINE timers == [s \in Sessions |-> IF gone(s) THEN {} ELSE v.armed[s]]
  <1> DEFINE w == [v EXCEPT
                     !.state = states,
                     !.lobby = {s \in @ : ~gone(s)},
                     !.gameSessions = {s \in @ : ~gone(s)},
                     !.attached = {s \in @ : ~gone(s)},
                     !.reading = reads,
                     !.armed = timers,
                     !.members = {},
                     !.phase = "final"]
  <1>1. RemoveAllSessions(v) = w
    BY Zenon DEF RemoveAllSessions
  <1>2. v \in ServerType /\ \A t \in Sessions : FiledAt(v, t)
    BY DEF Sound
  <1>3. /\ states \in [Sessions -> States]
        /\ reads \in [Sessions -> {"no", "open", "shut"}]
        /\ timers \in [Sessions -> SUBSET Handlers]
    BY <1>2 DEF ServerType, States, LastRead
  <1>4. \A t \in Sessions : states[t] = IF gone(t) THEN "Closed" ELSE v.state[t]
    OBVIOUS
  <1> HIDE DEF states, reads, timers
  <1>5. w \in ServerType
    BY <1>2, <1>3 DEF ServerType
  <1>6. /\ w.maxLobby = v.maxLobby /\ w.lobby = {s \in v.lobby : ~gone(s)}
        /\ w.gameSessions = {s \in v.gameSessions : ~gone(s)}
        /\ w.attached = {s \in v.attached : ~gone(s)}
        /\ w.members = {} /\ w.seats = v.seats /\ SameNames(v, w)
        /\ w.state = states
    BY <1>2 DEF ServerType, SameNames
  <1> HIDE DEF w
  <1>7. WithinLimit(w)
    BY <1>2, <1>6, SmallerLobby DEF Sound
  <1>8. MembersNamed(w) /\ SeatGuids(w) /\ OldGuids(w)
    BY <1>6 DEF Sound, MembersNamed, SeatGuids, OldGuids, SameNames
  <1>9. \A t \in Sessions : FiledAt(w, t)
    <2> TAKE t \in Sessions
    <2>1. CASE gone(t)
      BY <2>1, <1>4, <1>6 DEF FiledAt
    <2>2. CASE ~gone(t)
      BY <2>2, <1>2, <1>4, <1>6 DEF FiledAt
    <2> QED BY <2>1, <2>2
  <1> QED BY <1>1, <1>5, <1>6, <1>7, <1>8, <1>9 DEF Sound

\* The game is gone, and with it every pointer to it.
LEMMA InternalRemoveGameSound ==
    ASSUME NEW v, Sound(v)
    PROVE  Sound(InternalRemoveGame(v)) /\ SameNames(v, InternalRemoveGame(v))
  <1> DEFINE u == RemoveAllSessions(v)
  <1> DEFINE w == [u EXCEPT !.phase = "none", !.attached = {},
                            !.seats = {}, !.rejoining = {}]
  <1>1. Sound(u) /\ SameNames(v, u) /\ u.members = {}
    BY RemoveAllSessionsSound
  <1>2. InternalRemoveGame(v) = w
    BY DEF InternalRemoveGame
  <1> HIDE DEF u
  <1>3. u \in ServerType
    BY <1>1 DEF Sound
  <1>4. /\ w \in ServerType
        /\ w.maxLobby = u.maxLobby /\ w.lobby = u.lobby /\ w.state = u.state
        /\ w.gameSessions = u.gameSessions /\ w.attached = {}
        /\ w.members = {} /\ w.seats = {} /\ SameNames(u, w)
    BY <1>1, <1>3 DEF ServerType, SameNames
  <1> HIDE DEF w
  <1>5. /\ WithinLimit(w) /\ MembersNamed(w) /\ SeatGuids(w) /\ OldGuids(w)
    BY <1>1, <1>4 DEF Sound, WithinLimit, MembersNamed, SeatGuids, OldGuids, SameNames
  <1>6. \A t \in Sessions : FiledAt(w, t)
    BY <1>1, <1>4 DEF Sound, FiledAt
  <1> QED BY <1>1, <1>2, <1>4, <1>5, <1>6 DEF Sound, SameNames

\* Who leaves the game's own list of sessions.
LEMMA MemberGoneSound ==
    ASSUME NEW v, Sound(v), NEW s \in Sessions
    PROVE  LET u == [v EXCEPT !.members = @ \ {s}]
           IN  /\ Sound(u) /\ SoundBut(u, s) /\ SameNames(v, u)
               /\ u.lobby = v.lobby /\ u.state = v.state /\ u.reading = v.reading
  <1> DEFINE u == [v EXCEPT !.members = @ \ {s}]
  <1>1. v \in ServerType
    BY DEF Sound
  <1>2. /\ u \in ServerType /\ u.reading = v.reading
        /\ u.maxLobby = v.maxLobby /\ u.lobby = v.lobby /\ u.state = v.state
        /\ u.gameSessions = v.gameSessions /\ u.attached = v.attached
        /\ u.members = v.members \ {s} /\ u.seats = v.seats /\ SameNames(v, u)
    BY <1>1 DEF ServerType, SameNames
  <1> HIDE DEF u
  <1>3. WithinLimit(u) /\ MembersNamed(u) /\ SeatGuids(u) /\ OldGuids(u)
    BY <1>2 DEF Sound, WithinLimit, MembersNamed, SeatGuids, OldGuids, SameNames
  <1>4. \A t \in Sessions : FiledAt(u, t)
    BY <1>2 DEF Sound, FiledAt
  <1>5. Sound(u) /\ SoundBut(u, s)
    BY <1>2, <1>3, <1>4, SoundIsSoundBut DEF Sound
  <1> QED BY <1>2, <1>5 DEF u

\* A removed player's session is closed; nobody else's place changes.
LEMMA InternalRemovePlayerSound ==
    ASSUME NEW v, Sound(v), NEW s, NEW kicked \in BOOLEAN
    PROVE  LET w == InternalRemovePlayer(v, s, kicked)
           IN  /\ Sound(w) /\ SameNames(v, w) /\ v.lobby \ {s} \subseteq w.lobby
               /\ s \in v.lobby \cup (v.members \cap v.attached) => w.state[s] = "Closed"
  <1>1. v \in ServerType
    BY DEF Sound
  <1>2. CASE s \notin v.lobby \cup (v.members \cap v.attached)
    BY <1>2 DEF InternalRemovePlayer, SameNames
  <1>3. CASE s \in v.lobby \cup (v.members \cap v.attached)
    <2>1. s \in Sessions
      BY <1>1, <1>3 DEF ServerType
    <2> DEFINE u == [v EXCEPT !.members = @ \ {s}]
    <2>2. InternalRemovePlayer(v, s, kicked) = SessionError(u, s, kicked)
      BY <1>3 DEF InternalRemovePlayer
    <2>3. /\ SoundBut(u, s) /\ SameNames(v, u) /\ u.lobby = v.lobby /\ u.state = v.state
      BY <2>1, MemberGoneSound
    <2> HIDE DEF u
    <2>4. LET w == SessionError(u, s, kicked)
          IN  /\ Sound(w) /\ SameNames(u, w) /\ w.lobby = u.lobby \ {s}
              /\ w.state = [u.state EXCEPT ![s] = "Closed"]
      BY <2>1, <2>3, SessionErrorSound
    <2>5. u.state \in [Sessions -> States]
      BY <1>1, <2>3 DEF ServerType
    <2> QED BY <2>1, <2>2, <2>3, <2>4, <2>5 DEF SameNames
  <1> QED BY <1>2, <1>3

\* A session of the lobby is established.
LEMMA EstablishedSound ==
    ASSUME NEW v, Sound(v), NEW s \in v.lobby
    PROVE  Sound(Established(v, s)) /\ SameNames(v, Established(v, s))
  <1> DEFINE w == Established(v, s)
  <1>1. v \in ServerType /\ s \in Sessions
    BY DEF Sound, ServerType
  <1>2. /\ w \in ServerType
        /\ w.maxLobby = v.maxLobby /\ w.lobby = v.lobby
        /\ w.state = [v.state EXCEPT ![s] = "Established"]
        /\ w.gameSessions = v.gameSessions /\ w.attached = v.attached
        /\ w.members = v.members /\ w.seats = v.seats /\ SameNames(v, w)
    BY <1>1 DEF Established, ServerType, States, SameNames
  <1> HIDE DEF w
  <1>3. WithinLimit(w) /\ MembersNamed(w) /\ SeatGuids(w) /\ OldGuids(w)
    BY <1>2 DEF Sound, WithinLimit, MembersNamed, SeatGuids, OldGuids, SameNames
  <1>4. \A t \in Sessions : FiledAt(w, t)
    BY <1>1, <1>2 DEF Sound, FiledAt, ServerType
  <1> QED BY <1>2, <1>3, <1>4 DEF Sound, w

\* A login ends its session or another one of the player, never both: the seat
\* of a rejoin has the guid of an earlier login.
LEMMA EstablishSessionSound ==
    ASSUME NEW v, Sound(v), NEW s \in v.lobby, NEW w \in EstablishSession(v, s)
    PROVE  Sound(w) /\ SameNames(v, w)
  <1>1. v \in ServerType /\ s \in Sessions /\ SeatGuids(v) /\ OldGuids(v)
    BY DEF Sound, ServerType
  <1> DEFINE previous == SessionOfName(v, v.name[s])
  <1>2. \/ \E p \in RejoinSeat(v, s) : w = Established(InternalRemovePlayer(v, p.id, FALSE), s)
        \/ w = Established(v, s)
        \/ w = SessionError(v, s, FALSE)
        \/ previous # s /\ w = Established(InternalRemovePlayer(v, previous, FALSE), s)
    BY DEF EstablishSession
  <1> HIDE DEF previous
  <1>3. ASSUME NEW other, other # s
        PROVE  LET u == Established(InternalRemovePlayer(v, other, FALSE), s)
               IN  Sound(u) /\ SameNames(v, u)
    <2> DEFINE u == InternalRemovePlayer(v, other, FALSE)
    <2>1. Sound(u) /\ SameNames(v, u) /\ s \in u.lobby
      BY <1>3, InternalRemovePlayerSound
    <2> HIDE DEF u
    <2>2. Sound(Established(u, s)) /\ SameNames(u, Established(u, s))
      BY <2>1, EstablishedSound
    <2> QED BY <2>1, <2>2 DEF SameNames, u
  <1>4. ASSUME NEW p \in RejoinSeat(v, s)
        PROVE  p.id # s
    <2>1. /\ p \in v.seats /\ v.oldGuid[s] # Nobody /\ p.guid = v.oldGuid[s]
      BY DEF RejoinSeat, SeatsOf
    <2> QED BY <1>1, <2>1 DEF SeatGuids, OldGuids
  <1>5. Sound(SessionError(v, s, FALSE)) /\ SameNames(v, SessionError(v, s, FALSE))
    BY <1>1, SoundIsSoundBut, SessionErrorSound
  <1>6. Sound(Established(v, s)) /\ SameNames(v, Established(v, s))
    BY EstablishedSound
  <1> QED BY <1>2, <1>3, <1>4, <1>5, <1>6

(***************************************************************************)
(* Every step keeps the invariant                                          *)
(***************************************************************************)

\* A new connection is filed in the lobby or nowhere.
LEMMA AddConnectionSound ==
    ASSUME IInv, NEW s \in Sessions, AddConnection(s)
    PROVE  Sound(server') /\ SameNames(server, server')
  <1>1. /\ server \in ServerType /\ \A t \in Sessions : FiledAt(server, t)
        /\ server.state[s] = "none" /\ Sound(server)
    BY DEF IInv, Sound, AddConnection
  <1>2. s \notin server.lobby \cup server.gameSessions \cup server.attached \cup server.members
    BY <1>1 DEF FiledAt
  <1> DEFINE new == [server EXCEPT !.state[s] = "Init"]
  <1> DEFINE added == [new EXCEPT !.lobby = @ \cup {s},
                                  !.armed[s] = {"global", "warning"},
                                  !.reading[s] = "open"]
  <1>3. \/ server' = SessionError(new, s, FALSE)
        \/ server' = added /\ ~(Cardinality(server.lobby) >= server.maxLobby)
    BY DEF AddConnection
  <1>4. /\ new \in ServerType /\ added \in ServerType
        /\ \A u \in {new, added} :
              /\ u.maxLobby = server.maxLobby
              /\ u.state = [server.state EXCEPT ![s] = "Init"]
              /\ u.gameSessions = server.gameSessions /\ u.attached = server.attached
              /\ u.members = server.members /\ u.seats = server.seats
              /\ SameNames(server, u)
        /\ new.lobby = server.lobby /\ added.lobby = server.lobby \cup {s}
    BY <1>1, ZenonT(60) DEF ServerType, States, Handlers, SameNames
  <1> HIDE DEF new, added
  <1>5. \A u \in {new, added} : MembersNamed(u) /\ SeatGuids(u) /\ OldGuids(u)
    BY <1>1, <1>4 DEF Sound, MembersNamed, SeatGuids, OldGuids, SameNames
  <1>6. \A t \in Sessions \ {s} : FiledAt(new, t) /\ FiledAt(added, t)
    BY <1>1, <1>4 DEF FiledAt, ServerType
  <1>7. new.state[s] = "Init" /\ added.state[s] = "Init"
    BY <1>1, <1>4 DEF ServerType
  <1>8. CASE server' = SessionError(new, s, FALSE)
    <2>1. WithinLimit(new)
      BY <1>1, <1>4 DEF Sound, WithinLimit
    <2>2. SoundBut(new, s)
      BY <1>2, <1>4, <1>5, <1>6, <1>7, <2>1 DEF SoundBut
    <2>3. Sound(server') /\ SameNames(new, server')
      BY <1>8, <2>2, SessionErrorSound
    <2> QED BY <1>4, <2>3 DEF SameNames
  <1>9. CASE server' = added /\ ~(Cardinality(server.lobby) >= server.maxLobby)
    <2>1. server.lobby \in SUBSET Sessions /\ server.maxLobby \in Nat
      BY <1>1, LobbyAssumption DEF ServerType
    <2>2. /\ Cardinality(server.lobby) \in Nat
          /\ Cardinality(server.lobby \cup {s}) \in Nat
          /\ Cardinality(server.lobby \cup {s}) <= Cardinality(server.lobby) + 1
      BY <2>1, OneMore, PartsAreSmaller
    <2>3. WithinLimit(added)
      BY <1>4, <1>9, <2>1, <2>2 DEF WithinLimit
    <2>4. FiledAt(added, s)
      BY <1>2, <1>4, <1>7 DEF FiledAt
    <2> QED BY <1>4, <1>5, <1>6, <1>9, <2>3, <2>4 DEF Sound
  <1> QED BY <1>3, <1>8, <1>9

\* The bookkeeping of a packet changes no session's place.
LEMMA PacketSound ==
    ASSUME Sound(server), NEW s \in Sessions, NEW v \in {Packet(s), Active(s)}
    PROVE  Sound(v) /\ SameNames(server, v) /\ v.lobby = server.lobby
  <1>1. server \in ServerType /\ s \in 0..MaxSessions
    BY LobbyAssumption DEF Sound, Sessions
  <1>2. /\ v \in ServerType
        /\ v.maxLobby = server.maxLobby /\ v.lobby = server.lobby
        /\ v.state = server.state /\ v.gameSessions = server.gameSessions
        /\ v.attached = server.attached /\ v.members = server.members
        /\ v.seats = server.seats /\ SameNames(server, v)
    <2>1. CASE v = Packet(s)
      BY <1>1, <2>1 DEF Packet, ServerType, SameNames
    <2>2. CASE v = Active(s)
      BY <1>1, <2>2 DEF Active, Packet, ServerType, SameNames, Handlers
    <2> QED BY <2>1, <2>2
  <1>3. SeatGuids(v)
    BY <1>2 DEF Sound, SeatGuids
  <1> QED BY <1>2, <1>3, OtherFields

\* A packet whose handler leaves a sound server does.
LEMMA HandleSound ==
    ASSUME NEW s \in Sessions, NEW results, Handle(s, results),
           \A v \in results : Sound(v)
    PROVE  \E v \in results : Sound(server') /\ SameNames(v, server')
  <1>1. PICK v \in results :
           server' = [v EXCEPT !.batch = IF v.state[s] = "Closed" /\ v.reading[s] = "shut"
                                           THEN s ELSE Nobody]
    BY DEF Handle
  <1>2. PICK b \in 0..MaxSessions : server' = [v EXCEPT !.batch = b]
    BY <1>1, LobbyAssumption DEF Sessions, Nobody
  <1> DEFINE w == [v EXCEPT !.batch = b]
  <1>3. v \in ServerType
    BY DEF Sound
  <1>4. /\ w \in ServerType
        /\ w.maxLobby = v.maxLobby /\ w.lobby = v.lobby
        /\ w.state = v.state /\ w.gameSessions = v.gameSessions
        /\ w.attached = v.attached /\ w.members = v.members
        /\ w.seats = v.seats /\ SameNames(v, w)
    BY <1>3 DEF ServerType, SameNames
  <1> HIDE DEF w
  <1>5. SeatGuids(w)
    BY <1>4 DEF Sound, SeatGuids
  <1>6. Sound(w)
    BY <1>4, <1>5, OtherFields
  <1> QED BY <1>2, <1>4, <1>6 DEF w

\* The same of a packet whose handler has one outcome.
LEMMA HandleOneSound ==
    ASSUME NEW s \in Sessions, NEW v, Sound(v), Handle(s, {v})
    PROVE  Sound(server') /\ SameNames(v, server')
  <1>1. \E u \in {v} : Sound(server') /\ SameNames(u, server')
    BY HandleSound
  <1> QED BY <1>1

\* The player data of a session: a name, and the guid of another login.
LEMMA PlayerDataSound ==
    ASSUME NEW v, Sound(v), NEW s \in Sessions, NEW n \in Names,
           NEW g \in 0..MaxSessions, g # s
    PROVE  LET w == SetPlayerData(v, s, n, g)
           IN  /\ Sound(w) /\ w.name = [v.name EXCEPT ![s] = n]
               /\ w.state = v.state /\ w.reading = v.reading
  <1> DEFINE w == SetPlayerData(v, s, n, g)
  <1>1. v \in ServerType
    BY DEF Sound
  <1>2. n # NoName
    BY LobbyAssumption
  <1>3. /\ w \in ServerType
        /\ w.maxLobby = v.maxLobby /\ w.lobby = v.lobby
        /\ w.state = v.state /\ w.reading = v.reading /\ w.gameSessions = v.gameSessions
        /\ w.attached = v.attached /\ w.members = v.members
        /\ w.seats = v.seats
        /\ w.name = [v.name EXCEPT ![s] = n]
        /\ w.oldGuid = [v.oldGuid EXCEPT ![s] = g]
    BY <1>1, <1>2 DEF SetPlayerData, ServerType
  <1> HIDE DEF w
  <1>4. WithinLimit(w) /\ SeatGuids(w)
    BY <1>3 DEF Sound, WithinLimit, SeatGuids
  <1>5. MembersNamed(w)
    BY <1>1, <1>2, <1>3 DEF Sound, MembersNamed, ServerType
  <1>6. OldGuids(w)
    BY <1>1, <1>2, <1>3 DEF Sound, OldGuids, ServerType
  <1>7. \A t \in Sessions : FiledAt(w, t)
    BY <1>3 DEF Sound, FiledAt
  <1>8. Sound(w) /\ w.name = [v.name EXCEPT ![s] = n]
    BY <1>3, <1>4, <1>5, <1>6, <1>7 DEF Sound
  <1> QED BY <1>3, <1>8 DEF w

\* Who has no player data yet is nobody whose guid is known.
LEMMA OthersGuids ==
    ASSUME NEW s \in Sessions, server.name[s] = NoName, NEW g \in KnownGuids
    PROVE  g \in 0..MaxSessions /\ g # s
  BY LobbyAssumption DEF KnownGuids, Sessions, Nobody

\* What an init that is accepted leaves.
LEMMA LoginSound ==
    ASSUME Sound(server), NEW s \in Sessions, server.name[s] = NoName,
           NEW n \in Names, NEW g \in KnownGuids,
           NEW w, w = SetPlayerData(Active(s), s, n, g)
    PROVE  /\ Sound(w) /\ w.name = [server.name EXCEPT ![s] = n]
           /\ w.state = server.state /\ w.reading = server.reading
  <1> DEFINE v == Active(s)
  <1>1. Sound(v) /\ SameNames(server, v)
    BY PacketSound
  <1>2. v.state = server.state /\ v.reading = server.reading
    BY DEF Sound, ServerType, Packet, Active
  <1>3. g \in 0..MaxSessions /\ g # s
    BY OthersGuids
  <1>4. w = SetPlayerData(v, s, n, g)
    OBVIOUS
  <1> HIDE DEF v
  <1>5. /\ Sound(w) /\ w.name = [v.name EXCEPT ![s] = n]
        /\ w.state = v.state /\ w.reading = v.reading
    BY <1>1, <1>3, <1>4, PlayerDataSound
  <1> QED BY <1>1, <1>2, <1>5 DEF SameNames

\* What the inits that are accepted leave.
LEMMA LoginsSound ==
    ASSUME Sound(server), NEW s \in Sessions, server.name[s] = NoName,
           NEW w \in Logins(s)
    PROVE  /\ Sound(w) /\ \E n \in Names : w.name = [server.name EXCEPT ![s] = n]
           /\ w.state = server.state /\ w.reading = server.reading
  <1>1. PICK n \in Names, g \in KnownGuids : w = SetPlayerData(Active(s), s, n, g)
    BY DEF Logins
  <1>2. /\ Sound(w) /\ w.name = [server.name EXCEPT ![s] = n]
        /\ w.state = server.state /\ w.reading = server.reading
    BY <1>1, LoginSound
  <1> QED BY <1>2

\* Who is not logged in sends his init, once.
LEMMA InitMessageSound ==
    ASSUME IInv, NEW s \in Sessions, InitMessage(s)
    PROVE  IInv'
  <1>1. Sound(server) /\ server \in ServerType
    BY DEF IInv, Sound
  <1>2. Sound(Active(s)) /\ SameNames(server, Active(s))
    BY <1>1, PacketSound
  <1>3. CASE Handle(s, {SessionError(Active(s), s, FALSE)}) /\ UNCHANGED pending
    <2> DEFINE v == SessionError(Active(s), s, FALSE)
    <2>1. Sound(v) /\ SameNames(Active(s), v)
      BY <1>2, SoundIsSoundBut, SessionErrorSound
    <2>2. Sound(server') /\ SameNames(v, server')
      BY <1>3, <2>1, HandleOneSound
    <2> QED BY <1>2, <1>3, <2>1, <2>2 DEF IInv, SameNames
  <1>4. CASE /\ server.name[s] = NoName
             /\ Handle(s, Logins(s))
             /\ pending' = pending \cup {s}
    <2>1. ASSUME NEW w \in Logins(s)
          PROVE  Sound(w) /\ \E n \in Names : w.name = [server.name EXCEPT ![s] = n]
      <3>1. server.name[s] = NoName
        BY <1>4
      <3> QED BY <1>1, <3>1, LoginsSound
    <2>2. Handle(s, Logins(s))
      BY <1>4
    <2>3. PICK w \in Logins(s) : Sound(server') /\ SameNames(w, server')
      BY <2>1, <2>2, HandleSound
    <2>4. PICK n \in Names : server'.name = [server.name EXCEPT ![s] = n]
      BY <2>1, <2>3 DEF SameNames
    <2>5. \A t \in pending \cup {s} : server'.name[t] # NoName
      BY <1>1, <2>4, LobbyAssumption DEF IInv, ServerType
    <2> QED BY <1>4, <2>3, <2>5 DEF IInv
  <1> QED BY <1>3, <1>4 DEF InitMessage

\* A step that leaves a sound server and everybody's player data.
LEMMA KeepsInvariant ==
    ASSUME IInv, Sound(server'), SameNames(server, server'), pending' \in SUBSET pending
    PROVE  IInv'
  BY DEF IInv, SameNames

\* A packet all of whose outcomes do.
LEMMA PacketKeeps ==
    ASSUME IInv, NEW s \in Sessions, NEW results, Handle(s, results), UNCHANGED pending,
           \A v \in results : Sound(v) /\ SameNames(server, v)
    PROVE  IInv'
  <1>1. PICK v \in results : Sound(server') /\ SameNames(v, server')
    BY HandleSound
  <1>2. SameNames(server, server')
    BY <1>1 DEF SameNames
  <1> QED BY <1>1, <1>2, KeepsInvariant

\* The error at the end of a packet.
LEMMA PacketErrorSound ==
    ASSUME Sound(server), NEW s \in Sessions, NEW v \in {Packet(s), Active(s)}
    PROVE  Sound(SessionError(v, s, FALSE)) /\ SameNames(server, SessionError(v, s, FALSE))
  <1>1. Sound(v) /\ SameNames(server, v)
    BY PacketSound
  <1>2. Sound(SessionError(v, s, FALSE)) /\ SameNames(v, SessionError(v, s, FALSE))
    BY <1>1, SoundIsSoundBut, SessionErrorSound
  <1> QED BY <1>1, <1>2 DEF SameNames

\* The packets of the login.
LEMMA LoginPacketsSound ==
    ASSUME IInv, NEW s \in Sessions,
           AvatarHeader(s) \/ UnknownAvatar(s) \/ AvatarFile(s) \/ AvatarEnd(s)
    PROVE  IInv'
  <1> DEFINE v == Packet(s)
  <1> DEFINE header == [v EXCEPT !.state[s] = "ReceivingAvatar"]
  <1>1. Sound(server) /\ server.state[s] \in {"Init", "ReceivingAvatar"}
    BY DEF IInv, AvatarHeader, UnknownAvatar, AvatarFile, AvatarEnd, LobbyReceives
  <1>2. s \in server.lobby
    BY <1>1 DEF Sound, FiledAt
  <1>3. Sound(v) /\ SameNames(server, v) /\ v.lobby = server.lobby
    BY <1>1, PacketSound
  <1>4. Sound(SessionError(v, s, FALSE)) /\ SameNames(server, SessionError(v, s, FALSE))
    BY <1>1, PacketErrorSound
  <1>5. \A w \in EstablishSession(v, s) : Sound(w) /\ SameNames(server, w)
    BY <1>2, <1>3, EstablishSessionSound DEF SameNames
  <1> HIDE DEF v
  <1>6. Sound(header) /\ SameNames(server, header)
    <2>1. v \in ServerType
      BY <1>3 DEF Sound
    <2>2. /\ header \in ServerType
          /\ header.maxLobby = v.maxLobby /\ header.lobby = v.lobby
          /\ header.state = [v.state EXCEPT ![s] = "ReceivingAvatar"]
          /\ header.gameSessions = v.gameSessions /\ header.attached = v.attached
          /\ header.members = v.members /\ header.seats = v.seats
          /\ SameNames(v, header)
      BY <2>1 DEF ServerType, States, SameNames
    <2> HIDE DEF header
    <2>3. WithinLimit(header) /\ MembersNamed(header) /\ SeatGuids(header)
          /\ OldGuids(header)
      BY <1>3, <2>2 DEF Sound, WithinLimit, MembersNamed, SeatGuids, OldGuids, SameNames
    <2>4. \A t \in Sessions : FiledAt(header, t)
      BY <1>2, <1>3, <2>1, <2>2 DEF Sound, FiledAt, ServerType
    <2> QED BY <1>3, <2>2, <2>3, <2>4 DEF Sound, SameNames
  <1>7. CASE AvatarHeader(s)
    <2>1. Handle(s, {header, SessionError(v, s, FALSE)}) /\ UNCHANGED pending
      BY <1>7 DEF AvatarHeader, v
    <2> HIDE DEF header
    <2> QED BY <1>4, <1>6, <2>1, PacketKeeps
  <1>8. CASE UnknownAvatar(s)
    BY <1>5, <1>8, PacketKeeps DEF UnknownAvatar, v
  <1>9. CASE AvatarFile(s)
    BY <1>3, <1>4, <1>9, PacketKeeps DEF AvatarFile, v
  <1>10. CASE AvatarEnd(s)
    BY <1>4, <1>5, <1>10, PacketKeeps DEF AvatarEnd, v
  <1> QED BY <1>7, <1>8, <1>9, <1>10

\* A new game is open.
LEMMA GameOpenSound ==
    ASSUME NEW v, Sound(v)
    PROVE  LET w == [v EXCEPT !.phase = "open"] IN Sound(w) /\ SameNames(v, w)
  <1> DEFINE w == [v EXCEPT !.phase = "open"]
  <1>1. v \in ServerType
    BY DEF Sound
  <1>2. /\ w \in ServerType
        /\ w.maxLobby = v.maxLobby /\ w.lobby = v.lobby /\ w.state = v.state
        /\ w.gameSessions = v.gameSessions /\ w.attached = v.attached
        /\ w.members = v.members /\ w.seats = v.seats /\ SameNames(v, w)
    BY <1>1 DEF ServerType, SameNames
  <1> HIDE DEF w
  <1>3. WithinLimit(w) /\ MembersNamed(w) /\ SeatGuids(w) /\ OldGuids(w)
    BY <1>2 DEF Sound, WithinLimit, MembersNamed, SeatGuids, OldGuids, SameNames
  <1>4. \A t \in Sessions : FiledAt(w, t)
    BY <1>2 DEF Sound, FiledAt
  <1>5. Sound(w) /\ SameNames(v, w)
    BY <1>2, <1>3, <1>4 DEF Sound
  <1> QED BY <1>5 DEF w

\* The packets of the lobby and of the game.
LEMMA LobbyPacketsSound ==
    ASSUME IInv, NEW s \in Sessions,
           \/ CreateGame(s) \/ JoinGame(s) \/ AdminRemoveGame(s) \/ InvalidPacket(s)
           \/ LeaveGame(s) \/ GameRequest(s) \/ GameThrows(s)
    PROVE  IInv'
  <1>1. Sound(server)
    BY DEF IInv
  <1>2. /\ Sound(Packet(s)) /\ SameNames(server, Packet(s))
        /\ Sound(Active(s)) /\ SameNames(server, Active(s))
    BY <1>1, PacketSound
  <1>3. \A v \in {Packet(s), Active(s)} :
           Sound(SessionError(v, s, FALSE)) /\ SameNames(server, SessionError(v, s, FALSE))
    BY <1>1, PacketErrorSound
  <1>4. CASE CreateGame(s)
    <2> DEFINE new == [Active(s) EXCEPT !.phase = "open"]
    <2> DEFINE created == IF server.name[s] # NoName /\ server.phase = "none"
                          THEN MoveSessionToGame(new, s) ELSE {}
    <2>1. Handle(s, {Active(s)} \cup created) /\ UNCHANGED pending
      BY <1>4 DEF CreateGame
    <2>2. Sound(new) /\ SameNames(server, new)
      BY <1>2, GameOpenSound DEF SameNames
    <2> HIDE DEF new
    <2>3. \A w \in created : Sound(w) /\ SameNames(server, w)
      BY <2>2, MoveSessionToGameSound DEF SameNames
    <2> HIDE DEF created
    <2> QED BY <1>2, <2>1, <2>3, PacketKeeps
  <1>5. CASE JoinGame(s)
    <2> DEFINE joined == IF server.name[s] # NoName /\ server.phase # "none"
                         THEN MoveSessionToGame(Active(s), s) ELSE {}
    <2>1. Handle(s, {Active(s)} \cup joined) /\ UNCHANGED pending
      BY <1>5 DEF JoinGame
    <2>2. \A w \in joined : Sound(w) /\ SameNames(server, w)
      BY <1>2, MoveSessionToGameSound DEF SameNames
    <2> HIDE DEF joined
    <2> QED BY <1>2, <2>1, <2>2, PacketKeeps
  <1>6. CASE AdminRemoveGame(s)
    <2>1. Sound(InternalRemoveGame(Packet(s))) /\ SameNames(server, InternalRemoveGame(Packet(s)))
      BY <1>2, InternalRemoveGameSound DEF SameNames
    <2> QED BY <1>6, <2>1, PacketKeeps DEF AdminRemoveGame
  <1>7. CASE InvalidPacket(s)
    BY <1>3, <1>7, PacketKeeps DEF InvalidPacket
  <1>8. CASE LeaveGame(s)
    <2>1. /\ Sound(MoveSessionToLobby(Active(s), s))
          /\ SameNames(server, MoveSessionToLobby(Active(s), s))
      BY <1>2, MoveSessionToLobbySound DEF SameNames
    <2> QED BY <1>8, <2>1, PacketKeeps DEF LeaveGame, GameReceives
  <1>9. CASE GameRequest(s)
    BY <1>2, <1>9, PacketKeeps DEF GameRequest, GameReceives
  <1>10. CASE GameThrows(s)
    <2>1. Sound(RemoveAllSessions(Packet(s))) /\ SameNames(server, RemoveAllSessions(Packet(s)))
      BY <1>2, RemoveAllSessionsSound DEF SameNames
    <2> QED BY <1>10, <2>1, PacketKeeps DEF GameThrows, GameReceives
  <1> QED BY <1>4, <1>5, <1>6, <1>7, <1>8, <1>9, <1>10

\* What a socket delivers is nobody's place.
LEMMA ReadingSound ==
    ASSUME NEW v, Sound(v), NEW s \in Sessions,
           NEW r \in {"no", "open", "shut"}, NEW b \in 0..MaxSessions
    PROVE  LET w == [v EXCEPT !.batch = b, !.reading[s] = r]
           IN  Sound(w) /\ SameNames(v, w)
  <1> DEFINE w == [v EXCEPT !.batch = b, !.reading[s] = r]
  <1>1. v \in ServerType
    BY DEF Sound
  <1>2. /\ w \in ServerType
        /\ w.maxLobby = v.maxLobby /\ w.lobby = v.lobby /\ w.state = v.state
        /\ w.gameSessions = v.gameSessions /\ w.attached = v.attached
        /\ w.members = v.members /\ w.seats = v.seats /\ SameNames(v, w)
    BY <1>1 DEF ServerType, SameNames
  <1> HIDE DEF w
  <1>3. SeatGuids(w)
    BY <1>2 DEF Sound, SeatGuids
  <1>4. Sound(w) /\ SameNames(v, w)
    BY <1>2, <1>3, OtherFields
  <1> QED BY <1>4 DEF w

\* Nor are the timers that are armed.
LEMMA TimersSound ==
    ASSUME NEW v, Sound(v), NEW s \in Sessions,
           NEW timers \in SUBSET Handlers
    PROVE  LET w == [v EXCEPT !.armed[s] = timers]
           IN  Sound(w) /\ SameNames(v, w)
  <1> DEFINE w == [v EXCEPT !.armed[s] = timers]
  <1>1. v \in ServerType
    BY DEF Sound
  <1>2. /\ w \in ServerType
        /\ w.maxLobby = v.maxLobby /\ w.lobby = v.lobby /\ w.state = v.state
        /\ w.gameSessions = v.gameSessions /\ w.attached = v.attached
        /\ w.members = v.members /\ w.seats = v.seats /\ SameNames(v, w)
    BY <1>1 DEF ServerType, SameNames
  <1> HIDE DEF w
  <1>3. SeatGuids(w)
    BY <1>2 DEF Sound, SeatGuids
  <1>4. Sound(w) /\ SameNames(v, w)
    BY <1>2, <1>3, OtherFields
  <1> QED BY <1>4 DEF w

\* A read that ends.
LEMMA ReadEndsSound ==
    ASSUME IInv, (\E s \in Sessions : ReadEnds(s)) \/ ProcessPacketsEnds
    PROVE  IInv'
  <1>1. Sound(server) /\ server \in ServerType
    BY DEF IInv, Sound
  <1>2. CASE \E s \in Sessions : ReadEnds(s)
    <2>1. PICK s \in Sessions : ReadEnds(s)
      BY <1>2
    <2> DEFINE closed == CloseSession(server, s)
    <2>2. Sound(closed) /\ SameNames(server, closed)
      BY <1>1, SoundIsSoundBut, CloseSessionSound
    <2>3. /\ UNCHANGED pending
          /\ \/ server' = [closed EXCEPT !.reading[s] = "no"]
             \/ server' = [server EXCEPT !.reading[s] = "no"]
      BY <2>1 DEF ReadEnds
    <2> HIDE DEF closed
    <2>4. ASSUME NEW v \in {closed, server}, server' = [v EXCEPT !.reading[s] = "no"]
          PROVE  Sound(server') /\ SameNames(server, server')
      <3>1. v \in ServerType /\ Sound(v) /\ SameNames(server, v)
        BY <1>1, <2>2, <2>4 DEF Sound, SameNames
      <3>2. v.batch \in 0..MaxSessions
        BY <3>1 DEF ServerType
      <3>3. server' = [v EXCEPT !.batch = v.batch, !.reading[s] = "no"]
        BY <2>4, <3>1 DEF ServerType
      <3>4. Sound(server') /\ SameNames(v, server')
        BY <3>1, <3>2, <3>3, ReadingSound
      <3> QED BY <3>1, <3>4 DEF SameNames
    <2>5. Sound(server') /\ SameNames(server, server')
      BY <2>3, <2>4
    <2> QED BY <2>3, <2>5, KeepsInvariant
  <1>3. CASE ProcessPacketsEnds
    <2>1. server.batch \in Sessions /\ Nobody \in 0..MaxSessions
      BY <1>1, <1>3, LobbyAssumption DEF ProcessPacketsEnds, ServerType, Sessions, Nobody
    <2>2. /\ UNCHANGED pending
          /\ server' = [server EXCEPT !.batch = Nobody, !.reading[server.batch] = "no"]
      BY <1>3 DEF ProcessPacketsEnds
    <2>3. Sound(server') /\ SameNames(server, server')
      BY <1>1, <2>1, <2>2, ReadingSound
    <2> QED BY <2>2, <2>3, KeepsInvariant
  <1> QED BY <1>2, <1>3

\* The answers of the database, a posted removal and the timers.
LEMMA HandlerStepSound ==
    ASSUME IInv, HandlerStep
    PROVE  IInv'
  <1>1. Sound(server) /\ server \in ServerType
    BY DEF IInv, Sound
  <1>2. ASSUME NEW s \in Sessions, NEW kicked \in BOOLEAN
        PROVE  LET w == SessionError(server, s, kicked)
               IN  Sound(w) /\ SameNames(server, w)
    BY <1>1, SoundIsSoundBut, SessionErrorSound
  <1>3. ASSUME NEW s \in Sessions, NEW handler
        PROVE  /\ Sound(Disarmed(s, handler)) /\ SameNames(server, Disarmed(s, handler))
               /\ LET w == SessionError(Disarmed(s, handler), s, TRUE)
                  IN  Sound(w) /\ SameNames(server, w)
    <2>1. server.armed[s] \ {handler} \in SUBSET Handlers
      BY <1>1 DEF ServerType
    <2> DEFINE v == Disarmed(s, handler)
    <2>2. Sound(v) /\ SameNames(server, v)
      BY <1>1, <2>1, TimersSound DEF Disarmed
    <2> HIDE DEF v
    <2>3. Sound(SessionError(v, s, TRUE)) /\ SameNames(v, SessionError(v, s, TRUE))
      BY <2>2, SoundIsSoundBut, SessionErrorSound
    <2> QED BY <2>2, <2>3 DEF SameNames, v
  <1>4. CASE \E s \in Sessions : UserValid(s)
    <2>1. PICK s \in Sessions : UserValid(s)
      BY <1>4
    <2>2. CASE s \in server.lobby
      <3>1. server' \in EstablishSession(server, s) \/ server' = SessionError(server, s, FALSE)
        BY <2>1, <2>2 DEF UserValid
      <3>2. Sound(server') /\ SameNames(server, server')
        BY <1>1, <1>2, <2>2, <3>1, EstablishSessionSound
      <3> QED BY <2>1, <3>2, KeepsInvariant DEF UserValid
    <2>3. CASE s \notin server.lobby
      BY <1>1, <2>1, <2>3, KeepsInvariant DEF UserValid, SameNames
    <2> QED BY <2>2, <2>3
  <1>5. CASE \E s \in Sessions : UserInvalid(s)
    BY <1>2, <1>5, KeepsInvariant DEF UserInvalid
  <1>6. CASE \E s \in Sessions : RemovePlayer(s)
    BY <1>1, <1>6, KeepsInvariant, InternalRemovePlayerSound DEF RemovePlayer
  <1>7. CASE \E s \in Sessions : TimerInitTimeout(s)
    <2>1. PICK s \in Sessions : TimerInitTimeout(s)
      BY <1>7
    <2>2. Sound(server') /\ SameNames(server, server')
      BY <1>1, <2>1, SoundIsSoundBut, SessionErrorSound DEF TimerInitTimeout
    <2> QED BY <2>1, <2>2, KeepsInvariant DEF TimerInitTimeout
  <1>8. CASE \E s \in Sessions, h \in Handlers : TimerSessionTimeout(s, h)
    BY <1>3, <1>8, KeepsInvariant DEF TimerSessionTimeout, Timer
  <1>9. CASE \E s \in Sessions : TimerActivityWarning(s)
    <2>1. PICK s \in Sessions : TimerActivityWarning(s)
      BY <1>9
    <2> DEFINE v == Disarmed(s, "warning")
    <2>2. Sound(v) /\ SameNames(server, v) /\ v \in ServerType
      BY <1>3 DEF Sound
    <2>3. /\ UNCHANGED pending
          /\ server' = [v EXCEPT !.armed[s] = @ \cup {"timeout"}]
      BY <2>1 DEF TimerActivityWarning, Timer
    <2> HIDE DEF v
    <2>4. v.armed[s] \cup {"timeout"} \in SUBSET Handlers
      BY <2>2 DEF ServerType, Handlers
    <2>5. server' = [v EXCEPT !.armed[s] = v.armed[s] \cup {"timeout"}]
      BY <2>3
    <2>6. Sound(server') /\ SameNames(v, server')
      BY <2>2, <2>4, <2>5, TimersSound
    <2>7. SameNames(server, server')
      BY <2>2, <2>6 DEF SameNames
    <2> QED BY <2>3, <2>6, <2>7, KeepsInvariant
  <1>10. CASE TimerRemoveGame
    BY <1>1, <1>10, KeepsInvariant, InternalRemoveGameSound DEF TimerRemoveGame
  <1> QED BY <1>4, <1>5, <1>6, <1>7, <1>8, <1>9, <1>10 DEF HandlerStep

\* A change of the seats and of the game's phase, in a sound server.
LEMMA SeatsSound ==
    ASSUME NEW v, Sound(v), NEW ph \in {"open", "running"},
           NEW seats \in SUBSET [id: Sessions, name: Names, guid: 0..MaxSessions, solvent: BOOLEAN],
           \A p \in seats : p.guid \in {p.id, Nobody},
           NEW back \in SUBSET Sessions
    PROVE  LET w == [v EXCEPT !.phase = ph, !.seats = seats, !.rejoining = back]
           IN  Sound(w) /\ SameNames(v, w)
  <1> DEFINE w == [v EXCEPT !.phase = ph, !.seats = seats, !.rejoining = back]
  <1>1. v \in ServerType
    BY DEF Sound
  <1>2. /\ w \in ServerType
        /\ w.maxLobby = v.maxLobby /\ w.lobby = v.lobby /\ w.state = v.state
        /\ w.gameSessions = v.gameSessions /\ w.attached = v.attached
        /\ w.members = v.members /\ w.seats = seats /\ SameNames(v, w)
    BY <1>1 DEF ServerType, SameNames
  <1> HIDE DEF w
  <1>3. WithinLimit(w) /\ MembersNamed(w) /\ SeatGuids(w) /\ OldGuids(w)
    BY <1>2 DEF Sound, WithinLimit, MembersNamed, SeatGuids, OldGuids, SameNames
  <1>4. \A t \in Sessions : FiledAt(w, t)
    BY <1>2 DEF Sound, FiledAt
  <1>5. Sound(w) /\ SameNames(v, w)
    BY <1>2, <1>3, <1>4 DEF Sound
  <1> QED BY <1>5 DEF w

\* What a running game does to its sessions and its seats.
LEMMA TableStepSound ==
    ASSUME IInv, TableStep
    PROVE  IInv'
  <1> DEFINE SeatType == [id: Sessions, name: Names, guid: 0..MaxSessions, solvent: BOOLEAN]
  <1>1. Sound(server) /\ server \in ServerType
    BY DEF IInv, Sound
  <1>2. \A s \in Sessions : s \in 0..MaxSessions
    BY LobbyAssumption DEF Sessions
  <1>3. CASE StartGame
    <2> DEFINE seats == {[id |-> s, name |-> server.name[s], guid |-> s, solvent |-> TRUE] :
                            s \in server.members}
    <2>1. \A s \in server.members : s \in Sessions /\ server.name[s] \in Names
      BY <1>1 DEF Sound, MembersNamed, ServerType
    <2>2. seats \in SUBSET SeatType /\ \A p \in seats : p.guid \in {p.id, Nobody}
      <3>1. ASSUME NEW p \in seats
            PROVE  p \in SeatType /\ p.guid = p.id
        <4>1. PICK s \in server.members :
                 p = [id |-> s, name |-> server.name[s], guid |-> s, solvent |-> TRUE]
          OBVIOUS
        <4> QED BY <1>2, <2>1, <4>1
      <3> QED BY <3>1
    <2>3. /\ UNCHANGED pending
          /\ server' = [server EXCEPT !.phase = "running", !.seats = seats]
      BY <1>3 DEF StartGame, GameStep
    <2> HIDE DEF seats
    <2>4. server.rejoining \in SUBSET Sessions
      BY <1>1 DEF ServerType
    <2>5. server' = [server EXCEPT !.phase = "running", !.seats = seats,
                                   !.rejoining = server.rejoining]
      BY <1>1, <2>3 DEF ServerType
    <2>6. Sound(server') /\ SameNames(server, server')
      BY <1>1, <2>2, <2>4, <2>5, SeatsSound
    <2> QED BY <2>3, <2>6, KeepsInvariant
  <1>4. CASE StartNewHand
    <2>1. PICK broke \in SUBSET server.seats :
             LET after(p) ==
                   IF p \in broke \/ (p.guid = Nobody /\ p.id \notin server.members)
                   THEN [p EXCEPT !.solvent = FALSE] ELSE p
                 v == [server EXCEPT !.seats = {after(p) : p \in @}]
             IN  server' = [v EXCEPT !.seats = UNION {Reseated(v, p) : p \in @},
                                     !.rejoining = {}]
      BY <1>4 DEF StartNewHand
    <2> DEFINE after(p) == IF p \in broke \/ (p.guid = Nobody /\ p.id \notin server.members)
                           THEN [p EXCEPT !.solvent = FALSE] ELSE p
    <2> DEFINE played == {after(p) : p \in server.seats}
    <2> DEFINE v == [server EXCEPT !.seats = played]
    <2> DEFINE seats == UNION {Reseated(v, p) : p \in played}
    <2>2. server.seats \in SUBSET SeatType /\ \A p \in server.seats : p.guid \in {p.id, Nobody}
      BY <1>1 DEF Sound, SeatGuids, ServerType
    <2>3. played \in SUBSET SeatType /\ \A p \in played : p.guid \in {p.id, Nobody}
      BY <2>2
    <2> HIDE DEF played
    <2>4. v.seats = played /\ v.rejoining = server.rejoining /\ v.members = server.members
      BY <1>1 DEF ServerType
    <2>5. ASSUME NEW p \in played, NEW q \in Reseated(v, p)
          PROVE  q \in SeatType /\ q.guid \in {q.id, Nobody}
      <3>1. q = p \/ \E s \in Sessions : q = [p EXCEPT !.id = s, !.guid = s]
        <4>1. v.members \in SUBSET Sessions
          BY <1>1, <2>4 DEF ServerType
        <4> QED BY <4>1 DEF Reseated
      <3> QED BY <1>2, <2>3, <3>1
    <2>6. seats \in SUBSET SeatType /\ \A q \in seats : q.guid \in {q.id, Nobody}
      BY <2>5
    <2>7. server' = [server EXCEPT !.phase = server.phase, !.seats = seats, !.rejoining = {}]
      <3>1. server' = [v EXCEPT !.seats = UNION {Reseated(v, p) : p \in @}, !.rejoining = {}]
        BY <2>1 DEF played
      <3> QED BY <1>1, <2>4, <3>1 DEF ServerType
    <2> HIDE DEF seats
    <2>8. server.phase \in {"open", "running"}
      BY <1>4 DEF StartNewHand, GameStep
    <2>9. Sound(server') /\ SameNames(server, server')
      BY <1>1, <2>6, <2>7, <2>8, SeatsSound
    <2> QED BY <1>4, <2>9, KeepsInvariant DEF StartNewHand, GameStep
  <1>5. CASE EndGame
    <2>1. /\ UNCHANGED pending
          /\ server' = [server EXCEPT !.phase = "open", !.seats = {}]
      BY <1>5 DEF EndGame, GameStep
    <2>2. /\ server.rejoining \in SUBSET Sessions
          /\ server' = [server EXCEPT !.phase = "open", !.seats = {},
                                     !.rejoining = server.rejoining]
      BY <1>1, <2>1 DEF ServerType
    <2>3. Sound(server') /\ SameNames(server, server')
      BY <1>1, <2>2, SeatsSound
    <2> QED BY <2>1, <2>3, KeepsInvariant
  <1>6. CASE GameError
    BY <1>1, <1>6, RemoveAllSessionsSound, KeepsInvariant DEF GameError, GameStep
  <1>7. CASE \E s \in Sessions : SendBack(s)
    <2>1. PICK s \in Sessions, kicked \in BOOLEAN :
             /\ UNCHANGED pending
             /\ server' = MoveSessionToLobby(IF kicked THEN MarkPlayerAsKicked(server, s)
                                             ELSE server, s)
      BY <1>7 DEF SendBack, GameStep
    <2> DEFINE w == IF kicked THEN MarkPlayerAsKicked(server, s) ELSE server
    <2>2. Sound(w) /\ SameNames(server, w)
      BY <1>1, KickSound
    <2>3. server' = MoveSessionToLobby(w, s)
      BY <2>1
    <2> HIDE DEF w
    <2>4. Sound(server') /\ SameNames(server, server')
      BY <2>2, <2>3, MoveSessionToLobbySound DEF SameNames
    <2> QED BY <2>1, <2>4, KeepsInvariant
  <1> QED BY <1>3, <1>4, <1>5, <1>6, <1>7 DEF TableStep

\* The server begins sound.
LEMMA InitSound == Init => IInv
  <1> SUFFICES ASSUME Init PROVE IInv
    OBVIOUS
  <1>1. PICK limit \in LobbyLimits :
           server = [maxLobby |-> limit,
                     state |-> [s \in Sessions |-> "none"],
                     name |-> [s \in Sessions |-> NoName],
                     oldGuid |-> [s \in Sessions |-> Nobody],
                     lobby |-> {}, gameSessions |-> {},
                     attached |-> {}, members |-> {},
                     phase |-> "none", seats |-> {}, rejoining |-> {},
                     armed |-> [s \in Sessions |-> {}],
                     reading |-> [s \in Sessions |-> "no"],
                     batch |-> Nobody]
    BY DEF Init
  <1>2. Nobody \in 0..MaxSessions /\ limit \in Nat
    BY LobbyAssumption DEF Nobody
  <1>3. server \in ServerType
    BY <1>1, <1>2 DEF ServerType, States
  <1>4. WithinLimit(server)
    BY <1>1, <1>2, FS_EmptySet DEF WithinLimit
  <1>5. MembersNamed(server) /\ SeatGuids(server) /\ OldGuids(server)
    BY <1>1, LobbyAssumption DEF MembersNamed, SeatGuids, OldGuids, Sessions, Nobody
  <1>6. \A s \in Sessions : FiledAt(server, s)
    BY <1>1 DEF FiledAt
  <1> QED BY <1>3, <1>4, <1>5, <1>6 DEF Init, IInv, Sound

\* Every step of the lobby, of a handler and of a game.
LEMMA NextSound == IInv /\ [Next]_vars => IInv'
  <1> SUFFICES ASSUME IInv, [Next]_vars PROVE IInv'
    OBVIOUS
  <1>1. CASE LobbyStep
    <2>1. ASSUME NEW s \in Sessions, AddConnection(s)
          PROVE  IInv'
      BY <2>1, AddConnectionSound, KeepsInvariant DEF AddConnection
    <2> QED BY <1>1, <2>1, InitMessageSound, LoginPacketsSound, LobbyPacketsSound,
               ReadEndsSound DEF LobbyStep
  <1>2. CASE HandlerStep
    BY <1>2, HandlerStepSound
  <1>3. CASE TableStep
    BY <1>3, TableStepSound
  <1>4. CASE AllGone \/ UNCHANGED vars
    BY <1>4 DEF AllGone, vars, IInv
  <1> QED BY <1>1, <1>2, <1>3, <1>4 DEF Next

(***************************************************************************)
(* Who is gone stays gone                                                  *)
(***************************************************************************)

\* Closed, and nothing that was received waits to be handled.
Quiet(v, t) == v.state[t] = "Closed" /\ v.reading[t] = "no"
StayQuiet(v, w) == \A t \in Sessions : Quiet(v, t) => Quiet(w, t)

\* Closing closes once.
LEMMA CloseSessionQuiet ==
    ASSUME NEW v \in ServerType, NEW s \in Sessions
    PROVE  StayQuiet(v, CloseSession(v, s))
  <1>1. CASE v.state[s] = "Closed"
    BY <1>1 DEF CloseSession, StayQuiet
  <1>2. CASE v.state[s] # "Closed"
    <2>1. /\ CloseSession(v, s).state = [v.state EXCEPT ![s] = "Closed"]
          /\ CloseSession(v, s).reading = [v.reading EXCEPT ![s] = LastRead(v, s)]
      BY <1>2 DEF CloseSession, ServerType
    <2> QED BY <1>2, <2>1 DEF StayQuiet, Quiet, ServerType
  <1> QED BY <1>1, <1>2

\* So does an error, with or without a kick.
LEMMA SessionErrorQuiet ==
    ASSUME NEW v, NEW s \in Sessions, SoundBut(v, s), NEW kicked \in BOOLEAN
    PROVE  StayQuiet(v, SessionError(v, s, kicked))
  <1> DEFINE u == IF kicked THEN MarkPlayerAsKicked(v, s) ELSE v
  <1>1. u \in ServerType
    BY MarkPlayerAsKickedSound DEF SoundBut
  <1>2. u.state = v.state /\ u.reading = v.reading
    BY DEF SoundBut, ServerType, MarkPlayerAsKicked
  <1>3. SessionError(v, s, kicked) = CloseSession(u, s)
    BY DEF SessionError
  <1> HIDE DEF u
  <1> QED BY <1>1, <1>2, <1>3, CloseSessionQuiet DEF StayQuiet, Quiet

\* A session that is not quiet may go anywhere.
LEMMA MoveSessionToLobbyQuiet ==
    ASSUME NEW v, Sound(v), NEW s \in Sessions, ~Quiet(v, s)
    PROVE  StayQuiet(v, MoveSessionToLobby(v, s))
  <1> DEFINE w == [v EXCEPT !.members = @ \ {s}, !.gameSessions = @ \ {s},
                            !.attached = @ \ {s}]
  <1> DEFINE back == [w EXCEPT !.state[s] = "Established", !.lobby = @ \cup {s}]
  <1>1. \/ MoveSessionToLobby(v, s) = back
        \/ MoveSessionToLobby(v, s) = CloseSession(w, s)
    BY DEF MoveSessionToLobby, HandleReAddedSession, SessionError
  <1>2. v \in ServerType
    BY DEF Sound
  <1>3. /\ w \in ServerType /\ w.state = v.state /\ w.reading = v.reading
        /\ back.state = [v.state EXCEPT ![s] = "Established"]
        /\ back.reading = v.reading
    BY <1>2 DEF ServerType
  <1> HIDE DEF w, back
  <1>4. StayQuiet(w, CloseSession(w, s))
    BY <1>3, CloseSessionQuiet
  <1>5. StayQuiet(v, CloseSession(w, s))
    BY <1>3, <1>4 DEF StayQuiet, Quiet
  <1>6. StayQuiet(v, back)
    BY <1>2, <1>3 DEF StayQuiet, Quiet, ServerType
  <1> QED BY <1>1, <1>5, <1>6

\* The same of a game, whatever it does with the session.
LEMMA MoveSessionToGameQuiet ==
    ASSUME NEW v, Sound(v), NEW s \in Sessions, ~Quiet(v, s), v.name[s] # NoName,
           NEW w \in MoveSessionToGame(v, s)
    PROVE  StayQuiet(v, w)
  <1> DEFINE out == [v EXCEPT !.lobby = @ \ {s}, !.state[s] = "Game"]
  <1> DEFINE in == [out EXCEPT !.gameSessions = @ \cup {s}, !.attached = @ \cup {s}]
  <1>1. v \in ServerType
    BY DEF Sound
  <1>2. /\ out \in ServerType /\ in \in ServerType
        /\ out.state = [v.state EXCEPT ![s] = "Game"] /\ out.reading = v.reading
        /\ in.state = out.state /\ in.reading = v.reading
    BY <1>1, ZenonT(60) DEF ServerType, States
  <1>3. \/ w = CloseSession(out, s)
        \/ w \in HandleNewPlayer(in, s)
    BY DEF MoveSessionToGame, SessionError
  <1> HIDE DEF out, in
  <1>4. StayQuiet(v, out) /\ StayQuiet(v, in) /\ ~Quiet(in, s)
    BY <1>1, <1>2 DEF StayQuiet, Quiet, ServerType
  <1>5. CASE w = CloseSession(out, s)
    BY <1>2, <1>4, <1>5, CloseSessionQuiet DEF StayQuiet
  <1>6. CASE w \in HandleNewPlayer(in, s)
    <2> DEFINE joined == [in EXCEPT !.members = @ \cup {s}]
    <2> DEFINE back == [in EXCEPT !.members = @ \cup {s}, !.rejoining = @ \cup {s}]
    <2> DEFINE left == [in EXCEPT !.members = @ \ {s}, !.gameSessions = @ \ {s},
                                  !.attached = @ \ {s}]
    <2> DEFINE inLobby == [left EXCEPT !.state[s] = "Established", !.lobby = @ \cup {s}]
    <2>1. \/ w = in \/ w = joined \/ w = back
          \/ w = inLobby \/ w = CloseSession(left, s)
      <3>1. CASE in.phase = "open"
        BY <1>6, <3>1 DEF HandleNewPlayer, MoveSessionToLobby, HandleReAddedSession,
                          SessionError
      <3>2. CASE in.phase = "running"
        BY <1>6, <3>2 DEF HandleNewPlayer, MoveSessionToLobby, HandleReAddedSession,
                          SessionError
      <3>3. CASE in.phase \notin {"open", "running"}
        BY <1>6, <3>3 DEF HandleNewPlayer
      <3> QED BY <3>1, <3>2, <3>3
    <2>2. /\ joined.state = in.state /\ joined.reading = in.reading
          /\ back.state = in.state /\ back.reading = in.reading
          /\ left \in ServerType /\ left.state = in.state /\ left.reading = in.reading
          /\ inLobby.state = [in.state EXCEPT ![s] = "Established"]
          /\ inLobby.reading = in.reading
      BY <1>2 DEF ServerType
    <2> HIDE DEF joined, back, left, inLobby
    <2>3. StayQuiet(left, CloseSession(left, s))
      BY <2>2, CloseSessionQuiet
    <2>4. /\ StayQuiet(in, joined) /\ StayQuiet(in, back) /\ StayQuiet(in, inLobby)
          /\ StayQuiet(in, CloseSession(left, s))
      BY <1>2, <1>4, <2>2, <2>3 DEF StayQuiet, Quiet, ServerType
    <2> QED BY <1>4, <2>1, <2>4 DEF StayQuiet
  <1> QED BY <1>3, <1>5, <1>6

\* A game that is closed or removed takes only its open sessions along.
LEMMA RemoveAllSessionsQuiet ==
    ASSUME NEW v, Sound(v)
    PROVE  StayQuiet(v, RemoveAllSessions(v)) /\ StayQuiet(v, InternalRemoveGame(v))
  <1> DEFINE gone(s) == s \in v.members /\ v.state[s] # "Closed"
  <1> DEFINE w == RemoveAllSessions(v)
  <1>1. v \in ServerType /\ w \in ServerType
    BY RemoveAllSessionsSound DEF Sound
  <1>2. /\ w.state = [s \in Sessions |-> IF gone(s) THEN "Closed" ELSE v.state[s]]
        /\ w.reading = [s \in Sessions |->
                          IF ~gone(s) THEN v.reading[s] ELSE LastRead(v, s)]
    BY <1>1 DEF RemoveAllSessions, ServerType
  <1>3. InternalRemoveGame(v).state = w.state /\ InternalRemoveGame(v).reading = w.reading
    BY <1>1 DEF InternalRemoveGame, ServerType
  <1> HIDE DEF w
  <1> QED BY <1>2, <1>3 DEF StayQuiet, Quiet, w

\* A removal touches nobody but the player it is for, and him only if he is there.
LEMMA InternalRemovePlayerQuiet ==
    ASSUME NEW v, Sound(v), NEW s, NEW kicked \in BOOLEAN
    PROVE  StayQuiet(v, InternalRemovePlayer(v, s, kicked))
  <1>1. v \in ServerType
    BY DEF Sound
  <1>2. CASE s \notin v.lobby \cup (v.members \cap v.attached)
    BY <1>2 DEF InternalRemovePlayer, StayQuiet
  <1>3. CASE s \in v.lobby \cup (v.members \cap v.attached)
    <2>1. s \in Sessions
      BY <1>1, <1>3 DEF ServerType
    <2> DEFINE u == [v EXCEPT !.members = @ \ {s}]
    <2>2. InternalRemovePlayer(v, s, kicked) = SessionError(u, s, kicked)
      BY <1>3 DEF InternalRemovePlayer
    <2>3. SoundBut(u, s) /\ u.state = v.state /\ u.reading = v.reading
      BY <2>1, MemberGoneSound
    <2> HIDE DEF u
    <2>4. StayQuiet(u, SessionError(u, s, kicked))
      BY <2>1, <2>3, SessionErrorQuiet
    <2> QED BY <2>2, <2>3, <2>4 DEF StayQuiet, Quiet
  <1> QED BY <1>2, <1>3

\* A login brings nobody back but its own session, which is in the lobby.
LEMMA EstablishSessionQuiet ==
    ASSUME NEW v, Sound(v), NEW s \in v.lobby, NEW w \in EstablishSession(v, s)
    PROVE  StayQuiet(v, w)
  <1>1. v \in ServerType /\ s \in Sessions
    BY DEF Sound, ServerType
  <1>2. ~Quiet(v, s)
    BY <1>1 DEF Sound, FiledAt, Quiet
  <1>3. \/ \E other : w = Established(InternalRemovePlayer(v, other, FALSE), s)
        \/ w = Established(v, s)
        \/ w = SessionError(v, s, FALSE)
    BY DEF EstablishSession
  <1>4. ASSUME NEW u, Sound(u), StayQuiet(v, u)
        PROVE  StayQuiet(v, Established(u, s))
    <2>1. /\ Established(u, s).state = [u.state EXCEPT ![s] = "Established"]
          /\ Established(u, s).reading = u.reading
          /\ u.state \in [Sessions -> States]
      BY <1>4 DEF Established, Sound, ServerType
    <2> QED BY <1>2, <1>4, <2>1 DEF StayQuiet, Quiet
  <1>5. ASSUME NEW other
        PROVE  StayQuiet(v, Established(InternalRemovePlayer(v, other, FALSE), s))
    <2>1. /\ Sound(InternalRemovePlayer(v, other, FALSE))
          /\ StayQuiet(v, InternalRemovePlayer(v, other, FALSE))
      BY InternalRemovePlayerSound, InternalRemovePlayerQuiet
    <2> QED BY <1>4, <2>1
  <1>6. StayQuiet(v, v)
    BY DEF StayQuiet
  <1>7. StayQuiet(v, SessionError(v, s, FALSE))
    BY <1>1, SoundIsSoundBut, SessionErrorQuiet
  <1> QED BY <1>3, <1>4, <1>5, <1>6, <1>7

\* Who sends packets is not quiet, and the packet is not what changes that.
LEMMA PacketQuiet ==
    ASSUME Sound(server), NEW s \in Sessions, NEW v \in {Packet(s), Active(s)}
    PROVE  v.state = server.state /\ v.reading = server.reading
  BY DEF Sound, ServerType, Packet, Active

\* The outcome of a packet is one of its handler.
LEMMA HandleQuiet ==
    ASSUME Sound(server), NEW s \in Sessions, NEW results, Handle(s, results),
           \A v \in results : Sound(v) /\ StayQuiet(server, v)
    PROVE  StayQuiet(server, server')
  <1>1. PICK v \in results, b \in {s, Nobody} : server' = [v EXCEPT !.batch = b]
    BY DEF Handle
  <1>2. v \in ServerType /\ StayQuiet(server, v)
    BY DEF Sound
  <1>3. server'.state = v.state /\ server'.reading = v.reading
    BY <1>1, <1>2 DEF ServerType
  <1> QED BY <1>2, <1>3 DEF StayQuiet, Quiet

\* Packets of any kind.
LEMMA PacketsQuiet ==
    ASSUME IInv, NEW s \in Sessions,
           \/ InitMessage(s) \/ AvatarHeader(s) \/ UnknownAvatar(s)
           \/ AvatarFile(s) \/ AvatarEnd(s)
           \/ CreateGame(s) \/ JoinGame(s) \/ AdminRemoveGame(s) \/ InvalidPacket(s)
           \/ LeaveGame(s) \/ GameRequest(s) \/ GameThrows(s)
    PROVE  StayQuiet(server, server')
  <1>1. Sound(server) /\ server \in ServerType /\ server.reading[s] # "no"
    BY DEF IInv, Sound, InitMessage, AvatarHeader, UnknownAvatar, AvatarFile, AvatarEnd,
           CreateGame, JoinGame, AdminRemoveGame, InvalidPacket, LeaveGame, GameRequest,
           GameThrows, LobbyReceives, GameReceives, Receives
  <1>2. ASSUME NEW v \in {Packet(s), Active(s)}
        PROVE  /\ Sound(v) /\ SameNames(server, v) /\ v.lobby = server.lobby
               /\ v.state = server.state /\ v.reading = server.reading
               /\ ~Quiet(v, s) /\ StayQuiet(server, v)
               /\ Sound(SessionError(v, s, FALSE)) /\ StayQuiet(server, SessionError(v, s, FALSE))
    <2>1. /\ Sound(v) /\ SameNames(server, v) /\ v.lobby = server.lobby
          /\ v.state = server.state /\ v.reading = server.reading
      BY <1>1, PacketSound, PacketQuiet
    <2>2. /\ StayQuiet(v, SessionError(v, s, FALSE))
          /\ Sound(SessionError(v, s, FALSE))
      BY <2>1, SoundIsSoundBut, SessionErrorQuiet, SessionErrorSound
    <2> QED BY <1>1, <2>1, <2>2 DEF StayQuiet, Quiet
  <1>3. ASSUME NEW v, Sound(v), v.name[s] # NoName, ~Quiet(v, s), StayQuiet(server, v),
               NEW w \in MoveSessionToGame(v, s)
        PROVE  Sound(w) /\ StayQuiet(server, w)
    <2>1. Sound(w) /\ StayQuiet(v, w)
      BY <1>3, MoveSessionToGameSound, MoveSessionToGameQuiet
    <2> QED BY <1>3, <2>1 DEF StayQuiet
  <1>4. CASE InitMessage(s)
    <2>1. CASE Handle(s, {SessionError(Active(s), s, FALSE)})
      BY <1>1, <1>2, <2>1, HandleQuiet
    <2>2. CASE /\ server.name[s] = NoName
               /\ Handle(s, Logins(s))
      <3>1. ASSUME NEW w \in Logins(s)
            PROVE  Sound(w) /\ StayQuiet(server, w)
        <4>1. server.name[s] = NoName
          BY <2>2
        <4>2. Sound(w) /\ w.state = server.state /\ w.reading = server.reading
          BY <1>1, <4>1, LoginsSound
        <4> QED BY <4>2 DEF StayQuiet, Quiet
      <3>2. Handle(s, Logins(s))
        BY <2>2
      <3> QED BY <1>1, <3>1, <3>2, HandleQuiet
    <2> QED BY <1>4, <2>1, <2>2 DEF InitMessage
  <1>5. CASE AvatarHeader(s) \/ UnknownAvatar(s) \/ AvatarFile(s) \/ AvatarEnd(s)
    <2> DEFINE v == Packet(s)
    <2> DEFINE header == [v EXCEPT !.state[s] = "ReceivingAvatar"]
    <2>1. s \in v.lobby
      <3>1. server.state[s] \in {"Init", "ReceivingAvatar"}
        BY <1>5 DEF AvatarHeader, UnknownAvatar, AvatarFile, AvatarEnd, LobbyReceives
      <3> QED BY <1>1, <1>2, <3>1 DEF Sound, FiledAt
    <2>2. \A w \in EstablishSession(v, s) : Sound(w) /\ StayQuiet(server, w)
      <3>1. \A w \in EstablishSession(v, s) : Sound(w) /\ StayQuiet(v, w)
        BY <1>2, <2>1, EstablishSessionSound, EstablishSessionQuiet
      <3> QED BY <1>2, <3>1 DEF StayQuiet
    <2>3. CASE AvatarHeader(s)
      <3>1. Handle(s, {header, SessionError(v, s, FALSE)})
        BY <2>3 DEF AvatarHeader
      <3>2. PICK w \in {header, SessionError(v, s, FALSE)}, b \in {s, Nobody} :
               server' = [w EXCEPT !.batch = b]
        BY <3>1 DEF Handle
      <3>3. CASE w = header
        <4>1. v \in ServerType
          BY <1>2 DEF Sound
        <4>2. /\ server'.state = [v.state EXCEPT ![s] = "ReceivingAvatar"]
              /\ server'.reading = v.reading
          BY <3>2, <3>3, <4>1 DEF ServerType
        <4> QED BY <1>1, <1>2, <4>2 DEF StayQuiet, Quiet, ServerType
      <3>4. CASE w = SessionError(v, s, FALSE)
        <4>1. w \in ServerType /\ StayQuiet(server, w)
          BY <1>2, <3>4 DEF Sound
        <4>2. server'.state = w.state /\ server'.reading = w.reading
          BY <3>2, <4>1 DEF ServerType
        <4> QED BY <4>1, <4>2 DEF StayQuiet, Quiet
      <3> QED BY <3>2, <3>3, <3>4
    <2>4. CASE UnknownAvatar(s)
      BY <1>1, <2>2, <2>4, HandleQuiet DEF UnknownAvatar
    <2>5. CASE AvatarFile(s)
      BY <1>1, <1>2, <2>5, HandleQuiet DEF AvatarFile
    <2>6. CASE AvatarEnd(s)
      BY <1>1, <1>2, <2>2, <2>6, HandleQuiet DEF AvatarEnd
    <2> QED BY <1>5, <2>3, <2>4, <2>5, <2>6
  <1>6. CASE CreateGame(s)
    <2> DEFINE new == [Active(s) EXCEPT !.phase = "open"]
    <2> DEFINE created == IF server.name[s] # NoName /\ server.phase = "none"
                          THEN MoveSessionToGame(new, s) ELSE {}
    <2>1. Handle(s, {Active(s)} \cup created)
      BY <1>6 DEF CreateGame
    <2>2. /\ Sound(new) /\ SameNames(Active(s), new)
          /\ new.state = Active(s).state /\ new.reading = Active(s).reading
      BY <1>2, GameOpenSound, ZenonT(60) DEF Sound, ServerType
    <2> HIDE DEF new
    <2>3. ~Quiet(new, s) /\ StayQuiet(server, new) /\ new.name = server.name
      BY <1>2, <2>2 DEF Quiet, StayQuiet, SameNames
    <2>4. \A w \in created : Sound(w) /\ StayQuiet(server, w)
      BY <1>3, <2>2, <2>3
    <2> HIDE DEF created
    <2> QED BY <1>1, <1>2, <2>1, <2>4, HandleQuiet
  <1>7. CASE JoinGame(s)
    <2> DEFINE joined == IF server.name[s] # NoName /\ server.phase # "none"
                         THEN MoveSessionToGame(Active(s), s) ELSE {}
    <2>1. Handle(s, {Active(s)} \cup joined)
      BY <1>7 DEF JoinGame
    <2>2. \A w \in joined : Sound(w) /\ StayQuiet(server, w)
      BY <1>2, <1>3 DEF SameNames
    <2> HIDE DEF joined
    <2> QED BY <1>1, <1>2, <2>1, <2>2, HandleQuiet
  <1>8. CASE AdminRemoveGame(s) \/ GameThrows(s)
    <2> DEFINE v == Packet(s)
    <2>1. /\ Sound(InternalRemoveGame(v)) /\ StayQuiet(v, InternalRemoveGame(v))
          /\ Sound(RemoveAllSessions(v)) /\ StayQuiet(v, RemoveAllSessions(v))
      BY <1>2, InternalRemoveGameSound, RemoveAllSessionsSound, RemoveAllSessionsQuiet
    <2>2. StayQuiet(server, InternalRemoveGame(v)) /\ StayQuiet(server, RemoveAllSessions(v))
      BY <1>2, <2>1 DEF StayQuiet
    <2>3. Handle(s, {InternalRemoveGame(v)}) \/ Handle(s, {RemoveAllSessions(v)})
      BY <1>8 DEF AdminRemoveGame, GameThrows
    <2> HIDE DEF v
    <2> QED BY <1>1, <2>1, <2>2, <2>3, HandleQuiet
  <1>9. CASE InvalidPacket(s)
    BY <1>1, <1>2, <1>9, HandleQuiet DEF InvalidPacket
  <1>10. CASE LeaveGame(s)
    <2> DEFINE v == Active(s)
    <2>1. Sound(MoveSessionToLobby(v, s)) /\ StayQuiet(v, MoveSessionToLobby(v, s))
      BY <1>2, MoveSessionToLobbySound, MoveSessionToLobbyQuiet
    <2>2. StayQuiet(server, MoveSessionToLobby(v, s))
      BY <1>2, <2>1 DEF StayQuiet
    <2>3. Handle(s, {MoveSessionToLobby(v, s)})
      BY <1>10 DEF LeaveGame
    <2> HIDE DEF v
    <2> QED BY <1>1, <2>1, <2>2, <2>3, HandleQuiet
  <1>11. CASE GameRequest(s)
    BY <1>1, <1>2, <1>11, HandleQuiet DEF GameRequest
  <1> QED BY <1>4, <1>5, <1>6, <1>7, <1>8, <1>9, <1>10, <1>11

\* Connections, ends of reads, answers of the database, removals and timers.
LEMMA HandlersQuiet ==
    ASSUME IInv,
           \/ \E s \in Sessions : AddConnection(s) \/ ReadEnds(s)
           \/ ProcessPacketsEnds
           \/ HandlerStep
    PROVE  StayQuiet(server, server')
  <1>1. Sound(server) /\ server \in ServerType
    BY DEF IInv, Sound
  <1>2. ASSUME NEW s \in Sessions, NEW kicked \in BOOLEAN
        PROVE  StayQuiet(server, SessionError(server, s, kicked))
    BY <1>1, SoundIsSoundBut, SessionErrorQuiet
  <1>3. ASSUME NEW s \in Sessions, NEW handler
        PROVE  /\ Disarmed(s, handler).state = server.state
               /\ Disarmed(s, handler).reading = server.reading
               /\ StayQuiet(server, SessionError(Disarmed(s, handler), s, TRUE))
    <2> DEFINE v == Disarmed(s, handler)
    <2>1. server.armed[s] \ {handler} \in SUBSET Handlers
      BY <1>1 DEF ServerType
    <2>2. Sound(v) /\ v.state = server.state /\ v.reading = server.reading
      BY <1>1, <2>1, TimersSound DEF Disarmed, ServerType
    <2> HIDE DEF v
    <2>3. StayQuiet(v, SessionError(v, s, TRUE))
      BY <2>2, SoundIsSoundBut, SessionErrorQuiet
    <2> QED BY <2>2, <2>3 DEF StayQuiet, Quiet, v
  <1>4. CASE \E s \in Sessions : AddConnection(s)
    <2>1. PICK s \in Sessions : AddConnection(s)
      BY <1>4
    <2>2. server.state[s] = "none"
      BY <2>1 DEF AddConnection
    <2> DEFINE new == [server EXCEPT !.state[s] = "Init"]
    <2> DEFINE added == [new EXCEPT !.lobby = @ \cup {s},
                                    !.armed[s] = {"global", "warning"},
                                    !.reading[s] = "open"]
    <2>3. server' = CloseSession(new, s) \/ server' = added
      BY <2>1 DEF AddConnection, SessionError
    <2>4. /\ new \in ServerType /\ new.reading = server.reading
          /\ new.state = [server.state EXCEPT ![s] = "Init"]
          /\ added.state = new.state
          /\ added.reading = [server.reading EXCEPT ![s] = "open"]
      BY <1>1 DEF ServerType, States
    <2> HIDE DEF new, added
    <2>5. StayQuiet(new, CloseSession(new, s))
      BY <2>4, CloseSessionQuiet
    <2> QED BY <1>1, <2>2, <2>3, <2>4, <2>5 DEF StayQuiet, Quiet, ServerType
  <1>5. CASE \E s \in Sessions : ReadEnds(s)
    <2>1. PICK s \in Sessions : ReadEnds(s)
      BY <1>5
    <2>2. \E v \in {CloseSession(server, s), server} : server' = [v EXCEPT !.reading[s] = "no"]
      BY <2>1 DEF ReadEnds
    <2>3. /\ CloseSession(server, s) \in ServerType
          /\ StayQuiet(server, CloseSession(server, s))
      BY <1>1, CloseSessionQuiet, CloseSessionSound, SoundIsSoundBut DEF Sound
    <2> QED BY <1>1, <2>2, <2>3 DEF StayQuiet, Quiet, ServerType
  <1>6. CASE ProcessPacketsEnds
    BY <1>1, <1>6 DEF ProcessPacketsEnds, StayQuiet, Quiet, ServerType
  <1>7. CASE \E s \in Sessions : UserValid(s)
    <2>1. PICK s \in Sessions : UserValid(s)
      BY <1>7
    <2>2. CASE s \in server.lobby
      <3>1. server' \in EstablishSession(server, s) \/ server' = SessionError(server, s, FALSE)
        BY <2>1, <2>2 DEF UserValid
      <3> QED BY <1>1, <1>2, <2>2, <3>1, EstablishSessionQuiet
    <2>3. CASE s \notin server.lobby
      BY <2>1, <2>3 DEF UserValid, StayQuiet
    <2> QED BY <2>2, <2>3
  <1>8. CASE \E s \in Sessions : UserInvalid(s)
    BY <1>2, <1>8 DEF UserInvalid
  <1>9. CASE \E s \in Sessions : RemovePlayer(s)
    BY <1>1, <1>9, InternalRemovePlayerQuiet DEF RemovePlayer
  <1>10. CASE \E s \in Sessions : TimerInitTimeout(s)
    <2>1. PICK s \in Sessions : TimerInitTimeout(s)
      BY <1>10
    <2> QED BY <1>1, <2>1, SoundIsSoundBut, SessionErrorQuiet DEF TimerInitTimeout
  <1>11. CASE \E s \in Sessions, h \in Handlers : TimerSessionTimeout(s, h)
    BY <1>3, <1>11 DEF TimerSessionTimeout
  <1>12. CASE \E s \in Sessions : TimerActivityWarning(s)
    <2>1. PICK s \in Sessions : TimerActivityWarning(s)
      BY <1>12
    <2>2. server'.state = server.state /\ server'.reading = server.reading
      BY <1>1, <2>1 DEF TimerActivityWarning, Disarmed, ServerType
    <2> QED BY <2>2 DEF StayQuiet, Quiet
  <1>13. CASE TimerRemoveGame
    BY <1>1, <1>13, RemoveAllSessionsQuiet DEF TimerRemoveGame
  <1> QED BY <1>4, <1>5, <1>6, <1>7, <1>8, <1>9, <1>10, <1>11, <1>12, <1>13
          DEF HandlerStep

\* A game sends back only who is in it, and closes only who is open.
LEMMA TableStepQuiet ==
    ASSUME IInv, TableStep
    PROVE  StayQuiet(server, server')
  <1>1. Sound(server) /\ server \in ServerType
    BY DEF IInv, Sound
  <1>2. CASE StartGame \/ StartNewHand \/ EndGame
    <2>1. server'.state = server.state /\ server'.reading = server.reading
      BY <1>1, <1>2 DEF StartGame, StartNewHand, EndGame, ServerType
    <2> QED BY <2>1 DEF StayQuiet, Quiet
  <1>3. CASE GameError
    BY <1>1, <1>3, RemoveAllSessionsQuiet DEF GameError
  <1>4. CASE \E s \in Sessions : SendBack(s)
    <2>1. PICK s \in Sessions, kicked \in BOOLEAN :
             /\ s \in server.members
             /\ server' = MoveSessionToLobby(IF kicked THEN MarkPlayerAsKicked(server, s)
                                             ELSE server, s)
      BY <1>4 DEF SendBack
    <2> DEFINE w == IF kicked THEN MarkPlayerAsKicked(server, s) ELSE server
    <2>2. Sound(w) /\ w.state = server.state /\ w.reading = server.reading
      BY <1>1, KickSound
    <2>3. server' = MoveSessionToLobby(w, s)
      BY <2>1
    <2> HIDE DEF w
    <2>4. ~Quiet(w, s)
      BY <1>1, <2>1, <2>2 DEF Sound, FiledAt, Quiet
    <2>5. StayQuiet(w, server')
      BY <2>2, <2>3, <2>4, MoveSessionToLobbyQuiet
    <2> QED BY <2>2, <2>5 DEF StayQuiet, Quiet
  <1> QED BY <1>2, <1>3, <1>4 DEF TableStep

\* The strengthened invariant holds throughout.
THEOREM ServerSound == Spec => []IInv
  <1> QED BY InitSound, NextSound, PTL DEF Spec

(***************************************************************************)
(* The theorems                                                            *)
(***************************************************************************)

\* Every session, game and login stays within its type, and only sessions with
\* player data wait for the database or sit in a game.
THEOREM SessionsTypeCorrect == Spec => []TypeOK
  <1>1. IInv => TypeOK
    BY DEF IInv, Sound, MembersNamed, TypeOK
  <1> QED BY <1>1, ServerSound, PTL

\* However sessions log in, move, are removed and closed, each is kept exactly
\* where its state says (CloseSession, HandleReAddedSession, MoveSessionToGame).
THEOREM SessionsStayFiled == Spec => []SessionsFiled
  <1>1. IInv => SessionsFiled
    BY DEF IInv, Sound, FiledAt, SessionsFiled
  <1> QED BY <1>1, ServerSound, PTL

\* The lobby never holds more sessions than SERVER_MAX_NUM_LOBBY_SESSIONS, though
\* they come to it from new connections and from games.
THEOREM LobbyNeverOverfull == Spec => []LobbyWithinLimit
  <1>1. IInv => LobbyWithinLimit
    BY DEF IInv, Sound, WithinLimit, LobbyWithinLimit
  <1> QED BY <1>1, ServerSound, PTL

\* A removal that runs ends the session of its player, wherever he is by now; he
\* is only missed in a game that was closed when he joined it
\* (InternalRemovePlayer).
THEOREM RemovalsFindTheirPlayer == Spec => []RemovedPlayerGoes
  <1>1. IInv => RemovedPlayerGoes
    <2> SUFFICES ASSUME IInv, NEW s \in Sessions,
                        server.state[s] \notin {"none", "Closed"}, ~Limbo(s)
                 PROVE  InternalRemovePlayer(server, s, TRUE).state[s] = "Closed"
      BY DEF RemovedPlayerGoes
    <2>1. Sound(server) /\ server.state[s] \in States /\ FiledAt(server, s)
      BY DEF IInv, Sound, ServerType
    <2>2. s \in server.lobby \cup (server.members \cap server.attached)
      BY <2>1 DEF FiledAt, Limbo, States
    <2> QED BY <2>1, <2>2, InternalRemovePlayerSound
  <1> QED BY <1>1, ServerSound, PTL

\* A session that is closed and not read from any more stays so: no timer, answer
\* of the database, posted removal or game brings it back.
THEOREM NobodyRevivedLate == Spec => LateEventsReviveNobody
  <1>1. IInv /\ [Next]_vars =>
           [\A s \in Sessions : server.state[s] = "Closed" /\ server.reading[s] = "no"
               => server'.state[s] = "Closed" /\ server'.reading[s] = "no"]_vars
    <2> SUFFICES ASSUME IInv, [Next]_vars, ~UNCHANGED vars
                 PROVE  StayQuiet(server, server')
      BY DEF StayQuiet, Quiet
    <2>1. CASE LobbyStep
      BY <2>1, PacketsQuiet, HandlersQuiet DEF LobbyStep
    <2>2. CASE HandlerStep
      BY <2>2, HandlersQuiet
    <2>3. CASE TableStep
      BY <2>3, TableStepQuiet
    <2> QED BY <2>1, <2>2, <2>3 DEF Next, AllGone
  <1> QED BY <1>1, ServerSound, PTL DEF Spec, LateEventsReviveNobody
=============================================================================
