------------------------- MODULE ClientSession_proofs -------------------------
(***************************************************************************)
(* The guid on the player's disk and his offer to come back, for every      *)
(* number of connections and of messages under way.                        *)
(***************************************************************************)
EXTENDS ClientSession, SequenceTheorems, WellFoundedInduction, TLAPS

(***************************************************************************)
(* The inductive invariant                                                 *)
(***************************************************************************)

\* Before the answer to his login the client hears no more than these.
Early == {"Announce", "Error", "End"}
Acks == {"InitAck", "InitAckRejoin"}
Starts == {"StartInitial", "StartRejoin"}

LoggingIn == {"StartSession", "EnterLogin", "WaitSession"}
InSession == {"WaitJoin", "WaitGame", "Synchronize", "WaitStart", "Playing"}

Has(d, S) == \E i \in 1..Len(d) : d[i] \in S

\* Whatever else a client may hear comes with the answer or behind it.
AckFirst(d) ==
    \A i \in 1..Len(d) : d[i] \notin Early => \E j \in 1..i : d[j] \in Acks

OneAck(d) == \A i, j \in 1..Len(d) : d[i] \in Acks /\ d[j] \in Acks => i = j

\* A server v: who is in the game, and what each session may still ask for.
MembersPlay(v) == v.members = {s \in Logins : v.state[s] = "Game"}

UnreadFits(v) ==
    \A s \in Logins :
       /\ v.state[s] \in {"none", "Login", "Closed"} => v.unread[s] = <<>>
       /\ v.state[s] \in {"Connecting", "Init"} =>
             v.unread[s] = <<>> \/ \E g \in 0..MaxLogins : v.unread[s] = <<<<"Init", g>>>>
       /\ v.state[s] \in {"Established", "Game"} =>
             \A i \in 1..Len(v.unread[s]) : v.unread[s][i] \in {<<"Join">>, <<"Leave">>}

OneSeat(v) == \A p, q \in v.seats : p = q

Sound(v) == v \in Servers /\ MembersPlay(v) /\ UnreadFits(v) /\ OneSeat(v)

OneLogin == ~doubled => \A s, t \in LoggedIn(server) : s = t

\* The client and its own session.
ClientFits ==
    /\ client.state \in Connected <=> client.login \in Logins
    /\ client.state \notin Connected => down = <<>>
    /\ client.login \in Logins => server.state[client.login] # "none"
    /\ client.state \in {"StartSession", "EnterLogin"} =>
          /\ server.state[client.login] \in {"Connecting", "Init", "Closed"}
          /\ server.unread[client.login] = <<>>
    /\ client.state \in LoggingIn =>
          /\ AckFirst(down)
          /\ \/ Has(down, Acks)
             \/ client.login \in ended
             \/ server.state[client.login] \in {"Connecting", "Init", "Login", "Closed"}
    /\ OneAck(down)
    /\ Has(down, Acks) =>
          /\ client.state = "WaitSession"
          /\ server.state[client.login] \in {"Established", "Game", "Closed"}
    /\ client.state \in InSession =>
          /\ server.state[client.login] \in {"Established", "Game", "Closed"}
          /\ client.guid = client.login
    /\ client.state = "Playing" => disk = client.login

\* The server has taken the client's login.
Taken ==
    /\ client.login \in Logins
    /\ \/ client.login \in LoggedIn(server)
       \/ client.state \in InSession
       \/ Has(down, Acks)

OthersIdle ==
    ~doubled /\ Taken =>
       \A s \in Logins \ {client.login} :
          /\ s \notin server.members
          /\ s \in LoggedIn(server) => server.unread[s] = <<>>

SeatIsMine ==
    ~doubled /\ (client.state = "Playing" \/ Has(down, Starts))
      => \A p \in OpenSeats : p.guid = client.login

Offered == client.offered \/ Has(down, {"InitAckRejoin"})

OfferUnanswered ==
    /\ client.offered => client.state = "WaitJoin"
    /\ Offered =>
          /\ ~Has(down, {"JoinAck"})
          /\ server.unread[client.login] = <<>>
          /\ server.state[client.login] \in {"Established", "Closed"}

OfferedSeat ==
    ~doubled /\ Offered /\ server.state[client.login] = "Established"
      => \A p \in OpenSeats : p.guid = server.oldGuid[client.login]

SessionInv ==
    ClientFits /\ OthersIdle /\ SeatIsMine /\ OfferUnanswered /\ OfferedSeat
CInv == TypeOK /\ Sound(server) /\ OneLogin /\ SessionInv

(***************************************************************************)
(* Queues                                                                  *)
(***************************************************************************)

LEMMA SmallestOfSet ==
    ASSUME NEW I, I \subseteq Nat, I # {}
    PROVE  Min(I) \in I
  <1>1. PICK x \in I : \A y \in I : <<y, x>> \notin OpToRel(<, Nat)
    BY NatLessThanWellFounded, WFMin
  <1>2. \A y \in I : x <= y
    <2> SUFFICES ASSUME NEW y \in I, y < x PROVE FALSE
      OBVIOUS
    <2> DEFINE pair == <<y, x>>
    <2>1. pair \in Nat \X Nat /\ pair[1] = y /\ pair[2] = x
      OBVIOUS
    <2> HIDE DEF pair
    <2>2. pair[1] < pair[2]
      BY <2>1
    <2>3. pair \in OpToRel(<, Nat)
      BY <2>1, <2>2, Zenon DEF OpToRel
    <2> QED BY <1>1, <2>3, Zenon DEF pair
  <1> QED BY <1>2 DEF Min

\* The list of those who come back remains one of logins.
LEMMA NotedAgain ==
    ASSUME NEW S, NEW q \in Seq(S), NEW s \in S
    PROVE  Append(RemoveFirst(q, s), s) \in Seq(S)
  <1>1. RemoveFirst(q, s) \in Seq(S)
    <2>1. CASE \E i \in 1..Len(q) : q[i] = s
      <3> DEFINE I == {i \in 1..Len(q) : q[i] = s}
                 k == SelectInSeq(q, LAMBDA v : v = s)
      <3>1. k \in 1..Len(q)
        <4>1. I # {} /\ I \subseteq Nat
          BY <2>1
        <4>2. k = Min(I)
          BY <4>1 DEF SelectInSeq
        <4> QED BY <4>1, <4>2, SmallestOfSet
      <3>2. SubSeq(q, 1, k - 1) \in Seq(S) /\ SubSeq(q, k + 1, Len(q)) \in Seq(S)
        <4>0. Len(q) \in Nat /\ \A i \in 1..Len(q) : q[i] \in S
          BY LenProperties, ElementOfSeq
        <4> HIDE DEF k
        <4>1. \A i \in 1..(k - 1) : q[i] \in S
          BY <3>1, <4>0
        <4>2. \A i \in (k + 1)..Len(q) : q[i] \in S
          BY <3>1, <4>0
        <4> QED BY <4>0, <4>1, <4>2, <3>1, SubSeqProperties
      <3>3. RemoveFirst(q, s) = SubSeq(q, 1, k - 1) \o SubSeq(q, k + 1, Len(q))
        BY <2>1 DEF RemoveFirst, RemoveAt
      <3> QED BY <3>2, <3>3, ConcatProperties
    <2>2. CASE ~\E i \in 1..Len(q) : q[i] = s
      BY <2>2 DEF RemoveFirst
    <2> QED BY <2>1, <2>2
  <1> QED BY <1>1, AppendProperties

\* What the client hears later comes behind what it has not heard yet.
LEMMA Heard ==
    ASSUME NEW d \in Seq(Answers), NEW m \in Seq(Answers)
    PROVE  /\ d \o m \in Seq(Answers)
           /\ \A S : Has(d \o m, S) <=> Has(d, S) \/ Has(m, S)
           /\ AckFirst(d) /\ (AckFirst(m) \/ Has(d, Acks)) => AckFirst(d \o m)
           /\ OneAck(d) /\ OneAck(m) /\ ~(Has(d, Acks) /\ Has(m, Acks)) => OneAck(d \o m)
  <1> DEFINE e == d \o m
  <1>1. /\ Len(d) \in Nat /\ Len(m) \in Nat /\ e \in Seq(Answers)
        /\ Len(e) = Len(d) + Len(m)
        /\ \A i \in 1..Len(d) : e[i] = d[i]
        /\ \A i \in 1..Len(m) : e[Len(d) + i] = m[i]
    BY ConcatProperties, LenProperties
  <1>2. \A i \in 1..Len(e) : i \in 1..Len(d) \/ \E k \in 1..Len(m) : i = Len(d) + k
    <2> SUFFICES ASSUME NEW i \in 1..Len(e), i \notin 1..Len(d)
                 PROVE  \E k \in 1..Len(m) : i = Len(d) + k
      OBVIOUS
    <2>1. i - Len(d) \in 1..Len(m) /\ i = Len(d) + (i - Len(d))
      BY <1>1
    <2> QED BY <2>1
  <1>3. 1..Len(d) \subseteq 1..Len(e) /\ \A k \in 1..Len(m) : Len(d) + k \in 1..Len(e)
    BY <1>1
  <1> HIDE DEF e
  <1>4. ASSUME NEW S
        PROVE  Has(e, S) <=> Has(d, S) \/ Has(m, S)
    BY <1>1, <1>2, <1>3 DEF Has
  <1>5. ASSUME AckFirst(d), AckFirst(m) \/ Has(d, Acks)
        PROVE  AckFirst(e)
    <2> SUFFICES ASSUME NEW i \in 1..Len(e), e[i] \notin Early
                 PROVE  \E j \in 1..i : e[j] \in Acks
      BY DEF AckFirst
    <2>1. CASE i \in 1..Len(d)
      <3>1. PICK j \in 1..i : d[j] \in Acks
        BY <2>1, <1>1, <1>5 DEF AckFirst
      <3>2. j \in 1..Len(d)
        BY <2>1, <3>1, <1>1
      <3> QED BY <3>1, <3>2, <1>1
    <2>2. ASSUME NEW k \in 1..Len(m), i = Len(d) + k
          PROVE  \E j \in 1..i : e[j] \in Acks
      <3>1. CASE Has(d, Acks)
        <4>1. PICK j \in 1..Len(d) : d[j] \in Acks
          BY <3>1 DEF Has
        <4>2. j \in 1..i /\ e[j] \in Acks
          BY <4>1, <1>1, <2>2
        <4> QED BY <4>2
      <3>2. CASE AckFirst(m)
        <4>1. PICK j \in 1..k : m[j] \in Acks
          BY <3>2, <1>1, <2>2 DEF AckFirst
        <4>2. Len(d) + j \in 1..i /\ e[Len(d) + j] \in Acks
          BY <4>1, <1>1, <2>2
        <4> QED BY <4>2
      <3> QED BY <3>1, <3>2, <1>5
    <2> QED BY <2>1, <2>2, <1>2
  <1>6. ASSUME OneAck(d), OneAck(m), ~(Has(d, Acks) /\ Has(m, Acks))
        PROVE  OneAck(e)
    <2> SUFFICES ASSUME NEW i \in 1..Len(e), NEW j \in 1..Len(e), e[i] \in Acks, e[j] \in Acks
                 PROVE  i = j
      BY DEF OneAck
    <2>1. CASE Has(d, Acks)
      <3>1. i \in 1..Len(d) /\ j \in 1..Len(d)
        BY <1>1, <1>2, <1>6, <2>1 DEF Has
      <3> QED BY <3>1, <1>1, <1>6 DEF OneAck
    <2>2. CASE ~Has(d, Acks)
      <3>1. PICK k \in 1..Len(m) : i = Len(d) + k
        BY <1>1, <1>2, <2>2 DEF Has
      <3>2. PICK l \in 1..Len(m) : j = Len(d) + l
        BY <1>1, <1>2, <2>2 DEF Has
      <3>3. m[k] \in Acks /\ m[l] \in Acks
        BY <3>1, <3>2, <1>1
      <3> QED BY <3>1, <3>2, <3>3, <1>6 DEF OneAck
    <2> QED BY <2>1, <2>2
  <1> QED BY <1>1, <1>4, <1>5, <1>6 DEF e

\* What is left to hear once the first message has been heard.
LEMMA Hearing ==
    ASSUME NEW d \in Seq(Answers), d # <<>>
    PROVE  /\ Tail(d) \in Seq(Answers) /\ Head(d) \in Answers
           /\ \A S : Has(Tail(d), S) => Has(d, S)
           /\ \A S : Head(d) \in S => Has(d, S)
           /\ AckFirst(d) => Head(d) \in Early \cup Acks
           /\ AckFirst(d) /\ Head(d) \notin Acks => AckFirst(Tail(d))
           /\ OneAck(d) => OneAck(Tail(d))
           /\ OneAck(d) /\ Head(d) \in Acks => ~Has(Tail(d), Acks)
           /\ Has(d, Acks) /\ Head(d) \notin Acks => Has(Tail(d), Acks)
  <1> DEFINE e == Tail(d)
  <1>1. /\ Len(d) \in Nat \ {0} /\ e \in Seq(Answers) /\ Head(d) = d[1]
        /\ Head(d) \in Answers /\ Len(e) = Len(d) - 1
        /\ \A i \in 1..Len(e) : e[i] = d[i + 1]
    BY HeadTailProperties, LenProperties, EmptySeq
  <1>2. /\ \A i \in 1..Len(e) : i + 1 \in 1..Len(d)
        /\ 1 \in 1..Len(d)
        /\ \A i \in 1..Len(d) : i = 1 \/ \E k \in 1..Len(e) : i = k + 1
    <2>1. \A i \in 1..Len(d) : i # 1 => i - 1 \in 1..Len(e) /\ i = (i - 1) + 1
      BY <1>1
    <2> QED BY <1>1, <2>1
  <1> HIDE DEF e
  <1>3. ASSUME AckFirst(d)
        PROVE  Head(d) \in Early \cup Acks
    <2> SUFFICES ASSUME d[1] \notin Early PROVE d[1] \in Acks
      BY <1>1
    <2> QED BY <1>2, <1>3 DEF AckFirst
  <1>4. ASSUME AckFirst(d), Head(d) \notin Acks
        PROVE  AckFirst(e)
    <2> SUFFICES ASSUME NEW i \in 1..Len(e), e[i] \notin Early
                 PROVE  \E j \in 1..i : e[j] \in Acks
      BY DEF AckFirst
    <2>1. PICK j \in 1..(i + 1) : d[j] \in Acks
      BY <1>1, <1>2, <1>4 DEF AckFirst
    <2>2. j - 1 \in 1..i /\ e[j - 1] = d[j]
      BY <2>1, <1>1, <1>2, <1>4
    <2> QED BY <2>1, <2>2
  <1>5. ASSUME OneAck(d), NEW i \in 1..Len(e), NEW j \in 1..Len(e),
               e[i] \in Acks, e[j] \in Acks
        PROVE  i = j
    <2>1. i + 1 = j + 1
      BY <1>1, <1>2, <1>5 DEF OneAck
    <2> QED BY <2>1
  <1>6. ASSUME OneAck(d), Head(d) \in Acks, Has(e, Acks)
        PROVE  FALSE
    <2>1. PICK i \in 1..Len(e) : d[i + 1] \in Acks
      BY <1>1, <1>6 DEF Has
    <2>2. i + 1 = 1
      BY <2>1, <1>1, <1>2, <1>6 DEF OneAck
    <2> QED BY <2>2, <1>1
  <1>7. ASSUME Has(d, Acks), Head(d) \notin Acks
        PROVE  Has(e, Acks)
    BY <1>1, <1>2, <1>7 DEF Has
  <1>8. ASSUME NEW S
        PROVE  (Has(e, S) => Has(d, S)) /\ (Head(d) \in S => Has(d, S))
    BY <1>1, <1>2 DEF Has
  <1> QED BY <1>1, <1>3, <1>4, <1>5, <1>6, <1>7, <1>8 DEF e, OneAck


(***************************************************************************)
(* What the server does to its sessions and the seat                       *)
(***************************************************************************)

LEMMA Closes ==
    ASSUME NEW v, Sound(v), NEW s \in Logins
    PROVE  LET w == CloseSession(v, s)
           IN  /\ Sound(w)
               /\ w.state = [v.state EXCEPT ![s] = "Closed"]
               /\ w.unread = [v.unread EXCEPT ![s] = <<>>]
               /\ w.oldGuid = [v.oldGuid EXCEPT ![s] = Nobody]
               /\ w.members = v.members \ {s} /\ w.seats = v.seats
               /\ LoggedIn(w) = LoggedIn(v) \ {s}
  <1> DEFINE w == CloseSession(v, s)
  <1>1. /\ w.state = [v.state EXCEPT ![s] = "Closed"]
        /\ w.unread = [v.unread EXCEPT ![s] = <<>>]
        /\ w.oldGuid = [v.oldGuid EXCEPT ![s] = Nobody]
        /\ w.members = v.members \ {s} /\ w.seats = v.seats
    BY DEF Sound, Servers, CloseSession
  <1>2. w \in Servers
    <2>1. "Closed" \in SessionStates /\ <<>> \in Seq(Requests) /\ Nobody \in 0..MaxLogins
      BY SessionAssumption, EmptySeq DEF SessionStates, Nobody
    <2> QED BY <2>1 DEF Sound, Servers, CloseSession
  <1> HIDE DEF w
  <1>3. MembersPlay(w)
    BY <1>1 DEF Sound, Servers, MembersPlay
  <1>4. UnreadFits(w)
    <2>1. \A t \in Logins : IF t = s THEN w.state[t] = "Closed" /\ w.unread[t] = <<>>
                            ELSE w.state[t] = v.state[t] /\ w.unread[t] = v.unread[t]
      BY <1>1 DEF Sound, Servers
    <2> QED BY <2>1 DEF Sound, UnreadFits
  <1>5. OneSeat(w)
    BY <1>1 DEF Sound, OneSeat
  <1>6. LoggedIn(w) = LoggedIn(v) \ {s}
    BY <1>1 DEF Sound, Servers, LoggedIn
  <1> QED BY <1>1, <1>2, <1>3, <1>4, <1>5, <1>6 DEF Sound, w

LEMMA Kicks ==
    ASSUME NEW v, Sound(v), NEW s \in Logins
    PROVE  LET w == MarkPlayerAsKicked(v, s)
           IN  /\ Sound(w)
               /\ w.state = v.state /\ w.unread = v.unread /\ w.members = v.members
               /\ w.oldGuid = v.oldGuid
               /\ \A p \in w.seats : p.guid # Nobody => p \in v.seats
  <1> DEFINE w == MarkPlayerAsKicked(v, s)
  <1>1. CASE s \notin v.members
    BY <1>1 DEF MarkPlayerAsKicked
  <1>2. CASE s \in v.members
    <2> DEFINE kicked(p) == IF p.id = s THEN [p EXCEPT !.guid = Nobody] ELSE p
    <2>1. /\ w = [v EXCEPT !.seats = {kicked(p) : p \in v.seats}]
          /\ w.seats = {kicked(p) : p \in v.seats}
          /\ w.state = v.state /\ w.unread = v.unread /\ w.members = v.members
          /\ w.oldGuid = v.oldGuid
      BY <1>2 DEF MarkPlayerAsKicked, Sound, Servers
    <2>2. \A p \in Seats : kicked(p) \in Seats /\ (kicked(p).guid # Nobody => kicked(p) = p)
      BY SessionAssumption DEF Seats, Nobody
    <2>3. v.seats \subseteq Seats
      BY DEF Sound, Servers
    <2> HIDE DEF kicked
    <2>4. w \in Servers
      <3> DEFINE seats == {kicked(p) : p \in v.seats}
      <3>1. seats \in SUBSET Seats
        BY <2>2, <2>3
      <3>2. w = [v EXCEPT !.seats = seats]
        BY <2>1
      <3> HIDE DEF w, seats
      <3> QED BY <3>1, <3>2 DEF Sound, Servers
    <2>5. MembersPlay(w) /\ UnreadFits(w) /\ OneSeat(w)
      BY <2>1 DEF Sound, MembersPlay, UnreadFits, OneSeat
    <2>6. \A p \in w.seats : p.guid # Nobody => p \in v.seats
      BY <2>1, <2>2, <2>3
    <2> QED BY <2>1, <2>4, <2>5, <2>6 DEF Sound
  <1> QED BY <1>1, <1>2

LEMMA Moves ==
    ASSUME NEW v, Sound(v), NEW s \in Logins, v.state[s] = "Game"
    PROVE  LET w == MoveSessionToLobby(v, s)
           IN  /\ Sound(w)
               /\ w.state = [v.state EXCEPT ![s] = "Established"]
               /\ w.unread = v.unread /\ w.oldGuid = v.oldGuid
               /\ w.members = v.members \ {s} /\ w.seats = v.seats
  <1> DEFINE w == MoveSessionToLobby(v, s)
  <1>1. /\ w.state = [v.state EXCEPT ![s] = "Established"]
        /\ w.unread = v.unread /\ w.oldGuid = v.oldGuid
        /\ w.members = v.members \ {s} /\ w.seats = v.seats
    BY DEF Sound, Servers, MoveSessionToLobby
  <1>2. w \in Servers
    BY DEF Sound, Servers, MoveSessionToLobby, SessionStates
  <1> HIDE DEF w
  <1>3. MembersPlay(w) /\ OneSeat(w)
    BY <1>1 DEF Sound, Servers, MembersPlay, OneSeat
  <1>4. UnreadFits(w)
    BY <1>1 DEF Sound, Servers, UnreadFits
  <1> QED BY <1>1, <1>2, <1>3, <1>4 DEF Sound, w

\* A server that has read its oldest message from session s.
Read(s) == [server EXCEPT !.unread[s] = Tail(@)]

LEMMA Reads ==
    ASSUME Sound(server), NEW s \in Live(server), server.unread[s] # <<>>
    PROVE  /\ Sound(Read(s)) /\ s \in Logins
           /\ Read(s).state = server.state /\ Read(s).oldGuid = server.oldGuid
           /\ Read(s).members = server.members /\ Read(s).seats = server.seats
           /\ Read(s).phase = server.phase /\ Read(s).rejoining = server.rejoining
           /\ \A t \in Logins : server.unread[t] = <<>> => Read(s).unread[t] = <<>>
           /\ \/ /\ server.state[s] = "Init" /\ Read(s).unread[s] = <<>>
                 /\ \E g \in 0..MaxLogins : Head(server.unread[s]) = <<"Init", g>>
              \/ /\ server.state[s] \in {"Established", "Game"}
                 /\ Head(server.unread[s]) \in {<<"Join">>, <<"Leave">>}
  <1> DEFINE q == server.unread[s]
             v == Read(s)
  <1>1. /\ s \in Logins /\ q \in Seq(Requests) /\ Len(q) \in Nat \ {0}
        /\ Head(q) = q[1] /\ Tail(q) \in Seq(Requests) /\ Len(Tail(q)) = Len(q) - 1
        /\ \A i \in 1..Len(Tail(q)) : Tail(q)[i] = q[i + 1]
    BY HeadTailProperties, EmptySeq DEF Sound, Servers, Live
  <1>2. /\ v.state = server.state /\ v.oldGuid = server.oldGuid
        /\ v.members = server.members /\ v.seats = server.seats
        /\ v.phase = server.phase /\ v.rejoining = server.rejoining
        /\ v.unread = [server.unread EXCEPT ![s] = Tail(q)]
    BY <1>1 DEF Read, Sound, Servers
  <1>3. v \in Servers
    BY <1>1 DEF Read, Sound, Servers
  <1> HIDE DEF v, q
  <1>4. \/ /\ server.state[s] = "Init" /\ v.unread[s] = <<>>
           /\ \E g \in 0..MaxLogins : Head(q) = <<"Init", g>>
        \/ /\ server.state[s] \in {"Established", "Game"}
           /\ Head(q) \in {<<"Join">>, <<"Leave">>}
           /\ \A i \in 1..Len(Tail(q)) : Tail(q)[i] \in {<<"Join">>, <<"Leave">>}
    <2>1. server.state[s] \in {"Init", "Established", "Game"}
      BY <1>1 DEF q, Sound, UnreadFits, Servers, SessionStates, Live
    <2>2. CASE server.state[s] = "Init"
      <3>1. PICK g \in 0..MaxLogins : q = <<<<"Init", g>>>>
        BY <1>1, <2>2 DEF q, Sound, UnreadFits
      <3>2. Head(q) = <<"Init", g>> /\ Tail(q) = <<>>
        BY <3>1
      <3> QED BY <2>2, <3>2, <1>1, <1>2 DEF Sound, Servers
    <2>3. CASE server.state[s] \in {"Established", "Game"}
      <3>1. \A i \in 1..Len(q) : q[i] \in {<<"Join">>, <<"Leave">>}
        BY <1>1, <2>3 DEF q, Sound, UnreadFits
      <3> QED BY <3>1, <1>1, <2>3
    <2> QED BY <2>1, <2>2, <2>3
  <1>5. MembersPlay(v) /\ OneSeat(v)
    BY <1>2 DEF Sound, MembersPlay, OneSeat
  <1>6. UnreadFits(v)
    <2> SUFFICES ASSUME NEW t \in Logins
                 PROVE  /\ v.state[t] \in {"none", "Login", "Closed"} => v.unread[t] = <<>>
                        /\ v.state[t] \in {"Connecting", "Init"} =>
                              \/ v.unread[t] = <<>>
                              \/ \E g \in 0..MaxLogins : v.unread[t] = <<<<"Init", g>>>>
                        /\ v.state[t] \in {"Established", "Game"} =>
                              \A i \in 1..Len(v.unread[t]) :
                                 v.unread[t][i] \in {<<"Join">>, <<"Leave">>}
      BY DEF UnreadFits
    <2>1. CASE t = s
      BY <2>1, <1>1, <1>2, <1>4 DEF Sound, Servers
    <2>2. CASE t # s
      <3>1. v.unread[t] = server.unread[t] /\ v.state[t] = server.state[t]
        BY <2>2, <1>2 DEF Sound, Servers
      <3> QED BY <3>1 DEF Sound, UnreadFits
    <2> QED BY <2>1, <2>2
  <1>7. \A t \in Logins : server.unread[t] = <<>> => v.unread[t] = <<>>
    BY <1>1, <1>2 DEF Sound, Servers, q
  <1> QED BY <1>1, <1>2, <1>3, <1>4, <1>5, <1>6, <1>7 DEF Sound, q, v

LEMMA LastComesBack ==
    ASSUME NEW v, Sound(v)
    PROVE  /\ LastBack(v) \subseteq v.members /\ Back(v) \subseteq v.members
           /\ \A s, t \in LastBack(v) : s = t
  <1> DEFINE back == {i \in 1..Len(v.rejoining) : v.rejoining[i] \in v.members}
  <1>1. Len(v.rejoining) \in Nat
    BY LenProperties DEF Sound, Servers
  <1>2. ASSUME NEW s \in LastBack(v)
        PROVE  \E k \in back : s = v.rejoining[k] /\ \A j \in back : j <= k
    BY <1>2 DEF LastBack
  <1>3. ASSUME NEW s \in LastBack(v), NEW t \in LastBack(v)
        PROVE  s = t
    <2>1. PICK k \in back : s = v.rejoining[k] /\ \A j \in back : j <= k
      BY <1>2
    <2>2. PICK l \in back : t = v.rejoining[l] /\ \A j \in back : j <= l
      BY <1>2
    <2>3. k = l
      BY <2>1, <2>2, <1>1
    <2> QED BY <2>1, <2>2, <2>3
  <1>4. LastBack(v) \subseteq v.members
    BY <1>2
  <1>5. Back(v) \subseteq v.members
    BY DEF Back
  <1> QED BY <1>3, <1>4, <1>5

\* A deal leaves the seat as it was or gives it to a member.
LEMMA Deals ==
    ASSUME NEW v, Sound(v), NEW broke \in BOOLEAN
    PROVE  LET w == Dealt(v, broke)
           IN  /\ Sound(w)
               /\ w.state = v.state /\ w.unread = v.unread /\ w.members = v.members
               /\ w.oldGuid = v.oldGuid
               /\ Back(v) # {} => \A p \in w.seats : p.guid \in v.members
               /\ Back(v) = {} => \A p \in w.seats : \E q \in v.seats : p.guid = q.guid
  <1> DEFINE w == Dealt(v, broke)
             played(p) == [p EXCEPT !.solvent = @ /\ ~broke
                                      /\ (p.guid # Nobody \/ p.id \in v.members)]
             reseated(p) == IF Back(v) = {} THEN {p}
                            ELSE {[p EXCEPT !.id = s, !.guid = s] : s \in LastBack(v)}
             seats == UNION {reseated(played(p)) : p \in v.seats}
  <1>1. /\ v.seats \subseteq Seats /\ v.members \subseteq Logins
        /\ \A p, q \in v.seats : p = q
    BY DEF Sound, Servers, OneSeat
  <1>2. w = [v EXCEPT !.seats = seats, !.rejoining = <<>>]
    BY DEF Dealt
  <1>3. ASSUME NEW p \in Seats
        PROVE  played(p) \in Seats /\ played(p).guid = p.guid
    BY DEF Seats
  <1> HIDE DEF w, played
  <1>4. ASSUME NEW p \in Seats
        PROVE  /\ reseated(p) \subseteq Seats
               /\ \A q, r \in reseated(p) : q = r
               /\ Back(v) = {} => \A q \in reseated(p) : q.guid = p.guid
               /\ Back(v) # {} => \A q \in reseated(p) : q.guid \in v.members
    <2>1. CASE Back(v) = {}
      BY <2>1
    <2>2. CASE Back(v) # {}
      <3>1. \A s \in LastBack(v) : s \in v.members /\ s \in Logins /\ s \in 0..MaxLogins
        BY <1>1, LastComesBack, SessionAssumption DEF Logins
      <3> DEFINE given(s) == [p EXCEPT !.id = s, !.guid = s]
      <3>2. \A s \in LastBack(v) : given(s) \in Seats /\ given(s).guid = s
        BY <3>1 DEF Seats
      <3>3. \A q \in reseated(p) : \E s \in LastBack(v) : q = given(s)
        BY <2>2
      <3> HIDE DEF reseated, given
      <3>4. \A q, r \in reseated(p) : q = r
        BY <3>3, LastComesBack
      <3>5. \A q \in reseated(p) : q \in Seats /\ q.guid \in v.members
        BY <3>1, <3>2, <3>3
      <3> QED BY <2>2, <3>4, <3>5
    <2> QED BY <2>1, <2>2
  <1> HIDE DEF reseated
  <1>5. \A q \in seats : \E p \in v.seats : q \in reseated(played(p))
    OBVIOUS
  <1>6. seats \subseteq Seats
    BY <1>1, <1>3, <1>4, <1>5
  <1>7. \A q, r \in seats : q = r
    <2> SUFFICES ASSUME NEW q \in seats, NEW r \in seats PROVE q = r
      OBVIOUS
    <2>1. PICK p \in v.seats : q \in reseated(played(p))
      BY <1>5
    <2>2. r \in reseated(played(p))
      BY <1>5, <1>1
    <2> QED BY <2>1, <2>2, <1>1, <1>3, <1>4
  <1>8. /\ Back(v) # {} => \A q \in seats : q.guid \in v.members
        /\ Back(v) = {} => \A q \in seats : \E p \in v.seats : q.guid = p.guid
    <2> SUFFICES ASSUME NEW q \in seats
                 PROVE  /\ Back(v) # {} => q.guid \in v.members
                        /\ Back(v) = {} => \E p \in v.seats : q.guid = p.guid
      OBVIOUS
    <2>1. PICK p \in v.seats : q \in reseated(played(p))
      BY <1>5
    <2>2. p \in Seats /\ played(p) \in Seats /\ played(p).guid = p.guid
      BY <1>1, <1>3
    <2> QED BY <2>1, <2>2, <1>4
  <1> HIDE DEF seats
  <1>9. /\ w.seats = seats /\ w.state = v.state /\ w.unread = v.unread
        /\ w.members = v.members /\ w.oldGuid = v.oldGuid
        /\ w \in Servers
    <2>1. <<>> \in Seq(Logins) /\ seats \in SUBSET Seats
      BY <1>6, EmptySeq
    <2> QED BY <1>2, <2>1 DEF Sound, Servers
  <1>10. MembersPlay(w) /\ UnreadFits(w) /\ OneSeat(w)
    BY <1>7, <1>9 DEF Sound, MembersPlay, UnreadFits, OneSeat
  <1> QED BY <1>8, <1>9, <1>10 DEF Sound, w

(***************************************************************************)
(* Steps that take no login and that the client only hears of              *)
(***************************************************************************)

\* How a session goes on, except that its login is taken.
Onward(a, b) ==
    \/ a = b
    \/ a # "none" /\ b = "Closed"
    \/ a = "Connecting" /\ b = "Init"
    \/ a = "Init" /\ b = "Login"
    \/ a = "Established" /\ b = "Game"
    \/ a = "Game" /\ b = "Established"

\* No session gets requests, only who asked for it joins, and the seat is left
\* alone or given to a member.  The logins of sessions T may be taken.
QuietExcept(T) ==
    /\ \A s \in Logins :
          /\ \/ Onward(server.state[s], server'.state[s])
             \/ s \in T /\ server.state[s] = "Login" /\ server'.state[s] = "Established"
          /\ server.unread[s] = <<>> => server'.unread[s] = <<>>
          /\ server.state[s] = "Init" /\ server.unread[s] = <<>> => server'.state[s] # "Login"
          /\ s \in server'.members => s \in server.members \/ server.unread[s] # <<>>
          /\ server.state[s] = "Established" /\ server'.state[s] = "Established"
                => server'.oldGuid[s] = server.oldGuid[s]
    /\ \A p \in OpenSeats' : \/ \E q \in OpenSeats : p.guid = q.guid
                             \/ p.guid \in server.members

QuietServer == QuietExcept({})

\* The client hears messages m or nothing; they are no answer to a login.
QuietNews(m) ==
    /\ m \in Seq(Answers) /\ ~Has(m, Acks)
    /\ \/ down' = down
       \/ /\ down' = down \o m /\ client.login \in Logins \ ended
          /\ AckFirst(m) \/ client.login \in LoggedIn(server)
          /\ Has(m, Starts) => /\ client.login \in server.members
                               /\ \A p \in OpenSeats' : p.guid \in server.members
          /\ Has(m, {"JoinAck"}) => server.unread[client.login] # <<>>

Quiet(T, m) ==
    /\ UNCHANGED <<client, disk>>
    /\ doubled' \in BOOLEAN /\ (doubled => doubled')
    /\ T \subseteq Logins \ {client.login}
    /\ ended \subseteq ended' /\ ended' \subseteq Logins
    /\ QuietExcept(T) /\ QuietNews(m)

\* Who is logged in after such a step, and who plays.
LEMMA StayLoggedIn ==
    ASSUME Sound(server), Sound(server)', NEW T, NEW m, Quiet(T, m)
    PROVE  /\ LoggedIn(server)' \subseteq LoggedIn(server) \cup T
           /\ \A s \in Logins : s \in LoggedIn(server)' =>
                 s \in LoggedIn(server) \/ server.unread[s] = <<>>
           /\ \A s \in Logins : s \in server'.members => s \in LoggedIn(server)
  <1>1. \A s \in Logins :
           \/ Onward(server.state[s], server'.state[s])
           \/ s \in T /\ server.state[s] = "Login" /\ server'.state[s] = "Established"
    BY DEF Quiet, QuietExcept
  <1>2. \A s \in Logins : s \in LoggedIn(server)' =>
           s \in LoggedIn(server) \/ (s \in T /\ server.state[s] = "Login")
    BY <1>1 DEF LoggedIn, Onward
  <1>3. \A s \in Logins : server.state[s] = "Login" => server.unread[s] = <<>>
    BY DEF Sound, UnreadFits
  <1>4. \A s \in Logins : s \in server'.members =>
           s \in server.members \/ server'.state[s] = "Game"
    BY DEF Sound, MembersPlay
  <1>5. \A s \in Logins : s \in server'.members => s \in LoggedIn(server)
    BY <1>1, <1>4 DEF LoggedIn, Sound, MembersPlay, Onward
  <1>6. LoggedIn(server)' \subseteq Logins
    BY DEF LoggedIn
  <1> QED BY <1>2, <1>3, <1>5, <1>6

LEMMA QuietNewsHeard ==
    ASSUME CInv, NEW T, NEW m, Quiet(T, m)
    PROVE  /\ down' \in Seq(Answers)
           /\ \A S : Has(down, S) => Has(down, S)'
           /\ \A S : Has(down, S)' => Has(down, S) \/ Has(m, S)
           /\ Has(down, Acks)' <=> Has(down, Acks)
           /\ OneAck(down)'
           /\ client.state \in LoggingIn => AckFirst(down)'
  <1>1. /\ down \in Seq(Answers) /\ m \in Seq(Answers) /\ ~Has(m, Acks)
        /\ OneAck(down)
        /\ client.state \in LoggingIn => AckFirst(down)
    BY DEF CInv, TypeOK, SessionInv, ClientFits, Quiet, QuietNews
  <1>2. CASE down' = down
    <2>1. \A S : Has(down, S)' <=> Has(down, S)
      BY <1>2 DEF Has
    <2>2. OneAck(down)' /\ (AckFirst(down) => AckFirst(down)')
      BY <1>1, <1>2 DEF OneAck, AckFirst
    <2> QED BY <1>1, <1>2, <2>1, <2>2
  <1>3. CASE /\ down' = down \o m /\ client.login \notin ended
             /\ AckFirst(m) \/ client.login \in LoggedIn(server)
    <2>1. OneAck(m)
      BY <1>1 DEF Has, OneAck
    <2>2. client.state \in LoggingIn => AckFirst(m) \/ Has(down, Acks)
      BY <1>3 DEF CInv, SessionInv, ClientFits, LoggedIn
    <2>3. ASSUME NEW S
          PROVE  Has(down, S)' <=> Has(down, S) \/ Has(m, S)
      <3>1. Has(down \o m, S) <=> Has(down, S) \/ Has(m, S)
        BY <1>1, Heard
      <3>2. Has(down, S)' <=> Has(down \o m, S)
        BY <1>3 DEF Has
      <3> QED BY <3>1, <3>2
    <2>4. down' \in Seq(Answers) /\ OneAck(down)'
      BY <1>1, <1>3, <2>1, Heard DEF OneAck
    <2>5. client.state \in LoggingIn => AckFirst(down \o m)
      BY <1>1, <2>2, Heard
    <2> QED BY <1>1, <1>3, <2>3, <2>4, <2>5 DEF AckFirst
  <1> QED BY <1>2, <1>3 DEF Quiet, QuietNews

LEMMA QuietStep ==
    ASSUME CInv, NEW T, NEW m, Quiet(T, m), Sound(server)', OneLogin'
    PROVE  CInv'
  <1> DEFINE L == client.login
  <1>1. /\ UNCHANGED <<client, disk>> /\ (doubled => doubled') /\ L \in 0..MaxLogins
        /\ client \in [state: ClientStates, login: 0..MaxLogins,
                       guid: 0..MaxLogins, offered: BOOLEAN]
    BY DEF CInv, TypeOK, Quiet
  <1>2. TypeOK'
    BY QuietNewsHeard DEF CInv, TypeOK, Quiet, Sound
  <1>3. L \notin T
    BY DEF Quiet
  <1>4. ASSUME L \in Logins
        PROVE  /\ Onward(server.state[L], server'.state[L])
               /\ server.unread[L] = <<>> => server'.unread[L] = <<>>
               /\ server.state[L] = "Init" /\ server.unread[L] = <<>>
                     => server'.state[L] # "Login"
    BY <1>3, <1>4 DEF Quiet, QuietExcept
  <1>5. client.state \in Connected <=> L \in Logins
    BY DEF CInv, SessionInv, ClientFits
  <1>6. ClientFits'
    <2>1. L \in Logins => server'.state[L] # "none"
      BY <1>4 DEF CInv, SessionInv, ClientFits, Onward
    <2>2. client.state \notin Connected => down' = <<>>
      <3>1. client.state \notin Connected => down = <<>> /\ L \notin Logins
        BY DEF CInv, SessionInv, ClientFits
      <3> QED BY <3>1 DEF Quiet, QuietNews
    <2>3. client.state \in {"StartSession", "EnterLogin"} =>
             /\ server'.state[L] \in {"Connecting", "Init", "Closed"}
             /\ server'.unread[L] = <<>>
      BY <1>4, <1>5 DEF CInv, SessionInv, ClientFits, Onward, Connected
    <2>4. client.state \in LoggingIn =>
             \/ Has(down, Acks)' \/ L \in ended'
             \/ server'.state[L] \in {"Connecting", "Init", "Login", "Closed"}
      BY <1>4, <1>5, QuietNewsHeard
         DEF CInv, SessionInv, ClientFits, Onward, Connected, Quiet, LoggingIn
    <2>5. Has(down, Acks)' =>
             /\ client.state = "WaitSession"
             /\ server'.state[L] \in {"Established", "Game", "Closed"}
      BY <1>4, <1>5, QuietNewsHeard
         DEF CInv, SessionInv, ClientFits, Onward, Connected, Quiet
    <2>6. client.state \in InSession =>
             /\ server'.state[L] \in {"Established", "Game", "Closed"}
             /\ client.guid = L
      BY <1>4, <1>5 DEF CInv, SessionInv, ClientFits, Onward, Connected, InSession
    <2> QED BY <1>1, <1>5, <2>1, <2>2, <2>3, <2>4, <2>5, <2>6, QuietNewsHeard
            DEF CInv, SessionInv, ClientFits
  <1>7. Taken' => Taken
    BY <1>1, <1>3, QuietNewsHeard, StayLoggedIn DEF Taken, CInv
  <1>8. ~doubled /\ Taken => \A s \in Logins \ {L} : s \notin server.members
    BY DEF CInv, SessionInv, OthersIdle
  <1>9. OthersIdle'
    <2> SUFFICES ASSUME ~doubled, Taken, NEW s \in Logins \ {L}
                 PROVE  /\ s \notin server'.members
                        /\ s \in LoggedIn(server)' => server'.unread[s] = <<>>
      BY <1>1, <1>7 DEF OthersIdle
    <2>1. s \notin server.members /\ (s \in LoggedIn(server) => server.unread[s] = <<>>)
      BY DEF CInv, SessionInv, OthersIdle
    <2>2. /\ server.unread[s] = <<>> => server'.unread[s] = <<>>
          /\ s \in server'.members => s \in server.members \/ server.unread[s] # <<>>
      BY DEF Quiet, QuietExcept
    <2> QED BY <2>1, <2>2, StayLoggedIn DEF CInv
  <1>10. Offered' <=> Offered
    <2>1. Has(m, {"InitAckRejoin"}) => Has(m, Acks)
      BY DEF Has, Acks
    <2>2. Has(down, {"InitAckRejoin"})' <=> Has(down, {"InitAckRejoin"})
      BY <2>1, QuietNewsHeard DEF Quiet, QuietNews
    <2> QED BY <1>1, <2>2 DEF Offered
  <1>11. ASSUME Offered
         PROVE  Taken /\ L \in Logins
    <2>1. Has(down, {"InitAckRejoin"}) => Has(down, Acks)
      BY DEF Has, Acks
    <2>2. client.state = "WaitJoin" \/ client.state = "WaitSession"
      BY <1>11, <2>1 DEF Offered, CInv, SessionInv, ClientFits, OfferUnanswered
    <2>3. L \in Logins
      BY <1>5, <2>2 DEF Connected
    <2> QED BY <1>11, <2>1, <2>3 DEF Taken, Offered, CInv, SessionInv, OfferUnanswered, InSession
  <1>12. SeatIsMine'
    <2> SUFFICES ASSUME ~doubled, client.state = "Playing" \/ Has(down, Starts)',
                        NEW p \in OpenSeats'
                 PROVE  p.guid = L
      BY <1>1 DEF SeatIsMine
    <2>1. QuietExcept(T) /\ QuietNews(m)
      BY DEF Quiet
    <2>2. CASE client.state = "Playing" \/ Has(down, Starts)
      <3>1. \A q \in OpenSeats : q.guid = L
        BY <2>2 DEF CInv, SessionInv, SeatIsMine
      <3>2. Taken
        <4>1. client.state \in Connected
          BY <2>2, EmptySeq DEF CInv, SessionInv, ClientFits, Connected, Has
        <4>2. CASE client.state \in LoggingIn
          <5>1. PICK i \in 1..Len(down) : down[i] \in Starts
            BY <2>2, <4>2 DEF Has, LoggingIn
          <5>2. Len(down) \in Nat
            BY LenProperties DEF CInv, TypeOK
          <5>3. \E j \in 1..i : down[j] \in Acks
            BY <4>2, <5>1 DEF CInv, SessionInv, ClientFits, AckFirst, Early, Starts
          <5>4. Has(down, Acks)
            BY <5>1, <5>2, <5>3 DEF Has
          <5> QED BY <1>5, <4>1, <5>4 DEF Taken
        <4>3. CASE client.state \in InSession
          BY <1>5, <4>1, <4>3 DEF Taken
        <4> QED BY <4>1, <4>2, <4>3 DEF Connected, LoggingIn, InSession
      <3>3. p.guid \in server.members => p.guid = L
        BY <1>8, <3>2 DEF CInv, Sound, Servers
      <3> QED BY <2>1, <3>1, <3>3 DEF QuietExcept
    <2>3. CASE Has(m, Starts) /\ down' # down
      <3>1. L \in server.members /\ p.guid \in server.members
        BY <2>1, <2>3 DEF QuietNews
      <3>2. Taken
        BY <3>1 DEF Taken, LoggedIn, CInv, Sound, MembersPlay
      <3> QED BY <1>8, <3>1, <3>2 DEF CInv, Sound, Servers
    <2> QED BY <2>2, <2>3, QuietNewsHeard
  <1>13. OfferUnanswered'
    <2>1. ASSUME Offered
          PROVE  /\ ~Has(down, {"JoinAck"})'
                 /\ server'.unread[L] = <<>>
                 /\ server'.state[L] \in {"Established", "Closed"}
      <3>1. /\ ~Has(down, {"JoinAck"}) /\ server.unread[L] = <<>>
            /\ server.state[L] \in {"Established", "Closed"}
        BY <2>1 DEF CInv, SessionInv, OfferUnanswered
      <3>2. ~Has(down, {"JoinAck"})'
        BY <3>1, QuietNewsHeard DEF Quiet, QuietNews
      <3>3. L \notin server.members /\ L \notin server'.members
        BY <1>11, <2>1, <3>1 DEF CInv, Sound, MembersPlay, Quiet, QuietExcept
      <3>4. server'.state[L] # "Game"
        BY <1>11, <2>1, <3>3 DEF Sound, MembersPlay
      <3> QED BY <1>4, <1>11, <2>1, <3>1, <3>2, <3>4 DEF Onward
    <2> QED BY <1>1, <1>10, <2>1 DEF OfferUnanswered, CInv, SessionInv
  <1>14. OfferedSeat'
    <2> SUFFICES ASSUME ~doubled, Offered, server'.state[L] = "Established",
                        NEW p \in OpenSeats'
                 PROVE  p.guid = server'.oldGuid[L]
      BY <1>1, <1>10 DEF OfferedSeat
    <2>1. server.state[L] = "Established"
      BY <1>4, <1>11 DEF Onward, CInv, SessionInv, OfferUnanswered
    <2>2. server.members = {}
      BY <1>8, <1>11, <2>1 DEF CInv, Sound, Servers, MembersPlay
    <2>3. /\ server'.oldGuid[L] = server.oldGuid[L]
          /\ \E q \in OpenSeats : p.guid = q.guid
      BY <1>11, <2>1, <2>2 DEF Quiet, QuietExcept
    <2> QED BY <2>1, <2>3 DEF CInv, SessionInv, OfferedSeat
  <1> QED BY <1>2, <1>3, <1>6, <1>9, <1>12, <1>13, <1>14 DEF CInv, SessionInv

LEMMA Messages ==
    ASSUME NEW a \in Answers, NEW b \in Answers
    PROVE  /\ <<a>> \in Seq(Answers) /\ <<a, b>> \in Seq(Answers)
           /\ \A S : Has(<<a>>, S) <=> a \in S
           /\ \A S : Has(<<a, b>>, S) <=> a \in S \/ b \in S
           /\ a \in Early => AckFirst(<<a>>)
  <1>1. /\ <<a>> \in Seq(Answers) /\ Len(<<a>>) = 1 /\ <<a>>[1] = a
        /\ <<a, b>> \in Seq(Answers) /\ Len(<<a, b>>) = 2
        /\ <<a, b>>[1] = a /\ <<a, b>>[2] = b
    OBVIOUS
  <1>2. /\ \A i \in 1..1 : i = 1
        /\ \A i \in 1..2 : i = 1 \/ i = 2
        /\ 1 \in 1..1 /\ 1 \in 1..2 /\ 2 \in 1..2
    OBVIOUS
  <1>3. ASSUME NEW S
        PROVE  /\ Has(<<a>>, S) <=> a \in S
               /\ Has(<<a, b>>, S) <=> a \in S \/ b \in S
    BY <1>1, <1>2 DEF Has
  <1>4. a \in Early => AckFirst(<<a>>)
    BY <1>1, <1>2 DEF AckFirst
  <1> QED BY <1>1, <1>3, <1>4

LEMMA Told ==
    ASSUME CInv, NEW S, S \subseteq Logins, NEW m \in Seq(Answers), Tell(S, m),
           ~Has(m, Acks), AckFirst(m) \/ S \subseteq LoggedIn(server),
           Has(m, Starts) => /\ S \subseteq server.members
                             /\ \A p \in OpenSeats' : p.guid \in server.members,
           Has(m, {"JoinAck"}) => \A s \in S : server.unread[s] # <<>>
    PROVE  QuietNews(m)
  BY DEF Tell, QuietNews

\* An early message to anybody, and a message to sessions that are logged in.
LEMMA ToldEarly ==
    ASSUME CInv, NEW s \in Logins, NEW a \in Early, Tell({s}, <<a>>)
    PROVE  QuietNews(<<a>>)
  <1>1. a \in Answers /\ a \notin Acks /\ a \notin Starts /\ a # "JoinAck"
    BY DEF Early, Answers, Acks, Starts
  <1> QED BY <1>1, Messages, Told

LEMMA ToldLater ==
    ASSUME CInv, NEW S, S \subseteq LoggedIn(server), NEW a \in Answers \ Acks,
           a \notin Starts, a # "JoinAck", Tell(S, <<a>>)
    PROVE  QuietNews(<<a>>)
  <1>1. S \subseteq Logins
    BY DEF LoggedIn
  <1> QED BY <1>1, Messages, Told

LEMMA NothingTold ==
    ASSUME CInv, UNCHANGED down
    PROVE  QuietNews(<<>>)
  BY EmptySeq DEF QuietNews, Has

(***************************************************************************)
(* The server's steps                                                      *)
(***************************************************************************)

\* A server that differs only in what has been read and in a seat that is lost.
Like(v) ==
    /\ Sound(v)
    /\ v.state = server.state /\ v.members = server.members
    /\ v.oldGuid = server.oldGuid
    /\ \A t \in Logins : server.unread[t] = <<>> => v.unread[t] = <<>>
    /\ \A p \in v.seats : p.guid # Nobody => p \in server.seats

LEMMA LikeItself == Sound(server) => Like(server)
  BY DEF Like

LEMMA LikeRead ==
    ASSUME Sound(server), NEW s \in Live(server), server.unread[s] # <<>>
    PROVE  Like(Read(s))
  BY Reads DEF Like

LEMMA LikeKicked ==
    ASSUME Sound(server), NEW s \in Logins
    PROVE  Like(MarkPlayerAsKicked(server, s))
  BY Kicks DEF Like

LEMMA LikeStays ==
    ASSUME NEW v, Like(v), server' = v
    PROVE  Sound(server)' /\ QuietServer
  <1>1. Sound(server)'
    BY DEF Like, Sound, MembersPlay, UnreadFits, OneSeat
  <1>2. \A p \in OpenSeats' : p \in OpenSeats
    BY DEF Like, OpenSeats
  <1> QED BY <1>1, <1>2 DEF Like, QuietServer, QuietExcept, Onward

LEMMA LikeCloses ==
    ASSUME NEW v, Like(v), NEW s \in Logins, server.state[s] # "none",
           server' = CloseSession(v, s)
    PROVE  Sound(server)' /\ QuietServer
  <1>1. /\ Sound(server') /\ server'.state = [v.state EXCEPT ![s] = "Closed"]
        /\ server'.unread = [v.unread EXCEPT ![s] = <<>>]
        /\ server'.oldGuid = [v.oldGuid EXCEPT ![s] = Nobody]
        /\ server'.members = v.members \ {s} /\ server'.seats = v.seats
    BY Closes DEF Like
  <1>2. Sound(server)'
    BY <1>1 DEF Sound, MembersPlay, UnreadFits, OneSeat
  <1>3. \A p \in OpenSeats' : p \in OpenSeats
    BY <1>1 DEF Like, OpenSeats
  <1> QED BY <1>1, <1>2, <1>3 DEF Like, QuietServer, QuietExcept, Onward, Sound, Servers

LEMMA LikeMoves ==
    ASSUME NEW v, Like(v), NEW s \in server.members,
           server' = MoveSessionToLobby(v, s)
    PROVE  Sound(server)' /\ QuietServer
  <1>0. s \in Logins /\ v.state[s] = "Game"
    BY DEF Like, Sound, MembersPlay
  <1>1. /\ Sound(server') /\ server'.state = [v.state EXCEPT ![s] = "Established"]
        /\ server'.unread = v.unread /\ server'.oldGuid = v.oldGuid
        /\ server'.members = v.members \ {s} /\ server'.seats = v.seats
    BY <1>0, Moves DEF Like
  <1>2. Sound(server)'
    BY <1>1 DEF Sound, MembersPlay, UnreadFits, OneSeat
  <1>3. \A p \in OpenSeats' : p \in OpenSeats
    BY <1>1 DEF Like, OpenSeats
  <1> QED BY <1>0, <1>1, <1>2, <1>3 DEF Like, QuietServer, QuietExcept, Onward, Sound, Servers

LEMMA ServerStepQuiet ==
    ASSUME CInv, ServerStep, UNCHANGED doubled, NEW m, QuietServer, QuietNews(m),
           Sound(server)'
    PROVE  CInv'
  <1>1. Quiet({}, m)
    BY DEF Quiet, QuietServer, ServerStep, CInv, TypeOK
  <1>2. LoggedIn(server)' \subseteq LoggedIn(server)
    BY <1>1, StayLoggedIn DEF CInv
  <1>3. OneLogin'
    BY <1>2 DEF CInv, OneLogin
  <1> QED BY <1>1, <1>3, QuietStep

LEMMA AddConnectionKeeps ==
    ASSUME CInv, NEW s \in Logins, AddConnection(s)
    PROVE  CInv'
  <1>1. Sound(server)
    BY DEF CInv
  <1>2. CASE server' = [server EXCEPT !.state[s] = "Init"] /\ Tell({s}, <<"Announce">>)
    <2>1. /\ server'.state = [server.state EXCEPT ![s] = "Init"]
          /\ server'.unread = server.unread /\ server'.oldGuid = server.oldGuid
          /\ server'.members = server.members /\ server'.seats = server.seats
          /\ server.state[s] = "Connecting"
      BY <1>1, <1>2 DEF Sound, Servers, AddConnection
    <2>2. server' \in Servers
      BY <1>1, <1>2 DEF Sound, Servers, SessionStates
    <2>3. MembersPlay(server)' /\ UnreadFits(server)' /\ OneSeat(server)'
      BY <1>1, <2>1 DEF Sound, Servers, MembersPlay, UnreadFits, OneSeat
    <2>4. Sound(server)'
      BY <2>2, <2>3 DEF Sound
    <2>5. QuietServer
      BY <1>1, <2>1 DEF Sound, Servers, QuietServer, QuietExcept, Onward, OpenSeats
    <2> QED BY <1>2, <2>4, <2>5, ToldEarly, ServerStepQuiet DEF Early, AddConnection
  <1>3. CASE server' = CloseSession(server, s) /\ Tell({s}, <<"Error">>)
    BY <1>1, <1>3, LikeItself, LikeCloses, ToldEarly, ServerStepQuiet
       DEF Early, AddConnection
  <1> QED BY <1>2, <1>3 DEF AddConnection

LEMMA ClosingKeeps ==
    ASSUME CInv, NEW s \in Logins,
           LoginRefused(s) \/ TimerInitTimeout(s) \/ TimerSessionTimeout(s) \/ ReadEnds(s)
    PROVE  CInv'
  <1>1. Sound(server)
    BY DEF CInv
  <1>2. CASE LoginRefused(s) \/ TimerInitTimeout(s)
    BY <1>1, <1>2, LikeItself, LikeCloses, ToldEarly, ServerStepQuiet
       DEF Early, LoginRefused, TimerInitTimeout
  <1>3. CASE TimerSessionTimeout(s)
    <2>1. server.state[s] # "none"
      BY <1>3 DEF TimerSessionTimeout, LoggedIn
    <2> QED BY <1>1, <1>3, <2>1, LikeKicked, LikeCloses, ToldEarly, ServerStepQuiet
            DEF Early, TimerSessionTimeout
  <1>4. CASE ReadEnds(s)
    <2>1. server.state[s] # "none"
      BY <1>4 DEF ReadEnds, Live
    <2> QED BY <1>1, <1>4, <2>1, LikeItself, LikeCloses, NothingTold, ServerStepQuiet
            DEF ReadEnds
  <1> QED BY <1>2, <1>3, <1>4

LEMMA SendBackKeeps ==
    ASSUME CInv, NEW s \in Logins, SendBack(s)
    PROVE  CInv'
  <1>1. Sound(server) /\ s \in server.members /\ {s} \subseteq LoggedIn(server)
    BY DEF CInv, SendBack, Sound, MembersPlay, LoggedIn
  <1>2. PICK v : Like(v) /\ server' = MoveSessionToLobby(v, s)
    BY <1>1, LikeItself, LikeKicked DEF SendBack
  <1>3. Sound(server)' /\ QuietServer
    BY <1>1, <1>2, LikeMoves
  <1>4. QuietNews(<<"Removed">>)
    BY <1>1, ToldLater DEF SendBack, Answers, Acks, Starts
  <1> QED BY <1>3, <1>4, ServerStepQuiet DEF SendBack, GameStep

\* The login arrives: it is refused or looked up.
LEMMA HandleInitKeeps ==
    ASSUME CInv, NEW s \in Live(server), server.unread[s] # <<>>,
           server.state[s] = "Init", NEW g \in 0..MaxLogins, HandleInit(Read(s), s, g),
           ServerStep, UNCHANGED doubled
    PROVE  CInv'
  <1> DEFINE v == Read(s)
  <1>1. /\ Sound(server) /\ s \in Logins /\ Like(v) /\ Sound(v) /\ v.unread[s] = <<>>
    BY LikeRead, Reads DEF CInv, Like
  <1> HIDE DEF v
  <1>2. CASE server' = CloseSession(v, s) /\ Tell({s}, <<"Error">>)
    BY <1>1, <1>2, LikeCloses, ToldEarly, ServerStepQuiet DEF Early
  <1>3. CASE server' = [v EXCEPT !.state[s] = "Login", !.oldGuid[s] = g] /\ UNCHANGED down
    <2>1. /\ server'.state = [v.state EXCEPT ![s] = "Login"]
          /\ server'.oldGuid = [v.oldGuid EXCEPT ![s] = g]
          /\ server'.unread = v.unread
          /\ server'.members = v.members /\ server'.seats = v.seats
      BY <1>1, <1>3 DEF Sound, Servers
    <2>2. server' \in Servers
      BY <1>1, <1>3 DEF Sound, Servers, SessionStates
    <2>3. MembersPlay(server)' /\ OneSeat(server)'
      BY <1>1, <2>1 DEF Like, Sound, Servers, MembersPlay, OneSeat
    <2>4. UnreadFits(server)'
      BY <1>1, <2>1 DEF Like, Sound, Servers, UnreadFits
    <2>5. Sound(server)'
      BY <2>2, <2>3, <2>4 DEF Sound
    <2>6. \A p \in OpenSeats' : p \in OpenSeats
      BY <1>1, <2>1 DEF Like, OpenSeats
    <2>7. QuietServer
      <3>1. s \in Logins /\ server.unread[s] # <<>> /\ server.state[s] = "Init"
        BY <1>1
      <3> QED BY <1>1, <2>1, <2>6, <3>1 DEF Like, Sound, Servers, QuietServer, QuietExcept, Onward
    <2> QED BY <1>3, <2>5, <2>7, NothingTold, ServerStepQuiet
  <1> QED BY <1>2, <1>3 DEF HandleInit, v

\* A request to join: answered, refused, or taken up by the game.
LEMMA HandleJoinKeeps ==
    ASSUME CInv, NEW s \in Live(server), server.unread[s] # <<>>,
           HandleJoin(Read(s), s), ServerStep, UNCHANGED doubled
    PROVE  CInv'
  <1> DEFINE v == Read(s)
             joined == [v EXCEPT !.state[s] = "Game", !.members = @ \cup {s}]
  <1>1. /\ Sound(server) /\ s \in Logins /\ Like(v) /\ Sound(v)
        /\ server.state[s] = "Established" \/ server.state[s] # "Established"
    BY LikeRead, Reads DEF CInv, Like
  <1> HIDE DEF v
  <1>2. CASE server.state[s] # "Established"
    <2>1. server' = v /\ UNCHANGED down
      BY <1>1, <1>2 DEF HandleJoin, Like, v
    <2> QED BY <1>1, <2>1, LikeStays, NothingTold, ServerStepQuiet
  <1>3. CASE server.state[s] = "Established"
    <2>0. {s} \subseteq LoggedIn(server)
      BY <1>1, <1>3 DEF LoggedIn
    <2>1. ASSUME server' = v, NEW a \in {"JoinFailed", "Removed"}, Tell({s}, <<a>>)
          PROVE  CInv'
      <3>1. a \in Answers \ Acks /\ a \notin Starts /\ a # "JoinAck"
        BY DEF Answers, Acks, Starts
      <3>2. QuietNews(<<a>>)
        BY <2>0, <2>1, <3>1, ToldLater
      <3> QED BY <1>1, <2>1, <3>2, LikeStays, ServerStepQuiet
    <2>2. ASSUME \/ server' = joined
                 \/ server' = [joined EXCEPT !.rejoining = Append(RemoveFirst(@, s), s)],
                 NEW m \in {<<"JoinAck">>, <<"JoinAck", "StartEvent">>}, Tell({s}, m)
          PROVE  CInv'
      <3>1. /\ server'.state = [v.state EXCEPT ![s] = "Game"]
            /\ server'.members = v.members \cup {s} /\ server'.seats = v.seats
            /\ server'.unread = v.unread /\ server'.oldGuid = v.oldGuid
        BY <1>1, <2>2 DEF Sound, Servers
      <3>2. server' \in Servers
        <4>1. joined \in Servers /\ "Game" \in SessionStates
          BY <1>1 DEF Sound, Servers, SessionStates
        <4>2. Append(RemoveFirst(joined.rejoining, s), s) \in Seq(Logins)
          BY <1>1, <4>1, NotedAgain DEF Servers
        <4> HIDE DEF joined
        <4> QED BY <2>2, <4>1, <4>2 DEF Servers
      <3>3. MembersPlay(server)' /\ OneSeat(server)'
        BY <1>1, <3>1 DEF Sound, Servers, MembersPlay, OneSeat
      <3>4. UnreadFits(server)'
        <4>1. v.state[s] \in {"Established", "Game"}
          BY <1>1, <1>3 DEF Like
        <4> QED BY <1>1, <3>1, <4>1 DEF Sound, Servers, UnreadFits
      <3>5. Sound(server)'
        BY <3>2, <3>3, <3>4 DEF Sound
      <3>6. \A p \in OpenSeats' : p \in OpenSeats
        BY <1>1, <3>1 DEF Like, OpenSeats
      <3>7. QuietServer
        BY <1>1, <1>3, <3>1, <3>6 DEF Like, Sound, Servers, QuietServer, QuietExcept, Onward
      <3>8. /\ m \in Seq(Answers) /\ ~Has(m, Acks) /\ ~Has(m, Starts)
        <4>1. /\ "JoinAck" \in Answers /\ "StartEvent" \in Answers
              /\ "JoinAck" \notin Acks \cup Starts /\ "StartEvent" \notin Acks \cup Starts
          BY DEF Answers, Acks, Starts
        <4>2. CASE m = <<"JoinAck">>
          BY <4>1, <4>2, Messages
        <4>3. CASE m = <<"JoinAck", "StartEvent">>
          BY <4>1, <4>3, Messages
        <4> QED BY <2>2, <4>2, <4>3
      <3>9. QuietNews(m)
        BY <1>1, <2>0, <2>2, <3>8, Told
      <3> QED BY <3>5, <3>7, <3>9, ServerStepQuiet
    <2>3. \/ server' = v /\ Tell({s}, <<"JoinFailed">>)
          \/ JoinGame(v, s)
      BY <1>1, <1>3 DEF HandleJoin, Like, v
    <2>4. CASE JoinGame(v, s)
      <3>1. \/ server' = joined /\ Tell({s}, <<"JoinAck">>)
            \/ server' = v /\ Tell({s}, <<"Removed">>)
            \/ /\ server' = [joined EXCEPT !.rejoining = Append(RemoveFirst(@, s), s)]
               /\ Tell({s}, <<"JoinAck", "StartEvent">>)
        BY <2>4 DEF JoinGame
      <3> HIDE DEF joined
      <3> QED BY <3>1, <2>1, <2>2
    <2> QED BY <2>1, <2>3, <2>4
  <1> QED BY <1>2, <1>3

LEMMA HandleLeaveKeeps ==
    ASSUME CInv, NEW s \in Live(server), server.unread[s] # <<>>,
           HandleLeave(Read(s), s), ServerStep, UNCHANGED doubled
    PROVE  CInv'
  <1> DEFINE v == Read(s)
  <1>1. /\ Sound(server) /\ s \in Logins /\ Like(v)
        /\ server.state[s] # "none" /\ v.state = server.state
    BY LikeRead, Reads DEF CInv, Like, Live
  <1> HIDE DEF v
  <1>2. CASE server.state[s] = "Game"
    <2>1. server' = MoveSessionToLobby(v, s) /\ Tell({s}, <<"Removed">>)
      BY <1>1, <1>2 DEF HandleLeave, v
    <2>2. s \in server.members /\ {s} \subseteq LoggedIn(server)
      BY <1>1, <1>2 DEF Sound, MembersPlay, LoggedIn
    <2>3. QuietNews(<<"Removed">>)
      BY <2>1, <2>2, ToldLater DEF Answers, Acks, Starts
    <2> QED BY <1>1, <2>1, <2>2, <2>3, LikeMoves, ServerStepQuiet
  <1>3. CASE server.state[s] # "Game"
    <2>1. server' = CloseSession(v, s) /\ Tell({s}, <<"Error">>)
      BY <1>1, <1>3 DEF HandleLeave, v
    <2> QED BY <1>1, <2>1, LikeCloses, ToldEarly, ServerStepQuiet DEF Early
  <1> QED BY <1>2, <1>3

LEMMA DispatchPacketKeeps ==
    ASSUME CInv, NEW s \in Logins, DispatchPacket(s)
    PROVE  CInv'
  <1> DEFINE m == Head(server.unread[s])
  <1>1. /\ s \in Live(server) /\ server.unread[s] # <<>>
        /\ ServerStep /\ UNCHANGED doubled
        /\ CASE m[1] = "Init" -> HandleInit(Read(s), s, m[2])
             [] m[1] = "Join" -> HandleJoin(Read(s), s)
             [] m[1] = "Leave" -> HandleLeave(Read(s), s)
    BY DEF DispatchPacket, Read
  <1>2. \/ server.state[s] = "Init" /\ \E g \in 0..MaxLogins : m = <<"Init", g>>
        \/ m \in {<<"Join">>, <<"Leave">>}
    BY <1>1, Reads DEF CInv
  <1> HIDE DEF m
  <1>3. ASSUME NEW g \in 0..MaxLogins, m = <<"Init", g>>, server.state[s] = "Init"
        PROVE  CInv'
    <2>1. m[1] = "Init" /\ m[2] = g
      BY <1>3
    <2> QED BY <1>1, <1>3, <2>1, HandleInitKeeps
  <1>4. CASE m = <<"Join">>
    <2>1. m[1] = "Join"
      BY <1>4
    <2> QED BY <1>1, <2>1, HandleJoinKeeps
  <1>5. CASE m = <<"Leave">>
    <2>1. m[1] = "Leave"
      BY <1>5
    <2> QED BY <1>1, <2>1, HandleLeaveKeeps
  <1> QED BY <1>2, <1>3, <1>4, <1>5

(***************************************************************************)
(* The game's steps                                                        *)
(***************************************************************************)

\* A step of the game that leaves the sessions alone and tells members something.
LEMMA GameStepKeeps ==
    ASSUME CInv, GameStep, Sound(server)',
           server'.state = server.state, server'.unread = server.unread,
           server'.members = server.members, server'.oldGuid = server.oldGuid,
           \A p \in OpenSeats' : \/ \E q \in OpenSeats : p.guid = q.guid
                                 \/ p.guid \in server.members,
           NEW m, QuietNews(m)
    PROVE  CInv'
  <1>1. QuietServer
    BY Zenon DEF QuietServer, QuietExcept, Onward
  <1> QED BY <1>1, ServerStepQuiet DEF GameStep

LEMMA MembersLoggedIn == CInv => server.members \subseteq LoggedIn(server)
  BY DEF CInv, Sound, MembersPlay, LoggedIn

LEMMA PhaseKeeps ==
    ASSUME CInv, CreateGame \/ StartEvent \/ EndGame
    PROVE  CInv'
  <1>1. Sound(server) /\ server.members \subseteq LoggedIn(server)
    BY MembersLoggedIn DEF CInv
  <1>2. ASSUME NEW phase \in {"none", "open", "starting", "running"},
               NEW seats, seats = server.seats \/ seats = {},
               server' = [server EXCEPT !.phase = phase, !.seats = seats],
               NEW m, QuietNews(m), GameStep
        PROVE  CInv'
    <2>1. /\ server'.state = server.state /\ server'.unread = server.unread
          /\ server'.members = server.members /\ server'.oldGuid = server.oldGuid
          /\ server'.seats = seats
      BY <1>1, <1>2 DEF Sound, Servers
    <2>2. server' \in Servers
      BY <1>1, <1>2 DEF Sound, Servers
    <2>3. MembersPlay(server)' /\ UnreadFits(server)' /\ OneSeat(server)'
      BY <1>1, <1>2, <2>1 DEF Sound, MembersPlay, UnreadFits, OneSeat
    <2>4. Sound(server)'
      BY <2>2, <2>3 DEF Sound
    <2>5. \A p \in OpenSeats' : p \in OpenSeats
      BY <1>2, <2>1 DEF OpenSeats
    <2> QED BY <1>2, <2>1, <2>4, <2>5, GameStepKeeps
  <1>3. server = [server EXCEPT !.seats = server.seats]
    BY <1>1 DEF Sound, Servers
  <1>4. ASSUME NEW phase
        PROVE  [server EXCEPT !.phase = phase]
                 = [server EXCEPT !.phase = phase, !.seats = server.seats]
    BY <1>1 DEF Sound, Servers
  <1>5. CASE CreateGame
    BY <1>2, <1>4, <1>5, NothingTold DEF CreateGame
  <1>6. CASE StartEvent
    <2>1. QuietNews(<<"StartEvent">>)
      BY <1>1, <1>6, ToldLater DEF StartEvent, Answers, Acks, Starts
    <2> QED BY <1>2, <1>4, <1>6, <2>1 DEF StartEvent
  <1>7. CASE EndGame
    <2>1. QuietNews(<<"GameEnd">>)
      BY <1>1, <1>7, ToldLater DEF EndGame, Answers, Acks, Starts
    <2> QED BY <1>2, <1>7, <2>1 DEF EndGame
  <1> QED BY <1>5, <1>6, <1>7

LEMMA StartNewHandKeeps ==
    ASSUME CInv, StartNewHand
    PROVE  CInv'
  <1>1. Sound(server) /\ server.members \subseteq LoggedIn(server) /\ GameStep
    BY MembersLoggedIn DEF CInv, StartNewHand
  <1>2. PICK broke \in BOOLEAN : server' = Dealt(server, broke)
    BY DEF StartNewHand
  <1>3. /\ Sound(server')
        /\ server'.state = server.state /\ server'.unread = server.unread
        /\ server'.members = server.members /\ server'.oldGuid = server.oldGuid
        /\ Back(server) # {} => \A p \in server'.seats : p.guid \in server.members
        /\ Back(server) = {} => \A p \in server'.seats : \E q \in server.seats : p.guid = q.guid
    BY <1>1, <1>2, Deals
  <1>4. Sound(server)'
    BY <1>3 DEF Sound, MembersPlay, UnreadFits, OneSeat
  <1>5. \A p \in OpenSeats' : \/ \E q \in OpenSeats : p.guid = q.guid
                              \/ p.guid \in server.members
    BY <1>3 DEF OpenSeats
  <1>6. \E m : QuietNews(m)
    <2>1. CASE Back(server) = {}
      <3>1. UNCHANGED down
        BY <2>1 DEF StartNewHand, Tell
      <3> QED BY <3>1, NothingTold
    <2>2. CASE Back(server) # {}
      <3>1. /\ "StartRejoin" \in Answers \ Acks /\ "StartRejoin" # "JoinAck"
            /\ Back(server) \subseteq server.members /\ server.members \subseteq Logins
        BY <1>1, LastComesBack DEF Answers, Acks, Sound, Servers
      <3>2. /\ <<"StartRejoin">> \in Seq(Answers) /\ ~Has(<<"StartRejoin">>, Acks)
            /\ ~Has(<<"StartRejoin">>, {"JoinAck"})
        BY <3>1, Messages
      <3>3. \A p \in OpenSeats' : p.guid \in server.members
        BY <1>3, <2>2 DEF OpenSeats
      <3>4. Tell(Back(server), <<"StartRejoin">>)
        BY DEF StartNewHand
      <3>5. QuietNews(<<"StartRejoin">>)
        BY <1>1, <3>1, <3>2, <3>3, <3>4, Told
      <3> QED BY <3>5
    <2> QED BY <2>1, <2>2
  <1> QED BY <1>1, <1>3, <1>4, <1>5, <1>6, GameStepKeeps

LEMMA DoStartKeeps ==
    ASSUME CInv, DoStart
    PROVE  CInv'
  <1> DEFINE first == {t \in server.members : \A r \in server.members : t <= r}
             seat(s) == [id |-> s, guid |-> s, solvent |-> TRUE]
             seats == {seat(s) : s \in first}
             v == [server EXCEPT !.phase = "running", !.seats = seats]
             m == <<"StartInitial">> \o (IF client.login \in Back(server)
                                        THEN <<"StartRejoin">> ELSE <<>>)
  <1>1. /\ Sound(server) /\ server.members \subseteq LoggedIn(server) /\ GameStep
        /\ server' = Dealt(v, FALSE) /\ Tell(server.members, m)
    BY MembersLoggedIn DEF CInv, DoStart
  <1>2. server.members \subseteq Logins
    BY <1>1 DEF Sound, Servers
  <1>3. /\ seats \in SUBSET Seats
        /\ \A p, q \in seats : p = q
        /\ \A p \in seats : p.guid \in server.members
    <2>1. \A s \in first : s \in Logins /\ s \in 0..MaxLogins /\ s \in server.members
      BY <1>2, SessionAssumption DEF Logins
    <2>2. \A s, t \in first : s = t
      BY <2>1, SessionAssumption DEF Logins
    <2>3. \A s \in first : seat(s) \in Seats /\ seat(s).guid = s
      BY <2>1 DEF Seats
    <2> HIDE DEF first, seat
    <2>4. \A p \in seats : \E s \in first : p = seat(s)
      OBVIOUS
    <2> HIDE DEF seats
    <2>5. seats \subseteq Seats /\ \A p \in seats : p.guid \in server.members
      BY <2>1, <2>3, <2>4
    <2>6. \A p, q \in seats : p = q
      BY <2>2, <2>4
    <2> QED BY <2>5, <2>6
  <1> HIDE DEF seats, m
  <1>4. /\ v.state = server.state /\ v.unread = server.unread
        /\ v.members = server.members /\ v.oldGuid = server.oldGuid
        /\ v.seats = seats /\ v \in Servers
    BY <1>1, <1>3 DEF Sound, Servers
  <1> HIDE DEF v
  <1>5. Sound(v)
    BY <1>1, <1>3, <1>4 DEF Sound, MembersPlay, UnreadFits, OneSeat
  <1>6. /\ Sound(server')
        /\ server'.state = server.state /\ server'.unread = server.unread
        /\ server'.members = server.members /\ server'.oldGuid = server.oldGuid
        /\ \A p \in server'.seats : p.guid \in server.members
    <2>1. /\ Sound(server') /\ server'.state = v.state /\ server'.unread = v.unread
          /\ server'.members = v.members /\ server'.oldGuid = v.oldGuid
          /\ Back(v) # {} => \A p \in server'.seats : p.guid \in v.members
          /\ Back(v) = {} => \A p \in server'.seats : \E q \in v.seats : p.guid = q.guid
      BY <1>1, <1>5, Deals
    <2> QED BY <1>3, <1>4, <2>1
  <1>7. Sound(server)'
    BY <1>6 DEF Sound, MembersPlay, UnreadFits, OneSeat
  <1>8. \A p \in OpenSeats' : p.guid \in server.members
    BY <1>6 DEF OpenSeats
  <1>9. m \in Seq(Answers) /\ ~Has(m, Acks) /\ ~Has(m, {"JoinAck"})
    <2>1. \A a \in {"StartInitial", "StartRejoin"} : a \in Answers \ Acks /\ a # "JoinAck"
      BY DEF Answers, Acks
    <2>2. <<>> \in Seq(Answers) /\ \A S : ~Has(<<>>, S)
      BY EmptySeq DEF Has
    <2>3. \A a \in {"StartInitial", "StartRejoin"} :
             /\ <<a>> \in Seq(Answers) /\ ~Has(<<a>>, Acks) /\ ~Has(<<a>>, {"JoinAck"})
      BY <2>1, Messages
    <2>4. PICK rest \in {<<"StartRejoin">>, <<>>} : m = <<"StartInitial">> \o rest
      BY DEF m
    <2>5. rest \in Seq(Answers) /\ ~Has(rest, Acks) /\ ~Has(rest, {"JoinAck"})
      BY <2>2, <2>3, <2>4
    <2>6. /\ <<"StartInitial">> \in Seq(Answers) /\ ~Has(<<"StartInitial">>, Acks)
          /\ ~Has(<<"StartInitial">>, {"JoinAck"})
      BY <2>3
    <2> QED BY <2>4, <2>5, <2>6, Heard
  <1>10. QuietNews(m)
    BY <1>1, <1>2, <1>8, <1>9, Told
  <1> QED BY <1>1, <1>6, <1>7, <1>8, <1>10, GameStepKeeps

LEMMA GameClosesKeeps ==
    ASSUME CInv, GameCloses
    PROVE  CInv'
  <1>1. Sound(server) /\ server.members \subseteq LoggedIn(server) /\ GameStep
    BY MembersLoggedIn DEF CInv, GameCloses
  <1> DEFINE state == [s \in Logins |-> IF s \in server.members THEN "Established"
                                        ELSE server.state[s]]
  <1>2. server' = [server EXCEPT !.phase = "none", !.seats = {}, !.members = {},
                                 !.rejoining = <<>>, !.state = state]
    BY DEF GameCloses
  <1>3. state \in [Logins -> SessionStates] /\ <<>> \in Seq(Logins)
    BY <1>1, EmptySeq DEF Sound, Servers, SessionStates
  <1>4. /\ \A s \in Logins : s \in server.members <=> server.state[s] = "Game"
        /\ \A s \in Logins : state[s] = IF s \in server.members THEN "Established"
                                        ELSE server.state[s]
    BY <1>1 DEF Sound, MembersPlay
  <1> HIDE DEF state
  <1>5. /\ server'.state = state /\ server'.unread = server.unread
        /\ server'.oldGuid = server.oldGuid
        /\ server'.members = {} /\ server'.seats = {} /\ server' \in Servers
    BY <1>1, <1>2, <1>3 DEF Sound, Servers
  <1>6. MembersPlay(server)' /\ OneSeat(server)'
    BY <1>4, <1>5 DEF MembersPlay, OneSeat
  <1>7. UnreadFits(server)'
    BY <1>1, <1>4, <1>5 DEF Sound, UnreadFits
  <1>8. QuietServer
    BY <1>4, <1>5 DEF QuietServer, QuietExcept, Onward, OpenSeats
  <1>9. QuietNews(<<"Removed">>)
    BY <1>1, ToldLater DEF GameCloses, Answers, Acks, Starts
  <1> QED BY <1>1, <1>5, <1>6, <1>7, <1>8, <1>9, ServerStepQuiet DEF Sound, GameStep

(***************************************************************************)
(* The login is taken                                                      *)
(***************************************************************************)

\* What EstablishSession does when it takes the login of s in place of sessions S.
Accepts(s, S, answer) ==
    /\ server' = [RemovePlayer(server, S) EXCEPT !.state[s] = "Established"]
    /\ doubled' = (doubled \/ LoggedIn(server) \ S # {})
    /\ IF client.login \in S THEN Tell(S, <<"Error">>) ELSE Tell({s}, <<answer>>)
    /\ ServerStep

LEMMA Accepted ==
    ASSUME CInv, NEW s \in Logins, server.state[s] = "Login",
           NEW S, S \subseteq LoggedIn(server), NEW answer, Accepts(s, S, answer)
    PROVE  /\ Sound(server)' /\ OneLogin'
           /\ server'.seats = server.seats /\ server'.members \subseteq server.members
           /\ server'.state[s] = "Established" /\ server'.unread[s] = <<>>
           /\ server'.oldGuid[s] = server.oldGuid[s]
           /\ ~doubled' => LoggedIn(server)' = {s}
           /\ \A t \in Logins \ {s} :
                 \/ /\ server'.state[t] = server.state[t]
                    /\ server'.unread[t] = server.unread[t]
                    /\ server'.oldGuid[t] = server.oldGuid[t]
                 \/ /\ server.state[t] # "none" /\ server'.state[t] = "Closed"
                    /\ server'.unread[t] = <<>>
  <1> DEFINE w == RemovePlayer(server, S)
             r == CHOOSE t \in S : TRUE
  <1>1. Sound(server) /\ S \subseteq Logins
    BY DEF CInv, LoggedIn
  <1>2. S # {} => r \in S /\ r \in Logins /\ r # s /\ server.state[r] # "none"
    BY <1>1 DEF LoggedIn
  <1> HIDE DEF r
  <1>3. /\ Sound(w) /\ w.seats = server.seats /\ w.members \subseteq server.members
        /\ w.state[s] = "Login" /\ w.unread[s] = <<>> /\ w.oldGuid[s] = server.oldGuid[s]
        /\ LoggedIn(w) = LoggedIn(server) \ (IF S = {} THEN {} ELSE {r})
        /\ \A t \in Logins \ {s} :
              \/ /\ w.state[t] = server.state[t] /\ w.unread[t] = server.unread[t]
                 /\ w.oldGuid[t] = server.oldGuid[t]
              \/ /\ server.state[t] # "none" /\ w.state[t] = "Closed"
                 /\ w.unread[t] = <<>>
    <2>0. server.unread[s] = <<>>
      BY <1>1 DEF Sound, UnreadFits
    <2>1. CASE S = {}
      <3>1. w = server
        BY <2>1 DEF RemovePlayer
      <3> QED BY <1>1, <2>0, <2>1, <3>1
    <2>2. CASE S # {}
      <3>1. w = CloseSession(server, r)
        BY <2>2 DEF RemovePlayer, r
      <3> HIDE DEF w
      <3>2. /\ Sound(w) /\ w.seats = server.seats /\ w.members = server.members \ {r}
            /\ w.state = [server.state EXCEPT ![r] = "Closed"]
            /\ w.unread = [server.unread EXCEPT ![r] = <<>>]
            /\ w.oldGuid = [server.oldGuid EXCEPT ![r] = Nobody]
            /\ LoggedIn(w) = LoggedIn(server) \ {r}
        BY <1>1, <1>2, <2>2, <3>1, Closes
      <3> QED BY <1>1, <1>2, <2>0, <2>2, <3>2 DEF Sound, Servers
    <2> QED BY <2>1, <2>2
  <1>4. server' = [w EXCEPT !.state[s] = "Established"]
    BY DEF Accepts
  <1> HIDE DEF w
  <1>5. /\ server'.state = [w.state EXCEPT ![s] = "Established"]
        /\ server'.unread = w.unread /\ server'.oldGuid = w.oldGuid
        /\ server'.members = w.members /\ server'.seats = w.seats
        /\ w.state \in [Logins -> SessionStates]
    BY <1>3, <1>4 DEF Sound, Servers
  <1>6. server' \in Servers
    BY <1>3, <1>4 DEF Sound, Servers, SessionStates
  <1>7. MembersPlay(server)' /\ OneSeat(server)'
    BY <1>3, <1>5 DEF Sound, MembersPlay, OneSeat
  <1>8. UnreadFits(server)'
    <2>1. \A t \in Logins : server'.state[t] = IF t = s THEN "Established" ELSE w.state[t]
      BY <1>5
    <2> QED BY <1>3, <1>5, <2>1, EmptySeq DEF Sound, UnreadFits
  <1>9. LoggedIn(server)' = LoggedIn(w) \cup {s}
    BY <1>5 DEF LoggedIn
  <1>10. ~doubled' => LoggedIn(w) = {}
    <2>1. ~doubled' => ~doubled /\ LoggedIn(server) \subseteq S
      BY DEF Accepts
    <2>2. ~doubled => \A t, u \in LoggedIn(server) : t = u
      BY DEF CInv, OneLogin
    <2> QED BY <1>2, <1>3, <2>1, <2>2
  <1>11. ~doubled' => LoggedIn(server)' = {s}
    BY <1>9, <1>10
  <1>12. OneLogin'
    BY <1>11 DEF OneLogin
  <1> QED BY <1>3, <1>5, <1>6, <1>7, <1>8, <1>11, <1>12 DEF Sound

\* Another session of the player takes the place of the client's, or of none.
LEMMA AcceptsOther ==
    ASSUME CInv, NEW s \in Logins, server.state[s] = "Login", client.login # s,
           NEW S, S \subseteq LoggedIn(server), NEW answer, Accepts(s, S, answer)
    PROVE  CInv'
  <1>1. /\ Sound(server)' /\ OneLogin'
        /\ server'.seats = server.seats /\ server'.members \subseteq server.members
        /\ server'.state[s] = "Established" /\ server'.unread[s] = <<>>
        /\ \A t \in Logins \ {s} :
              \/ /\ server'.state[t] = server.state[t]
                 /\ server'.unread[t] = server.unread[t]
                 /\ server'.oldGuid[t] = server.oldGuid[t]
              \/ /\ server.state[t] # "none" /\ server'.state[t] = "Closed"
                 /\ server'.unread[t] = <<>>
    BY Accepted
  <1>2. QuietExcept({s})
    BY <1>1 DEF QuietExcept, Onward, OpenSeats
  <1>3. \E m : QuietNews(m)
    <2>1. CASE client.login \in S
      <3>1. Tell(S, <<"Error">>)
        BY <2>1 DEF Accepts
      <3>2. "Error" \in Answers \ Acks /\ "Error" \notin Starts /\ "Error" # "JoinAck"
        BY DEF Answers, Acks, Starts
      <3> QED BY <3>1, <3>2, ToldLater
    <2>2. CASE client.login \notin S
      <3>1. UNCHANGED down
        BY <2>2 DEF Accepts, Tell
      <3> QED BY <3>1, NothingTold
    <2> QED BY <2>1, <2>2
  <1>4. PICK m : Quiet({s}, m)
    BY <1>2, <1>3 DEF Quiet, Accepts, ServerStep, CInv, TypeOK
  <1> QED BY <1>1, <1>4, QuietStep

\* The client's own session: the answer is the first that it hears behind what it
\* may hear before, and an offer is for the seat that the login named.
LEMMA AcceptsOwn ==
    ASSUME CInv, NEW s \in Logins, server.state[s] = "Login", client.login = s,
           NEW S, S \subseteq LoggedIn(server), NEW answer \in Acks,
           answer = "InitAckRejoin" => RejoinSeat(s) # {}, Accepts(s, S, answer)
    PROVE  CInv'
  <1>1. /\ Sound(server)' /\ OneLogin'
        /\ server'.seats = server.seats /\ server'.members \subseteq server.members
        /\ server'.state[s] = "Established" /\ server'.unread[s] = <<>>
        /\ server'.oldGuid[s] = server.oldGuid[s]
        /\ ~doubled' => LoggedIn(server)' = {s}
    BY Accepted
  <1>2. UNCHANGED <<client, disk, ended>>
    BY DEF Accepts, ServerStep
  <1>3. /\ client.state = "WaitSession" /\ ~client.offered
        /\ down \in Seq(Answers) /\ ~Has(down, Acks) /\ AckFirst(down)
    BY DEF CInv, TypeOK, SessionInv, ClientFits, OfferUnanswered, Connected, LoggingIn, InSession
  <1>4. \A i \in 1..Len(down) : down[i] \in Early
    <2>1. Len(down) \in Nat
      BY <1>3, LenProperties
    <2> QED BY <1>3, <2>1 DEF AckFirst, Has
  <1>5. s \notin S
    BY DEF LoggedIn
  <1>6. /\ \/ down' = down /\ s \in ended
           \/ down' = down \o <<answer>>
    BY <1>5 DEF Accepts, Tell
  <1>7. /\ <<answer>> \in Seq(Answers) /\ \A T : Has(<<answer>>, T) <=> answer \in T
        /\ OneAck(<<answer>>) /\ AckFirst(<<answer>>)
    <2>1. answer \in Answers
      BY DEF Acks, Answers
    <2>2. \A i \in 1..Len(<<answer>>) : i = 1 /\ <<answer>>[i] = answer
      OBVIOUS
    <2>3. AckFirst(<<answer>>) /\ OneAck(<<answer>>)
      BY <2>2 DEF AckFirst, OneAck
    <2> QED BY <2>1, <2>3, Messages
  <1>8. /\ down' \in Seq(Answers)
        /\ OneAck(down') /\ AckFirst(down')
        /\ \A T : Has(down', T) => Has(down, T) \/ answer \in T
        /\ s \in ended \/ Has(down', Acks)
    <2>1. CASE down' = down /\ s \in ended
      <3>1. OneAck(down)
        BY DEF CInv, SessionInv, ClientFits
      <3> QED BY <1>3, <2>1, <3>1
    <2>2. CASE down' = down \o <<answer>>
      <3>1. OneAck(down)
        BY DEF CInv, SessionInv, ClientFits
      <3>2. /\ down \o <<answer>> \in Seq(Answers)
            /\ OneAck(down \o <<answer>>) /\ AckFirst(down \o <<answer>>)
            /\ \A T : Has(down \o <<answer>>, T) <=> Has(down, T) \/ Has(<<answer>>, T)
        BY <1>3, <1>7, <3>1, Heard
      <3> QED BY <1>7, <2>2, <3>2
    <2> QED BY <1>6, <2>1, <2>2
  <1>9. \A T : T \cap Early = {} /\ answer \notin T => ~Has(down', T)
    <2>1. \A T : T \cap Early = {} => ~Has(down, T)
      BY <1>4 DEF Has
    <2> QED BY <1>8, <2>1
  <1>10. ~Has(down', Starts) /\ ~Has(down', {"JoinAck"})
    <2>1. /\ Starts \cap Early = {} /\ answer \notin Starts
          /\ {"JoinAck"} \cap Early = {} /\ answer \notin {"JoinAck"}
      BY DEF Starts, Early, Acks
    <2> QED BY <1>9, <2>1
  <1>11. TypeOK'
    BY <1>1, <1>2, <1>8 DEF CInv, TypeOK, Sound, Accepts
  <1>12. ClientFits'
    BY <1>1, <1>2, <1>3, <1>8 DEF ClientFits, Connected, LoggingIn, InSession, OneAck, AckFirst, Has
  <1>13. OthersIdle'
    <2>1. ~doubled' => \A t \in Logins \ {s} : t \notin server'.members /\ t \notin LoggedIn(server)'
      BY <1>1 DEF Sound, MembersPlay, LoggedIn
    <2> QED BY <1>2, <2>1 DEF OthersIdle
  <1>14. SeatIsMine'
    BY <1>2, <1>3, <1>10 DEF SeatIsMine, Has
  <1>15. OfferUnanswered'
    BY <1>1, <1>2, <1>3, <1>10 DEF OfferUnanswered, Has
  <1>16. OfferedSeat'
    <2> SUFFICES ASSUME Has(down', {"InitAckRejoin"}), NEW p \in OpenSeats'
                 PROVE  p.guid = server'.oldGuid[s]
      BY <1>2, <1>3 DEF OfferedSeat, Offered, Has
    <2>1. answer = "InitAckRejoin"
      <3>1. {"InitAckRejoin"} \cap Early = {}
        BY DEF Early
      <3> QED BY <1>9, <3>1
    <2>2. PICK q \in server.seats : q.guid = server.oldGuid[s]
      BY <2>1 DEF RejoinSeat
    <2>3. p = q
      BY <1>1 DEF OpenSeats, CInv, Sound, OneSeat
    <2> QED BY <1>1, <2>2, <2>3
  <1> QED BY <1>1, <1>11, <1>12, <1>13, <1>14, <1>15, <1>16 DEF CInv, SessionInv

LEMMA EstablishSessionKeeps ==
    ASSUME CInv, NEW s \in Logins, EstablishSession(s)
    PROVE  CInv'
  <1>1. server.state[s] = "Login" /\ ServerStep /\ Sound(server)
    BY DEF EstablishSession, CInv
  <1>2. \/ RejoinSeat(s) # {} /\ \E S : S \subseteq LoggedIn(server) /\ Accepts(s, S, "InitAckRejoin")
        \/ \E S : S \subseteq LoggedIn(server) /\ Accepts(s, S, "InitAck")
        \/ /\ server' = CloseSession(server, s) /\ Tell({s}, <<"Error">>)
           /\ UNCHANGED doubled
    <2>1. Previous \subseteq LoggedIn(server)
      BY DEF Previous, LoggedIn
    <2>2. CASE RejoinSeat(s) # {}
      <3>1. Accepts(s, LoggedIn(server) \cap {p.id : p \in RejoinSeat(s)}, "InitAckRejoin")
        BY <2>2 DEF EstablishSession, Accepts
      <3> QED BY <2>2, <3>1
    <2>3. CASE RejoinSeat(s) = {}
      <3>1. \/ Accepts(s, Previous, "InitAck")
            \/ /\ server' = CloseSession(server, s) /\ Tell({s}, <<"Error">>)
               /\ UNCHANGED doubled
        BY <2>3 DEF EstablishSession, Accepts
      <3> QED BY <2>1, <3>1
    <2> QED BY <2>2, <2>3
  <1>3. CASE /\ server' = CloseSession(server, s) /\ Tell({s}, <<"Error">>)
             /\ UNCHANGED doubled
    BY <1>1, <1>3, LikeItself, LikeCloses, ToldEarly, ServerStepQuiet DEF Early
  <1>4. ASSUME NEW answer \in Acks, answer = "InitAckRejoin" => RejoinSeat(s) # {},
               NEW S, S \subseteq LoggedIn(server), Accepts(s, S, answer)
        PROVE  CInv'
    BY <1>1, <1>4, AcceptsOwn, AcceptsOther
  <1> QED BY <1>2, <1>3, <1>4 DEF Acks

(***************************************************************************)
(* The client's steps                                                      *)
(***************************************************************************)

Clients == [state: ClientStates, login: 0..MaxLogins, guid: 0..MaxLogins,
            offered: BOOLEAN]

LEMMA NotALogin == Nobody \in 0..MaxLogins /\ Nobody \notin Logins /\ Logins \subseteq 0..MaxLogins
  BY SessionAssumption DEF Nobody, Logins

\* A client without a connection.
LEMMA Apart ==
    ASSUME CInv, client' \in Clients, client'.state \notin Connected,
           client'.login \notin Logins, ~client'.offered, down' = <<>>,
           UNCHANGED <<server, doubled>>, disk' \in 0..MaxLogins, ended' \subseteq Logins
    PROVE  CInv'
  <1>1. Len(down') = 0 /\ down' \in Seq(Answers) /\ \A S : ~Has(down', S)
    BY EmptySeq DEF Has
  <1>2. /\ client'.state \notin LoggingIn /\ client'.state \notin InSession
        /\ client'.state \notin {"StartSession", "EnterLogin"} /\ client'.state # "Playing"
    BY DEF LoggingIn, InSession, Connected
  <1>3. TypeOK' /\ Sound(server)' /\ OneLogin'
    BY <1>1 DEF CInv, TypeOK, Clients, Sound, MembersPlay, UnreadFits, OneSeat, OneLogin, LoggedIn
  <1>4. OneAck(down)'
    BY <1>1 DEF OneAck
  <1>5. ~Has(down, Acks)' /\ ~Has(down, Starts)' /\ ~Has(down, {"InitAckRejoin"})'
    BY <1>1 DEF Has
  <1>6. ClientFits'
    BY <1>2, <1>4, <1>5 DEF ClientFits
  <1>7. OthersIdle' /\ SeatIsMine'
    BY <1>2, <1>5 DEF OthersIdle, Taken, SeatIsMine
  <1>8. OfferUnanswered' /\ OfferedSeat'
    BY <1>5 DEF OfferUnanswered, OfferedSeat, Offered
  <1> QED BY <1>3, <1>6, <1>7, <1>8 DEF CInv, SessionInv

LEMMA GoneKeeps ==
    ASSUME CInv, ClientGone, UNCHANGED <<server, doubled>>, disk' \in 0..MaxLogins
    PROVE  CInv'
  <1>1. /\ client' \in Clients /\ client'.state \notin Connected
        /\ client'.login \notin Logins /\ ~client'.offered
    BY NotALogin DEF ClientGone, Off, Clients, ClientStates, Connected
  <1>2. ended' \subseteq Logins
    <2>1. client.login \in 0..MaxLogins /\ ended \subseteq Logins
      BY DEF CInv, TypeOK
    <2>2. client.login # Nobody => client.login \in Logins
      BY <2>1, SessionAssumption DEF Logins, Nobody
    <2> QED BY <2>1, <2>2 DEF ClientGone
  <1> QED BY <1>1, <1>2, Apart DEF ClientGone

\* The steps before a connection is there.
LEMMA ApartKeeps ==
    ASSUME CInv,
           StartLogin \/ DownloadEnds \/ ServerChosen \/ HandleResolve \/ ConnectFails
             \/ ClientStops
    PROVE  CInv'
  <1>0. /\ client \in Clients /\ disk \in 0..MaxLogins /\ ended \subseteq Logins
        /\ client.offered => client.state = "WaitJoin"
        /\ client.state \in Connected <=> client.login \in Logins
        /\ client.state \notin Connected => down = <<>>
    BY DEF CInv, TypeOK, Clients, SessionInv, ClientFits, OfferUnanswered
  <1>1. ASSUME client.state \notin Connected, UNCHANGED <<disk, down, ended>>, ClientOnly,
               NEW state \in ClientStates \ Connected, client' = [client EXCEPT !.state = state]
        PROVE  CInv'
    <2>1. /\ client' \in Clients /\ client'.state \notin Connected
          /\ client'.login = client.login /\ client'.offered = client.offered
      BY <1>0, <1>1 DEF Clients
    <2>2. client.state # "WaitJoin"
      BY <1>1 DEF Connected
    <2> QED BY <1>0, <1>1, <2>1, <2>2, Apart DEF ClientOnly
  <1>2. ASSUME ClientGone, UNCHANGED disk, ClientOnly
        PROVE  CInv'
    BY <1>0, <1>2, GoneKeeps DEF ClientOnly
  <1>3. /\ AfterReading \subseteq ClientStates \ Connected
        /\ {"Off", "Downloading", "ChooseServer", "Resolve", "Connect"}
              \subseteq ClientStates \ Connected
    BY DEF AfterReading, ClientStates, Connected
  <1>4. CASE StartLogin
    <2>1. PICK state \in {"Downloading"} \cup AfterReading :
             client' = [Off EXCEPT !.state = state, !.guid = disk]
      BY <1>4 DEF StartLogin
    <2>2. /\ client' \in Clients /\ client'.state \notin Connected
          /\ client'.login \notin Logins /\ ~client'.offered
      BY <1>0, <1>3, <2>1, NotALogin DEF Off, Clients
    <2>3. down' = <<>>
      BY <1>0, <1>3, <1>4 DEF StartLogin
    <2> QED BY <1>0, <1>4, <2>2, <2>3, Apart DEF StartLogin, ClientOnly
  <1>5. CASE DownloadEnds
    BY <1>1, <1>2, <1>3, <1>5 DEF DownloadEnds, Fail
  <1>6. CASE ServerChosen
    BY <1>1, <1>3, <1>6 DEF ServerChosen
  <1>7. CASE HandleResolve
    BY <1>1, <1>2, <1>3, <1>7 DEF HandleResolve, Fail
  <1>8. CASE ConnectFails \/ ClientStops
    BY <1>2, <1>8 DEF ConnectFails, ClientStops, Fail
  <1> QED BY <1>4, <1>5, <1>6, <1>7, <1>8

LEMMA HandleConnectKeeps ==
    ASSUME CInv, HandleConnect
    PROVE  CInv'
  <1>1. PICK s \in Logins :
           /\ server.state[s] = "none"
           /\ client' = [client EXCEPT !.state = "StartSession", !.login = s]
           /\ server' = [server EXCEPT !.state[s] = "Connecting"]
    BY DEF HandleConnect
  <1>2. /\ Sound(server) /\ client \in Clients /\ ~client.offered /\ down = <<>>
        /\ client.state = "Connect" /\ UNCHANGED <<disk, down, ended, doubled>>
    BY DEF HandleConnect, CInv, TypeOK, Clients, SessionInv, ClientFits, OfferUnanswered,
           Connected
  <1>3. /\ client' \in Clients /\ client'.state = "StartSession" /\ client'.login = s
        /\ ~client'.offered
    BY <1>1, <1>2, NotALogin DEF Clients, ClientStates, Connected
  <1>4. /\ server'.state = [server.state EXCEPT ![s] = "Connecting"]
        /\ server'.unread = server.unread /\ server'.members = server.members
        /\ server'.seats = server.seats
    BY <1>1, <1>2 DEF Sound, Servers
  <1>5. server' \in Servers
    BY <1>1, <1>2 DEF Sound, Servers, SessionStates
  <1>6. MembersPlay(server)' /\ UnreadFits(server)' /\ OneSeat(server)'
    BY <1>1, <1>2, <1>4 DEF Sound, Servers, MembersPlay, UnreadFits, OneSeat
  <1>7. server'.unread[s] = <<>> /\ server'.state[s] = "Connecting"
    BY <1>1, <1>2, <1>4 DEF Sound, Servers, UnreadFits
  <1>8. Len(down') = 0 /\ \A S : ~Has(down', S)
    BY <1>2, EmptySeq DEF Has
  <1>9. ~Has(down, Acks)' /\ ~Has(down, Starts)' /\ ~Has(down, {"InitAckRejoin"})'
    BY <1>8 DEF Has
  <1>10. OneAck(down)' /\ AckFirst(down)'
    BY <1>8 DEF OneAck, AckFirst
  <1>11. TypeOK'
    BY <1>2, <1>3, <1>5 DEF CInv, TypeOK, Clients
  <1>12. OneLogin'
    <2>1. LoggedIn(server)' = LoggedIn(server)
      BY <1>1, <1>2, <1>4 DEF LoggedIn, Sound, Servers
    <2> QED BY <1>2, <2>1 DEF CInv, OneLogin
  <1>13. ClientFits'
    BY <1>3, <1>7, <1>9, <1>10 DEF ClientFits, Connected, InSession
  <1>14. OthersIdle' /\ SeatIsMine' /\ OfferUnanswered' /\ OfferedSeat'
    BY <1>3, <1>7, <1>9
       DEF OthersIdle, Taken, SeatIsMine, OfferUnanswered, OfferedSeat, Offered, LoggedIn,
           InSession
  <1> QED BY <1>5, <1>6, <1>11, <1>12, <1>13, <1>14 DEF CInv, Sound, SessionInv

\* A request reaches the queue of a session that is not closed.
LEMMA Requested ==
    ASSUME CInv, client.login \in Logins, NEW m \in Requests, Request(m),
           \/ server.state[client.login] = "Closed"
           \/ /\ server.state[client.login] \in {"Connecting", "Init"}
              /\ server.unread[client.login] = <<>>
              /\ \E g \in 0..MaxLogins : m = <<"Init", g>>
           \/ /\ server.state[client.login] \in {"Established", "Game"}
              /\ m \in {<<"Join">>, <<"Leave">>}
    PROVE  /\ Sound(server)'
           /\ server'.state = server.state /\ server'.members = server.members
           /\ server'.seats = server.seats /\ server'.oldGuid = server.oldGuid
           /\ \A t \in Logins \ {client.login} : server'.unread[t] = server.unread[t]
  <1> DEFINE s == client.login
             q == server.unread[s]
  <1>1. Sound(server) /\ q \in Seq(Requests)
    BY DEF CInv, Sound, Servers
  <1>2. CASE server.state[s] = "Closed"
    <2>1. server' = server
      BY <1>2 DEF Request
    <2> QED BY <1>1, <2>1 DEF Sound, MembersPlay, UnreadFits, OneSeat
  <1>3. CASE server.state[s] # "Closed"
    <2>1. server' = [server EXCEPT !.unread[s] = Append(q, m)]
      BY <1>3 DEF Request
    <2>2. Append(q, m) \in Seq(Requests) /\ Len(Append(q, m)) = Len(q) + 1 /\ Len(q) \in Nat
      BY <1>1, AppendProperties, LenProperties
    <2>3. \A i \in 1..Len(Append(q, m)) :
             Append(q, m)[i] = m \/ (i \in 1..Len(q) /\ Append(q, m)[i] = q[i])
      <3>1. /\ \A i \in 1..Len(q) : Append(q, m)[i] = q[i]
            /\ Append(q, m)[Len(q) + 1] = m
        BY <1>1, AppendProperties
      <3>2. \A i \in 1..(Len(q) + 1) : i \in 1..Len(q) \/ i = Len(q) + 1
        BY <2>2
      <3> HIDE DEF q
      <3> QED BY <2>2, <3>1, <3>2
    <2>4. q = <<>> => Append(q, m) = <<m>>
      OBVIOUS
    <2> HIDE DEF q
    <2> DEFINE e == Append(q, m)
    <2> HIDE DEF e
    <2>5. /\ server'.unread = [server.unread EXCEPT ![s] = e]
          /\ server'.state = server.state /\ server'.members = server.members
          /\ server'.seats = server.seats /\ server'.oldGuid = server.oldGuid
          /\ server' \in Servers
      BY <1>1, <2>1, <2>2 DEF Sound, Servers, e
    <2>6. MembersPlay(server)' /\ OneSeat(server)'
      BY <1>1, <2>5 DEF Sound, MembersPlay, OneSeat
    <2>7. UnreadFits(server)'
      <3> SUFFICES ASSUME NEW t \in Logins
                   PROVE  /\ server.state[t] \in {"none", "Login", "Closed"} => server'.unread[t] = <<>>
                          /\ server.state[t] \in {"Connecting", "Init"} =>
                                \/ server'.unread[t] = <<>>
                                \/ \E g \in 0..MaxLogins : server'.unread[t] = <<<<"Init", g>>>>
                          /\ server.state[t] \in {"Established", "Game"} =>
                                \A i \in 1..Len(server'.unread[t]) :
                                   server'.unread[t][i] \in {<<"Join">>, <<"Leave">>}
        BY <2>5 DEF UnreadFits
      <3>1. CASE t # s
        <4>1. server'.unread[t] = server.unread[t]
          BY <1>1, <2>5, <3>1 DEF Sound, Servers
        <4> QED BY <1>1, <4>1 DEF Sound, UnreadFits
      <3>2. CASE t = s
        <4>1. server'.unread[s] = e
          BY <1>1, <2>5 DEF Sound, Servers
        <4>2. CASE /\ server.state[s] \in {"Connecting", "Init"} /\ q = <<>>
                   /\ \E g \in 0..MaxLogins : m = <<"Init", g>>
          BY <2>4, <3>2, <4>1, <4>2 DEF e
        <4>3. CASE /\ server.state[s] \in {"Established", "Game"}
                   /\ m \in {<<"Join">>, <<"Leave">>}
          <5>1. \A i \in 1..Len(q) : q[i] \in {<<"Join">>, <<"Leave">>}
            BY <1>1, <4>3 DEF Sound, UnreadFits, q
          <5>2. \A i \in 1..Len(e) : e[i] \in {<<"Join">>, <<"Leave">>}
            BY <2>3, <4>3, <5>1 DEF e
          <5> QED BY <3>2, <4>1, <4>3, <5>2
        <4> QED BY <1>3, <4>2, <4>3 DEF q
      <3> QED BY <3>1, <3>2
    <2> QED BY <1>1, <2>5, <2>6, <2>7 DEF Sound, Servers
  <1> QED BY <1>2, <1>3

\* A step of the client in its session: what must be shown of it.
LEMMA ClientMoves ==
    ASSUME CInv, client.login \in Logins, client' \in Clients, client'.login = client.login,
           Sound(server)', server'.state = server.state, server'.members = server.members,
           server'.seats = server.seats, server'.oldGuid = server.oldGuid,
           \A t \in Logins \ {client.login} : server'.unread[t] = server.unread[t],
           UNCHANGED <<ended, doubled>>, disk' \in 0..MaxLogins,
           down' \in Seq(Answers), \A S : Has(down', S) => Has(down, S),
           ClientFits', OfferUnanswered',
           client'.state \in InSession => client.state \in InSession \/ Has(down, Acks),
           client'.state = "Playing" => client.state = "Playing" \/ Has(down, Starts),
           client'.offered => Offered
    PROVE  CInv'
  <1>1. TypeOK' /\ OneLogin' /\ LoggedIn(server)' = LoggedIn(server)
    BY DEF CInv, TypeOK, Clients, Sound, OneLogin, LoggedIn
  <1>2. /\ Has(down, Acks)' => Has(down, Acks)
        /\ Has(down, Starts)' => Has(down, Starts)
        /\ Has(down, {"InitAckRejoin"})' => Has(down, {"InitAckRejoin"})
    BY DEF Has
  <1>3. Taken' => Taken
    BY <1>1, <1>2 DEF Taken
  <1>4. OthersIdle'
    BY <1>1, <1>3 DEF CInv, SessionInv, OthersIdle
  <1>5. SeatIsMine'
    BY <1>2 DEF CInv, SessionInv, SeatIsMine, OpenSeats
  <1>6. OfferedSeat'
    BY <1>2 DEF CInv, SessionInv, OfferedSeat, Offered, OpenSeats
  <1> QED BY <1>1, <1>4, <1>5, <1>6 DEF CInv, SessionInv

\* The server does not notice.
LEMMA ServerSame ==
    ASSUME CInv, UNCHANGED server
    PROVE  Sound(server)'
  BY DEF CInv, Sound, MembersPlay, UnreadFits, OneSeat

\* A message that is no answer to the login has been handled.
LEMMA EnterKeeps ==
    ASSUME CInv, client.state \in Connected, down # <<>>, Head(down) \notin Acks,
           NEW state, Enter(state), UNCHANGED doubled,
           \/ state = client.state
           \/ client.state = "StartSession" /\ state = "EnterLogin"
           \/ /\ client.state \in InSession /\ state \in InSession \ {"Playing"}
              /\ client.offered => state = "WaitJoin"
    PROVE  CInv'
  <1>1. /\ client \in Clients /\ client.login \in Logins /\ disk \in 0..MaxLogins
        /\ down \in Seq(Answers) /\ UNCHANGED <<disk, server, ended, doubled>>
        /\ down' = Tail(down) /\ client' = [client EXCEPT !.state = state]
    BY DEF CInv, TypeOK, Clients, SessionInv, ClientFits, Enter
  <1>2. /\ client' \in Clients /\ client'.state = state /\ client'.login = client.login
        /\ client'.guid = client.guid /\ client'.offered = client.offered
        /\ state \in Connected
    BY <1>1 DEF Clients, ClientStates, Connected, InSession
  <1>3. /\ down' \in Seq(Answers) /\ \A S : Has(down', S) => Has(down, S)
        /\ AckFirst(down) => AckFirst(down')
        /\ OneAck(down) => OneAck(down')
        /\ Has(down, Acks) => Has(down', Acks)
    BY <1>1, Hearing
  <1>4. OneAck(down)' /\ (AckFirst(down) => AckFirst(down)') /\ (Has(down, Acks) <=> Has(down, Acks)')
    BY <1>3 DEF CInv, SessionInv, ClientFits, OneAck, AckFirst, Has
  <1>5. ClientFits'
    BY <1>1, <1>2, <1>4 DEF CInv, SessionInv, ClientFits, Connected, LoggingIn, InSession
  <1>6. /\ Has(down, {"InitAckRejoin"})' => Has(down, {"InitAckRejoin"})
        /\ Has(down, {"JoinAck"})' => Has(down, {"JoinAck"})
    BY <1>3 DEF Has
  <1>7. client.offered => state = "WaitJoin"
    BY DEF CInv, SessionInv, OfferUnanswered, InSession
  <1>8. OfferUnanswered'
    BY <1>1, <1>2, <1>6, <1>7 DEF CInv, SessionInv, OfferUnanswered, Offered
  <1>9. /\ state \in InSession => client.state \in InSession
        /\ state = "Playing" => client.state = "Playing"
    BY DEF InSession
  <1> QED BY <1>1, <1>2, <1>3, <1>5, <1>8, <1>9, ServerSame, ClientMoves DEF Offered

\* The answer to the login: the player is asked, or the client joins at once.
LEMMA HandleInitAckKeeps ==
    ASSUME CInv, client.state = "WaitSession", down # <<>>, Head(down) \in Acks,
           HandleInitAck(Head(down) = "InitAckRejoin"), UNCHANGED doubled
    PROVE  CInv'
  <1> DEFINE L == client.login
             offered == Head(down) = "InitAckRejoin"
  <1>1. /\ client \in Clients /\ L \in Logins /\ disk \in 0..MaxLogins /\ ~client.offered
        /\ down \in Seq(Answers) /\ UNCHANGED <<disk, ended, doubled>>
        /\ down' = Tail(down) /\ OneAck(down)
    BY DEF CInv, TypeOK, Clients, SessionInv, ClientFits, OfferUnanswered, HandleInitAck, Connected
  <1>2. /\ down' \in Seq(Answers) /\ \A S : Has(down', S) => Has(down, S)
        /\ OneAck(down') /\ ~Has(down', Acks)
        /\ \A S : Head(down) \in S => Has(down, S)
    BY <1>1, Hearing
  <1>3. OneAck(down)' /\ ~Has(down, Acks)'
    BY <1>2 DEF OneAck, Has
  <1>4. ~Has(down, {"InitAckRejoin"})'
    BY <1>3 DEF Has, Acks
  <1>5. Has(down, Acks) /\ server.state[L] \in {"Established", "Game", "Closed"}
    BY <1>2 DEF CInv, SessionInv, ClientFits
  <1>6. ASSUME server'.state = server.state, client' \in Clients, client'.state = "WaitJoin",
               client'.login = L, client'.guid = L
        PROVE  ClientFits'
    BY <1>1, <1>3, <1>5, <1>6 DEF ClientFits, Connected, LoggingIn, InSession
  <1>7. CASE /\ client' = [client EXCEPT !.state = "WaitJoin", !.guid = L, !.offered = offered]
             /\ UNCHANGED server
    <2>1. /\ client' \in Clients /\ client'.state = "WaitJoin" /\ client'.login = L
          /\ client'.guid = L /\ client'.offered = offered
      BY <1>1, <1>7, NotALogin DEF Clients, ClientStates, Connected
    <2>2. offered => Offered
      BY <1>2 DEF Offered
    <2>3. Has(down, {"JoinAck"})' => Has(down, {"JoinAck"})
      BY <1>2 DEF Has
    <2>4. OfferUnanswered'
      BY <1>4, <1>7, <2>1, <2>2, <2>3 DEF OfferUnanswered, Offered, CInv, SessionInv
    <2> QED BY <1>1, <1>2, <1>5, <1>6, <1>7, <2>1, <2>2, <2>4, ServerSame, ClientMoves
  <1>8. CASE /\ client' = [client EXCEPT !.state = "WaitJoin", !.guid = L]
             /\ Request(<<"Join">>)
    <2>1. /\ client' \in Clients /\ client'.state = "WaitJoin" /\ client'.login = L
          /\ client'.guid = L /\ ~client'.offered
      BY <1>1, <1>8, NotALogin DEF Clients, ClientStates, Connected
    <2>2. /\ Sound(server)'
          /\ server'.state = server.state /\ server'.members = server.members
          /\ server'.seats = server.seats /\ server'.oldGuid = server.oldGuid
          /\ \A t \in Logins \ {L} : server'.unread[t] = server.unread[t]
      BY <1>1, <1>5, <1>8, Requested DEF Requests
    <2>3. OfferUnanswered'
      BY <1>4, <2>1 DEF OfferUnanswered, Offered
    <2> QED BY <1>1, <1>2, <1>5, <1>6, <2>1, <2>2, <2>3, ClientMoves
  <1> QED BY <1>7, <1>8 DEF HandleInitAck

\* The game starts: the guid that goes to disk is that of the session.
LEMMA InitGameKeeps ==
    ASSUME CInv, client.state \in {"Synchronize", "WaitStart"}, down # <<>>,
           Head(down) \in Starts, InitGame(client), UNCHANGED doubled
    PROVE  CInv'
  <1>1. /\ client \in Clients /\ client.login \in Logins /\ client.guid = client.login
        /\ ~client.offered /\ down \in Seq(Answers) /\ UNCHANGED <<server, ended, doubled>>
        /\ down' = Tail(down) /\ OneAck(down) /\ ~Has(down, Acks)
        /\ client' = [client EXCEPT !.state = "Playing"] /\ disk' = client.guid
    BY DEF CInv, TypeOK, Clients, SessionInv, ClientFits, OfferUnanswered, InitGame,
           Connected, InSession
  <1>2. /\ client' \in Clients /\ client'.state = "Playing" /\ client'.login = client.login
        /\ client'.guid = client.guid /\ ~client'.offered /\ disk' \in 0..MaxLogins
        /\ client'.state \in Connected /\ client.state \in InSession
    BY <1>1, NotALogin DEF Clients, ClientStates, Connected, InSession
  <1>3. /\ down' \in Seq(Answers) /\ \A S : Has(down', S) => Has(down, S)
        /\ OneAck(down') /\ Has(down, Starts)
    BY <1>1, Hearing
  <1>4. OneAck(down)' /\ ~Has(down, Acks)' /\ ~Has(down, {"InitAckRejoin"})'
    BY <1>1, <1>3 DEF OneAck, Has, Acks
  <1>5. ClientFits'
    BY <1>1, <1>2, <1>4 DEF CInv, SessionInv, ClientFits, LoggingIn, InSession
  <1>6. OfferUnanswered'
    BY <1>2, <1>4 DEF OfferUnanswered, Offered
  <1> QED BY <1>1, <1>2, <1>3, <1>5, <1>6, ServerSame, ClientMoves

LEMMA ReceiveKeeps ==
    ASSUME CInv, Receive
    PROVE  CInv'
  <1> DEFINE m == Head(down)
  <1>1. /\ client.state \in Connected /\ down # <<>> /\ UNCHANGED doubled
        /\ down \in Seq(Answers) /\ disk \in 0..MaxLogins /\ HandlePacket(m)
        /\ client \in Clients
    BY DEF CInv, TypeOK, Clients, Receive
  <1>2. /\ AckFirst(down) => m \in Early \cup Acks
        /\ \A S : m \in S => Has(down, S)
    BY <1>1, Hearing
  <1>3. m \in Acks => client.state = "WaitSession"
    BY <1>2 DEF CInv, SessionInv, ClientFits
  <1>4. client.state \in LoggingIn => m \in Early \cup Acks
    BY <1>2 DEF CInv, SessionInv, ClientFits
  <1>5. client.offered => client.state = "WaitJoin" /\ m # "JoinAck"
    BY <1>2 DEF CInv, SessionInv, OfferUnanswered, Offered
  <1> HIDE DEF m
  <1>6. CASE ClientGone /\ UNCHANGED server /\ disk' \in {disk, Nobody, client.guid}
    <2>1. disk' \in 0..MaxLogins
      BY <1>1, <1>6, NotALogin DEF Clients
    <2> QED BY <1>1, <1>6, <2>1, GoneKeeps
  <1>7. CASE m \in {"Error", "End"}
    BY <1>6, <1>7, <1>1 DEF HandlePacket, Fail
  <1>8. CASE m \notin {"Error", "End"} /\ client.state # "EnterLogin" /\ m = "Removed"
    <2>1. client.state \in InSession
      BY <1>1, <1>4, <1>8 DEF Connected, LoggingIn, InSession, Early, Acks
    <2>2. Enter("WaitJoin")
      BY <1>1, <1>8 DEF HandlePacket
    <2> QED BY <1>1, <1>8, <2>1, <2>2, EnterKeeps DEF InSession, Acks, m
  <1>9. CASE /\ m \notin {"Error", "End"}
             /\ ~(client.state # "EnterLogin" /\ m = "Removed")
    <2>1. CASE client.state = "StartSession" /\ m = "Announce"
      <3>1. Enter("EnterLogin")
        BY <1>1, <1>9, <2>1 DEF HandlePacket
      <3> QED BY <1>1, <2>1, <3>1, EnterKeeps DEF m, Acks
    <2>2. CASE client.state = "WaitSession" /\ m \in Acks
      <3>1. HandleInitAck(m = "InitAckRejoin")
        <4>1. CASE m = "InitAck"
          <5>1. HandleInitAck(FALSE)
            BY <1>1, <1>9, <2>2, <4>1 DEF HandlePacket
          <5>2. (m = "InitAckRejoin") = FALSE
            BY <4>1
          <5> QED BY <5>1, <5>2
        <4>2. CASE m = "InitAckRejoin"
          <5>1. HandleInitAck(TRUE)
            BY <1>1, <1>9, <2>2, <4>2 DEF HandlePacket
          <5>2. (m = "InitAckRejoin") = TRUE
            BY <4>2
          <5> QED BY <5>1, <5>2
        <4> QED BY <2>2, <4>1, <4>2 DEF Acks
      <3> QED BY <1>1, <2>2, <3>1, HandleInitAckKeeps DEF m
    <2>3. CASE /\ ~(client.state = "StartSession" /\ m = "Announce")
               /\ ~(client.state = "WaitSession" /\ m \in Acks)
      <3>1. m \notin Acks
        BY <1>3, <2>3
      <3>2. \/ client.state = "WaitJoin" /\ m = "JoinAck" /\ Enter("WaitGame")
            \/ client.state = "WaitGame" /\ m = "StartEvent" /\ Enter("Synchronize")
            \/ /\ client.state \in {"Synchronize", "WaitStart"} /\ m \in Starts
               /\ InitGame(client) \/ StartFails
            \/ client.state = "Playing" /\ m = "GameEnd" /\ Enter("WaitGame")
            \/ Enter(client.state)
        BY <1>1, <1>9, <2>3 DEF HandlePacket, Ignore, Starts, Acks
      <3>3. CASE client.state = "WaitJoin" /\ m = "JoinAck" /\ Enter("WaitGame")
        BY <1>1, <1>5, <3>1, <3>3, EnterKeeps DEF m, InSession
      <3>4. CASE \/ client.state = "WaitGame" /\ Enter("Synchronize")
                 \/ client.state = "Playing" /\ Enter("WaitGame")
        BY <1>1, <1>5, <3>1, <3>4, EnterKeeps DEF m, InSession
      <3>5. CASE Enter(client.state)
        BY <1>1, <3>1, <3>5, EnterKeeps DEF m
      <3>6. CASE client.state \in {"Synchronize", "WaitStart"} /\ m \in Starts /\ InitGame(client)
        BY <1>1, <3>6, InitGameKeeps DEF m
      <3>7. CASE StartFails
        BY <1>6, <3>7 DEF StartFails
      <3> QED BY <3>2, <3>3, <3>4, <3>5, <3>6, <3>7
    <2> QED BY <2>1, <2>2, <2>3
  <1> QED BY <1>7, <1>8, <1>9

LEMMA RequestsKeep ==
    ASSUME CInv, LoginEntered \/ JoinRequested \/ LeaveRequested
    PROVE  CInv'
  <1> DEFINE L == client.login
  <1>1. /\ client \in Clients /\ L \in Logins /\ disk \in 0..MaxLogins
        /\ down \in Seq(Answers) /\ UNCHANGED <<disk, down, ended, doubled>>
        /\ client.offered => client.state = "WaitJoin"
    BY DEF CInv, TypeOK, Clients, SessionInv, ClientFits, OfferUnanswered,
           LoginEntered, JoinRequested, LeaveRequested, MayRequest
  <1>2. \A S : Has(down', S) <=> Has(down, S)
    BY <1>1
  <1>3. /\ Has(down, Acks)' <=> Has(down, Acks)
        /\ Has(down, {"InitAckRejoin"})' <=> Has(down, {"InitAckRejoin"})
        /\ OneAck(down)' /\ (AckFirst(down) => AckFirst(down)')
    BY <1>1 DEF Has, OneAck, AckFirst, CInv, SessionInv, ClientFits
  <1>4. Has(down, {"InitAckRejoin"}) => Has(down, Acks)
    BY DEF Has, Acks
  <1>5. CASE LoginEntered
    <2>1. /\ client.state = "EnterLogin" /\ Request(<<"Init", client.guid>>)
          /\ client' = [client EXCEPT !.state = "WaitSession"]
          /\ server.state[L] \in {"Connecting", "Init", "Closed"} /\ server.unread[L] = <<>>
          /\ <<"Init", client.guid>> \in Requests /\ client.guid \in 0..MaxLogins
      BY <1>1, <1>5 DEF LoginEntered, CInv, SessionInv, ClientFits, Requests, Clients
    <2>2. /\ client' \in Clients /\ client'.state = "WaitSession" /\ client'.login = L
          /\ ~client'.offered /\ client'.state \in Connected
      BY <1>1, <2>1 DEF Clients, ClientStates, Connected
    <2>3. /\ Sound(server)'
          /\ server'.state = server.state /\ server'.members = server.members
          /\ server'.seats = server.seats /\ server'.oldGuid = server.oldGuid
          /\ \A t \in Logins \ {L} : server'.unread[t] = server.unread[t]
      BY <1>1, <2>1, Requested
    <2>4. ~Has(down, Acks)
      BY <2>1 DEF CInv, SessionInv, ClientFits
    <2>5. ClientFits'
      BY <1>1, <1>3, <2>1, <2>2, <2>3, <2>4 DEF CInv, SessionInv, ClientFits, LoggingIn, InSession
    <2>6. OfferUnanswered'
      BY <1>3, <1>4, <2>2, <2>4 DEF OfferUnanswered, Offered
    <2> QED BY <1>1, <1>2, <2>2, <2>3, <2>5, <2>6, ClientMoves DEF InSession
  <1>6. CASE JoinRequested \/ LeaveRequested
    <2>1. PICK request \in {<<"Join">>, <<"Leave">>} : Request(request)
      BY <1>6 DEF JoinRequested, LeaveRequested
    <2>2. /\ client.state \in InSession /\ client.state \in Connected
          /\ client' \in Clients /\ client'.state = client.state /\ client'.login = L
          /\ client'.guid = client.guid /\ ~client'.offered
      BY <1>1, <1>6 DEF JoinRequested, LeaveRequested, InSession, Connected, Clients
    <2>3. /\ server.state[L] \in {"Established", "Game", "Closed"} /\ ~Has(down, Acks)
      BY <2>2 DEF CInv, SessionInv, ClientFits, InSession
    <2>4. /\ Sound(server)'
          /\ server'.state = server.state /\ server'.members = server.members
          /\ server'.seats = server.seats /\ server'.oldGuid = server.oldGuid
          /\ \A t \in Logins \ {L} : server'.unread[t] = server.unread[t]
      BY <1>1, <2>1, <2>3, Requested DEF Requests
    <2>5. ClientFits'
      BY <1>1, <1>3, <2>2, <2>3, <2>4 DEF CInv, SessionInv, ClientFits, LoggingIn, InSession
    <2>6. OfferUnanswered'
      BY <1>3, <1>4, <2>2, <2>3 DEF OfferUnanswered, Offered
    <2> QED BY <1>1, <1>2, <2>2, <2>4, <2>5, <2>6, ClientMoves
  <1> QED BY <1>5, <1>6

LEMMA SynchronizedKeeps ==
    ASSUME CInv, Synchronized
    PROVE  CInv'
  <1>1. /\ client \in Clients /\ client.login \in Logins /\ disk \in 0..MaxLogins
        /\ down \in Seq(Answers) /\ UNCHANGED <<disk, down, ended, doubled, server>>
        /\ client.state = "Synchronize" /\ ~client.offered /\ ~Has(down, Acks)
        /\ client' = [client EXCEPT !.state = "WaitStart"]
    BY DEF CInv, TypeOK, Clients, SessionInv, ClientFits, OfferUnanswered, Synchronized,
           ClientOnly, Connected
  <1>2. /\ client' \in Clients /\ client'.state = "WaitStart" /\ client'.login = client.login
        /\ client'.guid = client.guid /\ ~client'.offered /\ client'.state \in Connected
    BY <1>1 DEF Clients, ClientStates, Connected
  <1>3. OneAck(down)' /\ ~Has(down, Acks)' /\ ~Has(down, {"InitAckRejoin"})'
    BY <1>1 DEF Has, Acks, OneAck, CInv, SessionInv, ClientFits
  <1>4. ClientFits'
    BY <1>1, <1>2, <1>3 DEF CInv, SessionInv, ClientFits, LoggingIn, InSession
  <1>5. OfferUnanswered'
    BY <1>2, <1>3 DEF OfferUnanswered, Offered
  <1>6. \A S : Has(down', S) => Has(down, S)
    BY <1>1
  <1> QED BY <1>1, <1>2, <1>4, <1>5, <1>6, ServerSame, ClientMoves DEF InSession

LEMMA ConnectionLostKeeps ==
    ASSUME CInv, ConnectionLost
    PROVE  CInv'
  <1>1. /\ client.login \in Logins \ ended /\ down \in Seq(Answers) /\ ended \subseteq Logins
        /\ down' = down \o <<"End">> /\ ended' = ended \cup {client.login}
        /\ UNCHANGED <<client, disk, server, doubled>>
    <2>1. down \in Seq(Answers) /\ "End" \in Answers
      BY DEF CInv, TypeOK, Answers
    <2> QED BY <2>1, AppendIsConcat
            DEF ConnectionLost, ClientOnly, CInv, TypeOK, SessionInv, ClientFits
  <1>2. "End" \in Answers /\ "End" \in Early /\ "End" \notin Acks \cup Starts
    BY DEF Answers, Early, Acks, Starts
  <1>3. QuietNews(<<"End">>)
    <2>1. /\ <<"End">> \in Seq(Answers) /\ AckFirst(<<"End">>)
          /\ \A S : Has(<<"End">>, S) <=> "End" \in S
      BY <1>2, Messages
    <2>2. /\ ~Has(<<"End">>, Acks) /\ ~Has(<<"End">>, Starts)
          /\ ~Has(<<"End">>, {"JoinAck"})
      BY <1>2, <2>1
    <2> QED BY <1>1, <2>1, <2>2 DEF QuietNews
  <1>4. QuietExcept({}) /\ Sound(server)'
    BY <1>1, LikeItself, LikeStays DEF CInv, QuietServer
  <1>5. Quiet({}, <<"End">>)
    BY <1>1, <1>3, <1>4 DEF Quiet, CInv, TypeOK
  <1>6. OneLogin'
    BY <1>1 DEF CInv, OneLogin, LoggedIn
  <1> QED BY <1>4, <1>5, <1>6, QuietStep

(***************************************************************************)
(* The theorems                                                            *)
(***************************************************************************)

LEMMA InitHolds == Init => CInv
  <1> SUFFICES ASSUME Init PROVE CInv
    OBVIOUS
  <1>1. Len(down) = 0 /\ down \in Seq(Answers) /\ \A S : ~Has(down, S)
    BY EmptySeq DEF Init, Has
  <1>2. /\ client \in Clients /\ client.state = "Off" /\ client.login \notin Logins
        /\ ~client.offered
    BY NotALogin DEF Init, Off, Clients, ClientStates
  <1>3. server \in Servers
    BY EmptySeq, NotALogin DEF Init, Servers, SessionStates
  <1>4. Sound(server)
    BY <1>3 DEF Init, Sound, MembersPlay, UnreadFits, OneSeat
  <1>5. TypeOK
    BY <1>1, <1>2, <1>3, NotALogin DEF Init, TypeOK, Clients
  <1>6. OneLogin
    BY DEF Init, OneLogin, LoggedIn
  <1>7. ClientFits
    BY <1>1, <1>2 DEF Init, ClientFits, Connected, LoggingIn, InSession, OneAck
  <1>8. OthersIdle /\ SeatIsMine /\ OfferUnanswered /\ OfferedSeat
    BY <1>1, <1>2 DEF OthersIdle, Taken, SeatIsMine, OfferUnanswered, OfferedSeat, Offered
  <1> QED BY <1>4, <1>5, <1>6, <1>7, <1>8 DEF CInv, SessionInv

LEMMA NextKeeps == CInv /\ [Next]_vars => CInv'
  <1> SUFFICES ASSUME CInv, [Next]_vars PROVE CInv'
    OBVIOUS
  <1>1. CASE UNCHANGED vars
    <2>1. UNCHANGED <<client, disk, server, down, ended, doubled>>
      BY <1>1 DEF vars
    <2> QED BY <2>1
            DEF CInv, TypeOK, Sound, MembersPlay, UnreadFits, OneSeat, OneLogin, LoggedIn,
                SessionInv, ClientFits, OthersIdle, Taken, SeatIsMine, OpenSeats,
                OfferUnanswered, OfferedSeat, Offered, OneAck, AckFirst, Has
  <1>2. CASE ClientStep
    BY <1>2, ApartKeeps, HandleConnectKeeps, ReceiveKeeps, RequestsKeep,
       SynchronizedKeeps, ConnectionLostKeeps DEF ClientStep
  <1>3. CASE ServerLobbyStep
    BY <1>3, AddConnectionKeeps, DispatchPacketKeeps, EstablishSessionKeeps, ClosingKeeps
       DEF ServerLobbyStep
  <1>4. CASE TableStep
    BY <1>4, PhaseKeeps, DoStartKeeps, StartNewHandKeeps, GameClosesKeeps, SendBackKeeps
       DEF TableStep
  <1> QED BY <1>1, <1>2, <1>3, <1>4 DEF Next

LEMMA SessionInvariant == Spec => []CInv
  BY InitHolds, NextKeeps, PTL DEF Spec

\* Types, for every number of connections and of messages under way.
THEOREM SessionTypes == Spec => []TypeOK
  <1>1. CInv => TypeOK
    BY DEF CInv
  <1> QED BY <1>1, SessionInvariant, PTL

\* Whoever plays finds the guid of his seat on his disk (InitGame of the client
\* writes it, DoStart and PerformRejoin of the server set it): he can come back.
THEOREM SeatCanBeRejoined == Spec => []RejoinPossible
  <1>1. CInv => RejoinPossible
    BY DEF CInv, SessionInv, ClientFits, SeatIsMine, RejoinPossible
  <1> QED BY <1>1, SessionInvariant, PTL

\* An offer to come back, made by EstablishSession, is for the seat that the login
\* named as long as the game goes on and the player has not answered.
THEOREM OfferIsForTheSeat == Spec => []OfferHolds
  <1>1. CInv => OfferHolds
    BY DEF CInv, SessionInv, OfferedSeat, Offered, OfferHolds
  <1> QED BY <1>1, SessionInvariant, PTL

=============================================================================
