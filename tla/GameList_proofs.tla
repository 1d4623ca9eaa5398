---------------------------- MODULE GameList_proofs ----------------------------
(***************************************************************************)
(* The agreement on the subscription, and that a subscribed client's list  *)
(* is the server's, for every number of players, seats, own games and      *)
(* messages under way.                                                     *)
(***************************************************************************)
EXTENDS GameList, SequenceTheorems, WellFoundedInduction, NaturalsInduction, TLAPS

Requests == {"unsubscribe", "resubscribe"}

SubscriptionType ==
    /\ wants \in BOOLEAN /\ subscribed \in BOOLEAN
    /\ toServer \in Seq(Requests)

SInv == SubscriptionType /\ SubscriptionsAgree

\* The last element of a queue that was appended to, and of what is left of one.
LEMMA LastRequest ==
    ASSUME NEW s \in Seq(Requests)
    PROVE  /\ \A r \in Requests : /\ Append(s, r) # << >>
                                  /\ Append(s, r) \in Seq(Requests)
                                  /\ Last(Append(s, r)) = r
           /\ s # << >> =>
                 /\ Tail(s) \in Seq(Requests)
                 /\ Tail(s) = << >> => Last(s) = Head(s)
                 /\ Tail(s) # << >> => Last(Tail(s)) = Last(s)
  BY DEF Last

\* The client's two operations keep the agreement.
LEMMA UnsubscribeAgrees == SInv /\ UnsubscribeLobbyMsg /\ UNCHANGED wants => SInv'
  <1> SUFFICES ASSUME SInv, UnsubscribeLobbyMsg, UNCHANGED wants PROVE SInv'
    OBVIOUS
  <1>1. toServer \in Seq(Requests) /\ "unsubscribe" \in Requests
    BY DEF SInv, SubscriptionType, Requests
  <1>2. CASE subscribed
    <2>1. toServer' = Append(toServer, "unsubscribe") /\ subscribed' = FALSE
      BY <1>2 DEF UnsubscribeLobbyMsg
    <2> QED BY <2>1, <1>1, LastRequest DEF SInv, SubscriptionType, SubscriptionsAgree
  <1>3. CASE ~subscribed
    BY <1>3 DEF UnsubscribeLobbyMsg, SInv, SubscriptionType, SubscriptionsAgree
  <1> QED BY <1>2, <1>3

LEMMA ResubscribeAgrees == SInv /\ ResubscribeLobbyMsg /\ UNCHANGED wants => SInv'
  <1> SUFFICES ASSUME SInv, ResubscribeLobbyMsg, UNCHANGED wants PROVE SInv'
    OBVIOUS
  <1>1. toServer \in Seq(Requests) /\ "resubscribe" \in Requests
    BY DEF SInv, SubscriptionType, Requests
  <1>2. CASE ~subscribed
    <2>1. toServer' = Append(toServer, "resubscribe") /\ subscribed' = TRUE
      BY <1>2 DEF ResubscribeLobbyMsg
    <2> QED BY <2>1, <1>1, LastRequest DEF SInv, SubscriptionType, SubscriptionsAgree
  <1>3. CASE subscribed
    BY <1>3 DEF ResubscribeLobbyMsg, SInv, SubscriptionType, SubscriptionsAgree
  <1> QED BY <1>2, <1>3

\* And so does the server's handling of the oldest request.
LEMMA HandlingAgrees == SInv /\ HandleSubscriptionRequest => SInv'
  <1> SUFFICES ASSUME SInv, HandleSubscriptionRequest PROVE SInv'
    OBVIOUS
  <1>1. /\ toServer \in Seq(Requests) /\ toServer # << >>
        /\ toServer' = Tail(toServer) /\ UNCHANGED subscribed
    BY DEF SInv, SubscriptionType, HandleSubscriptionRequest
  <1>2. Head(toServer) \in Requests
    BY <1>1
  <1>3. wants' = (Head(toServer) = "resubscribe")
    BY <1>2 DEF HandleSubscriptionRequest, InternalResubscribeMsg, SInv, SubscriptionType, Requests
  <1> QED BY <1>1, <1>3, LastRequest DEF SInv, SubscriptionType, SubscriptionsAgree

\* What leaves the subscription alone leaves the agreement alone.
LEMMA OthersAgree == SInv /\ UNCHANGED <<wants, toServer, subscribed>> => SInv'
  BY DEF SInv, SubscriptionType, SubscriptionsAgree

LEMMA ListNextAgrees == SInv /\ [ListNext]_listVars => SInv'
  <1> SUFFICES ASSUME SInv, [ListNext]_listVars PROVE SInv'
    OBVIOUS
  <1>1. CASE \/ PlayerComes \/ PlayersGo \/ GameStarts \/ GameReopens \/ GameFails
             \/ GameRemoved
    BY <1>1, OthersAgree DEF PlayerComes, PlayersGo, GameStarts, GameReopens, GameFails,
                             GameRemoved, Announce
  <1>2. CASE GameQuiet \/ AdminLogsIn \/ EstablishSession
    BY <1>2, OthersAgree DEF GameQuiet, AdminLogsIn, EstablishSession, watcher
  <1>3. CASE StartOther \/ BeginOther \/ LeaveOther \/ EndOther
    BY <1>3, OthersAgree DEF StartOther, BeginOther, LeaveOther, EndOther, Tell
  <1>4. CASE HandleSubscriptionRequest
    BY <1>4, HandlingAgrees
  <1>5. CASE HandleListMessage \/ HandleStart
    BY <1>5, OthersAgree DEF HandleListMessage, HandleStart, Receive
  <1>6. CASE HandleBegin
    BY <1>6, UnsubscribeAgrees, OthersAgree DEF HandleBegin, Receive
  <1>7. CASE HandleRemoved \/ HandleEnd
    BY <1>7, ResubscribeAgrees, OthersAgree DEF HandleRemoved, HandleEnd, Receive
  <1>8. CASE Synchronized
    BY <1>8, UnsubscribeAgrees DEF Synchronized
  <1>9. CASE NothingLeft \/ UNCHANGED listVars
    BY <1>9, OthersAgree DEF NothingLeft, listVars, watcher
  <1> QED BY <1>1, <1>2, <1>3, <1>4, <1>5, <1>6, <1>7, <1>8, <1>9 DEF ListNext, ClientHandles

\* However start, removal, end and the requests cross, client and server never
\* come to hold different opinions for good.
THEOREM SubscriptionsStayAgreed == ListSpec => []SubscriptionsAgree
  <1>1. ListInit => SInv
    BY DEF ListInit, SInv, SubscriptionType, SubscriptionsAgree
  <1>2. SInv => SubscriptionsAgree
    BY DEF SInv
  <1> QED BY <1>1, <1>2, ListNextAgrees, PTL DEF ListSpec

(***************************************************************************)
(* What handling messages makes of an element.  There is no induction over *)
(* the messages; in its place stands the least of those at which a claim   *)
(* would fail.                                                             *)
(***************************************************************************)

LEMMA SmallestNumber ==
    ASSUME NEW I, I \subseteq Nat, I # {}
    PROVE  \E x \in I : \A y \in I : x <= y
  <1>1. PICK x \in I : \A y \in I : <<y, x>> \notin OpToRel(<, Nat)
    BY NatLessThanWellFounded, WFMin
  <1>2. \A y \in I : x <= y
    <2> SUFFICES ASSUME NEW y \in I, y < x PROVE FALSE
      OBVIOUS
    <2> DEFINE pair == <<y, x>>
    <2>1. pair \in Nat \X Nat /\ pair[1] = y /\ pair[2] = x
      OBVIOUS
    <2> HIDE DEF pair
    <2>2. pair[1] < pair[2]
      BY <2>1
    <2>3. pair \in OpToRel(<, Nat)
      BY <2>1, <2>2, Zenon DEF OpToRel
    <2> QED BY <1>1, <2>3, Zenon DEF pair
  <1> QED BY <1>2

\* f lists what becomes of e, one message after the other.
Handles(f, e, ms, n) ==
    f = [i \in 0..n |-> IF i = 0 THEN e ELSE Update(f[i - 1], ms[i])]

LEMMA HandlingExists ==
    ASSUME NEW e, NEW S, NEW ms \in Seq(S)
    PROVE  \E f : Handles(f, e, ms, Len(ms))
  <1> DEFINE I == {n \in 0..Len(ms) : ~\E f : Handles(f, e, ms, n)}
  <1>0. Len(ms) \in Nat
    OBVIOUS
  <1>1. SUFFICES ASSUME I # {} PROVE FALSE
    BY <1>0
  <1>2. PICK n \in I : \A m \in I : n <= m
    <2>1. I \subseteq Nat
      BY <1>0
    <2> HIDE DEF I
    <2> QED BY <1>1, <2>1, SmallestNumber
  <1>3. n # 0
    <2> DEFINE f == [i \in 0..0 |-> e]
    <2>1. Handles(f, e, ms, 0)
      BY DEF Handles
    <2> HIDE DEF f
    <2> QED BY <2>1
  <1>4. n - 1 \in 0..Len(ms) /\ n - 1 \notin I
    BY <1>0, <1>2, <1>3
  <1>5. PICK f : Handles(f, e, ms, n - 1)
    BY <1>4
  <1> DEFINE g == [i \in 0..n |-> IF i = n THEN Update(f[n - 1], ms[n]) ELSE f[i]]
  <1>6. \A i \in 0..(n - 1) : g[i] = f[i]
    BY <1>0, <1>4
  <1>7. \A i \in 0..n : g[i] = IF i = 0 THEN e ELSE Update(g[i - 1], ms[i])
    <2> SUFFICES ASSUME NEW i \in 0..n
                 PROVE  g[i] = IF i = 0 THEN e ELSE Update(g[i - 1], ms[i])
      OBVIOUS
    <2>1. n \in Nat \ {0}
      BY <1>0, <1>3
    <2>2. CASE i = n
      <3>1. g[n] = Update(f[n - 1], ms[n]) /\ g[n - 1] = f[n - 1]
        BY <2>1, <1>6
      <3> QED BY <3>1, <2>1, <2>2
    <2>3. CASE i # n
      <3>1. i \in 0..(n - 1) /\ g[i] = f[i]
        BY <2>1, <2>3, <1>6
      <3>2. f[i] = IF i = 0 THEN e ELSE Update(f[i - 1], ms[i])
        BY <1>5, <3>1 DEF Handles
      <3>3. i # 0 => g[i - 1] = f[i - 1]
        BY <2>1, <3>1, <1>6
      <3> QED BY <3>1, <3>2, <3>3
    <2> QED BY <2>2, <2>3
  <1>8. Handles(g, e, ms, n)
    <2>1. g = [i \in 0..n |-> g[i]]
      OBVIOUS
    <2> HIDE DEF g
    <2> QED BY <2>1, <1>7 DEF Handles
  <1> QED BY <1>8, <1>2

LEMMA HandlingIsUnique ==
    ASSUME NEW e, NEW ms, NEW n \in Nat, NEW f, NEW g,
           Handles(f, e, ms, n), Handles(g, e, ms, n)
    PROVE  f = g
  <1> DEFINE I == {i \in 0..n : f[i] # g[i]}
  <1>1. CASE I = {}
    <2>1. f = [i \in 0..n |-> f[i]] /\ g = [i \in 0..n |-> g[i]]
      BY DEF Handles
    <2> QED BY <1>1, <2>1
  <1>2. CASE I # {}
    <2>1. PICK i \in I : \A m \in I : i <= m
      <3>1. I \subseteq Nat
        OBVIOUS
      <3> HIDE DEF I
      <3> QED BY <1>2, <3>1, SmallestNumber
    <2>2. i # 0
      BY DEF Handles
    <2>3. i - 1 \in 0..n /\ f[i - 1] = g[i - 1]
      BY <2>1, <2>2
    <2> QED BY <2>1, <2>2, <2>3 DEF Handles
  <1> QED BY <1>1, <1>2

LEMMA AfterIsLast ==
    ASSUME NEW e, NEW S, NEW ms \in Seq(S), NEW f, Handles(f, e, ms, Len(ms))
    PROVE  After(e, ms) = f[Len(ms)]
  <1> DEFINE h == CHOOSE g : Handles(g, e, ms, Len(ms))
  <1>1. Handles(h, e, ms, Len(ms))
    OBVIOUS
  <1>2. h = f
    BY <1>1, HandlingIsUnique
  <1>3. After(e, ms) = h[Len(ms)]
    BY DEF After, Handles
  <1> QED BY <1>2, <1>3

LEMMA AfterNothing == ASSUME NEW e PROVE After(e, << >>) = e
  <1> DEFINE f == [i \in 0..0 |-> e]
  <1>1. Handles(f, e, << >>, 0) /\ f[0] = e
    BY DEF Handles
  <1>2. << >> \in Seq({}) /\ Len(<< >>) = 0
    OBVIOUS
  <1> HIDE DEF f
  <1> QED BY <1>1, <1>2, AfterIsLast

\* The newest message is handled last.
LEMMA AfterOneMore ==
    ASSUME NEW e, NEW S, NEW ms \in Seq(S), NEW m \in S
    PROVE  After(e, Append(ms, m)) = Update(After(e, ms), m)
  <1> DEFINE n == Len(ms)
             more == Append(ms, m)
  <1>0. n \in Nat /\ more \in Seq(S) /\ Len(more) = n + 1
    OBVIOUS
  <1>1. more[n + 1] = m /\ \A i \in 1..n : more[i] = ms[i]
    OBVIOUS
  <1>2. PICK f : Handles(f, e, more, n + 1)
    BY <1>0, HandlingExists
  <1> DEFINE g == [i \in 0..n |-> f[i]]
  <1> HIDE DEF more, n
  <1>3. f[n + 1] = Update(f[n], m)
    BY <1>0, <1>1, <1>2 DEF Handles
  <1>4. Handles(g, e, ms, n)
    <2>1. \A i \in 0..n : g[i] = IF i = 0 THEN e ELSE Update(g[i - 1], ms[i])
      <3> SUFFICES ASSUME NEW i \in 0..n
                   PROVE  g[i] = IF i = 0 THEN e ELSE Update(g[i - 1], ms[i])
        OBVIOUS
      <3>1. f[i] = IF i = 0 THEN e ELSE Update(f[i - 1], more[i])
        BY <1>0, <1>2 DEF Handles
      <3>2. i # 0 => i - 1 \in 0..n /\ more[i] = ms[i]
        BY <1>0, <1>1
      <3> QED BY <3>1, <3>2
    <2>2. g = [i \in 0..n |-> g[i]]
      OBVIOUS
    <2> HIDE DEF g
    <2> QED BY <2>1, <2>2 DEF Handles
  <1>5. After(e, ms) = f[n]
    BY <1>0, <1>4, AfterIsLast DEF n
  <1>6. After(e, more) = f[n + 1]
    BY <1>0, <1>2, AfterIsLast
  <1> QED BY <1>3, <1>5, <1>6 DEF more

\* The oldest message is handled first.
LEMMA AfterFirst ==
    ASSUME NEW e, NEW S, NEW ms \in Seq(S), ms # << >>
    PROVE  After(e, ms) = After(Update(e, Head(ms)), Tail(ms))
  <1> DEFINE n == Len(ms)
             rest == Tail(ms)
  <1>0. n \in Nat \ {0} /\ rest \in Seq(S) /\ Len(rest) = n - 1
    OBVIOUS
  <1>1. Head(ms) = ms[1] /\ \A i \in 1..(n - 1) : rest[i] = ms[i + 1]
    OBVIOUS
  <1>2. PICK f : Handles(f, e, ms, n)
    BY <1>0, HandlingExists
  <1> DEFINE g == [i \in 0..(n - 1) |-> f[i + 1]]
  <1> HIDE DEF rest, n
  <1>3. f[0] = e /\ f[1] = Update(f[0], ms[1])
    BY <1>0, <1>2 DEF Handles
  <1>4. Handles(g, f[1], rest, n - 1)
    <2>1. \A i \in 0..(n - 1) : g[i] = IF i = 0 THEN f[1] ELSE Update(g[i - 1], rest[i])
      <3> SUFFICES ASSUME NEW i \in 0..(n - 1)
                   PROVE  g[i] = IF i = 0 THEN f[1] ELSE Update(g[i - 1], rest[i])
        OBVIOUS
      <3>1. i + 1 \in 1..n /\ (i + 1) - 1 = i
        BY <1>0
      <3>2. f[i + 1] = Update(f[i], ms[i + 1])
        BY <1>0, <1>2, <3>1 DEF Handles
      <3>3. i # 0 => i - 1 \in 0..(n - 1) /\ (i - 1) + 1 = i /\ rest[i] = ms[i + 1]
        BY <1>0, <1>1
      <3> QED BY <3>2, <3>3
    <2>2. g = [i \in 0..(n - 1) |-> g[i]]
      OBVIOUS
    <2> HIDE DEF g
    <2> QED BY <2>1, <2>2 DEF Handles
  <1>5. After(f[1], rest) = g[n - 1]
    BY <1>0, <1>4, AfterIsLast
  <1>6. g[n - 1] = f[n]
    BY <1>0
  <1>7. After(e, ms) = f[n]
    BY <1>0, <1>2, AfterIsLast DEF n
  <1> QED BY <1>1, <1>3, <1>5, <1>6, <1>7 DEF rest

\* Messages that make nothing of nothing.
Quiet(ms) == \A i \in 1..Len(ms) : ms[i].type \notin ListMessages

LEMMA AfterQuiet ==
    ASSUME NEW ms \in Seq(Messages), Quiet(ms)
    PROVE  After(NoEntry, ms) = NoEntry
  <1> DEFINE n == Len(ms)
  <1>0. n \in Nat
    OBVIOUS
  <1>1. PICK f : Handles(f, NoEntry, ms, n)
    BY HandlingExists
  <1> DEFINE I == {i \in 0..n : f[i] # NoEntry}
  <1>2. I = {}
    <2> SUFFICES ASSUME I # {} PROVE FALSE
      OBVIOUS
    <2>1. PICK i \in I : \A m \in I : i <= m
      <3>1. I \subseteq Nat
        OBVIOUS
      <3> HIDE DEF I
      <3> QED BY <3>1, SmallestNumber
    <2>2. i # 0
      BY <1>1 DEF Handles
    <2>3. i - 1 \in 0..n /\ f[i - 1] = NoEntry /\ i \in 1..n
      BY <1>0, <2>1, <2>2
    <2>4. f[i] = Update(NoEntry, ms[i])
      BY <1>1, <2>2, <2>3 DEF Handles
    <2>5. Update(NoEntry, ms[i]) = NoEntry
      BY <2>3 DEF Quiet, Update, ListMessages
    <2> QED BY <2>1, <2>4, <2>5
  <1>3. f[n] = NoEntry
    BY <1>0, <1>2
  <1> QED BY <1>1, <1>3, AfterIsLast

\* More messages are handled after those that were there.
LEMMA AfterMore ==
    ASSUME NEW e, NEW S, NEW ms \in Seq(S), NEW new \in Seq(S)
    PROVE  After(e, ms \o new) = After(After(e, ms), new)
  <1> DEFINE n == Len(ms)
             k == Len(new)
             all == ms \o new
  <1>0. /\ n \in Nat /\ k \in Nat /\ all \in Seq(S) /\ Len(all) = n + k
        /\ \A i \in 1..n : all[i] = ms[i]
        /\ \A i \in 1..k : all[n + i] = new[i]
    <2>1. all \in Seq(S) /\ Len(all) = n + k
      BY ConcatProperties
    <2> QED BY <2>1, LenProperties, ConcatProperties
  <1>1. PICK f : Handles(f, e, all, n + k)
    BY <1>0, HandlingExists
  <1> DEFINE g == [i \in 0..n |-> f[i]]
             h == [i \in 0..k |-> f[n + i]]
  <1> HIDE DEF n, k, all
  <1>2. \A i \in 0..(n + k) : f[i] = IF i = 0 THEN e ELSE Update(f[i - 1], all[i])
    BY <1>1 DEF Handles
  <1>3. Handles(g, e, ms, n)
    <2>1. \A i \in 0..n : g[i] = IF i = 0 THEN e ELSE Update(g[i - 1], ms[i])
      <3> SUFFICES ASSUME NEW i \in 0..n
                   PROVE  g[i] = IF i = 0 THEN e ELSE Update(g[i - 1], ms[i])
        OBVIOUS
      <3>1. f[i] = IF i = 0 THEN e ELSE Update(f[i - 1], all[i])
        BY <1>0, <1>2
      <3>2. i # 0 => i - 1 \in 0..n /\ all[i] = ms[i]
        BY <1>0
      <3> QED BY <3>1, <3>2
    <2>2. g = [i \in 0..n |-> g[i]]
      OBVIOUS
    <2> HIDE DEF g
    <2> QED BY <2>1, <2>2 DEF Handles
  <1>4. Handles(h, f[n], new, k)
    <2>1. \A i \in 0..k : h[i] = IF i = 0 THEN f[n] ELSE Update(h[i - 1], new[i])
      <3> SUFFICES ASSUME NEW i \in 0..k
                   PROVE  h[i] = IF i = 0 THEN f[n] ELSE Update(h[i - 1], new[i])
        OBVIOUS
      <3>1. CASE i = 0
        BY <1>0, <3>1
      <3>2. CASE i # 0
        <4>1. /\ n + i \in 0..(n + k) /\ n + i # 0 /\ (n + i) - 1 = n + (i - 1)
              /\ i - 1 \in 0..k /\ all[n + i] = new[i]
          BY <1>0, <3>2
        <4>2. f[n + i] = Update(f[n + (i - 1)], new[i])
          BY <1>2, <4>1
        <4> QED BY <3>2, <4>1, <4>2
      <3> QED BY <3>1, <3>2
    <2>2. h = [i \in 0..k |-> h[i]]
      OBVIOUS
    <2> HIDE DEF h
    <2> QED BY <2>1, <2>2 DEF Handles
  <1>5. After(e, ms) = f[n]
    <2>1. Handles(g, e, ms, Len(ms))
      BY <1>3 DEF n
    <2>2. After(e, ms) = g[Len(ms)]
      BY <2>1, AfterIsLast
    <2> QED BY <1>0, <2>2 DEF n
  <1>6. After(f[n], new) = f[n + k]
    BY <1>0, <1>4, AfterIsLast DEF k
  <1>7. After(e, all) = f[n + k]
    BY <1>0, <1>1, AfterIsLast
  <1> QED BY <1>5, <1>6, <1>7 DEF all

LEMMA AfterOne == ASSUME NEW e, NEW m PROVE After(e, <<m>>) = Update(e, m)
  <1>1. <<m>> \in Seq({m}) /\ <<m>> # << >> /\ Head(<<m>>) = m /\ Tail(<<m>>) = << >>
    OBVIOUS
  <1> QED BY <1>1, AfterFirst, AfterNothing

Element == Entries \cup {NoEntry}

LEMMA MessageFields ==
    ASSUME NEW m \in Messages
    PROVE  /\ m.type = "New" => /\ m.admin \in Players \cup {NoPlayer}
                                /\ m.people \subseteq Players /\ m.bots \in Nat
                                /\ m.mode \in {"created", "started"}
           /\ m.type \in {"Joined", "Left"} => m.people \subseteq Players /\ m.bots \in Nat
           /\ m.type = "Admin" => m.admin \in Players \cup {NoPlayer}
           /\ m.type = "Mode" => m.mode \in {"created", "started", "closed"}
           /\ m.type \in ListMessages \/ m.type \in OwnMessages
  BY DEF Messages, ListMessages, OwnMessages

Has(e, admin, people, bots, mode) ==
    /\ e \in Entries
    /\ e.admin = admin /\ e.people = people /\ e.bots = bots /\ e.mode = mode

LEMMA SameElement ==
    ASSUME NEW d, NEW e, NEW a, NEW q, NEW b, NEW o, Has(d, a, q, b, o), Has(e, a, q, b, o)
    PROVE  d = e
  BY DEF Has, Entries

LEMMA NothingUpdated ==
    ASSUME NEW m \in Messages
    PROVE  IF m.type = "New" THEN Has(Update(NoEntry, m), m.admin, m.people, m.bots, m.mode)
                             ELSE Update(NoEntry, m) = NoEntry
  <1>1. CASE m.type = "New"
    <2>1. Update(NoEntry, m) = [admin |-> m.admin, people |-> m.people, bots |-> m.bots,
                                mode |-> m.mode]
      BY <1>1 DEF Update
    <2> HIDE DEF Update
    <2> QED BY <1>1, <2>1, MessageFields DEF Has, Entries
  <1>2. CASE m.type # "New"
    BY <1>2 DEF Update
  <1> QED BY <1>1, <1>2

LEMMA ElementUpdated ==
    ASSUME NEW e \in Entries, NEW m \in Messages
    PROVE  /\ m.type = "Joined" =>
                 Has(Update(e, m), e.admin, e.people \cup m.people, e.bots + m.bots, e.mode)
           /\ m.type = "Left" =>
                 Has(Update(e, m), e.admin, e.people \ m.people,
                     IF e.bots > m.bots THEN e.bots - m.bots ELSE 0, e.mode)
           /\ m.type = "Admin" => Has(Update(e, m), m.admin, e.people, e.bots, e.mode)
           /\ m.type = "Mode" /\ m.mode # "closed" =>
                 Has(Update(e, m), e.admin, e.people, e.bots, m.mode)
           /\ m.type = "Mode" /\ m.mode = "closed" => Update(e, m) = NoEntry
           /\ m.type \notin {"Joined", "Left", "Admin", "Mode"} => Update(e, m) = e
  <1>0. e # NoEntry
    BY ListAssumption
  <1>1. ASSUME m.type = "Joined"
        PROVE  Has(Update(e, m), e.admin, e.people \cup m.people, e.bots + m.bots, e.mode)
    <2>1. Update(e, m) = [e EXCEPT !.people = @ \cup m.people, !.bots = @ + m.bots]
      BY <1>0, <1>1 DEF Update
    <2>2. m.people \subseteq Players /\ e.bots + m.bots \in Nat
      BY <1>1, MessageFields DEF Entries
    <2> QED BY <2>1, <2>2 DEF Has, Entries
  <1>2. ASSUME m.type = "Left"
        PROVE  Has(Update(e, m), e.admin, e.people \ m.people,
                   IF e.bots > m.bots THEN e.bots - m.bots ELSE 0, e.mode)
    <2>1. Update(e, m) = [e EXCEPT !.people = @ \ m.people,
                                   !.bots = IF @ > m.bots THEN @ - m.bots ELSE 0]
      BY <1>0, <1>2 DEF Update
    <2>2. (IF e.bots > m.bots THEN e.bots - m.bots ELSE 0) \in Nat
      BY <1>2, MessageFields DEF Entries
    <2> QED BY <2>1, <2>2 DEF Has, Entries
  <1>3. ASSUME m.type = "Admin"
        PROVE  Has(Update(e, m), m.admin, e.people, e.bots, e.mode)
    <2>1. Update(e, m) = [e EXCEPT !.admin = m.admin]
      BY <1>0, <1>3 DEF Update
    <2> QED BY <1>3, <2>1, MessageFields DEF Has, Entries
  <1>4. ASSUME m.type = "Mode", m.mode # "closed"
        PROVE  Has(Update(e, m), e.admin, e.people, e.bots, m.mode)
    <2>1. Update(e, m) = [e EXCEPT !.mode = m.mode]
      BY <1>0, <1>4 DEF Update
    <2>2. m.mode \in {"created", "started"}
      BY <1>4, MessageFields
    <2> QED BY <2>1, <2>2 DEF Has, Entries
  <1>5. m.type = "Mode" /\ m.mode = "closed" => Update(e, m) = NoEntry
    BY <1>0 DEF Update
  <1>6. m.type \notin {"Joined", "Left", "Admin", "Mode"} => Update(e, m) = e
    BY <1>0 DEF Update
  <1> QED BY <1>1, <1>2, <1>3, <1>4, <1>5, <1>6

LEMMA UpdateType ==
    ASSUME NEW e \in Element, NEW m \in Messages
    PROVE  Update(e, m) \in Element
  <1>1. CASE e = NoEntry
    BY <1>1, NothingUpdated DEF Has, Element
  <1>2. CASE e # NoEntry
    <2>1. e \in Entries
      BY <1>2 DEF Element
    <2> QED BY <2>1, ElementUpdated DEF Has, Element
  <1> QED BY <1>1, <1>2

LEMMA HandlingType ==
    ASSUME NEW e \in Element, NEW ms \in Seq(Messages), NEW f,
           Handles(f, e, ms, Len(ms))
    PROVE  \A i \in 0..Len(ms) : f[i] \in Element
  <1> DEFINE n == Len(ms)
             I == {i \in 0..n : f[i] \notin Element}
  <1>0. n \in Nat /\ \A i \in 1..n : ms[i] \in Messages
    BY LenProperties, ElementOfSeq
  <1>1. SUFFICES ASSUME I # {} PROVE FALSE
    OBVIOUS
  <1>2. PICK i \in I : \A m \in I : i <= m
    <2>1. I \subseteq Nat
      OBVIOUS
    <2> HIDE DEF I
    <2> QED BY <1>1, <2>1, SmallestNumber
  <1>3. i # 0
    BY DEF Handles
  <1>4. i - 1 \in 0..n /\ f[i - 1] \in Element /\ ms[i] \in Messages
    BY <1>0, <1>2, <1>3
  <1>5. f[i] = Update(f[i - 1], ms[i])
    BY <1>3 DEF Handles
  <1> QED BY <1>2, <1>4, <1>5, UpdateType

LEMMA AfterType ==
    ASSUME NEW e \in Element, NEW ms \in Seq(Messages)
    PROVE  After(e, ms) \in Element
  <1>1. PICK f : Handles(f, e, ms, Len(ms))
    BY HandlingExists
  <1>2. Len(ms) \in 0..Len(ms)
    BY LenProperties
  <1> QED BY <1>1, <1>2, AfterIsLast, HandlingType

(***************************************************************************)
(* The admin who is away logs in: what was said of him, and what is listed *)
(* once all is handled, changes alike.                                     *)
(***************************************************************************)

Forgotten(p, e) == IF e = NoEntry THEN NoEntry ELSE Unknown(p, e)
Rewritten(p, m) == IF m.type \in {"New", "Admin"} THEN Unknown(p, m) ELSE m

LEMMA UnknownElement ==
    ASSUME NEW p, NEW e \in Entries
    PROVE  Has(Unknown(p, e), IF e.admin = p THEN NoPlayer ELSE e.admin, e.people, e.bots, e.mode)
  BY DEF Unknown, Has, Entries

LEMMA MessageRewritten ==
    ASSUME NEW p, NEW m \in Messages
    PROVE  LET r == Rewritten(p, m)
           IN /\ r \in Messages /\ r.type = m.type
              /\ m.type \notin {"New", "Admin"} => r = m
              /\ m.type \in {"New", "Admin"} =>
                    r.admin = IF m.admin = p THEN NoPlayer ELSE m.admin
              /\ m.type = "New" =>
                    r.people = m.people /\ r.bots = m.bots /\ r.mode = m.mode
  <1>1. CASE m.type = "New"
    <2>1. Rewritten(p, m) = [m EXCEPT !.admin = IF m.admin = p THEN NoPlayer ELSE m.admin]
      BY <1>1 DEF Rewritten, Unknown, Messages, OwnMessages
    <2> QED BY <1>1, <2>1 DEF Messages, OwnMessages
  <1>2. CASE m.type = "Admin"
    <2>1. Rewritten(p, m) = [m EXCEPT !.admin = IF m.admin = p THEN NoPlayer ELSE m.admin]
      BY <1>2 DEF Rewritten, Unknown, Messages, OwnMessages
    <2> QED BY <1>2, <2>1 DEF Messages, OwnMessages
  <1>3. CASE m.type \notin {"New", "Admin"}
    BY <1>3 DEF Rewritten
  <1> QED BY <1>1, <1>2, <1>3

LEMMA UpdateForgets ==
    ASSUME NEW p, NEW e \in Element, NEW m \in Messages
    PROVE  Update(Forgotten(p, e), Rewritten(p, m)) = Forgotten(p, Update(e, m))
  <1> DEFINE x == Forgotten(p, e)
             r == Rewritten(p, m)
             u == Update(e, m)
             v == Update(x, r)
  <1>0. NoEntry \notin Entries
    BY ListAssumption
  <1>1. /\ r \in Messages /\ r.type = m.type
        /\ m.type \notin {"New", "Admin"} => r = m
        /\ m.type \in {"New", "Admin"} =>
              r.admin = IF m.admin = p THEN NoPlayer ELSE m.admin
        /\ m.type = "New" => r.people = m.people /\ r.bots = m.bots /\ r.mode = m.mode
    BY MessageRewritten
  <1>2. CASE e = NoEntry
    <2>1. x = NoEntry
      BY <1>2 DEF Forgotten
    <2>2. CASE m.type = "New"
      <3>1. Has(u, m.admin, m.people, m.bots, m.mode)
        BY <1>2, <2>2, NothingUpdated
      <3>2. Has(v, r.admin, r.people, r.bots, r.mode)
        BY <1>1, <2>1, <2>2, NothingUpdated
      <3>3. Has(Unknown(p, u), r.admin, r.people, r.bots, r.mode)
        BY <1>1, <2>2, <3>1, UnknownElement DEF Has
      <3>4. Forgotten(p, u) = Unknown(p, u)
        BY <1>0, <3>1 DEF Forgotten, Has
      <3> QED BY <3>2, <3>3, <3>4, SameElement
    <2>3. CASE m.type # "New"
      BY <1>1, <1>2, <2>1, <2>3, NothingUpdated DEF Forgotten
    <2> QED BY <2>2, <2>3
  <1>3. CASE e # NoEntry
    <2> DEFINE admin == IF e.admin = p THEN NoPlayer ELSE e.admin
    <2>1. e \in Entries /\ x = Unknown(p, e)
      BY <1>3 DEF Element, Forgotten
    <2>2. Has(x, admin, e.people, e.bots, e.mode)
      BY <2>1, UnknownElement
    <2>3. x \in Entries
      BY <2>2 DEF Has
    <2>4. u \in Entries => Forgotten(p, u) = Unknown(p, u)
      BY <1>0 DEF Forgotten
    <2>5. CASE m.type = "Joined"
      <3>1. Has(u, e.admin, e.people \cup m.people, e.bots + m.bots, e.mode)
        BY <2>1, <2>5, ElementUpdated
      <3>2. Has(v, admin, e.people \cup m.people, e.bots + m.bots, e.mode)
        BY <1>1, <2>2, <2>3, <2>5, ElementUpdated DEF Has
      <3>3. Has(Unknown(p, u), admin, e.people \cup m.people, e.bots + m.bots, e.mode)
        BY <3>1, UnknownElement DEF Has
      <3> QED BY <2>4, <3>1, <3>2, <3>3, SameElement DEF Has
    <2>6. CASE m.type = "Left"
      <3> DEFINE left == IF e.bots > m.bots THEN e.bots - m.bots ELSE 0
      <3>1. Has(u, e.admin, e.people \ m.people, left, e.mode)
        BY <2>1, <2>6, ElementUpdated
      <3>2. Has(v, admin, e.people \ m.people, left, e.mode)
        BY <1>1, <2>2, <2>3, <2>6, ElementUpdated DEF Has
      <3>3. Has(Unknown(p, u), admin, e.people \ m.people, left, e.mode)
        BY <3>1, UnknownElement DEF Has
      <3> QED BY <2>4, <3>1, <3>2, <3>3, SameElement DEF Has
    <2>7. CASE m.type = "Admin"
      <3>1. Has(u, m.admin, e.people, e.bots, e.mode)
        BY <2>1, <2>7, ElementUpdated
      <3>2. Has(v, r.admin, e.people, e.bots, e.mode)
        BY <1>1, <2>2, <2>3, <2>7, ElementUpdated DEF Has
      <3>3. Has(Unknown(p, u), r.admin, e.people, e.bots, e.mode)
        BY <1>1, <2>7, <3>1, UnknownElement DEF Has
      <3> QED BY <2>4, <3>1, <3>2, <3>3, SameElement DEF Has
    <2>8. CASE m.type = "Mode" /\ m.mode # "closed"
      <3>1. Has(u, e.admin, e.people, e.bots, m.mode)
        BY <2>1, <2>8, ElementUpdated
      <3>2. Has(v, admin, e.people, e.bots, m.mode)
        BY <1>1, <2>2, <2>3, <2>8, ElementUpdated DEF Has
      <3>3. Has(Unknown(p, u), admin, e.people, e.bots, m.mode)
        BY <3>1, UnknownElement DEF Has
      <3> QED BY <2>4, <3>1, <3>2, <3>3, SameElement DEF Has
    <2>9. CASE m.type = "Mode" /\ m.mode = "closed"
      <3>1. u = NoEntry /\ v = NoEntry
        BY <1>1, <2>1, <2>3, <2>9, ElementUpdated
      <3> QED BY <3>1 DEF Forgotten
    <2>10. CASE m.type \notin {"Joined", "Left", "Admin", "Mode"}
      <3>1. u = e /\ v = x
        BY <1>1, <2>1, <2>3, <2>10, ElementUpdated
      <3> QED BY <3>1
    <2> QED BY <2>5, <2>6, <2>7, <2>8, <2>9, <2>10
  <1> QED BY <1>2, <1>3

LEMMA AfterForgets ==
    ASSUME NEW p, NEW e \in Element, NEW ms \in Seq(Messages)
    PROVE  LET all == [i \in DOMAIN ms |-> Rewritten(p, ms[i])]
           IN /\ all \in Seq(Messages) /\ Len(all) = Len(ms)
              /\ After(Forgotten(p, e), all) = Forgotten(p, After(e, ms))
  <1> DEFINE n == Len(ms)
             all == [i \in DOMAIN ms |-> Rewritten(p, ms[i])]
  <1>0. n \in Nat /\ DOMAIN ms = 1..n /\ \A i \in 1..n : ms[i] \in Messages
    BY LenProperties, ElementOfSeq
  <1>1. all \in [1..n -> Messages]
    BY <1>0, MessageRewritten
  <1>2. all \in Seq(Messages) /\ Len(all) = n
    <2> HIDE DEF all
    <2>1. all \in Seq(Messages)
      BY <1>0, <1>1, IsASeq
    <2> QED BY <1>0, <1>1, <2>1, LenProperties
  <1>3. PICK f : Handles(f, e, ms, n)
    BY HandlingExists
  <1>4. \A i \in 0..n : f[i] \in Element
    BY <1>3, HandlingType
  <1> DEFINE g == [i \in 0..n |-> Forgotten(p, f[i])]
  <1>5. Handles(g, Forgotten(p, e), all, n)
    <2>1. \A i \in 0..n :
             g[i] = IF i = 0 THEN Forgotten(p, e) ELSE Update(g[i - 1], all[i])
      <3> SUFFICES ASSUME NEW i \in 0..n
                   PROVE  g[i] = IF i = 0 THEN Forgotten(p, e) ELSE Update(g[i - 1], all[i])
        OBVIOUS
      <3>1. f[i] = IF i = 0 THEN e ELSE Update(f[i - 1], ms[i])
        BY <1>3 DEF Handles
      <3>2. CASE i = 0
        BY <3>1, <3>2
      <3>3. CASE i # 0
        <4>1. i - 1 \in 0..n /\ i \in 1..n /\ f[i - 1] \in Element /\ ms[i] \in Messages
          BY <1>0, <1>4, <3>3
        <4>2. /\ g[i] = Forgotten(p, f[i]) /\ g[i - 1] = Forgotten(p, f[i - 1])
              /\ all[i] = Rewritten(p, ms[i])
          BY <1>0, <4>1
        <4> QED BY <3>1, <3>3, <4>1, <4>2, UpdateForgets
      <3> QED BY <3>2, <3>3
    <2>2. g = [i \in 0..n |-> g[i]]
      OBVIOUS
    <2> HIDE DEF g, all
    <2> QED BY <2>1, <2>2 DEF Handles
  <1>6. g[n] = Forgotten(p, f[n])
    BY <1>0
  <1>7. After(e, ms) = f[n]
    BY <1>3, AfterIsLast
  <1>8. After(Forgotten(p, e), all) = g[n]
    <2> HIDE DEF g, all
    <2> QED BY <1>2, <1>5, AfterIsLast
  <1> QED BY <1>2, <1>6, <1>7, <1>8

(***************************************************************************)
(* ListIsCurrent is not inductive: whether what is under way adds up again *)
(* when the server takes the request to subscribe depends on nothing being *)
(* under way then that the old list was told.                              *)
(***************************************************************************)

\* The element e shows a game that is or is not on the list (there), with its
\* people, computer players, admin and state.
Shows(e, there, people, bots, admin, st) ==
    /\ e # NoEntry <=> there
    /\ there => /\ e.people = people /\ e.bots = bots /\ e.admin = admin
                /\ e.mode = "started" => st # "Init"

Current(e) == Shows(e, listed, inGame, computers, adminId, state)

\* The game as far as the lists show it.
GameSound ==
    /\ listed \in BOOLEAN /\ game \in BOOLEAN
    /\ state \in {"Init", "StartGame", "Running", "Final"}
    /\ inGame \in SUBSET Players /\ computers \in 0..MaxPlayers
    /\ adminId \in Players \cup {NoPlayer}
    /\ game => state \in {"Running", "Final"}

WatcherType ==
    /\ online \in BOOLEAN
    /\ other \in {"none", "starting", "playing"} /\ games \in 0..MaxGames
    /\ toClient \in Seq(Messages)
    /\ clientState \in {"Lobby", "Synchronize", "Playing"}
    /\ raced \in BOOLEAN
    /\ entry \in Element

\* Before the watcher's login nothing was said and asked for.
NotYetOnline ==
    ~online => /\ toClient = << >> /\ toServer = << >> /\ entry = NoEntry
               /\ wants /\ ~raced /\ clientState = "Lobby"

\* A request to subscribe again that raced with nothing is the only one, and
\* nothing is listed nor under way that it could disagree with.
Cleared ==
    subscribed /\ ~raced /\ toServer # << >> =>
        toServer = <<"resubscribe">> /\ ~wants /\ entry = NoEntry /\ Quiet(toClient)

Subscribed == online /\ wants /\ subscribed /\ toServer = << >> /\ ~raced
ComingIsCurrent == Subscribed => Current(Coming)

LInv ==
    GameSound /\ WatcherType /\ SInv /\ NotYetOnline /\ Cleared /\ ComingIsCurrent

LEMMA ComingType == WatcherType => Coming \in Element
  BY AfterType DEF WatcherType, Coming

(***************************************************************************)
(* The listed game                                                         *)
(***************************************************************************)

Grows == inGame \subseteq inGame' /\ computers' >= computers /\ UNCHANGED adminId
Shrinks == inGame' \subseteq inGame /\ computers' <= computers

\* The steps of the game that are announced change it soundly.
LEMMA GoShrinks ==
    ASSUME GameSound, NEW gone, Go(gone)
    PROVE  /\ inGame' \subseteq inGame /\ inGame' \in SUBSET Players
           /\ adminId' \in Players \cup {NoPlayer}
  BY DEF GameSound, Go

LEMMA GameStaysSound == GameSound /\ [ListNext]_listVars => GameSound'
  <1> SUFFICES ASSUME GameSound, [ListNext]_listVars PROVE GameSound'
    OBVIOUS
  <1>0. 0 \in 0..MaxPlayers
    BY ListAssumption
  <1>1. CASE PlayerComes
    BY <1>1 DEF PlayerComes, Arrive, GameSound
  <1>2. CASE PlayersGo
    <2>1. PICK gone \in SUBSET inGame : Depart(gone)
      BY <1>2 DEF PlayersGo
    <2> QED BY <2>1, GoShrinks DEF Depart, GameSound
  <1>3. CASE GameStarts
    <2>1. computers \in 0..MaxPlayers /\ computers' \in computers..MaxPlayers
      BY <1>3 DEF GameStarts, Start, GameSound
    <2>2. computers' \in 0..MaxPlayers
      BY <2>1, ListAssumption
    <2> QED BY <1>3, <2>2 DEF GameStarts, Start, GameSound
  <1>4. CASE GameReopens
    <2>1. PICK gone : Go(gone)
      BY <1>4 DEF GameReopens, Reopen
    <2> QED BY <1>0, <1>4, <2>1, GoShrinks DEF GameReopens, Reopen, GameSound
  <1>5. CASE GameFails
    BY <1>5, GoShrinks DEF GameFails, Fail, GameSound
  <1>6. CASE GameRemoved
    <2>1. state' = "Final" /\ computers' = 0 /\ listed' = FALSE /\ game' = game /\ Go(inGame)
      BY <1>6 DEF GameRemoved, RemoveGame
    <2>2. game' \in BOOLEAN /\ (game' => state' \in {"Running", "Final"})
      BY <2>1 DEF GameSound
    <2> QED BY <1>0, <2>1, <2>2, GoShrinks DEF GameSound
  <1>7. CASE GameQuiet
    <2>1. CASE Begin
      BY <2>1 DEF Begin, GameSound
    <2>2. CASE Finish
      BY <2>2 DEF Finish, GameSound
    <2> QED BY <1>7, <2>1, <2>2 DEF GameQuiet
  <1>8. CASE AdminLogsIn
    BY <1>8 DEF AdminLogsIn, ForgetAdmin, GameSound
  <1>9. CASE \/ EstablishSession \/ StartOther \/ BeginOther \/ LeaveOther \/ EndOther
             \/ HandleSubscriptionRequest \/ ClientHandles \/ Synchronized
             \/ NothingLeft \/ UNCHANGED listVars
    <2>1. UNCHANGED viewVars
      BY <1>9 DEF EstablishSession, StartOther, BeginOther, LeaveOther, EndOther, Tell,
          HandleSubscriptionRequest, ClientHandles, HandleListMessage, HandleStart, HandleBegin,
          HandleRemoved, HandleEnd, Receive, Synchronized, NothingLeft, listVars
    <2> QED BY <2>1 DEF viewVars, GameSound
  <1> QED BY <1>1, <1>2, <1>3, <1>4, <1>5, <1>6, <1>7, <1>8, <1>9 DEF ListNext

LEMMA PeopleMessages ==
    ASSUME NEW who \in SUBSET Players, NEW n \in Nat
    PROVE  /\ Joined(who, n) \in Messages /\ Joined(who, n).type = "Joined"
           /\ Joined(who, n).people = who /\ Joined(who, n).bots = n
           /\ Left(who, n) \in Messages /\ Left(who, n).type = "Left"
           /\ Left(who, n).people = who /\ Left(who, n).bots = n
  BY DEF Joined, Left, Messages

LEMMA OtherMessages ==
    /\ \A p \in Players \cup {NoPlayer} :
          /\ AdminChanged(p) \in Messages /\ AdminChanged(p).type = "Admin"
          /\ AdminChanged(p).admin = p
    /\ \A mode \in {"created", "started", "closed"} :
          /\ Mode(mode) \in Messages /\ Mode(mode).type = "Mode" /\ Mode(mode).mode = mode
  BY DEF AdminChanged, Mode, Messages

LEMMA Counted ==
    ASSUME NEW n \in Nat, NEW k \in Nat
    PROVE  /\ k >= n => k - n \in Nat /\ n + (k - n) = k
           /\ k <= n => /\ n - k \in Nat
                        /\ (IF n > n - k THEN n - (n - k) ELSE 0) = k
  OBVIOUS

LEMMA CountsAreNumbers ==
    (GameSound => computers \in Nat) /\ (GameSound' => computers' \in Nat)
  BY ListAssumption DEF GameSound

\* What is announced, and what it makes of an element that was right.
LEMMA ArrivalsHandled ==
    ASSUME GameSound, GameSound', Grows, NEW e \in Element
    PROVE  /\ Arrivals \in Seq(Messages)
           /\ e = NoEntry => After(e, Arrivals) = NoEntry
           /\ e \in Entries /\ e.people = inGame /\ e.bots = computers =>
                 Has(After(e, Arrivals), e.admin, inGame', computers', e.mode)
  <1>0. computers \in Nat /\ computers' \in Nat /\ computers' >= computers
    BY CountsAreNumbers DEF Grows
  <1>1. CASE inGame' # inGame \/ computers' # computers
    <2> DEFINE new == inGame' \ inGame
               n == computers' - computers
               m == Joined(new, n)
    <2>1. new \in SUBSET Players /\ inGame \cup new = inGame'
      BY DEF GameSound, Grows
    <2>2. n \in Nat /\ computers + n = computers'
      BY <1>0, Counted
    <2>3. Arrivals = <<m>>
      BY <1>1 DEF Arrivals
    <2> HIDE DEF new, n
    <2>4. m \in Messages /\ m.type = "Joined" /\ m.people = new /\ m.bots = n
      BY <2>1, <2>2, PeopleMessages
    <2> HIDE DEF m
    <2>5. After(e, Arrivals) = Update(e, m)
      BY <2>3, AfterOne
    <2>6. Arrivals \in Seq(Messages)
      BY <2>3, <2>4
    <2>7. e = NoEntry => Update(e, m) = NoEntry
      BY <2>4, NothingUpdated
    <2>8. e \in Entries =>
            Has(Update(e, m), e.admin, e.people \cup new, e.bots + n, e.mode)
      BY <2>4, ElementUpdated
    <2> QED BY <2>1, <2>2, <2>5, <2>6, <2>7, <2>8
  <1>2. CASE ~(inGame' # inGame \/ computers' # computers)
    <2>1. Arrivals = << >>
      BY <1>2 DEF Arrivals
    <2> QED BY <1>2, <2>1, AfterNothing DEF Has
  <1> QED BY <1>1, <1>2

LEMMA DeparturesHandled ==
    ASSUME GameSound, GameSound', Shrinks, NEW e \in Element
    PROVE  /\ Departures \in Seq(Messages)
           /\ e = NoEntry => After(e, Departures) = NoEntry
           /\ /\ e \in Entries /\ e.people = inGame /\ e.bots = computers
              /\ e.admin = adminId
              => Has(After(e, Departures), adminId', inGame', computers', e.mode)
  <1> DEFINE news == IF adminId' # adminId THEN << AdminChanged(adminId') >> ELSE << >>
             goes == IF inGame' # inGame \/ computers' # computers
                     THEN << Left(inGame \ inGame', computers - computers') >> ELSE << >>
             d == After(e, news)
  <1>0. computers \in Nat /\ computers' \in Nat /\ computers' <= computers
    BY CountsAreNumbers DEF Shrinks
  <1>1. /\ news \in Seq(Messages) /\ d \in Element
        /\ e = NoEntry => d = NoEntry
        /\ e \in Entries /\ e.admin = adminId => Has(d, adminId', e.people, e.bots, e.mode)
    <2>1. CASE adminId' # adminId
      <3> DEFINE m == AdminChanged(adminId')
      <3>1. m \in Messages /\ m.type = "Admin" /\ m.admin = adminId'
        BY OtherMessages DEF GameSound
      <3>2. news = <<m>>
        BY <2>1
      <3> HIDE DEF m, news
      <3>3. d = Update(e, m)
        BY <3>2, AfterOne
      <3>4. news \in Seq(Messages)
        BY <3>1, <3>2
      <3> QED BY <3>1, <3>3, <3>4, UpdateType, NothingUpdated, ElementUpdated
    <2>2. CASE adminId' = adminId
      <3>1. news = << >>
        BY <2>2
      <3> QED BY <2>2, <3>1, AfterNothing DEF Has
    <2> QED BY <2>1, <2>2
  <1>2. /\ goes \in Seq(Messages)
        /\ d = NoEntry => After(d, goes) = NoEntry
        /\ d \in Entries /\ d.people = inGame /\ d.bots = computers =>
              Has(After(d, goes), d.admin, inGame', computers', d.mode)
    <2> HIDE DEF d
    <2>1. CASE inGame' # inGame \/ computers' # computers
      <3> DEFINE gone == inGame \ inGame'
                 n == computers - computers'
                 m == Left(gone, n)
      <3>1. gone \in SUBSET Players /\ inGame \ gone = inGame'
        BY DEF GameSound, Shrinks
      <3>2. n \in Nat /\ (IF computers > n THEN computers - n ELSE 0) = computers'
        BY <1>0, Counted
      <3>3. goes = <<m>>
        BY <2>1
      <3> HIDE DEF gone, n
      <3>4. m \in Messages /\ m.type = "Left" /\ m.people = gone /\ m.bots = n
        BY <3>1, <3>2, PeopleMessages
      <3> HIDE DEF m, goes
      <3>5. After(d, goes) = Update(d, m)
        BY <3>3, AfterOne
      <3>6. goes \in Seq(Messages)
        BY <3>3, <3>4
      <3>7. d = NoEntry => Update(d, m) = NoEntry
        BY <3>4, NothingUpdated
      <3>8. d \in Entries =>
              Has(Update(d, m), d.admin, d.people \ gone,
                  IF d.bots > n THEN d.bots - n ELSE 0, d.mode)
        BY <3>4, ElementUpdated
      <3> QED BY <3>1, <3>2, <3>5, <3>6, <3>7, <3>8
    <2>2. CASE ~(inGame' # inGame \/ computers' # computers)
      <3>1. goes = << >>
        BY <2>2
      <3> QED BY <2>2, <3>1, AfterNothing DEF Has
    <2> QED BY <2>1, <2>2
  <1>3. Departures = news \o goes
    BY DEF Departures
  <1> HIDE DEF news, goes
  <1>4. Departures \in Seq(Messages)
    BY <1>1, <1>2, <1>3, ConcatProperties
  <1>5. After(e, Departures) = After(d, goes)
    BY <1>1, <1>2, <1>3, AfterMore
  <1> HIDE DEF d
  <1> QED BY <1>1, <1>2, <1>4, <1>5, ListAssumption DEF Has

LEMMA ModeHandled ==
    ASSUME NEW d \in Element, NEW mode \in {"created", "started", "closed"}
    PROVE  /\ <<Mode(mode)>> \in Seq(Messages)
           /\ d = NoEntry => After(d, <<Mode(mode)>>) = NoEntry
           /\ d \in Entries /\ mode # "closed" =>
                 Has(After(d, <<Mode(mode)>>), d.admin, d.people, d.bots, mode)
           /\ d \in Entries /\ mode = "closed" => After(d, <<Mode(mode)>>) = NoEntry
  <1> DEFINE m == Mode(mode)
  <1>1. m \in Messages /\ m.type = "Mode" /\ m.mode = mode
    BY OtherMessages
  <1> HIDE DEF m
  <1>2. After(d, <<m>>) = Update(d, m) /\ <<m>> \in Seq(Messages)
    BY <1>1, AfterOne
  <1> QED BY <1>1, <1>2, NothingUpdated, ElementUpdated DEF m

\* What keeps the elements current when it is announced keeps the list current.
LEMMA Announced ==
    ASSUME LInv, GameSound', SInv', NEW ms \in Seq(Messages), Announce(ms),
           \A e \in Element :
              Current(e) => Shows(After(e, ms), listed', inGame', computers', adminId', state')
    PROVE  LInv'
  <1>1. /\ toClient' = IF online /\ wants THEN toClient \o ms ELSE toClient
        /\ UNCHANGED <<online, wants, games, other, toServer, clientState, subscribed, entry, raced>>
    BY DEF Announce
  <1>2. toClient \in Seq(Messages)
    BY DEF LInv, WatcherType
  <1>3. WatcherType'
    <2>1. toClient' \in Seq(Messages)
      BY <1>1, <1>2, ConcatProperties
    <2> QED BY <1>1, <2>1 DEF LInv, WatcherType
  <1>4. NotYetOnline'
    BY <1>1 DEF LInv, NotYetOnline
  <1>5. Cleared'
    BY <1>1 DEF LInv, Cleared, Quiet
  <1>6. ComingIsCurrent'
    <2> SUFFICES ASSUME Subscribed' PROVE Current(Coming)'
      BY DEF ComingIsCurrent
    <2>1. Subscribed /\ Current(Coming)
      BY <1>1 DEF Subscribed, LInv, ComingIsCurrent
    <2>2. Coming \in Element
      BY ComingType DEF LInv
    <2>3. Shows(After(Coming, ms), listed', inGame', computers', adminId', state')
      BY <2>1, <2>2
    <2>4. entry' = entry /\ toClient' = toClient \o ms
      BY <1>1, <2>1 DEF Subscribed
    <2>5. After(entry', toClient') = After(Coming, ms)
      BY <1>2, <2>4, AfterMore DEF Coming
    <2> QED BY <2>3, <2>5 DEF Current, Coming
  <1> QED BY <1>3, <1>4, <1>5, <1>6 DEF LInv

LEMMA ArrivalsShown ==
    ASSUME GameSound, GameSound', Grows, UNCHANGED listed, NEW e \in Element, Current(e)
    PROVE  LET d == After(e, Arrivals)
           IN /\ Arrivals \in Seq(Messages) /\ d \in Element
              /\ d # NoEntry <=> listed
              /\ listed => /\ d.people = inGame' /\ d.bots = computers' /\ d.admin = adminId'
                           /\ d.mode = e.mode
  <1>1. CASE e = NoEntry
    BY <1>1, ArrivalsHandled DEF Current, Shows, Element
  <1>2. CASE e # NoEntry
    <2>1. e \in Entries /\ listed /\ e.people = inGame /\ e.bots = computers /\ e.admin = adminId
      BY <1>2 DEF Current, Shows, Element
    <2>2. Has(After(e, Arrivals), adminId', inGame', computers', e.mode)
      BY <2>1, ArrivalsHandled DEF Grows
    <2> QED BY <2>1, <2>2, ArrivalsHandled, ListAssumption DEF Has, Element
  <1> QED BY <1>1, <1>2

LEMMA DeparturesShown ==
    ASSUME GameSound, GameSound', Shrinks, NEW e \in Element, Current(e)
    PROVE  LET d == After(e, Departures)
           IN /\ Departures \in Seq(Messages) /\ d \in Element
              /\ d # NoEntry <=> listed
              /\ listed => /\ d.people = inGame' /\ d.bots = computers' /\ d.admin = adminId'
                           /\ d.mode = e.mode
  <1>1. CASE e = NoEntry
    BY <1>1, DeparturesHandled DEF Current, Shows, Element
  <1>2. CASE e # NoEntry
    <2>1. e \in Entries /\ listed /\ e.people = inGame /\ e.bots = computers /\ e.admin = adminId
      BY <1>2 DEF Current, Shows, Element
    <2>2. Has(After(e, Departures), adminId', inGame', computers', e.mode)
      BY <2>1, DeparturesHandled
    <2> QED BY <2>1, <2>2, DeparturesHandled, ListAssumption DEF Has, Element
  <1> QED BY <1>1, <1>2

LEMMA LastMode ==
    ASSUME NEW ms \in Seq(Messages), NEW e \in Element, NEW mode \in {"created", "started", "closed"}
    PROVE  LET d == After(e, ms)
               all == ms \o <<Mode(mode)>>
               u == After(e, all)
           IN /\ all \in Seq(Messages)
              /\ d = NoEntry => u = NoEntry
              /\ d # NoEntry /\ mode # "closed" =>
                    Has(u, d.admin, d.people, d.bots, mode) /\ u # NoEntry
              /\ d # NoEntry /\ mode = "closed" => u = NoEntry
  <1> DEFINE d == After(e, ms)
             new == <<Mode(mode)>>
  <1>1. d \in Element
    BY AfterType
  <1>2. new \in Seq(Messages)
    BY ModeHandled
  <1> HIDE DEF d, new
  <1>3. After(e, ms \o new) = After(d, new) /\ ms \o new \in Seq(Messages)
    BY <1>2, AfterMore, ConcatProperties DEF d
  <1>4. d # NoEntry => d \in Entries
    BY <1>1 DEF Element
  <1>5. /\ d = NoEntry => After(d, new) = NoEntry
        /\ d \in Entries /\ mode # "closed" => Has(After(d, new), d.admin, d.people, d.bots, mode)
        /\ d \in Entries /\ mode = "closed" => After(d, new) = NoEntry
    BY <1>1, ModeHandled DEF new
  <1> QED BY <1>3, <1>4, <1>5, ListAssumption DEF Has, d, new

LEMMA GameStepsKeepTheList ==
    ASSUME LInv, GameSound', SInv',
           \/ PlayerComes \/ PlayersGo \/ GameStarts \/ GameReopens \/ GameFails \/ GameRemoved
    PROVE  LInv'
  <1>0. GameSound /\ computers \in Nat /\ computers' \in Nat
    BY CountsAreNumbers DEF LInv
  <1>1. ASSUME Grows PROVE Arrivals \in Seq(Messages)
    BY <1>0, <1>1, ArrivalsHandled DEF Element
  <1>2. ASSUME Shrinks PROVE Departures \in Seq(Messages)
    BY <1>0, <1>2, DeparturesHandled DEF Element
  <1>3. CASE PlayerComes
    <2>1. Grows /\ UNCHANGED <<listed, state>> /\ Announce(Arrivals)
      BY <1>0, <1>3 DEF PlayerComes, Arrive, Grows
    <2>2. \A e \in Element : Current(e) =>
             Shows(After(e, Arrivals), listed', inGame', computers', adminId', state')
      BY <1>0, <2>1, ArrivalsShown DEF Current, Shows
    <2> QED BY <1>1, <2>1, <2>2, Announced
  <1>4. CASE PlayersGo
    <2>1. PICK gone \in SUBSET inGame : Depart(gone)
      BY <1>4 DEF PlayersGo
    <2>2. Shrinks /\ UNCHANGED <<listed, state>> /\ Announce(Departures)
      BY <1>0, <1>4, <2>1, GoShrinks DEF PlayersGo, Depart, Shrinks
    <2>3. \A e \in Element : Current(e) =>
             Shows(After(e, Departures), listed', inGame', computers', adminId', state')
      BY <1>0, <2>2, DeparturesShown DEF Current, Shows
    <2> QED BY <1>2, <2>2, <2>3, Announced
  <1>5. CASE GameStarts
    <2> DEFINE ms == Arrivals \o <<Mode("started")>>
    <2>1. /\ listed' = listed /\ inGame' = inGame /\ adminId' = adminId
          /\ state' = "StartGame" /\ computers' \in computers..MaxPlayers /\ Announce(ms)
      BY <1>5 DEF GameStarts, Start
    <2>2. Grows
      BY <1>0, <2>1, ListAssumption DEF Grows
    <2>3. ms \in Seq(Messages)
      BY <1>1, <2>2, LastMode DEF Element
    <2>4. ASSUME NEW e \in Element, Current(e)
          PROVE  Shows(After(e, ms), listed', inGame', computers', adminId', state')
      BY <1>0, <2>1, <2>2, <2>4, ArrivalsShown, LastMode DEF Shows, Has
    <2> HIDE DEF ms
    <2> QED BY <2>1, <2>3, <2>4, Announced
  <1>6. CASE GameReopens
    <2> DEFINE ms == Departures \o <<Mode("created")>>
    <2>1. /\ listed' = listed /\ computers' = 0 /\ Announce(ms) /\ \E gone : Go(gone)
      BY <1>6 DEF GameReopens, Reopen
    <2>2. Shrinks
      BY <1>0, <2>1, GoShrinks DEF Shrinks
    <2>3. ms \in Seq(Messages)
      BY <1>2, <2>2, LastMode DEF Element
    <2>4. ASSUME NEW e \in Element, Current(e)
          PROVE  Shows(After(e, ms), listed', inGame', computers', adminId', state')
      BY <1>0, <2>1, <2>2, <2>4, DeparturesShown, LastMode DEF Shows, Has
    <2> HIDE DEF ms
    <2> QED BY <2>1, <2>3, <2>4, Announced
  <1>7. CASE GameFails
    <2>1. /\ UNCHANGED <<listed, computers>> /\ state' = "Final" /\ Go(inGame)
          /\ Announce(Departures)
      BY <1>7 DEF GameFails, Fail
    <2>2. Shrinks
      BY <1>0, <2>1, GoShrinks DEF Shrinks
    <2>3. \A e \in Element : Current(e) =>
             Shows(After(e, Departures), listed', inGame', computers', adminId', state')
      BY <1>0, <2>1, <2>2, DeparturesShown DEF Shows
    <2> QED BY <1>2, <2>1, <2>2, <2>3, Announced
  <1>8. CASE GameRemoved
    <2> DEFINE ms == Departures \o <<Mode("closed")>>
    <2>1. listed' = FALSE /\ computers' = 0 /\ Go(inGame) /\ Announce(ms)
      BY <1>8 DEF GameRemoved, RemoveGame
    <2>2. Shrinks
      BY <1>0, <2>1, GoShrinks DEF Shrinks
    <2>3. ms \in Seq(Messages)
      BY <1>2, <2>2, LastMode DEF Element
    <2>4. ASSUME NEW e \in Element
          PROVE  Shows(After(e, ms), listed', inGame', computers', adminId', state')
      BY <1>2, <2>1, <2>2, <2>4, LastMode DEF Shows
    <2> HIDE DEF ms
    <2> QED BY <2>1, <2>3, <2>4, Announced
  <1> QED BY <1>3, <1>4, <1>5, <1>6, <1>7, <1>8

(***************************************************************************)
(* The watcher's session and his client                                    *)
(***************************************************************************)

\* The list that a session gets shows the game as it is.
LEMMA ListShown ==
    ASSUME GameSound
    PROVE  GameListOf \in Seq(Messages) /\ Current(After(NoEntry, GameListOf))
  <1>1. CASE listed
    <2> DEFINE m == New
    <2>1. computers \in Nat /\ adminId \in Players \cup {NoPlayer} /\ inGame \in SUBSET Players
      BY CountsAreNumbers DEF GameSound
    <2>2. /\ m \in Messages /\ m.type = "New" /\ m.admin = adminId /\ m.people = inGame
          /\ m.bots = computers /\ m.mode = IF game THEN "started" ELSE "created"
      BY <2>1 DEF New, Messages
    <2>3. GameListOf = <<m>>
      BY <1>1 DEF GameListOf
    <2> HIDE DEF m
    <2>4. After(NoEntry, <<m>>) = Update(NoEntry, m)
      BY AfterOne
    <2>5. Has(Update(NoEntry, m), adminId, inGame, computers, m.mode)
      BY <2>2, NothingUpdated
    <2>6. m.mode = "started" => state # "Init"
      BY <2>2 DEF GameSound
    <2> QED BY <1>1, <2>2, <2>3, <2>4, <2>5, <2>6, ListAssumption DEF Current, Shows, Has
  <1>2. CASE ~listed
    BY <1>2, AfterNothing DEF GameListOf, Current, Shows
  <1> QED BY <1>1, <1>2

LEMMA QuietMessages ==
    ASSUME NEW ms \in Seq(Messages)
    PROVE  /\ \A m \in Messages : Quiet(ms) /\ m.type \notin ListMessages => Quiet(Append(ms, m))
           /\ ms # << >> /\ Quiet(ms) => Head(ms).type \notin ListMessages /\ Quiet(Tail(ms))
           /\ ms # << >> /\ (\A m \in Range(Tail(ms)) : m.type \notin ListMessages)
                 => Quiet(Tail(ms))
  <1>1. ASSUME NEW m \in Messages, Quiet(ms), m.type \notin ListMessages
        PROVE  Quiet(Append(ms, m))
    <2>1. \A i \in 1..(Len(ms) + 1) : Append(ms, m)[i] = IF i <= Len(ms) THEN ms[i] ELSE m
      OBVIOUS
    <2>2. Len(Append(ms, m)) = Len(ms) + 1 /\ Len(ms) \in Nat
      OBVIOUS
    <2> QED BY <1>1, <2>1, <2>2 DEF Quiet
  <1>2. ASSUME ms # << >>
        PROVE  /\ Head(ms) = ms[1] /\ 1 \in 1..Len(ms)
               /\ Len(Tail(ms)) = Len(ms) - 1
               /\ \A i \in 1..(Len(ms) - 1) : Tail(ms)[i] = ms[i + 1] /\ i + 1 \in 1..Len(ms)
    BY <1>2
  <1>3. ASSUME ms # << >>, Quiet(ms)
        PROVE  Head(ms).type \notin ListMessages /\ Quiet(Tail(ms))
    BY <1>2, <1>3 DEF Quiet
  <1>4. ASSUME ms # << >>, \A m \in Range(Tail(ms)) : m.type \notin ListMessages
        PROVE  Quiet(Tail(ms))
    <2>1. DOMAIN Tail(ms) = 1..Len(Tail(ms))
      BY <1>4
    <2> QED BY <1>4, <2>1 DEF Quiet, Range
  <1> QED BY <1>1, <1>3, <1>4

\* A message of the watcher's own game says nothing of the listed one.
LEMMA OwnUpdatesNothing ==
    ASSUME NEW e \in Element, NEW m \in Messages, m.type \notin ListMessages
    PROVE  Update(e, m) = e
  BY NothingUpdated, ElementUpdated DEF ListMessages, Element

LEMMA LoginKeepsTheList == LInv /\ EstablishSession /\ SInv' /\ GameSound' => LInv'
  <1> SUFFICES ASSUME LInv, EstablishSession, SInv', GameSound' PROVE LInv'
    OBVIOUS
  <1>1. /\ online' = TRUE /\ toClient' = GameListOf
        /\ UNCHANGED <<viewVars, wants, games, other, toServer, clientState, subscribed, entry, raced>>
        /\ entry = NoEntry /\ toServer = << >>
    BY DEF EstablishSession, LInv, NotYetOnline
  <1>2. GameListOf \in Seq(Messages) /\ Current(After(entry, GameListOf))
    BY <1>1, ListShown DEF LInv
  <1>3. WatcherType' /\ NotYetOnline' /\ Cleared'
    BY <1>1, <1>2 DEF LInv, WatcherType, NotYetOnline, Cleared
  <1>4. ComingIsCurrent'
    <2>1. Coming' = After(entry, GameListOf)
      BY <1>1 DEF Coming
    <2> QED BY <1>1, <1>2, <2>1 DEF ComingIsCurrent, Current, viewVars
  <1> QED BY <1>3, <1>4 DEF LInv

LEMMA AdminLoginKeepsTheList == LInv /\ AdminLogsIn /\ SInv' /\ GameSound' => LInv'
  <1> SUFFICES ASSUME LInv, AdminLogsIn, SInv', GameSound' PROVE LInv'
    OBVIOUS
  <1> DEFINE all == [i \in DOMAIN toClient |-> Rewritten(adminId, toClient[i])]
  <1>1. /\ toClient' = all /\ entry' = Forgotten(adminId, entry) /\ adminId' = NoPlayer
        /\ UNCHANGED <<listed, state, game, inGame, computers>>
        /\ UNCHANGED <<online, wants, games, other, toServer, clientState, subscribed, raced>>
    BY DEF AdminLogsIn, ForgetAdmin, Forgotten, Rewritten
  <1>2. toClient \in Seq(Messages) /\ entry \in Element
    BY DEF LInv, WatcherType
  <1>3. /\ all \in Seq(Messages) /\ Len(all) = Len(toClient)
        /\ After(Forgotten(adminId, entry), all) = Forgotten(adminId, Coming)
    BY <1>2, AfterForgets DEF Coming
  <1>4. \A i \in 1..Len(toClient) : all[i].type = toClient[i].type
    <2>1. \A i \in 1..Len(toClient) : toClient[i] \in Messages /\ i \in DOMAIN toClient
      BY <1>2, LenProperties, ElementOfSeq
    <2> QED BY <2>1, MessageRewritten
  <1>5. toClient = << >> => all = << >>
    BY <1>2, <1>3
  <1> HIDE DEF all
  <1>6. Forgotten(adminId, entry) \in Element
    BY <1>2, UnknownElement DEF Forgotten, Element, Has
  <1>7. WatcherType' /\ NotYetOnline' /\ Cleared'
    <2>1. WatcherType'
      BY <1>1, <1>3, <1>6 DEF LInv, WatcherType
    <2>2. NotYetOnline'
      BY <1>1, <1>5 DEF LInv, NotYetOnline, Forgotten
    <2>3. Quiet(toClient) => Quiet(all)
      BY <1>3, <1>4 DEF Quiet
    <2>4. Cleared'
      BY <1>1, <2>3 DEF LInv, Cleared, Forgotten
    <2> QED BY <2>1, <2>2, <2>4
  <1>8. ComingIsCurrent'
    <2> SUFFICES ASSUME Subscribed' PROVE Current(Coming)'
      BY DEF ComingIsCurrent
    <2>1. Current(Coming) /\ Coming \in Element
      BY <1>1, ComingType DEF LInv, Subscribed, ComingIsCurrent
    <2>2. Coming' = Forgotten(adminId, Coming)
      BY <1>1, <1>3 DEF Coming
    <2> DEFINE c == Coming
    <2>3. c \in Entries =>
            Has(Unknown(adminId, c), IF c.admin = adminId THEN NoPlayer ELSE c.admin,
                c.people, c.bots, c.mode)
      BY UnknownElement
    <2> QED BY <1>1, <2>1, <2>2, <2>3, ListAssumption DEF Current, Shows, Forgotten, Has, Element
  <1> QED BY <1>7, <1>8 DEF LInv

LEMMA TellingKeepsTheList ==
    LInv /\ (StartOther \/ BeginOther \/ LeaveOther \/ EndOther) /\ SInv' /\ GameSound' => LInv'
  <1> SUFFICES ASSUME LInv, StartOther \/ BeginOther \/ LeaveOther \/ EndOther, SInv', GameSound'
               PROVE  LInv'
    OBVIOUS
  <1>1. other' \in {"none", "starting", "playing"} /\ games' \in 0..MaxGames
    BY ListAssumption DEF LInv, WatcherType, StartOther, BeginOther, LeaveOther, EndOther
  <1>2. PICK type \in OwnMessages : Tell(type)
    BY DEF StartOther, BeginOther, LeaveOther, EndOther, OwnMessages
  <1> DEFINE m == [type |-> type]
  <1>3. m \in Messages /\ m.type \notin ListMessages
    BY <1>2 DEF Messages, OwnMessages, ListMessages
  <1>4. /\ online /\ toClient' = Append(toClient, m)
        /\ UNCHANGED <<viewVars, online, wants, toServer, clientState, subscribed, entry, raced>>
    BY <1>2 DEF Tell
  <1> HIDE DEF m
  <1>5. toClient \in Seq(Messages) /\ Coming \in Element
    BY ComingType DEF LInv, WatcherType
  <1>6. Coming' = Coming
    BY <1>3, <1>4, <1>5, AfterOneMore, OwnUpdatesNothing DEF Coming
  <1>7. ComingIsCurrent'
    BY <1>4, <1>6 DEF LInv, ComingIsCurrent, Subscribed, Current, viewVars
  <1>8. WatcherType' /\ NotYetOnline'
    BY <1>1, <1>3, <1>4, <1>5 DEF LInv, WatcherType, NotYetOnline
  <1>9. Cleared'
    BY <1>3, <1>4, <1>5, QuietMessages DEF LInv, Cleared
  <1> QED BY <1>7, <1>8, <1>9 DEF LInv

LEMMA RequestKeepsTheList == LInv /\ HandleSubscriptionRequest /\ SInv' /\ GameSound' => LInv'
  <1> SUFFICES ASSUME LInv, HandleSubscriptionRequest, SInv', GameSound' PROVE LInv'
    OBVIOUS
  <1>1. /\ toServer # << >> /\ toServer' = Tail(toServer) /\ online
        /\ UNCHANGED <<viewVars, online, games, other, clientState, subscribed, entry, raced>>
    BY DEF HandleSubscriptionRequest, LInv, NotYetOnline
  <1>2. toClient' = toClient \/ toClient' = toClient \o GameListOf
    BY DEF HandleSubscriptionRequest, InternalResubscribeMsg
  <1>3. GameListOf \in Seq(Messages) /\ Current(After(NoEntry, GameListOf))
    BY ListShown DEF LInv
  <1>4. toClient \in Seq(Messages)
    BY DEF LInv, WatcherType
  <1>5. WatcherType'
    <2>1. toClient' \in Seq(Messages)
      BY <1>2, <1>3, <1>4, ConcatProperties
    <2> QED BY <1>1, <2>1 DEF LInv, WatcherType
  <1>6. subscribed /\ ~raced =>
           /\ toServer = <<"resubscribe">> /\ ~wants /\ entry = NoEntry /\ Quiet(toClient)
           /\ toServer' = << >>
    BY <1>1 DEF LInv, Cleared
  <1>7. NotYetOnline' /\ Cleared'
    BY <1>1, <1>6 DEF NotYetOnline, Cleared
  <1>8. ComingIsCurrent'
    <2> SUFFICES ASSUME Subscribed' PROVE Current(Coming)'
      BY DEF ComingIsCurrent
    <2>1. /\ toServer = <<"resubscribe">> /\ ~wants /\ entry = NoEntry /\ Quiet(toClient)
      BY <1>1, <1>6 DEF Subscribed
    <2>2. toClient' = toClient \o GameListOf
      BY <2>1 DEF HandleSubscriptionRequest, InternalResubscribeMsg
    <2>3. Coming' = After(NoEntry, GameListOf)
      BY <1>1, <1>3, <1>4, <2>1, <2>2, AfterMore, AfterQuiet DEF Coming
    <2> QED BY <1>1, <1>3, <2>3 DEF Current, viewVars
  <1> QED BY <1>5, <1>7, <1>8 DEF LInv

\* A message that is handled leaves what is coming as it was.
LEMMA HandledInTurn ==
    ASSUME WatcherType, toClient # << >>
    PROVE  LET m == Head(toClient)
           IN /\ m \in Messages /\ Tail(toClient) \in Seq(Messages)
              /\ Update(entry, m) \in Element
              /\ After(Update(entry, m), Tail(toClient)) = Coming
              /\ m.type \notin ListMessages => After(entry, Tail(toClient)) = Coming
  <1>1. toClient \in Seq(Messages) /\ entry \in Element
    BY DEF WatcherType
  <1>2. Head(toClient) \in Messages /\ Tail(toClient) \in Seq(Messages)
    BY <1>1
  <1>3. After(Update(entry, Head(toClient)), Tail(toClient)) = Coming
    BY <1>1, AfterFirst DEF Coming
  <1> QED BY <1>1, <1>2, <1>3, UpdateType, OwnUpdatesNothing

LEMMA ListMessageKeepsTheList == LInv /\ HandleListMessage /\ SInv' /\ GameSound' => LInv'
  <1> SUFFICES ASSUME LInv, HandleListMessage, SInv', GameSound' PROVE LInv'
    OBVIOUS
  <1>1. /\ toClient # << >> /\ Head(toClient).type \in ListMessages
        /\ toClient' = Tail(toClient) /\ entry' = Update(entry, Head(toClient))
        /\ UNCHANGED <<viewVars, online, wants, games, other>>
        /\ UNCHANGED <<toServer, clientState, subscribed, raced>>
    BY DEF HandleListMessage, Receive
  <1>2. WatcherType' /\ Coming' = Coming
    BY <1>1, HandledInTurn DEF LInv, WatcherType, Coming
  <1>3. ComingIsCurrent'
    BY <1>1, <1>2 DEF LInv, ComingIsCurrent, Subscribed, Current, viewVars
  <1>4. ~Quiet(toClient)
    BY <1>1, QuietMessages DEF LInv, WatcherType
  <1>5. NotYetOnline' /\ Cleared'
    BY <1>1, <1>4 DEF LInv, NotYetOnline, Cleared
  <1> QED BY <1>2, <1>3, <1>5 DEF LInv

\* What the client makes of a message of the watcher's own game: nothing, or it
\* unsubscribes, or it subscribes again.
LEMMA OwnMessageKeepsTheList ==
    ASSUME LInv, SInv', GameSound', NEW type \in OwnMessages, Receive(type),
           clientState' \in {"Lobby", "Synchronize", "Playing"},
           \/ UNCHANGED <<toServer, subscribed, entry, raced>>
           \/ UnsubscribeLobbyMsg
           \/ ResubscribeLobbyMsg
    PROVE  LInv'
  <1>1. /\ toClient # << >> /\ Head(toClient).type = type /\ type \notin ListMessages
        /\ toClient' = Tail(toClient)
        /\ UNCHANGED <<viewVars, online, wants, games, other>>
    BY DEF Receive, OwnMessages, ListMessages
  <1>2. toClient \in Seq(Messages) /\ online
    BY <1>1 DEF LInv, WatcherType, NotYetOnline
  <1>3. /\ Tail(toClient) \in Seq(Messages) /\ After(entry, Tail(toClient)) = Coming
        /\ Quiet(toClient) => Quiet(Tail(toClient))
    BY <1>1, <1>2, HandledInTurn, QuietMessages DEF LInv
  <1>4. NotYetOnline'
    BY <1>1, <1>2 DEF NotYetOnline
  <1>5. CASE UNCHANGED <<toServer, subscribed, entry, raced>>
    <2>1. WatcherType' /\ Cleared'
      BY <1>1, <1>3, <1>5 DEF LInv, WatcherType, Cleared
    <2>2. Coming' = Coming
      BY <1>1, <1>3, <1>5 DEF Coming
    <2>3. ComingIsCurrent'
      BY <1>1, <1>5, <2>2 DEF LInv, ComingIsCurrent, Subscribed, Current, viewVars
    <2> QED BY <1>4, <2>1, <2>3 DEF LInv
  <1>6. CASE UnsubscribeLobbyMsg
    BY <1>1, <1>3, <1>4, <1>6 DEF UnsubscribeLobbyMsg, LInv, WatcherType, Cleared,
                                  ComingIsCurrent, Subscribed
  <1>7. CASE ResubscribeLobbyMsg /\ ~subscribed
    <2>1. /\ subscribed' = TRUE /\ entry' = NoEntry /\ toServer' = Append(toServer, "resubscribe")
          /\ raced' = \/ toServer # << >>
                      \/ \E m \in Range(Tail(toClient)) : m.type \in ListMessages
      BY <1>7 DEF ResubscribeLobbyMsg
    <2>2. toServer \in Seq(Requests) /\ (toServer = << >> => ~wants)
      BY <1>7 DEF LInv, SInv, SubscriptionType, SubscriptionsAgree
    <2>3. WatcherType'
      BY <1>1, <1>3, <2>1 DEF LInv, WatcherType, Element
    <2>4. Cleared'
      <3> SUFFICES ASSUME ~raced'
                   PROVE  /\ toServer' = <<"resubscribe">> /\ ~wants' /\ entry' = NoEntry
                          /\ Quiet(Tail(toClient))
        BY <1>1 DEF Cleared
      <3>1. toServer = << >> /\ \A m \in Range(Tail(toClient)) : m.type \notin ListMessages
        BY <2>1
      <3>2. Quiet(Tail(toClient))
        BY <1>1, <1>2, <3>1, QuietMessages
      <3>3. toServer' = <<"resubscribe">>
        BY <2>1, <3>1
      <3> QED BY <1>1, <2>1, <2>2, <3>1, <3>2, <3>3
    <2>5. toServer' # << >>
      BY <2>1, <2>2 DEF Requests
    <2>6. ComingIsCurrent'
      BY <2>5 DEF ComingIsCurrent, Subscribed
    <2> QED BY <1>4, <2>3, <2>4, <2>6 DEF LInv
  <1>8. ResubscribeLobbyMsg /\ subscribed => UNCHANGED <<toServer, subscribed, entry, raced>>
    BY DEF ResubscribeLobbyMsg, LInv, SInv, SubscriptionType
  <1> QED BY <1>5, <1>6, <1>7, <1>8

LEMMA OwnMessagesKeepTheList ==
    LInv /\ (HandleStart \/ HandleBegin \/ HandleRemoved \/ HandleEnd) /\ SInv' /\ GameSound'
        => LInv'
  <1> SUFFICES ASSUME LInv, SInv', GameSound',
                      HandleStart \/ HandleBegin \/ HandleRemoved \/ HandleEnd
               PROVE  LInv'
    OBVIOUS
  <1>0. clientState \in {"Lobby", "Synchronize", "Playing"}
    BY DEF LInv, WatcherType
  <1>1. CASE HandleStart
    BY <1>0, <1>1, OwnMessageKeepsTheList DEF HandleStart, OwnMessages
  <1>2. CASE HandleBegin
    BY <1>0, <1>2, OwnMessageKeepsTheList DEF HandleBegin, OwnMessages
  <1>3. CASE HandleRemoved
    BY <1>3, OwnMessageKeepsTheList DEF HandleRemoved, OwnMessages
  <1>4. CASE HandleEnd
    BY <1>0, <1>4, OwnMessageKeepsTheList DEF HandleEnd, OwnMessages
  <1> QED BY <1>1, <1>2, <1>3, <1>4

LEMMA SynchronizedKeepsTheList == LInv /\ Synchronized /\ SInv' /\ GameSound' => LInv'
  <1> SUFFICES ASSUME LInv, Synchronized, SInv', GameSound' PROVE LInv'
    OBVIOUS
  <1>1. /\ clientState = "Synchronize" /\ clientState' = "Playing" /\ UnsubscribeLobbyMsg
        /\ UNCHANGED <<viewVars, online, wants, games, other, toClient>>
    BY DEF Synchronized
  <1>2. online
    BY <1>1 DEF LInv, NotYetOnline
  <1> QED BY <1>1, <1>2 DEF UnsubscribeLobbyMsg, LInv, WatcherType, NotYetOnline, Cleared,
                            ComingIsCurrent, Subscribed

LEMMA QuietKeepsTheList ==
    LInv /\ (GameQuiet \/ NothingLeft \/ UNCHANGED listVars) /\ SInv' /\ GameSound' => LInv'
  <1> SUFFICES ASSUME LInv, GameQuiet \/ NothingLeft \/ UNCHANGED listVars, SInv', GameSound'
               PROVE  LInv'
    OBVIOUS
  <1>1. /\ UNCHANGED watcher /\ UNCHANGED <<listed, inGame, computers, adminId>>
        /\ state' = "Init" => state = "Init"
    BY DEF GameQuiet, Begin, Finish, NothingLeft, listVars, viewVars
  <1>2. WatcherType' /\ NotYetOnline' /\ Cleared' /\ UNCHANGED Coming /\ Subscribed' = Subscribed
    BY <1>1 DEF watcher, LInv, WatcherType, NotYetOnline, Cleared, Coming, Subscribed
  <1>3. ComingIsCurrent'
    BY <1>1, <1>2 DEF LInv, ComingIsCurrent, Current, Shows
  <1> QED BY <1>2, <1>3 DEF LInv

LEMMA ListNextKeepsTheList == LInv /\ [ListNext]_listVars => LInv'
  <1> SUFFICES ASSUME LInv, [ListNext]_listVars PROVE LInv'
    OBVIOUS
  <1>1. SInv' /\ GameSound'
    BY ListNextAgrees, GameStaysSound DEF LInv
  <1> QED BY <1>1, GameStepsKeepTheList, LoginKeepsTheList, AdminLoginKeepsTheList,
             TellingKeepsTheList, RequestKeepsTheList, ListMessageKeepsTheList,
             OwnMessagesKeepTheList, SynchronizedKeepsTheList, QuietKeepsTheList
          DEF ListNext, ClientHandles

\* Whoever is online when the game is created hears of it and of its creator.
LEMMA ListStartsCurrent == ListInit => LInv
  <1> SUFFICES ASSUME ListInit PROVE LInv
    OBVIOUS
  <1>1. PICK p \in Players : inGame = {p} /\ adminId = p
    BY DEF ListInit, Init
  <1>2. GameSound
    <2>1. 0 \in 0..MaxPlayers
      BY ListAssumption
    <2> QED BY <1>1, <2>1 DEF ListInit, Init, GameSound
  <1>3. SInv
    BY DEF ListInit, SInv, SubscriptionType, SubscriptionsAgree
  <1> DEFINE new == [New EXCEPT !.people = {}]
             comes == Joined(inGame, 0)
             one == <<new>>
             both == <<new, comes>>
  <1>4. /\ new \in Messages /\ new.type = "New" /\ new.people = {} /\ new.admin = p
        /\ new.bots = 0 /\ new.mode = "created"
    BY <1>1 DEF ListInit, Init, New, Messages
  <1>5. comes \in Messages /\ comes.type = "Joined" /\ comes.people = inGame /\ comes.bots = 0
    BY <1>2, PeopleMessages DEF GameSound
  <1>6. toClient = << >> \/ toClient = both
    BY DEF ListInit
  <1> HIDE DEF new, comes
  <1>7. /\ both = Append(one, comes) /\ one \in Seq(Messages)
        /\ After(NoEntry, one) = Update(NoEntry, new)
    <2>1. one \in Seq(Messages)
      BY <1>4
    <2>2. both = Append(one, comes)
      OBVIOUS
    <2> QED BY <2>1, <2>2, AfterOne
  <1> HIDE DEF one, both
  <1>8. After(NoEntry, both) = Update(Update(NoEntry, new), comes) /\ both \in Seq(Messages)
    <2>1. both \in Seq(Messages)
      BY <1>5, <1>7, AppendProperties
    <2>2. After(NoEntry, Append(one, comes)) = Update(After(NoEntry, one), comes)
      BY <1>5, <1>7, AfterOneMore
    <2> QED BY <1>7, <2>1, <2>2
  <1>9. Has(Update(NoEntry, new), p, {}, 0, "created")
    BY <1>4, NothingUpdated
  <1>10. Has(Update(Update(NoEntry, new), comes), p, {p}, 0, "created")
    BY <1>1, <1>5, <1>9, ElementUpdated DEF Has
  <1>11. Current(After(NoEntry, both))
    BY <1>1, <1>8, <1>10, ListAssumption DEF ListInit, Init, Has, Current, Shows
  <1>12. WatcherType /\ NotYetOnline /\ Cleared
    <2>1. 0 \in 0..MaxGames
      BY ListAssumption
    <2>2. toClient \in Seq(Messages)
      BY <1>6, <1>8, EmptySeq
    <2>3. WatcherType
      BY <2>1, <2>2 DEF ListInit, WatcherType, Element
    <2>4. NotYetOnline /\ Cleared
      BY DEF ListInit, NotYetOnline, Cleared
    <2> QED BY <2>3, <2>4
  <1>13. ComingIsCurrent
    <2>1. Subscribed => toClient = both /\ entry = NoEntry
      BY <1>6 DEF ListInit, Subscribed
    <2>2. Subscribed => Coming = After(NoEntry, both)
      BY <2>1 DEF Coming
    <2> QED BY <1>11, <2>2 DEF ComingIsCurrent
  <1> QED BY <1>2, <1>3, <1>12, <1>13 DEF LInv

\* Every message and every element that the model keeps is of its kind.
THEOREM ListTypeCorrect == ListSpec => []ListTypeOK
  <1>1. LInv => ListTypeOK
    BY DEF LInv, GameSound, WatcherType, SInv, SubscriptionType, Requests, Element, ListTypeOK
  <1> QED BY <1>1, ListStartsCurrent, ListNextKeepsTheList, PTL DEF ListSpec

\* The snapshot that the server sends at the login or at a request to subscribe
\* again, and the changes it sends after that, always add up to the game as it
\* is (SendGameList, Notify*, m_gameInfoMap).
THEOREM ListStaysCurrent == ListSpec => []ListIsCurrent
  <1>1. LInv => ListIsCurrent
    <2>1. Undisturbed => Subscribed
      BY DEF Undisturbed, Subscribed
    <2> QED BY <2>1 DEF LInv, ComingIsCurrent, Current, Shows, ListIsCurrent
  <1> QED BY <1>1, ListStartsCurrent, ListNextKeepsTheList, PTL DEF ListSpec
=============================================================================
