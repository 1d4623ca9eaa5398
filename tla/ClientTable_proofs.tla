-------------------------- MODULE ClientTable_proofs --------------------------
(***************************************************************************)
(* One client at the table, for every start stack, blind schedule, time    *)
(* limit, number of hands and number of messages on their way: the client  *)
(* never throws, a player who is asked sees the server's table, and what   *)
(* his buttons offer him is accepted.                                      *)
(***************************************************************************)
EXTENDS ClientTable, ServerTable_proofs, SequenceTheorems

(***************************************************************************)
(* What the client, its buttons and the messages are made of               *)
(***************************************************************************)

ClientStates ==
    {"WaitGame", "Synchronize", "WaitStart", "WaitHand", "RunHand", "Thrown", "Closed"}

\* Its blinds count from the hand before the first one.
ClientBlinds == [small : Nat \ {0}, since : Int, list : Seq(Nat \ {0})]

\* The client's amounts are whole numbers: nothing the client itself does makes
\* sure that they are not negative.
ClientType ==
    [state : ClientStates, hand : Nat, gen : [Seats -> Nat], nextDealer : Seats \X Nat,
     cash : [Seats -> Int], set : [Seats -> Int], action : [Seats -> Actions],
     relative : Int, pot : Int, sets : Int, highestSet : Int, minimumRaise : Int,
     fullBetRule : BOOLEAN, round : Rounds, smallBlind : Int,
     blinds : ClientBlinds,
     bigBlind : BOOLEAN, active : BOOLEAN, allIn : BOOLEAN,
     previous : {"none", "me", "other"}, answered : BOOLEAN]

Texts == {"", "Fold", "CheckFold", "Check", "Call", "Bet", "Raise", "AllIn"}
LabelType == [text : Texts, amount : Int]

ButtonsType ==
    [fold : Texts, call : LabelType, bet : LabelType, allin : BOOLEAN,
     checkable : BOOLEAN, betCheckable : BOOLEAN, checked : Buttons \cup {"none"},
     memory : Buttons \cup {"none"}, raising : SUBSET Texts, seen : LabelType,
     deals : Int, clean : BOOLEAN, repaint : {"due", "past", "late"}]

RequestType == [hand : Nat, round : Rounds, action : Actions, bet : Int]

\* The messages, by type.
StartMessages ==
    [type : {"StartEvent"}]
      \cup [type : {"GameStartInitial"}, dealer : Seats \X Nat]
      \cup [type : {"GameStartRejoin"}, gen : [Seats -> Nat], cash : [Seats -> Nat],
            dealer : Seats \X Nat, hand : Nat]
      \cup [type : {"PlayerIdChanged"}, who : Seats, old : Nat, new : Nat]
      \cup [type : {"HandStart"}, small : Nat, hand : Nat, active : BOOLEAN]
TableMessages ==
    [type : {"ActionDone"}, who : Seats, gen : Nat, blind : {"no", "small", "big"},
     action : Actions, set : Nat, cash : Nat, highestSet : Nat, minimumRaise : Nat]
      \cup [type : {"PlayersTurn"}, who : Seats, gen : Nat, round : Rounds]
      \cup [type : {"DealCards"}]
      \cup [type : {"AllInShowCards"}, gen : [Seats -> Nat]]
EndMessages ==
    [type : {"EndOfHandHide"}, who : Seats, gen : Nat, cash : Nat]
      \cup [type : {"EndOfHandShow"}, gen : [Seats -> Nat], cash : [Seats -> Nat]]
      \cup [type : {"EndOfGame"}, who : Seats, gen : Nat]
Messages == StartMessages \cup TableMessages \cup EndMessages

NetTypeOK ==
    /\ hands \in Nat
    /\ ids \in [Seats -> Nat]
    /\ logins \in [Seats -> Nat]
    /\ down \in Seq(Messages)
    /\ up \in Seq(RequestType)
    /\ client \in ClientType
    /\ buttons \in ButtonsType
    /\ astray \in Nat

\* What a message of each type carries.
LEMMA MessageFields ==
    ASSUME NEW m \in Messages
    PROVE  /\ m.type = "GameStartInitial" => m.dealer \in Seats \X Nat
           /\ m.type = "GameStartRejoin" =>
                 /\ m.gen \in [Seats -> Nat] /\ m.cash \in [Seats -> Nat]
                 /\ m.dealer \in Seats \X Nat /\ m.hand \in Nat
           /\ m.type = "PlayerIdChanged" => m.who \in Seats /\ m.old \in Nat /\ m.new \in Nat
           /\ m.type = "HandStart" => m.small \in Nat /\ m.hand \in Nat /\ m.active \in BOOLEAN
           /\ m.type = "ActionDone" =>
                 /\ m.who \in Seats /\ m.gen \in Nat /\ m.blind \in {"no", "small", "big"}
                 /\ m.action \in Actions /\ m.set \in Nat /\ m.cash \in Nat
                 /\ m.highestSet \in Nat /\ m.minimumRaise \in Nat
           /\ m.type = "PlayersTurn" => m.who \in Seats /\ m.gen \in Nat /\ m.round \in Rounds
           /\ m.type = "AllInShowCards" => m.gen \in [Seats -> Nat]
           /\ m.type = "EndOfHandHide" => m.who \in Seats /\ m.gen \in Nat /\ m.cash \in Nat
           /\ m.type = "EndOfHandShow" => m.gen \in [Seats -> Nat] /\ m.cash \in [Seats -> Nat]
           /\ m.type = "EndOfGame" => m.who \in Seats /\ m.gen \in Nat
  <1>1. CASE m \in StartMessages
    BY <1>1 DEF StartMessages
  <1>2. CASE m \in TableMessages
    BY <1>2 DEF TableMessages
  <1>3. CASE m \in EndMessages
    BY <1>3 DEF EndMessages
  <1> QED BY <1>1, <1>2, <1>3 DEF Messages

\* The oldest message is one, and the others are left.
LEMMA OldestMessage ==
    ASSUME NEW ms \in Seq(Messages), ms # << >>
    PROVE  /\ Head(ms) \in Messages /\ Tail(ms) \in Seq(Messages)
           /\ Head(ms) = ms[1] /\ Len(ms) \in Nat \ {0}
           /\ Len(Tail(ms)) = Len(ms) - 1
           /\ \A i \in 1..Len(Tail(ms)) : Tail(ms)[i] = ms[i + 1]
  OBVIOUS

(***************************************************************************)
(* The buttons keep their type                                             *)
(***************************************************************************)

LEMMA BlankType == Blank \in LabelType /\ BlankButtons \in ButtonsType
  BY DEF Blank, BlankButtons, Label, LabelType, ButtonsType, Texts, Buttons

\* The small helpers of the window.
LEMMA HelpersType ==
    ASSUME NEW t \in ClientType, NEW b \in ButtonsType, NEW on \in BOOLEAN
    PROVE  /\ ClearMyButtons(b) \in ButtonsType
           /\ ForgetTicks(b) \in ButtonsType
           /\ MyButtonsCheckable(t, b, on) \in ButtonsType
           /\ CleanButtons(b) \in ButtonsType
           /\ Played(b) \in ButtonsType
           /\ DealBeRoCards(b) \in ButtonsType
           /\ PostRiverRunAnimation1(b) \in ButtonsType
           /\ PostRiverRunAnimation2(b) \in ButtonsType
  <1>1. ClearMyButtons(b) \in ButtonsType
    BY BlankType DEF ClearMyButtons, ButtonsType, Texts
  <1>2. ForgetTicks(b) \in ButtonsType
    BY BlankType DEF ForgetTicks, ButtonsType
  <1>3. MyButtonsCheckable(t, b, on) \in ButtonsType
    <2>1. t.fullBetRule \in BOOLEAN
      BY DEF ClientType
    <2>2. (b.betCheckable \/ ~t.fullBetRule) \in BOOLEAN
      OBVIOUS
    <2> QED BY <2>2 DEF MyButtonsCheckable, ButtonsType
  <1>4. CleanButtons(b) \in ButtonsType
    <2>1. b.raising \in SUBSET Texts /\ b.deals \in Int /\ b.clean \in BOOLEAN
      BY DEF ButtonsType
    <2> QED BY <2>1, BlankType DEF CleanButtons, ButtonsType
  <1>5. Played(b) \in ButtonsType
    BY DEF Played, ButtonsType
  <1> DEFINE c == CleanButtons(b)
             p == Played(b)
  <1>6. c \in ButtonsType /\ p \in ButtonsType
    BY <1>4, <1>5
  <1>7. /\ DealBeRoCards(b) = [c EXCEPT !.deals = @ + 1, !.repaint = "due"]
        /\ PostRiverRunAnimation1(b) = [p EXCEPT !.clean = TRUE]
        /\ PostRiverRunAnimation2(b) =
             [c EXCEPT !.clean = FALSE, !.repaint = IF b.repaint = "due" THEN "due" ELSE "past"]
    BY DEF DealBeRoCards, PostRiverRunAnimation1, PostRiverRunAnimation2
  <1> HIDE DEF c, p
  <1>8. [c EXCEPT !.deals = @ + 1, !.repaint = "due"] \in ButtonsType
    <2>1. c.deals + 1 \in Int
      BY <1>6 DEF ButtonsType
    <2> QED BY <1>6, <2>1 DEF ButtonsType
  <1>9. [p EXCEPT !.clean = TRUE] \in ButtonsType
    BY <1>6 DEF ButtonsType
  <1>10. ASSUME NEW paint \in {"due", "past"}
         PROVE  [c EXCEPT !.clean = FALSE, !.repaint = paint] \in ButtonsType
    BY <1>6 DEF ButtonsType
  <1> QED BY <1>1, <1>2, <1>3, <1>4, <1>5, <1>7, <1>8, <1>9, <1>10

\* The labels the window paints.
LEMMA LabelsType ==
    ASSUME NEW t \in ClientType, NEW b \in ButtonsType, NEW mode \in Int
    PROVE  /\ FoldText(t, b, mode) \in Texts
           /\ CallLabel(t, mode) \in LabelType
           /\ BetLabel(t, b, mode) \in LabelType
           /\ GetMyCallAmount(t) \in Int
           /\ \A text \in Texts : LeastBet(t, text) \in Int
  <1> USE MeAssumption
  <1>1. /\ t.cash[Me] \in Int /\ t.set[Me] \in Int /\ t.highestSet \in Int
        /\ t.minimumRaise \in Int /\ t.smallBlind \in Int /\ b.bet.amount \in Int
    BY DEF ClientType, ButtonsType, LabelType
  <1>2. FoldText(t, b, mode) \in Texts
    BY DEF FoldText, Texts
  <1>3. GetMyCallAmount(t) \in Int
    BY <1>1 DEF GetMyCallAmount
  <1>4. CallLabel(t, mode) \in LabelType
    <2>1. Label("Check", 0) \in LabelType /\ Label("Call", GetMyCallAmount(t)) \in LabelType
      BY <1>3 DEF Label, LabelType, Texts
    <2> QED BY <2>1, BlankType DEF CallLabel
  <1>5. GetMyBetAmount(t, b) \in Int
    BY <1>1 DEF GetMyBetAmount, Min2
  <1>6. BetLabel(t, b, mode) \in LabelType
    <2>1. /\ Label("Bet", GetMyBetAmount(t, b)) \in LabelType
          /\ Label("Raise", GetMyBetAmount(t, b)) \in LabelType
      BY <1>5 DEF Label, LabelType, Texts
    <2> QED BY <2>1, BlankType DEF BetLabel
  <1>7. \A text \in Texts : LeastBet(t, text) \in Int
    BY <1>1 DEF LeastBet, Min2
  <1> QED BY <1>2, <1>3, <1>4, <1>6, <1>7

\* The amounts the bet button may show.
LEMMA AmountsType ==
    ASSUME NEW t \in ClientType, NEW label \in LabelType
    PROVE  \A amount \in Amounts(t, label) : amount \in Int
  <1>1. label.amount \in Int /\ label.text \in Texts
    BY DEF LabelType
  <1>2. LeastBet(t, label.text) \in Int
    BY <1>1, BlankType, LabelsType
  <1>3. \A amount \in LeastBet(t, label.text)..t.cash[Me] : amount \in Int
    OBVIOUS
  <1>4. \/ Amounts(t, label) = {label.amount}
        \/ Amounts(t, label) = {label.amount} \cup LeastBet(t, label.text)..t.cash[Me]
    BY DEF Amounts
  <1> QED BY <1>1, <1>3, <1>4

\* The buttons the window may paint.
LEMMA PaintedType ==
    ASSUME NEW t \in ClientType, NEW b \in ButtonsType, NEW mode \in Int
    PROVE  /\ ProvideMyActions(t, b, mode) \subseteq ButtonsType
           /\ UpdateMyButtonsState(t, b, mode) \subseteq ButtonsType
           /\ DealCardsEnd(t, b) \subseteq ButtonsType
           /\ Asked(t, b) \subseteq ButtonsType
  <1>1. ASSUME NEW d \in ButtonsType, NEW n \in Int
        PROVE  ProvideMyActions(t, d, n) \subseteq ButtonsType
    <2> DEFINE folded == n = 0 /\ t.action[Me] = "fold"
               c == IF folded THEN MyButtonsCheckable(t, d, FALSE) ELSE d
               call == CallLabel(t, n)
               bet == BetLabel(t, d, n)
               unwanted == \/ c.checked = "call" /\ call # d.call
                           \/ /\ c.checked = "bet" /\ bet.text # ""
                              /\ d.bet.amount < LeastBet(t, bet.text)
               e == IF unwanted THEN ForgetTicks(c) ELSE c
               allin == ~folded /\ (n = 0 \/ ~t.fullBetRule)
               fold == FoldText(t, d, n)
    <2>1. CASE NothingToDo(t, n)
      <3>1. ClearMyButtons(MyButtonsCheckable(t, d, FALSE)) \in ButtonsType
        BY <1>1, HelpersType
      <3> QED BY <2>1, <3>1 DEF ProvideMyActions
    <2>2. CASE ~NothingToDo(t, n)
      <3>1. c \in ButtonsType
        BY <1>1, HelpersType
      <3>2. e \in ButtonsType
        BY <3>1, HelpersType
      <3>3. call \in LabelType /\ bet \in LabelType /\ bet.text \in Texts /\ fold \in Texts
        BY <1>1, LabelsType DEF LabelType
      <3>4. allin \in BOOLEAN
        OBVIOUS
      <3>5. \A amount \in Amounts(t, bet) : amount \in Int
        <4> HIDE DEF bet
        <4> QED BY <3>3, AmountsType
      <3>6. ProvideMyActions(t, d, n) =
              {[e EXCEPT !.fold = fold, !.call = call, !.bet = Label(bet.text, amount),
                         !.allin = allin, !.raising = @ \cup ({bet.text} \ {""})]
                 : amount \in Amounts(t, bet)}
        BY <2>2 DEF ProvideMyActions
      <3> HIDE DEF e, call, bet, allin, fold, c
      <3>7. ASSUME NEW amount \in Amounts(t, bet)
            PROVE  [e EXCEPT !.fold = fold, !.call = call, !.bet = Label(bet.text, amount),
                             !.allin = allin, !.raising = @ \cup ({bet.text} \ {""})]
                     \in ButtonsType
        <4>1. Label(bet.text, amount) \in LabelType
          BY <3>3, <3>5 DEF Label, LabelType
        <4>2. e.raising \cup ({bet.text} \ {""}) \in SUBSET Texts
          BY <3>2, <3>3 DEF ButtonsType
        <4> QED BY <3>2, <3>3, <3>4, <4>1, <4>2 DEF ButtonsType
      <3> QED BY <3>6, <3>7
    <2> QED BY <2>1, <2>2
  <1>2. ASSUME NEW d \in ButtonsType, NEW n \in Int
        PROVE  UpdateMyButtonsState(t, d, n) \subseteq ButtonsType
    <2>1. /\ ClearMyButtons(MyButtonsCheckable(t, d, FALSE)) \in ButtonsType
          /\ MyButtonsCheckable(t, d, TRUE) \in ButtonsType
      BY <1>2, HelpersType
    <2> QED BY <1>1, <1>2, <2>1 DEF UpdateMyButtonsState
  <1>3. DealCardsEnd(t, b) \subseteq ButtonsType
    <2> DEFINE done == [b EXCEPT !.deals = @ - 1]
               late == [done EXCEPT !.repaint = IF @ = "due" THEN @ ELSE "late"]
    <2>1. done \in ButtonsType
      BY DEF ButtonsType
    <2>2. late \in ButtonsType
      <3> HIDE DEF done
      <3> QED BY <2>1 DEF ButtonsType
    <2>3. \/ DealCardsEnd(t, b) = {done}
          \/ DealCardsEnd(t, b) = UpdateMyButtonsState(t, late, 0)
      BY DEF DealCardsEnd
    <2> HIDE DEF done, late
    <2>4. UpdateMyButtonsState(t, late, 0) \subseteq ButtonsType
      BY <1>2, <2>2
    <2> QED BY <2>1, <2>3, <2>4
  <1>4. Asked(t, b) \subseteq ButtonsType
    <2>1. [MyButtonsCheckable(t, b, FALSE) EXCEPT !.raising = {}, !.repaint = "past"]
             \in ButtonsType
      <3>1. MyButtonsCheckable(t, b, FALSE) \in ButtonsType
        BY HelpersType
      <3> HIDE DEF MyButtonsCheckable
      <3> QED BY <3>1 DEF ButtonsType
    <2>2. -1 \in Int
      OBVIOUS
    <2> QED BY <1>1, <2>1, <2>2 DEF Asked
  <1> QED BY <1>1, <1>2, <1>3, <1>4

\* A click ticks a button with what it says.
LEMMA TickType ==
    ASSUME NEW b \in ButtonsType, NEW button \in Buttons
    PROVE  Tick(b, button) \in ButtonsType
  <1>1. Says(b, button) \in LabelType
    <2>1. /\ b.fold \in Texts /\ b.call \in LabelType /\ b.bet \in LabelType
          /\ (IF b.allin THEN "AllIn" ELSE "") \in Texts
      BY DEF ButtonsType, Texts
    <2>2. \A text \in Texts : Label(text, 0) \in LabelType
      BY DEF Label, LabelType
    <2> QED BY <2>1, <2>2 DEF Says, Buttons
  <1>2. ForgetTicks(b) \in ButtonsType
    BY BlankType DEF ForgetTicks, ButtonsType
  <1>3. [b EXCEPT !.checked = button, !.memory = button, !.seen = Says(b, button)]
           \in ButtonsType
    BY <1>1 DEF ButtonsType
  <1> QED BY <1>2, <1>3 DEF Tick

(***************************************************************************)
(* What a click changes                                                    *)
(***************************************************************************)

\* A click changes the client's own stack and what the next bet has to be, and
\* nothing else of the table: not the bets, the pot, the round or the ids.
Clicked(c, t) ==
    /\ t.state = c.state /\ t.hand = c.hand /\ t.gen = c.gen
    /\ t.nextDealer = c.nextDealer /\ t.set = c.set /\ t.pot = c.pot /\ t.sets = c.sets
    /\ t.cash[You] = c.cash[You] /\ t.round = c.round /\ t.smallBlind = c.smallBlind

LEMMA MeAndYou == Me \in Seats /\ You \in Seats /\ You # Me /\ Seats = {Me, You}
  BY MeAssumption DEF You, Other, Seats

\* All chips of the player.
LEMMA StakeAllType ==
    ASSUME NEW t \in ClientType
    PROVE  StakeAll(t) \in ClientType /\ Clicked(t, StakeAll(t))
  <1>1. /\ t.cash[Me] \in Int
        /\ [t.cash EXCEPT ![Me] = 0] \in [Seats -> Int]
        /\ [t.action EXCEPT ![Me] = "allin"] \in [Seats -> Actions]
    BY MeAndYou DEF ClientType, Actions
  <1>2. StakeAll(t) \in ClientType
    BY <1>1 DEF StakeAll, ClientType
  <1>3. Clicked(t, StakeAll(t))
    BY MeAndYou DEF StakeAll, ClientType, Clicked
  <1> QED BY <1>2, <1>3

\* Fold and check change the action only.
LEMMA FoldCheckType ==
    ASSUME NEW t \in ClientType
    PROVE  /\ MyFold(t) \in ClientType /\ Clicked(t, MyFold(t))
           /\ MyCheck(t) \in ClientType /\ Clicked(t, MyCheck(t))
  <1>1. ASSUME NEW a \in Actions
        PROVE  LET u == [t EXCEPT !.action[Me] = a, !.previous = "me"]
               IN u \in ClientType /\ Clicked(t, u)
    <2>1. [t.action EXCEPT ![Me] = a] \in [Seats -> Actions]
      BY MeAndYou DEF ClientType
    <2> QED BY <2>1 DEF ClientType, Clicked
  <1> QED BY <1>1 DEF MyFold, MyCheck, Actions

\* A call notes the amount, or stakes all chips.
LEMMA CallType ==
    ASSUME NEW t \in ClientType
    PROVE  MyCall(t) \in ClientType /\ Clicked(t, MyCall(t))
  <1> DEFINE u == [t EXCEPT !.relative = t.highestSet - t.set[Me], !.action[Me] = "call",
                            !.previous = "me"]
  <1>1. t.highestSet - t.set[Me] \in Int
    BY MeAndYou DEF ClientType
  <1>2. [t.action EXCEPT ![Me] = "call"] \in [Seats -> Actions]
    BY MeAndYou DEF ClientType, Actions
  <1>3. u \in ClientType /\ Clicked(t, u)
    BY <1>1, <1>2 DEF ClientType, Clicked
  <1>4. MyCall(t) = StakeAll(t) \/ MyCall(t) = u
    BY DEF MyCall
  <1> QED BY <1>3, <1>4, StakeAllType

\* What a click changes after the stake: the full bet rule, the action, and the
\* least raise with the bet to match.
LEMMA RuleType ==
    ASSUME NEW c \in ClientType, NEW t \in ClientType, Clicked(c, t), NEW rule \in BOOLEAN
    PROVE  LET u == [t EXCEPT !.fullBetRule = rule]
           IN u \in ClientType /\ Clicked(c, u)
  BY DEF ClientType, Clicked

LEMMA NamedType ==
    ASSUME NEW c \in ClientType, NEW t \in ClientType, Clicked(c, t), NEW a \in Actions
    PROVE  LET u == [t EXCEPT !.action[Me] = a]
           IN u \in ClientType /\ Clicked(c, u)
  <1>1. [t.action EXCEPT ![Me] = a] \in [Seats -> Actions]
    BY MeAndYou DEF ClientType
  <1> QED BY <1>1 DEF ClientType, Clicked

LEMMA RaiseType ==
    ASSUME NEW c \in ClientType, NEW t \in ClientType, Clicked(c, t),
           NEW raise \in Int, NEW highest \in Int
    PROVE  LET u == [t EXCEPT !.minimumRaise = raise, !.highestSet = highest]
           IN u \in ClientType /\ Clicked(c, u)
  BY DEF ClientType, Clicked

\* All in.
LEMMA AllInType ==
    ASSUME NEW t \in ClientType
    PROVE  MyAllIn(t) \in ClientType /\ Clicked(t, MyAllIn(t))
  <1> DEFINE s == StakeAll(t)
             rule == s.fullBetRule \/ ShortBet(t)
             u == [s EXCEPT !.fullBetRule = rule]
             raise == IF t.set[Me] > t.highestSet THEN t.set[Me] - t.highestSet
                      ELSE s.minimumRaise
             most == IF t.set[Me] > t.highestSet THEN t.set[Me] ELSE s.highestSet
  <1>1. s \in ClientType /\ Clicked(t, s)
    BY StakeAllType
  <1>2. rule \in BOOLEAN
    OBVIOUS
  <1>3. MyAllIn(t) = [u EXCEPT !.minimumRaise = raise, !.highestSet = most]
    BY DEF MyAllIn
  <1>4. raise \in Int /\ most \in Int
    <2>1. t.set[Me] \in Int /\ t.highestSet \in Int
      BY MeAndYou DEF ClientType
    <2>2. s.minimumRaise \in Int /\ s.highestSet \in Int
      <3> HIDE DEF s
      <3> QED BY <1>1 DEF ClientType
    <2> HIDE DEF s
    <2> QED BY <2>1, <2>2
  <1>5. u \in ClientType /\ Clicked(t, u)
    <2> HIDE DEF rule, s
    <2> QED BY <1>1, <1>2, RuleType
  <1> HIDE DEF u, raise, most
  <1>6. LET w == [u EXCEPT !.minimumRaise = raise, !.highestSet = most]
        IN w \in ClientType /\ Clicked(t, w)
    BY <1>4, <1>5, RaiseType
  <1> QED BY <1>3, <1>6

\* A bet or a raise.
LEMMA SetType ==
    ASSUME NEW t \in ClientType, NEW b \in ButtonsType
    PROVE  MySet(t, b) \in ClientType /\ Clicked(t, MySet(t, b))
  <1> DEFINE rule == StakeAll(t).fullBetRule \/ ShortBet(t)
             all == [StakeAll(t) EXCEPT !.fullBetRule = rule]
             part == [t EXCEPT !.relative = b.bet.amount, !.previous = "me"]
             staked == IF b.bet.amount >= t.cash[Me] THEN all ELSE part
             name == IF "Bet" \in b.raising THEN "bet" ELSE "raise"
             named == IF b.raising = {} \/ staked.action[Me] = "allin" THEN staked
                      ELSE [staked EXCEPT !.action[Me] = name]
             raise == IF "Bet" \in b.raising /\ t.set[Me] > 0 THEN t.set[Me]
                      ELSE IF "Raise" \in b.raising THEN AtLeast0(t.set[Me] - t.highestSet)
                      ELSE t.minimumRaise
  <1>1. all \in ClientType /\ Clicked(t, all)
    <2>1. rule \in BOOLEAN
      OBVIOUS
    <2> HIDE DEF rule
    <2> QED BY <2>1, StakeAllType, RuleType
  <1>2. part \in ClientType /\ Clicked(t, part)
    <2>1. b.bet.amount \in Int
      BY DEF ButtonsType, LabelType
    <2> QED BY <2>1 DEF ClientType, Clicked
  <1>3. staked \in ClientType /\ Clicked(t, staked)
    BY <1>1, <1>2
  <1>4. named \in ClientType /\ Clicked(t, named)
    <2>1. name \in Actions
      BY DEF Actions
    <2> HIDE DEF staked, name
    <2> QED BY <1>3, <2>1, NamedType
  <1>5. raise \in Int /\ t.set[Me] \in Int
    BY MeAndYou DEF ClientType, AtLeast0
  <1>6. MySet(t, b) = [named EXCEPT !.minimumRaise = raise, !.highestSet = t.set[Me]]
    BY DEF MySet
  <1> HIDE DEF named, raise
  <1>7. LET w == [named EXCEPT !.minimumRaise = raise, !.highestSet = t.set[Me]]
        IN w \in ClientType /\ Clicked(t, w)
    BY <1>4, <1>5, RaiseType
  <1> QED BY <1>6, <1>7

\* Whatever button is clicked, only the client's own stack, its actions and what
\* the next bet has to be change.
LEMMA ActType ==
    ASSUME NEW t \in ClientType, NEW b \in ButtonsType, NEW button \in Buttons
    PROVE  Act(t, b, button) \in ClientType /\ Clicked(t, Act(t, b, button))
  BY FoldCheckType, CallType, SetType, AllInType DEF Act, Buttons

\* The request of a click, and that the client has answered.
LEMMA AnswerType ==
    ASSUME NEW c \in ClientType, NEW t \in ClientType, Clicked(c, t)
    PROVE  /\ Request(t) \in RequestType
           /\ [t EXCEPT !.answered = TRUE] \in ClientType
           /\ Clicked(c, [t EXCEPT !.answered = TRUE])
  <1>1. Request(t) \in RequestType
    <2>1. t.action[Me] \in Actions /\ t.relative \in Int /\ t.hand \in Nat /\ t.round \in Rounds
      BY MeAndYou DEF ClientType
    <2> QED BY <2>1 DEF Request, RequestType
  <1> QED BY <1>1 DEF ClientType, Clicked

(***************************************************************************)
(* What the client makes of the messages that are still on their way       *)
(*                                                                         *)
(* A view is what the client shows of the table, without what a click      *)
(* changes: "NoTable" as long as it has no game, and once it was closed.   *)
(***************************************************************************)

NoView == [state |-> "NoTable"]
TableView(c) ==
    [state |-> c.state, hand |-> c.hand, gen |-> c.gen, dealer |-> c.nextDealer,
     set |-> c.set, sets |-> c.sets, pot |-> c.pot, yours |-> c.cash[You],
     round |-> c.round, smallBlind |-> c.smallBlind]
HasTable(c) == c.state \notin {"WaitGame", "Synchronize", "WaitStart", "Closed"}
View(c) == IF HasTable(c) THEN TableView(c) ELSE NoView

\* What a click changes.
Mine(c) ==
    [cash |-> c.cash[Me], highestSet |-> c.highestSet, minimumRaise |-> c.minimumRaise]

NoSets == [s \in Seats |-> 0]
SameIds(v, w) == w.hand = v.hand /\ w.gen = v.gen /\ w.dealer = v.dealer
SameChips(v, w) ==
    w.set = v.set /\ w.sets = v.sets /\ w.pot = v.pot /\ w.yours = v.yours

\* A start of the game opens a table.
Fresh(w, gen, dealer, number) ==
    /\ w.state = "WaitHand" /\ w.gen = gen /\ w.dealer = dealer /\ w.hand = number
    /\ w.set = NoSets /\ w.pot = 0
Opens(m, w) ==
    \/ m.type = "GameStartInitial" /\ Fresh(w, [s \in Seats |-> 0], m.dealer, 0)
    \/ m.type = "GameStartRejoin" /\ Fresh(w, m.gen, m.dealer, m.hand)

\* The client finds what a message is about.
Accepts(v, m) ==
    /\ m.type = "HandStart" => m.hand = v.hand + 1 /\ v.gen[v.dealer[1]] = v.dealer[2]
    /\ m.type = "PlayerIdChanged" => v.gen[m.who] = m.old
    /\ m.type = "ActionDone" =>
          v.gen[m.who] = m.gen /\ (m.blind = "no" => m.set >= v.set[m.who])
    /\ m.type \in {"PlayersTurn", "EndOfHandHide", "EndOfGame"} => v.gen[m.who] = m.gen
    /\ m.type \in {"AllInShowCards", "EndOfHandShow"} =>
          \A s \in Seats : v.gen[s] = m.gen[s]

\* The view after it.
StartsHand(v, m, w) ==
    /\ w.state = "RunHand" /\ w.hand = m.hand /\ w.gen = v.gen
    /\ w.dealer = <<Other(v.dealer[1]), v.gen[Other(v.dealer[1])]>>
    /\ w.round = PREFLOP /\ w.smallBlind = m.small /\ SameChips(v, w)
ChangesId(v, m, w) ==
    /\ w.state = v.state /\ w.hand = v.hand
    /\ w.gen = [v.gen EXCEPT ![m.who] = m.new]
    /\ w.dealer = IF v.dealer = <<m.who, m.old>> THEN <<m.who, m.new>> ELSE v.dealer
    /\ SameChips(v, w)
TakesAction(v, m, w) ==
    /\ w.state = v.state /\ SameIds(v, w)
    /\ w.set = [v.set EXCEPT ![m.who] = m.set] /\ w.sets = w.set[0] + w.set[1]
    /\ w.yours = IF m.who = You THEN m.cash ELSE v.yours
    /\ w.pot = v.pot /\ w.round = v.round /\ w.smallBlind = v.smallBlind
TakesTurn(v, m, w) ==
    /\ w.state = v.state /\ SameIds(v, w) /\ SameChips(v, w)
    /\ w.round = m.round /\ w.smallBlind = v.smallBlind
TakesCards(v, w) ==
    /\ w.state = v.state /\ SameIds(v, w)
    /\ w.set = NoSets /\ w.sets = 0 /\ w.pot = v.pot + v.sets /\ w.yours = v.yours
    /\ w.round = v.round /\ w.smallBlind = v.smallBlind
ShowsCards(v, w) ==
    /\ w.state = v.state /\ SameIds(v, w) /\ SameChips(v, w)
    /\ w.round = v.round /\ w.smallBlind = v.smallBlind
EndsHand(v, w) ==
    /\ w.state = "WaitHand" /\ SameIds(v, w) /\ w.set = NoSets /\ w.pot = 0

Takes(v, m, w) ==
    /\ m.type = "HandStart" => StartsHand(v, m, w)
    /\ m.type = "PlayerIdChanged" => ChangesId(v, m, w)
    /\ m.type = "ActionDone" => TakesAction(v, m, w)
    /\ m.type = "PlayersTurn" => TakesTurn(v, m, w)
    /\ m.type = "DealCards" => TakesCards(v, w)
    /\ m.type = "AllInShowCards" => ShowsCards(v, w)
    /\ m.type \in {"EndOfHandHide", "EndOfHandShow"} => EndsHand(v, w)
    /\ m.type = "EndOfGame" => w.state = "NoTable"

\* One message: dropped, the start of a game, an exception, or handled.
Sees(v, m, w) ==
    \/ m.type \notin Expects(v.state) /\ w = v
    \/ v.state = "NoTable" /\ Opens(m, w)
    \/ m.type \in Expects(v.state) /\ ~Accepts(v, m) /\ w.state = "Thrown"
    \/ m.type \in Expects(v.state) /\ Accepts(v, m) /\ Takes(v, m, w)

\* What a message makes of the client's own stack and the next bet, in a hand.
SeesMine(v, e, m, x) ==
    v.state = "RunHand" /\ Accepts(v, m) =>
        /\ m.type = "ActionDone" =>
              /\ x.cash = IF m.who = Me THEN m.cash ELSE e.cash
              /\ x.highestSet = m.highestSet /\ x.minimumRaise = m.minimumRaise
        /\ m.type = "PlayersTurn" =>
              IF v.round = m.round THEN x = e ELSE x.cash = e.cash /\ x.highestSet = 0
        /\ m.type = "DealCards" =>
              x.cash = e.cash /\ x.highestSet = 0 /\ x.minimumRaise = e.minimumRaise
        /\ m.type = "AllInShowCards" => x = e

\* After all of the messages ms, the view is w.  If exact, e is what the client's
\* own was before them, and x is what it is then.
Ends(exact, v, e, ms, w, x) ==
    \E f, g :
        /\ f[0] = v /\ g[0] = e /\ f[Len(ms)] = w /\ g[Len(ms)] = x
        /\ \A i \in 1..Len(ms) :
              Sees(f[i - 1], ms[i], f[i]) /\ (exact => SeesMine(f[i - 1], g[i - 1], ms[i], g[i]))

LEMMA EndsEmpty ==
    ASSUME NEW exact \in BOOLEAN, NEW v, NEW e, NEW w, NEW x
    PROVE  Ends(exact, v, e, << >>, w, x) <=> w = v /\ x = e
  <1>1. ASSUME Ends(exact, v, e, << >>, w, x)
        PROVE  w = v /\ x = e
    <2>1. Len(<< >>) = 0
      OBVIOUS
    <2> QED BY <1>1, <2>1 DEF Ends
  <1>2. ASSUME w = v, x = e
        PROVE  Ends(exact, v, e, << >>, w, x)
    <2> DEFINE f == [i \in {0} |-> v]
               g == [i \in {0} |-> e]
    <2>1. Len(<< >>) = 0 /\ f[0] = v /\ g[0] = e
      OBVIOUS
    <2>2. \A i \in 1..0 : FALSE
      OBVIOUS
    <2> HIDE DEF f, g
    <2> QED BY <1>2, <2>1, <2>2 DEF Ends
  <1> QED BY <1>1, <1>2

\* The first message, and then the others.
LEMMA EndsFirst ==
    ASSUME NEW exact \in BOOLEAN, NEW v, NEW e, NEW ms \in Seq(Messages), ms # << >>, NEW w, NEW x
    PROVE  Ends(exact, v, e, ms, w, x) <=>
             \E u, y : /\ Sees(v, Head(ms), u) /\ (exact => SeesMine(v, e, Head(ms), y))
                       /\ Ends(exact, u, y, Tail(ms), w, x)
  <1> DEFINE n == Len(ms)
  <1>1. /\ n \in Nat \ {0} /\ Head(ms) = ms[1] /\ Len(Tail(ms)) = n - 1
        /\ \A i \in 1..(n - 1) : Tail(ms)[i] = ms[i + 1]
    BY OldestMessage
  <1>2. ASSUME Ends(exact, v, e, ms, w, x)
        PROVE  \E u, y : /\ Sees(v, Head(ms), u) /\ (exact => SeesMine(v, e, Head(ms), y))
                         /\ Ends(exact, u, y, Tail(ms), w, x)
    <2>1. PICK f, g : /\ f[0] = v /\ g[0] = e /\ f[n] = w /\ g[n] = x
                      /\ \A i \in 1..n : /\ Sees(f[i - 1], ms[i], f[i])
                                         /\ (exact => SeesMine(f[i - 1], g[i - 1], ms[i], g[i]))
      BY <1>2 DEF Ends
    <2> HIDE DEF n
    <2>2. Sees(v, Head(ms), f[1]) /\ (exact => SeesMine(v, e, Head(ms), g[1]))
      BY <1>1, <2>1
    <2> DEFINE p == [i \in 0..(n - 1) |-> f[i + 1]]
               q == [i \in 0..(n - 1) |-> g[i + 1]]
    <2>3. p[0] = f[1] /\ q[0] = g[1] /\ p[n - 1] = w /\ q[n - 1] = x
      BY <1>1, <2>1
    <2>4. ASSUME NEW i \in 1..(n - 1)
          PROVE  /\ Sees(p[i - 1], Tail(ms)[i], p[i])
                 /\ (exact => SeesMine(p[i - 1], q[i - 1], Tail(ms)[i], q[i]))
      <3>1. /\ i + 1 \in 1..n /\ (i + 1) - 1 = i
            /\ p[i - 1] = f[i] /\ q[i - 1] = g[i] /\ p[i] = f[i + 1] /\ q[i] = g[i + 1]
        BY <1>1
      <3> HIDE DEF p, q
      <3> QED BY <1>1, <2>1, <3>1
    <2> HIDE DEF p, q
    <2>5. Ends(exact, f[1], g[1], Tail(ms), w, x)
      BY <1>1, <2>3, <2>4 DEF Ends
    <2> QED BY <2>2, <2>5
  <1>3. ASSUME NEW u, NEW y, Sees(v, Head(ms), u), (exact => SeesMine(v, e, Head(ms), y)),
               Ends(exact, u, y, Tail(ms), w, x)
        PROVE  Ends(exact, v, e, ms, w, x)
    <2> HIDE DEF n
    <2>1. PICK p, q : /\ p[0] = u /\ q[0] = y /\ p[n - 1] = w /\ q[n - 1] = x
                      /\ \A i \in 1..(n - 1) :
                            /\ Sees(p[i - 1], Tail(ms)[i], p[i])
                            /\ (exact => SeesMine(p[i - 1], q[i - 1], Tail(ms)[i], q[i]))
      BY <1>1, <1>3 DEF Ends
    <2> DEFINE f == [i \in 0..n |-> IF i = 0 THEN v ELSE p[i - 1]]
               g == [i \in 0..n |-> IF i = 0 THEN e ELSE q[i - 1]]
    <2>2. f[0] = v /\ g[0] = e /\ f[n] = w /\ g[n] = x
      BY <1>1, <2>1
    <2>3. ASSUME NEW i \in 1..n
          PROVE  Sees(f[i - 1], ms[i], f[i]) /\ (exact => SeesMine(f[i - 1], g[i - 1], ms[i], g[i]))
      <3>1. CASE i = 1
        <4>1. f[i - 1] = v /\ g[i - 1] = e /\ f[i] = u /\ g[i] = y /\ ms[i] = Head(ms)
          BY <1>1, <2>1, <3>1
        <4> HIDE DEF f, g
        <4> QED BY <1>3, <4>1
      <3>2. CASE i # 1
        <4>1. /\ i - 1 \in 1..(n - 1) /\ f[i] = p[i - 1] /\ g[i] = q[i - 1]
              /\ f[i - 1] = p[(i - 1) - 1] /\ g[i - 1] = q[(i - 1) - 1]
              /\ (i - 1) + 1 = i
          BY <1>1, <3>2
        <4>2. Tail(ms)[i - 1] = ms[i]
          BY <1>1, <4>1
        <4> HIDE DEF f, g
        <4> QED BY <2>1, <4>1, <4>2
      <3> QED BY <3>1, <3>2
    <2> HIDE DEF f, g
    <2> QED BY <2>2, <2>3 DEF Ends, n
  <1> QED BY <1>2, <1>3


\* One message.
LEMMA EndsOne ==
    ASSUME NEW exact \in BOOLEAN, NEW v, NEW e, NEW m \in Messages, NEW w, NEW x, Ends(exact, v, e, <<m>>, w, x)
    PROVE  Sees(v, m, w) /\ (exact => SeesMine(v, e, m, x))
  <1> DEFINE ms == <<m>>
  <1>1. /\ ms \in Seq(Messages) /\ ms # << >>
        /\ Head(ms) = m /\ Tail(ms) = << >>
        /\ Ends(exact, v, e, ms, w, x)
    OBVIOUS
  <1> HIDE DEF ms
  <1>2. PICK u, y : /\ Sees(v, Head(ms), u) /\ (exact => SeesMine(v, e, Head(ms), y))
                    /\ Ends(exact, u, y, Tail(ms), w, x)
    BY <1>1, EndsFirst
  <1>3. Sees(v, m, u) /\ Ends(exact, u, y, << >>, w, x)
    BY <1>1, <1>2
  <1>4. exact => SeesMine(v, e, m, y)
    BY <1>1, <1>2
  <1>5. w = u /\ x = y
    BY <1>3, EndsEmpty
  <1> QED BY <1>3, <1>4, <1>5

\* Some messages, and then others.
LEMMA EndsBoth ==
    ASSUME NEW exact \in BOOLEAN, NEW v, NEW e, NEW ms \in Seq(Messages), NEW ns \in Seq(Messages), NEW w, NEW x,
           Ends(exact, v, e, ms \o ns, w, x)
    PROVE  \E u, y : Ends(exact, v, e, ms, u, y) /\ Ends(exact, u, y, ns, w, x)
  <1> DEFINE k == Len(ms)
             n == Len(ns)
  <1>1. /\ k \in Nat /\ n \in Nat /\ Len(ms \o ns) = k + n
        /\ \A i \in 1..k : (ms \o ns)[i] = ms[i]
        /\ \A i \in 1..n : (ms \o ns)[k + i] = ns[i]
    OBVIOUS
  <1> HIDE DEF k, n
  <1>2. PICK f, g : /\ f[0] = v /\ g[0] = e /\ f[k + n] = w /\ g[k + n] = x
                    /\ \A i \in 1..(k + n) :
                          /\ Sees(f[i - 1], (ms \o ns)[i], f[i])
                          /\ (exact => SeesMine(f[i - 1], g[i - 1], (ms \o ns)[i], g[i]))
    BY <1>1 DEF Ends
  <1>3. \A i \in 1..k : /\ Sees(f[i - 1], ms[i], f[i])
                        /\ (exact => SeesMine(f[i - 1], g[i - 1], ms[i], g[i]))
    <2>1. SUFFICES ASSUME NEW i \in 1..k
                   PROVE  /\ Sees(f[i - 1], ms[i], f[i])
                          /\ (exact => SeesMine(f[i - 1], g[i - 1], ms[i], g[i]))
      OBVIOUS
    <2>2. i \in 1..(k + n) /\ (ms \o ns)[i] = ms[i]
      BY <1>1
    <2>3. /\ Sees(f[i - 1], (ms \o ns)[i], f[i])
          /\ (exact => SeesMine(f[i - 1], g[i - 1], (ms \o ns)[i], g[i]))
      BY <1>2, <2>2
    <2> QED BY <2>2, <2>3
  <1>4. Ends(exact, v, e, ms, f[k], g[k])
    BY <1>2, <1>3 DEF Ends, k
  <1> DEFINE p == [i \in 0..n |-> f[k + i]]
             q == [i \in 0..n |-> g[k + i]]
  <1>5. p[0] = f[k] /\ q[0] = g[k] /\ p[n] = w /\ q[n] = x
    BY <1>1, <1>2
  <1>6. ASSUME NEW i \in 1..n
        PROVE  Sees(p[i - 1], ns[i], p[i]) /\ (exact => SeesMine(p[i - 1], q[i - 1], ns[i], q[i]))
    <2>1. i - 1 \in 0..n /\ i \in 0..n /\ k + i \in 1..(k + n) /\ (k + i) - 1 = k + (i - 1)
      BY <1>1
    <2>2. /\ p[i - 1] = f[k + (i - 1)] /\ q[i - 1] = g[k + (i - 1)]
          /\ p[i] = f[k + i] /\ q[i] = g[k + i]
      BY <2>1
    <2>3. (ms \o ns)[k + i] = ns[i]
      BY <1>1
    <2>4. /\ Sees(f[(k + i) - 1], (ms \o ns)[k + i], f[k + i])
          /\ (exact => SeesMine(f[(k + i) - 1], g[(k + i) - 1], (ms \o ns)[k + i], g[k + i]))
      BY <1>2, <2>1
    <2> HIDE DEF p, q
    <2> QED BY <2>1, <2>2, <2>3, <2>4
  <1> HIDE DEF p, q
  <1>7. Ends(exact, f[k], g[k], ns, w, x)
    BY <1>5, <1>6 DEF Ends, n
  <1> QED BY <1>4, <1>7

LEMMA EndsLoosely ==
    ASSUME NEW v, NEW e, NEW ms, NEW w, NEW x, Ends(TRUE, v, e, ms, w, x)
    PROVE  Ends(FALSE, v, e, ms, w, x)
  BY DEF Ends

\* The messages a state of the client handles.
LEMMA ExpectedTypes ==
    /\ Expects("NoTable") = {} /\ Expects("Thrown") = {} /\ Expects("Closed") = {}
    /\ Expects("WaitGame") = {"StartEvent"}
    /\ Expects("Synchronize") = {"GameStartInitial"}
    /\ Expects("WaitStart") = {"GameStartInitial", "GameStartRejoin"}
    /\ Expects("WaitHand") = {"HandStart", "EndOfGame", "PlayerIdChanged"}
    /\ Expects("RunHand") = {"ActionDone", "PlayersTurn", "DealCards", "AllInShowCards",
                             "EndOfHandHide", "EndOfHandShow"}
  <1>1. Expects("NoTable") = {} /\ Expects("Thrown") = {} /\ Expects("Closed") = {}
    BY Zenon DEF Expects
  <1>2. /\ Expects("WaitGame") = {"StartEvent"}
        /\ Expects("Synchronize") = {"GameStartInitial"}
    BY DEF Expects
  <1>3. Expects("WaitStart") = {"GameStartInitial", "GameStartRejoin"}
    BY DEF Expects
  <1>4. Expects("WaitHand") = {"HandStart", "EndOfGame", "PlayerIdChanged"}
    BY DEF Expects
  <1>5. Expects("RunHand") = {"ActionDone", "PlayersTurn", "DealCards", "AllInShowCards",
                              "EndOfHandHide", "EndOfHandShow"}
    BY DEF Expects
  <1> QED BY <1>1, <1>2, <1>3, <1>4, <1>5

\* A client that threw an exception stays as it is.
LEMMA ThrownStays ==
    ASSUME NEW exact \in BOOLEAN, NEW v, v.state = "Thrown", NEW e, NEW ms \in Seq(Messages)
    PROVE  Ends(exact, v, e, ms, v, e)
  <1> DEFINE f == [i \in 0..Len(ms) |-> v]
             g == [i \in 0..Len(ms) |-> e]
  <1>1. f[0] = v /\ g[0] = e /\ f[Len(ms)] = v /\ g[Len(ms)] = e
    OBVIOUS
  <1>2. ASSUME NEW i \in 1..Len(ms)
        PROVE  Sees(f[i - 1], ms[i], f[i]) /\ (exact => SeesMine(f[i - 1], g[i - 1], ms[i], g[i]))
    <2>1. f[i - 1] = v /\ f[i] = v
      OBVIOUS
    <2> HIDE DEF f, g
    <2> QED BY <2>1, ExpectedTypes DEF Sees, SeesMine
  <1> HIDE DEF f, g
  <1> QED BY <1>1, <1>2 DEF Ends


(***************************************************************************)
(* The client's handlers: each takes the oldest message as Sees says       *)
(***************************************************************************)

\* A client's view, by its state.
LEMMA ViewFields ==
    ASSUME NEW c \in ClientType
    PROVE  /\ c.state \in {"WaitHand", "RunHand", "Thrown"} =>
                 View(c) = TableView(c) /\ View(c).state = c.state
           /\ c.state \in {"WaitGame", "Synchronize", "WaitStart", "Closed"} =>
                 View(c) = NoView /\ View(c).state = "NoTable"
  BY DEF View, HasTable, NoView, TableView

\* What a click changes is not in the view.
LEMMA ClickedView ==
    ASSUME NEW c, NEW t, Clicked(c, t)
    PROVE  View(t) = View(c)
  BY DEF Clicked, View, HasTable, TableView

\* A client without a table.
LEMMA NoTableType ==
    ASSUME NEW cstate \in ClientStates
    PROVE  NoTable(cstate) \in ClientType /\ NoTable(cstate).state = cstate
  <1>1. FirstBlinds \in ClientBlinds
    BY SettingsAssumption DEF FirstBlinds, ClientBlinds
  <1>2. /\ [s \in Seats |-> 0] \in [Seats -> Nat] /\ [s \in Seats |-> 0] \in [Seats -> Int]
        /\ [s \in Seats |-> "none"] \in [Seats -> Actions]
        /\ <<0, 0>> \in Seats \X Nat /\ PREFLOP \in Rounds
    BY DEF Seats, Actions, PREFLOP, Rounds
  <1> HIDE DEF FirstBlinds
  <1>3. NoTable(cstate) \in ClientType
    BY <1>1, <1>2 DEF NoTable, ClientType
  <1> QED BY <1>3 DEF NoTable

\* The game a start message makes.
LEMMA NewGameType ==
    ASSUME NEW gen \in [Seats -> Nat], NEW cash \in [Seats -> Nat],
           NEW dealer \in Seats \X Nat, NEW number \in Nat
    PROVE  LET t == NewGame(gen, cash, dealer, number)
           IN t \in ClientType /\ Fresh(View(t), gen, dealer, number)
  <1> DEFINE n == NoTable("WaitHand")
             t == NewGame(gen, cash, dealer, number)
             b == [n.blinds EXCEPT !.since = number - 1]
  <1>1. n \in ClientType /\ n.state = "WaitHand" /\ n.set = NoSets /\ n.pot = 0
    BY NoTableType DEF ClientStates, NoTable, NoSets
  <1>2. b \in ClientBlinds
    <2>1. n.blinds \in ClientBlinds
      <3> HIDE DEF n
      <3> QED BY <1>1 DEF ClientType
    <2>2. number - 1 \in Int
      OBVIOUS
    <2> HIDE DEF n
    <2> QED BY <2>1, <2>2 DEF ClientBlinds
  <1>3. cash \in [Seats -> Int]
    OBVIOUS
  <1>4. t = [n EXCEPT !.gen = gen, !.cash = cash, !.nextDealer = dealer,
                      !.hand = number, !.blinds = b]
    BY DEF NewGame
  <1> HIDE DEF n, b, t
  <1>5. /\ t \in ClientType /\ t.state = "WaitHand" /\ t.gen = gen
        /\ t.nextDealer = dealer /\ t.hand = number /\ t.set = NoSets /\ t.pot = 0
    BY <1>1, <1>2, <1>3, <1>4 DEF ClientType
  <1>6. View(t) = TableView(t)
    BY <1>5, ViewFields
  <1> QED BY <1>5, <1>6 DEF Fresh, TableView, t

\* What a handler of the client leaves of the messages, the requests and the
\* server, when it neither answers nor waits.
TakesOldest ==
    /\ down # << >> /\ down' = Tail(down)
    /\ UNCHANGED <<vars, hands, ids, logins, astray>>
SeesOldest ==
    /\ Sees(View(client), Head(down), View(client'))
    /\ SeesMine(View(client), Mine(client), Head(down), Mine(client'))
ClientTakes ==
    /\ SeesOldest /\ TakesOldest /\ UNCHANGED up
    /\ client' \in ClientType /\ buttons' \in ButtonsType

\* The state a message is handled in.
LEMMA HandledIn ==
    ASSUME client \in ClientType, NEW type, type \in Expects(client.state)
    PROVE  /\ type = "StartEvent" => client.state = "WaitGame"
           /\ type \in {"GameStartInitial", "GameStartRejoin"} =>
                 client.state \in {"Synchronize", "WaitStart"}
           /\ type \in {"HandStart", "EndOfGame", "PlayerIdChanged"} =>
                 client.state = "WaitHand"
           /\ type \in {"ActionDone", "PlayersTurn", "DealCards", "AllInShowCards",
                        "EndOfHandHide", "EndOfHandShow"} => client.state = "RunHand"
  <1>1. client.state \in ClientStates
    BY DEF ClientType
  <1> QED BY <1>1, ExpectedTypes DEF ClientStates

\* An exception.
LEMMA ThrowsSees ==
    ASSUME NetTypeOK, client.state \in {"WaitHand", "RunHand"},
           Head(down).type \in Expects(client.state),
           ~Accepts(View(client), Head(down)), Throws, TakesOldest
    PROVE  ClientTakes
  <1>1. /\ client' = [client EXCEPT !.state = "Thrown"] /\ buttons' = BlankButtons
        /\ UNCHANGED up
    BY DEF Throws, Becomes
  <1>2. client \in ClientType /\ View(client).state = client.state
    BY ViewFields DEF NetTypeOK
  <1>3. client' \in ClientType /\ client'.state = "Thrown"
    BY <1>1, <1>2 DEF ClientType, ClientStates
  <1>4. View(client').state = "Thrown"
    BY <1>3, ViewFields
  <1> QED BY <1>1, <1>2, <1>3, <1>4, BlankType
          DEF ClientTakes, SeesOldest, Sees, SeesMine

\* A message the client's state does not handle.
LEMMA CDropSees ==
    ASSUME NetTypeOK, CDrop
    PROVE  ClientTakes
  <1>1. /\ client' = client /\ buttons' = buttons /\ UNCHANGED <<up, astray>>
        /\ client \in ClientType /\ buttons \in ButtonsType
        /\ Head(down).type \notin Expects(client.state)
        /\ client.state # "Thrown"
    BY DEF CDrop, NetTypeOK, clientVars
  <1>2. TakesOldest
    BY <1>1 DEF CDrop, Receives, TakesOldest
  <1>3. \/ View(client).state = client.state
        \/ View(client).state = "NoTable"
    BY <1>1, ViewFields DEF ClientType, ClientStates
  <1>4. Head(down).type \notin Expects(View(client).state)
    BY <1>1, <1>3, ExpectedTypes
  <1>5. SeesMine(View(client), Mine(client), Head(down), Mine(client))
    BY <1>4, ExpectedTypes DEF SeesMine
  <1> QED BY <1>1, <1>2, <1>4, <1>5 DEF ClientTakes, SeesOldest, Sees


\* What a handler starts with.
LEMMA HandlesFacts ==
    ASSUME NetTypeOK, NEW type, Handles(type), UNCHANGED astray
    PROVE  /\ TakesOldest /\ type \in Expects(client.state)
           /\ Head(down) \in Messages /\ Head(down).type = type
           /\ client \in ClientType /\ buttons \in ButtonsType
  <1>1. /\ type \in Expects(client.state) /\ down # << >> /\ Head(down).type = type
        /\ TakesOldest
    BY DEF Handles, Receives, TakesOldest
  <1> QED BY <1>1, OldestMessage DEF NetTypeOK

\* The messages before the table is there.
LEMMA CStartEventSees ==
    ASSUME NetTypeOK, CStartEvent
    PROVE  ClientTakes
  <1>1. /\ Handles("StartEvent") /\ UNCHANGED <<up, astray>> /\ buttons' = buttons
        /\ client' = [client EXCEPT !.state = "Synchronize"]
    BY DEF CStartEvent, Becomes
  <1>2. TakesOldest /\ client \in ClientType /\ buttons \in ButtonsType
    BY <1>1, HandlesFacts
  <1>3. client.state = "WaitGame"
    BY <1>1, HandlesFacts, HandledIn
  <1>4. client' \in ClientType /\ client'.state = "Synchronize"
    BY <1>1, <1>2 DEF ClientType, ClientStates
  <1>5. View(client) = NoView /\ View(client') = NoView /\ NoView.state = "NoTable"
    BY <1>2, <1>3, <1>4, ViewFields
  <1> QED BY <1>1, <1>2, <1>4, <1>5, ExpectedTypes
          DEF ClientTakes, SeesOldest, Sees, SeesMine

LEMMA CGameStartInitialSees ==
    ASSUME NetTypeOK, CGameStartInitial
    PROVE  ClientTakes
  <1> DEFINE m == Head(down)
             gen == [s \in Seats |-> 0]
             cash == [s \in Seats |-> StartCash]
  <1>1. /\ Handles("GameStartInitial") /\ UNCHANGED <<up, astray>> /\ buttons' = buttons
        /\ client' = NewGame(gen, cash, m.dealer, 0)
    BY DEF CGameStartInitial, Becomes
  <1>2. /\ TakesOldest /\ client \in ClientType /\ buttons \in ButtonsType
        /\ m \in Messages /\ m.type = "GameStartInitial"
    BY <1>1, HandlesFacts
  <1>3. client.state \in {"Synchronize", "WaitStart"}
    BY <1>1, HandlesFacts, HandledIn
  <1>4. gen \in [Seats -> Nat] /\ cash \in [Seats -> Nat] /\ m.dealer \in Seats \X Nat
    BY <1>2, MessageFields, SettingsAssumption
  <1> HIDE DEF gen, cash, m
  <1>5. client' \in ClientType /\ Fresh(View(client'), gen, m.dealer, 0)
    BY <1>1, <1>4, NewGameType
  <1>6. View(client).state = "NoTable" /\ Opens(m, View(client'))
    BY <1>2, <1>3, <1>5, ViewFields DEF Opens, gen
  <1> QED BY <1>1, <1>2, <1>5, <1>6 DEF ClientTakes, SeesOldest, Sees, SeesMine, m

LEMMA CGameStartRejoinSees ==
    ASSUME NetTypeOK, CGameStartRejoin
    PROVE  ClientTakes
  <1> DEFINE m == Head(down)
  <1>1. /\ Handles("GameStartRejoin") /\ UNCHANGED <<up, astray>> /\ buttons' = buttons
        /\ client' = NewGame(m.gen, m.cash, m.dealer, m.hand)
    BY DEF CGameStartRejoin, Becomes
  <1>2. /\ TakesOldest /\ client \in ClientType /\ buttons \in ButtonsType
        /\ m \in Messages /\ m.type = "GameStartRejoin"
    BY <1>1, HandlesFacts
  <1>3. client.state \in {"Synchronize", "WaitStart"}
    BY <1>1, HandlesFacts, HandledIn
  <1>4. /\ m.gen \in [Seats -> Nat] /\ m.cash \in [Seats -> Nat]
        /\ m.dealer \in Seats \X Nat /\ m.hand \in Nat
    BY <1>2, MessageFields
  <1> HIDE DEF m
  <1>5. client' \in ClientType /\ Fresh(View(client'), m.gen, m.dealer, m.hand)
    BY <1>1, <1>4, NewGameType
  <1>6. View(client).state = "NoTable" /\ Opens(m, View(client'))
    BY <1>2, <1>3, <1>5, ViewFields DEF Opens
  <1> QED BY <1>1, <1>2, <1>5, <1>6 DEF ClientTakes, SeesOldest, Sees, SeesMine, m

\* A handled message that the client accepts.
LEMMA TakesSees ==
    ASSUME NetTypeOK, TakesOldest, UNCHANGED up,
           client' \in ClientType, buttons' \in ButtonsType,
           client.state \in {"WaitHand", "RunHand"},
           Head(down).type \in Expects(client.state),
           Accepts(TableView(client), Head(down)),
           Takes(TableView(client), Head(down), View(client')),
           SeesMine(TableView(client), Mine(client), Head(down), Mine(client'))
    PROVE  ClientTakes
  <1>1. View(client) = TableView(client) /\ View(client).state = client.state
    BY ViewFields DEF NetTypeOK
  <1> QED BY <1>1 DEF ClientTakes, SeesOldest, Sees


LEMMA CPlayerIdChangedSees ==
    ASSUME NetTypeOK, CPlayerIdChanged
    PROVE  ClientTakes
  <1> DEFINE m == Head(down)
             c == [client EXCEPT !.gen[m.who] = m.new, !.nextDealer =
                      IF @ = <<m.who, m.old>> THEN <<m.who, m.new>> ELSE @]
  <1>1. /\ Handles("PlayerIdChanged") /\ UNCHANGED astray
        /\ ~Knows(m.who, m.old) => Throws
        /\ Knows(m.who, m.old) => Becomes(c, buttons)
    BY DEF CPlayerIdChanged, Throws, Becomes
  <1>2. /\ TakesOldest /\ client \in ClientType /\ buttons \in ButtonsType
        /\ m \in Messages /\ m.type = "PlayerIdChanged" /\ m.type \in Expects(client.state)
    BY <1>1, HandlesFacts
  <1>3. client.state = "WaitHand"
    BY <1>2, HandledIn
  <1>4. m.who \in Seats /\ m.old \in Nat /\ m.new \in Nat
    BY <1>2, MessageFields
  <1>5. View(client) = TableView(client)
    BY <1>2, <1>3, ViewFields
  <1>6. Knows(m.who, m.old) <=> Accepts(TableView(client), m)
    BY <1>2 DEF Knows, Accepts, TableView
  <1>7. CASE ~Knows(m.who, m.old)
    BY <1>1, <1>2, <1>3, <1>5, <1>6, <1>7, ThrowsSees
  <1>8. CASE Knows(m.who, m.old)
    <2> DEFINE gen == [client.gen EXCEPT ![m.who] = m.new]
               dealer == IF client.nextDealer = <<m.who, m.old>> THEN <<m.who, m.new>>
                         ELSE client.nextDealer
    <2> HIDE DEF m
    <2>1. client' = c /\ buttons' = buttons /\ UNCHANGED up
      BY <1>1, <1>8 DEF Becomes
    <2>2. gen \in [Seats -> Nat] /\ dealer \in Seats \X Nat
      BY <1>2, <1>4 DEF ClientType
    <2>3. c = [client EXCEPT !.gen = gen, !.nextDealer = dealer]
      BY <1>2 DEF ClientType
    <2> HIDE DEF gen, dealer, c
    <2>4. /\ client' \in ClientType /\ client'.state = "WaitHand"
          /\ client'.gen = gen /\ client'.nextDealer = dealer
          /\ client'.hand = client.hand /\ client'.set = client.set
          /\ client'.sets = client.sets /\ client'.pot = client.pot
          /\ client'.cash = client.cash
      BY <1>2, <1>3, <2>1, <2>2, <2>3 DEF ClientType
    <2>5. View(client') = TableView(client')
      BY <2>4, ViewFields
    <2>6. ChangesId(TableView(client), m, TableView(client'))
      BY <1>3, <2>4 DEF ChangesId, TableView, SameChips, gen, dealer
    <2>7. Takes(TableView(client), m, View(client'))
      BY <1>2, <2>5, <2>6 DEF Takes
    <2>8. SeesMine(TableView(client), Mine(client), m, Mine(client'))
      BY <1>3 DEF SeesMine, TableView
    <2> QED BY <1>2, <1>3, <1>6, <1>8, <2>1, <2>4, <2>7, <2>8, TakesSees DEF m
  <1> QED BY <1>7, <1>8

LEMMA CHandStartSees ==
    ASSUME NetTypeOK, NEW minutesUp \in BOOLEAN, CHandStart(minutesUp)
    PROVE  ClientTakes
  <1> DEFINE m == Head(down)
             d == client.nextDealer
             next == <<Other(d[1]), client.gen[Other(d[1])]>>
             raised == RaiseBlinds(client.blinds, minutesUp)
             c == [client EXCEPT !.state = "RunHand", !.hand = m.hand, !.active = m.active,
                     !.nextDealer = next, !.blinds = raised, !.smallBlind = m.small,
                     !.minimumRaise = 2 * m.small, !.highestSet = 0, !.fullBetRule = FALSE,
                     !.action = [s \in Seats |-> "none"], !.round = PREFLOP,
                     !.bigBlind = FALSE, !.allIn = FALSE, !.previous = "none"]
             throws == m.hand # client.hand + 1 \/ ~Knows(d[1], d[2])
  <1>1. /\ Handles("HandStart") /\ UNCHANGED astray
        /\ throws => Throws
        /\ ~throws => Becomes(c, CleanButtons(buttons))
    BY DEF CHandStart, Throws, Becomes
  <1>2. /\ TakesOldest /\ client \in ClientType /\ buttons \in ButtonsType
        /\ m \in Messages /\ m.type = "HandStart" /\ m.type \in Expects(client.state)
    BY <1>1, HandlesFacts
  <1>3. client.state = "WaitHand"
    BY <1>2, HandledIn
  <1>4. m.small \in Nat /\ m.hand \in Nat /\ m.active \in BOOLEAN
    BY <1>2, MessageFields
  <1>5. View(client) = TableView(client)
    BY <1>2, <1>3, ViewFields
  <1>6. ~throws <=> Accepts(TableView(client), m)
    <2> HIDE DEF m
    <2> QED BY <1>2 DEF Knows, Accepts, TableView
  <1>7. CASE throws
    BY <1>1, <1>2, <1>3, <1>5, <1>6, <1>7, ThrowsSees
  <1>8. CASE ~throws
    <2>1. client' = c /\ buttons' = CleanButtons(buttons) /\ UNCHANGED up
      BY <1>1, <1>8 DEF Becomes
    <2> HIDE DEF m, throws
    <2>2. next \in Seats \X Nat
      BY <1>2 DEF ClientType, Seats, Other
    <2>3. raised \in ClientBlinds
      <3>1. client.blinds \in ClientBlinds
        BY <1>2 DEF ClientType
      <3>2. RaisedBlinds(client.blinds) \in ClientBlinds
        BY <3>1, RaisedBlindsType DEF ScheduleType, ClientBlinds
      <3> DEFINE since == IF RaiseOnHands THEN client.blinds.since + 1
                          ELSE client.blinds.since
      <3>3. since \in Int
        BY <3>1 DEF ClientBlinds
      <3>4. \/ raised = RaisedBlinds(client.blinds)
            \/ raised = [client.blinds EXCEPT !.since = since]
        BY DEF RaiseBlinds
      <3> HIDE DEF since, raised
      <3> QED BY <3>1, <3>2, <3>3, <3>4 DEF ClientBlinds
    <2>4. /\ 2 * m.small \in Int /\ PREFLOP \in Rounds
          /\ [s \in Seats |-> "none"] \in [Seats -> Actions]
      BY <1>4 DEF PREFLOP, Rounds, Actions
    <2> HIDE DEF raised, next
    <2>5. c \in ClientType
      <3> DEFINE none == [s \in Seats |-> "none"]
                 c1 == [client EXCEPT !.state = "RunHand", !.hand = m.hand, !.active = m.active]
                 small == m.small
                 twice == 2 * m.small
                 c2 == [c1 EXCEPT !.nextDealer = next, !.blinds = raised, !.smallBlind = small]
                 c3 == [c2 EXCEPT !.minimumRaise = twice, !.highestSet = 0]
                 c4 == [c3 EXCEPT !.fullBetRule = FALSE, !.action = none]
                 c5 == [c4 EXCEPT !.round = PREFLOP, !.bigBlind = FALSE]
      <3>1. c = [c5 EXCEPT !.allIn = FALSE, !.previous = "none"]
        OBVIOUS
      <3>2. none \in [Seats -> Actions] /\ small \in Int /\ twice \in Int
        BY <1>4, <2>4
      <3> HIDE DEF none, small, twice
      <3>3. c1 \in ClientType
        BY <1>2, <1>4 DEF ClientType, ClientStates
      <3> HIDE DEF c1
      <3>4. c2 \in ClientType
        BY <2>2, <2>3, <3>2, <3>3 DEF ClientType
      <3> HIDE DEF c2
      <3>5. c3 \in ClientType
        <4>1. Clicked(c2, c2) /\ 0 \in Int
          BY DEF Clicked
        <4> QED BY <3>2, <3>4, <4>1, RaiseType
      <3> HIDE DEF c3
      <3>6. c4 \in ClientType
        BY <3>2, <3>5 DEF ClientType
      <3> HIDE DEF c4
      <3>7. c5 \in ClientType
        BY <2>4, <3>6 DEF ClientType
      <3> HIDE DEF c5, c
      <3> QED BY <3>1, <3>7 DEF ClientType
    <2>6. /\ client'.state = "RunHand" /\ client'.hand = m.hand
          /\ client'.gen = client.gen /\ client'.nextDealer = next
          /\ client'.round = PREFLOP /\ client'.smallBlind = m.small
          /\ client'.set = client.set /\ client'.sets = client.sets
          /\ client'.pot = client.pot /\ client'.cash = client.cash
      BY <1>2, <2>1 DEF ClientType
    <2> HIDE DEF c
    <2>7. View(client') = TableView(client')
      BY <2>1, <2>5, <2>6, ViewFields
    <2>8. StartsHand(TableView(client), m, TableView(client'))
      BY <2>6 DEF StartsHand, TableView, SameChips, next
    <2>9. Takes(TableView(client), m, View(client'))
      BY <1>2, <2>7, <2>8 DEF Takes
    <2>10. SeesMine(TableView(client), Mine(client), m, Mine(client'))
      BY <1>3 DEF SeesMine, TableView
    <2>11. buttons' \in ButtonsType
      BY <1>2, <2>1, HelpersType
    <2> QED BY <1>2, <1>3, <1>6, <1>8, <2>1, <2>5, <2>9, <2>10, <2>11, TakesSees DEF m
  <1> QED BY <1>7, <1>8


\* The table after an action, as the server says.
Done(c, action, set, cash, sets, highest, raise, big, previous) ==
    [c EXCEPT !.action = action, !.set = set, !.cash = cash, !.sets = sets,
              !.highestSet = highest, !.minimumRaise = raise, !.bigBlind = big,
              !.previous = previous]

LEMMA DoneType ==
    ASSUME NEW c \in ClientType, NEW action \in [Seats -> Actions], NEW set \in [Seats -> Int],
           NEW cash \in [Seats -> Int], NEW sets \in Int, NEW highest \in Int,
           NEW raise \in Int, NEW big \in BOOLEAN, NEW previous \in {"none", "me", "other"}
    PROVE  LET d == Done(c, action, set, cash, sets, highest, raise, big, previous)
           IN /\ d \in ClientType
              /\ d.state = c.state /\ d.hand = c.hand /\ d.gen = c.gen
              /\ d.nextDealer = c.nextDealer /\ d.set = set /\ d.sets = sets
              /\ d.cash = cash /\ d.pot = c.pot /\ d.round = c.round
              /\ d.smallBlind = c.smallBlind
              /\ d.highestSet = highest /\ d.minimumRaise = raise
              /\ d.fullBetRule = c.fullBetRule
  <1> DEFINE c1 == [c EXCEPT !.action = action, !.set = set, !.cash = cash]
             c2 == [c1 EXCEPT !.sets = sets]
             c3 == [c2 EXCEPT !.highestSet = highest]
             c4 == [c3 EXCEPT !.minimumRaise = raise]
             d == [c4 EXCEPT !.bigBlind = big, !.previous = previous]
  <1>1. /\ c1 \in ClientType /\ c1.fullBetRule = c.fullBetRule
        /\ c1.state = c.state /\ c1.hand = c.hand /\ c1.gen = c.gen
        /\ c1.nextDealer = c.nextDealer /\ c1.set = set /\ c1.cash = cash
        /\ c1.pot = c.pot /\ c1.round = c.round /\ c1.smallBlind = c.smallBlind
    BY DEF ClientType
  <1> HIDE DEF c1
  <1>2. /\ c2 \in ClientType /\ c2.fullBetRule = c.fullBetRule
        /\ c2.state = c.state /\ c2.hand = c.hand /\ c2.gen = c.gen
        /\ c2.nextDealer = c.nextDealer /\ c2.set = set /\ c2.cash = cash
        /\ c2.pot = c.pot /\ c2.round = c.round /\ c2.smallBlind = c.smallBlind
        /\ c2.sets = sets
    BY <1>1 DEF ClientType
  <1> HIDE DEF c2
  <1>3. /\ c3 \in ClientType /\ c3.fullBetRule = c.fullBetRule
        /\ c3.state = c.state /\ c3.hand = c.hand /\ c3.gen = c.gen
        /\ c3.nextDealer = c.nextDealer /\ c3.set = set /\ c3.cash = cash
        /\ c3.pot = c.pot /\ c3.round = c.round /\ c3.smallBlind = c.smallBlind
        /\ c3.sets = sets /\ c3.highestSet = highest
    BY <1>2 DEF ClientType
  <1> HIDE DEF c3
  <1>4. /\ c4 \in ClientType /\ c4.fullBetRule = c.fullBetRule
        /\ c4.state = c.state /\ c4.hand = c.hand /\ c4.gen = c.gen
        /\ c4.nextDealer = c.nextDealer /\ c4.set = set /\ c4.cash = cash
        /\ c4.pot = c.pot /\ c4.round = c.round /\ c4.smallBlind = c.smallBlind
        /\ c4.sets = sets /\ c4.highestSet = highest /\ c4.minimumRaise = raise
    BY <1>3 DEF ClientType
  <1> HIDE DEF c4
  <1>5. /\ d \in ClientType /\ d.fullBetRule = c.fullBetRule
        /\ d.state = c.state /\ d.hand = c.hand /\ d.gen = c.gen
        /\ d.nextDealer = c.nextDealer /\ d.set = set /\ d.cash = cash
        /\ d.pot = c.pot /\ d.round = c.round /\ d.smallBlind = c.smallBlind
        /\ d.sets = sets /\ d.highestSet = highest /\ d.minimumRaise = raise
    BY <1>4 DEF ClientType
  <1>6. d = Done(c, action, set, cash, sets, highest, raise, big, previous)
    BY DEF c1, c2, c3, c4, Done
  <1> HIDE DEF d
  <1> QED BY <1>5, <1>6

LEMMA CActionDoneSees ==
    ASSUME NetTypeOK, CActionDone
    PROVE  ClientTakes
  <1> DEFINE m == Head(down)
             action == [client.action EXCEPT ![m.who] = m.action]
             set == [client.set EXCEPT ![m.who] = m.set]
             cash == [client.cash EXCEPT ![m.who] = m.cash]
             sets == set[0] + set[1]
             big == IF m.who = Me /\ m.blind # "no" THEN m.blind = "big" ELSE client.bigBlind
             previous == IF m.blind # "no" THEN client.previous
                         ELSE IF m.who = Me THEN "me" ELSE "other"
             done == Done(client, action, set, cash, sets, m.highestSet, m.minimumRaise,
                          big, previous)
             throws == ~Knows(m.who, m.gen) \/ (m.blind = "no" /\ m.set < client.set[m.who])
  <1>1. /\ Handles("ActionDone") /\ UNCHANGED astray
        /\ throws => Throws
        /\ ~throws => \E b \in UpdateMyButtonsState(done, Played(buttons), -1) : Becomes(done, b)
    BY DEF CActionDone, Throws, Becomes, Done
  <1>2. /\ TakesOldest /\ client \in ClientType /\ buttons \in ButtonsType
        /\ m \in Messages /\ m.type = "ActionDone" /\ m.type \in Expects(client.state)
    BY <1>1, HandlesFacts
  <1>3. client.state = "RunHand"
    BY <1>2, HandledIn
  <1>4. /\ m.who \in Seats /\ m.gen \in Nat /\ m.blind \in {"no", "small", "big"}
        /\ m.action \in Actions /\ m.set \in Nat /\ m.cash \in Nat
        /\ m.highestSet \in Nat /\ m.minimumRaise \in Nat
    BY <1>2, MessageFields
  <1>5. View(client) = TableView(client)
    BY <1>2, <1>3, ViewFields
  <1>6. ~throws <=> Accepts(TableView(client), m)
    <2> HIDE DEF m
    <2>1. client.set[m.who] \in Int
      BY <1>2, <1>4 DEF ClientType
    <2> QED BY <1>2, <1>4, <2>1 DEF Knows, Accepts, TableView
  <1>7. CASE throws
    BY <1>1, <1>2, <1>3, <1>5, <1>6, <1>7, ThrowsSees
  <1>8. CASE ~throws
    <2> HIDE DEF m, throws
    <2>1. /\ action \in [Seats -> Actions] /\ set \in [Seats -> Int] /\ cash \in [Seats -> Int]
          /\ set[0] \in Int /\ set[1] \in Int
      BY <1>2, <1>4 DEF ClientType, Seats
    <2>2. /\ sets \in Int /\ m.highestSet \in Int /\ m.minimumRaise \in Int
          /\ previous \in {"none", "me", "other"}
      BY <1>2, <1>4, <2>1 DEF ClientType
    <2>3. big \in BOOLEAN
      <3>1. client.bigBlind \in BOOLEAN
        BY <1>2 DEF ClientType
      <3> QED BY <3>1
    <2> HIDE DEF action, set, cash, sets, big, previous
    <2>4. /\ done \in ClientType
          /\ done.state = "RunHand" /\ done.hand = client.hand /\ done.gen = client.gen
          /\ done.nextDealer = client.nextDealer /\ done.set = set /\ done.sets = sets
          /\ done.cash = cash /\ done.pot = client.pot /\ done.round = client.round
          /\ done.smallBlind = client.smallBlind
          /\ done.highestSet = m.highestSet /\ done.minimumRaise = m.minimumRaise
      BY <1>2, <1>3, <2>1, <2>2, <2>3, DoneType
    <2> HIDE DEF done
    <2>5. PICK b \in UpdateMyButtonsState(done, Played(buttons), -1) : Becomes(done, b)
      BY <1>1, <1>8
    <2>6. client' = done /\ buttons' = b /\ UNCHANGED up
      BY <2>5 DEF Becomes
    <2>7. b \in ButtonsType
      <3>1. -1 \in Int
        OBVIOUS
      <3>2. Played(buttons) \in ButtonsType
        BY <1>2, HelpersType
      <3> QED BY <2>4, <2>5, <3>1, <3>2, PaintedType
    <2>8. View(client') = TableView(done)
      BY <2>4, <2>6, ViewFields
    <2>9. /\ done.cash[You] = IF m.who = You THEN m.cash ELSE client.cash[You]
          /\ done.cash[Me] = IF m.who = Me THEN m.cash ELSE client.cash[Me]
      BY <1>2, <2>4, MeAndYou DEF cash, ClientType
    <2>10. TakesAction(TableView(client), m, TableView(done))
      BY <1>3, <2>4, <2>9 DEF TakesAction, TableView, SameIds, set, sets
    <2>11. Takes(TableView(client), m, View(client'))
      BY <1>2, <2>8, <2>10 DEF Takes
    <2>12. SeesMine(TableView(client), Mine(client), m, Mine(client'))
      BY <1>2, <2>4, <2>6, <2>9 DEF SeesMine, Mine
    <2> QED BY <1>2, <1>3, <1>6, <1>8, <2>4, <2>6, <2>7, <2>11, <2>12, TakesSees DEF m
  <1> QED BY <1>7, <1>8


\* The table when a player is asked: the first turn of a round makes it anew.
LEMMA TurnRoundType ==
    ASSUME NEW c \in ClientType, NEW round \in Rounds
    PROVE  LET t == TurnRound(c, round)
           IN /\ t \in ClientType
              /\ t.state = c.state /\ t.hand = c.hand /\ t.gen = c.gen
              /\ t.nextDealer = c.nextDealer /\ t.set = c.set /\ t.sets = c.sets
              /\ t.cash = c.cash /\ t.pot = c.pot /\ t.round = round
              /\ t.smallBlind = c.smallBlind
              /\ IF c.round = round THEN t = c ELSE t.highestSet = 0
              /\ t.fullBetRule => c.fullBetRule
  <1>1. CASE c.round = round
    BY <1>1 DEF TurnRound
  <1>2. CASE c.round # round
    <2> DEFINE none == [s \in Seats |-> "none"]
               twice == 2 * c.blinds.small
               c1 == [c EXCEPT !.round = round, !.action = none]
               c2 == [c1 EXCEPT !.highestSet = 0]
               c3 == [c2 EXCEPT !.minimumRaise = twice]
               t == [c3 EXCEPT !.fullBetRule = FALSE]
    <2>1. none \in [Seats -> Actions]
      BY DEF Actions
    <2>2. twice \in Int
      <3>1. c.blinds \in ClientBlinds
        BY DEF ClientType
      <3>2. c.blinds.small \in Nat
        BY <3>1 DEF ClientBlinds
      <3> QED BY <3>2
    <2>3. t = TurnRound(c, round)
      BY <1>2 DEF TurnRound
    <2> HIDE DEF none, twice
    <2>4. /\ c1 \in ClientType
          /\ c1.state = c.state /\ c1.hand = c.hand /\ c1.gen = c.gen
          /\ c1.nextDealer = c.nextDealer /\ c1.set = c.set /\ c1.sets = c.sets
          /\ c1.cash = c.cash /\ c1.pot = c.pot /\ c1.round = round
          /\ c1.smallBlind = c.smallBlind
      BY <2>1 DEF ClientType
    <2> HIDE DEF c1
    <2>5. /\ c2 \in ClientType
          /\ c2.state = c.state /\ c2.hand = c.hand /\ c2.gen = c.gen
          /\ c2.nextDealer = c.nextDealer /\ c2.set = c.set /\ c2.sets = c.sets
          /\ c2.cash = c.cash /\ c2.pot = c.pot /\ c2.round = round
          /\ c2.smallBlind = c.smallBlind /\ c2.highestSet = 0
      BY <2>4 DEF ClientType
    <2> HIDE DEF c2
    <2>6. /\ c3 \in ClientType
          /\ c3.state = c.state /\ c3.hand = c.hand /\ c3.gen = c.gen
          /\ c3.nextDealer = c.nextDealer /\ c3.set = c.set /\ c3.sets = c.sets
          /\ c3.cash = c.cash /\ c3.pot = c.pot /\ c3.round = round
          /\ c3.smallBlind = c.smallBlind /\ c3.highestSet = 0
      BY <2>2, <2>5 DEF ClientType
    <2> HIDE DEF c3
    <2>7. /\ t \in ClientType /\ t.fullBetRule = FALSE
          /\ t.state = c.state /\ t.hand = c.hand /\ t.gen = c.gen
          /\ t.nextDealer = c.nextDealer /\ t.set = c.set /\ t.sets = c.sets
          /\ t.cash = c.cash /\ t.pot = c.pot /\ t.round = round
          /\ t.smallBlind = c.smallBlind /\ t.highestSet = 0
      BY <2>6 DEF ClientType
    <2> HIDE DEF t
    <2> QED BY <1>2, <2>3, <2>7
  <1> QED BY <1>1, <1>2

\* The player is asked: his buttons are painted, and a remembered action is
\* performed.
MeAnswers(t) ==
    /\ \E r \in RequestType : up' = Append(up, r)
    /\ client' \in ClientType /\ Clicked(t, client') /\ UNCHANGED astray

LEMMA MeInActionType ==
    ASSUME NEW t \in ClientType, buttons \in ButtonsType, MeInAction(t)
    PROVE  /\ buttons' \in ButtonsType
           /\ \/ MeAnswers(t)
              \/ client' = t /\ UNCHANGED <<up, astray>>
  <1>1. PICK b \in Asked(t, buttons) :
            LET button == Remembered(buttons, b)
            IN IF button # "none" /\ Acts(b, button)
               THEN /\ Answer(Act(t, b, button))
                    /\ buttons' = [ForgetTicks(b) EXCEPT !.raising = {}]
               ELSE Becomes(t, ForgetTicks(b))
    BY DEF MeInAction
  <1> DEFINE button == Remembered(buttons, b)
             acted == Act(t, b, button)
  <1>2. b \in ButtonsType
    <2>1. -1 \in Int
      OBVIOUS
    <2> QED BY <2>1, PaintedType
  <1>3. button \in Buttons \cup {"none"}
    BY <1>2 DEF Remembered, ButtonsType, Buttons
  <1>4. ForgetTicks(b) \in ButtonsType /\ [ForgetTicks(b) EXCEPT !.raising = {}] \in ButtonsType
    <2>1. ForgetTicks(b) \in ButtonsType
      BY <1>2, HelpersType
    <2> QED BY <2>1 DEF ButtonsType
  <1> HIDE DEF button, acted
  <1>5. CASE button # "none" /\ Acts(b, button)
    <2>1. Answer(acted) /\ buttons' = [ForgetTicks(b) EXCEPT !.raising = {}]
      BY <1>1, <1>5 DEF button, acted
    <2>2. acted \in ClientType /\ Clicked(t, acted)
      BY <1>2, <1>3, <1>5, ActType DEF acted
    <2>3. /\ up' = Append(up, Request(acted)) /\ UNCHANGED astray
          /\ client' = [acted EXCEPT !.answered = TRUE]
      BY <2>1 DEF Answer
    <2>4. MeAnswers(t)
      BY <2>2, <2>3, AnswerType DEF MeAnswers
    <2> QED BY <1>4, <2>1, <2>4
  <1>6. CASE ~(button # "none" /\ Acts(b, button))
    <2>1. Becomes(t, ForgetTicks(b))
      BY <1>1, <1>6 DEF button
    <2> QED BY <1>4, <2>1 DEF Becomes
  <1> QED BY <1>5, <1>6

\* The client takes a message and answers at once.
ClientAnswers ==
    /\ Sees(View(client), Head(down), View(client'))
    /\ TakesOldest
    /\ \E r \in RequestType : up' = Append(up, r)
    /\ client' \in ClientType /\ buttons' \in ButtonsType

LEMMA CPlayersTurnSees ==
    ASSUME NetTypeOK, CPlayersTurn
    PROVE  ClientTakes \/ ClientAnswers
  <1> DEFINE m == Head(down)
             t == TurnRound(client, m.round)
             asked == [t EXCEPT !.answered = FALSE]
  <1>1. /\ Handles("PlayersTurn")
        /\ IF ~Knows(m.who, m.gen) THEN Throws
           ELSE IF m.who = Me THEN MeInAction(asked) ELSE Becomes(t, buttons)
    BY DEF CPlayersTurn
  <1>2. UNCHANGED astray
    BY <1>1 DEF Throws, Becomes, MeInAction, Answer
  <1>3. /\ TakesOldest /\ client \in ClientType /\ buttons \in ButtonsType
        /\ m \in Messages /\ m.type = "PlayersTurn" /\ m.type \in Expects(client.state)
    BY <1>1, <1>2, HandlesFacts
  <1>4. client.state = "RunHand"
    BY <1>3, HandledIn
  <1>5. m.who \in Seats /\ m.gen \in Nat /\ m.round \in Rounds
    BY <1>3, MessageFields
  <1>6. View(client) = TableView(client)
    BY <1>3, <1>4, ViewFields
  <1>7. Knows(m.who, m.gen) <=> Accepts(TableView(client), m)
    BY <1>3 DEF Knows, Accepts, TableView
  <1>8. CASE ~Knows(m.who, m.gen)
    BY <1>1, <1>3, <1>4, <1>6, <1>7, <1>8, ThrowsSees
  <1>9. CASE Knows(m.who, m.gen)
    <2> HIDE DEF m
    <2>1. /\ t \in ClientType
          /\ t.state = client.state /\ t.hand = client.hand /\ t.gen = client.gen
          /\ t.nextDealer = client.nextDealer /\ t.set = client.set /\ t.sets = client.sets
          /\ t.cash = client.cash /\ t.pot = client.pot /\ t.round = m.round
          /\ t.smallBlind = client.smallBlind
          /\ IF client.round = m.round THEN t = client ELSE t.highestSet = 0
      BY <1>3, <1>5, TurnRoundType
    <2> HIDE DEF t
    <2>2. /\ View(t) = TableView(t)
          /\ TakesTurn(TableView(client), m, TableView(t))
      BY <1>4, <2>1, ViewFields DEF TakesTurn, TableView, SameIds, SameChips
    <2>3. Takes(TableView(client), m, View(t))
      BY <1>3, <2>2 DEF Takes
    <2>4. SeesMine(TableView(client), Mine(client), m, Mine(t))
      BY <1>3, <2>1 DEF SeesMine, Mine, TableView
    <2>5. CASE m.who = Me
      <3>1. MeInAction(asked)
        BY <1>1, <1>9, <2>5
      <3>2. asked \in ClientType /\ Clicked(t, asked)
        BY <2>1 DEF ClientType, Clicked
      <3>3. View(asked) = View(t) /\ Mine(asked) = Mine(t)
        BY <2>1, <3>2, ClickedView DEF Mine, ClientType
      <3> HIDE DEF asked
      <3>4. CASE MeAnswers(asked)
        <4>1. View(client') = View(t)
          BY <3>3, <3>4, ClickedView DEF MeAnswers
        <4>2. Sees(View(client), m, View(client'))
          BY <1>3, <1>4, <1>6, <1>7, <1>9, <2>3, <4>1 DEF Sees, TableView
        <4> QED BY <1>3, <3>1, <3>2, <3>4, <4>2, MeInActionType
                DEF MeAnswers, ClientAnswers, m
      <3>5. CASE client' = asked /\ UNCHANGED <<up, astray>>
        <4>1. buttons' \in ButtonsType
          BY <1>3, <3>1, <3>2, MeInActionType
        <4> QED BY <1>3, <1>4, <1>7, <1>9, <2>3, <2>4, <3>2, <3>3, <3>5, <4>1, TakesSees
                DEF m
      <3> QED BY <1>3, <3>1, <3>2, <3>4, <3>5, MeInActionType
    <2>6. CASE m.who # Me
      <3>1. client' = t /\ buttons' = buttons /\ UNCHANGED up
        BY <1>1, <1>9, <2>6 DEF Becomes
      <3> QED BY <1>3, <1>4, <1>7, <1>9, <2>1, <2>3, <2>4, <3>1, TakesSees DEF m
    <2> QED BY <2>5, <2>6
  <1> QED BY <1>8, <1>9


\* The bets go to the pot.
LEMMA CollectBetsType ==
    ASSUME NEW c \in ClientType
    PROVE  LET t == CollectBets(c)
           IN /\ t \in ClientType
              /\ t.state = c.state /\ t.hand = c.hand /\ t.gen = c.gen
              /\ t.nextDealer = c.nextDealer /\ t.set = NoSets /\ t.sets = 0
              /\ t.cash = c.cash /\ t.pot = c.pot + c.sets /\ t.round = c.round
              /\ t.smallBlind = c.smallBlind /\ t.minimumRaise = c.minimumRaise
              /\ t.fullBetRule = c.fullBetRule
  <1> DEFINE pot == c.pot + c.sets
             c0 == [c EXCEPT !.pot = pot]
             c1 == [c0 EXCEPT !.sets = 0]
             t == [c1 EXCEPT !.set = NoSets, !.relative = 0]
  <1>1. pot \in Int
    BY DEF ClientType
  <1>2. NoSets \in [Seats -> Int]
    BY DEF NoSets
  <1>4. t = CollectBets(c)
    BY DEF CollectBets, NoSets
  <1> HIDE DEF pot
  <1>6. /\ c0 \in ClientType /\ c0.fullBetRule = c.fullBetRule
        /\ c0.state = c.state /\ c0.hand = c.hand /\ c0.gen = c.gen
        /\ c0.nextDealer = c.nextDealer
        /\ c0.cash = c.cash /\ c0.pot = pot /\ c0.round = c.round
        /\ c0.smallBlind = c.smallBlind /\ c0.minimumRaise = c.minimumRaise
    BY <1>1 DEF ClientType
  <1> HIDE DEF c0
  <1>3. /\ c1 \in ClientType /\ c1.fullBetRule = c.fullBetRule
        /\ c1.state = c.state /\ c1.hand = c.hand /\ c1.gen = c.gen
        /\ c1.nextDealer = c.nextDealer /\ c1.sets = 0
        /\ c1.cash = c.cash /\ c1.pot = pot /\ c1.round = c.round
        /\ c1.smallBlind = c.smallBlind /\ c1.minimumRaise = c.minimumRaise
    BY <1>6 DEF ClientType
  <1> HIDE DEF c1, NoSets
  <1>5. /\ t \in ClientType /\ t.fullBetRule = c.fullBetRule
        /\ t.state = c.state /\ t.hand = c.hand /\ t.gen = c.gen
        /\ t.nextDealer = c.nextDealer /\ t.set = NoSets /\ t.sets = 0
        /\ t.cash = c.cash /\ t.pot = pot /\ t.round = c.round
        /\ t.smallBlind = c.smallBlind /\ t.minimumRaise = c.minimumRaise
    BY <1>2, <1>3 DEF ClientType
  <1> HIDE DEF t
  <1> QED BY <1>4, <1>5 DEF pot

LEMMA CDealCardsSees ==
    ASSUME NetTypeOK, CDealCards
    PROVE  ClientTakes
  <1> DEFINE m == Head(down)
             c == CollectBets(client)
             t == [c EXCEPT !.highestSet = 0, !.previous = "none"]
  <1>2. /\ Handles("DealCards") /\ UNCHANGED <<up, astray>>
        /\ client' = t /\ buttons' = DealBeRoCards(buttons)
    BY DEF CDealCards, Becomes
  <1>3. /\ TakesOldest /\ client \in ClientType /\ buttons \in ButtonsType
        /\ m \in Messages /\ m.type = "DealCards" /\ m.type \in Expects(client.state)
    BY <1>2, HandlesFacts
  <1>4. client.state = "RunHand"
    BY <1>3, HandledIn
  <1> HIDE DEF m
  <1>5. /\ c \in ClientType
        /\ c.state = client.state /\ c.hand = client.hand /\ c.gen = client.gen
        /\ c.nextDealer = client.nextDealer /\ c.set = NoSets /\ c.sets = 0
        /\ c.cash = client.cash /\ c.pot = client.pot + client.sets
        /\ c.round = client.round /\ c.smallBlind = client.smallBlind
        /\ c.minimumRaise = client.minimumRaise
    BY <1>3, CollectBetsType
  <1> HIDE DEF c
  <1>6. /\ t \in ClientType
        /\ t.state = client.state /\ t.hand = client.hand /\ t.gen = client.gen
        /\ t.nextDealer = client.nextDealer /\ t.set = NoSets /\ t.sets = 0
        /\ t.cash = client.cash /\ t.pot = client.pot + client.sets
        /\ t.round = client.round /\ t.smallBlind = client.smallBlind
        /\ t.minimumRaise = client.minimumRaise /\ t.highestSet = 0
    BY <1>5 DEF ClientType
  <1> HIDE DEF t
  <1>7. buttons' \in ButtonsType
    BY <1>2, <1>3, HelpersType
  <1>8. View(client') = TableView(t)
    BY <1>2, <1>4, <1>6, ViewFields
  <1>9. Accepts(TableView(client), m)
    BY <1>3 DEF Accepts
  <1>10. Takes(TableView(client), m, View(client'))
    <2>1. TakesCards(TableView(client), TableView(t))
      BY <1>6 DEF TakesCards, TableView, SameIds
    <2> QED BY <1>3, <1>8, <2>1 DEF Takes
  <1>11. SeesMine(TableView(client), Mine(client), m, Mine(client'))
    BY <1>2, <1>3, <1>6 DEF SeesMine, Mine
  <1> QED BY <1>2, <1>3, <1>4, <1>6, <1>7, <1>9, <1>10, <1>11, TakesSees DEF m

LEMMA CAllInShowCardsSees ==
    ASSUME NetTypeOK, CAllInShowCards
    PROVE  ClientTakes
  <1> DEFINE m == Head(down)
             t == [client EXCEPT !.allIn = TRUE]
             throws == \E s \in Seats : ~Knows(s, m.gen[s])
  <1>1. /\ Handles("AllInShowCards") /\ UNCHANGED astray
        /\ throws => Throws
        /\ ~throws => Becomes(t, buttons)
    BY DEF CAllInShowCards, Throws, Becomes
  <1>2. /\ TakesOldest /\ client \in ClientType /\ buttons \in ButtonsType
        /\ m \in Messages /\ m.type = "AllInShowCards" /\ m.type \in Expects(client.state)
    BY <1>1, HandlesFacts
  <1>3. client.state = "RunHand"
    BY <1>2, HandledIn
  <1>4. View(client) = TableView(client)
    BY <1>2, <1>3, ViewFields
  <1>5. ~throws <=> Accepts(TableView(client), m)
    <2> HIDE DEF m
    <2> QED BY <1>2 DEF Knows, Accepts, TableView
  <1>6. CASE throws
    BY <1>1, <1>2, <1>3, <1>4, <1>5, <1>6, ThrowsSees
  <1>7. CASE ~throws
    <2> HIDE DEF m, throws
    <2>1. client' = t /\ buttons' = buttons /\ UNCHANGED up
      BY <1>1, <1>7 DEF Becomes
    <2>2. t \in ClientType /\ View(t) = TableView(client) /\ Mine(t) = Mine(client)
      <3>1. t \in ClientType /\ Clicked(client, t) /\ Mine(t) = Mine(client)
        BY <1>2 DEF ClientType, Clicked, Mine
      <3> QED BY <1>4, <3>1, ClickedView
    <2>3. Takes(TableView(client), m, View(t))
      BY <1>2, <2>2 DEF Takes, ShowsCards, SameIds, SameChips
    <2>4. SeesMine(TableView(client), Mine(client), m, Mine(t))
      BY <1>2, <2>2 DEF SeesMine
    <2> HIDE DEF t
    <2> QED BY <1>2, <1>3, <1>5, <1>7, <2>1, <2>2, <2>3, <2>4, TakesSees DEF m
  <1> QED BY <1>6, <1>7

\* The hand is over.
LEMMA EndOfHandType ==
    ASSUME NEW c \in ClientType, NEW cash \in [Seats -> Int], NEW round \in Rounds, NEW t,
           t = [CollectBets(c) EXCEPT !.cash = cash, !.pot = 0, !.round = round,
                                      !.state = "WaitHand"]
    PROVE  t \in ClientType /\ View(t) = TableView(t) /\ EndsHand(TableView(c), TableView(t))
  <1> DEFINE d == CollectBets(c)
             d0 == [d EXCEPT !.cash = cash]
             d1 == [d0 EXCEPT !.pot = 0]
  <1>1. /\ d \in ClientType /\ d.hand = c.hand /\ d.gen = c.gen
        /\ d.nextDealer = c.nextDealer /\ d.set = NoSets
    BY CollectBetsType
  <1> HIDE DEF d
  <1>6. /\ d0 \in ClientType /\ d0.hand = c.hand /\ d0.gen = c.gen
        /\ d0.nextDealer = c.nextDealer /\ d0.set = NoSets
    BY <1>1 DEF ClientType
  <1>3. t = [d1 EXCEPT !.round = round, !.state = "WaitHand"]
    BY DEF d
  <1> HIDE DEF d0
  <1>2. /\ d1 \in ClientType /\ d1.hand = c.hand /\ d1.gen = c.gen
        /\ d1.nextDealer = c.nextDealer /\ d1.set = NoSets /\ d1.pot = 0
    BY <1>6 DEF ClientType
  <1> HIDE DEF d1
  <1> DEFINE d2 == [d1 EXCEPT !.round = round]
  <1>7. /\ d2 \in ClientType /\ d2.hand = c.hand /\ d2.gen = c.gen
        /\ d2.nextDealer = c.nextDealer /\ d2.set = NoSets /\ d2.pot = 0
    BY <1>2 DEF ClientType
  <1>8. t = [d2 EXCEPT !.state = "WaitHand"]
    BY <1>3
  <1> HIDE DEF d2
  <1>4. t.hand = c.hand /\ t.gen = c.gen /\ t.state = "WaitHand"
        /\ t.nextDealer = c.nextDealer /\ t.set = NoSets /\ t.pot = 0
    BY <1>7, <1>8 DEF ClientType
  <1>9. t \in ClientType
    BY <1>7, <1>8 DEF ClientType, ClientStates
  <1>5. View(t) = TableView(t)
    BY <1>4, <1>9, ViewFields
  <1> QED BY <1>4, <1>5, <1>9 DEF EndsHand, TableView, SameIds

LEMMA CEndOfHandHideSees ==
    ASSUME NetTypeOK, CEndOfHandHide
    PROVE  ClientTakes
  <1> DEFINE m == Head(down)
             t == [CollectBets(client) EXCEPT !.cash[m.who] = m.cash, !.pot = 0,
                                              !.state = "WaitHand"]
  <1>1. /\ Handles("EndOfHandHide") /\ UNCHANGED astray
        /\ ~Knows(m.who, m.gen) => Throws
        /\ Knows(m.who, m.gen) => Becomes(t, PostRiverRunAnimation1(buttons))
    BY DEF CEndOfHandHide, Throws, Becomes
  <1>2. /\ TakesOldest /\ client \in ClientType /\ buttons \in ButtonsType
        /\ m \in Messages /\ m.type = "EndOfHandHide" /\ m.type \in Expects(client.state)
    BY <1>1, HandlesFacts
  <1>3. client.state = "RunHand"
    BY <1>2, HandledIn
  <1>4. m.who \in Seats /\ m.gen \in Nat /\ m.cash \in Nat
    BY <1>2, MessageFields
  <1>5. View(client) = TableView(client)
    BY <1>2, <1>3, ViewFields
  <1>6. Knows(m.who, m.gen) <=> Accepts(TableView(client), m)
    BY <1>2 DEF Knows, Accepts, TableView
  <1>7. CASE ~Knows(m.who, m.gen)
    BY <1>1, <1>2, <1>3, <1>5, <1>6, <1>7, ThrowsSees
  <1>8. CASE Knows(m.who, m.gen)
    <2> DEFINE cash == [client.cash EXCEPT ![m.who] = m.cash]
    <2> HIDE DEF m
    <2>1. client' = t /\ buttons' = PostRiverRunAnimation1(buttons) /\ UNCHANGED up
      BY <1>1, <1>8 DEF Becomes
    <2>2. cash \in [Seats -> Int] /\ client.round \in Rounds
      BY <1>2, <1>4 DEF ClientType
    <2>3. t = [CollectBets(client) EXCEPT !.cash = cash, !.pot = 0, !.round = client.round,
                                          !.state = "WaitHand"]
      <3> DEFINE d == CollectBets(client)
      <3>1. d \in ClientType /\ d.cash = client.cash /\ d.round = client.round
        BY <1>2, CollectBetsType
      <3> HIDE DEF d
      <3>2. [d EXCEPT !.cash[m.who] = m.cash, !.pot = 0, !.state = "WaitHand"]
              = [d EXCEPT !.cash = cash, !.pot = 0, !.round = client.round,
                          !.state = "WaitHand"]
        BY <3>1 DEF ClientType
      <3> QED BY <3>2 DEF d
    <2> HIDE DEF t, cash
    <2>4. /\ t \in ClientType /\ View(t) = TableView(t)
          /\ EndsHand(TableView(client), TableView(t))
      BY <1>2, <2>2, <2>3, EndOfHandType
    <2>5. Takes(TableView(client), m, View(client'))
      BY <1>2, <2>1, <2>4 DEF Takes
    <2>6. SeesMine(TableView(client), Mine(client), m, Mine(client'))
      BY <1>2 DEF SeesMine
    <2>7. buttons' \in ButtonsType
      BY <1>2, <2>1, HelpersType
    <2> QED BY <1>2, <1>3, <1>6, <1>8, <2>1, <2>4, <2>5, <2>6, <2>7, TakesSees DEF m
  <1> QED BY <1>7, <1>8

LEMMA CEndOfHandShowSees ==
    ASSUME NetTypeOK, CEndOfHandShow
    PROVE  ClientTakes
  <1> DEFINE m == Head(down)
             t == [CollectBets(client) EXCEPT !.cash = m.cash, !.pot = 0,
                     !.round = POST_RIVER, !.state = "WaitHand"]
             throws == \E s \in Seats : ~Knows(s, m.gen[s])
  <1>1. /\ Handles("EndOfHandShow") /\ UNCHANGED astray
        /\ throws => Throws
        /\ ~throws => Becomes(t, PostRiverRunAnimation1(buttons))
    BY DEF CEndOfHandShow, Throws, Becomes
  <1>2. /\ TakesOldest /\ client \in ClientType /\ buttons \in ButtonsType
        /\ m \in Messages /\ m.type = "EndOfHandShow" /\ m.type \in Expects(client.state)
    BY <1>1, HandlesFacts
  <1>3. client.state = "RunHand"
    BY <1>2, HandledIn
  <1>4. m.gen \in [Seats -> Nat] /\ m.cash \in [Seats -> Nat]
    BY <1>2, MessageFields
  <1>5. View(client) = TableView(client)
    BY <1>2, <1>3, ViewFields
  <1>6. ~throws <=> Accepts(TableView(client), m)
    <2> HIDE DEF m
    <2> QED BY <1>2 DEF Knows, Accepts, TableView
  <1>7. CASE throws
    BY <1>1, <1>2, <1>3, <1>5, <1>6, <1>7, ThrowsSees
  <1>8. CASE ~throws
    <2> HIDE DEF m, throws
    <2>1. client' = t /\ buttons' = PostRiverRunAnimation1(buttons) /\ UNCHANGED up
      BY <1>1, <1>8 DEF Becomes
    <2>2. m.cash \in [Seats -> Int] /\ POST_RIVER \in Rounds
      BY <1>4 DEF POST_RIVER, Rounds
    <2>3. /\ t \in ClientType /\ View(t) = TableView(t)
          /\ EndsHand(TableView(client), TableView(t))
      BY <1>2, <2>2, EndOfHandType
    <2> HIDE DEF t
    <2>4. Takes(TableView(client), m, View(client'))
      BY <1>2, <2>1, <2>3 DEF Takes
    <2>5. SeesMine(TableView(client), Mine(client), m, Mine(client'))
      BY <1>2 DEF SeesMine
    <2>6. buttons' \in ButtonsType
      BY <1>2, <2>1, HelpersType
    <2> QED BY <1>2, <1>3, <1>6, <1>8, <2>1, <2>3, <2>4, <2>5, <2>6, TakesSees DEF m
  <1> QED BY <1>7, <1>8

\* The game is over.
LEMMA CEndOfGameSees ==
    ASSUME NetTypeOK, CEndOfGame
    PROVE  ClientTakes
  <1> DEFINE m == Head(down)
             t == NoTable("WaitGame")
  <1>1. /\ Handles("EndOfGame") /\ UNCHANGED astray
        /\ ~Knows(m.who, m.gen) => Throws
        /\ Knows(m.who, m.gen) => Becomes(t, BlankButtons)
    BY DEF CEndOfGame, Throws, Becomes
  <1>2. /\ TakesOldest /\ client \in ClientType /\ buttons \in ButtonsType
        /\ m \in Messages /\ m.type = "EndOfGame" /\ m.type \in Expects(client.state)
    BY <1>1, HandlesFacts
  <1>3. client.state = "WaitHand"
    BY <1>2, HandledIn
  <1>4. View(client) = TableView(client)
    BY <1>2, <1>3, ViewFields
  <1>5. Knows(m.who, m.gen) <=> Accepts(TableView(client), m)
    BY <1>2 DEF Knows, Accepts, TableView
  <1>6. CASE ~Knows(m.who, m.gen)
    BY <1>1, <1>2, <1>3, <1>4, <1>5, <1>6, ThrowsSees
  <1>7. CASE Knows(m.who, m.gen)
    <2> HIDE DEF m
    <2>1. client' = t /\ buttons' = BlankButtons /\ UNCHANGED up
      BY <1>1, <1>7 DEF Becomes
    <2>2. t \in ClientType /\ t.state = "WaitGame"
      <3>1. "WaitGame" \in ClientStates
        BY DEF ClientStates
      <3> QED BY <3>1, NoTableType
    <2> HIDE DEF t
    <2>3. View(client').state = "NoTable"
      BY <2>1, <2>2, ViewFields
    <2>4. Takes(TableView(client), m, View(client'))
      BY <1>2, <2>3 DEF Takes
    <2>5. SeesMine(TableView(client), Mine(client), m, Mine(client'))
      BY <1>2 DEF SeesMine
    <2> QED BY <1>2, <1>3, <1>5, <1>7, <2>1, <2>2, <2>4, <2>5, BlankType, TakesSees DEF m
  <1> QED BY <1>6, <1>7


\* What the client does without a message: the end of the synchronization and the
\* window's timers.
ClientAlone == CSynchronized \/ CDealCardsEnd \/ CPostRiverRunAnimation2

\* A timer of the window paints the buttons only.
LEMMA TimersType ==
    ASSUME NetTypeOK, CDealCardsEnd \/ CPostRiverRunAnimation2
    PROVE  AtTheTable /\ UNCHANGED <<client, up, astray>> /\ buttons' \in ButtonsType
  <1>1. client \in ClientType /\ buttons \in ButtonsType
    BY DEF NetTypeOK
  <1>2. CASE CDealCardsEnd
    <2>1. PICK b \in DealCardsEnd(client, buttons) : Becomes(client, b)
      BY <1>2 DEF CDealCardsEnd
    <2>2. b \in ButtonsType
      <3>1. 0 \in Int
        OBVIOUS
      <3> QED BY <1>1, <2>1, <3>1, PaintedType
    <2> QED BY <1>2, <2>1, <2>2 DEF CDealCardsEnd, Becomes
  <1>3. CASE CPostRiverRunAnimation2
    BY <1>1, <1>3, HelpersType DEF CPostRiverRunAnimation2, Becomes
  <1> QED BY <1>2, <1>3

\* The user's clicks, and what the client does without a message.
LEMMA UserSees ==
    ASSUME NetTypeOK,
           ClientAlone \/ UserStep
    PROVE  /\ View(client') = View(client)
           /\ UNCHANGED <<vars, hands, ids, logins, down, astray>>
           /\ client' \in ClientType /\ buttons' \in ButtonsType
           /\ \/ up' = up /\ Mine(client') = Mine(client)
              \/ \E r \in RequestType : up' = Append(up, r)
           /\ client.state = "Closed" <=> client'.state = "Closed"
  <1>1. client \in ClientType /\ buttons \in ButtonsType
    BY DEF NetTypeOK
  <1>2. CASE CSynchronized
    <2>1. /\ client' = [client EXCEPT !.state = "WaitStart"] /\ buttons' = buttons
          /\ client.state = "Synchronize"
          /\ UNCHANGED <<vars, hands, ids, logins, down, up, astray>>
      BY <1>2 DEF CSynchronized, Becomes
    <2>2. client' \in ClientType /\ client'.state = "WaitStart" /\ Mine(client') = Mine(client)
      BY <1>1, <2>1 DEF ClientType, ClientStates, Mine
    <2>3. View(client) = NoView /\ View(client') = NoView
      BY <1>1, <2>1, <2>2, ViewFields
    <2> QED BY <1>1, <2>1, <2>2, <2>3
  <1>3. ASSUME NEW button \in Buttons, TickButton(button)
        PROVE  /\ AtTheTable /\ client' = client /\ buttons' \in ButtonsType
               /\ UNCHANGED <<up, astray>>
    BY <1>1, <1>3, TickType DEF TickButton, Becomes
  <1>4. ASSUME NEW button \in Buttons, ClickButton(button)
        PROVE  /\ AtTheTable /\ client' \in ClientType /\ Clicked(client, client')
               /\ buttons' \in ButtonsType /\ UNCHANGED astray
               /\ \E r \in RequestType : up' = Append(up, r)
    <2> DEFINE acted == Act(client, buttons, button)
    <2>1. /\ AtTheTable /\ Acts(buttons, button) /\ Answer(acted)
          /\ buttons' = [buttons EXCEPT !.raising = {}]
      BY <1>4 DEF ClickButton
    <2>2. acted \in ClientType /\ Clicked(client, acted)
      BY <1>1, <2>1, ActType
    <2> HIDE DEF acted
    <2>3. /\ up' = Append(up, Request(acted)) /\ UNCHANGED astray
          /\ client' = [acted EXCEPT !.answered = TRUE]
      BY <2>1 DEF Answer
    <2>4. buttons' \in ButtonsType
      BY <1>1, <2>1 DEF ButtonsType
    <2> QED BY <1>1, <2>1, <2>2, <2>3, <2>4, AnswerType
  <1>5. ASSUME NEW value \in 0..MaxBet, SpinBoxBetValueChanged(value)
        PROVE  /\ AtTheTable /\ client' = client /\ buttons' \in ButtonsType
               /\ UNCHANGED <<up, astray>>
    <2> DEFINE label == Label(buttons.bet.text, value)
               seen == IF buttons.memory = "bet" THEN label ELSE buttons.seen
    <2>1. /\ AtTheTable /\ client' = client /\ UNCHANGED <<up, astray>>
          /\ buttons' = [buttons EXCEPT !.bet = label, !.seen = seen]
      BY <1>5 DEF SpinBoxBetValueChanged, Becomes
    <2>2. label \in LabelType /\ seen \in LabelType
      BY <1>1 DEF Label, LabelType, ButtonsType
    <2> HIDE DEF label, seen
    <2> QED BY <1>1, <2>1, <2>2 DEF ButtonsType
  <1>6. CASE UserStep
    <2>1. AtTheTable /\ client' \in ClientType /\ Clicked(client, client')
          /\ buttons' \in ButtonsType /\ UNCHANGED astray
          /\ \/ UNCHANGED <<client, up>>
             \/ \E r \in RequestType : up' = Append(up, r)
      BY <1>1, <1>3, <1>4, <1>5, <1>6 DEF UserStep, Clicked
    <2>2. /\ client.state # "Closed" /\ client'.state = client.state
          /\ UNCHANGED <<vars, hands, ids, logins, down>>
      BY <2>1 DEF AtTheTable, Clicked
    <2>3. View(client') = View(client)
      BY <2>1, ClickedView
    <2> QED BY <2>1, <2>2, <2>3
  <1>7. CASE CDealCardsEnd \/ CPostRiverRunAnimation2
    <2>1. AtTheTable /\ UNCHANGED <<client, up, astray>> /\ buttons' \in ButtonsType
      BY <1>7, TimersType
    <2>2. UNCHANGED <<vars, hands, ids, logins, down>>
      BY <2>1 DEF AtTheTable
    <2> QED BY <1>1, <2>1, <2>2
  <1> QED BY <1>2, <1>6, <1>7 DEF ClientAlone


(***************************************************************************)
(* What a view shows of a hand, and what each message makes of it          *)
(***************************************************************************)

\* The ids of the players, the number of the hand and the dealer of the next
\* one, who must be found when it starts.
HasIds(v, gen, next, number) ==
    v.gen = gen /\ v.hand = number /\ v.dealer = <<next, gen[next]>>

\* The client learns of a new round when somebody is asked in it; until then
\* nobody has bet.
ShowsHand(v, h) ==
    /\ v.set = h.set /\ v.sets = h.sets /\ v.pot = h.pot
    /\ v.yours = h.cash[You] /\ v.smallBlind = h.smallBlind
    /\ v.round \in Rounds /\ v.round <= h.round
    /\ v.round # h.round => h.highestSet = 0
ShowsMine(v, x, h) ==
    /\ x.cash = h.cash[Me]
    /\ v.round = h.round =>
          /\ x.highestSet = h.highestSet
          /\ h.highestSet > 0 => x.minimumRaise = h.minimumRaise

\* The first state is left by the start of a game only.
LEMMA NoTableStays ==
    ASSUME NEW v, NEW m, NEW w, v.state = "NoTable",
           m.type \notin {"GameStartInitial", "GameStartRejoin"}, Sees(v, m, w)
    PROVE  w = v
  BY ExpectedTypes DEF Sees, Opens

\* A message that is expected and accepted is handled.
LEMMA HandledSees ==
    ASSUME NEW v, NEW m, NEW w, v.state \in {"RunHand", "WaitHand"},
           m.type \in Expects(v.state), Accepts(v, m), Sees(v, m, w)
    PROVE  Takes(v, m, w)
  BY DEF Sees

LEMMA TurnSeen ==
    ASSUME NEW exact \in BOOLEAN, NEW v, NEW e, NEW m, NEW w, NEW x, NEW h \in HandType, NEW g \in HandType,
           v.state = "RunHand", m.type = "PlayersTurn", v.gen[m.who] = m.gen,
           m.round = g.round, Sees(v, m, w), (exact => SeesMine(v, e, m, x)),
           ShowsHand(v, h), PlayerAsked(h, g)
    PROVE  /\ w.state = "RunHand" /\ SameIds(v, w)
           /\ ShowsHand(w, g) /\ w.round = g.round
           /\ exact /\ ShowsMine(v, e, h) => ShowsMine(w, x, g)
  <1>1. Accepts(v, m) /\ m.type \in Expects(v.state)
    BY ExpectedTypes DEF Accepts
  <1>2. TakesTurn(v, m, w)
    BY <1>1, HandledSees DEF Takes
  <1>3. exact => IF v.round = m.round THEN x = e ELSE x.cash = e.cash /\ x.highestSet = 0
    BY <1>1 DEF SeesMine
  <1>4. /\ g.cash = h.cash /\ g.set = h.set /\ g.sets = h.sets /\ g.pot = h.pot
        /\ g.smallBlind = h.smallBlind /\ g.round = h.round
        /\ g.highestSet = h.highestSet /\ g.minimumRaise = h.minimumRaise
    BY DEF PlayerAsked, SamePlayers, SameBets
  <1>5. g.round \in Rounds /\ g.round <= g.round
    BY DEF HandType, Rounds
  <1>6. ShowsHand(w, g) /\ w.round = g.round
    BY <1>2, <1>4, <1>5 DEF TakesTurn, SameChips, ShowsHand
  <1>7. exact /\ ShowsMine(v, e, h) => ShowsMine(w, x, g)
    <2>1. CASE v.round = m.round
      BY <1>3, <1>4, <2>1 DEF ShowsMine
    <2>2. CASE v.round # m.round
      <3>1. g.highestSet = 0
        BY <1>4, <2>2 DEF ShowsHand
      <3> QED BY <1>3, <1>4, <2>2, <3>1 DEF ShowsMine
    <2> QED BY <2>1, <2>2
  <1> QED BY <1>2, <1>6, <1>7 DEF TakesTurn

\* A player s paid something, or nothing: what the others see of it.
Acted(h, g, s) ==
    /\ g.set = [h.set EXCEPT ![s] = g.set[s]] /\ g.set[s] >= h.set[s]
    /\ g.cash = [h.cash EXCEPT ![s] = g.cash[s]]
    /\ g.pot = h.pot /\ g.smallBlind = h.smallBlind /\ g.round = h.round
    /\ g.dealer = h.dealer /\ g.allIn = h.allIn
    /\ InSync(g)

\* The others know of it.
ActionShown(exact, v, e, h, g, s, w, x) ==
    /\ w.state = "RunHand" /\ SameIds(v, w)
    /\ ShowsHand(w, g) /\ w.round = g.round
    /\ exact /\ (s = Me \/ ShowsMine(v, e, h)) => ShowsMine(w, x, g)

LEMMA ActionSeen ==
    ASSUME NEW exact \in BOOLEAN, NEW v, NEW e, NEW w, NEW x, NEW h \in HandType, NEW g \in HandType,
           NEW s \in Seats, NEW m, NEW blind, m = ActionDone(g, s, v.gen[s], blind),
           v.state = "RunHand", Sees(v, m, w), (exact => SeesMine(v, e, m, x)),
           ShowsHand(v, h), v.round = h.round, Acted(h, g, s)
    PROVE  ActionShown(exact, v, e, h, g, s, w, x)
  <1>1. /\ m.type = "ActionDone" /\ m.who = s /\ m.gen = v.gen[s] /\ m.blind = blind
        /\ m.set = g.set[s] /\ m.cash = g.cash[s]
        /\ m.highestSet = g.highestSet /\ m.minimumRaise = g.minimumRaise
    BY DEF ActionDone
  <1>3. Accepts(v, m) /\ m.type \in Expects(v.state)
    BY <1>1, ExpectedTypes DEF Accepts, ShowsHand, Acted
  <1>4. TakesAction(v, m, w)
    BY <1>1, <1>3, HandledSees DEF Takes
  <1>5. w.set = g.set /\ w.sets = g.sets
    <2>1. w.set = [v.set EXCEPT ![s] = g.set[s]] /\ w.sets = w.set[0] + w.set[1]
      BY <1>1, <1>4 DEF TakesAction
    <2>2. v.set = h.set /\ g.set = [h.set EXCEPT ![s] = g.set[s]]
      BY DEF ShowsHand, Acted
    <2>3. w.set = g.set
      BY <2>1, <2>2
    <2> QED BY <2>1, <2>3 DEF Acted, InSync
  <1>6. w.yours = g.cash[You]
    BY <1>1, <1>4, MeAndYou DEF TakesAction, ShowsHand, Acted, HandType
  <1>7. g.round \in Rounds /\ g.round <= g.round
    BY DEF HandType, Rounds
  <1>8. ShowsHand(w, g) /\ w.round = g.round
    BY <1>4, <1>5, <1>6, <1>7 DEF TakesAction, ShowsHand, Acted
  <1>9. exact /\ (s = Me \/ ShowsMine(v, e, h)) => ShowsMine(w, x, g)
    <2>1. exact => /\ x.cash = IF s = Me THEN g.cash[s] ELSE e.cash
                   /\ x.highestSet = g.highestSet /\ x.minimumRaise = g.minimumRaise
      BY <1>1, <1>3 DEF SeesMine
    <2>2. s # Me => g.cash[Me] = h.cash[Me]
      BY MeAndYou DEF Acted, HandType
    <2> QED BY <2>1, <2>2 DEF ShowsMine
  <1> QED BY <1>4, <1>8, <1>9 DEF TakesAction, ActionShown

LEMMA CardsSeen ==
    ASSUME NEW exact \in BOOLEAN, NEW v, NEW e, NEW m, NEW w, NEW x, v.state = "RunHand", m.type = "DealCards",
           Sees(v, m, w), (exact => SeesMine(v, e, m, x))
    PROVE  /\ w.state = "RunHand" /\ SameIds(v, w)
           /\ \A h \in HandType, g \in HandType :
                 /\ ShowsHand(v, h) /\ InSync(h) /\ InSync(g)
                 /\ RoundOver(h, g) /\ OnTable(g) = OnTable(h)
                 => /\ ShowsHand(w, g)
                    /\ exact /\ ShowsMine(v, e, h) => ShowsMine(w, x, g)
  <1>1. Accepts(v, m) /\ m.type \in Expects(v.state)
    BY ExpectedTypes DEF Accepts
  <1>2. TakesCards(v, w)
    BY <1>1, HandledSees DEF Takes
  <1>3. exact => x.cash = e.cash
    BY <1>1 DEF SeesMine
  <1>4. ASSUME NEW h \in HandType, NEW g \in HandType,
               ShowsHand(v, h), InSync(h), InSync(g), RoundOver(h, g),
               OnTable(g) = OnTable(h)
        PROVE  /\ ShowsHand(w, g)
               /\ exact /\ ShowsMine(v, e, h) => ShowsMine(w, x, g)
    <2>1. /\ g.set = NoSets /\ g.set[0] = 0 /\ g.set[1] = 0 /\ g.sets = 0
          /\ g.cash = h.cash /\ g.smallBlind = h.smallBlind
          /\ g.round > h.round /\ g.highestSet = 0
      BY <1>4 DEF RoundOver, NoBets, NoSets, SamePlayers, InSync, Seats
    <2>2. g.pot = h.pot + h.sets
      <3>1. /\ h.pot \in Nat /\ g.pot \in Nat /\ h.set[0] \in Nat /\ h.set[1] \in Nat
            /\ h.sets \in Nat
        BY DEF HandType, Seats
      <3>2. /\ g.pot + g.set[0] + g.set[1] = h.pot + h.set[0] + h.set[1]
            /\ h.sets = h.set[0] + h.set[1]
        BY <1>4 DEF OnTable, InSync
      <3> QED BY <2>1, <3>1, <3>2
    <2>3. w.round \in Rounds /\ w.round < g.round /\ w.round # g.round
      <3>1. h.round \in Rounds /\ g.round \in Rounds
        BY DEF HandType
      <3>2. v.round \in Rounds /\ v.round <= h.round /\ w.round = v.round
        BY <1>2, <1>4 DEF ShowsHand, TakesCards
      <3> QED BY <2>1, <3>1, <3>2 DEF Rounds
    <2>4. ShowsHand(w, g)
      <3>1. w.round <= g.round
        BY <2>3 DEF Rounds, HandType
      <3> QED BY <1>2, <1>4, <2>1, <2>2, <2>3, <3>1 DEF ShowsHand, TakesCards
    <2> QED BY <1>3, <2>1, <2>3, <2>4 DEF ShowsMine
  <1> QED BY <1>2, <1>4 DEF TakesCards

\* Both players are all in and show their cards.
LEMMA AllInSeen ==
    ASSUME NEW v, NEW m, NEW w, v.state = "RunHand", m.type = "AllInShowCards",
           m.gen = v.gen, Sees(v, m, w)
    PROVE  w.state = "RunHand" /\ SameIds(v, w)
  <1>1. Accepts(v, m) /\ m.type \in Expects(v.state)
    BY ExpectedTypes DEF Accepts
  <1> QED BY <1>1, HandledSees DEF Takes, ShowsCards

\* The end of a hand, and of the game.
LEMMA HandEndSeen ==
    ASSUME NEW v, NEW m, NEW w, v.state = "RunHand",
           \/ m.type = "EndOfHandHide" /\ m.gen = v.gen[m.who]
           \/ m.type = "EndOfHandShow" /\ m.gen = v.gen,
           Sees(v, m, w)
    PROVE  w.state = "WaitHand" /\ SameIds(v, w) /\ w.set = NoSets /\ w.pot = 0
  <1>1. Accepts(v, m) /\ m.type \in Expects(v.state)
    BY ExpectedTypes DEF Accepts
  <1> QED BY <1>1, HandledSees DEF Takes, EndsHand

LEMMA GameEndSeen ==
    ASSUME NEW v, NEW m, NEW w, v.state = "WaitHand",
           m.type = "EndOfGame", m.gen = v.gen[m.who], Sees(v, m, w)
    PROVE  w.state = "NoTable"
  <1>1. Accepts(v, m) /\ m.type \in Expects(v.state)
    BY ExpectedTypes DEF Accepts
  <1> QED BY <1>1, HandledSees DEF Takes


\* Two messages.
LEMMA EndsTwo ==
    ASSUME NEW exact \in BOOLEAN, NEW v, NEW e, NEW m \in Messages, NEW n \in Messages, NEW w, NEW x,
           Ends(exact, v, e, <<m, n>>, w, x)
    PROVE  \E u, y : /\ Sees(v, m, u) /\ (exact => SeesMine(v, e, m, y))
                     /\ Sees(u, n, w) /\ (exact => SeesMine(u, y, n, x))
  <1> DEFINE ms == <<m, n>>
  <1>1. /\ ms \in Seq(Messages) /\ ms # << >>
        /\ Head(ms) = m /\ Tail(ms) = <<n>>
        /\ Ends(exact, v, e, ms, w, x)
    OBVIOUS
  <1> HIDE DEF ms
  <1>2. PICK u, y : /\ Sees(v, Head(ms), u) /\ (exact => SeesMine(v, e, Head(ms), y))
                    /\ Ends(exact, u, y, Tail(ms), w, x)
    BY <1>1, EndsFirst
  <1>3. Sees(v, m, u) /\ (exact => SeesMine(v, e, m, y)) /\ Ends(exact, u, y, <<n>>, w, x)
    BY <1>1, <1>2
  <1>4. Sees(u, n, w) /\ (exact => SeesMine(u, y, n, x))
    BY <1>3, EndsOne
  <1> QED BY <1>3, <1>4

\* What the server sends of a hand are messages.
LEMMA HandMessages ==
    ASSUME NEW h \in HandType, NEW gen \in [Seats -> Nat], NEW s \in Seats,
           NEW number \in Nat, NEW isActive \in BOOLEAN, NEW blind \in {"no", "small", "big"}
    PROVE  /\ HandStart(h, number, isActive) \in Messages
           /\ ActionDone(h, s, gen[s], blind) \in Messages
  <1>1. /\ h.smallBlind \in Nat /\ h.action[s] \in Actions /\ h.set[s] \in Nat
        /\ h.cash[s] \in Nat /\ h.highestSet \in Nat /\ h.minimumRaise \in Nat
        /\ gen[s] \in Nat
    BY DEF HandType
  <1>2. HandStart(h, number, isActive) \in StartMessages
    BY <1>1 DEF HandStart, StartMessages
  <1>3. ActionDone(h, s, gen[s], blind) \in TableMessages
    BY <1>1 DEF ActionDone, TableMessages
  <1> QED BY <1>2, <1>3 DEF Messages

(***************************************************************************)
(* The start of a hand                                                     *)
(***************************************************************************)

\* The client waits for hand number + 1, whose dealer it will find.
Waits(v, gen, next, number) ==
    /\ v.state = "WaitHand" /\ HasIds(v, gen, next, number)
    /\ v.set = NoSets /\ v.pot = 0

LEMMA HandStartSeen ==
    ASSUME NEW v, NEW m, NEW w, NEW gen \in [Seats -> Nat], NEW next \in Seats,
           NEW number \in Nat, Waits(v, gen, next, number),
           m.type = "HandStart", m.hand = number + 1, Sees(v, m, w)
    PROVE  /\ w.state = "RunHand" /\ HasIds(w, gen, Other(next), number + 1)
           /\ w.round = PREFLOP /\ w.smallBlind = m.small
           /\ w.set = NoSets /\ w.pot = 0
  <1>1. v.dealer[1] = next /\ v.dealer[2] = gen[next] /\ v.gen = gen /\ v.hand = number
    BY DEF Waits, HasIds
  <1>2. Accepts(v, m) /\ m.type \in Expects(v.state) /\ v.state = "WaitHand"
    BY <1>1, ExpectedTypes DEF Accepts, Waits
  <1>3. StartsHand(v, m, w)
    BY <1>2, HandledSees DEF Takes
  <1> QED BY <1>1, <1>3 DEF StartsHand, SameChips, HasIds, Waits

BlindTaken(exact, v, e, g, s, w, x) ==
    /\ w.state = "RunHand" /\ SameIds(v, w)
    /\ w.set = [v.set EXCEPT ![s] = g.set[s]] /\ w.sets = w.set[0] + w.set[1]
    /\ w.yours = IF s = You THEN g.cash[s] ELSE v.yours
    /\ w.pot = v.pot /\ w.round = v.round /\ w.smallBlind = v.smallBlind
    /\ exact => /\ x.cash = IF s = Me THEN g.cash[s] ELSE e.cash
                /\ x.highestSet = g.highestSet /\ x.minimumRaise = g.minimumRaise

LEMMA BlindSeen ==
    ASSUME NEW exact \in BOOLEAN, NEW v, NEW e, NEW w, NEW x, NEW g \in HandType, NEW s \in Seats,
           NEW m, NEW blind \in {"small", "big"}, m = ActionDone(g, s, v.gen[s], blind),
           v.state = "RunHand", Sees(v, m, w), (exact => SeesMine(v, e, m, x))
    PROVE  BlindTaken(exact, v, e, g, s, w, x)
  <1>1. /\ m.type = "ActionDone" /\ m.who = s /\ m.gen = v.gen[s] /\ m.blind # "no"
        /\ m.set = g.set[s] /\ m.cash = g.cash[s]
        /\ m.highestSet = g.highestSet /\ m.minimumRaise = g.minimumRaise
    BY DEF ActionDone
  <1>3. Accepts(v, m) /\ m.type \in Expects(v.state)
    BY <1>1, ExpectedTypes DEF Accepts
  <1>4. TakesAction(v, m, w)
    BY <1>1, <1>3, HandledSees DEF Takes
  <1>5. exact => /\ x.cash = IF m.who = Me THEN m.cash ELSE e.cash
                 /\ x.highestSet = m.highestSet /\ x.minimumRaise = m.minimumRaise
    BY <1>1, <1>3 DEF SeesMine
  <1> QED BY <1>1, <1>4, <1>5 DEF TakesAction, BlindTaken

\* A new hand, as all views show it.
ShowsAll(exact, v, x, gen, next, number, h) ==
    /\ v.state = "RunHand" /\ HasIds(v, gen, next, number)
    /\ ShowsHand(v, h) /\ v.round = h.round
    /\ exact => ShowsMine(v, x, h)

LEMMA BlindsSeen ==
    ASSUME NEW exact \in BOOLEAN, NEW v, NEW e, NEW w, NEW x, NEW g \in HandType, NEW gen \in [Seats -> Nat],
           v.state = "RunHand", v.gen = gen, v.round = g.round, v.smallBlind = g.smallBlind,
           v.set = NoSets, v.pot = g.pot, InSync(g), Ends(exact, v, e, BlindsPaid(g, gen), w, x)
    PROVE  /\ w.state = "RunHand" /\ SameIds(v, w)
           /\ ShowsHand(w, g) /\ w.round = g.round /\ (exact => ShowsMine(w, x, g))
  <1> DEFINE a == SmallBlindSeat(g)
             b == BigBlindSeat(g)
             m == ActionDone(g, a, gen[a], "small")
             n == ActionDone(g, b, gen[b], "big")
  <1>1. a \in Seats /\ b \in Seats /\ a # b
    BY DEF SmallBlindSeat, BigBlindSeat, Other, HandType, Seats
  <1>2. BlindsPaid(g, gen) = <<m, n>>
    BY DEF BlindsPaid
  <1> HIDE DEF a, b
  <1>3. m \in Messages /\ n \in Messages
    <2>1. 0 \in Nat /\ TRUE \in BOOLEAN
      OBVIOUS
    <2> QED BY <1>1, <2>1, HandMessages
  <1> HIDE DEF m, n
  <1>4. PICK u, y : Sees(v, m, u) /\ (exact => SeesMine(v, e, m, y)) /\ Sees(u, n, w) /\ (exact => SeesMine(u, y, n, x))
    BY <1>2, <1>3, EndsTwo
  <1>5. BlindTaken(exact, v, e, g, a, u, y)
    <2>1. "small" \in {"small", "big"} /\ m = ActionDone(g, a, v.gen[a], "small")
      BY DEF m
    <2> QED BY <1>1, <1>4, <2>1, BlindSeen
  <1>6. u.gen = gen /\ u.state = "RunHand"
    BY <1>5 DEF BlindTaken, SameIds
  <1>7. BlindTaken(exact, u, y, g, b, w, x)
    <2>1. "big" \in {"small", "big"} /\ n = ActionDone(g, b, u.gen[b], "big")
      BY <1>6 DEF n
    <2> QED BY <1>1, <1>4, <1>6, <2>1, BlindSeen
  <1>8. w.set = g.set
    BY <1>1, <1>5, <1>7 DEF BlindTaken, NoSets, HandType, Seats
  <1>9. w.yours = g.cash[You] /\ (exact => x.cash = g.cash[Me])
    BY <1>1, <1>5, <1>7, MeAndYou DEF BlindTaken
  <1>10. g.round \in Rounds /\ g.round <= g.round
    BY DEF HandType, Rounds
  <1>11. ShowsHand(w, g) /\ w.round = g.round /\ (exact => ShowsMine(w, x, g))
    BY <1>5, <1>7, <1>8, <1>9, <1>10 DEF BlindTaken, ShowsHand, ShowsMine, InSync
  <1> QED BY <1>5, <1>7, <1>11 DEF BlindTaken, SameIds

\* All the messages of the start of a hand.
LEMMA NewHandSeen ==
    ASSUME NEW exact \in BOOLEAN, NEW v, NEW e, NEW w, NEW x, NEW g \in HandType, NEW gen \in [Seats -> Nat],
           NEW number \in Nat, NEW isActive \in BOOLEAN,
           v.state = "NoTable" \/ Waits(v, gen, g.dealer, number),
           InSync(g), g.pot = 0, g.round = PREFLOP,
           Ends(exact, v, e, <<HandStart(g, number + 1, isActive)>> \o BlindsPaid(g, gen), w, x)
    PROVE  \/ w.state = "NoTable"
           \/ ShowsAll(exact, w, x, gen, Other(g.dealer), number + 1, g)
  <1> DEFINE m == HandStart(g, number + 1, isActive)
             a == SmallBlindSeat(g)
             b == BigBlindSeat(g)
             m1 == ActionDone(g, a, gen[a], "small")
             m2 == ActionDone(g, b, gen[b], "big")
  <1>1. a \in Seats /\ b \in Seats /\ g.dealer \in Seats
    BY DEF SmallBlindSeat, BigBlindSeat, Other, HandType, Seats
  <1>2. m \in Messages /\ m1 \in Messages /\ m2 \in Messages
    <2>1. number + 1 \in Nat
      OBVIOUS
    <2> HIDE DEF a, b
    <2> QED BY <1>1, <2>1, HandMessages
  <1>3. /\ m.type = "HandStart" /\ m.hand = number + 1 /\ m.small = g.smallBlind
        /\ m1.type = "ActionDone" /\ m2.type = "ActionDone"
    BY DEF HandStart, ActionDone
  <1>4. BlindsPaid(g, gen) = <<m1, m2>> /\ Ends(exact, v, e, <<m>> \o <<m1, m2>>, w, x)
    BY DEF BlindsPaid
  <1> HIDE DEF m, m1, m2
  <1>5. PICK u, y : Ends(exact, v, e, <<m>>, u, y) /\ Ends(exact, u, y, <<m1, m2>>, w, x)
    <2>1. <<m>> \in Seq(Messages) /\ <<m1, m2>> \in Seq(Messages)
      BY <1>2
    <2> QED BY <1>4, <2>1, EndsBoth
  <1>6. Sees(v, m, u)
    BY <1>2, <1>5, EndsOne
  <1>7. CASE v.state = "NoTable"
    <2>1. u = v
      BY <1>3, <1>6, <1>7, NoTableStays
    <2>2. PICK t, z : Sees(u, m1, t) /\ Sees(t, m2, w)
      BY <1>2, <1>5, EndsTwo
    <2>3. t = u
      BY <1>3, <1>7, <2>1, <2>2, NoTableStays
    <2>4. w = t
      BY <1>3, <1>7, <2>1, <2>2, <2>3, NoTableStays
    <2> QED BY <1>7, <2>1, <2>3, <2>4
  <1>8. CASE Waits(v, gen, g.dealer, number)
    <2>1. /\ u.state = "RunHand" /\ HasIds(u, gen, Other(g.dealer), number + 1)
          /\ u.round = PREFLOP /\ u.smallBlind = m.small /\ u.set = NoSets /\ u.pot = 0
      BY <1>1, <1>3, <1>6, <1>8, HandStartSeen
    <2>2. u.gen = gen
      BY <2>1 DEF HasIds
    <2>3. /\ w.state = "RunHand" /\ SameIds(u, w)
          /\ ShowsHand(w, g) /\ w.round = g.round /\ (exact => ShowsMine(w, x, g))
      <3>1. Ends(exact, u, y, BlindsPaid(g, gen), w, x)
        BY <1>4, <1>5
      <3>2. u.smallBlind = g.smallBlind
        BY <1>3, <2>1
      <3> QED BY <2>1, <2>2, <3>1, <3>2, BlindsSeen
    <2> QED BY <2>1, <2>3 DEF ShowsAll, HasIds, SameIds
  <1> QED BY <1>7, <1>8


(***************************************************************************)
(* Players come back                                                       *)
(***************************************************************************)

LEMMA IdChangeSeen ==
    ASSUME NEW v, NEW m, NEW w, NEW gen \in [Seats -> Nat], NEW next \in Seats,
           NEW number \in Nat, Waits(v, gen, next, number),
           m.type = "PlayerIdChanged", m.who \in Seats, m.old = gen[m.who], Sees(v, m, w)
    PROVE  Waits(w, [gen EXCEPT ![m.who] = m.new], next, number)
  <1>1. v.gen = gen /\ v.hand = number /\ v.dealer = <<next, gen[next]>> /\ v.state = "WaitHand"
    BY DEF Waits, HasIds
  <1>2. Accepts(v, m) /\ m.type \in Expects(v.state)
    BY <1>1, ExpectedTypes DEF Accepts
  <1>3. ChangesId(v, m, w)
    BY <1>1, <1>2, HandledSees DEF Takes
  <1> DEFINE now == [gen EXCEPT ![m.who] = m.new]
  <1>4. w.gen = now /\ w.hand = number
    BY <1>1, <1>3 DEF ChangesId
  <1>5. w.dealer = <<next, now[next]>>
    <2>1. CASE next = m.who
      BY <1>1, <1>3, <2>1 DEF ChangesId
    <2>2. CASE next # m.who
      <3>1. v.dealer # <<m.who, m.old>> /\ now[next] = gen[next]
        BY <1>1, <2>2
      <3> QED BY <1>1, <1>3, <3>1 DEF ChangesId
    <2> QED BY <2>1, <2>2
  <1> HIDE DEF now
  <1>6. w.state = "WaitHand" /\ w.set = NoSets /\ w.pot = 0
    BY <1>3 DEF ChangesId, SameChips, Waits
  <1>7. Waits(w, now, next, number)
    BY <1>4, <1>5, <1>6 DEF Waits, HasIds
  <1> QED BY <1>7 DEF now

LEMMA RejoinSeen ==
    ASSUME NEW v, NEW m, NEW w, NEW next, v.state = "NoTable",
           m.type = "GameStartRejoin", m.dealer = <<next, m.gen[next]>>, Sees(v, m, w)
    PROVE  w.state = "NoTable" \/ Waits(w, m.gen, next, m.hand)
  BY ExpectedTypes DEF Sees, Opens, Fresh, Waits, HasIds

\* The ids when the first i of the players who came back have their seats.
IdsAfter(order, i) ==
    [s \in Seats |-> IF \E j \in 1..i : order[j] = s THEN logins[s] ELSE ids[s]]

\* The ids of the next hand.
NextIds == [s \in Seats |-> IF s \in rejoin THEN logins[s] ELSE ids[s]]

\* What is sent for the i-th of them.
RejoinMessage(order, i) ==
    IF order[i] = Me THEN GameStartRejoin(IdsAfter(order, i))
    ELSE PlayerIdChanged(order[i], ids[order[i]], logins[order[i]])

LEMMA RejoinMessages ==
    ASSUME NetTypeOK, hand \in HandType, NEW s \in Seats, NEW gen \in [Seats -> Nat]
    PROVE  /\ GameStartRejoin(gen) \in Messages
           /\ PlayerIdChanged(s, ids[s], logins[s]) \in Messages
  <1>1. /\ hand.cash \in [Seats -> Nat] /\ hands \in Nat
        /\ Other(hand.dealer) \in Seats /\ gen[Other(hand.dealer)] \in Nat
        /\ ids[s] \in Nat /\ logins[s] \in Nat
    <2>1. hand.cash \in [Seats -> Nat] /\ hand.dealer \in Seats
      BY DEF HandType
    <2>2. hands \in Nat /\ ids[s] \in Nat /\ logins[s] \in Nat
      BY DEF NetTypeOK
    <2>3. Other(hand.dealer) \in Seats
      BY <2>1 DEF Other, Seats
    <2> QED BY <2>1, <2>2, <2>3
  <1>2. <<Other(hand.dealer), gen[Other(hand.dealer)]>> \in Seats \X Nat
    BY <1>1
  <1>3. GameStartRejoin(gen) \in StartMessages
    BY <1>1, <1>2 DEF GameStartRejoin, StartMessages
  <1>4. PlayerIdChanged(s, ids[s], logins[s]) \in StartMessages
    BY <1>1 DEF PlayerIdChanged, StartMessages
  <1> QED BY <1>3, <1>4 DEF Messages

LEMMA RejoinedTwo ==
    ASSUME NEW a \in Seats, NEW b \in Seats, NEW order, order = <<a, b>>
    PROVE  Rejoined(order) = <<RejoinMessage(order, 1), RejoinMessage(order, 2)>>
  BY DEF Rejoined, RejoinMessage, IdsAfter

LEMMA RejoinedOne ==
    ASSUME NEW a \in Seats, NEW order, order = <<a>>
    PROVE  Rejoined(order) = <<RejoinMessage(order, 1)>>
  BY DEF Rejoined, RejoinMessage, IdsAfter

LEMMA RejoinedNone == Rejoined(<< >>) = << >>
  BY DEF Rejoined


\* The ways in which the players come back.
Orders == {<< >>, <<0>>, <<1>>, <<0, 1>>, <<1, 0>>}

LEMMA OrderOf ==
    ASSUME NEW order \in Orders, {order[i] : i \in 1..Len(order)} = rejoin
    PROVE  \/ order = << >> /\ rejoin = {}
           \/ \E a \in Seats : order = <<a>> /\ rejoin = {a}
           \/ \E a, b \in Seats : a # b /\ order = <<a, b>> /\ rejoin = Seats
  <1>1. CASE order = << >>
    BY <1>1
  <1>2. ASSUME NEW a \in Seats, order = <<a>>
        PROVE  rejoin = {a}
    <2>1. Len(order) = 1 /\ order[1] = a
      BY <1>2
    <2> QED BY <2>1
  <1>3. ASSUME NEW a \in Seats, NEW b \in Seats, a # b, order = <<a, b>>
        PROVE  rejoin = Seats
    <2>1. Len(order) = 2 /\ order[1] = a /\ order[2] = b
      BY <1>3
    <2>2. a \in rejoin /\ b \in rejoin
      BY <2>1
    <2>3. rejoin \subseteq Seats
      BY <2>1
    <2> QED BY <1>3, <2>2, <2>3 DEF Seats
  <1>4. 0 \in Seats /\ 1 \in Seats
    BY DEF Seats
  <1> QED BY <1>1, <1>2, <1>3, <1>4 DEF Orders

LEMMA IdsAfterAll ==
    ASSUME NetTypeOK
    PROVE  /\ NextIds \in [Seats -> Nat]
           /\ rejoin = {} => NextIds = ids
           /\ \A a \in Seats : rejoin = {a} =>
                 /\ IdsAfter(<<a>>, 1) = NextIds
                 /\ [ids EXCEPT ![a] = logins[a]] = NextIds
           /\ \A a, b \in Seats : a # b /\ rejoin = Seats =>
                 /\ IdsAfter(<<a, b>>, 1) \in [Seats -> Nat]
                 /\ IdsAfter(<<a, b>>, 1)[b] = ids[b]
                 /\ [IdsAfter(<<a, b>>, 1) EXCEPT ![b] = logins[b]] = NextIds
                 /\ IdsAfter(<<a, b>>, 2) = NextIds
  <1>1. ids \in [Seats -> Nat] /\ logins \in [Seats -> Nat]
    BY DEF NetTypeOK
  <1>2. NextIds \in [Seats -> Nat] /\ (rejoin = {} => NextIds = ids)
    BY <1>1 DEF NextIds
  <1>3. ASSUME NEW a \in Seats, rejoin = {a}
        PROVE  /\ IdsAfter(<<a>>, 1) = NextIds
               /\ [ids EXCEPT ![a] = logins[a]] = NextIds
    <2>1. \A s \in Seats : (\E j \in 1..1 : <<a>>[j] = s) <=> s = a
      OBVIOUS
    <2>2. IdsAfter(<<a>>, 1) = NextIds
      BY <1>3, <2>1 DEF IdsAfter, NextIds
    <2> QED BY <1>1, <1>3, <2>2 DEF NextIds
  <1>4. ASSUME NEW a \in Seats, NEW b \in Seats, a # b, rejoin = Seats
        PROVE  /\ IdsAfter(<<a, b>>, 1) \in [Seats -> Nat]
               /\ IdsAfter(<<a, b>>, 1)[b] = ids[b]
               /\ [IdsAfter(<<a, b>>, 1) EXCEPT ![b] = logins[b]] = NextIds
               /\ IdsAfter(<<a, b>>, 2) = NextIds
    <2>1. \A s \in Seats : (\E j \in 1..1 : <<a, b>>[j] = s) <=> s = a
      OBVIOUS
    <2>2. \A s \in Seats : \E j \in 1..2 : <<a, b>>[j] = s
      BY <1>4 DEF Seats
    <2>3. IdsAfter(<<a, b>>, 1) = [s \in Seats |-> IF s = a THEN logins[s] ELSE ids[s]]
      BY <2>1 DEF IdsAfter
    <2>4. NextIds = [s \in Seats |-> logins[s]]
      BY <1>4 DEF NextIds
    <2>5. IdsAfter(<<a, b>>, 2) = NextIds
      BY <2>2, <2>4 DEF IdsAfter
    <2>6. [IdsAfter(<<a, b>>, 1) EXCEPT ![b] = logins[b]] = NextIds
      BY <1>4, <2>3, <2>4 DEF Seats
    <2> QED BY <1>1, <1>4, <2>3, <2>5, <2>6
  <1> QED BY <1>2, <1>3, <1>4

LEMMA RejoinMessageFacts ==
    ASSUME NetTypeOK, hand \in HandType, NEW order, NEW i, order[i] \in Seats,
           NEW m, m = RejoinMessage(order, i)
    PROVE  /\ m \in Messages
           /\ order[i] = Me =>
                 /\ m.type = "GameStartRejoin" /\ m.gen = IdsAfter(order, i) /\ m.hand = hands
                 /\ m.dealer = <<Other(hand.dealer), m.gen[Other(hand.dealer)]>>
           /\ order[i] # Me =>
                 /\ m.type = "PlayerIdChanged" /\ m.who = order[i]
                 /\ m.old = ids[order[i]] /\ m.new = logins[order[i]]
  <1>1. IdsAfter(order, i) \in [Seats -> Nat]
    BY DEF IdsAfter, NetTypeOK
  <1> DEFINE gen == IdsAfter(order, i)
             s == order[i]
  <1> HIDE DEF gen, s
  <1>2. m \in Messages
    BY <1>1, RejoinMessages DEF RejoinMessage, gen, s
  <1>3. CASE s = Me
    <2>1. m = GameStartRejoin(gen)
      BY <1>3 DEF RejoinMessage, gen, s
    <2> QED BY <1>2, <1>3, <2>1 DEF GameStartRejoin, gen, s
  <1>4. CASE s # Me
    <2>1. m = PlayerIdChanged(s, ids[s], logins[s])
      BY <1>4 DEF RejoinMessage, s
    <2> QED BY <1>2, <1>4, <2>1 DEF PlayerIdChanged, s
  <1> QED BY <1>3, <1>4 DEF s


\* Whoever came back, his client will find the players and the dealer of the
\* next hand, and so will the client of a player who stayed.
LEMMA RejoinedSeen ==
    ASSUME NetTypeOK, hand \in HandType, NEW order \in Orders,
           {order[i] : i \in 1..Len(order)} = rejoin
    PROVE  /\ Rejoined(order) \in Seq(Messages)
           /\ \A exact \in BOOLEAN : \A v, e, w, x :
                 /\ \/ v.state = "NoTable"
                    \/ Me \notin rejoin /\ Waits(v, ids, Other(hand.dealer), hands)
                 /\ Ends(exact, v, e, Rejoined(order), w, x)
                 => \/ w.state = "NoTable"
                    \/ Waits(w, NextIds, Other(hand.dealer), hands)
  <1> DEFINE next == Other(hand.dealer)
             Before(v) == \/ v.state = "NoTable"
                          \/ Me \notin rejoin /\ Waits(v, ids, next, hands)
             After(w) == w.state = "NoTable" \/ Waits(w, NextIds, next, hands)
  <1>1. next \in Seats /\ hands \in Nat /\ ids \in [Seats -> Nat]
    BY DEF NetTypeOK, HandType, Other, Seats
  <1>2. CASE order = << >> /\ rejoin = {}
    <2>1. Rejoined(order) = << >> /\ NextIds = ids
      BY <1>2, RejoinedNone, IdsAfterAll
    <2>2. ASSUME NEW exact \in BOOLEAN, NEW v, NEW e, NEW w, NEW x, Before(v), Ends(exact, v, e, Rejoined(order), w, x)
          PROVE  After(w)
      <3>1. w = v
        BY <2>1, <2>2, EndsEmpty
      <3> QED BY <2>1, <2>2, <3>1
    <2> QED BY <2>1, <2>2
  <1>3. ASSUME NEW a \in Seats, order = <<a>>, rejoin = {a}
        PROVE  /\ Rejoined(order) \in Seq(Messages)
               /\ \A exact \in BOOLEAN : \A v, e, w, x :
                     Before(v) /\ Ends(exact, v, e, Rejoined(order), w, x) => After(w)
    <2> DEFINE m == RejoinMessage(order, 1)
    <2>1. order[1] = a /\ Rejoined(order) = <<m>>
      BY <1>3, RejoinedOne
    <2>2. /\ IdsAfter(order, 1) = NextIds /\ NextIds \in [Seats -> Nat]
          /\ [ids EXCEPT ![a] = logins[a]] = NextIds
      BY <1>3, IdsAfterAll
    <2>3. /\ m \in Messages
          /\ a = Me =>
                /\ m.type = "GameStartRejoin" /\ m.gen = NextIds /\ m.hand = hands
                /\ m.dealer = <<next, m.gen[next]>>
          /\ a # Me =>
                /\ m.type = "PlayerIdChanged" /\ m.who = a
                /\ m.old = ids[a] /\ m.new = logins[a]
      BY <2>1, <2>2, RejoinMessageFacts
    <2> HIDE DEF m, next
    <2>4. ASSUME NEW exact \in BOOLEAN, NEW v, NEW e, NEW w, NEW x, Before(v), Ends(exact, v, e, Rejoined(order), w, x)
          PROVE  After(w)
      <3>1. Sees(v, m, w)
        BY <2>1, <2>3, <2>4, EndsOne
      <3>2. CASE a = Me
        <4>1. v.state = "NoTable"
          BY <1>3, <2>4, <3>2
        <4> QED BY <2>3, <3>1, <3>2, <4>1, RejoinSeen
      <3>3. CASE a # Me /\ v.state = "NoTable"
        BY <2>3, <3>1, <3>3, NoTableStays
      <3>4. CASE a # Me /\ Waits(v, ids, next, hands)
        <4>1. Waits(w, [ids EXCEPT ![m.who] = m.new], next, hands)
          BY <1>1, <2>3, <3>1, <3>4, IdChangeSeen DEF next
        <4> QED BY <2>2, <2>3, <3>4, <4>1
      <3> QED BY <2>4, <3>2, <3>3, <3>4
    <2>5. Rejoined(order) \in Seq(Messages)
      BY <2>1, <2>3
    <2> QED BY <2>4, <2>5
  <1>4. ASSUME NEW a \in Seats, NEW b \in Seats, a # b, order = <<a, b>>, rejoin = Seats
        PROVE  /\ Rejoined(order) \in Seq(Messages)
               /\ \A exact \in BOOLEAN : \A v, e, w, x :
                     Before(v) /\ Ends(exact, v, e, Rejoined(order), w, x) => After(w)
    <2> DEFINE m == RejoinMessage(order, 1)
               n == RejoinMessage(order, 2)
               first == IdsAfter(order, 1)
    <2>1. order[1] = a /\ order[2] = b /\ Rejoined(order) = <<m, n>>
      BY <1>4, RejoinedTwo
    <2>2. /\ first \in [Seats -> Nat] /\ first[b] = ids[b]
          /\ [first EXCEPT ![b] = logins[b]] = NextIds
          /\ IdsAfter(order, 2) = NextIds /\ NextIds \in [Seats -> Nat]
      BY <1>4, IdsAfterAll
    <2>3. /\ m \in Messages
          /\ a = Me =>
                /\ m.type = "GameStartRejoin" /\ m.gen = first /\ m.hand = hands
                /\ m.dealer = <<next, m.gen[next]>>
          /\ a # Me => m.type = "PlayerIdChanged"
      BY <2>1, RejoinMessageFacts
    <2>4. /\ n \in Messages
          /\ b = Me =>
                /\ n.type = "GameStartRejoin" /\ n.gen = NextIds /\ n.hand = hands
                /\ n.dealer = <<next, n.gen[next]>>
          /\ b # Me =>
                /\ n.type = "PlayerIdChanged" /\ n.who = b
                /\ n.old = ids[b] /\ n.new = logins[b]
      BY <2>1, <2>2, RejoinMessageFacts
    <2> HIDE DEF m, n, first, next
    <2>5. ASSUME NEW exact \in BOOLEAN, NEW v, NEW e, NEW w, NEW x, Before(v), Ends(exact, v, e, Rejoined(order), w, x)
          PROVE  After(w)
      <3>1. PICK u, y : Sees(v, m, u) /\ Sees(u, n, w)
        BY <2>1, <2>3, <2>4, <2>5, EndsTwo
      <3>2. v.state = "NoTable"
        BY <1>4, <2>5, MeAssumption
      <3>3. CASE a = Me
        <4>1. b # Me
          BY <1>4, <3>3
        <4>2. u.state = "NoTable" \/ Waits(u, first, next, hands)
          BY <2>3, <3>1, <3>2, <3>3, RejoinSeen
        <4>3. CASE u.state = "NoTable"
          BY <2>4, <3>1, <4>1, <4>3, NoTableStays
        <4>4. CASE Waits(u, first, next, hands)
          <5>1. Waits(w, [first EXCEPT ![n.who] = n.new], next, hands)
            BY <1>1, <2>2, <2>4, <3>1, <4>1, <4>4, IdChangeSeen DEF next
          <5> QED BY <2>2, <2>4, <4>1, <5>1
        <4> QED BY <4>2, <4>3, <4>4
      <3>4. CASE a # Me
        <4>1. b = Me
          BY <1>4, <3>4, MeAndYou
        <4>2. u = v
          BY <2>3, <3>1, <3>2, <3>4, NoTableStays
        <4> QED BY <2>4, <3>1, <3>2, <4>1, <4>2, RejoinSeen
      <3> QED BY <3>3, <3>4
    <2>6. Rejoined(order) \in Seq(Messages)
      BY <2>1, <2>3, <2>4
    <2> QED BY <2>5, <2>6
  <1> QED BY <1>2, <1>3, <1>4, OrderOf


(***************************************************************************)
(* The invariant                                                           *)
(***************************************************************************)

Playing == game /\ state \in {"Hand", "WaitPlayerAction"}

\* A view that has nothing left to take: the ids, the number of the hand and the
\* next dealer are the server's; in a hand that is not run out the chips are.
IsCurrent(v) ==
    \/ v.state = "NoTable"
    \/ /\ Me \notin rejoin /\ link[Me] # "out" /\ state \in Running
       /\ HasIds(v, ids, Other(hand.dealer), hands)
       /\ Playing =>
             /\ v.state = "RunHand"
             /\ \/ hand.allIn
                \/ /\ ShowsHand(v, hand)
                   /\ state = "WaitPlayerAction" => v.round = hand.round
       /\ ~Playing => v.state = "WaitHand" /\ v.set = NoSets /\ v.pot = 0

\* So is the client's own stack, the bet to match and the least raise.
IsExact(v, x) ==
    v.state # "NoTable" /\ Playing /\ ~hand.allIn => ShowsMine(v, x, hand)

\* Whatever is on its way, the client ends up with a current view of the table;
\* unless it has a request on its way, or one went astray in this hand, with an
\* exact one.
AllCurrent ==
    \A e, w, x : Ends(FALSE, View(client), e, down, w, x) => IsCurrent(w)
AllExact ==
    \/ up # << >> \/ astray = hands
    \/ \A w, x : Ends(TRUE, View(client), Mine(client), down, w, x) => IsExact(w, x)

\* A closed client is that of a player who is out.
Present ==
    /\ client.state = "Closed" => link[Me] = "out"
    /\ Me \in rejoin => link[Me] # "out"

\* Cards are shown in a hand that runs out only, and a game that ends after a
\* hand has a winner.
RunsOut ==
    state = "Hand" =>
        /\ (timer = "ShowCards" \/ \E i \in 1..Len(ready) : ready[i] = "ShowCards") => hand.allIn
        /\ ~game => \E s \in Seats : hand.cash[s] > 0

NetInv == NetTypeOK /\ AllCurrent /\ AllExact /\ Present /\ RunsOut

ClientInv == TInv /\ NetInv

(***************************************************************************)
(* What becomes of it when the server sends something, or nothing          *)
(***************************************************************************)

LEMMA OutHasNoTable ==
    ASSUME NEW v, IsCurrent(v), link[Me] = "out" \/ Me \in rejoin \/ state \notin Running
    PROVE  v.state = "NoTable"
  BY DEF IsCurrent

LEMMA SendKeeps ==
    ASSUME NetTypeOK, AllCurrent, AllExact, NEW ms \in Seq(Messages), Send(ms),
           link[Me] # "out" =>
              \A exact \in BOOLEAN : \A v, e, w, x :
                 IsCurrent(v) /\ Ends(exact, v, e, ms, w, x) =>
                    /\ IsCurrent(w)'
                    /\ exact /\ (IsExact(v, e) \/ hands' # hands) => IsExact(w, x)'
    PROVE  /\ AllCurrent' /\ AllExact' /\ down' \in Seq(Messages)
           /\ UNCHANGED <<up, client, buttons, astray>>
  <1>1. /\ down' = IF link[Me] = "out" THEN down ELSE down \o ms
        /\ up' = up /\ client' = client /\ buttons' = buttons /\ astray' = astray
        /\ down \in Seq(Messages)
    BY DEF Send, NetTypeOK
  <1>2. CASE link[Me] = "out"
    <2>1. ASSUME NEW e, NEW w, NEW x, Ends(FALSE, View(client), e, down, w, x)
          PROVE  w.state = "NoTable" /\ IsCurrent(w)' /\ IsExact(w, x)'
      <3>1. w.state = "NoTable"
        BY <1>2, <2>1, OutHasNoTable DEF AllCurrent
      <3> QED BY <3>1 DEF IsCurrent, IsExact
    <2>2. down' = down
      BY <1>1, <1>2
    <2>3. AllCurrent'
      BY <1>1, <2>1, <2>2 DEF AllCurrent
    <2>4. AllExact'
      <3>1. ASSUME NEW w, NEW x, Ends(TRUE, View(client), Mine(client), down, w, x)
            PROVE  IsExact(w, x)'
        <4>1. Ends(FALSE, View(client), Mine(client), down, w, x)
          BY <3>1, EndsLoosely
        <4> QED BY <2>1, <4>1
      <3> QED BY <1>1, <2>2, <3>1 DEF AllExact
    <2> QED BY <1>1, <2>2, <2>3, <2>4
  <1>3. CASE link[Me] # "out"
    <2>1. down' = down \o ms
      BY <1>1, <1>3
    <2>2. AllCurrent'
      <3>1. ASSUME NEW e, NEW w, NEW x, Ends(FALSE, View(client), e, down \o ms, w, x)
            PROVE  IsCurrent(w)'
        <4>1. PICK u, y : /\ Ends(FALSE, View(client), e, down, u, y)
                          /\ Ends(FALSE, u, y, ms, w, x)
          BY <1>1, <3>1, EndsBoth
        <4>2. IsCurrent(u)
          BY <4>1 DEF AllCurrent
        <4> QED BY <1>3, <4>1, <4>2
      <3> QED BY <1>1, <2>1, <3>1 DEF AllCurrent
    <2>3. AllExact'
      <3>1. ASSUME NEW w, NEW x, Ends(TRUE, View(client), Mine(client), down \o ms, w, x),
                   up' = << >>, astray' # hands'
            PROVE  IsExact(w, x)'
        <4>1. PICK u, y : /\ Ends(TRUE, View(client), Mine(client), down, u, y)
                          /\ Ends(TRUE, u, y, ms, w, x)
          BY <1>1, <3>1, EndsBoth
        <4>2. IsCurrent(u)
          BY <4>1, EndsLoosely DEF AllCurrent
        <4>3. hands' = hands => IsExact(u, y)
          BY <1>1, <3>1, <4>1 DEF AllExact
        <4> QED BY <1>3, <4>1, <4>2, <4>3
      <3> QED BY <1>1, <2>1, <3>1 DEF AllExact
    <2> QED BY <1>1, <2>1, <2>2, <2>3
  <1> QED BY <1>2, <1>3

LEMMA QuietKeeps ==
    ASSUME AllCurrent, AllExact, UNCHANGED <<down, up, client, astray, hands>>,
           \A v : IsCurrent(v) => IsCurrent(v)',
           \A v, x : IsExact(v, x) => IsExact(v, x)'
    PROVE  AllCurrent' /\ AllExact'
  <1>1. AllCurrent'
    BY DEF AllCurrent
  <1>2. AllExact'
    BY DEF AllExact
  <1> QED BY <1>1, <1>2

\* The connection is gone.
LEMMA DisconnectKeeps ==
    ASSUME NetTypeOK, Disconnect
    PROVE  /\ AllCurrent' /\ AllExact'
           /\ down' \in Seq(Messages) /\ up' \in Seq(RequestType)
           /\ client' \in ClientType /\ buttons' \in ButtonsType /\ UNCHANGED astray
           /\ client'.state = "Closed"
  <1>1. /\ down' = << >> /\ up' = << >> /\ client' = NoTable("Closed")
        /\ buttons' = BlankButtons /\ UNCHANGED astray
    BY DEF Disconnect
  <1>2. client' \in ClientType /\ client'.state = "Closed"
    <2>1. "Closed" \in ClientStates
      BY DEF ClientStates
    <2> QED BY <1>1, <2>1, NoTableType
  <1>3. View(client') = NoView /\ NoView.state = "NoTable"
    BY <1>2, ViewFields
  <1>4. ASSUME NEW exact \in BOOLEAN, NEW e, NEW w, NEW x, Ends(exact, NoView, e, << >>, w, x)
        PROVE  IsCurrent(w)' /\ IsExact(w, x)'
    <2>1. w = NoView
      BY <1>4, EndsEmpty
    <2> QED BY <1>3, <2>1 DEF IsCurrent, IsExact
  <1>5. AllCurrent'
    BY <1>1, <1>3, <1>4 DEF AllCurrent
  <1>6. AllExact'
    BY <1>1, <1>3, <1>4 DEF AllExact
  <1> QED BY <1>1, <1>2, <1>5, <1>6, BlankType


(***************************************************************************)
(* The client's and the user's steps                                       *)
(***************************************************************************)

\* The server's table keeps its own invariant.
LEMMA TableKeeps == TInv /\ [Next]_vars => TInv'
  BY NextSound, NextHandlers, NextEngine DEF TInv

LEMMA ServerUnchanged ==
    ASSUME TInv, RunsOut, UNCHANGED vars
    PROVE  TInv' /\ RunsOut'
  <1>1. TInv'
    BY TableKeeps
  <1>2. RunsOut'
    BY DEF RunsOut, vars
  <1> QED BY <1>1, <1>2

\* Every step of the client handles or drops a message, or is made without one.
LEMMA ClientStepSees ==
    ASSUME NetTypeOK, ClientStep
    PROVE  ClientTakes \/ ClientAnswers \/ ClientAlone
  <1>1. ASSUME NEW minutesUp \in BOOLEAN, CHandStart(minutesUp)
        PROVE  ClientTakes
    BY <1>1, CHandStartSees
  <1>2. CASE CDrop \/ CStartEvent \/ CGameStartInitial \/ CGameStartRejoin \/ CPlayerIdChanged
    BY <1>2, CDropSees, CStartEventSees, CGameStartInitialSees, CGameStartRejoinSees,
       CPlayerIdChangedSees
  <1>3. CASE CActionDone \/ CPlayersTurn \/ CDealCards \/ CAllInShowCards
    BY <1>3, CActionDoneSees, CPlayersTurnSees, CDealCardsSees, CAllInShowCardsSees
  <1>4. CASE CEndOfHandHide \/ CEndOfHandShow \/ CEndOfGame
    BY <1>4, CEndOfHandHideSees, CEndOfHandShowSees, CEndOfGameSees
  <1> QED BY <1>1, <1>2, <1>3, <1>4 DEF ClientStep, ClientAlone

\* A message that the client handles and that is not its last leaves it a table.
LEMMA HandledHasTable ==
    ASSUME NEW v, NEW m, NEW w, Sees(v, m, w), m.type \in Expects(v.state),
           v.state \in {"NoTable", "WaitHand", "RunHand"},
           m.type # "EndOfGame"
    PROVE  w.state # "NoTable"
  <1>1. CASE v.state = "NoTable"
    BY <1>1, ExpectedTypes
  <1>2. CASE v.state # "NoTable" /\ ~Accepts(v, m)
    BY <1>2 DEF Sees
  <1>3. CASE v.state # "NoTable" /\ Accepts(v, m)
    <2>1. Takes(v, m, w)
      BY <1>3 DEF Sees
    <2>2. m.type \in {"HandStart", "PlayerIdChanged", "ActionDone", "PlayersTurn", "DealCards",
                      "AllInShowCards", "EndOfHandHide", "EndOfHandShow"}
      BY <1>3, ExpectedTypes
    <2> QED BY <1>3, <2>1, <2>2
            DEF Takes, StartsHand, ChangesId, TakesAction, TakesTurn, TakesCards, ShowsCards,
                EndsHand
  <1> QED BY <1>1, <1>2, <1>3

\* Only the server closes the connection.
LEMMA ClosedByServer ==
    ASSUME NetTypeOK, ClientStep, client'.state = "Closed"
    PROVE  client.state = "Closed"
  <1>1. CASE ClientAlone
    BY <1>1, UserSees
  <1>2. CASE CDrop
    BY <1>2 DEF CDrop, clientVars
  <1>3. CASE CStartEvent
    <2>1. client' = [client EXCEPT !.state = "Synchronize"] /\ client \in ClientType
      BY <1>3 DEF CStartEvent, Becomes, NetTypeOK
    <2>2. client'.state = "Synchronize"
      BY <2>1 DEF ClientType
    <2> QED BY <2>2
  <1>4. CASE CEndOfGame
    <2> DEFINE m == Head(down)
    <2>1. /\ Handles("EndOfGame") /\ client \in ClientType
          /\ \/ client' = [client EXCEPT !.state = "Thrown"]
             \/ client' = NoTable("WaitGame")
          /\ UNCHANGED astray
      BY <1>4 DEF CEndOfGame, Throws, Becomes, NetTypeOK
    <2>2. "WaitGame" \in ClientStates
      BY DEF ClientStates
    <2>3. NoTable("WaitGame").state = "WaitGame"
      BY <2>2, NoTableType
    <2>4. client' = [client EXCEPT !.state = "Thrown"] => client'.state = "Thrown"
      BY <2>1 DEF ClientType
    <2> QED BY <2>1, <2>3, <2>4
  <1>5. CASE CGameStartInitial \/ CGameStartRejoin
    <2> DEFINE m == Head(down)
    <2>1. m \in Messages /\ m.type \in {"GameStartInitial", "GameStartRejoin"}
      BY <1>5, HandlesFacts DEF CGameStartInitial, CGameStartRejoin, Becomes
    <2>2. \E gen, cash, dealer, number :
             /\ gen \in [Seats -> Nat] /\ cash \in [Seats -> Nat]
             /\ dealer \in Seats \X Nat /\ number \in Nat
             /\ client' = NewGame(gen, cash, dealer, number)
      <3>1. CASE CGameStartInitial
        <4>1. client' = NewGame([s \in Seats |-> 0], [s \in Seats |-> StartCash], m.dealer, 0)
          BY <3>1 DEF CGameStartInitial, Becomes
        <4>2. m.type = "GameStartInitial"
          BY <3>1 DEF CGameStartInitial, Handles, Receives
        <4>3. /\ [s \in Seats |-> 0] \in [Seats -> Nat] /\ 0 \in Nat
              /\ [s \in Seats |-> StartCash] \in [Seats -> Nat]
          BY SettingsAssumption
        <4>4. m.dealer \in Seats \X Nat
          BY <2>1, <4>2, MessageFields
        <4> HIDE DEF m
        <4> QED BY <4>1, <4>3, <4>4
      <3>2. CASE CGameStartRejoin
        <4>1. client' = NewGame(m.gen, m.cash, m.dealer, m.hand)
          BY <3>2 DEF CGameStartRejoin, Becomes
        <4>2. m.type = "GameStartRejoin"
          BY <3>2 DEF CGameStartRejoin, Handles, Receives
        <4>3. /\ m.gen \in [Seats -> Nat] /\ m.cash \in [Seats -> Nat]
              /\ m.dealer \in Seats \X Nat /\ m.hand \in Nat
          BY <2>1, <4>2, MessageFields
        <4> HIDE DEF m
        <4> QED BY <4>1, <4>3
      <3> QED BY <1>5, <3>1, <3>2
    <2>3. client' \in ClientType /\ View(client').state = "WaitHand"
      BY <2>2, NewGameType DEF Fresh
    <2>4. View(client').state = "NoTable"
      BY <2>3, ViewFields
    <2> QED BY <2>3, <2>4
  <1>6. CASE \/ \E minutesUp \in BOOLEAN : CHandStart(minutesUp)
             \/ CPlayerIdChanged \/ CActionDone \/ CPlayersTurn \/ CDealCards \/ CAllInShowCards
             \/ CEndOfHandHide \/ CEndOfHandShow
    <2> DEFINE m == Head(down)
    <2>1. \E type \in {"HandStart", "PlayerIdChanged", "ActionDone", "PlayersTurn", "DealCards",
                       "AllInShowCards", "EndOfHandHide", "EndOfHandShow"} : Handles(type)
      BY <1>6 DEF CHandStart, CPlayerIdChanged, CActionDone, CPlayersTurn, CDealCards,
                  CAllInShowCards, CEndOfHandHide, CEndOfHandShow
    <2>2. /\ m.type \in {"HandStart", "PlayerIdChanged", "ActionDone", "PlayersTurn", "DealCards",
                         "AllInShowCards", "EndOfHandHide", "EndOfHandShow"}
          /\ m.type \in Expects(client.state)
      BY <2>1 DEF Handles, Receives
    <2>3. client \in ClientType /\ client.state \in {"WaitHand", "RunHand"}
      BY <2>2, HandledIn DEF NetTypeOK
    <2>4. View(client).state = client.state
      BY <2>3, ViewFields
    <2>5. CASE ClientTakes \/ ClientAnswers
      <3>1. Sees(View(client), m, View(client')) /\ client' \in ClientType
        BY <2>5 DEF ClientTakes, SeesOldest, ClientAnswers
      <3> HIDE DEF m
      <3>2. View(client').state # "NoTable"
        BY <2>2, <2>3, <2>4, <3>1, HandledHasTable
      <3> QED BY <3>1, <3>2, ViewFields
    <2> QED BY <1>1, <2>5, ClientStepSees
  <1> QED BY <1>1, <1>2, <1>3, <1>4, <1>5, <1>6 DEF ClientStep, ClientAlone


\* A view that is current, and one that is exact, stay so as long as the server
\* does nothing.
LEMMA SameServerViews ==
    ASSUME UNCHANGED <<vars, hands, ids>>
    PROVE  /\ \A v : IsCurrent(v)' <=> IsCurrent(v)
           /\ \A v, x : IsExact(v, x)' <=> IsExact(v, x)
  BY DEF vars, IsCurrent, IsExact, Playing

LEMMA AllCurrentTail ==
    ASSUME NetTypeOK, AllCurrent, TakesOldest,
           Sees(View(client), Head(down), View(client'))
    PROVE  AllCurrent'
  <1>1. /\ down' = Tail(down) /\ down # << >> /\ down \in Seq(Messages)
        /\ UNCHANGED <<vars, hands, ids>> /\ FALSE \in BOOLEAN
    BY DEF TakesOldest, NetTypeOK
  <1>2. ASSUME NEW e, NEW w, NEW x, Ends(FALSE, View(client'), e, Tail(down), w, x)
        PROVE  IsCurrent(w)'
    <2>1. Ends(FALSE, View(client), e, down, w, x)
      BY <1>1, <1>2, EndsFirst
    <2>2. IsCurrent(w)
      BY <2>1 DEF AllCurrent
    <2> QED BY <1>1, <2>2, SameServerViews
  <1> QED BY <1>1, <1>2 DEF AllCurrent

LEMMA AllExactTail ==
    ASSUME NetTypeOK, AllExact, ClientTakes
    PROVE  AllExact'
  <1>1. /\ down' = Tail(down) /\ down # << >> /\ down \in Seq(Messages) /\ up' = up
        /\ UNCHANGED <<vars, hands, ids>> /\ astray' = astray /\ hands' = hands
        /\ TRUE \in BOOLEAN
    BY DEF ClientTakes, TakesOldest, NetTypeOK
  <1>2. ASSUME NEW w, NEW x,
               Ends(TRUE, View(client'), Mine(client'), Tail(down), w, x),
               up = << >>, astray # hands
        PROVE  IsExact(w, x)'
    <2>1. /\ Sees(View(client), Head(down), View(client'))
          /\ SeesMine(View(client), Mine(client), Head(down), Mine(client'))
      BY DEF ClientTakes, SeesOldest
    <2>2. Ends(TRUE, View(client), Mine(client), down, w, x)
      BY <1>1, <1>2, <2>1, EndsFirst
    <2>3. IsExact(w, x)
      BY <1>2, <2>2 DEF AllExact
    <2> QED BY <1>1, <2>3, SameServerViews
  <1> QED BY <1>1, <1>2 DEF AllExact

\* A request on its way: nothing is promised about the client's own.
LEMMA AsksKeeps ==
    ASSUME up \in Seq(RequestType), NEW r \in RequestType, up' = Append(up, r)
    PROVE  up' \in Seq(RequestType) /\ AllExact'
  <1>1. up' # << >> /\ up' \in Seq(RequestType)
    OBVIOUS
  <1> QED BY <1>1 DEF AllExact

LEMMA TailMessages ==
    ASSUME NetTypeOK, TakesOldest
    PROVE  down' \in Seq(Messages)
  BY OldestMessage DEF NetTypeOK, TakesOldest

LEMMA ClientTakesKeeps ==
    ASSUME NetTypeOK, AllCurrent, AllExact, ClientTakes \/ ClientAnswers
    PROVE  NetTypeOK' /\ AllCurrent' /\ AllExact' /\ UNCHANGED vars
  <1>1. TakesOldest /\ Sees(View(client), Head(down), View(client'))
    BY DEF ClientTakes, SeesOldest, ClientAnswers
  <1>2. AllCurrent' /\ down' \in Seq(Messages)
    BY <1>1, AllCurrentTail, TailMessages
  <1>3. AllExact' /\ up' \in Seq(RequestType)
    <2>1. CASE ClientTakes
      BY <2>1, AllExactTail DEF ClientTakes, NetTypeOK
    <2>2. CASE ClientAnswers
      BY <2>2, AsksKeeps DEF ClientAnswers, NetTypeOK
    <2> QED BY <2>1, <2>2
  <1>4. client' \in ClientType /\ buttons' \in ButtonsType
    BY DEF ClientTakes, ClientAnswers
  <1>5. UNCHANGED <<vars, hands, ids, logins, astray>>
    BY <1>1 DEF TakesOldest
  <1> QED BY <1>2, <1>3, <1>4, <1>5 DEF NetTypeOK

LEMMA UserKeeps ==
    ASSUME NetTypeOK, AllCurrent, AllExact, ClientAlone \/ UserStep
    PROVE  NetTypeOK' /\ AllCurrent' /\ AllExact' /\ UNCHANGED vars
  <1>1. /\ View(client') = View(client)
        /\ UNCHANGED <<vars, hands, ids, logins, down, astray>>
        /\ client' \in ClientType /\ buttons' \in ButtonsType
    BY UserSees
  <1>2. AllCurrent'
    <2>1. ASSUME NEW e, NEW w, NEW x, Ends(FALSE, View(client'), e, down', w, x)
          PROVE  IsCurrent(w)'
      <3>1. Ends(FALSE, View(client), e, down, w, x)
        BY <1>1, <2>1
      <3>2. IsCurrent(w)
        BY <3>1 DEF AllCurrent
      <3> QED BY <1>1, <3>2, SameServerViews
    <2> QED BY <2>1 DEF AllCurrent
  <1>3. AllExact' /\ up' \in Seq(RequestType)
    <2>1. CASE up' = up /\ Mine(client') = Mine(client)
      <3>1. ASSUME NEW w, NEW x, Ends(TRUE, View(client'), Mine(client'), down', w, x),
                   up = << >>, astray # hands
            PROVE  IsExact(w, x)'
        <4>1. Ends(TRUE, View(client), Mine(client), down, w, x)
          BY <1>1, <2>1, <3>1
        <4>2. IsExact(w, x)
          BY <3>1, <4>1 DEF AllExact
        <4> QED BY <1>1, <4>2, SameServerViews
      <3> QED BY <1>1, <2>1, <3>1 DEF AllExact, NetTypeOK
    <2>2. CASE \E r \in RequestType : up' = Append(up, r)
      BY <2>2, AsksKeeps DEF NetTypeOK
    <2> QED BY <2>1, <2>2, UserSees
  <1> QED BY <1>1, <1>2, <1>3 DEF NetTypeOK

LEMMA ClientSideKeeps ==
    ASSUME ClientInv, ClientStep \/ UserStep
    PROVE  ClientInv'
  <1> USE DEF ClientInv, NetInv
  <1>1. NetTypeOK' /\ AllCurrent' /\ AllExact' /\ UNCHANGED vars
    BY ClientStepSees, ClientTakesKeeps, UserKeeps
  <1>2. client'.state = "Closed" => client.state = "Closed"
    BY ClosedByServer, UserSees
  <1>3. Present'
    BY <1>1, <1>2 DEF Present, vars
  <1> QED BY <1>1, <1>3, ServerUnchanged


(***************************************************************************)
(* The server's steps                                                      *)
(***************************************************************************)

\* To the table they are steps of ServerTable, except that a request of Me's may
\* name any bet.
LEMMA ServerStepTable ==
    ASSUME ClientInv, ServerStep
    PROVE  TInv'
  <1> USE DEF ClientInv, NetInv
  <1>1. CASE SLoop
    <2>1. TimerLoop
      BY <1>1 DEF SLoop, SEngine, TimerLoop, EngineLoop
    <2> QED BY <2>1, TableKeeps DEF Next
  <1>2. CASE SShowCards \/ SNextGame \/ STimeout \/ SQuiet \/ SUnknown
    <2>1. UnknownPlayerAction(You) => \E s \in Seats : UnknownPlayerAction(s)
      BY MeAndYou
    <2> QED BY <1>2, <2>1, TableKeeps
            DEF SShowCards, SNextGame, STimeout, SQuiet, SUnknown, Next
  <1>3. ASSUME NEW idle \in SUBSET Seats, NEW forced \in SUBSET Seats,
               NEW minutesUp \in BOOLEAN, NEW value \in Dealt, NEW order,
               SNextHand(idle, forced, minutesUp, value, order)
        PROVE  TInv'
    <2>1. TimerNextHand(idle, forced, minutesUp, value) /\ value \in Deals
      BY <1>3, ClientAssumption DEF SNextHand
    <2> QED BY <2>1, TableKeeps DEF Next
  <1>4. ASSUME NEW action \in Actions, NEW bet \in 0..MaxBet,
               SOtherActs(hand.round, action, bet)
        PROVE  TInv'
    <2>1. MyActionRequest(You, hand.round, action, bet)
      BY <1>4 DEF SOtherActs
    <2>2. You \in Seats /\ bet \in Int
      BY MeAndYou, TableAssumption
    <2> QED BY <2>1, <2>2, AnyRequestKeeps
  <1>5. CASE SRequest
    <2> DEFINE r == Head(up)
    <2>1. \/ MyActionRequest(Me, r.round, r.action, r.bet)
          \/ UNCHANGED vars
      BY <1>5 DEF SRequest
    <2>2. r \in RequestType
      BY <1>5 DEF SRequest, NetTypeOK
    <2>3. r.action \in Actions /\ r.bet \in Int
      BY <2>2 DEF RequestType
    <2>4. Me \in Seats
      BY MeAndYou
    <2> HIDE DEF r
    <2>5. CASE MyActionRequest(Me, r.round, r.action, r.bet)
      BY <2>3, <2>4, <2>5, AnyRequestKeeps
    <2>6. CASE UNCHANGED vars
      BY <2>6, TableKeeps
    <2> QED BY <2>1, <2>5, <2>6
  <1>6. CASE SResetTimeout
    <2>1. \E s \in Seats : ResetTimeout(s)
      BY <1>6 DEF SResetTimeout
    <2> QED BY <2>1, TableKeeps DEF Next
  <1>7. ASSUME NEW s \in Seats, NEW b \in BOOLEAN, SLeave(s, b) \/ SRejoin(s, b)
        PROVE  TInv'
    <2>1. LeaveGame(s, b) \/ RejoinGame(s, b)
      BY <1>7 DEF SLeave, SRejoin
    <2> QED BY <2>1, TableKeeps DEF Next
  <1> QED BY <1>1, <1>2, <1>3, <1>4, <1>5, <1>6, <1>7 DEF ServerStep

\* Nothing is sent, and nothing that a view is compared with changes.
LEMMA QuietNet ==
    ASSUME NetInv, UNCHANGED net, KeepIds, UNCHANGED <<hand, game, state, link, rejoin>>,
           RunsOut'
    PROVE  NetInv'
  <1>1. \A v : IsCurrent(v) => IsCurrent(v)'
    BY DEF IsCurrent, Playing, KeepIds
  <1>2. \A v, x : IsExact(v, x) => IsExact(v, x)'
    BY DEF IsExact, Playing
  <1>3. AllCurrent' /\ AllExact'
    BY <1>1, <1>2, QuietKeeps DEF NetInv, net, KeepIds
  <1> QED BY <1>3 DEF NetInv, NetTypeOK, Present, net, KeepIds

LEMMA SQuietKeeps ==
    ASSUME TypeOK, NetInv, SQuiet
    PROVE  NetInv'
  <1>1. ready \in Seq(Handlers)
    BY DEF TypeOK
  <1>2. UNCHANGED net /\ KeepIds /\ UNCHANGED <<hand, game, state, link, rejoin>>
    BY DEF SQuiet, TimerExpires, StaleHandler, players
  <1>3. RunsOut'
    <2>1. CASE TimerExpires
      <3>1. ready' = Append(ready, timer) /\ timer' = "none" /\ UNCHANGED <<hand, game, state>>
        BY <2>1 DEF TimerExpires
      <3>2. ASSUME NEW i \in 1..Len(ready'), ready'[i] = "ShowCards"
            PROVE  timer = "ShowCards" \/ \E j \in 1..Len(ready) : ready[j] = "ShowCards"
        BY <1>1, <3>1, <3>2
      <3> QED BY <3>1, <3>2 DEF RunsOut, NetInv
    <2>2. CASE StaleHandler
      <3>1. /\ ready # << >> /\ ready' = Tail(ready) /\ timer' = timer
            /\ UNCHANGED <<hand, game, state>>
        BY <2>2 DEF StaleHandler
      <3>2. ASSUME NEW i \in 1..Len(ready'), ready'[i] = "ShowCards"
            PROVE  \E j \in 1..Len(ready) : ready[j] = "ShowCards"
        BY <1>1, <3>1, <3>2
      <3> QED BY <3>1, <3>2 DEF RunsOut, NetInv
    <2> QED BY <2>1, <2>2 DEF SQuiet
  <1> QED BY <1>2, <1>3, QuietNet

LEMMA SResetTimeoutKeeps ==
    ASSUME NetInv, SResetTimeout
    PROVE  NetInv'
  <1>1. /\ UNCHANGED net /\ KeepIds
        /\ UNCHANGED <<hand, game, state, timer, ready, link, rejoin>>
    BY DEF SResetTimeout, ResetTimeout
  <1>2. RunsOut'
    BY <1>1 DEF RunsOut, NetInv
  <1> QED BY <1>1, <1>2, QuietNet

LEMMA SUnknownKeeps ==
    ASSUME NetInv, SUnknown
    PROVE  NetInv'
  <1>1. /\ Disconnect /\ KeepIds /\ RemoveAllSessions
    BY DEF SUnknown, UnknownPlayerAction
  <1>2. state' = "Final" /\ link'[Me] = "out" /\ rejoin' = {}
    BY <1>1, MeAndYou DEF RemoveAllSessions, SetState
  <1>3. NetTypeOK /\ NetTypeOK' /\ AllCurrent' /\ AllExact'
    BY <1>1, DisconnectKeeps DEF NetInv, NetTypeOK, KeepIds
  <1> QED BY <1>2, <1>3 DEF NetInv, Present, RunsOut

LEMMA SLeaveKeeps ==
    ASSUME TypeOK, NetInv, NEW s \in Seats, NEW relogin \in BOOLEAN, SLeave(s, relogin)
    PROVE  NetInv'
  <1>1. /\ KeepIds /\ UNCHANGED <<hand, game, state, timer, ready>>
        /\ link' = [link EXCEPT ![s] = "out"] /\ rejoin' = rejoin \ {s}
        /\ link \in [Seats -> {"in", "pending", "out"}] /\ Me \in Seats
    BY MeAndYou DEF SLeave, LeaveGame, TypeOK
  <1>2. RunsOut'
    BY <1>1 DEF RunsOut, NetInv
  <1>3. CASE s = Me
    <2>1. Disconnect
      BY <1>3 DEF SLeave
    <2>2. NetTypeOK /\ NetTypeOK' /\ AllCurrent' /\ AllExact'
      BY <1>1, <2>1, DisconnectKeeps DEF NetInv, NetTypeOK, KeepIds
    <2>3. link'[Me] = "out" /\ Me \notin rejoin'
      BY <1>1, <1>3
    <2> QED BY <1>2, <2>2, <2>3 DEF NetInv, Present
  <1>4. CASE s # Me
    <2>1. UNCHANGED net
      BY <1>4 DEF SLeave
    <2>2. link'[Me] = link[Me] /\ (Me \in rejoin' <=> Me \in rejoin)
      BY <1>1, <1>4
    <2>3. \A v : IsCurrent(v) => IsCurrent(v)'
      BY <1>1, <2>2 DEF IsCurrent, Playing, KeepIds, ShowsHand
    <2>4. \A v, x : IsExact(v, x) => IsExact(v, x)'
      BY <1>1 DEF IsExact, Playing
    <2>5. AllCurrent' /\ AllExact'
      BY <1>1, <2>1, <2>3, <2>4, QuietKeeps DEF NetInv, net, KeepIds
    <2> QED BY <1>1, <1>2, <2>1, <2>2, <2>5 DEF NetInv, NetTypeOK, Present, net, KeepIds
  <1> QED BY <1>3, <1>4


\* A player comes back: if it is Me, the client waits for its start event.
LEMMA SRejoinKeeps ==
    ASSUME TypeOK, NetInv, NEW s \in Seats, NEW sameSession \in BOOLEAN,
           SRejoin(s, sameSession)
    PROVE  NetInv'
  <1>1. /\ UNCHANGED <<hands, ids, hand, game, state, timer, ready>>
        /\ link' = [link EXCEPT ![s] = IF sameSession THEN "in" ELSE "pending"]
        /\ rejoin' = rejoin \cup {s}
        /\ logins' = [logins EXCEPT ![s] = IF sameSession THEN @ ELSE @ + 1]
        /\ link \in [Seats -> {"in", "pending", "out"}] /\ Me \in Seats
        /\ logins \in [Seats -> Nat] /\ NetTypeOK
    BY MeAndYou DEF SRejoin, RejoinGame, TypeOK, NetInv, NetTypeOK
  <1>2. RunsOut' /\ logins' \in [Seats -> Nat]
    BY <1>1 DEF RunsOut, NetInv
  <1>3. CASE s = Me
    <2>1. /\ down' = <<StartEvent>> /\ client' = NoTable("WaitGame")
          /\ UNCHANGED <<up, buttons, astray>>
      BY <1>3 DEF SRejoin
    <2>2. StartEvent \in Messages /\ StartEvent.type = "StartEvent"
      BY DEF StartEvent, Messages, StartMessages
    <2>3. client' \in ClientType /\ client'.state = "WaitGame"
      <3>1. "WaitGame" \in ClientStates
        BY DEF ClientStates
      <3> QED BY <2>1, <3>1, NoTableType
    <2>4. View(client').state = "NoTable"
      BY <2>3, ViewFields
    <2>5. ASSUME NEW exact \in BOOLEAN, NEW e, NEW w, NEW x,
                 Ends(exact, View(client'), e, <<StartEvent>>, w, x)
          PROVE  IsCurrent(w)' /\ IsExact(w, x)'
      <3>1. Sees(View(client'), StartEvent, w)
        BY <2>2, <2>5, EndsOne
      <3>2. w.state = "NoTable"
        BY <2>2, <2>4, <3>1, NoTableStays
      <3> QED BY <3>2 DEF IsCurrent, IsExact
    <2>6. AllCurrent'
      BY <2>1, <2>5 DEF AllCurrent
    <2>7. AllExact'
      BY <2>1, <2>5 DEF AllExact
    <2>8. down' \in Seq(Messages)
      BY <2>1, <2>2
    <2>9. Present'
      BY <1>1, <1>3, <2>3 DEF Present
    <2>10. NetTypeOK'
      BY <1>1, <1>2, <2>1, <2>3, <2>8 DEF NetTypeOK
    <2> QED BY <1>2, <2>6, <2>7, <2>9, <2>10 DEF NetInv
  <1>4. CASE s # Me
    <2>1. UNCHANGED net
      BY <1>4 DEF SRejoin
    <2>2. link'[Me] = link[Me] /\ (Me \in rejoin' <=> Me \in rejoin)
      BY <1>1, <1>4
    <2>3. \A v : IsCurrent(v) => IsCurrent(v)'
      BY <1>1, <2>2 DEF IsCurrent, Playing, ShowsHand
    <2>4. \A v, x : IsExact(v, x) => IsExact(v, x)'
      BY <1>1 DEF IsExact, Playing
    <2>5. AllCurrent' /\ AllExact'
      BY <1>1, <2>1, <2>3, <2>4, QuietKeeps DEF NetInv, net
    <2>6. NetTypeOK'
      BY <1>1, <1>2, <2>1 DEF NetTypeOK, net
    <2> QED BY <1>2, <2>1, <2>2, <2>5, <2>6 DEF NetInv, Present, net
  <1> QED BY <1>3, <1>4

\* The message m takes a current view to a current view, and an exact one to an
\* exact one.
KeepsView(m) ==
    \A exact \in BOOLEAN : \A v, e, w, x :
        /\ v.state # "NoTable" /\ IsCurrent(v)
        /\ Sees(v, m, w) /\ (exact => SeesMine(v, e, m, x))
        => /\ IsCurrent(w)'
           /\ exact /\ IsExact(v, e) => IsExact(w, x)'

\* In a step in which nobody comes or goes one such message is sent.
LEMMA SendOneKeeps ==
    ASSUME NetInv, RunsOut', KeepIds, UNCHANGED <<link, rejoin>>, NEW m \in Messages,
           m.type \notin {"GameStartInitial", "GameStartRejoin"},
           Send(<<m>>), KeepsView(m)
    PROVE  NetInv'
  <1>1. NetTypeOK /\ AllCurrent /\ AllExact /\ <<m>> \in Seq(Messages) /\ hands' = hands
    BY DEF NetInv, KeepIds
  <1>2. ASSUME NEW exact \in BOOLEAN, NEW v, NEW e, NEW w, NEW x,
               IsCurrent(v), Ends(exact, v, e, <<m>>, w, x)
        PROVE  /\ IsCurrent(w)'
               /\ exact /\ (IsExact(v, e) \/ hands' # hands) => IsExact(w, x)'
    <2>1. Sees(v, m, w) /\ (exact => SeesMine(v, e, m, x))
      BY <1>2, EndsOne
    <2>2. CASE v.state = "NoTable"
      <3>1. w.state = "NoTable"
        BY <2>1, <2>2, NoTableStays
      <3> QED BY <3>1 DEF IsCurrent, IsExact
    <2>3. CASE v.state # "NoTable"
      BY <1>1, <1>2, <2>1, <2>3 DEF KeepsView
    <2> QED BY <2>2, <2>3
  <1>3. /\ AllCurrent' /\ AllExact' /\ down' \in Seq(Messages)
        /\ UNCHANGED <<up, client, buttons, astray>>
    BY <1>1, <1>2, SendKeeps
  <1>4. NetTypeOK' /\ Present'
    BY <1>1, <1>3 DEF NetInv, NetTypeOK, Present, KeepIds
  <1> QED BY <1>3, <1>4 DEF NetInv

\* The winner of the game is announced.
LEMMA EndOfGameType ==
    ASSUME NetTypeOK, NEW s \in Seats
    PROVE  /\ EndOfGame(s) \in Messages /\ EndOfGame(s).type = "EndOfGame"
           /\ EndOfGame(s).gen = ids[EndOfGame(s).who]
  <1>1. ids[s] \in Nat
    BY DEF NetTypeOK
  <1> QED BY <1>1 DEF EndOfGame, Messages, EndMessages

LEMMA SNextGameKeeps ==
    ASSUME TInv, NetInv, SNextGame
    PROVE  NetInv'
  <1> DEFINE s == CHOOSE t \in Seats : hand.cash[t] > 0
             m == EndOfGame(s)
  <1>1. /\ Runs("NextGame") /\ SetState("Init") /\ KeepIds /\ Send(<<m>>)
        /\ UNCHANGED <<hand, game, link, rejoin>> /\ NetTypeOK
    BY DEF SNextGame, TimerNextGame, players, NetInv
  <1>2. state = "Hand" /\ ~game /\ state' = "Init"
    <2>1. state = "Hand" /\ Len(ready) \in Nat \ {0} /\ ready[1] = "NextGame"
      <3>1. ready \in Seq(Handlers)
        BY DEF TInv, IInv, TypeOK
      <3> QED BY <1>1, <3>1 DEF Runs, StateOf
    <2>2. state' = "Init"
      BY <1>1 DEF SetState
    <2>3. ~game
      BY <2>1 DEF TInv, HInv, HandlersFit, QueueHolds
    <2> QED BY <2>1, <2>2, <2>3
  <1>3. s \in Seats
    BY <1>2 DEF NetInv, RunsOut
  <1> HIDE DEF s
  <1>4. /\ m \in Messages /\ m.type = "EndOfGame" /\ m.gen = ids[m.who]
    BY <1>1, <1>3, EndOfGameType
  <1> HIDE DEF m
  <1>5. KeepsView(m)
    <2>1. SUFFICES ASSUME NEW exact \in BOOLEAN, NEW v, NEW e, NEW w, NEW x,
                          v.state # "NoTable", IsCurrent(v), Sees(v, m, w)
                   PROVE  w.state = "NoTable"
      BY DEF KeepsView, IsCurrent, IsExact
    <2>2. v.state = "WaitHand" /\ v.gen = ids
      BY <1>2, <2>1 DEF IsCurrent, Playing, HasIds
    <2> QED BY <1>4, <2>1, <2>2, GameEndSeen
  <1>6. RunsOut'
    BY <1>2 DEF RunsOut
  <1> QED BY <1>1, <1>4, <1>5, <1>6, SendOneKeeps

LEMMA SShowCardsKeeps ==
    ASSUME TInv, NetInv, SShowCards
    PROVE  NetInv'
  <1>1. /\ Runs("ShowCards") /\ StayWith("Loop") /\ KeepIds /\ Send(<<DealCards>>)
        /\ UNCHANGED <<hand, game, link, rejoin>> /\ NetTypeOK
    BY DEF SShowCards, TimerShowCards, players, NetInv
  <1>2. state = "Hand" /\ game /\ hand.allIn
    <2>1. state = "Hand" /\ Len(ready) \in Nat \ {0} /\ ready[1] = "ShowCards"
      <3>1. ready \in Seq(Handlers)
        BY DEF TInv, IInv, TypeOK
      <3> QED BY <1>1, <3>1 DEF Runs, StateOf
    <2>2. game
      BY <2>1 DEF TInv, HInv, HandlersFit, QueueHolds
    <2>3. hand.allIn
      BY <2>1 DEF NetInv, RunsOut
    <2> QED BY <2>1, <2>2, <2>3
  <1>3. ready' = << >> /\ timer' = "Loop" /\ state' = "Hand"
    <2>1. "ShowCards" \in Handlers
      BY DEF Handlers
    <2>2. ready' = << >>
      BY <1>1, <2>1, RunsLast DEF TInv, IInv
    <2> QED BY <1>1, <1>2, <2>2 DEF StayWith
  <1>4. DealCards \in Messages /\ DealCards.type = "DealCards"
    BY DEF DealCards, Messages, TableMessages
  <1>5. KeepsView(DealCards)
    <2>1. SUFFICES ASSUME NEW exact \in BOOLEAN, NEW v, NEW e, NEW w, NEW x,
                          v.state # "NoTable", IsCurrent(v), Sees(v, DealCards, w),
                          exact => SeesMine(v, e, DealCards, x)
                   PROVE  IsCurrent(w)' /\ IsExact(w, x)'
      BY DEF KeepsView
    <2>2. /\ v.state = "RunHand" /\ HasIds(v, ids, Other(hand.dealer), hands)
          /\ Me \notin rejoin /\ link[Me] # "out" /\ state \in Running
      BY <1>2, <2>1 DEF IsCurrent, Playing
    <2>3. w.state = "RunHand" /\ SameIds(v, w)
      BY <1>4, <2>1, <2>2, CardsSeen
    <2>4. HasIds(w, ids, Other(hand.dealer), hands)
      BY <2>2, <2>3 DEF HasIds, SameIds
    <2> QED BY <1>1, <1>2, <1>3, <2>2, <2>3, <2>4 DEF IsCurrent, IsExact, Playing, KeepIds
  <1>6. RunsOut'
    <2>1. ~\E i \in 1..Len(ready') : TRUE
      BY <1>3
    <2> QED BY <1>1, <1>2, <1>3, <2>1 DEF RunsOut
  <1> QED BY <1>1, <1>4, <1>5, <1>6, SendOneKeeps


(***************************************************************************)
(* Actions of players                                                      *)
(***************************************************************************)

LEMMA ActionOthers ==
    ASSUME NEW h \in HandType, NEW s \in Seats, NEW action, NEW bet,
           NEW f \in {"smallBlind", "allIn", "dealer"}
    PROVE  PerformPlayerAction(h, s, action, bet)[f] = h[f]
  <1> DEFINE acted == [h EXCEPT !.action[s] = action]
             paid == SetMySet(acted, s, bet)
             raised == [paid EXCEPT !.highestSet = IF paid.set[s] > @ THEN paid.set[s] ELSE @,
                                    !.minimumRaise = NewMinimumRaise(h, s, action, bet, paid.set[s])]
  <1>1. f \in DOMAIN h
    BY DEF HandType
  <1>2. acted[f] = h[f] /\ f \in DOMAIN acted
    BY <1>1
  <1> HIDE DEF acted
  <1>3. paid[f] = acted[f] /\ f \in DOMAIN paid
    BY <1>2 DEF SetMySet
  <1> HIDE DEF paid
  <1>4. raised[f] = paid[f] /\ f \in DOMAIN raised
    BY <1>3
  <1> HIDE DEF raised
  <1>5. CollectSets(raised)[f] = raised[f]
    BY <1>4 DEF CollectSets
  <1>6. PerformPlayerAction(h, s, action, bet)
          = IF action \in {"fold", "check"} THEN acted ELSE CollectSets(raised)
    BY DEF PerformPlayerAction, acted, paid, raised
  <1> QED BY <1>2, <1>3, <1>4, <1>5, <1>6

\* An action changes his bet and stack, and what follows from them.
LEMMA ActionActed ==
    ASSUME NEW h \in HandType, InSync(h), Highest(h), NEW s \in Seats,
           NEW action \in Actions, NEW bet \in Int, action = "bet" => bet \in Nat
    PROVE  LET g == PerformPlayerAction(h, s, action, bet)
           IN g \in HandType /\ Acted(h, g, s)
  <1> DEFINE g == PerformPlayerAction(h, s, action, bet)
  <1>1. g \in HandType /\ InSync(g)
    BY PerformPlayerActionKeeps DEF Keeps
  <1>2. h.set[s] <= h.highestSet
    BY DEF Highest
  <1>3. /\ \E n \in 0..h.cash[s] : Bets(h, g, s, n)
        /\ g.dealer = h.dealer /\ g.allIn = h.allIn /\ g.round = h.round
    <2>1. \E n \in 0..h.cash[s] : Bets(h, g, s, n)
      BY <1>2, PerformPlayerActionFields
    <2>2. g.round = h.round
      BY PerformPlayerActionKeeps
    <2>3. g.dealer = h.dealer /\ g.allIn = h.allIn
      BY ActionOthers
    <2> QED BY <2>1, <2>2, <2>3
  <1>4. g.smallBlind = h.smallBlind
    BY ActionOthers
  <1> HIDE DEF g
  <1>5. PICK n \in 0..h.cash[s] : Bets(h, g, s, n)
    BY <1>3
  <1>6. /\ h.set \in [Seats -> Nat] /\ h.cash \in [Seats -> Nat] /\ n \in Nat
    BY DEF HandType
  <1>7. /\ g.set = [h.set EXCEPT ![s] = g.set[s]] /\ g.set[s] >= h.set[s]
        /\ g.cash = [h.cash EXCEPT ![s] = g.cash[s]] /\ g.pot = h.pot
    BY <1>5, <1>6 DEF Bets
  <1> QED BY <1>1, <1>3, <1>4, <1>7 DEF Acted, g

\* The player whose turn it is acts.
LEMMA TurnActed ==
    ASSUME TInv, PlayerActs
    PROVE  /\ hand \in HandType /\ hand' \in HandType /\ hand.turn \in Seats
           /\ Acted(hand, hand', hand.turn)
           /\ game /\ ~hand.allIn
  <1>1. /\ hand \in HandType /\ InSync(hand) /\ state = "WaitPlayerAction"
        /\ game /\ Decides(hand) /\ Highest(hand)
    BY DEF PlayerActs, TInv, IInv, EInv, TypeOK, ChipsSound
  <1>2. hand.turn \in Seats /\ ~hand.allIn
    BY <1>1 DEF Decides, HandType
  <1>3. PICK action \in Actions, bet \in Int :
           /\ action = "bet" => bet \in Nat
           /\ hand' = PerformPlayerAction(hand, hand.turn, action, bet)
    BY DEF PlayerActs
  <1> QED BY <1>1, <1>2, <1>3, ActionActed

\* The message about it.
LEMMA TurnSeenBy ==
    ASSUME TInv, NetTypeOK, PlayerActs, KeepIds, UNCHANGED <<link, rejoin>>,
           NEW m, m = ActionDone(hand', hand.turn, ids[hand.turn], "no")
    PROVE  /\ m \in Messages /\ m.type = "ActionDone"
           /\ \A exact \in BOOLEAN : \A v, e, w, x :
                 /\ v.state # "NoTable" /\ IsCurrent(v)
                 /\ Sees(v, m, w) /\ (exact => SeesMine(v, e, m, x))
                 => /\ IsCurrent(w)'
                    /\ exact /\ (hand.turn = Me \/ IsExact(v, e)) => IsExact(w, x)'
  <1> DEFINE s == hand.turn
  <1>1. /\ hand \in HandType /\ hand' \in HandType /\ s \in Seats
        /\ Acted(hand, hand', s) /\ game /\ ~hand.allIn
    BY TurnActed
  <1>2. state = "WaitPlayerAction" /\ state' = "Hand" /\ game' = game
    BY DEF PlayerActs
  <1>3. m \in Messages
    <2>1. ids \in [Seats -> Nat] /\ 0 \in Nat /\ TRUE \in BOOLEAN /\ "no" \in {"no", "small", "big"}
      BY DEF NetTypeOK
    <2> QED BY <1>1, <2>1, HandMessages
  <1>4. m.type = "ActionDone"
    BY DEF ActionDone
  <1>5. ASSUME NEW exact \in BOOLEAN, NEW v, NEW e, NEW w, NEW x,
               v.state # "NoTable", IsCurrent(v), Sees(v, m, w), exact => SeesMine(v, e, m, x)
        PROVE  /\ IsCurrent(w)'
               /\ exact /\ (s = Me \/ IsExact(v, e)) => IsExact(w, x)'
    <2>1. /\ v.state = "RunHand" /\ HasIds(v, ids, Other(hand.dealer), hands)
          /\ ShowsHand(v, hand) /\ v.round = hand.round
          /\ Me \notin rejoin /\ link[Me] # "out"
      BY <1>1, <1>2, <1>5 DEF IsCurrent, Playing
    <2>2. v.gen = ids
      BY <2>1 DEF HasIds
    <2>3. m = ActionDone(hand', s, v.gen[s], "no")
      BY <2>2
    <2>4. exact /\ IsExact(v, e) => ShowsMine(v, e, hand)
      BY <1>1, <1>2, <1>5 DEF IsExact, Playing
    <2> HIDE DEF s
    <2>5. /\ w.state = "RunHand" /\ SameIds(v, w)
          /\ ShowsHand(w, hand') /\ w.round = hand'.round
          /\ exact /\ (s = Me \/ ShowsMine(v, e, hand)) => ShowsMine(w, x, hand')
      <3>1. PICK h \in HandType, g \in HandType : h = hand /\ g = hand'
        BY <1>1
      <3>2. m = ActionDone(g, s, v.gen[s], "no") /\ Acted(h, g, s)
        BY <1>1, <2>3, <3>1
      <3>3. ShowsHand(v, h) /\ v.round = h.round /\ v.state = "RunHand"
        BY <2>1, <3>1
      <3>4. s \in Seats /\ Sees(v, m, w) /\ (exact => SeesMine(v, e, m, x))
        BY <1>1, <1>5
      <3>5. ActionShown(exact, v, e, h, g, s, w, x)
        BY <3>2, <3>3, <3>4, ActionSeen
      <3> QED BY <3>1, <3>5 DEF ActionShown
    <2>6. HasIds(w, ids, Other(hand.dealer), hands) /\ hand'.dealer = hand.dealer
      BY <1>1, <2>1, <2>5 DEF HasIds, SameIds, Acted
    <2>7. IsCurrent(w)'
      <3>1. HasIds(w, ids', Other(hand'.dealer), hands')
        BY <2>6 DEF KeepIds
      <3>2. state' \in Running /\ state' # "WaitPlayerAction"
        BY <1>2 DEF Running
      <3> QED BY <1>1, <1>2, <2>1, <2>5, <3>1, <3>2 DEF IsCurrent, Playing
    <2>8. exact /\ (s = Me \/ IsExact(v, e)) => IsExact(w, x)'
      BY <2>4, <2>5 DEF IsExact
    <2> QED BY <2>7, <2>8
  <1> QED BY <1>3, <1>4, <1>5

\* Nothing is run out when a player acts.
LEMMA ActedRunsOut ==
    ASSUME TInv, PlayerActs, SetState("Hand"), ready' = ready \/ ready' = << >>
    PROVE  RunsOut'
  <1>1. /\ state = "WaitPlayerAction" /\ state' = "Hand" /\ game' = game
        /\ timer' = "Loop"
    BY DEF PlayerActs, SetState
  <1>2. game /\ \A i \in 1..Len(ready) : ready[i] = "Timeout"
    BY <1>1 DEF TInv, HInv, HandlersFit, QueueHolds
  <1>3. \A i \in 1..Len(ready') : ready'[i] # "ShowCards"
    BY <1>2
  <1> QED BY <1>1, <1>2, <1>3 DEF RunsOut


LEMMA TurnSendKeeps ==
    ASSUME TInv, NetInv, PlayerActs, KeepIds, UNCHANGED <<link, rejoin>>,
           SetState("Hand"), ready' = ready \/ ready' = << >>,
           Send(<<ActionDone(hand', hand.turn, ids[hand.turn], "no")>>)
    PROVE  NetInv'
  <1> DEFINE m == ActionDone(hand', hand.turn, ids[hand.turn], "no")
  <1>1. NetTypeOK /\ Send(<<m>>)
    BY DEF NetInv
  <1>2. /\ m \in Messages /\ m.type = "ActionDone"
        /\ \A exact \in BOOLEAN : \A v, e, w, x :
              /\ v.state # "NoTable" /\ IsCurrent(v)
              /\ Sees(v, m, w) /\ (exact => SeesMine(v, e, m, x))
              => /\ IsCurrent(w)'
                 /\ exact /\ (hand.turn = Me \/ IsExact(v, e)) => IsExact(w, x)'
    BY <1>1, TurnSeenBy
  <1> HIDE DEF m
  <1>3. KeepsView(m)
    BY <1>2 DEF KeepsView
  <1>4. RunsOut'
    BY ActedRunsOut
  <1> QED BY <1>1, <1>2, <1>3, <1>4, SendOneKeeps

LEMMA STimeoutKeeps ==
    ASSUME TInv, NetInv, STimeout
    PROVE  NetInv'
  <1>1. TimerTimeout /\ KeepIds
        /\ Send(<<ActionDone(hand', hand.turn, ids[hand.turn], "no")>>)
    BY DEF STimeout
  <1>2. PlayerActs
    <2>1. {"check", "fold"} \subseteq Actions /\ 0 \in Int
      BY DEF Actions
    <2> QED BY <1>1, <2>1, TimerTimeoutActs DEF PlayerActs
  <1>3. /\ Runs("Timeout") /\ SetState("Hand") /\ UNCHANGED <<link, rejoin>>
    BY <1>1 DEF TimerTimeout, players
  <1>4. ready' = << >>
    <2>1. "Timeout" \in Handlers
      BY DEF Handlers
    <2> QED BY <1>3, <2>1, RunsLast DEF TInv, IInv
  <1> QED BY <1>1, <1>2, <1>3, <1>4, TurnSendKeeps

LEMMA SOtherActsKeeps ==
    ASSUME TInv, NetInv, NEW action \in Actions, NEW bet \in 0..MaxBet,
           SOtherActs(hand.round, action, bet)
    PROVE  NetInv'
  <1>1. /\ MyActionRequest(You, hand.round, action, bet) /\ KeepIds
        /\ Send(<<ActionDone(hand', You, ids[You], "no")>>)
    BY DEF SOtherActs
  <1>2. You \in Seats /\ bet \in Int /\ hand \in HandType
    BY MeAndYou, TableAssumption DEF TInv, IInv, TypeOK
  <1>3. PlayerActs
    BY <1>1, <1>2, MyActionRequestActs
  <1>4. You = hand.turn /\ SetState("Hand") /\ UNCHANGED <<ready, link, rejoin>>
    BY <1>1, <1>2, AcceptedRequest
  <1> QED BY <1>1, <1>3, <1>4, TurnSendKeeps

\* A request of Me's that is refused is remembered as astray.
LEMMA RefusedKeeps ==
    ASSUME TInv, NetInv, KeepIds, UNCHANGED <<vars, down, client, buttons>>,
           up # << >>, up' = Tail(up), astray' = hands
    PROVE  NetInv'
  <1>1. UNCHANGED <<hands, ids, logins>>
    BY DEF KeepIds
  <1>2. AllExact'
    BY <1>1 DEF AllExact
  <1>3. AllCurrent'
    <2>1. ASSUME NEW e, NEW w, NEW x, Ends(FALSE, View(client'), e, down', w, x)
          PROVE  IsCurrent(w)'
      <3>1. IsCurrent(w)
        BY <2>1 DEF NetInv, AllCurrent
      <3> QED BY <1>1, <3>1, SameServerViews
    <2> QED BY <2>1 DEF AllCurrent
  <1>4. NetTypeOK'
    BY <1>1 DEF NetInv, NetTypeOK
  <1>5. RunsOut' /\ Present'
    BY DEF NetInv, RunsOut, Present, vars
  <1> QED BY <1>2, <1>3, <1>4, <1>5 DEF NetInv

\* One that is accepted is answered with what the server made of it: unless it
\* was made for an earlier hand, the client's own are what the server says.
LEMMA AcceptedKeeps ==
    ASSUME TInv, NetInv, PlayerActs, hand.turn = Me, KeepIds, UNCHANGED <<link, rejoin>>,
           SetState("Hand"), UNCHANGED <<ready, client, buttons>>,
           up # << >>, up' = Tail(up),
           down' = Append(down, ActionDone(hand', Me, ids[Me], "no")),
           astray' \in {astray, hands}
    PROVE  NetInv'
  <1> DEFINE m == ActionDone(hand', Me, ids[Me], "no")
  <1>1. /\ NetTypeOK /\ down \in Seq(Messages) /\ UNCHANGED <<hands, ids, logins>>
        /\ AllCurrent /\ TRUE \in BOOLEAN /\ FALSE \in BOOLEAN
    BY DEF NetInv, NetTypeOK, KeepIds
  <1>2. /\ m \in Messages
        /\ \A exact \in BOOLEAN : \A v, e, w, x :
              /\ v.state # "NoTable" /\ IsCurrent(v)
              /\ Sees(v, m, w) /\ (exact => SeesMine(v, e, m, x))
              => /\ IsCurrent(w)'
                 /\ exact /\ (hand.turn = Me \/ IsExact(v, e)) => IsExact(w, x)'
    BY <1>1, TurnSeenBy
  <1>3. m.type = "ActionDone" /\ down' = Append(down, m)
    BY DEF ActionDone
  <1> HIDE DEF m
  <1>4. <<m>> \in Seq(Messages) /\ down' = down \o <<m>> /\ down' \in Seq(Messages)
    BY <1>1, <1>2, <1>3
  <1>5. ASSUME NEW exact \in BOOLEAN, NEW v, NEW e, NEW w, NEW x,
               IsCurrent(v), Ends(exact, v, e, <<m>>, w, x)
        PROVE  IsCurrent(w)' /\ (exact => IsExact(w, x)')
    <2>1. Sees(v, m, w) /\ (exact => SeesMine(v, e, m, x))
      BY <1>2, <1>5, EndsOne
    <2>2. CASE v.state = "NoTable"
      <3>1. w.state = "NoTable"
        BY <1>3, <2>1, <2>2, NoTableStays
      <3> QED BY <3>1 DEF IsCurrent, IsExact
    <2>3. CASE v.state # "NoTable"
      BY <1>2, <1>5, <2>1, <2>3
    <2> QED BY <2>2, <2>3
  <1>6. ASSUME NEW exact \in BOOLEAN, NEW e, NEW w, NEW x,
               Ends(exact, View(client), e, down', w, x)
        PROVE  IsCurrent(w)' /\ (exact => IsExact(w, x)')
    <2>1. PICK u, y : /\ Ends(exact, View(client), e, down, u, y)
                      /\ Ends(exact, u, y, <<m>>, w, x)
      BY <1>1, <1>4, <1>6, EndsBoth
    <2>2. Ends(FALSE, View(client), e, down, u, y)
      BY <2>1, EndsLoosely
    <2>3. IsCurrent(u)
      BY <1>1, <2>2 DEF AllCurrent
    <2> QED BY <1>5, <2>1, <2>3
  <1>7. AllCurrent' /\ AllExact'
    BY <1>1, <1>6 DEF AllCurrent, AllExact
  <1>8. NetTypeOK'
    <2>1. up' \in Seq(RequestType) /\ astray' \in Nat
      BY DEF NetInv, NetTypeOK
    <2> QED BY <1>1, <1>4, <2>1 DEF NetInv, NetTypeOK
  <1>9. RunsOut' /\ Present'
    BY ActedRunsOut DEF NetInv, Present
  <1> QED BY <1>7, <1>8, <1>9 DEF NetInv

LEMMA SRequestKeeps ==
    ASSUME TInv, NetInv, SRequest
    PROVE  NetInv'
  <1> DEFINE r == Head(up)
             a == FillIn(hand, Me, r.action, r.bet)
  <1>1. /\ up # << >> /\ up' = Tail(up) /\ KeepIds /\ UNCHANGED <<client, buttons>>
        /\ \/ /\ MyActionRequest(Me, r.round, r.action, r.bet)
              /\ down' = Append(down, ActionDone(hand', Me, ids[Me], "no"))
              /\ astray' \in {astray, hands}
           \/ astray' = hands /\ UNCHANGED <<vars, down>>
    BY DEF SRequest
  <1>2. r \in RequestType
    BY <1>1 DEF NetInv, NetTypeOK
  <1>3. r.action \in Actions /\ r.bet \in Int /\ Me \in Seats /\ hand \in HandType
    BY <1>2, MeAndYou DEF RequestType, TInv, IInv, TypeOK
  <1> HIDE DEF r
  <1>4. CASE MyActionRequest(Me, r.round, r.action, r.bet)
    <2>1. PlayerActs
      BY <1>3, <1>4, MyActionRequestActs
    <2>2. Me = hand.turn /\ SetState("Hand") /\ UNCHANGED <<ready, link, rejoin>>
      BY <1>3, <1>4, AcceptedRequest
    <2>3. \/ /\ down' = Append(down, ActionDone(hand', Me, ids[Me], "no"))
             /\ astray' \in {astray, hands}
          \/ astray' = hands /\ UNCHANGED <<vars, down>>
      BY <1>1
    <2>4. CASE /\ down' = Append(down, ActionDone(hand', Me, ids[Me], "no"))
               /\ astray' \in {astray, hands}
      BY <1>1, <2>1, <2>2, <2>4, AcceptedKeeps
    <2>5. CASE astray' = hands /\ UNCHANGED <<vars, down>>
      BY <1>1, <2>5, RefusedKeeps
    <2> QED BY <2>3, <2>4, <2>5
  <1>5. CASE ~MyActionRequest(Me, r.round, r.action, r.bet)
    BY <1>1, <1>5, RefusedKeeps
  <1> QED BY <1>4, <1>5


(***************************************************************************)
(* A pass of the engine                                                    *)
(***************************************************************************)

\* The messages ms take a current view to a current view, and an exact one to an
\* exact one.
KeepsViews(ms) ==
    \A exact \in BOOLEAN : \A v, e, w, x :
        /\ v.state # "NoTable" /\ IsCurrent(v) /\ Ends(exact, v, e, ms, w, x)
        => /\ IsCurrent(w)'
           /\ exact /\ IsExact(v, e) => IsExact(w, x)'

\* In a step in which nobody comes or goes they are sent.  They do not start a
\* game.
LEMMA SendMoreKeeps ==
    ASSUME NetInv, RunsOut', KeepIds, UNCHANGED <<link, rejoin>>,
           NEW m \in Messages, NEW n \in Messages,
           m.type \notin {"GameStartInitial", "GameStartRejoin"},
           n.type \notin {"GameStartInitial", "GameStartRejoin"},
           Send(<<m, n>>), KeepsViews(<<m, n>>)
    PROVE  NetInv'
  <1>1. NetTypeOK /\ AllCurrent /\ AllExact /\ <<m, n>> \in Seq(Messages) /\ hands' = hands
    BY DEF NetInv, KeepIds
  <1>2. ASSUME NEW exact \in BOOLEAN, NEW v, NEW e, NEW w, NEW x,
               IsCurrent(v), Ends(exact, v, e, <<m, n>>, w, x)
        PROVE  /\ IsCurrent(w)'
               /\ exact /\ (IsExact(v, e) \/ hands' # hands) => IsExact(w, x)'
    <2>1. CASE v.state = "NoTable"
      <3>1. PICK u, y : Sees(v, m, u) /\ Sees(u, n, w)
        BY <1>2, EndsTwo
      <3>2. u = v
        BY <2>1, <3>1, NoTableStays
      <3>3. w = u
        BY <2>1, <3>1, <3>2, NoTableStays
      <3> QED BY <2>1, <3>2, <3>3 DEF IsCurrent, IsExact
    <2>2. CASE v.state # "NoTable"
      BY <1>1, <1>2, <2>2 DEF KeepsViews
    <2> QED BY <2>1, <2>2
  <1>3. /\ AllCurrent' /\ AllExact' /\ down' \in Seq(Messages)
        /\ UNCHANGED <<up, client, buttons, astray>>
    BY <1>1, <1>2, SendKeeps
  <1>4. NetTypeOK' /\ Present'
    BY <1>1, <1>3 DEF NetInv, NetTypeOK, Present, KeepIds
  <1> QED BY <1>3, <1>4 DEF NetInv

\* The messages about a hand.
LEMMA TurnMessages ==
    ASSUME NetTypeOK, NEW h \in HandType
    PROVE  /\ h.turn \in Seats =>
                 /\ PlayersTurn(h) \in Messages /\ PlayersTurn(h).type = "PlayersTurn"
                 /\ PlayersTurn(h).who = h.turn /\ PlayersTurn(h).gen = ids[h.turn]
                 /\ PlayersTurn(h).round = h.round
           /\ AllInShowCards \in Messages /\ AllInShowCards.type = "AllInShowCards"
           /\ AllInShowCards.gen = ids
           /\ DealCards \in Messages /\ DealCards.type = "DealCards"
  <1>1. ids \in [Seats -> Nat] /\ h.round \in Rounds
    BY DEF NetTypeOK, HandType
  <1>2. h.turn \in Seats => PlayersTurn(h) \in TableMessages
    BY <1>1 DEF PlayersTurn, TableMessages
  <1>3. AllInShowCards \in TableMessages /\ DealCards \in TableMessages
    BY <1>1 DEF AllInShowCards, DealCards, TableMessages
  <1> QED BY <1>2, <1>3 DEF PlayersTurn, AllInShowCards, DealCards, Messages

LEMMA HandEndMessages ==
    ASSUME NetTypeOK, NEW h \in HandType, NEW s \in Seats
    PROVE  /\ EndOfHandShow(h) \in Messages /\ EndOfHandShow(h).type = "EndOfHandShow"
           /\ EndOfHandShow(h).gen = ids
           /\ EndOfHandHide(h, s) \in Messages /\ EndOfHandHide(h, s).type = "EndOfHandHide"
           /\ EndOfHandHide(h, s).who = s /\ EndOfHandHide(h, s).gen = ids[s]
  <1>1. ids \in [Seats -> Nat] /\ h.cash \in [Seats -> Nat]
    BY DEF NetTypeOK, HandType
  <1>2. EndOfHandShow(h) \in EndMessages /\ EndOfHandHide(h, s) \in EndMessages
    BY <1>1 DEF EndOfHandShow, EndOfHandHide, EndMessages
  <1> QED BY <1>2 DEF EndOfHandShow, EndOfHandHide, Messages

\* What a pass starts from.
LEMMA LoopStarts ==
    ASSUME TInv, NetInv, SLoop
    PROVE  /\ state = "Hand" /\ game /\ hand \in HandType /\ InSync(hand) /\ KeepIds
           /\ ready' = << >> /\ NetTypeOK /\ SEngine
           /\ PassDone(PlayHand(hand))
  <1>1. Runs("Loop") /\ SEngine /\ KeepIds /\ TimerLoop
    BY DEF SLoop, SEngine, TimerLoop, EngineLoop
  <1>2. ready' = << >>
    <2>1. "Loop" \in Handlers
      BY DEF Handlers
    <2> QED BY <1>1, <2>1, RunsLast DEF TInv, IInv
  <1>3. state = "Hand" /\ game
    BY <1>1, LoopOutcomes
  <1>4. PICK h : PassDone(h)
    BY <1>1, LoopOutcomes
  <1>5. h = PlayHand(hand)
    BY <1>4 DEF PassDone
  <1> QED BY <1>1, <1>2, <1>3, <1>4, <1>5 DEF TInv, IInv, TypeOK, ChipsSound, NetInv

\* A view of the hand before the pass.
LEMMA PassViews ==
    ASSUME state = "Hand", game, NEW v, v.state # "NoTable", IsCurrent(v)
    PROVE  /\ v.state = "RunHand" /\ HasIds(v, ids, Other(hand.dealer), hands)
           /\ v.gen = ids
           /\ Me \notin rejoin /\ link[Me] # "out"
           /\ hand.allIn \/ ShowsHand(v, hand)
           /\ \A e : IsExact(v, e) /\ ~hand.allIn => ShowsMine(v, e, hand)
  BY DEF IsCurrent, IsExact, Playing, HasIds

\* After a pass in which the hand goes on.
LEMMA PassViewed ==
    ASSUME KeepIds, UNCHANGED <<link, rejoin>>, Me \notin rejoin, link[Me] # "out",
           game', state' \in {"Hand", "WaitPlayerAction"}, hand'.dealer = hand.dealer,
           NEW v, HasIds(v, ids, Other(hand.dealer), hands),
           NEW w, SameIds(v, w), w.state = "RunHand",
           hand'.allIn \/ (ShowsHand(w, hand') /\ (state' = "WaitPlayerAction" => w.round = hand'.round))
    PROVE  IsCurrent(w)'
  <1>1. HasIds(w, ids', Other(hand'.dealer), hands')
    BY DEF HasIds, SameIds, KeepIds
  <1> QED BY <1>1 DEF IsCurrent, Playing, Running


\* A new round is dealt.
LEMMA DealtShown ==
    ASSUME NEW h \in HandType, NEW shown \in BOOLEAN, NEW g, g = [h EXCEPT !.shown = shown]
    PROVE  /\ g.dealer = h.dealer /\ g.allIn = h.allIn /\ g.round = h.round
           /\ \A v : ShowsHand(v, h) => ShowsHand(v, g)
           /\ \A v, x : ShowsMine(v, x, h) => ShowsMine(v, x, g)
  <1>1. /\ g.set = h.set /\ g.sets = h.sets /\ g.pot = h.pot /\ g.cash = h.cash
        /\ g.smallBlind = h.smallBlind /\ g.round = h.round /\ g.highestSet = h.highestSet
        /\ g.minimumRaise = h.minimumRaise /\ g.dealer = h.dealer
    BY DEF HandType
  <1>2. g.allIn = h.allIn
    BY DEF HandType
  <1> HIDE DEF HandType
  <1> QED BY <1>1, <1>2 DEF ShowsHand, ShowsMine

LEMMA DealRoundKeeps ==
    ASSUME TInv, NetInv, SLoop, NEW h, h = PlayHand(hand), DealRound(h),
           Send(<<IF h.allIn /\ ~h.shown /\ NonFold(h) = Seats
                  THEN AllInShowCards ELSE DealCards>>)
    PROVE  NetInv'
  <1> DEFINE show == h.allIn /\ ~h.shown /\ NonFold(h) = Seats
             m == IF show THEN AllInShowCards ELSE DealCards
  <1>1. /\ state = "Hand" /\ game /\ hand \in HandType /\ InSync(hand) /\ KeepIds
        /\ ready' = << >> /\ NetTypeOK /\ PassDone(h)
    BY LoopStarts
  <1>2. /\ hand' = [h EXCEPT !.shown = @ \/ show]
        /\ state' = state /\ timer' = (IF show THEN "ShowCards" ELSE "Loop")
        /\ UNCHANGED <<game, link, rejoin>>
        /\ h.round # hand.round /\ h.round # POST_RIVER
    BY DEF DealRound, StayWith, players
  <1>3. h \in HandType /\ InSync(h) /\ RoundOver(hand, h) /\ OnTable(h) = OnTable(hand)
    BY <1>1, <1>2 DEF PassDone, PlayerAsked
  <1>4. /\ h.dealer = hand.dealer /\ (hand.allIn => h.allIn)
    BY <1>3 DEF RoundOver, SamePlayers
  <1>5. /\ hand'.dealer = h.dealer /\ hand'.allIn = h.allIn
        /\ \A v : ShowsHand(v, h) => ShowsHand(v, hand')
        /\ \A v, x : ShowsMine(v, x, h) => ShowsMine(v, x, hand')
    <2>1. PICK shown \in BOOLEAN : hand' = [h EXCEPT !.shown = shown]
      <3>1. (h.shown \/ show) \in BOOLEAN
        OBVIOUS
      <3>2. hand' = [h EXCEPT !.shown = (h.shown \/ show)]
        BY <1>2
      <3> HIDE DEF show
      <3> QED BY <3>1, <3>2
    <2> QED BY <1>3, <2>1, DealtShown
  <1>6. show => h.allIn
    OBVIOUS
  <1>7. m \in Messages /\ m.type \in {"AllInShowCards", "DealCards"}
    BY <1>1, TurnMessages
  <1> HIDE DEF show
  <1>8. KeepsView(m)
    <2>1. SUFFICES ASSUME NEW exact \in BOOLEAN, NEW v, NEW e, NEW w, NEW x,
                          v.state # "NoTable", IsCurrent(v), Sees(v, m, w),
                          exact => SeesMine(v, e, m, x)
                   PROVE  IsCurrent(w)' /\ (exact /\ IsExact(v, e) => IsExact(w, x)')
      BY DEF KeepsView
    <2>2. /\ v.state = "RunHand" /\ HasIds(v, ids, Other(hand.dealer), hands) /\ v.gen = ids
          /\ Me \notin rejoin /\ link[Me] # "out"
          /\ hand.allIn \/ ShowsHand(v, hand)
          /\ IsExact(v, e) /\ ~hand.allIn => ShowsMine(v, e, hand)
      BY <1>1, <2>1, PassViews
    <2>3. CASE show
      <3>1. m = AllInShowCards
        BY <2>3
      <3>2. m.type = "AllInShowCards" /\ m.gen = v.gen
        BY <1>1, <2>2, <3>1, TurnMessages
      <3>3. w.state = "RunHand" /\ SameIds(v, w)
        BY <2>1, <2>2, <3>2, AllInSeen
      <3>4. hand'.allIn
        BY <1>5, <1>6, <2>3
      <3>5. IsCurrent(w)'
        BY <1>1, <1>2, <1>4, <1>5, <2>2, <3>3, <3>4, PassViewed
      <3> QED BY <3>4, <3>5 DEF IsExact
    <2>4. CASE ~show
      <3>1. m.type = "DealCards"
        BY <1>1, <2>4, TurnMessages
      <3>2. w.state = "RunHand" /\ SameIds(v, w)
        BY <2>1, <2>2, <3>1, CardsSeen
      <3>3. ShowsHand(v, hand) =>
               /\ ShowsHand(w, h)
               /\ exact /\ ShowsMine(v, e, hand) => ShowsMine(w, x, h)
        <4>1. PICK f \in HandType : f = hand
          BY <1>1
        <4>2. InSync(f) /\ InSync(h) /\ RoundOver(f, h) /\ OnTable(h) = OnTable(f)
          BY <1>1, <1>3, <4>1
        <4>3. ShowsHand(v, f) =>
                 /\ ShowsHand(w, h)
                 /\ exact /\ ShowsMine(v, e, f) => ShowsMine(w, x, h)
          BY <1>3, <2>1, <2>2, <3>1, <4>2, CardsSeen
        <4> QED BY <4>1, <4>3
      <3>4. hand'.allIn \/ ShowsHand(w, hand')
        BY <1>4, <1>5, <2>2, <3>3
      <3>5. IsCurrent(w)'
        BY <1>1, <1>2, <1>4, <1>5, <2>2, <3>2, <3>4, PassViewed
      <3>6. exact /\ IsExact(v, e) => IsExact(w, x)'
        BY <1>4, <1>5, <2>2, <3>3 DEF IsExact
      <3> QED BY <3>5, <3>6
    <2> QED BY <2>3, <2>4
  <1>9. RunsOut'
    <2>1. ~\E i \in 1..Len(ready') : TRUE
      BY <1>1
    <2> QED BY <1>1, <1>2, <1>5, <1>6, <2>1 DEF RunsOut
  <1> HIDE DEF m
  <1>10. Send(<<m>>)
    BY DEF m, show
  <1> QED BY <1>1, <1>2, <1>7, <1>8, <1>9, <1>10, SendOneKeeps


\* A player is asked: the others know the round.
TurnShown(exact, v, e, h, g, w, x) ==
    /\ w.state = "RunHand" /\ SameIds(v, w)
    /\ ShowsHand(w, g) /\ w.round = g.round
    /\ exact /\ ShowsMine(v, e, h) => ShowsMine(w, x, g)

\* The view after the turn of player h.turn was announced.
LEMMA PassTurnSeen ==
    ASSUME TInv, NetInv, SLoop, NEW h, h = PlayHand(hand), h.round = hand.round,
           NEW m, m = PlayersTurn(h),
           NEW exact \in BOOLEAN, NEW v, NEW e, NEW w, NEW x,
           v.state # "NoTable", IsCurrent(v), Sees(v, m, w),
           exact => SeesMine(v, e, m, x)
    PROVE  /\ TurnShown(exact, v, e, hand, h, w, x)
           /\ w.gen = ids /\ HasIds(v, ids, Other(hand.dealer), hands)
           /\ Me \notin rejoin /\ link[Me] # "out"
           /\ exact /\ IsExact(v, e) => ShowsMine(v, e, hand)
  <1>1. /\ state = "Hand" /\ game /\ hand \in HandType /\ NetTypeOK /\ PassDone(h)
    BY LoopStarts
  <1>2. h \in HandType /\ PlayerAsked(hand, h) /\ Decides(h)
    BY <1>1, PassAsks
  <1>3. h.turn \in Seats /\ ~hand.allIn
    BY <1>2 DEF PlayerAsked, Decides, HandType
  <1>4. /\ v.state = "RunHand" /\ HasIds(v, ids, Other(hand.dealer), hands) /\ v.gen = ids
        /\ Me \notin rejoin /\ link[Me] # "out"
        /\ ShowsHand(v, hand)
        /\ IsExact(v, e) => ShowsMine(v, e, hand)
    BY <1>1, <1>3, PassViews
  <1>5. /\ m.type = "PlayersTurn" /\ v.gen[m.who] = m.gen /\ m.round = h.round
    BY <1>1, <1>2, <1>3, <1>4, TurnMessages
  <1>6. TurnShown(exact, v, e, hand, h, w, x)
    <2>1. PICK f \in HandType : f = hand
      BY <1>1
    <2>2. ShowsHand(v, f) /\ PlayerAsked(f, h)
      BY <1>2, <1>4, <2>1
    <2>3. /\ w.state = "RunHand" /\ SameIds(v, w)
          /\ ShowsHand(w, h) /\ w.round = h.round
          /\ exact /\ ShowsMine(v, e, f) => ShowsMine(w, x, h)
      <3>1. v.state = "RunHand" /\ (exact => SeesMine(v, e, m, x))
        BY <1>4
      <3> QED BY <1>2, <1>5, <2>2, <3>1, TurnSeen
    <2>4. TurnShown(exact, v, e, f, h, w, x)
      BY <2>3 DEF TurnShown
    <2> QED BY <2>1, <2>4
  <1>7. w.gen = ids
    BY <1>4, <1>6 DEF TurnShown, SameIds
  <1> QED BY <1>4, <1>6, <1>7

\* The player who is asked, and the others, know it.
LEMMA AskPlayerKeeps ==
    ASSUME TInv, NetInv, SLoop, NEW h, h = PlayHand(hand), AskPlayer(h),
           Send(<<PlayersTurn(h)>>)
    PROVE  NetInv'
  <1> DEFINE m == PlayersTurn(h)
  <1>1. /\ state = "Hand" /\ game /\ hand \in HandType /\ KeepIds
        /\ ready' = << >> /\ NetTypeOK /\ PassDone(h)
    BY LoopStarts
  <1>2. /\ hand' = h /\ state' = "WaitPlayerAction" /\ UNCHANGED <<game, link, rejoin>>
        /\ h.round = hand.round
    BY DEF AskPlayer, SetState, players
  <1>3. h \in HandType /\ PlayerAsked(hand, h) /\ Decides(h)
    BY <1>1, <1>2, PassAsks
  <1>4. h.turn \in Seats /\ h.dealer = hand.dealer
    BY <1>3 DEF PlayerAsked, SamePlayers, Decides, HandType
  <1>5. m \in Messages /\ m.type = "PlayersTurn"
    BY <1>1, <1>3, <1>4, TurnMessages
  <1>6. KeepsView(m)
    <2>1. SUFFICES ASSUME NEW exact \in BOOLEAN, NEW v, NEW e, NEW w, NEW x,
                          v.state # "NoTable", IsCurrent(v), Sees(v, m, w),
                          exact => SeesMine(v, e, m, x)
                   PROVE  IsCurrent(w)' /\ (exact /\ IsExact(v, e) => IsExact(w, x)')
      BY DEF KeepsView
    <2>2. /\ TurnShown(exact, v, e, hand, h, w, x)
          /\ HasIds(v, ids, Other(hand.dealer), hands)
          /\ Me \notin rejoin /\ link[Me] # "out"
          /\ exact /\ IsExact(v, e) => ShowsMine(v, e, hand)
      BY <1>2, <2>1, PassTurnSeen
    <2>3. IsCurrent(w)'
      BY <1>1, <1>2, <1>4, <2>2, PassViewed DEF TurnShown
    <2>4. exact /\ IsExact(v, e) => IsExact(w, x)'
      BY <1>2, <2>2 DEF TurnShown, IsExact
    <2> QED BY <2>3, <2>4
  <1>7. RunsOut'
    BY <1>2 DEF RunsOut
  <1> HIDE DEF m
  <1>8. Send(<<m>>)
    BY DEF m
  <1> QED BY <1>1, <1>2, <1>5, <1>6, <1>7, <1>8, SendOneKeeps

\* An absent player is asked, and the server folds for him.
LEMMA SkipAbsentKeeps ==
    ASSUME TInv, NetInv, SLoop, NEW h, h = PlayHand(hand), SkipAbsent(h),
           Send(<<PlayersTurn(h), ActionDone(hand', h.turn, ids[h.turn], "no")>>)
    PROVE  NetInv'
  <1> DEFINE s == h.turn
             m == PlayersTurn(h)
             n == ActionDone(hand', s, ids[s], "no")
  <1>1. /\ state = "Hand" /\ game /\ hand \in HandType /\ KeepIds
        /\ ready' = << >> /\ NetTypeOK /\ PassDone(h)
    BY LoopStarts
  <1>2. /\ hand' = PerformPlayerAction(h, s, "fold", 0)
        /\ state' = state /\ timer' = "Loop" /\ UNCHANGED <<game, link, rejoin>>
        /\ h.round = hand.round
    BY DEF SkipAbsent, StayWith, players
  <1>3. /\ h \in HandType /\ PlayerAsked(hand, h) /\ Decides(h) /\ InSync(h) /\ Highest(h)
    BY <1>1, <1>2, PassAsks
  <1>4. s \in Seats /\ h.dealer = hand.dealer
    BY <1>3 DEF PlayerAsked, SamePlayers, Decides, HandType
  <1>5. m \in Messages /\ m.type = "PlayersTurn"
    BY <1>1, <1>3, <1>4, TurnMessages
  <1>6. hand' \in HandType /\ Acted(h, hand', s)
    <2>1. "fold" \in Actions /\ 0 \in Int /\ 0 \in Nat
      BY DEF Actions
    <2> HIDE DEF s
    <2> QED BY <1>2, <1>3, <1>4, <2>1, ActionActed
  <1>7. n \in Messages /\ n.type = "ActionDone"
    <2>1. ids \in [Seats -> Nat] /\ 0 \in Nat /\ TRUE \in BOOLEAN /\ "no" \in {"no", "small", "big"}
      BY <1>1 DEF NetTypeOK
    <2>2. n \in Messages
      BY <1>4, <1>6, <2>1, HandMessages
    <2> QED BY <2>2 DEF ActionDone
  <1>8. hand'.dealer = hand.dealer
    BY <1>4, <1>6 DEF Acted
  <1> HIDE DEF s, m
  <1>9. KeepsViews(<<m, n>>)
    <2>1. SUFFICES ASSUME NEW exact \in BOOLEAN, NEW v, NEW e, NEW w, NEW x,
                          v.state # "NoTable", IsCurrent(v), Ends(exact, v, e, <<m, n>>, w, x)
                   PROVE  IsCurrent(w)' /\ (exact /\ IsExact(v, e) => IsExact(w, x)')
      BY DEF KeepsViews
    <2>2. PICK u, y : /\ Sees(v, m, u) /\ (exact => SeesMine(v, e, m, y))
                      /\ Sees(u, n, w) /\ (exact => SeesMine(u, y, n, x))
      <3> HIDE DEF n
      <3> QED BY <1>5, <1>7, <2>1, EndsTwo
    <2>3. /\ TurnShown(exact, v, e, hand, h, u, y) /\ u.gen = ids
          /\ HasIds(v, ids, Other(hand.dealer), hands)
          /\ Me \notin rejoin /\ link[Me] # "out"
          /\ exact /\ IsExact(v, e) => ShowsMine(v, e, hand)
      BY <1>2, <2>1, <2>2, PassTurnSeen DEF m
    <2>4. /\ u.state = "RunHand" /\ SameIds(v, u) /\ ShowsHand(u, h) /\ u.round = h.round
          /\ exact /\ ShowsMine(v, e, hand) => ShowsMine(u, y, h)
      BY <2>3 DEF TurnShown
    <2>5. ActionShown(exact, u, y, h, hand', s, w, x)
      <3>1. PICK g \in HandType : g = hand'
        BY <1>6
      <3>2. n = ActionDone(g, s, u.gen[s], "no") /\ Acted(h, g, s)
        BY <1>6, <2>3, <3>1
      <3> HIDE DEF n
      <3>3. ActionShown(exact, u, y, h, g, s, w, x)
        BY <1>3, <1>4, <2>2, <2>4, <3>2, ActionSeen
      <3> QED BY <3>1, <3>3
    <2>6. /\ w.state = "RunHand" /\ SameIds(v, w) /\ ShowsHand(w, hand')
          /\ w.round = hand'.round
      BY <2>4, <2>5 DEF ActionShown, SameIds
    <2>7. IsCurrent(w)'
      BY <1>1, <1>2, <1>8, <2>3, <2>6, PassViewed
    <2>8. exact /\ IsExact(v, e) => IsExact(w, x)'
      BY <2>3, <2>4, <2>5 DEF ActionShown, IsExact
    <2> QED BY <2>7, <2>8
  <1>10. RunsOut'
    <2>1. ~\E i \in 1..Len(ready') : TRUE
      BY <1>1
    <2> QED BY <1>1, <1>2, <2>1 DEF RunsOut
  <1>11. Send(<<m, n>>)
    BY DEF m, s
  <1> HIDE DEF n
  <1> QED BY <1>1, <1>2, <1>5, <1>7, <1>9, <1>10, <1>11, SendMoreKeeps


\* The pot is paid out; the dealer is the same.
LEMMA PostRiverRunDealer ==
    ASSUME NEW h \in HandType, NonFold(h) # {}
    PROVE  PostRiverRun(h).dealer = h.dealer
  <1> DEFINE cash == PayRemainder(PotLevels(h))
  <1>1. DistributePot(h) = [h EXCEPT !.cash = cash, !.pot = 0]
    BY DEF DistributePot
  <1> HIDE DEF cash
  <1>2. DistributePot(h).dealer = h.dealer /\ "dealer" \in DOMAIN DistributePot(h)
    BY <1>1 DEF HandType
  <1> QED BY <1>2 DEF PostRiverRun

\* What the end of a hand does to the table.
LEMMA FinishHandEnds ==
    ASSUME TInv, NetInv, SLoop, NEW h, h = PlayHand(hand), FinishHand(h)
    PROVE  /\ UNCHANGED <<link, rejoin>> /\ hand'.dealer = hand.dealer
           /\ PostRiverRun(h) \in HandType /\ h \in HandType /\ NonFold(h) # {}
           /\ ~Playing' /\ state' \in {"WaitNextHand", "Hand", "Init"}
           /\ RunsOut'
  <1> DEFINE cash == [s \in Seats |-> IF Unreachable(s) THEN 0 ELSE PostRiverRun(h).cash[s]]
             rich == {s \in Seats : cash[s] > 0}
  <1>1. state = "Hand" /\ hand \in HandType /\ ready' = << >> /\ PassDone(h)
    BY LoopStarts
  <1>2. /\ PotIsPaidIn(h) /\ RoundOver(hand, h)
        /\ hand' = [PostRiverRun(h) EXCEPT !.cash = cash] /\ hand'.cash = cash
        /\ PostRiverRun(h) \in HandType
        /\ \/ game' /\ state' = "WaitNextHand"
           \/ ~game' /\ state' \in {"Init", "Hand"}
    <2>1. PassDone(h) /\ FinishHand(h) /\ state = "Hand"
      BY <1>1
    <2>2. PotIsPaidIn(h) /\ RoundOver(hand, h) /\ PostRiverRun(h) \in HandType
      BY <2>1, FinishHandFields
    <2>3. hand' = [PostRiverRun(h) EXCEPT !.cash = cash]
      BY <2>1 DEF FinishHand
    <2>5. hand'.cash = cash
      <3> HIDE DEF cash
      <3> QED BY <2>2, <2>3 DEF HandType
    <2>4. \/ game' /\ state' = "WaitNextHand"
          \/ ~game' /\ state' \in {"Init", "Hand"}
      BY <2>1, FinishHandFields
    <2> QED BY <2>2, <2>3, <2>4, <2>5
  <1>3. h \in HandType /\ NonFold(h) # {} /\ h.dealer = hand.dealer
    BY <1>1, <1>2 DEF PassDone, PotIsPaidIn, RoundOver, SamePlayers
  <1>4. hand'.dealer = hand.dealer
    <2>1. PostRiverRun(h).dealer = hand.dealer
      BY <1>3, PostRiverRunDealer
    <2> HIDE DEF cash
    <2> QED BY <1>2, <2>1 DEF HandType
  <1>5. /\ UNCHANGED <<link, rejoin>>
        /\ \/ rich = Seats /\ SetState("WaitNextHand")
           \/ rich = {} /\ SetState("Init")
           \/ rich \notin {Seats, {}} /\ StayWith("NextGame")
    BY DEF FinishHand
  <1>6. RunsOut'
    <2>1. SUFFICES ASSUME state' = "Hand"
                   PROVE  timer' # "ShowCards" /\ \E s \in Seats : cash[s] > 0
      <3>1. ~\E i \in 1..Len(ready') : TRUE
        BY <1>1
      <3> HIDE DEF cash
      <3> QED BY <1>2, <3>1 DEF RunsOut
    <2> HIDE DEF cash
    <2>2. rich # {} /\ StayWith("NextGame")
      <3> HIDE DEF rich
      <3> QED BY <1>5, <2>1 DEF SetState
    <2> QED BY <2>2 DEF StayWith
  <1> QED BY <1>2, <1>3, <1>4, <1>5, <1>6 DEF Playing

\* The view after the end of the hand was announced.
LEMMA HandEndViewed ==
    ASSUME TInv, NetInv, SLoop, NEW h, h = PlayHand(hand), FinishHand(h),
           NEW m, \/ m.type = "EndOfHandHide" /\ m.gen = ids[m.who]
                  \/ m.type = "EndOfHandShow" /\ m.gen = ids,
           NEW v, NEW w, v.state # "NoTable", IsCurrent(v), Sees(v, m, w)
    PROVE  /\ w.state = "WaitHand" /\ w.gen = ids
           /\ state' # "Init" => IsCurrent(w)'
  <1>1. state = "Hand" /\ game /\ KeepIds
    BY LoopStarts
  <1>2. /\ v.state = "RunHand" /\ HasIds(v, ids, Other(hand.dealer), hands) /\ v.gen = ids
        /\ Me \notin rejoin /\ link[Me] # "out"
    BY <1>1, PassViews
  <1>3. w.state = "WaitHand" /\ SameIds(v, w) /\ w.set = NoSets /\ w.pot = 0
    BY <1>2, HandEndSeen
  <1>4. HasIds(w, ids', Other(hand'.dealer), hands')
    BY <1>1, <1>2, <1>3, FinishHandEnds DEF HasIds, SameIds, KeepIds
  <1>5. /\ UNCHANGED <<link, rejoin>> /\ ~Playing'
        /\ state' \in {"WaitNextHand", "Hand", "Init"}
    BY FinishHandEnds
  <1>6. state' # "Init" => IsCurrent(w)'
    BY <1>2, <1>3, <1>4, <1>5 DEF IsCurrent, Running
  <1> QED BY <1>2, <1>3, <1>6 DEF SameIds

LEMMA TwoMessages ==
    ASSUME NEW m, NEW n
    PROVE  <<m>> \o <<n>> = <<m, n>>
  <1>1. <<m>> \in Seq({m, n}) /\ <<n>> \in Seq({m, n}) /\ <<m, n>> \in Seq({m, n})
    OBVIOUS
  <1>2. Len(<<m>> \o <<n>>) = 2 /\ Len(<<m, n>>) = 2
    BY <1>1
  <1>3. (<<m>> \o <<n>>)[1] = m /\ (<<m>> \o <<n>>)[2] = n
    BY <1>1
  <1> DEFINE k == <<m>> \o <<n>>
             l == <<m, n>>
  <1>4. k \in Seq({m, n}) /\ l \in Seq({m, n}) /\ Len(k) = Len(l)
        /\ \A i \in 1..Len(k) : k[i] = l[i]
    BY <1>1, <1>2, <1>3
  <1> HIDE DEF k, l
  <1>5. k = l
    BY <1>4, SeqEqual
  <1> QED BY <1>5 DEF k, l

LEMMA FinishHandKeeps ==
    ASSUME TInv, NetInv, SLoop, NEW h, h = PlayHand(hand), FinishHand(h),
           Send(<<IF NonFold(h) = Seats THEN EndOfHandShow(PostRiverRun(h))
                  ELSE EndOfHandHide(PostRiverRun(h), CHOOSE s \in NonFold(h) : TRUE)>>
                \o IF state' = "Init" THEN <<EndOfGame(Other(hand.dealer))>> ELSE << >>)
    PROVE  NetInv'
  <1> DEFINE s == CHOOSE t \in NonFold(h) : TRUE
             m == IF NonFold(h) = Seats THEN EndOfHandShow(PostRiverRun(h))
                  ELSE EndOfHandHide(PostRiverRun(h), s)
             n == EndOfGame(Other(hand.dealer))
  <1>1. /\ state = "Hand" /\ game /\ hand \in HandType /\ KeepIds /\ NetTypeOK
    BY LoopStarts
  <1>2. /\ UNCHANGED <<link, rejoin>> /\ ~Playing' /\ RunsOut'
        /\ PostRiverRun(h) \in HandType /\ NonFold(h) # {}
    BY FinishHandEnds
  <1>3. s \in Seats /\ Other(hand.dealer) \in Seats
    <2>1. PICK t : t \in NonFold(h)
      BY <1>2
    <2>2. s \in NonFold(h)
      BY <2>1
    <2> HIDE DEF s
    <2> QED BY <1>1, <2>2 DEF NonFold, HandType, Other, Seats
  <1> HIDE DEF s
  <1>4. /\ m \in Messages
        /\ \/ m.type = "EndOfHandHide" /\ m.gen = ids[m.who]
           \/ m.type = "EndOfHandShow" /\ m.gen = ids
    BY <1>1, <1>2, <1>3, HandEndMessages
  <1>5. n \in Messages /\ n.type = "EndOfGame" /\ n.gen = ids[n.who]
    BY <1>1, <1>3, EndOfGameType
  <1>6. Send(<<m>> \o IF state' = "Init" THEN <<n>> ELSE << >>)
    BY DEF s
  <1> HIDE DEF m, n
  <1>7. ASSUME NEW v, NEW w, v.state # "NoTable", IsCurrent(v), Sees(v, m, w)
        PROVE  /\ w.state = "WaitHand" /\ w.gen = ids
               /\ state' # "Init" => IsCurrent(w)'
    BY <1>4, <1>7, HandEndViewed
  <1>8. CASE state' = "Init"
    <2>1. Send(<<m, n>>)
      <3>1. <<m>> \o <<n>> = <<m, n>>
        BY <1>4, <1>5, TwoMessages
      <3> QED BY <1>6, <1>8, <3>1
    <2>2. KeepsViews(<<m, n>>)
      <3>1. SUFFICES ASSUME NEW exact \in BOOLEAN, NEW v, NEW e, NEW w, NEW x,
                            v.state # "NoTable", IsCurrent(v), Ends(exact, v, e, <<m, n>>, w, x)
                     PROVE  w.state = "NoTable"
        BY DEF KeepsViews, IsCurrent, IsExact
      <3>2. PICK u : Sees(v, m, u) /\ Sees(u, n, w)
        BY <1>4, <1>5, <3>1, EndsTwo
      <3>3. u.state = "WaitHand" /\ u.gen = ids
        BY <1>7, <3>1, <3>2
      <3> QED BY <1>5, <3>2, <3>3, GameEndSeen
    <2> QED BY <1>1, <1>2, <1>4, <1>5, <2>1, <2>2, SendMoreKeeps
  <1>9. CASE state' # "Init"
    <2>1. Send(<<m>>)
      <3>1. <<m>> \o << >> = <<m>>
        BY <1>4
      <3> QED BY <1>6, <1>9, <3>1
    <2>2. KeepsView(m)
      BY <1>2, <1>7, <1>9 DEF KeepsView, IsExact
    <2> QED BY <1>1, <1>2, <1>4, <2>1, <2>2, SendOneKeeps
  <1> QED BY <1>8, <1>9

\* The four outcomes of a pass; the engine does not throw.
LEMMA SLoopKeeps ==
    ASSUME TInv, NetInv, SLoop
    PROVE  NetInv'
  <1> DEFINE h == PlayHand(hand)
  <1>1. SEngine /\ PassDone(h)
    BY LoopStarts
  <1>2. ~EngineThrows(h)
    BY <1>1 DEF PassDone, EngineThrows
  <1>3. \/ DealRound(h) /\ Send(<<IF h.allIn /\ ~h.shown /\ NonFold(h) = Seats
                                  THEN AllInShowCards ELSE DealCards>>)
        \/ SkipAbsent(h) /\ Send(<<PlayersTurn(h), ActionDone(hand', h.turn, ids[h.turn], "no")>>)
        \/ AskPlayer(h) /\ Send(<<PlayersTurn(h)>>)
        \/ FinishHand(h) /\ Send(
              <<IF NonFold(h) = Seats THEN EndOfHandShow(PostRiverRun(h))
                ELSE EndOfHandHide(PostRiverRun(h), CHOOSE s \in NonFold(h) : TRUE)>>
              \o IF state' = "Init" THEN <<EndOfGame(Other(hand.dealer))>> ELSE << >>)
    BY <1>1, <1>2 DEF SEngine
  <1> HIDE DEF h
  <1>4. h = PlayHand(hand)
    BY DEF h
  <1>5. CASE DealRound(h) /\ Send(<<IF h.allIn /\ ~h.shown /\ NonFold(h) = Seats
                                    THEN AllInShowCards ELSE DealCards>>)
    BY <1>4, <1>5, DealRoundKeeps
  <1>6. CASE SkipAbsent(h) /\ Send(<<PlayersTurn(h), ActionDone(hand', h.turn, ids[h.turn], "no")>>)
    BY <1>4, <1>6, SkipAbsentKeeps
  <1>7. CASE AskPlayer(h) /\ Send(<<PlayersTurn(h)>>)
    BY <1>4, <1>7, AskPlayerKeeps
  <1>8. CASE FinishHand(h) /\ Send(
              <<IF NonFold(h) = Seats THEN EndOfHandShow(PostRiverRun(h))
                ELSE EndOfHandHide(PostRiverRun(h), CHOOSE s \in NonFold(h) : TRUE)>>
              \o IF state' = "Init" THEN <<EndOfGame(Other(hand.dealer))>> ELSE << >>)
    BY <1>4, <1>8, FinishHandKeeps
  <1> QED BY <1>3, <1>5, <1>6, <1>7, <1>8


(***************************************************************************)
(* The next hand                                                           *)
(***************************************************************************)

LEMMA NewHandDealer ==
    ASSUME NEW h \in HandType, NEW dealer \in Seats, NEW smallBlind, NEW value
    PROVE  NewHand(h, dealer, smallBlind, value).dealer = dealer
  <1> DEFINE fresh == [h EXCEPT !.action = [s \in Seats |-> "none"], !.start = h.cash,
                                !.value = value, !.running = Seats, !.allIn = FALSE,
                                !.shown = FALSE, !.dealer = dealer,
                                !.smallBlind = smallBlind]
             blank == EnterRound(fresh, PREFLOP)
             small == PostBlind(blank, SmallBlindSeat(blank), blank.smallBlind)
             big == PostBlind(small, BigBlindSeat(blank), 2 * blank.smallBlind)
  <1>1. fresh.dealer = dealer /\ "dealer" \in DOMAIN fresh
    BY DEF HandType
  <1>2. NewHand(h, dealer, smallBlind, value) = CollectSets(big)
    BY DEF NewHand, SetBlinds
  <1> HIDE DEF fresh
  <1>3. blank.dealer = dealer /\ "dealer" \in DOMAIN blank
    BY <1>1 DEF EnterRound
  <1> HIDE DEF blank
  <1>4. ASSUME NEW g, NEW s, NEW blind, g.dealer = dealer, "dealer" \in DOMAIN g
        PROVE  LET p == PostBlind(g, s, blind) IN p.dealer = dealer /\ "dealer" \in DOMAIN p
    <2>1. \A n : LET p == SetMySet(g, s, n) IN p.dealer = dealer /\ "dealer" \in DOMAIN p
      BY <1>4 DEF SetMySet
    <2> QED BY <2>1 DEF PostBlind
  <1>5. small.dealer = dealer /\ "dealer" \in DOMAIN small
    BY <1>3, <1>4
  <1> HIDE DEF small
  <1>6. big.dealer = dealer /\ "dealer" \in DOMAIN big
    BY <1>4, <1>5
  <1> HIDE DEF big
  <1> QED BY <1>2, <1>6 DEF CollectSets

\* What the table is before and after it.
LEMMA NextHandTable ==
    ASSUME TInv, NetInv, TInv', NEW idle \in SUBSET Seats, NEW forced \in SUBSET Seats,
           NEW minutesUp \in BOOLEAN, NEW value \in Dealt, NEW order \in Orders,
           SNextHand(idle, forced, minutesUp, value, order)
    PROVE  /\ state = "WaitNextHand" /\ state' = "Hand" /\ game' /\ rejoin' = {}
           /\ hand \in HandType /\ hand' \in HandType /\ InSync(hand') /\ hand'.pot = 0
           /\ hand'.round = PREFLOP /\ hand'.dealer = Other(hand.dealer)
           /\ hands' = hands + 1 /\ ids' = NextIds /\ logins' = logins
           /\ Me \in forced => link'[Me] = "out"
           /\ Me \notin forced /\ link[Me] # "out" => link'[Me] # "out"
           /\ active'[Me] \in BOOLEAN
           /\ RunsOut'
  <1>1. /\ TimerNextHand(idle, forced, minutesUp, value) /\ value \in Deals
        /\ hands' = hands + 1 /\ logins' = logins /\ ids' = NextIds
    BY ClientAssumption DEF SNextHand, NextIds
  <1>2. /\ state = "WaitNextHand" /\ state' = "Hand" /\ game' /\ hand'.pot = 0
        /\ hand'.round = PREFLOP
    BY <1>1, TimerNextHandDeals
  <1>3. /\ hand \in HandType /\ hand' \in HandType /\ InSync(hand')
        /\ active' \in [Seats -> BOOLEAN] /\ blinds \in ScheduleType
    BY <1>2 DEF TInv, IInv, TypeOK, ChipsSound
  <1>4. hand'.dealer = Other(hand.dealer)
    <2>1. hand' = NewHand(hand, Other(hand.dealer), RaiseBlinds(blinds, minutesUp).small, value)
      BY <1>1 DEF TimerNextHand
    <2>2. Other(hand.dealer) \in Seats
      BY <1>3 DEF HandType, Other, Seats
    <2> QED BY <1>3, <2>1, <2>2, NewHandDealer
  <1>5. /\ Runs("NextHand") /\ SetState("Hand") /\ rejoin' = {} /\ forced \subseteq idle
        /\ idle \cap rejoin = {}
        /\ link' = [s \in Seats |-> IF s \in rejoin THEN "in"
                                    ELSE IF s \in forced THEN "out" ELSE link[s]]
    BY <1>1 DEF TimerNextHand
  <1>6. /\ Me \in forced => link'[Me] = "out"
        /\ Me \notin forced /\ link[Me] # "out" => link'[Me] # "out"
    BY <1>5, MeAndYou
  <1>7. RunsOut'
    <2>1. "NextHand" \in Handlers
      BY DEF Handlers
    <2>2. ready' = << >>
      BY <1>5, <2>1, RunsLast DEF TInv, IInv
    <2>3. timer' # "ShowCards"
      BY <1>5 DEF SetState
    <2>4. ~\E i \in 1..Len(ready') : TRUE
      BY <2>2
    <2> QED BY <1>2, <2>3, <2>4 DEF RunsOut
  <1> QED BY <1>1, <1>2, <1>3, <1>4, <1>5, <1>6, <1>7, MeAndYou

\* What is sent at the start of a hand.
LEMMA NewHandParts ==
    ASSUME hand' \in HandType, hands' \in Nat, ids' \in [Seats -> Nat],
           active'[Me] \in BOOLEAN
    PROVE  /\ <<HandStart(hand', hands', active'[Me])>> \in Seq(Messages)
           /\ BlindsPaid(hand', ids') \in Seq(Messages)
  <1>1. PICK g \in HandType, gen \in [Seats -> Nat], number \in Nat, on \in BOOLEAN :
           g = hand' /\ gen = ids' /\ number = hands' /\ on = active'[Me]
    OBVIOUS
  <1> DEFINE m == HandStart(g, number, on)
             m1 == ActionDone(g, SmallBlindSeat(g), gen[SmallBlindSeat(g)], "small")
             m2 == ActionDone(g, BigBlindSeat(g), gen[BigBlindSeat(g)], "big")
  <1>2. SmallBlindSeat(g) \in Seats /\ BigBlindSeat(g) \in Seats
    BY DEF SmallBlindSeat, BigBlindSeat, Other, HandType, Seats
  <1>3. m \in Messages /\ m1 \in Messages /\ m2 \in Messages
    BY <1>2, HandMessages, MeAndYou
  <1>4. <<HandStart(g, number, on)>> = <<m>> /\ BlindsPaid(g, gen) = <<m1, m2>>
    BY DEF BlindsPaid
  <1> HIDE DEF m, m1, m2
  <1>5. <<m>> \in Seq(Messages) /\ <<m1, m2>> \in Seq(Messages)
    BY <1>3
  <1> QED BY <1>1, <1>4, <1>5

LEMMA NewHandMessages ==
    ASSUME hand' \in HandType, hands' \in Nat, ids' \in [Seats -> Nat],
           active'[Me] \in BOOLEAN
    PROVE  <<HandStart(hand', hands', active'[Me])>> \o BlindsPaid(hand', ids')
              \in Seq(Messages)
  <1> DEFINE ms == <<HandStart(hand', hands', active'[Me])>>
             ns == BlindsPaid(hand', ids')
  <1>1. ms \in Seq(Messages) /\ ns \in Seq(Messages)
    BY NewHandParts
  <1> HIDE DEF ms, ns
  <1>2. ms \o ns \in Seq(Messages)
    BY <1>1
  <1> QED BY <1>2 DEF ms, ns

\* Everything the client gets for it: it waits for the hand, if it has a game or
\* comes back to it, and then shows the new one.
LEMMA NextHandViewed ==
    ASSUME NetTypeOK, Me \notin rejoin', game', state' = "Hand", state = "WaitNextHand",
           hand \in HandType, hand' \in HandType, InSync(hand'), hand'.pot = 0,
           hand'.round = PREFLOP, hand'.dealer = Other(hand.dealer),
           hands' = hands + 1, ids' = NextIds, link'[Me] # "out", active'[Me] \in BOOLEAN,
           NEW order \in Orders, {order[i] : i \in 1..Len(order)} = rejoin,
           NEW exact \in BOOLEAN, NEW v, NEW e, NEW w, NEW x, IsCurrent(v),
           Ends(exact, v, e, Rejoined(order)
                   \o (<<HandStart(hand', hands', active'[Me])>> \o BlindsPaid(hand', ids')), w, x)
    PROVE  IsCurrent(w)' /\ (exact => IsExact(w, x)')
  <1> DEFINE ms == Rejoined(order)
             ns == <<HandStart(hand', hands', active'[Me])>> \o BlindsPaid(hand', ids')
             next == Other(hand.dealer)
  <1>1. ms \in Seq(Messages)
    BY RejoinedSeen
  <1>2. hands \in Nat /\ NextIds \in [Seats -> Nat]
    BY IdsAfterAll DEF NetTypeOK
  <1>3. ns \in Seq(Messages)
    BY <1>2, NewHandMessages
  <1>4. v.state = "NoTable" \/ (Me \notin rejoin /\ Waits(v, ids, next, hands))
    BY DEF IsCurrent, Playing, Waits
  <1>5. Ends(exact, v, e, ms \o ns, w, x)
    OBVIOUS
  <1> HIDE DEF ms, ns
  <1>6. PICK u, y : Ends(exact, v, e, ms, u, y) /\ Ends(exact, u, y, ns, w, x)
    BY <1>1, <1>3, <1>5, EndsBoth
  <1>7. u.state = "NoTable" \/ Waits(u, NextIds, next, hands)
    BY <1>4, <1>6, RejoinedSeen DEF ms
  <1>8. \/ w.state = "NoTable"
        \/ ShowsAll(exact, w, x, NextIds, Other(hand'.dealer), hands + 1, hand')
    <2>1. PICK g \in HandType : g = hand'
      OBVIOUS
    <2>2. /\ InSync(g) /\ g.pot = 0 /\ g.round = PREFLOP /\ g.dealer = next
      BY <2>1
    <2>3. Ends(exact, u, y, <<HandStart(g, hands + 1, active'[Me])>> \o BlindsPaid(g, NextIds), w, x)
      BY <1>6, <2>1 DEF ns
    <2>4. u.state = "NoTable" \/ Waits(u, NextIds, g.dealer, hands)
      BY <1>7, <2>2
    <2>5. \/ w.state = "NoTable"
          \/ ShowsAll(exact, w, x, NextIds, Other(g.dealer), hands + 1, g)
      BY <1>2, <2>2, <2>3, <2>4, NewHandSeen
    <2> QED BY <2>1, <2>5
  <1>9. CASE w.state = "NoTable"
    BY <1>9 DEF IsCurrent, IsExact
  <1>10. CASE ShowsAll(exact, w, x, NextIds, Other(hand'.dealer), hands + 1, hand')
    BY <1>10 DEF ShowsAll, IsCurrent, IsExact, Playing, Running
  <1> QED BY <1>8, <1>9, <1>10


LEMMA SNextHandKeeps ==
    ASSUME TInv, NetInv, TInv', NEW idle \in SUBSET Seats, NEW forced \in SUBSET Seats,
           NEW minutesUp \in BOOLEAN, NEW value \in Dealt, NEW order \in Orders,
           SNextHand(idle, forced, minutesUp, value, order)
    PROVE  NetInv'
  <1> DEFINE start == <<HandStart(hand', hands', active'[Me])>>
             blinds2 == BlindsPaid(hand', ids')
             ms == Rejoined(order) \o (start \o blinds2)
  <1>1. /\ state = "WaitNextHand" /\ state' = "Hand" /\ game' /\ rejoin' = {}
        /\ hand \in HandType /\ hand' \in HandType /\ InSync(hand') /\ hand'.pot = 0
        /\ hand'.round = PREFLOP /\ hand'.dealer = Other(hand.dealer)
        /\ hands' = hands + 1 /\ ids' = NextIds /\ logins' = logins
        /\ Me \in forced => link'[Me] = "out"
        /\ Me \notin forced /\ link[Me] # "out" => link'[Me] # "out"
        /\ active'[Me] \in BOOLEAN
        /\ RunsOut'
    BY NextHandTable
  <1>2. /\ NetTypeOK /\ AllCurrent /\ AllExact
        /\ {order[i] : i \in 1..Len(order)} = rejoin
        /\ IF Me \in forced THEN Disconnect
           ELSE Send(Rejoined(order) \o start \o blinds2)
    BY DEF NetInv, SNextHand
  <1>3. hands' \in Nat /\ ids' \in [Seats -> Nat] /\ logins' \in [Seats -> Nat]
    BY <1>1, <1>2, IdsAfterAll DEF NetTypeOK
  <1>4. CASE Me \in forced
    <2>1. Disconnect
      BY <1>2, <1>4
    <2>2. /\ AllCurrent' /\ AllExact'
          /\ down' \in Seq(Messages) /\ up' \in Seq(RequestType)
          /\ client' \in ClientType /\ buttons' \in ButtonsType /\ UNCHANGED astray
      BY <1>2, <2>1, DisconnectKeeps
    <2>3. NetTypeOK' /\ Present'
      BY <1>1, <1>2, <1>3, <1>4, <2>2 DEF NetTypeOK, Present
    <2> QED BY <1>1, <2>2, <2>3 DEF NetInv
  <1>5. CASE Me \notin forced
    <2>1. Rejoined(order) \in Seq(Messages) /\ start \o blinds2 \in Seq(Messages)
      BY <1>1, <1>2, <1>3, RejoinedSeen, NewHandMessages
    <2>2. ms \in Seq(Messages) /\ Send(ms)
      <3>1. start \in Seq(Messages) /\ blinds2 \in Seq(Messages)
        BY <1>1, <1>3, NewHandParts
      <3>2. Send(Rejoined(order) \o start \o blinds2)
        BY <1>2, <1>5
      <3>3. (Rejoined(order) \o start) \o blinds2 = Rejoined(order) \o (start \o blinds2)
        <4> HIDE DEF start, blinds2
        <4> QED BY <2>1, <3>1, ConcatAssociative
      <3>4. ms \in Seq(Messages)
        <4> HIDE DEF start, blinds2
        <4> QED BY <2>1
      <3> QED BY <3>2, <3>3, <3>4
    <2>3. ASSUME link[Me] # "out", NEW exact \in BOOLEAN, NEW v, NEW e, NEW w, NEW x,
                 IsCurrent(v), Ends(exact, v, e, ms, w, x)
          PROVE  IsCurrent(w)' /\ (exact => IsExact(w, x)')
      BY <1>1, <1>2, <1>5, <2>3, NextHandViewed
    <2> HIDE DEF ms
    <2>4. /\ AllCurrent' /\ AllExact' /\ down' \in Seq(Messages)
          /\ UNCHANGED <<up, client, buttons, astray>>
      BY <1>2, <2>2, <2>3, SendKeeps
    <2>5. Present'
      <3>1. client.state = "Closed" => link[Me] = "out"
        BY DEF NetInv, Present
      <3>2. link[Me] = "out" /\ Me \in rejoin => FALSE
        BY DEF NetInv, Present
      <3>3. link[Me] = "out" /\ Me \notin rejoin => link'[Me] = "out"
        BY MeAndYou DEF SNextHand, TimerNextHand
      <3> QED BY <1>1, <2>4, <3>1, <3>2, <3>3 DEF Present
    <2>6. NetTypeOK'
      BY <1>2, <1>3, <2>4 DEF NetTypeOK
    <2> QED BY <1>1, <2>4, <2>5, <2>6 DEF NetInv
  <1> QED BY <1>4, <1>5


(***************************************************************************)
(* The invariant is inductive                                              *)
(***************************************************************************)

LEMMA ServerStepKeeps ==
    ASSUME ClientInv, ServerStep
    PROVE  NetInv'
  <1>1. TInv /\ NetInv /\ TInv' /\ TypeOK
    BY ServerStepTable DEF ClientInv, TInv, IInv
  <1>2. CASE SLoop \/ SShowCards \/ SNextGame \/ STimeout \/ SRequest \/ SResetTimeout
               \/ SQuiet \/ SUnknown
    BY <1>1, <1>2, SLoopKeeps, SShowCardsKeeps, SNextGameKeeps, STimeoutKeeps, SRequestKeeps,
       SResetTimeoutKeeps, SQuietKeeps, SUnknownKeeps
  <1>3. ASSUME NEW idle \in SUBSET Seats, NEW forced \in SUBSET Seats,
               NEW minutesUp \in BOOLEAN, NEW value \in Dealt, NEW order \in Orders,
               SNextHand(idle, forced, minutesUp, value, order)
        PROVE  NetInv'
    BY <1>1, <1>3, SNextHandKeeps
  <1>4. ASSUME NEW action \in Actions, NEW bet \in 0..MaxBet,
               SOtherActs(hand.round, action, bet)
        PROVE  NetInv'
    BY <1>1, <1>4, SOtherActsKeeps
  <1>5. ASSUME NEW s \in Seats, NEW b \in BOOLEAN, SLeave(s, b) \/ SRejoin(s, b)
        PROVE  NetInv'
    BY <1>1, <1>5, SLeaveKeeps, SRejoinKeeps
  <1> QED BY <1>2, <1>3, <1>4, <1>5 DEF ServerStep, Orders

LEMMA NextKeeps == ClientInv /\ [ClientNext]_allVars => ClientInv'
  <1> SUFFICES ASSUME ClientInv, [ClientNext]_allVars PROVE ClientInv'
    OBVIOUS
  <1>1. CASE ServerStep
    BY <1>1, ServerStepTable, ServerStepKeeps DEF ClientInv
  <1>2. CASE ClientStep \/ UserStep
    BY <1>2, ClientSideKeeps
  <1>3. CASE UNCHANGED allVars
    <2>1. UNCHANGED vars /\ UNCHANGED net /\ KeepIds
      BY <1>3 DEF allVars, net, KeepIds
    <2>2. TInv' /\ RunsOut' /\ TInv /\ NetInv
      BY <2>1, ServerUnchanged DEF ClientInv, NetInv
    <2>3. NetInv'
      BY <2>1, <2>2, QuietNet DEF vars
    <2> QED BY <2>2, <2>3 DEF ClientInv
  <1> QED BY <1>1, <1>2, <1>3 DEF ClientNext, Over


(***************************************************************************)
(* The initial states                                                      *)
(***************************************************************************)

\* The table when the game starts.
LEMMA InitTable ==
    ASSUME ClientInit
    PROVE  /\ TInv /\ state = "Hand" /\ game /\ rejoin = {} /\ link[Me] = "in"
           /\ hand \in HandType /\ InSync(hand) /\ hand.pot = 0 /\ hand.round = PREFLOP
           /\ RunsOut
  <1>1. /\ Init /\ TInv
        /\ state = "Hand" /\ game = TRUE /\ rejoin = {} /\ ready = << >> /\ timer = "Loop"
        /\ link = [s \in Seats |-> "in"]
    BY InitSound, InitHandlers, InitEngine DEF ClientInit, Init, TInv
  <1>2. hand \in HandType /\ InSync(hand)
    BY <1>1 DEF TInv, IInv, TypeOK, ChipsSound
  <1>3. PICK dealer \in Seats, value \in Deals :
           hand = NewHand(EmptyHand(StartCash), dealer, FirstSmallBlind, value)
    BY <1>1 DEF Init
  <1>4. hand.pot = 0
    BY <1>3, FirstHand
  <1>5. hand.round = PREFLOP
    <2>1. value \in [Seats -> CardValues] /\ StartCash \in Nat /\ FirstSmallBlind \in Nat
      BY SettingsAssumption DEF Deals
    <2>2. /\ EmptyHand(StartCash) \in HandType /\ NoBets(EmptyHand(StartCash))
          /\ EmptyHand(StartCash).pot = 0
      BY <2>1, EmptyHandType
    <2> QED BY <1>3, <2>1, <2>2, NewHandDeals
  <1>6. RunsOut
    <2>1. ~\E i \in 1..Len(ready) : TRUE
      BY <1>1
    <2> QED BY <1>1, <2>1 DEF RunsOut
  <1> QED BY <1>1, <1>2, <1>4, <1>5, <1>6, MeAndYou

\* What is on its way to the client then.
LEMMA InitMessages ==
    ASSUME ClientInit, hand \in HandType
    PROVE  LET m == GameStartInitial(hand.dealer)
               ns == <<HandStart(hand, 1, TRUE)>> \o BlindsPaid(hand, ids)
           IN /\ m \in Messages /\ m.type = "GameStartInitial" /\ m.dealer = <<hand.dealer, 0>>
              /\ ns \in Seq(Messages) /\ <<m>> \in Seq(Messages)
              /\ down = <<m>> \o ns /\ down \in Seq(Messages)
  <1> DEFINE m == GameStartInitial(hand.dealer)
             n == HandStart(hand, 1, TRUE)
             a == SmallBlindSeat(hand)
             b == BigBlindSeat(hand)
             m1 == ActionDone(hand, a, ids[a], "small")
             m2 == ActionDone(hand, b, ids[b], "big")
  <1>1. a \in Seats /\ b \in Seats /\ ids \in [Seats -> Nat] /\ 1 \in Nat
    BY DEF SmallBlindSeat, BigBlindSeat, Other, HandType, Seats, ClientInit
  <1>2. n \in Messages /\ m1 \in Messages /\ m2 \in Messages
    <2> HIDE DEF a, b
    <2> QED BY <1>1, HandMessages
  <1>3. m \in Messages /\ m.type = "GameStartInitial" /\ m.dealer = <<hand.dealer, 0>>
    <2>1. <<hand.dealer, 0>> \in Seats \X Nat
      BY DEF HandType
    <2> QED BY <2>1 DEF GameStartInitial, Messages, StartMessages
  <1>4. BlindsPaid(hand, ids) = <<m1, m2>> /\ down = <<m, n>> \o BlindsPaid(hand, ids)
    BY DEF BlindsPaid, ClientInit
  <1> HIDE DEF m, n, m1, m2
  <1>5. <<m>> \in Seq(Messages) /\ <<n>> \in Seq(Messages) /\ <<m1, m2>> \in Seq(Messages)
    BY <1>2, <1>3
  <1>6. <<m, n>> \o <<m1, m2>> = <<m>> \o (<<n>> \o <<m1, m2>>)
    <2>1. <<m, n>> = <<m>> \o <<n>>
      BY <1>2, <1>3, TwoMessages
    <2> QED BY <1>5, <2>1, ConcatAssociative
  <1>7. <<n>> \o <<m1, m2>> \in Seq(Messages)
    BY <1>5
  <1>8. <<m>> \o (<<n>> \o <<m1, m2>>) \in Seq(Messages)
    BY <1>5, <1>7
  <1>9. /\ m \in Messages /\ m.type = "GameStartInitial" /\ m.dealer = <<hand.dealer, 0>>
        /\ <<n>> \o BlindsPaid(hand, ids) \in Seq(Messages) /\ <<m>> \in Seq(Messages)
        /\ down = <<m>> \o (<<n>> \o BlindsPaid(hand, ids)) /\ down \in Seq(Messages)
    BY <1>3, <1>4, <1>5, <1>6, <1>7, <1>8
  <1> QED BY <1>9 DEF m, n

\* The start of a game makes a client that was told to start wait for its first
\* hand.
LEMMA InitSeen ==
    ASSUME NEW v, v.state = "NoTable", NEW m, NEW w, m.type = "GameStartInitial",
           NEW dealer \in Seats, m.dealer = <<dealer, 0>>, Sees(v, m, w)
    PROVE  w.state = "NoTable" \/ Waits(w, [s \in Seats |-> 0], dealer, 0)
  <1>1. w = v \/ Opens(m, w)
    BY ExpectedTypes DEF Sees
  <1>2. Opens(m, w) => Fresh(w, [s \in Seats |-> 0], <<dealer, 0>>, 0)
    BY DEF Opens
  <1> QED BY <1>1, <1>2 DEF Fresh, Waits, HasIds

LEMMA InitNet == ClientInit => ClientInv
  <1> SUFFICES ASSUME ClientInit PROVE ClientInv
    OBVIOUS
  <1> DEFINE m == GameStartInitial(hand.dealer)
             ns == <<HandStart(hand, 1, TRUE)>> \o BlindsPaid(hand, ids)
  <1>1. /\ TInv /\ state = "Hand" /\ game /\ rejoin = {} /\ link[Me] = "in"
        /\ hand \in HandType /\ InSync(hand) /\ hand.pot = 0 /\ hand.round = PREFLOP
        /\ RunsOut
    BY InitTable
  <1>2. /\ m \in Messages /\ m.type = "GameStartInitial" /\ m.dealer = <<hand.dealer, 0>>
        /\ ns \in Seq(Messages) /\ <<m>> \in Seq(Messages)
        /\ down = <<m>> \o ns /\ down \in Seq(Messages)
    BY <1>1, InitMessages
  <1>3. /\ hands = 1 /\ ids = [s \in Seats |-> 0] /\ logins = [s \in Seats |-> 0]
        /\ up = << >> /\ astray = 0 /\ buttons = BlankButtons
        /\ \E cstate \in {"Synchronize", "WaitStart"} : client = NoTable(cstate)
    BY DEF ClientInit
  <1>4. client \in ClientType /\ client.state \in {"Synchronize", "WaitStart"}
    <2>1. PICK cstate \in {"Synchronize", "WaitStart"} : client = NoTable(cstate)
      BY <1>3
    <2>2. cstate \in ClientStates
      BY DEF ClientStates
    <2> QED BY <2>1, <2>2, NoTableType
  <1>5. NetTypeOK
    <2> HIDE DEF m, ns
    <2>1. /\ hands \in Nat /\ astray \in Nat /\ up \in Seq(RequestType)
          /\ ids \in [Seats -> Nat] /\ logins \in [Seats -> Nat]
      BY <1>3
    <2>2. buttons \in ButtonsType
      BY <1>3, BlankType
    <2> QED BY <1>2, <1>4, <2>1, <2>2 DEF NetTypeOK
  <1>6. View(client).state = "NoTable"
    BY <1>4, ViewFields
  <1> HIDE DEF m
  <1>7. ASSUME NEW exact \in BOOLEAN, NEW e, NEW w, NEW x,
               Ends(exact, View(client), e, down, w, x)
        PROVE  IsCurrent(w) /\ (exact => IsExact(w, x))
    <2>1. PICK u, y : /\ Ends(exact, View(client), e, <<m>>, u, y)
                      /\ Ends(exact, u, y, ns, w, x)
      <3> HIDE DEF ns
      <3> QED BY <1>2, <1>7, EndsBoth
    <2>2. Sees(View(client), m, u)
      BY <1>2, <2>1, EndsOne
    <2>3. hand.dealer \in Seats /\ ids \in [Seats -> Nat] /\ 0 \in Nat /\ 0 + 1 = 1
      BY <1>1, <1>3 DEF HandType
    <2>4. u.state = "NoTable" \/ Waits(u, ids, hand.dealer, 0)
      BY <1>2, <1>3, <1>6, <2>2, <2>3, InitSeen
    <2>5. \/ w.state = "NoTable"
          \/ ShowsAll(exact, w, x, ids, Other(hand.dealer), 1, hand)
      <3>1. PICK g \in HandType, on \in BOOLEAN : g = hand /\ on = TRUE
        BY <1>1
      <3>2. InSync(g) /\ g.pot = 0 /\ g.round = PREFLOP /\ g.dealer = hand.dealer
        BY <1>1, <3>1
      <3>3. Ends(exact, u, y, <<HandStart(g, 0 + 1, on)>> \o BlindsPaid(g, ids), w, x)
        BY <2>1, <2>3, <3>1
      <3>4. u.state = "NoTable" \/ Waits(u, ids, g.dealer, 0)
        BY <2>4, <3>1
      <3>5. \/ w.state = "NoTable"
            \/ ShowsAll(exact, w, x, ids, Other(g.dealer), 0 + 1, g)
        BY <2>3, <3>2, <3>3, <3>4, NewHandSeen
      <3> QED BY <2>3, <3>1, <3>5
    <2>6. CASE w.state = "NoTable"
      BY <2>6 DEF IsCurrent, IsExact
    <2>7. CASE ShowsAll(exact, w, x, ids, Other(hand.dealer), 1, hand)
      BY <1>1, <1>3, <2>7 DEF ShowsAll, IsCurrent, IsExact, Playing, Running
    <2> QED BY <2>5, <2>6, <2>7
  <1>8. AllCurrent /\ AllExact
    BY <1>7 DEF AllCurrent, AllExact
  <1>9. Present
    BY <1>1, <1>4 DEF Present
  <1> QED BY <1>1, <1>5, <1>8, <1>9 DEF ClientInv, NetInv

LEMMA ClientInvHolds == ClientSpec => []ClientInv
  BY InitNet, NextKeeps, PTL DEF ClientSpec

(***************************************************************************)
(* The theorems                                                            *)
(***************************************************************************)


\* A client that has thrown stays thrown, whatever is still on its way: its view
\* would not become current.
LEMMA InvNeverThrows == ClientInv => ClientNeverThrows
  <1> SUFFICES ASSUME ClientInv, client.state = "Thrown" PROVE FALSE
    BY DEF ClientNeverThrows
  <1>1. client \in ClientType /\ down \in Seq(Messages) /\ AllCurrent
    BY DEF ClientInv, NetInv, NetTypeOK
  <1>2. View(client).state = "Thrown"
    BY <1>1, ViewFields
  <1>3. Ends(FALSE, View(client), Mine(client), down, View(client), Mine(client))
    BY <1>1, <1>2, ThrownStays
  <1>4. IsCurrent(View(client))
    BY <1>1, <1>3 DEF AllCurrent
  <1> QED BY <1>2, <1>4 DEF IsCurrent

\* Whatever the server sends, and however late it comes, the client finds what it
\* is about: none of the exceptions that would throw the player out is reached.
THEOREM ClientIsSafe == ClientSpec => []ClientNeverThrows
  BY ClientInvHolds, InvNeverThrows, PTL

\* A client with nothing left to take shows the server's table; what a click
\* changes is the server's too, unless one of its requests went astray.
LEMMA InvAskedSees == ClientInv => AskedSeesTheTable
  <1> SUFFICES ASSUME ClientInv, WaitsForMe
               PROVE  /\ client.state = "RunHand"
                      /\ client.cash = hand.cash
                      /\ client.set = hand.set
                      /\ client.pot = hand.pot
                      /\ client.highestSet = hand.highestSet
                      /\ client.round = hand.round
                      /\ client.smallBlind = hand.smallBlind
                      /\ hand.highestSet > 0 => client.minimumRaise = hand.minimumRaise
    BY DEF AskedSeesTheTable
  <1>1. /\ client \in ClientType /\ hand \in HandType
        /\ down = << >> /\ up = << >> /\ astray # hands
        /\ state = "WaitPlayerAction" /\ hand.turn = Me /\ link[Me] = "in"
        /\ client.state \notin {"WaitGame", "Synchronize", "WaitStart"}
    BY DEF ClientInv, TInv, IInv, TypeOK, NetInv, NetTypeOK, WaitsForMe
  <1>2. game /\ ~hand.allIn
    BY <1>1 DEF ClientInv, TInv, IInv, EInv, Decides
  <1>3. client.state # "Closed"
    BY <1>1 DEF ClientInv, NetInv, Present
  <1>4. View(client) = TableView(client) /\ View(client).state = client.state
    BY <1>1, <1>3 DEF View, HasTable, TableView
  <1>5. \A exact \in BOOLEAN :
           Ends(exact, View(client), Mine(client), down, View(client), Mine(client))
    BY <1>1, EndsEmpty
  <1>6. IsCurrent(View(client)) /\ IsExact(View(client), Mine(client))
    BY <1>1, <1>5 DEF ClientInv, NetInv, AllCurrent, AllExact
  <1>7. View(client).state # "NoTable"
    BY <1>1, <1>4 DEF ClientType, ClientStates
  <1>8. /\ client.state = "RunHand" /\ ShowsHand(TableView(client), hand)
        /\ client.round = hand.round /\ ShowsMine(TableView(client), Mine(client), hand)
    BY <1>1, <1>2, <1>4, <1>6, <1>7 DEF IsCurrent, IsExact, Playing, TableView
  <1>9. /\ client.set = hand.set /\ client.pot = hand.pot
        /\ client.cash[You] = hand.cash[You] /\ client.smallBlind = hand.smallBlind
    BY <1>8 DEF ShowsHand, TableView
  <1>10. /\ client.cash[Me] = hand.cash[Me] /\ client.highestSet = hand.highestSet
         /\ hand.highestSet > 0 => client.minimumRaise = hand.minimumRaise
    BY <1>8 DEF ShowsMine, TableView, Mine
  <1>11. client.cash \in [Seats -> Int] /\ hand.cash \in [Seats -> Nat]
    BY <1>1 DEF ClientType, HandType
  <1>12. \A s \in Seats : client.cash[s] = hand.cash[s]
    BY <1>9, <1>10, MeAndYou
  <1>13. client.cash = hand.cash
    BY <1>11, <1>12
  <1> QED BY <1>8, <1>9, <1>10, <1>13

\* When a player is asked and his client has got everything, it is in the hand
\* and its copy of the table is the server's.
THEOREM AskedPlayerSees == ClientSpec => []AskedSeesTheTable
  BY ClientInvHolds, InvAskedSees, PTL

(***************************************************************************)
(* The buttons of a player who is asked                                    *)
(***************************************************************************)

\* Where a bet or a raise is allowed.
MayBet(t) == t.round # PREFLOP /\ t.highestSet = 0
MayRaise(t) ==
    /\ t.cash[Me] + t.set[Me] > t.highestSet
    /\ t.round = PREFLOP \/ t.highestSet > t.set[Me]

\* At least the least amount, of the slider or of the label, or all chips.
AmountFits(t, label) ==
    \/ label.amount >= LeastBet(t, label.text)
    \/ label.amount >= Min2(t.highestSet - t.set[Me] + t.minimumRaise, t.cash[Me])

BetFits(t, b) ==
    /\ b.bet.text \in {"", "Bet", "Raise"}
    /\ b.bet.text = "Bet" => MayBet(t)
    /\ b.bet.text = "Raise" => MayRaise(t)
    /\ b.bet.text # "" =>
          t.action[Me] # "allin" /\ b.raising = {b.bet.text} /\ AmountFits(t, b.bet)

\* What the buttons that act when they are clicked offer fits the client's table.
OfferFits(t, b) ==
    /\ b.call.text = "Check" /\ ~b.checkable => CheckIsFree(t)
    /\ ~b.betCheckable => BetFits(t, b)

\* Only the labels matter, and which buttons are only ticked.
SameLabels(b, c) ==
    /\ c.call = b.call /\ c.bet = b.bet /\ c.raising = b.raising
    /\ c.checkable = b.checkable /\ c.betCheckable = b.betCheckable

LEMMA SameOffer ==
    ASSUME NEW t, NEW b, NEW c, OfferFits(t, b), SameLabels(b, c)
    PROVE  OfferFits(t, c)
  BY DEF OfferFits, BetFits, SameLabels

LEMMA LabelFields ==
    ASSUME NEW text, NEW n
    PROVE  Label(text, n).text = text /\ Label(text, n).amount = n
  BY DEF Label

\* The label of the bet button, when the call is not that after new cards.
LEMMA BetLabelFits ==
    ASSUME NEW t, NEW b, NEW mode, mode # 0
    PROVE  LET label == BetLabel(t, b, mode)
           IN /\ label.text \in {"", "Bet", "Raise"}
              /\ label.text = "Bet" => MayBet(t)
              /\ label.text = "Raise" => MayRaise(t)
              /\ label.text # "" => label.amount = GetMyBetAmount(t, b)
  <1> DEFINE label == BetLabel(t, b, mode)
             own == GetMyBetAmount(t, b)
  <1> HIDE DEF own
  <1>1. \/ label = Label("", 0)
        \/ label = Label("Bet", own) /\ MayBet(t)
        \/ label = Label("Raise", own) /\ MayRaise(t)
    BY DEF BetLabel, Blank, CanRaise, own, MayBet, MayRaise
  <1> HIDE DEF label
  <1>2. /\ Label("", 0).text = "" /\ Label("Bet", own).text = "Bet"
        /\ Label("Raise", own).text = "Raise"
        /\ Label("Bet", own).amount = own /\ Label("Raise", own).amount = own
    BY LabelFields
  <1> QED BY <1>1, <1>2 DEF label, own

\* The call button says "Check" when that is free.
LEMMA CallLabelFits ==
    ASSUME NEW t, NEW mode, mode # 0, CallLabel(t, mode).text = "Check"
    PROVE  CheckIsFree(t)
  <1> DEFINE n == GetMyCallAmount(t)
             label == CallLabel(t, mode)
  <1> HIDE DEF n
  <1>1. CheckIsFree(t) \/ label = Label("Call", n) \/ label = Label("", 0)
    BY DEF CallLabel, Blank, n
  <1> HIDE DEF label
  <1>2. Label("Call", n).text = "Call" /\ Label("", 0).text = ""
    BY LabelFields
  <1>3. label.text = "Check"
    BY DEF label
  <1> QED BY <1>1, <1>2, <1>3

\* The amount on the bet button is not below the least one.
LEMMA OwnAmountFits ==
    ASSUME NEW t \in ClientType, NEW b \in ButtonsType
    PROVE  GetMyBetAmount(t, b)
              >= Min2(t.highestSet - t.set[Me] + t.minimumRaise, t.cash[Me])
  <1>1. /\ t.cash[Me] \in Int /\ t.set[Me] \in Int /\ t.highestSet \in Int
        /\ t.minimumRaise \in Int /\ b.bet.amount \in Int
    BY MeAssumption DEF ClientType, ButtonsType, LabelType
  <1> QED BY <1>1 DEF GetMyBetAmount, Min2

LEMMA IntervalLow ==
    ASSUME NEW low \in Int, NEW high \in Int, NEW n \in low..high
    PROVE  n >= low
  OBVIOUS

\* Nor are those the slider and the spin box may move it to.
LEMMA AmountsFit ==
    ASSUME NEW t \in ClientType, NEW b \in ButtonsType, NEW mode \in Int, mode # 0,
           NEW amount \in Amounts(t, BetLabel(t, b, mode)), BetLabel(t, b, mode).text # ""
    PROVE  AmountFits(t, Label(BetLabel(t, b, mode).text, amount))
  <1> DEFINE label == BetLabel(t, b, mode)
             own == GetMyBetAmount(t, b)
             least == Min2(t.highestSet - t.set[Me] + t.minimumRaise, t.cash[Me])
             new == Label(label.text, amount)
  <1>1. label.amount = own /\ label \in LabelType /\ own >= least
    BY BetLabelFits, LabelsType, OwnAmountFits
  <1>2. own \in Int
    BY <1>1 DEF LabelType
  <1>3. amount \in Amounts(t, label) /\ label.text # ""
    OBVIOUS
  <1>4. new.text = label.text /\ new.amount = amount
    BY LabelFields
  <1> HIDE DEF label, own, new
  <1>5. LeastBet(t, label.text) \in Int
    BY <1>1, LabelsType DEF LabelType
  <1>6. t.cash[Me] \in Int
    BY MeAssumption DEF ClientType
  <1>7. amount = label.amount \/ amount \in LeastBet(t, label.text)..t.cash[Me]
    BY <1>3 DEF Amounts
  <1>8. amount >= LeastBet(t, label.text) \/ amount >= least
    <2> DEFINE low == LeastBet(t, label.text)
               high == t.cash[Me]
    <2>1. low \in Int /\ high \in Int /\ (amount = label.amount \/ amount \in low..high)
      BY <1>5, <1>6, <1>7
    <2> HIDE DEF least, low, high
    <2>2. amount \in low..high => amount >= low
      BY <2>1, IntervalLow
    <2>3. amount = label.amount => amount >= least
      <3>1. label.amount = own /\ own >= least /\ own \in Int
        BY <1>1, <1>2
      <3> QED BY <3>1
    <2>4. amount >= low \/ amount >= least
      BY <2>1, <2>2, <2>3
    <2> QED BY <2>4 DEF low
  <1>9. AmountFits(t, new)
    BY <1>4, <1>8 DEF AmountFits
  <1> QED BY <1>9 DEF new, label

\* The labels are painted for the client's table; the mode is not that of a call
\* after new cards.
LEMMA LabelsFit ==
    ASSUME NEW t \in ClientType, NEW b \in ButtonsType, NEW mode \in Int, mode # 0,
           t.action[Me] # "allin", NEW c, NEW amount \in Amounts(t, BetLabel(t, b, mode)),
           c.call = CallLabel(t, mode), c.bet = Label(BetLabel(t, b, mode).text, amount),
           c.raising = {BetLabel(t, b, mode).text} \ {""}
    PROVE  OfferFits(t, c)
  <1> DEFINE label == BetLabel(t, b, mode)
  <1>1. c.bet.text = label.text
    <2>1. c.bet = Label(label.text, amount)
      OBVIOUS
    <2>2. Label(label.text, amount).text = label.text
      BY LabelFields
    <2> HIDE DEF label
    <2> QED BY <2>1, <2>2
  <1>2. label.text # "" => AmountFits(t, c.bet)
    <2>1. label.text # "" => AmountFits(t, Label(label.text, amount))
      BY AmountsFit
    <2>2. c.bet = Label(label.text, amount)
      OBVIOUS
    <2> HIDE DEF label
    <2> QED BY <2>1, <2>2
  <1>3. /\ label.text \in {"", "Bet", "Raise"}
        /\ label.text = "Bet" => MayBet(t)
        /\ label.text = "Raise" => MayRaise(t)
    BY BetLabelFits
  <1>4. c.raising = {label.text} \ {""}
    OBVIOUS
  <1> HIDE DEF label
  <1>5. BetFits(t, c)
    BY <1>1, <1>2, <1>3, <1>4 DEF BetFits
  <1>6. c.call.text = "Check" => CheckIsFree(t)
    BY CallLabelFits
  <1> QED BY <1>5, <1>6 DEF OfferFits

\* Blank buttons offer nothing.
LEMMA BlankFits ==
    ASSUME NEW t, NEW c, c.call = Blank, c.bet = Blank
    PROVE  OfferFits(t, c)
  <1>1. c.call.text = "" /\ c.bet.text = ""
    <2>1. Blank.text = ""
      BY LabelFields DEF Blank
    <2> QED BY <2>1
  <1> QED BY <1>1 DEF OfferFits, BetFits

\* Forgetting the ticks keeps the labels.
LEMMA ForgottenFits ==
    ASSUME NEW t, NEW c \in ButtonsType, OfferFits(t, c)
    PROVE  OfferFits(t, ForgetTicks(c))
  <1>1. SameLabels(c, ForgetTicks(c))
    BY DEF ForgetTicks, ButtonsType, SameLabels
  <1> QED BY <1>1, SameOffer

\* What is painted for a player who is asked fits.
LEMMA PaintedFits ==
    ASSUME NEW t \in ClientType, NEW b \in ButtonsType, b.raising = {},
           NEW mode \in Int, mode # 0, NEW c \in ProvideMyActions(t, b, mode)
    PROVE  OfferFits(t, c)
  <1> DEFINE call == CallLabel(t, mode)
             bet == BetLabel(t, b, mode)
             fold == FoldText(t, b, mode)
             allin == ~t.fullBetRule
             unwanted == \/ b.checked = "call" /\ call # b.call
                         \/ /\ b.checked = "bet" /\ bet.text # ""
                            /\ b.bet.amount < LeastBet(t, bet.text)
             e == IF unwanted THEN ForgetTicks(b) ELSE b
  <1>1. CASE NothingToDo(t, mode)
    <2> DEFINE f == MyButtonsCheckable(t, b, FALSE)
    <2>1. c = ClearMyButtons(f)
      BY <1>1 DEF ProvideMyActions
    <2>2. f \in ButtonsType
      BY HelpersType
    <2> HIDE DEF f
    <2>3. c.call = Blank /\ c.bet = Blank
      BY <2>1, <2>2 DEF ClearMyButtons, ButtonsType
    <2> QED BY <2>3, BlankFits
  <1>2. CASE ~NothingToDo(t, mode)
    <2>1. ProvideMyActions(t, b, mode) =
            {[e EXCEPT !.fold = fold, !.call = call, !.bet = Label(bet.text, amount),
                       !.allin = allin, !.raising = @ \cup ({bet.text} \ {""})]
               : amount \in Amounts(t, bet)}
      BY <1>2 DEF ProvideMyActions
    <2>2. e \in ButtonsType /\ e.raising = {}
      <3>1. ForgetTicks(b) \in ButtonsType /\ ForgetTicks(b).raising = b.raising
        BY HelpersType DEF ForgetTicks, ButtonsType
      <3> QED BY <3>1
    <2> HIDE DEF e, call, bet, fold, allin
    <2>3. PICK amount \in Amounts(t, bet) :
             c = [e EXCEPT !.fold = fold, !.call = call, !.bet = Label(bet.text, amount),
                           !.allin = allin, !.raising = @ \cup ({bet.text} \ {""})]
      BY <2>1
    <2>4. /\ c.call = call /\ c.bet = Label(bet.text, amount)
          /\ c.raising = {bet.text} \ {""}
      BY <2>2, <2>3 DEF ButtonsType
    <2>5. t.action[Me] # "allin"
      BY <1>2 DEF NothingToDo
    <2> QED BY <2>4, <2>5, LabelsFit DEF call, bet
  <1> QED BY <1>1, <1>2

LEMMA AskedFits ==
    ASSUME NEW t \in ClientType, NEW b \in ButtonsType, NEW c \in Asked(t, b)
    PROVE  OfferFits(t, ForgetTicks(c))
  <1> DEFINE d == [MyButtonsCheckable(t, b, FALSE) EXCEPT !.raising = {}, !.repaint = "past"]
  <1>1. d \in ButtonsType /\ d.raising = {}
    <2>1. MyButtonsCheckable(t, b, FALSE) \in ButtonsType
      BY HelpersType
    <2> HIDE DEF MyButtonsCheckable
    <2> QED BY <2>1 DEF ButtonsType
  <1>2. PICK mode \in Int : mode # 0 /\ c \in ProvideMyActions(t, d, mode)
    <2>1. c \in ProvideMyActions(t, d, -1)
      BY DEF Asked
    <2>2. -1 \in Int /\ -1 # 0
      OBVIOUS
    <2> QED BY <2>1, <2>2
  <1> HIDE DEF d
  <1>3. OfferFits(t, c) /\ c \in ButtonsType
    BY <1>1, <1>2, PaintedFits, PaintedType
  <1> QED BY <1>3, ForgottenFits

\* The cards of a round are turned up, if need be after the player was asked: then
\* his buttons are only ticked.  The full bet rule would leave the bet button as
\* it is.
LEMMA DealtFits ==
    ASSUME NEW t \in ClientType, NEW b \in ButtonsType, ~t.fullBetRule, OfferFits(t, b),
           NEW c \in DealCardsEnd(t, b)
    PROVE  OfferFits(t, c)
  <1> DEFINE done == [b EXCEPT !.deals = @ - 1]
             d == [done EXCEPT !.repaint = IF @ = "due" THEN @ ELSE "late"]
             off == MyButtonsCheckable(t, d, FALSE)
             on == MyButtonsCheckable(t, d, TRUE)
  <1>1. done \in ButtonsType /\ SameLabels(b, done)
    BY DEF ButtonsType, SameLabels
  <1>2. d \in ButtonsType /\ SameLabels(done, d)
    <2> HIDE DEF done
    <2> QED BY <1>1 DEF ButtonsType, SameLabels
  <1>3. off \in ButtonsType /\ on \in ButtonsType
    <2> HIDE DEF d
    <2> QED BY <1>2, HelpersType
  <1>4. on.checkable /\ on.betCheckable
    <2> HIDE DEF d
    <2> QED BY <1>2 DEF MyButtonsCheckable, ButtonsType
  <1>5. ASSUME NEW e \in ButtonsType, c = ClearMyButtons(e)
        PROVE  OfferFits(t, c)
    <2>1. c.call = Blank /\ c.bet = Blank
      BY <1>5 DEF ClearMyButtons, ButtonsType
    <2> QED BY <2>1, BlankFits
  <1>6. \/ c = done
        \/ c = d
        \/ c = ClearMyButtons(off)
        \/ c \in ProvideMyActions(t, on, 0)
    BY DEF DealCardsEnd, UpdateMyButtonsState
  <1>8. ASSUME NEW g \in ButtonsType
        PROVE  /\ ForgetTicks(g) \in ButtonsType /\ ForgetTicks(g).checkable = g.checkable
               /\ ForgetTicks(g).betCheckable = g.betCheckable
    <2>1. ForgetTicks(g) \in ButtonsType
      BY HelpersType
    <2> QED BY <2>1 DEF ForgetTicks, ButtonsType
  <1> HIDE DEF done, d, off, on
  <1>7. CASE c \in ProvideMyActions(t, on, 0)
    <2> DEFINE folded == t.action[Me] = "fold"
               call == CallLabel(t, 0)
               bet == BetLabel(t, on, 0)
               fold == FoldText(t, on, 0)
               allin == ~folded
               f == IF folded THEN MyButtonsCheckable(t, on, FALSE) ELSE on
               unwanted == \/ f.checked = "call" /\ call # on.call
                           \/ /\ f.checked = "bet" /\ bet.text # ""
                              /\ on.bet.amount < LeastBet(t, bet.text)
               e == IF unwanted THEN ForgetTicks(f) ELSE f
    <2>1. CASE NothingToDo(t, 0)
      <3>1. c = ClearMyButtons(MyButtonsCheckable(t, on, FALSE))
        BY <1>7, <2>1 DEF ProvideMyActions
      <3>2. MyButtonsCheckable(t, on, FALSE) \in ButtonsType
        BY <1>3, HelpersType
      <3> QED BY <1>5, <3>1, <3>2
    <2>2. CASE ~NothingToDo(t, 0)
      <3>1. ProvideMyActions(t, on, 0) =
              {[e EXCEPT !.fold = fold, !.call = call, !.bet = Label(bet.text, amount),
                         !.allin = allin, !.raising = @ \cup ({bet.text} \ {""})]
                 : amount \in Amounts(t, bet)}
        BY <2>2 DEF ProvideMyActions
      <3>2. f \in ButtonsType /\ (~folded => f = on)
        BY <1>3, HelpersType
      <3>3. e \in ButtonsType /\ e.checkable = f.checkable /\ e.betCheckable = f.betCheckable
        <4> HIDE DEF f
        <4> QED BY <1>8, <3>2
      <3>4. folded => call = Blank /\ bet = Blank
        BY DEF CallLabel, BetLabel
      <3> HIDE DEF e, f, call, bet, fold, allin
      <3>5. PICK amount \in Amounts(t, bet) :
               c = [e EXCEPT !.fold = fold, !.call = call, !.bet = Label(bet.text, amount),
                             !.allin = allin, !.raising = @ \cup ({bet.text} \ {""})]
        BY <1>7, <3>1
      <3>6. /\ c.call = call /\ c.bet = Label(bet.text, amount)
            /\ c.checkable = e.checkable /\ c.betCheckable = e.betCheckable
        BY <3>3, <3>5 DEF ButtonsType
      <3>7. CASE folded
        <4>1. Label(bet.text, amount).text = bet.text
          BY LabelFields
        <4>2. c.call.text = "" /\ c.bet.text = ""
          <5>1. Blank.text = ""
            BY LabelFields DEF Blank
          <5> QED BY <3>4, <3>6, <3>7, <4>1, <5>1
        <4> QED BY <4>2 DEF OfferFits, BetFits
      <3>8. CASE ~folded
        BY <1>4, <3>2, <3>3, <3>6, <3>8 DEF OfferFits
      <3> QED BY <3>7, <3>8
    <2> QED BY <2>1, <2>2
  <1> QED BY <1>1, <1>2, <1>3, <1>5, <1>6, <1>7, SameOffer

\* When the turn message is handled, either a remembered action is sent at once
\* or the buttons offer what fits.
LEMMA MeInActionFits ==
    ASSUME NEW t \in ClientType, buttons \in ButtonsType, MeInAction(t)
    PROVE  client'.answered \/ OfferFits(client', buttons')
  <1>1. PICK b \in Asked(t, buttons) :
            LET button == Remembered(buttons, b)
            IN IF button # "none" /\ Acts(b, button)
               THEN /\ Answer(Act(t, b, button))
                    /\ buttons' = [ForgetTicks(b) EXCEPT !.raising = {}]
               ELSE Becomes(t, ForgetTicks(b))
    BY DEF MeInAction
  <1> DEFINE button == Remembered(buttons, b)
             acted == Act(t, b, button)
  <1>2. b \in ButtonsType
    <2>1. -1 \in Int
      OBVIOUS
    <2> QED BY <2>1, PaintedType
  <1>3. button \in Buttons \cup {"none"}
    BY <1>2 DEF Remembered, ButtonsType, Buttons
  <1> HIDE DEF button, acted
  <1>4. CASE button # "none" /\ Acts(b, button)
    <2>1. acted \in ClientType
      BY <1>2, <1>3, <1>4, ActType DEF acted
    <2>2. client' = [acted EXCEPT !.answered = TRUE]
      BY <1>1, <1>4 DEF button, acted, Answer
    <2>3. client'.answered
      BY <2>1, <2>2 DEF ClientType
    <2> QED BY <2>3
  <1>5. CASE ~(button # "none" /\ Acts(b, button))
    <2>1. client' = t /\ buttons' = ForgetTicks(b)
      BY <1>1, <1>5 DEF button, Becomes
    <2> QED BY <2>1, AskedFits
  <1> QED BY <1>4, <1>5

(***************************************************************************)
(* The last message to a player who is asked                               *)
(***************************************************************************)

\* The server waits for Me, and no rejoin of his is pending.
AwaitsMe ==
    state = "WaitPlayerAction" /\ hand.turn = Me /\ link[Me] = "in" /\ Me \notin rejoin

EndsInTurn(ms) ==
    ms # << >> /\ ms[Len(ms)].type = "PlayersTurn" /\ ms[Len(ms)].who = Me

\* His client has answered, or is not in the hand, or offers what fits; the full
\* bet rule says that he has been all in.
TurnTaken ==
    \/ client.state # "RunHand" \/ client.answered \/ client.fullBetRule
    \/ OfferFits(client, buttons)

\* The turn is the last message he is sent before he acts.
LastTurn == AwaitsMe => IF down = << >> THEN TurnTaken ELSE EndsInTurn(down)

\* Handlers of other messages do not run when the turn is the oldest one.
LEMMA TurnHandlers ==
    ASSUME NetTypeOK, ClientStep, down # << >> /\ Head(down).type = "PlayersTurn"
    PROVE  \/ TakesOldest /\ (CDrop \/ CPlayersTurn)
           \/ ClientAlone
  <1>1. ~Handles("StartEvent") /\ ~Handles("GameStartInitial") /\ ~Handles("GameStartRejoin")
        /\ ~Handles("PlayerIdChanged") /\ ~Handles("HandStart") /\ ~Handles("ActionDone")
        /\ ~Handles("DealCards") /\ ~Handles("AllInShowCards") /\ ~Handles("EndOfHandHide")
        /\ ~Handles("EndOfHandShow") /\ ~Handles("EndOfGame")
    BY DEF Handles, Receives
  <1>2. ~CStartEvent /\ ~CGameStartInitial /\ ~CGameStartRejoin /\ ~CPlayerIdChanged
    BY <1>1 DEF CStartEvent, CGameStartInitial, CGameStartRejoin, CPlayerIdChanged
  <1>3. /\ \A minutesUp \in BOOLEAN : ~CHandStart(minutesUp)
        /\ ~CActionDone /\ ~CDealCards /\ ~CAllInShowCards
    BY <1>1 DEF CHandStart, CActionDone, CDealCards, CAllInShowCards
  <1>4. ~CEndOfHandHide /\ ~CEndOfHandShow /\ ~CEndOfGame
    BY <1>1 DEF CEndOfHandHide, CEndOfHandShow, CEndOfGame
  <1>5. CDrop \/ CPlayersTurn \/ ClientAlone
    BY <1>2, <1>3, <1>4 DEF ClientStep, ClientAlone
  <1>6. CDrop \/ CPlayersTurn => TakesOldest
    BY CDropSees, CPlayersTurnSees DEF ClientTakes, ClientAnswers
  <1> QED BY <1>5, <1>6

\* Once the turn is taken, the client has answered or offers what fits.
LEMMA TurnIsTaken ==
    ASSUME NetTypeOK, down # << >>, Head(down).type = "PlayersTurn", Head(down).who = Me,
           CDrop \/ CPlayersTurn
    PROVE  TurnTaken'
  <1>1. client \in ClientType /\ buttons \in ButtonsType
    BY DEF NetTypeOK
  <1>2. CASE CDrop
    <2>1. client' = client /\ "PlayersTurn" \notin Expects(client.state)
      BY <1>2 DEF CDrop, clientVars
    <2>2. client'.state # "RunHand"
      BY <2>1 DEF Expects
    <2> QED BY <2>2 DEF TurnTaken
  <1>3. CASE CPlayersTurn
    <2> DEFINE m == Head(down)
               t == TurnRound(client, m.round)
               asked == [t EXCEPT !.answered = FALSE]
    <2>1. IF ~Knows(m.who, m.gen) THEN Throws ELSE MeInAction(asked)
      BY <1>3 DEF CPlayersTurn
    <2>2. CASE Throws
      <3>1. client' = [client EXCEPT !.state = "Thrown"]
        BY <2>2 DEF Throws, Becomes
      <3>2. client'.state = "Thrown"
        BY <1>1, <3>1 DEF ClientType
      <3> QED BY <3>2 DEF TurnTaken
    <2>3. CASE MeInAction(asked)
      <3>1. m.round \in Rounds
        <4>1. m \in Messages /\ m.type = "PlayersTurn"
          BY OldestMessage DEF NetTypeOK
        <4> QED BY <4>1, MessageFields
      <3>2. t \in ClientType
        BY <1>1, <3>1, TurnRoundType
      <3> HIDE DEF t
      <3>3. asked \in ClientType
        BY <3>2 DEF ClientType
      <3> HIDE DEF asked
      <3>4. client'.answered \/ OfferFits(client', buttons')
        BY <1>1, <2>3, <3>3, MeInActionFits
      <3> QED BY <3>4 DEF TurnTaken
    <2> QED BY <2>1, <2>2, <2>3
  <1> QED BY <1>2, <1>3

LEMMA ClientStepTurn ==
    ASSUME NetTypeOK, LastTurn, ClientStep
    PROVE  LastTurn'
  <1> SUFFICES ASSUME AwaitsMe' PROVE (IF down = << >> THEN TurnTaken ELSE EndsInTurn(down))'
    BY DEF LastTurn
  <1>1. \/ TakesOldest
        \/ ClientAlone
    BY ClientStepSees DEF ClientTakes, ClientAnswers
  <1>2. AwaitsMe /\ down \in Seq(Messages)
    <2>1. UNCHANGED vars
      BY <1>1, UserSees DEF TakesOldest
    <2> QED BY <2>1 DEF AwaitsMe, vars, NetTypeOK
  <1>3. IF down = << >> THEN TurnTaken ELSE EndsInTurn(down)
    BY <1>2 DEF LastTurn
  <1>4. CASE CSynchronized
    <2>1. down' = down /\ client' = [client EXCEPT !.state = "WaitStart"]
      BY <1>4 DEF CSynchronized, Becomes
    <2>2. client'.state # "RunHand"
      BY <2>1 DEF NetTypeOK, ClientType
    <2> QED BY <1>3, <2>1, <2>2 DEF TurnTaken, EndsInTurn
  <1>6. CASE CDealCardsEnd \/ CPostRiverRunAnimation2
    <2>1. down' = down /\ client' = client
      BY <1>6, TimersType DEF AtTheTable
    <2>2. client \in ClientType /\ buttons \in ButtonsType
      BY DEF NetTypeOK
    <2>3. CASE CDealCardsEnd
      <3>1. buttons' \in DealCardsEnd(client, buttons)
        BY <2>3 DEF CDealCardsEnd, Becomes
      <3>2. TurnTaken => TurnTaken'
        BY <2>1, <2>2, <3>1, DealtFits DEF TurnTaken
      <3> QED BY <1>3, <2>1, <3>2 DEF EndsInTurn
    <2>4. CASE CPostRiverRunAnimation2
      <3>1. buttons' = PostRiverRunAnimation2(buttons)
        BY <2>4 DEF CPostRiverRunAnimation2, Becomes
      <3>2. buttons'.call = Blank /\ buttons'.bet = Blank
        BY <3>1 DEF PostRiverRunAnimation2, CleanButtons, BlankButtons
      <3>3. OfferFits(client, buttons')
        BY <3>2, BlankFits
      <3> QED BY <1>3, <2>1, <3>3 DEF TurnTaken, EndsInTurn
    <2> QED BY <1>6, <2>3, <2>4
  <1>5. CASE TakesOldest
    <2>1. down # << >> /\ down' = Tail(down) /\ EndsInTurn(down)
      BY <1>3, <1>5 DEF TakesOldest
    <2>2. CASE Len(down) = 1
      <3>1. down' = << >> /\ down[Len(down)] = Head(down)
        BY <1>2, <2>1, <2>2
      <3>2. Head(down).type = "PlayersTurn" /\ Head(down).who = Me
        BY <2>1, <3>1 DEF EndsInTurn
      <3>3. CDrop \/ CPlayersTurn \/ ClientAlone
        BY <2>1, <3>2, TurnHandlers
      <3>4. CASE CDrop \/ CPlayersTurn
        BY <2>1, <3>1, <3>2, <3>4, TurnIsTaken
      <3> QED BY <1>4, <1>6, <3>3, <3>4 DEF ClientAlone
    <2>3. CASE Len(down) # 1
      <3>1. /\ Len(down) \in Nat \ {0, 1} /\ Len(down') = Len(down) - 1
            /\ \A i \in 1..Len(down') : down'[i] = down[i + 1]
        BY <1>2, <2>1, <2>3, OldestMessage
      <3>2. /\ down' # << >> /\ Len(down') \in 1..Len(down') /\ Len(down') + 1 = Len(down)
        BY <3>1
      <3>3. down'[Len(down')] = down[Len(down)]
        BY <3>1, <3>2
      <3> QED BY <2>1, <3>2, <3>3 DEF EndsInTurn
    <2> QED BY <2>2, <2>3
  <1> QED BY <1>1, <1>4, <1>5, <1>6 DEF ClientAlone

\* The user ticks, clicks or moves the amount within its range.
LEMMA UserStepTurn ==
    ASSUME NetTypeOK, LastTurn, UserStep
    PROVE  LastTurn'
  <1>1. client \in ClientType /\ buttons \in ButtonsType
    BY DEF NetTypeOK
  <1>2. UNCHANGED <<vars, down>>
    BY DEF UserStep, AtTheTable, TickButton, ClickButton, SpinBoxBetValueChanged
  <1>3. TurnTaken => TurnTaken'
    <2>1. ASSUME NEW button \in Buttons, TickButton(button), TurnTaken
          PROVE  TurnTaken'
      <3>1. client' = client /\ buttons' = Tick(buttons, button)
        BY <2>1 DEF TickButton, Becomes
      <3>2. SameLabels(buttons, buttons')
        BY <1>1, <3>1 DEF Tick, ForgetTicks, ButtonsType, SameLabels
      <3> QED BY <2>1, <3>1, <3>2, SameOffer DEF TurnTaken
    <2>2. ASSUME NEW button \in Buttons, ClickButton(button)
          PROVE  TurnTaken'
      <3> DEFINE acted == Act(client, buttons, button)
      <3>1. Acts(buttons, button) /\ client' = [acted EXCEPT !.answered = TRUE]
        BY <2>2 DEF ClickButton, Answer
      <3>2. acted \in ClientType
        BY <1>1, <3>1, ActType
      <3> HIDE DEF acted
      <3>3. client'.answered
        BY <3>1, <3>2 DEF ClientType
      <3> QED BY <3>3 DEF TurnTaken
    <2>3. ASSUME NEW value \in 0..MaxBet, SpinBoxBetValueChanged(value), TurnTaken
          PROVE  TurnTaken'
      <3> DEFINE label == Label(buttons.bet.text, value)
                 seen == IF buttons.memory = "bet" THEN label ELSE buttons.seen
                 low == LeastBet(client, buttons.bet.text)
                 high == client.cash[Me]
      <3>1. /\ client' = client /\ buttons.bet.text # "" /\ value \in low..high
            /\ buttons' = [buttons EXCEPT !.bet = label, !.seen = seen]
        BY <2>3 DEF SpinBoxBetValueChanged, Becomes
      <3>2. label.text = buttons.bet.text /\ label.amount = value
        BY LabelFields
      <3>3. low \in Int /\ high \in Int
        BY <1>1, LabelsType, MeAssumption DEF ButtonsType, LabelType, ClientType
      <3>4. value >= low
        <4> HIDE DEF low, high
        <4> QED BY <3>1, <3>3, IntervalLow
      <3>5. AmountFits(client, label)
        <4>1. label.amount >= LeastBet(client, label.text)
          <5> HIDE DEF label
          <5> QED BY <3>2, <3>4
        <4> HIDE DEF label
        <4> QED BY <4>1 DEF AmountFits
      <3> HIDE DEF label, seen, low, high
      <3>6. /\ buttons'.bet = label /\ buttons'.call = buttons.call
            /\ buttons'.raising = buttons.raising /\ buttons'.checkable = buttons.checkable
            /\ buttons'.betCheckable = buttons.betCheckable
        BY <1>1, <3>1 DEF ButtonsType
      <3>7. OfferFits(client, buttons) => OfferFits(client, buttons')
        BY <3>1, <3>2, <3>5, <3>6 DEF OfferFits, BetFits
      <3> QED BY <2>3, <3>1, <3>7 DEF TurnTaken
    <2> QED BY <2>1, <2>2, <2>3 DEF UserStep
  <1> QED BY <1>2, <1>3 DEF LastTurn, AwaitsMe, EndsInTurn, vars


\* A server's step that leaves the client alone and does not ask anyone.
LEMMA QuietTurn ==
    ASSUME LastTurn, UNCHANGED <<down, client, buttons>>, AwaitsMe' => AwaitsMe
    PROVE  LastTurn'
  BY DEF LastTurn, TurnTaken, EndsInTurn

\* A client whose connection is gone is not in the hand.
LEMMA DisconnectTurn ==
    ASSUME Disconnect
    PROVE  LastTurn'
  <1>1. client' = NoTable("Closed") /\ down' = << >>
    BY DEF Disconnect
  <1>2. client'.state = "Closed"
    <2>1. "Closed" \in ClientStates
      BY DEF ClientStates
    <2> QED BY <1>1, <2>1, NoTableType
  <1> QED BY <1>1, <1>2 DEF LastTurn, TurnTaken

\* The player the engine asks is sent the turn.
LEMMA AskPlayerTurn ==
    ASSUME NetTypeOK, NEW h, AskPlayer(h), Send(<<PlayersTurn(h)>>)
    PROVE  LastTurn'
  <1> SUFFICES ASSUME AwaitsMe' PROVE (IF down = << >> THEN TurnTaken ELSE EndsInTurn(down))'
    BY DEF LastTurn
  <1>1. link' = link /\ hand' = h
    BY DEF AskPlayer, players
  <1>2. link[Me] # "out" /\ h.turn = Me
    BY <1>1 DEF AwaitsMe
  <1>3. down' = down \o <<PlayersTurn(h)>> /\ down \in Seq(Messages)
    BY <1>2 DEF Send, NetTypeOK
  <1>4. /\ down' # << >> /\ down'[Len(down')] = PlayersTurn(h)
    <2> DEFINE m == PlayersTurn(h)
    <2> HIDE DEF m
    <2>1. down' = Append(down, m)
      BY <1>3 DEF m
    <2> QED BY <1>3, <2>1 DEF m
  <1>5. PlayersTurn(h).type = "PlayersTurn" /\ PlayersTurn(h).who = Me
    BY <1>2 DEF PlayersTurn
  <1> QED BY <1>4, <1>5 DEF EndsInTurn

\* The engine's steps.
LEMMA SLoopTurn ==
    ASSUME NetTypeOK, SLoop
    PROVE  LastTurn'
  <1> DEFINE h == PlayHand(hand)
  <1> HIDE DEF h
  <1>1. state = "Hand" /\ SEngine
    BY DEF SLoop, Runs, StateOf
  <1>2. CASE AskPlayer(h) /\ Send(<<PlayersTurn(h)>>)
    BY <1>2, AskPlayerTurn
  <1>3. CASE Disconnect
    BY <1>3, DisconnectTurn
  <1>4. CASE DealRound(h) \/ SkipAbsent(h) \/ FinishHand(h)
    <2>1. state' # "WaitPlayerAction"
      BY <1>1, <1>4 DEF DealRound, SkipAbsent, FinishHand, StayWith, SetState
    <2> QED BY <2>1 DEF LastTurn, AwaitsMe
  <1> QED BY <1>1, <1>2, <1>3, <1>4 DEF SEngine, h

LEMMA ServerStepTurn ==
    ASSUME NetTypeOK, LastTurn, ServerStep
    PROVE  LastTurn'
  <1>1. CASE SLoop
    BY <1>1, SLoopTurn
  <1>2. CASE SShowCards \/ SNextGame \/ STimeout
    <2>1. state' # "WaitPlayerAction"
      BY <1>2 DEF SShowCards, SNextGame, STimeout, TimerShowCards, TimerNextGame, TimerTimeout,
                  Runs, StateOf, StayWith, SetState
    <2> QED BY <2>1 DEF LastTurn, AwaitsMe
  <1>3. ASSUME NEW idle, NEW forced, NEW minutesUp, NEW value, NEW order,
               SNextHand(idle, forced, minutesUp, value, order)
        PROVE  LastTurn'
    <2>1. state' # "WaitPlayerAction"
      BY <1>3 DEF SNextHand, TimerNextHand, SetState
    <2> QED BY <2>1 DEF LastTurn, AwaitsMe
  <1>4. ASSUME NEW s, NEW round, NEW action, NEW bet, MyActionRequest(s, round, action, bet)
        PROVE  LastTurn'
    <2>1. state' # "WaitPlayerAction"
      BY <1>4 DEF MyActionRequest, SetState
    <2> QED BY <2>1 DEF LastTurn, AwaitsMe
  <1>5. CASE SRequest
    <2>1. \/ MyActionRequest(Me, Head(up).round, Head(up).action, Head(up).bet)
          \/ UNCHANGED <<vars, down, client, buttons>>
      BY <1>5 DEF SRequest
    <2>2. CASE UNCHANGED <<vars, down, client, buttons>>
      BY <2>2, QuietTurn DEF AwaitsMe, vars
    <2> QED BY <1>4, <2>1, <2>2
  <1>6. CASE SResetTimeout \/ SQuiet
    <2>1. UNCHANGED net /\ UNCHANGED <<hand, state, link, rejoin>>
      BY <1>6 DEF SResetTimeout, ResetTimeout, SQuiet, TimerExpires, StaleHandler, players
    <2> QED BY <2>1, QuietTurn DEF AwaitsMe, net
  <1>7. CASE SUnknown
    BY <1>7, DisconnectTurn DEF SUnknown
  <1>8. ASSUME NEW s \in Seats, NEW relogin \in BOOLEAN, SLeave(s, relogin)
        PROVE  LastTurn'
    <2>1. CASE s = Me
      BY <1>8, <2>1, DisconnectTurn DEF SLeave
    <2>2. CASE s # Me
      <3>1. /\ UNCHANGED net /\ UNCHANGED <<hand, state>>
            /\ link' = [link EXCEPT ![s] = "out"] /\ rejoin' = rejoin \ {s}
        BY <1>8, <2>2 DEF SLeave, LeaveGame
      <3>2. AwaitsMe' => AwaitsMe
        BY <2>2, <3>1 DEF AwaitsMe
      <3> QED BY <3>1, <3>2, QuietTurn DEF net
    <2> QED BY <2>1, <2>2
  <1>9. ASSUME NEW s \in Seats, NEW sameSession \in BOOLEAN, SRejoin(s, sameSession)
        PROVE  LastTurn'
    <2>1. /\ UNCHANGED <<hand, state>> /\ rejoin' = rejoin \cup {s}
          /\ \E l : link' = [link EXCEPT ![s] = l]
          /\ s # Me => UNCHANGED net
      BY <1>9 DEF SRejoin, RejoinGame
    <2>2. CASE s = Me
      BY <2>1, <2>2 DEF LastTurn, AwaitsMe
    <2>3. CASE s # Me
      <3>1. AwaitsMe' => AwaitsMe
        BY <2>1, <2>3 DEF AwaitsMe
      <3> QED BY <2>1, <2>3, <3>1, QuietTurn DEF net
    <2> QED BY <2>2, <2>3
  <1> QED BY <1>1, <1>2, <1>3, <1>4, <1>5, <1>6, <1>7, <1>8, <1>9
          DEF ServerStep, SOtherActs

\* The server's stakes are those of ServerTable, whatever the client bets.
LEMMA ServerStepStakes ==
    ASSUME ClientInv, StakesInv, ServerStep
    PROVE  StakesInv'
  <1> USE DEF ClientInv, NetInv
  <1>1. CASE SLoop
    <2>1. TimerLoop
      BY <1>1 DEF SLoop, SEngine, TimerLoop, EngineLoop
    <2> QED BY <2>1, NextStakes DEF Next
  <1>2. CASE SShowCards \/ SNextGame \/ STimeout \/ SQuiet \/ SUnknown
    <2>1. UnknownPlayerAction(You) => \E s \in Seats : UnknownPlayerAction(s)
      BY MeAndYou
    <2> QED BY <1>2, <2>1, NextStakes
            DEF SShowCards, SNextGame, STimeout, SQuiet, SUnknown, Next
  <1>3. ASSUME NEW idle \in SUBSET Seats, NEW forced \in SUBSET Seats,
               NEW minutesUp \in BOOLEAN, NEW value \in Dealt, NEW order,
               SNextHand(idle, forced, minutesUp, value, order)
        PROVE  StakesInv'
    <2>1. TimerNextHand(idle, forced, minutesUp, value)
      BY <1>3 DEF SNextHand
    <2> QED BY <2>1, NextHandStakes
  <1>4. ASSUME NEW s \in Seats, NEW round, NEW action \in Actions, NEW bet \in Int,
               MyActionRequest(s, round, action, bet)
        PROVE  StakesInv'
    <2>1. hand \in HandType
      BY DEF TInv, IInv, TypeOK
    <2> QED BY <1>4, <2>1, RequestBets, PlayerBetsStakes
  <1>5. ASSUME NEW action \in Actions, NEW bet \in 0..MaxBet,
               SOtherActs(hand.round, action, bet)
        PROVE  StakesInv'
    <2>1. MyActionRequest(You, hand.round, action, bet)
      BY <1>5 DEF SOtherActs
    <2>2. You \in Seats /\ bet \in Int
      BY MeAndYou, TableAssumption
    <2> QED BY <1>4, <2>1, <2>2
  <1>6. CASE SRequest
    <2> DEFINE r == Head(up)
    <2>1. MyActionRequest(Me, r.round, r.action, r.bet) \/ UNCHANGED vars
      BY <1>6 DEF SRequest
    <2>2. r \in RequestType
      BY <1>6 DEF SRequest, NetTypeOK
    <2>3. r.action \in Actions /\ r.bet \in Int
      BY <2>2 DEF RequestType
    <2>4. Me \in Seats
      BY MeAndYou
    <2> HIDE DEF r
    <2>5. CASE UNCHANGED vars
      BY <2>5, NextStakes
    <2> QED BY <1>4, <2>1, <2>3, <2>4, <2>5
  <1>7. CASE SResetTimeout
    <2>1. \E s \in Seats : ResetTimeout(s)
      BY <1>7 DEF SResetTimeout
    <2> QED BY <2>1, NextStakes DEF Next
  <1>8. ASSUME NEW s \in Seats, NEW b \in BOOLEAN, SLeave(s, b) \/ SRejoin(s, b)
        PROVE  StakesInv'
    <2>1. LeaveGame(s, b) \/ RejoinGame(s, b)
      BY <1>8 DEF SLeave, SRejoin
    <2> QED BY <2>1, NextStakes DEF Next
  <1> QED BY <1>1, <1>2, <1>3, <1>5, <1>6, <1>7, <1>8 DEF ServerStep

(***************************************************************************)
(* What a click asks for                                                   *)
(***************************************************************************)

\* The action and the amount of the request that is made from a table.
AsksFor(t, action, bet) == t.action[Me] = action /\ t.relative = bet

LEMMA StakeAllAsks ==
    ASSUME NEW t \in ClientType
    PROVE  AsksFor(StakeAll(t), "allin", t.cash[Me])
  BY MeAndYou DEF StakeAll, ClientType, AsksFor

LEMMA FoldCheckAsk ==
    ASSUME NEW t \in ClientType
    PROVE  MyFold(t).action[Me] = "fold" /\ MyCheck(t).action[Me] = "check"
  BY MeAndYou DEF MyFold, MyCheck, ClientType

LEMMA CallAsks ==
    ASSUME NEW t \in ClientType
    PROVE  \/ AsksFor(MyCall(t), "allin", t.cash[Me])
           \/ /\ t.cash[Me] + t.set[Me] > t.highestSet
              /\ AsksFor(MyCall(t), "call", t.highestSet - t.set[Me])
  <1> DEFINE u == [t EXCEPT !.relative = t.highestSet - t.set[Me], !.action[Me] = "call",
                            !.previous = "me"]
  <1>1. AsksFor(u, "call", t.highestSet - t.set[Me])
    BY MeAndYou DEF ClientType, AsksFor
  <1>2. t.cash[Me] \in Int /\ t.set[Me] \in Int /\ t.highestSet \in Int
    BY MeAndYou DEF ClientType
  <1>3. IF t.cash[Me] + t.set[Me] <= t.highestSet THEN MyCall(t) = StakeAll(t)
        ELSE MyCall(t) = u
    BY DEF MyCall
  <1> HIDE DEF u
  <1> QED BY <1>1, <1>2, <1>3, StakeAllAsks

LEMMA AllInAsks ==
    ASSUME NEW t \in ClientType
    PROVE  AsksFor(MyAllIn(t), "allin", t.cash[Me])
  <1> DEFINE s == StakeAll(t)
  <1>1. s \in ClientType /\ AsksFor(s, "allin", t.cash[Me])
    BY StakeAllType, StakeAllAsks
  <1>2. \A rule, raise, most :
           LET u == [s EXCEPT !.fullBetRule = rule, !.minimumRaise = raise,
                              !.highestSet = most]
           IN u.action = s.action /\ u.relative = s.relative
    <2> HIDE DEF s
    <2> QED BY <1>1 DEF ClientType
  <1>3. MyAllIn(t).action = s.action /\ MyAllIn(t).relative = s.relative
    BY <1>2 DEF MyAllIn
  <1> HIDE DEF s
  <1> QED BY <1>1, <1>3 DEF AsksFor

\* A bet or a raise, with one name to it.
LEMMA SetAsks ==
    ASSUME NEW t \in ClientType, NEW b \in ButtonsType, b.raising = {b.bet.text},
           b.bet.text \in {"Bet", "Raise"}, t.action[Me] # "allin"
    PROVE  \/ AsksFor(MySet(t, b), "allin", t.cash[Me])
           \/ /\ b.bet.amount < t.cash[Me]
              /\ AsksFor(MySet(t, b), IF b.bet.text = "Bet" THEN "bet" ELSE "raise",
                       b.bet.amount)
  <1> DEFINE rule == StakeAll(t).fullBetRule \/ ShortBet(t)
             all == [StakeAll(t) EXCEPT !.fullBetRule = rule]
             part == [t EXCEPT !.relative = b.bet.amount, !.previous = "me"]
             staked == IF b.bet.amount >= t.cash[Me] THEN all ELSE part
             name == IF "Bet" \in b.raising THEN "bet" ELSE "raise"
             named == IF b.raising = {} \/ staked.action[Me] = "allin" THEN staked
                      ELSE [staked EXCEPT !.action[Me] = name]
             raise == IF "Bet" \in b.raising /\ t.set[Me] > 0 THEN t.set[Me]
                      ELSE IF "Raise" \in b.raising THEN AtLeast0(t.set[Me] - t.highestSet)
                      ELSE t.minimumRaise
  <1>1. all \in ClientType /\ AsksFor(all, "allin", t.cash[Me])
    <2>1. StakeAll(t) \in ClientType /\ AsksFor(StakeAll(t), "allin", t.cash[Me])
      BY StakeAllType, StakeAllAsks
    <2>2. rule \in BOOLEAN
      OBVIOUS
    <2> HIDE DEF rule
    <2> QED BY <2>1, <2>2 DEF ClientType, AsksFor
  <1>2. /\ part \in ClientType /\ part.action = t.action /\ part.relative = b.bet.amount
    <2>1. b.bet.amount \in Int
      BY DEF ButtonsType, LabelType
    <2> QED BY <2>1 DEF ClientType
  <1>3. /\ b.raising # {} /\ name = IF b.bet.text = "Bet" THEN "bet" ELSE "raise"
    OBVIOUS
  <1>4. b.bet.amount \in Int /\ t.cash[Me] \in Int
    BY MeAndYou DEF ButtonsType, LabelType, ClientType
  <1>5. MySet(t, b) = [named EXCEPT !.minimumRaise = raise, !.highestSet = t.set[Me]]
    BY DEF MySet
  <1>6. named \in ClientType
        /\ \/ AsksFor(named, "allin", t.cash[Me])
           \/ b.bet.amount < t.cash[Me] /\ AsksFor(named, name, b.bet.amount)
    <2>1. CASE b.bet.amount >= t.cash[Me]
      <3>1. staked = all
        BY <2>1
      <3> HIDE DEF staked, all
      <3>2. staked.action[Me] = "allin"
        BY <1>1, <3>1 DEF AsksFor
      <3>3. named = all
        BY <3>1, <3>2
      <3> QED BY <1>1, <3>3
    <2>2. CASE ~(b.bet.amount >= t.cash[Me])
      <3>1. staked = part
        BY <2>2
      <3> HIDE DEF staked, part
      <3>2. named = [part EXCEPT !.action[Me] = name]
        BY <1>2, <1>3, <3>1
      <3>3. name \in Actions
        BY DEF Actions
      <3> HIDE DEF named, name
      <3>4. [part.action EXCEPT ![Me] = name] \in [Seats -> Actions]
        BY <1>2, <3>3, MeAndYou DEF ClientType
      <3>5. named \in ClientType /\ AsksFor(named, name, b.bet.amount)
        BY <1>2, <3>2, <3>4, MeAndYou DEF ClientType, AsksFor
      <3>6. b.bet.amount < t.cash[Me]
        BY <1>4, <2>2
      <3> QED BY <3>5, <3>6
    <2> QED BY <2>1, <2>2
  <1> HIDE DEF named, raise, name
  <1>7. MySet(t, b).action = named.action /\ MySet(t, b).relative = named.relative
    BY <1>5, <1>6 DEF ClientType
  <1> QED BY <1>3, <1>6, <1>7 DEF AsksFor

(***************************************************************************)
(* The full bet rule of the client's copy of the table                     *)
(*                                                                         *)
(* The client sets it when its player bets all he has, and takes it back    *)
(* with the next round.  So a client that has it, in the hand the server   *)
(* plays, has sent a request to go all in.                                 *)
(***************************************************************************)

\* A click sets the rule only with a request to go all in.
SetsRule(t, u) == u.fullBetRule => t.fullBetRule \/ u.action[Me] = "allin"

LEMMA StakeAllRule ==
    ASSUME NEW t \in ClientType
    PROVE  StakeAll(t).action[Me] = "allin" /\ StakeAll(t).fullBetRule = t.fullBetRule
  BY MeAndYou DEF StakeAll, ClientType

LEMMA FoldCheckRule ==
    ASSUME NEW t \in ClientType
    PROVE  /\ MyFold(t).fullBetRule = t.fullBetRule
           /\ MyCheck(t).fullBetRule = t.fullBetRule
  BY DEF MyFold, MyCheck, ClientType

LEMMA CallRule ==
    ASSUME NEW t \in ClientType
    PROVE  MyCall(t).fullBetRule = t.fullBetRule
  <1> DEFINE u == [t EXCEPT !.relative = t.highestSet - t.set[Me], !.action[Me] = "call",
                            !.previous = "me"]
  <1>1. u.fullBetRule = t.fullBetRule
    BY DEF ClientType
  <1>2. MyCall(t) = StakeAll(t) \/ MyCall(t) = u
    BY DEF MyCall
  <1> HIDE DEF u
  <1> QED BY <1>1, <1>2, StakeAllRule

LEMMA AllInRule ==
    ASSUME NEW t \in ClientType
    PROVE  MyAllIn(t).action[Me] = "allin"
  BY AllInAsks DEF AsksFor

\* A bet of all chips is all in whatever its name is.
LEMMA SetRule ==
    ASSUME NEW t \in ClientType, NEW b \in ButtonsType
    PROVE  SetsRule(t, MySet(t, b))
  <1> DEFINE rule == StakeAll(t).fullBetRule \/ ShortBet(t)
             all == [StakeAll(t) EXCEPT !.fullBetRule = rule]
             part == [t EXCEPT !.relative = b.bet.amount, !.previous = "me"]
             staked == IF b.bet.amount >= t.cash[Me] THEN all ELSE part
             name == IF "Bet" \in b.raising THEN "bet" ELSE "raise"
             other == [staked EXCEPT !.action[Me] = name]
             named == IF b.raising = {} \/ staked.action[Me] = "allin" THEN staked
                      ELSE other
             raise == IF "Bet" \in b.raising /\ t.set[Me] > 0 THEN t.set[Me]
                      ELSE IF "Raise" \in b.raising THEN AtLeast0(t.set[Me] - t.highestSet)
                      ELSE t.minimumRaise
  <1>1. all \in ClientType /\ all.action[Me] = "allin"
    <2>1. StakeAll(t) \in ClientType /\ StakeAll(t).action[Me] = "allin"
      BY StakeAllType, StakeAllRule
    <2>2. rule \in BOOLEAN
      OBVIOUS
    <2> HIDE DEF rule
    <2> QED BY <2>1, <2>2 DEF ClientType
  <1>2. part \in ClientType /\ part.fullBetRule = t.fullBetRule
    <2>1. b.bet.amount \in Int
      BY DEF ButtonsType, LabelType
    <2> QED BY <2>1 DEF ClientType
  <1>3. staked \in ClientType /\ SetsRule(t, staked)
    <2> HIDE DEF all, part
    <2> QED BY <1>1, <1>2 DEF SetsRule
  <1>4. MySet(t, b) = [named EXCEPT !.minimumRaise = raise, !.highestSet = t.set[Me]]
    BY DEF MySet
  <1> HIDE DEF staked, raise, name
  <1>5. named \in ClientType /\ SetsRule(t, named)
    <2>1. CASE b.raising = {} \/ staked.action[Me] = "allin"
      BY <1>3, <2>1
    <2>2. CASE ~(b.raising = {} \/ staked.action[Me] = "allin")
      <3>1. name \in Actions
        BY DEF Actions, name
      <3>2. [staked.action EXCEPT ![Me] = name] \in [Seats -> Actions]
        BY <1>3, <3>1, MeAndYou DEF ClientType
      <3>3. named = other
        BY <2>2
      <3> HIDE DEF named
      <3>4. named \in ClientType /\ named.fullBetRule = staked.fullBetRule
        BY <1>3, <3>2, <3>3 DEF ClientType
      <3> QED BY <1>3, <2>2, <3>4 DEF SetsRule
    <2> QED BY <2>1, <2>2
  <1> HIDE DEF named
  <1>6. /\ MySet(t, b).fullBetRule = named.fullBetRule
        /\ MySet(t, b).action = named.action
    BY <1>4, <1>5 DEF ClientType
  <1> QED BY <1>5, <1>6 DEF SetsRule

LEMMA ActRule ==
    ASSUME NEW t \in ClientType, NEW b \in ButtonsType, NEW button \in Buttons
    PROVE  SetsRule(t, Act(t, b, button))
  <1>1. CASE button = "fold"
    BY <1>1, FoldCheckRule DEF Act, SetsRule
  <1>2. CASE button = "call"
    BY <1>2, FoldCheckRule, CallRule DEF Act, SetsRule
  <1>3. CASE button = "bet"
    BY <1>3, SetRule DEF Act
  <1>4. CASE button = "allin"
    BY <1>4, AllInRule DEF Act, SetsRule
  <1> QED BY <1>1, <1>2, <1>3, <1>4 DEF Buttons

\* The client's step sets the rule only with a request to go all in.
RuleStep(t) ==
    client'.fullBetRule =>
        \/ t.fullBetRule
        \/ \E r : up' = Append(up, r) /\ r.action = "allin"

LEMMA AnswerRule ==
    ASSUME NEW t \in ClientType, NEW b \in ButtonsType, NEW button \in Buttons,
           Answer(Act(t, b, button))
    PROVE  RuleStep(t)
  <1> DEFINE u == Act(t, b, button)
  <1>1. u \in ClientType /\ SetsRule(t, u)
    BY ActType, ActRule
  <1>2. up' = Append(up, Request(u)) /\ client' = [u EXCEPT !.answered = TRUE]
    BY DEF Answer
  <1> HIDE DEF u
  <1>3. client'.fullBetRule = u.fullBetRule
    BY <1>1, <1>2 DEF ClientType
  <1>4. Request(u).action = u.action[Me]
    BY DEF Request
  <1> QED BY <1>1, <1>2, <1>3, <1>4 DEF SetsRule, RuleStep

\* The player is asked: the first turn of a round takes the rule back.
LEMMA CPlayersTurnRule ==
    ASSUME NetTypeOK, CPlayersTurn
    PROVE  client'.state = "RunHand" => RuleStep(client)
  <1> DEFINE m == Head(down)
             t == TurnRound(client, m.round)
             asked == [t EXCEPT !.answered = FALSE]
  <1>1. /\ Handles("PlayersTurn")
        /\ IF ~Knows(m.who, m.gen) THEN Throws
           ELSE IF m.who = Me THEN MeInAction(asked) ELSE Becomes(t, buttons)
    BY DEF CPlayersTurn
  <1>2. client \in ClientType /\ buttons \in ButtonsType /\ m \in Messages
        /\ m.type = "PlayersTurn"
    BY <1>1, OldestMessage DEF NetTypeOK, Handles, Receives
  <1>3. m.round \in Rounds
    BY <1>2, MessageFields
  <1>4. t \in ClientType /\ t.fullBetRule => client.fullBetRule
    BY <1>2, <1>3, TurnRoundType
  <1>5. t \in ClientType
    BY <1>2, <1>3, TurnRoundType
  <1> HIDE DEF t, m
  <1>6. asked \in ClientType /\ asked.fullBetRule = t.fullBetRule
    BY <1>5 DEF ClientType
  <1> HIDE DEF asked
  <1>7. CASE Throws
    <2>1. client' = [client EXCEPT !.state = "Thrown"]
      BY <1>7 DEF Throws, Becomes
    <2> QED BY <1>2, <2>1 DEF ClientType
  <1>8. CASE MeInAction(asked)
    <2>1. PICK b \in Asked(asked, buttons) :
              LET button == Remembered(buttons, b)
              IN IF button # "none" /\ Acts(b, button)
                 THEN /\ Answer(Act(asked, b, button))
                      /\ buttons' = [ForgetTicks(b) EXCEPT !.raising = {}]
                 ELSE Becomes(asked, ForgetTicks(b))
      BY <1>8 DEF MeInAction
    <2> DEFINE button == Remembered(buttons, b)
    <2>2. b \in ButtonsType
      <3>1. -1 \in Int
        OBVIOUS
      <3> QED BY <1>2, <1>6, <2>1, <3>1, PaintedType
    <2>3. button \in Buttons \cup {"none"}
      BY <1>2, <2>2 DEF Remembered, ButtonsType, Buttons
    <2>4. \/ Becomes(asked, ForgetTicks(b))
          \/ button # "none" /\ Answer(Act(asked, b, button))
      BY <2>1
    <2> HIDE DEF button
    <2>5. RuleStep(asked)
      <3>1. CASE Becomes(asked, ForgetTicks(b))
        BY <3>1 DEF Becomes, RuleStep
      <3>2. CASE button # "none" /\ Answer(Act(asked, b, button))
        BY <1>6, <2>2, <2>3, <3>2, AnswerRule
      <3> QED BY <2>4, <3>1, <3>2
    <2> QED BY <1>4, <1>5, <1>6, <2>5 DEF RuleStep
  <1>9. CASE Becomes(t, buttons)
    BY <1>4, <1>5, <1>9 DEF Becomes, RuleStep
  <1> QED BY <1>1, <1>7, <1>8, <1>9

\* What a step of the client or its user does to the number of its hand, to the
\* rule and to its requests.
HandKept ==
    client'.state \in {"WaitHand", "RunHand"} =>
        \/ client.state \in {"WaitHand", "RunHand"} /\ client'.hand = client.hand
        \/ client'.hand = 0
        \/ /\ down # << >> /\ Head(down).type \in {"HandStart", "GameStartRejoin"}
           /\ client'.hand = Head(down).hand
RuleKept ==
    client'.state = "RunHand" /\ client'.fullBetRule =>
        client.state = "RunHand" /\ client'.hand = client.hand /\ RuleStep(client)

\* A view with a hand shows the client's.
LEMMA ViewHand ==
    ASSUME NEW c \in ClientType
    PROVE  /\ View(c).state \in {"NoTable", "WaitHand", "RunHand", "Thrown"}
           /\ View(c).state \in {"WaitHand", "RunHand"} <=> c.state \in {"WaitHand", "RunHand"}
           /\ c.state \in {"WaitHand", "RunHand"} =>
                 View(c).state = c.state /\ View(c).hand = c.hand
  <1>1. c.state \in ClientStates
    BY DEF ClientType
  <1> QED BY <1>1, ViewFields DEF ClientStates, TableView

\* A message leaves the number of the hand, or says it.
LEMMA SeesHand ==
    ASSUME NEW v, v.state \in {"NoTable", "WaitHand", "RunHand", "Thrown"},
           NEW m, NEW w, Sees(v, m, w), w.state \in {"WaitHand", "RunHand"}
    PROVE  /\ \/ v.state \in {"WaitHand", "RunHand"} /\ w.hand = v.hand
              \/ w.hand = 0
              \/ m.type \in {"HandStart", "GameStartRejoin"} /\ w.hand = m.hand
           /\ w.state = "RunHand" /\ m.type # "HandStart" =>
                 v.state = "RunHand" /\ w.hand = v.hand
           /\ w.state = "RunHand" => m.type \notin {"EndOfHandHide", "EndOfHandShow"}
  <1>1. CASE m.type \notin Expects(v.state) /\ w = v
    BY <1>1, ExpectedTypes
  <1>2. CASE v.state = "NoTable" /\ Opens(m, w)
    BY <1>2 DEF Opens, Fresh
  <1>3. CASE m.type \in Expects(v.state) /\ Accepts(v, m) /\ Takes(v, m, w)
    <2>1. CASE m.type \in Expects("WaitHand") /\ v.state = "WaitHand"
      <3>1. m.type \in {"HandStart", "EndOfGame", "PlayerIdChanged"}
        BY <2>1, ExpectedTypes
      <3> QED BY <1>3, <2>1, <3>1 DEF Takes, StartsHand, ChangesId
    <2>2. CASE m.type \in Expects("RunHand") /\ v.state = "RunHand"
      <3>1. m.type \in {"ActionDone", "PlayersTurn", "DealCards", "AllInShowCards",
                        "EndOfHandHide", "EndOfHandShow"}
        BY <2>2, ExpectedTypes
      <3> QED BY <1>3, <2>2, <3>1
              DEF Takes, TakesAction, TakesTurn, TakesCards, ShowsCards, EndsHand, SameIds
    <2>3. v.state \in {"WaitHand", "RunHand"}
      BY <1>3, ExpectedTypes
    <2> QED BY <1>3, <2>1, <2>2, <2>3
  <1>4. CASE w.state = "Thrown"
    BY <1>4
  <1> QED BY <1>1, <1>2, <1>3, <1>4 DEF Sees

\* Every message does so.
LEMMA MessageHand ==
    ASSUME NetTypeOK, ClientTakes \/ ClientAnswers
    PROVE  /\ HandKept
           /\ up' = up \/ \E r \in RequestType : up' = Append(up, r)
           /\ client'.state = "RunHand" /\ Head(down).type # "HandStart" =>
                 client.state = "RunHand" /\ client'.hand = client.hand
           /\ client'.state = "RunHand" =>
                 Head(down).type \notin {"EndOfHandHide", "EndOfHandShow"}
  <1>1. /\ client \in ClientType /\ client' \in ClientType /\ down # << >>
        /\ Sees(View(client), Head(down), View(client'))
        /\ up' = up \/ \E r \in RequestType : up' = Append(up, r)
    BY DEF NetTypeOK, ClientTakes, ClientAnswers, SeesOldest, TakesOldest
  <1>2. /\ View(client).state \in {"NoTable", "WaitHand", "RunHand", "Thrown"}
        /\ View(client).state \in {"WaitHand", "RunHand"} =>
              client.state = View(client).state /\ View(client).hand = client.hand
    BY <1>1, ViewHand
  <1>3. ASSUME client'.state \in {"WaitHand", "RunHand"}
        PROVE  View(client').state = client'.state /\ View(client').hand = client'.hand
    BY <1>1, <1>3, ViewHand
  <1>4. ASSUME client'.state \in {"WaitHand", "RunHand"}
        PROVE  /\ \/ client.state \in {"WaitHand", "RunHand"} /\ client'.hand = client.hand
                  \/ client'.hand = 0
                  \/ /\ Head(down).type \in {"HandStart", "GameStartRejoin"}
                     /\ client'.hand = Head(down).hand
               /\ client'.state = "RunHand" /\ Head(down).type # "HandStart" =>
                     client.state = "RunHand" /\ client'.hand = client.hand
               /\ client'.state = "RunHand" =>
                     Head(down).type \notin {"EndOfHandHide", "EndOfHandShow"}
    <2> DEFINE v == View(client)
               w == View(client')
    <2>1. /\ v.state \in {"NoTable", "WaitHand", "RunHand", "Thrown"}
          /\ Sees(v, Head(down), w) /\ w.state \in {"WaitHand", "RunHand"}
      BY <1>1, <1>2, <1>3, <1>4
    <2>2. /\ v.state \in {"WaitHand", "RunHand"} =>
                client.state = v.state /\ v.hand = client.hand
          /\ w.state = client'.state /\ w.hand = client'.hand
      BY <1>2, <1>3, <1>4
    <2> HIDE DEF v, w
    <2> QED BY <2>1, <2>2, SeesHand
  <1> QED BY <1>1, <1>4 DEF HandKept

\* Without a message nothing of that changes.
LEMMA UserHand ==
    ASSUME NetTypeOK, ClientAlone \/ UserStep
    PROVE  /\ HandKept
           /\ up' = up \/ \E r \in RequestType : up' = Append(up, r)
           /\ client'.state = "RunHand" =>
                 client.state = "RunHand" /\ client'.hand = client.hand
  <1>1. /\ client \in ClientType /\ client' \in ClientType
        /\ View(client') = View(client)
        /\ up' = up \/ \E r \in RequestType : up' = Append(up, r)
    BY UserSees DEF NetTypeOK
  <1>2. client'.state \in {"WaitHand", "RunHand"} =>
           client'.state = client.state /\ client'.hand = client.hand
    BY <1>1, ViewHand
  <1> QED BY <1>1, <1>2 DEF HandKept

\* The messages of a hand leave the rule as it is.
LEMMA MessageRule ==
    ASSUME NetTypeOK, CActionDone \/ CDealCards \/ CAllInShowCards
    PROVE  client'.state = "RunHand" => RuleStep(client)
  <1>1. client \in ClientType
    BY DEF NetTypeOK
  <1>2. ASSUME Throws
        PROVE  client'.state # "RunHand"
    BY <1>1, <1>2 DEF Throws, Becomes, ClientType
  <1>3. CASE CActionDone
    <2> DEFINE m == Head(down)
               action == [client.action EXCEPT ![m.who] = m.action]
               set == [client.set EXCEPT ![m.who] = m.set]
               cash == [client.cash EXCEPT ![m.who] = m.cash]
               sets == set[0] + set[1]
               big == IF m.who = Me /\ m.blind # "no" THEN m.blind = "big" ELSE client.bigBlind
               previous == IF m.blind # "no" THEN client.previous
                           ELSE IF m.who = Me THEN "me" ELSE "other"
               done == Done(client, action, set, cash, sets, m.highestSet, m.minimumRaise,
                            big, previous)
    <2>1. Throws \/ client' = done
      BY <1>3 DEF CActionDone, Throws, Becomes, Done
    <2>2. Handles("ActionDone")
      BY <1>3 DEF CActionDone
    <2>3. m \in Messages /\ m.type = "ActionDone"
      BY <2>2, OldestMessage DEF NetTypeOK, Handles, Receives
    <2>4. /\ m.who \in Seats /\ m.blind \in {"no", "small", "big"}
          /\ m.action \in Actions /\ m.set \in Nat /\ m.cash \in Nat
          /\ m.highestSet \in Nat /\ m.minimumRaise \in Nat
      BY <2>3, MessageFields
    <2> HIDE DEF m
    <2>5. /\ action \in [Seats -> Actions] /\ set \in [Seats -> Int]
          /\ cash \in [Seats -> Int] /\ set[0] \in Int /\ set[1] \in Int
      BY <1>1, <2>4 DEF ClientType, Seats
    <2>6. /\ sets \in Int /\ m.highestSet \in Int /\ m.minimumRaise \in Int
          /\ previous \in {"none", "me", "other"}
      BY <1>1, <2>4, <2>5 DEF ClientType
    <2>8. big \in BOOLEAN
      <3>1. client.bigBlind \in BOOLEAN
        BY <1>1 DEF ClientType
      <3> QED BY <3>1
    <2> HIDE DEF action, set, cash, sets, big, previous
    <2>7. done.fullBetRule = client.fullBetRule
      BY <1>1, <2>5, <2>6, <2>8, DoneType
    <2> QED BY <1>2, <2>1, <2>7 DEF RuleStep
  <1>4. CASE CDealCards
    <2> DEFINE c == CollectBets(client)
    <2>1. client' = [c EXCEPT !.highestSet = 0, !.previous = "none"]
      BY <1>4 DEF CDealCards, Becomes
    <2>2. c \in ClientType /\ c.fullBetRule = client.fullBetRule
      BY <1>1, CollectBetsType
    <2> HIDE DEF c
    <2>3. client'.fullBetRule = client.fullBetRule
      BY <2>1, <2>2 DEF ClientType
    <2> QED BY <2>3 DEF RuleStep
  <1>5. CASE CAllInShowCards
    <2>1. Throws \/ client' = [client EXCEPT !.allIn = TRUE]
      BY <1>5 DEF CAllInShowCards, Throws, Becomes
    <2>2. Throws \/ client'.fullBetRule = client.fullBetRule
      BY <1>1, <2>1 DEF ClientType
    <2> QED BY <1>2, <2>2 DEF RuleStep
  <1> QED BY <1>3, <1>4, <1>5

\* A new hand starts without the rule.
LEMMA HandStartRule ==
    ASSUME NetTypeOK, NEW minutesUp \in BOOLEAN, CHandStart(minutesUp)
    PROVE  client'.state = "RunHand" => ~client'.fullBetRule
  <1> DEFINE m == Head(down)
             d == client.nextDealer
             next == <<Other(d[1]), client.gen[Other(d[1])]>>
             raised == RaiseBlinds(client.blinds, minutesUp)
             twice == 2 * m.small
             none == [s \in Seats |-> "none"]
             c == [client EXCEPT !.state = "RunHand", !.hand = m.hand, !.active = m.active,
                     !.nextDealer = next, !.blinds = raised, !.smallBlind = m.small,
                     !.minimumRaise = twice, !.highestSet = 0, !.fullBetRule = FALSE,
                     !.action = none, !.round = PREFLOP,
                     !.bigBlind = FALSE, !.allIn = FALSE, !.previous = "none"]
  <1>1. Throws \/ client' = c
    BY DEF CHandStart, Throws, Becomes
  <1>2. client \in ClientType
    BY DEF NetTypeOK
  <1> HIDE DEF m, next, raised, twice, none
  <1>3. c.fullBetRule = FALSE
    BY <1>2 DEF ClientType
  <1> HIDE DEF c
  <1>4. Throws => client'.state # "RunHand"
    BY <1>2 DEF Throws, Becomes, ClientType
  <1> QED BY <1>1, <1>3, <1>4

\* None of the client's steps sets the rule without such a request.
LEMMA ClientStepRule ==
    ASSUME NetTypeOK, ClientStep \/ UserStep
    PROVE  /\ HandKept /\ RuleKept
           /\ up' = up \/ \E r \in RequestType : up' = Append(up, r)
  <1>1. client \in ClientType /\ buttons \in ButtonsType
    BY DEF NetTypeOK
  <1>2. /\ HandKept
        /\ up' = up \/ \E r \in RequestType : up' = Append(up, r)
    BY ClientStepSees, MessageHand, UserHand
  <1> SUFFICES RuleKept
    BY <1>2
  <1>3. ASSUME ClientTakes \/ ClientAnswers, Head(down).type # "HandStart",
               client'.state = "RunHand" => RuleStep(client)
        PROVE  RuleKept
    BY <1>3, MessageHand DEF RuleKept
  <1>4. ASSUME ClientAlone \/ UserStep, client'.state = "RunHand" => RuleStep(client)
        PROVE  RuleKept
    BY <1>4, UserHand DEF RuleKept
  <1>5. CASE CDrop
    BY <1>5 DEF CDrop, clientVars, RuleKept, RuleStep
  <1>6. ASSUME NEW minutesUp \in BOOLEAN, CHandStart(minutesUp)
        PROVE  RuleKept
    BY <1>6, HandStartRule DEF RuleKept
  <1>7. CASE CStartEvent \/ CGameStartInitial \/ CGameStartRejoin \/ CPlayerIdChanged
             \/ CEndOfGame
    <2>1. ClientTakes
      BY <1>7, CStartEventSees, CGameStartInitialSees, CGameStartRejoinSees,
         CPlayerIdChangedSees, CEndOfGameSees
    <2>2. PICK type \in {"StartEvent", "GameStartInitial", "GameStartRejoin",
                         "PlayerIdChanged", "EndOfGame"} : Handles(type)
      BY <1>7 DEF CStartEvent, CGameStartInitial, CGameStartRejoin, CPlayerIdChanged,
                  CEndOfGame
    <2>3. type \in Expects(client.state) /\ Head(down).type = type
      BY <2>2 DEF Handles, Receives
    <2>4. client.state # "RunHand" /\ Head(down).type # "HandStart"
      BY <1>1, <2>2, <2>3, HandledIn
    <2>5. client'.state # "RunHand"
      BY <2>1, <2>4, MessageHand
    <2> QED BY <2>5 DEF RuleKept
  <1>8. CASE CEndOfHandHide \/ CEndOfHandShow
    <2>1. ClientTakes
      BY <1>8, CEndOfHandHideSees, CEndOfHandShowSees
    <2>2. Head(down).type \in {"EndOfHandHide", "EndOfHandShow"}
      BY <1>8 DEF CEndOfHandHide, CEndOfHandShow, Handles, Receives
    <2>3. client'.state # "RunHand"
      BY <2>1, <2>2, MessageHand
    <2> QED BY <2>3 DEF RuleKept
  <1>9. CASE CActionDone \/ CDealCards \/ CAllInShowCards \/ CPlayersTurn
    <2>1. ClientTakes \/ ClientAnswers
      BY <1>9, CActionDoneSees, CDealCardsSees, CAllInShowCardsSees, CPlayersTurnSees
    <2>2. Head(down).type \in {"ActionDone", "DealCards", "AllInShowCards", "PlayersTurn"}
      BY <1>9 DEF CActionDone, CDealCards, CAllInShowCards, CPlayersTurn, Handles, Receives
    <2>3. client'.state = "RunHand" => RuleStep(client)
      BY <1>9, MessageRule, CPlayersTurnRule
    <2> QED BY <1>3, <2>1, <2>2, <2>3
  <1>10. CASE CSynchronized
    <2>1. client'.state # "RunHand"
      BY <1>1, <1>10 DEF CSynchronized, Becomes, ClientType
    <2> QED BY <2>1 DEF RuleKept
  <1>11. CASE CDealCardsEnd \/ CPostRiverRunAnimation2
    <2>1. client' = client
      BY <1>11, TimersType
    <2>2. RuleStep(client)
      BY <2>1 DEF RuleStep
    <2> QED BY <1>4, <1>11, <2>2 DEF ClientAlone
  <1>12. CASE UserStep
    <2>1. ASSUME NEW button \in Buttons, TickButton(button) \/ ClickButton(button)
          PROVE  RuleStep(client)
      BY <1>1, <2>1, AnswerRule DEF TickButton, ClickButton, Becomes, RuleStep
    <2>2. ASSUME NEW value \in 0..MaxBet, SpinBoxBetValueChanged(value)
          PROVE  RuleStep(client)
      BY <2>2 DEF SpinBoxBetValueChanged, Becomes, RuleStep
    <2>3. RuleStep(client)
      BY <1>12, <2>1, <2>2 DEF UserStep
    <2> QED BY <1>4, <1>12, <2>3
  <1>13. CASE \E minutesUp \in BOOLEAN : CHandStart(minutesUp)
    BY <1>6, <1>13
  <1> QED BY <1>5, <1>7, <1>8, <1>9, <1>10, <1>11, <1>12, <1>13 DEF ClientStep

\* No hand the client plays or is told of is later than the server's.
NumberedTo(ms, number) ==
    \A i \in 1..Len(ms) :
        ms[i].type \in {"HandStart", "GameStartRejoin"} => ms[i].hand <= number
HandNumbers ==
    /\ client.state \in {"WaitHand", "RunHand"} => client.hand <= hands
    /\ NumberedTo(down, hands)

\* While the server plays the hand of a client that has the rule, his request to
\* go all in is on its way or was taken, if none was refused.
WentAllIn ==
    \/ astray = hands
    \/ \E i \in 1..Len(up) : up[i].action = "allin"
    \/ hand.action[Me] = "allin"
Plays == game /\ state \in {"Hand", "WaitPlayerAction"}
RuleKnown ==
    client.state = "RunHand" /\ client.fullBetRule /\ client.hand = hands /\ Plays => WentAllIn

LEMMA ClientSideRule ==
    ASSUME NetTypeOK, HandNumbers, RuleKnown, ClientStep \/ UserStep
    PROVE  HandNumbers' /\ RuleKnown'
  <1>1. /\ HandKept /\ RuleKept
        /\ up' = up \/ \E r \in RequestType : up' = Append(up, r)
    BY ClientStepRule
  <1>2. /\ UNCHANGED <<vars, hands, astray>>
        /\ down' = down \/ (down # << >> /\ down' = Tail(down))
    BY ClientStepSees, UserSees DEF ClientTakes, ClientAnswers, TakesOldest
  <1>3. /\ down \in Seq(Messages) /\ up \in Seq(RequestType) /\ hands \in Nat
    BY DEF NetTypeOK
  <1>4. NumberedTo(down', hands)
    <2>1. CASE down # << >> /\ down' = Tail(down)
      BY <1>3, <2>1, OldestMessage DEF HandNumbers, NumberedTo
    <2> QED BY <1>2, <2>1 DEF HandNumbers
  <1>5. client'.state \in {"WaitHand", "RunHand"} => client'.hand <= hands
    <2>1. down # << >> =>
             (Head(down).type \in {"HandStart", "GameStartRejoin"} => Head(down).hand <= hands)
      BY <1>3, OldestMessage DEF HandNumbers, NumberedTo
    <2> QED BY <1>1, <1>3, <2>1 DEF HandKept, HandNumbers
  <1>6. ASSUME client'.state = "RunHand", client'.fullBetRule, client'.hand = hands, Plays
        PROVE  WentAllIn'
    <2>1. /\ client.state = "RunHand" /\ client.hand = hands
          /\ \/ client.fullBetRule
             \/ \E r : up' = Append(up, r) /\ r.action = "allin"
      BY <1>1, <1>6 DEF RuleKept, RuleStep
    <2>2. hand' = hand /\ astray' = astray /\ hands' = hands
      BY <1>2 DEF vars
    <2>3. ASSUME \E i \in 1..Len(up) : up[i].action = "allin"
          PROVE  \E i \in 1..Len(up') : up'[i].action = "allin"
      <3>1. PICK i \in 1..Len(up) : up[i].action = "allin"
        BY <2>3
      <3>2. i \in 1..Len(up') /\ up'[i] = up[i]
        BY <1>1, <1>3
      <3> QED BY <3>1, <3>2
    <2>4. CASE client.fullBetRule
      BY <1>6, <2>1, <2>2, <2>3, <2>4 DEF RuleKnown, WentAllIn
    <2>5. ASSUME NEW r, up' = Append(up, r), r.action = "allin"
          PROVE  WentAllIn'
      <3>1. Len(up') \in 1..Len(up') /\ up'[Len(up')] = r
        BY <1>3, <2>5
      <3> QED BY <2>5, <3>1 DEF WentAllIn
    <2> QED BY <2>1, <2>4, <2>5
  <1>7. Plays' = Plays /\ hands' = hands
    BY <1>2 DEF vars, Plays
  <1> QED BY <1>4, <1>5, <1>6, <1>7 DEF HandNumbers, RuleKnown

\* The client's table is gone.
LEMMA DisconnectRule ==
    ASSUME Disconnect
    PROVE  HandNumbers' /\ RuleKnown'
  <1>1. client' = NoTable("Closed") /\ down' = << >>
    BY DEF Disconnect
  <1>2. client'.state = "Closed"
    BY <1>1, NoTableType DEF ClientStates
  <1> QED BY <1>1, <1>2 DEF HandNumbers, RuleKnown, NumberedTo

\* Messages are sent, and perhaps a new hand has begun.
LEMMA SentNumbers ==
    ASSUME NetTypeOK, HandNumbers, UNCHANGED client, hands' \in Nat, hands <= hands',
           NEW S, NEW ms \in Seq(S), NumberedTo(ms, hands'),
           down' = down \/ down' = down \o ms
    PROVE  HandNumbers'
  <1>1. down \in Seq(Messages) /\ hands \in Nat /\ client \in ClientType
    BY DEF NetTypeOK
  <1>2. client'.state \in {"WaitHand", "RunHand"} => client'.hand <= hands'
    <2>1. client.hand \in Nat
      BY <1>1 DEF ClientType
    <2> QED BY <1>1, <2>1 DEF HandNumbers
  <1>3. ASSUME NEW i \in 1..Len(down), down[i].type \in {"HandStart", "GameStartRejoin"}
        PROVE  down[i].hand <= hands'
    <2>1. down[i] \in Messages /\ down[i].hand <= hands
      BY <1>1, <1>3 DEF HandNumbers, NumberedTo
    <2>2. down[i].hand \in Nat
      BY <1>3, <2>1, MessageFields
    <2> QED BY <1>1, <2>1, <2>2
  <1>4. NumberedTo(down', hands')
    <2>1. CASE down' = down
      BY <1>3, <2>1 DEF NumberedTo
    <2>2. CASE down' = down \o ms
      <3> SUFFICES ASSUME NEW i \in 1..Len(down \o ms),
                          (down \o ms)[i].type \in {"HandStart", "GameStartRejoin"}
                   PROVE  (down \o ms)[i].hand <= hands'
        BY <2>2 DEF NumberedTo
      <3>1. CASE i \in 1..Len(down)
        BY <1>1, <1>3, <3>1
      <3>2. CASE i \notin 1..Len(down)
        <4>1. i - Len(down) \in 1..Len(ms) /\ (down \o ms)[i] = ms[i - Len(down)]
          BY <1>1, <3>2
        <4> QED BY <4>1 DEF NumberedTo
      <3> QED BY <3>1, <3>2
    <2> QED BY <2>1, <2>2
  <1> QED BY <1>2, <1>4 DEF HandNumbers

\* The messages that start no hand.
NoStart(m) == m.type \notin {"HandStart", "GameStartRejoin"}

LEMMA SendNumbers ==
    ASSUME NetTypeOK, HandNumbers, KeepIds, NEW m, NoStart(m), NEW n, NoStart(n),
           Send(<<m>>) \/ Send(<<m, n>>) \/ UNCHANGED net
    PROVE  /\ HandNumbers'
           /\ UNCHANGED <<client, hands, up, astray>>
  <1>1. UNCHANGED <<client, hands, up, astray>> /\ hands' \in Nat /\ hands <= hands'
    BY DEF Send, KeepIds, net, NetTypeOK
  <1> DEFINE one == <<m>>
             two == <<m, n>>
  <1>2. /\ one \in Seq({m, n}) /\ NumberedTo(one, hands')
        /\ two \in Seq({m, n}) /\ NumberedTo(two, hands')
    BY DEF NumberedTo, NoStart
  <1>3. down' = down \/ down' = down \o one \/ down' = down \o two
    BY DEF Send, net
  <1> HIDE DEF one, two
  <1> QED BY <1>1, <1>2, <1>3, SentNumbers

\* Who is all in in the hand stays so.
LEMMA TableRule ==
    ASSUME TInv, RuleKnown, UNCHANGED <<client, hands, up, astray>>,
           IdleStep \/ TimerLoop \/ PlayerActs
    PROVE  RuleKnown'
  <1>1. ASSUME Plays'
        PROVE  Plays /\ (hand.action[Me] = "allin" => hand'.action[Me] = "allin")
    BY <1>1, AllInStays, MeAndYou DEF Plays
  <1>2. Plays' => Plays /\ (WentAllIn => WentAllIn')
    BY <1>1 DEF WentAllIn
  <1> QED BY <1>2 DEF RuleKnown

LEMMA SLoopRule ==
    ASSUME TInv, NetTypeOK, HandNumbers, RuleKnown, SLoop
    PROVE  HandNumbers' /\ RuleKnown'
  <1> DEFINE h == PlayHand(hand)
  <1>1. /\ KeepIds /\ TimerLoop
        /\ \/ EngineThrows(h) /\ Disconnect
           \/ DealRound(h) /\ Send(<<IF h.allIn /\ ~h.shown /\ NonFold(h) = Seats
                                     THEN AllInShowCards ELSE DealCards>>)
           \/ SkipAbsent(h)
                /\ Send(<<PlayersTurn(h), ActionDone(hand', h.turn, ids[h.turn], "no")>>)
           \/ AskPlayer(h) /\ Send(<<PlayersTurn(h)>>)
           \/ FinishHand(h) /\ Send(
                 <<IF NonFold(h) = Seats THEN EndOfHandShow(PostRiverRun(h))
                   ELSE EndOfHandHide(PostRiverRun(h), CHOOSE s \in NonFold(h) : TRUE)>>
                 \o IF state' = "Init" THEN <<EndOfGame(Other(hand.dealer))>> ELSE << >>)
    BY DEF SLoop, SEngine, TimerLoop, EngineLoop
  <1> HIDE DEF h
  <1> DEFINE cards == IF h.allIn /\ ~h.shown /\ NonFold(h) = Seats
                      THEN AllInShowCards ELSE DealCards
             ask == PlayersTurn(h)
             skip == ActionDone(hand', h.turn, ids[h.turn], "no")
             end == IF NonFold(h) = Seats THEN EndOfHandShow(PostRiverRun(h))
                    ELSE EndOfHandHide(PostRiverRun(h), CHOOSE s \in NonFold(h) : TRUE)
             over == EndOfGame(Other(hand.dealer))
  <1>2. NoStart(cards) /\ NoStart(ask) /\ NoStart(skip) /\ NoStart(over)
    BY DEF NoStart, AllInShowCards, DealCards, PlayersTurn, ActionDone, EndOfGame
  <1>3. NoStart(end)
    BY DEF NoStart, EndOfHandShow, EndOfHandHide
  <1>4. \/ Disconnect
        \/ Send(<<cards>>) \/ Send(<<ask, skip>>) \/ Send(<<ask>>)
        \/ Send(<<end>> \o IF state' = "Init" THEN <<over>> ELSE << >>)
    BY <1>1
  <1> HIDE DEF cards, ask, skip, end, over
  <1>5. \/ <<end>> \o (IF state' = "Init" THEN <<over>> ELSE << >>) = <<end>>
        \/ <<end>> \o (IF state' = "Init" THEN <<over>> ELSE << >>) = <<end, over>>
    <2>1. <<end>> \o <<over>> = <<end, over>>
      BY TwoMessages
    <2>2. <<end>> \o << >> = <<end>>
      <3>1. <<end>> \in Seq({end})
        OBVIOUS
      <3> QED BY <3>1, ConcatEmptySeq
    <2> QED BY <2>1, <2>2
  <1>6. CASE Disconnect
    BY <1>6, DisconnectRule
  <1>7. CASE ~Disconnect
    <2>1. HandNumbers' /\ UNCHANGED <<client, hands, up, astray>>
      BY <1>1, <1>2, <1>3, <1>4, <1>5, <1>7, SendNumbers
    <2> QED BY <1>1, <2>1, TableRule
  <1> QED BY <1>6, <1>7

\* The next hand has a number that the client's cannot have.
LEMMA SNextHandRule ==
    ASSUME ClientInv, HandNumbers, NEW idle \in SUBSET Seats, NEW forced \in SUBSET Seats,
           NEW minutesUp \in BOOLEAN, NEW value \in Dealt, NEW order \in Orders,
           SNextHand(idle, forced, minutesUp, value, order)
    PROVE  HandNumbers' /\ RuleKnown'
  <1> DEFINE start == <<HandStart(hand', hands', active'[Me])>>
             blinds2 == BlindsPaid(hand', ids')
             back == Rejoined(order)
  <1>1. TInv /\ NetInv /\ TInv' /\ NetTypeOK
    <2>1. TimerNextHand(idle, forced, minutesUp, value) /\ value \in Deals
      BY ClientAssumption DEF SNextHand
    <2> QED BY <2>1, TableKeeps DEF Next, ClientInv, NetInv
  <1>2. /\ hand \in HandType /\ hand' \in HandType
        /\ hands' = hands + 1 /\ ids' = NextIds /\ active'[Me] \in BOOLEAN
    BY <1>1, NextHandTable
  <1>3. /\ hands \in Nat /\ hands' \in Nat /\ ids' \in [Seats -> Nat]
        /\ client \in ClientType
    BY <1>1, <1>2, IdsAfterAll DEF NetTypeOK
  <1>4. /\ {order[i] : i \in 1..Len(order)} = rejoin
        /\ IF Me \in forced THEN Disconnect ELSE Send(back \o start \o blinds2)
    BY DEF SNextHand
  <1>5. CASE Me \in forced
    BY <1>4, <1>5, DisconnectRule
  <1>6. CASE Me \notin forced
    <2>1. start \in Seq(Messages) /\ blinds2 \in Seq(Messages) /\ back \in Seq(Messages)
      BY <1>1, <1>2, <1>3, <1>4, NewHandParts, RejoinedSeen
    <2>2. NumberedTo(start, hands')
      <3>1. HandStart(hand', hands', active'[Me]).hand = hands'
        BY DEF HandStart
      <3> QED BY <1>3, <3>1 DEF NumberedTo
    <2>3. NumberedTo(blinds2, hands')
      BY DEF BlindsPaid, ActionDone, NumberedTo
    <2>4. NumberedTo(back, hands')
      <3>1. ASSUME NEW i \in 1..Len(order)
            PROVE  /\ back[i] = RejoinMessage(order, i)
                   /\ back[i].type = "GameStartRejoin" => back[i].hand = hands
                   /\ back[i].type # "HandStart"
        <4>1. back[i] = RejoinMessage(order, i)
          BY DEF Rejoined, RejoinMessage, IdsAfter
        <4>2. order[i] \in Seats
          BY DEF Orders, Seats
        <4> QED BY <1>1, <1>2, <4>1, <4>2, RejoinMessageFacts
      <3>2. Len(back) = Len(order)
        BY DEF Rejoined, Orders
      <3> QED BY <1>2, <1>3, <3>1, <3>2 DEF NumberedTo
    <2> DEFINE ms == back \o start \o blinds2
    <2>5. ms \in Seq(Messages) /\ NumberedTo(ms, hands')
      <3> HIDE DEF back, start, blinds2
      <3>1. /\ ms \in Seq(Messages)
            /\ Len(ms) = Len(back) + Len(start) + Len(blinds2)
        BY <2>1
      <3>2. ASSUME NEW i \in 1..Len(ms)
            PROVE  \/ i \in 1..Len(back) /\ ms[i] = back[i]
                   \/ \E j \in 1..Len(start) : ms[i] = start[j]
                   \/ \E j \in 1..Len(blinds2) : ms[i] = blinds2[j]
        <4> DEFINE front == back \o start
        <4>1. /\ front \in Seq(Messages) /\ Len(front) = Len(back) + Len(start)
              /\ \A k \in 1..Len(back) : front[k] = back[k]
              /\ \A k \in 1..Len(start) : front[k + Len(back)] = start[k]
          BY <2>1
        <4>2. /\ \A k \in 1..Len(front) : ms[k] = front[k]
              /\ \A k \in 1..Len(blinds2) : ms[k + Len(front)] = blinds2[k]
          <5> HIDE DEF front
          <5>1. ms = front \o blinds2
            BY DEF front
          <5> QED BY <2>1, <4>1, <5>1
        <4> HIDE DEF front, ms
        <4>3. Len(back) \in Nat /\ Len(start) \in Nat /\ Len(blinds2) \in Nat
          BY <2>1
        <4>4. CASE i <= Len(back)
          BY <3>1, <4>1, <4>2, <4>3, <4>4
        <4>5. CASE i > Len(back) /\ i <= Len(front)
          <5>1. i - Len(back) \in 1..Len(start) /\ (i - Len(back)) + Len(back) = i
            BY <4>1, <4>3, <4>5
          <5> QED BY <4>1, <4>2, <4>3, <4>5, <5>1
        <4>6. CASE i > Len(front)
          <5>1. i - Len(front) \in 1..Len(blinds2) /\ (i - Len(front)) + Len(front) = i
            BY <3>1, <4>1, <4>3, <4>6
          <5> QED BY <4>2, <5>1
        <4> QED BY <4>1, <4>3, <4>4, <4>5, <4>6
      <3> HIDE DEF ms
      <3> QED BY <2>2, <2>3, <2>4, <3>1, <3>2 DEF NumberedTo
    <2> HIDE DEF ms
    <2>6. UNCHANGED client /\ (down' = down \/ down' = down \o ms)
      BY <1>4, <1>6 DEF Send, ms
    <2>7. HandNumbers'
      BY <1>1, <1>2, <1>3, <2>5, <2>6, SentNumbers
    <2>8. client'.state = "RunHand" => client'.hand # hands'
      <3>1. client.hand \in Nat
        BY <1>3 DEF ClientType
      <3> QED BY <1>2, <1>3, <2>6, <3>1 DEF HandNumbers
    <2> QED BY <2>7, <2>8 DEF RuleKnown
  <1> QED BY <1>5, <1>6

\* A request is refused and the hand remembered, or the player has acted.
LEMMA SRequestRule ==
    ASSUME TInv, NetTypeOK, HandNumbers, RuleKnown, SRequest
    PROVE  HandNumbers' /\ RuleKnown'
  <1> DEFINE r == Head(up)
             a == FillIn(hand, Me, r.action, r.bet)
             m == ActionDone(hand', Me, ids[Me], "no")
  <1>1. /\ up # << >> /\ up' = Tail(up) /\ UNCHANGED <<client, hands>>
        /\ \/ /\ MyActionRequest(Me, r.round, r.action, r.bet)
              /\ down' = Append(down, m)
              /\ astray' \in {astray, hands}
           \/ astray' = hands /\ UNCHANGED down
    BY DEF SRequest, KeepIds
  <1>2. /\ r \in RequestType /\ up \in Seq(RequestType) /\ down \in Seq(Messages)
        /\ hands' \in Nat /\ hands <= hands'
    BY <1>1 DEF NetTypeOK
  <1>3. r.action \in Actions /\ r.bet \in Int /\ Me \in Seats /\ hand \in HandType
    BY <1>2, MeAndYou DEF RequestType, TInv, IInv, TypeOK
  <1>4. HandNumbers'
    <2>1. NoStart(m)
      BY DEF NoStart, ActionDone
    <2> HIDE DEF m
    <2>2. <<m>> \in Seq({m}) /\ NumberedTo(<<m>>, hands')
      BY <2>1 DEF NumberedTo, NoStart
    <2>3. Append(down, m) = down \o <<m>>
      BY <1>2
    <2>4. down' = down \/ down' = down \o <<m>>
      BY <1>1, <2>3
    <2> QED BY <1>1, <1>2, <2>2, <2>4, SentNumbers
  <1>5. CASE astray' = hands
    <2>1. WentAllIn'
      BY <1>1, <1>5 DEF WentAllIn
    <2> QED BY <1>4, <2>1 DEF RuleKnown
  <1>6. CASE MyActionRequest(Me, r.round, r.action, r.bet) /\ astray' = astray
    <2>1. PlayerActs
      BY <1>3, <1>6, MyActionRequestActs
    <2>2. ASSUME Plays'
          PROVE  Plays /\ (hand.action[Me] = "allin" => hand'.action[Me] = "allin")
      BY <2>1, <2>2, AllInStays, MeAndYou DEF Plays
    <2>3. r.action = "allin" => hand'.action[Me] = "allin"
      <3>1. hand' = PerformPlayerAction(hand, Me, a.action, a.bet) /\ Me = hand.turn
        BY <1>6 DEF MyActionRequest, ActionValid
      <3>2. r.action = "allin" => a.action = "allin"
        BY DEF FillIn
      <3>3. a.action \in Actions /\ a.bet \in Int
        <4>1. hand.cash[Me] \in Int /\ hand.highestSet \in Int /\ hand.set[Me] \in Int
          BY <1>3 DEF HandType
        <4> QED BY <1>3, <4>1 DEF FillIn, Actions
      <3>4. hand.set[Me] <= hand.highestSet
        BY <1>3, <2>1 DEF PlayerActs, TInv, EInv, Highest
      <3> HIDE DEF a
      <3>5. hand'.action = [hand.action EXCEPT ![Me] = a.action]
        BY <1>3, <3>1, <3>3, <3>4, PerformPlayerActionFields
      <3>6. hand.action \in [Seats -> Actions]
        BY <1>3 DEF HandType
      <3> QED BY <1>3, <3>2, <3>5, <3>6
    <2>4. ASSUME NEW i \in 1..Len(up), up[i].action = "allin"
          PROVE  r.action = "allin" \/ \E j \in 1..Len(up') : up'[j].action = "allin"
      <3>1. CASE i = 1
        BY <1>1, <1>2, <2>4, <3>1
      <3>2. CASE i # 1
        <4>1. i - 1 \in 1..Len(up') /\ up'[i - 1] = up[i]
          BY <1>1, <1>2, <3>2
        <4> QED BY <2>4, <4>1
      <3> QED BY <3>1, <3>2
    <2> HIDE DEF r
    <2>5. Plays' => Plays /\ (WentAllIn => WentAllIn')
      BY <1>1, <1>6, <2>2, <2>3, <2>4 DEF WentAllIn
    <2> QED BY <1>1, <1>4, <2>5 DEF RuleKnown
  <1> QED BY <1>1, <1>4, <1>5, <1>6

LEMMA ServerStepRule ==
    ASSUME ClientInv, HandNumbers, RuleKnown, ServerStep
    PROVE  HandNumbers' /\ RuleKnown'
  <1>1. TInv /\ NetInv /\ NetTypeOK /\ hand \in HandType
    BY DEF ClientInv, NetInv, TInv, IInv, TypeOK
  <1>2. CASE SLoop
    BY <1>1, <1>2, SLoopRule
  <1>3. ASSUME KeepIds, NEW m, NoStart(m), Send(<<m>>) \/ UNCHANGED net,
               IdleStep \/ PlayerActs
        PROVE  HandNumbers' /\ RuleKnown'
    <2>1. HandNumbers' /\ UNCHANGED <<client, hands, up, astray>>
      BY <1>1, <1>3, SendNumbers
    <2> QED BY <1>1, <1>3, <2>1, TableRule
  <1>4. NoStart(DealCards) /\ \A s : NoStart(EndOfGame(s))
    BY DEF NoStart, DealCards, EndOfGame
  <1>5. \A s, gen, blind : NoStart(ActionDone(hand', s, gen, blind))
    BY DEF NoStart, ActionDone
  <1>6. CASE SShowCards \/ SNextGame
    BY <1>3, <1>4, <1>6 DEF SShowCards, SNextGame, IdleStep
  <1>7. CASE STimeout
    <2>1. PlayerActs
      <3>1. {"check", "fold"} \subseteq Actions /\ 0 \in Int
        BY DEF Actions
      <3> QED BY <1>1, <1>7, <3>1, TimerTimeoutActs DEF STimeout, PlayerActs
    <2> QED BY <1>3, <1>5, <1>7, <2>1 DEF STimeout
  <1>8. ASSUME NEW action \in Actions, NEW bet \in 0..MaxBet,
               SOtherActs(hand.round, action, bet)
        PROVE  HandNumbers' /\ RuleKnown'
    <2>1. /\ MyActionRequest(You, hand.round, action, bet) /\ KeepIds
          /\ Send(<<ActionDone(hand', You, ids[You], "no")>>)
      BY <1>8 DEF SOtherActs
    <2>2. You \in Seats /\ bet \in Int
      BY MeAndYou, TableAssumption
    <2>3. PlayerActs
      BY <1>1, <2>1, <2>2, MyActionRequestActs
    <2> QED BY <1>3, <1>5, <2>1, <2>3
  <1>9. CASE SRequest
    BY <1>1, <1>9, SRequestRule
  <1>10. CASE SResetTimeout \/ SQuiet
    <2>1. IdleStep /\ UNCHANGED net /\ KeepIds
      BY <1>10 DEF SResetTimeout, SQuiet, IdleStep
    <2> QED BY <1>3, <1>4, <2>1
  <1>11. CASE SUnknown
    BY <1>11, DisconnectRule DEF SUnknown
  <1>12. ASSUME NEW s \in Seats, NEW relogin \in BOOLEAN, SLeave(s, relogin)
         PROVE  HandNumbers' /\ RuleKnown'
    <2>1. CASE s = Me
      BY <1>12, <2>1, DisconnectRule DEF SLeave
    <2>2. CASE s # Me
      <3>1. IdleStep /\ UNCHANGED net /\ KeepIds
        BY <1>12, <2>2 DEF SLeave, IdleStep
      <3> QED BY <1>3, <1>4, <3>1
    <2> QED BY <2>1, <2>2
  <1>13. ASSUME NEW s \in Seats, NEW sameSession \in BOOLEAN, SRejoin(s, sameSession)
         PROVE  HandNumbers' /\ RuleKnown'
    <2>1. IdleStep /\ UNCHANGED hands
      BY <1>13 DEF SRejoin, IdleStep
    <2>2. CASE s = Me
      <3>1. client' = NoTable("WaitGame") /\ down' = <<StartEvent>>
        BY <1>13, <2>2 DEF SRejoin
      <3>2. client'.state = "WaitGame"
        BY <3>1, NoTableType DEF ClientStates
      <3> QED BY <3>1, <3>2 DEF HandNumbers, RuleKnown, NumberedTo, StartEvent
    <2>3. CASE s # Me
      <3>1. UNCHANGED <<down, up, client, astray>>
        BY <1>13, <2>3 DEF SRejoin, net
      <3>2. RuleKnown'
        BY <1>1, <2>1, <3>1, TableRule
      <3> QED BY <2>1, <3>1, <3>2 DEF HandNumbers
    <2> QED BY <2>2, <2>3
  <1>14. ASSUME NEW idle \in SUBSET Seats, NEW forced \in SUBSET Seats,
                NEW minutesUp \in BOOLEAN, NEW value \in Dealt, NEW order \in Orders,
                SNextHand(idle, forced, minutesUp, value, order)
         PROVE  HandNumbers' /\ RuleKnown'
    BY <1>14, SNextHandRule
  <1>15. CASE \E idle, forced \in SUBSET Seats, minutesUp \in BOOLEAN, value \in Dealt,
                 order \in {<< >>, <<0>>, <<1>>, <<0, 1>>, <<1, 0>>} :
                 SNextHand(idle, forced, minutesUp, value, order)
    BY <1>14, <1>15 DEF Orders
  <1> QED BY <1>2, <1>6, <1>7, <1>8, <1>9, <1>10, <1>11, <1>12, <1>13, <1>15
          DEF ServerStep

\* The invariant of a client whose buttons are looked at.
OfferInv == ClientInv /\ StakesInv /\ LastTurn /\ HandNumbers /\ RuleKnown

LEMMA NextOffers == OfferInv /\ [ClientNext]_allVars => OfferInv'
  <1> SUFFICES ASSUME OfferInv, [ClientNext]_allVars PROVE OfferInv'
    OBVIOUS
  <1>1. ClientInv'
    BY NextKeeps DEF OfferInv
  <1>2. NetTypeOK /\ TInv /\ StakesInv /\ LastTurn /\ HandNumbers /\ RuleKnown
    BY DEF OfferInv, ClientInv, NetInv
  <1>3. CASE ServerStep
    BY <1>1, <1>2, <1>3, ServerStepTurn, ServerStepStakes, ServerStepRule DEF OfferInv
  <1>4. CASE ClientStep \/ UserStep
    <2>1. UNCHANGED vars
      BY <1>2, <1>4, ClientStepSees, UserSees DEF ClientTakes, ClientAnswers, TakesOldest
    <2>2. StakesInv'
      BY <1>2, <2>1, NextStakes
    <2> QED BY <1>1, <1>2, <1>4, <2>2, ClientStepTurn, UserStepTurn,
         ClientSideRule DEF OfferInv
  <1>5. CASE UNCHANGED allVars
    <2>1. UNCHANGED vars /\ UNCHANGED <<down, client, buttons>>
      BY <1>5 DEF allVars
    <2>2. StakesInv' /\ LastTurn'
      BY <1>2, <2>1, NextStakes, QuietTurn DEF AwaitsMe, vars
    <2>3. HandNumbers' /\ RuleKnown'
      BY <1>2, <1>5 DEF allVars, vars, HandNumbers, RuleKnown, WentAllIn, Plays
    <2> QED BY <1>1, <2>2, <2>3 DEF OfferInv
  <1> QED BY <1>3, <1>4, <1>5 DEF ClientNext, Over

\* Two sequences of two, one after the other.
LEMMA FourInTwos ==
    ASSUME NEW S, NEW s \in Seq(S), NEW t \in Seq(S), Len(s) = 2, Len(t) = 2
    PROVE  /\ Len(s \o t) = 4
           /\ (s \o t)[1] = s[1] /\ (s \o t)[2] = s[2]
           /\ (s \o t)[3] = t[1] /\ (s \o t)[4] = t[2]
  <1>1. /\ Len(s \o t) = Len(s) + Len(t)
        /\ \A i \in 1..Len(s) + Len(t) :
              (s \o t)[i] = IF i <= Len(s) THEN s[i] ELSE t[i - Len(s)]
    BY ConcatProperties
  <1>2. (s \o t)[1] = s[1] /\ (s \o t)[2] = s[2]
    BY <1>1
  <1>3. (s \o t)[3] = t[3 - 2] /\ (s \o t)[4] = t[4 - 2]
    BY <1>1
  <1>4. 3 - 2 = 1 /\ 4 - 2 = 2 /\ Len(s \o t) = 4
    BY <1>1
  <1> QED BY <1>2, <1>3, <1>4

LEMMA InitOffers == ClientInit => OfferInv
  <1> SUFFICES ASSUME ClientInit PROVE OfferInv
    OBVIOUS
  <1>1. Init /\ ClientInv
    BY InitNet DEF ClientInit
  <1>2. state = "Hand"
    BY <1>1 DEF Init
  <1>3. LastTurn
    BY <1>2 DEF LastTurn, AwaitsMe
  <1>4. HandNumbers /\ RuleKnown
    <2>1. client.state \in {"Synchronize", "WaitStart"}
      BY NoTableType DEF ClientInit, ClientStates
    <2> DEFINE game1 == GameStartInitial(hand.dealer)
               hand1 == HandStart(hand, 1, TRUE)
               small == ActionDone(hand, SmallBlindSeat(hand), ids[SmallBlindSeat(hand)], "small")
               big == ActionDone(hand, BigBlindSeat(hand), ids[BigBlindSeat(hand)], "big")
    <2>2. /\ down = <<game1, hand1>> \o <<small, big>> /\ hands = 1
      BY DEF ClientInit, BlindsPaid
    <2>3. /\ NoStart(game1) /\ hand1.hand = 1 /\ NoStart(small) /\ NoStart(big)
      BY DEF NoStart, GameStartInitial, HandStart, ActionDone
    <2> HIDE DEF game1, hand1, small, big
    <2> DEFINE ms == <<game1, hand1>>
               ns == <<small, big>>
               S == {game1, hand1, small, big}
    <2>5. /\ ms \in Seq(S) /\ ns \in Seq(S) /\ Len(ms) = 2 /\ Len(ns) = 2
          /\ ms[1] = game1 /\ ms[2] = hand1 /\ ns[1] = small /\ ns[2] = big
      OBVIOUS
    <2> HIDE DEF S
    <2>4. /\ Len(down) = 4 /\ down[1] = game1 /\ down[2] = hand1
          /\ down[3] = small /\ down[4] = big
      <3>1. down = ms \o ns
        BY <2>2
      <3> HIDE DEF ms, ns
      <3> QED BY <2>5, <3>1, FourInTwos
    <2> QED BY <2>1, <2>2, <2>3, <2>4 DEF HandNumbers, RuleKnown, NumberedTo, NoStart
  <1> QED BY <1>1, <1>3, <1>4, InitStakes DEF OfferInv

LEMMA OfferInvHolds == ClientSpec => []OfferInv
  BY InitOffers, NextOffers, PTL DEF ClientSpec

(***************************************************************************)
(* What the server accepts                                                 *)
(***************************************************************************)

\* The server's check of a request whose omitted amount is filled in.
Passes(h, action, bet) ==
    LET r == FillIn(h, Me, action, bet)
    IN CheckMyAction(h, Me, r.action, r.bet)

\* What FillIn leaves alone.
LEMMA GivenAmount ==
    ASSUME NEW h, NEW action, NEW bet \in Int, bet # 0
    PROVE  /\ FillIn(h, Me, action, bet).action = action
           /\ FillIn(h, Me, action, bet).bet = bet
  BY DEF FillIn

LEMMA FoldCheckAccepted ==
    ASSUME NEW h \in HandType, NEW bet
    PROVE  /\ Passes(h, "fold", bet)
           /\ h.set[Me] >= h.highestSet => Passes(h, "check", bet)
  <1>1. ASSUME NEW a \in {"fold", "check"}
        PROVE  FillIn(h, Me, a, bet).action = a
    BY <1>1 DEF FillIn
  <1>2. FillIn(h, Me, "fold", bet).action = "fold" /\ FillIn(h, Me, "check", bet).action = "check"
    BY <1>1
  <1> QED BY <1>2 DEF Passes, CheckMyAction

LEMMA AllInAccepted ==
    ASSUME NEW h \in HandType, h.cash[Me] > 0
    PROVE  Passes(h, "allin", h.cash[Me])
  <1>1. h.cash[Me] \in Int /\ h.cash[Me] # 0
    BY MeAndYou DEF HandType
  <1> QED BY <1>1, GivenAmount DEF Passes, CheckMyAction

LEMMA CallAccepted ==
    ASSUME NEW h \in HandType, h.cash[Me] > 0, h.set[Me] <= h.highestSet,
           h.cash[Me] + h.set[Me] > h.highestSet
    PROVE  Passes(h, "call", h.highestSet - h.set[Me])
  <1>1. h.cash[Me] \in Nat /\ h.set[Me] \in Nat /\ h.highestSet \in Nat
    BY MeAndYou DEF HandType
  <1>2. CASE h.highestSet = h.set[Me]
    <2>1. FillIn(h, Me, "call", 0).action = "call"
      BY <1>1, <1>2 DEF FillIn
    <2>2. h.highestSet - h.set[Me] = 0
      BY <1>1, <1>2
    <2> QED BY <1>1, <1>2, <2>1, <2>2 DEF Passes, CheckMyAction
  <1>3. CASE h.highestSet # h.set[Me]
    <2> DEFINE n == h.highestSet - h.set[Me]
    <2>1. n \in Int /\ n # 0 /\ n <= h.cash[Me] /\ h.cash[Me] + h.set[Me] >= h.highestSet
      BY <1>1, <1>3
    <2>2. FillIn(h, Me, "call", n).action = "call" /\ FillIn(h, Me, "call", n).bet = n
      BY <2>1, GivenAmount
    <2> QED BY <2>1, <2>2 DEF Passes, CheckMyAction
  <1> QED BY <1>2, <1>3

LEMMA BetAccepted ==
    ASSUME NEW h \in HandType, h.highestSet = 0, h.smallBlind > 0,
           NEW bet \in Int, bet >= 2 * h.smallBlind, bet < h.cash[Me]
    PROVE  Passes(h, "bet", bet)
  <1>1. h.cash[Me] \in Nat /\ h.smallBlind \in Nat
    BY MeAndYou DEF HandType
  <1>2. bet # 0 /\ bet \in (2 * h.smallBlind)..h.cash[Me]
    BY <1>1
  <1> QED BY <1>2, GivenAmount DEF Passes, CheckMyAction

LEMMA RaiseAccepted ==
    ASSUME NEW h \in HandType, h.highestSet > 0, h.set[Me] <= h.highestSet,
           h.minimumRaise > 0, NEW bet \in Int,
           h.set[Me] + bet >= h.highestSet + h.minimumRaise, bet < h.cash[Me]
    PROVE  Passes(h, "raise", bet)
  <1>1. /\ h.cash[Me] \in Nat /\ h.set[Me] \in Nat /\ h.highestSet \in Nat
        /\ h.minimumRaise \in Nat
    BY MeAndYou DEF HandType
  <1>2. bet # 0 /\ bet <= h.cash[Me]
    BY <1>1
  <1> QED BY <1>2, GivenAmount DEF Passes, CheckMyAction

(***************************************************************************)
(* What is offered is accepted                                             *)
(***************************************************************************)

\* The client's table shows what Me's offers depend on.
ShowsMe(t, h) ==
    /\ t.cash[Me] = h.cash[Me] /\ t.set[Me] = h.set[Me] /\ t.highestSet = h.highestSet
    /\ t.round = h.round /\ t.smallBlind = h.smallBlind

\* A player is asked for his action on a hand like this.
Playable(h) == h.set[Me] <= h.highestSet /\ StakesFit(h)

\* A first bet has two blinds at least.
LEMMA BetIsEnough ==
    ASSUME NEW t \in ClientType, NEW h \in HandType, ShowsMe(t, h), Playable(h),
           t.minimumRaise = h.minimumRaise, NEW label \in LabelType, label.text = "Bet",
           MayBet(t), AmountFits(t, label), label.amount < t.cash[Me]
    PROVE  h.highestSet = 0 /\ label.amount >= 2 * h.smallBlind
  <1>1. /\ t.cash[Me] \in Int /\ h.set[Me] \in Nat /\ h.smallBlind \in Nat
        /\ h.minimumRaise \in Nat /\ label.amount \in Int
    BY MeAndYou DEF ClientType, HandType, LabelType
  <1>2. h.highestSet = 0 /\ h.set[Me] = 0 /\ h.minimumRaise >= 2 * h.smallBlind
    BY <1>1 DEF MayBet, ShowsMe, Playable, StakesFit
  <1>3. LeastBet(t, label.text) = Min2(t.cash[Me], 2 * h.smallBlind)
    BY DEF LeastBet, ShowsMe
  <1>4. \/ label.amount >= Min2(t.cash[Me], 2 * h.smallBlind)
        \/ label.amount >= Min2(h.minimumRaise, t.cash[Me])
    <2>1. t.highestSet - t.set[Me] + t.minimumRaise = h.minimumRaise
      BY <1>1, <1>2 DEF ShowsMe
    <2> QED BY <1>3, <2>1 DEF AmountFits
  <1> QED BY <1>1, <1>2, <1>4 DEF Min2

\* A raise is at least the least one.
LEMMA RaiseIsEnough ==
    ASSUME NEW t \in ClientType, NEW h \in HandType, ShowsMe(t, h), Playable(h),
           t.minimumRaise = h.minimumRaise, NEW label \in LabelType, label.text = "Raise",
           MayRaise(t), AmountFits(t, label), label.amount < t.cash[Me]
    PROVE  /\ h.highestSet > 0 /\ h.minimumRaise > 0
           /\ h.set[Me] + label.amount >= h.highestSet + h.minimumRaise
  <1>1. /\ t.cash[Me] \in Int /\ h.set[Me] \in Nat /\ h.smallBlind \in Nat
        /\ h.minimumRaise \in Nat /\ h.highestSet \in Nat /\ label.amount \in Int
    BY MeAndYou DEF ClientType, HandType, LabelType
  <1>2. h.highestSet > 0 /\ h.minimumRaise > 0
    BY <1>1 DEF MayRaise, ShowsMe, Playable, StakesFit
  <1>3. LeastBet(t, label.text)
           = Min2(t.cash[Me], h.highestSet - h.set[Me] + h.minimumRaise)
    BY DEF LeastBet, ShowsMe
  <1>4. \/ label.amount >= Min2(t.cash[Me], h.highestSet - h.set[Me] + h.minimumRaise)
        \/ label.amount >= Min2(h.highestSet - h.set[Me] + h.minimumRaise, t.cash[Me])
    BY <1>3 DEF AmountFits, ShowsMe
  <1> QED BY <1>1, <1>2, <1>4 DEF Min2

\* The request of a table with that action and amount.
LEMMA RequestAsks ==
    ASSUME NEW t \in ClientType, NEW action, NEW bet, AsksFor(t, action, bet),
           action \notin {"fold", "check"}
    PROVE  Request(t).action = action /\ Request(t).bet = bet
  BY DEF Request, AsksFor

LEMMA OfferAccepted ==
    ASSUME NEW t \in ClientType, NEW b \in ButtonsType, NEW h \in HandType,
           NEW button \in Buttons, Acts(b, button), ~IsCheckable(b, button), OfferFits(t, b),
           ShowsMe(t, h), Playable(h),
           button = "bet" => t.minimumRaise = h.minimumRaise,
           \/ h.cash[Me] > 0
           \/ Request(Act(t, b, button)).action \in {"fold", "check"}
    PROVE  Passes(h, Request(Act(t, b, button)).action, Request(Act(t, b, button)).bet)
  <1> DEFINE u == Act(t, b, button)
             r == Request(u)
  <1>1. u \in ClientType
    BY ActType
  <1>2. /\ t.cash[Me] = h.cash[Me] /\ t.set[Me] = h.set[Me]
        /\ t.highestSet = h.highestSet
    BY DEF ShowsMe
  <1>3. /\ h.cash[Me] \in Nat /\ h.set[Me] \in Nat /\ h.highestSet \in Nat
        /\ h.set[Me] <= h.highestSet
    BY MeAndYou DEF HandType, Playable
  <1>4. h.cash[Me] > 0 \/ r.action \in {"fold", "check"}
    OBVIOUS
  <1>5. ASSUME AsksFor(u, "allin", t.cash[Me])
        PROVE  Passes(h, r.action, r.bet)
    <2>1. r.action = "allin" /\ r.bet = h.cash[Me]
      <3> HIDE DEF u
      <3> QED BY <1>1, <1>2, <1>5, RequestAsks
    <2> QED BY <1>4, <2>1, AllInAccepted
  <1>6. CASE button = "fold"
    <2>1. u = MyFold(t)
      BY <1>6 DEF Act
    <2>2. r.action = "fold"
      BY <2>1, FoldCheckAsk DEF Request
    <2> QED BY <2>2, FoldCheckAccepted
  <1>7. CASE button = "call" /\ b.call.text = "Check"
    <2>1. u = MyCheck(t)
      BY <1>7 DEF Act
    <2>2. r.action = "check"
      BY <2>1, FoldCheckAsk DEF Request
    <2>3. h.set[Me] >= h.highestSet
      <3>1. CheckIsFree(t)
        BY <1>7 DEF OfferFits, IsCheckable
      <3> QED BY <1>2, <1>3, <3>1 DEF CheckIsFree
    <2> QED BY <2>2, <2>3, FoldCheckAccepted
  <1>8. CASE button = "call" /\ b.call.text # "Check"
    <2>1. u = MyCall(t)
      BY <1>8 DEF Act
    <2>2. CASE t.cash[Me] + t.set[Me] > t.highestSet
               /\ AsksFor(u, "call", t.highestSet - t.set[Me])
      <3>1. r.action = "call" /\ r.bet = h.highestSet - h.set[Me]
        <4> HIDE DEF u
        <4> QED BY <1>1, <1>2, <2>2, RequestAsks
      <3>2. h.cash[Me] > 0
        BY <1>4, <3>1
      <3> QED BY <1>2, <1>3, <2>2, <3>1, <3>2, CallAccepted
    <2> QED BY <1>5, <2>1, <2>2, CallAsks
  <1>9. CASE button = "bet"
    <2>1. u = MySet(t, b)
      BY <1>9 DEF Act
    <2>2. /\ b.bet \in LabelType /\ b.bet.amount \in Int
          /\ t.minimumRaise = h.minimumRaise /\ b.bet.text \in {"Bet", "Raise"}
          /\ b.raising = {b.bet.text} /\ AmountFits(t, b.bet) /\ t.action[Me] # "allin"
          /\ b.bet.text = "Bet" => MayBet(t)
          /\ b.bet.text = "Raise" => MayRaise(t)
      <3>1. b.bet.text # "" /\ BetFits(t, b)
        BY <1>9 DEF Acts, OfferFits, IsCheckable
      <3>2. b.bet \in LabelType /\ b.bet.amount \in Int
        BY DEF ButtonsType, LabelType
      <3> QED BY <1>9, <3>1, <3>2 DEF BetFits
    <2>3. ASSUME b.bet.amount < t.cash[Me],
                 AsksFor(u, IF b.bet.text = "Bet" THEN "bet" ELSE "raise", b.bet.amount)
          PROVE  Passes(h, r.action, r.bet)
      <3>1. CASE b.bet.text = "Bet"
        <4>1. r.action = "bet" /\ r.bet = b.bet.amount
          <5>1. AsksFor(u, "bet", b.bet.amount)
            BY <2>3, <3>1
          <5> HIDE DEF u
          <5> QED BY <1>1, <5>1, RequestAsks
        <4>2. h.highestSet = 0 /\ b.bet.amount >= 2 * h.smallBlind
          BY <2>2, <2>3, <3>1, BetIsEnough
        <4>3. h.smallBlind > 0 /\ b.bet.amount < h.cash[Me]
          BY <1>2, <2>3 DEF Playable, StakesFit
        <4> QED BY <2>2, <4>1, <4>2, <4>3, BetAccepted
      <3>2. CASE b.bet.text = "Raise"
        <4>1. r.action = "raise" /\ r.bet = b.bet.amount
          <5>1. AsksFor(u, "raise", b.bet.amount)
            BY <2>3, <3>2
          <5> HIDE DEF u
          <5> QED BY <1>1, <5>1, RequestAsks
        <4>2. /\ h.highestSet > 0 /\ h.minimumRaise > 0
              /\ h.set[Me] + b.bet.amount >= h.highestSet + h.minimumRaise
          BY <2>2, <2>3, <3>2, RaiseIsEnough
        <4>3. b.bet.amount < h.cash[Me]
          BY <1>2, <2>3
        <4> QED BY <1>3, <2>2, <4>1, <4>2, <4>3, RaiseAccepted
      <3> QED BY <2>2, <3>1, <3>2
    <2> QED BY <1>5, <2>1, <2>2, <2>3, SetAsks
  <1>10. CASE button = "allin"
    <2>1. u = MyAllIn(t)
      BY <1>10 DEF Act
    <2> QED BY <1>5, <2>1, AllInAsks
  <1> QED BY <1>6, <1>7, <1>8, <1>9, <1>10 DEF Buttons

\* His client has a table and plays the hand the server plays: no rejoin of his
\* is pending.
LEMMA AskedIsKnown ==
    ASSUME ClientInv, WaitsForMe
    PROVE  Me \notin rejoin /\ client.hand = hands
  <1>1. /\ client \in ClientType /\ down = << >> /\ link[Me] = "in"
        /\ client.state \notin {"WaitGame", "Synchronize", "WaitStart"}
    BY DEF ClientInv, NetInv, NetTypeOK, WaitsForMe
  <1>2. client.state # "Closed"
    BY <1>1 DEF ClientInv, NetInv, Present
  <1>3. View(client).state = client.state
    BY <1>1, <1>2 DEF View, HasTable, TableView
  <1>4. Ends(FALSE, View(client), Mine(client), down, View(client), Mine(client))
    BY <1>1, EndsEmpty
  <1>5. IsCurrent(View(client))
    BY <1>4 DEF ClientInv, NetInv, AllCurrent
  <1>6. View(client).state # "NoTable"
    BY <1>1, <1>3 DEF ClientType, ClientStates
  <1>7. View(client).hand = client.hand
    BY <1>1, <1>2 DEF View, HasTable, TableView
  <1> QED BY <1>5, <1>6, <1>7 DEF IsCurrent, HasIds

\* The strengthened invariant implies the property.
LEMMA InvOffers == OfferInv => OffersAreAccepted
  <1> SUFFICES ASSUME OfferInv, WaitsForMe, NEW button \in Buttons,
                      button = "bet" => client.minimumRaise = hand.minimumRaise,
                      Acts(buttons, button), ~IsCheckable(buttons, button),
                      hand.cash[Me] > 0 \/ Offered(button).action \in {"fold", "check"}
               PROVE  LET r == Offered(button)
                      IN ActionValid(Me, r.round, FillIn(hand, Me, r.action, r.bet))
    BY DEF OffersAreAccepted, OfferIsAccepted
  <1> DEFINE r == Offered(button)
  <1>1. /\ client \in ClientType /\ buttons \in ButtonsType /\ hand \in HandType
        /\ ClientInv /\ TInv /\ EInv /\ StakesInv
    BY DEF OfferInv, ClientInv, TInv, IInv, TypeOK, NetInv, NetTypeOK
  <1>2. AskedSeesTheTable
    BY <1>1, InvAskedSees
  <1>3. client.state = "RunHand" /\ ShowsMe(client, hand)
    BY <1>2 DEF AskedSeesTheTable, ShowsMe
  <1>4. /\ state = "WaitPlayerAction" /\ hand.turn = Me /\ link[Me] = "in"
        /\ down = << >> /\ ~client.answered
    BY DEF WaitsForMe
  <1>5. game /\ Playable(hand)
    <2>1. game /\ Highest(hand) /\ StakesFit(hand)
      BY <1>1, <1>4 DEF EInv, StakesInv
    <2> QED BY <2>1, MeAndYou DEF Playable, Highest
  <1>6. Me \notin rejoin
    BY <1>1, AskedIsKnown
  <1>7. OfferFits(client, buttons)
    <2>1. AwaitsMe
      BY <1>4, <1>6 DEF AwaitsMe
    <2>2. TurnTaken
      BY <1>4, <2>1 DEF OfferInv, LastTurn
    <2>3. client.hand = hands
      BY <1>1, AskedIsKnown
    <2>4. hand.action[Me] # "allin"
      BY <1>1, <1>4 DEF EInv, Decides
    <2>5. up = << >> /\ astray # hands
      BY DEF WaitsForMe
    <2>6. ~WentAllIn
      BY <2>4, <2>5 DEF WentAllIn
    <2>7. ~client.fullBetRule
      BY <1>3, <1>4, <1>5, <2>3, <2>6 DEF OfferInv, RuleKnown, Plays
    <2> QED BY <1>3, <1>4, <2>2, <2>7 DEF TurnTaken
  <1>8. Passes(hand, r.action, r.bet)
    BY <1>1, <1>3, <1>5, <1>7, OfferAccepted DEF Offered
  <1>9. r.round = hand.round
    <2>1. Act(client, buttons, button).round = client.round
      BY <1>1, ActType DEF Clicked
    <2> QED BY <1>3, <2>1 DEF ShowsMe, Offered, Request
  <1> QED BY <1>4, <1>8, <1>9 DEF ActionValid, Passes

\* Every action the buttons offer to the player who is asked is one the server
\* accepts, with the amount the button shows.
THEOREM OffersHold == ClientSpec => []OffersAreAccepted
  BY OfferInvHolds, InvOffers, PTL
=============================================================================
