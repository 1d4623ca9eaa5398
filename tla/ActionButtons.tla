---------------------------- MODULE ActionButtons ----------------------------
(***************************************************************************)
(* The four action buttons of the game table                               *)
(* (src/src/gui/qt/gametable/gametableimpl.cpp): what they offer, what a   *)
(* click does, and actions that are ticked in advance.                     *)
(*                                                                         *)
(* t is the client's copy of the table (ClientHand, ClientBeRo,            *)
(* ClientPlayer), b the state of the buttons:                              *)
(*                                                                         *)
(*   fold, call, bet, allin   the labels; a call or a bet with its amount  *)
(*   checkable, betCheckable  a click ticks the button instead of acting   *)
(*   checked                  the button that is ticked on the screen      *)
(*   memory                   pushButton*IsChecked: the remembered action  *)
(*   raising                  myActionIsBet, myActionIsRaise               *)
(*   deals                    the running timer chains that turn up the    *)
(*                            cards of a round (dealFlopCards0Timer, ...)  *)
(*   clean                    postRiverRunAnimation1Timer is running       *)
(*                                                                         *)
(* and two histories that only the properties read:                        *)
(*                                                                         *)
(*   seen                     what the remembered button said when it was  *)
(*                            ticked                                       *)
(*   repaint                  "due" from the deal of a round until somebody *)
(*                            acts or the player is asked, then "past";    *)
(*                            "late" when a deal timer has painted the     *)
(*                            buttons after that, until they are cleaned   *)
(*                            or the player is asked                       *)
(*                                                                         *)
(* Colours and animations are left out.  The slider and the spin box only  *)
(* move the amount of the bet button within their range, when the user     *)
(* does or when the range changes: the operators that paint the bet button *)
(* yield the set of outcomes.  QAbstractButton (external) unchecks a       *)
(* button that is made not checkable.                                      *)
(***************************************************************************)
EXTENDS HandEngine

CONSTANT Me  \* the seat of this client's player

ASSUME MeAssumption == Me \in Seats

Buttons == {"fold", "call", "bet", "allin"}

Label(text, amount) == [text |-> text, amount |-> amount]
Blank == Label("", 0)

BlankButtons ==
    [fold |-> "", call |-> Blank, bet |-> Blank, allin |-> FALSE,
     checkable |-> FALSE, betCheckable |-> FALSE, checked |-> "none",
     memory |-> "none", raising |-> {}, seen |-> Blank,
     deals |-> 0, clean |-> FALSE, repaint |-> "past"]

\* What a button says, as a label.
Says(b, button) ==
    CASE button = "fold" -> Label(b.fold, 0)
      [] button = "call" -> b.call
      [] button = "bet" -> b.bet
      [] button = "allin" -> Label(IF b.allin THEN "AllIn" ELSE "", 0)

Min2(m, n) == IF m <= n THEN m ELSE n

(***************************************************************************)
(* Small helpers of the window                                             *)
(***************************************************************************)

ClearMyButtons(b) ==
    [b EXCEPT !.fold = "", !.call = Blank, !.bet = Blank, !.allin = FALSE]

\* uncheckMyButtons and resetMyButtonsCheckStateMemory.
ForgetTicks(b) == [b EXCEPT !.checked = "none", !.memory = "none", !.seen = Blank]

\* "exception: full bet rule": the bet button stays as it is.
MyButtonsCheckable(t, b, on) ==
    IF on THEN [b EXCEPT !.checkable = TRUE, !.betCheckable = @ \/ ~t.fullBetRule]
    ELSE [b EXCEPT !.checkable = FALSE, !.betCheckable = FALSE, !.checked = "none"]

\* nextRoundCleanGui, dealBeRoCards and postRiverRunAnimation2 begin alike; none
\* of them stops a timer.
CleanButtons(b) ==
    [BlankButtons EXCEPT !.raising = b.raising, !.deals = b.deals, !.clean = b.clean]

\* Somebody has acted, or the hand is over: no repaint is due any more.
Played(b) == [b EXCEPT !.repaint = IF @ = "due" THEN "past" ELSE @]

(***************************************************************************)
(* provideMyActions                                                        *)
(***************************************************************************)

GetMyCallAmount(t) ==
    IF t.cash[Me] + t.set[Me] <= t.highestSet THEN t.cash[Me]
    ELSE IF t.highestSet > t.set[Me] THEN t.highestSet - t.set[Me] ELSE 0

\* Wrong: the least raise is forgotten.
GetMyBetAmount_NoRaise(t, b) == IF b.bet.amount < t.highestSet - t.set[Me]
    THEN Min2(t.highestSet - t.set[Me], t.cash[Me]) ELSE b.bet.amount

\* The amount on the bet button is kept unless it has become too small.
GetMyBetAmount(t, b) ==
    LET least == t.highestSet - t.set[Me] + t.minimumRaise
    IN IF b.bet.amount < least THEN Min2(least, t.cash[Me]) ELSE b.bet.amount

\* Nothing to offer: all in, folded, or done and matching the highest bet.
\* mode 0 is the call after new cards, whose players have acted before.
NothingToDo(t, mode) ==
    \/ mode # 0 /\ \/ t.action[Me] \in {"allin", "fold"}
                   \/ t.set[Me] = t.highestSet /\ t.action[Me] # "none"
    \/ ~t.active

CanRaise(t) == t.cash[Me] + t.set[Me] > t.highestSet /\ ~t.fullBetRule

CheckIsFree(t) ==
    IF t.round = PREFLOP THEN t.set[Me] = t.highestSet /\ t.bigBlind
    ELSE t.highestSet = 0

FoldText(t, b, mode) ==
    IF mode = 0 THEN IF t.action[Me] = "fold" THEN ""
                     ELSE IF t.bigBlind THEN "Fold" ELSE "CheckFold"
    ELSE IF t.round # PREFLOP /\ t.highestSet = 0 /\ b.checkable THEN "CheckFold"
    ELSE "Fold"

CallLabel(t, mode) ==
    IF mode = 0 THEN IF t.action[Me] = "fold" THEN Blank ELSE Label("Check", 0)
    ELSE IF CheckIsFree(t) THEN Label("Check", 0)
    ELSE IF t.round = PREFLOP \/ t.highestSet > t.set[Me]
    THEN Label("Call", GetMyCallAmount(t))
    ELSE Blank

BetLabel(t, b, mode) ==
    IF mode = 0
    THEN IF t.action[Me] = "fold" THEN Blank ELSE Label("Bet", GetMyBetAmount(t, b))
    ELSE IF t.round # PREFLOP /\ t.highestSet = 0 THEN Label("Bet", GetMyBetAmount(t, b))
    ELSE IF CanRaise(t) /\ (t.round = PREFLOP \/ t.highestSet > t.set[Me])
    THEN Label("Raise", GetMyBetAmount(t, b))
    ELSE Blank

\* The range of the spin box, which is as wide as the cash allows.
LeastBet(t, text) ==
    Min2(t.cash[Me], IF text = "Raise" THEN t.highestSet - t.set[Me] + t.minimumRaise
                     ELSE 2 * t.smallBlind)

\* The amounts the bet button may show once the slider and the spin box have
\* their new range: the label's own, or what they moved it to.
Amounts(t, label) ==
    IF label.text = "" THEN {label.amount}
    ELSE {label.amount} \cup LeastBet(t, label.text)..t.cash[Me]

\* Wrong: a ticked button stays ticked when what it says changes.
ProvideMyActions_KeepTicks(t, b, mode) ==
    IF NothingToDo(t, mode) THEN {ClearMyButtons(MyButtonsCheckable(t, b, FALSE))}
    ELSE LET folded == mode = 0 /\ t.action[Me] = "fold"
             c == IF folded THEN MyButtonsCheckable(t, b, FALSE) ELSE b
             bet == BetLabel(t, b, mode)
         IN {[c EXCEPT
                !.fold = FoldText(t, b, mode), !.call = CallLabel(t, mode),
                !.bet = Label(bet.text, amount), !.allin = ~folded /\ (mode = 0 \/ ~t.fullBetRule),
                !.raising = @ \cup ({bet.text} \ {""})] : amount \in Amounts(t, bet)}

(***************************************************************************)
(* "if text changed on checked button --> do something to prevent unwanted *)
(* actions", "if value changed on bet/raise button --> uncheck".           *)
(***************************************************************************)
ProvideMyActions(t, b, mode) ==
    IF NothingToDo(t, mode) THEN {ClearMyButtons(MyButtonsCheckable(t, b, FALSE))}
    ELSE LET folded == mode = 0 /\ t.action[Me] = "fold"
             c == IF folded THEN MyButtonsCheckable(t, b, FALSE) ELSE b
             call == CallLabel(t, mode)
             bet == BetLabel(t, b, mode)
             unwanted == \/ c.checked = "call" /\ call # b.call
                         \/ /\ c.checked = "bet" /\ bet.text # ""
                            /\ b.bet.amount < LeastBet(t, bet.text)
         IN {[IF unwanted THEN ForgetTicks(c) ELSE c EXCEPT
                !.fold = FoldText(t, b, mode), !.call = call, !.bet = Label(bet.text, amount),
                !.allin = ~folded /\ (mode = 0 \/ ~t.fullBetRule),
                !.raising = @ \cup ({bet.text} \ {""})] : amount \in Amounts(t, bet)}

\* Nobody is offered anything right after his own action.
UpdateMyButtonsState(t, b, mode) ==
    IF t.previous = "me" THEN {ClearMyButtons(MyButtonsCheckable(t, b, FALSE))}
    ELSE IF t.action[Me] = "allin" THEN {b}
    ELSE ProvideMyActions(t, MyButtonsCheckable(t, b, TRUE), mode)

(***************************************************************************)
(* The window's timers.  The buttons are cleaned when the cards of a round *)
(* are dealt, and painted in mode 0 by the end of a chain of timers, on    *)
(* the table as it is then.  A chain runs for seconds, nothing but the end *)
(* of the game stops it, and those of several rounds may overlap; a chain  *)
(* that is started again counts as one more.                               *)
(***************************************************************************)

DealBeRoCards(b) == [CleanButtons(b) EXCEPT !.deals = @ + 1, !.repaint = "due"]

\* The last card is turned up.  When all are all in, nothing is offered.
DealCardsEnd(t, b) ==
    LET done == [b EXCEPT !.deals = @ - 1]
    IN IF t.allIn THEN {done}
       ELSE UpdateMyButtonsState(
                t, [done EXCEPT !.repaint = IF @ = "due" THEN @ ELSE "late"], 0)

\* The end of the hand arms the timer that cleans the buttons.
PostRiverRunAnimation1(b) == [Played(b) EXCEPT !.clean = TRUE]

PostRiverRunAnimation2(b) ==
    [CleanButtons(b) EXCEPT !.clean = FALSE,
                            !.repaint = IF b.repaint = "due" THEN "due" ELSE "past"]

(***************************************************************************)
(* Clicks.  An act yields the client's table after it; the request of      *)
(* SendPlayerAction is made from that table.  ClientPlayer::setMySet only  *)
(* notes the amount for the request (relative).                            *)
(***************************************************************************)

\* ClientThread::SendPlayerAction: "Only send last bet if not fold/checked."
Request(t) ==
    [hand |-> t.hand, round |-> t.round, action |-> t.action[Me],
     bet |-> IF t.action[Me] \in {"fold", "check"} THEN 0 ELSE t.relative]

MyFold(t) == [t EXCEPT !.action[Me] = "fold", !.previous = "me"]
MyCheck(t) == [t EXCEPT !.action[Me] = "check", !.previous = "me"]

\* All chips, however the button was called.
StakeAll(t) ==
    [t EXCEPT !.relative = t.cash[Me], !.cash[Me] = 0, !.action[Me] = "allin",
              !.previous = "me"]

MyCall(t) ==
    IF t.cash[Me] + t.set[Me] <= t.highestSet THEN StakeAll(t)
    ELSE [t EXCEPT !.relative = t.highestSet - t.set[Me], !.action[Me] = "call",
                   !.previous = "me"]

\* "full bet rule": the bet is short of a raise.
ShortBet(t) == t.highestSet + t.minimumRaise > t.set[Me]

AtLeast0(n) == IF n < 0 THEN 0 ELSE n

MySet(t, b) ==
    LET staked == IF b.bet.amount >= t.cash[Me]
                  THEN [StakeAll(t) EXCEPT !.fullBetRule = @ \/ ShortBet(t)]
                  ELSE [t EXCEPT !.relative = b.bet.amount, !.previous = "me"]
        named == IF b.raising = {} \/ staked.action[Me] = "allin" THEN staked
                 ELSE [staked EXCEPT !.action[Me] =
                          IF "Bet" \in b.raising THEN "bet" ELSE "raise"]
        raise == IF "Bet" \in b.raising /\ t.set[Me] > 0 THEN t.set[Me]
                 ELSE IF "Raise" \in b.raising THEN AtLeast0(t.set[Me] - t.highestSet)
                 ELSE t.minimumRaise
    IN [named EXCEPT !.minimumRaise = raise, !.highestSet = t.set[Me]]

MyAllIn(t) ==
    LET highest == t.set[Me] > t.highestSet
    IN [StakeAll(t) EXCEPT
          !.fullBetRule = @ \/ ShortBet(t),
          !.minimumRaise = IF highest THEN t.set[Me] - t.highestSet ELSE @,
          !.highestSet = IF highest THEN t.set[Me] ELSE @]

\* What clicking a button that is not checkable does to the table: the clicks
\* of a button without a text do nothing, and fold wants its exact text.
Acts(b, button) ==
    CASE button = "fold" -> b.fold = "Fold"
      [] button = "call" -> b.call.text # ""
      [] button = "bet" -> b.bet.text # ""
      [] button = "allin" -> b.allin

Act(t, b, button) ==
    CASE button = "fold" -> MyFold(t)
      [] button = "call" -> IF b.call.text = "Check" THEN MyCheck(t) ELSE MyCall(t)
      [] button = "bet" -> MySet(t, b)
      [] button = "allin" -> MyAllIn(t)

IsCheckable(b, button) == IF button = "bet" THEN b.betCheckable ELSE b.checkable

\* pushButton*Clicked of a checkable button: one button is ticked at a time.
Tick(b, button) ==
    IF b.checked = button THEN ForgetTicks(b)
    ELSE [b EXCEPT !.checked = button, !.memory = button, !.seen = Says(b, button)]

(***************************************************************************)
(* meInAction: the player is asked; a remembered action is performed.      *)
(***************************************************************************)

Asked(t, b) ==
    ProvideMyActions(t, [MyButtonsCheckable(t, b, FALSE) EXCEPT
                           !.raising = {}, !.repaint = "past"], -1)

\* "Check / Fold" checks if that is still free.  before and after are the
\* buttons before and after they were painted.
Remembered(before, after) ==
    IF before.memory = "fold" /\ before.fold = "CheckFold" /\ after.call.text = "Check"
    THEN "call" ELSE after.memory
=============================================================================
