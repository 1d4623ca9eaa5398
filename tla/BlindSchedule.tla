---------------------------- MODULE BlindSchedule ----------------------------
(***************************************************************************)
(* The blinds of a game: Game::raiseBlinds (src/src/engine/game.cpp).      *)
(*                                                                         *)
(* The schedule is a record: the current small blind, the number of hands  *)
(* since it was last raised (currentHandID - lastHandBlindsRaised) and     *)
(* what is left of the manual list.  When the interval is in minutes,      *)
(* whether it is up when a hand starts is an input.                        *)
(***************************************************************************)
EXTENDS Integers, Sequences

CONSTANTS
    StartCash,        \* GameData::startMoney
    FirstSmallBlind,  \* GameData::firstSmallBlind
    RaiseOnHands,     \* raiseIntervalMode = RAISE_ON_HANDNUMBER
    RaiseEvery,       \* raiseSmallBlindEveryHandsValue
    RaiseMode,        \* "double" or "manual" (MANUAL_BLINDS_ORDER)
    BlindsList,       \* manualBlindsList
    AfterManual,      \* afterManualBlindsMode: "double", "raiseAbout", "stay"
    RaiseAbout        \* afterMBAlwaysRaiseValue

\* What ServerGame::CheckSettings and the packet validator let through.
ASSUME SettingsAssumption ==
    /\ StartCash \in Nat \ {0}
    /\ FirstSmallBlind \in Nat \ {0}
    /\ RaiseOnHands \in BOOLEAN
    /\ RaiseEvery \in Nat \ {0}
    /\ RaiseMode \in {"double", "manual"}
    /\ BlindsList \in Seq(Nat \ {0})
    /\ AfterManual \in {"double", "raiseAbout", "stay"}
    /\ RaiseAbout \in Nat \ {0}

\* The chips of a player if the two players had equal stacks.
MaxBlind == (2 * StartCash) \div 2

ScheduleType ==
    [small : Nat \ {0}, since : Nat, list : Seq(Nat \ {0})]

FirstBlinds == [small |-> FirstSmallBlind, since |-> 0, list |-> BlindsList]

Capped(n) == IF n <= MaxBlind THEN n ELSE MaxBlind

DoubledBlind(small) ==
    IF small <= MaxBlind \div 2 THEN Capped(2 * small) ELSE MaxBlind

BlindAfterList(small) ==
    CASE AfterManual = "double" -> DoubledBlind(small)
      [] AfterManual = "raiseAbout" -> Capped(small + RaiseAbout)
      [] OTHER -> small

RaiseDue(b, minutesUp) ==
    IF RaiseOnHands THEN b.since + 1 >= RaiseEvery ELSE minutesUp

RaisedBlinds(b) ==
    IF RaiseMode = "double"
    THEN [b EXCEPT !.small = Capped(DoubledBlind(b.small)), !.since = 0]
    ELSE IF b.list # << >>
    THEN [small |-> Capped(Head(b.list)), since |-> 0, list |-> Tail(b.list)]
    ELSE [b EXCEPT !.small = Capped(BlindAfterList(b.small)), !.since = 0]

\* The first hand never raises; each later one calls this once.
RaiseBlinds(b, minutesUp) ==
    IF RaiseDue(b, minutesUp) THEN RaisedBlinds(b)
    ELSE [b EXCEPT !.since = IF RaiseOnHands THEN @ + 1 ELSE @]
=============================================================================
