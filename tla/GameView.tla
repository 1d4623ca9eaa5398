------------------------------- MODULE GameView -------------------------------
(***************************************************************************)
(* What the lobby and its players can see of a game: who is in it, its     *)
(* admin, whether it is open, about to start, running or closed.  Abstract *)
(* specification of ServerGame, in which the sessions, the admin's flag,   *)
(* the confirmations, the joins counted and the timers are left out, and   *)
(* the environment of the game list that other clients keep (GameList).    *)
(***************************************************************************)
EXTENDS Integers

CONSTANTS
    Players,    \* the players (by name) who may come to the game
    NoPlayer,   \* no player has this id
    MaxPlayers  \* maxNumberOfPlayers of the game

VARIABLES
    listed,     \* the game is in the lobby's m_gameMap
    state,      \* ServerGame::m_curState
    game,       \* ServerGame::m_game is set
    inGame,     \* the players in the game
    computers,  \* the number of its computer players
    adminId     \* m_adminPlayerId, NoPlayer if its session is gone for good

viewVars == <<listed, state, game, inGame, computers, adminId>>

Init ==
    /\ listed = TRUE /\ state = "Init" /\ game = FALSE
    /\ \E p \in Players : inGame = {p} /\ adminId = p
    /\ computers = 0

\* The admin's id passes on only when he goes, and to somebody of the game.
Go(gone) ==
    /\ inGame' = inGame \ gone
    /\ \/ UNCHANGED adminId
       \/ adminId \in gone /\ adminId' \in inGame

\* Nobody comes to a game that is about to start or closed.
Arrive(p) ==
    /\ listed /\ state \in {"Init", "Running"}
    /\ p \notin inGame
    /\ inGame' = inGame \cup {p}
    /\ UNCHANGED <<listed, state, game, computers, adminId>>

Depart(gone) ==
    /\ Go(gone)
    /\ UNCHANGED <<listed, state, game, computers>>

\* Computer players may take free seats.
Start ==
    /\ state = "Init" /\ state' = "StartGame"
    /\ computers' \in computers..MaxPlayers
    /\ UNCHANGED <<listed, game, inGame, adminId>>

Begin ==
    /\ state = "StartGame" /\ state' = "Running"
    /\ game' = TRUE
    /\ UNCHANGED <<listed, inGame, computers, adminId>>

\* The winner is shown before the game opens again.
Finish ==
    /\ state = "Running" /\ game /\ game' = FALSE
    /\ UNCHANGED <<listed, state, inGame, computers, adminId>>

Reopen ==
    /\ state = "Running" /\ state' = "Init"
    /\ game' = FALSE /\ computers' = 0
    /\ \E gone \in SUBSET inGame : Go(gone)
    /\ UNCHANGED listed

\* An error closes a running game, which stays on the list.
Fail ==
    /\ state = "Running" /\ game /\ state' = "Final"
    /\ Go(inGame)
    /\ UNCHANGED <<listed, game, computers>>

RemoveGame ==
    /\ listed /\ listed' = FALSE
    /\ state' = "Final" /\ computers' = 0
    /\ Go(inGame)
    /\ UNCHANGED game

\* An admin who is away logs in anew and is no longer known.
ForgetAdmin ==
    /\ adminId \in Players \ inGame
    /\ adminId' = NoPlayer
    /\ UNCHANGED <<listed, state, game, inGame, computers>>

Next ==
    \/ \E p \in Players : Arrive(p)
    \/ \E gone \in SUBSET inGame : Depart(gone)
    \/ Start \/ Begin \/ Finish \/ Reopen \/ Fail \/ RemoveGame \/ ForgetAdmin

Spec == Init /\ [][Next]_viewVars
=============================================================================
