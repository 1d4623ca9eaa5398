---------------------------- MODULE MCClientTable ----------------------------
(***************************************************************************)
(* Instances of ClientTable for TLC.                                       *)
(***************************************************************************)
EXTENDS ClientTable

MCNoBlindsList == << >>
\* Seat 0 has the better cards.
MCDealt == {[s \in Seats |-> IF s = 0 THEN 2 ELSE 1]}
=============================================================================
