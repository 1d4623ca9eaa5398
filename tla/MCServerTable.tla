---------------------------- MODULE MCServerTable ----------------------------
(***************************************************************************)
(* Instances of ServerTable for TLC.                                       *)
(***************************************************************************)
EXTENDS ServerTable

\* No manual blinds, and a manual list that goes up, beyond the cap and down.
MCNoBlindsList == << >>
MCBlindsList == <<2, 9, 1>>
=============================================================================
