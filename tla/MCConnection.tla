---------------------------- MODULE MCConnection ----------------------------
(***************************************************************************)
(* Instances of Connection for TLC: short and long packets, one of another *)
(* version that cannot be parsed, one the validator refuses, and one the   *)
(* sender takes but the receiver does not.                                 *)
(***************************************************************************)
EXTENDS Connection

MCBodySize(p) ==
    CASE p = "long" -> 2
      [] p = "oversize" -> 3
      [] OTHER -> 1
MCGarbage(p) == p = "foreign"
MCInvalid(p) == p = "refused"
=============================================================================
