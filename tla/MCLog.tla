------------------------------- MODULE MCLog -------------------------------
(***************************************************************************)
(* Bounds of Log for TLC: texts of up to MaxText characters, which the cfg *)
(* sets to 3 as a backspace writes three.                                  *)
(***************************************************************************)
EXTENDS Log
=============================================================================
