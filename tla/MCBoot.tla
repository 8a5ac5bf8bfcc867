------------------------------- MODULE MCBoot -------------------------------
(***************************************************************************)
(* Bounds of Boot for TLC: up to two tags before and after the terminal's, *)
(* words of 64 values, and stubs that cross a word and end at the top.     *)
(***************************************************************************)
EXTENDS Boot

SlowOnly == {"slow"}
=============================================================================
