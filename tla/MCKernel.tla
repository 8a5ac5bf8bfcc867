------------------------------ MODULE MCKernel ------------------------------
(***************************************************************************)
(* Bounds of Kernel for TLC: a shift and an extended key, and a clock on   *)
(* the slave, whose requests are below the keyboard's.                     *)
(***************************************************************************)
EXTENDS Kernel

ClockOpen ==
  [c \in Chips |-> Lines \ (IF c = "MPIC" THEN {Cascade} ELSE {0})]

Clock   == {<<"SPIC", 0>>}
TwoKeys == {<<0, 42>>, <<224, 28>>}
=============================================================================
