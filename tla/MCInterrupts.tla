---------------------------- MODULE MCInterrupts ----------------------------
(***************************************************************************)
(* Bounds of Interrupts for TLC: the masks of the boot loader, and the     *)
(* other devices next to the keyboard on line 1: a timer above it, two on  *)
(* the slave below it, a serial port below these, a mouse on the slave.    *)
(***************************************************************************)
EXTENDS Interrupts

\* "the stivale2 boot protocol sets all the irq mask" (kernel.cpp).
AllMasked == [c \in Chips |-> Lines]

\* The timer, the slave, its clock and disk and the serial port left on.
TimersOpen ==
  [c \in Chips |-> Lines \ (IF c = "MPIC" THEN {0, Cascade, 4} ELSE {0, 6})]

Timers == {<<"MPIC", 0>>, <<"SPIC", 0>>}
Machine == Timers \cup {<<"SPIC", 6>>, <<"MPIC", 4>>, <<"SPIC", 4>>}
=============================================================================
