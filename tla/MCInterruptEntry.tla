-------------------------- MODULE MCInterruptEntry --------------------------
(***************************************************************************)
(* Bounds of InterruptEntry for TLC: every vector that has a stub, and the *)
(* error codes 0, 2 (a page fault by a write), 8 (a selector that is also  *)
(* the number of an abort) and 40 (the kernel's code selector).            *)
(***************************************************************************)
EXTENDS InterruptEntry

AllVectors == Exceptions \cup IrqStubs
SomeErrors == {0, 2, 8, 40}
=============================================================================
