------------------------------ MODULE Service ------------------------------
(***************************************************************************)
(* What the devices of the machine may expect of the kernel: once it takes *)
(* requests, each that is asked for and not closed is served, alone, the   *)
(* one of the highest priority first; and a handler always ends.  No chip, *)
(* port, vector or stack is mentioned.  Module Interrupts is shown to      *)
(* implement this.                                                         *)
(***************************************************************************)
EXTENDS Integers

CONSTANTS
  Closed,      (* the requests that the kernel does not open               *)
  Vanishing    (* may a request be gone when the CPU asks for it?          *)

VARIABLES
  pending,     (* the requests that were asked for and not served          *)
  serving,     (* the request that is being served, or None                *)
  on           (* the kernel takes requests                                *)

vars == <<pending, serving, on>>

Requests == (0..15) \ {2}
None     == 16

\* The two chips' lines in the order of their priorities: the slave's come in
\* between, where it is connected.
Rank(i) == IF i <= 2 THEN i ELSE IF i >= 8 THEN i - 5 ELSE i + 8

Open == pending \ Closed

Ask(i) == pending' = pending \cup {i} /\ UNCHANGED <<serving, on>>

\* Before it takes requests the kernel may forget some of them.
Reset ==
  /\ ~on /\ pending' \subseteq pending
  /\ UNCHANGED <<serving, on>>

Start == ~on /\ on' /\ UNCHANGED <<pending, serving>>

Serve(i) ==
  /\ on /\ serving = None
  /\ i \in Open /\ \A j \in Open : Rank(i) <= Rank(j)
  /\ serving' = i /\ pending' = pending \ {i}
  /\ UNCHANGED on

\* For a request that vanished a handler runs too: that of a chip's last line.
ServeNothing(i) ==
  /\ on /\ serving = None
  /\ Vanishing /\ Open = {}
  /\ serving' = i
  /\ UNCHANGED <<pending, on>>

Done ==
  /\ serving # None /\ serving' = None
  /\ UNCHANGED <<pending, on>>

Init == pending = {} /\ serving = None /\ on = FALSE

Next ==
  \/ Reset \/ Start \/ Done
  \/ \E i \in Requests : Ask(i) \/ Serve(i)
  \/ \E i \in {7, 15} : ServeNothing(i)

Spec == Init /\ [][Next]_vars

\* The kernel starts, takes requests while there are any, and ends handlers.
Progress ==
  /\ <>on
  /\ (on /\ serving = None /\ Open # {}) ~> (serving # None)
  /\ (serving # None) ~> (serving = None)
=============================================================================
