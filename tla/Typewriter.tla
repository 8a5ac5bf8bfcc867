----------------------------- MODULE Typewriter -----------------------------
(***************************************************************************)
(* What somebody who types expects of the keyboard and the terminal: a     *)
(* line to which every struck key does what it says at once.  The left     *)
(* shift counts while it is held, caps lock changes sides each time it is  *)
(* struck, and either of them gives the upper sign of a key.  A key that   *)
(* is held is struck again and again, and that goes for caps lock too,     *)
(* which nobody would expect.  The decoder of module Keyboard is shown to  *)
(* implement this, until a key is lost.                                    *)
(***************************************************************************)
EXTENDS Integers, Sequences

CONSTANTS
  Keys, LeftShift, CapsLock,
  Erasers, Tabs, Newlines,   (* keys that edit the line                    *)
  Lower, Upper,              (* functions: the signs of all other keys     *)
  NoSign, Blank,
  Width, TabStop

VARIABLES
  held, lock, line,
  intact                     (* nothing was lost so far                    *)

vars == <<held, lock, line, intact>>

Sign(k) == IF LeftShift \in held \/ lock THEN Upper[k] ELSE Lower[k]

\* A line that reaches the right edge is continued on a new one.
Wrapped(l) == IF Len(l) = Width THEN <<>> ELSE l

NextStop == (Len(line) \div TabStop + 1) * TabStop

Strike(k) ==
  \/ k \in Newlines /\ line' = <<>>
  \/ k \in Erasers /\ line = <<>> /\ line' = line
  \/ k \in Erasers /\ line # <<>> /\ line' = SubSeq(line, 1, Len(line) - 1)
  \/ k \in Tabs /\ NextStop >= Width /\ line' = line
  \/ /\ k \in Tabs /\ NextStop < Width
     /\ line' = line \o [i \in 1..(NextStop - Len(line)) |-> Blank]
  \/ k \in DOMAIN Lower /\ Sign(k) = NoSign /\ line' = line
  \/ /\ k \in DOMAIN Lower /\ Sign(k) # NoSign
     /\ line' = Wrapped(Append(line, Sign(k)))

Press(k) ==
  /\ k \in Keys \ held
  /\ held' = held \cup {k}
  /\ lock' = (lock # (k = CapsLock))
  /\ Strike(k)
  /\ UNCHANGED intact

Repeat(k) ==
  /\ k \in held
  /\ lock' = (lock # (k = CapsLock))
  /\ Strike(k)
  /\ UNCHANGED <<held, intact>>

Release(k) ==
  /\ k \in held
  /\ held' = held \ {k}
  /\ UNCHANGED <<lock, line, intact>>

\* Once a key is lost nothing is promised any more.
Lose == intact' = FALSE

Init ==
  /\ held \in SUBSET Keys
  /\ intact \in BOOLEAN
  /\ intact => LeftShift \notin held
  /\ lock = FALSE
  /\ line = <<>>

Next ==
  \/ Lose
  \/ \E k \in Keys : Press(k) \/ Repeat(k) \/ Release(k)

Spec == Init /\ [][Next]_vars
=============================================================================
