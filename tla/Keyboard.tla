------------------------------ MODULE Keyboard ------------------------------
(***************************************************************************)
(* The PS/2 keyboard's driver, ps2::keyboard::controller::irq_handler: it  *)
(* reads one byte of a scan code, keeps the shift and caps lock states in  *)
(* key_up, and writes characters to the kernel's terminal.  The keyboard   *)
(* sends the codes of several keys before the handler sees the first one;  *)
(* the terminal is a line with a cursor.  How a byte gets from the         *)
(* keyboard to the handler is module Interrupts' business, and who else    *)
(* writes to the terminal in the meantime is module Log's.                 *)
(*                                                                         *)
(* A key is <<prefix, code>>, with prefix 224 (E0) for an extended one     *)
(* and 0 otherwise.  A character is <<code, upper>>: the entry of          *)
(* kmap_upper or kmap_lower for that code.                                 *)
(***************************************************************************)
EXTENDS Integers, Sequences, FiniteSets

CONSTANTS
  Keys,         (* the keys that are ever pressed                          *)
  BootKeys,     (* those that may be down when the kernel starts           *)
  Repeating,    (* those that repeat when they are held                    *)
  MaxHeld,      (* bound: as many keys are down at once                    *)
  FifoSize,     (* bytes the keyboard can keep                             *)
  Overrun,      (* may a key be lost because there is no room for it?      *)
  Width, TabStop

LeftShift   == <<0, 42>>
CapsLock    == <<0, 58>>
PrintScreen == <<224, 55>>

ASSUME KeyboardAssumption ==
  /\ Keys \subseteq {0, 224} \X (1..127)
  /\ <<224, 42>> \notin Keys          (* exists only inside PrintScreen    *)
  /\ <<224, 58>> \notin Keys          (* does not exist                    *)
  /\ BootKeys \subseteq Keys /\ Repeating \subseteq Keys
  /\ MaxHeld \in Nat /\ FifoSize \in Nat /\ Overrun \in BOOLEAN
  /\ Width \in Nat \ {0} /\ TabStop \in Nat \ {0}

VARIABLES
  held,      (* the keys that are down                                     *)
  again,     (* the set of the key that repeats, or empty                  *)
  lock,      (* history: caps lock's make code was sent and not lost an    *)
             (* odd number of times, those of its repetition included      *)
  stale,     (* the last event of the left shift never reached the kernel  *)
  intact,    (* every event since the boot did, and no shift was down then *)
  wire,      (* bytes sent and not yet read                                *)
  key_up,    (* the driver's bits that are one: 0 is shift, 1 caps lock    *)
  terminal   (* the line of the cursor, and the cursor's column            *)

keyboardVars == <<held, again, lock, stale, intact, wire>>
vars == <<keyboardVars, key_up, terminal>>

-----------------------------------------------------------------------------
(* The keyboard and its controller: scan code set 1.                       *)

Prefix(k) == IF k[1] = 224 THEN <<224>> ELSE <<>>

\* PrintScreen comes with a left shift of its own, unless there is one.
Fake(k, code) ==
  IF k = PrintScreen /\ LeftShift \notin held THEN <<224, code>> ELSE <<>>

Make(k)  == Fake(k, 42) \o Prefix(k) \o <<k[2]>>
Break(k) == Prefix(k) \o <<k[2] + 128>> \o Fake(k, 170)

Send(k, bytes) ==
  \/ /\ Len(wire) + Len(bytes) <= FifoSize
     /\ wire' = wire \o bytes
     /\ stale' = (stale /\ k # LeftShift) /\ UNCHANGED intact
  \/ /\ Overrun /\ Len(wire) + Len(bytes) > FifoSize
     /\ wire' = wire
     /\ stale' = (stale \/ k = LeftShift) /\ intact' = FALSE

\* A make code of caps lock that is not lost changes sides once more.
CountLock(k) == lock' = (lock # (k = CapsLock /\ wire' # wire))

Press(k) ==
  /\ k \in Keys \ held /\ Cardinality(held) < MaxHeld
  /\ Send(k, Make(k))
  /\ held' = held \cup {k}
  /\ again' = {k} \cap Repeating
  /\ CountLock(k)
  /\ UNCHANGED <<key_up, terminal>>

\* Only the key that was pressed last repeats, caps lock like any other.
Repeat(k) ==
  /\ k \in again
  /\ Send(k, Make(k))
  /\ CountLock(k)
  /\ UNCHANGED <<held, again, key_up, terminal>>

Release(k) ==
  /\ k \in held
  /\ Send(k, Break(k))
  /\ held' = held \ {k}
  /\ again' = again \ {k}
  /\ UNCHANGED <<lock, key_up, terminal>>

-----------------------------------------------------------------------------
(* The terminal of the boot loader.                                        *)

Characters == (0..127) \X BOOLEAN
Line == [cells : [0..(Width - 1) -> Characters], col : 0..(Width - 1)]

Nul       == <<0, FALSE>>
Backspace == <<14, FALSE>>
Tab       == <<15, FALSE>>
Newline   == <<28, FALSE>>
Blank     == <<57, FALSE>>

NewLine == [cells |-> [i \in 0..(Width - 1) |-> Blank], col |-> 0]

NextStop(t) == (t.col \div TabStop + 1) * TabStop

Put(t, c) ==
  CASE c = Nul       -> t
    [] c = Newline   -> NewLine
    [] c = Backspace -> IF t.col = 0 THEN t ELSE [t EXCEPT !.col = @ - 1]
    [] c = Tab       -> IF NextStop(t) >= Width THEN t
                        ELSE [t EXCEPT !.col = NextStop(t)]
    [] OTHER         -> IF t.col = Width - 1 THEN NewLine
                        ELSE [t EXCEPT !.cells[t.col] = c, !.col = @ + 1]

Show(t, text) ==
  LET shown[n \in 0..Len(text)] == IF n = 0 THEN t ELSE Put(shown[n - 1], text[n])
  IN  shown[Len(text)]

-----------------------------------------------------------------------------
(* The driver.                                                             *)

KmapSize == 58

\* The codes whose entry is '\0', and the space, which both tables have.
LowerNul == {0, 1, 3, 8, 10, 11, 28, 29, 40, 42, 54, 55, 56}
UpperNul == {0, 1, 12, 26, 28, 29, 42, 53, 54, 55, 56}

kmap_lower == [code \in 0..(KmapSize - 1) |->
  CASE code \in LowerNul -> Nul [] code = 57 -> Blank [] OTHER -> <<code, FALSE>>]

kmap_upper == [code \in 0..(KmapSize - 1) |->
  CASE code \in UpperNul -> Nul [] code = 57 -> Blank
    [] code \in {14, 15} -> <<code, FALSE>> [] OTHER -> <<code, TRUE>>]

\* Faults: the shift changes its bit instead of setting and clearing it; its
\* release clears the other bit; 10 is written for 0b10.
KeyUp_Toggles(up, code) ==
  CASE code \in {42, 170} -> IF 0 \in up THEN up \ {0} ELSE up \cup {0}
    [] code = 58  -> IF 1 \in up THEN up \ {1} ELSE up \cup {1}
    [] OTHER      -> up

KeyUp_WrongMask(up, code) ==
  CASE code = 42  -> up \cup {0}
    [] code = 170 -> up \cap {0}
    [] code = 58  -> IF 1 \in up THEN up \ {1} ELSE up \cup {1}
    [] OTHER      -> up

KeyUp_Decimal(up, code) ==
  CASE code = 42  -> up \cup {0}
    [] code = 170 -> up \cap {1, 3}
    [] code = 58  -> IF 1 \in up THEN up \ {1, 3} ELSE up \cup {1, 3}
    [] OTHER      -> up

KeyUp(up, code) ==
  CASE code = 42  -> up \cup {0}
    [] code = 170 -> up \cap {1}
    [] code = 58  -> IF 1 \in up THEN up \ {1} ELSE up \cup {1}
    [] OTHER      -> up

\* Faults: the break codes index past the tables, where something is; the
\* cursor only moves left.
Text_NoBound(up, code) ==
  CASE code \in {42, 170, 58} -> <<>>
    [] code = 14 -> <<Backspace, Blank, Backspace>>
    [] code = 15 -> <<Tab>>
    [] code = 28 -> <<Newline>>
    [] OTHER -> IF code >= KmapSize THEN << <<code, FALSE>> >>
                ELSE IF up # {} THEN <<kmap_upper[code]>> ELSE <<kmap_lower[code]>>

Text_NoErase(up, code) ==
  CASE code \in {42, 170, 58} -> <<>>
    [] code = 14 -> <<Backspace>>
    [] code = 15 -> <<Tab>>
    [] code = 28 -> <<Newline>>
    [] OTHER -> IF code >= KmapSize THEN <<>>
                ELSE IF up # {} THEN <<kmap_upper[code]>> ELSE <<kmap_lower[code]>>

\* What the handler writes.
Text(up, code) ==
  CASE code \in {42, 170, 58} -> <<>>
    [] code = 14 -> <<Backspace, Blank, Backspace>>
    [] code = 15 -> <<Tab>>
    [] code = 28 -> <<Newline>>
    [] OTHER -> IF code >= KmapSize THEN <<>>
                ELSE IF up # {} THEN <<kmap_upper[code]>> ELSE <<kmap_lower[code]>>

irq_handler ==
  /\ wire # <<>>
  /\ wire' = Tail(wire)
  /\ key_up' = KeyUp(key_up, Head(wire))
  /\ terminal' = Show(terminal, Text(key_up, Head(wire)))
  /\ UNCHANGED <<held, again, lock, stale, intact>>

Init ==
  /\ held \in SUBSET BootKeys
  /\ again \in {{k} : k \in held \cap Repeating} \cup {{}}
  /\ lock = FALSE
  /\ stale = (LeftShift \in held) /\ intact = ~stale
  /\ wire = <<>>
  /\ key_up = {}
  /\ terminal = NewLine

Next ==
  \/ \E k \in Keys : Press(k) \/ Repeat(k) \/ Release(k)
  \/ irq_handler

Spec == Init /\ [][Next]_vars

-----------------------------------------------------------------------------
(* Properties.                                                             *)

TypeOK ==
  /\ held \subseteq Keys
  /\ again \subseteq Repeating
  /\ lock \in BOOLEAN /\ stale \in BOOLEAN /\ intact \in BOOLEAN
  /\ wire \in Seq(0..255)
  /\ key_up \subseteq {0, 1}
  /\ terminal \in Line

\* What the driver's bits and the terminal, s, are once the bytes w are read.
Decode(s, code) ==
  [up |-> KeyUp(s.up, code), term |-> Show(s.term, Text(s.up, code))]

Decoded(s, w) ==
  LET read[n \in 0..Len(w)] == IF n = 0 THEN s ELSE Decode(read[n - 1], w[n])
  IN  read[Len(w)]

\* What they will be once the handler has read the wire.
Settled == Decoded([up |-> key_up, term |-> terminal], wire)

\* The last byte about the left shift, on the wire or read, is its make code.
ShiftBytes == {42, 170}

SettledBy(w, up) ==
  \/ \E i \in 1..Len(w) :
       w[i] = 42 /\ \A j \in (i + 1)..Len(w) : w[j] \notin ShiftBytes
  \/ 0 \in up /\ \A i \in 1..Len(w) : w[i] \notin ShiftBytes

ShiftSettled == SettledBy(wire, key_up)

\* Once the pending bytes are read, the shift bit is set exactly while the
\* left shift is down.  If a byte about it was lost, or it was down at boot,
\* that is so again from the next byte about it on: lines 21 and 22 set and
\* clear the bit, whatever it was.  With PrintScreen among the Keys it is
\* false: the driver takes the shift that comes with that key for the left one.
ShiftFollows == ~stale => (ShiftSettled <=> LeftShift \in held)

\* Once the pending bytes are read, the caps lock bit tells how often caps
\* lock's make code arrived, at any moment and whatever was lost: line 23
\* changes the bit for each of them, those that a held caps lock repeats
\* included, and for nothing else: no break code, no prefix, no PrintScreen
\* and no loss of another key's bytes disturbs it.
LockFollows == 1 \in Settled.up <=> lock

\* There is nothing to the right of the cursor: "\b \b" (line 25) erases what
\* it goes back over, whatever tabs did to the cursor before.
ErasedBeyond ==
  \A i \in terminal.col..(Width - 1) : terminal.cells[i] = Blank

OtherKeys == {k \in Keys : k[2] \notin {14, 15, 28}}

Typed == INSTANCE Typewriter WITH
  line     <- [i \in 1..Settled.term.col |-> Settled.term.cells[i - 1]],
  Erasers  <- {k \in Keys : k[2] = 14},
  Tabs     <- {k \in Keys : k[2] = 15},
  Newlines <- {k \in Keys : k[2] = 28},
  NoSign   <- Nul,
  Lower    <- [k \in OtherKeys |->
                 IF k[2] < KmapSize THEN kmap_lower[k[2]] ELSE Nul],
  Upper    <- [k \in OtherKeys |->
                 IF k[2] < KmapSize THEN kmap_upper[k[2]] ELSE Nul]

\* The driver implements the typewriter: until a key is lost, each key has the
\* effect it had at the moment it went down or repeated, however late the
\* handler reads its bytes and whatever came to be held in between.
TypesAsStruck == Typed!Spec
=============================================================================
