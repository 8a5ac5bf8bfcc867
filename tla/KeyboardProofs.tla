--------------------------- MODULE KeyboardProofs ---------------------------
(***************************************************************************)
(* Proofs about the keyboard's driver, for every set of keys, every FIFO,  *)
(* any losses and a terminal of any width: the shift and the caps lock bit *)
(* follow their keys, the line holds nothing to the right of the cursor,   *)
(* and the driver implements the typewriter.                               *)
(*                                                                         *)
(* What a line and the pending bytes become is computed by recursion; the  *)
(* lemmas Shown, Read and Decoded... say of it what the rest needs, by the *)
(* recursion theorem of module Induction.                                  *)
(***************************************************************************)
EXTENDS Keyboard, Induction, SequenceTheorems, TLAPS

Plus(w, b) == w \o <<b>>

\* A byte more on the wire: it decides if it is about the shift, and changes
\* nothing otherwise.
LEMMA AppendByte ==
  ASSUME NEW w \in Seq(0..255), NEW up, NEW b \in 0..255
  PROVE  /\ b = 42 => SettledBy(Plus(w, b), up)
         /\ b = 170 => ~SettledBy(Plus(w, b), up)
         /\ b \notin ShiftBytes => (SettledBy(Plus(w, b), up) <=> SettledBy(w, up))
<1> DEFINE v == Plus(w, b)
<1>1. /\ v \in Seq(0..255) /\ Len(v) = Len(w) + 1 /\ v[Len(w) + 1] = b
      /\ \A i \in 1..Len(w) : v[i] = w[i]
      /\ Len(w) \in Nat
  BY DEF Plus
<1> HIDE DEF v
<1>2. ASSUME b = 42 PROVE SettledBy(v, up)
  <2>1. Len(v) \in 1..Len(v) /\ v[Len(v)] = 42
    BY <1>1, <1>2
  <2>2. \A j \in (Len(v) + 1)..Len(v) : v[j] \notin ShiftBytes
    BY <1>1
  <2> QED
    BY <2>1, <2>2 DEF SettledBy
<1>3. ASSUME b = 170 PROVE ~SettledBy(v, up)
  <2>1. Len(v) \in 1..Len(v) /\ v[Len(v)] = 170
    BY <1>1, <1>3
  <2>2. ASSUME NEW i \in 1..Len(v), v[i] = 42
        PROVE  \E j \in (i + 1)..Len(v) : v[j] \in ShiftBytes
    <3>1. i # Len(v)
      BY <2>1, <2>2
    <3>2. Len(v) \in (i + 1)..Len(v)
      BY <1>1, <2>2, <3>1
    <3> QED
      BY <2>1, <3>2 DEF ShiftBytes
  <2> QED
    BY <2>1, <2>2 DEF SettledBy, ShiftBytes
<1>4. ASSUME b \notin ShiftBytes PROVE SettledBy(v, up) <=> SettledBy(w, up)
  <2>1. ASSUME NEW i \in 1..Len(w)
        PROVE  (\A j \in (i + 1)..Len(v) : v[j] \notin ShiftBytes)
                 <=> (\A j \in (i + 1)..Len(w) : w[j] \notin ShiftBytes)
    BY <1>1, <1>4
  <2>2. (\A j \in 1..Len(v) : v[j] \notin ShiftBytes)
          <=> (\A j \in 1..Len(w) : w[j] \notin ShiftBytes)
    BY <1>1, <1>4
  <2>3. v[Len(v)] # 42
    BY <1>1, <1>4 DEF ShiftBytes
  <2>4. ASSUME NEW i \in 1..Len(v), v[i] = 42 PROVE i \in 1..Len(w) /\ w[i] = 42
    BY <1>1, <2>3, <2>4
  <2>5. ASSUME NEW i \in 1..Len(w), w[i] = 42 PROVE i \in 1..Len(v) /\ v[i] = 42
    BY <1>1, <2>5
  <2> DEFINE Decides(s, i) == s[i] = 42 /\ \A j \in (i + 1)..Len(s) : s[j] \notin ShiftBytes
  <2>6. ASSUME NEW i \in 1..Len(v), Decides(v, i) PROVE \E k \in 1..Len(w) : Decides(w, k)
    BY <2>1, <2>4, <2>6
  <2>7. ASSUME NEW i \in 1..Len(w), Decides(w, i) PROVE \E k \in 1..Len(v) : Decides(v, k)
    BY <2>1, <2>5, <2>7
  <2> DEFINE Quiet(s) == \A j \in 1..Len(s) : s[j] \notin ShiftBytes
  <2>8. /\ SettledBy(v, up) <=> ((\E i \in 1..Len(v) : Decides(v, i)) \/ (0 \in up /\ Quiet(v)))
        /\ SettledBy(w, up) <=> ((\E i \in 1..Len(w) : Decides(w, i)) \/ (0 \in up /\ Quiet(w)))
    BY DEF SettledBy
  <2> HIDE DEF Decides
  <2> QED
    BY <2>2, <2>6, <2>7, <2>8
<1> QED
  BY <1>2, <1>3, <1>4 DEF v

\* Reading a byte does not change what the pending bytes amount to.
LEMMA ReadByte ==
  ASSUME NEW w \in Seq(0..255), w # <<>>, NEW up \in SUBSET {0, 1}
  PROVE  SettledBy(Tail(w), KeyUp(up, Head(w))) <=> SettledBy(w, up)
<1> DEFINE v == Tail(w)
<1> DEFINE b == Head(w)
<1>1. /\ Len(w) \in Nat /\ Len(w) >= 1 /\ Len(v) = Len(w) - 1 /\ b = w[1]
      /\ \A i \in 1..Len(v) : v[i] = w[i + 1]
      /\ b \in 0..255
  <2>1. Len(w) \in Nat /\ Len(w) >= 1 /\ b = w[1]
    OBVIOUS
  <2>2. Len(v) = Len(w) - 1 /\ \A i \in 1..Len(v) : v[i] = w[i + 1]
    OBVIOUS
  <2>3. w[1] \in 0..255
    <3>1. 1 \in 1..Len(w)
      BY <2>1
    <3> QED
      BY <3>1, ElementOfSeq
  <2> QED
    BY <2>1, <2>2, <2>3
<1>2. /\ b = 42 => 0 \in KeyUp(up, b)
      /\ b = 170 => 0 \notin KeyUp(up, b)
      /\ b \notin ShiftBytes => (0 \in KeyUp(up, b) <=> 0 \in up)
  BY DEF KeyUp, ShiftBytes
<1> HIDE DEF v, b
<1>3. (\A j \in 1..Len(w) : w[j] \notin ShiftBytes)
        <=> b \notin ShiftBytes /\ (\A j \in 1..Len(v) : v[j] \notin ShiftBytes)
  <2>1. ASSUME NEW j \in 1..Len(w), j # 1 PROVE j - 1 \in 1..Len(v) /\ v[j - 1] = w[j]
    BY <1>1, <2>1
  <2>2. ASSUME NEW j \in 1..Len(v) PROVE j + 1 \in 1..Len(w) /\ v[j] = w[j + 1]
    BY <1>1, <2>2
  <2>3. 1 \in 1..Len(w)
    BY <1>1
  <2> QED
    BY <1>1, <2>1, <2>2, <2>3
<1>4. ASSUME NEW i \in 1..Len(v)
      PROVE  (\A j \in (i + 1)..Len(v) : v[j] \notin ShiftBytes)
               <=> (\A j \in (i + 2)..Len(w) : w[j] \notin ShiftBytes)
  <2>1. ASSUME NEW j \in (i + 2)..Len(w)
        PROVE  j - 1 \in (i + 1)..Len(v) /\ v[j - 1] = w[j]
    BY <1>1, <2>1
  <2>2. ASSUME NEW j \in (i + 1)..Len(v)
        PROVE  j + 1 \in (i + 2)..Len(w) /\ v[j] = w[j + 1]
    BY <1>1, <2>2
  <2> QED
    BY <2>1, <2>2
<1>5. (\A j \in 2..Len(w) : w[j] \notin ShiftBytes)
        <=> (\A j \in 1..Len(v) : v[j] \notin ShiftBytes)
  <2>1. ASSUME NEW j \in 2..Len(w) PROVE j - 1 \in 1..Len(v) /\ v[j - 1] = w[j]
    BY <1>1, <2>1
  <2>2. ASSUME NEW j \in 1..Len(v) PROVE j + 1 \in 2..Len(w) /\ v[j] = w[j + 1]
    BY <1>1, <2>2
  <2> QED
    BY <2>1, <2>2
<1>6. (\E i \in 1..Len(w) : w[i] = 42 /\ \A j \in (i + 1)..Len(w) : w[j] \notin ShiftBytes)
        <=> \/ b = 42 /\ \A j \in 1..Len(v) : v[j] \notin ShiftBytes
            \/ \E i \in 1..Len(v) :
                 v[i] = 42 /\ \A j \in (i + 1)..Len(v) : v[j] \notin ShiftBytes
  <2>1. ASSUME NEW i \in 1..Len(w), w[i] = 42,
               \A j \in (i + 1)..Len(w) : w[j] \notin ShiftBytes
        PROVE  \/ b = 42 /\ \A j \in 1..Len(v) : v[j] \notin ShiftBytes
               \/ \E k \in 1..Len(v) :
                    v[k] = 42 /\ \A j \in (k + 1)..Len(v) : v[j] \notin ShiftBytes
    <3>1. CASE i = 1
      BY <1>1, <1>5, <2>1, <3>1
    <3>2. CASE i # 1
      <4>1. i - 1 \in 1..Len(v) /\ v[i - 1] = 42 /\ (i - 1) + 2 = i + 1
        BY <1>1, <2>1, <3>2
      <4>2. \A j \in ((i - 1) + 1)..Len(v) : v[j] \notin ShiftBytes
        BY <1>4, <2>1, <4>1
      <4> QED
        BY <4>1, <4>2
    <3> QED
      BY <3>1, <3>2
  <2>2. ASSUME b = 42, \A j \in 1..Len(v) : v[j] \notin ShiftBytes
        PROVE  \E i \in 1..Len(w) :
                 w[i] = 42 /\ \A j \in (i + 1)..Len(w) : w[j] \notin ShiftBytes
    <3>1. 1 \in 1..Len(w) /\ w[1] = 42
      BY <1>1, <2>2
    <3>2. \A j \in (1 + 1)..Len(w) : w[j] \notin ShiftBytes
      BY <1>5, <2>2
    <3> QED
      BY <3>1, <3>2
  <2>3. ASSUME NEW i \in 1..Len(v), v[i] = 42,
               \A j \in (i + 1)..Len(v) : v[j] \notin ShiftBytes
        PROVE  \E k \in 1..Len(w) :
                 w[k] = 42 /\ \A j \in (k + 1)..Len(w) : w[j] \notin ShiftBytes
    <3>1. i + 1 \in 1..Len(w) /\ w[i + 1] = 42 /\ (i + 1) + 1 = i + 2
      BY <1>1, <2>3
    <3>2. \A j \in ((i + 1) + 1)..Len(w) : w[j] \notin ShiftBytes
      BY <1>4, <2>3, <3>1
    <3> QED
      BY <3>1, <3>2
  <2> QED
    BY <2>1, <2>2, <2>3
<1>7. SettledBy(v, KeyUp(up, b)) <=> SettledBy(w, up)
  BY <1>2, <1>3, <1>6 DEF SettledBy, ShiftBytes
<1> QED
  BY <1>7 DEF v, b

\* The part of TypeOK that the shift bit needs.
BytesInv == wire \in Seq(0..255) /\ key_up \in SUBSET {0, 1} /\ stale \in BOOLEAN

\* Without PrintScreen a key sends its prefix and one byte, which is about the
\* left shift only if the key is the left shift.
LEMMA KeyBytes ==
  ASSUME PrintScreen \notin Keys, NEW k \in Keys
  PROVE  /\ Make(k)  = Prefix(k) \o <<k[2]>>
         /\ Break(k) = Prefix(k) \o <<k[2] + 128>>
         /\ Prefix(k) = <<>> \/ Prefix(k) = <<224>>
         /\ k[2] \in 1..127
         /\ k = LeftShift => k[2] = 42
         /\ k # LeftShift => k[2] # 42
<1>1. k \in {0, 224} \X (1..127) /\ k # PrintScreen /\ k # <<224, 42>>
  BY KeyboardAssumption
<1>2. Fake(k, 42) = <<>> /\ Fake(k, 170) = <<>>
  BY <1>1 DEF Fake
<1>3. Prefix(k) = <<>> \/ Prefix(k) = <<224>>
  BY DEF Prefix
<1>4. /\ Make(k)  = Prefix(k) \o <<k[2]>>
      /\ Break(k) = Prefix(k) \o <<k[2] + 128>>
  BY <1>1, <1>2, <1>3 DEF Make, Break
<1>5. k = <<k[1], k[2]>> /\ k[1] \in {0, 224} /\ k[2] \in 1..127
  BY <1>1
<1> QED
  BY <1>1, <1>3, <1>4, <1>5 DEF LeftShift

\* What Send does to the pending bytes, for a make or break code.
LEMMA SendByte ==
  ASSUME PrintScreen \notin Keys, BytesInv, NEW k \in Keys,
         NEW b, b = k[2] \/ b = k[2] + 128,
         Send(k, Prefix(k) \o <<b>>), key_up' = key_up
  PROVE  /\ BytesInv'
         /\ ~stale' => IF k = LeftShift THEN ShiftSettled' <=> b = k[2]
                       ELSE ~stale /\ (ShiftSettled' <=> ShiftSettled)
<1>0. wire \in Seq(0..255)
  BY DEF BytesInv
<1>1. /\ b \in 0..255
      /\ k = LeftShift => k[2] = 42 /\ (b = 42 \/ b = 170)
      /\ k # LeftShift => b \notin ShiftBytes
  <2>1. /\ k[2] \in 1..127
        /\ k = LeftShift => k[2] = 42
        /\ k # LeftShift => k[2] # 42
    BY KeyBytes
  <2> QED
    BY <2>1 DEF ShiftBytes
<1>2. (ShiftSettled <=> SettledBy(wire, key_up))
        /\ (ShiftSettled' <=> SettledBy(wire', key_up))
  BY DEF ShiftSettled
<1>3. CASE Overrun /\ wire' = wire /\ stale' = (stale \/ k = LeftShift)
  BY <1>2, <1>3 DEF BytesInv
<1>4. CASE /\ wire' = wire \o (Prefix(k) \o <<b>>)
           /\ stale' = (stale /\ k # LeftShift)
  <2>1. PICK w \in Seq(0..255) :
          /\ wire' = Plus(w, b)
          /\ SettledBy(w, key_up) <=> SettledBy(wire, key_up)
    <3>1. CASE Prefix(k) = <<>>
      <4>1. wire' = wire \o <<b>>
        BY <1>0, <1>1, <1>4, <3>1
      <4> QED
        BY <1>0, <4>1 DEF Plus
    <3>2. CASE Prefix(k) = <<224>>
      <4> DEFINE v == Plus(wire, 224)
      <4>1. v \in Seq(0..255)
        BY <1>0 DEF Plus
      <4>2. wire' = Plus(v, b)
        BY <1>0, <1>1, <1>4, <3>2 DEF Plus
      <4>3. SettledBy(v, key_up) <=> SettledBy(wire, key_up)
        <5>1. 224 \in 0..255 /\ 224 \notin ShiftBytes
          BY DEF ShiftBytes
        <5> QED
          BY <1>0, <5>1, AppendByte
      <4> HIDE DEF v
      <4> QED
        BY <4>1, <4>2, <4>3
    <3> QED
      BY <3>1, <3>2, KeyBytes
  <2>2. wire' \in Seq(0..255)
    BY <1>1, <2>1 DEF Plus
  <2>3. /\ b = 42 => SettledBy(wire', key_up)
        /\ b = 170 => ~SettledBy(wire', key_up)
        /\ b \notin ShiftBytes => (SettledBy(wire', key_up) <=> SettledBy(w, key_up))
    <3>1. /\ b = 42 => SettledBy(Plus(w, b), key_up)
          /\ b = 170 => ~SettledBy(Plus(w, b), key_up)
          /\ b \notin ShiftBytes
               => (SettledBy(Plus(w, b), key_up) <=> SettledBy(w, key_up))
      <4>1. w \in Seq(0..255) /\ b \in 0..255
        BY <1>1
      <4> QED
        BY ONLY <4>1, AppendByte
    <3> QED
      BY <2>1, <3>1
  <2>4. CASE k = LeftShift
    BY <1>1, <1>2, <1>4, <2>2, <2>3, <2>4 DEF BytesInv
  <2>5. CASE k # LeftShift
    BY <1>1, <1>2, <1>4, <2>1, <2>2, <2>3, <2>5 DEF BytesInv
  <2> QED
    BY <2>4, <2>5
<1> QED
  BY <1>3, <1>4 DEF Send

\* Without PrintScreen on the keyboard, the shift bit follows the left shift
\* as soon as the pending bytes are read, and is right again after a loss from
\* the next shift byte on (ps2keyboard.cpp 21-22).
THEOREM ShiftBitFollows ==
  ASSUME PrintScreen \notin Keys
  PROVE  Spec => []ShiftFollows
<1> DEFINE ShiftInv == BytesInv /\ again \subseteq held /\ ShiftFollows
<1>1. Init => ShiftInv
  <2> SUFFICES ASSUME Init PROVE ShiftInv
    OBVIOUS
  <2>1. BytesInv /\ again \subseteq held
    BY DEF Init, BytesInv
  <2>2. Len(wire) = 0 /\ 0 \notin key_up
    BY DEF Init
  <2>3. ~ShiftSettled
    BY <2>2 DEF ShiftSettled, SettledBy
  <2>4. ~stale => LeftShift \notin held
    BY DEF Init
  <2> QED
    BY <2>1, <2>3, <2>4 DEF ShiftFollows
<1>2. ShiftInv /\ [Next]_vars => ShiftInv'
  <2> SUFFICES ASSUME ShiftInv, [Next]_vars PROVE ShiftInv'
    OBVIOUS
  <2>1. ASSUME NEW k \in Keys, Press(k) PROVE ShiftInv'
    <3>1. Send(k, Make(k)) /\ key_up' = key_up
      BY <2>1 DEF Press
    <3>2. /\ BytesInv'
          /\ ~stale' => IF k = LeftShift THEN ShiftSettled'
                        ELSE ~stale /\ (ShiftSettled' <=> ShiftSettled)
      <4>1. Make(k) = Prefix(k) \o <<k[2]>>
        BY KeyBytes
      <4>2. Send(k, Prefix(k) \o <<k[2]>>)
        BY <3>1, <4>1
      <4>3. BytesInv
        OBVIOUS
      <4> QED
        BY <3>1, <4>2, <4>3, SendByte
    <3>3. held' = held \cup {k} /\ again' \subseteq held'
      BY <2>1 DEF Press
    <3> QED
      BY <3>2, <3>3 DEF ShiftFollows
  <2>2. ASSUME NEW k \in Keys, Repeat(k) PROVE ShiftInv'
    <3>1. Send(k, Make(k)) /\ key_up' = key_up
      BY <2>2 DEF Repeat
    <3>2. /\ BytesInv'
          /\ ~stale' => IF k = LeftShift THEN ShiftSettled'
                        ELSE ~stale /\ (ShiftSettled' <=> ShiftSettled)
      <4>1. Make(k) = Prefix(k) \o <<k[2]>>
        BY KeyBytes
      <4>2. Send(k, Prefix(k) \o <<k[2]>>)
        BY <3>1, <4>1
      <4>3. BytesInv
        OBVIOUS
      <4> QED
        BY <3>1, <4>2, <4>3, SendByte
    <3>3. held' = held /\ again' = again /\ k \in held
      BY <2>2 DEF Repeat
    <3> QED
      BY <3>2, <3>3 DEF ShiftFollows
  <2>3. ASSUME NEW k \in Keys, Release(k) PROVE ShiftInv'
    <3>1. Send(k, Break(k)) /\ key_up' = key_up
      BY <2>3 DEF Release
    <3>2. /\ BytesInv'
          /\ ~stale' => IF k = LeftShift THEN ~ShiftSettled'
                        ELSE ~stale /\ (ShiftSettled' <=> ShiftSettled)
      <4>0. k[2] \in 1..127
        BY KeyBytes
      <4>1. Break(k) = Prefix(k) \o <<k[2] + 128>>
        BY KeyBytes
      <4>2. Send(k, Prefix(k) \o <<k[2] + 128>>)
        BY <3>1, <4>1, Zenon
      <4>4. k[2] + 128 # k[2]
        BY ONLY <4>0
      <4>3. BytesInv
        OBVIOUS
      <4> QED
        BY <3>1, <4>2, <4>3, <4>4, SendByte
    <3>3. held' = held \ {k} /\ again' \subseteq held'
      BY <2>3 DEF Release
    <3> QED
      BY <3>2, <3>3 DEF ShiftFollows
  <2>4. CASE irq_handler
    <3>1. /\ wire \in Seq(0..255) /\ wire # <<>> /\ key_up \in SUBSET {0, 1}
          /\ wire' = Tail(wire) /\ key_up' = KeyUp(key_up, Head(wire))
          /\ held' = held /\ again' = again /\ stale' = stale
      BY <2>4 DEF irq_handler, BytesInv
    <3>2. wire' \in Seq(0..255) /\ key_up' \in SUBSET {0, 1}
      BY <3>1 DEF KeyUp
    <3>3. ShiftSettled' <=> ShiftSettled
      BY <3>1, ReadByte DEF ShiftSettled
    <3> QED
      BY <3>1, <3>2, <3>3 DEF BytesInv, ShiftFollows
  <2>5. CASE UNCHANGED vars
    BY <2>5 DEF vars, keyboardVars, BytesInv, ShiftFollows, ShiftSettled
  <2> QED
    BY <2>1, <2>2, <2>3, <2>4, <2>5 DEF Next
<1>3. ShiftInv => ShiftFollows
  OBVIOUS
<1> QED
  BY <1>1, <1>2, <1>3, PTL DEF Spec

-----------------------------------------------------------------------------

(* The terminal's line.                                                    *)

\* The next tab stop is to the right of the cursor.
LEMMA StopBeyond ==
  ASSUME NEW t \in Line
  PROVE  NextStop(t) \in Nat /\ NextStop(t) > t.col
<1> DEFINE q == t.col \div TabStop
<1>1. t.col \in Nat /\ TabStop \in Nat /\ TabStop > 0
  BY KeyboardAssumption DEF Line
<1>2. q \in Nat /\ q * TabStop <= t.col /\ t.col < (q + 1) * TabStop
  BY <1>1, Z3
<1> HIDE DEF q
<1>3. (q + 1) * TabStop \in Nat
  BY <1>1, <1>2
<1> QED
  BY <1>2, <1>3 DEF NextStop, q

\* The two assignments to a line: of the cursor, and of the cell under it.
Moved(t, n)   == [t EXCEPT !.col = n]
Written(t, c) == [t EXCEPT !.cells[t.col] = c, !.col = @ + 1]

\* Moving the cursor within the line leaves the cells alone.
LEMMA MoveCursor ==
  ASSUME NEW t \in Line, NEW n \in 0..(Width - 1)
  PROVE  Moved(t, n) \in Line /\ Moved(t, n).col = n /\ Moved(t, n).cells = t.cells
BY DEF Line, Moved

\* Writing a cell leaves the others alone and moves the cursor by one.
LEMMA WriteCell ==
  ASSUME NEW t \in Line, NEW c \in Characters, t.col # Width - 1
  PROVE  /\ Written(t, c) \in Line /\ Written(t, c).col = t.col + 1
         /\ Written(t, c).cells[t.col] = c
         /\ \A i \in 0..(Width - 1) : i # t.col => Written(t, c).cells[i] = t.cells[i]
<1> USE KeyboardAssumption DEF Line
<1>1. Written(t, c) = [cells |-> [t.cells EXCEPT ![t.col] = c], col |-> t.col + 1]
  <2> DEFINE cells == [t.cells EXCEPT ![t.col] = c]
             u == [t EXCEPT !.cells = cells]
  <2>1. Written(t, c) = [u EXCEPT !.col = t.col + 1]
    BY DEF Written
  <2>2. DOMAIN t = {"cells", "col"}
    OBVIOUS
  <2> QED
    BY <2>1, <2>2
<1>2. t.col + 1 \in 0..(Width - 1)
  OBVIOUS
<1> QED
  BY <1>1, <1>2

\* A new line is blank.
LEMMA EmptyLine ==
  /\ NewLine \in Line /\ NewLine.col = 0
  /\ \A i \in 0..(Width - 1) : NewLine.cells[i] = Blank
<1>1. 57 \in 0..127 /\ 0 \in 0..(Width - 1)
  BY KeyboardAssumption
<1>2. Blank \in Characters
  BY <1>1, Zenon DEF Blank, Characters
<1>3. NewLine = [cells |-> [i \in 0..(Width - 1) |-> Blank], col |-> 0]
  BY DEF NewLine
<1> HIDE DEF Blank
<1> QED
  BY <1>1, <1>2, <1>3 DEF Line

\* The characters that are shown.
Signs == Characters \ {Nul, Newline, Backspace, Tab}

\* What each character does to a line.
LEMMA PutIs ==
  ASSUME NEW t
  PROVE  /\ Put(t, Nul) = t
         /\ Put(t, Newline) = NewLine
         /\ t.col = 0 => Put(t, Backspace) = t
         /\ t.col # 0 => Put(t, Backspace) = Moved(t, t.col - 1)
         /\ NextStop(t) >= Width => Put(t, Tab) = t
         /\ ~(NextStop(t) >= Width) => Put(t, Tab) = Moved(t, NextStop(t))
         /\ \A c \in Signs : t.col = Width - 1 => Put(t, c) = NewLine
         /\ \A c \in Signs : t.col # Width - 1 => Put(t, c) = Written(t, c)
<1>1. /\ Newline # Nul /\ Backspace # Nul /\ Tab # Nul
      /\ Backspace # Newline /\ Tab # Newline /\ Tab # Backspace
  BY DEF Nul, Newline, Backspace, Tab
<1> QED
  BY <1>1, Zenon DEF Put, Moved, Written, Signs

\* A character leaves a line.
LEMMA PutKeeps ==
  ASSUME NEW t \in Line, NEW c \in Characters
  PROVE  Put(t, c) \in Line
<1>1. t.col \in 0..(Width - 1) /\ Width \in Nat
  BY KeyboardAssumption DEF Line
<1>2. CASE c = Backspace /\ t.col # 0
  <2>1. t.col - 1 \in 0..(Width - 1)
    BY <1>1, <1>2
  <2> QED
    BY <1>2, <2>1, PutIs, MoveCursor, Zenon
<1>3. CASE c = Tab /\ ~(NextStop(t) >= Width)
  <2>1. NextStop(t) \in 0..(Width - 1)
    BY <1>1, <1>3, StopBeyond
  <2> QED
    BY <1>3, <2>1, PutIs, MoveCursor, Zenon
<1>4. CASE c \in Signs
  <2>1. CASE t.col = Width - 1
    BY <1>4, <2>1, PutIs, EmptyLine, Zenon
  <2>2. CASE t.col # Width - 1
    BY <1>4, <2>2, PutIs, WriteCell, Zenon
  <2> QED
    BY <2>1, <2>2
<1>5. CASE c \in {Nul, Newline} \/ (c = Backspace /\ t.col = 0) \/ (c = Tab /\ NextStop(t) >= Width)
  <2>1. Put(t, Nul) \in Line /\ Put(t, Newline) \in Line
    <3>1. Put(t, Nul) = t /\ Put(t, Newline) = NewLine
      BY PutIs, Zenon
    <3> QED
      BY <3>1, EmptyLine, Zenon
  <2>2. t.col = 0 => Put(t, Backspace) \in Line
    BY PutIs, Zenon
  <2>3. NextStop(t) >= Width => Put(t, Tab) \in Line
    BY PutIs, Zenon
  <2> QED
    BY <1>5, <2>1, <2>2, <2>3, Zenon
<1> QED
  BY <1>2, <1>3, <1>4, <1>5, Zenon DEF Signs

\* The line after each character of a text.
LEMMA Shown ==
  ASSUME NEW t \in Line, NEW text \in Seq(Characters)
  PROVE  \E r \in [0..Len(text) -> Line] :
           /\ r[0] = t /\ Show(t, text) = r[Len(text)]
           /\ \A n \in 1..Len(text) : r[n] = Put(r[n - 1], text[n])
<1> DEFINE N == Len(text)
           f == [p \in (1..N) \X Line |-> Put(p[2], text[p[1]])]
           E(r) == r = [n \in 0..N |-> IF n = 0 THEN t ELSE Put(r[n - 1], text[n])]
<1>1. N \in Nat /\ \A n \in 1..N : text[n] \in Characters
  OBVIOUS
<1>2. ASSUME NEW n \in 1..N, NEW u \in Line PROVE f[<<n, u>>] = Put(u, text[n])
  OBVIOUS
<1>3. Steps(f, N, Line)
  BY <1>1, <1>2, PutKeeps DEF Steps
<1> HIDE DEF f
<1>4. PICK r \in [0..N -> Line] : Run(r, f, N, t)
  <2> HIDE DEF N
  <2> QED
    BY <1>1, <1>3, Recursion
<1>5. E(r)
  <2> HIDE DEF N
  <2>1. ASSUME NEW n \in 1..N PROVE f[<<n, r[n - 1]>>] = Put(r[n - 1], text[n])
    <3>1. r[n - 1] \in Line
      BY <1>1
    <3> QED
      BY <1>2, <3>1
  <2>2. ASSUME NEW n \in 0..N, n # 0 PROVE n \in 1..N
    BY <1>1, <2>2
  <2> QED
    BY <1>4, <2>1, <2>2 DEF Run
<1> DEFINE q == CHOOSE x : E(x)
<1>6. E(q)
  <2> HIDE DEF E
  <2> QED
    BY <1>5
<1>7. Show(t, text) = q[N]
  BY DEF Show
<1> HIDE DEF q
<1>8. q[0] = t /\ \A n \in 1..N : q[n] = Put(q[n - 1], text[n])
  BY <1>1, <1>6
<1>9. \A n \in 0..N : q[n] \in Line
  <2> DEFINE T == {n \in 0..N : q[n] \in Line}
  <2>1. 0 \in T
    BY <1>1, <1>8
  <2>2. \A n \in 1..N : n - 1 \in T => n \in T
    BY <1>1, <1>8, PutKeeps
  <2> HIDE DEF T
  <2>3. \A n \in 0..N : n \in T
    BY <1>1, <2>1, <2>2, InductTo
  <2> QED
    BY <2>3 DEF T
<1>10. q \in [0..N -> Line]
  BY <1>6, <1>9
<1> QED
  BY <1>7, <1>8, <1>10

\* The texts the driver writes: none, one character, three.
LEMMA ShowShort ==
  ASSUME NEW t \in Line
  PROVE  /\ Show(t, <<>>) = t
         /\ \A c \in Characters : Show(t, <<c>>) = Put(t, c)
         /\ \A a, b, c \in Characters :
              Show(t, <<a, b, c>>) = Put(Put(Put(t, a), b), c)
<1>1. Show(t, <<>>) = t
  <2> DEFINE text == <<>>
  <2>1. text \in Seq(Characters) /\ Len(text) = 0
    OBVIOUS
  <2> HIDE DEF text
  <2>2. PICK r \in [0..Len(text) -> Line] :
          /\ r[0] = t /\ Show(t, text) = r[Len(text)]
          /\ \A n \in 1..Len(text) : r[n] = Put(r[n - 1], text[n])
    BY <2>1, Shown
  <2> QED
    BY <2>1, <2>2 DEF text
<1>2. ASSUME NEW c \in Characters PROVE Show(t, <<c>>) = Put(t, c)
  <2> DEFINE text == <<c>>
  <2>1. text \in Seq(Characters) /\ Len(text) = 1 /\ text[1] = c
    OBVIOUS
  <2> HIDE DEF text
  <2>2. PICK r : /\ r[0] = t /\ Show(t, text) = r[Len(text)]
                 /\ \A n \in 1..Len(text) : r[n] = Put(r[n - 1], text[n])
    BY <2>1, Shown
  <2>3. r[1] = Put(r[1 - 1], text[1])
    BY <2>1, <2>2
  <2> QED
    BY <2>1, <2>2, <2>3 DEF text
<1>3. ASSUME NEW a \in Characters, NEW b \in Characters, NEW c \in Characters
      PROVE  Show(t, <<a, b, c>>) = Put(Put(Put(t, a), b), c)
  <2> DEFINE text == <<a, b, c>>
  <2>1. text \in Seq(Characters) /\ Len(text) = 3
          /\ text[1] = a /\ text[2] = b /\ text[3] = c
    OBVIOUS
  <2> HIDE DEF text
  <2>2. PICK r : /\ r[0] = t /\ Show(t, text) = r[Len(text)]
                 /\ \A n \in 1..Len(text) : r[n] = Put(r[n - 1], text[n])
    BY <2>1, Shown
  <2>3. r[1] = Put(r[1 - 1], text[1]) /\ r[2] = Put(r[2 - 1], text[2])
          /\ r[3] = Put(r[3 - 1], text[3])
    BY <2>1, <2>2
  <2> QED
    BY <2>1, <2>2, <2>3 DEF text
<1> QED
  BY <1>1, <1>2, <1>3

\* The driver's bits and the terminal.
State == [up : SUBSET {0, 1}, term : Line]

\* The driver writes characters, whatever byte it reads: no index is beyond the
\* tables (ps2keyboard.cpp 28).
LEMMA TextTyped ==
  ASSUME NEW up \in SUBSET {0, 1}, NEW b \in 0..255
  PROVE  Text(up, b) \in Seq(Characters)
<1> DEFINE Texts == Seq(Characters)
<1>1. \A n \in 0..127 : <<n, TRUE>> \in Characters /\ <<n, FALSE>> \in Characters
  BY Zenon DEF Characters
<1>2. /\ Nul \in Characters /\ Backspace \in Characters /\ Tab \in Characters
      /\ Newline \in Characters /\ Blank \in Characters
  BY <1>1 DEF Nul, Backspace, Tab, Newline, Blank
<1>3. \A c \in Characters : <<c>> \in Texts
  OBVIOUS
<1>4. <<>> \in Texts /\ <<Backspace, Blank, Backspace>> \in Texts
  BY <1>2
<1>5. ASSUME NEW n \in 0..57
      PROVE  kmap_lower[n] \in Characters /\ kmap_upper[n] \in Characters
  <2>1. n \in 0..127 /\ n \in 0..(KmapSize - 1)
    BY DEF KmapSize
  <2>2. kmap_lower[n] \in {Nul, Blank, <<n, FALSE>>}
    BY <2>1, Zenon DEF kmap_lower
  <2>3. kmap_upper[n] \in {Nul, Blank, <<n, FALSE>>, <<n, TRUE>>}
    BY <2>1, Zenon DEF kmap_upper
  <2> QED
    BY <1>1, <1>2, <2>1, <2>2, <2>3
<1>6. b \in 0..57 \/ b >= 58
  OBVIOUS
<1> HIDE DEF Texts
<1>7. Text(up, b) \in {<<>>, <<Backspace, Blank, Backspace>>, <<Tab>>, <<Newline>>}
        \/ (b < 58 /\ Text(up, b) \in {<<kmap_upper[b]>>, <<kmap_lower[b]>>})
  BY DEF Text, KmapSize
<1>8. CASE b < 58 /\ Text(up, b) \in {<<kmap_upper[b]>>, <<kmap_lower[b]>>}
  <2>1. b \in 0..57
    BY <1>8
  <2> QED
    BY <1>3, <1>5, <1>8, <2>1, Zenon DEF Texts
<1>9. CASE Text(up, b) \in {<<>>, <<Backspace, Blank, Backspace>>, <<Tab>>, <<Newline>>}
  BY <1>2, <1>3, <1>4, <1>9, Zenon DEF Texts
<1> QED
  BY <1>7, <1>8, <1>9

\* A byte leaves the bits and the line what they are by type.
LEMMA DecodeKeeps ==
  ASSUME NEW s \in State, NEW b \in 0..255
  PROVE  Decode(s, b) \in State
<1>1. s.up \in SUBSET {0, 1} /\ s.term \in Line
  BY DEF State
<1>2. Show(s.term, Text(s.up, b)) \in Line
  <2> DEFINE text == Text(s.up, b)
  <2>1. text \in Seq(Characters) /\ Len(text) \in 0..Len(text)
    BY <1>1, TextTyped
  <2> HIDE DEF text
  <2> QED
    BY <1>1, <2>1, Shown DEF text
<1>3. KeyUp(s.up, b) \in SUBSET {0, 1}
  BY <1>1 DEF KeyUp
<1> QED
  BY <1>2, <1>3 DEF Decode, State

\* r lists the states on the way, one byte after the other.
Reading(r, s, w) == r[0] = s /\ \A n \in 1..Len(w) : r[n] = Decode(r[n - 1], w[n])

\* There is such a list, and it ends where Decoded does.
LEMMA Read ==
  ASSUME NEW s \in State, NEW w \in Seq(0..255)
  PROVE  \E r \in [0..Len(w) -> State] : Reading(r, s, w) /\ Decoded(s, w) = r[Len(w)]
<1> DEFINE N == Len(w)
           f == [p \in (1..N) \X State |-> Decode(p[2], w[p[1]])]
           E(r) == r = [n \in 0..N |-> IF n = 0 THEN s ELSE Decode(r[n - 1], w[n])]
<1>1. N \in Nat /\ \A n \in 1..N : w[n] \in 0..255
  BY ElementOfSeq, LenProperties
<1>2. ASSUME NEW n \in 1..N, NEW u \in State PROVE f[<<n, u>>] = Decode(u, w[n])
  OBVIOUS
<1>3. Steps(f, N, State)
  BY <1>1, <1>2, DecodeKeeps DEF Steps
<1> HIDE DEF f
<1>4. PICK r \in [0..N -> State] : Run(r, f, N, s)
  <2> HIDE DEF N
  <2> QED
    BY <1>1, <1>3, Recursion
<1>5. E(r)
  <2> HIDE DEF N
  <2>1. ASSUME NEW n \in 1..N PROVE f[<<n, r[n - 1]>>] = Decode(r[n - 1], w[n])
    <3>1. r[n - 1] \in State
      BY <1>1
    <3> QED
      BY <1>2, <3>1
  <2>2. ASSUME NEW n \in 0..N, n # 0 PROVE n \in 1..N
    BY <1>1, <2>2
  <2> QED
    BY <1>4, <2>1, <2>2 DEF Run
<1> DEFINE q == CHOOSE x : E(x)
<1>6. E(q)
  <2> HIDE DEF E
  <2> QED
    BY <1>5
<1>7. Decoded(s, w) = q[N]
  BY DEF Decoded
<1> HIDE DEF q
<1>8. q[0] = s /\ \A n \in 1..N : q[n] = Decode(q[n - 1], w[n])
  BY <1>1, <1>6
<1>9. \A n \in 0..N : q[n] \in State
  <2> DEFINE T == {n \in 0..N : q[n] \in State}
  <2>1. 0 \in T
    BY <1>1, <1>8
  <2>2. \A n \in 1..N : n - 1 \in T => n \in T
    <3>1. ASSUME NEW n \in 1..N, n - 1 \in T PROVE n \in T
      <4>1. n \in 0..N /\ q[n - 1] \in State /\ w[n] \in 0..255
        BY <1>1, <3>1
      <4>2. q[n] = Decode(q[n - 1], w[n])
        BY <1>8
      <4> QED
        BY <4>1, <4>2, DecodeKeeps
    <3> QED
      BY <3>1
  <2> HIDE DEF T
  <2>3. \A n \in 0..N : n \in T
    BY <1>1, <2>1, <2>2, InductTo
  <2> QED
    BY <2>3 DEF T
<1>10. q \in [0..N -> State]
  BY <1>6, <1>9
<1> QED
  BY <1>7, <1>8, <1>10 DEF Reading

\* Every such list does.
LEMMA ReadOnce ==
  ASSUME NEW s \in State, NEW w \in Seq(0..255), NEW r, Reading(r, s, w)
  PROVE  Decoded(s, w) = r[Len(w)] /\ Decoded(s, w) \in State
<1>1. PICK q \in [0..Len(w) -> State] : Reading(q, s, w) /\ Decoded(s, w) = q[Len(w)]
  BY Read
<1> DEFINE N == Len(w)
           T == {n \in 0..N : q[n] = r[n]}
<1>2. N \in Nat
  OBVIOUS
<1>3. 0 \in T /\ \A n \in 1..N : n - 1 \in T => n \in T
  BY <1>1, <1>2 DEF Reading
<1> HIDE DEF T
<1>4. \A n \in 0..N : n \in T
  BY <1>2, <1>3, InductTo
<1> QED
  BY <1>1, <1>2, <1>4 DEF T

\* Nothing to read.
LEMMA DecodedNone ==
  ASSUME NEW s \in State
  PROVE  Decoded(s, <<>>) = s
<1> DEFINE w == <<>>
<1>1. w \in Seq(0..255) /\ Len(w) = 0
  OBVIOUS
<1> HIDE DEF w
<1>2. PICK r \in [0..Len(w) -> State] : Reading(r, s, w) /\ Decoded(s, w) = r[Len(w)]
  BY <1>1, Read
<1> QED
  BY <1>1, <1>2 DEF w, Reading

\* A byte more on the wire is decoded after the others.
LEMMA DecodedMore ==
  ASSUME NEW s \in State, NEW w \in Seq(0..255), NEW b \in 0..255
  PROVE  /\ Decoded(s, w) \in State
         /\ Decoded(s, w \o <<b>>) = Decode(Decoded(s, w), b)
<1>1. PICK r \in [0..Len(w) -> State] : Reading(r, s, w) /\ Decoded(s, w) = r[Len(w)]
  BY Read
<1> DEFINE v == w \o <<b>>
           N == Len(w)
           q == [n \in 0..(N + 1) |-> IF n = N + 1 THEN Decode(r[N], b) ELSE r[n]]
<1>2. /\ v \in Seq(0..255) /\ Len(v) = N + 1 /\ v[N + 1] = b /\ N \in Nat
      /\ \A n \in 1..N : v[n] = w[n]
  OBVIOUS
<1> HIDE DEF v
<1>3. q[N + 1] = Decode(r[N], b) /\ \A n \in 0..N : q[n] = r[n]
  BY <1>2
<1> HIDE DEF q
<1>4. Reading(q, s, v)
  <2>1. q[0] = s
    BY <1>1, <1>2, <1>3 DEF Reading
  <2>2. ASSUME NEW n \in 1..Len(v) PROVE q[n] = Decode(q[n - 1], v[n])
    <3>1. CASE n = N + 1
      BY <1>2, <1>3, <3>1
    <3>2. CASE n # N + 1
      <4>1. n \in 1..N /\ n \in 0..N /\ n - 1 \in 0..N
        BY <1>2, <3>2
      <4> QED
        BY <1>1, <1>2, <1>3, <4>1 DEF Reading
    <3> QED
      BY <3>1, <3>2
  <2> QED
    BY <2>1, <2>2 DEF Reading
<1>5. Decoded(s, v) = q[N + 1]
  BY <1>2, <1>4, ReadOnce
<1>6. r[N] \in State
  BY <1>1, <1>2
<1> QED
  BY <1>1, <1>3, <1>5, <1>6 DEF v

\* A byte read is decoded already.
LEMMA DecodedLess ==
  ASSUME NEW s \in State, NEW w \in Seq(0..255), w # <<>>
  PROVE  Decoded(Decode(s, Head(w)), Tail(w)) = Decoded(s, w)
<1>1. PICK r \in [0..Len(w) -> State] : Reading(r, s, w) /\ Decoded(s, w) = r[Len(w)]
  BY Read
<1> DEFINE v == Tail(w)
           b == Head(w)
           N == Len(v)
           q == [n \in 0..N |-> r[n + 1]]
<1>2. /\ v \in Seq(0..255) /\ Len(w) = N + 1 /\ w[1] = b /\ N \in Nat /\ b \in 0..255
      /\ \A n \in 1..N : v[n] = w[n + 1]
  <2>1. v \in Seq(0..255) /\ Len(w) = N + 1 /\ w[1] = b /\ N \in Nat
    OBVIOUS
  <2>2. \A n \in 1..N : v[n] = w[n + 1]
    OBVIOUS
  <2>3. 1 \in 1..Len(w)
    BY <2>1
  <2>4. w[1] \in 0..255
    BY <2>3, ElementOfSeq
  <2> QED
    BY <2>1, <2>2, <2>4
<1> HIDE DEF v, b
<1>3. \A n \in 0..N : q[n] = r[n + 1]
  OBVIOUS
<1> HIDE DEF q
<1>4. r[1] = Decode(s, b)
  <2>1. 1 \in 1..Len(w) /\ 1 - 1 = 0
    BY <1>2
  <2> QED
    BY <1>1, <1>2, <2>1 DEF Reading
<1>5. Reading(q, Decode(s, b), v)
  <2>1. q[0] = Decode(s, b)
    BY <1>2, <1>3, <1>4
  <2>2. ASSUME NEW n \in 1..N PROVE q[n] = Decode(q[n - 1], v[n])
    <3>1. n \in 0..N /\ n - 1 \in 0..N /\ (n - 1) + 1 = n /\ n + 1 \in 1..Len(w) /\ (n + 1) - 1 = n
      BY <1>2
    <3>2. q[n] = r[n + 1] /\ q[n - 1] = r[n]
      BY <1>3, <3>1
    <3>3. r[n + 1] = Decode(r[n], w[n + 1])
      BY <1>1, <3>1 DEF Reading
    <3> QED
      BY <1>2, <3>2, <3>3
  <2> QED
    BY <2>1, <2>2 DEF Reading
<1>6. Decode(s, b) \in State
  BY <1>2, DecodeKeeps
<1>7. Decoded(Decode(s, b), v) = q[N]
  BY <1>2, <1>5, <1>6, ReadOnce
<1> QED
  BY <1>1, <1>2, <1>3, <1>7 DEF v, b

(* What a key does to a line with nothing to the right of the cursor.      *)
\* Clean is ErasedBeyond of any line; LineOf is the text left of the cursor.
Clean(t)  == \A i \in t.col..(Width - 1) : t.cells[i] = Blank
LineOf(t) == [i \in 1..t.col |-> t.cells[i - 1]]

\* The text left of the cursor is a sequence as long as the cursor is far.
LEMMA LineTyped ==
  ASSUME NEW t \in Line
  PROVE  /\ LineOf(t) \in Seq(Characters) /\ Len(LineOf(t)) = t.col
         /\ t.col \in 0..(Width - 1) /\ Width \in Nat
         /\ \A i \in 1..t.col : LineOf(t)[i] = t.cells[i - 1] /\ t.cells[i - 1] \in Characters
<1>1. t.col \in 0..(Width - 1) /\ Width \in Nat /\ t.cells \in [0..(Width - 1) -> Characters]
  BY KeyboardAssumption DEF Line
<1>2. \A i \in 1..t.col : LineOf(t)[i] = t.cells[i - 1] /\ t.cells[i - 1] \in Characters
  BY <1>1 DEF LineOf
<1>3. LineOf(t) \in [1..t.col -> Characters]
  BY <1>2 DEF LineOf
<1>4. LineOf(t) \in Seq(Characters) /\ Len(LineOf(t)) = t.col
  BY <1>1, <1>3
<1> QED
  BY <1>1, <1>2, <1>4

\* The newline begins an empty line.
LEMMA PutNewline ==
  ASSUME NEW t
  PROVE  LineOf(Put(t, Newline)) = <<>> /\ Clean(Put(t, Newline))
<1>1. Put(t, Newline) = NewLine
  BY PutIs, Zenon
<1>2. LineOf(NewLine) \in Seq(Characters) /\ Len(LineOf(NewLine)) = 0
  BY LineTyped, EmptyLine
<1>3. Clean(NewLine)
  BY EmptyLine DEF Clean
<1> QED
  BY <1>1, <1>2, <1>3, EmptySeq, Zenon

\* A sign is appended, and at the right edge begins a new line.
LEMMA PutSign ==
  ASSUME NEW t \in Line, Clean(t), NEW c \in Signs
  PROVE  /\ Clean(Put(t, c))
         /\ t.col = Width - 1 => LineOf(Put(t, c)) = <<>>
         /\ t.col # Width - 1 => LineOf(Put(t, c)) = Append(LineOf(t), c)
<1>1. CASE t.col = Width - 1
  <2>1. Put(t, c) = Put(t, Newline)
    BY <1>1, PutIs, Zenon
  <2> QED
    BY <1>1, <2>1, PutNewline, Zenon
<1>2. CASE t.col # Width - 1
  <2> DEFINE u == Written(t, c)
  <2>1. Put(t, c) = u /\ c \in Characters
    BY <1>2, PutIs, Zenon DEF Signs
  <2>2. /\ u \in Line /\ u.col = t.col + 1 /\ u.cells[t.col] = c
        /\ \A i \in 0..(Width - 1) : i # t.col => u.cells[i] = t.cells[i]
    BY <1>2, <2>1, WriteCell
  <2> HIDE DEF u
  <2>3. t.col \in 0..(Width - 1) /\ Width \in Nat
    BY LineTyped
  <2>4. Clean(u)
    BY <2>2, <2>3 DEF Clean
  <2>5. LineOf(u) = Append(LineOf(t), c)
    <3> DEFINE l == LineOf(t)
               m == LineOf(u)
    <3>1. /\ l \in Seq(Characters) /\ Len(l) = t.col
          /\ \A i \in 1..t.col : l[i] = t.cells[i - 1]
      BY LineTyped
    <3>2. /\ m \in Seq(Characters) /\ Len(m) = t.col + 1
          /\ \A i \in 1..(t.col + 1) : m[i] = u.cells[i - 1]
      BY <2>2, LineTyped
    <3> HIDE DEF l, m
    <3>3. /\ Append(l, c) \in Seq(Characters) /\ Len(Append(l, c)) = t.col + 1
          /\ Append(l, c)[t.col + 1] = c
          /\ \A i \in 1..t.col : Append(l, c)[i] = l[i]
      BY <2>1, <3>1
    <3>4. ASSUME NEW i \in 1..(t.col + 1) PROVE m[i] = Append(l, c)[i]
      <4>1. CASE i = t.col + 1
        BY <2>2, <2>3, <3>2, <3>3, <4>1
      <4>2. CASE i # t.col + 1
        <5>1. i \in 1..t.col /\ i - 1 \in 0..(Width - 1) /\ i - 1 # t.col
          BY <2>3, <4>2
        <5> QED
          BY <2>2, <3>1, <3>2, <3>3, <5>1
      <4> QED
        BY <4>1, <4>2
    <3>5. m = Append(l, c)
      BY <3>2, <3>3, <3>4, SeqEqual
    <3> QED
      BY <3>5 DEF l, m
  <2> QED
    BY <1>2, <2>1, <2>4, <2>5
<1> QED
  BY <1>1, <1>2

\* The space is shown as any other sign.
LEMMA BlankIsSign == Blank \in Signs
<1>1. Blank \in Characters
  <2>1. 57 \in 0..127
    OBVIOUS
  <2> QED
    BY <2>1, Zenon DEF Blank, Characters
<1>2. Blank # Nul /\ Blank # Newline /\ Blank # Backspace /\ Blank # Tab
  BY DEF Blank, Nul, Newline, Backspace, Tab
<1> QED
  BY <1>1, <1>2, Zenon DEF Signs

\* A tab appends blanks up to the next stop, if there is one on the line.
LEMMA PutTab ==
  ASSUME NEW t \in Line, Clean(t)
  PROVE  /\ Clean(Put(t, Tab))
         /\ NextStop(t) >= Width => Put(t, Tab) = t
         /\ ~(NextStop(t) >= Width) =>
              LineOf(Put(t, Tab)) = LineOf(t) \o [i \in 1..(NextStop(t) - t.col) |-> Blank]
<1>1. CASE NextStop(t) >= Width
  BY <1>1, PutIs, Zenon
<1>2. CASE ~(NextStop(t) >= Width)
  <2> DEFINE n == NextStop(t)
             u == Moved(t, n)
             l == LineOf(t)
             m == LineOf(u)
             b == [i \in 1..(n - t.col) |-> Blank]
  <2>1. Put(t, Tab) = u
    BY <1>2, PutIs, Zenon
  <2>2. n \in 0..(Width - 1) /\ n > t.col /\ t.col \in 0..(Width - 1) /\ Width \in Nat
    BY <1>2, StopBeyond, LineTyped
  <2> HIDE DEF n
  <2>3. u \in Line /\ u.col = n /\ u.cells = t.cells
    BY <2>2, MoveCursor
  <2> HIDE DEF u
  <2>4. \A i \in 1..t.col : l[i] = t.cells[i - 1]
    BY LineTyped
  <2>5. l \in Seq(Characters) /\ Len(l) = t.col
    BY LineTyped
  <2>6. m \in Seq(Characters) /\ Len(m) = n /\ \A i \in 1..n : m[i] = t.cells[i - 1]
    BY <2>3, LineTyped
  <2> HIDE DEF l, m
  <2>7. /\ b \in Seq(Characters) /\ Len(b) = n - t.col
        /\ \A i \in 1..(n - t.col) : b[i] = Blank
    <3>1. Blank \in Characters
      BY BlankIsSign, Zenon DEF Signs
    <3> QED
      BY <2>2, <3>1
  <2> HIDE DEF b
  <2>8. /\ l \o b \in Seq(Characters) /\ Len(l \o b) = n
        /\ \A i \in 1..n : (l \o b)[i] = IF i <= t.col THEN l[i] ELSE b[i - t.col]
    <3>1. Len(l) + Len(b) = n
      BY <2>2, <2>5, <2>7
    <3>2. /\ l \o b \in Seq(Characters) /\ Len(l \o b) = Len(l) + Len(b)
          /\ \A i \in 1..(Len(l) + Len(b)) :
               (l \o b)[i] = IF i <= Len(l) THEN l[i] ELSE b[i - Len(l)]
      BY <2>5, <2>7, ConcatProperties
    <3> QED
      BY <2>5, <3>1, <3>2
  <2>9. ASSUME NEW i \in 1..n PROVE m[i] = (l \o b)[i]
    <3>1. CASE i <= t.col
      <4>1. i \in 1..t.col
        BY <2>2, <3>1
      <4>2. l[i] = t.cells[i - 1]
        BY <2>4, <4>1
      <4>3. m[i] = t.cells[i - 1]
        BY <2>6
      <4>4. (l \o b)[i] = l[i]
        BY <2>8, <3>1
      <4> QED
        BY <4>2, <4>3, <4>4
    <3>2. CASE ~(i <= t.col)
      <4>1. i - 1 \in t.col..(Width - 1) /\ i - t.col \in 1..(n - t.col)
        BY <2>2, <3>2
      <4>2. t.cells[i - 1] = Blank
        BY <4>1 DEF Clean
      <4> QED
        BY <2>6, <2>7, <2>8, <3>2, <4>1, <4>2
    <3> QED
      BY <3>1, <3>2
  <2>10. m = l \o b
    BY <2>6, <2>8, <2>9, SeqEqual
  <2>11. Clean(u)
    BY <2>2, <2>3 DEF Clean
  <2> QED
    BY <1>2, <2>1, <2>10, <2>11 DEF l, m, b, n
<1> QED
  BY <1>1, <1>2

\* Back, a blank and back again (ps2keyboard.cpp 25).
Erased(t) == Put(Put(Put(t, Backspace), Blank), Backspace)

\* It erases the character before the cursor, and the cell stays blank.
LEMMA PutErase ==
  ASSUME NEW t \in Line, Clean(t)
  PROVE  /\ Clean(Erased(t))
         /\ t.col = 0 => LineOf(Erased(t)) = <<>>
         /\ t.col # 0 => LineOf(Erased(t)) = SubSeq(LineOf(t), 1, t.col - 1)
<1>0. t.col \in 0..(Width - 1) /\ Width \in Nat
  BY LineTyped
<1> DEFINE n == IF t.col = 0 THEN 0 ELSE t.col - 1
           u == Put(t, Backspace)
           v == Put(u, Blank)
           x == Put(v, Backspace)
<1>1. n \in 0..(Width - 1)
  BY <1>0
<1>2. u \in Line /\ u.col = n /\ u.cells = t.cells
  <2>1. CASE t.col = 0
    BY <2>1, PutIs, Zenon
  <2>2. CASE t.col # 0
    <3>1. u = Moved(t, n)
      BY <2>2, PutIs, Zenon
    <3> QED
      BY <1>1, <3>1, MoveCursor
  <2> QED
    BY <2>1, <2>2
<1> HIDE DEF n, u
<1>3. CASE n = Width - 1
  <2>1. t.col = 0
    BY <1>0, <1>3 DEF n
  <2>2. v = NewLine
    <3>1. u.col = Width - 1
      BY <1>2, <1>3
    <3> QED
      BY <3>1, BlankIsSign, PutIs, Zenon
  <2> HIDE DEF v
  <2>3. x = v
    BY <2>2, EmptyLine, PutIs, Zenon
  <2>4. LineOf(NewLine) = <<>> /\ Clean(NewLine)
    <3>1. Put(t, Newline) = NewLine
      BY PutIs, Zenon
    <3> QED
      BY <3>1, PutNewline, Zenon
  <2>5. Erased(t) = NewLine
    BY <2>2, <2>3, Zenon DEF Erased, u, v
  <2> QED
    BY <2>1, <2>4, <2>5
<1>4. CASE n # Width - 1
  <2>1. v = Written(u, Blank) /\ Blank \in Characters
    BY <1>2, <1>4, BlankIsSign, PutIs, Zenon DEF Signs
  <2>2. /\ v \in Line /\ v.col = n + 1 /\ v.cells[n] = Blank
        /\ \A i \in 0..(Width - 1) : i # n => v.cells[i] = t.cells[i]
    BY <1>2, <1>4, <2>1, WriteCell
  <2> HIDE DEF v
  <2>3. x \in Line /\ x.col = n /\ x.cells = v.cells
    <3>1. v.col # 0 /\ v.col - 1 = n
      BY <1>1, <2>2
    <3>2. x = Moved(v, v.col - 1)
      BY <3>1, PutIs, Zenon
    <3> QED
      BY <1>1, <2>2, <3>1, <3>2, MoveCursor
  <2> HIDE DEF x
  <2>4. Clean(x)
    <3>1. ASSUME NEW i \in n..(Width - 1), i # n PROVE v.cells[i] = Blank
      <4>1. i \in 0..(Width - 1) /\ i \in t.col..(Width - 1)
        BY <1>0, <1>1, <3>1 DEF n
      <4> QED
        BY <2>2, <3>1, <4>1 DEF Clean
    <3> QED
      BY <2>2, <2>3, <3>1 DEF Clean
  <2> DEFINE l == LineOf(t)
             m == LineOf(x)
  <2>5. l \in Seq(Characters) /\ Len(l) = t.col /\ \A i \in 1..t.col : l[i] = t.cells[i - 1]
    BY LineTyped
  <2>6. m \in Seq(Characters) /\ Len(m) = n /\ \A i \in 1..n : m[i] = v.cells[i - 1]
    BY <2>3, LineTyped
  <2> HIDE DEF l, m
  <2>7. CASE t.col = 0
    <3>1. m = <<>>
      BY <2>6, <2>7, EmptySeq, Zenon DEF n
    <3> QED
      BY <2>4, <2>7, <3>1 DEF Erased, u, v, x, m
  <2>8. CASE t.col # 0
    <3>1. n = t.col - 1 /\ \A i \in 1..n : l[i] \in Characters
      BY <2>5, <2>8, LineTyped DEF n
    <3>2. /\ SubSeq(l, 1, n) \in Seq(Characters) /\ Len(SubSeq(l, 1, n)) = n
          /\ \A i \in 1..n : SubSeq(l, 1, n)[i] = l[i]
      BY <1>0, <2>5, <2>8, <3>1
    <3>3. ASSUME NEW i \in 1..n PROVE m[i] = SubSeq(l, 1, n)[i]
      <4>1. i \in 1..t.col /\ i - 1 \in 0..(Width - 1) /\ i - 1 # n
        BY <1>0, <3>1
      <4> QED
        BY <2>2, <2>5, <2>6, <3>2, <4>1
    <3>4. m = SubSeq(l, 1, n)
      BY <2>6, <3>2, <3>3, SeqEqual
    <3> QED
      BY <2>4, <2>8, <3>1, <3>4 DEF Erased, u, v, x, l, m
  <2> QED
    BY <2>7, <2>8
<1> QED
  BY <1>3, <1>4

\* The sign of a code that edits nothing.
SignOf(up, b) == IF up # {} THEN kmap_upper[b] ELSE kmap_lower[b]

\* The tables hold signs and nul characters, and nul for the left shift.
LEMMA SignTyped ==
  ASSUME NEW up, NEW b \in (0..57) \ {14, 15, 28}
  PROVE  /\ SignOf(up, b) \in Signs \cup {Nul}
         /\ b = 42 => SignOf(up, b) = Nul
<1>1. b \in 0..127 /\ b \in 0..(KmapSize - 1) /\ b # 14 /\ b # 15 /\ b # 28
  BY DEF KmapSize
<1>2. kmap_lower[b] \in {Nul, Blank, <<b, FALSE>>}
  BY <1>1, Zenon DEF kmap_lower
<1>3. kmap_upper[b] \in {Nul, Blank, <<b, FALSE>>, <<b, TRUE>>}
  BY <1>1, Zenon DEF kmap_upper
<1>4. <<b, FALSE>> \in Characters /\ <<b, TRUE>> \in Characters
  BY <1>1, Zenon DEF Characters
<1>5. /\ <<b, FALSE>> # Newline /\ <<b, FALSE>> # Backspace /\ <<b, FALSE>> # Tab
      /\ <<b, TRUE>> # Newline /\ <<b, TRUE>> # Backspace /\ <<b, TRUE>> # Tab
  BY <1>1 DEF Newline, Backspace, Tab
<1>6. {<<b, FALSE>>, <<b, TRUE>>, Nul, Blank} \subseteq Signs \cup {Nul}
  BY <1>4, <1>5, BlankIsSign, Zenon DEF Signs
<1>7. SignOf(up, b) \in Signs \cup {Nul}
  BY <1>2, <1>3, <1>6, Zenon DEF SignOf
<1>8. ASSUME b = 42 PROVE SignOf(up, b) = Nul
  <2>1. 42 \in UpperNul /\ 42 \in LowerNul /\ b # 57
    BY <1>8 DEF UpperNul, LowerNul
  <2>2. kmap_lower[b] = Nul
    BY <1>1, <1>8, <2>1, Zenon DEF kmap_lower
  <2>3. kmap_upper[b] = Nul
    BY <1>1, <1>8, <2>1, Zenon DEF kmap_upper
  <2> QED
    BY <2>2, <2>3 DEF SignOf
<1> QED
  BY <1>7, <1>8

\* What a byte does to the driver and the terminal.
LEMMA ByteDoes ==
  ASSUME NEW s \in State, Clean(s.term), NEW b \in 0..255
  PROVE  /\ Decode(s, b) \in State /\ Clean(Decode(s, b).term)
         /\ Decode(s, b).up = KeyUp(s.up, b)
         /\ b > 57 => Decode(s, b).term = s.term
         /\ b = 14 => Decode(s, b).term = Erased(s.term)
         /\ b = 15 => Decode(s, b).term = Put(s.term, Tab)
         /\ b = 28 => Decode(s, b).term = Put(s.term, Newline)
         /\ b \in (0..57) \ {14, 15, 28} =>
              IF SignOf(s.up, b) = Nul THEN Decode(s, b).term = s.term
              ELSE Decode(s, b).term = Put(s.term, SignOf(s.up, b))
<1> DEFINE t == s.term
           u == Decode(s, b).term
<1>1. Decode(s, b) \in State
  BY DecodeKeeps
<1>2. t \in Line /\ s.up \in SUBSET {0, 1}
  BY DEF State
<1>3. Decode(s, b).up = KeyUp(s.up, b) /\ u = Show(t, Text(s.up, b))
  BY DEF Decode
<1> HIDE DEF t, u
<1>4. /\ Backspace \in Characters /\ Tab \in Characters /\ Newline \in Characters
      /\ Blank \in Characters /\ Nul \in Characters
  <2>1. 0 \in 0..127 /\ 14 \in 0..127 /\ 15 \in 0..127 /\ 28 \in 0..127
    OBVIOUS
  <2> QED
    BY <2>1, BlankIsSign, Zenon DEF Backspace, Tab, Newline, Nul, Characters, Signs
<1>5. ASSUME b > 57 PROVE u = t
  <2>1. Text(s.up, b) = <<>>
    BY <1>5 DEF Text, KmapSize
  <2> QED
    BY <1>2, <1>3, <2>1, ShowShort
<1>6. ASSUME b = 14 PROVE u = Erased(t)
  <2>1. Text(s.up, b) = <<Backspace, Blank, Backspace>>
    BY <1>6 DEF Text
  <2> QED
    <3>1. Show(t, <<Backspace, Blank, Backspace>>)
            = Put(Put(Put(t, Backspace), Blank), Backspace)
      BY <1>2, <1>4, ShowShort
    <3> QED
      BY <1>3, <2>1, <3>1 DEF Erased
<1>7. ASSUME b = 15 PROVE u = Put(t, Tab)
  <2>1. Text(s.up, b) = <<Tab>>
    BY <1>7 DEF Text
  <2> QED
    BY <1>2, <1>3, <1>4, <2>1, ShowShort, Zenon
<1>8. ASSUME b = 28 PROVE u = Put(t, Newline)
  <2>1. Text(s.up, b) = <<Newline>>
    BY <1>8 DEF Text
  <2> QED
    BY <1>2, <1>3, <1>4, <2>1, ShowShort, Zenon
<1>9. ASSUME b \in (0..57) \ {14, 15, 28}
      PROVE  IF SignOf(s.up, b) = Nul THEN u = t ELSE u = Put(t, SignOf(s.up, b))
  <2>1. CASE b = 42
    <3>1. Text(s.up, b) = <<>>
      BY <2>1 DEF Text
    <3>2. u = t
      BY <1>2, <1>3, <3>1, ShowShort
    <3> QED
      BY <1>9, <2>1, <3>2, SignTyped
  <2>2. CASE b # 42
    <3>1. Text(s.up, b) = <<SignOf(s.up, b)>>
      <4>1. b \notin {42, 170, 58} /\ b # 14 /\ b # 15 /\ b # 28 /\ ~(b >= KmapSize)
        BY <1>9, <2>2 DEF KmapSize
      <4> QED
        BY <4>1, Zenon DEF Text, SignOf
    <3>2. SignOf(s.up, b) \in Characters
      BY <1>4, <1>9, SignTyped, Zenon DEF Signs
    <3>3. u = Put(t, SignOf(s.up, b))
      BY <1>2, <1>3, <3>1, <3>2, ShowShort, Zenon
    <3>4. Put(t, Nul) = t
      BY PutIs, Zenon
    <3> QED
      BY <3>3, <3>4
  <2> QED
    BY <2>1, <2>2
<1>10. Clean(u)
  <2>1. Clean(t)
    BY DEF t
  <2>2. CASE b > 57
    BY <1>5, <2>1, <2>2
  <2>3. CASE b = 14
    BY <1>2, <1>6, <2>1, <2>3, PutErase
  <2>4. CASE b = 15
    BY <1>2, <1>7, <2>1, <2>4, PutTab
  <2>5. CASE b = 28
    BY <1>2, <1>8, <2>1, <2>5, PutNewline
  <2>6. CASE b \in (0..57) \ {14, 15, 28}
    <3>1. SignOf(s.up, b) # Nul => SignOf(s.up, b) \in Signs
      BY <2>6, SignTyped
    <3>2. SignOf(s.up, b) # Nul => Clean(Put(t, SignOf(s.up, b)))
      BY <1>2, <2>1, <3>1, PutSign
    <3> QED
      BY <1>9, <2>1, <2>6, <3>2
  <2> QED
    BY <2>2, <2>3, <2>4, <2>5, <2>6
<1> QED
  BY <1>1, <1>3, <1>5, <1>6, <1>7, <1>8, <1>9, <1>10 DEF t, u

Bytes == Seq(0..255)

\* A key's bytes: PrintScreen's shift or nothing, the prefix or nothing, one
\* byte, and the shift again.
LEMMA MadeOf ==
  ASSUME NEW k \in Keys
  PROVE  /\ k[2] \in 1..127
         /\ k = CapsLock <=> k[2] = 58
         /\ Prefix(k) \in {<<>>, <<224>>}
         /\ Fake(k, 42) \in {<<>>, <<224, 42>>} /\ Fake(k, 170) \in {<<>>, <<224, 170>>}
<1>1. k \in {0, 224} \X (1..127) /\ k # <<224, 58>>
  BY KeyboardAssumption
<1>2. k = <<k[1], k[2]>> /\ k[1] \in {0, 224} /\ k[2] \in 1..127
  BY <1>1
<1>3. k = CapsLock <=> k[2] = 58
  BY <1>1, <1>2 DEF CapsLock
<1>4. Prefix(k) \in {<<>>, <<224>>}
  BY Zenon DEF Prefix
<1>5. Fake(k, 42) \in {<<>>, <<224, 42>>} /\ Fake(k, 170) \in {<<>>, <<224, 170>>}
  BY Zenon DEF Fake
<1> QED
  BY <1>2, <1>3, <1>4, <1>5

\* Sequences of bytes, joined.
LEMMA TwoBytes ==
  ASSUME NEW a \in 0..255, NEW b \in 0..255
  PROVE  <<a>> \o <<b>> = <<a, b>>
<1> DEFINE p == <<a>>
           q == <<b>>
           r == <<a, b>>
<1>1. p \in Seq(0..255) /\ Len(p) = 1 /\ p[1] = a
  OBVIOUS
<1>2. q \in Seq(0..255) /\ Len(q) = 1 /\ q[1] = b
  OBVIOUS
<1>3. r \in Seq(0..255) /\ Len(r) = 2 /\ r[1] = a /\ r[2] = b
  OBVIOUS
<1> HIDE DEF p, q, r
<1>4. /\ p \o q \in Seq(0..255) /\ Len(p \o q) = 2
      /\ (p \o q)[1] = a /\ (p \o q)[2] = b
  <2>1. /\ p \o q \in Seq(0..255) /\ Len(p \o q) = Len(p) + Len(q)
        /\ \A i \in 1..(Len(p) + Len(q)) :
             (p \o q)[i] = IF i <= Len(p) THEN p[i] ELSE q[i - Len(p)]
    BY <1>1, <1>2, ConcatProperties
  <2> QED
    BY <1>1, <1>2, <2>1
<1>5. p \o q = r
  <2>1. \A i \in 1..2 : (p \o q)[i] = r[i]
    BY <1>3, <1>4
  <2> HIDE DEF r
  <2> QED
    BY <1>3, <1>4, <2>1, SeqEqual
<1> QED
  BY <1>5 DEF p, q, r

\* They are closed under concatenation.
LEMMA Chained ==
  ASSUME NEW u \in Bytes, NEW v \in Bytes
  PROVE  u \o v \in Bytes
  BY ConcatProperties DEF Bytes

\* Concatenation is associative.
LEMMA Regrouped ==
  ASSUME NEW u \in Bytes, NEW v \in Bytes, NEW w \in Bytes
  PROVE  (u \o v) \o w = u \o (v \o w)
  BY ConcatAssociative DEF Bytes

\* One byte is such a sequence.
LEMMA Single ==
  ASSUME NEW b \in 0..255
  PROVE  <<b>> \in Bytes
  BY DEF Bytes

\* The empty sequence is neutral.
LEMMA NoBytes ==
  ASSUME NEW w \in Bytes
  PROVE  w \o <<>> = w /\ <<>> \o w = w /\ <<>> \in Bytes
  BY ConcatEmptySeq DEF Bytes

\* The bytes w leave caps lock as the bytes v do.
SameLock(s, v, w) ==
  w \in Bytes /\ (1 \in Decoded(s, w).up <=> 1 \in Decoded(s, v).up)

\* Only the make code of caps lock changes that.
LEMMA LockKept ==
  ASSUME NEW s \in State, NEW v \in Bytes, NEW w, SameLock(s, v, w), NEW b \in 0..255
  PROVE  /\ w \o <<b>> \in Bytes
         /\ b # 58 => SameLock(s, v, w \o <<b>>)
         /\ b = 58 => (1 \in Decoded(s, w \o <<b>>).up <=> ~(1 \in Decoded(s, v).up))
<1>1. w \in Bytes /\ w \o <<b>> \in Bytes
  BY Single, Chained DEF SameLock
<1>2. /\ Decoded(s, w) \in State
      /\ Decoded(s, w \o <<b>>) = Decode(Decoded(s, w), b)
  BY <1>1, DecodedMore DEF Bytes
<1> DEFINE up == Decoded(s, w).up
<1>3. Decoded(s, w \o <<b>>).up = KeyUp(up, b)
  BY <1>2 DEF Decode
<1>4. up \in SUBSET {0, 1}
  BY <1>2 DEF State
<1> HIDE DEF up
<1>5. /\ b # 58 => (1 \in KeyUp(up, b) <=> 1 \in up)
      /\ b = 58 => (1 \in KeyUp(up, b) <=> ~(1 \in up))
  BY <1>4 DEF KeyUp
<1> QED
  BY <1>1, <1>3, <1>5 DEF up, SameLock

\* So the press of a key toggles the bit if the key is caps lock, PrintScreen
\* included, and a release never does.
LEMMA KeyTogglesLock ==
  ASSUME NEW k \in Keys, NEW s \in State, NEW v \in Bytes
  PROVE  /\ Make(k) \in Bytes /\ Break(k) \in Bytes
         /\ 1 \in Decoded(s, v \o Make(k)).up
              <=> ((1 \in Decoded(s, v).up) # (k = CapsLock))
         /\ 1 \in Decoded(s, v \o Break(k)).up <=> 1 \in Decoded(s, v).up
<1> DEFINE c == k[2]
           d == k[2] + 128
           Same(w) == SameLock(s, v, w)
<1>1. c \in 1..127 /\ (k = CapsLock <=> c = 58)
  BY MadeOf
<1>2. d \in 0..255 /\ d # 58 /\ c \in 0..255
  BY ONLY <1>1
<1> HIDE DEF c, d
<1>3. Same(v)
  BY DEF SameLock
<1>4. ASSUME NEW w, Same(w) PROVE w \in Bytes
  BY <1>4 DEF SameLock
<1>5. ASSUME NEW w, Same(w), NEW b \in 0..255, b # 58 PROVE Same(w \o <<b>>)
  BY <1>5, LockKept
<1> HIDE DEF Same
<1>6. ASSUME NEW w, Same(w), NEW f \in 0..255, f # 58 PROVE Same(w \o <<224, f>>)
  <2>1. 224 \in 0..255 /\ 224 # 58
    OBVIOUS
  <2>2. Same(w \o <<224>>)
    BY <1>5, <1>6, <2>1
  <2>3. Same((w \o <<224>>) \o <<f>>)
    BY <1>5, <1>6, <2>2
  <2>4. w \in Bytes /\ <<224>> \in Bytes /\ <<f>> \in Bytes
    <3>1. w \in Bytes
      BY <1>4, <1>6
    <3>2. <<224>> \in Bytes
      BY <2>1, Single
    <3>3. <<f>> \in Bytes
      BY <1>6, Single
    <3> QED
      BY <3>1, <3>2, <3>3
  <2>5. (w \o <<224>>) \o <<f>> = w \o (<<224>> \o <<f>>)
    BY <2>4, Regrouped
  <2>6. <<224>> \o <<f>> = <<224, f>>
    BY <2>1, <1>6, TwoBytes
  <2> QED
    BY <2>3, <2>5, <2>6, Zenon
<1>7. ASSUME NEW w, Same(w) PROVE Same(w \o Prefix(k))
  <2>1. w \o <<>> = w
    BY <1>4, <1>7, NoBytes
  <2>2. Same(w \o <<224>>)
    BY <1>5, <1>7
  <2> QED
    BY <1>7, <2>1, <2>2, MadeOf, Zenon
<1>8. ASSUME NEW w, Same(w)
      PROVE  Same(w \o Fake(k, 42)) /\ Same(w \o Fake(k, 170))
  <2>1. w \o <<>> = w
    BY <1>4, <1>8, NoBytes
  <2>2. Same(w \o <<224, 42>>) /\ Same(w \o <<224, 170>>)
    BY <1>6, <1>8
  <2>3. Same(w \o Fake(k, 42))
    <3>1. CASE Fake(k, 42) = <<>>
      BY <3>1, <1>8, <2>1, Zenon
    <3>2. CASE Fake(k, 42) = <<224, 42>>
      BY <3>2, <2>2, Zenon
    <3> QED
      BY <3>1, <3>2, MadeOf, Zenon
  <2>4. Same(w \o Fake(k, 170))
    <3>1. CASE Fake(k, 170) = <<>>
      BY <3>1, <1>8, <2>1, Zenon
    <3>2. CASE Fake(k, 170) = <<224, 170>>
      BY <3>2, <2>2, Zenon
    <3> QED
      BY <3>1, <3>2, MadeOf, Zenon
  <2> QED
    BY <2>3, <2>4
<1> DEFINE e == Fake(k, 42)
           g == Fake(k, 170)
           p == Prefix(k)
           m == <<c>>
           n == <<d>>
<1>9. e \in Bytes /\ g \in Bytes /\ p \in Bytes /\ m \in Bytes /\ n \in Bytes
  <2>1. <<224, 42>> \in Bytes /\ <<224, 170>> \in Bytes /\ <<224>> \in Bytes /\ <<>> \in Bytes
    BY DEF Bytes
  <2>2. m \in Bytes /\ n \in Bytes
    BY <1>2 DEF Bytes
  <2>3. p \in Bytes
    <3> HIDE DEF p
    <3> QED
      BY <2>1, MadeOf, Zenon DEF p
  <2>4. e \in Bytes
    <3>1. e \in {<<>>, <<224, 42>>}
      BY MadeOf, Zenon
    <3> HIDE DEF e
    <3> QED
      BY <2>1, <3>1, Zenon
  <2>5. g \in Bytes
    <3>1. g \in {<<>>, <<224, 170>>}
      BY MadeOf, Zenon
    <3> HIDE DEF g
    <3> QED
      BY <2>1, <3>1, Zenon
  <2> QED
    BY <2>2, <2>3, <2>4, <2>5
<1>10. Make(k) = (e \o p) \o m /\ Break(k) = (p \o n) \o g
  BY DEF Make, Break, c, d
<1> HIDE DEF e, g, p, m, n
<1>11. /\ (e \o p) \in Bytes /\ (e \o p) \o m \in Bytes
       /\ (p \o n) \in Bytes /\ (p \o n) \o g \in Bytes
  BY <1>9, Chained
<1>12. v \o Make(k) = ((v \o e) \o p) \o m
  <2>1. v \o ((e \o p) \o m) = (v \o (e \o p)) \o m /\ v \o (e \o p) = (v \o e) \o p
    <3>1. v \o ((e \o p) \o m) = (v \o (e \o p)) \o m
      <4> DEFINE ep == e \o p
      <4>1. ep \in Bytes
        BY <1>11
      <4> HIDE DEF ep
      <4>2. v \o (ep \o m) = (v \o ep) \o m
        BY <1>9, <4>1, Regrouped
      <4> QED
        BY <4>2 DEF ep
    <3>2. v \o (e \o p) = (v \o e) \o p
      BY <1>9, Regrouped
    <3> QED
      BY <3>1, <3>2
  <2> QED
    BY <1>10, <2>1, Zenon
<1>13. v \o Break(k) = ((v \o p) \o n) \o g
  <2>1. v \o ((p \o n) \o g) = (v \o (p \o n)) \o g /\ v \o (p \o n) = (v \o p) \o n
    <3>1. v \o ((p \o n) \o g) = (v \o (p \o n)) \o g
      <4> DEFINE pn == p \o n
      <4>1. pn \in Bytes
        BY <1>11
      <4> HIDE DEF pn
      <4>2. v \o (pn \o g) = (v \o pn) \o g
        BY <1>9, <4>1, Regrouped
      <4> QED
        BY <4>2 DEF pn
    <3>2. v \o (p \o n) = (v \o p) \o n
      BY <1>9, Regrouped
    <3> QED
      BY <3>1, <3>2
  <2> QED
    BY <1>10, <2>1, Zenon
<1>14. v \o e \in Bytes /\ (v \o e) \o p \in Bytes /\ v \o p \in Bytes /\ (v \o p) \o n \in Bytes
  BY <1>9, Chained
<1>15. Same((v \o e) \o p)
  <2>1. Same(v \o e)
    BY <1>3, <1>8 DEF e
  <2> QED
    BY <1>7, <1>14, <2>1 DEF p
<1>16. Same(v \o Break(k))
  <2>1. Same(v \o p)
    BY <1>3, <1>7 DEF p
  <2>2. Same((v \o p) \o n)
    BY <1>2, <1>5, <2>1 DEF n
  <2> QED
    BY <1>8, <1>13, <1>14, <2>2 DEF g
<1>17. 1 \in Decoded(s, v \o Make(k)).up <=> ((1 \in Decoded(s, v).up) # (k = CapsLock))
  <2> DEFINE w == (v \o e) \o p
  <2>1. SameLock(s, v, w)
    BY <1>15 DEF Same
  <2>2. v \o Make(k) = w \o <<c>>
    BY <1>12 DEF m
  <2> HIDE DEF w
  <2>3. /\ c # 58 => SameLock(s, v, w \o <<c>>)
        /\ c = 58 => (1 \in Decoded(s, w \o <<c>>).up <=> ~(1 \in Decoded(s, v).up))
    BY <1>2, <2>1, LockKept
  <2> QED
    BY <1>1, <2>2, <2>3 DEF SameLock
<1> QED
  BY <1>10, <1>11, <1>16, <1>17, Zenon DEF Same, SameLock

\* The bits and the terminal as they are; Settled as they will be.
Before == [up |-> key_up, term |-> terminal]

\* What is read is a byte.
LEMMA FirstByte ==
  ASSUME NEW w \in Seq(0..255), w # <<>>
  PROVE  Head(w) \in 0..255 /\ Tail(w) \in Seq(0..255)
<1>1. Len(w) \in Nat /\ Len(w) >= 1 /\ Head(w) = w[1] /\ Tail(w) \in Seq(0..255)
  OBVIOUS
<1>2. 1 \in 1..Len(w)
  BY <1>1
<1> QED
  BY <1>1, <1>2, ElementOfSeq

\* Both are well typed.
LEMMA Unfold ==
  ASSUME TypeOK
  PROVE  /\ Before \in State /\ wire \in Bytes /\ Settled = Decoded(Before, wire)
         /\ Settled \in State /\ Before.term = terminal /\ Before.up = key_up
<1>1. Before \in State /\ wire \in Bytes /\ Before.term = terminal /\ Before.up = key_up
  BY DEF TypeOK, Before, State, Bytes
<1>2. Settled = Decoded(Before, wire)
  BY DEF Settled, Before
<1>3. Decoded(Before, wire) \in State
  <2>1. 0 \in 0..255
    OBVIOUS
  <2> QED
    BY <1>1, <2>1, DecodedMore DEF Bytes
<1> QED
  BY <1>1, <1>2, <1>3

\* What Send leaves: nothing changes but what was sent, or lost.
LEMMA Sent ==
  ASSUME TypeOK, NEW k \in Keys, NEW w \in Bytes, Send(k, w)
  PROVE  /\ wire' \in Bytes /\ stale' \in BOOLEAN /\ intact' \in BOOLEAN
         /\ intact' => intact /\ wire' = wire \o w
<1>1. wire \in Bytes /\ stale \in BOOLEAN /\ intact \in BOOLEAN
  BY DEF TypeOK, Bytes
<1>2. wire \o w \in Bytes
  BY <1>1, Chained
<1>3. CASE wire' = wire \o w /\ stale' = (stale /\ k # LeftShift) /\ intact' = intact
  BY <1>1, <1>2, <1>3
<1>4. CASE wire' = wire /\ stale' = (stale \/ k = LeftShift) /\ intact' = FALSE
  BY <1>1, <1>4
<1> QED
  BY <1>3, <1>4, Zenon DEF Send

\* A key sends bytes.
LEMMA KeySends ==
  ASSUME NEW k \in Keys
  PROVE  Make(k) \in Bytes /\ Break(k) \in Bytes
<1> DEFINE s == [up |-> {}, term |-> NewLine]
<1>1. s \in State
  BY EmptyLine DEF State
<1>2. <<>> \in Bytes
  BY DEF Bytes
<1> HIDE DEF s
<1> QED
  BY <1>1, <1>2, KeyTogglesLock

\* A key always sends something: what is sent makes the wire longer.
LEMMA Longer ==
  ASSUME NEW u \in Bytes, NEW w \in Bytes, w # <<>>
  PROVE  u \o w # u /\ u \o w # <<>>
<1>1. Len(w) \in Nat \ {0} /\ Len(u) \in Nat
  BY EmptySeq, LenProperties DEF Bytes
<1>2. Len(u \o w) = Len(u) + Len(w)
  BY ConcatProperties DEF Bytes
<1>3. Len(u \o w) # Len(u) /\ Len(u \o w) # 0
  BY <1>1, <1>2
<1>4. Len(<<>>) = 0
  OBVIOUS
<1> QED
  BY <1>3, <1>4, Zenon

\* A make code is at least one byte.
LEMMA MadeSomething ==
  ASSUME NEW k \in Keys
  PROVE  Make(k) # <<>>
<1>1. /\ k[2] \in 0..255
      /\ Prefix(k) \in Bytes /\ Fake(k, 42) \in Bytes
  <2>1. /\ k[2] \in 1..127
        /\ Prefix(k) \in {<<>>, <<224>>} /\ Fake(k, 42) \in {<<>>, <<224, 42>>}
    BY MadeOf
  <2>2. <<>> \in Bytes /\ <<224>> \in Bytes /\ <<224, 42>> \in Bytes
    BY DEF Bytes
  <2>3. k[2] \in 0..255
    BY ONLY <2>1
  <2> QED
    BY <2>1, <2>2, <2>3, Zenon
<1>2. Fake(k, 42) \o Prefix(k) \in Bytes /\ <<k[2]>> \in Bytes
  BY <1>1, Chained, Single
<1>3. <<k[2]>> # <<>>
  OBVIOUS
<1> QED
  BY <1>2, <1>3, Longer DEF Make

\* Each step keeps the types.
LEMMA TypeKept == TypeOK /\ [Next]_vars => TypeOK'
<1> SUFFICES ASSUME TypeOK, [Next]_vars PROVE TypeOK'
  OBVIOUS
<1>1. ASSUME NEW k \in Keys, Press(k) PROVE TypeOK'
  <2>1. wire' \in Seq(0..255) /\ stale' \in BOOLEAN /\ intact' \in BOOLEAN
    <3>1. Send(k, Make(k))
      BY <1>1 DEF Press
    <3> QED
      BY <3>1, KeySends, Sent DEF Bytes
  <2>2. held' \subseteq Keys /\ again' \subseteq Repeating /\ lock' \in BOOLEAN
    BY <1>1 DEF Press, CountLock, TypeOK
  <2>3. key_up' = key_up /\ terminal' = terminal
    BY <1>1 DEF Press
  <2> QED
    BY <2>1, <2>2, <2>3 DEF TypeOK
<1>2. ASSUME NEW k \in Keys, Repeat(k) PROVE TypeOK'
  <2>1. wire' \in Seq(0..255) /\ stale' \in BOOLEAN /\ intact' \in BOOLEAN
    <3>1. Send(k, Make(k))
      BY <1>2 DEF Repeat
    <3> QED
      BY <3>1, KeySends, Sent DEF Bytes
  <2>2. UNCHANGED <<held, again, key_up, terminal>> /\ lock' \in BOOLEAN
    BY <1>2 DEF Repeat, CountLock
  <2> QED
    BY <2>1, <2>2 DEF TypeOK
<1>3. ASSUME NEW k \in Keys, Release(k) PROVE TypeOK'
  <2>1. wire' \in Seq(0..255) /\ stale' \in BOOLEAN /\ intact' \in BOOLEAN
    <3>1. Send(k, Break(k))
      BY <1>3 DEF Release
    <3> QED
      BY <3>1, KeySends, Sent DEF Bytes
  <2>2. held' \subseteq Keys /\ again' \subseteq Repeating
    BY <1>3 DEF Release, TypeOK
  <2>3. UNCHANGED <<lock, key_up, terminal>>
    BY <1>3 DEF Release
  <2> QED
    BY <2>1, <2>2, <2>3 DEF TypeOK
<1>4. CASE irq_handler
  <2>1. /\ wire \in Seq(0..255) /\ wire # <<>> /\ wire' = Tail(wire)
        /\ UNCHANGED <<held, again, lock, stale, intact>>
    BY <1>4 DEF irq_handler, TypeOK
  <2>2. Head(wire) \in 0..255 /\ wire' \in Seq(0..255)
    BY <2>1, FirstByte
  <2>3. Decode(Before, Head(wire)) \in State
    BY <2>2, Unfold, DecodeKeeps
  <2>4. /\ key_up' = Decode(Before, Head(wire)).up
        /\ terminal' = Decode(Before, Head(wire)).term
    BY <1>4 DEF irq_handler, Decode, Before
  <2>5. key_up' \in SUBSET {0, 1} /\ terminal' \in Line
    BY <2>3, <2>4 DEF State
  <2> QED
    BY <2>1, <2>2, <2>5 DEF TypeOK
<1>5. CASE UNCHANGED vars
  BY <1>5 DEF TypeOK, vars, keyboardVars
<1> QED
  BY <1>1, <1>2, <1>3, <1>4, <1>5 DEF Next

\* The boot state has them.
LEMMA TypeFirst == Init => TypeOK
<1> SUFFICES ASSUME Init PROVE TypeOK
  OBVIOUS
<1>1. held \subseteq Keys /\ again \subseteq Repeating
  BY KeyboardAssumption DEF Init
<1>2. lock \in BOOLEAN /\ stale \in BOOLEAN /\ intact \in BOOLEAN
  <2>1. lock = FALSE /\ stale = (LeftShift \in held) /\ intact = ~stale
    BY DEF Init
  <2>2. (LeftShift \in held) \in BOOLEAN
    OBVIOUS
  <2>3. stale \in BOOLEAN
    BY <2>1, <2>2, Zenon
  <2>4. intact \in BOOLEAN
    <3>1. CASE stale = TRUE
      BY <2>1, <3>1, Zenon
    <3>2. CASE stale = FALSE
      BY <2>1, <3>2, Zenon
    <3> QED
      BY <2>3, <3>1, <3>2, Zenon
  <2> QED
    BY <2>1, <2>3, <2>4, Zenon
<1>3. wire \in Seq(0..255) /\ key_up \subseteq {0, 1} /\ terminal \in Line
  BY EmptyLine DEF Init
<1> QED
  BY <1>1, <1>2, <1>3 DEF TypeOK

\* The driver keeps its two bits and writes characters within the line, for
\* every key that may be pressed and lost.
THEOREM TypeCorrect == Spec => []TypeOK
  BY TypeFirst, TypeKept, PTL DEF Spec

\* Reading a byte: the driver and the terminal move on, what they will be once
\* everything is read does not.
LEMMA Handled ==
  ASSUME TypeOK, irq_handler
  PROVE  /\ Head(wire) \in 0..255 /\ Before' = Decode(Before, Head(wire))
         /\ Settled' = Settled
<1>1. wire \in Seq(0..255) /\ wire # <<>> /\ wire' = Tail(wire)
  BY DEF irq_handler, TypeOK
<1>2. Head(wire) \in 0..255
  BY <1>1, FirstByte
<1>3. Before' = Decode(Before, Head(wire))
  BY DEF irq_handler, Decode, Before
<1>4. Settled' = Decoded(Before', wire')
  BY DEF Settled, Before
<1>5. Before \in State /\ Settled = Decoded(Before, wire)
  BY Unfold
<1>6. Decoded(Decode(Before, Head(wire)), Tail(wire)) = Decoded(Before, wire)
  BY <1>1, <1>5, DecodedLess
<1> QED
  BY <1>1, <1>2, <1>3, <1>4, <1>5, <1>6

\* Erasing, tabs and the wrap at the edge leave nothing to the right of the
\* cursor (ps2keyboard.cpp 25).
THEOREM NothingBeyond == Spec => []ErasedBeyond
<1> DEFINE Inv == TypeOK /\ ErasedBeyond
<1>1. Init => Inv
  <2>1. Init => ErasedBeyond
    BY EmptyLine DEF Init, ErasedBeyond
  <2> QED
    BY <2>1, TypeFirst
<1>2. Inv /\ [Next]_vars => Inv'
  <2> SUFFICES ASSUME Inv, [Next]_vars PROVE ErasedBeyond'
    BY TypeKept
  <2>1. CASE irq_handler
    <3>1. Head(wire) \in 0..255 /\ Before' = Decode(Before, Head(wire))
      BY <2>1, Handled
    <3>2. Before \in State /\ Clean(Before.term)
      BY Unfold DEF Clean, ErasedBeyond
    <3>3. Clean(Before'.term)
      BY <3>1, <3>2, ByteDoes
    <3>4. Before'.term = terminal'
      BY DEF Before
    <3> QED
      BY <3>3, <3>4 DEF Clean, ErasedBeyond
  <2>2. CASE UNCHANGED terminal
    BY <2>2 DEF ErasedBeyond
  <2>3. irq_handler \/ UNCHANGED terminal
    BY DEF Next, Press, Repeat, Release, vars
  <2> QED
    BY <2>1, <2>2, <2>3
<1> QED
  BY <1>1, <1>2, PTL DEF Spec

\* What a sent code makes of the settled state.
LEMMA SentSettles ==
  ASSUME TypeOK, NEW k \in Keys, NEW w \in Bytes, Send(k, w), intact',
         key_up' = key_up, terminal' = terminal
  PROVE  Settled' = Decoded(Before, wire \o w) /\ intact
<1>1. wire' = wire \o w /\ intact
  BY Sent
<1>2. Settled' = Decoded(Before', wire')
  BY DEF Settled, Before
<1>3. Before' = Before
  BY DEF Before
<1> QED
  BY <1>1, <1>2, <1>3

\* A code either gets onto the wire or changes nothing.
LEMMA SentOrLost ==
  ASSUME TypeOK, NEW k \in Keys, NEW w \in Bytes, Send(k, w),
         key_up' = key_up, terminal' = terminal
  PROVE  \/ wire' = wire \o w /\ Settled' = Decoded(Before, wire \o w)
         \/ wire' = wire /\ Settled' = Decoded(Before, wire)
<1>1. wire' = wire \o w \/ wire' = wire
  BY Zenon DEF Send
<1>2. Settled' = Decoded(Before', wire')
  BY DEF Settled, Before
<1>3. Before' = Before
  BY DEF Before
<1> QED
  BY <1>1, <1>2, <1>3, Zenon

\* A make code keeps the caps lock bit in step with the count.
LEMMA MakeCounted ==
  ASSUME TypeOK, LockFollows, NEW k \in Keys, Send(k, Make(k)), CountLock(k),
         key_up' = key_up, terminal' = terminal
  PROVE  1 \in Settled'.up <=> lock'
<1>1. Before \in State /\ wire \in Bytes /\ Settled = Decoded(Before, wire)
  BY Unfold
<1>2. Make(k) \in Bytes /\ wire \o Make(k) # wire
  BY <1>1, KeySends, MadeSomething, Longer
<1>3. /\ lock' = (lock # (k = CapsLock /\ wire' # wire)) /\ lock \in BOOLEAN
      /\ 1 \in Decoded(Before, wire).up <=> lock
  BY <1>1 DEF CountLock, TypeOK, LockFollows
<1>4. CASE wire' = wire /\ Settled' = Decoded(Before, wire)
  BY <1>3, <1>4, Zenon
<1>5. CASE wire' = wire \o Make(k) /\ Settled' = Decoded(Before, wire \o Make(k))
  <2>1. 1 \in Decoded(Before, wire \o Make(k)).up
          <=> ((1 \in Decoded(Before, wire).up) # (k = CapsLock))
    BY <1>1, KeyTogglesLock
  <2>2. wire' # wire
    BY <1>2, <1>5, Zenon
  <2>3. CASE k = CapsLock
    BY <1>3, <1>5, <2>1, <2>2, <2>3, Zenon
  <2>4. CASE k # CapsLock
    <3>1. lock' <=> lock
      BY <1>3, <2>4, Zenon
    <3>2. 1 \in Decoded(Before, wire \o Make(k)).up <=> 1 \in Decoded(Before, wire).up
      BY <2>1, <2>4
    <3> QED
      BY <1>3, <1>5, <3>1, <3>2, Zenon
  <2> QED
    BY <2>3, <2>4
<1> QED
  BY <1>2, <1>4, <1>5, SentOrLost

\* Each step keeps the caps lock bit in step with the count.
LEMMA LockKeptByNext ==
  ASSUME TypeOK, LockFollows, [Next]_vars
  PROVE  LockFollows'
<1> SUFFICES 1 \in Settled'.up <=> lock'
  BY DEF LockFollows
<1>1. ASSUME NEW k \in Keys, Press(k) PROVE 1 \in Settled'.up <=> lock'
  BY <1>1, MakeCounted DEF Press
<1>2. ASSUME NEW k \in Keys, Repeat(k) PROVE 1 \in Settled'.up <=> lock'
  BY <1>2, MakeCounted DEF Repeat
<1>3. ASSUME NEW k \in Keys, Release(k) PROVE 1 \in Settled'.up <=> lock'
  <2>1. Before \in State /\ wire \in Bytes /\ Settled = Decoded(Before, wire)
    BY Unfold
  <2>2. \/ Settled' = Decoded(Before, wire \o Break(k))
        \/ Settled' = Decoded(Before, wire)
    <3>1. Send(k, Break(k)) /\ key_up' = key_up /\ terminal' = terminal
      BY <1>3 DEF Release
    <3> QED
      BY <3>1, KeySends, SentOrLost
  <2>3. 1 \in Decoded(Before, wire \o Break(k)).up <=> 1 \in Decoded(Before, wire).up
    BY <2>1, KeyTogglesLock
  <2>4. lock' = lock /\ (1 \in Decoded(Before, wire).up <=> lock)
    BY <1>3, <2>1 DEF Release, LockFollows
  <2> QED
    BY <2>2, <2>3, <2>4, Zenon
<1>4. CASE irq_handler
  <2>1. Settled' = Settled
    BY <1>4, Handled
  <2>2. lock' = lock
    BY <1>4 DEF irq_handler
  <2> QED
    BY <2>1, <2>2 DEF LockFollows
<1>5. CASE UNCHANGED vars
  BY <1>5 DEF LockFollows, Settled, vars, keyboardVars
<1> QED
  BY <1>1, <1>2, <1>3, <1>4, <1>5 DEF Next

\* LockFollows, without a condition: whatever is typed, repeated or lost, the
\* caps lock bit tells how often caps lock's make code arrived
\* (ps2keyboard.cpp 23), PrintScreen's and the extended keys' bytes included.
THEOREM LockBitFollows == Spec => []LockFollows
<1>1. Init => LockFollows
  <2> SUFFICES ASSUME Init PROVE LockFollows
    OBVIOUS
  <2>1. Before \in State /\ Settled = Decoded(Before, wire) /\ Before.up = key_up
    BY TypeFirst, Unfold
  <2>2. Settled = Before
    BY <2>1, DecodedNone DEF Init
  <2> QED
    BY <2>1, <2>2 DEF Init, LockFollows
<1>2. TypeOK /\ LockFollows /\ [Next]_vars => LockFollows'
  BY LockKeptByNext
<1> QED
  BY <1>1, <1>2, TypeFirst, TypeKept, PTL DEF Spec

\* The prefix changes nothing; a break code changes nothing but the shift bit.
LEMMA Mute ==
  ASSUME NEW s \in State, NEW b \in 59..255
  PROVE  /\ Decode(s, b).term = s.term
         /\ b \notin ShiftBytes => Decode(s, b) = s
<1>1. s = [up |-> s.up, term |-> s.term] /\ s.up \in SUBSET {0, 1} /\ s.term \in Line
  BY DEF State
<1>2. Decode(s, b).term = s.term
  <2>1. Text(s.up, b) = <<>>
    BY DEF Text, KmapSize
  <2> QED
    BY <1>1, <2>1, ShowShort DEF Decode
<1>3. ASSUME b \notin ShiftBytes PROVE Decode(s, b) = s
  <2>1. KeyUp(s.up, b) = s.up
    BY <1>3 DEF KeyUp, ShiftBytes
  <2>2. Decode(s, b) = [up |-> s.up, term |-> s.term]
    <3>1. Text(s.up, b) = <<>>
      BY DEF Text, KmapSize
    <3> QED
      BY <1>1, <2>1, <3>1, ShowShort DEF Decode
  <2> QED
    BY <1>1, <2>2
<1> QED
  BY <1>2, <1>3

\* Without PrintScreen a key decodes as its last byte alone.
LEMMA KeySettles ==
  ASSUME PrintScreen \notin Keys, NEW k \in Keys, NEW s \in State, NEW v \in Bytes
  PROVE  /\ Decoded(s, v) \in State
         /\ Decoded(s, v \o Make(k)) = Decode(Decoded(s, v), k[2])
         /\ Decoded(s, v \o Break(k)) = Decode(Decoded(s, v), k[2] + 128)
<1>1. /\ Make(k)  = Prefix(k) \o <<k[2]>> /\ Break(k) = Prefix(k) \o <<k[2] + 128>>
      /\ Prefix(k) = <<>> \/ Prefix(k) = <<224>>
  BY KeyBytes
<1>2. k[2] \in 0..255 /\ k[2] + 128 \in 0..255 /\ 224 \in 0..255 /\ 224 \in 59..255
  <2>1. k[2] \in 1..127
    BY KeyBytes
  <2> HIDE DEF Prefix
  <2> QED
    BY ONLY <2>1
<1>3. ASSUME NEW b \in 0..255
      PROVE  Decoded(s, v \o (Prefix(k) \o <<b>>)) = Decode(Decoded(s, v), b)
  <2>1. <<b>> \in Bytes
    BY Single
  <2>2. CASE Prefix(k) = <<>>
    <3>1. Prefix(k) \o <<b>> = <<b>>
      BY <2>1, <2>2, NoBytes, Zenon
    <3>2. Decoded(s, v \o <<b>>) = Decode(Decoded(s, v), b)
      BY DecodedMore DEF Bytes
    <3> QED
      BY <3>1, <3>2, Zenon
  <2>3. CASE Prefix(k) = <<224>>
    <3> DEFINE w == v \o <<224>>
    <3>1. <<224>> \in Bytes
      BY <1>2, Single
    <3>2. w \in Bytes /\ v \o (<<224>> \o <<b>>) = w \o <<b>>
      BY <2>1, <3>1, Chained, Regrouped
    <3>3. Decoded(s, v) \in State /\ Decoded(s, w) = Decode(Decoded(s, v), 224)
      <4>1. ASSUME NEW a \in 0..255
            PROVE  /\ Decoded(s, v) \in State
                   /\ Decoded(s, v \o <<a>>) = Decode(Decoded(s, v), a)
        BY DecodedMore DEF Bytes
      <4> QED
        BY <1>2, <4>1, Zenon
    <3> HIDE DEF w
    <3>4. Decode(Decoded(s, v), 224) = Decoded(s, v)
      <4>1. 224 \notin ShiftBytes
        BY DEF ShiftBytes
      <4> QED
        BY <1>2, <3>3, <4>1, Mute
    <3>5. Decoded(s, w \o <<b>>) = Decode(Decoded(s, w), b)
      BY <3>2, DecodedMore DEF Bytes
    <3> QED
      BY <2>3, <3>2, <3>3, <3>4, <3>5, Zenon
  <2> QED
    BY <1>1, <2>2, <2>3
<1>4. Decoded(s, v) \in State
  BY <1>2, DecodedMore DEF Bytes
<1> QED
  BY <1>1, <1>2, <1>3, <1>4, Zenon

\* The effect of a key on the settled line is what the typewriter's is.
LEMMA Struck ==
  ASSUME TypeOK, NEW k \in Keys, Settled \in State, Clean(Settled.term),
         Settled' = Decode(Settled, k[2]),
         Settled.up # {} <=> LeftShift \in held \/ lock
  PROVE  Typed!Strike(k)
<1> DEFINE t == Settled.term
           u == Settled'.term
           l == LineOf(t)
           m == LineOf(u)
           c == k[2]
           up == Settled.up
<1>1. c \in 1..127 /\ c \in 0..255 /\ k \in Keys
  <2>1. k[2] \in 1..127
    BY MadeOf
  <2> QED
    BY <2>1
<1>2. /\ c > 57 => u = t
      /\ c = 14 => u = Erased(t)
      /\ c = 15 => u = Put(t, Tab)
      /\ c = 28 => u = Put(t, Newline)
      /\ c \in (0..57) \ {14, 15, 28} =>
           IF SignOf(up, c) = Nul THEN u = t ELSE u = Put(t, SignOf(up, c))
  BY <1>1, ByteDoes
<1>3. t \in Line /\ Clean(t)
  BY DEF State
<1>4. l \in Seq(Characters) /\ Len(l) = t.col /\ t.col \in 0..(Width - 1) /\ Width \in Nat
  BY <1>3, LineTyped
<1>5. /\ l = [i \in 1..Settled.term.col |-> Settled.term.cells[i - 1]]
      /\ m = ([i \in 1..Settled.term.col |-> Settled.term.cells[i - 1]])'
  BY DEF LineOf
<1>6. Typed!NextStop = NextStop(t)
  BY <1>4, <1>5 DEF Typed!NextStop, NextStop
<1>7. CASE c = 28
  <2>1. m = <<>>
    BY <1>2, <1>7, PutNewline, Zenon
  <2> QED
    BY <1>5, <1>7, <2>1 DEF Typed!Strike
<1>8. CASE c = 14
  <2>1. /\ t.col = 0 => m = <<>>
        /\ t.col # 0 => m = SubSeq(l, 1, t.col - 1)
    BY <1>2, <1>3, <1>8, PutErase
  <2>2. t.col = 0 <=> l = <<>>
    BY <1>4, EmptySeq
  <2> HIDE DEF m, l
  <2>3. \/ l = <<>> /\ m = l
        \/ l # <<>> /\ m = SubSeq(l, 1, Len(l) - 1)
    BY <1>4, <2>1, <2>2
  <2>4. k \in {x \in Keys : x[2] = 14}
    BY <1>8
  <2> QED
    BY <1>5, <2>3, <2>4, Zenon DEF Typed!Strike
<1>9. CASE c = 15
  <2>1. /\ NextStop(t) >= Width => u = t
        /\ ~(NextStop(t) >= Width) =>
             m = l \o [i \in 1..(NextStop(t) - t.col) |-> Blank]
    BY <1>2, <1>3, <1>9, PutTab
  <2>2. NextStop(t) \in Nat
    BY <1>3, StopBeyond
  <2>3. NextStop(t) < Width <=> ~(NextStop(t) >= Width)
    BY <1>4, <2>2
  <2>4. k \in {x \in Keys : x[2] = 15}
    BY <1>9
  <2>5. CASE NextStop(t) >= Width
    BY <1>5, <1>6, <2>1, <2>4, <2>5, Zenon DEF Typed!Strike
  <2>6. CASE ~(NextStop(t) >= Width)
    <3>1. m = l \o [i \in 1..(Typed!NextStop - Len(l)) |-> Blank]
      BY <1>4, <1>6, <2>1, <2>6, Zenon
    <3> QED
      BY <1>5, <1>6, <2>3, <2>4, <2>6, <3>1, Zenon DEF Typed!Strike
  <2> QED
    BY <2>5, <2>6
<1>10. CASE c \notin {14, 15, 28}
  <2> DEFINE sign == IF c < KmapSize THEN SignOf(up, c) ELSE Nul
  <2>1. k \in OtherKeys
    BY <1>10 DEF OtherKeys
  <2>2. Typed!Sign(k) = sign
    BY <2>1 DEF Typed!Sign, SignOf
  <2>3. \/ sign = Nul /\ m = l
        \/ /\ sign # Nul /\ sign \in Signs
           /\ m = IF t.col = Width - 1 THEN <<>> ELSE Append(l, sign)
    <3>1. CASE c > 57
      <4>1. ~(c < KmapSize)
        BY <1>1, <3>1 DEF KmapSize
      <4> QED
        BY <1>2, <3>1, <4>1, Zenon
    <3>2. CASE ~(c > 57)
      <4>1. c \in (0..57) \ {14, 15, 28} /\ sign = SignOf(up, c)
        BY <1>1, <1>10, <3>2 DEF KmapSize
      <4> HIDE DEF sign
      <4>2. sign = Nul \/ sign \in Signs
        BY <4>1, SignTyped
      <4>3. CASE sign = Nul
        BY <1>2, <4>1, <4>3, Zenon
      <4>4. CASE sign # Nul
        <5>1. u = Put(t, sign) /\ sign \in Signs
          BY <1>2, <4>1, <4>2, <4>4, Zenon
        <5> QED
          BY <1>3, <4>4, <5>1, PutSign, Zenon
      <4> QED
        BY <4>3, <4>4
    <3> QED
      BY <3>1, <3>2
  <2> HIDE DEF sign, l, m
  <2>4. sign # Nul => m = Typed!Wrapped(Append(l, sign))
    <3>1. sign \in Signs => Len(Append(l, sign)) = t.col + 1
      BY <1>4
    <3>2. sign \in Signs => (Len(Append(l, sign)) = Width <=> t.col = Width - 1)
      BY <1>4, <3>1
    <3> QED
      BY <2>3, <3>2, Zenon DEF Typed!Wrapped
  <2>5. k \in DOMAIN [x \in OtherKeys |->
                 IF x[2] < KmapSize THEN kmap_lower[x[2]] ELSE Nul]
    BY <2>1
  <2> QED
    BY <1>5, <2>2, <2>3, <2>4, <2>5, Zenon DEF Typed!Strike
<1> QED
  BY <1>7, <1>8, <1>9, <1>10, Zenon

\* Until a key is lost, what is settled agrees with what the typist did.
Agrees ==
  intact => Clean(Settled.term) /\ (0 \in Settled.up <=> LeftShift \in held)

TypesInv == TypeOK /\ again \subseteq held /\ LockFollows /\ Agrees

\* A make code that is not lost strikes the key.
LEMMA MakeSettles ==
  ASSUME PrintScreen \notin Keys, TypesInv, NEW k \in Keys, Send(k, Make(k)),
         key_up' = key_up, terminal' = terminal, intact'
  PROVE  /\ intact /\ wire' # wire /\ Typed!Strike(k)
         /\ Settled' = Decode(Settled, k[2]) /\ Clean(Settled'.term)
         /\ k = LeftShift => 0 \in Settled'.up
         /\ k # LeftShift => (0 \in Settled'.up <=> LeftShift \in held)
<1>0. /\ Before \in State /\ wire \in Bytes /\ Settled = Decoded(Before, wire)
      /\ Settled \in State
  BY Unfold DEF TypesInv
<1>1. intact /\ wire' # wire /\ Settled' = Decoded(Before, wire \o Make(k))
  <2>1. Make(k) \in Bytes /\ wire \o Make(k) # wire
    BY <1>0, KeySends, MadeSomething, Longer
  <2> QED
    BY <2>1, Sent, SentSettles DEF TypesInv
<1>2. Settled' = Decode(Settled, k[2])
  BY <1>0, <1>1, KeySettles
<1>3. k[2] \in 0..255
  <2>1. k[2] \in 1..127
    BY MadeOf
  <2> QED
    BY <2>1
<1>4. /\ Clean(Settled.term) /\ (1 \in Settled.up <=> lock)
      /\ 0 \in Settled.up <=> LeftShift \in held
  BY <1>1, Zenon DEF TypesInv, Agrees, LockFollows
<1>5. Settled.up # {} <=> LeftShift \in held \/ lock
  <2>1. Settled.up \in SUBSET {0, 1}
    BY <1>0 DEF State
  <2> QED
    BY <1>4, <2>1
<1>6. Typed!Strike(k)
  BY <1>0, <1>2, <1>4, <1>5, Struck DEF TypesInv
<1>7. Clean(Settled'.term) /\ Settled'.up = KeyUp(Settled.up, k[2])
  BY <1>0, <1>2, <1>3, <1>4, ByteDoes
<1>8. /\ k = LeftShift => 0 \in Settled'.up
      /\ k # LeftShift => (0 \in Settled'.up <=> LeftShift \in held)
  <2>1. /\ k = LeftShift => k[2] = 42
        /\ k # LeftShift => k[2] # 42
        /\ k[2] \in 1..127
    BY KeyBytes
  <2> DEFINE up == Settled.up
             c == k[2]
  <2>2. Settled'.up = KeyUp(up, c) /\ up \in SUBSET {0, 1}
    BY <1>0, <1>7 DEF State
  <2>3. /\ c = 42 => 0 \in KeyUp(up, c)
        /\ c # 42 => (0 \in KeyUp(up, c) <=> 0 \in up)
    <3>1. c # 170
      BY <2>1
    <3> HIDE DEF c, up
    <3> QED
      BY <2>2, <3>1 DEF KeyUp
  <2> HIDE DEF up, c
  <2>4. 0 \in up <=> LeftShift \in held
    BY <1>4 DEF up
  <2>5. (k = LeftShift => c = 42) /\ (k # LeftShift => c # 42)
    BY <2>1, Zenon DEF c
  <2> QED
    BY <2>2, <2>3, <2>4, <2>5, Zenon
<1> QED
  BY <1>1, <1>2, <1>6, <1>7, <1>8

\* A break code settles the shift bit and nothing else.
LEMMA BreakSettles ==
  ASSUME PrintScreen \notin Keys, TypesInv, NEW k \in Keys, Send(k, Break(k)),
         key_up' = key_up, terminal' = terminal, intact'
  PROVE  /\ intact /\ Settled'.term = Settled.term
         /\ k = LeftShift => 0 \notin Settled'.up
         /\ k # LeftShift => (0 \in Settled'.up <=> LeftShift \in held)
<1>0. /\ Before \in State /\ wire \in Bytes /\ Settled = Decoded(Before, wire)
      /\ Settled \in State
  BY Unfold DEF TypesInv
<1>1. intact /\ Settled' = Decoded(Before, wire \o Break(k))
  BY KeySends, SentSettles DEF TypesInv
<1> DEFINE d == k[2] + 128
           up == Settled.up
<1>2. Settled' = Decode(Settled, d)
  BY <1>0, <1>1, KeySettles
<1>3. /\ d \in 59..255 /\ d # 42 /\ d # 58
      /\ k = LeftShift => d = 170
      /\ k # LeftShift => d # 170
  <2>1. /\ k = LeftShift => k[2] = 42
        /\ k # LeftShift => k[2] # 42
        /\ k[2] \in 1..127
    BY KeyBytes
  <2> DEFINE c == k[2]
  <2>2. c \in 1..127 /\ d = c + 128
    BY <2>1 DEF d
  <2>3. (k = LeftShift => c = 42) /\ (k # LeftShift => c # 42)
    BY <2>1, Zenon
  <2> HIDE DEF c
  <2>4. d \in 59..255 /\ d # 42 /\ d # 58 /\ (c = 42 <=> d = 170)
    BY ONLY <2>2
  <2> QED
    BY <2>3, <2>4, Zenon
<1> HIDE DEF d
<1>4. 0 \in up <=> LeftShift \in held
  BY <1>1, Zenon DEF TypesInv, Agrees, LockFollows
<1>5. Settled'.term = Settled.term
  <2>1. ASSUME NEW b \in 59..255 PROVE Decode(Settled, b).term = Settled.term
    BY <1>0, Mute
  <2> QED
    BY <1>2, <1>3, <2>1, Zenon
<1>6. Settled'.up = KeyUp(up, d) /\ up \in SUBSET {0, 1}
  BY <1>0, <1>2 DEF Decode, State
<1>7. /\ d = 170 => 0 \notin KeyUp(up, d)
      /\ d # 170 => (0 \in KeyUp(up, d) <=> 0 \in up)
  <2> HIDE DEF up
  <2> QED
    BY <1>3, <1>6 DEF KeyUp
<1> QED
  BY <1>1, <1>3, <1>4, <1>5, <1>6, <1>7

\* The boot state maps to a typist who has typed nothing.
LEMMA TypesFirst == Init => TypesInv /\ Typed!Init
<1> SUFFICES ASSUME Init PROVE TypesInv /\ Typed!Init
  OBVIOUS
<1>1. TypeOK /\ again \subseteq held
  <2>1. again \subseteq held
    BY DEF Init
  <2> QED
    BY <2>1, TypeFirst
<1>2. Settled = Before /\ Before.term = terminal /\ Before.up = key_up
  <2>1. Before \in State /\ Settled = Decoded(Before, wire)
    BY <1>1, Unfold
  <2> QED
    BY <1>1, <2>1, DecodedNone, Unfold DEF Init
<1>3. Clean(NewLine) /\ LineOf(NewLine) = <<>>
  <2>1. Put(terminal, Newline) = NewLine
    BY PutIs, Zenon
  <2> QED
    BY <2>1, PutNewline, Zenon
<1>4. Settled.term = NewLine /\ Settled.up = {}
  BY <1>2 DEF Init
<1>5. Agrees /\ LockFollows
  <2>1. /\ 1 \notin Settled.up /\ 0 \notin Settled.up /\ ~lock
        /\ intact => LeftShift \notin held
    BY <1>4 DEF Init
  <2>2. Clean(Settled.term)
    BY <1>3, <1>4, Zenon
  <2> QED
    BY <2>1, <2>2, Zenon DEF Agrees, LockFollows
<1>6. Typed!Init
  <2>1. held \in SUBSET Keys /\ intact \in BOOLEAN /\ lock = FALSE
    BY <1>1 DEF TypeOK, Init
  <2>2. intact => LeftShift \notin held
    BY DEF Init
  <2>3. LineOf(Settled.term) = <<>>
    BY <1>3, <1>4, Zenon
  <2> QED
    BY <2>1, <2>2, <2>3 DEF Typed!Init, LineOf
<1> QED
  BY <1>1, <1>5, <1>6 DEF TypesInv

\* Each step of the driver is one of the typewriter, or none.
LEMMA TypesStep ==
  ASSUME PrintScreen \notin Keys
  PROVE  TypesInv /\ [Next]_vars => TypesInv' /\ [Typed!Next]_(Typed!vars)
<1> SUFFICES ASSUME TypesInv, [Next]_vars
             PROVE  TypesInv' /\ [Typed!Next]_(Typed!vars)
  OBVIOUS
<1> DEFINE Follows == /\ again' \subseteq held' /\ Agrees'
                      /\ Typed!Next \/ UNCHANGED Typed!vars
<1>1. TypeOK /\ TypeOK' /\ again \subseteq held /\ LockFollows'
  BY TypeKept, LockKeptByNext DEF TypesInv
<1>2. ASSUME intact' = FALSE PROVE Agrees' /\ Typed!Next
  <2>1. Typed!Next
    BY <1>2 DEF Typed!Next, Typed!Lose
  <2> QED
    BY <1>2, <2>1 DEF Agrees
<1>3. ASSUME NEW k \in Keys, Press(k) PROVE Follows
  <2>1. Send(k, Make(k)) /\ key_up' = key_up /\ terminal' = terminal
    BY <1>3 DEF Press
  <2>2. /\ k \in Keys \ held /\ held' = held \cup {k} /\ again' \subseteq held'
        /\ lock' = (lock # (k = CapsLock /\ wire' # wire))
    BY <1>3 DEF Press, CountLock
  <2>3. CASE intact' = TRUE
    <3>1. /\ intact /\ wire' # wire /\ Typed!Strike(k) /\ Clean(Settled'.term)
          /\ k = LeftShift => 0 \in Settled'.up
          /\ k # LeftShift => (0 \in Settled'.up <=> LeftShift \in held)
      BY <2>1, <2>3, MakeSettles
    <3>2. Agrees'
      BY <2>2, <3>1 DEF Agrees
    <3>3. intact' = intact
      BY <1>1, <2>3, <3>1, Zenon DEF TypeOK
    <3>4. Typed!Press(k)
      <4>1. lock' = (lock # (k = CapsLock))
        BY <2>2, <3>1, Zenon
      <4> QED
        BY <2>2, <3>1, <3>3, <4>1 DEF Typed!Press
    <3> QED
      BY <2>2, <3>2, <3>4 DEF Typed!Next
  <2> QED
    BY <1>1, <1>2, <2>2, <2>3 DEF TypeOK
<1>4. ASSUME NEW k \in Keys, Repeat(k) PROVE Follows
  <2>1. Send(k, Make(k)) /\ key_up' = key_up /\ terminal' = terminal
    BY <1>4 DEF Repeat
  <2>2. /\ k \in held /\ held' = held /\ again' = again
        /\ lock' = (lock # (k = CapsLock /\ wire' # wire))
    BY <1>1, <1>4 DEF Repeat, CountLock
  <2>3. CASE intact' = TRUE
    <3>1. /\ intact /\ wire' # wire /\ Typed!Strike(k) /\ Clean(Settled'.term)
          /\ k = LeftShift => 0 \in Settled'.up
          /\ k # LeftShift => (0 \in Settled'.up <=> LeftShift \in held)
      BY <2>1, <2>3, MakeSettles
    <3>2. Agrees'
      BY <2>2, <3>1 DEF Agrees
    <3>3. intact' = intact
      BY <1>1, <2>3, <3>1, Zenon DEF TypeOK
    <3>4. Typed!Repeat(k)
      <4>1. lock' = (lock # (k = CapsLock))
        BY <2>2, <3>1, Zenon
      <4> QED
        BY <2>2, <3>1, <3>3, <4>1 DEF Typed!Repeat
    <3> QED
      BY <1>1, <2>2, <3>2, <3>4 DEF Typed!Next
  <2> QED
    BY <1>1, <1>2, <2>2, <2>3 DEF TypeOK
<1>5. ASSUME NEW k \in Keys, Release(k) PROVE Follows
  <2>1. Send(k, Break(k)) /\ key_up' = key_up /\ terminal' = terminal
    BY <1>5 DEF Release
  <2>2. /\ k \in held /\ held' = held \ {k} /\ again' \subseteq held'
        /\ lock' = lock
    BY <1>1, <1>5 DEF Release
  <2>3. CASE intact' = TRUE
    <3>1. /\ intact /\ Settled'.term = Settled.term
          /\ k = LeftShift => 0 \notin Settled'.up
          /\ k # LeftShift => (0 \in Settled'.up <=> LeftShift \in held)
      BY <2>1, <2>3, BreakSettles
    <3>2. Agrees'
      BY <2>2, <3>1 DEF Agrees, TypesInv
    <3>3. intact' = intact
      BY <1>1, <2>3, <3>1, Zenon DEF TypeOK
    <3>4. Typed!Release(k)
      BY <2>2, <3>1, <3>3 DEF Typed!Release
    <3> QED
      BY <2>2, <3>2, <3>4 DEF Typed!Next
  <2> QED
    BY <1>1, <1>2, <2>2, <2>3 DEF TypeOK
<1>6. ASSUME irq_handler PROVE Follows
  <2>1. Settled' = Settled
    BY <1>1, <1>6, Handled
  <2>2. UNCHANGED <<held, again, lock, intact>>
    BY <1>6 DEF irq_handler
  <2>3. UNCHANGED Typed!vars
    BY <2>1, <2>2 DEF Typed!vars
  <2>4. Agrees'
    BY <2>1, <2>2 DEF Agrees, TypesInv
  <2>5. again' \subseteq held'
    BY <1>1, <2>2
  <2> QED
    BY <2>3, <2>4, <2>5, Zenon
<1>7. ASSUME UNCHANGED vars PROVE Follows
  <2>1. Settled' = Settled
    BY <1>7 DEF Settled, vars, keyboardVars
  <2>2. UNCHANGED <<held, again, lock, intact>>
    BY <1>7 DEF vars, keyboardVars
  <2>3. UNCHANGED Typed!vars
    BY <2>1, <2>2 DEF Typed!vars
  <2>4. Agrees'
    BY <2>1, <2>2 DEF Agrees, TypesInv
  <2>5. again' \subseteq held'
    BY <1>1, <2>2
  <2> QED
    BY <2>3, <2>4, <2>5, Zenon
<1>8. Follows
  <2> HIDE DEF Follows
  <2> QED
    BY <1>3, <1>4, <1>5, <1>6, <1>7 DEF Next
<1> QED
  BY <1>1, <1>8 DEF TypesInv

\* The driver implements the typewriter: every key has the effect it had when
\* it went down or repeated, however late its bytes are read.  PrintScreen
\* sends a shift of its own, which nobody typed.
THEOREM DecoderTypes ==
  ASSUME PrintScreen \notin Keys
  PROVE  Spec => TypesAsStruck
<1>1. Init => TypesInv /\ Typed!Init
  BY TypesFirst
<1>2. TypesInv /\ [Next]_vars => TypesInv' /\ [Typed!Next]_(Typed!vars)
  BY TypesStep
<1> QED
  BY <1>1, <1>2, PTL DEF Spec, TypesAsStruck, Typed!Spec

=============================================================================
