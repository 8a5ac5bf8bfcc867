---------------------------- MODULE KernelProofs ----------------------------
(***************************************************************************)
(* The kernel with its interrupts implements the decoder alone, for every  *)
(* set of keys, masks and devices: what is proved of Keyboard holds of the *)
(* whole.                                                                  *)
(***************************************************************************)
EXTENDS Kernel, InterruptsProofs, SequenceTheorems

(* The bytes of a key are bytes. *)
LEMMA KeyBytes ==
  ASSUME NEW k \in Keys
  PROVE  Decoder!Make(k) \in Seq(0..255) /\ Decoder!Break(k) \in Seq(0..255)
<1>1. k[2] \in 1..127
  BY KernelAssumption DEF Decoder!KeyboardAssumption
<1> DEFINE Bytestrings == Seq(0..255)
<1>0. /\ <<>> \in Bytestrings /\ <<224>> \in Bytestrings
      /\ <<224, 42>> \in Bytestrings /\ <<224, 170>> \in Bytestrings
  OBVIOUS
<1>2. Decoder!Prefix(k) \in Bytestrings
  <2> HIDE DEF Bytestrings
  <2> QED
    BY <1>0, Zenon DEF Decoder!Prefix
<1>3. Decoder!Fake(k, 42) \in Bytestrings /\ Decoder!Fake(k, 170) \in Bytestrings
  <2> HIDE DEF Bytestrings
  <2> QED
    BY <1>0, Zenon DEF Decoder!Fake
<1>4. <<k[2]>> \in Seq(0..255) /\ <<k[2] + 128>> \in Seq(0..255)
  BY <1>1
<1> QED
  BY <1>2, <1>3, <1>4 DEF Decoder!Make, Decoder!Break

(* A step of the whole is a step of Interrupts, or leaves it alone. *)
LEMMA Projected == [KernelNext]_kernelVars => [Next]_vars
<1> SUFFICES ASSUME [KernelNext]_kernelVars PROVE [Next]_vars
  OBVIOUS
<1>1. CASE Typing
  BY <1>1 DEF Typing
<1>2. CASE Transfer
  BY <1>2 DEF Transfer, Next
<1>3. CASE Dispatch
  BY <1>3 DEF Dispatch, Next, Handle
<1>4. CASE UNCHANGED kernelVars
  BY <1>4 DEF kernelVars
<1> QED
  BY <1>1, <1>2, <1>3, <1>4 DEF KernelNext, Alone, Next, Handle

BytesInv == fifo \in Seq(0..255) /\ port \in 0..255 /\ obf \in BOOLEAN

(* The bytes on their way, when there is one in the controller or not. *)
LEMMA Wires ==
  ASSUME NEW f \in Seq(0..255), NEW p \in 0..255
  PROVE  /\ <<>> \o f = f
         /\ <<p>> \o f # <<>> /\ Head(<<p>> \o f) = p /\ Tail(<<p>> \o f) = f
         /\ f # <<>> => <<Head(f)>> \o Tail(f) = f
<1>1. <<>> \o f = f
  OBVIOUS
<1>2. <<p>> \o f # <<>> /\ Head(<<p>> \o f) = p /\ Tail(<<p>> \o f) = f
  OBVIOUS
<1>3. f # <<>> => <<Head(f)>> \o Tail(f) = f
  OBVIOUS
<1> QED
  BY <1>1, <1>2, <1>3

(* DecodesOnce: with a keyboard that is silent until the master PIC's      *)
(* reset, the interrupt of each byte leads to its being decoded, once and  *)
(* in order, and irq_interrupt_handler decodes nothing else.               *)
THEOREM ImplementsDecoder ==
  ASSUME EarlyKeys = FALSE
  PROVE  KernelSpec => DecodesOnce
<1>1. KernelInit => Init /\ BytesInv /\ Decoder!Init
  <2>1. <<>> \in Seq(0..255)
    OBVIOUS
  <2>2. KernelInit => Init /\ Decoder!Init /\ fifo = <<>> /\ port = 0 /\ obf = FALSE
    BY DEF KernelInit, Init
  <2>3. fifo = <<>> /\ port = 0 /\ obf = FALSE => BytesInv
    <3>1. 0 \in 0..255 /\ FALSE \in BOOLEAN
      OBVIOUS
    <3> QED
      BY <2>1, <3>1, Zenon DEF BytesInv
  <2> QED
    BY <2>2, <2>3, Zenon
<1>2. BytesInv /\ [KernelNext]_kernelVars => BytesInv'
  <2> SUFFICES ASSUME BytesInv, [KernelNext]_kernelVars PROVE BytesInv'
    OBVIOUS
  <2> USE DEF BytesInv
  <2>1. CASE Typing
    <3>1. PICK k \in Keys : \E bytes \in {<<>>, Decoder!Make(k), Decoder!Break(k)} :
            fifo' = fifo \o bytes
      BY <2>1 DEF Typing
    <3>2. PICK bytes \in Seq(0..255) : fifo' = fifo \o bytes
      <4>1. <<>> \in Seq(0..255)
        OBVIOUS
      <4> QED
        BY <3>1, <4>1, KeyBytes, Zenon
    <3> QED
      BY <2>1, <3>2 DEF Typing, vars
  <2>2. CASE Transfer
    <3>1. fifo # <<>> /\ port' = Head(fifo) /\ fifo' = Tail(fifo) /\ obf' = TRUE
      BY <2>2 DEF Transfer, KeyByte
    <3>2. Head(fifo) \in 0..255 /\ Tail(fifo) \in Seq(0..255)
      BY <3>1, HeadTailProperties
    <3> QED
      BY <3>1, <3>2
  <2>3. CASE Dispatch
    BY <2>3 DEF Dispatch, RunHandler
  <2>4. ASSUME UNCHANGED <<fifo, port, obf>> PROVE BytesInv'
    BY <2>4
  <2> HIDE DEF BytesInv
  <2> QED
    BY <2>1, <2>2, <2>3, <2>4
       DEF KernelNext, Alone, kernelVars, decoderVars, vars, Boot, LoadIdt, ReadImr, Icw1,
           Icw2, WriteIcw3, WriteIcw4, RestoreImr, UnmaskRead, UnmaskWrite, Enable, Spin,
           Deliver, Spurious, Enter, EoiSlave, EoiMaster, Iret, DeviceIrq
<1>3. BytesInv /\ KeyReadIsReal /\ [KernelNext]_kernelVars
        => [Decoder!Next]_(Decoder!vars)
  <2> SUFFICES ASSUME BytesInv, KeyReadIsReal, [KernelNext]_kernelVars
               PROVE  [Decoder!Next]_(Decoder!vars)
    OBVIOUS
  <2>1. CASE Typing
    BY <2>1 DEF Typing, Decoder!Next
  <2>2. ASSUME UNCHANGED <<typistVars, driverVars>>, wire' = wire
        PROVE  UNCHANGED Decoder!vars
    BY <2>2 DEF typistVars, driverVars, Decoder!vars, Decoder!keyboardVars
  <2>3. CASE Transfer
    <3>1. /\ ~obf /\ obf' /\ fifo # <<>>
          /\ port' = Head(fifo) /\ fifo' = Tail(fifo)
      BY <2>3 DEF Transfer, KeyByte
    <3>2. wire' = wire
      BY <3>1, Wires DEF wire, BytesInv
    <3> QED
      BY <2>2, <2>3, <3>2 DEF Transfer
  <2>4. CASE Dispatch /\ Top.vector = KeyboardVector
    <3>1. obf /\ ~obf' /\ UNCHANGED <<fifo, port, typistVars>>
      BY <2>4 DEF Dispatch, RunHandler, Advance, KeyReadIsReal
    <3>2. wire # <<>> /\ Head(wire) = port /\ wire' = Tail(wire)
      BY <3>1, Wires DEF wire, BytesInv
    <3>3. /\ key_up' = Decoder!KeyUp(key_up, Head(wire))
          /\ terminal' = Decoder!Show(terminal, Decoder!Text(key_up, Head(wire)))
      BY <2>4, <3>2 DEF Dispatch
    <3> QED
      BY <3>1, <3>2, <3>3 DEF Decoder!irq_handler, Decoder!Next, typistVars
  <2>5. CASE Dispatch /\ Top.vector # KeyboardVector
    <3>1. UNCHANGED <<obf, fifo, port, typistVars, driverVars>>
      BY <2>5 DEF Dispatch, RunHandler, BytesInv
    <3> QED
      BY <2>2, <3>1 DEF wire
  <2>6. ASSUME UNCHANGED <<decoderVars, obf>> PROVE UNCHANGED Decoder!vars
    <3>1. wire' = wire
      BY <2>6 DEF wire, decoderVars
    <3> QED
      BY <2>2, <2>6, <3>1 DEF decoderVars
  <2>7. CASE \/ Alone(Boot) \/ Alone(Spin) \/ Alone(Deliver) \/ Alone(Spurious)
             \/ Alone(EoiSlave) \/ Alone(EoiMaster) \/ Alone(Iret) \/ Alone(DeviceIrq)
    <3>1. UNCHANGED <<decoderVars, obf>>
      BY <2>7 DEF Alone, vars, Boot, LoadIdt, ReadImr, Icw1, Icw2, WriteIcw3, WriteIcw4,
           RestoreImr, UnmaskRead, UnmaskWrite, Enable, Spin, Deliver, Spurious, Enter,
           EoiSlave, EoiMaster, Iret, DeviceIrq
    <3> QED
      BY <2>6, <3>1
  <2>8. CASE UNCHANGED kernelVars
    BY <2>6, <2>8 DEF kernelVars, vars
  <2> QED
    BY <2>1, <2>3, <2>4, <2>5, <2>7, <2>8 DEF KernelNext
<1>4. Spec => []KeyReadIsReal
  BY KeyRequests, PTL
<1> QED
  BY <1>1, <1>2, <1>3, <1>4, Projected, PTL
     DEF KernelSpec, Spec, DecodesOnce, Decoder!Spec

-----------------------------------------------------------------------------
(* From the key to the line: what KeyboardProofs says of the decoder holds *)
(* of the whole.  Decoder and Proved are instances of the same module, and *)
(* the lemmas tell the prover so, operator by operator.                    *)
Proved == INSTANCE KeyboardProofs

LEMMA SameCodes ==
  \A k : Proved!Make(k) = Decoder!Make(k) /\ Proved!Break(k) = Decoder!Break(k)
<1>1. \A k : Proved!Prefix(k) = Decoder!Prefix(k)
  BY DEF Proved!Prefix, Decoder!Prefix
<1>2. \A k, code : Proved!Fake(k, code) = Decoder!Fake(k, code)
  BY DEF Proved!Fake, Decoder!Fake, Proved!PrintScreen, Decoder!PrintScreen,
         Proved!LeftShift, Decoder!LeftShift
<1> QED
  BY <1>1, <1>2, Zenon DEF Proved!Make, Decoder!Make, Proved!Break, Decoder!Break

LEMMA SameKeys ==
  \A k : /\ Proved!Press(k) <=> Decoder!Press(k)
         /\ Proved!Repeat(k) <=> Decoder!Repeat(k)
         /\ Proved!Release(k) <=> Decoder!Release(k)
<1>1. \A k, bytes : Proved!Send(k, bytes) <=> Decoder!Send(k, bytes)
  BY DEF Proved!Send, Decoder!Send, Proved!LeftShift, Decoder!LeftShift
<1> QED
  BY <1>1, SameCodes
     DEF Proved!Press, Decoder!Press, Proved!Repeat, Decoder!Repeat, Proved!Release,
         Decoder!Release, Proved!CountLock, Decoder!CountLock, Proved!CapsLock,
         Decoder!CapsLock, Proved!Cardinality, Decoder!Cardinality

LEMMA SameLines ==
  ASSUME NEW t, NEW text
  PROVE  Proved!Show(t, text) = Decoder!Show(t, text)
<1>1. \A u, c : Proved!Put(u, c) = Decoder!Put(u, c)
  BY DEF Proved!Put, Decoder!Put, Proved!NextStop, Decoder!NextStop, Proved!NewLine,
         Decoder!NewLine, Proved!Nul, Decoder!Nul, Proved!Backspace, Decoder!Backspace,
         Proved!Tab, Decoder!Tab, Proved!Newline, Decoder!Newline, Proved!Blank,
         Decoder!Blank
<1> QED
  BY <1>1 DEF Proved!Show, Decoder!Show

LEMMA SameHandler == Proved!irq_handler <=> Decoder!irq_handler
<1>1. \A up, code : Proved!KeyUp(up, code) = Decoder!KeyUp(up, code)
  BY DEF Proved!KeyUp, Decoder!KeyUp
<1>2. Proved!kmap_lower = Decoder!kmap_lower /\ Proved!kmap_upper = Decoder!kmap_upper
  BY DEF Proved!kmap_lower, Decoder!kmap_lower, Proved!kmap_upper, Decoder!kmap_upper,
         Proved!KmapSize, Decoder!KmapSize, Proved!LowerNul, Decoder!LowerNul,
         Proved!UpperNul, Decoder!UpperNul, Proved!Nul, Decoder!Nul, Proved!Blank,
         Decoder!Blank
<1>3. \A up, code : Proved!Text(up, code) = Decoder!Text(up, code)
  BY <1>2
     DEF Proved!Text, Decoder!Text, Proved!KmapSize, Decoder!KmapSize, Proved!Backspace,
         Decoder!Backspace, Proved!Tab, Decoder!Tab, Proved!Newline, Decoder!Newline,
         Proved!Blank, Decoder!Blank
<1> QED
  BY <1>1, <1>3, SameLines DEF Proved!irq_handler, Decoder!irq_handler

LEMMA SameDecoder == Decoder!Spec => Proved!Spec
<1>1. Decoder!Init => Proved!Init
  BY DEF Proved!Init, Decoder!Init, Proved!LeftShift, Decoder!LeftShift, Proved!NewLine,
         Decoder!NewLine, Proved!Blank, Decoder!Blank
<1>2. Decoder!Next => Proved!Next
  BY SameKeys, SameHandler DEF Proved!Next, Decoder!Next
<1>3. UNCHANGED Decoder!vars => UNCHANGED Proved!vars
  BY DEF Proved!vars, Decoder!vars, Proved!keyboardVars, Decoder!keyboardVars
<1> QED
  BY <1>1, <1>2, <1>3, PTL DEF Decoder!Spec, Proved!Spec

\* The whole kernel implements the typewriter: with the PICs, the controller and
\* every other device's requests in between, keys have the effect they had when
\* they went down or repeated, until one is lost (interrupts.cpp:141-155, ps2keyboard.cpp).
THEOREM KernelTypes ==
  ASSUME EarlyKeys = FALSE, Proved!PrintScreen \notin Keys
  PROVE  KernelSpec => Proved!TypesAsStruck
<1>1. Proved!KeyboardAssumption
  BY KernelAssumption DEF Proved!KeyboardAssumption, Decoder!KeyboardAssumption
<1>2. Proved!Spec => Proved!TypesAsStruck
  BY <1>1, Proved!DecoderTypes
<1>3. KernelSpec => Decoder!Spec
  BY ImplementsDecoder DEF DecodesOnce
<1> QED
  BY <1>2, <1>3, SameDecoder, PTL
=============================================================================
