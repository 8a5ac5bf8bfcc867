-------------------------- MODULE InterruptsProofs --------------------------
(***************************************************************************)
(* Proofs about Interrupts, for every set of masks the boot loader leaves  *)
(* and every set of devices: handlers do not nest, requests arrive under   *)
(* the vectors the table of handlers has for them, the masks survive the   *)
(* remapping, an end of interrupt ends its own request, and no byte of the *)
(* keyboard is left without a request; and Interrupts implements Service,  *)
(* with requests that may vanish.                                          *)
(***************************************************************************)
EXTENDS Interrupts, TLAPS

(* The stack is empty or holds one frame. *)
StackInv ==
  /\ stack = <<>> \/ \E f \in Frames : stack = <<f>>
  /\ iflag => stack = <<>> /\ point = "spin"
  /\ stack # <<>> =>
       /\ point = "spin"
       /\ stack[1].at # "panic"
       /\ stack[1].vector = ExceptionCount + stack[1].irq

(* How far the initialisation of the chips is. *)
ProgramInv ==
  /\ icw3 = Icw3
  /\ \A c \in Chips :
       expects[c] = IF c = chip /\ point \in {"icw2", "icw3", "icw4"} THEN point ELSE "mask"
  /\ point \in {"icw3", "icw4", "restore"} => base[chip] = Offset[chip]
  /\ chip = "SPIC" => base["MPIC"] = Offset["MPIC"]
  /\ point \in {"unmask", "unmask_write", "sti", "spin"} =>
       chip = "SPIC" /\ base["SPIC"] = Offset["SPIC"]

(* Where the boot loader's masks are: in the chips, or in the local copy.  *)
MaskInv ==
  /\ \A c \in Chips :
       ~(c = chip /\ point \in {"icw2", "icw3", "icw4", "restore"}) =>
          imr[c] = IF c = "MPIC" /\ point \in {"sti", "spin"}
                   THEN BootMask[c] \ {KeyboardIrq} ELSE BootMask[c]
  /\ point \in {"icw1", "icw2", "icw3", "icw4", "restore"} => saved = BootMask[chip]
  /\ point = "unmask_write" => saved = BootMask["MPIC"] \ {KeyboardIrq}

(* What is in service, as the handler goes on. *)
ServiceInv ==
  /\ stack = <<>> => isr["MPIC"] = {} /\ isr["SPIC"] = {}
  /\ stack # <<>> =>
       /\ isr["MPIC"] \subseteq InService(stack[1].irq)["MPIC"]
       /\ isr["SPIC"] \subseteq InService(stack[1].irq)["SPIC"]
       /\ stack[1].at \in {"eoi_master", "iret"} => isr["SPIC"] = {}
       /\ stack[1].at = "iret" => isr["MPIC"] = {}

BootInv ==
  /\ point \in Points /\ chip \in Chips /\ saved \in Bytes
  /\ iflag \in BOOLEAN /\ obf \in BOOLEAN
  /\ PicTypeOK
  /\ StackInv /\ ProgramInv /\ MaskInv /\ ServiceInv

-----------------------------------------------------------------------------
(* Bytes, and the sequences of at most one element the stack goes through. *)
LEMMA Vectors ==
  /\ Value({5} \ {0, 1, 2}) = 32
  /\ Value({3, 5} \ {0, 1, 2}) = 40
  /\ Value({1}) = 2
BY DEF Value, Bit

LEMMA OneFrame ==
  ASSUME NEW f
  PROVE  /\ Append(<<>>, f) = <<f>>
         /\ <<f>> # <<>> /\ Len(<<f>>) = 1 /\ <<f>>[1] = f
         /\ SubSeq(<<f>>, 1, Len(<<f>>) - 1) = <<>>
OBVIOUS

LEMMA AdvanceFrame ==
  ASSUME NEW p, NEW q, StackInv, Advance(p, q),
         q \in {"handler", "eoi_slave", "eoi_master", "iret"}
  PROVE  \E f \in Frames :
           /\ stack = <<f>> /\ f.at = p
           /\ stack' = <<[f EXCEPT !.at = q]>>
           /\ [f EXCEPT !.at = q] \in Frames
           /\ point = "spin" /\ ~iflag
           /\ f.vector = ExceptionCount + f.irq
           /\ UNCHANGED <<point, chip, saved, iflag>>
<1>1. PICK f \in Frames : stack = <<f>>
  BY DEF Advance, Frame, StackInv
<1>2. Len(stack) = 1 /\ stack[1] = f /\ Top = f
  BY <1>1 DEF Top
<1>3. stack' = [<<f>> EXCEPT ![1].at = q]
  BY <1>1, <1>2 DEF Advance
<1>4. stack' = <<[f EXCEPT !.at = q]>>
  BY <1>3
<1>5. [f EXCEPT !.at = q] \in Frames
  BY DEF Frames
<1> QED
  BY <1>1, <1>2, <1>4, <1>5 DEF Advance, Frame, StackInv

LEMMA EnterFrame ==
  ASSUME StackInv, iflag, iflag \in BOOLEAN,
         NEW irq \in 0..15, Enter(ExceptionCount + irq, irq)
  PROVE  \E f \in Frames :
           /\ stack = <<>> /\ stack' = <<f>>
           /\ f.irq = irq /\ f.at = "handler" /\ f.vector = ExceptionCount + irq
           /\ point = "spin" /\ iflag' = FALSE
           /\ UNCHANGED <<point, chip, saved, obf>>
<1> DEFINE f == [vector |-> ExceptionCount + irq, irq |-> irq, if |-> iflag,
                 at |-> "handler"]
<1>1. f \in Frames
  BY DEF Frames, ExceptionCount
<1>2. stack = <<>> /\ point = "spin"
  BY DEF StackInv
<1> HIDE DEF f
<1>6. ~(ExceptionCount + irq < ExceptionCount)
  BY DEF ExceptionCount
<1>3. stack' = Append(stack, f)
  BY <1>6, Zenon DEF Enter, f
<1>4. stack' = <<f>>
  BY <1>2, <1>3
<1>5. f.irq = irq /\ f.at = "handler" /\ f.vector = ExceptionCount + irq
  BY DEF f
<1> QED
  BY <1>1, <1>2, <1>4, <1>5 DEF Enter

-----------------------------------------------------------------------------
(* The initialisation: one action for each access of a port. *)
LEMMA BootPreserves == BootInv /\ Boot => BootInv'
<1> SUFFICES ASSUME BootInv, Boot PROVE BootInv'
  OBVIOUS
<1> USE InterruptsAssumption
    DEF InterruptsAssumption, BootInv, PicTypeOK, Chips, Main, Goto, Points
<1>1. stack = <<>> /\ isr["MPIC"] = {} /\ isr["SPIC"] = {}
  BY DEF Boot, LoadIdt, ReadImr, Icw1, Icw2, WriteIcw3, WriteIcw4, RestoreImr,
         UnmaskRead, UnmaskWrite, Enable, ServiceInv
<1>2. ~iflag
  BY DEF Boot, LoadIdt, ReadImr, Icw1, Icw2, WriteIcw3, WriteIcw4, RestoreImr,
         UnmaskRead, UnmaskWrite, Enable, StackInv
<1>3. CASE LoadIdt
  BY <1>1, <1>2, <1>3 DEF LoadIdt, picVars, StackInv, ProgramInv, MaskInv, ServiceInv
<1>4. CASE ReadImr
  BY <1>1, <1>2, <1>4 DEF ReadImr, picVars, StackInv, ProgramInv, MaskInv, ServiceInv
<1>5. CASE Icw1
  <2>1. /\ imr' = [imr EXCEPT ![chip] = {}]
        /\ irr' = [irr EXCEPT ![chip] = {}]
        /\ isr' = [isr EXCEPT ![chip] = {}]
        /\ expects' = [expects EXCEPT ![chip] = "icw2"]
        /\ UNCHANGED <<base, icw3>>
    <3>1. 4 \in INIT \cup ICW4 /\ 4 \notin {5}
      BY DEF INIT, ICW4
    <3> QED
      BY <1>5, <3>1 DEF Icw1, OutCommand
  <2>2. imr' \in [Chips -> Bytes] /\ irr' \in [Chips -> Bytes] /\ isr' \in [Chips -> Bytes]
    BY <2>1 DEF Bytes
  <2>3. UNCHANGED <<chip, saved, iflag, stack, obf>> /\ point = "icw1" /\ point' = "icw2"
    BY <1>5 DEF Icw1
  <2>4. StackInv' /\ ServiceInv'
    BY <1>1, <1>2, <2>1, <2>3 DEF StackInv, ServiceInv
  <2>5. ProgramInv'
    BY <2>1, <2>3 DEF ProgramInv
  <2>6. MaskInv'
    BY <2>1, <2>3 DEF MaskInv
  <2> QED
    BY <2>1, <2>2, <2>3, <2>4, <2>5, <2>6
<1>6. CASE Icw2
  <2>1. point = "icw2" /\ expects[chip] = "icw2"
    BY <1>6 DEF Icw2, ProgramInv
  <2>2. /\ base' = [base EXCEPT ![chip] = Offset[chip]]
        /\ expects' = [expects EXCEPT ![chip] = "icw3"]
        /\ UNCHANGED <<imr, icw3, irr, isr>>
        /\ UNCHANGED <<chip, saved, iflag, stack, obf>> /\ point' = "icw3"
    BY <1>6, <2>1 DEF Icw2, OutData
  <2>3. Offset[chip] \in Bytes
    BY DEF Offset, Bytes, Lines
  <2>4. StackInv' /\ ServiceInv'
    BY <1>1, <1>2, <2>2 DEF StackInv, ServiceInv
  <2>5. ProgramInv'
    BY <2>1, <2>2 DEF ProgramInv
  <2>6. MaskInv'
    BY <2>1, <2>2 DEF MaskInv
  <2> QED
    BY <2>2, <2>3, <2>4, <2>5, <2>6
<1>7. CASE WriteIcw3
  BY <1>1, <1>2, <1>7
     DEF WriteIcw3, OutData, Icw3, Bytes, Lines, StackInv, ProgramInv, MaskInv, ServiceInv
<1>8. CASE WriteIcw4
  BY <1>1, <1>2, <1>8
     DEF WriteIcw4, OutData, StackInv, ProgramInv, MaskInv, ServiceInv
<1>9. CASE RestoreImr
  BY <1>1, <1>2, <1>9
     DEF RestoreImr, OutData, StackInv, ProgramInv, MaskInv, ServiceInv
<1>10. CASE UnmaskRead
  BY <1>1, <1>2, <1>10
     DEF UnmaskRead, picVars, Bytes, StackInv, ProgramInv, MaskInv, ServiceInv
<1>11. CASE UnmaskWrite
  BY <1>1, <1>2, <1>11
     DEF UnmaskWrite, OutData, StackInv, ProgramInv, MaskInv, ServiceInv
<1>12. CASE Enable
  BY <1>1, <1>12 DEF Enable, picVars, StackInv, ProgramInv, MaskInv, ServiceInv
<1> QED
  BY <1>3, <1>4, <1>5, <1>6, <1>7, <1>8, <1>9, <1>10, <1>11, <1>12 DEF Boot

-----------------------------------------------------------------------------
(* A request, and the steps of its handler. *)
LEMMA DeliverPreserves == BootInv /\ (Deliver \/ Spurious) => BootInv'
<1> SUFFICES ASSUME BootInv, Deliver \/ Spurious PROVE BootInv'
  OBVIOUS
<1> USE DEF BootInv, PicTypeOK, Chips
<1>1. iflag /\ stack = <<>> /\ point = "spin"
  BY DEF Deliver, Spurious, StackInv
<1>2. chip = "SPIC" /\ base["MPIC"] = {5} /\ base["SPIC"] = {3, 5} /\ icw3 = Icw3
  BY <1>1 DEF ProgramInv, Offset
<1>3. \A l : Vector("MPIC", l) = ExceptionCount + l /\ Vector("SPIC", l) = 40 + l
  BY <1>2, Vectors DEF Vector, ExceptionCount
<1>4. isr["MPIC"] = {} /\ isr["SPIC"] = {}
  BY <1>1 DEF ServiceInv
<1> DEFINE Taken(irq) ==
        /\ Enter(ExceptionCount + irq, irq)
        /\ UNCHANGED <<imr, base, icw3, expects>>
        /\ irr' \in [Chips -> Bytes] /\ isr' \in [Chips -> Bytes]
        /\ isr'["MPIC"] \subseteq InService(irq)["MPIC"]
        /\ isr'["SPIC"] \subseteq InService(irq)["SPIC"]
<1>5. \E irq \in 0..15 : Taken(irq)
  <2>1. ASSUME NEW l \in Lines, AckMaster(l), Enter(Vector("MPIC", l), l)
        PROVE  Taken(l) /\ l \in 0..15
    <3>1. Enter(ExceptionCount + l, l) /\ l \in 0..15
      BY <2>1, <1>3 DEF Lines
    <3> QED
      BY <2>1, <3>1, <1>4 DEF AckMaster, InService, Lines, Bytes
  <2>2. ASSUME NEW l \in Lines, AckSlave(l), Enter(Vector("SPIC", l), 8 + l)
        PROVE  Taken(8 + l) /\ 8 + l \in 0..15
    <3>1. Enter(ExceptionCount + (8 + l), 8 + l) /\ 8 + l \in 0..15
      BY <2>2, <1>3 DEF Lines, ExceptionCount
    <3>2. isr' = [isr EXCEPT !["SPIC"] = {l}, !["MPIC"] = {Cascade}]
      BY <2>2, <1>4 DEF AckSlave
    <3>3. InService(8 + l) = [c \in Chips |-> IF c = "SPIC" THEN {l} ELSE {Cascade}]
      BY DEF InService, Lines
    <3> QED
      BY <2>2, <3>1, <3>2, <3>3 DEF AckSlave, Lines, Bytes, Cascade
  <2>3. ASSUME picVars' = picVars, Enter(Vector("MPIC", 7), 7)
        PROVE  Taken(7)
    BY <2>3, <1>3, <1>4 DEF picVars
  <2>4. ASSUME AckVanished, Enter(Vector("SPIC", 7), 15)
        PROVE  Taken(15)
    <3>1. Enter(ExceptionCount + 15, 15)
      BY <2>4, <1>3 DEF ExceptionCount
    <3> QED
      BY <2>4, <3>1, <1>4 DEF AckVanished, InService, Lines, Bytes, Cascade
  <2> HIDE DEF Taken
  <2> QED
    BY <2>1, <2>2, <2>3, <2>4 DEF Deliver, Spurious
<1>6. PICK irq \in 0..15 : Taken(irq)
  BY <1>5
<1>7. PICK f \in Frames :
        /\ stack' = <<f>>
        /\ f.irq = irq /\ f.at = "handler" /\ f.vector = ExceptionCount + irq
        /\ iflag' = FALSE
        /\ UNCHANGED <<point, chip, saved, obf>>
  BY <1>1, <1>6, EnterFrame
<1>8. StackInv'
  BY <1>1, <1>7 DEF StackInv
<1>9. ProgramInv' /\ MaskInv'
  BY <1>6, <1>7 DEF ProgramInv, MaskInv
<1>10. ServiceInv'
  BY <1>6, <1>7 DEF ServiceInv
<1> QED
  BY <1>6, <1>7, <1>8, <1>9, <1>10

LEMMA HandlePreserves == BootInv /\ Handle => BootInv'
<1> SUFFICES ASSUME BootInv, Handle PROVE BootInv'
  OBVIOUS
<1> USE DEF BootInv, PicTypeOK, Chips
<1>1. CASE RunHandler
  <2>1. PICK f \in Frames :
          /\ stack = <<f>> /\ f.at = "handler"
          /\ stack' = <<[f EXCEPT !.at = "eoi_slave"]>>
          /\ [f EXCEPT !.at = "eoi_slave"] \in Frames
          /\ point = "spin" /\ ~iflag
          /\ f.vector = ExceptionCount + f.irq
          /\ UNCHANGED <<point, chip, saved, iflag>>
    BY <1>1, AdvanceFrame DEF RunHandler
  <2>2. UNCHANGED picVars /\ obf' \in BOOLEAN
    BY <1>1 DEF RunHandler
  <2>3. StackInv' /\ ServiceInv'
    BY <2>1, <2>2 DEF StackInv, ServiceInv, picVars, Frames
  <2>4. ProgramInv' /\ MaskInv'
    BY <2>1, <2>2 DEF ProgramInv, MaskInv, picVars
  <2> QED
    BY <2>1, <2>2, <2>3, <2>4 DEF picVars
<1>2. CASE EoiSlave
  <2>1. PICK f \in Frames :
          /\ stack = <<f>> /\ f.at = "eoi_slave"
          /\ stack' = <<[f EXCEPT !.at = "eoi_master"]>>
          /\ [f EXCEPT !.at = "eoi_master"] \in Frames
          /\ point = "spin" /\ ~iflag
          /\ f.vector = ExceptionCount + f.irq
          /\ UNCHANGED <<point, chip, saved, iflag>>
    BY <1>2, AdvanceFrame DEF EoiSlave
  <2>2. EoiForSlave(Top.vector)
    BY <2>1 DEF EoiForSlave, Top, ExceptionCount, Frames
  <2>3. /\ isr' = [isr EXCEPT !["SPIC"] =
                     {l \in isr["SPIC"] : \E m \in isr["SPIC"] : m < l}]
        /\ UNCHANGED <<imr, irr, base, icw3, expects, obf>>
    BY <1>2, <2>2 DEF EoiSlave, OutCommand, EOI
  <2>4. isr["SPIC"] \subseteq {f.irq - 8} /\ f.irq \in 0..15
    BY <2>1 DEF ServiceInv, InService, Frames
  <2>5. isr'["SPIC"] = {} /\ isr'["MPIC"] = isr["MPIC"] /\ isr' \in [Chips -> Bytes]
    BY <2>3, <2>4 DEF Bytes, Lines
  <2>6. StackInv'
    BY <2>1 DEF StackInv, Frames
  <2>7. ServiceInv'
    BY <2>1, <2>5 DEF ServiceInv, Frames
  <2>8. ProgramInv' /\ MaskInv'
    BY <2>1, <2>3 DEF ProgramInv, MaskInv
  <2> QED
    BY <2>1, <2>3, <2>5, <2>6, <2>7, <2>8
<1>3. CASE EoiMaster
  <2>1. PICK f \in Frames :
          /\ stack = <<f>> /\ f.at = "eoi_master"
          /\ stack' = <<[f EXCEPT !.at = "iret"]>>
          /\ [f EXCEPT !.at = "iret"] \in Frames
          /\ point = "spin" /\ ~iflag
          /\ f.vector = ExceptionCount + f.irq
          /\ UNCHANGED <<point, chip, saved, iflag>>
    BY <1>3, AdvanceFrame DEF EoiMaster
  <2>3. /\ isr' = [isr EXCEPT !["MPIC"] =
                     {l \in isr["MPIC"] : \E m \in isr["MPIC"] : m < l}]
        /\ UNCHANGED <<imr, irr, base, icw3, expects, obf>>
    BY <1>3 DEF EoiMaster, OutCommand, EOI
  <2>4. \E x \in 0..15 : isr["MPIC"] \subseteq {x}
    BY <2>1 DEF ServiceInv, InService, Frames, Cascade
  <2>5. isr'["MPIC"] = {} /\ isr'["SPIC"] = {} /\ isr' \in [Chips -> Bytes]
    BY <2>1, <2>3, <2>4 DEF Bytes, Lines, ServiceInv
  <2>6. StackInv'
    BY <2>1 DEF StackInv, Frames
  <2>7. ServiceInv'
    BY <2>1, <2>5 DEF ServiceInv, Frames
  <2>8. ProgramInv' /\ MaskInv'
    BY <2>1, <2>3 DEF ProgramInv, MaskInv
  <2> QED
    BY <2>1, <2>3, <2>5, <2>6, <2>7, <2>8
<1>4. CASE Iret
  <2>1. PICK f \in Frames : stack = <<f>>
    BY <1>4 DEF Iret, Frame, StackInv
  <2>2. stack' = <<>> /\ iflag' = f.if /\ f.at = "iret"
    BY <1>4, <2>1, OneFrame DEF Iret, Frame, Top
  <2>3. point = "spin" /\ UNCHANGED <<point, chip, saved, obf, picVars>>
    BY <1>4, <2>1 DEF Iret, StackInv
  <2>4. f.if \in BOOLEAN
    BY DEF Frames
  <2>5. StackInv' /\ ServiceInv'
    BY <2>1, <2>2, <2>3 DEF StackInv, ServiceInv, picVars
  <2>6. ProgramInv' /\ MaskInv'
    BY <2>3 DEF ProgramInv, MaskInv, picVars
  <2> QED
    BY <2>2, <2>3, <2>4, <2>5, <2>6 DEF picVars
<1> QED
  BY <1>1, <1>2, <1>3, <1>4 DEF Handle

LEMMA DevicePreserves == BootInv /\ (KeyByte \/ DeviceIrq) => BootInv'
<1> SUFFICES ASSUME BootInv, KeyByte \/ DeviceIrq PROVE BootInv'
  OBVIOUS
<1> USE InterruptsAssumption DEF InterruptsAssumption, BootInv, PicTypeOK, Chips
<1>1. \E c \in Chips, l \in Lines : Raise(c, l)
  BY DEF KeyByte, DeviceIrq, KeyboardIrq, Lines
<1>2. irr' \in [Chips -> Bytes] /\ UNCHANGED <<imr, isr, base, icw3, expects>>
  BY <1>1 DEF Raise, Bytes
<1>3. UNCHANGED cpuVars /\ obf' \in BOOLEAN
  BY DEF KeyByte, DeviceIrq
<1> QED
  BY <1>2, <1>3 DEF cpuVars, StackInv, ProgramInv, MaskInv, ServiceInv

THEOREM BootInvariant == Spec => []BootInv
<1>1. Init => BootInv
  <2> SUFFICES ASSUME Init PROVE BootInv
    OBVIOUS
  <2> USE InterruptsAssumption DEF InterruptsAssumption, Init, Chips
  <2>1. PicTypeOK
    BY DEF PicTypeOK, Bytes, Lines, Icw3
  <2>2. point \in Points /\ chip \in Chips /\ saved \in Bytes
        /\ iflag \in BOOLEAN /\ obf \in BOOLEAN
    BY DEF Points, Bytes, Lines
  <2>3. StackInv /\ ServiceInv
    BY DEF StackInv, ServiceInv
  <2>4. ProgramInv /\ MaskInv
    BY DEF ProgramInv, MaskInv
  <2> QED
    BY <2>1, <2>2, <2>3, <2>4 DEF BootInv
<1>2. BootInv /\ [Next]_vars => BootInv'
  <2> SUFFICES ASSUME BootInv, [Next]_vars PROVE BootInv'
    OBVIOUS
  <2>1. CASE UNCHANGED vars
    BY <2>1 DEF vars, cpuVars, picVars, BootInv, PicTypeOK, StackInv, ProgramInv,
                MaskInv, ServiceInv
  <2>2. CASE Spin
    BY <2>1, <2>2 DEF Spin
  <2> QED
    BY <2>1, <2>2, BootPreserves, DeliverPreserves, HandlePreserves, DevicePreserves
       DEF Next
<1> QED
  BY <1>1, <1>2, PTL DEF Spec

-----------------------------------------------------------------------------
(* TypeOK: the stack included, which holds one frame at most. *)
THEOREM TypeCorrect == Spec => []TypeOK
<1>1. BootInv => TypeOK
  <2> SUFFICES ASSUME BootInv PROVE stack \in Seq(Frames)
    BY DEF BootInv, TypeOK
  <2>1. CASE stack = <<>>
    BY <2>1
  <2>2. ASSUME NEW f \in Frames, stack = <<f>> PROVE stack \in Seq(Frames)
    BY <2>2
  <2> QED
    BY <2>1, <2>2 DEF BootInv, StackInv
<1> QED
  BY <1>1, BootInvariant, PTL

(* NoNesting and VectorNamesIrq: the kernel takes one request at a time,   *)
(* under the vector its handler is installed for.                          *)
THEOREM Vectored == Spec => [](NoNesting /\ VectorNamesIrq)
<1>1. BootInv => NoNesting /\ VectorNamesIrq
  <2> SUFFICES ASSUME BootInv PROVE NoNesting /\ VectorNamesIrq
    OBVIOUS
  <2>1. CASE stack = <<>>
    BY <2>1 DEF NoNesting, VectorNamesIrq
  <2>2. ASSUME NEW f \in Frames, stack = <<f>> PROVE NoNesting /\ VectorNamesIrq
    BY <2>2 DEF NoNesting, VectorNamesIrq, BootInv, StackInv
  <2> QED
    BY <2>1, <2>2 DEF BootInv, StackInv
<1> QED
  BY <1>1, BootInvariant, PTL

(* MasksKept: remap gives each PIC back the masks the boot loader set, and *)
(* clear_irq_mask opens the keyboard's line only.                          *)
THEOREM MasksRestored == Spec => []MasksKept
<1>1. BootInv => MasksKept
  BY InterruptsAssumption
     DEF InterruptsAssumption, BootInv, MasksKept, StackInv, ProgramInv, MaskInv,
         PicTypeOK, Chips
<1> QED
  BY <1>1, BootInvariant, PTL

(* EoiEndsOwn and ServiceEnds: each end of interrupt ends the request it   *)
(* was sent for, and the handler leaves none in service.                   *)
THEOREM Requests == Spec => [](EoiEndsOwn /\ ServiceEnds)
<1>1. BootInv => EoiEndsOwn /\ ServiceEnds
  <2> SUFFICES ASSUME BootInv PROVE EoiEndsOwn /\ ServiceEnds
    OBVIOUS
  <2>1. CASE stack = <<>>
    BY <2>1 DEF EoiEndsOwn, ServiceEnds, Frame, BootInv, ServiceInv, Chips
  <2>2. ASSUME NEW f \in Frames, stack = <<f>> PROVE EoiEndsOwn /\ ServiceEnds
    BY <2>2 DEF EoiEndsOwn, ServiceEnds, Frame, Top, BootInv, ServiceInv, Chips
  <2> QED
    BY <2>1, <2>2 DEF BootInv, StackInv
<1> QED
  BY <1>1, BootInvariant, PTL

-----------------------------------------------------------------------------
(* The handler that is about to read the keyboard's byte. *)
Reading == stack # <<>> /\ stack[1].vector = KeyboardVector /\ stack[1].at = "handler"

(* A byte of the keyboard is either requested or about to be read.  Before *)
(* the master is reset, which forgets requests, no byte has come.          *)
KeyInv ==
  /\ KeyboardIrq \in irr["MPIC"] => obf /\ ~Reading
  /\ Reading => obf
  /\ obf => KeyboardIrq \in irr["MPIC"] \/ Reading
  /\ chip = "MPIC" /\ point \in {"idt", "read", "icw1"} => ~obf

(* KeyHasRequest and KeyReadIsReal: when the keyboard is silent until the  *)
(* master PIC's reset, every byte it sends has a request that leads to its *)
(* being read, and the handler never reads the port in vain.               *)
THEOREM KeyRequests ==
  ASSUME EarlyKeys = FALSE
  PROVE  Spec => [](KeyHasRequest /\ KeyReadIsReal)
<1> USE DEF KeyInv, Reading, KeyboardIrq, KeyboardVector
<1>1. Init => KeyInv
  BY DEF Init, Chips
<1>2. BootInv /\ KeyInv /\ BootInv' /\ [Next]_vars => KeyInv'
  <2> SUFFICES ASSUME BootInv, KeyInv, BootInv', [Next]_vars PROVE KeyInv'
    OBVIOUS
  <2> USE DEF Chips, BootInv, PicTypeOK
  <2>1. CASE Boot
    <3>1. UNCHANGED <<obf, stack>> /\ stack = <<>>
      BY <2>1 DEF Boot, LoadIdt, ReadImr, Icw1, Icw2, WriteIcw3, WriteIcw4, RestoreImr,
                  UnmaskRead, UnmaskWrite, Enable, Main
    <3>2. CASE Icw1
      <4>0. 4 \in INIT \cup ICW4 /\ 4 \notin {5}
        BY DEF INIT, ICW4
      <4>1. irr' = [irr EXCEPT ![chip] = {}] /\ UNCHANGED chip
            /\ point = "icw1" /\ point' = "icw2"
        BY <3>2, <4>0 DEF Icw1, OutCommand, Main, Goto
      <4> QED
        BY <3>1, <4>1
    <3>3. CASE ~Icw1
      <4>1. UNCHANGED irr
        BY <2>1, <3>3 DEF Boot, LoadIdt, ReadImr, Icw2, WriteIcw3, WriteIcw4, RestoreImr,
                  UnmaskRead, UnmaskWrite, Enable, OutData, picVars
      <4>2. chip' = "MPIC" /\ point' \in {"idt", "read", "icw1"} =>
              chip = "MPIC" /\ point \in {"idt", "read", "icw1"}
        BY <2>1, <3>3 DEF Boot, LoadIdt, ReadImr, Icw2, WriteIcw3, WriteIcw4, RestoreImr,
                  UnmaskRead, UnmaskWrite, Enable, Main, Goto
      <4> QED
        BY <3>1, <4>1, <4>2
    <3> QED
      BY <3>2, <3>3
  <2>2. CASE Deliver \/ Spurious
    <3>1. iflag /\ stack = <<>> /\ point = "spin" /\ chip = "SPIC"
      BY <2>2 DEF Deliver, Spurious, StackInv, ProgramInv
    <3>2. \A l : Vector("MPIC", l) = ExceptionCount + l /\ Vector("SPIC", l) = 40 + l
      BY <3>1, Vectors DEF Vector, ExceptionCount, ProgramInv, Offset
    <3>3. ASSUME NEW irq \in 0..15, Enter(ExceptionCount + irq, irq),
                 UNCHANGED irr["MPIC"], irq # KeyboardIrq
          PROVE  KeyInv'
      <4>1. PICK f \in Frames : stack' = <<f>> /\ f.vector = ExceptionCount + irq
                                /\ UNCHANGED <<point, chip, obf>>
        BY <3>1, <3>3, EnterFrame
      <4>2. ~Reading'
        BY <3>3, <4>1 DEF ExceptionCount
      <4> QED
        BY <3>1, <3>3, <4>1, <4>2
    <3>4. ASSUME NEW l \in Lines, AckMaster(l), Enter(Vector("MPIC", l), l)
          PROVE  KeyInv'
      <4>1. l \in 0..15 /\ Enter(ExceptionCount + l, l)
        BY <3>2, <3>4 DEF Lines
      <4>2. irr'["MPIC"] = irr["MPIC"] \ {l}
        BY <3>4 DEF AckMaster
      <4>3. l = KeyboardIrq => l \in irr["MPIC"]
        BY <3>4 DEF AckMaster, IsHighest, MasterInt, Eligible, Cascade
      <4>4. PICK f \in Frames : /\ stack' = <<f>> /\ f.vector = ExceptionCount + l
                                /\ f.at = "handler" /\ UNCHANGED <<point, chip, obf>>
        BY <3>1, <4>1, EnterFrame
      <4>5. Reading' <=> l = KeyboardIrq
        BY <4>1, <4>4 DEF ExceptionCount
      <4> QED
        BY <3>1, <4>2, <4>3, <4>4, <4>5
    <3>5. ASSUME NEW l \in Lines, AckSlave(l), Enter(Vector("SPIC", l), 8 + l)
          PROVE  KeyInv'
      <4>1. 8 + l \in 0..15 /\ Enter(ExceptionCount + (8 + l), 8 + l) /\ 8 + l # KeyboardIrq
        BY <3>2, <3>5 DEF Lines, ExceptionCount
      <4>2. UNCHANGED irr["MPIC"]
        BY <3>5 DEF AckSlave
      <4> QED
        BY <3>3, <4>1, <4>2
    <3>6. CASE Spurious
      <4>1. UNCHANGED irr["MPIC"]
        BY <3>6 DEF Spurious, picVars, AckVanished
      <4>2. Enter(ExceptionCount + 7, 7) \/ Enter(ExceptionCount + 15, 15)
        BY <3>2, <3>6 DEF Spurious, ExceptionCount
      <4> QED
        BY <3>3, <4>1, <4>2
    <3> HIDE DEF KeyInv
    <3> QED
      BY <2>2, <3>4, <3>5, <3>6 DEF Deliver
  <2>3. CASE RunHandler
    <3>1. PICK f \in Frames :
            /\ stack = <<f>> /\ f.at = "handler"
            /\ stack' = <<[f EXCEPT !.at = "eoi_slave"]>>
            /\ [f EXCEPT !.at = "eoi_slave"] \in Frames
            /\ point = "spin"
            /\ UNCHANGED <<point, chip>>
      <4>1. Advance("handler", "eoi_slave")
        BY <2>3 DEF RunHandler
      <4> HIDE DEF KeyInv, Reading, PicTypeOK
      <4> QED
        BY <4>1, AdvanceFrame
    <3>2. obf' = (obf /\ f.vector # KeyboardVector) /\ UNCHANGED irr
      BY <2>3, <3>1 DEF RunHandler, Top, picVars
    <3>3. ~Reading'
      BY <3>1 DEF Frames
    <3>4. Reading <=> f.vector = KeyboardVector
      BY <3>1
    <3> QED
      BY <3>1, <3>2, <3>3, <3>4
  <2>4. CASE EoiSlave \/ EoiMaster \/ Iret
    <3>1. UNCHANGED <<obf, irr, point, chip>> /\ point = "spin"
      BY <2>4 DEF EoiSlave, EoiMaster, Iret, Advance, Frame, OutCommand, EOI, picVars,
                  StackInv
    <3>2. ~Reading
      BY <2>4 DEF EoiSlave, EoiMaster, Iret, Advance, Frame, Top, StackInv
    <3>3. ~Reading'
      <4>1. ASSUME NEW p \in {"eoi_slave", "eoi_master"},
                   NEW q \in {"eoi_master", "iret"}, Advance(p, q)
            PROVE  ~Reading'
        <5>1. PICK f \in Frames : stack' = <<[f EXCEPT !.at = q]>>
          BY <4>1, AdvanceFrame
        <5> QED
          BY <5>1 DEF Frames
      <4>2. CASE Iret
        <5>1. PICK f \in Frames : stack = <<f>>
          BY <4>2 DEF Iret, Frame, StackInv
        <5>2. stack' = <<>>
          BY <4>2, <5>1, OneFrame DEF Iret
        <5> QED
          BY <5>2
      <4> QED
        BY <2>4, <4>1, <4>2 DEF EoiSlave, EoiMaster
    <3> QED
      BY <3>1, <3>2, <3>3
  <2>5. CASE KeyByte
    <3>1. ~obf /\ obf' = TRUE /\ UNCHANGED <<point, chip, stack>>
          /\ irr' = [irr EXCEPT !["MPIC"] = @ \cup {KeyboardIrq}]
          /\ ~(chip = "MPIC" /\ point \in {"idt", "read", "icw1"})
      BY <2>5 DEF KeyByte, Raise, cpuVars
    <3> QED
      BY <3>1
  <2>6. CASE DeviceIrq
    <3>1. UNCHANGED <<obf, point, chip, stack>>
      BY <2>6 DEF DeviceIrq, cpuVars
    <3>2. KeyboardIrq \in irr'["MPIC"] <=> KeyboardIrq \in irr["MPIC"]
      BY <2>6, InterruptsAssumption DEF DeviceIrq, Raise, InterruptsAssumption
    <3> QED
      BY <3>1, <3>2
  <2>7. CASE UNCHANGED vars \/ Spin
    BY <2>7 DEF vars, cpuVars, picVars, Spin
  <2> HIDE DEF KeyInv
  <2> QED
    BY <2>1, <2>2, <2>3, <2>4, <2>5, <2>6, <2>7 DEF Next, Handle
<1>3. BootInv /\ KeyInv => KeyHasRequest /\ KeyReadIsReal
  <2> SUFFICES ASSUME BootInv, KeyInv PROVE KeyHasRequest /\ KeyReadIsReal
    OBVIOUS
  <2>1. CASE stack = <<>>
    BY <2>1 DEF KeyHasRequest, KeyReadIsReal, Frame
  <2>2. ASSUME NEW f \in Frames, stack = <<f>> PROVE KeyHasRequest /\ KeyReadIsReal
    BY <2>2 DEF KeyHasRequest, KeyReadIsReal, Frame, Top
  <2> QED
    BY <2>1, <2>2 DEF BootInv, StackInv
<1> QED
  BY <1>1, <1>2, <1>3, BootInvariant, PTL DEF Spec

-----------------------------------------------------------------------------
(* Interrupts implements Service.                                          *)

Pending == (irr["MPIC"] \ {Cascade}) \cup {8 + l : l \in irr["SPIC"]}
Serving == IF stack = <<>> THEN 16 ELSE stack[1].irq

(* What the abstract actions say of the concrete state. *)
LEMMA Mapped ==
  /\ \A i : Served!Ask(i) <=> /\ Pending' = Pending \cup {i}
                              /\ Serving' = Serving
                              /\ (point = "spin")' = (point = "spin")
  /\ Served!vars = <<Pending, Serving, point = "spin">>
BY DEF Served!Ask, Served!vars, Pending, Serving

(* While no handler runs after the boot, what a chip may ask for is what   *)
(* was requested of it and not masked.                                     *)
LEMMA OpenLines ==
  ASSUME BootInv, iflag
  PROVE  /\ stack = <<>> /\ point = "spin" /\ Cascaded
         /\ SlaveInt = irr["SPIC"] \ BootMask["SPIC"]
         /\ \A l \in Lines :
              /\ l \in MasterInt /\ l # Cascade
                   <=> l \in irr["MPIC"] \ (BootMask["MPIC"] \ {KeyboardIrq}) /\ l # Cascade
              /\ Cascade \notin BootMask["MPIC"] /\ SlaveInt # {} => Cascade \in MasterInt
              /\ Cascade \in MasterInt => Cascade \notin BootMask["MPIC"]
<1> USE DEF BootInv, PicTypeOK, Chips
<1>1. stack = <<>> /\ point = "spin" /\ chip = "SPIC"
  BY DEF StackInv, ProgramInv
<1>2. isr["MPIC"] = {} /\ isr["SPIC"] = {}
  BY <1>1 DEF ServiceInv
<1>3. /\ expects["MPIC"] = "mask" /\ expects["SPIC"] = "mask"
      /\ icw3 = Icw3
  BY <1>1 DEF ProgramInv
<1>4. imr["MPIC"] = BootMask["MPIC"] \ {KeyboardIrq} /\ imr["SPIC"] = BootMask["SPIC"]
  BY <1>1 DEF MaskInv
<1>5. \A ls : Eligible("MPIC", ls) = ls \ (BootMask["MPIC"] \ {KeyboardIrq})
              /\ Eligible("SPIC", ls) = ls \ BootMask["SPIC"]
  BY <1>2, <1>3, <1>4 DEF Eligible
<1>6. Cascaded
  BY <1>3, Vectors DEF Cascaded, Icw3, Cascade
<1> QED
  BY <1>1, <1>5, <1>6 DEF SlaveInt, MasterInt, Cascade, KeyboardIrq

(* The CPU takes the abstract request of the highest priority. *)
LEMMA DeliverServes ==
  BootInv /\ Deliver => \E i \in Served!Requests : Served!Serve(i)
<1> SUFFICES ASSUME BootInv, Deliver
             PROVE  \E i \in Served!Requests : Served!Serve(i)
  OBVIOUS
<1>1. iflag /\ iflag \in BOOLEAN /\ StackInv
  BY DEF Deliver, BootInv
<1>2. /\ stack = <<>> /\ point = "spin" /\ Cascaded
      /\ SlaveInt = irr["SPIC"] \ BootMask["SPIC"]
  BY <1>1, OpenLines
<1>3. irr \in [Chips -> Bytes] /\ BootMask \in [Chips -> Bytes]
  BY InterruptsAssumption DEF InterruptsAssumption, BootInv, PicTypeOK
<1>4. \A l : Vector("MPIC", l) = ExceptionCount + l /\ Vector("SPIC", l) = 40 + l
  BY <1>1, <1>2, Vectors DEF Vector, ExceptionCount, BootInv, ProgramInv, Offset, Chips
<1>5. \A j \in Served!Open :
        \/ j \in Lines /\ j # Cascade /\ j \in MasterInt
        \/ \E k \in SlaveInt : j = 8 + k /\ Cascade \in MasterInt
  <2> SUFFICES ASSUME NEW j \in Served!Open
               PROVE  \/ j \in Lines /\ j # Cascade /\ j \in MasterInt
                      \/ \E k \in SlaveInt : j = 8 + k /\ Cascade \in MasterInt
    OBVIOUS
  <2>1. CASE j \in irr["MPIC"] \ {Cascade}
    <3>1. j \in Lines /\ j \notin BootMask["MPIC"] \ {KeyboardIrq}
      BY <1>3, <2>1 DEF Served!Open, StayClosed, Bytes, Chips
    <3> QED
      BY <1>1, <2>1, <3>1, OpenLines
  <2>2. ASSUME NEW k \in irr["SPIC"], j = 8 + k
        PROVE  k \in SlaveInt /\ Cascade \in MasterInt
    <3>1. k \in Lines /\ Cascade \in Lines
      BY <1>3 DEF Bytes, Chips, Lines, Cascade
    <3>2. k \notin BootMask["SPIC"] /\ Cascade \notin BootMask["MPIC"]
      BY <2>2, <3>1 DEF Served!Open, StayClosed
    <3> QED
      BY <1>1, <1>2, <3>1, <3>2, OpenLines
  <2> QED
    BY <2>1, <2>2 DEF Served!Open
<1>6. ASSUME NEW l \in Lines, AckMaster(l), Enter(Vector("MPIC", l), l)
      PROVE  l \in Served!Requests /\ Served!Serve(l)
  <2>1. l \in MasterInt /\ l # Cascade /\ \A m \in MasterInt : l <= m
    BY <1>2, <1>6 DEF AckMaster, IsHighest
  <2>2. l \in irr["MPIC"] \ (BootMask["MPIC"] \ {KeyboardIrq})
    BY <1>1, <2>1, OpenLines
  <2>3. l \in Served!Open
    <3>1. \A k \in Lines : l # 8 + k
      BY DEF Lines
    <3> QED
      BY <2>1, <2>2, <3>1 DEF Served!Open, StayClosed
  <2>4. ASSUME NEW j \in Served!Open PROVE Served!Rank(l) <= Served!Rank(j)
    <3>1. CASE j \in Lines /\ j # Cascade /\ j \in MasterInt
      <4>1. l <= j
        BY <2>1, <3>1
      <4> QED
        BY <2>1, <3>1, <4>1 DEF Served!Rank, Lines, Cascade
    <3>2. ASSUME NEW k \in SlaveInt, j = 8 + k, Cascade \in MasterInt
          PROVE  Served!Rank(l) <= Served!Rank(j)
      <4>1. l <= Cascade /\ k \in Lines
        BY <1>2, <1>3, <2>1, <3>2 DEF Bytes, Chips
      <4> QED
        BY <2>1, <3>2, <4>1 DEF Served!Rank, Lines, Cascade
    <3> QED
      BY <1>5, <3>1, <3>2
  <2>5. PICK f \in Frames :
          /\ stack' = <<f>> /\ f.irq = l /\ UNCHANGED point
    <3>1. l \in 0..15 /\ Enter(ExceptionCount + l, l)
      BY <1>4, <1>6 DEF Lines
    <3> QED
      BY <1>1, <3>1, EnterFrame
  <2>6. irr'["MPIC"] = irr["MPIC"] \ {l} /\ irr'["SPIC"] = irr["SPIC"]
    BY <1>3, <1>6 DEF AckMaster, Chips
  <2>7. Pending' = Pending \ {l}
    <3>1. \A k \in irr["SPIC"] : 8 + k # l
      BY <1>3 DEF Bytes, Chips, Lines
    <3> QED
      BY <2>6, <3>1 DEF Pending
  <2> QED
    BY <1>2, <2>1, <2>3, <2>4, <2>5, <2>7
       DEF Served!Serve, Served!Requests, Served!None, Pending, Lines, Cascade
<1>7. ASSUME NEW l \in Lines, AckSlave(l), Enter(Vector("SPIC", l), 8 + l)
      PROVE  8 + l \in Served!Requests /\ Served!Serve(8 + l)
  <2>1. /\ Cascade \in MasterInt /\ \A m \in MasterInt : Cascade <= m
        /\ l \in SlaveInt /\ \A m \in SlaveInt : l <= m
    BY <1>7 DEF AckSlave, IsHighest
  <2>2. l \in irr["SPIC"] \ BootMask["SPIC"] /\ Cascade \notin BootMask["MPIC"]
    BY <1>1, <1>2, <2>1, OpenLines
  <2>3. 8 + l \in Served!Open
    <3>1. \A k \in Lines : 8 + k = 8 + l => k = l
      BY DEF Lines
    <3>2. 8 + l \notin BootMask["MPIC"]
      BY <1>3 DEF Bytes, Chips, Lines
    <3> QED
      BY <2>2, <3>1, <3>2 DEF Served!Open, StayClosed
  <2>4. ASSUME NEW j \in Served!Open PROVE Served!Rank(8 + l) <= Served!Rank(j)
    <3>1. CASE j \in Lines /\ j # Cascade /\ j \in MasterInt
      <4>1. Cascade <= j
        BY <2>1, <3>1
      <4> QED
        BY <3>1, <4>1 DEF Served!Rank, Lines, Cascade
    <3>2. ASSUME NEW k \in SlaveInt, j = 8 + k
          PROVE  Served!Rank(8 + l) <= Served!Rank(j)
      <4>1. l <= k /\ k \in Lines
        BY <1>2, <1>3, <2>1, <3>2 DEF Bytes, Chips
      <4> QED
        BY <3>2, <4>1 DEF Served!Rank, Lines
    <3> QED
      BY <1>5, <3>1, <3>2
  <2>5. PICK f \in Frames :
          /\ stack' = <<f>> /\ f.irq = 8 + l /\ UNCHANGED point
    <3>1. 8 + l \in 0..15 /\ Enter(ExceptionCount + (8 + l), 8 + l)
      BY <1>4, <1>7 DEF Lines, ExceptionCount
    <3> QED
      BY <1>1, <3>1, EnterFrame
  <2>6. irr'["MPIC"] = irr["MPIC"] /\ irr'["SPIC"] = irr["SPIC"] \ {l}
    BY <1>3, <1>7 DEF AckSlave, Chips
  <2>7. Pending' = Pending \ {8 + l}
    <3>1. 8 + l \notin irr["MPIC"] /\ \A k \in irr["SPIC"] : 8 + k = 8 + l <=> k = l
      BY <1>3 DEF Bytes, Chips, Lines
    <3> QED
      BY <2>6, <3>1 DEF Pending
  <2> QED
    BY <1>2, <2>3, <2>4, <2>5, <2>7
       DEF Served!Serve, Served!Requests, Served!None, Pending, Lines, Cascade
<1> QED
  BY <1>6, <1>7 DEF Deliver

(* Nothing is served only when nothing is asked for. *)
LEMMA SpuriousServesNothing ==
  BootInv /\ Spurious => \E i \in {7, 15} : Served!ServeNothing(i)
<1> SUFFICES ASSUME BootInv, Spurious PROVE \E i \in {7, 15} : Served!ServeNothing(i)
  OBVIOUS
<1>1. iflag /\ iflag \in BOOLEAN /\ StackInv /\ MasterInt = {} /\ Glitches
  BY DEF Spurious, BootInv
<1>2. /\ stack = <<>> /\ point = "spin"
      /\ SlaveInt = irr["SPIC"] \ BootMask["SPIC"]
  BY <1>1, OpenLines
<1>3. irr \in [Chips -> Bytes] /\ BootMask \in [Chips -> Bytes]
  BY InterruptsAssumption DEF InterruptsAssumption, BootInv, PicTypeOK
<1>4. Served!Open = {}
  <2> SUFFICES ASSUME NEW j \in Served!Open PROVE FALSE
    OBVIOUS
  <2>1. CASE j \in irr["MPIC"] \ {Cascade}
    <3>1. j \in Lines /\ j \notin BootMask["MPIC"] \ {KeyboardIrq}
      BY <1>3, <2>1 DEF Served!Open, StayClosed, Bytes, Chips
    <3> QED
      BY <1>1, <2>1, <3>1, OpenLines
  <2>2. ASSUME NEW k \in irr["SPIC"], j = 8 + k PROVE FALSE
    <3>1. k \in Lines /\ Cascade \in Lines
      BY <1>3 DEF Bytes, Chips, Lines, Cascade
    <3>2. k \notin BootMask["SPIC"] /\ Cascade \notin BootMask["MPIC"]
      BY <2>2, <3>1 DEF Served!Open, StayClosed
    <3> QED
      BY <1>1, <1>2, <2>2, <3>1, <3>2, OpenLines
  <2> QED
    BY <2>1, <2>2 DEF Served!Open
<1>5. Vector("MPIC", 7) = ExceptionCount + 7 /\ Vector("SPIC", 7) = ExceptionCount + 15
  <2>1. base["MPIC"] = {5} /\ base["SPIC"] = {3, 5}
    BY <1>2 DEF BootInv, ProgramInv, Offset, Chips
  <2> QED
    BY <2>1, Vectors DEF Vector, ExceptionCount
<1>6. PICK irq \in {7, 15} : Enter(ExceptionCount + irq, irq) /\ UNCHANGED irr
  BY <1>5 DEF Spurious, picVars, AckVanished
<1>7. PICK f \in Frames : stack' = <<f>> /\ f.irq = irq /\ UNCHANGED point
  <2>1. irq \in 0..15
    OBVIOUS
  <2> QED
    BY <1>1, <1>6, <2>1, EnterFrame
<1> QED
  BY <1>1, <1>2, <1>4, <1>6, <1>7 DEF Served!ServeNothing, Served!None

(* A step of a handler is none of the service, until it returns. *)
LEMMA HandleServes == BootInv /\ Handle => Served!Done \/ UNCHANGED Served!vars
<1> SUFFICES ASSUME BootInv, Handle PROVE Served!Done \/ UNCHANGED Served!vars
  OBVIOUS
<1>0. StackInv
  BY DEF BootInv
<1>1. UNCHANGED irr
  BY DEF Handle, RunHandler, EoiSlave, EoiMaster, Iret, OutCommand, EOI, picVars
<1>2. ASSUME NEW p, NEW q \in {"eoi_slave", "eoi_master", "iret"}, Advance(p, q)
      PROVE  UNCHANGED Served!vars
  <2>1. PICK f \in Frames :
          /\ stack = <<f>> /\ stack' = <<[f EXCEPT !.at = q]>>
          /\ [f EXCEPT !.at = q] \in Frames
          /\ UNCHANGED point
    BY <1>0, <1>2, AdvanceFrame
  <2>2. [f EXCEPT !.at = q].irq = f.irq
    BY DEF Frames
  <2>3. Serving' = Serving
    BY <2>1, <2>2 DEF Serving
  <2> QED
    BY <1>1, <2>1, <2>3, Zenon DEF Served!vars, Pending, Serving
<1>3. CASE Iret
  <2>1. PICK f \in Frames : stack = <<f>>
    BY <1>0, <1>3 DEF Iret, Frame, StackInv
  <2>2. stack' = <<>> /\ UNCHANGED point /\ f.irq \in 0..15
    BY <1>3, <2>1, OneFrame DEF Iret, Frames
  <2> QED
    BY <1>1, <2>1, <2>2 DEF Served!Done, Served!None
<1> QED
  BY <1>2, <1>3 DEF Handle, RunHandler, EoiSlave, EoiMaster

(* ServesInOrder: what the devices may expect of the kernel holds of the   *)
(* two chips, the IDT's gates and irq_interrupt_handler with send_eoi,     *)
(* whatever the boot loader masked: open requests are served one at a      *)
(* time, the one of the highest priority first, and no other is.           *)
THEOREM Implements == Spec => ServesInOrder
<1>1. Init => Served!Init
  BY DEF Init, Served!Init, Served!None, Chips
<1>2. BootInv /\ [Next]_vars => [Served!Next]_(Served!vars)
  <2> SUFFICES ASSUME BootInv, [Next]_vars PROVE [Served!Next]_(Served!vars)
    OBVIOUS
  <2>1. CASE Boot
    <3>1. stack = <<>> /\ UNCHANGED stack /\ point # "spin"
      BY <2>1 DEF Boot, LoadIdt, ReadImr, Icw1, Icw2, WriteIcw3, WriteIcw4, RestoreImr,
                  UnmaskRead, UnmaskWrite, Enable, Main
    <3>2. irr'["MPIC"] \subseteq irr["MPIC"] /\ irr'["SPIC"] \subseteq irr["SPIC"]
      <4>1. CASE Icw1
        <5>1. irr' = [irr EXCEPT ![chip] = {}]
          BY <4>1 DEF Icw1, OutCommand, INIT, ICW4
        <5> QED
          BY <5>1 DEF BootInv, PicTypeOK, Chips
      <4>2. CASE ~Icw1
        BY <2>1, <4>2 DEF Boot, LoadIdt, ReadImr, Icw2, WriteIcw3, WriteIcw4, RestoreImr,
                          UnmaskRead, UnmaskWrite, Enable, OutData, picVars
      <4> QED
        BY <4>1, <4>2
    <3>3. CASE Enable
      BY <3>1, <3>3 DEF Enable, Goto, picVars, Served!Start, Served!Next
    <3>4. CASE ~Enable
      <4>1. point' # "spin"
        BY <2>1, <3>4 DEF Boot, LoadIdt, ReadImr, Icw1, Icw2, WriteIcw3, WriteIcw4,
                          RestoreImr, UnmaskRead, UnmaskWrite, Goto
      <4> QED
        BY <3>1, <3>2, <4>1 DEF Served!Reset, Served!Next
    <3> QED
      BY <3>3, <3>4
  <2>2. CASE Deliver
    BY <2>2, DeliverServes DEF Served!Next
  <2>3. CASE Spurious
    BY <2>3, SpuriousServesNothing DEF Served!Next
  <2>4. CASE Handle
    BY <2>4, HandleServes DEF Served!Next
  <2>5. ASSUME NEW c \in Chips, NEW l \in Lines, <<c, l>> # <<"MPIC", Cascade>>,
               Raise(c, l), UNCHANGED cpuVars
        PROVE  Served!Next
    <3>1. UNCHANGED <<stack, point>>
      BY <2>5 DEF cpuVars
    <3>2. irr \in [Chips -> Bytes] /\ irr' = [irr EXCEPT ![c] = @ \cup {l}]
      BY <2>5 DEF Raise, BootInv, PicTypeOK
    <3>3. CASE c = "MPIC"
      <4>1. Pending' = Pending \cup {l} /\ l # Cascade
        BY <2>5, <3>2, <3>3 DEF Pending, Chips
      <4>2. Served!Ask(l) /\ l \in Served!Requests
        BY <3>1, <4>1, Mapped DEF Serving, Served!Requests, Lines, Cascade
      <4> QED
        BY <4>2 DEF Served!Next
    <3>4. CASE c = "SPIC"
      <4>1. Pending' = Pending \cup {8 + l}
        BY <3>2, <3>4 DEF Pending, Chips
      <4>2. Served!Ask(8 + l) /\ 8 + l \in Served!Requests
        BY <3>1, <4>1, Mapped DEF Serving, Served!Requests, Lines
      <4> QED
        BY <4>2 DEF Served!Next
    <3> QED
      BY <3>3, <3>4 DEF Chips
  <2>6. CASE KeyByte
    BY <2>5, <2>6 DEF KeyByte, Chips, Lines, KeyboardIrq, Cascade
  <2>7. CASE DeviceIrq
    BY <2>5, <2>7, InterruptsAssumption DEF DeviceIrq, InterruptsAssumption
  <2>8. CASE UNCHANGED vars \/ Spin
    BY <2>8 DEF vars, cpuVars, picVars, Spin, Served!vars
  <2> QED
    BY <2>1, <2>2, <2>3, <2>4, <2>6, <2>7, <2>8 DEF Next
<1> QED
  BY <1>1, <1>2, BootInvariant, PTL DEF Spec, ServesInOrder, Served!Spec
=============================================================================
