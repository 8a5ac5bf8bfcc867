----------------------------- MODULE Interrupts -----------------------------
(***************************************************************************)
(* How the kernel takes interrupt requests: _start loads the IDT, remaps   *)
(* the two PICs, unmasks the keyboard and executes sti (kernel.cpp); from  *)
(* then on the CPU enters the stubs of isr.asm, which call                 *)
(* irq_interrupt_handler, which calls the handler of the vector and then   *)
(* send_eoi (interrupts.cpp).  Every port access is a step of its own, so  *)
(* that devices raise their lines and the keyboard sends bytes in between. *)
(*                                                                         *)
(* Of the keyboard controller we keep the flag of its output buffer: a     *)
(* byte that arrives there raises IRQ 1, and none arrives until the last   *)
(* one is read.                                                            *)
(***************************************************************************)
EXTENDS Pic, Sequences

CONSTANTS
  BootMask,    (* BootMask[c]: the lines the boot loader leaves masked     *)
  Devices,     (* <<chip, line>> of the devices other than the keyboard    *)
  Glitches,    (* may the CPU be interrupted with nothing to acknowledge?  *)
  EarlyKeys    (* may the keyboard send before the master PIC's reset?     *)

ASSUME InterruptsAssumption ==
  /\ BootMask \in [Chips -> Bytes]
  /\ Devices \subseteq Chips \X Lines
  /\ <<"MPIC", 1>> \notin Devices /\ <<"MPIC", Cascade>> \notin Devices
  /\ Glitches \in BOOLEAN /\ EarlyKeys \in BOOLEAN

VARIABLES
  point,   (* where _start is                                              *)
  chip,    (* the chip remap_pic works on                                  *)
  saved,   (* the local copy of a mask: imr in remap_pic, bitset in        *)
           (* clear_irq_mask                                               *)
  iflag,   (* RFLAGS.IF                                                    *)
  stack,   (* interrupt frames, the innermost last                         *)
  obf      (* the keyboard controller's output buffer holds a byte         *)

cpuVars == <<point, chip, saved, iflag, stack>>
vars == <<cpuVars, obf, picVars>>

-----------------------------------------------------------------------------
\* Faults: both chips at one offset, and an offset that is no byte.
Offset_Same == [c \in Chips |-> {5}]
Offset_Wide == [c \in Chips |-> IF c = "MPIC" THEN {8} ELSE {3, 8}]

Offset == [c \in Chips |-> IF c = "MPIC" THEN {5} ELSE {3, 5}]  (* 32, 40  *)
Icw3   == [c \in Chips |-> IF c = "MPIC" THEN {2} ELSE {1}]     (* 4, 2    *)
INIT == {4}
ICW4 == {0}
EOI  == {5}

ExceptionCount == 32
KeyboardIrq    == 1
KeyboardVector == 33   (* the only entry of handlers isr::install sets     *)

Goto(p) == point' = p

\* _start runs only when no handler does.
Main(p) == stack = <<>> /\ point = p

-----------------------------------------------------------------------------
\* IDT::install ends with lidt.
LoadIdt ==
  /\ Main("idt") /\ Goto("read")
  /\ UNCHANGED <<chip, saved, iflag, stack, obf, picVars>>

\* remap_pic, one action for each access to a port.
ReadImr ==
  /\ Main("read") /\ Goto("icw1")
  /\ saved' = imr[chip]
  /\ UNCHANGED <<chip, iflag, stack, obf, picVars>>

Icw1 ==
  /\ Main("icw1") /\ Goto("icw2")
  /\ OutCommand(chip, INIT \cup ICW4)
  /\ UNCHANGED <<chip, saved, iflag, stack, obf>>

Icw2 ==
  /\ Main("icw2") /\ Goto("icw3")
  /\ OutData(chip, Offset[chip])
  /\ UNCHANGED <<chip, saved, iflag, stack, obf>>

WriteIcw3 ==
  /\ Main("icw3") /\ Goto("icw4")
  /\ OutData(chip, Icw3[chip])
  /\ UNCHANGED <<chip, saved, iflag, stack, obf>>

WriteIcw4 ==
  /\ Main("icw4") /\ Goto("restore")
  /\ OutData(chip, {0})
  /\ UNCHANGED <<chip, saved, iflag, stack, obf>>

\* Fault: the mask does not go back.
RestoreImr_Forgets ==
  /\ Main("restore")
  /\ \/ chip = "MPIC" /\ chip' = "SPIC" /\ Goto("read")
     \/ chip = "SPIC" /\ chip' = "SPIC" /\ Goto("unmask")
  /\ UNCHANGED <<saved, iflag, stack, obf, picVars>>

\* The mask goes back; remap continues with the slave, _start with unmasking.
RestoreImr ==
  /\ Main("restore")
  /\ OutData(chip, saved)
  /\ \/ chip = "MPIC" /\ chip' = "SPIC" /\ Goto("read")
     \/ chip = "SPIC" /\ chip' = "SPIC" /\ Goto("unmask")
  /\ UNCHANGED <<saved, iflag, stack, obf>>

\* Fault: & ~irq instead of & ~(1 << irq).
UnmaskRead_NoShift ==
  /\ Main("unmask") /\ Goto("unmask_write")
  /\ saved' = imr["MPIC"] \ {0}
  /\ UNCHANGED <<chip, iflag, stack, obf, picVars>>

\* clear_irq_mask(1).
UnmaskRead ==
  /\ Main("unmask") /\ Goto("unmask_write")
  /\ saved' = imr["MPIC"] \ {KeyboardIrq}
  /\ UNCHANGED <<chip, iflag, stack, obf, picVars>>

UnmaskWrite ==
  /\ Main("unmask_write") /\ Goto("sti")
  /\ OutData("MPIC", saved)
  /\ UNCHANGED <<chip, saved, iflag, stack, obf>>

Enable ==
  /\ Main("sti") /\ Goto("spin")
  /\ iflag' = TRUE
  /\ UNCHANGED <<chip, saved, stack, obf, picVars>>

\* while (true);
Spin == Main("spin") /\ UNCHANGED vars

-----------------------------------------------------------------------------
\* Fault: through a trap gate, which leaves IF set.
Enter_TrapGate(vector, irq) ==
  /\ stack' = Append(stack,
       [vector |-> vector, irq |-> irq, if |-> iflag,
        at |-> IF vector < ExceptionCount THEN "panic" ELSE "handler"])
  /\ UNCHANGED <<iflag, point, chip, saved, obf>>

\* Through an interrupt gate: the CPU pushes RFLAGS and clears IF.  A vector
\* of an exception runs cpu_exception_handler, which does not return.
Enter(vector, irq) ==
  /\ stack' = Append(stack,
       [vector |-> vector, irq |-> irq, if |-> iflag,
        at |-> IF vector < ExceptionCount THEN "panic" ELSE "handler"])
  /\ iflag' = FALSE
  /\ UNCHANGED <<point, chip, saved, obf>>

\* The CPU takes the request of the highest priority.
Deliver ==
  /\ iflag
  /\ \E l \in Lines :
       \/ AckMaster(l) /\ Enter(Vector("MPIC", l), l)
       \/ AckSlave(l) /\ Enter(Vector("SPIC", l), 8 + l)

\* A request vanished before the CPU acknowledged it: the chip it came from
\* answers with its line 7, which is not in service.
Spurious ==
  /\ Glitches /\ iflag /\ MasterInt = {}
  /\ \/ UNCHANGED picVars /\ Enter(Vector("MPIC", 7), 7)
     \/ AckVanished /\ Enter(Vector("SPIC", 7), 15)

\* The innermost frame is at p, and goes on to q.
Top == stack[Len(stack)]
Frame(p) == stack # <<>> /\ Top.at = p
Advance(p, q) ==
  /\ Frame(p)
  /\ stack' = [stack EXCEPT ![Len(stack)].at = q]
  /\ UNCHANGED <<point, chip, saved, iflag>>

\* Faults: the keyboard's handler does not read the port, or it is the handler
\* of every vector.
RunHandler_NoRead ==
  Advance("handler", "eoi_slave") /\ UNCHANGED <<obf, picVars>>

RunHandler_AllVectors ==
  Advance("handler", "eoi_slave") /\ obf' = FALSE /\ UNCHANGED picVars

\* irq_interrupt_handler calls the handler of the vector if there is one (the
\* keyboard's reads the controller's data port), or reports the IRQ.
RunHandler ==
  /\ Advance("handler", "eoi_slave")
  /\ obf' = (obf /\ Top.vector # KeyboardVector)
  /\ UNCHANGED picVars

\* Fault: the slave's first line is left out.
EoiForSlave_OffByOne(irq_no) == irq_no > 40

\* send_eoi(frame->int_no): its argument is the vector.
EoiForSlave(irq_no) == irq_no >= 8

EoiSlave ==
  /\ Advance("eoi_slave", "eoi_master")
  /\ IF EoiForSlave(Top.vector) THEN OutCommand("SPIC", EOI) ELSE UNCHANGED picVars
  /\ UNCHANGED obf

\* Fault: the master gets no command for the requests of the slave.
EoiMaster_Else ==
  /\ Advance("eoi_master", "iret")
  /\ IF Top.irq >= 8 THEN UNCHANGED picVars ELSE OutCommand("MPIC", EOI)
  /\ UNCHANGED obf

EoiMaster ==
  /\ Advance("eoi_master", "iret")
  /\ OutCommand("MPIC", EOI)
  /\ UNCHANGED obf

\* iretq pops the frame and RFLAGS with it.
Iret ==
  /\ Frame("iret")
  /\ iflag' = Top.if
  /\ stack' = SubSeq(stack, 1, Len(stack) - 1)
  /\ UNCHANGED <<point, chip, saved, obf, picVars>>

-----------------------------------------------------------------------------
\* The keyboard puts a byte into the empty output buffer: the line rises.
KeyByte ==
  /\ ~obf
  /\ EarlyKeys \/ chip = "SPIC" \/ point \notin {"idt", "read", "icw1"}
  /\ obf' = TRUE
  /\ Raise("MPIC", KeyboardIrq)
  /\ UNCHANGED cpuVars

\* Another device raises its line.
DeviceIrq ==
  /\ \E d \in Devices : d[2] \notin irr[d[1]] /\ Raise(d[1], d[2])
  /\ UNCHANGED <<cpuVars, obf>>

-----------------------------------------------------------------------------
\* _start after GDT::install.  The firmware's vectors of the PICs, 8 and 112.
Init ==
  /\ point = "idt" /\ chip = "MPIC" /\ saved = {}
  /\ iflag = FALSE /\ stack = <<>> /\ obf = FALSE
  /\ imr = BootMask
  /\ irr = [c \in Chips |-> {}] /\ isr = [c \in Chips |-> {}]
  /\ base = [c \in Chips |-> IF c = "MPIC" THEN {3} ELSE {4, 5, 6}]
  /\ icw3 = Icw3
  /\ expects = [c \in Chips |-> "mask"]

Boot ==
  \/ LoadIdt \/ ReadImr \/ Icw1 \/ Icw2 \/ WriteIcw3 \/ WriteIcw4
  \/ RestoreImr \/ UnmaskRead \/ UnmaskWrite \/ Enable

Handle == RunHandler \/ EoiSlave \/ EoiMaster \/ Iret

Next ==
  Boot \/ Spin \/ Deliver \/ Spurious \/ Handle \/ KeyByte \/ DeviceIrq

\* The CPU executes its instructions and takes requests when it may.
Fairness == WF_vars(Boot) /\ WF_vars(Handle) /\ WF_vars(Deliver)

Spec == Init /\ [][Next]_vars
FairSpec == Spec /\ Fairness

-----------------------------------------------------------------------------
Points == {"idt", "read", "icw1", "icw2", "icw3", "icw4", "restore",
           "unmask", "unmask_write", "sti", "spin"}

Frames == [vector : 0..255, irq : 0..15, if : BOOLEAN,
           at : {"handler", "eoi_slave", "eoi_master", "iret", "panic"}]

TypeOK ==
  /\ point \in Points /\ chip \in Chips /\ saved \in Bytes
  /\ iflag \in BOOLEAN /\ obf \in BOOLEAN
  /\ stack \in Seq(Frames)
  /\ PicTypeOK

\* "remap master PIC and slave PIC to avoid conflict between IRQ and CPU
\* exceptions" (kernel.cpp): every request arrives under the vector that the
\* table of handlers has for it, and through the kernel's own IDT.
VectorNamesIrq ==
  \A i \in 1..Len(stack) :
    /\ stack[i].vector = ExceptionCount + stack[i].irq
    /\ point # "idt"

\* No handler interrupts a handler, so that the stack and the handlers' code
\* need not allow for it.
NoNesting == Len(stack) <= 1

\* remap_pic writes five bytes to ports that share an address with the mask:
\* when interrupts are on, both masks are the boot loader's but for IRQ 1.
MasksKept ==
  iflag => imr = [BootMask EXCEPT !["MPIC"] = @ \ {KeyboardIrq}]

\* The lines in service that a request stands for.
InService(irq) ==
  [c \in Chips |-> IF c = "SPIC" THEN {l \in {irq - 8} : irq >= 8}
                   ELSE IF irq >= 8 THEN {Cascade} ELSE {irq}]

\* A non-specific end of interrupt ends whatever is in service: what it ends
\* is the request of the handler that sends it, on both chips.
EoiEndsOwn ==
  \A c \in Chips : Frame("eoi_slave") \/ Frame("eoi_master")
                     => isr[c] \subseteq InService(Top.irq)[c]

\* A line left in service would block all lines below it for good: when no
\* handler runs, no line is in service.
ServiceEnds == stack = <<>> => \A c \in Chips : isr[c] = {}

\* A byte in the keyboard controller always has a request or a handler that
\* is about to read it; no other will come.
KeyHasRequest ==
  obf => \/ KeyboardIrq \in irr["MPIC"]
         \/ \E i \in 1..Len(stack) :
              stack[i].vector = KeyboardVector /\ stack[i].at = "handler"

\* The keyboard handler reads the data port only when a byte is there.
KeyReadIsReal ==
  Frame("handler") /\ Top.vector = KeyboardVector => obf

\* A byte the keyboard sends is read.
KeyRead == obf ~> ~obf

\* The requests stay closed that the boot loader closed, but for the keyboard:
\* all of the slave's when the line it is connected to is masked.
StayClosed ==
  (BootMask["MPIC"] \ {KeyboardIrq})
    \cup {8 + l : l \in {k \in Lines : Cascade \in BootMask["MPIC"]
                                       \/ k \in BootMask["SPIC"]}}

Served == INSTANCE Service WITH
  pending   <- (irr["MPIC"] \ {Cascade}) \cup {8 + l : l \in irr["SPIC"]},
  serving   <- IF stack = <<>> THEN 16 ELSE stack[1].irq,
  on        <- point = "spin",
  Closed    <- StayClosed,
  Vanishing <- Glitches

\* The chips, the IDT, the stubs and send_eoi together implement the service:
\* whatever the boot loader masked and however requests vanish, only open
\* requests are served, one at a time, in the order of their priorities.
ServesInOrder == Served!Spec

\* No end of interrupt is missing or sent to the wrong chip, so that a request
\* would be blocked for good: while there are requests they are served.
ServesOn == Served!Progress
=============================================================================
