------------------------------- MODULE Kernel -------------------------------
(***************************************************************************)
(* The running kernel: a keyboard that sends bytes, its controller, the    *)
(* two PICs and the CPU of module Interrupts, and the decoder of module    *)
(* Keyboard as what the handler of vector 33 does with the byte it reads.  *)
(* Bytes wait in the keyboard until the controller has room for one, and   *)
(* in the controller until the handler reads its port; what the port gives *)
(* when there is no byte is the last one.                                  *)
(***************************************************************************)
EXTENDS Interrupts

CONSTANTS
  Keys, BootKeys, Repeating, MaxHeld, FifoSize, Overrun, Width, TabStop

VARIABLES
  held, again, lock, stale, intact,   (* the keyboard, as in Keyboard      *)
  fifo,                               (* the bytes it has not sent yet     *)
  port,                               (* what in(0x60) gives               *)
  key_up, terminal                    (* the driver, as in Keyboard        *)

typistVars  == <<held, again, lock, stale, intact>>
driverVars  == <<key_up, terminal>>
decoderVars == <<typistVars, fifo, port, driverVars>>
kernelVars  == <<vars, decoderVars>>

\* The bytes on their way: the one in the controller, then the keyboard's.
wire == (IF obf THEN <<port>> ELSE <<>>) \o fifo

Decoder == INSTANCE Keyboard

ASSUME KernelAssumption == Decoder!KeyboardAssumption

-----------------------------------------------------------------------------
\* A key goes down, repeats or goes up: its bytes wait in the keyboard.
Typing ==
  /\ \E k \in Keys :
       /\ \E bytes \in {<<>>, Decoder!Make(k), Decoder!Break(k)} :
            fifo' = fifo \o bytes
       /\ UNCHANGED <<vars, port>>
       /\ Decoder!Press(k) \/ Decoder!Repeat(k) \/ Decoder!Release(k)

\* The controller takes a byte and raises its line.
Transfer ==
  /\ fifo # <<>>
  /\ KeyByte
  /\ port' = Head(fifo) /\ fifo' = Tail(fifo)
  /\ UNCHANGED <<typistVars, driverVars>>

\* irq_interrupt_handler calls handlers[int_no]: of vector 33 that reads the
\* port and decodes what it gives.
Dispatch ==
  /\ RunHandler
  /\ IF Top.vector = KeyboardVector
     THEN /\ key_up' = Decoder!KeyUp(key_up, port)
          /\ terminal' = Decoder!Show(terminal, Decoder!Text(key_up, port))
     ELSE UNCHANGED driverVars
  /\ UNCHANGED <<typistVars, fifo, port>>

\* Everything else leaves the keyboard and the driver alone.
Alone(A) == A /\ UNCHANGED decoderVars

KernelInit ==
  /\ Init
  /\ fifo = <<>> /\ port = 0
  /\ Decoder!Init

KernelNext ==
  \/ Typing \/ Transfer \/ Dispatch
  \/ Alone(Boot) \/ Alone(Spin) \/ Alone(Deliver) \/ Alone(Spurious)
  \/ Alone(EoiSlave) \/ Alone(EoiMaster) \/ Alone(Iret) \/ Alone(DeviceIrq)

\* The CPU executes, takes requests when it may, and the controller takes the
\* next byte when it has room.
KernelFairness ==
  /\ WF_kernelVars(Alone(Boot)) /\ WF_kernelVars(Alone(Deliver))
  /\ WF_kernelVars(Dispatch)
  /\ WF_kernelVars(Alone(EoiSlave \/ EoiMaster \/ Iret))
  /\ WF_kernelVars(Transfer)

KernelSpec == KernelInit /\ [][KernelNext]_kernelVars
FairKernel == KernelSpec /\ KernelFairness

-----------------------------------------------------------------------------
\* Interrupts deliver what the decoder assumes: each byte is decoded once, in
\* the order sent, and nothing that is no byte is, whatever the handlers of
\* other requests and vanishing ones do in between.
DecodesOnce == Decoder!Spec

\* When no more bytes are sent, all are read: none waits for a request that was
\* lost, so that what is on the screen comes to be what was typed.
Quiet   == <>[][Len(wire') <= Len(wire)]_kernelVars
AllRead == Quiet => <>[](wire = <<>>)
=============================================================================
