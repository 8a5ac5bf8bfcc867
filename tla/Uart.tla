-------------------------------- MODULE Uart --------------------------------
(***************************************************************************)
(* The serial port's 16550 as serial.cpp drives it: the registers at COM1, *)
(* of which the first two are the divisor's while the line control         *)
(* register's top bit is set, a receiver with a FIFO, a transmitter of one *)
(* byte, and the loop between them.  A byte is the set of its one bits.    *)
(*                                                                         *)
(* The port is absent (reads give ones), faulty (it loops back another     *)
(* byte), slow (a byte takes its time, as the divisor says) or fast (it    *)
(* takes none, as in an emulator).                                         *)
(***************************************************************************)
EXTENDS Integers, Sequences

VARIABLES
  kind,      (* which of these it is                                       *)
  divisor,   (* divisor[1] and divisor[2]: the low and the high byte       *)
  lcr, mcr,  (* the line and modem control registers                       *)
  rx,        (* bytes received and not read                                *)
  shift,     (* the byte the transmitter holds, as a sequence              *)
  host       (* what the host heard: <<byte, divisor, lcr>>                *)

uartVars == <<kind, divisor, lcr, mcr, rx, shift, host>>

Kinds == {"absent", "faulty", "slow", "fast"}
Ones  == 0..7
Zeros == {}

DLAB == 7 \in lcr
LOOP == 4 \in mcr

\* Where a byte goes that leaves the transmitter.
Arrive(b) ==
  IF LOOP
  THEN /\ rx' = Append(rx, IF kind = "faulty" THEN Ones \ b ELSE b)
       /\ UNCHANGED host
  ELSE /\ host' = Append(host, <<b, divisor, lcr>>)
       /\ UNCHANGED rx

\* out(COM1 + i, b), for the registers that the kernel writes.
Out(i, b) ==
  /\ UNCHANGED kind
  /\ \/ kind = "absent" /\ UNCHANGED uartVars
     \/ /\ kind # "absent" /\ i \in {0, 1} /\ DLAB
        /\ divisor' = [divisor EXCEPT ![i + 1] = b]
        /\ UNCHANGED <<lcr, mcr, rx, shift, host>>
     \/ /\ kind # "absent" /\ i = 0 /\ ~DLAB
        /\ \/ kind = "slow" /\ shift' = <<b>> /\ UNCHANGED <<rx, host>>
           \/ kind # "slow" /\ Arrive(b) /\ UNCHANGED shift
        /\ UNCHANGED <<divisor, lcr, mcr>>
     \/ /\ kind # "absent" /\ i = 1 /\ ~DLAB     (* interrupts: not used   *)
        /\ UNCHANGED uartVars
     \/ /\ kind # "absent" /\ i = 2              (* FIFO control           *)
        /\ rx' = IF 1 \in b THEN <<>> ELSE rx
        /\ UNCHANGED <<divisor, lcr, mcr, shift, host>>
     \/ /\ kind # "absent" /\ i = 3 /\ lcr' = b
        /\ UNCHANGED <<divisor, mcr, rx, shift, host>>
     \/ /\ kind # "absent" /\ i = 4 /\ mcr' = b
        /\ UNCHANGED <<divisor, lcr, rx, shift, host>>

\* b = in(COM1): a byte received, or what is left in the register.
In(b) ==
  IF kind = "absent" THEN b = Ones /\ UNCHANGED uartVars
  ELSE IF DLAB THEN b = divisor[1] /\ UNCHANGED uartVars
  ELSE IF rx = <<>> THEN b = Zeros /\ UNCHANGED uartVars
  ELSE /\ b = Head(rx) /\ rx' = Tail(rx)
       /\ UNCHANGED <<kind, divisor, lcr, mcr, shift, host>>

\* The line status register says that the transmitter is empty.
TEMT == kind = "absent" \/ shift = <<>>

\* A byte leaves the transmitter of a slow port.
Shift ==
  /\ shift # <<>> /\ shift' = <<>>
  /\ Arrive(shift[1])
  /\ UNCHANGED <<kind, divisor, lcr, mcr>>

UartTypeOK ==
  /\ kind \in Kinds
  /\ divisor \in [1..2 -> SUBSET Ones]
  /\ lcr \in SUBSET Ones /\ mcr \in SUBSET Ones
  /\ rx \in Seq(SUBSET Ones) /\ shift \in Seq(SUBSET Ones)
  /\ host \in Seq((SUBSET Ones) \X [1..2 -> SUBSET Ones] \X SUBSET Ones)
=============================================================================
