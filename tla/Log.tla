-------------------------------- MODULE Log --------------------------------
(***************************************************************************)
(* The kernel's log as the contexts of one CPU use it.                     *)
(*                                                                         *)
(* kernel/logging.cpp writes to two places: the boot loader's terminal     *)
(* (kputc, through the function pointer `write`) and the serial port       *)
(* (dputc).  dputs, dprint and dprintf share the loops of kputs, kprint    *)
(* and kprintf: they set the global `use_serial`, run the loop, and clear  *)
(* it again, and the loop reads it for each character.  Nothing saves or   *)
(* restores the flag around an interrupt.                                  *)
(*                                                                         *)
(* Three contexts run on the CPU, a higher one suspending the lower ones:  *)
(*   "main"  _start;                                                       *)
(*   "irq"   irq_interrupt_handler, entered through an interrupt gate,     *)
(*           hence never suspended by another IRQ;                         *)
(*   "exc"   cpu_exception_handler, which suspends either of the others    *)
(*           and never returns: no exception has a handler, so it panics.  *)
(* A context is at a call site (site) and inside the call at a point of    *)
(* it (pc).  The text of a message is abstracted to the number of          *)
(* characters left to write; any of them may be a newline.                 *)
(*                                                                         *)
(* One variable, reported, is not in the code: it is a history variable    *)
(* that no guard reads, so that the properties can say which of _start's   *)
(* messages were hit by the report of an IRQ without a handler.            *)
(***************************************************************************)
EXTENDS Naturals

CONSTANTS
  MaxText    (* longest text a call writes *)

ASSUME LogAssumption == MaxText \in Nat \ {0}

VARIABLES
  use_serial,  (* the global flag                                          *)
  site,        (* site[k]: the call site context k is at, "none" if k is   *)
               (* not on the stack                                         *)
  pc,          (* pc[k]: where in that call                                *)
  left,        (* left[k]: characters of the text not yet written          *)
  tx,          (* tx[k]: bytes dputc still has to send for its character   *)
  fifo,        (* bytes in the UART's transmit FIFO                        *)
  reported     (* history: since _start's current call began, the report   *)
               (* of an IRQ without a handler was written and returned     *)

vars == <<use_serial, site, pc, left, tx, fifo, reported>>

-----------------------------------------------------------------------------
Contexts == {"main", "irq", "exc"}

\* The contexts that suspend context k.
Above == [k \in Contexts |-> CASE k = "main" -> {"irq", "exc"}
                               [] k = "irq"  -> {"exc"}
                               [] k = "exc"  -> {}]

\* Call sites of the d functions and of the k functions, context by context.
\* "echo" is the keyboard handler's kputc, "erase" its kprint("\b \b").
DSites == {"gdt", "isr", "idt", "pic", "enabled"} \cup {"unhandled"}
            \cup {"assert", "frame", "desc", "regs", "cause"}
KSites == {"banner", "echo", "erase", "panic"}

\* Sites that write nothing: lidt, sti and the loop of _start; iretq; halt.
MainSites == {"banner", "gdt", "isr", "lidt", "idt", "pic", "sti", "enabled", "spin"}
IrqSites  == {"echo", "erase", "unhandled", "iret"}
ExcSites  == {"assert", "frame", "desc", "regs", "panic", "cause", "halt"}

\* Where a context may go from a site when its call returns.  The exception
\* handler describes the exception only when the frame's int_no is one.
Succ == [s \in MainSites \cup IrqSites \cup ExcSites |->
  CASE s = "banner"  -> {"gdt"}     [] s = "gdt"   -> {"isr"}
    [] s = "isr"     -> {"lidt"}    [] s = "lidt"  -> {"idt"}
    [] s = "idt"     -> {"pic"}     [] s = "pic"   -> {"sti"}
    [] s = "sti"     -> {"enabled"} [] s = "frame" -> {"desc", "regs"}
    [] s = "desc"    -> {"regs"}    [] s = "regs"  -> {"panic"}
    [] s = "panic"   -> {"cause"}
    [] s \in {"cause", "assert"}             -> {"halt"}
    [] s \in {"echo", "erase", "unhandled"}  -> {"iret"}
    [] s \in {"enabled", "spin"}             -> {"spin"}
    [] s = "iret"                            -> {"iret"}
    [] s = "halt"                            -> {"halt"}]

\* Context k is the one the CPU executes.
Running(k) ==
  /\ site[k] # "none"
  /\ \A j \in Above[k] : site[j] = "none"

\* RFLAGS.IF: set by sti, cleared by the interrupt gates until iretq.
InterruptsEnabled ==
  /\ site["main"] \in {"enabled", "spin"}
  /\ Running("main")

\* IDT::install has executed lidt.
IdtLoaded == site["main"] \in {"idt", "pic", "sti", "enabled", "spin"}

Goto(k, p) == pc' = [pc EXCEPT ![k] = p]

-----------------------------------------------------------------------------
\* dputs, dprint, dprintf: set the flag, then run the loop of the k function.
CallD(k) ==
  /\ Running(k) /\ pc[k] = "call" /\ site[k] \in DSites
  /\ use_serial' = TRUE
  /\ reported' = (reported /\ k # "main")
  /\ \E n \in 1..MaxText : left' = [left EXCEPT ![k] = n]
  /\ Goto(k, "loop")
  /\ UNCHANGED <<site, tx, fifo>>

\* Fault: the k functions clear the flag.
CallK_Clears(k) ==
  /\ Running(k) /\ pc[k] = "call" /\ site[k] \in KSites \ {"echo"}
  /\ use_serial' = FALSE
  /\ \E n \in 1..MaxText : left' = [left EXCEPT ![k] = n]
  /\ Goto(k, "loop")
  /\ UNCHANGED <<site, tx, fifo, reported>>

\* Fault: a k function waits until no d function has the flag.
CallK_Waits(k) ==
  /\ Running(k) /\ pc[k] = "call" /\ site[k] \in KSites \ {"echo"}
  /\ ~use_serial
  /\ \E n \in 1..MaxText : left' = [left EXCEPT ![k] = n]
  /\ Goto(k, "loop")
  /\ UNCHANGED <<use_serial, site, tx, fifo, reported>>

\* kputs, kprint, kprintf: run the loop with the flag as it is.
CallK(k) ==
  /\ Running(k) /\ pc[k] = "call" /\ site[k] \in KSites \ {"echo"}
  /\ \E n \in 1..MaxText : left' = [left EXCEPT ![k] = n]
  /\ Goto(k, "loop")
  /\ UNCHANGED <<use_serial, site, tx, fifo, reported>>

\* The keyboard handler's kputc, which does not look at the flag.
CallKputc(k) ==
  /\ Running(k) /\ pc[k] = "call" /\ site[k] = "echo"
  /\ left' = [left EXCEPT ![k] = 1]
  /\ Goto(k, "term")
  /\ UNCHANGED <<use_serial, site, tx, fifo, reported>>

\* Fault: the loop does not stop at the end of the text.
Putchar_NoEnd(k) ==
  /\ Running(k) /\ pc[k] = "loop" /\ ~use_serial
  /\ Goto(k, "term")
  /\ UNCHANGED <<use_serial, site, left, tx, fifo, reported>>

\* putchar: the flag selects the function for one character.  dputc sends
\* two bytes for a newline.
Putchar(k) ==
  /\ Running(k) /\ pc[k] = "loop" /\ left[k] > 0
  /\ \/ /\ use_serial
        /\ \E b \in {1, 2} : tx' = [tx EXCEPT ![k] = b]
        /\ Goto(k, "poll")
     \/ /\ ~use_serial
        /\ Goto(k, "term")
        /\ UNCHANGED tx
  /\ UNCHANGED <<use_serial, site, left, fifo, reported>>

\* kputc: write(&c, 1) returns.
TermWrite(k) ==
  /\ Running(k) /\ pc[k] = "term"
  /\ left' = [left EXCEPT ![k] = @ - 1]
  /\ Goto(k, "loop")
  /\ UNCHANGED <<use_serial, site, tx, fifo, reported>>

\* Fault: serial::send does not wait.
Poll_NoWait(k) ==
  /\ Running(k) /\ pc[k] = "poll"
  /\ Goto(k, "out")
  /\ UNCHANGED <<use_serial, site, left, tx, fifo, reported>>

\* serial::send leaves its wait loop: the line status register says that
\* the transmit FIFO is empty.
Poll(k) ==
  /\ Running(k) /\ pc[k] = "poll"
  /\ fifo = 0
  /\ Goto(k, "out")
  /\ UNCHANGED <<use_serial, site, left, tx, fifo, reported>>

\* serial::send writes the data register, which may be after other contexts
\* ran.  The carriage return of a newline is followed by the line feed.
Outb(k) ==
  /\ Running(k) /\ pc[k] = "out"
  /\ fifo' = fifo + 1
  /\ tx' = [tx EXCEPT ![k] = @ - 1]
  /\ IF tx[k] > 1
     THEN Goto(k, "poll") /\ UNCHANGED left
     ELSE Goto(k, "loop") /\ left' = [left EXCEPT ![k] = @ - 1]
  /\ UNCHANGED <<use_serial, site, reported>>

\* Fault: a d function leaves the flag set.
Return_KeepsFlag(k) ==
  /\ Running(k) /\ pc[k] = "loop" /\ left[k] = 0
  /\ reported' = (reported \/ site[k] = "unhandled")
  /\ \E s \in Succ[site[k]] : site' = [site EXCEPT ![k] = s]
  /\ Goto(k, "call")
  /\ UNCHANGED <<use_serial, left, tx, fifo>>

\* Fault: kpanic's overload for a frame calls itself.
Return_Recurs(k) ==
  /\ Running(k) /\ pc[k] = "loop" /\ left[k] = 0
  /\ reported' = (reported \/ site[k] = "unhandled")
  /\ use_serial' = (use_serial /\ site[k] \notin DSites)
  /\ \E s \in IF site[k] = "regs" THEN {"frame"} ELSE Succ[site[k]] :
       site' = [site EXCEPT ![k] = s]
  /\ Goto(k, "call")
  /\ UNCHANGED <<left, tx, fifo>>

\* The call returns; a d function clears the flag whatever it was before.
Return(k) ==
  /\ Running(k) /\ pc[k] = "loop" /\ left[k] = 0
  /\ reported' = (reported \/ site[k] = "unhandled")
  /\ use_serial' = (use_serial /\ site[k] \notin DSites)
  /\ \E s \in Succ[site[k]] : site' = [site EXCEPT ![k] = s]
  /\ Goto(k, "call")
  /\ UNCHANGED <<left, tx, fifo>>

\* lidt and sti in _start's path.
Instruction ==
  /\ Running("main") /\ site["main"] \in {"lidt", "sti"}
  /\ \E s \in Succ[site["main"]] : site' = [site EXCEPT !["main"] = s]
  /\ UNCHANGED <<use_serial, pc, left, tx, fifo, reported>>

\* while (true); in _start, for (;;) cli; hlt in cpu::halt, and the wait loop.
Idle(k) ==
  /\ Running(k)
  /\ site[k] \in {"spin", "halt"} \/ pc[k] = "poll"
  /\ UNCHANGED vars

Step(k) ==
  \/ CallD(k) \/ CallK(k) \/ CallKputc(k) \/ Putchar(k) \/ TermWrite(k)
  \/ Poll(k) \/ Outb(k) \/ Return(k)

-----------------------------------------------------------------------------
\* The CPU takes an IRQ.  The keyboard handler echoes, erases or, for shift,
\* caps lock and releases, writes nothing.  A request that vanishes before
\* the CPU takes it arrives as IRQ 7, masked or not, and has no handler.
EnterIrq ==
  /\ InterruptsEnabled
  /\ \E s \in {"echo", "erase", "iret", "unhandled"} : site' = [site EXCEPT !["irq"] = s]
  /\ UNCHANGED <<use_serial, pc, left, tx, fifo, reported>>

\* iretq: the interrupted context goes on.
Iret ==
  /\ Running("irq") /\ site["irq"] = "iret"
  /\ site' = [site EXCEPT !["irq"] = "none"]
  /\ UNCHANGED <<use_serial, pc, left, tx, fifo, reported>>

\* An exception (an NMI among them) ends in kpanic or in a failed assertion.
EnterExc ==
  /\ IdtLoaded /\ site["exc"] = "none"
  /\ \E s \in {"frame", "assert"} : site' = [site EXCEPT !["exc"] = s]
  /\ UNCHANGED <<use_serial, pc, left, tx, fifo, reported>>

\* The UART sends a byte.
Transmit ==
  /\ fifo > 0
  /\ fifo' = fifo - 1
  /\ UNCHANGED <<use_serial, site, pc, left, tx, reported>>

-----------------------------------------------------------------------------
\* _start after log::init returned true.
Init ==
  /\ use_serial = FALSE
  /\ site = [k \in Contexts |-> IF k = "main" THEN "banner" ELSE "none"]
  /\ pc = [k \in Contexts |-> "call"]
  /\ left = [k \in Contexts |-> 0]
  /\ tx = [k \in Contexts |-> 0]
  /\ fifo = 0
  /\ reported = FALSE

Next ==
  \/ \E k \in Contexts : Step(k) \/ Idle(k)
  \/ Instruction \/ EnterIrq \/ Iret \/ EnterExc \/ Transmit

\* The CPU executes the running context, and the UART drains its FIFO.
Fairness ==
  /\ \A k \in Contexts : WF_vars(Step(k))
  /\ WF_vars(Iret) /\ WF_vars(Transmit)

Spec == Init /\ [][Next]_vars
FairSpec == Spec /\ Fairness

-----------------------------------------------------------------------------
TypeOK ==
  /\ use_serial \in BOOLEAN
  /\ site \in [Contexts -> MainSites \cup IrqSites \cup ExcSites \cup {"none"}]
  /\ site["main"] \in MainSites
  /\ site["irq"] \in IrqSites \cup {"none"}
  /\ site["exc"] \in ExcSites \cup {"none"}
  /\ pc \in [Contexts -> {"call", "loop", "term", "poll", "out"}]
  /\ left \in [Contexts -> 0..MaxText]
  /\ tx \in [Contexts -> 0..2]
  /\ fifo \in Nat
  /\ reported \in BOOLEAN

\* Context k is inside a d function.
InD(k) == site[k] \in DSites /\ pc[k] # "call"

\* Context k is writing a character to the place its call is meant for: the
\* d functions "print to host's terminal via serial communication", the k
\* functions "print to kernel's terminal" (logging.hpp).
Routed(k) ==
  site[k] # "none" =>
    /\ pc[k] = "term" => site[k] \in KSites
    /\ pc[k] \in {"poll", "out"} => site[k] \in DSites

\* _start's messages go where they are meant to, whatever interrupts them.
\* The code breaks it: see the run log_report.
MainRouted == Routed("main")

\* The handler's echo and backspace go to the terminal, and its report of an
\* unhandled IRQ to the serial port.  The code breaks it: see log_erase.
HandlerRouted == Routed("irq")

\* What remains true of both, with every IRQ and exception at any point: a
\* message goes astray in two cases only.  _start's goes to the terminal once
\* an unhandled IRQ's report has cleared the flag under it, and a backspace
\* goes to the serial port when it finds _start inside a d function that no
\* such report has cut.
MessagesRouted ==
  /\ ~reported => Routed("main")
  /\ site["irq"] = "erase" /\ (InD("main") => reported) => Routed("irq")
  /\ site["irq"] # "erase" => Routed("irq")

\* A panic writes its banner to the terminal and its dump to the serial port
\* even when it interrupts a d function that has set the flag.
PanicRouted == Routed("exc")

\* The boot loader's write function is not reentrant: the IRQ handler calls
\* it while _start is inside it only after the report of an unhandled IRQ has
\* sent the rest of _start's text to the terminal.
ReentryNeedsReport ==
  ~reported =>
    ~(pc["main"] = "term" /\ site["irq"] # "none" /\ pc["irq"] = "term")

\* serial::send checks the FIFO and writes the data register in two steps,
\* and other contexts send in between: still, at most one byte more than
\* the sender's own is ever in the FIFO.
TxBounded == fifo <= 2

\* The flag is set only while some context is inside a d function; and until
\* an exception ends everything it says exactly whether the handler is inside
\* one, or _start is and no unhandled IRQ's report has cleared it there.
FlagOwned ==
  /\ use_serial => \E k \in Contexts : InD(k)
  /\ site["exc"] = "none" =>
       (use_serial <=> InD("irq") \/ (InD("main") /\ ~reported))

\* The IRQ handler returns, unless an exception stops the machine.
HandlerReturns ==
  site["irq"] # "none" ~> site["irq"] = "none" \/ site["exc"] # "none"

\* A panic or a failed assertion gets its report out and halts.
PanicHalts == site["exc"] # "none" ~> site["exc"] = "halt"

=============================================================================
