--------------------------- MODULE InterruptEntry ---------------------------
(***************************************************************************)
(* The way of one interrupt through isr.asm: the CPU pushes its frame, the *)
(* vector's stub adds two words, the common code saves the general purpose *)
(* registers and calls a C++ handler with a pointer to all of it, which    *)
(* the handler reads as a struct interrupt_frame; then everything is       *)
(* popped and iretq goes back.  The build is the debug one, in which       *)
(* assert is not empty.                                                    *)
(*                                                                         *)
(* The stack is the sequence of the words pushed since the interrupt, the  *)
(* last at the lowest address.  A word says what it is, and carries a      *)
(* number when the handlers look at it.                                    *)
(***************************************************************************)
EXTENDS Integers, Sequences

CONSTANTS
  Vectors,      (* vectors that occur                                      *)
  ErrorCodes    (* error codes the CPU pushes                              *)

EXCEPTION_COUNT == 32
Exceptions      == 0..EXCEPTION_COUNT - 1

\* The vectors in interrupts_handlers, which has 223 entries: none for 255.
IrqStubs == EXCEPTION_COUNT..EXCEPTION_COUNT + 222

ASSUME EntryAssumption ==
  /\ Vectors \subseteq Exceptions \cup IrqStubs
  /\ ErrorCodes \subseteq Nat

VARIABLES
  pc,       (* what the CPU executes: "code" is the interrupted code       *)
  vec,      (* the vector of the interrupt                                 *)
  regs,     (* general purpose registers                                   *)
  df,       (* RFLAGS.DF                                                   *)
  stack,
  code,     (* the interrupted code's DF, and whether its stack pointer is *)
            (* off a multiple of 16                                        *)
  outcome   (* what the C++ handler did                                    *)

vars == <<pc, vec, regs, df, stack, code, outcome>>

-----------------------------------------------------------------------------
Word(what, n) == [is |-> what, val |-> n]

PushOrder == <<"rax", "rbx", "rcx", "rdx", "rbp", "rdi", "rsi", "r8",
               "r9", "r10", "r11", "r12", "r13", "r14", "r15">>
\* Fault: two registers are popped in the order they were pushed.
PopOrder_Swapped ==
             <<"r15", "r14", "r13", "r12", "r11", "r10", "r9", "r8",
               "rdi", "rsi", "rbp", "rdx", "rcx", "rbx", "rax">>

PopOrder  == <<"r15", "r14", "r13", "r12", "r11", "r10", "r9", "r8",
               "rsi", "rdi", "rbp", "rdx", "rcx", "rbx", "rax">>
Regs == {PushOrder[i] : i \in 1..15}

\* cpu::registers, then the rest of interrupt_frame, from the lowest address.
Layout ==
  <<"r15", "r14", "r13", "r12", "r11", "r10", "r9", "r8", "rsi", "rdi", "rbp",
    "rdx", "rcx", "rbx", "rax", "err_code", "int_no", "rip", "cs", "rflags", "rsp", "ss">>

\* Registers a C++ function need not preserve.
CallerSaved == {"rax", "rcx", "rdx", "rsi", "rdi", "r8", "r9", "r10", "r11"}

KeyboardVector == 33
AbortClass     == {8, 18}   (* int_type_lut: double fault, machine check  *)

\* The exceptions the CPU pushes an error code for.
CpuPushesError == {8, 10, 11, 12, 13, 14, 17, 21, 30}

\* Fault: an exception that came with a later CPU has the wrong stub.
ErrStubs_No21 == {8} \cup 10..14 \cup {17, 30}

\* The vectors that have a make_exception_handler_err stub.
ErrStubs       == {8} \cup 10..14 \cup {17, 21, 30}

\* What the interrupted code has in its registers.
CodeRegs == [r \in Regs |-> Word(r, 0)]

\* frame->name: frame points to the word pushed last.
Field(name) ==
  LET i == CHOOSE j \in 1..Len(Layout) : Layout[j] = name
  IN  stack[Len(stack) + 1 - i]

-----------------------------------------------------------------------------
\* The kernel's own code, which may have set DF and moved the stack pointer.
Code ==
  /\ pc = "code"
  /\ code' \in [df : {0, 1}, misaligned : {0, 1}]
  /\ df' = code'.df
  /\ UNCHANGED <<pc, vec, regs, stack, outcome>>

\* Those of an error code that is always 0 (double fault, alignment check).
ZeroError == {8, 17}

\* The CPU aligns the stack pointer and pushes its part of the frame.
Interrupt ==
  /\ pc = "code"
  /\ \E v \in Vectors, e \in ErrorCodes \cup {0} :
       /\ v \in ZeroError => e = 0
       /\ vec' = v
       /\ stack' = (IF code.misaligned = 1 THEN <<Word("gap", 0)>> ELSE <<>>)
                     \o <<Word("ss", 0), Word("rsp", code.misaligned),
                          Word("rflags", df), Word("cs", 0), Word("rip", 0)>>
                     \o (IF v \in CpuPushesError THEN <<Word("error", e)>> ELSE <<>>)
  /\ pc' = "stub"
  /\ UNCHANGED <<regs, df, code, outcome>>

\* Fault: the IRQ stubs push in the exceptions' order.
Stub_OneOrder ==
  /\ pc = "stub"
  /\ stack' = stack \o
       (IF vec \in ErrStubs THEN <<Word("vector", vec)>>
        ELSE <<Word("error", 0), Word("vector", vec)>>)
  /\ pc' = "save"
  /\ UNCHANGED <<vec, regs, df, code, outcome>>

\* exception_handler<vec> and interrupt_handler<vec>.
Stub ==
  /\ pc = "stub"
  /\ stack' = stack \o
       (IF vec \notin Exceptions
        THEN <<Word("vector", vec), Word("error", 0)>>
        ELSE IF vec \in ErrStubs THEN <<Word("vector", vec)>>
        ELSE <<Word("error", 0), Word("vector", vec)>>)
  /\ pc' = "save"
  /\ UNCHANGED <<vec, regs, df, code, outcome>>

\* Fault: no cld.
Save_NoCld ==
  /\ pc = "save"
  /\ stack' = stack \o [i \in 1..15 |-> regs[PushOrder[i]]]
  /\ pc' = "handler"
  /\ UNCHANGED <<vec, regs, df, code, outcome>>

\* cld and pusha64.
Save ==
  /\ pc = "save"
  /\ df' = 0
  /\ stack' = stack \o [i \in 1..15 |-> regs[PushOrder[i]]]
  /\ pc' = "handler"
  /\ UNCHANGED <<vec, regs, code, outcome>>

\* The handler comes back, having used the registers it may.
HandlerReturns ==
  /\ regs' = [r \in Regs |-> IF r \in CallerSaved THEN Word("junk", 0) ELSE regs[r]]
  /\ pc' = "restore"

\* cpu_exception_handler: no exception has an entry in handlers, so that it
\* ends in kpanic or in a failed assertion.
CpuExceptionHandler ==
  /\ pc = "handler" /\ vec \in Exceptions
  /\ LET int_no == Field("int_no").val IN
       outcome' = IF int_no >= EXCEPTION_COUNT THEN "assert"
                  ELSE IF int_no \in AbortClass THEN "abort"
                  ELSE "no handler"
  /\ pc' = "halt"
  /\ UNCHANGED <<vec, regs, df, stack, code>>

\* irq_interrupt_handler: the keyboard's handler, or a report.
IrqInterruptHandler ==
  /\ pc = "handler" /\ vec \notin Exceptions
  /\ LET int_no == Field("int_no").val IN
       IF int_no \in EXCEPTION_COUNT..255
       THEN /\ outcome' = IF int_no = KeyboardVector THEN "keyboard" ELSE "report"
            /\ HandlerReturns
       ELSE outcome' = "assert" /\ pc' = "halt" /\ UNCHANGED regs
  /\ UNCHANGED <<vec, df, stack, code>>

\* Fault: add rsp, 8.
Restore_OneWord ==
  /\ pc = "restore"
  /\ regs' = CodeRegs
  /\ stack' = SubSeq(stack, 1, Len(stack) - 16)
  /\ pc' = "iretq"
  /\ UNCHANGED <<vec, df, code, outcome>>

\* popa64 and add rsp, 16.
Restore ==
  /\ pc = "restore"
  /\ regs' = [r \in Regs |->
                LET i == CHOOSE j \in 1..15 : PopOrder[j] = r
                IN  stack[Len(stack) + 1 - i]]
  /\ stack' = SubSeq(stack, 1, Len(stack) - 17)
  /\ pc' = "iretq"
  /\ UNCHANGED <<vec, df, code, outcome>>

\* iretq takes rip, cs, rflags, rsp and ss from the five words on top.
Iretq ==
  /\ pc = "iretq"
  /\ LET top == [i \in 1..5 |-> stack[Len(stack) + 1 - i]] IN
       /\ pc' = IF top[1].is = "rip" /\ top[2].is = "cs" /\ top[5].is = "ss"
                THEN "code" ELSE "lost"
       /\ df' = top[3].val
       /\ stack' = IF top[4] = Word("rsp", code.misaligned) THEN <<>> ELSE stack
  /\ UNCHANGED <<vec, regs, code, outcome>>

Halted == pc = "halt" /\ UNCHANGED vars

-----------------------------------------------------------------------------
Init ==
  /\ pc = "code" /\ vec = 0 /\ regs = CodeRegs /\ stack = <<>>
  /\ df = 0 /\ code = [df |-> 0, misaligned |-> 0]
  /\ outcome = "none"

Next ==
  \/ Code \/ Interrupt \/ Stub \/ Save \/ CpuExceptionHandler
  \/ IrqInterruptHandler \/ Restore \/ Iretq \/ Halted

Spec == Init /\ [][Next]_vars

-----------------------------------------------------------------------------
Words ==
  [is : Regs \cup {"gap", "ss", "rsp", "rflags", "cs", "rip", "error", "vector", "junk"},
   val : Nat]

TypeOK ==
  /\ pc \in {"code", "stub", "save", "handler", "restore", "iretq", "halt"}
  /\ vec \in 0..255
  /\ df \in {0, 1} /\ code \in [df : {0, 1}, misaligned : {0, 1}]
  /\ regs \in [Regs -> Words] /\ stack \in Seq(Words)
  /\ outcome \in {"none", "assert", "abort", "no handler", "keyboard", "report"}

\* Whatever the vector and whether the CPU pushed an error code, a handler
\* finds the interrupted registers and the CPU's frame in the fields of
\* struct interrupt_frame that bear their names.
FrameComplete ==
  pc = "handler" =>
    /\ \A r \in Regs : Field(r) = Word(r, 0)
    /\ \A f \in {"rip", "cs", "ss"} : Field(f) = Word(f, 0)
    /\ Field("rflags") = Word("rflags", code.df)
    /\ Field("rsp") = Word("rsp", code.misaligned)

\* The System V ABI at the call: the stack pointer is a multiple of 16, and DF
\* is clear.
CallKeepsAbi ==
  pc = "handler" => df = 0 /\ (code.misaligned + Len(stack)) % 2 = 0

\* The interrupted code goes on with its registers, flags and stack.
Resumed ==
  pc = "code" => regs = CodeRegs /\ df = code.df /\ stack = <<>>

\* The keyboard's handler runs for the keyboard's vector, and no IRQ fails an
\* assertion.
IrqDispatched ==
  pc \in {"restore", "halt"} =>
    /\ vec \notin Exceptions => outcome \in {"keyboard", "report"}
    /\ outcome = "keyboard" <=> vec = KeyboardVector

\* "Check if the interrupt is of type abort, if so, kernel panic then halt"
\* (interrupts.cpp): the exceptions of class abort, and they alone, panic so.
AbortsPanic == pc = "halt" => (outcome = "abort" <=> vec \in AbortClass)

=============================================================================
