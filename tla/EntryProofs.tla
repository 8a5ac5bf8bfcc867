---------------------------- MODULE EntryProofs ----------------------------
(***************************************************************************)
(* Proofs about InterruptEntry for every set of vectors that have a stub   *)
(* and every error code: what a handler is called with, and the return to  *)
(* the interrupted code.                                                   *)
(***************************************************************************)
EXTENDS InterruptEntry, SequenceTheorems, TLAPS

(* The word the CPU may push to align the stack. *)
Gap == code.misaligned

CpuFrame(s, c) ==
  /\ s[c.misaligned + 1] = Word("ss", 0)
  /\ s[c.misaligned + 2] = Word("rsp", c.misaligned)
  /\ s[c.misaligned + 3] = Word("rflags", c.df)
  /\ s[c.misaligned + 4] = Word("cs", 0)
  /\ s[c.misaligned + 5] = Word("rip", 0)

SavedRegs(s) == \A i \in 1..15 : s[Gap + 7 + i] = Word(PushOrder[i], 0)

Called == {"handler", "restore", "halt"}

Control ==
  /\ pc \in {"code", "stub", "save", "handler", "restore", "iretq", "halt"}
  /\ vec \in Exceptions \cup IrqStubs
  /\ outcome \in {"none", "assert", "abort", "no handler", "keyboard", "report"}

Flags == df \in {0, 1} /\ code \in [df : {0, 1}, misaligned : {0, 1}]

Data == regs \in [Regs -> Words] /\ stack \in Seq(Words)

Typed == Control /\ Flags /\ Data

(* How long the stack is at each point, and what is at which place of it.  *)
(* Only the stubs of the IRQs put the vector where the structure has it.   *)
StackInv ==
  /\ pc = "code" => stack = <<>>
  /\ pc = "stub" => Len(stack) = Gap + (IF vec \in CpuPushesError THEN 6 ELSE 5)
  /\ pc = "save" => Len(stack) = Gap + 7
  /\ pc \in Called => Len(stack) = Gap + 22 /\ SavedRegs(stack)
  /\ pc = "iretq" => Len(stack) = Gap + 5
  /\ pc # "code" => CpuFrame(stack, code)
  /\ pc \in {"save"} \cup Called /\ vec \notin Exceptions
       => stack[Gap + 6] = Word("vector", vec)

RegsInv ==
  /\ pc \in {"code", "stub", "save", "iretq"} => regs = CodeRegs
  /\ pc \in {"code", "stub", "save"} => df = code.df
  /\ pc = "handler" => df = 0

EntryInv == Typed /\ StackInv /\ RegsInv /\ IrqDispatched

-----------------------------------------------------------------------------
(* What stands where in s \o t. *)
LEMMA Pushed ==
  ASSUME NEW s \in Seq(Words), NEW t \in Seq(Words)
  PROVE  /\ s \o t \in Seq(Words)
         /\ Len(s \o t) = Len(s) + Len(t)
         /\ \A i \in 1..Len(s) : (s \o t)[i] = s[i]
         /\ \A i \in 1..Len(t) : (s \o t)[Len(s) + i] = t[i]
<1>1. s \o t \in Seq(Words) /\ Len(s \o t) = Len(s) + Len(t)
  OBVIOUS
<1>2. ASSUME NEW i \in 1..Len(s) PROVE (s \o t)[i] = s[i]
  OBVIOUS
<1>3. ASSUME NEW i \in 1..Len(t) PROVE (s \o t)[Len(s) + i] = t[i]
  OBVIOUS
<1> QED
  BY <1>1, <1>2, <1>3

(* What is left of s when all but n words are popped. *)
LEMMA Popped ==
  ASSUME NEW s \in Seq(Words), NEW n \in 0..Len(s)
  PROVE  /\ SubSeq(s, 1, n) \in Seq(Words)
         /\ Len(SubSeq(s, 1, n)) = n
         /\ \A i \in 1..n : SubSeq(s, 1, n)[i] = s[i]
<1>1. SubSeq(s, 1, n) \in Seq(Words) /\ Len(SubSeq(s, 1, n)) = n
  OBVIOUS
<1>2. ASSUME NEW i \in 1..n PROVE SubSeq(s, 1, n)[i] = s[i]
  OBVIOUS
<1> QED
  BY <1>1, <1>2

(* popa64 takes what pusha64 put, and struct registers has that order. *)
LEMMA Orders ==
  /\ \A i \in 1..15 : PopOrder[i] = PushOrder[16 - i]
  /\ \A i \in 1..15 : Layout[i] = PopOrder[i]
BY DEF PopOrder, PushOrder, Layout

LEMMA PopsAll == \A r \in Regs : \E i \in 1..15 : PopOrder[i] = r
<1> SUFFICES ASSUME NEW k \in 1..15
             PROVE  \E i \in 1..15 : PopOrder[i] = PushOrder[k]
  BY DEF Regs
<1>1. 16 - k \in 1..15 /\ 16 - (16 - k) = k
  OBVIOUS
<1> QED
  BY <1>1, Orders

LEMMA LayoutIs ==
  /\ Len(Layout) = 22 /\ Layout[17] = "int_no" /\ Layout[18] = "rip"
  /\ Layout[19] = "cs" /\ Layout[20] = "rflags" /\ Layout[21] = "rsp" /\ Layout[22] = "ss"
BY DEF Layout

LEMMA LayoutInjective == \A i, j \in 1..22 : Layout[i] = Layout[j] => i = j
BY DEF Layout

(* A field is the word its place in the structure says. *)
LEMMA FieldAt ==
  ASSUME NEW k \in 1..22
  PROVE  Field(Layout[k]) = stack[Len(stack) + 1 - k]
<1> DEFINE i == CHOOSE j \in 1..Len(Layout) : Layout[j] = Layout[k]
<1>1. i \in 1..22 /\ Layout[i] = Layout[k]
  <2>1. \E j \in 1..Len(Layout) : Layout[j] = Layout[k]
    BY LayoutIs
  <2> QED
    BY <2>1, LayoutIs
<1>2. i = k
  BY <1>1, LayoutInjective
<1> QED
  BY <1>2 DEF Field

LEMMA WordTyped ==
  /\ \A n \in Nat : \A w \in {"gap", "ss", "rsp", "rflags", "cs", "rip", "error", "vector", "junk"} :
       Word(w, n) \in Words
  /\ \A r \in Regs, n \in Nat : Word(r, n) \in Words
BY DEF Word, Words

LEMMA CodeRegsTyped == CodeRegs \in [Regs -> Words]
BY WordTyped DEF CodeRegs

-----------------------------------------------------------------------------
LEMMA Known ==
  ASSUME Typed
  PROVE  /\ Gap \in {0, 1} /\ code.misaligned = Gap /\ df \in {0, 1} /\ code.df \in {0, 1}
         /\ vec \in 0..254 /\ (vec \notin Exceptions => vec \in 32..254)
         /\ stack \in Seq(Words) /\ Len(stack) \in Nat
<1>1. Gap \in {0, 1} /\ code.misaligned = Gap /\ df \in {0, 1} /\ code.df \in {0, 1}
  BY DEF Typed, Flags, Gap
<1>2. vec \in 0..254 /\ (vec \notin Exceptions => vec \in 32..254)
  <2>1. vec \in Exceptions \cup IrqStubs
    BY DEF Typed, Control
  <2> QED
    BY <2>1 DEF Exceptions, EXCEPTION_COUNT, IrqStubs
<1>3. stack \in Seq(Words) /\ Len(stack) \in Nat
  BY DEF Typed, Data
<1> QED
  BY <1>1, <1>2, <1>3

LEMMA InitEntry == Init => EntryInv
<1> SUFFICES ASSUME Init PROVE EntryInv
  OBVIOUS
<1>1. Typed
  BY CodeRegsTyped DEF Init, Typed, Control, Flags, Data, Exceptions, EXCEPTION_COUNT
<1> QED
  BY <1>1 DEF Init, EntryInv, StackInv, RegsInv, IrqDispatched, Called

LEMMA CodeStep ==
  ASSUME EntryInv, Code
  PROVE  EntryInv'
<1>1. Typed'
  BY DEF EntryInv, Typed, Control, Flags, Data, Code
<1> QED
  BY <1>1 DEF Code, EntryInv, StackInv, RegsInv, IrqDispatched, Called

(* The CPU's frame lies above the word that aligns the stack. *)
LEMMA InterruptStep ==
  ASSUME EntryInv, Interrupt
  PROVE  EntryInv'
<1> USE DEF EntryInv
<1> PICK v \in Vectors, e \in ErrorCodes \cup {0} :
      /\ vec' = v
      /\ stack' = (IF code.misaligned = 1 THEN <<Word("gap", 0)>> ELSE <<>>)
                    \o <<Word("ss", 0), Word("rsp", code.misaligned),
                         Word("rflags", df), Word("cs", 0), Word("rip", 0)>>
                    \o (IF v \in CpuPushesError THEN <<Word("error", e)>> ELSE <<>>)
  BY DEF Interrupt
<1> DEFINE a == IF code.misaligned = 1 THEN <<Word("gap", 0)>> ELSE <<>>
           b == <<Word("ss", 0), Word("rsp", code.misaligned),
                  Word("rflags", df), Word("cs", 0), Word("rip", 0)>>
           c == IF v \in CpuPushesError THEN <<Word("error", e)>> ELSE <<>>
<1>1. /\ pc = "code" /\ pc' = "stub" /\ regs = CodeRegs /\ df = code.df
      /\ UNCHANGED <<regs, df, code, outcome>>
  BY DEF Interrupt, RegsInv
<1>2. Gap \in {0, 1} /\ code.misaligned = Gap /\ df \in {0, 1} /\ e \in Nat
  BY Known, EntryAssumption
<1>3. /\ Word("gap", 0) \in Words /\ Word("ss", 0) \in Words
      /\ Word("rsp", code.misaligned) \in Words /\ Word("rflags", df) \in Words
      /\ Word("cs", 0) \in Words /\ Word("rip", 0) \in Words /\ Word("error", e) \in Words
  BY <1>2, WordTyped
<1>4. a \in Seq(Words) /\ Len(a) = Gap
  BY <1>2, <1>3 DEF Gap
<1>5. /\ b \in Seq(Words) /\ Len(b) = 5
      /\ b[1] = Word("ss", 0) /\ b[2] = Word("rsp", code.misaligned)
      /\ b[3] = Word("rflags", df) /\ b[4] = Word("cs", 0) /\ b[5] = Word("rip", 0)
  BY <1>3
<1>6. c \in Seq(Words) /\ Len(c) = IF v \in CpuPushesError THEN 1 ELSE 0
  BY <1>3
<1>7. stack' = (a \o b) \o c
  OBVIOUS
<1> HIDE DEF a, b, c
<1>8. /\ a \o b \in Seq(Words) /\ Len(a \o b) = Gap + 5
      /\ \A i \in 1..5 : (a \o b)[Gap + i] = b[i]
  <2>1. /\ a \o b \in Seq(Words) /\ Len(a \o b) = Len(a) + Len(b)
        /\ \A i \in 1..Len(b) : (a \o b)[Len(a) + i] = b[i]
    <3>1. a \in Seq(Words) /\ b \in Seq(Words)
      BY <1>4, <1>5
    <3> QED
      BY <3>1, Pushed
  <2> QED
    BY <2>1, <1>4, <1>5
<1>9. /\ stack' \in Seq(Words)
      /\ Len(stack') = Gap + 5 + Len(c)
      /\ \A i \in 1..5 : stack'[Gap + i] = b[i]
  <2> DEFINE d == a \o b
  <2>1. d \in Seq(Words)
    BY <1>8
  <2> HIDE DEF d
  <2>2. /\ d \o c \in Seq(Words) /\ Len(d \o c) = Len(d) + Len(c)
        /\ \A i \in 1..Len(d) : (d \o c)[i] = d[i]
    <3>1. c \in Seq(Words)
      BY <1>6
    <3> QED
      BY <2>1, <3>1, Pushed
  <2>3. /\ stack' = d \o c /\ Len(d) = Gap + 5
        /\ \A i \in 1..5 : d[Gap + i] = b[i]
    BY <1>7, <1>8 DEF d
  <2>4. \A i \in 1..5 : Gap + i \in 1..(Gap + 5)
    BY <1>2
  <2> QED
    BY <2>2, <2>3, <2>4
<1>10. Typed'
  BY <1>1, <1>9, EntryAssumption DEF Typed, Control, Flags, Data
<1>11. CpuFrame(stack', code)
  <2>1. code.misaligned = Gap /\ df = code.df
    BY <1>1, <1>2
  <2>2. /\ stack'[Gap + 1] = b[1] /\ stack'[Gap + 2] = b[2] /\ stack'[Gap + 3] = b[3]
        /\ stack'[Gap + 4] = b[4] /\ stack'[Gap + 5] = b[5]
    <3>1. ASSUME NEW i \in 1..5 PROVE stack'[Gap + i] = b[i]
      BY <1>9
    <3>2. 1 \in 1..5 /\ 2 \in 1..5 /\ 3 \in 1..5 /\ 4 \in 1..5 /\ 5 \in 1..5
      OBVIOUS
    <3> QED
      BY <3>1, <3>2, Zenon
  <2> QED
    BY <2>1, <2>2, <1>5 DEF CpuFrame
<1>12. Len(stack') = Gap + (IF vec' \in CpuPushesError THEN 6 ELSE 5)
  BY <1>2, <1>6, <1>9 DEF Gap
<1>13. StackInv'
  BY <1>1, <1>11, <1>12 DEF StackInv, Called, Gap, CpuFrame
<1> QED
  BY <1>1, <1>10, <1>13 DEF RegsInv, IrqDispatched

(* Pushing disturbs nothing of the frame. *)
LEMMA FrameStays ==
  ASSUME Typed, CpuFrame(stack, code), Len(stack) >= Gap + 5, NEW t \in Seq(Words)
  PROVE  CpuFrame(stack \o t, code)
<1>1. Gap \in {0, 1} /\ code.misaligned = Gap /\ stack \in Seq(Words) /\ Len(stack) \in Nat
  BY Known
<1>2. \A i \in 1..Len(stack) : (stack \o t)[i] = stack[i]
  BY <1>1, Pushed
<1>3. \A i \in 1..5 : Gap + i \in 1..Len(stack)
  BY <1>1
<1>4. \A i \in 1..5 : (stack \o t)[Gap + i] = stack[Gap + i]
  BY <1>2, <1>3
<1> QED
  BY <1>1, <1>4 DEF CpuFrame

(* Whatever the CPU pushed, a stub leaves two words between its frame and  *)
(* the registers.                                                          *)
LEMMA StubStep ==
  ASSUME EntryInv, Stub
  PROVE  EntryInv'
<1> USE DEF EntryInv
<1> DEFINE t == IF vec \notin Exceptions THEN <<Word("vector", vec), Word("error", 0)>>
                ELSE IF vec \in ErrStubs THEN <<Word("vector", vec)>>
                ELSE <<Word("error", 0), Word("vector", vec)>>
<1>1. /\ pc = "stub" /\ pc' = "save" /\ stack' = stack \o t
      /\ UNCHANGED <<vec, regs, df, code, outcome>>
  BY DEF Stub
<1>2. Gap \in {0, 1} /\ vec \in Nat
  <2>1. Gap \in {0, 1} /\ vec \in 0..254
    BY Known
  <2> QED
    BY <2>1
<1>3. Word("vector", vec) \in Words /\ Word("error", 0) \in Words
  BY <1>2, WordTyped
<1>4. /\ t \in Seq(Words)
      /\ Len(t) = IF vec \in Exceptions /\ vec \in ErrStubs THEN 1 ELSE 2
      /\ vec \notin Exceptions => t[1] = Word("vector", vec)
  BY <1>3
<1>5. /\ ErrStubs = CpuPushesError
      /\ vec \notin Exceptions => vec \notin CpuPushesError
  BY DEF ErrStubs, CpuPushesError, Exceptions, EXCEPTION_COUNT
<1>6. Len(stack) = Gap + (IF vec \in CpuPushesError THEN 6 ELSE 5) /\ CpuFrame(stack, code)
  BY <1>1 DEF StackInv
<1> HIDE DEF t
<1>7. Len(stack') = Gap + 7 /\ stack' \in Seq(Words)
  <2>1. stack' \in Seq(Words) /\ Len(stack') = Len(stack) + Len(t)
    BY <1>1, <1>4, Known, Pushed
  <2> QED
    BY <2>1, <1>2, <1>4, <1>5, <1>6
<1>8. CpuFrame(stack', code)
  BY <1>1, <1>2, <1>4, <1>6, FrameStays
<1>9. vec \notin Exceptions => stack'[Gap + 6] = Word("vector", vec)
  <2> SUFFICES ASSUME vec \notin Exceptions PROVE stack'[Gap + 6] = Word("vector", vec)
    OBVIOUS
  <2>1. Len(stack) = Gap + 5 /\ Len(t) = 2
    BY <1>4, <1>5, <1>6
  <2>2. stack'[Len(stack) + 1] = t[1]
    <3>1. \A i \in 1..Len(t) : (stack \o t)[Len(stack) + i] = t[i]
      BY <1>4, Known, Pushed
    <3>2. stack' = stack \o t
      BY <1>1
    <3>3. 1 \in 1..Len(t)
      BY <2>1
    <3> QED
      BY <3>1, <3>2, <3>3
  <2> QED
    BY <2>1, <2>2, <1>2, <1>4
<1>10. StackInv'
  BY <1>1, <1>7, <1>8, <1>9 DEF StackInv, Called, Gap, CpuFrame
<1> QED
  BY <1>1, <1>7, <1>10 DEF Typed, Control, Flags, Data, RegsInv, IrqDispatched

LEMMA SaveStep ==
  ASSUME EntryInv, Save
  PROVE  EntryInv'
<1> USE DEF EntryInv
<1> DEFINE t == [i \in 1..15 |-> regs[PushOrder[i]]]
<1>1. /\ pc = "save" /\ pc' = "handler" /\ stack' = stack \o t /\ df' = 0
      /\ UNCHANGED <<vec, regs, code, outcome>>
  BY DEF Save
<1>2. Gap \in {0, 1} /\ Len(stack) = Gap + 7 /\ CpuFrame(stack, code)
  BY <1>1, Known DEF StackInv
<1>3. \A i \in 1..15 : t[i] = Word(PushOrder[i], 0) /\ t[i] \in Words
  <2>1. \A i \in 1..15 : PushOrder[i] \in Regs
    BY DEF Regs
  <2> QED
    <3>1. regs = CodeRegs
      BY <1>1 DEF RegsInv
    <3>2. \A r \in Regs : CodeRegs[r] = Word(r, 0) /\ Word(r, 0) \in Words
      BY WordTyped DEF CodeRegs
    <3> QED
      BY <2>1, <3>1, <3>2
<1>4. t \in Seq(Words) /\ Len(t) = 15
  BY <1>3
<1> HIDE DEF t
<1>5. /\ stack \o t \in Seq(Words) /\ Len(stack \o t) = Len(stack) + Len(t)
      /\ \A i \in 1..Len(stack) : (stack \o t)[i] = stack[i]
      /\ \A i \in 1..Len(t) : (stack \o t)[Len(stack) + i] = t[i]
  <2>1. stack \in Seq(Words) /\ t \in Seq(Words)
    BY <1>4, Known
  <2> QED
    BY <2>1, Pushed
<1>6. /\ stack' \in Seq(Words) /\ Len(stack') = Gap + 22
      /\ \A i \in 1..15 : stack'[Gap + 7 + i] = Word(PushOrder[i], 0)
  <2>1. stack' = stack \o t
    BY <1>1
  <2>2. Len(stack) + Len(t) = Gap + 22
    BY <1>2, <1>4
  <2>3. ASSUME NEW i \in 1..15 PROVE stack'[Gap + 7 + i] = t[i]
    BY <2>1, <1>2, <1>4, <1>5
  <2> QED
    BY <2>1, <2>2, <2>3, <1>3, <1>5
<1>7. CpuFrame(stack', code)
  BY <1>1, <1>2, <1>4, FrameStays
<1>8. stack'[Gap + 6] = stack[Gap + 6]
  <2>1. Gap + 6 \in 1..Len(stack)
    BY <1>2
  <2> QED
    BY <1>1, <1>5, <2>1
<1>9. StackInv'
  BY <1>1, <1>6, <1>7, <1>8 DEF StackInv, Called, Gap, CpuFrame, SavedRegs
<1> QED
  BY <1>1, <1>6, <1>9 DEF Typed, Control, Flags, Data, RegsInv, IrqDispatched

LEMMA ExceptionStep ==
  ASSUME EntryInv, CpuExceptionHandler
  PROVE  EntryInv'
<1>1. /\ pc = "handler" /\ pc' = "halt" /\ vec \in Exceptions
      /\ outcome' \in {"assert", "abort", "no handler"}
      /\ UNCHANGED <<vec, regs, df, stack, code>>
  BY DEF CpuExceptionHandler
<1>2. vec # KeyboardVector
  <2>1. vec \in Exceptions
    BY <1>1
  <2> QED
    BY <2>1 DEF Exceptions, EXCEPTION_COUNT, KeyboardVector
<1> QED
  BY <1>1, <1>2 DEF EntryInv, Typed, Control, Flags, Data, StackInv, RegsInv, IrqDispatched, Called, Gap,
                    CpuFrame, SavedRegs

(* frame->int_no of an IRQ. *)
LEMMA IntNo ==
  ASSUME EntryInv, pc = "handler", vec \notin Exceptions
  PROVE  Field("int_no") = Word("vector", vec)
<1>1. Len(stack) = Gap + 22 /\ stack[Gap + 6] = Word("vector", vec) /\ Gap \in {0, 1}
  BY Known DEF EntryInv, StackInv, Called
<1>2. Field("int_no") = stack[Len(stack) + 1 - 17]
  BY FieldAt, LayoutIs
<1> QED
  BY <1>1, <1>2

LEMMA IrqStep ==
  ASSUME EntryInv, IrqInterruptHandler
  PROVE  EntryInv'
<1> USE DEF EntryInv
<1>1. pc = "handler" /\ vec \notin Exceptions /\ UNCHANGED <<vec, df, stack, code>>
  BY DEF IrqInterruptHandler
<1>2. Field("int_no").val = vec
  BY <1>1, IntNo DEF Word
<1>3. vec \in EXCEPTION_COUNT..255
  BY <1>1, Known DEF EXCEPTION_COUNT
<1>4. /\ outcome' = IF vec = KeyboardVector THEN "keyboard" ELSE "report"
      /\ HandlerReturns
  BY <1>2, <1>3 DEF IrqInterruptHandler
<1>5. regs' \in [Regs -> Words]
  BY <1>4, WordTyped DEF HandlerReturns, Typed, Data
<1> QED
  BY <1>1, <1>4, <1>5 DEF HandlerReturns, Typed, Control, Flags, Data, StackInv, RegsInv, IrqDispatched,
                          Called, Gap, CpuFrame, SavedRegs

(* popa64 gives each register what it had. *)
LEMMA RestoreStep ==
  ASSUME EntryInv, Restore
  PROVE  EntryInv'
<1> USE DEF EntryInv
<1>1. /\ pc = "restore" /\ pc' = "iretq" /\ UNCHANGED <<vec, df, code, outcome>>
      /\ stack' = SubSeq(stack, 1, Len(stack) - 17)
  BY DEF Restore
<1>2. /\ Gap \in {0, 1} /\ Len(stack) = Gap + 22 /\ stack \in Seq(Words)
      /\ SavedRegs(stack) /\ CpuFrame(stack, code)
  BY <1>1, Known DEF StackInv, Called
<1>3. regs' = CodeRegs
  <2> DEFINE place(r) == CHOOSE j \in 1..15 : PopOrder[j] = r
             w(r) == stack[Len(stack) + 1 - place(r)]
  <2>1. ASSUME NEW r \in Regs PROVE w(r) = Word(r, 0)
    <3> DEFINE i == place(r)
    <3>1. i \in 1..15 /\ PopOrder[i] = r
      BY PopsAll
    <3> HIDE DEF i
    <3>2. 16 - i \in 1..15 /\ PushOrder[16 - i] = r
      BY <3>1, Orders
    <3>3. Len(stack) + 1 - i = Gap + 7 + (16 - i)
      BY <1>2, <3>1
    <3>4. stack[Len(stack) + 1 - i] = Word(r, 0)
      BY <1>2, <3>2, <3>3 DEF SavedRegs
    <3> QED
      BY <3>4 DEF i
  <2>2. regs' = [r \in Regs |-> w(r)]
    BY DEF Restore
  <2> HIDE DEF w
  <2> QED
    BY <2>1, <2>2 DEF CodeRegs
<1>4. /\ stack' \in Seq(Words) /\ Len(stack') = Gap + 5
      /\ \A k \in 1..5 : stack'[Gap + k] = stack[Gap + k]
  <2>1. Gap + 5 \in 0..Len(stack) /\ stack' = SubSeq(stack, 1, Gap + 5)
    <3>1. Len(stack) - 17 = Gap + 5
      BY <1>2
    <3> QED
      BY <1>1, <1>2, <3>1
  <2>2. /\ stack' \in Seq(Words) /\ Len(stack') = Gap + 5
        /\ \A k \in 1..(Gap + 5) : stack'[k] = stack[k]
    BY <1>2, <2>1, Popped
  <2>3. \A k \in 1..5 : Gap + k \in 1..(Gap + 5)
    BY <1>2
  <2> QED
    BY <2>2, <2>3
<1>5. CpuFrame(stack', code)
  <2>1. code.misaligned = Gap
    BY DEF Gap
  <2>2. /\ stack'[Gap + 1] = stack[Gap + 1] /\ stack'[Gap + 2] = stack[Gap + 2]
        /\ stack'[Gap + 3] = stack[Gap + 3] /\ stack'[Gap + 4] = stack[Gap + 4]
        /\ stack'[Gap + 5] = stack[Gap + 5]
    BY <1>4
  <2> QED
    BY <2>1, <2>2, <1>2 DEF CpuFrame
<1>6. StackInv'
  BY <1>1, <1>4, <1>5 DEF StackInv, Called, Gap, CpuFrame
<1> QED
  BY <1>1, <1>3, <1>4, <1>6, CodeRegsTyped DEF Typed, Control, Flags, Data, RegsInv, IrqDispatched

LEMMA IretqStep ==
  ASSUME EntryInv, Iretq
  PROVE  EntryInv'
<1> USE DEF EntryInv
<1> DEFINE top == [i \in 1..5 |-> stack[Len(stack) + 1 - i]]
<1>1. /\ pc = "iretq" /\ UNCHANGED <<vec, regs, code, outcome>>
      /\ pc' = IF top[1].is = "rip" /\ top[2].is = "cs" /\ top[5].is = "ss"
               THEN "code" ELSE "lost"
      /\ df' = top[3].val
      /\ stack' = IF top[4] = Word("rsp", code.misaligned) THEN <<>> ELSE stack
  BY DEF Iretq
<1>2. Gap \in {0, 1} /\ Len(stack) = Gap + 5 /\ CpuFrame(stack, code) /\ regs = CodeRegs
  BY <1>1, Known DEF StackInv, RegsInv
<1>3. /\ top[1] = stack[Gap + 5] /\ top[2] = stack[Gap + 4] /\ top[3] = stack[Gap + 3]
      /\ top[4] = stack[Gap + 2] /\ top[5] = stack[Gap + 1]
  BY <1>2
<1>4. /\ top[1] = Word("rip", 0) /\ top[2] = Word("cs", 0) /\ top[3] = Word("rflags", code.df)
      /\ top[4] = Word("rsp", code.misaligned) /\ top[5] = Word("ss", 0)
  BY <1>2, <1>3 DEF CpuFrame, Gap
<1> HIDE DEF top
<1>5. pc' = "code" /\ df' = code.df /\ stack' = <<>>
  BY <1>1, <1>4 DEF Word
<1>6. Typed'
  <2>1. code.df \in {0, 1} /\ stack' \in Seq(Words)
    BY <1>5, Known
  <2> QED
    BY <1>1, <1>5, <2>1 DEF Typed, Control, Flags, Data
<1> QED
  BY <1>1, <1>2, <1>5, <1>6 DEF StackInv, RegsInv, IrqDispatched, Called

(* The invariant holds at each step of each run. *)
LEMMA NextEntry == EntryInv /\ [Next]_vars => EntryInv'
<1> SUFFICES ASSUME EntryInv, [Next]_vars PROVE EntryInv'
  OBVIOUS
<1>1. CASE UNCHANGED vars
  <2>1. UNCHANGED <<pc, vec, regs, df, stack, code, outcome>>
    BY <1>1 DEF vars
  <2>2. Typed'
    BY <2>1 DEF EntryInv, Typed, Control, Flags, Data
  <2>3. StackInv'
    BY <2>1 DEF EntryInv, StackInv, Called, Gap, CpuFrame, SavedRegs
  <2>4. RegsInv' /\ IrqDispatched'
    BY <2>1 DEF EntryInv, RegsInv, IrqDispatched
  <2> QED
    BY <2>2, <2>3, <2>4 DEF EntryInv
<1>2. CASE Halted
  BY <1>1, <1>2 DEF Halted
<1> QED
  BY <1>1, <1>2, CodeStep, InterruptStep, StubStep, SaveStep, ExceptionStep, IrqStep,
     RestoreStep, IretqStep DEF Next

THEOREM EntryInvariant == Spec => []EntryInv
BY InitEntry, NextEntry, PTL DEF Spec

-----------------------------------------------------------------------------
(* Each variable has its type: the stack holds words, and no return goes   *)
(* to somewhere else ("lost").                                             *)
THEOREM TypeCorrect == Spec => []TypeOK
<1>1. ASSUME EntryInv PROVE TypeOK
  <2>1. vec \in 0..255
    <3>1. vec \in 0..254
      BY <1>1, Known DEF EntryInv
    <3> QED
      BY <3>1
  <2>2. Control /\ Flags /\ Data
    BY <1>1 DEF EntryInv, Typed
  <2> QED
    BY <2>1, <2>2 DEF Control, Flags, Data, TypeOK
<1> QED
  BY <1>1, EntryInvariant, PTL

(* For each vector with a stub, a handler finds the interrupted registers  *)
(* and the CPU's frame under their names in struct interrupt_frame.        *)
THEOREM Frames == Spec => []FrameComplete
<1>1. ASSUME EntryInv, pc = "handler"
      PROVE  /\ \A r \in Regs : Field(r) = Word(r, 0)
             /\ \A f \in {"rip", "cs", "ss"} : Field(f) = Word(f, 0)
             /\ Field("rflags") = Word("rflags", code.df)
             /\ Field("rsp") = Word("rsp", code.misaligned)
  <2>1. /\ Gap \in {0, 1} /\ code.misaligned = Gap /\ Len(stack) = Gap + 22
        /\ CpuFrame(stack, code) /\ SavedRegs(stack)
    BY <1>1, Known DEF EntryInv, StackInv, Called
  <2>2. ASSUME NEW r \in Regs PROVE Field(r) = Word(r, 0)
    <3> PICK i \in 1..15 : PopOrder[i] = r
      BY PopsAll
    <3>1. i \in 1..22 /\ Layout[i] = r
      BY Orders
    <3>2. Field(r) = stack[Len(stack) + 1 - i]
      BY <3>1, FieldAt
    <3>3. 16 - i \in 1..15 /\ PushOrder[16 - i] = r
      BY Orders
    <3>4. Len(stack) + 1 - i = Gap + 7 + (16 - i)
      BY <2>1
    <3> QED
      BY <2>1, <3>2, <3>3, <3>4 DEF SavedRegs
  <2>3. /\ Field("rip") = stack[Gap + 5] /\ Field("cs") = stack[Gap + 4]
        /\ Field("rflags") = stack[Gap + 3] /\ Field("rsp") = stack[Gap + 2]
        /\ Field("ss") = stack[Gap + 1]
    <3>1. /\ Field("rip") = stack[Len(stack) + 1 - 18] /\ Field("cs") = stack[Len(stack) + 1 - 19]
          /\ Field("rflags") = stack[Len(stack) + 1 - 20]
          /\ Field("rsp") = stack[Len(stack) + 1 - 21] /\ Field("ss") = stack[Len(stack) + 1 - 22]
      <4>1. 18 \in 1..22 /\ 19 \in 1..22 /\ 20 \in 1..22 /\ 21 \in 1..22 /\ 22 \in 1..22
        OBVIOUS
      <4> QED
        BY <4>1, FieldAt, LayoutIs
    <3> QED
      BY <2>1, <3>1
  <2> QED
    BY <2>1, <2>2, <2>3 DEF CpuFrame
<1> QED
  BY <1>1, EntryInvariant, PTL DEF FrameComplete

(* At the call of a handler the stack pointer is a multiple of 16, whatever *)
(* it was in the interrupted code, and the direction flag is clear.        *)
THEOREM CallsKeepAbi == Spec => []CallKeepsAbi
<1>1. ASSUME EntryInv, pc = "handler"
      PROVE  df = 0 /\ (code.misaligned + Len(stack)) % 2 = 0
  <2>1. df = 0
    BY <1>1 DEF EntryInv, RegsInv
  <2>2. Gap \in {0, 1} /\ code.misaligned = Gap /\ Len(stack) = Gap + 22
    BY <1>1, Known DEF EntryInv, StackInv, Called
  <2> QED
    BY <2>1, <2>2
<1> QED
  BY <1>1, EntryInvariant, PTL DEF CallKeepsAbi

(* The interrupted code goes on with its registers, flags and stack.       *)
THEOREM Resumes == Spec => []Resumed
<1>1. ASSUME EntryInv PROVE Resumed
  BY <1>1 DEF EntryInv, StackInv, RegsInv, Resumed
<1> QED
  BY <1>1, EntryInvariant, PTL

(* The vector of an IRQ reaches its handler, and no assertion fails there. *)
THEOREM Dispatches == Spec => []IrqDispatched
<1>1. EntryInv => IrqDispatched
  BY DEF EntryInv
<1> QED
  BY <1>1, EntryInvariant, PTL
=============================================================================
