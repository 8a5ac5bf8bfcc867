----------------------------- MODULE LogProofs -----------------------------
(***************************************************************************)
(* Proofs about Log for every MaxText: type correctness, the bound on the  *)
(* UART's FIFO, the routing of a panic's report, what the flag says, and   *)
(* the only two cases in which another message goes astray.                *)
(***************************************************************************)
EXTENDS Log, TLAPS

Sites == MainSites \cup IrqSites \cup ExcSites

(* A context that is not writing is at a call, and one that is writing has *)
(* characters left, and bytes of the current one on the serial side.       *)
Progress(k) ==
  /\ site[k] \notin DSites \cup KSites => pc[k] = "call"
  /\ pc[k] = "term" => left[k] > 0
  /\ pc[k] \in {"poll", "out"} => left[k] > 0 /\ tx[k] > 0

(* Interrupts come only once _start enabled them. *)
IrqAfterSti == site["irq"] # "none" => site["main"] \in {"enabled", "spin"}

CallInv == TypeOK /\ IrqAfterSti /\ \A k \in Contexts : Progress(k)

(* The control graph keeps each context in its own call sites, and a panic *)
(* prints its banner just after a d function.                              *)
LEMMA SuccSites ==
  /\ \A s \in MainSites : Succ[s] \subseteq MainSites
  /\ \A s \in IrqSites : Succ[s] \subseteq IrqSites
  /\ \A s \in ExcSites : Succ[s] \subseteq ExcSites
  /\ \A s \in Sites : "panic" \in Succ[s] => s \in DSites
  /\ \A s \in {"enabled", "spin"} : Succ[s] = {"spin"}
  /\ \A s \in IrqSites : Succ[s] = {"iret"}
  /\ \A s \in {"lidt", "sti"} : Succ[s] \subseteq DSites
BY DEF Succ, MainSites, IrqSites, ExcSites, DSites, Sites

THEOREM CallInvariant == Spec => []CallInv
<1> USE LogAssumption DEF LogAssumption, CallInv, TypeOK, IrqAfterSti, Progress, Contexts
<1>1. Init => CallInv
  <2> SUFFICES ASSUME Init PROVE CallInv
    OBVIOUS
  <2>1. TypeOK
    <3>1. site \in [Contexts -> MainSites \cup IrqSites \cup ExcSites \cup {"none"}]
      BY DEF Init, MainSites
    <3>2. /\ site["main"] \in MainSites
          /\ site["irq"] \in IrqSites \cup {"none"}
          /\ site["exc"] \in ExcSites \cup {"none"}
      BY DEF Init, MainSites
    <3>3. pc \in [Contexts -> {"call", "loop", "term", "poll", "out"}]
      BY DEF Init
    <3>4. left \in [Contexts -> 0..MaxText]
      BY DEF Init
    <3>5. tx \in [Contexts -> 0..2]
      BY DEF Init
    <3>6. reported \in BOOLEAN
      BY DEF Init
    <3> QED
      BY <3>1, <3>2, <3>3, <3>4, <3>5, <3>6 DEF Init
  <2>2. IrqAfterSti
    BY DEF Init
  <2>3. ASSUME NEW k \in Contexts PROVE Progress(k)
    BY DEF Init
  <2> QED
    BY <2>1, <2>2, <2>3
<1>2. CallInv /\ [Next]_vars => CallInv'
  <2> SUFFICES ASSUME CallInv, [Next]_vars
               PROVE  CallInv'
    OBVIOUS
  <2> USE DEF Running, Above, Goto
  <2>1. ASSUME NEW k \in Contexts, CallD(k) PROVE CallInv'
    BY <2>1 DEF CallD, DSites, KSites
  <2>2. ASSUME NEW k \in Contexts, CallK(k) PROVE CallInv'
    BY <2>2 DEF CallK, DSites, KSites
  <2>3. ASSUME NEW k \in Contexts, CallKputc(k) PROVE CallInv'
    BY <2>3 DEF CallKputc, DSites, KSites
  <2>4. ASSUME NEW k \in Contexts, Putchar(k) PROVE CallInv'
    BY <2>4 DEF Putchar
  <2>5. ASSUME NEW k \in Contexts, TermWrite(k) PROVE CallInv'
    BY <2>5 DEF TermWrite
  <2>6. ASSUME NEW k \in Contexts, Poll(k) PROVE CallInv'
    BY <2>6 DEF Poll
  <2>7. ASSUME NEW k \in Contexts, Outb(k) PROVE CallInv'
    BY <2>7 DEF Outb
  <2>8. ASSUME NEW k \in Contexts, Return(k) PROVE CallInv'
    <3> USE <2>8 DEF Return
    <3>1. PICK s \in Succ[site[k]] : site' = [site EXCEPT ![k] = s]
      OBVIOUS
    <3>2. /\ k = "main" => s \in MainSites
          /\ k = "irq" => s \in IrqSites
          /\ k = "exc" => s \in ExcSites
      BY SuccSites
    <3>3. TypeOK'
      BY <3>1, <3>2
    <3>4. IrqAfterSti'
      BY <3>1, SuccSites
    <3>5. ASSUME NEW j \in Contexts PROVE Progress(j)'
      BY <3>1
    <3> QED
      BY <3>3, <3>4, <3>5
  <2>9. CASE Instruction
    BY <2>9, SuccSites DEF Instruction, Sites
  <2>10. CASE EnterIrq
    <3>1. PICK s \in IrqSites : site' = [site EXCEPT !["irq"] = s]
      BY <2>10, Zenon DEF EnterIrq, IrqSites
    <3>2. /\ site["main"] \in {"enabled", "spin"} /\ site["irq"] = "none"
          /\ UNCHANGED <<use_serial, pc, left, tx, fifo, reported>>
      BY <2>10 DEF EnterIrq, InterruptsEnabled
    <3>3. pc["irq"] = "call"
      BY <3>2 DEF DSites, KSites
    <3> QED
      BY <3>1, <3>2, <3>3
  <2>11. CASE Iret
    BY <2>11 DEF Iret, DSites, KSites
  <2>12. CASE EnterExc
    BY <2>12 DEF EnterExc, ExcSites, DSites, KSites
  <2>13. CASE Transmit
    BY <2>13 DEF Transmit
  <2>14. CASE UNCHANGED vars
    BY <2>14 DEF vars
  <2>15. ASSUME NEW k \in Contexts, Idle(k) PROVE CallInv'
    BY <2>14, <2>15 DEF Idle
  <2> HIDE DEF CallInv, Contexts
  <2> QED
    BY <2>1, <2>2, <2>3, <2>4, <2>5, <2>6, <2>7, <2>8, <2>9, <2>10, <2>11,
       <2>12, <2>13, <2>14, <2>15 DEF Next, Step
<1>3. QED
  BY <1>1, <1>2, PTL DEF Spec

THEOREM TypeCorrect == Spec => []TypeOK
BY CallInvariant, PTL DEF CallInv
-----------------------------------------------------------------------------
(* serial::send tests the FIFO and writes the data register in two steps.  *)
(* A context that is between them found the FIFO empty; since then only a  *)
(* context above it sent, and only one of those is itself between them.    *)
SendInv ==
  /\ fifo <= 2
  /\ pc["main"] = "out" => fifo <= 1
  /\ pc["irq"] = "out" /\ site["exc"] = "none" => fifo = 0
  /\ pc["exc"] = "out" => fifo = 0

(* TxBounded: whoever interrupts serial::send, the UART's FIFO never holds *)
(* more than two bytes.                                                    *)
THEOREM FifoBound == Spec => []TxBounded
<1> USE DEF SendInv, CallInv, TypeOK, Contexts, Goto
<1>1. Init => SendInv
  BY DEF Init
<1>2. CallInv /\ SendInv /\ [Next]_vars => SendInv'
  <2> SUFFICES ASSUME CallInv, SendInv, [Next]_vars
               PROVE  SendInv'
    OBVIOUS
  <2>a. \A k \in Contexts : site[k] = "none" => pc[k] = "call"
    BY DEF Progress, DSites, KSites
  <2>1. ASSUME NEW k \in Contexts, CallD(k) PROVE SendInv'
    BY <2>1 DEF CallD
  <2>2. ASSUME NEW k \in Contexts, CallK(k) PROVE SendInv'
    BY <2>2 DEF CallK
  <2>3. ASSUME NEW k \in Contexts, CallKputc(k) PROVE SendInv'
    BY <2>3 DEF CallKputc
  <2>4. ASSUME NEW k \in Contexts, Putchar(k) PROVE SendInv'
    BY <2>4 DEF Putchar
  <2>5. ASSUME NEW k \in Contexts, TermWrite(k) PROVE SendInv'
    BY <2>5 DEF TermWrite
  <2>6. ASSUME NEW k \in Contexts, Poll(k) PROVE SendInv'
    BY <2>6 DEF Poll
  <2>7. ASSUME NEW k \in Contexts, Outb(k) PROVE SendInv'
    <3>1. \A j \in Above[k] : pc[j] = "call"
      BY <2>7, <2>a DEF Outb, Running, Above
    <3>2. fifo' = fifo + 1 /\ pc[k] = "out" /\ UNCHANGED site
      BY <2>7 DEF Outb
    <3>3. \E p \in {"poll", "loop"} : pc' = [pc EXCEPT ![k] = p]
      BY <2>7 DEF Outb
    <3>4. k = "irq" => site["exc"] = "none"
      BY <2>7 DEF Outb, Running, Above
    <3>5. CASE k = "main"
      BY <3>1, <3>2, <3>3, <3>5 DEF Above
    <3>6. CASE k = "irq"
      <4>1. fifo = 0
        BY <3>2, <3>4, <3>6
      <4>2. pc["exc"] = "call" /\ pc'["exc"] = "call" /\ pc'["irq"] # "out"
        BY <3>1, <3>3, <3>6 DEF Above
      <4> QED
        BY <3>2, <3>3, <3>6, <4>1, <4>2
    <3>7. CASE k = "exc"
      BY <3>2, <3>3, <3>7, <2>7 DEF Outb, Running
    <3> QED
      BY <3>5, <3>6, <3>7
  <2>8. ASSUME NEW k \in Contexts, Return(k) PROVE SendInv'
    <3>1. PICK s \in Succ[site[k]] : site' = [site EXCEPT ![k] = s]
      BY <2>8 DEF Return
    <3>2. k = "exc" => s # "none"
      BY <2>8, SuccSites DEF Return, Running, ExcSites
    <3> QED
      BY <2>8, <3>1, <3>2 DEF Return
  <2>9. CASE Instruction
    BY <2>9 DEF Instruction
  <2>10. CASE EnterIrq
    BY <2>10 DEF EnterIrq
  <2>11. CASE Iret
    BY <2>11 DEF Iret
  <2>12. CASE EnterExc
    BY <2>12 DEF EnterExc
  <2>13. CASE Transmit
    BY <2>13 DEF Transmit
  <2>14. CASE UNCHANGED vars
    BY <2>14 DEF vars
  <2>15. ASSUME NEW k \in Contexts, Idle(k) PROVE SendInv'
    BY <2>14, <2>15 DEF Idle
  <2> HIDE DEF SendInv, Contexts
  <2> QED
    BY <2>1, <2>2, <2>3, <2>4, <2>5, <2>6, <2>7, <2>8, <2>9, <2>10, <2>11,
       <2>12, <2>13, <2>14, <2>15 DEF Next, Step
<1>3. SendInv => TxBounded
  BY DEF TxBounded
<1> QED
  BY <1>1, <1>2, <1>3, CallInvariant, PTL DEF Spec

-----------------------------------------------------------------------------
(* The dump before the banner leaves the flag clear for the banner, and a  *)
(* d function finds the flag it set because nothing suspends a panic.      *)
PanicInv ==
  /\ site["exc"] = "panic" => ~use_serial
  /\ site["exc"] \in DSites /\ pc["exc"] # "call" => use_serial
  /\ PanicRouted

(* PanicRouted: whatever was interrupted, a panic's banner reaches the     *)
(* terminal and its dump the serial port.                                  *)
THEOREM PanicReport == Spec => []PanicRouted
<1> USE DEF PanicInv, PanicRouted, Routed, CallInv, TypeOK, Contexts, Goto
<1>1. Init => PanicInv
  BY DEF Init, DSites
<1>2. CallInv /\ PanicInv /\ [Next]_vars => PanicInv'
  <2> SUFFICES ASSUME CallInv, PanicInv, [Next]_vars
               PROVE  PanicInv'
    OBVIOUS
  <2>a. \A k \in Contexts : site[k] = "none" => pc[k] = "call"
    BY DEF Progress, DSites, KSites
  <2>b. \A k \in Contexts : Running(k) => k = "exc" \/ site["exc"] = "none"
    BY DEF Running, Above
  <2>c. "panic" \notin DSites /\ "panic" \in KSites /\ "none" \notin DSites
    BY DEF DSites, KSites
  <2>1. ASSUME NEW k \in Contexts, CallD(k) PROVE PanicInv'
    BY <2>1, <2>b, <2>c DEF CallD
  <2>2. ASSUME NEW k \in Contexts, CallK(k) PROVE PanicInv'
    BY <2>2, <2>b, <2>c DEF CallK, KSites, DSites
  <2>3. ASSUME NEW k \in Contexts, CallKputc(k) PROVE PanicInv'
    BY <2>3, <2>b, <2>c DEF CallKputc, ExcSites
  <2>4. ASSUME NEW k \in Contexts, Putchar(k) PROVE PanicInv'
    <3>1. CASE k = "exc"
      <4>1. site["exc"] \in DSites \cup KSites
        BY <2>4, <3>1 DEF Putchar, Progress
      <4>2. site["exc"] \in KSites => site["exc"] = "panic"
        BY DEF KSites, ExcSites
      <4> QED
        BY <2>4, <3>1, <4>1, <4>2, <2>c DEF Putchar
    <3> QED
      BY <2>4, <2>b, <2>c, <3>1 DEF Putchar
  <2>5. ASSUME NEW k \in Contexts, TermWrite(k) PROVE PanicInv'
    BY <2>5, <2>b, <2>c DEF TermWrite
  <2>6. ASSUME NEW k \in Contexts, Poll(k) PROVE PanicInv'
    BY <2>6, <2>b, <2>c DEF Poll
  <2>7. ASSUME NEW k \in Contexts, Outb(k) PROVE PanicInv'
    BY <2>7, <2>b, <2>c DEF Outb
  <2>8. ASSUME NEW k \in Contexts, Return(k) PROVE PanicInv'
    <3>1. PICK s \in Succ[site[k]] : site' = [site EXCEPT ![k] = s]
      BY <2>8 DEF Return
    <3>2. k = "exc" /\ s = "panic" => site[k] \in DSites
      BY <2>8, <2>b, SuccSites DEF Sites, Return, Running
    <3> QED
      BY <2>8, <2>b, <2>c, <3>1, <3>2 DEF Return
  <2>9. CASE Instruction
    BY <2>9 DEF Instruction
  <2>10. CASE EnterIrq
    BY <2>10 DEF EnterIrq
  <2>11. CASE Iret
    BY <2>11 DEF Iret
  <2>12. CASE EnterExc
    BY <2>12, <2>a DEF EnterExc
  <2>13. CASE Transmit
    BY <2>13 DEF Transmit
  <2>14. CASE UNCHANGED vars
    BY <2>14 DEF vars
  <2>15. ASSUME NEW k \in Contexts, Idle(k) PROVE PanicInv'
    BY <2>14, <2>15 DEF Idle
  <2> HIDE DEF PanicInv, Contexts
  <2> QED
    BY <2>1, <2>2, <2>3, <2>4, <2>5, <2>6, <2>7, <2>8, <2>9, <2>10, <2>11,
       <2>12, <2>13, <2>14, <2>15 DEF Next, Step
<1> QED
  BY <1>1, <1>2, CallInvariant, PTL DEF Spec
-----------------------------------------------------------------------------
(* What one CPU implies: who runs while whom, and that a context that is   *)
(* not on the stack, or about to leave it, is inside no call.              *)
LEMMA OneRuns ==
  ASSUME CallInv
  PROVE  /\ \A k \in Contexts : Running(k) => k = "exc" \/ site["exc"] = "none"
         /\ Running("main") => site["irq"] = "none"
         /\ \A k \in Contexts : site[k] \in {"none", "iret"} => pc[k] = "call"
         /\ \A k \in Contexts : site[k] # "none" /\ pc[k] # "call"
                                  => site[k] \in DSites \cup KSites
         /\ "none" \notin DSites /\ "iret" \notin DSites /\ DSites \cap KSites = {}
BY DEF CallInv, Progress, Running, Above, Contexts, DSites, KSites

(* FlagOwned: whatever interrupts whatever, the global flag is set only    *)
(* while some context is inside a d function; and until an exception comes *)
(* it is set exactly while the handler is inside one, or _start is and no  *)
(* unhandled IRQ's report has cleared it there.                            *)
THEOREM FlagIsOwned == Spec => []FlagOwned
<1> USE DEF FlagOwned, InD, CallInv, TypeOK, Contexts, Goto
<1>1. Init => FlagOwned
  BY DEF Init, DSites
<1>2. CallInv /\ FlagOwned /\ [Next]_vars => FlagOwned'
  <2> SUFFICES ASSUME CallInv, FlagOwned, [Next]_vars
               PROVE  FlagOwned'
    OBVIOUS
  <2>1. ASSUME NEW k \in Contexts, CallD(k) PROVE FlagOwned'
    BY <2>1, OneRuns DEF CallD
  <2>2. ASSUME NEW k \in Contexts, CallK(k) PROVE FlagOwned'
    BY <2>2, OneRuns DEF CallK
  <2>3. ASSUME NEW k \in Contexts, CallKputc(k) PROVE FlagOwned'
    BY <2>3, OneRuns DEF CallKputc, KSites
  <2>4. ASSUME NEW k \in Contexts, Putchar(k) PROVE FlagOwned'
    BY <2>4 DEF Putchar
  <2>5. ASSUME NEW k \in Contexts, TermWrite(k) PROVE FlagOwned'
    BY <2>5 DEF TermWrite
  <2>6. ASSUME NEW k \in Contexts, Poll(k) PROVE FlagOwned'
    BY <2>6 DEF Poll
  <2>7. ASSUME NEW k \in Contexts, Outb(k) PROVE FlagOwned'
    BY <2>7 DEF Outb
  <2>8. ASSUME NEW k \in Contexts, Return(k) PROVE FlagOwned'
    <3>1. /\ use_serial' = (use_serial /\ site[k] \notin DSites)
          /\ reported' = (reported \/ site[k] = "unhandled")
          /\ pc[k] = "loop" /\ pc' = [pc EXCEPT ![k] = "call"]
      BY <2>8 DEF Return
    <3>2. PICK s \in Succ[site[k]] : site' = [site EXCEPT ![k] = s]
      BY <2>8 DEF Return
    <3>3. k = "exc" => site'["exc"] # "none"
      BY <2>8, <3>2, SuccSites DEF Return, Running, ExcSites
    <3>4. \A j \in Contexts \ {k} : InD(j)' <=> InD(j)
      BY <3>1, <3>2
    <3>5. ~InD(k)' /\ (InD(k) <=> site[k] \in DSites)
      BY <3>1
    <3>6. use_serial' => \E j \in Contexts : InD(j)'
      <4> HIDE DEF InD
      <4> QED
        BY <3>1, <3>4, <3>5
    <3>7. CASE k = "exc"
      BY <3>3, <3>6, <3>7
    <3>8. CASE k = "irq"
      <4>1. site["irq"] \in DSites <=> site["irq"] = "unhandled"
        BY DEF DSites, IrqSites
      <4>2. site["exc"] = "none" /\ site'["exc"] = "none"
        BY <2>8, <3>2, <3>8, OneRuns DEF Return
      <4>3. (InD("main")' <=> InD("main")) /\ ~InD("irq")'
        BY <3>4, <3>5, <3>8
      <4>4. InD("irq") <=> site["irq"] = "unhandled"
        BY <3>5, <3>8, <4>1
      <4>5. use_serial' <=> InD("main")' /\ ~reported'
        <5> HIDE DEF InD
        <5> QED
          BY <3>1, <3>8, <4>1, <4>2, <4>3, <4>4
      <4> HIDE DEF InD
      <4> QED
        BY <3>6, <4>3, <4>5
    <3>9. CASE k = "main"
      <4>1. /\ site["exc"] = "none" /\ site'["exc"] = "none"
            /\ site["irq"] = "none" /\ site'["irq"] = "none"
        BY <2>8, <3>2, <3>9, OneRuns DEF Return
      <4>2. ~InD("irq") /\ ~InD("irq")' /\ ~InD("main")'
        BY <4>1, <3>5, <3>9, OneRuns
      <4>3. ~use_serial'
        <5> HIDE DEF InD
        <5> QED
          BY <3>1, <3>5, <3>9, <4>1, <4>2
      <4> HIDE DEF InD
      <4> QED
        BY <4>2, <4>3
    <3> QED
      BY <3>7, <3>8, <3>9
  <2>9. CASE Instruction
    <3>1. site["main"] \in {"lidt", "sti"} /\ pc["main"] = "call"
      BY <2>9 DEF Instruction, Progress, DSites, KSites
    <3> QED
      BY <2>9, <3>1 DEF Instruction, DSites
  <2>10. CASE EnterIrq
    BY <2>10, OneRuns DEF EnterIrq, InterruptsEnabled
  <2>11. CASE Iret
    BY <2>11, OneRuns DEF Iret
  <2>12. CASE EnterExc
    BY <2>12, OneRuns DEF EnterExc
  <2>13. CASE Transmit
    BY <2>13 DEF Transmit
  <2>14. CASE UNCHANGED vars
    BY <2>14 DEF vars
  <2>15. ASSUME NEW k \in Contexts, Idle(k) PROVE FlagOwned'
    BY <2>14, <2>15 DEF Idle
  <2> HIDE DEF FlagOwned, Contexts
  <2> QED
    BY <2>1, <2>2, <2>3, <2>4, <2>5, <2>6, <2>7, <2>8, <2>9, <2>10, <2>11,
       <2>12, <2>13, <2>14, <2>15 DEF Next, Step
<1> QED
  BY <1>1, <1>2, CallInvariant, PTL DEF Spec

-----------------------------------------------------------------------------
(* The keyboard handler's kputc writes one character without the flag. *)
EchoOnce ==
  site["irq"] = "echo" =>
    /\ pc["irq"] \in {"call", "term", "loop"}
    /\ pc["irq"] = "term" => left["irq"] = 1
    /\ pc["irq"] = "loop" => left["irq"] = 0

MainInv == EchoOnce /\ MessagesRouted

(* MessagesRouted and ReentryNeedsReport: with every IRQ and exception at  *)
(* any point, _start's messages go astray only after an unhandled IRQ's    *)
(* report returned inside one, and the handler's only when a backspace     *)
(* finds _start inside a d function that no report has cut; without such a *)
(* report the handler never enters the terminal while _start is inside it. *)
THEOREM MainMessages == Spec => [](MessagesRouted /\ ReentryNeedsReport)
<1> USE DEF MainInv, EchoOnce, MessagesRouted, Routed, InD, CallInv, TypeOK, Contexts, Goto
<1>1. Init => MainInv
  BY DEF Init
<1>2. CallInv /\ FlagOwned /\ MainInv /\ [Next]_vars => MainInv'
  <2> SUFFICES ASSUME CallInv, FlagOwned, MainInv, [Next]_vars
               PROVE  MainInv'
    OBVIOUS
  <2>1. ASSUME NEW k \in Contexts, CallD(k) PROVE MainInv'
    <3>1. /\ site[k] \in DSites /\ UNCHANGED site
          /\ pc'[k] = "loop" /\ \A j \in Contexts \ {k} : pc'[j] = pc[j]
          /\ \A j \in Contexts \ {k} : left'[j] = left[j]
          /\ reported' = (reported /\ k # "main")
      BY <2>1 DEF CallD
    <3>2. k = "main" => site["irq"] = "none" /\ pc["irq"] = "call"
      BY <2>1, OneRuns DEF CallD
    <3>3. "echo" \notin DSites /\ "erase" \notin DSites
      BY DEF DSites
    <3>4. CASE k = "main"
      BY <3>1, <3>2, <3>4
    <3>5. CASE k = "irq"
      BY <3>1, <3>3, <3>5
    <3>6. CASE k = "exc"
      BY <3>1, <3>6
    <3> QED
      BY <3>4, <3>5, <3>6
  <2>2. ASSUME NEW k \in Contexts, CallK(k) PROVE MainInv'
    BY <2>2, OneRuns DEF CallK
  <2>3. ASSUME NEW k \in Contexts, CallKputc(k) PROVE MainInv'
    BY <2>3, OneRuns DEF CallKputc, KSites, MainSites
  <2>4. ASSUME NEW k \in Contexts, Putchar(k) PROVE MainInv'
    <3>1. /\ pc[k] = "loop" /\ site[k] \in DSites \cup KSites
          /\ UNCHANGED <<site, reported>>
          /\ pc' = [pc EXCEPT ![k] = IF use_serial THEN "poll" ELSE "term"]
      BY <2>4, OneRuns DEF Putchar, Running
    <3>1a. /\ pc'[k] = IF use_serial THEN "poll" ELSE "term"
          /\ \A j \in Contexts \ {k} : pc'[j] = pc[j]
          /\ left' = left
      BY <2>4, <3>1 DEF Putchar
    <3>2. k = "exc" \/ site["exc"] = "none"
      BY <2>4, OneRuns DEF Putchar
    <3>3. site["exc"] = "none" =>
            (use_serial <=> InD("irq") \/ (InD("main") /\ ~reported))
      BY DEF FlagOwned
    <3>4. CASE k = "main"
      <4>1. ~InD("irq") /\ (InD("main") <=> site["main"] \in DSites)
        BY <2>4, <3>1, <3>4, OneRuns DEF Putchar
      <4>2. use_serial <=> site["main"] \in DSites /\ ~reported
        BY <3>2, <3>3, <3>4, <4>1
      <4>3. site["irq"] = "none" /\ pc'["irq"] = "call"
        BY <2>4, <3>1a, <3>4, OneRuns DEF Putchar
      <4>4. DSites \cap KSites = {}
        BY OneRuns
      <4> QED
        BY <3>1, <3>1a, <3>4, <4>2, <4>3, <4>4
    <3>5. CASE k = "irq"
      <4>1. InD("irq") <=> site["irq"] \in DSites
        BY <3>1, <3>5
      <4>2. use_serial <=> site["irq"] \in DSites \/ (InD("main") /\ ~reported)
        BY <3>2, <3>3, <3>5, <4>1
      <4>3. site["irq"] \in KSites => site["irq"] \in {"echo", "erase"}
        BY DEF IrqSites, KSites
      <4>4. site["irq"] # "echo"
        BY <2>4, <3>1, <3>5 DEF Putchar
      <4> QED
        BY <3>1, <3>5, <4>2, <4>3, <4>4, OneRuns
    <3>6. CASE k = "exc"
      BY <3>1, <3>1a, <3>6
    <3> QED
      BY <3>4, <3>5, <3>6
  <2>5. ASSUME NEW k \in Contexts, TermWrite(k) PROVE MainInv'
    BY <2>5, OneRuns DEF TermWrite
  <2>6. ASSUME NEW k \in Contexts, Poll(k) PROVE MainInv'
    BY <2>6, OneRuns DEF Poll
  <2>7. ASSUME NEW k \in Contexts, Outb(k) PROVE MainInv'
    BY <2>7, OneRuns DEF Outb
  <2>8. ASSUME NEW k \in Contexts, Return(k) PROVE MainInv'
    <3>1. PICK s \in Succ[site[k]] : site' = [site EXCEPT ![k] = s]
      BY <2>8 DEF Return
    <3>2. k = "irq" => s = "iret"
      BY <2>8, SuccSites DEF Return, Running
    <3>3. /\ site'[k] = s /\ \A j \in Contexts \ {k} : site'[j] = site[j]
          /\ pc'[k] = "call" /\ \A j \in Contexts \ {k} : pc'[j] = pc[j]
          /\ left' = left /\ (reported => reported')
      BY <2>8, <3>1 DEF Return
    <3>4. CASE k = "main"
      BY <2>8, <3>3, <3>4, OneRuns DEF Return
    <3>5. CASE k = "irq"
      BY <3>2, <3>3, <3>5
    <3>6. CASE k = "exc"
      <4>1. reported' = reported
        BY <2>8, <3>6 DEF Return, ExcSites, Running
      <4> QED
        BY <3>3, <3>6, <4>1
    <3> QED
      BY <3>4, <3>5, <3>6
  <2>9. CASE Instruction
    <3>1. /\ site["main"] \in {"lidt", "sti"} /\ site["irq"] = "none"
          /\ \E s \in DSites : site' = [site EXCEPT !["main"] = s]
          /\ UNCHANGED <<pc, left, reported>>
      BY <2>9, SuccSites, OneRuns DEF Instruction
    <3>2. pc["main"] = "call"
      BY <3>1 DEF Progress, DSites, KSites
    <3> QED
      BY <3>1, <3>2
  <2>10. CASE EnterIrq
    BY <2>10, OneRuns DEF EnterIrq, InterruptsEnabled
  <2>11. CASE Iret
    BY <2>11, OneRuns DEF Iret
  <2>12. CASE EnterExc
    BY <2>12, OneRuns DEF EnterExc
  <2>13. CASE Transmit
    BY <2>13 DEF Transmit
  <2>14. CASE UNCHANGED vars
    BY <2>14 DEF vars
  <2>15. ASSUME NEW k \in Contexts, Idle(k) PROVE MainInv'
    BY <2>14, <2>15 DEF Idle
  <2> HIDE DEF MainInv, Contexts
  <2> QED
    BY <2>1, <2>2, <2>3, <2>4, <2>5, <2>6, <2>7, <2>8, <2>9, <2>10, <2>11,
       <2>12, <2>13, <2>14, <2>15 DEF Next, Step
<1>3. CallInv /\ MainInv => MessagesRouted /\ ReentryNeedsReport
  BY DEF ReentryNeedsReport, IrqAfterSti, DSites, KSites
<1> HIDE DEF MainInv, MessagesRouted, CallInv
<1> QED
  BY <1>1, <1>2, <1>3, CallInvariant, FlagIsOwned, PTL DEF Spec
=============================================================================
