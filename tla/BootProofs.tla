----------------------------- MODULE BootProofs -----------------------------
(***************************************************************************)
(* Proofs about Boot for every boot loader, port, word and distance of the *)
(* stubs: what the host hears, the segments of the terminal, the gates of  *)
(* the IDT, and the types.                                                 *)
(***************************************************************************)
EXTENDS Boot, SequenceTheorems, TLAPS

Format == {0, 1}
Sent   == <<Text, <<{0, 1}, {}>>, Format>>

(* test is going on, or failed; the port is set up and test is over.       *)
Testing == {"echo", "normal"}
Ended   == {"rejected", "halt"}
After   == {"get_tag", "banner", "gdt", "lgdt", "selectors", "far_return", "say_gdt",
            "say_isr", "idt", "lidt", "say_idt", "fault", "pics"}

Silent == said = 0 /\ host = <<>>

(* serial::init's writes, as far as they are done. *)
Programmed ==
  /\ n \in {3, 4, 5} => lcr = {7}
  /\ n \in 4..9 => divisor[1] = {0, 1}
  /\ n \in 5..9 => divisor[2] = {}
  /\ n \in 6..9 => lcr = Format

(* While the byte of the test may be in the transmitter, the port is in    *)
(* loop mode; and if it still is when test reads, test fails.              *)
InTest ==
  /\ Silent /\ n = 9 /\ LOOP
  /\ point = "echo" => (shift = <<TestByte>> /\ rx \in {<<>>, <<Text>>}) \/ shift = <<>>
  /\ point = "normal" => shift = <<>>
  /\ shift \in {<<>>, <<TestByte>>}

InUse ==
  /\ n = 9 /\ ~LOOP
  /\ shift \in {<<>>, <<Text>>}
  /\ \A i \in 1..Len(host) : host[i] = Sent
  /\ said = Len(host) + Len(shift)

Chip ==
  /\ divisor \in [1..2 -> SUBSET Ones] /\ lcr \in SUBSET Ones
  /\ host \in Seq((SUBSET Ones) \X [1..2 -> SUBSET Ones] \X SUBSET Ones)
  /\ shift \in Seq(SUBSET Ones) /\ rx \in Seq(SUBSET Ones)
  /\ kind = "absent" => host = <<>> /\ shift = <<>>

Control ==
  /\ n \in 1..9 /\ said \in Nat
  /\ point \in {"assert", "failed", "port"} \cup Testing \cup Ended \cup After
  /\ boot_info = "given" => point # "failed"

PortInv ==
  /\ Programmed
  /\ point = "assert" => n = 1
  /\ point \in {"assert", "port"} =>
       Silent /\ shift = <<>> /\ rx \in {<<>>, <<Text>>} /\ (n = 9 => LOOP)
  /\ point \in Testing => InTest
  /\ point \in Ended => InTest \/ InUse
  /\ point \in After => InUse

BootInv == Chip /\ Control /\ (boot_info = "given" /\ kind # "absent" => PortInv)

LEMMA ArriveKeeps ==
  ASSUME Chip, NEW b \in SUBSET Ones, Arrive(b), kind # "absent",
         UNCHANGED <<kind, divisor, lcr>>, shift' \in Seq(SUBSET Ones)
  PROVE  Chip'
<1>1. Append(rx, Ones \ b) \in Seq(SUBSET Ones) /\ Append(rx, b) \in Seq(SUBSET Ones)
  BY DEF Chip
<1>2. Append(host, <<b, divisor, lcr>>)
        \in Seq((SUBSET Ones) \X [1..2 -> SUBSET Ones] \X SUBSET Ones)
  BY DEF Chip
<1>3. rx' \in {rx, Append(rx, Ones \ b), Append(rx, b)} /\ host' \in {host, Append(host, <<b, divisor, lcr>>)}
  BY DEF Arrive
<1> QED
  BY <1>1, <1>2, <1>3 DEF Chip

LEMMA OutKeeps ==
  ASSUME Chip, NEW i \in 0..4, NEW b \in SUBSET Ones, Out(i, b)
  PROVE  Chip'
<1>1. CASE kind = "absent"
  BY <1>1 DEF Out, Chip, uartVars
<1>2. CASE kind # "absent" /\ i \in {0, 1} /\ DLAB
  BY <1>2 DEF Out, Chip
<1>3. CASE kind # "absent" /\ i = 0 /\ ~DLAB
  <2>1. CASE shift' = <<b>> /\ UNCHANGED <<kind, divisor, lcr, rx, host>>
    BY <1>3, <2>1 DEF Chip
  <2>2. CASE Arrive(b) /\ UNCHANGED <<kind, divisor, lcr, shift>>
    BY <1>3, <2>2, ArriveKeeps DEF Chip
  <2> QED
    BY <1>3, <2>1, <2>2 DEF Out
<1>4. CASE kind # "absent" /\ ((i = 1 /\ ~DLAB) \/ i \in 2..4)
  <2>1. CASE i = 1 /\ ~DLAB
    BY <1>4, <2>1 DEF Out, DLAB, Chip, uartVars
  <2>2. CASE i = 2
    <3>1. <<>> \in Seq(SUBSET Ones)
      OBVIOUS
    <3>2. rx' \in {rx, <<>>} /\ UNCHANGED <<kind, divisor, lcr, shift, host>>
      BY <1>4, <2>2 DEF Out
    <3> QED
      BY <1>4, <3>1, <3>2 DEF Chip
  <2>3. CASE i \in {3, 4}
    BY <1>4, <2>3 DEF Out, Chip
  <2> QED
    BY <1>4, <2>1, <2>2, <2>3
<1> QED
  BY <1>1, <1>2, <1>3, <1>4

(* A step that leaves the port and the count of texts alone. *)
Quiet == UNCHANGED <<n, boot_info, said, uartVars>>

LEMMA QuietPreserves ==
  ASSUME BootInv, Quiet, UNCHANGED point \/ (point \in After /\ point' \in After \cup Ended)
  PROVE  BootInv'
BY DEF BootInv, Chip, Control, PortInv, Programmed, InTest, InUse, Silent, Quiet, uartVars,
       Testing, Ended, After, LOOP

LEMMA SayPreserves ==
  ASSUME BootInv, NEW p, NEW q, Say(p, q),
         (p = "failed" /\ q = "halt") \/ (p \in After /\ q \in After)
  PROVE  BootInv'
<1> USE DEF BootInv, Say, Step, tagVars
<1>1. Chip' /\ UNCHANGED kind
  <2>1. Text \in SUBSET Ones /\ Out(0, Text)
    BY DEF Text, Ones
  <2> QED
    BY <2>1, OutKeeps DEF Out
<1>2. Control'
  BY DEF Control, Testing, Ended, After
<1>3. ASSUME boot_info = "given", kind # "absent" PROVE PortInv'
  <2>1. p \in After /\ InUse /\ Programmed /\ n = 9 /\ lcr = Format /\ ~DLAB
    BY <1>3 DEF PortInv, InUse, Programmed, Control, DLAB, Format
  <2>2. divisor = <<{0, 1}, {}>>
    BY <2>1 DEF Programmed, Chip
  <2>3. shift = <<>> /\ said = Len(host)
    BY <1>3, <2>1 DEF InUse, TEMT, Text, Chip
  <2>4. UNCHANGED <<n, lcr, divisor, mcr>>
    BY <1>3, <2>1 DEF Out
  <2>5. \/ shift' = <<Text>> /\ UNCHANGED host
        \/ UNCHANGED shift /\ host' = Append(host, Sent)
    <3>1. \/ shift' = <<Text>> /\ UNCHANGED host
          \/ UNCHANGED shift /\ Arrive(Text)
      BY <1>3, <2>1 DEF Out, DLAB
    <3>2. Arrive(Text) => host' = Append(host, Sent)
      BY <2>1, <2>2 DEF Arrive, InUse, Sent
    <3> QED
      BY <3>1, <3>2
  <2>6. InUse'
    <3>1. CASE shift' = <<Text>> /\ UNCHANGED host
      BY <2>1, <2>3, <2>4, <3>1 DEF InUse, LOOP, Chip
    <3>2. CASE UNCHANGED shift /\ host' = Append(host, Sent)
      <4>1. Len(host') = Len(host) + 1 /\ \A i \in 1..Len(host') : host'[i] = Sent
        BY <2>1, <3>2 DEF InUse, Chip
      <4> QED
        BY <2>1, <2>3, <2>4, <3>2, <4>1 DEF InUse, LOOP, Chip
    <3> QED
      BY <2>5, <3>1, <3>2
  <2> QED
    BY <2>1, <2>4, <2>6 DEF PortInv, Programmed, Format, After, Testing, Ended
<1> QED
  BY <1>1, <1>2, <1>3

LEMMA SetUpPreserves ==
  ASSUME BootInv, SetUp
  PROVE  BootInv'
<1> USE DEF BootInv, SetUp, tagVars
<1>1. Len(Writes) = 9
  BY DEF Writes
<1>2. Writes[n][1] \in 0..4 /\ Writes[n][2] \in SUBSET Ones
  BY DEF Control, Writes, TestByte, Ones
<1>3. Chip' /\ UNCHANGED kind
  BY <1>2, OutKeeps DEF Out
<1>4. Control'
  BY <1>1 DEF Control, Goto, Testing, Ended, After
<1>5. ASSUME boot_info = "given", kind # "absent" PROVE PortInv'
  <2> USE <1>5 DEF PortInv, Programmed, Silent, Control
  <2>1. CASE n \in 1..5
    BY <1>1, <2>1 DEF Out, DLAB, Writes, Format, Testing, Ended, After, Chip, uartVars
  <2>2. CASE n \in 6..8
    BY <1>1, <2>2 DEF Out, LOOP, Writes, Format, Testing, Ended, After, uartVars
  <2>3. CASE n = 9
    <3>1. Out(0, TestByte) /\ point' = "echo" /\ n' = 9 /\ ~DLAB /\ LOOP
      BY <1>1, <2>3 DEF Writes, Goto, Format, DLAB
    <3>2. /\ UNCHANGED <<lcr, mcr, divisor, host>>
          /\ (shift' = <<TestByte>> /\ UNCHANGED rx) \/ UNCHANGED shift
      BY <3>1 DEF Out, Arrive
    <3>3. InTest'
      BY <2>3, <3>1, <3>2 DEF InTest, LOOP
    <3> QED
      BY <2>3, <3>1, <3>2, <3>3 DEF Testing, Ended, After
  <2> QED
    BY <2>1, <2>2, <2>3
<1> QED
  BY <1>3, <1>4, <1>5

LEMMA ReadEchoPreserves ==
  ASSUME BootInv, ReadEcho
  PROVE  BootInv'
<1> USE DEF BootInv, ReadEcho, Goto, tagVars
<1>1. Chip' /\ UNCHANGED <<kind, divisor, lcr, mcr, shift, host>>
  BY DEF In, Chip, uartVars
<1>2. Control'
  BY DEF Control, Testing, Ended, After
<1>3. ASSUME boot_info = "given", kind # "absent" PROVE PortInv'
  <2>1. InTest /\ Programmed /\ lcr = Format /\ ~DLAB
    BY <1>3 DEF PortInv, InTest, Programmed, DLAB, Format, Testing
  <2>2. Zeros # TestByte /\ Text # TestByte
    <3>1. 5 \in TestByte /\ 5 \notin Zeros /\ 5 \notin Text
      BY DEF Zeros, TestByte, Text
    <3> QED
      BY <3>1
  <2>3. shift = <<TestByte>> => point' = "rejected"
    BY <1>3, <2>1, <2>2 DEF InTest, In, Chip
  <2>4. InTest'
    BY <1>1, <2>1, <2>3 DEF InTest, Silent, LOOP
  <2> QED
    BY <1>1, <2>1, <2>4 DEF PortInv, Programmed, Testing, Ended, After
<1> QED
  BY <1>1, <1>2, <1>3

LEMMA NormalPreserves ==
  ASSUME BootInv, Normal
  PROVE  BootInv'
<1> USE DEF BootInv, Normal, Step
<1>1. Chip' /\ UNCHANGED kind
  <2>1. {0, 1, 2, 3} \in SUBSET Ones /\ Out(4, {0, 1, 2, 3})
    BY DEF Ones
  <2> QED
    BY <2>1, OutKeeps DEF Out
<1>2. Control'
  BY DEF Control, Testing, Ended, After
<1>3. ASSUME boot_info = "given", kind # "absent" PROVE PortInv'
  <2>1. UNCHANGED <<divisor, lcr, shift, host>> /\ mcr' = {0, 1, 2, 3}
    BY <1>3 DEF Out
  <2> QED
    BY <1>3, <2>1 DEF PortInv, Programmed, InTest, InUse, Silent, LOOP, Testing, Ended, After
<1> QED
  BY <1>1, <1>2, <1>3

LEMMA TransmitPreserves ==
  ASSUME BootInv, Transmit
  PROVE  BootInv'
<1> USE DEF BootInv, Transmit, Shift, tagVars
<1>1. Chip' /\ UNCHANGED kind
  <2>1. kind # "absent" /\ shift[1] \in SUBSET Ones /\ shift' \in Seq(SUBSET Ones)
    BY DEF Chip
  <2> QED
    BY <2>1, ArriveKeeps
<1>2. Control'
  BY DEF Control
<1>3. ASSUME boot_info = "given", kind # "absent" PROVE PortInv'
  <2>1. CASE LOOP
    <3>1. UNCHANGED host /\ InTest
      BY <1>3, <2>1 DEF Arrive, PortInv, InUse, Control
    <3>2. InTest'
      BY <3>1 DEF InTest, Silent, LOOP
    <3> QED
      BY <1>3, <2>1, <3>1, <3>2 DEF PortInv, Programmed, InUse, Testing, Ended, After
  <2>2. CASE ~LOOP
    <3>1. InUse /\ Programmed /\ point \in Ended \cup After
      BY <1>3, <2>2 DEF PortInv, InTest, Control
    <3>2. divisor = <<{0, 1}, {}>> /\ lcr = Format
      BY <3>1 DEF Programmed, InUse, Chip
    <3>3. shift = <<Text>> /\ host' = Append(host, Sent)
      BY <2>2, <3>1, <3>2 DEF InUse, Arrive, Sent
    <3>4. Len(host') = Len(host) + 1 /\ \A i \in 1..Len(host') : host'[i] = Sent
      BY <3>1, <3>3 DEF InUse, Chip
    <3>5. InUse'
      BY <3>1, <3>3, <3>4 DEF InUse, LOOP, Chip
    <3> QED
      BY <3>1, <3>5 DEF PortInv, Programmed, Testing, Ended, After
  <2> QED
    BY <2>1, <2>2
<1> QED
  BY <1>1, <1>2, <1>3

LEMMA HostBytePreserves ==
  ASSUME BootInv, HostByte
  PROVE  BootInv'
<1> USE DEF BootInv, HostByte, tagVars
<1>1. Chip' /\ Control'
  BY DEF Chip, Control, Ones, Text
<1> QED
  BY <1>1 DEF PortInv, Programmed, InTest, InUse, Silent, LOOP, Testing, Ended, After

THEOREM BootInvariant == Spec => []BootInv
<1>1. Init => BootInv
  <2> SUFFICES ASSUME Init PROVE BootInv
    OBVIOUS
  <2>1. Chip
    <3>1. <<{0}, {}>> \in [1..2 -> SUBSET Ones]
      BY DEF Ones
    <3>2. Text \in SUBSET Ones /\ {0, 1} \in SUBSET Ones /\ {0, 1, 7} \in SUBSET Ones
      BY DEF Text, Ones
    <3>3. <<>> \in Seq(SUBSET Ones) /\ <<Text>> \in Seq(SUBSET Ones)
      BY <3>2
    <3>4. <<>> \in Seq((SUBSET Ones) \X [1..2 -> SUBSET Ones] \X SUBSET Ones)
      OBVIOUS
    <3>5. /\ divisor = <<{0}, {}>> /\ lcr \in {{0, 1}, {0, 1, 7}}
          /\ rx \in {<<>>, <<Text>>} /\ shift = <<>> /\ host = <<>>
      BY DEF Init
    <3> QED
      BY <3>1, <3>2, <3>3, <3>4, <3>5 DEF Chip
  <2>2. Control
    BY DEF Init, Control
  <2>3. PortInv
    BY DEF Init, PortInv, Programmed, Silent, Testing, Ended, After
  <2> QED
    BY <2>1, <2>2, <2>3 DEF BootInv
<1>2. BootInv /\ [Next]_vars => BootInv'
  <2> SUFFICES ASSUME BootInv, [Next]_vars PROVE BootInv'
    OBVIOUS
  <2> USE DEF tagVars, tableVars, uartVars, Quiet
  <2>1. CASE Assert
    BY <2>1 DEF Assert, Goto, BootInv, Chip, Control, PortInv, Programmed, Silent, LOOP, Testing, Ended, After
  <2>2. CASE Say("failed", "halt") \/ Say("say_gdt", "say_isr") \/ Say("say_isr", "idt")
              \/ Say("say_idt", "pics")
    <3>1. {"say_gdt", "say_isr", "idt", "say_idt", "pics"} \subseteq After
      BY DEF After
    <3>2. CASE Say("failed", "halt")
      BY <3>2, SayPreserves
    <3>3. CASE Say("say_gdt", "say_isr")
      BY <3>1, <3>3, SayPreserves
    <3>4. CASE Say("say_isr", "idt")
      BY <3>1, <3>4, SayPreserves
    <3>5. CASE Say("say_idt", "pics")
      BY <3>1, <3>5, SayPreserves
    <3> QED
      BY <2>2, <3>2, <3>3, <3>4, <3>5
  <2>3. CASE SetUp \/ ReadEcho \/ Normal
    BY <2>3, SetUpPreserves, ReadEchoPreserves, NormalPreserves
  <2>4. CASE Halt
    BY <2>4 DEF Halt, Step, BootInv, Chip, Control, PortInv, Programmed, InTest, InUse, Silent, LOOP, Testing, Ended, After
  <2>5. CASE GetTag \/ Found \/ Banner \/ FillGdt \/ Lgdt \/ LoadData \/ LoadCode
              \/ FillIdt \/ Lidt \/ End \/ UNCHANGED vars
    <3>1. Quiet
      BY <2>5 DEF GetTag, Found, Banner, FillGdt, Lgdt, LoadData, LoadCode, FillIdt, Lidt, End, vars
    <3>2. UNCHANGED point \/ (point \in After /\ point' \in After \cup Ended)
      <4>1. CASE GetTag
        BY <4>1 DEF GetTag
      <4>2. CASE End \/ UNCHANGED vars
        BY <4>2 DEF End, vars
      <4>3. CASE Found \/ Banner
        BY <4>3 DEF Found, Banner, Goto, After, Ended
      <4>4. CASE FillGdt \/ Lgdt
        BY <4>4 DEF FillGdt, Lgdt, Step, After
      <4>5. CASE LoadData \/ LoadCode
        BY <4>5 DEF LoadData, LoadCode, Goto, After
      <4>6. CASE FillIdt \/ Lidt
        BY <4>6 DEF FillIdt, Lidt, Step, After
      <4> QED
        BY <2>5, <4>1, <4>2, <4>3, <4>4, <4>5, <4>6
    <3> QED
      BY <3>1, <3>2, QuietPreserves
  <2>6. CASE HostByte \/ Transmit
    BY <2>6, HostBytePreserves, TransmitPreserves
  <2> QED
    BY <2>1, <2>2, <2>3, <2>4, <2>5, <2>6 DEF Next, Steps
<1> QED
  BY <1>1, <1>2, PTL DEF Spec

(* Heard: what the kernel sends after it set up the port comes out of it,  *)
(* all of it, with the divisor and the format that were set; and the byte  *)
(* of the test never does, whenever the port answers.                      *)
THEOREM HostHears == Spec => []Heard
<1>1. BootInv => Heard
  <2> SUFFICES ASSUME BootInv, boot_info = "given"
               PROVE  /\ \A i \in 1..Len(host) : host[i] = Sent
                      /\ said > 0 /\ kind # "absent" => said = Len(host) + Len(shift)
    BY DEF Heard, Sent, Format
  <2>1. CASE kind = "absent"
    BY <2>1 DEF BootInv, Chip
  <2>2. CASE kind # "absent"
    <3>1. Silent \/ InUse
      BY <2>2 DEF BootInv, Control, PortInv, InTest
    <3> QED
      BY <2>2, <3>1 DEF Silent, InUse
  <2> QED
    BY <2>1, <2>2
<1> QED
  BY <1>1, BootInvariant, PTL
-----------------------------------------------------------------------------
(* The GDT is filled before lgdt, and not written any more. *)
Filled == gdt = [vec \in NULL_ENT.._64BIT_DS |-> Entries[vec + 1]]

SegmentsInv ==
  /\ gdtr \in {-1, 55}
  /\ point = "lgdt" \/ gdtr # -1 => Filled
  /\ point \in {"assert", "failed", "port", "rejected", "banner", "gdt"} \cup Testing
       \cup {"get_tag"} => gdtr = -1

LEMMA FilledSegments ==
  ASSUME Filled, gdtr = 55
  PROVE  TerminalSegments
<1> USE DEF Filled, Entries, Entry, NULL_ENT, _64BIT_DS
<1>1. /\ gdt[1].access = cs_access_bits /\ gdt[2].access = ds_access_bits
      /\ gdt[3].access = cs_access_bits /\ gdt[4].access = ds_access_bits
  OBVIOUS
<1>2. \A i \in {1, 2, 3, 4} : gdt[i].limit = WordSize - 1
  OBVIOUS
<1>3. gdt[1].flags = {} /\ gdt[2].flags = {} /\ gdt[3].flags = Wide /\ gdt[4].flags = Wide
  OBVIOUS
<1>4. Wide = {7, 6} \cup 0..3
  BY DEF Wide
<1>5. \A i \in {1, 2, 3, 4} : InGdt(8 * i)
  BY DEF InGdt
<1>6. /\ {7, 4, 1} \subseteq cs_access_bits /\ 3 \in cs_access_bits
      /\ {7, 4, 1} \subseteq ds_access_bits /\ 3 \notin ds_access_bits
  BY DEF cs_access_bits, ds_access_bits
<1>7. \A i \in {1, 2, 3, 4} :
        {7, 4, 1} \subseteq gdt[i].access /\ (3 \in gdt[i].access <=> i \in {1, 3})
  BY ONLY <1>1, <1>6
<1> QED
  BY ONLY <1>2, <1>3, <1>4, <1>5, <1>7 DEF TerminalSegments

(* How the GDT gets there. *)
THEOREM SegmentsInvariant == Spec => []SegmentsInv
<1> USE DEF tagVars, uartVars
<1>1. Init => SegmentsInv
  BY DEF Init, SegmentsInv
<1>2. BootInv /\ SegmentsInv /\ [Next]_vars => SegmentsInv'
  <2> SUFFICES ASSUME BootInv, SegmentsInv, [Next]_vars PROVE SegmentsInv'
    OBVIOUS
  <2> USE DEF SegmentsInv, Filled
  <2>1. CASE Assert \/ SetUp \/ ReadEcho \/ Normal
    BY <2>1 DEF Assert, SetUp, ReadEcho, Normal, Goto, Step, tableVars, Testing
  <2>2. CASE GetTag \/ Found \/ Banner \/ Halt
    BY <2>2 DEF GetTag, Found, Banner, Halt, Goto, Step, tableVars, Testing
  <2>3. ASSUME NEW p, NEW q, Say(p, q), q \in {"halt", "say_isr", "idt", "pics"}
        PROVE  SegmentsInv'
    BY <2>3 DEF Say, Step, tableVars, Testing
  <2>4. CASE FillGdt
    BY <2>4 DEF FillGdt, Step, Testing
  <2>5. CASE Lgdt
    BY <2>5 DEF Lgdt, Step, Testing
  <2>6. CASE LoadData \/ LoadCode
    BY <2>6 DEF LoadData, LoadCode, Goto, Testing
  <2>7. CASE FillIdt \/ Lidt
    BY <2>7 DEF FillIdt, Lidt, Step, Testing
  <2>8. CASE HostByte \/ Transmit \/ End \/ UNCHANGED vars
    BY <2>8 DEF HostByte, Transmit, End, vars, tableVars
  <2> QED
    BY <2>1, <2>2, <2>3, <2>4, <2>5, <2>6, <2>7, <2>8 DEF Next, Steps
<1> QED
  BY <1>1, <1>2, BootInvariant, PTL DEF Spec

(* TerminalSegments: from lgdt on, the GDT holds the segments that the     *)
(* boot loader's terminal switches to, whatever happened before.           *)
THEOREM Segments == Spec => []TerminalSegments
<1>1. SegmentsInv => TerminalSegments
  BY FilledSegments DEF SegmentsInv, TerminalSegments
<1> QED
  BY <1>1, SegmentsInvariant, PTL

-----------------------------------------------------------------------------
(* What the boot loader passed, and where get_tag is in it.                *)
Functions == {"terminal", "null"}
Tags      == {Other} \cup {Terminal(f) : f \in Functions}

TagsInv ==
  /\ tags \in Seq(Tags) /\ curr_tag \in 0..Len(tags)
  /\ write \in {"null", "terminal"}

\* The limits that lgdt and lidt are given.
LimitsInv == gdtr \in {-1, 55} /\ idtr \in {-1, 4095} /\ early \in BOOLEAN

\* The boot loader passes tags.
LEMMA PassedTags == Passed \subseteq Seq(Tags)
<1>1. ASSUME NEW k \in TagLists PROVE Others(k) \in Seq(Tags)
  <2>1. k \in Nat
    BY BootAssumption
  <2>2. Other \in Tags
    BY DEF Tags
  <2> HIDE DEF Tags
  <2> QED
    BY <2>1, <2>2 DEF Others
<1>2. ASSUME NEW f \in Functions PROVE <<Terminal(f)>> \in Seq(Tags)
  <2>1. Terminal(f) \in Tags
    BY <1>2 DEF Tags
  <2> HIDE DEF Tags
  <2> QED
    BY <2>1
<1>3. ASSUME NEW f \in Functions PROVE With(f) \subseteq Seq(Tags)
  <2> SUFFICES ASSUME NEW t \in With(f) PROVE t \in Seq(Tags)
    OBVIOUS
  <2> DEFINE W(p) == Others(p[1]) \o <<Terminal(f)>> \o Others(p[2])
  <2>0. PICK p \in TagLists \X TagLists : t = W(p)
    BY Zenon DEF With
  <2>1. /\ Others(p[1]) \in Seq(Tags) /\ Others(p[2]) \in Seq(Tags)
        /\ <<Terminal(f)>> \in Seq(Tags)
    BY <1>1, <1>2
  <2> QED
    BY <2>0, <2>1
<1>4. With("terminal") \subseteq Seq(Tags) /\ With("null") \subseteq Seq(Tags)
  <2>1. "terminal" \in Functions /\ "null" \in Functions
    BY DEF Functions
  <2> QED
    BY <1>3, <2>1
<1>5. {Others(k) : k \in TagLists} \subseteq Seq(Tags)
  BY <1>1
<1>6. \/ Passed = With("terminal")
      \/ Passed = {Others(k) : k \in TagLists} \cup With("null")
  BY Zenon DEF Passed
<1> QED
  BY <1>4, <1>5, <1>6

\* A tag with the terminal's identifier has one of its functions.
LEMMA TerminalTag ==
  ASSUME NEW t \in Tags, t.identifier = "terminal"
  PROVE  t.term_write \in {"null", "terminal"}
<1>1. t # Other
  BY DEF Other
<1>2. PICK f \in Functions : t = Terminal(f)
  BY <1>1 DEF Tags
<1> QED
  BY <1>2 DEF Terminal, Functions

\* get_tag stays within the list, and takes the terminal from a terminal's tag.
LEMMA TagsKept == TagsInv /\ [Next]_vars => TagsInv'
<1> SUFFICES ASSUME TagsInv, [Next]_vars PROVE TagsInv'
  OBVIOUS
<1>1. CASE Normal
  <2>1. tags' = tags /\ write' = write /\ curr_tag' = IF tags = <<>> THEN 0 ELSE 1
    BY <1>1 DEF Normal
  <2>2. tags \in Seq(Tags) /\ curr_tag' \in 0..Len(tags)
    BY <2>1, EmptySeq DEF TagsInv
  <2> QED
    BY <2>1, <2>2 DEF TagsInv
<1>2. CASE GetTag
  <2>1. /\ tags' = tags /\ write' = write /\ curr_tag # 0
        /\ curr_tag' = IF curr_tag = Len(tags) THEN 0 ELSE curr_tag + 1
    BY <1>2 DEF GetTag
  <2>2. Len(tags) \in Nat /\ curr_tag \in 0..Len(tags)
    BY DEF TagsInv
  <2>3. curr_tag' \in 0..Len(tags)
    BY <2>1, <2>2
  <2> QED
    BY <2>1, <2>3 DEF TagsInv
<1>3. CASE Found
  <2> DEFINE f == IF curr_tag = 0 THEN "null" ELSE tags[curr_tag].term_write
  <2>1. /\ tags' = tags /\ curr_tag' = curr_tag
        /\ curr_tag # 0 => tags[curr_tag].identifier = "terminal"
        /\ write' = write \/ write' = f
    BY <1>3 DEF Found
  <2>2. f \in {"null", "terminal"}
    <3>1. CASE curr_tag = 0
      BY <3>1
    <3>2. CASE curr_tag # 0
      <4>1. tags[curr_tag] \in Tags
        <5>1. tags \in Seq(Tags) /\ curr_tag \in 1..Len(tags)
          BY <3>2 DEF TagsInv
        <5> HIDE DEF Tags
        <5> QED
          BY <5>1, ElementOfSeq
      <4> QED
        BY <2>1, <3>2, <4>1, TerminalTag
    <3> QED
      BY <3>1, <3>2
  <2> HIDE DEF f
  <2> QED
    BY <2>1, <2>2 DEF TagsInv
<1>4. CASE UNCHANGED <<tags, curr_tag, write>>
  BY <1>4 DEF TagsInv
<1>5. UNCHANGED <<tags, curr_tag, write>> \/ Normal \/ GetTag \/ Found
  BY DEF Next, Steps, Assert, SetUp, ReadEcho, Banner, Halt, Say, FillGdt, Lgdt, LoadData,
         LoadCode, FillIdt, Lidt, HostByte, Transmit, End, vars, tagVars
<1> QED
  BY <1>1, <1>2, <1>3, <1>4, <1>5

\* Only lgdt and lidt load a limit.
LEMMA LimitsKept == LimitsInv /\ [Next]_vars => LimitsInv'
<1> SUFFICES ASSUME LimitsInv, [Next]_vars PROVE LimitsInv'
  OBVIOUS
<1> USE DEF LimitsInv
<1>1. CASE UNCHANGED <<gdtr, idtr, early>>
  BY <1>1
<1>2. CASE Lgdt
  BY <1>2 DEF Lgdt
<1>3. CASE Lidt
  BY <1>3 DEF Lidt
<1>4. CASE HostByte
  <2>1. UNCHANGED <<gdtr, idtr>>
    BY <1>4 DEF HostByte, tableVars
  <2> DEFINE late == early \/ (point = "port" /\ n > 6)
  <2>2. early' = late
    BY <1>4 DEF HostByte
  <2>3. late \in BOOLEAN
    OBVIOUS
  <2> HIDE DEF late
  <2>4. early' \in BOOLEAN
    BY <2>2, <2>3
  <2> QED
    BY <2>1, <2>4
<1>5. UNCHANGED <<gdtr, idtr, early>> \/ Lgdt \/ Lidt \/ HostByte
  BY DEF Next, Steps, Assert, SetUp, ReadEcho, Normal, GetTag, Found, Banner, Halt, Say,
         FillGdt, LoadData, LoadCode, FillIdt, Transmit, End, vars, tableVars
<1> QED
  BY <1>1, <1>2, <1>3, <1>4, <1>5

\* The modem control register holds a byte.
LEMMA ModemKept ==
  BootInv /\ kind \in Kinds /\ mcr \in SUBSET Ones /\ [Next]_vars
    => kind' \in Kinds /\ mcr' \in SUBSET Ones
<1> SUFFICES ASSUME BootInv, kind \in Kinds, mcr \in SUBSET Ones, [Next]_vars
             PROVE  kind' \in Kinds /\ mcr' \in SUBSET Ones
  OBVIOUS
<1>1. ASSUME NEW i, NEW b \in SUBSET Ones, Out(i, b)
      PROVE  kind' \in Kinds /\ mcr' \in SUBSET Ones
  <2>1. kind' = kind /\ mcr' \in {mcr, b}
    BY <1>1 DEF Out, uartVars, Arrive
  <2> QED
    BY <2>1
<1>2. CASE SetUp
  <2>1. Writes[n][2] \in SUBSET Ones
    BY DEF BootInv, Control, Writes, TestByte, Ones
  <2>2. Out(Writes[n][1], Writes[n][2])
    BY <1>2 DEF SetUp
  <2> QED
    BY <1>1, <2>1, <2>2
<1>3. CASE Normal
  <2>1. {0, 1, 2, 3} \in SUBSET Ones /\ Out(4, {0, 1, 2, 3})
    BY <1>3 DEF Normal, Ones
  <2> QED
    BY <1>1, <2>1
<1>4. ASSUME NEW p, NEW q, Say(p, q) PROVE kind' \in Kinds /\ mcr' \in SUBSET Ones
  <2>1. Text \in SUBSET Ones /\ Out(0, Text)
    BY <1>4 DEF Say, Text, Ones
  <2> QED
    BY <1>1, <2>1
<1>5. CASE UNCHANGED <<kind, mcr>>
  BY <1>5
<1>6. UNCHANGED <<kind, mcr>> \/ SetUp \/ Normal \/ \E p, q : Say(p, q)
  BY DEF Next, Steps, Assert, ReadEcho, GetTag, Found, Banner, Halt, FillGdt, Lgdt, LoadData,
         LoadCode, FillIdt, Lidt, HostByte, Transmit, Shift, In, End, vars, uartVars
<1> QED
  BY <1>2, <1>3, <1>4, <1>5, <1>6

(* TypeOK: get_tag never leaves the list, the writes of init are nine, and *)
(* the port and the tables hold what their registers can.                  *)
THEOREM TypeCorrect == Spec => []TypeOK
<1> DEFINE Modem == kind \in Kinds /\ mcr \in SUBSET Ones
<1>1. Init => TagsInv /\ LimitsInv /\ Modem
  <2> SUFFICES ASSUME Init PROVE TagsInv /\ LimitsInv /\ Modem
    OBVIOUS
  <2>1. tags \in Seq(Tags) /\ curr_tag = 0 /\ write = "null"
    BY PassedTags DEF Init
  <2>2. TagsInv
    BY <2>1 DEF TagsInv
  <2>3. LimitsInv
    BY DEF Init, LimitsInv
  <2>4. Modem
    BY BootAssumption DEF Init, Ones
  <2> QED
    BY <2>2, <2>3, <2>4
<1>2. BootInv /\ Modem /\ [Next]_vars => Modem'
  BY ModemKept
<1>3. BootInv /\ TagsInv /\ LimitsInv /\ Modem => TypeOK
  <2> SUFFICES ASSUME BootInv, TagsInv, LimitsInv, Modem PROVE TypeOK
    OBVIOUS
  <2>1. UartTypeOK
    BY DEF UartTypeOK, BootInv, Chip
  <2>2. n \in 1..Len(Writes) /\ said \in Nat
    <3>1. Len(Writes) = 9
      BY DEF Writes
    <3> QED
      BY <3>1 DEF BootInv, Control
  <2>3. point \in {"assert", "failed", "port", "echo", "normal", "rejected", "get_tag",
                "banner", "gdt", "lgdt", "selectors", "far_return", "say_gdt",
                "say_isr", "idt", "lidt", "say_idt"} \cup Ends
    BY DEF BootInv, Control, Testing, Ended, After, Ends
  <2>4. gdtr \in Limits /\ idtr \in Limits
    <3>1. gdtr \in {-1, 55} /\ idtr \in {-1, 4095}
      BY DEF LimitsInv
    <3>2. {-1, 55, 4095} \subseteq Limits
      BY ONLY DEF Limits
    <3> QED
      BY ONLY <3>1, <3>2
  <2>5. early \in BOOLEAN
    BY DEF LimitsInv
  <2>6. curr_tag \in 0..Len(tags) /\ write \in {"null", "terminal"}
    BY DEF TagsInv
  <2> QED
    BY <2>1, <2>2, <2>3, <2>4, <2>5, <2>6, Zenon DEF TypeOK
<1> QED
  BY <1>1, <1>2, <1>3, TagsKept, LimitsKept, BootInvariant, PTL DEF Spec

-----------------------------------------------------------------------------
(* The IDT.                                                                *)

\* Division with remainder.
LEMMA Divided ==
  ASSUME NEW x \in Nat, NEW b \in Nat \ {0}
  PROVE  /\ x \div b \in Nat /\ x % b \in 0..(b - 1)
         /\ x = b * (x \div b) + (x % b)
  BY Z3

\* There is no other quotient.
LEMMA Quotient ==
  ASSUME NEW x \in Nat, NEW b \in Nat \ {0}, NEW q \in Nat, NEW r \in 0..(b - 1),
         x = b * q + r
  PROVE  x \div b = q
<1> DEFINE p == x \div b
           s == x % b
<1>1. p \in Nat /\ s \in 0..(b - 1) /\ x = b * p + s
  BY Divided
<1> HIDE DEF p, s
<1>2. CASE p < q
  <2>1. b * p + b <= b * q
    BY <1>1, <1>2, Z3
  <2> QED
    BY <1>1, <2>1
<1>3. CASE q < p
  <2>1. b * q + b <= b * p
    BY <1>1, <1>3, Z3
  <2> QED
    BY <1>1, <2>1
<1>4. p = q
  BY <1>1, <1>2, <1>3
<1> QED
  BY <1>4 DEF p

\* A number of four words is its first word, its second, and the two others.
LEMMA Split ==
  ASSUME NEW W \in Nat \ {0}, NEW x \in Nat, x < (W * W) * (W * W)
  PROVE  x = (x % W) + W * ((x \div W) % W) + (W * W) * ((x \div (W * W)) % (W * W))
<1> DEFINE V == W * W
           q == x \div W
           r == x % W
           p == q \div W
           s == q % W
<1>0. V \in Nat \ {0}
  BY Z3
<1>1. q \in Nat /\ r \in 0..(W - 1) /\ x = W * q + r
  BY Divided
<1> HIDE DEF q, r
<1>2. p \in Nat /\ s \in 0..(W - 1) /\ q = W * p + s
  BY <1>1, Divided
<1> HIDE DEF p, s
<1>3. x = V * p + (W * s + r)
  BY <1>1, <1>2, Z3
<1>4. W * s + r \in 0..(V - 1)
  <2>1. W * s <= W * (W - 1) /\ W * s \in Nat /\ W * (W - 1) = V - W
    BY <1>2, Z3
  <2> QED
    BY <1>0, <1>1, <2>1
<1> HIDE DEF V
<1>5. x \div V = p
  BY <1>0, <1>2, <1>3, <1>4, Quotient
<1>6. p < V
  <2>1. CASE V <= p
    <3>1. V * V <= V * p
      BY <1>0, <1>2, <2>1, Z3
    <3>2. V * V = (W * W) * (W * W)
      BY DEF V
    <3>3. x >= V * p
      BY <1>0, <1>2, <1>3, <1>4
    <3> QED
      BY <1>0, <1>2, <3>1, <3>2, <3>3
  <2> QED
    BY <1>0, <1>2, <2>1
<1>7. p % V = p
  BY <1>0, <1>2, <1>6, Z3
<1>8. x = r + W * s + V * p
  BY <1>0, <1>1, <1>2, <1>3, Z3
<1> QED
  BY <1>5, <1>7, <1>8 DEF V, q, r, s

\* The addresses of the stubs are addresses.
LEMMA StubAddress ==
  ASSUME NEW v \in 0..LastStub
  PROVE  Stub(v) \in Nat /\ Stub(v) < (WordSize * WordSize) * (WordSize * WordSize)
<1> DEFINE A == (WordSize * WordSize) * (WordSize * WordSize)
           d == 256 - v
           m == d * StubSize
<1>1. WordSize \in Nat /\ StubSize \in Nat /\ StubSize > 0
  BY BootAssumption
<1>2. Top = A /\ 256 * StubSize <= A /\ A \in Nat
  <2>1. WordSize * WordSize * WordSize * WordSize = A
    BY <1>1, Z3
  <2>2. A \in Nat
    BY <1>1, Z3
  <2> QED
    BY <2>1, <2>2, BootAssumption DEF Top
<1> HIDE DEF A
<1>3. d \in 2..256
  BY DEF LastStub
<1>4. Stub(v) = A - m
  BY <1>2 DEF Stub
<1> HIDE DEF d
<1>5. m \in Nat /\ m > 0 /\ m <= 256 * StubSize
  BY <1>1, <1>3, Z3
<1> HIDE DEF m
<1>6. 256 * StubSize \in Nat
  BY <1>1
<1>7. Stub(v) \in Nat /\ Stub(v) < A
  BY <1>1, <1>2, <1>4, <1>5, <1>6
<1> QED
  BY <1>7 DEF A

\* What idt::init leaves in the table: the addresses of the stubs there are.
FilledIdt ==
  \E stray \in {0, Top - 1} :
    idt = [v \in 0..255 |-> Gate(IF v <= LastStub THEN Stub(v) ELSE stray)]

\* From the far return on the CPU executes in the 64-bit code segment; the IDT
\* is filled before lidt and not written any more.
GatesInv ==
  /\ point \in {"say_gdt", "say_isr", "idt", "lidt", "say_idt", "pics"} =>
       cs = 40 /\ gdtr = 55
  /\ idtr # -1 => cs = 40 /\ gdtr = 55
  /\ point \in {"lidt", "say_idt", "pics"} => FilledIdt
  /\ idtr # -1 => idtr = 4095 /\ point \in {"say_idt", "pics"}

\* The gates of the table, put together again, are the addresses of the stubs.
LEMMA FilledLead ==
  ASSUME Filled, FilledIdt, gdtr = 55, idtr = 4095, cs = 40
  PROVE  GatesLead
<1>1. IsCode64(40)
  <2>1. gdt[5].access = cs_access_bits /\ gdt[5].flags = {5}
    BY DEF Filled, Entries, Entry, NULL_ENT, _64BIT_DS
  <2>2. 40 \div 8 = 5 /\ InGdt(40)
    BY DEF InGdt
  <2>3. {7, 4, 3} \subseteq cs_access_bits /\ cs_access_bits \cap {5, 6} = {}
    BY DEF cs_access_bits
  <2>4. {5} \cap {5, 6} = {5}
    OBVIOUS
  <2> QED
    BY <2>1, <2>2, <2>3, <2>4, Zenon DEF IsCode64
<1>2. ASSUME NEW v \in 0..LastStub
      PROVE  /\ 16 * v + 15 <= idtr
             /\ Stub(v) = idt[v].offset_1 + WordSize * idt[v].offset_2
                            + WordSize * WordSize * idt[v].offset_3
             /\ idt[v].flags = {7, 3, 2, 1}
             /\ idt[v].selector = 40
  <2>1. v \in 0..255 /\ v <= LastStub /\ 16 * v + 15 <= idtr
    BY DEF LastStub
  <2>2. idt[v] = Gate(Stub(v))
    BY <2>1 DEF FilledIdt
  <2> DEFINE x == Stub(v)
  <2>3. x \in Nat /\ x < (WordSize * WordSize) * (WordSize * WordSize)
    BY StubAddress
  <2> HIDE DEF x
  <2>4. WordSize \in Nat \ {0}
    BY BootAssumption
  <2>5. x = (x % WordSize) + WordSize * ((x \div WordSize) % WordSize)
              + (WordSize * WordSize) * ((x \div (WordSize * WordSize)) % (WordSize * WordSize))
    BY <2>3, <2>4, Split
  <2>6. /\ idt[v].offset_1 = x % WordSize
        /\ idt[v].offset_2 = (x \div WordSize) % WordSize
        /\ idt[v].offset_3 = (x \div (WordSize * WordSize)) % (WordSize * WordSize)
    BY <2>2 DEF x, Gate
  <2>7. idt[v].flags = {7, 3, 2, 1} /\ idt[v].selector = 40
    BY <2>2 DEF Gate, get_selector, _64BIT_CS
  <2>8. x = idt[v].offset_1 + WordSize * idt[v].offset_2
              + WordSize * WordSize * idt[v].offset_3
    BY ONLY <2>5, <2>6
  <2> QED
    BY <2>1, <2>7, <2>8, Zenon DEF x
<1> QED
  BY <1>1, <1>2 DEF GatesLead

\* Neither table is written after it is loaded.
LEMMA GatesKept == SegmentsInv /\ GatesInv /\ [Next]_vars => GatesInv'
<1> SUFFICES ASSUME SegmentsInv, GatesInv, [Next]_vars PROVE GatesInv'
  OBVIOUS
<1>0. idt' = idt => (FilledIdt' <=> FilledIdt)
  BY DEF FilledIdt
<1> USE <1>0 DEF GatesInv
<1>1. CASE Assert \/ SetUp \/ ReadEcho \/ Normal
  BY <1>1 DEF Assert, SetUp, ReadEcho, Normal, Goto, Step, tableVars
<1>2. CASE GetTag \/ Found \/ Banner \/ Halt
  BY <1>2 DEF GetTag, Found, Banner, Halt, Goto, Step, tableVars
<1>3. CASE \/ Say("failed", "halt") \/ Say("say_gdt", "say_isr")
           \/ Say("say_isr", "idt") \/ Say("say_idt", "pics")
  BY <1>3 DEF Say, Step, tableVars
<1>4. CASE FillGdt \/ Lgdt
  BY <1>4 DEF FillGdt, Lgdt, Step
<1>5. CASE LoadData
  BY <1>5 DEF LoadData, Goto
<1>6. CASE LoadCode
  <2>1. IsCode64(40) => gdtr = 55
    BY DEF IsCode64, InGdt, SegmentsInv
  <2> QED
    BY <1>6, <2>1 DEF LoadCode, Goto
<1>7. CASE FillIdt
  <2>1. FilledIdt'
    BY <1>7, Zenon DEF FillIdt, FilledIdt
  <2>2. point = "idt" /\ point' = "lidt" /\ UNCHANGED <<gdtr, cs, idtr>>
    BY <1>7 DEF FillIdt, Step
  <2> QED
    BY <2>1, <2>2
<1>8. CASE Lidt
  BY <1>8 DEF Lidt, Step
<1>9. CASE HostByte \/ Transmit \/ End \/ UNCHANGED vars
  BY <1>9 DEF HostByte, Transmit, End, vars, tableVars
<1> QED
  BY <1>1, <1>2, <1>3, <1>4, <1>5, <1>6, <1>7, <1>8, <1>9 DEF Next, Steps

(* GatesLead: from lidt on, a vector that has a stub is a present          *)
(* interrupt gate in the table, whose selector is the 64-bit code segment  *)
(* that the CPU executes in, and whose three offsets are the stub's whole  *)
(* address.                                                                *)
THEOREM Gates == Spec => []GatesLead
<1>1. Init => GatesInv
  BY DEF Init, GatesInv
<1>2. SegmentsInv /\ GatesInv => GatesLead
  <2> SUFFICES ASSUME SegmentsInv, GatesInv, idtr # -1 PROVE GatesLead
    BY DEF GatesLead
  <2>1. Filled /\ FilledIdt /\ gdtr = 55 /\ idtr = 4095 /\ cs = 40
    BY DEF SegmentsInv, GatesInv
  <2> QED
    BY <2>1, FilledLead
<1> QED
  BY <1>1, <1>2, GatesKept, SegmentsInvariant, PTL DEF Spec
=============================================================================
