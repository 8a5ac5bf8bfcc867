-------------------------------- MODULE Boot --------------------------------
(***************************************************************************)
(* _start up to the PICs (kernel.cpp): the assertion, log::init with       *)
(* serial::init and the search for the boot loader's terminal, the banner, *)
(* GDT::install and IDT::install.  Nothing interrupts it; what matters is  *)
(* what the boot loader and the firmware left, the serial port's answers,  *)
(* and tables that the CPU reads in formats of its own.                    *)
(*                                                                         *)
(* A text is one byte on the serial port.  The tables are filled in one    *)
(* step each.  A word of 16 bits has WordSize values here.                 *)
(***************************************************************************)
EXTENDS Uart

CONSTANTS
  TagLists,    (* how many other tags may precede or follow the terminal's *)
  PortKinds,   (* the serial ports that are tried                          *)
  HostSends,   (* may the host send a byte?                                *)
  WordSize,    (* values of a word                                         *)
  StubSize     (* distance of the entry stubs in isr.asm                   *)

ASSUME BootAssumption ==
  /\ TagLists \subseteq Nat /\ PortKinds \subseteq Kinds /\ HostSends \in BOOLEAN
  /\ WordSize \in Nat \ {0} /\ StubSize \in Nat \ {0}
  /\ 256 * StubSize <= WordSize * WordSize * WordSize * WordSize

VARIABLES
  point,       (* where _start is                                          *)
  n,           (* the next of serial::init's writes                        *)
  capable,     (* can the boot loader provide a terminal?                  *)
  boot_info,   (* "null" or "given"                                        *)
  tags,        (* the list of tags: [identifier, term_write]               *)
  curr_tag,    (* get_tag's place in it; 0 is null                         *)
  write,       (* the terminal's function, or "null"                       *)
  said,        (* texts the d functions wrote                              *)
  early,       (* did the host send after the FIFO's reset, before loop?   *)
  gdt, gdtr,   (* GDT::table, and the limit that lgdt loaded, -1 before    *)
  cs, ds,      (* the code selector and the data selectors; -1 are the     *)
               (* boot loader's                                            *)
  idt, idtr    (* IDT::table, and the limit that lidt loaded, -1 before    *)

tagVars   == <<capable, boot_info, tags, curr_tag, write>>
tableVars == <<gdt, gdtr, cs, ds, idt, idtr>>
vars      == <<point, n, tagVars, said, early, tableVars, uartVars>>

Goto(p)    == point' = p
Step(p, q) == point = p /\ point' = q

Text     == {0, 3, 6}         (* some character                            *)
TestByte == {1, 2, 3, 5, 7}   (* 0xAE                                      *)

-----------------------------------------------------------------------------
(* assert, serial::init and test, log::init.                               *)

\* A d function writes its text, when the transmitter is empty.
Say(p, q) ==
  /\ Step(p, q) /\ TEMT
  /\ Out(0, Text) /\ said' = said + 1
  /\ UNCHANGED <<n, tagVars, early, tableVars>>

\* assert(boot_info), which reports a failure before the port is set up.
Assert ==
  /\ point = "assert"
  /\ Goto(IF boot_info = "null" THEN "failed" ELSE "port")
  /\ UNCHANGED <<n, tagVars, said, early, tableVars, uartVars>>

\* Fault: DLAB stays set.
Writes_Dlab ==
  << <<1, {}>>, <<3, {7}>>, <<0, {0, 1}>>, <<1, {}>>, <<3, {0, 1, 7}>>,
     <<2, {0, 1, 2, 6, 7}>>, <<4, {0, 1, 3}>>, <<4, {1, 2, 3, 4}>>, <<0, TestByte>> >>

\* The ports, from COM1, and the bytes that init and then test write: the
\* interrupts, DLAB, the divisor and 8N1; the FIFOs, the modem; loop, a byte.
Writes ==
  << <<1, {}>>, <<3, {7}>>, <<0, {0, 1}>>, <<1, {}>>, <<3, {0, 1}>>,
     <<2, {0, 1, 2, 6, 7}>>, <<4, {0, 1, 3}>>, <<4, {1, 2, 3, 4}>>, <<0, TestByte>> >>

SetUp ==
  /\ point = "port"
  /\ Out(Writes[n][1], Writes[n][2])
  /\ IF n < Len(Writes) THEN n' = n + 1 /\ UNCHANGED point
     ELSE Goto("echo") /\ UNCHANGED n
  /\ UNCHANGED <<tagVars, said, early, tableVars>>

\* test reads the port at once, and leaves it in loop mode if it fails.
ReadEcho ==
  /\ point = "echo"
  /\ \E b \in SUBSET Ones :
       In(b) /\ Goto(IF b = TestByte THEN "normal" ELSE "rejected")
  /\ UNCHANGED <<n, tagVars, said, early, tableVars>>

\* Back to normal mode; get_tag starts with the first tag.
Normal ==
  /\ Step("normal", "get_tag")
  /\ Out(4, {0, 1, 2, 3})
  /\ curr_tag' = IF tags = <<>> THEN 0 ELSE 1
  /\ UNCHANGED <<n, capable, boot_info, tags, write, said, early, tableVars>>

\* Faults: get_tag does not go on, or goes on past the end.
GetTag_Stays ==
  /\ point = "get_tag" /\ curr_tag # 0 /\ tags[curr_tag].identifier # "terminal"
  /\ UNCHANGED vars

GetTag_PastEnd ==
  /\ point = "get_tag" /\ curr_tag # 0 /\ tags[curr_tag].identifier # "terminal"
  /\ curr_tag' = curr_tag + 1
  /\ UNCHANGED <<point, n, capable, boot_info, tags, write, said, early, tableVars, uartVars>>

\* get_tag's loop: to the next tag.
GetTag ==
  /\ point = "get_tag" /\ curr_tag # 0 /\ tags[curr_tag].identifier # "terminal"
  /\ curr_tag' = IF curr_tag = Len(tags) THEN 0 ELSE curr_tag + 1
  /\ UNCHANGED <<point, n, capable, boot_info, tags, write, said, early, tableVars, uartVars>>

\* The loop ends; log::init keeps the terminal's function if there is one.
Found ==
  /\ point = "get_tag"
  /\ curr_tag # 0 => tags[curr_tag].identifier = "terminal"
  /\ LET f == IF curr_tag = 0 THEN "null" ELSE tags[curr_tag].term_write
     IN IF write # "null" \/ f = "null" THEN Goto("rejected") /\ UNCHANGED write
        ELSE Goto("banner") /\ write' = f
  /\ UNCHANGED <<n, capable, boot_info, tags, curr_tag, said, early, tableVars, uartVars>>

\* kprintf calls the function the boot loader gave; another one is no code.
Banner ==
  /\ point = "banner"
  /\ Goto(IF write = "terminal" THEN "gdt" ELSE "fault")
  /\ UNCHANGED <<n, tagVars, said, early, tableVars, uartVars>>

\* if (!log::init(boot_info)) cpu::halt();
Halt ==
  /\ Step("rejected", "halt")
  /\ UNCHANGED <<n, tagVars, said, early, tableVars, uartVars>>

-----------------------------------------------------------------------------
(* The descriptor tables.                                                  *)

\* gdt_entry_vec.
NULL_ENT  == 0
_16BIT_CS == 1
_16BIT_DS == 2
_32BIT_CS == 3
_32BIT_DS == 4
_64BIT_CS == 5
_64BIT_DS == 6

cs_access_bits == {7, 4, 3, 1}   (* present, ring 0, code, can be read     *)
ds_access_bits == {7, 4, 1}      (* present, ring 0, data, can be written  *)

Entry(access, flags, limit) == [access |-> access, flags |-> flags, limit |-> limit]

get_selector(vec) == vec * 8

\* The 32-bit entries: pages, 32 bits, and bits 16 to 19 of the limit.
Wide_NoLimit == {7, 6}
Wide == {7, 6, 3, 2, 1, 0}

\* The entries in the order of gdt_entry_vec.
Entries ==
  << Entry({}, {}, 0),
     Entry(cs_access_bits, {}, WordSize - 1),   Entry(ds_access_bits, {}, WordSize - 1),
     Entry(cs_access_bits, Wide, WordSize - 1), Entry(ds_access_bits, Wide, WordSize - 1),
     Entry(cs_access_bits, {5}, 0),             Entry(ds_access_bits, {}, 0) >>

FillGdt ==
  /\ Step("gdt", "lgdt")
  /\ gdt' = [vec \in NULL_ENT.._64BIT_DS |-> Entries[vec + 1]]
  /\ UNCHANGED <<n, tagVars, said, early, gdtr, cs, ds, idt, idtr, uartVars>>

Lgdt ==
  /\ Step("lgdt", "selectors")
  /\ gdtr' = 7 * 8 - 1
  /\ UNCHANGED <<n, tagVars, said, early, gdt, cs, ds, idt, idtr, uartVars>>

\* What the CPU asks of a selector and of its descriptor (external).
InGdt(sel)    == sel > 0 /\ sel % 8 = 0 /\ sel + 7 <= gdtr
IsCode64(sel) ==
  InGdt(sel) /\ {7, 4, 3} \subseteq gdt[sel \div 8].access
             /\ gdt[sel \div 8].access \cap {5, 6} = {}
             /\ gdt[sel \div 8].flags \cap {5, 6} = {5}
IsData(sel)   ==
  InGdt(sel) /\ {7, 4, 1} \subseteq gdt[sel \div 8].access
             /\ gdt[sel \div 8].access \cap {3, 5, 6} = {}

\* mov ds, es, fs, gs, ss: 0x30, by number; there is no IDT yet for a fault.
LoadData ==
  /\ point = "selectors" /\ ds' = 48
  /\ Goto(IF IsData(48) THEN "far_return" ELSE "fault")
  /\ UNCHANGED <<n, tagVars, said, early, gdt, gdtr, cs, idt, idtr, uartVars>>

\* retfq to 0x28.
LoadCode ==
  /\ point = "far_return" /\ cs' = 40
  /\ Goto(IF IsCode64(40) THEN "say_gdt" ELSE "fault")
  /\ UNCHANGED <<n, tagVars, said, early, gdt, gdtr, ds, idt, idtr, uartVars>>

\* The stubs of isr.asm, the last of which end at the top of the addresses; the
\* table of interrupts_handlers stops at 254.
Top       == WordSize * WordSize * WordSize * WordSize
Stub(v)   == Top - (256 - v) * StubSize
LastStub  == 254

\* Fault: the middle word is the low one.
Gate_Middle(isr) ==
  [offset_1 |-> isr % WordSize, offset_2 |-> isr % WordSize,
   offset_3 |-> (isr \div (WordSize * WordSize)) % (WordSize * WordSize),
   selector |-> get_selector(_64BIT_CS), ist |-> 0, flags |-> {7, 3, 2, 1}]

\* make_entry: present, ring 0, a 64-bit interrupt gate.
Gate(isr) ==
  [offset_1 |-> isr % WordSize,
   offset_2 |-> (isr \div WordSize) % WordSize,
   offset_3 |-> (isr \div (WordSize * WordSize)) % (WordSize * WordSize),
   selector |-> get_selector(_64BIT_CS), ist |-> 0, flags |-> {7, 3, 2, 1}]

\* IDT::install's loops; the last vector's gate is of what follows the table.
FillIdt ==
  /\ Step("idt", "lidt")
  /\ \E stray \in {0, Top - 1} :
       idt' = [v \in 0..255 |-> Gate(IF v <= LastStub THEN Stub(v) ELSE stray)]
  /\ UNCHANGED <<n, tagVars, said, early, gdt, gdtr, cs, ds, idtr, uartVars>>

Lidt ==
  /\ Step("lidt", "say_idt")
  /\ idtr' = 256 * 16 - 1
  /\ UNCHANGED <<n, tagVars, said, early, gdt, gdtr, cs, ds, idt, uartVars>>

-----------------------------------------------------------------------------
\* The host sends a byte, which the receiver hears unless it listens to the
\* transmitter.  One is enough.
HostByte ==
  /\ HostSends /\ kind \in {"slow", "fast"} /\ ~LOOP /\ rx = <<>>
  /\ rx' = <<Text>>
  /\ early' = (early \/ (point = "port" /\ n > 6))
  /\ UNCHANGED <<point, n, tagVars, said, tableVars, kind, divisor, lcr, mcr, shift, host>>

Transmit ==
  /\ Shift
  /\ UNCHANGED <<point, n, tagVars, said, early, tableVars>>

\* Nothing more: the machine halts, restarts, or goes on with the PICs.
Ends == {"halt", "fault", "pics"}
End  == point \in Ends /\ UNCHANGED vars

\* Fault: the framebuffer's tag ends the list.
Header_Ends == <<"framebuffer">>

\* The tags of st2_header, in which the kernel asks for a terminal.
Header == <<"framebuffer", "terminal">>

Other       == [identifier |-> "other", term_write |-> "garbage"]
Terminal(f) == [identifier |-> "terminal", term_write |-> f]

Others(k) == [i \in 1..k |-> Other]

\* The list with a terminal's tag among others.
With(f) == {Others(p[1]) \o <<Terminal(f)>> \o Others(p[2]) : p \in TagLists \X TagLists}

\* What the boot loader passes: a terminal if it was asked for one and has one,
\* or one without a function.
Passed ==
  IF capable /\ \E i \in 1..Len(Header) : Header[i] = "terminal" THEN With("terminal")
  ELSE {Others(k) : k \in TagLists} \cup With("null")

\* The firmware may have left the port in loop mode, or with DLAB set.
Init ==
  /\ point = "assert" /\ n = 1
  /\ capable \in BOOLEAN /\ boot_info \in {"null", "given"} /\ tags \in Passed
  /\ curr_tag = 0 /\ write = "null" /\ said = 0 /\ early = FALSE
  /\ gdt = [i \in 0..6 |-> Entry({}, {}, 0)] /\ gdtr = -1 /\ cs = -1 /\ ds = -1
  /\ idt = <<>> /\ idtr = -1
  /\ kind \in PortKinds /\ divisor = <<{0}, {}>>
  /\ lcr \in {{0, 1}, {0, 1, 7}} /\ mcr \in {{}, {4}}
  /\ rx \in {<<>>, <<Text>>} /\ shift = <<>> /\ host = <<>>

Steps ==
  \/ Assert \/ Say("failed", "halt")
  \/ SetUp \/ ReadEcho \/ Normal \/ GetTag \/ Found \/ Banner \/ Halt
  \/ FillGdt \/ Lgdt \/ LoadData \/ LoadCode \/ Say("say_gdt", "say_isr")
  \/ Say("say_isr", "idt") \/ FillIdt \/ Lidt \/ Say("say_idt", "pics")

Next == Steps \/ HostByte \/ Transmit \/ End

\* The CPU executes, and the port sends.
Spec == Init /\ [][Next]_vars /\ WF_vars(Steps) /\ WF_vars(Transmit)

-----------------------------------------------------------------------------
Limits == -1..65535  \* of the descriptor tables: 16 bits, or not loaded yet

TypeOK ==
  /\ point \in {"assert", "failed", "port", "echo", "normal", "rejected", "get_tag",
                "banner", "gdt", "lgdt", "selectors", "far_return", "say_gdt",
                "say_isr", "idt", "lidt", "say_idt"} \cup Ends
  /\ n \in 1..Len(Writes) /\ curr_tag \in 0..Len(tags)
  /\ write \in {"null", "terminal"}
  /\ said \in Nat /\ early \in BOOLEAN
  /\ gdtr \in Limits /\ idtr \in Limits
  /\ UartTypeOK

\* What the kernel sends after it set up the port comes out of it, all of it,
\* with the divisor and the format that were set, whatever the firmware left;
\* and the byte of the test never does.
Heard ==
  boot_info = "given" =>
    /\ \A i \in 1..Len(host) : host[i] = <<Text, <<{0, 1}, {}>>, {0, 1}>>
    /\ said > 0 /\ kind # "absent" => said = Len(host) + Len(shift)

\* "define the entries conforming the stivale2 spec" (gdt.cpp): from lgdt on,
\* the terminal of the boot loader finds the segments it switches to: of 64 KiB
\* and of 4 GiB, each the code and the data.
TerminalSegments ==
  gdtr # -1 =>
    /\ \A i \in {1, 2, 3, 4} :
         /\ InGdt(8 * i) /\ {7, 4, 1} \subseteq gdt[i].access
         /\ 3 \in gdt[i].access <=> i \in {1, 3}
         /\ gdt[i].limit = WordSize - 1
    /\ \A i \in {1, 2} : gdt[i].flags = {}
    /\ \A i \in {3, 4} : gdt[i].flags = {7, 6} \cup 0..3

\* From lidt on, every vector that has a stub leads to it through an interrupt
\* gate of ring 0 and the code segment that the CPU executes in.
GatesLead ==
  idtr # -1 => \A v \in 0..LastStub :
    /\ 16 * v + 15 <= idtr
    /\ Stub(v) = idt[v].offset_1 + WordSize * idt[v].offset_2
                   + WordSize * WordSize * idt[v].offset_3
    /\ idt[v].flags = {7, 3, 2, 1}
    /\ idt[v].selector = cs /\ IsCode64(cs)

\* The boot ends well when the port echoes and the boot loader has a terminal,
\* and halts otherwise: it neither hangs nor restarts the machine.  An echo
\* that is late, or after a byte of the host, may or may not do.
Works == boot_info = "given" /\ capable /\ kind \in {"slow", "fast"}
Sure  == kind = "fast" /\ ~early
Boots ==
  <>(/\ point \in {"pics", "halt"}
     /\ point = "pics" => Works
     /\ Works /\ Sure => point = "pics")

\* "check if the serial echoes the byte correctly" (serial.cpp): test, which
\* leaves the port in loop mode, does not reject one that does.
OnlyBadRejected == point = "rejected" /\ LOOP => kind \in {"absent", "faulty"}
=============================================================================
