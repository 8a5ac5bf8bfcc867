# A TLA+ model of MegaOS

MegaOS is a small x86-64 kernel (C++ and NASM, about 3500 lines) that the Limine
boot loader starts through the stivale2 protocol. It prints a banner, installs
its descriptor tables, remaps the interrupt controllers, enables interrupts and
then echoes what is typed on a PS/2 keyboard. This directory holds TLA+ modules
that model its control flow, TLC configurations that check them, and TLAPS proofs
of what holds for every value of the parameters. Paths below are relative to
`src/kernel/` unless they start with `src/`.

## 1. Inventory

| component | source | state | operations | talks to |
|---|---|---|---|---|
| boot path | `kernel.cpp` | program counter, the header | `_start`: log, GDT, IDT, PICs, sti, loop | everything |
| log routing | `logging.cpp` 93-181, 1079-1102 | `write`, `use_serial` | `dputc`, `dputs`, `dprint`, `dprintf` and the same with k | terminal, serial port |
| log set-up | `logging.cpp` 103-128 | `write` | `init`, `get_write_function` | serial, stivale2 |
| formatter | `logging.cpp` 197-1074, 1105-1146 | none | `_vsnprintf` and its helpers, `sprintf` and relatives | log routing |
| serial port | `serial.cpp` | UART registers | `init`, `test`, `send` | COM1 |
| interrupt entry | `arch/x86_64/isr.asm` | the stack | a stub per vector, two common tails | CPU, dispatch |
| dispatch | `arch/x86_64/interrupts.cpp` 8-155 | `handlers` | `cpu_exception_handler`, `irq_interrupt_handler` | keyboard, panic, PIC |
| PIC driver | `interrupts.cpp` 157-230 | the 8259As' registers | `remap`, `clear_irq_mask`, `send_eoi` (`set_irq_mask`, `disable` are never called) | ports 20h-A1h |
| keyboard | `devices/ps2keyboard.*` | `key_up` | `irq_handler` | port 60h, log |
| panic, assert | `panic.cpp`, `definitions.hpp` | none | three `kpanic`, `assertion_failed` | log |
| GDT, IDT | `arch/x86_64/gdt.*`, `lgdt.asm`, `idt.*` | two tables, `installed` flags | `make_entry`, `install`, `asm_lgdt` | CPU |
| stivale2 tags | `stivale2.hpp` 365-380 | a linked list | `get_tag` | boot loader |
| mkl | `src/mkl/` | none | an array without bounds checks | every table |
| build, boot files | `src/xmake.lua`, makefiles, `linker.ld`, `limine.cfg` | none | none at run time | |

**How they interact.** There is one CPU. `_start` runs with interrupts off until
`sti`. From then on an IRQ suspends it at any instruction: gates are interrupt
gates, so that IF is clear in handlers. An exception suspends either, at any
instruction after `lidt`. The handlers share with what they suspend the
global `use_serial`, the UART, and the terminal function of the boot loader; they
share with the devices the 8259As and the keyboard controller's output buffer.

**What is hard here.** No lock and no saved flag protects the log from the
contexts that use it. The mask, the vectors and the wiring of a PIC are written
through one port, told apart by the order of the bytes. A lost request edge
means that no other ever comes, since the keyboard controller holds one byte.
The boot trusts what the boot loader passes, what the firmware left in the UART
and that it echoes at once. A wrong descriptor restarts the machine, since there
is no IDT yet.
The end of interrupt does not say which request it ends. The stubs and a C++
structure agree on a layout only by convention. Nothing is persistent, and there
are no threads, retries or timeouts.

**What makes each component correct.**

- log: text goes to the place its function is meant for, whoever interrupts whom (it
  does not in two cases, which the runs show to be the only ones);
  a panic's report comes out in full; the UART's FIFO never overflows.
- PIC driver and dispatch: each request is delivered under the vector that has its
  handler, only when unmasked, one at a time; its service ends exactly once; each byte
  of the keyboard is read.
- entry stubs: handlers see the interrupted state under the right names; the ABI
  is kept; the interrupted code goes on as if nothing had happened.
- keyboard: each key acts as if its effect came when it went down, however late its
  bytes are read; the state of the shift recovers from a lost byte.
- formatter: the text is what C's `printf` would write, and `snprintf` stores its
  beginning, with a NUL, and nothing outside its buffer.
- boot, log set-up, serial port: the boot comes to the PICs or halts, and never
  hangs; what is sent once the port is set up comes out of it in the format set.
- tables: the CPU and the boot loader's terminal find in them the segments and the
  stubs that they use.

`PROJECT.json` lists the hazards, each at its line, with the properties for them.

## 2. Modules

| module | what it is |
|---|---|
| `Uart` | the 16550 behind COM1 (external hardware) |
| `Boot` | extends `Uart`: `_start` up to the PICs, with what the boot loader and the firmware left |
| `BootProofs` | what the host hears, the terminal's segments, where the gates lead, for every list of tags and size of a word |
| `Log` | three nested contexts (`main`, `irq`, `exc`) write through one flag |
| `LogProofs` | its type correctness and safety properties for every length of text |
| `Pic` | the two 8259As behind their four ports (external hardware) |
| `Interrupts` | extends `Pic`: `_start` programs the PICs, the CPU takes requests, handlers run and end them |
| `InterruptsProofs` | its safety properties for every set of masks and devices, and that it implements `Service` |
| `Service` | abstract specification: open requests are served one at a time, by priority |
| `InterruptEntry` | one interrupt's way through the stubs, the frame, the handler, and back |
| `EntryProofs` | its invariants for every set of vectors and error codes |
| `Keyboard` | a keyboard (external), its bytes on their way, the handler's decoder, a terminal line (external) |
| `Typewriter` | abstract specification: what somebody who types expects |
| `KeyboardProofs` | its properties for every set of keys, and that it implements `Typewriter` |
| `Induction` | induction and recursion over an interval of numbers, for the proofs |
| `Kernel` | extends `Interrupts` and instantiates `Keyboard`: the decoder behind the interrupts |
| `KernelProofs` | the composition implements the decoder's specification, and so `Typewriter` |
| `Printf` | `_vsnprintf` and its helpers, C's text, and where the two differ |
| `PrintfProofs` | what is written is C's text, and what is stored of it, for every directive, argument and size of buffer |
| `MCBoot`, `MCLog`, `MCInterrupts`, `MCInterruptEntry`, `MCKeyboard`, `MCKernel`, `MCPrintf` | bounds for TLC |

`Boot` ends where `Interrupts` begins, at `isr::install`. `Log` has the messages of the whole of
`_start` and takes `log::init` to have succeeded.

Operators whose names end in a fault (`Poll_NoWait`, `Offset_Same`, ...) are not
part of `Next`: each is a variant of the definition after it with a plausible
mistake, and stands there to show that a property notices the mistake.

### Uart and Boot

Each access to the port by `serial::init` and `serial::test` is a step: `Writes` is the list of their
nine writes, a byte being the set of its one bits. `Uart` has the registers as the data sheet
has them: the first two are the divisor's while the line control register's top bit (`DLAB`) is set,
in loop mode what is sent is received and not heard. It starts as some
firmware may leave it, with `DLAB` or the loop set or a byte received. A port is absent, faulty, slow
(the byte leaves in a later step) or fast. `host` is what came out of the line, each byte with the divisor
and the format that were set then, since a host hears nothing if they differ from its own.

`tags` is the list that the boot loader passes; `GetTag` is one turn of `get_tag`'s
loop and `Found` its end with `get_write_function` and `log::init`. `Passed` is what the
loader may pass, given the tags in `Header` by which the kernel asks. `FillGdt` and `FillIdt` are the calls of
`make_entry` in a row, which touch nothing but their table; the CPU's checks of a selector (`IsCode64`,
`IsData`) decide whether the loads of `lgdt.asm` fault. A word has 64 values instead of 65536, so that
an offset has three parts as in the code and TLC can count them. The texts that `_start` writes with
`dputs` are one byte each: what happens inside a text is `Log`'s business.

### Log

`site[k]` is the call site at which context `k` is, and `Succ` the control graph of
`_start`, of `irq_interrupt_handler` with the keyboard's handler, and of
`cpu_exception_handler` with the three `kpanic` (frame dump, description when
`int_no` is below 32, registers, banner, cause). `pc[k]` is the point inside the
call: `call` (not started), `loop` (before a character), `term` (inside the
terminal function), `poll` and `out` (the two halves of `serial::send`). `CallD`
sets the flag, `Return` clears it whatever it was before, and `Putchar` reads it
for each character, as the volatile global is. A text is the number of its
characters that are left; each may be a newline, which `dputc` sends as two bytes.
A context's step needs every context above it to be absent. `EnterIrq` needs
`InterruptsEnabled`; `EnterExc` needs `lidt` done. Exceptions inside exceptions
are not modelled: a panic is the last thing the machine does.

An IRQ is the keyboard's, or one that has no handler: with the protocol's masks a request that
vanished, which arrives as IRQ 7 however it is masked (`Spurious` in `Interrupts`), with
other masks any device's. Its report is a `dprintf`, which clears the flag when it returns.
`reported` is a history variable that no guard reads: since `_start`'s current call began,
such a report has returned. With it `FlagOwned` says exactly when the flag is set, and
`MessagesRouted` exactly which messages go astray: those of `_start` that a report cut, and a
backspace that finds `_start` inside a d function that none has cut.

### Pic and Interrupts

A byte is the set of its one bits. `OutCommand` and `OutData` give a byte the
meaning the chip gives it: ICW1 clears the mask, the requests and the services, and
the next three data bytes are initialisation words. `Eligible` is the priority
resolver; requests are edges, latched even when masked. The slave reaches the CPU
through line 2 of the master if both ICW3 say so.

`_start` and `remap_pic` are one action for each port access, in the code's order;
`Enter` pushes a frame and clears IF; `RunHandler`, `EoiSlave`, `EoiMaster` and
`Iret` are what the stubs and `irq_interrupt_handler` do. `obf` is the output buffer
of the keyboard controller: `KeyByte` fills it and raises IRQ 1; the read in the
keyboard's handler empties it. The environment is `KeyByte`, `DeviceIrq` and
`Spurious` (a request that vanished before it was acknowledged: line 7 of its
chip, nothing in service). What the handlers print is `Log`'s business.

### Service

`Service` has what is pending, what is being served, and whether the kernel takes requests:
no chip, vector, mask register or stack. `Served` in `Interrupts` is the mapping: pending is both
chips' latched requests, but for the line that connects them; what is served is the top frame's
request; `Closed` follows from the boot loader's masks. A request that vanishes is served as
that of its chip's last line. Everything that the boot writes to the chips is a stutter, but for
ICW1, which may forget requests (`Reset`), and `sti` (`Start`).

### Kernel

`Keyboard` takes its bytes from a sequence `wire` and says nothing of how they get there. In `Kernel` they
wait in the keyboard (`fifo`), then one is in the controller (`port`, when `obf`), and
`wire` is defined as both. `Transfer` is the `KeyByte` of `Interrupts` with the byte it brings;
`Dispatch` is `RunHandler`, with `irq_handler` of `Keyboard` done to what the port gives if the vector is the
keyboard's. `in(0x60)` without a byte gives the last one again, so that a handler that
ran in vain, twice or too early would decode a byte twice or out of order.

### InterruptEntry

The stack is the sequence of words pushed since the interrupt; each word says
what it is. `Interrupt` is the CPU (alignment, five words, an error code for the
exceptions that have one), `Stub` the two words of the vector's stub, `Save` and
`Restore` the two macros with `cld` and `add rsp, 16`, `Field(name)` a read through
`struct interrupt_frame`. The C++ handlers are reduced to how they dispatch.
The debug build is modelled, where `assert` is not empty. In it no exception handler
ever returns, so that the popping half of `handle_isr_common` is unreachable;
`Restore` and `Iretq` stand for its text as well, since the two tails are the same.

### Keyboard and Typewriter

`irq_handler` of `Keyboard` is the handler: it takes the first byte of `wire`, `KeyUp` is
what its switch does to the two bits of `key_up`, and `Text` what it writes through
`log::kprint`. `kmap_lower` and `kmap_upper` keep which entries are `'\0'` and which are
the same in both tables; a sign is otherwise named by its code and its table. The
keyboard is external: scan code set 1 with `E0` before extended keys, typematic
repetition of the key pressed last, PrintScreen with the left shift it sends along, and
room for `FifoSize` bytes, beyond which, with `Overrun`, a key's bytes are lost. The
terminal is external too: one line, `\b` moving left, tabs, and a new line at the right
edge. The kernel's other output is left to `Log`.

`Typewriter` has the same keys and a line, but no bytes. `Typed` maps its line to what
the terminal shows once `wire` has been read (`Settled`), so that `irq_handler` is a
stutter and a key has its effect when it goes down. When a key is lost, or the left shift
was held during the boot, `intact` is false, and `Typewriter` allows `Lose` once and
promises nothing from then on. The typewriter has the driver's conventions where a keyboard's user
may have others: the right shift does nothing, either of shift and caps lock gives the
upper sign (of digits too), and an extended key counts as the plain key of that code
(its prefix is above 57 and ignored), which suits the keypad's Enter but not its
`/`, whose code is that of `!` on this French layout.

Caps lock repeats like any other key, and each of its make codes changes the bit, unlike a
real lock (`ps2keyboard.cpp:23`, which calls it "caps lock pressed"): one press leaves the lock
on or off depending on how long it lasts. `lock` counts the make codes that were sent and not
lost, so that `LockFollows` holds whatever is repeated and whatever is lost, and shows just that.
`Typewriter` has the same convention.

PrintScreen sends `E0 2A E0 37`, of which the handler takes `2A` for the left
shift (`ps2keyboard.cpp:21`), so that letters are upper case while it is held. It is not among
the keys of the run `keyboard`, and the proofs of `ShiftFollows` and `TypesAsStruck`, which are
false with it, exclude it; the types, `LockFollows` and `ErasedBeyond` hold with it.

### Printf

Each action is one part of `_vsnprintf`'s loop (a flag, the width, the conversion, ...),
`format` what is left to read, `args` the `va_list`. `ntoa`, `ntoa_format` and `out_rev`
are the functions of those names as operators on sequences of characters; `OutBuffer`
is a run of calls of `_out_buffer`. Widths of integers are constants: the run
has 6 bits for `int` and a conversion buffer of 6 characters, so that both limits are
met. `_ntoa_long_long` is `_ntoa_long`, since both types have 64 bits on x86-64.
The loop of `_ntoa_long` is `Quotient`, `DigitCount` and `DigitAt`: what is left of the value
after each round, how many rounds there are, and the character of each.

`CText` is the reference, written from what a directive means and not from the code: a
number's numeral, for one, is the digits of its quotients by the powers of the base (`Places`,
`Numeral`), the first worth most, and the same numeral is what the caller writes for a
width or a precision. `Defined` says which directives C gives a meaning; of the others only the types and
what is stored is claimed.

The formatter is known not to agree with C in six cases, which `Differs` names, each
with its line; in every other case the texts are the same. They are:
a number that does not fit the 32 characters of `buf` (`TooLong`); a precision with a left
justified field (`LeftPrecision`, line 313); a pointer with a wider field than its digits, or left
justified (`PointerField`, line 1037); a negative precision (`NegativePrecision`,
line 817); a prefix in a field that the number fills (`PrefixInField`, line 332); and `#`
with a precision in octal (`OctalPrecision`, line 349). In the run they exclude
7278 of the 40308 calls with a directive that C defines, and all but 180 of those do differ. The directives the
kernel uses (`%d`, `%s`, `%#lX`) are never among them (`KernelFormats`). That C writes the
`X` of `%#X` in upper case is left out of the comparison.

## 3. Runs

| run | bounds | shows |
|---|---|---|
| `boot` | every kind of port, up to 2 tags before and after the terminal's, one byte of the host at a time | `Heard`, `TerminalSegments`, `GatesLead`, `Boots`, `TypeOK` |
| `boot_slow` | a slow port | `OnlyBadRejected` is violated |
| `log` | texts of 1-3 characters; the keyboard's IRQs, unhandled ones, exceptions | `MessagesRouted`, `PanicRouted`, `ReentryNeedsReport`, `TxBounded`, `FlagOwned`, `HandlerReturns`, `PanicHalts`, `TypeOK` |
| `log_erase` | as `log` | `HandlerRouted` is violated |
| `log_report` | as `log` | `MainRouted` is violated |
| `interrupts` | a timer, the slave's clock and disk, a serial port, some unmasked; vanishing requests | `VectorNamesIrq`, `NoNesting`, `MasksKept`, `EoiEndsOwn`, `ServiceEnds`, `KeyHasRequest`, `KeyReadIsReal`, `TypeOK`; the refinement `ServesInOrder`; `ServesOn` |
| `interrupts_early` | all lines masked at boot; a byte may come before the master's reset | `KeyRead` is violated |
| `entry` | all 255 vectors that have a stub, five error codes | `FrameComplete`, `CallKeepsAbi`, `Resumed`, `IrqDispatched`, `TypeOK` |
| `entry_abort` | as `entry` | `AbortsPanic` is violated |
| `keyboard` | shift, caps lock, a letter, backspace, tab, extended Enter, all of which repeat; 2 held, room for 2 bytes, overruns, lines of 3 columns | `ShiftFollows`, `LockFollows`, `ErasedBeyond`, `TypeOK`; the refinement `TypesAsStruck` |
| `kernel` | shift and extended Enter, room for 3 bytes, a clock on the slave, vanishing requests | the refinement `DecodesOnce`; `AllRead` |
| `printf` | 2284 directives, buffers of 0, 1 and 6 characters | `FormatsAsC`, `Truncated`, `TypeOK` |

Deadlock is checked in every run but `printf`, where a call ends.

**Why the bounds are enough.** In `boot` two tags make a first, a middle and a last one; 64
values for a word keep its three parts apart, and stubs 9 apart cross a word's end. The
host has one byte on the line at a time, which is what the receiver's position in `test` depends on. In `Log` a
text matters by whether it has a character left; three is the length of the erase
sequence, and the proofs drop the bound. `interrupts` has a line above the keyboard's, two
on the slave, one below, open and masked ones, and the keyboard's: each relation of priority that two
requests can have. It starts from masks the stivale2 protocol would not leave, on purpose: with
everything masked, saving and restoring a mask and the second chip's end of
interrupt would hardly be exercised. The proofs hold for every set of masks and
devices. `entry` is exhaustive in the vectors; the error codes are no error, a
write fault, a selector that is also an abort's number, and the kernel's code
selector. In `keyboard` two keys held are a shift and a key, or a key and the next;
two bytes are a make code after another, and an extended key fills the buffer, so
that anything can be lost; three columns are a tab stop, a sign and the edge. In `kernel`
three bytes are an extended key's and one more behind the one in the controller, and
the clock's requests and vanished ones come between them. `printf`
combines ten sequences of flags, seven widths and six precisions with five
conversions, and length modifiers with five, at numbers on both sides of every width.

**Disagreements the runs show.**

- `log_erase`: a backspace during `dputs("Interrupts enabled")` is echoed
  with `kprint`, which finds `use_serial` set: the erase sequence goes to the serial
  port (`logging.hpp:28`).
- `log_report`: the report of an IRQ without a handler, during the same `dputs`, clears `use_serial`
  (`logging.cpp:1089`), so that the rest of the text goes to the terminal (`logging.hpp:34`);
  a key may then be echoed while `_start` is inside the terminal's function, which is
  not reentrant. `MessagesRouted` and `ReentryNeedsReport` say that nothing else does either.
- `interrupts_early`: a byte that reaches the controller before ICW1 (the release of the
  key pressed in the boot menu, say) loses its request; its byte stays, and the
  keyboard is dead. The model is that of the data sheets: the controller raises its line when a
  byte enters the empty buffer, the PIC takes edges, and ICW1 forgets requests.
- `entry_abort`: exception stubs push the error code and then the
  vector; the structure has them the other way round. The class, the handler and the
  description are looked up with the error code (`interrupts.cpp:123-136`,
  `panic.cpp:63`).
- `boot_slow`: `serial::test` reads the port in the instruction after it wrote to it
  (`serial.cpp:15`). A port that takes its time has not looped the byte back, so that a good one is
  rejected, left in loop mode, and the machine halts in silence. An emulator's port is fast.

Three more disagree with a comment but have no run of their own, since the models have them as they
are and the passing runs say what follows. `send_eoi` compares the vector, never below 32, with 8
(`EoiForSlave`), so that the slave gets a command for the master's requests too, against
`interrupts.cpp:220`; since handlers do not nest, nothing is in service there and the command is
harmless, which is what `EoiEndsOwn` and `ServesInOrder` show. The other two are caps lock's repetition and
PrintScreen's shift, of which section 2 speaks.

**Fairness.** `Spec` of `Boot` has weak fairness for the CPU's steps, with interrupts off and
nobody else to run, and for the UART's transmitter. `FairSpec` of `Log` has weak fairness for each
context's own steps, `Iret` and the UART. A context whose step is enabled is the one the CPU
executes, and nothing but a higher context stops it; IRQs may still come
for ever, so that `_start` is not said to progress. `FairSpec` of `Interrupts` has weak
fairness for the boot steps, the handler steps and `Deliver`: IF is set in the final
loop, a pending request stays pending, and the PIC offers it rather than a vanished one. With
a timer on a higher line the keyboard could be starved, so that `ServesOn` says that some open
request is served, and `KeyRead` is stated with the protocol's masks, which leave no other line open.
`FairKernel` adds weak fairness of the controller, which takes the next byte when it has room, and
`AllRead` supposes that the typing ends (`Quiet`) and that the other lines are below the keyboard's.

## 4. Proofs

All theorems are checked by TLAPS with SMT, Zenon and PTL; they assume only the named
assumptions on the constants, and those said here.

`BootProofs` (any `TagLists`, ports, `WordSize`, `StubSize`)

- `HostHears`: `Heard`. `BootInv` follows the nine writes (`Programmed`: what is set by the time `n`) and
  has to know where the byte of the test is: in the transmitter while the port is in loop mode, and
  gone when `test` succeeds (`InTest`), since the next write ends loop mode and would let it out.
- `Segments`: `TerminalSegments`.
- `TypeCorrect`: `TypeOK`. `TagsInv` keeps `get_tag` inside the list, `LimitsInv` has the limits that
  `lgdt` and `lidt` are given, or none.
- `Gates`: `GatesLead`, from `SegmentsInv` and `GatesInv`: nothing writes to the IDT after `FillIdt`,
  and `cs` is the new selector since the far return. `Split` puts the three parts of an offset together
  again: quotient and remainder by `WordSize`, then once more. It takes from `BootAssumption` that
  the 256 stubs lie within an address of four words.

`LogProofs` (any `MaxText`)

- `CallInvariant`, `TypeCorrect`: types, a context that writes nothing is at `call`, and
  IRQs come only after `sti`.
- `FifoBound`: `TxBounded`. Not inductive: between the test and the write, other
  contexts send. `SendInv` counts what they can have sent by then: a context at `out`
  found the FIFO empty, and only those above it, at most one of them at `out`, have
  sent since.
- `PanicReport`: `PanicRouted`. `PanicInv` adds that the banner is printed with the flag
  clear, because a d function returned just before it (`SuccSites`).
- `FlagIsOwned`: `FlagOwned`, both directions. It is inductive beside `CallInv`: only `CallD` and
  `Return` touch the flag, and of the handler's calls only the report is one of a d function.
- `MainMessages`: `MessagesRouted` and `ReentryNeedsReport`, without a condition. `Putchar` chooses by
  the flag, of which `FlagOwned` says what it is; `EchoOnce` adds that the echo's single
  character is written without it. What the conditions in the two properties leave out are
  the runs `log_erase` and `log_report`.

`InterruptsProofs` (any `BootMask`, `Devices`, `Glitches`)

- `BootInvariant`: `StackInv` (at most one frame; IF only with none, after boot),
  `ProgramInv` (what each chip has been told, by where `_start` is), `MaskInv` (where the boot
  loader's masks are: in a chip, or in the local copy), `ServiceInv` (what is in service,
  by where the handler is). `EoiEndsOwn` alone is not inductive: that the service ends
  needs that only one request is in it, which needs IF, which needs the stack.
- `TypeCorrect`, `Vectored` (`NoNesting`, `VectorNamesIrq`), `MasksRestored` (`MasksKept`),
  `Requests` (`EoiEndsOwn`, `ServiceEnds`) follow from it.
- `KeyRequests`: `KeyHasRequest` and `KeyReadIsReal` when no byte comes before the
  reset; `KeyInv` is the exact place of the one byte. The run `interrupts_early`
  shows that the assumption is needed.
- `Implements`: `ServesInOrder`, from the same `BootInv`. `OpenLines` says what the chips may ask for
  after the boot, `DeliverServes` that the priority resolver of two chips, one behind the
  other's line 2, picks the request of the least `Rank`.

`KernelProofs` (any keyboard, masks, devices; no byte before the reset)

- `ImplementsDecoder`: `DecodesOnce`. From `KeyReadIsReal` the port holds the first byte of `wire` whenever the
  handler reads it; `Projected`: every step is one of `Interrupts` or leaves its state, which carries its invariants over.
- `KernelTypes`: `TypesAsStruck` of the whole, from `ImplementsDecoder` and `DecoderTypes` below, under the
  assumptions of both: from a key going down to the line on the screen, through the controller, the PICs,
  the stubs' dispatch and the decoder. No run checks it on `Kernel`; its two halves are the runs `kernel`
  and `keyboard`.

`EntryProofs` (any `Vectors` that have a stub, any `ErrorCodes`)

- `EntryInvariant`: `StackInv` says how long the stack is at each point and which word is at
  which place, counted from the interrupted code's stack pointer, which may be off a multiple of 16;
  `RegsInv` whose the registers and DF are. Both `TypeOK` and `FrameComplete` need it, since a field is found from
  the other end of the stack. `Orders` and `FieldAt` tie `popa64`, `pusha64` and the structure together.
- `TypeCorrect`, `Frames`, `CallsKeepAbi`, `Resumes`, `Dispatches` are the run's five invariants.

`KeyboardProofs` (any `Keys`, `BootKeys`, sizes, losses or not)

- `ShiftBitFollows` (no PrintScreen): `ShiftFollows`. `SettledBy(wire, key_up)` says what the shift bit
  will be by the last byte about it on the wire; `AppendByte` and `ReadByte` tell what it
  becomes when a byte is sent and read, `SendByte` combines them with what may be lost.
- `TypeCorrect`: `TypeOK`. The line keeps its type because what a string of characters shows is a
  recursive function on its length, and `Induction` says what such a function keeps.
- `NothingBeyond`: `ErasedBeyond`; `ByteDoes` is what one byte, whichever, does to the line.
- `LockBitFollows` (any keys, repetition and losses): `LockFollows`. `Settled` is a recursion over the wire;
  it does not change when a byte is read (`Handled`), and is one step further when a byte is sent. A code
  is sent or lost as a whole (`SentOrLost`), and of all bytes only the make code of caps lock
  changes the bit (`KeyTogglesLock`).
- `DecoderTypes` (no PrintScreen): `TypesAsStruck`, the refinement of
  `Typewriter`. `TypesInv` adds to the above that a key that repeats is held, and
  `Agrees`: as long as nothing was lost, once the wire is read the line is clean beyond its cursor and the
  shift bit is the left shift's. A typewriter's line is what is left of the cursor, so that
  an erased character must be blank there for a tab to show what the typewriter shows.
  The assumption is needed; section 2 says what happens otherwise.

`PrintfProofs` (any directives, arguments, widths of types and sizes of buffers, by the assumptions of
`Printf`: a number in a directive fits `unsigned int` and a width's is not 0, which would be a flag; a `*` takes
an `int` that has an opposite, `maxlen` a `size_t`; a pointer's digits fit `buf`)

- `PrintfInvariant`: `WalkInv`, `SpecInv` and `BufferInv`. The walk is safe if the NUL is not passed
  and no argument is taken that was not given. For the latter `Part(format, n)` says that `n` places of what
  is left cover every character that may take an argument; a step that takes one moves past such a
  character, and a step that skips uncovers none. `FormatOf` is put together from parts with a
  bound each (`Written`, the flags, the length), and the bounds add up to the arguments passed.
- `TypeCorrect`: `TypeOK`; `width` and `precision`, which `atoi` reads digit by digit, stay numbers.
- `Truncates`: `Truncated`, from `StoredInv`: until the NUL is written, cell `k` has
  the text's character `k + 1` if there are both the character and room for it, and is untouched otherwise.
- `Formats`: `FormatsAsC`. The invariant is `ReadsInv`: for each stage of the walk, what is left of the format and of
  the arguments, and which part of the caller's meaning `flags`, `width` and `precision` hold by then
  (`AtText`, `AtFlags`, ... `AtSpecifier`); behind the conversion it is that the text is C's (`Result`).
  `FormatsAsC` alone, which speaks of the end, says nothing that a step could keep. The argument has three parts.
  *Numerals*: dividing again and again is dividing by a power (`Divided`), so that the loop stops after as many rounds as the
  numeral has places (`CountIs`) and its digits are the numeral's backwards (`LoopDigits`); `atoi` of a numeral is
  the number (`NumberRead`). *The walk*: one lemma per action (`ReadsFlag`, `ReadsWidth`, ...), each of which
  splits the format at a part's end. *The conversions*: what `_ntoa_format` and `_out_rev` write is sign, prefix, zeros and
  digits, padded (`FieldOf`; `FormatLeft`, `FormatRight`, `FormatZeros` and `FormatHashZeros` by field), where nothing is
  dropped because `buf` is full; C's text is the same from the other side (`CDigitsIs`, `CPrefixIs`, `CBodyIs`), and
  `IntegerFacts` draws from "none of the six cases" what makes them equal. Each case excluded is one that a step of
  these needs: the prefix's for the zeros that `#` takes back, the octal one for the zero it adds, and so on.
- `KernelFormats`: `%d`, `%s` and `%#lX` are in none of the six cases, so their text is C's, if `KernelFits`: the 32
  characters of `buf` are at least `IntBits \div 2 + 2` and `LongBits \div 4 + 3`, 18 and 19 on this machine. That a
  number has no more digits follows from `PlacesFew`: a power of 10 is at least one of 4, and one of 16 is one of 2.

`Induction` has what the others need of induction. The library's theorems on it have an operator as a
parameter, which the provers cannot instantiate; here a set stands for the predicate and a function
for the step, and the ground is that strict inclusion is well founded on finite sets,
which the library states of sets. `Recursion` gives the equations of a recursive function on `0..n`.

Only model-checked: the liveness properties (`Boots`, `HandlerReturns`, `PanicHalts`, `ServesOn`, `AllRead`),
since TLAPS proves nothing under fairness. Every invariant, every action property and every refinement of the passing runs
is a theorem.

## 5. Not modelled

- Exceptions during a panic, and non-maskable interrupts in handlers.
- `_out_char`, `_out_fct` and `_out_null` of the formatter (`Log` has the first's effect), the
  width of its own counters, and the address 0 as a buffer. The conversions of floating point
  numbers are compiled out.
- The right shift, control and alt keys have no effect in the driver; Pause, which
  has no break code and whose bytes do not follow the pattern, is not among the keys.
- `set_irq_mask` and `pic::disable`, which nothing calls.
- The checks that keep `install` from a second call and `make_entry` from an index too far: each
  is called once, with constants.
- Vector 255, for which there is no stub: its gate leads to whatever follows the table, and nothing raises it.
- The release build (`assert` empty): an error code of 33 would then run the keyboard's
  handler, larger ones would index past the tables.
- Most of `stivale2.hpp`: structures that nothing uses. `mkl`: an array without bounds checks, whose elements
  are in the models of its users, and an empty header. Build and boot files: they
  decide only whether `assert` is empty, and where the kernel is loaded.

## 6. Plan

Everything above is done. What is worth adding, in order:

1. `Printf`: the number of characters returned by `_vsnprintf` against `CText`, and several directives
   in one format.
2. `Log`: an exception inside the terminal function of the boot loader, once something is known of
   what that function does when it is entered twice.
