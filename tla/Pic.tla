-------------------------------- MODULE Pic --------------------------------
(***************************************************************************)
(* The pair of 8259A interrupt controllers as the kernel drives it         *)
(* (interrupts.hpp, namespace pic): the hardware behind the ports          *)
(* MPIC_COMMAND, MPIC_DATA, SPIC_COMMAND and SPIC_DATA.                    *)
(*                                                                         *)
(* A byte is the set of its one bits, so that bit l of a mask, request or  *)
(* in-service register is line l.  The slave's output is the master's line *)
(* 2.  Requests are edges; priorities are fully nested, line 0 the highest.*)
(***************************************************************************)
EXTENDS Integers

VARIABLES
  imr,      (* imr[c]: lines chip c masks                                  *)
  irr,      (* irr[c]: lines with a latched request (masked or not)        *)
  isr,      (* isr[c]: lines in service, until an end of interrupt         *)
  base,     (* base[c]: the byte that places c's vectors                   *)
  icw3,     (* icw3[c]: how c is wired to the other chip                   *)
  expects   (* expects[c]: the meaning of the next byte to c's data port   *)

picVars == <<imr, irr, isr, base, icw3, expects>>

Chips == {"MPIC", "SPIC"}
Lines == 0..7
Bytes == SUBSET Lines
Cascade == 2   (* the master's line the slave is connected to              *)

Bit(b, i, w) == IF i \in b THEN w ELSE 0
Value(b) ==
  Bit(b, 0, 1) + Bit(b, 1, 2) + Bit(b, 2, 4) + Bit(b, 3, 8) + Bit(b, 4, 16)
    + Bit(b, 5, 32) + Bit(b, 6, 64) + Bit(b, 7, 128)

Vector(c, l) == Value(base[c] \ {0, 1, 2}) + l

-----------------------------------------------------------------------------
\* A byte to the command port.  With bit 4 it is ICW1, which resets the chip
\* and starts an initialisation (the kernel always announces an ICW4); the
\* byte 0x20 is the non-specific end of interrupt, which ends the line in
\* service of the highest priority.
OutCommand(c, b) ==
  \/ /\ {0, 4} \subseteq b
     /\ imr' = [imr EXCEPT ![c] = {}]
     /\ irr' = [irr EXCEPT ![c] = {}]
     /\ isr' = [isr EXCEPT ![c] = {}]
     /\ expects' = [expects EXCEPT ![c] = "icw2"]
     /\ UNCHANGED <<base, icw3>>
  \/ /\ b = {5}
     /\ isr' = [isr EXCEPT ![c] = {l \in isr[c] : \E m \in isr[c] : m < l}]
     /\ UNCHANGED <<imr, irr, base, icw3, expects>>

\* A byte to the data port: the next initialisation word, or else the mask.
OutData(c, b) ==
  /\ \/ /\ expects[c] = "icw2"
        /\ base' = [base EXCEPT ![c] = b]
        /\ expects' = [expects EXCEPT ![c] = "icw3"]
        /\ UNCHANGED <<imr, icw3>>
     \/ /\ expects[c] = "icw3"
        /\ icw3' = [icw3 EXCEPT ![c] = b]
        /\ expects' = [expects EXCEPT ![c] = "icw4"]
        /\ UNCHANGED <<imr, base>>
     \/ /\ expects[c] = "icw4"
        /\ expects' = [expects EXCEPT ![c] = "mask"]
        /\ UNCHANGED <<imr, base, icw3>>
     \/ /\ expects[c] = "mask"
        /\ imr' = [imr EXCEPT ![c] = b]
        /\ UNCHANGED <<base, icw3, expects>>
  /\ UNCHANGED <<irr, isr>>

\* A device raises line l of chip c.
Raise(c, l) ==
  /\ irr' = [irr EXCEPT ![c] = @ \cup {l}]
  /\ UNCHANGED <<imr, isr, base, icw3, expects>>

-----------------------------------------------------------------------------
\* The lines of ls that chip c may ask for: not masked, and above everything
\* in service.
Eligible(c, ls) ==
  {l \in ls \ imr[c] : expects[c] = "mask" /\ \A m \in isr[c] : l < m}

SlaveInt == Eligible("SPIC", irr["SPIC"])
MasterInt ==
  Eligible("MPIC", irr["MPIC"] \cup {l \in {Cascade} : SlaveInt # {}})

IsHighest(l, ls) == l \in ls /\ \A m \in ls : l <= m

\* The slave answers on the master's line when both know of the wiring.
Cascaded == icw3["MPIC"] = {Cascade} /\ Value(icw3["SPIC"]) = Cascade

\* The CPU acknowledges line l of the master, or of the slave.
AckMaster(l) ==
  /\ IsHighest(l, MasterInt)
  /\ l = Cascade => ~Cascaded
  /\ irr' = [irr EXCEPT !["MPIC"] = @ \ {l}]
  /\ isr' = [isr EXCEPT !["MPIC"] = @ \cup {l}]
  /\ UNCHANGED <<imr, base, icw3, expects>>

AckSlave(l) ==
  /\ IsHighest(Cascade, MasterInt) /\ Cascaded
  /\ IsHighest(l, SlaveInt)
  /\ irr' = [irr EXCEPT !["SPIC"] = @ \ {l}]
  /\ isr' = [c \in Chips |-> isr[c] \cup (IF c = "SPIC" THEN {l} ELSE {Cascade})]
  /\ UNCHANGED <<imr, base, icw3, expects>>

\* The CPU acknowledges a request of the slave that is no longer there.
AckVanished ==
  /\ Eligible("MPIC", {Cascade}) # {} /\ Cascaded
  /\ isr' = [isr EXCEPT !["MPIC"] = @ \cup {Cascade}]
  /\ UNCHANGED <<imr, irr, base, icw3, expects>>

PicTypeOK ==
  /\ imr \in [Chips -> Bytes]
  /\ irr \in [Chips -> Bytes]
  /\ isr \in [Chips -> Bytes]
  /\ base \in [Chips -> Bytes]
  /\ icw3 \in [Chips -> Bytes]
  /\ expects \in [Chips -> {"icw2", "icw3", "icw4", "mask"}]
=============================================================================
