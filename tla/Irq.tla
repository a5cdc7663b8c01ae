-------------------------------- MODULE Irq --------------------------------
(***************************************************************************)
(* Interrupt requests: the table of handlers and its dispatcher            *)
(* (src/kernel/intr/irq.c), the driver of the two 8259 controllers         *)
(* (pic.c), and, as external hardware, the controllers and the processor's *)
(* interrupt flag.  IRQs 0..7 are the master's lines, 8..15 the slave's;   *)
(* the slave reports to the master on line 2.                              *)
(*                                                                         *)
(* The gates are interrupt gates, so irq_dispatch runs with interrupts off *)
(* and is one step; the kernel's main code may be interrupted anywhere.    *)
(***************************************************************************)
EXTENDS Integers, FiniteSets

CONSTANTS
    Lines,      \* lines with a device on them; 2 is the cascade
    Drivers     \* IRQ numbers drivers register, enable and disable

VARIABLES
    offset,     \* the vector of IRQ 0, as programmed into the master
    imr,        \* masked IRQs
    irr,        \* latched requests
    isr,        \* IRQs in service
    IF_flag,    \* interrupts are enabled
    vector,     \* the vector being dispatched, or 0
    g_handlers, \* IRQs with a handler
    enabled,    \* ghost: IRQs enabled with irq_enable
    waiting     \* ghost: lines raised while enabled whose handler has not run

vars == <<offset, imr, irr, isr, IF_flag, vector, g_handlers, enabled, waiting>>
hardware == <<offset, imr, irr, isr>>

IRQs == 0 .. 15
Slave == 8 .. 15
Cascade == 2
SPURIOUS_MASTER == 7
SPURIOUS_SLAVE == 15
FirmwareOffset == 8     \* the PC default, on top of the exceptions

ASSUME LinesAssumption == Lines \subseteq IRQs \ {Cascade} /\ Drivers \subseteq IRQs

\* The firmware hands over with interrupts off and any masks.
Init ==
    /\ offset = FirmwareOffset
    /\ imr \in {{}, IRQs} /\ irr \in SUBSET Lines /\ isr = {}
    /\ IF_flag = FALSE /\ vector = 0
    /\ g_handlers = {} /\ enabled = {} /\ waiting = {}
----------------------------------------------------------------------------
\* The controllers.

Highest(irqs) == CHOOSE i \in irqs : \A j \in irqs : i <= j

\* Requests a chip passes on: unmasked, and above what it has in service.
Above(requests, service) == {i \in requests : \A j \in service : i < j}
SlaveReady == Above((irr \cap Slave) \ imr, isr \cap Slave)
MasterReady ==
    Above(((irr \ Slave) \cup (IF SlaveReady = {} THEN {} ELSE {Cascade})) \ imr,
          isr \ Slave)

\* Non-specific end of interrupt: the highest request in service.
Eoi(service) == IF service = {} THEN {} ELSE {Highest(service)}

Raise(line) ==
    /\ irr' = irr \cup {line}
    /\ waiting' = IF line \in enabled \cap g_handlers THEN waiting \cup {line} ELSE waiting
    /\ UNCHANGED <<offset, imr, isr, IF_flag, vector, g_handlers, enabled>>

\* The processor acknowledges; a request may be withdrawn just before, and
\* the controller then gives its lowest vector and nothing is in service.
Accepting == IF_flag /\ vector = 0 /\ MasterReady # {}
Accept ==
    LET line == Highest(MasterReady)
        irq == IF line = Cascade THEN Highest(SlaveReady) ELSE line
    IN  /\ Accepting
        /\ isr' = isr \cup {line, irq} /\ irr' = irr \ {irq}
        /\ vector' = offset + irq
        /\ IF_flag' = FALSE
        /\ UNCHANGED <<offset, imr, g_handlers, enabled, waiting>>
AcceptSpurious ==
    LET line == Highest(MasterReady)
        irq == IF line = Cascade THEN Highest(SlaveReady) ELSE line
    IN  /\ Accepting
        /\ irr' = irr \ {irq} /\ waiting' = waiting \ {irq}
        /\ IF line = Cascade
           THEN vector' = offset + SPURIOUS_SLAVE /\ isr' = isr \cup {Cascade}
           ELSE vector' = offset + SPURIOUS_MASTER /\ isr' = isr
        /\ IF_flag' = FALSE
        /\ UNCHANGED <<offset, imr, g_handlers, enabled>>
----------------------------------------------------------------------------
\* pic.c and irq.c.

\* pic_remap saves and restores the masks; ICW1 resets requests and service.
pic_remap(offset1) == offset' = offset1 /\ irr' = {} /\ isr' = {}
pic_mask(irq) == imr' = imr \cup {irq}

\* MUTANT: the bit of a slave's line is cleared in the master's mask.
pic_unmask_MasterOnly(irq) == imr' = imr \ {IF irq >= 8 THEN irq - 8 ELSE irq}

pic_unmask(irq) == imr' = imr \ {irq}

\* MUTANT: the slave gets no end of interrupt.
pic_send_eoi_MasterOnly(irq) == isr' = isr \ Eoi(isr \ Slave)

pic_send_eoi(irq) ==
    isr' = (isr \ Eoi(isr \ Slave)) \ (IF irq >= 8 THEN Eoi(isr \cap Slave) ELSE {})

irq_init ==
    /\ offset = FirmwareOffset
    /\ pic_remap(32) /\ imr' = IRQs
    /\ g_handlers' = {}
    /\ UNCHANGED <<IF_flag, vector, enabled, waiting>>

\* Main code runs when no interrupt is being dispatched.
Main == vector = 0 /\ offset # FirmwareOffset

sti ==
    /\ Main /\ ~IF_flag
    /\ IF_flag' = TRUE
    /\ UNCHANGED <<hardware, vector, g_handlers, enabled, waiting>>

irq_register(irq) ==
    /\ Main
    /\ g_handlers' = g_handlers \cup {irq}
    /\ UNCHANGED <<hardware, IF_flag, vector, enabled, waiting>>
irq_unregister(irq) ==
    /\ Main
    /\ g_handlers' = g_handlers \ {irq} /\ waiting' = waiting \ {irq}
    /\ UNCHANGED <<hardware, IF_flag, vector, enabled>>
irq_enable(irq) ==
    /\ Main
    /\ pic_unmask(irq) /\ enabled' = enabled \cup {irq}
    /\ UNCHANGED <<offset, irr, isr, IF_flag, vector, g_handlers, waiting>>
irq_disable(irq) ==
    /\ Main
    /\ pic_mask(irq) /\ enabled' = enabled \ {irq}
    /\ waiting' = IF irq = Cascade THEN waiting \ Slave ELSE waiting \ {irq}
    /\ UNCHANGED <<offset, irr, isr, IF_flag, vector, g_handlers>>

\* The handler, if there is one, then EOI, then the return of the stub.
irq_dispatch ==
    /\ vector # 0
    /\ waiting' = IF vector - 32 \in g_handlers THEN waiting \ {vector - 32} ELSE waiting
    /\ pic_send_eoi(vector - 32)
    /\ vector' = 0 /\ IF_flag' = TRUE
    /\ UNCHANGED <<offset, imr, irr, g_handlers, enabled>>

Next ==
    \/ irq_init \/ sti \/ Accept \/ AcceptSpurious \/ irq_dispatch
    \/ \E line \in Lines : Raise(line)
    \/ \E irq \in Drivers : \/ irq_register(irq) \/ irq_unregister(irq)
                            \/ irq_enable(irq) \/ irq_disable(irq)

Spec == Init /\ [][Next]_vars

\* Steps and states that fairness is stated about (in KeyboardIrq).
Takes(irq) == Accept /\ vector' = offset + irq
TimerQuiet == IF_flag /\ vector = 0 /\ 0 \notin MasterReady
----------------------------------------------------------------------------
\* Properties.

\* Whenever the main code runs with interrupts on, nothing is left in
\* service in either controller: irq_dispatch ended every interrupt it was
\* given, on both chips, with or without a handler, spurious ones included.
\* Anything left there would block all lower requests for good.
NothingLeftInService ==
    IF_flag /\ vector = 0 => isr = {}

\* A line raised while its driver has a handler and has it enabled gets its
\* handler called, or the driver gives it up; for a slave's line provided
\* the cascade is enabled too.
Deliverable(irq) == irq \in Slave => Cascade \in enabled
EnabledIsServed ==
    \A irq \in Lines : (irq \in waiting /\ Deliverable(irq)) ~> (irq \notin waiting)
=============================================================================
