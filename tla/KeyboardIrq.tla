---------------------------- MODULE KeyboardIrq ----------------------------
(***************************************************************************)
(* The interrupt path of the keyboard: the dispatcher and the controllers  *)
(* of Irq with the log of scan codes behind IRQ 1.  irq_dispatch runs the  *)
(* handler with interrupts off; the shell's keyboard_take_scancodes is     *)
(* main code, interrupted between any two of its steps by IRQ 1 and by     *)
(* every other line.                                                       *)
(***************************************************************************)
EXTENDS Irq

CONSTANTS
    KBD_SC_LOG_SIZE,
    MaxTotal            \* bound on the requests of the keyboard

VARIABLES
    g_sc_log, g_sc_head, g_sc_count, g_sc_total,
    pc, head, start, i, out, raced, emptied,
    sent                \* requests the keyboard made

Log == INSTANCE ScancodeLog

logVars == <<g_sc_log, g_sc_head, g_sc_count, g_sc_total,
             pc, head, start, i, out, raced, emptied>>
allVars == <<vars, logVars, sent>>
TimerIRQ == 0
KeyboardIRQ == 1

\* Only keyboard_init registers a handler for IRQ 1, and nothing takes it away.
ASSUME LogAssumption ==
    KBD_SC_LOG_SIZE \in Nat \ {0} /\ MaxTotal \in Nat /\ KeyboardIRQ \notin Drivers

PathInit == Init /\ Log!Init /\ sent = 0

\* keyboard_handler logs the code before anything else it does with it.
PathDispatch ==
    /\ irq_dispatch
    /\ IF vector - 32 = KeyboardIRQ /\ KeyboardIRQ \in g_handlers
       THEN Log!log_scancode
       ELSE UNCHANGED logVars
    /\ UNCHANGED sent

PathRaise(line) ==
    /\ Raise(line)
    /\ IF line = KeyboardIRQ THEN sent < MaxTotal /\ sent' = sent + 1
       ELSE UNCHANGED sent
    /\ UNCHANGED logVars

\* kernel_main: irq_init, then the timer, then keyboard_init, then sti; each
\* registers its handler and then enables its line.
Attach(irq) ==
    /\ g_handlers' = g_handlers \cup {irq}
    /\ pic_unmask(irq) /\ enabled' = enabled \cup {irq}
    /\ UNCHANGED <<offset, irr, isr, IF_flag, vector, waiting, sent>>
TimerStart ==
    /\ Main /\ TimerIRQ \notin g_handlers
    /\ Attach(TimerIRQ) /\ UNCHANGED logVars
keyboard_init ==
    /\ Main /\ TimerIRQ \in g_handlers /\ KeyboardIRQ \notin g_handlers
    /\ g_sc_head' = 0 /\ g_sc_count' = 0 /\ g_sc_total' = 0
    /\ Attach(KeyboardIRQ)
    /\ UNCHANGED <<g_sc_log, pc, head, start, i, out, raced, emptied>>
StartUp ==
    \/ TimerStart \/ keyboard_init
    \/ /\ \/ irq_init
          \/ KeyboardIRQ \in g_handlers /\ sti
       /\ UNCHANGED <<logVars, sent>>

\* The processor, and drivers of the other lines.
PathOther ==
    /\ \/ Accept \/ AcceptSpurious
       \/ \E irq \in Drivers : irq_enable(irq) \/ irq_disable(irq)
       \/ \E irq \in Drivers \ {Cascade} : irq_register(irq) \/ irq_unregister(irq)
    /\ UNCHANGED <<logVars, sent>>

PathTake == Main /\ IF_flag /\ Log!keyboard_take_scancodes /\ UNCHANGED <<vars, sent>>

PathNext ==
    \/ StartUp \/ PathDispatch \/ PathOther \/ PathTake
    \/ \E line \in Lines : PathRaise(line)

(* Fairness.  kernel_main reaches sti; the processor takes the interrupts  *)
(* it is offered and a handler returns.  The timer, the only periodic      *)
(* request, leaves the processor time for others: a tick is handled in far *)
(* less than the 10 ms to the next one.  The keyboard's requests, bounded  *)
(* here, do not starve the lines below.  The shell need not take the log.  *)
PathSpec ==
    /\ PathInit /\ [][PathNext]_allVars
    /\ WF_allVars(StartUp) /\ WF_allVars(PathDispatch)
    /\ \A irq \in Lines : SF_vars(Takes(irq))
    /\ []<>TimerQuiet
----------------------------------------------------------------------------
\* A call of keyboard_take_scancodes that no key hits is exact, whatever other
\* interrupts came during it and whatever earlier calls were hit by keys.
QuietTakeExact == Log!QuietTakeExact
=============================================================================
