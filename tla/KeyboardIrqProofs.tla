------------------------- MODULE KeyboardIrqProofs -------------------------
(***************************************************************************)
(* Theorems about Irq and KeyboardIrq, for every set of lines and drivers  *)
(* and every size of the log of scan codes.                                *)
(***************************************************************************)
EXTENDS KeyboardIrq, SequenceTheorems, WellFoundedInduction, TLAPS

(***************************************************************************)
(* The inductive invariants.                                               *)
(***************************************************************************)

\* While a vector is dispatched, exactly what its end of interrupt will clear
\* is in service: the line itself, and the cascade for a line of the slave.
\* Before irq_init no interrupt is taken.
IrqInv ==
    /\ irr \subseteq IRQs \ {Cascade}
    /\ offset \in {FirmwareOffset, 32}
    /\ offset = FirmwareOffset => ~IF_flag /\ vector = 0
    /\ vector = 0 => isr = {}
    /\ vector # 0 => \E irq \in IRQs :
          /\ vector = 32 + irq
          /\ irq \notin Slave => isr \subseteq {irq}
          /\ irq \in Slave => isr \subseteq {Cascade, irq}

\* The log: the k-th newest of the codes it counts is k places before the head.
Slots == 0 .. KBD_SC_LOG_SIZE - 1
Before(h, k) == IF h >= k THEN h - k ELSE h - k + KBD_SC_LOG_SIZE
LogInv ==
    /\ g_sc_log \in [Slots -> Nat] /\ g_sc_head \in Slots
    /\ g_sc_total \in Nat /\ emptied \in 0 .. g_sc_total
    /\ g_sc_count = IF g_sc_total - emptied < KBD_SC_LOG_SIZE
                    THEN g_sc_total - emptied ELSE KBD_SC_LOG_SIZE
    /\ \A k \in 1 .. g_sc_count : g_sc_log[Before(g_sc_head, k)] = g_sc_total + 1 - k

\* A call of keyboard_take_scancodes that no key has hit so far.
TakenSoFar(n) ==
    /\ out \in Seq(Int) /\ Len(out) = n
    /\ \A k \in 1 .. n : out[k] = g_sc_total - g_sc_count + k
TakeInv ==
    /\ pc \in {"idle", "start", "loop", "reset"}
    /\ raced \in BOOLEAN
    /\ ~raced =>
         /\ pc = "start" => head = g_sc_head /\ out = <<>>
         /\ pc = "loop" => /\ start = Before(g_sc_head, g_sc_count)
                           /\ i \in 0 .. g_sc_count /\ TakenSoFar(i)
         /\ pc = "reset" => TakenSoFar(g_sc_count)

\* keyboard_init finds the log untouched: nothing is logged and nothing taken
\* before interrupts are on, and they are not before it has run.
StartInv ==
    /\ IF_flag \/ vector # 0 => KeyboardIRQ \in g_handlers
    /\ offset = FirmwareOffset => KeyboardIRQ \notin g_handlers
    /\ KeyboardIRQ \notin g_handlers =>
          pc = "idle" /\ g_sc_total = 0 /\ g_sc_count = 0 /\ g_sc_head = 0

PathInv == IrqInv /\ LogInv /\ TakeInv /\ StartInv

----------------------------------------------------------------------------
(***************************************************************************)
(* The controllers.                                                        *)
(***************************************************************************)

\* A nonempty set of IRQs has a highest priority one, the least.
LEMMA HighestIn ==
    ASSUME NEW S \in SUBSET IRQs, S # {} PROVE Highest(S) \in S
<1>. DEFINE R == OpToRel(<, Nat)
<1>1. S \subseteq Nat /\ \A x \in S : x \in Nat
  BY DEF IRQs
<1>2. \A x, y \in Nat : y < x => <<y, x>> \in R
  BY DEF OpToRel
<1>3. \E x \in S : \A y \in S : ~ (<<y, x>> \in R)
  <2>1. IsWellFoundedOn(R, Nat)
    BY NatLessThanWellFounded
  <2>. HIDE DEF R
  <2>. QED  BY <1>1, <2>1, WFMin
<1>. HIDE DEF R
<1>4. \E x \in S : \A y \in S : ~ (y < x)
  BY <1>1, <1>2, <1>3, Zenon
<1>5. \E x \in S : \A y \in S : x <= y
  BY <1>1, <1>4
<1>. QED  BY <1>5 DEF Highest

LEMMA HighestOne == ASSUME NEW x \in IRQs PROVE Eoi({x}) = {x}
<1>1. {x} # {} /\ {x} \in SUBSET IRQs
  OBVIOUS
<1>2. Highest({x}) = x
  BY <1>1, HighestIn
<1>. QED  BY <1>1, <1>2 DEF Eoi

\* What the processor is offered: a line of the master, or the cascade with a
\* line of the slave behind it.
LEMMA Offered ==
    ASSUME IrqInv, Accepting
    PROVE  LET line == Highest(MasterReady)
               irq == IF line = Cascade THEN Highest(SlaveReady) ELSE line
           IN  /\ irq \in IRQs
               /\ line = Cascade => irq \in Slave
               /\ line # Cascade => irq \in IRQs \ Slave
<1>1. /\ MasterReady \in SUBSET IRQs /\ MasterReady # {}
      /\ MasterReady \subseteq (irr \ Slave) \cup (IF SlaveReady = {} THEN {} ELSE {Cascade})
      /\ SlaveReady \in SUBSET IRQs /\ SlaveReady \subseteq Slave
      /\ irr \subseteq IRQs \ {Cascade}
  <2>1. irr \subseteq IRQs \ {Cascade} /\ Cascade \in IRQs /\ MasterReady # {}
    BY DEF Accepting, IrqInv, IRQs, Cascade
  <2>2. \A R, S : Above(R, S) \subseteq R
    BY DEF Above
  <2>3. SlaveReady \subseteq (irr \cap Slave) \ imr
    BY <2>2 DEF SlaveReady
  <2>4. MasterReady \subseteq
           ((irr \ Slave) \cup (IF SlaveReady = {} THEN {} ELSE {Cascade})) \ imr
    BY <2>2 DEF MasterReady
  <2>. QED  BY <2>1, <2>3, <2>4
<1>2. Highest(MasterReady) \in MasterReady
  BY <1>1, HighestIn
<1>3. CASE Highest(MasterReady) = Cascade
  <2>1. SlaveReady # {}
    BY <1>1, <1>2, <1>3
  <2>2. Highest(SlaveReady) \in SlaveReady
    BY <1>1, <2>1, HighestIn
  <2>. QED  BY <1>1, <1>3, <2>2
<1>4. CASE Highest(MasterReady) # Cascade
  BY <1>1, <1>2, <1>4
<1>. QED  BY <1>3, <1>4

\* The steps of the dispatcher and of the controllers.
LEMMA DispatchInv == ASSUME IrqInv, irq_dispatch PROVE IrqInv'
<1>1. PICK q \in IRQs : /\ vector = 32 + q
                        /\ q \notin Slave => isr \subseteq {q}
                        /\ q \in Slave => isr \subseteq {Cascade, q}
  BY DEF irq_dispatch, IrqInv
<1>2. /\ vector - 32 = q /\ q \in Nat /\ (q >= 8 <=> q \in Slave)
      /\ Cascade \in IRQs \ Slave
  BY <1>1 DEF IRQs, Slave, Cascade
<1>3. isr' = (isr \ Eoi(isr \ Slave)) \ (IF q >= 8 THEN Eoi(isr \cap Slave) ELSE {})
  BY <1>2 DEF irq_dispatch, pic_send_eoi
<1>4. isr' = {}
  <2>1. CASE q \notin Slave
    <3>1. isr = {} \/ isr = {q}
      BY <1>1, <2>1
    <3>2. isr \ Slave = isr
      BY <2>1, <3>1
    <3>. QED  BY <1>2, <1>3, <2>1, <3>1, <3>2, HighestOne
  <2>2. CASE q \in Slave
    <3>1. isr \ Slave = {} \/ isr \ Slave = {Cascade}
      BY <1>1, <1>2, <2>2
    <3>2. isr \cap Slave = {} \/ isr \cap Slave = {q}
      BY <1>1, <1>2, <2>2
    <3>3. isr \ Slave \subseteq Eoi(isr \ Slave)
      BY <1>2, <3>1, HighestOne
    <3>4. isr \cap Slave \subseteq Eoi(isr \cap Slave)
      BY <3>2, HighestOne
    <3>. QED  BY <1>2, <1>3, <2>2, <3>3, <3>4
  <2>. QED  BY <2>1, <2>2
<1>5. vector' = 0 /\ UNCHANGED <<offset, irr>> /\ offset # FirmwareOffset
  BY <1>2 DEF irq_dispatch, IrqInv, FirmwareOffset
<1>. QED  BY <1>4, <1>5 DEF IrqInv

LEMMA AcceptInv == ASSUME IrqInv, Accept \/ AcceptSpurious PROVE IrqInv'
<1>. DEFINE line == Highest(MasterReady)
            irq == IF line = Cascade THEN Highest(SlaveReady) ELSE line
<1>0. Accepting
  BY DEF Accept, AcceptSpurious
<1>1. /\ irq \in IRQs /\ (line = Cascade => irq \in Slave)
      /\ line # Cascade => irq \in IRQs \ Slave /\ irq = line
  BY <1>0, Offered
<1>2. isr = {} /\ offset = 32 /\ irr \subseteq IRQs \ {Cascade}
  BY <1>0 DEF Accepting, IrqInv
<1>3. offset' = offset /\ IF_flag' = FALSE /\ irr' \subseteq irr
  BY DEF Accept, AcceptSpurious
<1>. SUFFICES \E q \in IRQs : /\ vector' = 32 + q
                              /\ q \notin Slave => isr' \subseteq {q}
                              /\ q \in Slave => isr' \subseteq {Cascade, q}
  BY <1>2, <1>3 DEF IrqInv, IRQs, FirmwareOffset
<1>4. CASE Accept
  <2>1. isr' = {line, irq} /\ vector' = 32 + irq
    BY <1>2, <1>4 DEF Accept
  <2>. QED  BY <1>1, <2>1
<1>5. CASE AcceptSpurious /\ line = Cascade
  <2>1. isr' = {Cascade} /\ vector' = 32 + SPURIOUS_SLAVE
    BY <1>2, <1>5 DEF AcceptSpurious
  <2>. QED  BY <2>1 DEF SPURIOUS_SLAVE, IRQs, Slave
<1>6. CASE AcceptSpurious /\ line # Cascade
  <2>1. isr' = {} /\ vector' = 32 + SPURIOUS_MASTER
    BY <1>2, <1>6 DEF AcceptSpurious
  <2>. QED  BY <2>1 DEF SPURIOUS_MASTER, IRQs, Slave
<1>. QED  BY <1>4, <1>5, <1>6

LEMMA RaiseInv == ASSUME IrqInv, NEW line \in Lines, Raise(line) PROVE IrqInv'
BY LinesAssumption DEF Raise, IrqInv

LEMMA irq_initInv == ASSUME IrqInv, irq_init PROVE IrqInv'
BY DEF irq_init, pic_remap, IrqInv, FirmwareOffset

\* Main code: masks, handlers and the interrupt flag.
LEMMA MainInv ==
    ASSUME IrqInv, Main, UNCHANGED <<offset, irr, isr, vector>> PROVE IrqInv'
BY DEF IrqInv, Main

LEMMA IrqInit == Init => IrqInv
BY LinesAssumption DEF Init, IrqInv

LEMMA IrqNext == IrqInv /\ [Next]_vars => IrqInv'
<1>. SUFFICES ASSUME IrqInv, [Next]_vars PROVE IrqInv'  OBVIOUS
<1>1. CASE irq_init \/ Accept \/ AcceptSpurious \/ irq_dispatch
  BY <1>1, irq_initInv, AcceptInv, DispatchInv
<1>2. CASE sti
  BY <1>2, MainInv DEF sti, hardware
<1>3. ASSUME NEW irq \in Drivers,
             irq_register(irq) \/ irq_unregister(irq) \/ irq_enable(irq) \/ irq_disable(irq)
      PROVE  IrqInv'
  BY <1>3, MainInv
     DEF irq_register, irq_unregister, irq_enable, irq_disable, hardware
<1>4. CASE UNCHANGED vars
  BY <1>4 DEF vars, IrqInv
<1>. QED  BY <1>1, <1>2, <1>3, <1>4, RaiseInv DEF Next

----------------------------------------------------------------------------
\* The dispatcher ends every interrupt it is given, on both controllers, with
\* or without a handler, spurious ones included.
THEOREM ServiceEnds == Spec => []NothingLeftInService
<1>1. IrqInv => NothingLeftInService
  BY DEF IrqInv, NothingLeftInService
<1>. QED  BY IrqInit, IrqNext, <1>1, PTL DEF Spec

----------------------------------------------------------------------------
(***************************************************************************)
(* The log.                                                                *)
(***************************************************************************)

\* The size of the log.
LEMMA Size == KBD_SC_LOG_SIZE \in Nat /\ KBD_SC_LOG_SIZE >= 1
BY LogAssumption

\* An index that has run past the end by less than a turn.
LEMMA Wrap ==
    ASSUME NEW a \in 0 .. 2 * KBD_SC_LOG_SIZE - 1
    PROVE  a % KBD_SC_LOG_SIZE = IF a < KBD_SC_LOG_SIZE THEN a ELSE a - KBD_SC_LOG_SIZE
<1>1. CASE a < KBD_SC_LOG_SIZE
  BY <1>1, Size
<1>2. CASE a >= KBD_SC_LOG_SIZE
  BY <1>2, Size
<1>. QED  BY <1>1, <1>2, Size

\* The place behind a slot, the place k before it, and the way from there.
After(h) == IF h = KBD_SC_LOG_SIZE - 1 THEN 0 ELSE h + 1
LEMMA LogIndices ==
    ASSUME NEW h \in Slots
    PROVE  /\ (h + 1) % KBD_SC_LOG_SIZE = After(h) /\ After(h) \in Slots
           /\ \A k \in 0 .. KBD_SC_LOG_SIZE :
                (h - k + KBD_SC_LOG_SIZE) % KBD_SC_LOG_SIZE =
                   IF k = 0 THEN h ELSE Before(h, k)
           /\ \A k \in 1 .. KBD_SC_LOG_SIZE :
                /\ Before(h, k) \in Slots
                /\ Before(After(h), k) = IF k = 1 THEN h ELSE Before(h, k - 1)
                /\ k < KBD_SC_LOG_SIZE => Before(h, k) # h
           /\ \A n \in 0 .. KBD_SC_LOG_SIZE : \A j \in 0 .. n - 1 :
                (Before(h, n) + j) % KBD_SC_LOG_SIZE = Before(h, n - j)
<1>. USE Size DEF Slots
<1>1. (h + 1) % KBD_SC_LOG_SIZE = After(h) /\ After(h) \in Slots
  <2>. DEFINE a == h + 1
  <2>1. a \in 0 .. 2 * KBD_SC_LOG_SIZE - 1  OBVIOUS
  <2>2. a % KBD_SC_LOG_SIZE = IF a < KBD_SC_LOG_SIZE THEN a ELSE a - KBD_SC_LOG_SIZE
    BY ONLY <2>1, Wrap
  <2>. QED  BY <2>2 DEF After
<1>2. ASSUME NEW k \in 0 .. KBD_SC_LOG_SIZE
      PROVE  (h - k + KBD_SC_LOG_SIZE) % KBD_SC_LOG_SIZE = IF k = 0 THEN h ELSE Before(h, k)
  <2>. DEFINE a == h - k + KBD_SC_LOG_SIZE
  <2>1. a \in 0 .. 2 * KBD_SC_LOG_SIZE - 1  OBVIOUS
  <2>2. a % KBD_SC_LOG_SIZE = IF a < KBD_SC_LOG_SIZE THEN a ELSE a - KBD_SC_LOG_SIZE
    BY ONLY <2>1, Wrap
  <2>. QED  BY <2>2 DEF Before
<1>3. ASSUME NEW k \in 1 .. KBD_SC_LOG_SIZE
      PROVE  /\ Before(h, k) \in Slots
             /\ Before(After(h), k) = IF k = 1 THEN h ELSE Before(h, k - 1)
             /\ k < KBD_SC_LOG_SIZE => Before(h, k) # h
  BY DEF Before, After
<1>4. ASSUME NEW n \in 0 .. KBD_SC_LOG_SIZE, NEW j \in 0 .. n - 1
      PROVE  (Before(h, n) + j) % KBD_SC_LOG_SIZE = Before(h, n - j)
  <2>. DEFINE a == Before(h, n) + j
  <2>1. a \in 0 .. 2 * KBD_SC_LOG_SIZE - 1  BY DEF Before
  <2>2. a % KBD_SC_LOG_SIZE = IF a < KBD_SC_LOG_SIZE THEN a ELSE a - KBD_SC_LOG_SIZE
    BY ONLY <2>1, Wrap
  <2>. QED  BY <2>2 DEF Before
<1>. QED  BY <1>1, <1>2, <1>3, <1>4

\* What is known of the counters.
LEMMA LogCounts ==
    ASSUME LogInv
    PROVE  /\ g_sc_total \in Nat /\ emptied \in Nat /\ g_sc_count \in 0 .. KBD_SC_LOG_SIZE
           /\ g_sc_count <= g_sc_total /\ g_sc_head \in Slots
BY Size DEF LogInv

\* log_scancode keeps the log; the call it hits is marked.
LEMMA LogScancode ==
    ASSUME LogInv, TakeInv, Log!log_scancode PROVE LogInv' /\ TakeInv'
<1>. USE Size
<1>0. /\ g_sc_total \in Nat /\ emptied \in Nat /\ g_sc_count \in 0 .. KBD_SC_LOG_SIZE
      /\ g_sc_head \in Slots
  BY LogCounts
<1>i. /\ (g_sc_head + 1) % KBD_SC_LOG_SIZE = After(g_sc_head) /\ After(g_sc_head) \in Slots
      /\ \A k \in 1 .. KBD_SC_LOG_SIZE :
           /\ Before(g_sc_head, k) \in Slots
           /\ Before(After(g_sc_head), k) = IF k = 1 THEN g_sc_head
                                            ELSE Before(g_sc_head, k - 1)
           /\ k < KBD_SC_LOG_SIZE => Before(g_sc_head, k) # g_sc_head
  BY <1>0, LogIndices
<1>1. /\ g_sc_log' = [g_sc_log EXCEPT ![g_sc_head] = g_sc_total + 1]
      /\ g_sc_head' = After(g_sc_head) /\ g_sc_total' = g_sc_total + 1
      /\ emptied' = emptied
      /\ g_sc_count' = IF g_sc_count < KBD_SC_LOG_SIZE THEN g_sc_count + 1 ELSE g_sc_count
      /\ UNCHANGED <<pc, head, start, i, out>>
      /\ raced' = (raced \/ pc # "idle")
  BY <1>i DEF Log!log_scancode, Log!take
<1>2. g_sc_log' \in [Slots -> Nat]
  BY <1>0, <1>1 DEF LogInv
<1>3. g_sc_count' = IF g_sc_total' - emptied' < KBD_SC_LOG_SIZE
                    THEN g_sc_total' - emptied' ELSE KBD_SC_LOG_SIZE
  BY <1>0, <1>1 DEF LogInv
<1>4. ASSUME NEW k \in 1 .. g_sc_count'
      PROVE  g_sc_log'[Before(g_sc_head', k)] = g_sc_total' + 1 - k
  <2>0. k \in 1 .. KBD_SC_LOG_SIZE
    BY <1>0, <1>1
  <2>1. CASE k = 1
    BY <1>0, <1>1, <1>i, <2>0, <2>1 DEF LogInv
  <2>2. CASE k # 1
    <3>1. k - 1 \in 1 .. g_sc_count /\ k - 1 \in 1 .. KBD_SC_LOG_SIZE - 1
      BY <1>0, <1>1, <2>2
    <3>2. Before(g_sc_head', k) = Before(g_sc_head, k - 1)
      BY <1>1, <1>i, <2>0, <2>2
    <3>3. Before(g_sc_head, k - 1) \in Slots \ {g_sc_head}
      BY <1>i, <3>1
    <3>4. g_sc_log[Before(g_sc_head, k - 1)] = g_sc_total + 1 - (k - 1)
      BY <3>1 DEF LogInv
    <3>. QED  BY <1>0, <1>1, <3>2, <3>3, <3>4 DEF LogInv
  <2>. QED  BY <2>1, <2>2
<1>5. LogInv'
  BY <1>0, <1>1, <1>i, <1>2, <1>3, <1>4 DEF LogInv
<1>6. TakeInv'
  BY <1>1 DEF TakeInv
<1>. QED  BY <1>5, <1>6

\* Each step of keyboard_take_scancodes.
LEMMA TakeStep ==
    ASSUME LogInv, TakeInv, Log!keyboard_take_scancodes PROVE LogInv' /\ TakeInv'
<1>. USE Size
<1>0. /\ g_sc_total \in Nat /\ emptied \in Nat /\ g_sc_count \in 0 .. KBD_SC_LOG_SIZE
      /\ g_sc_head \in Slots
  BY LogCounts
<1>1. CASE Log!ReadHead
  BY <1>1 DEF Log!ReadHead, Log!log, LogInv, TakeInv
<1>2. CASE Log!ReadCount
  <2>1. /\ UNCHANGED <<g_sc_log, g_sc_head, g_sc_count, g_sc_total, emptied, raced, out>>
        /\ pc = "start" /\ pc' = "loop" /\ i' = 0
        /\ start' = (head - g_sc_count + KBD_SC_LOG_SIZE) % KBD_SC_LOG_SIZE
    BY <1>2 DEF Log!ReadCount, Log!log, Log!ghosts
  <2>2. ~raced => start' = Before(g_sc_head, g_sc_count)
    <3>1. (g_sc_head - g_sc_count + KBD_SC_LOG_SIZE) % KBD_SC_LOG_SIZE =
            IF g_sc_count = 0 THEN g_sc_head ELSE Before(g_sc_head, g_sc_count)
      BY <1>0, LogIndices
    <3>2. g_sc_count = 0 => Before(g_sc_head, g_sc_count) = g_sc_head
      BY <1>0 DEF Before, Slots
    <3>. QED  BY <2>1, <3>1, <3>2 DEF TakeInv
  <2>3. ~raced => out' \in Seq(Int) /\ Len(out') = 0
    BY <2>1 DEF TakeInv
  <2>. QED  BY <1>0, <2>1, <2>2, <2>3 DEF LogInv, TakeInv, TakenSoFar
<1>3. CASE Log!LoopBody
  <2>1. /\ UNCHANGED <<g_sc_log, g_sc_head, g_sc_count, g_sc_total, emptied, raced, pc, start>>
        /\ pc = "loop" /\ i < g_sc_count /\ i' = i + 1
        /\ out' = Append(out, g_sc_log[(start + i) % KBD_SC_LOG_SIZE])
    BY <1>3 DEF Log!LoopBody, Log!log, Log!ghosts
  <2>2. ASSUME ~raced
        PROVE  start = Before(g_sc_head, g_sc_count) /\ i' \in 0 .. g_sc_count /\ TakenSoFar(i)'
    <3>1. /\ start = Before(g_sc_head, g_sc_count) /\ i \in 0 .. g_sc_count - 1
          /\ out \in Seq(Int) /\ Len(out) = i
          /\ \A k \in 1 .. i : out[k] = g_sc_total - g_sc_count + k
      BY <1>0, <2>1, <2>2 DEF TakeInv, TakenSoFar
    <3>2. (start + i) % KBD_SC_LOG_SIZE = Before(g_sc_head, g_sc_count - i)
      BY <1>0, <3>1, LogIndices
    <3>3. g_sc_count - i \in 1 .. g_sc_count
      BY <1>0, <3>1
    <3>4. g_sc_log[Before(g_sc_head, g_sc_count - i)] = g_sc_total + 1 - (g_sc_count - i)
      BY <3>3 DEF LogInv
    <3>5. out' = Append(out, g_sc_total - g_sc_count + (i + 1))
      BY <1>0, <2>1, <3>1, <3>2, <3>4
    <3>6. TakenSoFar(i)'
      BY <1>0, <2>1, <3>1, <3>5 DEF TakenSoFar
    <3>. QED  BY <1>0, <2>1, <3>1, <3>6
  <2>. QED  BY <2>1, <2>2 DEF LogInv, TakeInv
<1>4. CASE Log!LoopExit
  <2>1. /\ UNCHANGED <<g_sc_log, g_sc_head, g_sc_count, g_sc_total, emptied, raced, out>>
        /\ pc = "loop" /\ pc' = "reset"
        /\ ~(i < g_sc_count /\ Len(out) < KBD_SC_LOG_SIZE)
    BY <1>4 DEF Log!LoopExit, Log!log, Log!ghosts
  <2>2. ASSUME ~raced PROVE TakenSoFar(g_sc_count)'
    <3>1. i \in 0 .. g_sc_count /\ Len(out) = i /\ TakenSoFar(i)
      BY <2>1, <2>2 DEF TakeInv, TakenSoFar
    <3>2. i = g_sc_count
      BY <1>0, <2>1, <3>1
    <3>. QED  BY <2>1, <3>1, <3>2 DEF TakenSoFar
  <2>. QED  BY <2>1, <2>2 DEF LogInv, TakeInv
<1>5. CASE Log!Reset
  BY <1>0, <1>5 DEF Log!Reset, LogInv, TakeInv
<1>. QED  BY <1>1, <1>2, <1>3, <1>4, <1>5 DEF Log!keyboard_take_scancodes

----------------------------------------------------------------------------
(***************************************************************************)
(* The composition.                                                        *)
(***************************************************************************)

\* A step that does not touch the log.
LEMMA LogFrame == ASSUME LogInv, TakeInv, UNCHANGED logVars PROVE LogInv' /\ TakeInv'
BY DEF logVars, LogInv, TakeInv, TakenSoFar

\* keyboard_init runs before anything is logged, and finds what it writes.
LEMMA keyboard_initInv == ASSUME PathInv, keyboard_init PROVE PathInv'
<1>. USE DEF PathInv
<1>1. /\ Main /\ UNCHANGED <<offset, irr, isr, IF_flag, vector>>
      /\ g_handlers' = g_handlers \cup {KeyboardIRQ} /\ KeyboardIRQ \notin g_handlers
  BY DEF keyboard_init, Attach
<1>2. UNCHANGED <<g_sc_log, g_sc_head, g_sc_count, g_sc_total,
                  pc, head, start, i, out, raced, emptied>>
  BY <1>1 DEF keyboard_init, StartInv
<1>3. LogInv' /\ TakeInv'
  BY <1>2, LogFrame DEF logVars
<1>4. IrqInv'
  BY <1>1, MainInv
<1>5. StartInv'
  BY <1>1, <1>2 DEF StartInv, Main
<1>. QED  BY <1>3, <1>4, <1>5

LEMMA PathNextInv == PathInv /\ [PathNext]_allVars => PathInv'
<1>. SUFFICES ASSUME PathInv, [PathNext]_allVars PROVE PathInv'  OBVIOUS
<1>. USE DEF PathInv
<1>1. CASE TimerStart
  <2>1. /\ Main /\ UNCHANGED <<offset, irr, isr, IF_flag, vector>> /\ UNCHANGED logVars
        /\ g_handlers' = g_handlers \cup {TimerIRQ} /\ TimerIRQ # KeyboardIRQ
    BY <1>1 DEF TimerStart, Attach, TimerIRQ, KeyboardIRQ
  <2>2. StartInv'
    BY <2>1 DEF StartInv, logVars
  <2>. QED  BY <2>1, <2>2, MainInv, LogFrame
<1>2. CASE keyboard_init
  BY <1>2, keyboard_initInv
<1>3. CASE irq_init /\ UNCHANGED <<logVars, sent>>
  <2>1. StartInv'
    BY <1>3 DEF irq_init, pic_remap, StartInv, logVars, FirmwareOffset, IrqInv
  <2>. QED  BY <1>3, <2>1, irq_initInv, LogFrame
<1>4. CASE KeyboardIRQ \in g_handlers /\ sti /\ UNCHANGED <<logVars, sent>>
  <2>1. StartInv'
    BY <1>4 DEF sti, hardware, StartInv, logVars
  <2>2. IrqInv'
    BY <1>4, MainInv DEF sti, hardware
  <2>. QED  BY <1>4, <2>1, <2>2, LogFrame
<1>5. CASE PathDispatch
  <2>1. LogInv' /\ TakeInv'
    BY <1>5, LogFrame, LogScancode DEF PathDispatch
  <2>2. StartInv'
    <3>1. KeyboardIRQ \in g_handlers /\ g_handlers' = g_handlers /\ offset' = offset
          /\ offset # FirmwareOffset
      BY <1>5 DEF PathDispatch, irq_dispatch, StartInv, IrqInv
    <3>. QED  BY <3>1 DEF StartInv
  <2>. QED  BY <1>5, <2>1, <2>2, DispatchInv DEF PathDispatch
<1>6. CASE PathOther
  <2>1. UNCHANGED logVars /\ UNCHANGED offset
    BY <1>6 DEF PathOther, Accept, AcceptSpurious, irq_enable, irq_disable,
                irq_register, irq_unregister, hardware
  <2>2. CASE Accept \/ AcceptSpurious
    <3>1. StartInv'
      BY <2>1, <2>2 DEF Accept, AcceptSpurious, Accepting, StartInv, logVars
    <3>. QED  BY <2>1, <2>2, <3>1, AcceptInv, LogFrame
  <2>3. ASSUME NEW irq \in Drivers,
               irq_register(irq) \/ irq_unregister(irq) \/ irq_enable(irq) \/ irq_disable(irq)
        PROVE  PathInv'
    <3>1. /\ Main /\ UNCHANGED <<offset, irr, isr, vector, IF_flag>>
          /\ g_handlers' \in {g_handlers, g_handlers \cup {irq}, g_handlers \ {irq}}
      BY <2>3 DEF irq_register, irq_unregister, irq_enable, irq_disable, hardware
    <3>2. KeyboardIRQ \in g_handlers' <=> KeyboardIRQ \in g_handlers
      BY <3>1, LogAssumption
    <3>3. StartInv'
      BY <2>1, <3>1, <3>2 DEF StartInv, logVars
    <3>. QED  BY <2>1, <3>1, <3>3, MainInv, LogFrame
  <2>. QED  BY <1>6, <2>2, <2>3 DEF PathOther
<1>7. CASE PathTake
  <2>1. LogInv' /\ TakeInv'
    BY <1>7, TakeStep DEF PathTake
  <2>2. UNCHANGED vars /\ IF_flag
    BY <1>7 DEF PathTake
  <2>3. IrqInv' /\ StartInv'
    BY <2>2 DEF vars, IrqInv, StartInv
  <2>. QED  BY <2>1, <2>3
<1>8. ASSUME NEW line \in Lines, PathRaise(line) PROVE PathInv'
  <2>1. StartInv'
    BY <1>8 DEF PathRaise, Raise, StartInv, logVars
  <2>. QED  BY <1>8, <2>1, RaiseInv, LogFrame DEF PathRaise
<1>9. CASE UNCHANGED allVars
  <2>1. IrqInv' /\ StartInv'
    BY <1>9 DEF allVars, vars, logVars, IrqInv, StartInv
  <2>. QED  BY <1>9, <2>1, LogFrame DEF allVars
<1>. QED
  BY <1>1, <1>2, <1>3, <1>4, <1>5, <1>6, <1>7, <1>8, <1>9 DEF PathNext, StartUp

\* The invariant of the whole interrupt path of the keyboard.
THEOREM PathInvariant == PathSpec => []PathInv
<1>1. PathInit => PathInv
  <2>. SUFFICES ASSUME PathInit PROVE PathInv  OBVIOUS
  <2>1. Init /\ Log!Init
    BY DEF PathInit
  <2>2. LogInv
    BY <2>1, Size DEF Log!Init, Log!Slots, LogInv, Slots
  <2>3. TakeInv
    BY <2>1, Zenon DEF Log!Init, TakeInv
  <2>4. StartInv
    BY <2>1 DEF Init, Log!Init, StartInv
  <2>. QED  BY <2>1, <2>2, <2>3, <2>4, IrqInit DEF PathInv
<1>. QED  BY <1>1, PathNextInv, PTL DEF PathSpec

\* The same of the composition with the keyboard, whose start-up attaches
\* handlers and whose shell runs between the interrupts.
THEOREM PathServiceEnds == PathSpec => []NothingLeftInService
<1>. PathInv => NothingLeftInService
  BY DEF PathInv, IrqInv, NothingLeftInService
<1>. QED  BY PathInvariant, PTL

\* A call of keyboard_take_scancodes that no key hits returns exactly the
\* newest codes since the log was cleared, in order, for every size of the log
\* and whatever interrupts hit it and earlier calls.
THEOREM TakeIsExact == PathSpec => []QuietTakeExact
<1>1. PathInv => QuietTakeExact
  <2>. SUFFICES ASSUME PathInv, pc = "reset", ~raced
                PROVE  LET fresh == g_sc_total - emptied
                           n == IF fresh < KBD_SC_LOG_SIZE THEN fresh ELSE KBD_SC_LOG_SIZE
                       IN  out = [k \in 1 .. n |-> g_sc_total - n + k]
    BY DEF QuietTakeExact, Log!QuietTakeExact
  <2>. DEFINE n == g_sc_count
  <2>1. TakenSoFar(n) /\ g_sc_total \in Nat /\ n \in Nat
    BY LogCounts DEF PathInv, TakeInv
  <2>2. out = [k \in 1 .. n |-> g_sc_total - n + k]
    BY <2>1 DEF TakenSoFar
  <2>. QED  BY <2>2 DEF PathInv, LogInv
<1>. QED  BY <1>1, PathInvariant, PTL
=============================================================================
