-------------------------------- MODULE Pci --------------------------------
(***************************************************************************)
(* Enumeration of the PCI buses (src/kernel/bus/pci.c) and what ehci_init  *)
(* does with its result up to the mapping of the controller's registers    *)
(* (src/kernel/drivers/usb/ehci.c).  The recursion of scan_function is an  *)
(* explicit stack of loops; one step looks at one function of one device.  *)
(*                                                                         *)
(* A machine is what its configuration space answers: `kind' is "none"     *)
(* where nothing answers (vendor 0xFFFF).  A device with one function may  *)
(* decode the function number or not; one that does not answers at all of  *)
(* its function numbers alike, and those answers are its aliases.          *)
(***************************************************************************)
EXTENDS Integers, Sequences, FiniteSets, SequencesExt

CONSTANTS
    Machines,           \* configuration spaces, as the firmware left them
    LastBus,            \* 255 in the code
    LastDev, LastFunc,  \* 31 and 7 in the code
    LastFallback,       \* 15 in the code
    PCI_MAX_DEVICES,
    Bars,               \* BAR 0 of an EHCI controller: [base, size, flags]
    BarSpace,           \* 2^32 in the code
    PageSize

Buses == 0 .. LastBus
Addresses == Buses \X (0 .. LastDev) \X (0 .. LastFunc)
Answer == [kind : {"none", "other", "bridge", "ehci"}, multi : BOOLEAN,
           secondary : Buses, alias : BOOLEAN]

\* What the firmware guarantees: function 0 is there if any is, more than one
\* function only where the header says so, and buses numbered as a tree, each
\* behind one bridge, above the bus that bridge is on.  An unconfigured bridge
\* has 0.
WellFormed(m) ==
    /\ m \in [Addresses -> Answer]
    /\ \A a \in Addresses : m[a].kind # "none" => m[<<a[1], a[2], 0>>].kind # "none"
    /\ \A a \in Addresses : a[3] = 0 => ~m[a].alias
    /\ \A a \in Addresses : a[3] > 0 /\ m[a].kind # "none" =>
          (m[a].alias <=> ~m[<<a[1], a[2], 0>>].multi)
    /\ \A a \in Addresses : m[a].secondary # 0 =>
          m[a].kind = "bridge" /\ m[a].secondary > a[1] /\ ~m[a].alias
    /\ \A a, b \in Addresses :
          m[a].secondary = m[b].secondary /\ m[a].secondary # 0 => a = b

ASSUME MachinesAssumption ==
    /\ {LastBus, LastDev, LastFunc} \subseteq Nat /\ LastFallback \in Buses
    /\ PCI_MAX_DEVICES \in Nat \ {0}
    /\ \A m \in Machines : WellFormed(m)

\* Sizes are powers of two from 16 up: what divides what is all that matters.
ASSUME BarsAssumption ==
    /\ {BarSpace, PageSize} \subseteq Nat \ {0}
    /\ \A b \in Bars :
         /\ b \in [base : Nat, size : Nat \ {0}, flags : 0 .. 15]
         /\ b.base % b.size = 0 /\ b.base + b.size <= BarSpace
         /\ b.size % 16 = 0 /\ BarSpace % b.size = 0
         /\ b.size % PageSize = 0 \/ PageSize % b.size = 0

VARIABLES
    conf,           \* the machine
    g_devices,      \* the table: g_device_count is its length
    stack,          \* loops of scan_bus and scan_function in progress
    bus,            \* the bus pci_init is at
    pci_pc,
    g_ehci_dev, g_ehci_found, g_ehci_mmio,
    bar,            \* BAR 0 of g_ehci_dev as the device holds it
    hw,             \* that BAR as the firmware set it: base, size, type bits
    orig, bar_size, \* locals: the BAR as it was read, its size
    mapped          \* pages mapped by ehci_init

ehci == <<g_ehci_dev, g_ehci_found, g_ehci_mmio, bar, hw, orig, bar_size, mapped>>
pciVars == <<conf, g_devices, stack, bus, pci_pc, ehci>>

NoBar == [base |-> 0, size |-> 1, flags |-> 0]

PciInit ==
    /\ conf \in Machines
    /\ g_devices = <<>> /\ stack = <<>> /\ bus = 0 /\ pci_pc = "pci_init"
    /\ g_ehci_dev = <<>> /\ g_ehci_found = FALSE /\ g_ehci_mmio = 0
    /\ bar = 0 /\ hw = NoBar /\ orig = 0 /\ bar_size = 0 /\ mapped = {}
----------------------------------------------------------------------------
\* The scan.

\* A loop over the devices of a bus: scan_bus, which asks whether a device has
\* several functions, or the loop of scan_function, which tries all of them.
Loop(b, root) == [bus |-> b, dev |-> 0, func |-> 0, root |-> root]
At(l) == <<l.bus, l.dev, l.func>>
NextDev(l) == [Loop(l.bus, l.root) EXCEPT !.dev = l.dev + 1]
NextFunc(l) == IF l.func = LastFunc THEN NextDev(l) ELSE [l EXCEPT !.func = @ + 1]

\* MUTANT: the functions above 0 are never looked at on a root bus.
Advance_FirstOnly(l) == IF l.root THEN NextDev(l) ELSE NextFunc(l)

\* MUTANT: an absent device is skipped without counting it.
Advance_Stuck(l) ==
    IF l.root /\ conf[<<l.bus, l.dev, 0>>].kind = "none" THEN l
    ELSE IF l.root /\ ~conf[<<l.bus, l.dev, 0>>].multi THEN NextDev(l) ELSE NextFunc(l)

\* Where the loop goes after a function: not past function 0 of a device on a
\* root bus that is absent or has one function.
Advance(l) ==
    IF l.root /\ (conf[<<l.bus, l.dev, 0>>].kind = "none"
                  \/ ~conf[<<l.bus, l.dev, 0>>].multi)
    THEN NextDev(l) ELSE NextFunc(l)

Entry(a) == [at |-> a, kind |-> conf[a].kind]

add_device(a) ==
    g_devices' = IF Len(g_devices) >= PCI_MAX_DEVICES THEN g_devices
                 ELSE Append(g_devices, Entry(a))

\* The loop a bridge starts: none for secondary bus 0.
Inner(a) ==
    IF conf[a].kind = "bridge" /\ conf[a].secondary # 0
    THEN <<Loop(conf[a].secondary, FALSE)>> ELSE <<>>

\* One function: absent, or entered in the table and followed if a bridge.
scan_function ==
    /\ stack # <<>> /\ Last(stack).dev <= LastDev
    /\ LET l == Last(stack)
           a == At(l)
       IN  IF conf[a].kind = "none"
           THEN stack' = Append(Front(stack), Advance(l)) /\ UNCHANGED g_devices
           ELSE /\ add_device(a)
                /\ stack' = Append(Front(stack), Advance(l)) \o Inner(a)
    /\ UNCHANGED <<conf, bus, pci_pc, ehci>>

LoopEnds ==
    /\ stack # <<>> /\ Last(stack).dev > LastDev
    /\ stack' = Front(stack)
    /\ UNCHANGED <<conf, g_devices, bus, pci_pc, ehci>>

\* pci_init: bus 0; only if that found nothing, the buses up to LastFallback.
pci_init ==
    /\ pci_pc = "pci_init"
    /\ g_devices' = <<>> /\ stack' = <<Loop(0, TRUE)>> /\ pci_pc' = "scanning"
    /\ UNCHANGED <<conf, bus, ehci>>
NextBus ==
    /\ pci_pc = "scanning" /\ stack = <<>>
    /\ IF (bus = 0 /\ g_devices # <<>>) \/ bus = LastFallback
       THEN pci_pc' = "found" /\ UNCHANGED <<bus, stack>>
       ELSE bus' = bus + 1 /\ stack' = <<Loop(bus + 1, TRUE)>> /\ UNCHANGED pci_pc
    /\ UNCHANGED <<conf, g_devices, ehci>>
----------------------------------------------------------------------------
\* The table's readers.

\* pci_find: the first entry of a class; every caller asks for one.
pci_find(kind) ==
    LET hits == {i \in DOMAIN g_devices : g_devices[i].kind = kind}
    IN  IF hits = {} THEN <<>>
        ELSE <<g_devices[CHOOSE i \in hits : \A j \in hits : i <= j]>>

pci_find_ehci == pci_find("ehci")

\* The first part of ehci_init: the first controller, its BAR read and checked.
ehci_init_begin ==
    /\ pci_pc = "found"
    /\ IF pci_find_ehci = <<>>
       THEN pci_pc' = "end" /\ UNCHANGED <<ehci>>
       ELSE /\ g_ehci_dev' = pci_find_ehci[1].at
            /\ hw' \in Bars /\ bar' = hw'.base + hw'.flags
            /\ IF bar' = 0 \/ bar' = BarSpace - 1 \/ bar' % 2 = 1
               THEN pci_pc' = "end" /\ g_ehci_found' = FALSE
               ELSE pci_pc' = "size" /\ g_ehci_found' = TRUE
            /\ UNCHANGED <<g_ehci_mmio, orig, bar_size, mapped>>
    /\ UNCHANGED <<conf, g_devices, stack, bus>>

\* A memory BAR without its type bits.
Base(value) == value - (value % 16)

\* What the device keeps of a value written to its BAR: the bits above its
\* size; the type bits are wired.
Written(value) == (value \div hw.size) * hw.size + hw.flags

\* pci_bar_size, for a memory BAR: all ones written, the mask read, the value
\* written back; the size is the two's complement of the mask without its
\* low four bits, or 4096 (ehci_init) when it cannot be told.
SizeWrite ==
    /\ pci_pc = "size"
    /\ orig' = bar /\ bar' = Written(BarSpace - 1)
    /\ pci_pc' = "sizing"
    /\ UNCHANGED <<conf, g_devices, stack, bus, g_ehci_dev, g_ehci_found, g_ehci_mmio,
                   hw, bar_size, mapped>>
SizeRead ==
    /\ pci_pc = "sizing"
    /\ bar_size' = LET size == IF bar \in {0, BarSpace - 1} THEN 0
                               ELSE (BarSpace - Base(bar)) % BarSpace
                   IN  IF size = 0 THEN PageSize ELSE size
    /\ bar' = Written(orig)
    /\ pci_pc' = "map"
    /\ UNCHANGED <<conf, g_devices, stack, bus, g_ehci_dev, g_ehci_found, g_ehci_mmio,
                   hw, orig, mapped>>

\* MUTANT: the last, partial page is not counted.
Pages_RoundedDown == bar_size \div PageSize

Pages == (bar_size + PageSize - 1) \div PageSize

\* The pages of the registers are mapped one by one; vmm_map may fail (there
\* is no page for a table), the pages mapped before stay.
MapPage ==
    /\ pci_pc = "map" /\ Cardinality(mapped) < Pages
    /\ LET page == Base(orig) \div PageSize + Cardinality(mapped)
       IN  \/ /\ mapped' = mapped \cup {page}
              /\ UNCHANGED <<pci_pc, g_ehci_found, g_ehci_mmio>>
           \/ /\ g_ehci_found' = FALSE /\ g_ehci_mmio' = 0 /\ pci_pc' = "end"
              /\ UNCHANGED mapped
    /\ UNCHANGED <<conf, g_devices, stack, bus, g_ehci_dev, bar, hw, orig, bar_size>>
Mapped ==
    /\ pci_pc = "map" /\ Cardinality(mapped) = Pages
    /\ g_ehci_mmio' = Base(orig) /\ pci_pc' = "end"
    /\ UNCHANGED <<conf, g_devices, stack, bus, g_ehci_dev, g_ehci_found, bar, hw, orig,
                   bar_size, mapped>>

Step ==
    \/ pci_init \/ NextBus \/ scan_function \/ LoopEnds
    \/ ehci_init_begin \/ SizeWrite \/ SizeRead \/ MapPage \/ Mapped
PciNext == Step

\* The kernel's only thread runs on, with interrupts off.
PciSpec == PciInit /\ [][PciNext]_pciVars /\ WF_pciVars(PciNext)
----------------------------------------------------------------------------
\* Properties.

Scanned == pci_pc \notin {"pci_init", "scanning"}

\* The functions that exist, and the buses that chains of configured bridges
\* lead to from bus 0, or from the fallback's buses if bus 0 is empty.
Exist == {a \in Addresses : conf[a].kind # "none" /\ ~conf[a].alias}
Roots == IF \E a \in Exist : a[1] = 0 THEN {0} ELSE 1 .. LastFallback
Closed(S) ==
    /\ Roots \subseteq S
    /\ \A a \in Exist : a[1] \in S /\ conf[a].secondary # 0 => conf[a].secondary \in S
Reachable == {a \in Exist : \A S \in SUBSET Buses : Closed(S) => a[1] \in S}
Listed == {g_devices[i].at : i \in DOMAIN g_devices}

\* When pci_init returns, the table has every function that exists on a bus it
\* can get to, unless it is full, and nothing that does not answer: no early
\* end of a loop, no bridge passed over, no function skipped.  Reached from
\* bus 0, nothing is entered twice, and a function comes after the bridge
\* that leads to it, which decides what a full table lacks and which
\* controller pci_find finds first.  Aliases are entered behind bridges only.
TableExact ==
    Scanned =>
      /\ Reachable \subseteq Listed \/ Len(g_devices) = PCI_MAX_DEVICES
      /\ Len(g_devices) <= PCI_MAX_DEVICES
      /\ \A a \in Listed : conf[a].kind # "none" /\ (conf[a].alias => a[1] # 0)
      /\ 0 \in Roots =>
           \A i, j \in DOMAIN g_devices :
             /\ g_devices[i].at = g_devices[j].at => i = j
             /\ conf[g_devices[i].at].secondary = g_devices[j].at[1] /\ g_devices[j].at[1] # 0
                  => i < j

\* A controller that ehci_init takes exists, or is an alias of one that does;
\* its BAR holds what the firmware put there, and all of the registers are
\* mapped, for every size of the BAR and every place of it in a page.
WindowMapped ==
    g_ehci_mmio # 0 =>
      /\ g_ehci_found /\ conf[g_ehci_dev].kind = "ehci"
      /\ bar = hw.base + hw.flags /\ g_ehci_mmio = hw.base
      /\ \A x \in hw.base .. (hw.base + hw.size - 1) : x \div PageSize \in mapped

\* The scan and ehci_init end on every machine: the recursion is as deep as
\* the tree of buses.
ScanEnds == <>(pci_pc = "end")
=============================================================================
