-------------------------------- MODULE Vmm --------------------------------
(***************************************************************************)
(* The virtual memory manager (src/kernel/mm/vmm.c): four-level page       *)
(* tables built from pages of the physical memory manager, the mappings    *)
(* vmm_init makes before it switches CR3, and the address spaces, mappings *)
(* and unmappings clients make afterwards.                                 *)
(*                                                                         *)
(* Addresses are page numbers; a page number of the virtual space has four *)
(* digits in base TABLE_ENTRIES, one per level.  A present entry is the    *)
(* page it points to: the flag bits are left out (no caller sets VMM_HUGE, *)
(* vmm_map always sets VMM_PRESENT).  Page tables are read and written     *)
(* through their identity address, so after the switch the running tables  *)
(* must map themselves; CurrentReachesTables is about that.                *)
(***************************************************************************)
EXTENDS Integers, Sequences, FiniteSets

CONSTANTS
    TABLE_ENTRIES,      \* 512
    KERNEL_VIRT_BASE,   \* the first page of the higher half
    Layouts,            \* what the machine may look like: see IsLayout
    ClientVirts,        \* where clients map
    DevicePages,        \* MMIO pages drivers map (ehci_init)
    MaxSpaces           \* bound: address spaces that exist besides the kernel's

VARIABLES
    layout,     \* the machine
    pc,         \* "start", "init", "run" or "panic"
    todo,       \* the mappings vmm_init has still to make
    mem,        \* the page tables: [page -> [index -> entry]]
    free,       \* the pages pmm_alloc_page can return
    held,       \* pages clients got from pmm_alloc_page
    pml4,       \* the pml4 field of every address space
    cr3,        \* the root in use; 0 while the firmware's tables are
    tlb,        \* the translations the processor has cached
    last,       \* the last vmm_map or vmm_unmap
    starved     \* ghost: vmm_init ran out of pages for its tables

vars == <<layout, pc, todo, mem, free, held, pml4, cr3, tlb, last, starved>>

ABSENT == -1
Index == 0 .. (TABLE_ENTRIES - 1)
VirtPages == TABLE_ENTRIES * TABLE_ENTRIES * TABLE_ENTRIES * TABLE_ENTRIES
g_kernel_as == 0
Spaces == g_kernel_as .. MaxSpaces

\* The order in which vmm_init meets the pages, and what the PMM has left.
IsLayout(l) ==
    /\ DOMAIN l = {"kernel", "usable", "framebuffer", "heap", "free"}
    /\ \A part \in {"kernel", "usable", "framebuffer", "heap"} : l[part] \in Seq(Nat)
    /\ l.kernel # <<>>
    /\ l.free \subseteq {l.usable[i] : i \in DOMAIN l.usable} \ {0}
    /\ \A i \in DOMAIN l.heap : l.heap[i] \notin l.free
    /\ \A i \in DOMAIN l.kernel : l.kernel[i] \notin l.free

ASSUME LayoutsAssumption == \A l \in Layouts : IsLayout(l)
ASSUME SpaceAssumption ==
    /\ TABLE_ENTRIES \in Nat \ {0, 1} /\ KERNEL_VIRT_BASE \in 0 .. (VirtPages - 1)
    /\ ClientVirts \subseteq 0 .. (VirtPages - 1)
    /\ DevicePages \subseteq 0 .. (VirtPages - 1)   \* pages of a 32-bit BAR
    /\ MaxSpaces \in Nat
----------------------------------------------------------------------------
\* Walking and building tables.

PML4_INDEX(v) == (v \div (TABLE_ENTRIES * TABLE_ENTRIES * TABLE_ENTRIES)) % TABLE_ENTRIES
PDPT_INDEX(v) == (v \div (TABLE_ENTRIES * TABLE_ENTRIES)) % TABLE_ENTRIES

\* MUTANT: the shift of the level above.
PD_INDEX_WrongShift(v) == (v \div (TABLE_ENTRIES * TABLE_ENTRIES)) % TABLE_ENTRIES

PD_INDEX(v) == (v \div TABLE_ENTRIES) % TABLE_ENTRIES
PT_INDEX(v) == v % TABLE_ENTRIES

HigherHalf(phys) == (KERNEL_VIRT_BASE + phys) % VirtPages

\* A page allocated as a table, or a space entered: f with one more argument.
With(f, new, value) ==
    [x \in DOMAIN f \cup {new} |-> IF x = new THEN value ELSE f[x]]

ZeroTable == [i \in Index |-> ABSENT]
Lowest(pages) == CHOOSE p \in pages : \A q \in pages : p <= q

\* pmm_alloc_page: NULL (0) when nothing is free.
pmm_alloc_page(pages) == IF pages = {} THEN 0 ELSE Lowest(pages)

\* A walk in progress: the tables, the free pages, and the table reached (0
\* when the walk has failed).
get_or_create_table(w, index) ==
    LET page == pmm_alloc_page(w.free) IN
    CASE w.at = 0 -> w
      [] w.at # 0 /\ w.mem[w.at][index] # ABSENT ->
            [w EXCEPT !.at = w.mem[w.at][index]]
      [] w.at # 0 /\ w.mem[w.at][index] = ABSENT /\ page = 0 ->
            [w EXCEPT !.at = 0]
      [] OTHER ->
            [mem |-> With([w.mem EXCEPT ![w.at][index] = page], page, ZeroTable),
             free |-> w.free \ {page}, at |-> page]

BuildWalk(root, virt) ==
    get_or_create_table(
      get_or_create_table(
        get_or_create_table([mem |-> mem, free |-> free, at |-> root],
                            PML4_INDEX(virt)),
        PDPT_INDEX(virt)),
      PD_INDEX(virt))

Entry(table, index) == IF table = ABSENT THEN ABSENT ELSE mem[table][index]
FindTable(root, virt) ==
    Entry(Entry(Entry(root, PML4_INDEX(virt)), PDPT_INDEX(virt)), PD_INDEX(virt))
vmm_get_phys(root, virt) == Entry(FindTable(root, virt), PT_INDEX(virt))

\* MUTANT: the flush is left out.
invlpg_Skipped(virt) == tlb

invlpg(virt) == {t \in tlb : t.virt # virt}

\* MUTANT: a failed walk gives its tables back but leaves them linked.
vmm_map_RollsBack(root, virt, phys) ==
    LET w == BuildWalk(root, virt) IN
    /\ free' = IF w.at = 0 THEN free ELSE w.free
    /\ last' = [op |-> "map", root |-> root, virt |-> virt, phys |-> phys,
                ok |-> w.at # 0]
    /\ IF w.at = 0 THEN mem' = w.mem /\ tlb' = tlb
       ELSE /\ mem' = [w.mem EXCEPT ![w.at][PT_INDEX(virt)] = phys]
            /\ tlb' = invlpg(virt)

vmm_map(root, virt, phys) ==
    LET w == BuildWalk(root, virt) IN
    /\ free' = w.free
    /\ last' = [op |-> "map", root |-> root, virt |-> virt, phys |-> phys,
                ok |-> w.at # 0]
    /\ IF w.at = 0 THEN mem' = w.mem /\ tlb' = tlb
       ELSE /\ mem' = [w.mem EXCEPT ![w.at][PT_INDEX(virt)] = phys]
            /\ tlb' = invlpg(virt)

vmm_unmap(root, virt) ==
    LET table == FindTable(root, virt) IN
    /\ last' = [op |-> "unmap", root |-> root, virt |-> virt, phys |-> 0,
                ok |-> table # ABSENT]
    /\ IF table = ABSENT THEN UNCHANGED <<mem, tlb>>
       ELSE /\ mem' = [mem EXCEPT ![table][PT_INDEX(virt)] = ABSENT]
            /\ tlb' = invlpg(virt)
    /\ UNCHANGED free
----------------------------------------------------------------------------
\* vmm_init.

Identity(pages) == [i \in DOMAIN pages |-> <<pages[i], pages[i]>>]
map_higher_half(pages) == [i \in DOMAIN pages |-> <<HigherHalf(pages[i]), pages[i]>>]

\* MUTANT: RAM is mapped at its own address only.
BothHalves_LowOnly(pages) == Identity(pages)

BothHalves(pages) ==
    [i \in 1 .. (2 * Len(pages)) |->
        LET p == pages[(i + 1) \div 2] IN
        IF i % 2 = 1 THEN <<p, p>> ELSE <<HigherHalf(p), p>>]

\* The calls of vmm_map vmm_init makes; it ignores what they return.
InitMappings(l) ==
    Identity(l.kernel) \o BothHalves(l.usable) \o Identity(l.framebuffer)
      \o map_higher_half(l.kernel) \o map_higher_half(l.heap)

Init ==
    /\ layout \in Layouts
    /\ pc = "start" /\ todo = InitMappings(layout)
    /\ mem = <<>> /\ free = layout.free /\ held = {}
    /\ pml4 = <<>> /\ cr3 = 0 /\ tlb = {}
    /\ last = [op |-> "none", root |-> 0, virt |-> 0, phys |-> 0, ok |-> TRUE]
    /\ starved = FALSE

AllocKernelPml4 ==
    LET page == pmm_alloc_page(free) IN
    /\ pc = "start" /\ page # 0
    /\ mem' = With(mem, page, ZeroTable) /\ free' = free \ {page}
    /\ pml4' = With(pml4, g_kernel_as, page)
    /\ pc' = "init"
    /\ UNCHANGED <<layout, starved, todo, held, cr3, tlb, last>>

MapNext ==
    /\ pc = "init" /\ todo # <<>>
    /\ vmm_map(pml4[g_kernel_as], Head(todo)[1], Head(todo)[2])
    /\ todo' = Tail(todo) /\ starved' = (starved \/ ~last'.ok)
    /\ UNCHANGED <<layout, pc, held, pml4, cr3>>

\* The two self-checks: the page vmm_init itself is on, in both halves.
SelfPage == layout.kernel[1]
SelfCheck ==
    /\ vmm_get_phys(pml4[g_kernel_as], SelfPage) = SelfPage
    /\ vmm_get_phys(pml4[g_kernel_as], HigherHalf(SelfPage)) = SelfPage

SwitchToOwnTables ==
    /\ pc = "init" /\ todo = <<>> /\ SelfCheck
    /\ pc' = "run" /\ cr3' = pml4[g_kernel_as] /\ tlb' = {}
    /\ UNCHANGED <<layout, starved, todo, mem, free, held, pml4, last>>

Panic ==
    /\ \/ pc = "start" /\ free = {}
       \/ pc = "init" /\ todo = <<>> /\ ~SelfCheck
    /\ pc' = "panic"
    /\ UNCHANGED <<layout, starved, todo, mem, free, held, pml4, cr3, tlb, last>>
----------------------------------------------------------------------------
\* Clients: drivers and the shell.

\* MUTANT: the kernel's root entries are not copied.
vmm_create_address_space_Empty(as) ==
    LET page == pmm_alloc_page(free) IN
    /\ pc = "run" /\ as \notin DOMAIN pml4 /\ page # 0
    /\ mem' = With(mem, page, ZeroTable)
    /\ free' = free \ {page}
    /\ pml4' = With(pml4, as, page)
    /\ UNCHANGED <<layout, starved, pc, todo, held, cr3, tlb, last>>

\* When kmalloc or pmm_alloc_page fails nothing changes: a stuttering step.
vmm_create_address_space(as) ==
    LET page == pmm_alloc_page(free) IN
    /\ pc = "run" /\ as \notin DOMAIN pml4 /\ page # 0
    /\ mem' = With(mem, page, mem[pml4[g_kernel_as]])
    /\ free' = free \ {page}
    /\ pml4' = With(pml4, as, page)
    /\ UNCHANGED <<layout, starved, pc, todo, held, cr3, tlb, last>>

\* refcount is always 1: nothing increments it.  The tables stay allocated.
vmm_destroy_address_space(as) ==
    /\ pc = "run" /\ as \in DOMAIN pml4 \ {g_kernel_as}
    /\ pml4' = [s \in DOMAIN pml4 \ {as} |-> pml4[s]]
    /\ UNCHANGED <<layout, starved, pc, todo, mem, free, held, cr3, tlb, last>>

vmm_switch_to(as) ==
    /\ pc = "run" /\ as \in DOMAIN pml4
    /\ cr3' = pml4[as] /\ tlb' = {}
    /\ UNCHANGED <<layout, starved, pc, todo, mem, free, held, pml4, last>>

\* A client maps a page it was given at one of its addresses in a space it
\* created, unmaps what it mapped (or an address without a table), and frees
\* the page when it is not mapped: what cmd_vmm_test does.  A driver maps a
\* device at its own address in the kernel's space.
ClientMap(as, virt, phys) ==
    /\ pc = "run" /\ as \in DOMAIN pml4 /\ phys \in held
    /\ vmm_map(pml4[as], virt, phys)
    /\ UNCHANGED <<layout, starved, pc, todo, held, pml4, cr3>>
DriverMap(phys) ==
    /\ pc = "run"
    /\ vmm_map(pml4[g_kernel_as], phys, phys)
    /\ UNCHANGED <<layout, starved, pc, todo, held, pml4, cr3>>
ClientUnmap(as, virt) ==
    /\ pc = "run" /\ as \in DOMAIN pml4
    /\ vmm_get_phys(pml4[as], virt) \in held \cup {ABSENT}
    /\ vmm_unmap(pml4[as], virt)
    /\ UNCHANGED <<layout, starved, pc, todo, held, pml4, cr3>>

ClientAlloc ==
    /\ pc = "run" /\ free # {} /\ held = {}
    /\ held' = {Lowest(free)} /\ free' = free \ held'
    /\ UNCHANGED <<layout, starved, pc, todo, mem, pml4, cr3, tlb, last>>
ClientFree(phys) ==
    /\ pc = "run" /\ phys \in held
    /\ \A as \in DOMAIN pml4, v \in ClientVirts : vmm_get_phys(pml4[as], v) # phys
    /\ held' = held \ {phys} /\ free' = free \cup {phys}
    /\ UNCHANGED <<layout, starved, pc, todo, mem, pml4, cr3, tlb, last>>

\* The processor uses an address and caches its translation.
Access(virt) ==
    /\ pc = "run" /\ vmm_get_phys(cr3, virt) # ABSENT
    /\ \A t \in tlb : t.virt # virt
    /\ tlb' = tlb \cup {[virt |-> virt, phys |-> vmm_get_phys(cr3, virt)]}
    /\ UNCHANGED <<layout, starved, pc, todo, mem, free, held, pml4, cr3, last>>

Next ==
    \/ AllocKernelPml4 \/ MapNext \/ SwitchToOwnTables \/ Panic
    \/ ClientAlloc
    \/ \E as \in 1 .. MaxSpaces :
          \/ vmm_create_address_space(as)
          \/ vmm_destroy_address_space(as)
          \/ \E v \in ClientVirts : ClientUnmap(as, v)
          \/ \E v \in ClientVirts, p \in held : ClientMap(as, v, p)
    \/ \E as \in Spaces : vmm_switch_to(as)
    \/ \E p \in DevicePages : DriverMap(p)
    \/ \E p \in held : ClientFree(p)
    \/ \E v \in ClientVirts : Access(v)

Spec == Init /\ [][Next]_vars
----------------------------------------------------------------------------
\* Properties.

Tables == DOMAIN mem
Ram == {layout.usable[i] : i \in DOMAIN layout.usable}
KernelPages == {layout.kernel[i] : i \in DOMAIN layout.kernel}
Mapped == Ram \cup KernelPages \cup {layout.framebuffer[i] : i \in DOMAIN layout.framebuffer}

\* The tables of a level, from the roots down.
Below(tables) == {mem[t][i] : t \in tables, i \in Index} \ {ABSENT}
Roots == ({pml4[as] : as \in DOMAIN pml4} \cup {cr3}) \ {0}
Pdpts == Below(Roots)
Pds == Below(Pdpts)
Pts == Below(Pds)
Slots(tables, page) == {s \in tables \X Index : mem[s[1]][s[2]] = page}

\* The tables of every address space form a tree of allocated pages: the
\* pages on the four levels are distinct, none is free or in a client's
\* hands, and below the roots, whose slots address spaces share, no table is
\* reached from two slots.  A walk of vmm_map, vmm_unmap or vmm_get_phys
\* then never takes data for a table or one level's table for another's,
\* also after allocations failed half-way through a walk.
TablesFormTree ==
    /\ Pdpts \cup Pds \cup Pts \subseteq Tables
    /\ Roots \cap (Pdpts \cup Pds \cup Pts) = {}
    /\ Pdpts \cap (Pds \cup Pts) = {} /\ Pds \cap Pts = {}
    /\ \A p \in Pds : Cardinality(Slots(Pdpts, p)) = 1
    /\ \A p \in Pts : Cardinality(Slots(Pds, p)) = 1
    /\ Tables \cap (free \cup held) = {}

\* The addresses the frame condition looks at.
Watched == Mapped \cup {HigherHalf(p) : p \in Mapped} \cup ClientVirts \cup DevicePages

\* Mapping and unmapping change the translation of their own address only,
\* in every address space; a call that fails changes no translation; a
\* vmm_map that succeeds is what vmm_get_phys then finds.
MapFrame ==
    [][/\ \A as \in DOMAIN pml4 \cap DOMAIN pml4', v \in Watched :
            vmm_get_phys(pml4[as], v)' # vmm_get_phys(pml4[as], v) =>
               last'.ok /\ last'.virt = v
       /\ last' # last /\ last'.op = "map" /\ last'.ok =>
            vmm_get_phys(last.root, last.virt)' = last'.phys]_vars

\* What vmm.h promises of vmm_init, and what must stay so: RAM, the kernel
\* and the framebuffer are identity mapped in the kernel's address space,
\* RAM and the kernel also in the higher half.  vmm_init ignores what vmm_map
\* returns, so this takes a machine with pages enough for the tables.
KernelMapComplete ==
    pc = "run" /\ ~starved =>
      /\ \A p \in Mapped : vmm_get_phys(pml4[g_kernel_as], p) = p
      /\ \A p \in Ram \cup KernelPages :
            vmm_get_phys(pml4[g_kernel_as], HigherHalf(p)) = p

\* table_ptr, and the memset of alloc_table, use physical addresses: in the
\* running address space every table, and every page that may become one,
\* is mapped at its own address.  Otherwise the next vmm_map would fault.
CurrentReachesTables ==
    pc = "run" /\ ~starved =>
      \A p \in Tables \cup free \cup held : vmm_get_phys(cr3, p) = p

\* The processor never uses a translation the running tables do not give:
\* vmm_map and vmm_unmap flush the address they change, also when they
\* change it through another address space that shares the table.
TlbCoherent ==
    \A t \in tlb : vmm_get_phys(cr3, t.virt) = t.phys
=============================================================================
