-------------------------------- MODULE Pmm --------------------------------
(***************************************************************************)
(* The physical memory manager of the kernel (src/kernel/mm/pmm.c) and the *)
(* two reservations kernel_main makes after initialising it.               *)
(*                                                                         *)
(* Physical addresses are page numbers: every address the kernel gives to  *)
(* the manager is 4 KB aligned, or is rounded to 4 KB by its caller.       *)
(* pmm_init is a loop over the firmware's memory map followed by loops     *)
(* over the region table; each iteration is a step here, so that what the  *)
(* loops compute can be stated as an invariant; g_free_pages, g_cover_lo   *)
(* and g_cover_hi stand for its locals free_pages, cover_lo and cover_hi   *)
(* until it stores them.  No interrupt handler uses the manager, so the    *)
(* steps of other operations are whole calls.                              *)
(***************************************************************************)
EXTENDS Integers, Sequences, FiniteSets

CONSTANTS
    Boots,          \* what the loader may hand over: see IsBoot
    PageSpace,      \* 2^52: the number of pages of a 64-bit address space
    LowPage,        \* 256: the first page at or above 1 MB
    BigRegion,      \* 256: smallest unusable region the table records
    MaxRegions,     \* PMM_MAX_REGIONS
    BitmapBytes,    \* sizeof(g_bitmap)
    Counts          \* the page counts clients ask for

VARIABLES
    boot,           \* the boot_info of this boot, and the linker's symbols
    pc,             \* where kernel_main and pmm_init are
    idx,            \* the loop variable i of the running pass
    g_regions, g_total_pages, g_free_pages,
    g_cover_lo, g_cover_hi, g_bitmap_pages,
    g_bitmap,       \* the indices whose bit is 1 (used)
    owned,          \* ghost: the allocations clients hold
    released,       \* ghost: regions given back by pmm_region_set_used
    ret             \* the last request, and what pmm_alloc_page(s) returned

vars == <<boot, pc, idx, g_regions, g_total_pages, g_free_pages, g_cover_lo,
          g_cover_hi, g_bitmap_pages, g_bitmap, owned, released, ret>>

table == <<g_regions, g_total_pages, g_cover_lo, g_cover_hi, g_bitmap_pages>>
clients == <<owned, released, ret>>

NULL == 0

\* The UEFI types the manager tells apart; "other" is any type it reserves.
Types == {"conventional", "boot_services", "loader", "acpi", "other"}
Flags == {"USABLE", "RESERVED", "ACPI"}

PagesOf(base, count) == base .. (base + count - 1)
Disjoint(d, e) == PagesOf(d.base, d.pages) \cap PagesOf(e.base, e.pages) = {}

Descriptor == [base : Nat, pages : Nat, type : Types]
Region == [base : Nat, pages : Nat, type : Types, flags : Flags]
PageRange == [base : Nat, pages : Nat]

classify_uefi_type(type) ==
    CASE type \in {"conventional", "boot_services"} -> "USABLE"
      [] type = "acpi" -> "ACPI"
      [] OTHER -> "RESERVED"

UsableDescriptor(d) ==
    d.base >= LowPage /\ classify_uefi_type(d.type) = "USABLE"

\* The ranges pmm_init and kernel_main keep out of circulation.
Protected(b) == {b.kernel, b.stack, b.memory_map, b.framebuffer}

(* What the loader hands over.  UEFI reports every page once.  The image,  *)
(* its stack and the map are EfiLoaderData and the framebuffer is device   *)
(* memory, so none holds a usable page; firmware that reports one of them  *)
(* inside conventional memory is also covered.                             *)
IsBoot(b) ==
    /\ b \in [map : Seq(Descriptor), kernel : PageRange, stack : PageRange,
              memory_map : PageRange, framebuffer : PageRange]
    /\ \A i \in DOMAIN b.map : b.map[i].base + b.map[i].pages <= PageSpace
    /\ \A i, j \in DOMAIN b.map : i # j => Disjoint(b.map[i], b.map[j])
    /\ \A r \in Protected(b) : \A i \in DOMAIN b.map :
         UsableDescriptor(b.map[i]) =>
            \/ Disjoint(r, b.map[i])
            \/ /\ b.map[i].type = "conventional"
               /\ PagesOf(r.base, r.pages) \subseteq
                      PagesOf(b.map[i].base, b.map[i].pages)

ASSUME BootsAssumption == \A b \in Boots : IsBoot(b)
ASSUME SizesAssumption ==
    /\ PageSpace \in Nat \ {0} /\ LowPage \in Nat \ {0} /\ BigRegion \in Nat
    /\ MaxRegions \in Nat /\ BitmapBytes \in Nat /\ Counts \subseteq Nat
----------------------------------------------------------------------------
\* Addresses and bits.

\* Unsigned 64-bit subtraction of two page-aligned addresses, in pages.
WrapSub(a, b) == IF a >= b THEN a - b ELSE PageSpace + a - b

InCover(page) == g_cover_lo <= page /\ page < g_cover_hi
phys_to_bit(page) == IF InCover(page) THEN page - g_cover_lo ELSE -1
bit_to_phys(bit) == g_cover_lo + bit

\* The bits a loop over count pages from start visits before it breaks.
BitRange(start, count) ==
    {bit \in start .. (start + count - 1) : bit < g_bitmap_pages}

AllBits == 0 .. (g_bitmap_pages - 1)
ClearBits == AllBits \ g_bitmap

\* Set, or clear, every bit of the set bits that is not so already.
MarkUsed(bits) ==
    /\ g_bitmap' = g_bitmap \cup bits
    /\ g_free_pages' = g_free_pages - Cardinality(bits \ g_bitmap)

\* MUTANT: the counter moves for bits that were clear already.
MarkFree_Uncounted(bits) ==
    /\ g_bitmap' = g_bitmap \ bits
    /\ g_free_pages' = g_free_pages + Cardinality(bits)

MarkFree(bits) ==
    /\ g_bitmap' = g_bitmap \ bits
    /\ g_free_pages' = g_free_pages + Cardinality(bits \cap g_bitmap)

\* The bits of a range given by its address; none when it starts uncovered.
RangeBits(base, pages) ==
    IF phys_to_bit(base) < 0 THEN {} ELSE BitRange(phys_to_bit(base), pages)
----------------------------------------------------------------------------
\* pmm_init.

Init ==
    /\ boot \in Boots
    /\ pc = "pass1" /\ idx = 1
    /\ g_regions = <<>> /\ g_total_pages = 0 /\ g_free_pages = 0
    /\ g_cover_lo = PageSpace /\ g_cover_hi = 0 /\ g_bitmap_pages = 0
    /\ g_bitmap = {}
    /\ owned = {} /\ released = {} /\ ret = [count |-> 0, phys |-> NULL]

\* MUTANT: the test of the table's limit lets one region too many in.
add_region_OffByOne(d, flags) ==
    g_regions' = IF Len(g_regions) > MaxRegions THEN g_regions
                 ELSE Append(g_regions, [base |-> d.base, pages |-> d.pages,
                                         type |-> d.type, flags |-> flags])

add_region(d, flags) ==
    g_regions' = IF Len(g_regions) >= MaxRegions THEN g_regions
                 ELSE Append(g_regions, [base |-> d.base, pages |-> d.pages,
                                         type |-> d.type, flags |-> flags])

\* One descriptor of pass 1.
Pass1Skip(d) ==
    /\ d.pages = 0
    /\ UNCHANGED <<g_regions, g_total_pages, g_cover_lo, g_cover_hi>>
Pass1Low(d) ==
    /\ d.pages # 0 /\ d.base < LowPage
    /\ add_region(d, "RESERVED")
    /\ UNCHANGED <<g_total_pages, g_cover_lo, g_cover_hi>>
Pass1Unusable(d) ==
    /\ d.pages # 0 /\ d.base >= LowPage
    /\ classify_uefi_type(d.type) # "USABLE"
    /\ IF d.pages >= BigRegion THEN add_region(d, classify_uefi_type(d.type))
                               ELSE UNCHANGED g_regions
    /\ UNCHANGED <<g_total_pages, g_cover_lo, g_cover_hi>>
Pass1Usable(d) ==
    LET end == d.base + d.pages IN
    /\ d.pages # 0 /\ UsableDescriptor(d)
    /\ add_region(d, classify_uefi_type(d.type))
    /\ g_cover_lo' = IF d.base < g_cover_lo THEN d.base ELSE g_cover_lo
    /\ g_cover_hi' = IF end > g_cover_hi THEN end ELSE g_cover_hi
    /\ g_total_pages' = g_total_pages + d.pages

Pass1 ==
    /\ pc = "pass1" /\ idx <= Len(boot.map)
    /\ \/ Pass1Skip(boot.map[idx])
       \/ Pass1Low(boot.map[idx])
       \/ Pass1Unusable(boot.map[idx])
       \/ Pass1Usable(boot.map[idx])
    /\ idx' = idx + 1
    /\ UNCHANGED <<boot, pc, g_free_pages, g_bitmap_pages, g_bitmap, clients>>

\* The two panics between passes 1 and 2.
NoRam == g_total_pages = 0
BitmapTooSmall == (g_cover_hi - g_cover_lo + 7) \div 8 > BitmapBytes

Panic ==
    /\ pc = "pass1" /\ idx > Len(boot.map)
    /\ NoRam \/ BitmapTooSmall
    /\ pc' = "panic"
    /\ UNCHANGED <<boot, idx, table, g_free_pages, g_bitmap, clients>>

\* Pass 2: the bitmap covers everything and everything is used.
Pass2 ==
    /\ pc = "pass1" /\ idx > Len(boot.map)
    /\ ~NoRam /\ ~BitmapTooSmall
    /\ g_bitmap_pages' = g_cover_hi - g_cover_lo
    /\ g_bitmap' = 0 .. (g_cover_hi - g_cover_lo - 1)
    /\ pc' = "pass3" /\ idx' = 1
    /\ UNCHANGED <<boot, g_regions, g_total_pages, g_cover_lo, g_cover_hi,
                   g_free_pages, clients>>

\* One region of pass 3.  The counter moves for every bit visited, clear or
\* not.
Pass3Region(r) ==
    LET bits == BitRange(WrapSub(r.base, g_cover_lo), r.pages) IN
    IF r.flags # "USABLE" THEN UNCHANGED <<g_bitmap, g_free_pages>>
    ELSE /\ g_bitmap' = g_bitmap \ bits
         /\ g_free_pages' = g_free_pages + Cardinality(bits)

Pass3 ==
    /\ pc = "pass3" /\ idx <= Len(g_regions)
    /\ Pass3Region(g_regions[idx])
    /\ idx' = idx + 1
    /\ UNCHANGED <<boot, pc, table, clients>>

\* Passes 4 and 5: the image and the stack.
Pass4 ==
    /\ pc = "pass3" /\ idx > Len(g_regions)
    /\ MarkUsed(RangeBits(boot.kernel.base, boot.kernel.pages))
    /\ pc' = "pass5"
    /\ UNCHANGED <<boot, idx, table, clients>>
Pass5 ==
    /\ pc = "pass5"
    /\ MarkUsed(RangeBits(boot.stack.base, boot.stack.pages))
    /\ pc' = "pass6" /\ idx' = 1
    /\ UNCHANGED <<boot, table, clients>>

\* One region of pass 6: by its UEFI type, whatever its flags.
Pass6Region(r) ==
    IF r.type # "boot_services" THEN UNCHANGED <<g_bitmap, g_free_pages>>
    ELSE MarkUsed(BitRange(WrapSub(r.base, g_cover_lo), r.pages))

Pass6 ==
    /\ pc = "pass6" /\ idx <= Len(g_regions)
    /\ Pass6Region(g_regions[idx])
    /\ idx' = idx + 1
    /\ UNCHANGED <<boot, pc, table, clients>>

\* MUTANT: the size of the map is rounded down to pages.
ReserveMemoryMap_RoundsDown ==
    /\ pc = "pass6" /\ idx > Len(g_regions)
    /\ MarkUsed(RangeBits(boot.memory_map.base, boot.memory_map.pages - 1))
    /\ pc' = "framebuffer"
    /\ UNCHANGED <<boot, idx, table, clients>>

\* kernel_main protects the memory map's own pages, then the framebuffer.
ReserveMemoryMap ==
    /\ pc = "pass6" /\ idx > Len(g_regions)
    /\ MarkUsed(RangeBits(boot.memory_map.base, boot.memory_map.pages))
    /\ pc' = "framebuffer"
    /\ UNCHANGED <<boot, idx, table, clients>>
ReserveFramebuffer ==
    /\ pc = "framebuffer"
    /\ MarkUsed(RangeBits(boot.framebuffer.base, boot.framebuffer.pages))
    /\ pc' = "ready"
    /\ UNCHANGED <<boot, idx, table, clients>>
----------------------------------------------------------------------------
\* The running manager.  Clients free what they hold, and may repeat a free
\* as long as nobody was given the pages since.

Runs(count) == {start \in AllBits : /\ start + count <= g_bitmap_pages
                                    /\ start .. (start + count - 1)
                                         \cap g_bitmap = {}}
First(starts) == CHOOSE s \in starts : \A t \in starts : s <= t

\* Hand out count pages from bit start.
HandOut(start, count) ==
    /\ g_bitmap' = g_bitmap \cup (start .. (start + count - 1))
    /\ g_free_pages' = g_free_pages - count
    /\ owned' = owned \cup {[base |-> bit_to_phys(start), pages |-> count]}
    /\ ret' = [count |-> count, phys |-> bit_to_phys(start)]
ReturnNull(count) ==
    /\ ret' = [count |-> count, phys |-> NULL]
    /\ UNCHANGED <<g_bitmap, g_free_pages, owned>>

pmm_alloc_page ==
    /\ pc = "ready"
    /\ IF g_free_pages = 0 \/ Runs(1) = {} THEN ReturnNull(1)
       ELSE HandOut(First(Runs(1)), 1)
    /\ UNCHANGED <<boot, pc, idx, table, released>>

\* MUTANT: the early return also refuses the last free pages.
pmm_alloc_pages_KeepsOne(count) ==
    /\ pc = "ready" /\ count # 1
    /\ IF count = 0 \/ count >= g_free_pages \/ Runs(count) = {}
       THEN ReturnNull(count)
       ELSE HandOut(First(Runs(count)), count)
    /\ UNCHANGED <<boot, pc, idx, table, released>>

pmm_alloc_pages(count) ==
    /\ pc = "ready" /\ count # 1        \* count = 1 is pmm_alloc_page
    /\ IF count = 0 \/ count > g_free_pages \/ Runs(count) = {}
       THEN ReturnNull(count)
       ELSE HandOut(First(Runs(count)), count)
    /\ UNCHANGED <<boot, pc, idx, table, released>>

\* pmm_free_page(phys) is pmm_free_pages(phys, 1).
pmm_free_pages(phys, count) ==
    /\ pc = "ready"
    /\ \/ [base |-> phys, pages |-> count] \in owned
       \/ phys = NULL
       \/ RangeBits(phys, count) \cap g_bitmap = {}
    /\ IF phys = NULL THEN UNCHANGED <<g_bitmap, g_free_pages>>
       ELSE MarkFree(RangeBits(phys, count))
    /\ owned' = owned \ {[base |-> phys, pages |-> count]}
    /\ ret' = [count |-> 0, phys |-> NULL]
    /\ UNCHANGED <<boot, pc, idx, table, released>>

\* pmm_region_set_used(base, pages, 0), for the use its header gives: a boot
\* services region, once.
pmm_region_set_free(i) ==
    /\ pc = "ready" /\ i \notin released
    /\ g_regions[i].type = "boot_services" /\ g_regions[i].flags = "USABLE"
    /\ MarkFree(RangeBits(g_regions[i].base, g_regions[i].pages))
    /\ released' = released \cup {i}
    /\ ret' = [count |-> 0, phys |-> NULL]
    /\ UNCHANGED <<boot, pc, idx, table, owned>>

Next ==
    \/ Pass1 \/ Panic \/ Pass2 \/ Pass3 \/ Pass4 \/ Pass5 \/ Pass6
    \/ ReserveMemoryMap \/ ReserveFramebuffer
    \/ pmm_alloc_page
    \/ \E count \in Counts : pmm_alloc_pages(count)
    \/ \E phys \in 0 .. g_cover_hi, count \in Counts : pmm_free_pages(phys, count)
    \/ \E i \in DOMAIN g_regions : pmm_region_set_free(i)

Spec == Init /\ [][Next]_vars
----------------------------------------------------------------------------
\* Properties.

\* Types of pmm.c's state: the region table never exceeds MaxRegions and the
\* bitmap holds only indices below g_bitmap_pages.
TypeOK ==
    /\ IsBoot(boot)
    /\ pc \in {"pass1", "pass3", "pass5", "pass6", "framebuffer", "ready", "panic"}
    /\ idx \in Nat \ {0}
    /\ g_regions \in Seq(Region) /\ Len(g_regions) <= MaxRegions
    /\ g_total_pages \in Nat /\ g_free_pages \in Int
    /\ g_cover_lo \in Nat /\ g_cover_hi \in Nat /\ g_bitmap_pages \in Nat
    /\ g_bitmap \subseteq AllBits
    /\ owned \subseteq PageRange
    /\ released \subseteq DOMAIN g_regions
    /\ ret \in [count : Nat, phys : Nat]

\* The counter pmm_alloc_page and pmm_alloc_pages trust for their early
\* returns is, once the bitmap exists, exactly the number of clear bits: pass 3
\* counts bits without looking at them, the later passes and the running
\* manager only the bits they change.
FreeCountExact ==
    pc # "pass1" => g_free_pages = Cardinality(ClearBits)

\* What the manager may hand out, stated from the region table alone: pages
\* of conventional regions, and of boot services regions once given back,
\* that no protected range holds.
InRegion(page, r) == page \in PagesOf(r.base, r.pages)
Allocatable(page) ==
    /\ \E i \in DOMAIN g_regions :
          /\ InRegion(page, g_regions[i])
          /\ g_regions[i].flags = "USABLE"
          /\ g_regions[i].type = "boot_services" => i \in released
    /\ \A r \in Protected(boot) : ~InRegion(page, r)

\* Once running, every bit of the bitmap is in exactly one of three states:
\* clear (and allocatable), held by exactly one client (and allocatable), or
\* out of circulation for good.  This is what the six passes of pmm_init, the
\* two reservations and all allocations and frees maintain together.
OwnersOf(page) == {a \in owned : InRegion(page, a)}
ManagedPartition ==
    pc = "ready" =>
      \A bit \in AllBits :
        LET page == bit_to_phys(bit) IN
        /\ bit \in g_bitmap /\ Allocatable(page) =>
             \E a \in owned : OwnersOf(page) = {a}
        /\ bit \notin g_bitmap => Allocatable(page) /\ OwnersOf(page) = {}
        /\ ~Allocatable(page) => OwnersOf(page) = {}

\* A request fails only if it cannot be met: pmm_alloc_page and
\* pmm_alloc_pages return NULL, for a positive count, only when the bitmap
\* has no run of count clear bits.
NullOnlyWithoutRun ==
    ret.count > 0 /\ ret.phys = NULL => Runs(ret.count) = {}
=============================================================================
