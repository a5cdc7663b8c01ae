----------------------------- MODULE PmmProofs -----------------------------
(***************************************************************************)
(* Theorems about Pmm, for every memory map, every size of the tables and  *)
(* every sequence of requests.                                             *)
(***************************************************************************)
EXTENDS Pmm, FiniteSetTheorems, TLAPS

(***************************************************************************)
(* The inductive invariant.                                                *)
(***************************************************************************)

\* A region of the table is a descriptor of the map, flagged by pass 1.
FromMap(r, d) ==
    /\ r.base = d.base /\ r.pages = d.pages /\ r.type = d.type
    /\ r.flags = IF d.base < LowPage THEN "RESERVED" ELSE classify_uefi_type(d.type)

\* What pass 1 builds.  Regions are disjoint because descriptors are.
TableInv ==
    /\ \A i \in DOMAIN g_regions : \E k \in DOMAIN boot.map :
          /\ pc = "pass1" => k < idx
          /\ FromMap(g_regions[i], boot.map[k])
    /\ \A i, j \in DOMAIN g_regions :
          i # j => Disjoint(g_regions[i], g_regions[j])
    /\ \A i \in DOMAIN g_regions : g_regions[i].flags = "USABLE" =>
          /\ g_cover_lo <= g_regions[i].base
          /\ g_regions[i].base + g_regions[i].pages <= g_cover_hi
    /\ g_total_pages # 0 => LowPage <= g_cover_lo /\ g_cover_lo <= g_cover_hi
    /\ g_total_pages = 0 => g_cover_lo = PageSpace
    /\ g_cover_hi <= PageSpace

\* The bitmap exists from pass 2 on, clients from "ready" on.
StageInv ==
    /\ pc \in {"pass1", "panic"} => g_bitmap_pages = 0 /\ g_free_pages = 0
    /\ pc \notin {"pass1", "panic"} =>
          /\ g_total_pages # 0
          /\ g_bitmap_pages = g_cover_hi - g_cover_lo
    /\ pc # "ready" => owned = {} /\ released = {} /\ ret.count = 0

CountInv == g_free_pages = Cardinality(ClearBits)

\* Which bits are clear, stage by stage.
InUsable(page, n) ==
    \E i \in DOMAIN g_regions : /\ i < n /\ g_regions[i].flags = "USABLE"
                                /\ InRegion(page, g_regions[i])
InBootServices(page, n) ==
    \E i \in DOMAIN g_regions : /\ i < n /\ g_regions[i].type = "boot_services"
                                /\ InRegion(page, g_regions[i])
All == Len(g_regions) + 1

AfterPass4(page) == InUsable(page, All) /\ ~InRegion(page, boot.kernel)
AfterPass5(page) == AfterPass4(page) /\ ~InRegion(page, boot.stack)
AfterPass6(page, n) == AfterPass5(page) /\ ~InBootServices(page, n)
AfterMap(page) == AfterPass6(page, All) /\ ~InRegion(page, boot.memory_map)
Available(page) == Allocatable(page) /\ OwnersOf(page) = {}

ClearInv ==
    \A bit \in AllBits :
      LET page == bit_to_phys(bit) IN
      /\ pc = "pass3" => (bit \notin g_bitmap <=> InUsable(page, idx))
      /\ pc = "pass5" => (bit \notin g_bitmap <=> AfterPass4(page))
      /\ pc = "pass6" => (bit \notin g_bitmap <=> AfterPass6(page, idx))
      /\ pc = "framebuffer" => (bit \notin g_bitmap <=> AfterMap(page))
      /\ pc = "ready" => (bit \notin g_bitmap <=> Available(page))

\* The clients' allocations.
OwnedInv ==
    /\ \A a \in owned :
         /\ a.pages > 0
         /\ g_cover_lo <= a.base /\ a.base + a.pages <= g_cover_hi
         /\ \A page \in PagesOf(a.base, a.pages) : Allocatable(page)
    /\ \A a, b \in owned : a # b => Disjoint(a, b)

PmmInv ==
    /\ TypeOK /\ TableInv /\ StageInv /\ CountInv /\ ClearInv /\ OwnedInv
    /\ NullOnlyWithoutRun

----------------------------------------------------------------------------
\* Facts about bitmaps as sets of indices.

\* A subset of the bitmap's indices is finite and has a cardinality.
LEMMA BitsFinite ==
    ASSUME NEW N \in Nat, NEW S \in SUBSET (0 .. (N - 1))
    PROVE  IsFiniteSet(S) /\ Cardinality(S) \in Nat
<1>1. IsFiniteSet(0 .. (N - 1))
  BY FS_Interval
<1>. QED
  BY <1>1, FS_Subset, FS_CardinalityType

\* Setting the bits of S takes away the clear ones among them: the counter
\* update of MarkUsed is the right one.
LEMMA SetBitsCount ==
    ASSUME NEW N \in Nat, NEW B \in SUBSET (0 .. (N - 1)),
           NEW S \in SUBSET (0 .. (N - 1))
    PROVE  Cardinality((0 .. (N - 1)) \ (B \cup S)) =
             Cardinality((0 .. (N - 1)) \ B) - Cardinality(S \ B)
<1>. DEFINE C == (0 .. (N - 1)) \ B
            D == S \ B
<1>1. /\ C \in SUBSET (0 .. (N - 1)) /\ D \in SUBSET (0 .. (N - 1))
      /\ (0 .. (N - 1)) \ (B \cup S) = C \ D
      /\ C \cap D = D
  OBVIOUS
<1>2. IsFiniteSet(C) /\ IsFiniteSet(D)
  BY <1>1, BitsFinite
<1>. HIDE DEF C, D
<1>3. Cardinality(C \ D) = Cardinality(C) - Cardinality(C \cap D)
  BY <1>2, FS_Difference
<1>. QED
  BY <1>1, <1>3 DEF C, D

\* Clearing the bits of S adds the set ones among them: the counter update
\* of MarkFree is the right one.
LEMMA ClearBitsCount ==
    ASSUME NEW N \in Nat, NEW B \in SUBSET (0 .. (N - 1)),
           NEW S \in SUBSET (0 .. (N - 1))
    PROVE  Cardinality((0 .. (N - 1)) \ (B \ S)) =
             Cardinality((0 .. (N - 1)) \ B) + Cardinality(S \cap B)
<1>. DEFINE C == (0 .. (N - 1)) \ B
            D == S \cap B
<1>1. /\ C \in SUBSET (0 .. (N - 1)) /\ D \in SUBSET (0 .. (N - 1))
      /\ (0 .. (N - 1)) \ (B \ S) = C \cup D
      /\ C \cap D = {}
  OBVIOUS
<1>2. IsFiniteSet(C) /\ IsFiniteSet(D)
      /\ Cardinality(C) \in Nat /\ Cardinality(D) \in Nat
  BY <1>1, BitsFinite
<1>. HIDE DEF C, D
<1>3. Cardinality(C \cup D) = Cardinality(C) + Cardinality(D) - Cardinality(C \cap D)
  BY <1>2, FS_Union
<1>4. Cardinality(C \cup D) = Cardinality(C) + Cardinality(D)
  BY <1>1, <1>2, <1>3, FS_EmptySet
<1>. QED
  BY <1>1, <1>4 DEF C, D

\* First picks the least element: a nonempty set of naturals has one.
LEMMA LeastNat ==
    ASSUME NEW S \in SUBSET Nat, S # {}
    PROVE  \E s \in S : \A t \in S : s <= t
<1>. DEFINE R == OpToRel(<, Nat)
<1>1. IsWellFoundedOn(R, Nat)
  BY NatLessThanWellFounded
<1>2. \A x, y \in Nat : y < x => <<y, x>> \in R
  BY DEF OpToRel
<1>. HIDE DEF R
<1>3. \E x \in S : \A y \in S : ~ (<<y, x>> \in R)
  BY <1>1, WFMin
<1>4. \E x \in S : \A y \in S : ~ (y < x)
  BY <1>2, <1>3, Zenon
<1>. QED
  BY <1>4

----------------------------------------------------------------------------
\* Facts about the region table and the protected ranges.

\* The base and the length of every region, descriptor and protected range are
\* naturals.
LEMMA FieldTypes ==
    ASSUME TypeOK
    PROVE  /\ \A i \in DOMAIN g_regions :
                g_regions[i].base \in Nat /\ g_regions[i].pages \in Nat
           /\ \A k \in DOMAIN boot.map :
                boot.map[k].base \in Nat /\ boot.map[k].pages \in Nat
           /\ \A r \in Protected(boot) : r.base \in Nat /\ r.pages \in Nat
           /\ \A a \in owned : a.base \in Nat /\ a.pages \in Nat
           /\ PageSpace \in Nat /\ LowPage \in Nat /\ LowPage > 0
<1>1. \A i \in DOMAIN g_regions : g_regions[i] \in Region
  BY DEF TypeOK
<1>2. \A k \in DOMAIN boot.map : boot.map[k] \in Descriptor
  BY DEF TypeOK, IsBoot
<1>3. \A r \in Protected(boot) : r \in PageRange
  BY DEF TypeOK, IsBoot, Protected
<1>4. \A a \in owned : a \in PageRange
  BY DEF TypeOK
<1>. QED
  BY <1>1, <1>2, <1>3, <1>4, SizesAssumption DEF Region, Descriptor, PageRange

\* A usable region of the table lies inside the bitmap.
LEMMA UsableRegion ==
    ASSUME TypeOK, TableInv, NEW i \in DOMAIN g_regions,
           g_regions[i].flags = "USABLE"
    PROVE  \E k \in DOMAIN boot.map :
             /\ UsableDescriptor(boot.map[k])
             /\ PagesOf(g_regions[i].base, g_regions[i].pages)
                  = PagesOf(boot.map[k].base, boot.map[k].pages)
             /\ g_regions[i].type = boot.map[k].type
<1>1. PICK k \in DOMAIN boot.map : FromMap(g_regions[i], boot.map[k])
  BY DEF TableInv
<1>2. boot.map[k].base \in Nat
  BY FieldTypes
<1>3. UsableDescriptor(boot.map[k])
  BY <1>1, <1>2, SizesAssumption DEF FromMap, UsableDescriptor
<1>. QED
  BY <1>1, <1>3 DEF FromMap

\* A protected range that shares a page with a usable region starts inside
\* that region, so RangeBits does not skip it, and the region is not a boot
\* services region.
LEMMA ProtectedInside ==
    ASSUME TypeOK, TableInv, NEW i \in DOMAIN g_regions,
           g_regions[i].flags = "USABLE", NEW r \in Protected(boot),
           NEW page, InRegion(page, g_regions[i]), InRegion(page, r)
    PROVE  /\ g_regions[i].type # "boot_services"
           /\ g_cover_lo <= r.base /\ r.base < g_cover_hi
<1>1. PICK k \in DOMAIN boot.map :
             /\ UsableDescriptor(boot.map[k])
             /\ PagesOf(g_regions[i].base, g_regions[i].pages)
                  = PagesOf(boot.map[k].base, boot.map[k].pages)
             /\ g_regions[i].type = boot.map[k].type
  BY UsableRegion
<1>2. ~Disjoint(r, boot.map[k])
  BY <1>1 DEF Disjoint, InRegion
<1>3. /\ boot.map[k].type = "conventional"
      /\ PagesOf(r.base, r.pages) \subseteq
           PagesOf(g_regions[i].base, g_regions[i].pages)
  BY <1>1, <1>2 DEF TypeOK, IsBoot
<1>4. r.base \in PagesOf(r.base, r.pages)
  BY FieldTypes DEF InRegion, PagesOf
<1>5. r.base \in PagesOf(g_regions[i].base, g_regions[i].pages)
  BY <1>3, <1>4
<1>6. g_cover_lo <= r.base /\ r.base < g_cover_hi
  <2>1. /\ g_cover_lo <= g_regions[i].base
        /\ g_regions[i].base + g_regions[i].pages <= g_cover_hi
    BY DEF TableInv
  <2>2. g_regions[i].base \in Nat /\ g_regions[i].pages \in Nat /\ r.base \in Nat
    BY FieldTypes
  <2>3. g_cover_lo \in Nat /\ g_cover_hi \in Nat
    BY DEF TypeOK
  <2>4. /\ g_regions[i].base <= r.base
        /\ r.base < g_regions[i].base + g_regions[i].pages
    BY <1>5, <2>2 DEF PagesOf
  <2>. QED
    BY ONLY <2>1, <2>2, <2>3, <2>4
<1>. QED
  BY <1>1, <1>3, <1>6

\* Regions are disjoint: a page lies in one of them at most.
LEMMA OneRegion ==
    ASSUME TableInv, NEW i \in DOMAIN g_regions, NEW j \in DOMAIN g_regions,
           NEW page, InRegion(page, g_regions[i]), InRegion(page, g_regions[j])
    PROVE  i = j
  BY DEF TableInv, Disjoint, InRegion

\* The bitmap stage: the bitmap covers g_cover_lo up to g_cover_hi.
Mapped ==
    /\ TypeOK /\ TableInv
    /\ LowPage <= g_cover_lo /\ g_cover_lo <= g_cover_hi
    /\ g_bitmap_pages = g_cover_hi - g_cover_lo

\* The bits a loop over a range visits are bits of the bitmap, and when the range
\* starts in the cover they are exactly the bits of its pages.
LEMMA RangeBitsAreBits ==
    ASSUME Mapped, NEW base \in Nat, NEW count \in Nat
    PROVE  /\ RangeBits(base, count) \in SUBSET AllBits
           /\ InCover(base) => \A bit \in AllBits :
                bit \in RangeBits(base, count)
                  <=> bit_to_phys(bit) \in PagesOf(base, count)
  BY DEF Mapped, TypeOK, RangeBits, BitRange, AllBits, phys_to_bit, InCover,
         bit_to_phys, PagesOf

\* What reserving a protected range does to the usable pages.
LEMMA ProtectedBits ==
    ASSUME Mapped, NEW r \in Protected(boot), NEW bit \in AllBits,
           InUsable(bit_to_phys(bit), All)
    PROVE  bit \in RangeBits(r.base, r.pages) <=> InRegion(bit_to_phys(bit), r)
<1>1. PICK i \in DOMAIN g_regions : /\ g_regions[i].flags = "USABLE"
                                    /\ InRegion(bit_to_phys(bit), g_regions[i])
  BY DEF InUsable
<1>2. r.base \in Nat /\ r.pages \in Nat
  BY FieldTypes DEF Mapped
<1>3. InRegion(bit_to_phys(bit), r) => InCover(r.base)
  BY <1>1, ProtectedInside DEF Mapped, InCover
<1>4. CASE InCover(r.base)
  BY <1>2, <1>4, RangeBitsAreBits DEF InRegion
<1>5. CASE ~InCover(r.base)
  BY <1>3, <1>5 DEF RangeBits, phys_to_bit
<1>. QED
  BY <1>4, <1>5

\* What pass 3 visits for a usable region.
LEMMA UsableBits ==
    ASSUME Mapped, NEW i \in DOMAIN g_regions, g_regions[i].flags = "USABLE"
    PROVE  LET r == g_regions[i]
               bits == BitRange(WrapSub(r.base, g_cover_lo), r.pages)
           IN  /\ InCover(r.base) \/ r.pages = 0
               /\ bits \in SUBSET AllBits
               /\ \A bit \in AllBits :
                    bit \in bits <=> InRegion(bit_to_phys(bit), r)
<1>1. g_regions[i].base \in Nat /\ g_regions[i].pages \in Nat
  BY FieldTypes DEF Mapped
<1>2. g_cover_lo <= g_regions[i].base /\ g_regions[i].base + g_regions[i].pages <= g_cover_hi
  BY DEF Mapped, TableInv
<1>3. WrapSub(g_regions[i].base, g_cover_lo) = g_regions[i].base - g_cover_lo
  BY <1>2 DEF WrapSub, Mapped, TypeOK
<1>4. /\ g_cover_lo \in Nat /\ g_cover_hi \in Nat
      /\ g_bitmap_pages = g_cover_hi - g_cover_lo
  BY DEF Mapped, TypeOK
<1>5. InCover(g_regions[i].base) \/ g_regions[i].pages = 0
  BY <1>1, <1>2, <1>4 DEF InCover
<1>6. BitRange(g_regions[i].base - g_cover_lo, g_regions[i].pages) \in SUBSET AllBits
  BY <1>1, <1>2, <1>4 DEF BitRange, AllBits
<1>7. ASSUME NEW bit \in AllBits
      PROVE  bit \in BitRange(g_regions[i].base - g_cover_lo, g_regions[i].pages)
               <=> InRegion(bit_to_phys(bit), g_regions[i])
  BY <1>1, <1>2, <1>4 DEF BitRange, AllBits, bit_to_phys, InRegion, PagesOf
<1>. QED
  BY <1>3, <1>5, <1>6, <1>7

\* What pass 6 visits for a boot services region: nothing when the region
\* is below 1 MB, because the subtraction wraps beyond the bitmap.
LEMMA BootServicesBits ==
    ASSUME Mapped, NEW i \in DOMAIN g_regions,
           g_regions[i].type = "boot_services"
    PROVE  LET r == g_regions[i]
               bits == BitRange(WrapSub(r.base, g_cover_lo), r.pages)
           IN  /\ bits \in SUBSET AllBits
               /\ \A bit \in AllBits : InUsable(bit_to_phys(bit), All) =>
                    (bit \in bits <=> InRegion(bit_to_phys(bit), r))
<1>1. g_regions[i].base \in Nat /\ g_regions[i].pages \in Nat
  BY FieldTypes DEF Mapped
<1>2. CASE g_regions[i].flags = "USABLE"
  BY <1>2, UsableBits
<1>3. CASE g_regions[i].flags # "USABLE"
  <2>1. g_regions[i].base < LowPage
    BY <1>3 DEF Mapped, TableInv, FromMap, classify_uefi_type
  <2>2. BitRange(WrapSub(g_regions[i].base, g_cover_lo), g_regions[i].pages) = {}
    <3>1. /\ LowPage \in Nat /\ PageSpace \in Nat
          /\ g_cover_lo \in Nat /\ g_cover_hi \in Nat
      BY SizesAssumption DEF Mapped, TypeOK
    <3>2. /\ LowPage <= g_cover_lo /\ g_cover_lo <= g_cover_hi
          /\ g_cover_hi <= PageSpace
          /\ g_bitmap_pages = g_cover_hi - g_cover_lo
      BY DEF Mapped, TableInv
    <3>3. /\ WrapSub(g_regions[i].base, g_cover_lo) \in Nat
          /\ WrapSub(g_regions[i].base, g_cover_lo) >= g_bitmap_pages
      BY ONLY <1>1, <2>1, <3>1, <3>2 DEF WrapSub
    <3>. QED
      BY ONLY <1>1, <3>1, <3>2, <3>3 DEF BitRange
  <2>3. \A bit \in AllBits : InUsable(bit_to_phys(bit), All) =>
                   ~InRegion(bit_to_phys(bit), g_regions[i])
    BY <1>3, OneRegion DEF InUsable, Mapped
  <2>. QED
    BY <2>2, <2>3
<1>. QED
  BY <1>2, <1>3

----------------------------------------------------------------------------
\* Initialisation: the stages before the bitmap exists.

\* When pmm_init starts, the invariant holds.
LEMMA InitInv == Init => PmmInv
<1>. SUFFICES ASSUME Init PROVE PmmInv
  OBVIOUS
<1>1. TypeOK
  BY BootsAssumption, SizesAssumption DEF Init, TypeOK, AllBits, NULL
<1>2. TableInv
  BY SizesAssumption DEF Init, TableInv
<1>3. StageInv
  BY DEF Init, StageInv
<1>4. CountInv
  <2>1. ClearBits = {}
    BY DEF Init, ClearBits, AllBits
  <2>. QED
    BY <2>1, FS_EmptySet DEF CountInv, Init
<1>5. ClearInv /\ OwnedInv /\ NullOnlyWithoutRun
  BY DEF Init, ClearInv, OwnedInv, NullOnlyWithoutRun, AllBits
<1>. QED
  BY <1>1, <1>2, <1>3, <1>4, <1>5 DEF PmmInv

\* What one iteration of pass 1 does to the table and the cover.
TableGrows(d) ==
    \/ g_regions' = g_regions
    \/ /\ Len(g_regions) < MaxRegions
       /\ \E r \in Region :
            /\ g_regions' = Append(g_regions, r)
            /\ FromMap(r, d)
            /\ r.flags = "USABLE" =>
                 g_cover_lo' <= d.base /\ d.base + d.pages <= g_cover_hi'
CoverGrows ==
    /\ g_cover_lo' \in Nat /\ g_cover_lo' <= g_cover_lo
    /\ g_cover_hi' \in Nat /\ g_cover_hi <= g_cover_hi' /\ g_cover_hi' <= PageSpace
    /\ g_total_pages' \in Nat
    /\ g_total_pages' # 0 => LowPage <= g_cover_lo' /\ g_cover_lo' <= g_cover_hi'
    /\ g_total_pages' = 0 => g_cover_lo' = PageSpace

\* The descriptor an iteration of pass 1 reads is one of the map.
LEMMA CurrentDescriptor ==
    ASSUME TypeOK, Pass1
    PROVE  /\ idx \in DOMAIN boot.map
           /\ boot.map[idx] \in Descriptor
           /\ boot.map[idx].base \in Nat /\ boot.map[idx].pages \in Nat
           /\ boot.map[idx].base + boot.map[idx].pages <= PageSpace
<1>1. boot.map \in Seq(Descriptor)
  BY DEF TypeOK, IsBoot
<1>2. idx \in DOMAIN boot.map
  BY <1>1 DEF TypeOK, Pass1
<1>3. boot.map[idx] \in Descriptor
  BY <1>1, <1>2
<1>. QED
  BY <1>2, <1>3 DEF TypeOK, IsBoot, Descriptor

\* add_region grows the table by the descriptor it is given, or not at all.
LEMMA AppendRegion ==
    ASSUME TypeOK, NEW d \in Descriptor, NEW flags \in Flags, add_region(d, flags),
           flags = IF d.base < LowPage THEN "RESERVED" ELSE classify_uefi_type(d.type),
           flags = "USABLE" =>
                 g_cover_lo' <= d.base /\ d.base + d.pages <= g_cover_hi'
    PROVE  TableGrows(d)
<1>. DEFINE r == [base |-> d.base, pages |-> d.pages, type |-> d.type,
                  flags |-> flags]
<1>1. r \in Region /\ FromMap(r, d) /\ r.flags = flags
  BY DEF Region, Descriptor, FromMap
<1>2. \/ g_regions' = g_regions
      \/ Len(g_regions) < MaxRegions /\ g_regions' = Append(g_regions, r)
  BY SizesAssumption DEF add_region, TypeOK
<1>. HIDE DEF r
<1>. QED
  BY <1>1, <1>2 DEF TableGrows

\* Each of the four ways through an iteration of pass 1 grows the table and the
\* cover as described by TableGrows and CoverGrows.
LEMMA Pass1Effect ==
    ASSUME TypeOK, TableInv, Pass1
    PROVE  TableGrows(boot.map[idx]) /\ CoverGrows
<1>. DEFINE d == boot.map[idx]
<1>1. /\ d \in Descriptor /\ d.base + d.pages <= PageSpace
      /\ d.base \in Nat /\ d.pages \in Nat
  BY CurrentDescriptor
<1>2. classify_uefi_type(d.type) \in Flags
  BY DEF classify_uefi_type, Flags
<1>3. /\ g_cover_lo \in Nat /\ g_cover_hi \in Nat /\ g_total_pages \in Nat
      /\ PageSpace \in Nat /\ LowPage \in Nat
  BY SizesAssumption DEF TypeOK
<1>4. \/ Pass1Skip(d) \/ Pass1Low(d) \/ Pass1Unusable(d) \/ Pass1Usable(d)
  BY DEF Pass1
<1>. SUFFICES TableGrows(d) /\ CoverGrows
  OBVIOUS
<1>. HIDE DEF d
<1>5. UNCHANGED <<g_total_pages, g_cover_lo, g_cover_hi>> => CoverGrows
  BY <1>3 DEF CoverGrows, TableInv
<1>6. CASE Pass1Skip(d)
  BY <1>5, <1>6 DEF Pass1Skip, TableGrows
<1>7. CASE Pass1Low(d)
  <2>1. "RESERVED" \in Flags /\ d.base < LowPage
    BY <1>7 DEF Flags, Pass1Low
  <2>2. add_region(d, "RESERVED") /\ CoverGrows
    BY <1>5, <1>7 DEF Pass1Low
  <2>. QED
    BY ONLY <1>1, <2>1, <2>2, AppendRegion, TypeOK
<1>8. CASE Pass1Unusable(d)
  <2>1. ~(d.base < LowPage)
    BY <1>1, <1>3, <1>8 DEF Pass1Unusable
  <2>2. CASE UNCHANGED g_regions
    BY <1>5, <1>8, <2>2 DEF Pass1Unusable, TableGrows
  <2>3. CASE add_region(d, classify_uefi_type(d.type))
    <3>1. classify_uefi_type(d.type) # "USABLE" /\ CoverGrows
      BY <1>5, <1>8 DEF Pass1Unusable
    <3>. QED
      BY ONLY TypeOK, <1>1, <1>2, <2>1, <2>3, <3>1, AppendRegion
  <2>. QED
    BY <1>8, <2>2, <2>3 DEF Pass1Unusable
<1>9. CASE Pass1Usable(d)
  <2>1. ~(d.base < LowPage)
    BY <1>1, <1>3, <1>9 DEF Pass1Usable, UsableDescriptor
  <2>2. g_cover_lo' <= d.base /\ d.base + d.pages <= g_cover_hi'
    BY <1>1, <1>3, <1>9 DEF Pass1Usable
  <2>3. TableGrows(d)
    <3>1. add_region(d, classify_uefi_type(d.type))
      BY <1>9 DEF Pass1Usable
    <3>. QED
      BY ONLY TypeOK, <1>1, <1>2, <2>1, <2>2, <3>1, AppendRegion
  <2>4. CoverGrows
    BY <1>1, <1>3, <1>9 DEF Pass1Usable, TableInv, UsableDescriptor, CoverGrows
  <2>. QED
    BY <2>3, <2>4
<1>. QED
  BY <1>4, <1>6, <1>7, <1>8, <1>9

\* An iteration of pass 1 keeps the invariant.
LEMMA Pass1Step ==
    ASSUME PmmInv, Pass1
    PROVE  PmmInv'
<1>. DEFINE d == boot.map[idx]
<1>1. /\ TypeOK /\ TableInv /\ StageInv /\ CountInv
      /\ pc = "pass1" /\ pc' = pc /\ boot' = boot /\ idx' = idx + 1
      /\ idx \in DOMAIN boot.map /\ idx \in Nat
      /\ UNCHANGED <<g_free_pages, g_bitmap_pages, g_bitmap, owned, released, ret>>
  BY CurrentDescriptor DEF PmmInv, Pass1, TypeOK, clients
<1>g. TableGrows(d) /\ CoverGrows
  BY <1>1, Pass1Effect DEF PmmInv
<1>2. TypeOK'
  <2>1. g_regions' \in Seq(Region) /\ Len(g_regions') <= MaxRegions
    BY <1>1, <1>g, SizesAssumption DEF TypeOK, TableGrows
  <2>2. released' \subseteq DOMAIN g_regions'
    BY <1>1 DEF StageInv
  <2>. QED
    BY <1>1, <1>g, <2>1, <2>2 DEF TypeOK, AllBits, CoverGrows
<1>3. TableInv'
  <2>1. CASE g_regions' = g_regions
    <3>1. ASSUME NEW i \in DOMAIN g_regions
          PROVE  \E k \in DOMAIN boot.map : k < idx' /\ FromMap(g_regions[i], boot.map[k])
      <4>1. PICK k \in DOMAIN boot.map : k < idx /\ FromMap(g_regions[i], boot.map[k])
        BY <1>1 DEF TableInv
      <4>2. k \in Nat
        BY DEF TypeOK, IsBoot, PmmInv
      <4>. QED
        BY <1>1, <4>1, <4>2
    <3>2. ASSUME NEW i \in DOMAIN g_regions, g_regions[i].flags = "USABLE"
          PROVE  /\ g_cover_lo' <= g_regions[i].base
                 /\ g_regions[i].base + g_regions[i].pages <= g_cover_hi'
      <4>1. /\ g_cover_lo <= g_regions[i].base
            /\ g_regions[i].base + g_regions[i].pages <= g_cover_hi
        BY <1>1, <3>2 DEF TableInv
      <4>2. g_regions[i].base \in Nat /\ g_regions[i].pages \in Nat
        BY <1>1, FieldTypes
      <4>3. g_cover_lo \in Nat /\ g_cover_hi \in Nat
        BY <1>1 DEF TypeOK
      <4>. QED
        BY <1>g, <4>1, <4>2, <4>3 DEF CoverGrows
    <3>. QED
      BY <1>1, <1>g, <2>1, <3>1, <3>2 DEF TableInv, CoverGrows
  <2>2. ASSUME NEW r \in Region, g_regions' = Append(g_regions, r), FromMap(r, d),
               r.flags = "USABLE" =>
                  g_cover_lo' <= d.base /\ d.base + d.pages <= g_cover_hi'
        PROVE  TableInv'
    <3>. DEFINE n == Len(g_regions)
    <3>1. /\ n \in Nat /\ DOMAIN g_regions = 1 .. n
          /\ DOMAIN g_regions' = 1 .. (n + 1) /\ g_regions'[n + 1] = r
          /\ \A i \in 1 .. n : g_regions'[i] = g_regions[i]
      BY <1>1, <2>2 DEF TypeOK
    <3>2. \A i \in DOMAIN g_regions' : \E k \in DOMAIN boot.map :
             k < idx' /\ FromMap(g_regions'[i], boot.map[k])
      <4>1. ASSUME NEW i \in DOMAIN g_regions', i # n + 1
            PROVE  \E k \in DOMAIN boot.map :
                      k < idx' /\ FromMap(g_regions'[i], boot.map[k])
        <5>1. i \in DOMAIN g_regions /\ g_regions'[i] = g_regions[i]
          BY <3>1, <4>1
        <5>2. PICK k \in DOMAIN boot.map : k < idx /\ FromMap(g_regions[i], boot.map[k])
          BY <1>1, <5>1 DEF TableInv
        <5>3. k \in Nat
          BY DEF TypeOK, IsBoot, PmmInv
        <5>. QED
          BY <1>1, <5>1, <5>2, <5>3
      <4>. QED
        BY <1>1, <2>2, <3>1, <4>1
    <3>3. \A i \in 1 .. n : Disjoint(g_regions[i], r) /\ Disjoint(r, g_regions[i])
      <4>1. SUFFICES ASSUME NEW i \in 1 .. n
                     PROVE  Disjoint(g_regions[i], r) /\ Disjoint(r, g_regions[i])
        OBVIOUS
      <4>2. PICK k \in DOMAIN boot.map : k < idx /\ FromMap(g_regions[i], boot.map[k])
        BY <1>1, <3>1 DEF TableInv
      <4>3. Disjoint(boot.map[k], d)
        BY <1>1, <4>2 DEF TypeOK, IsBoot
      <4>. QED
        BY <2>2, <4>2, <4>3 DEF FromMap, Disjoint
    <3>4. \A i, j \in DOMAIN g_regions' :
             i # j => Disjoint(g_regions'[i], g_regions'[j])
      BY <1>1, <3>1, <3>3 DEF TableInv
    <3>5. \A i \in DOMAIN g_regions' : g_regions'[i].flags = "USABLE" =>
             /\ g_cover_lo' <= g_regions'[i].base
             /\ g_regions'[i].base + g_regions'[i].pages <= g_cover_hi'
      <4>1. ASSUME NEW i \in 1 .. n, g_regions[i].flags = "USABLE"
            PROVE  /\ g_cover_lo' <= g_regions[i].base
                   /\ g_regions[i].base + g_regions[i].pages <= g_cover_hi'
        <5>1. /\ g_cover_lo <= g_regions[i].base
              /\ g_regions[i].base + g_regions[i].pages <= g_cover_hi
          BY <1>1, <3>1, <4>1 DEF TableInv
        <5>2. g_regions[i].base \in Nat /\ g_regions[i].pages \in Nat
          BY <1>1, <3>1, FieldTypes
        <5>3. g_cover_lo \in Nat /\ g_cover_hi \in Nat
          BY <1>1 DEF TypeOK
        <5>. QED
          BY <1>g, <5>1, <5>2, <5>3 DEF CoverGrows
      <4>2. r.flags = "USABLE" =>
              g_cover_lo' <= r.base /\ r.base + r.pages <= g_cover_hi'
        BY <2>2 DEF FromMap
      <4>. QED
        BY <3>1, <4>1, <4>2
    <3>. QED
      BY <1>1, <3>2, <1>g, <3>4, <3>5 DEF TableInv, CoverGrows
  <2>. QED
    BY <1>g, <2>1, <2>2 DEF TableGrows
<1>4. StageInv' /\ ClearInv'
  BY <1>1 DEF StageInv, ClearInv
<1>5. CountInv'
  BY <1>1 DEF CountInv, ClearBits, AllBits
<1>6. OwnedInv'
  BY <1>1 DEF OwnedInv, StageInv
<1>7. NullOnlyWithoutRun'
  BY <1>1 DEF PmmInv, NullOnlyWithoutRun, Runs, AllBits
<1>. QED
  BY <1>2, <1>3, <1>4, <1>5, <1>6, <1>7 DEF PmmInv

\* The region table stays right while nothing writes it.
LEMMA TableKept ==
    ASSUME TableInv, UNCHANGED <<boot, g_regions, g_total_pages, g_cover_lo, g_cover_hi>>,
           pc' # "pass1"
    PROVE  TableInv'
  BY DEF TableInv

\* The panics between passes 1 and 2 keep the invariant.
LEMMA PanicStep ==
    ASSUME PmmInv, Panic
    PROVE  PmmInv'
<1>1. /\ pc = "pass1" /\ pc' = "panic"
      /\ UNCHANGED <<boot, idx, g_regions, g_total_pages, g_cover_lo, g_cover_hi,
                     g_bitmap_pages, g_free_pages, g_bitmap, owned, released, ret>>
  BY DEF Panic, table, clients
<1>2. TypeOK'
  BY <1>1 DEF PmmInv, TypeOK, AllBits
<1>3. TableInv'
  BY <1>1, TableKept DEF PmmInv
<1>4. StageInv' /\ OwnedInv' /\ NullOnlyWithoutRun'
  BY <1>1 DEF PmmInv, StageInv, OwnedInv, NullOnlyWithoutRun
<1>5. CountInv' /\ ClearInv'
  BY <1>1 DEF PmmInv, CountInv, ClearBits, AllBits, ClearInv
<1>. QED
  BY <1>2, <1>3, <1>4, <1>5 DEF PmmInv

----------------------------------------------------------------------------
\* Initialisation: the stages that fill the bitmap.

\* Pass 2 creates a bitmap in which every page is used.
LEMMA Pass2Step ==
    ASSUME PmmInv, Pass2
    PROVE  PmmInv'
<1>1. /\ pc = "pass1" /\ pc' = "pass3" /\ idx' = 1
      /\ UNCHANGED <<boot, g_regions, g_total_pages, g_cover_lo, g_cover_hi,
                     g_free_pages, owned, released, ret>>
      /\ g_total_pages # 0
      /\ g_bitmap_pages' = g_cover_hi - g_cover_lo
      /\ g_bitmap' = AllBits'
  BY DEF Pass2, clients, NoRam, AllBits
<1>2. /\ g_cover_lo \in Nat /\ g_cover_hi \in Nat /\ g_cover_lo <= g_cover_hi
  BY <1>1 DEF PmmInv, TableInv, TypeOK
<1>3. TypeOK'
  <2>1. g_bitmap_pages' \in Nat /\ g_bitmap' \subseteq AllBits'
    BY <1>1, <1>2
  <2>. QED
    BY <1>1, <2>1 DEF PmmInv, TypeOK
<1>4. TableInv'
  BY <1>1, TableKept DEF PmmInv
<1>5. StageInv' /\ OwnedInv' /\ NullOnlyWithoutRun'
  BY <1>1 DEF PmmInv, StageInv, OwnedInv, NullOnlyWithoutRun
<1>6. CountInv'
  <2>1. ClearBits' = {}
    BY <1>1 DEF ClearBits
  <2>. QED
    BY <1>1, <2>1, FS_EmptySet DEF PmmInv, CountInv, StageInv
<1>7. ClearInv'
  <2>1. \A page : ~InUsable(page, 1)'
    BY <1>1 DEF InUsable, PmmInv, TypeOK
  <2>. QED
    BY <1>1, <2>1 DEF ClearInv
<1>. QED
  BY <1>3, <1>4, <1>5, <1>6, <1>7 DEF PmmInv

\* From pass 2 on the bitmap covers g_cover_lo .. g_cover_hi.
LEMMA BitmapExists ==
    ASSUME PmmInv, pc \notin {"pass1", "panic"}
    PROVE  Mapped
  BY DEF PmmInv, StageInv, TableInv, Mapped

\* The counter and the bits after MarkUsed and MarkFree.
LEMMA MarkUsedEffect ==
    ASSUME TypeOK, CountInv, NEW S \in SUBSET AllBits, MarkUsed(S),
           g_bitmap_pages' = g_bitmap_pages
    PROVE  /\ CountInv' /\ g_bitmap' \subseteq AllBits' /\ g_free_pages' \in Int
           /\ \A bit \in AllBits : bit \notin g_bitmap' <=> bit \notin g_bitmap /\ bit \notin S
<1>1. /\ g_bitmap_pages \in Nat /\ AllBits' = AllBits
      /\ g_bitmap \in SUBSET AllBits /\ g_free_pages \in Int
  BY DEF TypeOK, AllBits
<1>2. Cardinality(S \ g_bitmap) \in Nat
  BY <1>1, BitsFinite, (S \ g_bitmap) \in SUBSET AllBits DEF AllBits
<1>3. Cardinality(AllBits \ (g_bitmap \cup S))
        = Cardinality(AllBits \ g_bitmap) - Cardinality(S \ g_bitmap)
  BY <1>1, SetBitsCount DEF AllBits
<1>. QED
  BY <1>1, <1>2, <1>3 DEF MarkUsed, CountInv, ClearBits

\* The same for MarkFree.
LEMMA MarkFreeEffect ==
    ASSUME TypeOK, CountInv, NEW S \in SUBSET AllBits, MarkFree(S),
           g_bitmap_pages' = g_bitmap_pages
    PROVE  /\ CountInv' /\ g_bitmap' \subseteq AllBits' /\ g_free_pages' \in Int
           /\ \A bit \in AllBits : bit \notin g_bitmap' <=> bit \notin g_bitmap \/ bit \in S
<1>1. /\ g_bitmap_pages \in Nat /\ AllBits' = AllBits
      /\ g_bitmap \in SUBSET AllBits /\ g_free_pages \in Int
  BY DEF TypeOK, AllBits
<1>2. Cardinality(S \cap g_bitmap) \in Nat
  BY <1>1, BitsFinite, (S \cap g_bitmap) \in SUBSET AllBits DEF AllBits
<1>3. Cardinality(AllBits \ (g_bitmap \ S))
        = Cardinality(AllBits \ g_bitmap) + Cardinality(S \cap g_bitmap)
  BY <1>1, ClearBitsCount DEF AllBits
<1>. QED
  BY <1>1, <1>2, <1>3 DEF MarkFree, CountInv, ClearBits

\* What is left to show for a step of the initialisation: the counter and
\* the bits.
Booting == {"pass3", "pass5", "pass6", "framebuffer"}
BootStep ==
    /\ pc \in Booting /\ pc' \in Booting \cup {"ready"} /\ idx' \in Nat \ {0}
    /\ UNCHANGED <<boot, g_regions, g_total_pages, g_cover_lo, g_cover_hi,
                   g_bitmap_pages, owned, released, ret>>

\* A step of initialisation that leaves the table alone keeps the invariant if it
\* keeps the two conjuncts about the bitmap.
LEMMA BootStepInv ==
    ASSUME PmmInv, BootStep, CountInv', ClearInv', g_bitmap' \subseteq AllBits',
           g_free_pages' \in Int
    PROVE  PmmInv'
<1>1. TypeOK'
  BY DEF PmmInv, TypeOK, BootStep, Booting
<1>2. TableInv'
  BY TableKept DEF PmmInv, BootStep, Booting
<1>3. StageInv' /\ OwnedInv' /\ NullOnlyWithoutRun'
  BY DEF PmmInv, StageInv, OwnedInv, NullOnlyWithoutRun, BootStep, Booting
<1>. QED
  BY <1>1, <1>2, <1>3 DEF PmmInv

\* Pass 3 counts every bit it visits; they were all set, because the regions
\* visited before are disjoint from this one.
LEMMA Pass3Step ==
    ASSUME PmmInv, Pass3
    PROVE  PmmInv'
<1>. DEFINE r == g_regions[idx]
            bits == BitRange(WrapSub(r.base, g_cover_lo), r.pages)
<1>1. /\ BootStep /\ pc = "pass3" /\ pc' = "pass3" /\ idx' = idx + 1
      /\ idx \in DOMAIN g_regions /\ idx \in Nat /\ DOMAIN g_regions \subseteq Nat
      /\ Pass3Region(r) /\ g_bitmap_pages' = g_bitmap_pages
      /\ TypeOK /\ CountInv
  BY DEF Pass3, BootStep, Booting, table, clients, PmmInv, TypeOK
<1>2. Mapped
  BY <1>1, BitmapExists
<1>3. /\ AllBits' = AllBits
      /\ \A bit \in AllBits : bit_to_phys(bit)' = bit_to_phys(bit)
      /\ \A page : InUsable(page, idx)' <=>
            \/ InUsable(page, idx)
            \/ r.flags = "USABLE" /\ InRegion(page, r)
  BY <1>1 DEF AllBits, BootStep, bit_to_phys, InUsable
<1>4. \A bit \in AllBits : bit \notin g_bitmap <=> InUsable(bit_to_phys(bit), idx)
  BY <1>1 DEF PmmInv, ClearInv
<1>5. CASE r.flags # "USABLE"
  <2>1. g_bitmap' = g_bitmap /\ g_free_pages' = g_free_pages
    BY <1>1, <1>5 DEF Pass3Region
  <2>2. CountInv' /\ g_bitmap' \subseteq AllBits' /\ g_free_pages' \in Int
    BY <1>1, <1>3, <2>1 DEF CountInv, ClearBits, TypeOK
  <2>3. ClearInv'
    BY <1>1, <1>3, <1>4, <1>5, <2>1 DEF ClearInv
  <2>. QED
    BY <1>1, <2>2, <2>3, BootStepInv
<1>6. CASE r.flags = "USABLE"
  <2>1. /\ bits \in SUBSET AllBits
        /\ \A bit \in AllBits : bit \in bits <=> InRegion(bit_to_phys(bit), r)
    BY <1>1, <1>2, <1>6, UsableBits
  <2>2. bits \subseteq g_bitmap
    <3>1. \A page : InRegion(page, r) => ~InUsable(page, idx)
      BY <1>1, <1>2, OneRegion DEF Mapped, InUsable
    <3>. QED
      BY <1>4, <2>1, <3>1
  <2>3. MarkFree(bits)
    <3>1. bits \cap g_bitmap = bits
      BY <2>2
    <3>. QED
      BY <1>1, <1>6, <3>1 DEF Pass3Region, MarkFree
  <2>. HIDE DEF bits
  <2>4. /\ CountInv' /\ g_bitmap' \subseteq AllBits' /\ g_free_pages' \in Int
        /\ \A bit \in AllBits : bit \notin g_bitmap' <=> bit \notin g_bitmap \/ bit \in bits
    BY <1>1, <2>1, <2>3, MarkFreeEffect
  <2>5. ClearInv'
    BY <1>1, <1>3, <1>4, <1>6, <2>1, <2>4 DEF ClearInv
  <2>. QED
    BY <1>1, <2>4, <2>5, BootStepInv
<1>. QED
  BY <1>5, <1>6

\* The four reservations of a protected range differ only in what was clear
\* before: Was implies usable.
LEMMA ReserveEffect ==
    ASSUME PmmInv, BootStep, NEW r \in Protected(boot),
           MarkUsed(RangeBits(r.base, r.pages))
    PROVE  /\ CountInv' /\ g_bitmap' \subseteq AllBits' /\ g_free_pages' \in Int
           /\ AllBits' = AllBits
           /\ \A bit \in AllBits : InUsable(bit_to_phys(bit), All) =>
                (bit \notin g_bitmap' <=>
                   bit \notin g_bitmap /\ ~InRegion(bit_to_phys(bit), r))
           /\ \A bit \in AllBits : bit \notin g_bitmap' => bit \notin g_bitmap
           /\ \A bit \in AllBits : bit_to_phys(bit)' = bit_to_phys(bit)
           /\ boot' = boot /\ g_regions' = g_regions /\ All' = All
           /\ released' = released /\ owned' = owned
<1>1. Mapped
  BY BitmapExists DEF BootStep, Booting
<1>2. r.base \in Nat /\ r.pages \in Nat
  BY FieldTypes DEF PmmInv
<1>3. RangeBits(r.base, r.pages) \in SUBSET AllBits
  BY <1>1, <1>2, RangeBitsAreBits
<1>4. /\ CountInv' /\ g_bitmap' \subseteq AllBits' /\ g_free_pages' \in Int
      /\ \A bit \in AllBits : bit \notin g_bitmap'
            <=> bit \notin g_bitmap /\ bit \notin RangeBits(r.base, r.pages)
  BY <1>3, MarkUsedEffect DEF PmmInv, BootStep
<1>5. \A bit \in AllBits : InUsable(bit_to_phys(bit), All) =>
         (bit \in RangeBits(r.base, r.pages) <=> InRegion(bit_to_phys(bit), r))
  BY <1>1, ProtectedBits
<1>6. /\ AllBits' = AllBits /\ All' = All
      /\ \A bit \in AllBits : bit_to_phys(bit)' = bit_to_phys(bit)
      /\ boot' = boot /\ g_regions' = g_regions
      /\ released' = released /\ owned' = owned
  BY DEF BootStep, AllBits, All, bit_to_phys
<1>. QED
  BY <1>4, <1>5, <1>6

\* Pass 4 takes the pages of the image out of circulation.
LEMMA Pass4Step ==
    ASSUME PmmInv, Pass4
    PROVE  PmmInv'
<1>1. /\ BootStep /\ pc = "pass3" /\ pc' = "pass5"
      /\ MarkUsed(RangeBits(boot.kernel.base, boot.kernel.pages))
  BY DEF Pass4, BootStep, Booting, table, clients, PmmInv, TypeOK
<1>2. boot.kernel \in Protected(boot)
  BY DEF Protected
<1>3. \A page : InUsable(page, idx) <=> InUsable(page, All)
  BY DEF Pass4, InUsable, All, PmmInv, TypeOK
<1>4. \A page : AfterPass4(page)' <=> AfterPass4(page)
  BY <1>1, <1>2, ReserveEffect DEF AfterPass4, InUsable
<1>5. ClearInv'
  BY <1>1, <1>2, <1>3, <1>4, ReserveEffect DEF PmmInv, ClearInv, AfterPass4
<1>. QED
  BY <1>1, <1>2, <1>5, ReserveEffect, BootStepInv

\* Pass 5 takes the pages of the stack out of circulation.
LEMMA Pass5Step ==
    ASSUME PmmInv, Pass5
    PROVE  PmmInv'
<1>1. /\ BootStep /\ pc = "pass5" /\ pc' = "pass6" /\ idx' = 1
      /\ MarkUsed(RangeBits(boot.stack.base, boot.stack.pages))
  BY DEF Pass5, BootStep, Booting, table, clients, PmmInv, TypeOK
<1>2. boot.stack \in Protected(boot)
  BY DEF Protected
<1>3. \A page : ~InBootServices(page, 1)'
  BY <1>1, <1>2, ReserveEffect DEF InBootServices, PmmInv, TypeOK
<1>4. \A page : AfterPass5(page)' <=> AfterPass4(page) /\ ~InRegion(page, boot.stack)
  BY <1>1, <1>2, ReserveEffect DEF AfterPass5, AfterPass4, InUsable
<1>5. ClearInv'
  BY <1>1, <1>2, <1>3, <1>4, ReserveEffect DEF PmmInv, ClearInv, AfterPass4, AfterPass6
<1>. QED
  BY <1>1, <1>2, <1>5, ReserveEffect, BootStepInv

\* An iteration of pass 6 takes the pages of a boot services region out of
\* circulation.
LEMMA Pass6Step ==
    ASSUME PmmInv, Pass6
    PROVE  PmmInv'
<1>. DEFINE r == g_regions[idx]
            bits == BitRange(WrapSub(r.base, g_cover_lo), r.pages)
<1>1. /\ BootStep /\ pc = "pass6" /\ pc' = "pass6" /\ idx' = idx + 1
      /\ idx \in DOMAIN g_regions /\ idx \in Nat /\ DOMAIN g_regions \subseteq Nat
      /\ Pass6Region(r) /\ g_bitmap_pages' = g_bitmap_pages
      /\ TypeOK /\ CountInv
  BY DEF Pass6, BootStep, Booting, table, clients, PmmInv, TypeOK
<1>2. Mapped
  BY <1>1, BitmapExists
<1>3. /\ AllBits' = AllBits
      /\ \A bit \in AllBits : bit_to_phys(bit)' = bit_to_phys(bit)
      /\ \A page : InBootServices(page, idx)' <=>
            \/ InBootServices(page, idx)
            \/ r.type = "boot_services" /\ InRegion(page, r)
      /\ \A page : AfterPass5(page)' <=> AfterPass5(page)
  BY <1>1 DEF AllBits, BootStep, bit_to_phys, InBootServices, AfterPass5,
              AfterPass4, InUsable, All
<1>4. \A bit \in AllBits : bit \notin g_bitmap <=> AfterPass6(bit_to_phys(bit), idx)
  BY <1>1 DEF PmmInv, ClearInv
<1>5. CASE r.type # "boot_services"
  <2>1. g_bitmap' = g_bitmap /\ g_free_pages' = g_free_pages
    BY <1>1, <1>5 DEF Pass6Region
  <2>2. CountInv' /\ g_bitmap' \subseteq AllBits' /\ g_free_pages' \in Int
    BY <1>1, <1>3, <2>1 DEF CountInv, ClearBits, TypeOK
  <2>3. ClearInv'
    BY <1>1, <1>3, <1>4, <1>5, <2>1 DEF ClearInv, AfterPass6
  <2>. QED
    BY <1>1, <2>2, <2>3, BootStepInv
<1>6. CASE r.type = "boot_services"
  <2>1. /\ bits \in SUBSET AllBits
        /\ \A bit \in AllBits : InUsable(bit_to_phys(bit), All) =>
               (bit \in bits <=> InRegion(bit_to_phys(bit), r))
    BY <1>1, <1>2, <1>6, BootServicesBits
  <2>2. MarkUsed(bits)
    BY <1>1, <1>6 DEF Pass6Region
  <2>. HIDE DEF bits
  <2>3. /\ CountInv' /\ g_bitmap' \subseteq AllBits' /\ g_free_pages' \in Int
        /\ \A bit \in AllBits : bit \notin g_bitmap' <=> bit \notin g_bitmap /\ bit \notin bits
    BY <1>1, <2>1, <2>2, MarkUsedEffect
  <2>4. ClearInv'
    BY <1>1, <1>3, <1>4, <1>6, <2>1, <2>3 DEF ClearInv, AfterPass6, AfterPass5, AfterPass4
  <2>. QED
    BY <1>1, <2>3, <2>4, BootStepInv
<1>. QED
  BY <1>5, <1>6

\* kernel_main's first reservation takes the pages of the memory map out of
\* circulation.
LEMMA ReserveMemoryMapStep ==
    ASSUME PmmInv, ReserveMemoryMap
    PROVE  PmmInv'
<1>1. /\ BootStep /\ pc = "pass6" /\ pc' = "framebuffer"
      /\ MarkUsed(RangeBits(boot.memory_map.base, boot.memory_map.pages))
  BY DEF ReserveMemoryMap, BootStep, Booting, table, clients, PmmInv, TypeOK
<1>2. boot.memory_map \in Protected(boot)
  BY DEF Protected
<1>3. \A page : InBootServices(page, idx) <=> InBootServices(page, All)
  BY DEF ReserveMemoryMap, InBootServices, All, PmmInv, TypeOK
<1>4. \A page : AfterMap(page)' <=> AfterMap(page)
  BY <1>1, <1>2, ReserveEffect
     DEF AfterMap, AfterPass6, AfterPass5, AfterPass4, InUsable, InBootServices
<1>5. ClearInv'
  BY <1>1, <1>2, <1>3, <1>4, ReserveEffect
     DEF PmmInv, ClearInv, AfterMap, AfterPass6, AfterPass5, AfterPass4
<1>. QED
  BY <1>1, <1>2, <1>5, ReserveEffect, BootStepInv

\* At the end of the initialisation what is clear is what may be handed out.
LEMMA ReserveFramebufferStep ==
    ASSUME PmmInv, ReserveFramebuffer
    PROVE  PmmInv'
<1>1. /\ BootStep /\ pc = "framebuffer" /\ pc' = "ready"
      /\ MarkUsed(RangeBits(boot.framebuffer.base, boot.framebuffer.pages))
      /\ owned = {} /\ released = {} /\ DOMAIN g_regions = 1 .. Len(g_regions)
      /\ Len(g_regions) \in Nat
  BY DEF ReserveFramebuffer, BootStep, Booting, table, clients, PmmInv, TypeOK, StageInv
<1>2. boot.framebuffer \in Protected(boot)
  BY DEF Protected
<1>3. \A page : Available(page)' <=> Available(page)
  BY <1>1, <1>2, ReserveEffect DEF Available, Allocatable, OwnersOf
<1>4. ASSUME NEW page
      PROVE  Available(page) <=> AfterMap(page) /\ ~InRegion(page, boot.framebuffer)
  <2>1. InUsable(page, All) /\ ~InBootServices(page, All) <=>
          \E i \in DOMAIN g_regions : /\ InRegion(page, g_regions[i])
                                      /\ g_regions[i].flags = "USABLE"
                                      /\ g_regions[i].type # "boot_services"
    BY <1>1, OneRegion DEF InUsable, InBootServices, All, PmmInv
  <2>. QED
    BY <1>1, <2>1 DEF Available, Allocatable, OwnersOf, Protected, AfterMap,
                      AfterPass6, AfterPass5, AfterPass4
<1>5. ClearInv'
  BY <1>1, <1>2, <1>3, <1>4, ReserveEffect
     DEF PmmInv, ClearInv, AfterMap, AfterPass6, AfterPass5, AfterPass4
<1>. QED
  BY <1>1, <1>2, <1>5, ReserveEffect, BootStepInv

----------------------------------------------------------------------------
\* The running manager.

RunStep ==
    /\ pc = "ready" /\ pc' = "ready" /\ idx' = idx
    /\ UNCHANGED <<boot, g_regions, g_total_pages, g_cover_lo, g_cover_hi, g_bitmap_pages>>

\* A step of the running manager leaves the table alone; it keeps the invariant
\* if it keeps the conjuncts about the bitmap and the clients.
LEMMA RunStepInv ==
    ASSUME PmmInv, RunStep, CountInv', ClearInv', OwnedInv', NullOnlyWithoutRun',
           g_bitmap' \subseteq AllBits', g_free_pages' \in Int,
           owned' \subseteq PageRange, released' \subseteq DOMAIN g_regions,
           ret' \in [count : Nat, phys : Nat]
    PROVE  PmmInv'
<1>1. TypeOK'
  BY DEF PmmInv, TypeOK, RunStep
<1>2. TableInv'
  BY TableKept DEF PmmInv, RunStep
<1>3. StageInv'
  BY DEF PmmInv, StageInv, RunStep
<1>. QED
  BY <1>1, <1>2, <1>3 DEF PmmInv

\* A run of count clear bits, the first one when there is one.
LEMMA FirstRun ==
    ASSUME TypeOK, NEW count \in Nat, Runs(count) # {}
    PROVE  /\ First(Runs(count)) \in AllBits
           /\ First(Runs(count)) + count <= g_bitmap_pages
           /\ First(Runs(count)) .. (First(Runs(count)) + count - 1) \cap g_bitmap = {}
<1>1. Runs(count) \in SUBSET Nat
  BY DEF Runs, AllBits, TypeOK
<1>2. \E s \in Runs(count) : \A t \in Runs(count) : s <= t
  BY <1>1, LeastNat
<1>3. First(Runs(count)) \in Runs(count)
  BY <1>2 DEF First
<1>. QED
  BY <1>3 DEF Runs

\* A run of count clear bits needs count clear bits.
LEMMA RunNeedsBits ==
    ASSUME TypeOK, CountInv, NEW count \in Nat, count > 0, Runs(count) # {}
    PROVE  count <= g_free_pages
<1>1. PICK start \in Runs(count) : TRUE
  OBVIOUS
<1>. DEFINE run == start .. (start + count - 1)
<1>2. start \in Nat /\ run \in SUBSET ClearBits /\ g_bitmap_pages \in Nat
  BY DEF Runs, AllBits, ClearBits, TypeOK
<1>3. IsFiniteSet(ClearBits)
  BY <1>2, BitsFinite, ClearBits \in SUBSET (0 .. (g_bitmap_pages - 1))
     DEF ClearBits, AllBits
<1>4. Cardinality(run) = count
  BY <1>2, FS_Interval
<1>. QED
  BY <1>2, <1>3, <1>4, FS_Subset DEF CountInv

\* Handing out a run of clear bits.
LEMMA HandOutStep ==
    ASSUME PmmInv, RunStep, NEW start \in AllBits, NEW count \in Nat, count > 0,
           start + count <= g_bitmap_pages,
           start .. (start + count - 1) \cap g_bitmap = {},
           HandOut(start, count), released' = released
    PROVE  PmmInv'
<1>. DEFINE S == start .. (start + count - 1)
            a == [base |-> bit_to_phys(start), pages |-> count]
<1>1. Mapped /\ TypeOK /\ CountInv /\ OwnedInv
  BY BitmapExists DEF RunStep, PmmInv
<1>2. /\ start \in Nat /\ g_cover_lo \in Nat /\ g_cover_hi \in Nat
      /\ g_cover_lo > 0 /\ g_bitmap_pages = g_cover_hi - g_cover_lo
      /\ g_bitmap_pages' = g_bitmap_pages
      /\ S \in SUBSET AllBits /\ S \cap g_bitmap = {}
  BY <1>1, SizesAssumption DEF Mapped, TypeOK, AllBits, RunStep
<1>3. MarkUsed(S)
  <2>1. S \ g_bitmap = S /\ Cardinality(S) = count
    BY <1>2, FS_Interval
  <2>. QED
    BY <2>1 DEF HandOut, MarkUsed
<1>4. /\ CountInv' /\ g_bitmap' \subseteq AllBits' /\ g_free_pages' \in Int
      /\ \A bit \in AllBits : bit \notin g_bitmap' <=> bit \notin g_bitmap /\ bit \notin S
  BY <1>1, <1>2, <1>3, MarkUsedEffect
<1>5. /\ a \in PageRange /\ a.base = g_cover_lo + start /\ a.pages = count
      /\ owned' = owned \cup {a} /\ ret' = [count |-> count, phys |-> a.base]
      /\ a.base \in Nat /\ a.base > 0
  BY <1>2 DEF PageRange, HandOut, bit_to_phys
<1>. HIDE DEF a
<1>6. \A bit \in AllBits : bit \in S <=> InRegion(bit_to_phys(bit), a)
  BY <1>2, <1>5 DEF InRegion, PagesOf, bit_to_phys, AllBits
<1>7. \A page \in PagesOf(a.base, a.pages) :
         page - g_cover_lo \in S /\ bit_to_phys(page - g_cover_lo) = page
  BY <1>2, <1>5 DEF PagesOf, bit_to_phys
<1>. HIDE DEF S
<1>8. \A page \in PagesOf(a.base, a.pages) : Available(page)
  BY <1>2, <1>7 DEF PmmInv, ClearInv, RunStep
<1>9. /\ \A page : Allocatable(page)' <=> Allocatable(page)
      /\ AllBits' = AllBits
      /\ \A bit \in AllBits : bit_to_phys(bit)' = bit_to_phys(bit)
  BY DEF Allocatable, RunStep, AllBits, bit_to_phys
<1>10. \A page : OwnersOf(page)' = {} <=> OwnersOf(page) = {} /\ ~InRegion(page, a)
  BY <1>5 DEF OwnersOf
<1>11. ClearInv'
  <2>1. \A bit \in AllBits : bit \notin g_bitmap <=> Available(bit_to_phys(bit))
    BY DEF PmmInv, ClearInv, RunStep
  <2>. QED
    BY <1>4, <1>6, <1>9, <1>10, <2>1 DEF ClearInv, RunStep, Available
<1>12. OwnedInv'
  <2>1. /\ a.pages > 0 /\ g_cover_lo <= a.base /\ a.base + a.pages <= g_cover_hi
    BY <1>2, <1>5
  <2>2. \A b \in owned : Disjoint(a, b) /\ Disjoint(b, a)
    BY <1>8 DEF Available, OwnersOf, InRegion, Disjoint
  <2>. QED
    BY <1>1, <1>5, <1>8, <1>9, <2>1, <2>2 DEF OwnedInv, RunStep, Available
<1>13. NullOnlyWithoutRun'
  BY <1>5 DEF NullOnlyWithoutRun, NULL
<1>. QED
  BY <1>4, <1>5, <1>11, <1>12, <1>13, RunStepInv DEF PmmInv, TypeOK

\* A request that fails changes nothing but ret.
LEMMA ReturnNullStep ==
    ASSUME PmmInv, RunStep, NEW count \in Nat, ReturnNull(count),
           count > 0 => Runs(count) = {}, released' = released
    PROVE  PmmInv'
<1>1. UNCHANGED <<g_bitmap, g_free_pages, owned>> /\ ret' = [count |-> count, phys |-> NULL]
  BY DEF ReturnNull
<1>2. CountInv'
  BY <1>1 DEF PmmInv, CountInv, ClearBits, AllBits, RunStep
<1>3. ClearInv'
  BY <1>1 DEF PmmInv, ClearInv, AllBits, RunStep, Available, Allocatable,
              OwnersOf, bit_to_phys
<1>4. OwnedInv'
  BY <1>1 DEF PmmInv, OwnedInv, RunStep, Allocatable
<1>5. NullOnlyWithoutRun'
  BY <1>1 DEF NullOnlyWithoutRun, Runs, RunStep, AllBits
<1>6. /\ g_bitmap' \subseteq AllBits' /\ g_free_pages' \in Int
      /\ owned' \subseteq PageRange /\ released' \subseteq DOMAIN g_regions
      /\ ret' \in [count : Nat, phys : Nat]
  BY <1>1 DEF PmmInv, TypeOK, AllBits, RunStep, NULL
<1>. QED
  BY <1>2, <1>3, <1>4, <1>5, <1>6, RunStepInv

\* pmm_alloc_page keeps the invariant.
LEMMA AllocPageStep ==
    ASSUME PmmInv, pmm_alloc_page
    PROVE  PmmInv'
<1>1. RunStep /\ released' = released /\ TypeOK /\ CountInv
  BY DEF pmm_alloc_page, RunStep, table, PmmInv
<1>2. CASE g_free_pages = 0 \/ Runs(1) = {}
  BY <1>1, <1>2, RunNeedsBits, ReturnNullStep DEF pmm_alloc_page
<1>3. CASE ~(g_free_pages = 0 \/ Runs(1) = {})
  BY <1>1, <1>3, FirstRun, HandOutStep DEF pmm_alloc_page
<1>. QED
  BY <1>2, <1>3

\* pmm_alloc_pages keeps the invariant.
LEMMA AllocPagesStep ==
    ASSUME PmmInv, NEW count \in Counts, pmm_alloc_pages(count)
    PROVE  PmmInv'
<1>1. /\ RunStep /\ released' = released /\ TypeOK /\ CountInv /\ count \in Nat
      /\ g_free_pages \in Int
  BY SizesAssumption DEF pmm_alloc_pages, RunStep, table, PmmInv, TypeOK
<1>2. CASE count = 0 \/ count > g_free_pages \/ Runs(count) = {}
  <2>1. count > 0 => Runs(count) = {}
    BY <1>1, <1>2, RunNeedsBits
  <2>. QED
    BY <1>1, <1>2, <2>1, ReturnNullStep DEF pmm_alloc_pages
<1>3. CASE ~(count = 0 \/ count > g_free_pages \/ Runs(count) = {})
  BY <1>1, <1>3, FirstRun, HandOutStep DEF pmm_alloc_pages
<1>. QED
  BY <1>2, <1>3

\* Freeing an allocation its client holds.
LEMMA FreeOwnedStep ==
    ASSUME PmmInv, NEW phys \in Nat, NEW count \in Nat, pmm_free_pages(phys, count),
           [base |-> phys, pages |-> count] \in owned
    PROVE  PmmInv'
<1>. DEFINE a == [base |-> phys, pages |-> count]
            S == RangeBits(phys, count)
<1>1. /\ RunStep /\ released' = released /\ owned' = owned \ {a} /\ a \in owned
      /\ ret' = [count |-> 0, phys |-> NULL] /\ g_bitmap_pages' = g_bitmap_pages
  BY DEF pmm_free_pages, RunStep, table
<1>2. Mapped /\ TypeOK /\ CountInv /\ OwnedInv
  BY <1>1, BitmapExists DEF RunStep, PmmInv
<1>3. a.base = phys /\ a.pages = count
  OBVIOUS
<1>. HIDE DEF a
<1>4. count > 0 /\ g_cover_lo <= phys /\ phys + count <= g_cover_hi
  BY <1>1, <1>2, <1>3 DEF OwnedInv
<1>5. phys # NULL /\ InCover(phys)
  BY <1>2, <1>4, SizesAssumption DEF Mapped, TypeOK, InCover, NULL
<1>6. /\ S \in SUBSET AllBits
      /\ \A bit \in AllBits : bit \in S <=> InRegion(bit_to_phys(bit), a)
  BY <1>2, <1>3, <1>5, RangeBitsAreBits DEF InRegion
<1>7. MarkFree(S)
  BY <1>5 DEF pmm_free_pages
<1>. HIDE DEF S
<1>8. /\ CountInv' /\ g_bitmap' \subseteq AllBits' /\ g_free_pages' \in Int
      /\ \A bit \in AllBits : bit \notin g_bitmap' <=> bit \notin g_bitmap \/ bit \in S
  BY <1>1, <1>2, <1>6, <1>7, MarkFreeEffect
<1>9. /\ \A page : Allocatable(page)' <=> Allocatable(page)
      /\ AllBits' = AllBits
      /\ \A bit \in AllBits : bit_to_phys(bit)' = bit_to_phys(bit)
  BY <1>1 DEF Allocatable, RunStep, AllBits, bit_to_phys
<1>10. \A page : InRegion(page, a) => Allocatable(page) /\ OwnersOf(page)' = {}
  BY <1>1, <1>2 DEF OwnedInv, OwnersOf, InRegion, Disjoint
<1>11. \A page : ~InRegion(page, a) => OwnersOf(page)' = OwnersOf(page)
  BY <1>1 DEF OwnersOf
<1>12. ClearInv'
  <2>1. \A bit \in AllBits : bit \notin g_bitmap <=> Available(bit_to_phys(bit))
    BY <1>1 DEF PmmInv, ClearInv, RunStep
  <2>. QED
    BY <1>1, <1>6, <1>8, <1>9, <1>10, <1>11, <2>1 DEF ClearInv, RunStep, Available
<1>13. OwnedInv'
  BY <1>1, <1>2, <1>9 DEF OwnedInv, RunStep
<1>14. NullOnlyWithoutRun'
  BY <1>1 DEF NullOnlyWithoutRun
<1>. QED
  BY <1>1, <1>8, <1>12, <1>13, <1>14, RunStepInv DEF PmmInv, TypeOK, NULL

\* A free of NULL, and a repeated free, change nothing.
LEMMA FreeStep ==
    ASSUME PmmInv, NEW phys \in 0 .. g_cover_hi, NEW count \in Counts,
           pmm_free_pages(phys, count)
    PROVE  PmmInv'
<1>. DEFINE a == [base |-> phys, pages |-> count]
<1>1. phys \in Nat /\ count \in Nat
  BY SizesAssumption DEF PmmInv, TypeOK
<1>2. CASE a \in owned
  BY <1>1, <1>2, FreeOwnedStep
<1>3. CASE a \notin owned
  <2>1. /\ RunStep /\ released' = released /\ owned' = owned
        /\ ret' = [count |-> 0, phys |-> NULL]
    BY <1>3 DEF pmm_free_pages, RunStep, table
  <2>2. g_bitmap' = g_bitmap /\ g_free_pages' = g_free_pages
    <3>1. CASE phys = NULL
      BY <3>1 DEF pmm_free_pages
    <3>2. CASE phys # NULL
      <4>1. RangeBits(phys, count) \cap g_bitmap = {}
        BY <1>3, <3>2 DEF pmm_free_pages
      <4>2. MarkFree(RangeBits(phys, count))
        BY <3>2 DEF pmm_free_pages
      <4>3. /\ g_free_pages \in Int
            /\ g_free_pages' = g_free_pages + Cardinality(RangeBits(phys, count) \cap g_bitmap)
            /\ g_bitmap' = g_bitmap \ RangeBits(phys, count)
        BY <4>2 DEF MarkFree, PmmInv, TypeOK
      <4>4. g_free_pages' = g_free_pages
        BY <4>1, <4>3, FS_EmptySet
      <4>. QED
        BY <4>1, <4>3, <4>4
    <3>. QED
      BY <3>1, <3>2
  <2>3. ReturnNull(0)
    BY <2>1, <2>2 DEF ReturnNull
  <2>. QED
    BY <2>1, <2>3, ReturnNullStep
<1>. QED
  BY <1>2, <1>3

\* Giving back a boot services region.
LEMMA RegionSetFreeStep ==
    ASSUME PmmInv, NEW i \in DOMAIN g_regions, pmm_region_set_free(i)
    PROVE  PmmInv'
<1>. DEFINE r == g_regions[i]
            S == RangeBits(r.base, r.pages)
<1>1. /\ RunStep /\ released' = released \cup {i} /\ owned' = owned
      /\ i \notin released /\ r.type = "boot_services" /\ r.flags = "USABLE"
      /\ MarkFree(S)
      /\ ret' = [count |-> 0, phys |-> NULL] /\ g_bitmap_pages' = g_bitmap_pages
  BY DEF pmm_region_set_free, RunStep, table
<1>2. Mapped /\ TypeOK /\ CountInv /\ OwnedInv /\ TableInv
  BY <1>1, BitmapExists DEF RunStep, PmmInv
<1>3. r.base \in Nat /\ r.pages \in Nat
  BY <1>2, FieldTypes
<1>4. InCover(r.base) \/ r.pages = 0
  BY <1>1, <1>2, UsableBits
<1>5. /\ S \in SUBSET AllBits
      /\ \A bit \in AllBits : bit \in S <=> InRegion(bit_to_phys(bit), r)
  <2>1. CASE InCover(r.base)
    BY <1>2, <1>3, <2>1, RangeBitsAreBits DEF InRegion
  <2>2. CASE r.pages = 0
    <3>1. S = {}
      BY <1>2, <1>3, <2>2 DEF RangeBits, BitRange, phys_to_bit, Mapped, TypeOK
    <3>2. \A page : ~InRegion(page, r)
      BY <1>3, <2>2 DEF InRegion, PagesOf
    <3>. QED
      BY <3>1, <3>2
  <2>. QED
    BY <1>4, <2>1, <2>2
<1>. HIDE DEF S
<1>6. /\ CountInv' /\ g_bitmap' \subseteq AllBits' /\ g_free_pages' \in Int
      /\ \A bit \in AllBits : bit \notin g_bitmap' <=> bit \notin g_bitmap \/ bit \in S
  BY <1>1, <1>2, <1>5, MarkFreeEffect
<1>7. /\ AllBits' = AllBits
      /\ \A bit \in AllBits : bit_to_phys(bit)' = bit_to_phys(bit)
      /\ \A page : OwnersOf(page)' = OwnersOf(page)
  BY <1>1 DEF RunStep, AllBits, bit_to_phys, OwnersOf
<1>8. \A page : InRegion(page, r) =>
         ~Allocatable(page) /\ \A q \in Protected(boot) : ~InRegion(page, q)
  <2>1. SUFFICES ASSUME NEW page, InRegion(page, r)
                 PROVE  /\ ~Allocatable(page)
                        /\ \A q \in Protected(boot) : ~InRegion(page, q)
    OBVIOUS
  <2>2. ~Allocatable(page)
    BY <1>1, <1>2, <2>1, OneRegion DEF Allocatable
  <2>3. \A q \in Protected(boot) : ~InRegion(page, q)
    BY <1>1, <1>2, <2>1, ProtectedInside
  <2>. QED
    BY <2>2, <2>3
<1>9. \A page : Allocatable(page)' <=> Allocatable(page) \/ InRegion(page, r)
  BY <1>1, <1>8 DEF Allocatable, RunStep
<1>10. \A page : InRegion(page, r) => OwnersOf(page) = {}
  BY <1>2, <1>8 DEF OwnedInv, OwnersOf, InRegion
<1>11. ClearInv'
  <2>1. \A bit \in AllBits : bit \notin g_bitmap <=> Available(bit_to_phys(bit))
    BY <1>1 DEF PmmInv, ClearInv, RunStep
  <2>. QED
    BY <1>1, <1>5, <1>6, <1>7, <1>9, <1>10, <2>1 DEF ClearInv, RunStep, Available
<1>12. OwnedInv'
  BY <1>1, <1>2, <1>9 DEF OwnedInv, RunStep
<1>13. NullOnlyWithoutRun'
  BY <1>1 DEF NullOnlyWithoutRun
<1>. QED
  BY <1>1, <1>6, <1>11, <1>12, <1>13, RunStepInv DEF PmmInv, TypeOK, NULL

----------------------------------------------------------------------------
\* The theorems.

\* Nothing changes, nothing breaks.
LEMMA StutterStep ==
    ASSUME PmmInv, UNCHANGED vars
    PROVE  PmmInv'
<1>1. UNCHANGED <<boot, pc, idx, g_regions, g_total_pages, g_free_pages, g_cover_lo,
                  g_cover_hi, g_bitmap_pages, g_bitmap, owned, released, ret>>
  BY DEF vars
<1>2. TypeOK' /\ TableInv' /\ StageInv' /\ CountInv'
  BY <1>1 DEF PmmInv, TypeOK, AllBits, TableInv, StageInv, CountInv, ClearBits
<1>3. OwnedInv' /\ NullOnlyWithoutRun'
  BY <1>1 DEF PmmInv, OwnedInv, Allocatable, NullOnlyWithoutRun, Runs, AllBits
<1>4. ClearInv'
  <2>1. /\ AllBits' = AllBits
        /\ \A bit \in AllBits : bit_to_phys(bit)' = bit_to_phys(bit)
        /\ \A page : /\ InUsable(page, idx)' <=> InUsable(page, idx)
                     /\ AfterPass4(page)' <=> AfterPass4(page)
                     /\ AfterPass6(page, idx)' <=> AfterPass6(page, idx)
                     /\ AfterMap(page)' <=> AfterMap(page)
                     /\ Available(page)' <=> Available(page)
    BY <1>1 DEF AllBits, bit_to_phys, InUsable, InBootServices, All, AfterPass4,
                AfterPass5, AfterPass6, AfterMap, Available, Allocatable, OwnersOf
  <2>. QED
    BY <1>1, <2>1 DEF PmmInv, ClearInv
<1>. QED
  BY <1>2, <1>3, <1>4 DEF PmmInv

\* The invariant above holds in every reachable state: every step of pmm_init,
\* both reservations of kernel_main and every allocation and free keep it.
THEOREM PmmInvariant == Spec => []PmmInv
<1>1. Init => PmmInv
  BY InitInv
<1>2. PmmInv /\ [Next]_vars => PmmInv'
  <2>. SUFFICES ASSUME PmmInv, [Next]_vars PROVE PmmInv'
    OBVIOUS
  <2>1. CASE Pass1
    BY <2>1, Pass1Step
  <2>2. CASE Panic
    BY <2>2, PanicStep
  <2>3. CASE Pass2
    BY <2>3, Pass2Step
  <2>4. CASE Pass3
    BY <2>4, Pass3Step
  <2>5. CASE Pass4
    BY <2>5, Pass4Step
  <2>6. CASE Pass5
    BY <2>6, Pass5Step
  <2>7. CASE Pass6
    BY <2>7, Pass6Step
  <2>8. CASE ReserveMemoryMap
    BY <2>8, ReserveMemoryMapStep
  <2>9. CASE ReserveFramebuffer
    BY <2>9, ReserveFramebufferStep
  <2>10. CASE pmm_alloc_page
    BY <2>10, AllocPageStep
  <2>11. CASE \E count \in Counts : pmm_alloc_pages(count)
    BY <2>11, AllocPagesStep
  <2>12. CASE \E phys \in 0 .. g_cover_hi, count \in Counts : pmm_free_pages(phys, count)
    BY <2>12, FreeStep
  <2>13. CASE \E i \in DOMAIN g_regions : pmm_region_set_free(i)
    BY <2>13, RegionSetFreeStep
  <2>14. CASE UNCHANGED vars
    BY <2>14, StutterStep
  <2>. QED
    BY <2>1, <2>2, <2>3, <2>4, <2>5, <2>6, <2>7, <2>8, <2>9, <2>10, <2>11,
       <2>12, <2>13, <2>14 DEF Next
<1>. QED
  BY <1>1, <1>2, PTL DEF Spec

\* pmm.c never indexes outside its table or its bitmap, whatever the map.
THEOREM TypeCorrect == Spec => []TypeOK
<1>1. PmmInv => TypeOK
  BY DEF PmmInv
<1>. QED
  BY <1>1, PmmInvariant, PTL

\* g_free_pages is the number of clear bits, for every memory map, region
\* table size and sequence of requests.
THEOREM FreeCount == Spec => []FreeCountExact
<1>1. PmmInv => FreeCountExact
  BY DEF PmmInv, CountInv, FreeCountExact
<1>. QED
  BY <1>1, PmmInvariant, PTL

\* No page is handed to two clients, none that is protected or unusable is
\* handed out at all, and none is lost: the bitmap, the clients' holdings and
\* the region table always account for every page exactly once.
THEOREM Partition == Spec => []ManagedPartition
<1>1. PmmInv => ManagedPartition
  <2>. SUFFICES ASSUME PmmInv, pc = "ready", NEW bit \in AllBits,
                       NEW page, page = bit_to_phys(bit)
                PROVE  /\ bit \in g_bitmap /\ Allocatable(page) =>
                            \E a \in owned : OwnersOf(page) = {a}
                       /\ bit \notin g_bitmap => Allocatable(page) /\ OwnersOf(page) = {}
                       /\ ~Allocatable(page) => OwnersOf(page) = {}
    BY DEF ManagedPartition
  <2>1. bit \notin g_bitmap <=> Available(page)
    BY DEF PmmInv, ClearInv
  <2>2. \A a \in owned : InRegion(page, a) => Allocatable(page) /\ OwnersOf(page) = {a}
    BY DEF PmmInv, OwnedInv, OwnersOf, InRegion, Disjoint
  <2>3. OwnersOf(page) # {} =>
          Allocatable(page) /\ \E a \in owned : OwnersOf(page) = {a}
    BY <2>2 DEF OwnersOf
  <2>. QED
    BY <2>1, <2>3 DEF Available
<1>. QED
  BY <1>1, PmmInvariant, PTL

\* pmm_alloc_page and pmm_alloc_pages return NULL for a positive count only
\* when the bitmap has no run of that many clear bits.
THEOREM NoSpuriousNull == Spec => []NullOnlyWithoutRun
<1>1. PmmInv => NullOnlyWithoutRun
  BY DEF PmmInv
<1>. QED
  BY <1>1, PmmInvariant, PTL
=============================================================================
