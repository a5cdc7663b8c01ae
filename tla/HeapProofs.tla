----------------------------- MODULE HeapProofs -----------------------------
(***************************************************************************)
(* Theorems about Heap, for every size of the heap, every set of clients   *)
(* and every order of calls.  They are about behaviours in which every     *)
(* block heap_alloc handed out was used whole or split in two: when a      *)
(* remainder is too small for a block heap_alloc leaves a gap without a    *)
(* header, and the properties fail.                                        *)
(***************************************************************************)
EXTENDS Heap, FiniteSetTheorems, SequenceTheorems, TLAPS

\* x is a multiple of p.
OnGrid(p, x) == \E k \in Nat : x = p * k

\* The sizes heap_alloc is asked for.
Requests == Sizes \cup {n \in 0 .. (SizeSpace - 1) : \E a \in Arrays : n = a[1] * a[2]}

\* The request is not above the size it is rounded to, and the block
\* heap_alloc serves it from is used whole or has room for another block.
Clean(h, size) ==
    LET r == heap_alloc(h, size)
        remaining == h.mem[r.ptr - HEADER_SIZE].size - ALIGN_UP(size)
    IN  r.ptr # NULL => /\ size <= ALIGN_UP(size)
                        /\ remaining = 0 \/ remaining >= HEADER_SIZE + HEAP_ALIGNMENT

\* The behaviours in which every request so far was clean: after a call that
\* reaches heap_alloc, last holds the size it asked for.
CleanNext == Next /\ Clean(heap, last'.size)
CleanSpec == Init /\ [][CleanNext]_vars

\* The heap is a number of granules of G bytes, whole units each.
IsGranule(G) == G > 0 /\ OnGrid(HEAP_ALIGNMENT, G) /\ OnGrid(G, HeapBytes)

\* A clean request whose header and payload fill whole granules.
Sound(G, h, size) ==
    /\ Clean(h, size)
    /\ heap_alloc(h, size).ptr # NULL => OnGrid(G, ALIGN_UP(size) + HEADER_SIZE)

(***************************************************************************)
(* The inductive invariant: a set T of blocks tiles the heap.              *)
(***************************************************************************)

\* What a unit may hold.  Stale headers keep an aligned size.
Headers == [magic : {"data", "FREE", "USED"},
            size : {n \in Nat : OnGrid(HEAP_ALIGNMENT, n)}]
Heaps == [mem : [Units -> Headers], free_list : Seq(Units),
          total_blocks : Int, free_blocks : Int, outstanding : Int]

FreeIn(mem, T) == {b \in T : mem[b].magic = "FREE"}
UsedIn(mem, T) == {b \in T : mem[b].magic = "USED"}

\* Every block has room for a unit and ends where the next one begins or at the end of the heap, and
\* only blocks bear the magic of a used header: stale headers are FREE.
Tiles(G, mem, T) ==
    /\ T \subseteq Units /\ 0 \in T
    /\ \A b \in T : /\ OnGrid(G, b)
                    /\ mem[b].magic # "data" /\ mem[b].size >= HEAP_ALIGNMENT
                    /\ next_block(mem, b) \in T \cup {HeapBytes}
    /\ \A b, c \in T : b < c => next_block(mem, b) <= c
    /\ \A a \in Units : mem[a].magic = "USED" => a \in T

\* The sequence lists every member of S once.
Lists(list, S) ==
    /\ list \in Seq(S)
    /\ \A i, j \in DOMAIN list : list[i] = list[j] => i = j
    /\ \A s \in S : \E i \in DOMAIN list : list[i] = s

Exact(G, h, T) ==
    /\ h \in Heaps
    /\ Tiles(G, h.mem, T)
    /\ Lists(h.free_list, FreeIn(h.mem, T))
    /\ h.free_blocks = Len(h.free_list)
    /\ h.total_blocks = Cardinality(T)
    /\ h.outstanding = Cardinality(UsedIn(h.mem, T))

\* The clients' pointers and the used blocks U correspond one to one.
Held(sl, mem, U) ==
    /\ \A c \in Clients : sl[c].ptr # NULL =>
         /\ sl[c].ptr - HEADER_SIZE \in U
         /\ sl[c].size <= mem[sl[c].ptr - HEADER_SIZE].size
    /\ \A c, d \in Clients : sl[c].ptr # NULL /\ sl[c].ptr = sl[d].ptr => c = d
    /\ \A b \in U : \E c \in Clients : sl[c].ptr = b + HEADER_SIZE

NoFit(mem, T, l) ==
    l.failed /\ l.size # 0 => \A b \in FreeIn(mem, T) : mem[b].size < l.size

HeapAt(G, T) ==
    /\ Exact(G, heap, T)
    /\ Held(slot, heap.mem, UsedIn(heap.mem, T))
    /\ NoFit(heap.mem, T, last)

Slots == [Clients -> [ptr : Nat, size : Nat]]
Lasts == [size : Nat, failed : BOOLEAN]

HeapTypes ==
    /\ slot \in Slots
    /\ panicked \in BOOLEAN /\ misused \in BOOLEAN
    /\ last \in Lasts

HeapInv(G) ==
    /\ HeapTypes /\ (panicked <=> misused)
    /\ \E T \in SUBSET Units : HeapAt(G, T)
----------------------------------------------------------------------------
\* Multiples.

\* A number is a multiple of p when its remainder is 0.
LEMMA ModIsGrid ==
    ASSUME NEW p \in Nat, p > 0, NEW x \in Nat
    PROVE  x % p = 0 <=> OnGrid(p, x)
<1>1. x \div p \in Nat /\ x % p \in 0 .. (p - 1) /\ x = p * (x \div p) + (x % p)
  <2>1. x \div p \in Nat
    OBVIOUS
  <2>2. x % p \in 0 .. (p - 1)
    OBVIOUS
  <2>3. x = p * (x \div p) + (x % p)
    OBVIOUS
  <2>. QED
    BY <2>1, <2>2, <2>3
<1>2. ASSUME x % p = 0 PROVE OnGrid(p, x)
  BY <1>1, <1>2 DEF OnGrid
<1>3. ASSUME NEW k \in Nat, x = p * k PROVE x % p = 0
  <2>. DEFINE q == x \div p
              r == x % p
  <2>1. q \in Nat /\ r \in 0 .. (p - 1) /\ p * k = p * q + r
    BY <1>1, <1>3
  <2>. HIDE DEF q, r
  <2>2. p * (k - q) = r
    BY <2>1
  <2>3. ASSUME k - q >= 1 PROVE p * (k - q) >= p
    BY <2>1, <2>3
  <2>4. ASSUME k - q <= -1 PROVE p * (k - q) <= -p
    <3>. DEFINE d == q - k
    <3>1. d \in Int /\ d >= 1 /\ p * (k - q) = -(p * d)
      BY <2>1, <2>4
    <3>. HIDE DEF d
    <3>2. p * d >= p
      BY <3>1
    <3>. QED
      BY <3>1, <3>2
  <2>5. r = 0
    <3>1. CASE k = q
      BY <3>1, <2>2
    <3>2. CASE k > q
      BY <3>2, <2>1, <2>2, <2>3
    <3>3. CASE k < q
      BY <3>3, <2>1, <2>2, <2>4
    <3>. QED
      BY <2>1, <3>1, <3>2, <3>3
  <2>. QED
    BY <2>5 DEF r
<1>. QED
  BY <1>2, <1>3 DEF OnGrid

\* Sums and differences of multiples are multiples.
LEMMA GridSum ==
    ASSUME NEW p \in Nat, p > 0, NEW a, NEW b, OnGrid(p, a), OnGrid(p, b)
    PROVE  /\ a \in Nat /\ b \in Nat
           /\ OnGrid(p, a + b)
           /\ b <= a => OnGrid(p, a - b)
<1>1. PICK k \in Nat : a = p * k
  BY DEF OnGrid
<1>2. PICK m \in Nat : b = p * m
  BY DEF OnGrid
<1>3. a + b = p * (k + m) /\ a - b = p * (k - m)
  BY <1>1, <1>2
<1>4. a \in Nat /\ b \in Nat
  BY <1>1, <1>2
<1>5. ASSUME b <= a PROVE k - m \in Nat
  <2>1. ASSUME m > k PROVE FALSE
    <3>. DEFINE d == m - k
    <3>1. d \in Nat /\ d >= 1 /\ b = a + p * d
      BY <1>1, <1>2, <2>1
    <3>. HIDE DEF d
    <3>2. p * d >= p
      BY <3>1
    <3>. QED
      BY <3>1, <3>2, <1>4, <1>5
  <2>. QED
    BY <2>1
<1>6. OnGrid(p, a + b)
  <2>1. k + m \in Nat
    OBVIOUS
  <2>. QED
    BY ONLY <1>3, <2>1 DEF OnGrid
<1>7. ASSUME b <= a PROVE OnGrid(p, a - b)
  BY ONLY <1>3, <1>5, <1>7 DEF OnGrid
<1>. QED
  BY <1>4, <1>6, <1>7

\* A multiple that is not 0 is at least p.
LEMMA GridGap ==
    ASSUME NEW p \in Nat, p > 0, NEW a, OnGrid(p, a), a # 0
    PROVE  a >= p
<1>1. PICK k \in Nat : a = p * k
  BY DEF OnGrid
<1>2. k >= 1
  BY <1>1
<1>. QED
  BY <1>1, <1>2

\* A multiple of a multiple is a multiple.
LEMMA GridTransitive ==
    ASSUME NEW p \in Nat, NEW g \in Nat, NEW a, OnGrid(p, g), OnGrid(g, a)
    PROVE  OnGrid(p, a)
<1>1. PICK k \in Nat : a = g * k
  BY DEF OnGrid
<1>2. PICK m \in Nat : g = p * m
  BY DEF OnGrid
<1>3. a = p * (m * k) /\ m * k \in Nat
  BY <1>1, <1>2
<1>. QED
  BY <1>3 DEF OnGrid
----------------------------------------------------------------------------
\* The geometry of a tiled heap.

\* What the module's assumption says of the layout, as multiples.
LEMMA Layout ==
    /\ HEAP_ALIGNMENT \in Nat /\ HEAP_ALIGNMENT > 0
    /\ HEADER_SIZE = 2 * HEAP_ALIGNMENT /\ HEADER_SIZE \in Nat
    /\ OnGrid(HEAP_ALIGNMENT, HEAP_ALIGNMENT) /\ OnGrid(HEAP_ALIGNMENT, HEADER_SIZE)
    /\ HeapBytes \in Nat /\ OnGrid(HEAP_ALIGNMENT, HeapBytes) /\ HeapBytes > HEADER_SIZE
    /\ HeapBytes <= UInt32Max /\ UInt32Max \in Nat
    /\ \A a : a \in Units <=> a \in Nat /\ a < HeapBytes /\ OnGrid(HEAP_ALIGNMENT, a)
<1>1. /\ HEAP_ALIGNMENT \in Nat /\ HEAP_ALIGNMENT > 0
      /\ HEADER_SIZE = 2 * HEAP_ALIGNMENT /\ HEADER_SIZE \in Nat
      /\ HeapBytes \in Nat /\ HeapBytes > HEADER_SIZE
      /\ HeapBytes <= UInt32Max /\ UInt32Max \in Nat
  BY HeapAssumption
<1>2. HeapBytes % HEAP_ALIGNMENT = 0
  BY HeapAssumption
<1>3. HEAP_ALIGNMENT = HEAP_ALIGNMENT * 1 /\ HEADER_SIZE = HEAP_ALIGNMENT * 2
  BY <1>1
<1>4. OnGrid(HEAP_ALIGNMENT, HEAP_ALIGNMENT) /\ OnGrid(HEAP_ALIGNMENT, HEADER_SIZE)
  BY <1>3 DEF OnGrid
<1>5. OnGrid(HEAP_ALIGNMENT, HeapBytes)
  BY <1>1, <1>2, ModIsGrid
<1>6. \A a \in Nat : a % HEAP_ALIGNMENT = 0 <=> OnGrid(HEAP_ALIGNMENT, a)
  BY <1>1, ModIsGrid
<1>7. \A a : a \in Units <=> a \in Nat /\ a < HeapBytes /\ a % HEAP_ALIGNMENT = 0
  BY <1>1 DEF Units
<1>. QED
  BY <1>1, <1>4, <1>5, <1>6, <1>7

\* What is known of a granule.
LEMMA GranuleFacts ==
    ASSUME NEW G \in Nat, IsGranule(G)
    PROVE  /\ G > 0
           /\ OnGrid(HEAP_ALIGNMENT, G) /\ OnGrid(G, HeapBytes)
  BY DEF IsGranule

\* The header of a unit.
LEMMA HeaderFacts ==
    ASSUME NEW mem \in [Units -> Headers], NEW a \in Units
    PROVE  /\ mem[a].magic \in {"data", "FREE", "USED"}
           /\ mem[a].size \in Nat /\ OnGrid(HEAP_ALIGNMENT, mem[a].size)
<1>1. mem[a] \in Headers
  OBVIOUS
<1>. QED
  BY <1>1 DEF Headers

\* A block of a tiling has room for its header and one unit, all inside the
\* heap.
LEMMA BlockFacts ==
    ASSUME NEW G \in Nat, IsGranule(G), NEW mem \in [Units -> Headers],
           NEW T \in SUBSET Units, Tiles(G, mem, T), NEW b \in T
    PROVE  /\ b \in Units /\ b \in Nat /\ b < HeapBytes /\ OnGrid(G, b)
           /\ mem[b].size \in Nat
           /\ mem[b].magic \in {"FREE", "USED"}
           /\ next_block(mem, b) = b + HEADER_SIZE + mem[b].size
           /\ next_block(mem, b) <= HeapBytes
           /\ OnGrid(G, next_block(mem, b))
           /\ OnGrid(G, HEADER_SIZE + mem[b].size)
           /\ mem[b].size >= HEAP_ALIGNMENT
           /\ b + HEAP_ALIGNMENT \in Units /\ b + HEADER_SIZE \in Units
<1>1. b \in Units /\ b \in Nat /\ b < HeapBytes /\ OnGrid(HEAP_ALIGNMENT, b) /\ OnGrid(G, b)
  BY Layout DEF Tiles
<1>2. mem[b].magic \in {"data", "FREE", "USED"} /\ mem[b].size \in Nat
  BY <1>1, HeaderFacts
<1>3. mem[b].magic # "data" /\ next_block(mem, b) \in T \cup {HeapBytes}
  BY DEF Tiles
<1>. DEFINE n == next_block(mem, b)
            e == HEADER_SIZE + mem[b].size
<1>4. n = b + e /\ e \in Nat /\ e >= HEADER_SIZE /\ e # 0 /\ e = n - b /\ b <= n
  BY <1>1, <1>2, Layout DEF next_block
<1>5. n \in Nat /\ n <= HeapBytes /\ OnGrid(G, n)
  BY <1>3, Layout, GranuleFacts DEF Tiles
<1>6. OnGrid(G, e)
  BY <1>1, <1>4, <1>5, GridSum, GranuleFacts
<1>8. mem[b].size >= HEAP_ALIGNMENT
  BY DEF Tiles
<1>9. b + HEAP_ALIGNMENT \in Units /\ b + HEADER_SIZE \in Units
  <2>1. OnGrid(HEAP_ALIGNMENT, b + HEAP_ALIGNMENT) /\ OnGrid(HEAP_ALIGNMENT, b + HEADER_SIZE)
    BY <1>1, GridSum, Layout
  <2>2. b + HEADER_SIZE < HeapBytes /\ b + HEAP_ALIGNMENT < HeapBytes
    BY <1>1, <1>2, <1>4, <1>5, <1>8, Layout
  <2>. QED
    BY <2>1, <2>2, <1>1, Layout
<1>10. mem[b].magic \in {"FREE", "USED"}
  BY <1>2, <1>3
<1>11. next_block(mem, b) = b + HEADER_SIZE + mem[b].size
  BY DEF next_block
<1>. HIDE DEF e, n
<1>. QED
  BY <1>1, <1>2, <1>5, <1>6, <1>8, <1>9, <1>10, <1>11, Zenon DEF e, n

\* A multiple of the alignment inside the heap is a unit.
LEMMA UnitSum ==
    ASSUME NEW a \in Units, NEW n, OnGrid(HEAP_ALIGNMENT, n), a + n < HeapBytes
    PROVE  a + n \in Units
<1>1. a \in Nat /\ OnGrid(HEAP_ALIGNMENT, a)
  BY Layout
<1>2. a + n \in Nat /\ OnGrid(HEAP_ALIGNMENT, a + n)
  BY <1>1, GridSum, Layout
<1>. QED
  BY <1>2, Layout

\* What writing a header leaves in memory.
LEMMA PutHeaderEffect ==
    ASSUME NEW mem \in [Units -> Headers], NEW b \in Units, b + HEAP_ALIGNMENT \in Units,
           NEW magic \in {"FREE", "USED"}, NEW size \in Nat, OnGrid(HEAP_ALIGNMENT, size)
    PROVE  /\ PutHeader(mem, b, magic, size) \in [Units -> Headers]
           /\ PutHeader(mem, b, magic, size)[b] = [magic |-> magic, size |-> size]
           /\ PutHeader(mem, b, magic, size)[b + HEAP_ALIGNMENT] = Data
           /\ \A a \in Units : a # b /\ a # b + HEAP_ALIGNMENT =>
                PutHeader(mem, b, magic, size)[a] = mem[a]
<1>1. [magic |-> magic, size |-> size] \in Headers
  BY DEF Headers
<1>2. Data \in Headers
  <2>1. 0 \in Nat /\ 0 = HEAP_ALIGNMENT * 0
    BY Layout
  <2>2. OnGrid(HEAP_ALIGNMENT, 0)
    BY <2>1 DEF OnGrid
  <2>. QED
    BY <2>2 DEF Headers, Data
<1>3. b # b + HEAP_ALIGNMENT
  BY Layout
<1>. QED
  BY <1>1, <1>2, <1>3 DEF PutHeader
----------------------------------------------------------------------------
\* How the writes of heap.c change the tiling.

\* A header rewritten with its own size: the tiling stays, the block's tag
\* is the new one.
LEMMA RetagTiles ==
    ASSUME NEW G \in Nat, IsGranule(G), NEW mem \in [Units -> Headers],
           NEW T \in SUBSET Units, Tiles(G, mem, T), NEW b \in T,
           NEW magic \in {"FREE", "USED"},
           NEW mem2, mem2 = PutHeader(mem, b, magic, mem[b].size)
    PROVE  /\ mem2 \in [Units -> Headers] /\ Tiles(G, mem2, T)
           /\ mem2[b].magic = magic /\ mem2[b].size = mem[b].size
           /\ \A c \in T : c # b => mem2[c] = mem[c]
<1>1. /\ b \in Units /\ b \in Nat /\ mem[b].size \in Nat
      /\ next_block(mem, b) = b + HEADER_SIZE + mem[b].size
      /\ b + HEAP_ALIGNMENT \in Units /\ OnGrid(HEAP_ALIGNMENT, mem[b].size)
  BY BlockFacts, HeaderFacts
<1>2. /\ mem2 \in [Units -> Headers]
      /\ mem2[b] = [magic |-> magic, size |-> mem[b].size]
      /\ mem2[b + HEAP_ALIGNMENT] = Data
      /\ \A a \in Units : a # b /\ a # b + HEAP_ALIGNMENT => mem2[a] = mem[a]
  BY <1>1, PutHeaderEffect
<1>3. b + HEAP_ALIGNMENT \notin T
  <2>1. b < b + HEAP_ALIGNMENT /\ b + HEAP_ALIGNMENT < next_block(mem, b)
    BY <1>1, Layout
  <2>2. b + HEAP_ALIGNMENT \in T => next_block(mem, b) <= b + HEAP_ALIGNMENT
    BY <2>1 DEF Tiles
  <2>. QED
    BY <2>1, <2>2, <1>1, Layout
<1>4. \A c \in T : c # b => mem2[c] = mem[c]
  BY <1>2, <1>3
<1>5. mem2[b].magic = magic /\ mem2[b].size = mem[b].size
  BY <1>2
<1>6. \A c \in T : mem2[c].size = mem[c].size
  BY <1>4, <1>5
<1>7. \A c \in T : next_block(mem2, c) = next_block(mem, c)
  BY <1>6 DEF next_block
<1>8. Tiles(G, mem2, T)
  <2>1. T \subseteq Units /\ 0 \in T
    BY DEF Tiles
  <2>2. ASSUME NEW c \in T
        PROVE  OnGrid(G, c) /\ mem2[c].magic # "data" /\ mem2[c].size >= HEAP_ALIGNMENT
               /\ next_block(mem2, c) \in T \cup {HeapBytes}
    BY <1>4, <1>5, <1>7 DEF Tiles
  <2>3. ASSUME NEW c \in T, NEW d \in T, c < d PROVE next_block(mem2, c) <= d
    BY <1>7, <2>3 DEF Tiles
  <2>4. ASSUME NEW a \in Units, mem2[a].magic = "USED" PROVE a \in T
    BY <1>2, <2>4 DEF Tiles, Data
  <2>. QED
    BY <2>1, <2>2, <2>3, <2>4 DEF Tiles
<1>. QED
  BY <1>2, <1>4, <1>5, <1>8

\* Block b is cut behind the first s bytes of its payload, where n begins.
Cuts(G, mem, T, b, s, n, mem2) ==
    /\ mem \in [Units -> Headers] /\ T \in SUBSET Units /\ Tiles(G, mem, T) /\ b \in T
    /\ s \in Nat /\ s >= HEAP_ALIGNMENT /\ OnGrid(G, s + HEADER_SIZE)
    /\ mem[b].size - s >= HEADER_SIZE + HEAP_ALIGNMENT
    /\ n = b + HEADER_SIZE + s
    /\ mem2 = PutHeader(PutHeader(mem, n, "FREE", mem[b].size - s - HEADER_SIZE),
                        b, "USED", s)

\* What the cut leaves.
IsCut(G, mem, T, b, s, n, mem2) ==
    /\ n \in Units /\ n \notin T
    /\ mem2 \in [Units -> Headers] /\ Tiles(G, mem2, T \cup {n})
    /\ mem2[b].magic = "USED" /\ mem2[b].size = s
    /\ mem2[n].magic = "FREE"
    /\ \A c \in T : c # b => mem2[c] = mem[c]

\* heap_alloc cuts a free block in two: the first part is used, the rest is a
\* new free block.
LEMMA SplitTiles ==
    ASSUME NEW G \in Nat, IsGranule(G), NEW mem, NEW T, NEW b, NEW s, NEW n, NEW mem2,
           Cuts(G, mem, T, b, s, n, mem2)
    PROVE  IsCut(G, mem, T, b, s, n, mem2)
<1>0. /\ mem \in [Units -> Headers] /\ T \in SUBSET Units /\ Tiles(G, mem, T) /\ b \in T
      /\ s \in Nat /\ s >= HEAP_ALIGNMENT /\ OnGrid(G, s + HEADER_SIZE)
      /\ mem[b].size - s >= HEADER_SIZE + HEAP_ALIGNMENT
      /\ n = b + HEADER_SIZE + s
      /\ mem2 = PutHeader(PutHeader(mem, n, "FREE", mem[b].size - s - HEADER_SIZE),
                          b, "USED", s)
  BY DEF Cuts
<1>. USE <1>0
<1>. DEFINE rest == mem[b].size - s - HEADER_SIZE
            m == PutHeader(mem, n, "FREE", rest)
<1>1. /\ b \in Units /\ b \in Nat /\ OnGrid(G, b) /\ mem[b].size \in Nat
      /\ next_block(mem, b) = b + HEADER_SIZE + mem[b].size
      /\ next_block(mem, b) <= HeapBytes
      /\ b + HEAP_ALIGNMENT \in Units /\ OnGrid(HEAP_ALIGNMENT, mem[b].size)
      /\ OnGrid(HEAP_ALIGNMENT, b)
  BY BlockFacts, HeaderFacts, Layout
<1>2. /\ rest \in Nat /\ rest >= HEAP_ALIGNMENT /\ n \in Nat
      /\ n + HEADER_SIZE + rest = next_block(mem, b)
      /\ n = b + (s + HEADER_SIZE)
      /\ rest = (mem[b].size - s) - HEADER_SIZE
  BY <1>1, Layout
<1>3. OnGrid(G, n) /\ OnGrid(HEAP_ALIGNMENT, s + HEADER_SIZE)
  <2>1. OnGrid(G, b + (s + HEADER_SIZE))
    BY <1>1, GridSum, GranuleFacts
  <2>. QED
    BY <2>1, <1>2, GridTransitive, GranuleFacts, Layout
<1>4. OnGrid(HEAP_ALIGNMENT, s) /\ OnGrid(HEAP_ALIGNMENT, n)
  <2>1. s = (s + HEADER_SIZE) - HEADER_SIZE /\ HEADER_SIZE <= s + HEADER_SIZE
    BY Layout
  <2>2. OnGrid(HEAP_ALIGNMENT, (s + HEADER_SIZE) - HEADER_SIZE)
    BY <2>1, <1>3, GridSum, Layout
  <2>. QED
    BY <2>1, <2>2, <1>3, GridTransitive, GranuleFacts, Layout
<1>5. OnGrid(HEAP_ALIGNMENT, rest)
  <2>1. OnGrid(HEAP_ALIGNMENT, mem[b].size - s)
    BY <1>1, <1>4, GridSum, Layout
  <2>2. HEADER_SIZE <= mem[b].size - s
    BY <1>1, Layout
  <2>. QED
    BY <2>1, <2>2, <1>2, GridSum, Layout
<1>6. n \in Units /\ n + HEAP_ALIGNMENT \in Units
  <2>1. n < HeapBytes /\ n + HEAP_ALIGNMENT < HeapBytes
    BY <1>1, <1>2, Layout
  <2>2. n \in Units
    BY <2>1, <1>2, <1>4, Layout
  <2>. QED
    BY <2>1, <2>2, UnitSum, Layout
<1>7. b < n /\ n < next_block(mem, b) /\ n # b + HEAP_ALIGNMENT
      /\ b < n + HEAP_ALIGNMENT /\ n + HEAP_ALIGNMENT < next_block(mem, b)
      /\ b < b + HEAP_ALIGNMENT /\ b + HEAP_ALIGNMENT < next_block(mem, b)
      /\ n # n + HEAP_ALIGNMENT /\ n + HEAP_ALIGNMENT # b
  BY <1>1, <1>2, Layout
<1>8. \A c \in T : /\ c # n /\ c # n + HEAP_ALIGNMENT /\ c # b + HEAP_ALIGNMENT
  <2>. SUFFICES ASSUME NEW c \in T, b < c, c < next_block(mem, b) PROVE FALSE
    BY <1>7
  <2>1. next_block(mem, b) <= c /\ c \in Nat /\ next_block(mem, b) \in Nat
    BY <1>1, Layout DEF Tiles
  <2>. QED
    BY <2>1
<1>9. /\ m \in [Units -> Headers]
      /\ m[n] = [magic |-> "FREE", size |-> rest]
      /\ m[n + HEAP_ALIGNMENT] = Data
      /\ \A a \in Units : a # n /\ a # n + HEAP_ALIGNMENT => m[a] = mem[a]
  <2>. HIDE DEF rest
  <2>. QED
    BY <1>2, <1>5, <1>6, PutHeaderEffect
<1>. HIDE DEF m, rest
<1>10. mem2 = PutHeader(m, b, "USED", s)
  BY DEF m, rest
<1>11. /\ mem2 \in [Units -> Headers]
       /\ mem2[b] = [magic |-> "USED", size |-> s]
       /\ mem2[b + HEAP_ALIGNMENT] = Data
       /\ \A a \in Units : a # b /\ a # b + HEAP_ALIGNMENT => mem2[a] = m[a]
  BY <1>1, <1>4, <1>9, <1>10, PutHeaderEffect
<1>12. mem2[n] = [magic |-> "FREE", size |-> rest]
  BY <1>6, <1>7, <1>9, <1>11
<1>13. \A c \in T : c # b => mem2[c] = mem[c]
  BY <1>8, <1>9, <1>11
<1>14. /\ next_block(mem2, b) = n /\ next_block(mem2, n) = next_block(mem, b)
       /\ \A c \in T : c # b => next_block(mem2, c) = next_block(mem, c)
  BY <1>2, <1>11, <1>12, <1>13 DEF next_block
<1>15. Tiles(G, mem2, T \cup {n})
  <2>1. T \cup {n} \subseteq Units /\ 0 \in T
    BY <1>6 DEF Tiles
  <2>2. ASSUME NEW c \in T \cup {n}
        PROVE  OnGrid(G, c) /\ mem2[c].magic # "data" /\ mem2[c].size >= HEAP_ALIGNMENT
               /\ next_block(mem2, c) \in (T \cup {n}) \cup {HeapBytes}
    BY <1>2, <1>3, <1>11, <1>12, <1>13, <1>14 DEF Tiles
  <2>3. ASSUME NEW c \in T \cup {n}, NEW d \in T \cup {n}, c < d
        PROVE  next_block(mem2, c) <= d
    <3>0. /\ c \in Nat /\ d \in Nat /\ next_block(mem, b) \in Nat
          /\ \A x, y \in T : x < y => next_block(mem, x) <= y
      BY <2>1, <1>1, Layout DEF Tiles
    <3>1. CASE c = b
      <4>1. d = n \/ (d \in T /\ next_block(mem, b) <= d)
        BY <3>0, <3>1, <2>3
      <4>. QED
        BY <3>0, <3>1, <4>1, <1>2, <1>7, <1>14
    <3>2. CASE c = n
      <4>1. d \in T /\ b < d
        BY <3>0, <3>2, <2>3, <1>1, <1>2, <1>7
      <4>. QED
        BY <3>0, <3>2, <4>1, <1>14
    <3>3. CASE c \in T /\ c # b
      <4>1. CASE d \in T
        BY <3>0, <3>3, <4>1, <2>3, <1>14
      <4>2. CASE d = n
        <5>1. c < b
          <6>1. ASSUME b < c PROVE FALSE
            BY <3>0, <3>3, <4>2, <6>1, <2>3, <1>1, <1>2, <1>7
          <6>. QED
            BY <6>1, <3>0, <3>3, <1>1
        <5>2. next_block(mem, c) <= b /\ b < n /\ next_block(mem, c) \in Nat
          BY <5>1, <3>0, <3>3, <1>7, BlockFacts, Layout DEF OnGrid
        <5>. QED
          BY <5>2, <4>2, <3>3, <1>1, <1>2, <1>14
      <4>. QED
        BY <4>1, <4>2
    <3>. QED
      BY <3>1, <3>2, <3>3
  <2>4. ASSUME NEW a \in Units, mem2[a].magic = "USED" PROVE a \in T \cup {n}
    <3>1. CASE a = b \/ a = n
      BY <3>1
    <3>2. CASE a # b /\ a # n
      <4>1. a # b + HEAP_ALIGNMENT /\ a # n + HEAP_ALIGNMENT
        BY <2>4, <3>2, <1>1, <1>6, <1>7, <1>9, <1>11 DEF Data
      <4>2. mem2[a] = mem[a]
        BY <3>2, <4>1, <1>9, <1>11
      <4>. QED
        BY <4>2, <2>4 DEF Tiles
    <3>. QED
      BY <3>1, <3>2
  <2>. QED
    BY <2>1, <2>2, <2>3, <2>4 DEF Tiles
<1>. QED
  BY <1>6, <1>8, <1>11, <1>12, <1>13, <1>15 DEF rest, IsCut
\* What is left when block b has absorbed block n.
IsJoin(G, mem, T, b, n, mem2) ==
    /\ n # b
    /\ mem2 \in [Units -> Headers] /\ Tiles(G, mem2, T \ {n})
    /\ mem2[b].magic = mem[b].magic
    /\ \A c \in T : c # b => mem2[c] = mem[c]

\* heap_free lets a block absorb the free block after it.
LEMMA MergeTiles ==
    ASSUME NEW G \in Nat, IsGranule(G), NEW mem \in [Units -> Headers],
           NEW T \in SUBSET Units, Tiles(G, mem, T), NEW b \in T,
           NEW n \in T, n = next_block(mem, b), mem[n].magic = "FREE",
           NEW mem2, mem2 = [mem EXCEPT ![b].size = @ + HEADER_SIZE + mem[n].size]
    PROVE  IsJoin(G, mem, T, b, n, mem2)
<1>1. /\ b \in Units /\ b \in Nat /\ mem[b].size \in Nat
      /\ next_block(mem, b) = b + HEADER_SIZE + mem[b].size
      /\ mem[b].magic \in {"FREE", "USED"}
      /\ n \in Units /\ n \in Nat /\ mem[n].size \in Nat
      /\ next_block(mem, n) = n + HEADER_SIZE + mem[n].size
      /\ next_block(mem, n) \in T \cup {HeapBytes}
  BY BlockFacts DEF Tiles
<1>. DEFINE s == mem[b].size + HEADER_SIZE + mem[n].size
<1>2. b < n /\ s \in Nat /\ b + HEADER_SIZE + s = next_block(mem, n)
      /\ n < next_block(mem, n) /\ s >= HEAP_ALIGNMENT
  BY <1>1, Layout
<1>3. OnGrid(HEAP_ALIGNMENT, s)
  <2>1. OnGrid(HEAP_ALIGNMENT, mem[b].size) /\ OnGrid(HEAP_ALIGNMENT, mem[n].size)
    BY <1>1, HeaderFacts
  <2>2. OnGrid(HEAP_ALIGNMENT, mem[b].size + HEADER_SIZE)
    BY <2>1, GridSum, Layout
  <2>. QED
    BY <2>1, <2>2, GridSum, Layout
<1>. HIDE DEF s
<1>4. [magic |-> mem[b].magic, size |-> s] \in Headers
  BY <1>1, <1>2, <1>3 DEF Headers
<1>5. mem2 = [mem EXCEPT ![b] = [magic |-> mem[b].magic, size |-> s]]
  <2>1. mem[b] \in Headers
    BY <1>1
  <2>2. mem[b] = [magic |-> mem[b].magic, size |-> mem[b].size]
    BY <2>1 DEF Headers
  <2>3. [mem[b] EXCEPT !.size = s] = [magic |-> mem[b].magic, size |-> s]
    BY <2>2
  <2>. QED
    BY <2>3 DEF s
<1>6. /\ mem2 \in [Units -> Headers]
      /\ mem2[b] = [magic |-> mem[b].magic, size |-> s]
      /\ \A a \in Units : a # b => mem2[a] = mem[a]
  BY <1>1, <1>4, <1>5
<1>7. mem2[b].magic = mem[b].magic /\ mem2[b].size = s
  BY <1>6
<1>8. /\ next_block(mem2, b) = next_block(mem, n)
      /\ \A c \in T : c # b => next_block(mem2, c) = next_block(mem, c)
  BY <1>2, <1>6, <1>7 DEF next_block
<1>9. Tiles(G, mem2, T \ {n})
  <2>1. T \ {n} \subseteq Units /\ 0 \in T \ {n}
    BY <1>1, <1>2, Layout DEF Tiles
  <2>0. /\ \A x \in T : x \in Nat /\ next_block(mem, x) \in Nat /\ x < next_block(mem, x)
        /\ \A x, y \in T : x < y => next_block(mem, x) <= y
    <3>1. \A x \in T : x \in Nat /\ mem[x].size \in Nat
                       /\ next_block(mem, x) = x + HEADER_SIZE + mem[x].size
      BY BlockFacts
    <3>. QED
      BY <3>1, Layout DEF Tiles
  <2>2. ASSUME NEW c \in T \ {n}
        PROVE  OnGrid(G, c) /\ mem2[c].magic # "data" /\ mem2[c].size >= HEAP_ALIGNMENT
               /\ next_block(mem2, c) \in (T \ {n}) \cup {HeapBytes}
    <3>1. OnGrid(G, c) /\ mem2[c].magic # "data" /\ mem2[c].size >= HEAP_ALIGNMENT
      <4>1. CASE c = b
        BY <4>1, <1>2, <1>7 DEF Tiles
      <4>2. CASE c # b
        BY <4>2, <1>6 DEF Tiles
      <4>. QED
        BY <4>1, <4>2
    <3>2. CASE c = b
      BY <3>1, <3>2, <1>1, <1>2, <1>8
    <3>3. CASE c # b
      <4>1. next_block(mem, c) \in T \cup {HeapBytes}
        BY DEF Tiles
      <4>2. ASSUME next_block(mem, c) = n PROVE FALSE
        <5>1. CASE c < b
          BY <5>1, <4>2, <2>0, <1>2
        <5>2. CASE b < c
          BY <5>2, <4>2, <2>0, <1>1
        <5>. QED
          BY <5>1, <5>2, <3>3, <2>0
      <4>. QED
        BY <3>1, <3>3, <4>1, <4>2, <1>8
    <3>. QED
      BY <3>2, <3>3
  <2>3. ASSUME NEW c \in T \ {n}, NEW d \in T \ {n}, c < d
        PROVE  next_block(mem2, c) <= d
    <3>1. CASE c = b
      <4>1. n <= d /\ n < d
        BY <3>1, <2>3, <2>0
      <4>. QED
        BY <3>1, <4>1, <2>0, <1>8
    <3>2. CASE c # b
      BY <3>2, <2>3, <2>0, <1>8
    <3>. QED
      BY <3>1, <3>2
  <2>4. ASSUME NEW a \in Units, mem2[a].magic = "USED" PROVE a \in T \ {n}
    <3>1. mem[a].magic = "USED"
      BY <2>4, <1>6, <1>7
    <3>. QED
      BY <3>1 DEF Tiles
  <2>. QED
    BY <2>1, <2>2, <2>3, <2>4 DEF Tiles
<1>. QED
  BY <1>2, <1>6, <1>7, <1>9, <1>1 DEF IsJoin

\* A write inside the payload of a block that writes no used header leaves
\* the tiling and every block's header.
LEMMA PayloadTiles ==
    ASSUME NEW G \in Nat, IsGranule(G), NEW mem \in [Units -> Headers],
           NEW T \in SUBSET Units, Tiles(G, mem, T), NEW b \in T,
           NEW mem2 \in [Units -> Headers],
           \A a \in Units : \/ mem2[a] = mem[a]
                            \/ /\ b + HEADER_SIZE <= a /\ a < next_block(mem, b)
                               /\ mem2[a].magic # "USED"
    PROVE  Tiles(G, mem2, T) /\ \A c \in T : mem2[c] = mem[c]
<1>1. \A c \in T : mem2[c] = mem[c]
  <2>. SUFFICES ASSUME NEW c \in T, b + HEADER_SIZE <= c, c < next_block(mem, b)
                PROVE  FALSE
    OBVIOUS
  <2>1. b \in Nat /\ c \in Nat /\ next_block(mem, b) \in Nat
    BY BlockFacts, Layout
  <2>2. b < c
    BY <2>1, Layout
  <2>3. next_block(mem, b) <= c
    BY <2>2 DEF Tiles
  <2>. QED
    BY <2>1, <2>3
<1>2. \A c \in T : next_block(mem2, c) = next_block(mem, c)
  BY <1>1 DEF next_block
<1>3. \A a \in Units : mem2[a].magic = "USED" => a \in T
  BY DEF Tiles
<1>. QED
  BY <1>1, <1>2, <1>3 DEF Tiles
----------------------------------------------------------------------------
\* The free list as a listing of the free blocks.

\* The links of the free list without its i-th.
LEMMA WithoutIs ==
    ASSUME NEW S, NEW list \in Seq(S), NEW i \in DOMAIN list
    PROVE  /\ Without(list, i) \in Seq(S)
           /\ Len(Without(list, i)) = Len(list) - 1
           /\ \A j \in 1 .. (Len(list) - 1) :
                Without(list, i)[j] = IF j < i THEN list[j] ELSE list[j + 1]
<1>. DEFINE p == SubSeq(list, 1, i - 1)
            q == SubSeq(list, i + 1, Len(list))
<1>1. Len(list) \in Nat /\ DOMAIN list = 1 .. Len(list) /\ i \in 1 .. Len(list)
  OBVIOUS
<1>2. p \in Seq(S) /\ Len(p) = i - 1 /\ \A j \in 1 .. (i - 1) : p[j] = list[j]
  BY <1>1, SubSeqProperties
<1>3. q \in Seq(S) /\ Len(q) = Len(list) - i
      /\ \A j \in 1 .. (Len(list) - i) : q[j] = list[i + j]
  BY <1>1, SubSeqProperties
<1>. HIDE DEF p, q
<1>4. /\ p \o q \in Seq(S) /\ Len(p \o q) = Len(list) - 1
      /\ \A j \in 1 .. (Len(list) - 1) :
           (p \o q)[j] = IF j <= Len(p) THEN p[j] ELSE q[j - Len(p)]
  <2>1. /\ p \o q \in Seq(S) /\ Len(p \o q) = Len(p) + Len(q)
        /\ \A j \in 1 .. (Len(p) + Len(q)) :
             (p \o q)[j] = IF j <= Len(p) THEN p[j] ELSE q[j - Len(p)]
    BY <1>2, <1>3, ConcatProperties
  <2>2. Len(p) + Len(q) = Len(list) - 1
    BY <1>1, <1>2, <1>3
  <2>. QED
    BY ONLY <2>1, <2>2
<1>5. ASSUME NEW j \in 1 .. (Len(list) - 1)
      PROVE  (p \o q)[j] = IF j < i THEN list[j] ELSE list[j + 1]
  <2>1. CASE j < i
    BY <2>1, <1>1, <1>2, <1>4
  <2>2. CASE ~ (j < i)
    <3>1. j - (i - 1) \in 1 .. (Len(list) - i) /\ i + (j - (i - 1)) = j + 1
          /\ ~ (j <= i - 1)
      BY <2>2, <1>1
    <3>2. q[j - (i - 1)] = list[j + 1]
      BY <3>1, <1>3
    <3>. QED
      BY <2>2, <3>1, <3>2, <1>2, <1>4
  <2>. QED
    BY <2>1, <2>2
<1>. QED
  BY <1>4, <1>5 DEF Without, p, q

\* Unlinking the i-th entry.
LEMMA WithoutLists ==
    ASSUME NEW S, NEW list, Lists(list, S), NEW i \in DOMAIN list
    PROVE  /\ Lists(Without(list, i), S \ {list[i]})
           /\ Len(Without(list, i)) = Len(list) - 1
<1>. DEFINE w == Without(list, i)
            N == Len(list)
<1>1. /\ list \in Seq(S) /\ N \in Nat /\ DOMAIN list = 1 .. N /\ i \in 1 .. N
      /\ \A j, k \in 1 .. N : list[j] = list[k] => j = k
      /\ \A s \in S : \E j \in 1 .. N : list[j] = s
      /\ \A j \in 1 .. N : list[j] \in S
  BY DEF Lists
<1>2. /\ w \in Seq(S) /\ Len(w) = N - 1
      /\ \A j \in 1 .. (N - 1) : w[j] = IF j < i THEN list[j] ELSE list[j + 1]
  BY <1>1, WithoutIs
<1>3. DOMAIN w = 1 .. (N - 1)
  BY <1>2
<1>. HIDE DEF w, N
<1>4. \A j \in 1 .. (N - 1) : w[j] \in S \ {list[i]}
  BY <1>1, <1>2
<1>5. w \in Seq(S \ {list[i]})
  BY <1>1, <1>2, <1>3, <1>4
<1>6. \A j, k \in 1 .. (N - 1) : w[j] = w[k] => j = k
  <2>. SUFFICES ASSUME NEW j \in 1 .. (N - 1), NEW k \in 1 .. (N - 1), w[j] = w[k]
                PROVE  j = k
    OBVIOUS
  <2>. DEFINE at(x) == IF x < i THEN x ELSE x + 1
  <2>1. /\ at(j) \in 1 .. N /\ at(k) \in 1 .. N
        /\ w[j] = list[at(j)] /\ w[k] = list[at(k)]
    BY <1>1, <1>2
  <2>2. at(j) = at(k)
    BY <2>1, <1>1
  <2>. QED
    BY <2>2, <1>1
<1>7. \A s \in S \ {list[i]} : \E j \in 1 .. (N - 1) : w[j] = s
  <2>. SUFFICES ASSUME NEW s \in S \ {list[i]}
                PROVE  \E j \in 1 .. (N - 1) : w[j] = s
    OBVIOUS
  <2>1. PICK k \in 1 .. N : list[k] = s
    BY <1>1
  <2>2. k # i
    BY <2>1
  <2>3. CASE k < i
    <3>1. k \in 1 .. (N - 1) /\ w[k] = s
      BY <2>1, <2>3, <1>1, <1>2
    <3>. QED
      BY <3>1
  <2>4. CASE i < k
    <3>1. k - 1 \in 1 .. (N - 1) /\ ~ (k - 1 < i) /\ (k - 1) + 1 = k
      BY <2>4, <1>1
    <3>2. w[k - 1] = s
      BY <3>1, <2>1, <1>2
    <3>. QED
      BY <3>1, <3>2
  <2>. QED
    BY <2>2, <2>3, <2>4, <1>1
<1>. QED
  BY <1>2, <1>3, <1>5, <1>6, <1>7 DEF Lists, w, N

\* Replacing the i-th entry by a new one.
LEMMA ReplaceLists ==
    ASSUME NEW S, NEW list, Lists(list, S), NEW i \in DOMAIN list, NEW n, n \notin S
    PROVE  /\ Lists([list EXCEPT ![i] = n], (S \ {list[i]}) \cup {n})
           /\ Len([list EXCEPT ![i] = n]) = Len(list)
<1>. DEFINE w == [list EXCEPT ![i] = n]
            N == Len(list)
            S2 == (S \ {list[i]}) \cup {n}
<1>1. /\ list \in Seq(S) /\ N \in Nat /\ DOMAIN list = 1 .. N /\ i \in 1 .. N
      /\ \A j, k \in 1 .. N : list[j] = list[k] => j = k
      /\ \A s \in S : \E j \in 1 .. N : list[j] = s
      /\ \A j \in 1 .. N : list[j] \in S
  BY DEF Lists
<1>2. DOMAIN w = 1 .. N /\ \A j \in 1 .. N : w[j] = IF j = i THEN n ELSE list[j]
  BY <1>1
<1>. HIDE DEF N
<1>3. w \in [1 .. N -> S2]
  BY <1>1, <1>2
<1>. HIDE DEF w, S2
<1>4. w \in Seq(S2) /\ Len(w) = N
  <2>1. w \in Seq(S2)
    BY <1>1, <1>3, SeqDef
  <2>2. Len(w) \in Nat /\ DOMAIN w = 1 .. Len(w)
    BY <2>1, LenProperties
  <2>. QED
    BY <1>1, <1>2, <2>1, <2>2
<1>5. \A j, k \in 1 .. N : w[j] = w[k] => j = k
  BY <1>1, <1>2
<1>6. \A s \in S2 : \E j \in 1 .. N : w[j] = s
  BY <1>1, <1>2 DEF S2
<1>. QED
  BY <1>2, <1>4, <1>5, <1>6 DEF Lists, w, N, S2

\* Linking a new block at the head.
LEMMA PushLists ==
    ASSUME NEW S, NEW list, Lists(list, S), NEW b, b \notin S
    PROVE  /\ Lists(<<b>> \o list, S \cup {b})
           /\ Len(<<b>> \o list) = Len(list) + 1
<1>. DEFINE w == <<b>> \o list
            N == Len(list)
<1>1. /\ list \in Seq(S) /\ N \in Nat /\ DOMAIN list = 1 .. N
      /\ \A j, k \in 1 .. N : list[j] = list[k] => j = k
      /\ \A s \in S : \E j \in 1 .. N : list[j] = s
      /\ \A j \in 1 .. N : list[j] \in S
  BY DEF Lists
<1>2. <<b>> \in Seq(S \cup {b}) /\ list \in Seq(S \cup {b}) /\ Len(<<b>>) = 1 /\ <<b>>[1] = b
  BY <1>1
<1>3. /\ w \in Seq(S \cup {b}) /\ Len(w) = N + 1
      /\ \A j \in 1 .. (N + 1) : w[j] = IF j <= 1 THEN <<b>>[j] ELSE list[j - 1]
  <2>1. /\ <<b>> \o list \in Seq(S \cup {b})
        /\ Len(<<b>> \o list) = Len(<<b>>) + Len(list)
        /\ \A j \in 1 .. (Len(<<b>>) + Len(list)) :
             (<<b>> \o list)[j] = IF j <= Len(<<b>>) THEN <<b>>[j] ELSE list[j - Len(<<b>>)]
    BY <1>2, ConcatProperties
  <2>. QED
    BY <1>1, <1>2, <2>1
<1>4. DOMAIN w = 1 .. (N + 1)
  BY <1>3
<1>. HIDE DEF w, N
<1>5. w[1] = b /\ \A j \in 1 .. N : w[j + 1] = list[j]
  BY <1>1, <1>2, <1>3
<1>6. \A j, k \in 1 .. (N + 1) : w[j] = w[k] => j = k
  BY <1>1, <1>2, <1>3
<1>7. \A s \in S \cup {b} : \E j \in 1 .. (N + 1) : w[j] = s
  <2>. SUFFICES ASSUME NEW s \in S \cup {b} PROVE \E j \in 1 .. (N + 1) : w[j] = s
    OBVIOUS
  <2>1. CASE s = b
    <3>1. 1 \in 1 .. (N + 1)
      BY <1>1
    <3>. QED
      BY <2>1, <3>1, <1>5
  <2>2. CASE s \in S
    <3>1. PICK j \in 1 .. N : list[j] = s
      BY <2>2, <1>1
    <3>2. j + 1 \in 1 .. (N + 1) /\ w[j + 1] = s
      BY <3>1, <1>1, <1>5
    <3>. QED
      BY <3>2
  <2>. QED
    BY <2>1, <2>2
<1>. QED
  BY <1>3, <1>4, <1>6, <1>7 DEF Lists, w, N

\* RemoveBlock unlinks a block that is listed.
LEMMA RemoveLists ==
    ASSUME NEW S, NEW list, Lists(list, S), NEW b \in S
    PROVE  /\ Lists(RemoveBlock(list, b), S \ {b})
           /\ Len(RemoveBlock(list, b)) = Len(list) - 1
<1>. DEFINE at == {i \in DOMAIN list : list[i] = b}
<1>1. PICK k \in DOMAIN list : list[k] = b
  BY DEF Lists
<1>2. \A j \in at : j = k
  BY <1>1 DEF Lists
<1>3. k \in at /\ k <= k
  BY <1>1 DEF Lists
<1>4. \E i \in at : \A j \in at : i <= j
  BY <1>2, <1>3
<1>5. (CHOOSE i \in at : \A j \in at : i <= j) = k
  BY <1>2, <1>4
<1>6. RemoveBlock(list, b) = Without(list, k)
  BY <1>3, <1>5 DEF RemoveBlock
<1>7. /\ Lists(Without(list, k), S \ {list[k]})
      /\ Len(Without(list, k)) = Len(list) - 1
  BY WithoutLists
<1>. QED
  BY ONLY <1>1, <1>6, <1>7
----------------------------------------------------------------------------
\* What the operations of heap.c do to an exact heap.

\* The blocks of a heap are finitely many.
LEMMA BlocksFinite ==
    ASSUME NEW T \in SUBSET Units
    PROVE  IsFiniteSet(T)
<1>1. IsFiniteSet(0 .. (HeapBytes - 1))
  BY FS_Interval, Layout
<1>2. T \in SUBSET (0 .. (HeapBytes - 1))
  BY DEF Units
<1>. QED
  BY <1>1, <1>2, FS_Subset

\* The parts of an exact heap.
LEMMA ExactParts ==
    ASSUME NEW G, NEW h, NEW T, Exact(G, h, T)
    PROVE  /\ h.mem \in [Units -> Headers] /\ h.free_list \in Seq(Units)
           /\ h.total_blocks \in Int /\ h.free_blocks \in Int /\ h.outstanding \in Int
           /\ Tiles(G, h.mem, T) /\ T \in SUBSET Units
           /\ Lists(h.free_list, FreeIn(h.mem, T))
           /\ h.free_blocks = Len(h.free_list)
           /\ h.total_blocks = Cardinality(T)
           /\ h.outstanding = Cardinality(UsedIn(h.mem, T))
  BY DEF Exact, Heaps, Tiles

\* How one operation of heap.c changes the used blocks: it adds Added,
\* removes Removed and keeps the headers of the others.
Changed(mem, T, mem2, T2, Added, Removed) ==
    /\ UsedIn(mem2, T2) = (UsedIn(mem, T) \cup Added) \ Removed
    /\ \A u \in UsedIn(mem, T) \ Removed : mem2[u] = mem[u]

Taken(G, h, T, b, s, h2) ==
    /\ b \in FreeIn(h.mem, T)
    /\ \E T2 \in SUBSET Units :
         /\ Exact(G, h2, T2)
         /\ Changed(h.mem, T, h2.mem, T2, {b}, {})
         /\ h2.mem[b].magic = "USED" /\ h2.mem[b].size = s

\* heap_alloc's first fit with room for a request: the block is used, and
\* what is left of it is a free block.
LEMMA TakeEffect ==
    ASSUME NEW G \in Nat, IsGranule(G), NEW h, NEW T \in SUBSET Units, Exact(G, h, T),
           NEW i \in DOMAIN h.free_list, NEW b, b = h.free_list[i],
           NEW s \in Nat, OnGrid(G, s + HEADER_SIZE),
           HEAP_ALIGNMENT <= s, s <= h.mem[b].size,
           \/ h.mem[b].size - s = 0
           \/ h.mem[b].size - s >= HEADER_SIZE + HEAP_ALIGNMENT,
           NEW h2, h2 = TakeBlock(h, i, s)
    PROVE  Taken(G, h, T, b, s, h2)
<1>. DEFINE old == h.mem
            Free == FreeIn(old, T)
            Used == UsedIn(old, T)
            remaining == old[b].size - s
<1>1. /\ old \in [Units -> Headers] /\ h.free_list \in Seq(Units)
      /\ h.total_blocks \in Int /\ h.free_blocks \in Int /\ h.outstanding \in Int
      /\ Tiles(G, old, T) /\ Lists(h.free_list, Free)
      /\ h.free_blocks = Len(h.free_list)
      /\ h.total_blocks = Cardinality(T) /\ h.outstanding = Cardinality(Used)
  BY ExactParts
<1>2. b \in Free /\ b \in T /\ old[b].magic = "FREE" /\ b \notin Used
  <2>1. b \in Free
    BY <1>1 DEF Lists
  <2>. QED
    BY <2>1 DEF FreeIn, UsedIn
<1>3. /\ b \in Nat /\ b \in Units /\ old[b].size \in Nat
      /\ OnGrid(G, HEADER_SIZE + old[b].size)
  BY <1>1, <1>2, BlockFacts
<1>4. IsFiniteSet(T) /\ IsFiniteSet(Used)
      /\ Cardinality(Used \cup {b}) = Cardinality(Used) + 1
      /\ Cardinality(Used) \in Nat /\ Cardinality(T) \in Nat
  <2>1. Used \in SUBSET Units
    BY DEF UsedIn
  <2>. HIDE DEF Used
  <2>2. IsFiniteSet(T) /\ IsFiniteSet(Used)
    BY <2>1, BlocksFinite
  <2>. QED
    BY <2>2, <1>2, FS_AddElement, FS_CardinalityType
<1>5. remaining = 0 \/ remaining >= HEADER_SIZE + HEAP_ALIGNMENT
  OBVIOUS
<1>. DEFINE n == b + HEADER_SIZE + s
<1>6. CASE remaining >= HEADER_SIZE + HEAP_ALIGNMENT
  <2>. DEFINE new == PutHeader(PutHeader(old, n, "FREE", old[b].size - s - HEADER_SIZE),
                                b, "USED", s)
              list2 == [h.free_list EXCEPT ![i] = n]
              T2 == T \cup {n}
  <2>1. h2 = [mem |-> new, free_list |-> list2, total_blocks |-> h.total_blocks + 1,
              free_blocks |-> h.free_blocks - 0, outstanding |-> h.outstanding + 1]
    BY <1>6 DEF TakeBlock
  <2>a. /\ n = b + HEADER_SIZE + s
        /\ new = PutHeader(PutHeader(old, n, "FREE", old[b].size - s - HEADER_SIZE),
                            b, "USED", s)
        /\ old[b].size - s >= HEADER_SIZE + HEAP_ALIGNMENT /\ s >= HEAP_ALIGNMENT
    BY <1>6, Layout
  <2>. HIDE DEF old, remaining, new, n
  <2>2. /\ n \in Units /\ n \notin T
        /\ new \in [Units -> Headers] /\ Tiles(G, new, T2)
        /\ new[b].magic = "USED" /\ new[b].size = s
        /\ new[n].magic = "FREE"
        /\ \A c \in T : c # b => new[c] = old[c]
    <3>1. b \in T /\ old \in [Units -> Headers] /\ Tiles(G, old, T)
      BY <1>1, <1>2
    <3>2. Cuts(G, old, T, b, s, n, new)
      BY <2>a, <3>1 DEF Cuts
    <3>3. IsCut(G, old, T, b, s, n, new)
      BY <3>2, SplitTiles
    <3>. QED
      BY ONLY <3>3 DEF IsCut
  <2>3. FreeIn(new, T2) = (Free \ {b}) \cup {n}
    <3>1. \A c \in T2 : new[c].magic = "FREE" <=> c \in (Free \ {b}) \cup {n}
      BY <2>2, <1>2 DEF FreeIn
    <3>2. (Free \ {b}) \cup {n} \subseteq T2
      BY DEF FreeIn
    <3>. QED
      BY ONLY <3>1, <3>2 DEF FreeIn
  <2>4. UsedIn(new, T2) = Used \cup {b}
    <3>1. \A c \in T2 : new[c].magic = "USED" <=> c \in Used \cup {b}
      BY <2>2, <1>2 DEF UsedIn
    <3>2. Used \cup {b} \subseteq T2
      BY <1>2 DEF UsedIn
    <3>. QED
      BY ONLY <3>1, <3>2 DEF UsedIn
  <2>. HIDE DEF Free, Used
  <2>5. Lists(list2, FreeIn(new, T2)) /\ Len(list2) = Len(h.free_list)
    <3>1. n \notin Free
      BY <2>2 DEF Free, FreeIn
    <3>2. Lists(list2, (Free \ {h.free_list[i]}) \cup {n}) /\ Len(list2) = Len(h.free_list)
      BY <1>1, <3>1, ReplaceLists
    <3>. QED
      BY ONLY <3>2, <2>3, b = h.free_list[i]
  <2>6. Cardinality(T2) = Cardinality(T) + 1
    BY <1>4, <2>2, FS_AddElement
  <2>7. T2 \in SUBSET Units
    BY <2>2
  <2>8. list2 \in Seq(Units)
    BY <1>1, <2>2, ExceptSeq
  <2>. HIDE DEF list2, T2
  <2>9. Exact(G, h2, T2)
    <3>1. h2 \in Heaps
      BY <2>1, <2>2, <2>8, <1>1 DEF Heaps
    <3>2. /\ h2.mem = new /\ h2.free_list = list2
          /\ h2.total_blocks = h.total_blocks + 1 /\ h2.free_blocks = h.free_blocks - 0
          /\ h2.outstanding = h.outstanding + 1
      BY <2>1
    <3>3. Cardinality(UsedIn(new, T2)) = Cardinality(Used) + 1
      BY <2>4, <1>4
    <3>. QED
      BY <3>1, <3>2, <3>3, <2>2, <2>5, <2>6, <1>1 DEF Exact
  <2>10. Changed(old, T, h2.mem, T2, {b}, {}) /\ h2.mem[b].magic = "USED" /\ h2.mem[b].size = s
    <3>1. h2.mem = new
      BY <2>1
    <3>2. \A u \in Used : new[u] = old[u]
      BY <2>2, <1>2 DEF Used, UsedIn
    <3>3. UsedIn(new, T2) = (UsedIn(old, T) \cup {b}) \ {}
      BY <2>4 DEF Used
    <3>. QED
      BY <3>1, <3>2, <3>3, <2>2 DEF Changed, Used
  <2>. QED
    BY <2>7, <2>9, <2>10, <1>2 DEF old, Free, Taken
<1>7. CASE remaining = 0
  <2>. DEFINE new == PutHeader(old, b, "USED", s)
              list2 == Without(h.free_list, i)
  <2>1. h2 = [mem |-> new, free_list |-> list2, total_blocks |-> h.total_blocks + 0,
              free_blocks |-> h.free_blocks - 1, outstanding |-> h.outstanding + 1]
    <3>1. ~ (remaining >= HEADER_SIZE + HEAP_ALIGNMENT)
      BY <1>7, Layout
    <3>. QED
      BY <3>1 DEF TakeBlock
  <2>2. s = old[b].size /\ new = PutHeader(old, b, "USED", old[b].size)
    BY <1>3, <1>7
  <2>. HIDE DEF old, new
  <2>3. /\ new \in [Units -> Headers] /\ Tiles(G, new, T)
        /\ new[b].magic = "USED" /\ new[b].size = s
        /\ \A c \in T : c # b => new[c] = old[c]
    <3>1. "USED" \in {"FREE", "USED"} /\ b \in T /\ old \in [Units -> Headers] /\ Tiles(G, old, T)
      BY <1>1, <1>2
    <3>. HIDE DEF Free, Used, remaining, n, list2
    <3>2. new \in [Units -> Headers] /\ Tiles(G, new, T)
          /\ new[b].magic = "USED" /\ new[b].size = old[b].size
          /\ \A c \in T : c # b => new[c] = old[c]
      BY ONLY <2>2, <3>1, RetagTiles, G \in Nat, IsGranule(G), T \in SUBSET Units
    <3>. QED
      BY <3>2, <2>2
  <2>4. FreeIn(new, T) = Free \ {b}
    <3>1. \A c \in T : new[c].magic = "FREE" <=> c \in Free \ {b}
      BY <2>3, <1>2 DEF FreeIn
    <3>. QED
      BY <3>1 DEF FreeIn
  <2>5. UsedIn(new, T) = Used \cup {b}
    <3>1. \A c \in T : new[c].magic = "USED" <=> c \in Used \cup {b}
      BY <2>3, <1>2 DEF UsedIn
    <3>. QED
      BY <3>1, <1>2 DEF UsedIn
  <2>. HIDE DEF Free, Used
  <2>6. Lists(list2, FreeIn(new, T)) /\ Len(list2) = Len(h.free_list) - 1
    <3>1. Lists(list2, Free \ {h.free_list[i]}) /\ Len(list2) = Len(h.free_list) - 1
      BY <1>1, WithoutLists
    <3>. QED
      BY ONLY <3>1, <2>4, b = h.free_list[i]
  <2>7. list2 \in Seq(Units)
    BY <1>1, WithoutIs
  <2>. HIDE DEF list2
  <2>8. Exact(G, h2, T)
    <3>1. h2 \in Heaps
      BY <2>1, <2>3, <2>7, <1>1 DEF Heaps
    <3>2. /\ h2.mem = new /\ h2.free_list = list2
          /\ h2.total_blocks = h.total_blocks + 0 /\ h2.free_blocks = h.free_blocks - 1
          /\ h2.outstanding = h.outstanding + 1
      BY <2>1
    <3>3. Cardinality(UsedIn(new, T)) = Cardinality(Used) + 1
      BY <2>5, <1>4
    <3>. QED
      BY <3>1, <3>2, <3>3, <2>3, <2>6, <1>1 DEF Exact
  <2>9. Changed(old, T, h2.mem, T, {b}, {}) /\ h2.mem[b].magic = "USED" /\ h2.mem[b].size = s
    <3>1. h2.mem = new
      BY <2>1
    <3>2. \A u \in Used : new[u] = old[u]
      BY <2>3, <1>2 DEF Used, UsedIn
    <3>3. UsedIn(new, T) = (UsedIn(old, T) \cup {b}) \ {}
      BY <2>5 DEF Used
    <3>. QED
      BY <3>1, <3>2, <3>3, <2>3 DEF Changed, Used
  <2>. QED
    BY <2>8, <2>9, <1>2 DEF old, Free, Taken
<1>. QED
  BY <1>5, <1>6, <1>7
\* A nonempty set of naturals has a least element.
LEMMA LeastNat ==
    ASSUME NEW S \in SUBSET Nat, S # {}
    PROVE  \E s \in S : \A t \in S : s <= t
<1>. DEFINE R == OpToRel(<, Nat)
<1>1. IsWellFoundedOn(R, Nat)
  BY NatLessThanWellFounded
<1>2. \A x, y \in Nat : y < x => <<y, x>> \in R
  BY DEF OpToRel
<1>. HIDE DEF R
<1>3. \E x \in S : \A y \in S : ~ (<<y, x>> \in R)
  BY <1>1, WFMin
<1>4. \E x \in S : \A y \in S : ~ (y < x)
  BY <1>2, <1>3, Zenon
<1>. QED
  BY <1>4

\* Rounding up adds less than a unit, also when it wraps.
LEMMA AlignUpBound ==
    ASSUME NEW size \in 0 .. (SizeSpace - 1)
    PROVE  ALIGN_UP(size) \in Nat /\ ALIGN_UP(size) < size + HEAP_ALIGNMENT
<1>. DEFINE x == size + HEAP_ALIGNMENT - 1
            y == x % SizeSpace
<1>1. SizeSpace \in Nat /\ SizeSpace > 0 /\ size \in Nat
  BY HeapAssumption
<1>2. x \in Nat
  BY <1>1, Layout
<1>3. ASSUME NEW a \in Nat, NEW p \in Nat, p > 0
      PROVE  a % p \in Nat /\ a % p <= a
  <2>1. a % p \in Nat
    BY <1>3
  <2>2. a \div p \in Nat
    BY <1>3
  <2>3. a = p * (a \div p) + (a % p)
    BY <1>3
  <2>4. ASSUME NEW q \in Nat PROVE p * q \in Nat
    OBVIOUS
  <2>. QED
    BY <2>1, <2>2, <2>3, <2>4
<1>4. y \in Nat /\ y <= x
  BY <1>1, <1>2, <1>3
<1>5. ALIGN_UP(size) = y - (y % HEAP_ALIGNMENT)
  BY DEF ALIGN_UP
<1>6. x < size + HEAP_ALIGNMENT
  BY <1>1, Layout
<1>. HIDE DEF x, y
<1>7. y % HEAP_ALIGNMENT \in Nat /\ y % HEAP_ALIGNMENT <= y
  BY <1>3, <1>4, Layout
<1>. QED
  BY <1>1, <1>2, <1>4, <1>5, <1>6, <1>7, Layout

\* heap_alloc returns a block that was free and is large enough, or NULL when
\* there is none, and never panics.
Allocated(G, h, T, size, r) ==
    /\ r.panic = FALSE
    /\ \/ /\ r.ptr = NULL /\ r.heap = h
          /\ size # 0 => \A b \in FreeIn(h.mem, T) : h.mem[b].size < size
       \/ \E b \in FreeIn(h.mem, T), T2 \in SUBSET Units :
            /\ r.ptr = b + HEADER_SIZE /\ size # 0
            /\ Exact(G, r.heap, T2)
            /\ Changed(h.mem, T, r.heap.mem, T2, {b}, {})
            /\ r.heap.mem[b].magic = "USED" /\ size <= r.heap.mem[b].size

\* The multiple of the unit that a request is rounded to.
LEMMA AlignUpOnGrid ==
    ASSUME NEW size \in 0 .. (SizeSpace - 1)
    PROVE  OnGrid(HEAP_ALIGNMENT, ALIGN_UP(size))
<1>. DEFINE y == (size + HEAP_ALIGNMENT - 1) % SizeSpace
            p == HEAP_ALIGNMENT
<1>1. SizeSpace \in Nat /\ SizeSpace > 0 /\ p \in Nat /\ p > 0
  BY HeapAssumption
<1>2. y \in Nat
  BY <1>1
<1>3. ALIGN_UP(size) = y - (y % p)
  BY DEF ALIGN_UP
<1>. HIDE DEF y, p
<1>4. y \div p \in Nat /\ y = p * (y \div p) + (y % p) /\ y % p \in Nat
  <2>1. y \div p \in Nat
    BY <1>1, <1>2
  <2>2. y % p \in Nat
    BY <1>1, <1>2
  <2>3. y = p * (y \div p) + (y % p)
    BY <1>1, <1>2
  <2>. QED
    BY <2>1, <2>2, <2>3
<1>. DEFINE q == y \div p
            m == y % p
<1>5. q \in Nat /\ m \in Nat /\ y = p * q + m /\ ALIGN_UP(size) = y - m
  BY <1>3, <1>4
<1>. HIDE DEF q, m
<1>6. p * q \in Nat
  <2>1. ASSUME NEW a \in Nat, NEW b \in Nat PROVE a * b \in Nat
    OBVIOUS
  <2>. QED
    BY <2>1, <1>1, <1>5
<1>7. ALIGN_UP(size) = p * q
  BY <1>5, <1>6
<1>. QED
  BY <1>5, <1>7 DEF OnGrid, p

\* heap_alloc refuses a request: no free block has its size.
Refuses(h, T, size, r) ==
    /\ r.panic = FALSE /\ r.ptr = NULL /\ r.heap = h
    /\ size # 0 => \A b \in FreeIn(h.mem, T) : h.mem[b].size < size

\* heap_alloc serves a request from the i-th block of the free list.
Chooses(h, T, size, i, r) ==
    /\ i \in DOMAIN h.free_list /\ h.free_list[i] \in FreeIn(h.mem, T)
    /\ size # 0 /\ ALIGN_UP(size) <= UInt32Max
    /\ ALIGN_UP(size) <= h.mem[h.free_list[i]].size
    /\ r.panic = FALSE /\ r.ptr = h.free_list[i] + HEADER_SIZE
    /\ r.heap = TakeBlock(h, i, ALIGN_UP(size))

\* What heap_alloc decides on an exact heap; it never panics.
LEMMA AllocChoice ==
    ASSUME NEW G \in Nat, IsGranule(G), NEW h, NEW T \in SUBSET Units, Exact(G, h, T),
           NEW size \in 0 .. (SizeSpace - 1), NEW r, r = heap_alloc(h, size)
    PROVE  Refuses(h, T, size, r) \/ \E i : Chooses(h, T, size, i, r)
<1>. DEFINE aligned == ALIGN_UP(size)
            list == h.free_list
            BadMagic(i) == h.mem[list[i]].magic # "FREE"
            Fits(i) == h.mem[list[i]].size >= aligned
            stops == {i \in DOMAIN list : BadMagic(i) \/ Fits(i)}
            first == CHOOSE i \in stops : \A j \in stops : i <= j
<1>1. size \in Nat /\ aligned \in Nat /\ aligned < size + HEAP_ALIGNMENT
      /\ OnGrid(HEAP_ALIGNMENT, aligned)
  BY AlignUpBound, AlignUpOnGrid
<1>3. /\ h.mem \in [Units -> Headers] /\ Tiles(G, h.mem, T)
      /\ Lists(list, FreeIn(h.mem, T)) /\ list \in Seq(Units)
  BY ExactParts
<1>4. \A b \in FreeIn(h.mem, T) :
        /\ h.mem[b].magic = "FREE" /\ h.mem[b].size \in Nat
        /\ OnGrid(HEAP_ALIGNMENT, h.mem[b].size)
        /\ h.mem[b].size + HEADER_SIZE <= HeapBytes
  <2>. SUFFICES ASSUME NEW b \in FreeIn(h.mem, T)
                PROVE  /\ h.mem[b].magic = "FREE" /\ h.mem[b].size \in Nat
                       /\ OnGrid(HEAP_ALIGNMENT, h.mem[b].size)
                       /\ h.mem[b].size + HEADER_SIZE <= HeapBytes
    OBVIOUS
  <2>1. b \in T /\ b \in Units /\ h.mem[b].magic = "FREE"
    BY DEF FreeIn
  <2>2. /\ b \in Nat /\ h.mem[b].size \in Nat
        /\ OnGrid(HEAP_ALIGNMENT, h.mem[b].size)
        /\ next_block(h.mem, b) = b + HEADER_SIZE + h.mem[b].size
        /\ next_block(h.mem, b) <= HeapBytes
    BY <1>3, <2>1, BlockFacts, HeaderFacts
  <2>. QED
    BY <2>1, <2>2, Layout
<1>5. \A i \in DOMAIN list : list[i] \in FreeIn(h.mem, T) /\ ~BadMagic(i)
  BY <1>3, <1>4 DEF Lists
<1>6. CASE size = 0 \/ aligned > UInt32Max
  <2>1. r = Result(h, NULL, FALSE)
    BY <1>6 DEF heap_alloc
  <2>2. ASSUME size # 0, NEW b \in FreeIn(h.mem, T) PROVE h.mem[b].size < size
    BY <1>1, <1>4, <1>6, <2>2, Layout
  <2>3. r.panic = FALSE /\ r.ptr = NULL /\ r.heap = h
    BY <2>1 DEF Result
  <2>. QED
    BY <2>2, <2>3 DEF Refuses
<1>7. CASE size # 0 /\ ~ (aligned > UInt32Max) /\ stops = {}
  <2>1. r = Result(h, NULL, FALSE)
    BY <1>7 DEF heap_alloc
  <2>2. ASSUME NEW b \in FreeIn(h.mem, T) PROVE h.mem[b].size < size
    <3>1. PICK i \in DOMAIN list : list[i] = b
      BY <1>3 DEF Lists
    <3>2. ~ (h.mem[b].size >= aligned)
      BY <1>7, <3>1
    <3>. DEFINE f == h.mem[b].size
    <3>3. f \in Nat /\ f < aligned /\ f <= aligned /\ OnGrid(HEAP_ALIGNMENT, f)
      BY <3>2, <1>1, <1>4
    <3>. HIDE DEF f, aligned
    <3>4. OnGrid(HEAP_ALIGNMENT, aligned - f)
      BY <3>3, <1>1, GridSum, Layout
    <3>5. aligned - f >= HEAP_ALIGNMENT
      BY <3>3, <3>4, <1>1, GridGap, Layout
    <3>. QED
      BY <3>3, <3>5, <1>1, Layout DEF f
  <2>3. r.panic = FALSE /\ r.ptr = NULL /\ r.heap = h
    BY <2>1 DEF Result
  <2>. QED
    BY <2>2, <2>3 DEF Refuses
<1>8. CASE size # 0 /\ ~ (aligned > UInt32Max) /\ stops # {}
  <2>1. first \in stops
    <3>1. stops \in SUBSET Nat /\ stops # {}
      BY <1>3, <1>8
    <3>. HIDE DEF stops
    <3>2. \E i \in stops : \A j \in stops : i <= j
      BY <3>1, LeastNat
    <3>. QED
      BY <3>2
  <2>2. first \in DOMAIN list /\ Fits(first) /\ ~BadMagic(first)
    BY <2>1, <1>5
  <2>3. r = Result(TakeBlock(h, first, aligned), list[first] + HEADER_SIZE, FALSE)
    BY <1>8, <2>2 DEF heap_alloc
  <2>4. list[first] \in FreeIn(h.mem, T)
    BY <2>2, <1>5
  <2>5. aligned <= UInt32Max /\ aligned <= h.mem[list[first]].size
    <3>1. h.mem[list[first]].size \in Nat /\ h.mem[list[first]].size >= aligned
      BY <2>2, <2>4, <1>4
    <3>2. ~ (aligned > UInt32Max)
      BY <1>8
    <3>. HIDE DEF first, list, aligned
    <3>. QED
      BY <3>1, <3>2, <1>1, Layout
  <2>. HIDE DEF first
  <2>6. /\ r.panic = FALSE /\ r.ptr = list[first] + HEADER_SIZE
        /\ r.heap = TakeBlock(h, first, aligned)
    BY <2>3 DEF Result
  <2>7. Chooses(h, T, size, first, r)
    BY <2>2, <2>4, <2>5, <2>6, <1>8 DEF Chooses
  <2>. QED
    BY <2>7
<1>. QED
  BY <1>6, <1>7, <1>8

\* What heap_alloc does to an exact heap.
LEMMA AllocEffect ==
    ASSUME NEW G \in Nat, IsGranule(G), NEW h, NEW T \in SUBSET Units, Exact(G, h, T),
           NEW size \in 0 .. (SizeSpace - 1), Sound(G, h, size)
    PROVE  Allocated(G, h, T, size, heap_alloc(h, size))
<1>. DEFINE r == heap_alloc(h, size)
            aligned == ALIGN_UP(size)
<1>1. Refuses(h, T, size, r) \/ \E i : Chooses(h, T, size, i, r)
  BY AllocChoice
<1>2. size \in Nat /\ aligned \in Nat /\ OnGrid(HEAP_ALIGNMENT, aligned)
  BY AlignUpBound, AlignUpOnGrid
<1>3. CASE Refuses(h, T, size, r)
  BY <1>3 DEF Refuses, Allocated
<1>4. ASSUME NEW i, Chooses(h, T, size, i, r) PROVE Allocated(G, h, T, size, r)
  <2>. DEFINE b == h.free_list[i]
              h2 == TakeBlock(h, i, aligned)
  <2>1. /\ i \in DOMAIN h.free_list /\ b \in FreeIn(h.mem, T)
        /\ size # 0 /\ aligned <= h.mem[b].size
        /\ r.panic = FALSE /\ r.ptr = b + HEADER_SIZE /\ r.heap = h2
    BY <1>4 DEF Chooses
  <2>2. b \in Nat
    BY <2>1, Layout DEF FreeIn
  <2>3. r.ptr # NULL /\ r.ptr - HEADER_SIZE = b
    <3>. HIDE DEF r, b
    <3>. QED
      BY <2>1, <2>2, Layout DEF NULL
  <2>4. /\ size <= aligned /\ OnGrid(G, aligned + HEADER_SIZE)
        /\ \/ h.mem[b].size - aligned = 0
           \/ h.mem[b].size - aligned >= HEADER_SIZE + HEAP_ALIGNMENT
    BY <2>3 DEF Sound, Clean
  <2>5. HEAP_ALIGNMENT <= aligned
    BY <2>1, <2>4, <1>2, GridGap, Layout
  <2>6. h2 = TakeBlock(h, i, aligned) /\ b = h.free_list[i]
    OBVIOUS
  <2>. HIDE DEF b, h2, aligned, r
  <2>7. Taken(G, h, T, b, aligned, h2)
    BY <2>1, <2>4, <2>5, <2>6, <1>2, TakeEffect
  <2>8. PICK T2 \in SUBSET Units :
          /\ Exact(G, h2, T2)
          /\ Changed(h.mem, T, h2.mem, T2, {b}, {})
          /\ h2.mem[b].magic = "USED" /\ h2.mem[b].size = aligned
    BY <2>7 DEF Taken
  <2>9. size <= h2.mem[b].size
    BY <2>4, <2>8
  <2>. QED
    BY ONLY <2>1, <2>8, <2>9 DEF Allocated
<1>. QED
  BY <1>1, <1>3, <1>4
\* A heap whose memory and lists changed, field by field.
LEMMA ExactFrom ==
    ASSUME NEW G, NEW h, NEW T, NEW new, NEW list, NEW T2, NEW n, NEW m, NEW k,
           h = [mem |-> new, free_list |-> list, total_blocks |-> n,
                free_blocks |-> m, outstanding |-> k],
           new \in [Units -> Headers], list \in Seq(Units), Tiles(G, new, T2),
           n \in Int, m \in Int, k \in Int,
           Lists(list, FreeIn(new, T2)), m = Len(list), n = Cardinality(T2),
           k = Cardinality(UsedIn(new, T2))
    PROVE  Exact(G, h, T2)
<1>1. h \in Heaps
  BY DEF Heaps
<1>2. /\ h.mem = new /\ h.free_list = list /\ h.total_blocks = n
      /\ h.free_blocks = m /\ h.outstanding = k
  OBVIOUS
<1>. QED
  BY <1>1, <1>2 DEF Exact

\* A listing of units is a sequence of units.
LEMMA ListedUnits ==
    ASSUME NEW list, NEW S \in SUBSET Units, Lists(list, S)
    PROVE  list \in Seq(Units)
  BY SeqMonotonic DEF Lists

\* heap_free marks the block free and links it at the head of the list.
Freed(G, h, T, b, h2) ==
    \E T2 \in SUBSET Units :
      /\ Exact(G, h2, T2)
      /\ Changed(h.mem, T, h2.mem, T2, {}, {b})

\* What Release does to an exact heap: the blocks stay where they are.
LEMMA ReleaseEffect ==
    ASSUME NEW G \in Nat, IsGranule(G), NEW h, NEW T \in SUBSET Units, Exact(G, h, T),
           NEW b \in UsedIn(h.mem, T), NEW h2, h2 = Release(h, b)
    PROVE  /\ Exact(G, h2, T)
           /\ Changed(h.mem, T, h2.mem, T, {}, {b})
           /\ b \in FreeIn(h2.mem, T)
<1>. DEFINE old == h.mem
            new == PutHeader(h.mem, b, "FREE", h.mem[b].size)
            list2 == <<b>> \o h.free_list
            Free == FreeIn(old, T)
            Used == UsedIn(old, T)
<1>1. /\ old \in [Units -> Headers] /\ h.free_list \in Seq(Units)
      /\ h.total_blocks \in Int /\ h.free_blocks \in Int /\ h.outstanding \in Int
      /\ Tiles(G, old, T) /\ Lists(h.free_list, Free)
      /\ h.free_blocks = Len(h.free_list)
      /\ h.total_blocks = Cardinality(T) /\ h.outstanding = Cardinality(Used)
  BY ExactParts
<1>2. h2 = [mem |-> new, free_list |-> list2, total_blocks |-> h.total_blocks,
            free_blocks |-> h.free_blocks + 1, outstanding |-> h.outstanding - 1]
  <2>1. h \in Heaps
    BY DEF Exact
  <2>. QED
    BY <2>1 DEF Release, Heaps
<1>3. b \in T /\ old[b].magic = "USED" /\ b \in Used /\ b \notin Free
  BY DEF FreeIn, UsedIn
<1>4. new = PutHeader(old, b, "FREE", old[b].size)
  OBVIOUS
<1>. HIDE DEF old, new
<1>5. /\ new \in [Units -> Headers] /\ Tiles(G, new, T)
      /\ new[b].magic = "FREE"
      /\ \A c \in T : c # b => new[c] = old[c]
  <2>1. "FREE" \in {"FREE", "USED"}
    OBVIOUS
  <2>. QED
    BY ONLY <2>1, <1>1, <1>3, <1>4, RetagTiles, G \in Nat, IsGranule(G), T \in SUBSET Units
<1>6. FreeIn(new, T) = Free \cup {b}
  <2>1. \A c \in T : new[c].magic = "FREE" <=> c \in Free \cup {b}
    BY <1>3, <1>5 DEF FreeIn
  <2>. QED
    BY <2>1, <1>3 DEF FreeIn
<1>7. UsedIn(new, T) = Used \ {b}
  <2>1. \A c \in T : new[c].magic = "USED" <=> c \in Used \ {b}
    BY <1>3, <1>5 DEF UsedIn
  <2>. QED
    BY <2>1 DEF UsedIn
<1>8. /\ IsFiniteSet(T) /\ IsFiniteSet(Used) /\ Cardinality(Used) \in Nat
      /\ Cardinality(Used \ {b}) = Cardinality(Used) - 1
  <2>1. Used \in SUBSET Units
    BY DEF UsedIn
  <2>. HIDE DEF Used
  <2>2. IsFiniteSet(T) /\ IsFiniteSet(Used)
    BY <2>1, BlocksFinite
  <2>. QED
    BY <2>2, <1>3, FS_RemoveElement, FS_CardinalityType
<1>. HIDE DEF Free, Used
<1>9. Lists(list2, FreeIn(new, T)) /\ Len(list2) = Len(h.free_list) + 1
  BY <1>1, <1>3, <1>6, PushLists
<1>10. list2 \in Seq(Units)
  <2>1. FreeIn(new, T) \in SUBSET Units
    BY DEF FreeIn
  <2>. QED
    BY <2>1, <1>9, ListedUnits
<1>. HIDE DEF list2
<1>11. Exact(G, h2, T)
  <2>. DEFINE fb == h.free_blocks + 1
              out == h.outstanding - 1
  <2>1. fb \in Int /\ out \in Int /\ fb = Len(list2) /\ out = Cardinality(UsedIn(new, T))
    BY <1>1, <1>7, <1>8, <1>9
  <2>2. h2 = [mem |-> new, free_list |-> list2, total_blocks |-> h.total_blocks,
              free_blocks |-> fb, outstanding |-> out]
    BY <1>2
  <2>. HIDE DEF fb, out
  <2>. QED
    BY <2>1, <2>2, <1>1, <1>5, <1>9, <1>10, ExactFrom
<1>12. h2.mem = new
  BY <1>2
<1>13. Changed(old, T, new, T, {}, {b})
  <2>1. \A u \in Used \ {b} : new[u] = old[u]
    BY <1>5 DEF Used, UsedIn
  <2>. QED
    BY <2>1, <1>7 DEF Changed, Used
<1>14. b \in FreeIn(new, T)
  BY <1>6
<1>. QED
  BY <1>11, <1>12, <1>13, <1>14 DEF old

\* What Coalesce does to an exact heap: the used blocks stay as they are.
Merged(G, h, T, h2) ==
    \E T2 \in SUBSET Units :
      /\ Exact(G, h2, T2)
      /\ Changed(h.mem, T, h2.mem, T2, {}, {})

\* Whether or not the free block b absorbs the block after it, the heap
\* stays exact.
LEMMA CoalesceEffect ==
    ASSUME NEW G \in Nat, IsGranule(G), NEW h, NEW T \in SUBSET Units, Exact(G, h, T),
           NEW b \in FreeIn(h.mem, T), NEW h2, h2 = Coalesce(h, b)
    PROVE  Merged(G, h, T, h2)
<1>. DEFINE old == h.mem
            n == next_block(old, b)
            Free == FreeIn(old, T)
            Used == UsedIn(old, T)
<1>1. /\ old \in [Units -> Headers] /\ h.free_list \in Seq(Units)
      /\ h.total_blocks \in Int /\ h.free_blocks \in Int /\ h.outstanding \in Int
      /\ Tiles(G, old, T) /\ Lists(h.free_list, Free)
      /\ h.free_blocks = Len(h.free_list)
      /\ h.total_blocks = Cardinality(T) /\ h.outstanding = Cardinality(Used)
  BY ExactParts
<1>2. b \in T /\ old[b].magic = "FREE" /\ b \in Units
  BY DEF FreeIn
<1>3. CASE ~ (n < HeapBytes /\ old[n].magic = "FREE")
  <2>1. h2 = h
    BY <1>3 DEF Coalesce
  <2>2. Changed(h.mem, T, h.mem, T, {}, {})
    BY DEF Changed
  <2>. QED
    BY <2>1, <2>2 DEF Merged
<1>4. CASE n < HeapBytes /\ old[n].magic = "FREE"
  <2>. DEFINE new == [h.mem EXCEPT ![b].size = @ + HEADER_SIZE + h.mem[n].size]
              list2 == RemoveBlock(h.free_list, n)
              T2 == T \ {n}
  <2>1. h2 = [mem |-> new, free_list |-> list2, total_blocks |-> h.total_blocks - 1,
              free_blocks |-> h.free_blocks - 1, outstanding |-> h.outstanding]
    <3>1. h \in Heaps
      BY DEF Exact
    <3>2. h2 = [h EXCEPT !.mem = new, !.free_list = list2,
                         !.free_blocks = h.free_blocks - 1,
                         !.total_blocks = h.total_blocks - 1]
      BY <3>1, <1>4 DEF Coalesce, Heaps
    <3>. HIDE DEF new, list2
    <3>. QED
      BY <3>1, <3>2 DEF Heaps
  <2>2. n \in T /\ n \in Free
    <3>1. n \in T \cup {HeapBytes}
      BY <1>1, <1>2 DEF Tiles
    <3>. QED
      BY <3>1, <1>4, Layout DEF FreeIn
  <2>3. n = next_block(old, b) /\ old[n].magic = "FREE"
        /\ new = [old EXCEPT ![b].size = @ + HEADER_SIZE + old[n].size]
    BY <1>4
  <2>. HIDE DEF old, new, n
  <2>4. /\ n # b
        /\ new \in [Units -> Headers] /\ Tiles(G, new, T2)
        /\ new[b].magic = old[b].magic
        /\ \A c \in T : c # b => new[c] = old[c]
    <3>1. IsJoin(G, old, T, b, n, new)
      BY ONLY <2>2, <2>3, <1>1, <1>2, MergeTiles, G \in Nat, IsGranule(G),
              T \in SUBSET Units
    <3>. QED
      BY ONLY <3>1 DEF IsJoin
  <2>5. FreeIn(new, T2) = Free \ {n}
    <3>1. \A c \in T2 : new[c].magic = "FREE" <=> c \in Free \ {n}
      BY <2>4, <1>2 DEF FreeIn
    <3>2. Free \ {n} \subseteq T2
      BY DEF FreeIn
    <3>. QED
      BY ONLY <3>1, <3>2 DEF FreeIn
  <2>6. UsedIn(new, T2) = Used
    <3>1. \A c \in T2 : new[c].magic = "USED" <=> c \in Used
      BY <2>4, <1>2 DEF UsedIn
    <3>2. Used \subseteq T2
      BY <2>3 DEF UsedIn
    <3>. QED
      BY ONLY <3>1, <3>2 DEF UsedIn
  <2>. HIDE DEF Free, Used
  <2>7. Lists(list2, Free \ {n}) /\ Len(list2) = Len(h.free_list) - 1
    BY <2>2, <1>1, RemoveLists
  <2>8. list2 \in Seq(Units)
    <3>1. Free \ {n} \in SUBSET Units
      BY DEF Free, FreeIn
    <3>. QED
      BY <3>1, <2>7, ListedUnits
  <2>9. Cardinality(T2) = Cardinality(T) - 1 /\ Cardinality(T) \in Nat
    BY <2>2, BlocksFinite, FS_RemoveElement, FS_CardinalityType
  <2>10. T2 \in SUBSET Units
    OBVIOUS
  <2>. HIDE DEF list2, T2
  <2>11. Exact(G, h2, T2)
    <3>. DEFINE tb == h.total_blocks - 1
                fb == h.free_blocks - 1
    <3>1. tb \in Int /\ fb \in Int /\ tb = Cardinality(T2) /\ fb = Len(list2)
      BY <1>1, <2>7, <2>9
    <3>2. h2 = [mem |-> new, free_list |-> list2, total_blocks |-> tb,
                free_blocks |-> fb, outstanding |-> h.outstanding]
      BY <2>1
    <3>3. h.outstanding = Cardinality(UsedIn(new, T2)) /\ Lists(list2, FreeIn(new, T2))
      BY <1>1, <2>5, <2>6, <2>7
    <3>. HIDE DEF tb, fb
    <3>. QED
      BY <3>1, <3>2, <3>3, <1>1, <2>4, <2>8, ExactFrom
  <2>12. Changed(old, T, h2.mem, T2, {}, {})
    <3>1. h2.mem = new
      BY <2>1
    <3>2. \A u \in Used : new[u] = old[u]
      BY <2>4, <1>2 DEF Used, UsedIn
    <3>. QED
      BY <3>1, <3>2, <2>6 DEF Changed, Used
  <2>. QED
    BY <2>10, <2>11, <2>12 DEF Merged, old
<1>. QED
  BY <1>3, <1>4

\* What heap_free does to an exact heap when the pointer is a used block's.
LEMMA FreeEffect ==
    ASSUME NEW G \in Nat, IsGranule(G), NEW h, NEW T \in SUBSET Units, Exact(G, h, T),
           NEW b \in UsedIn(h.mem, T), NEW ptr, ptr = b + HEADER_SIZE
    PROVE  /\ heap_free(h, ptr).panic = FALSE
           /\ Freed(G, h, T, b, heap_free(h, ptr).heap)
<1>. DEFINE h1 == Release(h, b)
            h2 == Coalesce(h1, b)
<1>1. b \in T /\ h.mem[b].magic = "USED"
  BY DEF UsedIn
<1>2. h.mem \in [Units -> Headers] /\ Tiles(G, h.mem, T)
  BY ExactParts
<1>3. b \in Nat /\ b + HEADER_SIZE \in Units
  BY <1>1, <1>2, BlockFacts
<1>4. ptr # NULL /\ ~ (ptr >= HeapBytes) /\ ptr - HEADER_SIZE = b
  BY <1>3, Layout DEF NULL
<1>5. heap_free(h, ptr) = Result(h2, NULL, FALSE)
  BY <1>1, <1>4 DEF heap_free
<1>6. heap_free(h, ptr).panic = FALSE /\ heap_free(h, ptr).heap = h2
  BY <1>5 DEF Result
<1>7. h1 = Release(h, b) /\ h2 = Coalesce(h1, b)
  OBVIOUS
<1>. HIDE DEF h1, h2
<1>8. /\ Exact(G, h1, T) /\ Changed(h.mem, T, h1.mem, T, {}, {b})
      /\ b \in FreeIn(h1.mem, T)
  BY <1>7, ReleaseEffect
<1>9. Merged(G, h1, T, h2)
  BY <1>7, <1>8, CoalesceEffect
<1>10. PICK T2 \in SUBSET Units :
         Exact(G, h2, T2) /\ Changed(h1.mem, T, h2.mem, T2, {}, {})
  BY <1>9 DEF Merged
<1>11. Changed(h.mem, T, h2.mem, T2, {}, {b})
  BY <1>8, <1>10 DEF Changed
<1>12. Freed(G, h, T, b, h2)
  BY <1>10, <1>11 DEF Freed
<1>. QED
  BY <1>6, <1>12
\* What a write into the payload of a used block does to an exact heap.
Kept(G, h, T, new, h2) ==
    /\ Exact(G, h2, T) /\ h2.mem = new
    /\ UsedIn(new, T) = UsedIn(h.mem, T)
    /\ \A c \in T : new[c] = h.mem[c]

\* The zeroing of kcalloc, the copy of krealloc and the clients' own writes
\* reach no header of a block.
LEMMA WriteEffect ==
    ASSUME NEW G \in Nat, IsGranule(G), NEW h, NEW T \in SUBSET Units, Exact(G, h, T),
           NEW b \in UsedIn(h.mem, T), NEW new \in [Units -> Headers],
           \A a \in Units : \/ new[a] = h.mem[a]
                            \/ /\ b + HEADER_SIZE <= a /\ a < next_block(h.mem, b)
                               /\ new[a].magic # "USED",
           NEW h2, h2 = [h EXCEPT !.mem = new]
    PROVE  Kept(G, h, T, new, h2)
<1>1. /\ h.mem \in [Units -> Headers] /\ h.free_list \in Seq(Units)
      /\ h.total_blocks \in Int /\ h.free_blocks \in Int /\ h.outstanding \in Int
      /\ Tiles(G, h.mem, T) /\ Lists(h.free_list, FreeIn(h.mem, T))
      /\ h.free_blocks = Len(h.free_list)
      /\ h.total_blocks = Cardinality(T) /\ h.outstanding = Cardinality(UsedIn(h.mem, T))
  BY ExactParts
<1>2. b \in T
  BY DEF UsedIn
<1>3. Tiles(G, new, T) /\ \A c \in T : new[c] = h.mem[c]
  BY <1>1, <1>2, PayloadTiles
<1>4. FreeIn(new, T) = FreeIn(h.mem, T) /\ UsedIn(new, T) = UsedIn(h.mem, T)
  BY <1>3 DEF FreeIn, UsedIn
<1>5. h2 = [mem |-> new, free_list |-> h.free_list, total_blocks |-> h.total_blocks,
            free_blocks |-> h.free_blocks, outstanding |-> h.outstanding]
  BY DEF Exact, Heaps
<1>6. Exact(G, h2, T)
  BY <1>1, <1>3, <1>4, <1>5, ExactFrom
<1>7. h2.mem = new
  BY <1>5
<1>. QED
  BY <1>3, <1>4, <1>6, <1>7 DEF Kept

\* The clients' writes and kcalloc's zeroing.
LEMMA WrittenEffect ==
    ASSUME NEW G \in Nat, IsGranule(G), NEW h, NEW T \in SUBSET Units, Exact(G, h, T),
           NEW b \in UsedIn(h.mem, T), NEW bytes \in Nat, bytes <= h.mem[b].size,
           NEW ptr, ptr = b + HEADER_SIZE,
           NEW new, new = Written(h.mem, ptr, bytes),
           NEW h2, h2 = [h EXCEPT !.mem = new]
    PROVE  Kept(G, h, T, new, h2)
<1>1. h.mem \in [Units -> Headers] /\ Tiles(G, h.mem, T) /\ b \in T
  BY ExactParts DEF UsedIn
<1>2. /\ b \in Nat /\ h.mem[b].size \in Nat
      /\ next_block(h.mem, b) = b + HEADER_SIZE + h.mem[b].size
  BY <1>1, BlockFacts
<1>3. Data \in Headers /\ Data.magic # "USED"
  <2>1. 0 = HEAP_ALIGNMENT * 0
    BY Layout
  <2>2. OnGrid(HEAP_ALIGNMENT, 0)
    BY <2>1 DEF OnGrid
  <2>. QED
    BY <2>2 DEF Headers, Data
<1>4. \A a \in Units : new[a] = IF ptr <= a /\ a < ptr + bytes THEN Data ELSE h.mem[a]
  BY DEF Written
<1>5. new \in [Units -> Headers]
  BY <1>1, <1>3 DEF Written
<1>6. ASSUME NEW a \in Units, new[a] # h.mem[a]
      PROVE  b + HEADER_SIZE <= a /\ a < next_block(h.mem, b) /\ new[a].magic # "USED"
  <2>1. ptr <= a /\ a < ptr + bytes /\ new[a] = Data
    BY <1>4, <1>6
  <2>2. a \in Nat
    BY Layout
  <2>. QED
    BY <2>1, <2>2, <1>2, <1>3, Layout
<1>. QED
  BY <1>5, <1>6, WriteEffect

\* krealloc's copy: what it moves is payload, so no used header is among it.
LEMMA CopiedEffect ==
    ASSUME NEW G \in Nat, IsGranule(G), NEW h, NEW T \in SUBSET Units, Exact(G, h, T),
           NEW a \in UsedIn(h.mem, T), NEW b \in UsedIn(h.mem, T),
           NEW bytes \in Nat, bytes <= h.mem[a].size, bytes <= h.mem[b].size,
           NEW from, from = a + HEADER_SIZE, NEW to, to = b + HEADER_SIZE,
           NEW new, new = Copied(h.mem, from, to, bytes),
           NEW h2, h2 = [h EXCEPT !.mem = new]
    PROVE  Kept(G, h, T, new, h2)
<1>1. h.mem \in [Units -> Headers] /\ Tiles(G, h.mem, T) /\ a \in T /\ b \in T
  BY ExactParts DEF UsedIn
<1>2. /\ b \in Nat /\ h.mem[b].size \in Nat /\ b + HEADER_SIZE \in Units
      /\ next_block(h.mem, b) = b + HEADER_SIZE + h.mem[b].size
  BY <1>1, BlockFacts
<1>3. /\ a \in Nat /\ h.mem[a].size \in Nat /\ a + HEADER_SIZE \in Units
      /\ next_block(h.mem, a) = a + HEADER_SIZE + h.mem[a].size
      /\ next_block(h.mem, a) <= HeapBytes
  BY <1>1, BlockFacts
<1>4. ASSUME NEW x \in Units, to <= x, x < to + bytes
      PROVE  /\ from + x - to \in Units /\ h.mem[from + x - to].magic # "USED"
             /\ h.mem[from + x - to] \in Headers
  <2>. DEFINE d == x - to
              y == from + x - to
  <2>1. /\ x \in Nat /\ OnGrid(HEAP_ALIGNMENT, x) /\ to \in Nat
        /\ OnGrid(HEAP_ALIGNMENT, to) /\ from \in Nat /\ OnGrid(HEAP_ALIGNMENT, from)
    BY <1>2, <1>3, Layout
  <2>2. OnGrid(HEAP_ALIGNMENT, d) /\ d \in Nat
    BY <2>1, <1>4, GridSum, Layout
  <2>3. y = from + d /\ d < bytes
    BY <2>1, <1>4
  <2>4. y \in Nat /\ a < y /\ y < next_block(h.mem, a)
    BY <2>1, <2>2, <2>3, <1>3, Layout
  <2>5. OnGrid(HEAP_ALIGNMENT, from + d)
    BY <2>1, <2>2, GridSum, Layout
  <2>. HIDE DEF d
  <2>6. y \in Units
    <3>1. y < HeapBytes
      BY <2>4, <1>3, Layout
    <3>2. OnGrid(HEAP_ALIGNMENT, y)
      BY <2>3, <2>5
    <3>. QED
      BY <3>1, <3>2, <2>4, Layout
  <2>. HIDE DEF y
  <2>7. y \notin T
    <3>1. y \in T => next_block(h.mem, a) <= y
      BY <1>1, <2>4 DEF Tiles
    <3>. QED
      BY <3>1, <2>4, <1>3, Layout
  <2>8. h.mem[y].magic # "USED" /\ h.mem[y] \in Headers
    BY <1>1, <2>6, <2>7 DEF Tiles
  <2>. QED
    BY <2>6, <2>8 DEF y
<1>5. \A x \in Units : new[x] = IF to <= x /\ x < to + bytes
                                THEN h.mem[from + x - to] ELSE h.mem[x]
  BY DEF Copied
<1>6. new \in [Units -> Headers]
  <2>1. \A x \in Units : new[x] \in Headers
    BY <1>1, <1>4, <1>5
  <2>2. new = [x \in Units |-> new[x]]
    BY DEF Copied
  <2>. QED
    BY <2>1, <2>2
<1>7. ASSUME NEW x \in Units, new[x] # h.mem[x]
      PROVE  b + HEADER_SIZE <= x /\ x < next_block(h.mem, b) /\ new[x].magic # "USED"
  <2>1. to <= x /\ x < to + bytes /\ new[x] = h.mem[from + x - to]
    BY <1>5, <1>7
  <2>2. x \in Nat
    BY Layout
  <2>3. new[x].magic # "USED"
    BY <2>1, <1>4
  <2>. QED
    BY <2>1, <2>2, <2>3, <1>2, Layout
<1>. QED
  BY <1>6, <1>7, WriteEffect
----------------------------------------------------------------------------
\* The clients' pointers and the used blocks.

\* Nothing changes for the pointers when slots and used headers stay.
LEMMA HeldKept ==
    ASSUME NEW sl \in Slots, NEW sl2 \in Slots, NEW mem, NEW mem2, NEW U,
           Held(sl, mem, U), \A u \in U : mem2[u] = mem[u],
           \A c \in Clients : /\ sl2[c].ptr = sl[c].ptr
                              /\ sl[c].ptr # NULL => sl2[c].size = sl[c].size
    PROVE  Held(sl2, mem2, U)
  BY DEF Held

\* A client that holds nothing is given block b, which nobody holds.
Gains(sl, mem, U, c, b, n, sl2, mem2) ==
    /\ sl \in Slots /\ U \in SUBSET Nat /\ Held(sl, mem, U)
    /\ \A u \in U : mem2[u] = mem[u]
    /\ c \in Clients /\ sl[c].ptr = NULL /\ b \in Nat /\ b \notin U
    /\ n \in Nat /\ n <= mem2[b].size
    /\ sl2 = [sl EXCEPT ![c] = [ptr |-> b + HEADER_SIZE, size |-> n]]

\* Then the pointers and the used blocks still correspond.
LEMMA HeldGain ==
    ASSUME NEW sl, NEW mem, NEW U, NEW c, NEW b, NEW n, NEW sl2, NEW mem2,
           Gains(sl, mem, U, c, b, n, sl2, mem2)
    PROVE  sl2 \in Slots /\ Held(sl2, mem2, U \cup {b})
<1>. USE DEF Gains
<1>1. b + HEADER_SIZE \in Nat /\ (b + HEADER_SIZE) - HEADER_SIZE = b
      /\ b + HEADER_SIZE # NULL
  BY Layout DEF NULL
<1>2. [ptr |-> b + HEADER_SIZE, size |-> n] \in [ptr : Nat, size : Nat]
  BY <1>1
<1>3. sl2 \in Slots
  BY <1>2 DEF Slots
<1>4. /\ sl2[c].ptr = b + HEADER_SIZE /\ sl2[c].size = n
      /\ \A d \in Clients : d # c => sl2[d] = sl[d]
  BY DEF Slots
<1>5. \A d \in Clients : sl[d].ptr \in Nat
  BY DEF Slots
<1>6. ASSUME NEW d \in Clients, sl2[d].ptr # NULL
      PROVE  /\ sl2[d].ptr - HEADER_SIZE \in U \cup {b}
             /\ sl2[d].size <= mem2[sl2[d].ptr - HEADER_SIZE].size
  <2>1. CASE d = c
    BY <2>1, <1>1, <1>4
  <2>2. CASE d # c
    <3>1. sl2[d] = sl[d] /\ sl[d].ptr # NULL
      BY <2>2, <1>4, <1>6
    <3>2. sl[d].ptr - HEADER_SIZE \in U
          /\ sl[d].size <= mem[sl[d].ptr - HEADER_SIZE].size
      BY <3>1 DEF Held
    <3>. QED
      BY <3>1, <3>2
  <2>. QED
    BY <2>1, <2>2
<1>7. ASSUME NEW d \in Clients, NEW e \in Clients, sl2[d].ptr # NULL, sl2[d].ptr = sl2[e].ptr
      PROVE  d = e
  <2>1. \A x \in Clients : sl[x].ptr # b + HEADER_SIZE
    <3>1. \A x \in Clients : sl[x].ptr # NULL => sl[x].ptr - HEADER_SIZE \in U
      BY DEF Held
    <3>. QED
      BY <3>1, <1>1
  <2>2. CASE d # c /\ e # c
    BY <2>2, <1>4, <1>7 DEF Held
  <2>3. CASE d = c /\ e # c
    BY <2>1, <2>3, <1>4, <1>7
  <2>4. CASE d # c /\ e = c
    BY <2>1, <2>4, <1>4, <1>7
  <2>. QED
    BY <2>2, <2>3, <2>4
<1>8. ASSUME NEW u \in U \cup {b} PROVE \E d \in Clients : sl2[d].ptr = u + HEADER_SIZE
  <2>1. CASE u = b
    BY <2>1, <1>4
  <2>2. CASE u \in U
    <3>1. PICK d \in Clients : sl[d].ptr = u + HEADER_SIZE
      BY <2>2 DEF Held
    <3>2. d # c
      BY <3>1, <2>2, Layout DEF NULL
    <3>. QED
      BY <3>1, <3>2, <1>4
  <2>. QED
    BY <2>1, <2>2
<1>9. Held(sl2, mem2, U \cup {b})
  BY <1>6, <1>7, <1>8 DEF Held
<1>. QED
  BY <1>3, <1>9

\* A client gives up block b.
Loses(sl, mem, U, c, b, sl2, mem2) ==
    /\ sl \in Slots /\ U \in SUBSET Nat /\ Held(sl, mem, U)
    /\ \A u \in U \ {b} : mem2[u] = mem[u]
    /\ c \in Clients /\ b \in U /\ sl[c].ptr = b + HEADER_SIZE
    /\ sl2 = [sl EXCEPT ![c] = Empty]

\* Then the other pointers and the other used blocks correspond.
LEMMA HeldLose ==
    ASSUME NEW sl, NEW mem, NEW U, NEW c, NEW b, NEW sl2, NEW mem2,
           Loses(sl, mem, U, c, b, sl2, mem2)
    PROVE  sl2 \in Slots /\ Held(sl2, mem2, U \ {b})
<1>. USE DEF Loses
<1>1. b \in Nat /\ b + HEADER_SIZE # NULL
  BY Layout DEF NULL
<1>2. sl2 \in Slots
  BY DEF Slots, Empty, NULL
<1>3. /\ sl2[c].ptr = NULL
      /\ \A d \in Clients : d # c => sl2[d] = sl[d]
  BY DEF Slots, Empty
<1>4. \A d \in Clients : sl[d].ptr \in Nat
  BY DEF Slots
<1>5. ASSUME NEW d \in Clients, sl2[d].ptr # NULL
      PROVE  /\ sl2[d].ptr - HEADER_SIZE \in U \ {b}
             /\ sl2[d].size <= mem2[sl2[d].ptr - HEADER_SIZE].size
  <2>1. d # c /\ sl2[d] = sl[d] /\ sl[d].ptr # NULL
    BY <1>3, <1>5
  <2>2. sl[d].ptr - HEADER_SIZE \in U
        /\ sl[d].size <= mem[sl[d].ptr - HEADER_SIZE].size
    BY <2>1 DEF Held
  <2>3. sl[d].ptr # sl[c].ptr
    BY <2>1 DEF Held
  <2>4. sl[d].ptr - HEADER_SIZE # b
    BY <2>3, <1>1, <1>4, Layout
  <2>. QED
    BY <2>1, <2>2, <2>4
<1>6. ASSUME NEW d \in Clients, NEW e \in Clients, sl2[d].ptr # NULL, sl2[d].ptr = sl2[e].ptr
      PROVE  d = e
  <2>1. d # c /\ e # c
    BY <1>3, <1>6
  <2>. QED
    BY <2>1, <1>3, <1>6 DEF Held
<1>7. ASSUME NEW u \in U \ {b} PROVE \E d \in Clients : sl2[d].ptr = u + HEADER_SIZE
  <2>1. PICK d \in Clients : sl[d].ptr = u + HEADER_SIZE
    BY DEF Held
  <2>2. d # c
    BY <2>1, <1>1, Layout
  <2>. QED
    BY <2>1, <2>2, <1>3
<1>8. Held(sl2, mem2, U \ {b})
  BY <1>5, <1>6, <1>7 DEF Held
<1>. QED
  BY <1>2, <1>8

\* A block a client holds is used.
LEMMA HolderFacts ==
    ASSUME NEW sl \in Slots, NEW mem, NEW U \in SUBSET Nat, Held(sl, mem, U),
           NEW c \in Clients, sl[c].ptr # NULL
    PROVE  /\ sl[c].ptr - HEADER_SIZE \in U
           /\ sl[c].ptr = (sl[c].ptr - HEADER_SIZE) + HEADER_SIZE
           /\ sl[c].size \in Nat
           /\ sl[c].size <= mem[sl[c].ptr - HEADER_SIZE].size
<1>1. sl[c].ptr \in Nat /\ sl[c].size \in Nat
  BY DEF Slots
<1>. QED
  BY <1>1, Layout DEF Held
----------------------------------------------------------------------------
\* The actions.

\* The parts of the invariant, for the blocks T.
LEMMA InvParts ==
    ASSUME NEW G, NEW T \in SUBSET Units, HeapAt(G, T)
    PROVE  /\ Exact(G, heap, T)
           /\ Held(slot, heap.mem, UsedIn(heap.mem, T))
           /\ UsedIn(heap.mem, T) \in SUBSET Nat
           /\ NoFit(heap.mem, T, last)
<1>1. UsedIn(heap.mem, T) \in SUBSET Nat
  BY Layout DEF UsedIn
<1>. QED
  BY <1>1 DEF HeapAt

\* A next state with an exact heap that has no failed request to account for.
LEMMA ServedStep ==
    ASSUME NEW G, NEW T2 \in SUBSET Units, Exact(G, heap', T2),
           Held(slot', heap'.mem, UsedIn(heap'.mem, T2)),
           slot' \in Slots, last' \in Lasts, ~last'.failed,
           panicked' \in BOOLEAN, misused' \in BOOLEAN, panicked' <=> misused'
    PROVE  HeapInv(G)'
<1>1. NoFit(heap'.mem, T2, last')
  BY DEF NoFit
<1>2. HeapAt(G, T2)'
  BY <1>1 DEF HeapAt
<1>. QED
  BY <1>2 DEF HeapInv, HeapTypes

\* A request that heap_alloc could not serve changes neither the heap nor
\* what the clients hold.
LEMMA RefusedStep ==
    ASSUME NEW G, NEW T \in SUBSET Units, HeapAt(G, T), HeapTypes,
           heap' = heap, slot' \in Slots, panicked' = FALSE, misused' = FALSE,
           \A c \in Clients : /\ slot'[c].ptr = slot[c].ptr
                              /\ slot[c].ptr # NULL => slot'[c].size = slot[c].size,
           last' \in Lasts,
           last'.size # 0 =>
             \A b \in FreeIn(heap.mem, T) : heap.mem[b].size < last'.size
    PROVE  HeapInv(G)'
<1>1. Exact(G, heap, T) /\ Held(slot, heap.mem, UsedIn(heap.mem, T))
  BY InvParts
<1>2. Held(slot', heap.mem, UsedIn(heap.mem, T))
  BY <1>1, HeldKept DEF HeapTypes
<1>3. NoFit(heap.mem, T, last')
  BY DEF NoFit
<1>4. HeapAt(G, T)'
  BY <1>1, <1>2, <1>3 DEF HeapAt
<1>. QED
  BY <1>4 DEF HeapInv, HeapTypes

\* The answer to a request, as the client keeps it.
LEMMA HoldIs ==
    ASSUME NEW b \in Nat, NEW size
    PROVE  /\ Hold(b + HEADER_SIZE, size) = [ptr |-> b + HEADER_SIZE, size |-> size]
           /\ Hold(NULL, size) = Empty
           /\ b + HEADER_SIZE # NULL
  BY Layout DEF Hold, NULL

\* The two outcomes of heap_alloc.
Refused(h, T, size, r) ==
    /\ r.ptr = NULL /\ r.heap = h /\ r.panic = FALSE
    /\ size # 0 => \A b \in FreeIn(h.mem, T) : h.mem[b].size < size
Served(G, h, T, size, r, b, T2) ==
    /\ b \in FreeIn(h.mem, T) /\ T2 \in SUBSET Units
    /\ r.ptr = b + HEADER_SIZE /\ size # 0 /\ r.panic = FALSE
    /\ Exact(G, r.heap, T2)
    /\ UsedIn(r.heap.mem, T2) = UsedIn(h.mem, T) \cup {b}
    /\ \A u \in UsedIn(h.mem, T) : r.heap.mem[u] = h.mem[u]
    /\ r.heap.mem[b].magic = "USED" /\ size <= r.heap.mem[b].size

\* AllocEffect, one outcome or the other.
LEMMA AllocOutcome ==
    ASSUME NEW G \in Nat, IsGranule(G), NEW h, NEW T \in SUBSET Units, Exact(G, h, T),
           NEW size \in 0 .. (SizeSpace - 1), Sound(G, h, size),
           NEW r, r = heap_alloc(h, size)
    PROVE  Refused(h, T, size, r) \/ \E b, T2 : Served(G, h, T, size, r, b, T2)
<1>1. Allocated(G, h, T, size, r)
  BY AllocEffect
<1>2. CASE /\ r.ptr = NULL /\ r.heap = h
           /\ size # 0 => \A b \in FreeIn(h.mem, T) : h.mem[b].size < size
  BY <1>1, <1>2 DEF Refused, Allocated
<1>3. ASSUME NEW b \in FreeIn(h.mem, T), NEW T2 \in SUBSET Units,
             /\ r.ptr = b + HEADER_SIZE /\ size # 0
             /\ Exact(G, r.heap, T2)
             /\ Changed(h.mem, T, r.heap.mem, T2, {b}, {})
             /\ r.heap.mem[b].magic = "USED" /\ size <= r.heap.mem[b].size
      PROVE  Served(G, h, T, size, r, b, T2)
  <2>1. UsedIn(r.heap.mem, T2) = UsedIn(h.mem, T) \cup {b}
    BY <1>3 DEF Changed
  <2>2. \A u \in UsedIn(h.mem, T) : r.heap.mem[u] = h.mem[u]
    BY <1>3 DEF Changed
  <2>3. r.panic = FALSE
    BY <1>1 DEF Allocated
  <2>. QED
    BY <2>1, <2>2, <2>3, <1>3 DEF Served
<1>. QED
  BY <1>1, <1>2, <1>3 DEF Allocated

\* A free block is not used, and its offset is a natural.
LEMMA FreshBlock ==
    ASSUME NEW mem, NEW T \in SUBSET Units, NEW b \in FreeIn(mem, T)
    PROVE  b \in Nat /\ b \notin UsedIn(mem, T)
  BY Layout DEF FreeIn, UsedIn

\* kmalloc.
LEMMA kmallocStep ==
    ASSUME NEW G \in Nat, IsGranule(G), HeapInv(G), ~panicked,
           NEW c \in Clients, NEW size \in Sizes, kmalloc(c, size), UNCHANGED misused,
           Sound(G, heap, last'.size)
    PROVE  HeapInv(G)'
<1>. DEFINE r == heap_alloc(heap, size)
<1>1. PICK T \in SUBSET Units : HeapAt(G, T)
  BY DEF HeapInv
<1>2. HeapTypes /\ ~misused /\ misused' = FALSE
  BY DEF HeapInv, HeapTypes
<1>3. /\ Exact(G, heap, T) /\ Held(slot, heap.mem, UsedIn(heap.mem, T))
      /\ UsedIn(heap.mem, T) \in SUBSET Nat
  BY <1>1, InvParts
<1>4. size \in 0 .. (SizeSpace - 1) /\ size \in Nat
  BY HeapAssumption
<1>5. /\ slot[c].ptr = NULL /\ heap' = r.heap /\ panicked' = r.panic
      /\ slot' = [slot EXCEPT ![c] = Hold(r.ptr, size)]
      /\ last' = [size |-> size, failed |-> r.ptr = NULL]
  BY DEF kmalloc, Holds
<1>6. r = heap_alloc(heap, size) /\ Sound(G, heap, size)
  BY <1>5
<1>. HIDE DEF r
<1>7. Refused(heap, T, size, r) \/ \E b, T2 : Served(G, heap, T, size, r, b, T2)
  BY <1>3, <1>4, <1>6, AllocOutcome
<1>8. last' \in Lasts
  BY <1>4, <1>5 DEF Lasts
<1>9. CASE Refused(heap, T, size, r)
  <2>1. /\ r.ptr = NULL /\ heap' = heap /\ panicked' = FALSE
        /\ size # 0 => \A b \in FreeIn(heap.mem, T) : heap.mem[b].size < size
    BY <1>5, <1>9 DEF Refused
  <2>2. slot' = [slot EXCEPT ![c] = Empty]
    BY <1>5, <2>1 DEF Hold
  <2>3. slot' \in Slots
    BY <2>2, <1>2 DEF HeapTypes, Slots, Empty, NULL
  <2>4. \A d \in Clients : /\ slot'[d].ptr = slot[d].ptr
                           /\ slot[d].ptr # NULL => slot'[d].size = slot[d].size
    BY <2>2, <1>2, <1>5 DEF HeapTypes, Slots, Empty
  <2>5. last'.size = size
    BY <1>5
  <2>. QED
    BY <2>1, <2>3, <2>4, <2>5, <1>1, <1>2, <1>8, RefusedStep
<1>10. ASSUME NEW b, NEW T2, Served(G, heap, T, size, r, b, T2) PROVE HeapInv(G)'
  <2>1. /\ b \in FreeIn(heap.mem, T) /\ T2 \in SUBSET Units
        /\ r.ptr = b + HEADER_SIZE /\ heap' = r.heap /\ panicked' = FALSE
        /\ Exact(G, heap', T2)
        /\ UsedIn(heap'.mem, T2) = UsedIn(heap.mem, T) \cup {b}
        /\ \A u \in UsedIn(heap.mem, T) : heap'.mem[u] = heap.mem[u]
        /\ size <= heap'.mem[b].size
    BY <1>5, <1>10 DEF Served
  <2>2. b \in Nat /\ b \notin UsedIn(heap.mem, T)
    BY <2>1, FreshBlock
  <2>3. /\ slot' = [slot EXCEPT ![c] = [ptr |-> b + HEADER_SIZE, size |-> size]]
        /\ r.ptr # NULL
    BY <1>5, <2>1, <2>2, HoldIs
  <2>4. slot' \in Slots /\ Held(slot', heap'.mem, UsedIn(heap.mem, T) \cup {b})
    <3>1. Gains(slot, heap.mem, UsedIn(heap.mem, T), c, b, size, slot', heap'.mem)
      BY <2>1, <2>2, <2>3, <1>2, <1>3, <1>4, <1>5 DEF HeapTypes, Gains
    <3>. QED
      BY <3>1, HeldGain
  <2>5. ~last'.failed
    BY <2>3, <1>5
  <2>. QED
    BY <2>1, <2>4, <2>5, <1>2, <1>8, ServedStep
<1>. QED
  BY <1>7, <1>9, <1>10

\* kfree of what the client holds, or of NULL.
LEMMA kfreeStep ==
    ASSUME NEW G \in Nat, IsGranule(G), HeapInv(G), ~panicked,
           NEW c \in Clients, kfree(c), UNCHANGED misused
    PROVE  HeapInv(G)'
<1>. DEFINE r == heap_free(heap, slot[c].ptr)
<1>1. PICK T \in SUBSET Units : HeapAt(G, T)
  BY DEF HeapInv
<1>2. HeapTypes /\ ~misused /\ misused' = FALSE /\ slot \in Slots
  BY DEF HeapInv, HeapTypes
<1>3. /\ Exact(G, heap, T) /\ Held(slot, heap.mem, UsedIn(heap.mem, T))
      /\ UsedIn(heap.mem, T) \in SUBSET Nat
  BY <1>1, InvParts
<1>4. /\ heap' = r.heap /\ panicked' = r.panic
      /\ slot' = [slot EXCEPT ![c] = Empty] /\ last' = NoRequest
  BY DEF kfree
<1>5. last' \in Lasts /\ ~last'.failed
  BY <1>4 DEF Lasts, NoRequest
<1>6. CASE slot[c].ptr = NULL
  <2>1. r = Result(heap, NULL, FALSE)
    BY <1>6 DEF heap_free
  <2>2. heap' = heap /\ panicked' = FALSE
    BY <2>1, <1>4 DEF Result
  <2>3. slot' \in Slots
    BY <1>2, <1>4 DEF Slots, Empty, NULL
  <2>4. \A d \in Clients : /\ slot'[d].ptr = slot[d].ptr
                           /\ slot[d].ptr # NULL => slot'[d].size = slot[d].size
    BY <1>2, <1>4, <1>6 DEF Slots, Empty
  <2>5. Held(slot', heap.mem, UsedIn(heap.mem, T))
    BY <2>3, <2>4, <1>2, <1>3, HeldKept
  <2>. QED
    BY <2>2, <2>3, <2>5, <1>2, <1>3, <1>5, ServedStep
<1>7. CASE slot[c].ptr # NULL
  <2>. DEFINE b == slot[c].ptr - HEADER_SIZE
  <2>1. b \in UsedIn(heap.mem, T) /\ slot[c].ptr = b + HEADER_SIZE
    BY <1>2, <1>3, <1>7, HolderFacts
  <2>. HIDE DEF b
  <2>2. r.panic = FALSE /\ Freed(G, heap, T, b, r.heap)
    BY <2>1, <1>3, FreeEffect
  <2>. HIDE DEF r
  <2>3. PICK T2 \in SUBSET Units :
          /\ Exact(G, heap', T2)
          /\ UsedIn(heap'.mem, T2) = UsedIn(heap.mem, T) \ {b}
          /\ \A u \in UsedIn(heap.mem, T) \ {b} : heap'.mem[u] = heap.mem[u]
    BY <2>2, <1>4 DEF Freed, Changed
  <2>4. slot' \in Slots /\ Held(slot', heap'.mem, UsedIn(heap.mem, T) \ {b})
    <3>1. Loses(slot, heap.mem, UsedIn(heap.mem, T), c, b, slot', heap'.mem)
      BY <2>1, <2>3, <1>2, <1>3, <1>4 DEF Loses
    <3>. QED
      BY <3>1, HeldLose
  <2>5. panicked' = FALSE
    BY <2>2, <1>4
  <2>. QED
    BY <2>3, <2>4, <2>5, <1>2, <1>5, ServedStep
<1>. QED
  BY <1>6, <1>7

\* The clients' writes.
LEMMA UserWriteStep ==
    ASSUME NEW G \in Nat, IsGranule(G), HeapInv(G), ~panicked,
           NEW c \in Clients, UserWrite(c), UNCHANGED misused
    PROVE  HeapInv(G)'
<1>1. PICK T \in SUBSET Units : HeapAt(G, T)
  BY DEF HeapInv
<1>2. HeapTypes /\ ~misused /\ misused' = FALSE /\ slot \in Slots /\ panicked = FALSE
  BY DEF HeapInv, HeapTypes
<1>3. /\ Exact(G, heap, T) /\ Held(slot, heap.mem, UsedIn(heap.mem, T))
      /\ UsedIn(heap.mem, T) \in SUBSET Nat
  BY <1>1, InvParts
<1>. DEFINE new == Written(heap.mem, slot[c].ptr, slot[c].size)
            b == slot[c].ptr - HEADER_SIZE
<1>4. /\ slot[c].ptr # NULL /\ heap' = [heap EXCEPT !.mem = new]
      /\ last' = NoRequest /\ slot' = slot /\ panicked' = FALSE
  BY <1>2 DEF UserWrite, Holds
<1>5. last' \in Lasts /\ ~last'.failed
  BY <1>4 DEF Lasts, NoRequest
<1>6. /\ b \in UsedIn(heap.mem, T) /\ slot[c].ptr = b + HEADER_SIZE
      /\ slot[c].size \in Nat /\ slot[c].size <= heap.mem[b].size
  BY <1>2, <1>3, <1>4, HolderFacts
<1>7. new = Written(heap.mem, slot[c].ptr, slot[c].size)
  OBVIOUS
<1>. HIDE DEF new, b
<1>8. Kept(G, heap, T, new, heap')
  BY <1>3, <1>4, <1>6, <1>7, WrittenEffect
<1>9. /\ Exact(G, heap', T) /\ UsedIn(heap'.mem, T) = UsedIn(heap.mem, T)
      /\ \A u \in UsedIn(heap.mem, T) : heap'.mem[u] = heap.mem[u]
  BY <1>8 DEF Kept, UsedIn
<1>10. Held(slot', heap'.mem, UsedIn(heap'.mem, T))
  BY <1>2, <1>3, <1>4, <1>9, HeldKept
<1>. QED
  BY <1>2, <1>4, <1>5, <1>9, <1>10, ServedStep

\* heap_free recognises every pointer nobody holds: it panics and leaves the
\* heap as it was.
LEMMA FreeUnheldStep ==
    ASSUME NEW G \in Nat, IsGranule(G), HeapInv(G), ~panicked,
           NEW ptr \in Units, ptr >= HEADER_SIZE, FreeUnheld(ptr)
    PROVE  HeapInv(G)'
<1>. DEFINE b == ptr - HEADER_SIZE
<1>1. PICK T \in SUBSET Units : HeapAt(G, T)
  BY DEF HeapInv
<1>2. HeapTypes /\ slot \in Slots
  BY DEF HeapInv, HeapTypes
<1>3. /\ Exact(G, heap, T) /\ Held(slot, heap.mem, UsedIn(heap.mem, T))
  BY <1>1, InvParts
<1>4. ptr \in Nat /\ OnGrid(HEAP_ALIGNMENT, ptr) /\ ptr < HeapBytes
  BY Layout
<1>5. b \in Units /\ ptr = b + HEADER_SIZE /\ ptr # NULL /\ ~ (ptr >= HeapBytes)
  <2>0. HEADER_SIZE <= ptr
    BY <1>4, Layout
  <2>1. OnGrid(HEAP_ALIGNMENT, ptr - HEADER_SIZE)
    <3>1. HEAP_ALIGNMENT \in Nat /\ HEAP_ALIGNMENT > 0
          /\ OnGrid(HEAP_ALIGNMENT, HEADER_SIZE)
      BY Layout
    <3>. QED
      BY ONLY <3>1, <2>0, <1>4, GridSum
  <2>2. b \in Nat /\ b < HeapBytes
    BY <2>0, <1>4, Layout
  <2>. QED
    BY <2>1, <2>2, <1>4, Layout DEF NULL
<1>6. heap.mem[b].magic # "USED"
  <2>. SUFFICES ASSUME heap.mem[b].magic = "USED" PROVE FALSE
    OBVIOUS
  <2>. HIDE DEF b
  <2>1. b \in UsedIn(heap.mem, T)
    <3>1. Tiles(G, heap.mem, T)
      BY <1>3, ExactParts
    <3>. QED
      BY <3>1, <1>5 DEF Tiles, UsedIn
  <2>2. \E c \in Clients : slot[c].ptr = ptr
    BY <2>1, <1>3, <1>5 DEF Held
  <2>. QED
    BY <2>2 DEF FreeUnheld
<1>7. heap_free(heap, ptr) = Result(heap, NULL, TRUE)
  BY <1>5, <1>6 DEF heap_free
<1>8. /\ heap' = heap /\ panicked' = TRUE /\ misused' = TRUE
      /\ last' = NoRequest /\ slot' = slot
  BY <1>7 DEF FreeUnheld, Result
<1>9. last' \in Lasts /\ ~last'.failed
  BY <1>8 DEF Lasts, NoRequest
<1>. QED
  BY <1>2, <1>3, <1>8, <1>9, ServedStep
\* kcalloc: what kmalloc does, and the zeroing.
LEMMA kcallocStep ==
    ASSUME NEW G \in Nat, IsGranule(G), HeapInv(G), ~panicked,
           NEW c \in Clients, NEW a \in Arrays, kcalloc(c, a[1], a[2]), UNCHANGED misused,
           Sound(G, heap, last'.size)
    PROVE  HeapInv(G)'
<1>. DEFINE total == a[1] * a[2]
            overflow == a[1] * a[2] >= SizeSpace
            refuse == a[1] = 0 \/ a[2] = 0 \/ overflow
            r == IF refuse THEN Result(heap, NULL, FALSE) ELSE heap_alloc(heap, total)
<1>1. PICK T \in SUBSET Units : HeapAt(G, T)
  BY DEF HeapInv
<1>2. HeapTypes /\ ~misused /\ misused' = FALSE /\ slot \in Slots
  BY DEF HeapInv, HeapTypes
<1>3. /\ Exact(G, heap, T) /\ Held(slot, heap.mem, UsedIn(heap.mem, T))
      /\ UsedIn(heap.mem, T) \in SUBSET Nat
  BY <1>1, InvParts
<1>4. a[1] \in Nat /\ a[2] \in Nat /\ SizeSpace \in Nat
  BY HeapAssumption
<1>5. total \in Nat
  <2>1. ASSUME NEW x \in Nat, NEW y \in Nat PROVE x * y \in Nat
    OBVIOUS
  <2>. QED
    BY <2>1, <1>4
<1>6. ~overflow => total \in 0 .. (SizeSpace - 1)
  BY <1>4, <1>5
<1>7. /\ slot[c].ptr = NULL
      /\ heap' = IF r.ptr = NULL THEN r.heap
                 ELSE [r.heap EXCEPT !.mem = Written(r.heap.mem, r.ptr, total)]
      /\ panicked' = r.panic
      /\ slot' = [slot EXCEPT ![c] = Hold(r.ptr, total)]
      /\ last' = IF overflow THEN NoRequest ELSE [size |-> total, failed |-> r.ptr = NULL]
  BY DEF kcalloc, Holds
<1>8. r = IF refuse THEN Result(heap, NULL, FALSE) ELSE heap_alloc(heap, total)
  OBVIOUS
<1>9. ASSUME a[1] = 0 \/ a[2] = 0 PROVE total = 0
  BY <1>4, <1>9
<1>. HIDE DEF r, total
<1>10. last' \in Lasts /\ (last'.size = 0 \/ last'.size = total)
  BY <1>5, <1>7 DEF Lasts, NoRequest
<1>11. CASE r.ptr = NULL /\ (overflow \/ Refused(heap, T, total, r))
            /\ r.heap = heap /\ r.panic = FALSE
  <2>1. heap' = heap /\ panicked' = FALSE
    BY <1>7, <1>11
  <2>2. slot' = [slot EXCEPT ![c] = Empty]
    BY <1>7, <1>11 DEF Hold
  <2>3. slot' \in Slots
    BY <2>2, <1>2 DEF Slots, Empty, NULL
  <2>4. \A d \in Clients : /\ slot'[d].ptr = slot[d].ptr
                           /\ slot[d].ptr # NULL => slot'[d].size = slot[d].size
    BY <2>2, <1>2, <1>7 DEF Slots, Empty
  <2>5. last'.size # 0 => \A b \in FreeIn(heap.mem, T) : heap.mem[b].size < last'.size
    <3>1. CASE overflow
      BY <3>1, <1>7 DEF NoRequest
    <3>2. CASE Refused(heap, T, total, r)
      BY <3>2, <1>10 DEF Refused
    <3>. QED
      BY <3>1, <3>2, <1>11
  <2>. QED
    BY <2>1, <2>3, <2>4, <2>5, <1>1, <1>2, <1>10, RefusedStep
<1>12. ASSUME ~overflow, NEW b, NEW T2, Served(G, heap, T, total, r, b, T2)
       PROVE  HeapInv(G)'
  <2>1. /\ b \in FreeIn(heap.mem, T) /\ T2 \in SUBSET Units
        /\ r.ptr = b + HEADER_SIZE /\ panicked' = FALSE
        /\ Exact(G, r.heap, T2)
        /\ UsedIn(r.heap.mem, T2) = UsedIn(heap.mem, T) \cup {b}
        /\ \A u \in UsedIn(heap.mem, T) : r.heap.mem[u] = heap.mem[u]
        /\ total <= r.heap.mem[b].size
    BY <1>7, <1>12 DEF Served
  <2>2. b \in Nat /\ b \notin UsedIn(heap.mem, T)
    BY <2>1, FreshBlock
  <2>3. /\ slot' = [slot EXCEPT ![c] = [ptr |-> b + HEADER_SIZE, size |-> total]]
        /\ r.ptr # NULL
    BY <1>7, <2>1, <2>2, HoldIs
  <2>. DEFINE h == r.heap
              new == Written(h.mem, r.ptr, total)
  <2>4. heap' = [h EXCEPT !.mem = new] /\ new = Written(h.mem, r.ptr, total)
    BY <1>7, <2>3
  <2>5. b \in UsedIn(h.mem, T2) /\ Exact(G, h, T2) /\ total <= h.mem[b].size
        /\ UsedIn(h.mem, T2) = UsedIn(heap.mem, T) \cup {b}
        /\ \A u \in UsedIn(heap.mem, T) : h.mem[u] = heap.mem[u]
    BY <2>1
  <2>. HIDE DEF h, new
  <2>6. Kept(G, h, T2, new, heap')
    BY <2>1, <2>4, <2>5, <1>5, WrittenEffect
  <2>7. /\ Exact(G, heap', T2) /\ UsedIn(heap'.mem, T2) = UsedIn(heap.mem, T) \cup {b}
        /\ \A u \in UsedIn(h.mem, T2) : heap'.mem[u] = h.mem[u]
    BY <2>5, <2>6 DEF Kept, UsedIn
  <2>8. slot' \in Slots /\ Held(slot', heap'.mem, UsedIn(heap.mem, T) \cup {b})
    <3>1. /\ \A u \in UsedIn(heap.mem, T) : heap'.mem[u] = heap.mem[u]
          /\ heap'.mem[b] = h.mem[b]
      BY <2>5, <2>7
    <3>2. Gains(slot, heap.mem, UsedIn(heap.mem, T), c, b, total, slot', heap'.mem)
      BY <3>1, <2>2, <2>3, <2>5, <1>2, <1>3, <1>5, <1>7 DEF Gains
    <3>. QED
      BY <3>2, HeldGain
  <2>9. ~last'.failed
    BY <2>3, <1>7, <1>12
  <2>. QED
    BY <2>1, <2>7, <2>8, <2>9, <1>2, <1>10, ServedStep
<1>13. CASE refuse
  <2>1. r.ptr = NULL /\ r.heap = heap /\ r.panic = FALSE
    BY <1>8, <1>13 DEF Result
  <2>2. overflow \/ Refused(heap, T, total, r)
    BY <2>1, <1>9, <1>13 DEF Refused
  <2>. QED
    BY <2>1, <2>2, <1>11
<1>14. CASE ~refuse
  <2>1. r = heap_alloc(heap, total) /\ ~overflow /\ Sound(G, heap, total)
    BY <1>7, <1>8, <1>14
  <2>2. Refused(heap, T, total, r) \/ \E b, T2 : Served(G, heap, T, total, r, b, T2)
    BY <2>1, <1>3, <1>6, AllocOutcome
  <2>3. CASE Refused(heap, T, total, r)
    BY <2>3, <1>11 DEF Refused
  <2>. QED
    BY <2>1, <2>2, <2>3, <1>12
<1>. QED
  BY <1>13, <1>14

\* krealloc: a new block, the copy, then the old block is freed.
LEMMA kreallocStep ==
    ASSUME NEW G \in Nat, IsGranule(G), HeapInv(G), ~panicked,
           NEW c \in Clients, NEW new_size \in Sizes, krealloc(c, new_size), UNCHANGED misused,
           Sound(G, heap, last'.size)
    PROVE  HeapInv(G)'
<1>. DEFINE old == slot[c].ptr
            old_size == heap.mem[old - HEADER_SIZE].size
            copy_size == IF old_size < new_size THEN old_size ELSE new_size
            r == heap_alloc(heap, new_size)
            copied == [r.heap EXCEPT !.mem = Copied(r.heap.mem, old, r.ptr, copy_size)]
            f == heap_free(copied, old)
<1>1. PICK T \in SUBSET Units : HeapAt(G, T)
  BY DEF HeapInv
<1>2. HeapTypes /\ ~misused /\ misused' = FALSE /\ slot \in Slots
  BY DEF HeapInv, HeapTypes
<1>3. /\ Exact(G, heap, T) /\ Held(slot, heap.mem, UsedIn(heap.mem, T))
      /\ UsedIn(heap.mem, T) \in SUBSET Nat
  BY <1>1, InvParts
<1>4. new_size \in 0 .. (SizeSpace - 1) /\ new_size \in Nat
  BY HeapAssumption
<1>5. /\ old # NULL
      /\ r.ptr = NULL => heap' = r.heap /\ panicked' = r.panic /\ slot' = slot
      /\ r.ptr # NULL => /\ heap' = f.heap /\ panicked' = f.panic
                         /\ slot' = [slot EXCEPT ![c] = Hold(r.ptr, new_size)]
      /\ last' = [size |-> new_size, failed |-> r.ptr = NULL]
  BY DEF krealloc, Holds
<1>6. last' \in Lasts /\ last'.size = new_size /\ Sound(G, heap, new_size)
  BY <1>4, <1>5 DEF Lasts
<1>. DEFINE o == old - HEADER_SIZE
            Used == UsedIn(heap.mem, T)
<1>7. o \in Used /\ old = o + HEADER_SIZE
  BY <1>2, <1>3, <1>5, HolderFacts
<1>8. /\ r = heap_alloc(heap, new_size) /\ old_size = heap.mem[o].size
      /\ f = heap_free(copied, old)
  OBVIOUS
<1>. HIDE DEF r, f, o
<1>9. Refused(heap, T, new_size, r) \/ \E b, T2 : Served(G, heap, T, new_size, r, b, T2)
  BY <1>3, <1>4, <1>6, <1>8, AllocOutcome
<1>10. CASE Refused(heap, T, new_size, r)
  <2>1. /\ heap' = heap /\ panicked' = FALSE /\ slot' = slot
        /\ new_size # 0 => \A b \in FreeIn(heap.mem, T) : heap.mem[b].size < new_size
    BY <1>5, <1>10 DEF Refused
  <2>2. /\ slot' \in Slots
        /\ \A d \in Clients : /\ slot'[d].ptr = slot[d].ptr
                              /\ slot[d].ptr # NULL => slot'[d].size = slot[d].size
    BY <2>1, <1>2
  <2>. QED
    BY <2>1, <2>2, <1>1, <1>2, <1>6, RefusedStep
<1>11. ASSUME NEW b, NEW T1, Served(G, heap, T, new_size, r, b, T1)
       PROVE  HeapInv(G)'
  <2>. DEFINE h == r.heap
              new == Copied(h.mem, old, r.ptr, copy_size)
  <2>1. /\ b \in FreeIn(heap.mem, T) /\ T1 \in SUBSET Units
        /\ r.ptr = b + HEADER_SIZE
        /\ Exact(G, h, T1)
        /\ UsedIn(h.mem, T1) = Used \cup {b}
        /\ \A u \in Used : h.mem[u] = heap.mem[u]
        /\ new_size <= h.mem[b].size
    BY <1>11 DEF Served
  <2>2. b \in Nat /\ b \notin Used /\ b # o
    BY <2>1, <1>7, FreshBlock
  <2>3. r.ptr # NULL /\ slot' = [slot EXCEPT ![c] = [ptr |-> b + HEADER_SIZE, size |-> new_size]]
    BY <1>5, <2>1, <2>2, HoldIs
  <2>4. o \in UsedIn(h.mem, T1) /\ b \in UsedIn(h.mem, T1) /\ h.mem[o].size = old_size
    BY <2>1, <1>7, <1>8
  <2>5. h.mem[o].size \in Nat /\ h.mem[b].size \in Nat
    <3>1. h.mem \in [Units -> Headers] /\ o \in Units /\ b \in Units
      BY <2>1, <2>4, ExactParts DEF UsedIn
    <3>. QED
      BY <3>1, HeaderFacts
  <2>6. copy_size \in Nat /\ copy_size <= h.mem[o].size /\ copy_size <= h.mem[b].size
    BY <2>1, <2>4, <2>5, <1>4
  <2>7. copied = [h EXCEPT !.mem = new] /\ new = Copied(h.mem, old, r.ptr, copy_size)
    OBVIOUS
  <2>. HIDE DEF h, new, copied, copy_size, old, old_size
  <2>8. Kept(G, h, T1, new, copied)
    BY <2>1, <2>4, <2>6, <2>7, <1>7, CopiedEffect
  <2>9. /\ Exact(G, copied, T1) /\ UsedIn(copied.mem, T1) = Used \cup {b}
        /\ \A u \in Used \cup {b} : copied.mem[u] = h.mem[u]
    BY <2>1, <2>8 DEF Kept, UsedIn
  <2>10. f.panic = FALSE /\ Freed(G, copied, T1, o, f.heap)
    <3>1. o \in UsedIn(copied.mem, T1)
      BY <2>9, <1>7
    <3>. QED
      BY <3>1, <2>1, <2>9, <1>7, <1>8, FreeEffect
  <2>11. PICK T2 \in SUBSET Units :
           /\ Exact(G, heap', T2)
           /\ UsedIn(heap'.mem, T2) = (Used \cup {b}) \ {o}
           /\ \A u \in (Used \cup {b}) \ {o} : heap'.mem[u] = copied.mem[u]
    BY <2>3, <2>9, <2>10, <1>5 DEF Freed, Changed
  <2>. DEFINE sl == [slot EXCEPT ![c] = Empty]
  <2>. HIDE DEF Used
  <2>12. /\ \A u \in Used \ {o} : heap'.mem[u] = heap.mem[u]
         /\ heap'.mem[b] = h.mem[b]
    BY <2>1, <2>2, <2>9, <2>11
  <2>13. sl \in Slots /\ Held(sl, heap.mem, Used \ {o})
    <3>0. sl = [slot EXCEPT ![c] = Empty]
      OBVIOUS
    <3>. HIDE DEF sl
    <3>1. Loses(slot, heap.mem, Used, c, o, sl, heap.mem)
      BY <3>0, <1>2, <1>3, <1>7 DEF Loses, Used, old
    <3>. QED
      BY <3>1, HeldLose
  <2>14. slot' = [sl EXCEPT ![c] = [ptr |-> b + HEADER_SIZE, size |-> new_size]]
         /\ sl[c].ptr = NULL
    BY <2>3, <1>2 DEF Slots, Empty
  <2>. HIDE DEF sl
  <2>15. slot' \in Slots /\ Held(slot', heap'.mem, (Used \ {o}) \cup {b})
    <3>1. Used \ {o} \in SUBSET Nat
      BY <1>3 DEF Used
    <3>2. Gains(sl, heap.mem, Used \ {o}, c, b, new_size, slot', heap'.mem)
      BY <3>1, <2>1, <2>2, <2>12, <2>13, <2>14, <1>4 DEF Gains
    <3>. QED
      BY <3>2, HeldGain
  <2>16. (Used \ {o}) \cup {b} = UsedIn(heap'.mem, T2)
    BY <2>2, <2>11
  <2>17. ~last'.failed /\ panicked' = FALSE
    BY <2>3, <2>10, <1>5
  <2>. QED
    BY <2>11, <2>15, <2>16, <2>17, <1>2, <1>6, ServedStep
<1>. QED
  BY <1>9, <1>10, <1>11
\* heap_init: one free block tiles the heap.
LEMMA HeapInit ==
    ASSUME NEW G \in Nat, IsGranule(G), Init
    PROVE  HeapInv(G)
<1>. DEFINE mem == heap.mem
            T == {0}
            first == [magic |-> "FREE", size |-> HeapBytes - HEADER_SIZE]
<1>1. heap = [mem |-> [a \in Units |-> IF a = 0 THEN first ELSE Data],
              free_list |-> <<0>>, total_blocks |-> 1, free_blocks |-> 1,
              outstanding |-> 0]
  BY DEF Init
<1>2. mem = [a \in Units |-> IF a = 0 THEN first ELSE Data]
  BY <1>1
<1>3. OnGrid(HEAP_ALIGNMENT, 0) /\ OnGrid(G, 0)
  <2>1. 0 = HEAP_ALIGNMENT * 0 /\ 0 = G * 0
    BY Layout
  <2>. QED
    BY <2>1 DEF OnGrid
<1>4. 0 \in Units
  BY <1>3, Layout
<1>5. HeapBytes - HEADER_SIZE \in Nat /\ OnGrid(HEAP_ALIGNMENT, HeapBytes - HEADER_SIZE)
  <2>1. HeapBytes - HEADER_SIZE \in Nat /\ HEADER_SIZE <= HeapBytes
    BY Layout
  <2>2. HEAP_ALIGNMENT \in Nat /\ HEAP_ALIGNMENT > 0
        /\ OnGrid(HEAP_ALIGNMENT, HEADER_SIZE) /\ OnGrid(HEAP_ALIGNMENT, HeapBytes)
    BY Layout
  <2>. QED
    BY ONLY <2>1, <2>2, GridSum
<1>6. first \in Headers /\ Data \in Headers
  BY <1>3, <1>5 DEF Headers, Data
<1>7. mem \in [Units -> Headers]
  <2>. HIDE DEF first
  <2>. QED
    BY <1>2, <1>6
<1>8. /\ mem[0].magic = "FREE" /\ mem[0].size = HeapBytes - HEADER_SIZE
      /\ \A a \in Units : mem[a].magic # "USED"
  BY <1>2, <1>4 DEF Data
<1>9. next_block(mem, 0) = HeapBytes
  BY <1>8, Layout DEF next_block
<1>. HIDE DEF mem, first
<1>10. Tiles(G, mem, T)
  <2>1. mem[0].size >= HEAP_ALIGNMENT
    BY <1>5, <1>8, GridGap, Layout
  <2>. QED
    BY <2>1, <1>3, <1>4, <1>8, <1>9 DEF Tiles
<1>11. FreeIn(mem, T) = {0} /\ UsedIn(mem, T) = {}
  BY <1>8 DEF FreeIn, UsedIn
<1>12. Lists(<<0>>, FreeIn(mem, T)) /\ Len(<<0>>) = 1 /\ <<0>> \in Seq(Units)
  BY <1>4, <1>11 DEF Lists
<1>13. Cardinality(T) = 1 /\ Cardinality({}) = 0
  BY FS_Singleton, FS_EmptySet
<1>14. heap = [mem |-> mem, free_list |-> <<0>>, total_blocks |-> 1, free_blocks |-> 1,
               outstanding |-> 0]
  BY <1>1, <1>2
<1>15. Exact(G, heap, T)
  <2>1. /\ heap.mem = mem /\ heap.free_list = <<0>> /\ heap.total_blocks = 1
        /\ heap.free_blocks = 1 /\ heap.outstanding = 0
    BY <1>14
  <2>2. heap \in Heaps
    BY <1>7, <1>12, <1>14 DEF Heaps
  <2>. HIDE DEF T
  <2>3. 1 = Cardinality(T) /\ 0 = Cardinality(UsedIn(mem, T)) /\ 1 = Len(<<0>>)
    BY <1>11, <1>12, <1>13 DEF T
  <2>. QED
    BY <2>1, <2>2, <2>3, <1>10, <1>12 DEF Exact
<1>16. slot \in Slots /\ \A c \in Clients : slot[c].ptr = NULL
  BY DEF Init, Slots, Empty, NULL
<1>17. Held(slot, heap.mem, UsedIn(heap.mem, T))
  BY <1>11, <1>16 DEF Held, mem
<1>18. HeapTypes /\ (panicked <=> misused) /\ ~last.failed
  BY <1>16 DEF Init, HeapTypes, Lasts, NoRequest
<1>19. HeapAt(G, T)
  BY <1>15, <1>17, <1>18 DEF HeapAt, NoFit
<1>20. T \in SUBSET Units
  BY <1>4
<1>. QED
  BY <1>18, <1>19, <1>20 DEF HeapInv

\* The request a step puts to heap_alloc.
LEMMA StepRequest ==
    ASSUME NEW G, HeapInv(G), Next
    PROVE  /\ last'.size \in Requests \cup {0}
           /\ last'.size \in 0 .. (SizeSpace - 1)
<1>1. /\ 0 \in 0 .. (SizeSpace - 1) /\ Requests \subseteq 0 .. (SizeSpace - 1)
      /\ Sizes \subseteq Requests
  <2>1. 0 \in 0 .. (SizeSpace - 1)
    BY HeapAssumption
  <2>2. Sizes \subseteq 0 .. (SizeSpace - 1)
    BY HeapAssumption
  <2>. QED
    BY <2>1, <2>2 DEF Requests
<1>2. ASSUME last' = NoRequest PROVE last'.size = 0
  BY <1>2 DEF NoRequest
<1>3. ASSUME NEW c \in Clients, NEW size \in Sizes, kmalloc(c, size) \/ krealloc(c, size)
      PROVE  last'.size = size
  BY <1>3 DEF kmalloc, krealloc
<1>4. ASSUME NEW c \in Clients, NEW a \in Arrays, kcalloc(c, a[1], a[2]), last' # NoRequest
      PROVE  last'.size \in Requests
  <2>1. a[1] \in Nat /\ a[2] \in Nat /\ SizeSpace \in Nat
    BY HeapAssumption
  <2>2. ASSUME NEW x \in Nat, NEW y \in Nat PROVE x * y \in Nat
    OBVIOUS
  <2>3. last'.size = a[1] * a[2] /\ ~ (a[1] * a[2] >= SizeSpace)
    BY <1>4 DEF kcalloc
  <2>. DEFINE n == a[1] * a[2]
  <2>4. n \in Nat /\ n = a[1] * a[2] /\ last'.size = n /\ ~ (n >= SizeSpace)
    BY <2>1, <2>2, <2>3
  <2>. HIDE DEF n
  <2>5. n \in 0 .. (SizeSpace - 1)
    BY <2>1, <2>4
  <2>. QED
    BY <2>4, <2>5 DEF Requests
<1>5. ASSUME NEW c \in Clients, Call(c) PROVE last'.size \in Requests \cup {0}
  <2>1. CASE \E size \in Sizes : kmalloc(c, size) \/ krealloc(c, size)
    BY <1>1, <1>3, <2>1
  <2>2. CASE \E a \in Arrays : kcalloc(c, a[1], a[2])
    BY <1>2, <1>4, <2>2
  <2>3. CASE kfree(c) \/ UserWrite(c)
    BY <1>2, <2>3 DEF kfree, UserWrite
  <2>. QED
    BY <1>5, <2>1, <2>2, <2>3 DEF Call
<1>6. ASSUME NEW ptr \in Units, FreeUnheld(ptr) PROVE last'.size = 0
  BY <1>2, <1>6 DEF FreeUnheld
<1>7. last'.size \in Requests \cup {0}
  BY <1>5, <1>6 DEF Next
<1>. QED
  BY <1>1, <1>7

\* Every step of a client or of a misuse keeps the invariant.
LEMMA HeapStep ==
    ASSUME NEW G \in Nat, IsGranule(G), HeapInv(G), [Next]_vars,
           Next => Sound(G, heap, last'.size)
    PROVE  HeapInv(G)'
<1>1. ASSUME NEW c \in Clients, Call(c), UNCHANGED misused PROVE HeapInv(G)'
  <2>0. Sound(G, heap, last'.size)
    BY <1>1 DEF Next
  <2>1. CASE \E size \in Sizes : kmalloc(c, size)
    <3>1. PICK size \in Sizes : kmalloc(c, size)
      BY <2>1
    <3>2. ~panicked
      BY <3>1 DEF kmalloc
    <3>. QED
      BY <1>1, <2>0, <3>1, <3>2, kmallocStep
  <2>2. CASE \E a \in Arrays : kcalloc(c, a[1], a[2])
    <3>1. PICK a \in Arrays : kcalloc(c, a[1], a[2])
      BY <2>2
    <3>2. ~panicked
      BY <3>1 DEF kcalloc
    <3>. QED
      BY <1>1, <2>0, <3>1, <3>2, kcallocStep
  <2>3. CASE \E size \in Sizes : krealloc(c, size)
    <3>1. PICK size \in Sizes : krealloc(c, size)
      BY <2>3
    <3>2. ~panicked
      BY <3>1 DEF krealloc
    <3>. QED
      BY <1>1, <2>0, <3>1, <3>2, kreallocStep
  <2>4. CASE kfree(c)
    <3>1. ~panicked
      BY <2>4 DEF kfree
    <3>. QED
      BY <1>1, <2>4, <3>1, kfreeStep
  <2>5. CASE UserWrite(c)
    <3>1. ~panicked
      BY <2>5 DEF UserWrite
    <3>. QED
      BY <1>1, <2>5, <3>1, UserWriteStep
  <2>. QED
    BY <1>1, <2>1, <2>2, <2>3, <2>4, <2>5 DEF Call
<1>2. ASSUME NEW ptr \in Units, ptr >= HEADER_SIZE, FreeUnheld(ptr) PROVE HeapInv(G)'
  <2>1. ~panicked
    BY <1>2 DEF FreeUnheld
  <2>. QED
    BY <1>2, <2>1, FreeUnheldStep
<1>3. CASE UNCHANGED vars
  BY <1>3 DEF vars, HeapInv, HeapTypes, HeapAt
<1>. QED
  BY <1>1, <1>2, <1>3 DEF Next
----------------------------------------------------------------------------
\* The walk of heap_check and of heap_get_stats.

Offsets == Units \cup {HeapBytes}

\* The walk goes on from offset a.
GoesOn(mem, a) ==
    /\ a \in Units /\ mem[a].magic # "data"
    /\ next_block(mem, a) <= HeapBytes

\* The offsets a walk from a comes to.
Closed(mem, S) == \A a \in S : GoesOn(mem, a) => next_block(mem, a) \in S
Reach(mem, a) ==
    {x \in Offsets : \A S \in SUBSET Offsets : a \in S /\ Closed(mem, S) => x \in S}

\* A walk stays among the offsets: every unit, stale or not, holds an aligned
\* size.
LEMMA NextIsOffset ==
    ASSUME NEW mem \in [Units -> Headers], NEW a \in Offsets, GoesOn(mem, a)
    PROVE  next_block(mem, a) \in Offsets /\ a # HeapBytes
<1>1. /\ a \in Units /\ a \in Nat /\ a < HeapBytes /\ OnGrid(HEAP_ALIGNMENT, a)
      /\ mem[a].size \in Nat /\ OnGrid(HEAP_ALIGNMENT, mem[a].size)
  BY HeaderFacts, Layout DEF GoesOn
<1>2. OnGrid(HEAP_ALIGNMENT, a + HEADER_SIZE)
  BY <1>1, GridSum, Layout
<1>3. OnGrid(HEAP_ALIGNMENT, a + HEADER_SIZE + mem[a].size)
  BY <1>1, <1>2, GridSum, Layout
<1>4. next_block(mem, a) = a + HEADER_SIZE + mem[a].size /\ next_block(mem, a) \in Nat
  BY <1>1, Layout DEF next_block
<1>5. next_block(mem, a) <= HeapBytes
  BY DEF GoesOn
<1>6. next_block(mem, a) \in Units \/ next_block(mem, a) = HeapBytes
  BY <1>3, <1>4, <1>5, Layout
<1>. QED
  BY <1>1, <1>6, Layout DEF Offsets

\* A walk from a comes to a and to what a walk from the next offset comes to.
LEMMA ReachUnfolds ==
    ASSUME NEW mem \in [Units -> Headers], NEW a \in Offsets
    PROVE  Reach(mem, a) =
             {a} \cup (IF GoesOn(mem, a) THEN Reach(mem, next_block(mem, a)) ELSE {})
<1>. DEFINE n == next_block(mem, a)
<1>1. CASE ~GoesOn(mem, a)
  <2>1. {a} \in SUBSET Offsets /\ Closed(mem, {a})
    BY <1>1 DEF Closed
  <2>2. \A x \in Reach(mem, a) : x = a
    BY <2>1 DEF Reach
  <2>3. a \in Reach(mem, a)
    BY DEF Reach
  <2>. QED
    BY <1>1, <2>2, <2>3
<1>2. CASE GoesOn(mem, a)
  <2>1. n \in Offsets
    BY <1>2, NextIsOffset
  <2>. DEFINE S == {a} \cup Reach(mem, n)
  <2>2. Closed(mem, S)
    <3>. SUFFICES ASSUME NEW x \in S, GoesOn(mem, x) PROVE next_block(mem, x) \in S
      BY DEF Closed
    <3>1. CASE x = a
      BY <2>1, <3>1 DEF Reach
    <3>2. CASE x \in Reach(mem, n)
      <4>1. next_block(mem, x) \in Offsets
        BY <3>2, NextIsOffset DEF Reach
      <4>2. ASSUME NEW R \in SUBSET Offsets, n \in R, Closed(mem, R)
            PROVE  next_block(mem, x) \in R
        <5>1. x \in R
          BY <3>2, <4>2 DEF Reach
        <5>. QED
          BY <5>1, <4>2 DEF Closed
      <4>3. next_block(mem, x) \in Reach(mem, n)
        BY <4>1, <4>2 DEF Reach
      <4>. QED
        BY <4>3
    <3>. QED
      BY <3>1, <3>2
  <2>3. S \in SUBSET Offsets
    BY DEF Reach
  <2>4. Reach(mem, a) \subseteq S
    <3>. HIDE DEF S
    <3>1. a \in S
      BY DEF S
    <3>. QED
      BY <2>2, <2>3, <3>1 DEF Reach
  <2>5. ASSUME NEW x \in Reach(mem, n) PROVE x \in Reach(mem, a)
    <3>1. x \in Offsets
      BY DEF Reach
    <3>2. ASSUME NEW R \in SUBSET Offsets, a \in R, Closed(mem, R) PROVE x \in R
      <4>1. n \in R
        BY <3>2, <1>2 DEF Closed
      <4>. QED
        BY <4>1, <3>2 DEF Reach
    <3>. QED
      BY <3>1, <3>2 DEF Reach
  <2>6. a \in Reach(mem, a)
    BY DEF Reach
  <2>. HIDE DEF n
  <2>7. Reach(mem, a) = {a} \cup Reach(mem, n)
    BY <2>4, <2>5, <2>6
  <2>. QED
    BY <1>2, <2>7 DEF n
<1>. QED
  BY <1>1, <1>2

\* Walking the blocks backwards: what holds of the end of the heap, and of a
\* block when it holds of the offset after it, holds of every block.
LEMMA BackwardOverBlocks ==
    ASSUME NEW G \in Nat, IsGranule(G), NEW mem \in [Units -> Headers],
           NEW T \in SUBSET Units, Tiles(G, mem, T), NEW Good,
           HeapBytes \in Good,
           \A b \in T : next_block(mem, b) \in Good => b \in Good
    PROVE  \A b \in T : b \in Good
<1>. SUFFICES ASSUME NEW x \in T, x \notin Good PROVE FALSE
  OBVIOUS
<1>. DEFINE Gaps == {n \in Nat : \E b \in T : b \notin Good /\ n = HeapBytes - b}
<1>1. \A b \in T : /\ b \in Nat /\ b < HeapBytes /\ next_block(mem, b) \in Nat
                   /\ b < next_block(mem, b)
                   /\ next_block(mem, b) \in T \cup {HeapBytes}
  <2>. SUFFICES ASSUME NEW b \in T
                PROVE  /\ b \in Nat /\ b < HeapBytes /\ next_block(mem, b) \in Nat
                       /\ b < next_block(mem, b)
                       /\ next_block(mem, b) \in T \cup {HeapBytes}
    OBVIOUS
  <2>1. /\ b \in Nat /\ b < HeapBytes /\ mem[b].size \in Nat
        /\ next_block(mem, b) = b + HEADER_SIZE + mem[b].size
    BY BlockFacts
  <2>2. next_block(mem, b) \in T \cup {HeapBytes}
    BY DEF Tiles
  <2>. QED
    BY <2>1, <2>2, Layout
<1>2. Gaps \in SUBSET Nat /\ Gaps # {}
  <2>1. HeapBytes - x \in Nat
    BY <1>1, Layout
  <2>2. HeapBytes - x \in Gaps
    BY <2>1
  <2>. QED
    BY <2>2
<1>3. PICK g \in Gaps : \A h \in Gaps : g <= h
  <2>. HIDE DEF Gaps
  <2>. QED
    BY <1>2, LeastNat
<1>4. PICK b \in T : b \notin Good /\ g = HeapBytes - b
  OBVIOUS
<1>5. next_block(mem, b) \notin Good
  BY <1>4
<1>6. next_block(mem, b) \in T
  BY <1>1, <1>5
<1>7. HeapBytes - next_block(mem, b) \in Gaps
  <2>1. HeapBytes - next_block(mem, b) \in Nat
    BY <1>1, <1>6, Layout
  <2>. QED
    BY <2>1, <1>5, <1>6
<1>. QED
  BY <1>1, <1>3, <1>4, <1>6, <1>7, Layout

\* The walk of heap_check as an equation.
WalkSolves(mem, W) ==
    W = [a \in Offsets |->
           IF a = HeapBytes THEN HeapBytes
           ELSE IF mem[a].magic = "data" THEN Unreadable
           ELSE IF next_block(mem, a) > HeapBytes THEN Unreadable
           ELSE W[next_block(mem, a)]]

\* The equation has a solution.
LEMMA WalkExists ==
    ASSUME NEW mem \in [Units -> Headers]
    PROVE  \E W : WalkSolves(mem, W)
<1>. DEFINE V(a) == IF HeapBytes \in Reach(mem, a) THEN HeapBytes ELSE Unreadable
            W == [a \in Offsets |-> V(a)]
<1>1. ASSUME NEW a \in Offsets
      PROVE  V(a) = IF a = HeapBytes THEN HeapBytes
                    ELSE IF mem[a].magic = "data" THEN Unreadable
                    ELSE IF next_block(mem, a) > HeapBytes THEN Unreadable
                    ELSE W[next_block(mem, a)]
  <2>. DEFINE n == next_block(mem, a)
  <2>1. Reach(mem, a) = {a} \cup (IF GoesOn(mem, a) THEN Reach(mem, n) ELSE {})
    BY ReachUnfolds
  <2>2. CASE a = HeapBytes
    BY <2>1, <2>2
  <2>3. CASE a # HeapBytes /\ GoesOn(mem, a)
    <3>1. n \in Offsets /\ ~ (n > HeapBytes) /\ mem[a].magic # "data"
      <4>1. n \in Offsets /\ n <= HeapBytes /\ mem[a].magic # "data"
        BY <2>3, NextIsOffset DEF GoesOn
      <4>2. n \in Nat
        BY <4>1, Layout DEF Offsets
      <4>. QED
        BY <4>1, <4>2, Layout
    <3>. HIDE DEF n
    <3>2. W[n] = V(n)
      BY <3>1
    <3>3. HeapBytes \in Reach(mem, a) <=> HeapBytes \in Reach(mem, n)
      BY <2>1, <2>3
    <3>4. V(a) = W[n]
      BY <3>2, <3>3
    <3>. HIDE DEF V, W
    <3>. QED
      BY <3>1, <3>4, <2>3 DEF n
  <2>4. CASE a # HeapBytes /\ ~GoesOn(mem, a)
    <3>1. HeapBytes \notin Reach(mem, a)
      BY <2>1, <2>4
    <3>2. a \in Units /\ (mem[a].magic = "data" \/ n > HeapBytes)
      <4>1. a \in Units
        BY <2>4 DEF Offsets
      <4>2. a \in Nat /\ mem[a].size \in Nat
        BY <4>1, HeaderFacts, Layout
      <4>3. n \in Nat
        BY <4>2, Layout DEF next_block
      <4>. HIDE DEF n
      <4>4. mem[a].magic = "data" \/ ~ (n <= HeapBytes)
        BY <4>1, <2>4 DEF GoesOn, n
      <4>. QED
        BY <4>1, <4>3, <4>4, Layout
    <3>. QED
      BY <3>1, <3>2, <2>4
  <2>. QED
    BY <2>2, <2>3, <2>4
<1>. HIDE DEF V
<1>2. WalkSolves(mem, W)
  BY <1>1, Zenon DEF WalkSolves
<1>. QED
  BY <1>2

\* On a tiled heap the walk of heap_check ends at the end of the heap.
LEMMA WalkEnds ==
    ASSUME NEW G \in Nat, IsGranule(G), NEW T \in SUBSET Units, Exact(G, heap, T)
    PROVE  Walk = HeapBytes
<1>. DEFINE mem == heap.mem
            W == CHOOSE W : WalkSolves(mem, W)
<1>1. mem \in [Units -> Headers] /\ Tiles(G, mem, T)
  BY ExactParts
<1>2. Walk = W[0]
  BY DEF Walk, WalkSolves, Offsets
<1>. HIDE DEF mem
<1>3. WalkSolves(mem, W)
  BY <1>1, WalkExists
<1>. HIDE DEF W
<1>4. \A a \in Offsets :
        W[a] = IF a = HeapBytes THEN HeapBytes
               ELSE IF mem[a].magic = "data" THEN Unreadable
               ELSE IF next_block(mem, a) > HeapBytes THEN Unreadable
               ELSE W[next_block(mem, a)]
  <2>. DEFINE body(a) == IF a = HeapBytes THEN HeapBytes
                         ELSE IF mem[a].magic = "data" THEN Unreadable
                         ELSE IF next_block(mem, a) > HeapBytes THEN Unreadable
                         ELSE W[next_block(mem, a)]
  <2>1. W = [a \in Offsets |-> body(a)]
    BY <1>3, Zenon DEF WalkSolves
  <2>. HIDE DEF body
  <2>2. \A a \in Offsets : W[a] = body(a)
    BY <2>1
  <2>. QED
    BY <2>2 DEF body
<1>. DEFINE Good == {a \in Offsets : W[a] = HeapBytes}
<1>5. HeapBytes \in Good
  BY <1>4 DEF Offsets
<1>6. ASSUME NEW b \in T, next_block(mem, b) \in Good PROVE b \in Good
  <2>1. /\ b \in Nat /\ b < HeapBytes /\ b \in Units /\ mem[b].magic # "data"
        /\ next_block(mem, b) <= HeapBytes /\ mem[b].size \in Nat
        /\ next_block(mem, b) = b + HEADER_SIZE + mem[b].size
    BY <1>1, BlockFacts
  <2>2. b # HeapBytes /\ ~ (next_block(mem, b) > HeapBytes) /\ b \in Offsets
    BY <2>1, Layout DEF Offsets
  <2>3. W[b] = W[next_block(mem, b)]
    BY <2>1, <2>2, <1>4
  <2>. QED
    BY <2>2, <2>3, <1>6
<1>. HIDE DEF Good
<1>7. \A b \in T : b \in Good
  BY <1>1, <1>5, <1>6, BackwardOverBlocks
<1>8. 0 \in T
  BY <1>1 DEF Tiles
<1>. QED
  BY <1>2, <1>7, <1>8 DEF Good
\* The blocks the walk visits as an equation.
BlocksSolves(mem, B) ==
    B = [a \in Offsets |->
           IF a >= HeapBytes \/ mem[a].magic = "data" THEN {}
           ELSE {a} \cup (IF next_block(mem, a) > HeapBytes THEN {}
                          ELSE B[next_block(mem, a)])]

\* The equation has a solution.
LEMMA BlocksExists ==
    ASSUME NEW mem \in [Units -> Headers]
    PROVE  \E B : BlocksSolves(mem, B)
<1>. DEFINE Visited(x) == x < HeapBytes /\ mem[x].magic # "data"
            V(a) == {x \in Reach(mem, a) : Visited(x)}
            B == [a \in Offsets |-> V(a)]
<1>1. ASSUME NEW a \in Offsets
      PROVE  V(a) = IF a >= HeapBytes \/ mem[a].magic = "data" THEN {}
                    ELSE {a} \cup (IF next_block(mem, a) > HeapBytes THEN {}
                                   ELSE B[next_block(mem, a)])
  <2>. DEFINE n == next_block(mem, a)
  <2>1. Reach(mem, a) = {a} \cup (IF GoesOn(mem, a) THEN Reach(mem, n) ELSE {})
    BY ReachUnfolds
  <2>2. CASE a = HeapBytes
    <3>1. ~GoesOn(mem, a)
      BY <2>2, NextIsOffset
    <3>2. V(a) = {}
      BY <2>1, <2>2, <3>1, Layout
    <3>. QED
      BY <2>2, <3>2, Layout
  <2>3. CASE a \in Units
    <3>1. a \in Nat /\ a < HeapBytes /\ n \in Nat
      <4>1. a \in Nat /\ a < HeapBytes /\ mem[a].size \in Nat
        BY <2>3, HeaderFacts, Layout
      <4>. QED
        BY <4>1, Layout DEF next_block
    <3>2. CASE mem[a].magic = "data"
      <4>1. ~GoesOn(mem, a)
        BY <3>2 DEF GoesOn
      <4>2. V(a) = {}
        BY <2>1, <3>2, <4>1
      <4>. QED
        BY <3>2, <4>2
    <3>3. CASE mem[a].magic # "data" /\ n > HeapBytes
      <4>1. ~GoesOn(mem, a)
        BY <3>1, <3>3, Layout DEF GoesOn
      <4>2. Visited(a)
        BY <3>1, <3>3
      <4>. HIDE DEF Visited
      <4>3. V(a) = {a}
        BY <2>1, <4>1, <4>2
      <4>. HIDE DEF V, n
      <4>. QED
        BY <3>1, <3>3, <4>3, Layout DEF n
    <3>4. CASE mem[a].magic # "data" /\ n <= HeapBytes
      <4>1. GoesOn(mem, a)
        BY <2>3, <3>4 DEF GoesOn
      <4>2. n \in Offsets
        BY <4>1, NextIsOffset
      <4>3. Visited(a)
        BY <3>1, <3>4
      <4>. HIDE DEF Visited, n
      <4>4. \A x : x \in V(a) <=> x = a \/ x \in V(n)
        BY <2>1, <4>1, <4>3
      <4>5. B[n] = V(n)
        BY <4>2
      <4>. HIDE DEF V, B
      <4>6. V(a) = {a} \cup B[n]
        BY <4>4, <4>5
      <4>7. ~ (a >= HeapBytes \/ mem[a].magic = "data") /\ ~ (n > HeapBytes)
        BY <3>1, <3>4, Layout
      <4>. QED
        BY <4>6, <4>7, Zenon DEF n
    <3>. QED
      BY <3>1, <3>2, <3>3, <3>4, Layout
  <2>. QED
    BY <2>2, <2>3 DEF Offsets
<1>. HIDE DEF V
<1>2. BlocksSolves(mem, B)
  BY <1>1, Zenon DEF BlocksSolves
<1>. QED
  BY <1>2

\* On a tiled heap the walk visits the blocks of the tiling.
LEMMA BlocksTile ==
    ASSUME NEW G \in Nat, IsGranule(G), NEW T \in SUBSET Units, Exact(G, heap, T)
    PROVE  Blocks = T
<1>. DEFINE mem == heap.mem
            B == CHOOSE B : BlocksSolves(mem, B)
<1>1. mem \in [Units -> Headers] /\ Tiles(G, mem, T)
  BY ExactParts
<1>2. Blocks = B[0]
  BY DEF Blocks, BlocksSolves, Offsets
<1>. HIDE DEF mem
<1>3. BlocksSolves(mem, B)
  BY <1>1, BlocksExists
<1>. HIDE DEF B
<1>4. \A a \in Offsets :
        B[a] = IF a >= HeapBytes \/ mem[a].magic = "data" THEN {}
               ELSE {a} \cup (IF next_block(mem, a) > HeapBytes THEN {}
                              ELSE B[next_block(mem, a)])
  <2>. DEFINE body(a) == IF a >= HeapBytes \/ mem[a].magic = "data" THEN {}
                         ELSE {a} \cup (IF next_block(mem, a) > HeapBytes THEN {}
                                        ELSE B[next_block(mem, a)])
  <2>1. B = [a \in Offsets |-> body(a)]
    BY <1>3, Zenon DEF BlocksSolves
  <2>. HIDE DEF body
  <2>2. \A a \in Offsets : B[a] = body(a)
    BY <2>1
  <2>. QED
    BY <2>2 DEF body
<1>. DEFINE From(a) == {c \in T : c >= a}
            Good == {a \in Offsets : B[a] = From(a)}
<1>5. \A c \in T : c \in Units /\ c \in Nat /\ c < HeapBytes
  BY Layout
<1>6. HeapBytes \in Good
  <2>1. HeapBytes \in Offsets /\ HeapBytes >= HeapBytes
    BY Layout DEF Offsets
  <2>2. B[HeapBytes] = {}
    BY <1>4, <2>1
  <2>3. From(HeapBytes) = {}
    BY <1>5, Layout
  <2>. QED
    BY <2>1, <2>2, <2>3
<1>7. ASSUME NEW b \in T, next_block(mem, b) \in Good PROVE b \in Good
  <2>. DEFINE n == next_block(mem, b)
  <2>1. /\ b \in Nat /\ b < HeapBytes /\ b \in Units
        /\ mem[b].magic \in {"FREE", "USED"}
        /\ n <= HeapBytes /\ mem[b].size \in Nat
        /\ n = b + HEADER_SIZE + mem[b].size
    BY <1>1, BlockFacts
  <2>2. n \in Nat /\ b < n
    BY <2>1, Layout
  <2>3. /\ ~ (b >= HeapBytes \/ mem[b].magic = "data") /\ ~ (n > HeapBytes)
        /\ b \in Offsets
    BY <2>1, <2>2, Layout DEF Offsets
  <2>4. B[b] = {b} \cup B[n]
    <3>. HIDE DEF n
    <3>. QED
      BY <1>4, <2>3 DEF n
  <2>5. B[n] = From(n)
    BY <1>7
  <2>6. \A c \in T : b < c => n <= c
    BY <1>1 DEF Tiles
  <2>. HIDE DEF n
  <2>7. \A c : c \in From(b) <=> c \in {b} \cup From(n)
    <3>1. ASSUME NEW c \in T PROVE c >= b <=> c = b \/ c >= n
      BY <1>5, <2>1, <2>2, <2>6
    <3>. QED
      BY <3>1
  <2>. HIDE DEF From
  <2>8. B[b] = From(b)
    BY <2>4, <2>5, <2>7
  <2>. QED
    BY <2>3, <2>8
<1>8. 0 \in T
  BY <1>1 DEF Tiles
<1>9. 0 \in Good
  <2>. HIDE DEF Good
  <2>. QED
    BY <1>1, <1>6, <1>7, <1>8, BackwardOverBlocks
<1>10. B[0] = From(0)
  BY <1>9
<1>11. From(0) = T
  BY <1>5
<1>. QED
  BY <1>2, <1>10, <1>11

\* As many clients hold a pointer as there are used blocks.
LEMMA HoldersCount ==
    ASSUME NEW U \in SUBSET Nat, IsFiniteSet(U), NEW mem, slot \in Slots, Held(slot, mem, U)
    PROVE  Cardinality({c \in Clients : Holds(c)}) = Cardinality(U)
<1>. DEFINE held == {c \in Clients : Holds(c)}
            f == [c \in held |-> slot[c].ptr - HEADER_SIZE]
<1>1. \A c \in held : /\ c \in Clients /\ slot[c].ptr \in Nat
                      /\ slot[c].ptr # NULL /\ f[c] = slot[c].ptr - HEADER_SIZE
  BY DEF Slots, Holds
<1>2. f \in [held -> U]
  BY <1>1 DEF Held
<1>3. \A c, d \in held : f[c] = f[d] => c = d
  BY <1>1, Layout DEF Held
<1>4. \A b \in U : \E c \in held : f[c] = b
  <2>. SUFFICES ASSUME NEW b \in U PROVE \E c \in held : f[c] = b
    OBVIOUS
  <2>1. PICK c \in Clients : slot[c].ptr = b + HEADER_SIZE
    BY DEF Held
  <2>2. b \in Nat /\ slot[c].ptr # NULL
    BY <2>1, Layout DEF NULL
  <2>3. c \in held
    BY <2>2 DEF Holds
  <2>. QED
    BY <1>1, <2>1, <2>2, <2>3, Layout
<1>. HIDE DEF held, f
<1>5. f \in Injection(held, U)
  <2>1. DOMAIN f = held
    BY <1>2
  <2>. QED
    BY <1>2, <1>3, <2>1 DEF Injection, IsInjective
<1>6. f \in Surjection(held, U)
  BY <1>2, <1>4 DEF Surjection
<1>. QED
  BY <1>5, <1>6, FS_Injection DEF held
----------------------------------------------------------------------------
\* What the invariant says of the module's properties.

\* heap_check and the walk of heap_get_stats see the tiling.
LEMMA InvChain ==
    ASSUME NEW G \in Nat, IsGranule(G), HeapInv(G)
    PROVE  /\ HeapCheckPasses /\ FreeListExact
           /\ PanicsOnMisuseOnly /\ NullOnlyWithoutFit
<1>1. PICK T \in SUBSET Units : HeapAt(G, T)
  BY DEF HeapInv
<1>2. Exact(G, heap, T)
  BY <1>1 DEF HeapAt
<1>3. HeapCheckPasses
  BY <1>2, WalkEnds DEF HeapCheckPasses, heap_check
<1>4. Blocks = T
  BY <1>2, BlocksTile
<1>5. FreeListExact
  <2>. DEFINE list == heap.free_list
              Free == {b \in Blocks : heap.mem[b].magic = "FREE"}
  <2>1. Lists(list, Free) /\ heap.free_blocks = Len(list) /\ heap.total_blocks = Cardinality(T)
    BY <1>2, <1>4 DEF Exact, FreeIn
  <2>. HIDE DEF Free
  <2>2. {list[i] : i \in DOMAIN list} = Free
    <3>1. \A i \in DOMAIN list : list[i] \in Free
      BY <2>1 DEF Lists
    <3>. QED
      BY <2>1, <3>1 DEF Lists
  <2>. QED
    BY <1>4, <2>1, <2>2 DEF FreeListExact, Lists, Free
<1>6. PanicsOnMisuseOnly
  BY DEF HeapInv, HeapTypes, PanicsOnMisuseOnly
<1>7. NullOnlyWithoutFit
  BY <1>1, <1>4 DEF HeapAt, NoFit, FreeIn, NullOnlyWithoutFit
<1>. QED
  BY <1>3, <1>5, <1>6, <1>7

\* The clients' pointers are backed by used blocks.
LEMMA InvBacked ==
    ASSUME NEW G \in Nat, IsGranule(G), HeapInv(G)
    PROVE  LiveBlocksBacked /\ LiveBytesDisjoint
<1>1. PICK T \in SUBSET Units : HeapAt(G, T)
  BY DEF HeapInv
<1>. DEFINE mem == heap.mem
            Used == UsedIn(mem, T)
<1>2. /\ Exact(G, heap, T) /\ Held(slot, mem, Used)
      /\ slot \in Slots /\ mem \in [Units -> Headers] /\ Tiles(G, mem, T)
      /\ heap.outstanding = Cardinality(Used)
  <2>1. Exact(G, heap, T) /\ Held(slot, mem, Used) /\ slot \in Slots
    BY <1>1 DEF HeapAt, HeapInv, HeapTypes
  <2>. QED
    BY <2>1, ExactParts DEF Exact
<1>3. Blocks = T
  BY <1>2, BlocksTile
<1>4. Used \in SUBSET Nat /\ IsFiniteSet(Used)
  <2>1. IsFiniteSet(T) /\ Used \subseteq T
    BY BlocksFinite DEF UsedIn
  <2>2. T \subseteq Nat
    BY Layout
  <2>. QED
    BY <2>1, <2>2, FS_Subset
<1>5. \A c \in Clients : slot[c].ptr \in Nat /\ slot[c].size \in Nat
  BY <1>2 DEF Slots
<1>6. Cardinality({c \in Clients : Holds(c)}) = Cardinality(Used)
  <2>. HIDE DEF Used, mem
  <2>. QED
    BY <1>2, <1>4, HoldersCount
<1>7. LiveBlocksBacked
  <2>1. \A c \in Clients : Holds(c) =>
          /\ slot[c].ptr - HEADER_SIZE \in Used
          /\ slot[c].size <= mem[slot[c].ptr - HEADER_SIZE].size
    BY <1>2 DEF Held, Holds
  <2>2. \A c \in Clients : Holds(c) =>
          /\ slot[c].ptr - HEADER_SIZE \in Blocks
          /\ mem[slot[c].ptr - HEADER_SIZE].magic = "USED"
          /\ mem[slot[c].ptr - HEADER_SIZE].size >= slot[c].size
    <3>. SUFFICES ASSUME NEW c \in Clients, Holds(c)
                  PROVE  /\ slot[c].ptr - HEADER_SIZE \in Blocks
                         /\ mem[slot[c].ptr - HEADER_SIZE].magic = "USED"
                         /\ mem[slot[c].ptr - HEADER_SIZE].size >= slot[c].size
      OBVIOUS
    <3>1. PICK b \in Used : b = slot[c].ptr - HEADER_SIZE /\ slot[c].size <= mem[b].size
      BY <2>1
    <3>2. b \in T /\ mem[b].magic = "USED" /\ mem[b].size \in Nat
      BY <1>2, HeaderFacts DEF UsedIn
    <3>. QED
      BY <1>3, <1>5, <3>1, <3>2
  <2>3. \A c, d \in Clients : Holds(c) /\ slot[c].ptr = slot[d].ptr => c = d
    BY <1>2 DEF Held, Holds
  <2>4. Used = {b \in Blocks : mem[b].magic = "USED"}
    BY <1>3 DEF UsedIn
  <2>. QED
    BY <1>2, <1>6, <2>2, <2>3, <2>4 DEF LiveBlocksBacked
<1>8. LiveBytesDisjoint
  <2>1. ASSUME NEW c \in Clients, NEW d \in Clients, Holds(c), Holds(d),
               slot[c].ptr < slot[d].ptr
        PROVE  slot[c].ptr + slot[c].size <= slot[d].ptr
    <3>1. PICK b \in Used : b = slot[c].ptr - HEADER_SIZE /\ slot[c].size <= mem[b].size
      BY <1>2, <2>1 DEF Held, Holds
    <3>2. PICK e \in Used : e = slot[d].ptr - HEADER_SIZE
      BY <1>2, <2>1 DEF Held, Holds
    <3>3. b \in T /\ e \in T /\ b \in Nat /\ e \in Nat
      BY <1>4 DEF UsedIn
    <3>4. b < e
      BY <1>5, <2>1, <3>1, <3>2, <3>3, Layout
    <3>5. next_block(mem, b) <= e
      BY <1>2, <3>3, <3>4 DEF Tiles
    <3>6. next_block(mem, b) = b + HEADER_SIZE + mem[b].size /\ mem[b].size \in Nat
      <4>. HIDE DEF mem
      <4>. QED
        BY <1>2, <3>3, BlockFacts
    <3>. HIDE DEF mem
    <3>. QED
      BY <1>5, <3>1, <3>2, <3>3, <3>5, <3>6, Layout
  <2>2. \A c, d \in Clients : Holds(c) /\ c # d => slot[c].ptr # slot[d].ptr
    BY <1>2 DEF Held, Holds
  <2>. QED
    BY <1>5, <2>1, <2>2 DEF LiveBytesDisjoint
<1>. QED
  BY <1>7, <1>8
----------------------------------------------------------------------------
(***************************************************************************)
(* The theorems.                                                           *)
(***************************************************************************)

\* The inductive invariant of the clean behaviours: the units are its granule.
IInv == HeapInv(HEAP_ALIGNMENT)

\* In every reachable state a set of blocks tiles the heap, the free list and
\* the counters describe that set exactly, the clients' pointers correspond
\* to its used blocks, and the kernel has panicked only after misuse.
THEOREM HeapInvariant == CleanSpec => []IInv
<1>1. HEAP_ALIGNMENT \in Nat /\ IsGranule(HEAP_ALIGNMENT)
  BY Layout DEF IsGranule
<1>2. Init => IInv
  BY <1>1, HeapInit DEF IInv
<1>3. IInv /\ [CleanNext]_vars => IInv'
  <2>. SUFFICES ASSUME IInv, [CleanNext]_vars PROVE IInv'
    OBVIOUS
  <2>1. HeapInv(HEAP_ALIGNMENT) /\ [Next]_vars
    BY DEF IInv, CleanNext
  <2>2. CASE UNCHANGED vars
    BY <2>1, <2>2 DEF IInv, vars, HeapInv, HeapTypes, HeapAt
  <2>3. CASE CleanNext
    <3>1. Next /\ Clean(heap, last'.size)
      BY <2>3 DEF CleanNext
    <3>2. last'.size \in 0 .. (SizeSpace - 1)
      BY <2>1, <3>1, StepRequest
    <3>3. PICK n \in 0 .. (SizeSpace - 1) : n = last'.size
      BY <3>2
    <3>4. OnGrid(HEAP_ALIGNMENT, ALIGN_UP(n) + HEADER_SIZE)
      BY <1>1, AlignUpOnGrid, GridSum, Layout
    <3>5. Sound(HEAP_ALIGNMENT, heap, last'.size)
      BY <3>1, <3>3, <3>4 DEF Sound
    <3>. QED
      BY <1>1, <2>1, <3>5, HeapStep DEF IInv
  <2>. QED
    BY <2>2, <2>3
<1>. QED
  BY <1>2, <1>3, PTL DEF CleanSpec

\* What the invariant says in every state.
LEMMA InvImplies ==
    ASSUME IInv
    PROVE  /\ HeapCheckPasses /\ FreeListExact /\ LiveBlocksBacked
           /\ LiveBytesDisjoint /\ PanicsOnMisuseOnly /\ NullOnlyWithoutFit
<1>1. HEAP_ALIGNMENT \in Nat /\ IsGranule(HEAP_ALIGNMENT)
  BY Layout DEF IsGranule
<1>. QED
  BY <1>1, InvChain, InvBacked DEF IInv

\* heap_check never reports damage: allocating, splitting, freeing, merging,
\* moving and clients filling their memory leave a chain of valid headers
\* from g_heap_start to exactly g_heap_end.
THEOREM HeapCheckAlwaysPasses == CleanSpec => []HeapCheckPasses
  BY HeapInvariant, InvImplies, PTL

\* The free list holds every free block once and nothing else, and the
\* counters of heap_get_stats count the blocks, whatever stale headers merges
\* and copies leave in memory.
THEOREM FreeListAlwaysExact == CleanSpec => []FreeListExact
  BY HeapInvariant, InvImplies, PTL

\* Every pointer a client holds is the payload of a used block of its own, as
\* large as it asked for, and no used block is lost.
THEOREM LiveBlocksAlwaysBacked == CleanSpec => []LiveBlocksBacked
  BY HeapInvariant, InvImplies, PTL

\* The bytes two clients asked for never overlap.  After a remainder that is
\* too small for a block they may.
THEOREM LiveBytesNeverOverlap == CleanSpec => []LiveBytesDisjoint
  BY HeapInvariant, InvImplies, PTL

\* The checks of heap_alloc and heap_free panic exactly when a pointer nobody
\* holds was freed: no order of legal calls trips them, and no double or wild
\* free passes them.
THEOREM PanicMeansMisuse == CleanSpec => []PanicsOnMisuseOnly
  BY HeapInvariant, InvImplies, PTL

\* A request heap_alloc refuses is larger than every free block of the chain.
THEOREM NullMeansNoFit == CleanSpec => []NullOnlyWithoutFit
  BY HeapInvariant, InvImplies, PTL

(***************************************************************************)
(* Requests that keep every behaviour clean.                               *)
(***************************************************************************)

\* Header and payload of every request that heap_alloc tries to serve fill
\* whole granules of G bytes, and a granule has room for a block.
Fills(G) ==
    /\ G \in Nat /\ IsGranule(G) /\ G >= HEADER_SIZE + HEAP_ALIGNMENT
    /\ \A size \in Requests :
         size # 0 /\ ALIGN_UP(size) <= UInt32Max =>
           size <= ALIGN_UP(size) /\ OnGrid(G, ALIGN_UP(size) + HEADER_SIZE)
Granular == \E G : Fills(G)

\* When all blocks are on a granule's grid, what is left of one is nothing or
\* a granule.
LEMMA GranularIsSound ==
    ASSUME NEW G, Fills(G), NEW T \in SUBSET Units, Exact(G, heap, T),
           NEW size \in Requests
    PROVE  Sound(G, heap, size)
<1>. DEFINE r == heap_alloc(heap, size)
            aligned == ALIGN_UP(size)
<1>1. /\ G \in Nat /\ IsGranule(G) /\ G > 0 /\ G >= HEADER_SIZE + HEAP_ALIGNMENT
      /\ size \in 0 .. (SizeSpace - 1)
  BY HeapAssumption DEF Fills, IsGranule, Requests
<1>2. aligned \in Nat
  BY <1>1, AlignUpBound
<1>3. Refuses(heap, T, size, r) \/ \E i : Chooses(heap, T, size, i, r)
  BY <1>1, AllocChoice
<1>4. CASE Refuses(heap, T, size, r)
  BY <1>4 DEF Refuses, Sound, Clean
<1>5. ASSUME NEW i, Chooses(heap, T, size, i, r) PROVE Sound(G, heap, size)
  <2>. DEFINE b == heap.free_list[i]
              s == heap.mem[b].size
  <2>1. /\ b \in FreeIn(heap.mem, T) /\ size # 0 /\ aligned <= UInt32Max
        /\ aligned <= s /\ r.ptr = b + HEADER_SIZE
    BY <1>5 DEF Chooses
  <2>2. size <= aligned /\ OnGrid(G, aligned + HEADER_SIZE)
    BY <2>1 DEF Fills
  <2>3. b \in T /\ heap.mem \in [Units -> Headers] /\ Tiles(G, heap.mem, T)
    BY <2>1, ExactParts DEF FreeIn
  <2>4. b \in Nat /\ s \in Nat /\ OnGrid(G, HEADER_SIZE + s)
    BY <1>1, <2>3, BlockFacts
  <2>. HIDE DEF b, s, aligned, r
  <2>5. r.ptr - HEADER_SIZE = b
    BY <2>1, <2>4, Layout
  <2>. DEFINE e == HEADER_SIZE + s
              f == aligned + HEADER_SIZE
  <2>6. OnGrid(G, e) /\ OnGrid(G, f) /\ f <= e /\ e - f = s - aligned /\ s - aligned \in Nat
    BY <1>2, <2>1, <2>2, <2>4, Layout
  <2>. HIDE DEF e, f
  <2>7. OnGrid(G, e - f)
    BY <1>1, <2>6, GridSum
  <2>8. s - aligned = 0 \/ s - aligned >= HEADER_SIZE + HEAP_ALIGNMENT
    <3>1. e - f # 0 => e - f >= G
      BY <1>1, <2>7, GridGap
    <3>. QED
      BY <3>1, <1>1, <2>6, Layout
  <2>. QED
    BY <2>2, <2>5, <2>8 DEF Sound, Clean, r, aligned, s
<1>. QED
  BY <1>3, <1>4, <1>5

\* With such requests every behaviour is clean, so that all the theorems
\* above hold of it: it is the odd remainder alone that breaks the heap.
THEOREM GranularRequestsStayClean ==
    ASSUME Granular
    PROVE  Spec => CleanSpec
<1>. DEFINE GInv == \E G : Fills(G) /\ HeapInv(G)
<1>1. Init => GInv
  BY HeapInit DEF Granular, Fills
<1>2. GInv /\ [Next]_vars => GInv' /\ [CleanNext]_vars
  <2>. SUFFICES ASSUME GInv, [Next]_vars PROVE GInv' /\ [CleanNext]_vars
    OBVIOUS
  <2>1. PICK G : Fills(G) /\ HeapInv(G)
    OBVIOUS
  <2>2. G \in Nat /\ IsGranule(G)
    BY <2>1 DEF Fills
  <2>3. ASSUME Next PROVE Sound(G, heap, last'.size)
    <3>1. PICK T \in SUBSET Units : Exact(G, heap, T)
      BY <2>1 DEF HeapInv, HeapAt
    <3>2. last'.size \in Requests \cup {0}
      BY <2>1, <2>3, StepRequest
    <3>3. CASE last'.size \in Requests
      <4>1. PICK n \in Requests : n = last'.size
        BY <3>3
      <4>2. Sound(G, heap, n)
        BY <2>1, <3>1, GranularIsSound
      <4>. QED
        BY <4>1, <4>2
    <3>4. CASE last'.size = 0
      BY <3>4 DEF Sound, Clean, heap_alloc, Result
    <3>. QED
      BY <3>2, <3>3, <3>4
  <2>4. HeapInv(G)'
    BY <2>1, <2>2, <2>3, HeapStep
  <2>5. [CleanNext]_vars
    BY <2>3 DEF CleanNext, Sound
  <2>. QED
    BY <2>1, <2>4, <2>5
<1>. HIDE DEF GInv
<1>. QED
  BY <1>1, <1>2, PTL DEF Spec, CleanSpec
=============================================================================
