-------------------------------- MODULE Heap --------------------------------
(***************************************************************************)
(* The kernel heap (src/kernel/mm/heap.c) and its public face kmalloc.c.   *)
(*                                                                         *)
(* A pointer is an offset from g_heap_start, which is page aligned.  The   *)
(* heap is an array of aligned units: a unit holds the first bytes of a    *)
(* block header (its magic and size) or anything else, written Data; the   *)
(* header's second unit (flags and padding) is Data.  Headers of blocks    *)
(* that were merged away stay in memory until something overwrites them.   *)
(* The free list, threaded through next_free, is the sequence of the       *)
(* blocks on it.  A client is a holder of at most one pointer.             *)
(***************************************************************************)
EXTENDS Integers, Sequences, FiniteSets

CONSTANTS
    HeapBytes,          \* HEAP_INITIAL_PAGES * 4096
    HEADER_SIZE, HEAP_ALIGNMENT,
    SizeSpace,          \* 2^64: size_t wraps here
    UInt32Max,          \* (uint32_t)-1
    Clients,
    Sizes,              \* the sizes clients ask kmalloc and krealloc for
    Arrays              \* the <<n, size>> clients ask kcalloc for

ASSUME HeapAssumption ==
    /\ HEAP_ALIGNMENT \in Nat \ {0} /\ HEADER_SIZE = 2 * HEAP_ALIGNMENT
    /\ HeapBytes \in Nat /\ HeapBytes % HEAP_ALIGNMENT = 0
    /\ HeapBytes > HEADER_SIZE
    /\ UInt32Max \in Nat /\ HeapBytes <= UInt32Max /\ UInt32Max < SizeSpace
    /\ SizeSpace \in Nat /\ SizeSpace % HEAP_ALIGNMENT = 0
    /\ Sizes \subseteq 0 .. (SizeSpace - 1)
    /\ Arrays \subseteq (0 .. (SizeSpace - 1)) \X (0 .. (SizeSpace - 1))

VARIABLES
    heap,               \* mem: the units; free_list: the blocks on it;
                        \* total_blocks, free_blocks: the counters;
                        \* outstanding: g_alloc_count - g_free_count
    slot,               \* what each client holds: the pointer, the bytes asked for
    panicked,
    last,               \* the last request heap_alloc served, and its fate
    misused             \* ghost: a pointer nobody holds was freed

vars == <<heap, slot, panicked, last, misused>>

NULL == 0
Data == [magic |-> "data", size |-> 0]
Units == {a \in 0 .. (HeapBytes - 1) : a % HEAP_ALIGNMENT = 0}
Empty == [ptr |-> NULL, size |-> 0]
NoRequest == [size |-> 0, failed |-> FALSE]
----------------------------------------------------------------------------
\* Helpers of heap.c.

ALIGN_UP(x) ==
    LET y == (x + HEAP_ALIGNMENT - 1) % SizeSpace IN y - (y % HEAP_ALIGNMENT)

next_block(mem, b) == b + HEADER_SIZE + mem[b].size

\* A write of a whole header: its second unit is overwritten too.
PutHeader(mem, b, magic, size) ==
    [mem EXCEPT ![b] = [magic |-> magic, size |-> size],
                ![b + HEAP_ALIGNMENT] = Data]

Without(list, i) == SubSeq(list, 1, i - 1) \o SubSeq(list, i + 1, Len(list))

\* The search for the block's predecessor stops at the first link to it.
RemoveBlock(list, b) ==
    LET at == {i \in DOMAIN list : list[i] = b} IN
    IF at = {} THEN list ELSE Without(list, CHOOSE i \in at : \A j \in at : i <= j)
----------------------------------------------------------------------------
\* heap_alloc.  The result is the new state, the pointer and whether the
\* free-list check panicked.

Result(h, ptr, panic) == [heap |-> h, ptr |-> ptr, panic |-> panic]

\* The chosen block keeps the aligned size in both cases; only a remainder
\* that can hold a header and one unit becomes a block.
TakeBlock(h, i, aligned) ==
    LET b == h.free_list[i]
        remaining == h.mem[b].size - aligned
        new_b == b + HEADER_SIZE + aligned
        split == remaining >= HEADER_SIZE + HEAP_ALIGNMENT
        carved == IF split
                  THEN PutHeader(h.mem, new_b, "FREE", remaining - HEADER_SIZE)
                  ELSE h.mem
    IN  [mem |-> PutHeader(carved, b, "USED", aligned),
         free_list |-> IF split THEN [h.free_list EXCEPT ![i] = new_b]
                       ELSE Without(h.free_list, i),
         total_blocks |-> h.total_blocks + (IF split THEN 1 ELSE 0),
         free_blocks |-> h.free_blocks - (IF split THEN 0 ELSE 1),
         outstanding |-> h.outstanding + 1]

\* MUTANT: the search gives up after the first block of the list.
heap_alloc_FirstOnly(h, size) ==
    LET aligned == ALIGN_UP(size) IN
    IF size = 0 \/ aligned > UInt32Max \/ h.free_list = <<>>
       \/ h.mem[h.free_list[1]].size < aligned
    THEN Result(h, NULL, FALSE)
    ELSE Result(TakeBlock(h, 1, aligned), h.free_list[1] + HEADER_SIZE, FALSE)

heap_alloc(h, size) ==
    LET aligned == ALIGN_UP(size)
        BadMagic(i) == h.mem[h.free_list[i]].magic # "FREE"
        Fits(i) == h.mem[h.free_list[i]].size >= aligned
        stops == {i \in DOMAIN h.free_list : BadMagic(i) \/ Fits(i)}
        i == CHOOSE i \in stops : \A j \in stops : i <= j
    IN  CASE size = 0 \/ aligned > UInt32Max \/ stops = {} -> Result(h, NULL, FALSE)
          [] OTHER ->
               IF BadMagic(i) THEN Result(h, NULL, TRUE)
               ELSE Result(TakeBlock(h, i, aligned),
                           h.free_list[i] + HEADER_SIZE, FALSE)
----------------------------------------------------------------------------
\* heap_free of a pointer into the heap (a pointer outside it panics).  The
\* block goes to the head of the list, then absorbs the block after it.

Release(h, b) ==
    [h EXCEPT !.mem = PutHeader(@, b, "FREE", h.mem[b].size),
              !.free_list = <<b>> \o @,
              !.free_blocks = @ + 1,
              !.outstanding = @ - 1]

\* MUTANT: the merged size forgets the header of the absorbed block.
Coalesce_LosesHeader(h, b) ==
    LET next == next_block(h.mem, b) IN
    IF next < HeapBytes /\ h.mem[next].magic = "FREE"
    THEN [h EXCEPT !.mem[b].size = @ + h.mem[next].size,
                   !.free_list = RemoveBlock(@, next),
                   !.free_blocks = @ - 1,
                   !.total_blocks = @ - 1]
    ELSE h

\* MUTANT: the absorbed block stays on the free list.
Coalesce_KeepsListed(h, b) ==
    LET next == next_block(h.mem, b) IN
    IF next < HeapBytes /\ h.mem[next].magic = "FREE"
    THEN [h EXCEPT !.mem[b].size = @ + HEADER_SIZE + h.mem[next].size,
                   !.free_blocks = @ - 1,
                   !.total_blocks = @ - 1]
    ELSE h

Coalesce(h, b) ==
    LET next == next_block(h.mem, b) IN
    IF next < HeapBytes /\ h.mem[next].magic = "FREE"
    THEN [h EXCEPT !.mem[b].size = @ + HEADER_SIZE + h.mem[next].size,
                   !.free_list = RemoveBlock(@, next),
                   !.free_blocks = @ - 1,
                   !.total_blocks = @ - 1]
    ELSE h

\* MUTANT: the bounds check takes a block at the very end for a wild pointer.
heap_free_ShortBounds(h, ptr) ==
    LET b == ptr - HEADER_SIZE IN
    IF ptr = NULL THEN Result(h, NULL, FALSE)
    ELSE IF ptr + HEADER_SIZE >= HeapBytes \/ h.mem[b].magic # "USED"
    THEN Result(h, NULL, TRUE)
    ELSE Result(Coalesce(Release(h, b), b), NULL, FALSE)

heap_free(h, ptr) ==
    LET b == ptr - HEADER_SIZE IN
    IF ptr = NULL THEN Result(h, NULL, FALSE)
    ELSE IF ptr >= HeapBytes \/ h.mem[b].magic # "USED" THEN Result(h, NULL, TRUE)
    ELSE Result(Coalesce(Release(h, b), b), NULL, FALSE)
----------------------------------------------------------------------------
\* The clients' calls.

Init ==
    /\ heap = [mem |-> [a \in Units |-> IF a = 0
                          THEN [magic |-> "FREE", size |-> HeapBytes - HEADER_SIZE]
                          ELSE Data],
               free_list |-> <<0>>, total_blocks |-> 1, free_blocks |-> 1,
               outstanding |-> 0]
    /\ slot = [c \in Clients |-> Empty]
    /\ panicked = FALSE /\ misused = FALSE
    /\ last = NoRequest

Hold(ptr, size) == IF ptr = NULL THEN Empty ELSE [ptr |-> ptr, size |-> size]
Holds(c) == slot[c].ptr # NULL

kmalloc(c, size) ==
    LET r == heap_alloc(heap, size) IN
    /\ ~panicked /\ ~Holds(c)
    /\ heap' = r.heap /\ panicked' = r.panic
    /\ slot' = [slot EXCEPT ![c] = Hold(r.ptr, size)]
    /\ last' = [size |-> size, failed |-> r.ptr = NULL]

\* n * size bytes; the zeroing writes over the whole payload.
Written(mem, ptr, bytes) ==
    [a \in Units |-> IF ptr <= a /\ a < ptr + bytes THEN Data ELSE mem[a]]

kcalloc(c, n, size) ==
    LET total == n * size
        overflow == n * size >= SizeSpace
        r == IF n = 0 \/ size = 0 \/ overflow THEN Result(heap, NULL, FALSE)
             ELSE heap_alloc(heap, total)
    IN  /\ ~panicked /\ ~Holds(c)
        /\ heap' = IF r.ptr = NULL THEN r.heap
                   ELSE [r.heap EXCEPT !.mem = Written(@, r.ptr, total)]
        /\ panicked' = r.panic
        /\ slot' = [slot EXCEPT ![c] = Hold(r.ptr, total)]
        /\ last' = IF overflow THEN NoRequest
                   ELSE [size |-> total, failed |-> r.ptr = NULL]

\* A client frees what it holds, or NULL.
kfree(c) ==
    LET r == heap_free(heap, slot[c].ptr) IN
    /\ ~panicked
    /\ heap' = r.heap /\ panicked' = r.panic
    /\ slot' = [slot EXCEPT ![c] = Empty]
    /\ last' = NoRequest

\* The copy moves whatever the old payload holds, stale headers included.
Copied(mem, from, to, bytes) ==
    [a \in Units |-> IF to <= a /\ a < to + bytes THEN mem[from + a - to] ELSE mem[a]]

\* MUTANT: the old block is not freed after the copy.
krealloc_LeaksOld(c, new_size) ==
    LET r == heap_alloc(heap, new_size) IN
    /\ ~panicked /\ Holds(c) /\ new_size # 0
    /\ heap' = r.heap /\ panicked' = r.panic
    /\ slot' = IF r.ptr = NULL THEN slot
               ELSE [slot EXCEPT ![c] = Hold(r.ptr, new_size)]
    /\ last' = [size |-> new_size, failed |-> r.ptr = NULL]

krealloc(c, new_size) ==
    LET old == slot[c].ptr
        old_size == heap.mem[old - HEADER_SIZE].size
        copy_size == IF old_size < new_size THEN old_size ELSE new_size
        r == heap_alloc(heap, new_size)
        copied == [r.heap EXCEPT !.mem = Copied(@, old, r.ptr, copy_size)]
        f == heap_free(copied, old)
    IN  /\ ~panicked /\ Holds(c) /\ new_size # 0
        /\ IF r.ptr = NULL
           THEN /\ heap' = r.heap /\ panicked' = r.panic
                /\ UNCHANGED slot
           ELSE /\ heap' = f.heap /\ panicked' = f.panic
                /\ slot' = [slot EXCEPT ![c] = Hold(r.ptr, new_size)]
        /\ last' = [size |-> new_size, failed |-> r.ptr = NULL]

\* A client fills the memory it asked for.
UserWrite(c) ==
    /\ ~panicked /\ Holds(c)
    /\ heap' = [heap EXCEPT !.mem = Written(@, slot[c].ptr, slot[c].size)]
    /\ last' = NoRequest
    /\ UNCHANGED <<slot, panicked>>

\* A client frees a pointer into the heap that nobody holds: one it freed
\* before and that was not handed out again, or a wild one.
FreeUnheld(ptr) ==
    LET r == heap_free(heap, ptr) IN
    /\ ~panicked /\ \A c \in Clients : slot[c].ptr # ptr
    /\ heap' = r.heap /\ panicked' = r.panic
    /\ misused' = TRUE /\ last' = NoRequest
    /\ UNCHANGED slot

Call(c) ==
    \/ \E size \in Sizes : kmalloc(c, size)
    \/ \E a \in Arrays : kcalloc(c, a[1], a[2])
    \/ \E size \in Sizes : krealloc(c, size)
    \/ kfree(c)
    \/ UserWrite(c)

Next ==
    \/ \E c \in Clients : Call(c) /\ UNCHANGED misused
    \/ \E ptr \in {u \in Units : u >= HEADER_SIZE} : FreeUnheld(ptr)

Spec == Init /\ [][Next]_vars
----------------------------------------------------------------------------
\* heap_check and the block walk of heap_get_stats.

Unreadable == -1

\* The offset the walk of heap_check stops at: HeapBytes when every block
\* has a magic and the last one ends at g_heap_end.
Walk == LET W[a \in Units \cup {HeapBytes}] ==
                IF a = HeapBytes THEN HeapBytes
                ELSE IF heap.mem[a].magic = "data" THEN Unreadable
                ELSE IF next_block(heap.mem, a) > HeapBytes THEN Unreadable
                ELSE W[next_block(heap.mem, a)]
        IN  W[0]
heap_check == Walk = HeapBytes

\* The blocks the walk visits.
Blocks == LET B[a \in Units \cup {HeapBytes}] ==
                  IF a >= HeapBytes \/ heap.mem[a].magic = "data" THEN {}
                  ELSE {a} \cup (IF next_block(heap.mem, a) > HeapBytes THEN {}
                                 ELSE B[next_block(heap.mem, a)])
          IN  B[0]
----------------------------------------------------------------------------
\* Properties.

\* heap_check never reports damage: the chain of blocks from g_heap_start
\* has a valid magic at every step and ends exactly at g_heap_end.
HeapCheckPasses == ~panicked => heap_check

\* The free list holds every free block of the chain once and nothing else,
\* and g_free_blocks and g_total_blocks count them, although heap_free
\* leaves stale FREE headers behind inside merged blocks.
FreeListExact ==
    ~panicked =>
      LET list == heap.free_list IN
      /\ \A i, j \in DOMAIN list : list[i] = list[j] => i = j
      /\ {list[i] : i \in DOMAIN list} = {b \in Blocks : heap.mem[b].magic = "FREE"}
      /\ heap.free_blocks = Len(list)
      /\ heap.total_blocks = Cardinality(Blocks)

\* Every pointer a client holds is the payload of a USED block of the chain
\* at least as large as it asked for, no two hold the same block, and there
\* is no USED block nobody holds.
LiveBlocksBacked ==
    ~panicked =>
      LET held == {c \in Clients : Holds(c)} IN
      /\ \A c \in held :
           /\ slot[c].ptr - HEADER_SIZE \in Blocks
           /\ heap.mem[slot[c].ptr - HEADER_SIZE].magic = "USED"
           /\ heap.mem[slot[c].ptr - HEADER_SIZE].size >= slot[c].size
      /\ \A c, d \in held : c # d => slot[c].ptr # slot[d].ptr
      /\ Cardinality(held) = Cardinality({b \in Blocks : heap.mem[b].magic = "USED"})
      /\ Cardinality(held) = heap.outstanding

\* The bytes clients asked for never overlap.
LiveBytesDisjoint ==
    \A c, d \in Clients :
      c # d /\ Holds(c) /\ Holds(d) =>
        \/ slot[c].ptr + slot[c].size <= slot[d].ptr
        \/ slot[d].ptr + slot[d].size <= slot[c].ptr

\* A panic fires exactly when a pointer nobody holds is freed: the magic
\* checks of heap_alloc and heap_free never meet a damaged header otherwise,
\* and the check of heap_free recognises every such pointer, also when its
\* header was merged away, overwritten by another client or copied.
PanicsOnMisuseOnly == panicked = misused

\* heap_alloc returns NULL, for a size that is not zero and fits 32 bits,
\* only when no free block of the chain is large enough.
NullOnlyWithoutFit ==
    last.failed /\ last.size # 0 =>
      \A b \in Blocks : heap.mem[b].magic = "FREE" => heap.mem[b].size < last.size
=============================================================================
