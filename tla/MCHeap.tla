------------------------------- MODULE MCHeap -------------------------------
(***************************************************************************)
(* Instances of Heap.  Alignment 2 and headers of 4 bytes stand for 16 and *)
(* 32; size_t wraps at 128.                                                *)
(***************************************************************************)
EXTENDS Heap, TLC

CONSTANTS c1, c2, c3

MCClients2 == {c1, c2}
MCClients3 == {c1, c2, c3}
Perms == Permutations(Clients)

\* Header and payload fill whole granules of 8 bytes, so a remainder is 0 or
\* can hold a block: what sizes of 32, 96, 160... bytes are to the kernel.
GranuleSizes == {0, 3, 4, 12, 20}
GranuleArrays == {<<3, 4>>, <<16, 8>>}
\* Sizes that leave remainders too small for a block.
MixedSizes == {2, 4, 6, 8}
NoArrays == {}
=============================================================================
