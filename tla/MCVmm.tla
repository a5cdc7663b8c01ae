------------------------------- MODULE MCVmm -------------------------------
(***************************************************************************)
(* Small machines for Vmm: tables of 8 entries, a 4096-page virtual space  *)
(* whose last 64 pages are the higher half.                                *)
(***************************************************************************)
EXTENDS Vmm

SeqOf(lo, hi) == [i \in 1 .. (hi - lo + 1) |-> lo + i - 1]

Machine(usable, freePages) ==
    [kernel |-> SeqOf(2, 3), usable |-> usable, framebuffer |-> SeqOf(30, 31),
     heap |-> SeqOf(4, 5), free |-> freePages]

\* RAM at 4..21, all of it below the size of the higher half, of which k
\* pages are left: from none to enough, so that allocations fail everywhere.
Low == {Machine(SeqOf(4, 21), 6 .. (5 + k)) : k \in 0 .. 16}

\* An address of a root slot no kernel mapping uses, and one in a used slot.
OutsideRam == {1000, 40}
Devices == {50}
=============================================================================
