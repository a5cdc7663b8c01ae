------------------------------ MODULE MCLoader ------------------------------
(***************************************************************************)
(* Images of up to two segments in any order, with gaps, unaligned ends, a *)
(* bss and a header that is not PT_LOAD, and damaged files.                *)
(***************************************************************************)
EXTENDS Loader

Seg(load, paddr, filesz, memsz) ==
    [load |-> load, paddr |-> paddr, filesz |-> filesz, memsz |-> memsz]
MCElfs ==
    {[valid |-> TRUE, phdr |-> <<Seg(TRUE, 5, 3, 5), Seg(FALSE, 0, 1, 1), Seg(TRUE, 12, 2, 2)>>],
     [valid |-> TRUE, phdr |-> <<Seg(TRUE, 9, 1, 6), Seg(TRUE, 4, 3, 3)>>],
     [valid |-> TRUE, phdr |-> <<Seg(FALSE, 4, 2, 2)>>],
     [valid |-> FALSE, phdr |-> <<Seg(TRUE, 4, 2, 2)>>]}
=============================================================================
