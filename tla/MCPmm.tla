------------------------------- MODULE MCPmm -------------------------------
(***************************************************************************)
(* Small memory maps for Pmm: a descriptor below 1 MB, then four segments  *)
(* of every mix of types, of lengths that make the bitmap fit or not, the  *)
(* region table overflow or not.  The loader puts the image and the map in *)
(* a loader segment; the second placement has firmware report them, and    *)
(* the framebuffer, inside the first conventional segment.                 *)
(***************************************************************************)
EXTENDS Pmm

MCLowPage == 2

Layouts == {<<2, 3, 1, 2>>, <<3, 0, 2, 1>>, <<3, 3, 1, 2>>}
SegTypes == [1..4 -> {"conventional", "boot_services", "loader", "acpi"}]

SegBase(lens, i) ==
    MCLowPage + (IF i > 1 THEN lens[1] ELSE 0) + (IF i > 2 THEN lens[2] ELSE 0)
              + (IF i > 3 THEN lens[3] ELSE 0)

MapOf(lens, types, lowType) ==
    <<[base |-> 0, pages |-> 2, type |-> lowType]>> \o
    [i \in 1..4 |-> [base |-> SegBase(lens, i), pages |-> lens[i],
                     type |-> types[i]]]

Beyond == [base |-> 20, pages |-> 2]

\* The first segment of a type, as the place for the image.
Place(map, type) ==
    LET at == {i \in 2..5 : map[i].type = type /\ map[i].pages > 0} IN
    IF at = {} THEN {}
    ELSE LET i == CHOOSE i \in at : \A j \in at : i <= j IN
         {[base |-> map[i].base, pages |-> map[i].pages]}

BootWith(map, seg, fb) ==
    [map |-> map,
     kernel |-> [base |-> seg.base, pages |-> (seg.pages + 1) \div 2],
     stack |-> [base |-> seg.base, pages |-> 1],
     memory_map |-> [base |-> seg.base + seg.pages - 1, pages |-> 1],
     framebuffer |-> fb]

Maps == {MapOf(lens, types, "boot_services") : lens \in Layouts, types \in SegTypes}
MCBoots ==
    UNION {{BootWith(m, seg, Beyond) : seg \in Place(m, "loader")} : m \in Maps}
    \cup
    UNION {{BootWith(m, seg, [base |-> seg.base, pages |-> 2]) :
              seg \in {s \in Place(m, "conventional") : s.pages > 2}} : m \in Maps}

MCCounts == 0..3
=============================================================================
